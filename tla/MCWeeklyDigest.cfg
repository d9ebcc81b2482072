SPECIFICATION DigestSpec
CONSTANTS
  Deliveries = {a1}
  DaysPerWeek = 2
  Horizon = 2
  MaxPractice = 2
  MaxRuns = 2
  MaxEvicted = 1
  Nil = Nil
INVARIANTS DigestReportsTheWeek
CHECK_DEADLOCK FALSE
