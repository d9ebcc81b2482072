SPECIFICATION Spec
CONSTANTS
  s1 = s1
  s2 = s2
  c1 = c1
  c2 = c2
  q1 = q1
  q2 = q2
  r1 = r1
  r2 = r2
  Requests <- MCRequests
  Sessions <- MCSessions
  Chapters <- MCChapters
  Questions <- MCQuestions
  QuestionsOf <- MCQuestionsOf
  MasteryAttempts = 3
  DailyCap = 100
  MaxDay = 1
SYMMETRY Symmetry
PROPERTIES
  AnswersOnlyAdded
CHECK_DEADLOCK FALSE
