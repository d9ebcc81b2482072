-------------------------- MODULE MCWeeklyDigest --------------------------
(***************************************************************************)
(* The weekly digest by itself for TLC, with weeks of more than a day.     *)
(***************************************************************************)
EXTENDS WeeklyDigest

=============================================================================
