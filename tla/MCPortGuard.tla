---------------------------- MODULE MCPortGuard ----------------------------
(* An instance of PortGuard for TLC: three callers, two slots, two trials. *)
EXTENDS PortGuard, TLC

CONSTANTS c1, c2, c3

MCCalls == {c1, c2, c3}
=============================================================================
