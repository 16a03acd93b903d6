---------------------------- MODULE MCProcWait ----------------------------
(* A small instance of ProcWait for TLC.  Roots appears in Init only, so   *)
(* the actions and the invariants treat the two processes of this host     *)
(* alike: of two states that differ in their names one is enough, whichever *)
(* of them Init starts with.                                               *)
EXTENDS ProcWait, TLC

CONSTANTS r1, p1, a1

Alike == Permutations({r1, p1})
=============================================================================
