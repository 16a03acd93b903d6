---------------------------- MODULE MCFsConsist ----------------------------
(* FsConsist for TLC: one process on each of two workstations.              *)
EXTENDS FsConsist, TLC

CONSTANTS c1, c2, p1, p2

TwoHosts == p1 :> c1 @@ p2 :> c2
=============================================================================
