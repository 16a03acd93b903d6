--------------------------- MODULE MCHandleTable ---------------------------
(* A small instance of HandleTable for TLC.  One server process both       *)
(* answers consistency calls and walks the table, one at a time.           *)
EXTENDS HandleTable, TLC

CONSTANTS u1, u2, k1, f1, s1, s2, m1, m2, m3, m4

Alike == Permutations(Users) \cup Permutations(Streams)
=============================================================================
