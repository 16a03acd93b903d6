---------------------------- MODULE MCFileLocks ----------------------------
(* Three processes, two of them on one workstation.                        *)
EXTENDS FileLocks, TLC

CONSTANTS p1, p2, p3, c1, c2

MCHost == p1 :> c1 @@ p2 :> c1 @@ p3 :> c2
=============================================================================
