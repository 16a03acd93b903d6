---------------------------- MODULE MCBlockCache ----------------------------
EXTENDS BlockCache, TLC

CONSTANTS f1, d1, p1, p2, b1, b2

(* Two blocks of a remote file and one of meta-data, in a cache of two.    *)
MCKeys == {<<f1, 1>>, <<f1, 2>>, <<d1, 1>>}
MCCalls == f1 :> {"read", "write", "fsync", "consist", "trunc", "close"}
           @@ d1 :> {"update", "fsync"}
MCAlike == Permutations({p1, p2}) \cup Permutations({b1, b2})
=============================================================================
