--------------------------- MODULE MCFsRecovery ---------------------------
(* Small instances of FsRecovery for TLC.                                  *)
EXTENDS FsRecovery

CONSTANTS s1, s2, h1, h2, u1, u2
=============================================================================
