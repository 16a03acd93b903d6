-------------------------- MODULE MCRpcChannels --------------------------
(* Small instances of the channel table for TLC.                           *)
EXTENDS RpcChannels, TLC

CONSTANTS p1, p2, p3, s1, s2

MCProcs == {p1, p2, p3}
MCServers == {s1, s2}

(* Processes are interchangeable; so are servers.                          *)
Symmetry == Permutations(MCProcs) \cup Permutations(MCServers)
=============================================================================
