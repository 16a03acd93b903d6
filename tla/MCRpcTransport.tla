-------------------------- MODULE MCRpcTransport --------------------------
(* Small instances of RpcTransport.                                        *)
EXTENDS RpcTransport

CONSTANTS c1, c2

NoClients == {}
OneClient == {c1}
TwoClients == {c1, c2}
=============================================================================
