----------------------------- MODULE MCRpcClient -----------------------------
(* Two servers answer the broadcast, and something with a bad port.         *)
EXTENDS RpcClient

Announced == {Pair("s1", 8765), Pair("s2", 9000), Pair("s2", 70000)}

=============================================================================
