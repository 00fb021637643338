---------------------------- MODULE MCNodeRegistry --------------------------
(* Instances of NodeRegistry: the boards and the connections are            *)
(* interchangeable.                                                         *)
EXTENDS NodeRegistry, TLC

CONSTANTS n1, n2, h1, h2

Symmetry == Permutations(Nodes) \cup Permutations(Handlers)
=============================================================================
