--------------------------- MODULE MCGameManager ---------------------------
(* Handlers are interchangeable: no action or property names one.           *)
EXTENDS GameManager, TLC

Symmetry == Permutations(Handlers)

=============================================================================
