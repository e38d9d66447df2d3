---- MODULE MCRing ----
(***************************************************************************)
(* Small instances of Ring for TLC.  Producers are interchangeable, and so *)
(* are consumers; symmetry is used only where no liveness is checked.      *)
(***************************************************************************)
EXTENDS Ring, TLC

CONSTANTS p1, p2, c1, c2

MCProducers == {p1, p2}
MCConsumers == {c1}
MCTwoConsumers == {c1, c2}
Symmetry == Permutations(MCProducers)
====
