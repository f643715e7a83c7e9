--------------------------- MODULE MCFactoryPage ---------------------------
(* Instances of FactoryPage for TLC: slots of chains and of GETs are       *)
(* interchangeable.                                                        *)
EXTENDS FactoryPage, TLC

Slots == Permutations(Chain) \cup Permutations(Load)
=============================================================================
