--------------------------- MODULE MCAdministration ---------------------------
(* Instances of Administration for TLC.                                      *)
EXTENDS Administration, TLC

Interchangeable == Permutations(Handlers) \cup Permutations(Founders)
===============================================================================
