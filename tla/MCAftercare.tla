---------------------------- MODULE MCAftercare ----------------------------
(* Instances of Aftercare for TLC.                                         *)
EXTENDS Aftercare, TLC

Interchangeable ==
    Permutations(Handlers) \cup Permutations(Clients) \cup Permutations(Operators)
    \cup Permutations(Keys) \cup Permutations(Orders) \cup Permutations(Incidents)
    \cup Permutations(Inputs)
=============================================================================
