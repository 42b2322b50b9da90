--------------------------- MODULE MCResolutions ---------------------------
(* Instances of Resolutions for TLC.                                       *)
EXTENDS Resolutions, TLC

Interchangeable ==
    Permutations(Handlers) \cup Permutations(Operators) \cup Permutations(Keys)
    \cup Permutations(Orders) \cup Permutations(Payloads \ Outdated)
=============================================================================
