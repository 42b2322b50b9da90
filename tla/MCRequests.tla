---------------------------- MODULE MCRequests ----------------------------
(* Instances of Requests for TLC.                                          *)
EXTENDS Requests, TLC

Interchangeable ==
    Permutations(Handlers) \cup Permutations(Clients) \cup Permutations(Requests)
    \cup Permutations(Places) \cup Permutations(Files)
=============================================================================
