---------------------------- MODULE MCWorkOrders ----------------------------
(* Instances of WorkOrders for TLC; the .cfg files choose the sizes.       *)
EXTENDS WorkOrders, TLC

Interchangeable ==
    Permutations(Handlers) \cup Permutations(Operators) \cup Permutations(Keys)
    \cup Permutations(Requests) \cup Permutations(Orders)
    \cup Permutations(Technicians)
=============================================================================
