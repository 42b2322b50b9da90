----------------------------- MODULE MCPayments -----------------------------
(* Instances of Payments for TLC; the .cfg files choose the sizes.         *)
EXTENDS Payments, TLC

Interchangeable ==
    Permutations(Orders) \cup Permutations(Attempts) \cup Permutations(Payments)
    \cup Permutations(Events) \cup Permutations(Browsers) \cup Permutations(Pollers)

(* A bound of payments_approvals: one payment at most is of a status the    *)
(* adapter refuses, or of another amount and approved.                      *)
OneObstacle ==
    LET other(p) == payment'[p].amount = "other"
        refused(p) == payment'[p].status = "OTHER"
        made == {p \in Payments : payment'[p] # None}
    IN  /\ \A p \in made : other(p) => payment'[p].status = "APPROVED"
        /\ \A p, q \in {p \in made : other(p) \/ refused(p)} : p = q
=============================================================================
