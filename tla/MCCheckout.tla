----------------------------- MODULE MCCheckout -----------------------------
(* Payments in three scopes, all explored by one run: two payments, or two  *)
(* polls at work at once, or two webhook events, with one of the others.    *)
EXTENDS MCPayments

VARIABLE scope

Scopes == {[payments |-> 2, polls |-> 1, events |-> 1],
           [payments |-> 1, polls |-> 2, events |-> 1],
           [payments |-> 1, polls |-> 1, events |-> 2]}

ScopedInit == Init /\ scope \in Scopes

ScopedNext ==
    /\ Next
    /\ Cardinality({p \in Payments : payment'[p] # None}) <= scope.payments
    /\ Cardinality({w \in Pollers : poller'[w].pc # "idle"}) <= scope.polls
    /\ Cardinality(receipts') <= scope.events
    /\ UNCHANGED scope

ScopedSpec == ScopedInit /\ [][ScopedNext]_<<vars, scope>>
=============================================================================
