---------------------------- MODULE CustomerPage ----------------------------
(***************************************************************************)
(* apps/customer-web/app/customer-requests.tsx: one request as its         *)
(* client's page shows it, the order with what was billed for it, the      *)
(* buttons to pay and to conform, and the loads that refresh it.  A load   *)
(* lists the requests and then asks for the billing of each order that can *)
(* have one.  "Actualizar" waits for the load under way; the one that      *)
(* follows a conformity does not.                                          *)
(*                                                                         *)
(* The API is what modules WorkOrders and Payments show it to be, down to  *)
(* an operator who takes a payment for confirmed and a checkout that       *)
(* writes over an attempt already approved.                                *)
(***************************************************************************)
EXTENDS Sequences, OrderContract, Naturals

CONSTANTS Clicks,       \* payments and conformities under way at the same time
          Loads,        \* loads under way at the same time
          MaxVersion,   \* bound on the versions of the order
          None

VARIABLES rows,       \* states of the order on the API, by version
          payment,    \* status of the last attempt, as the billing answers it
          item,       \* the page's copy of the order and its billing, or None
          loading,
          load,       \* load[l]: where a load stands
          click,      \* click[c]: where a payment or a conformity stands
          billed      \* history: what the billing said while the order was past payment

vars == <<rows, payment, item, loading, load, click, billed>>
page == <<item, loading, load, click>>

PaymentViews == {"PENDIENTE", "APROBADO", "RECHAZADO", "CANCELADO"}
Items == [version : 1..MaxVersion, state : OrderStates, billing : PaymentViews \cup {None}]
State == rows[Len(rows)]
PastPayment == {"PENDIENTE_CONFORMIDAD", "CERRADA"}
Listing == IF rows = <<>> THEN None ELSE [version |-> Len(rows), state |-> State, billing |-> None]

Idle == [pc |-> "idle"]
LoadOf(pc, copy, late) == [pc |-> pc, item |-> copy, late |-> late]
Begun == LoadOf("sent", None, FALSE)   \* late: another load was shown since it began
Under(l, next) == load' = [load EXCEPT ![l] = next]

(* The page opens with a load.                                              *)
FirstLoad(l) == [k \in Loads |-> IF k = l THEN Begun ELSE Idle]
NoClick == [c \in Clicks |-> Idle]

Init ==
    /\ rows = <<>> /\ payment = "PENDIENTE" /\ billed = {}
    /\ item = None /\ loading = TRUE
    /\ load = FirstLoad(CHOOSE l \in Loads : TRUE)
    /\ click = NoClick

-----------------------------------------------------------------------------
(* The API: the order moves along its contract, an approval with it.        *)
Committed(state) == Len(rows) < MaxVersion /\ rows' = Append(rows, state)
Billed == billed' = billed \cup IF rows' # <<>> /\ State' \in PastPayment THEN {payment'} ELSE {}

OrderMoves ==
    /\ \/ rows = <<>> /\ Committed("TECNICO_ASIGNADO")
       \/ /\ rows # <<>>
          /\ \E move \in OrderTransitions : move.from = State /\ Committed(move.to)
    /\ UNCHANGED <<payment, page>>
    /\ Billed

Verdict(status) ==
    /\ rows # <<>> /\ State \in {"PENDIENTE_PAGO", "PENDIENTE_CONFORMIDAD", "CERRADA"}
    /\ payment = "PENDIENTE" /\ payment' = status
    /\ IF status = "APROBADO" /\ State = "PENDIENTE_PAGO"
       THEN Committed("PENDIENTE_CONFORMIDAD")
       ELSE UNCHANGED rows
    /\ UNCHANGED page
    /\ Billed

Revert(status) ==
    /\ payment = "APROBADO" /\ status # "APROBADO"
    /\ payment' = status
    /\ UNCHANGED <<rows, page>>
    /\ Billed

-----------------------------------------------------------------------------
(* load.                                                                    *)

Refresh(l) ==
    /\ ~loading /\ load[l] = Idle
    /\ Under(l, Begun)
    /\ loading' = TRUE
    /\ UNCHANGED <<rows, payment, billed, item, click>>

ServeList_Cached(l) ==   \* mutant
    /\ load[l].pc = "sent"
    /\ \E v \in 1..Len(rows) :
         Under(l, [load[l] EXCEPT !.pc = "listed",
                                  !.item = [version |-> v, state |-> rows[v], billing |-> None]])
    /\ UNCHANGED <<rows, payment, billed, item, loading, click>>
ServeList(l) ==
    /\ load[l].pc = "sent"
    /\ Under(l, [load[l] EXCEPT !.pc = "listed", !.item = Listing])
    /\ UNCHANGED <<rows, payment, billed, item, loading, click>>

Billable(order) == order # None /\ order.state \in {"PENDIENTE_PAGO", "PENDIENTE_CONFORMIDAD", "CERRADA"}

(* The billing of the listed order, or nothing when it is refused.          *)
Hydrate(l) ==
    /\ load[l].pc = "listed"
    /\ \/ ~Billable(load[l].item) /\ Under(l, [load[l] EXCEPT !.pc = "ready"])
       \/ /\ Billable(load[l].item)
          /\ \E billing \in {payment, None} :
               Under(l, [load[l] EXCEPT !.pc = "ready", !.item.billing = billing])
    /\ UNCHANGED <<rows, payment, billed, item, loading, click>>

Show(l) ==
    /\ load[l].pc = "ready"
    /\ item' = load[l].item
    /\ loading' = FALSE
    /\ load' = [k \in Loads |-> IF k = l \/ load[k] = Idle THEN Idle
                                ELSE [load[k] EXCEPT !.late = TRUE]]
    /\ UNCHANGED <<rows, payment, billed, click>>

(* No session, no connection, an error: the page keeps what it shows.       *)
NotLoaded(l) ==
    /\ load[l].pc \in {"sent", "listed"}
    /\ Under(l, Idle)
    /\ loading' = FALSE
    /\ UNCHANGED <<rows, payment, billed, item, click>>

LoadGoesOn(l) == ServeList(l) \/ Hydrate(l) \/ Show(l) \/ NotLoaded(l)

-----------------------------------------------------------------------------
(* pay and conform, each against the version the page shows.                *)

Press(c, what) ==
    /\ click[c] = Idle /\ item # None
    /\ item.state = IF what = "pay" THEN "PENDIENTE_PAGO" ELSE "PENDIENTE_CONFORMIDAD"
    /\ click' = [click EXCEPT ![c] = [pc |-> what, seen |-> item.version]]
    /\ UNCHANGED <<rows, payment, billed, item, loading, load>>

Answer(c, pc) == click' = [click EXCEPT ![c] = [pc |-> pc, seen |-> @.seen]]

(* startCheckout: the attempt under way or, after one that failed, another. *)
ServePay(c) ==
    /\ click[c].pc = "pay"
    /\ State = "PENDIENTE_PAGO" /\ Len(rows) = click[c].seen
    /\ payment' \in {"PENDIENTE", "CANCELADO"}
    /\ Answer(c, IF payment' = "PENDIENTE" THEN "link" ELSE "refused") \/ Answer(c, "refused")
    /\ UNCHANGED <<rows, item, loading, load>>
    /\ Billed

(* conformity: an order already conformed answers as if it were now.        *)
ServeConform(c) ==
    /\ click[c].pc = "conform"
    /\ \/ State = "CERRADA" /\ UNCHANGED rows
       \/ State = "PENDIENTE_CONFORMIDAD" /\ Len(rows) = click[c].seen /\ Committed("CERRADA")
    /\ Answer(c, "conformed") \/ Answer(c, "refused")
    /\ UNCHANGED <<payment, item, loading, load>>
    /\ Billed

Refused(c) ==
    /\ click[c].pc \in {"pay", "conform", "refused"}
    /\ click' = [click EXCEPT ![c] = Idle]
    /\ UNCHANGED <<rows, payment, billed, item, loading, load>>

Conformed(c, l) ==
    /\ click[c].pc = "conformed" /\ load[l] = Idle
    /\ click' = [click EXCEPT ![c] = Idle]
    /\ Under(l, Begun)
    /\ loading' = TRUE
    /\ UNCHANGED <<rows, payment, billed, item>>

(* The page goes to the checkout and is opened anew after it.               *)
Pays(c, l) ==
    /\ click[c].pc = "link"
    /\ item' = None /\ loading' = TRUE
    /\ load' = FirstLoad(l)
    /\ click' = NoClick
    /\ UNCHANGED <<rows, payment, billed>>

Next ==
    \/ OrderMoves
    \/ \E status \in PaymentViews \ {"PENDIENTE"} : Verdict(status)
    \/ \E status \in PaymentViews : Revert(status)
    \/ \E l \in Loads : Refresh(l) \/ LoadGoesOn(l)
    \/ \E c \in Clicks :
         \/ Press(c, "pay") \/ Press(c, "conform")
         \/ ServePay(c) \/ ServeConform(c) \/ Refused(c)
         \/ \E l \in Loads : Conformed(c, l) \/ Pays(c, l)

Spec == Init /\ [][Next]_vars

(* The browser answers every call, with an error when there is no answer.   *)
Fairness == \A l \in Loads : WF_vars(LoadGoesOn(l))
FairSpec == Spec /\ Fairness

-----------------------------------------------------------------------------
(* Properties.                                                              *)

TypeOK ==
    /\ rows \in Seq(OrderStates) /\ Len(rows) <= MaxVersion
    /\ payment \in PaymentViews
    /\ item \in Items \cup {None}
    /\ loading \in BOOLEAN /\ billed \subseteq PaymentViews
    /\ load \in [Loads -> {Idle} \cup
                  [pc : {"sent", "listed", "ready"}, item : Items \cup {None}, late : BOOLEAN]]
    /\ click \in [Clicks -> {Idle} \cup
                  [pc : {"pay", "conform", "refused", "link", "conformed"}, seen : 1..MaxVersion]]

(* REQ-007-008 and 009: an order past its payment is shown with a payment   *)
(* the API gave such an order, never with the one that was pending before.  *)
(* The two come from two calls, the order moves between them, and loads     *)
(* cross; it holds as the billing is asked for after the order.  The page   *)
(* contradicts itself, a pending payment beside an order to conform, only   *)
(* when the API does: an operator took the payment for confirmed, or a      *)
(* checkout wrote over an approved attempt.                                 *)
PaidAsShown ==
    item # None /\ item.state \in PastPayment /\ item.billing # None
    => item.billing \in billed

(* The client's order goes back on the page only when loads cross: the load *)
(* that shows an older one began before another was shown.                  *)
BackOnlyWhenCrossed ==
    [][\A l \in Loads :
         /\ item # None /\ load[l] # Idle /\ load[l].pc = "ready"
         /\ load'[l] = Idle /\ item' # None
         => item'.version >= item.version \/ load[l].late]_vars

(* Whatever the calls answer, "Actualizando" ends.                          *)
LoadingEnds == loading ~> ~loading

=============================================================================
