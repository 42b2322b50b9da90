------------------------- MODULE OperationsConsole -------------------------
(***************************************************************************)
(* apps/admin-web/app/operational-requests.tsx: one request as an          *)
(* operator's page shows it, the order's buttons, and the calls they make  *)
(* through app/api/operations.  The page reads the orders once, when it is *)
(* opened; after that it knows only what its own calls answer, while other *)
(* operators, the payment provider and the client move the order.  No      *)
(* button waits for the call it made.                                      *)
(*                                                                         *)
(* The API is what module WorkOrders shows it to be: a move is committed   *)
(* whole, against the version it was asked for.  Who may not act, unready  *)
(* requests and unassignable technicians are calls that fail.              *)
(***************************************************************************)
EXTENDS Sequences, OrderContract, Naturals

CONSTANTS Clicks,       \* calls under way at the same time
          Technicians,
          MaxVersion,   \* bound on the versions of the order
          None

VARIABLES rows,     \* the order's rows on the API, by version; the last is the order
          listing,  \* where the one reading of the orders stands, and what it answered
          copy,     \* the page's copy of the order, or None
          click     \* click[c]: where a call of the page stands

vars == <<rows, listing, copy, click>>

Rows == [state : OrderStates, technician : Technicians]
Copies == [version : 1..MaxVersion, state : OrderStates, technician : Technicians]
ViewOf(v) == [version |-> v, state |-> rows[v].state, technician |-> rows[v].technician]
Order == IF rows = <<>> THEN None ELSE ViewOf(Len(rows))

Idle == [pc |-> "idle"]
Calls == [pc : {"sent"}, action : TransitionActions, seen : Copies \cup {None},
          technician : Technicians \cup {None}]
Answers == [pc : {"answered"}, action : TransitionActions, view : Copies]
Offer(action, technician) ==
    [pc |-> "sent", action |-> action, seen |-> copy, technician |-> technician]

Init ==
    /\ rows = <<>>
    /\ listing = [pc |-> "sent", order |-> None]
    /\ copy = None
    /\ click = [c \in Clicks |-> Idle]

-----------------------------------------------------------------------------
(* The orders, asked for with the technicians when the page is opened.  An  *)
(* error the proxy answers is a list without orders.                        *)
ServeOrders ==
    /\ listing.pc = "sent"
    /\ \E order \in {Order, None} : listing' = [pc |-> "served", order |-> order]
    /\ UNCHANGED <<rows, copy, click>>

ShowOrders ==
    /\ listing.pc = "served"
    /\ copy' = listing.order
    /\ listing' = [pc |-> "shown", order |-> None]
    /\ UNCHANGED <<rows, click>>

(* The choice of a technician, offered while the page has no order of the   *)
(* request; the technicians to choose from come with the orders.            *)
Assign(c, t) ==
    /\ listing.pc = "shown" /\ copy = None
    /\ click[c] = Idle
    /\ click' = [click EXCEPT ![c] = Offer("ASSIGN_TECHNICIAN", t)]
    /\ UNCHANGED <<rows, listing, copy>>

(* The buttons of an order.  Its resolution creates the charge.             *)
Offered(order, action) ==
    \/ action = "MARK_EN_ROUTE" /\ order.state = "TECNICO_ASIGNADO"
    \/ action = "START_SERVICE" /\ order.state \in {"TECNICO_ASIGNADO", "EN_CAMINO"}
    \/ action = "FINISH_WORK" /\ order.state = "EN_ATENCION"
    \/ action = "CREATE_FIXED_PAYMENT" /\ order.state = "TRABAJO_FINALIZADO"
    \/ action = "CANCEL" /\ order.state \notin {"EN_ATENCION", "TRABAJO_FINALIZADO", "CANCELADA"}

Press(c, action) ==
    /\ copy # None /\ click[c] = Idle
    /\ Offered(copy, action)
    /\ click' = [click EXCEPT ![c] = Offer(action, None)]
    /\ UNCHANGED <<rows, listing, copy>>

Reassign(c, t) ==
    /\ copy # None /\ click[c] = Idle
    /\ copy.state = "TECNICO_ASIGNADO" /\ t # copy.technician
    /\ click' = [click EXCEPT ![c] = Offer("REASSIGN_TECHNICIAN", t)]
    /\ UNCHANGED <<rows, listing, copy>>

-----------------------------------------------------------------------------
(* The API.                                                                 *)

Permits_AnyVersion(call) ==   \* mutant
    /\ rows # <<>>
    /\ \E move \in OrderTransitions : move.action = call.action /\ move.from = Order.state
Permits(call) ==
    /\ rows # <<>>
    /\ Len(rows) = call.seen.version
    /\ \E move \in OrderTransitions : move.action = call.action /\ move.from = Order.state

Committed(state, technician) ==
    /\ Len(rows) < MaxVersion
    /\ rows' = Append(rows, [state |-> state, technician |-> technician])

(* The call is served; its answer reaches the page or is lost.              *)
Answer(c) ==
    \/ click' = [click EXCEPT ![c] = [pc |-> "answered", action |-> click[c].action, view |-> Order']]
    \/ click' = [click EXCEPT ![c] = Idle]

ServeAssign(c) ==
    LET call == click[c]
    IN  /\ call.pc = "sent" /\ call.action = "ASSIGN_TECHNICIAN"
        /\ rows = <<>>
        /\ Committed("TECNICO_ASIGNADO", call.technician)
        /\ Answer(c)
        /\ UNCHANGED <<listing, copy>>

ServeMove(c) ==
    LET call == click[c]
    IN  /\ call.pc = "sent" /\ call.action # "ASSIGN_TECHNICIAN"
        /\ Permits(call)
        /\ \E move \in OrderTransitions :
             /\ move.action = call.action /\ move.from = Order.state
             /\ Committed(move.to, IF call.technician = None THEN Order.technician ELSE call.technician)
        /\ Answer(c)
        /\ UNCHANGED <<listing, copy>>

(* A call refused, or not served: the page says so and keeps its copy.      *)
Refused(c) ==
    /\ click[c].pc = "sent"
    /\ click' = [click EXCEPT ![c] = Idle]
    /\ UNCHANGED <<rows, listing, copy>>

(* Another page, the provider or the client moves the order.                *)
OthersMove ==
    /\ \/ rows = <<>> /\ \E t \in Technicians : Committed("TECNICO_ASIGNADO", t)
       \/ /\ rows # <<>>
          /\ \E move \in OrderTransitions, t \in Technicians :
               /\ move.from = Order.state
               /\ (move.action = "REASSIGN_TECHNICIAN") = (t # Order.technician)
               /\ Committed(move.to, t)
    /\ UNCHANGED <<listing, copy, click>>

-----------------------------------------------------------------------------
(* An answer replaces the page's copy.  The one to a resolution has no      *)
(* technician: it is merged into the copy.                                  *)
Shown_Merged(answer) == [answer.view EXCEPT !.technician = copy.technician]   \* mutant
Shown(answer) ==
    IF answer.action = "CREATE_FIXED_PAYMENT"
    THEN [answer.view EXCEPT !.technician = copy.technician]
    ELSE answer.view

Answered(c) ==
    LET answer == click[c]
    IN  /\ answer.pc = "answered"
        /\ \/ answer.action = "ASSIGN_TECHNICIAN" /\ copy' = answer.view
           \/ answer.action # "ASSIGN_TECHNICIAN" /\ copy' = Shown(answer)
        /\ click' = [click EXCEPT ![c] = Idle]
        /\ UNCHANGED <<rows, listing>>

Next ==
    \/ ServeOrders \/ ShowOrders \/ OthersMove
    \/ \E c \in Clicks :
         \/ \E t \in Technicians : Assign(c, t) \/ Reassign(c, t)
         \/ \E action \in TransitionActions : Press(c, action)
         \/ ServeAssign(c) \/ ServeMove(c) \/ Refused(c) \/ Answered(c)

Spec == Init /\ [][Next]_vars

-----------------------------------------------------------------------------
(* Properties.                                                              *)

TypeOK ==
    /\ rows \in Seq(Rows) /\ Len(rows) <= MaxVersion
    /\ listing \in [pc : {"sent", "served", "shown"}, order : Copies \cup {None}]
    /\ copy \in Copies \cup {None}
    /\ click \in [Clicks -> {Idle} \cup Calls \cup Answers]

(* REQ-005-004: what the operator is shown of the order, put together from  *)
(* a list, whole answers and merged ones, is a row the order had, with the  *)
(* technician it had then.                                                  *)
ShowsWhatWas == copy # None => copy.version <= Len(rows) /\ copy = ViewOf(copy.version)

(* Answers to clicks made together reach the page in any order, and none    *)
(* takes it back to a version before the one it shows.                      *)
ConsoleNeverGoesBack ==
    [][copy # None => copy' # None /\ copy'.version >= copy.version]_vars

(* The API does not compare the technician of a reassignment with the       *)
(* order's: that it goes to another, and the client is told of a change     *)
(* that is one, rests on what the page offered when it was clicked.         *)
ReassignsToAnother ==
    [][\A c \in Clicks :
         /\ click[c].pc = "sent" /\ click[c].action = "REASSIGN_TECHNICIAN"
         /\ click'[c] # click[c] /\ rows' # rows
         => Order'.technician # Order.technician]_vars

=============================================================================
