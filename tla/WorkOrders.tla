----------------------------- MODULE WorkOrders -----------------------------
(***************************************************************************)
(* apps/api/src/orders/orders.service.ts: first assignment and operational *)
(* transitions of a work order, on a PostgreSQL database at READ           *)
(* COMMITTED.  Technician rows are module TechnicianRegistry's; here a     *)
(* technician is, at each moment, assignable or not.                       *)
(*                                                                         *)
(* Every HTTP call runs on a handler.  A call is split where other calls   *)
(* can run in between: at each read whose result a later statement uses,   *)
(* and at the commit of its transaction.  The writes of one transaction    *)
(* become visible together at the commit; a unique index makes a colliding *)
(* insert wait for the other transaction and then fail, so it is a         *)
(* condition on the commit step.  A call may end at any of its steps       *)
(* (CallDies): the process stopped, the connection dropped, or the         *)
(* statement failed.                                                       *)
(***************************************************************************)
EXTENDS OrderContract, Naturals, FiniteSets

CONSTANTS Handlers,      \* HTTP calls the API serves at the same time
          Operators,     \* ADMIN and DISPATCHER profiles
          Keys,          \* idempotency keys an operator may send
          Requests,      \* service requests
          Orders,        \* identities of work orders
          Technicians,   \* identities of technicians
          MaxVersion,    \* bound on the transitions of one order
          None           \* no row, no order yet

ASSUME NoneAssumption ==
    None \notin Requests \cup Orders \cup Technicians
ASSUME MaxVersionAssumption == MaxVersion \in Nat \ {0}

VARIABLES ready,         \* requests whose completeness is READY_FOR_OPERATION
          assignable,    \* technicians whose row is ACTIVE with a phone
          order,         \* order[o]: work_order row, or None
          transitions,   \* work_order_transition rows
          reservation,   \* assignment_idempotency, by operator and key
          outbox,        \* outbox[o]: events per type about the order
          audit,         \* audit[o]: access_audit_event rows per type
          call,          \* call[h]: what the handler read and will do next
          answers        \* first assignments answered with an order

database == <<ready, assignable, order, transitions, reservation, outbox, audit>>
vars == <<ready, assignable, order, transitions, reservation, outbox, audit,
          call, answers>>

-----------------------------------------------------------------------------
(* Rows.                                                                    *)

OrderRows == [request : Requests, technician : Technicians,
              state : OrderStates, version : 1..MaxVersion]

TransitionRows == [order : Orders, version : 1..MaxVersion,
                   action : TransitionActions, from : OrderStates,
                   to : OrderStates, technician : Technicians]

Reservations == [request : Requests, technician : Technicians, order : Orders]

ASSUME NoRowAssumption == None \notin OrderRows \cup Reservations

EventTypes ==
    {"work_order.assignment_changed", "work_order.en_route", "work_order.cancelled"}

AuditTypes == {"order.assigned", "order.transitioned"}

(* What a handler holds between two steps.                                  *)
Assignments == [pc : {"assignRead", "assignCommit", "assignRetry"},
                actor : Operators, key : Keys,
                request : Requests, technician : Technicians]
TransitionCalls == [pc : {"transitionCommit"}, order : Orders,
                    version : 1..(MaxVersion - 1), row : OrderTransitions,
                    technician : Technicians]
Answers == [actor : Operators, key : Keys, request : Requests,
            technician : Technicians, order : Orders]
AuditCalls == [pc : {"audit"}, event : AuditTypes, order : Orders,
               answer : SUBSET Answers]
Idle == [pc |-> "idle"]
Calls == Assignments \cup TransitionCalls \cup AuditCalls \cup {Idle}

-----------------------------------------------------------------------------
(* Helpers.                                                                 *)

(* The unique index on (workOrderId, version).                              *)
VersionTaken_NoIndex(o, v) == FALSE   \* mutant
VersionTaken(o, v) == \E row \in transitions : row.order = o /\ row.version = v

(* The unique index on work_order.requestId.                                *)
RequestHasOrder_NoIndex(r) == FALSE   \* mutant
RequestHasOrder(r) == \E o \in Orders : order[o] # None /\ order[o].request = r

TransitionRow(o, v, row, t) ==
    [order |-> o, version |-> v, action |-> row.action, from |-> row.from,
     to |-> row.to, technician |-> t]

(* The first version of an order, written with its first assignment.        *)
FirstVersion == 1

(* The reservation already holds this very command.                         *)
SameCommand_RequestOnly(known, r, t) ==   \* mutant
    known # None /\ known.request = r
SameCommand(known, r, t) ==
    known # None /\ known.request = r /\ known.technician = t

(* The contract row for an action in a state.                               *)
Allows_AnyState(row, state, action) == row.action = action   \* mutant
Allows(row, state, action) == row.from = state /\ row.action = action

(* The outbox event a transition emits in its own transaction, if any.      *)
EventsOf_FirstAssignmentOnly(action) ==   \* mutant
    CASE action = "ASSIGN_TECHNICIAN" -> {"work_order.assignment_changed"}
      [] action = "MARK_EN_ROUTE" -> {"work_order.en_route"}
      [] action = "CANCEL" -> {"work_order.cancelled"}
      [] OTHER -> {}
EventsOf(action) ==
    CASE action \in {"ASSIGN_TECHNICIAN", "REASSIGN_TECHNICIAN"} ->
                                         {"work_order.assignment_changed"}
      [] action = "MARK_EN_ROUTE" -> {"work_order.en_route"}
      [] action = "CANCEL" -> {"work_order.cancelled"}
      [] OTHER -> {}

Emit(o, action) ==
    outbox' = [outbox EXCEPT ![o] =
                 [e \in EventTypes |-> IF e \in EventsOf(action) THEN @[e] + 1
                                                                 ELSE @[e]]]

Goto(h, next) == call' = [call EXCEPT ![h] = next]

AnswerOf(c, o) == [actor |-> c.actor, key |-> c.key, request |-> c.request,
                   technician |-> c.technician, order |-> o]

-----------------------------------------------------------------------------
Init ==
    /\ ready = {}
    /\ assignable = {}
    /\ order = [o \in Orders |-> None]
    /\ transitions = {}
    /\ reservation = [source \in Operators \X Keys |-> None]
    /\ outbox = [o \in Orders |-> [e \in EventTypes |-> 0]]
    /\ audit = [o \in Orders |-> [e \in AuditTypes |-> 0]]
    /\ call = [h \in Handlers |-> Idle]
    /\ answers = {}

(* Another component: the media upload that makes a request operable.       *)
RequestBecomesReady(r) ==
    /\ r \notin ready
    /\ ready' = ready \cup {r}
    /\ UNCHANGED <<assignable, order, transitions, reservation, outbox, audit,
                   call, answers>>

(* Another component: a technician is created, edited or deactivated.       *)
TechnicianChanges(t) ==
    /\ assignable' = IF t \in assignable THEN assignable \ {t} ELSE assignable \cup {t}
    /\ UNCHANGED <<ready, order, transitions, reservation, outbox, audit, call,
                   answers>>

-----------------------------------------------------------------------------
(* assign                                                                   *)

(* The lookup before the transaction: an equal command already done is      *)
(* answered again, a different one under the same key is refused.           *)
AssignLookup(h, a, k, r, t) ==
    LET c == [pc |-> "assignRead", actor |-> a, key |-> k, request |-> r,
              technician |-> t]
        known == reservation[<<a, k>>]
    IN  /\ call[h] = Idle
        /\ \/ /\ known = None
              /\ Goto(h, c)
              /\ UNCHANGED answers
           \/ /\ SameCommand(known, r, t)
              /\ answers' = answers \cup {AnswerOf(c, known.order)}
              /\ UNCHANGED call
        /\ UNCHANGED database

(* The transaction's reads: request ready, technician assignable.           *)
AssignRead(h) ==
    /\ call[h].pc = "assignRead"
    /\ IF call[h].request \in ready /\ call[h].technician \in assignable
       THEN Goto(h, [call[h] EXCEPT !.pc = "assignCommit"])
       ELSE Goto(h, Idle)
    /\ UNCHANGED <<database, answers>>

(* Reservation, order, transition, link and event, or P2002.                *)
AssignCommit(h, o) ==
    LET c == call[h]
        row == Transition("ASSIGN_TECHNICIAN", "SOLICITADA", "TECNICO_ASIGNADO")
    IN  /\ c.pc = "assignCommit"
        /\ order[o] = None
        /\ reservation[<<c.actor, c.key>>] = None
        /\ ~RequestHasOrder(c.request)
        /\ reservation' = [reservation EXCEPT ![<<c.actor, c.key>>] =
               [request |-> c.request, technician |-> c.technician, order |-> o]]
        /\ order' = [order EXCEPT ![o] =
               [request |-> c.request, technician |-> c.technician,
                state |-> row.to, version |-> FirstVersion]]
        /\ transitions' = transitions \cup
               {TransitionRow(o, FirstVersion, row, c.technician)}
        /\ Emit(o, row.action)
        /\ Goto(h, [pc |-> "audit", event |-> "order.assigned", order |-> o,
                    answer |-> {AnswerOf(c, o)}])
        /\ UNCHANGED <<ready, assignable, audit, answers>>

AssignConflict(h) ==
    LET c == call[h]
    IN  /\ c.pc = "assignCommit"
        /\ reservation[<<c.actor, c.key>>] # None \/ RequestHasOrder(c.request)
        /\ Goto(h, [c EXCEPT !.pc = "assignRetry"])
        /\ UNCHANGED <<database, answers>>

(* After P2002: answer the equal command that won, or ORDER_ALREADY_EXISTS. *)
AssignRetry(h) ==
    LET c == call[h]
        known == reservation[<<c.actor, c.key>>]
    IN  /\ c.pc = "assignRetry"
        /\ answers' = IF SameCommand(known, c.request, c.technician)
                      THEN answers \cup {AnswerOf(c, known.order)}
                      ELSE answers
        /\ Goto(h, Idle)
        /\ UNCHANGED database

-----------------------------------------------------------------------------
(* transition                                                               *)

(* The transaction's reads and every check made on them.  An operator may   *)
(* name any action of the contract; input is the reassigned technician, or  *)
(* None.  expected is the version the operator last saw.                    *)
TransitionRead(h, o, action, expected, reason, input) ==
    /\ call[h] = Idle
    /\ order[o] # None
    /\ order[o].version = expected
    /\ expected < MaxVersion
    /\ \E row \in OrderTransitions :
          /\ Allows(row, order[o].state, action)
          /\ action \notin {"ASSIGN_TECHNICIAN", "CREATE_FIXED_PAYMENT"}
          /\ action \in ReasonActions => reason
          /\ IF action = "REASSIGN_TECHNICIAN"
             THEN input \in assignable
             ELSE input = None
          /\ Goto(h, [pc |-> "transitionCommit", order |-> o,
                      version |-> expected, row |-> row,
                      technician |-> IF input = None THEN order[o].technician
                                                     ELSE input])
    /\ UNCHANGED <<database, answers>>

(* The update names the order by id only; the unique version of the         *)
(* appended transition is what refuses a stale writer.                      *)
TransitionCommit(h) ==
    LET c == call[h]
        o == c.order
        v == c.version + 1
    IN  /\ c.pc = "transitionCommit"
        /\ ~VersionTaken(o, v)
        /\ order' = [order EXCEPT ![o] =
                       [@ EXCEPT !.state = c.row.to, !.technician = c.technician,
                                 !.version = v]]
        /\ transitions' = transitions \cup {TransitionRow(o, v, c.row, c.technician)}
        /\ Emit(o, c.row.action)
        /\ Goto(h, [pc |-> "audit", event |-> "order.transitioned", order |-> o,
                    answer |-> {}])
        /\ UNCHANGED <<ready, assignable, reservation, audit, answers>>

TransitionConflict(h) ==
    /\ call[h].pc = "transitionCommit"
    /\ VersionTaken(call[h].order, call[h].version + 1)
    /\ Goto(h, Idle)
    /\ UNCHANGED <<database, answers>>

-----------------------------------------------------------------------------
(* The audit row follows the commit, outside its transaction; the answer    *)
(* follows the audit row.                                                   *)
Audit(h) ==
    /\ call[h].pc = "audit"
    /\ audit' = [audit EXCEPT ![call[h].order] =
                    [e \in AuditTypes |-> IF e = call[h].event THEN @[e] + 1 ELSE @[e]]]
    /\ answers' = answers \cup call[h].answer
    /\ Goto(h, Idle)
    /\ UNCHANGED <<ready, assignable, order, transitions, reservation, outbox>>

CallDies(h) ==
    /\ call[h] # Idle
    /\ Goto(h, Idle)
    /\ UNCHANGED <<database, answers>>

Next ==
    \/ \E r \in Requests : RequestBecomesReady(r)
    \/ \E t \in Technicians : TechnicianChanges(t)
    \/ \E h \in Handlers :
         \/ \E a \in Operators, k \in Keys, r \in Requests, t \in Technicians :
               AssignLookup(h, a, k, r, t)
         \/ AssignRead(h)
         \/ \E o \in Orders : AssignCommit(h, o)
         \/ AssignConflict(h)
         \/ AssignRetry(h)
         \/ \E o \in Orders, action \in TransitionActions,
               expected \in 1..MaxVersion, reason \in BOOLEAN,
               input \in Technicians \cup {None} :
               TransitionRead(h, o, action, expected, reason, input)
         \/ TransitionCommit(h)
         \/ TransitionConflict(h)
         \/ Audit(h)
         \/ CallDies(h)

Spec == Init /\ [][Next]_vars

-----------------------------------------------------------------------------
(* Properties.                                                              *)

TypeOK ==
    /\ ready \subseteq Requests
    /\ assignable \subseteq Technicians
    /\ order \in [Orders -> OrderRows \cup {None}]
    /\ transitions \subseteq TransitionRows
    /\ reservation \in [Operators \X Keys -> Reservations \cup {None}]
    /\ outbox \in [Orders -> [EventTypes -> Nat]]
    /\ audit \in [Orders -> [AuditTypes -> Nat]]
    /\ call \in [Handlers -> Calls]
    /\ answers \subseteq Answers

(* The history of an order is one unbroken walk of the transition table:    *)
(* one row per version up to the current one, each starting where the one   *)
(* before ended, the last one ending at the state and the technician of the *)
(* order.  Two operators who read the same version must not both write.     *)
RowAt(o, v, row) == row \in transitions /\ row.order = o /\ row.version = v

OneRowPerVersion(o) ==
    /\ \A row \in transitions : row.order = o => row.version <= order[o].version
    /\ \A v \in 1..order[o].version : \E row \in transitions : RowAt(o, v, row)
    /\ \A row, other \in transitions :
          row.order = o /\ other.order = o /\ row.version = other.version
          => row = other

EachStartsWhereTheLastEnded(o) ==
    \A row, next \in transitions :
        /\ row.order = o /\ next.order = o /\ next.version = row.version + 1
        => row.to = next.from

EndsAtTheOrder(o) ==
    \A row \in transitions : RowAt(o, order[o].version, row) =>
        row.to = order[o].state /\ row.technician = order[o].technician

BeginsWithTheAssignment(o) ==
    \A row \in transitions : RowAt(o, 1, row) => row.action = "ASSIGN_TECHNICIAN"

HistoryIsAWalk ==
    \A o \in Orders :
      /\ order[o] = None => \A row \in transitions : row.order # o
      /\ order[o] # None => /\ OneRowPerVersion(o)
                            /\ EachStartsWhereTheLastEnded(o)
                            /\ EndsAtTheOrder(o)
                            /\ BeginsWithTheAssignment(o)

(* A transition about to commit read a version the order really had, and if *)
(* the order still has it, the row to append starts at the order's state.   *)
(* This is what makes the unique index on versions enough: with TypeOK and  *)
(* HistoryIsAWalk it is the inductive invariant of WorkOrdersProofs.        *)
PendingReadIsPast(h) ==
    call[h].pc = "transitionCommit" =>
      LET c == call[h]
      IN  /\ order[c.order] # None
          /\ c.version <= order[c.order].version
          /\ c.version = order[c.order].version =>
                c.row.from = order[c.order].state

PendingReadsArePast == \A h \in Handlers : PendingReadIsPast(h)

(* However many operators assign the same request at once, under however    *)
(* many keys, it ends up with one order.                                    *)
OneOrderPerRequest ==
    \A o, p \in Orders :
        order[o] # None /\ order[p] # None /\ order[o].request = order[p].request
        => o = p

(* An operator who repeats a key is always answered with the same order,    *)
(* and that order serves the request and was first given to the technician  *)
(* the operator asked for, whichever path answered: commit, replay or the   *)
(* second look after losing the race.                                       *)
AssignmentIsIdempotent ==
    \A a \in answers :
      /\ \A b \in answers : a.actor = b.actor /\ a.key = b.key => a = b
      /\ order[a.order] # None /\ order[a.order].request = a.request
      /\ \E row \in transitions :
            RowAt(a.order, 1, row) /\ row.technician = a.technician

(* The transactional outbox tells the client's app exactly what happened:   *)
(* one event per assignment, en route and cancellation row, none for a      *)
(* transaction that rolled back.                                            *)
RowsWith(o, actions) ==
    Cardinality({row \in transitions : row.order = o /\ row.action \in actions})

OutboxMatchesHistory ==
    \A o \in Orders :
      /\ outbox[o]["work_order.assignment_changed"] =
           RowsWith(o, {"ASSIGN_TECHNICIAN", "REASSIGN_TECHNICIAN"})
      /\ outbox[o]["work_order.en_route"] = RowsWith(o, {"MARK_EN_ROUTE"})
      /\ outbox[o]["work_order.cancelled"] = RowsWith(o, {"CANCEL"})

(* The audit trail, written outside the transaction, may miss a mutation    *)
(* when the process stops in between, but never claims one that was not     *)
(* committed: a refused, conflicting or repeated call leaves no row.        *)
AuditIsTruthful ==
    \A o \in Orders :
      /\ audit[o]["order.assigned"] <= RowsWith(o, {"ASSIGN_TECHNICIAN"})
      /\ audit[o]["order.transitioned"] <=
           RowsWith(o, TransitionActions \ {"ASSIGN_TECHNICIAN"})

(* What is written beside the history, in its transaction or after it,      *)
(* tells of nothing else.                                                   *)
HistoryIsTold == OutboxMatchesHistory /\ AuditIsTruthful

(* The service implements the abstract life cycle: the state column is the  *)
(* abstract state and the rows, read in version order, the abstract log.    *)
Lifecycle == INSTANCE OrderLifecycle WITH
    NoRequest <- None,
    request <- [o \in Orders |-> IF order[o] = None THEN None ELSE order[o].request],
    state <- [o \in Orders |->
                IF order[o] = None THEN "SOLICITADA" ELSE order[o].state],
    log <- [o \in Orders |->
              [v \in 1..(IF order[o] = None THEN 0 ELSE order[o].version) |->
                 LET row == CHOOSE row \in transitions : RowAt(o, v, row)
                 IN  Transition(row.action, row.from, row.to)]]

ImplementsLifecycle == Lifecycle!LifecycleSpec

==========================================================================
