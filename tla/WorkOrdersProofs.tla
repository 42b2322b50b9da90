-------------------------- MODULE WorkOrdersProofs --------------------------
(* Theorems about WorkOrders, for every value of its constants.            *)
EXTENDS WorkOrders, FiniteSetTheorems, SequenceTheorems, TLAPS

(* Every row of the transition table is typed by the contract's states and  *)
(* actions.                                                                 *)
LEMMA TableIsTyped ==
    OrderTransitions \subseteq
        [action : TransitionActions, from : OrderStates, to : OrderStates]
BY DEF OrderTransitions, Transition, TransitionActions, OrderStates

(* The first assignment is a row of the table.                              *)
LEMMA AssignmentRow ==
    LET row == Transition("ASSIGN_TECHNICIAN", "SOLICITADA", "TECNICO_ASIGNADO")
    IN  /\ row \in OrderTransitions
        /\ row.action = "ASSIGN_TECHNICIAN"
        /\ row.from = "SOLICITADA" /\ row.to = "TECNICO_ASIGNADO"
BY DEF OrderTransitions, Transition

(* Emitting the events of an action keeps the outbox a table of counts.     *)
LEMMA EmitIsTyped ==
    ASSUME NEW o \in Orders, NEW action,
           outbox \in [Orders -> [EventTypes -> Nat]], Emit(o, action)
    PROVE  outbox' \in [Orders -> [EventTypes -> Nat]]
BY DEF Emit

(* The version a pending transition read belongs to an order that exists.   *)
(* TypeOK alone is not inductive: the commit would write over no row.       *)
PendingOrdersExist ==
    \A h \in Handlers : call[h].pc = "transitionCommit" => order[call[h].order] # None

TypeInv == TypeOK /\ PendingOrdersExist

(* Only a commit writes a row of work_order, and none removes one.          *)
LEMMA CallKinds ==
    ASSUME TypeOK, NEW h \in Handlers
    PROVE  /\ call[h].pc \in {"assignRead", "assignCommit", "assignRetry"} =>
                call[h] \in Assignments
           /\ call[h].pc = "transitionCommit" => call[h] \in TransitionCalls
           /\ call[h].pc = "audit" => call[h] \in AuditCalls
BY DEF TypeOK, Calls, Assignments, TransitionCalls, AuditCalls, Idle

LEMMA TypeInvIsInductive == TypeInv /\ [Next]_vars => TypeInv'
<1> SUFFICES ASSUME TypeInv, [Next]_vars PROVE TypeInv'
  OBVIOUS
<1> USE DEF TypeInv, TypeOK, PendingOrdersExist
<1>1. ASSUME NEW r \in Requests, RequestBecomesReady(r) PROVE TypeInv'
  BY <1>1 DEF RequestBecomesReady
<1>2. ASSUME NEW t \in Technicians, TechnicianChanges(t) PROVE TypeInv'
  BY <1>2 DEF TechnicianChanges
<1>3. ASSUME NEW h \in Handlers, NEW a \in Operators, NEW k \in Keys,
             NEW r \in Requests, NEW t \in Technicians, AssignLookup(h, a, k, r, t)
      PROVE TypeInv'
  <2> DEFINE known == reservation[<<a, k>>]
             c == [pc |-> "assignRead", actor |-> a, key |-> k, request |-> r,
                   technician |-> t]
  <2>1. known \in Reservations \cup {None}
    OBVIOUS
  <2>2. UNCHANGED <<ready, assignable, order, transitions, reservation, outbox, audit>>
    BY <1>3 DEF AssignLookup, database
  <2>3. c \in Assignments /\ c.pc # "transitionCommit"
    BY DEF Assignments
  <2>4. CASE known = None
    <3>1. Goto(h, c) /\ UNCHANGED answers
      BY <1>3, <2>4 DEF AssignLookup, SameCommand
    <3>2. call' \in [Handlers -> Calls]
      BY <3>1, <2>3 DEF Goto, Calls
    <3>3. PendingOrdersExist'
      BY <2>2, <2>3, <3>1 DEF Goto
    <3> QED BY <2>2, <3>1, <3>2, <3>3
  <2>5. CASE known # None
    <3>1. answers' = answers \cup {AnswerOf(c, known.order)} /\ UNCHANGED call
      BY <1>3, <2>5 DEF AssignLookup, SameCommand
    <3>2. known.order \in Orders
      BY <2>1, <2>5 DEF Reservations
    <3>3. AnswerOf(c, known.order) \in Answers
      BY <3>2 DEF AnswerOf, Answers
    <3> QED BY <2>2, <3>1, <3>3
  <2> QED BY <2>4, <2>5
<1>4. ASSUME NEW h \in Handlers, AssignRead(h) PROVE TypeInv'
  <2>1. call[h] \in Assignments
    BY <1>4, CallKinds DEF AssignRead
  <2>2. PICK next \in Assignments \cup {Idle} : Goto(h, next)
    BY <1>4, <2>1 DEF AssignRead, Assignments
  <2>3. call' \in [Handlers -> Calls]
    BY <2>2 DEF Goto, Calls
  <2>4. PendingOrdersExist'
    BY <1>4, <2>2 DEF AssignRead, Goto, database, Assignments, Idle
  <2> QED BY <1>4, <2>3, <2>4 DEF AssignRead, database
<1>5. ASSUME NEW h \in Handlers, NEW o \in Orders, AssignCommit(h, o) PROVE TypeInv'
  <2>1. call[h] \in Assignments
    BY <1>5, CallKinds DEF AssignCommit
  <2>2. /\ order' \in [Orders -> OrderRows \cup {None}]
        /\ \A p \in Orders : order[p] # None => order'[p] = order[p]
    BY <1>5, <2>1, MaxVersionAssumption
       DEF AssignCommit, FirstVersion, OrderRows, OrderStates, Assignments, Transition
  <2>3. transitions' \subseteq TransitionRows
    BY <1>5, <2>1, MaxVersionAssumption
       DEF AssignCommit, FirstVersion, TransitionRow, TransitionRows, OrderStates,
           TransitionActions, Assignments, Transition
  <2>4. reservation' \in [Operators \X Keys -> Reservations \cup {None}]
    BY <1>5, <2>1 DEF AssignCommit, Reservations, Assignments
  <2>5. outbox' \in [Orders -> [EventTypes -> Nat]]
    BY <1>5, EmitIsTyped DEF AssignCommit
  <2>6. call' \in [Handlers -> Calls]
    BY <1>5, <2>1, MaxVersionAssumption
       DEF AssignCommit, Goto, Calls, AuditCalls, AuditTypes, Answers, AnswerOf,
           Assignments
  <2>7. PendingOrdersExist'
    <3> SUFFICES ASSUME NEW i \in Handlers, call'[i].pc = "transitionCommit"
                 PROVE  order'[call'[i].order] # None
      OBVIOUS
    <3>1. i # h /\ call'[i] = call[i]
      BY <1>5 DEF AssignCommit, Goto
    <3>2. call[i].order \in Orders
      BY <3>1, CallKinds DEF TransitionCalls
    <3> QED BY <2>2, <3>1, <3>2
  <2> QED BY <1>5, <2>2, <2>3, <2>4, <2>5, <2>6, <2>7 DEF AssignCommit
<1>6. ASSUME NEW h \in Handlers, AssignConflict(h) PROVE TypeInv'
  <2>1. call[h] \in Assignments
    BY <1>6, CallKinds DEF AssignConflict
  <2> QED BY <1>6, <2>1 DEF AssignConflict, Goto, database, Calls, Assignments
<1>7. ASSUME NEW h \in Handlers, AssignRetry(h) PROVE TypeInv'
  <2>1. call[h] \in Assignments
    BY <1>7, CallKinds DEF AssignRetry
  <2>2. answers' \subseteq Answers
    BY <1>7, <2>1 DEF AssignRetry, SameCommand, Answers, AnswerOf, Assignments, Reservations
  <2> QED BY <1>7, <2>2 DEF AssignRetry, Goto, database, Calls, Idle
<1>8. ASSUME NEW h \in Handlers, NEW o \in Orders, NEW action \in TransitionActions,
             NEW expected \in 1..MaxVersion, NEW reason \in BOOLEAN,
             NEW input \in Technicians \cup {None},
             TransitionRead(h, o, action, expected, reason, input)
      PROVE TypeInv'
  <2>1. order[o] \in OrderRows
    BY <1>8 DEF TransitionRead
  <2>2. expected \in 1..(MaxVersion - 1)
    BY <1>8, MaxVersionAssumption DEF TransitionRead
  <2>3. (IF input = None THEN order[o].technician ELSE input) \in Technicians
    BY <2>1 DEF OrderRows
  <2>4. PICK c \in TransitionCalls : c.order = o /\ Goto(h, c)
    BY <1>8, <2>2, <2>3 DEF TransitionRead, TransitionCalls
  <2>5. call' \in [Handlers -> Calls]
    BY <2>4 DEF Goto, Calls
  <2>6. PendingOrdersExist'
    BY <1>8, <2>4 DEF Goto, TransitionRead, database
  <2> QED BY <1>8, <2>5, <2>6 DEF TransitionRead, database
<1>9. ASSUME NEW h \in Handlers, TransitionCommit(h) PROVE TypeInv'
  <2> DEFINE c == call[h]
             v == c.version + 1
  <2>1. c \in TransitionCalls /\ order[c.order] \in OrderRows
    BY <1>9, CallKinds DEF TransitionCommit, TransitionCalls
  <2>2. v \in 1..MaxVersion
    BY <2>1, MaxVersionAssumption DEF TransitionCalls
  <2>3. c.row \in [action : TransitionActions, from : OrderStates, to : OrderStates]
    BY <2>1, TableIsTyped DEF TransitionCalls
  <2>4. transitions' \subseteq TransitionRows
    BY <1>9, <2>1, <2>2, <2>3
       DEF TransitionCommit, TransitionRow, TransitionRows, TransitionCalls
  <2>5. outbox' \in [Orders -> [EventTypes -> Nat]]
    BY <1>9, <2>1, EmitIsTyped DEF TransitionCommit, TransitionCalls
  <2>6. call' \in [Handlers -> Calls]
    BY <1>9, <2>1, <2>2
       DEF TransitionCommit, Goto, Calls, AuditCalls, AuditTypes, TransitionCalls
  <2>7. /\ order' \in [Orders -> OrderRows \cup {None}]
        /\ \A p \in Orders : order[p] # None => order'[p] \in OrderRows
    BY <1>9, <2>1, <2>2, <2>3 DEF TransitionCommit, OrderRows, TransitionCalls
  <2>8. PendingOrdersExist'
    <3> SUFFICES ASSUME NEW i \in Handlers, call'[i].pc = "transitionCommit"
                 PROVE  order'[call'[i].order] # None
      OBVIOUS
    <3>1. i # h /\ call'[i] = call[i]
      BY <1>9 DEF TransitionCommit, Goto
    <3>2. call[i].order \in Orders /\ order[call[i].order] # None
      BY <3>1, CallKinds DEF TransitionCalls
    <3> QED BY <2>7, <3>1, <3>2, NoRowAssumption
  <2> QED BY <1>9, <2>4, <2>5, <2>6, <2>7, <2>8 DEF TransitionCommit
<1>10. ASSUME NEW h \in Handlers, TransitionConflict(h) PROVE TypeInv'
  BY <1>10 DEF TransitionConflict, Goto, database, Calls, Idle
<1>11. ASSUME NEW h \in Handlers, Audit(h) PROVE TypeInv'
  <2>1. call[h] \in AuditCalls
    BY <1>11, CallKinds DEF Audit
  <2> QED BY <1>11, <2>1 DEF Audit, Goto, Calls, AuditCalls, AuditTypes, Idle
<1>12. ASSUME NEW h \in Handlers, CallDies(h) PROVE TypeInv'
  BY <1>12 DEF CallDies, Goto, database, Calls, Idle
<1>13. CASE UNCHANGED vars
  BY <1>13 DEF vars
<1> QED BY <1>1, <1>2, <1>3, <1>4, <1>5, <1>6, <1>7, <1>8, <1>9, <1>10, <1>11, <1>12,
           <1>13 DEF Next

(* Type correctness of the work-order service.                              *)
THEOREM TypeCorrect == Spec => []TypeOK
<1>1. Init => TypeInv
  BY DEF Init, TypeInv, TypeOK, PendingOrdersExist, Calls, Idle
<1>2. TypeInv => TypeOK
  BY DEF TypeInv
<1> QED BY <1>1, <1>2, TypeInvIsInductive, PTL DEF Spec

-----------------------------------------------------------------------------
(* Orders, their history, the reservations and the outbox change only in    *)
(* the two commits.                                                         *)
LEMMA OnlyCommitsWrite ==
    [Next]_vars => \/ UNCHANGED <<order, transitions, reservation, outbox>>
                   \/ \E h \in Handlers, o \in Orders : AssignCommit(h, o)
                   \/ \E h \in Handlers : TransitionCommit(h)
<1> SUFFICES ASSUME [Next]_vars, ~UNCHANGED <<order, transitions, reservation, outbox>>
             PROVE  \/ \E h \in Handlers, o \in Orders : AssignCommit(h, o)
                    \/ \E h \in Handlers : TransitionCommit(h)
  OBVIOUS
<1>1. Next
  BY DEF vars
<1>2. ASSUME NEW r \in Requests, RequestBecomesReady(r) PROVE FALSE
  BY <1>2 DEF RequestBecomesReady
<1>3. ASSUME NEW t \in Technicians, TechnicianChanges(t) PROVE FALSE
  BY <1>3 DEF TechnicianChanges
<1>4. ASSUME NEW h \in Handlers, NEW a \in Operators, NEW k \in Keys,
             NEW r \in Requests, NEW t \in Technicians, AssignLookup(h, a, k, r, t)
      PROVE  FALSE
  BY <1>4 DEF AssignLookup, database
<1>5. ASSUME NEW h \in Handlers, NEW o \in Orders, NEW action \in TransitionActions,
             NEW expected \in 1..MaxVersion, NEW reason \in BOOLEAN,
             NEW input \in Technicians \cup {None},
             TransitionRead(h, o, action, expected, reason, input)
      PROVE  FALSE
  BY <1>5 DEF TransitionRead, database
<1>6. ASSUME NEW h \in Handlers,
             \/ AssignRead(h) \/ AssignConflict(h) \/ AssignRetry(h)
             \/ TransitionConflict(h) \/ Audit(h) \/ CallDies(h)
      PROVE  FALSE
  BY <1>6 DEF AssignRead, AssignConflict, AssignRetry, TransitionConflict, Audit,
     CallDies, database
<1> QED BY <1>1, <1>2, <1>3, <1>4, <1>5, <1>6 DEF Next

(* What a transition commit does to the rows of work_order.                 *)
LEMMA TransitionKeepsRequests ==
    ASSUME TypeInv, NEW h \in Handlers, TransitionCommit(h)
    PROVE  \A p \in Orders : /\ order'[p] # None <=> order[p] # None
                             /\ order[p] # None =>
                                  order'[p].request = order[p].request
<1> DEFINE o == call[h].order
<1>1. call[h] \in TransitionCalls /\ order[o] # None
  BY CallKinds DEF TypeInv, PendingOrdersExist, TransitionCommit
<1>2. order[o] \in OrderRows
  BY <1>1 DEF TypeInv, TypeOK, TransitionCalls
<1>3. order'[o] = [order[o] EXCEPT !.state = call[h].row.to,
                                   !.technician = call[h].technician,
                                   !.version = call[h].version + 1]
  BY <1>1 DEF TransitionCommit, TypeInv, TypeOK, TransitionCalls
<1>4. order'[o] # None /\ order'[o].request = order[o].request
  <2>1. order'[o].request = order[o].request
    BY <1>2, <1>3 DEF OrderRows
  <2>2. /\ call[h].row.to \in OrderStates
        /\ call[h].technician \in Technicians
        /\ call[h].version + 1 \in 1..MaxVersion
    BY <1>1, TableIsTyped, MaxVersionAssumption DEF TransitionCalls
  <2>3. order'[o] \in OrderRows
    BY <1>2, <1>3, <2>2 DEF OrderRows
  <2> QED BY <2>1, <2>3, NoRowAssumption
<1> QED BY <1>1, <1>4 DEF TransitionCommit, TypeInv, TypeOK

(* One order per request, however many operators assign it at once: every   *)
(* placing commit finds the request without an order.                       *)
THEOREM OneOrderEach == Spec => []OneOrderPerRequest
<1>1. Init => TypeInv /\ OneOrderPerRequest
  BY DEF Init, TypeInv, TypeOK, PendingOrdersExist, Calls, Idle, OneOrderPerRequest
<1>2. ASSUME TypeInv, OneOrderPerRequest, [Next]_vars
      PROVE  TypeInv' /\ OneOrderPerRequest'
  <2>1. TypeInv'
    BY <1>2, TypeInvIsInductive
  <2>2. CASE UNCHANGED <<order, transitions>>
    BY <1>2, <2>1, <2>2 DEF OneOrderPerRequest
  <2>3. ASSUME NEW h \in Handlers, NEW o \in Orders, AssignCommit(h, o)
        PROVE  OneOrderPerRequest'
    <3>1. /\ order'[o].request = call[h].request
          /\ \A p \in Orders \ {o} : order'[p] = order[p]
      BY <1>2, <2>3 DEF AssignCommit, TypeInv, TypeOK
    <3>2. \A p \in Orders : order[p] # None => order[p].request # call[h].request
      BY <2>3 DEF AssignCommit, RequestHasOrder
    <3> QED BY <1>2, <3>1, <3>2 DEF OneOrderPerRequest
  <2>4. ASSUME NEW h \in Handlers, TransitionCommit(h) PROVE OneOrderPerRequest'
    BY <1>2, <2>4, TransitionKeepsRequests DEF OneOrderPerRequest
  <2> QED BY <1>2, <2>1, <2>2, <2>3, <2>4, OnlyCommitsWrite
<1> QED BY <1>1, <1>2, PTL DEF Spec

-----------------------------------------------------------------------------
(* The history of an order.                                                 *)
WalkInv == TypeInv /\ HistoryIsAWalk /\ PendingReadsArePast

(* A step leaves the pending transition of a handler alone, or it is the    *)
(* read that starts one.                                                    *)
LEMMA PendingComesFromARead ==
    ASSUME TypeInv, [Next]_vars, NEW i \in Handlers, call'[i].pc = "transitionCommit"
    PROVE  \/ call'[i] = call[i]
           \/ /\ UNCHANGED <<order, transitions>>
              /\ order[call'[i].order] # None
              /\ call'[i].version = order[call'[i].order].version
              /\ call'[i].row.from = order[call'[i].order].state
<1> USE DEF TypeInv, TypeOK
<1> DEFINE Goal == \/ call'[i] = call[i]
                   \/ /\ UNCHANGED <<order, transitions>>
                      /\ order[call'[i].order] # None
                      /\ call'[i].version = order[call'[i].order].version
                      /\ call'[i].row.from = order[call'[i].order].state
<1> SUFFICES Goal
  OBVIOUS
<1>1. ASSUME NEW r \in Requests, RequestBecomesReady(r) PROVE Goal
  BY <1>1 DEF RequestBecomesReady
<1>2. ASSUME NEW t \in Technicians, TechnicianChanges(t) PROVE Goal
  BY <1>2 DEF TechnicianChanges
<1>3. ASSUME NEW h \in Handlers, NEW a \in Operators, NEW k \in Keys,
             NEW r \in Requests, NEW t \in Technicians, AssignLookup(h, a, k, r, t)
      PROVE  Goal
  BY <1>3 DEF AssignLookup, Goto
<1>4. ASSUME NEW h \in Handlers, NEW o \in Orders, AssignCommit(h, o) PROVE Goal
  BY <1>4 DEF AssignCommit, Goto
<1>5. ASSUME NEW h \in Handlers, AssignRead(h) \/ AssignConflict(h) PROVE Goal
  <2>1. call[h] \in Assignments
    BY <1>5, CallKinds DEF AssignRead, AssignConflict
  <2> QED BY <1>5, <2>1 DEF AssignRead, AssignConflict, Goto, Idle, Assignments
<1>6. ASSUME NEW h \in Handlers,
             \/ AssignRetry(h) \/ TransitionConflict(h) \/ Audit(h) \/ CallDies(h)
      PROVE  Goal
  BY <1>6 DEF AssignRetry, TransitionConflict, Audit, CallDies, Goto, Idle
<1>7. ASSUME NEW h \in Handlers, NEW o \in Orders, NEW action \in TransitionActions,
             NEW expected \in 1..MaxVersion, NEW reason \in BOOLEAN,
             NEW input \in Technicians \cup {None},
             TransitionRead(h, o, action, expected, reason, input)
      PROVE  Goal
  BY <1>7 DEF TransitionRead, Allows, Goto, database
<1>8. ASSUME NEW h \in Handlers, TransitionCommit(h) PROVE Goal
  BY <1>8 DEF TransitionCommit, Goto
<1>9. CASE UNCHANGED vars
  BY <1>9 DEF vars
<1> QED BY <1>1, <1>2, <1>3, <1>4, <1>5, <1>6, <1>7, <1>8, <1>9 DEF Next

(* The first assignment begins a walk.                                      *)
LEMMA AssignmentBeginsWalk ==
    ASSUME TypeInv, TypeInv', HistoryIsAWalk, NEW h \in Handlers, NEW o \in Orders,
           AssignCommit(h, o)
    PROVE  HistoryIsAWalk'
<1> DEFINE new == TransitionRow(o, 1, Transition("ASSIGN_TECHNICIAN", "SOLICITADA",
                                                 "TECNICO_ASIGNADO"),
                                call[h].technician)
<1>1. /\ transitions' = transitions \cup {new}
      /\ order[o] = None
      /\ order'[o].version = 1
      /\ order'[o].state = new.to /\ order'[o].technician = new.technician
      /\ \A p \in Orders \ {o} : order'[p] = order[p]
  BY DEF AssignCommit, FirstVersion, TypeInv, TypeOK, TransitionRow, Transition
<1>2. new.order = o /\ new.version = 1 /\ new.action = "ASSIGN_TECHNICIAN"
  BY DEF TransitionRow, Transition
<1>3. \A row \in transitions : row.order # o
  BY <1>1 DEF HistoryIsAWalk
<1>4. order'[o] # None
  <2>1. call[h] \in Assignments
    BY CallKinds DEF AssignCommit, TypeInv
  <2>2. order'[o] \in OrderRows
    BY <2>1, MaxVersionAssumption
       DEF AssignCommit, FirstVersion, TypeInv, TypeOK, OrderRows, OrderStates, Assignments, Transition
  <2> QED BY <2>2, NoRowAssumption
<1>5. /\ OneRowPerVersion(o)' /\ EachStartsWhereTheLastEnded(o)'
      /\ EndsAtTheOrder(o)' /\ BeginsWithTheAssignment(o)'
  BY <1>1, <1>2, <1>3
     DEF OneRowPerVersion, EachStartsWhereTheLastEnded, EndsAtTheOrder,
         BeginsWithTheAssignment, RowAt
<1>6. ASSUME NEW p \in Orders \ {o}
      PROVE  /\ order'[p] = None => \A row \in transitions' : row.order # p
             /\ order'[p] # None =>
                  /\ OneRowPerVersion(p)' /\ EachStartsWhereTheLastEnded(p)'
                  /\ EndsAtTheOrder(p)' /\ BeginsWithTheAssignment(p)'
  BY <1>1, <1>2, <1>6
     DEF HistoryIsAWalk, OneRowPerVersion, EachStartsWhereTheLastEnded, EndsAtTheOrder,
         BeginsWithTheAssignment, RowAt
<1> QED BY <1>4, <1>5, <1>6 DEF HistoryIsAWalk

(* A transition that commits read the current version: the unique index     *)
(* refuses every other.                                                     *)
LEMMA CommitIsCurrent ==
    ASSUME WalkInv, NEW h \in Handlers, TransitionCommit(h)
    PROVE  /\ call[h] \in TransitionCalls /\ order[call[h].order] \in OrderRows
           /\ call[h].version = order[call[h].order].version
           /\ call[h].row.from = order[call[h].order].state
<1> DEFINE c == call[h]
           o == c.order
<1>1. c \in TransitionCalls /\ order[o] # None /\ order[o] \in OrderRows
  BY CallKinds DEF WalkInv, TypeInv, TypeOK, PendingOrdersExist, TransitionCommit,
     TransitionCalls
<1>2. c.version <= order[o].version
      /\ (c.version = order[o].version => c.row.from = order[o].state)
  BY DEF WalkInv, PendingReadsArePast, PendingReadIsPast, TransitionCommit
<1>3. c.version + 1 \notin 1..order[o].version
  BY <1>1 DEF WalkInv, HistoryIsAWalk, OneRowPerVersion, RowAt, TransitionCommit,
     VersionTaken, TransitionCalls
<1>4. c.version \in Nat /\ order[o].version \in Nat
  BY <1>1, MaxVersionAssumption DEF TransitionCalls, OrderRows
<1> QED BY <1>1, <1>2, <1>3, <1>4

(* ... so its row continues the walk.                                       *)
LEMMA TransitionContinuesWalk ==
    ASSUME WalkInv, TypeInv', NEW h \in Handlers, TransitionCommit(h)
    PROVE  HistoryIsAWalk'
<1> PICK o \in Orders : o = call[h].order
  BY CommitIsCurrent DEF TransitionCalls
<1> DEFINE c == call[h]
           v == order[o].version
           new == TransitionRow(o, v + 1, c.row, c.technician)
<1>1. /\ c \in TransitionCalls /\ order[o] \in OrderRows /\ v \in Nat
      /\ v >= 1
      /\ c.version = v /\ c.row.from = order[o].state
  BY CommitIsCurrent, MaxVersionAssumption DEF TransitionCalls, OrderRows
<1>2. /\ transitions' = transitions \cup {new}
      /\ order'[o].version = v + 1
      /\ order'[o].state = c.row.to /\ order'[o].technician = c.technician
      /\ \A p \in Orders \ {o} : order'[p] = order[p]
  BY <1>1 DEF TransitionCommit, WalkInv, TypeInv, TypeOK, OrderRows
<1>3. /\ new.order = o /\ new.version = v + 1 /\ new.from = order[o].state
      /\ new.to = c.row.to /\ new.technician = c.technician
  BY <1>1 DEF TransitionRow
<1>4. order[o] # None /\ order'[o] # None
  BY <1>1, TransitionKeepsRequests, NoRowAssumption DEF WalkInv
<1>5. /\ OneRowPerVersion(o) /\ EachStartsWhereTheLastEnded(o)
      /\ EndsAtTheOrder(o) /\ BeginsWithTheAssignment(o)
  BY <1>1, <1>4 DEF WalkInv, HistoryIsAWalk
<1>6. \A row \in transitions : row.version \in Nat
  BY MaxVersionAssumption DEF WalkInv, TypeInv, TypeOK, TransitionRows
<1> HIDE DEF new
<1>7. OneRowPerVersion(o)'
  <2>1. \A row \in transitions : row.order = o => row.version <= v
    BY <1>5 DEF OneRowPerVersion
  <2>2. \A row \in transitions' : row.order = o => row.version <= v + 1
    BY <1>1, <1>2, <1>3, <1>6, <2>1
  <2>3. ASSUME NEW n \in 1..(v + 1) PROVE \E row \in transitions' : RowAt(o, n, row)'
    <3>1. CASE n = v + 1
      BY <1>2, <1>3, <3>1 DEF RowAt
    <3>2. CASE n \in 1..v
      BY <1>2, <1>5, <3>2 DEF OneRowPerVersion, RowAt
    <3> QED BY <1>1, <3>1, <3>2
  <2>4. \A row, other \in transitions' :
           row.order = o /\ other.order = o /\ row.version = other.version
           => row = other
    <3>1. \A row \in transitions : row.order = o => row.version # v + 1
      BY <1>1, <1>6, <2>1
    <3> QED BY <1>2, <1>3, <1>5, <3>1 DEF OneRowPerVersion
  <2> QED BY <1>2, <2>2, <2>3, <2>4 DEF OneRowPerVersion
<1>8. EachStartsWhereTheLastEnded(o)'
  <2>1. \A row \in transitions : row.order = o => row.version <= v
    BY <1>5 DEF OneRowPerVersion
  <2>2. ASSUME NEW row \in transitions', NEW next \in transitions',
               row.order = o, next.order = o, next.version = row.version + 1
        PROVE  row.to = next.from
    <3>1. CASE row \in transitions /\ next \in transitions
      BY <1>5, <2>2, <3>1 DEF EachStartsWhereTheLastEnded
    <3>2. CASE row = new
      BY <1>1, <1>2, <1>3, <1>6, <2>1, <2>2, <3>2
    <3>3. CASE row \in transitions /\ next = new
      <4>1. row.version = v
        BY <1>1, <1>3, <1>6, <2>2, <3>3
      <4> QED BY <1>3, <1>5, <2>2, <3>3, <4>1 DEF EndsAtTheOrder, RowAt
    <3> QED BY <1>2, <3>1, <3>2, <3>3
  <2> QED BY <2>2 DEF EachStartsWhereTheLastEnded
<1>9. EndsAtTheOrder(o)' /\ BeginsWithTheAssignment(o)'
  <2>1. \A row \in transitions : row.order = o => row.version # v + 1
    BY <1>1, <1>5, <1>6 DEF OneRowPerVersion
  <2>2. EndsAtTheOrder(o)'
    BY <1>2, <1>3, <2>1 DEF EndsAtTheOrder, RowAt
  <2>3. BeginsWithTheAssignment(o)'
    <3>1. v + 1 # 1
      BY <1>1
    <3> QED BY <1>2, <1>3, <1>5, <3>1 DEF BeginsWithTheAssignment, RowAt
  <2> QED BY <2>2, <2>3
<1>10. ASSUME NEW p \in Orders \ {o}
       PROVE  /\ order'[p] = None => \A row \in transitions' : row.order # p
              /\ order'[p] # None =>
                   /\ OneRowPerVersion(p)' /\ EachStartsWhereTheLastEnded(p)'
                   /\ EndsAtTheOrder(p)' /\ BeginsWithTheAssignment(p)'
  BY <1>2, <1>3, <1>10
     DEF WalkInv, HistoryIsAWalk, OneRowPerVersion, EachStartsWhereTheLastEnded,
         EndsAtTheOrder, BeginsWithTheAssignment, RowAt
<1> QED BY <1>1, <1>4, <1>7, <1>8, <1>9, <1>10 DEF HistoryIsAWalk

LEMMA WalkInvInitially == Init => WalkInv
BY DEF Init, WalkInv, TypeInv, TypeOK, PendingOrdersExist, Calls, Idle, HistoryIsAWalk,
   PendingReadsArePast, PendingReadIsPast

LEMMA WalkInvIsInductive == WalkInv /\ [Next]_vars => WalkInv'
<1> SUFFICES ASSUME WalkInv, [Next]_vars PROVE WalkInv'
  OBVIOUS
<1>1. TypeInv'
  BY TypeInvIsInductive DEF WalkInv
<1>2. HistoryIsAWalk'
  <2>1. CASE UNCHANGED <<order, transitions>>
    BY <2>1 DEF WalkInv, HistoryIsAWalk, OneRowPerVersion,
       EachStartsWhereTheLastEnded, EndsAtTheOrder, BeginsWithTheAssignment, RowAt
  <2> QED BY <1>1, <2>1, OnlyCommitsWrite, AssignmentBeginsWalk,
             TransitionContinuesWalk DEF WalkInv
<1>3. ASSUME NEW i \in Handlers, call'[i].pc = "transitionCommit"
      PROVE  PendingReadIsPast(i)'
  <2> DEFINE p == call'[i].order
  <2>1. CASE call'[i] = call[i]
    <3>1. /\ p \in Orders /\ call[i] \in TransitionCalls
          /\ order[p] # None /\ order[p] \in OrderRows
          /\ call[i].version <= order[p].version
          /\ call[i].version = order[p].version => call[i].row.from = order[p].state
      BY <1>3, <2>1, CallKinds DEF WalkInv, TypeInv, TypeOK, TransitionCalls,
         PendingReadsArePast, PendingReadIsPast
    <3>2. CASE UNCHANGED <<order, transitions>>
      BY <2>1, <3>1, <3>2 DEF PendingReadIsPast
    <3>3. ASSUME NEW h \in Handlers, NEW o \in Orders, AssignCommit(h, o)
          PROVE  PendingReadIsPast(i)'
      <4>1. order'[p] = order[p]
        BY <3>1, <3>3 DEF AssignCommit, WalkInv, TypeInv, TypeOK
      <4> QED BY <2>1, <3>1, <4>1 DEF PendingReadIsPast
    <3>4. ASSUME NEW h \in Handlers, TransitionCommit(h)
          PROVE  PendingReadIsPast(i)'
      <4>1. CASE call[h].order # p
        <5>1. order'[p] = order[p]
          BY <3>1, <3>4, <4>1 DEF TransitionCommit, WalkInv, TypeInv, TypeOK
        <5> QED BY <2>1, <3>1, <5>1 DEF PendingReadIsPast
      <4>2. CASE call[h].order = p
        <5>1. order'[p].version = order[p].version + 1
          BY <3>1, <3>4, <4>2, CommitIsCurrent
             DEF TransitionCommit, WalkInv, TypeInv, TypeOK, OrderRows
        <5>2. order'[p] # None
          BY <3>1, <3>4, TransitionKeepsRequests DEF WalkInv
        <5>3. call[i].version \in Nat /\ order[p].version \in Nat
          BY <3>1, MaxVersionAssumption DEF TransitionCalls, OrderRows
        <5> QED BY <2>1, <3>1, <5>1, <5>2, <5>3 DEF PendingReadIsPast
      <4> QED BY <4>1, <4>2
    <3> QED BY <3>2, <3>3, <3>4, OnlyCommitsWrite
  <2>2. CASE /\ UNCHANGED <<order, transitions>>
             /\ order[p] # None
             /\ call'[i].version = order[p].version
             /\ call'[i].row.from = order[p].state
    <3>1. order[p].version <= order[p].version
      BY <1>1, <1>3, <2>2, CallKinds, MaxVersionAssumption
         DEF TypeInv, TypeOK, Calls, Assignments, TransitionCalls, AuditCalls, Idle,
             OrderRows
    <3> QED BY <2>2, <3>1 DEF PendingReadIsPast
  <2> QED BY <1>3, <2>1, <2>2, PendingComesFromARead DEF WalkInv
<1>4. PendingReadsArePast'
  BY <1>3 DEF PendingReadsArePast, PendingReadIsPast
<1> QED BY <1>1, <1>2, <1>4 DEF WalkInv

(* The history of every order is an unbroken walk of the transition table.  *)
THEOREM HistoryIsWalk == Spec => []HistoryIsAWalk
<1>1. WalkInv => HistoryIsAWalk
  BY DEF WalkInv
<1> QED BY <1>1, WalkInvInitially, WalkInvIsInductive, PTL DEF Spec

-----------------------------------------------------------------------------
(* Repeated assignments.                                                    *)

(* The order a reservation or an answer names serves its request, and began *)
(* with its technician.                                                     *)
Serves(r) ==
    /\ order[r.order] # None /\ order[r.order].request = r.request
    /\ \E row \in transitions : RowAt(r.order, 1, row) /\ row.technician = r.technician

(* An answer, given or about to be, is the reservation of its key.          *)
Reserved(a) ==
    reservation[<<a.actor, a.key>>] =
        [request |-> a.request, technician |-> a.technician, order |-> a.order]

ReservationsServe ==
    \A source \in Operators \X Keys :
        reservation[source] # None => Serves(reservation[source])
PendingAnswersReserved ==
    \A h \in Handlers : call[h].pc = "audit" => \A a \in call[h].answer : Reserved(a)

AnswerInv ==
    /\ WalkInv /\ ReservationsServe /\ PendingAnswersReserved
    /\ \A a \in answers : Reserved(a)

(* What an order serves, and how it began, does not change.                 *)
LEMMA ServesStays ==
    ASSUME WalkInv, [Next]_vars, NEW r, r.order \in Orders, Serves(r)
    PROVE  Serves(r)'
<1>1. CASE UNCHANGED <<order, transitions>>
  BY <1>1 DEF Serves, RowAt
<1>2. ASSUME NEW h \in Handlers, NEW o \in Orders, AssignCommit(h, o) PROVE Serves(r)'
  <2>1. order'[r.order] = order[r.order] /\ transitions \subseteq transitions'
    BY <1>2 DEF AssignCommit, Serves, WalkInv, TypeInv, TypeOK
  <2> QED BY <2>1 DEF Serves, RowAt
<1>3. ASSUME NEW h \in Handlers, TransitionCommit(h) PROVE Serves(r)'
  <2>1. transitions \subseteq transitions'
    BY <1>3 DEF TransitionCommit
  <2> QED BY <1>3, <2>1, TransitionKeepsRequests DEF Serves, RowAt, WalkInv
<1> QED BY <1>1, <1>2, <1>3, OnlyCommitsWrite

(* A reservation is made once, by the commit that places its order.         *)
LEMMA ReservationStays ==
    ASSUME TypeInv, [Next]_vars, NEW source \in Operators \X Keys,
           reservation[source] # None
    PROVE  reservation'[source] = reservation[source]
<1>1. ASSUME NEW h \in Handlers, NEW o \in Orders, AssignCommit(h, o)
      PROVE  reservation'[source] = reservation[source]
  BY <1>1 DEF AssignCommit, TypeInv, TypeOK
<1>2. ASSUME NEW h \in Handlers, TransitionCommit(h)
      PROVE  reservation'[source] = reservation[source]
  BY <1>2 DEF TransitionCommit
<1> QED BY <1>1, <1>2, OnlyCommitsWrite

LEMMA ReservedStays ==
    ASSUME TypeInv, [Next]_vars, NEW a \in Answers, Reserved(a)
    PROVE  Reserved(a)'
<1>1. <<a.actor, a.key>> \in Operators \X Keys
  BY DEF Answers
<1>2. [request |-> a.request, technician |-> a.technician, order |-> a.order]
        \in Reservations
  BY DEF Answers, Reservations
<1>3. reservation[<<a.actor, a.key>>] # None
  BY <1>2, NoRowAssumption DEF Reserved
<1> QED BY <1>1, <1>3, ReservationStays DEF Reserved

(* The commit of an assignment reserves its key.                            *)
LEMMA AssignCommitReserves ==
    ASSUME TypeInv, TypeInv', NEW h \in Handlers, NEW o \in Orders, AssignCommit(h, o)
    PROVE  /\ \A s \in Operators \X Keys :
                \/ reservation'[s] = reservation[s]
                \/ Serves(reservation[s])'
           /\ \A a \in call'[h].answer : Reserved(a)'
           /\ \A i \in Handlers \ {h} : call'[i] = call[i]
<1> DEFINE c == call[h]
           source == <<c.actor, c.key>>
           new == [request |-> c.request, technician |-> c.technician, order |-> o]
           row == TransitionRow(o, 1, Transition("ASSIGN_TECHNICIAN", "SOLICITADA",
                                                 "TECNICO_ASIGNADO"), c.technician)
<1>1. c \in Assignments
  BY CallKinds DEF AssignCommit, TypeInv
<1>2. /\ source \in Operators \X Keys
      /\ reservation' = [reservation EXCEPT ![source] = new]
      /\ reservation'[source] = new
  BY <1>1 DEF AssignCommit, TypeInv, TypeOK, Assignments
<1>3. order'[o] # None /\ order'[o].request = c.request
  <2>1. order'[o] = [request |-> c.request, technician |-> c.technician,
                     state |-> "TECNICO_ASIGNADO", version |-> 1]
    BY DEF AssignCommit, TypeInv, TypeOK, FirstVersion, Transition
  <2>2. order'[o] \in OrderRows
    BY <1>1, <2>1, MaxVersionAssumption DEF OrderRows, OrderStates, Assignments
  <2> QED BY <2>1, <2>2, NoRowAssumption
<1>4. row \in transitions' /\ row.order = o /\ row.version = 1
      /\ row.technician = c.technician
  BY DEF AssignCommit, FirstVersion, TransitionRow
<1>5. ASSUME NEW s \in Operators \X Keys, reservation'[s] # reservation[s]
      PROVE  Serves(reservation[s])'
  <2>1. reservation'[s] = new
    BY <1>2, <1>5 DEF TypeInv, TypeOK
  <2>2. \E line \in transitions' :
           line.order = o /\ line.version = 1 /\ line.technician = c.technician
    BY <1>4
  <2> HIDE DEF row
  <2>3. reservation'[s].order = o /\ reservation'[s].request = c.request
        /\ reservation'[s].technician = c.technician
    BY <2>1
  <2> QED BY <1>3, <2>2, <2>3 DEF Serves, RowAt
<1>6. \A a \in call'[h].answer : Reserved(a)'
  <2>1. call'[h].answer = {AnswerOf(c, o)}
    BY DEF AssignCommit, Goto, TypeInv, TypeOK
  <2> QED BY <1>2, <2>1 DEF Reserved, AnswerOf
<1>7. \A i \in Handlers \ {h} : call'[i] = call[i]
  BY DEF AssignCommit, Goto, TypeInv, TypeOK
<1> QED BY <1>5, <1>6, <1>7

(* An answer put together from a key's reservation is that reservation.     *)
LEMMA ReplayIsReserved ==
    ASSUME TypeInv, NEW c \in Assignments,
           SameCommand(reservation[<<c.actor, c.key>>], c.request, c.technician)
    PROVE  Reserved(AnswerOf(c, reservation[<<c.actor, c.key>>].order))
<1>1. reservation[<<c.actor, c.key>>] \in Reservations
  BY DEF TypeInv, TypeOK, Assignments, SameCommand
<1> QED BY <1>1 DEF Reserved, AnswerOf, SameCommand, Reservations

(* New answers come from a replay or from the audit step that ends a call.  *)
LEMMA AnswersAreReserved ==
    ASSUME AnswerInv, [Next]_vars, NEW a \in answers'
    PROVE  Reserved(a)
<1> USE DEF AnswerInv
<1>1. ASSUME NEW h \in Handlers, NEW actor \in Operators, NEW k \in Keys,
             NEW r \in Requests, NEW t \in Technicians, AssignLookup(h, actor, k, r, t)
      PROVE  Reserved(a)
  <2> DEFINE c == [pc |-> "assignRead", actor |-> actor, key |-> k, request |-> r,
                   technician |-> t]
  <2>1. c \in Assignments
    BY DEF Assignments
  <2>2. \/ a \in answers
        \/ /\ SameCommand(reservation[<<c.actor, c.key>>], c.request, c.technician)
           /\ a = AnswerOf(c, reservation[<<c.actor, c.key>>].order)
    BY <1>1 DEF AssignLookup
  <2> QED BY <2>1, <2>2, ReplayIsReserved DEF WalkInv
<1>2. ASSUME NEW h \in Handlers, AssignRetry(h) PROVE Reserved(a)
  <2>1. call[h] \in Assignments
    BY <1>2, CallKinds DEF AssignRetry, WalkInv, TypeInv
  <2> QED BY <1>2, <2>1, ReplayIsReserved DEF AssignRetry, WalkInv
<1>3. ASSUME NEW h \in Handlers, Audit(h) PROVE Reserved(a)
  BY <1>3 DEF Audit, PendingAnswersReserved
<1>4. CASE UNCHANGED answers
  BY <1>4
<1>5. ASSUME NEW h \in Handlers,
             \/ AssignRead(h) \/ AssignConflict(h) \/ TransitionConflict(h)
             \/ TransitionCommit(h) \/ CallDies(h) \/ \E o \in Orders : AssignCommit(h, o)
             \/ \E o \in Orders, action \in TransitionActions,
                   expected \in 1..MaxVersion, reason \in BOOLEAN,
                   input \in Technicians \cup {None} :
                   TransitionRead(h, o, action, expected, reason, input)
      PROVE  UNCHANGED answers
  BY <1>5 DEF AssignRead, AssignConflict, TransitionConflict, TransitionCommit, CallDies,
     AssignCommit, TransitionRead
<1>6. ASSUME \/ \E r \in Requests : RequestBecomesReady(r)
             \/ \E t \in Technicians : TechnicianChanges(t)
             \/ UNCHANGED vars
      PROVE  UNCHANGED answers
  BY <1>6 DEF RequestBecomesReady, TechnicianChanges, vars
<1> QED BY <1>1, <1>2, <1>3, <1>4, <1>5, <1>6 DEF Next

(* A call reaches its audit step by a commit.                               *)
LEMMA AuditFollowsACommit ==
    ASSUME TypeInv, [Next]_vars, NEW i \in Handlers, call'[i].pc = "audit"
    PROVE  \/ call'[i] = call[i]
           \/ \E o \in Orders : AssignCommit(i, o)
           \/ TransitionCommit(i)
<1> USE DEF TypeInv, TypeOK
<1> DEFINE Goal == \/ call'[i] = call[i]
                   \/ \E o \in Orders : AssignCommit(i, o)
                   \/ TransitionCommit(i)
<1> SUFFICES Goal
  OBVIOUS
<1>1. ASSUME NEW r \in Requests, RequestBecomesReady(r) PROVE Goal
  BY <1>1 DEF RequestBecomesReady
<1>2. ASSUME NEW t \in Technicians, TechnicianChanges(t) PROVE Goal
  BY <1>2 DEF TechnicianChanges
<1>3. ASSUME NEW h \in Handlers, NEW a \in Operators, NEW k \in Keys,
             NEW r \in Requests, NEW t \in Technicians, AssignLookup(h, a, k, r, t)
      PROVE  Goal
  BY <1>3 DEF AssignLookup, Goto
<1>4. ASSUME NEW h \in Handlers, NEW o \in Orders, AssignCommit(h, o) PROVE Goal
  BY <1>4 DEF AssignCommit, Goto
<1>5. ASSUME NEW h \in Handlers, AssignRead(h) \/ AssignConflict(h) PROVE Goal
  <2>1. call[h] \in Assignments
    BY <1>5, CallKinds DEF AssignRead, AssignConflict
  <2> QED BY <1>5, <2>1 DEF AssignRead, AssignConflict, Goto, Idle, Assignments
<1>6. ASSUME NEW h \in Handlers,
             \/ AssignRetry(h) \/ TransitionConflict(h) \/ Audit(h) \/ CallDies(h)
      PROVE  Goal
  BY <1>6 DEF AssignRetry, TransitionConflict, Audit, CallDies, Goto, Idle
<1>7. ASSUME NEW h \in Handlers, NEW o \in Orders, NEW action \in TransitionActions,
             NEW expected \in 1..MaxVersion, NEW reason \in BOOLEAN,
             NEW input \in Technicians \cup {None},
             TransitionRead(h, o, action, expected, reason, input)
      PROVE  Goal
  BY <1>7 DEF TransitionRead, Goto
<1>8. ASSUME NEW h \in Handlers, TransitionCommit(h) PROVE Goal
  BY <1>8 DEF TransitionCommit, Goto
<1>9. CASE UNCHANGED vars
  BY <1>9 DEF vars
<1> QED BY <1>1, <1>2, <1>3, <1>4, <1>5, <1>6, <1>7, <1>8, <1>9 DEF Next

LEMMA AnswerInvIsInductive == AnswerInv /\ [Next]_vars => AnswerInv'
<1> SUFFICES ASSUME AnswerInv, [Next]_vars PROVE AnswerInv'
  OBVIOUS
<1>1. WalkInv /\ WalkInv' /\ TypeInv /\ TypeInv'
  BY WalkInvIsInductive DEF AnswerInv, WalkInv
<1>2. ASSUME NEW s \in Operators \X Keys, reservation'[s] # None
      PROVE  Serves(reservation[s])'
  <2>1. CASE reservation'[s] = reservation[s]
    <3>1. reservation[s].order \in Orders
      BY <1>1, <1>2, <2>1 DEF TypeInv, TypeOK, Reservations
    <3>2. Serves(reservation[s])
      BY <1>2, <2>1 DEF AnswerInv, ReservationsServe
    <3>3. PICK r : r = reservation[s]
      OBVIOUS
    <3>4. Serves(r)'
      BY <1>1, <3>1, <3>2, <3>3, ServesStays
    <3> QED BY <2>1, <3>3, <3>4 DEF Serves, RowAt
  <2>2. CASE reservation'[s] # reservation[s]
    <3>1. PICK h \in Handlers, o \in Orders : AssignCommit(h, o)
      BY <2>2, OnlyCommitsWrite DEF TransitionCommit
    <3> QED BY <1>1, <2>2, <3>1, AssignCommitReserves
  <2> QED BY <2>1, <2>2
<1>3. ASSUME NEW i \in Handlers, call'[i].pc = "audit", NEW a \in call'[i].answer
      PROVE  Reserved(a)'
  <2>1. CASE call'[i] = call[i]
    <3>1. a \in Answers
      BY <1>1, <1>3, <2>1, CallKinds DEF TypeInv, AuditCalls
    <3>2. Reserved(a)
      BY <1>3, <2>1 DEF AnswerInv, PendingAnswersReserved
    <3> QED BY <1>1, <3>1, <3>2, ReservedStays
  <2>2. ASSUME NEW o \in Orders, AssignCommit(i, o) PROVE Reserved(a)'
    BY <1>1, <1>3, <2>2, AssignCommitReserves
  <2>3. CASE TransitionCommit(i)
    <3>1. call'[i].answer = {}
      BY <1>1, <2>3 DEF TransitionCommit, Goto, TypeInv, TypeOK
    <3> QED BY <1>3, <3>1
  <2> QED BY <1>1, <1>3, <2>1, <2>2, <2>3, AuditFollowsACommit
<1>4. ASSUME NEW a \in answers' PROVE Reserved(a)'
  <2>1. Reserved(a) /\ a \in Answers
    BY <1>1, <1>4, AnswersAreReserved DEF TypeInv, TypeOK
  <2> QED BY <1>1, <2>1, ReservedStays
<1> QED BY <1>1, <1>2, <1>3, <1>4 DEF AnswerInv, ReservationsServe, PendingAnswersReserved

(* A key that is repeated is always answered with the same order, one that  *)
(* serves the request and began with the technician that was asked for.     *)
THEOREM RepeatedAssignmentsAgree == Spec => []AssignmentIsIdempotent
<1>1. Init => AnswerInv
  BY WalkInvInitially DEF Init, AnswerInv, ReservationsServe, PendingAnswersReserved, Idle
<1>2. ASSUME AnswerInv PROVE AssignmentIsIdempotent
  <2>1. TypeOK
    BY <1>2 DEF AnswerInv, WalkInv, TypeInv
  <2>2. ASSUME NEW a \in answers, NEW b \in answers, a.actor = b.actor, a.key = b.key
        PROVE  a = b
    <3>1. Reserved(a) /\ Reserved(b)
      BY <1>2 DEF AnswerInv
    <3>2. a.request = b.request /\ a.technician = b.technician /\ a.order = b.order
      BY <2>2, <3>1 DEF Reserved
    <3> QED BY <2>1, <2>2, <3>2 DEF TypeOK, Answers
  <2>3. ASSUME NEW a \in answers PROVE Serves(a)
    <3>1. /\ <<a.actor, a.key>> \in Operators \X Keys
          /\ [request |-> a.request, technician |-> a.technician, order |-> a.order]
               \in Reservations
      BY <2>1 DEF TypeOK, Answers, Reservations
    <3>2. Serves([request |-> a.request, technician |-> a.technician, order |-> a.order])
      BY <1>2, <3>1, NoRowAssumption DEF AnswerInv, Reserved, ReservationsServe
    <3> QED BY <3>2 DEF Serves
  <2> QED BY <2>2, <2>3 DEF AssignmentIsIdempotent, Serves
<1> QED BY <1>1, <1>2, AnswerInvIsInductive, PTL DEF Spec

-----------------------------------------------------------------------------
(* What is written beside the history.                                      *)

(* A commit appends one row; it is counted where its order and action are.  *)
LEMMA RowIsCounted ==
    ASSUME IsFiniteSet(transitions), NEW row, row \notin transitions,
           transitions' = transitions \cup {row}, NEW o, NEW actions
    PROVE  /\ RowsWith(o, actions) \in Nat
           /\ RowsWith(o, actions)' =
                RowsWith(o, actions) +
                  (IF row.order = o /\ row.action \in actions THEN 1 ELSE 0)
<1> DEFINE old == {r \in transitions : r.order = o /\ r.action \in actions}
           new == {r \in transitions' : r.order = o /\ r.action \in actions}
<1>0. RowsWith(o, actions) = Cardinality(old) /\ RowsWith(o, actions)' = Cardinality(new)
  BY DEF RowsWith
<1>1. IsFiniteSet(old) /\ Cardinality(old) \in Nat
  BY FS_Subset, FS_CardinalityType
<1>2. CASE row.order = o /\ row.action \in actions
  <2>1. new = old \cup {row} /\ row \notin old
    BY <1>2
  <2>2. Cardinality(new) = Cardinality(old) + 1
    BY <1>1, <2>1, FS_AddElement
  <2> HIDE DEF old, new
  <2> QED BY <1>0, <1>1, <1>2, <2>2
<1>3. CASE ~(row.order = o /\ row.action \in actions)
  <2>1. new = old
    BY <1>3
  <2> HIDE DEF old, new
  <2> QED BY <1>0, <1>1, <1>3, <2>1
<1> QED BY <1>2, <1>3

(* The calls whose commit is done and whose audit row is still to come.     *)
StillToAudit(o, event) ==
    {h \in Handlers : call[h].pc = "audit" /\ call[h].event = event /\ call[h].order = o}

Recorded(event) == IF event = "order.assigned" THEN {"ASSIGN_TECHNICIAN"}
                   ELSE TransitionActions \ {"ASSIGN_TECHNICIAN"}

AuditsAreFew ==
    \A o \in Orders, event \in AuditTypes :
      /\ IsFiniteSet(StillToAudit(o, event))
      /\ audit[o][event] + Cardinality(StillToAudit(o, event))
           <= RowsWith(o, Recorded(event))

PendingIsNoAssignment ==
    \A h \in Handlers :
        call[h].pc = "transitionCommit" => call[h].row.action # "ASSIGN_TECHNICIAN"

ToldInv ==
    /\ WalkInv /\ PendingIsNoAssignment
    /\ IsFiniteSet(transitions)
    /\ OutboxMatchesHistory
    /\ AuditsAreFew

(* Only the read of a transition makes a call pending.                      *)
LEMMA PendingStaysNoAssignment ==
    ASSUME TypeInv, PendingIsNoAssignment, [Next]_vars
    PROVE  PendingIsNoAssignment'
<1> USE DEF TypeInv, TypeOK, PendingIsNoAssignment
<1>1. ASSUME NEW r \in Requests, RequestBecomesReady(r) PROVE PendingIsNoAssignment'
  BY <1>1 DEF RequestBecomesReady
<1>2. ASSUME NEW t \in Technicians, TechnicianChanges(t) PROVE PendingIsNoAssignment'
  BY <1>2 DEF TechnicianChanges
<1>3. ASSUME NEW h \in Handlers, NEW a \in Operators, NEW k \in Keys,
             NEW r \in Requests, NEW t \in Technicians, AssignLookup(h, a, k, r, t)
      PROVE  PendingIsNoAssignment'
  BY <1>3 DEF AssignLookup, Goto
<1>4. ASSUME NEW h \in Handlers, NEW o \in Orders, AssignCommit(h, o)
      PROVE  PendingIsNoAssignment'
  BY <1>4 DEF AssignCommit, Goto
<1>5. ASSUME NEW h \in Handlers, AssignRead(h) \/ AssignConflict(h)
      PROVE  PendingIsNoAssignment'
  <2>1. call[h] \in Assignments
    BY <1>5, CallKinds DEF AssignRead, AssignConflict
  <2>2. PICK next \in Assignments \cup {Idle} : Goto(h, next)
    BY <1>5, <2>1 DEF AssignRead, AssignConflict, Assignments
  <2>3. next.pc # "transitionCommit"
    BY DEF Assignments, Idle
  <2> QED BY <2>2, <2>3 DEF Goto
<1>6. ASSUME NEW h \in Handlers,
             \/ AssignRetry(h) \/ TransitionConflict(h) \/ Audit(h) \/ CallDies(h)
      PROVE  PendingIsNoAssignment'
  BY <1>6 DEF AssignRetry, TransitionConflict, Audit, CallDies, Goto, Idle
<1>7. ASSUME NEW h \in Handlers, NEW o \in Orders, NEW action \in TransitionActions,
             NEW expected \in 1..MaxVersion, NEW reason \in BOOLEAN,
             NEW input \in Technicians \cup {None},
             TransitionRead(h, o, action, expected, reason, input)
      PROVE  PendingIsNoAssignment'
  BY <1>7 DEF TransitionRead, Allows, Goto
<1>8. ASSUME NEW h \in Handlers, TransitionCommit(h) PROVE PendingIsNoAssignment'
  BY <1>8 DEF TransitionCommit, Goto
<1>9. CASE UNCHANGED vars
  BY <1>9 DEF vars
<1> QED BY <1>1, <1>2, <1>3, <1>4, <1>5, <1>6, <1>7, <1>8, <1>9 DEF Next

(* The audit rows are written by one step only.                             *)
LEMMA OnlyAuditWrites ==
    [Next]_vars => UNCHANGED audit \/ \E h \in Handlers : Audit(h)
<1> SUFFICES ASSUME [Next]_vars, ~\E h \in Handlers : Audit(h) PROVE UNCHANGED audit
  OBVIOUS
<1>1. ASSUME \/ \E r \in Requests : RequestBecomesReady(r)
             \/ \E t \in Technicians : TechnicianChanges(t)
             \/ UNCHANGED vars
      PROVE  UNCHANGED audit
  BY <1>1 DEF RequestBecomesReady, TechnicianChanges, vars
<1>2. ASSUME NEW h \in Handlers, NEW a \in Operators, NEW k \in Keys,
             NEW r \in Requests, NEW t \in Technicians, AssignLookup(h, a, k, r, t)
      PROVE  UNCHANGED audit
  BY <1>2 DEF AssignLookup, database
<1>3. ASSUME NEW h \in Handlers,
             \/ AssignRead(h) \/ AssignConflict(h) \/ AssignRetry(h)
             \/ TransitionConflict(h) \/ TransitionCommit(h) \/ CallDies(h)
             \/ \E o \in Orders : AssignCommit(h, o)
      PROVE  UNCHANGED audit
  BY <1>3 DEF AssignRead, AssignConflict, AssignRetry, TransitionConflict,
     TransitionCommit, CallDies, AssignCommit, database
<1>4. ASSUME NEW h \in Handlers, NEW o \in Orders, NEW action \in TransitionActions,
             NEW expected \in 1..MaxVersion, NEW reason \in BOOLEAN,
             NEW input \in Technicians \cup {None},
             TransitionRead(h, o, action, expected, reason, input)
      PROVE  UNCHANGED audit
  BY <1>4 DEF TransitionRead, database
<1> QED BY <1>1, <1>2, <1>3, <1>4 DEF Next

(* What a commit writes: a new row, the events of its action, and a call    *)
(* that still has to leave the audit row of that action.                    *)
Writes(h, o, row) ==
    /\ row \notin transitions /\ transitions' = transitions \cup {row} /\ row.order = o
    /\ Emit(o, row.action)
    /\ UNCHANGED audit
    /\ call[h].pc # "audit"
    /\ call'[h].pc = "audit" /\ call'[h].order = o
    /\ call'[h].event \in AuditTypes /\ row.action \in Recorded(call'[h].event)
    /\ \A event \in AuditTypes \ {call'[h].event} : row.action \notin Recorded(event)
    /\ \A i \in Handlers \ {h} : call'[i] = call[i]

LEMMA AssignCommitWrites ==
    ASSUME WalkInv, NEW h \in Handlers, NEW o \in Orders, AssignCommit(h, o)
    PROVE  \E row \in TransitionRows : Writes(h, o, row)
<1> DEFINE row == TransitionRow(o, 1, Transition("ASSIGN_TECHNICIAN", "SOLICITADA",
                                                 "TECNICO_ASIGNADO"), call[h].technician)
<1>1. call[h] \in Assignments
  BY CallKinds DEF AssignCommit, WalkInv, TypeInv
<1>2. row \in TransitionRows /\ row.order = o /\ row.action = "ASSIGN_TECHNICIAN"
  BY <1>1, MaxVersionAssumption
     DEF TransitionRow, TransitionRows, Transition, TransitionActions, OrderStates,
         Assignments
<1>3. row \notin transitions
  BY <1>2 DEF AssignCommit, WalkInv, HistoryIsAWalk
<1>4. transitions' = transitions \cup {row} /\ Emit(o, "ASSIGN_TECHNICIAN")
      /\ UNCHANGED audit
  BY DEF AssignCommit, FirstVersion, Transition
<1>5. /\ call[h].pc # "audit"
      /\ call'[h].pc = "audit" /\ call'[h].order = o /\ call'[h].event = "order.assigned"
      /\ \A i \in Handlers \ {h} : call'[i] = call[i]
  BY DEF AssignCommit, Goto, WalkInv, TypeInv, TypeOK
<1> HIDE DEF row
<1> QED BY <1>2, <1>3, <1>4, <1>5 DEF Writes, Recorded, AuditTypes

LEMMA TransitionCommitWrites ==
    ASSUME WalkInv, PendingIsNoAssignment, NEW h \in Handlers, TransitionCommit(h)
    PROVE  \E o \in Orders, row \in TransitionRows : Writes(h, o, row)
<1> DEFINE c == call[h]
           row == TransitionRow(c.order, c.version + 1, c.row, c.technician)
<1>1. c \in TransitionCalls
  BY CommitIsCurrent
<1>2. /\ c.row.action \in TransitionActions /\ c.row.from \in OrderStates
      /\ c.row.to \in OrderStates /\ c.row.action # "ASSIGN_TECHNICIAN"
  BY <1>1, TableIsTyped DEF TransitionCalls, PendingIsNoAssignment, TransitionCommit
<1>3. /\ row \in TransitionRows /\ row.order = c.order
      /\ row.version = c.version + 1 /\ row.action = c.row.action
  BY <1>1, <1>2, MaxVersionAssumption DEF TransitionRow, TransitionRows, TransitionCalls
<1>4. row \notin transitions
  BY <1>3 DEF TransitionCommit, VersionTaken
<1>5. transitions' = transitions \cup {row} /\ Emit(c.order, c.row.action)
      /\ UNCHANGED audit
  BY DEF TransitionCommit
<1>6. /\ call[h].pc # "audit"
      /\ call'[h].pc = "audit" /\ call'[h].order = c.order
      /\ call'[h].event = "order.transitioned"
      /\ \A i \in Handlers \ {h} : call'[i] = call[i]
  BY DEF TransitionCommit, Goto, WalkInv, TypeInv, TypeOK
<1>7. c.order \in Orders
  BY <1>1 DEF TransitionCalls
<1> HIDE DEF row
<1>8. Writes(h, c.order, row)
  BY <1>2, <1>3, <1>4, <1>5, <1>6 DEF Writes, Recorded, AuditTypes
<1> QED BY <1>3, <1>7, <1>8

(* The events of an action are those its rows are counted under.            *)
LEMMA EventsAreCounted ==
    ASSUME ToldInv, NEW h \in Handlers, NEW o \in Orders, NEW row \in TransitionRows,
           Writes(h, o, row)
    PROVE  OutboxMatchesHistory'
<1> DEFINE Of(event) ==
             CASE event = "work_order.assignment_changed" ->
                                         {"ASSIGN_TECHNICIAN", "REASSIGN_TECHNICIAN"}
               [] event = "work_order.en_route" -> {"MARK_EN_ROUTE"}
               [] event = "work_order.cancelled" -> {"CANCEL"}
<1>1. \A event \in EventTypes : event \in EventsOf(row.action) <=> row.action \in Of(event)
  BY DEF EventTypes, EventsOf
<1>2. ASSUME NEW p \in Orders, NEW event \in EventTypes
      PROVE  outbox'[p][event] = RowsWith(p, Of(event))'
  <2>1. outbox[p][event] = RowsWith(p, Of(event))
    BY <1>2 DEF ToldInv, OutboxMatchesHistory, EventTypes
  <2>2. /\ RowsWith(p, Of(event)) \in Nat
        /\ RowsWith(p, Of(event))' =
             RowsWith(p, Of(event)) +
               (IF row.order = p /\ row.action \in Of(event) THEN 1 ELSE 0)
    <3> HIDE DEF Of
    <3> QED BY RowIsCounted DEF ToldInv, Writes
  <2>3. outbox'[p][event] = IF p = o /\ event \in EventsOf(row.action)
                            THEN outbox[p][event] + 1 ELSE outbox[p][event]
    BY <1>2 DEF Writes, Emit, ToldInv, WalkInv, TypeInv, TypeOK
  <2> HIDE DEF Of
  <2> QED BY <1>1, <2>1, <2>2, <2>3 DEF Writes
<1> QED BY <1>2 DEF OutboxMatchesHistory, EventTypes

LEMMA CommitsStillAudit ==
    ASSUME ToldInv, NEW h \in Handlers, NEW o \in Orders, NEW row \in TransitionRows,
           Writes(h, o, row)
    PROVE  AuditsAreFew'
<1>1. ASSUME NEW p \in Orders, NEW event \in AuditTypes
      PROVE  /\ IsFiniteSet(StillToAudit(p, event)')
             /\ audit'[p][event] + Cardinality(StillToAudit(p, event)')
                  <= RowsWith(p, Recorded(event))'
  <2> DEFINE old == StillToAudit(p, event)
             new == StillToAudit(p, event)'
  <2>1. /\ IsFiniteSet(old) /\ Cardinality(old) \in Nat
        /\ audit[p][event] \in Nat
        /\ audit[p][event] + Cardinality(old) <= RowsWith(p, Recorded(event))
    BY FS_CardinalityType DEF ToldInv, AuditsAreFew, WalkInv, TypeInv, TypeOK
  <2>2. /\ RowsWith(p, Recorded(event)) \in Nat
        /\ RowsWith(p, Recorded(event))' =
             RowsWith(p, Recorded(event)) +
               (IF o = p /\ row.action \in Recorded(event) THEN 1 ELSE 0)
    BY RowIsCounted DEF ToldInv, Writes
  <2>3. audit'[p][event] = audit[p][event]
    BY DEF Writes
  <2>4. CASE p = o /\ event = call'[h].event
    <3>1. new = old \cup {h} /\ h \notin old
      BY <2>4 DEF Writes, StillToAudit
    <3>2. IsFiniteSet(new) /\ Cardinality(new) = Cardinality(old) + 1
      BY <2>1, <3>1, FS_AddElement
    <3>3. row.action \in Recorded(event)
      BY <2>4 DEF Writes
    <3> HIDE DEF old, new
    <3> QED BY <2>1, <2>2, <2>3, <2>4, <3>2, <3>3 DEF old, new
  <2>5. CASE ~(p = o /\ event = call'[h].event)
    <3>1. new = old
      BY <2>5 DEF Writes, StillToAudit
    <3> HIDE DEF old, new
    <3> QED BY <2>1, <2>2, <2>3, <3>1 DEF old, new
  <2> QED BY <2>4, <2>5
<1> QED BY <1>1 DEF AuditsAreFew

(* An audit row takes its call out of those that still have to leave one.   *)
LEMMA AuditIsCounted ==
    ASSUME ToldInv, UNCHANGED transitions, NEW h \in Handlers, Audit(h)
    PROVE  AuditsAreFew'
<1>0. call[h] \in AuditCalls
  BY CallKinds DEF Audit, ToldInv, WalkInv, TypeInv
<1>1. ASSUME NEW p \in Orders, NEW event \in AuditTypes
      PROVE  /\ IsFiniteSet(StillToAudit(p, event)')
             /\ audit'[p][event] + Cardinality(StillToAudit(p, event)')
                  <= RowsWith(p, Recorded(event))'
  <2> DEFINE old == StillToAudit(p, event)
             new == StillToAudit(p, event)'
             rows == RowsWith(p, Recorded(event))
  <2>1. /\ IsFiniteSet(old) /\ Cardinality(old) \in Nat
        /\ audit[p][event] \in Nat
        /\ audit[p][event] + Cardinality(old) <= rows
    BY FS_CardinalityType DEF ToldInv, AuditsAreFew, WalkInv, TypeInv, TypeOK
  <2>2. rows' = rows
    BY DEF RowsWith
  <2>3. new = old \ {h}
    BY DEF Audit, Goto, Idle, StillToAudit, ToldInv, WalkInv, TypeInv, TypeOK
  <2>4. /\ IsFiniteSet(new)
        /\ Cardinality(new) = IF h \in old THEN Cardinality(old) - 1 ELSE Cardinality(old)
    BY <2>1, <2>3, FS_RemoveElement
  <2>5. h \in old <=> call[h].order = p /\ call[h].event = event
    BY DEF StillToAudit, Audit
  <2>6. audit'[p][event] = IF h \in old THEN audit[p][event] + 1 ELSE audit[p][event]
    BY <1>0, <2>5 DEF Audit, ToldInv, WalkInv, TypeInv, TypeOK, AuditCalls
  <2> HIDE DEF old, new, rows
  <2>7. audit'[p][event] + Cardinality(new) <= rows'
    BY <2>1, <2>2, <2>4, <2>6
  <2> QED BY <2>4, <2>7 DEF new, rows
<1> QED BY <1>1 DEF AuditsAreFew

LEMMA ToldInvIsInductive == ToldInv /\ [Next]_vars => ToldInv'
<1> SUFFICES ASSUME ToldInv, [Next]_vars PROVE ToldInv'
  OBVIOUS
<1>1. WalkInv /\ WalkInv' /\ TypeInv
  BY WalkInvIsInductive DEF ToldInv, WalkInv
<1>2. PendingIsNoAssignment'
  BY <1>1, PendingStaysNoAssignment DEF ToldInv
<1>3. ASSUME NEW h \in Handlers, NEW o \in Orders, NEW row \in TransitionRows,
             Writes(h, o, row)
      PROVE  ToldInv'
  <2>1. IsFiniteSet(transitions')
    BY <1>3, FS_AddElement DEF Writes, ToldInv
  <2>2. OutboxMatchesHistory' /\ AuditsAreFew'
    BY <1>3, EventsAreCounted, CommitsStillAudit
  <2> QED BY <1>1, <1>2, <2>1, <2>2 DEF ToldInv
<1>4. ASSUME NEW h \in Handlers, NEW o \in Orders, AssignCommit(h, o) PROVE ToldInv'
  BY <1>1, <1>3, <1>4, AssignCommitWrites
<1>5. ASSUME NEW h \in Handlers, TransitionCommit(h) PROVE ToldInv'
  BY <1>1, <1>3, <1>5, TransitionCommitWrites DEF ToldInv
<1>6. CASE UNCHANGED <<order, transitions, reservation, outbox>>
           /\ ~\E h \in Handlers : TransitionCommit(h) \/ \E o \in Orders : AssignCommit(h, o)
  <2>1. OutboxMatchesHistory' /\ IsFiniteSet(transitions')
    BY <1>6 DEF ToldInv, OutboxMatchesHistory, RowsWith
  <2>2. ASSUME NEW h \in Handlers, Audit(h) PROVE AuditsAreFew'
    BY <1>6, <2>2, AuditIsCounted
  <2>3. ASSUME UNCHANGED audit PROVE AuditsAreFew'
    <3>1. ASSUME NEW p \in Orders, NEW event \in AuditTypes
          PROVE  /\ IsFiniteSet(StillToAudit(p, event)')
                 /\ audit'[p][event] + Cardinality(StillToAudit(p, event)')
                      <= RowsWith(p, Recorded(event))'
      <4> DEFINE old == StillToAudit(p, event)
                 new == StillToAudit(p, event)'
      <4>1. new \subseteq old
        BY <1>1, <1>6, AuditFollowsACommit DEF StillToAudit
      <4>2. /\ IsFiniteSet(old) /\ Cardinality(old) \in Nat
            /\ audit[p][event] \in Nat
            /\ audit[p][event] + Cardinality(old) <= RowsWith(p, Recorded(event))
        BY <1>1, FS_CardinalityType DEF ToldInv, AuditsAreFew, TypeInv, TypeOK
      <4>3. IsFiniteSet(new) /\ Cardinality(new) <= Cardinality(old)
            /\ Cardinality(new) \in Nat
        BY <4>1, <4>2, FS_Subset, FS_CardinalityType
      <4>4. RowsWith(p, Recorded(event))' \in {RowsWith(p, Recorded(event))}
        BY <1>6 DEF RowsWith
      <4>5. RowsWith(p, Recorded(event)) \in Nat
        <5>1. IsFiniteSet({r \in transitions : r.order = p /\ r.action \in Recorded(event)})
          BY FS_Subset DEF ToldInv
        <5> QED BY <5>1, FS_CardinalityType DEF RowsWith
      <4> HIDE DEF old, new
      <4> QED BY <2>3, <4>2, <4>3, <4>4, <4>5 DEF old, new
    <3> QED BY <3>1 DEF AuditsAreFew
  <2>4. AuditsAreFew'
    BY <2>2, <2>3, OnlyAuditWrites
  <2> QED BY <1>1, <1>2, <2>1, <2>4 DEF ToldInv
<1> QED BY <1>4, <1>5, <1>6, OnlyCommitsWrite

(* The outbox holds one event per row that has one, and the audit trail     *)
(* never claims a mutation that was not committed.                          *)
THEOREM WhatIsToldHappened == Spec => []HistoryIsTold
<1>1. Init => ToldInv
  <2> SUFFICES ASSUME Init PROVE ToldInv
    OBVIOUS
  <2>1. \A o, actions : RowsWith(o, actions) = 0
    <3>1. \A o, actions : {row \in transitions : row.order = o /\ row.action \in actions} = {}
      BY DEF Init
    <3> QED BY <3>1, FS_EmptySet DEF RowsWith
  <2>2. \A o, event : StillToAudit(o, event) = {}
    BY DEF Init, Idle, StillToAudit
  <2>3. OutboxMatchesHistory
    BY <2>1 DEF Init, OutboxMatchesHistory, EventTypes
  <2>4. AuditsAreFew
    <3>1. \A o \in Orders, event \in AuditTypes : audit[o][event] = 0
      BY DEF Init
    <3>2. \A o \in Orders, event \in AuditTypes :
             /\ IsFiniteSet(StillToAudit(o, event))
             /\ Cardinality(StillToAudit(o, event)) = 0
      BY <2>2, FS_EmptySet
    <3> QED BY <2>1, <3>1, <3>2 DEF AuditsAreFew
  <2> QED BY <2>3, <2>4, WalkInvInitially, FS_EmptySet
          DEF Init, ToldInv, PendingIsNoAssignment, Idle
<1>2. ASSUME ToldInv PROVE HistoryIsTold
  <2>1. ASSUME NEW o \in Orders, NEW event \in AuditTypes
        PROVE  audit[o][event] <= RowsWith(o, Recorded(event))
    <3>1. /\ audit[o][event] \in Nat /\ Cardinality(StillToAudit(o, event)) \in Nat
          /\ audit[o][event] + Cardinality(StillToAudit(o, event))
               <= RowsWith(o, Recorded(event))
      BY <1>2, FS_CardinalityType DEF ToldInv, AuditsAreFew, WalkInv, TypeInv, TypeOK
    <3>2. RowsWith(o, Recorded(event)) \in Nat
      <4>1. IsFiniteSet({r \in transitions : r.order = o /\ r.action \in Recorded(event)})
        BY <1>2, FS_Subset DEF ToldInv
      <4> QED BY <4>1, FS_CardinalityType DEF RowsWith
    <3> QED BY <3>1, <3>2
  <2>2. AuditIsTruthful
    BY <2>1 DEF AuditIsTruthful, AuditTypes, Recorded
  <2> QED BY <1>2, <2>2 DEF ToldInv, HistoryIsTold
<1> QED BY <1>1, <1>2, ToldInvIsInductive, PTL DEF Spec

-----------------------------------------------------------------------------
(* The abstract life cycle.                                                 *)

requestBar ==
    [o \in Orders |-> IF order[o] = None THEN None ELSE order[o].request]
stateBar ==
    [o \in Orders |-> IF order[o] = None THEN "SOLICITADA" ELSE order[o].state]
Entry(o, v) ==
    LET row == CHOOSE row \in transitions : RowAt(o, v, row)
    IN  Transition(row.action, row.from, row.to)
logBar ==
    [o \in Orders |->
       [v \in 1..(IF order[o] = None THEN 0 ELSE order[o].version) |-> Entry(o, v)]]

(* The instance reads the same contract.                                    *)
LEMMA SameContract ==
    /\ Lifecycle!OrderTransitions = OrderTransitions
    /\ \A action, from, to :
          Lifecycle!Transition(action, from, to) = Transition(action, from, to)
BY DEF Lifecycle!OrderTransitions, Lifecycle!Transition, OrderTransitions, Transition

(* With one row per version, the row that is chosen is that row.            *)
LEMMA ChosenRow ==
    ASSUME NEW T, NEW o, NEW v, NEW r \in T, r.order = o, r.version = v,
           \A s \in T : s.order = o /\ s.version = v => s = r
    PROVE  (CHOOSE row \in T : row \in T /\ row.order = o /\ row.version = v) = r
OBVIOUS

(* A longer log that agrees with the one before is that log with its last   *)
(* entry appended.                                                          *)
LEMMA LongerLog ==
    ASSUME NEW S, NEW n \in Nat, NEW f, NEW g,
           \A v \in 1..n : f[v] \in S, \A v \in 1..(n + 1) : g[v] \in S,
           \A v \in 1..n : g[v] = f[v]
    PROVE  [v \in 1..(n + 1) |-> g[v]] = Append([v \in 1..n |-> f[v]], g[n + 1])
<1> DEFINE short == [v \in 1..n |-> f[v]]
           long == [v \in 1..(n + 1) |-> g[v]]
<1>1. short \in Seq(S) /\ Len(short) = n
  OBVIOUS
<1>2. long \in Seq(S) /\ Len(long) = n + 1
  OBVIOUS
<1>3. g[n + 1] \in S
  OBVIOUS
<1> QED BY <1>1, <1>2, <1>3, AppendProperties, SeqEqual

(* The log of an order that gains one row.                                  *)
LEMMA RowIsAppended ==
    ASSUME NEW o \in Orders, NEW n \in Nat, NEW new, new \notin transitions,
           transitions' = transitions \cup {new}, new.order = o, new.version = n + 1,
           \A row \in transitions : row.order = o => row.version \in 1..n,
           \A v \in 1..n : \E row \in transitions : row.order = o /\ row.version = v,
           \A row, other \in transitions :
               row.order = o /\ other.order = o /\ row.version = other.version
               => row = other
    PROVE  [v \in 1..(n + 1) |-> Entry(o, v)'] =
             Append([v \in 1..n |-> Entry(o, v)],
                    Transition(new.action, new.from, new.to))
<1> DEFINE f == [v \in 1..n |-> Entry(o, v)]
           g == [v \in 1..(n + 1) |-> Entry(o, v)']
           S == {f[v] : v \in 1..n} \cup {g[v] : v \in 1..(n + 1)}
<1>1. ASSUME NEW v \in 1..n PROVE Entry(o, v)' = Entry(o, v)
  <2>1. PICK row \in transitions : row.order = o /\ row.version = v
    OBVIOUS
  <2>2. \A s \in transitions : s.order = o /\ s.version = v => s = row
    BY <2>1
  <2>3. new.version # v
    OBVIOUS
  <2>4. \A s \in transitions' : s.order = o /\ s.version = v => s = row
    BY <2>2, <2>3
  <2>5. (CHOOSE r \in transitions : r \in transitions /\ r.order = o /\ r.version = v) = row
    BY <2>1, <2>2, ChosenRow
  <2>6. (CHOOSE r \in transitions' : r \in transitions' /\ r.order = o /\ r.version = v)
           = row
    BY <2>1, <2>4, ChosenRow
  <2> QED BY <2>5, <2>6 DEF Entry, RowAt
<1>2. Entry(o, n + 1)' = Transition(new.action, new.from, new.to)
  <2>1. \A s \in transitions' : s.order = o /\ s.version = n + 1 => s = new
    OBVIOUS
  <2>2. (CHOOSE r \in transitions' : r \in transitions' /\ r.order = o /\ r.version = n + 1)
           = new
    BY <2>1, ChosenRow
  <2> QED BY <2>2 DEF Entry, RowAt
<1>3. \A v \in 1..n : f[v] \in S /\ g[v] = f[v]
  BY <1>1
<1>4. \A v \in 1..(n + 1) : g[v] \in S
  OBVIOUS
<1>5. g[n + 1] = Transition(new.action, new.from, new.to)
  BY <1>2
<1>6. f = [v \in 1..n |-> f[v]] /\ g = [v \in 1..(n + 1) |-> g[v]]
  OBVIOUS
<1> HIDE DEF f, g, S
<1>7. g = Append(f, g[n + 1])
  BY <1>3, <1>4, <1>6, LongerLog
<1> QED BY <1>5, <1>7 DEF f, g

(* The log of every other order stays as it was.                            *)
LEMMA LogsOfOthersStay ==
    ASSUME HistoryIsAWalk, NEW o, NEW new, new.order = o,
           transitions' = transitions \cup {new}, NEW p \in Orders \ {o},
           order'[p] = order[p]
    PROVE  logBar'[p] = logBar[p]
<1>1. CASE order[p] = None
  BY <1>1 DEF logBar
<1>2. CASE order[p] # None
  <2>1. OneRowPerVersion(p)
    BY <1>2 DEF HistoryIsAWalk
  <2>2. ASSUME NEW v \in 1..order[p].version PROVE Entry(p, v)' = Entry(p, v)
    <3>1. PICK row \in transitions : row.order = p /\ row.version = v
      BY <2>1 DEF OneRowPerVersion, RowAt
    <3>2. \A s \in transitions : s.order = p /\ s.version = v => s = row
      BY <2>1, <3>1 DEF OneRowPerVersion
    <3>3. \A s \in transitions' : s.order = p /\ s.version = v => s = row
      BY <3>2
    <3>4. (CHOOSE r \in transitions : r \in transitions /\ r.order = p /\ r.version = v)
            = row
      BY <3>1, <3>2, ChosenRow
    <3>5. (CHOOSE r \in transitions' : r \in transitions' /\ r.order = p /\ r.version = v)
            = row
      BY <3>1, <3>3, ChosenRow
    <3> QED BY <3>4, <3>5 DEF Entry, RowAt
  <2> QED BY <1>2, <2>2 DEF logBar
<1> QED BY <1>1, <1>2

(* The mapping is the one WorkOrders instantiates the life cycle with.      *)
LEMMA PlacingStep ==
    ASSUME WalkInv, WalkInv', NEW h \in Handlers, NEW o \in Orders, AssignCommit(h, o)
    PROVE  \E r \in Requests : Lifecycle!Place(o, r)
<1> DEFINE row == Transition("ASSIGN_TECHNICIAN", "SOLICITADA", "TECNICO_ASIGNADO")
<1>a. PICK r \in Requests : r = call[h].request
  BY CallKinds DEF WalkInv, TypeInv, AssignCommit, Assignments
<1>0. PICK new : /\ r = call[h].request
                 /\ new = TransitionRow(o, 1, row, call[h].technician)
  BY <1>a
<1>1. /\ order[o] = None
      /\ order' = [order EXCEPT ![o] = [request |-> r, technician |-> call[h].technician,
                                        state |-> "TECNICO_ASIGNADO", version |-> 1]]
      /\ transitions' = transitions \cup {new}
  BY <1>0 DEF AssignCommit, FirstVersion, Transition
<1>2. order \in [Orders -> OrderRows \cup {None}]
  BY DEF WalkInv, TypeInv, TypeOK
<1>3. order'[o] # None /\ order'[o].request = r /\ order'[o].state = "TECNICO_ASIGNADO"
      /\ order'[o].version = 1
  <2>1. order'[o] = [request |-> r, technician |-> call[h].technician,
                     state |-> "TECNICO_ASIGNADO", version |-> 1]
    BY <1>1, <1>2
  <2>2. order'[o] \in OrderRows
    BY <1>0, <2>1, CallKinds, MaxVersionAssumption
       DEF OrderRows, OrderStates, AssignCommit, Assignments, WalkInv, TypeInv
  <2> QED BY <2>1, <2>2, NoRowAssumption
<1>4. \A p \in Orders \ {o} : order'[p] = order[p]
  BY <1>1, <1>2
<1>5. requestBar[o] = None /\ \A other \in Orders : requestBar[other] # r
  BY <1>0, <1>1, <1>2, NoneAssumption DEF requestBar, AssignCommit, RequestHasOrder
<1>6. requestBar' = [requestBar EXCEPT ![o] = r]
  BY <1>3, <1>4 DEF requestBar
<1>7. stateBar' = [stateBar EXCEPT ![o] = "TECNICO_ASIGNADO"] /\ stateBar[o] = "SOLICITADA"
  <2>1. stateBar[o] = "SOLICITADA"
    BY <1>1 DEF stateBar
  <2>2. stateBar' = [stateBar EXCEPT ![o] = "TECNICO_ASIGNADO"]
    BY <1>3, <1>4 DEF stateBar
  <2> QED BY <2>1, <2>2
<1>8. logBar' = [logBar EXCEPT ![o] = Append(@, row)]
  <2>1. /\ new.order = o /\ new.version = 0 + 1
        /\ Transition(new.action, new.from, new.to) = row
    BY <1>0 DEF TransitionRow, Transition
  <2>2. \A line \in transitions : line.order # o
    BY <1>1 DEF WalkInv, HistoryIsAWalk
  <2>3. new \notin transitions
    BY <2>1, <2>2
  <2>4. PICK n \in Nat : n = 0
    OBVIOUS
  <2>5. [v \in 1..(n + 1) |-> Entry(o, v)'] = Append([v \in 1..n |-> Entry(o, v)], row)
    <3>1. new.version = n + 1
      BY <2>1, <2>4
    <3>2. \A v \in 1..n : \E line \in transitions : line.order = o /\ line.version = v
      BY <2>4
    <3>3. [v \in 1..(n + 1) |-> Entry(o, v)'] =
            Append([v \in 1..n |-> Entry(o, v)], Transition(new.action, new.from, new.to))
      BY <1>1, <2>1, <2>2, <2>3, <3>1, <3>2, RowIsAppended
    <3> QED BY <2>1, <3>3
  <2>7. logBar'[o] = Append(logBar[o], row)
    BY <1>1, <1>3, <2>4, <2>5 DEF logBar
  <2>6. \A p \in Orders \ {o} : logBar'[p] = logBar[p]
    BY <1>1, <1>2, <1>4, <2>1, LogsOfOthersStay DEF WalkInv
  <2> QED BY <2>6, <2>7 DEF logBar
<1>9. row \in OrderTransitions /\ row.from = "SOLICITADA" /\ row.to = "TECNICO_ASIGNADO"
  BY AssignmentRow
<1> HIDE DEF row
<1>10. Lifecycle!Move(o, row)
  BY <1>7, <1>8, <1>9, SameContract DEF Lifecycle!Move, stateBar, logBar, Entry
<1> QED BY <1>5, <1>6, <1>10, SameContract DEF Lifecycle!Place, requestBar, row

LEMMA AdvancingStep ==
    ASSUME WalkInv, WalkInv', NEW h \in Handlers, TransitionCommit(h)
    PROVE  \E o \in Orders, row \in OrderTransitions : Lifecycle!Advance(o, row)
<1> DEFINE c == call[h]
<1>1. /\ c \in TransitionCalls /\ order[c.order] \in OrderRows
      /\ c.version = order[c.order].version /\ c.row.from = order[c.order].state
  BY CommitIsCurrent
<1>0. PICK o \in Orders, row \in OrderTransitions, n \in Nat :
         o = c.order /\ row = c.row /\ n = c.version
  BY <1>1, TableIsTyped DEF TransitionCalls
<1>2. PICK new :
         /\ o = c.order /\ row = c.row /\ n = c.version
         /\ new = TransitionRow(o, n + 1, row, c.technician)
  BY <1>0
<1>3. row \in [action : TransitionActions, from : OrderStates, to : OrderStates]
  BY TableIsTyped
<1>4. /\ order[o] # None /\ order'[o] # None /\ order'[o].request = order[o].request
      /\ order[o].request \in Requests
  BY <1>1, <1>2, TransitionKeepsRequests, NoRowAssumption DEF WalkInv, OrderRows
<1>5. /\ order'[o].state = row.to /\ order'[o].version = n + 1
      /\ transitions' = transitions \cup {new}
      /\ \A p \in Orders \ {o} : order'[p] = order[p]
  BY <1>1, <1>2 DEF TransitionCommit, OrderRows, WalkInv, TypeInv, TypeOK
<1>6. requestBar[o] # None /\ requestBar' = requestBar
  <2>1. requestBar[o] # None
    BY <1>4, NoneAssumption DEF requestBar
  <2>2. requestBar' = requestBar
    BY <1>4, <1>5 DEF requestBar
  <2> QED BY <2>1, <2>2
<1>7. row.from = stateBar[o] /\ stateBar' = [stateBar EXCEPT ![o] = row.to]
  <2>1. row.from = stateBar[o]
    BY <1>1, <1>2, <1>4 DEF stateBar
  <2>2. stateBar' = [stateBar EXCEPT ![o] = row.to]
    BY <1>4, <1>5 DEF stateBar
  <2> QED BY <2>1, <2>2
<1>8. logBar' = [logBar EXCEPT ![o] = Append(@, row)]
  <2>1. /\ new.order = o /\ new.version = n + 1
        /\ Transition(new.action, new.from, new.to) = row
    BY <1>2, <1>3 DEF TransitionRow, Transition
  <2>2. OneRowPerVersion(o)
    BY <1>4 DEF WalkInv, HistoryIsAWalk
  <2>3. \A line \in transitions : line.order = o => line.version \in 1..n
    BY <1>1, <1>2, <2>2, MaxVersionAssumption
       DEF OneRowPerVersion, WalkInv, TypeInv, TypeOK, TransitionRows
  <2>4. new \notin transitions
    BY <1>3, <2>1, <2>3
  <2>5. \A v \in 1..n : \E line \in transitions : line.order = o /\ line.version = v
    BY <1>1, <1>2, <2>2 DEF OneRowPerVersion, RowAt
  <2>9. \A line, other \in transitions :
            line.order = o /\ other.order = o /\ line.version = other.version
            => line = other
    BY <1>1, <1>2, <2>2 DEF OneRowPerVersion, RowAt
  <2>6. [v \in 1..(n + 1) |-> Entry(o, v)'] =
          Append([v \in 1..n |-> Entry(o, v)], row)
    <3>0. transitions' = transitions \cup {new} /\ new.order = o /\ new.version = n + 1
      BY <1>5, <2>1
    <3>1. [v \in 1..(n + 1) |-> Entry(o, v)'] =
            Append([v \in 1..n |-> Entry(o, v)], Transition(new.action, new.from, new.to))
      BY <2>3, <2>4, <2>5, <2>9, <3>0, RowIsAppended, ZenonT(60)
    <3> QED BY <2>1, <3>1
  <2>7. logBar'[o] = Append(logBar[o], row)
    BY <1>1, <1>2, <1>4, <1>5, <2>6 DEF logBar
  <2>8. \A p \in Orders \ {o} : logBar'[p] = logBar[p]
    BY <1>5, <2>1, LogsOfOthersStay DEF WalkInv
  <2> QED BY <2>7, <2>8 DEF logBar
<1>9. Lifecycle!Move(o, row)
  BY <1>3, <1>7, <1>8, SameContract DEF Lifecycle!Move, stateBar, logBar, Entry
<1> QED BY <1>2, <1>6, <1>9 DEF Lifecycle!Advance, requestBar

(* The work-order service implements the life cycle: a placing commit is    *)
(* Place, a transition commit Advance, and every other step a stutter.      *)
THEOREM ServiceImplementsLifecycle == Spec => ImplementsLifecycle
<1>1. Init => Lifecycle!LifecycleInit
  <2> SUFFICES ASSUME Init PROVE Lifecycle!LifecycleInit
    OBVIOUS
  <2>1. requestBar = [o \in Orders |-> None] /\ stateBar = [o \in Orders |-> "SOLICITADA"]
    BY DEF Init, requestBar, stateBar
  <2>2. logBar = [o \in Orders |-> << >>]
    BY DEF Init, logBar
  <2> QED BY <2>1, <2>2 DEF Lifecycle!LifecycleInit, requestBar, stateBar, logBar, Entry
<1>2. WalkInv /\ WalkInv' /\ [Next]_vars =>
        [Lifecycle!LifecycleNext]_Lifecycle!lifecycleVars
  <2> SUFFICES ASSUME WalkInv, WalkInv', [Next]_vars
               PROVE  [Lifecycle!LifecycleNext]_Lifecycle!lifecycleVars
    OBVIOUS
  <2>1. ASSUME NEW h \in Handlers, NEW o \in Orders, AssignCommit(h, o)
        PROVE  Lifecycle!LifecycleNext
    BY <2>1, PlacingStep DEF Lifecycle!LifecycleNext
  <2>2. ASSUME NEW h \in Handlers, TransitionCommit(h) PROVE Lifecycle!LifecycleNext
    BY <2>2, AdvancingStep, SameContract DEF Lifecycle!LifecycleNext
  <2>3. CASE UNCHANGED <<order, transitions>>
    <3>1. requestBar' = requestBar /\ stateBar' = stateBar /\ logBar' = logBar
      BY <2>3 DEF requestBar, stateBar, logBar, Entry, RowAt
    <3> QED BY <3>1 DEF Lifecycle!lifecycleVars, requestBar, stateBar, logBar, Entry
  <2> QED BY <2>1, <2>2, <2>3, OnlyCommitsWrite
<1> QED BY <1>1, <1>2, WalkInvInitially, WalkInvIsInductive, PTL
        DEF Spec, ImplementsLifecycle, Lifecycle!LifecycleSpec

=============================================================================
