--------------------------- MODULE AftercareProofs ---------------------------
(* Theorems about Aftercare, for every value of its constants.             *)
EXTENDS Aftercare, FiniteSetTheorems, TLAPS

-----------------------------------------------------------------------------
(* The inductive invariant.                                                 *)

MoveCalls == [pc : {"commit"}, actor : Actors, key : Keys, command : Commands,
              from : ActiveStatuses, sequence : Nat]

(* A call about a rating or an opening is its client's, the order closed;   *)
(* one about to move an incident carries the step its path has next, if it  *)
(* still has the version the command expects.                               *)
CallIsInOrder(c) ==
    LET command == c.command
    IN  c.pc # "idle" =>
          /\ command.scope # "incident.transition" =>
               /\ c.actor = owner[command.order] /\ command.order \in closed
               /\ c.pc # "read"
          /\ command.scope = "incident.transition" /\ c.pc = "commit" =>
               /\ c \in MoveCalls
               /\ incident[command.incident] # None
               /\ c.from = Path[command.expected].to
               /\ c.sequence = command.expected + 1
               /\ command.action = Path[command.expected + 1].action

CallsAreInOrder == \A h \in Handlers : CallIsInOrder(call[h])

(* A key is reserved for what it did.                                       *)
ReservationIsDone(r) ==
    LET c == r.command
    IN  /\ c.scope = "rating" =>
             /\ r.result = c.order
             /\ [order |-> c.order, client |-> r.actor, input |-> c.input] \in ratings
        /\ c.scope # "rating" => r.result \in Incidents /\ incident[r.result] # None
        /\ c.scope = "incident.open" =>
             /\ incident[r.result].order = c.order /\ incident[r.result].client = r.actor
             /\ incident[r.result].input = c.input
        /\ c.scope = "incident.transition" =>
             r.result = c.incident /\ c.expected < incident[r.result].version

ReservedIsDone == \A r \in reservations : ReservationIsDone(r)

RowsAreFinite == IsFiniteSet(ratings) /\ IsFiniteSet(history) /\ IsFiniteSet(reservations)

AftercareInv ==
    /\ TypeOK /\ OneOfEach /\ IncidentFollowsItsPath
    /\ KeysAreIdempotent /\ AnswersShowTheEffect
    /\ CallsAreInOrder /\ ReservedIsDone /\ RowsAreFinite

(* What a successful answer says has been done.                             *)
AnswerIsTrue(a) ==
    /\ [actor |-> a.actor, key |-> a.key, command |-> a.command, result |-> a.result]
         \in reservations
    /\ IF a.command.scope = "rating" THEN a.view = a.command.input
       ELSE /\ a.view.version \in 1..incident[a.result].version
            /\ a.view.status = Path[a.view.version].to
            /\ a.command.scope = "incident.transition" =>
                 a.result = a.command.incident /\ a.view.version > a.command.expected

-----------------------------------------------------------------------------
(* What the records hold.                                                   *)

LEMMA CommandKinds ==
    ASSUME NEW c \in Commands
    PROVE  /\ c.scope \in Scopes
           /\ c.scope # "incident.transition" => c.order \in Orders /\ c.input \in Inputs
           /\ c.scope = "incident.transition" =>
                /\ c.incident \in Incidents /\ c.expected \in 1..2
                /\ c.action \in {"START_TRIAGE", "CLOSE"}
BY DEF Commands, Scopes

LEMMA BusyCalls ==
    ASSUME TypeOK, NEW h \in Handlers, call[h].pc # "idle"
    PROVE  /\ call[h].actor \in Actors /\ call[h].key \in Keys
           /\ call[h].command \in Commands
           /\ call[h].pc \in {"lookup", "read", "commit", "replay"}
           /\ [pc |-> "replay", actor |-> call[h].actor, key |-> call[h].key,
               command |-> call[h].command] \in Calls
           /\ call[h].pc # "commit" =>
                \A pc \in {"read", "commit", "replay"} :
                    [call[h] EXCEPT !.pc = pc] =
                        [pc |-> pc, actor |-> call[h].actor, key |-> call[h].key,
                         command |-> call[h].command]
<1>1. call[h] \in Calls
  BY DEF TypeOK
<1>2. call[h] # Idle
  BY DEF Idle
<1>3. CASE call[h] \in [pc : {"lookup", "read", "commit", "replay"}, actor : Actors,
                        key : Keys, command : Commands]
  BY <1>3 DEF Calls
<1>4. CASE call[h] \in MoveCalls
  BY <1>4 DEF Calls, MoveCalls
<1> QED BY <1>1, <1>2, <1>3, <1>4 DEF Calls, MoveCalls

(* A call that steps stays a call.                                          *)
LEMMA CallSteps ==
    ASSUME TypeOK, NEW h \in Handlers, NEW next \in Calls, CallTo(h, next)
    PROVE  /\ call' \in [Handlers -> Calls]
           /\ call'[h] = next
           /\ \A g \in Handlers \ {h} : call'[g] = call[g]
BY DEF TypeOK, CallTo

LEMMA IdleIsACall == Idle \in Calls /\ Idle.pc = "idle"
BY DEF Calls, Idle

(* The rows of a key are the one that this command reserved, or another's.  *)
LEMMA RowsAreReservations ==
    ASSUME TypeOK, NEW c, NEW r \in RowsOf(c)
    PROVE  /\ r \in reservations /\ r \in Reservations
           /\ r.actor = c.actor /\ r.key = c.key /\ r.command.scope = c.command.scope
           /\ r = [actor |-> r.actor, key |-> r.key, command |-> r.command,
                   result |-> r.result]
BY DEF TypeOK, RowsOf, Reservations

(* The path, step by step.                                                  *)
LEMMA PathSteps ==
    /\ Path[1].to = "ABIERTA" /\ Path[2].to = "EN_TRIAGE" /\ Path[3].to = "CERRADA"
    /\ Path[1].from = None /\ Path[2].from = "ABIERTA" /\ Path[3].from = "EN_TRIAGE"
    /\ Path[1].action = "OPEN" /\ Path[2].action = "START_TRIAGE"
    /\ Path[3].action = "CLOSE"
    /\ \A n \in 1..3 : Path[n] = [action |-> Path[n].action, from |-> Path[n].from,
                                  to |-> Path[n].to]
BY DEF Path

(* The status machine is the path: a move read at a version of the path     *)
(* takes the next step of it.                                               *)
LEMMA MovesAreOnThePath ==
    ASSUME NEW n \in 1..3, NEW action \in {"START_TRIAGE", "CLOSE"},
           NextStatus(Path[n].to, action) # None
    PROVE  /\ n \in 1..2 /\ Path[n].to \in ActiveStatuses
           /\ action = Path[n + 1].action
           /\ NextStatus(Path[n].to, action) = Path[n + 1].to
           /\ Path[n + 1].from = Path[n].to
<1>1. n = 1 \/ n = 2 \/ n = 3
  OBVIOUS
<1>2. CASE n = 1
  BY <1>2, PathSteps DEF NextStatus, ActiveStatuses
<1>3. CASE n = 2
  BY <1>3, PathSteps DEF NextStatus, ActiveStatuses
<1>4. CASE n = 3
  BY <1>4, PathSteps DEF NextStatus
<1> QED BY <1>1, <1>2, <1>3, <1>4

-----------------------------------------------------------------------------
(* Steps that leave the tables alone.                                       *)

LEMMA PartsMakeTheInvariant ==
    ASSUME TypeOK', OneOfEach', IncidentFollowsItsPath', EveryEffectHasItsKey',
           \A a \in told' : AnswerIsTrue(a)', CallsAreInOrder', ReservedIsDone',
           RowsAreFinite'
    PROVE  AftercareInv'
<1>1. RepetitionsAgree'
  <2> SUFFICES ASSUME NEW a \in told'
               PROVE  /\ [actor |-> a.actor, key |-> a.key, command |-> a.command,
                          result |-> a.result] \in reservations'
                      /\ \A b \in told' : /\ a.actor = b.actor /\ a.key = b.key
                                          /\ a.command.scope = b.command.scope
                                          => a.command = b.command /\ a.result = b.result
    BY DEF RepetitionsAgree
  <2>1. [actor |-> a.actor, key |-> a.key, command |-> a.command,
         result |-> a.result] \in reservations'
    BY DEF AnswerIsTrue
  <2>2. ASSUME NEW b \in told', a.actor = b.actor, a.key = b.key,
               a.command.scope = b.command.scope
        PROVE  a.command = b.command /\ a.result = b.result
    <3>1. [actor |-> b.actor, key |-> b.key, command |-> b.command,
           result |-> b.result] \in reservations'
      BY DEF AnswerIsTrue
    <3> QED BY <2>1, <2>2, <3>1 DEF EveryEffectHasItsKey
  <2> QED BY <2>1, <2>2
<1>2. AnswersShowTheEffect'
  BY DEF AnswersShowTheEffect, AnswerIsTrue
<1> QED BY <1>1, <1>2 DEF AftercareInv, KeysAreIdempotent

LEMMA ToldIsTrue ==
    ASSUME AftercareInv, NEW a \in told
    PROVE  AnswerIsTrue(a)
BY DEF AftercareInv, KeysAreIdempotent, RepetitionsAgree, AnswersShowTheEffect, AnswerIsTrue

LEMMA TablesStay ==
    ASSUME AftercareInv, UNCHANGED <<owner, tables>>, closed \subseteq closed'
    PROVE  /\ OneOfEach' /\ IncidentFollowsItsPath' /\ EveryEffectHasItsKey'
           /\ ReservedIsDone' /\ RowsAreFinite'
           /\ \A a \in told : AnswerIsTrue(a)'
           /\ \A c \in Calls : CallIsInOrder(c) => CallIsInOrder(c)'
<1>1. OneOfEach'
  BY DEF AftercareInv, OneOfEach, tables
<1>2. IncidentFollowsItsPath' /\ EveryEffectHasItsKey'
  BY DEF AftercareInv, IncidentFollowsItsPath, KeysAreIdempotent, EveryEffectHasItsKey,
         HistoryOf, ReservedFor, tables
<1>3. ReservedIsDone' /\ RowsAreFinite'
  BY DEF AftercareInv, ReservedIsDone, ReservationIsDone, RowsAreFinite, tables
<1>4. \A a \in told : AnswerIsTrue(a)'
  BY ToldIsTrue DEF AnswerIsTrue, tables
<1>5. \A c \in Calls : CallIsInOrder(c) => CallIsInOrder(c)'
  BY DEF CallIsInOrder, tables
<1> QED BY <1>1, <1>2, <1>3, <1>4, <1>5

(* Only the state of a call changes.                                        *)
LEMMA QuietStep ==
    ASSUME AftercareInv, NEW h \in Handlers, NEW next \in Calls, CallTo(h, next),
           CallIsInOrder(next), OnlyCallMoves
    PROVE  AftercareInv'
<1>1. TypeOK'
  BY CallSteps DEF AftercareInv, TypeOK, OnlyCallMoves, tables
<1>2. CallsAreInOrder'
  <2> SUFFICES ASSUME NEW g \in Handlers PROVE CallIsInOrder(call[g])'
    BY DEF CallsAreInOrder
  <2>1. PICK c \in Calls : c = call'[g] /\ CallIsInOrder(c)
    BY CallSteps DEF AftercareInv, TypeOK, CallsAreInOrder
  <2>2. CallIsInOrder(c)'
    BY <2>1, TablesStay DEF OnlyCallMoves
  <2> QED BY <2>1, <2>2 DEF CallIsInOrder
<1>3. \A a \in told' : AnswerIsTrue(a)'
  BY TablesStay DEF OnlyCallMoves
<1> QED BY <1>1, <1>2, <1>3, TablesStay, PartsMakeTheInvariant DEF OnlyCallMoves

LEMMA ClosingKeeps ==
    ASSUME AftercareInv, NEW o \in Orders, OrderCloses(o)
    PROVE  AftercareInv'
<1>1. UNCHANGED <<owner, tables>> /\ closed \subseteq closed' /\ UNCHANGED <<told, call>>
  BY DEF OrderCloses
<1>2. TypeOK'
  BY DEF AftercareInv, TypeOK, OrderCloses, tables
<1>3. CallsAreInOrder'
  <2> SUFFICES ASSUME NEW g \in Handlers PROVE CallIsInOrder(call[g])'
    BY DEF CallsAreInOrder
  <2>1. PICK c \in Calls : c = call[g] /\ CallIsInOrder(c)
    BY DEF AftercareInv, TypeOK, CallsAreInOrder
  <2>2. CallIsInOrder(c)'
    BY <1>1, <2>1, TablesStay
  <2> QED BY <1>1, <2>1, <2>2 DEF CallIsInOrder
<1>4. \A a \in told' : AnswerIsTrue(a)'
  BY <1>1, TablesStay
<1> QED BY <1>1, <1>2, <1>3, <1>4, TablesStay, PartsMakeTheInvariant

LEMMA ReceivingKeeps ==
    ASSUME AftercareInv, NEW h \in Handlers, NEW actor \in Actors, NEW key \in Keys,
           NEW command \in Commands, Receive(h, actor, key, command)
    PROVE  AftercareInv'
<1> DEFINE next == [pc |-> "lookup", actor |-> actor, key |-> key, command |-> command]
<1>1. next \in Calls
  BY DEF Calls
<1>2. CallIsInOrder(next)
  BY DEF Receive, CallIsInOrder
<1> QED BY <1>1, <1>2, QuietStep DEF Receive

LEMMA GivingUpKeeps ==
    ASSUME AftercareInv, NEW h \in Handlers, CallDies(h) \/ Collide(h)
    PROVE  AftercareInv'
<1>1. CASE CallDies(h)
  <2>1. CallIsInOrder(Idle)
    BY IdleIsACall DEF CallIsInOrder
  <2> QED BY <1>1, <2>1, IdleIsACall, QuietStep DEF CallDies
<1>2. CASE Collide(h)
  <2>1. PICK next : next = [pc |-> "replay", actor |-> call[h].actor, key |-> call[h].key,
                            command |-> call[h].command]
    OBVIOUS
  <2>2. CallTo(h, next) /\ OnlyCallMoves
    BY <1>2, <2>1 DEF Collide
  <2>3. next \in Calls
    BY <1>2, <2>1, BusyCalls DEF Collide, AftercareInv
  <2>4. CallIsInOrder(next)
    BY <1>2, <2>1 DEF Collide, AftercareInv, CallsAreInOrder, CallIsInOrder
  <2> QED BY <2>2, <2>3, <2>4, QuietStep
<1> QED BY <1>1, <1>2

(* What a reading finds ready to move stands on the path.                   *)
LEMMA ReadingKeeps ==
    ASSUME AftercareInv, NEW h \in Handlers, TransitionRead(h)
    PROVE  AftercareInv'
<1>1. /\ call[h].pc = "read" /\ call[h].command \in Commands
      /\ call[h].actor \in Actors /\ call[h].key \in Keys
  BY BusyCalls DEF TransitionRead, AftercareInv
<1>2. call[h].command.scope = "incident.transition"
  BY <1>1, CommandKinds DEF AftercareInv, CallsAreInOrder, CallIsInOrder
<1>0. PICK c \in Commands : c = call[h].command
  BY <1>1
<1>3. PICK row : c = call[h].command /\ row = incident[c.incident]
  BY <1>0
<1>4. c.incident \in Incidents /\ c.expected \in 1..2
      /\ c.action \in {"START_TRIAGE", "CLOSE"}
  BY <1>2, <1>3, CommandKinds
<1>5. CASE row # None /\ row.version = c.expected /\ NextStatus(row.status, c.action) # None
  <2>1. /\ row.status = Path[c.expected].to
        /\ Cardinality(HistoryOf(c.incident)) = c.expected
    BY <1>3, <1>4, <1>5 DEF AftercareInv, IncidentFollowsItsPath
  <2>2. /\ Path[c.expected].to \in ActiveStatuses
        /\ c.action = Path[c.expected + 1].action
    BY <1>4, <1>5, <2>1, MovesAreOnThePath
  <2>3. PICK next : next = [pc |-> "commit", actor |-> call[h].actor, key |-> call[h].key,
                            command |-> c, from |-> row.status, sequence |-> c.expected + 1]
    OBVIOUS
  <2>4. CallTo(h, next) /\ OnlyCallMoves
    BY <1>3, <1>5, <2>1, <2>3 DEF TransitionRead
  <2>5. next \in MoveCalls
    BY <1>1, <1>4, <2>1, <2>2, <2>3 DEF MoveCalls
  <2>6. next \in Calls
    BY <2>5 DEF MoveCalls, Calls
  <2>7. CallIsInOrder(next)
    BY <1>2, <1>3, <1>5, <2>1, <2>2, <2>3, <2>5 DEF CallIsInOrder
  <2> QED BY <2>4, <2>6, <2>7, QuietStep
<1>6. CASE ~(row # None /\ row.version = c.expected /\ NextStatus(row.status, c.action) # None)
  <2>1. PICK next : next = [pc |-> "replay", actor |-> call[h].actor, key |-> call[h].key,
                            command |-> c]
    OBVIOUS
  <2>2. CallTo(h, next) /\ OnlyCallMoves
    BY <1>1, <1>3, <1>6, <2>1, BusyCalls DEF TransitionRead, StepTo, AftercareInv
  <2>3. next \in Calls
    BY <1>1, <1>3, <2>1 DEF Calls
  <2>4. CallIsInOrder(next)
    BY <1>2, <1>3, <2>1 DEF CallIsInOrder
  <2> QED BY <2>2, <2>3, <2>4, QuietStep
<1> QED BY <1>5, <1>6

(* An answer from a reservation tells of an effect that is there.           *)
LEMMA AnsweringKeeps ==
    ASSUME AftercareInv, NEW h \in Handlers, call[h].pc # "idle",
           NEW r \in RowsOf(call[h]), AnswerFrom(h, r), UNCHANGED <<owner, closed, tables>>
    PROVE  AftercareInv'
<1>1. /\ call[h].actor \in Actors /\ call[h].key \in Keys /\ call[h].command \in Commands
  BY BusyCalls DEF AftercareInv
<1>2. /\ r \in reservations /\ r \in Reservations
      /\ r.actor = call[h].actor /\ r.key = call[h].key
      /\ r.command.scope = call[h].command.scope
      /\ r = [actor |-> r.actor, key |-> r.key, command |-> r.command,
              result |-> r.result]
  BY RowsAreReservations DEF AftercareInv
<1>3. CASE ~SameCommand(r, call[h])
  <2>1. CallIsInOrder(Idle) /\ CallTo(h, Idle) /\ OnlyCallMoves
    BY <1>3, IdleIsACall DEF CallIsInOrder, AnswerFrom, Refuse, OnlyCallMoves
  <2> QED BY <2>1, IdleIsACall, QuietStep
<1>4. CASE SameCommand(r, call[h])
  <2>1. PICK view : view = IF r.command.scope = "rating" THEN r.command.input
                           ELSE Incidence(r.result)
    OBVIOUS
  <2>2. PICK a : a = [actor |-> r.actor, key |-> r.key, command |-> r.command,
                      result |-> r.result, view |-> view]
    OBVIOUS
  <2>3. told' = told \cup {a} /\ CallTo(h, Idle)
    BY <1>2, <1>4, <2>1, <2>2 DEF AnswerFrom, SameCommand, Answer
  <2>4. /\ r.command \in Commands /\ r.result \in Orders \cup Incidents
        /\ r.actor \in Actors /\ r.key \in Keys
    BY <1>2 DEF Reservations
  <2>5. ASSUME r.command.scope # "rating"
        PROVE  /\ view.version \in 1..incident[r.result].version
               /\ view.status = Path[view.version].to
               /\ view \in [status : Statuses, version : Nat]
               /\ r.command.scope = "incident.transition" =>
                    r.result = r.command.incident /\ view.version > r.command.expected
    <3>1. r.result \in Incidents /\ incident[r.result] # None
      BY <1>2, <2>5 DEF AftercareInv, ReservedIsDone, ReservationIsDone
    <3>2. /\ incident[r.result] \in IncidentRows
          /\ incident[r.result].version \in 1..3
          /\ incident[r.result].status = Path[incident[r.result].version].to
      BY <3>1 DEF AftercareInv, TypeOK, IncidentFollowsItsPath
    <3>3. view.version = incident[r.result].version /\ view.status = incident[r.result].status
          /\ view \in [status : Statuses, version : Nat]
      BY <2>1, <2>5, <3>2 DEF Incidence, IncidentRows
    <3>4. r.command.scope = "incident.transition" =>
            /\ r.result = r.command.incident /\ r.command.expected \in 1..2
            /\ r.command.expected < incident[r.result].version
      BY <1>2, <2>4, CommandKinds DEF AftercareInv, ReservedIsDone, ReservationIsDone
    <3> QED BY <3>2, <3>3, <3>4
  <2>6. r.command.scope = "rating" => view = r.command.input /\ view \in Inputs
    BY <2>1, <2>4, CommandKinds
  <2>7. AnswerIsTrue(a)
    BY <1>2, <2>2, <2>5, <2>6 DEF AnswerIsTrue
  <2>8. AnswerIsTrue(a)'
    BY <2>7 DEF AnswerIsTrue, tables
  <2>9. TypeOK'
    <3>1. a \in Answers
      BY <2>2, <2>4, <2>5, <2>6 DEF Answers, Views
    <3> QED BY <2>3, <3>1, IdleIsACall, CallSteps DEF AftercareInv, TypeOK, tables
  <2>10. CallsAreInOrder'
    <3> SUFFICES ASSUME NEW g \in Handlers PROVE CallIsInOrder(call[g])'
      BY DEF CallsAreInOrder
    <3>1. CASE g = h
      BY <2>3, <3>1, IdleIsACall, CallSteps DEF CallIsInOrder, AftercareInv
    <3>2. CASE g # h
      <4>1. PICK c \in Calls : c = call[g] /\ CallIsInOrder(c)
        BY DEF AftercareInv, TypeOK, CallsAreInOrder
      <4>2. CallIsInOrder(c)' /\ c = call'[g]
        BY <2>3, <3>2, <4>1, TablesStay, IdleIsACall, CallSteps DEF AftercareInv
      <4> QED BY <4>2 DEF CallIsInOrder
    <3> QED BY <3>1, <3>2
  <2>11. \A b \in told' : AnswerIsTrue(b)'
    <3>1. \A b \in told : AnswerIsTrue(b)'
      BY TablesStay
    <3> QED BY <2>3, <2>8, <3>1
  <2> QED BY <2>9, <2>10, <2>11, TablesStay, PartsMakeTheInvariant
<1> QED BY <1>3, <1>4

LEMMA LookingUpKeeps ==
    ASSUME AftercareInv, NEW h \in Handlers, Lookup(h) \/ Replay(h)
    PROVE  AftercareInv'
<1>1. call[h].pc \in {"lookup", "replay"} /\ UNCHANGED <<owner, closed, tables>>
  BY DEF Lookup, Replay
<1>2. CASE \E r \in RowsOf(call[h]) : AnswerFrom(h, r)
  BY <1>1, <1>2, AnsweringKeeps
<1>3. CASE Refuse(h)
  <2>1. CallIsInOrder(Idle) /\ CallTo(h, Idle) /\ OnlyCallMoves
    BY <1>1, <1>3, IdleIsACall DEF CallIsInOrder, Refuse, OnlyCallMoves
  <2> QED BY <2>1, IdleIsACall, QuietStep
<1>4. CASE call[h].pc = "lookup" /\ UNCHANGED told
           /\ StepTo(h, IF call[h].command.scope = "incident.transition" THEN "read"
                                                                     ELSE "commit")
  <2>1. /\ call[h].command \in Commands
        /\ call[h].actor \in Actors /\ call[h].key \in Keys
    BY <1>4, BusyCalls DEF AftercareInv
  <2>2. PICK pc \in {"read", "commit"} :
          pc = IF call[h].command.scope = "incident.transition" THEN "read" ELSE "commit"
    OBVIOUS
  <2>3. PICK next : next = [pc |-> pc, actor |-> call[h].actor, key |-> call[h].key,
                            command |-> call[h].command]
    OBVIOUS
  <2>4. CallTo(h, next) /\ OnlyCallMoves
    BY <1>1, <1>4, <2>2, <2>3, BusyCalls DEF StepTo, AftercareInv, OnlyCallMoves
  <2>5. next \in Calls
    BY <2>1, <2>3 DEF Calls
  <2>6. CallIsInOrder(next)
    BY <1>4, <2>2, <2>3 DEF CallIsInOrder, AftercareInv, CallsAreInOrder
  <2> QED BY <2>4, <2>5, <2>6, QuietStep
<1> QED BY <1>2, <1>3, <1>4 DEF Lookup, Replay

-----------------------------------------------------------------------------
(* Transactions that write.                                                 *)

(* What every one of them leaves of the incidents that were there.          *)
IncidentsOnlyAdvance ==
    \A i \in Incidents : incident[i] # None =>
        /\ incident'[i] # None
        /\ incident'[i].order = incident[i].order
        /\ incident'[i].client = incident[i].client
        /\ incident'[i].input = incident[i].input
        /\ incident[i].version <= incident'[i].version

(* A reservation adds one row of its scope and result and no other.         *)
LEMMA ReservationsAreCounted ==
    ASSUME IsFiniteSet(reservations), NEW new, new \notin reservations,
           reservations' = reservations \cup {new}, NEW scope, NEW x
    PROVE  Cardinality(ReservedFor(x, scope)')
             = Cardinality(ReservedFor(x, scope))
               + (IF new.command.scope = scope /\ new.result = x THEN 1 ELSE 0)
<1> DEFINE S == ReservedFor(x, scope)
<1>1. IsFiniteSet(S) /\ Cardinality(S) \in Nat
  <2>1. S \in SUBSET reservations
    BY DEF ReservedFor
  <2> QED BY <2>1, FS_Subset, FS_CardinalityType
<1>2. new \notin S
  BY DEF ReservedFor
<1>3. CASE new.command.scope = scope /\ new.result = x
  <2>1. ReservedFor(x, scope)' = S \cup {new}
    BY <1>3 DEF ReservedFor
  <2>2. Cardinality(S \cup {new}) = Cardinality(S) + 1
    <3> HIDE DEF S
    <3> QED BY <1>1, <1>2, FS_AddElement
  <2> QED BY <1>3, <2>1, <2>2
<1>4. CASE ~(new.command.scope = scope /\ new.result = x)
  <2>1. ReservedFor(x, scope)' = S
    BY <1>4 DEF ReservedFor
  <2> HIDE DEF S
  <2> QED BY <1>1, <1>4, <2>1 DEF S
<1> QED BY <1>3, <1>4

LEMMA Reserving ==
    ASSUME AftercareInv, NEW h \in Handlers, call[h].pc = "commit", ~KeyTaken(call[h]),
           NEW result \in Orders \cup Incidents, NEW view \in Views, NEW new, NEW a,
           new = [actor |-> call[h].actor, key |-> call[h].key,
                  command |-> call[h].command, result |-> result],
           a = [actor |-> call[h].actor, key |-> call[h].key,
                command |-> call[h].command, result |-> result, view |-> view],
           reservations' = reservations \cup {new}, told' = told \cup {a},
           CallTo(h, Idle), UNCHANGED <<owner, closed>>, ratings \subseteq ratings',
           incident' \in [Incidents -> IncidentRows \cup {None}], IncidentsOnlyAdvance,
           ReservationIsDone(new)', AnswerIsTrue(a)'
    PROVE  /\ reservations' \subseteq Reservations /\ told' \subseteq Answers
           /\ call' \in [Handlers -> Calls]
           /\ new \notin reservations
           /\ \A r, s \in reservations' :
                  /\ r.actor = s.actor /\ r.key = s.key
                  /\ r.command.scope = s.command.scope
                  => r = s
           /\ CallsAreInOrder' /\ ReservedIsDone'
           /\ IsFiniteSet(reservations')
           /\ \A b \in told' : AnswerIsTrue(b)'
<1>1. /\ call[h].actor \in Actors /\ call[h].key \in Keys /\ call[h].command \in Commands
  BY BusyCalls DEF AftercareInv
<1>2. reservations' \subseteq Reservations /\ told' \subseteq Answers
  <2>1. new \in Reservations
    BY <1>1 DEF Reservations
  <2>2. a \in Answers
    BY <1>1 DEF Answers
  <2> QED BY <2>1, <2>2 DEF AftercareInv, TypeOK
<1>3. call' \in [Handlers -> Calls] /\ call'[h] = Idle
      /\ \A g \in Handlers \ {h} : call'[g] = call[g]
  BY IdleIsACall, CallSteps DEF AftercareInv
<1>4. \A r \in reservations :
        ~(r.actor = new.actor /\ r.key = new.key /\ r.command.scope = new.command.scope)
  BY DEF KeyTaken
<1>5. new \notin reservations
  BY <1>4
<1>6. \A r, s \in reservations' :
          r.actor = s.actor /\ r.key = s.key /\ r.command.scope = s.command.scope => r = s
  BY <1>4 DEF AftercareInv, KeysAreIdempotent, EveryEffectHasItsKey
<1>7. CallsAreInOrder'
  <2> SUFFICES ASSUME NEW g \in Handlers PROVE CallIsInOrder(call[g])'
    BY DEF CallsAreInOrder
  <2>1. CASE g = h
    BY <1>3, <2>1, IdleIsACall DEF CallIsInOrder
  <2>2. CASE g # h /\ call[g].pc = "idle"
    BY <1>3, <2>2 DEF CallIsInOrder
  <2>3. CASE g # h /\ call[g].pc # "idle"
    <3>1. PICK c \in Commands : c = call[g].command
      BY <2>3, BusyCalls DEF AftercareInv
    <3>2. c.scope = "incident.transition" => c.incident \in Incidents
      BY CommandKinds
    <3>3. CallIsInOrder(call[g]) /\ call'[g] = call[g]
      BY <1>3, <2>3 DEF AftercareInv, CallsAreInOrder
    <3>4. c.scope # "incident.transition" =>
            call[g].actor = owner'[c.order] /\ c.order \in closed' /\ call[g].pc # "read"
      BY <2>3, <3>1, <3>3 DEF CallIsInOrder
    <3>5. c.scope = "incident.transition" /\ call[g].pc = "commit" =>
            /\ call[g] \in MoveCalls
            /\ incident'[c.incident] # None
            /\ call[g].from = Path[c.expected].to
            /\ call[g].sequence = c.expected + 1
            /\ c.action = Path[c.expected + 1].action
      BY <2>3, <3>1, <3>2, <3>3 DEF CallIsInOrder, IncidentsOnlyAdvance
    <3> QED BY <3>1, <3>3, <3>4, <3>5 DEF CallIsInOrder
  <2> QED BY <2>1, <2>2, <2>3
<1>8. ReservedIsDone'
  <2> SUFFICES ASSUME NEW r \in reservations PROVE ReservationIsDone(r)'
    BY DEF ReservedIsDone
  <2>1. ReservationIsDone(r) /\ r.command \in Commands
    BY DEF AftercareInv, ReservedIsDone, TypeOK, Reservations
  <2>2. r.command.scope \in Scopes
    BY <2>1, CommandKinds
  <2>3. CASE r.command.scope = "rating"
    BY <2>1, <2>3 DEF ReservationIsDone
  <2>4. CASE r.command.scope = "incident.open"
    BY <2>1, <2>4 DEF ReservationIsDone, IncidentsOnlyAdvance
  <2>5. CASE r.command.scope = "incident.transition"
    <3>1. /\ r.result \in Incidents /\ incident[r.result] # None /\ incident'[r.result] # None
          /\ r.result = r.command.incident /\ r.command.expected < incident[r.result].version
          /\ incident[r.result].version <= incident'[r.result].version
      BY <2>1, <2>5 DEF ReservationIsDone, IncidentsOnlyAdvance
    <3>2. incident[r.result].version \in Nat /\ incident'[r.result].version \in Nat
          /\ r.command.expected \in Nat
      BY <2>1, <2>5, <3>1, CommandKinds DEF AftercareInv, TypeOK, IncidentRows
    <3> QED BY <2>5, <3>1, <3>2 DEF ReservationIsDone
  <2> QED BY <2>2, <2>3, <2>4, <2>5 DEF Scopes
<1>9. IsFiniteSet(reservations')
  BY FS_AddElement DEF AftercareInv, RowsAreFinite
<1>10. ASSUME NEW b \in told PROVE AnswerIsTrue(b)'
  <2>1. AnswerIsTrue(b) /\ b \in Answers
    BY ToldIsTrue DEF AftercareInv, TypeOK
  <2>2. PICK r \in reservations : r = [actor |-> b.actor, key |-> b.key,
                                       command |-> b.command, result |-> b.result]
    BY <2>1 DEF AnswerIsTrue
  <2>3. CASE b.command.scope = "rating"
    BY <2>1, <2>3 DEF AnswerIsTrue
  <2>4. CASE b.command.scope # "rating"
    <3>1. b.result \in Incidents /\ incident[b.result] # None
      BY <2>2, <2>4 DEF AftercareInv, ReservedIsDone, ReservationIsDone
    <3>2. /\ incident[b.result].version <= incident'[b.result].version
          /\ incident'[b.result] # None
      BY <3>1 DEF IncidentsOnlyAdvance
    <3>3. incident[b.result].version \in Nat /\ incident'[b.result].version \in Nat
      BY <3>1, <3>2 DEF AftercareInv, TypeOK, IncidentRows
    <3>4. /\ b.view.version \in 1..incident[b.result].version
          /\ b.view.status = Path[b.view.version].to
          /\ b.command.scope = "incident.transition" =>
               b.result = b.command.incident /\ b.view.version > b.command.expected
      BY <2>1, <2>4 DEF AnswerIsTrue
    <3>5. b.view.version \in 1..incident'[b.result].version
      BY <3>2, <3>3, <3>4
    <3> QED BY <2>2, <2>4, <3>4, <3>5 DEF AnswerIsTrue
  <2> QED BY <2>3, <2>4
<1>11. \A b \in told' : AnswerIsTrue(b)'
  BY <1>10
<1> QED BY <1>2, <1>3, <1>5, <1>6, <1>7, <1>8, <1>9, <1>11

(* How many reservations name what a step did not reserve, and what it did. *)
LEMMA CountsOfReservations ==
    ASSUME RowsAreFinite, NEW new, new \notin reservations,
           reservations' = reservations \cup {new}
    PROVE  /\ \A x, scope : Cardinality(ReservedFor(x, scope)) \in Nat
           /\ \A x, scope : new.command.scope # scope \/ new.result # x =>
                  Cardinality(ReservedFor(x, scope)') = Cardinality(ReservedFor(x, scope))
           /\ \A x, scope : new.command.scope = scope /\ new.result = x =>
                  Cardinality(ReservedFor(x, scope)') = Cardinality(ReservedFor(x, scope)) + 1
<1>1. ASSUME NEW x, NEW scope PROVE Cardinality(ReservedFor(x, scope)) \in Nat
  <2>1. ReservedFor(x, scope) \in SUBSET reservations
    BY DEF ReservedFor
  <2> QED BY <2>1, FS_Subset, FS_CardinalityType DEF RowsAreFinite
<1>2. ASSUME NEW x, NEW scope, new.command.scope # scope \/ new.result # x
      PROVE  Cardinality(ReservedFor(x, scope)') = Cardinality(ReservedFor(x, scope))
  <2>1. Cardinality(ReservedFor(x, scope)') = Cardinality(ReservedFor(x, scope)) + 0
    BY <1>2, ReservationsAreCounted DEF RowsAreFinite
  <2> QED BY <1>1, <2>1
<1>3. ASSUME NEW x, NEW scope, new.command.scope = scope, new.result = x
      PROVE  Cardinality(ReservedFor(x, scope)') = Cardinality(ReservedFor(x, scope)) + 1
  BY <1>3, ReservationsAreCounted DEF RowsAreFinite
<1> QED BY <1>1, <1>2, <1>3

LEMMA RatingKeeps ==
    ASSUME AftercareInv, NEW h \in Handlers, CreateRating(h)
    PROVE  AftercareInv'
<1>1. /\ call[h].actor \in Actors /\ call[h].key \in Keys /\ call[h].command \in Commands
      /\ call[h].pc = "commit" /\ ~KeyTaken(call[h])
      /\ call[h].command.scope = "rating" /\ ~RatingTaken(call[h].command.order)
  BY BusyCalls DEF AftercareInv, CreateRating
<1>0. PICK c \in Commands : c = call[h].command
  BY <1>1
<1>2. PICK row, new, a :
        /\ c = call[h].command
        /\ row = [order |-> c.order, client |-> call[h].actor, input |-> c.input]
        /\ new = [actor |-> call[h].actor, key |-> call[h].key, command |-> c,
                  result |-> c.order]
        /\ a = [actor |-> call[h].actor, key |-> call[h].key, command |-> c,
                result |-> c.order, view |-> c.input]
  BY <1>0
<1>3. c.order \in Orders /\ c.input \in Inputs /\ c.scope = "rating"
  BY <1>1, <1>2, CommandKinds
<1>4. /\ ratings' = ratings \cup {row} /\ reservations' = reservations \cup {new}
      /\ told' = told \cup {a} /\ CallTo(h, Idle)
      /\ UNCHANGED <<owner, closed, incident, history>>
  BY <1>2 DEF CreateRating, Reserve, Answer
<1>5. call[h].actor = owner[c.order] /\ c.order \in closed
  BY <1>1, <1>2, <1>3 DEF AftercareInv, CallsAreInOrder, CallIsInOrder
<1>6. call[h].actor \in Clients
  BY <1>3, <1>5 DEF AftercareInv, TypeOK
<1>7. \A r \in ratings : r.order # c.order
  BY <1>1, <1>2 DEF RatingTaken
<1>8. IncidentsOnlyAdvance /\ incident' \in [Incidents -> IncidentRows \cup {None}]
  <2>1. \A i \in Incidents : incident[i] # None => incident[i].version <= incident[i].version
    BY DEF AftercareInv, TypeOK, IncidentRows
  <2> QED BY <1>4, <2>1 DEF IncidentsOnlyAdvance, AftercareInv, TypeOK
<1>9. ReservationIsDone(new)' /\ AnswerIsTrue(a)'
  <2>1. ReservationIsDone(new)'
    BY <1>2, <1>3, <1>4 DEF ReservationIsDone
  <2>2. AnswerIsTrue(a)'
    BY <1>2, <1>3, <1>4 DEF AnswerIsTrue
  <2> QED BY <2>1, <2>2
<1>10. /\ reservations' \subseteq Reservations /\ told' \subseteq Answers
       /\ call' \in [Handlers -> Calls] /\ new \notin reservations
       /\ \A r, s \in reservations' :
              r.actor = s.actor /\ r.key = s.key /\ r.command.scope = s.command.scope
              => r = s
       /\ CallsAreInOrder' /\ ReservedIsDone' /\ IsFiniteSet(reservations')
       /\ \A b \in told' : AnswerIsTrue(b)'
  <2>1. PICK result \in Orders \cup Incidents, view \in Views :
          result = c.order /\ view = c.input
    BY <1>3 DEF Views
  <2>2. /\ new = [actor |-> call[h].actor, key |-> call[h].key,
                  command |-> call[h].command, result |-> result]
        /\ a = [actor |-> call[h].actor, key |-> call[h].key,
                command |-> call[h].command, result |-> result, view |-> view]
    BY <1>2, <2>1
  <2>3. ratings \subseteq ratings'
    BY <1>4
  <2> QED BY <1>1, <1>4, <1>8, <1>9, <2>2, <2>3, Reserving
<1>11. TypeOK'
  <2>1. row \in RatingRows
    BY <1>2, <1>3, <1>6 DEF RatingRows
  <2> QED BY <1>4, <1>10, <2>1 DEF AftercareInv, TypeOK
<1>12. OneOfEach'
  <2>1. row.order = c.order /\ row.client = owner[c.order]
    BY <1>2, <1>5
  <2> QED BY <1>4, <1>5, <1>7, <2>1 DEF AftercareInv, OneOfEach
<1>13. IncidentFollowsItsPath' /\ RowsAreFinite'
  <2>1. IncidentFollowsItsPath'
    BY <1>4 DEF AftercareInv, IncidentFollowsItsPath, HistoryOf
  <2>2. RowsAreFinite'
    BY <1>4, <1>10, FS_AddElement DEF AftercareInv, RowsAreFinite
  <2> QED BY <2>1, <2>2
<1>14. EveryEffectHasItsKey'
  <2>2. new.command.scope = "rating" /\ new.result = c.order
    BY <1>2, <1>3
  <2>3. ASSUME NEW o \in Orders
        PROVE  Cardinality(ReservedFor(o, "rating")')
                 = Cardinality({r \in ratings' : r.order = o})
    <3> DEFINE S == {r \in ratings : r.order = o}
    <3>1. IsFiniteSet(S) /\ Cardinality(S) \in Nat
      <4>1. S \in SUBSET ratings
        OBVIOUS
      <4> QED BY <4>1, FS_Subset, FS_CardinalityType DEF AftercareInv, RowsAreFinite
    <3>2. Cardinality(ReservedFor(o, "rating")) = Cardinality(S)
      BY DEF AftercareInv, KeysAreIdempotent, EveryEffectHasItsKey
    <3>3. CASE o = c.order
      <4>1. S = {} /\ row \notin S
        BY <1>7, <3>3
      <4>2. {r \in ratings' : r.order = o} = S \cup {row}
        BY <1>2, <1>4, <3>3
      <4>3. Cardinality(S \cup {row}) = Cardinality(S) + 1
        <5> HIDE DEF S
        <5> QED BY <3>1, <4>1, FS_AddElement
      <4>4. Cardinality(ReservedFor(o, "rating")') = Cardinality(ReservedFor(o, "rating")) + 1
        BY <1>4, <1>10, <2>2, <3>3, CountsOfReservations DEF AftercareInv
      <4> HIDE DEF S
      <4> QED BY <3>1, <3>2, <4>2, <4>3, <4>4
    <3>4. CASE o # c.order
      <4>1. {r \in ratings' : r.order = o} = S
        BY <1>2, <1>4, <3>4
      <4>2. Cardinality(ReservedFor(o, "rating")') = Cardinality(ReservedFor(o, "rating"))
        BY <1>4, <1>10, <2>2, <3>4, CountsOfReservations DEF AftercareInv
      <4>3. Cardinality({r \in ratings' : r.order = o}) = Cardinality(S)
        BY <4>1
      <4> HIDE DEF S
      <4>4. Cardinality(ReservedFor(o, "rating")') = Cardinality(S)
        BY <3>1, <3>2, <4>2
      <4> QED BY <4>3, <4>4
    <3> QED BY <3>3, <3>4
  <2>4. ASSUME NEW i \in Incidents, NEW scope \in {"incident.open", "incident.transition"}
        PROVE  Cardinality(ReservedFor(i, scope)') = Cardinality(ReservedFor(i, scope))
    BY <1>4, <1>10, <2>2, CountsOfReservations DEF AftercareInv
  <2> QED BY <1>4, <1>10, <2>3, <2>4
          DEF AftercareInv, KeysAreIdempotent, EveryEffectHasItsKey
<1> QED BY <1>10, <1>11, <1>12, <1>13, <1>14, PartsMakeTheInvariant

LEMMA OpeningKeeps ==
    ASSUME AftercareInv, NEW h \in Handlers, NEW i \in Incidents, CreateIncident(h, i)
    PROVE  AftercareInv'
<1>1. /\ call[h].actor \in Actors /\ call[h].key \in Keys /\ call[h].command \in Commands
      /\ call[h].pc = "commit" /\ ~KeyTaken(call[h])
      /\ call[h].command.scope = "incident.open"
      /\ ~ActiveIncidentOf(call[h].command.order) /\ incident[i] = None
  BY BusyCalls DEF AftercareInv, CreateIncident
<1>0. PICK c \in Commands : c = call[h].command
  BY <1>1
<1>2. PICK row, line, new, a :
        /\ c = call[h].command
        /\ row = [order |-> c.order, client |-> call[h].actor, input |-> c.input,
                  status |-> "ABIERTA", version |-> 1]
        /\ line = [incident |-> i, sequence |-> 1, from |-> None, to |-> "ABIERTA",
                   action |-> "OPEN", by |-> call[h].actor]
        /\ new = [actor |-> call[h].actor, key |-> call[h].key,
                  command |-> call[h].command, result |-> i]
        /\ a = [actor |-> call[h].actor, key |-> call[h].key, command |-> call[h].command,
                result |-> i, view |-> [status |-> "ABIERTA", version |-> 1]]
  BY <1>0
<1>3. c.order \in Orders /\ c.input \in Inputs /\ c.scope = "incident.open"
  BY <1>1, <1>2, CommandKinds
<1>4. /\ incident' = [incident EXCEPT ![i] = row] /\ history' = history \cup {line}
      /\ reservations' = reservations \cup {new}
      /\ told' = told \cup {a} /\ CallTo(h, Idle)
      /\ UNCHANGED <<owner, closed, ratings>>
  BY <1>2 DEF CreateIncident, Reserve, Answer
<1>5. call[h].actor = owner[c.order] /\ c.order \in closed
  BY <1>1, <1>2, <1>3 DEF AftercareInv, CallsAreInOrder, CallIsInOrder
<1>6. row \in IncidentRows /\ line \in HistoryRows
  <2>1. call[h].actor \in Clients
    BY <1>3, <1>5 DEF AftercareInv, TypeOK
  <2>2. row \in IncidentRows
    BY <1>2, <1>3, <2>1 DEF IncidentRows, Statuses
  <2>3. line \in HistoryRows
    BY <1>1, <1>2 DEF HistoryRows, Statuses
  <2> QED BY <2>2, <2>3
<1>7. /\ incident \in [Incidents -> IncidentRows \cup {None}]
      /\ incident' \in [Incidents -> IncidentRows \cup {None}]
      /\ incident'[i] = row /\ row # None /\ \A j \in Incidents \ {i} : incident'[j] = incident[j]
  BY <1>4, <1>6, NoRowAssumption DEF AftercareInv, TypeOK
<1>8. IncidentsOnlyAdvance
  <2>1. \A j \in Incidents : incident[j] # None => incident[j].version <= incident[j].version
    BY DEF AftercareInv, TypeOK, IncidentRows
  <2> QED BY <1>1, <1>7, <2>1 DEF IncidentsOnlyAdvance
<1>9. /\ row.order = c.order /\ row.client = call[h].actor /\ row.input = c.input
      /\ row.status = "ABIERTA" /\ row.version = 1
      /\ line.incident = i /\ line.sequence = 1 /\ line.from = None
      /\ line.to = "ABIERTA" /\ line.action = "OPEN"
  BY <1>2
<1>10. ReservationIsDone(new)' /\ AnswerIsTrue(a)'
  <2>1. ReservationIsDone(new)'
    BY <1>2, <1>3, <1>7, <1>9 DEF ReservationIsDone
  <2>2. AnswerIsTrue(a)'
    BY <1>2, <1>3, <1>4, <1>7, <1>9, PathSteps DEF AnswerIsTrue
  <2> QED BY <2>1, <2>2
<1>11. /\ reservations' \subseteq Reservations /\ told' \subseteq Answers
       /\ call' \in [Handlers -> Calls] /\ new \notin reservations
       /\ \A r, s \in reservations' :
              r.actor = s.actor /\ r.key = s.key /\ r.command.scope = s.command.scope
              => r = s
       /\ CallsAreInOrder' /\ ReservedIsDone' /\ IsFiniteSet(reservations')
       /\ \A b \in told' : AnswerIsTrue(b)'
  <2>1. PICK result \in Orders \cup Incidents, view \in Views :
          result = i /\ view = [status |-> "ABIERTA", version |-> 1]
    BY DEF Views, Statuses
  <2>2. /\ new = [actor |-> call[h].actor, key |-> call[h].key,
                  command |-> call[h].command, result |-> result]
        /\ a = [actor |-> call[h].actor, key |-> call[h].key,
                command |-> call[h].command, result |-> result, view |-> view]
    BY <1>2, <2>1
  <2>3. ratings \subseteq ratings'
    BY <1>4
  <2> QED BY <1>1, <1>4, <1>7, <1>8, <1>10, <2>2, <2>3, Reserving
<1>12. TypeOK'
  BY <1>4, <1>6, <1>7, <1>11 DEF AftercareInv, TypeOK
<1>13. OneOfEach'
  <2>1. \A j \in Incidents : ~(/\ incident[j] # None /\ incident[j].order = c.order
                               /\ incident[j].status \in ActiveStatuses)
    BY <1>1, <1>2 DEF ActiveIncidentOf
  <2> QED BY <1>4, <1>5, <1>7, <1>9, <2>1 DEF AftercareInv, OneOfEach
<1>14. IncidentFollowsItsPath'
  <2> SUFFICES ASSUME NEW j \in Incidents
               PROVE  IF incident'[j] = None THEN HistoryOf(j)' = {}
                      ELSE /\ incident'[j].version \in 1..3
                           /\ incident'[j].status = Path[incident'[j].version].to
                           /\ Cardinality(HistoryOf(j)') = incident'[j].version
                           /\ \A r \in HistoryOf(j)' :
                                /\ r.sequence \in 1..incident'[j].version
                                /\ [action |-> r.action, from |-> r.from, to |-> r.to]
                                     = Path[r.sequence]
    BY DEF IncidentFollowsItsPath
  <2>1. CASE j = i
    <3>1. HistoryOf(i) = {}
      BY <1>1 DEF AftercareInv, IncidentFollowsItsPath
    <3>2. HistoryOf(i)' = {line}
      BY <1>4, <1>9, <3>1 DEF HistoryOf
    <3>3. Cardinality({line}) = 1
      BY FS_Singleton
    <3>4. [action |-> line.action, from |-> line.from, to |-> line.to] = Path[1]
      BY <1>9, PathSteps
    <3> QED BY <1>7, <1>9, <2>1, <3>2, <3>3, <3>4, PathSteps
  <2>2. CASE j # i
    <3>1. HistoryOf(j)' = HistoryOf(j) /\ incident'[j] = incident[j]
      BY <1>4, <1>7, <1>9, <2>2 DEF HistoryOf
    <3> QED BY <3>1 DEF AftercareInv, IncidentFollowsItsPath
  <2> QED BY <2>1, <2>2
<1>15. RowsAreFinite'
  BY <1>4, <1>11, FS_AddElement DEF AftercareInv, RowsAreFinite
<1>16. EveryEffectHasItsKey'
  <2>1. new.command.scope = "incident.open" /\ new.result = i
    BY <1>2, <1>3
  <2>2. ASSUME NEW o \in Orders
        PROVE  Cardinality(ReservedFor(o, "rating")')
                 = Cardinality({r \in ratings' : r.order = o})
    <3>1. Cardinality(ReservedFor(o, "rating")') = Cardinality(ReservedFor(o, "rating"))
      BY <1>4, <1>11, <2>1, CountsOfReservations DEF AftercareInv
    <3> QED BY <1>4, <3>1 DEF AftercareInv, KeysAreIdempotent, EveryEffectHasItsKey
  <2>3. ASSUME NEW j \in Incidents
        PROVE  /\ Cardinality(ReservedFor(j, "incident.open")')
                    = (IF incident'[j] = None THEN 0 ELSE 1)
               /\ Cardinality(ReservedFor(j, "incident.transition")')
                    = (IF incident'[j] = None THEN 0 ELSE incident'[j].version - 1)
    <3>1. /\ Cardinality(ReservedFor(j, "incident.open")) = (IF incident[j] = None THEN 0
                                                                                  ELSE 1)
          /\ Cardinality(ReservedFor(j, "incident.transition"))
               = (IF incident[j] = None THEN 0 ELSE incident[j].version - 1)
      BY DEF AftercareInv, KeysAreIdempotent, EveryEffectHasItsKey
    <3>2. Cardinality(ReservedFor(j, "incident.transition")')
            = Cardinality(ReservedFor(j, "incident.transition"))
      BY <1>4, <1>11, <2>1, CountsOfReservations DEF AftercareInv
    <3>3. CASE j = i
      <4>1. Cardinality(ReservedFor(j, "incident.open")')
              = Cardinality(ReservedFor(j, "incident.open")) + 1
        BY <1>4, <1>11, <2>1, <3>3, CountsOfReservations DEF AftercareInv
      <4> QED BY <1>1, <1>7, <1>9, <3>1, <3>2, <3>3, <4>1
    <3>4. CASE j # i
      <4>1. Cardinality(ReservedFor(j, "incident.open")')
              = Cardinality(ReservedFor(j, "incident.open"))
        BY <1>4, <1>11, <2>1, <3>4, CountsOfReservations DEF AftercareInv
      <4> QED BY <1>7, <3>1, <3>2, <3>4, <4>1
    <3> QED BY <3>3, <3>4
  <2> QED BY <1>11, <2>2, <2>3 DEF EveryEffectHasItsKey
<1> QED BY <1>11, <1>12, <1>13, <1>14, <1>15, <1>16, PartsMakeTheInvariant

LEMMA MovingKeeps ==
    ASSUME AftercareInv, NEW h \in Handlers, Transition(h)
    PROVE  AftercareInv'
<1>1. /\ call[h].actor \in Actors /\ call[h].key \in Keys /\ call[h].command \in Commands
      /\ call[h].pc = "commit" /\ ~KeyTaken(call[h])
      /\ call[h].command.scope = "incident.transition" /\ ~Outdated(call[h])
  BY BusyCalls DEF AftercareInv, Transition
<1>0. PICK c \in Commands, i \in Incidents, n \in 1..2, action \in {"START_TRIAGE", "CLOSE"} :
        /\ c = call[h].command /\ c.scope = "incident.transition"
        /\ i = c.incident /\ n = c.expected /\ action = c.action
  BY <1>1, CommandKinds
<1>2. PICK to :
        /\ c = call[h].command /\ c.scope = "incident.transition"
        /\ i = c.incident /\ n = c.expected /\ action = c.action
        /\ to = NextStatus(call[h].from, c.action)
  BY <1>0
<1>3. PICK line, new, a :
        /\ line = [incident |-> i, sequence |-> call[h].sequence, from |-> call[h].from,
                   to |-> to, action |-> action, by |-> call[h].actor]
        /\ new = [actor |-> call[h].actor, key |-> call[h].key,
                  command |-> call[h].command, result |-> i]
        /\ a = [actor |-> call[h].actor, key |-> call[h].key, command |-> call[h].command,
                result |-> i, view |-> [status |-> to, version |-> n + 1]]
  OBVIOUS
<1>4. /\ call[h] \in MoveCalls /\ incident[i] # None
      /\ call[h].from = Path[n].to /\ call[h].sequence = n + 1
      /\ action = Path[n + 1].action
  BY <1>1, <1>2, <1>3 DEF AftercareInv, CallsAreInOrder, CallIsInOrder
<1>5. incident[i].version = n /\ incident[i].status = Path[n].to
      /\ incident[i] \in IncidentRows
  BY <1>1, <1>2, <1>3, <1>4 DEF Outdated, AftercareInv, IncidentFollowsItsPath, TypeOK
<1>6. /\ to = Path[n + 1].to /\ to \in Statuses
      /\ call[h].from = Path[n + 1].from /\ call[h].from \in ActiveStatuses
  <2>1. n = 1 \/ n = 2
    OBVIOUS
  <2>2. CASE n = 1
    BY <1>2, <1>4, <2>2, PathSteps DEF NextStatus, Statuses, ActiveStatuses
  <2>3. CASE n = 2
    BY <1>2, <1>4, <2>3, PathSteps DEF NextStatus, Statuses, ActiveStatuses
  <2> QED BY <2>1, <2>2, <2>3
<1>6a. PICK old \in IncidentRows : old = incident[i] /\ old.version = n
  BY <1>5
<1>7. PICK row : /\ old = incident[i] /\ old.version = n
                 /\ row = [old EXCEPT !.status = to, !.version = n + 1]
  BY <1>6a
<1>8. /\ incident' = [incident EXCEPT ![i] = row] /\ history' = history \cup {line}
      /\ reservations' = reservations \cup {new}
      /\ told' = told \cup {a} /\ CallTo(h, Idle)
      /\ UNCHANGED <<owner, closed, ratings>>
  <2>1. incident' = [incident EXCEPT ![i].status = to, ![i].version = @ + 1]
    BY <1>2 DEF Transition
  <2>4. incident' = [incident EXCEPT ![i] = [incident[i] EXCEPT !.status = to,
                                                 !.version = incident[i].version + 1]]
    BY <2>1
  <2>2. incident' = [incident EXCEPT ![i] = row]
    BY <1>7, <2>4
  <2>3. /\ history' = history \cup {line} /\ reservations' = reservations \cup {new}
        /\ told' = told \cup {a} /\ CallTo(h, Idle)
        /\ UNCHANGED <<owner, closed, ratings>>
    BY <1>2, <1>3, <1>5 DEF Transition, Reserve, Answer
  <2> QED BY <2>2, <2>3
<1>9. /\ row \in IncidentRows /\ row.status = to /\ row.version = n + 1
      /\ row.order = incident[i].order /\ row.client = incident[i].client
      /\ row.input = incident[i].input
  <2>1. PICK v \in Nat : v = n + 1
    OBVIOUS
  <2>2. row = [old EXCEPT !.status = to, !.version = v]
    BY <1>7, <2>1
  <2>3. row \in IncidentRows
    BY <1>6, <2>2 DEF IncidentRows
  <2>4. /\ row.status = to /\ row.version = n + 1
        /\ row.order = old.order /\ row.client = old.client /\ row.input = old.input
    BY <2>1, <2>2 DEF IncidentRows
  <2> QED BY <1>7, <2>3, <2>4
<1>10. /\ line \in HistoryRows /\ line.incident = i /\ line.sequence = n + 1
       /\ [action |-> line.action, from |-> line.from, to |-> line.to] = Path[n + 1]
  <2>1. line \in HistoryRows
    <3>1. /\ n + 1 \in Nat /\ call[h].from \in Statuses \cup {None}
          /\ action \in {"OPEN", "START_TRIAGE", "CLOSE"}
      BY <1>6 DEF Statuses, ActiveStatuses
    <3> QED BY <1>1, <1>3, <1>4, <1>6, <3>1 DEF HistoryRows
  <2>2. /\ line.incident = i /\ line.sequence = n + 1
        /\ line.action = Path[n + 1].action /\ line.from = Path[n + 1].from
        /\ line.to = Path[n + 1].to
    BY <1>3, <1>4, <1>6
  <2>3. n + 1 \in 1..3
    OBVIOUS
  <2> QED BY <2>1, <2>2, <2>3, PathSteps
<1>11. /\ incident \in [Incidents -> IncidentRows \cup {None}]
       /\ incident' \in [Incidents -> IncidentRows \cup {None}]
       /\ incident'[i] = row /\ row # None /\ \A j \in Incidents \ {i} : incident'[j] = incident[j]
  BY <1>8, <1>9, NoRowAssumption DEF AftercareInv, TypeOK
<1>12. IncidentsOnlyAdvance
  <2>1. \A j \in Incidents : incident[j] # None => incident[j].version <= incident[j].version
    BY DEF AftercareInv, TypeOK, IncidentRows
  <2> QED BY <1>5, <1>9, <1>11, <2>1 DEF IncidentsOnlyAdvance
<1>13. ReservationIsDone(new)' /\ AnswerIsTrue(a)'
  <2>1. ReservationIsDone(new)'
    BY <1>2, <1>3, <1>9, <1>11 DEF ReservationIsDone
  <2>2. a.view.version = n + 1 /\ a.view.status = to /\ a.result = i /\ a.command = c
        /\ [actor |-> a.actor, key |-> a.key, command |-> a.command, result |-> a.result] = new
    BY <1>2, <1>3
  <2>3. AnswerIsTrue(a)'
    BY <1>2, <1>3, <1>6, <1>8, <1>9, <1>11, <2>2 DEF AnswerIsTrue
  <2> QED BY <2>1, <2>3
<1>14. /\ reservations' \subseteq Reservations /\ told' \subseteq Answers
       /\ call' \in [Handlers -> Calls] /\ new \notin reservations
       /\ \A r, s \in reservations' :
              r.actor = s.actor /\ r.key = s.key /\ r.command.scope = s.command.scope
              => r = s
       /\ CallsAreInOrder' /\ ReservedIsDone' /\ IsFiniteSet(reservations')
       /\ \A b \in told' : AnswerIsTrue(b)'
  <2>1. PICK result \in Orders \cup Incidents, view \in Views :
          result = i /\ view = [status |-> to, version |-> n + 1]
    <3>1. [status |-> to, version |-> n + 1] \in Views
      BY <1>6 DEF Views
    <3> QED BY <3>1
  <2>2. /\ new = [actor |-> call[h].actor, key |-> call[h].key,
                  command |-> call[h].command, result |-> result]
        /\ a = [actor |-> call[h].actor, key |-> call[h].key,
                command |-> call[h].command, result |-> result, view |-> view]
    BY <1>3, <2>1
  <2>3. ratings \subseteq ratings'
    BY <1>8
  <2> QED BY <1>1, <1>8, <1>11, <1>12, <1>13, <2>2, <2>3, Reserving
<1>15. TypeOK'
  BY <1>8, <1>10, <1>11, <1>14 DEF AftercareInv, TypeOK
<1>16. OneOfEach'
  <2>1. incident[i].status \in ActiveStatuses
    BY <1>4, <1>5, <1>6
  <2>2. \A j \in Incidents : /\ incident'[j] # None => incident[j] # None
                             /\ incident'[j].order = incident[j].order
                             /\ incident'[j].client = incident[j].client
                             /\ incident'[j].status \in ActiveStatuses =>
                                  incident[j].status \in ActiveStatuses
    BY <1>4, <1>9, <1>11, <2>1
  <2> QED BY <1>8, <2>2 DEF AftercareInv, OneOfEach
<1>17. IncidentFollowsItsPath'
  <2> SUFFICES ASSUME NEW j \in Incidents
               PROVE  IF incident'[j] = None THEN HistoryOf(j)' = {}
                      ELSE /\ incident'[j].version \in 1..3
                           /\ incident'[j].status = Path[incident'[j].version].to
                           /\ Cardinality(HistoryOf(j)') = incident'[j].version
                           /\ \A r \in HistoryOf(j)' :
                                /\ r.sequence \in 1..incident'[j].version
                                /\ [action |-> r.action, from |-> r.from, to |-> r.to]
                                     = Path[r.sequence]
    BY DEF IncidentFollowsItsPath
  <2>1. CASE j = i
    <3> DEFINE H == HistoryOf(i)
    <3>1. /\ Cardinality(H) = n
          /\ \A r \in H : /\ r.sequence \in 1..n
                          /\ [action |-> r.action, from |-> r.from, to |-> r.to]
                               = Path[r.sequence]
      BY <1>3, <1>4, <1>5 DEF AftercareInv, IncidentFollowsItsPath
    <3>2. HistoryOf(i)' = H \cup {line}
      BY <1>8, <1>10 DEF HistoryOf
    <3>3. line \notin H
      BY <1>10, <3>1
    <3>4. IsFiniteSet(H)
      <4>1. H \in SUBSET history
        BY DEF HistoryOf
      <4> QED BY <4>1, FS_Subset DEF AftercareInv, RowsAreFinite
    <3>5. Cardinality(H \cup {line}) = n + 1
      <4> HIDE DEF H
      <4> QED BY <3>1, <3>3, <3>4, FS_AddElement
    <3>6. \A r \in H \cup {line} :
            /\ r.sequence \in 1..(n + 1)
            /\ [action |-> r.action, from |-> r.from, to |-> r.to] = Path[r.sequence]
      <4> HIDE DEF H
      <4>1. ASSUME NEW r \in H
            PROVE  /\ r.sequence \in 1..(n + 1)
                   /\ [action |-> r.action, from |-> r.from, to |-> r.to] = Path[r.sequence]
        BY <3>1
      <4>2. n + 1 \in 1..(n + 1)
        OBVIOUS
      <4> QED BY <1>10, <4>1, <4>2
    <3> HIDE DEF H
    <3> QED BY <1>6, <1>9, <1>11, <2>1, <3>2, <3>5, <3>6
  <2>2. CASE j # i
    <3>1. HistoryOf(j)' = HistoryOf(j) /\ incident'[j] = incident[j]
      BY <1>8, <1>10, <1>11, <2>2 DEF HistoryOf
    <3> QED BY <3>1 DEF AftercareInv, IncidentFollowsItsPath
  <2> QED BY <2>1, <2>2
<1>18. RowsAreFinite'
  BY <1>8, <1>14, FS_AddElement DEF AftercareInv, RowsAreFinite
<1>19. EveryEffectHasItsKey'
  <2>1. new.command.scope = "incident.transition" /\ new.result = i
    BY <1>1, <1>3
  <2>2. ASSUME NEW o \in Orders
        PROVE  Cardinality(ReservedFor(o, "rating")')
                 = Cardinality({r \in ratings' : r.order = o})
    <3>1. Cardinality(ReservedFor(o, "rating")') = Cardinality(ReservedFor(o, "rating"))
      BY <1>8, <1>14, <2>1, CountsOfReservations DEF AftercareInv
    <3> QED BY <1>8, <3>1 DEF AftercareInv, KeysAreIdempotent, EveryEffectHasItsKey
  <2>3. ASSUME NEW j \in Incidents
        PROVE  /\ Cardinality(ReservedFor(j, "incident.open")')
                    = (IF incident'[j] = None THEN 0 ELSE 1)
               /\ Cardinality(ReservedFor(j, "incident.transition")')
                    = (IF incident'[j] = None THEN 0 ELSE incident'[j].version - 1)
    <3>1. /\ Cardinality(ReservedFor(j, "incident.open")) = (IF incident[j] = None THEN 0
                                                                                  ELSE 1)
          /\ Cardinality(ReservedFor(j, "incident.transition"))
               = (IF incident[j] = None THEN 0 ELSE incident[j].version - 1)
      BY DEF AftercareInv, KeysAreIdempotent, EveryEffectHasItsKey
    <3>2. Cardinality(ReservedFor(j, "incident.open")')
            = Cardinality(ReservedFor(j, "incident.open"))
      BY <1>8, <1>14, <2>1, CountsOfReservations DEF AftercareInv
    <3>3. CASE j = i
      <4>1. Cardinality(ReservedFor(j, "incident.transition")')
              = Cardinality(ReservedFor(j, "incident.transition")) + 1
        BY <1>8, <1>14, <2>1, <3>3, CountsOfReservations DEF AftercareInv
      <4> QED BY <1>4, <1>5, <1>9, <1>11, <3>1, <3>2, <3>3, <4>1
    <3>4. CASE j # i
      <4>1. Cardinality(ReservedFor(j, "incident.transition")')
              = Cardinality(ReservedFor(j, "incident.transition"))
        BY <1>8, <1>14, <2>1, <3>4, CountsOfReservations DEF AftercareInv
      <4> QED BY <1>11, <3>1, <3>2, <3>4, <4>1
    <3> QED BY <3>3, <3>4
  <2> QED BY <1>14, <2>2, <2>3 DEF EveryEffectHasItsKey
<1> QED BY <1>14, <1>15, <1>16, <1>17, <1>18, <1>19, PartsMakeTheInvariant

-----------------------------------------------------------------------------
(* Theorems.                                                                *)

LEMMA AftercareInvInitially == Init => AftercareInv
<1> SUFFICES ASSUME Init PROVE AftercareInv
  OBVIOUS
<1>1. TypeOK /\ OneOfEach /\ CallsAreInOrder /\ ReservedIsDone
  BY IdleIsACall
     DEF Init, TypeOK, OneOfEach, CallsAreInOrder, CallIsInOrder, ReservedIsDone
<1>2. IncidentFollowsItsPath /\ RowsAreFinite /\ AnswersShowTheEffect
  BY FS_EmptySet
     DEF Init, IncidentFollowsItsPath, HistoryOf, RowsAreFinite, AnswersShowTheEffect
<1>3. KeysAreIdempotent
  <2>1. \A x, scope : ReservedFor(x, scope) = {}
    BY DEF Init, ReservedFor
  <2>2. \A o \in Orders : {r \in ratings : r.order = o} = {}
    BY DEF Init
  <2> QED BY <2>1, <2>2, FS_EmptySet
          DEF Init, KeysAreIdempotent, EveryEffectHasItsKey, RepetitionsAgree
<1> QED BY <1>1, <1>2, <1>3 DEF AftercareInv

LEMMA AftercareInvIsInductive == AftercareInv /\ [Next]_vars => AftercareInv'
<1> SUFFICES ASSUME AftercareInv, [Next]_vars PROVE AftercareInv'
  OBVIOUS
<1>1. CASE UNCHANGED vars
  <2>1. UNCHANGED <<owner, tables>> /\ closed \subseteq closed' /\ UNCHANGED <<told, call>>
    BY <1>1 DEF vars, tables
  <2>2. TypeOK' /\ CallsAreInOrder'
    BY <1>1 DEF AftercareInv, TypeOK, CallsAreInOrder, CallIsInOrder, vars, tables
  <2>3. \A a \in told' : AnswerIsTrue(a)'
    BY <2>1, TablesStay
  <2> QED BY <2>1, <2>2, <2>3, TablesStay, PartsMakeTheInvariant
<1>2. CASE Next
  BY <1>2, ClosingKeeps, ReceivingKeeps, LookingUpKeeps, RatingKeeps, ReadingKeeps,
     MovingKeeps, OpeningKeeps, GivingUpKeeps DEF Next
<1> QED BY <1>1, <1>2

(* feat-010 AC-010-003 and AC-010-005, for any number of clients, orders    *)
(* and calls in flight: an order has at most one rating and at most one     *)
(* active incident, of its own client and only once it is closed.           *)
THEOREM OneRatingAndOneIncident == Spec => []OneOfEach
<1>1. AftercareInv => OneOfEach
  BY DEF AftercareInv
<1> QED BY <1>1, AftercareInvInitially, AftercareInvIsInductive, PTL DEF Spec

(* feat-010 AC-010-006: the history of an incident is its path, one row per *)
(* version, though its row is read before the update that is conditioned on *)
(* the version.                                                             *)
THEOREM IncidentsFollowTheirPath == Spec => []IncidentFollowsItsPath
<1>1. AftercareInv => IncidentFollowsItsPath
  BY DEF AftercareInv
<1> QED BY <1>1, AftercareInvInitially, AftercareInvIsInductive, PTL DEF Spec

(* feat-010 idempotency: each key takes effect once or not at all, and its  *)
(* repetitions are answered with its own result.                            *)
THEOREM KeysTakeEffectOnce == Spec => []KeysAreIdempotent
<1>1. AftercareInv => KeysAreIdempotent
  BY DEF AftercareInv
<1> QED BY <1>1, AftercareInvInitially, AftercareInvIsInductive, PTL DEF Spec

(* A success shows the effect of its command, or of a later one on the same *)
(* incident, never an incident that has not got so far.                     *)
THEOREM SuccessesShowTheEffect == Spec => []AnswersShowTheEffect
<1>1. AftercareInv => AnswersShowTheEffect
  BY DEF AftercareInv
<1> QED BY <1>1, AftercareInvInitially, AftercareInvIsInductive, PTL DEF Spec

(* Every variable of Aftercare keeps its type.                              *)
THEOREM AftercareTypeCorrect == Spec => []TypeOK
<1>1. AftercareInv => TypeOK
  BY DEF AftercareInv
<1> QED BY <1>1, AftercareInvInitially, AftercareInvIsInductive, PTL DEF Spec

=============================================================================
