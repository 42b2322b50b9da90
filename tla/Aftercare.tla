------------------------------ MODULE Aftercare ------------------------------
(***************************************************************************)
(* apps/api/src/aftercare: a client rates a closed order once and opens    *)
(* incidents about it, one at a time; operators triage and close them.     *)
(* Every command carries an idempotency key, reserved in the transaction   *)
(* of its effect.                                                          *)
(*                                                                         *)
(* A command looks its key up, then runs its transaction, one step at its  *)
(* commit; a transition reads the incident before.  A commit that meets a  *)
(* unique index or an outdated version leaves no trace and sends the call  *)
(* to look its key up again, some 20 times, before it is refused.  The     *)
(* audit row and the metric that end every call are left out.              *)
(***************************************************************************)
EXTENDS Naturals, FiniteSets

CONSTANTS Handlers,   \* concurrent calls
          Clients, Operators,
          Keys,       \* idempotency keys
          Orders, Incidents,
          Inputs,     \* bodies of a rating or of an incident to open
          None

ASSUME NoneAssumption == None \notin Incidents
ASSUME ActorsAssumption == Clients \cap Operators = {}

VARIABLES owner,         \* owner[o]: the client whose order it is
          closed,        \* orders in state CERRADA
          ratings,       \* rows of order_rating
          incident,      \* incident[i]: aftercare_incident row, or None
          history,       \* rows of aftercare_incident_transition
          reservations,  \* rows of aftercare_idempotency
          told,          \* successful answers, equal ones counted once
          call           \* call[h]: where a call stands

tables == <<ratings, incident, history, reservations>>
vars == <<owner, closed, ratings, incident, history, reservations, told, call>>

-----------------------------------------------------------------------------
(* Rows and records.                                                        *)

Actors == Clients \cup Operators
Statuses == {"ABIERTA", "EN_TRIAGE", "CERRADA"}
ActiveStatuses == {"ABIERTA", "EN_TRIAGE"}
Scopes == {"rating", "incident.open", "incident.transition"}

(* The fingerprint of a command is the command itself.  An incident that    *)
(* can still move has version 1 or 2.                                       *)
Commands ==
    [scope : {"rating", "incident.open"}, order : Orders, input : Inputs]
    \cup [scope : {"incident.transition"}, incident : Incidents,
          action : {"START_TRIAGE", "CLOSE"}, expected : 1..2]

RatingRows == [order : Orders, client : Clients, input : Inputs]
IncidentRows == [order : Orders, client : Clients, input : Inputs,
                 status : Statuses, version : Nat]
HistoryRows == [incident : Incidents, sequence : Nat, from : Statuses \cup {None},
                to : Statuses, action : {"OPEN", "START_TRIAGE", "CLOSE"}, by : Actors]

ASSUME NoRowAssumption == None \notin IncidentRows

(* A rating is identified by its order.                                     *)
Reservations == [actor : Actors, key : Keys, command : Commands,
                 result : Orders \cup Incidents]

(* What an answer shows of its result: the rating, or the incident as it is *)
(* when the answer is put together.                                         *)
Views == Inputs \cup [status : Statuses, version : Nat]
Answers == [actor : Actors, key : Keys, command : Commands,
            result : Orders \cup Incidents, view : Views]

Idle == [pc |-> "idle"]
Calls == {Idle}
    \cup [pc : {"lookup", "read", "commit", "replay"}, actor : Actors,
          key : Keys, command : Commands]
    \cup [pc : {"commit"}, actor : Actors, key : Keys, command : Commands,
          from : ActiveStatuses, sequence : Nat]

HistoryOf(i) == {row \in history : row.incident = i}

(* incidentView, what an answer shows of an incident.                       *)
Incidence(i) == [status |-> incident[i].status, version |-> incident[i].version]

-----------------------------------------------------------------------------
(* Unique indexes and conditions of the commits.                            *)

KeyTaken_NoIndex(c) == FALSE   \* mutant
KeyTaken(c) == \E r \in reservations :
    r.actor = c.actor /\ r.key = c.key /\ r.command.scope = c.command.scope

RatingTaken(o) == \E r \in ratings : r.order = o

ActiveIncidentOf_NoIndex(o) == FALSE   \* mutant
ActiveIncidentOf(o) == \E i \in Incidents :
    incident[i] # None /\ incident[i].order = o /\ incident[i].status \in ActiveStatuses

(* The update's id and version, and the index on incident and sequence.     *)
Outdated_Unchecked(c) == FALSE   \* mutant
Outdated(c) ==
    \/ incident[c.command.incident].version # c.command.expected
    \/ \E row \in history : row.incident = c.command.incident /\ row.sequence = c.sequence

SameCommand_KeyOnly(r, c) == TRUE   \* mutant
SameCommand(r, c) == r.command = c.command

NextStatus(status, action) ==
    CASE status = "ABIERTA" /\ action = "START_TRIAGE" -> "EN_TRIAGE"
      [] status = "EN_TRIAGE" /\ action = "CLOSE" -> "CERRADA"
      [] OTHER -> None

-----------------------------------------------------------------------------
Init ==
    /\ owner \in [Orders -> Clients]
    /\ closed = {}
    /\ ratings = {}
    /\ incident = [i \in Incidents |-> None]
    /\ history = {}
    /\ reservations = {}
    /\ told = {}
    /\ call = [h \in Handlers |-> Idle]

-----------------------------------------------------------------------------
CallTo(h, next) == call' = [call EXCEPT ![h] = next]
StepTo(h, pc) == CallTo(h, [call[h] EXCEPT !.pc = pc])
OnlyCallMoves == UNCHANGED <<owner, closed, tables, told>>

(* An answer leaves, and may be lost on its way; a refusal changes nothing. *)
Answer(h, result, view) ==
    /\ told' = told \cup {[actor |-> call[h].actor, key |-> call[h].key,
                           command |-> call[h].command, result |-> result,
                           view |-> view]}
    /\ CallTo(h, Idle)
Refuse(h) == CallTo(h, Idle) /\ UNCHANGED told

(* The order's conformity, in billing.                                      *)
OrderCloses(o) ==
    /\ o \notin closed
    /\ closed' = closed \cup {o}
    /\ UNCHANGED <<owner, tables, told, call>>

(* A command comes in: roles and ownership, and the order must be closed.   *)
Receive(h, actor, key, command) ==
    /\ call[h] = Idle
    /\ \/ command.scope = "incident.transition" /\ actor \in Operators
       \/ /\ command.scope # "incident.transition"
          /\ actor = owner[command.order] /\ command.order \in closed
    /\ CallTo(h, [pc |-> "lookup", actor |-> actor, key |-> key, command |-> command])
    /\ OnlyCallMoves

(* The row of a key, by look-up or by replay: the same command is answered  *)
(* with its result as it is now, another one is refused.                    *)
AnswerFrom(h, r) ==
    IF SameCommand(r, call[h])
    THEN Answer(h, r.result, IF r.command.scope = "rating" THEN r.command.input
                             ELSE Incidence(r.result))
    ELSE Refuse(h)

RowsOf(c) == {r \in reservations :
    r.actor = c.actor /\ r.key = c.key /\ r.command.scope = c.command.scope}

Lookup(h) ==
    /\ call[h].pc = "lookup"
    /\ \/ \E r \in RowsOf(call[h]) : AnswerFrom(h, r)
       \/ /\ RowsOf(call[h]) = {}
          /\ StepTo(h, IF call[h].command.scope = "incident.transition" THEN "read"
                                                                      ELSE "commit")
          /\ UNCHANGED told
    /\ UNCHANGED <<owner, closed, tables>>

(* Reserve the key for its result, and answer what the transaction wrote.   *)
Reserve(h, result, view) ==
    LET c == call[h]
    IN  /\ reservations' = reservations \cup
             {[actor |-> c.actor, key |-> c.key, command |-> c.command,
               result |-> result]}
        /\ Answer(h, result, view)

CreateRating(h) ==
    LET c == call[h].command
    IN  /\ call[h].pc = "commit" /\ c.scope = "rating"
        /\ ~KeyTaken(call[h]) /\ ~RatingTaken(c.order)
        /\ ratings' = ratings \cup
             {[order |-> c.order, client |-> call[h].actor, input |-> c.input]}
        /\ Reserve(h, c.order, c.input)
        /\ UNCHANGED <<owner, closed, incident, history>>

CreateIncident(h, i) ==
    LET c == call[h].command
    IN  /\ call[h].pc = "commit" /\ c.scope = "incident.open"
        /\ ~KeyTaken(call[h]) /\ ~ActiveIncidentOf(c.order)
        /\ incident[i] = None
        /\ incident' = [incident EXCEPT ![i] =
             [order |-> c.order, client |-> call[h].actor, input |-> c.input,
              status |-> "ABIERTA", version |-> 1]]
        /\ history' = history \cup
             {[incident |-> i, sequence |-> 1, from |-> None, to |-> "ABIERTA",
               action |-> "OPEN", by |-> call[h].actor]}
        /\ Reserve(h, i, [status |-> "ABIERTA", version |-> 1])
        /\ UNCHANGED <<owner, closed, ratings>>

(* transition reads the incident in its transaction ...                     *)
TransitionRead(h) ==
    LET c == call[h].command
        row == incident[c.incident]
    IN  /\ call[h].pc = "read"
        /\ IF /\ row # None
              /\ row.version = c.expected
              /\ NextStatus(row.status, c.action) # None
           THEN CallTo(h, [pc |-> "commit", actor |-> call[h].actor,
                           key |-> call[h].key, command |-> c, from |-> row.status,
                           sequence |-> Cardinality(HistoryOf(c.incident)) + 1])
           ELSE StepTo(h, "replay")
        /\ OnlyCallMoves

(* ... and writes it if it still has that version.                          *)
Transition(h) ==
    LET c == call[h].command
        to == NextStatus(call[h].from, c.action)
    IN  /\ call[h].pc = "commit" /\ c.scope = "incident.transition"
        /\ ~KeyTaken(call[h]) /\ ~Outdated(call[h])
        /\ incident' = [incident EXCEPT ![c.incident].status = to,
                                       ![c.incident].version = @ + 1]
        /\ history' = history \cup
             {[incident |-> c.incident, sequence |-> call[h].sequence,
               from |-> call[h].from, to |-> to, action |-> c.action,
               by |-> call[h].actor]}
        /\ Reserve(h, c.incident,
                   [status |-> to, version |-> incident[c.incident].version + 1])
        /\ UNCHANGED <<owner, closed, ratings>>

(* The transaction is refused and rolled back.                              *)
Collide(h) ==
    LET c == call[h].command
    IN  /\ call[h].pc = "commit"
        /\ \/ KeyTaken(call[h])
           \/ c.scope = "rating" /\ RatingTaken(c.order)
           \/ c.scope = "incident.open" /\ ActiveIncidentOf(c.order)
           \/ c.scope = "incident.transition" /\ Outdated(call[h])
        /\ CallTo(h, [pc |-> "replay", actor |-> call[h].actor, key |-> call[h].key,
                      command |-> c])
        /\ OnlyCallMoves

(* replay: the key's row may appear between two looks; after the last one   *)
(* the call is refused.                                                     *)
Replay(h) ==
    /\ call[h].pc = "replay"
    /\ \/ \E r \in RowsOf(call[h]) : AnswerFrom(h, r)
       \/ RowsOf(call[h]) = {} /\ Refuse(h)
    /\ UNCHANGED <<owner, closed, tables>>

(* The process stops or a statement fails.                                  *)
CallDies(h) ==
    /\ call[h] # Idle
    /\ CallTo(h, Idle)
    /\ OnlyCallMoves

Next ==
    \/ \E o \in Orders : OrderCloses(o)
    \/ \E h \in Handlers :
         \/ \E actor \in Actors, key \in Keys, command \in Commands :
              Receive(h, actor, key, command)
         \/ Lookup(h) \/ CreateRating(h) \/ TransitionRead(h) \/ Transition(h)
         \/ \E i \in Incidents : CreateIncident(h, i)
         \/ Collide(h) \/ Replay(h) \/ CallDies(h)

Spec == Init /\ [][Next]_vars

-----------------------------------------------------------------------------
(* Properties.                                                              *)

TypeOK ==
    /\ owner \in [Orders -> Clients]
    /\ closed \subseteq Orders
    /\ ratings \subseteq RatingRows
    /\ incident \in [Incidents -> IncidentRows \cup {None}]
    /\ history \subseteq HistoryRows
    /\ reservations \subseteq Reservations
    /\ told \subseteq Answers
    /\ call \in [Handlers -> Calls]

(* feat-010 AC-010-003 and AC-010-005: however many commands compete, under *)
(* equal or different keys, an order has at most one rating and at most one *)
(* active incident, both of its own client and only once it is closed.      *)
OneOfEach ==
    /\ \A r \in ratings :
         /\ r.order \in closed /\ r.client = owner[r.order]
         /\ \A s \in ratings : r.order = s.order => r = s
    /\ \A i \in Incidents : incident[i] # None =>
         incident[i].order \in closed /\ incident[i].client = owner[incident[i].order]
    /\ \A i, j \in Incidents :
         /\ incident[i] # None /\ incident[j] # None
         /\ incident[i].order = incident[j].order
         /\ incident[i].status \in ActiveStatuses /\ incident[j].status \in ActiveStatuses
         => i = j

(* feat-010 AC-010-006: an incident's history is OPEN, START_TRIAGE, CLOSE  *)
(* in this order, one row per version, and its row stands where the history *)
(* ends: operators who read the same version do not both move it, and a     *)
(* closed incident is not opened again.                                     *)
Path == <<[action |-> "OPEN", from |-> None, to |-> "ABIERTA"],
          [action |-> "START_TRIAGE", from |-> "ABIERTA", to |-> "EN_TRIAGE"],
          [action |-> "CLOSE", from |-> "EN_TRIAGE", to |-> "CERRADA"]>>

IncidentFollowsItsPath ==
    \A i \in Incidents :
      IF incident[i] = None THEN HistoryOf(i) = {}
      ELSE /\ incident[i].version \in 1..3
           /\ incident[i].status = Path[incident[i].version].to
           /\ Cardinality(HistoryOf(i)) = incident[i].version
           /\ \A row \in HistoryOf(i) :
                /\ row.sequence \in 1..incident[i].version
                /\ [action |-> row.action, from |-> row.from, to |-> row.to]
                     = Path[row.sequence]

ReservedFor(result, scope) == {r \in reservations :
                                 r.command.scope = scope /\ r.result = result}

EveryEffectHasItsKey ==
    /\ \A r, s \in reservations :
         r.actor = s.actor /\ r.key = s.key /\ r.command.scope = s.command.scope
         => r = s
    /\ \A o \in Orders :
         Cardinality(ReservedFor(o, "rating"))
           = Cardinality({r \in ratings : r.order = o})
    /\ \A i \in Incidents :
         /\ Cardinality(ReservedFor(i, "incident.open")) = (IF incident[i] = None THEN 0
                                                                               ELSE 1)
         /\ Cardinality(ReservedFor(i, "incident.transition"))
              = (IF incident[i] = None THEN 0 ELSE incident[i].version - 1)

RepetitionsAgree ==
    \A a \in told :
      /\ [actor |-> a.actor, key |-> a.key, command |-> a.command, result |-> a.result]
           \in reservations
      /\ \A b \in told :
           a.actor = b.actor /\ a.key = b.key /\ a.command.scope = b.command.scope
           => a.command = b.command /\ a.result = b.result

(* feat-010 idempotency: a key takes effect once or not at all, whatever    *)
(* dies, collides or is repeated: ratings, openings and moves are as many   *)
(* as the reservations of their kind, each reservation naming its own.      *)
(* Repetitions of a key are answered with the result of the command that    *)
(* reserved it, by every path, and no other command ever is.                *)
KeysAreIdempotent == EveryEffectHasItsKey /\ RepetitionsAgree

(* Whoever is told that a command succeeded sees it done: the rating that   *)
(* was sent, or an incident on its path and no less far than the command    *)
(* took it, though an answer from a reservation is put together from a row  *)
(* that other commands have moved since.                                    *)
AnswersShowTheEffect ==
    \A a \in told :
      IF a.command.scope = "rating" THEN a.view = a.command.input
      ELSE /\ a.view.version \in 1..incident[a.result].version
           /\ a.view.status = Path[a.view.version].to
           /\ a.command.scope = "incident.transition" =>
                a.result = a.command.incident /\ a.view.version > a.command.expected

=============================================================================
