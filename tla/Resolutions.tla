----------------------------- MODULE Resolutions -----------------------------
(***************************************************************************)
(* apps/api/src/billing/billing.service.ts, resolve: an operator records   *)
(* how a finished job ended and the fixed charge is created, once, however *)
(* often and by however many operators the command is sent.                *)
(*                                                                         *)
(* The transaction runs at READ COMMITTED: it looks the command up, then   *)
(* reads the order, then writes; another command can commit in between.    *)
(***************************************************************************)
EXTENDS OrderContract, Naturals, FiniteSets

CONSTANTS Handlers,    \* concurrent calls
          Operators,   \* ADMIN and DISPATCHER profiles
          Keys,        \* idempotency keys an operator may send
          Orders,      \* work orders
          Payloads,    \* outcome, summary and expected version, as one value
          Outdated,    \* payloads whose expected version is not the finished one
          None

ASSUME PayloadsAssumption == Outdated \subseteq Payloads

VARIABLES inArs,         \* orders whose frozen rate is in ARS
          order,         \* order[o]: state and version
          transitions,   \* work_order_transition rows of these orders
          command,       \* resolution_command, by operator and key
          resolution,    \* resolution[o]: the recorded payload, or None
          charged,       \* orders with a charge
          audit,         \* billing.resolved rows
          call,          \* call[h]: what a handler read and will do next
          answers        \* what operators were told

database == <<inArs, order, transitions, command, resolution, charged, audit>>
vars == <<inArs, order, transitions, command, resolution, charged, audit, call,
          answers>>

FinishedVersion == 3   \* assigned, started, finished

States == {"EN_ATENCION", "TRABAJO_FINALIZADO", "PENDIENTE_PAGO"}
OrderRows == [state : States, version : Nat]
TransitionRows == [order : Orders, version : Nat, action : TransitionActions]
Commands == [order : Orders, payload : Payloads]
ASSUME NoRowAssumption == None \notin Payloads \cup Commands

Inputs == [actor : Operators, key : Keys, order : Orders, payload : Payloads]
Answers == [input : Inputs, result : {"resolved", "refused"}]
Idle == [pc |-> "idle"]
Calls == {Idle} \cup [pc : {"readOrder", "commit", "retry", "audit"}, input : Inputs]

Goto(h, next) == call' = [call EXCEPT ![h] = next]
Tell(input, result) ==
    answers' = answers \cup {[input |-> input, result |-> result]}
Refuse(h, input) == Goto(h, Idle) /\ Tell(input, "refused")

Recorded(input) == command[<<input.actor, input.key>>]
Equal_KeyOnly(input) == Recorded(input) # None   \* mutant
Equal(input) ==
    Recorded(input) = [order |-> input.order, payload |-> input.payload]

VersionTaken(o, v) == \E row \in transitions : row.order = o /\ row.version = v

Init ==
    /\ inArs \in SUBSET Orders
    /\ order = [o \in Orders |-> [state |-> "EN_ATENCION",
                                  version |-> FinishedVersion - 1]]
    /\ transitions = {}
    /\ command = [source \in Operators \X Keys |-> None]
    /\ resolution = [o \in Orders |-> None]
    /\ charged = {}
    /\ audit = {}
    /\ call = [h \in Handlers |-> Idle]
    /\ answers = {}

(* Another component: OrdersService.transition finishes the work.           *)
FinishWork(o) ==
    /\ order[o].state = "EN_ATENCION"
    /\ order' = [order EXCEPT ![o] = [state |-> "TRABAJO_FINALIZADO",
                                      version |-> @.version + 1]]
    /\ transitions' = transitions \cup {[order |-> o, version |-> FinishedVersion,
                                         action |-> "FINISH_WORK"]}
    /\ UNCHANGED <<inArs, command, resolution, charged, audit, call, answers>>

(* The lookup: a known command is answered from what it created, another    *)
(* one under its key is refused, a new one goes on.                         *)
ResolveLookup(h, input) ==
    /\ call[h] = Idle
    /\ \/ /\ Recorded(input) = None
          /\ Goto(h, [pc |-> "readOrder", input |-> input])
          /\ UNCHANGED answers
       \/ /\ Equal(input)
          /\ Goto(h, [pc |-> "audit", input |-> input])
          /\ UNCHANGED answers
       \/ /\ Recorded(input) # None /\ ~Equal(input)
          /\ Refuse(h, input)
    /\ UNCHANGED database

(* A new charge needs a rate in ARS.                                        *)
Chargeable(o) == o \notin charged /\ o \in inArs

(* The order must be finished, in the version the operator saw.             *)
ResolveRead(h) ==
    LET o == call[h].input.order
    IN  /\ call[h].pc = "readOrder"
        /\ IF /\ order[o].state = "TRABAJO_FINALIZADO"
              /\ call[h].input.payload \notin Outdated
              /\ Chargeable(o)
           THEN Goto(h, [call[h] EXCEPT !.pc = "commit"]) /\ UNCHANGED answers
           ELSE Refuse(h, call[h].input)
        /\ UNCHANGED database

(* Command, resolution, order, charge and transition, or P2002.             *)
Collides_OnTheKeyOnly(input) == Recorded(input) # None   \* mutant
Collides(input) ==
    \/ Recorded(input) # None
    \/ resolution[input.order] # None
    \/ input.order \in charged
    \/ VersionTaken(input.order, FinishedVersion + 1)

ResolveCommit(h) ==
    LET input == call[h].input
        o == input.order
    IN  /\ call[h].pc = "commit"
        /\ ~Collides(input)
        /\ command' = [command EXCEPT ![<<input.actor, input.key>>] =
                         [order |-> o, payload |-> input.payload]]
        /\ resolution' = [resolution EXCEPT ![o] = input.payload]
        /\ order' = [order EXCEPT ![o] = [state |-> "PENDIENTE_PAGO",
                                          version |-> FinishedVersion + 1]]
        /\ charged' = charged \cup {o}
        /\ transitions' = transitions \cup
             {[order |-> o, version |-> FinishedVersion + 1,
               action |-> "CREATE_FIXED_PAYMENT"]}
        /\ Goto(h, [call[h] EXCEPT !.pc = "audit"])
        /\ UNCHANGED <<inArs, audit, answers>>

ResolveConflict(h) ==
    /\ call[h].pc = "commit"
    /\ Collides(call[h].input)
    /\ Goto(h, [call[h] EXCEPT !.pc = "retry"])
    /\ UNCHANGED <<database, answers>>

(* After P2002 the command is looked up again.                              *)
ResolveRetry(h) ==
    /\ call[h].pc = "retry"
    /\ IF Equal(call[h].input)
       THEN Goto(h, [call[h] EXCEPT !.pc = "audit"]) /\ UNCHANGED answers
       ELSE Refuse(h, call[h].input)
    /\ UNCHANGED database

(* Every answer, replays included, writes an audit row first.               *)
Audit(h) ==
    /\ call[h].pc = "audit"
    /\ audit' = audit \cup {[actor |-> call[h].input.actor,
                             order |-> call[h].input.order]}
    /\ Goto(h, Idle)
    /\ Tell(call[h].input, "resolved")
    /\ UNCHANGED <<inArs, order, transitions, command, resolution, charged>>

CallDies(h) ==
    /\ call[h] # Idle
    /\ Goto(h, Idle)
    /\ UNCHANGED <<database, answers>>

Next ==
    \/ \E o \in Orders : FinishWork(o)
    \/ \E h \in Handlers :
         \/ \E input \in Inputs : ResolveLookup(h, input)
         \/ ResolveRead(h)
         \/ ResolveCommit(h)
         \/ ResolveConflict(h)
         \/ ResolveRetry(h)
         \/ Audit(h)
         \/ CallDies(h)

Spec == Init /\ [][Next]_vars

-----------------------------------------------------------------------------
(* Properties.                                                              *)

TypeOK ==
    /\ inArs \subseteq Orders
    /\ order \in [Orders -> OrderRows]
    /\ transitions \subseteq TransitionRows
    /\ command \in [Operators \X Keys -> Commands \cup {None}]
    /\ resolution \in [Orders -> Payloads \cup {None}]
    /\ charged \subseteq inArs
    /\ audit \subseteq [actor : Operators, order : Orders]
    /\ call \in [Handlers -> Calls]
    /\ answers \subseteq Answers

(* All or nothing: an order awaits payment exactly when it has its charge,  *)
(* its resolution, its transition row and the one command that made them.   *)
ChargedAtomically ==
    \A o \in Orders :
      /\ order[o].state = "PENDIENTE_PAGO" <=> o \in charged
      /\ o \in charged <=> resolution[o] # None
      /\ o \in charged <=> VersionTaken(o, FinishedVersion + 1)
      /\ \A source, other \in Operators \X Keys :
            /\ command[source] # None /\ command[source].order = o
            => /\ command[source].payload = resolution[o]
               /\ command[other] # None /\ command[other].order = o
                  => source = other

(* An operator is told "resolved" only of the resolution on record, with    *)
(* the payload that operator sent, whichever path answered.                 *)
ToldWhatIsRecorded ==
    \A x \in answers : x.result = "resolved" =>
        /\ Equal(x.input)
        /\ resolution[x.input.order] = x.input.payload
        /\ order[x.input.order].state = "PENDIENTE_PAGO"

=============================================================================
