------------------------- MODULE NotificationWorker -------------------------
(***************************************************************************)
(* apps/worker/src/index.ts: workers turn outbox events into notifications *)
(* in the client's inbox.  A worker claims one event under a lease, finds  *)
(* the recipient, and then inserts the notification and completes the      *)
(* event in one transaction.  Workers stop, stall past their lease and see *)
(* statements fail; what they write about an event afterwards is fenced by *)
(* the lease they hold.                                                    *)
(*                                                                         *)
(* A claim increments attempts and sets a new lease in the same statement, *)
(* so the value of attempts at the claim identifies the lease.             *)
(***************************************************************************)
EXTENDS Naturals, FiniteSets

CONSTANTS Events,        \* outbox events of the allowlisted types
          Workers,       \* concurrent polls
          RetryLimit,    \* attempts after which a failure is final (5)
          MaxTrouble,    \* bound on stops, stalls and failed statements
          None

ASSUME NoneAssumption == None \notin Events
ASSUME RetryLimitAssumption == RetryLimit \in Nat \ {0}
ASSUME MaxTroubleAssumption == MaxTrouble \in Nat

VARIABLES deliverable,   \* events with a known version and a CLIENT recipient
          event,         \* event[e]: outbox_event row
          inbox,         \* inbox[e]: notifications of e's recipient about e
          worker,        \* worker[w]: the claim a poll works on
          trouble        \* stops, stalls and failed statements so far

vars == <<deliverable, event, inbox, worker, trouble>>

EventStates == {"PENDING", "PROCESSING", "PROCESSED", "FAILED"}
EventRows == [state : EventStates, attempts : Nat, expired : BOOLEAN]

Idle == [pc |-> "idle", event |-> None, lease |-> 0]
Polls == [pc : {"resolve", "materialize", "retry", "fail"}, event : Events,
          lease : Nat \ {0}] \cup {Idle}

(* state = 'PROCESSING' AND "leaseExpiresAt" = $2                           *)
HoldsLease_Unfenced(w) == TRUE   \* mutant
HoldsLease(w) ==
    /\ event[worker[w].event].state = "PROCESSING"
    /\ event[worker[w].event].attempts = worker[w].lease

Trouble == trouble < MaxTrouble /\ trouble' = trouble + 1

WorkerTo(w, next) == worker' = [worker EXCEPT ![w] = next]
PcTo(w, pc) == WorkerTo(w, [worker[w] EXCEPT !.pc = pc])

Init ==
    /\ deliverable \in SUBSET Events
    /\ event = [e \in Events |->
                  [state |-> "PENDING", attempts |-> 0, expired |-> FALSE]]
    /\ inbox = [e \in Events |-> 0]
    /\ worker = [w \in Workers |-> Idle]
    /\ trouble = 0

(* The claim's WHERE: a new or retried event, or one whose lease ran out.   *)
Claimable_PendingOnly(row) == row.state = "PENDING"   \* mutant
Claimable(row) ==
    row.state = "PENDING" \/ (row.state = "PROCESSING" /\ row.expired)

(* attempts = attempts + 1                                                  *)
Counted(attempts) == attempts + 1

(* FOR UPDATE SKIP LOCKED: two claims never pick the same row at once.  A   *)
(* retried event waits for availableAt, that is, for some time.             *)
Claim(w, e) ==
    LET row == event[e]
    IN  /\ worker[w] = Idle
        /\ Claimable(row)
        /\ event' = [event EXCEPT ![e] =
               [state |-> "PROCESSING", attempts |-> Counted(row.attempts),
                expired |-> FALSE]]
        /\ WorkerTo(w, [pc |-> "resolve", event |-> e,
                        lease |-> Counted(row.attempts)])
        /\ UNCHANGED <<deliverable, inbox, trouble>>

(* Version and template, then the recipient.                                *)
Resolve(w) ==
    /\ worker[w].pc = "resolve"
    /\ PcTo(w, IF worker[w].event \in deliverable THEN "materialize" ELSE "fail")
    /\ UNCHANGED <<deliverable, event, inbox, trouble>>

(* ON CONFLICT ("sourceEventId", "recipientProfileId") DO NOTHING           *)
Inserted_EachTime(n) == n + 1   \* mutant
Inserted(n) == IF n = 0 THEN 1 ELSE n

(* The transaction: insert unless the inbox has it (ON CONFLICT DO NOTHING) *)
(* and complete the event if the lease is still ours.  The insert stays     *)
(* even when it is not.                                                     *)
Materialize(w) ==
    LET e == worker[w].event
    IN  /\ worker[w].pc = "materialize"
        /\ inbox' = [inbox EXCEPT ![e] = Inserted(@)]
        /\ event' = IF HoldsLease(w) THEN [event EXCEPT ![e].state = "PROCESSED"]
                                     ELSE event
        /\ WorkerTo(w, Idle)
        /\ UNCHANGED <<deliverable, trouble>>

(* retry and fail, both fenced.                                             *)
Exhausted(w) == worker[w].lease >= RetryLimit

Retry(w) ==
    LET e == worker[w].event
    IN  /\ worker[w].pc = "retry"
        /\ ~Exhausted(w)
        /\ event' = IF HoldsLease(w) THEN [event EXCEPT ![e].state = "PENDING"]
                                     ELSE event
        /\ WorkerTo(w, Idle)
        /\ UNCHANGED <<deliverable, inbox, trouble>>

Fail(w) ==
    LET e == worker[w].event
    IN  /\ \/ worker[w].pc = "fail"
           \/ worker[w].pc = "retry" /\ Exhausted(w)
        /\ event' = IF HoldsLease(w) THEN [event EXCEPT ![e].state = "FAILED"]
                                     ELSE event
        /\ WorkerTo(w, Idle)
        /\ UNCHANGED <<deliverable, inbox, trouble>>

(* A statement throws: rollback, then retry.                                *)
StatementFails(w) ==
    /\ worker[w].pc \in {"resolve", "materialize", "fail"}
    /\ Trouble
    /\ PcTo(w, "retry")
    /\ UNCHANGED <<deliverable, event, inbox>>

(* The process stops anywhere; its claim stays until the lease runs out.    *)
WorkerStops(w) ==
    /\ worker[w] # Idle
    /\ Trouble
    /\ WorkerTo(w, Idle)
    /\ UNCHANGED <<deliverable, event, inbox>>

Held(e) == \E w \in Workers :
              worker[w].event = e /\ worker[w].lease = event[e].attempts

(* Thirty seconds pass: after a stop, or while the holder stalls.           *)
LeaseRunsOut(e) ==
    /\ event[e].state = "PROCESSING" /\ ~event[e].expired
    /\ event' = [event EXCEPT ![e].expired = TRUE]
    /\ UNCHANGED <<deliverable, inbox, worker>>

AbandonedLeaseRunsOut(e) == ~Held(e) /\ LeaseRunsOut(e) /\ UNCHANGED trouble
WorkerStalls(e) == Held(e) /\ LeaseRunsOut(e) /\ Trouble

WorkerStep(w) == \/ \E e \in Events : Claim(w, e)
                 \/ Resolve(w) \/ Materialize(w) \/ Retry(w) \/ Fail(w)

Next == \/ \E w \in Workers : WorkerStep(w) \/ StatementFails(w) \/ WorkerStops(w)
        \/ \E e \in Events : AbandonedLeaseRunsOut(e) \/ WorkerStalls(e)

Spec == Init /\ [][Next]_vars

(* Polls run on an interval and time passes.                                *)
FairSpec == /\ Spec
            /\ \A w \in Workers : WF_vars(WorkerStep(w))
            /\ \A e \in Events : WF_vars(AbandonedLeaseRunsOut(e))

-----------------------------------------------------------------------------
(* Properties.                                                              *)

TypeOK ==
    /\ deliverable \subseteq Events
    /\ event \in [Events -> EventRows]
    /\ inbox \in [Events -> Nat]
    /\ worker \in [Workers -> Polls]
    /\ trouble \in 0..MaxTrouble

(* Restarts, stalls and two workers on one event leave the client with at   *)
(* most one notification of it, none that should not exist, and exactly one *)
(* once the event is processed.  An event that could be delivered is given  *)
(* up only after RetryLimit claims.                                         *)
NotifiedExactlyOnce ==
    \A e \in Events :
      /\ inbox[e] <= 1
      /\ inbox[e] = 1 => e \in deliverable
      /\ event[e].state = "PROCESSED" => inbox[e] = 1
      /\ event[e].state = "FAILED" =>
           e \notin deliverable \/ event[e].attempts >= RetryLimit

(* A worker that lost its lease does not reopen what another one settled.   *)
SettledStays ==
    [][\A e \in Events : event[e].state \in {"PROCESSED", "FAILED"} =>
           event'[e] = event[e]]_vars

(* Whatever goes wrong, no event stays claimed for ever: with               *)
(* NotifiedExactlyOnce, every deliverable event is in the inbox in the end  *)
(* unless it failed as often as the retries allow.                          *)
EveryEventIsSettled ==
    \A e \in Events : <>(event[e].state \in {"PROCESSED", "FAILED"})

=============================================================================
