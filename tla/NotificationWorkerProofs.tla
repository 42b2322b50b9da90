----------------------- MODULE NotificationWorkerProofs -----------------------
(* Theorems about NotificationWorker, for every value of its constants.    *)
EXTENDS NotificationWorker, TLAPS

(* A poll is about to write only what its event is for: the inbox of a      *)
(* deliverable event, the end of another one.                               *)
PollsKnowTheirEvent ==
    \A w \in Workers :
      /\ worker[w].pc = "materialize" => worker[w].event \in deliverable
      /\ worker[w].pc = "fail" => worker[w].event \notin deliverable

WorkerInv == TypeOK /\ PollsKnowTheirEvent /\ NotifiedExactlyOnce

(* A worker that is not idle works on an event, under a lease.              *)
LEMMA BusyPolls ==
    ASSUME TypeOK, NEW w \in Workers, worker[w].pc # "idle"
    PROVE  worker[w].event \in Events /\ worker[w].lease \in Nat \ {0}
BY DEF TypeOK, Polls, Idle

(* What a write that is fenced by the lease does to the events.             *)
LEMMA FencedWrite ==
    ASSUME TypeOK, NEW w \in Workers, worker[w].pc # "idle", NEW state \in EventStates,
           event' = IF HoldsLease(w) THEN [event EXCEPT ![worker[w].event].state = state]
                                     ELSE event
    PROVE  /\ event' \in [Events -> EventRows]
           /\ \A e \in Events :
                \/ event'[e] = event[e]
                \/ /\ e = worker[w].event /\ event[e].state = "PROCESSING"
                   /\ event'[e].state = state
                   /\ event'[e].attempts = event[e].attempts
                   /\ event'[e].attempts = worker[w].lease
<1>1. worker[w].event \in Events
  BY BusyPolls
<1>2. event \in [Events -> EventRows]
  BY DEF TypeOK
<1>3. CASE HoldsLease(w)
  <2>1. event' = [event EXCEPT ![worker[w].event] = [event[worker[w].event] EXCEPT !.state = state]]
    BY <1>3
  <2>2. event[worker[w].event] \in EventRows
    BY <1>1, <1>2
  <2>3. [event[worker[w].event] EXCEPT !.state = state] \in EventRows
    BY <2>2 DEF EventRows
  <2> QED BY <1>1, <1>2, <1>3, <2>1, <2>2, <2>3 DEF HoldsLease, EventRows
<1>4. CASE ~HoldsLease(w)
  BY <1>2, <1>4
<1> QED BY <1>3, <1>4

LEMMA InvIsInductive == WorkerInv /\ [Next]_vars => WorkerInv'
<1> SUFFICES ASSUME WorkerInv, [Next]_vars PROVE WorkerInv'
  OBVIOUS
<1> USE DEF WorkerInv
<1>1. ASSUME NEW w \in Workers, NEW e \in Events, Claim(w, e) PROVE WorkerInv'
  <2> DEFINE row == [state |-> "PROCESSING", attempts |-> event[e].attempts + 1, expired |-> FALSE]
             poll == [pc |-> "resolve", event |-> e, lease |-> event[e].attempts + 1]
  <2>1. event[e] \in EventRows /\ event[e].attempts + 1 \in Nat \ {0}
    BY DEF TypeOK, EventRows
  <2>2. row \in EventRows /\ poll \in Polls
    BY <2>1 DEF EventRows, EventStates, Polls
  <2>3. /\ event' = [event EXCEPT ![e] = row] /\ worker' = [worker EXCEPT ![w] = poll]
        /\ UNCHANGED <<deliverable, inbox, trouble>>
    BY <1>1 DEF Claim, WorkerTo, Counted
  <2>4. TypeOK'
    BY <2>2, <2>3 DEF TypeOK
  <2>5. PollsKnowTheirEvent'
    BY <2>3 DEF PollsKnowTheirEvent, TypeOK
  <2>6. NotifiedExactlyOnce'
    BY <2>3 DEF NotifiedExactlyOnce, TypeOK
  <2> QED BY <2>4, <2>5, <2>6
<1>2. ASSUME NEW w \in Workers, Resolve(w) PROVE WorkerInv'
  <2>1. worker[w].event \in Events /\ worker[w].lease \in Nat \ {0}
    BY <1>2, BusyPolls DEF Resolve
  <2>2. PICK pc \in {"materialize", "fail"} :
          /\ worker' = [worker EXCEPT ![w] = [worker[w] EXCEPT !.pc = pc]]
          /\ pc = "materialize" <=> worker[w].event \in deliverable
    BY <1>2 DEF Resolve, PcTo, WorkerTo
  <2>3. worker[w] \in Polls
    BY DEF TypeOK
  <2>4. [worker[w] EXCEPT !.pc = pc] \in Polls
    BY <2>1, <2>3 DEF Polls, Idle
  <2>5. TypeOK' /\ NotifiedExactlyOnce'
    BY <1>2, <2>2, <2>4 DEF Resolve, TypeOK, NotifiedExactlyOnce
  <2>6. PollsKnowTheirEvent'
    BY <1>2, <2>2, <2>3 DEF Resolve, PollsKnowTheirEvent, TypeOK, Polls, Idle
  <2> QED BY <2>5, <2>6
<1>3. ASSUME NEW w \in Workers, Materialize(w) PROVE WorkerInv'
  <2> DEFINE e == worker[w].event
  <2>1. e \in Events /\ e \in deliverable
    BY <1>3, BusyPolls DEF Materialize, PollsKnowTheirEvent
  <2>2. /\ event' \in [Events -> EventRows]
        /\ \A x \in Events :
             \/ event'[x] = event[x]
             \/ x = e /\ event'[x].state = "PROCESSED"
    BY <1>3, FencedWrite DEF Materialize, EventStates
  <2>3. /\ inbox' = [inbox EXCEPT ![e] = IF inbox[e] = 0 THEN 1 ELSE inbox[e]]
        /\ inbox \in [Events -> Nat]
    BY <1>3 DEF Materialize, Inserted, TypeOK
  <2>4. /\ inbox' \in [Events -> Nat]
        /\ inbox'[e] = 1
        /\ \A x \in Events \ {e} : inbox'[x] = inbox[x]
    BY <2>1, <2>3 DEF NotifiedExactlyOnce
  <2>5. worker' = [worker EXCEPT ![w] = Idle] /\ UNCHANGED <<deliverable, trouble>>
    BY <1>3 DEF Materialize, WorkerTo
  <2>6. TypeOK'
    BY <2>2, <2>4, <2>5 DEF TypeOK, Polls
  <2>7. PollsKnowTheirEvent'
    BY <2>5 DEF PollsKnowTheirEvent, TypeOK, Idle
  <2>8. NotifiedExactlyOnce'
    BY <2>1, <2>2, <2>4, <2>5 DEF NotifiedExactlyOnce
  <2> QED BY <2>6, <2>7, <2>8
<1>4. ASSUME NEW w \in Workers, Retry(w) PROVE WorkerInv'
  <2>1. /\ event' \in [Events -> EventRows]
        /\ \A x \in Events : event'[x] = event[x] \/ event'[x].state = "PENDING"
    BY <1>4, FencedWrite DEF Retry, EventStates
  <2>2. worker' = [worker EXCEPT ![w] = Idle] /\ UNCHANGED <<deliverable, inbox, trouble>>
    BY <1>4 DEF Retry, WorkerTo
  <2>3. TypeOK' /\ PollsKnowTheirEvent'
    BY <2>1, <2>2 DEF TypeOK, Polls, PollsKnowTheirEvent, Idle
  <2>4. NotifiedExactlyOnce'
    BY <2>1, <2>2 DEF NotifiedExactlyOnce
  <2> QED BY <2>3, <2>4
<1>5. ASSUME NEW w \in Workers, Fail(w) PROVE WorkerInv'
  <2>1. /\ event' \in [Events -> EventRows]
        /\ \A x \in Events :
             \/ event'[x] = event[x]
             \/ /\ x = worker[w].event
                /\ event'[x].state = "FAILED"
                /\ event'[x].attempts = worker[w].lease
    BY <1>5, FencedWrite DEF Fail, EventStates
  <2>2. worker' = [worker EXCEPT ![w] = Idle] /\ UNCHANGED <<deliverable, inbox, trouble>>
    BY <1>5 DEF Fail, WorkerTo
  <2>3. worker[w].event \notin deliverable \/ worker[w].lease >= RetryLimit
    BY <1>5 DEF Fail, Exhausted, PollsKnowTheirEvent
  <2>4. TypeOK' /\ PollsKnowTheirEvent'
    BY <2>1, <2>2 DEF TypeOK, Polls, PollsKnowTheirEvent, Idle
  <2>5. NotifiedExactlyOnce'
    BY <2>1, <2>2, <2>3 DEF NotifiedExactlyOnce
  <2> QED BY <2>4, <2>5
<1>6. ASSUME NEW w \in Workers, StatementFails(w) PROVE WorkerInv'
  <2>1. worker[w] \in Polls /\ worker[w].event \in Events /\ worker[w].lease \in Nat \ {0}
    BY <1>6, BusyPolls DEF StatementFails, TypeOK
  <2>2. [worker[w] EXCEPT !.pc = "retry"] \in Polls
    BY <2>1 DEF Polls, Idle
  <2>3. /\ worker' = [worker EXCEPT ![w] = [worker[w] EXCEPT !.pc = "retry"]]
        /\ trouble' \in 0..MaxTrouble
        /\ UNCHANGED <<deliverable, event, inbox>>
    BY <1>6, MaxTroubleAssumption DEF StatementFails, PcTo, WorkerTo, Trouble, TypeOK
  <2>4. TypeOK' /\ NotifiedExactlyOnce'
    BY <2>2, <2>3 DEF TypeOK, NotifiedExactlyOnce
  <2>5. PollsKnowTheirEvent'
    BY <2>1, <2>3 DEF PollsKnowTheirEvent, TypeOK, Polls, Idle
  <2> QED BY <2>4, <2>5
<1>7. ASSUME NEW w \in Workers, WorkerStops(w) PROVE WorkerInv'
  <2>1. /\ worker' = [worker EXCEPT ![w] = Idle]
        /\ trouble' \in 0..MaxTrouble
        /\ UNCHANGED <<deliverable, event, inbox>>
    BY <1>7, MaxTroubleAssumption DEF WorkerStops, WorkerTo, Trouble, TypeOK
  <2> QED BY <2>1 DEF TypeOK, Polls, PollsKnowTheirEvent, Idle, NotifiedExactlyOnce
<1>8. ASSUME NEW e \in Events, LeaseRunsOut(e), UNCHANGED <<deliverable, inbox, worker>>,
             trouble' \in 0..MaxTrouble
      PROVE  WorkerInv'
  <2>1. event[e] \in EventRows /\ event' = [event EXCEPT ![e] = [event[e] EXCEPT !.expired = TRUE]]
    BY <1>8 DEF LeaseRunsOut, TypeOK
  <2>2. [event[e] EXCEPT !.expired = TRUE] \in EventRows
    BY <2>1 DEF EventRows
  <2>3. \A x \in Events : event'[x].state = event[x].state
                           /\ event'[x].attempts = event[x].attempts
    BY <2>1 DEF TypeOK, EventRows
  <2>4. TypeOK'
    BY <1>8, <2>1, <2>2 DEF TypeOK
  <2>5. PollsKnowTheirEvent' /\ NotifiedExactlyOnce'
    BY <1>8, <2>3 DEF PollsKnowTheirEvent, NotifiedExactlyOnce
  <2> QED BY <2>4, <2>5
<1>9. ASSUME NEW e \in Events, AbandonedLeaseRunsOut(e) \/ WorkerStalls(e) PROVE WorkerInv'
  <2>1. LeaseRunsOut(e) /\ UNCHANGED <<deliverable, inbox, worker>>
    BY <1>9 DEF AbandonedLeaseRunsOut, WorkerStalls, LeaseRunsOut
  <2>2. trouble' \in 0..MaxTrouble
    BY <1>9, MaxTroubleAssumption DEF AbandonedLeaseRunsOut, WorkerStalls, Trouble, TypeOK
  <2> QED BY <1>8, <2>1, <2>2
<1>10. CASE UNCHANGED vars
  BY <1>10 DEF vars, TypeOK, PollsKnowTheirEvent, NotifiedExactlyOnce
<1> QED BY <1>1, <1>2, <1>3, <1>4, <1>5, <1>6, <1>7, <1>9, <1>10 DEF Next, WorkerStep

LEMMA InvInitially == Init => WorkerInv
BY MaxTroubleAssumption
   DEF Init, WorkerInv, TypeOK, EventRows, EventStates, Polls, Idle, PollsKnowTheirEvent,
       NotifiedExactlyOnce

(* The types of events, inbox and polls.                                    *)
THEOREM TypeCorrect == Spec => []TypeOK
<1>1. WorkerInv => TypeOK
  BY DEF WorkerInv
<1> QED BY <1>1, InvInitially, InvIsInductive, PTL DEF Spec

(* However many workers stop, stall past their lease and take over from one *)
(* another, an event reaches the inbox once if it is processed, never when  *)
(* it should not, and is given up only when the retries are exhausted.      *)
THEOREM ExactlyOnce == Spec => []NotifiedExactlyOnce
<1>1. WorkerInv => NotifiedExactlyOnce
  BY DEF WorkerInv
<1> QED BY <1>1, InvInitially, InvIsInductive, PTL DEF Spec

(* The lease fences every late write: an event that is settled never        *)
(* changes again.                                                           *)
THEOREM SettledEventsStay == Spec => SettledStays
<1> DEFINE Settled(e) == event[e].state \in {"PROCESSED", "FAILED"}
           Stays == \A e \in Events : Settled(e) => event'[e] = event[e]
<1>1. TypeOK /\ [Next]_vars => [Stays]_vars
  <2> SUFFICES ASSUME TypeOK, Next, NEW e \in Events, Settled(e)
               PROVE  event'[e] = event[e]
    OBVIOUS
  <2>1. ASSUME NEW w \in Workers, NEW x \in Events, Claim(w, x) PROVE event'[e] = event[e]
    BY <2>1 DEF Claim, Claimable, TypeOK
  <2>2. ASSUME NEW w \in Workers, Materialize(w) \/ Retry(w) \/ Fail(w)
        PROVE  event'[e] = event[e]
    <3>1. PICK state \in EventStates :
            event' = IF HoldsLease(w) THEN [event EXCEPT ![worker[w].event].state = state]
                                      ELSE event
      BY <2>2 DEF Materialize, Retry, Fail, EventStates
    <3>2. worker[w].pc # "idle"
      BY <2>2 DEF Materialize, Retry, Fail
    <3> QED BY <3>1, <3>2, FencedWrite
  <2>3. ASSUME NEW w \in Workers, Resolve(w) \/ StatementFails(w) \/ WorkerStops(w)
        PROVE  event'[e] = event[e]
    BY <2>3 DEF Resolve, StatementFails, WorkerStops
  <2>4. ASSUME NEW x \in Events, AbandonedLeaseRunsOut(x) \/ WorkerStalls(x)
        PROVE  event'[e] = event[e]
    BY <2>4 DEF AbandonedLeaseRunsOut, WorkerStalls, LeaseRunsOut, TypeOK
  <2> QED BY <2>1, <2>2, <2>3, <2>4 DEF Next, WorkerStep
<1> QED BY <1>1, TypeCorrect, PTL DEF Spec, SettledStays

=============================================================================
