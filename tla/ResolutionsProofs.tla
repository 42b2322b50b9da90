-------------------------- MODULE ResolutionsProofs --------------------------
(* Theorems about Resolutions, for every value of its constants.           *)
EXTENDS Resolutions, TLAPS

(* A command is recorded together with the charge it made.                  *)
CommandsCharge ==
    \A source \in Operators \X Keys :
        command[source] # None => command[source].order \in charged

(* A rate is frozen: what was read of it still holds when it is used.       *)
ChargesAreInArs ==
    \A h \in Handlers : call[h].pc = "commit" => call[h].input.order \in inArs

(* A call about to succeed found its command, or recorded it.               *)
SuccessesAreRecorded ==
    \A h \in Handlers : call[h].pc = "audit" => Equal(call[h].input)

ResolutionInv ==
    /\ TypeOK /\ ChargedAtomically /\ ToldWhatIsRecorded
    /\ CommandsCharge /\ ChargesAreInArs /\ SuccessesAreRecorded

(* A call under way carries the input of its operator.                      *)
LEMMA BusyCalls ==
    ASSUME TypeOK, NEW h \in Handlers, call[h].pc # "idle"
    PROVE  /\ call[h].input \in Inputs
           /\ \A pc \in {"commit", "retry", "audit"} : [call[h] EXCEPT !.pc = pc] \in Calls
BY DEF TypeOK, Calls, Idle

(* What is recorded of one command names its order and its payload.         *)
LEMMA RecordedInput ==
    ASSUME ResolutionInv, NEW input \in Inputs, Equal(input)
    PROVE  /\ input.order \in charged
           /\ resolution[input.order] = input.payload
           /\ order[input.order].state = "PENDIENTE_PAGO"
<1> DEFINE source == <<input.actor, input.key>>
<1>1. source \in Operators \X Keys /\ input.order \in Orders /\ input.payload \in Payloads
  BY DEF Inputs
<1>2. command[source] = [order |-> input.order, payload |-> input.payload]
  BY DEF Equal, Recorded
<1>3. command[source] # None
  BY <1>1, <1>2, NoRowAssumption DEF Commands
<1>4. command[source].order = input.order /\ command[source].payload = input.payload
  BY <1>2
<1>5. input.order \in charged
  BY <1>1, <1>3, <1>4 DEF ResolutionInv, CommandsCharge
<1> QED BY <1>1, <1>3, <1>4, <1>5 DEF ResolutionInv, ChargedAtomically

(* Steps that leave the tables alone.                                       *)
LEMMA TablesStay ==
    ASSUME ResolutionInv, UNCHANGED database
    PROVE  /\ ChargedAtomically' /\ CommandsCharge'
           /\ \A input \in Inputs : Equal(input) => Equal(input)'
           /\ \A x \in Answers : x \in answers /\ x.result = "resolved" =>
                /\ Equal(x.input)'
                /\ resolution'[x.input.order] = x.input.payload
                /\ order'[x.input.order].state = "PENDIENTE_PAGO"
BY DEF ResolutionInv, database, ChargedAtomically, CommandsCharge, Equal, Recorded,
       ToldWhatIsRecorded, VersionTaken

(* ... keep the invariant if the call and the answer do.                    *)
LEMMA CallStep ==
    ASSUME ResolutionInv, UNCHANGED database, NEW h \in Handlers, NEW next \in Calls,
           Goto(h, next),
           next.pc = "commit" => next.input.order \in inArs,
           next.pc = "audit" => Equal(next.input),
           \/ UNCHANGED answers
           \/ \E input \in Inputs, result \in {"resolved", "refused"} :
                 /\ Tell(input, result)
                 /\ result = "resolved" => Equal(input)
    PROVE  ResolutionInv'
<1>1. /\ call' = [call EXCEPT ![h] = next] /\ call \in [Handlers -> Calls]
      /\ call' \in [Handlers -> Calls]
  BY DEF Goto, ResolutionInv, TypeOK
<1>2. answers' \subseteq Answers
  BY DEF Tell, Answers, ResolutionInv, TypeOK
<1>3. TypeOK'
  BY <1>1, <1>2 DEF ResolutionInv, TypeOK, database
<1>4. ChargedAtomically' /\ CommandsCharge'
  BY TablesStay
<1>5. ChargesAreInArs'
  BY <1>1 DEF ResolutionInv, ChargesAreInArs, database
<1>6. SuccessesAreRecorded'
  <2> SUFFICES ASSUME NEW i \in Handlers, call'[i].pc = "audit" PROVE Equal(call[i].input)'
    BY DEF SuccessesAreRecorded, Equal, Recorded
  <2>1. Equal(call'[i].input)
    BY <1>1 DEF ResolutionInv, SuccessesAreRecorded
  <2> QED BY <2>1 DEF Equal, Recorded, database
<1>7. ToldWhatIsRecorded'
  <2> SUFFICES ASSUME NEW x \in answers', x.result = "resolved"
               PROVE  /\ Equal(x.input)'
                      /\ resolution'[x.input.order] = x.input.payload
                      /\ order'[x.input.order].state = "PENDIENTE_PAGO"
    BY DEF ToldWhatIsRecorded, Equal, Recorded
  <2>1. x \in Answers
    BY <1>2
  <2>2. CASE x \in answers
    BY <2>1, <2>2, TablesStay
  <2>3. CASE x \notin answers
    <3>1. x.input \in Inputs /\ Equal(x.input)
      BY <2>3 DEF Tell
    <3>2. /\ resolution[x.input.order] = x.input.payload
          /\ order[x.input.order].state = "PENDIENTE_PAGO"
      BY <3>1, RecordedInput
    <3> QED BY <3>1, <3>2, TablesStay DEF database
  <2> QED BY <2>2, <2>3
<1> QED BY <1>3, <1>4, <1>5, <1>6, <1>7 DEF ResolutionInv

LEMMA FinishWorkKeepsInv ==
    ASSUME ResolutionInv, NEW o \in Orders, FinishWork(o)
    PROVE  ResolutionInv'
<1> DEFINE row == [order |-> o, version |-> FinishedVersion, action |-> "FINISH_WORK"]
<1>1. /\ order[o] \in OrderRows /\ order[o].state = "EN_ATENCION"
      /\ order' = [order EXCEPT ![o] = [state |-> "TRABAJO_FINALIZADO",
                                        version |-> order[o].version + 1]]
      /\ transitions' = transitions \cup {row}
      /\ UNCHANGED <<inArs, command, resolution, charged, audit, call, answers>>
  BY DEF FinishWork, ResolutionInv, TypeOK
<1>2. order' \in [Orders -> OrderRows]
  BY <1>1 DEF ResolutionInv, TypeOK, OrderRows, States
<1>3. row \in TransitionRows
  BY DEF TransitionRows, TransitionActions, FinishedVersion
<1>4. TypeOK'
  BY <1>1, <1>2, <1>3 DEF ResolutionInv, TypeOK
<1>5. \A p \in Orders : /\ order'[p].state = "PENDIENTE_PAGO" <=> order[p].state = "PENDIENTE_PAGO"
                        /\ VersionTaken(p, FinishedVersion + 1)' <=> VersionTaken(p, FinishedVersion + 1)
  <2>1. FinishedVersion + 1 # row.version
    BY DEF FinishedVersion
  <2> QED BY <1>1, <2>1 DEF ResolutionInv, TypeOK, VersionTaken
<1>6. ChargedAtomically'
  BY <1>1, <1>5 DEF ResolutionInv, ChargedAtomically
<1>7. ToldWhatIsRecorded'
  <2>1. \A x \in answers : x.input.order \in Orders
    BY DEF ResolutionInv, TypeOK, Answers, Inputs
  <2> QED BY <1>1, <1>5, <2>1 DEF ResolutionInv, ToldWhatIsRecorded, Equal, Recorded
<1>8. CommandsCharge' /\ ChargesAreInArs' /\ SuccessesAreRecorded'
  BY <1>1 DEF ResolutionInv, CommandsCharge, ChargesAreInArs, SuccessesAreRecorded, Equal, Recorded
<1> QED BY <1>4, <1>6, <1>7, <1>8 DEF ResolutionInv

LEMMA CommitKeepsInv ==
    ASSUME ResolutionInv, NEW h \in Handlers, ResolveCommit(h)
    PROVE  ResolutionInv'
<1> DEFINE input == call[h].input
           o == input.order
           source == <<input.actor, input.key>>
           new == [order |-> o, payload |-> input.payload]
           row == [order |-> o, version |-> FinishedVersion + 1, action |-> "CREATE_FIXED_PAYMENT"]
           next == [call[h] EXCEPT !.pc = "audit"]
<1>1. input \in Inputs /\ next \in Calls /\ next.pc = "audit" /\ next.input = input
  <2>1. call[h].pc = "commit" /\ call[h] \in Calls
    BY DEF ResolveCommit, ResolutionInv, TypeOK
  <2> QED BY <2>1, BusyCalls DEF ResolutionInv, Calls, Idle
<1>2. o \in Orders /\ input.payload \in Payloads /\ source \in Operators \X Keys
  BY <1>1 DEF Inputs
<1>3. /\ command' = [command EXCEPT ![source] = new]
      /\ resolution' = [resolution EXCEPT ![o] = input.payload]
      /\ order' = [order EXCEPT ![o] = [state |-> "PENDIENTE_PAGO", version |-> FinishedVersion + 1]]
      /\ charged' = charged \cup {o}
      /\ transitions' = transitions \cup {row}
      /\ call' = [call EXCEPT ![h] = next]
      /\ UNCHANGED <<inArs, audit, answers>>
  BY DEF ResolveCommit, Goto
<1>4. /\ command[source] = None /\ resolution[o] = None /\ o \notin charged
  BY DEF ResolveCommit, Collides, Recorded
<1> HIDE DEF next, new, row
<1>5. o \in inArs
  BY DEF ResolveCommit, ResolutionInv, ChargesAreInArs
<1>6. new \in Commands /\ new # None /\ new.order = o /\ new.payload = input.payload
  BY <1>2, NoRowAssumption DEF Commands, new
<1>7. row \in TransitionRows /\ row.order = o /\ row.version = FinishedVersion + 1
  BY <1>2 DEF TransitionRows, TransitionActions, FinishedVersion, row
<1>8. TypeOK'
  <2>1. order' \in [Orders -> OrderRows]
    BY <1>2, <1>3 DEF ResolutionInv, TypeOK, OrderRows, States, FinishedVersion
  <2>2. command' \in [Operators \X Keys -> Commands \cup {None}]
    BY <1>2, <1>3, <1>6 DEF ResolutionInv, TypeOK
  <2>3. call' \in [Handlers -> Calls]
    BY <1>1, <1>3 DEF ResolutionInv, TypeOK
  <2> QED BY <1>2, <1>3, <1>5, <1>7, <2>1, <2>2, <2>3 DEF ResolutionInv, TypeOK
<1>9. ChargedAtomically'
  <2>1. ASSUME NEW p \in Orders
        PROVE  /\ order'[p].state = "PENDIENTE_PAGO" <=> p \in charged'
               /\ p \in charged' <=> resolution'[p] # None
    BY <1>2, <1>3, <2>1, NoRowAssumption DEF ResolutionInv, TypeOK, ChargedAtomically
  <2>2. ASSUME NEW p \in Orders
        PROVE  p \in charged' <=> VersionTaken(p, FinishedVersion + 1)'
    BY <1>3, <1>7, <2>2 DEF ResolutionInv, ChargedAtomically, VersionTaken
  <2>3. ASSUME NEW p \in Orders, NEW s \in Operators \X Keys, NEW other \in Operators \X Keys,
               command'[s] # None, command'[s].order = p
        PROVE  /\ command'[s].payload = resolution'[p]
               /\ command'[other] # None /\ command'[other].order = p => s = other
    <3>1. \A s1 \in Operators \X Keys :
            command[s1] # None => command[s1].order # o
      BY <1>4 DEF ResolutionInv, CommandsCharge
    <3>2. /\ \A s1 \in (Operators \X Keys) \ {source} : command'[s1] = command[s1]
          /\ command'[source] = new
      BY <1>2, <1>3 DEF ResolutionInv, TypeOK
    <3>3. CASE p = o
      BY <1>2, <1>3, <1>6, <2>3, <3>1, <3>2, <3>3 DEF ResolutionInv, TypeOK
    <3>4. CASE p # o
      <4>1. s # source /\ command'[s] = command[s]
        BY <1>6, <2>3, <3>2, <3>4
      <4>2. resolution'[p] = resolution[p]
        BY <1>3, <3>4 DEF ResolutionInv, TypeOK
      <4>3. command[s].payload = resolution[p]
        BY <2>3, <4>1 DEF ResolutionInv, ChargedAtomically
      <4>4. command'[other] # None /\ command'[other].order = p => s = other
        <5>1. other # source => command'[other] = command[other]
          BY <3>2
        <5>2. other = source => command'[other].order # p
          BY <1>6, <3>2, <3>4
        <5> QED BY <2>3, <4>1, <5>1, <5>2 DEF ResolutionInv, ChargedAtomically
      <4> QED BY <4>1, <4>2, <4>3, <4>4
    <3> QED BY <3>3, <3>4
  <2> QED BY <2>1, <2>2, <2>3 DEF ChargedAtomically
<1>10. \A i \in Inputs : Equal(i) => Equal(i)'
  <2> SUFFICES ASSUME NEW i \in Inputs, Equal(i) PROVE Equal(i)'
    OBVIOUS
  <2> DEFINE s == <<i.actor, i.key>>
  <2>1. s \in Operators \X Keys /\ command[s] = [order |-> i.order, payload |-> i.payload]
    BY DEF Inputs, Equal, Recorded
  <2>2. command[s] # None
    BY <2>1, NoRowAssumption DEF Inputs, Commands
  <2>3. s # source
    BY <1>4, <2>2
  <2>4. command'[s] = command[s]
    BY <1>2, <1>3, <2>1, <2>3 DEF ResolutionInv, TypeOK
  <2> QED BY <2>1, <2>4 DEF Equal, Recorded
<1>11. ToldWhatIsRecorded'
  <2> SUFFICES ASSUME NEW x \in answers, x.result = "resolved"
               PROVE  /\ Equal(x.input)'
                      /\ resolution'[x.input.order] = x.input.payload
                      /\ order'[x.input.order].state = "PENDIENTE_PAGO"
    BY <1>3 DEF ToldWhatIsRecorded, Equal, Recorded
  <2>1. x.input \in Inputs /\ x.input.order \in Orders
    BY DEF ResolutionInv, TypeOK, Answers, Inputs
  <2>2. Equal(x.input) /\ resolution[x.input.order] = x.input.payload
        /\ order[x.input.order].state = "PENDIENTE_PAGO"
    BY DEF ResolutionInv, ToldWhatIsRecorded
  <2>3. x.input.order # o
    BY <1>4, <2>1, <2>2, RecordedInput
  <2> QED BY <1>3, <1>10, <2>1, <2>2, <2>3 DEF ResolutionInv, TypeOK
<1>12. CommandsCharge'
  BY <1>2, <1>3, <1>6 DEF ResolutionInv, TypeOK, CommandsCharge
<1>13. ChargesAreInArs'
  BY <1>1, <1>3 DEF ResolutionInv, TypeOK, ChargesAreInArs
<1>14. SuccessesAreRecorded'
  <2> SUFFICES ASSUME NEW i \in Handlers, call'[i].pc = "audit" PROVE Equal(call[i].input)'
    BY DEF SuccessesAreRecorded, Equal, Recorded
  <2>1. CASE i = h
    <3>1. command'[source] = new
      BY <1>2, <1>3 DEF ResolutionInv, TypeOK
    <3>2. call'[i].input = input
      BY <1>1, <1>3, <2>1 DEF ResolutionInv, TypeOK
    <3> QED BY <3>1, <3>2 DEF Equal, Recorded, new
  <2>2. CASE i # h
    <3>1. call'[i] = call[i] /\ Equal(call[i].input)
      BY <1>3, <2>2 DEF ResolutionInv, TypeOK, SuccessesAreRecorded
    <3>2. call[i].input \in Inputs
      BY <3>1, BusyCalls DEF ResolutionInv
    <3> QED BY <1>10, <3>1, <3>2 DEF Equal, Recorded
  <2> QED BY <2>1, <2>2
<1> QED BY <1>8, <1>9, <1>11, <1>12, <1>13, <1>14 DEF ResolutionInv

LEMMA InvIsInductive == ResolutionInv /\ [Next]_vars => ResolutionInv'
<1> SUFFICES ASSUME ResolutionInv, [Next]_vars PROVE ResolutionInv'
  OBVIOUS
<1>0. Idle \in Calls /\ Idle.pc = "idle"
  BY DEF Calls, Idle
<1>1. ASSUME NEW o \in Orders, FinishWork(o) PROVE ResolutionInv'
  BY <1>1, FinishWorkKeepsInv
<1>2. ASSUME NEW h \in Handlers, NEW input \in Inputs, ResolveLookup(h, input)
      PROVE  ResolutionInv'
  <2> DEFINE at(pc) == [pc |-> pc, input |-> input]
  <2>1. at("readOrder") \in Calls /\ at("audit") \in Calls
    BY DEF Calls
  <2>2. CASE Goto(h, at("readOrder")) /\ UNCHANGED answers
    BY <1>2, <2>1, <2>2, CallStep DEF ResolveLookup
  <2>3. CASE Equal(input) /\ Goto(h, at("audit")) /\ UNCHANGED answers
    BY <1>2, <2>1, <2>3, CallStep DEF ResolveLookup
  <2>4. CASE Refuse(h, input)
    BY <1>0, <1>2, <2>4, CallStep DEF ResolveLookup, Refuse
  <2> QED BY <1>2, <2>2, <2>3, <2>4 DEF ResolveLookup
<1>3. ASSUME NEW h \in Handlers, ResolveRead(h) PROVE ResolutionInv'
  <2> DEFINE next == [call[h] EXCEPT !.pc = "commit"]
  <2>1. call[h].input \in Inputs /\ next \in Calls /\ call[h] \in Calls /\ UNCHANGED database
    BY <1>3, BusyCalls DEF ResolveRead, ResolutionInv, TypeOK
  <2>2. CASE Goto(h, next) /\ UNCHANGED answers /\ Chargeable(call[h].input.order)
    <3>1. next.pc = "commit" /\ next.input = call[h].input
      BY <1>3, <2>1 DEF ResolveRead, Calls, Idle
    <3> QED BY <2>1, <2>2, <3>1, CallStep DEF Chargeable
  <2>3. CASE Refuse(h, call[h].input)
    BY <1>0, <2>1, <2>3, CallStep DEF Refuse
  <2> QED BY <1>3, <2>2, <2>3 DEF ResolveRead
<1>4. ASSUME NEW h \in Handlers, ResolveCommit(h) PROVE ResolutionInv'
  BY <1>4, CommitKeepsInv
<1>5. ASSUME NEW h \in Handlers, ResolveConflict(h) PROVE ResolutionInv'
  <2> DEFINE next == [call[h] EXCEPT !.pc = "retry"]
  <2>1. next \in Calls /\ call[h] \in Calls
    BY <1>5, BusyCalls DEF ResolveConflict, ResolutionInv, TypeOK
  <2>2. next.pc = "retry"
    BY <1>5, <2>1 DEF ResolveConflict, Calls, Idle
  <2> QED BY <1>5, <2>1, <2>2, CallStep DEF ResolveConflict
<1>6. ASSUME NEW h \in Handlers, ResolveRetry(h) PROVE ResolutionInv'
  <2> DEFINE next == [call[h] EXCEPT !.pc = "audit"]
  <2>1. call[h].input \in Inputs /\ next \in Calls /\ call[h] \in Calls /\ UNCHANGED database
    BY <1>6, BusyCalls DEF ResolveRetry, ResolutionInv, TypeOK
  <2>2. CASE Goto(h, next) /\ UNCHANGED answers /\ Equal(call[h].input)
    <3>1. next.pc = "audit" /\ next.input = call[h].input
      BY <1>6, <2>1 DEF ResolveRetry, Calls, Idle
    <3> QED BY <2>1, <2>2, <3>1, CallStep
  <2>3. CASE Refuse(h, call[h].input)
    BY <1>0, <2>1, <2>3, CallStep DEF Refuse
  <2> QED BY <1>6, <2>2, <2>3 DEF ResolveRetry
<1>7. ASSUME NEW h \in Handlers, Audit(h) PROVE ResolutionInv'
  <2> DEFINE input == call[h].input
  <2>1. /\ input \in Inputs /\ Equal(input)
        /\ call' = [call EXCEPT ![h] = Idle]
        /\ answers' = answers \cup {[input |-> input, result |-> "resolved"]}
        /\ audit' = audit \cup {[actor |-> input.actor, order |-> input.order]}
        /\ UNCHANGED <<inArs, order, transitions, command, resolution, charged>>
    BY <1>7, BusyCalls DEF Audit, Goto, Tell, ResolutionInv, SuccessesAreRecorded
  <2>2. TypeOK'
    BY <1>0, <2>1 DEF ResolutionInv, TypeOK, Answers, Inputs
  <2>3. /\ resolution[input.order] = input.payload
        /\ order[input.order].state = "PENDIENTE_PAGO"
    BY <2>1, RecordedInput
  <2>4. ToldWhatIsRecorded'
    BY <2>1, <2>3 DEF ResolutionInv, ToldWhatIsRecorded, Equal, Recorded
  <2>5. ChargedAtomically' /\ CommandsCharge'
    BY <2>1 DEF ResolutionInv, ChargedAtomically, CommandsCharge, VersionTaken
  <2>6. ChargesAreInArs' /\ SuccessesAreRecorded'
    BY <1>0, <2>1 DEF ResolutionInv, TypeOK, ChargesAreInArs, SuccessesAreRecorded, Equal, Recorded
  <2> QED BY <2>2, <2>4, <2>5, <2>6 DEF ResolutionInv
<1>8. ASSUME NEW h \in Handlers, CallDies(h) PROVE ResolutionInv'
  BY <1>0, <1>8, CallStep DEF CallDies
<1>9. CASE UNCHANGED vars
  BY <1>9 DEF vars, database, ResolutionInv, TypeOK, ChargedAtomically, ToldWhatIsRecorded,
     CommandsCharge, ChargesAreInArs, SuccessesAreRecorded, Equal, Recorded, VersionTaken
<1> QED BY <1>1, <1>2, <1>3, <1>4, <1>5, <1>6, <1>7, <1>8, <1>9 DEF Next

LEMMA InvInitially == Init => ResolutionInv
BY DEF Init, ResolutionInv, TypeOK, OrderRows, States, FinishedVersion, Calls, Idle,
       ChargedAtomically, ToldWhatIsRecorded, CommandsCharge, ChargesAreInArs,
       SuccessesAreRecorded, VersionTaken

(* The types of the tables, of the calls and of what operators are told.    *)
THEOREM TypeCorrect == Spec => []TypeOK
<1>1. ResolutionInv => TypeOK
  BY DEF ResolutionInv
<1> QED BY <1>1, InvInitially, InvIsInductive, PTL DEF Spec

(* However many operators resolve, repeat and race, an order awaits payment *)
(* exactly with its charge, its resolution, its row and its one command.    *)
THEOREM ChargedOnce == Spec => []ChargedAtomically
<1>1. ResolutionInv => ChargedAtomically
  BY DEF ResolutionInv
<1> QED BY <1>1, InvInitially, InvIsInductive, PTL DEF Spec

(* An operator who is told "resolved" is told of what is on record.         *)
THEOREM ToldTheTruth == Spec => []ToldWhatIsRecorded
<1>1. ResolutionInv => ToldWhatIsRecorded
  BY DEF ResolutionInv
<1> QED BY <1>1, InvInitially, InvIsInductive, PTL DEF Spec

=============================================================================
