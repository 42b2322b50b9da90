---------------------------- MODULE RequestsProofs ----------------------------
(* Theorems about Requests, for every value of its constants.               *)
EXTENDS Requests, FiniteSetTheorems, TLAPS

UploadSteps == {"stream", "locked", "renamed", "cleanup"}
CreationSteps == {"lookup", "rate", "insert", "retry"}

(* A row of a request is there as long as an upload for it goes on.         *)
UploadsHaveARequest ==
    \A h \in Handlers : call[h].pc \in UploadSteps => request[call[h].request] # None

TypeInv == TypeOK /\ UploadsHaveARequest

LEMMA CallKinds ==
    ASSUME TypeOK, NEW h \in Handlers
    PROVE  /\ call[h].pc \in UploadSteps <=> call[h] \in Uploads
           /\ call[h].pc \in CreationSteps <=> call[h] \in Creations
           /\ call[h] \in Uploads => \A pc \in UploadSteps : [call[h] EXCEPT !.pc = pc] \in Uploads
           /\ call[h] \in Creations =>
                \A pc \in CreationSteps : [call[h] EXCEPT !.pc = pc] \in Creations
BY DEF TypeOK, Idle, Creations, Uploads, UploadSteps, CreationSteps

(* Only Create and CommitUpload write rows of requests; none is removed.    *)
LEMMA CallMoves ==
    ASSUME TypeInv, NEW h \in Handlers, NEW next \in {Idle} \cup Creations \cup Uploads,
           CallTo(h, next), UNCHANGED request,
           next \in Uploads => request[next.request] # None
    PROVE  /\ call' \in [Handlers -> {Idle} \cup Creations \cup Uploads]
           /\ UploadsHaveARequest'
           /\ call'[h] = next
           /\ \A i \in Handlers \ {h} : call'[i] = call[i]
<1>1. /\ call' \in [Handlers -> {Idle} \cup Creations \cup Uploads]
      /\ call'[h] = next
      /\ \A i \in Handlers \ {h} : call'[i] = call[i]
  BY DEF CallTo, TypeInv, TypeOK
<1>2. next.pc \in UploadSteps => next \in Uploads
  BY DEF Idle, Creations, Uploads, UploadSteps
<1> QED BY <1>1, <1>2 DEF TypeInv, UploadsHaveARequest

LEMMA AnswersAreTyped ==
    ASSUME TypeInv, NEW h \in Handlers, call[h] \in Creations,
           NEW answer \in Requests \cup {"MISMATCH"}, Answer(h, answer)
    PROVE  told' \subseteq Answers /\ CallTo(h, Idle)
BY DEF TypeInv, TypeOK, Answer, Answers, Creations

LEMMA TypeInvIsInductive == TypeInv /\ [Next]_vars => TypeInv'
<1> SUFFICES ASSUME TypeInv, [Next]_vars PROVE TypeInv'
  OBVIOUS
<1> USE DEF disk
<1>1. ASSUME NEW o \in Offers, OfferChanges(o) PROVE TypeInv'
  BY <1>1 DEF OfferChanges, TypeInv, TypeOK, UploadsHaveARequest
<1>2. ASSUME NEW h \in Handlers, NEW client \in Clients, NEW key \in Keys,
             NEW input \in Inputs, Receive(h, client, key, input)
      PROVE  TypeInv'
  <2>1. PICK address \in Normalized(input) :
          CallTo(h, [pc |-> "lookup", client |-> client, key |-> key, input |-> input,
                     address |-> address])
    BY <1>2 DEF Receive
  <2>2. address \in Addresses
    BY DEF Normalized, Typed, Found, Addresses, Inputs
  <2> DEFINE next == [pc |-> "lookup", client |-> client, key |-> key, input |-> input,
                      address |-> address]
  <2>3. next \in Creations /\ next \notin Uploads
    BY <2>2 DEF Creations, Uploads
  <2> QED BY <1>2, <2>1, <2>3, CallMoves DEF Receive, TypeInv, TypeOK
<1>3. ASSUME NEW h \in Handlers, Lookup(h) \/ Retry(h) PROVE TypeInv'
  <2>1. call[h] \in Creations /\ UNCHANGED <<offered, request, media, disk>>
    BY <1>3, CallKinds DEF Lookup, Retry, TypeInv, CreationSteps
  <2>2. CASE \E r \in Filed(call[h]) : AnswerFrom(h, r)
    <3>1. PICK answer \in Requests \cup {"MISMATCH"} : Answer(h, answer)
      BY <2>2 DEF Filed, AnswerFrom
    <3>2. told' \subseteq Answers /\ CallTo(h, Idle) /\ Idle \notin Uploads
      BY <2>1, <3>1, AnswersAreTyped DEF Idle, Uploads
    <3> QED BY <2>1, <3>2, CallMoves DEF TypeInv, TypeOK
  <2>3. CASE StepTo(h, "rate") /\ UNCHANGED told
    <3> DEFINE next == [call[h] EXCEPT !.pc = "rate"]
    <3>1. next \in Creations /\ next \notin Uploads
      BY <2>1, CallKinds DEF TypeInv, CreationSteps, Creations, Uploads
    <3> QED BY <2>1, <2>3, <3>1, CallMoves DEF StepTo, TypeInv, TypeOK
  <2> QED BY <1>3, <2>2, <2>3 DEF Lookup, Retry
<1>4. ASSUME NEW h \in Handlers, ReadRate(h) \/ Collide(h) PROVE TypeInv'
  <2>1. call[h] \in Creations /\ UNCHANGED <<offered, request, media, disk, told>>
    BY <1>4, CallKinds DEF ReadRate, Collide, TypeInv, CreationSteps
  <2>2. PICK next \in {Idle} \cup Creations : CallTo(h, next)
    BY <1>4, <2>1, CallKinds DEF ReadRate, Collide, StepTo, TypeInv, CreationSteps
  <2>3. next \notin Uploads
    BY DEF Idle, Creations, Uploads
  <2> QED BY <2>1, <2>2, <2>3, CallMoves DEF TypeInv, TypeOK
<1>5. ASSUME NEW h \in Handlers, NEW r \in Requests, Create(h, r) PROVE TypeInv'
  <2> DEFINE c == call[h]
             row == [client |-> c.client, key |-> c.key, offer |-> c.input.offer,
                     address |-> c.address, ready |-> FALSE]
  <2>1. c \in Creations
    BY <1>5, CallKinds DEF Create, TypeInv, CreationSteps
  <2>2. row \in RequestRows
    BY <2>1 DEF Creations, RequestRows, Inputs
  <2>3. /\ request' = [request EXCEPT ![r] = row] /\ row # None
        /\ call' = [call EXCEPT ![h] = Idle]
        /\ told' \subseteq Answers
        /\ UNCHANGED <<offered, media, disk>>
    BY <1>5, <2>1, <2>2, AnswersAreTyped, NoRowAssumption DEF Create, Answer, CallTo
  <2>4. TypeOK'
    BY <2>2, <2>3 DEF TypeInv, TypeOK
  <2>5. \A i \in Handlers : call'[i].pc \in UploadSteps =>
            call'[i] = call[i] /\ call[i].request \in Requests
    BY <2>3, CallKinds DEF TypeInv, TypeOK, Idle, UploadSteps, Uploads
  <2>6. UploadsHaveARequest'
    BY <2>3, <2>5 DEF TypeInv, TypeOK, UploadsHaveARequest
  <2> QED BY <2>4, <2>6 DEF TypeInv
<1>6. ASSUME NEW h \in Handlers, NEW r \in Requests, NEW kind \in Kinds, NEW f \in Files,
             Upload(h, r, kind, f)
      PROVE  TypeInv'
  <2> DEFINE next == [pc |-> "stream", request |-> r, file |-> f, kind |-> kind]
  <2>1. next \in Uploads
    BY DEF Uploads
  <2> QED BY <1>6, <2>1, CallMoves DEF Upload, TypeInv, TypeOK
<1>7. ASSUME NEW h \in Handlers, LockRequest(h) \/ Rename(h) \/ UploadFails(h)
      PROVE  TypeInv'
  <2>1. call[h] \in Uploads /\ call[h].pc \in UploadSteps
    BY <1>7, CallKinds DEF LockRequest, Rename, UploadFails, TypeInv, UploadSteps
  <2>2. PICK pc \in UploadSteps : StepTo(h, pc)
    BY <1>7 DEF LockRequest, Rename, UploadFails, UploadSteps
  <2> DEFINE next == [call[h] EXCEPT !.pc = pc]
  <2>3. next \in Uploads /\ next.request = call[h].request
    BY <2>1, CallKinds DEF TypeInv, Uploads
  <2>4. call[h].file \in Files
    BY <2>1 DEF Uploads
  <2>5. /\ temporary' \subseteq Files /\ final' \subseteq Files
        /\ UNCHANGED <<offered, request, media, stopped, unanswered, told>>
    BY <1>7, <2>4 DEF LockRequest, Rename, UploadFails, TypeInv, TypeOK
  <2> QED BY <2>1, <2>2, <2>3, <2>5, CallMoves DEF StepTo, TypeInv, TypeOK, UploadsHaveARequest
<1>8. ASSUME NEW h \in Handlers, CommitUpload(h) PROVE TypeInv'
  <2> DEFINE c == call[h]
  <2>1. c \in Uploads /\ request[c.request] # None
    BY <1>8, CallKinds DEF CommitUpload, TypeInv, UploadsHaveARequest, UploadSteps
  <2>2. /\ request[c.request] \in RequestRows
        /\ request' = [request EXCEPT ![c.request] = [request[c.request] EXCEPT !.ready = TRUE]]
        /\ UNCHANGED <<offered, temporary, final, stopped, told>>
    BY <1>8, <2>1 DEF CommitUpload, MakeReady, TypeInv, TypeOK, Uploads
  <2>3. [request[c.request] EXCEPT !.ready = TRUE] \in RequestRows
    BY <2>2 DEF RequestRows
  <2>4. /\ request' \in [Requests -> RequestRows \cup {None}]
        /\ \A r \in Requests : request[r] # None => request'[r] # None
    BY <2>2, <2>3, NoRowAssumption DEF TypeInv, TypeOK
  <2>5. media' \subseteq MediaRows /\ unanswered' \subseteq Files
    BY <1>8, <2>1 DEF CommitUpload, TypeInv, TypeOK, Uploads, MediaRows
  <2>6. PICK next \in {Idle} \cup Uploads :
          call' = [call EXCEPT ![h] = next] /\ (next \in Uploads => next.request = c.request)
    <3>1. [c EXCEPT !.pc = "cleanup"] \in Uploads /\ [c EXCEPT !.pc = "cleanup"].request = c.request
      BY <2>1, CallKinds DEF TypeInv, UploadSteps, Uploads
    <3> QED BY <1>8, <3>1 DEF CommitUpload, CallTo, StepTo, Idle, Uploads
  <2>7. TypeOK'
    BY <2>2, <2>4, <2>5, <2>6 DEF TypeInv, TypeOK
  <2>8. UploadsHaveARequest'
    <3> SUFFICES ASSUME NEW i \in Handlers, call'[i].pc \in UploadSteps
                 PROVE  request'[call'[i].request] # None
      BY DEF UploadsHaveARequest
    <3>1. CASE i = h
      BY <2>1, <2>4, <2>6, <3>1 DEF TypeInv, TypeOK, Idle, Uploads, UploadSteps
    <3>2. CASE i # h
      <4>1. call'[i] = call[i] /\ call[i] \in Uploads
        BY <2>6, <3>2, CallKinds DEF TypeInv, TypeOK
      <4> QED BY <2>4, <4>1 DEF TypeInv, UploadsHaveARequest, Uploads
    <3> QED BY <3>1, <3>2
  <2> QED BY <2>7, <2>8 DEF TypeInv
<1>9. ASSUME NEW h \in Handlers, Cleanup(h) \/ CallDies(h) PROVE TypeInv'
  <2>1. Idle \notin Uploads /\ CallTo(h, Idle)
    BY <1>9 DEF Idle, Uploads, Cleanup, CallDies
  <2>2. /\ temporary' \subseteq temporary /\ final' \subseteq final
        /\ stopped' \subseteq Files
        /\ UNCHANGED <<offered, request, media, unanswered, told>>
    BY <1>9 DEF Cleanup, CallDies, TypeInv, TypeOK, Uploads
  <2> QED BY <2>1, <2>2, CallMoves DEF TypeInv, TypeOK
<1>10. CASE UNCHANGED vars
  BY <1>10 DEF vars, TypeInv, TypeOK, UploadsHaveARequest
<1> QED BY <1>1, <1>2, <1>3, <1>4, <1>5, <1>6, <1>7, <1>8, <1>9, <1>10 DEF Next

LEMMA TypeInvInitially == Init => TypeInv
BY DEF Init, TypeInv, TypeOK, UploadsHaveARequest, Idle, UploadSteps

(* The types of rows, files, answers and calls.                             *)
THEOREM TypeCorrect == Spec => []TypeOK
<1>1. TypeInv => TypeOK
  BY DEF TypeInv
<1> QED BY <1>1, TypeInvInitially, TypeInvIsInductive, PTL DEF Spec

-----------------------------------------------------------------------------
(* One request per key.                                                     *)

(* The normaliser never changes the place.                                  *)
PlacesAreKept ==
    \A h \in Handlers :
      call[h].pc \in CreationSteps => call[h].address.place = call[h].input.place

KeyInv == TypeInv /\ PlacesAreKept /\ OneRequestPerKey

(* What a step of a call that goes on does to its address and input.        *)
LEMMA PlacesStay ==
    ASSUME KeyInv, NEW h \in Handlers, NEW next, CallTo(h, next),
           next.pc \in CreationSteps => next.address.place = next.input.place
    PROVE  PlacesAreKept'
BY DEF KeyInv, TypeInv, TypeOK, PlacesAreKept, CallTo

(* The steps of uploads leave every creation alone.                         *)
LEMMA UploadsAreNoCreations ==
    ASSUME TypeInv, NEW h \in Handlers,
           \/ \E r \in Requests, kind \in Kinds, f \in Files : Upload(h, r, kind, f)
           \/ LockRequest(h) \/ Rename(h) \/ UploadFails(h) \/ Cleanup(h) \/ CallDies(h)
    PROVE  \E next : CallTo(h, next) /\ next.pc \notin CreationSteps
<1>1. CASE \E r \in Requests, kind \in Kinds, f \in Files : Upload(h, r, kind, f)
  BY <1>1 DEF Upload, CreationSteps
<1>2. CASE Cleanup(h) \/ CallDies(h)
  BY <1>2 DEF Cleanup, CallDies, Idle, CreationSteps
<1>3. CASE LockRequest(h) \/ Rename(h) \/ UploadFails(h)
  <2>1. call[h] \in Uploads
    BY <1>3, CallKinds DEF LockRequest, Rename, UploadFails, TypeInv, UploadSteps
  <2> QED BY <1>3, <2>1 DEF LockRequest, Rename, UploadFails, StepTo, Uploads, CreationSteps
<1> QED BY <1>1, <1>2, <1>3

(* An answer from a row that the key names tells of its offer and place.    *)
LEMMA AnswerFromRow ==
    ASSUME KeyInv, NEW h \in Handlers, call[h].pc \in CreationSteps,
           NEW r \in Filed(call[h]), AnswerFrom(h, r), UNCHANGED request
    PROVE  PlacesAreKept' /\ OneRequestPerKey'
<1> DEFINE c == call[h]
           answer == IF SamePayload(request[r], c) THEN r ELSE "MISMATCH"
           new == [client |-> c.client, key |-> c.key, input |-> c.input, answer |-> answer]
<1>1. c \in Creations /\ c.address.place = c.input.place
  BY CallKinds DEF KeyInv, TypeInv, PlacesAreKept
<1>2. told' = told \cup {new} /\ CallTo(h, Idle)
  BY DEF AnswerFrom, Answer
<1>3. /\ r \in Requests /\ request[r] # None
      /\ request[r].client = c.client /\ request[r].key = c.key
  BY DEF Filed
<1>4. new.answer # "MISMATCH" =>
        /\ new.answer = r
        /\ request[r].offer = new.input.offer
        /\ request[r].address.place = new.input.place
  BY <1>1 DEF SamePayload
<1>5. PlacesAreKept'
  BY <1>2, PlacesStay DEF Idle, CreationSteps
<1>6. OneRequestPerKey'
  BY <1>2, <1>3, <1>4 DEF KeyInv, OneRequestPerKey
<1> QED BY <1>5, <1>6

LEMMA KeyInvIsInductive == KeyInv /\ [Next]_vars => KeyInv'
<1> SUFFICES ASSUME KeyInv, [Next]_vars PROVE PlacesAreKept' /\ OneRequestPerKey'
  BY TypeInvIsInductive DEF KeyInv
<1>0. Idle.pc \notin CreationSteps
  BY DEF Idle, CreationSteps
<1>1. ASSUME NEW o \in Offers, OfferChanges(o) PROVE PlacesAreKept' /\ OneRequestPerKey'
  BY <1>1 DEF OfferChanges, KeyInv, PlacesAreKept, OneRequestPerKey
<1>2. ASSUME NEW h \in Handlers, NEW client \in Clients, NEW key \in Keys,
             NEW input \in Inputs, Receive(h, client, key, input)
      PROVE  PlacesAreKept' /\ OneRequestPerKey'
  <2>1. PICK address \in Normalized(input) :
          CallTo(h, [pc |-> "lookup", client |-> client, key |-> key, input |-> input,
                     address |-> address])
    BY <1>2 DEF Receive
  <2>2. address.place = input.place
    BY DEF Normalized, Typed, Found
  <2>3. UNCHANGED <<request, told>>
    BY <1>2 DEF Receive
  <2> QED BY <2>1, <2>2, <2>3, PlacesStay DEF KeyInv, OneRequestPerKey
<1>3. ASSUME NEW h \in Handlers, Lookup(h) \/ Retry(h)
      PROVE  PlacesAreKept' /\ OneRequestPerKey'
  <2>1. call[h].pc \in CreationSteps /\ UNCHANGED request
    BY <1>3 DEF Lookup, Retry, CreationSteps
  <2>2. CASE \E r \in Filed(call[h]) : AnswerFrom(h, r)
    BY <2>1, <2>2, AnswerFromRow
  <2>3. CASE StepTo(h, "rate") /\ UNCHANGED told
    <3> DEFINE next == [call[h] EXCEPT !.pc = "rate"]
    <3>1. next.address.place = next.input.place
      BY <2>1, CallKinds DEF KeyInv, TypeInv, PlacesAreKept, Creations
    <3> QED BY <2>1, <2>3, <3>1, PlacesStay DEF StepTo, KeyInv, OneRequestPerKey
  <2> QED BY <1>3, <2>2, <2>3 DEF Lookup, Retry
<1>4. ASSUME NEW h \in Handlers, ReadRate(h) \/ Collide(h)
      PROVE  PlacesAreKept' /\ OneRequestPerKey'
  <2>1. call[h].pc \in CreationSteps /\ UNCHANGED <<request, told>>
    BY <1>4 DEF ReadRate, Collide, CreationSteps
  <2>2. call[h] \in Creations /\ call[h].address.place = call[h].input.place
    BY <2>1, CallKinds DEF KeyInv, TypeInv, PlacesAreKept
  <2>3. PICK next : /\ CallTo(h, next)
                    /\ next.pc \in CreationSteps => next.address.place = next.input.place
    BY <1>0, <1>4, <2>2 DEF ReadRate, Collide, StepTo, Creations
  <2> QED BY <2>1, <2>3, PlacesStay DEF KeyInv, OneRequestPerKey
<1>5. ASSUME NEW h \in Handlers, NEW r \in Requests, Create(h, r)
      PROVE  PlacesAreKept' /\ OneRequestPerKey'
  <2> DEFINE c == call[h]
             row == [client |-> c.client, key |-> c.key, offer |-> c.input.offer,
                     address |-> c.address, ready |-> FALSE]
             new == [client |-> c.client, key |-> c.key, input |-> c.input, answer |-> r]
  <2>1. c \in Creations /\ c.address.place = c.input.place
    BY <1>5, CallKinds DEF Create, KeyInv, TypeInv, PlacesAreKept, CreationSteps
  <2>2. row \in RequestRows
    BY <2>1 DEF Creations, RequestRows, Inputs
  <2>3. /\ request[r] = None /\ row # None
        /\ request'[r] = row
        /\ \A s \in Requests \ {r} : request'[s] = request[s]
        /\ told' = told \cup {new}
        /\ CallTo(h, Idle)
    BY <1>5, <2>2, NoRowAssumption DEF Create, Answer, KeyInv, TypeInv, TypeOK
  <2>4. \A s \in Requests : request[s] # None =>
            ~(request[s].client = c.client /\ request[s].key = c.key)
    BY <1>5 DEF Create, KeyTaken, Filed
  <2>5. \A a \in told : a.answer # "MISMATCH" => a.answer \in Requests \ {r}
    BY <2>3 DEF KeyInv, OneRequestPerKey, TypeInv, TypeOK, Answers
  <2> HIDE DEF row
  <2>6. row.client = c.client /\ row.key = c.key /\ row.offer = c.input.offer
        /\ row.address.place = c.input.place
    BY <2>1 DEF row
  <2>7. PlacesAreKept'
    BY <1>0, <2>3, PlacesStay
  <2>8. OneRequestPerKey'
    <3>1. ASSUME NEW s \in Requests, NEW q \in Requests, request'[s] # None, request'[q] # None,
                 request'[s].client = request'[q].client, request'[s].key = request'[q].key
          PROVE  s = q
      <4>1. CASE s # r /\ q # r
        BY <2>3, <3>1, <4>1 DEF KeyInv, OneRequestPerKey
      <4>2. CASE s = r \/ q = r
        BY <2>3, <2>4, <2>6, <3>1, <4>2
      <4> QED BY <4>1, <4>2
    <3>2. ASSUME NEW a \in told', a.answer # "MISMATCH"
          PROVE  /\ request'[a.answer] # None
                 /\ request'[a.answer].client = a.client /\ request'[a.answer].key = a.key
                 /\ request'[a.answer].offer = a.input.offer
                 /\ request'[a.answer].address.place = a.input.place
      <4>1. CASE a \in told
        BY <2>3, <2>5, <3>2, <4>1 DEF KeyInv, OneRequestPerKey
      <4>2. CASE a = new
        BY <2>3, <2>6, <4>2
      <4> QED BY <2>3, <4>1, <4>2
    <3> QED BY <3>1, <3>2 DEF OneRequestPerKey
  <2> QED BY <2>7, <2>8
<1>6. ASSUME NEW h \in Handlers,
             \/ \E r \in Requests, kind \in Kinds, f \in Files : Upload(h, r, kind, f)
             \/ LockRequest(h) \/ Rename(h) \/ UploadFails(h) \/ Cleanup(h) \/ CallDies(h)
      PROVE  PlacesAreKept' /\ OneRequestPerKey'
  <2>1. UNCHANGED <<request, told>>
    BY <1>6 DEF Upload, LockRequest, Rename, UploadFails, Cleanup, CallDies
  <2>2. PICK next : CallTo(h, next) /\ next.pc \notin CreationSteps
    BY <1>6, UploadsAreNoCreations DEF KeyInv
  <2> QED BY <2>1, <2>2, PlacesStay DEF KeyInv, OneRequestPerKey
<1>7. ASSUME NEW h \in Handlers, CommitUpload(h) PROVE PlacesAreKept' /\ OneRequestPerKey'
  <2> DEFINE c == call[h]
  <2>1. c \in Uploads /\ request[c.request] # None /\ c.request \in Requests
    BY <1>7, CallKinds
       DEF CommitUpload, KeyInv, TypeInv, UploadsHaveARequest, UploadSteps, Uploads
  <2>2. request[c.request] \in RequestRows
    BY <2>1 DEF KeyInv, TypeInv, TypeOK
  <2>3. /\ UNCHANGED told
        /\ request' = [request EXCEPT ![c.request] = [request[c.request] EXCEPT !.ready = TRUE]]
    BY <1>7 DEF CommitUpload, MakeReady
  <2>4. [request[c.request] EXCEPT !.ready = TRUE] # None
    BY <2>2, NoRowAssumption DEF RequestRows
  <2>5. \A r \in Requests :
          /\ request'[r] # None <=> request[r] # None
          /\ request[r] # None =>
               /\ request'[r].client = request[r].client /\ request'[r].key = request[r].key
               /\ request'[r].offer = request[r].offer
               /\ request'[r].address = request[r].address
    BY <2>1, <2>2, <2>3, <2>4 DEF KeyInv, TypeInv, TypeOK, RequestRows
  <2>6. \A a \in told : a.answer # "MISMATCH" => a.answer \in Requests
    BY DEF KeyInv, TypeInv, TypeOK, Answers
  <2>7. OneRequestPerKey'
    BY <2>3, <2>5, <2>6 DEF KeyInv, OneRequestPerKey
  <2>8. PICK next : CallTo(h, next) /\ next.pc \notin CreationSteps
    BY <1>0, <1>7, <2>1 DEF CommitUpload, StepTo, Uploads, CreationSteps
  <2> QED BY <2>7, <2>8, PlacesStay
<1>8. CASE UNCHANGED vars
  BY <1>8 DEF vars, KeyInv, PlacesAreKept, OneRequestPerKey
<1> QED BY <1>1, <1>2, <1>3, <1>4, <1>5, <1>6, <1>7, <1>8 DEF Next

(* However many creations of a client race under one key, there is one      *)
(* request, and whoever is told of it sent its offer and its place.         *)
THEOREM OneRequestEach == Spec => []OneRequestPerKey
<1>1. Init => KeyInv
  BY TypeInvInitially DEF Init, KeyInv, PlacesAreKept, OneRequestPerKey, Idle, CreationSteps
<1>2. KeyInv => OneRequestPerKey
  BY DEF KeyInv
<1> QED BY <1>1, <1>2, KeyInvIsInductive, PTL DEF Spec


-----------------------------------------------------------------------------
(* Files and rows.                                                          *)

(* Each upload that goes on has a file of its own on the disk.              *)
UploadsHoldTheirFile ==
    /\ \A h \in Handlers : call[h].pc \in UploadSteps => call[h].file \in temporary \cup final
    /\ \A h \in Handlers : call[h].pc = "renamed" => call[h].file \in final
    /\ \A h, i \in Handlers :
         call[h].pc \in UploadSteps /\ call[i].pc \in UploadSteps /\ call[h].file = call[i].file
         => h = i

(* An upload whose file has a row already is one that was not answered.     *)
RowsAreOfEndedUploads ==
    \A h \in Handlers, m \in media :
      call[h].pc \in UploadSteps /\ m.file = call[h].file
      => call[h].pc = "cleanup" /\ m.file \in unanswered

(* FilesAndRowsAgree, with calls told apart by their step.                  *)
FilesHaveAReason ==
    /\ \A f \in temporary \cup final :
         \/ \E m \in media : m.file = f
         \/ \E h \in Handlers : call[h].pc \in UploadSteps /\ call[h].file = f
         \/ f \in stopped
    /\ \A m \in media : m.file \in final \cup unanswered

FilesInv == UploadsHoldTheirFile /\ RowsAreOfEndedUploads /\ FilesHaveAReason

LEMMA ReasonsAreUploads == ASSUME TypeOK, FilesHaveAReason PROVE FilesAndRowsAgree
BY CallKinds DEF FilesHaveAReason, FilesAndRowsAgree

(* A step of a call that is no upload, neither before nor after it.         *)
LEMMA NotAnUpload ==
    ASSUME FilesInv, UNCHANGED <<media, disk>>,
           \A h \in Handlers : \/ call'[h] = call[h]
                               \/ call[h].pc \notin UploadSteps /\ call'[h].pc \notin UploadSteps
    PROVE  FilesInv'
BY DEF FilesInv, UploadsHoldTheirFile, RowsAreOfEndedUploads, FilesHaveAReason, UploadSteps, disk

(* A step of one upload: its call goes on with the same file, or ends.      *)
LEMMA UploadGoesOn ==
    ASSUME TypeOK, NEW h \in Handlers, call[h].pc \in UploadSteps,
           NEW pc \in UploadSteps, StepTo(h, pc)
    PROVE  /\ call'[h].pc = pc /\ call'[h].file = call[h].file
           /\ call'[h].request = call[h].request /\ call'[h].kind = call[h].kind
           /\ \A i \in Handlers \ {h} : call'[i] = call[i]
<1>1. call[h] \in Uploads
  BY CallKinds
<1> QED BY <1>1 DEF StepTo, CallTo, TypeOK, Uploads

LEMMA CallEnds ==
    ASSUME TypeOK, NEW h \in Handlers, CallTo(h, Idle)
    PROVE  /\ call'[h].pc \notin UploadSteps
           /\ \A i \in Handlers \ {h} : call'[i] = call[i]
BY DEF CallTo, TypeOK, Idle, UploadSteps

(* The steps of creations leave every upload alone.                         *)
LEMMA CreationsAreNoUploads ==
    ASSUME TypeOK, NEW h \in Handlers,
           \/ \E client \in Clients, key \in Keys, input \in Inputs :
                Receive(h, client, key, input)
           \/ Lookup(h) \/ ReadRate(h) \/ Collide(h) \/ Retry(h)
           \/ \E r \in Requests : Create(h, r)
    PROVE  /\ UNCHANGED <<media, disk>>
           /\ \A i \in Handlers : \/ call'[i] = call[i]
                                  \/ call[i].pc \notin UploadSteps /\ call'[i].pc \notin UploadSteps
<1>1. UNCHANGED <<media, disk>>
  BY DEF Receive, Lookup, ReadRate, Collide, Retry, Create
<1>2. /\ call[h].pc \notin UploadSteps
      /\ call[h].pc \in CreationSteps => call[h] \in Creations
  <2>1. call[h] = Idle \/ call[h].pc \in CreationSteps
    BY DEF Receive, Lookup, ReadRate, Collide, Retry, Create, CreationSteps
  <2>2. call[h].pc \notin UploadSteps
    BY <2>1 DEF Idle, UploadSteps, CreationSteps
  <2> QED BY <2>2, CallKinds
<1>3. \E next : CallTo(h, next) /\ next.pc \notin UploadSteps
  <2>1. CASE \E client \in Clients, key \in Keys, input \in Inputs :
               Receive(h, client, key, input)
    BY <2>1 DEF Receive, UploadSteps
  <2>2. CASE Lookup(h) \/ ReadRate(h) \/ Collide(h) \/ Retry(h)
    BY <1>2, <2>2 DEF Lookup, ReadRate, Collide, Retry, AnswerFrom, Answer, StepTo,
                      UploadSteps, CreationSteps, Creations, Idle
  <2>3. CASE \E r \in Requests : Create(h, r)
    BY <2>3 DEF Create, Answer, Idle, UploadSteps
  <2> QED BY <2>1, <2>2, <2>3
<1> QED BY <1>1, <1>2, <1>3 DEF CallTo, TypeOK

LEMMA FilesInvIsInductive == TypeInv /\ FilesInv /\ [Next]_vars => FilesInv'
<1> SUFFICES ASSUME TypeInv, FilesInv, [Next]_vars PROVE FilesInv'
  OBVIOUS
<1>a. TypeOK /\ \A h \in Handlers : call[h].pc \in UploadSteps => call[h].file \in Files
  BY CallKinds DEF TypeInv, Uploads
<1> USE DEF disk
<1>1. ASSUME NEW o \in Offers, OfferChanges(o) PROVE FilesInv'
  BY <1>1, NotAnUpload DEF OfferChanges
<1>2. ASSUME NEW h \in Handlers,
             \/ \E client \in Clients, key \in Keys, input \in Inputs :
                  Receive(h, client, key, input)
             \/ Lookup(h) \/ ReadRate(h) \/ Collide(h) \/ Retry(h)
             \/ \E r \in Requests : Create(h, r)
      PROVE  FilesInv'
  BY <1>2, <1>a, CreationsAreNoUploads, NotAnUpload
<1>3. ASSUME NEW h \in Handlers, NEW r \in Requests, NEW kind \in Kinds, NEW f \in Files,
             Upload(h, r, kind, f)
      PROVE  FilesInv'
  <2>1. /\ call[h].pc \notin UploadSteps
        /\ call'[h].pc = "stream" /\ call'[h].file = f
        /\ \A i \in Handlers \ {h} : call'[i] = call[i]
    BY <1>3, <1>a DEF Upload, CallTo, TypeOK, Idle, UploadSteps
  <2>2. /\ f \notin temporary \cup final /\ \A m \in media : m.file # f
        /\ temporary' = temporary \cup {f}
        /\ UNCHANGED <<media, final, stopped, unanswered>>
    BY <1>3 DEF Upload
  <2>3. UploadsHoldTheirFile'
    BY <2>1, <2>2 DEF FilesInv, UploadsHoldTheirFile, UploadSteps
  <2>4. RowsAreOfEndedUploads'
    BY <2>1, <2>2 DEF FilesInv, RowsAreOfEndedUploads, UploadSteps
  <2>5. FilesHaveAReason'
    BY <2>1, <2>2 DEF FilesInv, FilesHaveAReason, UploadSteps
  <2> QED BY <2>3, <2>4, <2>5 DEF FilesInv
<1>4. ASSUME NEW h \in Handlers, LockRequest(h) \/ UploadFails(h) PROVE FilesInv'
  <2>1. /\ call[h].pc \in UploadSteps /\ call[h].pc # "cleanup"
        /\ UNCHANGED <<media, disk>>
    BY <1>4 DEF LockRequest, UploadFails, UploadSteps
  <2>2. PICK pc \in {"locked", "cleanup"} : StepTo(h, pc)
    BY <1>4 DEF LockRequest, UploadFails
  <2>3. /\ call'[h].pc = pc /\ call'[h].file = call[h].file
        /\ \A i \in Handlers \ {h} : call'[i] = call[i]
    BY <1>a, <2>1, <2>2, UploadGoesOn DEF UploadSteps
  <2> QED BY <2>1, <2>3
          DEF FilesInv, UploadsHoldTheirFile, RowsAreOfEndedUploads, FilesHaveAReason, UploadSteps
<1>5. ASSUME NEW h \in Handlers, Rename(h) PROVE FilesInv'
  <2> DEFINE f == call[h].file
  <2>1. /\ call[h].pc \in UploadSteps /\ call[h].pc # "cleanup"
        /\ call'[h].pc = "renamed" /\ call'[h].file = f
        /\ \A i \in Handlers \ {h} : call'[i] = call[i]
    BY <1>5, <1>a, UploadGoesOn DEF Rename, UploadSteps
  <2>2. /\ temporary' = temporary \ {f} /\ final' = final \cup {f}
        /\ UNCHANGED <<media, stopped, unanswered>>
    BY <1>5 DEF Rename
  <2> HIDE DEF f
  <2>3. UploadsHoldTheirFile'
    BY <2>1, <2>2 DEF FilesInv, UploadsHoldTheirFile, f, UploadSteps
  <2>4. RowsAreOfEndedUploads'
    BY <2>1, <2>2 DEF FilesInv, RowsAreOfEndedUploads, f, UploadSteps
  <2>5. FilesHaveAReason'
    BY <2>1, <2>2 DEF FilesInv, FilesHaveAReason, f, UploadSteps
  <2> QED BY <2>3, <2>4, <2>5 DEF FilesInv
<1>6. ASSUME NEW h \in Handlers, CommitUpload(h) PROVE FilesInv'
  <2> DEFINE f == call[h].file
             row == [file |-> f, request |-> call[h].request, kind |-> call[h].kind]
  <2>1. /\ call[h].pc \in UploadSteps /\ call[h].pc = "renamed"
        /\ media' = media \cup {row} /\ row.file = f
        /\ UNCHANGED <<temporary, final, stopped>>
    BY <1>6 DEF CommitUpload, UploadSteps
  <2>2. /\ f \in final
        /\ \A m \in media : m.file # f
        /\ \A i \in Handlers \ {h} : call[i].pc \in UploadSteps => call[i].file # f
    BY <2>1 DEF FilesInv, UploadsHoldTheirFile, RowsAreOfEndedUploads, UploadSteps
  <2>3. /\ \A i \in Handlers \ {h} : call'[i] = call[i]
        /\ \/ call'[h].pc \notin UploadSteps /\ UNCHANGED unanswered
           \/ /\ call'[h].pc = "cleanup" /\ call'[h].file = f
              /\ unanswered' = unanswered \cup {f}
    BY <1>6, <1>a, <2>1, UploadGoesOn, CallEnds DEF CommitUpload, UploadSteps
  <2> HIDE DEF f, row
  <2>4. UploadsHoldTheirFile'
    BY <2>1, <2>2, <2>3 DEF FilesInv, UploadsHoldTheirFile, UploadSteps
  <2>5. RowsAreOfEndedUploads'
    BY <2>1, <2>2, <2>3 DEF FilesInv, RowsAreOfEndedUploads, UploadSteps
  <2>6. FilesHaveAReason'
    <3>1. ASSUME NEW g \in temporary \cup final
          PROVE  \/ \E m \in media' : m.file = g
                 \/ \E i \in Handlers : call'[i].pc \in UploadSteps /\ call'[i].file = g
                 \/ g \in stopped
      BY <2>1, <2>3, <3>1 DEF FilesInv, FilesHaveAReason, f
    <3>2. \A m \in media' : m.file \in final \cup unanswered'
      BY <2>1, <2>2, <2>3 DEF FilesInv, FilesHaveAReason
    <3> QED BY <2>1, <3>1, <3>2 DEF FilesHaveAReason
  <2> QED BY <2>4, <2>5, <2>6 DEF FilesInv
<1>7. ASSUME NEW h \in Handlers, Cleanup(h) PROVE FilesInv'
  <2> DEFINE f == call[h].file
  <2>1. /\ call[h].pc = "cleanup"
        /\ temporary' = temporary \ {f} /\ final' = final \ {f}
        /\ UNCHANGED <<media, stopped, unanswered>>
        /\ call'[h].pc \notin UploadSteps
        /\ \A i \in Handlers \ {h} : call'[i] = call[i]
    BY <1>7, <1>a, CallEnds DEF Cleanup
  <2>2. /\ \A i \in Handlers \ {h} : call[i].pc \in UploadSteps => call[i].file # f
        /\ \A m \in media : m.file = f => f \in unanswered
    BY <2>1 DEF FilesInv, UploadsHoldTheirFile, RowsAreOfEndedUploads, UploadSteps
  <2> HIDE DEF f
  <2>3. UploadsHoldTheirFile'
    BY <2>1, <2>2 DEF FilesInv, UploadsHoldTheirFile, UploadSteps
  <2>4. RowsAreOfEndedUploads'
    BY <2>1, <2>2 DEF FilesInv, RowsAreOfEndedUploads, UploadSteps
  <2>5. FilesHaveAReason'
    BY <2>1, <2>2 DEF FilesInv, FilesHaveAReason, f
  <2> QED BY <2>3, <2>4, <2>5 DEF FilesInv
<1>8. ASSUME NEW h \in Handlers, CallDies(h) PROVE FilesInv'
  <2>1. /\ UNCHANGED <<media, temporary, final, unanswered>>
        /\ call'[h].pc \notin UploadSteps
        /\ \A i \in Handlers \ {h} : call'[i] = call[i]
        /\ stopped \subseteq stopped'
        /\ call[h].pc \in UploadSteps => call[h].file \in stopped'
    BY <1>8, <1>a, CallEnds, CallKinds DEF CallDies
  <2> QED BY <2>1
          DEF FilesInv, UploadsHoldTheirFile, RowsAreOfEndedUploads, FilesHaveAReason, UploadSteps
<1>9. CASE UNCHANGED vars
  BY <1>9, NotAnUpload DEF vars
<1> QED BY <1>1, <1>2, <1>3, <1>4, <1>5, <1>6, <1>7, <1>8, <1>9 DEF Next

(* However uploads race, fail, stop or go unanswered, a file without a row  *)
(* belongs to an upload that goes on or stopped, and a row without a file   *)
(* to one that was not answered.                                            *)
THEOREM FilesAgree == Spec => []FilesAndRowsAgree
<1>1. Init => FilesInv
  BY DEF Init, FilesInv, UploadsHoldTheirFile, RowsAreOfEndedUploads, FilesHaveAReason,
         Idle, UploadSteps
<1>2. TypeInv /\ FilesInv => FilesAndRowsAgree
  BY ReasonsAreUploads DEF TypeInv, FilesInv
<1> QED BY <1>1, <1>2, TypeInvInitially, TypeInvIsInductive, FilesInvIsInductive, PTL DEF Spec

-----------------------------------------------------------------------------
(* Limits.                                                                  *)

(* One upload at a time has a request's row, and what it counted holds      *)
(* until its commit, since only it adds a row for that request.             *)
LockIsExclusive ==
    /\ \A h, i \in Handlers :
         /\ call[h].pc \in {"locked", "renamed"} /\ call[i].pc \in {"locked", "renamed"}
         /\ call[h].request = call[i].request
         => h = i
    /\ \A h \in Handlers :
         call[h].pc = "renamed" => WithinLimit(call[h].request, call[h].kind)

MediaHaveARequest == \A m \in media : request[m.request] # None

LimitsInv == /\ IsFiniteSet(media)
             /\ LockIsExclusive /\ MediaHaveARequest /\ MediaWithinLimits

(* A step that leaves the media and the requests alone, and takes no lock.  *)
LEMMA NoLockTaken ==
    ASSUME LimitsInv, UNCHANGED <<media, request>>,
           \A h \in Handlers : \/ call'[h] = call[h]
                               \/ call'[h].pc \notin {"locked", "renamed"}
    PROVE  LimitsInv'
<1>1. LockIsExclusive'
  BY DEF LimitsInv, LockIsExclusive, WithinLimit, MediaOf
<1> QED BY <1>1 DEF LimitsInv, MediaHaveARequest, MediaWithinLimits, MediaOf

LEMMA LimitsInvIsInductive == TypeInv /\ LimitsInv /\ [Next]_vars => LimitsInv'
<1> SUFFICES ASSUME TypeInv, LimitsInv, [Next]_vars PROVE LimitsInv'
  OBVIOUS
<1>a. TypeOK
  BY DEF TypeInv
<1>b. {"locked", "renamed"} \subseteq UploadSteps
  BY DEF UploadSteps
<1>1. ASSUME NEW o \in Offers, OfferChanges(o) PROVE LimitsInv'
  BY <1>1, NoLockTaken DEF OfferChanges
<1>2. ASSUME NEW h \in Handlers,
             \/ \E client \in Clients, key \in Keys, input \in Inputs :
                  Receive(h, client, key, input)
             \/ Lookup(h) \/ ReadRate(h) \/ Collide(h) \/ Retry(h)
      PROVE  LimitsInv'
  <2>1. UNCHANGED <<media, request>>
    BY <1>2 DEF Receive, Lookup, ReadRate, Collide, Retry
  <2>2. \A i \in Handlers : call'[i] = call[i] \/ call'[i].pc \notin {"locked", "renamed"}
    BY <1>2, <1>a, <1>b, CreationsAreNoUploads
  <2> QED BY <2>1, <2>2, NoLockTaken
<1>3. ASSUME NEW h \in Handlers, NEW r \in Requests, Create(h, r) PROVE LimitsInv'
  <2>1. /\ request[r] = None /\ request'[r].ready = FALSE
        /\ \A s \in Requests \ {r} : request'[s] = request[s]
        /\ UNCHANGED media
    BY <1>3, <1>a DEF Create, TypeOK
  <2>2. \A i \in Handlers : call'[i] = call[i] \/ call'[i].pc \notin {"locked", "renamed"}
    BY <1>3, <1>a, <1>b, CreationsAreNoUploads
  <2>3. \A m \in media : m.request \in Requests \ {r}
    BY <1>a, <2>1 DEF TypeOK, MediaRows, LimitsInv, MediaHaveARequest
  <2>4. LockIsExclusive'
    BY <2>1, <2>2 DEF LimitsInv, LockIsExclusive, WithinLimit, MediaOf
  <2>5. MediaHaveARequest'
    BY <2>1, <2>3 DEF LimitsInv, MediaHaveARequest
  <2>6. MediaWithinLimits'
    <3> SUFFICES ASSUME NEW s \in Requests
                 PROVE  /\ Cardinality(MediaOf(s, "IMAGE"))' <= MaxImages
                        /\ Cardinality(MediaOf(s, "VIDEO"))' <= 1
                        /\ request'[s] # None =>
                             (request'[s].ready <=> \E m \in media' : m.request = s)
      BY DEF MediaWithinLimits
    <3>1. MediaOf(s, "IMAGE")' = MediaOf(s, "IMAGE") /\ MediaOf(s, "VIDEO")' = MediaOf(s, "VIDEO")
      BY <2>1 DEF MediaOf
    <3>2. CASE s = r
      BY <2>1, <2>3, <3>1, <3>2 DEF LimitsInv, MediaWithinLimits
    <3>3. CASE s # r
      BY <2>1, <3>1, <3>3 DEF LimitsInv, MediaWithinLimits
    <3> QED BY <3>2, <3>3
  <2> QED BY <2>1, <2>4, <2>5, <2>6 DEF LimitsInv
<1>4. ASSUME NEW h \in Handlers,
             \/ \E r \in Requests, kind \in Kinds, f \in Files : Upload(h, r, kind, f)
             \/ UploadFails(h) \/ Cleanup(h) \/ CallDies(h)
      PROVE  LimitsInv'
  <2>1. UNCHANGED <<media, request>>
    BY <1>4 DEF Upload, UploadFails, Cleanup, CallDies, disk
  <2>2. CASE \E r \in Requests, kind \in Kinds, f \in Files : Upload(h, r, kind, f)
    <3>1. \A i \in Handlers : call'[i] = call[i] \/ call'[i].pc \notin {"locked", "renamed"}
      BY <1>a, <2>2 DEF Upload, CallTo, TypeOK
    <3> QED BY <2>1, <3>1, NoLockTaken
  <2>3. CASE UploadFails(h)
    <3>1. \A i \in Handlers : call'[i] = call[i] \/ call'[i].pc \notin {"locked", "renamed"}
      BY <1>a, <2>3, UploadGoesOn DEF UploadFails, UploadSteps
    <3> QED BY <2>1, <3>1, NoLockTaken
  <2>4. CASE Cleanup(h) \/ CallDies(h)
    <3>1. \A i \in Handlers : call'[i] = call[i] \/ call'[i].pc \notin {"locked", "renamed"}
      BY <1>a, <1>b, <2>4, CallEnds DEF Cleanup, CallDies
    <3> QED BY <2>1, <3>1, NoLockTaken
  <2> QED BY <1>4, <2>2, <2>3, <2>4
<1>5. ASSUME NEW h \in Handlers, LockRequest(h) \/ Rename(h) PROVE LimitsInv'
  <2>1. UNCHANGED <<media, request>> /\ call[h].pc \in UploadSteps
    BY <1>5 DEF LockRequest, Rename, disk, UploadSteps
  <2>2. PICK pc \in {"locked", "renamed"} :
          /\ StepTo(h, pc)
          /\ pc = "locked" => ~Locked(call[h].request)
          /\ pc = "renamed" => /\ call[h].pc = "locked"
                               /\ WithinLimit(call[h].request, call[h].kind)
    BY <1>5 DEF LockRequest, Rename
  <2>3. /\ call'[h].pc = pc /\ call'[h].request = call[h].request /\ call'[h].kind = call[h].kind
        /\ \A i \in Handlers \ {h} : call'[i] = call[i]
    BY <1>a, <1>b, <2>1, <2>2, UploadGoesOn
  <2>4. LockIsExclusive'
    <3>1. \A r, kind : WithinLimit(r, kind)' <=> WithinLimit(r, kind)
      BY <2>1 DEF WithinLimit, MediaOf
    <3>2. \A i \in Handlers \ {h} :
            call[i].pc \in {"locked", "renamed"} => call[i].request # call[h].request
      BY <2>2 DEF LimitsInv, LockIsExclusive, Locked
    <3>3. \A i, j \in Handlers :
            /\ call'[i].pc \in {"locked", "renamed"} /\ call'[j].pc \in {"locked", "renamed"}
            /\ call'[i].request = call'[j].request
            => i = j
      BY <2>3, <3>2 DEF LimitsInv, LockIsExclusive
    <3>4. \A i \in Handlers :
            call'[i].pc = "renamed" => WithinLimit(call'[i].request, call'[i].kind)
      BY <2>2, <2>3 DEF LimitsInv, LockIsExclusive
    <3> QED BY <3>1, <3>3, <3>4 DEF LockIsExclusive
  <2> QED BY <2>1, <2>4 DEF LimitsInv, MediaHaveARequest, MediaWithinLimits, MediaOf
<1>6. ASSUME NEW h \in Handlers, CommitUpload(h) PROVE LimitsInv'
  <2> DEFINE c == call[h]
             row == [file |-> c.file, request |-> c.request, kind |-> c.kind]
  <2>1. /\ c.pc = "renamed" /\ c.pc \in UploadSteps /\ c \in Uploads
        /\ media' = media \cup {row}
        /\ request' = [request EXCEPT ![c.request] = [request[c.request] EXCEPT !.ready = TRUE]]
    BY <1>6, <1>a, CallKinds DEF CommitUpload, MakeReady, UploadSteps
  <2>2. /\ c.request \in Requests /\ c.kind \in Kinds
        /\ request[c.request] # None /\ request[c.request] \in RequestRows
    BY <1>a, <2>1 DEF TypeInv, TypeOK, UploadsHaveARequest, Uploads
  <2>3. /\ request'[c.request] \in RequestRows /\ request'[c.request] # None
        /\ request'[c.request].ready = TRUE
        /\ \A r \in Requests \ {c.request} : request'[r] = request[r]
    BY <1>a, <2>1, <2>2, NoRowAssumption DEF TypeOK, RequestRows
  <2>4. /\ call'[h].pc \notin {"locked", "renamed"}
        /\ \A i \in Handlers \ {h} : call'[i] = call[i]
    BY <1>6, <1>a, <1>b, <2>1, UploadGoesOn, CallEnds DEF CommitUpload, UploadSteps
  <2>5. /\ row.request = c.request /\ row.kind = c.kind
        /\ WithinLimit(c.request, c.kind)
        /\ \A i \in Handlers \ {h} : call[i].pc = "renamed" => call[i].request # c.request
    BY <2>1 DEF LimitsInv, LockIsExclusive
  <2> HIDE DEF c, row
  <2>6. \A r, kind : MediaOf(r, kind)' = IF r = c.request /\ kind = c.kind
                                          THEN MediaOf(r, kind) \cup {row}
                                          ELSE MediaOf(r, kind)
    BY <2>1, <2>5 DEF MediaOf
  <2>7. LockIsExclusive'
    BY <2>4, <2>5, <2>6 DEF LimitsInv, LockIsExclusive, WithinLimit
  <2>8. MediaHaveARequest'
    BY <1>a, <2>1, <2>3, <2>5 DEF LimitsInv, MediaHaveARequest, TypeOK, MediaRows
  <2>9. IsFiniteSet(media')
    BY <2>1, FS_AddElement DEF LimitsInv
  <2>10. ASSUME NEW r \in Requests
         PROVE  /\ Cardinality(MediaOf(r, "IMAGE"))' <= MaxImages
                /\ Cardinality(MediaOf(r, "VIDEO"))' <= 1
    <3>1. /\ Cardinality(MediaOf(r, "IMAGE")) <= MaxImages
          /\ Cardinality(MediaOf(r, "VIDEO")) <= 1
      BY DEF LimitsInv, MediaWithinLimits
    <3>2. IsFiniteSet(MediaOf(r, "IMAGE"))
      BY FS_Subset DEF LimitsInv, MediaOf
    <3>3. CASE r = c.request /\ c.kind = "IMAGE"
      <4> DEFINE before == MediaOf(r, "IMAGE")
      <4>1. Cardinality(before) \in Nat /\ Cardinality(before) < MaxImages
        BY <2>5, <3>2, <3>3, FS_CardinalityType DEF WithinLimit
      <4>2. \/ Cardinality(before \cup {row}) = Cardinality(before)
            \/ Cardinality(before \cup {row}) = Cardinality(before) + 1
        BY <3>2, FS_AddElement
      <4>3. MediaOf(r, "IMAGE")' = before \cup {row} /\ MediaOf(r, "VIDEO")' = MediaOf(r, "VIDEO")
        BY <2>6, <3>3
      <4> HIDE DEF before
      <4>4. Cardinality(before \cup {row}) <= MaxImages
        BY <4>1, <4>2, MaxImagesAssumption
      <4> QED BY <3>1, <4>3, <4>4
    <3>4. CASE r = c.request /\ c.kind = "VIDEO"
      <4>1. MediaOf(r, "VIDEO")' = {row} /\ MediaOf(r, "IMAGE")' = MediaOf(r, "IMAGE")
        BY <2>5, <2>6, <3>4 DEF WithinLimit
      <4>2. Cardinality({row}) = 1
        BY FS_Singleton
      <4> QED BY <3>1, <4>1, <4>2
    <3>5. CASE r # c.request
      BY <2>6, <3>1, <3>5
    <3> QED BY <2>2, <3>3, <3>4, <3>5 DEF Kinds
  <2>11. ASSUME NEW r \in Requests, request'[r] # None
         PROVE  request'[r].ready <=> \E m \in media' : m.request = r
    BY <2>1, <2>3, <2>5, <2>11 DEF LimitsInv, MediaWithinLimits
  <2>12. MediaWithinLimits'
    BY <2>10, <2>11 DEF MediaWithinLimits
  <2> QED BY <2>7, <2>8, <2>9, <2>12 DEF LimitsInv
<1>7. CASE UNCHANGED vars
  BY <1>7, NoLockTaken DEF vars
<1> QED BY <1>1, <1>2, <1>3, <1>4, <1>5, <1>6, <1>7 DEF Next

(* However uploads race, a request keeps to its limits, and it is ready     *)
(* exactly when it has a file.                                              *)
THEOREM LimitsAreKept == Spec => []MediaWithinLimits
<1>1. Init => LimitsInv
  <2> SUFFICES ASSUME Init PROVE LimitsInv
    OBVIOUS
  <2>1. media = {} /\ \A r, kind : MediaOf(r, kind) = {}
    BY DEF Init, MediaOf
  <2>2. LockIsExclusive /\ MediaHaveARequest
    BY <2>1 DEF Init, LockIsExclusive, MediaHaveARequest, Idle
  <2>3. MediaWithinLimits
    BY <2>1, FS_EmptySet, MaxImagesAssumption DEF Init, MediaWithinLimits
  <2> QED BY <2>1, <2>2, <2>3, FS_EmptySet DEF LimitsInv
<1>2. LimitsInv => MediaWithinLimits
  BY DEF LimitsInv
<1> QED BY <1>1, <1>2, TypeInvInitially, TypeInvIsInductive, LimitsInvIsInductive, PTL DEF Spec

-----------------------------------------------------------------------------
(* Repetitions.                                                             *)

(* Without Google an address is what was typed, in calls and in rows.       *)
AddressesAreTyped ==
    /\ \A h \in Handlers : call[h].pc \in CreationSteps => call[h].address = Typed(call[h].input)
    /\ \A r \in Requests : request[r] # None => request[r].address.text = "typed"

(* The row that the key names, were the input compared with it now.         *)
SameAsTyped(row, input) ==
    /\ row.offer = input.offer
    /\ row.address.place = input.place
    /\ row.address.pin = input.pin

(* Every answer told so far would be given again.                           *)
AnswersStand ==
    \A a \in told : \E r \in Requests :
      /\ request[r] # None /\ request[r].client = a.client /\ request[r].key = a.key
      /\ a.answer = IF SameAsTyped(request[r], a.input) THEN r ELSE "MISMATCH"

RepetitionInv == KeyInv /\ AddressesAreTyped /\ AnswersStand

LEMMA AddressesStay ==
    ASSUME KeyInv, AddressesAreTyped, UNCHANGED request,
           NEW h \in Handlers, NEW next, CallTo(h, next),
           next.pc \in CreationSteps => next.address = Typed(next.input)
    PROVE  AddressesAreTyped'
BY DEF KeyInv, TypeInv, TypeOK, AddressesAreTyped, CallTo, Typed

LEMMA AnswerStands ==
    ASSUME RepetitionInv, "fewer" \notin Pins,
           NEW h \in Handlers, call[h].pc \in CreationSteps,
           NEW r \in Filed(call[h]), AnswerFrom(h, r), UNCHANGED request
    PROVE  AddressesAreTyped' /\ AnswersStand'
<1> DEFINE c == call[h]
           new == [client |-> c.client, key |-> c.key, input |-> c.input,
                   answer |-> IF SamePayload(request[r], c) THEN r ELSE "MISMATCH"]
<1>1. c \in Creations /\ c.address = Typed(c.input) /\ c.input \in Inputs
  BY CallKinds DEF RepetitionInv, KeyInv, TypeInv, AddressesAreTyped, Creations
<1>2. told' = told \cup {new} /\ CallTo(h, Idle)
  BY DEF AnswerFrom, Answer
<1>3. /\ r \in Requests /\ request[r] # None /\ request[r] \in RequestRows
      /\ request[r].client = c.client /\ request[r].key = c.key
      /\ request[r].address.text = "typed"
  BY DEF Filed, RepetitionInv, KeyInv, TypeInv, TypeOK, AddressesAreTyped
<1>4. SamePayload(request[r], c) <=> SameAsTyped(request[r], c.input)
  <2>1. c.input.pin # "fewer" /\ c.address.pin = c.input.pin
        /\ c.address.place = c.input.place /\ c.address.text = "typed"
    BY <1>1 DEF Typed, Inputs
  <2>2. request[r].address.pin # "fewer"
    BY <1>3 DEF RequestRows, Addresses
  <2> QED BY <1>3, <2>1, <2>2 DEF SamePayload, SameAsTyped, FixedSix
<1>5. AddressesAreTyped'
  BY <1>2, AddressesStay DEF RepetitionInv, Idle, CreationSteps
<1>6. AnswersStand'
  BY <1>2, <1>3, <1>4 DEF RepetitionInv, AnswersStand, SameAsTyped
<1> QED BY <1>5, <1>6

LEMMA RepetitionInvIsInductive ==
    ASSUME ~Geocoder, "fewer" \notin Pins
    PROVE  RepetitionInv /\ [Next]_vars => RepetitionInv'
<1> SUFFICES ASSUME RepetitionInv, [Next]_vars PROVE AddressesAreTyped' /\ AnswersStand'
  BY KeyInvIsInductive DEF RepetitionInv
<1> DEFINE Good == AddressesAreTyped' /\ AnswersStand'
<1>0. Idle.pc \notin CreationSteps
  BY DEF Idle, CreationSteps
<1>1. ASSUME NEW o \in Offers, OfferChanges(o) PROVE Good
  BY <1>1 DEF OfferChanges, RepetitionInv, AddressesAreTyped, AnswersStand, SameAsTyped, Typed
<1>2. ASSUME NEW h \in Handlers, NEW client \in Clients, NEW key \in Keys,
             NEW input \in Inputs, Receive(h, client, key, input)
      PROVE  Good
  <2>1. CallTo(h, [pc |-> "lookup", client |-> client, key |-> key, input |-> input,
                   address |-> Typed(input)])
    BY <1>2 DEF Receive, Normalized
  <2>2. UNCHANGED <<request, told>>
    BY <1>2 DEF Receive
  <2> QED BY <2>1, <2>2, AddressesStay DEF RepetitionInv, AnswersStand, SameAsTyped
<1>3. ASSUME NEW h \in Handlers, Lookup(h) \/ Retry(h) PROVE Good
  <2>1. call[h].pc \in CreationSteps /\ UNCHANGED request
    BY <1>3 DEF Lookup, Retry, CreationSteps
  <2>2. CASE \E r \in Filed(call[h]) : AnswerFrom(h, r)
    BY <2>1, <2>2, AnswerStands
  <2>3. CASE StepTo(h, "rate") /\ UNCHANGED told
    <3> DEFINE next == [call[h] EXCEPT !.pc = "rate"]
    <3>1. next.address = Typed(next.input)
      BY <2>1, CallKinds DEF RepetitionInv, KeyInv, TypeInv, AddressesAreTyped, Creations, Typed
    <3> QED BY <2>1, <2>3, <3>1, AddressesStay
            DEF StepTo, RepetitionInv, AnswersStand, SameAsTyped
  <2> QED BY <1>3, <2>2, <2>3 DEF Lookup, Retry
<1>4. ASSUME NEW h \in Handlers, ReadRate(h) \/ Collide(h) PROVE Good
  <2>1. call[h].pc \in CreationSteps /\ UNCHANGED <<request, told>>
    BY <1>4 DEF ReadRate, Collide, CreationSteps
  <2>2. call[h] \in Creations /\ call[h].address = Typed(call[h].input)
    BY <2>1, CallKinds DEF RepetitionInv, KeyInv, TypeInv, AddressesAreTyped
  <2>3. PICK next : /\ CallTo(h, next)
                    /\ next.pc \in CreationSteps => next.address = Typed(next.input)
    <3>1. PICK next \in {Idle} \cup {[call[h] EXCEPT !.pc = pc] : pc \in CreationSteps} :
            CallTo(h, next)
      BY <1>4 DEF ReadRate, Collide, StepTo, CreationSteps
    <3>2. next # Idle => next.input = call[h].input /\ next.address = call[h].address
      BY <2>2, <3>1 DEF Creations
    <3> QED BY <1>0, <2>2, <3>1, <3>2
  <2>4. AddressesAreTyped'
    BY <2>1, <2>3, AddressesStay DEF RepetitionInv
  <2>5. AnswersStand'
    BY <2>1 DEF RepetitionInv, AnswersStand, SameAsTyped
  <2> QED BY <2>4, <2>5
<1>5. ASSUME NEW h \in Handlers, NEW r \in Requests, Create(h, r) PROVE Good
  <2> DEFINE c == call[h]
             row == [client |-> c.client, key |-> c.key, offer |-> c.input.offer,
                     address |-> c.address, ready |-> FALSE]
             new == [client |-> c.client, key |-> c.key, input |-> c.input, answer |-> r]
  <2>1. c \in Creations /\ c.address = Typed(c.input)
    BY <1>5, CallKinds
       DEF Create, RepetitionInv, KeyInv, TypeInv, AddressesAreTyped, CreationSteps
  <2>2. row \in RequestRows
    BY <2>1 DEF Creations, RequestRows, Inputs
  <2>3. /\ request[r] = None /\ row # None
        /\ request'[r] = row
        /\ \A s \in Requests \ {r} : request'[s] = request[s]
        /\ told' = told \cup {new}
        /\ call' = [call EXCEPT ![h] = Idle]
    BY <1>5, <2>2, NoRowAssumption
       DEF Create, Answer, CallTo, RepetitionInv, KeyInv, TypeInv, TypeOK
  <2>4. SameAsTyped(row, c.input) /\ row.address.text = "typed"
        /\ row.client = c.client /\ row.key = c.key
    BY <2>1 DEF SameAsTyped, Typed
  <2> HIDE DEF row
  <2>5. AddressesAreTyped'
    <3>1. call'[h].pc \notin CreationSteps /\ \A i \in Handlers \ {h} : call'[i] = call[i]
      BY <1>0, <2>3 DEF RepetitionInv, KeyInv, TypeInv, TypeOK
    <3>2. \A s \in Requests : request'[s] # None => request'[s].address.text = "typed"
      BY <2>3, <2>4 DEF RepetitionInv, AddressesAreTyped
    <3> QED BY <3>1, <3>2 DEF RepetitionInv, AddressesAreTyped, Typed
  <2>6. AnswersStand'
    <3> SUFFICES ASSUME NEW a \in told'
                 PROVE  \E s \in Requests :
                          /\ request'[s] # None
                          /\ request'[s].client = a.client /\ request'[s].key = a.key
                          /\ a.answer = IF SameAsTyped(request'[s], a.input) THEN s
                                                                             ELSE "MISMATCH"
      BY DEF AnswersStand, SameAsTyped
    <3>1. CASE a \in told
      BY <2>3, <3>1 DEF RepetitionInv, AnswersStand
    <3>2. CASE a = new
      BY <2>3, <2>4, <3>2
    <3> QED BY <2>3, <3>1, <3>2
  <2> QED BY <2>5, <2>6
<1>6. ASSUME NEW h \in Handlers,
             \/ \E r \in Requests, kind \in Kinds, f \in Files : Upload(h, r, kind, f)
             \/ LockRequest(h) \/ Rename(h) \/ UploadFails(h) \/ Cleanup(h) \/ CallDies(h)
      PROVE  Good
  <2>1. UNCHANGED <<request, told>>
    BY <1>6 DEF Upload, LockRequest, Rename, UploadFails, Cleanup, CallDies
  <2>2. PICK next : CallTo(h, next) /\ next.pc \notin CreationSteps
    BY <1>6, UploadsAreNoCreations DEF RepetitionInv, KeyInv
  <2> QED BY <2>1, <2>2, AddressesStay DEF RepetitionInv, AnswersStand, SameAsTyped
<1>7. ASSUME NEW h \in Handlers, CommitUpload(h) PROVE Good
  <2> DEFINE c == call[h]
  <2>1. c \in Uploads /\ request[c.request] # None /\ c.request \in Requests
    BY <1>7, CallKinds
       DEF CommitUpload, RepetitionInv, KeyInv, TypeInv, UploadsHaveARequest, UploadSteps, Uploads
  <2>2. request[c.request] \in RequestRows
    BY <2>1 DEF RepetitionInv, KeyInv, TypeInv, TypeOK
  <2>3. /\ UNCHANGED told
        /\ request' = [request EXCEPT ![c.request] = [request[c.request] EXCEPT !.ready = TRUE]]
    BY <1>7 DEF CommitUpload, MakeReady
  <2>4. [request[c.request] EXCEPT !.ready = TRUE] # None
    BY <2>2, NoRowAssumption DEF RequestRows
  <2>5. \A r \in Requests :
          /\ request'[r] # None <=> request[r] # None
          /\ request[r] # None =>
               /\ request'[r].client = request[r].client /\ request'[r].key = request[r].key
               /\ request'[r].offer = request[r].offer
               /\ request'[r].address = request[r].address
    BY <2>1, <2>2, <2>3, <2>4 DEF RepetitionInv, KeyInv, TypeInv, TypeOK, RequestRows
  <2>6. AnswersStand'
    BY <2>3, <2>5 DEF RepetitionInv, AnswersStand, SameAsTyped
  <2>7. PICK next : CallTo(h, next) /\ next.pc \notin CreationSteps
    BY <1>0, <1>7, <2>1 DEF CommitUpload, StepTo, Uploads, CreationSteps
  <2>8. AddressesAreTyped'
    BY <2>5, <2>7 DEF RepetitionInv, KeyInv, TypeInv, TypeOK, AddressesAreTyped, CallTo, Typed
  <2> QED BY <2>6, <2>8
<1>8. CASE UNCHANGED vars
  BY <1>8 DEF vars, RepetitionInv, AddressesAreTyped, AnswersStand, SameAsTyped, Typed
<1> QED BY <1>1, <1>2, <1>3, <1>4, <1>5, <1>6, <1>7, <1>8 DEF Next

(* Without Google, and with coordinates of six decimals, a repetition is    *)
(* answered as the first time.                                              *)
THEOREM RepetitionsAgree ==
    ASSUME ~Geocoder, "fewer" \notin Pins
    PROVE  Spec => []RepetitionIsAnswered
<1>1. Init => RepetitionInv
  BY TypeInvInitially
     DEF Init, RepetitionInv, KeyInv, PlacesAreKept, OneRequestPerKey, AddressesAreTyped,
         AnswersStand, Idle, CreationSteps
<1>2. RepetitionInv => RepetitionIsAnswered
  BY DEF RepetitionInv, KeyInv, OneRequestPerKey, AnswersStand, RepetitionIsAnswered
<1>3. RepetitionInv /\ [Next]_vars => RepetitionInv'
  BY RepetitionInvIsInductive
<1> QED BY <1>1, <1>2, <1>3, PTL DEF Spec

=============================================================================
