------------------------------ MODULE Requests ------------------------------
(***************************************************************************)
(* apps/api/src/requests: a client files a request with an address, under  *)
(* an idempotency key, and uploads images and a video for it; the first    *)
(* one makes the request ready for operation.                              *)
(*                                                                         *)
(* A body is an offer and an address: a place and perhaps a pin, whose     *)
(* coordinates are written with six decimals or with fewer.  Description,  *)
(* which is compared as the offer is, prices and the audit row before an   *)
(* answer are left out.  The handlers of uploads belong to different       *)
(* processes: within one process a chain of promises runs the uploads of a *)
(* request one after the other, which is less than is allowed here.        *)
(***************************************************************************)
EXTENDS Naturals, FiniteSets

CONSTANTS Handlers,   \* concurrent calls
          Clients, Keys, Requests, Offers, Places,
          Pins,       \* how a body may give its coordinates, among None, "six", "fewer"
          Geocoder,   \* is a key for Google's geocoder configured
          Files,      \* names of uploaded files
          MaxImages,  \* 5 in the code
          None

ASSUME PinsAssumption == Pins \subseteq {None, "six", "fewer"}
ASSUME GeocoderAssumption == Geocoder \in BOOLEAN
ASSUME MaxImagesAssumption == MaxImages \in Nat

VARIABLES offered,     \* offers with a rate in force
          request,     \* request[r]: service_request row with its address, or None
          media,       \* rows of request_media
          temporary,   \* files under .tmp
          final,       \* files under objects
          told,        \* answers to create, equal ones counted once
          stopped,     \* files of uploads whose process stopped
          unanswered,  \* files whose transaction committed without an answer
          call         \* call[h]: where a call stands

disk == <<temporary, final, stopped, unanswered>>
vars == <<offered, request, media, disk, told, call>>

-----------------------------------------------------------------------------
(* Rows and records.                                                        *)

Inputs == [offer : Offers, place : Places, pin : Pins]
Addresses == [place : Places, text : {"typed", "geocoded"}, pin : Pins \cup {"found"}]
RequestRows == [client : Clients, key : Keys, offer : Offers, address : Addresses,
                ready : BOOLEAN]
Kinds == {"IMAGE", "VIDEO"}
MediaRows == [file : Files, request : Requests, kind : Kinds]
ASSUME NoRowAssumption == None \notin RequestRows
Answers == [client : Clients, key : Keys, input : Inputs,
            answer : Requests \cup {"MISMATCH"}]

Idle == [pc |-> "idle"]
Creations == [pc : {"lookup", "rate", "insert", "retry"}, client : Clients, key : Keys,
              input : Inputs, address : Addresses]
Uploads == [pc : {"stream", "locked", "renamed", "cleanup"}, request : Requests,
            file : Files, kind : Kinds]

-----------------------------------------------------------------------------
(* The normaliser answers with what Google found, its coordinates in six    *)
(* decimals, or, on any trouble, with what was typed.                       *)
Typed(input) == [place |-> input.place, text |-> "typed", pin |-> input.pin]
Found(input) == [place |-> input.place, text |-> "geocoded", pin |-> "found"]
Normalized(input) == {Typed(input)} \cup (IF Geocoder THEN {Found(input)} ELSE {})

(* Decimal.toFixed(6), applied to the stored coordinates and not to the     *)
(* given ones.                                                              *)
FixedSix(pin) == IF pin = "fewer" THEN "six" ELSE pin

SamePayload_OfferOnly(row, c) == row.offer = c.input.offer   \* mutant
SamePayload(row, c) ==
    /\ row.offer = c.input.offer
    /\ row.address.place = c.address.place
    /\ row.address.text = c.address.text
    /\ FixedSix(row.address.pin) = c.address.pin

(* Unique index on client and idempotency key.                              *)
Filed(c) == {r \in Requests : request[r] # None /\ request[r].client = c.client
                                                /\ request[r].key = c.key}
KeyTaken_NoIndex(c) == FALSE   \* mutant
KeyTaken(c) == Filed(c) # {}

MediaOf(r, kind) == {m \in media : m.request = r /\ m.kind = kind}
WithinLimit(r, kind) == IF kind = "IMAGE" THEN Cardinality(MediaOf(r, kind)) < MaxImages
                                          ELSE MediaOf(r, kind) = {}

(* SELECT ... FOR UPDATE: the request's row is locked to the end of the     *)
(* transaction of whoever has it.                                           *)
Locked_NoLock(r) == FALSE   \* mutant
Locked(r) == \E h \in Handlers : call[h].pc \in {"locked", "renamed"} /\ call[h].request = r

-----------------------------------------------------------------------------
Init ==
    /\ offered = Offers
    /\ request = [r \in Requests |-> None]
    /\ media = {}
    /\ temporary = {} /\ final = {} /\ stopped = {} /\ unanswered = {}
    /\ told = {}
    /\ call = [h \in Handlers |-> Idle]

(* The catalog publishes and retires rates.                                 *)
OfferChanges(o) ==
    /\ offered' = IF o \in offered THEN offered \ {o} ELSE offered \cup {o}
    /\ UNCHANGED <<request, media, disk, told, call>>

-----------------------------------------------------------------------------
(* create.                                                                  *)

CallTo(h, next) == call' = [call EXCEPT ![h] = next]
StepTo(h, pc) == CallTo(h, [call[h] EXCEPT !.pc = pc])

Receive(h, client, key, input) ==
    /\ call[h] = Idle
    /\ \E address \in Normalized(input) :
         CallTo(h, [pc |-> "lookup", client |-> client, key |-> key, input |-> input,
                    address |-> address])
    /\ UNCHANGED <<offered, request, media, disk, told>>

Answer(h, answer) ==
    /\ told' = told \cup {[client |-> call[h].client, key |-> call[h].key,
                           input |-> call[h].input, answer |-> answer]}
    /\ CallTo(h, Idle)

AnswerFrom(h, r) ==
    Answer(h, IF SamePayload(request[r], call[h]) THEN r ELSE "MISMATCH")

Lookup(h) ==
    /\ call[h].pc = "lookup"
    /\ \/ \E r \in Filed(call[h]) : AnswerFrom(h, r)
       \/ Filed(call[h]) = {} /\ StepTo(h, "rate") /\ UNCHANGED told
    /\ UNCHANGED <<offered, request, media, disk>>

(* OFFER_NOT_AVAILABLE, or go on with the rate that was read.               *)
ReadRate(h) ==
    /\ call[h].pc = "rate"
    /\ IF call[h].input.offer \in offered THEN StepTo(h, "insert") ELSE CallTo(h, Idle)
    /\ UNCHANGED <<offered, request, media, disk, told>>

Create(h, r) ==
    LET c == call[h]
    IN  /\ c.pc = "insert" /\ ~KeyTaken(c)
        /\ request[r] = None
        /\ request' = [request EXCEPT ![r] =
             [client |-> c.client, key |-> c.key, offer |-> c.input.offer,
              address |-> c.address, ready |-> FALSE]]
        /\ Answer(h, r)
        /\ UNCHANGED <<offered, media, disk>>

Collide(h) ==
    /\ call[h].pc = "insert" /\ KeyTaken(call[h])
    /\ StepTo(h, "retry")
    /\ UNCHANGED <<offered, request, media, disk, told>>

(* A collision answers with the row of the call that was first.             *)
Retry(h) ==
    /\ call[h].pc = "retry"
    /\ \E r \in Filed(call[h]) : AnswerFrom(h, r)
    /\ UNCHANGED <<offered, request, media, disk>>

-----------------------------------------------------------------------------
(* upload, by the request's client.                                         *)

Upload(h, r, kind, f) ==
    /\ call[h] = Idle
    /\ request[r] # None
    /\ f \notin temporary \cup final \cup {m.file : m \in media}
    /\ temporary' = temporary \cup {f}
    /\ CallTo(h, [pc |-> "stream", request |-> r, file |-> f, kind |-> kind])
    /\ UNCHANGED <<offered, request, media, final, stopped, unanswered, told>>

(* The stream has ended and its content is valid: the transaction starts.   *)
LockRequest(h) ==
    /\ call[h].pc = "stream"
    /\ ~Locked(call[h].request)
    /\ StepTo(h, "locked")
    /\ UNCHANGED <<offered, request, media, disk, told>>

Rename(h) ==
    /\ call[h].pc = "locked"
    /\ WithinLimit(call[h].request, call[h].kind)
    /\ temporary' = temporary \ {call[h].file}
    /\ final' = final \cup {call[h].file}
    /\ StepTo(h, "renamed")
    /\ UNCHANGED <<offered, request, media, stopped, unanswered, told>>

MakeReady(r) == request' = [request EXCEPT ![r].ready = TRUE]

(* The commit of the row and of the request's completeness, with its answer *)
(* or, when the connection is lost just then, without.                      *)
CommitUpload(h) ==
    LET c == call[h]
    IN  /\ c.pc = "renamed"
        /\ media' = media \cup {[file |-> c.file, request |-> c.request, kind |-> c.kind]}
        /\ MakeReady(c.request)
        /\ \/ CallTo(h, Idle) /\ UNCHANGED unanswered
           \/ StepTo(h, "cleanup") /\ unanswered' = unanswered \cup {c.file}
        /\ UNCHANGED <<offered, temporary, final, stopped, told>>

(* A refused content, the limit, or any error before the commit.            *)
UploadFails(h) ==
    /\ call[h].pc \in {"stream", "locked", "renamed"}
    /\ StepTo(h, "cleanup")
    /\ UNCHANGED <<offered, request, media, disk, told>>

Cleanup_TemporaryOnly(h) ==   \* mutant
    /\ call[h].pc = "cleanup"
    /\ temporary' = temporary \ {call[h].file}
    /\ CallTo(h, Idle)
    /\ UNCHANGED <<offered, request, media, final, stopped, unanswered, told>>
Cleanup(h) ==
    /\ call[h].pc = "cleanup"
    /\ temporary' = temporary \ {call[h].file}
    /\ final' = final \ {call[h].file}
    /\ CallTo(h, Idle)
    /\ UNCHANGED <<offered, request, media, stopped, unanswered, told>>

-----------------------------------------------------------------------------
(* The process stops, or a statement of create fails.                       *)
CallDies(h) ==
    /\ call[h] # Idle
    /\ stopped' = IF call[h] \in Uploads THEN stopped \cup {call[h].file} ELSE stopped
    /\ CallTo(h, Idle)
    /\ UNCHANGED <<offered, request, media, temporary, final, unanswered, told>>

Next ==
    \/ \E o \in Offers : OfferChanges(o)
    \/ \E h \in Handlers :
         \/ \E client \in Clients, key \in Keys, input \in Inputs :
              Receive(h, client, key, input)
         \/ Lookup(h) \/ ReadRate(h) \/ Collide(h) \/ Retry(h)
         \/ \E r \in Requests : Create(h, r)
         \/ \E r \in Requests, kind \in Kinds, f \in Files : Upload(h, r, kind, f)
         \/ LockRequest(h) \/ Rename(h) \/ CommitUpload(h)
         \/ UploadFails(h) \/ Cleanup(h) \/ CallDies(h)

Spec == Init /\ [][Next]_vars

-----------------------------------------------------------------------------
(* Properties.                                                              *)

TypeOK ==
    /\ offered \subseteq Offers
    /\ request \in [Requests -> RequestRows \cup {None}]
    /\ media \subseteq MediaRows
    /\ temporary \subseteq Files /\ final \subseteq Files
    /\ stopped \subseteq Files /\ unanswered \subseteq Files
    /\ told \subseteq Answers
    /\ call \in [Handlers -> {Idle} \cup Creations \cup Uploads]

(* feat-004 AC-004-001: however many creations race, a client's key names   *)
(* one request, and whoever is answered with a request sent it with that    *)
(* offer and that place.                                                    *)
OneRequestPerKey ==
    /\ \A r, s \in Requests :
         request[r] # None /\ request[s] # None
         /\ request[r].client = request[s].client /\ request[r].key = request[s].key
         => r = s
    /\ \A a \in told : a.answer # "MISMATCH" =>
         /\ request[a.answer] # None
         /\ request[a.answer].client = a.client /\ request[a.answer].key = a.key
         /\ request[a.answer].offer = a.input.offer
         /\ request[a.answer].address.place = a.input.place

(* feat-004 NFR-004-001: the same client, key and payload always get the    *)
(* same answer, also when the offer has been retired, when creations        *)
(* collide and when the first answer was lost.                              *)
RepetitionIsAnswered ==
    \A a, b \in told :
      a.client = b.client /\ a.key = b.key /\ a.input = b.input => a.answer = b.answer

(* feat-004 REQ-004-003 and design, consistency: however many uploads race, *)
(* a request keeps to its images and its one video, and is ready for        *)
(* operation exactly when it has one of them.                               *)
MediaWithinLimits ==
    \A r \in Requests :
      /\ Cardinality(MediaOf(r, "IMAGE")) <= MaxImages
      /\ Cardinality(MediaOf(r, "VIDEO")) <= 1
      /\ request[r] # None =>
           (request[r].ready <=> \E m \in media : m.request = r)

(* feat-004 design, security: errors are cleaned up.  A file without a row  *)
(* belongs to an upload that goes on or whose process stopped, and a row    *)
(* without a file only to one that committed and was not answered, which    *)
(* the clean up takes for an error.                                         *)
FilesAndRowsAgree ==
    /\ \A f \in temporary \cup final :
         \/ \E m \in media : m.file = f
         \/ \E h \in Handlers : call[h] \in Uploads /\ call[h].file = f
         \/ f \in stopped
    /\ \A m \in media : m.file \in final \cup unanswered

=============================================================================
