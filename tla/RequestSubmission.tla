------------------------- MODULE RequestSubmission -------------------------
(***************************************************************************)
(* apps/customer-web/app/request-form.tsx and the proxies of               *)
(* app/api/requests: creating a request, attaching evidence to it, and     *)
(* trying again when no answer came.  A body stands for all that is typed; *)
(* keys are numbered as the form draws them.  The API is what module       *)
(* Requests shows it to be: a request per key, a repetition answered, a    *)
(* different body under the same key refused.                              *)
(*                                                                         *)
(* submit is the action of the form, which React runs as a transition: it  *)
(* shows what submit sets before its first await only when submit ends, so *)
(* a submit under way disables no button.  retryEvidence is a plain        *)
(* handler and disables both.                                              *)
(***************************************************************************)
EXTENDS Naturals

CONSTANTS Tries,     \* submits and retries under way at the same time
          Bodies,
          MaxKeys,   \* bound on the keys the form draws
          None

VARIABLES key,         \* idempotencyKey
          drawn,       \* keys drawn
          shown,       \* createdRequestId: the key of the request, or None
          attached,    \* evidenceAttached
          submitting,  \* as React shows it
          request,     \* request[k]: body of the request created under k, or None
          stored,      \* requests the API holds evidence of
          try,         \* try[t]: where a submit or a retry stands
          answered,    \* history: requests whose creation was answered
          thrown,      \* history: the uploads after the last creation threw
          overlapped,  \* history: two tries of this page were under way together
          left         \* history: keys whose page was left

vars == <<key, drawn, shown, attached, submitting, request, stored, try, answered, thrown,
          overlapped, left>>

Drawn == 1..MaxKeys
Idle == [pc |-> "idle"]
Submits == [pc : {"sent", "created", "failed"}, key : Drawn, body : Bodies, files : BOOLEAN]
Uploads == [pc : {"upload", "again"}, request : Drawn, files : BOOLEAN]

Under(t, next) == try' = [try EXCEPT ![t] = next]
StepTo(t, pc) == Under(t, [try[t] EXCEPT !.pc = pc])
Begin(t, next) ==
    /\ try[t] = Idle
    /\ Under(t, next)
    /\ overlapped' = (overlapped \/ \E u \in Tries \ {t} : try[u] # Idle)

Init ==
    /\ key = 1 /\ drawn = 1
    /\ shown = None
    /\ attached = FALSE
    /\ submitting = FALSE
    /\ request = [k \in Drawn |-> None]
    /\ stored = {}
    /\ try = [t \in Tries |-> Idle]
    /\ answered = {}
    /\ thrown = FALSE
    /\ overlapped = FALSE
    /\ left = {}

-----------------------------------------------------------------------------
(* submit, past its validations: files says whether any was chosen.         *)
Submit(t, body, files) ==
    /\ ~submitting
    /\ Begin(t, [pc |-> "sent", key |-> key, body |-> body, files |-> files])
    /\ UNCHANGED <<key, drawn, shown, attached, submitting, request, stored, answered, thrown, left>>

(* The API serves the call; the answer may be lost between it, the proxy    *)
(* and the page, which makes it a failure.                                  *)
Serve(t) ==
    LET c == try[t]
    IN  /\ c.pc = "sent"
        /\ \/ /\ request[c.key] = None
              /\ request' = [request EXCEPT ![c.key] = c.body]
              /\ StepTo(t, "created") \/ StepTo(t, "failed")
           \/ /\ request[c.key] = c.body
              /\ StepTo(t, "created") \/ StepTo(t, "failed")
              /\ UNCHANGED request
           \/ /\ request[c.key] \notin {None, c.body}
              /\ StepTo(t, "failed")
              /\ UNCHANGED request
        /\ UNCHANGED <<key, drawn, shown, attached, submitting, stored, answered, thrown, overlapped, left>>

(* No session, no token, no connection, or a body the API does not take.    *)
NotServed(t) ==
    /\ try[t].pc = "sent"
    /\ StepTo(t, "failed")
    /\ UNCHANGED <<key, drawn, shown, attached, submitting, request, stored, answered,
                   thrown, overlapped, left>>

DrawKey == drawn < MaxKeys /\ drawn' = drawn + 1 /\ key' = drawn + 1

Created(t) ==
    LET c == try[t]
    IN  /\ c.pc = "created"
        /\ DrawKey
        /\ shown' = c.key
        /\ answered' = answered \cup {c.key}
        /\ thrown' = FALSE
        /\ Under(t, [pc |-> "upload", request |-> c.key, files |-> c.files])
        /\ UNCHANGED <<attached, submitting, request, stored, overlapped, left>>

(* The key stays, for the next attempt.                                     *)
NotCreated_DrawsKey(t) ==   \* mutant
    /\ try[t].pc = "failed"
    /\ DrawKey
    /\ Under(t, Idle)
    /\ submitting' = FALSE
    /\ UNCHANGED <<shown, attached, request, stored, answered, thrown, overlapped, left>>
NotCreated(t) ==
    /\ try[t].pc = "failed"
    /\ Under(t, Idle)
    /\ submitting' = FALSE
    /\ UNCHANGED <<key, drawn, shown, attached, request, stored, answered, thrown, overlapped, left>>

-----------------------------------------------------------------------------
(* uploadEvidence: every file is sent; some may be stored and not answered, *)
(* or refused.  all: each was answered as stored; thrown: one call failed   *)
(* altogether, which ends in the catch clause.                              *)
Stored(t, all) ==
    \/ all /\ stored' = IF try[t].files THEN stored \cup {try[t].request} ELSE stored
    \/ ~all /\ try[t].files /\ (stored' = stored \/ stored' = stored \cup {try[t].request})

Attach(t, all) == attached' = (try[t].files /\ all)

Uploaded(t, all) ==
    /\ try[t].pc = "upload"
    /\ Stored(t, all)
    /\ Attach(t, all)
    /\ Under(t, Idle)
    /\ submitting' = FALSE
    /\ UNCHANGED <<key, drawn, shown, request, answered, thrown, overlapped, left>>

UploadThrown(t) ==
    /\ try[t].pc = "upload"
    /\ Stored(t, FALSE)
    /\ Under(t, Idle)
    /\ submitting' = FALSE
    /\ thrown' = TRUE
    /\ UNCHANGED <<key, drawn, shown, attached, request, answered, overlapped, left>>

(* retryEvidence, of the request the form shows, with files chosen anew.    *)
RetryEvidence(t) ==
    /\ shown # None /\ ~attached /\ ~submitting
    /\ Begin(t, [pc |-> "again", request |-> shown, files |-> TRUE])
    /\ submitting' = TRUE
    /\ UNCHANGED <<key, drawn, shown, attached, request, stored, answered, thrown, left>>

(* Its uploads end, also in the catch clause.                               *)
Retried_FlagStays(t, all) ==   \* mutant
    /\ try[t].pc = "again"
    /\ Stored(t, all)
    /\ attached' = (attached \/ all)
    /\ Under(t, Idle)
    /\ submitting' = (submitting /\ ~all)
    /\ UNCHANGED <<key, drawn, shown, request, answered, thrown, overlapped, left>>
Retried(t, all) ==
    /\ try[t].pc = "again"
    /\ Stored(t, all)
    /\ attached' = (attached \/ all)
    /\ Under(t, Idle)
    /\ submitting' = FALSE
    /\ UNCHANGED <<key, drawn, shown, request, answered, thrown, overlapped, left>>

(* The page is left, or loaded anew: its state is gone, and with it the key *)
(* and what was to be done with the answers.  What the API still does with  *)
(* the calls under way is done here: no later one has their keys.           *)
UnderWay(t, pc) == try[t] # Idle /\ try[t].pc = pc
Served(k) == {try[t].body : t \in {t \in Tries : UnderWay(t, "sent") /\ try[t].key = k}}
Storing == {try[t].request : t \in {t \in Tries : /\ UnderWay(t, "upload") \/ UnderWay(t, "again")
                                                 /\ try[t].files}}

Reload ==
    /\ DrawKey
    /\ request' \in {r \in [Drawn -> Bodies \cup {None}] :
                      \A k \in Drawn : r[k] = request[k] \/ (request[k] = None /\ r[k] \in Served(k))}
    /\ \E more \in SUBSET Storing : stored' = stored \cup more
    /\ shown' = None /\ attached' = FALSE /\ submitting' = FALSE
    /\ try' = [t \in Tries |-> Idle]
    /\ left' = IF overlapped THEN 1..drawn ELSE left \cup {key}
    /\ thrown' = FALSE /\ overlapped' = FALSE
    /\ UNCHANGED answered

Ends(t) ==
    \/ Serve(t) \/ NotServed(t) \/ Created(t) \/ NotCreated(t) \/ UploadThrown(t)
    \/ \E all \in BOOLEAN : Uploaded(t, all) \/ Retried(t, all)

Next ==
    \/ \E t \in Tries :
         \/ \E body \in Bodies, files \in BOOLEAN : Submit(t, body, files)
         \/ RetryEvidence(t)
         \/ Ends(t)
    \/ Reload

Spec == Init /\ [][Next]_vars

(* The browser answers every call, with an error when there is no answer.   *)
Fairness == \A t \in Tries : WF_vars(Ends(t))
FairSpec == Spec /\ Fairness

-----------------------------------------------------------------------------
(* Properties.                                                              *)

TypeOK ==
    /\ key \in Drawn /\ drawn \in Drawn
    /\ shown \in Drawn \cup {None}
    /\ attached \in BOOLEAN /\ submitting \in BOOLEAN
    /\ thrown \in BOOLEAN /\ overlapped \in BOOLEAN
    /\ request \in [Drawn -> Bodies \cup {None}]
    /\ stored \subseteq Drawn /\ answered \subseteq Drawn /\ left \subseteq Drawn
    /\ try \in [Tries -> {Idle} \cup Submits \cup Uploads]

(* feat-004 evidence, "la clave permanece estable durante el intento y se   *)
(* renueva después de crear correctamente": however often a submit failed   *)
(* or its answer was lost, no request exists but those the client was told  *)
(* of and the one the next submit repeats.  It takes two submits at once to *)
(* leave another behind, as the late answer of one renews the key of the    *)
(* other, or a page that is left with the key of a submit whose answer was  *)
(* lost.                                                                    *)
OneRequestPerAttempt ==
    overlapped \/ \A k \in Drawn : request[k] # None => k \in answered \cup left \cup {key}

(* "la solicitud quedó operable": what the form says of the request it      *)
(* shows is so on the API.  It forgets the request before only when the     *)
(* uploads of the new one have answered: until then, or when they throw,    *)
(* or when two tries overlap, it says of one what is true of another.       *)
AttachedIsStored ==
    attached => \/ shown \in stored
                \/ overlapped \/ thrown \/ \E t \in Tries : try[t].pc = "upload"

(* Whatever the calls answer, the buttons come back.                        *)
ButtonsComeBack == submitting ~> ~submitting

=============================================================================
