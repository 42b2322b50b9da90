--------------------------- MODULE AftercarePanel ---------------------------
(***************************************************************************)
(* The Aftercare part of apps/customer-web/app/customer-requests.tsx, with *)
(* the proxies of its rating and its incidents: what a client is shown of  *)
(* a closed order, and the forms to rate it and to open an incident.  The  *)
(* panel loads again whenever the page has, without waiting for what is    *)
(* under way, and adds to its list what its own calls answer.              *)
(*                                                                         *)
(* The API is what module Aftercare shows it to be: one rating, one active *)
(* incident, both of them kept.  An incident is active until it is closed. *)
(***************************************************************************)
EXTENDS Sequences, FiniteSets, Naturals

CONSTANTS Loads,          \* loads of the panel under way at the same time
          MaxIncidents,   \* bound on the incidents of the order
          None

VARIABLES rating,      \* the API has a rating of the order
          incident,    \* its incidents on the API, in order: is each active?
          rated,       \* what the panel shows: the rating is there
          incidents,   \*   its list, newest first
          submitting,  \*   the form whose call is under way, or None
          call,        \* where that call stands
          load,        \* load[l]: where a load stands
          crossed      \* history: the list was loaded while an incident was being opened

vars == <<rating, incident, rated, incidents, submitting, call, load, crossed>>
panel == <<rated, incidents, submitting, call, load, crossed>>

Entries == [id : 1..MaxIncidents, active : BOOLEAN]
Listed == [i \in 1..Len(incident) |->
             LET id == Len(incident) + 1 - i IN [id |-> id, active |-> incident[id]]]

Idle == [pc |-> "idle"]
NotYet == "not yet"
Begun == [pc |-> "sent", rating |-> NotYet, list |-> NotYet, items |-> <<>>, late |-> FALSE]
Rated(items) == [Begun EXCEPT !.pc = "rated", !.items = items]
StepTo(l, next) == load' = [load EXCEPT ![l] = next]
AllLate == [l \in Loads |-> IF load[l].pc # "sent" THEN load[l] ELSE [load[l] EXCEPT !.late = TRUE]]

Init ==
    /\ rating = FALSE /\ incident = <<>>
    /\ rated = FALSE /\ incidents = <<>>
    /\ submitting = None
    /\ call = Idle
    /\ load = [l \in Loads |-> Idle]
    /\ crossed = FALSE

-----------------------------------------------------------------------------
(* Another page of the client, or an operator.                              *)
NoneActive == \A i \in 1..Len(incident) : ~incident[i]
Opens == Len(incident) < MaxIncidents /\ incident' = Append(incident, TRUE)

OthersMove ==
    /\ \/ ~rating /\ rating' = TRUE /\ UNCHANGED incident
       \/ NoneActive /\ Opens /\ UNCHANGED rating
       \/ /\ \E i \in 1..Len(incident) : incident[i] /\ incident' = [incident EXCEPT ![i] = FALSE]
          /\ UNCHANGED rating
    /\ UNCHANGED panel

-----------------------------------------------------------------------------
(* The effect that loads: two calls side by side, each answered, refused    *)
(* or not answered at all.                                                  *)
Load(l) ==
    /\ load[l] = Idle
    /\ StepTo(l, Begun)
    /\ UNCHANGED <<rating, incident, rated, incidents, submitting, call, crossed>>

ServeRating(l) ==
    /\ load[l].pc = "sent" /\ load[l].rating = NotYet
    /\ \/ StepTo(l, [load[l] EXCEPT !.rating = IF rating THEN "found" ELSE "none"])
       \/ StepTo(l, [load[l] EXCEPT !.rating = "refused"])
    /\ UNCHANGED <<rating, incident, rated, incidents, submitting, call, crossed>>

ServeIncidents(l) ==
    /\ load[l].pc = "sent" /\ load[l].list = NotYet
    /\ \/ StepTo(l, [load[l] EXCEPT !.list = "found", !.items = Listed])
       \/ StepTo(l, [load[l] EXCEPT !.list = "refused"])
    /\ UNCHANGED <<rating, incident, rated, incidents, submitting, call, crossed>>

(* Both are answered: the rating is shown at once, the list, if there is    *)
(* one, when its body has been read.                                        *)
RatingLoaded(l) ==
    /\ load[l].pc = "sent" /\ load[l].rating # NotYet /\ load[l].list # NotYet
    /\ rated' = (load[l].rating = "found")
    /\ load' = IF load[l].list = "found" THEN [AllLate EXCEPT ![l] = Rated(load[l].items)]
                                         ELSE [AllLate EXCEPT ![l] = Idle]
    /\ UNCHANGED <<rating, incident, incidents, submitting, call, crossed>>

IncidentsLoaded(l) ==
    /\ load[l].pc = "rated"
    /\ incidents' = load[l].items
    /\ crossed' = (submitting = "incident")
    /\ StepTo(l, Idle)
    /\ UNCHANGED <<rating, incident, rated, submitting, call>>

NotLoaded(l) ==
    /\ load[l].pc \in {"sent", "rated"}
    /\ StepTo(l, Idle)
    /\ UNCHANGED <<rating, incident, rated, incidents, submitting, call, crossed>>

-----------------------------------------------------------------------------
(* rate and openIncident: one form at a time; the second is closed while    *)
(* the list has an incident that is not.                                    *)
Rate ==
    /\ ~rated /\ submitting = None
    /\ submitting' = "rating"
    /\ call' = [pc |-> "sent"]
    /\ UNCHANGED <<rating, incident, rated, incidents, load, crossed>>

MayOpen == \A i \in 1..Len(incidents) : ~incidents[i].active

OpenIncident ==
    /\ MayOpen /\ submitting = None
    /\ submitting' = "incident"
    /\ call' = [pc |-> "sent"]
    /\ UNCHANGED <<rating, incident, rated, incidents, load, crossed>>

(* What the page is told of an incident it opened.                          *)
Opened_Unnumbered == [pc |-> "opened", id |-> Len(incident)]   \* mutant
Opened == [pc |-> "opened", id |-> Len(incident')]

(* The API takes it and answers, or the answer is lost; or it refuses.      *)
Serve ==
    /\ call.pc = "sent"
    /\ \/ /\ submitting = "rating" /\ ~rating
          /\ rating' = TRUE /\ UNCHANGED incident
          /\ call' \in {[pc |-> "rated"], [pc |-> "refused"]}
       \/ /\ submitting = "incident" /\ NoneActive
          /\ Opens /\ UNCHANGED rating
          /\ call' \in {Opened, [pc |-> "refused"]}
       \/ call' = [pc |-> "refused"] /\ UNCHANGED <<rating, incident>>
    /\ UNCHANGED <<rated, incidents, submitting, load, crossed>>

Tells(answer) == answer.pc = "rated"

Answered ==
    /\ call.pc \notin {"idle", "sent"}
    /\ rated' = (rated \/ Tells(call))
    /\ incidents' = IF call.pc = "opened"
                    THEN <<[id |-> call.id, active |-> TRUE]>> \o incidents ELSE incidents
    /\ submitting' = None
    /\ call' = Idle
    /\ load' = AllLate
    /\ UNCHANGED <<rating, incident, crossed>>

Next ==
    \/ OthersMove \/ Rate \/ OpenIncident \/ Serve \/ Answered
    \/ \E l \in Loads :
         \/ Load(l) \/ ServeRating(l) \/ ServeIncidents(l)
         \/ RatingLoaded(l) \/ IncidentsLoaded(l) \/ NotLoaded(l)

Spec == Init /\ [][Next]_vars

-----------------------------------------------------------------------------
(* Properties.                                                              *)

TypeOK ==
    /\ rating \in BOOLEAN /\ rated \in BOOLEAN /\ crossed \in BOOLEAN
    /\ incident \in Seq(BOOLEAN) /\ Len(incident) <= MaxIncidents
    /\ \A i \in 1..Len(incidents) : incidents[i] \in Entries
    /\ submitting \in {"rating", "incident", None}
    /\ call \in {Idle} \cup [pc : {"sent", "rated", "refused"}]
                 \cup [pc : {"opened"}, id : 1..MaxIncidents]
    /\ \A l \in Loads : load[l] = Idle \/
         /\ load[l].pc \in {"sent", "rated"}
         /\ load[l].rating \in {NotYet, "found", "none", "refused"}
         /\ load[l].list \in {NotYet, "found", "refused"}
         /\ \A i \in 1..Len(load[l].items) : load[l].items[i] \in Entries

(* feat-010, one active incident per order: however many the client opened  *)
(* after others were closed, whoever closed them, and however loads cross,  *)
(* the list shows one active incident at most.  The answer of an opening is *)
(* put before the list: when a load has shown another since the form was    *)
(* sent, it may stand beside itself, or beside one that is closed, until    *)
(* the next load is shown.                                                  *)
OneActiveListed ==
    crossed \/ Cardinality({i \in 1..Len(incidents) : incidents[i].active}) <= 1

(* "La calificación quedó registrada y no puede editarse": the form to rate *)
(* comes back only by a load whose rating was refused, or that began before *)
(* the panel last showed a rating or an answer.                             *)
RatingStays ==
    [][rated /\ ~rated' => \E l \in Loads :
         /\ load[l].pc = "sent" /\ load'[l].pc # "sent"
         /\ load[l].rating = "refused" \/ load[l].late]_vars

=============================================================================
