---------------------------- MODULE PortalsProofs ----------------------------
(* Theorems about Portals, for every value of its constants.               *)
EXTENDS Portals, SequenceTheorems, FiniteSetTheorems, TLAPS

-----------------------------------------------------------------------------
(* The address of a request.  Unless the pin was set while another was      *)
(* looked up, every lookup of a pin is of the one that is set.              *)

LookupsAreOfThePin ==
    moved \/ \A l \in Slots :
      lookup[l] # None /\ lookup[l].kind = "geocode" => lookup[l].place = pin

AddressInv == Address!TypeOK /\ LookupsAreOfThePin /\ Address!PinIsAtTheAddress

LEMMA AddressInvInitially == Address!Init => AddressInv
BY DEF Address!Init, AddressInv, Address!TypeOK, LookupsAreOfThePin, Address!PinIsAtTheAddress

LEMMA LookupKinds ==
    ASSUME AddressInv, NEW l \in Slots, lookup[l] # None
    PROVE  lookup[l] \in Address!Lookups /\ lookup[l].place \in Places
BY DEF AddressInv, Address!TypeOK, Address!Lookups

(* A lookup begins: of the pin, which is set with it, or a suggestion's.    *)
LEMMA LookupBegins ==
    ASSUME AddressInv, NEW l \in Slots, NEW p \in Places,
           Address!ClickMap(l, p) \/ Address!SelectPlace(l, p)
    PROVE  AddressInv'
<1> USE NoRowAssumption
<1>1. PICK kind \in {"geocode", "suggestion"} :
        /\ Address!Begin(l, kind, p)
        /\ kind = "geocode" => Address!SetPin(p) /\ Address!Crosses(p)
        /\ kind = "suggestion" => UNCHANGED <<pin, moved>>
        /\ UNCHANGED <<address, byHand>>
  BY DEF Address!ClickMap, Address!SelectPlace
<1>2. PICK begun \in Address!Lookups : begun = [kind |-> kind, place |-> p]
  BY DEF Address!Lookups
<1>3. /\ lookup \in [Slots -> Address!Lookups \cup {None}] /\ lookup[l] = None
      /\ lookup' = [lookup EXCEPT ![l] = begun]
      /\ begun # None /\ begun.kind = kind /\ begun.place = p
  BY <1>1, <1>2 DEF AddressInv, Address!TypeOK, Address!Begin
<1>4. lookup'[l] = begun /\ \A k \in Slots \ {l} : lookup'[k] = lookup[k]
  BY <1>3
<1>5. Address!TypeOK'
  BY <1>1, <1>3 DEF AddressInv, Address!TypeOK, Address!SetPin, Address!Crosses
<1>6. CASE kind = "geocode"
  <2>1. l \in Address!LookedUp(p)' /\ pin' = p
    BY <1>1, <1>3, <1>4, <1>6 DEF Address!LookedUp, Address!SetPin
  <2>2. Address!PinIsAtTheAddress'
    BY <2>1 DEF Address!PinIsAtTheAddress, Address!LookedUp
  <2>3. ASSUME ~moved', NEW k \in Slots, lookup'[k] # None, lookup'[k].kind = "geocode"
        PROVE  lookup'[k].place = p
    <3>1. CASE k = l
      BY <1>3, <1>4, <3>1
    <3>2. CASE k # l
      <4>1. /\ lookup[k] # None /\ lookup[k].kind = "geocode" /\ lookup'[k] = lookup[k]
            /\ lookup[k].place \in Places
        BY <1>4, <2>3, <3>2, LookupKinds
      <4>2. Address!LookedUp(lookup[k].place) # {}
        BY <4>1 DEF Address!LookedUp
      <4> QED BY <1>1, <1>6, <2>3, <4>1, <4>2 DEF Address!Crosses
    <3> QED BY <3>1, <3>2
  <2>4. LookupsAreOfThePin'
    BY <2>1, <2>3 DEF LookupsAreOfThePin
  <2> QED BY <1>5, <2>2, <2>4 DEF AddressInv
<1>7. CASE kind = "suggestion"
  <2>1. \A q : Address!LookedUp(q) \subseteq Address!LookedUp(q)'
    BY <1>3, <1>4 DEF Address!LookedUp
  <2>2. Address!PinIsAtTheAddress'
    BY <1>1, <1>7, <2>1 DEF AddressInv, Address!PinIsAtTheAddress
  <2>3. LookupsAreOfThePin'
    BY <1>1, <1>3, <1>4, <1>7 DEF AddressInv, LookupsAreOfThePin
  <2> QED BY <1>5, <2>2, <2>3 DEF AddressInv
<1> QED BY <1>6, <1>7

(* A lookup that ends leaves the others.                                    *)
LEMMA LookupEnds ==
    ASSUME AddressInv, NEW l \in Slots, Address!End(l), lookup[l] # None
    PROVE  /\ lookup' \in [Slots -> Address!Lookups \cup {None}] /\ lookup'[l] = None
           /\ \A k \in Slots \ {l} : lookup'[k] = lookup[k]
BY DEF AddressInv, Address!TypeOK, Address!End

LEMMA GeocodedKeeps ==
    ASSUME AddressInv, NEW l \in Slots, Address!Geocoded(l) \/ Address!NotGeocoded(l)
    PROVE  AddressInv'
<1>1. /\ lookup[l] # None /\ lookup[l].kind = "geocode" /\ Address!End(l)
      /\ UNCHANGED <<pin, moved>>
      /\ \/ byHand' = TRUE /\ UNCHANGED address
         \/ byHand' = FALSE /\ address' = lookup[l].place
  BY DEF Address!Geocoded, Address!NotGeocoded
<1>2. /\ lookup' \in [Slots -> Address!Lookups \cup {None}] /\ lookup'[l] = None
      /\ \A k \in Slots \ {l} : lookup'[k] = lookup[k]
  BY <1>1, LookupEnds
<1>3. Address!TypeOK'
  BY <1>1, <1>2, LookupKinds DEF AddressInv, Address!TypeOK
<1>4. LookupsAreOfThePin'
  BY <1>1, <1>2 DEF AddressInv, LookupsAreOfThePin
<1>5. Address!PinIsAtTheAddress'
  BY <1>1 DEF AddressInv, LookupsAreOfThePin, Address!PinIsAtTheAddress
<1> QED BY <1>3, <1>4, <1>5 DEF AddressInv

LEMMA PlaceFetchedKeeps ==
    ASSUME AddressInv, NEW l \in Slots, Address!PlaceFetched(l)
    PROVE  AddressInv'
<1>1. PICK p \in Places : p = lookup[l].place
  BY LookupKinds DEF Address!PlaceFetched
<1>2. /\ lookup[l] # None /\ lookup[l].kind = "suggestion" /\ Address!End(l)
      /\ address' = p
      /\ \/ byHand' = TRUE /\ UNCHANGED <<pin, moved>>
         \/ byHand' = FALSE /\ pin' = p /\ Address!Crosses(p)
  BY <1>1 DEF Address!PlaceFetched, Address!SetPin
<1>3. /\ lookup' \in [Slots -> Address!Lookups \cup {None}] /\ lookup'[l] = None
      /\ \A k \in Slots \ {l} : lookup'[k] = lookup[k]
  BY <1>2, LookupEnds
<1>4. Address!TypeOK'
  BY <1>2, <1>3 DEF AddressInv, Address!TypeOK, Address!Crosses
<1>5. Address!PinIsAtTheAddress'
  BY <1>2 DEF Address!PinIsAtTheAddress
<1>6. CASE UNCHANGED <<pin, moved>>
  BY <1>3, <1>4, <1>5, <1>6 DEF AddressInv, LookupsAreOfThePin
<1>7. CASE pin' = p /\ Address!Crosses(p)
  <2>1. ASSUME ~moved', NEW k \in Slots, lookup'[k] # None, lookup'[k].kind = "geocode"
        PROVE  lookup'[k].place = p
    <3>1. /\ lookup[k] # None /\ lookup[k].kind = "geocode" /\ lookup'[k] = lookup[k]
          /\ lookup[k].place \in Places
      BY <1>3, <2>1, LookupKinds
    <3>2. Address!LookedUp(lookup[k].place) # {}
      BY <3>1 DEF Address!LookedUp
    <3> QED BY <1>7, <2>1, <3>1, <3>2 DEF Address!Crosses
  <2>2. LookupsAreOfThePin'
    BY <1>7, <2>1 DEF LookupsAreOfThePin
  <2> QED BY <1>4, <1>5, <2>2 DEF AddressInv
<1> QED BY <1>2, <1>6, <1>7

LEMMA PlaceNotFetchedKeeps ==
    ASSUME AddressInv, NEW l \in Slots, Address!PlaceNotFetched(l)
    PROVE  AddressInv'
<1>1. /\ lookup[l] # None /\ lookup[l].kind = "suggestion" /\ Address!End(l)
      /\ UNCHANGED <<address, pin, byHand, moved>>
  BY DEF Address!PlaceNotFetched
<1>2. /\ lookup' \in [Slots -> Address!Lookups \cup {None}] /\ lookup'[l] = None
      /\ \A k \in Slots \ {l} : lookup'[k] = lookup[k]
  BY <1>1, LookupEnds
<1>3. \A q : Address!LookedUp(q) \subseteq Address!LookedUp(q)'
  BY <1>1, <1>2 DEF Address!LookedUp
<1>4. Address!TypeOK' /\ LookupsAreOfThePin'
  BY <1>1, <1>2 DEF AddressInv, Address!TypeOK, LookupsAreOfThePin
<1>5. Address!PinIsAtTheAddress'
  BY <1>1, <1>3 DEF AddressInv, Address!PinIsAtTheAddress
<1> QED BY <1>4, <1>5 DEF AddressInv

LEMMA AddressInvIsInductive ==
    ASSUME AddressInv, Address!Next \/ UNCHANGED addressVars
    PROVE  AddressInv'
<1>1. CASE UNCHANGED addressVars
  BY <1>1
     DEF addressVars, AddressInv, Address!TypeOK, LookupsAreOfThePin,
         Address!PinIsAtTheAddress, Address!LookedUp
<1>2. ASSUME NEW a \in Places \cup {None}, Address!Type(a) PROVE AddressInv'
  BY <1>2
     DEF Address!Type, AddressInv, Address!TypeOK, LookupsAreOfThePin,
         Address!PinIsAtTheAddress
<1>3. CASE Address!Next
  BY <1>2, <1>3, LookupBegins, GeocodedKeeps, PlaceFetchedKeeps, PlaceNotFetchedKeeps
     DEF Address!Next
<1> QED BY <1>1, <1>3

-----------------------------------------------------------------------------
(* The form of a request.                                                   *)

TryStates == {Submission!Idle} \cup Submission!Submits \cup Submission!Uploads

(* What a try that no other overlapped knows: a submit has the form's key,  *)
(* an upload is to the request the form shows.                              *)
TryIsSound(c) ==
    /\ c.pc \in {"sent", "created", "failed"} => c.key = key
    /\ c.pc \in {"upload", "again"} => c.request = shown
    /\ c.pc = "again" => c.files

AloneOrOverlapped ==
    overlapped \/
      /\ \A t, u \in Tries : try[t] # Submission!Idle /\ try[u] # Submission!Idle => t = u
      /\ \A t \in Tries : TryIsSound(try[t])

(* No key is used before it is drawn.                                       *)
KeysAreDrawn ==
    /\ key <= drawn
    /\ \A t \in Tries : try[t].pc \in {"sent", "created", "failed"} => try[t].key <= drawn
    /\ \A k \in Submission!Drawn : request[k] # None => k <= drawn

SubmissionInv ==
    /\ Submission!TypeOK
    /\ AloneOrOverlapped /\ KeysAreDrawn
    /\ Submission!OneRequestPerAttempt /\ Submission!AttachedIsStored

LEMMA TryKinds ==
    ASSUME NEW c \in TryStates
    PROVE  /\ c.pc = "idle" <=> c = Submission!Idle
           /\ c.pc \in {"sent", "created", "failed"} =>
                /\ c \in Submission!Submits /\ c.key \in Submission!Drawn
                /\ c.body \in Bodies /\ c.files \in BOOLEAN
           /\ c.pc \in {"upload", "again"} =>
                /\ c \in Submission!Uploads /\ c.request \in Submission!Drawn
                /\ c.files \in BOOLEAN
BY DEF TryStates, Submission!Idle, Submission!Submits, Submission!Uploads

LEMMA SubmissionInvInitially == Submission!Init => SubmissionInv
<1> SUFFICES ASSUME Submission!Init PROVE SubmissionInv
  OBVIOUS
<1>1. Submission!TypeOK
  <2>1. 1 \in Submission!Drawn
    BY BoundsAssumption DEF Submission!Drawn
  <2> QED BY <2>1 DEF Submission!Init, Submission!TypeOK
<1>2. AloneOrOverlapped
  BY DEF Submission!Init, AloneOrOverlapped, TryIsSound, Submission!Idle
<1>3. Submission!OneRequestPerAttempt /\ Submission!AttachedIsStored
  BY DEF Submission!Init, Submission!OneRequestPerAttempt, Submission!AttachedIsStored
<1>4. KeysAreDrawn
  BY DEF Submission!Init, KeysAreDrawn, Submission!Idle
<1> QED BY <1>1, <1>2, <1>3, <1>4 DEF SubmissionInv

(* A try that no other overlapped stands alone: it may step to whatever is  *)
(* sound.                                                                   *)
LEMMA TrySteps ==
    ASSUME SubmissionInv, NEW t \in Tries, NEW next \in TryStates,
           Submission!Under(t, next), try[t] # Submission!Idle, UNCHANGED overlapped,
           overlapped \/ TryIsSound(next)'
    PROVE  /\ try' \in [Tries -> TryStates] /\ try'[t] = next
           /\ \A u \in Tries \ {t} : try'[u] = try[u]
           /\ AloneOrOverlapped'
<1>1. /\ try \in [Tries -> TryStates] /\ try' = [try EXCEPT ![t] = next]
      /\ try' \in [Tries -> TryStates] /\ try'[t] = next
      /\ \A u \in Tries \ {t} : try'[u] = try[u]
  BY DEF SubmissionInv, Submission!TypeOK, TryStates, Submission!Under
<1>2. ASSUME ~overlapped PROVE AloneOrOverlapped'
  <2>1. \A u \in Tries \ {t} : try'[u] = Submission!Idle
    BY <1>1, <1>2 DEF SubmissionInv, AloneOrOverlapped
  <2>2. TryIsSound(Submission!Idle)'
    BY DEF TryIsSound, Submission!Idle
  <2>3. \A u \in Tries : TryIsSound(try[u])'
    BY <1>1, <1>2, <2>1, <2>2 DEF TryIsSound
  <2> QED BY <1>1, <2>1, <2>3 DEF AloneOrOverlapped
<1> QED BY <1>1, <1>2 DEF AloneOrOverlapped

LEMMA SubmitBegins ==
    ASSUME SubmissionInv, NEW t \in Tries, NEW next \in TryStates, Submission!Begin(t, next),
           TryIsSound(next), next # Submission!Idle, next.pc # "upload",
           UNCHANGED <<key, drawn, shown, attached, request, stored, answered, thrown, left>>,
           sending' \in BOOLEAN
    PROVE  SubmissionInv'
<1>1. /\ try \in [Tries -> TryStates] /\ try[t] = Submission!Idle
      /\ try' = [try EXCEPT ![t] = next]
      /\ try' \in [Tries -> TryStates] /\ try'[t] = next
      /\ \A u \in Tries \ {t} : try'[u] = try[u]
  BY DEF SubmissionInv, Submission!TypeOK, TryStates, Submission!Under, Submission!Begin
<1>2. overlapped' = (overlapped \/ \E u \in Tries \ {t} : try[u] # Submission!Idle)
  BY DEF Submission!Begin
<1>3. Submission!TypeOK'
  BY <1>1, <1>2 DEF SubmissionInv, Submission!TypeOK, TryStates
<1>4. AloneOrOverlapped'
  <2> SUFFICES ASSUME ~overlapped'
               PROVE  AloneOrOverlapped'
    BY DEF AloneOrOverlapped
  <2>1. \A u \in Tries \ {t} : try'[u] = Submission!Idle
    BY <1>1, <1>2
  <2>2. TryIsSound(Submission!Idle)' /\ TryIsSound(next)'
    BY DEF TryIsSound, Submission!Idle
  <2>3. \A u \in Tries : TryIsSound(try[u])'
    BY <1>1, <2>1, <2>2 DEF TryIsSound
  <2> QED BY <1>1, <2>1, <2>3 DEF AloneOrOverlapped
<1>5. Submission!OneRequestPerAttempt'
  BY <1>2 DEF SubmissionInv, Submission!OneRequestPerAttempt
<1>6. Submission!AttachedIsStored'
  <2>1. \A u \in Tries : try[u].pc = "upload" => try'[u].pc = "upload"
    BY <1>1 DEF Submission!Idle
  <2> QED BY <1>2, <2>1 DEF SubmissionInv, Submission!AttachedIsStored
<1>7. KeysAreDrawn'
  BY <1>1 DEF SubmissionInv, KeysAreDrawn, TryIsSound
<1> QED BY <1>3, <1>4, <1>5, <1>6, <1>7 DEF SubmissionInv

LEMMA BeginningsKeep ==
    ASSUME SubmissionInv, NEW t \in Tries,
           \/ \E body \in Bodies, files \in BOOLEAN : Submission!Submit(t, body, files)
           \/ Submission!RetryEvidence(t)
    PROVE  SubmissionInv'
<1>1. ASSUME NEW body \in Bodies, NEW files \in BOOLEAN, Submission!Submit(t, body, files)
      PROVE  SubmissionInv'
  <2>1. PICK next : next = [pc |-> "sent", key |-> key, body |-> body, files |-> files]
    OBVIOUS
  <2>2. next \in TryStates /\ next.pc = "sent" /\ next.key = key
    BY <2>1 DEF TryStates, Submission!Submits, SubmissionInv, Submission!TypeOK
  <2>3. TryIsSound(next) /\ next # Submission!Idle
    BY <2>2 DEF TryIsSound, Submission!Idle
  <2>4. /\ Submission!Begin(t, next)
        /\ UNCHANGED <<key, drawn, shown, attached, request, stored, answered, thrown, left>>
        /\ sending' \in BOOLEAN
    BY <1>1, <2>1 DEF Submission!Submit, SubmissionInv, Submission!TypeOK
  <2> QED BY <2>2, <2>3, <2>4, SubmitBegins
<1>2. CASE Submission!RetryEvidence(t)
  <2>1. PICK next : next = [pc |-> "again", request |-> shown, files |-> TRUE]
    OBVIOUS
  <2>2. next \in TryStates /\ next.pc = "again" /\ next.request = shown /\ next.files
    BY <1>2, <2>1
       DEF TryStates, Submission!Uploads, SubmissionInv, Submission!TypeOK,
           Submission!RetryEvidence
  <2>3. TryIsSound(next) /\ next # Submission!Idle
    BY <2>2 DEF TryIsSound, Submission!Idle
  <2>4. /\ Submission!Begin(t, next)
        /\ UNCHANGED <<key, drawn, shown, attached, request, stored, answered, thrown, left>>
        /\ sending' \in BOOLEAN
    BY <1>2, <2>1 DEF Submission!RetryEvidence, SubmissionInv, Submission!TypeOK
  <2> QED BY <2>2, <2>3, <2>4, SubmitBegins
<1> QED BY <1>1, <1>2

(* Where a submit goes from where it stands.                                *)
LEMMA SubmitGoesOn ==
    ASSUME SubmissionInv, NEW t \in Tries, try[t].pc \in {"sent", "created", "failed"}
    PROVE  /\ try[t] \in TryStates /\ try[t].key \in Submission!Drawn
           /\ try[t] # Submission!Idle /\ (overlapped \/ try[t].key = key)
           /\ \A pc \in {"created", "failed"} :
                \E next \in TryStates : /\ next = [try[t] EXCEPT !.pc = pc] /\ next.pc = pc
                                        /\ next.key = try[t].key
<1>1. try[t] \in TryStates
  BY DEF SubmissionInv, Submission!TypeOK, TryStates
<1>2. try[t] \in Submission!Submits /\ try[t].key \in Submission!Drawn
  BY <1>1, TryKinds
<1>3. try[t] # Submission!Idle /\ (overlapped \/ try[t].key = key)
  BY DEF SubmissionInv, AloneOrOverlapped, TryIsSound, Submission!Idle
<1>4. ASSUME NEW pc \in {"created", "failed"}
      PROVE  \E next \in TryStates : /\ next = [try[t] EXCEPT !.pc = pc] /\ next.pc = pc
                                     /\ next.key = try[t].key
  <2>1. /\ [try[t] EXCEPT !.pc = pc] \in Submission!Submits
        /\ [try[t] EXCEPT !.pc = pc].pc = pc
        /\ [try[t] EXCEPT !.pc = pc].key = try[t].key
    BY <1>2 DEF Submission!Submits
  <2> QED BY <2>1 DEF TryStates
<1> QED BY <1>1, <1>2, <1>3, <1>4

(* The API's answer to a submit, or none.                                   *)
LEMMA ServingKeeps ==
    ASSUME SubmissionInv, NEW t \in Tries, Submission!Serve(t) \/ Submission!NotServed(t)
    PROVE  SubmissionInv'
<1>1. /\ try[t].pc = "sent"
      /\ UNCHANGED <<key, drawn, shown, attached, sending, stored, answered, thrown,
                     overlapped, left>>
  BY DEF Submission!Serve, Submission!NotServed
<1>2. PICK k \in Submission!Drawn, body \in Bodies :
        k = try[t].key /\ body = try[t].body /\ (overlapped \/ k = key)
  BY <1>1, SubmitGoesOn, TryKinds
<1>3. request' = request \/ request' = [request EXCEPT ![k] = body]
  BY <1>2 DEF Submission!Serve, Submission!NotServed
<1>4. PICK pc \in {"created", "failed"} : Submission!StepTo(t, pc)
  BY DEF Submission!Serve, Submission!NotServed
<1>5. PICK next \in TryStates :
        /\ next = [try[t] EXCEPT !.pc = pc] /\ next.pc = pc /\ next.key = k
  BY <1>1, <1>2, SubmitGoesOn
<1>6. Submission!Under(t, next)
  BY <1>4, <1>5 DEF Submission!StepTo
<1>7. overlapped \/ TryIsSound(next)'
  BY <1>1, <1>2, <1>5 DEF TryIsSound
<1>8. /\ try' \in [Tries -> TryStates] /\ try'[t] = next
      /\ \A u \in Tries \ {t} : try'[u] = try[u]
      /\ AloneOrOverlapped'
  BY <1>1, <1>6, <1>7, SubmitGoesOn, TrySteps
<1>9. Submission!TypeOK'
  BY <1>1, <1>2, <1>3, <1>8 DEF SubmissionInv, Submission!TypeOK, TryStates
<1>10. Submission!OneRequestPerAttempt'
  BY <1>1, <1>2, <1>3
     DEF SubmissionInv, Submission!OneRequestPerAttempt, Submission!TypeOK
<1>11. Submission!AttachedIsStored'
  <2>1. \A u \in Tries : try[u].pc = "upload" => try'[u].pc = "upload"
    BY <1>1, <1>8
  <2> QED BY <1>1, <2>1 DEF SubmissionInv, Submission!AttachedIsStored
<1>12. KeysAreDrawn'
  <2>1. k <= drawn
    BY <1>1, <1>2 DEF SubmissionInv, KeysAreDrawn
  <2>2. \A j \in Submission!Drawn : request'[j] # None => j <= drawn
    BY <1>3, <2>1 DEF SubmissionInv, KeysAreDrawn, Submission!TypeOK
  <2> QED BY <1>1, <1>5, <1>8, <2>1, <2>2 DEF SubmissionInv, KeysAreDrawn
<1> QED BY <1>8, <1>9, <1>10, <1>11, <1>12 DEF SubmissionInv

(* A creation that is answered renews the key of the form, a failure keeps  *)
(* it.                                                                      *)
LEMMA CreatedKeeps ==
    ASSUME SubmissionInv, NEW t \in Tries, Submission!Created(t)
    PROVE  SubmissionInv'
<1>1. /\ try[t].pc = "created" /\ Submission!DrawKey
      /\ UNCHANGED <<attached, sending, request, stored, overlapped, left>> /\ ~thrown'
  BY DEF Submission!Created
<1>2. PICK k \in Submission!Drawn, files \in BOOLEAN :
        k = try[t].key /\ files = try[t].files /\ (overlapped \/ k = key)
  BY <1>1, SubmitGoesOn, TryKinds
<1>3. /\ shown' = k /\ answered' = answered \cup {k} /\ thrown' = FALSE
      /\ Submission!Under(t, [pc |-> "upload", request |-> k, files |-> files])
  BY <1>2 DEF Submission!Created
<1>4. PICK next \in TryStates :
        /\ next = [pc |-> "upload", request |-> k, files |-> files]
        /\ next.pc = "upload" /\ next.request = k
  <2>1. [pc |-> "upload", request |-> k, files |-> files] \in Submission!Uploads
    BY DEF Submission!Uploads
  <2> QED BY <2>1 DEF TryStates
<1>5. TryIsSound(next)'
  BY <1>3, <1>4 DEF TryIsSound
<1>6. /\ try' \in [Tries -> TryStates] /\ try'[t] = next
      /\ \A u \in Tries \ {t} : try'[u] = try[u]
      /\ AloneOrOverlapped'
  BY <1>1, <1>3, <1>4, <1>5, SubmitGoesOn, TrySteps
<1>7. Submission!TypeOK'
  <2>1. drawn' \in Submission!Drawn /\ key' \in Submission!Drawn
    BY <1>1, BoundsAssumption
       DEF Submission!DrawKey, SubmissionInv, Submission!TypeOK, Submission!Drawn
  <2> QED BY <1>1, <1>2, <1>3, <1>6, <2>1 DEF SubmissionInv, Submission!TypeOK, TryStates
<1>8. Submission!OneRequestPerAttempt'
  BY <1>1, <1>2, <1>3 DEF SubmissionInv, Submission!OneRequestPerAttempt
<1>9. Submission!AttachedIsStored'
  BY <1>4, <1>6 DEF Submission!AttachedIsStored
<1>10. KeysAreDrawn'
  <2>1. drawn \in Nat /\ drawn' = drawn + 1 /\ key' = drawn'
    BY <1>1 DEF Submission!DrawKey, SubmissionInv, Submission!TypeOK, Submission!Drawn
  <2>2. \A j \in Submission!Drawn : j <= drawn => j <= drawn'
    BY <2>1 DEF Submission!Drawn
  <2>3. ASSUME NEW u \in Tries, try'[u].pc \in {"sent", "created", "failed"}
        PROVE  try'[u].key <= drawn'
    <3>1. u # t /\ try'[u] = try[u]
      BY <1>4, <1>6, <2>3
    <3> QED BY <2>2, <2>3, <3>1, SubmitGoesOn DEF SubmissionInv, KeysAreDrawn
  <2>4. \A j \in Submission!Drawn : request'[j] # None => j <= drawn'
    BY <1>1, <2>2 DEF SubmissionInv, KeysAreDrawn
  <2> QED BY <2>1, <2>3, <2>4 DEF KeysAreDrawn
<1> QED BY <1>6, <1>7, <1>8, <1>9, <1>10 DEF SubmissionInv

LEMMA NotCreatedKeeps ==
    ASSUME SubmissionInv, NEW t \in Tries, Submission!NotCreated(t)
    PROVE  SubmissionInv'
<1>1. /\ try[t].pc = "failed" /\ Submission!Under(t, Submission!Idle) /\ sending' = FALSE
      /\ UNCHANGED <<key, drawn, shown, attached, request, stored, answered, thrown, overlapped,
                     left>>
  BY DEF Submission!NotCreated
<1>2. Submission!Idle \in TryStates /\ TryIsSound(Submission!Idle)'
  BY DEF TryStates, TryIsSound, Submission!Idle
<1>3. /\ try' \in [Tries -> TryStates] /\ try'[t] = Submission!Idle
      /\ \A u \in Tries \ {t} : try'[u] = try[u]
      /\ AloneOrOverlapped'
  BY <1>1, <1>2, SubmitGoesOn, TrySteps
<1>4. Submission!TypeOK'
  BY <1>1, <1>3 DEF SubmissionInv, Submission!TypeOK, TryStates
<1>5. Submission!OneRequestPerAttempt'
  BY <1>1 DEF SubmissionInv, Submission!OneRequestPerAttempt
<1>6. Submission!AttachedIsStored'
  <2>1. \A u \in Tries : try[u].pc = "upload" => try'[u].pc = "upload"
    BY <1>1, <1>3
  <2> QED BY <1>1, <2>1 DEF SubmissionInv, Submission!AttachedIsStored
<1>7. KeysAreDrawn'
  BY <1>1, <1>3 DEF SubmissionInv, KeysAreDrawn, Submission!Idle
<1> QED BY <1>3, <1>4, <1>5, <1>6, <1>7 DEF SubmissionInv

(* What a form says is attached, it has just seen stored.                   *)
LEMMA UploadsKeep ==
    ASSUME SubmissionInv, NEW t \in Tries,
           \/ Submission!UploadThrown(t)
           \/ \E all \in BOOLEAN : Submission!Uploaded(t, all) \/ Submission!Retried(t, all)
    PROVE  SubmissionInv'
<1>1. /\ try[t].pc \in {"upload", "again"} /\ Submission!Under(t, Submission!Idle)
      /\ UNCHANGED <<key, drawn, shown, request, answered, overlapped, left>>
      /\ sending' = FALSE
  BY DEF Submission!UploadThrown, Submission!Uploaded, Submission!Retried
<1>2. /\ try[t] \in TryStates /\ try[t] # Submission!Idle
      /\ overlapped \/ TryIsSound(try[t])
  BY <1>1
     DEF SubmissionInv, Submission!TypeOK, TryStates, AloneOrOverlapped, Submission!Idle
<1>3. PICK k \in Submission!Drawn, files \in BOOLEAN :
        /\ k = try[t].request /\ files = try[t].files
        /\ overlapped \/ (k = shown /\ (try[t].pc = "again" => files))
  BY <1>1, <1>2, TryKinds DEF TryIsSound
<1>4. Submission!Idle \in TryStates /\ TryIsSound(Submission!Idle)'
  BY DEF TryStates, TryIsSound, Submission!Idle
<1>5. /\ try' \in [Tries -> TryStates] /\ try'[t] = Submission!Idle
      /\ \A u \in Tries \ {t} : try'[u] = try[u]
      /\ AloneOrOverlapped'
  BY <1>1, <1>2, <1>4, TrySteps
<1>6. /\ stored \subseteq stored' /\ stored' \subseteq stored \cup {k}
      /\ attached' \in BOOLEAN /\ thrown' \in BOOLEAN
      /\ thrown' \/ UNCHANGED thrown
      /\ \/ thrown' /\ UNCHANGED attached
         \/ /\ UNCHANGED thrown
            /\ attached' => \/ files /\ k \in stored'
                            \/ try[t].pc = "again" /\ attached
                            \/ try[t].pc = "again" /\ k \in stored'
                            \/ try[t].pc = "again" /\ ~files
  BY <1>3
     DEF Submission!UploadThrown, Submission!Uploaded, Submission!Retried, Submission!Stored,
         Submission!Attach, SubmissionInv, Submission!TypeOK
<1>7. Submission!TypeOK'
  BY <1>1, <1>3, <1>5, <1>6 DEF SubmissionInv, Submission!TypeOK, TryStates
<1>8. Submission!OneRequestPerAttempt'
  BY <1>1 DEF SubmissionInv, Submission!OneRequestPerAttempt
<1>9. Submission!AttachedIsStored'
  <2> SUFFICES ASSUME attached', ~overlapped, ~thrown' PROVE shown' \in stored'
    BY <1>1 DEF Submission!AttachedIsStored
  <2>1. UNCHANGED thrown /\ k = shown
    BY <1>3, <1>6
  <2>2. CASE k \in stored'
    BY <1>1, <2>1, <2>2
  <2>3. CASE try[t].pc = "again" /\ attached
    <3>1. \A u \in Tries : try[u].pc # "upload"
      BY <1>2, <2>3 DEF SubmissionInv, AloneOrOverlapped, Submission!Idle
    <3>2. shown \in stored
      BY <2>1, <2>3, <3>1 DEF SubmissionInv, Submission!AttachedIsStored
    <3> QED BY <1>1, <1>6, <3>2
  <2> QED BY <1>3, <1>6, <2>1, <2>2, <2>3
<1>10. KeysAreDrawn'
  BY <1>1, <1>5 DEF SubmissionInv, KeysAreDrawn, Submission!Idle
<1> QED BY <1>5, <1>7, <1>8, <1>9, <1>10 DEF SubmissionInv

(* A page that is left forgets its key, of which the API may still make a   *)
(* request.                                                                 *)
LEMMA ReloadKeeps ==
    ASSUME SubmissionInv, Submission!Reload
    PROVE  SubmissionInv'
<1>1. /\ drawn \in Nat \ {0} /\ drawn < MaxKeys /\ drawn' = drawn + 1 /\ key' = drawn'
      /\ drawn' \in Submission!Drawn /\ 1..drawn \subseteq Submission!Drawn
  BY BoundsAssumption
     DEF Submission!Reload, Submission!DrawKey, SubmissionInv, Submission!TypeOK,
         Submission!Drawn
<1>2. /\ try' = [t \in Tries |-> Submission!Idle]
      /\ shown' = None /\ attached' = FALSE /\ sending' = FALSE
      /\ thrown' = FALSE /\ overlapped' = FALSE /\ UNCHANGED answered
      /\ left' = IF overlapped THEN 1..drawn ELSE left \cup {key}
      /\ request' \in [Submission!Drawn -> Bodies \cup {None}]
  BY DEF Submission!Reload
<1>3. stored' \subseteq Submission!Drawn
  <2>1. Submission!Storing \subseteq Submission!Drawn
    <3> SUFFICES ASSUME NEW t \in Tries, try[t].pc \in {"upload", "again"}
                 PROVE  try[t].request \in Submission!Drawn
      BY DEF Submission!Storing, Submission!UnderWay
    <3>1. try[t] \in TryStates
      BY DEF SubmissionInv, Submission!TypeOK, TryStates
    <3> QED BY <3>1, TryKinds
  <2>2. PICK more \in SUBSET Submission!Storing : stored' = stored \cup more
    BY DEF Submission!Reload
  <2> QED BY <2>1, <2>2 DEF SubmissionInv, Submission!TypeOK
<1>4. Submission!TypeOK'
  BY <1>1, <1>2, <1>3 DEF SubmissionInv, Submission!TypeOK
<1>5. ASSUME NEW k \in Submission!Drawn, request'[k] # None, request[k] = None
      PROVE  k <= drawn /\ (overlapped \/ k = key)
  <2>1. request'[k] \in Submission!Served(k)
    BY <1>5 DEF Submission!Reload
  <2>2. PICK t \in Tries : try[t].pc = "sent" /\ try[t].key = k
    BY <2>1 DEF Submission!Served, Submission!UnderWay
  <2> QED BY <2>2, SubmitGoesOn DEF SubmissionInv, KeysAreDrawn
<1>6. ASSUME NEW k \in Submission!Drawn, request'[k] # None
      PROVE  k <= drawn /\ k \in answered' \cup left'
  <2>1. k <= drawn
    BY <1>5, <1>6 DEF SubmissionInv, KeysAreDrawn
  <2>2. CASE overlapped
    BY <1>1, <1>2, <2>1, <2>2 DEF Submission!Drawn
  <2>3. CASE ~overlapped
    BY <1>2, <1>5, <1>6, <2>1, <2>3 DEF SubmissionInv, Submission!OneRequestPerAttempt
  <2> QED BY <2>1, <2>2, <2>3
<1>7. Submission!OneRequestPerAttempt' /\ Submission!AttachedIsStored'
  BY <1>2, <1>6 DEF Submission!OneRequestPerAttempt, Submission!AttachedIsStored
<1>8. KeysAreDrawn'
  <2>1. \A k \in Submission!Drawn : k <= drawn => k <= drawn'
    BY <1>1 DEF Submission!Drawn
  <2>2. \A t \in Tries : try'[t].pc = "idle"
    BY <1>2 DEF Submission!Idle
  <2> QED BY <1>1, <1>6, <2>1, <2>2 DEF KeysAreDrawn
<1>9. AloneOrOverlapped'
  BY <1>2 DEF AloneOrOverlapped, TryIsSound, Submission!Idle
<1> QED BY <1>4, <1>7, <1>8, <1>9 DEF SubmissionInv

LEMMA SubmissionInvIsInductive ==
    ASSUME SubmissionInv, Submission!Next \/ UNCHANGED submissionVars
    PROVE  SubmissionInv'
<1>1. CASE UNCHANGED submissionVars
  BY <1>1
     DEF submissionVars, SubmissionInv, Submission!TypeOK, AloneOrOverlapped, TryIsSound,
         KeysAreDrawn, Submission!OneRequestPerAttempt, Submission!AttachedIsStored
<1>2. CASE Submission!Next
  BY <1>2, BeginningsKeep, ServingKeeps, CreatedKeeps, NotCreatedKeeps, UploadsKeep, ReloadKeeps
     DEF Submission!Next, Submission!Ends
<1> QED BY <1>1, <1>2

-----------------------------------------------------------------------------
(* The operations page.                                                     *)

(* A view of the order is the row of its version.                           *)
IsRow(view) ==
    view \in Console!Copies /\ view.version <= Len(order) /\ view = Console!ViewOf(view.version)

Known == IF copy = None THEN 0 ELSE copy.version

(* A call was made of a row the page has shown, and reassigns to another    *)
(* than its technician; an answer is news to the page, and that to a        *)
(* resolution, which has no technician, is of the one the page shows.       *)
ClickIsSound(c) ==
    /\ c.pc = "sent" /\ c.action = "ASSIGN_TECHNICIAN" => c.technician \in Technicians
    /\ c.pc = "sent" /\ c.action # "ASSIGN_TECHNICIAN" =>
         /\ copy # None /\ IsRow(c.seen) /\ c.seen.version <= Known
         /\ c.technician # None => c.action = "REASSIGN_TECHNICIAN"
         /\ c.action = "REASSIGN_TECHNICIAN" =>
              c.technician \in Technicians /\ c.technician # c.seen.technician
    /\ c.pc = "answered" =>
         /\ IsRow(c.view) /\ c.view.version > Known
         /\ c.action # "ASSIGN_TECHNICIAN" => copy # None
         /\ c.action = "CREATE_FIXED_PAYMENT" => copy.technician = c.view.technician

OneAnswerAtATime ==
    \A c, d \in Clicks : click[c].pc = "answered" /\ click[d].pc = "answered" => c = d

(* Until the orders are shown nothing is clicked.                           *)
ListedFirst ==
    /\ listing.order # None => IsRow(listing.order)
    /\ listing.pc # "shown" => copy = None /\ \A c \in Clicks : click[c] = Console!Idle

CopyIsRow == copy # None => IsRow(copy)

ConsoleInv ==
    /\ Console!TypeOK /\ ListedFirst /\ CopyIsRow
    /\ \A c \in Clicks : ClickIsSound(click[c])
    /\ OneAnswerAtATime

ClickStates == {Console!Idle} \cup Console!Calls \cup Console!Answers

LEMMA ClickKinds ==
    ASSUME NEW c \in ClickStates
    PROVE  /\ c.pc = "idle" <=> c = Console!Idle
           /\ c.pc = "sent" =>
                /\ c \in Console!Calls /\ c.action \in Console!TransitionActions
                /\ c.seen \in Console!Copies \cup {None}
                /\ c.technician \in Technicians \cup {None}
           /\ c.pc = "answered" =>
                /\ c \in Console!Answers /\ c.action \in Console!TransitionActions
                /\ c.view \in Console!Copies
BY DEF ClickStates, Console!Idle, Console!Calls, Console!Answers

LEMMA RowsAreTyped ==
    ASSUME Console!TypeOK
    PROVE  order \in Seq(Console!Rows) /\ Len(order) \in 0..MaxVersion
BY BoundsAssumption DEF Console!TypeOK

LEMMA VersionsAreTyped ==
    ASSUME NEW view \in Console!Copies
    PROVE  /\ view.version \in Nat \ {0} /\ view.version \in 1..MaxVersion
           /\ view.technician \in Technicians /\ view.state \in Console!OrderStates
           /\ view # None
BY BoundsAssumption, NoRowAssumption DEF Console!Copies

(* Rows are added and never changed, so what was a row remains one; the one *)
(* added is what the order then is.                                         *)
LEMMA RowsRemain ==
    ASSUME Console!TypeOK, NEW row \in Console!Rows, order' = Append(order, row),
           Len(order) < MaxVersion
    PROVE  /\ order' \in Seq(Console!Rows) /\ Len(order') = Len(order) + 1
           /\ Len(order') <= MaxVersion
           /\ \A view : IsRow(view) => IsRow(view)'
           /\ \E view \in Console!Copies :
                /\ view = Console!Order' /\ IsRow(view)' /\ view.version = Len(order) + 1
                /\ view.state = row.state /\ view.technician = row.technician
<1>1. order \in Seq(Console!Rows) /\ Len(order) \in Nat /\ MaxVersion \in Nat
  BY BoundsAssumption DEF Console!TypeOK
<1>2. /\ order' \in Seq(Console!Rows) /\ Len(order') = Len(order) + 1
      /\ order'[Len(order) + 1] = row
      /\ \A i \in 1..Len(order) : order'[i] = order[i]
  BY <1>1
<1>3. ASSUME NEW view, IsRow(view) PROVE IsRow(view)'
  <2>1. view.version \in 1..Len(order)
    BY <1>1, <1>3 DEF IsRow, Console!Copies
  <2> QED BY <1>1, <1>2, <1>3, <2>1 DEF IsRow, Console!ViewOf
<1>4. PICK view : view = [version |-> Len(order) + 1, state |-> row.state,
                          technician |-> row.technician]
  OBVIOUS
<1>5. view \in Console!Copies
  BY <1>1, <1>4 DEF Console!Copies, Console!Rows
<1>6. view = Console!Order'
  <2>1. order' # <<>>
    BY <1>1, <1>2
  <2> QED BY <1>2, <1>4, <2>1 DEF Console!Order, Console!ViewOf
<1>7. IsRow(view)'
  BY <1>1, <1>2, <1>4, <1>5 DEF IsRow, Console!ViewOf
<1> QED BY <1>1, <1>2, <1>3, <1>4, <1>5, <1>6, <1>7

LEMMA OrderIsARow ==
    ASSUME Console!TypeOK, order # <<>>
    PROVE  IsRow(Console!Order) /\ Console!Order.version = Len(order)
<1>1. order \in Seq(Console!Rows) /\ Len(order) \in Nat \ {0} /\ Len(order) <= MaxVersion
  BY EmptySeq DEF Console!TypeOK
<1>2. order[Len(order)] \in Console!Rows /\ Len(order) \in 1..MaxVersion
  BY <1>1, BoundsAssumption
<1>3. Console!Order = Console!ViewOf(Len(order))
  BY DEF Console!Order
<1> QED BY <1>1, <1>2, <1>3 DEF IsRow, Console!ViewOf, Console!Copies, Console!Rows

LEMMA ConsoleInvInitially == Console!Init => ConsoleInv
<1> SUFFICES ASSUME Console!Init PROVE ConsoleInv
  OBVIOUS
<1>1. Console!TypeOK
  BY BoundsAssumption, EmptySeq DEF Console!Init, Console!TypeOK
<1>2. ListedFirst /\ CopyIsRow
  BY DEF Console!Init, ListedFirst, CopyIsRow
<1>3. \A c \in Clicks : click[c].pc = "idle"
  BY DEF Console!Init, Console!Idle
<1>4. OneAnswerAtATime /\ \A c \in Clicks : ClickIsSound(click[c])
  BY <1>3 DEF OneAnswerAtATime, ClickIsSound
<1> QED BY <1>1, <1>2, <1>4 DEF ConsoleInv

RowAdded == \E row \in Console!Rows : order' = Append(order, row) /\ Len(order) < MaxVersion

(* The order stays or has a row more: the page's knowledge of it remains    *)
(* true.                                                                    *)
LEMMA KnowledgeRemains ==
    ASSUME ConsoleInv, UNCHANGED order \/ RowAdded, UNCHANGED <<copy, listing>>
    PROVE  /\ order' \in Seq(Console!Rows) /\ Len(order') <= MaxVersion
           /\ \A view : IsRow(view) => IsRow(view)'
           /\ CopyIsRow'
           /\ \A c \in ClickStates : ClickIsSound(c) => ClickIsSound(c)'
<1>1. Console!TypeOK
  BY DEF ConsoleInv
<1>2. /\ order' \in Seq(Console!Rows) /\ Len(order') <= MaxVersion
      /\ \A view : IsRow(view) => IsRow(view)'
  <2>1. CASE UNCHANGED order
    BY <1>1, <2>1 DEF Console!TypeOK, IsRow, Console!ViewOf
  <2>2. CASE RowAdded
    BY <1>1, <2>2, RowsRemain DEF RowAdded
  <2> QED BY <2>1, <2>2
<1>3. CopyIsRow'
  BY <1>2 DEF ConsoleInv, CopyIsRow
<1>4. ASSUME NEW c \in ClickStates, ClickIsSound(c) PROVE ClickIsSound(c)'
  <2>1. (c.pc = "sent" /\ c.action # "ASSIGN_TECHNICIAN" => IsRow(c.seen)')
        /\ (c.pc = "answered" => IsRow(c.view)')
    BY <1>2, <1>4 DEF ClickIsSound
  <2>2. Known' = Known /\ copy' = copy
    BY DEF Known
  <2> QED BY <1>4, <2>1, <2>2 DEF ClickIsSound
<1> QED BY <1>2, <1>3, <1>4

(* One click steps.                                                         *)
LEMMA ClickSteps ==
    ASSUME ConsoleInv, UNCHANGED order \/ RowAdded, UNCHANGED <<copy, listing>>,
           listing.pc = "shown", NEW c \in Clicks, NEW next \in ClickStates,
           click' = [click EXCEPT ![c] = next], ClickIsSound(next)',
           next.pc = "answered" => \A d \in Clicks : click[d].pc # "answered"
    PROVE  ConsoleInv'
<1>1. /\ click \in [Clicks -> ClickStates] /\ click' \in [Clicks -> ClickStates]
      /\ click'[c] = next /\ \A d \in Clicks \ {c} : click'[d] = click[d]
  BY DEF ConsoleInv, Console!TypeOK, ClickStates
<1>2. Console!TypeOK'
  BY <1>1, KnowledgeRemains DEF ConsoleInv, Console!TypeOK, ClickStates
<1>3. ListedFirst' /\ CopyIsRow'
  BY KnowledgeRemains DEF ConsoleInv, ListedFirst
<1>4. ASSUME NEW d \in Clicks \ {c} PROVE ClickIsSound(click[d])'
  <2>1. PICK state \in ClickStates : state = click[d] /\ state = click'[d] /\ ClickIsSound(state)
    BY <1>1 DEF ConsoleInv
  <2>2. ClickIsSound(state)'
    BY <2>1, KnowledgeRemains
  <2> QED BY <2>1, <2>2 DEF ClickIsSound
<1>5. ClickIsSound(click[c])'
  BY <1>1 DEF ClickIsSound
<1>6. OneAnswerAtATime'
  BY <1>1 DEF ConsoleInv, OneAnswerAtATime
<1> QED BY <1>2, <1>3, <1>4, <1>5, <1>6 DEF ConsoleInv

LEMMA IdleClick ==
    /\ Console!Idle \in ClickStates /\ Console!Idle.pc = "idle"
    /\ ClickIsSound(Console!Idle)'
BY DEF ClickStates, Console!Idle, ClickIsSound

LEMMA MovesOfTheContract ==
    ASSUME NEW move \in Console!OrderTransitions
    PROVE  move.to \in Console!OrderStates
BY DEF Console!OrderTransitions, Console!Transition, Console!OrderStates

(* What is clicked is of the row shown.                                     *)
LEMMA ClickingKeeps ==
    ASSUME ConsoleInv, NEW c \in Clicks,
           \/ \E t \in Technicians : Console!Assign(c, t) \/ Console!Reassign(c, t)
           \/ \E action \in Console!TransitionActions : Console!Press(c, action)
    PROVE  ConsoleInv'
<1>1. PICK action \in Console!TransitionActions, t \in Technicians \cup {None} :
        /\ click[c] = Console!Idle /\ UNCHANGED <<order, listing, copy>>
        /\ click' = [click EXCEPT ![c] = Console!Offer(action, t)]
        /\ listing.pc = "shown"
        /\ action = "ASSIGN_TECHNICIAN" => t \in Technicians
        /\ action # "ASSIGN_TECHNICIAN" =>
             /\ copy # None
             /\ t # None => action = "REASSIGN_TECHNICIAN"
             /\ action = "REASSIGN_TECHNICIAN" => t \in Technicians /\ t # copy.technician
  <2>1. copy # None => listing.pc = "shown"
    BY DEF ConsoleInv, ListedFirst
  <2>2. CASE \E t \in Technicians : Console!Assign(c, t)
    BY <2>2 DEF Console!Assign, Console!TransitionActions
  <2>3. CASE \E t \in Technicians : Console!Reassign(c, t)
    BY <2>1, <2>3 DEF Console!Reassign, Console!TransitionActions
  <2>4. CASE \E action \in Console!TransitionActions : Console!Press(c, action)
    BY <2>1, <2>4 DEF Console!Press, Console!Offered
  <2> QED BY <2>2, <2>3, <2>4
<1>2. PICK seen \in Console!Copies \cup {None} : seen = copy
  BY DEF ConsoleInv, Console!TypeOK
<1>3. PICK next : next = [pc |-> "sent", action |-> action, seen |-> seen, technician |-> t]
  OBVIOUS
<1>4. next \in ClickStates /\ click' = [click EXCEPT ![c] = next]
  BY <1>1, <1>2, <1>3 DEF ClickStates, Console!Calls, Console!Offer
<1>5. ClickIsSound(next)'
  <2>1. /\ next.pc = "sent" /\ next.action = action /\ next.seen = seen
        /\ next.technician = t
    BY <1>3
  <2>2. ASSUME action # "ASSIGN_TECHNICIAN"
        PROVE  IsRow(seen)' /\ seen.version <= Known' /\ copy' # None
    <3>1. seen = copy /\ copy' = copy /\ copy # None /\ IsRow(seen)
      BY <1>1, <1>2, <2>2 DEF ConsoleInv, CopyIsRow
    <3>2. IsRow(seen)'
      BY <1>1, <3>1, KnowledgeRemains
    <3>3. Known' = seen.version /\ seen.version \in Nat
      BY <3>1, VersionsAreTyped DEF Known, IsRow
    <3> QED BY <3>1, <3>2, <3>3
  <2> QED BY <1>1, <1>2, <2>1, <2>2 DEF ClickIsSound
<1> QED BY <1>1, <1>3, <1>4, <1>5, ClickSteps

LEMMA RefusedKeeps ==
    ASSUME ConsoleInv, NEW c \in Clicks, Console!Refused(c)
    PROVE  ConsoleInv'
<1>1. /\ click[c] # Console!Idle /\ UNCHANGED <<order, listing, copy>>
      /\ click' = [click EXCEPT ![c] = Console!Idle]
  BY DEF Console!Refused, Console!Idle
<1>2. listing.pc = "shown"
  BY <1>1 DEF ConsoleInv, ListedFirst
<1> QED BY <1>1, <1>2, IdleClick, ClickSteps

(* The call that assigns, or moves, is of the newest row.                   *)
LEMMA MovesAreOfTheNewestRow ==
    ASSUME ConsoleInv, NEW c \in Clicks, Console!ServeMove(c)
    PROVE  /\ click[c] \in ClickStates /\ click[c].pc = "sent"
           /\ click[c].action # "ASSIGN_TECHNICIAN" /\ ClickIsSound(click[c])
           /\ order # <<>> /\ click[c].seen = Console!Order
           /\ copy = Console!Order /\ copy # None
<1>1. /\ click[c] \in ClickStates /\ click[c].pc = "sent"
      /\ click[c].action # "ASSIGN_TECHNICIAN" /\ ClickIsSound(click[c])
      /\ order # <<>> /\ Len(order) = click[c].seen.version
  BY DEF ConsoleInv, Console!TypeOK, ClickStates, Console!ServeMove, Console!Permits
<1>2. PICK seen \in Console!Copies, row \in Console!Copies :
        /\ seen = click[c].seen /\ row = copy /\ IsRow(seen) /\ IsRow(row)
        /\ seen.version <= row.version
  <2>1. IsRow(click[c].seen) /\ copy # None /\ click[c].seen.version <= Known /\ IsRow(copy)
    BY <1>1 DEF ClickIsSound, ConsoleInv, CopyIsRow
  <2> QED BY <2>1 DEF IsRow, Known
<1>3. seen.version = Len(order) /\ row.version = Len(order)
  <2>1. row.version <= Len(order) /\ seen.version = Len(order)
    BY <1>1, <1>2 DEF IsRow
  <2> QED BY <1>2, <2>1, VersionsAreTyped
<1>4. seen = Console!Order /\ row = Console!Order
  BY <1>1, <1>2, <1>3 DEF IsRow, Console!Order
<1> QED BY <1>1, <1>2, <1>4, VersionsAreTyped

(* What is served adds a row, and its answer is news.                       *)
LEMMA ServingMovesKeeps ==
    ASSUME ConsoleInv, NEW c \in Clicks, NEW row \in Console!Rows,
           order' = Append(order, row), Len(order) < MaxVersion,
           Console!Answer(c), UNCHANGED <<listing, copy>>,
           click[c].pc = "sent", Known = Len(order),
           click[c].action # "ASSIGN_TECHNICIAN" => copy # None,
           click[c].action = "CREATE_FIXED_PAYMENT" => copy.technician = row.technician
    PROVE  ConsoleInv'
<1>1. RowAdded /\ Console!TypeOK /\ Len(order) \in Nat
  BY RowsAreTyped DEF RowAdded, ConsoleInv
<1>2. PICK view \in Console!Copies :
        /\ view = Console!Order' /\ IsRow(view)' /\ view.version = Len(order) + 1
        /\ view.technician = row.technician
  BY <1>1, RowsRemain
<1>3. PICK action \in Console!TransitionActions : action = click[c].action
  BY ClickKinds DEF ConsoleInv, Console!TypeOK, ClickStates
<1>4. PICK next : next = [pc |-> "answered", action |-> action, view |-> view]
  OBVIOUS
<1>5. next \in ClickStates /\ next.pc = "answered" /\ next.action = action /\ next.view = view
  BY <1>4 DEF ClickStates, Console!Answers
<1>6. ClickIsSound(next)'
  BY <1>1, <1>2, <1>3, <1>5 DEF ClickIsSound, Known
<1>7. listing.pc = "shown"
  BY DEF ConsoleInv, ListedFirst, Console!Idle
<1>8. ASSUME NEW d \in Clicks PROVE click[d].pc # "answered"
  <2> SUFFICES ASSUME click[d].pc = "answered" PROVE FALSE
    OBVIOUS
  <2>1. IsRow(click[d].view) /\ click[d].view.version > Len(order)
    BY DEF ConsoleInv, ClickIsSound
  <2>2. click[d].view.version \in Nat /\ click[d].view.version <= Len(order)
    BY <2>1, VersionsAreTyped DEF IsRow
  <2> QED BY <1>1, <2>1, <2>2
<1>9. CASE click' = [click EXCEPT ![c] = Console!Idle]
  BY <1>1, <1>7, <1>9, IdleClick, ClickSteps
<1>10. CASE click' = [click EXCEPT ![c] = next]
  BY <1>1, <1>5, <1>6, <1>7, <1>8, <1>10, ClickSteps
<1> QED BY <1>2, <1>3, <1>4, <1>9, <1>10 DEF Console!Answer

LEMMA ServeAssignKeeps ==
    ASSUME ConsoleInv, NEW c \in Clicks, Console!ServeAssign(c)
    PROVE  ConsoleInv'
<1>1. /\ click[c].pc = "sent" /\ click[c].action = "ASSIGN_TECHNICIAN" /\ order = <<>>
      /\ Console!Committed("TECNICO_ASIGNADO", click[c].technician)
      /\ Console!Answer(c) /\ UNCHANGED <<listing, copy>>
  BY DEF Console!ServeAssign
<1>2. click[c].technician \in Technicians
  BY <1>1 DEF ConsoleInv, ClickIsSound
<1>3. PICK row \in Console!Rows :
        row = [state |-> "TECNICO_ASIGNADO", technician |-> click[c].technician]
  BY <1>2 DEF Console!Rows, Console!OrderStates
<1>4. order' = Append(order, row) /\ Len(order) < MaxVersion
  BY <1>1, <1>3 DEF Console!Committed
<1>5. Known = Len(order)
  <2>1. Len(order) = 0
    BY <1>1
  <2>2. copy = None
    BY <2>1, VersionsAreTyped DEF ConsoleInv, CopyIsRow, IsRow
  <2> QED BY <2>1, <2>2 DEF Known
<1> QED BY <1>1, <1>3, <1>4, <1>5, ServingMovesKeeps

LEMMA ServeMoveKeeps ==
    ASSUME ConsoleInv, NEW c \in Clicks, Console!ServeMove(c)
    PROVE  ConsoleInv'
<1>1. /\ click[c].pc = "sent" /\ click[c].action # "ASSIGN_TECHNICIAN"
      /\ click[c] \in ClickStates /\ ClickIsSound(click[c])
      /\ order # <<>> /\ copy = Console!Order /\ copy # None
      /\ Console!Answer(c) /\ UNCHANGED <<listing, copy>>
  BY MovesAreOfTheNewestRow DEF Console!ServeMove
<1>2. /\ copy \in Console!Copies /\ Known = Len(order)
  BY <1>1, OrderIsARow DEF ConsoleInv, IsRow, Known
<1>3. PICK t \in Technicians, move \in Console!OrderTransitions :
        /\ move.action = click[c].action /\ Console!Committed(move.to, t)
        /\ click[c].action # "REASSIGN_TECHNICIAN" => t = copy.technician
  <2>1. click[c].technician # None => click[c].technician \in Technicians
    BY <1>1, ClickKinds
  <2>2. click[c].technician # None => click[c].action = "REASSIGN_TECHNICIAN"
    BY <1>1 DEF ClickIsSound
  <2>3. PICK t : t = IF click[c].technician = None THEN Console!Order.technician
                                                   ELSE click[c].technician
    OBVIOUS
  <2>4. t \in Technicians /\ (click[c].action # "REASSIGN_TECHNICIAN" => t = copy.technician)
    BY <1>1, <1>2, <2>1, <2>2, <2>3, VersionsAreTyped
  <2>5. \E move \in Console!OrderTransitions :
          move.action = click[c].action /\ Console!Committed(move.to, t)
    BY <2>3 DEF Console!ServeMove
  <2> QED BY <2>4, <2>5
<1>4. PICK row \in Console!Rows : row = [state |-> move.to, technician |-> t]
  BY MovesOfTheContract DEF Console!Rows
<1>5. order' = Append(order, row) /\ Len(order) < MaxVersion /\ row.technician = t
  BY <1>3, <1>4 DEF Console!Committed
<1> QED BY <1>1, <1>2, <1>3, <1>5, ServingMovesKeeps

LEMMA ListingKeeps ==
    ASSUME ConsoleInv, Console!ServeOrders \/ Console!ShowOrders
    PROVE  ConsoleInv'
<1>1. UNCHANGED <<order, click>> /\ listing.pc # "shown"
  BY DEF Console!ServeOrders, Console!ShowOrders
<1>2. copy = None /\ \A c \in Clicks : click'[c] = Console!Idle
  BY <1>1 DEF ConsoleInv, ListedFirst
<1>3. OneAnswerAtATime' /\ \A c \in Clicks : ClickIsSound(click[c])'
  BY <1>2 DEF OneAnswerAtATime, ClickIsSound, Console!Idle
<1>4. \A view : IsRow(view) => IsRow(view)'
  BY <1>1 DEF IsRow, Console!ViewOf
<1>5. CASE Console!ShowOrders
  <2>1. /\ copy' = listing.order /\ listing' = [pc |-> "shown", order |-> None]
        /\ listing.order \in Console!Copies \cup {None}
    BY <1>5 DEF Console!ShowOrders, ConsoleInv, Console!TypeOK
  <2>2. ListedFirst' /\ CopyIsRow'
    BY <1>4, <2>1 DEF ConsoleInv, ListedFirst, CopyIsRow
  <2>3. Console!TypeOK'
    BY <1>1, <2>1 DEF ConsoleInv, Console!TypeOK
  <2> QED BY <1>3, <2>2, <2>3 DEF ConsoleInv
<1>6. CASE Console!ServeOrders
  <2>1. PICK answer \in {Console!Order, None} :
          listing' = [pc |-> "served", order |-> answer] /\ copy' = copy
    BY <1>6 DEF Console!ServeOrders
  <2>2. answer # None => IsRow(answer)
    BY <2>1, OrderIsARow DEF ConsoleInv, Console!Order
  <2>3. answer \in Console!Copies \cup {None}
    BY <2>2 DEF IsRow
  <2>4. ListedFirst' /\ CopyIsRow'
    BY <1>2, <1>4, <2>1, <2>2 DEF ListedFirst, CopyIsRow
  <2>5. Console!TypeOK'
    BY <1>1, <2>1, <2>3 DEF ConsoleInv, Console!TypeOK
  <2> QED BY <1>3, <2>4, <2>5 DEF ConsoleInv
<1> QED BY <1>5, <1>6

(* The page takes its copy from the one answer there is.                    *)
LEMMA AnswerIsShown ==
    ASSUME ConsoleInv, NEW c \in Clicks, Console!Answered(c)
    PROVE  /\ click[c].pc = "answered" /\ copy' = click[c].view
           /\ IsRow(copy') /\ copy' # None /\ copy'.version > Known
<1>1. click[c].pc = "answered" /\ click[c] \in ClickStates /\ ClickIsSound(click[c])
  BY DEF ConsoleInv, Console!TypeOK, ClickStates, Console!Answered
<1>2. PICK view \in Console!Copies :
        view = click[c].view /\ IsRow(view) /\ view.version > Known /\ view # None
  BY <1>1, ClickKinds, VersionsAreTyped DEF ClickIsSound
<1>3. copy' = view
  <2>1. CASE click[c].action # "CREATE_FIXED_PAYMENT"
    BY <1>2, <2>1 DEF Console!Answered, Console!Shown
  <2>2. CASE click[c].action = "CREATE_FIXED_PAYMENT"
    <3>1. copy.technician = view.technician
      BY <1>1, <1>2, <2>2 DEF ClickIsSound
    <3>2. [view EXCEPT !.technician = copy.technician] = view
      BY <3>1 DEF Console!Copies
    <3> QED BY <1>2, <2>2, <3>2 DEF Console!Answered, Console!Shown
  <2> QED BY <2>1, <2>2
<1> QED BY <1>1, <1>2, <1>3

LEMMA AnsweredKeeps ==
    ASSUME ConsoleInv, NEW c \in Clicks, Console!Answered(c)
    PROVE  ConsoleInv'
<1>1. PICK view \in Console!Copies :
        /\ view = copy' /\ IsRow(view) /\ view.version > Known /\ view # None
        /\ click[c].pc = "answered"
  BY AnswerIsShown DEF IsRow
<1>2. /\ UNCHANGED <<order, listing>> /\ click' = [click EXCEPT ![c] = Console!Idle]
      /\ click \in [Clicks -> ClickStates]
  BY DEF Console!Answered, ConsoleInv, Console!TypeOK, ClickStates
<1>3. /\ click' \in [Clicks -> ClickStates] /\ click'[c] = Console!Idle
      /\ \A d \in Clicks \ {c} : click'[d] = click[d] /\ click[d].pc # "answered"
  BY <1>1, <1>2, IdleClick DEF ConsoleInv, OneAnswerAtATime
<1>4. \A v : IsRow(v) => IsRow(v)'
  BY <1>2 DEF IsRow, Console!ViewOf
<1>5. Console!TypeOK'
  BY <1>1, <1>2, <1>3 DEF ConsoleInv, Console!TypeOK, ClickStates
<1>6. listing.pc = "shown"
  BY <1>1 DEF ConsoleInv, ListedFirst, Console!Idle
<1>7. ListedFirst' /\ CopyIsRow'
  BY <1>1, <1>2, <1>4, <1>6 DEF ConsoleInv, ListedFirst, CopyIsRow
<1>8. Known \in Nat /\ Known' = view.version /\ view.version \in Nat
  BY <1>1, VersionsAreTyped DEF Known, ConsoleInv, CopyIsRow, IsRow
<1>9. ASSUME NEW d \in Clicks PROVE ClickIsSound(click[d])'
  <2>1. CASE d = c
    BY <1>3, <2>1, IdleClick DEF ClickIsSound
  <2>2. CASE d # c
    <3>1. PICK state \in ClickStates :
            state = click[d] /\ state = click'[d] /\ ClickIsSound(state)
      BY <1>2, <1>3, <2>2 DEF ConsoleInv
    <3>2. state.pc # "answered"
      BY <1>3, <2>2, <3>1
    <3>3. ASSUME state.pc = "sent", state.action # "ASSIGN_TECHNICIAN"
          PROVE  /\ copy' # None /\ IsRow(state.seen)' /\ state.seen.version <= Known'
                 /\ state.technician # None => state.action = "REASSIGN_TECHNICIAN"
                 /\ state.action = "REASSIGN_TECHNICIAN" =>
                      state.technician \in Technicians
                      /\ state.technician # state.seen.technician
      <4>1. PICK seen \in Console!Copies :
              seen = state.seen /\ IsRow(seen) /\ seen.version <= Known
        BY <3>1, <3>3 DEF ClickIsSound, IsRow
      <4>2. IsRow(seen)' /\ seen.version <= Known'
        BY <1>1, <1>4, <1>8, <4>1, VersionsAreTyped
      <4> QED BY <1>1, <3>1, <3>3, <4>1, <4>2 DEF ClickIsSound
    <3>4. ClickIsSound(state)'
      BY <3>1, <3>2, <3>3 DEF ClickIsSound
    <3> QED BY <3>1, <3>4 DEF ClickIsSound
  <2> QED BY <2>1, <2>2
<1>10. OneAnswerAtATime'
  BY <1>3, IdleClick DEF OneAnswerAtATime
<1> QED BY <1>5, <1>7, <1>9, <1>10 DEF ConsoleInv

(* Others move the order.                                                   *)
LEMMA OthersKeep ==
    ASSUME ConsoleInv, Console!OthersMove
    PROVE  ConsoleInv'
<1>1. UNCHANGED <<listing, copy, click>>
  BY DEF Console!OthersMove
<1>2. RowAdded
  <2>1. PICK state \in Console!OrderStates, t \in Technicians : Console!Committed(state, t)
    BY MovesOfTheContract DEF Console!OthersMove, Console!OrderStates
  <2>2. PICK row \in Console!Rows : row = [state |-> state, technician |-> t]
    BY DEF Console!Rows
  <2> QED BY <2>1, <2>2 DEF Console!Committed, RowAdded
<1>3. Console!TypeOK'
  BY <1>1, <1>2, KnowledgeRemains DEF ConsoleInv, Console!TypeOK
<1>4. ListedFirst' /\ CopyIsRow'
  BY <1>1, <1>2, KnowledgeRemains DEF ConsoleInv, ListedFirst
<1>5. ASSUME NEW c \in Clicks PROVE ClickIsSound(click[c])'
  <2>1. PICK state \in ClickStates : state = click[c] /\ state = click'[c] /\ ClickIsSound(state)
    BY <1>1 DEF ConsoleInv, Console!TypeOK, ClickStates
  <2>2. ClickIsSound(state)'
    BY <1>1, <1>2, <2>1, KnowledgeRemains
  <2> QED BY <2>1, <2>2 DEF ClickIsSound
<1>6. OneAnswerAtATime'
  BY <1>1 DEF ConsoleInv, OneAnswerAtATime
<1> QED BY <1>3, <1>4, <1>5, <1>6 DEF ConsoleInv

LEMMA ConsoleInvIsInductive ==
    ASSUME ConsoleInv, Console!Next \/ UNCHANGED consoleVars
    PROVE  ConsoleInv'
<1>1. CASE UNCHANGED consoleVars
  BY <1>1
     DEF consoleVars, ConsoleInv, Console!TypeOK, ListedFirst, CopyIsRow, ClickIsSound,
         OneAnswerAtATime, IsRow, Known, Console!ViewOf
<1>2. CASE Console!Next
  BY <1>2, ListingKeeps, OthersKeep, ClickingKeeps, ServeAssignKeeps, ServeMoveKeeps,
     RefusedKeeps, AnsweredKeeps DEF Console!Next
<1> QED BY <1>1, <1>2

LEMMA ConsoleGoesForward ==
    ASSUME ConsoleInv, Console!Next \/ UNCHANGED consoleVars, copy # None
    PROVE  copy' # None /\ copy'.version >= copy.version
<1>1. copy.version \in Nat
  BY VersionsAreTyped DEF ConsoleInv, CopyIsRow, IsRow
<1>2. CASE UNCHANGED copy
  BY <1>1, <1>2
<1>3. ASSUME NEW c \in Clicks, Console!Answered(c)
      PROVE  copy' # None /\ copy'.version >= copy.version
  <2>1. copy' # None /\ copy'.version > copy.version /\ copy' \in Console!Copies
    BY <1>3, AnswerIsShown DEF Known, IsRow
  <2> QED BY <1>1, <2>1, VersionsAreTyped
<1>4. CASE Console!ShowOrders
  BY <1>4 DEF Console!ShowOrders, ConsoleInv, ListedFirst
<1>5. CASE Console!Next
  BY <1>2, <1>3, <1>4, <1>5
     DEF Console!Next, Console!ServeOrders, Console!OthersMove, Console!Assign,
         Console!Reassign, Console!Press, Console!ServeAssign, Console!ServeMove,
         Console!Refused
<1> QED BY <1>2, <1>5 DEF consoleVars

LEMMA ReassignmentsChange ==
    ASSUME ConsoleInv, Console!Next \/ UNCHANGED consoleVars, NEW c \in Clicks,
           click[c].pc = "sent", click[c].action = "REASSIGN_TECHNICIAN",
           click'[c] # click[c], order' # order
    PROVE  Console!Order'.technician # Console!Order.technician
<1>1. click \in [Clicks -> ClickStates]
  BY DEF ConsoleInv, Console!TypeOK, ClickStates
<1>2. Console!ServeMove(c)
  <2>1. PICK d \in Clicks : Console!ServeMove(d) \/ Console!ServeAssign(d)
    BY DEF Console!Next, Console!ServeOrders, Console!ShowOrders, Console!OthersMove,
           Console!Assign, Console!Reassign, Console!Press, Console!Refused,
           Console!Answered, consoleVars
  <2>2. d = c
    <3>1. \E next : click' = [click EXCEPT ![d] = next]
      BY <2>1 DEF Console!ServeMove, Console!ServeAssign, Console!Answer
    <3> QED BY <1>1, <3>1
  <2> QED BY <2>1, <2>2 DEF Console!ServeAssign
<1>3. /\ click[c] \in ClickStates /\ ClickIsSound(click[c])
      /\ order # <<>> /\ click[c].seen = Console!Order
  BY <1>2, MovesAreOfTheNewestRow
<1>4. /\ click[c].technician \in Technicians /\ click[c].technician # None
      /\ click[c].technician # Console!Order.technician
  BY <1>3, NoRowAssumption DEF ClickIsSound
<1>5. PICK t \in Technicians, move \in Console!OrderTransitions :
        t = click[c].technician /\ Console!Committed(move.to, t)
  BY <1>2, <1>4 DEF Console!ServeMove
<1>6. PICK row \in Console!Rows : row = [state |-> move.to, technician |-> t]
  BY MovesOfTheContract DEF Console!Rows
<1>7. order' = Append(order, row) /\ Len(order) < MaxVersion /\ row.technician = t
  BY <1>5, <1>6 DEF Console!Committed
<1>8. Console!Order'.technician = t
  BY <1>7, RowsRemain DEF ConsoleInv
<1> QED BY <1>4, <1>5, <1>8

-----------------------------------------------------------------------------
(* The client's page.                                                       *)

ListingStates == {Customer!Idle} \cup
                 [pc : {"sent", "listed", "ready"}, item : Customer!Items \cup {None},
                  late : BOOLEAN]

(* A copy of an order listed past its payment is of one that is so still;   *)
(* what its billing said, it said of such an order.                         *)
CopyIsSound(copied) ==
    copied # None =>
        /\ copied.version <= Len(rows)
        /\ copied.state \in Customer!PastPayment =>
             /\ rows # <<>> /\ Customer!State \in Customer!PastPayment
             /\ copied.billing # None => copied.billing \in billed

(* A load that crosses no other shows what is at least as new as the page.  *)
LoadIsSound(c) ==
    /\ c.pc \in {"sent", "listed", "ready"} => CopyIsSound(c.item)
    /\ c.pc \in {"listed", "ready"} /\ ~c.late /\ item # None =>
         c.item # None /\ c.item.version >= item.version

PaymentIsBilled ==
    rows # <<>> /\ Customer!State \in Customer!PastPayment => payment \in billed

CustomerInv ==
    /\ Customer!TypeOK /\ PaymentIsBilled
    /\ CopyIsSound(item)
    /\ \A l \in Loads : LoadIsSound(load[l])

LEMMA ListingKinds ==
    ASSUME NEW c \in ListingStates
    PROVE  /\ c.pc = "idle" <=> c = Customer!Idle
           /\ c.pc \in {"sent", "listed", "ready"} =>
                c.item \in Customer!Items \cup {None} /\ c.late \in BOOLEAN
BY DEF ListingStates, Customer!Idle

LEMMA ItemsAreTyped ==
    ASSUME NEW i \in Customer!Items
    PROVE  /\ i # None /\ i.version \in Nat \ {0} /\ i.version \in 1..MaxVersion
           /\ i.state \in Customer!OrderStates
           /\ i.billing \in Customer!PaymentViews \cup {None}
BY BoundsAssumption, NoRowAssumption DEF Customer!Items

LEMMA ClientMoves ==
    ASSUME NEW move \in Customer!OrderTransitions
    PROVE  /\ move.to \in Customer!OrderStates
           /\ move.from \in Customer!PastPayment => move.to \in Customer!PastPayment
BY DEF Customer!OrderTransitions, Customer!Transition, Customer!OrderStates, Customer!PastPayment

(* How the API moves: what is past payment stays so, and its billing is     *)
(* noted.                                                                   *)
ApiAdvances ==
    /\ rows' \in Seq(Customer!OrderStates) /\ Len(rows') <= MaxVersion
    /\ Len(rows) <= Len(rows')
    /\ payment' \in Customer!PaymentViews /\ billed' \subseteq Customer!PaymentViews
    /\ billed \subseteq billed'
    /\ rows # <<>> /\ Customer!State \in Customer!PastPayment =>
         rows' # <<>> /\ Customer!State' \in Customer!PastPayment
    /\ PaymentIsBilled'

LEMMA ApiMayStay ==
    ASSUME CustomerInv, UNCHANGED <<rows, payment, billed>>
    PROVE  ApiAdvances
BY DEF CustomerInv, Customer!TypeOK, ApiAdvances, PaymentIsBilled, Customer!State

LEMMA CopiesRemainSound ==
    ASSUME CustomerInv, ApiAdvances, NEW copied \in Customer!Items \cup {None},
           CopyIsSound(copied)
    PROVE  CopyIsSound(copied)'
<1>1. Len(rows) \in Nat /\ Len(rows') \in Nat
  BY DEF CustomerInv, Customer!TypeOK, ApiAdvances
<1>2. ASSUME copied # None PROVE copied.version <= Len(rows')
  BY <1>1, <1>2, ItemsAreTyped DEF CopyIsSound, ApiAdvances
<1> QED BY <1>2 DEF CopyIsSound, ApiAdvances

(* Whatever of the page steps with the API: sound copies and loads stay.    *)
LEMMA LoadsRemainSound ==
    ASSUME CustomerInv, ApiAdvances, NEW c \in ListingStates, LoadIsSound(c), UNCHANGED item
    PROVE  LoadIsSound(c)'
<1>1. c.pc \in {"sent", "listed", "ready"} => CopyIsSound(c.item)'
  BY ListingKinds, CopiesRemainSound DEF LoadIsSound
<1> QED BY <1>1 DEF LoadIsSound

LEMMA CustomerApiKeeps ==
    ASSUME CustomerInv, ApiAdvances, UNCHANGED <<item, load>>,
           loading' \in BOOLEAN, Customer!TypeOK'
    PROVE  CustomerInv'
<1>1. load \in [Loads -> ListingStates] /\ item \in Customer!Items \cup {None}
  BY DEF CustomerInv, Customer!TypeOK, ListingStates
<1>2. CopyIsSound(item)'
  <2>1. PICK i \in Customer!Items \cup {None} : i = item /\ i = item' /\ CopyIsSound(i)
    BY <1>1 DEF CustomerInv
  <2>2. CopyIsSound(i)'
    BY <2>1, CopiesRemainSound
  <2> QED BY <2>1, <2>2 DEF CopyIsSound
<1>3. ASSUME NEW l \in Loads PROVE LoadIsSound(load[l])'
  <2>1. PICK c \in ListingStates : c = load[l] /\ c = load'[l] /\ LoadIsSound(c)
    BY <1>1 DEF CustomerInv
  <2>2. LoadIsSound(c)'
    BY <2>1, LoadsRemainSound
  <2> QED BY <2>1, <2>2 DEF LoadIsSound
<1> QED BY <1>2, <1>3 DEF CustomerInv, ApiAdvances

(* A row more.                                                              *)
LEMMA CustomerRowAdded ==
    ASSUME CustomerInv, NEW state \in Customer!OrderStates, Customer!Committed(state)
    PROVE  /\ rows' \in Seq(Customer!OrderStates) /\ Len(rows') = Len(rows) + 1
           /\ Len(rows') <= MaxVersion /\ rows' # <<>> /\ Customer!State' = state
<1>1. rows \in Seq(Customer!OrderStates) /\ Len(rows) \in Nat /\ MaxVersion \in Nat
      /\ rows' = Append(rows, state) /\ Len(rows) < MaxVersion
  BY BoundsAssumption DEF CustomerInv, Customer!TypeOK, Customer!Committed
<1>2. rows' \in Seq(Customer!OrderStates) /\ Len(rows') = Len(rows) + 1
      /\ rows'[Len(rows) + 1] = state
  BY <1>1
<1>3. rows' # <<>>
  BY <1>1, <1>2
<1> QED BY <1>1, <1>2, <1>3 DEF Customer!State

(* What the billing says from then on is noted.                             *)
LEMMA BillingIsNoted ==
    ASSUME CustomerInv, Customer!Billed, payment' \in Customer!PaymentViews
    PROVE  /\ billed \subseteq billed' /\ billed' \subseteq Customer!PaymentViews
           /\ PaymentIsBilled'
BY DEF CustomerInv, Customer!TypeOK, Customer!Billed, PaymentIsBilled

LEMMA OrderMovesAdvance ==
    ASSUME CustomerInv, Customer!OrderMoves
    PROVE  ApiAdvances
<1>1. PICK state \in Customer!OrderStates :
        /\ Customer!Committed(state) /\ UNCHANGED payment /\ Customer!Billed
        /\ rows # <<>> /\ Customer!State \in Customer!PastPayment => state \in Customer!PastPayment
  <2>1. CASE rows = <<>> /\ Customer!Committed("TECNICO_ASIGNADO")
    BY <2>1 DEF Customer!OrderMoves, Customer!OrderStates
  <2>2. CASE rows # <<>>
    BY <2>2, ClientMoves DEF Customer!OrderMoves
  <2> QED BY <2>1, <2>2 DEF Customer!OrderMoves
<1>2. /\ rows' \in Seq(Customer!OrderStates) /\ Len(rows') = Len(rows) + 1
      /\ Len(rows') <= MaxVersion /\ rows' # <<>> /\ Customer!State' = state
  BY <1>1, CustomerRowAdded
<1>3. Len(rows) <= Len(rows')
  BY <1>2 DEF CustomerInv, Customer!TypeOK
<1>4. payment' \in Customer!PaymentViews
  BY <1>1 DEF CustomerInv, Customer!TypeOK
<1> QED BY <1>1, <1>2, <1>3, <1>4, BillingIsNoted DEF ApiAdvances

LEMMA VerdictAdvances ==
    ASSUME CustomerInv, NEW status \in Customer!PaymentViews, Customer!Verdict(status)
    PROVE  ApiAdvances
<1>1. rows # <<>> /\ payment' = status /\ Customer!Billed
  BY DEF Customer!Verdict
<1>2. CASE status = "APROBADO" /\ Customer!State = "PENDIENTE_PAGO"
  <2>1. Customer!Committed("PENDIENTE_CONFORMIDAD")
        /\ "PENDIENTE_CONFORMIDAD" \in Customer!OrderStates
        /\ "PENDIENTE_PAGO" \notin Customer!PastPayment
    BY <1>2 DEF Customer!Verdict, Customer!OrderStates, Customer!PastPayment
  <2>2. /\ rows' \in Seq(Customer!OrderStates) /\ Len(rows') = Len(rows) + 1
        /\ Len(rows') <= MaxVersion /\ rows' # <<>>
    BY <2>1, CustomerRowAdded
  <2>3. Len(rows) <= Len(rows')
    BY <2>2 DEF CustomerInv, Customer!TypeOK
  <2> QED BY <1>1, <1>2, <2>1, <2>2, <2>3, BillingIsNoted DEF ApiAdvances
<1>3. CASE UNCHANGED rows
  BY <1>1, <1>3, BillingIsNoted
     DEF ApiAdvances, CustomerInv, Customer!TypeOK, Customer!State
<1> QED BY <1>2, <1>3 DEF Customer!Verdict

LEMMA RevertAdvances ==
    ASSUME CustomerInv, NEW status \in Customer!PaymentViews, Customer!Revert(status)
    PROVE  ApiAdvances
<1>1. UNCHANGED rows /\ payment' = status /\ Customer!Billed
  BY DEF Customer!Revert
<1> QED BY <1>1, BillingIsNoted DEF ApiAdvances, CustomerInv, Customer!TypeOK, Customer!State

LEMMA ServePayAdvances ==
    ASSUME CustomerInv, NEW c \in Payers, Customer!ServePay(c)
    PROVE  ApiAdvances
<1>1. UNCHANGED rows /\ payment' \in Customer!PaymentViews /\ Customer!Billed
  BY DEF Customer!ServePay, Customer!PaymentViews
<1> QED BY <1>1, BillingIsNoted DEF ApiAdvances, CustomerInv, Customer!TypeOK, Customer!State

LEMMA ServeConformAdvances ==
    ASSUME CustomerInv, NEW c \in Payers, Customer!ServeConform(c)
    PROVE  ApiAdvances
<1>1. UNCHANGED payment /\ Customer!Billed
  BY DEF Customer!ServeConform
<1>2. payment' \in Customer!PaymentViews
  BY <1>1 DEF CustomerInv, Customer!TypeOK
<1>3. CASE UNCHANGED rows
  BY <1>1, <1>2, <1>3, BillingIsNoted
     DEF ApiAdvances, CustomerInv, Customer!TypeOK, Customer!State
<1>4. CASE Customer!Committed("CERRADA")
  <2>1. "CERRADA" \in Customer!OrderStates /\ "CERRADA" \in Customer!PastPayment
    BY DEF Customer!OrderStates, Customer!PastPayment
  <2>2. /\ rows' \in Seq(Customer!OrderStates) /\ Len(rows') = Len(rows) + 1
        /\ Len(rows') <= MaxVersion /\ rows' # <<>> /\ Customer!State' = "CERRADA"
    BY <1>4, <2>1, CustomerRowAdded
  <2>3. Len(rows) <= Len(rows')
    BY <2>2 DEF CustomerInv, Customer!TypeOK
  <2> QED BY <1>1, <1>2, <2>1, <2>2, <2>3, BillingIsNoted DEF ApiAdvances
<1> QED BY <1>3, <1>4 DEF Customer!ServeConform

(* A payment or a conformity answered.                                      *)
LEMMA AnswersAreTyped ==
    ASSUME CustomerInv, NEW c \in Payers, press[c].pc \in {"pay", "conform"},
           NEW pc \in {"refused", "link", "conformed"}, Customer!Answer(c, pc)
    PROVE  press' \in [Payers -> {Customer!Idle} \cup
                       [pc : {"pay", "conform", "refused", "link", "conformed"},
                        seen : 1..MaxVersion]]
<1>1. PICK seen \in 1..MaxVersion : seen = press[c].seen
  BY DEF CustomerInv, Customer!TypeOK, Customer!Idle
<1>2. press' = [press EXCEPT ![c] = [pc |-> pc, seen |-> seen]]
  BY <1>1 DEF Customer!Answer
<1> QED BY <1>2 DEF CustomerInv, Customer!TypeOK

LEMMA ApiStepsKeep ==
    ASSUME CustomerInv,
           \/ Customer!OrderMoves
           \/ \E status \in Customer!PaymentViews :
                Customer!Verdict(status) \/ Customer!Revert(status)
           \/ \E c \in Payers : Customer!ServePay(c) \/ Customer!ServeConform(c)
    PROVE  CustomerInv'
<1>1. ApiAdvances
  BY OrderMovesAdvance, VerdictAdvances, RevertAdvances, ServePayAdvances,
     ServeConformAdvances
<1>2. UNCHANGED <<item, loading, load>>
  BY DEF Customer!OrderMoves, Customer!Verdict, Customer!Revert, Customer!ServePay,
         Customer!ServeConform, Customer!page
<1>3. press' \in [Payers -> {Customer!Idle} \cup
                  [pc : {"pay", "conform", "refused", "link", "conformed"},
                   seen : 1..MaxVersion]]
  <2>1. CASE UNCHANGED press
    BY <2>1 DEF CustomerInv, Customer!TypeOK
  <2>2. CASE \E c \in Payers : Customer!ServePay(c) \/ Customer!ServeConform(c)
    BY <2>2, AnswersAreTyped DEF Customer!ServePay, Customer!ServeConform
  <2> QED BY <2>1, <2>2
          DEF Customer!OrderMoves, Customer!Verdict, Customer!Revert, Customer!page
<1>4. Customer!TypeOK'
  BY <1>1, <1>2, <1>3 DEF CustomerInv, Customer!TypeOK, ApiAdvances
<1>5. loading' \in BOOLEAN
  BY <1>4 DEF Customer!TypeOK
<1> QED BY <1>1, <1>2, <1>4, <1>5, CustomerApiKeeps

(* The page steps while the API stays.                                      *)
LEMMA LoadSteps ==
    ASSUME CustomerInv, UNCHANGED <<rows, payment, billed, item>>, loading' \in BOOLEAN,
           press' \in [Payers -> {Customer!Idle} \cup
                       [pc : {"pay", "conform", "refused", "link", "conformed"},
                        seen : 1..MaxVersion]],
           NEW l \in Loads, NEW next \in ListingStates, LoadIsSound(next),
           load' = [load EXCEPT ![l] = next]
    PROVE  CustomerInv'
<1>1. /\ load \in [Loads -> ListingStates] /\ load' \in [Loads -> ListingStates]
      /\ load'[l] = next /\ \A k \in Loads \ {l} : load'[k] = load[k]
  BY DEF CustomerInv, Customer!TypeOK, ListingStates
<1>2. Customer!TypeOK'
  BY <1>1 DEF CustomerInv, Customer!TypeOK, ListingStates
<1>3. PaymentIsBilled' /\ CopyIsSound(item)'
  BY DEF CustomerInv, PaymentIsBilled, CopyIsSound, Customer!State
<1>4. ASSUME NEW k \in Loads PROVE LoadIsSound(load[k])'
  <2>1. PICK c \in ListingStates : c = load'[k] /\ LoadIsSound(c)
    BY <1>1 DEF CustomerInv
  <2>2. LoadIsSound(c)'
    BY <2>1 DEF LoadIsSound, CopyIsSound, Customer!State
  <2> QED BY <2>1, <2>2 DEF LoadIsSound
<1> QED BY <1>2, <1>3, <1>4 DEF CustomerInv

LEMMA PressIsTyped ==
    ASSUME CustomerInv
    PROVE  press \in [Payers -> {Customer!Idle} \cup
                      [pc : {"pay", "conform", "refused", "link", "conformed"},
                       seen : 1..MaxVersion]]
BY DEF CustomerInv, Customer!TypeOK

LEMMA BegunIsSound ==
    /\ Customer!Begun \in ListingStates /\ LoadIsSound(Customer!Begun)
    /\ Customer!Idle \in ListingStates /\ LoadIsSound(Customer!Idle)
    /\ Customer!Begun.pc = "sent" /\ Customer!Begun.item = None /\ Customer!Idle.pc = "idle"
<1>1. /\ Customer!Begun \in ListingStates /\ Customer!Begun.pc = "sent"
      /\ Customer!Begun.item = None
      /\ Customer!Idle \in ListingStates /\ Customer!Idle.pc = "idle"
  BY DEF Customer!Begun, Customer!LoadOf, Customer!Idle, ListingStates
<1> QED BY <1>1 DEF LoadIsSound, CopyIsSound

LEMMA LoadsBeginAndEnd ==
    ASSUME CustomerInv, NEW l \in Loads,
           \/ Customer!Refresh(l) \/ Customer!NotLoaded(l)
           \/ \E c \in Payers : Customer!Conformed(c, l)
    PROVE  CustomerInv'
<1>1. UNCHANGED <<rows, payment, billed, item>> /\ loading' \in BOOLEAN
  BY DEF Customer!Refresh, Customer!NotLoaded, Customer!Conformed
<1>2. PICK next \in {Customer!Begun, Customer!Idle} : load' = [load EXCEPT ![l] = next]
  BY DEF Customer!Refresh, Customer!NotLoaded, Customer!Conformed, Customer!Under
<1>3. press' \in [Payers -> {Customer!Idle} \cup
                  [pc : {"pay", "conform", "refused", "link", "conformed"},
                   seen : 1..MaxVersion]]
  BY PressIsTyped DEF Customer!Refresh, Customer!NotLoaded, Customer!Conformed
<1> QED BY <1>1, <1>2, <1>3, BegunIsSound, LoadSteps

LEMMA ServeListKeeps ==
    ASSUME CustomerInv, NEW l \in Loads, Customer!ServeList(l)
    PROVE  CustomerInv'
<1>1. /\ load[l] \in ListingStates /\ load[l].pc = "sent"
      /\ UNCHANGED <<rows, payment, billed, item, loading, press>> /\ loading \in BOOLEAN
  BY DEF Customer!ServeList, CustomerInv, Customer!TypeOK, ListingStates
<1>2. PICK late \in BOOLEAN : late = load[l].late
  BY <1>1, ListingKinds
<1>3. PICK listed : listed = Customer!Listing
  OBVIOUS
<1>4. /\ listed \in Customer!Items \cup {None} /\ CopyIsSound(listed)
      /\ item # None => listed # None /\ listed.version >= item.version
  <2>1. rows \in Seq(Customer!OrderStates) /\ Len(rows) \in Nat /\ Len(rows) <= MaxVersion
    BY DEF CustomerInv, Customer!TypeOK
  <2>2. item # None => item.version \in Nat \ {0} /\ item.version <= Len(rows)
    BY ItemsAreTyped DEF CustomerInv, Customer!TypeOK, CopyIsSound
  <2>3. CASE rows = <<>>
    BY <1>3, <2>2, <2>3 DEF Customer!Listing, CopyIsSound
  <2>4. CASE rows # <<>>
    <3>1. /\ Len(rows) \in 1..MaxVersion /\ Customer!State \in Customer!OrderStates
      BY <2>1, <2>4, BoundsAssumption, EmptySeq DEF Customer!State
    <3>2. listed = [version |-> Len(rows), state |-> Customer!State, billing |-> None]
      BY <1>3, <2>4 DEF Customer!Listing
    <3>3. listed \in Customer!Items
      BY <3>1, <3>2 DEF Customer!Items
    <3>4. listed.version = Len(rows) /\ listed.state = Customer!State /\ listed.billing = None
      BY <3>2
    <3>5. listed # None
      BY <3>3, NoRowAssumption
    <3>6. CopyIsSound(listed)
      BY <2>1, <2>4, <3>4 DEF CopyIsSound
    <3> QED BY <2>1, <2>2, <3>3, <3>4, <3>5, <3>6
  <2> QED BY <2>3, <2>4
<1>5. PICK next : next = [load[l] EXCEPT !.pc = "listed", !.item = listed]
  OBVIOUS
<1>6. load[l] \in [pc : {"sent", "listed", "ready"}, item : Customer!Items \cup {None},
                   late : BOOLEAN]
  BY <1>1 DEF ListingStates, Customer!Idle
<1>7. next \in ListingStates /\ next.pc = "listed" /\ next.item = listed
  BY <1>4, <1>5, <1>6 DEF ListingStates
<1>8. LoadIsSound(next)
  BY <1>4, <1>7 DEF LoadIsSound
<1>9. load' = [load EXCEPT ![l] = next]
  BY <1>3, <1>5 DEF Customer!ServeList, Customer!Under
<1> QED BY <1>1, <1>7, <1>8, <1>9, PressIsTyped, LoadSteps

(* The billing is asked for after the order was listed.                     *)
LEMMA HydrateKeeps ==
    ASSUME CustomerInv, NEW l \in Loads, Customer!Hydrate(l)
    PROVE  CustomerInv'
<1>1. /\ load[l] \in ListingStates /\ load[l].pc = "listed" /\ LoadIsSound(load[l])
      /\ UNCHANGED <<rows, payment, billed, item, loading, press>> /\ loading \in BOOLEAN
  BY DEF Customer!Hydrate, CustomerInv, Customer!TypeOK, ListingStates
<1>2. PICK c \in [pc : {"sent", "listed", "ready"}, item : Customer!Items \cup {None},
                  late : BOOLEAN] : c = load[l]
  BY <1>1 DEF ListingStates, Customer!Idle
<1>3. CASE ~Customer!Billable(c.item)
  <2>1. PICK next : next = [c EXCEPT !.pc = "ready"]
    OBVIOUS
  <2>2. next \in ListingStates /\ next.pc = "ready" /\ next.item = c.item /\ next.late = c.late
    BY <1>2, <2>1 DEF ListingStates
  <2>3. load' = [load EXCEPT ![l] = next]
    BY <1>2, <1>3, <2>1 DEF Customer!Hydrate, Customer!Under
  <2>4. LoadIsSound(next)
    BY <1>1, <1>2, <2>2 DEF LoadIsSound
  <2> QED BY <1>1, <2>2, <2>3, <2>4, PressIsTyped, LoadSteps
<1>4. CASE Customer!Billable(c.item)
  <2>1. PICK listed \in Customer!Items : listed = c.item /\ CopyIsSound(listed) /\ listed # None
    BY <1>1, <1>2, <1>4 DEF Customer!Billable, LoadIsSound
  <2>2. PICK billing \in {payment, None} :
          Customer!Under(l, [load[l] EXCEPT !.pc = "ready", !.item.billing = billing])
    BY <1>2, <1>4 DEF Customer!Hydrate
  <2>3. PICK priced : priced = [listed EXCEPT !.billing = billing]
    OBVIOUS
  <2>4. /\ priced \in Customer!Items /\ priced.version = listed.version
        /\ priced.state = listed.state /\ priced.billing = billing
    BY <2>1, <2>2, <2>3 DEF Customer!Items, CustomerInv, Customer!TypeOK
  <2>5. PICK next : next = [c EXCEPT !.pc = "ready", !.item = priced]
    OBVIOUS
  <2>6. next \in ListingStates /\ next.pc = "ready" /\ next.item = priced /\ next.late = c.late
    BY <2>4, <2>5 DEF ListingStates
  <2>7. load' = [load EXCEPT ![l] = next]
    BY <1>2, <2>1, <2>2, <2>3, <2>5 DEF Customer!Under
  <2>8. CopyIsSound(priced) /\ priced # None
    BY <2>1, <2>2, <2>4, NoRowAssumption DEF CopyIsSound, CustomerInv, PaymentIsBilled
  <2>9. LoadIsSound(next)
    BY <1>1, <1>2, <2>1, <2>4, <2>6, <2>8 DEF LoadIsSound
  <2> QED BY <1>1, <2>6, <2>7, <2>9, PressIsTyped, LoadSteps
<1> QED BY <1>3, <1>4

(* A page shown anew: whatever is loaded beside it is late, or just begun.  *)
LEMMA PageShows ==
    ASSUME CustomerInv, UNCHANGED <<rows, payment, billed>>, loading' \in BOOLEAN,
           press' \in [Payers -> {Customer!Idle} \cup
                       [pc : {"pay", "conform", "refused", "link", "conformed"},
                        seen : 1..MaxVersion]],
           NEW copied \in Customer!Items \cup {None}, CopyIsSound(copied), item' = copied,
           NEW after \in [Loads -> ListingStates], load' = after,
           \A l \in Loads :
             /\ after[l].pc \in {"sent", "listed", "ready"} => CopyIsSound(after[l].item)
             /\ after[l].pc \in {"listed", "ready"} => after[l].late
    PROVE  CustomerInv'
<1>1. Customer!TypeOK'
  BY DEF CustomerInv, Customer!TypeOK, ListingStates
<1>2. PaymentIsBilled' /\ CopyIsSound(item)'
  BY DEF CustomerInv, PaymentIsBilled, CopyIsSound, Customer!State
<1>3. ASSUME NEW l \in Loads PROVE LoadIsSound(load[l])'
  <2>1. PICK c : c = after[l]
    OBVIOUS
  <2>2. LoadIsSound(c)'
    BY <2>1 DEF LoadIsSound, CopyIsSound, Customer!State
  <2> QED BY <2>1, <2>2 DEF LoadIsSound
<1> QED BY <1>1, <1>2, <1>3 DEF CustomerInv

LEMMA FirstLoadsAreSound ==
    ASSUME NEW first
    PROVE  /\ Customer!FirstLoad(first) \in [Loads -> ListingStates]
           /\ \A l \in Loads :
                /\ Customer!FirstLoad(first)[l].pc \in {"sent", "idle"}
                /\ Customer!FirstLoad(first)[l].pc = "sent" =>
                     Customer!FirstLoad(first)[l].item = None
BY BegunIsSound DEF Customer!FirstLoad

LEMMA ShowKeeps ==
    ASSUME CustomerInv, NEW l \in Loads, Customer!Show(l)
    PROVE  CustomerInv'
<1>1. /\ load \in [Loads -> ListingStates] /\ load[l].pc = "ready" /\ LoadIsSound(load[l])
      /\ UNCHANGED <<rows, payment, billed, press>> /\ loading' \in BOOLEAN
  BY DEF Customer!Show, CustomerInv, Customer!TypeOK, ListingStates
<1>2. PICK copied \in Customer!Items \cup {None} :
        copied = load[l].item /\ CopyIsSound(copied) /\ item' = copied
  BY <1>1, ListingKinds DEF LoadIsSound, Customer!Show
<1>3. PICK after :
        after = [k \in Loads |-> IF k = l \/ load[k] = Customer!Idle THEN Customer!Idle
                                 ELSE [load[k] EXCEPT !.late = TRUE]]
  OBVIOUS
<1>4. ASSUME NEW k \in Loads
      PROVE  /\ after[k] \in ListingStates
             /\ after[k].pc \in {"sent", "listed", "ready"} => CopyIsSound(after[k].item)
             /\ after[k].pc \in {"listed", "ready"} => after[k].late
  <2>1. CASE k = l \/ load[k] = Customer!Idle
    BY <1>3, <2>1, BegunIsSound
  <2>2. CASE ~(k = l \/ load[k] = Customer!Idle)
    <3>1. PICK c \in [pc : {"sent", "listed", "ready"}, item : Customer!Items \cup {None},
                      late : BOOLEAN] : c = load[k] /\ LoadIsSound(c)
      BY <1>1, <2>2 DEF ListingStates, CustomerInv
    <3>2. after[k] = [c EXCEPT !.late = TRUE]
      BY <1>3, <2>2, <3>1
    <3>3. /\ after[k] \in ListingStates /\ after[k].late /\ after[k].item = c.item
          /\ after[k].pc = c.pc
      BY <3>1, <3>2 DEF ListingStates
    <3> QED BY <3>1, <3>3 DEF LoadIsSound
  <2> QED BY <2>1, <2>2
<1>5. after \in [Loads -> ListingStates]
  BY <1>3, <1>4
<1>6. load' = after
  BY <1>3 DEF Customer!Show
<1>7. press' \in [Payers -> {Customer!Idle} \cup
                  [pc : {"pay", "conform", "refused", "link", "conformed"},
                   seen : 1..MaxVersion]]
  BY <1>1, PressIsTyped
<1> QED BY <1>1, <1>2, <1>4, <1>5, <1>6, <1>7, PageShows

LEMMA PaysKeeps ==
    ASSUME CustomerInv, NEW c \in Payers, NEW l \in Loads, Customer!Pays(c, l)
    PROVE  CustomerInv'
<1>1. PICK after : after = Customer!FirstLoad(l) /\ load' = after
  BY DEF Customer!Pays
<1>2. /\ after \in [Loads -> ListingStates]
      /\ \A k \in Loads :
           /\ after[k].pc \in {"sent", "listed", "ready"} => CopyIsSound(after[k].item)
           /\ after[k].pc \in {"listed", "ready"} => after[k].late
  BY <1>1, FirstLoadsAreSound DEF CopyIsSound
<1>3. /\ UNCHANGED <<rows, payment, billed>> /\ loading' \in BOOLEAN /\ item' = None
      /\ press' \in [Payers -> {Customer!Idle} \cup
                     [pc : {"pay", "conform", "refused", "link", "conformed"},
                      seen : 1..MaxVersion]]
  BY DEF Customer!Pays, Customer!NoClick
<1>4. CopyIsSound(None)
  BY DEF CopyIsSound
<1> QED BY <1>1, <1>2, <1>3, <1>4, PageShows

(* A press, and its refusal, change nothing else.                           *)
LEMMA PressesKeep ==
    ASSUME CustomerInv, NEW c \in Payers,
           Customer!Press(c, "pay") \/ Customer!Press(c, "conform") \/ Customer!Refused(c)
    PROVE  CustomerInv'
<1>1. UNCHANGED <<rows, payment, billed, item, loading, load>>
  BY DEF Customer!Press, Customer!Refused
<1>2. PICK next \in {Customer!Idle} \cup
                    [pc : {"pay", "conform", "refused", "link", "conformed"},
                     seen : 1..MaxVersion] :
        press' = [press EXCEPT ![c] = next]
  <2>1. CASE Customer!Refused(c)
    BY <2>1 DEF Customer!Refused
  <2>2. CASE Customer!Press(c, "pay") \/ Customer!Press(c, "conform")
    BY <2>2, ItemsAreTyped DEF Customer!Press, CustomerInv, Customer!TypeOK
  <2> QED BY <2>1, <2>2
<1>3. Customer!TypeOK'
  BY <1>1, <1>2 DEF CustomerInv, Customer!TypeOK
<1>4. ApiAdvances
  BY <1>1, ApiMayStay
<1>5. loading' \in BOOLEAN
  BY <1>3 DEF Customer!TypeOK
<1> QED BY <1>1, <1>3, <1>4, <1>5, CustomerApiKeeps

LEMMA CustomerInvInitially ==
    ASSUME Customer!Init
    PROVE  CustomerInv
<1>1. PICK first : load = Customer!FirstLoad(first)
  BY DEF Customer!Init
<1>2. Customer!TypeOK
  <2>1. load \in [Loads -> ListingStates]
    BY <1>1, FirstLoadsAreSound
  <2>2. rows \in Seq(Customer!OrderStates) /\ Len(rows) <= MaxVersion
    BY BoundsAssumption, EmptySeq DEF Customer!Init
  <2> QED BY <2>1, <2>2 DEF Customer!Init, Customer!TypeOK, Customer!PaymentViews,
                            Customer!NoClick, ListingStates
<1>3. PaymentIsBilled /\ CopyIsSound(item) /\ item = None
  BY DEF Customer!Init, PaymentIsBilled, CopyIsSound
<1>4. ASSUME NEW l \in Loads PROVE LoadIsSound(load[l])
  BY <1>1, <1>3, FirstLoadsAreSound DEF LoadIsSound, CopyIsSound
<1> QED BY <1>2, <1>3, <1>4 DEF CustomerInv

LEMMA CustomerInvIsInductive ==
    ASSUME CustomerInv, Customer!Next \/ UNCHANGED customerVars
    PROVE  CustomerInv'
<1>1. CASE UNCHANGED customerVars
  <2>1. ApiAdvances /\ UNCHANGED <<item, load>> /\ loading' \in BOOLEAN /\ Customer!TypeOK'
    BY <1>1, ApiMayStay DEF customerVars, CustomerInv, Customer!TypeOK
  <2> QED BY <2>1, CustomerApiKeeps
<1>2. CASE \/ Customer!OrderMoves
           \/ \E status \in Customer!PaymentViews :
                Customer!Verdict(status) \/ Customer!Revert(status)
           \/ \E c \in Payers : Customer!ServePay(c) \/ Customer!ServeConform(c)
  BY <1>2, ApiStepsKeep
<1>3. ASSUME NEW l \in Loads, Customer!Refresh(l) \/ Customer!LoadGoesOn(l)
      PROVE  CustomerInv'
  BY <1>3, LoadsBeginAndEnd, ServeListKeeps, HydrateKeeps, ShowKeeps DEF Customer!LoadGoesOn
<1>4. ASSUME NEW c \in Payers,
             \/ Customer!Press(c, "pay") \/ Customer!Press(c, "conform") \/ Customer!Refused(c)
             \/ \E l \in Loads : Customer!Conformed(c, l) \/ Customer!Pays(c, l)
      PROVE  CustomerInv'
  BY <1>4, PressesKeep, LoadsBeginAndEnd, PaysKeeps
<1> QED BY <1>1, <1>2, <1>3, <1>4 DEF Customer!Next

LEMMA CustomerShowsPaid ==
    ASSUME CustomerInv
    PROVE  Customer!PaidAsShown
BY DEF CustomerInv, CopyIsSound, Customer!PaidAsShown

(* Only a load that is shown takes the page elsewhere.                      *)
LEMMA CustomerGoesForward ==
    ASSUME CustomerInv, Customer!Next, NEW l \in Loads,
           item # None, load[l] # Customer!Idle, load[l].pc = "ready",
           load'[l] = Customer!Idle, item' # None
    PROVE  item'.version >= item.version \/ load[l].late
<1>1. load \in [Loads -> ListingStates] /\ LoadIsSound(load[l]) /\ item \in Customer!Items
  BY DEF CustomerInv, Customer!TypeOK, ListingStates
<1>2. load[l].late \in BOOLEAN
  BY <1>1, ListingKinds
<1>3. CASE Customer!Show(l)
  BY <1>1, <1>2, <1>3 DEF Customer!Show, LoadIsSound
<1>4. CASE UNCHANGED item
  BY <1>1, <1>4, ItemsAreTyped
<1>5. ASSUME NEW k \in Loads \ {l}, Customer!Show(k) PROVE FALSE
  <2>1. PICK c \in [pc : {"sent", "listed", "ready"}, item : Customer!Items \cup {None},
                    late : BOOLEAN] : c = load[l]
    BY <1>1 DEF ListingStates
  <2>2. load'[l] = [c EXCEPT !.late = TRUE]
    BY <1>5, <2>1 DEF Customer!Show
  <2> QED BY <2>1, <2>2, BegunIsSound
<1>6. ASSUME NEW c \in Payers, NEW k \in Loads, Customer!Pays(c, k) PROVE FALSE
  BY <1>6 DEF Customer!Pays
<1>7. UNCHANGED item \/ (\E k \in Loads : Customer!Show(k))
                     \/ (\E c \in Payers, k \in Loads : Customer!Pays(c, k))
  BY DEF Customer!Next, Customer!LoadGoesOn, Customer!OrderMoves, Customer!Verdict,
         Customer!Revert, Customer!Refresh, Customer!ServeList, Customer!Hydrate,
         Customer!NotLoaded, Customer!Press, Customer!ServePay, Customer!ServeConform,
         Customer!Refused, Customer!Conformed, Customer!page
<1> QED BY <1>3, <1>4, <1>5, <1>6, <1>7

-----------------------------------------------------------------------------
(* The panel of a closed order.                                             *)

PanelListings == [pc : {"sent", "rated"}, rating : {Panel!NotYet, "found", "none", "refused"},
                  list : {Panel!NotYet, "found", "refused"}, items : Seq(Panel!Entries),
                  late : BOOLEAN]
PanelLoadStates == {Panel!Idle} \cup PanelListings
PanelCalls == {Panel!Idle} \cup [pc : {"sent", "rated", "refused"}]
                \cup [pc : {"opened"}, id : 1..MaxIncidents]

OnlyFirstIsActive(entries) == \A i \in 1..Len(entries) : entries[i].active => i = 1

PanelTypes ==
    /\ rating \in BOOLEAN /\ rated \in BOOLEAN /\ crossed \in BOOLEAN
    /\ incident \in Seq(BOOLEAN) /\ Len(incident) <= MaxIncidents
    /\ incidents \in Seq(Panel!Entries)
    /\ submitting \in {"rating", "incident", None}
    /\ call \in PanelCalls
    /\ panelLoad \in [PanelLoads -> PanelLoadStates]

(* A load saw a rating only if there is one, and none, unless the panel has *)
(* changed since, only if the panel shows none.                             *)
PanelLoadIsSound(c) ==
    c # Panel!Idle =>
      /\ OnlyFirstIsActive(c.items)
      /\ c.rating = "found" => rating
      /\ c.rating = "none" /\ ~c.late => ~rated
      /\ c.pc = "rated" => c.rating = Panel!NotYet

(* An incident is opened where none is active, unless a list was loaded     *)
(* meanwhile.                                                               *)
OpenedAlone ==
    crossed \/ /\ OnlyFirstIsActive(incidents)
               /\ submitting = "incident" => Panel!MayOpen

PanelInv ==
    /\ PanelTypes
    /\ \A i \in 1..Len(incident) : incident[i] => i = Len(incident)
    /\ rated \/ call.pc = "rated" => rating
    /\ call.pc = "opened" => submitting = "incident"
    /\ OpenedAlone
    /\ \A l \in PanelLoads : PanelLoadIsSound(panelLoad[l])

LEMMA PanelInvIsTyped ==
    ASSUME PanelInv
    PROVE  Panel!TypeOK
<1>1. ASSUME NEW l \in PanelLoads, panelLoad[l] # Panel!Idle
      PROVE  /\ panelLoad[l].pc \in {"sent", "rated"}
             /\ panelLoad[l].rating \in {Panel!NotYet, "found", "none", "refused"}
             /\ panelLoad[l].list \in {Panel!NotYet, "found", "refused"}
             /\ \A i \in 1..Len(panelLoad[l].items) : panelLoad[l].items[i] \in Panel!Entries
  <2>1. PICK c \in PanelListings : c = panelLoad[l]
    BY <1>1 DEF PanelInv, PanelTypes, PanelLoadStates
  <2> QED BY <2>1 DEF PanelListings
<1>2. \A i \in 1..Len(incidents) : incidents[i] \in Panel!Entries
  BY DEF PanelInv, PanelTypes
<1> QED BY <1>1, <1>2 DEF PanelInv, PanelTypes, PanelCalls, Panel!TypeOK

(* Cardinality as AftercarePanel extends it is Cardinality.                 *)
LEMMA SameCardinality == \A S : Panel!Cardinality(S) = Cardinality(S)
BY DEF Panel!Cardinality, Cardinality

LEMMA PanelListsOneActive ==
    ASSUME PanelInv
    PROVE  Panel!OneActiveListed
<1> DEFINE actives == {i \in 1..Len(incidents) : incidents[i].active}
<1>1. CASE crossed
  BY <1>1 DEF Panel!OneActiveListed
<1>2. CASE ~crossed
  <2>1. actives \in SUBSET {1}
    BY <1>2 DEF PanelInv, OpenedAlone, OnlyFirstIsActive
  <2> HIDE DEF actives
  <2>2. actives = {} \/ actives = {1}
    BY <2>1
  <2>3. Cardinality(actives) \in {0, 1}
    <3>1. Cardinality({}) = 0 /\ Cardinality({1}) = 1
      BY FS_EmptySet, FS_Singleton
    <3> QED BY <2>2, <3>1
  <2>4. Panel!Cardinality(actives) <= 1
    BY <2>3, SameCardinality
  <2> QED BY <2>4 DEF Panel!OneActiveListed, actives
<1> QED BY <1>1, <1>2

LEMMA PanelInvInitially ==
    ASSUME Panel!Init
    PROVE  PanelInv
<1>1. PanelTypes
  <2>1. incident \in Seq(BOOLEAN) /\ Len(incident) = 0 /\ incidents \in Seq(Panel!Entries)
    BY EmptySeq DEF Panel!Init
  <2>2. call \in PanelCalls /\ panelLoad \in [PanelLoads -> PanelLoadStates]
    BY DEF Panel!Init, PanelCalls, PanelLoadStates
  <2>3. Len(incident) <= MaxIncidents
    BY <2>1, BoundsAssumption
  <2> QED BY <2>1, <2>2, <2>3 DEF Panel!Init, PanelTypes
<1>2. Len(incident) = 0 /\ Len(incidents) = 0 /\ submitting # "incident"
  BY NoRowAssumption DEF Panel!Init
<1>3. call.pc = "idle" /\ ~rated
  BY DEF Panel!Init, Panel!Idle
<1>4. \A l \in PanelLoads : PanelLoadIsSound(panelLoad[l])
  BY DEF Panel!Init, PanelLoadIsSound
<1> QED BY <1>1, <1>2, <1>3, <1>4 DEF PanelInv, OpenedAlone, OnlyFirstIsActive

(* What the panel shows stays, and what of the API changes leaves a rating  *)
(* that is given and one active incident at most.                           *)
LEMMA PanelApiKeeps ==
    ASSUME PanelInv, UNCHANGED <<rated, incidents, submitting, panelLoad, crossed>>,
           rating' \in BOOLEAN, rating => rating',
           incident' \in Seq(BOOLEAN), Len(incident') <= MaxIncidents,
           \A i \in 1..Len(incident') : incident'[i] => i = Len(incident'),
           call' \in PanelCalls, call'.pc = "rated" => rating',
           call'.pc = "opened" => submitting = "incident"
    PROVE  PanelInv'
<1>1. PanelTypes'
  BY DEF PanelInv, PanelTypes
<1>2. OpenedAlone'
  BY DEF PanelInv, OpenedAlone, OnlyFirstIsActive, Panel!MayOpen
<1>3. ASSUME NEW l \in PanelLoads PROVE PanelLoadIsSound(panelLoad[l])'
  BY <1>1 DEF PanelInv, PanelTypes, PanelLoadIsSound
<1>4. rated' \/ call'.pc = "rated" => rating'
  BY DEF PanelInv
<1> QED BY <1>1, <1>2, <1>3, <1>4 DEF PanelInv

LEMMA OpenedIsLast ==
    ASSUME PanelInv, Panel!NoneActive, Panel!Opens
    PROVE  /\ incident' \in Seq(BOOLEAN) /\ Len(incident') <= MaxIncidents
           /\ Len(incident') \in 1..MaxIncidents
           /\ \A i \in 1..Len(incident') : incident'[i] => i = Len(incident')
<1>1. /\ incident \in Seq(BOOLEAN) /\ Len(incident) \in Nat /\ MaxIncidents \in Nat
      /\ Len(incident) < MaxIncidents /\ incident' = Append(incident, TRUE)
  BY BoundsAssumption DEF PanelInv, PanelTypes, Panel!Opens
<1>2. /\ incident' \in Seq(BOOLEAN) /\ Len(incident') = Len(incident) + 1
      /\ \A i \in 1..Len(incident) : incident'[i] = incident[i]
  BY <1>1
<1> QED BY <1>1, <1>2 DEF Panel!NoneActive

LEMMA OthersMoveKeeps ==
    ASSUME PanelInv, Panel!OthersMove
    PROVE  PanelInv'
<1>1. UNCHANGED <<rated, incidents, submitting, call, panelLoad, crossed>>
  BY DEF Panel!OthersMove, Panel!panel
<1>2. rating' \in BOOLEAN /\ (rating => rating')
  BY DEF Panel!OthersMove, PanelInv, PanelTypes
<1>3. /\ incident' \in Seq(BOOLEAN) /\ Len(incident') <= MaxIncidents
      /\ \A i \in 1..Len(incident') : incident'[i] => i = Len(incident')
  <2>1. CASE UNCHANGED incident
    BY <2>1 DEF PanelInv, PanelTypes
  <2>2. CASE Panel!NoneActive /\ Panel!Opens
    BY <2>2, OpenedIsLast
  <2>3. ASSUME NEW i \in 1..Len(incident), incident' = [incident EXCEPT ![i] = FALSE]
        PROVE  <1>3
    <3>1. /\ incident \in Seq(BOOLEAN) /\ incident' \in Seq(BOOLEAN)
          /\ Len(incident') = Len(incident) /\ Len(incident) <= MaxIncidents
          /\ \A k \in 1..Len(incident) : incident'[k] => incident[k]
      BY <2>3 DEF PanelInv, PanelTypes
    <3> QED BY <3>1 DEF PanelInv
  <2> QED BY <2>1, <2>2, <2>3 DEF Panel!OthersMove
<1>4. call' \in PanelCalls /\ (call'.pc = "rated" => rating')
      /\ (call'.pc = "opened" => submitting = "incident")
  BY <1>1, <1>2 DEF PanelInv, PanelTypes
<1> QED BY <1>1, <1>2, <1>3, <1>4, PanelApiKeeps

LEMMA PanelServeKeeps ==
    ASSUME PanelInv, Panel!Serve
    PROVE  PanelInv'
<1>1. UNCHANGED <<rated, incidents, submitting, panelLoad, crossed>>
  BY DEF Panel!Serve
<1>2. /\ [pc |-> "rated"] \in PanelCalls /\ [pc |-> "refused"] \in PanelCalls
      /\ [pc |-> "rated"].pc = "rated" /\ [pc |-> "refused"].pc = "refused"
  BY DEF PanelCalls
<1>3. CASE submitting = "rating" /\ ~rating /\ rating' = TRUE /\ UNCHANGED incident
           /\ call' \in {[pc |-> "rated"], [pc |-> "refused"]}
  <2>1. /\ rating' \in BOOLEAN /\ (rating => rating')
        /\ incident' \in Seq(BOOLEAN) /\ Len(incident') <= MaxIncidents
        /\ \A i \in 1..Len(incident') : incident'[i] => i = Len(incident')
    BY <1>3 DEF PanelInv, PanelTypes
  <2>2. call' \in PanelCalls /\ call'.pc # "opened"
    BY <1>2, <1>3
  <2> QED BY <1>1, <1>3, <2>1, <2>2, PanelApiKeeps
<1>4. CASE submitting = "incident" /\ Panel!NoneActive /\ Panel!Opens /\ UNCHANGED rating
           /\ call' \in {Panel!Opened, [pc |-> "refused"]}
  <2>1. /\ incident' \in Seq(BOOLEAN) /\ Len(incident') <= MaxIncidents
        /\ Len(incident') \in 1..MaxIncidents
        /\ \A i \in 1..Len(incident') : incident'[i] => i = Len(incident')
    BY <1>4, OpenedIsLast
  <2>2. call' \in PanelCalls /\ call'.pc # "rated"
    BY <1>2, <1>4, <2>1 DEF Panel!Opened, PanelCalls
  <2>3. rating' \in BOOLEAN /\ (rating => rating')
    BY <1>4 DEF PanelInv, PanelTypes
  <2> QED BY <1>1, <1>4, <2>1, <2>2, <2>3, PanelApiKeeps
<1>5. CASE call' = [pc |-> "refused"] /\ UNCHANGED <<rating, incident>>
  <2>1. /\ rating' \in BOOLEAN /\ (rating => rating')
        /\ incident' \in Seq(BOOLEAN) /\ Len(incident') <= MaxIncidents
        /\ \A i \in 1..Len(incident') : incident'[i] => i = Len(incident')
    BY <1>5 DEF PanelInv, PanelTypes
  <2>2. call' \in PanelCalls /\ call'.pc = "refused"
    BY <1>2, <1>5
  <2> QED BY <1>1, <2>1, <2>2, PanelApiKeeps
<1> QED BY <1>3, <1>4, <1>5 DEF Panel!Serve

(* A load of the panel steps.                                               *)
LEMMA PanelLoadSteps ==
    ASSUME PanelInv, UNCHANGED <<rating, incident, rated, incidents, submitting, call, crossed>>,
           NEW l \in PanelLoads, NEW next \in PanelLoadStates, PanelLoadIsSound(next),
           panelLoad' = [panelLoad EXCEPT ![l] = next]
    PROVE  PanelInv'
<1>1. /\ panelLoad' \in [PanelLoads -> PanelLoadStates] /\ panelLoad'[l] = next
      /\ \A k \in PanelLoads \ {l} : panelLoad'[k] = panelLoad[k]
  BY DEF PanelInv, PanelTypes
<1>2. PanelTypes'
  BY <1>1 DEF PanelInv, PanelTypes
<1>3. OpenedAlone'
  BY <1>1 DEF PanelInv, OpenedAlone, OnlyFirstIsActive, Panel!MayOpen
<1>4. ASSUME NEW k \in PanelLoads PROVE PanelLoadIsSound(panelLoad[k])'
  <2>1. PICK c : c = panelLoad'[k] /\ PanelLoadIsSound(c)
    BY <1>1 DEF PanelInv
  <2>2. PanelLoadIsSound(c)'
    BY <2>1 DEF PanelLoadIsSound, OnlyFirstIsActive
  <2> QED BY <2>1, <2>2 DEF PanelLoadIsSound
<1> QED BY <1>2, <1>3, <1>4 DEF PanelInv

LEMMA UnderWay ==
    ASSUME PanelInv, NEW l \in PanelLoads, panelLoad[l].pc \in {"sent", "rated"}
    PROVE  /\ panelLoad[l] # Panel!Idle
           /\ panelLoad[l] \in PanelListings
           /\ PanelLoadIsSound(panelLoad[l])
<1>1. panelLoad[l] # Panel!Idle
  BY DEF Panel!Idle
<1> QED BY <1>1 DEF PanelInv, PanelTypes, PanelLoadStates

LEMMA PanelLoadKeeps ==
    ASSUME PanelInv, NEW l \in PanelLoads, Panel!Load(l)
    PROVE  PanelInv'
<1>1. /\ Panel!Begun \in PanelLoadStates /\ Len(Panel!Begun.items) = 0
      /\ Panel!Begun.rating = Panel!NotYet /\ Panel!Begun.pc = "sent"
  BY EmptySeq DEF Panel!Begun, PanelLoadStates, PanelListings
<1>2. PanelLoadIsSound(Panel!Begun)
  <2>1. OnlyFirstIsActive(Panel!Begun.items)
    BY <1>1 DEF OnlyFirstIsActive
  <2>2. Panel!Begun.rating # "found" /\ Panel!Begun.rating # "none"
    BY <1>1 DEF Panel!NotYet
  <2> QED BY <1>1, <2>1, <2>2 DEF PanelLoadIsSound
<1> QED BY <1>1, <1>2, PanelLoadSteps DEF Panel!Load, Panel!StepTo

LEMMA ServeRatingKeeps ==
    ASSUME PanelInv, NEW l \in PanelLoads, Panel!ServeRating(l)
    PROVE  PanelInv'
<1>1. PICK c \in PanelListings :
        c = panelLoad[l] /\ c.pc = "sent" /\ c # Panel!Idle /\ PanelLoadIsSound(c)
  BY UnderWay DEF Panel!ServeRating
<1>2. PICK told \in {"found", "none", "refused"} :
        /\ panelLoad' = [panelLoad EXCEPT ![l] = [c EXCEPT !.rating = told]]
        /\ told = "found" => rating
        /\ told = "none" => ~rating
  BY <1>1 DEF Panel!ServeRating, Panel!StepTo
<1>3. PICK next : next = [c EXCEPT !.rating = told]
  OBVIOUS
<1>4. /\ next \in PanelListings /\ next.items = c.items /\ next.rating = told
      /\ next.late = c.late /\ next.pc = c.pc
  BY <1>3 DEF PanelListings
<1>5. PanelLoadIsSound(next)
  BY <1>1, <1>2, <1>4 DEF PanelLoadIsSound, PanelInv
<1>6. next \in PanelLoadStates
  BY <1>4 DEF PanelLoadStates
<1> QED BY <1>1, <1>2, <1>3, <1>5, <1>6, PanelLoadSteps DEF Panel!ServeRating

LEMMA ListedIsSound ==
    ASSUME PanelInv
    PROVE  Panel!Listed \in Seq(Panel!Entries) /\ OnlyFirstIsActive(Panel!Listed)
<1>1. /\ incident \in Seq(BOOLEAN) /\ Len(incident) \in Nat /\ MaxIncidents \in Nat
      /\ Len(incident) <= MaxIncidents
  BY BoundsAssumption DEF PanelInv, PanelTypes
<1>2. ASSUME NEW i \in 1..Len(incident)
      PROVE  /\ Panel!Listed[i] \in Panel!Entries
             /\ Panel!Listed[i].active => i = 1
  <2>1. PICK id \in 1..Len(incident) : id = Len(incident) + 1 - i
    BY <1>1
  <2>2. Panel!Listed[i] = [id |-> id, active |-> incident[id]]
    BY <2>1 DEF Panel!Listed
  <2>3. incident[id] \in BOOLEAN /\ id \in 1..MaxIncidents
    BY <1>1, <2>1
  <2>4. Panel!Listed[i].active => incident[id]
    BY <2>2
  <2>5. incident[id] => i = 1
    BY <1>1, <2>1 DEF PanelInv
  <2> QED BY <2>2, <2>3, <2>4, <2>5 DEF Panel!Entries
<1>3. /\ Panel!Listed \in [1..Len(incident) -> Panel!Entries]
  BY <1>2 DEF Panel!Listed
<1>4. Panel!Listed \in Seq(Panel!Entries) /\ Len(Panel!Listed) = Len(incident)
  BY <1>1, <1>3, IsASeq, LenProperties
<1> QED BY <1>2, <1>4 DEF OnlyFirstIsActive

LEMMA ServeIncidentsKeeps ==
    ASSUME PanelInv, NEW l \in PanelLoads, Panel!ServeIncidents(l)
    PROVE  PanelInv'
<1>1. PICK c \in PanelListings :
        c = panelLoad[l] /\ c.pc = "sent" /\ c # Panel!Idle /\ PanelLoadIsSound(c)
  BY UnderWay DEF Panel!ServeIncidents
<1>2. PICK next :
        /\ panelLoad' = [panelLoad EXCEPT ![l] = next]
        /\ \/ next = [c EXCEPT !.list = "found", !.items = Panel!Listed]
           \/ next = [c EXCEPT !.list = "refused"]
  BY <1>1 DEF Panel!ServeIncidents, Panel!StepTo
<1>3. /\ next \in PanelListings /\ next.items \in {c.items, Panel!Listed}
      /\ next.rating = c.rating /\ next.late = c.late /\ next.pc = c.pc
  BY <1>2, ListedIsSound DEF PanelListings
<1>4. PanelLoadIsSound(next)
  BY <1>1, <1>3, ListedIsSound DEF PanelLoadIsSound
<1>5. next \in PanelLoadStates
  BY <1>3 DEF PanelLoadStates
<1> QED BY <1>1, <1>2, <1>4, <1>5, PanelLoadSteps DEF Panel!ServeIncidents

LEMMA PanelNotLoadedKeeps ==
    ASSUME PanelInv, NEW l \in PanelLoads, Panel!NotLoaded(l)
    PROVE  PanelInv'
<1>1. Panel!Idle \in PanelLoadStates /\ PanelLoadIsSound(Panel!Idle)
  BY DEF PanelLoadStates, PanelLoadIsSound
<1> QED BY <1>1, PanelLoadSteps DEF Panel!NotLoaded, Panel!StepTo

(* The panel has changed: whatever rating is under way is late.             *)
LEMMA AllLateIsSound ==
    ASSUME PanelInv
    PROVE  /\ Panel!AllLate \in [PanelLoads -> PanelLoadStates]
           /\ \A l \in PanelLoads :
                Panel!AllLate[l] # Panel!Idle =>
                  /\ panelLoad[l] # Panel!Idle
                  /\ Panel!AllLate[l].items = panelLoad[l].items
                  /\ Panel!AllLate[l].rating = panelLoad[l].rating
                  /\ Panel!AllLate[l].late \/ Panel!AllLate[l].rating = Panel!NotYet
<1>1. ASSUME NEW l \in PanelLoads
      PROVE  /\ Panel!AllLate[l] \in PanelLoadStates
             /\ Panel!AllLate[l] # Panel!Idle =>
                  /\ panelLoad[l] # Panel!Idle
                  /\ Panel!AllLate[l].items = panelLoad[l].items
                  /\ Panel!AllLate[l].rating = panelLoad[l].rating
                  /\ Panel!AllLate[l].late \/ Panel!AllLate[l].rating = Panel!NotYet
  <2>1. CASE panelLoad[l] = Panel!Idle
    BY <2>1 DEF Panel!AllLate, PanelLoadStates, Panel!Idle
  <2>2. CASE panelLoad[l] # Panel!Idle
    <3>1. PICK c \in PanelListings : c = panelLoad[l] /\ PanelLoadIsSound(c)
      BY <2>2 DEF PanelInv, PanelTypes, PanelLoadStates
    <3>2. CASE c.pc = "rated"
      <4>1. c.rating = Panel!NotYet /\ Panel!AllLate[l] = c
        BY <2>2, <3>1, <3>2 DEF Panel!AllLate, PanelLoadIsSound
      <4> QED BY <2>2, <3>1, <4>1 DEF PanelLoadStates
    <3>3. CASE c.pc = "sent"
      <4>1. PICK next : next = [c EXCEPT !.late = TRUE]
        OBVIOUS
      <4>2. Panel!AllLate[l] = next
        BY <3>1, <3>3, <4>1 DEF Panel!AllLate
      <4>3. /\ next \in PanelListings /\ next.late /\ next.items = c.items
            /\ next.rating = c.rating
        BY <4>1 DEF PanelListings
      <4> QED BY <2>2, <3>1, <4>2, <4>3 DEF PanelLoadStates
    <3> QED BY <3>1, <3>2, <3>3 DEF PanelListings
  <2> QED BY <2>1, <2>2
<1>2. Panel!AllLate \in [PanelLoads -> PanelLoadStates]
  BY <1>1 DEF Panel!AllLate
<1> QED BY <1>1, <1>2

(* What the panel shows changes, and the ratings under way become late.     *)
LEMMA PanelChanges ==
    ASSUME PanelInv, UNCHANGED <<rating, incident, crossed>>, rated' \in BOOLEAN,
           rated' => rating, NEW listed \in Seq(Panel!Entries), incidents' = listed,
           crossed \/ OnlyFirstIsActive(listed),
           submitting' \in {"rating", "incident", None},
           submitting' = "incident" => submitting = "incident" /\ UNCHANGED incidents,
           call' \in PanelCalls, call'.pc \in {call.pc, "idle"},
           call'.pc = "opened" => submitting' = "incident",
           NEW after \in [PanelLoads -> PanelLoadStates], panelLoad' = after,
           \A l \in PanelLoads :
             \/ after[l] = Panel!AllLate[l]
             \/ after[l] # Panel!Idle =>
                  OnlyFirstIsActive(after[l].items) /\ after[l].rating = Panel!NotYet
                  /\ after[l].pc = "rated"
    PROVE  PanelInv'
<1>1. PanelTypes'
  BY DEF PanelInv, PanelTypes
<1>2. OpenedAlone'
  BY DEF PanelInv, OpenedAlone, OnlyFirstIsActive, Panel!MayOpen
<1>3. ASSUME NEW l \in PanelLoads PROVE PanelLoadIsSound(panelLoad[l])'
  <2> SUFFICES ASSUME after[l] # Panel!Idle PROVE PanelLoadIsSound(after[l])'
    BY DEF PanelLoadIsSound
  <2>1. CASE after[l] = Panel!AllLate[l]
    <3>1. /\ panelLoad[l] # Panel!Idle /\ after[l].items = panelLoad[l].items
          /\ after[l].rating = panelLoad[l].rating
          /\ after[l].late \/ after[l].rating = Panel!NotYet
      BY <2>1, AllLateIsSound
    <3>2. PanelLoadIsSound(panelLoad[l])
      BY DEF PanelInv
    <3>3. after[l].pc = "rated" => panelLoad[l].pc = "rated"
      BY <2>1 DEF Panel!AllLate, PanelInv, PanelTypes
    <3> QED BY <3>1, <3>2, <3>3 DEF PanelLoadIsSound, OnlyFirstIsActive, Panel!NotYet
  <2>2. CASE OnlyFirstIsActive(after[l].items) /\ after[l].rating = Panel!NotYet
             /\ after[l].pc = "rated"
    BY <2>2 DEF PanelLoadIsSound, OnlyFirstIsActive, Panel!NotYet
  <2> QED BY <2>1, <2>2
<1>4. rated' \/ call'.pc = "rated" => rating'
  BY DEF PanelInv
<1> QED BY <1>1, <1>2, <1>3, <1>4 DEF PanelInv

LEMMA RatedIsListing ==
    ASSUME NEW items \in Seq(Panel!Entries)
    PROVE  /\ Panel!Rated(items) \in PanelListings /\ Panel!Rated(items).items = items
           /\ Panel!Rated(items).rating = Panel!NotYet /\ Panel!Rated(items).pc = "rated"
<1>1. Panel!Begun \in PanelListings /\ Panel!Begun.rating = Panel!NotYet
  BY EmptySeq DEF Panel!Begun, PanelListings
<1> QED BY <1>1 DEF Panel!Rated, PanelListings

LEMMA RatingLoadedKeeps ==
    ASSUME PanelInv, NEW l \in PanelLoads, Panel!RatingLoaded(l)
    PROVE  PanelInv'
<1>1. PICK c \in PanelListings :
        c = panelLoad[l] /\ c # Panel!Idle /\ PanelLoadIsSound(c)
  BY UnderWay DEF Panel!RatingLoaded
<1>2. /\ UNCHANGED <<rating, incident, incidents, crossed, submitting, call>>
      /\ rated' = (c.rating = "found")
  BY <1>1 DEF Panel!RatingLoaded
<1>3. PICK next :
        /\ panelLoad' = [Panel!AllLate EXCEPT ![l] = next]
        /\ next = Panel!Idle \/ next = Panel!Rated(c.items)
  BY <1>1 DEF Panel!RatingLoaded
<1>4. /\ next \in PanelLoadStates
      /\ next # Panel!Idle =>
           next.items = c.items /\ next.rating = Panel!NotYet /\ next.pc = "rated"
  <2>1. CASE next = Panel!Idle
    BY <2>1 DEF PanelLoadStates
  <2>2. CASE next = Panel!Rated(c.items)
    BY <2>2, RatedIsListing DEF PanelListings, PanelLoadStates
  <2> QED BY <1>3, <2>1, <2>2
<1>5. PICK after : after = [Panel!AllLate EXCEPT ![l] = next] /\ panelLoad' = after
  BY <1>3
<1>6. /\ after \in [PanelLoads -> PanelLoadStates] /\ after[l] = next
      /\ \A k \in PanelLoads \ {l} : after[k] = Panel!AllLate[k]
  BY <1>4, <1>5, AllLateIsSound
<1>7. OnlyFirstIsActive(c.items)
  BY <1>1 DEF PanelLoadIsSound
<1>8. ASSUME NEW k \in PanelLoads
      PROVE  \/ after[k] = Panel!AllLate[k]
             \/ after[k] # Panel!Idle =>
                  OnlyFirstIsActive(after[k].items) /\ after[k].rating = Panel!NotYet
                  /\ after[k].pc = "rated"
  BY <1>4, <1>6, <1>7
<1>9. /\ rated' \in BOOLEAN /\ (rated' => rating)
      /\ incidents \in Seq(Panel!Entries) /\ (crossed \/ OnlyFirstIsActive(incidents))
      /\ submitting' \in {"rating", "incident", None}
      /\ submitting' = "incident" => submitting = "incident" /\ UNCHANGED incidents
      /\ call' \in PanelCalls /\ call'.pc \in {call.pc, "idle"}
      /\ call'.pc = "opened" => submitting' = "incident"
  BY <1>1, <1>2 DEF PanelLoadIsSound, PanelInv, PanelTypes, OpenedAlone
<1> QED BY <1>2, <1>5, <1>6, <1>8, <1>9, PanelChanges

LEMMA IncidentsLoadedKeeps ==
    ASSUME PanelInv, NEW l \in PanelLoads, Panel!IncidentsLoaded(l)
    PROVE  PanelInv'
<1>1. PICK c \in PanelListings :
        c = panelLoad[l] /\ c # Panel!Idle /\ PanelLoadIsSound(c)
  BY UnderWay DEF Panel!IncidentsLoaded
<1>2. /\ UNCHANGED <<rating, incident, rated, submitting, call>>
      /\ incidents' = c.items /\ crossed' = (submitting = "incident")
      /\ panelLoad' = [panelLoad EXCEPT ![l] = Panel!Idle]
  BY <1>1 DEF Panel!IncidentsLoaded, Panel!StepTo
<1>3. c.items \in Seq(Panel!Entries) /\ OnlyFirstIsActive(c.items)
  BY <1>1 DEF PanelListings, PanelLoadIsSound
<1>4. PanelTypes'
  BY <1>2, <1>3 DEF PanelInv, PanelTypes, PanelLoadStates
<1>5. OpenedAlone'
  BY <1>2, <1>3 DEF OpenedAlone, OnlyFirstIsActive
<1>6. ASSUME NEW k \in PanelLoads PROVE PanelLoadIsSound(panelLoad[k])'
  <2>1. panelLoad'[k] = Panel!Idle \/ panelLoad'[k] = panelLoad[k]
    BY <1>2 DEF PanelInv, PanelTypes
  <2> QED BY <1>2, <2>1 DEF PanelInv, PanelLoadIsSound, OnlyFirstIsActive
<1> QED BY <1>2, <1>4, <1>5, <1>6 DEF PanelInv

LEMMA PanelAnsweredKeeps ==
    ASSUME PanelInv, Panel!Answered
    PROVE  PanelInv'
<1>1. PICK listed :
        /\ incidents' = listed
        /\ listed = IF call.pc = "opened"
                    THEN <<[id |-> call.id, active |-> TRUE]>> \o incidents ELSE incidents
  BY DEF Panel!Answered
<1>2. listed \in Seq(Panel!Entries) /\ (crossed \/ OnlyFirstIsActive(listed))
  <2>1. CASE call.pc # "opened"
    BY <1>1, <2>1 DEF PanelInv, PanelTypes, OpenedAlone
  <2>2. CASE call.pc = "opened"
    <3>1. PICK entry : entry = [id |-> call.id, active |-> TRUE]
      OBVIOUS
    <3>2. entry \in Panel!Entries
      BY <2>2, <3>1 DEF PanelInv, PanelTypes, PanelCalls, Panel!Entries, Panel!Idle
    <3>3. incidents \in Seq(Panel!Entries) /\ listed = <<entry>> \o incidents
      BY <1>1, <2>2, <3>1 DEF PanelInv, PanelTypes
    <3>4. /\ listed \in Seq(Panel!Entries) /\ Len(listed) = Len(incidents) + 1
          /\ \A i \in 1..Len(listed) : i # 1 => listed[i] = incidents[i - 1]
      BY <3>2, <3>3
    <3>5. crossed \/ \A i \in 1..Len(incidents) : ~incidents[i].active
      BY <2>2 DEF PanelInv, OpenedAlone, Panel!MayOpen
    <3>6. Len(incidents) \in Nat
      BY <3>3
    <3> QED BY <3>4, <3>5, <3>6 DEF OnlyFirstIsActive
  <2> QED BY <2>1, <2>2
<1>3. PICK after : after = Panel!AllLate /\ panelLoad' = after
  BY DEF Panel!Answered
<1>4. after \in [PanelLoads -> PanelLoadStates]
      /\ \A k \in PanelLoads : after[k] = Panel!AllLate[k]
  BY <1>3, AllLateIsSound
<1>5. /\ rated' \in BOOLEAN /\ (rated' => rating)
      /\ UNCHANGED <<rating, incident, crossed>>
      /\ submitting' \in {"rating", "incident", None} /\ submitting' # "incident"
      /\ call' \in PanelCalls /\ call'.pc \in {call.pc, "idle"}
      /\ call'.pc # "opened"
  BY NoRowAssumption
     DEF Panel!Answered, Panel!Tells, PanelInv, PanelTypes, PanelCalls, Panel!Idle
<1> QED BY <1>1, <1>2, <1>3, <1>4, <1>5, PanelChanges

(* A form is sent: the panel's list stays.                                  *)
LEMMA FormsKeep ==
    ASSUME PanelInv, Panel!Rate \/ Panel!OpenIncident
    PROVE  PanelInv'
<1>1. /\ UNCHANGED <<rating, incident, rated, incidents, panelLoad>>
      /\ submitting' \in {"rating", "incident"} /\ call' = [pc |-> "sent"]
      /\ UNCHANGED crossed
      /\ submitting' = "incident" => Panel!MayOpen
  BY DEF Panel!Rate, Panel!OpenIncident, PanelInv, PanelTypes
<1>2. call' \in PanelCalls /\ call'.pc = "sent"
  BY <1>1 DEF PanelCalls
<1>3. PanelTypes'
  BY <1>1, <1>2 DEF PanelInv, PanelTypes
<1>4. OpenedAlone'
  BY <1>1 DEF PanelInv, OpenedAlone, OnlyFirstIsActive, Panel!MayOpen
<1>5. ASSUME NEW l \in PanelLoads PROVE PanelLoadIsSound(panelLoad[l])'
  BY <1>1 DEF PanelInv, PanelLoadIsSound, OnlyFirstIsActive
<1> QED BY <1>1, <1>2, <1>3, <1>4, <1>5 DEF PanelInv

LEMMA PanelInvIsInductive ==
    ASSUME PanelInv, Panel!Next \/ UNCHANGED panelVars
    PROVE  PanelInv'
<1>1. CASE UNCHANGED panelVars
  <2>1. /\ UNCHANGED <<rated, incidents, submitting, panelLoad, crossed>>
        /\ rating' \in BOOLEAN /\ (rating => rating')
        /\ incident' \in Seq(BOOLEAN) /\ Len(incident') <= MaxIncidents
        /\ \A i \in 1..Len(incident') : incident'[i] => i = Len(incident')
        /\ call' \in PanelCalls /\ (call'.pc = "rated" => rating')
        /\ call'.pc = "opened" => submitting = "incident"
    BY <1>1 DEF panelVars, PanelInv, PanelTypes
  <2> QED BY <2>1, PanelApiKeeps
<1>2. CASE Panel!Next
  BY <1>2, OthersMoveKeeps, FormsKeep, PanelServeKeeps, PanelAnsweredKeeps, PanelLoadKeeps,
     ServeRatingKeeps, ServeIncidentsKeeps, RatingLoadedKeeps, IncidentsLoadedKeeps,
     PanelNotLoadedKeeps DEF Panel!Next
<1> QED BY <1>1, <1>2

(* The form to rate comes back by a load only.                              *)
LEMMA RatedStays ==
    ASSUME PanelInv, Panel!Next, rated, ~rated'
    PROVE  \E l \in PanelLoads :
             /\ panelLoad[l].pc = "sent" /\ panelLoad'[l].pc # "sent"
             /\ panelLoad[l].rating = "refused" \/ panelLoad[l].late
<1>1. PICK l \in PanelLoads : Panel!RatingLoaded(l)
  <2>1. ~UNCHANGED rated /\ ~(\E told \in BOOLEAN : rated' = (rated \/ told))
    OBVIOUS
  <2>2. ~Panel!Answered
    BY DEF Panel!Answered
  <2> QED BY <2>1, <2>2
          DEF Panel!Next, Panel!OthersMove, Panel!panel, Panel!Rate, Panel!OpenIncident,
              Panel!Serve, Panel!Load, Panel!ServeRating, Panel!ServeIncidents,
              Panel!IncidentsLoaded, Panel!NotLoaded
<1>2. PICK c \in PanelListings : c = panelLoad[l] /\ c # Panel!Idle /\ PanelLoadIsSound(c)
  BY <1>1, UnderWay DEF Panel!RatingLoaded
<1>3. c.pc = "sent" /\ c.rating \in {"none", "refused"} /\ c.late \in BOOLEAN
  BY <1>1, <1>2 DEF Panel!RatingLoaded, PanelListings
<1>4. c.rating = "refused" \/ c.late
  BY <1>2, <1>3 DEF PanelLoadIsSound
<1>5. panelLoad'[l] = Panel!Idle \/ panelLoad'[l] = Panel!Rated(c.items)
  BY <1>1, <1>2, AllLateIsSound DEF Panel!RatingLoaded
<1>6. panelLoad'[l].pc # "sent"
  <2>1. c.items \in Seq(Panel!Entries)
    BY DEF PanelListings
  <2> QED BY <1>5, <2>1, RatedIsListing DEF Panel!Idle
<1> QED BY <1>2, <1>3, <1>4, <1>6

-----------------------------------------------------------------------------
(* The inbox.                                                               *)

(* Cardinality as NotificationInbox extends it is Cardinality.              *)
LEMMA SameCount == \A S : Inbox!Cardinality(S) = Cardinality(S)
BY DEF Inbox!Cardinality, Cardinality

LEMMA BeforeIsAnOrder ==
    ASSUME NEW m \in Notices, NEW n \in Notices, NEW o \in Notices
    PROVE  /\ ~Inbox!Before(n, n)
           /\ Inbox!Before(m, n) /\ Inbox!Before(n, o) => Inbox!Before(m, o)
           /\ m = n \/ Inbox!Before(m, n) \/ Inbox!Before(n, m)
<1>1. /\ m \in Nat /\ n \in Nat /\ o \in Nat
      /\ CreatedAt[m] \in Nat /\ CreatedAt[n] \in Nat /\ CreatedAt[o] \in Nat
  BY NoticesAssumption
<1> QED BY <1>1 DEF Inbox!Before

InOrderOf(ordered, S) ==
    /\ ordered \in [1..Cardinality(S) -> S]
    /\ \A i, j \in 1..Cardinality(S) : i < j => Inbox!Before(ordered[i], ordered[j])

(* Each notice at its rank, the number of those before it and one.          *)
LEMMA RanksAreInOrder ==
    ASSUME NEW S \in SUBSET Notices
    PROVE  InOrderOf(Inbox!InOrder(S), S)
<1> DEFINE N == Cardinality(S)
           earlier(n) == {m \in S : Inbox!Before(m, n)}
           rank == [n \in S |-> Cardinality(earlier(n)) + 1]
           ordered == Inbox!InOrder(S)
<1>1. IsFiniteSet(S) /\ N \in Nat
  BY NoticesAssumption, FS_Subset, FS_CardinalityType
<1>2. ASSUME NEW n \in S
      PROVE  IsFiniteSet(earlier(n)) /\ Cardinality(earlier(n)) \in 0..(N - 1)
  <2>1. earlier(n) \in SUBSET S /\ n \notin earlier(n)
    BY BeforeIsAnOrder
  <2> HIDE DEF earlier
  <2>2. IsFiniteSet(earlier(n)) /\ Cardinality(earlier(n)) <= N /\ Cardinality(earlier(n)) # N
    BY <1>1, <2>1, FS_Subset
  <2>3. Cardinality(earlier(n)) \in Nat
    BY <2>2, FS_CardinalityType
  <2> QED BY <1>1, <2>2, <2>3
<1>3. ASSUME NEW m \in S, NEW n \in S, Inbox!Before(m, n)
      PROVE  Cardinality(earlier(m)) < Cardinality(earlier(n))
  <2>1. earlier(m) \in SUBSET earlier(n)
    BY <1>3, BeforeIsAnOrder
  <2>2. m \in earlier(n) /\ m \notin earlier(m)
    BY <1>3, BeforeIsAnOrder
  <2> HIDE DEF earlier
  <2>3. /\ IsFiniteSet(earlier(n)) /\ Cardinality(earlier(n)) \in Nat
        /\ Cardinality(earlier(m)) \in Nat
    BY <1>1, <1>2
  <2>4. Cardinality(earlier(m)) <= Cardinality(earlier(n))
        /\ Cardinality(earlier(m)) # Cardinality(earlier(n))
    BY <2>1, <2>2, <2>3, FS_Subset
  <2> QED BY <2>3, <2>4
<1> HIDE DEF earlier
<1>4. rank \in Surjection(S, 1..N)
  <2>1. ASSUME NEW n \in S PROVE rank[n] \in 1..N
    BY <1>1, <1>2
  <2>2. ASSUME NEW m \in S, NEW n \in S, rank[m] = rank[n] PROVE m = n
    <3>1. Cardinality(earlier(m)) \in Nat /\ Cardinality(earlier(n)) \in Nat
      BY <1>1, <1>2
    <3>2. Cardinality(earlier(m)) = Cardinality(earlier(n))
      BY <2>2, <3>1
    <3>3. ~Inbox!Before(m, n) /\ ~Inbox!Before(n, m)
      BY <1>3, <3>1, <3>2
    <3> QED BY <3>3, BeforeIsAnOrder
  <2>3. rank \in [S -> 1..N]
    BY <2>1
  <2> HIDE DEF rank
  <2>4. rank \in Injection(S, 1..N)
    BY <2>2, <2>3 DEF Injection, IsInjective
  <2>5. IsFiniteSet(1..N) /\ Cardinality(1..N) = N
    BY <1>1, FS_Interval
  <2> QED BY <1>1, <2>4, <2>5, FS_Injection
<1>5. /\ ordered = [i \in 1..N |-> ordered[i]]
      /\ \A i \in 1..N : ordered[i] \in S /\ rank[ordered[i]] = i
  <2> DEFINE ranked(i, n) == Inbox!Cardinality({m \in S : Inbox!Before(m, n)}) = i - 1
  <2>1. ordered = [i \in 1..N |-> CHOOSE n \in S : ranked(i, n)]
    BY SameCount DEF Inbox!InOrder
  <2>2. ASSUME NEW i \in 1..N, NEW n \in S PROVE ranked(i, n) <=> rank[n] = i
    <3>1. Inbox!Cardinality({m \in S : Inbox!Before(m, n)}) = Cardinality(earlier(n))
      BY SameCount DEF earlier
    <3>2. Cardinality(earlier(n)) \in Nat
      BY <1>1, <1>2
    <3> QED BY <1>1, <3>1, <3>2
  <2>3. \A i \in 1..N : \E n \in S : rank[n] = i
    BY <1>4 DEF Surjection
  <2> HIDE DEF ranked, rank, ordered
  <2>4. ASSUME NEW i \in 1..N PROVE ordered[i] \in S /\ rank[ordered[i]] = i
    <3>1. \E n \in S : ranked(i, n)
      BY <2>2, <2>3
    <3>2. ordered[i] = CHOOSE n \in S : ranked(i, n)
      BY <2>1
    <3>3. ordered[i] \in S /\ ranked(i, ordered[i])
      BY <3>1, <3>2
    <3> QED BY <2>2, <3>3
  <2> QED BY <2>1, <2>4
<1> HIDE DEF ordered
<1>6. ASSUME NEW i \in 1..N, NEW j \in 1..N, i < j
      PROVE  Inbox!Before(ordered[i], ordered[j])
  <2>1. PICK m \in S, n \in S : m = ordered[i] /\ n = ordered[j]
    BY <1>5
  <2>2. rank[m] = i /\ rank[n] = j
    BY <1>5, <2>1
  <2>3. /\ Cardinality(earlier(m)) + 1 = i /\ Cardinality(earlier(n)) + 1 = j
        /\ Cardinality(earlier(m)) \in Nat /\ Cardinality(earlier(n)) \in Nat
    BY <1>1, <1>2, <2>2
  <2>4. m # n /\ ~Inbox!Before(n, m)
    BY <1>3, <1>6, <2>3
  <2> QED BY <2>1, <2>4, BeforeIsAnOrder
<1>7. ordered \in [1..N -> S]
  BY <1>5
<1> QED BY <1>6, <1>7 DEF InOrderOf, ordered

LEMMA RowsAreInOrder ==
    ASSUME NEW S \in SUBSET Notices
    PROVE  /\ Inbox!InOrder(S) \in Seq(S)
           /\ \A i, j \in 1..Len(Inbox!InOrder(S)) :
                i < j => Inbox!Before(Inbox!InOrder(S)[i], Inbox!InOrder(S)[j])
           /\ \A n \in S : \E i \in 1..Len(Inbox!InOrder(S)) : Inbox!InOrder(S)[i] = n
<1>1. PICK N \in Nat : N = Cardinality(S) /\ N = Inbox!Cardinality(S) /\ IsFiniteSet(S)
  BY NoticesAssumption, FS_Subset, FS_CardinalityType, SameCount
<1>2. PICK ordered : ordered = Inbox!InOrder(S)
  OBVIOUS
<1>3. /\ ordered \in [1..N -> S]
      /\ \A i, j \in 1..N : i < j => Inbox!Before(ordered[i], ordered[j])
  BY <1>1, <1>2, RanksAreInOrder DEF InOrderOf
<1>4. ordered \in Seq(S) /\ Len(ordered) = N
  BY <1>1, <1>3, IsASeq, LenProperties
<1>5. ASSUME NEW i \in 1..N, NEW j \in 1..N, ordered[i] = ordered[j] PROVE i = j
  <2>1. ordered[i] \in Notices
    BY <1>3
  <2>2. ~(i < j) /\ ~(j < i)
    BY <1>3, <1>5, <2>1, BeforeIsAnOrder
  <2> QED BY <1>1, <2>2
<1>6. ordered \in Surjection(1..N, S)
  <2>1. ordered \in Injection(1..N, S)
    BY <1>3, <1>5 DEF Injection, IsInjective
  <2>2. IsFiniteSet(1..N) /\ Cardinality(1..N) = Cardinality(S)
    BY <1>1, FS_Interval
  <2> QED BY <1>1, <2>1, <2>2, FS_Injection
<1>7. \A n \in S : \E i \in 1..N : ordered[i] = n
  BY <1>6 DEF Surjection
<1> QED BY <1>2, <1>3, <1>4, <1>7

InboxOntos == {<<>>} \cup (Seq(Notices) \X SUBSET Notices)
InboxSent == [pc : {"sent"}, append : BOOLEAN, cursor : Inbox!Cursors, onto : InboxOntos]
InboxServed == [pc : {"served"}, append : BOOLEAN, onto : InboxOntos,
                items : Seq(Inbox!Items), cursor : Inbox!Cursors, existed : SUBSET Notices]
InboxLoads == {Inbox!Idle} \cup InboxSent \cup InboxServed
InboxVisits == {Inbox!Idle} \cup [pc : {"sent", "reread"}, id : Notices]
                 \cup [pc : {"answer"}, item : Inbox!Items]
InboxPages == [items : Seq(Inbox!Items), cursor : Inbox!Cursors, existed : SUBSET Notices]

InboxTypes ==
    /\ there \subseteq Notices
    /\ readAt \in [Notices -> 0..MaxReads] /\ clock \in 0..MaxReads
    /\ page \in InboxPages /\ mixed \in BOOLEAN
    /\ list \in [Lists -> InboxLoads] /\ visit \in [Visits -> InboxVisits]

(* A list up to a cursor: nothing past it, nothing twice, and all there was *)
(* before it.                                                               *)
ListIsSound(ids, existed, upto) ==
    /\ \A i, j \in 1..Len(ids) : ids[i] = ids[j] => i = j
    /\ upto # Inbox!NoCursor => \A i \in 1..Len(ids) : ~Inbox!Past(ids[i], upto)
    /\ \A n \in existed :
         upto = Inbox!NoCursor \/ ~Inbox!Past(n, upto) => \E i \in 1..Len(ids) : ids[i] = n

ReadingIsFirst(reading) == reading.readAt \in {0, readAt[reading.id]}
ReadingsAreFirst(readings) == \A i \in 1..Len(readings) : ReadingIsFirst(readings[i])

(* A load that continues a list makes one that is sound with it.            *)
InboxLoadIsSound(c) ==
    /\ c.pc = "sent" /\ c.append =>
         /\ c.onto # <<>> /\ c.onto[2] \subseteq there /\ c.cursor # Inbox!NoCursor
         /\ ListIsSound(c.onto[1], c.onto[2], c.cursor)
    /\ c.pc = "sent" /\ ~c.append => c.cursor = Inbox!NoCursor
    /\ c.pc = "served" =>
         /\ ReadingsAreFirst(c.items) /\ c.existed \subseteq there
         /\ c.append => /\ c.onto # <<>> /\ c.existed = {}
                        /\ ListIsSound(c.onto[1] \o Inbox!Ids(c.items), c.onto[2], c.cursor)
         /\ ~c.append => ListIsSound(Inbox!Ids(c.items), c.existed, c.cursor)

VisitIsSound(c) == c.pc = "answer" => ReadingIsFirst(c.item)

InboxInv ==
    /\ InboxTypes
    /\ page.existed \subseteq there
    /\ ReadingsAreFirst(page.items)
    /\ ~mixed => ListIsSound(Inbox!Ids(page.items), page.existed, page.cursor)
    /\ \A l \in Lists : InboxLoadIsSound(list[l])
    /\ \A v \in Visits : VisitIsSound(visit[v])

LEMMA IdsAreTyped ==
    ASSUME NEW got \in Seq(Inbox!Items)
    PROVE  /\ Inbox!Ids(got) \in Seq(Notices) /\ Len(Inbox!Ids(got)) = Len(got)
           /\ \A i \in 1..Len(got) : Inbox!Ids(got)[i] = got[i].id
<1>1. ASSUME NEW i \in 1..Len(got) PROVE got[i].id \in Notices
  <2>1. got[i] \in Inbox!Items
    OBVIOUS
  <2> QED BY <2>1 DEF Inbox!Items
<1>2. Inbox!Ids(got) \in [1..Len(got) -> Notices]
  BY <1>1 DEF Inbox!Ids
<1>3. Len(got) \in Nat
  OBVIOUS
<1> QED BY <1>2, <1>3, IsASeq, LenProperties DEF Inbox!Ids

LEMMA IdsOfConcat ==
    ASSUME NEW got \in Seq(Inbox!Items), NEW more \in Seq(Inbox!Items)
    PROVE  Inbox!Ids(got \o more) = Inbox!Ids(got) \o Inbox!Ids(more)
<1>1. PICK ids \in Seq(Notices), others \in Seq(Notices) :
        /\ ids = Inbox!Ids(got) /\ others = Inbox!Ids(more)
        /\ Len(ids) = Len(got) /\ Len(others) = Len(more)
        /\ \A i \in 1..Len(got) : ids[i] = got[i].id
        /\ \A i \in 1..Len(more) : others[i] = more[i].id
  BY IdsAreTyped
<1>2. PICK joined \in Seq(Inbox!Items), all \in Seq(Notices) :
        joined = got \o more /\ all = ids \o others
  <2>1. got \o more \in Seq(Inbox!Items) /\ ids \o others \in Seq(Notices)
    OBVIOUS
  <2> QED BY <2>1
<1>3. /\ Len(joined) = Len(got) + Len(more) /\ Len(all) = Len(got) + Len(more)
      /\ \A i \in 1..(Len(got) + Len(more)) :
           joined[i] = IF i <= Len(got) THEN got[i] ELSE more[i - Len(got)]
      /\ \A i \in 1..(Len(got) + Len(more)) :
           all[i] = IF i <= Len(got) THEN ids[i] ELSE others[i - Len(got)]
  <2>1. /\ Len(joined) = Len(got) + Len(more)
        /\ \A i \in 1..(Len(got) + Len(more)) :
             joined[i] = IF i <= Len(got) THEN got[i] ELSE more[i - Len(got)]
    BY <1>2
  <2>2. /\ Len(all) = Len(ids) + Len(others)
        /\ \A i \in 1..(Len(ids) + Len(others)) :
             all[i] = IF i <= Len(ids) THEN ids[i] ELSE others[i - Len(ids)]
    BY <1>2
  <2> QED BY <1>1, <2>1, <2>2
<1>4. PICK named \in Seq(Notices) :
        /\ named = Inbox!Ids(joined) /\ Len(named) = Len(joined)
        /\ \A i \in 1..Len(joined) : named[i] = joined[i].id
  BY IdsAreTyped
<1>5. Len(got) \in Nat /\ Len(more) \in Nat
  OBVIOUS
<1>6. ASSUME NEW i \in 1..(Len(got) + Len(more)) PROVE named[i] = all[i]
  <2>1. named[i] = joined[i].id
    BY <1>3, <1>4
  <2>2. CASE i <= Len(got)
    <3>1. i \in 1..Len(got)
      BY <1>5, <2>2
    <3> QED BY <1>1, <1>3, <2>1, <2>2, <3>1
  <2>3. CASE ~(i <= Len(got))
    <3>1. i - Len(got) \in 1..Len(more)
      BY <1>5, <2>3
    <3> QED BY <1>1, <1>3, <2>1, <2>3, <3>1
  <2> QED BY <2>2, <2>3
<1>7. named = all
  BY <1>2, <1>3, <1>4, <1>6, SeqEqual
<1> QED BY <1>1, <1>2, <1>3, <1>4, <1>7

LEMMA PastIsAfter ==
    ASSUME NEW z \in Notices, NEW n \in Notices, NEW upto \in Inbox!Cursors
    PROVE  /\ [createdAt |-> CreatedAt[z], id |-> z] # Inbox!NoCursor
           /\ [createdAt |-> CreatedAt[z], id |-> z] \in Inbox!Cursors
           /\ Inbox!Past(n, [createdAt |-> CreatedAt[z], id |-> z]) <=> Inbox!Before(z, n)
           /\ Inbox!Past(z, upto) /\ Inbox!Before(z, n) => Inbox!Past(n, upto)
<1>1. CreatedAt[z] \in Nat \ {0} /\ CreatedAt[n] \in Nat \ {0} /\ z \in Nat /\ n \in Nat
  BY NoticesAssumption
<1>2. [createdAt |-> CreatedAt[z], id |-> z] # Inbox!NoCursor
  BY <1>1 DEF Inbox!NoCursor
<1>3. [createdAt |-> CreatedAt[z], id |-> z] \in Inbox!Cursors
  BY DEF Inbox!Cursors
<1>4. Inbox!Past(n, [createdAt |-> CreatedAt[z], id |-> z]) <=> Inbox!Before(z, n)
  BY <1>1, <1>2 DEF Inbox!Past, Inbox!Before
<1>5. upto # Inbox!NoCursor => upto.createdAt \in Nat /\ upto.id \in Nat
  BY NoticesAssumption DEF Inbox!Cursors
<1>6. Inbox!Past(z, upto) /\ Inbox!Before(z, n) => Inbox!Past(n, upto)
  BY <1>1, <1>5 DEF Inbox!Past, Inbox!Before
<1> QED BY <1>2, <1>3, <1>4, <1>6

LEMMA InboxLoadKinds ==
    ASSUME NEW c \in InboxLoads
    PROVE  /\ c.pc \in {"idle", "sent", "served"}
           /\ c.pc = "idle" => c = Inbox!Idle
           /\ c.pc = "sent" => c \in InboxSent
           /\ c.pc = "served" => c \in InboxServed
           /\ c # Inbox!Idle => c.append \in BOOLEAN /\ c.onto \in InboxOntos
                                /\ c.cursor \in Inbox!Cursors
BY DEF InboxLoads, InboxSent, InboxServed, Inbox!Idle

LEMMA InboxVisitKinds ==
    ASSUME NEW c \in InboxVisits
    PROVE  /\ c.pc \in {"idle", "sent", "reread", "answer"}
           /\ c.pc \in {"sent", "reread"} => c \in [pc : {"sent", "reread"}, id : Notices]
           /\ c.pc = "answer" => c.item \in Inbox!Items
BY DEF InboxVisits, Inbox!Idle

LEMMA InboxInvIsTyped ==
    ASSUME InboxInv
    PROVE  Inbox!TypeOK
BY InboxLoadKinds, InboxVisitKinds DEF InboxInv, InboxTypes, InboxPages, Inbox!TypeOK

LEMMA InboxShowsFirstReadings ==
    ASSUME InboxInv
    PROVE  Inbox!ShownReadingIsFirst
BY DEF InboxInv, ReadingsAreFirst, ReadingIsFirst, Inbox!ShownReadingIsFirst

LEMMA InboxListHasNoGap ==
    ASSUME InboxInv
    PROVE  Inbox!ListHasNoGap
<1>1. page.items \in Seq(Inbox!Items)
  BY DEF InboxInv, InboxTypes, InboxPages
<1>2. PICK ids \in Seq(Notices) : ids = Inbox!Ids(page.items)
  BY <1>1, IdsAreTyped
<1>3. DOMAIN ids = 1..Len(ids)
  OBVIOUS
<1>4. CASE ~mixed
  <2>1. ListIsSound(ids, page.existed, page.cursor)
    BY <1>2, <1>4 DEF InboxInv
  <2> QED BY <1>2, <1>3, <2>1
          DEF ListIsSound, Inbox!ListHasNoGap, Inbox!IsInjective, Inbox!Contains
<1>5. CASE mixed
  BY <1>5 DEF Inbox!ListHasNoGap
<1> QED BY <1>4, <1>5 DEF InboxInv, InboxTypes

LEMMA InboxInvInitially ==
    ASSUME Inbox!Init
    PROVE  InboxInv
<1>1. page.items = <<>> /\ page.cursor = Inbox!NoCursor /\ page.existed = {}
  BY DEF Inbox!Init, Inbox!NoPage
<1>2. page \in InboxPages
  <2>1. <<>> \in Seq(Inbox!Items) /\ Inbox!NoCursor \in Inbox!Cursors
    BY DEF Inbox!Cursors
  <2> QED BY <2>1 DEF Inbox!Init, Inbox!NoPage, InboxPages
<1>3. InboxTypes
  <2>1. /\ list \in [Lists -> InboxLoads] /\ visit \in [Visits -> InboxVisits]
    BY DEF Inbox!Init, InboxLoads, InboxVisits
  <2>2. 0 \in 0..MaxReads
    BY BoundsAssumption
  <2> QED BY <1>2, <2>1, <2>2 DEF Inbox!Init, InboxTypes
<1>4. Len(page.items) = 0 /\ Len(Inbox!Ids(page.items)) = 0
  BY <1>1, <1>2, IdsAreTyped DEF InboxPages
<1>5. ReadingsAreFirst(page.items)
      /\ ListIsSound(Inbox!Ids(page.items), page.existed, page.cursor)
  BY <1>1, <1>4 DEF ReadingsAreFirst, ListIsSound
<1>6. /\ \A l \in Lists : list[l].pc = "idle"
      /\ \A v \in Visits : visit[v].pc = "idle"
  BY DEF Inbox!Init, Inbox!Idle
<1> QED BY <1>1, <1>3, <1>5, <1>6 DEF InboxInv, InboxLoadIsSound, VisitIsSound

(* A page: the first rows past a cursor, and the cursor it ends with.       *)
PageOf(ids, ordered, ending) ==
    LET N == IF Len(ordered) > PageSize THEN PageSize ELSE Len(ordered)
    IN  /\ ids = SubSeq(ordered, 1, N)
        /\ ending = IF Len(ordered) > PageSize
                    THEN [createdAt |-> CreatedAt[ids[N]], id |-> ids[N]]
                    ELSE Inbox!NoCursor

LEMMA PagesContinue ==
    ASSUME NEW from \in Inbox!Cursors, NEW S \in SUBSET Notices,
           \A n \in S : Inbox!Past(n, from),
           NEW ids, NEW ending, PageOf(ids, Inbox!InOrder(S), ending)
    PROVE  /\ ids \in Seq(Notices) /\ ending \in Inbox!Cursors
           /\ \A i \in 1..Len(ids) : ids[i] \in S
           /\ ListIsSound(ids, S, ending)
           /\ ending # Inbox!NoCursor =>
                \A n \in Notices : ~Inbox!Past(n, from) => ~Inbox!Past(n, ending)
<1>1. PICK ordered \in Seq(S) :
        /\ ordered = Inbox!InOrder(S)
        /\ \A i, j \in 1..Len(ordered) : i < j => Inbox!Before(ordered[i], ordered[j])
        /\ \A n \in S : \E i \in 1..Len(ordered) : ordered[i] = n
  BY RowsAreInOrder
<1>2. PICK N \in Nat : N = IF Len(ordered) > PageSize THEN PageSize ELSE Len(ordered)
  BY BoundsAssumption
<1>3. N <= Len(ordered) /\ Len(ordered) \in Nat /\ (Len(ordered) > PageSize => N >= 1)
  BY <1>2, BoundsAssumption
<1>4. ids = SubSeq(ordered, 1, N)
  BY <1>1, <1>2 DEF PageOf
<1>5. /\ ids \in Seq(S) /\ Len(ids) = N /\ \A i \in 1..N : ids[i] = ordered[i]
  BY <1>3, <1>4
<1>6. \A i \in 1..Len(ordered) : ordered[i] \in S
  BY <1>1
<1>7. \A i, j \in 1..N : ids[i] = ids[j] => i = j
  <2> SUFFICES ASSUME NEW i \in 1..N, NEW j \in 1..N, ids[i] = ids[j] PROVE i = j
    OBVIOUS
  <2>1. i \in 1..Len(ordered) /\ j \in 1..Len(ordered) /\ ordered[i] = ordered[j]
    BY <1>3, <1>5
  <2>2. ~(i < j) /\ ~(j < i)
    BY <1>1, <1>6, <2>1, BeforeIsAnOrder
  <2> QED BY <1>2, <2>2
<1>8. CASE Len(ordered) > PageSize
  <2>1. PICK z \in S : z = ids[N] /\ z = ordered[N]
    BY <1>3, <1>5, <1>8
  <2>2. ending = [createdAt |-> CreatedAt[z], id |-> z]
    BY <1>1, <1>2, <1>8, <2>1 DEF PageOf
  <2>3. /\ ending \in Inbox!Cursors /\ ending # Inbox!NoCursor
        /\ \A n \in Notices : Inbox!Past(n, ending) <=> Inbox!Before(z, n)
        /\ \A n \in Notices : Inbox!Before(z, n) => Inbox!Past(n, from)
    BY <2>1, <2>2, PastIsAfter
  <2>4. ASSUME NEW k \in 1..Len(ordered)
        PROVE  /\ k < N => Inbox!Before(ordered[k], z)
               /\ k > N => Inbox!Before(z, ordered[k])
    <3>1. N \in 1..Len(ordered)
      BY <1>2, <1>3, <1>8
    <3>2. k > N => N < k
      BY <1>2
    <3> QED BY <1>1, <2>1, <3>1, <3>2
  <2>5. ASSUME NEW i \in 1..N PROVE ~Inbox!Past(ids[i], ending)
    <3>1. ids[i] \in S /\ ids[i] = ordered[i] /\ i \in 1..Len(ordered)
      BY <1>2, <1>3, <1>5, <1>6
    <3>2. ids[i] = z \/ Inbox!Before(ids[i], z)
      <4>1. i = N \/ i < N
        BY <1>2
      <4> QED BY <2>1, <2>4, <3>1, <4>1
    <3>3. ~Inbox!Before(z, ids[i])
      BY <2>1, <3>1, <3>2, BeforeIsAnOrder
    <3> QED BY <2>3, <3>1, <3>3
  <2>6. ASSUME NEW n \in S, ~Inbox!Past(n, ending) PROVE \E i \in 1..N : ids[i] = n
    <3>1. PICK i \in 1..Len(ordered) : ordered[i] = n
      BY <1>1
    <3>2. ~Inbox!Before(z, n)
      BY <2>3, <2>6
    <3>3. i <= N
      <4>1. ~(i > N)
        BY <2>4, <3>1, <3>2
      <4> QED BY <1>2, <4>1
    <3> QED BY <1>5, <3>1, <3>3
  <2>7. ListIsSound(ids, S, ending)
    BY <1>5, <1>7, <2>3, <2>5, <2>6 DEF ListIsSound
  <2> QED BY <1>5, <2>3, <2>7
<1>9. CASE ~(Len(ordered) > PageSize)
  <2>1. ending = Inbox!NoCursor /\ ending \in Inbox!Cursors
    BY <1>1, <1>9 DEF PageOf, Inbox!Cursors
  <2>2. ASSUME NEW n \in S PROVE \E i \in 1..N : ids[i] = n
    BY <1>1, <1>2, <1>5, <1>9
  <2>3. ListIsSound(ids, S, ending)
    BY <1>5, <1>7, <2>1, <2>2 DEF ListIsSound
  <2> QED BY <1>5, <2>1, <2>3
<1> QED BY <1>8, <1>9

(* Whatever has arrived meanwhile, the next page goes on where the list     *)
(* ended: what was made since is not past its cursor, or is new.            *)
LEMMA ContinuationIsSound ==
    ASSUME NEW from \in Inbox!Cursors, from # Inbox!NoCursor,
           NEW being \in SUBSET Notices, NEW existed \in SUBSET being,
           NEW before \in Seq(Notices), ListIsSound(before, existed, from),
           NEW ids \in Seq(Notices), NEW ending \in Inbox!Cursors,
           NEW S, S = {n \in being : Inbox!Past(n, from)},
           \A i \in 1..Len(ids) : ids[i] \in S, ListIsSound(ids, S, ending),
           ending # Inbox!NoCursor =>
             \A n \in Notices : ~Inbox!Past(n, from) => ~Inbox!Past(n, ending)
    PROVE  ListIsSound(before \o ids, existed, ending)
<1>1. PICK all \in Seq(Notices) :
        all = before \o ids
  <2>1. before \o ids \in Seq(Notices)
    OBVIOUS
  <2> QED BY <2>1
<1>2. /\ Len(all) = Len(before) + Len(ids) /\ Len(before) \in Nat /\ Len(ids) \in Nat
      /\ \A i \in 1..(Len(before) + Len(ids)) :
           all[i] = IF i <= Len(before) THEN before[i] ELSE ids[i - Len(before)]
  BY <1>1
<1>3. ASSUME NEW i \in 1..Len(before)
      PROVE  all[i] = before[i] /\ before[i] \in Notices /\ ~Inbox!Past(all[i], from)
  <2>1. all[i] = before[i] /\ before[i] \in Notices
    BY <1>2
  <2> QED BY <2>1 DEF ListIsSound
<1>4. ASSUME NEW i \in 1..Len(all), i > Len(before)
      PROVE  /\ i - Len(before) \in 1..Len(ids) /\ all[i] = ids[i - Len(before)]
             /\ Inbox!Past(all[i], from)
  <2>1. i - Len(before) \in 1..Len(ids) /\ all[i] = ids[i - Len(before)]
    BY <1>2, <1>4
  <2>2. ids[i - Len(before)] \in S
    BY <2>1
  <2> QED BY <2>1, <2>2
<1>5. ASSUME NEW i \in 1..Len(all), NEW j \in 1..Len(all), all[i] = all[j] PROVE i = j
  <2>1. CASE i <= Len(before) /\ j <= Len(before)
    <3>1. i \in 1..Len(before) /\ j \in 1..Len(before)
      BY <1>2, <2>1
    <3> QED BY <1>3, <1>5, <3>1 DEF ListIsSound
  <2>2. CASE i > Len(before) /\ j > Len(before)
    <3>1. i - Len(before) = j - Len(before)
      BY <1>4, <1>5, <2>2 DEF ListIsSound
    <3> QED BY <1>2, <3>1
  <2>3. CASE (i <= Len(before) /\ j > Len(before)) \/ (j <= Len(before) /\ i > Len(before))
    BY <1>2, <1>3, <1>4, <1>5, <2>3
  <2> QED BY <1>2, <2>1, <2>2, <2>3
<1>6. ASSUME ending # Inbox!NoCursor, NEW i \in 1..Len(all)
      PROVE  ~Inbox!Past(all[i], ending)
  <2>1. CASE i <= Len(before)
    <3>1. i \in 1..Len(before)
      BY <1>2, <2>1
    <3> QED BY <1>3, <1>6, <3>1
  <2>2. CASE i > Len(before)
    BY <1>4, <1>6, <2>2 DEF ListIsSound
  <2> QED BY <1>2, <2>1, <2>2
<1>7. ASSUME NEW n \in existed, ending = Inbox!NoCursor \/ ~Inbox!Past(n, ending)
      PROVE  \E i \in 1..Len(all) : all[i] = n
  <2>1. CASE Inbox!Past(n, from)
    <3>1. PICK i \in 1..Len(ids) : ids[i] = n
      BY <1>7, <2>1 DEF ListIsSound
    <3>2. PICK k : k = i + Len(before)
      OBVIOUS
    <3>3. k \in 1..Len(all) /\ ~(k <= Len(before)) /\ k - Len(before) = i
      BY <1>2, <3>1, <3>2
    <3>4. all[k] = n
      BY <1>2, <3>1, <3>3
    <3> QED BY <3>3, <3>4
  <2>2. CASE ~Inbox!Past(n, from)
    <3>1. PICK i \in 1..Len(before) : before[i] = n
      BY <2>2 DEF ListIsSound
    <3>2. i \in 1..Len(all) /\ all[i] = n
      BY <1>2, <1>3, <3>1
    <3> QED BY <3>2
  <2> QED BY <2>1, <2>2
<1>8. ListIsSound(all, existed, ending)
  BY <1>5, <1>6, <1>7 DEF ListIsSound
<1> QED BY <1>1, <1>8

(* Notices arrive and are read: what was read first stays.                  *)
InboxAdvances ==
    /\ there \subseteq there' /\ there' \subseteq Notices
    /\ readAt' \in [Notices -> 0..MaxReads] /\ clock' \in 0..MaxReads
    /\ \A n \in Notices : readAt[n] \in {0, readAt'[n]}

LEMMA InboxMayStay ==
    ASSUME InboxInv, UNCHANGED <<there, readAt, clock>>
    PROVE  InboxAdvances
BY DEF InboxInv, InboxTypes, InboxAdvances

LEMMA ReadingsRemainFirst ==
    ASSUME InboxAdvances, NEW reading \in Inbox!Items, ReadingIsFirst(reading)
    PROVE  ReadingIsFirst(reading)'
BY DEF InboxAdvances, ReadingIsFirst, Inbox!Items

LEMMA ListedReadingsRemainFirst ==
    ASSUME InboxAdvances, NEW readings \in Seq(Inbox!Items), ReadingsAreFirst(readings)
    PROVE  ReadingsAreFirst(readings)'
<1>1. ASSUME NEW i \in 1..Len(readings) PROVE ReadingIsFirst(readings[i])'
  <2>1. PICK reading \in Inbox!Items : reading = readings[i] /\ ReadingIsFirst(reading)
    BY DEF ReadingsAreFirst
  <2>2. ReadingIsFirst(reading)'
    BY <2>1, ReadingsRemainFirst
  <2> QED BY <2>1, <2>2 DEF ReadingIsFirst
<1> QED BY <1>1 DEF ReadingsAreFirst

LEMMA InboxLoadsRemainSound ==
    ASSUME InboxAdvances, NEW c \in InboxLoads, InboxLoadIsSound(c)
    PROVE  InboxLoadIsSound(c)'
<1>1. c.pc = "served" => ReadingsAreFirst(c.items)'
  BY InboxLoadKinds, ListedReadingsRemainFirst DEF InboxLoadIsSound, InboxServed
<1> QED BY <1>1 DEF InboxLoadIsSound, InboxAdvances

LEMMA VisitsRemainSound ==
    ASSUME InboxAdvances, NEW c \in InboxVisits, VisitIsSound(c)
    PROVE  VisitIsSound(c)'
BY InboxVisitKinds, ReadingsRemainFirst DEF VisitIsSound

(* A visit steps, as notices arrive and are read.                           *)
LEMMA InboxVisitSteps ==
    ASSUME InboxInv, InboxAdvances, UNCHANGED <<page, list, mixed>>,
           NEW visits \in [Visits -> InboxVisits], visit' = visits,
           \A v \in Visits : visits[v] = visit[v] \/ VisitIsSound(visits[v])'
    PROVE  InboxInv'
<1>1. InboxTypes'
  BY DEF InboxInv, InboxTypes, InboxAdvances
<1>2. PICK got \in Seq(Inbox!Items) : got = page.items /\ got = page'.items
                                      /\ ReadingsAreFirst(got)
  BY DEF InboxInv, InboxTypes, InboxPages
<1>3. ReadingsAreFirst(got)'
  BY <1>2, ListedReadingsRemainFirst
<1>4. ReadingsAreFirst(page.items)'
  BY <1>2, <1>3 DEF ReadingsAreFirst, ReadingIsFirst
<1>5. ASSUME NEW l \in Lists PROVE InboxLoadIsSound(list[l])'
  <2>1. PICK c \in InboxLoads : c = list[l] /\ c = list'[l] /\ InboxLoadIsSound(c)
    BY DEF InboxInv, InboxTypes
  <2>2. InboxLoadIsSound(c)'
    BY <2>1, InboxLoadsRemainSound
  <2> QED BY <2>1, <2>2 DEF InboxLoadIsSound, ReadingsAreFirst, ReadingIsFirst
<1>6. ASSUME NEW v \in Visits PROVE VisitIsSound(visit[v])'
  <2>1. PICK c \in InboxVisits : c = visit'[v]
    BY <1>1 DEF InboxTypes
  <2>2. VisitIsSound(c)'
    <3>1. CASE c = visit[v]
      BY <3>1, VisitsRemainSound DEF InboxInv
    <3>2. CASE VisitIsSound(visits[v])'
      BY <2>1, <3>2 DEF VisitIsSound, ReadingIsFirst
    <3> QED BY <2>1, <3>1, <3>2
  <2> QED BY <2>1, <2>2 DEF VisitIsSound, ReadingIsFirst
<1>7. page'.existed \subseteq there'
  BY DEF InboxInv, InboxAdvances
<1>8. ~mixed' => ListIsSound(Inbox!Ids(page'.items), page'.existed, page'.cursor)
  BY DEF InboxInv
<1> QED BY <1>1, <1>4, <1>5, <1>6, <1>7, <1>8 DEF InboxInv

LEMMA VisitingKeeps ==
    ASSUME InboxInv,
           \/ \E n \in Notices : Inbox!Arrives(n)
           \/ \E v \in Visits :
                \/ \E n \in Notices : Inbox!Visit(v, n)
                \/ Inbox!Mark(v) \/ Inbox!Reread(v) \/ Inbox!NotVisited(v)
    PROVE  InboxInv'
<1>1. CASE \E n \in Notices : Inbox!Arrives(n)
  <2>1. InboxAdvances /\ UNCHANGED <<page, list, mixed, visit>>
    BY <1>1 DEF Inbox!Arrives, InboxInv, InboxTypes, InboxAdvances
  <2>2. PICK visits \in [Visits -> InboxVisits] : visits = visit /\ visit' = visits
    BY <2>1 DEF InboxInv, InboxTypes
  <2> QED BY <2>1, <2>2, InboxVisitSteps
<1>2. ASSUME NEW v \in Visits, NEW next \in InboxVisits, InboxAdvances,
             UNCHANGED <<page, list, mixed>>, visit' = [visit EXCEPT ![v] = next],
             VisitIsSound(next)'
      PROVE  InboxInv'
  <2>1. PICK visits \in [Visits -> InboxVisits] :
          /\ visits = [visit EXCEPT ![v] = next]
          /\ visits[v] = next /\ \A w \in Visits \ {v} : visits[w] = visit[w]
    <3>1. visit \in [Visits -> InboxVisits]
      BY DEF InboxInv, InboxTypes
    <3>2. PICK visits : visits = [visit EXCEPT ![v] = next]
      OBVIOUS
    <3>3. /\ visits \in [Visits -> InboxVisits]
          /\ visits[v] = next /\ \A w \in Visits \ {v} : visits[w] = visit[w]
      BY <3>1, <3>2
    <3> QED BY <3>2, <3>3
  <2>2. \A w \in Visits : visits[w] = visit[w] \/ VisitIsSound(visits[w])'
    BY <1>2, <2>1 DEF VisitIsSound, ReadingIsFirst
  <2> QED BY <1>2, <2>1, <2>2, InboxVisitSteps
<1>3. ASSUME NEW c, c.pc # "answer" PROVE VisitIsSound(c)'
  BY <1>3 DEF VisitIsSound
<1>4. ASSUME NEW v \in Visits, NEW n \in Notices, Inbox!Visit(v, n) PROVE InboxInv'
  <2>1. PICK next : next = [pc |-> "sent", id |-> n]
    OBVIOUS
  <2>2. next \in InboxVisits /\ next.pc # "answer"
    BY <2>1 DEF InboxVisits
  <2>3. InboxAdvances
    BY <1>4, InboxMayStay DEF Inbox!Visit
  <2>4. visit' = [visit EXCEPT ![v] = next] /\ UNCHANGED <<page, list, mixed>>
    BY <1>4, <2>1 DEF Inbox!Visit
  <2> QED BY <1>2, <1>3, <2>2, <2>3, <2>4
<1>5. ASSUME NEW v \in Visits, Inbox!Mark(v) PROVE InboxInv'
  <2>1. PICK c \in [pc : {"sent", "reread"}, id : Notices] : c = visit[v]
    BY <1>5, InboxVisitKinds DEF Inbox!Mark, InboxInv, InboxTypes
  <2>2. PICK next : next = [c EXCEPT !.pc = "reread"]
    OBVIOUS
  <2>3. next \in InboxVisits /\ next.pc # "answer"
    BY <2>2 DEF InboxVisits
  <2>4. PICK first \in 0..MaxReads :
          /\ readAt' = [readAt EXCEPT ![c.id] = first]
          /\ readAt[c.id] \in {0, first}
          /\ clock' \in 0..MaxReads
    <3>1. clock' = clock + 1 /\ clock < MaxReads /\ clock \in Nat /\ MaxReads \in Nat
          /\ readAt[c.id] \in 0..MaxReads
      BY <1>5, BoundsAssumption DEF Inbox!Mark, InboxInv, InboxTypes
    <3>2. PICK first : first = Inbox!FirstReading(c.id)
      OBVIOUS
    <3>3. first \in 0..MaxReads /\ readAt[c.id] \in {0, first}
      BY <3>1, <3>2 DEF Inbox!FirstReading
    <3>4. readAt' = [readAt EXCEPT ![c.id] = first]
      BY <1>5, <2>1, <3>2 DEF Inbox!Mark
    <3>5. clock' \in 0..MaxReads
      BY <3>1
    <3> QED BY <3>3, <3>4, <3>5
  <2>5. InboxAdvances
    BY <1>5, <2>4 DEF Inbox!Mark, InboxAdvances, InboxInv, InboxTypes
  <2>6. visit' = [visit EXCEPT ![v] = next] /\ UNCHANGED <<page, list, mixed>>
    BY <1>5, <2>1, <2>2 DEF Inbox!Mark
  <2> QED BY <1>2, <1>3, <2>3, <2>5, <2>6
<1>6. ASSUME NEW v \in Visits, Inbox!Reread(v) PROVE InboxInv'
  <2>1. PICK c \in [pc : {"sent", "reread"}, id : Notices] : c = visit[v]
    BY <1>6, InboxVisitKinds DEF Inbox!Reread, InboxInv, InboxTypes
  <2>2. PICK reading : reading = [id |-> c.id, readAt |-> readAt[c.id]]
    OBVIOUS
  <2>3. reading \in Inbox!Items
    BY <2>1, <2>2 DEF Inbox!Items, InboxInv, InboxTypes
  <2>4. PICK next : next = [pc |-> "answer", item |-> reading]
    OBVIOUS
  <2>5. next \in InboxVisits /\ next.item = reading
    BY <2>3, <2>4 DEF InboxVisits
  <2>6. visit' = [visit EXCEPT ![v] = next] /\ UNCHANGED <<there, readAt, clock, page, list, mixed>>
    BY <1>6, <2>1, <2>2, <2>4 DEF Inbox!Reread
  <2>7. VisitIsSound(next)'
    BY <2>2, <2>5, <2>6 DEF VisitIsSound, ReadingIsFirst
  <2>8. InboxAdvances
    BY <2>6, InboxMayStay
  <2> QED BY <1>2, <2>5, <2>6, <2>7, <2>8
<1>7. ASSUME NEW v \in Visits, Inbox!NotVisited(v) PROVE InboxInv'
  <2>1. Inbox!Idle \in InboxVisits /\ Inbox!Idle.pc # "answer"
    BY DEF InboxVisits, Inbox!Idle
  <2>2. InboxAdvances
    BY <1>7, InboxMayStay DEF Inbox!NotVisited
  <2>3. visit' = [visit EXCEPT ![v] = Inbox!Idle] /\ UNCHANGED <<page, list, mixed>>
    BY <1>7 DEF Inbox!NotVisited
  <2> QED BY <1>2, <1>3, <2>1, <2>2, <2>3
<1> QED BY <1>1, <1>4, <1>5, <1>6, <1>7

LEMMA ListTyped ==
    ASSUME InboxInv
    PROVE  /\ there \in SUBSET Notices /\ readAt \in [Notices -> 0..MaxReads]
           /\ page \in InboxPages /\ list \in [Lists -> InboxLoads]
           /\ \A l \in Lists : InboxLoadIsSound(list[l])
           /\ page.items \in Seq(Inbox!Items) /\ page.cursor \in Inbox!Cursors
           /\ page.existed \in SUBSET Notices
BY DEF InboxInv, InboxTypes, InboxPages

(* A list steps, and what the page shows stays.                             *)
LEMMA ListSteps ==
    ASSUME InboxInv, UNCHANGED <<there, readAt, clock, page, visit, mixed>>,
           NEW l \in Lists, NEW next \in InboxLoads, InboxLoadIsSound(next),
           list' = [list EXCEPT ![l] = next]
    PROVE  InboxInv'
<1>1. /\ list' \in [Lists -> InboxLoads] /\ list'[l] = next
      /\ \A k \in Lists \ {l} : list'[k] = list[k]
  BY ListTyped
<1>2. InboxTypes'
  BY <1>1 DEF InboxInv, InboxTypes
<1>3. ReadingsAreFirst(page.items)'
  BY DEF InboxInv, ReadingsAreFirst, ReadingIsFirst
<1>4. ASSUME NEW k \in Lists PROVE InboxLoadIsSound(list[k])'
  <2>1. PICK c : c = list'[k] /\ InboxLoadIsSound(c)
    BY <1>1 DEF InboxInv
  <2>2. InboxLoadIsSound(c)'
    BY <2>1 DEF InboxLoadIsSound, ReadingsAreFirst, ReadingIsFirst
  <2> QED BY <2>1, <2>2 DEF InboxLoadIsSound, ReadingsAreFirst, ReadingIsFirst
<1>5. ASSUME NEW v \in Visits PROVE VisitIsSound(visit[v])'
  BY DEF InboxInv, VisitIsSound, ReadingIsFirst
<1>6. page'.existed \subseteq there'
  BY DEF InboxInv
<1>7. ~mixed' => ListIsSound(Inbox!Ids(page'.items), page'.existed, page'.cursor)
  BY DEF InboxInv
<1> QED BY <1>2, <1>3, <1>4, <1>5, <1>6, <1>7 DEF InboxInv

LEMMA InboxRefreshKeeps ==
    ASSUME InboxInv, NEW l \in Lists, Inbox!Refresh(l) \/ Inbox!NotListed(l)
    PROVE  InboxInv'
<1>1. PICK next : next = [pc |-> "sent", append |-> FALSE, cursor |-> Inbox!NoCursor,
                          onto |-> <<>>]
  OBVIOUS
<1>2. /\ next \in InboxLoads /\ next.pc = "sent" /\ next.append = FALSE
      /\ next.cursor = Inbox!NoCursor
  BY <1>1 DEF InboxLoads, InboxSent, InboxOntos, Inbox!Cursors
<1>3. InboxLoadIsSound(next)
  BY <1>2 DEF InboxLoadIsSound
<1>4. Inbox!Idle \in InboxLoads /\ Inbox!Idle.pc = "idle"
  BY DEF InboxLoads, Inbox!Idle
<1>5. InboxLoadIsSound(Inbox!Idle)
  BY <1>4 DEF InboxLoadIsSound
<1>6. UNCHANGED <<there, readAt, clock, page, visit, mixed>>
  BY DEF Inbox!Refresh, Inbox!NotListed
<1>7. list' = [list EXCEPT ![l] = next] \/ list' = [list EXCEPT ![l] = Inbox!Idle]
  BY <1>1 DEF Inbox!Refresh, Inbox!NotListed
<1> QED BY <1>2, <1>3, <1>4, <1>5, <1>6, <1>7, ListSteps

LEMMA LoadMoreKeeps ==
    ASSUME InboxInv, NEW l \in Lists, Inbox!LoadMore(l)
    PROVE  InboxInv'
<1>1. PICK ids \in Seq(Notices), existed \in SUBSET Notices, from \in Inbox!Cursors :
        /\ ids = Inbox!Ids(page.items) /\ existed = page.existed /\ from = page.cursor
  BY ListTyped, IdsAreTyped
<1>2. ListIsSound(ids, existed, from) /\ existed \subseteq there /\ from # Inbox!NoCursor
  BY <1>1 DEF InboxInv, Inbox!LoadMore
<1>3. PICK onto \in InboxOntos : onto = <<ids, existed>>
  BY DEF InboxOntos
<1>4. onto[1] = ids /\ onto[2] = existed /\ onto # <<>>
  BY <1>3
<1>5. PICK next : next = [pc |-> "sent", append |-> TRUE, cursor |-> from, onto |-> onto]
  OBVIOUS
<1>6. /\ next \in InboxLoads /\ next.pc = "sent" /\ next.append /\ next.cursor = from
      /\ next.onto = onto
  BY <1>5 DEF InboxLoads, InboxSent
<1>7. InboxLoadIsSound(next)
  BY <1>2, <1>4, <1>6 DEF InboxLoadIsSound
<1>8. list' = [list EXCEPT ![l] = next]
  BY <1>1, <1>3, <1>5 DEF Inbox!LoadMore, Inbox!ShownList
<1>9. UNCHANGED <<there, readAt, clock, page, visit, mixed>>
  BY DEF Inbox!LoadMore
<1> QED BY <1>6, <1>7, <1>8, <1>9, ListSteps

(* The rows a list takes, what is read of them, and the cursor it answers.  *)
FirstRows(ordered) ==
    SubSeq(ordered, 1, IF Len(ordered) > PageSize THEN PageSize ELSE Len(ordered))
ReadingsOf(ids) == [i \in 1..Len(ids) |-> [id |-> ids[i], readAt |-> readAt[ids[i]]]]
EndingOf(ordered, readings) ==
    IF Len(ordered) > PageSize THEN Inbox!CursorOf(readings) ELSE Inbox!NoCursor

LEMMA ReadingsOfNotices ==
    ASSUME readAt \in [Notices -> 0..MaxReads], NEW some \in Seq(Notices),
           NEW readings, readings = ReadingsOf(some)
    PROVE  /\ readings \in Seq(Inbox!Items) /\ Len(readings) = Len(some)
           /\ ReadingsAreFirst(readings) /\ Inbox!Ids(readings) = some
<1>1. PICK N \in Nat : N = Len(some)
  OBVIOUS
<1>2. ASSUME NEW i \in 1..N
      PROVE  /\ readings[i].id = some[i]
             /\ readings[i] \in Inbox!Items
             /\ ReadingIsFirst(readings[i])
  <2>1. PICK n \in Notices : n = some[i]
    BY <1>1
  <2>2. PICK reading : reading = [id |-> n, readAt |-> readAt[n]]
    OBVIOUS
  <2>3. readings[i] = reading
    BY <1>1, <2>1, <2>2 DEF ReadingsOf
  <2>4. reading \in Inbox!Items /\ ReadingIsFirst(reading) /\ reading.id = n
    BY <2>2 DEF Inbox!Items, ReadingIsFirst
  <2> QED BY <2>1, <2>3, <2>4
<1>3. readings \in [1..N -> Inbox!Items]
  BY <1>1, <1>2 DEF ReadingsOf
<1>4. readings \in Seq(Inbox!Items) /\ Len(readings) = N
  BY <1>3, IsASeq, LenProperties
<1>5. ReadingsAreFirst(readings)
  BY <1>2, <1>4 DEF ReadingsAreFirst
<1>6. PICK ids : ids = Inbox!Ids(readings)
  OBVIOUS
<1>7. ids \in Seq(Notices) /\ Len(ids) = N /\ \A i \in 1..N : ids[i] = readings[i].id
  BY <1>4, <1>6, IdsAreTyped
<1>8. \A i \in 1..N : ids[i] = some[i]
  BY <1>2, <1>7
<1>9. ids = some
  BY <1>1, <1>7, <1>8, SeqEqual
<1> QED BY <1>1, <1>4, <1>5, <1>6, <1>9

LEMMA PagesAreRead ==
    ASSUME readAt \in [Notices -> 0..MaxReads], NEW S \in SUBSET Notices,
           NEW some, NEW readings, NEW ending,
           some = FirstRows(Inbox!InOrder(S)), readings = ReadingsOf(some),
           ending = EndingOf(Inbox!InOrder(S), readings)
    PROVE  /\ readings \in Seq(Inbox!Items) /\ ReadingsAreFirst(readings)
           /\ Inbox!Ids(readings) = some /\ PageOf(some, Inbox!InOrder(S), ending)
<1>1. PICK ordered \in Seq(Notices) : ordered = Inbox!InOrder(S)
  BY RowsAreInOrder
<1>2. PICK N \in Nat : /\ N = IF Len(ordered) > PageSize THEN PageSize ELSE Len(ordered)
                       /\ N <= Len(ordered) /\ (Len(ordered) > PageSize => N >= 1)
  <2>1. Len(ordered) \in Nat /\ PageSize \in Nat \ {0}
    BY BoundsAssumption
  <2> QED BY <2>1
<1>3. some = SubSeq(ordered, 1, N)
  BY <1>1, <1>2 DEF FirstRows
<1>4. SubSeq(ordered, 1, N) \in Seq(Notices) /\ Len(SubSeq(ordered, 1, N)) = N
  <2>1. \A i \in 1..N : ordered[i] \in Notices
    BY <1>2
  <2> QED BY <1>2, <2>1, SubSeqProperties
<1>5. some \in Seq(Notices) /\ Len(some) = N
  BY <1>3, <1>4
<1>6. /\ readings \in Seq(Inbox!Items) /\ Len(readings) = N
      /\ ReadingsAreFirst(readings) /\ Inbox!Ids(readings) = some
  BY <1>5, ReadingsOfNotices
<1>7. PageOf(some, ordered, ending)
  <2>1. CASE Len(ordered) > PageSize
    <3>1. Inbox!Last(readings) = readings[N] /\ N \in 1..N
      BY <1>2, <1>6, <2>1 DEF Inbox!Last
    <3>2. readings[N].id = some[N]
      BY <1>6, <3>1, IdsAreTyped
    <3>3. ending = [createdAt |-> CreatedAt[some[N]], id |-> some[N]]
      BY <1>1, <2>1, <3>1, <3>2 DEF Inbox!CursorOf, EndingOf
    <3>4. N = PageSize
      BY <1>2, <2>1
    <3> QED BY <1>1, <2>1, <3>3, <3>4 DEF PageOf, FirstRows
  <2>2. CASE ~(Len(ordered) > PageSize)
    BY <1>1, <2>2 DEF PageOf, FirstRows, EndingOf
  <2> QED BY <2>1, <2>2
<1> QED BY <1>1, <1>6, <1>7

LEMMA InboxServeListKeeps ==
    ASSUME InboxInv, NEW l \in Lists, Inbox!ServeList(l)
    PROVE  InboxInv'
<1>1. PICK c \in InboxSent : c = list[l] /\ c.pc = "sent" /\ InboxLoadIsSound(c)
  BY ListTyped, InboxLoadKinds DEF Inbox!ServeList
<1>2. PICK from \in Inbox!Cursors, onto \in InboxOntos, append \in BOOLEAN :
        from = c.cursor /\ onto = c.onto /\ append = c.append
  BY DEF InboxSent
<1>3. PICK S \in SUBSET Notices : S = {n \in there : Inbox!Past(n, from)}
  BY ListTyped
<1>4. PICK some :
        some = FirstRows(Inbox!InOrder(S))
  OBVIOUS
<1>5. PICK readings :
        readings = ReadingsOf(some)
  OBVIOUS
<1>6. PICK ending : ending = EndingOf(Inbox!InOrder(S), readings)
  OBVIOUS
<1>7. PICK existed \in SUBSET Notices :
        existed = (IF append THEN {} ELSE there) /\ existed \subseteq there
  <2>1. {} \in SUBSET Notices /\ there \in SUBSET Notices
    BY ListTyped
  <2>2. CASE append
    BY <2>1, <2>2
  <2>3. CASE ~append
    BY <2>1, <2>3
  <2> QED BY <2>2, <2>3
<1>8. PICK next : next = [pc |-> "served", append |-> append, onto |-> onto,
                          items |-> readings, cursor |-> ending, existed |-> existed]
  OBVIOUS
<1>9. list' = [list EXCEPT ![l] = next]
  BY <1>1, <1>2, <1>3, <1>4, <1>5, <1>6, <1>7, <1>8
     DEF Inbox!ServeList, FirstRows, ReadingsOf, EndingOf
<1>10. /\ readings \in Seq(Inbox!Items) /\ ReadingsAreFirst(readings)
       /\ Inbox!Ids(readings) = some /\ PageOf(some, Inbox!InOrder(S), ending)
  <2>1. readAt \in [Notices -> 0..MaxReads]
    BY ListTyped
  <2> QED BY <1>4, <1>5, <1>6, <2>1, PagesAreRead
<1>11. /\ some \in Seq(Notices) /\ ending \in Inbox!Cursors
       /\ \A i \in 1..Len(some) : some[i] \in S
       /\ ListIsSound(some, S, ending)
       /\ ending # Inbox!NoCursor =>
            \A n \in Notices : ~Inbox!Past(n, from) => ~Inbox!Past(n, ending)
  <2>1. \A n \in S : Inbox!Past(n, from)
    BY <1>3
  <2> QED BY <1>10, <2>1, PagesContinue
<1>12. /\ next \in InboxServed /\ next.pc = "served" /\ next.append = append
       /\ next.onto = onto /\ next.items = readings /\ next.cursor = ending
       /\ next.existed = existed
  BY <1>8, <1>10, <1>11 DEF InboxServed
<1>13. ASSUME append
       PROVE  /\ onto # <<>> /\ existed = {}
              /\ ListIsSound(onto[1] \o some, onto[2], ending)
  <2>1. /\ onto # <<>> /\ onto[2] \subseteq there /\ from # Inbox!NoCursor
        /\ ListIsSound(onto[1], onto[2], from)
    BY <1>1, <1>2, <1>13 DEF InboxLoadIsSound
  <2>2. PICK before \in Seq(Notices), old \in SUBSET there : before = onto[1] /\ old = onto[2]
    BY <2>1 DEF InboxOntos
  <2>3. PICK being \in SUBSET Notices : being = there
    BY ListTyped
  <2>4. ListIsSound(before \o some, old, ending)
    BY <1>3, <1>11, <2>1, <2>2, <2>3, ContinuationIsSound
  <2> QED BY <1>7, <1>13, <2>1, <2>2, <2>4
<1>14. ASSUME ~append
       PROVE  ListIsSound(some, existed, ending)
  <2>1. from = Inbox!NoCursor
    BY <1>1, <1>2, <1>14 DEF InboxLoadIsSound
  <2>2. S = existed
    BY <1>3, <1>7, <1>14, <2>1 DEF Inbox!Past
  <2> QED BY <1>11, <2>2
<1>15. InboxLoadIsSound(next)
  BY <1>7, <1>10, <1>12, <1>13, <1>14 DEF InboxLoadIsSound
<1>16. UNCHANGED <<there, readAt, clock, page, visit, mixed>>
  BY DEF Inbox!ServeList
<1>17. next \in InboxLoads
  BY <1>12 DEF InboxLoads
<1> QED BY <1>9, <1>15, <1>16, <1>17, ListSteps

(* What the page shows changes.                                             *)
LEMMA PageTurns ==
    ASSUME InboxInv, UNCHANGED <<there, readAt, clock>>,
           NEW turned \in InboxPages, page' = turned, turned.existed \subseteq there,
           ReadingsAreFirst(turned.items), mixed' \in BOOLEAN,
           ~mixed' => ListIsSound(Inbox!Ids(turned.items), turned.existed, turned.cursor),
           NEW lists \in [Lists -> InboxLoads], list' = lists,
           \A l \in Lists : InboxLoadIsSound(lists[l]),
           NEW visits \in [Visits -> InboxVisits], visit' = visits,
           \A v \in Visits : VisitIsSound(visits[v])
    PROVE  InboxInv'
<1>1. InboxTypes'
  BY DEF InboxInv, InboxTypes
<1>2. ReadingsAreFirst(page.items)'
  BY DEF ReadingsAreFirst, ReadingIsFirst
<1>3. ASSUME NEW l \in Lists PROVE InboxLoadIsSound(list[l])'
  BY DEF InboxLoadIsSound, ReadingsAreFirst, ReadingIsFirst
<1>4. ASSUME NEW v \in Visits PROVE VisitIsSound(visit[v])'
  BY DEF VisitIsSound, ReadingIsFirst
<1>5. page'.existed \subseteq there'
  OBVIOUS
<1>6. ~mixed' => ListIsSound(Inbox!Ids(page'.items), page'.existed, page'.cursor)
  OBVIOUS
<1> QED BY <1>1, <1>2, <1>3, <1>4, <1>5, <1>6 DEF InboxInv

(* A page is appended: to the list it continues, or the lists are mixed up. *)
LEMMA InboxListedKeeps ==
    ASSUME InboxInv, NEW l \in Lists, Inbox!Listed(l)
    PROVE  InboxInv'
<1>1. PICK c \in InboxServed : c = list[l] /\ c.pc = "served" /\ InboxLoadIsSound(c)
  BY ListTyped, InboxLoadKinds DEF Inbox!Listed
<1>2. PICK got \in Seq(Inbox!Items), more \in Seq(Inbox!Items), upto \in Inbox!Cursors,
           existed \in SUBSET Notices, old \in SUBSET Notices, append \in BOOLEAN :
        /\ got = page.items /\ old = page.existed
        /\ more = c.items /\ upto = c.cursor /\ existed = c.existed /\ append = c.append
  BY ListTyped DEF InboxServed
<1>3. PICK appended \in BOOLEAN : appended = (append /\ page # Inbox!NoPage)
  OBVIOUS
<1>4. PICK turned : turned = [items |-> IF appended THEN got \o more ELSE more,
                              cursor |-> upto,
                              existed |-> IF appended THEN old ELSE existed]
  OBVIOUS
<1>5. /\ page' = turned
      /\ mixed' = IF append THEN mixed \/ Inbox!ShownList # c.onto ELSE FALSE
      /\ list' = [list EXCEPT ![l] = Inbox!Idle]
      /\ UNCHANGED <<there, readAt, clock, visit>>
  BY <1>1, <1>2, <1>3, <1>4 DEF Inbox!Listed
<1>6. got \o more \in Seq(Inbox!Items)
  OBVIOUS
<1>7. /\ turned \in InboxPages /\ turned.cursor = upto
      /\ turned.items = IF appended THEN got \o more ELSE more
      /\ turned.existed = IF appended THEN old ELSE existed
  BY <1>4, <1>6 DEF InboxPages
<1>8. turned.existed \subseteq there
  BY <1>1, <1>2, <1>7 DEF InboxInv, InboxLoadIsSound
<1>9. ReadingsAreFirst(got) /\ ReadingsAreFirst(more)
  BY <1>1, <1>2 DEF InboxInv, InboxLoadIsSound
<1>10. ReadingsAreFirst(got \o more)
  <2>1. PICK joined : joined = got \o more
    OBVIOUS
  <2>2. /\ Len(joined) = Len(got) + Len(more) /\ Len(got) \in Nat /\ Len(more) \in Nat
        /\ \A i \in 1..(Len(got) + Len(more)) :
             joined[i] = IF i <= Len(got) THEN got[i] ELSE more[i - Len(got)]
    BY <2>1
  <2>3. ASSUME NEW i \in 1..Len(joined) PROVE ReadingIsFirst(joined[i])
    <3>1. CASE i <= Len(got)
      <4>1. i \in 1..Len(got) /\ joined[i] = got[i]
        BY <2>2, <3>1
      <4> QED BY <1>9, <4>1 DEF ReadingsAreFirst
    <3>2. CASE ~(i <= Len(got))
      <4>1. i - Len(got) \in 1..Len(more) /\ joined[i] = more[i - Len(got)]
        BY <2>2, <3>2
      <4> QED BY <1>9, <4>1 DEF ReadingsAreFirst
    <3> QED BY <3>1, <3>2
  <2> QED BY <2>1, <2>3 DEF ReadingsAreFirst
<1>11. ReadingsAreFirst(turned.items)
  BY <1>7, <1>9, <1>10
<1>12. mixed' \in BOOLEAN
  BY <1>5 DEF InboxInv, InboxTypes
<1>13. ASSUME ~mixed'
       PROVE  ListIsSound(Inbox!Ids(turned.items), turned.existed, turned.cursor)
  <2>1. CASE ~append
    BY <1>1, <1>2, <1>3, <1>7, <2>1 DEF InboxLoadIsSound
  <2>2. CASE append
    <3>1. /\ c.onto = <<Inbox!Ids(got), old>>
      BY <1>2, <1>5, <1>13, <2>2 DEF Inbox!ShownList
    <3>2. /\ ListIsSound(Inbox!Ids(got) \o Inbox!Ids(more), old, upto) /\ existed = {}
      BY <1>1, <1>2, <2>2, <3>1 DEF InboxLoadIsSound
    <3>3. ListIsSound(Inbox!Ids(got \o more), old, upto)
      BY <3>2, IdsOfConcat
    <3>4. CASE appended
      BY <1>7, <3>3, <3>4
    <3>5. CASE ~appended
      <4>1. got = <<>> /\ old = {}
        <5>1. page = Inbox!NoPage
          BY <1>3, <2>2, <3>5
        <5> QED BY <1>2, <5>1 DEF Inbox!NoPage
      <4>2. got \o more = more
        BY <4>1, ConcatEmptySeq
      <4> QED BY <1>7, <3>2, <3>3, <3>5, <4>1, <4>2
    <3> QED BY <3>4, <3>5
  <2> QED BY <2>1, <2>2
<1>14. PICK lists \in [Lists -> InboxLoads] :
         /\ list' = lists /\ lists[l] = Inbox!Idle
         /\ \A k \in Lists \ {l} : lists[k] = list[k]
  <2>1. Inbox!Idle \in InboxLoads
    BY DEF InboxLoads
  <2> QED BY <1>5, <2>1, ListTyped
<1>15. \A k \in Lists : InboxLoadIsSound(lists[k])
  <2>1. Inbox!Idle.pc = "idle"
    BY DEF Inbox!Idle
  <2>2. InboxLoadIsSound(Inbox!Idle)
    BY <2>1 DEF InboxLoadIsSound
  <2> QED BY <1>14, <2>2, ListTyped
<1>16. PICK visits \in [Visits -> InboxVisits] : visits = visit
  BY DEF InboxInv, InboxTypes
<1>17. visit' = visits /\ \A v \in Visits : VisitIsSound(visits[v])
  BY <1>5, <1>16 DEF InboxInv
<1> QED BY <1>5, <1>7, <1>8, <1>11, <1>12, <1>13, <1>14, <1>15, <1>17, PageTurns

(* A notice is shown as it was read again: the list is of the same notices. *)
LEMMA VisitedKeeps ==
    ASSUME InboxInv, NEW v \in Visits, Inbox!Visited(v)
    PROVE  InboxInv'
<1>1. visit[v] \in InboxVisits /\ visit[v].pc = "answer" /\ VisitIsSound(visit[v])
  BY DEF Inbox!Visited, InboxInv, InboxTypes
<1>2. PICK reading \in Inbox!Items : reading = visit[v].item /\ ReadingIsFirst(reading)
  BY <1>1, InboxVisitKinds DEF VisitIsSound
<1>3. PICK got \in Seq(Inbox!Items) : got = page.items /\ ReadingsAreFirst(got)
  BY ListTyped DEF InboxInv
<1>4. PICK after : after = [i \in 1..Len(got) |-> IF got[i].id = reading.id THEN reading
                                                 ELSE got[i]]
  OBVIOUS
<1>5. PICK N \in Nat : N = Len(got)
  OBVIOUS
<1>6. ASSUME NEW i \in 1..N
      PROVE  /\ after[i] \in Inbox!Items /\ after[i].id = got[i].id
             /\ ReadingIsFirst(after[i])
  <2>1. PICK g \in Inbox!Items : g = got[i] /\ ReadingIsFirst(g)
    BY <1>3, <1>5 DEF ReadingsAreFirst
  <2>2. after[i] = IF g.id = reading.id THEN reading ELSE g
    BY <1>4, <1>5, <2>1
  <2> QED BY <1>2, <2>1, <2>2
<1>7. after \in [1..N -> Inbox!Items]
  BY <1>4, <1>5, <1>6
<1>8. after \in Seq(Inbox!Items) /\ Len(after) = N
  BY <1>7, IsASeq, LenProperties
<1>9. Inbox!Ids(after) = Inbox!Ids(got)
  <2>1. PICK ids \in Seq(Notices), others \in Seq(Notices) :
          /\ ids = Inbox!Ids(after) /\ others = Inbox!Ids(got)
          /\ Len(ids) = N /\ Len(others) = N
          /\ \A i \in 1..N : ids[i] = after[i].id
          /\ \A i \in 1..N : others[i] = got[i].id
    BY <1>5, <1>8, IdsAreTyped
  <2>2. \A i \in 1..N : ids[i] = others[i]
    BY <1>6, <2>1
  <2>3. ids = others
    BY <2>1, <2>2, SeqEqual
  <2> QED BY <2>1, <2>3
<1>10. PICK turned : turned = [page EXCEPT !.items = after]
  OBVIOUS
<1>11. page' = turned
  BY <1>2, <1>3, <1>4, <1>10 DEF Inbox!Visited
<1>12. /\ turned \in InboxPages /\ turned.items = after
       /\ turned.existed = page.existed /\ turned.cursor = page.cursor
  BY <1>8, <1>10, ListTyped DEF InboxPages
<1>13. ReadingsAreFirst(turned.items) /\ turned.existed \subseteq there
  BY <1>6, <1>8, <1>12 DEF ReadingsAreFirst, InboxInv
<1>14. UNCHANGED <<there, readAt, clock, list, mixed>>
       /\ visit' = [visit EXCEPT ![v] = Inbox!Idle]
  BY DEF Inbox!Visited
<1>15. mixed' \in BOOLEAN
       /\ (~mixed' => ListIsSound(Inbox!Ids(turned.items), turned.existed, turned.cursor))
  BY <1>3, <1>9, <1>12, <1>14 DEF InboxInv, InboxTypes
<1>16. PICK lists \in [Lists -> InboxLoads] :
         list' = lists /\ \A l \in Lists : InboxLoadIsSound(lists[l])
  BY <1>14, ListTyped
<1>17. PICK visits : visits = [visit EXCEPT ![v] = Inbox!Idle]
  OBVIOUS
<1>18. /\ visits \in [Visits -> InboxVisits]
       /\ \A w \in Visits : visits[w] = visit[w] \/ visits[w] = Inbox!Idle
  BY <1>17 DEF InboxInv, InboxTypes, InboxVisits
<1>19. \A w \in Visits : VisitIsSound(visits[w])
  BY <1>18 DEF VisitIsSound, InboxInv, Inbox!Idle
<1>20. visit' = visits
  BY <1>14, <1>17
<1> QED BY <1>11, <1>12, <1>13, <1>14, <1>15, <1>16, <1>18, <1>19, <1>20, PageTurns

LEMMA InboxInvIsInductive ==
    ASSUME InboxInv, Inbox!Next \/ UNCHANGED inboxVars
    PROVE  InboxInv'
<1>1. CASE UNCHANGED inboxVars
  <2>1. InboxAdvances /\ UNCHANGED <<page, list, mixed, visit>>
    BY <1>1, InboxMayStay DEF inboxVars
  <2>2. PICK visits \in [Visits -> InboxVisits] : visits = visit /\ visit' = visits
    BY <2>1 DEF InboxInv, InboxTypes
  <2> QED BY <2>1, <2>2, InboxVisitSteps
<1>2. CASE Inbox!Next
  BY <1>2, VisitingKeeps, InboxRefreshKeeps, LoadMoreKeeps, InboxServeListKeeps,
     InboxListedKeeps, VisitedKeeps DEF Inbox!Next
<1> QED BY <1>1, <1>2

-----------------------------------------------------------------------------
(* The pages together: a step is of one, and leaves the others.             *)

PortalsInv ==
    /\ AddressInv /\ SubmissionInv /\ InboxInv
    /\ ConsoleInv /\ CustomerInv /\ PanelInv

LEMMA EachAreaSteps ==
    ASSUME [Next]_vars
    PROVE  /\ Address!Next \/ UNCHANGED addressVars
           /\ Submission!Next \/ UNCHANGED submissionVars
           /\ Inbox!Next \/ UNCHANGED inboxVars
           /\ Console!Next \/ UNCHANGED consoleVars
           /\ Customer!Next \/ UNCHANGED customerVars
           /\ Panel!Next \/ UNCHANGED panelVars
BY DEF Next, PicksAddress, Submits, ReadsInbox, Operates, FollowsOrder, ReportsAfterwards, vars

LEMMA PortalsInvIsInductive ==
    ASSUME PortalsInv, [Next]_vars
    PROVE  PortalsInv'
BY EachAreaSteps, AddressInvIsInductive, SubmissionInvIsInductive, InboxInvIsInductive,
   ConsoleInvIsInductive, CustomerInvIsInductive, PanelInvIsInductive DEF PortalsInv

LEMMA PortalsIsInvariant == Spec => []PortalsInv
<1>1. Init => PortalsInv
  BY AddressInvInitially, SubmissionInvInitially, InboxInvInitially,
     ConsoleInvInitially, CustomerInvInitially, PanelInvInitially DEF Init, PortalsInv
<1>2. PortalsInv /\ [Next]_vars => PortalsInv'
  BY PortalsInvIsInductive
<1> QED BY <1>1, <1>2, PTL DEF Spec

(* Every page keeps to its types: what a list, a lookup, a load or a click  *)
(* holds when its answer comes is what the code reads of it.                *)
THEOREM PortalsTypeCorrect == Spec => []TypeOK
<1>1. PortalsInv => TypeOK
  BY InboxInvIsTyped, PanelInvIsTyped
     DEF PortalsInv, AddressInv, SubmissionInv, ConsoleInv, CustomerInv, TypeOK
<1> QED BY <1>1, PortalsIsInvariant, PTL

(* Whatever order the geocoder's answers come in, a pin looked up by itself *)
(* ends with its own address: the lookups that may still answer are of the  *)
(* pin, unless it was set while another was looked up (reverseGeocode in    *)
(* request-form.tsx).                                                       *)
THEOREM PinsAreAtTheirAddress == Spec => []PinIsAtTheAddress
<1>1. PortalsInv => PinIsAtTheAddress
  BY DEF PortalsInv, AddressInv, PinIsAtTheAddress
<1> QED BY <1>1, PortalsIsInvariant, PTL

(* The key kept for a body until it is answered: however many submits were  *)
(* repeated, refused or lost, an attempt leaves one request                 *)
(* (request-form.tsx and its proxy).                                        *)
THEOREM AttemptsMakeOneRequest == Spec => []OneRequestPerAttempt
<1>1. PortalsInv => OneRequestPerAttempt
  BY DEF PortalsInv, SubmissionInv, OneRequestPerAttempt
<1> QED BY <1>1, PortalsIsInvariant, PTL

(* The order by time and id and the cursor on both: whatever arrives while  *)
(* the inbox is continued, no notice there was is passed over or listed     *)
(* twice, but for pages appended to another list (notifications.service.ts  *)
(* list and notifications.tsx).                                             *)
THEOREM ContinuedListsHaveNoGap == Spec => []ListHasNoGap
<1>1. PortalsInv => ListHasNoGap
  BY InboxListHasNoGap DEF PortalsInv, ListHasNoGap
<1> QED BY <1>1, PortalsIsInvariant, PTL

(* Each page's conjunct rests on what its answers carried when they were    *)
(* served, and on what of the API cannot change behind them; that an order  *)
(* is shown with a payment it had past paying (customer-requests.tsx load)  *)
(* rests on the billing being asked for after the order.                    *)
THEOREM PagesAreTrue == Spec => []PagesTellWhatIs
<1>1. PortalsInv => Console!ShowsWhatWas
  BY DEF PortalsInv, ConsoleInv, CopyIsRow, IsRow, Console!ShowsWhatWas
<1>2. PortalsInv => PagesTellWhatIs
  BY <1>1, InboxShowsFirstReadings, CustomerShowsPaid, PanelListsOneActive
     DEF PortalsInv, SubmissionInv, PagesTellWhatIs
<1> QED BY <1>2, PortalsIsInvariant, PTL

(* A reassignment the API takes is of the version it was offered at, whose  *)
(* technician the page had left out (operational-requests.tsx).             *)
THEOREM ReassignmentsGoToAnother == Spec => ReassignsToAnother
<1>1. PortalsInv /\ [Next]_vars =>
        \A c \in Clicks :
          /\ click[c].pc = "sent" /\ click[c].action = "REASSIGN_TECHNICIAN"
          /\ click'[c] # click[c] /\ order' # order
          => Console!Order'.technician # Console!Order.technician
  BY EachAreaSteps, ReassignmentsChange DEF PortalsInv
<1> QED BY <1>1, PortalsIsInvariant, PTL
        DEF Spec, ReassignsToAnother, Console!ReassignsToAnother

(* An answer that would take a page back finds it gone forward, or a load   *)
(* that began before: the version an answer is compared with, the order of  *)
(* the two calls of a load, and late.                                       *)
THEOREM PagesGoForward == Spec => PagesGoBackOnlyWhenCrossed
<1>1. PortalsInv /\ [Next]_vars =>
        (copy # None => copy' # None /\ copy'.version >= copy.version)
  BY EachAreaSteps, ConsoleGoesForward DEF PortalsInv
<1>2. PortalsInv /\ [Next]_vars =>
        \A l \in Loads :
          /\ item # None /\ load[l] # Customer!Idle /\ load[l].pc = "ready"
          /\ load'[l] = Customer!Idle /\ item' # None
          => item'.version >= item.version \/ load[l].late
  <2>1. UNCHANGED customerVars => load' = load
    BY DEF customerVars
  <2> QED BY <2>1, EachAreaSteps, CustomerGoesForward DEF PortalsInv
<1>3. PortalsInv /\ [Next]_vars =>
        (rated /\ ~rated' =>
           \E l \in PanelLoads :
             /\ panelLoad[l].pc = "sent" /\ panelLoad'[l].pc # "sent"
             /\ panelLoad[l].rating = "refused" \/ panelLoad[l].late)
  <2>1. UNCHANGED panelVars => rated' = rated
    BY DEF panelVars
  <2> QED BY <2>1, EachAreaSteps, RatedStays DEF PortalsInv
<1> QED BY <1>1, <1>2, <1>3, PortalsIsInvariant, PTL
        DEF Spec, PagesGoBackOnlyWhenCrossed, Console!ConsoleNeverGoesBack,
            Customer!BackOnlyWhenCrossed, Panel!RatingStays
=============================================================================
