--------------------------- MODULE AddressPicker ---------------------------
(***************************************************************************)
(* apps/customer-web/app/request-form.tsx, the address of a request: the   *)
(* input fields, which a lookup, a suggestion or the person fills, and the *)
(* pin, which a click on the map, the device or a suggestion sets.  What   *)
(* is asked of the geocoder answers in any order, or never.                *)
(***************************************************************************)

CONSTANTS Slots,    \* lookups and suggestions under way at the same time
          Places,   \* where a pin may be, and the address there
          None

VARIABLES address,   \* the place the address inputs describe, or None
          pin,       \* coordinates, or None
          lookup,    \* lookup[l]: what was asked for, or None
          byHand,    \* history: the address was last left to something else than a pin
          moved      \* history: the pin was set while an earlier one was looked up

vars == <<address, pin, lookup, byHand, moved>>

Lookups == [kind : {"geocode", "suggestion"}, place : Places]

Init ==
    /\ address = None
    /\ pin = None
    /\ lookup = [l \in Slots |-> None]
    /\ byHand = FALSE /\ moved = FALSE

LookedUp(p) == {l \in Slots : /\ lookup[l] # None
                              /\ lookup[l].kind = "geocode" /\ lookup[l].place = p}

SetPin_MarkerOnly(p) == pin' = IF pin = None THEN p ELSE pin   \* mutant
SetPin(p) == pin' = p
Crosses(p) == moved' = \E q \in Places \ {p} : LookedUp(q) # {}

Begin(l, kind, p) ==
    /\ lookup[l] = None
    /\ lookup' = [lookup EXCEPT ![l] = [kind |-> kind, place |-> p]]
End(l) == lookup' = [lookup EXCEPT ![l] = None]

(* A click on the map, or the position the device answers with: the pin is  *)
(* set at once, the address when the geocoder answers.                      *)
ClickMap(l, p) ==
    /\ Begin(l, "geocode", p)
    /\ SetPin(p) /\ Crosses(p)
    /\ UNCHANGED <<address, byHand>>

(* The answer fills the fields, whether or not the pin is still there.      *)
Geocoded(l) ==
    /\ lookup[l] # None /\ lookup[l].kind = "geocode"
    /\ address' = lookup[l].place /\ byHand' = FALSE
    /\ End(l)
    /\ UNCHANGED <<pin, moved>>

(* No address, an error or no answer: the person is asked to type it.       *)
NotGeocoded(l) ==
    /\ lookup[l] # None /\ lookup[l].kind = "geocode"
    /\ byHand' = TRUE
    /\ End(l)
    /\ UNCHANGED <<address, pin, moved>>

SelectPlace(l, p) == Begin(l, "suggestion", p) /\ UNCHANGED <<address, pin, byHand, moved>>

(* Its details fill the fields and, when they have one, set the pin.        *)
PlaceFetched(l) ==
    /\ lookup[l] # None /\ lookup[l].kind = "suggestion"
    /\ address' = lookup[l].place
    /\ \/ SetPin(lookup[l].place) /\ Crosses(lookup[l].place) /\ byHand' = FALSE
       \/ byHand' = TRUE /\ UNCHANGED <<pin, moved>>
    /\ End(l)

PlaceNotFetched(l) ==
    /\ lookup[l] # None /\ lookup[l].kind = "suggestion"
    /\ End(l)
    /\ UNCHANGED <<address, pin, byHand, moved>>

(* The person types an address, or React blanks the inputs after a submit,  *)
(* which leaves the pin.                                                    *)
Type(a) ==
    /\ address' = a /\ byHand' = TRUE
    /\ UNCHANGED <<pin, lookup, moved>>

Next ==
    \/ \E l \in Slots :
         \/ \E p \in Places : ClickMap(l, p) \/ SelectPlace(l, p)
         \/ Geocoded(l) \/ NotGeocoded(l) \/ PlaceFetched(l) \/ PlaceNotFetched(l)
    \/ \E a \in Places \cup {None} : Type(a)

Spec == Init /\ [][Next]_vars

-----------------------------------------------------------------------------
(* Properties.                                                              *)

TypeOK ==
    /\ address \in Places \cup {None}
    /\ pin \in Places \cup {None}
    /\ lookup \in [Slots -> Lookups \cup {None}]
    /\ byHand \in BOOLEAN /\ moved \in BOOLEAN

(* feat-004 REQ-004-002: a request sent now carries the coordinates of the  *)
(* address it names, whatever was asked of the geocoder and in whatever     *)
(* order it answers or fails to, unless the pin is still being looked up,   *)
(* or the address is not a pin's: typed, left to be typed, or a             *)
(* suggestion's that has no location.  Nothing numbers the lookups, so an   *)
(* answer for an earlier pin may come last; that takes a pin set while      *)
(* another was looked up, and is undone by the next one that was not.       *)
PinIsAtTheAddress ==
    pin # None /\ address # pin => byHand \/ moved \/ LookedUp(pin) # {}

=============================================================================
