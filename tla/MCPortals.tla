----------------------------- MODULE MCPortals -----------------------------
(* Portals in scopes, all explored by one run.  Two lists of the inbox at a *)
(* time, with one mark, or two marks, with one list; two loads of the panel *)
(* at a time, with one incident, or two incidents, with one load.           *)
EXTENDS Portals, Sequences

VARIABLE scope

(* Two of three notices are made at the same time.                          *)
At == <<1, 2, 2>>

OneAtATime(f) ==
    LET only == CHOOSE x \in DOMAIN f : TRUE
    IN  \A x \in DOMAIN f \ {only} : f[x].pc = "idle"

ScopedInit ==
    /\ Init
    /\ scope \in CASE area = "inbox" -> {"lists", "marks"}
                   [] area = "panel" -> {"loads", "incidents"}
                   [] OTHER -> {"whole"}

ScopedNext ==
    /\ Next
    /\ scope = "lists" => OneAtATime(visit') /\ clock' <= 1
    /\ scope = "marks" => OneAtATime(list')
    /\ scope = "loads" => Len(incident') <= 1
    /\ scope = "incidents" => OneAtATime(panelLoad')
    /\ UNCHANGED scope

ScopedSpec == ScopedInit /\ [][ScopedNext]_<<vars, scope>> /\ Fairness
=============================================================================
