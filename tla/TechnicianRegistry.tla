------------------------- MODULE TechnicianRegistry -------------------------
(***************************************************************************)
(* apps/api/src/orders/orders.service.ts: the internal register of         *)
(* technicians that ADMIN keeps.  An edit reads the row, validates the     *)
(* patch against what it read and, in a later statement outside any        *)
(* transaction, writes the patched columns only.                           *)
(***************************************************************************)
EXTENDS OrderContract

CONSTANTS Handlers,      \* HTTP calls the API serves at the same time
          Technicians,   \* identities of technicians
          None           \* no row yet

VARIABLES technician,    \* technician[t]: row, or None
          call,          \* call[h]: what the handler will do next
          audit          \* technician.created and technician.updated rows

vars == <<technician, call, audit>>

Status == {"ACTIVE", "INACTIVE"}

(* The phone column: a well formed number on creation; an edit may also     *)
(* write the empty string, which validation takes for no phone at all.      *)
Phones == {"number", "blank"}

Rows == [status : Status, phone : Phones]
Patches == [status : Status \cup {"keep"}, phone : Phones \cup {"keep"}]
AuditEvents == [event : {"technician.created", "technician.updated"},
                technician : Technicians]

Idle == [pc |-> "idle"]
Calls == {Idle}
         \cup [pc : {"write"}, technician : Technicians, patch : Patches, seen : Rows]
         \cup [pc : {"audit"}, entry : AuditEvents]

Entry(event, t) == [event |-> event, technician |-> t]

(* validateTechnician: an active technician needs a phone.                  *)
ValidTechnician(row) == row.status = "ACTIVE" => row.phone # "blank"

(* A column the patch leaves out keeps the value that was there.            *)
Patched_Whole(row, patch) == patch   \* mutant
Patched(row, patch) ==
    [status |-> IF patch.status = "keep" THEN row.status ELSE patch.status,
     phone  |-> IF patch.phone = "keep" THEN row.phone ELSE patch.phone]

Init ==
    /\ technician = [t \in Technicians |-> None]
    /\ call = [h \in Handlers |-> Idle]
    /\ audit = {}

(* The phone pattern refuses a blank phone, the status check the rest.      *)
Create(h, t, row) ==
    /\ call[h] = Idle
    /\ technician[t] = None
    /\ row.phone = "number"
    /\ ValidTechnician(row)
    /\ technician' = [technician EXCEPT ![t] = row]
    /\ call' = [call EXCEPT ![h] = [pc |-> "audit",
                                    entry |-> Entry("technician.created", t)]]
    /\ UNCHANGED audit

UpdateRead_PatchAlone(h, t, patch) ==   \* mutant
    /\ call[h] = Idle
    /\ technician[t] # None
    /\ ValidTechnician(patch)
    /\ call' = [call EXCEPT ![h] = [pc |-> "write", technician |-> t,
                                    patch |-> patch, seen |-> technician[t]]]
    /\ UNCHANGED <<technician, audit>>
UpdateRead(h, t, patch) ==
    /\ call[h] = Idle
    /\ technician[t] # None
    /\ ValidTechnician(Patched(technician[t], patch))
    /\ call' = [call EXCEPT ![h] = [pc |-> "write", technician |-> t,
                                    patch |-> patch, seen |-> technician[t]]]
    /\ UNCHANGED <<technician, audit>>

UpdateWrite(h) ==
    LET t == call[h].technician
    IN  /\ call[h].pc = "write"
        /\ technician' = [technician EXCEPT ![t] = Patched(@, call[h].patch)]
        /\ call' = [call EXCEPT ![h] = [pc |-> "audit",
                                        entry |-> Entry("technician.updated", t)]]
        /\ UNCHANGED audit

Audit(h) ==
    /\ call[h].pc = "audit"
    /\ audit' = audit \cup {call[h].entry}
    /\ call' = [call EXCEPT ![h] = Idle]
    /\ UNCHANGED technician

(* The process stops or a statement fails between two steps.                *)
CallDies(h) ==
    /\ call[h] # Idle
    /\ call' = [call EXCEPT ![h] = Idle]
    /\ UNCHANGED <<technician, audit>>

Next ==
    \E h \in Handlers :
        \/ \E t \in Technicians, row \in Rows : Create(h, t, row)
        \/ \E t \in Technicians, patch \in Patches : UpdateRead(h, t, patch)
        \/ UpdateWrite(h)
        \/ Audit(h)
        \/ CallDies(h)

Spec == Init /\ [][Next]_vars

-----------------------------------------------------------------------------
TypeOK ==
    /\ technician \in [Technicians -> Rows \cup {None}]
    /\ call \in [Handlers -> Calls]
    /\ audit \subseteq AuditEvents

(* feat-005 acceptance AC-005-001, as far as it is kept: without a phone a  *)
(* technician becomes active only by an edit that was validated against a   *)
(* row another edit has changed since.                                      *)
Callable(t) ==
    technician[t] # None /\ technician[t].status = "ACTIVE" => technician[t].phone = "number"
PhonelessOnlyByRace ==
    [][\A t \in Technicians :
         Callable(t) /\ ~Callable(t)' =>
           \E h \in Handlers :
             /\ call[h].pc = "write" /\ call[h].technician = t /\ UpdateWrite(h)
             /\ call[h].seen # technician[t]]_vars

=============================================================================
