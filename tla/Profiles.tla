------------------------------ MODULE Profiles ------------------------------
(***************************************************************************)
(* apps/api/src/identity: profiles, who is let in, and how an ADMIN        *)
(* provisions, degrades and deactivates the internal ones.  Nothing here   *)
(* runs in a transaction: every statement, and every request to Auth0, is  *)
(* a step.  A subject is an identity, known to Auth0 by its email.         *)
(* Display names, phones and the audit rows nothing depends on are left    *)
(* out; the one that ends a provisioning may fail it, and is a step.       *)
(***************************************************************************)
EXTENDS Naturals

CONSTANTS Handlers,   \* HTTP calls the API serves at the same time
          Subjects,   \* identities
          Founders,   \* the administrators put in the table before the API serves
          Newcomers,  \* identities whose first call or provisioning is still to come
          Keys,       \* idempotency keys of provisionings
          None

VARIABLES profile,      \* profile[s]: row, or None
          account,      \* subjects Auth0 knows
          invitations,  \* invitations[s]: tickets sent by provisionings
          job,          \* job[k]: state of the claimed job, or None
          access        \* access[h]: where a call stands

vars == <<profile, account, invitations, job, access>>

Internal == {"ADMIN", "DISPATCHER"}
Roles == Internal \cup {"CLIENT"}
Rows == [role : Roles, status : {"ACTIVE", "INACTIVE"}]
JobStates == {"PROCESSING", "PROCESSED", "FAILED"}

Idle == [pc |-> "idle"]
SignIns == [pc : {"register", "reread"}, subject : Subjects]
(* change is the role to give, or INACTIVE; seen, the row that was read;    *)
(* counted, whether another administrator was found.                        *)
Changes == [pc : {"target", "count", "write"}, target : Subjects,
            change : Internal \cup {"INACTIVE"}, seen : Rows \cup {None},
            counted : BOOLEAN]
Provisionings == [pc : {"claim", "reserve", "lookup", "create", "relookup", "invite",
                        "upsert"},
                  key : Keys, subject : Subjects, role : Internal]
                 \cup [pc : {"processed", "audit", "failed"}, key : Keys, subject : Subjects]

Admins == {s \in Subjects : profile[s] # None /\ profile[s].role = "ADMIN"
                                              /\ profile[s].status = "ACTIVE"}

CallTo(h, next) == access' = [access EXCEPT ![h] = next]
StepTo(h, pc) == CallTo(h, [access[h] EXCEPT !.pc = pc])
EndWith(h, pc) ==
    CallTo(h, [pc |-> pc, key |-> access[h].key, subject |-> access[h].subject])

Init ==
    /\ profile = [s \in Subjects |-> IF s \in Founders
                                     THEN [role |-> "ADMIN", status |-> "ACTIVE"] ELSE None]
    /\ account = Subjects \ Newcomers
    /\ invitations = [s \in Subjects |-> 0]
    /\ job = [k \in Keys |-> None]
    /\ access = [h \in Handlers |-> Idle]

-----------------------------------------------------------------------------
(* IdentityGuard.resolveProfile: the first call of a subject to the client  *)
(* portal makes it a CLIENT.  A profile that is there is only read.         *)
FirstCall(h, s) ==
    /\ access[h] = Idle
    /\ s \in account /\ profile[s] = None
    /\ CallTo(h, [pc |-> "register", subject |-> s])
    /\ UNCHANGED <<profile, account, invitations, job>>

Register_Overwrites(h) ==   \* mutant
    /\ access[h].pc = "register"
    /\ profile' = [profile EXCEPT ![access[h].subject] =
                                     [role |-> "CLIENT", status |-> "ACTIVE"]]
    /\ CallTo(h, Idle)
    /\ UNCHANGED <<account, invitations, job>>
Register(h) ==
    LET s == access[h].subject
    IN  /\ access[h].pc = "register"
        /\ \/ /\ profile[s] = None
              /\ profile' = [profile EXCEPT ![s] = [role |-> "CLIENT", status |-> "ACTIVE"]]
              /\ CallTo(h, Idle)
           \/ profile[s] # None /\ StepTo(h, "reread") /\ UNCHANGED profile
        /\ UNCHANGED <<account, invitations, job>>

(* After a collision the guard goes on with the profile that won.           *)
Reread(h) ==
    /\ access[h].pc = "reread"
    /\ CallTo(h, Idle)
    /\ UNCHANGED <<profile, account, invitations, job>>

-----------------------------------------------------------------------------
(* changeRole and deactivate, of a profile by an active ADMIN; nobody       *)
(* deactivates oneself.                                                     *)
RequestChange(h, admin, target, change) ==
    /\ access[h] = Idle
    /\ admin \in Admins
    /\ change = "INACTIVE" => admin # target
    /\ CallTo(h, [pc |-> "target", target |-> target, change |-> change, seen |-> None,
                  counted |-> FALSE])
    /\ UNCHANGED <<profile, account, invitations, job>>

NeedsAnotherAdmin_OnDegradationOnly(row, change) ==   \* mutant
    row.role = "ADMIN" /\ change = "DISPATCHER"
NeedsAnotherAdmin(row, change) ==
    /\ row.role = "ADMIN" /\ change # "ADMIN"
    /\ change = "INACTIVE" => row.status = "ACTIVE"

ReadTarget(h) ==
    LET row == profile[access[h].target]
    IN  /\ access[h].pc = "target"
        /\ \/ row = None /\ CallTo(h, Idle)
           \/ /\ row # None
              /\ CallTo(h, [access[h] EXCEPT !.seen = row,
                   !.pc = IF NeedsAnotherAdmin(row, access[h].change) THEN "count"
                                                                      ELSE "write"])
        /\ UNCHANGED <<profile, account, invitations, job>>

(* ensureAnotherAdmin: LAST_ADMIN.                                          *)
CountAdmins(h) ==
    LET others == Admins \ {access[h].target}
    IN  /\ access[h].pc = "count"
        /\ CallTo(h, IF others = {} THEN Idle
                     ELSE [access[h] EXCEPT !.pc = "write", !.counted = TRUE])
        /\ UNCHANGED <<profile, account, invitations, job>>

WriteChange(h) ==
    LET t == access[h].target
    IN  /\ access[h].pc = "write"
        /\ profile' = [profile EXCEPT ![t] =
             IF access[h].change = "INACTIVE" THEN [@ EXCEPT !.status = "INACTIVE"]
                                              ELSE [@ EXCEPT !.role = access[h].change]]
        /\ CallTo(h, Idle)
        /\ UNCHANGED <<account, invitations, job>>

-----------------------------------------------------------------------------
(* provision.                                                               *)

RequestProvisioning(h, admin, k, s, role) ==
    /\ access[h] = Idle
    /\ admin \in Admins
    /\ CallTo(h, [pc |-> "claim", key |-> k, subject |-> s, role |-> role])
    /\ UNCHANGED <<profile, account, invitations, job>>

(* A job that is processed is answered at once; one that is processing or   *)
(* failed is run again.                                                     *)
FindJob(h) ==
    LET state == job[access[h].key]
    IN  /\ access[h].pc = "claim"
        /\ \/ state = "PROCESSED" /\ CallTo(h, Idle)
           \/ state = None /\ StepTo(h, "reserve")
           \/ state \in {"PROCESSING", "FAILED"} /\ StepTo(h, "lookup")
        /\ UNCHANGED <<profile, account, invitations, job>>

(* Whoever collides is answered though nothing is done yet.                 *)
ReserveJob(h) ==
    LET k == access[h].key
    IN  /\ access[h].pc = "reserve"
        /\ \/ job[k] = None /\ job' = [job EXCEPT ![k] = "PROCESSING"] /\ StepTo(h, "lookup")
           \/ job[k] # None /\ CallTo(h, Idle) /\ UNCHANGED job
        /\ UNCHANGED <<profile, account, invitations>>

(* provisionInternalAccount: who is known to Auth0 is not created again.    *)
LookUpAccount_Invites(h) ==   \* mutant
    /\ access[h].pc \in {"lookup", "relookup"}
    /\ \/ access[h].subject \in account /\ StepTo(h, "invite")
       \/ /\ access[h].subject \notin account
          /\ IF access[h].pc = "lookup" THEN StepTo(h, "create") ELSE EndWith(h, "failed")
    /\ UNCHANGED <<profile, account, invitations, job>>
LookUpAccount(h) ==
    /\ access[h].pc \in {"lookup", "relookup"}
    /\ \/ access[h].subject \in account /\ StepTo(h, "upsert")
       \/ /\ access[h].subject \notin account
          /\ IF access[h].pc = "lookup" THEN StepTo(h, "create") ELSE EndWith(h, "failed")
    /\ UNCHANGED <<profile, account, invitations, job>>

(* Auth0 refuses a second account for an email.  An answer that is not in   *)
(* order, whether or not the account was made, leads to a second look; no   *)
(* answer fails the call.                                                   *)
CreateAccount(h) ==
    LET s == access[h].subject
    IN  /\ access[h].pc = "create"
        /\ \/ /\ s \notin account
              /\ account' = account \cup {s}
              /\ StepTo(h, "invite") \/ StepTo(h, "relookup") \/ EndWith(h, "failed")
           \/ StepTo(h, "relookup") /\ UNCHANGED account
        /\ UNCHANGED <<profile, invitations, job>>

(* The ticket of a first password.                                          *)
Invite(h) ==
    LET s == access[h].subject
    IN  /\ access[h].pc = "invite"
        /\ invitations' = [invitations EXCEPT ![s] = @ + 1]
        /\ StepTo(h, "upsert") \/ EndWith(h, "failed")
        /\ UNCHANGED <<profile, account, job>>

UpsertProfile(h) ==
    /\ access[h].pc = "upsert"
    /\ profile' = [profile EXCEPT ![access[h].subject] =
                                     [role |-> access[h].role, status |-> "ACTIVE"]]
    /\ EndWith(h, "processed")
    /\ UNCHANGED <<account, invitations, job>>

MarkProcessed(h) ==
    /\ access[h].pc = "processed"
    /\ job' = [job EXCEPT ![access[h].key] = "PROCESSED"]
    /\ StepTo(h, "audit")
    /\ UNCHANGED <<profile, account, invitations>>

AnswerProvisioning(h) ==
    /\ access[h].pc = "audit"
    /\ CallTo(h, Idle)
    /\ UNCHANGED <<profile, account, invitations, job>>

(* A request to Auth0 or a statement fails: the catch clause, which also    *)
(* takes a job that was processed for failed when its audit row fails.      *)
ProvisioningFails(h) ==
    /\ access[h].pc \in {"lookup", "create", "relookup", "invite", "upsert", "processed",
                         "audit"}
    /\ EndWith(h, "failed")
    /\ UNCHANGED <<profile, account, invitations, job>>

MarkFailed(h) ==
    /\ access[h].pc = "failed"
    /\ job' = [job EXCEPT ![access[h].key] = "FAILED"]
    /\ CallTo(h, Idle)
    /\ UNCHANGED <<profile, account, invitations>>

-----------------------------------------------------------------------------
CallDies(h) ==
    /\ access[h] # Idle
    /\ CallTo(h, Idle)
    /\ UNCHANGED <<profile, account, invitations, job>>

(* A newcomer signs up with Auth0 to be a client.                           *)
SignUp(s) ==
    /\ s \notin account
    /\ account' = account \cup {s}
    /\ UNCHANGED <<profile, invitations, job, access>>

Next ==
    \/ \E s \in Newcomers : SignUp(s)
    \/ \E h \in Handlers :
         \/ \E s \in Newcomers : FirstCall(h, s)
         \/ Register(h) \/ Reread(h)
         \/ \E admin, target \in Subjects, change \in Internal \cup {"INACTIVE"} :
              RequestChange(h, admin, target, change)
         \/ ReadTarget(h) \/ CountAdmins(h) \/ WriteChange(h)
         \/ \E admin, s \in Subjects, k \in Keys, role \in Internal :
              RequestProvisioning(h, admin, k, s, role)
         \/ FindJob(h) \/ ReserveJob(h) \/ LookUpAccount(h) \/ CreateAccount(h)
         \/ Invite(h) \/ UpsertProfile(h) \/ MarkProcessed(h) \/ AnswerProvisioning(h)
         \/ ProvisioningFails(h) \/ MarkFailed(h) \/ CallDies(h)

Spec == Init /\ [][Next]_vars

-----------------------------------------------------------------------------
(* Properties.                                                              *)

TypeOK ==
    /\ profile \in [Subjects -> Rows \cup {None}]
    /\ account \subseteq Subjects
    /\ invitations \in [Subjects -> Nat]
    /\ job \in [Keys -> JobStates \cup {None}]
    /\ access \in [Handlers -> {Idle} \cup SignIns \cup Changes \cup Provisionings]

(* feat-002 AC-002-005: an active ADMIN remains.  Provisioning an           *)
(* administrator's own account as DISPATCHER degrades it without a count,   *)
(* and two changes may each count on the other's target.                    *)
AnAdminRemains == Admins # {}

(* REQ-002-004: a degradation or deactivation leaves no one as ADMIN only   *)
(* when what it was decided on is no longer so: the row it read has         *)
(* changed, or the administrator it counted on has gone.                    *)
LeavesNoAdmin(h) == WriteChange(h) /\ Admins # {} /\ Admins' = {}
RemovalsCountOnAnother ==
    [][\A h \in Handlers :
         LeavesNoAdmin(h) =>
           access[h].counted \/ access[h].seen # profile[access[h].target]]_vars

(* REQ-002-004: retries, the same key at once, and a creation whose answer  *)
(* was lost or that two calls raced for invite nobody twice.                *)
OneInvitation == \A s \in Subjects : invitations[s] <= 1

(* AC-002-004: whoever is about to be told a provisioning is done has an    *)
(* account and an internal profile, though a first call to the client       *)
(* portal may have written the profile first, or a change come since.       *)
IsInternal(s) == profile[s] # None /\ profile[s].role \in Internal
ProvisionedIsInternal ==
    \A h \in Handlers :
      access[h].pc = "audit" => access[h].subject \in account /\ IsInternal(access[h].subject)

(* AC-002-002: a first call that lost the race for the profile never turns  *)
(* whoever has been provisioned meanwhile into a client.                    *)
InternalStaysInternal == [][\A s \in Subjects : IsInternal(s) => IsInternal(s)']_vars

=============================================================================
