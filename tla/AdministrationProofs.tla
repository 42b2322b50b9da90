------------------------ MODULE AdministrationProofs ------------------------
(* Theorems about Administration, for every value of its constants.        *)
EXTENDS Administration, FiniteSetTheorems, TLAPS

-----------------------------------------------------------------------------
(* Profiles.                                                                *)

AccessStates == {Profiles!Idle} \cup Profiles!SignIns \cup Profiles!Changes
                \cup Profiles!Provisionings

(* What a call knows still holds when it uses it: the account it is about   *)
(* to invite has no invitation, the one it writes a profile for is there,   *)
(* and a removal that needs another administrator has counted one.          *)
AccessIsSound(c) ==
    /\ c.pc = "invite" => c.subject \in account /\ invitations[c.subject] = 0
    /\ c.pc \in {"upsert", "processed", "audit"} => c.subject \in account
    /\ c.pc \in {"processed", "audit"} => Profiles!IsInternal(c.subject)
    /\ c.pc \in {"count", "write"} =>
         /\ c.seen \in Profiles!Rows /\ profile[c.target] # None
         /\ c.pc = "write" /\ Profiles!NeedsAnotherAdmin(c.seen, c.change) => c.counted

InvitingAlone ==
    \A g, h \in Handlers :
        access[g].pc = "invite" /\ access[h].pc = "invite"
        /\ access[g].subject = access[h].subject => g = h

InvitedHaveAccounts == \A s \in Subjects : s \notin account => invitations[s] = 0

ProfilesInv ==
    /\ Profiles!TypeOK /\ Profiles!OneInvitation
    /\ \A h \in Handlers : AccessIsSound(access[h])
    /\ InvitingAlone /\ InvitedHaveAccounts

LEMMA AccessKinds ==
    ASSUME NEW c \in AccessStates
    PROVE  /\ c.pc = "idle" <=> c = Profiles!Idle
           /\ c.pc \in {"register", "reread"} => c \in Profiles!SignIns
           /\ c.pc \in {"target", "count", "write"} => c \in Profiles!Changes
           /\ c.pc \in {"claim", "reserve", "lookup", "create", "relookup", "invite", "upsert",
                        "processed", "audit", "failed"} =>
                c \in Profiles!Provisionings /\ c.key \in Keys /\ c.subject \in Subjects
BY DEF AccessStates, Profiles!Idle, Profiles!SignIns, Profiles!Changes, Profiles!Provisionings

(* Profiles are not taken away, nor made those of clients.                  *)
ProfilesAdvance ==
    /\ profile' \in [Subjects -> Profiles!Rows \cup {None}]
    /\ account \subseteq account' /\ account' \subseteq Subjects
    /\ job' \in [Keys -> Profiles!JobStates \cup {None}]
    /\ \A s \in Subjects : /\ profile[s] # None => profile'[s] # None
                           /\ Profiles!IsInternal(s) => Profiles!IsInternal(s)'

LEMMA TablesOfProfilesMayStay ==
    ASSUME ProfilesInv, UNCHANGED <<profile, account, job>>
    PROVE  ProfilesAdvance
BY DEF ProfilesInv, Profiles!TypeOK, ProfilesAdvance, Profiles!IsInternal

(* A call steps while the tables advance and nobody is invited.             *)
LEMMA AccessSteps ==
    ASSUME ProfilesInv, NEW h \in Handlers, NEW next \in AccessStates,
           Profiles!CallTo(h, next), ProfilesAdvance, UNCHANGED invitations,
           AccessIsSound(next)', next.pc = "invite" => next.subject \notin account
    PROVE  ProfilesInv'
<1>1. access \in [Handlers -> AccessStates] /\ access' \in [Handlers -> AccessStates]
      /\ access'[h] = next /\ \A g \in Handlers \ {h} : access'[g] = access[g]
  BY DEF ProfilesInv, Profiles!TypeOK, AccessStates, Profiles!CallTo
<1>2. Profiles!TypeOK'
  BY <1>1 DEF ProfilesInv, Profiles!TypeOK, ProfilesAdvance, AccessStates
<1>3. Profiles!OneInvitation' /\ InvitedHaveAccounts'
  BY DEF ProfilesInv, Profiles!OneInvitation, InvitedHaveAccounts, ProfilesAdvance
<1>4. ASSUME NEW g \in Handlers \ {h} PROVE AccessIsSound(access[g])'
  <2>1. PICK c \in AccessStates : c = access[g] /\ c = access'[g] /\ AccessIsSound(c)
    BY <1>1 DEF ProfilesInv
  <2>2. /\ c.pc \in {"upsert", "processed", "audit", "invite"} => c.subject \in Subjects
        /\ c.pc \in {"count", "write"} => c.target \in Subjects
    BY <2>1, AccessKinds DEF Profiles!Changes
  <2>3. AccessIsSound(c)'
    BY <2>1, <2>2 DEF AccessIsSound, ProfilesAdvance
  <2> QED BY <2>1, <2>3 DEF AccessIsSound
<1>5. AccessIsSound(access[h])'
  BY <1>1 DEF AccessIsSound
<1>6. InvitingAlone'
  <2>1. \A g \in Handlers : access[g].pc = "invite" => access[g].subject \in account
    BY DEF ProfilesInv, AccessIsSound
  <2> QED BY <1>1, <2>1 DEF ProfilesInv, InvitingAlone
<1> QED BY <1>1, <1>2, <1>3, <1>4, <1>5, <1>6 DEF ProfilesInv

(* ... and, most often, the tables stay as they are.                        *)
LEMMA AccessStepsQuietly ==
    ASSUME ProfilesInv, NEW h \in Handlers, NEW next \in AccessStates,
           Profiles!CallTo(h, next), UNCHANGED <<profile, account, invitations, job>>,
           AccessIsSound(next), next.pc # "invite"
    PROVE  ProfilesInv'
<1>1. AccessIsSound(next)'
  BY DEF AccessIsSound, Profiles!IsInternal
<1> QED BY <1>1, AccessSteps, TablesOfProfilesMayStay

LEMMA RestingIsSound ==
    /\ Profiles!Idle \in AccessStates /\ Profiles!Idle.pc = "idle"
    /\ \A c : c.pc \notin {"invite", "upsert", "processed", "audit", "count", "write"} =>
         AccessIsSound(c)
BY DEF AccessStates, Profiles!Idle, AccessIsSound

(* Calls that go on, or end, with the tables as they are.                   *)
LEMMA CallsGoOn ==
    ASSUME ProfilesInv, NEW h \in Handlers,
           \/ \E s \in Newcomers : Profiles!FirstCall(h, s)
           \/ Profiles!Reread(h)
           \/ \E admin, target \in Subjects,
                 change \in Profiles!Internal \cup {"INACTIVE"} :
                Profiles!RequestChange(h, admin, target, change)
           \/ \E admin, s \in Subjects, k \in Keys, role \in Profiles!Internal :
                Profiles!RequestProvisioning(h, admin, k, s, role)
           \/ Profiles!CallDies(h) \/ Profiles!AnswerProvisioning(h)
    PROVE  ProfilesInv'
<1>1. \E next \in AccessStates : /\ Profiles!CallTo(h, next)
                                 /\ UNCHANGED <<profile, account, invitations, job>>
                                 /\ next.pc \in {"idle", "register", "target", "claim"}
  <2>1. ASSUME NEW s \in Newcomers, Profiles!FirstCall(h, s)
        PROVE  [pc |-> "register", subject |-> s] \in AccessStates
    BY SubjectsAssumption DEF AccessStates, Profiles!SignIns
  <2>2. ASSUME NEW target \in Subjects, NEW change \in Profiles!Internal \cup {"INACTIVE"}
        PROVE  [pc |-> "target", target |-> target, change |-> change, seen |-> None,
                counted |-> FALSE] \in AccessStates
    BY DEF AccessStates, Profiles!Changes
  <2>3. ASSUME NEW s \in Subjects, NEW k \in Keys, NEW role \in Profiles!Internal
        PROVE  [pc |-> "claim", key |-> k, subject |-> s, role |-> role] \in AccessStates
    BY DEF AccessStates, Profiles!Provisionings
  <2>4. CASE \E s \in Newcomers : Profiles!FirstCall(h, s)
    BY <2>1, <2>4 DEF Profiles!FirstCall
  <2>5. CASE \E admin, target \in Subjects, change \in Profiles!Internal \cup {"INACTIVE"} :
               Profiles!RequestChange(h, admin, target, change)
    BY <2>2, <2>5 DEF Profiles!RequestChange
  <2>6. CASE \E admin, s \in Subjects, k \in Keys, role \in Profiles!Internal :
               Profiles!RequestProvisioning(h, admin, k, s, role)
    BY <2>3, <2>6 DEF Profiles!RequestProvisioning
  <2>7. CASE Profiles!Reread(h) \/ Profiles!CallDies(h) \/ Profiles!AnswerProvisioning(h)
    BY <2>7, RestingIsSound
       DEF Profiles!Reread, Profiles!CallDies, Profiles!AnswerProvisioning
  <2> QED BY <2>4, <2>5, <2>6, <2>7
<1>2. PICK next \in AccessStates : /\ Profiles!CallTo(h, next)
                                   /\ UNCHANGED <<profile, account, invitations, job>>
                                   /\ next.pc \in {"idle", "register", "target", "claim"}
  BY <1>1
<1>3. AccessIsSound(next)
  BY <1>2, RestingIsSound
<1> QED BY <1>2, <1>3, AccessStepsQuietly

(* A first call writes a profile only where there is none.                  *)
LEMMA RegisteringKeeps ==
    ASSUME ProfilesInv, NEW h \in Handlers, Profiles!Register(h)
    PROVE  ProfilesInv' /\ ProfilesAdvance
<1>1. /\ access[h].pc = "register" /\ access[h] \in Profiles!SignIns
      /\ UNCHANGED <<account, invitations, job>>
  BY AccessKinds DEF ProfilesInv, Profiles!TypeOK, Profiles!Register, AccessStates
<1>2. PICK s \in Subjects : s = access[h].subject
  BY <1>1 DEF Profiles!SignIns
<1>3. CASE profile[s] = None
  <2>1. /\ profile' = [profile EXCEPT ![s] = [role |-> "CLIENT", status |-> "ACTIVE"]]
        /\ Profiles!CallTo(h, Profiles!Idle)
    BY <1>2, <1>3 DEF Profiles!Register
  <2>2. [role |-> "CLIENT", status |-> "ACTIVE"] \in Profiles!Rows
    BY DEF Profiles!Rows, Profiles!Roles
  <2>3. ProfilesAdvance
    BY <1>1, <1>3, <2>1, <2>2, NoRowAssumption
       DEF ProfilesAdvance, ProfilesInv, Profiles!TypeOK, Profiles!IsInternal
  <2>4. AccessIsSound(Profiles!Idle)'
    BY RestingIsSound DEF AccessIsSound
  <2> QED BY <1>1, <2>1, <2>3, <2>4, RestingIsSound, AccessSteps
<1>4. CASE profile[s] # None
  <2>1. PICK next : next = [access[h] EXCEPT !.pc = "reread"]
    OBVIOUS
  <2>2. next \in AccessStates /\ next.pc = "reread"
    BY <1>1, <2>1 DEF AccessStates, Profiles!SignIns
  <2>3. Profiles!CallTo(h, next) /\ UNCHANGED profile
    BY <1>2, <1>4, <2>1 DEF Profiles!Register, Profiles!StepTo
  <2>4. AccessIsSound(next)
    BY <2>2, RestingIsSound
  <2> QED BY <1>1, <2>2, <2>3, <2>4, AccessStepsQuietly, TablesOfProfilesMayStay
<1> QED BY <1>3, <1>4

(* What a change reads of its target, and the administrator it counts on,   *)
(* justify it when they are read.                                           *)
LEMMA DecidingKeeps ==
    ASSUME ProfilesInv, NEW h \in Handlers,
           Profiles!ReadTarget(h) \/ Profiles!CountAdmins(h)
    PROVE  ProfilesInv'
<1>1. /\ access[h].pc \in {"target", "count"} /\ access[h] \in Profiles!Changes
      /\ UNCHANGED <<profile, account, invitations, job>>
  BY AccessKinds
     DEF ProfilesInv, Profiles!TypeOK, Profiles!ReadTarget, Profiles!CountAdmins, AccessStates
<1>2. CASE Profiles!CallTo(h, Profiles!Idle)
  BY <1>1, <1>2, RestingIsSound, AccessStepsQuietly
<1>3. CASE Profiles!ReadTarget(h) /\ ~Profiles!CallTo(h, Profiles!Idle)
  <2>1. PICK c \in Profiles!Changes, row \in Profiles!Rows, pc \in {"count", "write"} :
          /\ c = access[h] /\ row = profile[c.target]
          /\ pc = IF Profiles!NeedsAnotherAdmin(row, c.change) THEN "count" ELSE "write"
    BY <1>1, <1>3
       DEF Profiles!ReadTarget, Profiles!Changes, ProfilesInv, Profiles!TypeOK
  <2>2. PICK next : next = [c EXCEPT !.seen = row, !.pc = pc]
    OBVIOUS
  <2>3. next \in AccessStates /\ next.pc = pc /\ next.seen = row
        /\ next.target = c.target /\ next.change = c.change
    BY <2>1, <2>2 DEF AccessStates, Profiles!Changes
  <2>4. Profiles!CallTo(h, next)
    BY <1>3, <2>1, <2>2 DEF Profiles!ReadTarget
  <2>5. AccessIsSound(next)
    BY <2>1, <2>3, NoRowAssumption DEF AccessIsSound
  <2> QED BY <1>1, <2>3, <2>4, <2>5, AccessStepsQuietly
<1>4. CASE Profiles!CountAdmins(h) /\ ~Profiles!CallTo(h, Profiles!Idle)
  <2>1. PICK c \in Profiles!Changes : c = access[h]
    BY <1>1
  <2>2. PICK next : next = [c EXCEPT !.pc = "write", !.counted = TRUE]
    OBVIOUS
  <2>3. next \in AccessStates /\ next.pc = "write" /\ next.seen = c.seen
        /\ next.target = c.target /\ next.counted
    BY <2>2 DEF AccessStates, Profiles!Changes
  <2>4. Profiles!CallTo(h, next) /\ c.pc = "count"
    BY <1>4, <2>1, <2>2 DEF Profiles!CountAdmins
  <2>5. AccessIsSound(c)
    BY <2>1 DEF ProfilesInv
  <2>6. AccessIsSound(next)
    BY <2>3, <2>4, <2>5 DEF AccessIsSound
  <2> QED BY <1>1, <2>3, <2>4, <2>6, AccessStepsQuietly
<1> QED BY <1>2, <1>3, <1>4

(* A change makes nobody a client.                                          *)
LEMMA ChangingKeeps ==
    ASSUME ProfilesInv, NEW h \in Handlers, Profiles!WriteChange(h)
    PROVE  ProfilesInv' /\ ProfilesAdvance
<1>1. /\ access[h].pc = "write" /\ access[h] \in Profiles!Changes
      /\ UNCHANGED <<account, invitations, job>> /\ Profiles!CallTo(h, Profiles!Idle)
  BY AccessKinds DEF ProfilesInv, Profiles!TypeOK, Profiles!WriteChange, AccessStates
<1>0. PICK t \in Subjects, change \in Profiles!Internal \cup {"INACTIVE"} :
        t = access[h].target /\ change = access[h].change
  BY <1>1 DEF Profiles!Changes
<1>2. PICK row, new :
        /\ t = access[h].target /\ change = access[h].change /\ row = profile[t]
        /\ new = IF change = "INACTIVE" THEN [row EXCEPT !.status = "INACTIVE"]
                                        ELSE [row EXCEPT !.role = change]
  BY <1>0
<1>3. row \in Profiles!Rows
  BY <1>1, <1>2 DEF ProfilesInv, AccessIsSound, Profiles!TypeOK
<1>4. /\ new \in Profiles!Rows
      /\ row.role \in Profiles!Internal => new.role \in Profiles!Internal
  BY <1>2, <1>3 DEF Profiles!Rows, Profiles!Roles, Profiles!Internal
<1>5. profile' = [profile EXCEPT ![t] = new]
  BY <1>2 DEF Profiles!WriteChange
<1>6. ProfilesAdvance
  BY <1>1, <1>2, <1>4, <1>5, NoRowAssumption
     DEF ProfilesAdvance, ProfilesInv, Profiles!TypeOK, Profiles!IsInternal
<1>7. AccessIsSound(Profiles!Idle)'
  BY RestingIsSound DEF AccessIsSound
<1> QED BY <1>1, <1>6, <1>7, RestingIsSound, AccessSteps

(* Where a provisioning may go from where it stands.                        *)
LEMMA ProvisioningSteps ==
    ASSUME ProfilesInv, NEW h \in Handlers,
           access[h].pc \in {"claim", "reserve", "lookup", "create", "relookup", "invite",
                             "upsert", "processed", "audit", "failed"}
    PROVE  /\ access[h].subject \in Subjects /\ access[h].key \in Keys
           /\ \E end \in AccessStates :
                /\ end.pc = "failed" /\ end.subject = access[h].subject
                /\ Profiles!EndWith(h, "failed") => Profiles!CallTo(h, end)
           /\ \E end \in AccessStates :
                /\ end.pc = "processed" /\ end.subject = access[h].subject
                /\ Profiles!EndWith(h, "processed") => Profiles!CallTo(h, end)
           /\ access[h].pc \notin {"processed", "audit", "failed"} =>
                /\ access[h].role \in Profiles!Internal
                /\ \A pc \in {"reserve", "lookup", "create", "relookup", "invite", "upsert"} :
                     \E next \in AccessStates :
                       /\ next = [access[h] EXCEPT !.pc = pc]
                       /\ next.pc = pc /\ next.subject = access[h].subject
           /\ access[h].pc = "processed" =>
                \E next \in AccessStates :
                  /\ next = [access[h] EXCEPT !.pc = "audit"]
                  /\ next.pc = "audit" /\ next.subject = access[h].subject
<1>1. access[h] \in Profiles!Provisionings /\ access[h].subject \in Subjects
      /\ access[h].key \in Keys
  BY AccessKinds DEF ProfilesInv, Profiles!TypeOK, AccessStates
<1>2. ASSUME NEW pc \in {"failed", "processed"}
      PROVE  \E end \in AccessStates :
                /\ end.pc = pc /\ end.subject = access[h].subject
                /\ Profiles!EndWith(h, pc) => Profiles!CallTo(h, end)
  <2>1. PICK end : end = [pc |-> pc, key |-> access[h].key, subject |-> access[h].subject]
    OBVIOUS
  <2>2. end \in AccessStates /\ end.pc = pc /\ end.subject = access[h].subject
    BY <1>1, <2>1 DEF AccessStates, Profiles!Provisionings
  <2> QED BY <2>1, <2>2 DEF Profiles!EndWith
<1>3. ASSUME access[h].pc \notin {"processed", "audit", "failed"}
      PROVE  /\ access[h].role \in Profiles!Internal
             /\ \A pc \in {"reserve", "lookup", "create", "relookup", "invite", "upsert"} :
                  \E next \in AccessStates :
                    /\ next = [access[h] EXCEPT !.pc = pc]
                    /\ next.pc = pc /\ next.subject = access[h].subject
  <2>1. access[h] \in [pc : {"claim", "reserve", "lookup", "create", "relookup", "invite",
                            "upsert"},
                      key : Keys, subject : Subjects, role : Profiles!Internal]
    BY <1>1, <1>3 DEF Profiles!Provisionings
  <2>2. ASSUME NEW pc \in {"reserve", "lookup", "create", "relookup", "invite", "upsert"}
        PROVE  /\ [access[h] EXCEPT !.pc = pc] \in AccessStates
               /\ [access[h] EXCEPT !.pc = pc].pc = pc
               /\ [access[h] EXCEPT !.pc = pc].subject = access[h].subject
    BY <2>1 DEF AccessStates, Profiles!Provisionings
  <2> QED BY <2>1, <2>2
<1>4. ASSUME access[h].pc = "processed"
      PROVE  \E next \in AccessStates :
               /\ next = [access[h] EXCEPT !.pc = "audit"]
               /\ next.pc = "audit" /\ next.subject = access[h].subject
  <2>1. access[h] \in [pc : {"processed", "audit", "failed"}, key : Keys,
                      subject : Subjects]
    BY <1>1, <1>4 DEF Profiles!Provisionings
  <2>2. /\ [access[h] EXCEPT !.pc = "audit"] \in AccessStates
        /\ [access[h] EXCEPT !.pc = "audit"].pc = "audit"
        /\ [access[h] EXCEPT !.pc = "audit"].subject = access[h].subject
    BY <2>1 DEF AccessStates, Profiles!Provisionings
  <2> QED BY <2>2
<1> QED BY <1>1, <1>2, <1>3, <1>4

(* A provisioning that only looks, or fails.                                *)
LEMMA LookingKeeps ==
    ASSUME ProfilesInv, NEW h \in Handlers,
           \/ Profiles!FindJob(h) \/ Profiles!LookUpAccount(h)
           \/ Profiles!ProvisioningFails(h)
    PROVE  ProfilesInv'
<1>1. /\ access[h].pc \in {"claim", "lookup", "create", "relookup", "invite", "upsert",
                           "processed", "audit"}
      /\ UNCHANGED <<profile, account, invitations, job>>
  BY DEF Profiles!FindJob, Profiles!LookUpAccount, Profiles!ProvisioningFails
<1>2. CASE Profiles!EndWith(h, "failed")
  <2>1. PICK end \in AccessStates : end.pc = "failed" /\ Profiles!CallTo(h, end)
    BY <1>1, <1>2, ProvisioningSteps
  <2> QED BY <1>1, <2>1, RestingIsSound, AccessStepsQuietly
<1>3. CASE Profiles!CallTo(h, Profiles!Idle)
  BY <1>1, <1>3, RestingIsSound, AccessStepsQuietly
<1>4. CASE \E pc \in {"reserve", "lookup", "create", "upsert"} :
             /\ Profiles!StepTo(h, pc) /\ access[h].pc \in {"claim", "lookup", "relookup"}
             /\ pc = "upsert" => access[h].subject \in account
  <2>1. PICK pc \in {"reserve", "lookup", "create", "upsert"} :
             /\ Profiles!StepTo(h, pc) /\ access[h].pc \in {"claim", "lookup", "relookup"}
             /\ pc = "upsert" => access[h].subject \in account
    BY <1>4
  <2>2. PICK next \in AccessStates : /\ next = [access[h] EXCEPT !.pc = pc]
                                     /\ next.pc = pc /\ next.subject = access[h].subject
    BY <2>1, ProvisioningSteps
  <2>3. Profiles!CallTo(h, next)
    BY <2>1, <2>2 DEF Profiles!StepTo
  <2>4. AccessIsSound(next)
    BY <2>1, <2>2 DEF AccessIsSound
  <2> QED BY <1>1, <2>2, <2>3, <2>4, AccessStepsQuietly
<1> QED BY <1>2, <1>3, <1>4
        DEF Profiles!FindJob, Profiles!LookUpAccount, Profiles!ProvisioningFails

(* The job's row.                                                           *)
LEMMA JobsKeep ==
    ASSUME ProfilesInv, NEW h \in Handlers,
           \/ Profiles!ReserveJob(h) \/ Profiles!MarkProcessed(h) \/ Profiles!MarkFailed(h)
    PROVE  ProfilesInv'
<1>1. /\ access[h].pc \in {"reserve", "processed", "failed"}
      /\ UNCHANGED <<profile, account, invitations>>
  BY DEF Profiles!ReserveJob, Profiles!MarkProcessed, Profiles!MarkFailed
<1>2. ProfilesAdvance
  <2>1. job' \in [Keys -> Profiles!JobStates \cup {None}]
    BY DEF Profiles!ReserveJob, Profiles!MarkProcessed, Profiles!MarkFailed, ProfilesInv,
           Profiles!TypeOK, Profiles!JobStates
  <2> QED BY <1>1, <2>1 DEF ProfilesAdvance, ProfilesInv, Profiles!TypeOK, Profiles!IsInternal
<1>3. CASE Profiles!CallTo(h, Profiles!Idle)
  <2>1. AccessIsSound(Profiles!Idle)'
    BY RestingIsSound DEF AccessIsSound
  <2> QED BY <1>1, <1>2, <1>3, <2>1, RestingIsSound, AccessSteps
<1>4. CASE access[h].pc = "reserve" /\ Profiles!StepTo(h, "lookup")
  <2>1. PICK next \in AccessStates : /\ next = [access[h] EXCEPT !.pc = "lookup"]
                                     /\ next.pc = "lookup"
    BY <1>4, ProvisioningSteps
  <2>2. Profiles!CallTo(h, next)
    BY <1>4, <2>1 DEF Profiles!StepTo
  <2>3. AccessIsSound(next)'
    BY <2>1 DEF AccessIsSound
  <2> QED BY <1>1, <1>2, <2>1, <2>2, <2>3, AccessSteps
<1>5. CASE access[h].pc = "processed" /\ Profiles!StepTo(h, "audit")
  <2>1. PICK next \in AccessStates : /\ next = [access[h] EXCEPT !.pc = "audit"]
                                     /\ next.pc = "audit" /\ next.subject = access[h].subject
    BY <1>5, ProvisioningSteps
  <2>2. Profiles!CallTo(h, next)
    BY <1>5, <2>1 DEF Profiles!StepTo
  <2>3. PICK s \in Subjects : s = access[h].subject /\ s \in account /\ Profiles!IsInternal(s)
    BY <1>5, ProvisioningSteps DEF ProfilesInv, AccessIsSound
  <2>4. AccessIsSound(next)'
    BY <1>1, <2>1, <2>3 DEF AccessIsSound, Profiles!IsInternal
  <2> QED BY <1>1, <1>2, <2>1, <2>2, <2>4, AccessSteps
<1> QED BY <1>3, <1>4, <1>5
        DEF Profiles!ReserveJob, Profiles!MarkProcessed, Profiles!MarkFailed

(* Whoever creates the account is the one to invite it.                     *)
LEMMA CreatingKeeps ==
    ASSUME ProfilesInv, NEW h \in Handlers, Profiles!CreateAccount(h)
    PROVE  ProfilesInv'
<1>1. access[h].pc = "create" /\ UNCHANGED <<profile, invitations, job>>
  BY DEF Profiles!CreateAccount
<1>2. PICK s \in Subjects : s = access[h].subject
  BY <1>1, ProvisioningSteps
<1>3. /\ account' = account \/ (s \notin account /\ account' = account \cup {s})
      /\ \/ Profiles!StepTo(h, "invite") /\ s \notin account /\ account' = account \cup {s}
         \/ Profiles!StepTo(h, "relookup")
         \/ Profiles!EndWith(h, "failed")
  BY <1>2 DEF Profiles!CreateAccount
<1>4. ProfilesAdvance
  BY <1>1, <1>3 DEF ProfilesAdvance, ProfilesInv, Profiles!TypeOK, Profiles!IsInternal
<1>5. CASE Profiles!EndWith(h, "failed")
  <2>1. PICK end \in AccessStates : end.pc = "failed" /\ Profiles!CallTo(h, end)
    BY <1>1, <1>5, ProvisioningSteps
  <2>2. AccessIsSound(end)'
    BY <2>1 DEF AccessIsSound
  <2> QED BY <1>1, <1>4, <2>1, <2>2, AccessSteps
<1>6. ASSUME NEW pc \in {"invite", "relookup"}, Profiles!StepTo(h, pc),
             pc = "invite" => s \notin account /\ account' = account \cup {s}
      PROVE  ProfilesInv'
  <2>1. PICK next \in AccessStates : /\ next = [access[h] EXCEPT !.pc = pc]
                                     /\ next.pc = pc /\ next.subject = access[h].subject
    BY <1>1, ProvisioningSteps
  <2>2. Profiles!CallTo(h, next)
    BY <1>6, <2>1 DEF Profiles!StepTo
  <2>3. AccessIsSound(next)'
    BY <1>1, <1>2, <1>6, <2>1 DEF AccessIsSound, ProfilesInv, InvitedHaveAccounts
  <2> QED BY <1>1, <1>2, <1>4, <1>6, <2>1, <2>2, <2>3, AccessSteps
<1> QED BY <1>3, <1>5, <1>6

(* ... and invites it once.                                                 *)
LEMMA InvitingKeeps ==
    ASSUME ProfilesInv, NEW h \in Handlers, Profiles!Invite(h)
    PROVE  ProfilesInv'
<1>1. access[h].pc = "invite" /\ UNCHANGED <<profile, account, job>>
  BY DEF Profiles!Invite
<1>2. PICK s \in Subjects : s = access[h].subject /\ s \in account /\ invitations[s] = 0
  BY <1>1, ProvisioningSteps DEF ProfilesInv, AccessIsSound
<1>3. /\ invitations' = [invitations EXCEPT ![s] = 1]
      /\ invitations \in [Subjects -> Nat] /\ invitations'[s] = 1
      /\ \A other \in Subjects \ {s} : invitations'[other] = invitations[other]
  BY <1>2 DEF Profiles!Invite, ProfilesInv, Profiles!TypeOK
<1>4. PICK next \in AccessStates : /\ Profiles!CallTo(h, next) /\ next.subject = s
                                   /\ next.pc \in {"upsert", "failed"}
  <2>1. CASE Profiles!StepTo(h, "upsert")
    <3>1. PICK next \in AccessStates : /\ next = [access[h] EXCEPT !.pc = "upsert"]
                                       /\ next.pc = "upsert" /\ next.subject = s
      BY <1>1, <1>2, ProvisioningSteps
    <3> QED BY <2>1, <3>1 DEF Profiles!StepTo
  <2>2. CASE Profiles!EndWith(h, "failed")
    BY <1>1, <1>2, <2>2, ProvisioningSteps
  <2> QED BY <2>1, <2>2 DEF Profiles!Invite
<1>5. access \in [Handlers -> AccessStates] /\ access' \in [Handlers -> AccessStates]
      /\ access'[h] = next /\ \A g \in Handlers \ {h} : access'[g] = access[g]
  BY <1>4 DEF ProfilesInv, Profiles!TypeOK, AccessStates, Profiles!CallTo
<1>6. Profiles!TypeOK'
  BY <1>1, <1>3, <1>5 DEF ProfilesInv, Profiles!TypeOK, AccessStates
<1>7. Profiles!OneInvitation' /\ InvitedHaveAccounts'
  BY <1>1, <1>2, <1>3 DEF ProfilesInv, Profiles!OneInvitation, InvitedHaveAccounts
<1>8. ASSUME NEW g \in Handlers PROVE AccessIsSound(access[g])'
  <2>1. CASE g = h
    BY <1>1, <1>2, <1>4, <1>5, <2>1 DEF AccessIsSound
  <2>2. CASE g # h
    <3>1. PICK c \in AccessStates : c = access[g] /\ c = access'[g] /\ AccessIsSound(c)
      BY <1>5, <2>2 DEF ProfilesInv
    <3>2. c.pc = "invite" => c.subject \in Subjects /\ c.subject # s
      BY <1>1, <1>2, <2>2, <3>1, AccessKinds DEF ProfilesInv, InvitingAlone
    <3>3. AccessIsSound(c)'
      BY <1>1, <1>3, <3>1, <3>2 DEF AccessIsSound, Profiles!IsInternal
    <3> QED BY <3>1, <3>3 DEF AccessIsSound
  <2> QED BY <2>1, <2>2
<1>9. InvitingAlone'
  BY <1>4, <1>5 DEF ProfilesInv, InvitingAlone
<1> QED BY <1>6, <1>7, <1>8, <1>9 DEF ProfilesInv

LEMMA UpsertingKeeps ==
    ASSUME ProfilesInv, NEW h \in Handlers, Profiles!UpsertProfile(h)
    PROVE  ProfilesInv' /\ ProfilesAdvance
<1>1. /\ access[h].pc = "upsert" /\ UNCHANGED <<account, invitations, job>>
      /\ Profiles!EndWith(h, "processed")
  BY DEF Profiles!UpsertProfile
<1>2. PICK s \in Subjects, role \in Profiles!Internal :
        s = access[h].subject /\ role = access[h].role /\ s \in account
  BY <1>1, ProvisioningSteps DEF ProfilesInv, AccessIsSound
<1>3. PICK row \in Profiles!Rows : /\ row = [role |-> role, status |-> "ACTIVE"]
                                   /\ row.role = role
  <2>1. [role |-> role, status |-> "ACTIVE"] \in Profiles!Rows
    BY DEF Profiles!Rows, Profiles!Roles
  <2> QED BY <2>1
<1>4. profile' = [profile EXCEPT ![s] = row]
  BY <1>2, <1>3 DEF Profiles!UpsertProfile
<1>5. ProfilesAdvance
  BY <1>1, <1>3, <1>4, NoRowAssumption
     DEF ProfilesAdvance, ProfilesInv, Profiles!TypeOK, Profiles!IsInternal
<1>6. PICK end \in AccessStates : /\ end.pc = "processed" /\ end.subject = s
                                  /\ Profiles!CallTo(h, end)
  BY <1>1, <1>2, ProvisioningSteps
<1>7. AccessIsSound(end)'
  BY <1>1, <1>2, <1>3, <1>4, <1>6, NoRowAssumption
     DEF AccessIsSound, Profiles!IsInternal, ProfilesInv, Profiles!TypeOK
<1> QED BY <1>1, <1>5, <1>6, <1>7, AccessSteps

(* Who signs up is nobody a call is about to invite.                        *)
LEMMA SigningUpKeeps ==
    ASSUME ProfilesInv, NEW s \in Newcomers, Profiles!SignUp(s)
    PROVE  ProfilesInv'
<1>1. /\ account' = account \cup {s} /\ s \in Subjects
      /\ UNCHANGED <<profile, invitations, job, access>>
  BY SubjectsAssumption DEF Profiles!SignUp
<1>2. Profiles!TypeOK' /\ Profiles!OneInvitation' /\ InvitedHaveAccounts' /\ InvitingAlone'
  BY <1>1 DEF ProfilesInv, Profiles!TypeOK, Profiles!OneInvitation, InvitedHaveAccounts,
              InvitingAlone
<1>3. \A h \in Handlers : AccessIsSound(access[h])'
  BY <1>1 DEF ProfilesInv, AccessIsSound, Profiles!IsInternal
<1> QED BY <1>2, <1>3 DEF ProfilesInv

LEMMA ProfilesInvIsInductive ==
    ASSUME ProfilesInv, Profiles!Next \/ UNCHANGED profileVars
    PROVE  ProfilesInv'
<1>1. CASE UNCHANGED profileVars
  BY <1>1 DEF profileVars, ProfilesInv, Profiles!TypeOK, Profiles!OneInvitation,
              InvitedHaveAccounts, InvitingAlone, AccessIsSound, Profiles!IsInternal
<1>2. CASE Profiles!Next
  BY <1>2, CallsGoOn, RegisteringKeeps, DecidingKeeps, ChangingKeeps, LookingKeeps, JobsKeep,
     CreatingKeeps, InvitingKeeps, UpsertingKeeps, SigningUpKeeps DEF Profiles!Next
<1> QED BY <1>1, <1>2

(* Nobody internal is turned into a client: the three statements that write *)
(* a profile advance it, and no other step touches one.                     *)
LEMMA InternalsStay ==
    ASSUME ProfilesInv, Profiles!Next \/ UNCHANGED profileVars,
           NEW s \in Subjects, Profiles!IsInternal(s)
    PROVE  Profiles!IsInternal(s)'
<1>1. CASE UNCHANGED profile
  BY <1>1 DEF Profiles!IsInternal
<1>2. CASE ProfilesAdvance
  BY <1>2 DEF ProfilesAdvance
<1>3. CASE UNCHANGED profileVars
  BY <1>1, <1>3 DEF profileVars
<1>4. ASSUME NEW h \in Handlers,
             Profiles!Register(h) \/ Profiles!WriteChange(h) \/ Profiles!UpsertProfile(h)
      PROVE  ProfilesAdvance
  BY <1>4, RegisteringKeeps, ChangingKeeps, UpsertingKeeps
<1>5. CASE Profiles!Next
  <2>1. UNCHANGED profile \/ ProfilesAdvance
    BY <1>4, <1>5
       DEF Profiles!Next, Profiles!SignUp, Profiles!FirstCall, Profiles!Reread,
           Profiles!RequestChange, Profiles!ReadTarget, Profiles!CountAdmins,
           Profiles!RequestProvisioning, Profiles!FindJob, Profiles!ReserveJob,
           Profiles!LookUpAccount, Profiles!CreateAccount, Profiles!Invite,
           Profiles!MarkProcessed, Profiles!AnswerProvisioning, Profiles!ProvisioningFails,
           Profiles!MarkFailed, Profiles!CallDies
  <2> QED BY <1>1, <1>2, <2>1
<1> QED BY <1>3, <1>5

LEMMA ProfilesInvInitially == Profiles!Init => ProfilesInv
<1> SUFFICES ASSUME Profiles!Init PROVE ProfilesInv
  OBVIOUS
<1>1. [role |-> "ADMIN", status |-> "ACTIVE"] \in Profiles!Rows
  BY DEF Profiles!Rows, Profiles!Roles, Profiles!Internal
<1>2. Profiles!TypeOK /\ Profiles!OneInvitation /\ InvitedHaveAccounts
  BY <1>1, SubjectsAssumption
     DEF Profiles!Init, Profiles!TypeOK, Profiles!OneInvitation, InvitedHaveAccounts
<1>3. \A h \in Handlers : access[h] = Profiles!Idle
  BY DEF Profiles!Init
<1>4. InvitingAlone /\ \A h \in Handlers : AccessIsSound(access[h])
  BY <1>3, RestingIsSound DEF InvitingAlone
<1> QED BY <1>2, <1>4 DEF ProfilesInv

(* A removal that left nobody counted, or read another row.                 *)
LEMMA RemovalsAreJustified ==
    ASSUME ProfilesInv, NEW h \in Handlers, Profiles!LeavesNoAdmin(h)
    PROVE  access[h].counted \/ access[h].seen # profile[access[h].target]
<1> SUFFICES ASSUME ~access[h].counted, access[h].seen = profile[access[h].target]
             PROVE  FALSE
  OBVIOUS
<1>1. access[h].pc = "write" /\ access[h] \in Profiles!Changes /\ Profiles!WriteChange(h)
  BY AccessKinds
     DEF ProfilesInv, Profiles!TypeOK, Profiles!WriteChange, AccessStates,
         Profiles!LeavesNoAdmin
<1>2. PICK t \in Subjects, change \in Profiles!Internal \cup {"INACTIVE"},
           row \in Profiles!Rows :
        t = access[h].target /\ change = access[h].change /\ row = profile[t]
        /\ ~Profiles!NeedsAnotherAdmin(row, change)
  BY <1>1 DEF Profiles!Changes, ProfilesInv, AccessIsSound
<1>3. PICK s \in Subjects : profile[s] # None /\ profile[s].role = "ADMIN"
                            /\ profile[s].status = "ACTIVE"
  BY DEF Profiles!LeavesNoAdmin, Profiles!Admins
<1>4. PICK new : /\ new = IF change = "INACTIVE" THEN [row EXCEPT !.status = "INACTIVE"]
                                                 ELSE [row EXCEPT !.role = change]
                 /\ profile' = [profile EXCEPT ![t] = new]
  BY <1>1, <1>2 DEF Profiles!WriteChange
<1>5. profile'[s] # None /\ profile'[s].role = "ADMIN" /\ profile'[s].status = "ACTIVE"
  <2>1. CASE s # t
    BY <1>3, <1>4, <2>1 DEF ProfilesInv, Profiles!TypeOK
  <2>2. CASE s = t
    <3>1. change = "ADMIN"
      BY <1>2, <1>3, <2>2 DEF Profiles!NeedsAnotherAdmin
    <3>2. new \in Profiles!Rows /\ new.role = "ADMIN" /\ new.status = "ACTIVE"
      BY <1>2, <1>3, <1>4, <2>2, <3>1 DEF Profiles!Rows, Profiles!Roles, Profiles!Internal
    <3> QED BY <1>4, <2>2, <3>2, NoRowAssumption DEF ProfilesInv, Profiles!TypeOK
  <2> QED BY <2>1, <2>2
<1> QED BY <1>5 DEF Profiles!LeavesNoAdmin, Profiles!Admins

-----------------------------------------------------------------------------
(* The catalogue.                                                           *)

(* Two published rates of a category are not in force at one moment.        *)
PublishedApart ==
    \A r, s \in Rates :
        /\ rate[r] # None /\ rate[s] # None /\ rate[r].category = rate[s].category
        /\ rate[r].status = "PUBLISHED" /\ rate[s].status = "PUBLISHED"
        /\ Catalog!Overlap(rate[r], rate[s])
        => r = s

(* A version that was read is at most the next one still; what is published *)
(* is there.                                                                *)
ErrandIsSound(c) ==
    /\ c.pc = "insert" =>
         /\ c.row.status = "DRAFT"
         /\ c.row.version <= Cardinality(Catalog!RatesOf(c.row.category)) + 1
    /\ c.pc = "publish" => rate[c.rate] # None

CatalogInv ==
    /\ Catalog!TypeOK /\ Catalog!VersionsHaveNoGap
    /\ PublishedApart
    /\ \A h \in Handlers : ErrandIsSound(errand[h])

ErrandStates == {Catalog!Idle} \cup Catalog!Creations \cup Catalog!Publications

(* Cardinality as Catalog extends it is Cardinality.                        *)
LEMMA SameCardinality == \A S : Catalog!Cardinality(S) = Cardinality(S)
BY DEF Catalog!Cardinality, Cardinality

LEMMA NoGap ==
    ASSUME Catalog!VersionsHaveNoGap, NEW c \in Categories
    PROVE  Catalog!VersionsOf(c) = 1..Cardinality(Catalog!RatesOf(c))
BY SameCardinality DEF Catalog!VersionsHaveNoGap

LEMMA ErrandKinds ==
    ASSUME NEW c \in ErrandStates
    PROVE  /\ c.pc = "insert" => c \in Catalog!Creations /\ c.row \in Catalog!RateRows
                                 /\ c.row.category \in Categories
           /\ c.pc = "publish" => c \in Catalog!Publications /\ c.rate \in Rates
BY DEF ErrandStates, Catalog!Idle, Catalog!Creations, Catalog!Publications, Catalog!RateRows

LEMMA IdleErrand ==
    /\ Catalog!Idle \in ErrandStates /\ Catalog!Idle.pc = "idle"
    /\ \A c : c.pc = "idle" => ErrandIsSound(c)
BY DEF ErrandStates, Catalog!Idle, ErrandIsSound

LEMMA RatesAreCounted ==
    ASSUME NEW c
    PROVE  IsFiniteSet(Catalog!RatesOf(c)) /\ Cardinality(Catalog!RatesOf(c)) \in Nat
<1>1. Catalog!RatesOf(c) \in SUBSET Rates
  BY DEF Catalog!RatesOf
<1> QED BY <1>1, BoundsAssumption, FS_Subset, FS_CardinalityType

(* Without gaps, the version after the last is their number and one.        *)
LEMMA NextVersionCounts ==
    ASSUME CatalogInv, NEW c \in Categories
    PROVE  Catalog!NextVersion(c) = Cardinality(Catalog!RatesOf(c)) + 1
<1>1. PICK n \in Nat : n = Cardinality(Catalog!RatesOf(c))
  BY RatesAreCounted
<1>2. Catalog!VersionsOf(c) = 1..n
  <2>1. Catalog!VersionsOf(c) = 1..Cardinality(Catalog!RatesOf(c))
    BY NoGap DEF CatalogInv
  <2> QED BY <1>1, <2>1
<1>3. Catalog!Max((1..n) \cup {0}) = n
  <2>1. n \in (1..n) \cup {0} /\ \A y \in (1..n) \cup {0} : n >= y
    OBVIOUS
  <2>2. \A x \in (1..n) \cup {0} : (\A y \in (1..n) \cup {0} : x >= y) => x = n
    BY <2>1
  <2> QED BY <2>1, <2>2 DEF Catalog!Max
<1> QED BY <1>1, <1>2, <1>3 DEF Catalog!NextVersion

(* A call steps while no rate is taken away.                                *)
LEMMA ErrandSteps ==
    ASSUME CatalogInv, NEW h \in Handlers, NEW next \in ErrandStates,
           Catalog!CallTo(h, next), ErrandIsSound(next)',
           \A r \in Rates : rate[r] # None => rate'[r] # None,
           \A c \in Categories : Cardinality(Catalog!RatesOf(c))
                                   <= Cardinality(Catalog!RatesOf(c)')
    PROVE  /\ errand' \in [Handlers -> ErrandStates]
           /\ \A g \in Handlers : ErrandIsSound(errand[g])'
<1>1. errand \in [Handlers -> ErrandStates] /\ errand' \in [Handlers -> ErrandStates]
      /\ errand'[h] = next /\ \A g \in Handlers \ {h} : errand'[g] = errand[g]
  BY DEF CatalogInv, Catalog!TypeOK, ErrandStates, Catalog!CallTo
<1>2. ASSUME NEW g \in Handlers \ {h} PROVE ErrandIsSound(errand[g])'
  <2>1. PICK c \in ErrandStates : c = errand[g] /\ c = errand'[g] /\ ErrandIsSound(c)
    BY <1>1 DEF CatalogInv
  <2>2. c.pc = "insert" =>
          /\ c.row.status = "DRAFT"
          /\ c.row.version <= Cardinality(Catalog!RatesOf(c.row.category)') + 1
    <3> SUFFICES ASSUME c.pc = "insert"
                 PROVE  /\ c.row.status = "DRAFT"
                        /\ c.row.version <= Cardinality(Catalog!RatesOf(c.row.category)') + 1
      OBVIOUS
    <3>1. PICK k \in Categories, v \in Nat : k = c.row.category /\ v = c.row.version
      BY BoundsAssumption, FS_CardinalityType, SameCardinality, ErrandKinds DEF Catalog!RateRows
    <3>2. c.row.status = "DRAFT" /\ v <= Cardinality(Catalog!RatesOf(k)) + 1
      BY <2>1, <3>1 DEF ErrandIsSound
    <3>3. /\ Cardinality(Catalog!RatesOf(k)) \in Nat
          /\ Cardinality(Catalog!RatesOf(k)') \in Nat
      <4>1. Catalog!RatesOf(k)' \in SUBSET Rates
        BY DEF Catalog!RatesOf
      <4> QED BY <4>1, RatesAreCounted, BoundsAssumption, FS_Subset, FS_CardinalityType
    <3>4. v <= Cardinality(Catalog!RatesOf(k)') + 1
      BY <3>2, <3>3
    <3> QED BY <3>1, <3>2, <3>4
  <2>3. c.pc = "publish" => rate'[c.rate] # None
    BY <2>1, ErrandKinds DEF ErrandIsSound
  <2> QED BY <2>1, <2>2, <2>3 DEF ErrandIsSound
<1>3. ErrandIsSound(errand[h])'
  BY <1>1 DEF ErrandIsSound
<1> QED BY <1>1, <1>2, <1>3

(* Steps of a call that leave the rates as they are.                        *)
LEMMA ErrandStepsQuietly ==
    ASSUME CatalogInv, NEW h \in Handlers, NEW next \in ErrandStates,
           Catalog!CallTo(h, next), ErrandIsSound(next), UNCHANGED <<category, rate>>
    PROVE  CatalogInv'
<1>1. ErrandIsSound(next)'
  BY DEF ErrandIsSound, Catalog!RatesOf
<1>2. \A c \in Categories : Cardinality(Catalog!RatesOf(c)) <= Cardinality(Catalog!RatesOf(c)')
  BY RatesAreCounted DEF Catalog!RatesOf
<1>3. errand' \in [Handlers -> ErrandStates] /\ \A g \in Handlers : ErrandIsSound(errand[g])'
  BY <1>1, <1>2, ErrandSteps
<1>4. Catalog!TypeOK'
  BY <1>3 DEF CatalogInv, Catalog!TypeOK, ErrandStates
<1>5. Catalog!VersionsHaveNoGap' /\ PublishedApart'
  BY DEF CatalogInv, Catalog!VersionsHaveNoGap, Catalog!VersionsOf, Catalog!RatesOf,
         PublishedApart
<1> QED BY <1>3, <1>4, <1>5 DEF CatalogInv

(* Which rates a category has, and their versions, is not a matter of       *)
(* status.                                                                  *)
LEMMA StatusKeepsVersions ==
    ASSUME CatalogInv, NEW r \in Rates, NEW status \in Catalog!Publication,
           rate[r] # None, rate' = [rate EXCEPT ![r].status = status]
    PROVE  /\ rate' \in [Rates -> Catalog!RateRows \cup {None}]
           /\ \A c : Catalog!RatesOf(c)' = Catalog!RatesOf(c)
           /\ Catalog!VersionsHaveNoGap'
           /\ rate'[r].status = status
           /\ \A s \in Rates : /\ rate'[s] = None <=> rate[s] = None
                               /\ rate[s] # None =>
                                    /\ rate'[s].category = rate[s].category
                                    /\ rate'[s].from = rate[s].from
                                    /\ rate'[s].until = rate[s].until
                               /\ s # r => rate'[s] = rate[s]
<1>0. PICK row \in Catalog!RateRows : row = rate[r]
  BY DEF CatalogInv, Catalog!TypeOK
<1>1. PICK new : row = rate[r] /\ new = [row EXCEPT !.status = status]
  BY <1>0
<1>2. new \in Catalog!RateRows
  BY <1>1 DEF Catalog!RateRows
<1>3. /\ new.category = row.category /\ new.version = row.version /\ new.status = status
      /\ new.from = row.from /\ new.until = row.until
  BY <1>1 DEF Catalog!RateRows
<1>4. rate' = [rate EXCEPT ![r] = new]
  BY <1>1
<1>5. /\ rate' \in [Rates -> Catalog!RateRows \cup {None}]
      /\ rate'[r] = new /\ new # None /\ \A s \in Rates \ {r} : rate'[s] = rate[s]
  BY <1>2, <1>4, NoRowAssumption DEF CatalogInv, Catalog!TypeOK
<1>6. \A s \in Rates : /\ rate'[s] = None <=> rate[s] = None
                       /\ rate[s] # None => /\ rate'[s].category = rate[s].category
                                            /\ rate'[s].version = rate[s].version
                                            /\ rate'[s].from = rate[s].from
                                            /\ rate'[s].until = rate[s].until
  BY <1>1, <1>3, <1>5
<1>7. ASSUME NEW c PROVE Catalog!RatesOf(c)' = Catalog!RatesOf(c)
  BY <1>6 DEF Catalog!RatesOf
<1>8. ASSUME NEW c PROVE Catalog!VersionsOf(c)' = Catalog!VersionsOf(c)
  <2>1. \A s \in Catalog!RatesOf(c) : rate'[s].version = rate[s].version
    BY <1>6 DEF Catalog!RatesOf
  <2> QED BY <1>7, <2>1 DEF Catalog!VersionsOf
<1>9. Catalog!VersionsHaveNoGap'
  BY <1>7, <1>8 DEF CatalogInv, Catalog!VersionsHaveNoGap
<1> QED BY <1>3, <1>5, <1>6, <1>7, <1>9

LEMMA ReadingVersionsKeeps ==
    ASSUME CatalogInv, NEW h \in Handlers, NEW c \in Categories,
           NEW from \in Catalog!Times, NEW until \in 1..Catalog!Forever,
           Catalog!CreateRateRead(h, c, from, until)
    PROVE  CatalogInv'
<1>1. PICK n \in Nat : /\ n = Cardinality(Catalog!RatesOf(c))
                       /\ Catalog!NextVersion(c) = n + 1
  BY RatesAreCounted, NextVersionCounts
<1>2. n + 1 \in 1..Cardinality(Rates)
  BY <1>1, BoundsAssumption, FS_CardinalityType, SameCardinality DEF Catalog!CreateRateRead
<1>3. PICK row : row = [category |-> c, from |-> from, until |-> until, version |-> n + 1,
                        status |-> "DRAFT"]
  OBVIOUS
<1>4. row \in Catalog!RateRows
  BY <1>2, <1>3, SameCardinality DEF Catalog!RateRows, Catalog!Publication
<1>5. PICK next : next = [pc |-> "insert", row |-> row]
  OBVIOUS
<1>6. next \in ErrandStates
  BY <1>4, <1>5 DEF ErrandStates, Catalog!Creations
<1>7. Catalog!CallTo(h, next) /\ UNCHANGED <<category, rate>>
  BY <1>1, <1>3, <1>5 DEF Catalog!CreateRateRead, Catalog!Begin
<1>8. ErrandIsSound(next)
  <2>1. row.category = c /\ row.version = n + 1 /\ row.status = "DRAFT"
    BY <1>3
  <2> QED BY <1>1, <1>5, <2>1 DEF ErrandIsSound
<1> QED BY <1>6, <1>7, <1>8, ErrandStepsQuietly

LEMMA ErrandsKeep ==
    ASSUME CatalogInv, NEW h \in Handlers,
           Catalog!CallDies(h) \/ \E r \in Rates : Catalog!PublishRead(h, r)
    PROVE  CatalogInv'
<1>1. CASE Catalog!CallDies(h)
  <2>1. Catalog!CallTo(h, Catalog!Idle) /\ UNCHANGED <<category, rate>>
    BY <1>1 DEF Catalog!CallDies
  <2> QED BY <2>1, IdleErrand, ErrandStepsQuietly
<1>2. ASSUME NEW r \in Rates, Catalog!PublishRead(h, r) PROVE CatalogInv'
  <2>1. PICK next : next = [pc |-> "publish", rate |-> r]
    OBVIOUS
  <2>2. next \in ErrandStates /\ Catalog!CallTo(h, next) /\ UNCHANGED <<category, rate>>
    BY <1>2, <2>1
       DEF ErrandStates, Catalog!Publications, Catalog!PublishRead, Catalog!Begin
  <2>3. ErrandIsSound(next)
    BY <1>2, <2>1 DEF ErrandIsSound, Catalog!PublishRead
  <2> QED BY <2>2, <2>3, ErrandStepsQuietly
<1> QED BY <1>1, <1>2

LEMMA CategoriesKeep ==
    ASSUME CatalogInv, UNCHANGED <<rate, errand>>,
           category' \in [Categories -> Catalog!Publication \cup {None}]
    PROVE  CatalogInv'
<1>1. Catalog!TypeOK' /\ Catalog!VersionsHaveNoGap' /\ PublishedApart'
  BY DEF CatalogInv, Catalog!TypeOK, Catalog!VersionsHaveNoGap, Catalog!VersionsOf,
         Catalog!RatesOf, PublishedApart
<1>2. ASSUME NEW h \in Handlers PROVE ErrandIsSound(errand[h])'
  BY DEF CatalogInv, ErrandIsSound, Catalog!RatesOf
<1> QED BY <1>1, <1>2 DEF CatalogInv

LEMMA RetiringKeeps ==
    ASSUME CatalogInv, NEW r \in Rates, Catalog!RetireRate(r)
    PROVE  CatalogInv'
<1>1. /\ rate[r] # None /\ rate' = [rate EXCEPT ![r].status = "RETIRED"]
      /\ UNCHANGED <<category, errand>> /\ "RETIRED" \in Catalog!Publication
  BY DEF Catalog!RetireRate, Catalog!Publication
<1>2. Catalog!TypeOK' /\ Catalog!VersionsHaveNoGap'
  BY <1>1, StatusKeepsVersions DEF CatalogInv, Catalog!TypeOK
<1>3. PublishedApart'
  <2> SUFFICES ASSUME NEW x \in Rates, NEW y \in Rates, rate'[x] # None, rate'[y] # None,
                      rate'[x].category = rate'[y].category,
                      rate'[x].status = "PUBLISHED", rate'[y].status = "PUBLISHED",
                      Catalog!Overlap(rate'[x], rate'[y])
               PROVE  x = y
    BY DEF PublishedApart, Catalog!Overlap
  <2>1. x # r /\ y # r
    BY <1>1, StatusKeepsVersions
  <2>2. rate'[x] = rate[x] /\ rate'[y] = rate[y]
    BY <1>1, <2>1, StatusKeepsVersions
  <2> QED BY <2>2 DEF CatalogInv, PublishedApart, Catalog!Overlap
<1>4. ASSUME NEW h \in Handlers PROVE ErrandIsSound(errand[h])'
  <2>1. PICK c \in ErrandStates : c = errand[h] /\ c = errand'[h] /\ ErrandIsSound(c)
    BY <1>1 DEF CatalogInv, Catalog!TypeOK, ErrandStates
  <2>2. \A k : Cardinality(Catalog!RatesOf(k)') = Cardinality(Catalog!RatesOf(k))
    BY <1>1, StatusKeepsVersions
  <2>3. c.pc = "publish" => rate'[c.rate] # None
    BY <1>1, <2>1, ErrandKinds, StatusKeepsVersions DEF ErrandIsSound
  <2> QED BY <2>1, <2>2, <2>3 DEF ErrandIsSound
<1> QED BY <1>2, <1>3, <1>4 DEF CatalogInv

(* The exclusion constraint.                                                *)
LEMMA PublishingKeeps ==
    ASSUME CatalogInv, NEW h \in Handlers, Catalog!PublishWrite(h)
    PROVE  CatalogInv'
<1>1. /\ errand[h].pc = "publish" /\ Catalog!CallTo(h, Catalog!Idle) /\ UNCHANGED category
      /\ errand[h] \in ErrandStates
  BY DEF Catalog!PublishWrite, CatalogInv, Catalog!TypeOK, ErrandStates
<1>2. PICK r \in Rates : r = errand[h].rate /\ rate[r] # None
  BY <1>1, ErrandKinds DEF CatalogInv, ErrandIsSound
<1>3. CASE Catalog!Overlaps(r)
  <2>1. UNCHANGED <<category, rate>>
    BY <1>1, <1>2, <1>3 DEF Catalog!PublishWrite
  <2> QED BY <1>1, <2>1, IdleErrand, ErrandStepsQuietly
<1>4. CASE ~Catalog!Overlaps(r)
  <2>1. rate' = [rate EXCEPT ![r].status = "PUBLISHED"] /\ "PUBLISHED" \in Catalog!Publication
    BY <1>2, <1>4 DEF Catalog!PublishWrite, Catalog!Publication
  <2>2. errand' \in [Handlers -> ErrandStates]
        /\ \A g \in Handlers : ErrandIsSound(errand[g])'
    <3>1. ASSUME NEW c \in Categories
          PROVE  Cardinality(Catalog!RatesOf(c)) <= Cardinality(Catalog!RatesOf(c)')
      <4>1. Catalog!RatesOf(c)' = Catalog!RatesOf(c)
        BY <1>2, <2>1, StatusKeepsVersions
      <4>2. Cardinality(Catalog!RatesOf(c)) \in Nat
        BY RatesAreCounted
      <4> QED BY <4>1, <4>2
    <3>2. \A s \in Rates : rate[s] # None => rate'[s] # None
      BY <1>2, <2>1, StatusKeepsVersions
    <3>3. ErrandIsSound(Catalog!Idle)'
      BY IdleErrand DEF ErrandIsSound
    <3> QED BY <1>1, <3>1, <3>2, <3>3, IdleErrand, ErrandSteps
  <2>3. Catalog!TypeOK' /\ Catalog!VersionsHaveNoGap'
    BY <1>1, <1>2, <2>1, <2>2, StatusKeepsVersions DEF CatalogInv, Catalog!TypeOK, ErrandStates
  <2>4. PublishedApart'
    <3> SUFFICES ASSUME NEW x \in Rates, NEW y \in Rates, rate'[x] # None, rate'[y] # None,
                        rate'[x].category = rate'[y].category,
                        rate'[x].status = "PUBLISHED", rate'[y].status = "PUBLISHED",
                        Catalog!Overlap(rate'[x], rate'[y]), x # y
                 PROVE  FALSE
      BY DEF PublishedApart, Catalog!Overlap
    <3>1. /\ rate[x] # None /\ rate[y] # None /\ rate[x].category = rate[y].category
          /\ Catalog!Overlap(rate[x], rate[y]) /\ Catalog!Overlap(rate[y], rate[x])
      BY <1>2, <2>1, StatusKeepsVersions DEF Catalog!Overlap
    <3>2. CASE x = r
      <4>1. rate[y].status = "PUBLISHED"
        BY <1>2, <2>1, <3>2, StatusKeepsVersions
      <4> QED BY <1>4, <3>1, <3>2, <4>1 DEF Catalog!Overlaps, Catalog!RatesOf
    <3>3. CASE y = r
      <4>1. rate[x].status = "PUBLISHED"
        BY <1>2, <2>1, <3>3, StatusKeepsVersions
      <4> QED BY <1>4, <3>1, <3>3, <4>1 DEF Catalog!Overlaps, Catalog!RatesOf
    <3>4. CASE x # r /\ y # r
      <4>1. rate'[x] = rate[x] /\ rate'[y] = rate[y]
        BY <1>2, <2>1, <3>4, StatusKeepsVersions
      <4> QED BY <3>1, <4>1 DEF CatalogInv, PublishedApart
    <3> QED BY <3>2, <3>3, <3>4
  <2> QED BY <2>2, <2>3, <2>4 DEF CatalogInv
<1> QED BY <1>3, <1>4

(* The unique index: whoever finds its number free has the next one.        *)
LEMMA InsertingKeeps ==
    ASSUME CatalogInv, NEW h \in Handlers, NEW r \in Rates, Catalog!CreateRateInsert(h, r)
    PROVE  CatalogInv'
<1>1. /\ errand[h].pc = "insert" /\ Catalog!CallTo(h, Catalog!Idle) /\ UNCHANGED category
      /\ rate[r] = None /\ errand[h] \in ErrandStates
  BY DEF Catalog!CreateRateInsert, CatalogInv, Catalog!TypeOK, ErrandStates
<1>2. PICK row \in Catalog!RateRows, c \in Categories, v \in Nat \ {0}, n \in Nat :
        /\ row = errand[h].row /\ c = row.category /\ v = row.version
        /\ row.status = "DRAFT" /\ n = Cardinality(Catalog!RatesOf(c)) /\ v <= n + 1
  <2>1. /\ errand[h].row \in Catalog!RateRows /\ errand[h].row.category \in Categories
        /\ errand[h].row.version \in Nat \ {0}
    BY <1>1, BoundsAssumption, FS_CardinalityType, SameCardinality, ErrandKinds
       DEF Catalog!RateRows
  <2>2. ErrandIsSound(errand[h])
    BY DEF CatalogInv
  <2> QED BY <1>1, <2>1, <2>2, RatesAreCounted DEF ErrandIsSound
<1>3. CASE Catalog!VersionTaken(row)
  <2>1. UNCHANGED <<category, rate>>
    BY <1>1, <1>2, <1>3 DEF Catalog!CreateRateInsert
  <2> QED BY <1>1, <2>1, IdleErrand, ErrandStepsQuietly
<1>4. CASE ~Catalog!VersionTaken(row)
  <2>1. rate' = [rate EXCEPT ![r] = row]
    BY <1>2, <1>4 DEF Catalog!CreateRateInsert
  <2>2. /\ rate' \in [Rates -> Catalog!RateRows \cup {None}]
        /\ rate'[r] = row /\ row # None /\ \A s \in Rates \ {r} : rate'[s] = rate[s]
    BY <2>1, NoRowAssumption DEF CatalogInv, Catalog!TypeOK
  <2>3. v = n + 1 /\ Catalog!VersionsOf(c) = 1..n
    <3>1. Catalog!VersionsOf(c) = 1..Cardinality(Catalog!RatesOf(c))
      BY NoGap DEF CatalogInv
    <3>2. v \notin Catalog!VersionsOf(c)
      BY <1>2, <1>4 DEF Catalog!VersionTaken
    <3>3. v \notin 1..n
      BY <1>2, <3>1, <3>2
    <3>4. v = n + 1
      BY <1>2, <3>3
    <3> QED BY <1>2, <3>1, <3>4
  <2>4. Catalog!RatesOf(c)' = Catalog!RatesOf(c) \cup {r} /\ r \notin Catalog!RatesOf(c)
    BY <1>1, <1>2, <2>2 DEF Catalog!RatesOf
  <2>5. Cardinality(Catalog!RatesOf(c)') = n + 1
    <3> DEFINE S == Catalog!RatesOf(c)
    <3>1. IsFiniteSet(S) /\ Cardinality(S) = n /\ r \notin S
      BY <1>2, <2>4, RatesAreCounted
    <3>2. Cardinality(S \cup {r}) = n + 1
      <4> HIDE DEF S
      <4> QED BY <3>1, FS_AddElement
    <3> QED BY <2>4, <3>2
  <2>6. \A k \in Categories \ {c} : Catalog!RatesOf(k)' = Catalog!RatesOf(k)
    BY <1>1, <1>2, <2>2 DEF Catalog!RatesOf
  <2>7. Catalog!VersionsOf(c)' = 1..(n + 1)
    <3>1. \A s \in Catalog!RatesOf(c) : s # r /\ rate'[s].version = rate[s].version
      BY <2>2, <2>4 DEF Catalog!RatesOf
    <3>2. Catalog!VersionsOf(c)' = Catalog!VersionsOf(c) \cup {v}
      BY <1>2, <2>2, <2>4, <3>1 DEF Catalog!VersionsOf
    <3>3. (1..n) \cup {n + 1} = 1..(n + 1)
      OBVIOUS
    <3> QED BY <2>3, <3>2, <3>3
  <2>8. \A k \in Categories \ {c} : Catalog!VersionsOf(k)' = Catalog!VersionsOf(k)
    <3>1. \A k \in Categories \ {c} : \A s \in Catalog!RatesOf(k) :
            s # r /\ rate'[s].version = rate[s].version
      BY <1>1, <2>2 DEF Catalog!RatesOf
    <3> QED BY <2>6, <3>1 DEF Catalog!VersionsOf
  <2>9. Catalog!VersionsHaveNoGap'
    <3>1. Catalog!VersionsOf(c)' = 1..Cardinality(Catalog!RatesOf(c)')
      BY <2>5, <2>7
    <3>2. ASSUME NEW k \in Categories \ {c}
          PROVE  Catalog!VersionsOf(k)' = 1..Cardinality(Catalog!RatesOf(k)')
      <4>1. Catalog!VersionsOf(k) = 1..Cardinality(Catalog!RatesOf(k))
        BY NoGap DEF CatalogInv
      <4> QED BY <2>6, <2>8, <4>1
    <3> QED BY <3>1, <3>2, SameCardinality DEF Catalog!VersionsHaveNoGap
  <2>10. errand' \in [Handlers -> ErrandStates]
         /\ \A g \in Handlers : ErrandIsSound(errand[g])'
    <3>1. ASSUME NEW k \in Categories
          PROVE  Cardinality(Catalog!RatesOf(k)) <= Cardinality(Catalog!RatesOf(k)')
      <4>1. CASE k = c
        BY <1>2, <2>5, <4>1
      <4>2. CASE k # c
        BY <2>6, <4>2, RatesAreCounted
      <4> QED BY <4>1, <4>2
    <3>2. \A s \in Rates : rate[s] # None => rate'[s] # None
      BY <1>1, <2>2
    <3>3. ErrandIsSound(Catalog!Idle)'
      BY IdleErrand DEF ErrandIsSound
    <3> QED BY <1>1, <3>1, <3>2, <3>3, IdleErrand, ErrandSteps
  <2>11. Catalog!TypeOK'
    BY <1>1, <2>2, <2>10 DEF CatalogInv, Catalog!TypeOK, ErrandStates
  <2>12. PublishedApart'
    BY <1>2, <2>2 DEF CatalogInv, PublishedApart
  <2> QED BY <2>9, <2>10, <2>11, <2>12 DEF CatalogInv
<1> QED BY <1>3, <1>4

LEMMA CatalogInvIsInductive ==
    ASSUME CatalogInv, Catalog!Next \/ UNCHANGED catalogVars
    PROVE  CatalogInv'
<1>1. CASE UNCHANGED catalogVars
  BY <1>1, CategoriesKeep DEF catalogVars, CatalogInv, Catalog!TypeOK
<1>2. ASSUME NEW c \in Categories, Catalog!CreateCategory(c) PROVE CatalogInv'
  BY <1>2, CategoriesKeep
     DEF Catalog!CreateCategory, CatalogInv, Catalog!TypeOK, Catalog!Publication
<1>3. ASSUME NEW c \in Categories, NEW status \in {"PUBLISHED", "RETIRED"},
             Catalog!SetCategoryStatus(c, status)
      PROVE  CatalogInv'
  BY <1>3, CategoriesKeep
     DEF Catalog!SetCategoryStatus, CatalogInv, Catalog!TypeOK, Catalog!Publication
<1>4. CASE Catalog!Next
  BY <1>2, <1>3, <1>4, RetiringKeeps, ReadingVersionsKeeps, InsertingKeeps, ErrandsKeep,
     PublishingKeeps DEF Catalog!Next
<1> QED BY <1>1, <1>4

LEMMA CatalogInvInitially == Catalog!Init => CatalogInv
<1> SUFFICES ASSUME Catalog!Init PROVE CatalogInv
  OBVIOUS
<1>1. PICK row : /\ row = [category |-> Visit, from |-> 0, until |-> Catalog!Forever,
                           version |-> 1, status |-> "PUBLISHED"]
                 /\ rate = [r \in Rates |-> IF r = VisitRate THEN row ELSE None]
  BY DEF Catalog!Init
<1>2. row \in Catalog!RateRows
  <2>1. Cardinality(Rates) \in Nat /\ Cardinality(Rates) # 0
    BY BoundsAssumption, SeedAssumption, FS_CardinalityType, FS_EmptySet
  <2>2. 1 \in 1..Cardinality(Rates)
    BY <2>1
  <2>3. 0 \in Catalog!Times /\ Catalog!Forever \in 1..Catalog!Forever
    BY BoundsAssumption DEF Catalog!Times, Catalog!Forever
  <2> QED BY <1>1, <2>2, <2>3, SameCardinality, SeedAssumption DEF Catalog!RateRows, Catalog!Publication
<1>3. row # None /\ row.category = Visit /\ row.version = 1
  BY <1>1, <1>2, NoRowAssumption
<1>4. Catalog!TypeOK
  BY <1>1, <1>2 DEF Catalog!Init, Catalog!TypeOK, Catalog!Publication
<1>5. Catalog!VersionsHaveNoGap
  <2>1. Catalog!RatesOf(Visit) = {VisitRate}
    BY <1>1, <1>3, SeedAssumption DEF Catalog!RatesOf
  <2>2. Catalog!VersionsOf(Visit) = {1}
    BY <1>1, <1>3, <2>1, SeedAssumption DEF Catalog!VersionsOf
  <2>3. Cardinality({VisitRate}) = 1 /\ {1} = 1..1
    BY FS_Singleton
  <2>4. ASSUME NEW c \in Categories \ {Visit}
        PROVE  Catalog!VersionsOf(c) = 1..Cardinality(Catalog!RatesOf(c))
    <3>1. Catalog!RatesOf(c) = {}
      BY <1>1, <1>3 DEF Catalog!RatesOf
    <3>2. Catalog!VersionsOf(c) = {}
      BY <3>1 DEF Catalog!VersionsOf
    <3>3. 1..0 = {}
      OBVIOUS
    <3> QED BY <3>1, <3>2, <3>3, FS_EmptySet
  <2>5. Catalog!VersionsOf(Visit) = 1..Cardinality(Catalog!RatesOf(Visit))
    BY <2>1, <2>2, <2>3
  <2> QED BY <2>4, <2>5, SameCardinality DEF Catalog!VersionsHaveNoGap
<1>6. PublishedApart
  BY <1>1 DEF PublishedApart
<1>7. \A h \in Handlers : ErrandIsSound(errand[h])
  BY IdleErrand DEF Catalog!Init
<1> QED BY <1>4, <1>5, <1>6, <1>7 DEF CatalogInv

(* Rates in force at one moment overlap.                                    *)
LEMMA OneOffer == CatalogInv => Catalog!OneOfferPerCategory
<1> SUFFICES ASSUME CatalogInv, NEW at \in Catalog!Times,
                    NEW r \in Catalog!Offers(at), NEW s \in Catalog!Offers(at),
                    rate[r].category = rate[s].category
             PROVE  r = s
  BY DEF Catalog!OneOfferPerCategory
<1>1. /\ r \in Rates /\ s \in Rates /\ rate[r] # None /\ rate[s] # None
      /\ rate[r].status = "PUBLISHED" /\ rate[s].status = "PUBLISHED"
      /\ rate[r].from <= at /\ at < rate[r].until
      /\ rate[s].from <= at /\ at < rate[s].until
  BY DEF Catalog!Offers, Catalog!InForce
<1>2. /\ rate[r].from \in Int /\ rate[r].until \in Int
      /\ rate[s].from \in Int /\ rate[s].until \in Int /\ at \in Int
  BY <1>1, BoundsAssumption
     DEF CatalogInv, Catalog!TypeOK, Catalog!RateRows, Catalog!Times, Catalog!Forever
<1>3. Catalog!Overlap(rate[r], rate[s])
  BY <1>1, <1>2 DEF Catalog!Overlap
<1> QED BY <1>1, <1>3 DEF CatalogInv, PublishedApart


-----------------------------------------------------------------------------
(* The register of technicians.                                             *)

(* An edit under way was validated against the row it read.                 *)
EditIsValidated(c) ==
    c.pc = "write" =>
        /\ technician[c.technician] # None
        /\ Registry!ValidTechnician(Registry!Patched(c.seen, c.patch))

RegistryInv ==
    /\ Registry!TypeOK
    /\ \A h \in Handlers : EditIsValidated(call[h])

LEMMA CallKinds ==
    ASSUME NEW c \in Registry!Calls
    PROVE  /\ c.pc = "write" =>
                /\ c.technician \in Technicians /\ c.patch \in Registry!Patches
                /\ c.seen \in Registry!Rows
           /\ c.pc = "audit" => c.entry \in Registry!AuditEvents
BY DEF Registry!Calls, Registry!Idle

(* Patching a row gives a row.                                              *)
LEMMA PatchedIsARow ==
    ASSUME NEW row \in Registry!Rows, NEW patch \in Registry!Patches
    PROVE  Registry!Patched(row, patch) \in Registry!Rows
BY DEF Registry!Rows, Registry!Patches, Registry!Patched

LEMMA EntryIsAnEvent ==
    ASSUME NEW t \in Technicians, NEW event \in {"technician.created", "technician.updated"}
    PROVE  [pc |-> "audit", entry |-> Registry!Entry(event, t)] \in Registry!Calls
BY DEF Registry!Entry, Registry!AuditEvents, Registry!Calls

(* A call steps; the rows that are there stay there.                        *)
LEMMA RegistryCallSteps ==
    ASSUME RegistryInv, NEW h \in Handlers, NEW next \in Registry!Calls,
           call' = [call EXCEPT ![h] = next],
           technician' \in [Technicians -> Registry!Rows \cup {None}],
           \A t \in Technicians : technician[t] # None => technician'[t] # None,
           audit' \subseteq Registry!AuditEvents,
           EditIsValidated(next)'
    PROVE  RegistryInv'
<1>1. call \in [Handlers -> Registry!Calls] /\ call' \in [Handlers -> Registry!Calls]
      /\ call'[h] = next /\ \A g \in Handlers \ {h} : call'[g] = call[g]
  BY DEF RegistryInv, Registry!TypeOK
<1>2. Registry!TypeOK'
  BY <1>1 DEF Registry!TypeOK
<1>3. ASSUME NEW g \in Handlers \ {h} PROVE EditIsValidated(call[g])'
  <2>1. PICK c \in Registry!Calls : c = call[g] /\ c = call'[g] /\ EditIsValidated(c)
    BY <1>1 DEF RegistryInv
  <2>2. c.pc = "write" => c.technician \in Technicians
    BY CallKinds
  <2>3. EditIsValidated(c)'
    BY <2>1, <2>2 DEF EditIsValidated
  <2> QED BY <2>1, <2>3 DEF EditIsValidated
<1>4. EditIsValidated(call[h])'
  BY <1>1 DEF EditIsValidated
<1> QED BY <1>2, <1>3, <1>4 DEF RegistryInv

LEMMA CreatingTechnicianKeeps ==
    ASSUME RegistryInv, NEW h \in Handlers, NEW t \in Technicians, NEW row \in Registry!Rows,
           Registry!Create(h, t, row)
    PROVE  RegistryInv'
<1>1. PICK next \in Registry!Calls :
        /\ next = [pc |-> "audit", entry |-> Registry!Entry("technician.created", t)]
        /\ next.pc = "audit"
  BY EntryIsAnEvent
<1>2. /\ call' = [call EXCEPT ![h] = next] /\ technician' = [technician EXCEPT ![t] = row]
      /\ UNCHANGED audit
  BY <1>1 DEF Registry!Create
<1>3. /\ technician' \in [Technicians -> Registry!Rows \cup {None}]
      /\ \A u \in Technicians : technician[u] # None => technician'[u] # None
  BY <1>2, NoRowAssumption DEF RegistryInv, Registry!TypeOK
<1>4. EditIsValidated(next)'
  BY <1>1 DEF EditIsValidated
<1> QED BY <1>2, <1>3, <1>4, RegistryCallSteps DEF RegistryInv, Registry!TypeOK

LEMMA ReadingTechnicianKeeps ==
    ASSUME RegistryInv, NEW h \in Handlers, NEW t \in Technicians,
           NEW patch \in Registry!Patches, Registry!UpdateRead(h, t, patch)
    PROVE  RegistryInv'
<1>1. PICK row \in Registry!Rows : row = technician[t] /\ row # None
  BY DEF Registry!UpdateRead, RegistryInv, Registry!TypeOK
<1>2. PICK next : next = [pc |-> "write", technician |-> t, patch |-> patch, seen |-> row]
  OBVIOUS
<1>3. next \in Registry!Calls
  BY <1>2 DEF Registry!Calls
<1>4. call' = [call EXCEPT ![h] = next] /\ UNCHANGED <<technician, audit>>
  BY <1>1, <1>2 DEF Registry!UpdateRead
<1>5. EditIsValidated(next)'
  <2>1. /\ next.technician = t /\ next.seen = row /\ next.patch = patch
    BY <1>2
  <2>2. Registry!ValidTechnician(Registry!Patched(row, patch)) /\ technician'[t] # None
    BY <1>1, <1>4 DEF Registry!UpdateRead
  <2> QED BY <2>1, <2>2 DEF EditIsValidated
<1> QED BY <1>3, <1>4, <1>5, RegistryCallSteps DEF RegistryInv, Registry!TypeOK

LEMMA WritingTechnicianKeeps ==
    ASSUME RegistryInv, NEW h \in Handlers, Registry!UpdateWrite(h)
    PROVE  RegistryInv'
<1>1. call[h].pc = "write" /\ call[h] \in Registry!Calls /\ UNCHANGED audit
  BY DEF Registry!UpdateWrite, RegistryInv, Registry!TypeOK
<1>2. PICK t \in Technicians, patch \in Registry!Patches, row \in Registry!Rows :
        t = call[h].technician /\ patch = call[h].patch /\ row = technician[t]
  BY <1>1, CallKinds DEF RegistryInv, Registry!TypeOK, EditIsValidated
<1>3. PICK next \in Registry!Calls :
        /\ next = [pc |-> "audit", entry |-> Registry!Entry("technician.updated", t)]
        /\ next.pc = "audit"
  BY EntryIsAnEvent
<1>4. PICK new \in Registry!Rows : new = Registry!Patched(row, patch)
  BY PatchedIsARow
<1>5. /\ technician' = [technician EXCEPT ![t] = new]
      /\ call' = [call EXCEPT ![h] = next]
  BY <1>2, <1>3, <1>4 DEF Registry!UpdateWrite
<1>6. /\ technician' \in [Technicians -> Registry!Rows \cup {None}]
      /\ \A u \in Technicians : technician[u] # None => technician'[u] # None
  BY <1>5, NoRowAssumption DEF RegistryInv, Registry!TypeOK
<1>7. EditIsValidated(next)'
  BY <1>3 DEF EditIsValidated
<1> QED BY <1>1, <1>5, <1>6, <1>7, RegistryCallSteps DEF RegistryInv, Registry!TypeOK

LEMMA RegistryCallsEnd ==
    ASSUME RegistryInv, NEW h \in Handlers, Registry!Audit(h) \/ Registry!CallDies(h)
    PROVE  RegistryInv'
<1>1. /\ call' = [call EXCEPT ![h] = Registry!Idle] /\ UNCHANGED technician
      /\ Registry!Idle \in Registry!Calls /\ Registry!Idle.pc = "idle"
  BY DEF Registry!Audit, Registry!CallDies, Registry!Calls, Registry!Idle
<1>2. audit' \subseteq Registry!AuditEvents
  BY CallKinds DEF Registry!Audit, Registry!CallDies, RegistryInv, Registry!TypeOK
<1>3. EditIsValidated(Registry!Idle)'
  BY <1>1 DEF EditIsValidated
<1> QED BY <1>1, <1>2, <1>3, RegistryCallSteps DEF RegistryInv, Registry!TypeOK

LEMMA RegistryInvIsInductive ==
    ASSUME RegistryInv, Registry!Next \/ UNCHANGED registryVars
    PROVE  RegistryInv'
<1>1. CASE UNCHANGED registryVars
  BY <1>1 DEF registryVars, RegistryInv, Registry!TypeOK, EditIsValidated
<1>2. CASE Registry!Next
  BY <1>2, CreatingTechnicianKeeps, ReadingTechnicianKeeps, WritingTechnicianKeeps,
     RegistryCallsEnd DEF Registry!Next
<1> QED BY <1>1, <1>2

LEMMA RegistryInvInitially == Registry!Init => RegistryInv
BY DEF Registry!Init, RegistryInv, Registry!TypeOK, Registry!Calls, Registry!Idle,
       EditIsValidated

(* What makes an active technician phoneless writes over a row other than   *)
(* the one it was validated against.                                        *)
LEMMA OnlyStaleEditsTakeThePhone ==
    ASSUME RegistryInv, Registry!Next, NEW t \in Technicians,
           Registry!Callable(t), ~Registry!Callable(t)'
    PROVE  \E h \in Handlers :
             /\ call[h].pc = "write" /\ call[h].technician = t /\ Registry!UpdateWrite(h)
             /\ call[h].seen # technician[t]
<1>1. PICK h \in Handlers :
        \/ \E u \in Technicians, row \in Registry!Rows : Registry!Create(h, u, row)
        \/ Registry!UpdateWrite(h)
  <2>1. ~UNCHANGED technician
    BY DEF Registry!Callable
  <2> QED BY <2>1 DEF Registry!Next, Registry!UpdateRead, Registry!Audit, Registry!CallDies
<1>2. ASSUME NEW u \in Technicians, NEW row \in Registry!Rows, Registry!Create(h, u, row)
      PROVE  FALSE
  <2>1. technician' = [technician EXCEPT ![u] = row] /\ row.phone = "number"
    BY <1>2 DEF Registry!Create
  <2> QED BY <2>1 DEF Registry!Callable, RegistryInv, Registry!TypeOK
<1>3. CASE Registry!UpdateWrite(h)
  <2>1. call[h].pc = "write" /\ call[h] \in Registry!Calls /\ EditIsValidated(call[h])
    BY <1>3 DEF Registry!UpdateWrite, RegistryInv, Registry!TypeOK
  <2>2. PICK u \in Technicians, patch \in Registry!Patches, row \in Registry!Rows :
          u = call[h].technician /\ patch = call[h].patch /\ row = technician[u]
    BY <2>1, CallKinds DEF RegistryInv, Registry!TypeOK, EditIsValidated
  <2>3. PICK new \in Registry!Rows : new = Registry!Patched(row, patch)
    BY PatchedIsARow
  <2>4. technician' = [technician EXCEPT ![u] = new]
    BY <1>3, <2>2, <2>3 DEF Registry!UpdateWrite
  <2>5. u = t
    BY <2>4 DEF Registry!Callable, RegistryInv, Registry!TypeOK
  <2>6. call[h].seen # technician[t]
    <3> SUFFICES ASSUME call[h].seen = row PROVE FALSE
      BY <2>2, <2>5
    <3>1. Registry!ValidTechnician(new)
      BY <2>1, <2>2, <2>3 DEF EditIsValidated
    <3>2. technician'[t] = new
      BY <2>4, <2>5 DEF RegistryInv, Registry!TypeOK
    <3> QED BY <3>1, <3>2
            DEF Registry!Callable, Registry!ValidTechnician, Registry!Rows, Registry!Phones
  <2> QED BY <1>3, <2>1, <2>2, <2>5, <2>6
<1> QED BY <1>1, <1>2, <1>3

-----------------------------------------------------------------------------
(* The three registers together: a step is in one, and leaves the others.   *)

AdministrationInv == ProfilesInv /\ CatalogInv /\ RegistryInv

LEMMA AdministrationInvIsInductive ==
    ASSUME AdministrationInv, [Next]_vars
    PROVE  AdministrationInv'
<1>1. /\ Profiles!Next \/ UNCHANGED profileVars
      /\ Catalog!Next \/ UNCHANGED catalogVars
      /\ Registry!Next \/ UNCHANGED registryVars
  BY DEF Next, InProfiles, InCatalog, InRegistry, vars
<1> QED BY <1>1, ProfilesInvIsInductive, CatalogInvIsInductive, RegistryInvIsInductive
        DEF AdministrationInv

LEMMA AdministrationIsInvariant == Spec => []AdministrationInv
<1>1. Init => AdministrationInv
  BY ProfilesInvInitially, CatalogInvInitially, RegistryInvInitially
     DEF Init, AdministrationInv
<1>2. AdministrationInv /\ [Next]_vars => AdministrationInv'
  BY AdministrationInvIsInductive
<1> QED BY <1>1, <1>2, PTL DEF Spec

(* Every register keeps to its types: in particular a change that writes a  *)
(* profile, an insert that uses a rate and an edit of a technician find     *)
(* rows where the code relies on them.                                      *)
THEOREM AdministrationTypeCorrect == Spec => []TypeOK
<1>1. AdministrationInv => TypeOK
  BY DEF AdministrationInv, ProfilesInv, CatalogInv, RegistryInv, TypeOK
<1> QED BY <1>1, AdministrationIsInvariant, PTL

(* Whatever is retried, repeated at once, lost or raced for, a provisioning *)
(* invites its subject at most once (identity.service.ts provision and      *)
(* auth0-management.ts), and reports done only what is.                     *)
THEOREM ProvisioningIsDoneOnce == Spec => []ProvisionedOnce
<1>1. AdministrationInv => ProvisionedOnce
  BY DEF AdministrationInv, ProfilesInv, AccessIsSound, ProvisionedOnce,
         Profiles!ProvisionedIsInternal
<1> QED BY <1>1, AdministrationIsInvariant, PTL

(* The unique index leaves no gap in a category's versions and the          *)
(* exclusion constraint one price at a moment, however calls interleave.    *)
THEOREM RatesStayInOrder == Spec => []RatesAreInOrder
<1>1. AdministrationInv => RatesAreInOrder
  BY OneOffer DEF AdministrationInv, CatalogInv, RatesAreInOrder
<1> QED BY <1>1, AdministrationIsInvariant, PTL

(* The last-administrator rule fails for no other reason than the two       *)
(* races: whoever removed the last one had counted another, or had read a   *)
(* row that has changed.                                                    *)
THEOREM RemovalsHaveAReason == Spec => RemovalsCountOnAnother
<1>1. AdministrationInv =>
        \A h \in Handlers : Profiles!LeavesNoAdmin(h) =>
          access[h].counted \/ access[h].seen # profile[access[h].target]
  BY RemovalsAreJustified DEF AdministrationInv
<1> QED BY <1>1, AdministrationIsInvariant, PTL
        DEF RemovalsCountOnAnother, Profiles!RemovalsCountOnAnother

(* A first call to the client portal that lost its race, or any other step, *)
(* takes the internal role of no one.                                       *)
THEOREM InternalsAreNotMadeClients == Spec => InternalStaysInternal
<1>1. AdministrationInv /\ [Next]_vars =>
        \A s \in Subjects : Profiles!IsInternal(s) => Profiles!IsInternal(s)'
  <2>1. [Next]_vars => Profiles!Next \/ UNCHANGED profileVars
    BY DEF Next, InProfiles, InCatalog, InRegistry, vars
  <2> QED BY <2>1, InternalsStay DEF AdministrationInv
<1> QED BY <1>1, AdministrationIsInvariant, PTL
        DEF Spec, InternalStaysInternal, Profiles!InternalStaysInternal

(* validateTechnician holds of what is written but for stale edits.         *)
THEOREM PhonesAreLostByRaceOnly == Spec => PhonelessOnlyByRace
<1>1. AdministrationInv /\ [Next]_vars =>
        \A t \in Technicians :
          Registry!Callable(t) /\ ~Registry!Callable(t)' =>
            \E h \in Handlers :
              /\ call[h].pc = "write" /\ call[h].technician = t /\ Registry!UpdateWrite(h)
              /\ call[h].seen # technician[t]
  <2> SUFFICES ASSUME AdministrationInv, [Next]_vars, NEW t \in Technicians,
                      Registry!Callable(t), ~Registry!Callable(t)'
               PROVE  \E h \in Handlers :
                        /\ call[h].pc = "write" /\ call[h].technician = t
                        /\ Registry!UpdateWrite(h) /\ call[h].seen # technician[t]
    OBVIOUS
  <2>1. Registry!Next \/ UNCHANGED technician
    BY DEF Next, InProfiles, InCatalog, InRegistry, vars, registryVars
  <2>2. ~UNCHANGED technician
    BY DEF Registry!Callable
  <2> QED BY <2>1, <2>2, OnlyStaleEditsTakeThePhone DEF AdministrationInv
<1> QED BY <1>1, AdministrationIsInvariant, PTL
        DEF Spec, PhonelessOnlyByRace, Registry!PhonelessOnlyByRace
=============================================================================
