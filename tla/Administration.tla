--------------------------- MODULE Administration ---------------------------
(***************************************************************************)
(* What an ADMIN keeps: profiles, the catalogue and the register of        *)
(* technicians.  The three share no row and no call, so a behaviour        *)
(* concerns one of them, its area, and the rest stays as it began.         *)
(***************************************************************************)
EXTENDS Naturals, FiniteSets

CONSTANTS Handlers, Subjects, Founders, Newcomers, Keys, Categories, Rates, Visit,
          VisitRate, Horizon, Technicians, None

ASSUME SubjectsAssumption == Founders \cup Newcomers \subseteq Subjects
ASSUME SeedAssumption == Visit \in Categories /\ VisitRate \in Rates
ASSUME BoundsAssumption == IsFiniteSet(Rates) /\ Horizon \in Nat

VARIABLES profile, account, invitations, job, access,
          category, rate, errand,
          technician, call, audit,
          area   \* the register this behaviour concerns

Profiles == INSTANCE Profiles
Catalog == INSTANCE Catalog
Registry == INSTANCE TechnicianRegistry

ASSUME NoRowAssumption ==
    /\ None \notin Profiles!Rows \cup Profiles!JobStates
    /\ None \notin Catalog!RateRows \cup Catalog!Publication
    /\ None \notin Registry!Rows

profileVars == <<profile, account, invitations, job, access>>
catalogVars == <<category, rate, errand>>
registryVars == <<technician, call, audit>>
vars == <<profileVars, catalogVars, registryVars, area>>

Init ==
    /\ Profiles!Init /\ Catalog!Init /\ Registry!Init
    /\ area \in {"profiles", "catalog", "registry"}

InProfiles ==
    area = "profiles" /\ Profiles!Next /\ UNCHANGED <<catalogVars, registryVars, area>>
InCatalog ==
    area = "catalog" /\ Catalog!Next /\ UNCHANGED <<profileVars, registryVars, area>>
InRegistry ==
    area = "registry" /\ Registry!Next /\ UNCHANGED <<profileVars, catalogVars, area>>

Next == InProfiles \/ InCatalog \/ InRegistry

Spec == Init /\ [][Next]_vars

-----------------------------------------------------------------------------
(* Each register's variables have the types its module states.              *)
TypeOK == Profiles!TypeOK /\ Catalog!TypeOK /\ Registry!TypeOK

(* The last-administrator rule holds but for the two ways Profiles names.   *)
RemovalsCountOnAnother == Profiles!RemovalsCountOnAnother

(* Retried, repeated and racing provisionings invite nobody twice, and one  *)
(* that is about to be reported done has made its subject internal.         *)
ProvisionedOnce == Profiles!OneInvitation /\ Profiles!ProvisionedIsInternal

(* Nobody internal is turned into a client.                                 *)
InternalStaysInternal == Profiles!InternalStaysInternal

(* However creations and publications race, the versions of a category's    *)
(* rates have no gap and the public is offered one price.                   *)
RatesAreInOrder == Catalog!VersionsHaveNoGap /\ Catalog!OneOfferPerCategory

(* A technician without a phone becomes active only by a stale edit.        *)
PhonelessOnlyByRace == Registry!PhonelessOnlyByRace

=============================================================================
