------------------------------ MODULE Catalog ------------------------------
(***************************************************************************)
(* apps/api/src/catalog: the categories and rates that ADMIN keeps and the *)
(* offers the public reads.  No call runs in a transaction: what keeps two *)
(* of them apart are the unique index and the exclusion constraint of      *)
(* service_rate.  The migration activates the one zone of the seed; no     *)
(* call deactivates it, and activateZone refuses another while it is       *)
(* active, so zones are left out, as are texts, amounts and audit rows.    *)
(***************************************************************************)
EXTENDS Naturals, FiniteSets, FiniteSetsExt

CONSTANTS Handlers,     \* HTTP calls the API serves at the same time
          Categories, Rates,
          Visit,        \* the category of the seed
          VisitRate,    \* its rate
          Horizon,      \* bound on time, 0 being that of the seed
          None

VARIABLES category,   \* status of a category, or None
          rate,       \* rate[r]: row, or None
          errand      \* errand[h]: where a call stands

vars == <<category, rate, errand>>

Publication == {"DRAFT", "PUBLISHED", "RETIRED"}
Times == 0..Horizon
Forever == Horizon + 1   \* the end of a rate that has none

RateRows == [category : Categories, from : Times, until : 1..Forever,
             version : 1..Cardinality(Rates), status : Publication]

Idle == [pc |-> "idle"]
Creations == [pc : {"insert"}, row : RateRows]
Publications == [pc : {"publish"}, rate : Rates]

RatesOf(c) == {r \in Rates : rate[r] # None /\ rate[r].category = c}
VersionsOf(c) == {rate[r].version : r \in RatesOf(c)}

CallTo(h, next) == errand' = [errand EXCEPT ![h] = next]
Begin(h, next) == errand[h] = Idle /\ CallTo(h, next)

Init ==
    /\ category = [c \in Categories |-> IF c = Visit THEN "PUBLISHED" ELSE None]
    /\ rate = [r \in Rates |->
                 IF r = VisitRate
                 THEN [category |-> Visit, from |-> 0, until |-> Forever, version |-> 1,
                       status |-> "PUBLISHED"]
                 ELSE None]
    /\ errand = [h \in Handlers |-> Idle]

-----------------------------------------------------------------------------
(* Calls of one statement.                                                  *)

CreateCategory(c) ==
    /\ category[c] = None
    /\ category' = [category EXCEPT ![c] = "DRAFT"]
    /\ UNCHANGED <<rate, errand>>

SetCategoryStatus(c, status) ==
    /\ category[c] # None
    /\ category' = [category EXCEPT ![c] = status]
    /\ UNCHANGED <<rate, errand>>

RetireRate(r) ==
    /\ rate[r] # None
    /\ rate' = [rate EXCEPT ![r].status = "RETIRED"]
    /\ UNCHANGED <<category, errand>>

-----------------------------------------------------------------------------
(* createRate: the next version is read, and inserted unless it was taken.  *)

NextVersion(c) == Max(VersionsOf(c) \cup {0}) + 1

CreateRateRead(h, c, from, until) ==
    /\ category[c] # None
    /\ from < until
    /\ NextVersion(c) <= Cardinality(Rates)
    /\ Begin(h, [pc |-> "insert",
                 row |-> [category |-> c, from |-> from, until |-> until,
                          version |-> NextVersion(c), status |-> "DRAFT"]])
    /\ UNCHANGED <<category, rate>>

(* The unique index on category, zone and version.                          *)
VersionTaken_NoIndex(row) == FALSE   \* mutant
VersionTaken(row) == row.version \in VersionsOf(row.category)

CreateRateInsert(h, r) ==
    /\ errand[h].pc = "insert"
    /\ rate[r] = None
    /\ rate' = IF VersionTaken(errand[h].row) THEN rate
                                              ELSE [rate EXCEPT ![r] = errand[h].row]
    /\ CallTo(h, Idle)
    /\ UNCHANGED category

-----------------------------------------------------------------------------
(* publishRate, of a draft or of a rate that was retired: what it read of   *)
(* the rate does not change, so only the constraint decides.                *)

PublishRead(h, r) ==
    /\ rate[r] # None
    /\ Begin(h, [pc |-> "publish", rate |-> r])
    /\ UNCHANGED <<category, rate>>

(* service_rate_no_published_validity_overlap.                              *)
Overlap(x, y) == x.from < y.until /\ y.from < x.until
Overlaps_NoConstraint(r) == FALSE   \* mutant
Overlaps(r) ==
    \E s \in RatesOf(rate[r].category) \ {r} :
      rate[s].status = "PUBLISHED" /\ Overlap(rate[r], rate[s])

PublishWrite(h) ==
    LET r == errand[h].rate
    IN  /\ errand[h].pc = "publish"
        /\ rate' = IF Overlaps(r) THEN rate ELSE [rate EXCEPT ![r].status = "PUBLISHED"]
        /\ CallTo(h, Idle)
        /\ UNCHANGED category

CallDies(h) ==
    /\ errand[h] # Idle
    /\ CallTo(h, Idle)
    /\ UNCHANGED <<category, rate>>

Next ==
    \/ \E c \in Categories :
         \/ CreateCategory(c)
         \/ \E status \in {"PUBLISHED", "RETIRED"} : SetCategoryStatus(c, status)
    \/ \E r \in Rates : RetireRate(r)
    \/ \E h \in Handlers :
         \/ \E c \in Categories, from \in Times, until \in 1..Forever :
              CreateRateRead(h, c, from, until)
         \/ \E r \in Rates : CreateRateInsert(h, r) \/ PublishRead(h, r)
         \/ PublishWrite(h)
         \/ CallDies(h)

Spec == Init /\ [][Next]_vars

-----------------------------------------------------------------------------
(* publicOffers, at a time.                                                 *)
InForce(row, at) == row.from <= at /\ at < row.until

Offers(at) ==
    {r \in Rates : /\ rate[r] # None /\ rate[r].status = "PUBLISHED"
                   /\ InForce(rate[r], at)
                   /\ category[rate[r].category] = "PUBLISHED"}

-----------------------------------------------------------------------------
(* Properties.                                                              *)

TypeOK ==
    /\ category \in [Categories -> Publication \cup {None}]
    /\ rate \in [Rates -> RateRows \cup {None}]
    /\ errand \in [Handlers -> {Idle} \cup Creations \cup Publications]

(* feat-003 REQ-003-003: the versions of a category's rates are 1, 2, ...   *)
(* without gap or repetition, whichever creations raced for a number.       *)
VersionsHaveNoGap == \A c \in Categories : VersionsOf(c) = 1..Cardinality(RatesOf(c))

(* feat-003 design: no two rates of a category may be published for one     *)
(* moment.  The public is offered a category at one price at most, however  *)
(* creations, publications and retirements come between one another.        *)
OneOfferPerCategory ==
    \A at \in Times : \A r, s \in Offers(at) : rate[r].category = rate[s].category => r = s

=============================================================================
