------------------------------ MODULE Portals ------------------------------
(***************************************************************************)
(* The pages of customer-web and admin-web, each in front of the API it    *)
(* calls.  The parts share no state of the browser and no call, so a       *)
(* behaviour concerns one of them, its area, and the rest stays as it      *)
(* began.                                                                  *)
(***************************************************************************)
EXTENDS Naturals, FiniteSets

CONSTANTS Slots, Places,
          Tries, Bodies, MaxKeys,
          Notices, CreatedAt, PageSize, MaxReads, Lists, Visits,
          Technicians, Clicks, MaxVersion,
          Payers, Loads,
          PanelLoads, MaxIncidents,
          None

VARIABLES address, pin, lookup, byHand, moved,
          key, drawn, shown, attached, sending, request, stored, try, answered, thrown, overlapped, left,
          there, readAt, clock, page, list, visit, mixed,
          order, listing, copy, click,
          rows, payment, item, loading, load, press, billed,
          rating, incident, rated, incidents, submitting, call, panelLoad, crossed,
          area   \* the part of the pages this behaviour concerns

Address == INSTANCE AddressPicker
Submission == INSTANCE RequestSubmission WITH submitting <- sending
Inbox == INSTANCE NotificationInbox WITH Loads <- Lists, load <- list
Console == INSTANCE OperationsConsole WITH rows <- order
Customer == INSTANCE CustomerPage WITH Clicks <- Payers, click <- press
Panel == INSTANCE AftercarePanel WITH Loads <- PanelLoads, load <- panelLoad

ASSUME NoRowAssumption ==
    /\ None \notin Places \cup Address!Lookups
    /\ None \notin Submission!Drawn \cup Bodies
    /\ None \notin Technicians \cup Console!Copies
    /\ None \notin Customer!Items \cup Customer!PaymentViews
    /\ None \notin {"rating", "incident"}
ASSUME BoundsAssumption ==
    /\ MaxKeys \in Nat \ {0} /\ MaxVersion \in Nat /\ MaxIncidents \in Nat
    /\ PageSize \in Nat \ {0} /\ MaxReads \in Nat
ASSUME NoticesAssumption ==
    /\ IsFiniteSet(Notices) /\ Notices \subseteq Nat
    /\ CreatedAt \in [Notices -> Nat \ {0}]

addressVars == <<address, pin, lookup, byHand, moved>>
submissionVars == <<key, drawn, shown, attached, sending, request, stored, try,
                    answered, thrown, overlapped, left>>
inboxVars == <<there, readAt, clock, page, list, visit, mixed>>
consoleVars == <<order, listing, copy, click>>
customerVars == <<rows, payment, item, loading, load, press, billed>>
panelVars == <<rating, incident, rated, incidents, submitting, call, panelLoad, crossed>>
vars == <<addressVars, submissionVars, inboxVars, consoleVars, customerVars, panelVars, area>>

Init ==
    /\ Address!Init /\ Submission!Init /\ Inbox!Init
    /\ Console!Init /\ Customer!Init /\ Panel!Init
    /\ area \in {"address", "submission", "inbox", "console", "customer", "panel"}

PicksAddress ==
    /\ area = "address" /\ Address!Next
    /\ UNCHANGED <<submissionVars, inboxVars, consoleVars, customerVars, panelVars, area>>
Submits ==
    /\ area = "submission" /\ Submission!Next
    /\ UNCHANGED <<addressVars, inboxVars, consoleVars, customerVars, panelVars, area>>
ReadsInbox ==
    /\ area = "inbox" /\ Inbox!Next
    /\ UNCHANGED <<addressVars, submissionVars, consoleVars, customerVars, panelVars, area>>
Operates ==
    /\ area = "console" /\ Console!Next
    /\ UNCHANGED <<addressVars, submissionVars, inboxVars, customerVars, panelVars, area>>
FollowsOrder ==
    /\ area = "customer" /\ Customer!Next
    /\ UNCHANGED <<addressVars, submissionVars, inboxVars, consoleVars, panelVars, area>>
ReportsAfterwards ==
    /\ area = "panel" /\ Panel!Next
    /\ UNCHANGED <<addressVars, submissionVars, inboxVars, consoleVars, customerVars, area>>

Next == PicksAddress \/ Submits \/ ReadsInbox \/ Operates \/ FollowsOrder \/ ReportsAfterwards

(* The browser answers every call, with an error when there is no answer.   *)
TryEnds(t) ==
    /\ area = "submission" /\ Submission!Ends(t)
    /\ UNCHANGED <<addressVars, inboxVars, consoleVars, customerVars, panelVars, area>>
LoadGoesOn(l) ==
    /\ area = "customer" /\ Customer!LoadGoesOn(l)
    /\ UNCHANGED <<addressVars, submissionVars, inboxVars, consoleVars, panelVars, area>>
Fairness ==
    /\ \A t \in Tries : WF_submissionVars(TryEnds(t))
    /\ \A l \in Loads : WF_customerVars(LoadGoesOn(l))

Spec == Init /\ [][Next]_vars /\ Fairness

-----------------------------------------------------------------------------
(* Each part's variables have the types its module states.                  *)
TypeOK ==
    /\ Address!TypeOK /\ Submission!TypeOK /\ Inbox!TypeOK
    /\ Console!TypeOK /\ Customer!TypeOK /\ Panel!TypeOK

(* The address sent is that of the pin, when it is a pin's at all, no pin   *)
(* was set while another was looked up, and none is looked up any more.     *)
PinIsAtTheAddress == Address!PinIsAtTheAddress

(* Lost answers and repeated submits leave no request behind.               *)
OneRequestPerAttempt == Submission!OneRequestPerAttempt

(* Continuing the inbox passes no notice over and lists none twice.         *)
ListHasNoGap == Inbox!ListHasNoGap

(* A reassignment goes to another technician.                               *)
ReassignsToAnother == Console!ReassignsToAnother

(* What a page puts together from several answers is true of the API: the   *)
(* evidence said to be attached, the time a notice was read, the row of an  *)
(* order and its technician, the order and what its billing says, the one   *)
(* active incident.                                                         *)
PagesTellWhatIs ==
    /\ Submission!AttachedIsStored
    /\ Inbox!ShownReadingIsFirst
    /\ Console!ShowsWhatWas
    /\ Customer!PaidAsShown
    /\ Panel!OneActiveListed

(* Answers in any order do not take a page back: to an older row of the     *)
(* order, or to the form of a rating that is given.  On the client's pages  *)
(* a load that began before may.                                            *)
PagesGoBackOnlyWhenCrossed ==
    /\ Console!ConsoleNeverGoesBack
    /\ Customer!BackOnlyWhenCrossed
    /\ Panel!RatingStays

(* Whatever the calls answer, the form's buttons come back and the orders'  *)
(* "Actualizando" ends.                                                     *)
PagesComeBack ==
    /\ area = "submission" /\ sending ~> ~sending
    /\ area = "customer" /\ loading ~> ~loading

=============================================================================
