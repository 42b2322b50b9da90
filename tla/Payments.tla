------------------------------ MODULE Payments ------------------------------
(***************************************************************************)
(* apps/api/src/billing: from a charged order to its closing.  The client  *)
(* starts a checkout, pays at the provider (Mercado Pago), the provider's  *)
(* webhook queues a job, pollers run the jobs and reconcile what is still  *)
(* open, and the client confirms conformity.                               *)
(*                                                                         *)
(* startCheckout and reconcilePending run outside any transaction: each    *)
(* database statement and each provider call is a step, and rows read      *)
(* before a provider call are written by id after it.  A transaction is    *)
(* one step at its commit; one that fails leaves no trace, like a call     *)
(* that dies.  The provider is external.                                   *)
(***************************************************************************)
EXTENDS OrderContract, Naturals, FiniteSets

CONSTANTS Orders,           \* orders with a charge
          Attempts,         \* payment attempts (their external references)
          Payments,         \* payments at the provider
          Events,           \* webhook events, as the provider numbers them
          Browsers,         \* concurrent startCheckout calls
          Pollers,          \* concurrent polls of the reconciliation runner
          ProviderStatus,   \* statuses a payment has at the provider
          Amounts,          \* "owed", and "other" for what is not the charge's
          OperatorActions,  \* contract actions operators request on a charged order
          MaxFailures,      \* bound on failed calls and stopped processes
          None

ASSUME NoneAssumption == None \notin Orders \cup Attempts \cup Payments
ASSUME ProviderStatusAssumption ==
    ProviderStatus \subseteq {"PENDING", "IN_PROCESS", "APPROVED", "REJECTED",
                              "CANCELLED", "OTHER"}
ASSUME AmountsAssumption == Amounts \subseteq {"owed", "other"}
ASSUME OperatorActionsAssumption == OperatorActions \subseteq TransitionActions
ASSUME MaxFailuresAssumption == MaxFailures \in Nat

VARIABLES order,        \* order[o]: state and version of the work order
          transitions,  \* rows appended since the charge was created
          conformity,   \* orders with a conformity row
          attempt,      \* attempt[a]: payment_attempt row, or None
          outbox,       \* outbox[o]: events per type about the order
          receipts,     \* webhook events recorded in provider_event_receipt
          job,          \* job[p]: claimed_job of the payment, or None
          browser,      \* browser[b]: where a startCheckout call stands
          poller,       \* poller[w]: where a poll stands
          preferences,  \* provider: preferences per reference, 2 for several
          payment,      \* provider: payments made
          approvals,    \* provider: payments it has ever approved (history)
          failures      \* failed calls and stopped processes so far

orderVars == <<order, transitions, conformity, outbox>>
providerVars == <<preferences, payment, approvals>>
vars == <<order, transitions, conformity, outbox, attempt, receipts, job, browser,
          poller, preferences, payment, approvals, failures>>

-----------------------------------------------------------------------------
(* Rows and records.                                                        *)

ChargedVersion == 4   \* assigned, started, finished, charged

ChargedStates == {"PENDIENTE_PAGO", "PENDIENTE_CONFORMIDAD", "CERRADA"}
OrderRows == [state : ChargedStates, version : ChargedVersion..(ChargedVersion + 2)]

Actors == OperatorRoles \cup {"VERIFIED_PROVIDER", "CLIENT"}
TransitionRows == [order : Orders, version : Nat, action : TransitionActions,
                   by : Actors]

ActiveStates == {"CREATED", "UNKNOWN", "PENDING"}
TerminalStates == {"APPROVED", "REJECTED", "CANCELLED"}
AttemptRows == [order : Orders, sequence : Nat, url : BOOLEAN,
                state : ActiveStates \cup TerminalStates]

EventTypes == {"payment.approved", "payment.rejected", "work_order.closed"}
JobStates == {"PENDING", "PROCESSING", "PROCESSED"}

(* A payment at the provider, and what the adapter makes of an answer about *)
(* it.  IN_PROCESS is in_process or authorized, OTHER a status the adapter  *)
(* refuses (refunded, charged back, in mediation) or an answer without the  *)
(* fields it needs.  An amount is one with its currency.                    *)
ProviderPayments == [attempt : Attempts, status : ProviderStatus, amount : Amounts]
Snapshots == [payment : Payments, attempt : Attempts,
              status : ContractPaymentStates \ {"CREATED"}, amount : Amounts]
ASSUME NoRowAssumption ==
    None \notin AttemptRows \cup ProviderPayments \cup Snapshots \cup JobStates

Idle == [pc |-> "idle"]
BrowserCalls == {Idle}
    \cup [pc : {"create"}, order : Orders, sequence : Nat]
    \cup [pc : {"prefer", "saveUrl", "cancel", "uncertain"}, attempt : Attempts]

(* A poll works for a job, or goes through the open attempts it read.  found *)
(* are the provider's answers left to apply, current the one being applied   *)
(* and read the state its attempt had.                                       *)
PollerSteps == {"idle", "claim", "fetch", "done", "retry",
                "scan", "find", "restore", "search", "apply", "commit"}
Polls == [pc : PollerSteps, job : Payments \cup {None},
          todo : SUBSET (Attempts \X ActiveStates), attempt : Attempts \cup {None},
          found : SUBSET Snapshots, current : Snapshots \cup {None},
          read : ActiveStates \cup {None}]
Resting == [pc |-> "idle", job |-> None, todo |-> {}, attempt |-> None,
            found |-> {}, current |-> None, read |-> None]

AttemptsOf(o) == {a \in Attempts : attempt[a] # None /\ attempt[a].order = o}
Active(a) == attempt[a] # None /\ attempt[a].state \in ActiveStates

(* The partial unique index payment_attempt_one_active: may a row of order  *)
(* o other than a's be, or become, active?                                  *)
NoOtherActive_NoIndex(o, a) == TRUE   \* mutant
NoOtherActive(o, a) == \A b \in AttemptsOf(o) \ {a} : ~Active(b)

CountFailure == failures < MaxFailures /\ failures' = failures + 1

Emit(o, event) == outbox' = [outbox EXCEPT ![o][event] = @ + 1]

(* An order moves with its version and its transition row.                  *)
MoveOrder(o, action, to, actor) ==
    /\ order' = [order EXCEPT ![o] = [state |-> to, version |-> @.version + 1]]
    /\ transitions' = transitions \cup
         {[order |-> o, version |-> order[o].version + 1, action |-> action,
           by |-> actor]}

-----------------------------------------------------------------------------
Init ==
    /\ order = [o \in Orders |-> [state |-> "PENDIENTE_PAGO",
                                  version |-> ChargedVersion]]
    /\ transitions = {}
    /\ conformity = {}
    /\ outbox = [o \in Orders |-> [e \in EventTypes |-> 0]]
    /\ attempt = [a \in Attempts |-> None]
    /\ receipts = {}
    /\ job = [p \in Payments |-> None]
    /\ browser = [b \in Browsers |-> Idle]
    /\ poller = [w \in Pollers |-> Resting]
    /\ preferences = [a \in Attempts |-> 0]
    /\ payment = [p \in Payments |-> None]
    /\ approvals = {}
    /\ failures = 0

-----------------------------------------------------------------------------
(* startCheckout                                                            *)

BrowserTo(b, next) == browser' = [browser EXCEPT ![b] = next]

(* The one read: reuse the active attempt's URL, refuse while it is         *)
(* UNKNOWN, take over an active attempt that has no URL yet, or create one. *)
CheckoutRead(b, o) ==
    LET open == {a \in AttemptsOf(o) : Active(a)}
    IN  /\ browser[b] = Idle
        /\ order[o].state = "PENDIENTE_PAGO"
        /\ \/ /\ open = {}
              /\ BrowserTo(b, [pc |-> "create", order |-> o,
                               sequence |-> Cardinality(AttemptsOf(o)) + 1])
           \/ \E a \in open :
                /\ ~attempt[a].url /\ attempt[a].state # "UNKNOWN"
                /\ BrowserTo(b, [pc |-> "prefer", attempt |-> a])
        /\ UNCHANGED <<orderVars, attempt, receipts, job, poller, providerVars,
                       failures>>

(* Insert the attempt; both unique indexes may refuse it.                   *)
CheckoutCreate(b, a) ==
    LET o == browser[b].order
    IN  /\ browser[b].pc = "create"
        /\ attempt[a] = None
        /\ IF /\ NoOtherActive(o, a)
              /\ \A c \in AttemptsOf(o) : attempt[c].sequence # browser[b].sequence
           THEN /\ attempt' = [attempt EXCEPT ![a] =
                      [order |-> o, sequence |-> browser[b].sequence,
                       state |-> "CREATED", url |-> FALSE]]
                /\ BrowserTo(b, [pc |-> "prefer", attempt |-> a])
           ELSE BrowserTo(b, Idle) /\ UNCHANGED attempt
        /\ UNCHANGED <<orderVars, receipts, job, poller, providerVars, failures>>

(* createPreference: the provider may or may not have created it, and the   *)
(* answer may say so (saveUrl, cancel) or be lost or unusable (uncertain).  *)
CheckoutPrefer(b) ==
    LET a == browser[b].attempt
        created == preferences' = [preferences EXCEPT ![a] = IF @ = 0 THEN 1 ELSE 2]
    IN  /\ browser[b].pc = "prefer"
        /\ \/ created /\ BrowserTo(b, [browser[b] EXCEPT !.pc = "saveUrl"])
                      /\ UNCHANGED failures
           \/ created /\ BrowserTo(b, [browser[b] EXCEPT !.pc = "uncertain"])
                      /\ CountFailure
           \/ \E next \in {"cancel", "uncertain"} :
                /\ BrowserTo(b, [browser[b] EXCEPT !.pc = next])
                /\ CountFailure
                /\ UNCHANGED preferences
        /\ UNCHANGED <<orderVars, attempt, receipts, job, poller, payment, approvals>>

(* The three updates by id after the provider call.                         *)
CheckoutSaveUrl(b) ==
    /\ browser[b].pc = "saveUrl"
    /\ attempt' = [attempt EXCEPT ![browser[b].attempt].url = TRUE]
    /\ BrowserTo(b, Idle)
    /\ UNCHANGED <<orderVars, receipts, job, poller, providerVars, failures>>

CheckoutCancel(b) ==
    /\ browser[b].pc = "cancel"
    /\ attempt' = [attempt EXCEPT ![browser[b].attempt].state = "CANCELLED"]
    /\ BrowserTo(b, Idle)
    /\ UNCHANGED <<orderVars, receipts, job, poller, providerVars, failures>>

CheckoutUncertain(b) ==
    LET a == browser[b].attempt
    IN  /\ browser[b].pc = "uncertain"
        /\ attempt' = IF NoOtherActive(attempt[a].order, a)
                      THEN [attempt EXCEPT ![a].state = "UNKNOWN"]
                      ELSE attempt
        /\ BrowserTo(b, Idle)
        /\ UNCHANGED <<orderVars, receipts, job, poller, providerVars, failures>>

CheckoutDies(b) ==
    /\ browser[b] # Idle
    /\ CountFailure
    /\ BrowserTo(b, Idle)
    /\ UNCHANGED <<orderVars, attempt, receipts, job, poller, providerVars>>

-----------------------------------------------------------------------------
(* The provider.  A client pays through a URL the API holds; a rejected     *)
(* payment does not close the preference, so the client may pay again.      *)

PaymentBecomes(p, row) ==
    /\ payment' = [payment EXCEPT ![p] = row]
    /\ approvals' = IF row.status = "APPROVED" THEN approvals \cup {p} ELSE approvals
    /\ UNCHANGED <<orderVars, attempt, receipts, job, browser, poller, preferences,
                   failures>>

Pay(p, a, status) ==
    /\ payment[p] = None
    /\ attempt[a] # None /\ attempt[a].url
    /\ \E amount \in Amounts :
         PaymentBecomes(p, [attempt |-> a, status |-> status, amount |-> amount])

(* It decides a payment it held back, and may undo one it approved.         *)
Settle(p, status) ==
    /\ payment[p] # None /\ status # payment[p].status
    /\ \/ payment[p].status \in {"PENDING", "IN_PROCESS"}
       \/ payment[p].status = "APPROVED" /\ status = "OTHER"
    /\ PaymentBecomes(p, [payment[p] EXCEPT !.status = status])

(* receive: a valid webhook announces a payment, in any order, late, more   *)
(* than once or never, and says nothing of its status.  A repeated event    *)
(* collides with its receipt and changes nothing.  A new one puts the       *)
(* payment's job back to PENDING whatever its state.                        *)
WebhookReceive_Unsigned(e, p) ==   \* mutant
    /\ e \notin receipts
    /\ receipts' = receipts \cup {e}
    /\ job' = [job EXCEPT ![p] = "PENDING"]
    /\ UNCHANGED <<orderVars, attempt, browser, poller, providerVars, failures>>
WebhookReceive(e, p) ==
    /\ payment[p] # None
    /\ e \notin receipts
    /\ receipts' = receipts \cup {e}
    /\ job' = [job EXCEPT ![p] = "PENDING"]
    /\ UNCHANGED <<orderVars, attempt, browser, poller, providerVars, failures>>

-----------------------------------------------------------------------------
(* The reconciliation runner.                                               *)

PollerTo(w, next) == poller' = [poller EXCEPT ![w] = next]

ElsewhereUnchanged == UNCHANGED <<receipts, browser, providerVars>>
OnlyPollerMoves ==
    ElsewhereUnchanged /\ UNCHANGED <<orderVars, attempt, job, failures>>

(* What the adapter makes of an answer, when it does not refuse it.         *)
Mapped_InProcessIsApproved(status) ==   \* mutant
    IF status = "IN_PROCESS" THEN "APPROVED" ELSE status
Mapped(status) == IF status = "IN_PROCESS" THEN "PENDING" ELSE status

Refused(p) == payment[p].status = "OTHER"

Snapshot(p) == [payment |-> p, attempt |-> payment[p].attempt,
                status |-> Mapped(payment[p].status), amount |-> payment[p].amount]

(* The payments a poll asks about: its job's, or all of its attempt's.      *)
Asked(w) ==
    IF poller[w].job # None THEN {poller[w].job}
    ELSE {p \in Payments : payment[p] # None /\ payment[p].attempt = poller[w].attempt}

(* An error: a job is retried later, a scan leaves the other payments of    *)
(* this attempt and goes on with the next one.                              *)
NextAttempt(w) == [poller[w] EXCEPT !.pc = "scan", !.attempt = None, !.found = {},
                                    !.current = None, !.read = None]
GiveUp(w) ==
    /\ PollerTo(w, IF poller[w].job = None THEN NextAttempt(w)
                   ELSE [Resting EXCEPT !.pc = "retry", !.job = poller[w].job])
    /\ ElsewhereUnchanged /\ UNCHANGED <<orderVars, attempt, job>>

(* getPayment, or searchPayments, which maps every result before it returns *)
(* any: a payment it refuses hides the others of its attempt.               *)
AnswerRefused(w) ==
    /\ poller[w].pc \in {"fetch", "search"}
    /\ \E p \in Asked(w) : Refused(p)
    /\ GiveUp(w)
    /\ UNCHANGED failures

AnswerTaken(w) ==
    /\ \A p \in Asked(w) : ~Refused(p)
    /\ PollerTo(w, [poller[w] EXCEPT !.pc = "apply",
                                     !.found = {Snapshot(p) : p \in Asked(w)}])
    /\ OnlyPollerMoves

(* Backoff and lease are times: a PENDING job may or may not be due, and a  *)
(* lease may expire while its poll is still working.                        *)
LeaseExpires(p) ==
    /\ job[p] = "PROCESSING"
    /\ job' = [job EXCEPT ![p] = "PENDING"]
    /\ ElsewhereUnchanged /\ UNCHANGED <<orderVars, attempt, poller, failures>>

PollJob(w, p) ==
    /\ poller[w].pc = "idle"
    /\ job[p] = "PENDING"
    /\ PollerTo(w, [Resting EXCEPT !.pc = "claim", !.job = p])
    /\ OnlyPollerMoves

ClaimJob(w) ==
    LET p == poller[w].job
    IN  /\ poller[w].pc = "claim"
        /\ IF job[p] = "PENDING"
           THEN /\ job' = [job EXCEPT ![p] = "PROCESSING"]
                /\ PollerTo(w, [poller[w] EXCEPT !.pc = "fetch"])
           ELSE PollerTo(w, Resting) /\ UNCHANGED job
        /\ ElsewhereUnchanged /\ UNCHANGED <<orderVars, attempt, failures>>

FetchPayment(w) == poller[w].pc = "fetch" /\ AnswerTaken(w)

(* The job's last write, by id: PROCESSED, or PENDING after a failure.      *)
FinishJob(w) ==
    /\ poller[w].pc \in {"done", "retry"}
    /\ job' = [job EXCEPT ![poller[w].job] =
                  IF poller[w].pc = "done" THEN "PROCESSED" ELSE "PENDING"]
    /\ PollerTo(w, Resting)
    /\ ElsewhereUnchanged /\ UNCHANGED <<orderVars, attempt, failures>>

(* No job is due: reconcilePending reads the open attempts ...              *)
OpenAttempts == {a \in Attempts : Active(a)}

PollScan(w) ==
    /\ poller[w].pc = "idle"
    /\ OpenAttempts # {}
    /\ PollerTo(w, [Resting EXCEPT !.pc = "scan",
                        !.todo = {<<a, attempt[a].state>> : a \in OpenAttempts}])
    /\ OnlyPollerMoves

(* ... and takes them one at a time, in the state it read.                  *)
ScanNext(w) ==
    /\ poller[w].pc = "scan"
    /\ \/ poller[w].todo = {} /\ PollerTo(w, Resting)
       \/ \E item \in poller[w].todo :
            PollerTo(w, [poller[w] EXCEPT !.todo = @ \ {item}, !.attempt = item[1],
                            !.pc = IF item[2] = "UNKNOWN" THEN "find" ELSE "search"])
    /\ OnlyPollerMoves

(* findPreference answers only when exactly one preference has the          *)
(* reference.                                                               *)
FindPreference(w) ==
    /\ poller[w].pc = "find"
    /\ PollerTo(w, [poller[w] EXCEPT
            !.pc = IF preferences[poller[w].attempt] = 1 THEN "restore" ELSE "search"])
    /\ OnlyPollerMoves

(* The update by id to CREATED, whatever the attempt has become meanwhile;  *)
(* the index of active attempts may refuse it, and the scan goes on.        *)
RestoreAttempt(w) ==
    LET a == poller[w].attempt
        allowed == NoOtherActive(attempt[a].order, a)
    IN  /\ poller[w].pc = "restore"
        /\ attempt' = IF allowed
                      THEN [attempt EXCEPT ![a].state = "CREATED", ![a].url = TRUE]
                      ELSE attempt
        /\ PollerTo(w, IF allowed THEN [poller[w] EXCEPT !.pc = "search"]
                                  ELSE NextAttempt(w))
        /\ ElsewhereUnchanged /\ UNCHANGED <<orderVars, job, failures>>

SearchPayments(w) == poller[w].pc = "search" /\ AnswerTaken(w)

(* applyProviderPayment, its first read: a payment of another amount is an  *)
(* error, a terminal attempt is left alone.                                 *)
Matches_Any(s) == TRUE   \* mutant
Matches(s) == s.amount = "owed"

ApplyRead(w, s) ==
    /\ poller[w].pc = "apply"
    /\ s \in poller[w].found /\ Matches(s)
    /\ PollerTo(w, IF Active(s.attempt)
                   THEN [poller[w] EXCEPT !.pc = "commit", !.found = @ \ {s},
                            !.current = s, !.read = attempt[s.attempt].state]
                   ELSE [poller[w] EXCEPT !.found = @ \ {s}])
    /\ OnlyPollerMoves

ApplyEnd(w) ==
    /\ poller[w].pc = "apply"
    /\ poller[w].found = {}
    /\ PollerTo(w, IF poller[w].job = None THEN NextAttempt(w)
                                           ELSE [poller[w] EXCEPT !.pc = "done"])
    /\ OnlyPollerMoves

(* applyProviderPayment, its transaction.  The attempt must still be in the *)
(* state read; an approval also moves an order that still awaits payment.   *)
StillAsRead_Unchecked(w) == TRUE   \* mutant
StillAsRead(w) == attempt[poller[w].current.attempt].state = poller[w].read

Advances_AnyState(o, status) ==   \* mutant
    CanAdvanceOrderAfterPayment(status) /\ order[o].version < ChargedVersion + 2
Advances(o, status) ==
    CanAdvanceOrderAfterPayment(status) /\ order[o].state = "PENDIENTE_PAGO"

ApplyCommit(w) ==
    LET s == poller[w].current
        o == attempt[s.attempt].order
    IN  /\ poller[w].pc = "commit"
        /\ PollerTo(w, [poller[w] EXCEPT !.pc = "apply", !.current = None,
                                         !.read = None])
        /\ ElsewhereUnchanged /\ UNCHANGED <<job, conformity, failures>>
        /\ \/ /\ ~StillAsRead(w)
              /\ UNCHANGED <<attempt, order, transitions, outbox>>
           \/ /\ StillAsRead(w)
              /\ attempt' = [attempt EXCEPT ![s.attempt].state = s.status]
              /\ \/ /\ s.status = "REJECTED"
                    /\ Emit(o, "payment.rejected")
                    /\ UNCHANGED <<order, transitions>>
                 \/ /\ Advances(o, s.status)
                    /\ MoveOrder(o, "CONFIRM_PROVIDER_PAYMENT",
                                 "PENDIENTE_CONFORMIDAD", "VERIFIED_PROVIDER")
                    /\ Emit(o, "payment.approved")
                 \/ /\ s.status # "REJECTED" /\ ~Advances(o, s.status)
                    /\ UNCHANGED <<order, transitions, outbox>>

(* PAYMENT_MISMATCH: what was applied before it stands, what was left is    *)
(* not reached.                                                             *)
ApplyMismatch(w, s) ==
    /\ poller[w].pc = "apply"
    /\ s \in poller[w].found /\ ~Matches(s)
    /\ GiveUp(w)
    /\ UNCHANGED failures

(* The provider or a statement fails.                                       *)
PollStepFails(w) ==
    /\ poller[w].pc \in {"fetch", "find", "restore", "search", "apply", "commit", "done"}
    /\ CountFailure
    /\ GiveUp(w)

(* The process stops; a claimed job keeps its lease until it expires.       *)
PollDies(w) ==
    /\ poller[w].pc # "idle"
    /\ CountFailure
    /\ PollerTo(w, Resting)
    /\ ElsewhereUnchanged /\ UNCHANGED <<orderVars, attempt, job>>

-----------------------------------------------------------------------------
(* conformity, in one transaction; a second one finds the row and answers   *)
(* from it.                                                                 *)
Conformity_Unpaid(o) ==   \* mutant
    /\ o \notin conformity
    /\ conformity' = conformity \cup {o}
    /\ MoveOrder(o, "CONFIRM_CLIENT_CONFORMITY", "CERRADA", "CLIENT")
    /\ Emit(o, "work_order.closed")
    /\ UNCHANGED <<attempt, receipts, job, browser, poller, providerVars, failures>>
Conformity(o) ==
    /\ o \notin conformity
    /\ order[o].state = "PENDIENTE_CONFORMIDAD"
    /\ conformity' = conformity \cup {o}
    /\ MoveOrder(o, "CONFIRM_CLIENT_CONFORMITY", "CERRADA", "CLIENT")
    /\ Emit(o, "work_order.closed")
    /\ UNCHANGED <<attempt, receipts, job, browser, poller, providerVars, failures>>

(* OrdersService.transition on a charged order: the table decides, whoever  *)
(* the action is meant for.  These actions emit no event.                   *)
OperatorTransition(o, action) ==
    /\ action \in OperatorActions \ {"ASSIGN_TECHNICIAN", "CREATE_FIXED_PAYMENT"}
    /\ \E row \in OrderTransitions, role \in OperatorRoles :
          /\ row.from = order[o].state /\ row.action = action
          /\ MoveOrder(o, action, row.to, role)
    /\ UNCHANGED <<conformity, outbox, attempt, receipts, job, browser, poller,
                   providerVars, failures>>

-----------------------------------------------------------------------------
CheckoutStep(b) ==
    \/ \E o \in Orders : CheckoutRead(b, o)
    \/ \E a \in Attempts : CheckoutCreate(b, a)
    \/ CheckoutPrefer(b)
    \/ CheckoutSaveUrl(b)
    \/ CheckoutCancel(b)
    \/ CheckoutUncertain(b)

ProviderStep ==
    \E p \in Payments :
        \/ \E status \in ProviderStatus :
              Settle(p, status) \/ \E a \in Attempts : Pay(p, a, status)
        \/ \E e \in Events : WebhookReceive(e, p)

(* What a poll does next when nothing fails.                                *)
PollStep(w) ==
    \/ \E p \in Payments : PollJob(w, p)
    \/ ClaimJob(w)
    \/ FetchPayment(w) \/ AnswerRefused(w)
    \/ FinishJob(w)
    \/ PollScan(w)
    \/ ScanNext(w)
    \/ FindPreference(w)
    \/ RestoreAttempt(w)
    \/ SearchPayments(w)
    \/ \E s \in Snapshots : ApplyRead(w, s) \/ ApplyMismatch(w, s)
    \/ ApplyEnd(w)
    \/ ApplyCommit(w)

Next ==
    \/ \E b \in Browsers : CheckoutStep(b) \/ CheckoutDies(b)
    \/ ProviderStep
    \/ \E p \in Payments : LeaseExpires(p)
    \/ \E w \in Pollers : PollStep(w) \/ PollStepFails(w) \/ PollDies(w)
    \/ \E o \in Orders : Conformity(o)
    \/ \E o \in Orders, action \in OperatorActions : OperatorTransition(o, action)

Spec == Init /\ [][Next]_vars

(* The runner polls on an interval, so a poll that can take a step does,    *)
(* and a job that keeps failing backs off for longer than the interval, so  *)
(* a poll that finds no job due comes again and again and scans.  Nothing   *)
(* makes a client pay, a webhook arrive or a lease expire.                  *)
FairSpec ==
    Spec /\ \A w \in Pollers : WF_vars(PollStep(w)) /\ SF_vars(PollScan(w))

-----------------------------------------------------------------------------
(* Properties.                                                              *)

TypeOK ==
    /\ order \in [Orders -> OrderRows]
    /\ transitions \subseteq TransitionRows
    /\ conformity \subseteq Orders
    /\ outbox \in [Orders -> [EventTypes -> Nat]]
    /\ attempt \in [Attempts -> AttemptRows \cup {None}]
    /\ receipts \subseteq Events
    /\ job \in [Payments -> JobStates \cup {None}]
    /\ \A p \in Payments : job[p] # None => payment[p] # None
    /\ browser \in [Browsers -> BrowserCalls]
    /\ poller \in [Pollers -> Polls]
    /\ preferences \in [Attempts -> 0..2]
    /\ payment \in [Payments -> ProviderPayments \cup {None}]
    /\ approvals \subseteq {p \in Payments : payment[p] # None}
    /\ failures \in 0..MaxFailures

(* The provider has approved a payment of what is owed through attempt a.   *)
PaidAtProvider(a) ==
    \E p \in approvals : payment[p].attempt = a /\ payment[p].amount = "owed"

(* While operators ask for nothing beyond their screen, an order gets past  *)
(* payment only if the provider approved a payment of one of its attempts:  *)
(* no stale answer, overtaken poll, repeated webhook or crash advances it.  *)
PaidOnlyWhenApproved ==
    \A o \in Orders : order[o].state # "PENDIENTE_PAGO" =>
        \E a \in AttemptsOf(o) : PaidAtProvider(a)

(* feat-007 AC-007-008: an attempt says APPROVED only if the provider        *)
(* approved a payment of what is owed, and then its order does not still    *)
(* wait for the payment: both change together or not at all.                *)
ApprovedAttemptIsSettled ==
    \A a \in Attempts :
        attempt[a] # None /\ attempt[a].state = "APPROVED" =>
            PaidAtProvider(a) /\ order[attempt[a].order].state # "PENDIENTE_PAGO"

(* However many checkouts, polls and late writes meet, an order has at most *)
(* one attempt the client could be charged through next, and its attempts   *)
(* are numbered without gap or repetition.                                  *)
OneActiveAttempt ==
    \A o \in Orders :
      /\ \A a, b \in AttemptsOf(o) : Active(a) /\ Active(b) => a = b
      /\ {attempt[a].sequence : a \in AttemptsOf(o)} = 1..Cardinality(AttemptsOf(o))

(* The client hears of the approval once and of the closing once, exactly   *)
(* when the provider's word or the client's conformity moved the order.     *)
Moves(o, action, actors) ==
    Cardinality({row \in transitions :
                   row.order = o /\ row.action = action /\ row.by \in actors})

NotifiedOncePerMove ==
    \A o \in Orders :
      /\ outbox[o]["payment.approved"] =
           Moves(o, "CONFIRM_PROVIDER_PAYMENT", {"VERIFIED_PROVIDER"})
      /\ outbox[o]["work_order.closed"] =
           Moves(o, "CONFIRM_CLIENT_CONFORMITY", {"CLIENT"})
      /\ \A action \in TransitionActions : Moves(o, action, Actors) <= 1

(* While operators ask for nothing beyond their screen, an order is closed  *)
(* exactly when the client's conformity is on record, and the client's move *)
(* is the one right after the confirmation of the payment.                  *)
ClosedByConformity ==
    \A o \in Orders :
      /\ order[o].state = "CERRADA" <=> o \in conformity
      /\ o \in conformity =>
           \E paid, closed \in transitions :
             /\ paid.order = o /\ closed.order = o
             /\ paid.action = "CONFIRM_PROVIDER_PAYMENT"
             /\ closed.action = "CONFIRM_CLIENT_CONFORMITY" /\ closed.by = "CLIENT"
             /\ closed.version = order[o].version
             /\ paid.version = closed.version - 1

(* feat-007 REQ-007-006: repeated, obsolete or late answers do not revert a *)
(* terminal state.  Of an answer that is applied this is true, however many *)
(* polls overlap: it moves its attempt along a row of PAYMENT_TRANSITIONS,  *)
(* UNKNOWN standing for CREATED.  (TerminalAttemptStays says the same of    *)
(* every write.)                                                            *)
AnswersFollowTheContract ==
    [][\A w \in Pollers : poller[w].pc = "commit" /\ poller'[w].pc = "apply" =>
         \A a \in Attempts : attempt'[a] # attempt[a] =>
            <<IF attempt[a].state = "UNKNOWN" THEN "CREATED" ELSE attempt[a].state,
              attempt'[a].state>> \in PaymentTransitions]_vars

(* Lost webhooks, overtaken polls, a bounded number of crashes and provider *)
(* failures, jobs of other attempts that never end well: an approval is in  *)
(* the end applied, unless the attempt is closed by then (a rejection got   *)
(* there first) or a payment made through the same attempt is refused or is *)
(* of another amount.  Such a payment makes every scan of the attempt throw *)
(* and the approval then hangs on its own webhook.                          *)
Obstructed(a) ==
    \E p \in Payments : payment[p] # None /\ payment[p].attempt = a
                         /\ (payment[p].status = "OTHER" \/ payment[p].amount # "owed")


(* feat-007 REQ-007-006: repeated, obsolete or late events do not revert a  *)
(* terminal state.  The two updates by id after a provider call do.         *)
TerminalAttemptStays ==
    [][\A a \in Attempts :
         attempt[a] # None /\ attempt[a].state \in TerminalStates =>
             attempt'[a].state = attempt[a].state]_vars

(* feat-007 acceptance AC-007-010: ADMIN and DISPATCHER neither approve     *)
(* payments nor conform.  OrdersService.transition lets them.               *)
OnlyPermittedActorsMove ==
    \A row \in transitions : CanActorApplyOrderTransition(row.by, row.action)

=============================================================================
