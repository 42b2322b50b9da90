----------------------------- MODULE PaymentsProofs -----------------------------
(* Theorems about Payments, for every value of its constants.               *)
EXTENDS Payments, FiniteSetTheorems, TLAPS

-----------------------------------------------------------------------------
(* Types.                                                                   *)

(* An order is charged, paid and closed at one version each.                *)
VersionsTellState ==
    \A o \in Orders :
      /\ order[o].state = "PENDIENTE_PAGO" => order[o].version = ChargedVersion
      /\ order[o].state = "PENDIENTE_CONFORMIDAD" => order[o].version = ChargedVersion + 1
      /\ order[o].state = "CERRADA" => order[o].version = ChargedVersion + 2

(* What a call or a poll works on is there.                                 *)
WritingSteps == {"prefer", "saveUrl", "cancel", "uncertain"}
CheckoutKnows(call) == call.pc \in WritingSteps => attempt[call.attempt] # None

PollKnows(poll) ==
    /\ poll.pc \in {"claim", "fetch", "done", "retry"} => poll.job \in Payments
    /\ poll.job \in Payments => payment[poll.job] # None
    /\ poll.pc \in {"find", "restore", "search"} =>
         poll.attempt \in Attempts /\ attempt[poll.attempt] # None
    /\ \A item \in poll.todo : attempt[item[1]] # None
    /\ poll.pc = "commit" =>
         /\ poll.current \in Snapshots /\ attempt[poll.current.attempt] # None
         /\ poll.read \in ActiveStates

CallsKnow ==
    /\ \A b \in Browsers : CheckoutKnows(browser[b])
    /\ \A w \in Pollers : PollKnows(poller[w])
    /\ \A p \in Payments : job[p] # None => payment[p] # None

AttemptsAreFinite == \A o \in Orders : IsFiniteSet(AttemptsOf(o))

TypeInv == TypeOK /\ VersionsTellState /\ CallsKnow /\ AttemptsAreFinite

(* Rows are never removed, and an attempt stays its order's.                *)
RowsStay ==
    /\ \A a \in Attempts : attempt[a] # None =>
         /\ attempt'[a] # None
         /\ attempt'[a].order = attempt[a].order
         /\ attempt'[a].sequence = attempt[a].sequence
    /\ \A p \in Payments : payment[p] # None => payment'[p] # None

LEMMA RowsStayKnown ==
    ASSUME TypeInv, RowsStay
    PROVE  /\ \A call \in BrowserCalls : CheckoutKnows(call) => CheckoutKnows(call)'
           /\ \A poll \in Polls : PollKnows(poll) => PollKnows(poll)'
           /\ \A o \in Orders : \A a \in AttemptsOf(o) : a \in AttemptsOf(o)'
<1>1. \A call \in BrowserCalls : CheckoutKnows(call) => CheckoutKnows(call)'
  <2>1. \A call \in BrowserCalls : call.pc \in WritingSteps => call.attempt \in Attempts
    BY DEF BrowserCalls, Idle, WritingSteps
  <2> QED BY <2>1 DEF CheckoutKnows, RowsStay
<1>2. \A poll \in Polls : PollKnows(poll) => PollKnows(poll)'
  <2>1. SUFFICES ASSUME NEW poll \in Polls, PollKnows(poll) PROVE PollKnows(poll)'
    OBVIOUS
  <2>2. /\ \A item \in poll.todo : item[1] \in Attempts
        /\ poll.current \in Snapshots => poll.current.attempt \in Attempts
    BY DEF Polls, Snapshots
  <2> QED BY <2>1, <2>2 DEF PollKnows, RowsStay
<1>3. \A o \in Orders : \A a \in AttemptsOf(o) : a \in AttemptsOf(o)'
  BY DEF AttemptsOf, RowsStay
<1> QED BY <1>1, <1>2, <1>3

(* An update by id of one attempt's state and URL.  It makes an attempt     *)
(* active only if it was, or if the index of active attempts lets it.       *)
Written(a, state, url) ==
    /\ attempt[a] # None
    /\ attempt' = [attempt EXCEPT ![a] = [attempt[a] EXCEPT !.state = state, !.url = url]]
    /\ state \in ActiveStates => Active(a) \/ NoOtherActive(attempt[a].order, a)

LEMMA AttemptWritten ==
    ASSUME TypeInv, NEW a \in Attempts, NEW url \in BOOLEAN,
           NEW state \in ActiveStates \cup TerminalStates,
           Written(a, state, url), UNCHANGED payment
    PROVE  /\ attempt' \in [Attempts -> AttemptRows \cup {None}]
           /\ RowsStay
           /\ \A o \in Orders : AttemptsOf(o)' = AttemptsOf(o)
           /\ attempt'[a].state = state
           /\ \A c \in Attempts \ {a} : attempt'[c] = attempt[c]
<1>1. attempt[a] \in AttemptRows
  BY DEF TypeInv, TypeOK, Written
<1>2. [attempt[a] EXCEPT !.state = state, !.url = url] \in AttemptRows
  BY <1>1 DEF AttemptRows
<1>3. /\ attempt' \in [Attempts -> AttemptRows \cup {None}]
      /\ \A c \in Attempts \ {a} : attempt'[c] = attempt[c]
      /\ attempt'[a].state = state /\ attempt'[a].order = attempt[a].order
      /\ attempt'[a].sequence = attempt[a].sequence
      /\ attempt'[a] # None
  BY <1>1, <1>2, NoRowAssumption DEF TypeInv, TypeOK, AttemptRows, Written
<1>4. \A o \in Orders : AttemptsOf(o)' = AttemptsOf(o)
  BY <1>3 DEF AttemptsOf, Written
<1> QED BY <1>3, <1>4 DEF RowsStay, Written

(* An update that sets the state alone, or the URL alone.                   *)
LEMMA OneFieldWritten ==
    ASSUME TypeInv, NEW a \in Attempts, attempt[a] # None
    PROVE  /\ attempt[a].state \in ActiveStates \cup TerminalStates
           /\ attempt[a].url \in BOOLEAN /\ attempt[a].order \in Orders
           /\ \A state \in ActiveStates \cup TerminalStates :
                [attempt[a] EXCEPT !.state = state]
                  = [attempt[a] EXCEPT !.state = state, !.url = attempt[a].url]
           /\ [attempt[a] EXCEPT !.url = TRUE]
                = [attempt[a] EXCEPT !.state = attempt[a].state, !.url = TRUE]
<1>1. attempt[a] \in AttemptRows
  BY DEF TypeInv, TypeOK
<1> QED BY <1>1 DEF AttemptRows

(* Calls and polls that stay know what they knew.                           *)
LEMMA CallsStillKnow ==
    ASSUME TypeInv, RowsStay,
           \A b \in Browsers : browser'[b] = browser[b] \/ CheckoutKnows(browser[b])',
           \A w \in Pollers : poller'[w] = poller[w] \/ PollKnows(poller[w])',
           \A p \in Payments : job'[p] # None => job[p] # None \/ payment'[p] # None
    PROVE  CallsKnow'
<1>1. \A b \in Browsers : CheckoutKnows(browser[b])'
  <2> SUFFICES ASSUME NEW b \in Browsers, browser'[b] = browser[b]
               PROVE  CheckoutKnows(browser[b])'
    OBVIOUS
  <2>1. PICK call \in BrowserCalls : call = browser[b] /\ CheckoutKnows(call)
    BY DEF TypeInv, TypeOK, CallsKnow
  <2>2. CheckoutKnows(call)'
    BY <2>1, RowsStayKnown
  <2> QED BY <2>1, <2>2 DEF CheckoutKnows
<1>2. \A w \in Pollers : PollKnows(poller[w])'
  <2> SUFFICES ASSUME NEW w \in Pollers, poller'[w] = poller[w]
               PROVE  PollKnows(poller[w])'
    OBVIOUS
  <2>1. PICK poll \in Polls : poll = poller[w] /\ PollKnows(poll)
    BY DEF TypeInv, TypeOK, CallsKnow
  <2>2. PollKnows(poll)'
    BY <2>1, RowsStayKnown
  <2> QED BY <2>1, <2>2 DEF PollKnows
<1>3. \A p \in Payments : job'[p] # None => payment'[p] # None
  BY DEF TypeInv, CallsKnow, RowsStay
<1> QED BY <1>1, <1>2, <1>3 DEF CallsKnow

(* One checkout moves on, and the orders, jobs and payments stay.           *)
LEMMA CheckoutMoves ==
    ASSUME TypeInv, NEW b \in Browsers, NEW next \in BrowserCalls, BrowserTo(b, next),
           attempt' \in [Attempts -> AttemptRows \cup {None}], RowsStay,
           CheckoutKnows(next)', AttemptsAreFinite',
           UNCHANGED <<orderVars, receipts, job, poller, payment, approvals>>,
           preferences' \in [Attempts -> 0..2], failures' \in 0..MaxFailures
    PROVE  TypeInv'
<1>1. TypeOK'
  BY DEF TypeInv, TypeOK, BrowserTo, orderVars
<1>2. VersionsTellState'
  BY DEF TypeInv, VersionsTellState, orderVars
<1>3. \A c \in Browsers : browser'[c] = browser[c] \/ CheckoutKnows(browser[c])'
  <2> SUFFICES ASSUME NEW c \in Browsers
               PROVE  browser'[c] = browser[c] \/ CheckoutKnows(browser[c])'
    OBVIOUS
  <2>1. browser'[c] = IF c = b THEN next ELSE browser[c]
    BY DEF BrowserTo, TypeInv, TypeOK
  <2> QED BY <2>1 DEF CheckoutKnows
<1>4. CallsKnow'
  BY <1>3, CallsStillKnow
<1> QED BY <1>1, <1>2, <1>4 DEF TypeInv

(* One poll moves on, and may write an attempt, an order or a known job.    *)
LEMMA PollMoves ==
    ASSUME TypeInv, NEW w \in Pollers, NEW next \in Polls, PollerTo(w, next),
           PollKnows(next)',
           attempt' \in [Attempts -> AttemptRows \cup {None}], RowsStay,
           AttemptsAreFinite', VersionsTellState',
           order' \in [Orders -> OrderRows], transitions' \subseteq TransitionRows,
           conformity' \subseteq Orders, outbox' \in [Orders -> [EventTypes -> Nat]],
           job' \in [Payments -> JobStates \cup {None}],
           \A p \in Payments : job'[p] # None => job[p] # None \/ payment[p] # None,
           ElsewhereUnchanged, failures' \in 0..MaxFailures
    PROVE  TypeInv'
<1>1. TypeOK'
  BY DEF TypeInv, TypeOK, PollerTo, ElsewhereUnchanged, providerVars
<1>2. \A v \in Pollers : poller'[v] = poller[v] \/ PollKnows(poller[v])'
  <2> SUFFICES ASSUME NEW v \in Pollers
               PROVE  poller'[v] = poller[v] \/ PollKnows(poller[v])'
    OBVIOUS
  <2>1. poller'[v] = IF v = w THEN next ELSE poller[v]
    BY DEF PollerTo, TypeInv, TypeOK
  <2> QED BY <2>1 DEF PollKnows
<1>3. CallsKnow'
  BY <1>2, CallsStillKnow DEF ElsewhereUnchanged, providerVars, RowsStay
<1> QED BY <1>1, <1>3 DEF TypeInv

(* Most steps of a poll write nothing but where it stands, or its job.      *)
LEMMA PollReads ==
    ASSUME TypeInv, NEW w \in Pollers, NEW next \in Polls, PollerTo(w, next),
           PollKnows(next), UNCHANGED <<orderVars, attempt>>, ElsewhereUnchanged,
           job' \in [Payments -> JobStates \cup {None}],
           \A p \in Payments : job'[p] # None => job[p] # None \/ payment[p] # None,
           failures' \in 0..MaxFailures
    PROVE  TypeInv'
<1>1. RowsStay
  BY DEF RowsStay, ElsewhereUnchanged, providerVars
<1>2. AttemptsAreFinite' /\ VersionsTellState'
  BY DEF TypeInv, AttemptsAreFinite, AttemptsOf, VersionsTellState, orderVars
<1>3. PollKnows(next)'
  BY <1>1, RowsStayKnown
<1> QED BY <1>1, <1>2, <1>3, PollMoves DEF TypeInv, TypeOK, orderVars

-----------------------------------------------------------------------------
(* Each action keeps the types.                                             *)

LEMMA CheckoutReadKeepsTypes ==
    ASSUME TypeInv, NEW b \in Browsers, NEW o \in Orders, CheckoutRead(b, o)
    PROVE  TypeInv'
<1>1. RowsStay /\ AttemptsAreFinite'
  BY DEF CheckoutRead, TypeInv, AttemptsAreFinite, AttemptsOf, RowsStay, providerVars
<1>2. Cardinality(AttemptsOf(o)) \in Nat
  BY FS_CardinalityType DEF TypeInv, AttemptsAreFinite
<1>3. PICK next \in BrowserCalls : BrowserTo(b, next) /\ CheckoutKnows(next)
  <2>1. CASE BrowserTo(b, [pc |-> "create", order |-> o,
                           sequence |-> Cardinality(AttemptsOf(o)) + 1])
    <3>1. [pc |-> "create", order |-> o, sequence |-> Cardinality(AttemptsOf(o)) + 1]
             \in BrowserCalls
      BY <1>2 DEF BrowserCalls
    <3> QED BY <2>1, <3>1 DEF CheckoutKnows, WritingSteps
  <2>2. ASSUME NEW a \in AttemptsOf(o), BrowserTo(b, [pc |-> "prefer", attempt |-> a])
        PROVE  \E next \in BrowserCalls : BrowserTo(b, next) /\ CheckoutKnows(next)
    <3>1. [pc |-> "prefer", attempt |-> a] \in BrowserCalls /\ attempt[a] # None
      BY DEF BrowserCalls, AttemptsOf
    <3> QED BY <2>2, <3>1 DEF CheckoutKnows
  <2> QED BY <2>1, <2>2 DEF CheckoutRead
<1>4. CheckoutKnows(next)'
  BY <1>1, <1>3, RowsStayKnown
<1> QED BY <1>1, <1>3, <1>4, CheckoutMoves DEF CheckoutRead, TypeInv, TypeOK, providerVars

LEMMA CheckoutCreateKeepsTypes ==
    ASSUME TypeInv, NEW b \in Browsers, NEW a \in Attempts, CheckoutCreate(b, a)
    PROVE  TypeInv'
<1>1. browser[b].order \in Orders /\ browser[b].sequence \in Nat
  <2>1. browser[b] \in BrowserCalls /\ browser[b].pc = "create"
    BY DEF CheckoutCreate, TypeInv, TypeOK
  <2> QED BY <2>1 DEF BrowserCalls, Idle
<1>2. CASE BrowserTo(b, Idle) /\ UNCHANGED attempt
  <2>1. RowsStay /\ AttemptsAreFinite'
    BY <1>2 DEF CheckoutCreate, TypeInv, AttemptsAreFinite, AttemptsOf, RowsStay,
                providerVars
  <2>2. Idle \in BrowserCalls /\ CheckoutKnows(Idle)'
    BY DEF Idle, BrowserCalls, CheckoutKnows, WritingSteps
  <2> QED BY <1>2, <2>1, <2>2, CheckoutMoves
          DEF CheckoutCreate, TypeInv, TypeOK, providerVars
<1>3. ASSUME NEW row, row = [order |-> browser[b].order, sequence |-> browser[b].sequence,
                             state |-> "CREATED", url |-> FALSE],
             attempt' = [attempt EXCEPT ![a] = row],
             BrowserTo(b, [pc |-> "prefer", attempt |-> a])
      PROVE  TypeInv'
  <2>1. row \in AttemptRows /\ row # None
    <3>1. row \in AttemptRows
      BY <1>1, <1>3 DEF AttemptRows, ActiveStates
    <3> QED BY <3>1, NoRowAssumption
  <2>2. /\ attempt' \in [Attempts -> AttemptRows \cup {None}]
        /\ attempt'[a] = row /\ \A c \in Attempts \ {a} : attempt'[c] = attempt[c]
    BY <1>3, <2>1 DEF TypeInv, TypeOK
  <2>3. attempt[a] = None
    BY DEF CheckoutCreate
  <2>4. RowsStay
    BY <2>2, <2>3 DEF RowsStay, CheckoutCreate, providerVars
  <2>5. AttemptsAreFinite'
    <3> SUFFICES ASSUME NEW o \in Orders PROVE IsFiniteSet(AttemptsOf(o)')
      BY DEF AttemptsAreFinite
    <3>1. AttemptsOf(o)' = AttemptsOf(o) \/ AttemptsOf(o)' = AttemptsOf(o) \cup {a}
      BY <2>1, <2>2, <2>3 DEF AttemptsOf
    <3> QED BY <3>1, FS_AddElement DEF TypeInv, AttemptsAreFinite
  <2>6. [pc |-> "prefer", attempt |-> a] \in BrowserCalls
    BY DEF BrowserCalls
  <2>7. CheckoutKnows([pc |-> "prefer", attempt |-> a])'
    BY <2>1, <2>2 DEF CheckoutKnows
  <2> QED BY <1>3, <2>2, <2>4, <2>5, <2>6, <2>7, CheckoutMoves
          DEF CheckoutCreate, TypeInv, TypeOK, providerVars
<1> QED BY <1>2, <1>3 DEF CheckoutCreate

(* A checkout that writes by id works on an attempt that is there.          *)
LEMMA WritingCheckout ==
    ASSUME TypeInv, NEW b \in Browsers, browser[b].pc \in WritingSteps
    PROVE  /\ browser[b].attempt \in Attempts /\ attempt[browser[b].attempt] \in AttemptRows
           /\ \A pc \in WritingSteps : [browser[b] EXCEPT !.pc = pc] \in BrowserCalls
<1>1. browser[b] \in [pc : WritingSteps, attempt : Attempts]
  BY DEF TypeInv, TypeOK, BrowserCalls, Idle, WritingSteps
<1>2. attempt[browser[b].attempt] # None
  BY DEF TypeInv, CallsKnow, CheckoutKnows
<1> QED BY <1>1, <1>2 DEF TypeInv, TypeOK, BrowserCalls, WritingSteps

LEMMA CheckoutPreferKeepsTypes ==
    ASSUME TypeInv, NEW b \in Browsers, CheckoutPrefer(b)
    PROVE  TypeInv'
<1>1. browser[b].pc \in WritingSteps
  BY DEF CheckoutPrefer, WritingSteps
<1>2. RowsStay /\ AttemptsAreFinite'
  BY DEF CheckoutPrefer, TypeInv, AttemptsAreFinite, AttemptsOf, RowsStay
<1>3. preferences' \in [Attempts -> 0..2]
  BY DEF CheckoutPrefer, TypeInv, TypeOK
<1>4. failures' \in 0..MaxFailures
  BY MaxFailuresAssumption DEF CheckoutPrefer, CountFailure, TypeInv, TypeOK
<1>5. PICK next \in BrowserCalls : BrowserTo(b, next) /\ CheckoutKnows(next)
  <2>1. PICK pc \in WritingSteps : BrowserTo(b, [browser[b] EXCEPT !.pc = pc])
    BY DEF CheckoutPrefer, WritingSteps
  <2>2. [browser[b] EXCEPT !.pc = pc] \in BrowserCalls
    BY <1>1, <2>1, WritingCheckout
  <2>3. CheckoutKnows([browser[b] EXCEPT !.pc = pc])
    BY <1>1, WritingCheckout, NoRowAssumption DEF CheckoutKnows
  <2> QED BY <2>1, <2>2, <2>3
<1>6. CheckoutKnows(next)'
  BY <1>2, <1>5, RowsStayKnown
<1> QED BY <1>2, <1>3, <1>4, <1>5, <1>6, CheckoutMoves
        DEF CheckoutPrefer, TypeInv, TypeOK

(* The three writes by id after the provider's answer.                      *)
LEMMA CheckoutWrites ==
    ASSUME TypeInv, NEW b \in Browsers,
           CheckoutSaveUrl(b) \/ CheckoutCancel(b) \/ CheckoutUncertain(b)
    PROVE  \/ UNCHANGED attempt
           \/ \E a \in Attempts, url \in BOOLEAN :
                \E state \in {attempt[a].state, "CANCELLED", "UNKNOWN"} :
                  Written(a, state, url)
<1> DEFINE a == browser[b].attempt
<1>1. a \in Attempts /\ attempt[a] # None
  BY WritingCheckout, NoRowAssumption
     DEF CheckoutSaveUrl, CheckoutCancel, CheckoutUncertain, WritingSteps
<1>2. /\ attempt[a].state \in ActiveStates \cup TerminalStates /\ attempt[a].url \in BOOLEAN
      /\ \A state \in {"CANCELLED", "UNKNOWN"} : [attempt[a] EXCEPT !.state = state]
           = [attempt[a] EXCEPT !.state = state, !.url = attempt[a].url]
      /\ [attempt[a] EXCEPT !.url = TRUE]
           = [attempt[a] EXCEPT !.state = attempt[a].state, !.url = TRUE]
  BY <1>1, OneFieldWritten DEF ActiveStates, TerminalStates
<1>3. CASE CheckoutSaveUrl(b)
  <2>1. Written(a, attempt[a].state, TRUE)
    BY <1>1, <1>2, <1>3 DEF CheckoutSaveUrl, Written, Active
  <2> QED BY <1>1, <2>1
<1>4. CASE CheckoutCancel(b)
  <2>1. Written(a, "CANCELLED", attempt[a].url)
    BY <1>1, <1>2, <1>4 DEF CheckoutCancel, Written, ActiveStates
  <2> QED BY <1>1, <1>2, <2>1
<1>5. CASE CheckoutUncertain(b) /\ ~UNCHANGED attempt
  <2>1. Written(a, "UNKNOWN", attempt[a].url)
    BY <1>1, <1>2, <1>5 DEF CheckoutUncertain, Written
  <2> QED BY <1>1, <1>2, <2>1
<1> QED BY <1>3, <1>4, <1>5

LEMMA CheckoutWriteKeepsTypes ==
    ASSUME TypeInv, NEW b \in Browsers,
           CheckoutSaveUrl(b) \/ CheckoutCancel(b) \/ CheckoutUncertain(b)
    PROVE  TypeInv'
<1>1. /\ BrowserTo(b, Idle)
      /\ UNCHANGED <<orderVars, receipts, job, poller, providerVars, failures>>
  BY DEF CheckoutSaveUrl, CheckoutCancel, CheckoutUncertain
<1>2. /\ attempt' \in [Attempts -> AttemptRows \cup {None}]
      /\ RowsStay
      /\ \A o \in Orders : AttemptsOf(o)' = AttemptsOf(o)
  <2>1. CASE UNCHANGED attempt
    BY <2>1, <1>1 DEF TypeInv, TypeOK, RowsStay, AttemptsOf, providerVars
  <2>2. ASSUME NEW a \in Attempts, NEW url \in BOOLEAN,
               NEW state \in {attempt[a].state, "CANCELLED", "UNKNOWN"},
               Written(a, state, url)
        PROVE  <1>2!:
    <3>1. state \in ActiveStates \cup TerminalStates
      BY <2>2, OneFieldWritten DEF Written, ActiveStates, TerminalStates
    <3>2. UNCHANGED payment
      BY <1>1 DEF providerVars
    <3> QED BY <2>2, <3>1, <3>2, AttemptWritten
  <2> QED BY <2>1, <2>2, CheckoutWrites
<1>3. AttemptsAreFinite'
  BY <1>2 DEF TypeInv, AttemptsAreFinite
<1>4. Idle \in BrowserCalls /\ CheckoutKnows(Idle)'
  BY DEF Idle, BrowserCalls, CheckoutKnows, WritingSteps
<1> QED BY <1>1, <1>2, <1>3, <1>4, CheckoutMoves DEF TypeInv, TypeOK, providerVars

LEMMA CheckoutDiesKeepsTypes ==
    ASSUME TypeInv, NEW b \in Browsers, CheckoutDies(b)
    PROVE  TypeInv'
<1>1. RowsStay /\ AttemptsAreFinite'
  BY DEF CheckoutDies, TypeInv, AttemptsAreFinite, AttemptsOf, RowsStay, providerVars
<1>2. Idle \in BrowserCalls /\ CheckoutKnows(Idle)'
  BY DEF Idle, BrowserCalls, CheckoutKnows, WritingSteps
<1>3. failures' \in 0..MaxFailures
  BY MaxFailuresAssumption DEF CheckoutDies, CountFailure, TypeInv, TypeOK
<1> QED BY <1>1, <1>2, <1>3, CheckoutMoves DEF CheckoutDies, TypeInv, TypeOK, providerVars

(* The provider's steps, the webhook and the lease.                         *)
LEMMA OutsideKeepsTypes ==
    ASSUME TypeInv, ProviderStep \/ \E p \in Payments : LeaseExpires(p)
    PROVE  TypeInv'
<1>1. /\ UNCHANGED <<orderVars, attempt, browser, poller, preferences, failures>>
      /\ \A p \in Payments : payment[p] # None => payment'[p] # None
      /\ payment' \in [Payments -> ProviderPayments \cup {None}]
      /\ approvals' \subseteq {p \in Payments : payment'[p] # None}
      /\ receipts' \subseteq Events
      /\ job' \in [Payments -> JobStates \cup {None}]
      /\ \A p \in Payments : job'[p] # None => payment'[p] # None
  <2>1. ASSUME NEW p \in Payments, NEW row \in ProviderPayments, PaymentBecomes(p, row)
        PROVE  <1>1!:
    <3>1. /\ payment' \in [Payments -> ProviderPayments \cup {None}]
          /\ payment'[p] # None /\ \A q \in Payments \ {p} : payment'[q] = payment[q]
      BY <2>1, NoRowAssumption DEF PaymentBecomes, TypeInv, TypeOK
    <3> QED BY <2>1, <3>1 DEF PaymentBecomes, TypeInv, TypeOK
  <2>2. ASSUME NEW p \in Payments, NEW a \in Attempts, NEW status \in ProviderStatus,
               Pay(p, a, status)
        PROVE  <1>1!:
    <3>1. PICK amount \in Amounts :
            PaymentBecomes(p, [attempt |-> a, status |-> status, amount |-> amount])
      BY <2>2 DEF Pay
    <3>2. [attempt |-> a, status |-> status, amount |-> amount] \in ProviderPayments
      BY DEF ProviderPayments
    <3> QED BY <2>1, <3>1, <3>2
  <2>3. ASSUME NEW p \in Payments, NEW status \in ProviderStatus, Settle(p, status)
        PROVE  <1>1!:
    <3>1. [payment[p] EXCEPT !.status = status] \in ProviderPayments
      BY <2>3 DEF Settle, ProviderPayments, TypeInv, TypeOK
    <3> QED BY <2>1, <2>3, <3>1 DEF Settle
  <2>4. ASSUME NEW e \in Events, NEW p \in Payments, WebhookReceive(e, p)
        PROVE  <1>1!:
    BY <2>4 DEF WebhookReceive, JobStates, TypeInv, TypeOK, providerVars
  <2>5. ASSUME NEW p \in Payments, LeaseExpires(p)
        PROVE  <1>1!:
    BY <2>5, NoRowAssumption
       DEF LeaseExpires, JobStates, TypeInv, TypeOK, providerVars, ElsewhereUnchanged
  <2> QED BY <2>2, <2>3, <2>4, <2>5 DEF ProviderStep
<1>2. RowsStay
  BY <1>1 DEF RowsStay
<1>3. CallsKnow'
  BY <1>1, <1>2, CallsStillKnow
<1>4. TypeOK'
  BY <1>1 DEF TypeInv, TypeOK, orderVars
<1>5. VersionsTellState' /\ AttemptsAreFinite'
  BY <1>1 DEF TypeInv, VersionsTellState, AttemptsAreFinite, AttemptsOf, orderVars
<1> QED BY <1>3, <1>4, <1>5 DEF TypeInv

(* What a poll finds in its record.                                         *)
LEMMA PollRecord ==
    ASSUME TypeInv, NEW w \in Pollers
    PROVE  /\ poller[w] \in Polls /\ PollKnows(poller[w])
           /\ \A p \in Payments : job[p] # None => payment[p] # None
<1>1. /\ poller[w] \in Polls /\ PollKnows(poller[w])
      /\ \A p \in Payments : job[p] # None => payment[p] # None
  BY DEF TypeInv, TypeOK, CallsKnow
<1> QED BY <1>1

(* A payment that is not refused has an answer an attempt can take.         *)
LEMMA SnapshotTypes ==
    ASSUME TypeInv, NEW p \in Payments, payment[p] # None, ~Refused(p)
    PROVE  Snapshot(p) \in Snapshots
<1>1. payment[p] \in ProviderPayments
  BY DEF TypeInv, TypeOK
<1>2. Mapped(payment[p].status) \in ContractPaymentStates \ {"CREATED"}
  BY <1>1, ProviderStatusAssumption
     DEF ProviderPayments, Refused, Mapped, ContractPaymentStates
<1> QED BY <1>1, <1>2 DEF Snapshot, Snapshots, ProviderPayments

(* A poll asks about payments there are, and takes answers it can apply.    *)
LEMMA AskedIsKnown ==
    ASSUME TypeInv, NEW w \in Pollers
    PROVE  \A p \in Asked(w) : p \in Payments /\ payment[p] # None
<1>1. poller[w] \in Polls /\ PollKnows(poller[w])
  BY PollRecord
<1> QED BY <1>1 DEF Asked, Polls, PollKnows

LEMMA AnswerTakenKeepsTypes ==
    ASSUME TypeInv, NEW w \in Pollers, AnswerTaken(w)
    PROVE  TypeInv'
<1> DEFINE answers == {Snapshot(p) : p \in Asked(w)}
           next == [poller[w] EXCEPT !.pc = "apply", !.found = answers]
<1>1. poller[w] \in Polls /\ PollKnows(poller[w])
  BY PollRecord
<1>2. answers \subseteq Snapshots
  BY AskedIsKnown, SnapshotTypes DEF AnswerTaken
<1>3. PollerTo(w, next) /\ OnlyPollerMoves
  BY DEF AnswerTaken
<1> HIDE DEF answers
<1>4. next \in Polls /\ PollKnows(next)
  BY <1>1, <1>2 DEF Polls, PollerSteps, PollKnows
<1> HIDE DEF next
<1> QED BY <1>3, <1>4, PollReads DEF OnlyPollerMoves, TypeInv, TypeOK

LEMMA PollGivesUp ==
    ASSUME TypeInv, NEW w \in Pollers, GiveUp(w), failures' \in 0..MaxFailures
    PROVE  TypeInv'
<1>1. poller[w] \in Polls /\ PollKnows(poller[w])
  BY PollRecord
<1>2. PICK next \in Polls : PollerTo(w, next) /\ PollKnows(next)
  <2>1. CASE poller[w].job = None
    <3>1. NextAttempt(w) \in Polls /\ PollKnows(NextAttempt(w))
      BY <1>1, <2>1, NoneAssumption DEF NextAttempt, Polls, PollerSteps, PollKnows
    <3> QED BY <2>1, <3>1 DEF GiveUp
  <2>2. CASE poller[w].job # None
    <3> DEFINE next == [Resting EXCEPT !.pc = "retry", !.job = poller[w].job]
    <3>1. poller[w].job \in Payments /\ payment[poller[w].job] # None
      BY <1>1, <2>2 DEF Polls, PollKnows
    <3>2. next \in Polls /\ PollKnows(next)
      BY <3>1 DEF Resting, Polls, PollerSteps, PollKnows
    <3> QED BY <2>2, <3>2 DEF GiveUp
  <2> QED BY <2>1, <2>2
<1> QED BY <1>2, PollReads DEF GiveUp, TypeInv, TypeOK

LEMMA JobStepsKeepTypes ==
    ASSUME TypeInv, NEW w \in Pollers,
           \/ \E p \in Payments : PollJob(w, p)
           \/ ClaimJob(w) \/ FetchPayment(w) \/ FinishJob(w)
    PROVE  TypeInv'
<1>1. /\ poller[w] \in Polls /\ PollKnows(poller[w])
      /\ \A p \in Payments : job[p] # None => payment[p] # None
  BY PollRecord
<1>2. Resting \in Polls /\ PollKnows(Resting)
  BY NoneAssumption DEF Resting, Polls, PollerSteps, PollKnows
<1>3. ASSUME NEW p \in Payments, PollJob(w, p) PROVE TypeInv'
  <2> DEFINE next == [Resting EXCEPT !.pc = "claim", !.job = p]
  <2>1. payment[p] # None
    BY <1>1, <1>3, NoRowAssumption DEF PollJob, JobStates
  <2>2. next \in Polls /\ PollKnows(next)
    BY <2>1 DEF Resting, Polls, PollerSteps, PollKnows
  <2>3. PollerTo(w, next) /\ OnlyPollerMoves
    BY <1>3 DEF PollJob
  <2> HIDE DEF next
  <2> QED BY <2>2, <2>3, PollReads DEF OnlyPollerMoves, TypeInv, TypeOK
<1>4. CASE ClaimJob(w)
  <2> DEFINE next == [poller[w] EXCEPT !.pc = "fetch"]
  <2>1. poller[w].job \in Payments
    BY <1>1, <1>4 DEF ClaimJob, PollKnows
  <2>2. next \in Polls /\ PollKnows(next)
    BY <1>1, <2>1 DEF Polls, PollerSteps, PollKnows
  <2>3. PollerTo(w, next) \/ PollerTo(w, Resting)
    BY <1>4 DEF ClaimJob
  <2>4. /\ job' \in [Payments -> JobStates \cup {None}]
        /\ \A p \in Payments : job'[p] # None => job[p] # None \/ payment[p] # None
    BY <1>1, <1>4, <2>1, NoRowAssumption DEF ClaimJob, JobStates, TypeInv, TypeOK, PollKnows
  <2> HIDE DEF next
  <2> QED BY <1>2, <1>4, <2>2, <2>3, <2>4, PollReads DEF ClaimJob, TypeInv, TypeOK
<1>5. CASE FetchPayment(w)
  BY <1>5, AnswerTakenKeepsTypes DEF FetchPayment
<1>6. CASE FinishJob(w)
  <2>1. poller[w].job \in Payments /\ payment[poller[w].job] # None
    BY <1>1, <1>6 DEF FinishJob, PollKnows
  <2>2. /\ job' \in [Payments -> JobStates \cup {None}]
        /\ \A p \in Payments : job'[p] # None => job[p] # None \/ payment[p] # None
    BY <1>6, <2>1 DEF FinishJob, JobStates, TypeInv, TypeOK
  <2> QED BY <1>2, <1>6, <2>2, PollReads DEF FinishJob, TypeInv, TypeOK
<1> QED BY <1>3, <1>4, <1>5, <1>6

LEMMA ScanStepsKeepTypes ==
    ASSUME TypeInv, NEW w \in Pollers,
           PollScan(w) \/ ScanNext(w) \/ FindPreference(w)
    PROVE  TypeInv'
<1>1. poller[w] \in Polls /\ PollKnows(poller[w])
  BY PollRecord
<1>2. OnlyPollerMoves
  BY DEF PollScan, ScanNext, FindPreference
<1>3. PICK next \in Polls : PollerTo(w, next) /\ PollKnows(next)
  <2>1. CASE PollScan(w)
    <3> DEFINE read == {<<a, attempt[a].state>> : a \in OpenAttempts}
               next == [Resting EXCEPT !.pc = "scan", !.todo = read]
    <3>1. read \subseteq Attempts \X ActiveStates /\ \A item \in read : attempt[item[1]] # None
      BY DEF OpenAttempts, Active
    <3> HIDE DEF read
    <3>2. next \in Polls /\ PollKnows(next)
      BY <3>1, NoneAssumption DEF Resting, Polls, PollerSteps, PollKnows
    <3> QED BY <2>1, <3>2 DEF PollScan, read
  <2>2. CASE ScanNext(w)
    <3>1. CASE PollerTo(w, Resting)
      BY <3>1, NoneAssumption DEF Resting, Polls, PollerSteps, PollKnows
    <3>2. ASSUME NEW item \in poller[w].todo, NEW pc \in {"find", "search"},
                 PollerTo(w, [poller[w] EXCEPT !.todo = @ \ {item}, !.attempt = item[1],
                                               !.pc = pc])
          PROVE  \E next \in Polls : PollerTo(w, next) /\ PollKnows(next)
      <4> DEFINE next == [poller[w] EXCEPT !.todo = @ \ {item}, !.attempt = item[1],
                                           !.pc = pc]
      <4>1. item[1] \in Attempts /\ attempt[item[1]] # None
        BY <1>1, <3>2 DEF Polls, PollKnows
      <4>2. next \in Polls
        BY <1>1, <3>2, <4>1 DEF Polls, PollerSteps
      <4>3. PollKnows(next)
        BY <1>1, <3>2, <4>1 DEF Polls, PollKnows
      <4> QED BY <3>2, <4>2, <4>3
    <3> QED BY <2>2, <3>1, <3>2 DEF ScanNext
  <2>3. CASE FindPreference(w)
    <3>1. ASSUME NEW pc \in {"restore", "search"}
          PROVE  [poller[w] EXCEPT !.pc = pc] \in Polls
                 /\ PollKnows([poller[w] EXCEPT !.pc = pc])
      BY <1>1, <2>3 DEF FindPreference, Polls, PollerSteps, PollKnows
    <3> QED BY <2>3, <3>1 DEF FindPreference
  <2> QED BY <2>1, <2>2, <2>3
<1> QED BY <1>2, <1>3, PollReads DEF OnlyPollerMoves, TypeInv, TypeOK

LEMMA ApplyStepsKeepTypes ==
    ASSUME TypeInv, NEW w \in Pollers,
           (\E s \in Snapshots : ApplyRead(w, s)) \/ ApplyEnd(w)
    PROVE  TypeInv'
<1>1. poller[w] \in Polls /\ PollKnows(poller[w])
  BY PollRecord
<1>2. PICK next \in Polls : PollerTo(w, next) /\ PollKnows(next)
  <2>1. ASSUME NEW s \in Snapshots, ApplyRead(w, s), Active(s.attempt)
        PROVE  \E next \in Polls : PollerTo(w, next) /\ PollKnows(next)
    <3> DEFINE next == [poller[w] EXCEPT !.pc = "commit", !.found = @ \ {s},
                              !.current = s, !.read = attempt[s.attempt].state]
    <3>1. attempt[s.attempt] # None /\ attempt[s.attempt].state \in ActiveStates
      BY <2>1 DEF Active
    <3>2. next \in Polls
      BY <1>1, <3>1 DEF Polls, PollerSteps
    <3>3. PollKnows(next)
      BY <1>1, <3>1 DEF Polls, PollKnows
    <3> QED BY <2>1, <3>2, <3>3 DEF ApplyRead
  <2>2. ASSUME NEW s \in Snapshots, ApplyRead(w, s), ~Active(s.attempt)
        PROVE  \E next \in Polls : PollerTo(w, next) /\ PollKnows(next)
    <3>1. /\ [poller[w] EXCEPT !.found = @ \ {s}] \in Polls
          /\ PollKnows([poller[w] EXCEPT !.found = @ \ {s}])
      BY <1>1 DEF Polls, PollKnows
    <3> QED BY <2>2, <3>1 DEF ApplyRead
  <2>3. CASE ApplyEnd(w)
    <3>1. CASE poller[w].job = None
      <4>1. NextAttempt(w) \in Polls /\ PollKnows(NextAttempt(w))
        BY <1>1, <3>1, NoneAssumption DEF NextAttempt, Polls, PollerSteps, PollKnows
      <4> QED BY <2>3, <3>1, <4>1 DEF ApplyEnd
    <3>2. CASE poller[w].job # None
      <4>1. /\ [poller[w] EXCEPT !.pc = "done"] \in Polls
            /\ PollKnows([poller[w] EXCEPT !.pc = "done"])
        BY <1>1, <3>2 DEF Polls, PollerSteps, PollKnows
      <4> QED BY <2>3, <3>2, <4>1 DEF ApplyEnd
    <3> QED BY <3>1, <3>2
  <2> QED BY <2>1, <2>2, <2>3
<1>3. OnlyPollerMoves
  BY DEF ApplyRead, ApplyEnd
<1> QED BY <1>2, <1>3, PollReads DEF OnlyPollerMoves, TypeInv, TypeOK

LEMMA RestoreWrites ==
    ASSUME TypeInv, NEW w \in Pollers, RestoreAttempt(w)
    PROVE  UNCHANGED attempt \/ \E a \in Attempts : Written(a, "CREATED", TRUE)
<1> DEFINE a == poller[w].attempt
<1>1. a \in Attempts /\ attempt[a] # None
  BY PollRecord DEF RestoreAttempt, PollKnows
<1>2. CASE ~UNCHANGED attempt
  <2>1. Written(a, "CREATED", TRUE)
    BY <1>1, <1>2 DEF RestoreAttempt, Written, TypeInv, TypeOK
  <2> QED BY <1>1, <2>1
<1> QED BY <1>2

LEMMA RestoreKeepsTypes ==
    ASSUME TypeInv, NEW w \in Pollers, RestoreAttempt(w)
    PROVE  TypeInv'
<1> DEFINE a == poller[w].attempt
<1>1. poller[w] \in Polls /\ PollKnows(poller[w])
  BY PollRecord
<1>2. a \in Attempts /\ attempt[a] # None
  BY <1>1 DEF RestoreAttempt, PollKnows
<1>3. PICK next \in Polls : PollerTo(w, next) /\ PollKnows(next)
  <2>1. CASE PollerTo(w, [poller[w] EXCEPT !.pc = "search"])
    <3>1. [poller[w] EXCEPT !.pc = "search"] \in Polls
          /\ PollKnows([poller[w] EXCEPT !.pc = "search"])
      BY <1>1, <1>2 DEF Polls, PollerSteps, PollKnows
    <3> QED BY <2>1, <3>1
  <2>2. CASE PollerTo(w, NextAttempt(w))
    <3>1. NextAttempt(w) \in Polls /\ PollKnows(NextAttempt(w))
      BY <1>1, NoneAssumption DEF NextAttempt, Polls, PollerSteps, PollKnows
    <3> QED BY <2>2, <3>1
  <2> QED BY <2>1, <2>2 DEF RestoreAttempt
<1>4. /\ attempt' \in [Attempts -> AttemptRows \cup {None}]
      /\ RowsStay
      /\ \A o \in Orders : AttemptsOf(o)' = AttemptsOf(o)
  <2>1. CASE UNCHANGED attempt
    BY <2>1 DEF RestoreAttempt, ElsewhereUnchanged, TypeInv, TypeOK, RowsStay,
                AttemptsOf, providerVars
  <2>2. ASSUME NEW c \in Attempts, Written(c, "CREATED", TRUE)
        PROVE  <1>4!:
    <3>1. UNCHANGED payment
      BY DEF RestoreAttempt, ElsewhereUnchanged, providerVars
    <3>2. "CREATED" \in ActiveStates \cup TerminalStates
      BY DEF ActiveStates
    <3> QED BY <2>2, <3>1, <3>2, AttemptWritten
  <2> QED BY <2>1, <2>2, RestoreWrites
<1>5. AttemptsAreFinite'
  BY <1>4 DEF TypeInv, AttemptsAreFinite
<1>6. PollKnows(next)'
  BY <1>3, <1>4, RowsStayKnown
<1>7. UNCHANGED <<orderVars, job, failures>> /\ ElsewhereUnchanged
  BY DEF RestoreAttempt
<1>8. VersionsTellState'
  BY <1>7 DEF TypeInv, VersionsTellState, orderVars
<1> QED BY <1>3, <1>4, <1>5, <1>6, <1>7, <1>8, PollMoves DEF TypeInv, TypeOK, orderVars

(* An order moves along a row of the table.                                 *)
LEMMA OrderMoves ==
    ASSUME TypeInv, NEW o \in Orders, NEW action \in TransitionActions,
           NEW to \in ChargedStates, NEW actor \in Actors,
           Transition(action, order[o].state, to) \in OrderTransitions,
           MoveOrder(o, action, to, actor)
    PROVE  /\ order' \in [Orders -> OrderRows] /\ transitions' \subseteq TransitionRows
           /\ VersionsTellState'
<1>1. order[o] \in OrderRows
  BY DEF TypeInv, TypeOK
<1>2. /\ order[o].state = "PENDIENTE_PAGO" /\ to = "PENDIENTE_CONFORMIDAD"
         /\ order[o].version = ChargedVersion
      \/ /\ order[o].state = "PENDIENTE_CONFORMIDAD" /\ to = "CERRADA"
         /\ order[o].version = ChargedVersion + 1
  BY <1>1 DEF OrderRows, ChargedStates, OrderTransitions, Transition, TypeInv,
              VersionsTellState
<1>3. [state |-> to, version |-> order[o].version + 1] \in OrderRows
  BY <1>2 DEF OrderRows, ChargedStates, ChargedVersion
<1>4. \A p \in Orders : order'[p] = IF p = o
                          THEN [state |-> to, version |-> order[o].version + 1]
                          ELSE order[p]
  BY DEF MoveOrder, TypeInv, TypeOK
<1>5. order' \in [Orders -> OrderRows]
  BY <1>3 DEF MoveOrder, TypeInv, TypeOK
<1>6. transitions' \subseteq TransitionRows
  <2>1. order[o].version + 1 \in Nat
    BY <1>2 DEF ChargedVersion
  <2>2. [order |-> o, version |-> order[o].version + 1, action |-> action, by |-> actor]
           \in TransitionRows
    BY <2>1 DEF TransitionRows
  <2> QED BY <2>2 DEF MoveOrder, TypeInv, TypeOK
<1>7. VersionsTellState'
  BY <1>2, <1>4 DEF TypeInv, VersionsTellState, ChargedVersion
<1> QED BY <1>5, <1>6, <1>7

LEMMA Emits ==
    ASSUME TypeInv, NEW o \in Orders, NEW event \in EventTypes, Emit(o, event)
    PROVE  outbox' \in [Orders -> [EventTypes -> Nat]]
<1>1. [outbox[o] EXCEPT ![event] = @ + 1] \in [EventTypes -> Nat]
  BY DEF TypeInv, TypeOK
<1> QED BY <1>1 DEF Emit, TypeInv, TypeOK

LEMMA CommitWrites ==
    ASSUME TypeInv, NEW w \in Pollers, ApplyCommit(w)
    PROVE  LET s == poller[w].current
           IN  /\ s \in Snapshots /\ attempt[s.attempt] # None
               /\ s.status \in (ActiveStates \ {"CREATED", "UNKNOWN"}) \cup TerminalStates
               /\ \/ UNCHANGED attempt
                  \/ /\ StillAsRead(w) /\ Active(s.attempt)
                     /\ Written(s.attempt, s.status, attempt[s.attempt].url)
<1> DEFINE s == poller[w].current
<1>1. /\ s \in Snapshots /\ s.attempt \in Attempts /\ attempt[s.attempt] # None
      /\ poller[w].read \in ActiveStates
  BY PollRecord DEF ApplyCommit, PollKnows, Snapshots
<1>2. s.status \in (ActiveStates \ {"CREATED", "UNKNOWN"}) \cup TerminalStates
  BY <1>1 DEF Snapshots, ContractPaymentStates, ActiveStates, TerminalStates
<1>3. CASE ~UNCHANGED attempt
  <2>1. [attempt[s.attempt] EXCEPT !.state = s.status]
          = [attempt[s.attempt] EXCEPT !.state = s.status, !.url = attempt[s.attempt].url]
    BY <1>1, <1>2, OneFieldWritten
  <2>2. StillAsRead(w) /\ attempt' = [attempt EXCEPT ![s.attempt] =
                                        [attempt[s.attempt] EXCEPT !.state = s.status]]
    BY <1>3 DEF ApplyCommit
  <2>3. Active(s.attempt)
    BY <1>1, <2>2 DEF StillAsRead, Active
  <2> QED BY <1>1, <1>2, <2>1, <2>2, <2>3 DEF Written
<1> QED BY <1>1, <1>2, <1>3

LEMMA CommitKeepsTypes ==
    ASSUME TypeInv, NEW w \in Pollers, ApplyCommit(w)
    PROVE  TypeInv'
<1> DEFINE s == poller[w].current
           o == attempt[s.attempt].order
<1>1. poller[w] \in Polls /\ PollKnows(poller[w]) /\ poller[w].pc = "commit"
  BY PollRecord DEF ApplyCommit
<1>2. s \in Snapshots /\ s.attempt \in Attempts /\ attempt[s.attempt] # None
  BY <1>1 DEF PollKnows, Snapshots
<1>3. s.status \in ActiveStates \cup TerminalStates
  BY <1>2 DEF Snapshots, ContractPaymentStates, ActiveStates, TerminalStates
<1>4. attempt[s.attempt] \in AttemptRows /\ o \in Orders
  BY <1>2 DEF TypeInv, TypeOK, AttemptRows
<1>5. PICK next \in Polls : PollerTo(w, next) /\ PollKnows(next)
  <2> DEFINE next == [poller[w] EXCEPT !.pc = "apply", !.current = None, !.read = None]
  <2>1. next \in Polls /\ PollKnows(next)
    BY <1>1 DEF Polls, PollerSteps, PollKnows
  <2> QED BY <2>1 DEF ApplyCommit
<1>6. /\ attempt' \in [Attempts -> AttemptRows \cup {None}]
      /\ RowsStay
      /\ \A x \in Orders : AttemptsOf(x)' = AttemptsOf(x)
  <2>1. CASE UNCHANGED attempt
    BY <2>1 DEF ApplyCommit, ElsewhereUnchanged, TypeInv, TypeOK, RowsStay,
                AttemptsOf, providerVars
  <2>2. CASE Written(s.attempt, s.status, attempt[s.attempt].url)
    <3>1. UNCHANGED payment /\ attempt[s.attempt].url \in BOOLEAN
      BY <1>4 DEF ApplyCommit, ElsewhereUnchanged, providerVars, AttemptRows
    <3> HIDE DEF s
    <3> QED BY <1>2, <1>3, <2>2, <3>1, AttemptWritten
  <2> QED BY <2>1, <2>2, CommitWrites
<1>7. /\ order' \in [Orders -> OrderRows] /\ transitions' \subseteq TransitionRows
      /\ VersionsTellState' /\ outbox' \in [Orders -> [EventTypes -> Nat]]
  <2>1. CASE UNCHANGED <<order, transitions, outbox>>
    BY <2>1 DEF TypeInv, TypeOK, VersionsTellState
  <2>2. CASE Emit(o, "payment.rejected") /\ UNCHANGED <<order, transitions>>
    <3>1. outbox' \in [Orders -> [EventTypes -> Nat]]
      BY <1>4, <2>2, Emits DEF EventTypes
    <3> QED BY <2>2, <3>1 DEF TypeInv, TypeOK, VersionsTellState
  <2>3. CASE /\ Advances(o, s.status) /\ Emit(o, "payment.approved")
             /\ MoveOrder(o, "CONFIRM_PROVIDER_PAYMENT", "PENDIENTE_CONFORMIDAD",
                          "VERIFIED_PROVIDER")
    <3>1. outbox' \in [Orders -> [EventTypes -> Nat]]
      BY <1>4, <2>3, Emits DEF EventTypes
    <3>2. Transition("CONFIRM_PROVIDER_PAYMENT", order[o].state, "PENDIENTE_CONFORMIDAD")
             \in OrderTransitions
      BY <2>3 DEF Advances, OrderTransitions
    <3>3. /\ "CONFIRM_PROVIDER_PAYMENT" \in TransitionActions
          /\ "PENDIENTE_CONFORMIDAD" \in ChargedStates /\ "VERIFIED_PROVIDER" \in Actors
      BY DEF TransitionActions, ChargedStates, Actors
    <3> HIDE DEF o
    <3> QED BY <1>4, <2>3, <3>1, <3>2, <3>3, OrderMoves
  <2> QED BY <2>1, <2>2, <2>3 DEF ApplyCommit
<1>8. AttemptsAreFinite'
  BY <1>6 DEF TypeInv, AttemptsAreFinite
<1>9. PollKnows(next)'
  BY <1>5, <1>6, RowsStayKnown
<1>10. UNCHANGED <<job, conformity, failures>> /\ ElsewhereUnchanged
  BY DEF ApplyCommit
<1> QED BY <1>5, <1>6, <1>7, <1>8, <1>9, <1>10, PollMoves DEF TypeInv, TypeOK

LEMMA OrderStepsKeepTypes ==
    ASSUME TypeInv, NEW o \in Orders,
           Conformity(o) \/ \E action \in OperatorActions : OperatorTransition(o, action)
    PROVE  TypeInv'
<1>1. /\ UNCHANGED <<attempt, receipts, job, browser, poller, providerVars, failures>>
      /\ order' \in [Orders -> OrderRows] /\ transitions' \subseteq TransitionRows
      /\ VersionsTellState' /\ conformity' \subseteq Orders
      /\ outbox' \in [Orders -> [EventTypes -> Nat]]
  <2>1. CASE Conformity(o)
    <3>1. outbox' \in [Orders -> [EventTypes -> Nat]]
      BY <2>1, Emits DEF Conformity, EventTypes
    <3>2. Transition("CONFIRM_CLIENT_CONFORMITY", order[o].state, "CERRADA")
             \in OrderTransitions
      BY <2>1 DEF Conformity, OrderTransitions
    <3>3. /\ "CONFIRM_CLIENT_CONFORMITY" \in TransitionActions
          /\ "CERRADA" \in ChargedStates /\ "CLIENT" \in Actors
      BY DEF TransitionActions, ChargedStates, Actors
    <3> QED BY <2>1, <3>1, <3>2, <3>3, OrderMoves DEF Conformity, TypeInv, TypeOK
  <2>2. ASSUME NEW action \in OperatorActions, OperatorTransition(o, action)
        PROVE  <1>1!:
    <3>1. PICK row \in OrderTransitions, role \in OperatorRoles :
            /\ row.from = order[o].state /\ row.action = action
            /\ MoveOrder(o, action, row.to, role)
      BY <2>2 DEF OperatorTransition
    <3>2. order[o].state \in ChargedStates
      BY DEF TypeInv, TypeOK, OrderRows
    <3>3. row = Transition(action, order[o].state, row.to) /\ row.to \in ChargedStates
      BY <3>1, <3>2 DEF OrderTransitions, Transition, ChargedStates
    <3>4. action \in TransitionActions /\ role \in Actors
      BY OperatorActionsAssumption DEF Actors
    <3> QED BY <2>2, <3>1, <3>3, <3>4, OrderMoves DEF OperatorTransition, TypeInv, TypeOK
  <2> QED BY <2>1, <2>2
<1>2. RowsStay
  BY <1>1 DEF RowsStay, providerVars
<1>3. CallsKnow'
  BY <1>1, <1>2, CallsStillKnow DEF providerVars
<1>4. AttemptsAreFinite'
  BY <1>1 DEF TypeInv, AttemptsAreFinite, AttemptsOf
<1> QED BY <1>1, <1>3, <1>4 DEF TypeInv, TypeOK, providerVars

LEMMA InitTypes == Init => TypeInv
<1> SUFFICES ASSUME Init PROVE TypeInv
  OBVIOUS
<1>1. \A o \in Orders : AttemptsOf(o) = {}
  BY DEF Init, AttemptsOf
<1>2. AttemptsAreFinite
  BY <1>1, FS_EmptySet DEF AttemptsAreFinite
<1>3. Resting \in Polls /\ PollKnows(Resting) /\ Idle \in BrowserCalls /\ CheckoutKnows(Idle)
  BY NoneAssumption DEF Resting, Polls, PollerSteps, PollKnows, Idle, BrowserCalls,
                        CheckoutKnows, WritingSteps
<1>4. TypeOK
  <2>1. order \in [Orders -> OrderRows]
    BY DEF Init, OrderRows, ChargedStates, ChargedVersion
  <2>2. outbox \in [Orders -> [EventTypes -> Nat]]
    BY DEF Init
  <2> QED BY <1>3, <2>1, <2>2, MaxFailuresAssumption DEF Init, TypeOK
<1>5. VersionsTellState
  BY DEF Init, VersionsTellState
<1>6. CallsKnow
  BY <1>3 DEF Init, CallsKnow
<1> QED BY <1>2, <1>4, <1>5, <1>6 DEF TypeInv

LEMMA StepsKeepTypes == TypeInv /\ [Next]_vars => TypeInv'
<1> SUFFICES ASSUME TypeInv, [Next]_vars PROVE TypeInv'
  OBVIOUS
<1>1. ASSUME NEW b \in Browsers, CheckoutStep(b) \/ CheckoutDies(b) PROVE TypeInv'
  BY <1>1, CheckoutReadKeepsTypes, CheckoutCreateKeepsTypes, CheckoutPreferKeepsTypes,
     CheckoutWriteKeepsTypes, CheckoutDiesKeepsTypes DEF CheckoutStep
<1>2. CASE ProviderStep \/ \E p \in Payments : LeaseExpires(p)
  BY <1>2, OutsideKeepsTypes
<1>3. ASSUME NEW w \in Pollers, PollStep(w) PROVE TypeInv'
  <2>1. ASSUME NEW s \in Snapshots, ApplyMismatch(w, s) PROVE TypeInv'
    BY <2>1, PollGivesUp DEF ApplyMismatch, TypeInv, TypeOK
  <2>2. CASE AnswerRefused(w)
    BY <2>2, PollGivesUp DEF AnswerRefused, TypeInv, TypeOK
  <2>3. CASE SearchPayments(w)
    BY <2>3, AnswerTakenKeepsTypes DEF SearchPayments
  <2> QED BY <1>3, <2>1, <2>2, <2>3, JobStepsKeepTypes, ScanStepsKeepTypes,
             ApplyStepsKeepTypes, RestoreKeepsTypes, CommitKeepsTypes DEF PollStep
<1>4. ASSUME NEW w \in Pollers, PollStepFails(w) \/ PollDies(w) PROVE TypeInv'
  <2>1. failures' \in 0..MaxFailures
    BY <1>4, MaxFailuresAssumption DEF PollStepFails, PollDies, CountFailure, TypeInv, TypeOK
  <2>2. CASE PollStepFails(w)
    BY <2>1, <2>2, PollGivesUp DEF PollStepFails
  <2>3. CASE PollDies(w)
    <3>1. Resting \in Polls /\ PollKnows(Resting)
      BY NoneAssumption DEF Resting, Polls, PollerSteps, PollKnows
    <3> QED BY <2>1, <2>3, <3>1, PollReads DEF PollDies, TypeInv, TypeOK
  <2> QED BY <1>4, <2>2, <2>3
<1>5. ASSUME NEW o \in Orders,
             Conformity(o) \/ \E action \in OperatorActions : OperatorTransition(o, action)
      PROVE  TypeInv'
  BY <1>5, OrderStepsKeepTypes
<1>6. CASE UNCHANGED vars
  <2>1. RowsStay
    BY <1>6 DEF vars, RowsStay
  <2>2. CallsKnow'
    BY <1>6, <2>1, CallsStillKnow DEF vars
  <2> QED BY <1>6, <2>2 DEF vars, TypeInv, TypeOK, VersionsTellState, AttemptsAreFinite,
                            AttemptsOf
<1> QED BY <1>1, <1>2, <1>3, <1>4, <1>5, <1>6 DEF Next

(* Every variable keeps its type: an order stands in one of the three       *)
(* states of a charged order at that state's version, and no checkout, poll *)
(* or job works on an attempt or a payment that is not there.               *)
THEOREM TypeCorrect == Spec => []TypeOK
<1>1. Spec => []TypeInv
  BY InitTypes, StepsKeepTypes, PTL DEF Spec
<1>2. TypeInv => TypeOK
  BY DEF TypeInv
<1> QED BY <1>1, <1>2, PTL

-----------------------------------------------------------------------------
(* One active attempt.  Every write of an attempt is an insertion, which    *)
(* the indexes let pass, or an update by id, of which only a poll's commit  *)
(* may set the states an answer brings.                                     *)

Inserts(b, a) ==
    /\ browser[b].pc = "create" /\ attempt[a] = None
    /\ NoOtherActive(browser[b].order, a)
    /\ \A c \in AttemptsOf(browser[b].order) : attempt[c].sequence # browser[b].sequence
    /\ attempt' = [attempt EXCEPT ![a] =
          [order |-> browser[b].order, sequence |-> browser[b].sequence,
           state |-> "CREATED", url |-> FALSE]]

UpdatesById ==
    \E a \in Attempts, url \in BOOLEAN :
      \E state \in {attempt[a].state, "CANCELLED", "UNKNOWN", "CREATED"} :
        Written(a, state, url)

AppliesAnswer(w) ==
    LET s == poller[w].current
    IN  ApplyCommit(w) /\ Active(s.attempt)
        /\ Written(s.attempt, s.status, attempt[s.attempt].url)

LEMMA AttemptsMove ==
    ASSUME TypeInv, [Next]_vars
    PROVE  \/ UNCHANGED attempt
           \/ \E b \in Browsers, a \in Attempts : Inserts(b, a)
           \/ UpdatesById /\ UNCHANGED payment
           \/ \E w \in Pollers : AppliesAnswer(w) /\ UNCHANGED payment
<1>1. ASSUME NEW b \in Browsers, CheckoutStep(b) \/ CheckoutDies(b),
             ~UNCHANGED attempt, ~\E a \in Attempts : Inserts(b, a)
      PROVE  UpdatesById /\ UNCHANGED payment
  <2>1. CASE CheckoutSaveUrl(b) \/ CheckoutCancel(b) \/ CheckoutUncertain(b)
    <3>1. UNCHANGED payment
      BY <2>1 DEF CheckoutSaveUrl, CheckoutCancel, CheckoutUncertain, providerVars
    <3> QED BY <1>1, <2>1, <3>1, CheckoutWrites DEF UpdatesById
  <2>2. \A a \in Attempts : ~CheckoutCreate(b, a)
    BY <1>1 DEF CheckoutCreate, Inserts
  <2> QED BY <1>1, <2>1, <2>2 DEF CheckoutStep, CheckoutRead, CheckoutPrefer, CheckoutDies
<1>2. ASSUME NEW w \in Pollers, PollStep(w) \/ PollStepFails(w) \/ PollDies(w),
             ~UNCHANGED attempt
      PROVE  (UpdatesById \/ AppliesAnswer(w)) /\ UNCHANGED payment
  <2>1. CASE RestoreAttempt(w)
    <3>1. UNCHANGED payment
      BY <2>1 DEF RestoreAttempt, ElsewhereUnchanged, providerVars
    <3> QED BY <1>2, <2>1, <3>1, RestoreWrites DEF UpdatesById
  <2>2. CASE ApplyCommit(w)
    <3>1. UNCHANGED payment
      BY <2>2 DEF ApplyCommit, ElsewhereUnchanged, providerVars
    <3> QED BY <1>2, <2>2, <3>1, CommitWrites DEF AppliesAnswer
  <2> QED BY <1>2, <2>1, <2>2
          DEF PollStep, PollStepFails, PollDies, GiveUp, ApplyMismatch, PollJob, ClaimJob,
              FetchPayment, AnswerTaken, AnswerRefused, FinishJob, PollScan, ScanNext, FindPreference,
              SearchPayments, ApplyRead, ApplyEnd, OnlyPollerMoves
<1>3. CASE ProviderStep \/ \E p \in Payments : LeaseExpires(p)
  BY <1>3 DEF ProviderStep, Pay, Settle, PaymentBecomes, WebhookReceive, LeaseExpires
<1>4. ASSUME NEW o \in Orders,
             Conformity(o) \/ \E action \in OperatorActions : OperatorTransition(o, action)
      PROVE  UNCHANGED attempt
  BY <1>4 DEF Conformity, OperatorTransition
<1>5. CASE UNCHANGED vars
  BY <1>5 DEF vars
<1> QED BY <1>1, <1>2, <1>3, <1>4, <1>5 DEF Next

(* A checkout about to insert counted attempts its order still has.         *)
NumbersAreNext ==
    \A b \in Browsers : browser[b].pc = "create" =>
        browser[b].sequence \in 1..(Cardinality(AttemptsOf(browser[b].order)) + 1)

AttemptInv == TypeInv /\ OneActiveAttempt /\ NumbersAreNext

LEMMA InsertKeepsOneActive ==
    ASSUME AttemptInv, NEW b \in Browsers, NEW a \in Attempts, Inserts(b, a)
    PROVE  /\ OneActiveAttempt'
           /\ \A o \in Orders : Cardinality(AttemptsOf(o)) <= Cardinality(AttemptsOf(o)')
<1>1. PICK p \in Orders, n \in Nat : /\ browser[b].pc = "create"
                                   /\ browser[b].order = p /\ browser[b].sequence = n
  BY DEF Inserts, AttemptInv, TypeInv, TypeOK, BrowserCalls, Idle
<1> DEFINE row == [order |-> p, sequence |-> n, state |-> "CREATED", url |-> FALSE]
<1>2. row \in AttemptRows /\ row # None
  <2>1. row \in AttemptRows
    BY <1>1 DEF AttemptRows, ActiveStates
  <2> QED BY <2>1, NoRowAssumption
<1>3. /\ attempt[a] = None /\ attempt'[a] = row
      /\ \A c \in Attempts \ {a} : attempt'[c] = attempt[c]
  BY <1>1, <1>2 DEF Inserts, AttemptInv, TypeInv, TypeOK
<1> HIDE DEF row
<1>4. \A o \in Orders : AttemptsOf(o)' = IF o = p THEN AttemptsOf(o) \cup {a} ELSE AttemptsOf(o)
  BY <1>2, <1>3 DEF AttemptsOf, row
<1>5. \A o \in Orders : a \notin AttemptsOf(o)
  BY <1>3 DEF AttemptsOf
<1>6. /\ IsFiniteSet(AttemptsOf(p)) /\ Cardinality(AttemptsOf(p)) \in Nat
      /\ Cardinality(AttemptsOf(p) \cup {a}) = Cardinality(AttemptsOf(p)) + 1
  BY <1>1, <1>5, FS_AddElement, FS_CardinalityType
     DEF AttemptInv, TypeInv, AttemptsAreFinite
<1>7. n = Cardinality(AttemptsOf(p)) + 1
  <2>1. n \in 1..(Cardinality(AttemptsOf(p)) + 1)
    BY <1>1 DEF AttemptInv, NumbersAreNext
  <2>2. n \notin {attempt[c].sequence : c \in AttemptsOf(p)}
    BY <1>1 DEF Inserts
  <2>3. {attempt[c].sequence : c \in AttemptsOf(p)} = 1..Cardinality(AttemptsOf(p))
    BY DEF AttemptInv, OneActiveAttempt
  <2> QED BY <1>6, <2>1, <2>2, <2>3
<1>8. /\ AttemptsOf(p)' = AttemptsOf(p) \cup {a}
      /\ Cardinality(AttemptsOf(p)') = Cardinality(AttemptsOf(p)) + 1
      /\ \A o \in Orders \ {p} : AttemptsOf(o)' = AttemptsOf(o)
  BY <1>4, <1>6
<1>9. \A o \in Orders : \A c \in AttemptsOf(o) :
        c # a /\ attempt'[c] = attempt[c] /\ (Active(c)' <=> Active(c))
  BY <1>3, <1>5 DEF AttemptsOf, Active
<1>10. /\ \A c, d \in AttemptsOf(p)' : Active(c)' /\ Active(d)' => c = d
       /\ {attempt'[c].sequence : c \in AttemptsOf(p)'} = 1..Cardinality(AttemptsOf(p)')
  <2>1. \A c \in AttemptsOf(p) : ~Active(c)'
    BY <1>1, <1>9 DEF Inserts, NoOtherActive
  <2>2. {attempt'[c].sequence : c \in AttemptsOf(p)'}
           = {attempt[c].sequence : c \in AttemptsOf(p)} \cup {n}
    BY <1>3, <1>8, <1>9 DEF row
  <2>3. {attempt[c].sequence : c \in AttemptsOf(p)} = 1..Cardinality(AttemptsOf(p))
    BY DEF AttemptInv, OneActiveAttempt
  <2>4. 1..Cardinality(AttemptsOf(p)') = 1..Cardinality(AttemptsOf(p)) \cup {n}
    BY <1>6, <1>7, <1>8
  <2> QED BY <1>8, <2>1, <2>2, <2>3, <2>4
<1>11. ASSUME NEW o \in Orders \ {p}
       PROVE  /\ \A c, d \in AttemptsOf(o)' : Active(c)' /\ Active(d)' => c = d
              /\ {attempt'[c].sequence : c \in AttemptsOf(o)'} = 1..Cardinality(AttemptsOf(o)')
  BY <1>8, <1>9 DEF AttemptInv, OneActiveAttempt
<1>12. \A o \in Orders : Cardinality(AttemptsOf(o)) <= Cardinality(AttemptsOf(o)')
  <2>1. \A o \in Orders : Cardinality(AttemptsOf(o)) \in Nat
    BY FS_CardinalityType DEF AttemptInv, TypeInv, AttemptsAreFinite
  <2>2. \A o \in Orders \ {p} : Cardinality(AttemptsOf(o)) <= Cardinality(AttemptsOf(o)')
    BY <1>8, <2>1
  <2>3. Cardinality(AttemptsOf(p)) <= Cardinality(AttemptsOf(p)')
    BY <1>8, <2>1
  <2> QED BY <2>2, <2>3 DEF AttemptsOf
<1> QED BY <1>10, <1>11, <1>12 DEF OneActiveAttempt

(* An update by id keeps its order's attempts and their numbers.            *)
LEMMA UpdateKeepsOneActive ==
    ASSUME AttemptInv, NEW a \in Attempts, NEW url \in BOOLEAN,
           NEW state \in ActiveStates \cup TerminalStates,
           Written(a, state, url), UNCHANGED payment
    PROVE  /\ OneActiveAttempt'
           /\ \A o \in Orders : AttemptsOf(o)' = AttemptsOf(o)
<1>1. /\ RowsStay /\ \A o \in Orders : AttemptsOf(o)' = AttemptsOf(o)
      /\ attempt'[a].state = state
      /\ \A c \in Attempts \ {a} : attempt'[c] = attempt[c]
  BY AttemptWritten DEF AttemptInv
<1>2. ASSUME NEW o \in Orders
      PROVE  /\ \A c, d \in AttemptsOf(o)' : Active(c)' /\ Active(d)' => c = d
             /\ {attempt'[c].sequence : c \in AttemptsOf(o)'} = 1..Cardinality(AttemptsOf(o)')
  <2>1. \A c \in AttemptsOf(o) : attempt'[c].sequence = attempt[c].sequence
    BY <1>1 DEF AttemptsOf, RowsStay
  <2>2. \A c \in AttemptsOf(o) \ {a} : Active(c)' <=> Active(c)
    BY <1>1 DEF AttemptsOf, Active
  <2>3. ASSUME NEW c \in AttemptsOf(o), c # a, Active(c), a \in AttemptsOf(o), Active(a)'
        PROVE  FALSE
    <3>1. state \in ActiveStates /\ attempt[a].order = o
      BY <1>1, <2>3 DEF Active, AttemptsOf
    <3>2. Active(a) \/ NoOtherActive(o, a)
      BY <3>1 DEF Written
    <3> QED BY <2>3, <3>2 DEF NoOtherActive, AttemptInv, OneActiveAttempt
  <2>4. \A c, d \in AttemptsOf(o) : Active(c)' /\ Active(d)' => c = d
    BY <2>2, <2>3 DEF AttemptInv, OneActiveAttempt
  <2>5. {attempt'[c].sequence : c \in AttemptsOf(o)'} = {attempt[c].sequence : c \in AttemptsOf(o)}
    BY <1>1, <2>1
  <2> QED BY <1>1, <2>4, <2>5 DEF AttemptInv, OneActiveAttempt
<1> QED BY <1>1, <1>2 DEF OneActiveAttempt

(* A checkout comes to an insertion by reading.                             *)
LEMMA CheckoutsCount ==
    ASSUME TypeInv, [Next]_vars, NEW b \in Browsers, browser'[b].pc = "create"
    PROVE  \/ browser'[b] = browser[b]
           \/ browser'[b].sequence = Cardinality(AttemptsOf(browser'[b].order)) + 1
<1> DEFINE Counted == \/ browser'[b] = browser[b]
                      \/ browser'[b].sequence
                           = Cardinality(AttemptsOf(browser'[b].order)) + 1
<1>1. ASSUME NEW next, NEW c \in Browsers, BrowserTo(c, next)
      PROVE  browser'[b] = IF c = b THEN next ELSE browser[b]
  BY <1>1 DEF BrowserTo, TypeInv, TypeOK
<1>2. ASSUME NEW c \in Browsers, CheckoutStep(c) \/ CheckoutDies(c) PROVE Counted
  <2>1. ASSUME NEW o \in Orders, CheckoutRead(c, o) PROVE Counted
    <3>1. CASE BrowserTo(c, [pc |-> "create", order |-> o,
                             sequence |-> Cardinality(AttemptsOf(o)) + 1])
      BY <1>1, <3>1
    <3>2. ASSUME NEW a \in Attempts, BrowserTo(c, [pc |-> "prefer", attempt |-> a])
          PROVE  Counted
      BY <1>1, <3>2
    <3> QED BY <2>1, <3>1, <3>2 DEF CheckoutRead, AttemptsOf
  <2>2. ASSUME NEW a \in Attempts, CheckoutCreate(c, a) PROVE Counted
    BY <1>1, <2>2 DEF CheckoutCreate, Idle
  <2>3. CASE CheckoutPrefer(c)
    <3>1. PICK pc \in WritingSteps : BrowserTo(c, [browser[c] EXCEPT !.pc = pc])
      BY <2>3 DEF CheckoutPrefer, WritingSteps
    <3>2. browser[c].pc \in WritingSteps
      BY <2>3 DEF CheckoutPrefer, WritingSteps
    <3>3. browser[c] \in [pc : WritingSteps, attempt : Attempts]
      BY <3>2 DEF TypeInv, TypeOK, BrowserCalls, Idle, WritingSteps
    <3>4. [browser[c] EXCEPT !.pc = pc].pc # "create"
      BY <3>3 DEF WritingSteps
    <3> QED BY <1>1, <3>1, <3>4
  <2>4. CASE CheckoutSaveUrl(c) \/ CheckoutCancel(c) \/ CheckoutUncertain(c) \/ CheckoutDies(c)
    BY <1>1, <2>4 DEF CheckoutSaveUrl, CheckoutCancel, CheckoutUncertain, CheckoutDies, Idle
  <2> QED BY <1>2, <2>1, <2>2, <2>3, <2>4 DEF CheckoutStep
<1>3. ASSUME NEW w \in Pollers, PollStep(w) \/ PollStepFails(w) \/ PollDies(w)
      PROVE  UNCHANGED browser
  BY <1>3 DEF PollStep, PollStepFails, PollDies, GiveUp, ApplyMismatch, PollJob, ClaimJob,
              FetchPayment, AnswerTaken, AnswerRefused, FinishJob, PollScan, ScanNext, FindPreference, RestoreAttempt,
              SearchPayments, ApplyRead, ApplyEnd, ApplyCommit, OnlyPollerMoves,
              ElsewhereUnchanged
<1>4. CASE ProviderStep \/ \E p \in Payments : LeaseExpires(p)
  BY <1>4 DEF ProviderStep, Pay, Settle, PaymentBecomes, WebhookReceive, LeaseExpires, ElsewhereUnchanged
<1>5. ASSUME NEW o \in Orders,
             Conformity(o) \/ \E action \in OperatorActions : OperatorTransition(o, action)
      PROVE  UNCHANGED browser
  BY <1>5 DEF Conformity, OperatorTransition
<1>6. CASE UNCHANGED vars
  BY <1>6 DEF vars
<1> QED BY <1>2, <1>3, <1>4, <1>5, <1>6 DEF Next

LEMMA StepsKeepOneActive == AttemptInv /\ [Next]_vars => AttemptInv'
<1> SUFFICES ASSUME AttemptInv, [Next]_vars PROVE AttemptInv'
  OBVIOUS
<1>1. TypeInv'
  BY StepsKeepTypes DEF AttemptInv
<1>2. /\ OneActiveAttempt'
      /\ \A o \in Orders : Cardinality(AttemptsOf(o)) <= Cardinality(AttemptsOf(o)')
  <2>1. \A o \in Orders : Cardinality(AttemptsOf(o)) \in Nat
    BY FS_CardinalityType DEF AttemptInv, TypeInv, AttemptsAreFinite
  <2>2. CASE UNCHANGED attempt
    BY <2>1, <2>2 DEF AttemptInv, OneActiveAttempt, AttemptsOf, Active
  <2>3. ASSUME NEW b \in Browsers, NEW a \in Attempts, Inserts(b, a)
        PROVE  <1>2!:
    BY <2>3, InsertKeepsOneActive
  <2>4. CASE UpdatesById /\ UNCHANGED payment
    <3>1. PICK a \in Attempts, url \in BOOLEAN :
            \E state \in {attempt[a].state, "CANCELLED", "UNKNOWN", "CREATED"} :
              Written(a, state, url)
      BY <2>4 DEF UpdatesById
    <3> PICK state \in {attempt[a].state, "CANCELLED", "UNKNOWN", "CREATED"} :
          Written(a, state, url)
      BY <3>1
    <3>2. state \in ActiveStates \cup TerminalStates
      BY OneFieldWritten DEF Written, AttemptInv, ActiveStates, TerminalStates
    <3> QED BY <2>1, <2>4, <3>2, UpdateKeepsOneActive
  <2>5. ASSUME NEW w \in Pollers, AppliesAnswer(w), UNCHANGED payment
        PROVE  <1>2!:
    <3>1. PICK s \in Snapshots : /\ s = poller[w].current /\ attempt[s.attempt] # None
                                 /\ s.status \in ActiveStates \cup TerminalStates
                                 /\ Written(s.attempt, s.status, attempt[s.attempt].url)
      BY <2>5, CommitWrites DEF AttemptInv, AppliesAnswer
    <3>2. s.attempt \in Attempts /\ attempt[s.attempt].url \in BOOLEAN
      BY <3>1, OneFieldWritten DEF AttemptInv, Snapshots
    <3> QED BY <2>1, <2>5, <3>1, <3>2, UpdateKeepsOneActive
  <2> QED BY <2>2, <2>3, <2>4, <2>5, AttemptsMove DEF AttemptInv
<1>3. NumbersAreNext'
  <2> SUFFICES ASSUME NEW b \in Browsers, browser'[b].pc = "create"
               PROVE  (browser[b].sequence
                         \in 1..(Cardinality(AttemptsOf(browser[b].order)) + 1))'
    BY DEF NumbersAreNext
  <2>1. PICK o \in Orders, n \in Nat : browser'[b].order = o /\ browser'[b].sequence = n
    BY <1>1 DEF TypeInv, TypeOK, BrowserCalls, Idle
  <2>2. n \in 1..(Cardinality(AttemptsOf(o)) + 1)
    <3>1. CASE browser'[b] = browser[b]
      BY <2>1, <3>1 DEF AttemptInv, NumbersAreNext
    <3>2. CASE browser'[b].sequence = Cardinality(AttemptsOf(browser'[b].order)) + 1
      <4>1. Cardinality(AttemptsOf(o)) \in Nat
        BY FS_CardinalityType DEF AttemptInv, TypeInv, AttemptsAreFinite
      <4> QED BY <2>1, <3>2, <4>1
    <3> QED BY <3>1, <3>2, CheckoutsCount DEF AttemptInv
  <2>3. Cardinality(AttemptsOf(o)) \in Nat /\ Cardinality(AttemptsOf(o)') \in Nat
    BY <1>1, FS_CardinalityType DEF AttemptInv, TypeInv, AttemptsAreFinite
  <2>4. n \in 1..(Cardinality(AttemptsOf(o)') + 1)
    BY <1>2, <2>2, <2>3
  <2> QED BY <2>1, <2>4
<1> QED BY <1>1, <1>2, <1>3 DEF AttemptInv

(* feat-007 (payment_attempt_one_active): however many checkouts, polls and *)
(* late writes by id meet, an order has at most one active attempt, and its *)
(* attempts are numbered without gap or repetition.                         *)
THEOREM AtMostOneActive == Spec => []OneActiveAttempt
<1>1. Init => AttemptInv
  <2> SUFFICES ASSUME Init PROVE AttemptInv
    OBVIOUS
  <2>1. \A o \in Orders : AttemptsOf(o) = {}
    BY DEF Init, AttemptsOf
  <2>2. OneActiveAttempt
    BY <2>1, FS_EmptySet DEF OneActiveAttempt
  <2>3. NumbersAreNext
    BY DEF Init, NumbersAreNext, Idle
  <2> QED BY <2>2, <2>3, InitTypes DEF AttemptInv
<1>2. Spec => []AttemptInv
  BY <1>1, StepsKeepOneActive, PTL DEF Spec
<1>3. AttemptInv => OneActiveAttempt
  BY DEF AttemptInv
<1> QED BY <1>2, <1>3, PTL

-----------------------------------------------------------------------------
(* Approvals.  What a poll holds of an approved payment stays true until it *)
(* is applied, whatever else happens in between.                            *)

Tells(s) ==
    s.status = "APPROVED" =>
        /\ s.payment \in approvals
        /\ payment[s.payment].attempt = s.attempt /\ payment[s.payment].amount = s.amount

AnswersTell ==
    \A w \in Pollers :
      /\ \A s \in poller[w].found : Tells(s)
      /\ poller[w].current \in Snapshots =>
           Tells(poller[w].current) /\ Matches(poller[w].current)

ApprovalsAreKnown ==
    \A p \in Payments : payment[p] # None /\ payment[p].status = "APPROVED" => p \in approvals

ApprovalInv == TypeInv /\ AnswersTell /\ ApprovalsAreKnown /\ ApprovedAttemptIsSettled

(* A payment stays its attempt's and of its amount, and the provider's      *)
(* approval of it is not forgotten.                                         *)
PaymentsStay ==
    /\ \A p \in Payments : payment[p] # None =>
         payment'[p].attempt = payment[p].attempt /\ payment'[p].amount = payment[p].amount
    /\ approvals \subseteq approvals'
    /\ ApprovalsAreKnown => ApprovalsAreKnown'

LEMMA ApprovalsStay ==
    ASSUME TypeInv, [Next]_vars
    PROVE  PaymentsStay
<1>1. CASE UNCHANGED <<payment, approvals>>
  BY <1>1 DEF PaymentsStay, ApprovalsAreKnown
<1>2. ASSUME NEW q \in Payments, NEW row \in ProviderPayments, PaymentBecomes(q, row),
             payment[q] # None => row.attempt = payment[q].attempt /\ row.amount = payment[q].amount
      PROVE  PaymentsStay
  <2>1. \A p \in Payments : payment'[p] = IF p = q THEN row ELSE payment[p]
    BY <1>2 DEF PaymentBecomes, TypeInv, TypeOK
  <2>2. approvals' = IF row.status = "APPROVED" THEN approvals \cup {q} ELSE approvals
    BY <1>2 DEF PaymentBecomes
  <2> QED BY <1>2, <2>1, <2>2 DEF PaymentsStay, ApprovalsAreKnown
<1>3. ASSUME NEW q \in Payments, NEW status \in ProviderStatus, NEW a \in Attempts,
             Pay(q, a, status)
      PROVE  PaymentsStay
  <2>1. PICK amount \in Amounts :
          PaymentBecomes(q, [attempt |-> a, status |-> status, amount |-> amount])
    BY <1>3 DEF Pay
  <2>2. [attempt |-> a, status |-> status, amount |-> amount] \in ProviderPayments
    BY DEF ProviderPayments
  <2> QED BY <1>2, <1>3, <2>1, <2>2 DEF Pay
<1>4. ASSUME NEW q \in Payments, NEW status \in ProviderStatus, Settle(q, status)
      PROVE  PaymentsStay
  <2>1. payment[q] \in ProviderPayments
    BY <1>4 DEF Settle, TypeInv, TypeOK
  <2> DEFINE row == [payment[q] EXCEPT !.status = status]
  <2>2. row \in ProviderPayments /\ row.attempt = payment[q].attempt
        /\ row.amount = payment[q].amount
    BY <2>1 DEF ProviderPayments
  <2>3. PaymentBecomes(q, row)
    BY <1>4 DEF Settle
  <2> HIDE DEF row
  <2> QED BY <1>2, <2>2, <2>3
<1>5. ASSUME NEW e \in Events, NEW q \in Payments, WebhookReceive(e, q)
      PROVE  UNCHANGED <<payment, approvals>>
  BY <1>5 DEF WebhookReceive, providerVars
<1>6. ASSUME NEW b \in Browsers, CheckoutStep(b) \/ CheckoutDies(b)
      PROVE  UNCHANGED <<payment, approvals>>
  BY <1>6 DEF CheckoutStep, CheckoutRead, CheckoutCreate, CheckoutPrefer, CheckoutSaveUrl,
              CheckoutCancel, CheckoutUncertain, CheckoutDies, providerVars
<1>7. ASSUME NEW w \in Pollers, PollStep(w) \/ PollStepFails(w) \/ PollDies(w)
      PROVE  UNCHANGED <<payment, approvals>>
  BY <1>7 DEF PollStep, PollStepFails, PollDies, GiveUp, ApplyMismatch, PollJob, ClaimJob,
              FetchPayment, AnswerTaken, AnswerRefused, FinishJob, PollScan, ScanNext,
              FindPreference, RestoreAttempt, SearchPayments, ApplyRead, ApplyEnd,
              ApplyCommit, OnlyPollerMoves, ElsewhereUnchanged, providerVars
<1>8. ASSUME NEW q \in Payments, LeaseExpires(q) PROVE UNCHANGED <<payment, approvals>>
  BY <1>8 DEF LeaseExpires, ElsewhereUnchanged, providerVars
<1>9. ASSUME NEW o \in Orders,
             Conformity(o) \/ \E action \in OperatorActions : OperatorTransition(o, action)
      PROVE  UNCHANGED <<payment, approvals>>
  BY <1>9 DEF Conformity, OperatorTransition, providerVars
<1>10. CASE UNCHANGED vars
  BY <1>1, <1>10 DEF vars
<1>11. ASSUME ProviderStep PROVE PaymentsStay
  BY <1>1, <1>3, <1>4, <1>5, <1>11 DEF ProviderStep
<1>12. ASSUME Next PROVE PaymentsStay
  BY <1>1, <1>6, <1>7, <1>8, <1>9, <1>11, <1>12 DEF Next
<1> QED BY <1>1, <1>10, <1>12

(* What a poll finds it has just been told, and what it applies it found.   *)
Came(v) ==
    /\ \A s \in poller'[v].found :
         \/ s \in poller[v].found
         \/ \E p \in Payments : payment[p] # None /\ ~Refused(p) /\ s = Snapshot(p)
    /\ poller'[v].current \in Snapshots =>
         \/ poller'[v].current = poller[v].current
         \/ poller'[v].current \in poller[v].found /\ Matches(poller'[v].current)

LEMMA PollsAnswersCome ==
    ASSUME TypeInv, NEW w \in Pollers, PollStep(w) \/ PollStepFails(w) \/ PollDies(w),
           NEW v \in Pollers
    PROVE  Came(v)
<1>1. ASSUME NEW next, PollerTo(w, next)
      PROVE  poller'[v] = IF v = w THEN next ELSE poller[v]
  BY <1>1 DEF PollerTo, TypeInv, TypeOK
<1>2. ASSUME NEW next, PollerTo(w, next), next.found \subseteq poller[w].found,
             next.current \in {None, poller[w].current}
      PROVE  Came(v)
  BY <1>1, <1>2, NoRowAssumption DEF Came
<1>3. poller[w] \in Polls /\ PollKnows(poller[w])
  BY PollRecord
<1>4. NextAttempt(w).found = {} /\ NextAttempt(w).current = None
  BY <1>3 DEF NextAttempt, Polls
<1>5. ASSUME GiveUp(w) PROVE Came(v)
  BY <1>2, <1>4, <1>5 DEF GiveUp, Resting
<1>6. CASE \/ \E p \in Payments : PollJob(w, p)
           \/ ClaimJob(w) \/ FinishJob(w) \/ PollScan(w) \/ PollDies(w)
  <2>1. CASE ClaimJob(w)
    BY <1>2, <1>3, <2>1 DEF ClaimJob, Resting, Polls
  <2> QED BY <1>2, <1>6, <2>1 DEF PollJob, FinishJob, PollScan, PollDies, Resting
<1>7. CASE ScanNext(w) \/ FindPreference(w) \/ RestoreAttempt(w) \/ ApplyEnd(w)
  <2>1. CASE ScanNext(w)
    BY <1>2, <1>3, <2>1 DEF ScanNext, Resting, Polls
  <2>2. CASE FindPreference(w)
    BY <1>2, <1>3, <2>2 DEF FindPreference, Polls
  <2>3. CASE RestoreAttempt(w)
    BY <1>2, <1>3, <1>4, <2>3 DEF RestoreAttempt, Polls
  <2>4. CASE ApplyEnd(w)
    BY <1>2, <1>3, <1>4, <2>4 DEF ApplyEnd, Polls
  <2> QED BY <1>7, <2>1, <2>2, <2>3, <2>4
<1>8. CASE FetchPayment(w) \/ SearchPayments(w)
  <2> DEFINE answers == {Snapshot(p) : p \in Asked(w)}
             next == [poller[w] EXCEPT !.pc = "apply", !.found = answers]
  <2>1. next.found = answers /\ next.current = poller[w].current
    BY <1>3 DEF Polls
  <2>2. PollerTo(w, next) /\ \A p \in Asked(w) : ~Refused(p)
    BY <1>8 DEF FetchPayment, SearchPayments, AnswerTaken
  <2> HIDE DEF next
  <2> QED BY <1>1, <2>1, <2>2, AskedIsKnown DEF Came
<1>9. ASSUME NEW s \in Snapshots, ApplyRead(w, s) PROVE Came(v)
  <2>1. PICK next : /\ PollerTo(w, next) /\ next.found = poller[w].found \ {s}
                    /\ next.current \in {s, poller[w].current}
    <3> DEFINE read == [poller[w] EXCEPT !.pc = "commit", !.found = @ \ {s},
                              !.current = s, !.read = attempt[s.attempt].state]
               skip == [poller[w] EXCEPT !.found = @ \ {s}]
    <3>1. /\ read.found = poller[w].found \ {s} /\ read.current = s
          /\ skip.found = poller[w].found \ {s} /\ skip.current = poller[w].current
      BY <1>3 DEF Polls
    <3>2. PollerTo(w, read) \/ PollerTo(w, skip)
      BY <1>9 DEF ApplyRead
    <3> HIDE DEF read, skip
    <3> QED BY <3>1, <3>2
  <2> QED BY <1>1, <1>9, <2>1 DEF Came, ApplyRead
<1>10. CASE ApplyCommit(w)
  <2>1. PICK next : /\ PollerTo(w, next) /\ next.found = poller[w].found
                    /\ next.current = None
    <3> DEFINE applied == [poller[w] EXCEPT !.pc = "apply", !.current = None, !.read = None]
    <3>1. applied.found = poller[w].found /\ applied.current = None
      BY <1>3 DEF Polls
    <3>2. PollerTo(w, applied)
      BY <1>10 DEF ApplyCommit
    <3> HIDE DEF applied
    <3> QED BY <3>1, <3>2
  <2> QED BY <1>2, <2>1
<1> QED BY <1>5, <1>6, <1>7, <1>8, <1>9, <1>10
        DEF PollStep, PollStepFails, ApplyMismatch, AnswerRefused

LEMMA AnswersCome ==
    ASSUME TypeInv, [Next]_vars, NEW v \in Pollers
    PROVE  Came(v)
<1>1. CASE UNCHANGED poller
  BY <1>1 DEF Came
<1>2. ASSUME NEW b \in Browsers, CheckoutStep(b) \/ CheckoutDies(b) PROVE UNCHANGED poller
  BY <1>2 DEF CheckoutStep, CheckoutRead, CheckoutCreate, CheckoutPrefer, CheckoutSaveUrl,
              CheckoutCancel, CheckoutUncertain, CheckoutDies
<1>3. CASE ProviderStep \/ \E p \in Payments : LeaseExpires(p)
  BY <1>1, <1>3 DEF ProviderStep, Pay, Settle, PaymentBecomes, WebhookReceive, LeaseExpires
<1>4. ASSUME NEW o \in Orders,
             Conformity(o) \/ \E action \in OperatorActions : OperatorTransition(o, action)
      PROVE  UNCHANGED poller
  BY <1>4 DEF Conformity, OperatorTransition
<1>5. CASE UNCHANGED vars
  BY <1>1, <1>5 DEF vars
<1> QED BY <1>1, <1>2, <1>3, <1>4, <1>5, PollsAnswersCome DEF Next

(* Charged orders move forward.  Only an approval, or an operator's request *)
(* for one, takes an order past its payment.                                *)
Moved(o, to) == order' = [order EXCEPT ![o] = [state |-> to, version |-> @.version + 1]]

Approves(w, o) ==
    /\ AppliesAnswer(w) /\ UNCHANGED payment
    /\ poller[w].current.status = "APPROVED"
    /\ attempt[poller[w].current.attempt].order = o

LEMMA CommitMovesOrder ==
    ASSUME TypeInv, NEW w \in Pollers, ApplyCommit(w)
    PROVE  \/ UNCHANGED order
           \/ \E o \in Orders : /\ order[o].state = "PENDIENTE_PAGO" /\ Approves(w, o)
                                /\ Moved(o, "PENDIENTE_CONFORMIDAD")
<1> DEFINE s == poller[w].current
           o == attempt[s.attempt].order
<1>1. /\ s \in Snapshots /\ attempt[s.attempt] # None
      /\ UNCHANGED attempt \/ AppliesAnswer(w)
  BY CommitWrites DEF AppliesAnswer
<1>2. o \in Orders
  BY <1>1, OneFieldWritten DEF Snapshots
<1>3. SUFFICES ASSUME ~UNCHANGED order
               PROVE  /\ order[o].state = "PENDIENTE_PAGO" /\ Approves(w, o)
                      /\ Moved(o, "PENDIENTE_CONFORMIDAD")
  BY <1>2
<1>4. /\ Advances(o, s.status)
      /\ MoveOrder(o, "CONFIRM_PROVIDER_PAYMENT", "PENDIENTE_CONFORMIDAD", "VERIFIED_PROVIDER")
      /\ StillAsRead(w) /\ attempt' = [attempt EXCEPT ![s.attempt].state = s.status]
  BY <1>3 DEF ApplyCommit
<1>5. /\ order[o].state = "PENDIENTE_PAGO" /\ s.status = "APPROVED"
      /\ Moved(o, "PENDIENTE_CONFORMIDAD")
  BY <1>4 DEF Advances, CanAdvanceOrderAfterPayment, MoveOrder, Moved
<1>6. AppliesAnswer(w)
  <2>1. attempt[s.attempt].state \in ActiveStates
    BY <1>4, PollRecord DEF StillAsRead, ApplyCommit, PollKnows
  <2>2. attempt[s.attempt] \in AttemptRows /\ s.attempt \in Attempts
    BY <1>1 DEF TypeInv, TypeOK, Snapshots
  <2>3. [attempt[s.attempt] EXCEPT !.state = "APPROVED"].state = "APPROVED"
    BY <2>2 DEF AttemptRows
  <2>4. attempt'[s.attempt] # attempt[s.attempt]
    BY <1>4, <1>5, <2>1, <2>2, <2>3 DEF TypeInv, TypeOK, ActiveStates
  <2> QED BY <1>1, <2>4
<1>7. UNCHANGED payment
  BY DEF ApplyCommit, ElsewhereUnchanged, providerVars
<1> QED BY <1>5, <1>6, <1>7 DEF Approves

LEMMA OrdersAdvance ==
    ASSUME TypeInv, [Next]_vars
    PROVE  \/ UNCHANGED order
           \/ \E o \in Orders :
                /\ order[o].state = "PENDIENTE_PAGO" /\ Moved(o, "PENDIENTE_CONFORMIDAD")
                /\ \/ \E w \in Pollers : Approves(w, o)
                   \/ "CONFIRM_PROVIDER_PAYMENT" \in OperatorActions
           \/ \E o \in Orders :
                order[o].state = "PENDIENTE_CONFORMIDAD" /\ Moved(o, "CERRADA")
<1> SUFFICES ASSUME ~UNCHANGED order
             PROVE  \/ \E o \in Orders :
                         /\ order[o].state = "PENDIENTE_PAGO"
                         /\ Moved(o, "PENDIENTE_CONFORMIDAD")
                         /\ \/ \E w \in Pollers : Approves(w, o)
                            \/ "CONFIRM_PROVIDER_PAYMENT" \in OperatorActions
                    \/ \E o \in Orders :
                         order[o].state = "PENDIENTE_CONFORMIDAD" /\ Moved(o, "CERRADA")
  OBVIOUS
<1>1. ASSUME NEW b \in Browsers, CheckoutStep(b) \/ CheckoutDies(b) PROVE FALSE
  BY <1>1 DEF CheckoutStep, CheckoutRead, CheckoutCreate, CheckoutPrefer, CheckoutSaveUrl,
              CheckoutCancel, CheckoutUncertain, CheckoutDies, orderVars
<1>2. CASE ProviderStep \/ \E p \in Payments : LeaseExpires(p)
  BY <1>2 DEF ProviderStep, Pay, Settle, PaymentBecomes, WebhookReceive, LeaseExpires, orderVars
<1>3. ASSUME NEW w \in Pollers, PollStep(w) \/ PollStepFails(w) \/ PollDies(w),
             ~ApplyCommit(w)
      PROVE  FALSE
  BY <1>3 DEF PollStep, PollStepFails, PollDies, GiveUp, ApplyMismatch, PollJob, ClaimJob,
              FetchPayment, AnswerTaken, AnswerRefused, FinishJob, PollScan, ScanNext, FindPreference, RestoreAttempt,
              SearchPayments, ApplyRead, ApplyEnd, OnlyPollerMoves, orderVars
<1>4. ASSUME NEW o \in Orders, Conformity(o)
      PROVE  order[o].state = "PENDIENTE_CONFORMIDAD" /\ Moved(o, "CERRADA")
  BY <1>4 DEF Conformity, MoveOrder, Moved
<1>5. ASSUME NEW o \in Orders, NEW action \in OperatorActions, OperatorTransition(o, action)
      PROVE  \/ /\ order[o].state = "PENDIENTE_PAGO" /\ Moved(o, "PENDIENTE_CONFORMIDAD")
                /\ "CONFIRM_PROVIDER_PAYMENT" \in OperatorActions
             \/ order[o].state = "PENDIENTE_CONFORMIDAD" /\ Moved(o, "CERRADA")
  <2>1. PICK row \in OrderTransitions, role \in OperatorRoles :
          row.from = order[o].state /\ row.action = action /\ MoveOrder(o, action, row.to, role)
    BY <1>5 DEF OperatorTransition
  <2>2. order[o].state \in ChargedStates
    BY DEF TypeInv, TypeOK, OrderRows
  <2>3. \/ /\ order[o].state = "PENDIENTE_PAGO" /\ row.to = "PENDIENTE_CONFORMIDAD"
           /\ action = "CONFIRM_PROVIDER_PAYMENT"
        \/ order[o].state = "PENDIENTE_CONFORMIDAD" /\ row.to = "CERRADA"
    BY <2>1, <2>2 DEF OrderTransitions, Transition, ChargedStates
  <2> QED BY <2>1, <2>3 DEF MoveOrder, Moved
<1>6. CASE UNCHANGED vars
  BY <1>6 DEF vars
<1> QED BY <1>1, <1>2, <1>3, <1>4, <1>5, <1>6, CommitMovesOrder DEF Next

(* An order that got past its payment does not wait for it again.           *)
LEMMA OrdersStayPaid ==
    ASSUME TypeInv, [Next]_vars, NEW o \in Orders, order[o].state # "PENDIENTE_PAGO"
    PROVE  order'[o].state # "PENDIENTE_PAGO"
<1>1. order \in [Orders -> OrderRows]
  BY DEF TypeInv, TypeOK
<1>2. ASSUME NEW p \in Orders, NEW to \in {"PENDIENTE_CONFORMIDAD", "CERRADA"}, Moved(p, to)
      PROVE  order'[o].state # "PENDIENTE_PAGO"
  <2>1. CASE p = o
    BY <1>1, <1>2, <2>1 DEF Moved
  <2>2. CASE p # o
    BY <1>1, <1>2, <2>2 DEF Moved
  <2> QED BY <2>1, <2>2
<1>3. CASE UNCHANGED order
  BY <1>3
<1> QED BY <1>2, <1>3, OrdersAdvance

(* The provider's word for an attempt is not taken back.                    *)
LEMMA PaidStays ==
    ASSUME TypeInv, [Next]_vars, NEW a \in Attempts, PaidAtProvider(a)
    PROVE  PaidAtProvider(a)'
<1>1. PICK p \in approvals : payment[p].attempt = a /\ payment[p].amount = "owed"
  BY DEF PaidAtProvider
<1>2. p \in Payments /\ payment[p] # None
  BY DEF TypeInv, TypeOK
<1> QED BY <1>1, <1>2, ApprovalsStay DEF PaymentsStay, PaidAtProvider

(* A poll that approves was told so of a payment of what is owed.           *)
LEMMA ApprovesWhatIsPaid ==
    ASSUME ApprovalInv, NEW w \in Pollers, AppliesAnswer(w),
           poller[w].current.status = "APPROVED"
    PROVE  PaidAtProvider(poller[w].current.attempt)
<1>1. poller[w].current \in Snapshots /\ poller[w].current.payment \in Payments
  BY CommitWrites DEF ApprovalInv, AppliesAnswer, Snapshots
<1> QED BY <1>1 DEF ApprovalInv, AnswersTell, Tells, Matches, PaidAtProvider

LEMMA StepsKeepApprovals == ApprovalInv /\ [Next]_vars => ApprovalInv'
<1> SUFFICES ASSUME ApprovalInv, [Next]_vars PROVE ApprovalInv'
  OBVIOUS
<1>1. TypeInv /\ TypeInv'
  BY StepsKeepTypes DEF ApprovalInv
<1>2. AnswersTell'
  <2>1. ASSUME NEW s \in Snapshots, Tells(s) PROVE Tells(s)'
    <3>1. s.payment \in approvals => payment[s.payment] # None
      BY <1>1 DEF TypeInv, TypeOK
    <3>2. s.payment \in Payments
      BY DEF Snapshots
    <3> QED BY <1>1, <2>1, <3>1, <3>2, ApprovalsStay DEF Tells, PaymentsStay
  <2>2. \A p \in Payments : payment[p] # None /\ ~Refused(p) =>
          Snapshot(p) \in Snapshots /\ Tells(Snapshot(p))
    <3> SUFFICES ASSUME NEW p \in Payments, payment[p] # None, ~Refused(p)
                 PROVE  Snapshot(p) \in Snapshots /\ Tells(Snapshot(p))
      OBVIOUS
    <3>1. Mapped(payment[p].status) = "APPROVED" => p \in approvals
      BY DEF Mapped, ApprovalInv, ApprovalsAreKnown
    <3> QED BY <1>1, <3>1, SnapshotTypes DEF Snapshot, Tells
  <2>3. ASSUME NEW v \in Pollers
        PROVE  /\ \A s \in poller'[v].found : s \in Snapshots /\ Tells(s)
               /\ poller'[v].current \in Snapshots =>
                    Tells(poller'[v].current) /\ Matches(poller'[v].current)
    <3>1. Came(v) /\ poller[v].found \subseteq Snapshots
      BY <1>1, AnswersCome DEF TypeInv, TypeOK, Polls
    <3>2. \A s \in poller[v].found : Tells(s)
      BY DEF ApprovalInv, AnswersTell
    <3>3. poller[v].current \in Snapshots => Tells(poller[v].current) /\ Matches(poller[v].current)
      BY DEF ApprovalInv, AnswersTell
    <3> QED BY <2>2, <3>1, <3>2, <3>3 DEF Came
  <2>4. ASSUME NEW v \in Pollers
        PROVE  /\ \A s \in poller'[v].found : Tells(s)'
               /\ poller'[v].current \in Snapshots => (Tells(poller[v].current) /\ Matches(poller[v].current))'
    <3>1. \A s \in poller'[v].found : Tells(s)'
      BY <2>1, <2>3
    <3>2. ASSUME NEW s \in Snapshots, s = poller'[v].current
          PROVE  (Tells(poller[v].current) /\ Matches(poller[v].current))'
      <4>1. Tells(s)' /\ Matches(s)
        BY <2>1, <2>3, <3>2
      <4> QED BY <3>2, <4>1 DEF Tells, Matches
    <3> QED BY <3>1, <3>2
  <2> QED BY <2>4 DEF AnswersTell
<1>3. ASSUME NEW a \in Attempts, attempt'[a] # None, attempt'[a].state = "APPROVED"
      PROVE  PaidAtProvider(a)' /\ order'[attempt'[a].order].state # "PENDIENTE_PAGO"
  <2>1. ASSUME NEW o \in Orders, order[o].state # "PENDIENTE_PAGO"
        PROVE  order'[o].state # "PENDIENTE_PAGO"
    BY <1>1, <2>1, OrdersStayPaid
  <2>2. CASE /\ attempt[a] # None /\ attempt[a].state = "APPROVED"
             /\ attempt'[a].order = attempt[a].order
    <3>1. attempt[a].order \in Orders
      BY <1>1, <2>2, OneFieldWritten
    <3>2. PaidAtProvider(a) /\ order[attempt[a].order].state # "PENDIENTE_PAGO"
      BY <2>2 DEF ApprovalInv, ApprovedAttemptIsSettled
    <3> QED BY <1>1, <2>1, <2>2, <3>1, <3>2, PaidStays
  <2>3. CASE UNCHANGED attempt
    BY <1>3, <2>2, <2>3
  <2>4. ASSUME NEW b \in Browsers, NEW c \in Attempts, Inserts(b, c)
        PROVE  PaidAtProvider(a)' /\ order'[attempt'[a].order].state # "PENDIENTE_PAGO"
    <3>1. CASE a = c
      BY <1>1, <1>3, <2>4, <3>1 DEF Inserts, TypeInv, TypeOK
    <3>2. CASE a # c
      BY <1>1, <1>3, <2>2, <2>4, <3>2 DEF Inserts, TypeInv, TypeOK
    <3> QED BY <3>1, <3>2
  <2>5. ASSUME NEW c \in Attempts, NEW url \in BOOLEAN,
               NEW state \in ActiveStates \cup TerminalStates,
               Written(c, state, url), UNCHANGED payment,
               a # c \/ state = attempt[c].state \/ state # "APPROVED"
        PROVE  PaidAtProvider(a)' /\ order'[attempt'[a].order].state # "PENDIENTE_PAGO"
    <3>1. /\ RowsStay /\ attempt'[c].state = state
          /\ \A d \in Attempts \ {c} : attempt'[d] = attempt[d]
      BY <1>1, <2>5, AttemptWritten
    <3> QED BY <1>3, <2>2, <2>5, <3>1 DEF Written, RowsStay
  <2>6. CASE UpdatesById /\ UNCHANGED payment
    <3>1. PICK c \in Attempts, url \in BOOLEAN :
            \E state \in {attempt[c].state, "CANCELLED", "UNKNOWN", "CREATED"} :
              Written(c, state, url)
      BY <2>6 DEF UpdatesById
    <3> PICK state \in {attempt[c].state, "CANCELLED", "UNKNOWN", "CREATED"} :
          Written(c, state, url)
      BY <3>1
    <3>2. state \in ActiveStates \cup TerminalStates
      BY <1>1, OneFieldWritten DEF Written, ActiveStates, TerminalStates
    <3> QED BY <2>5, <2>6, <3>2
  <2>7. ASSUME NEW w \in Pollers, AppliesAnswer(w), UNCHANGED payment
        PROVE  PaidAtProvider(a)' /\ order'[attempt'[a].order].state # "PENDIENTE_PAGO"
    <3>1. PICK s \in Snapshots : /\ s = poller[w].current /\ attempt[s.attempt] # None
                                 /\ s.status \in ActiveStates \cup TerminalStates
                                 /\ Written(s.attempt, s.status, attempt[s.attempt].url)
      BY <1>1, <2>7, CommitWrites DEF AppliesAnswer
    <3>2. /\ s.attempt \in Attempts /\ attempt[s.attempt].url \in BOOLEAN
          /\ attempt[s.attempt].order \in Orders
      BY <1>1, <3>1, OneFieldWritten DEF Snapshots
    <3>3. CASE a = s.attempt /\ s.status = "APPROVED"
      <4>1. PaidAtProvider(a)'
        BY <1>1, <2>7, <3>1, <3>3, ApprovesWhatIsPaid, PaidStays
      <4>2. attempt'[a].order = attempt[a].order
        BY <1>1, <2>7, <3>1, <3>2, <3>3, AttemptWritten DEF RowsStay
      <4>3. order'[attempt[a].order].state # "PENDIENTE_PAGO"
        <5>1. ApplyCommit(w) /\ attempt'[a] # attempt[a]
          BY <1>3, <2>7, <3>1, <3>3 DEF AppliesAnswer, Active, ActiveStates
        <5>2. StillAsRead(w)
          BY <5>1, CommitWrites, <1>1
        <5> DEFINE o == attempt[a].order
        <5>3. \/ /\ Advances(o, s.status)
                 /\ MoveOrder(o, "CONFIRM_PROVIDER_PAYMENT", "PENDIENTE_CONFORMIDAD",
                              "VERIFIED_PROVIDER")
              \/ ~Advances(o, s.status) /\ UNCHANGED order
          BY <3>1, <3>3, <5>1, <5>2 DEF ApplyCommit
        <5>4. Advances(o, s.status) <=> order[o].state = "PENDIENTE_PAGO"
          BY <3>3 DEF Advances, CanAdvanceOrderAfterPayment
        <5>5. o \in Orders
          BY <3>2, <3>3
        <5> HIDE DEF o
        <5>6. order'[o].state # "PENDIENTE_PAGO"
          BY <1>1, <5>3, <5>4, <5>5 DEF MoveOrder, TypeInv, TypeOK
        <5> QED BY <5>6 DEF o
      <4> QED BY <4>1, <4>2, <4>3
    <3> QED BY <2>5, <2>7, <3>1, <3>2, <3>3
  <2> QED BY <1>1, <2>3, <2>4, <2>6, <2>7, AttemptsMove
<1>4. ApprovedAttemptIsSettled'
  BY <1>3 DEF ApprovedAttemptIsSettled
<1>5. ApprovalsAreKnown'
  BY <1>1, ApprovalsStay DEF ApprovalInv, PaymentsStay
<1> QED BY <1>1, <1>2, <1>4, <1>5 DEF ApprovalInv

LEMMA InitApprovals == Init => ApprovalInv
<1> SUFFICES ASSUME Init PROVE ApprovalInv
  OBVIOUS
<1>1. AnswersTell
  BY NoRowAssumption DEF Init, Resting, AnswersTell
<1>2. ApprovedAttemptIsSettled /\ ApprovalsAreKnown
  BY DEF Init, ApprovedAttemptIsSettled, ApprovalsAreKnown
<1> QED BY <1>1, <1>2, InitTypes DEF ApprovalInv

(* feat-007 AC-007-008: an attempt says APPROVED only if the provider        *)
(* approved a payment of what is owed, and then its order does not wait for *)
(* the payment any more, whatever operators request.                        *)
THEOREM ApprovalsAreSettled == Spec => []ApprovedAttemptIsSettled
<1>1. Spec => []ApprovalInv
  BY InitApprovals, StepsKeepApprovals, PTL DEF Spec
<1>2. ApprovalInv => ApprovedAttemptIsSettled
  BY DEF ApprovalInv
<1> QED BY <1>1, <1>2, PTL

LEMMA AttemptsStay ==
    ASSUME TypeInv, [Next]_vars, NEW o \in Orders, NEW a \in AttemptsOf(o)
    PROVE  a \in AttemptsOf(o)'
<1>1. ASSUME NEW c \in Attempts, NEW url \in BOOLEAN,
             NEW state \in ActiveStates \cup TerminalStates,
             Written(c, state, url), UNCHANGED payment
      PROVE  a \in AttemptsOf(o)'
  BY <1>1, AttemptWritten
<1>2. CASE UNCHANGED attempt
  BY <1>2 DEF AttemptsOf
<1>3. ASSUME NEW b \in Browsers, NEW c \in Attempts, Inserts(b, c)
      PROVE  a \in AttemptsOf(o)'
  BY <1>3 DEF Inserts, AttemptsOf, TypeInv, TypeOK
<1>4. CASE UpdatesById /\ UNCHANGED payment
  <2>1. PICK c \in Attempts, url \in BOOLEAN :
          \E state \in {attempt[c].state, "CANCELLED", "UNKNOWN", "CREATED"} :
            Written(c, state, url)
    BY <1>4 DEF UpdatesById
  <2> PICK state \in {attempt[c].state, "CANCELLED", "UNKNOWN", "CREATED"} :
        Written(c, state, url)
    BY <2>1
  <2>2. state \in ActiveStates \cup TerminalStates
    BY OneFieldWritten DEF Written, ActiveStates, TerminalStates
  <2> QED BY <1>1, <1>4, <2>2
<1>5. ASSUME NEW w \in Pollers, AppliesAnswer(w), UNCHANGED payment
      PROVE  a \in AttemptsOf(o)'
  <2>1. PICK s \in Snapshots : /\ s = poller[w].current /\ attempt[s.attempt] # None
                               /\ s.status \in ActiveStates \cup TerminalStates
                               /\ Written(s.attempt, s.status, attempt[s.attempt].url)
    BY <1>5, CommitWrites DEF AppliesAnswer
  <2>2. s.attempt \in Attempts /\ attempt[s.attempt].url \in BOOLEAN
    BY <2>1, OneFieldWritten DEF Snapshots
  <2> QED BY <1>1, <1>5, <2>1, <2>2
<1> QED BY <1>2, <1>3, <1>4, <1>5, AttemptsMove

(* While operators do not ask for the confirmation of a payment, an order   *)
(* gets past its payment only if the provider approved a payment of what is *)
(* owed for one of its attempts.                                            *)
THEOREM OrdersPassOnlyWhenPaid ==
    ASSUME "CONFIRM_PROVIDER_PAYMENT" \notin OperatorActions
    PROVE  Spec => []PaidOnlyWhenApproved
<1>1. Init => ApprovalInv /\ PaidOnlyWhenApproved
  BY InitApprovals DEF Init, PaidOnlyWhenApproved
<1>2. ApprovalInv /\ PaidOnlyWhenApproved /\ [Next]_vars
        => ApprovalInv' /\ PaidOnlyWhenApproved'
  <2> SUFFICES ASSUME ApprovalInv, PaidOnlyWhenApproved, [Next]_vars
               PROVE  PaidOnlyWhenApproved'
    BY StepsKeepApprovals
  <2>1. TypeInv
    BY DEF ApprovalInv
  <2>2. ASSUME NEW o \in Orders, order'[o].state # "PENDIENTE_PAGO"
        PROVE  \E a \in AttemptsOf(o) : PaidAtProvider(a)
    <3>1. CASE order[o].state # "PENDIENTE_PAGO"
      BY <3>1 DEF PaidOnlyWhenApproved
    <3>2. CASE order[o].state = "PENDIENTE_PAGO"
      <4>1. PICK w \in Pollers : Approves(w, o)
        BY <2>1, <2>2, <3>2, OrdersAdvance DEF Moved, TypeInv, TypeOK
      <4>2. PaidAtProvider(poller[w].current.attempt)
        BY <4>1, ApprovesWhatIsPaid DEF Approves
      <4>3. poller[w].current.attempt \in AttemptsOf(o)
        BY <2>1, <4>1, CommitWrites DEF Approves, AppliesAnswer, Snapshots, AttemptsOf
      <4> QED BY <4>2, <4>3
    <3> QED BY <3>1, <3>2
  <2>3. ASSUME NEW o \in Orders, order'[o].state # "PENDIENTE_PAGO"
        PROVE  \E a \in AttemptsOf(o)' : PaidAtProvider(a)'
    <3>1. PICK a \in AttemptsOf(o) : PaidAtProvider(a)
      BY <2>2, <2>3
    <3>2. a \in AttemptsOf(o)' /\ a \in Attempts
      BY <2>1, AttemptsStay DEF AttemptsOf
    <3> QED BY <2>1, <3>1, <3>2, PaidStays
  <2> QED BY <2>3 DEF PaidOnlyWhenApproved
<1> QED BY <1>1, <1>2, PTL DEF Spec

-----------------------------------------------------------------------------
(* Answers and the contract.                                                *)

LEMMA OnlyCommitsApply ==
    ASSUME TypeInv, [Next]_vars, NEW w \in Pollers,
           poller[w].pc = "commit", poller'[w].pc = "apply"
    PROVE  ApplyCommit(w)
<1>1. poller'[w] # poller[w]
  OBVIOUS
<1>2. ASSUME NEW b \in Browsers, CheckoutStep(b) \/ CheckoutDies(b) PROVE FALSE
  BY <1>1, <1>2 DEF CheckoutStep, CheckoutRead, CheckoutCreate, CheckoutPrefer,
              CheckoutSaveUrl, CheckoutCancel, CheckoutUncertain, CheckoutDies
<1>3. CASE ProviderStep \/ \E p \in Payments : LeaseExpires(p)
  BY <1>1, <1>3 DEF ProviderStep, Pay, Settle, PaymentBecomes, WebhookReceive, LeaseExpires
<1>4. ASSUME NEW o \in Orders,
             Conformity(o) \/ \E action \in OperatorActions : OperatorTransition(o, action)
      PROVE  FALSE
  BY <1>1, <1>4 DEF Conformity, OperatorTransition
<1>5. ASSUME NEW v \in Pollers, PollStep(v) \/ PollStepFails(v) \/ PollDies(v)
      PROVE  ApplyCommit(w)
  <2>1. v = w
    <3>1. ASSUME NEW next, PollerTo(v, next) PROVE v = w
      BY <1>1, <3>1 DEF PollerTo, TypeInv, TypeOK
    <3> QED BY <1>5, <3>1
            DEF PollStep, PollStepFails, PollDies, GiveUp, ApplyMismatch, PollJob, ClaimJob,
                FetchPayment, AnswerTaken, AnswerRefused, FinishJob, PollScan, ScanNext, FindPreference, RestoreAttempt,
                SearchPayments, ApplyRead, ApplyEnd, ApplyCommit
  <2>2. CASE PollStep(w)
    BY <2>2 DEF PollStep, ApplyMismatch, PollJob, ClaimJob, FetchPayment, AnswerTaken, AnswerRefused, FinishJob,
                PollScan, ScanNext, FindPreference, RestoreAttempt, SearchPayments,
                ApplyRead, ApplyEnd
  <2>3. CASE GiveUp(w) \/ PollerTo(w, Resting)
    <3>1. ASSUME NEW next, PollerTo(w, next) PROVE next.pc = "apply"
      BY <3>1 DEF PollerTo, TypeInv, TypeOK
    <3>2. poller[w] \in Polls
      BY PollRecord
    <3>3. NextAttempt(w).pc = "scan"
      BY <3>2 DEF NextAttempt, Polls
    <3> DEFINE retry == [Resting EXCEPT !.pc = "retry", !.job = poller[w].job]
    <3>4. retry.pc = "retry" /\ Resting.pc = "idle"
      BY DEF Resting
    <3>5. PollerTo(w, NextAttempt(w)) \/ PollerTo(w, retry) \/ PollerTo(w, Resting)
      BY <2>3 DEF GiveUp
    <3> HIDE DEF retry
    <3> QED BY <3>1, <3>3, <3>4, <3>5
  <2> QED BY <1>5, <2>1, <2>2, <2>3 DEF PollStepFails, PollDies
<1>6. CASE UNCHANGED vars
  BY <1>1, <1>6 DEF vars
<1> QED BY <1>2, <1>3, <1>4, <1>5, <1>6 DEF Next

(* feat-007 REQ-007-006: an answer that is applied moves its attempt along  *)
(* a row of PAYMENT_TRANSITIONS, however many polls overlap and however old *)
(* the answer is.                                                           *)
THEOREM AnswersAreRows == Spec => AnswersFollowTheContract
<1>1. TypeInv /\ [Next]_vars =>
        [\A w \in Pollers : poller[w].pc = "commit" /\ poller'[w].pc = "apply" =>
           \A a \in Attempts : attempt'[a] # attempt[a] =>
              <<IF attempt[a].state = "UNKNOWN" THEN "CREATED" ELSE attempt[a].state,
                attempt'[a].state>> \in PaymentTransitions]_vars
  <2> SUFFICES ASSUME TypeInv, [Next]_vars, NEW w \in Pollers,
                      poller[w].pc = "commit", poller'[w].pc = "apply",
                      NEW a \in Attempts, attempt'[a] # attempt[a]
               PROVE  <<IF attempt[a].state = "UNKNOWN" THEN "CREATED" ELSE attempt[a].state,
                        attempt'[a].state>> \in PaymentTransitions
    OBVIOUS
  <2>1. ApplyCommit(w)
    BY OnlyCommitsApply
  <2>2. PICK s \in Snapshots :
          /\ attempt[s.attempt] # None /\ Active(s.attempt)
          /\ s.status \in (ActiveStates \ {"CREATED", "UNKNOWN"}) \cup TerminalStates
          /\ Written(s.attempt, s.status, attempt[s.attempt].url)
    BY <2>1, CommitWrites
  <2>3. s.attempt \in Attempts /\ attempt[s.attempt].url \in BOOLEAN /\ UNCHANGED payment
    BY <2>1, <2>2, OneFieldWritten DEF Snapshots, ApplyCommit, ElsewhereUnchanged, providerVars
  <2>4. a = s.attempt /\ attempt'[a].state = s.status
    BY <2>2, <2>3, AttemptWritten
  <2>5. attempt[a].state # s.status
    <3>1. attempt[a] \in AttemptRows
      BY <2>2, <2>4 DEF TypeInv, TypeOK
    <3>2. attempt'[a] = [attempt[a] EXCEPT !.state = s.status, !.url = attempt[a].url]
      BY <2>2, <2>4 DEF Written, TypeInv, TypeOK
    <3> QED BY <3>1, <3>2 DEF AttemptRows
  <2> QED BY <2>2, <2>4, <2>5 DEF Active, ActiveStates, TerminalStates, PaymentTransitions
<1>2. Spec => []TypeInv
  BY InitTypes, StepsKeepTypes, PTL DEF Spec
<1> QED BY <1>1, <1>2, PTL DEF Spec, AnswersFollowTheContract

-----------------------------------------------------------------------------
(* Histories.  A charged order has the rows of the moves it made, the       *)
(* events of those that were the provider's or the client's, and the        *)
(* conformity of the last.                                                  *)

PaidRow(o, by) == [order |-> o, version |-> ChargedVersion + 1,
                   action |-> "CONFIRM_PROVIDER_PAYMENT", by |-> by]
ClosedRow(o, by) == [order |-> o, version |-> ChargedVersion + 2,
                     action |-> "CONFIRM_CLIENT_CONFORMITY", by |-> by]
RowsOf(o) == {row \in transitions : row.order = o}

Payers == OperatorRoles \cup {"VERIFIED_PROVIDER"}
Closers == OperatorRoles \cup {"CLIENT"}

Notified(o, paid, closed) ==
    /\ outbox[o]["payment.approved"] = IF paid THEN 1 ELSE 0
    /\ outbox[o]["work_order.closed"] = IF closed THEN 1 ELSE 0
    /\ o \in conformity <=> closed

Unpaid(o) ==
    order[o].state = "PENDIENTE_PAGO" /\ RowsOf(o) = {} /\ Notified(o, FALSE, FALSE)
Paid(o) ==
    /\ order[o].state = "PENDIENTE_CONFORMIDAD"
    /\ \E by \in Payers : /\ RowsOf(o) = {PaidRow(o, by)}
                          /\ Notified(o, by = "VERIFIED_PROVIDER", FALSE)
Closed(o) ==
    /\ order[o].state = "CERRADA"
    /\ \E by \in Payers, closer \in Closers :
         /\ RowsOf(o) = {PaidRow(o, by), ClosedRow(o, closer)}
         /\ Notified(o, by = "VERIFIED_PROVIDER", closer = "CLIENT")
         /\ closer = "CLIENT" \/ "CONFIRM_CLIENT_CONFORMITY" \in OperatorActions

HistoryInv == TypeInv /\ \A o \in Orders : Unpaid(o) \/ Paid(o) \/ Closed(o)

(* The steps that make history.                                             *)
SameNews(o) ==
    /\ order'[o] = order[o] /\ RowsOf(o)' = RowsOf(o)
    /\ (o \in conformity') <=> (o \in conformity)
    /\ \A event \in {"payment.approved", "work_order.closed"} :
         outbox'[o][event] = outbox[o][event]

PaidBy(o, by) ==
    /\ order[o].state = "PENDIENTE_PAGO" /\ UNCHANGED conformity
    /\ MoveOrder(o, "CONFIRM_PROVIDER_PAYMENT", "PENDIENTE_CONFORMIDAD", by)
    /\ \/ by = "VERIFIED_PROVIDER" /\ Emit(o, "payment.approved")
       \/ by \in OperatorRoles /\ UNCHANGED outbox

ClosedBy(o, by) ==
    /\ order[o].state = "PENDIENTE_CONFORMIDAD"
    /\ MoveOrder(o, "CONFIRM_CLIENT_CONFORMITY", "CERRADA", by)
    /\ \/ /\ by = "CLIENT" /\ Emit(o, "work_order.closed")
          /\ conformity' = conformity \cup {o}
       \/ /\ by \in OperatorRoles /\ UNCHANGED <<conformity, outbox>>
          /\ "CONFIRM_CLIENT_CONFORMITY" \in OperatorActions

LEMMA HistoryMoves ==
    ASSUME TypeInv, [Next]_vars
    PROVE  \/ \A o \in Orders : SameNews(o)
           \/ \E o \in Orders, by \in Payers : PaidBy(o, by)
           \/ \E o \in Orders, by \in Closers : ClosedBy(o, by)
<1>1. CASE UNCHANGED orderVars
  BY <1>1 DEF orderVars, SameNews, RowsOf
<1>2. ASSUME NEW b \in Browsers, CheckoutStep(b) \/ CheckoutDies(b) PROVE UNCHANGED orderVars
  BY <1>2 DEF CheckoutStep, CheckoutRead, CheckoutCreate, CheckoutPrefer, CheckoutSaveUrl,
              CheckoutCancel, CheckoutUncertain, CheckoutDies
<1>3. CASE ProviderStep \/ \E p \in Payments : LeaseExpires(p)
  BY <1>1, <1>3 DEF ProviderStep, Pay, Settle, PaymentBecomes, WebhookReceive, LeaseExpires
<1>4. ASSUME NEW w \in Pollers, PollStep(w) \/ PollStepFails(w) \/ PollDies(w),
             ~ApplyCommit(w)
      PROVE  UNCHANGED orderVars
  BY <1>4 DEF PollStep, PollStepFails, PollDies, GiveUp, ApplyMismatch, PollJob, ClaimJob,
              FetchPayment, AnswerTaken, AnswerRefused, FinishJob, PollScan, ScanNext, FindPreference, RestoreAttempt,
              SearchPayments, ApplyRead, ApplyEnd, OnlyPollerMoves
<1>5. ASSUME NEW w \in Pollers, ApplyCommit(w)
      PROVE  \/ \A o \in Orders : SameNews(o)
             \/ \E o \in Orders, by \in Payers : PaidBy(o, by)
  <2> DEFINE s == poller[w].current
             o == attempt[s.attempt].order
  <2>1. o \in Orders /\ UNCHANGED conformity
    BY <1>5, CommitWrites, OneFieldWritten DEF ApplyCommit, Snapshots
  <2>2. CASE UNCHANGED <<order, transitions, outbox>>
    BY <2>1, <2>2 DEF SameNews, RowsOf
  <2>3. CASE Emit(o, "payment.rejected") /\ UNCHANGED <<order, transitions>>
    <3>1. \A x \in Orders : \A event \in {"payment.approved", "work_order.closed"} :
            outbox'[x][event] = outbox[x][event]
      BY <2>3 DEF Emit, EventTypes, TypeInv, TypeOK
    <3> QED BY <2>1, <2>3, <3>1 DEF SameNews, RowsOf
  <2>4. CASE /\ Advances(o, s.status) /\ Emit(o, "payment.approved")
             /\ MoveOrder(o, "CONFIRM_PROVIDER_PAYMENT", "PENDIENTE_CONFORMIDAD",
                          "VERIFIED_PROVIDER")
    <3>1. PaidBy(o, "VERIFIED_PROVIDER")
      BY <2>1, <2>4 DEF PaidBy, Advances
    <3> QED BY <2>1, <3>1 DEF Payers
  <2> QED BY <1>5, <2>2, <2>3, <2>4 DEF ApplyCommit
<1>6. ASSUME NEW o \in Orders, Conformity(o)
      PROVE  \E by \in Closers : ClosedBy(o, by)
  <2>1. ClosedBy(o, "CLIENT")
    BY <1>6 DEF Conformity, ClosedBy
  <2> QED BY <2>1 DEF Closers
<1>7. ASSUME NEW o \in Orders, NEW action \in OperatorActions, OperatorTransition(o, action)
      PROVE  \/ \E by \in Payers : PaidBy(o, by)
             \/ \E by \in Closers : ClosedBy(o, by)
  <2>1. PICK row \in OrderTransitions, role \in OperatorRoles :
          row.from = order[o].state /\ row.action = action /\ MoveOrder(o, action, row.to, role)
    BY <1>7 DEF OperatorTransition
  <2>2. order[o].state \in ChargedStates
    BY DEF TypeInv, TypeOK, OrderRows
  <2>3. \/ /\ order[o].state = "PENDIENTE_PAGO" /\ row.to = "PENDIENTE_CONFORMIDAD"
           /\ action = "CONFIRM_PROVIDER_PAYMENT"
        \/ /\ order[o].state = "PENDIENTE_CONFORMIDAD" /\ row.to = "CERRADA"
           /\ action = "CONFIRM_CLIENT_CONFORMITY"
    BY <2>1, <2>2 DEF OrderTransitions, Transition, ChargedStates
  <2>4. PaidBy(o, role) \/ ClosedBy(o, role)
    BY <1>7, <2>1, <2>3 DEF OperatorTransition, PaidBy, ClosedBy
  <2> QED BY <2>4 DEF Payers, Closers
<1>8. CASE UNCHANGED vars
  BY <1>1, <1>8 DEF vars, orderVars
<1> QED BY <1>1, <1>2, <1>3, <1>4, <1>5, <1>6, <1>7, <1>8 DEF Next

(* One order makes one move; the history of the others stays.               *)
LEMMA HistoryGrows ==
    ASSUME HistoryInv, NEW o \in Orders, NEW action, NEW to, NEW by,
           MoveOrder(o, action, to, by)
    PROVE  /\ order'[o].state = to
           /\ RowsOf(o)' = RowsOf(o) \cup {[order |-> o, version |-> order[o].version + 1,
                                            action |-> action, by |-> by]}
           /\ \A p \in Orders \ {o} : order'[p] = order[p] /\ RowsOf(p)' = RowsOf(p)
<1>1. /\ order'[o].state = to
      /\ \A p \in Orders \ {o} : order'[p] = order[p]
  BY DEF MoveOrder, HistoryInv, TypeInv, TypeOK
<1>2. /\ RowsOf(o)' = RowsOf(o) \cup {[order |-> o, version |-> order[o].version + 1,
                                       action |-> action, by |-> by]}
      /\ \A p \in Orders \ {o} : RowsOf(p)' = RowsOf(p)
  BY DEF MoveOrder, RowsOf
<1> QED BY <1>1, <1>2

LEMMA NewsGrow ==
    ASSUME HistoryInv, NEW o \in Orders, NEW event \in EventTypes, Emit(o, event)
    PROVE  /\ outbox'[o][event] = outbox[o][event] + 1
           /\ \A other \in EventTypes \ {event} : outbox'[o][other] = outbox[o][other]
           /\ \A p \in Orders \ {o} : outbox'[p] = outbox[p]
BY DEF Emit, HistoryInv, TypeInv, TypeOK

LEMMA SameHistory ==
    ASSUME NEW o \in Orders, Unpaid(o) \/ Paid(o) \/ Closed(o), SameNews(o)
    PROVE  Unpaid(o)' \/ Paid(o)' \/ Closed(o)'
<1>1. ASSUME NEW paid \in BOOLEAN, NEW closed \in BOOLEAN, Notified(o, paid, closed)
      PROVE  Notified(o, paid, closed)'
  BY <1>1 DEF Notified, SameNews
<1>2. CASE Unpaid(o)
  BY <1>1, <1>2 DEF Unpaid, SameNews
<1>3. CASE Paid(o)
  BY <1>1, <1>3 DEF Paid, SameNews, PaidRow
<1>4. CASE Closed(o)
  <2>1. PICK by \in Payers, closer \in Closers :
          /\ RowsOf(o) = {PaidRow(o, by), ClosedRow(o, closer)}
          /\ Notified(o, by = "VERIFIED_PROVIDER", closer = "CLIENT")
          /\ closer = "CLIENT" \/ "CONFIRM_CLIENT_CONFORMITY" \in OperatorActions
    BY <1>4 DEF Closed
  <2>2. Notified(o, by = "VERIFIED_PROVIDER", closer = "CLIENT")'
    BY <2>1 DEF Notified, SameNews
  <2>3. RowsOf(o)' = {PaidRow(o, by), ClosedRow(o, closer)} /\ order'[o].state = "CERRADA"
    BY <1>4, <2>1 DEF SameNews, Closed
  <2> QED BY <2>1, <2>2, <2>3 DEF Closed
<1> QED BY <1>2, <1>3, <1>4

LEMMA StepsKeepHistory == HistoryInv /\ [Next]_vars => HistoryInv'
<1> SUFFICES ASSUME HistoryInv, [Next]_vars PROVE HistoryInv'
  OBVIOUS
<1>1. TypeInv /\ TypeInv'
  BY StepsKeepTypes DEF HistoryInv
<1>2. CASE \A o \in Orders : SameNews(o)
  BY <1>1, <1>2, SameHistory DEF HistoryInv
<1>3. ASSUME NEW o \in Orders, NEW by \in Payers, PaidBy(o, by) PROVE HistoryInv'
  <2>1. Unpaid(o) /\ order[o].version = ChargedVersion
    BY <1>1, <1>3 DEF HistoryInv, PaidBy, Paid, Closed, TypeInv, VersionsTellState
  <2>2. /\ order'[o].state = "PENDIENTE_CONFORMIDAD" /\ RowsOf(o)' = {PaidRow(o, by)}
        /\ \A p \in Orders \ {o} : order'[p] = order[p] /\ RowsOf(p)' = RowsOf(p)
    BY <1>3, <2>1, HistoryGrows DEF PaidBy, Unpaid, PaidRow, ChargedVersion
  <2>3. /\ outbox'[o]["payment.approved"] = IF by = "VERIFIED_PROVIDER" THEN 1 ELSE 0
        /\ outbox'[o]["work_order.closed"] = 0 /\ o \notin conformity'
        /\ \A p \in Orders \ {o} : outbox'[p] = outbox[p] /\ UNCHANGED conformity
    BY <1>3, <2>1, NewsGrow DEF PaidBy, Unpaid, Notified, EventTypes, OperatorRoles
  <2>4. Paid(o)'
    BY <2>2, <2>3 DEF Paid, Notified
  <2>5. ASSUME NEW p \in Orders \ {o} PROVE SameNews(p)
    BY <2>2, <2>3 DEF SameNews
  <2> QED BY <1>1, <2>4, <2>5, SameHistory DEF HistoryInv
<1>4. ASSUME NEW o \in Orders, NEW by \in Closers, ClosedBy(o, by) PROVE HistoryInv'
  <2>1. Paid(o) /\ order[o].version = ChargedVersion + 1
    BY <1>1, <1>4 DEF HistoryInv, ClosedBy, Unpaid, Closed, TypeInv, VersionsTellState
  <2>2. PICK payer \in Payers : /\ RowsOf(o) = {PaidRow(o, payer)}
                                /\ Notified(o, payer = "VERIFIED_PROVIDER", FALSE)
    BY <2>1 DEF Paid
  <2>3. /\ order'[o].state = "CERRADA"
        /\ RowsOf(o)' = {PaidRow(o, payer), ClosedRow(o, by)}
        /\ \A p \in Orders \ {o} : order'[p] = order[p] /\ RowsOf(p)' = RowsOf(p)
    BY <1>4, <2>1, <2>2, HistoryGrows DEF ClosedBy, ClosedRow, ChargedVersion
  <2>4. /\ outbox'[o]["payment.approved"] = IF payer = "VERIFIED_PROVIDER" THEN 1 ELSE 0
        /\ outbox'[o]["work_order.closed"] = IF by = "CLIENT" THEN 1 ELSE 0
        /\ o \in conformity' <=> by = "CLIENT"
        /\ \A p \in Orders \ {o} : /\ outbox'[p] = outbox[p]
                                   /\ p \in conformity' <=> p \in conformity
    BY <1>4, <2>2, NewsGrow DEF ClosedBy, Notified, EventTypes, OperatorRoles
  <2>5. Closed(o)'
    BY <1>4, <2>2, <2>3, <2>4 DEF Closed, Notified, ClosedBy, OperatorRoles
  <2>6. ASSUME NEW p \in Orders \ {o} PROVE SameNews(p)
    BY <2>3, <2>4 DEF SameNews
  <2> QED BY <1>1, <2>5, <2>6, SameHistory DEF HistoryInv
<1> QED BY <1>1, <1>2, <1>3, <1>4, HistoryMoves

LEMMA InitHistory == Init => HistoryInv
<1> SUFFICES ASSUME Init, NEW o \in Orders PROVE Unpaid(o)
  BY InitTypes DEF HistoryInv
<1> QED BY DEF Init, Unpaid, RowsOf, Notified, EventTypes

LEMMA HistoryIsKept == Spec => []HistoryInv
BY InitHistory, StepsKeepHistory, PTL DEF Spec

(* The client hears of the approval once and of the closing once, exactly   *)
(* when the provider's word or the client's conformity moved the order, and *)
(* an order makes each of its moves once.                                   *)
THEOREM NotifiedOnce == Spec => []NotifiedOncePerMove
<1>1. ASSUME HistoryInv, NEW o \in Orders
      PROVE  /\ outbox[o]["payment.approved"] =
                  Moves(o, "CONFIRM_PROVIDER_PAYMENT", {"VERIFIED_PROVIDER"})
             /\ outbox[o]["work_order.closed"] =
                  Moves(o, "CONFIRM_CLIENT_CONFORMITY", {"CLIENT"})
             /\ \A action \in TransitionActions : Moves(o, action, Actors) <= 1
  <2> DEFINE Made(action, by) == {row \in transitions :
                                    row.order = o /\ row.action = action /\ row.by \in by}
  <2>1. \A action, by : Made(action, by) = {row \in RowsOf(o) :
                                              row.action = action /\ row.by \in by}
    BY DEF RowsOf
  <2>2. \A action, by : Moves(o, action, by) = Cardinality(Made(action, by))
    BY DEF Moves
  <2>3. /\ Cardinality({}) = 0 /\ \A row : Cardinality({row}) = 1
    BY FS_EmptySet, FS_Singleton
  <2> HIDE DEF Made
  <2>4. CASE Unpaid(o)
    <3>1. \A action, by : Made(action, by) = {}
      BY <2>1, <2>4 DEF Unpaid
    <3> QED BY <2>2, <2>3, <2>4, <3>1 DEF Unpaid, Notified
  <2>5. CASE Paid(o)
    <3>1. PICK payer \in Payers : /\ RowsOf(o) = {PaidRow(o, payer)}
                                  /\ Notified(o, payer = "VERIFIED_PROVIDER", FALSE)
      BY <2>5 DEF Paid
    <3>2. \A action, by : Made(action, by) =
            IF action = "CONFIRM_PROVIDER_PAYMENT" /\ payer \in by
            THEN {PaidRow(o, payer)} ELSE {}
      <4>1. PaidRow(o, payer).action = "CONFIRM_PROVIDER_PAYMENT"
            /\ PaidRow(o, payer).by = payer
        BY DEF PaidRow
      <4>2. ASSUME NEW action, NEW by, NEW row, row \in Made(action, by)
            PROVE  /\ action = "CONFIRM_PROVIDER_PAYMENT" /\ payer \in by
                   /\ row = PaidRow(o, payer)
        BY <2>1, <3>1, <4>1, <4>2
      <4>3. ASSUME NEW action, NEW by, payer \in by, action = "CONFIRM_PROVIDER_PAYMENT"
            PROVE  PaidRow(o, payer) \in Made(action, by)
        BY <2>1, <3>1, <4>1, <4>3
      <4> QED BY <4>2, <4>3
    <3>3. \A action, by : Moves(o, action, by) =
            IF action = "CONFIRM_PROVIDER_PAYMENT" /\ payer \in by THEN 1 ELSE 0
      BY <2>2, <2>3, <3>2
    <3>4. /\ Moves(o, "CONFIRM_PROVIDER_PAYMENT", {"VERIFIED_PROVIDER"}) =
               IF payer = "VERIFIED_PROVIDER" THEN 1 ELSE 0
          /\ Moves(o, "CONFIRM_CLIENT_CONFORMITY", {"CLIENT"}) = 0
          /\ \A action : Moves(o, action, Actors) <= 1
      BY <3>3
    <3> QED BY <3>1, <3>4 DEF Notified
  <2>6. CASE Closed(o)
    <3>1. PICK payer \in Payers, closer \in Closers :
            /\ RowsOf(o) = {PaidRow(o, payer), ClosedRow(o, closer)}
            /\ Notified(o, payer = "VERIFIED_PROVIDER", closer = "CLIENT")
      BY <2>6 DEF Closed
    <3>2. \A action, by : Made(action, by) =
            IF action = "CONFIRM_PROVIDER_PAYMENT" /\ payer \in by
            THEN {PaidRow(o, payer)}
            ELSE IF action = "CONFIRM_CLIENT_CONFORMITY" /\ closer \in by
            THEN {ClosedRow(o, closer)} ELSE {}
      <4>1. /\ PaidRow(o, payer).action = "CONFIRM_PROVIDER_PAYMENT"
            /\ PaidRow(o, payer).by = payer
            /\ ClosedRow(o, closer).action = "CONFIRM_CLIENT_CONFORMITY"
            /\ ClosedRow(o, closer).by = closer
        BY DEF PaidRow, ClosedRow
      <4>2. ASSUME NEW action, NEW by, NEW row, row \in Made(action, by)
            PROVE  \/ /\ action = "CONFIRM_PROVIDER_PAYMENT" /\ payer \in by
                      /\ row = PaidRow(o, payer)
                   \/ /\ action = "CONFIRM_CLIENT_CONFORMITY" /\ closer \in by
                      /\ row = ClosedRow(o, closer)
        BY <2>1, <3>1, <4>1, <4>2
      <4>3. ASSUME NEW action, NEW by, payer \in by, action = "CONFIRM_PROVIDER_PAYMENT"
            PROVE  PaidRow(o, payer) \in Made(action, by)
        BY <2>1, <3>1, <4>1, <4>3
      <4>4. ASSUME NEW action, NEW by, closer \in by, action = "CONFIRM_CLIENT_CONFORMITY"
            PROVE  ClosedRow(o, closer) \in Made(action, by)
        BY <2>1, <3>1, <4>1, <4>4
      <4> QED BY <4>2, <4>3, <4>4
    <3>3. \A action, by : Moves(o, action, by) =
            IF \/ action = "CONFIRM_PROVIDER_PAYMENT" /\ payer \in by
               \/ action = "CONFIRM_CLIENT_CONFORMITY" /\ closer \in by
            THEN 1 ELSE 0
      BY <2>2, <2>3, <3>2
    <3>4. /\ Moves(o, "CONFIRM_PROVIDER_PAYMENT", {"VERIFIED_PROVIDER"}) =
               IF payer = "VERIFIED_PROVIDER" THEN 1 ELSE 0
          /\ Moves(o, "CONFIRM_CLIENT_CONFORMITY", {"CLIENT"}) =
               IF closer = "CLIENT" THEN 1 ELSE 0
          /\ \A action : Moves(o, action, Actors) <= 1
      BY <3>3
    <3>5. /\ outbox[o]["payment.approved"] = IF payer = "VERIFIED_PROVIDER" THEN 1 ELSE 0
          /\ outbox[o]["work_order.closed"] = IF closer = "CLIENT" THEN 1 ELSE 0
      BY <3>1 DEF Notified
    <3> HIDE DEF Moves
    <3> QED BY <3>4, <3>5
  <2> QED BY <1>1, <2>4, <2>5, <2>6 DEF HistoryInv
<1>2. HistoryInv => NotifiedOncePerMove
  BY <1>1 DEF NotifiedOncePerMove
<1> QED BY <1>2, HistoryIsKept, PTL

(* While operators do not ask for the client's conformity, an order is      *)
(* closed exactly when that conformity is on record, and the client's move  *)
(* comes right after the confirmation of the payment.                       *)
THEOREM ClosedOnlyByConformity ==
    ASSUME "CONFIRM_CLIENT_CONFORMITY" \notin OperatorActions
    PROVE  Spec => []ClosedByConformity
<1>1. ASSUME HistoryInv, NEW o \in Orders
      PROVE  /\ order[o].state = "CERRADA" <=> o \in conformity
             /\ o \in conformity =>
                  \E paid, closed \in transitions :
                    /\ paid.order = o /\ closed.order = o
                    /\ paid.action = "CONFIRM_PROVIDER_PAYMENT"
                    /\ closed.action = "CONFIRM_CLIENT_CONFORMITY" /\ closed.by = "CLIENT"
                    /\ closed.version = order[o].version
                    /\ paid.version = closed.version - 1
  <2>1. CASE Unpaid(o) \/ Paid(o)
    BY <2>1 DEF Unpaid, Paid, Notified
  <2>2. CASE Closed(o)
    <3>1. PICK payer \in Payers : /\ RowsOf(o) = {PaidRow(o, payer), ClosedRow(o, "CLIENT")}
                                  /\ o \in conformity /\ order[o].state = "CERRADA"
      BY <2>2 DEF Closed, Notified
    <3>2. PaidRow(o, payer) \in transitions /\ ClosedRow(o, "CLIENT") \in transitions
      BY <3>1 DEF RowsOf
    <3>3. order[o].version = ChargedVersion + 2
      BY <1>1, <3>1 DEF HistoryInv, TypeInv, VersionsTellState
    <3> QED BY <3>1, <3>2, <3>3 DEF PaidRow, ClosedRow, ChargedVersion
  <2> QED BY <1>1, <2>1, <2>2 DEF HistoryInv
<1>2. HistoryInv => ClosedByConformity
  BY <1>1 DEF ClosedByConformity
<1> QED BY <1>2, HistoryIsKept, PTL

=============================================================================
