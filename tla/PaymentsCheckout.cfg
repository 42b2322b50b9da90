\* Two checkouts over two attempts; see MCCheckout.
CONSTANTS
    Orders = {o1}
    Attempts = {a1, a2}
    Payments = {p1, p2}
    Events = {e1, e2}
    Browsers = {b1, b2}
    Pollers = {w1, w2}
    ProviderStatus = {"IN_PROCESS", "APPROVED", "REJECTED", "OTHER"}
    Amounts = {"owed", "other"}
    OperatorActions = {}
    MaxFailures = 1
    None = None
SPECIFICATION ScopedSpec
SYMMETRY Interchangeable
CHECK_DEADLOCK FALSE
INVARIANTS
    TypeOK
    OneActiveAttempt
    ClosedByConformity
    PaidOnlyWhenApproved
    NotifiedOncePerMove
    ApprovedAttemptIsSettled
PROPERTIES
    AnswersFollowTheContract
