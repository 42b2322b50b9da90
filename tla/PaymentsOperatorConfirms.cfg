\* Operators request the provider's and the client's actions.
CONSTANTS
    Orders = {o1}
    Attempts = {a1, a2}
    Payments = {p1}
    Events = {e1}
    Browsers = {b1}
    Pollers = {w1}
    ProviderStatus = {"PENDING", "APPROVED", "REJECTED", "CANCELLED"}
    Amounts = {"owed"}
    OperatorActions = {"CONFIRM_PROVIDER_PAYMENT", "CONFIRM_CLIENT_CONFORMITY"}
    MaxFailures = 1
    None = None
SPECIFICATION Spec
CHECK_DEADLOCK FALSE
INVARIANTS
    OnlyPermittedActorsMove
