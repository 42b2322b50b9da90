\* A poll reads an UNKNOWN attempt and writes it back after another poll ended it.
CONSTANTS
    Orders = {o1}
    Attempts = {a1, a2}
    Payments = {p1}
    Events = {e1}
    Browsers = {b1}
    Pollers = {w1, w2}
    ProviderStatus = {"PENDING", "APPROVED", "REJECTED", "CANCELLED"}
    Amounts = {"owed"}
    OperatorActions = {}
    MaxFailures = 1
    None = None
SPECIFICATION Spec
CHECK_DEADLOCK FALSE
PROPERTIES
    TerminalAttemptStays
