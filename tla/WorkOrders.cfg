\* One request driven from its first assignment by two calls at a time, of two
\* operators with one key each; a second order is there to be placed.
CONSTANTS
    Handlers = {h1, h2}
    Operators = {a1, a2}
    Keys = {k1}
    Requests = {r1}
    Orders = {o1, o2}
    Technicians = {t1, t2}
    MaxVersion = 4
    None = None
SPECIFICATION Spec
SYMMETRY Interchangeable
INVARIANTS
    OneOrderPerRequest
    AssignmentIsIdempotent
    HistoryIsAWalk
    HistoryIsTold
PROPERTIES
    ImplementsLifecycle
