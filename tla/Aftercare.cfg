\* One order, its client and an operator, two commands at a time.
CONSTANTS
    Handlers = {h1, h2}
    Clients = {c1}
    Operators = {p1}
    Keys = {k1, k2}
    Orders = {o1}
    Incidents = {i1, i2}
    Inputs = {x, y}
    None = None
SPECIFICATION Spec
SYMMETRY Interchangeable
INVARIANTS
    OneOfEach
    IncidentFollowsItsPath
    KeysAreIdempotent
    AnswersShowTheEffect
