\* Two operators race to resolve two orders, with current and outdated payloads.
CONSTANTS
    Handlers = {h1, h2}
    Operators = {a1, a2}
    Keys = {k1}
    Orders = {o1, o2}
    Payloads = {x, z}
    Outdated = {z}
    None = None
SPECIFICATION Spec
SYMMETRY Interchangeable
INVARIANTS
    ChargedAtomically
    ToldWhatIsRecorded
