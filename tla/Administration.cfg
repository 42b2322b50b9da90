\* Two calls at a time on any register.  Once nobody is ADMIN the system may stop.
CONSTANTS
    Handlers = {h1, h2}
    Subjects = {a, b, n}
    Founders = {a, b}
    Newcomers = {n}
    Keys = {k1}
    Categories = {c1, c2}
    Rates = {r1, r2, r3}
    Visit = c1
    VisitRate = r1
    Horizon = 1
    Technicians = {t1}
    None = None
SPECIFICATION Spec
SYMMETRY Interchangeable
CHECK_DEADLOCK FALSE
INVARIANTS
    TypeOK
    ProvisionedOnce
    RatesAreInOrder
PROPERTIES
    RemovalsCountOnAnother
    InternalStaysInternal
    PhonelessOnlyByRace
