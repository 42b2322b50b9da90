\* Two calls at a time on most parts of the pages.  Bounds end the behaviours.
CONSTANTS
    Slots = {l1, l2}
    Places = {p1, p2, p3}
    Tries = {l1, l2}
    Bodies = {b1, b2}
    MaxKeys = 3
    Notices = {1, 2, 3}
    CreatedAt <- At
    PageSize = 1
    MaxReads = 2
    Lists = {l1, l2}
    Visits = {v1, v2}
    Technicians = {t1, t2}
    Clicks = {l1, l2}
    MaxVersion = 6
    Payers = {c1}
    Loads = {l1, l2}
    PanelLoads = {l1, l2}
    MaxIncidents = 2
    None = None
SPECIFICATION ScopedSpec
CHECK_DEADLOCK FALSE
INVARIANTS
    TypeOK
    PinIsAtTheAddress
    OneRequestPerAttempt
    ListHasNoGap
    PagesTellWhatIs
PROPERTIES
    ReassignsToAnother
    PagesGoBackOnlyWhenCrossed
    PagesComeBack
