\* One call at a time is enough: an administrator is provisioned as DISPATCHER.
CONSTANTS
    Handlers = {h1}
    Subjects = {a, n}
    Founders = {a}
    Newcomers = {n}
    Keys = {k1}
    None = None
SPECIFICATION Spec
CHECK_DEADLOCK FALSE
INVARIANTS
    AnAdminRemains
