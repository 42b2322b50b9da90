\* Two clients with one key, two addresses; uploads race for the limits.
CONSTANTS
    Handlers = {h1, h2}
    Clients = {c1, c2}
    Keys = {k1}
    Requests = {r1, r2}
    Offers = {o1}
    Places = {a, b}
    Pins = {"six"}
    Geocoder = FALSE
    Files = {f1, f2, f3}
    MaxImages = 2
    None = None
SPECIFICATION Spec
SYMMETRY Interchangeable
INVARIANTS
    OneRequestPerKey
    RepetitionIsAnswered
    MediaWithinLimits
    FilesAndRowsAgree
