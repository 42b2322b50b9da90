\* Two events, two workers, more trouble than the retries absorb; no symmetry,
\* liveness is checked.
CONSTANTS
    Events = {e1, e2}
    Workers = {w1, w2}
    RetryLimit = 5
    MaxTrouble = 6
    None = None
SPECIFICATION FairSpec
CHECK_DEADLOCK FALSE
INVARIANTS
    NotifiedExactlyOnce
PROPERTIES
    SettledStays
    EveryEventIsSettled
