\* The fallback timer beside a main service that lives, stalls and dies.
SPECIFICATION FairSpec
CONSTANTS
    Runners = {}
    Watchdogs = {fallback}
    fallback = fallback
    Kinds = {}
    Snapshots = {c1}
    c1 = c1
    MaxOpens = 0
    MaxFaults = 1
    MaxAge = 1
INVARIANTS IInv HealthyWasAlive
PROPERTIES StallIsPolled FailoverEnds
