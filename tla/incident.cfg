\* Two runners, both failure kinds, every fault.
SPECIFICATION FairSpec
CONSTANTS
    Runners = {r1, r2}
    r1 = r1
    r2 = r2
    Watchdogs = {}
    Kinds = {delivery_failed, source_failed}
    source_failed = source_failed
    delivery_failed = delivery_failed
    Snapshots = {c1, c2}
    c1 = c1
    c2 = c2
    MaxOpens = 2
    MaxFaults = 2
INVARIANTS TypeOK RecoveredStaysClosed
PROPERTIES OtherKeysKept OutageOpens RecoveryCloses
