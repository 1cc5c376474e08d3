\* Two senders, one message; windows, claims and crashes.
SPECIFICATION Spec
CONSTANTS
    Senders = {s1, s2}
    s1 = s1
    s2 = s2
    Keys = {k1}
    k1 = k1
    Window = 3
    TTL = 2
    LockWait = 1
    Retention = 4
    MaxEntries = 2
    MaxAttempts = 2
    MaxClock = 6
    MaxFaults = 2
INVARIANTS TypeOK IInv ClaimsExclusive
PROPERTIES NoRepeatWithinWindow
