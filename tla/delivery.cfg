\* The service and the fallback notify the same mail through one dedupe file.
SPECIFICATION DeliverySpec
CONSTANTS
    Senders = {main, fallback}
    main = main
    fallback = fallback
    MaxMsgs = 2
    MaxMessages = 2
    PageSize = 1
    Target = {2}
    Keys = {2}
    SyncModes = {"skip_existing"}
    MaxRunFaults = 1
    Window = 2
    TTL = 1
    LockWait = 1
    Retention = 3
    MaxEntries = 2
    MaxAttempts = 2
    MaxClock = 3
    MaxFaults = 2
INVARIANTS NotifiedWasShown
