\* A killed run leaves its claim behind.
SPECIFICATION DeliverySpec
CONSTANTS
    Senders = {main}
    main = main
    MaxMsgs = 2
    MaxMessages = 2
    PageSize = 1
    Target = {2}
    Keys = {2}
    SyncModes = {"skip_existing"}
    MaxRunFaults = 2
    Window = 2
    TTL = 1
    LockWait = 1
    Retention = 3
    MaxEntries = 2
    MaxAttempts = 2
    MaxClock = 3
    MaxFaults = 1
INVARIANTS ProcessedWasShown
