\* Main service and fallback at the same time on a running installation.
SPECIFICATION InstalledSpec
CONSTANTS
    Runners = {main, fallback}
    main = main
    fallback = fallback
    MaxMsgs = 3
    MaxMessages = 2
    PageSize = 1
    Target = {1, 2}
    SyncModes = {"skip_existing"}
    MaxFaults = 2
INVARIANTS IInv ReportedCheckpointHasNoGap
PROPERTIES ImplementsFrontier
