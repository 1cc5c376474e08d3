\* One runner; new and running installations; every failure.
SPECIFICATION FairSpec
CONSTANTS
    Runners = {main}
    main = main
    MaxMsgs = 4
    MaxMessages = 2
    PageSize = 4
    Target = {1, 2, 4}
    SyncModes = {"skip_existing", "backfill"}
    MaxFaults = 3
INVARIANTS TypeOK NoGap
PROPERTIES FrontierNeverBack NothingBehindFrontierIsNotified EveryMailSettled
