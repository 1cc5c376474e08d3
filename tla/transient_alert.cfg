\* One runner and a source that fails for good.
SPECIFICATION FairSpec
CONSTANTS
    Runners = {main}
    main = main
    MinDuration = 2
    Cooldown = 1
    Retries = 1
    MaxFaults = 0
PROPERTIES PersistentFailureAlerted
