\* Two mails and one fault, or one mail and two faults.
SPECIFICATION FairSpec
CONSTANTS
    MaxMail = 2
    NoHistory = {}
    MaxFailures = 2
    MaxReconnects = 2
    MaxFaults = 2
    MaxEvents = 3
INVARIANTS TypeOK NoLostWakeup AcceptedTriggersRun
PROPERTIES EveryMailCovered DeadWorkerEndsSession
