\* Two runners, an expiring token, every failure.
SPECIFICATION FairSpec
CONSTANTS
    Runners = {main, fallback}
    main = main
    fallback = fallback
    MinDuration = 2
    Cooldown = 1
    Retries = 2
    MaxFaults = 1
INVARIANTS TypeOK
PROPERTIES RecoveryFollowsAlert IssueCloses TokenIssueReported TokenIssueCloses
