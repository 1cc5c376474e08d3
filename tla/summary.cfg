\* Two services, a health check and an operator over two runs, three at a time.
SPECIFICATION Spec
CONSTANTS
    Runners = {main, fallback}
    main = main
    fallback = fallback
    Readers = {health}
    health = health
    Operators = {operator}
    operator = operator
    MaxRuns = 2
    MaxBusy = 3
    MaxFaults = 1
INVARIANTS TypeOK CachesAreSound AnswerNamesLastRun DoctorAccepts
SYMMETRY Symmetry
