\* Two processes write and read at once; failed appends, crashes, torn writes.
SPECIFICATION Spec
CONSTANTS
    Procs = {main, fallback}
    fallback = fallback
    main = main
    Ids = {m1, m2}
    m1 = m1
    m2 = m2
    None = None
    MaxLog = 4
    MaxFaults = 2
INVARIANTS TypeOK LoadIsCurrent IndexAgreesWithLog RaisedOnlyWhenCorrupt
SYMMETRY ProcsAndIds
