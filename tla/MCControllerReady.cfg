SPECIFICATION Spec
CONSTANTS
    main = main  v2 = v2  bare2 = bare2
    c1 = c1  c2 = c2  c3 = c3
    p1 = p1  p2 = p2
    NoRef = NoRef  NoCommit = NoCommit
    Refs = {main}
    Commits = {c1}
    Pods = {p1}
    InitialRef = main
    Norm <- MCNorm
    InitialRemote <- MCRemote
    PollingEnabled = TRUE
    SpelledOut = FALSE
    EditKinds = {}
    MaxEdits = 0
    MaxMoves = 0
    MaxReports = 1
    MaxFaults = 1
    MaxCrashes = 0
    MaxBackoff = 2
INVARIANTS
    ReadyOnlyWhenAllThree
CHECK_DEADLOCK FALSE
