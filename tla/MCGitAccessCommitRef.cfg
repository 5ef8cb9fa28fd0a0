SPECIFICATION Spec
CONSTANTS
    main = main
    v1 = v1
    c1 = c1
    c2 = c2
    t1 = t1
    NotFound = NotFound
    Names <- MCNames
    Commits <- MCCommits
    TagObjects <- MCTagObjects
    Settings <- MCCommitRef
    TokenLife = 24
    Buffer = 10
    MountLag = 2
    Asleep = 25
INVARIANTS
    SyncFindsThatCommit
CHECK_DEADLOCK FALSE
