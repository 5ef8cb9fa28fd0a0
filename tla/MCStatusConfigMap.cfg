SPECIFICATION Spec
CONSTANTS
    m1 = m1
    p1 = p1
    m2 = m2
    gw1 = gw1
    gw2 = gw2
    s1 = s1
    s2 = s2
    NoStatus = NoStatus
    Writers <- MCWriters
    Keys <- MCKeys
    KeyOf <- MCKeyOf
    Values <- MCValues
    MaxAttempts = 3
    MaxCalls = 4
    MaxDeletes = 1
SYMMETRY MCSymmetry
INVARIANTS
    TypeOK
    NoLostUpdate
    GiveUpJustified
PROPERTIES
    BoardSpec
CHECK_DEADLOCK FALSE
