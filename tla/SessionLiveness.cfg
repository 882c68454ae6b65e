SPECIFICATION FairSpec
CONSTANTS
    s1 = s1
    s2 = s2
    Party = {s1, s2}
    Session = {s1, s2}
    NoOne = NoOne
    MaxLoginTimeouts = 1
    MaxMismatches = 1
    BackoffSteps = 1
    Faults = {}
CHECK_DEADLOCK FALSE
PROPERTIES
    UnloadCompletes
    ReauthEndsLoop
    LockServed
