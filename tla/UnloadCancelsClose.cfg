SPECIFICATION Spec
CONSTANTS
    s1 = s1
    Party = {s1}
    Session = {s1}
    NoOne = NoOne
    MaxLoginTimeouts = 3
    MaxMismatches = 3
    BackoffSteps = 2
    Faults = {"drop", "silence"}
CHECK_DEADLOCK FALSE
INVARIANTS
    StoppedReleasesLink
