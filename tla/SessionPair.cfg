SPECIFICATION Spec
CONSTANTS
    s1 = s1
    s2 = s2
    Party = {s1, s2}
    Session = {s1, s2}
    NoOne = NoOne
    MaxLoginTimeouts = 2
    MaxMismatches = 1
    BackoffSteps = 1
    Faults = {"drop", "silence", "close"}
CHECK_DEADLOCK FALSE
SYMMETRY Symmetry
INVARIANTS
    HandshakeExclusive
    ReauthFinal
    OpenLinkReachable
    OneSlotPerSwitch
    StoppedIsQuiet
PROPERTIES
    ImplementsPromise
