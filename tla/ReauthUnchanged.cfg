SPECIFICATION Spec
CONSTANTS
    w1 = w1
    Switch = {w1}
    None = None
    MaxMoves = 0
    MaxRotations = 0
INVARIANTS
    ReauthRepairs
