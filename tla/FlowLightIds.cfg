SPECIFICATION Spec
CONSTANTS
    f1 = f1
    f2 = f2
    w1 = w1
    w2 = w2
    a1 = a1
    l1 = l1
    l2 = l2
    Party = {f1, f2}
    Flow = {f1, f2}
    Switch = {w1, w2}
    Address = {a1}
    LightId = {l1, l2}
    None = None
    MaxRotations = 0
    MaxOpenFlows = 2
    Attempts = 1
CHECK_DEADLOCK FALSE
SYMMETRY Symmetry
INVARIANTS
    SharedLightId
