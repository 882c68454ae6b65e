SPECIFICATION Spec
CONSTANTS
    on = on
    off = off
    other = other
    Event = {on, off, other}
    Windows = {0, 2, 3}
    MaxTime = 6
    MaxCopies = 3
CHECK_DEADLOCK FALSE
SYMMETRY Symmetry
INVARIANTS
    TypeOK
    OpenWindowRemembered
    StaleBurstsDropped
PROPERTIES
    ImplementsPromise
