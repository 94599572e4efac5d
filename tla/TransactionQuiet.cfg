SPECIFICATION FairSpec
CONSTANTS
    None = None
    Windows = {w1, w2}
    StatusBars = {}
    Draggable = {}
    Remapping = {}
    Decorating = {}
    Camera = FALSE
INVARIANTS
    ClientsAreServed
PROPERTIES
    EndsWithLastAnswer
    KeepsPasses
    ClosedAreFreed
