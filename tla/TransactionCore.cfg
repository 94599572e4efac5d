SPECIFICATION Spec
CONSTANTS
    None = None
    Windows = {w1, w2}
    StatusBars = {w2}
    Draggable = {w1}
    Remapping = {w2}
    Decorating = {w1}
    Camera = TRUE
INVARIANTS
    TypeOK
    InflightIsTimed
    NothingIsLeft
    RenderListFollowsWindows
CHECK_DEADLOCK FALSE
