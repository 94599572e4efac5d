SPECIFICATION Spec
CONSTANTS
    None = None
    Windows = {w1, w2}
    StatusBars = {}
    Draggable = {w1}
    Remapping = {}
    Decorating = {}
    Camera = FALSE
INVARIANTS DraggedIsManageable
CHECK_DEADLOCK FALSE
