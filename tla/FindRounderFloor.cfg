\* A program that rounds its size up to cells of 8 device pixels: two sizes of a
\* drag in one cell.
CONSTANTS
    Scale = 2
    Drags = {1, 2, 3}
    Floors = {5, 8}
    Cell = 8
    MaxEvents = 4
    None = None
SPECIFICATION Spec
INVARIANTS
    RoundersHaveNone
\* A behaviour ends at its bounds.
CHECK_DEADLOCK FALSE
