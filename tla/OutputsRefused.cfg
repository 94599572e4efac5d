SPECIFICATION Spec
CONSTANTS
    Outputs = {o1, o2}
    Modes = {m1, m2}
    NoMode = NoMode
    None = None
    Fails = TRUE
    Overlap = FALSE
INVARIANTS TypeOK NoStaleConfig HardwareFollowsSchedule
PROPERTIES SucceededIsShown
CHECK_DEADLOCK FALSE
