SPECIFICATION FairSpec
CONSTANTS
    Outputs = {o1, o2}
    Modes = {m1}
    NoMode = NoMode
    None = None
    Fails = FALSE
    Overlap = TRUE
INVARIANTS AssertionsHold LitIsListed
PROPERTIES GoneAreFreed
