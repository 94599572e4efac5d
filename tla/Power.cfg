CONSTANTS
    m1 = m1
    m2 = m2
    s1 = s1
    s2 = s2
    t1 = t1
    t2 = t2
    app = app
    Absent = Absent
    Monitors <- TwoMonitors  Longest = 3  LockTicks = 2  Settings <- ThreeSettings
    Timeouts <- TwoTimeouts
    Surfaces <- TwoSurfaces  Tokens <- TwoTokens  Holder <- OneHolder  MaxLease = 2
    MaxSignals = 3
SPECIFICATION Spec
INVARIANTS
    SleepsAsAgreed
    TimersFollowUse
    WatchMissesNothing
PROPERTIES
    PowerSettles
