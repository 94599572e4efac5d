\* The session file, app restarts and the sockets.
CONSTANTS
    w1 = w1  w2 = w2  a1 = a1  a2 = a2
    p1 = p1  p2 = p2
    c1 = c1  c2 = c2  Nobody = Nobody
    Windows <- TwoWindows  Apps <- TwoApps  Unsaved = {}
    Processes <- TwoProcesses  MaxWindows = 2  Grace = 1  KillAfterTerm = 1  EntryLife = 3
    Callers <- TwoClients
    Streamed <- OneWindow  Viewers <- TwoClients  MaxCommits = 1  QueueLimit = 1
    Subscribers <- TwoClients  MaxLine = 2  Room = 1  MaxOwed = 2
SPECIFICATION Spec
INVARIANTS
    SessionIsKept
    CallersAreServed
    FeedsAreSound
PROPERTIES
    ServicesSettle
\* A terminated server stops.
CHECK_DEADLOCK FALSE
