CONSTANTS
    o1 = o1
    o2 = o2
    c1 = c1
    Outputs = {o1, o2}
    Callers = {c1}
    RespawnSteps = 2
    MayHappen = {"surface", "destroy", "modeset", "power", "lost"}
SPECIFICATION Spec
SYMMETRY OutputSymmetry
INVARIANTS
    TypeOK
    WaitsFollowLock
    LockerFollowsLock
    SceneFollowsLock
PROPERTIES
    OnlyHolderUnlocks
    KeepsPromise
