\* The seat: keyboards, focus, text input, the pointer, fingers and gestures.
CONSTANTS
    h1 = h1  h2 = h2  virt = virt  p = p
    w1 = w1  w2 = w2  l1 = l1  l2 = l2  m = m
    t1 = t1  t2 = t2  s1 = s1  s2 = s2  c1 = c1  c2 = c2
    appW = appW  barW = barW  gridW = gridW  f1 = f1  f2 = f2  f3 = f3  k1 = k1  k2 = k2  k3 = k3  None = None
    Hardware <- TwoKeyboards  Virtual <- OneVirtual  Keycodes <- OneKey  Mods <- OneKey
    Configs <- TwoConfigs  MaxHeld = 2  MaxChanges = 4
    Toplevels <- TwoToplevels  Stacked <- OneStacked  Fullscreen = {}  Layers <- TwoLayers  Menus <- OneMenu
    XWindow = w1  Parented <- OneParented  FocusEvents = 5
    Inputs <- TwoInputs  Surfaces <- TwoSurfaces  ClientOf <- TwoClients  Popups <- OnePopup  TextEvents = 8
    Constraints <- TwoConstraints  Oneshot <- OneServesOnce  Locking <- OneLocks  HoldEvents = 6
    Windows <- ThreeWindows  KindOf <- ThreeKinds  GrabEvents = 5
    PlayEvents = 6
    Fingers <- ThreeFingers  MaxTouches = 5
    MaxGestures = 7
    WindowSlots <- ThreeSlots  Tiled <- OneTiled  NameOf <- TwoNames  SwitchEvents = 3
    MaxStrokes = 6
SPECIFICATION Spec
INVARIANTS
    KeysAreSound
    FocusIsSound
    PointerIsSound
    FingersAreSound
PROPERTIES
    LocksOnlyWhereItMay
    InputSettles
\* A behaviour ends at its bounds.
CHECK_DEADLOCK FALSE
