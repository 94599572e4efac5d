\* The desk: camera, grid patches, X11 windows, night light, selection, modes,
\* what comes back to it.
CONSTANTS
    o1 = o1  None = None  Nobody = Nobody  Parent = Parent  Other = Other  This = This  Ramp = Ramp
    DeskEnd = 2  StillPolls = 2  WaitPolls = 3  CamEvents = 2
    Anchors <- TwoAnchors  ZoomOuts <- ThreeZooms  View = 100  GridCell = 10  Cap = 410  Coarsest = 1
    GridEvents = 4
    XKinds <- ThreeXKinds  XModes <- ThreeXModes
    Scale = 2  Natural = 2  Screen = 4  Tile <- OneTile  Asks <- OneAsk
    XSpots <- TwoXSpots  XSizes <- OneXSize  MaxQueue = 2  XEvents = 2
    Drags <- ThreeDrags  Floors <- TwoFloors  Rounding = 4  MinEvents = 8
    SurfKinds <- FourKinds  MaxObjects = 3  SurfEvents = 8
    Outputs <- OneOutput  NoLut <- NoOutput  Blocks <- TwoNights  Temperatures <- OneTemperature
    DayLen = 8  Dusk = 2  End = 6  Transition = 2  Recheck = 3  FadeSteps = 2  NightEvents = 2
    Windows <- TwoWindows  Items <- OneImage  Homes <- TwoHomes  Pictures <- OnePicture
    Spots <- ThreeSpots  ImagePlaces <- OnePlace  SelEvents = 4
    Home <- HomeOfTwo  DragSpots <- TwoDragSpots  Pans <- ThreePans  OutputSize = 8  ModeEvents = 4
    Comers <- ThreeComers  X11 <- OneDialog  Dialogs <- OneDialog  ProgOf <- TwoPrograms
    TitlesOf <- ThreeTitles  Alike <- LikeA  Files <- TwoFiles  NewPlaces <- OneNewPlace  BackEvents = 4
    Untitled = ""  Unknown = "?"
SPECIFICATION Spec
INVARIANTS
    DesktopIsSound
PROPERTIES
    DesktopSteps
    DesktopSettles
\* A behaviour ends at its bounds.
CHECK_DEADLOCK FALSE
