SPECIFICATION MCSpec
CONSTANTS
    Slots = {p, q}
    Handles = {1, 2, 3, 4, 5, 6}
    Null = Null
    Bindless = Bindless
    Returned <- LowestFree
    MaxVertices = 4
    MaxTriangles = 4
    CountLimit = 5
    Meshes <- SmallMeshes
    Cube <- TwoFaces
    MouseX = {0, 1, 2}
    MouseY = {0, 2}
    StartPitch = 0
    PitchLimit = 1
    MaxEvents = 5
INVARIANTS
    ViewerTypeOK
    OwnedOnce
    KeptWhole
    MappedAgree
    DrawnView
    MeshAllOrNothing
    MeshletsReadable
PROPERTIES
    InfoEnds
CHECK_DEADLOCK FALSE
