SPECIFICATION Spec
CONSTANTS
    s1 = s1
    s2 = s2
    NoSurface = NoSurface
    Surfaces <- TwoSurfaces
    FrameCount = 2
    ImageCounts <- TwoImages
    PassOrders <- OnePass
    MaxFrames = 3
    MaxUpdates = 1
SYMMETRY SurfaceSymmetry
INVARIANTS
    AcquiredFramesPresented
    SectionFreeOnceAcquired
