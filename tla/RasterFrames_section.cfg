SPECIFICATION Spec
CONSTANTS
    s1 = s1
    s2 = s2
    NoSurface = NoSurface
    Surfaces <- OneSurface
    FrameCount = 3
    ImageCounts <- ThreeImages
    PassOrders <- OnePass
    MaxFrames = 5
    MaxUpdates = 0
INVARIANTS
    SectionFreeWhenWritten
