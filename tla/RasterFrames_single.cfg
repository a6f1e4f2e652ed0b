SPECIFICATION FairSpec
CONSTANTS
    s1 = s1
    s2 = s2
    NoSurface = NoSurface
    Surfaces <- OneSurface
    FrameCount = 3
    ImageCounts <- ManyImages
    PassOrders <- RenderOrders
    MaxFrames = 4
    MaxUpdates = 0
INVARIANTS
    TypeOK
    CommandBufferFree
    AcquireSemaphoreIdle
    FramebuffersCurrent
PROPERTIES
    FramesComplete
    SubmittedFramesRetire
    ImplementsFrameSlots
