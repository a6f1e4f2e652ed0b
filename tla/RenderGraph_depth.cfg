SPECIFICATION Spec
CONSTANTS
    RenderDescs <- DepthPasses
    ComputeDescs <- None
    Sizes <- OneSize
    MaxHandles = 3
    MaxRender = 3
    MaxCompute = 0
    MaxTransfer = 0
    MaxCompiles = 1
INVARIANTS
    ReadsSeeLatestWrite
CHECK_DEADLOCK FALSE
