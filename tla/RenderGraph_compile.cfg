SPECIFICATION Spec
CONSTANTS
    RenderDescs <- SmallPasses
    ComputeDescs <- KernelPasses
    Sizes <- TwoSizes
    MaxHandles = 2
    MaxRender = 3
    MaxCompute = 1
    MaxTransfer = 1
    MaxCompiles = 2
INVARIANTS
    TypeOK
    ReadersFollowWriters
    EveryPassOrdered
    FirstPassRenders
    AliasesDisjoint
    AliasGroupsAgree
    RenderPassesMergedOnce
    ReadsHaveBarriers
CHECK_DEADLOCK FALSE
