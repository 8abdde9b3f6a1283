SPECIFICATION Spec
CONSTANTS
    LocalAreaOffset = 1
    StackAlignment = 1
    NumObjects = 3
    NumFixed = 2
    FrameInfos <- MCFrameInfos
INVARIANTS
    ObjectsDisjoint
    EveryLiveObjectPlaced
    ProtectorGuards
    OffsetsAligned
    IInv
PROPERTY NeverMoved
CHECK_DEADLOCK FALSE
