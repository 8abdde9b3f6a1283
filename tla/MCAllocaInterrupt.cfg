SPECIFICATION Spec
CONSTANTS
    LocalAreaOffset = 1
    EntrySP = 14
    StackTop = 19
    AllocaSize = 2
    AllocaBound = 2
    Functions <- ExposedFunctions
    Interruptible <- ExposedFunctions
INVARIANT RegistersRestored
