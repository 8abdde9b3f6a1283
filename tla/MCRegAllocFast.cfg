SPECIFICATION Spec
CONSTANTS
    A = A
    B = B
    v1 = v1
    v2 = v2
    v3 = v3
    None = None
    Order <- MCOrder
    Virt = {v1, v2, v3}
    Clobbered = {A, B}
    Functions <- MCFunctions
INVARIANTS
    SameValues
    KillFlagsTrue
    MapsInverse
CHECK_DEADLOCK FALSE
