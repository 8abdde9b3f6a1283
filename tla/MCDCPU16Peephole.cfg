SPECIFICATION CodeGenSpec
CONSTANTS
    b1 = b1
    b2 = b2
    Blocks = {b1, b2}
    NoBlock = NoBlock
    Registers = {"x", "y", "v1", "v2", "t1", "t2", "t3", "t4", "EX"}
    EX = "EX"
    Inputs = {"x", "y"}
    EvenInputs = {"y"}
    Immediates = {"0", "1", "2"}
    Zero = "0"
    Width = 2
    ImmValue <- MCImmValue
    Symbols = {"g", "f", "ba"}
    SymbolKind <- MCSymbolKind
    Temp <- MCTemp
    Programs <- MCPrograms
    SelectedBlocks <- MCSelectedBlocks
INVARIANTS
    MeaningKept
    KillsAreLast
    NoDangling
    NothingMissed
CHECK_DEADLOCK FALSE
