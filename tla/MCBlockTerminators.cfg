SPECIFICATION FairSpec
CONSTANTS
    Blocks = {b1, b2, b3}
    NoBlock = NoBlock
    EndOfFunction = EndOfFunction
    Registers = {"a", "b"}
    Immediates = {"0"}
    Width = 2
    Edges <- DistinctEdges
INVARIANTS
    BranchesFaithful
    AnalysisFaithful
    SuccessorsMatchCode
    NeverUnreachable
PROPERTIES
    NoJumpToLayoutSuccessor
    UpdateEnds
