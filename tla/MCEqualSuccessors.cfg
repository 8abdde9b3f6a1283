SPECIFICATION Spec
CONSTANTS
    Blocks = {b1, b2, b3}
    NoBlock = NoBlock
    EndOfFunction = EndOfFunction
    Registers = {"a", "b"}
    Immediates = {"0"}
    Width = 2
    Edges <- EqualEdges
INVARIANT BranchesFaithful
