SPECIFICATION QSpec
CONSTANTS
    I = I
    M1 = M1
    M2 = M2
    S1 = S1
    S2 = S2
    B1 = B1
    B2 = B2
    C1 = C1
    C2 = C2
    D1 = D1
    Node <- MCNode
    Kind <- MCKind
    Home <- MCHome
    Rank <- MCRank
    Offset <- MCOffset
    BlockSize <- MCBlockSize
    SymExprs <- MCSymExprs
    Movable = {S2, B2, C1}
    Null = Null
    HandEdited = {}
    NoLabel = NoLabel
    Label = {NoLabel}
    MaxEdges = 0
    AddrLimit = 5
    Size = {0, 2}
INVARIANT SymbolicExpressionsInRange
