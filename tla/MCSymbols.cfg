SPECIFICATION Spec
CONSTANTS
    Y1 = Y1
    Y2 = Y2
    Y3 = Y3
    C1 = C1
    D1 = D1
    Symbol = {Y1, Y2, Y3}
    CodeBlock = {C1}
    DataBlock = {D1}
    Null = Null
    AddrLimit = 4
    SymbolAddr = {2}
    BaseAddr = {2}
    Offset = {0, 1}
    BlockSize = {1, 2}
SYMMETRY MCSymmetry
INVARIANT TypeOK
PROPERTY AnnouncedChangesKeepOrder
