SPECIFICATION Spec
CONSTANTS
    C1 = C1
    C2 = C2
    D1 = D1
    CodeBlock = {C1, C2}
    DataBlock = {D1}
    Rank <- MCRank
    Null = Null
    Limit = 5
    Offset = {0, 1, 3}
    Size = {0, 1, 2, 3}
    Mode = {0, 1}
    Reordering = TRUE
INVARIANT FindsBlocksOnOffset
