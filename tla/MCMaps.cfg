SPECIFICATION Spec
CONSTANTS
    IR1 = IR1
    M1 = M1
    M2 = M2
    S1 = S1
    S2 = S2
    BI1 = BI1
    BI2 = BI2
    C1 = C1
    Node <- MCNode
    Kind <- MCKind
    Null = Null
    HandEdited = {}
    NoLabel = NoLabel
    Label = {NoLabel}
    MaxEdges = 0
    AddrLimit = 4
    Size = {0, 1, 2}
SYMMETRY MCSymmetry
INVARIANTS TypeOK SectionMapExact ExtentIsHull ModuleMapExact ModuleQueryWhenAllAddressed
