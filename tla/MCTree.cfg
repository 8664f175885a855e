SPECIFICATION TreeSpec
CONSTANTS
    IR1 = IR1
    IR2 = IR2
    M1 = M1
    M2 = M2
    S1 = S1
    BI1 = BI1
    BI2 = BI2
    C1 = C1
    D1 = D1
    P1 = P1
    P2 = P2
    Y1 = Y1
    Node <- MCNode
    Kind <- MCKind
    Null = Null
    HandEdited = {P2}
    NoLabel = NoLabel
    Label = {NoLabel}
    MaxEdges = 2
SYMMETRY MCSymmetry
INVARIANTS TreeTypeOK OwnershipAgrees CfgMirrorsTree EdgesJoinVertices
PROPERTY UnmovedEdgesSurvive
