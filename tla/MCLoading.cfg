SPECIFICATION Spec
CONSTANTS
    I = I
    M1 = M1
    M2 = M2
    P1 = P1
    S1 = S1
    S2 = S2
    BI1 = BI1
    BI2 = BI2
    B1 = B1
    B2 = B2
    Y1 = Y1
    Y2 = Y2
    F = F
    Uuid <- MCUuid
    Kind <- MCKind
    Root = I
    Children <- MCChildren
    References <- MCReferences
    Edges <- MCEdges
    Built <- MCBuilt
    Damageable = {Y2}
    MaxLoads = 2
INVARIANTS TypeOK LoadedTree LoadedReferences LoadOutcome
PROPERTIES OldNodesUntouched LoadableLoads
