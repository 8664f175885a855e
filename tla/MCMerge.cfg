SPECIFICATION Spec
CONSTANTS
    E1 = E1
    E2 = E2
    E3 = E3
    E4 = E4
    E5 = E5
    Element = {E1, E2, E3, E4, E5}
    Key <- MCKey
    MaxRanges = 3
CHECK_DEADLOCK FALSE
INVARIANTS TypeOK FrontIsLeast EachElementOnce
PROPERTY MergesSorted
