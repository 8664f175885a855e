SPECIFICATION Spec
CONSTANTS
    Byte = {0, 1}
    Width = {1, 2}
    MaxSize = 6
    MaxElements = 2
    Oversized = FALSE
INVARIANTS TypeOK ReadsSeeTheArray
PROPERTY OperationsAreTheArrays
