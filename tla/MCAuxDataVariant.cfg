SPECIFICATION Spec
CONSTANTS
    Tool = {T1, T2}
    A = A
    Name = {A}
    Null = Null
    Map = Map
    UnorderedMap = UnorderedMap
    Tuple = Tuple
    Choice = Choice
    MCSchema = {Choice}
    Schema = {Choice}
    SchemaName <- MCSchemaName
    ApiTypeId <- MCApiTypeId
    TypeName <- MCTypeName
    Object <- MCObject
    Foreign = {}
    Encode <- toBytes
    Decode <- fromBytes
    Desc <- MCDesc
    Base = 8
    CountWidth = 2
INVARIANT ObjectsReadBack
