SPECIFICATION Spec
CONSTANTS
    Tool = {T1, T2}
    A = A
    Name = {A}
    Null = Null
    Map = Map
    UnorderedMap = UnorderedMap
    Tuple = Tuple
    Choice = Choice
    MCSchema = {Map, UnorderedMap, Tuple}
    Schema = {Map, UnorderedMap, Tuple}
    SchemaName <- MCSchemaName
    ApiTypeId <- MCApiTypeId
    TypeName <- MCTypeName
    Object <- MCObject
    Foreign <- MCForeign
    Encode <- toBytes
    Decode <- fromBytes
    Desc <- MCDesc
    Base = 8
    CountWidth = 2
INVARIANTS TypeOK TypedAccess ObjectsReadBack
PROPERTY TablesSurvive
