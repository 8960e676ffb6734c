SPECIFICATION Spec
CONSTANTS
    Services = {s1, s2, s3}
    NoService = NoService
    TypeNames <- MCTypeNames
    FieldNames <- MCFieldNames
    Kinds = {"object", "interface", "union", "scalar", "builtin"}
    Keys = {"id", "name"}
    Documents <- MCDocuments
    Builtins = {"String"}
CHECK_DEADLOCK FALSE
INVARIANT TypeOK
INVARIANT FieldsOnce
INVARIANT NoFalseConflict
INVARIANT OrderFree
