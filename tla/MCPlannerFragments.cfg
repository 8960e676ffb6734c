SPECIFICATION Spec
CONSTANTS
    Types <- MCTypes
    Directives <- MCDirectives
    Hidden <- MCHidden
    Requests <- MCFragmentRequests
    StandardIntrospection = "none"
    NoService = NoService
    NoType = NoType
    NoKeys = NoKeys
    NoOperation = NoOperation
CHECK_DEADLOCK FALSE
INVARIANT PlanFaithful
