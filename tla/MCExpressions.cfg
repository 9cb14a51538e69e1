SPECIFICATION Spec
CONSTANTS
    Prime = 97
    MaxOperations = 2
INVARIANT OperationsKeepValue
CHECK_DEADLOCK FALSE
