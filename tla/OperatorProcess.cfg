CONSTANTS
    None = None
    Environments <- MCEnvironments
SPECIFICATION Spec
INVARIANTS SuccessIsClean
PROPERTIES ShutdownCompletes RequestsEnd
CHECK_DEADLOCK FALSE
