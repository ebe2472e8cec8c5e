CONSTANTS
    UserFlags = {"commission", "Lesser", "keystore", "Verbosity"}
    None = None
SPECIFICATION Spec
INVARIANTS
    ConfigFlagsAccepted
CHECK_DEADLOCK FALSE
