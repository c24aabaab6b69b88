SPECIFICATION Spec
CONSTANTS
    MAX_CONFIGURE = 3
    MAX_TERMINATE = 2
    AuthMethod = "MsChapV2"
    MaxAccepts = 2
INVARIANT RestartRearmed
