CONSTANTS
    Asking = {}
    PipedExecMayFail = TRUE
SPECIFICATION Spec
INVARIANT
    PromptIsRaw
CHECK_DEADLOCK FALSE
