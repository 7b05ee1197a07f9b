CONSTANTS
    Asking = {"enter", "exit"}
    PipedExecMayFail = TRUE
    Pipes = {"p"}
    Files = {"f"}
    Cmds = {"c"}
    Fds = {3, 4, 5}
    MaxBinds = 2
SPECIFICATION SHSpec
INVARIANTS
    TerminalRestored
    ChildrenReaped
    HandlesOwn
    OnlyFilesLeak
    ReaderCannotWrite
PROPERTIES
    SignalSafeOutsideLua
    
    ExitHonoured
    ReloadHonoured
    ReadNeverEnds
    
CHECK_DEADLOCK FALSE
