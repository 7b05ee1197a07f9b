CONSTANTS
    runtime = runtime
    api = api
    treesitter = treesitter
    user = user
    NoSource = NoSource
    Plugins = {runtime, api, treesitter, user}
    Kind <- ShippedKind
    Deps <- ShippedDeps
    Boot <- ShippedBoot
    Flaky = {runtime, api, treesitter}
    MaxDepth = 2
    MaxOpens = 2
SPECIFICATION Spec
INVARIANTS
    PreparedDepsPrepared
    RequireFindsHandler
    HandleOpen
    MappedUntilLuaCloses
PROPERTIES
    PrepareReturns
    UnloadHookLostByPreparing
CHECK_DEADLOCK FALSE
