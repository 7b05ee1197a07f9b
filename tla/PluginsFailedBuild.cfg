CONSTANTS
    runtime = runtime
    api = api
    treesitter = treesitter
    user = user
    NoSource = NoSource
    Plugins = {runtime, api, treesitter, user}
    Kind <- ShippedKind
    Deps <- ShippedDeps
    Boot <- ShippedBoot
    Flaky = {runtime, treesitter}
    MaxDepth = 1
    MaxOpens = 2
SPECIFICATION Spec
PROPERTY
    FailedBuildNotRun
CHECK_DEADLOCK FALSE
