CONSTANTS
    Hooks = {f, g}
    f = f
    g = g
    Bystander = "table"
    MaxHooks = 3
    MaxErrors = 2
SYMMETRY Swaps
SPECIFICATION Spec
INVARIANTS
    OneValuePerFailure
PROPERTIES
    CallsAll
