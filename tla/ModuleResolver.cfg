CONSTANTS
    Plugins <- MCPlugins
    Ns <- MCNs
    Covers <- MCCovers
    Below <- MCBelow
    Libs <- MCLibs
    Modules <- MCModules
    Names <- MCNames
    MaxDepth = 2
SPECIFICATION Spec
INVARIANTS
    OwnByNamespace
    OwnByBareName
