-------------------------- MODULE MCPluginManager --------------------------
(***************************************************************************)
(* Instances of PluginManager for TLC: the plugins the repository ships    *)
(* with a user's Lua plugin on top, and a deeper graph of every kind.      *)
(***************************************************************************)
EXTENDS PluginManager, TLC

CONSTANTS runtime, api, treesitter, user

Needs(u) == [source |-> u, optional |-> FALSE]
MayUse(u) == [source |-> u, optional |-> TRUE]

\* The manifests of plugins/*/lyra.toml, and a user's plugin that needs two of
\* them: one plugin more than the table holds before it grows.
ShippedKind ==
    runtime :> "C" @@ api :> "Lua" @@ treesitter :> "Rust" @@ user :> "Lua"

ShippedDeps ==
    runtime :> <<>> @@ treesitter :> <<>>
        @@ api :> <<Needs(runtime), MayUse(treesitter)>>
        @@ user :> <<Needs(api), Needs(NoSource), Needs(runtime)>>

\* config/init.lua
ShippedBoot == <<runtime, api>>

\* The configuration is one AlwaysMappedUntilLuaCloses is about.
ASSUME ShippedAssumption == BootAsShipped
=============================================================================
