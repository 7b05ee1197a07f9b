--------------------------- MODULE PluginManager ---------------------------
(***************************************************************************)
(* The plugin manager of the lyra shell: the Rust tables (crates/plugins), *)
(* the loaders (src/plugin.c), the lyra.plugin functions Lua calls         *)
(* (src/state.c) and the unloading end_shell_state does.                   *)
(*                                                                         *)
(* Everything runs on one thread, but not atomically: requiring a Lua      *)
(* plugin runs its code, which may call lyra.plugin again while the outer  *)
(* call is half way.  `stack` is the chain of calls in progress, innermost *)
(* last; every action is one step of the innermost call.                   *)
(***************************************************************************)
EXTENDS Integers, Sequences, FiniteSets

CONSTANTS
    Plugins,    \* plugin URLs
    Kind,       \* manifest header: [Plugins -> {"Lua", "C", "Rust", "Binary"}]
    Deps,       \* manifest dependencies: [Plugins -> Seq(Dependency)]
    NoSource,   \* a dependency without a source URL
    Boot,       \* the plugins the config file requires, in order
    Flaky,      \* plugins whose manifest may be missing, or whose build may fail or be
                \* cut short
    MaxDepth,   \* bound: calls in progress when Lua makes another
    MaxOpens    \* bound: open handles of an object when Lua makes a call

Kinds == {"Lua", "C", "Rust", "Binary"}

Dependency == [source : Plugins \cup {NoSource}, optional : BOOLEAN]

ASSUME PluginsAssumption ==
    /\ NoSource \notin Plugins
    /\ IsFiniteSet(Plugins)
    /\ Kind \in [Plugins -> Kinds]
    /\ DOMAIN Deps = Plugins
    /\ \A u \in Plugins : Deps[u] \in Seq(Dependency)
    /\ Boot \in Seq(Plugins)
    /\ Flaky \subseteq Plugins
    /\ MaxDepth \in Nat /\ MaxOpens \in Nat

VARIABLES
    plugins,    \* PluginManager.plugins: the URLs resolved so far
    prepared,   \* PluginManager.prepared_plugins
    pending,    \* what the plugin iterator of end_shell_state has yet to yield
    handler,    \* PluginData.handler of every URL
    opens,      \* dlopen calls on each plugin's object not yet matched by a dlclose
    installed,  \* native plugins whose setup has put C functions into Lua
    hooked,     \* Lua plugins whose table held an unload function when required
    stack,      \* calls in progress
    failing,    \* an Err is being propagated by `?`
    booted,     \* how many of Boot's requires have returned
    phase,      \* of the shell's life
    fault       \* the null or stale pointer the process died of

vars == <<plugins, prepared, pending, handler, opens, installed, hooked, stack,
          failing, booted, phase, fault>>

manager == <<plugins, prepared, pending, handler, opens>>

(***************************************************************************)
(* Data                                                                    *)
(***************************************************************************)
Native(u) == Kind[u] # "Lua"

\* An Option<PluginHandler>.  loaded: the dlopen handle is not NULL; built: the
\* build of the object succeeded; opts: setup_table_reference holds a table;
\* unload: destruct_reference holds the plugin's unload function.  A Rust build
\* that is refused returns a handler of zeroes: neither loaded nor built.
Handler == [present : BOOLEAN, loaded : BOOLEAN, built : BOOLEAN,
            opts : BOOLEAN, unload : BOOLEAN]

NoHandler == [present |-> FALSE, loaded |-> FALSE, built |-> FALSE,
              opts |-> FALSE, unload |-> FALSE]

NewHandler(loaded, built) ==
    [NoHandler EXCEPT !.present = TRUE, !.loaded = loaded, !.built = built]

\* A call in progress.  prepare: Rust's prepare_plugin, next is the dependency
\* it is at, 0 before the manifest is known.  require: lua_plugin_api_require
\* before the plugin's code runs; init and setup: while init.lua, or the setup
\* function, runs.  valid: the handler pointer h the call took is not dangling.
Frame == [op : {"prepare", "require", "init", "setup"}, plugin : Plugins,
          next : Nat, valid : BOOLEAN]

Call(op, u) == [op |-> op, plugin |-> u, next |-> 0, valid |-> TRUE]

Depth == Len(stack)
Top == stack[Depth]
Below == SubSeq(stack, 1, Depth - 1)
At(op) == stack # <<>> /\ Top.op = op

\* A dependency prepare_plugin walks into.
Followed_NotTwice(d) == ~d.optional /\ d.source # NoSource /\ d.source \notin prepared
Followed(d) == ~d.optional /\ d.source # NoSource

\* The loop over the dependencies goes on to the next one.
Advanced_Forgotten == stack
Advanced == [stack EXCEPT ![Depth].next = @ + 1]

\* The innermost call returns to the one under it, whose loop goes on.
UnderPrepare == Depth > 1 /\ stack[Depth - 1].op = "prepare"

Returned == IF UnderPrepare THEN [Below EXCEPT ![Depth - 1].next = @ + 1] ELSE Below

\* An Err returned by prepare_plugin leaves the call under it, too.
Escapes_NotRequire == At("prepare") /\ UnderPrepare
Escapes ==
    At("prepare") /\ (UnderPrepare \/ (Depth > 1 /\ stack[Depth - 1].op = "require"))

\* HashMap growth: the table of 4, 8 or 16 buckets is full at 3, 7 or 14
\* entries; the next insert moves every entry, and a PluginData pointer dangles.
Rehash == Cardinality(plugins) \in {3, 7, 14}

Inserted(s) ==
    IF Rehash
    THEN [i \in DOMAIN s |-> [s[i] EXCEPT !.valid = @ /\ s[i].op \in {"prepare", "require"}]]
    ELSE s

\* What of the configuration MappedUntilLuaCloses needs: the first plugin config/init.lua
\* requires is native and depends on nothing, the second depends on it, and no later one
\* is native.
First == Boot[1]
Second == Boot[2]

BootAsShipped ==
    /\ Len(Boot) >= 2 /\ Native(First) /\ Deps[First] = <<>>
    /\ \A i \in DOMAIN Boot : Native(Boot[i]) => Boot[i] = First
    /\ \E k \in DOMAIN Deps[Second] : Deps[Second][k] = [source |-> First, optional |-> FALSE]

Booting == booted < Len(Boot)

\* Lua code is running and may call lyra.plugin: a hook, the config file, or
\* the code of a Lua plugin.
LuaRuns ==
    /\ phase = "running" /\ ~failing
    /\ stack # <<>> => Top.op \in {"init", "setup"} /\ ~Native(Top.plugin)

\* At top level the config file's requires come first.
MayCall == LuaRuns /\ (stack = <<>> => ~Booting)

InBounds == Depth < MaxDepth /\ \A u \in Plugins : opens[u] <= MaxOpens

Crash(why) ==
    /\ phase' = "crashed"
    /\ fault' = why
    /\ UNCHANGED <<manager, installed, hooked, stack, failing, booted>>

\* The outermost call returned; the config file goes on to its next require.
Advance == booted' = IF Depth = 1 /\ Booting THEN booted + 1 ELSE booted

(***************************************************************************)
(* lyra.plugin, as Lua calls it                                            *)
(***************************************************************************)
Init ==
    /\ plugins = {} /\ prepared = {} /\ pending = {}
    /\ handler = [u \in Plugins |-> NoHandler]
    /\ opens = [u \in Plugins |-> 0]
    /\ installed = {} /\ hooked = {}
    /\ stack = <<>> /\ failing = FALSE /\ booted = 0
    /\ phase = "running" /\ fault = "none"

\* lyra.plugin.resolve(u).  get_plugin_handler is given a null PluginData when
\* the manifest cannot be read, and returns a null handler for a plugin that
\* was never prepared: both are dereferenced.
Resolve(u) ==
    /\ MayCall
    /\ IF u \in plugins /\ handler[u].present
       THEN /\ handler' = [handler EXCEPT ![u].opts = TRUE]
            /\ UNCHANGED <<plugins, prepared, pending, opens, installed, hooked, stack,
                           failing, booted, phase, fault>>
       ELSE Crash("null_handler")

Prepare(u) ==
    /\ MayCall /\ InBounds
    /\ stack' = Append(stack, Call("prepare", u))
    /\ UNCHANGED <<manager, installed, hooked, failing, booted, phase, fault>>

Require(u) ==
    /\ LuaRuns /\ InBounds
    /\ stack = <<>> /\ Booting => u = Boot[booted + 1]
    /\ LET s == Append(stack, Call("require", u))
       IN  stack' = IF u \in prepared THEN s ELSE Append(s, Call("prepare", u))
    /\ UNCHANGED <<manager, installed, hooked, failing, booted, phase, fault>>

(***************************************************************************)
(* PluginManager::prepare_plugin                                           *)
(***************************************************************************)
\* PluginManager::resolve.  The manifests of the dependencies are not read here:
\* the loop over them asks whether the plugin itself is in the table, which it
\* never is at that point.
ReadManifest ==
    /\ phase = "running" /\ ~failing /\ At("prepare") /\ Top.next = 0
    /\ plugins' = plugins \cup {Top.plugin}
    /\ stack' = IF Top.plugin \in plugins THEN Advanced ELSE Inserted(Advanced)
    /\ UNCHANGED <<prepared, pending, handler, opens, installed, hooked, failing,
                   booted, phase, fault>>

MissingManifest ==
    /\ phase = "running" /\ ~failing /\ At("prepare") /\ Top.next = 0
    /\ Top.plugin \in Flaky \ plugins
    /\ failing' = TRUE
    /\ UNCHANGED <<manager, installed, hooked, stack, booted, phase, fault>>

\* Walk the dependencies; one that is already prepared is prepared again.
PrepareDependency ==
    /\ phase = "running" /\ ~failing /\ At("prepare")
    /\ Top.next \in 1 .. Len(Deps[Top.plugin])
    /\ LET d == Deps[Top.plugin][Top.next]
       IN  IF Followed(d)
           THEN stack' = Append(stack, Call("prepare", d.source))
           ELSE stack' = Advanced
    /\ UNCHANGED <<manager, installed, hooked, failing, booted, phase, fault>>

Propagate_Swallowed ==
    /\ phase = "running" /\ failing
    /\ failing' = FALSE
    /\ stack' = Returned
    /\ UNCHANGED <<manager, installed, hooked, booted, phase, fault>>

\* Err leaves one call of prepare_plugin; lua_plugin_api_require gives up and
\* returns nothing, and lua_plugin_api_prepare ignores it.  The config file, whose
\* later lines use what it requires, ends the process.
Propagate ==
    /\ phase = "running" /\ failing
    /\ failing' = Escapes
    /\ stack' = Below
    /\ phase' = IF Depth = 1 /\ Booting THEN "exited" ELSE phase
    /\ UNCHANGED <<manager, installed, hooked, booted, fault>>

\* How the compiler, run in a child, may end.
Built(u) == IF u \in Flaky /\ Kind[u] \in {"C", "Rust"} THEN BOOLEAN ELSE {TRUE}

\* What the loader of each kind may return: <<handle is not NULL, built>>.  A C
\* plugin is given to dlopen whether or not its build succeeded (the object of
\* an earlier run may be there), and a Rust plugin when SIGWINCH cuts the wait for
\* cargo or cp, which leaves the status of a success; dlopen of a path that is mapped
\* finds it.
Outcome(u) ==
    {o \in BOOLEAN \X Built(u) :
        /\ Kind[u] = "Lua" => ~o[1]
        /\ Native(u) /\ u \notin Flaky => o[1]
        /\ Kind[u] \in {"C", "Binary"} /\ opens[u] > 0 => o[1]}

\* Every dependency is prepared: build, dlopen, and store the new handler over
\* the old one, which is neither closed nor unloaded.
LoadPlugin ==
    /\ phase = "running" /\ ~failing /\ At("prepare")
    /\ Top.next > Len(Deps[Top.plugin])
    /\ \E o \in Outcome(Top.plugin) :
        /\ handler' = [handler EXCEPT ![Top.plugin] = NewHandler(o[1], o[2])]
        /\ opens' = [opens EXCEPT ![Top.plugin] = IF o[1] THEN @ + 1 ELSE @]
    /\ prepared' = prepared \cup {Top.plugin}
    /\ stack' = Returned
    /\ UNCHANGED <<plugins, pending, installed, hooked, failing, booted, phase, fault>>

(***************************************************************************)
(* lua_plugin_api_require, once the plugin is prepared                     *)
(***************************************************************************)
Running(op) == phase = "running" /\ ~failing /\ At(op)

\* A native plugin: call setup, found by dlsym in the handle.
RunNative ==
    /\ Running("require") /\ Native(Top.plugin)
    /\ IF handler[Top.plugin].loaded
       THEN /\ installed' = installed \cup {Top.plugin}
            /\ stack' = [stack EXCEPT ![Depth].op = "setup"]
            /\ UNCHANGED <<manager, hooked, failing, booted, phase, fault>>
       ELSE Crash("null_setup")

\* A Lua plugin: run its init.lua.
RunInit ==
    /\ Running("require") /\ ~Native(Top.plugin)
    /\ stack' = [stack EXCEPT ![Depth].op = "init"]
    /\ UNCHANGED <<manager, installed, hooked, failing, booted, phase, fault>>

RunSetup_Overwrites(hasUnload) ==
    /\ Running("init")
    /\ IF Top.valid
       THEN /\ handler' = [handler EXCEPT ![Top.plugin].unload = hasUnload]
            /\ hooked' = IF hasUnload THEN hooked \cup {Top.plugin} ELSE hooked
            /\ stack' = [stack EXCEPT ![Depth].op = "setup"]
            /\ UNCHANGED <<plugins, prepared, pending, opens, installed, failing,
                           booted, phase, fault>>
       ELSE Crash("stale_handler")

\* init.lua returned a table: keep its unload function, if it has one, in the
\* handler the call took before it ran the file; then run its setup function.
RunSetup(hasUnload) ==
    /\ Running("init")
    /\ IF Top.valid
       THEN /\ handler' = [handler EXCEPT ![Top.plugin].unload = hasUnload \/ @]
            /\ hooked' = IF hasUnload THEN hooked \cup {Top.plugin} ELSE hooked
            /\ stack' = [stack EXCEPT ![Depth].op = "setup"]
            /\ UNCHANGED <<plugins, prepared, pending, opens, installed, failing,
                           booted, phase, fault>>
       ELSE Crash("stale_handler")

\* setup returned.  A table's exports and extends go to the handler; nil leaves
\* it alone.
FinishRequire(table) ==
    /\ Running("setup")
    /\ IF table => Top.valid
       THEN /\ stack' = Below
            /\ Advance
            /\ UNCHANGED <<manager, installed, hooked, failing, phase, fault>>
       ELSE Crash("stale_handler")

\* The file does not load, or init.lua or setup raises an error: it is the
\* caller's.  In the config file it ends the process.
FailRequire ==
    /\ \/ Running("init") \/ Running("setup")
       \/ Running("require") /\ ~Native(Top.plugin)
    /\ stack' = Below
    /\ phase' = IF Depth = 1 /\ Booting THEN "exited" ELSE phase
    /\ UNCHANGED <<manager, installed, hooked, failing, booted, fault>>

(***************************************************************************)
(* end_shell_state: unload every prepared plugin, in the order of a        *)
(* HashSet, close Lua, drop the manager; on reload, start over.            *)
(***************************************************************************)
BeginShutdown ==
    /\ phase = "running" /\ stack = <<>> /\ ~Booting
    /\ phase' = "unloading"
    /\ pending' = prepared
    /\ UNCHANGED <<plugins, prepared, handler, opens, installed, hooked, stack,
                   failing, booted, fault>>

Emptied_Forgotten(u) == handler
Emptied(u) == [handler EXCEPT ![u] = NoHandler]

\* PluginManager::destroy_plugin, PluginHandlerWrapper::unload_plugin.  The handler
\* of zeroes is of kind Lua, and unloading it does nothing; a null handle of the
\* others goes to dlclose.
Unload(u) ==
    /\ phase = "unloading" /\ u \in pending
    /\ IF /\ Native(u) /\ handler[u].present /\ ~handler[u].loaded
          /\ Kind[u] = "Rust" => handler[u].built
       THEN Crash("null_dlclose")
       ELSE /\ pending' = pending \ {u}
            /\ prepared' = prepared \ {u}
            /\ handler' = Emptied(u)
            /\ opens' = [opens EXCEPT ![u] = IF handler[u].loaded THEN @ - 1 ELSE @]
            /\ UNCHANGED <<plugins, installed, hooked, stack, failing, booted,
                           phase, fault>>

CloseLua ==
    /\ phase = "unloading" /\ pending = {}
    /\ phase' = "closed"
    /\ installed' = {} /\ hooked' = {}
    /\ UNCHANGED <<manager, stack, failing, booted, fault>>

\* A reload: a new manager, whose artifact paths are new, reads the config file.
Restart ==
    /\ phase = "closed"
    /\ plugins' = {} /\ phase' = "running" /\ booted' = 0
    /\ handler' = [u \in Plugins |-> NoHandler]
    /\ opens' = [u \in Plugins |-> 0]
    /\ UNCHANGED <<prepared, pending, installed, hooked, stack, failing, fault>>

PrepareStep == ReadManifest \/ MissingManifest \/ PrepareDependency \/ Propagate \/ LoadPlugin

RequireStep ==
    \/ RunNative \/ RunInit \/ FailRequire
    \/ \E b \in BOOLEAN : RunSetup(b) \/ FinishRequire(b)

LuaCall == \E u \in Plugins : Resolve(u) \/ Prepare(u) \/ Require(u)

ShutdownStep == BeginShutdown \/ (\E u \in Plugins : Unload(u)) \/ CloseLua \/ Restart

Next == LuaCall \/ PrepareStep \/ RequireStep \/ ShutdownStep

\* The thread runs: a prepare_plugin in progress is never left standing.
Fairness == WF_vars(PrepareStep)

Spec == Init /\ [][Next]_vars /\ Fairness

(***************************************************************************)
(* Properties                                                              *)
(***************************************************************************)
TypeOK ==
    /\ plugins \subseteq Plugins /\ prepared \subseteq Plugins
    /\ pending \subseteq Plugins
    /\ handler \in [Plugins -> Handler]
    /\ opens \in [Plugins -> Nat]
    /\ installed \subseteq Plugins /\ hooked \subseteq Plugins
    /\ stack \in Seq(Frame)
    /\ failing \in BOOLEAN
    /\ booted \in 0 .. Len(Boot)
    /\ phase \in {"running", "exited", "unloading", "closed", "crashed"}
    /\ fault \in {"none", "null_handler", "null_setup", "stale_handler", "null_dlclose"}

\* What a plugin needs is loaded before it is: while Lua runs, every dependency
\* that prepare_plugin must follow is prepared if the plugin is, however calls
\* nest, fail half way or repeat.
PreparedDepsPrepared ==
    phase = "running" =>
        \A u \in prepared : \A k \in DOMAIN Deps[u] :
            Followed(Deps[u][k]) => Deps[u][k].source \in prepared

\* lua_plugin_api_require dereferences what get_plugin and get_plugin_handler
\* return without a test: whenever it gets there the plugin is in the table and
\* has a handler, although is_plugin_prepared asked another table.
RequireFindsHandler ==
    Running("require") => Top.plugin \in plugins /\ handler[Top.plugin].present

\* The dlopen handle a handler holds is open: setup is not called in, and dlclose
\* is not given, an object that was unmapped.
HandleOpen == \A u \in Plugins : handler[u].loaded => opens[u] > 0

\* Until lua_close has run the last finalizer, the objects whose C functions and
\* metatables Lua holds stay mapped, for the native plugins the config file loads.
\* The shipped configuration gets it from preparing the runtime twice (require
\* runtime, then require api, which depends on it) and closing it once.
MappedUntilLuaCloses ==
    phase \in {"running", "unloading"} =>
        \A u \in installed : (\E i \in DOMAIN Boot : Boot[i] = u) => opens[u] > 0

\* Every prepare ends: Lua gets control back, or the plugin is activated.
PrepareReturns ==
    At("prepare") ~> (LuaRuns \/ At("require") \/ phase # "running")

\* The unload hook of a Lua plugin stays with the handler that unloads the plugin,
\* however often it is required again, unless the plugin is prepared again - as the
\* preparation of any plugin that depends on it does.
UnloadHookLostByPreparing ==
    [][\A u \in hooked :
          handler[u].unload /\ ~handler'[u].unload =>
              \/ Running("prepare") /\ Top.plugin = u
              \/ phase # "running"]_vars

(***************************************************************************)
(* What the documentation says and the code does not do                    *)
(***************************************************************************)
\* plugin.c: a plugin whose compilation failed is refused, and does not run.
FailedBuildNotRun ==
    [][\A u \in installed' \ installed : handler[u].built]_vars
=============================================================================
