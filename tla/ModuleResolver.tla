--------------------------- MODULE ModuleResolver ---------------------------
(***************************************************************************)
(* What `require` finds in a shell with plugins                            *)
(* (src/state/lua_require_resolve.c, called by lyra.plugin.require).       *)
(*                                                                         *)
(* Requiring a Lua plugin appends its directory to package.path and adds a *)
(* searcher for its namespace, the last component of its path.  Any code   *)
(* then finds `m` in the first directory of the path that has it; `ns.m`   *)
(* is left to the searcher of ns, which wants a function of the plugin     *)
(* somewhere on the call stack.  What was found is kept under its name.    *)
(*                                                                         *)
(* A name is <<namespace, module>>, or <<"", module>> for a bare one.  A   *)
(* file is <<plugin, directory below lua, module>>.                        *)
(***************************************************************************)
EXTENDS Naturals, Sequences

CONSTANTS
    Plugins,    \* of kind Lua, by their paths
    Ns,         \* Ns[P]: the last component of the path
    Covers,     \* <<Q, P>>: the path of P is the end of the path of Q
    Below,      \* <<Q, P>>: Q lies in the directory of P
    Libs,       \* the directories that package.path may hold from the start
    Modules,    \* the files there are
    Names,      \* the names that programs require
    MaxDepth    \* bound on the calls in progress

Dirs == Plugins \cup Libs

ASSUME ResolverAssumption ==
    /\ Plugins \cap Libs = {} /\ "" \notin Dirs
    /\ Ns \in [Plugins -> STRING] /\ \A P \in Plugins : Ns[P] # ""
    /\ Covers \subseteq Plugins \X Plugins /\ Below \subseteq Plugins \X Plugins
    /\ Modules \subseteq Dirs \X STRING \X STRING
    /\ \A f \in Modules : f[3] # ""
    /\ MaxDepth \in Nat

VARIABLES
    path,       \* package.path: directories in order
    searchers,  \* package.searchers: plugins in order
    loaded,     \* package.loaded
    stack,      \* the calls in progress, the innermost last: whose code, and the
                \* name under which it is being loaded
    active      \* history: the plugins that were required

vars == <<path, searchers, loaded, stack, active>>

Missing == <<"", "", "">>
InitFile(P) == <<P, "", "">>
File == Modules \cup {InitFile(P) : P \in Plugins}

NoName == <<"", "">>
Frame == [file : File, as : Names \cup {NoName}]

(***************************************************************************)
(* register_plugin_module_paths                                            *)
(***************************************************************************)
\* strstr also finds the directory at the end of a longer one.
Listed(P) == \E i \in DOMAIN path : path[i] = P \/ <<path[i], P>> \in Covers

Taken(P) == \E i \in DOMAIN searchers : Ns[searchers[i]] = Ns[P]

Register_NewNamespaceOnly(P) ==
    /\ searchers' = IF Taken(P) THEN searchers ELSE Append(searchers, P)
    /\ path' = IF Taken(P) \/ Listed(P) THEN path ELSE Append(path, P)

Register(P) ==
    /\ searchers' = IF Taken(P) THEN searchers ELSE Append(searchers, P)
    /\ path' = IF Listed(P) THEN path ELSE Append(path, P)

(***************************************************************************)
(* The searchers of require                                                *)
(***************************************************************************)
\* The first member of s that is in `good`.
First(s, good) ==
    IF \E i \in DOMAIN s : s[i] \in good
    THEN s[CHOOSE i \in DOMAIN s : s[i] \in good /\ \A j \in 1..(i - 1) : s[j] \notin good]
    ELSE ""

\* package.searchpath
ByPath(name) ==
    LET D == First(path, {X \in Dirs : <<X, name[1], name[2]>> \in Modules})
    IN  IF D = "" THEN Missing ELSE <<D, name[1], name[2]>>

\* plugin_namespace_from_path, push_plugin_module_loader: what a name means to the searcher
\* of a plugin, whose own name is its init.lua.
InPlugin_AnyNamespace(P, name) == IF name[1] = "" THEN InitFile(P) ELSE <<P, "", name[2]>>

InPlugin(P, name) ==
    IF name[1] = "" /\ name[2] = Ns[P] THEN InitFile(P)
    ELSE IF name[1] = Ns[P] THEN <<P, "", name[2]>> ELSE Missing

\* caller_is_within_plugin
Within(P) ==
    \E i \in DOMAIN stack : stack[i].file[1] = P \/ <<stack[i].file[1], P>> \in Below

\* plugin_namespace_searcher, of each plugin in turn
ByNamespace(name) ==
    LET P == First(searchers, {X \in Plugins : Within(X) /\ InPlugin(X, name) \in File})
    IN  IF P = "" THEN Missing ELSE InPlugin(P, name)

Found(name) ==
    IF loaded[name] # Missing THEN loaded[name]
    ELSE IF ByPath(name) # Missing THEN ByPath(name) ELSE ByNamespace(name)

(***************************************************************************)
(* Programs                                                                *)
(***************************************************************************)
Init ==
    /\ path \in {<<>>} \cup {<<L>> : L \in Libs}
    /\ searchers = <<>> /\ stack = <<>> /\ active = {}
    /\ loaded = [n \in Names |-> Missing]

Call(file, name) ==
    /\ Len(stack) < MaxDepth
    /\ stack' = Append(stack, [file |-> file, as |-> name])

\* lyra.plugin.require, from the configuration or from a plugin.
RequirePlugin(P) ==
    /\ Register(P)
    /\ Call(InitFile(P), NoName)
    /\ active' = active \cup {P}
    /\ UNCHANGED loaded

\* A function of a plugin is called, by a hook or by other code.
CallPlugin(P) ==
    /\ P \in active
    /\ Call(InitFile(P), NoName)
    /\ UNCHANGED <<path, searchers, loaded, active>>

\* require loads what is not loaded yet.
Require(name) ==
    /\ stack # <<>> /\ loaded[name] = Missing /\ Found(name) # Missing
    /\ Call(Found(name), name)
    /\ UNCHANGED <<path, searchers, loaded, active>>

\* The innermost call returns, or fails; what a module that returns gave is kept.
Return ==
    /\ stack # <<>>
    /\ stack' = SubSeq(stack, 1, Len(stack) - 1)
    /\ LET call == stack[Len(stack)] IN
          \/ UNCHANGED loaded
          \/ call.as # NoName /\ loaded' = [loaded EXCEPT ![call.as] = call.file]
    /\ UNCHANGED <<path, searchers, active>>

Next ==
    \/ \E P \in Plugins : RequirePlugin(P) \/ CallPlugin(P)
    \/ \E n \in Names : Require(n)
    \/ Return

Spec == Init /\ [][Next]_vars

(***************************************************************************)
(* Properties                                                              *)
(***************************************************************************)
TypeOK ==
    /\ path \in Seq(Dirs) /\ searchers \in Seq(Plugins) /\ active \subseteq Plugins
    /\ loaded \in [Names -> File \cup {Missing}]
    /\ stack \in Seq(Frame)

\* Whose code runs.
Runs(P) == stack # <<>> /\ stack[Len(stack)].file[1] = P

\* README: modules are private to the plugin that owns them.  A plugin that asks for its
\* module under its own namespace gets it, whatever was required, loaded and kept before,
\* but for two cases: another plugin that was required has the same namespace, or a
\* directory of the path has a directory with its name.
OwnByNamespace ==
    \A P \in Plugins, m \in {f[3] : f \in Modules} :
        Runs(P) /\ <<P, "", m>> \in Modules /\ <<Ns[P], m>> \in Names =>
            \/ Found(<<Ns[P], m>>) = <<P, "", m>>
            \/ \E Q \in active \ {P} : Ns[Q] = Ns[P]
            \/ \E X \in active \cup Libs : <<X, Ns[P], m>> \in Modules

\* Under the bare name it gets its module but for three: another plugin or library has a
\* module of this name or is called by it, or the plugin's directory is taken for part
\* of another's in the path.
OwnByBareName ==
    \A P \in Plugins, m \in {f[3] : f \in Modules} :
        Runs(P) /\ <<P, "", m>> \in Modules /\ <<"", m>> \in Names =>
            \/ Found(<<"", m>>) = <<P, "", m>>
            \/ \E X \in (active \cup Libs) \ {P} : <<X, "", m>> \in Modules
            \/ \E Q \in active : Ns[Q] = m \/ <<Q, P>> \in Covers
=============================================================================
