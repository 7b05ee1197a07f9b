------------------------------- MODULE Shell -------------------------------
(***************************************************************************)
(* The life of the lyra shell and of the terminal it owns: the main loop   *)
(* (src/main.c), the state it builds and tears down (src/state.c), the     *)
(* hooks it runs, the external commands a key hook runs (lang.lua over     *)
(* process.c), the children it forks, and SIGWINCH, which may arrive at    *)
(* any step and runs Lua from the signal handler.                          *)
(*                                                                         *)
(* `pc` is where the only thread of the shell is.  The hooks are those of  *)
(* config/init.lua, and the requests a user's hooks may add.               *)
(***************************************************************************)
EXTENDS Naturals, FiniteSets

CONSTANTS
    Asking,     \* the events, "enter" and "exit", whose hooks may ask to exit or reload
    PipedExecMayFail    \* execv of a member of a pipeline may fail

ASSUME ShellAssumption ==
    /\ Asking \subseteq {"enter", "exit"}
    /\ PipedExecMayFail \in BOOLEAN

Children == {"src", "out"}      \* of a pipeline; a single command is "out"

VARIABLES
    pc,         \* where the shell is
    isRunning, reload,      \* state.is_running, state.reload
    reloading,  \* in the reload block of the main loop
    lua,        \* state.L is an open Lua state
    hooks,      \* state.event.hooks: "unset", "set" (four empty lists),
                \* "registered", or "freed" (data is NULL, len is not 0)
    handles,    \* sigaction has installed signal_handler
    raw, got, alt,          \* state.vars.term: in_raw_mode, got_original, in_alternate_screen
    orig,       \* state.vars.term.orig_termios
    tty,        \* the mode the terminal is really in
    cleanup,    \* atexit(unset_raw_mode) is registered
    child,      \* each child process
    inherited,  \* in_raw_mode in the children's copy of the state
    piped,      \* the line being run is a pipeline
    exitAsked, reloadAsked  \* history: an exit, a reload was asked since the last start

term == <<raw, got, orig, tty, cleanup>>
flags == <<isRunning, reload, exitAsked, reloadAsked>>
run == <<child, inherited, piped>>
env == <<lua, hooks, handles>>

vars == <<pc, isRunning, reload, reloading, lua, hooks, handles, raw, got, alt, orig,
          tty, cleanup, child, inherited, piped, exitAsked, reloadAsked>>

Modes == {"cooked", "raw"}

Ended == pc \in {"done", "exited", "crashed"}

\* The Lua virtual machine is in the middle of something.
LuaBusy == pc \in {"config", "enter", "hook", "exit", "unload"}

(***************************************************************************)
(* Raw mode                                                                *)
(***************************************************************************)
SetRaw_NoCleanup ==
    IF raw THEN UNCHANGED term
    ELSE /\ raw' = TRUE /\ got' = TRUE
         /\ orig' = IF got THEN orig ELSE tty
         /\ tty' = "raw"
         /\ UNCHANGED cleanup

SetRaw ==
    IF raw THEN UNCHANGED term
    ELSE /\ raw' = TRUE /\ got' = TRUE
         /\ orig' = IF got THEN orig ELSE tty
         /\ cleanup' = TRUE
         /\ tty' = "raw"

Restored == IF raw /\ got THEN orig ELSE tty

UnsetRaw_FlagOnly == raw' = FALSE /\ UNCHANGED <<got, orig, tty, cleanup>>

UnsetRaw == raw' = FALSE /\ tty' = Restored /\ UNCHANGED <<got, orig, cleanup>>

\* exit(-1): the atexit handlers run, and nothing else.
Exits ==
    /\ pc' = "exited"
    /\ IF cleanup THEN UnsetRaw ELSE UNCHANGED term

\* A hook may set state.is_running to false and state.reload to true.
Ask(may) ==
    \E stop, again \in BOOLEAN :
        /\ (stop \/ again) => may
        /\ isRunning' = (isRunning /\ ~stop) /\ exitAsked' = (exitAsked \/ stop)
        /\ reload' = (reload \/ again) /\ reloadAsked' = (reloadAsked \/ again)

(***************************************************************************)
(* init_shell_state                                                        *)
(***************************************************************************)
Init ==
    /\ pc = "start"
    /\ isRunning = FALSE /\ reload = FALSE /\ reloading = FALSE
    /\ exitAsked = FALSE /\ reloadAsked = FALSE
    /\ lua = FALSE /\ hooks = "unset" /\ handles = FALSE
    /\ raw = FALSE /\ got = FALSE /\ alt = FALSE /\ cleanup = FALSE
    /\ orig = "unset" /\ tty = "cooked"
    /\ child = [c \in Children |-> "none"] /\ inherited = FALSE /\ piped = FALSE

Start ==
    /\ pc = "start"
    /\ pc' = "config"
    /\ lua' = TRUE /\ handles' = TRUE /\ hooks' = "set"
    /\ isRunning' = TRUE /\ exitAsked' = FALSE /\ reloadAsked' = FALSE
    /\ UNCHANGED <<term, run, reload, reloading, alt>>

RunConfig ==
    /\ pc = "config"
    /\ \/ /\ pc' = "enter" /\ hooks' = "registered"
          /\ UNCHANGED <<term, lua, handles>>
       \/ Exits /\ UNCHANGED env
    /\ UNCHANGED <<flags, run, reloading, alt>>

(***************************************************************************)
(* main                                                                    *)
(***************************************************************************)
EnterHooks ==
    /\ pc = "enter"
    /\ pc' = IF reloading THEN "reloaded" ELSE "loop"
    /\ SetRaw
    /\ Ask("enter" \in Asking)
    /\ UNCHANGED <<env, run, reloading, alt>>

Reloaded ==
    /\ pc = "reloaded"
    /\ pc' = "read"
    /\ reload' = FALSE /\ reloading' = FALSE
    /\ UNCHANGED <<env, term, run, isRunning, exitAsked, reloadAsked, alt>>

Loop_IgnoresReload ==
    /\ pc = "loop"
    /\ pc' = IF ~isRunning THEN "exit" ELSE "read"
    /\ reloading' = (isRunning /\ reload)
    /\ UNCHANGED <<env, term, run, flags, alt>>

Loop_ReloadFirst ==
    /\ pc = "loop"
    /\ pc' = IF ~isRunning \/ reload THEN "exit" ELSE "read"
    /\ reloading' = reload
    /\ UNCHANGED <<env, term, run, flags, alt>>

Loop ==
    /\ pc = "loop"
    /\ pc' = IF ~isRunning \/ reload THEN "exit" ELSE "read"
    /\ reloading' = (isRunning /\ reload)
    /\ UNCHANGED <<env, term, run, flags, alt>>

\* read_input_key: a key, or nothing within a tenth of a second.
ReadKey ==
    /\ pc = "read"
    /\ pc' \in {"hook", "loop"}
    /\ UNCHANGED <<env, term, run, flags, reloading, alt>>

\* The key_input hook returns, having perhaps run builtins.
HookReturns ==
    /\ pc = "hook"
    /\ pc' = "loop"
    /\ Ask(TRUE)
    /\ alt' \in BOOLEAN
    /\ UNCHANGED <<env, term, run, reloading>>

\* A call of the hook fails for good: waitpid, fork or pipe, in __suicide_msg.
HookEnds ==
    /\ pc = "hook"
    /\ Exits
    /\ UNCHANGED <<env, run, flags, reloading, alt>>

\* It uses memory that was freed: a command run again, or bound to what was collected.
HookCrashes ==
    /\ pc = "hook"
    /\ pc' = "crashed"
    /\ UNCHANGED <<env, term, run, flags, reloading, alt>>

ExitHooks ==
    /\ pc = "exit"
    /\ pc' = "restore"
    /\ UnsetRaw
    /\ Ask("exit" \in Asking)
    /\ UNCHANGED <<env, run, reloading, alt>>

(***************************************************************************)
(* External commands, run by the key_input hook                            *)
(***************************************************************************)
\* run_command: the terminal is restored for the child.
RunCommand ==
    /\ pc = "hook"
    /\ pc' = "wait_out"
    /\ UnsetRaw
    /\ child' = [child EXCEPT !["out"] = "forked"]
    /\ inherited' = FALSE /\ piped' = FALSE
    /\ UNCHANGED <<env, flags, reloading, alt>>

RunPiped_WaitsForOut ==
    /\ pc = "hook"
    /\ pc' = "wait_out"
    /\ child' = [c \in Children |-> "forked"]
    /\ inherited' = raw /\ piped' = TRUE
    /\ UNCHANGED <<env, term, flags, reloading, alt>>

\* run_piped: it is not.
RunPiped ==
    /\ pc = "hook"
    /\ pc' = "wait_src"
    /\ child' = [c \in Children |-> "forked"]
    /\ inherited' = raw /\ piped' = TRUE
    /\ UNCHANGED <<env, term, flags, reloading, alt>>

ChildExec(c) ==
    /\ child[c] = "forked"
    /\ child' = [child EXCEPT ![c] = "program"]
    /\ UNCHANGED <<pc, env, term, flags, inherited, piped, reloading, alt>>

\* execv failed: the child exits, and runs the atexit handler it inherited on its
\* copy of the state, but on the shell's terminal.
ChildExecFails(c) ==
    /\ child[c] = "forked" /\ (piped => PipedExecMayFail)
    /\ child' = [child EXCEPT ![c] = "zombie"]
    /\ tty' = IF cleanup /\ inherited THEN orig ELSE tty
    /\ UNCHANGED <<pc, env, raw, got, orig, cleanup, flags, inherited, piped, reloading, alt>>

\* A program leaves the terminal as it found it.
ChildExits(c) ==
    /\ child[c] = "program"
    /\ child' = [child EXCEPT ![c] = "zombie"]
    /\ UNCHANGED <<pc, env, term, flags, inherited, piped, reloading, alt>>

WaitSrc ==
    /\ pc = "wait_src" /\ child["src"] = "zombie"
    /\ pc' = "wait_out"
    /\ child' = [child EXCEPT !["src"] = "none"]
    /\ UNCHANGED <<env, term, flags, inherited, piped, reloading, alt>>

WaitOut ==
    /\ pc = "wait_out" /\ child["out"] = "zombie"
    /\ pc' = "hook"
    /\ child' = [child EXCEPT !["out"] = "none"]
    /\ IF piped THEN UNCHANGED term ELSE SetRaw
    /\ inherited' = FALSE /\ piped' = FALSE
    /\ UNCHANGED <<env, flags, reloading, alt>>

(***************************************************************************)
(* end_shell_state                                                         *)
(***************************************************************************)
RestoreTerminal ==
    /\ pc = "restore"
    /\ pc' = "unload"
    /\ alt' = FALSE
    /\ UnsetRaw
    /\ UNCHANGED <<env, flags, run, reloading>>

UnloadPlugins ==
    /\ pc = "unload"
    /\ pc' = "close"
    /\ UNCHANGED <<env, term, flags, run, reloading, alt>>

CloseLua ==
    /\ pc = "close"
    /\ pc' = "free"
    /\ lua' = FALSE
    /\ UNCHANGED <<hooks, handles, term, flags, run, reloading, alt>>

FreeHooks ==
    /\ pc = "free"
    /\ pc' = "reset"
    /\ hooks' = "freed"
    /\ UNCHANGED <<lua, handles, term, flags, run, reloading, alt>>

Cleared_KeepsHooks == hooks
Cleared == "unset"

\* state = {}: the flags, the hooks and the saved terminal mode are forgotten.
ResetState ==
    /\ pc = "reset"
    /\ pc' = IF reloading THEN "start" ELSE "done"
    /\ hooks' = Cleared
    /\ isRunning' = FALSE /\ reload' = FALSE /\ raw' = FALSE /\ got' = FALSE /\ alt' = FALSE
    /\ orig' = "unset"
    /\ UNCHANGED <<lua, handles, run, reloading, tty, cleanup, exitAsked, reloadAsked>>

(***************************************************************************)
(* SIGWINCH.  Where nothing below applies, the hook runs and returns.      *)
(***************************************************************************)
\* read fails with EINTR, and read_input_key returns false.
WinchInRead ==
    /\ handles /\ pc = "read"
    /\ pc' = "loop"
    /\ UNCHANGED <<env, term, run, flags, reloading, alt>>

\* waitpid fails with EINTR, and process_wait ends the shell.
WinchInWait ==
    /\ handles /\ pc \in {"wait_src", "wait_out"}
    /\ Exits
    /\ UNCHANGED <<env, run, flags, reloading, alt>>

\* trigger_event reads a null array, or calls into a closed Lua state; or the hook
\* runs in the middle of the Lua virtual machine, with any result.
WinchCrashes ==
    /\ handles
    /\ \/ hooks = "freed"
       \/ hooks = "registered" /\ (~lua \/ LuaBusy)
    /\ pc' = "crashed"
    /\ UNCHANGED <<env, term, run, flags, reloading, alt>>

(***************************************************************************)
(* Specification                                                           *)
(***************************************************************************)
MainStep ==
    \/ Start \/ RunConfig \/ EnterHooks \/ Reloaded \/ Loop \/ ReadKey \/ HookReturns
    \/ ExitHooks \/ WaitSrc \/ WaitOut \/ RestoreTerminal \/ UnloadPlugins \/ CloseLua
    \/ FreeHooks \/ ResetState

Line == RunCommand \/ RunPiped

ChildStep == \E c \in Children : ChildExec(c) \/ ChildExecFails(c) \/ ChildExits(c)

Winch == (~Ended) /\ (WinchInRead \/ WinchInWait \/ WinchCrashes)

\* What an ill-used handle of a Lua program does to the shell (module Handles).
Misuse == HookEnds \/ HookCrashes

Next == MainStep \/ Line \/ ChildStep \/ Winch \/ Misuse

\* The shell's thread is scheduled.  Nothing is assumed of the children, of the
\* user or of the window.
Safety == Init /\ [][Next]_vars
Spec == Safety /\ WF_vars(MainStep)

(***************************************************************************)
(* Properties                                                              *)
(***************************************************************************)
TypeOK ==
    /\ pc \in {"start", "config", "enter", "reloaded", "loop", "read", "hook", "wait_src",
               "wait_out", "exit", "restore", "unload", "close", "free", "reset", "done",
               "exited", "crashed"}
    /\ hooks \in {"unset", "set", "registered", "freed"}
    /\ orig \in Modes \cup {"unset"} /\ tty \in Modes
    /\ child \in [Children -> {"none", "forked", "program", "zombie"}]
    /\ isRunning \in BOOLEAN /\ reload \in BOOLEAN /\ reloading \in BOOLEAN
    /\ lua \in BOOLEAN /\ handles \in BOOLEAN
    /\ raw \in BOOLEAN /\ got \in BOOLEAN /\ alt \in BOOLEAN /\ cleanup \in BOOLEAN
    /\ inherited \in BOOLEAN /\ piped \in BOOLEAN
    /\ exitAsked \in BOOLEAN /\ reloadAsked \in BOOLEAN

\* However the shell ends, short of a crash - exit, a failing config file on a
\* reload, a signal while it waits for a pipeline - the terminal is back in the mode
\* it was found in.
TerminalRestored == pc \in {"done", "exited"} => tty = "cooked"

\* The mode kept for restoring is the one the shell was started in, although each
\* reload forgets it and takes it again from the terminal.
OriginalIsCooked == got => orig = "cooked"

\* Every way back to the prompt - commands that ran, failed to start, or were piped,
\* and reloads - leaves the flag raw.
PromptFlagIsRaw == pc = "read" => raw

\* The flag and the terminal part ways in one case alone: a member of a pipeline that
\* cannot be executed.  Neither a signal, nor a reload, nor the children of a single
\* command make them.
FlagTellsMode ==
    [][(raw <=> tty = "raw") =>
          \/ raw' <=> tty' = "raw"
          \/ piped /\ \E c \in Children : child[c] = "forked" /\ child'[c] = "zombie"]_vars

\* README: raw mode is enabled during interactive use.  Keys are read in raw mode.
PromptIsRaw == pc = "read" => raw /\ tty = "raw"

\* No child outlives the line that started it, nor stays a zombie, at the prompt.
ChildrenReaped == pc = "read" => \A c \in Children : child[c] = "none"

\* SIGWINCH is harmless while the shell starts, reads a key, waits or restores the
\* terminal: the process is killed only in the middle of Lua, by a signal or a program's
\* own doing, and between lua_close and the reset of the state.
SignalSafeOutsideLua ==
    [][pc # "crashed" /\ pc' = "crashed" => LuaBusy \/ pc \in {"free", "reset"}]_vars

\* The main loop ends only if a hook asked for it since the last start, never because of a
\* reload.
EndsOnlyWhenAsked == pc = "done" => exitAsked

\* An exit asked by a key hook ends the shell, a reload asked with it notwithstanding.
ExitHonoured == (pc = "loop" /\ ~isRunning) ~> Ended

\* README: reload behavior exists through lyra.state.reload.  A reload that a hook
\* asks for, at any time, happens, unless the shell ends - but for one that an enter hook
\* asks for in the middle of a reload, which the main loop clears with the one it has done.
ReloadHonoured == reload ~> (~reloadAsked \/ Ended \/ pc = "reloaded")
=============================================================================
