------------------------ MODULE ShellHandles_proofs -------------------------
(***************************************************************************)
(* Theorems about Shell, whatever the hooks ask for and whichever programs *)
(* can be executed; about the handles of Lua programs; and that the shell  *)
(* keeps its promises around them: a step of the two together is a step of *)
(* the shell or none, and a step of the programs or none.                  *)
(***************************************************************************)
EXTENDS ShellHandles, TLAPS

(***************************************************************************)
(* The inductive invariant                                                 *)
(***************************************************************************)
\* The raw flag is raised only over a saved mode, and the mode saved is the cooked
\* one because the flag is down, and the terminal cooked, whenever it is saved.
TermInv ==
    /\ raw => got /\ cleanup
    /\ got => orig = "cooked"
    /\ ~raw => tty = "cooked"
    /\ pc \in {"start", "config", "restore", "unload", "close", "free", "reset",
               "done", "exited"} => ~raw

\* Children exist while they are waited for, or outlive a shell that ended there; one
\* that may still restore the terminal has a copy of the saved mode.
ChildInv ==
    /\ \A c \in Children :
          /\ child[c] # "none" => pc \in {"wait_src", "wait_out", "exited", "crashed"}
          /\ child[c] = "forked" /\ inherited => got
    /\ pc = "wait_out" => child["src"] = "none"

\* Lua is open and the hooks are whole, but for the last steps of end_shell_state.
HooksInv ==
    /\ hooks = "freed" => pc \in {"reset", "crashed"}
    /\ ~lua => pc \in {"start", "free", "reset", "done", "crashed"}
    /\ pc = "reset" => hooks = "freed"
    /\ pc \in {"start", "done"} => hooks = "unset"

\* The flag is down only in a shell that was asked to exit, or before it starts.
AskedInv ==
    /\ ~isRunning => exitAsked \/ pc \in {"start", "done", "crashed"}
    /\ pc \in {"exit", "restore", "unload", "close", "free", "reset"} /\ ~reloading => exitAsked
    /\ pc = "done" => exitAsked

\* From the enter hooks to the exit hooks the flag is raised, but while a single command
\* has the terminal; only the children of a pipeline inherit it.
PromptInv ==
    /\ pc \in {"reloaded", "loop", "read", "hook", "exit"} => raw
    /\ pc \in {"wait_src", "wait_out"} /\ piped => raw
    /\ pc = "wait_src" => piped
    /\ inherited => piped

IInv == TypeOK /\ TermInv /\ ChildInv /\ HooksInv /\ AskedInv /\ PromptInv

(***************************************************************************)
(* What the operators that several steps share do to the terminal          *)
(***************************************************************************)
\* set_raw_mode raises the flag, and has the cooked mode saved.
LEMMA SetRawLemma ==
    ASSUME TypeOK, TermInv, SetRaw
    PROVE  /\ raw' /\ got' /\ cleanup' /\ orig' = "cooked" /\ tty' \in Modes
           /\ raw' \in BOOLEAN /\ got' \in BOOLEAN /\ cleanup' \in BOOLEAN
  BY DEF TypeOK, TermInv, SetRaw, term, Modes

\* unset_raw_mode lowers the flag, and leaves the terminal cooked.
LEMMA UnsetRawLemma ==
    ASSUME TypeOK, TermInv, UnsetRaw
    PROVE  /\ ~raw' /\ tty' = "cooked" /\ orig' = orig
           /\ raw' \in BOOLEAN
           /\ got' = got /\ cleanup' = cleanup
<1>1. raw' = FALSE /\ got' = got /\ orig' = orig /\ cleanup' = cleanup /\ tty' = Restored
  BY DEF UnsetRaw
<1>2. Restored = "cooked"
  BY DEF Restored, TypeOK, TermInv, Modes
<1> QED BY <1>1, <1>2

\* exit(-1) does what unset_raw_mode does: the flag is up only once it is registered.
LEMMA ExitsLemma ==
    ASSUME TypeOK, TermInv, Exits
    PROVE  /\ pc' = "exited" /\ ~raw' /\ tty' = "cooked" /\ orig' = orig
           /\ raw' \in BOOLEAN
           /\ got' = got /\ cleanup' = cleanup
<1>1. CASE cleanup
  BY <1>1, UnsetRawLemma DEF Exits
<1>2. CASE ~cleanup
  BY <1>2 DEF Exits, TypeOK, TermInv, term, Modes
<1> QED BY <1>1, <1>2

\* A hook lowers is_running only by asking to exit.
LEMMA AskLemma ==
    ASSUME TypeOK, NEW may, Ask(may)
    PROVE  /\ isRunning' \in BOOLEAN /\ reload' \in BOOLEAN
           /\ exitAsked' \in BOOLEAN /\ reloadAsked' \in BOOLEAN
           /\ ~isRunning' => ~isRunning \/ exitAsked'
           /\ exitAsked => exitAsked'
  BY Zenon DEF TypeOK, Ask

(***************************************************************************)
(* The invariant holds, and every step keeps it                            *)
(***************************************************************************)
\* The shell starts with a cooked terminal, no child and no hook.
LEMMA InitIInv == Init => IInv
  BY DEF Init, IInv, TypeOK, TermInv, ChildInv, HooksInv, AskedInv, PromptInv, Modes

\* One step per action of the shell, of its children and of the window.
LEMMA NextIInv == IInv /\ [Next]_vars => IInv'
<1> SUFFICES ASSUME IInv, [Next]_vars PROVE IInv'
  OBVIOUS
<1> USE DEF IInv, TypeOK, TermInv, ChildInv, HooksInv, AskedInv, PromptInv, Modes, Children,
            term, flags, run, env
<1>1. CASE Start
  BY <1>1 DEF Start
<1>2. CASE RunConfig
  <2>1. CASE Exits /\ UNCHANGED env
    <3>1. /\ pc' = "exited" /\ ~raw' /\ tty' = "cooked" /\ orig' = orig
          /\ raw' \in BOOLEAN /\ got' = got /\ cleanup' = cleanup
      BY <2>1, ExitsLemma
    <3> QED BY <1>2, <2>1, <3>1 DEF RunConfig
  <2>2. CASE pc' = "enter" /\ hooks' = "registered" /\ UNCHANGED <<term, lua, handles>>
    <3>1. pc = "config" /\ UNCHANGED <<flags, run, reloading, alt>>
      BY <1>2 DEF RunConfig
    <3>2. lua
      BY <3>1
    <3>3. TypeOK' /\ TermInv' /\ ChildInv' /\ PromptInv'
      BY <2>2, <3>1
    <3>4. HooksInv'
      BY <2>2, <3>2
    <3>5. AskedInv'
      BY <2>2, <3>1
    <3> QED BY <3>3, <3>4, <3>5
  <2> QED BY <1>2, <2>1, <2>2 DEF RunConfig
<1>3. CASE EnterHooks
  <2>1. /\ raw' /\ got' /\ cleanup' /\ orig' = "cooked" /\ tty' \in Modes
        /\ raw' \in BOOLEAN /\ got' \in BOOLEAN /\ cleanup' \in BOOLEAN
    BY <1>3, SetRawLemma DEF EnterHooks
  <2>2. /\ isRunning' \in BOOLEAN /\ reload' \in BOOLEAN
        /\ exitAsked' \in BOOLEAN /\ reloadAsked' \in BOOLEAN
        /\ ~isRunning' => ~isRunning \/ exitAsked'
        /\ exitAsked => exitAsked'
    BY <1>3, AskLemma DEF EnterHooks
  <2> QED BY <1>3, <2>1, <2>2 DEF EnterHooks
<1>4. CASE Reloaded
  <2>1. reload' \in BOOLEAN /\ reloading' \in BOOLEAN
    BY <1>4, Zenon DEF Reloaded
  <2> QED BY <1>4, <2>1 DEF Reloaded
<1>5. CASE Loop
  BY <1>5 DEF Loop
<1>6. CASE ReadKey
  BY <1>6 DEF ReadKey
<1>7. CASE HookReturns
  <2>1. /\ isRunning' \in BOOLEAN /\ reload' \in BOOLEAN
        /\ exitAsked' \in BOOLEAN /\ reloadAsked' \in BOOLEAN
        /\ ~isRunning' => ~isRunning \/ exitAsked'
        /\ exitAsked => exitAsked'
    BY <1>7, AskLemma DEF HookReturns
  <2> QED BY <1>7, <2>1 DEF HookReturns
<1>8. CASE ExitHooks
  <2>1. /\ ~raw' /\ tty' = "cooked" /\ orig' = orig
        /\ raw' \in BOOLEAN /\ got' = got /\ cleanup' = cleanup
    BY <1>8, UnsetRawLemma DEF ExitHooks
  <2>2. /\ isRunning' \in BOOLEAN /\ reload' \in BOOLEAN
        /\ exitAsked' \in BOOLEAN /\ reloadAsked' \in BOOLEAN
        /\ ~isRunning' => ~isRunning \/ exitAsked'
        /\ exitAsked => exitAsked'
    BY <1>8, AskLemma DEF ExitHooks
  <2> QED BY <1>8, <2>1, <2>2 DEF ExitHooks
<1>9. CASE WaitSrc
  BY <1>9 DEF WaitSrc
<1>10. CASE WaitOut
  <2>1. CASE piped
    BY <1>10, <2>1 DEF WaitOut
  <2>2. CASE ~piped
    <3>1. /\ raw' /\ got' /\ cleanup' /\ orig' = "cooked" /\ tty' \in Modes
          /\ raw' \in BOOLEAN /\ got' \in BOOLEAN /\ cleanup' \in BOOLEAN
      BY <1>10, <2>2, SetRawLemma DEF WaitOut
    <3> QED BY <1>10, <2>2, <3>1 DEF WaitOut
  <2> QED BY <2>1, <2>2
<1>11. CASE RestoreTerminal
  <2>1. /\ ~raw' /\ tty' = "cooked" /\ orig' = orig
        /\ raw' \in BOOLEAN /\ got' = got /\ cleanup' = cleanup
    BY <1>11, UnsetRawLemma DEF RestoreTerminal
  <2>2. alt' \in BOOLEAN
    BY <1>11, Zenon DEF RestoreTerminal
  <2> QED BY <1>11, <2>1, <2>2 DEF RestoreTerminal
<1>12. CASE UnloadPlugins
  BY <1>12 DEF UnloadPlugins
<1>13. CASE CloseLua
  <2>1. lua' \in BOOLEAN
    BY <1>13, Zenon DEF CloseLua
  <2> QED BY <1>13, <2>1 DEF CloseLua
<1>14. CASE FreeHooks
  BY <1>14 DEF FreeHooks
<1>15. CASE ResetState
  BY <1>15 DEF ResetState, Cleared
<1>16. CASE RunCommand
  <2>1. /\ ~raw' /\ tty' = "cooked" /\ orig' = orig
        /\ raw' \in BOOLEAN /\ got' = got /\ cleanup' = cleanup
    BY <1>16, UnsetRawLemma DEF RunCommand
  <2>2. inherited' \in BOOLEAN /\ piped' \in BOOLEAN
    BY <1>16, Zenon DEF RunCommand
  <2> QED BY <1>16, <2>1, <2>2 DEF RunCommand
<1>17. CASE RunPiped
  BY <1>17 DEF RunPiped
<1>18. CASE WinchInRead
  BY <1>18 DEF WinchInRead
<1>19. CASE WinchInWait
  <2>1. /\ pc' = "exited" /\ ~raw' /\ tty' = "cooked" /\ orig' = orig
        /\ raw' \in BOOLEAN /\ got' = got /\ cleanup' = cleanup
    BY <1>19, ExitsLemma DEF WinchInWait
  <2> QED BY <1>19, <2>1 DEF WinchInWait
<1>20. CASE WinchCrashes
  BY <1>20 DEF WinchCrashes, LuaBusy
<1>21. ASSUME NEW c \in Children, ChildExec(c) PROVE IInv'
  BY <1>21 DEF ChildExec
<1>22. ASSUME NEW c \in Children, ChildExecFails(c) PROVE IInv'
  BY <1>22 DEF ChildExecFails
<1>23. ASSUME NEW c \in Children, ChildExits(c) PROVE IInv'
  BY <1>23 DEF ChildExits
<1>24. CASE UNCHANGED vars
  BY <1>24 DEF vars
<1>25. CASE HookEnds
  <2>1. /\ pc' = "exited" /\ ~raw' /\ tty' = "cooked" /\ orig' = orig
        /\ raw' \in BOOLEAN /\ got' = got /\ cleanup' = cleanup
    BY <1>25, ExitsLemma DEF HookEnds
  <2> QED BY <1>25, <2>1 DEF HookEnds
<1>26. CASE HookCrashes
  BY <1>26 DEF HookCrashes
<1> QED
  BY <1>1, <1>2, <1>3, <1>4, <1>5, <1>6, <1>7, <1>8, <1>9, <1>10, <1>11, <1>12,
     <1>13, <1>14, <1>15, <1>16, <1>17, <1>18, <1>19, <1>20, <1>21, <1>22, <1>23, <1>24,
     <1>25, <1>26
  DEF Next, MainStep, Line, ChildStep, Winch, Misuse

\* The invariant holds in every state of the shell.
LEMMA SpecIInv == Safety => []IInv
  BY InitIInv, NextIInv, PTL DEF Safety

(***************************************************************************)
(* Theorems                                                                *)
(***************************************************************************)
\* Every variable keeps to its values.
THEOREM TypeCorrect == Spec => []TypeOK
  BY SpecIInv, PTL DEF IInv, Spec

\* Whichever way the shell ends, a crash excepted, the terminal is cooked again.
THEOREM TerminalAlwaysRestored == Spec => []TerminalRestored
<1>1. IInv => TerminalRestored
  BY DEF IInv, TermInv, TerminalRestored
<1> QED BY <1>1, SpecIInv, PTL DEF Spec

\* The mode saved for restoring is never the raw one, over any number of reloads.
THEOREM OriginalNeverRaw == Spec => []OriginalIsCooked
<1>1. IInv => OriginalIsCooked
  BY DEF IInv, TermInv, OriginalIsCooked
<1> QED BY <1>1, SpecIInv, PTL DEF Spec

\* At the prompt no child is running or left as a zombie.
THEOREM ChildrenAlwaysReaped == Spec => []ChildrenReaped
<1>1. IInv => ChildrenReaped
  BY DEF IInv, TypeOK, ChildInv, ChildrenReaped
<1> QED BY <1>1, SpecIInv, PTL DEF Spec

\* The shell ends in order only if a hook asked it to.
THEOREM NeverEndsUnasked == Spec => []EndsOnlyWhenAsked
<1>1. IInv => EndsOnlyWhenAsked
  BY DEF IInv, AskedInv, EndsOnlyWhenAsked
<1> QED BY <1>1, SpecIInv, PTL DEF Spec

\* At the prompt the raw flag is raised, whatever ran, failed or was reloaded before.
THEOREM PromptFlagAlwaysRaw == Spec => []PromptFlagIsRaw
<1>1. IInv => PromptFlagIsRaw
  BY DEF IInv, PromptInv, PromptFlagIsRaw
<1> QED BY <1>1, SpecIInv, PTL DEF Spec

\* The flag and the terminal's mode part ways only when a member of a pipeline fails to
\* execute: a single command's children inherit the flag lowered.
THEOREM FlagAlwaysTellsMode == Spec => FlagTellsMode
<1>1. ASSUME IInv, [Next]_vars, raw <=> tty = "raw"
      PROVE  \/ raw' <=> tty' = "raw"
             \/ piped /\ \E c \in Children : child[c] = "forked" /\ child'[c] = "zombie"
  <2> DEFINE Tells == raw <=> tty = "raw"
             Failed == piped /\ \E c \in Children : child[c] = "forked" /\ child'[c] = "zombie"
  <2> SUFFICES Tells' \/ Failed
    OBVIOUS
  <2> USE <1>1
  <2>1. TypeOK /\ TermInv /\ PromptInv
    BY DEF IInv
  <2>2. SetRaw => Tells'
    BY DEF SetRaw, term
  <2>3. UnsetRaw => Tells'
    BY <2>1, UnsetRawLemma
  <2>4. Exits => Tells'
    BY <2>1, ExitsLemma
  <2>5. UNCHANGED term => Tells'
    BY DEF term
  <2>6. CASE MainStep
    <3>1. CASE ResetState
      BY <2>1, <3>1 DEF ResetState, TermInv
    <3>2. CASE ~ResetState
      <4>1. SetRaw \/ UnsetRaw \/ Exits \/ UNCHANGED term
        BY <2>6, <3>2 DEF MainStep, Start, RunConfig, EnterHooks, Reloaded, Loop, ReadKey,
           HookReturns, ExitHooks, WaitSrc, WaitOut, RestoreTerminal, UnloadPlugins,
           CloseLua, FreeHooks
      <4> QED BY <4>1, <2>2, <2>3, <2>4, <2>5
    <3> QED BY <3>1, <3>2
  <2>7. CASE Line
    BY <2>7, <2>3, <2>5 DEF Line, RunCommand, RunPiped
  <2>8. ASSUME NEW c \in Children, ChildExecFails(c) PROVE Tells' \/ Failed
    <3>1. CASE piped
      BY <2>1, <2>8, <3>1 DEF ChildExecFails, TypeOK
    <3>2. CASE ~piped
      BY <2>1, <2>8, <3>2 DEF ChildExecFails, PromptInv
    <3> QED BY <3>1, <3>2
  <2>9. ASSUME NEW c \in Children, ChildExec(c) \/ ChildExits(c) PROVE Tells'
    BY <2>9, <2>5 DEF ChildExec, ChildExits
  <2>10. CASE Winch
    BY <2>10, <2>4, <2>5 DEF Winch, WinchInRead, WinchInWait, WinchCrashes
  <2>11. CASE UNCHANGED vars
    BY <2>11 DEF vars
  <2>12. CASE Misuse
    BY <2>12, <2>4, <2>5 DEF Misuse, HookEnds, HookCrashes
  <2> QED BY <2>6, <2>7, <2>8, <2>9, <2>10, <2>11, <2>12 DEF Next, ChildStep
<1> QED BY <1>1, SpecIInv, PTL DEF Spec, Safety, FlagTellsMode

\* A window change crashes the shell only in the middle of Lua, and between lua_close
\* and the reset of the state.
THEOREM SignalAlwaysSafe == Spec => SignalSafeOutsideLua
<1>1. ASSUME IInv, [Next]_vars, pc # "crashed", pc' = "crashed"
      PROVE  LuaBusy \/ pc \in {"free", "reset"}
  <2>1. WinchCrashes \/ HookCrashes
    <3> USE <1>1
    <3>1. ~MainStep
      BY DEF MainStep, Start, RunConfig, Exits, EnterHooks, Reloaded, Loop, ReadKey,
             HookReturns, ExitHooks, WaitSrc, WaitOut, RestoreTerminal, UnloadPlugins,
             CloseLua, FreeHooks, ResetState
    <3>2. ~Line /\ ~ChildStep
      BY DEF Line, RunCommand, RunPiped, ChildStep, ChildExec, ChildExecFails, ChildExits
    <3>3. ~WinchInRead /\ ~WinchInWait /\ ~HookEnds /\ ~UNCHANGED vars
      BY DEF WinchInRead, WinchInWait, HookEnds, Exits, vars
    <3> QED BY <3>1, <3>2, <3>3 DEF Next, Winch, Misuse
  <2>2. CASE hooks = "freed"
    BY <1>1, <2>2 DEF IInv, HooksInv
  <2>3. CASE hooks = "registered" /\ (~lua \/ LuaBusy)
    BY <1>1, <2>3 DEF IInv, HooksInv
  <2>4. CASE HookCrashes
    BY <2>4 DEF HookCrashes, LuaBusy
  <2> QED BY <2>1, <2>2, <2>3, <2>4 DEF WinchCrashes
<1> QED BY <1>1, SpecIInv, PTL DEF Spec, Safety, SignalSafeOutsideLua

-----------------------------------------------------------------------------
(***************************************************************************)
(* The inductive invariant of the handles                                  *)
(***************************************************************************)
\* What the kernel has under a number knows the handle that keeps the number, and
\* Lua still has that handle.
KnownInv ==
    /\ \A n \in Fds : table[n] \in Handle => at[table[n]] = n /\ table[n][1] \in live
    /\ \A h \in Handle : at[h] \in Fds => h[1] \in live
    /\ closed \subseteq live

HInv == HTypeOK /\ KnownInv /\ HandlesOwn

\* The members of a handle, and what is no handle.
LEMMA HandleFacts ==
    /\ \A h \in Handle : h = <<h[1], h[2]>>
    /\ \A p \in Pipes : PipeOf(p) \subseteq Ends
    /\ \A p \in Pipes, h \in Ends : h \in PipeOf(p) <=> h[1] = p
    /\ \A f \in Files : <<f, "file">> \in Opened
    /\ \A h \in Opened : h[1] \in Files /\ h = <<h[1], "file">>
    /\ \A h \in Ends : h[1] \in Pipes /\ h[1] \notin Files
    /\ Free \notin Handle /\ Leaked \notin Handle /\ Free # Leaked
    /\ NoFd \notin Fds
  BY HandlesAssumption DEF Handle, Ends, Opened, PipeOf, Free, Leaked, NoFd

\* Closing handles takes away what they refer to, and touches no other number.
LEMMA ShutFacts ==
    ASSUME HTypeOK, NEW hs \in SUBSET Handle
    PROVE  /\ Shut(hs) \in [Fds -> Handle \cup {Free, Leaked}]
           /\ \A n \in Fds : Shut(hs)[n] = Free \/ Shut(hs)[n] = table[n]
           /\ \A n \in Fds, h \in hs : at[h] = n => Shut(hs)[n] = Free
           /\ \A n \in Fds : (\A h \in hs : at[h] # n) => Shut(hs)[n] = table[n]
  BY DEF HTypeOK, Shut

LEMMA HInitInv == HInit => HInv
<1> SUFFICES ASSUME HInit PROVE HInv
  OBVIOUS
<1>1. HTypeOK
  BY DEF HInit, HTypeOK
<1>2. \A n \in Fds : table[n] = Free
  BY DEF HInit
<1>3. \A h \in Handle : at[h] = NoFd
  BY DEF HInit
<1>4. KnownInv
  BY <1>2, <1>3, HandleFacts DEF HInit, KnownInv
<1>5. HandlesOwn
  BY <1>3, HandleFacts DEF HandlesOwn
<1> QED BY <1>1, <1>4, <1>5 DEF HInv

(***************************************************************************)
(* One lemma per call that changes the table                               *)
(***************************************************************************)
LEMMA PipeNewInv == ASSUME HInv, NEW p \in Pipes, PipeNew(p) PROVE HInv'
<1> USE DEF HInv, PipeNew
<1> DEFINE er == <<p, "r">>
           ew == <<p, "w">>
<1>1. er \in Ends /\ ew \in Ends /\ er # ew /\ er \in Handle /\ ew \in Handle
  BY DEF Ends, Handle
<1>2. at[er] \notin Fds /\ at[ew] \notin Fds
  BY <1>1 DEF KnownInv
<1>3. PICK r \in Fds, w \in Fds :
        /\ Lowest(r, {}) /\ Lowest(w, {r})
        /\ table' = [table EXCEPT ![r] = er, ![w] = ew]
        /\ at' = [at EXCEPT ![er] = r, ![ew] = w]
  OBVIOUS
<1>4. r # w /\ table[r] = Free /\ table[w] = Free
  BY <1>3 DEF Lowest
<1>5. HTypeOK'
  BY <1>1, <1>3 DEF HTypeOK
<1>6. \A n \in Fds : table'[n] = IF n = w THEN ew ELSE IF n = r THEN er ELSE table[n]
  BY <1>3, <1>4 DEF HTypeOK
<1>7. \A h \in Handle : at'[h] = IF h = ew THEN w ELSE IF h = er THEN r ELSE at[h]
  BY <1>1, <1>3 DEF HTypeOK
<1>8. \A n \in Fds : table[n] \in Handle => table[n] # er /\ table[n] # ew
  BY <1>2 DEF KnownInv
<1>9. KnownInv'
  <2>1. ASSUME NEW n \in Fds, table'[n] \in Handle
        PROVE  at'[table'[n]] = n /\ table'[n][1] \in live'
    <3>0. p \in live' /\ er[1] = p /\ ew[1] = p
      OBVIOUS
    <3>1. CASE n = r
      <4>1. table'[n] = er /\ at'[er] = r
        BY <1>1, <1>4, <1>6, <1>7, <3>1
      <4> QED BY <3>0, <3>1, <4>1
    <3>3. CASE n = w
      <4>1. table'[n] = ew /\ at'[ew] = w
        BY <1>1, <1>4, <1>6, <1>7, <3>3
      <4> QED BY <3>0, <3>3, <4>1
    <3>2. CASE n # r /\ n # w
      BY <1>6, <1>7, <1>8, <2>1, <3>2 DEF KnownInv
    <3> QED BY <3>1, <3>2, <3>3
  <2>2. \A h \in Handle : at'[h] \in Fds => h[1] \in live'
    BY <1>7 DEF KnownInv
  <2>3. closed' \subseteq live'
    BY DEF KnownInv
  <2> QED BY <2>1, <2>2, <2>3 DEF KnownInv
<1>10. HandlesOwn'
  <2> SUFFICES ASSUME ~twice, NEW h \in Handle, at'[h] \in Fds, h[1] \notin closed
               PROVE  table'[at'[h]] = h
    BY DEF HandlesOwn
  <2>1. CASE h = er \/ h = ew
    BY <1>1, <1>4, <1>6, <1>7, <2>1
  <2>2. CASE h # er /\ h # ew
    <3>1. at'[h] = at[h] /\ table[at[h]] = h
      BY <1>7, <2>2 DEF HandlesOwn
    <3>2. at[h] # r /\ at[h] # w
      BY <1>4, <3>1, HandleFacts
    <3> QED BY <1>6, <3>1, <3>2
  <2> QED BY <2>1, <2>2
<1> QED BY <1>5, <1>9, <1>10

LEMMA PipeCloseInv == ASSUME HInv, NEW p \in Pipes, PipeClose(p) PROVE HInv'
<1> USE DEF HInv, PipeClose, ClosePipe
<1> DEFINE S == PipeOf(p)
<1>1. S \subseteq Handle /\ \A h \in Handle : h \in S <=> h[1] = p
  BY HandleFacts, HandlesAssumption DEF Handle
<1>2. table' = Shut(S) /\ at' = Forget(S)
  OBVIOUS
<1>3. \A h \in Handle : at'[h] = IF h \in S THEN NoFd ELSE at[h]
  BY <1>2 DEF Forget
<1>4. HTypeOK'
  BY <1>1, <1>2, ShutFacts DEF HTypeOK, Forget
<1>5. KnownInv'
  <2>1. ASSUME NEW n \in Fds, table'[n] \in Handle
        PROVE  at'[table'[n]] = n /\ table'[n][1] \in live'
    <3>1. table'[n] = table[n] /\ table[n] \notin S
      BY <1>1, <1>2, <2>1, ShutFacts, HandleFacts DEF KnownInv
    <3> QED BY <1>3, <2>1, <3>1 DEF KnownInv
  <2>2. \A h \in Handle : at'[h] \in Fds => h[1] \in live'
    BY <1>3, HandleFacts DEF KnownInv
  <2> QED BY <2>1, <2>2 DEF KnownInv
<1>6. HandlesOwn'
  <2> SUFFICES ASSUME ~twice, NEW h \in Handle, at'[h] \in Fds, h[1] \notin closed
               PROVE  table'[at'[h]] = h
    BY DEF HandlesOwn
  <2>1. h \notin S /\ at'[h] = at[h] /\ table[at[h]] = h
    BY <1>3, HandleFacts DEF HandlesOwn
  <2>2. \A g \in S : at[g] # at[h]
    <3> SUFFICES ASSUME NEW g \in S, at[g] = at[h] PROVE FALSE
      OBVIOUS
    <3>1. g[1] \notin closed
      BY <1>1, HandlesAssumption DEF HTypeOK
    <3> QED BY <1>1, <2>1, <3>1 DEF HandlesOwn
  <2> QED BY <1>1, <1>2, <2>1, <2>2, ShutFacts
<1> QED BY <1>4, <1>5, <1>6

LEMMA FileOpenInv == ASSUME HInv, NEW f \in Files, FileOpen(f) PROVE HInv'
<1> USE DEF HInv, FileOpen
<1> DEFINE e == <<f, "file">>
<1>1. e \in Handle /\ at[e] \notin Fds
  BY DEF Handle, Opened, KnownInv
<1>2. CASE at' = Forget({e}) /\ UNCHANGED table
  <2>1. \A h \in Handle : at'[h] = IF h = e THEN NoFd ELSE at[h]
    BY <1>2 DEF Forget
  <2>2. HTypeOK'
    BY <1>2 DEF HTypeOK, Forget
  <2>3. KnownInv'
    <3>1. \A n \in Fds : table[n] \in Handle => table[n] # e
      BY <1>1 DEF KnownInv
    <3>2. \A n \in Fds : table[n] \in Handle => at'[table[n]] = n /\ table[n][1] \in live'
      BY <2>1, <3>1 DEF KnownInv
    <3>3. \A h \in Handle : at'[h] \in Fds => h[1] \in live'
      BY <2>1, HandleFacts DEF KnownInv
    <3>4. closed' \subseteq live'
      BY DEF KnownInv
    <3> QED BY <1>2, <3>2, <3>3, <3>4 DEF KnownInv
  <2>4. HandlesOwn'
    BY <1>2, <2>1, HandleFacts DEF HandlesOwn
  <2> QED BY <2>2, <2>3, <2>4
<1>3. CASE \E n \in Fds : Lowest(n, {}) /\ table' = [table EXCEPT ![n] = e]
                          /\ at' = [at EXCEPT ![e] = n]
  <2>1. PICK n \in Fds : Lowest(n, {}) /\ table' = [table EXCEPT ![n] = e]
                         /\ at' = [at EXCEPT ![e] = n]
    BY <1>3
  <2>2. table[n] = Free
    BY <2>1 DEF Lowest
  <2>3. HTypeOK'
    BY <1>1, <2>1 DEF HTypeOK
  <2>4. \A m \in Fds : table'[m] = IF m = n THEN e ELSE table[m]
    BY <2>1 DEF HTypeOK
  <2>5. \A h \in Handle : at'[h] = IF h = e THEN n ELSE at[h]
    BY <1>1, <2>1 DEF HTypeOK
  <2>6. \A m \in Fds : table[m] \in Handle => table[m] # e
    BY <1>1 DEF KnownInv
  <2>7. KnownInv'
    BY <1>1, <2>4, <2>5, <2>6 DEF KnownInv
  <2>8. HandlesOwn'
    BY <1>1, <2>2, <2>4, <2>5, HandleFacts DEF HandlesOwn
  <2> QED BY <2>3, <2>7, <2>8
<1> QED BY <1>2, <1>3

LEMMA FileCloseInv == ASSUME HInv, NEW f \in Files, FileClose(f) PROVE HInv'
<1> USE DEF HInv, FileClose
<1> DEFINE e == <<f, "file">>
<1>1. e \in Handle /\ {e} \in SUBSET Handle
  BY DEF Handle, Opened
<1>2. HTypeOK'
  <2>1. twice' \in BOOLEAN
    BY Zenon DEF HTypeOK
  <2> QED BY <1>1, <2>1, ShutFacts DEF HTypeOK
<1>3. KnownInv'
  BY <1>1, ShutFacts, HandleFacts DEF KnownInv
<1>4. HandlesOwn'
  <2> SUFFICES ASSUME ~twice', NEW h \in Handle, at[h] \in Fds, h[1] \notin closed'
               PROVE  table'[at[h]] = h
    BY DEF HandlesOwn
  <2>1. ~twice /\ f \notin closed /\ h[1] \notin closed /\ h[1] # f
    BY Zenon
  <2>2. table[at[h]] = h
    BY <2>1 DEF HandlesOwn
  <2>3. at[e] # at[h]
    BY <1>1, <2>1, <2>2 DEF HandlesOwn
  <2> QED BY <1>1, <2>2, <2>3, ShutFacts
<1> QED BY <1>2, <1>3, <1>4

LEMMA CollectInv == ASSUME HInv, NEW gone \in SUBSET live, CollectAll(gone) PROVE HInv'
<1> USE DEF HInv, CollectAll
<1> DEFINE S == {h \in Handle : h[1] \in gone}
<1>1. \A h \in Handle : at'[h] = IF h[1] \in gone THEN NoFd ELSE at[h]
  BY DEF Forget
<1>2. \A n \in Fds : table'[n] = IF \E h \in Ends : h[1] \in gone /\ at[h] = n THEN Free
                                ELSE IF table[n] \in Opened /\ table[n][1] \in gone THEN Leaked
                                ELSE table[n]
  BY DEF Collected
<1>3. HTypeOK'
  <2>1. table' \in [Fds -> Handle \cup {Free, Leaked}]
    BY <1>2 DEF HTypeOK, Collected
  <2>2. at' \in [Handle -> Fds \cup {NoFd}]
    BY DEF HTypeOK, Forget
  <2> QED BY <2>1, <2>2 DEF HTypeOK
<1>4. KnownInv'
  <2>1. ASSUME NEW n \in Fds, table'[n] \in Handle
        PROVE  at'[table'[n]] = n /\ table'[n][1] \in live'
    <3>1. table'[n] = table[n] /\ ~(\E h \in Ends : h[1] \in gone /\ at[h] = n)
          /\ ~(table[n] \in Opened /\ table[n][1] \in gone)
      BY <1>2, <2>1, HandleFacts
    <3>2. at[table[n]] = n /\ table[n][1] \in live
      BY <2>1, <3>1 DEF KnownInv
    <3>3. table[n][1] \notin gone
      BY <2>1, <3>1, <3>2 DEF Handle
    <3> QED BY <1>1, <2>1, <3>1, <3>2, <3>3
  <2>2. \A h \in Handle : at'[h] \in Fds => h[1] \in live'
    BY <1>1, HandleFacts DEF KnownInv
  <2>3. closed' \subseteq live'
    BY DEF KnownInv
  <2> QED BY <2>1, <2>2, <2>3 DEF KnownInv
<1>5. HandlesOwn'
  <2> SUFFICES ASSUME ~twice, NEW h \in Handle, at'[h] \in Fds, h[1] \notin closed'
               PROVE  table'[at'[h]] = h
    BY DEF HandlesOwn
  <2>1. h[1] \notin gone /\ at'[h] = at[h]
    BY <1>1, HandleFacts
  <2>2. table[at[h]] = h
    BY <2>1 DEF HandlesOwn
  <2>3. ASSUME NEW g \in Ends, g[1] \in gone, at[g] = at[h] PROVE FALSE
    <3>1. g \in Handle /\ g[1] \notin closed
      BY HandleFacts DEF Handle, HTypeOK
    <3>2. table[at[g]] = g
      BY <2>1, <2>3, <3>1 DEF HandlesOwn
    <3> QED BY <2>1, <2>2, <2>3, <3>2
  <2> QED BY <1>2, <2>1, <2>2, <2>3
<1> QED BY <1>3, <1>4, <1>5

\* Whatever a command is bound to, it gets ends of pipes.
LEMMA SpawnInv == ASSUME HInv, NEW c \in Cmds, NEW bs \in Binds, Spawn(c, bs) PROVE HInv'
<1> DEFINE ends == Ends \cap (Inherited(bs) \cup UNION {Stream(bs, s) : s \in Streams})
           read == Stream(bs, "in") \cap (Pipes \X {"r"})
<1>1. ends \in SUBSET Ends /\ read \in SUBSET Ends
  BY DEF Ends
<1>2. /\ proc' = [proc EXCEPT ![c] = "running"]
      /\ holds' = [holds EXCEPT ![c] = ends] /\ reads' = [reads EXCEPT ![c] = read]
      /\ strayed' \subseteq strayed \cup {c}
      /\ UNCHANGED <<live, table, at, busy, closed, twice>>
  BY DEF Spawn
<1> HIDE DEF ends, read
<1>3. HTypeOK'
  BY <1>1, <1>2 DEF HInv, HTypeOK
<1> QED BY <1>2, <1>3 DEF HInv, KnownInv, HandlesOwn

\* One step per call, and one for what changes neither table nor handles.
LEMMA HNextInv == HInv /\ [HNext]_hvars => HInv'
<1> SUFFICES ASSUME HInv, [HNext]_hvars PROVE HInv'
  OBVIOUS
<1>1. ASSUME NEW p \in Pipes, PipeNew(p) \/ PipeClose(p) PROVE HInv'
  BY <1>1, PipeNewInv, PipeCloseInv
<1>2. ASSUME NEW f \in Files, FileOpen(f) \/ FileClose(f) PROVE HInv'
  BY <1>2, FileOpenInv, FileCloseInv
<1>3. ASSUME NEW o \in live, Collect(o) PROVE HInv'
  BY <1>3, CollectInv DEF Collect
<1>4. CASE Close
  BY <1>4, CollectInv DEF Close
<1>5. ASSUME NEW p \in Pipes, PipeRead(p) \/ ReadReturns(p) PROVE HInv'
  BY <1>5 DEF PipeRead, ReadReturns, HInv, HTypeOK, KnownInv, HandlesOwn
<1>6. ASSUME NEW c \in Cmds, NEW bs \in Binds, Spawn(c, bs) PROVE HInv'
  BY <1>6, SpawnInv
<1>7. ASSUME NEW c \in Cmds, Wait(c) \/ WaitReturns(c) \/ CommandExits(c) PROVE HInv'
  BY <1>7 DEF Wait, WaitReturns, CommandExits, HInv, HTypeOK, KnownInv, HandlesOwn
<1>8. CASE WaitCut \/ UNCHANGED hvars
  BY <1>8 DEF WaitCut, hvars, HInv, HTypeOK, KnownInv, HandlesOwn
<1> QED
  BY <1>1, <1>2, <1>3, <1>4, <1>5, <1>6, <1>7, <1>8
  DEF HNext, LuaCall, PipeCall, FileCall, CommandCall, CallReturns, CommandEnds

LEMMA HSpecInv == HSpec => []HInv
  BY HInitInv, HNextInv, PTL DEF HSpec

(***************************************************************************)
(* Theorems about the handles                                              *)
(***************************************************************************)
\* Every variable of the handles keeps to its values.
THEOREM HandlesTypeCorrect == HSpec => []HTypeOK
  BY HSpecInv, PTL DEF HInv

\* Whatever programs do with pipes, no handle loses its descriptor to another before a
\* file is closed twice.
THEOREM HandlesAlwaysOwn == HSpec => []HandlesOwn
  BY HSpecInv, PTL DEF HInv

\* Only files that were dropped unclosed are left behind, even after a second close.
THEOREM NothingElseLeaks == HSpec => []OnlyFilesLeak
<1>1. HInv => OnlyFilesLeak
  BY DEF HInv, KnownInv, OnlyFilesLeak
<1> QED BY <1>1, HSpecInv, PTL

(***************************************************************************)
(* What the binds of a command leave it                                    *)
(***************************************************************************)
\* The number a bind takes a stream from refers to what the program named.
LEMMA TakesNamed ==
    ASSUME HInv, NEW bs \in Binds, ~Astray(bs), NEW i \in DOMAIN bs, NEW s \in Streams,
           Takes(bs, i, s)
    PROVE  table[at[Source(bs[i], s)]] = Source(bs[i], s)
<1>1. bs[i] \in Bind
  BY DEF Binds
<1>2. bs[i].to \in Pipes \cup Files /\ bs[i].to \notin closed /\ ~twice
  BY <1>1 DEF Bind, Astray
<1>3. Source(bs[i], s) \in Handle /\ Source(bs[i], s)[1] = bs[i].to
  BY <1>2 DEF Source, Handle, Ends, Opened
<1>4. at[Source(bs[i], s)] \in Fds
  BY DEF Takes
<1> QED BY <1>2, <1>3, <1>4 DEF HInv, HandlesOwn

\* A bind closes the end of a pipe that no stream of it is taken from.
LEMMA ShedsOther ==
    ASSUME NEW b \in Bind, NEW p \in Pipes, b.to = p
    PROVE  /\ b.kind = {"in"} => at[<<p, "w">>] \in Sheds(b)
           /\ "in" \notin b.kind => at[<<p, "r">>] \in Sheds(b)
<1>1. <<p, "r">> \in Ends /\ <<p, "w">> \in Ends /\ p \notin Files
  BY HandlesAssumption DEF Ends
<1>2. \A s \in b.kind : Source(b, s) = IF s = "in" THEN <<p, "r">> ELSE <<p, "w">>
  BY <1>1 DEF Source
<1>3. <<p, "r">> # <<p, "w">>
  OBVIOUS
<1> QED BY <1>1, <1>2, <1>3 DEF Sheds

\* The bind that gives a command a pipe to read takes the writing end away, and no bind
\* before or after it has given or gives that end to a stream.
LEMMA SpawnReads ==
    ASSUME HInv, NEW c \in Cmds, NEW bs \in Binds, Spawn(c, bs), ~Astray(bs),
           NEW e \in reads'[c]
    PROVE  Other(e) \notin holds'[c]
<1>1. /\ e \in Stream(bs, "in") /\ e \in Pipes \X {"r"}
      /\ holds'[c] = Ends \cap (Inherited(bs) \cup UNION {Stream(bs, s) : s \in Streams})
  BY DEF Spawn, HInv, HTypeOK
<1>2. PICK i \in DOMAIN bs : Takes(bs, i, "in") /\ e = table[at[Source(bs[i], "in")]]
  BY <1>1 DEF Stream
<1>3. e = Source(bs[i], "in")
  BY <1>2, TakesNamed DEF Streams
<1>4. \A k \in DOMAIN bs : bs[k] \in Bind /\ k \in Nat
  BY DEF Binds
<1> DEFINE p == bs[i].to
           w == <<p, "w">>
<1>5. p \in Pipes /\ p \notin Files /\ e = <<p, "r">> /\ Other(e) = w
  BY <1>1, <1>3, <1>4, HandlesAssumption DEF Source, Bind, Other
<1>6. bs[i].kind = {"in"}
  BY <1>2, <1>5 DEF Takes, Astray
<1>7. at[w] \in Sheds(bs[i])
  BY <1>4, <1>5, <1>6, ShedsOther
<1>8. w \in Handle /\ at[<<p, "r">>] = at[Source(bs[i], "in")]
  BY <1>3, <1>5 DEF Handle, Ends
<1> HIDE DEF w
<1>9. w \notin Inherited(bs)
  <2> SUFFICES ASSUME w \in Inherited(bs) PROVE FALSE
    OBVIOUS
  <2>1. PICK n \in Fds : n \notin Sheds(bs[i]) /\ table[n] = w
    BY DEF Inherited
  <2>2. at[w] = n
    BY <1>8, <2>1 DEF HInv, KnownInv
  <2> QED BY <1>7, <2>1, <2>2
<1>10. ASSUME NEW s \in Streams, w \in Stream(bs, s) PROVE FALSE
  <2>1. PICK k \in DOMAIN bs : Takes(bs, k, s) /\ w = table[at[Source(bs[k], s)]]
    BY <1>10 DEF Stream
  <2>2. w = Source(bs[k], s)
    BY <2>1, TakesNamed
  <2>3. bs[k].to = p /\ s # "in"
    BY <1>5, <2>2 DEF Source, w
  <2>4. "in" \notin bs[k].kind
    BY <1>5, <2>1, <2>3 DEF Takes, Astray
  <2>5. at[<<p, "r">>] \in Sheds(bs[k])
    BY <1>4, <1>5, <2>3, <2>4, ShedsOther
  <2>6. CASE i < k
    <3>1. i \in 1 .. k - 1
      BY <1>4, <2>6 DEF Binds
    <3> QED BY <1>7, <2>1, <2>2, <3>1 DEF Takes
  <2>7. CASE k < i
    <3>1. k \in 1 .. i - 1
      BY <1>4, <2>7 DEF Binds
    <3> QED BY <1>2, <1>8, <2>5, <3>1 DEF Takes
  <2>8. i # k
    BY <1>6, <2>4
  <2> QED BY <1>4, <2>6, <2>7, <2>8
<1> QED BY <1>1, <1>5, <1>9, <1>10

LEMMA ReaderNext == HInv /\ ReaderCannotWrite /\ [HNext]_hvars => ReaderCannotWrite'
<1> SUFFICES ASSUME HInv, ReaderCannotWrite, [HNext]_hvars,
                    NEW c \in Cmds, c \notin strayed', NEW e \in reads'[c]
             PROVE  Other(e) \notin holds'[c]
  BY DEF ReaderCannotWrite
<1>1. ASSUME NEW d \in Cmds, NEW bs \in Binds, Spawn(d, bs) PROVE Other(e) \notin holds'[c]
  <2>1. CASE c = d
    <3>1. ~Astray(bs)
      BY <1>1, <2>1 DEF Spawn
    <3> QED BY <1>1, <2>1, <3>1, SpawnReads
  <2>2. CASE c # d
    <3>1. reads'[c] = reads[c] /\ holds'[c] = holds[c] /\ c \notin strayed
      BY <1>1, <2>2 DEF Spawn, HInv, HTypeOK
    <3> QED BY <3>1 DEF ReaderCannotWrite
  <2> QED BY <2>1, <2>2
<1>2. ASSUME NEW d \in Cmds, CommandExits(d) PROVE Other(e) \notin holds'[c]
  BY <1>2 DEF CommandExits, ReaderCannotWrite, HInv, HTypeOK
<1>3. CASE UNCHANGED <<holds, reads, strayed>>
  BY <1>3 DEF ReaderCannotWrite
<1>4. \/ UNCHANGED <<holds, reads, strayed>>
      \/ \E d \in Cmds : CommandExits(d) \/ \E bs \in Binds : Spawn(d, bs)
  BY DEF HNext, LuaCall, PipeCall, FileCall, CommandCall, CallReturns, CommandEnds, Collect, Close,
         CollectAll, PipeNew, PipeClose, PipeRead, ReadReturns, FileOpen, FileClose, Wait,
         WaitReturns, WaitCut, hvars
<1> QED BY <1>1, <1>2, <1>3, <1>4

\* A command that reads a pipe cannot write to it, in whatever order it was bound, to however
\* many pipes and files, and whichever numbers were reused.
THEOREM ReadersCannotWrite == HSpec => []ReaderCannotWrite
<1>1. HInit => ReaderCannotWrite
  BY DEF HInit, ReaderCannotWrite
<1> QED BY <1>1, ReaderNext, HSpecInv, PTL DEF HSpec

(***************************************************************************)
(* The ends of a pipe are opened and closed together                       *)
(***************************************************************************)
Paired == \A p \in Pipes : at[<<p, "r">>] \in Fds <=> at[<<p, "w">>] \in Fds

LEMMA EndFacts ==
    \A p \in Pipes :
        /\ <<p, "r">> \in Handle /\ <<p, "w">> \in Handle
        /\ <<p, "r">> \notin Opened /\ <<p, "w">> \notin Opened
        /\ p \notin Files
  BY HandlesAssumption DEF Handle, Ends, Opened

LEMMA PairedInit == HInit => Paired
<1> SUFFICES ASSUME HInit PROVE Paired
  OBVIOUS
<1>1. \A h \in Handle : at[h] = NoFd
  BY DEF HInit
<1> QED BY <1>1, EndFacts, HandleFacts DEF Paired

LEMMA PairedNext == HInv /\ Paired /\ [HNext]_hvars => Paired'
<1> SUFFICES ASSUME HInv, Paired, [HNext]_hvars PROVE Paired'
  OBVIOUS
<1> USE EndFacts, HandleFacts DEF HInv, HTypeOK
<1>1. ASSUME NEW p \in Pipes, PipeNew(p) PROVE Paired'
  <2>1. PICK r \in Fds, w \in Fds :
            at' = [at EXCEPT ![<<p, "r">>] = r, ![<<p, "w">>] = w]
    BY <1>1 DEF PipeNew
  <2>2. at'[<<p, "r">>] = r /\ at'[<<p, "w">>] = w
    BY <2>1
  <2>3. \A q \in Pipes \ {p} : at'[<<q, "r">>] = at[<<q, "r">>] /\ at'[<<q, "w">>] = at[<<q, "w">>]
    BY <2>1
  <2> QED BY <2>2, <2>3 DEF Paired
<1>2. ASSUME NEW p \in Pipes, PipeClose(p) PROVE Paired'
  BY <1>2 DEF PipeClose, ClosePipe, Forget, PipeOf, Paired
<1>3. ASSUME NEW f \in Files, FileOpen(f) \/ FileClose(f) PROVE Paired'
  <2>1. <<f, "file">> \in Opened
    BY DEF Opened
  <2>2. \A h \in Ends : at'[h] = at[h]
    <3>1. \A h \in Ends : h # <<f, "file">> /\ h \in Handle
      BY DEF Ends, Handle
    <3>2. CASE UNCHANGED at
      BY <3>2
    <3>3. CASE \E n \in Fds : at' = [at EXCEPT ![<<f, "file">>] = n]
      BY <3>1, <3>3
    <3>4. CASE at' = Forget({<<f, "file">>})
      BY <3>1, <3>4 DEF Forget
    <3> QED BY <1>3, <3>2, <3>3, <3>4 DEF FileOpen, FileClose
  <2> QED BY <2>2 DEF Paired, Ends
<1>4. ASSUME NEW gone, CollectAll(gone) PROVE Paired'
  BY <1>4 DEF CollectAll, Forget, Paired
<1>5. CASE UNCHANGED at
  BY <1>5 DEF Paired
<1> QED
  BY <1>1, <1>2, <1>3, <1>4, <1>5
  DEF HNext, LuaCall, PipeCall, FileCall, CommandCall, CallReturns, CommandEnds, Collect, Close,
      PipeRead, ReadReturns, Wait, WaitReturns, WaitCut, Spawn, CommandExits, hvars

\* Of a pipe that has a descriptor to read, the shell itself can write to the other end.
LEMMA ReaderWrites ==
    ASSUME HInv, Paired, ~twice, NEW p \in Pipes, AtEnd(at[<<p, "r">>])
    PROVE  FALSE
<1> DEFINE n == at[<<p, "r">>]
           m == at[<<p, "w">>]
<1>1. n \in Fds /\ m \in Fds
  BY DEF AtEnd, Paired
<1>2. table[n] = <<p, "r">> /\ table[m] = <<p, "w">>
  BY <1>1, EndFacts DEF HInv, HTypeOK, HandlesOwn
<1>3. "shell" \in Holders(<<p, "w">>)
  BY <1>1, <1>2 DEF Holders
<1>4. table[n] \notin Opened \cup {Leaked}
  BY <1>2, EndFacts, HandleFacts
<1>5. Other(table[n]) = <<p, "w">>
  BY <1>2 DEF Other
<1> QED BY <1>3, <1>4, <1>5 DEF AtEnd

LEMMA ReadStep ==
    HInv /\ Paired /\ [HNext]_hvars => [busy[1] = "read" => busy' = busy \/ twice]_hvars
<1> SUFFICES ASSUME HInv, Paired, HNext, busy[1] = "read", ~twice PROVE busy' = busy
  OBVIOUS
<1>1. busy # Idle /\ \A c \in Cmds : busy # <<"wait", c>>
  BY DEF Idle
<1>2. CASE CommandEnds
  BY <1>2 DEF CommandEnds, CommandExits
<1>3. CASE CallReturns
  BY <1>1, <1>3, ReaderWrites DEF CallReturns, ReadReturns, WaitReturns
<1>4. ~WaitCut
  BY DEF WaitCut
<1> QED BY <1>1, <1>2, <1>3, <1>4 DEF HNext, LuaCall, Close

\* A program that reads a pipe never comes back, and the shell with it, unless a file was
\* closed twice: however many pipes and commands there are, and whatever the commands do.
THEOREM ReadsNeverEnd == HSpec => ReadNeverEnds
<1>1. HSpec => []Paired
  BY PairedInit, PairedNext, HSpecInv, PTL DEF HSpec
<1> QED BY <1>1, ReadStep, HSpecInv, PTL DEF HSpec, ReadNeverEnds

(***************************************************************************)
(* Theorems about the shell with its programs                              *)
(***************************************************************************)
\* A step of the whole is a step of the shell, or leaves it alone.
LEMMA ShellStepLemma == [SHNext]_all => [Next]_vars
  BY DEF SHNext, all, ShellStep, LineStep, ChildOrWinch, Around, ProgramStep, CommandStep,
         FatalCall, UndefinedRun, Next, Misuse

\* A step of the whole is a step of the programs, or leaves their handles alone.
LEMMA HandlesStepLemma == [SHNext]_all => [HNext]_hvars
  BY DEF SHNext, all, ShellStep, LineStep, ChildOrWinch, Around, ProgramStep, CommandStep,
         FatalCall, UndefinedRun, HNext, Close

\* The shell with its programs is a shell: what is proved of Shell holds of it.
THEOREM ImplementsShell == SHSpec => Safety
  BY ShellStepLemma, PTL DEF SHSpec, SHInit, Safety

\* And its programs are those of Handles.
THEOREM ImplementsHandles == SHSpec => HSpec
  BY HandlesStepLemma, PTL DEF SHSpec, SHInit, HSpec

\* Whatever programs do to handles, and whichever of their calls ends the shell, the
\* terminal is restored.
THEOREM ProgramsLeaveTerminal == SHSpec => []TerminalRestored
<1>1. IInv => TerminalRestored
  BY DEF IInv, TermInv, TerminalRestored
<1> QED BY <1>1, ImplementsShell, SpecIInv, PTL
=============================================================================
