---------------------------- MODULE ShellHandles ----------------------------
(***************************************************************************)
(* The shell together with the handles of the Lua programs its key hook    *)
(* runs.  A program is inside the hook: while one of its calls blocks, the *)
(* shell stands still; what it leaves open stays open at the prompt; a     *)
(* pipeline needs two descriptors of the same table; a reload closes Lua,  *)
(* which collects every handle; and a failing call ends the shell.         *)
(***************************************************************************)
EXTENDS Shell, Handles

all == <<vars, hvars>>

SHInit == Init /\ HInit

\* The shell's own step, while no call of a program blocks.
Around(Step) ==
    /\ busy = Idle /\ Step
    /\ pc = "hook" /\ pc' = "wait_src" => RoomForPipe
    /\ IF lua /\ ~lua' THEN CollectAll(live) ELSE UNCHANGED hvars

ShellStep == Around(MainStep)

LineStep == Around(Line)

ChildOrWinch == Around(ChildStep \/ Winch)

ProgramStep == pc = "hook" /\ (LuaCall \/ CallReturns) /\ UNCHANGED vars

CommandStep == CommandEnds /\ UNCHANGED vars

\* A call ends the shell: a second wait, a pipe or a fork that fails, or a wait that
\* SIGWINCH cuts short.
FatalCall ==
    /\ HookEnds
    /\ IF busy = Idle THEN UNCHANGED hvars ELSE WaitCut

\* A command is run that was run before, or whose bind points to what was collected.
UndefinedRun == busy = Idle /\ HookCrashes /\ UNCHANGED hvars

SHNext ==
    \/ ShellStep \/ LineStep \/ ChildOrWinch
    \/ ProgramStep \/ CommandStep \/ FatalCall \/ UndefinedRun

\* The shell's thread is scheduled, a call that can return does, and a command that has
\* read its input ends.
SHSpec ==
    /\ SHInit /\ [][SHNext]_all
    /\ WF_all(ShellStep)
    /\ WF_all(pc = "hook" /\ CallReturns /\ UNCHANGED vars)
    /\ \A c \in Cmds : WF_all(CommandAtEnd(c) /\ UNCHANGED vars)
=============================================================================
