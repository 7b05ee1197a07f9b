------------------------------ MODULE Handles ------------------------------
(***************************************************************************)
(* The commands, pipes and files a Lua program of the shell may hold       *)
(* (plugins/runtime: process_api.c, process.c, io_api.c, io.c), used in    *)
(* any order, as often as it likes, and collected whenever Lua has no more *)
(* use for them.  Unlike lang.lua (module Pipeline), such a program may    *)
(* close twice, drop what it has not closed, wait while it keeps a pipe    *)
(* open, or read from a pipe.                                              *)
(*                                                                         *)
(* A handle is an end of a pipe or an open file.  `at` is the number a     *)
(* handle keeps, `table` what the kernel has under that number.            *)
(***************************************************************************)
EXTENDS Integers, FiniteSets

CONSTANTS
    Pipes, Files, Cmds,     \* what a program may hold at once
    Fds,                    \* the descriptors left to it
    MaxBinds                \* bound: binds of a command

ASSUME HandlesAssumption ==
    Fds \subseteq Nat /\ Pipes \cap Files = {} /\ MaxBinds \in Nat

VARIABLES
    live,       \* the objects Lua has and has not collected
    table,      \* what each descriptor of the shell refers to
    at,         \* struct Pipe.p and struct FileHandler.fd
    proc,       \* the child of each command
    holds,      \* the ends of pipes each child has
    reads,      \* those it reads from
    busy,       \* the program is inside Pipe:read or Command:wait
    closed,     \* history: files that were closed
    twice,      \* history: a file was closed a second time
    strayed     \* history: commands whose binds may have led elsewhere than to a pipe's end

hvars == <<live, table, at, proc, holds, reads, busy, closed, twice, strayed>>

NoFd == -1
Ends == Pipes \X {"r", "w"}
Opened == Files \X {"file"}
Handle == Ends \cup Opened

Free == <<"none", "free">>
Leaked == <<"none", "leaked">>      \* a file whose handler was collected

Idle == <<"idle", "none">>

PipeOf_WriterOnly(p) == {<<p, "w">>}
PipeOf(p) == {p} \X {"r", "w"}
Other(e) == <<e[1], IF e[2] = "r" THEN "w" ELSE "r">>

\* The kernel gives out the lowest free number.
Lowest(n, others) ==
    /\ table[n] = Free /\ n \notin others
    /\ \A m \in Fds \ others : table[m] = Free => n <= m

RoomForPipe == \E m, n \in Fds : m # n /\ table[m] = Free /\ table[n] = Free

\* The descriptors in `handles` are closed, whatever they refer to by now.
Shut(handles) ==
    [n \in Fds |-> IF \E h \in handles : at[h] = n THEN Free ELSE table[n]]

Forget(handles) == [h \in Handle |-> IF h \in handles THEN NoFd ELSE at[h]]

\* Who has a copy of an end of a pipe.
Holders(e) ==
    {c \in Cmds : proc[c] = "running" /\ e \in holds[c]}
        \cup (IF \E n \in Fds : table[n] = e THEN {"shell"} ELSE {})

(***************************************************************************)
(* Pipes                                                                   *)
(***************************************************************************)
PipeNew(p) ==
    /\ p \notin live
    /\ \E r, w \in Fds :
          /\ Lowest(r, {}) /\ Lowest(w, {r})
          /\ table' = [table EXCEPT ![r] = <<p, "r">>, ![w] = <<p, "w">>]
          /\ at' = [at EXCEPT ![<<p, "r">>] = r, ![<<p, "w">>] = w]
    /\ live' = live \cup {p}
    /\ UNCHANGED <<proc, holds, reads, busy, closed, twice, strayed>>

ClosePipe_KeepsNumbers(p) == table' = Shut(PipeOf(p)) /\ UNCHANGED at
ClosePipe(p) == table' = Shut(PipeOf(p)) /\ at' = Forget(PipeOf(p))

PipeClose(p) ==
    /\ p \in live
    /\ ClosePipe(p)
    /\ UNCHANGED <<live, proc, holds, reads, busy, closed, twice, strayed>>

\* Pipe:read reads until the end of the pipe; it takes an error for data.
PipeRead(p) ==
    /\ p \in live
    /\ busy' = <<"read", p>>
    /\ UNCHANGED <<live, table, at, proc, holds, reads, closed, twice, strayed>>

\* Any end of a pipe is over when nobody can write to it, and a file at its end.
AtEnd(n) ==
    /\ n \in Fds
    /\ \/ table[n] \in Opened \cup {Leaked}
       \/ table[n] \in Ends /\ table[n][2] = "r" /\ Holders(Other(table[n])) = {}

ReadReturns(p) ==
    /\ busy = <<"read", p>> /\ AtEnd(at[<<p, "r">>])
    /\ busy' = Idle
    /\ UNCHANGED <<live, table, at, proc, holds, reads, closed, twice, strayed>>

(***************************************************************************)
(* Files.  A handler of stdout, of stderr or of a file that could not be   *)
(* opened has no descriptor that close would touch.                        *)
(***************************************************************************)
FileOpen(f) ==
    /\ f \notin live
    /\ live' = live \cup {f}
    /\ \/ \E n \in Fds : /\ Lowest(n, {})
                         /\ table' = [table EXCEPT ![n] = <<f, "file">>]
                         /\ at' = [at EXCEPT ![<<f, "file">>] = n]
       \/ at' = Forget({<<f, "file">>}) /\ UNCHANGED table
    /\ UNCHANGED <<proc, holds, reads, busy, closed, twice, strayed>>

FileClose(f) ==
    /\ f \in live
    /\ table' = Shut({<<f, "file">>})
    /\ closed' = closed \cup {f}
    /\ twice' = (twice \/ f \in closed)
    /\ UNCHANGED <<live, at, proc, holds, reads, busy, strayed>>

(***************************************************************************)
(* Commands                                                                *)
(***************************************************************************)
Streams == {"in", "out", "err"}

\* One command:bind, to an object and with any of READ, WRITE and ERROR - of a file, with
\* what its mode lets through.  An object may be bound again.
Bind == [to : Pipes \cup Files, kind : SUBSET Streams]
Binds == UNION {[1 .. k -> Bind] : k \in 0 .. MaxBinds}

\* The handle whose number a bind copies to stream s.
Source(b, s) ==
    <<b.to, IF b.to \in Files THEN "file" ELSE IF s = "in" THEN "r" ELSE "w">>

\* The numbers it closes: those of the ends of a pipe that it takes nothing from.
Sheds_Nothing(b) == {}
Sheds(b) == {at[e] : e \in {h \in Ends : h[1] = b.to /\ \A s \in b.kind : Source(b, s) # h}}

\* (All binds are made before any of them closes.)
Takes_BeforeCloses(bs, i, s) ==
    /\ s \in bs[i].kind /\ at[Source(bs[i], s)] \in Fds
    /\ table[at[Source(bs[i], s)]] # Free

\* The i-th bind of a child gives it stream s: the number is open, as it is after a file
\* was closed and the number given to another, and no bind before this one has closed it.
Takes(bs, i, s) ==
    /\ s \in bs[i].kind /\ at[Source(bs[i], s)] \in Fds
    /\ table[at[Source(bs[i], s)]] # Free
    /\ \A j \in 1 .. i - 1 : at[Source(bs[i], s)] \notin Sheds(bs[j])

\* What stream s is in the end, if it is not what the shell has: the last bind counts.
Stream(bs, s) ==
    {table[at[Source(bs[i], s)]] :
        i \in {k \in DOMAIN bs : /\ Takes(bs, k, s)
                                 /\ \A j \in DOMAIN bs : Takes(bs, j, s) => j <= k}}

\* What else a child has: all that was open in the shell, but for what its binds closed.
Inherited(bs) == {table[n] : n \in Fds \ UNION {Sheds(bs[i]) : i \in DOMAIN bs}}

\* A bind may give a command another pipe's end, or both ends of one: it is bound to a file
\* that is closed, to both ends at once, or a file was closed twice.
Astray(bs) ==
    \/ twice
    \/ \E i \in DOMAIN bs :
          \/ bs[i].to \in closed
          \/ bs[i].to \in Pipes /\ "in" \in bs[i].kind /\ bs[i].kind # {"in"}

\* A new command is bound, bind by bind, and run.
Spawn(c, bs) ==
    /\ proc[c] = "none" /\ \A i \in DOMAIN bs : bs[i].to \in live
    /\ proc' = [proc EXCEPT ![c] = "running"]
    /\ holds' = [holds EXCEPT ![c] =
                     Ends \cap (Inherited(bs) \cup UNION {Stream(bs, s) : s \in Streams})]
    /\ reads' = [reads EXCEPT ![c] = Stream(bs, "in") \cap (Pipes \X {"r"})]
    /\ strayed' = IF Astray(bs) THEN strayed \cup {c} ELSE strayed \ {c}
    /\ UNCHANGED <<live, table, at, busy, closed, twice>>

Wait(c) ==
    /\ proc[c] # "none"
    /\ busy' = <<"wait", c>>
    /\ UNCHANGED <<live, table, at, proc, holds, reads, closed, twice, strayed>>

WaitReturns(c) ==
    /\ busy = <<"wait", c>> /\ proc[c] = "zombie"
    /\ proc' = [proc EXCEPT ![c] = "none"]
    /\ busy' = Idle
    /\ UNCHANGED <<live, table, at, holds, reads, closed, twice, strayed>>

\* waitpid fails with EINTR.
WaitCut ==
    /\ busy[1] = "wait"
    /\ busy' = Idle
    /\ UNCHANGED <<live, table, at, proc, holds, reads, closed, twice, strayed>>

CommandExits(c) ==
    /\ proc[c] = "running"
    /\ proc' = [proc EXCEPT ![c] = "zombie"]
    /\ holds' = [holds EXCEPT ![c] = {}]
    /\ reads' = [reads EXCEPT ![c] = {}]
    /\ UNCHANGED <<live, table, at, busy, closed, twice, strayed>>

\* It has read all its input.
CommandAtEnd(c) == CommandExits(c) /\ \A e \in reads[c] : Holders(Other(e)) = {}

(***************************************************************************)
(* The collector.  Pipes have a finaliser that closes them, files do not.  *)
(***************************************************************************)
Collected_LeavesPipes(gone) ==
    [n \in Fds |-> IF table[n] \in Opened /\ table[n][1] \in gone THEN Leaked ELSE table[n]]

Collected(gone) ==
    [n \in Fds |->
        IF \E h \in Ends : h[1] \in gone /\ at[h] = n THEN Free
        ELSE IF table[n] \in Opened /\ table[n][1] \in gone THEN Leaked
        ELSE table[n]]

CollectAll(gone) ==
    /\ live' = live \ gone
    /\ table' = Collected(gone)
    /\ at' = Forget({h \in Handle : h[1] \in gone})
    /\ closed' = closed \ gone
    /\ UNCHANGED <<proc, holds, reads, busy, twice, strayed>>

Collect(o) == o \in live /\ CollectAll({o})

(***************************************************************************)
(* Specification                                                           *)
(***************************************************************************)
HInit ==
    /\ live = {} /\ closed = {} /\ twice = FALSE /\ strayed = {}
    /\ table = [n \in Fds |-> Free]
    /\ at = [h \in Handle |-> NoFd]
    /\ holds = [c \in Cmds |-> {}] /\ reads = [c \in Cmds |-> {}]
    /\ proc = [c \in Cmds |-> "none"]
    /\ busy = Idle

PipeCall == \E p \in Pipes : PipeNew(p) \/ PipeClose(p) \/ PipeRead(p)
FileCall == \E f \in Files : FileOpen(f) \/ FileClose(f)
CommandCall ==
    \E c \in Cmds : Wait(c) \/ \E bs \in Binds : Spawn(c, bs)

\* A call of a Lua program that is not inside another.
LuaCall == busy = Idle /\ (PipeCall \/ FileCall \/ CommandCall \/ \E o \in live : Collect(o))

CallReturns ==
    (\E p \in Pipes : ReadReturns(p)) \/ (\E c \in Cmds : WaitReturns(c))

CommandEnds == \E c \in Cmds : CommandExits(c)

\* lua_close collects everything.
Close == busy = Idle /\ CollectAll(live)

HNext == LuaCall \/ CallReturns \/ WaitCut \/ CommandEnds \/ Close

HSpec == HInit /\ [][HNext]_hvars

(***************************************************************************)
(* Properties                                                              *)
(***************************************************************************)
HTypeOK ==
    /\ live \subseteq Pipes \cup Files
    /\ table \in [Fds -> Handle \cup {Free, Leaked}]
    /\ at \in [Handle -> Fds \cup {NoFd}]
    /\ proc \in [Cmds -> {"none", "running", "zombie"}]
    /\ holds \in [Cmds -> SUBSET Ends] /\ reads \in [Cmds -> SUBSET Ends]
    /\ busy \in {Idle} \cup ({"read"} \X Pipes) \cup ({"wait"} \X Cmds)
    /\ closed \subseteq Files /\ twice \in BOOLEAN /\ strayed \subseteq Cmds

\* A pipe closed, closed again and collected, in any order with everything else, never
\* costs another handle its descriptor: until a file is closed for the second time, every
\* handle that is open has its own.
HandlesOwn ==
    ~twice => \A h \in Handle :
                  at[h] \in Fds /\ h[1] \notin closed => table[at[h]] = h

\* Whatever was closed how often: a descriptor in use is that of an object Lua still
\* has, or of a file that was dropped unclosed.  No pipe is lost by dropping it.
OnlyFilesLeak ==
    \A n \in Fds : table[n] \in Handle => table[n][1] \in live /\ at[table[n]] = n

\* A program that reads a pipe waits for ever: it keeps the writing end itself, and a
\* pipe is closed as a whole.  Only a second close of a file ends such a wait.
ReadNeverEnds == [][busy[1] = "read" => busy' = busy \/ twice]_hvars

\* Whatever order a command is bound in, to which pipes how often, and with any numbers
\* reused: a command that reads a pipe cannot write to it, and so sees its end - unless it
\* was bound to a closed file, whose number may be a pipe's by then, to both ends of a pipe
\* at once, or after a file was closed twice.
ReaderCannotWrite ==
    \A c \in Cmds \ strayed : \A e \in reads[c] : Other(e) \notin holds[c]

\* A wait for a command ends, if programs end with their input: or somebody else, the
\* waiting shell for one, keeps the pipe open that the command reads, or its binds gave
\* it what it was not bound to.
WaitEnds ==
    \A c \in Cmds :
        busy = <<"wait", c>> ~>
            \/ busy # <<"wait", c>> \/ c \in strayed
            \/ \E e \in reads[c] : Holders(Other(e)) \ {c} # {}
=============================================================================
