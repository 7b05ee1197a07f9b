------------------------------ MODULE Pipeline ------------------------------
(***************************************************************************)
(* External commands, pipelines and redirections: run_command and run_piped*)
(* of lang.lua over the commands (process.c), pipes and files (io.c) of the*)
(* runtime plugin, down to the descriptors of the shell and its children.  *)
(*                                                                         *)
(* The kernel's part is what these calls rely on: a descriptor is the      *)
(* lowest free number, fork copies the table, a pipe is at its end when    *)
(* nobody holds the writing end, and a write without readers kills.        *)
(***************************************************************************)
EXTENDS Integers, Sequences, FiniteSets

CONSTANTS
    Pipes,      \* the kernel's pipes that may exist at once
    Capacity,   \* of a pipe
    MaxWrites,  \* bound: writes of a program
    MaxFd,      \* bound: the highest descriptor, as high as the pipes and a file need
    MayFail     \* the system calls, of Calls, that may fail

Calls == {"pipe", "fork", "open", "exec"}

ASSUME PipelineAssumption ==
    /\ IsFiniteSet(Pipes) /\ Pipes # {} /\ "none" \notin Pipes /\ "tty" \notin Pipes /\ "file" \notin Pipes
    /\ Capacity \in Nat \ {0} /\ MaxWrites \in Nat
    /\ MaxFd \in Nat /\ MaxFd >= 2 * Cardinality(Pipes) + 3
    /\ MayFail \subseteq Calls

Children == {"src", "out"}      \* of a pipeline; a single command is "out"
Procs == Children \cup {"shell"}

VARIABLES
    pc,         \* where lang.lua is
    line,       \* the line being run
    pipe,       \* its struct Pipe: the numbers of the two ends
    output,     \* its struct FileHandler's fd
    garbage,    \* the struct Pipes Lua has not collected yet
    fds,        \* every process's descriptors
    buf,        \* how much every pipe holds
    child,      \* where each child is
    copy,       \* each child's copy of the line's struct Pipe
    next,       \* the bind each child is at
    wrote, got, eof     \* history of the line: written by src, read by out, its end seen

vars == <<pc, line, pipe, output, garbage, fds, buf, child, copy, next,
          wrote, got, eof>>

history == <<wrote, got, eof>>

(***************************************************************************)
(* Descriptors                                                             *)
(***************************************************************************)
Fds == 0 .. MaxFd
NoFd == -1

Closed == [obj |-> "none", end |-> "none"]
Tty == [obj |-> "tty", end |-> "both"]
File == [obj |-> "file", end |-> "write"]
ReadEnd(p) == [obj |-> p, end |-> "read"]
WriteEnd(p) == [obj |-> p, end |-> "write"]

Empty == [n \in Fds |-> Closed]

Unused(t) == {n \in Fds : t[n] = Closed}
Lowest(t) == CHOOSE n \in Unused(t) : \A m \in Unused(t) : n <= m

Shut(t, n) == IF n = NoFd THEN t ELSE [t EXCEPT ![n] = Closed]

\* dup2, whose failure no caller looks at.
Dup2(t, from, to) ==
    IF from = NoFd \/ t[from] = Closed THEN t ELSE [t EXCEPT ![to] = t[from]]

Holders(d) == {q \in Procs : \E n \in Fds : fds[q][n] = d}
Readers(p) == Holders(ReadEnd(p))
Writers(p) == Holders(WriteEnd(p))

FreePipes == {p \in Pipes : Readers(p) = {} /\ Writers(p) = {}}

\* The struct Pipe of a pipe that was closed, or is not there.
ClosedPipe == <<NoFd, NoFd>>

ShutPipe(t, u) == Shut(Shut(t, u[1]), u[2])

\* pipe(2): the table it leaves, and the two numbers.
NewPipe(t, p) ==
    LET r == Lowest(t)
        half == [t EXCEPT ![r] = ReadEnd(p)]
        w == Lowest(half)
    IN  [table |-> [half EXCEPT ![w] = WriteEnd(p)], ends |-> <<r, w>>]

(***************************************************************************)
(* Binds.  The flags binded_in, binded_out and binded_err of a command are *)
(* the union of its binds' kinds, and mask nothing.                        *)
(***************************************************************************)
FileBind(t, n, kind) ==
    LET err == IF "error" \in kind THEN Dup2(t, n, 2) ELSE t
    IN  IF "write" \in kind THEN Dup2(err, n, 1) ELSE err

PipeBind_KeepsWriteEnd(t, u, kind) ==
    LET err == IF "error" \in kind THEN Dup2(t, u[2], 2) ELSE t
        wr == IF "write" \in kind THEN Dup2(err, u[2], 1) ELSE err
        rd == IF "read" \in kind THEN Dup2(wr, u[1], 0) ELSE wr
    IN  IF "read" \in kind THEN rd ELSE Shut(rd, u[1])

\* An end that is not bound is closed; one that is stays open beside its copy.
PipeBind(t, u, kind) ==
    LET err == IF "error" \in kind THEN Dup2(t, u[2], 2) ELSE t
        wr == IF "write" \in kind THEN Dup2(err, u[2], 1) ELSE err
        rd == IF "read" \in kind THEN Dup2(wr, u[1], 0) ELSE wr
        out == IF kind \cap {"write", "error"} # {} THEN rd ELSE Shut(rd, u[2])
    IN  IF "read" \in kind THEN out ELSE Shut(out, u[1])

BindTo(what, kind) == [what |-> what, kind |-> kind]

Binds_OneStream(c) ==
    IF c = "src" THEN <<BindTo("pipe", {"write"})>>
    ELSE (IF line.redir THEN <<BindTo("file", {"write"})>> ELSE <<>>)
             \o (IF line.piped THEN <<BindTo("pipe", {"read"})>> ELSE <<>>)

\* What lang.lua binds each command to, in order.
Binds(c) ==
    IF c = "src" THEN <<BindTo("pipe", IF line.both THEN {"write", "error"} ELSE {"write"})>>
    ELSE (IF line.redir THEN <<BindTo("file", {"write"})>> ELSE <<>>)
             \o (IF line.piped THEN <<BindTo("pipe", {"read"})>> ELSE <<>>)

(***************************************************************************)
(* The shell                                                               *)
(***************************************************************************)
Init ==
    /\ pc = "prompt"
    /\ line = [piped |-> FALSE, both |-> FALSE, redir |-> FALSE]
    /\ pipe = ClosedPipe /\ output = NoFd /\ garbage = {}
    /\ fds = [q \in Procs |->
                IF q = "shell" THEN [n \in Fds |-> IF n <= 2 THEN Tty ELSE Closed] ELSE Empty]
    /\ buf = [p \in Pipes |-> 0]
    /\ child = [c \in Children |-> "none"]
    /\ copy = [c \in Children |-> ClosedPipe] /\ next = [c \in Children |-> 1]
    /\ wrote = 0 /\ got = 0 /\ eof = FALSE

\* exit(-1), for a system call that failed.
Exit(call) ==
    /\ call \in MayFail
    /\ pc' = "exited"
    /\ fds' = [fds EXCEPT !["shell"] = Empty]

\* run_cmd and run_redirected.
RunCommand(redir) ==
    /\ pc = "prompt"
    /\ pc' = IF redir THEN "open" ELSE "run_out"
    /\ line' = [piped |-> FALSE, both |-> FALSE, redir |-> redir]
    /\ output' = NoFd
    /\ UNCHANGED <<pipe, garbage, fds, buf, child, copy, next, history>>

\* run_piped: `|` or, both streams, `|&`.
RunPiped(both, redir) ==
    /\ pc = "prompt"
    /\ line' = [piped |-> TRUE, both |-> both, redir |-> redir]
    /\ output' = NoFd
    /\ \/ \E p \in FreePipes :
            LET new == NewPipe(fds["shell"], p)
            IN  /\ fds' = [fds EXCEPT !["shell"] = new.table]
                /\ pipe' = new.ends
                /\ buf' = [buf EXCEPT ![p] = 0]
                /\ wrote' = 0 /\ got' = 0 /\ eof' = FALSE
                /\ pc' = IF redir THEN "open" ELSE "run_src"
       \/ Exit("pipe") /\ UNCHANGED <<pipe, buf, history>>
    /\ UNCHANGED <<garbage, child, copy, next>>

\* open_redirect.  The number of a file that could not be opened is -1, and goes on.
OpenOutput ==
    /\ pc = "open"
    /\ pc' = IF line.piped THEN "run_src" ELSE "run_out"
    /\ \/ /\ output' = Lowest(fds["shell"])
          /\ fds' = [fds EXCEPT !["shell"][output'] = File]
       \/ "open" \in MayFail /\ UNCHANGED <<output, fds>>
    /\ UNCHANGED <<line, pipe, garbage, buf, child, copy, next, history>>

\* command_run, in the shell: the child has a copy of the table and of the pipe.
Fork(c, then) ==
    /\ \/ /\ fds' = [fds EXCEPT ![c] = fds["shell"]]
          /\ child' = [child EXCEPT ![c] = "forked"]
          /\ copy' = [copy EXCEPT ![c] = pipe] /\ next' = [next EXCEPT ![c] = 1]
          /\ pc' = then
       \/ Exit("fork") /\ UNCHANGED <<child, copy, next>>
    /\ UNCHANGED <<line, pipe, output, garbage, buf, history>>

RunSrc_ClosesPipe ==
    /\ pc = "run_src" /\ pc' = "run_out"
    /\ fds' = [fds EXCEPT !["src"] = fds["shell"], !["shell"] = ShutPipe(@, pipe)]
    /\ child' = [child EXCEPT !["src"] = "forked"] /\ next' = [next EXCEPT !["src"] = 1]
    /\ copy' = [copy EXCEPT !["src"] = pipe] /\ pipe' = ClosedPipe
    /\ UNCHANGED <<line, output, garbage, buf, history>>

RunSrc == pc = "run_src" /\ Fork("src", "run_out")

\* What follows the runs: close the file, if there is one, and wait.
Closing == IF line.redir THEN "close_output" ELSE IF line.piped THEN "wait_src" ELSE "wait_out"

RunOut == pc = "run_out" /\ Fork("out", IF line.piped THEN "close_pipe" ELSE Closing)

ClosePipe_KeepsNumbers ==
    /\ pc = "close_pipe"
    /\ pc' = Closing
    /\ fds' = [fds EXCEPT !["shell"] = ShutPipe(@, pipe)]
    /\ UNCHANGED <<line, pipe, output, garbage, buf, child, copy, next, history>>

\* pipe:close()
ClosePipe ==
    /\ pc = "close_pipe"
    /\ pc' = Closing
    /\ fds' = [fds EXCEPT !["shell"] = ShutPipe(@, pipe)]
    /\ pipe' = ClosedPipe
    /\ UNCHANGED <<line, output, garbage, buf, child, copy, next, history>>

\* output:close()
CloseOutput ==
    /\ pc = "close_output"
    /\ pc' = IF line.piped THEN "wait_src" ELSE "wait_out"
    /\ fds' = [fds EXCEPT !["shell"] = Shut(@, output)]
    /\ UNCHANGED <<line, pipe, output, garbage, buf, child, copy, next, history>>

Ended(c) == child[c] \in {"exited", "killed"}

WaitSrc ==
    /\ pc = "wait_src" /\ Ended("src")
    /\ pc' = "wait_out"
    /\ UNCHANGED <<line, pipe, output, garbage, fds, buf, child, copy, next, history>>

\* The line is over, and its struct Pipe is left to the collector.
WaitOut ==
    /\ pc = "wait_out" /\ Ended("out")
    /\ pc' = "prompt"
    /\ child' = [c \in Children |-> "none"]
    /\ garbage' = garbage \cup {pipe} /\ pipe' = ClosedPipe
    /\ UNCHANGED <<line, output, fds, buf, copy, next, history>>

\* Lua code of a hook makes a pipe and drops it.
DropPipe ==
    /\ pc = "prompt" /\ Cardinality(FreePipes) > 1
    /\ \E p \in FreePipes :
         LET new == NewPipe(fds["shell"], p)
         IN  /\ fds' = [fds EXCEPT !["shell"] = new.table]
             /\ garbage' = garbage \cup {new.ends}
             /\ buf' = [buf EXCEPT ![p] = 0]
    /\ UNCHANGED <<pc, line, pipe, output, child, copy, next, history>>

\* lua_pipe_gc, whenever the collector runs.
Collect(u) ==
    /\ pc # "exited" /\ u \in garbage
    /\ garbage' = garbage \ {u}
    /\ fds' = [fds EXCEPT !["shell"] = ShutPipe(@, u)]
    /\ UNCHANGED <<pc, line, pipe, output, buf, child, copy, next, history>>

(***************************************************************************)
(* A child                                                                 *)
(***************************************************************************)
Become(c, state) == child' = [child EXCEPT ![c] = state]

End(c, how) ==
    /\ Become(c, how)
    /\ fds' = [fds EXCEPT ![c] = Empty]
    /\ UNCHANGED <<pc, line, pipe, output, garbage, buf, copy, next, history>>

\* One turn of the loop over the binds, in command_run.
Bind(c) ==
    /\ child[c] = "forked" /\ next[c] \in DOMAIN Binds(c)
    /\ LET b == Binds(c)[next[c]]
       IN  fds' = [fds EXCEPT ![c] = IF b.what = "file" THEN FileBind(@, output, b.kind)
                                     ELSE PipeBind(@, copy[c], b.kind)]
    /\ next' = [next EXCEPT ![c] = @ + 1]
    /\ UNCHANGED <<pc, line, pipe, output, garbage, buf, child, copy, history>>

Exec(c) ==
    /\ child[c] = "forked" /\ next[c] \notin DOMAIN Binds(c)
    /\ \/ Become(c, "program") /\ UNCHANGED <<pc, line, pipe, output, garbage, fds, buf, copy,
                                              next, history>>
       \/ "exec" \in MayFail /\ End(c, "exited")

(***************************************************************************)
(* Programs, as a pipeline needs them: they write to and read from the     *)
(* pipes they were given, and end by themselves or at the end of input.    *)
(***************************************************************************)
Input(c) == {p \in Pipes : fds[c][0] = ReadEnd(p)}
Outputs(c) == {p \in Pipes : \E n \in {1, 2} : fds[c][n] = WriteEnd(p)}

Decide(c) ==
    /\ child[c] = "program"
    /\ \/ /\ Outputs(c) # {} /\ wrote < MaxWrites /\ Become(c, "writing")
          /\ UNCHANGED <<pc, line, pipe, output, garbage, fds, buf, copy, next, history>>
       \/ /\ Input(c) # {} /\ ~eof /\ Become(c, "reading")
          /\ UNCHANGED <<pc, line, pipe, output, garbage, fds, buf, copy, next, history>>
       \/ End(c, "exited")

\* A write waits for room, and kills without a reader.
Write(c) ==
    /\ child[c] = "writing"
    /\ \E p \in Outputs(c) :
         IF Readers(p) = {} THEN End(c, "killed")
         ELSE /\ buf[p] < Capacity
              /\ buf' = [buf EXCEPT ![p] = @ + 1]
              /\ wrote' = wrote + 1
              /\ Become(c, "program")
              /\ UNCHANGED <<pc, line, pipe, output, garbage, fds, copy, next, got, eof>>

\* A read waits for something, or for the last writer to go.
Read(c) ==
    /\ child[c] = "reading"
    /\ \E p \in Input(c) :
         \/ /\ buf[p] > 0
            /\ buf' = [buf EXCEPT ![p] = @ - 1]
            /\ got' = got + 1
            /\ UNCHANGED eof
         \/ /\ buf[p] = 0 /\ Writers(p) = {}
            /\ eof' = TRUE
            /\ UNCHANGED <<buf, got>>
    /\ Become(c, "program")
    /\ UNCHANGED <<pc, line, pipe, output, garbage, fds, copy, next, wrote>>

(***************************************************************************)
(* Specification                                                           *)
(***************************************************************************)
NewLine == \E b, r \in BOOLEAN : RunCommand(r) \/ RunPiped(b, r)

ShellStep == OpenOutput \/ RunSrc \/ RunOut \/ ClosePipe \/ CloseOutput \/ WaitSrc \/ WaitOut

ChildStep(c) == Bind(c) \/ Exec(c) \/ Decide(c) \/ Write(c) \/ Read(c)

Next ==
    \/ NewLine \/ ShellStep \/ DropPipe
    \/ \E u \in garbage : Collect(u)
    \/ \E c \in Children : ChildStep(c)

\* The shell and its children are scheduled, and the programs are such as end.  Lines,
\* dropped pipes and collections come when they come.
Spec ==
    /\ Init /\ [][Next]_vars
    /\ WF_vars(ShellStep) /\ \A c \in Children : WF_vars(ChildStep(c))

(***************************************************************************)
(* Properties                                                              *)
(***************************************************************************)
\* The numbers a struct Pipe or the FileHandler will close, and those that are open in
\* the shell.
Ends(u) == {u[1], u[2]} \ {NoFd}

OutputOpen == pc \in {"run_src", "run_out", "close_pipe", "close_output"} /\ output # NoFd

Owned ==
    (UNION {Ends(u) : u \in garbage \cup {pipe}}) \cup (IF OutputOpen THEN {output} ELSE {})

\* Every descriptor the shell has open, beyond the first three, has exactly one owner
\* who will close it - the line, or a struct Pipe left to the collector, which may run
\* in the middle of another line - and every owner's descriptors are open.  So nothing
\* leaks, and nobody closes a number that has come to belong to somebody else.
OneOwner ==
    pc # "exited" =>
        /\ Owned = {n \in 3 .. MaxFd : fds["shell"][n] # Closed}
        /\ \A n \in 0 .. 2 : fds["shell"][n] = Tty
        /\ \A u, v \in garbage \cup {pipe} : u # v => Ends(u) \cap Ends(v) = {}
        /\ OutputOpen => \A u \in garbage \cup {pipe} : output \notin Ends(u)

InProgram(c) == child[c] \in {"program", "writing", "reading"}

\* A program finds its three streams where the line says, whatever pipes the shell
\* holds or collects meanwhile, and no end of the line's pipe that is not its own.
Wired ==
    \E p \in Pipes :
        /\ InProgram("src") =>
             /\ fds["src"][0] = Tty /\ fds["src"][1] = WriteEnd(p)
             /\ fds["src"][2] = IF line.both THEN WriteEnd(p) ELSE Tty
             /\ "src" \notin Readers(p)
        /\ InProgram("out") =>
             /\ fds["out"][0] = IF line.piped THEN ReadEnd(p) ELSE Tty
             /\ fds["out"][1] = IF output # NoFd THEN File ELSE Tty
             /\ fds["out"][2] = Tty
             /\ line.piped => "out" \notin Writers(p)

\* A pipeline keeps the promise of PipedLine: what is a matter of who holds which end
\* there becomes a matter of who has ended.
Stage(c) ==
    IF ~line.piped \/ child[c] = "none" THEN "none"
    ELSE IF child[c] = "exited" THEN "ended" ELSE IF child[c] = "killed" THEN "cut" ELSE "runs"

Abstract ==
    INSTANCE PipedLine WITH
        line <- IF pc = "exited" THEN "aborted"
                ELSE IF line.piped /\ pc # "prompt" THEN "runs" ELSE "idle",
        src <- Stage("src"), out <- Stage("out")

KeepsStream == Abstract!Spec

\* A line whose programs end gives the prompt back: no reader waits for an end that
\* somebody withholds, and no writer for a reader that is gone.
LineEnds == pc # "prompt" ~> pc \in {"prompt", "exited"}
=============================================================================
