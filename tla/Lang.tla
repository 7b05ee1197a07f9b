-------------------------------- MODULE Lang --------------------------------
(***************************************************************************)
(* parse and run (plugins/api/lua/lang.lua): the tokens of a line become   *)
(* processes, a pipe and a redirection, and these become commands.         *)
(*                                                                         *)
(* A token is its type and its text.  What commands do is Pipeline's; here *)
(* it is what is done for a line, in which order, and what is left of a    *)
(* line that fails.                                                        *)
(***************************************************************************)
EXTENDS Naturals, Sequences

CONSTANTS
    Typed,      \* the tokens typed
    Lines       \* bound: pairs of some of them and how many, without ! and lua, make a line

VARIABLES
    tokens,     \* what tokenize makes of the line being typed
    debug,      \* lyra.vars.debug
    error,      \* lyra.vars.error
    done        \* history: the last line submitted, whether it failed, and what was done

vars == <<tokens, debug, error, done>>

(***************************************************************************)
(* Tokens                                                                  *)
(***************************************************************************)
pipe_set == {"|", "|&"}
redir_set == {"<", "<<", ">", ">>"}
fd_set == {"&0", "&1", "&2"}
Operators == pipe_set \cup redir_set \cup fd_set

Token(type, val) == [type |-> type, val |-> val]

Bang == Token("debug", "!")
LuaWord == Token("str", "lua")
LuaCode == Token("lua_code", "code")

\* A token that tokenize can make: an operator without quotes has its own type.
Lexical(t) ==
    CASE t.val \in pipe_set -> t.type \in {"pipe", "string"}
      [] t.val \in redir_set -> t.type \in {"redir", "string"}
      [] t.val \in fd_set -> t.type \in {"fd", "string"}
      [] t.val = "" -> t.type = "string"
      [] OTHER -> t.type \in {"identifier", "string", "error"}

ASSUME LangAssumption ==
    /\ Lines \subseteq (SUBSET Typed) \X Nat
    /\ \A t \in Typed : Lexical(t)

(***************************************************************************)
(* parse                                                                   *)
(***************************************************************************)
\* What ends a process, quoted or not.
Stop(t) == t.val \in Operators

\* The end of the process that begins at i.
EndOf(ts, i) ==
    CHOOSE j \in i .. Len(ts) + 1 :
        /\ j <= Len(ts) => Stop(ts[j])
        /\ \A k \in i .. j - 1 : ~Stop(ts[k])

take_process_KeepsStop(ts, i) ==
    LET end == EndOf(ts, i)
        words == SubSeq(ts, i, IF end > Len(ts) THEN Len(ts) ELSE end)
    IN  [type |-> "process",
         val |-> [n \in DOMAIN words |->
                    Token(IF n = 1 THEN "command" ELSE "argument", words[n].val)]]

take_process(ts, i) ==
    LET words == SubSeq(ts, i, EndOf(ts, i) - 1)
        role(n) == IF words[n].type = "error" THEN "error"
                   ELSE IF n = 1 THEN "command" ELSE "argument"
    IN  [type |-> "process", val |-> [n \in DOMAIN words |-> Token(role(n), words[n].val)]]

\* A statement's nodes.  What follows a file, and any stop that is neither a pipe nor a
\* redirection, is taken away up to the next of these.
parse_statement(ts) ==
    LET rest[i \in 1 .. Len(ts) + 2] ==
            IF i > Len(ts) THEN <<>>
            ELSE CASE ts[i].type = "pipe" ->
                        <<ts[i], take_process(ts, i + 1)>> \o rest[EndOf(ts, i + 1)]
                   [] ts[i].type = "redir" ->
                        <<ts[i]>> \o (IF i = Len(ts) THEN <<>> ELSE <<ts[i + 1]>>) \o rest[i + 2]
                   [] OTHER -> rest[i + 1]
    IN  <<take_process(ts, 1)>> \o rest[EndOf(ts, 1)]

HasError(node) ==
    IF node.type = "process" THEN \E n \in DOMAIN node.val : node.val[n].type = "error"
    ELSE node.type = "error"

\* validate_process
ValidProcess(node) ==
    /\ node.type = "process" /\ node.val # <<>>
    /\ node.val[1].type = "command" /\ node.val[1].val # ""

ValidFile(redir, file, types) ==
    redir.val \in {">", ">>"} /\ file.type \in types /\ file.val # ""

\* The last two cases differ in what may be quoted.
validate_statement(nodes) ==
    /\ \A n \in DOMAIN nodes : ~HasError(nodes[n])
    /\ ValidProcess(nodes[1])
    /\ \/ Len(nodes) = 1
       \/ Len(nodes) = 3 /\ nodes[2].type = "pipe" /\ ValidProcess(nodes[3])
       \/ /\ Len(nodes) = 3 /\ nodes[2].type = "redir"
          /\ ValidFile(nodes[2], nodes[3], {"string", "identifier"})
       \/ /\ Len(nodes) = 5 /\ nodes[2].type = "pipe" /\ nodes[4].type = "redir"
          /\ ValidProcess(nodes[3]) /\ ValidFile(nodes[4], nodes[5], {"identifier"})

Debugs(ts) == ts # <<>> /\ ts[1] = Bang

\* The tokens without the mark of a debugged line.
Command(ts) == IF Debugs(ts) THEN Tail(ts) ELSE ts

IsLua(ts) == Command(ts) # <<>> /\ Command(ts)[1] = LuaWord

Accepted(ts) ==
    Command(ts) = <<>> \/ IsLua(ts) \/ validate_statement(parse_statement(Command(ts)))

(***************************************************************************)
(* run                                                                     *)
(***************************************************************************)
builtin == {"cd", "lua"}

Words(process) == [n \in DOMAIN process.val |-> process.val[n].val]
Name(process) == Words(process)[1]

\* A step of a line: something done, or a check that fails.
Do(what, words) == [what |-> what, words |-> words]
Fails == Do("fail", <<>>)
External(names) == IF names \cap builtin = {} THEN <<>> ELSE <<Fails>>
OpenFile(redir, file) == <<Do(IF redir.val = ">>" THEN "append" ELSE "truncate", <<file.val>>)>>

run_cmd(p) ==
    CASE Name(p) \in {"exit", "reload"} -> <<Do(Name(p), <<>>)>>
      [] Name(p) \in builtin -> <<Do("builtin", Words(p))>>
      [] OTHER -> <<Do("run", Words(p))>>

run_redirected_OpensFirst(p, redir, file) ==
    OpenFile(redir, file) \o External({Name(p)}) \o <<Do("run", Words(p))>>

run_redirected(p, redir, file) ==
    External({Name(p)}) \o OpenFile(redir, file) \o <<Do("run", Words(p))>>

run_piped(nodes) ==
    External({Name(nodes[1]), Name(nodes[3])})
        \o (IF Len(nodes) = 5 THEN OpenFile(nodes[4], nodes[5]) ELSE <<>>)
        \o <<Do("run", Words(nodes[1])), Do("run", Words(nodes[3]))>>

run_statement(nodes) ==
    IF Len(nodes) = 1 THEN run_cmd(nodes[1])
    ELSE IF nodes[2].type = "pipe" THEN run_piped(nodes)
    ELSE run_redirected(nodes[1], nodes[2], nodes[3])

\* What is done of a sequence of steps, and whether a check stopped it.
Result(steps) ==
    LET n == CHOOSE k \in 1 .. Len(steps) + 1 :
                /\ k <= Len(steps) => steps[k] = Fails
                /\ \A m \in 1 .. k - 1 : steps[m] # Fails
    IN  [failed |-> n <= Len(steps), did |-> SubSeq(steps, 1, n - 1)]

Refused == [failed |-> TRUE, did |-> <<>>]

\* Lua code, also when the word lua is in quotes and the code is its argument.
RunsCode(ts) ==
    \/ IsLua(ts)
    \/ /\ Command(ts) # <<>> /\ Accepted(ts)
       /\ LET nodes == parse_statement(Command(ts))
          IN  Len(nodes) = 1 /\ Name(nodes[1]) = "lua" /\ Len(Words(nodes[1])) > 1

(***************************************************************************)
(* Lines                                                                   *)
(***************************************************************************)
NoLine == [line |-> <<>>, failed |-> FALSE, did |-> <<>>]

Init == tokens = <<>> /\ debug = FALSE /\ error = 0 /\ done = NoLine

Exited == \E n \in DOMAIN done.did : done.did[n].what = "exit"

Type(t) ==
    /\ ~Exited /\ ~IsLua(tokens)
    /\ \E l \in Lines :
         /\ \A n \in DOMAIN Command(tokens) : Command(tokens)[n] \in l[1]
         /\ t \in l[1] /\ Len(Command(tokens)) < l[2]
    /\ tokens' = Append(tokens, t) /\ done' = NoLine
    /\ UNCHANGED <<debug, error>>

TypeBang ==
    /\ ~Exited /\ tokens = <<>>
    /\ tokens' = <<Bang>> /\ done' = NoLine
    /\ UNCHANGED <<debug, error>>

TypeLua ==
    /\ ~Exited /\ Command(tokens) = <<>>
    /\ tokens' = tokens \o <<LuaWord, LuaCode>> /\ done' = NoLine
    /\ UNCHANGED <<debug, error>>

\* A line that failed stays, to be mended.
Erase ==
    /\ ~Exited /\ tokens # <<>>
    /\ tokens' = <<>> /\ done' = NoLine
    /\ UNCHANGED <<debug, error>>

\* submit_input: what became of the line.
Ends(result) ==
    /\ done' = [line |-> tokens, failed |-> result.failed, did |-> result.did]
    /\ tokens' = IF result.failed THEN tokens ELSE <<>>

\* The statuses of a line's external commands: what counts is the last, unless it is zero.
Statuses(did) == [1 .. Len(SelectSeq(did, LAMBDA s : s.what = "run")) -> {0, 1}]

ErrorOf(s) == IF s[Len(s)] # 0 THEN s[Len(s)] ELSE s[1]

\* Submitted: a line without text is not even parsed, one of blanks, or of ! alone, has
\* no statement.
Submit_Nothing ==
    /\ ~Exited /\ Command(tokens) = <<>>
    /\ error' \in {0, error} /\ (error' # 0 => ~Debugs(tokens))
    /\ debug' = (debug \/ Debugs(tokens))
    /\ Ends([failed |-> FALSE, did |-> <<>>])

Submit_Refused ==
    /\ ~Exited /\ ~Accepted(tokens)
    /\ debug' = (debug \/ Debugs(tokens))
    /\ Ends(Refused)
    /\ UNCHANGED error

RanCode == Do("builtin", <<"lua">>)

\* Lua code does what it likes.  Its errors are caught, and printed - but one that is no
\* string raises another while it is printed, and the line fails with the code run.
Submit_Lua ==
    /\ ~Exited /\ RunsCode(tokens)
    /\ \E failed \in BOOLEAN :
          /\ debug' \in IF Debugs(tokens) /\ ~failed THEN {FALSE} ELSE BOOLEAN
          /\ Ends([failed |-> failed, did |-> <<RanCode>>])
    /\ error' \in {0, 1}

Submit_Statement_NoReset ==
    /\ ~Exited /\ Command(tokens) # <<>> /\ ~RunsCode(tokens) /\ Accepted(tokens)
    /\ LET result == Result(run_statement(parse_statement(Command(tokens))))
       IN  /\ Ends(result)
           /\ debug' = (debug \/ Debugs(tokens))
           /\ UNCHANGED error

Submit_Statement ==
    /\ ~Exited /\ Command(tokens) # <<>> /\ ~RunsCode(tokens) /\ Accepted(tokens)
    /\ LET result == Result(run_statement(parse_statement(Command(tokens))))
       IN  /\ Ends(result)
           /\ debug' = IF Debugs(tokens) THEN result.failed ELSE debug
           /\ \E s \in Statuses(result.did) :
                error' = CASE s # <<>> -> ErrorOf(s)
                           [] result.did # <<>> /\ result.did[1].what # "builtin" -> 0
                           [] OTHER -> error

Submit == Submit_Nothing \/ Submit_Refused \/ Submit_Lua \/ Submit_Statement

Next == TypeBang \/ TypeLua \/ Erase \/ Submit \/ \E t \in Typed : Type(t)

Spec == Init /\ [][Next]_vars

(***************************************************************************)
(* Properties                                                              *)
(***************************************************************************)
\* The grammar of a statement, said of the tokens themselves.
IsWord(t) == t.type \in {"identifier", "string"} /\ t.val \notin Operators

IsProcess(ts) == ts # <<>> /\ ts[1].val # "" /\ \A n \in DOMAIN ts : IsWord(ts[n])

IsTarget(ts) ==
    /\ Len(ts) = 2 /\ ts[1].type = "redir" /\ ts[1].val \in {">", ">>"}
    /\ ts[2].type \in {"identifier", "string"} /\ ts[2].val # ""

Upto(ts, i) == SubSeq(ts, 1, i)
After(ts, i) == SubSeq(ts, i + 1, Len(ts))

IsPiped(ts) ==
    \E i \in DOMAIN ts :
        /\ ts[i].type = "pipe"
        /\ IsProcess(Upto(ts, i - 1))
        /\ LET out == After(ts, i)
           IN  \/ IsProcess(out)
               \/ \E j \in DOMAIN out :
                    /\ IsProcess(Upto(out, j)) /\ IsTarget(After(out, j))
                    /\ out[Len(out)].type = "identifier"

Grammatical(ts) ==
    \/ IsProcess(ts)
    \/ \E i \in DOMAIN ts : IsProcess(Upto(ts, i)) /\ IsTarget(After(ts, i))
    \/ IsPiped(ts)

\* Nothing that parse_statement takes away: no descriptor, no quoted operator outside a
\* file's place, nothing but an operator after a file.
IsFile(ts, i) == i > 1 /\ ts[i - 1].type = "redir"

Clean(ts) ==
    \A i \in DOMAIN ts :
        /\ ts[i].type \notin {"fd", "error"}
        /\ ts[i].type = "string" /\ ts[i].val \in Operators => IsFile(ts, i)
        /\ i > 1 /\ IsFile(ts, i - 1) /\ ts[i - 1].type # "redir" =>
               ts[i].type \in {"pipe", "redir"}

\* The texts of a statement, from left to right.
Texts(nodes) ==
    LET upto[n \in 0 .. Len(nodes)] ==
            IF n = 0 THEN <<>>
            ELSE upto[n - 1] \o
                 IF nodes[n].type = "process" THEN Words(nodes[n]) ELSE <<nodes[n].val>>
    IN  upto[Len(nodes)]

\* A line of the grammar is accepted, and every token of it is in the statement, in order;
\* a line that is accepted and is not of the grammar is one with tokens that the parser
\* is known to take away.
ReadAsTyped ==
    LET ts == Command(tokens)
    IN  (ts # <<>> /\ ~IsLua(tokens)) =>
            /\ Grammatical(ts) <=> Accepted(tokens) /\ Clean(ts)
            /\ Grammatical(ts) => Texts(parse_statement(ts)) = [n \in DOMAIN ts |-> ts[n].val]

\* A line that fails has done nothing: no file is cut short for a command that will not
\* be run, and no member of a pipeline runs without the other.  Only Lua code may have
\* run before its line fails.
FailedRanOnlyCode ==
    done.failed => done.did = <<>> \/ (done.did = <<RanCode>> /\ RunsCode(done.line))

\* A line with ! leaves the debug level on only if it failed, or had nothing to run;
\* no other line but Lua code turns it on.
DebugEndsWithLine ==
    [][ (debug' /\ ~debug) =>
          IF Debugs(tokens) THEN done'.failed \/ Command(tokens) = <<>> ELSE RunsCode(tokens) ]_vars

\* lang.lua: special lexer tokens are kept intact for parse validation - so a line that
\* runs has no unterminated string.
ErrorsRefused ==
    ~done.failed => \A n \in DOMAIN done.line : done.line[n].type # "error"
=============================================================================
