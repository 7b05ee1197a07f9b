------------------------------ MODULE FrontEnd ------------------------------
(***************************************************************************)
(* Lines typed character by character: Lexer and Lang together, as         *)
(* submit_input (config/init.lua) puts them.  Lang also takes lines token  *)
(* by token, which reach the longest statements; here a line is typed in   *)
(* one of the two ways.                                                    *)
(***************************************************************************)
EXTENDS Lang

CONSTANTS
    Alphabet,   \* the characters typed
    MaxLine     \* bound: characters in a line

VARIABLE line   \* the characters, <<>> while a line is typed token by token

Lex == INSTANCE Lexer

\* No character is taken for a colour.
ASSUME FrontEndAssumption == Alphabet # {} /\ Alphabet \cap Lex!Marks = {} /\ MaxLine \in Nat

feVars == <<tokens, debug, error, done, line>>

(***************************************************************************)
(* From the lexer to the parser                                            *)
(***************************************************************************)
Text(chars) ==
    LET text[n \in 0 .. Len(chars)] ==
            IF n = 0 THEN "" ELSE text[n - 1] \o (IF chars[n] = "L" THEN "lua" ELSE chars[n])
    IN  text[Len(chars)]

\* Of texts as short as a line, the parser sees the same operators as the lexer.
TextFits(chars) ==
    /\ Text(chars) \in pipe_set <=> chars \in Lex!Pipes
    /\ Text(chars) \in redir_set <=> chars \in Lex!Redirs
    /\ Text(chars) \in fd_set <=> chars \in Lex!Descriptors
    /\ Text(chars) = "" <=> chars = <<>>

ASSUME TextAssumption ==
    /\ Text(<<"!">>) = Bang.val /\ Text(<<"L">>) = LuaWord.val
    /\ \A n \in 0 .. MaxLine : \A chars \in [1 .. n -> Alphabet] : TextFits(chars)

\* What Lua code says is not told apart.
Parsed(t) == IF t.type = "lua_code" THEN LuaCode ELSE Token(t.type, Text(t.val))

ParserTokens(chars) ==
    LET ts == Lex!tokenize(chars) IN [n \in DOMAIN ts |-> Parsed(ts[n])]

(***************************************************************************)
(* Steps                                                                   *)
(***************************************************************************)
FEInit == Init /\ Lex!Init

\* Characters are typed into a fresh shell: what earlier lines leave is Lang's concern.
Retyped ==
    /\ ~Exited /\ ~debug /\ error = 0 /\ (tokens = <<>> \/ line # <<>>)
    /\ tokens' = ParserTokens(line') /\ done' = NoLine
    /\ UNCHANGED <<debug, error>>

TypeCharacter(c) == Lex!Type(c) /\ Retyped

EraseCharacter == Lex!Erase /\ Retyped

\* Lang's own lines, and its Erase, which takes the line away whole.
TypeToken ==
    /\ line = <<>> /\ UNCHANGED line
    /\ TypeBang \/ TypeLua \/ Erase \/ \E t \in Typed : Type(t)

\* A line that failed stays.
SubmitLine == Submit /\ line' = IF done'.failed THEN line ELSE <<>>

FENext ==
    \/ TypeToken \/ SubmitLine
    \/ \E c \in Alphabet : TypeCharacter(c)
    \/ EraseCharacter

FESpec == FEInit /\ [][FENext]_feVars

(***************************************************************************)
(* Properties                                                              *)
(***************************************************************************)
\* Lexer's properties of every line typed by characters: no character is lost before the
\* parser, and the painted line is the one typed.
TokensTile == Lex!TokensTile
PaintedAsTyped == Lex!PaintedAsTyped
=============================================================================
