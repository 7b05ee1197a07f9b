-------------------------- MODULE FrontEnd_proofs --------------------------
(***************************************************************************)
(* Theorems about FrontEnd, for any tokens and any characters: what a line *)
(* that fails leaves behind, how the tokens of a line lie in it, how they  *)
(* are painted, and what the parser makes of them.                         *)
(***************************************************************************)
EXTENDS FrontEnd, FiniteSetTheorems, WellFoundedInduction, TLAPS

(***************************************************************************)
(* A line's steps                                                          *)
(***************************************************************************)
\* A check that fails, if there is one, comes first: nothing is done before it.
ChecksFirst(steps) ==
    /\ Len(steps) \in Nat
    /\ \/ \A k \in 1 .. Len(steps) : steps[k] # Fails
       \/ Len(steps) > 0 /\ steps[1] = Fails

LEMMA ResultLemma ==
    ASSUME NEW steps, ChecksFirst(steps)
    PROVE  Result(steps).failed => Result(steps).did = <<>>
<1> DEFINE Cut(k) == /\ k \in 1 .. Len(steps) + 1
                     /\ k <= Len(steps) => steps[k] = Fails
                     /\ \A m \in 1 .. k - 1 : steps[m] # Fails
           n == CHOOSE k \in 1 .. Len(steps) + 1 :
                  /\ k <= Len(steps) => steps[k] = Fails
                  /\ \A m \in 1 .. k - 1 : steps[m] # Fails
<1>1. Result(steps) = [failed |-> n <= Len(steps), did |-> SubSeq(steps, 1, n - 1)]
  BY DEF Result
<1>2. \E k : Cut(k)
  <2>1. CASE \A k \in 1 .. Len(steps) : steps[k] # Fails
    <3>1. Cut(Len(steps) + 1)
      BY <2>1 DEF ChecksFirst
    <3> QED BY <3>1
  <2>2. CASE Len(steps) > 0 /\ steps[1] = Fails
    <3>1. Cut(1)
      BY <2>2 DEF ChecksFirst
    <3> QED BY <3>1
  <2> QED BY <2>1, <2>2 DEF ChecksFirst
<1>3. Cut(n)
  BY <1>2
<1> HIDE DEF n
<1>4. ASSUME n <= Len(steps) PROVE n = 1
  BY <1>3, <1>4 DEF ChecksFirst
<1>5. SubSeq(steps, 1, 0) = <<>>
  OBVIOUS
<1>6. (Result(steps).failed <=> n <= Len(steps)) /\ Result(steps).did = SubSeq(steps, 1, n - 1)
  <2> DEFINE did == SubSeq(steps, 1, n - 1)
             stops == n <= Len(steps)
  <2>1. Result(steps) = [failed |-> stops, did |-> did]
    BY <1>1
  <2> HIDE DEF did, stops
  <2>2. Result(steps).failed = stops /\ Result(steps).did = did
    BY <2>1
  <2> QED BY <2>2 DEF did, stops
<1>7. ASSUME Result(steps).failed PROVE Result(steps).did = <<>>
  <2>1. n = 1
    BY <1>4, <1>6, <1>7
  <2>2. n - 1 = 0
    BY <2>1
  <2> QED BY <1>5, <1>6, <2>2
<1> QED BY <1>7

\* A command, a redirection and a pipeline check what they run before anything else.
LEMMA DoLemma ==
    ASSUME NEW what, NEW words, what # "fail"
    PROVE  Do(what, words) # Fails
  BY DEF Do, Fails

LEMMA StatementLemma ==
    ASSUME NEW nodes
    PROVE  ChecksFirst(run_statement(nodes))
<1>1. ASSUME NEW p PROVE ChecksFirst(run_cmd(p))
  BY DoLemma DEF run_cmd, ChecksFirst
<1>2. ASSUME NEW p, NEW redir, NEW file PROVE ChecksFirst(run_redirected(p, redir, file))
  BY DoLemma DEF run_redirected, External, OpenFile, ChecksFirst
<1>3. ChecksFirst(run_piped(nodes))
  BY DoLemma DEF run_piped, External, OpenFile, ChecksFirst
<1> QED BY <1>1, <1>2, <1>3 DEF run_statement

(***************************************************************************)
(* Lines                                                                   *)
(***************************************************************************)
LEMMA SubmitFailed ==
    ASSUME Submit
    PROVE  FailedRanOnlyCode'
<1>1. ASSUME NEW result, Ends(result), result.failed => result.did = <<>>
      PROVE  FailedRanOnlyCode'
  BY <1>1 DEF Ends, FailedRanOnlyCode
<1>2. CASE Submit_Nothing
  BY <1>1, <1>2 DEF Submit_Nothing
<1>3. CASE Submit_Refused
  BY <1>1, <1>3 DEF Submit_Refused, Refused
<1>4. CASE Submit_Lua
  <2>1. RunsCode(tokens) /\ done'.line = tokens /\ done'.did = <<RanCode>>
    BY <1>4 DEF Submit_Lua, Ends
  <2> QED BY <2>1 DEF FailedRanOnlyCode
<1>5. CASE Submit_Statement
  <2> DEFINE nodes == parse_statement(Command(tokens))
             result == Result(run_statement(nodes))
  <2>1. Ends(result)
    BY <1>5 DEF Submit_Statement
  <2>2. result.failed => result.did = <<>>
    BY StatementLemma, ResultLemma
  <2> HIDE DEF result
  <2> QED BY <1>1, <2>1, <2>2
<1> QED BY <1>2, <1>3, <1>4, <1>5 DEF Submit

LEMMA FailedStep ==
    ASSUME FailedRanOnlyCode, [FENext]_feVars
    PROVE  FailedRanOnlyCode'
<1>1. ASSUME done' = NoLine PROVE FailedRanOnlyCode'
  BY <1>1 DEF NoLine, FailedRanOnlyCode
<1>2. CASE TypeToken
  BY <1>1, <1>2 DEF TypeToken, TypeBang, TypeLua, Erase, Type
<1>3. CASE SubmitLine
  BY <1>3, SubmitFailed DEF SubmitLine
<1>4. CASE EraseCharacter \/ \E c \in Alphabet : TypeCharacter(c)
  BY <1>1, <1>4 DEF EraseCharacter, TypeCharacter, Retyped
<1>5. CASE UNCHANGED feVars
  BY <1>5 DEF feVars, FailedRanOnlyCode
<1> QED BY <1>2, <1>3, <1>4, <1>5 DEF FENext

\* No line that fails has done anything but run Lua code, whatever it is made of: all that is
\* checked is checked before a file is opened or a command is run.
THEOREM OnlyCodeRanIfFailed == FESpec => []FailedRanOnlyCode
<1>1. FEInit => FailedRanOnlyCode
  BY DEF FEInit, Init, NoLine, FailedRanOnlyCode
<1> QED BY <1>1, FailedStep, PTL DEF FESpec

LEMMA DebugStep ==
    ASSUME [FENext]_feVars, debug', ~debug
    PROVE  IF Debugs(tokens) THEN done'.failed \/ Command(tokens) = <<>> ELSE RunsCode(tokens)
<1>1. CASE SubmitLine
  <2>1. CASE Submit_Nothing
    BY <2>1 DEF Submit_Nothing
  <2>2. CASE Submit_Refused
    BY <2>2 DEF Submit_Refused, Ends, Refused
  <2>3. CASE Submit_Lua
    <3>1. PICK failed \in BOOLEAN :
            /\ debug' \in IF Debugs(tokens) /\ ~failed THEN {FALSE} ELSE BOOLEAN
            /\ Ends([failed |-> failed, did |-> <<RanCode>>])
      BY <2>3 DEF Submit_Lua
    <3>2. done'.failed = failed /\ RunsCode(tokens)
      BY <2>3, <3>1 DEF Submit_Lua, Ends
    <3>3. CASE Debugs(tokens)
      <4>1. failed
        BY <3>1, <3>3
      <4> QED BY <3>2, <3>3, <4>1
    <3> QED BY <3>2, <3>3
  <2>4. CASE Submit_Statement
    <3> DEFINE result == Result(run_statement(parse_statement(Command(tokens))))
    <3>1. Ends(result) /\ debug' = IF Debugs(tokens) THEN result.failed ELSE debug
      BY <2>4 DEF Submit_Statement
    <3> HIDE DEF result
    <3> QED BY <3>1 DEF Ends
  <2> QED BY <1>1, <2>1, <2>2, <2>3, <2>4 DEF SubmitLine, Submit
<1>2. CASE TypeToken
  BY <1>2 DEF TypeToken, TypeBang, TypeLua, Erase, Type
<1>3. CASE EraseCharacter \/ \E c \in Alphabet : TypeCharacter(c)
  BY <1>3 DEF EraseCharacter, TypeCharacter, Retyped
<1>4. CASE UNCHANGED feVars
  BY <1>4 DEF feVars
<1> QED BY <1>1, <1>2, <1>3, <1>4 DEF FENext

\* The debug level outlives its line only after a failure or a line of ! alone; no other
\* line turns it on, but Lua code.
THEOREM DebugStaysInLine == FESpec => DebugEndsWithLine
<1>1. [FENext]_feVars =>
        [(debug' /\ ~debug) =>
            IF Debugs(tokens) THEN done'.failed \/ Command(tokens) = <<>>
            ELSE RunsCode(tokens)]_vars
  BY DebugStep
<1> QED BY <1>1, PTL DEF FESpec, DebugEndsWithLine

-----------------------------------------------------------------------------
(***************************************************************************)
(* The lexer.  A line is lexed from its end: induction is on the number of *)
(* characters that follow.                                                 *)
(***************************************************************************)
LEMMA Least ==
    ASSUME NEW S \in SUBSET Nat, S # {}
    PROVE  \E i \in S : \A j \in S : i <= j
<1> DEFINE R == {ss \in Nat \X Nat : ss[1] < ss[2]}
<1>1. IsWellFoundedOn(R, Nat)
  BY NatLessThanWellFounded DEF OpToRel
<1>2. \E x \in S : \A y \in S : ~(<<y, x>> \in R)
  <2> HIDE DEF R
  <2> QED BY <1>1, WFMin
<1>3. PICK x \in S : \A y \in S : ~(<<y, x>> \in R)
  BY <1>2
<1>4. ASSUME NEW y \in S PROVE x <= y
  <2>1. <<y, x>> \in Nat \X Nat /\ ~(<<y, x>> \in R)
    BY <1>3
  <2>2. ~(y < x)
    BY <2>1
  <2> QED BY <2>2
<1> QED BY <1>4

\* The first place of a set, from i on, or the place after the end.
LEMMA FirstPlace ==
    ASSUME NEW N \in Nat, NEW i \in 1 .. N + 1, NEW B
    PROVE  \E j \in i .. N + 1 : (j <= N => j \in B) /\ \A k \in i .. j - 1 : k \notin B
<1> DEFINE S == {j \in i .. N + 1 : j \in B \/ j = N + 1}
<1>1. N + 1 \in S /\ S \in SUBSET Nat
  OBVIOUS
<1>2. PICK j \in S : \A k \in S : j <= k
  <2> HIDE DEF S
  <2> QED BY <1>1, Least
<1>3. j \in i .. N + 1 /\ (j <= N => j \in B)
  OBVIOUS
<1>4. ASSUME NEW k \in i .. j - 1, k \in B PROVE FALSE
  <2>1. k \in S
    BY <1>3, <1>4
  <2> QED BY <1>2, <1>3, <1>4, <2>1
<1> QED BY <1>3, <1>4

LEMMA WordEnd ==
    ASSUME NEW s, Len(s) \in Nat, NEW i \in 1 .. Len(s) + 1
    PROVE  LET j == Lex!EndOfWord(s, i)
           IN  /\ j \in i .. Len(s) + 1 /\ (j <= Len(s) => s[j] = Lex!Blank)
               /\ \A k \in i .. j - 1 : s[k] # Lex!Blank
<1> DEFINE B == {k \in i .. Len(s) : s[k] = Lex!Blank}
           Is(j) == /\ j <= Len(s) => s[j] = Lex!Blank
                    /\ \A k \in i .. j - 1 : ~(s[k] = Lex!Blank)
<1>1. PICK j \in i .. Len(s) + 1 : (j <= Len(s) => j \in B) /\ \A k \in i .. j - 1 : k \notin B
  BY FirstPlace
<1>2. Is(j)
  BY <1>1
<1>3. Lex!EndOfWord(s, i) = CHOOSE m \in i .. Len(s) + 1 : Is(m)
  BY DEF Lex!EndOfWord, Lex!From
<1> HIDE DEF Is
<1>4. LET m == Lex!EndOfWord(s, i) IN m \in i .. Len(s) + 1 /\ Is(m)
  BY <1>2, <1>3
<1> QED BY <1>4 DEF Is

LEMMA BlanksEnd ==
    ASSUME NEW s, Len(s) \in Nat, NEW i \in 1 .. Len(s) + 1
    PROVE  LET j == Lex!EndOfBlanks(s, i)
           IN  /\ j \in i .. Len(s) + 1
               /\ \A k \in i .. j - 1 : s[k] = Lex!Blank
<1> DEFINE B == {k \in i .. Len(s) : s[k] # Lex!Blank}
           Is(j) == /\ j <= Len(s) => s[j] # Lex!Blank
                    /\ \A k \in i .. j - 1 : ~(s[k] # Lex!Blank)
<1>1. PICK j \in i .. Len(s) + 1 : (j <= Len(s) => j \in B) /\ \A k \in i .. j - 1 : k \notin B
  BY FirstPlace
<1>2. Is(j)
  BY <1>1
<1>3. Lex!EndOfBlanks(s, i) = CHOOSE m \in i .. Len(s) + 1 : Is(m)
  BY DEF Lex!EndOfBlanks, Lex!From
<1> HIDE DEF Is
<1>4. LET m == Lex!EndOfBlanks(s, i) IN m \in i .. Len(s) + 1 /\ Is(m)
  BY <1>2, <1>3
<1> QED BY <1>4 DEF Is

LEMMA QuoteEnd ==
    ASSUME NEW s, Len(s) \in Nat, NEW i \in 1 .. Len(s)
    PROVE  LET j == Lex!Closing(s, i)
           IN  /\ j \in i + 1 .. Len(s) + 1 /\ (j <= Len(s) => s[j] = s[i])
               /\ \A k \in i + 1 .. j - 1 : s[k] # s[i]
<1> DEFINE B == {k \in i + 1 .. Len(s) : s[k] = s[i]}
           Is(j) == /\ j <= Len(s) => s[j] = s[i]
                    /\ \A k \in i + 1 .. j - 1 : ~(s[k] = s[i])
<1>1. PICK j \in i + 1 .. Len(s) + 1 :
         (j <= Len(s) => j \in B) /\ \A k \in i + 1 .. j - 1 : k \notin B
  <2>1. i + 1 \in 1 .. Len(s) + 1
    OBVIOUS
  <2> HIDE DEF B
  <2> QED BY <2>1, FirstPlace
<1>2. Is(j)
  BY <1>1
<1>3. Lex!Closing(s, i) = CHOOSE m \in i + 1 .. Len(s) + 1 : Is(m)
  BY DEF Lex!Closing, Lex!From
<1> HIDE DEF Is
<1>4. LET m == Lex!Closing(s, i) IN m \in i + 1 .. Len(s) + 1 /\ Is(m)
  BY <1>2, <1>3
<1> QED BY <1>4 DEF Is

\* The parts of a line.
LEMMA PartLemma ==
    ASSUME NEW T, NEW s \in Seq(T), NEW i \in 1 .. Len(s) + 1, NEW j \in i - 1 .. Len(s)
    PROVE  /\ SubSeq(s, i, j) \in Seq(T) /\ Len(SubSeq(s, i, j)) = j - i + 1
           /\ \A k \in 1 .. j - i + 1 : SubSeq(s, i, j)[k] = s[k + i - 1]
<1>1. SubSeq(s, i, j) \in Seq(T) /\ Len(SubSeq(s, i, j)) = IF i <= j THEN j - i + 1 ELSE 0
  OBVIOUS
<1>2. ASSUME NEW k \in 1 .. j - i + 1 PROVE SubSeq(s, i, j)[k] = s[k + i - 1]
  <2>1. i \in Nat /\ j \in Nat /\ i <= j
    BY <1>2
  <2> QED BY <1>2, <2>1
<1> QED BY <1>1, <1>2

LEMMA JoinLemma ==
    ASSUME NEW T, NEW s \in Seq(T), NEW t \in Seq(T)
    PROVE  /\ s \o t \in Seq(T) /\ Len(s \o t) = Len(s) + Len(t)
           /\ \A k \in 1 .. Len(s) : (s \o t)[k] = s[k]
           /\ \A k \in 1 .. Len(t) : (s \o t)[Len(s) + k] = t[k]
<1>1. s \o t \in Seq(T) /\ Len(s \o t) = Len(s) + Len(t)
  OBVIOUS
<1>2. ASSUME NEW k \in 1 .. Len(s) PROVE (s \o t)[k] = s[k]
  OBVIOUS
<1>3. ASSUME NEW k \in 1 .. Len(t) PROVE (s \o t)[Len(s) + k] = t[k]
  OBVIOUS
<1> QED BY <1>1, <1>2, <1>3

Types == {"pipe", "redir", "fd", "identifier", "string", "error", "debug", "str", "lua_code"}

Tok == [span : Nat \X Nat, val : Seq(Alphabet), type : Types]

\* A token is of its kind, and its text is a part of the line.
Good(t, i, j) ==
    t \in Tok /\ t.span[1] = i /\ t.span[2] = j /\ Lex!Fits(t)

LEMMA QuotedGood ==
    ASSUME line \in Seq(Alphabet), NEW i \in 1 .. Len(line), line[i] \in Lex!Quotes
    PROVE  \E j \in i .. Len(line) : Good(Lex!Quoted(line, i), i, j)
<1> DEFINE j == Lex!Closing(line, i)
           t == Lex!Quoted(line, i)
<1>1. Len(line) \in Nat
  OBVIOUS
<1>2. /\ j \in i + 1 .. Len(line) + 1 /\ (j <= Len(line) => line[j] = line[i])
      /\ \A k \in i + 1 .. j - 1 : line[k] # line[i]
  BY <1>1, QuoteEnd
<1>3. CASE j > Len(line)
  <2> DEFINE text == SubSeq(line, i, Len(line))
             whole == Len(line)
  <2>1. t = [span |-> <<i, whole>>, val |-> text, type |-> "error"]
    BY <1>3 DEF Lex!Quoted, Lex!Token
  <2>2. /\ text \in Seq(Alphabet) /\ Len(text) = whole - i + 1
        /\ \A k \in 1 .. whole - i + 1 : text[k] = line[k + i - 1]
    BY <1>1, PartLemma
  <2>3. text[1] = line[i]
    BY <1>1, <2>2
  <2>4. ASSUME NEW k \in 2 .. Len(text) PROVE text[k] # text[1]
    <3>1. k + i - 1 \in i + 1 .. j - 1 /\ k \in 1 .. whole - i + 1
      BY <1>1, <1>2, <1>3, <2>2
    <3> QED BY <1>2, <2>2, <2>3, <3>1
  <2> HIDE DEF text, t, whole
  <2>5. t \in Tok /\ t.span[1] = i /\ t.span[2] = whole /\ t.val = text /\ t.type = "error"
    BY <1>1, <2>1, <2>2 DEF Tok, Types, whole
  <2>6. Lex!Text(t) = text
    BY <2>5 DEF Lex!Text, text, whole
  <2>7. Lex!Fits(t)
    BY <2>3, <2>4, <2>5, <2>6 DEF Lex!Fits, whole
  <2> QED BY <1>1, <2>5, <2>7 DEF Good, t, whole
<1>4. CASE j <= Len(line)
  <2> DEFINE val == SubSeq(line, i + 1, j - 1)
             text == SubSeq(line, i, j)
             q == line[i]
  <2>1. t = [span |-> <<i, j>>, val |-> val, type |-> "string"]
    BY <1>1, <1>2, <1>4 DEF Lex!Quoted, Lex!Token
  <2>2. /\ val \in Seq(Alphabet) /\ Len(val) = j - i - 1
        /\ \A k \in 1 .. j - i - 1 : val[k] = line[k + i]
    <3>1. i + 1 \in 1 .. Len(line) + 1 /\ j - 1 \in (i + 1) - 1 .. Len(line)
      BY <1>1, <1>2, <1>4
    <3>2. /\ val \in Seq(Alphabet) /\ Len(val) = (j - 1) - (i + 1) + 1
          /\ \A k \in 1 .. (j - 1) - (i + 1) + 1 : val[k] = line[k + (i + 1) - 1]
      BY <3>1, PartLemma
    <3> HIDE DEF val, j
    <3> QED BY <1>2, <3>2
  <2>3. /\ text \in Seq(Alphabet) /\ Len(text) = j - i + 1
        /\ \A k \in 1 .. j - i + 1 : text[k] = line[k + i - 1]
    BY <1>1, <1>2, <1>4, PartLemma
  <2> HIDE DEF val, text, t, j
  <2>4. text[1] = q /\ text[j - i + 1] = q
    BY <1>1, <1>2, <1>4, <2>3
  <2>5. q \in Alphabet
    BY <1>1
  <2>6. text = <<q>> \o val \o <<q>>
    <3> DEFINE w == <<q>> \o val
               x == w \o <<q>>
    <3>1. /\ w \in Seq(Alphabet) /\ Len(w) = Len(val) + 1 /\ w[1] = q
          /\ \A k \in 1 .. Len(val) : w[k + 1] = val[k]
      <4> HIDE DEF q
      <4> QED BY <2>2, <2>5
    <3> HIDE DEF w
    <3>2. /\ x \in Seq(Alphabet) /\ Len(x) = Len(w) + 1 /\ x[Len(w) + 1] = q
          /\ \A k \in 1 .. Len(w) : x[k] = w[k]
      <4> HIDE DEF q
      <4> QED BY <2>5, <3>1
    <3> HIDE DEF x
    <3>3. Len(x) = Len(text)
      BY <1>2, <2>2, <2>3, <3>1, <3>2
    <3>4. ASSUME NEW k \in 1 .. Len(text) PROVE x[k] = text[k]
      <4>1. CASE k = 1
        BY <2>2, <2>4, <3>1, <3>2, <4>1
      <4>2. CASE k = Len(text)
        BY <1>2, <2>2, <2>3, <2>4, <3>1, <3>2, <4>2
      <4>3. CASE k # 1 /\ k # Len(text)
        <5>1. k - 1 \in 1 .. Len(val) /\ k = (k - 1) + 1 /\ k \in 1 .. Len(w)
          BY <1>2, <2>2, <2>3, <3>1, <4>3
        <5>2. x[k] = val[k - 1]
          BY <3>1, <3>2, <5>1
        <5>3. val[k - 1] = line[(k - 1) + i]
          BY <2>2, <5>1
        <5>4. text[k] = line[k + i - 1]
          BY <2>3, <3>4
        <5> QED BY <5>1, <5>2, <5>3, <5>4
      <4> QED BY <4>1, <4>2, <4>3
    <3>5. x = text
      BY <2>3, <3>2, <3>3, <3>4
    <3> QED BY <3>5 DEF x, w
  <2>7. ASSUME NEW k \in DOMAIN val PROVE val[k] # q
    <3>1. k \in 1 .. j - i - 1 /\ k + i \in i + 1 .. j - 1
      BY <1>2, <2>2, <2>7
    <3> QED BY <1>2, <2>2, <3>1
  <2>8. t \in Tok /\ t.span[1] = i /\ t.span[2] = j /\ t.val = val /\ t.type = "string"
    BY <1>1, <1>2, <2>1, <2>2 DEF Tok, Types
  <2>9. Lex!Text(t) = text
    BY <2>8 DEF Lex!Text, text
  <2>10. Lex!Fits(t)
    BY <2>4, <2>6, <2>7, <2>8, <2>9 DEF Lex!Fits
  <2> QED BY <1>1, <1>2, <1>4, <2>8, <2>10 DEF Good, t
<1> QED BY <1>1, <1>2, <1>3, <1>4

LEMMA WordGood ==
    ASSUME line \in Seq(Alphabet), NEW i \in 1 .. Len(line),
           line[i] # Lex!Blank, line[i] \notin Lex!Quotes
    PROVE  \E j \in i .. Len(line) : Good(Lex!Word(line, i), i, j)
<1> DEFINE e == Lex!EndOfWord(line, i)
           j == e - 1
           text == SubSeq(line, i, j)
           type == Lex!WordType(text)
           t == Lex!Word(line, i)
<1>1. Len(line) \in Nat
  OBVIOUS
<1>2. /\ e \in i .. Len(line) + 1 /\ (e <= Len(line) => line[e] = Lex!Blank)
      /\ \A k \in i .. e - 1 : line[k] # Lex!Blank
  BY <1>1, WordEnd
<1>3. t = [span |-> <<i, j>>, val |-> text, type |-> type]
  BY DEF Lex!Word, Lex!Token
<1>4. type \in {"pipe", "redir", "fd", "identifier"}
  BY DEF Lex!WordType
<1> HIDE DEF e, type, t
<1>5. e # i
  BY <1>2
<1>6. j \in i .. Len(line) /\ e = j + 1
  BY <1>1, <1>2, <1>5
<1>7. /\ text \in Seq(Alphabet) /\ Len(text) = j - i + 1
      /\ \A k \in 1 .. j - i + 1 : text[k] = line[k + i - 1]
  BY <1>1, <1>6, PartLemma
<1> HIDE DEF j, text
<1>8. text # <<>> /\ text[1] \notin Lex!Quotes
  <2>1. Len(text) # 0 /\ text[1] = line[i]
    BY <1>6, <1>7
  <2> QED BY <2>1
<1>9. ASSUME NEW k \in DOMAIN text PROVE text[k] # Lex!Blank
  <2>1. k \in 1 .. j - i + 1 /\ k + i - 1 \in i .. e - 1
    BY <1>6, <1>7, <1>9
  <2> QED BY <1>2, <1>7, <2>1
<1>10. t \in Tok /\ t.span[1] = i /\ t.span[2] = j /\ t.val = text /\ t.type = type
  BY <1>1, <1>3, <1>4, <1>6, <1>7 DEF Tok, Types
<1>11. Lex!Text(t) = text
  BY <1>10 DEF Lex!Text, text
<1>12. j < Len(line) => line[j + 1] = Lex!Blank
  BY <1>1, <1>2, <1>6
<1>13. Lex!Fits(t)
  BY <1>4, <1>8, <1>9, <1>10, <1>11, <1>12 DEF Lex!Fits
<1> QED BY <1>6, <1>10, <1>13 DEF Good, t

(***************************************************************************)
(* The tokens of a line                                                    *)
(***************************************************************************)
\* The token at a place that is not blank.
At(i) == IF line[i] \in Lex!Quotes THEN Lex!Quoted(line, i) ELSE Lex!Word(line, i)

LEMMA AtGood ==
    ASSUME line \in Seq(Alphabet), NEW i \in 1 .. Len(line), line[i] # Lex!Blank
    PROVE  \E j \in i .. Len(line) : Good(At(i), i, j)
  BY QuotedGood, WordGood DEF At

\* A place where a token begins, or a blank, sends the lexer to one behind it.
Behind(i) == IF line[i] = Lex!Blank THEN i + 1 ELSE At(i).span[2] + 1

LEMMA BehindLemma ==
    ASSUME line \in Seq(Alphabet), NEW i \in 1 .. Len(line)
    PROVE  Behind(i) \in i + 1 .. Len(line) + 1
<1>1. CASE line[i] = Lex!Blank
  BY <1>1 DEF Behind
<1>2. CASE line[i] # Lex!Blank
  <2>1. PICK j \in i .. Len(line) : Good(At(i), i, j)
    BY <1>2, AtGood
  <2> QED BY <1>2, <2>1 DEF Behind, Good
<1> QED BY <1>1, <1>2

Handed(f, i) == IF line[i] = Lex!Blank THEN f[Behind(i)] ELSE <<At(i)>> \o f[Behind(i)]

\* What the lexer says of the rest of the line, from every place of it.
Lexing(f, from) ==
    f[Len(line) + 1] = <<>> /\ \A i \in from .. Len(line) : f[i] = Handed(f, i)

\* What is handed on from n - 1 to n, from 0 on, holds of every number up to N.
LEMMA UpTo ==
    ASSUME NEW N \in Nat, NEW S, 0 \in S, \A n \in 1 .. N : (\A m \in 0 .. n - 1 : m \in S) => n \in S
    PROVE  \A n \in 0 .. N : n \in S
<1> DEFINE Bad == {n \in 0 .. N : n \notin S}
<1> SUFFICES ASSUME Bad # {} PROVE FALSE
  OBVIOUS
<1>0. Bad \in SUBSET Nat
  OBVIOUS
<1>1. PICK i \in Bad : \A j \in Bad : i <= j
  <2> HIDE DEF Bad
  <2> QED BY <1>0, Least
<1>2. i \in 1 .. N
  BY <1>1
<1>3. ASSUME NEW m \in 0 .. i - 1 PROVE m \in S
  <2>1. m \notin Bad
    BY <1>1, <1>2
  <2> QED BY <1>2, <2>1
<1> QED BY <1>1, <1>2, <1>3

LEMMA LexingExists ==
    ASSUME line \in Seq(Alphabet), NEW from \in 1 .. Len(line) + 1
    PROVE  \E f : f = [k \in from .. Len(line) + 1 |-> f[k]] /\ Lexing(f, from)
<1> DEFINE L == Len(line)
           S == {n \in 0 .. L : \E f : f = [k \in L + 1 - n .. L + 1 |-> f[k]] /\ Lexing(f, L + 1 - n)}
<1>0. L \in Nat
  OBVIOUS
<1>1. 0 \in S
  <2> DEFINE f == [i \in L + 1 .. L + 1 |-> <<>>]
  <2>1. L + 1 - 0 = L + 1 /\ L + 1 \in L + 1 .. L + 1 /\ L + 1 .. L = {}
    BY <1>0
  <2>3. f = [k \in L + 1 - 0 .. L + 1 |-> f[k]] /\ f[L + 1] = <<>>
    BY <2>1
  <2> HIDE DEF f
  <2>2. Lexing(f, L + 1 - 0)
    BY <2>1, <2>3 DEF Lexing
  <2> QED BY <1>0, <2>2, <2>3
<1>2. ASSUME NEW n \in 1 .. L, \A m \in 0 .. n - 1 : m \in S PROVE n \in S
  <2> DEFINE i == L + 1 - n
  <2>1. n - 1 \in S /\ L + 1 - (n - 1) = i + 1 /\ i \in 1 .. L
    BY <1>0, <1>2
  <2>2. PICK f : Lexing(f, i + 1)
    BY <2>1
  <2> HIDE DEF i
  <2> DEFINE v == Handed(f, i)
             g == [k \in i .. L + 1 |-> IF k = i THEN v ELSE f[k]]
  <2>3. g[i] = v /\ \A k \in i + 1 .. L + 1 : g[k] = f[k]
    BY <1>0, <2>1
  <2>10. g = [k \in i .. L + 1 |-> g[k]]
    OBVIOUS
  <2>4. Behind(i) \in i + 1 .. L + 1
    BY <2>1, BehindLemma
  <2>5. g[i] = Handed(g, i)
    <3> HIDE DEF g
    <3>1. g[Behind(i)] = f[Behind(i)]
      BY <2>3, <2>4
    <3> QED BY <2>3, <3>1 DEF Handed
  <2> HIDE DEF g, v
  <2>6. g[L + 1] = <<>>
    <3>1. f[L + 1] = <<>>
      BY <2>2 DEF Lexing
    <3>2. L + 1 \in i + 1 .. L + 1
      BY <1>0, <2>1
    <3>3. g[L + 1] = f[L + 1]
      BY <2>3, <3>2
    <3> QED BY <3>1, <3>3
  <2>7. ASSUME NEW k \in i + 1 .. L PROVE g[k] = Handed(g, k)
    <3>1. Behind(k) \in k + 1 .. L + 1
      BY <1>0, <2>1, BehindLemma
    <3>2. g[Behind(k)] = f[Behind(k)] /\ g[k] = f[k]
      BY <1>0, <2>1, <2>3, <3>1
    <3>3. f[k] = Handed(f, k)
      BY <2>2 DEF Lexing
    <3> QED BY <3>2, <3>3 DEF Handed
  <2>8. ASSUME NEW k \in i .. L PROVE g[k] = Handed(g, k)
    <3>1. k = i \/ k \in i + 1 .. L
      BY <1>0, <2>1
    <3> QED BY <2>5, <2>7, <3>1
  <2>9. Lexing(g, i)
    BY <2>6, <2>8 DEF Lexing
  <2> QED BY <1>0, <2>9, <2>10 DEF i
<1>3. \A n \in 1 .. L : (\A m \in 0 .. n - 1 : m \in S) => n \in S
  BY <1>2
<1> HIDE DEF S
<1>4. \A n \in 0 .. L : n \in S
  BY <1>0, <1>1, <1>3, UpTo
<1>5. L + 1 - from \in S
  BY <1>0, <1>4
<1>6. PICK f : f = [k \in L + 1 - (L + 1 - from) .. L + 1 |-> f[k]]
                     /\ Lexing(f, L + 1 - (L + 1 - from))
  BY <1>5 DEF S
<1>7. L + 1 - (L + 1 - from) = from
  BY <1>0
<1> QED BY <1>6, <1>7

\* So the lexer's function is one.
LEMMA LexedLemma ==
    ASSUME line \in Seq(Alphabet), NEW from \in 1 .. Len(line) + 1
    PROVE  \E f : Lexing(f, from) /\ Lex!Lexed(line, from) = f[from]
<1> DEFINE L == Len(line)
           Rule(g) == [i \in from .. L + 1 |->
                        IF i > L THEN <<>>
                        ELSE IF line[i] = Lex!Blank THEN g[i + 1]
                        ELSE LET t == IF line[i] \in Lex!Quotes THEN Lex!Quoted(line, i)
                                      ELSE Lex!Word(line, i)
                             IN  <<t>> \o g[t.span[2] + 1]]
           lexed == CHOOSE g : g = Rule(g)
<1>0. L \in Nat
  OBVIOUS
<1>1. PICK f : f = [k \in from .. L + 1 |-> f[k]] /\ Lexing(f, from)
  BY LexingExists
<1> DEFINE F(g) == [i \in from .. L + 1 |-> IF i > L THEN <<>> ELSE Handed(g, i)]
<1>2. \A g : Rule(g) = F(g)
  BY DEF Behind, At, Handed
<1>3. f = Rule(f)
  <2>1. ASSUME NEW i \in from .. L + 1 PROVE f[i] = IF i > L THEN <<>> ELSE Handed(f, i)
    <3>1. CASE i = L + 1
      BY <1>0, <1>1, <3>1 DEF Lexing
    <3>2. CASE i \in from .. L
      <4>1. f[i] = Handed(f, i)
        BY <1>1, <3>2 DEF Lexing
      <4> QED BY <1>0, <3>2, <4>1
    <3> QED BY <1>0, <3>1, <3>2
  <2>2. f = F(f)
    BY <1>1, <2>1
  <2> HIDE DEF F, Rule
  <2> QED BY <1>2, <2>2
<1>4. lexed = Rule(lexed)
  <2> HIDE DEF Rule
  <2> QED BY <1>3
<1>5. Lex!Lexed(line, from) = lexed[from]
  BY DEF Lex!Lexed
<1>6. lexed = F(lexed)
  <2> HIDE DEF F, Rule, lexed
  <2> QED BY <1>2, <1>4
<1> HIDE DEF lexed
<1>7. Lexing(lexed, from)
  <2>1. lexed[L + 1] = <<>>
    BY <1>0, <1>6
  <2>2. ASSUME NEW i \in from .. L PROVE lexed[i] = Handed(lexed, i)
    <3>1. i \in from .. L + 1 /\ ~(i > L)
      BY <1>0
    <3>2. lexed[i] = IF i > L THEN <<>> ELSE Handed(lexed, i)
      BY <1>6, <3>1
    <3> QED BY <3>1, <3>2
  <2> QED BY <2>1, <2>2 DEF Lexing
<1> QED BY <1>5, <1>7

\* A token lies in the line, and one that is painted is not empty.
Lies(t) ==
    /\ t.span[1] <= t.span[2] + 1 /\ t.span[2] <= Len(line)
    /\ t.type \in Lex!Coloured => t.span[1] <= t.span[2]

\* Tokens that cover the line from a place on.
Tiled(ts, a) ==
    /\ ts \in Seq(Tok)
    /\ \A n \in 1 .. Len(ts) : Lex!Fits(ts[n]) /\ a <= ts[n].span[1] /\ Lies(ts[n])
    /\ \A n \in 1 .. Len(ts) - 1 : ts[n].span[2] < ts[n + 1].span[1]
    /\ \A i \in a .. Len(line) :
         line[i] = Lex!Blank \/ \E n \in 1 .. Len(ts) : Lex!Within(ts[n], i)

LEMMA SpanLemma ==
    ASSUME NEW ts, NEW a, Tiled(ts, a), NEW n \in 1 .. Len(ts)
    PROVE  ts[n].span[1] \in Nat
<1>1. ts[n] \in Tok
  BY DEF Tiled
<1> QED BY <1>1 DEF Tok

\* A token before others, and a blank.
LEMMA ConsTiled ==
    ASSUME line \in Seq(Alphabet), NEW a \in Nat, NEW b \in Nat, a <= b, b <= Len(line),
           NEW ts, Tiled(ts, b + 1), NEW t, Good(t, a, b)
    PROVE  Tiled(<<t>> \o ts, a)
<1> DEFINE us == <<t>> \o ts
<1>0. Len(line) \in Nat /\ Len(ts) \in Nat /\ ts \in Seq(Tok) /\ t \in Tok
  BY DEF Tiled, Good
<1>1. /\ us \in Seq(Tok) /\ Len(us) = Len(ts) + 1 /\ us[1] = t
      /\ \A n \in 1 .. Len(ts) : us[n + 1] = ts[n]
  BY <1>0
<1> HIDE DEF us
<1>2. /\ t.span[1] = a /\ t.span[2] = b /\ Lex!Fits(t)
      /\ \A n \in 1 .. Len(ts) : Lex!Fits(ts[n]) /\ b + 1 <= ts[n].span[1] /\ ts[n].span[1] \in Nat
      /\ \A n \in 1 .. Len(ts) - 1 : ts[n].span[2] < ts[n + 1].span[1]
      /\ \A n \in 1 .. Len(ts) : Lies(ts[n])
  BY SpanLemma DEF Good, Tiled
<1>l. Lies(t)
  BY <1>0, <1>2 DEF Lies
<1>3. ASSUME NEW n \in 1 .. Len(us) PROVE Lex!Fits(us[n]) /\ a <= us[n].span[1] /\ Lies(us[n])
  <2>1. CASE n = 1
    BY <1>1, <1>2, <1>l, <2>1
  <2>2. CASE n # 1
    <3>1. n - 1 \in 1 .. Len(ts) /\ n = (n - 1) + 1
      BY <1>0, <1>1, <2>2
    <3>2. us[n] = ts[n - 1]
      BY <1>1, <3>1
    <3>3. Lex!Fits(ts[n - 1]) /\ Lies(ts[n - 1])
      BY <1>2, <3>1
    <3>4. b + 1 <= ts[n - 1].span[1] /\ ts[n - 1].span[1] \in Nat
      BY <1>2, <3>1
    <3> QED BY <3>2, <3>3, <3>4
  <2> QED BY <2>1, <2>2
<1>4. ASSUME NEW n \in 1 .. Len(us) - 1 PROVE us[n].span[2] < us[n + 1].span[1]
  <2>1. n \in 1 .. Len(ts) /\ us[n + 1] = ts[n]
    BY <1>0, <1>1
  <2>2. CASE n = 1
    BY <1>1, <1>2, <2>1, <2>2
  <2>3. CASE n # 1
    <3>1. n - 1 \in 1 .. Len(ts) - 1 /\ n - 1 \in 1 .. Len(ts) /\ n = (n - 1) + 1
      BY <1>0, <1>1, <2>3
    <3>2. us[n] = ts[n - 1]
      BY <1>1, <3>1
    <3>3. ts[n - 1].span[2] < ts[(n - 1) + 1].span[1]
      BY <1>2, <3>1
    <3> QED BY <2>1, <3>1, <3>2, <3>3
  <2> QED BY <2>2, <2>3
<1>5. ASSUME NEW i \in a .. Len(line), line[i] # Lex!Blank
      PROVE  \E n \in 1 .. Len(us) : Lex!Within(us[n], i)
  <2>1. CASE i <= b
    <3>1. Lex!Within(us[1], i) /\ 1 \in 1 .. Len(us)
      BY <1>0, <1>1, <1>2, <2>1 DEF Lex!Within
    <3> QED BY <3>1
  <2>2. CASE i > b
    <3>1. i \in b + 1 .. Len(line)
      BY <1>0, <2>2
    <3>2. PICK n \in 1 .. Len(ts) : Lex!Within(ts[n], i)
      BY <1>5, <3>1 DEF Tiled
    <3>3. n + 1 \in 1 .. Len(us) /\ us[n + 1] = ts[n]
      BY <1>0, <1>1
    <3> QED BY <3>2, <3>3
  <2> QED BY <2>1, <2>2
<1>6. Tiled(us, a)
  BY <1>1, <1>3, <1>4, <1>5 DEF Tiled
<1> QED BY <1>6 DEF us

LEMMA BlankTiled ==
    ASSUME line \in Seq(Alphabet), NEW a \in Nat, NEW b \in Nat, a <= b,
           \A i \in a .. b - 1 : line[i] = Lex!Blank, NEW ts, Tiled(ts, b)
    PROVE  Tiled(ts, a)
<1>0. Len(line) \in Nat
  OBVIOUS
<1>1. /\ ts \in Seq(Tok)
      /\ \A n \in 1 .. Len(ts) : Lex!Fits(ts[n]) /\ b <= ts[n].span[1] /\ ts[n].span[1] \in Nat
      /\ \A n \in 1 .. Len(ts) : Lies(ts[n])
      /\ \A n \in 1 .. Len(ts) - 1 : ts[n].span[2] < ts[n + 1].span[1]
  BY SpanLemma DEF Tiled
<1>2. ASSUME NEW n \in 1 .. Len(ts) PROVE Lex!Fits(ts[n]) /\ a <= ts[n].span[1] /\ Lies(ts[n])
  <2>1. b <= ts[n].span[1] /\ ts[n].span[1] \in Nat
    BY <1>1
  <2> QED BY <1>1, <2>1
<1>3. ASSUME NEW i \in a .. Len(line)
      PROVE  line[i] = Lex!Blank \/ \E n \in 1 .. Len(ts) : Lex!Within(ts[n], i)
  <2>1. i \in a .. b - 1 \/ i \in b .. Len(line)
    BY <1>0
  <2> QED BY <2>1 DEF Tiled
<1> QED BY <1>1, <1>2, <1>3 DEF Tiled

LEMMA EndTiled == ASSUME line \in Seq(Alphabet) PROVE Tiled(<<>>, Len(line) + 1)
<1>1. Len(line) \in Nat /\ Len(line) + 1 .. Len(line) = {}
  OBVIOUS
<1>2. <<>> \in Seq(Tok) /\ Len(<<>>) = 0 /\ 1 .. 0 = {} /\ 1 .. 0 - 1 = {}
  OBVIOUS
<1> QED BY <1>1, <1>2 DEF Tiled

LEMMA LexedTiled ==
    ASSUME line \in Seq(Alphabet), NEW from \in 1 .. Len(line) + 1
    PROVE  Tiled(Lex!Lexed(line, from), from)
<1> DEFINE L == Len(line)
<1>0. L \in Nat
  OBVIOUS
<1>1. PICK f : Lexing(f, from) /\ Lex!Lexed(line, from) = f[from]
  BY LexedLemma
<1> DEFINE S == {n \in 0 .. L + 1 - from : Tiled(f[L + 1 - n], L + 1 - n)}
<1>2. 0 \in S
  <2>1. f[L + 1] = <<>> /\ L + 1 - 0 = L + 1 /\ 0 \in 0 .. L + 1 - from
    BY <1>0, <1>1 DEF Lexing
  <2>2. Tiled(f[L + 1], L + 1)
    BY <2>1, EndTiled
  <2> QED BY <2>1, <2>2
<1>3. ASSUME NEW n \in 1 .. L + 1 - from, \A m \in 0 .. n - 1 : m \in S PROVE n \in S
  <2> DEFINE i == L + 1 - n
             b == Behind(i)
  <2>1. i \in 1 .. L /\ i \in from .. L /\ n \in 0 .. L + 1 - from
    BY <1>0
  <2>2. b \in i + 1 .. L + 1
    BY <2>1, BehindLemma
  <2>3. L + 1 - b \in 0 .. n - 1 /\ L + 1 - (L + 1 - b) = b
    <3> HIDE DEF b
    <3> QED BY <1>0, <2>1, <2>2
  <2>4. Tiled(f[b], b)
    <3>1. L + 1 - b \in S
      BY <1>3, <2>3
    <3>2. Tiled(f[L + 1 - (L + 1 - b)], L + 1 - (L + 1 - b))
      BY <3>1
    <3> HIDE DEF b, L
    <3> QED BY <2>3, <3>2
  <2>5. f[i] = Handed(f, i)
    BY <1>1, <2>1 DEF Lexing
  <2> HIDE DEF i
  <2>6. CASE line[i] = Lex!Blank
    <3>1. f[i] = f[b] /\ b = i + 1
      BY <2>5, <2>6 DEF Handed, Behind
    <3>2. i \in Nat /\ b \in Nat /\ i <= b /\ \A k \in i .. b - 1 : line[k] = Lex!Blank
      BY <2>1, <2>6, <3>1
    <3> HIDE DEF b
    <3>3. Tiled(f[b], i)
      BY <2>4, <3>2, BlankTiled
    <3> QED BY <2>1, <3>1, <3>3 DEF i
  <2>7. CASE line[i] # Lex!Blank
    <3>1. PICK j \in i .. L : Good(At(i), i, j)
      BY <2>1, <2>7, AtGood
    <3>2. b = j + 1
      BY <2>7, <3>1 DEF Behind, Good
    <3>3. f[i] = <<At(i)>> \o f[b]
      BY <2>5, <2>7 DEF Handed
    <3> HIDE DEF b
    <3>4. Tiled(f[b], j + 1)
      BY <2>4, <3>2
    <3>5. i \in Nat /\ j \in Nat /\ i <= j /\ j <= Len(line)
      BY <1>0, <2>1
    <3>6. Tiled(<<At(i)>> \o f[b], i)
      BY <3>1, <3>4, <3>5, ConsTiled
    <3> QED BY <2>1, <3>3, <3>6 DEF i
  <2> QED BY <2>6, <2>7
<1>4. \A n \in 1 .. L + 1 - from : (\A m \in 0 .. n - 1 : m \in S) => n \in S
  BY <1>3
<1> HIDE DEF S
<1>5. L + 1 - from \in S
  <2>1. L + 1 - from \in Nat
    BY <1>0
  <2>2. \A n \in 0 .. L + 1 - from : n \in S
    BY <1>2, <1>4, <2>1, UpTo
  <2> QED BY <2>1, <2>2
<1>6. L + 1 - (L + 1 - from) = from
  BY <1>0
<1> QED BY <1>1, <1>5, <1>6 DEF S

\* A word of one character, as the exclamation mark and the start of code are.
LEMMA MarkGood ==
    ASSUME line \in Seq(Alphabet), NEW i \in 1 .. Len(line), NEW type \in {"debug", "str"}
    PROVE  Good(Lex!Token(i, i, <<line[i]>>, type), i, i)
<1> DEFINE val == <<line[i]>>
           t == Lex!Token(i, i, val, type)
           text == SubSeq(line, i, i)
<1>1. /\ text \in Seq(Alphabet) /\ Len(text) = i - i + 1
      /\ \A k \in 1 .. i - i + 1 : text[k] = line[k + i - 1]
  <2>1. i \in 1 .. Len(line) + 1 /\ i \in i - 1 .. Len(line)
    OBVIOUS
  <2> QED BY <2>1, PartLemma
<1>2. i - i + 1 = 1 /\ 1 + i - 1 = i /\ line[i] \in Alphabet
  OBVIOUS
<1>3. val \in Seq(Alphabet) /\ Len(val) = 1 /\ val[1] = line[i]
  BY <1>2
<1> HIDE DEF text, val
<1>4. text = val
  BY <1>1, <1>2, <1>3
<1>5. t = [span |-> <<i, i>>, val |-> val, type |-> type]
  BY DEF Lex!Token
<1> HIDE DEF t
<1>6. t \in Tok /\ t.span[1] = i /\ t.span[2] = i /\ t.val = val /\ t.type = type
  BY <1>3, <1>5 DEF Tok, Types
<1>7. Lex!Text(t) = val
  BY <1>4, <1>6 DEF Lex!Text, text
<1>8. Lex!Fits(t)
  BY <1>6, <1>7 DEF Lex!Fits
<1> QED BY <1>6, <1>8 DEF Good, t, val

LEMMA CodeTiled ==
    ASSUME line \in Seq(Alphabet), NEW i \in 1 .. Len(line), Lex!IsLua(line, i)
    PROVE  Tiled(Lex!LuaTokens(line, i), i)
<1> DEFINE L == Len(line)
           j == Lex!EndOfBlanks(line, i + 1)
           val == SubSeq(line, j, L)
           t == Lex!Token(i, i, <<line[i]>>, "str")
           u == Lex!Token(j, L, val, "lua_code")
           us == <<u>>
<1>0. L \in Nat /\ line[i] = "L" /\ i + 1 \in 1 .. L + 1
  BY DEF Lex!IsLua
<1>1. j \in i + 1 .. L + 1 /\ \A k \in i + 1 .. j - 1 : line[k] = Lex!Blank
  BY <1>0, BlanksEnd
<1>2. Lex!LuaTokens(line, i) = <<t, u>>
  BY <1>0 DEF Lex!LuaTokens
<1>3. Good(t, i, i)
  BY MarkGood
<1> HIDE DEF j
<1>4. val \in Seq(Alphabet)
  <2>1. j \in 1 .. L + 1 /\ L \in j - 1 .. L
    BY <1>0, <1>1
  <2> QED BY <2>1, PartLemma
<1>5. u = [span |-> <<j, L>>, val |-> val, type |-> "lua_code"]
  BY DEF Lex!Token
<1> HIDE DEF u, val, t
<1>6. u \in Tok /\ u.span[1] = j /\ u.span[2] = L /\ u.val = val /\ u.type = "lua_code"
  BY <1>0, <1>1, <1>4, <1>5 DEF Tok, Types
<1>7. Lex!Text(u) = val
  BY <1>6 DEF Lex!Text, val
<1>8. Lex!Fits(u)
  BY <1>6, <1>7 DEF Lex!Fits
<1>9. Tiled(us, i + 1)
  <2>1. us \in Seq(Tok) /\ Len(us) = 1 /\ us[1] = u
    BY <1>6
  <2> HIDE DEF us
  <2>2. ASSUME NEW k \in i + 1 .. L, line[k] # Lex!Blank PROVE Lex!Within(us[1], k)
    <3>1. j <= k /\ k <= L
      BY <1>0, <1>1, <2>2
    <3> QED BY <1>6, <2>1, <3>1 DEF Lex!Within
  <2>3. i + 1 <= us[1].span[1]
    BY <1>1, <1>6, <2>1
  <2>4. 1 .. Len(us) = {1} /\ 1 .. Len(us) - 1 = {}
    BY <2>1
  <2>5. Lies(u)
    BY <1>0, <1>1, <1>6 DEF Lies, Lex!Coloured
  <2> QED BY <1>8, <2>1, <2>2, <2>3, <2>4, <2>5 DEF Tiled
<1>10. Tiled(<<t>> \o us, i)
  <2> HIDE DEF us
  <2> QED BY <1>3, <1>9, ConsTiled
<1>11. <<t>> \o us = <<t, u>>
  <2>1. t \in Tok
    BY <1>3 DEF Good
  <2> DEFINE v == <<t>> \o us  w == <<t, u>>
  <2>2. v \in Seq(Tok) /\ Len(v) = 2 /\ v[1] = t /\ v[2] = u
    BY <1>6, <2>1
  <2>3. w \in Seq(Tok) /\ Len(w) = 2 /\ w[1] = t /\ w[2] = u
    BY <1>6, <2>1
  <2> HIDE DEF v, w
  <2>4. v = w
    BY <2>2, <2>3
  <2> QED BY <2>4 DEF v, w
<1> QED BY <1>2, <1>10, <1>11

LEMMA TokensTiled ==
    ASSUME line \in Seq(Alphabet)
    PROVE  Tiled(Lex!tokens, 1)
<1> DEFINE L == Len(line)
           from == IF Lex!Debugs(line) THEN 2 ELSE 1
           ts == IF Lex!IsLua(line, from) THEN Lex!LuaTokens(line, from) ELSE Lex!Lexed(line, from)
<1>0. L \in Nat
  OBVIOUS
<1>1. Lex!tokens = (IF Lex!Debugs(line) THEN <<Lex!Token(1, 1, <<"!">>, "debug")>> ELSE <<>>) \o ts
  BY DEF Lex!tokens, Lex!tokenize
<1>2. Lex!Debugs(line) => 1 \in 1 .. L /\ line[1] = "!" /\ 1 <= L
  BY DEF Lex!Debugs
<1>3. from \in 1 .. L + 1
  BY <1>0, <1>2
<1>4. Tiled(ts, from)
  <2> HIDE DEF from
  <2>1. CASE Lex!IsLua(line, from)
    <3>1. from \in 1 .. L
      BY <1>0, <1>3, <2>1 DEF Lex!IsLua
    <3> QED BY <2>1, <3>1, CodeTiled
  <2>2. CASE ~Lex!IsLua(line, from)
    BY <1>3, <2>2, LexedTiled
  <2> QED BY <2>1, <2>2
<1> HIDE DEF ts
<1>5. CASE Lex!Debugs(line)
  <2>1. Good(Lex!Token(1, 1, <<line[1]>>, "debug"), 1, 1)
    BY <1>2, <1>5, MarkGood
  <2>2. Tiled(ts, 1 + 1)
    BY <1>4, <1>5
  <2>3. 1 \in Nat /\ 1 <= 1 /\ 1 <= Len(line)
    BY <1>2, <1>5
  <2>4. Tiled(<<Lex!Token(1, 1, <<line[1]>>, "debug")>> \o ts, 1)
    BY <2>1, <2>2, <2>3, ConsTiled
  <2> QED BY <1>1, <1>2, <1>5, <2>4
<1>6. CASE ~Lex!Debugs(line)
  <2>1. ts \in Seq(Tok) /\ Tiled(ts, 1)
    BY <1>4, <1>6 DEF Tiled
  <2>2. <<>> \o ts = ts
    BY <2>1
  <2> QED BY <1>1, <1>6, <2>1, <2>2
<1> QED BY <1>5, <1>6

\* What is typed is a line.
Characters == line \in Seq(Alphabet)

LEMMA LineStep == Characters /\ [FENext]_feVars => Characters'
<1> SUFFICES ASSUME Characters, [FENext]_feVars PROVE line' \in Seq(Alphabet)
  BY DEF Characters
<1>0. line \in Seq(Alphabet)
  BY DEF Characters
<1>1. ASSUME NEW c \in Alphabet, TypeCharacter(c) PROVE line' \in Seq(Alphabet)
  BY <1>0, <1>1 DEF TypeCharacter, Lex!Type
<1>2. CASE EraseCharacter
  <2>1. line # <<>> /\ line' = SubSeq(line, 1, Len(line) - 1)
    BY <1>2 DEF EraseCharacter, Lex!Erase
  <2>2. Len(line) - 1 \in 1 - 1 .. Len(line) /\ 1 \in 1 .. Len(line) + 1
    BY <1>0, <2>1
  <2> QED BY <1>0, <2>1, <2>2, PartLemma
<1>3. CASE TypeToken \/ UNCHANGED feVars
  <2>1. line' = line
    BY <1>3, Zenon DEF TypeToken, feVars
  <2> QED BY <1>0, <2>1
<1>4. CASE SubmitLine
  <2>1. line' = line \/ line' = <<>>
    BY <1>4 DEF SubmitLine
  <2>2. <<>> \in Seq(Alphabet)
    OBVIOUS
  <2> QED BY <1>0, <2>1, <2>2, Zenon
<1> QED BY <1>1, <1>2, <1>3, <1>4 DEF FENext

LEMMA LineTyped == FESpec => []Characters
<1>1. FEInit => Characters
  BY DEF FEInit, Lex!Init, Characters
<1> QED BY <1>1, LineStep, PTL DEF FESpec

\* Of every line, of any characters and any length, the tokens lie one after the other, each
\* is the longest text of its kind, and together they hold every character but blanks.
THEOREM AlwaysTile == FESpec => []TokensTile
<1>1. Characters => TokensTile
  <2> SUFFICES ASSUME line \in Seq(Alphabet) PROVE TokensTile
    BY DEF Characters
  <2>1. Tiled(Lex!tokens, 1)
    BY TokensTiled
  <2> DEFINE ts == Lex!tokens
  <2>2. DOMAIN ts = 1 .. Len(ts) /\ DOMAIN line = 1 .. Len(line)
    <3> HIDE DEF ts
    <3> QED BY <2>1 DEF Tiled
  <2>3. /\ \A n \in 1 .. Len(ts) : Lex!Fits(ts[n])
        /\ \A n \in 1 .. Len(ts) - 1 : ts[n].span[2] < ts[n + 1].span[1]
        /\ \A i \in 1 .. Len(line) :
             line[i] = Lex!Blank \/ \E n \in 1 .. Len(ts) : Lex!Within(ts[n], i)
    BY <2>1 DEF Tiled
  <2> QED BY <2>2, <2>3 DEF TokensTile, Lex!TokensTile
<1> QED BY <1>1, LineTyped, PTL

-----------------------------------------------------------------------------
(***************************************************************************)
(* The painted line.  Each coloured token puts two marks into the text,    *)
(* and moves what is behind them; place[i] is where the character i of the *)
(* line has come to be.                                                    *)
(***************************************************************************)
Painted(t) == t.type \in Lex!Coloured

\* The first m characters are done, those behind have moved by offset.
Laid(text, place, offset, m) ==
    /\ offset \in Nat /\ m \in 0 .. Len(line)
    /\ text \in Seq(Alphabet \cup Lex!Marks) /\ Len(text) = Len(line) + offset
    /\ place \in [1 .. Len(line) -> 1 .. Len(line) + offset]
    /\ \A i \in 1 .. Len(line) : \A j \in i + 1 .. Len(line) : place[i] < place[j]
    /\ \A i \in 1 .. Len(line) : text[place[i]] = line[i]
    /\ \A k \in 1 .. Len(line) + offset : text[k] \in Lex!Marks \/ \E i \in 1 .. Len(line) : place[i] = k
    /\ \A i \in 1 .. m : place[i] <= m + offset
    /\ \A i \in m + 1 .. Len(line) : place[i] = i + offset

\* The last mark before k is ink, or there is none and nothing has set a colour.
InkAt(text, k, ink) ==
    \/ ink = "reset" /\ \A l \in 1 .. k - 1 : text[l] \notin Lex!Marks
    \/ \E j \in 1 .. k - 1 :
         ink \in Lex!Marks /\ text[j] = ink /\ \A l \in j + 1 .. k - 1 : text[l] \notin Lex!Marks

LEMMA InkLemma ==
    ASSUME NEW text, NEW ink \in Lex!Marks, NEW k, NEW j \in 1 .. k - 1, text[j] = ink,
           \A l \in j + 1 .. k - 1 : text[l] \notin Lex!Marks
    PROVE  InkAt(text, k, ink)
  BY DEF InkAt

\* The first n tokens are painted, and nothing else.
Inked(text, place, ts, n) ==
    /\ \A i \in 1 .. Len(line) : \A p \in 1 .. n :
         Painted(ts[p]) /\ Lex!Within(ts[p], i) => InkAt(text, place[i], ts[p].type)
    /\ \A i \in 1 .. Len(line) :
         (\A p \in 1 .. n : ~(Painted(ts[p]) /\ Lex!Within(ts[p], i))) => InkAt(text, place[i], "reset")

\* Tokens lie apart, and not only from the next.
LEMMA SpansApart ==
    ASSUME line \in Seq(Alphabet), NEW ts, Tiled(ts, 1), NEW n \in 1 .. Len(ts), NEW m \in n + 1 .. Len(ts)
    PROVE  ts[n].span[2] < ts[m].span[1]
<1> DEFINE a(k) == ts[k].span[1]
           b(k) == ts[k].span[2]
           N == Len(ts)
           B == {d \in Nat : n + 1 + d <= N => b(n) < a(n + 1 + d)}
<1>0. N \in Nat
  BY DEF Tiled
<1>1. ASSUME NEW k \in 1 .. N PROVE a(k) \in Nat /\ b(k) \in Nat /\ a(k) <= b(k) + 1
  <2>1. ts[k] \in Tok /\ Lies(ts[k])
    BY <1>1 DEF Tiled
  <2> QED BY <2>1 DEF Tok, Lies
<1>2. ASSUME NEW k \in 1 .. N - 1 PROVE b(k) < a(k + 1)
  BY <1>2 DEF Tiled
<1> HIDE DEF a, b, N
<1>3. 0 \in B
  BY <1>0, <1>2 DEF N
<1>4. ASSUME NEW d \in 1 .. m - n - 1, \A e \in 0 .. d - 1 : e \in B PROVE d \in B
  <2>1. CASE n + 1 + d <= N
    <3>0. n \in Nat /\ N \in Nat
      BY <1>0 DEF N
    <3>1. d - 1 \in B /\ n + d \in 1 .. N - 1 /\ n + 1 + (d - 1) = n + d /\ n + 1 + d = (n + d) + 1
      BY <1>4, <2>1, <3>0
    <3>2. b(n) < a(n + d)
      BY <3>1, <3>0
    <3>3. b(n + d) < a(n + 1 + d)
      BY <1>2, <3>1
    <3>4. n \in 1 .. N /\ n + d \in 1 .. N /\ n + 1 + d \in 1 .. N
      BY <2>1, <3>0, <3>1
    <3>5. /\ a(n + d) \in Nat /\ b(n + d) \in Nat /\ a(n + d) <= b(n + d) + 1
          /\ b(n) \in Nat /\ a(n + 1 + d) \in Nat
      BY <1>1, <3>4
    <3>6. b(n) < a(n + 1 + d)
      BY <3>2, <3>3, <3>5
    <3> QED BY <3>6
  <2> QED BY <2>1
<1>5. m - n - 1 \in Nat /\ n + 1 + (m - n - 1) = m /\ m <= N
  BY <1>0 DEF N
<1>6. \A d \in 1 .. m - n - 1 : (\A e \in 0 .. d - 1 : e \in B) => d \in B
  BY <1>4
<1> HIDE DEF B
<1>7. m - n - 1 \in B
  <2>1. \A d \in 0 .. m - n - 1 : d \in B
    BY <1>3, <1>5, <1>6, UpTo
  <2> QED BY <1>5, <2>1
<1>8. b(n) < a(n + 1 + (m - n - 1))
  BY <1>5, <1>7 DEF B
<1>9. b(n) < a(m)
  BY <1>5, <1>8
<1> QED BY <1>9 DEF a, b

\* out is the text with ink before the place x, and a reset behind the place y.
Grown(text, out, ink, x, y) ==
    /\ Len(out) = Len(text) + 2
    /\ \A k \in 1 .. x - 1 : out[k] = text[k]
    /\ out[x] = ink
    /\ \A k \in x .. y : out[k + 1] = text[k]
    /\ out[y + 2] = "reset"
    /\ \A k \in y + 1 .. Len(text) : out[k + 2] = text[k]

LEMMA PaintLemma ==
    ASSUME NEW C, NEW text \in Seq(C), NEW offset \in Nat, NEW t, t.type \in C, "reset" \in C,
           NEW a \in Nat, NEW b \in Nat, t.span[1] = a, t.span[2] = b,
           1 <= a, a <= b, b + offset <= Len(text)
    PROVE  /\ Lex!Paint(text, t, offset) \in Seq(C)
           /\ Grown(text, Lex!Paint(text, t, offset), t.type, a + offset, b + offset)
<1> DEFINE N == Len(text)
           i == a + offset
           j == b + offset
           before == SubSeq(text, 1, i - 1)
           inside == SubSeq(text, i, j)
           behind == SubSeq(text, j + 1, N)
           mark == <<t.type>>
           reset == <<"reset">>
           s1 == before \o mark
           s2 == s1 \o inside
           s3 == s2 \o reset
           out == s3 \o behind
<1>0. N \in Nat /\ i \in Nat /\ j \in Nat /\ 1 <= i /\ i <= j /\ j <= N
  OBVIOUS
<1>1. Lex!Paint(text, t, offset) = out
  <2>1. Lex!Paint(text, t, offset) =
          SubSeq(text, 1, t.span[1] + offset - 1) \o <<t.type>>
            \o SubSeq(text, t.span[1] + offset, t.span[2] + offset) \o <<"reset">>
            \o SubSeq(text, t.span[2] + offset + 1, Len(text))
    BY DEF Lex!Paint
  <2>2. t.span[1] = a /\ t.span[2] = b
    OBVIOUS
  <2>3. before = SubSeq(text, 1, t.span[1] + offset - 1)
    BY <2>2
  <2>4. inside = SubSeq(text, t.span[1] + offset, t.span[2] + offset)
    BY <2>2
  <2>5. behind = SubSeq(text, t.span[2] + offset + 1, Len(text))
    BY <2>2
  <2> HIDE DEF before, inside, behind
  <2> QED BY <2>1, <2>3, <2>4, <2>5, Zenon
<1>2. N = Len(text) /\ i = a + offset /\ j = b + offset
  OBVIOUS
<1>3. /\ before \in Seq(C) /\ Len(before) = i - 1 /\ \A k \in 1 .. i - 1 : before[k] = text[k]
      /\ inside \in Seq(C) /\ Len(inside) = j - i + 1
      /\ \A k \in 1 .. j - i + 1 : inside[k] = text[k + i - 1]
      /\ behind \in Seq(C) /\ Len(behind) = N - j
      /\ \A k \in 1 .. N - j : behind[k] = text[k + j]
  <2> HIDE DEF i, j
  <2>1. 1 \in 1 .. N + 1 /\ i - 1 \in 1 - 1 .. N
    BY <1>0
  <2>2. i \in 1 .. N + 1 /\ j \in i - 1 .. N
    BY <1>0
  <2>3. j + 1 \in 1 .. N + 1 /\ N \in j + 1 - 1 .. N
    BY <1>0
  <2>4. /\ before \in Seq(C) /\ Len(before) = i - 1 - 1 + 1
        /\ \A k \in 1 .. i - 1 - 1 + 1 : before[k] = text[k + 1 - 1]
    BY <2>1, PartLemma
  <2>5. /\ inside \in Seq(C) /\ Len(inside) = j - i + 1
        /\ \A k \in 1 .. j - i + 1 : inside[k] = text[k + i - 1]
    BY <2>2, PartLemma
  <2>6. /\ behind \in Seq(C) /\ Len(behind) = N - (j + 1) + 1
        /\ \A k \in 1 .. N - (j + 1) + 1 : behind[k] = text[k + (j + 1) - 1]
    BY <2>3, PartLemma
  <2> HIDE DEF before, inside, behind, N
  <2>7. i - 1 - 1 + 1 = i - 1 /\ \A k \in 1 .. i - 1 : k + 1 - 1 = k
    BY <1>0
  <2>8. N - (j + 1) + 1 = N - j /\ \A k \in 1 .. N - j : k + (j + 1) - 1 = k + j
    BY <1>0
  <2> QED BY <2>4, <2>5, <2>6, <2>7, <2>8
<1>4. mark \in Seq(C) /\ Len(mark) = 1 /\ mark[1] = t.type
  OBVIOUS
<1>5. reset \in Seq(C) /\ Len(reset) = 1 /\ reset[1] = "reset"
  OBVIOUS
<1> HIDE DEF i, j, N, before, inside, behind, mark, reset
<1>6. /\ s1 \in Seq(C) /\ Len(s1) = i /\ s1[i] = t.type
      /\ \A k \in 1 .. i - 1 : s1[k] = text[k]
  <2>1. before \in Seq(C) /\ mark \in Seq(C)
    BY <1>3, <1>4
  <2>2. /\ s1 \in Seq(C) /\ Len(s1) = Len(before) + Len(mark)
        /\ \A k \in 1 .. Len(before) : s1[k] = before[k]
        /\ \A k \in 1 .. Len(mark) : s1[Len(before) + k] = mark[k]
    BY <2>1, JoinLemma
  <2> HIDE DEF s1
  <2>3. i - 1 + 1 = i /\ 1 \in 1 .. 1
    BY <1>0
  <2>4. s1[i - 1 + 1] = mark[1]
    BY <2>2, <1>3, <1>4, <2>3
  <2> QED BY <2>2, <2>3, <2>4, <1>3, <1>4
<1> HIDE DEF s1
<1>7. /\ s2 \in Seq(C) /\ Len(s2) = j + 1 /\ s2[i] = t.type
      /\ \A k \in 1 .. i - 1 : s2[k] = text[k]
      /\ \A k \in i .. j : s2[k + 1] = text[k]
  <2>1. s1 \in Seq(C) /\ inside \in Seq(C)
    BY <1>3, <1>6
  <2>2. /\ s2 \in Seq(C) /\ Len(s2) = Len(s1) + Len(inside)
        /\ \A k \in 1 .. Len(s1) : s2[k] = s1[k]
        /\ \A k \in 1 .. Len(inside) : s2[Len(s1) + k] = inside[k]
    BY <2>1, JoinLemma
  <2> HIDE DEF s2
  <2>3. Len(s2) = j + 1
    BY <1>0, <2>2, <1>3, <1>6
  <2>4. s2[i] = t.type
    BY <1>0, <2>2, <1>6
  <2>5. ASSUME NEW k \in 1 .. i - 1 PROVE s2[k] = text[k]
    <3>1. k \in 1 .. i
      BY <1>0
    <3> QED BY <3>1, <2>2, <1>6
  <2>6. ASSUME NEW k \in i .. j PROVE s2[k + 1] = text[k]
    <3>1. k - i + 1 \in 1 .. j - i + 1 /\ i + (k - i + 1) = k + 1 /\ (k - i + 1) + i - 1 = k
      BY <1>0
    <3>2. s2[i + (k - i + 1)] = inside[k - i + 1]
      BY <3>1, <2>2, <1>3, <1>6
    <3>3. inside[k - i + 1] = text[(k - i + 1) + i - 1]
      BY <3>1, <1>3
    <3> QED BY <3>1, <3>2, <3>3
  <2> QED BY <2>2, <2>3, <2>4, <2>5, <2>6
<1> HIDE DEF s2
<1>8. /\ s3 \in Seq(C) /\ Len(s3) = j + 2 /\ s3[i] = t.type /\ s3[j + 2] = "reset"
      /\ \A k \in 1 .. i - 1 : s3[k] = text[k]
      /\ \A k \in i .. j : s3[k + 1] = text[k]
  <2>1. s2 \in Seq(C) /\ reset \in Seq(C)
    BY <1>5, <1>7
  <2>2. /\ s3 \in Seq(C) /\ Len(s3) = Len(s2) + Len(reset)
        /\ \A k \in 1 .. Len(s2) : s3[k] = s2[k]
        /\ \A k \in 1 .. Len(reset) : s3[Len(s2) + k] = reset[k]
    BY <2>1, JoinLemma
  <2> HIDE DEF s3
  <2>3. Len(s3) = j + 2
    BY <1>0, <2>2, <1>5, <1>7
  <2>4. i \in 1 .. j + 1 /\ j + 1 + 1 = j + 2 /\ 1 \in 1 .. 1
    BY <1>0
  <2>5. s3[i] = t.type
    BY <2>4, <2>2, <1>7
  <2>6. s3[j + 1 + 1] = reset[1]
    BY <2>4, <2>2, <1>5, <1>7
  <2>7. ASSUME NEW k \in 1 .. i - 1 PROVE s3[k] = text[k]
    <3>1. k \in 1 .. j + 1
      BY <1>0
    <3> QED BY <3>1, <2>2, <1>7
  <2>8. ASSUME NEW k \in i .. j PROVE s3[k + 1] = text[k]
    <3>1. k + 1 \in 1 .. j + 1
      BY <1>0
    <3> QED BY <3>1, <2>2, <1>7
  <2> QED BY <2>2, <2>3, <2>4, <2>5, <2>6, <2>7, <2>8, <1>5
<1> HIDE DEF s3
<1>9. /\ out \in Seq(C) /\ Len(out) = N + 2 /\ out[i] = t.type /\ out[j + 2] = "reset"
      /\ \A k \in 1 .. i - 1 : out[k] = text[k]
      /\ \A k \in i .. j : out[k + 1] = text[k]
      /\ \A k \in j + 1 .. N : out[k + 2] = text[k]
  <2>1. s3 \in Seq(C) /\ behind \in Seq(C)
    BY <1>3, <1>8
  <2>2. /\ out \in Seq(C) /\ Len(out) = Len(s3) + Len(behind)
        /\ \A k \in 1 .. Len(s3) : out[k] = s3[k]
        /\ \A k \in 1 .. Len(behind) : out[Len(s3) + k] = behind[k]
    BY <2>1, JoinLemma
  <2> HIDE DEF out
  <2>3. Len(out) = N + 2
    BY <1>0, <2>2, <1>3, <1>8
  <2>4. i \in 1 .. j + 2 /\ j + 2 \in 1 .. j + 2
    BY <1>0
  <2>5. out[i] = t.type /\ out[j + 2] = "reset"
    BY <2>4, <2>2, <1>8
  <2>6. ASSUME NEW k \in 1 .. i - 1 PROVE out[k] = text[k]
    <3>1. k \in 1 .. j + 2
      BY <1>0
    <3> QED BY <3>1, <2>2, <1>8
  <2>7. ASSUME NEW k \in i .. j PROVE out[k + 1] = text[k]
    <3>1. k + 1 \in 1 .. j + 2
      BY <1>0
    <3> QED BY <3>1, <2>2, <1>8
  <2>8. ASSUME NEW k \in j + 1 .. N PROVE out[k + 2] = text[k]
    <3>1. k - j \in 1 .. N - j /\ j + 2 + (k - j) = k + 2 /\ (k - j) + j = k
      BY <1>0
    <3>2. out[j + 2 + (k - j)] = behind[k - j]
      BY <3>1, <2>2, <1>3, <1>8
    <3>3. behind[k - j] = text[(k - j) + j]
      BY <3>1, <1>3
    <3> QED BY <3>1, <3>2, <3>3
  <2> QED BY <2>2, <2>3, <2>5, <2>6, <2>7, <2>8
<1> HIDE DEF out
<1> QED BY <1>1, <1>9 DEF Grown, i, j, N

\* A token painted from a to b: its characters move by one, those behind it by two.
Moved(place, offset, a, b) ==
    [i \in 1 .. Len(line) |->
        IF i < a THEN place[i] ELSE IF i <= b THEN i + offset + 1 ELSE i + offset + 2]

LEMMA MovedLemma ==
    ASSUME line \in Seq(Alphabet), NEW text, NEW place, NEW offset, NEW m, Laid(text, place, offset, m),
           NEW a \in Nat, NEW b \in Nat, m < a, a <= b, b <= Len(line)
    PROVE  /\ \A i \in 1 .. Len(line) : i < a =>
                Moved(place, offset, a, b)[i] = place[i] /\ place[i] \in 1 .. a + offset - 1
           /\ \A i \in a .. b : Moved(place, offset, a, b)[i] = i + offset + 1
           /\ \A i \in b + 1 .. Len(line) : Moved(place, offset, a, b)[i] = i + offset + 2
           /\ \A i \in a .. Len(line) : place[i] = i + offset
<1> DEFINE L == Len(line)
           moved == Moved(place, offset, a, b)
<1>0. L \in Nat /\ offset \in Nat /\ m \in 0 .. L /\ a \in Nat /\ b \in Nat /\ m < a /\ a <= b /\ b <= L
  BY DEF Laid
<1>2. /\ place \in [1 .. L -> 1 .. L + offset]
      /\ \A i \in 1 .. m : place[i] <= m + offset
      /\ \A i \in m + 1 .. L : place[i] = i + offset
  BY DEF Laid
<1>3. /\ \A i \in 1 .. L : i < a => moved[i] = place[i]
      /\ \A i \in a .. b : moved[i] = i + offset + 1
      /\ \A i \in b + 1 .. L : moved[i] = i + offset + 2
      /\ moved = [i \in 1 .. L |-> moved[i]]
  <2>1. \A i \in 1 .. L : moved[i] =
          IF i < a THEN place[i] ELSE IF i <= b THEN i + offset + 1 ELSE i + offset + 2
    BY DEF Moved
  <2>2. moved = [i \in 1 .. L |-> moved[i]]
    BY DEF Moved
  <2> HIDE DEF moved, L
  <2>3. ASSUME NEW i \in a .. b PROVE moved[i] = i + offset + 1
    <3>1. i \in 1 .. L /\ ~(i < a) /\ i <= b
      BY <1>0 DEF L
    <3> QED BY <2>1, <3>1
  <2>4. ASSUME NEW i \in b + 1 .. L PROVE moved[i] = i + offset + 2
    <3>1. i \in 1 .. L /\ ~(i < a) /\ ~(i <= b)
      BY <1>0
    <3> QED BY <2>1, <3>1
  <2> QED BY <2>1, <2>2, <2>3, <2>4
<1> HIDE DEF L, moved
<1>4. ASSUME NEW i \in 1 .. L, i < a PROVE moved[i] = place[i] /\ place[i] \in 1 .. a + offset - 1
  <2>1. moved[i] = place[i] /\ place[i] \in 1 .. L + offset
    BY <1>2, <1>3, <1>4
  <2>2. CASE i <= m
    <3>1. place[i] <= m + offset
      <4>1. i \in 1 .. m
        BY <1>0, <2>2
      <4> QED BY <1>2, <4>1
    <3> QED BY <1>0, <1>0, <2>1, <3>1
  <2>3. CASE ~(i <= m)
    <3>1. place[i] = i + offset
      <4>1. i \in m + 1 .. L
        BY <1>0, <2>3
      <4> QED BY <1>2, <4>1
    <3> QED BY <1>0, <1>0, <1>4, <2>1, <3>1
  <2> QED BY <2>2, <2>3
<1>5. ASSUME NEW i \in 1 .. L PROVE \/ i < a \/ i \in a .. b \/ i \in b + 1 .. L
  BY <1>0, <1>0
<1>6. ASSUME NEW i \in a .. L PROVE place[i] = i + offset
  <2>1. i \in m + 1 .. L
    BY <1>0, <1>0
  <2> QED BY <1>2, <2>1
<1> QED BY <1>3, <1>4, <1>6 DEF L, moved

LEMMA GrownLemma ==
    ASSUME line \in Seq(Alphabet), NEW text, NEW place, NEW offset, NEW m, Laid(text, place, offset, m),
           NEW t, Painted(t), NEW a \in Nat, NEW b \in Nat, t.span[1] = a, t.span[2] = b,
           m < a, a <= b, b <= Len(line)
    PROVE  /\ Lex!Paint(text, t, offset) \in Seq(Alphabet \cup Lex!Marks)
           /\ Grown(text, Lex!Paint(text, t, offset), t.type, a + offset, b + offset)
<1> DEFINE C == Alphabet \cup Lex!Marks
<1>0. /\ Len(line) \in Nat /\ offset \in Nat /\ m \in 0 .. Len(line)
      /\ Len(text) = Len(line) + offset /\ text \in Seq(C)
  BY DEF Laid
<1>1. t.type \in C /\ "reset" \in C
  BY DEF Painted, Lex!Marks
<1>2. 1 <= a /\ b + offset <= Len(text)
  BY <1>0
<1> HIDE DEF C
<1>3. /\ Lex!Paint(text, t, offset) \in Seq(C)
      /\ Grown(text, Lex!Paint(text, t, offset), t.type, a + offset, b + offset)
  BY <1>0, <1>1, <1>2, PaintLemma
<1> QED BY <1>3 DEF C

LEMMA LaidStep ==
    ASSUME line \in Seq(Alphabet), NEW text, NEW place, NEW offset, NEW m, Laid(text, place, offset, m),
           NEW t, Painted(t), NEW a \in Nat, NEW b \in Nat, t.span[1] = a, t.span[2] = b,
           m < a, a <= b, b <= Len(line)
    PROVE  Laid(Lex!Paint(text, t, offset), Moved(place, offset, a, b), offset + 2, b)
<1> DEFINE L == Len(line)
           C == Alphabet \cup Lex!Marks
           N == Len(text)
           out == Lex!Paint(text, t, offset)
           moved == Moved(place, offset, a, b)
<1>0. L \in Nat /\ offset \in Nat /\ m \in 0 .. L /\ N = L + offset /\ N \in Nat /\ text \in Seq(C)
  BY DEF Laid
<1>g. out \in Seq(C) /\ Grown(text, out, t.type, a + offset, b + offset)
  BY GrownLemma
<1> HIDE DEF out, C
<1>1. /\ out \in Seq(C) /\ Len(out) = N + 2
      /\ \A k \in 1 .. a + offset - 1 : out[k] = text[k]
      /\ out[a + offset] = t.type
      /\ \A k \in a + offset .. b + offset : out[k + 1] = text[k]
      /\ out[b + offset + 2] = "reset"
      /\ \A k \in b + offset + 1 .. N : out[k + 2] = text[k]
  <2>1. (a + offset) - 1 = a + offset - 1
    BY <1>0
  <2> QED BY <1>g, <2>1 DEF Grown
<1>2. /\ place \in [1 .. L -> 1 .. L + offset]
      /\ \A i \in 1 .. L : \A j \in i + 1 .. L : place[i] < place[j]
      /\ \A i \in 1 .. L : text[place[i]] = line[i]
      /\ \A k \in 1 .. L + offset : text[k] \in Lex!Marks \/ \E i \in 1 .. L : place[i] = k
      /\ \A i \in 1 .. m : place[i] <= m + offset
      /\ \A i \in m + 1 .. L : place[i] = i + offset
  BY DEF Laid
<1>3. moved = [i \in 1 .. L |-> moved[i]]
  BY DEF Moved
<1>m1. /\ \A i \in 1 .. L : i < a => moved[i] = place[i] /\ place[i] \in 1 .. a + offset - 1
       /\ \A i \in a .. b : moved[i] = i + offset + 1
       /\ \A i \in b + 1 .. L : moved[i] = i + offset + 2
       /\ \A i \in a .. L : place[i] = i + offset
  BY MovedLemma
<1> DEFINE M == Lex!Marks
<1>m. t.type \in M /\ "reset" \in M /\ a \in Nat /\ b \in Nat /\ m < a /\ a <= b /\ b <= L
  BY DEF Painted, Lex!Marks
<1> HIDE DEF L, N, out, moved, M, C
<1>4. ASSUME NEW i \in 1 .. L, i < a PROVE moved[i] = place[i] /\ place[i] \in 1 .. a + offset - 1
  BY <1>4, <1>m1
<1>5. ASSUME NEW i \in 1 .. L PROVE \/ i < a \/ i \in a .. b \/ i \in b + 1 .. L
  BY <1>0, <1>m
<1>6. ASSUME NEW i \in a .. L PROVE place[i] = i + offset
  BY <1>m1
<1>7. moved \in [1 .. L -> 1 .. L + (offset + 2)]
  <2>1. ASSUME NEW i \in 1 .. L PROVE moved[i] \in 1 .. L + (offset + 2)
    <3>1. CASE i < a
      BY <1>0, <1>m, <1>4, <3>1
    <3>2. CASE i \in a .. b
      <4>1. moved[i] = i + offset + 1
        BY <1>m1, <3>2
      <4> QED BY <1>0, <1>m, <3>2, <4>1
    <3>3. CASE i \in b + 1 .. L
      <4>1. moved[i] = i + offset + 2
        BY <1>m1, <3>3
      <4> QED BY <1>0, <1>m, <3>3, <4>1
    <3> QED BY <1>5, <3>1, <3>2, <3>3
  <2> QED BY <1>3, <2>1
<1>8. ASSUME NEW i \in 1 .. L, NEW j \in i + 1 .. L PROVE moved[i] < moved[j]
  <2>0. j \in 1 .. L /\ i < j /\ i \in Nat /\ j \in Nat
    BY <1>0
  <2>1. CASE i < a /\ j < a
    <3>1. moved[i] = place[i] /\ moved[j] = place[j]
      BY <1>4, <2>0, <2>1
    <3> QED BY <1>2, <3>1
  <2>2. CASE i < a /\ ~(j < a)
    <3>1. moved[i] \in 1 .. a + offset - 1
      BY <1>4, <2>2
    <3>2. moved[j] = j + offset + 1 \/ moved[j] = j + offset + 2
      BY <1>m1, <1>5, <2>0, <2>2
    <3> QED BY <1>0, <1>m, <2>0, <2>2, <3>1, <3>2
  <2>3. CASE i \in a .. b
    <3>1. moved[i] = i + offset + 1
      BY <1>m1, <2>3
    <3>2. moved[j] = j + offset + 1 \/ moved[j] = j + offset + 2
      <4>1. ~(j < a)
        BY <1>m, <2>0, <2>3
      <4> QED BY <1>m1, <1>5, <2>0, <4>1
    <3> QED BY <1>0, <2>0, <3>1, <3>2
  <2>4. CASE i \in b + 1 .. L
    <3>1. moved[i] = i + offset + 2
      BY <1>m1, <2>4
    <3>0. j \in b + 1 .. L
      BY <1>0, <1>m, <2>0, <2>4
    <3>2. moved[j] = j + offset + 2
      BY <1>m1, <3>0
    <3> QED BY <1>0, <2>0, <3>1, <3>2
  <2> QED BY <1>5, <2>1, <2>2, <2>3, <2>4
<1>9. ASSUME NEW i \in 1 .. L PROVE out[moved[i]] = line[i]
  <2>0. text[place[i]] = line[i]
    BY <1>2
  <2>1. CASE i < a
    <3>1. moved[i] = place[i] /\ place[i] \in 1 .. a + offset - 1
      BY <1>4, <2>1
    <3>2. out[place[i]] = text[place[i]]
      BY <1>1, <3>1
    <3> QED BY <2>0, <3>1, <3>2
  <2>2. CASE i \in a .. b
    <3>a. moved[i] = i + offset + 1
      BY <1>m1, <2>2
    <3>0. i \in a .. L /\ moved[i] = i + offset + 1 /\ i \in Nat
      BY <1>m, <1>0, <2>2, <3>a
    <3>1. place[i] = i + offset /\ moved[i] = (i + offset) + 1 /\ i + offset \in a + offset .. b + offset
      <4>1. place[i] = i + offset
        BY <1>6, <3>0
      <4>2. i + offset \in a + offset .. b + offset
        BY <1>0, <1>m, <2>2
      <4> QED BY <1>0, <3>0, <4>1, <4>2
    <3>2. out[(i + offset) + 1] = text[i + offset]
      BY <1>1, <3>1
    <3> QED BY <2>0, <3>1, <3>2
  <2>3. CASE i \in b + 1 .. L
    <3>0. i \in a .. L /\ i \in Nat
      BY <1>0, <1>m, <2>3
    <3>1. place[i] = i + offset /\ moved[i] = (i + offset) + 2 /\ i + offset \in b + offset + 1 .. N
      <4>1. place[i] = i + offset /\ moved[i] = i + offset + 2
        BY <1>m1, <1>6, <2>3, <3>0
      <4>2. i + offset \in b + offset + 1 .. N
        BY <1>0, <1>m, <2>3
      <4> QED BY <1>0, <3>0, <4>1, <4>2
    <3>2. out[(i + offset) + 2] = text[i + offset]
      BY <1>1, <3>1
    <3> QED BY <2>0, <3>1, <3>2
  <2> QED BY <1>5, <2>1, <2>2, <2>3
<1>10. ASSUME NEW k \in 1 .. L + (offset + 2), out[k] \notin M PROVE \E i \in 1 .. L : moved[i] = k
  <2>0. k \in Nat
    BY <1>0
  <2>1. CASE k < a + offset
    <3>1. k \in 1 .. a + offset - 1 /\ k \in 1 .. L + offset
      BY <1>0, <1>m, <2>1
    <3>2. text[k] \notin M
      BY <1>1, <1>10, <3>1
    <3>3. PICK i \in 1 .. L : place[i] = k
      BY <1>2, <3>1, <3>2 DEF M
    <3>4. i < a
      <4>1. SUFFICES ASSUME ~(i < a) PROVE FALSE
        OBVIOUS
      <4>2. i \in a .. L
        BY <1>0, <1>m, <4>1
      <4> QED BY <1>0, <1>6, <2>1, <3>3, <4>1, <4>2
    <3> QED BY <1>4, <3>3, <3>4
  <2>2. CASE k = a + offset
    BY <1>1, <1>10, <1>m, <2>2
  <2>3. CASE k \in a + offset + 1 .. b + offset + 1
    <3>1. k - offset - 1 \in a .. b /\ k - offset - 1 \in 1 .. L /\ (k - offset - 1) + offset + 1 = k
      BY <1>0, <1>m, <2>0, <2>3
    <3>2. moved[k - offset - 1] = (k - offset - 1) + offset + 1
      BY <1>m1, <3>1
    <3> QED BY <3>1, <3>2
  <2>4. CASE k = b + offset + 2
    BY <1>1, <1>10, <1>m, <2>4
  <2>5. CASE k > b + offset + 2
    <3>1. k - offset - 2 \in b + 1 .. L /\ k - offset - 2 \in 1 .. L /\ (k - offset - 2) + offset + 2 = k
      BY <1>0, <1>m, <2>0, <2>5
    <3>2. moved[k - offset - 2] = (k - offset - 2) + offset + 2
      BY <1>m1, <3>1
    <3> QED BY <3>1, <3>2
  <2>6. \/ k < a + offset \/ k = a + offset \/ k \in a + offset + 1 .. b + offset + 1
        \/ k = b + offset + 2 \/ k > b + offset + 2
    BY <1>0, <1>m, <2>0
  <2> QED BY <2>1, <2>2, <2>3, <2>4, <2>5, <2>6
<1>11. ASSUME NEW i \in 1 .. b PROVE moved[i] <= b + (offset + 2)
  <2>1. i \in 1 .. L
    BY <1>0, <1>m
  <2>2. CASE i < a
    <3>1. moved[i] \in 1 .. a + offset - 1
      BY <1>4, <2>1, <2>2
    <3> QED BY <1>0, <1>m, <3>1
  <2>3. CASE ~(i < a)
    <3>1. i \in a .. b
      BY <1>m, <2>3
    <3>2. moved[i] = i + offset + 1
      BY <1>m1, <3>1
    <3> QED BY <1>0, <1>m, <3>1, <3>2
  <2> QED BY <2>2, <2>3
<1>12. ASSUME NEW i \in b + 1 .. L PROVE moved[i] = i + (offset + 2)
  <2>1. moved[i] = i + offset + 2
    BY <1>m1
  <2> QED BY <1>0, <1>m, <2>1
<1>13. offset + 2 \in Nat /\ b \in 0 .. L /\ Len(out) = L + (offset + 2)
  BY <1>0, <1>1, <1>m
<1>14. \A k \in 1 .. L + (offset + 2) : out[k] \in M \/ \E i \in 1 .. L : moved[i] = k
  BY <1>10
<1> QED BY <1>1, <1>7, <1>8, <1>9, <1>11, <1>12, <1>13, <1>14 DEF Laid, L, M, C, out, moved

LEMMA InkStep ==
    ASSUME line \in Seq(Alphabet), NEW text, NEW place, NEW offset, NEW m, Laid(text, place, offset, m),
           NEW ts, NEW n \in Nat \ {0}, Inked(text, place, ts, n - 1), Painted(ts[n]),
           \A p \in 1 .. n - 1 : Painted(ts[p]) => ts[p].span[2] \in Nat /\ ts[p].span[2] <= m,
           NEW a \in Nat, NEW b \in Nat, ts[n].span[1] = a, ts[n].span[2] = b,
           m < a, a <= b, b <= Len(line)
    PROVE  Inked(Lex!Paint(text, ts[n], offset), Moved(place, offset, a, b), ts, n)
<1> DEFINE L == Len(line)
           t == ts[n]
           out == Lex!Paint(text, t, offset)
           moved == Moved(place, offset, a, b)
           M == Lex!Marks
           own(p, i) == Painted(ts[p]) /\ Lex!Within(ts[p], i)
<1>0. /\ L \in Nat /\ offset \in Nat /\ m \in 0 .. L /\ a \in Nat /\ b \in Nat
      /\ m < a /\ a <= b /\ b <= L
  BY DEF Laid
<1>m. t.type \in M /\ "reset" \in M
  BY DEF Painted, Lex!Marks
<1>l. Laid(out, moved, offset + 2, b)
  BY LaidStep
<1>g. Grown(text, out, t.type, a + offset, b + offset)
  BY GrownLemma
<1>1. /\ \A i \in 1 .. L : i < a => moved[i] = place[i] /\ place[i] \in 1 .. a + offset - 1
      /\ \A i \in a .. b : moved[i] = i + offset + 1
      /\ \A i \in b + 1 .. L : moved[i] = i + offset + 2
  BY MovedLemma
<1>w. \A i : Lex!Within(t, i) <=> a <= i /\ i <= b
  BY DEF Lex!Within
<1>i. /\ \A i \in 1 .. L : \A p \in 1 .. n - 1 : own(p, i) => InkAt(text, place[i], ts[p].type)
      /\ \A i \in 1 .. L : (\A p \in 1 .. n - 1 : ~own(p, i)) => InkAt(text, place[i], "reset")
  BY DEF Inked
<1> HIDE DEF out, moved
<1>2. /\ \A k \in 1 .. a + offset - 1 : out[k] = text[k]
      /\ out[a + offset] = t.type /\ out[b + offset + 2] = "reset"
  <2>1. (a + offset) - 1 = a + offset - 1
    BY <1>0
  <2> QED BY <1>g, <2>1 DEF Grown
<1>3. ASSUME NEW i \in 1 .. L PROVE out[moved[i]] \notin M
  <2>1. out[moved[i]] = line[i] /\ line[i] \in Alphabet
    BY <1>l DEF Laid
  <2> QED BY <2>1, FrontEndAssumption
<1> HIDE DEF M, L, t
\* Before the token the colours are as they were.
<1>4. ASSUME NEW i \in 1 .. L, i < a, NEW ink, InkAt(text, place[i], ink)
      PROVE  InkAt(out, moved[i], ink)
  <2> DEFINE k == place[i]
  <2>1. moved[i] = k /\ k \in 1 .. a + offset - 1
    BY <1>1, <1>4
  <2> HIDE DEF k
  <2>2. \A l \in 1 .. k - 1 : out[l] = text[l]
    <3>1. \A l \in 1 .. k - 1 : l \in 1 .. a + offset - 1
      BY <1>0, <2>1
    <3> QED BY <1>2, <3>1
  <2>3. InkAt(text, k, ink)
    BY <1>4 DEF k
  <2>4. CASE ink = "reset" /\ \A l \in 1 .. k - 1 : text[l] \notin Lex!Marks
    BY <2>1, <2>2, <2>4 DEF InkAt
  <2>5. ASSUME NEW j \in 1 .. k - 1, ink \in Lex!Marks, text[j] = ink,
               \A l \in j + 1 .. k - 1 : text[l] \notin Lex!Marks
        PROVE  InkAt(out, k, ink)
    <3>1. out[j] = ink
      BY <2>2, <2>5
    <3>2. \A l \in j + 1 .. k - 1 : l \in 1 .. k - 1
      OBVIOUS
    <3>3. \A l \in j + 1 .. k - 1 : out[l] \notin Lex!Marks
      BY <2>2, <2>5, <3>2
    <3> QED BY <2>5, <3>1, <3>3 DEF InkAt
  <2>6. InkAt(out, k, ink)
    BY <2>3, <2>4, <2>5, <2>1 DEF InkAt
  <2> QED BY <2>1, <2>6
\* Inside it is the token's.
<1>5. ASSUME NEW i \in a .. b PROVE InkAt(out, moved[i], t.type)
  <2>1. moved[i] = i + offset + 1 /\ a + offset \in 1 .. (i + offset + 1) - 1
    <3>1. a + offset \in 1 .. (i + offset + 1) - 1
      BY <1>0
    <3> QED BY <1>1, <3>1
  <2>2. ASSUME NEW l \in a + offset + 1 .. (i + offset + 1) - 1 PROVE out[l] \notin M
    <3>1. l - offset - 1 \in a .. b /\ l - offset - 1 \in 1 .. L /\ (l - offset - 1) + offset + 1 = l
      BY <1>0
    <3>2. moved[l - offset - 1] = (l - offset - 1) + offset + 1
      BY <1>1, <3>1
    <3>3. out[moved[l - offset - 1]] \notin M
      BY <1>3, <3>1
    <3> QED BY <3>1, <3>2, <3>3
  <2>3. InkAt(out, i + offset + 1, t.type)
    BY <1>2, <1>m, <2>1, <2>2, InkLemma DEF M
  <2> QED BY <2>1, <2>3
\* Behind it there is none.
<1>6. ASSUME NEW i \in b + 1 .. L PROVE InkAt(out, moved[i], "reset")
  <2>1. moved[i] = i + offset + 2 /\ b + offset + 2 \in 1 .. (i + offset + 2) - 1
    <3>1. b + offset + 2 \in 1 .. (i + offset + 2) - 1
      BY <1>0
    <3> QED BY <1>1, <3>1
  <2>2. ASSUME NEW l \in b + offset + 2 + 1 .. (i + offset + 2) - 1 PROVE out[l] \notin M
    <3>1. l - offset - 2 \in b + 1 .. L /\ l - offset - 2 \in 1 .. L /\ (l - offset - 2) + offset + 2 = l
      BY <1>0
    <3>2. moved[l - offset - 2] = (l - offset - 2) + offset + 2
      BY <1>1, <3>1
    <3>3. out[moved[l - offset - 2]] \notin M
      BY <1>3, <3>1
    <3> QED BY <3>1, <3>2, <3>3
  <2>3. InkAt(out, i + offset + 2, "reset")
    BY <1>2, <1>m, <2>1, <2>2, InkLemma DEF M
  <2> QED BY <2>1, <2>3
<1>7. ASSUME NEW i \in 1 .. L PROVE \/ i < a \/ i \in a .. b \/ i \in b + 1 .. L
  BY <1>0
<1>8. ASSUME NEW i \in 1 .. L, NEW p \in 1 .. n, own(p, i) PROVE InkAt(out, moved[i], ts[p].type)
  <2>1. CASE p = n
    <3>1. i \in a .. b
      <4>1. Lex!Within(t, i)
        BY <1>8, <2>1 DEF t
      <4>2. a <= i /\ i <= b
        BY <1>w, <4>1
      <4> QED BY <1>0, <4>2
    <3>2. ts[p].type = t.type
      BY <2>1 DEF t
    <3> QED BY <1>5, <3>1, <3>2
  <2>2. CASE p # n
    <3>1. p \in 1 .. n - 1
      BY <2>2
    <3>2. i < a
      <4>1. i <= ts[p].span[2] /\ ts[p].span[2] \in Nat /\ ts[p].span[2] <= m
        BY <1>8, <3>1 DEF Lex!Within
      <4> QED BY <1>0, <4>1
    <3>3. InkAt(text, place[i], ts[p].type)
      BY <1>8, <1>i, <3>1
    <3> QED BY <1>4, <3>2, <3>3
  <2> QED BY <2>1, <2>2
<1>9. ASSUME NEW i \in 1 .. L, \A p \in 1 .. n : ~own(p, i) PROVE InkAt(out, moved[i], "reset")
  <2>1. n \in 1 .. n /\ \A p \in 1 .. n - 1 : p \in 1 .. n
    OBVIOUS
  <2>2. i \notin a .. b
    <3>1. ~Lex!Within(t, i)
      BY <1>9, <2>1 DEF t
    <3> QED BY <1>w, <3>1
  <2>3. InkAt(text, place[i], "reset")
    BY <1>9, <1>i, <2>1
  <2> QED BY <1>4, <1>6, <1>7, <2>2, <2>3
<1> HIDE DEF own
<1>10. /\ \A i \in 1 .. L : \A p \in 1 .. n : own(p, i) => InkAt(out, moved[i], ts[p].type)
       /\ \A i \in 1 .. L : (\A p \in 1 .. n : ~own(p, i)) => InkAt(out, moved[i], "reset")
  BY <1>8, <1>9
<1> QED BY <1>10 DEF Inked, own, L, out, moved, t

(***************************************************************************)
(* The text after each token                                               *)
(***************************************************************************)
PaintedBy(before, t) ==
    IF t.type \notin Lex!Coloured THEN before
    ELSE [text |-> Lex!Paint(before.text, t, before.offset), offset |-> before.offset + 2]

Painting(f, ts, m) ==
    f[0] = [text |-> line, offset |-> 0] /\ \A n \in 1 .. m : f[n] = PaintedBy(f[n - 1], ts[n])

LEMMA PaintingExists ==
    ASSUME NEW ts, NEW N \in Nat
    PROVE  \E f : f = [k \in 0 .. N |-> f[k]] /\ Painting(f, ts, N)
<1> DEFINE B == {m \in 0 .. N : \E f : f = [k \in 0 .. m |-> f[k]] /\ Painting(f, ts, m)}
           first == [text |-> line, offset |-> 0]
<1>1. 0 \in B
  <2> DEFINE f == [k \in 0 .. 0 |-> first]
  <2>1. f = [k \in 0 .. 0 |-> f[k]] /\ f[0] = first
    OBVIOUS
  <2> HIDE DEF f
  <2>2. Painting(f, ts, 0)
    BY <2>1 DEF Painting
  <2> QED BY <2>1, <2>2
<1>2. ASSUME NEW m \in 1 .. N, \A k \in 0 .. m - 1 : k \in B PROVE m \in B
  <2>1. m - 1 \in B /\ m \in 0 .. N
    BY <1>2
  <2>2. PICK f : Painting(f, ts, m - 1)
    BY <2>1
  <2> DEFINE v == PaintedBy(f[m - 1], ts[m])
             g == [k \in 0 .. m |-> IF k = m THEN v ELSE f[k]]
  <2>3. g[m] = v /\ \A k \in 0 .. m - 1 : g[k] = f[k]
    OBVIOUS
  <2>4. g = [k \in 0 .. m |-> g[k]]
    OBVIOUS
  <2> HIDE DEF g, first
  <2>5. g[0] = first
    <3>1. 0 \in 0 .. m - 1
      OBVIOUS
    <3> QED BY <2>2, <2>3, <3>1 DEF Painting, first
  <2>6. ASSUME NEW k \in 1 .. m PROVE g[k] = PaintedBy(g[k - 1], ts[k])
    <3>1. k - 1 \in 0 .. m - 1
      OBVIOUS
    <3>2. CASE k = m
      <4>1. g[m - 1] = f[m - 1]
        BY <2>3, <3>1, <3>2
      <4> QED BY <2>3, <3>2, <4>1
    <3>3. CASE k # m
      <4>1. k \in 1 .. m - 1 /\ k \in 0 .. m - 1
        BY <3>3
      <4>2. f[k] = PaintedBy(f[k - 1], ts[k])
        BY <2>2, <4>1 DEF Painting
      <4> QED BY <2>3, <3>1, <4>1, <4>2
    <3> QED BY <3>2, <3>3
  <2>7. Painting(g, ts, m)
    BY <2>5, <2>6 DEF Painting, first
  <2> QED BY <2>1, <2>4, <2>7
<1>3. \A m \in 1 .. N : (\A k \in 0 .. m - 1 : k \in B) => m \in B
  BY <1>2
<1> HIDE DEF B
<1>4. \A m \in 0 .. N : m \in B
  BY <1>1, <1>3, UpTo
<1>5. N \in B
  BY <1>4
<1> QED BY <1>5 DEF B

LEMMA FormatLemma ==
    ASSUME NEW ts, NEW N \in Nat, Len(ts) = N
    PROVE  \E f : Painting(f, ts, N) /\ Lex!format_tokens(line, ts) = f[N].text
<1> DEFINE Rule(g) == [n \in 0 .. N |->
                        IF n = 0 THEN [text |-> line, offset |-> 0]
                        ELSE LET before == g[n - 1]
                             IN  IF ts[n].type \notin Lex!Coloured THEN before
                                 ELSE [text |-> Lex!Paint(before.text, ts[n], before.offset),
                                       offset |-> before.offset + 2]]
           F(g) == [n \in 0 .. N |->
                        IF n = 0 THEN [text |-> line, offset |-> 0] ELSE PaintedBy(g[n - 1], ts[n])]
           painted == CHOOSE g : g = Rule(g)
<1>1. PICK f : f = [k \in 0 .. N |-> f[k]] /\ Painting(f, ts, N)
  BY PaintingExists
<1>2. \A g : Rule(g) = F(g)
  BY DEF PaintedBy
<1>3. f = Rule(f)
  <2>1. ASSUME NEW n \in 0 .. N
        PROVE f[n] = IF n = 0 THEN [text |-> line, offset |-> 0] ELSE PaintedBy(f[n - 1], ts[n])
    <3>1. n = 0 \/ n \in 1 .. N
      OBVIOUS
    <3> QED BY <1>1, <3>1 DEF Painting
  <2>2. f = F(f)
    BY <1>1, <2>1
  <2> HIDE DEF F, Rule
  <2> QED BY <1>2, <2>2
<1>4. painted = Rule(painted)
  <2> HIDE DEF Rule
  <2> QED BY <1>3
<1>5. Lex!format_tokens(line, ts) = painted[N].text
  BY DEF Lex!format_tokens
<1>6. painted = F(painted)
  <2> HIDE DEF F, Rule, painted
  <2> QED BY <1>2, <1>4
<1> HIDE DEF painted
<1>7. Painting(painted, ts, N)
  <2>1. painted[0] = [text |-> line, offset |-> 0]
    BY <1>6
  <2>2. ASSUME NEW k \in 1 .. N PROVE painted[k] = PaintedBy(painted[k - 1], ts[k])
    <3>1. k \in 0 .. N /\ k # 0
      OBVIOUS
    <3> QED BY <1>6, <3>1
  <2> QED BY <2>1, <2>2 DEF Painting
<1> QED BY <1>5, <1>7

\* After n tokens the text is laid out and coloured as far as they go.
SoFar(ts, n, state) ==
    \E place, m :
        /\ Laid(state.text, place, state.offset, m)
        /\ Inked(state.text, place, ts, n)
        /\ \A p \in 1 .. n : Painted(ts[p]) => ts[p].span[2] \in Nat /\ ts[p].span[2] <= m
        /\ \A q \in n + 1 .. Len(ts) : m < ts[q].span[1]

LEMMA SoFarFirst ==
    ASSUME line \in Seq(Alphabet), NEW ts, Tiled(ts, 1)
    PROVE  SoFar(ts, 0, [text |-> line, offset |-> 0])
<1> DEFINE L == Len(line)
           place == [i \in 1 .. L |-> i]
<1>0. L \in Nat /\ line \in [1 .. L -> Alphabet]
  OBVIOUS
<1>1. line \in Seq(Alphabet \cup Lex!Marks)
  <2> DEFINE C == Alphabet \cup Lex!Marks
  <2>1. line \in [1 .. L -> C]
    BY <1>0
  <2> HIDE DEF C, L
  <2> QED BY <1>0, <2>1
<1>2. \A i \in 1 .. L : line[i] \notin Lex!Marks
  <2>1. \A i \in 1 .. L : line[i] \in Alphabet
    BY <1>0
  <2> QED BY <2>1, FrontEndAssumption
<1>3. place \in [1 .. L -> 1 .. L] /\ \A i \in 1 .. L : place[i] = i
  OBVIOUS
<1> HIDE DEF L, place
<1>4. L + 0 = L /\ 0 \in Nat /\ 0 \in 0 .. L /\ 0 + 1 .. L = 1 .. L /\ 1 .. 0 = {}
  BY <1>0
<1>5. \A i \in 1 .. L : \A j \in i + 1 .. L : place[i] < place[j]
  <2> SUFFICES ASSUME NEW i \in 1 .. L, NEW j \in i + 1 .. L PROVE place[i] < place[j]
    OBVIOUS
  <2>1. j \in 1 .. L /\ i < j
    BY <1>0
  <2> QED BY <1>3, <2>1
<1>6. Laid(line, place, 0, 0)
  <2>1. \A i \in 1 .. L : line[place[i]] = line[i]
    BY <1>3
  <2>2. \A k \in 1 .. L : \E i \in 1 .. L : place[i] = k
    BY <1>3
  <2>3. \A i \in 1 .. L : place[i] = i + 0
    BY <1>0, <1>3
  <2> QED BY <1>1, <1>3, <1>4, <1>5, <2>1, <2>2, <2>3 DEF Laid, L
<1>7. Inked(line, place, ts, 0)
  <2>1. ASSUME NEW i \in 1 .. L PROVE InkAt(line, place[i], "reset")
    <3>1. place[i] = i /\ \A l \in 1 .. i - 1 : l \in 1 .. L
      BY <1>0, <1>3
    <3>2. \A l \in 1 .. i - 1 : line[l] \notin Lex!Marks
      BY <1>2, <3>1
    <3> QED BY <3>1, <3>2 DEF InkAt
  <2> QED BY <1>4, <2>1 DEF Inked, L
<1>8. \A q \in 0 + 1 .. Len(ts) : 0 < ts[q].span[1]
  <2> SUFFICES ASSUME NEW q \in 1 .. Len(ts) PROVE 0 < ts[q].span[1]
    OBVIOUS
  <2>1. 1 <= ts[q].span[1]
    BY DEF Tiled
  <2>2. ts[q].span[1] \in Nat
    BY SpanLemma
  <2> QED BY <2>1, <2>2
<1> DEFINE state == [text |-> line, offset |-> 0]
<1>9. state.text = line /\ state.offset = 0
  OBVIOUS
<1> HIDE DEF state
<1>10. SoFar(ts, 0, state)
  BY <1>4, <1>6, <1>7, <1>8, <1>9 DEF SoFar
<1> QED BY <1>10 DEF state

LEMMA SoFarNext ==
    ASSUME line \in Seq(Alphabet), NEW ts, Tiled(ts, 1), NEW n \in 1 .. Len(ts),
           NEW before, SoFar(ts, n - 1, before)
    PROVE  SoFar(ts, n, PaintedBy(before, ts[n]))
<1> DEFINE t == ts[n]
           a == t.span[1]
           b == t.span[2]
<1>0. Len(line) \in Nat /\ Len(ts) \in Nat /\ n \in Nat \ {0}
  BY DEF Tiled
<1>1. a \in Nat /\ b \in Nat /\ b <= Len(line) /\ (Painted(t) => a <= b)
  <2>1. t \in Tok /\ Lies(t)
    BY DEF Tiled
  <2> QED BY <2>1 DEF Tok, Lies, Painted
<1>2. PICK place, m :
        /\ Laid(before.text, place, before.offset, m)
        /\ Inked(before.text, place, ts, n - 1)
        /\ \A p \in 1 .. n - 1 : Painted(ts[p]) => ts[p].span[2] \in Nat /\ ts[p].span[2] <= m
        /\ \A q \in n - 1 + 1 .. Len(ts) : m < ts[q].span[1]
  BY DEF SoFar
<1>3. m \in 0 .. Len(line) /\ m \in Nat
  BY <1>0, <1>2 DEF Laid
<1>4. n - 1 + 1 = n /\ n \in n - 1 + 1 .. Len(ts) /\ \A q \in n + 1 .. Len(ts) : q \in n - 1 + 1 .. Len(ts)
  BY <1>0
<1>5. \A p \in 1 .. n : p = n \/ p \in 1 .. n - 1
  BY <1>0
<1>6. \A p \in 1 .. n - 1 : p \in 1 .. n
  BY <1>0
<1> HIDE DEF a, b
<1>7. CASE Painted(t)
  <2> DEFINE out == Lex!Paint(before.text, t, before.offset)
             moved == Moved(place, before.offset, a, b)
             after == PaintedBy(before, t)
  <2>1. after = [text |-> out, offset |-> before.offset + 2]
    BY <1>7 DEF PaintedBy, Painted
  <2>2. after.text = out /\ after.offset = before.offset + 2
    BY <2>1
  <2>3. m < a /\ a <= b /\ b <= Len(line) /\ a \in Nat /\ b \in Nat
    <3>1. m < ts[n].span[1]
      BY <1>2, <1>4
    <3> QED BY <1>1, <1>7, <3>1 DEF a
  <2>4. t.span[1] = a /\ t.span[2] = b
    BY DEF a, b
  <2>5. Laid(out, moved, before.offset + 2, b)
    BY <1>2, <1>7, <2>3, <2>4, LaidStep
  <2>6. Inked(out, moved, ts, n)
    BY <1>0, <1>2, <1>7, <2>3, <2>4, InkStep
  <2>7. ASSUME NEW p \in 1 .. n, Painted(ts[p]) PROVE ts[p].span[2] \in Nat /\ ts[p].span[2] <= b
    <3>1. CASE p = n
      BY <2>3, <3>1 DEF b
    <3>2. CASE p \in 1 .. n - 1
      <4>1. ts[p].span[2] \in Nat /\ ts[p].span[2] <= m
        BY <1>2, <2>7, <3>2
      <4> QED BY <1>3, <2>3, <4>1
    <3> QED BY <1>5, <3>1, <3>2
  <2>8. \A q \in n + 1 .. Len(ts) : b < ts[q].span[1]
    BY SpansApart DEF b
  <2> HIDE DEF out, moved, after, t
  <2>9. SoFar(ts, n, after)
    BY <2>2, <2>5, <2>6, <2>7, <2>8 DEF SoFar
  <2> QED BY <2>9 DEF after, t
<1>8. CASE ~Painted(t)
  <2>1. PaintedBy(before, t) = before
    BY <1>8 DEF PaintedBy, Painted
  <2>2. Inked(before.text, place, ts, n)
    <3>1. ASSUME NEW i \in 1 .. Len(line), NEW p \in 1 .. n, Painted(ts[p]), Lex!Within(ts[p], i)
          PROVE  InkAt(before.text, place[i], ts[p].type)
      <4>1. p \in 1 .. n - 1
        BY <1>5, <1>8, <3>1
      <4> QED BY <1>2, <3>1, <4>1 DEF Inked
    <3>2. ASSUME NEW i \in 1 .. Len(line),
                 \A p \in 1 .. n : ~(Painted(ts[p]) /\ Lex!Within(ts[p], i))
          PROVE  InkAt(before.text, place[i], "reset")
      BY <1>2, <1>6, <3>2 DEF Inked
    <3> QED BY <3>1, <3>2 DEF Inked
  <2>3. \A p \in 1 .. n : Painted(ts[p]) => ts[p].span[2] \in Nat /\ ts[p].span[2] <= m
    BY <1>2, <1>5, <1>8
  <2>4. \A q \in n + 1 .. Len(ts) : m < ts[q].span[1]
    BY <1>2, <1>4
  <2>5. SoFar(ts, n, before)
    BY <1>2, <2>2, <2>3, <2>4 DEF SoFar
  <2> QED BY <2>1, <2>5
<1> QED BY <1>7, <1>8

LEMMA PaintedLemma ==
    ASSUME line \in Seq(Alphabet), NEW ts, Tiled(ts, 1)
    PROVE  \E place, offset, m :
               /\ Laid(Lex!format_tokens(line, ts), place, offset, m)
               /\ Inked(Lex!format_tokens(line, ts), place, ts, Len(ts))
<1> DEFINE N == Len(ts)
<1>0. N \in Nat
  BY DEF Tiled
<1>1. PICK f : Painting(f, ts, N) /\ Lex!format_tokens(line, ts) = f[N].text
  BY <1>0, FormatLemma
<1> DEFINE B == {n \in 0 .. N : SoFar(ts, n, f[n])}
<1>2. 0 \in B
  <2>1. f[0] = [text |-> line, offset |-> 0]
    BY <1>1 DEF Painting
  <2>2. SoFar(ts, 0, f[0])
    BY <2>1, SoFarFirst
  <2> QED BY <1>0, <2>2
<1>3. ASSUME NEW n \in 1 .. N, \A k \in 0 .. n - 1 : k \in B PROVE n \in B
  <2>1. n - 1 \in B /\ n \in 0 .. N
    BY <1>0, <1>3
  <2>2. f[n] = PaintedBy(f[n - 1], ts[n])
    BY <1>1 DEF Painting
  <2>3. SoFar(ts, n, PaintedBy(f[n - 1], ts[n]))
    BY <2>1, SoFarNext
  <2> QED BY <2>1, <2>2, <2>3
<1>4. \A n \in 1 .. N : (\A k \in 0 .. n - 1 : k \in B) => n \in B
  BY <1>3
<1> HIDE DEF B
<1>5. N \in B
  <2>1. \A n \in 0 .. N : n \in B
    BY <1>0, <1>2, <1>4, UpTo
  <2> QED BY <1>0, <2>1
<1>6. SoFar(ts, N, f[N])
  BY <1>5 DEF B
<1> QED BY <1>1, <1>6 DEF SoFar

(***************************************************************************)
(* Counting the characters                                                 *)
(***************************************************************************)
LEMMA CardinalitySame == ASSUME NEW S PROVE Lex!Cardinality(S) = Cardinality(S)
  BY Zenon DEF Lex!Cardinality, Cardinality

\* The characters up to k are those of the line up to i.
LEMMA CountLemma ==
    ASSUME line \in Seq(Alphabet), NEW text, NEW place, NEW offset, NEW m, Laid(text, place, offset, m),
           NEW k \in 0 .. Len(text), NEW i \in 0 .. Len(line),
           \A j \in 1 .. Len(line) : place[j] <= k <=> j <= i
    PROVE  Lex!Cardinality({j \in 1 .. k : Lex!IsText(text[j])}) = i
<1> DEFINE L == Len(line)
           S == {j \in 1 .. k : Lex!IsText(text[j])}
           f == [j \in 1 .. i |-> place[j]]
<1>0. L \in Nat /\ offset \in Nat /\ Len(text) = L + offset /\ i \in Nat
  BY DEF Laid
<1>1. /\ place \in [1 .. L -> 1 .. L + offset]
      /\ \A j \in 1 .. L : \A l \in j + 1 .. L : place[j] < place[l]
      /\ \A j \in 1 .. L : text[place[j]] = line[j]
      /\ \A l \in 1 .. L + offset : text[l] \in Lex!Marks \/ \E j \in 1 .. L : place[j] = l
  BY DEF Laid
<1>2. \A j \in 1 .. i : j \in 1 .. L /\ f[j] = place[j]
  BY <1>0
<1>3. ASSUME NEW j \in 1 .. i PROVE f[j] \in S
  <2>1. place[j] \in 1 .. L + offset /\ text[place[j]] = line[j] /\ line[j] \in Alphabet /\ place[j] <= k
    BY <1>1, <1>2
  <2>2. Lex!IsText(text[place[j]])
    BY <2>1, FrontEndAssumption DEF Lex!IsText
  <2>3. place[j] \in 1 .. k
    BY <1>0, <2>1
  <2> QED BY <1>2, <2>2, <2>3
<1>4. ASSUME NEW j \in 1 .. i, NEW l \in 1 .. i, f[j] = f[l] PROVE j = l
  <2>1. j \in 1 .. L /\ l \in 1 .. L /\ place[j] = place[l] /\ place[j] \in Int
    <3>1. j \in 1 .. L /\ l \in 1 .. L
      BY <1>2
    <3>2. place[j] \in 1 .. L + offset
      BY <1>1, <3>1
    <3> QED BY <1>2, <1>4, <3>1, <3>2
  <2>2. ~(j < l)
    <3>1. j < l => l \in j + 1 .. L
      BY <1>0, <2>1
    <3>2. j < l => place[j] < place[l]
      BY <1>1, <2>1, <3>1
    <3> QED BY <2>1, <3>2
  <2>3. ~(l < j)
    <3>1. l < j => j \in l + 1 .. L
      BY <1>0, <2>1
    <3>2. l < j => place[l] < place[j]
      BY <1>1, <2>1, <3>1
    <3> QED BY <2>1, <3>2
  <2> QED BY <1>0, <2>2, <2>3
<1>5. ASSUME NEW l \in S PROVE \E j \in 1 .. i : f[j] = l
  <2>1. l \in 1 .. L + offset /\ text[l] \notin Lex!Marks /\ l <= k
    BY <1>0 DEF Lex!IsText
  <2>2. PICK j \in 1 .. L : place[j] = l
    BY <1>1, <2>1
  <2>3. j <= i
    BY <2>1, <2>2
  <2>4. j \in 1 .. i
    BY <1>0, <2>3
  <2> QED BY <1>2, <2>2, <2>4
<1>6. f \in Bijection(1 .. i, S)
  <2>1. f \in [1 .. i -> S]
    BY <1>3
  <2> HIDE DEF f, S
  <2> QED BY <1>4, <1>5, <2>1 DEF Bijection, Injection, Surjection, IsInjective
<1>7. ExistsBijection(1 .. i, S)
  BY <1>6 DEF ExistsBijection
<1> HIDE DEF S
<1>8. Cardinality(S) = i
  BY <1>0, <1>7, FS_CountingElements
<1> QED BY <1>8, CardinalitySame DEF S

\* The colour in force is the last mark's, and there is only one.
LEMMA InkIs ==
    ASSUME NEW k \in Nat, NEW ink, InkAt(Lex!painted, k, ink)
    PROVE  Lex!Ink(k) = ink
<1> DEFINE text == Lex!painted
           before == {i \in 1 .. k - 1 : text[i] \in Lex!Marks}
           Last(i) == \A j \in before : j <= i
<1>1. Lex!Ink(k) = IF before = {} THEN "reset" ELSE text[CHOOSE i \in before : \A j \in before : j <= i]
  BY DEF Lex!Ink
<1>2. CASE ink = "reset" /\ \A l \in 1 .. k - 1 : text[l] \notin Lex!Marks
  <2>1. before = {}
    BY <1>2
  <2> QED BY <1>1, <1>2, <2>1
<1>3. ASSUME NEW j \in 1 .. k - 1, ink \in Lex!Marks, text[j] = ink,
             \A l \in j + 1 .. k - 1 : text[l] \notin Lex!Marks
      PROVE  Lex!Ink(k) = ink
  <2>1. j \in before
    BY <1>3
  <2>2. ASSUME NEW l \in before PROVE l <= j
    <3>1. l \in 1 .. k - 1 /\ text[l] \in Lex!Marks
      OBVIOUS
    <3>2. l \notin j + 1 .. k - 1
      BY <1>3, <3>1
    <3> QED BY <3>1, <3>2
  <2>3. before \subseteq Nat
    OBVIOUS
  <2> HIDE DEF before
  <2>4. \E i \in before : \A l \in before : l <= i
    BY <2>1, <2>2
  <2> DEFINE i == CHOOSE i \in before : \A l \in before : l <= i
  <2>5. i \in before /\ \A l \in before : l <= i
    BY <2>4
  <2> HIDE DEF i
  <2>6. i = j
    <3>1. i <= j /\ j <= i /\ i \in Nat /\ j \in Nat
      BY <2>1, <2>2, <2>3, <2>5
    <3> QED BY <3>1
  <2>7. before # {}
    BY <2>1
  <2>8. Lex!Ink(k) = text[i]
    BY <1>1, <2>7 DEF i
  <2> QED BY <1>3, <2>6, <2>8
<1> QED BY <1>2, <1>3 DEF InkAt

\* At most one token has a character.
LEMMA OwnToken ==
    ASSUME line \in Seq(Alphabet), NEW ts, Tiled(ts, 1), NEW i \in 1 .. Len(line),
           NEW n \in 1 .. Len(ts), NEW m \in 1 .. Len(ts), Lex!Within(ts[n], i), Lex!Within(ts[m], i)
    PROVE  n = m
<1>0. Len(ts) \in Nat /\ i \in Nat
  BY DEF Tiled
<1>1. ASSUME NEW p \in 1 .. Len(ts), NEW q \in 1 .. Len(ts), Lex!Within(ts[p], i), Lex!Within(ts[q], i), p < q
      PROVE  FALSE
  <2>1. ts[p].span[2] < ts[q].span[1]
    <3>1. q \in p + 1 .. Len(ts)
      BY <1>0, <1>1
    <3> QED BY <3>1, SpansApart
  <2>2. ts[p] \in Tok /\ ts[q] \in Tok
    BY DEF Tiled
  <2>3. ts[p].span[2] \in Nat /\ ts[q].span[1] \in Nat
    BY <2>2 DEF Tok
  <2>4. i <= ts[p].span[2] /\ ts[q].span[1] <= i
    BY <1>1 DEF Lex!Within
  <2> QED BY <1>0, <2>1, <2>3, <2>4
<1>2. ~(n < m) /\ ~(m < n)
  BY <1>1
<1> QED BY <1>0, <1>2

\* The colour of a character is that of its token.
Own(ts, i) == {ts[n].type : n \in {m \in 1 .. Len(ts) : Lex!Within(ts[m], i)}}

OwnInk(ts, i) == IF Own(ts, i) \cap Lex!Coloured = {} THEN "reset" ELSE CHOOSE t \in Own(ts, i) : TRUE

LEMMA ColourLemma ==
    ASSUME line \in Seq(Alphabet), NEW ts, Tiled(ts, 1), NEW i \in 1 .. Len(line),
           NEW text, NEW place, Inked(text, place, ts, Len(ts))
    PROVE  InkAt(text, place[i], OwnInk(ts, i))
<1> DEFINE N == Len(ts)
           own == Own(ts, i)
<1>1. CASE own \cap Lex!Coloured = {}
  <2>1. \A p \in 1 .. N : ~(Painted(ts[p]) /\ Lex!Within(ts[p], i))
    BY <1>1 DEF Own, Painted
  <2>2. InkAt(text, place[i], "reset")
    BY <2>1 DEF Inked
  <2> QED BY <1>1, <2>2 DEF OwnInk
<1>2. CASE own \cap Lex!Coloured # {}
  <2>1. PICK n \in 1 .. N : Lex!Within(ts[n], i) /\ Painted(ts[n])
    BY <1>2 DEF Own, Painted
  <2>2. own = {ts[n].type}
    <3>1. \A m \in 1 .. N : Lex!Within(ts[m], i) => m = n
      BY <2>1, OwnToken
    <3> QED BY <2>1, <3>1 DEF Own
  <2>3. InkAt(text, place[i], ts[n].type)
    BY <2>1 DEF Inked
  <2>4. (CHOOSE t \in own : TRUE) = ts[n].type
    BY <2>2
  <2> QED BY <1>2, <2>3, <2>4 DEF OwnInk
<1> QED BY <1>1, <1>2

LEMMA PaintedAsTypedLemma == Characters => PaintedAsTyped
<1> SUFFICES ASSUME line \in Seq(Alphabet) PROVE PaintedAsTyped
  BY DEF Characters
<1> DEFINE ts == Lex!tokens
           text == Lex!painted
           L == Len(line)
<1>0. L \in Nat
  OBVIOUS
<1>1. Tiled(ts, 1)
  BY TokensTiled
<1>2. text = Lex!format_tokens(line, ts)
  BY DEF Lex!painted
<1> HIDE DEF ts, text
<1>3. PICK place, offset, m : Laid(text, place, offset, m) /\ Inked(text, place, ts, Len(ts))
  BY <1>1, <1>2, PaintedLemma
<1>4. DOMAIN ts = 1 .. Len(ts)
  BY <1>1 DEF Tiled
<1>5. /\ offset \in Nat /\ Len(text) = L + offset /\ DOMAIN text = 1 .. L + offset
      /\ place \in [1 .. L -> 1 .. L + offset]
      /\ \A i \in 1 .. L : \A j \in i + 1 .. L : place[i] < place[j]
      /\ \A i \in 1 .. L : text[place[i]] = line[i]
      /\ \A k \in 1 .. L + offset : text[k] \in Lex!Marks \/ \E i \in 1 .. L : place[i] = k
  BY <1>3 DEF Laid
<1>6. Lex!Place(Len(text)) = L
  <2> DEFINE k == Len(text)
  <2>1. k \in 0 .. Len(text) /\ L \in 0 .. L
    BY <1>0, <1>5
  <2>2. \A j \in 1 .. L : place[j] <= k <=> j <= L
    BY <1>0, <1>5
  <2> HIDE DEF k
  <2>3. Lex!Cardinality({j \in 1 .. k : Lex!IsText(text[j])}) = L
    BY <1>3, <2>1, <2>2, CountLemma
  <2> QED BY <2>3 DEF Lex!Place, k, text
<1>7. ASSUME NEW k \in DOMAIN text, Lex!IsText(text[k])
      PROVE  LET i == Lex!Place(k)
                 own == {ts[n].type : n \in {p \in DOMAIN ts : Lex!Within(ts[p], i)}}
             IN  /\ text[k] = line[i]
                 /\ Lex!Ink(k) = IF own \cap Lex!Coloured = {} THEN "reset" ELSE CHOOSE t \in own : TRUE
  <2>1. k \in 1 .. L + offset /\ text[k] \notin Lex!Marks /\ k \in 0 .. Len(text) /\ k \in Nat
    BY <1>0, <1>5, <1>7 DEF Lex!IsText
  <2>2. PICK i \in 1 .. L : place[i] = k
    BY <1>5, <2>1
  <2>3. i \in 0 .. L
    BY <1>0
  <2>4. ASSUME NEW j \in 1 .. L PROVE place[j] <= k <=> j <= i
    <3>1. place[j] \in Int /\ place[i] \in Int
      <4>1. place[j] \in 1 .. L + offset /\ place[i] \in 1 .. L + offset
        BY <1>5
      <4> QED BY <4>1
    <3>2. j < i => place[j] < place[i]
      <4>1. j < i => i \in j + 1 .. L
        BY <1>0
      <4> QED BY <1>5, <4>1
    <3>3. i < j => place[i] < place[j]
      <4>1. i < j => j \in i + 1 .. L
        BY <1>0
      <4> QED BY <1>5, <4>1
    <3>4. j < i \/ j = i \/ i < j
      BY <1>0
    <3> HIDE DEF L
    <3> QED BY <2>2, <3>1, <3>2, <3>3, <3>4
  <2>5. Lex!Cardinality({j \in 1 .. k : Lex!IsText(text[j])}) = i
    BY <1>3, <2>1, <2>3, <2>4, CountLemma
  <2>6. Lex!Place(k) = i
    BY <2>5 DEF Lex!Place, text
  <2>7. InkAt(text, place[i], OwnInk(ts, i))
    BY <1>1, <1>3, ColourLemma
  <2> DEFINE own == {ts[n].type : n \in {p \in DOMAIN ts : Lex!Within(ts[p], Lex!Place(k))}}
  <2>8. Own(ts, i) = own
    BY <1>4, <2>6 DEF Own
  <2> HIDE DEF own
  <2>9. Lex!Ink(k) = IF own \cap Lex!Coloured = {} THEN "reset" ELSE CHOOSE t \in own : TRUE
    <3>1. InkAt(Lex!painted, k, OwnInk(ts, i))
      BY <2>2, <2>7 DEF text
    <3>2. Lex!Ink(k) = OwnInk(ts, i)
      BY <2>1, <3>1, InkIs
    <3> QED BY <2>8, <3>2 DEF OwnInk
  <2>10. text[k] = line[Lex!Place(k)]
    BY <1>5, <2>2, <2>6
  <2> QED BY <2>9, <2>10 DEF own
<1>8. PaintedAsTyped <=> Lex!PaintedAsTyped
  BY DEF PaintedAsTyped
<1> QED BY <1>6, <1>7, <1>8 DEF Lex!PaintedAsTyped, ts, text, L

\* The painted line has the characters of the line, in order, and each has the colour of
\* the token it belongs to, whatever the line.
THEOREM AlwaysPainted == FESpec => []PaintedAsTyped
<1> QED BY PaintedAsTypedLemma, LineTyped, PTL

-----------------------------------------------------------------------------
(***************************************************************************)
(* The parser.  The tokens of a statement are ts, of any length.           *)
(***************************************************************************)
\* A process from i on, and what ends it.
LEMMA EndLemma ==
    ASSUME NEW S, NEW ts \in Seq(S), NEW i \in 1 .. Len(ts) + 1
    PROVE  /\ EndOf(ts, i) \in i .. Len(ts) + 1
           /\ EndOf(ts, i) <= Len(ts) => Stop(ts[EndOf(ts, i)])
           /\ \A k \in i .. EndOf(ts, i) - 1 : ~Stop(ts[k])
<1> DEFINE B == {k \in i .. Len(ts) : Stop(ts[k])}
           Is(j) == /\ j <= Len(ts) => Stop(ts[j])
                    /\ \A k \in i .. j - 1 : ~Stop(ts[k])
<1>1. PICK j \in i .. Len(ts) + 1 : (j <= Len(ts) => j \in B) /\ \A k \in i .. j - 1 : k \notin B
  <2>1. Len(ts) \in Nat
    OBVIOUS
  <2> QED BY <2>1, FirstPlace
<1>2. Is(j)
  BY <1>1
<1>3. EndOf(ts, i) = CHOOSE m \in i .. Len(ts) + 1 : Is(m)
  BY DEF EndOf
<1> HIDE DEF Is
<1>4. EndOf(ts, i) \in i .. Len(ts) + 1 /\ Is(EndOf(ts, i))
  BY <1>2, <1>3
<1> QED BY <1>4 DEF Is

LEMMA EndIs ==
    ASSUME NEW S, NEW ts \in Seq(S), NEW i \in 1 .. Len(ts) + 1, NEW j \in i .. Len(ts) + 1,
           j <= Len(ts) => Stop(ts[j]), \A k \in i .. j - 1 : ~Stop(ts[k])
    PROVE  EndOf(ts, i) = j
<1> DEFINE e == EndOf(ts, i)
<1>1. e \in i .. Len(ts) + 1 /\ (e <= Len(ts) => Stop(ts[e])) /\ \A k \in i .. e - 1 : ~Stop(ts[k])
  BY EndLemma
<1>2. Len(ts) \in Nat /\ i \in Nat /\ j \in Nat /\ e \in Nat
  BY <1>1
<1> HIDE DEF e
<1>3. ~(e < j)
  <2>1. e < j => e \in i .. j - 1 /\ e <= Len(ts)
    BY <1>1, <1>2
  <2> QED BY <2>1, <1>1
<1>4. ~(j < e)
  <2>1. j < e => j \in i .. e - 1 /\ j <= Len(ts)
    BY <1>1, <1>2
  <2> QED BY <2>1, <1>1
<1>5. e = j
  BY <1>2, <1>3, <1>4
<1> QED BY <1>5 DEF e

\* The words of a process.
Role(t, n) == IF t.type = "error" THEN "error" ELSE IF n = 1 THEN "command" ELSE "argument"

LEMMA ProcessLemma ==
    ASSUME NEW S, NEW ts \in Seq(S), NEW i \in 1 .. Len(ts) + 1
    PROVE  LET p == take_process(ts, i)
               size == EndOf(ts, i) - i
           IN  /\ p.type = "process" /\ size \in Nat
               /\ p.val = [n \in 1 .. size |-> Token(Role(ts[i + n - 1], n), ts[i + n - 1].val)]
<1> DEFINE e == EndOf(ts, i)
           size == e - i
           words == SubSeq(ts, i, e - 1)
<1>1. e \in i .. Len(ts) + 1 /\ Len(ts) \in Nat
  BY EndLemma
<1> HIDE DEF e
<1>2. DOMAIN words = 1 .. size /\ \A n \in 1 .. size : words[n] = ts[i + n - 1]
  <2>1. e - 1 \in i - 1 .. Len(ts)
    BY <1>1
  <2>2. words \in Seq(S) /\ Len(words) = (e - 1) - i + 1 /\ \A n \in 1 .. (e - 1) - i + 1 : words[n] = ts[n + i - 1]
    BY <2>1, PartLemma
  <2>3. (e - 1) - i + 1 = size /\ \A n \in 1 .. size : n + i - 1 = i + n - 1
    BY <1>1
  <2> HIDE DEF words, size
  <2> QED BY <2>2, <2>3
<1>3. take_process(ts, i) =
        [type |-> "process", val |-> [n \in DOMAIN words |-> Token(Role(words[n], n), words[n].val)]]
  BY DEF take_process, Role, e
<1> DEFINE f == [n \in DOMAIN words |-> Token(Role(words[n], n), words[n].val)]
           g == [n \in 1 .. size |-> Token(Role(ts[i + n - 1], n), ts[i + n - 1].val)]
<1>4. f = g
  <2> HIDE DEF words, size
  <2> QED BY <1>2
<1>5. take_process(ts, i) = [type |-> "process", val |-> f]
  BY <1>3
<1> HIDE DEF f, g
<1>6. take_process(ts, i).type = "process" /\ take_process(ts, i).val = g
  BY <1>4, <1>5
<1>7. size \in Nat
  BY <1>1
<1> QED BY <1>6, <1>7 DEF g, e

\* What the parser takes, said of the tokens: a process of words from i up to j.
Taken(ts, i) ==
    /\ EndOf(ts, i) > i /\ ts[i].val # ""
    /\ \A k \in i .. EndOf(ts, i) - 1 : ts[k].type # "error"

LEMMA TakenLemma ==
    ASSUME NEW S, NEW ts \in Seq(S), NEW i \in 1 .. Len(ts) + 1
    PROVE  ValidProcess(take_process(ts, i)) /\ ~HasError(take_process(ts, i)) <=> Taken(ts, i)
<1> DEFINE p == take_process(ts, i)
           e == EndOf(ts, i)
           size == e - i
<1>1. /\ p.type = "process" /\ size \in Nat
      /\ p.val = [n \in 1 .. size |-> Token(Role(ts[i + n - 1], n), ts[i + n - 1].val)]
  BY ProcessLemma
<1>2. e \in i .. Len(ts) + 1
  BY EndLemma
<1> HIDE DEF p, e
<1>3. DOMAIN p.val = 1 .. size
  BY <1>1
<1>4. \A n \in 1 .. size : p.val[n].type = Role(ts[i + n - 1], n) /\ p.val[n].val = ts[i + n - 1].val
  BY <1>1 DEF Token
<1>5. p.val # <<>> <=> size > 0
  BY <1>1, <1>3
<1>6. HasError(p) <=> \E k \in i .. e - 1 : ts[k].type = "error"
  <2>1. HasError(p) <=> \E n \in 1 .. size : ts[i + n - 1].type = "error"
    <3>1. \A n \in 1 .. size : p.val[n].type = "error" <=> ts[i + n - 1].type = "error"
      BY <1>4 DEF Role
    <3> QED BY <3>1, <1>1, <1>3 DEF HasError
  <2>2. \A n \in 1 .. size : i + n - 1 \in i .. e - 1
    BY <1>2
  <2>3. \A k \in i .. e - 1 : k - i + 1 \in 1 .. size /\ i + (k - i + 1) - 1 = k
    BY <1>2
  <2> QED BY <2>1, <2>2, <2>3
<1>7. size > 0 <=> e > i
  BY <1>2
<1>8. ASSUME size > 0 PROVE p.val[1].type = Role(ts[i], 1) /\ p.val[1].val = ts[i].val
  <2>1. 1 \in 1 .. size /\ i + 1 - 1 = i
    BY <1>1, <1>8
  <2> QED BY <2>1, <1>4
<1>9. size > 0 => i \in i .. e - 1
  BY <1>2, <1>7
<1>10. ValidProcess(p) /\ ~HasError(p) <=>
         e > i /\ ts[i].val # "" /\ \A k \in i .. e - 1 : ts[k].type # "error"
  BY <1>1, <1>5, <1>6, <1>7, <1>8, <1>9 DEF ValidProcess, Role
<1> QED BY <1>10 DEF Taken, p, e

(***************************************************************************)
(* A statement is read from its end: induction is on the number of tokens  *)
(* that follow.                                                            *)
(***************************************************************************)
\* What is read from the token at i on, and the place it is read up to.
Read(R, ts, i) ==
    CASE ts[i].type = "pipe" ->
           <<ts[i], take_process(ts, i + 1)>> \o R[EndOf(ts, i + 1)]
      [] ts[i].type = "redir" ->
           <<ts[i]>> \o (IF i = Len(ts) THEN <<>> ELSE <<ts[i + 1]>>) \o R[i + 2]
      [] OTHER -> R[i + 1]

Goes(ts, i) ==
    CASE ts[i].type = "pipe" -> EndOf(ts, i + 1)
      [] ts[i].type = "redir" -> i + 2
      [] OTHER -> i + 1

Reading(R, ts, from) ==
    /\ \A i \in Len(ts) + 1 .. Len(ts) + 2 : R[i] = <<>>
    /\ \A i \in from .. Len(ts) : R[i] = Read(R, ts, i)

LEMMA GoesLemma ==
    ASSUME NEW S, NEW ts \in Seq(S), NEW i \in 1 .. Len(ts)
    PROVE  Goes(ts, i) \in i + 1 .. Len(ts) + 2
<1>1. i + 1 \in 1 .. Len(ts) + 1 /\ i + 2 \in i + 1 .. Len(ts) + 2 /\ i + 1 \in i + 1 .. Len(ts) + 2
  OBVIOUS
<1>2. EndOf(ts, i + 1) \in i + 1 .. Len(ts) + 1
  BY <1>1, EndLemma
<1>3. EndOf(ts, i + 1) \in i + 1 .. Len(ts) + 2
  BY <1>1, <1>2
<1> QED BY <1>1, <1>3 DEF Goes

LEMMA ReadSame ==
    ASSUME NEW ts, NEW i, NEW f, NEW g, f[Goes(ts, i)] = g[Goes(ts, i)]
    PROVE  Read(f, ts, i) = Read(g, ts, i)
  BY DEF Read, Goes

LEMMA ReadingExists ==
    ASSUME NEW S, NEW ts \in Seq(S)
    PROVE  \E f : f = [k \in 1 .. Len(ts) + 2 |-> f[k]] /\ Reading(f, ts, 1)
<1> DEFINE L == Len(ts)
           B == {n \in 0 .. L : \E f : f = [k \in L + 1 - n .. L + 2 |-> f[k]] /\ Reading(f, ts, L + 1 - n)}
<1>0. L \in Nat
  OBVIOUS
<1>1. 0 \in B
  <2> DEFINE f == [i \in L + 1 .. L + 2 |-> <<>>]
  <2>1. L + 1 - 0 = L + 1 /\ L + 1 .. L = {}
    BY <1>0
  <2>2. f = [k \in L + 1 - 0 .. L + 2 |-> f[k]] /\ \A i \in L + 1 .. L + 2 : f[i] = <<>>
    BY <2>1
  <2> HIDE DEF f
  <2>3. Reading(f, ts, L + 1 - 0)
    BY <2>1, <2>2 DEF Reading
  <2> QED BY <1>0, <2>2, <2>3
<1>2. ASSUME NEW n \in 1 .. L, \A m \in 0 .. n - 1 : m \in B PROVE n \in B
  <2> DEFINE i == L + 1 - n
  <2>1. n - 1 \in B /\ L + 1 - (n - 1) = i + 1 /\ i \in 1 .. L
    BY <1>0, <1>2
  <2>2. PICK f : Reading(f, ts, i + 1)
    BY <2>1
  <2> HIDE DEF i
  <2> DEFINE v == Read(f, ts, i)
             g == [k \in i .. L + 2 |-> IF k = i THEN v ELSE f[k]]
  <2>3. g[i] = v /\ \A k \in i + 1 .. L + 2 : g[k] = f[k]
    BY <1>0, <2>1
  <2>4. g = [k \in i .. L + 2 |-> g[k]]
    OBVIOUS
  <2> HIDE DEF g
  <2>5. ASSUME NEW k \in i .. L PROVE g[Goes(ts, k)] = f[Goes(ts, k)]
    <3>1. k \in 1 .. L
      BY <1>0, <2>1
    <3>2. Goes(ts, k) \in k + 1 .. L + 2
      BY <3>1, GoesLemma
    <3>3. Goes(ts, k) \in i + 1 .. L + 2
      BY <1>0, <2>1, <3>2
    <3> QED BY <2>3, <3>3
  <2>6. ASSUME NEW k \in i .. L PROVE g[k] = Read(g, ts, k)
    <3>1. Read(g, ts, k) = Read(f, ts, k)
      BY <2>5, ReadSame
    <3>2. CASE k = i
      BY <2>3, <3>1, <3>2
    <3>3. CASE k # i
      <4>1. k \in i + 1 .. L /\ k \in i + 1 .. L + 2
        BY <1>0, <2>1, <3>3
      <4>2. f[k] = Read(f, ts, k) /\ g[k] = f[k]
        BY <2>2, <2>3, <4>1 DEF Reading
      <4> QED BY <3>1, <4>2
    <3> QED BY <3>2, <3>3
  <2>7. ASSUME NEW k \in L + 1 .. L + 2 PROVE g[k] = <<>>
    <3>1. k \in i + 1 .. L + 2
      BY <1>0, <2>1
    <3>2. f[k] = <<>>
      BY <2>2 DEF Reading
    <3> QED BY <2>3, <3>1, <3>2
  <2>8. Reading(g, ts, i)
    BY <2>6, <2>7 DEF Reading
  <2> QED BY <1>0, <2>4, <2>8 DEF i
<1>3. \A n \in 1 .. L : (\A m \in 0 .. n - 1 : m \in B) => n \in B
  BY <1>2
<1> HIDE DEF B
<1>4. \A n \in 0 .. L : n \in B
  BY <1>0, <1>1, <1>3, UpTo
<1>5. L \in B /\ L + 1 - L = 1
  BY <1>0, <1>4
<1>6. PICK f : f = [k \in L + 1 - L .. L + 2 |-> f[k]] /\ Reading(f, ts, L + 1 - L)
  BY <1>5 DEF B
<1> QED BY <1>5, <1>6

LEMMA StatementRead ==
    ASSUME NEW S, NEW ts \in Seq(S)
    PROVE  \E R : /\ Reading(R, ts, 1)
                  /\ parse_statement(ts) = <<take_process(ts, 1)>> \o R[EndOf(ts, 1)]
<1> DEFINE L == Len(ts)
           Rule(g) == [i \in 1 .. L + 2 |->
                IF i > L THEN <<>>
                ELSE CASE ts[i].type = "pipe" ->
                            <<ts[i], take_process(ts, i + 1)>> \o g[EndOf(ts, i + 1)]
                       [] ts[i].type = "redir" ->
                            <<ts[i]>> \o (IF i = L THEN <<>> ELSE <<ts[i + 1]>>) \o g[i + 2]
                       [] OTHER -> g[i + 1]]
           F(g) == [i \in 1 .. L + 2 |-> IF i > L THEN <<>> ELSE Read(g, ts, i)]
           rest == CHOOSE g : g = Rule(g)
<1>0. L \in Nat
  OBVIOUS
<1>1. PICK f : f = [k \in 1 .. L + 2 |-> f[k]] /\ Reading(f, ts, 1)
  BY ReadingExists
<1>2. \A g : Rule(g) = F(g)
  BY DEF Read
<1>3. f = Rule(f)
  <2>1. ASSUME NEW i \in 1 .. L + 2 PROVE f[i] = IF i > L THEN <<>> ELSE Read(f, ts, i)
    <3>1. CASE i > L
      <4>1. i \in L + 1 .. L + 2
        BY <1>0, <3>1
      <4> QED BY <1>1, <3>1, <4>1 DEF Reading
    <3>2. CASE ~(i > L)
      <4>1. i \in 1 .. L
        BY <1>0, <3>2
      <4> QED BY <1>1, <3>2, <4>1 DEF Reading
    <3> QED BY <3>1, <3>2
  <2>2. f = F(f)
    BY <1>1, <2>1
  <2> HIDE DEF F, Rule
  <2> QED BY <1>2, <2>2
<1>4. rest = Rule(rest)
  <2> HIDE DEF Rule
  <2> QED BY <1>3
<1>5. parse_statement(ts) = <<take_process(ts, 1)>> \o rest[EndOf(ts, 1)]
  BY DEF parse_statement
<1>6. rest = F(rest)
  <2> HIDE DEF F, Rule, rest
  <2> QED BY <1>2, <1>4
<1> HIDE DEF rest
<1>7. Reading(rest, ts, 1)
  <2>1. ASSUME NEW i \in L + 1 .. L + 2 PROVE rest[i] = <<>>
    <3>1. i \in 1 .. L + 2 /\ i > L
      BY <1>0
    <3> QED BY <1>6, <3>1
  <2>2. ASSUME NEW i \in 1 .. L PROVE rest[i] = Read(rest, ts, i)
    <3>1. i \in 1 .. L + 2 /\ ~(i > L)
      BY <1>0
    <3> QED BY <1>6, <3>1
  <2> QED BY <2>1, <2>2 DEF Reading
<1> QED BY <1>5, <1>7

\* The nodes of a statement.
Nodes(ts) == {ts[k] : k \in 1 .. Len(ts)} \cup {take_process(ts, k) : k \in 1 .. Len(ts) + 1}

LEMMA OneBefore ==
    ASSUME NEW T, NEW a \in T, NEW s \in Seq(T)
    PROVE  /\ <<a>> \o s \in Seq(T) /\ Len(<<a>> \o s) = Len(s) + 1
           /\ (<<a>> \o s)[1] = a /\ \A k \in 1 .. Len(s) : (<<a>> \o s)[k + 1] = s[k]
  OBVIOUS

LEMMA TwoBefore ==
    ASSUME NEW T, NEW a \in T, NEW b \in T, NEW s \in Seq(T)
    PROVE  /\ <<a, b>> \o s \in Seq(T) /\ Len(<<a, b>> \o s) = Len(s) + 2
           /\ (<<a, b>> \o s)[1] = a /\ (<<a, b>> \o s)[2] = b
           /\ \A k \in 1 .. Len(s) : (<<a, b>> \o s)[k + 2] = s[k]
  OBVIOUS

LEMMA TokenNode ==
    ASSUME NEW S, NEW ts \in Seq(S), NEW i \in 1 .. Len(ts)
    PROVE  ts[i] \in Nodes(ts)
  BY DEF Nodes

LEMMA ProcessNode ==
    ASSUME NEW S, NEW ts \in Seq(S), NEW i \in 1 .. Len(ts) + 1
    PROVE  take_process(ts, i) \in Nodes(ts)
  BY DEF Nodes

\* What a pipe, and what a redirection, puts before the nodes that follow.
LEMMA PipeRead ==
    ASSUME NEW S, NEW ts \in Seq(S), NEW R, NEW i \in 1 .. Len(ts), ts[i].type = "pipe",
           R[i] = Read(R, ts, i), R[EndOf(ts, i + 1)] \in Seq(Nodes(ts))
    PROVE  LET s == R[EndOf(ts, i + 1)]
           IN  /\ R[i] \in Seq(Nodes(ts)) /\ Len(R[i]) = Len(s) + 2
               /\ R[i][1] = ts[i] /\ R[i][2] = take_process(ts, i + 1)
               /\ \A k \in 1 .. Len(s) : R[i][k + 2] = s[k]
<1> DEFINE s == R[EndOf(ts, i + 1)]
           p == take_process(ts, i + 1)
           t == ts[i]
<1>1. R[i] = <<t, p>> \o s
  BY DEF Read
<1>2. t \in Nodes(ts) /\ p \in Nodes(ts)
  <2>1. i + 1 \in 1 .. Len(ts) + 1
    OBVIOUS
  <2> QED BY <2>1, TokenNode, ProcessNode
<1>3. s \in Seq(Nodes(ts))
  OBVIOUS
<1> HIDE DEF s, p, t
<1>4. R[i] \in Seq(Nodes(ts)) /\ Len(R[i]) = Len(s) + 2 /\ R[i][1] = t /\ R[i][2] = p
      /\ \A k \in 1 .. Len(s) : R[i][k + 2] = s[k]
  BY <1>1, <1>2, <1>3, TwoBefore
<1> QED BY <1>4 DEF s, p, t

LEMMA RedirRead ==
    ASSUME NEW S, NEW ts \in Seq(S), NEW R, NEW i \in 1 .. Len(ts), ts[i].type = "redir",
           R[i] = Read(R, ts, i), R[i + 2] \in Seq(Nodes(ts)), i = Len(ts) => R[i + 2] = <<>>
    PROVE  LET s == R[i + 2]
           IN  /\ R[i] \in Seq(Nodes(ts)) /\ R[i][1] = ts[i]
               /\ i = Len(ts) => Len(R[i]) = 1
               /\ i # Len(ts) => /\ Len(R[i]) = Len(s) + 2 /\ R[i][2] = ts[i + 1]
                                 /\ \A k \in 1 .. Len(s) : R[i][k + 2] = s[k]
<1> DEFINE s == R[i + 2]
           t == ts[i]
           u == ts[i + 1]
<1>0. t \in Nodes(ts) /\ s \in Seq(Nodes(ts))
  BY TokenNode
<1>1. CASE i = Len(ts)
  <2>1. R[i] = <<t>> \o <<>> \o s /\ s = <<>>
    BY <1>1 DEF Read
  <2> HIDE DEF s, t
  <2>2. R[i] = <<t>>
    BY <1>0, <2>1
  <2>3. R[i] \in Seq(Nodes(ts)) /\ Len(R[i]) = 1 /\ R[i][1] = t
    BY <1>0, <2>2
  <2> QED BY <1>1, <2>3 DEF t
<1>2. CASE i # Len(ts)
  <2>1. R[i] = <<t>> \o <<u>> \o s
    BY <1>2 DEF Read
  <2>2. u \in Nodes(ts)
    <3>1. i + 1 \in 1 .. Len(ts)
      BY <1>2
    <3> QED BY <3>1, TokenNode
  <2> HIDE DEF s, t, u
  <2>3. R[i] = <<t, u>> \o s
    <3> DEFINE v == <<t>> \o <<u>>
               w == <<t, u>>
    <3>2. v \in Seq(Nodes(ts)) /\ Len(v) = 2 /\ v[1] = t /\ v[2] = u
      BY <1>0, <2>2
    <3>3. w \in Seq(Nodes(ts)) /\ Len(w) = 2 /\ w[1] = t /\ w[2] = u
      BY <1>0, <2>2
    <3> HIDE DEF v, w
    <3>4. v = w
      BY <3>2, <3>3
    <3>1. <<t>> \o <<u>> = <<t, u>>
      BY <3>4 DEF v, w
    <3> QED BY <2>1, <3>1
  <2>4. R[i] \in Seq(Nodes(ts)) /\ Len(R[i]) = Len(s) + 2 /\ R[i][1] = t /\ R[i][2] = u
        /\ \A k \in 1 .. Len(s) : R[i][k + 2] = s[k]
    BY <1>0, <2>2, <2>3, TwoBefore
  <2> QED BY <1>2, <2>4 DEF s, t, u
<1> QED BY <1>1, <1>2

LEMMA RestTyped ==
    ASSUME NEW S, NEW ts \in Seq(S), NEW R, Reading(R, ts, 1)
    PROVE  \A i \in 1 .. Len(ts) + 2 : R[i] \in Seq(Nodes(ts))
<1> DEFINE L == Len(ts)
           B == {m \in 0 .. L + 1 : R[L + 2 - m] \in Seq(Nodes(ts))}
<1>0. L \in Nat /\ L + 1 \in Nat
  OBVIOUS
<1>1. <<>> \in Seq(Nodes(ts))
  OBVIOUS
<1>2. \A i \in L + 1 .. L + 2 : R[i] = <<>>
  BY DEF Reading
<1>3. 0 \in B
  <2>1. L + 2 - 0 = L + 2 /\ L + 2 \in L + 1 .. L + 2 /\ 0 \in 0 .. L + 1
    BY <1>0
  <2>2. R[L + 2 - 0] = <<>>
    BY <1>2, <2>1
  <2> QED BY <1>1, <2>1, <2>2
<1>4. ASSUME NEW m \in 1 .. L + 1, \A k \in 0 .. m - 1 : k \in B PROVE m \in B
  <2> DEFINE i == L + 2 - m
  <2>1. i \in 1 .. L + 1 /\ m \in 0 .. L + 1
    BY <1>0
  <2>2. ASSUME NEW j \in i + 1 .. L + 2 PROVE R[j] \in Seq(Nodes(ts))
    <3>1. L + 2 - j \in 0 .. m - 1 /\ L + 2 - (L + 2 - j) = j
      BY <1>0, <2>1
    <3>2. R[L + 2 - (L + 2 - j)] \in Seq(Nodes(ts))
      <4> HIDE DEF L
      <4> QED BY <1>4, <3>1
    <3> QED BY <3>1, <3>2
  <2> HIDE DEF i
  <2>3. R[i] \in Seq(Nodes(ts))
    <3>1. CASE i = L + 1
      <4>1. i \in L + 1 .. L + 2
        BY <1>0, <3>1
      <4> QED BY <1>1, <1>2, <4>1
    <3>2. CASE i # L + 1
      <4>1. i \in 1 .. L
        BY <1>0, <2>1, <3>2
      <4>2. R[i] = Read(R, ts, i)
        BY <4>1 DEF Reading
      <4>3. Goes(ts, i) \in i + 1 .. L + 2
        BY <4>1, GoesLemma
      <4>4. R[Goes(ts, i)] \in Seq(Nodes(ts))
        BY <2>2, <4>3
      <4>5. CASE ts[i].type = "pipe"
        <5>1. Goes(ts, i) = EndOf(ts, i + 1)
          BY <4>5 DEF Goes
        <5> QED BY <4>1, <4>2, <4>4, <4>5, <5>1, PipeRead
      <4>6. CASE ts[i].type = "redir"
        <5>1. Goes(ts, i) = i + 2
          BY <4>6 DEF Goes
        <5>2. i = L => R[i + 2] = <<>>
          <6>1. i = L => i + 2 \in L + 1 .. L + 2
            BY <1>0
          <6> QED BY <1>2, <6>1
        <5> QED BY <4>1, <4>2, <4>4, <4>6, <5>1, <5>2, RedirRead
      <4>7. CASE ts[i].type # "pipe" /\ ts[i].type # "redir"
        BY <4>2, <4>4, <4>7 DEF Read, Goes
      <4> QED BY <4>5, <4>6, <4>7
    <3> QED BY <3>1, <3>2
  <2> QED BY <2>1, <2>3 DEF i
<1>5. \A m \in 1 .. L + 1 : (\A k \in 0 .. m - 1 : k \in B) => m \in B
  BY <1>4
<1> HIDE DEF B
<1>6. \A m \in 0 .. L + 1 : m \in B
  BY <1>0, <1>3, <1>5, UpTo
<1>7. ASSUME NEW i \in 1 .. L + 2 PROVE R[i] \in Seq(Nodes(ts))
  <2>1. L + 2 - i \in B /\ L + 2 - (L + 2 - i) = i
    BY <1>0, <1>6
  <2> QED BY <2>1 DEF B
<1> QED BY <1>7

(***************************************************************************)
(* The grammar, said of places.                                            *)
(***************************************************************************)
ProcessIn(ts, i, j) == i <= j /\ ts[i].val # "" /\ \A k \in i .. j : IsWord(ts[k])

TargetAt(ts, i) ==
    /\ ts[i].type = "redir" /\ ts[i].val \in {">", ">>"}
    /\ ts[i + 1].type \in {"identifier", "string"} /\ ts[i + 1].val # ""

PipeAt(ts, e) ==
    e \in 1 .. Len(ts) /\ ts[e].type = "pipe" /\ ProcessIn(ts, 1, e - 1)

\* The four forms of a statement.
Alone(ts) == ProcessIn(ts, 1, Len(ts))
Redirected(ts) == ProcessIn(ts, 1, Len(ts) - 2) /\ TargetAt(ts, Len(ts) - 1)
Piped(ts, e) == PipeAt(ts, e) /\ ProcessIn(ts, e + 1, Len(ts))
PipedOut(ts, e) ==
    /\ PipeAt(ts, e) /\ ProcessIn(ts, e + 1, Len(ts) - 2)
    /\ TargetAt(ts, Len(ts) - 1) /\ ts[Len(ts)].type = "identifier"

LEMMA ProcessPart ==
    ASSUME NEW S, NEW ts \in Seq(S), NEW i \in 1 .. Len(ts) + 1, NEW j \in i - 1 .. Len(ts)
    PROVE  IsProcess(SubSeq(ts, i, j)) <=> ProcessIn(ts, i, j)
<1> DEFINE s == SubSeq(ts, i, j)
           size == j - i + 1
<1>1. s \in Seq(S) /\ Len(s) = size /\ \A k \in 1 .. size : s[k] = ts[k + i - 1]
  BY PartLemma
<1>2. size \in Nat /\ i \in Nat /\ j \in Nat
  OBVIOUS
<1> HIDE DEF s
<1>3. DOMAIN s = 1 .. size /\ (s # <<>> <=> i <= j)
  BY <1>1, <1>2
<1>4. ASSUME i <= j PROVE s[1] = ts[i]
  <2>1. 1 \in 1 .. size /\ 1 + i - 1 = i
    BY <1>2, <1>4
  <2> QED BY <1>1, <2>1
<1>5. (\A k \in DOMAIN s : IsWord(s[k])) <=> \A k \in i .. j : IsWord(ts[k])
  <2>1. \A k \in i .. j : k - i + 1 \in 1 .. size /\ (k - i + 1) + i - 1 = k
    BY <1>2
  <2>2. \A k \in 1 .. size : k + i - 1 \in i .. j
    BY <1>2
  <2>3. ASSUME NEW k \in i .. j, \A m \in DOMAIN s : IsWord(s[m]) PROVE IsWord(ts[k])
    <3>1. s[k - i + 1] = ts[(k - i + 1) + i - 1]
      BY <1>1, <2>1
    <3> QED BY <1>3, <2>1, <2>3, <3>1
  <2>4. ASSUME NEW m \in DOMAIN s, \A k \in i .. j : IsWord(ts[k]) PROVE IsWord(s[m])
    BY <1>1, <1>3, <2>2, <2>4
  <2> QED BY <2>3, <2>4
<1>6. IsProcess(s) <=> ProcessIn(ts, i, j)
  BY <1>3, <1>4, <1>5 DEF IsProcess, ProcessIn
<1> QED BY <1>6 DEF s

LEMMA TargetPart ==
    ASSUME NEW S, NEW ts \in Seq(S), NEW i \in 0 .. Len(ts)
    PROVE  IsTarget(After(ts, i)) <=> i = Len(ts) - 2 /\ TargetAt(ts, Len(ts) - 1)
<1> DEFINE s == After(ts, i)
           n == Len(ts)
<1>1. s \in Seq(S) /\ Len(s) = n - (i + 1) + 1 /\ \A k \in 1 .. n - (i + 1) + 1 : s[k] = ts[k + (i + 1) - 1]
  <2>1. i + 1 \in 1 .. n + 1 /\ n \in (i + 1) - 1 .. n
    OBVIOUS
  <2> QED BY <2>1, PartLemma DEF After
<1>2. n \in Nat /\ i \in Nat
  OBVIOUS
<1> HIDE DEF s, n
<1>3. Len(s) = 2 <=> i = n - 2
  BY <1>1, <1>2
<1>4. ASSUME i = n - 2 PROVE s[1] = ts[n - 1] /\ s[2] = ts[(n - 1) + 1]
  <2>1. n - (i + 1) + 1 = 2 /\ 1 + (i + 1) - 1 = n - 1 /\ 2 + (i + 1) - 1 = (n - 1) + 1
    BY <1>2, <1>4
  <2>2. 1 \in 1 .. n - (i + 1) + 1 /\ 2 \in 1 .. n - (i + 1) + 1
    BY <1>2, <2>1
  <2>3. s[1] = ts[1 + (i + 1) - 1] /\ s[2] = ts[2 + (i + 1) - 1]
    BY <1>1, <2>2
  <2> QED BY <2>1, <2>3
<1>5. IsTarget(s) <=> i = n - 2 /\ TargetAt(ts, n - 1)
  BY <1>3, <1>4 DEF IsTarget, TargetAt
<1> QED BY <1>5 DEF s, n

\* A part of a statement, seen from the statement.
LEMMA AfterPart ==
    ASSUME NEW S, NEW ts \in Seq(S), NEW e \in 1 .. Len(ts)
    PROVE  LET out == After(ts, e)
           IN  /\ out \in Seq(S) /\ Len(out) = Len(ts) - e
               /\ \A k \in 1 .. Len(ts) - e : out[k] = ts[k + e]
<1>1. e + 1 \in 1 .. Len(ts) + 1 /\ Len(ts) \in (e + 1) - 1 .. Len(ts)
  OBVIOUS
<1>2. LET out == After(ts, e)
      IN  /\ out \in Seq(S) /\ Len(out) = Len(ts) - (e + 1) + 1
          /\ \A k \in 1 .. Len(ts) - (e + 1) + 1 : out[k] = ts[k + (e + 1) - 1]
  BY <1>1, PartLemma DEF After
<1>3. Len(ts) - (e + 1) + 1 = Len(ts) - e /\ \A k \in 1 .. Len(ts) - e : k + (e + 1) - 1 = k + e
  OBVIOUS
<1> QED BY <1>2, <1>3

LEMMA ProcessAfter ==
    ASSUME NEW S, NEW ts \in Seq(S), NEW e \in 1 .. Len(ts), NEW j \in 0 .. Len(ts) - e
    PROVE  ProcessIn(After(ts, e), 1, j) <=> ProcessIn(ts, e + 1, e + j)
<1> DEFINE out == After(ts, e)
<1>1. Len(ts) \in Nat /\ \A k \in 1 .. Len(ts) - e : out[k] = ts[k + e]
  BY AfterPart
<1> HIDE DEF out
<1>2. 1 <= j <=> e + 1 <= e + j
  BY <1>1
<1>3. ASSUME 1 <= j PROVE out[1] = ts[e + 1]
  <2>1. 1 \in 1 .. Len(ts) - e /\ 1 + e = e + 1
    BY <1>1, <1>3
  <2> QED BY <1>1, <2>1
<1>4. (\A k \in 1 .. j : IsWord(out[k])) <=> \A k \in e + 1 .. e + j : IsWord(ts[k])
  <2>1. \A k \in e + 1 .. e + j : k - e \in 1 .. j /\ k - e \in 1 .. Len(ts) - e /\ (k - e) + e = k
    BY <1>1
  <2>2. \A k \in 1 .. j : k + e \in e + 1 .. e + j /\ k \in 1 .. Len(ts) - e
    BY <1>1
  <2>3. ASSUME NEW k \in e + 1 .. e + j, \A m \in 1 .. j : IsWord(out[m]) PROVE IsWord(ts[k])
    <3>1. out[k - e] = ts[(k - e) + e]
      BY <1>1, <2>1
    <3> QED BY <2>1, <2>3, <3>1
  <2>4. ASSUME NEW m \in 1 .. j, \A k \in e + 1 .. e + j : IsWord(ts[k]) PROVE IsWord(out[m])
    BY <1>1, <2>2, <2>4
  <2> QED BY <2>3, <2>4
<1>5. ProcessIn(out, 1, j) <=> ProcessIn(ts, e + 1, e + j)
  BY <1>2, <1>3, <1>4 DEF ProcessIn
<1> QED BY <1>5 DEF out

LEMMA PipedLemma ==
    ASSUME NEW S, NEW ts \in Seq(S)
    PROVE  IsPiped(ts) <=> \E e \in 1 .. Len(ts) : Piped(ts, e) \/ PipedOut(ts, e)
<1> DEFINE n == Len(ts)
           Outs(e) == LET out == After(ts, e)
                      IN  \/ IsProcess(out)
                          \/ \E j \in DOMAIN out :
                               /\ IsProcess(Upto(out, j)) /\ IsTarget(After(out, j))
                               /\ out[Len(out)].type = "identifier"
<1>0. n \in Nat /\ DOMAIN ts = 1 .. n
  OBVIOUS
<1>1. ASSUME NEW e \in 1 .. n
      PROVE  Outs(e) <=> \/ ProcessIn(ts, e + 1, n)
                         \/ /\ ProcessIn(ts, e + 1, n - 2)
                            /\ TargetAt(ts, n - 1) /\ ts[n].type = "identifier"
  <2> DEFINE out == After(ts, e)
  <2>1. out \in Seq(S) /\ Len(out) = n - e /\ \A k \in 1 .. n - e : out[k] = ts[k + e]
    BY AfterPart
  <2>2. \A j \in 0 .. n - e : ProcessIn(out, 1, j) <=> ProcessIn(ts, e + 1, e + j)
    BY ProcessAfter
  <2>3. Outs(e) <=> \/ IsProcess(out)
                    \/ \E j \in DOMAIN out :
                         /\ IsProcess(Upto(out, j)) /\ IsTarget(After(out, j))
                         /\ out[Len(out)].type = "identifier"
    OBVIOUS
  <2> HIDE DEF out, Outs, n
  <2>4. IsProcess(out) <=> ProcessIn(ts, e + 1, n)
    <3>1. SubSeq(out, 1, Len(out)) = out
      BY <2>1
    <3>2. Len(out) \in 1 - 1 .. Len(out) /\ 1 \in 1 .. Len(out) + 1
      BY <1>0, <2>1
    <3>3. IsProcess(SubSeq(out, 1, Len(out))) <=> ProcessIn(out, 1, Len(out))
      BY <2>1, <3>2, ProcessPart
    <3>4. n - e \in 0 .. n - e /\ e + (n - e) = n
      BY <1>0
    <3>5. ProcessIn(out, 1, n - e) <=> ProcessIn(ts, e + 1, n)
      BY <2>2, <3>4
    <3> QED BY <2>1, <3>1, <3>3, <3>5
  <2>5. ASSUME NEW j \in 1 .. n - e
        PROVE  IsProcess(Upto(out, j)) /\ IsTarget(After(out, j)) <=>
                 e + j = n - 2 /\ ProcessIn(ts, e + 1, e + j) /\ TargetAt(ts, n - 1)
    <3>1. IsProcess(Upto(out, j)) <=> ProcessIn(out, 1, j)
      <4>1. j \in 1 - 1 .. Len(out) /\ 1 \in 1 .. Len(out) + 1
        BY <1>0, <2>1
      <4> QED BY <2>1, <4>1, ProcessPart DEF Upto
    <3>2. j \in 0 .. n - e /\ j \in 0 .. Len(out)
      BY <1>0, <2>1
    <3>3. IsTarget(After(out, j)) <=> j = Len(out) - 2 /\ TargetAt(out, Len(out) - 1)
      BY <2>1, <3>2, TargetPart
    <3>4. j = Len(out) - 2 <=> e + j = n - 2
      BY <1>0, <2>1
    <3>5. ASSUME e + j = n - 2 PROVE TargetAt(out, Len(out) - 1) <=> TargetAt(ts, n - 1)
      <4> DEFINE k == Len(out) - 1
      <4>1. /\ k \in 1 .. n - e /\ k + 1 \in 1 .. n - e
            /\ k + e = n - 1 /\ (k + 1) + e = (n - 1) + 1
        BY <1>0, <2>1, <3>5
      <4>2. out[k] = ts[k + e] /\ out[k + 1] = ts[(k + 1) + e]
        BY <2>1, <4>1
      <4> HIDE DEF k
      <4>3. out[k] = ts[n - 1] /\ out[k + 1] = ts[(n - 1) + 1]
        BY <4>1, <4>2
      <4>4. TargetAt(out, k) <=> TargetAt(ts, n - 1)
        BY <4>3 DEF TargetAt
      <4> QED BY <4>4 DEF k
    <3> QED BY <2>2, <3>1, <3>2, <3>3, <3>4, <3>5
  <2>6. ASSUME e < n PROVE out[Len(out)] = ts[n]
    <3>1. n - e \in 1 .. n - e /\ (n - e) + e = n
      BY <1>0, <2>6
    <3> QED BY <2>1, <3>1
  <2>7. DOMAIN out = 1 .. n - e
    BY <2>1
  <2>8. ASSUME NEW j \in 1 .. n - e, IsProcess(Upto(out, j)), IsTarget(After(out, j)),
               out[Len(out)].type = "identifier"
        PROVE  ProcessIn(ts, e + 1, n - 2) /\ TargetAt(ts, n - 1) /\ ts[n].type = "identifier"
    <3>1. e < n
      BY <1>0
    <3> QED BY <2>5, <2>6, <2>8, <3>1
  <2>9. ASSUME ProcessIn(ts, e + 1, n - 2), TargetAt(ts, n - 1), ts[n].type = "identifier"
        PROVE  \E j \in DOMAIN out :
                 /\ IsProcess(Upto(out, j)) /\ IsTarget(After(out, j))
                 /\ out[Len(out)].type = "identifier"
    <3> DEFINE j == n - 2 - e
    <3>1. e + 1 <= n - 2
      BY <2>9 DEF ProcessIn
    <3>2. e < n /\ j \in 1 .. n - e /\ e + j = n - 2
      BY <1>0, <3>1
    <3> HIDE DEF j
    <3>3. IsProcess(Upto(out, j)) /\ IsTarget(After(out, j))
      BY <2>5, <2>9, <3>2
    <3> QED BY <2>6, <2>7, <2>9, <3>2, <3>3
  <2> QED BY <2>3, <2>4, <2>7, <2>8, <2>9
<1>2. ASSUME NEW e \in 1 .. n PROVE IsProcess(Upto(ts, e - 1)) <=> ProcessIn(ts, 1, e - 1)
  <2>1. 1 \in 1 .. n + 1 /\ e - 1 \in 1 - 1 .. n
    BY <1>0
  <2> QED BY <2>1, ProcessPart DEF Upto
<1>3. IsPiped(ts) <=> \E e \in 1 .. n :
        ts[e].type = "pipe" /\ IsProcess(Upto(ts, e - 1)) /\ Outs(e)
  BY <1>0 DEF IsPiped
<1> HIDE DEF Outs
<1>4. \A e \in 1 .. n :
        ts[e].type = "pipe" /\ IsProcess(Upto(ts, e - 1)) /\ Outs(e) <=> Piped(ts, e) \/ PipedOut(ts, e)
  BY <1>1, <1>2 DEF Piped, PipedOut, PipeAt
<1> QED BY <1>3, <1>4

LEMMA GrammarLemma ==
    ASSUME NEW S, NEW ts \in Seq(S)
    PROVE  Grammatical(ts) <=>
             \/ Alone(ts) \/ Redirected(ts)
             \/ \E e \in 1 .. Len(ts) : Piped(ts, e) \/ PipedOut(ts, e)
<1> DEFINE n == Len(ts)
<1>0. n \in Nat /\ DOMAIN ts = 1 .. n
  OBVIOUS
<1>1. IsProcess(ts) <=> Alone(ts)
  <2>1. SubSeq(ts, 1, n) = ts
    OBVIOUS
  <2>2. 1 \in 1 .. n + 1 /\ n \in 1 - 1 .. n
    BY <1>0
  <2>3. IsProcess(SubSeq(ts, 1, n)) <=> ProcessIn(ts, 1, n)
    BY <2>2, ProcessPart
  <2> QED BY <2>1, <2>3 DEF Alone
<1>2. (\E i \in DOMAIN ts : IsProcess(Upto(ts, i)) /\ IsTarget(After(ts, i))) <=> Redirected(ts)
  <2>1. ASSUME NEW i \in 1 .. n
        PROVE  IsProcess(Upto(ts, i)) /\ IsTarget(After(ts, i)) <=>
                 ProcessIn(ts, 1, i) /\ i = n - 2 /\ TargetAt(ts, n - 1)
    <3>1. 1 \in 1 .. n + 1 /\ i \in 1 - 1 .. n /\ i \in 0 .. n
      BY <1>0
    <3>2. IsProcess(SubSeq(ts, 1, i)) <=> ProcessIn(ts, 1, i)
      BY <3>1, ProcessPart
    <3>3. IsTarget(After(ts, i)) <=> i = n - 2 /\ TargetAt(ts, n - 1)
      BY <3>1, TargetPart
    <3> QED BY <3>2, <3>3 DEF Upto
  <2>2. ASSUME Redirected(ts) PROVE n - 2 \in 1 .. n
    <3>1. 1 <= n - 2
      BY <2>2 DEF Redirected, ProcessIn
    <3> QED BY <1>0, <3>1
  <2> HIDE DEF n
  <2>3. Redirected(ts) <=> ProcessIn(ts, 1, n - 2) /\ TargetAt(ts, n - 1)
    BY DEF Redirected, n
  <2> QED BY <1>0, <2>1, <2>2, <2>3
<1> QED BY <1>1, <1>2, PipedLemma DEF Grammatical

(***************************************************************************)
(* The nodes of each form                                                  *)
(***************************************************************************)
LexicalTokens(ts) == \A k \in 1 .. Len(ts) : Lexical(ts[k])

LEMMA LexicalFacts ==
    ASSUME NEW t, Lexical(t)
    PROVE  /\ t.type \in {"pipe", "redir", "fd", "identifier", "string", "error"}
           /\ t.type = "pipe" => t.val \in pipe_set
           /\ t.type = "redir" => t.val \in redir_set
           /\ t.type = "identifier" => t.val \notin Operators
           /\ t.type = "error" => t.val \notin Operators
           /\ t.type \in {"pipe", "redir", "fd"} => Stop(t)
           /\ Stop(t) => t.type \in {"pipe", "redir", "fd", "string"}
  BY DEF Lexical, Stop, Operators, pipe_set, redir_set, fd_set

LEMMA WordsTaken ==
    ASSUME NEW S, NEW ts \in Seq(S), NEW i \in 1 .. Len(ts), NEW j \in i .. Len(ts),
           ProcessIn(ts, i, j), j < Len(ts) => Stop(ts[j + 1])
    PROVE  EndOf(ts, i) = j + 1 /\ Taken(ts, i)
<1>1. EndOf(ts, i) = j + 1
  <2>1. i \in 1 .. Len(ts) + 1 /\ j + 1 \in i .. Len(ts) + 1 /\ (j + 1 <= Len(ts) => j < Len(ts))
    OBVIOUS
  <2>2. \A k \in i .. (j + 1) - 1 : ~Stop(ts[k])
    <3>1. (j + 1) - 1 = j
      OBVIOUS
    <3>2. \A k \in i .. j : IsWord(ts[k])
      BY DEF ProcessIn
    <3>3. \A k \in i .. j : ~Stop(ts[k])
      BY <3>2 DEF IsWord, Stop
    <3> QED BY <3>1, <3>3
  <2> DEFINE m == j + 1
  <2>3. m \in i .. Len(ts) + 1 /\ (m <= Len(ts) => Stop(ts[m])) /\ \A k \in i .. m - 1 : ~Stop(ts[k])
    BY <2>1, <2>2
  <2> HIDE DEF m
  <2>4. EndOf(ts, i) = m
    BY <2>1, <2>3, EndIs
  <2> QED BY <2>4 DEF m
<1>2. j + 1 > i /\ (j + 1) - 1 = j
  OBVIOUS
<1>3. ts[i].val # "" /\ \A k \in i .. j : ts[k].type # "error"
  BY DEF ProcessIn, IsWord
<1> QED BY <1>1, <1>2, <1>3 DEF Taken

\* How a statement's nodes are read.
Reads(R, ts) ==
    /\ \A i \in Len(ts) + 1 .. Len(ts) + 2 : R[i] = <<>>
    /\ \A i \in 1 .. Len(ts) : R[i] = Read(R, ts, i)
    /\ \A i \in 1 .. Len(ts) + 2 : R[i] \in Seq(Nodes(ts))
    /\ LET nodes == parse_statement(ts)
           s == R[EndOf(ts, 1)]
       IN  /\ nodes \in Seq(Nodes(ts)) /\ Len(nodes) = Len(s) + 1
           /\ nodes[1] = take_process(ts, 1) /\ \A k \in 1 .. Len(s) : nodes[k + 1] = s[k]

LEMMA StatementNodes ==
    ASSUME NEW S, NEW ts \in Seq(S)
    PROVE  \E R : Reads(R, ts)
<1>1. PICK R : Reading(R, ts, 1) /\ parse_statement(ts) = <<take_process(ts, 1)>> \o R[EndOf(ts, 1)]
  BY StatementRead
<1>2. \A i \in 1 .. Len(ts) + 2 : R[i] \in Seq(Nodes(ts))
  BY <1>1, RestTyped
<1>3. EndOf(ts, 1) \in 1 .. Len(ts) + 2 /\ take_process(ts, 1) \in Nodes(ts)
  <2>1. 1 \in 1 .. Len(ts) + 1
    OBVIOUS
  <2>2. EndOf(ts, 1) \in 1 .. Len(ts) + 1
    BY <2>1, EndLemma
  <2> QED BY <2>1, <2>2, ProcessNode
<1> DEFINE s == R[EndOf(ts, 1)]
           p == take_process(ts, 1)
           nodes == parse_statement(ts)
<1>4. nodes = <<p>> \o s /\ s \in Seq(Nodes(ts)) /\ p \in Nodes(ts)
  BY <1>1, <1>2, <1>3
<1> HIDE DEF s, p, nodes
<1>5. nodes \in Seq(Nodes(ts)) /\ Len(nodes) = Len(s) + 1 /\ nodes[1] = p
      /\ \A k \in 1 .. Len(s) : nodes[k + 1] = s[k]
  BY <1>4, OneBefore
<1> QED BY <1>1, <1>2, <1>5 DEF Reads, Reading, s, p, nodes

\* A redirection that ends a statement.
LEMMA TargetRead ==
    ASSUME NEW S, NEW ts \in Seq(S), NEW R, Reads(R, ts), Len(ts) > 1, TargetAt(ts, Len(ts) - 1)
    PROVE  LET s == R[Len(ts) - 1] IN Len(s) = 2 /\ s[1] = ts[Len(ts) - 1] /\ s[2] = ts[Len(ts)]
<1> DEFINE n == Len(ts)
           i == n - 1
<1>1. i \in 1 .. n /\ i # n /\ i + 1 = n /\ i + 2 = n + 1
  OBVIOUS
<1>2. n + 1 \in n + 1 .. n + 2 /\ n + 1 \in 1 .. n + 2
  OBVIOUS
<1>3. R[n + 1] = <<>> /\ R[n + 1] \in Seq(Nodes(ts)) /\ Len(R[n + 1]) = 0
  BY <1>2 DEF Reads
<1>4. R[i] = Read(R, ts, i) /\ ts[i].type = "redir"
  BY <1>1 DEF Reads, TargetAt
<1> HIDE DEF i
<1>5. /\ Len(R[i]) = Len(R[i + 2]) + 2 /\ R[i][2] = ts[i + 1] /\ R[i][1] = ts[i]
  <2>1. i \in 1 .. Len(ts) /\ i # Len(ts) /\ R[i + 2] \in Seq(Nodes(ts))
    BY <1>1, <1>3
  <2> QED BY <1>4, <2>1, RedirRead
<1>6. Len(R[i]) = 2 /\ R[i][1] = ts[i] /\ R[i][2] = ts[n]
  BY <1>1, <1>3, <1>5
<1> QED BY <1>6 DEF i

LEMMA AloneNodes ==
    ASSUME NEW S, NEW ts \in Seq(S), Alone(ts)
    PROVE  LET nodes == parse_statement(ts)
           IN  /\ EndOf(ts, 1) = Len(ts) + 1 /\ Taken(ts, 1)
               /\ Len(nodes) = 1 /\ nodes[1] = take_process(ts, 1)
<1> DEFINE n == Len(ts)
<1>1. PICK R : Reads(R, ts)
  BY StatementNodes
<1>2. 1 <= n
  BY DEF Alone, ProcessIn
<1>3. EndOf(ts, 1) = n + 1 /\ Taken(ts, 1)
  <2>1. 1 \in 1 .. n /\ n \in 1 .. n /\ ~(n < n)
    BY <1>2
  <2> QED BY <2>1, WordsTaken DEF Alone
<1>4. R[n + 1] = <<>> /\ Len(R[n + 1]) = 0
  <2>1. n + 1 \in n + 1 .. n + 2
    OBVIOUS
  <2> QED BY <1>1, <2>1 DEF Reads
<1>5. Len(parse_statement(ts)) = Len(R[n + 1]) + 1 /\ parse_statement(ts)[1] = take_process(ts, 1)
  BY <1>1, <1>3 DEF Reads
<1> QED BY <1>3, <1>4, <1>5

LEMMA RedirectedNodes ==
    ASSUME NEW S, NEW ts \in Seq(S), LexicalTokens(ts), Redirected(ts)
    PROVE  LET nodes == parse_statement(ts)
               n == Len(ts)
           IN  /\ n > 2 /\ EndOf(ts, 1) = n - 1 /\ Taken(ts, 1)
               /\ Len(nodes) = 3 /\ nodes[1] = take_process(ts, 1)
               /\ nodes[2] = ts[n - 1] /\ nodes[3] = ts[n]
<1> DEFINE n == Len(ts)
           nodes == parse_statement(ts)
<1>1. PICK R : Reads(R, ts)
  BY StatementNodes
<1>2. 1 <= n - 2
  BY DEF Redirected, ProcessIn
<1>0. n \in Nat /\ n > 2
  BY <1>2
<1>3. EndOf(ts, 1) = n - 1 /\ Taken(ts, 1)
  <2>1. 1 \in 1 .. n /\ n - 2 \in 1 .. n /\ (n - 2) + 1 = n - 1 /\ n - 1 \in 1 .. n
    BY <1>0
  <2>2. Stop(ts[n - 1])
    BY <2>1, LexicalFacts DEF LexicalTokens, Redirected, TargetAt
  <2> DEFINE j == n - 2
  <2>3. j \in 1 .. n /\ ProcessIn(ts, 1, j) /\ Stop(ts[j + 1]) /\ j + 1 = n - 1
    BY <2>1, <2>2 DEF Redirected
  <2> HIDE DEF j
  <2>4. EndOf(ts, 1) = j + 1 /\ Taken(ts, 1)
    BY <2>1, <2>3, WordsTaken
  <2> QED BY <2>3, <2>4
<1>4. Len(R[n - 1]) = 2 /\ R[n - 1][1] = ts[n - 1] /\ R[n - 1][2] = ts[n]
  <2>1. n > 1 /\ TargetAt(ts, n - 1)
    BY <1>0 DEF Redirected
  <2> QED BY <1>1, <2>1, TargetRead
<1>5. Len(nodes) = Len(R[n - 1]) + 1 /\ nodes[1] = take_process(ts, 1)
      /\ \A k \in 1 .. Len(R[n - 1]) : nodes[k + 1] = R[n - 1][k]
  BY <1>1, <1>3 DEF Reads
<1> HIDE DEF nodes
<1>6. Len(nodes) = 3 /\ nodes[1 + 1] = R[n - 1][1] /\ nodes[2 + 1] = R[n - 1][2]
  BY <1>4, <1>5
<1> QED BY <1>0, <1>3, <1>4, <1>5, <1>6 DEF nodes

LEMMA PipeEnd ==
    ASSUME NEW S, NEW ts \in Seq(S), LexicalTokens(ts), NEW e \in 1 .. Len(ts), PipeAt(ts, e)
    PROVE  e > 1 /\ EndOf(ts, 1) = e /\ Taken(ts, 1)
<1> DEFINE j == e - 1
<1>1. 1 <= j /\ ProcessIn(ts, 1, j) /\ ts[e].type = "pipe"
  BY DEF PipeAt, ProcessIn
<1>2. e > 1 /\ j \in 1 .. Len(ts) /\ j + 1 = e /\ 1 \in 1 .. Len(ts)
  BY <1>1
<1>3. Stop(ts[e])
  BY <1>1, LexicalFacts DEF LexicalTokens
<1> HIDE DEF j
<1>4. EndOf(ts, 1) = j + 1 /\ Taken(ts, 1)
  BY <1>1, <1>2, <1>3, WordsTaken
<1> QED BY <1>2, <1>4

LEMMA PipeNodes ==
    ASSUME NEW S, NEW ts \in Seq(S), LexicalTokens(ts), NEW e \in 1 .. Len(ts), PipeAt(ts, e),
           NEW R, Reads(R, ts)
    PROVE  LET nodes == parse_statement(ts)
               s == R[EndOf(ts, e + 1)]
           IN  /\ s \in Seq(Nodes(ts)) /\ Len(nodes) = Len(s) + 3
               /\ nodes[1] = take_process(ts, 1)
               /\ nodes[2] = ts[e] /\ nodes[3] = take_process(ts, e + 1)
               /\ \A k \in 1 .. Len(s) : nodes[k + 3] = s[k]
<1> DEFINE nodes == parse_statement(ts)
           s == R[EndOf(ts, e + 1)]
           r == R[e]
<1>1. EndOf(ts, 1) = e /\ ts[e].type = "pipe"
  BY PipeEnd DEF PipeAt
<1>2. s \in Seq(Nodes(ts))
  <2>1. e + 1 \in 1 .. Len(ts) + 1
    OBVIOUS
  <2>2. EndOf(ts, e + 1) \in e + 1 .. Len(ts) + 1
    BY <2>1, EndLemma
  <2>3. EndOf(ts, e + 1) \in 1 .. Len(ts) + 2
    BY <2>2
  <2> QED BY <2>3 DEF Reads
<1>3. R[e] = Read(R, ts, e)
  BY DEF Reads
<1>4. /\ Len(r) = Len(s) + 2 /\ r[1] = ts[e] /\ r[2] = take_process(ts, e + 1)
      /\ \A k \in 1 .. Len(s) : r[k + 2] = s[k]
  BY <1>1, <1>2, <1>3, PipeRead
<1>5. Len(nodes) = Len(r) + 1 /\ nodes[1] = take_process(ts, 1)
      /\ \A k \in 1 .. Len(r) : nodes[k + 1] = r[k]
  BY <1>1 DEF Reads
<1> HIDE DEF nodes, s, r
<1>6. Len(s) \in Nat
  BY <1>2
<1>7. Len(nodes) = Len(s) + 3 /\ nodes[1 + 1] = r[1] /\ nodes[2 + 1] = r[2]
  BY <1>4, <1>5, <1>6
<1>8. ASSUME NEW k \in 1 .. Len(s) PROVE nodes[k + 3] = s[k]
  <2>1. k + 2 \in 1 .. Len(r) /\ (k + 2) + 1 = k + 3
    BY <1>4, <1>6
  <2>2. nodes[(k + 2) + 1] = r[k + 2]
    BY <1>5, <2>1
  <2> QED BY <1>4, <2>1, <2>2
<1> QED BY <1>2, <1>4, <1>5, <1>7, <1>8 DEF nodes, s

LEMMA PipedNodes ==
    ASSUME NEW S, NEW ts \in Seq(S), LexicalTokens(ts), NEW e \in 1 .. Len(ts), Piped(ts, e)
    PROVE  LET nodes == parse_statement(ts)
           IN  /\ e < Len(ts) /\ EndOf(ts, e + 1) = Len(ts) + 1 /\ Taken(ts, e + 1)
               /\ Len(nodes) = 3 /\ nodes[1] = take_process(ts, 1)
               /\ nodes[2] = ts[e] /\ nodes[3] = take_process(ts, e + 1)
<1> DEFINE n == Len(ts)
           i == e + 1
<1>1. PICK R : Reads(R, ts)
  BY StatementNodes
<1>2. i <= n /\ ProcessIn(ts, i, n) /\ PipeAt(ts, e)
  BY DEF Piped, ProcessIn
<1>3. e < n /\ i \in 1 .. n /\ n \in i .. n /\ ~(n < n) /\ n + 1 \in n + 1 .. n + 2
  BY <1>2
<1>4. EndOf(ts, i) = n + 1 /\ Taken(ts, i)
  <2> HIDE DEF i
  <2> QED BY <1>2, <1>3, WordsTaken
<1>5. R[n + 1] = <<>> /\ Len(R[n + 1]) = 0
  BY <1>1, <1>3 DEF Reads
<1>6. LET nodes == parse_statement(ts)
          s == R[EndOf(ts, e + 1)]
      IN  /\ Len(nodes) = Len(s) + 3 /\ nodes[1] = take_process(ts, 1)
          /\ nodes[2] = ts[e] /\ nodes[3] = take_process(ts, e + 1)
  BY <1>1, <1>2, PipeNodes
<1> QED BY <1>3, <1>4, <1>5, <1>6

LEMMA PipedOutNodes ==
    ASSUME NEW S, NEW ts \in Seq(S), LexicalTokens(ts), NEW e \in 1 .. Len(ts), PipedOut(ts, e)
    PROVE  LET nodes == parse_statement(ts)
               n == Len(ts)
           IN  /\ e < n - 2 /\ EndOf(ts, e + 1) = n - 1 /\ Taken(ts, e + 1)
               /\ Len(nodes) = 5 /\ nodes[1] = take_process(ts, 1)
               /\ nodes[2] = ts[e] /\ nodes[3] = take_process(ts, e + 1)
               /\ nodes[4] = ts[n - 1] /\ nodes[5] = ts[n]
<1> DEFINE n == Len(ts)
           i == e + 1
           j == n - 2
           nodes == parse_statement(ts)
<1>1. PICK R : Reads(R, ts)
  BY StatementNodes
<1>2. i <= j /\ ProcessIn(ts, i, j) /\ PipeAt(ts, e) /\ TargetAt(ts, n - 1)
  BY DEF PipedOut, ProcessIn
<1>3. e < n - 2 /\ n > 1 /\ i \in 1 .. n /\ j \in i .. n /\ j + 1 = n - 1 /\ n - 1 \in 1 .. n
  BY <1>2
<1>4. EndOf(ts, i) = n - 1 /\ Taken(ts, i)
  <2>1. Stop(ts[n - 1])
    BY <1>2, <1>3, LexicalFacts DEF LexicalTokens, TargetAt
  <2> HIDE DEF i, j
  <2>2. EndOf(ts, i) = j + 1 /\ Taken(ts, i)
    BY <1>2, <1>3, <2>1, WordsTaken
  <2> QED BY <1>3, <2>2
<1>5. Len(R[n - 1]) = 2 /\ R[n - 1][1] = ts[n - 1] /\ R[n - 1][2] = ts[n]
  BY <1>1, <1>2, <1>3, TargetRead
<1>6. /\ Len(nodes) = Len(R[n - 1]) + 3 /\ nodes[1] = take_process(ts, 1)
      /\ nodes[2] = ts[e] /\ nodes[3] = take_process(ts, e + 1)
      /\ \A k \in 1 .. Len(R[n - 1]) : nodes[k + 3] = R[n - 1][k]
  BY <1>1, <1>2, <1>4, PipeNodes
<1> HIDE DEF nodes
<1>7. Len(nodes) = 5 /\ nodes[1 + 3] = R[n - 1][1] /\ nodes[2 + 3] = R[n - 1][2]
  BY <1>5, <1>6
<1> QED BY <1>3, <1>4, <1>5, <1>6, <1>7 DEF nodes

(***************************************************************************)
(* What is of the grammar is accepted                                      *)
(***************************************************************************)
LEMMA TokenError ==
    ASSUME NEW t, t.type # "process"
    PROVE  HasError(t) <=> t.type = "error"
  BY DEF HasError

LEMMA CleanLemma ==
    ASSUME NEW S, NEW ts \in Seq(S),
           \A k \in 1 .. Len(ts) :
             \/ IsWord(ts[k])
             \/ ts[k].type = "pipe"
             \/ k = Len(ts) - 1 /\ ts[k].type = "redir"
             \/ /\ k = Len(ts) /\ k > 1 /\ ts[k - 1].type = "redir"
                /\ ts[k].type \in {"identifier", "string"}
    PROVE  Clean(ts)
<1> DEFINE n == Len(ts)
<1>0. n \in Nat /\ DOMAIN ts = 1 .. n
  OBVIOUS
<1>1. ASSUME NEW k \in 1 .. n
      PROVE  /\ ts[k].type \notin {"fd", "error"}
             /\ ts[k].type = "string" /\ ts[k].val \in Operators => IsFile(ts, k)
             /\ ts[k].type = "redir" => k = n - 1
  BY <1>1 DEF IsWord, IsFile
<1>2. ASSUME NEW k \in 1 .. n, k > 1 PROVE ~IsFile(ts, k - 1)
  <2> SUFFICES ASSUME k - 1 > 1, ts[(k - 1) - 1].type = "redir" PROVE FALSE
    BY DEF IsFile
  <2> DEFINE m == (k - 1) - 1
  <2>1. m \in 1 .. n /\ m < n - 1
    <3> HIDE DEF n
    <3> QED BY <1>0
  <2>2. ts[m].type = "redir"
    OBVIOUS
  <2> HIDE DEF m, n
  <2>3. m = n - 1
    BY <1>1, <2>1, <2>2
  <2> QED BY <1>0, <2>1, <2>3
<1> QED BY <1>0, <1>1, <1>2 DEF Clean

LEMMA ProcessValid ==
    ASSUME NEW S, NEW ts \in Seq(S), NEW i \in 1 .. Len(ts) + 1, Taken(ts, i)
    PROVE  ValidProcess(take_process(ts, i)) /\ ~HasError(take_process(ts, i))
  BY TakenLemma

LEMMA AloneAccepted ==
    ASSUME NEW S, NEW ts \in Seq(S), Alone(ts)
    PROVE  validate_statement(parse_statement(ts)) /\ Clean(ts)
<1> DEFINE nodes == parse_statement(ts)
           p == take_process(ts, 1)
<1>1. Taken(ts, 1) /\ Len(nodes) = 1 /\ nodes[1] = p
  BY AloneNodes
<1>2. 1 \in 1 .. Len(ts) + 1
  OBVIOUS
<1>3. ValidProcess(p) /\ ~HasError(p)
  BY <1>1, <1>2, ProcessValid
<1>4. DOMAIN nodes = 1 .. Len(nodes)
  <2>1. PICK R : Reads(R, ts)
    BY StatementNodes
  <2>2. nodes \in Seq(Nodes(ts))
    BY <2>1 DEF Reads
  <2> HIDE DEF nodes
  <2> QED BY <2>2
<1> HIDE DEF nodes, p
<1>5. \A k \in DOMAIN nodes : ~HasError(nodes[k])
  <2>1. DOMAIN nodes = {1}
    BY <1>1, <1>4
  <2> QED BY <1>1, <1>3, <2>1
<1>6. validate_statement(nodes)
  BY <1>1, <1>3, <1>5 DEF validate_statement
<1>7. Clean(ts)
  <2>1. \A k \in 1 .. Len(ts) : IsWord(ts[k])
    BY DEF Alone, ProcessIn
  <2> QED BY <2>1, CleanLemma
<1> QED BY <1>6, <1>7 DEF nodes

LEMMA NodesDomain ==
    ASSUME NEW S, NEW ts \in Seq(S)
    PROVE  DOMAIN parse_statement(ts) = 1 .. Len(parse_statement(ts))
<1> DEFINE nodes == parse_statement(ts)
<1>1. PICK R : Reads(R, ts)
  BY StatementNodes
<1>2. nodes \in Seq(Nodes(ts))
  BY <1>1 DEF Reads
<1> HIDE DEF nodes
<1>3. DOMAIN nodes = 1 .. Len(nodes)
  BY <1>2
<1> QED BY <1>3 DEF nodes

LEMMA RedirectedAccepted ==
    ASSUME NEW S, NEW ts \in Seq(S), LexicalTokens(ts), Redirected(ts)
    PROVE  validate_statement(parse_statement(ts)) /\ Clean(ts)
<1> DEFINE nodes == parse_statement(ts)
           n == Len(ts)
           p == take_process(ts, 1)
<1>1. /\ n > 2 /\ Taken(ts, 1) /\ Len(nodes) = 3
      /\ nodes[1] = p /\ nodes[2] = ts[n - 1] /\ nodes[3] = ts[n]
  BY RedirectedNodes
<1>2. 1 \in 1 .. Len(ts) + 1 /\ n \in Nat /\ (n - 1) + 1 = n
  OBVIOUS
<1>3. ValidProcess(p) /\ ~HasError(p)
  BY <1>1, <1>2, ProcessValid
<1>4. DOMAIN nodes = 1 .. Len(nodes)
  BY NodesDomain
<1>5. /\ ts[n - 1].type = "redir" /\ ts[n - 1].val \in {">", ">>"}
      /\ ts[n].type \in {"identifier", "string"} /\ ts[n].val # ""
  BY <1>2 DEF Redirected, TargetAt
<1> HIDE DEF nodes, p
<1>6. \A k \in DOMAIN nodes : ~HasError(nodes[k])
  <2>1. DOMAIN nodes = {1, 2, 3}
    BY <1>1, <1>4
  <2>2. ~HasError(ts[n - 1]) /\ ~HasError(ts[n])
    BY <1>5, TokenError
  <2> QED BY <1>1, <1>3, <2>1, <2>2
<1>7. validate_statement(nodes)
  BY <1>1, <1>3, <1>5, <1>6 DEF validate_statement, ValidFile
<1>8. Clean(ts)
  <2>1. \A k \in 1 .. n - 2 : IsWord(ts[k])
    BY DEF Redirected, ProcessIn
  <2>2. ASSUME NEW k \in 1 .. n
        PROVE  \/ IsWord(ts[k])
               \/ k = n - 1 /\ ts[k].type = "redir"
               \/ /\ k = n /\ k > 1 /\ ts[k - 1].type = "redir"
                  /\ ts[k].type \in {"identifier", "string"}
    <3> HIDE DEF n
    <3>1. k \in 1 .. n - 2 \/ k = n - 1 \/ k = n
      BY <1>2
    <3>2. n > 1
      BY <1>1, <1>2
    <3> QED BY <1>2, <1>5, <2>1, <3>1, <3>2
  <2> QED BY <2>2, CleanLemma
<1> QED BY <1>7, <1>8 DEF nodes

LEMMA PipedAccepted ==
    ASSUME NEW S, NEW ts \in Seq(S), LexicalTokens(ts), NEW e \in 1 .. Len(ts), Piped(ts, e)
    PROVE  validate_statement(parse_statement(ts)) /\ Clean(ts)
<1> DEFINE nodes == parse_statement(ts)
           n == Len(ts)
           p == take_process(ts, 1)
           q == take_process(ts, e + 1)
<1>1. /\ e < n /\ Taken(ts, e + 1) /\ Len(nodes) = 3
      /\ nodes[1] = p /\ nodes[2] = ts[e] /\ nodes[3] = q
  BY PipedNodes
<1>2. Taken(ts, 1) /\ e > 1 /\ ts[e].type = "pipe"
  BY PipeEnd DEF Piped, PipeAt
<1>3. 1 \in 1 .. Len(ts) + 1 /\ e + 1 \in 1 .. Len(ts) + 1 /\ n \in Nat
  OBVIOUS
<1>4. ValidProcess(p) /\ ~HasError(p) /\ ValidProcess(q) /\ ~HasError(q)
  BY <1>1, <1>2, <1>3, ProcessValid
<1>5. DOMAIN nodes = 1 .. Len(nodes)
  BY NodesDomain
<1> HIDE DEF nodes, p, q
<1>6. \A k \in DOMAIN nodes : ~HasError(nodes[k])
  <2>1. DOMAIN nodes = {1, 2, 3}
    BY <1>1, <1>5
  <2>2. ~HasError(ts[e])
    BY <1>2, TokenError
  <2> QED BY <1>1, <1>4, <2>1, <2>2
<1>7. validate_statement(nodes)
  BY <1>1, <1>2, <1>4, <1>6 DEF validate_statement
<1>8. Clean(ts)
  <2>1. (\A k \in 1 .. e - 1 : IsWord(ts[k])) /\ \A k \in e + 1 .. n : IsWord(ts[k])
    BY DEF Piped, PipeAt, ProcessIn
  <2>2. ASSUME NEW k \in 1 .. n PROVE IsWord(ts[k]) \/ ts[k].type = "pipe"
    <3>1. k \in 1 .. e - 1 \/ k = e \/ k \in e + 1 .. n
      BY <1>3
    <3> HIDE DEF n
    <3> QED BY <1>2, <2>1, <3>1
  <2> QED BY <2>2, CleanLemma
<1> QED BY <1>7, <1>8 DEF nodes

LEMMA PipedOutAccepted ==
    ASSUME NEW S, NEW ts \in Seq(S), LexicalTokens(ts), NEW e \in 1 .. Len(ts), PipedOut(ts, e)
    PROVE  validate_statement(parse_statement(ts)) /\ Clean(ts)
<1> DEFINE nodes == parse_statement(ts)
           n == Len(ts)
           p == take_process(ts, 1)
           q == take_process(ts, e + 1)
<1>1. /\ e < n - 2 /\ Taken(ts, e + 1) /\ Len(nodes) = 5
      /\ nodes[1] = p /\ nodes[2] = ts[e] /\ nodes[3] = q
      /\ nodes[4] = ts[n - 1] /\ nodes[5] = ts[n]
  BY PipedOutNodes
<1>2. Taken(ts, 1) /\ e > 1 /\ ts[e].type = "pipe"
  BY PipeEnd DEF PipedOut, PipeAt
<1>3. 1 \in 1 .. Len(ts) + 1 /\ e + 1 \in 1 .. Len(ts) + 1 /\ n \in Nat /\ (n - 1) + 1 = n
  OBVIOUS
<1>4. ValidProcess(p) /\ ~HasError(p) /\ ValidProcess(q) /\ ~HasError(q)
  BY <1>1, <1>2, <1>3, ProcessValid
<1>5. DOMAIN nodes = 1 .. Len(nodes)
  BY NodesDomain
<1>6. /\ ts[n - 1].type = "redir" /\ ts[n - 1].val \in {">", ">>"}
      /\ ts[n].type = "identifier" /\ ts[n].val # ""
  BY <1>3 DEF PipedOut, TargetAt
<1> HIDE DEF nodes, p, q
<1>7. \A k \in DOMAIN nodes : ~HasError(nodes[k])
  <2>1. DOMAIN nodes = {1, 2, 3, 4, 5}
    BY <1>1, <1>5
  <2>2. ~HasError(ts[e]) /\ ~HasError(ts[n - 1]) /\ ~HasError(ts[n])
    BY <1>2, <1>6, TokenError
  <2> QED BY <1>1, <1>4, <2>1, <2>2
<1>8. validate_statement(nodes)
  BY <1>1, <1>2, <1>4, <1>6, <1>7 DEF validate_statement, ValidFile
<1>9. Clean(ts)
  <2>1. (\A k \in 1 .. e - 1 : IsWord(ts[k])) /\ \A k \in e + 1 .. n - 2 : IsWord(ts[k])
    BY DEF PipedOut, PipeAt, ProcessIn
  <2>2. ASSUME NEW k \in 1 .. n
        PROVE  \/ IsWord(ts[k])
               \/ ts[k].type = "pipe"
               \/ k = n - 1 /\ ts[k].type = "redir"
               \/ /\ k = n /\ k > 1 /\ ts[k - 1].type = "redir"
                  /\ ts[k].type \in {"identifier", "string"}
    <3>0. e \in 1 .. n
      OBVIOUS
    <3> HIDE DEF n
    <3>1. k \in 1 .. e - 1 \/ k = e \/ k \in e + 1 .. n - 2 \/ k = n - 1 \/ k = n
      BY <1>3, <3>0
    <3>2. n > 1
      BY <1>1, <1>2, <1>3
    <3> QED BY <1>2, <1>6, <2>1, <3>1, <3>2
  <2> QED BY <2>2, CleanLemma
<1> QED BY <1>8, <1>9 DEF nodes

(***************************************************************************)
(* What is accepted is of the grammar, or has tokens that are taken away   *)
(***************************************************************************)
\* Where a process ends in a statement of which nothing is taken away.
LEMMA CleanTaken ==
    ASSUME NEW S, NEW ts \in Seq(S), LexicalTokens(ts), Clean(ts),
           NEW i \in 1 .. Len(ts) + 1, Taken(ts, i)
    PROVE  LET e == EndOf(ts, i)
           IN  /\ i < e /\ e <= Len(ts) + 1 /\ ProcessIn(ts, i, e - 1)
               /\ e <= Len(ts) => e \in 1 .. Len(ts) /\ ts[e].type \in {"pipe", "redir"}
<1> DEFINE e == EndOf(ts, i)
           n == Len(ts)
<1>0. n \in Nat /\ DOMAIN ts = 1 .. n /\ i \in 1 .. n + 1
  OBVIOUS
<1>1. e \in i .. n + 1 /\ (e <= n => Stop(ts[e])) /\ \A k \in i .. e - 1 : ~Stop(ts[k])
  BY EndLemma
<1>2. e > i /\ ts[i].val # "" /\ \A k \in i .. e - 1 : ts[k].type # "error"
  BY DEF Taken
<1>3. \A k \in 1 .. n : /\ Lexical(ts[k]) /\ ts[k].type \notin {"fd", "error"}
                        /\ ts[k].type = "string" /\ ts[k].val \in Operators => IsFile(ts, k)
  BY <1>0 DEF LexicalTokens, Clean
<1> HIDE DEF e, n
<1>8. i \in Nat /\ e \in Nat /\ i < e /\ e <= n + 1
  <2>1. e \in i .. n + 1 /\ e > i
    BY <1>1, <1>2
  <2> QED BY <1>0, <2>1
<1>4. ASSUME NEW k \in i .. e - 1 PROVE IsWord(ts[k])
  <2>1. k \in 1 .. n
    BY <1>0, <1>1
  <2>2. ts[k].val \notin Operators
    BY <1>1 DEF Stop
  <2>3. ts[k].type \notin {"pipe", "redir"}
    BY <1>1, <1>3, <2>1, LexicalFacts
  <2>4. ts[k].type \in {"identifier", "string"}
    BY <1>3, <2>1, <2>3, LexicalFacts
  <2> QED BY <2>2, <2>4 DEF IsWord
<1>5. ProcessIn(ts, i, e - 1)
  <2>1. i <= e - 1
    BY <1>8
  <2> QED BY <1>2, <1>4, <2>1 DEF ProcessIn
<1>6. ASSUME e <= n PROVE e \in 1 .. n /\ ts[e].type \in {"pipe", "redir"}
  <2>1. e \in 1 .. n /\ e - 1 \in i .. e - 1
    BY <1>0, <1>6, <1>8
  <2>2. ts[e - 1].type # "redir"
    BY <1>4, <2>1 DEF IsWord
  <2>3. ~IsFile(ts, e)
    BY <2>2 DEF IsFile
  <2>4. Stop(ts[e])
    BY <1>1, <1>6
  <2>5. ts[e].type # "string"
    BY <1>3, <2>1, <2>3, <2>4 DEF Stop
  <2>6. ts[e].type \in {"pipe", "redir", "fd", "string"}
    BY <1>3, <2>1, <2>4, LexicalFacts
  <2> QED BY <1>3, <2>1, <2>5, <2>6
<1> QED BY <1>5, <1>6, <1>8 DEF e, n

LEMMA RedirNode ==
    ASSUME NEW S, NEW ts \in Seq(S), NEW R, Reads(R, ts), NEW i \in 1 .. Len(ts),
           ts[i].type = "redir"
    PROVE  /\ i = Len(ts) => Len(R[i]) = 1
           /\ i # Len(ts) => Len(R[i]) = Len(R[i + 2]) + 2 /\ R[i][2] = ts[i + 1]
<1>1. i + 2 \in 1 .. Len(ts) + 2 /\ (i = Len(ts) => i + 2 \in Len(ts) + 1 .. Len(ts) + 2)
  OBVIOUS
<1>2. /\ R[i + 2] \in Seq(Nodes(ts)) /\ R[i] = Read(R, ts, i)
      /\ i = Len(ts) => R[i + 2] = <<>>
  BY <1>1 DEF Reads
<1> QED BY <1>2, RedirRead

\* A pipe or a redirection is a node.
LEMMA NotNothing ==
    ASSUME NEW S, NEW ts \in Seq(S), NEW R, Reads(R, ts), NEW i \in 1 .. Len(ts),
           ts[i].type \in {"pipe", "redir"}
    PROVE  Len(R[i]) > 0 /\ R[i][1] = ts[i]
<1> DEFINE n == Len(ts)
<1>1. R[i] = Read(R, ts, i)
  BY DEF Reads
<1>2. CASE ts[i].type = "pipe"
  <2>1. i + 1 \in 1 .. Len(ts) + 1
    OBVIOUS
  <2>2. EndOf(ts, i + 1) \in i + 1 .. Len(ts) + 1
    BY <2>1, EndLemma
  <2>3. EndOf(ts, i + 1) \in 1 .. Len(ts) + 2
    BY <2>2
  <2> DEFINE s == R[EndOf(ts, i + 1)]
  <2>4. s \in Seq(Nodes(ts))
    BY <2>3 DEF Reads
  <2>5. Len(R[i]) = Len(s) + 2 /\ R[i][1] = ts[i]
    BY <1>1, <1>2, <2>4, PipeRead
  <2> HIDE DEF s
  <2>6. Len(s) \in Nat
    BY <2>4
  <2> QED BY <2>5, <2>6
<1>3. CASE ts[i].type = "redir"
  <2> DEFINE s == R[i + 2]
  <2>1. i + 2 \in 1 .. n + 2 /\ (i = n => i + 2 \in n + 1 .. n + 2)
    OBVIOUS
  <2>2. s \in Seq(Nodes(ts)) /\ (i = n => s = <<>>)
    BY <2>1 DEF Reads
  <2>3. /\ R[i][1] = ts[i] /\ (i = Len(ts) => Len(R[i]) = 1)
        /\ i # Len(ts) => Len(R[i]) = Len(s) + 2
    BY <1>1, <1>3, <2>2, RedirRead
  <2> HIDE DEF s
  <2>4. Len(s) \in Nat
    BY <2>2
  <2> QED BY <2>3, <2>4
<1> QED BY <1>2, <1>3

\* A file that nothing follows.
LEMMA FileLast ==
    ASSUME NEW S, NEW ts \in Seq(S), Clean(ts), NEW R, Reads(R, ts), NEW i \in 1 .. Len(ts),
           ts[i].type = "redir", Len(R[i]) = 2, R[i][2].type # "redir"
    PROVE  i = Len(ts) - 1 /\ R[i][2] = ts[Len(ts)]
<1> DEFINE n == Len(ts)
           s == R[i + 2]
<1>0. n \in Nat /\ DOMAIN ts = 1 .. n /\ i \in 1 .. n
  OBVIOUS
<1>1. R[i] = Read(R, ts, i)
  BY DEF Reads
<1>2. s \in Seq(Nodes(ts)) /\ (i = n => s = <<>>)
  <2>1. i + 2 \in 1 .. n + 2 /\ (i = n => i + 2 \in n + 1 .. n + 2)
    OBVIOUS
  <2> QED BY <2>1 DEF Reads
<1>3. /\ i = n => Len(R[i]) = 1
      /\ i # n => Len(R[i]) = Len(s) + 2 /\ R[i][2] = ts[i + 1]
  BY RedirNode
<1>4. i # n
  BY <1>3
<1>5. Len(s) = 0 /\ R[i][2] = ts[i + 1]
  <2> HIDE DEF s, n
  <2> QED BY <1>2, <1>3, <1>4
<1>6. ~(i + 2 <= n)
  <2> SUFFICES ASSUME i + 2 <= n PROVE FALSE
    OBVIOUS
  <2> DEFINE j == i + 2
  <2>1. j \in 1 .. n /\ j > 1 /\ j - 1 = i + 1 /\ (j - 1) - 1 = i /\ j - 1 > 1
    OBVIOUS
  <2>2. ts[j - 1].type # "redir"
    BY <1>5, <2>1
  <2>3. IsFile(ts, j - 1)
    BY <2>1 DEF IsFile
  <2> HIDE DEF j, s, n
  <2>4. ts[j].type \in {"pipe", "redir"}
    BY <1>0, <2>1, <2>2, <2>3 DEF Clean
  <2>5. Len(R[j]) > 0
    BY <2>1, <2>4, NotNothing DEF n
  <2> QED BY <1>5, <2>5 DEF j, s
<1>7. i = n - 1 /\ i + 1 = n
  <2> HIDE DEF n
  <2> QED BY <1>0, <1>4, <1>6
<1> QED BY <1>5, <1>7

LEMMA AcceptedFirst ==
    ASSUME NEW S, NEW ts \in Seq(S), validate_statement(parse_statement(ts))
    PROVE  Taken(ts, 1)
<1> DEFINE nodes == parse_statement(ts)
           p == take_process(ts, 1)
<1>1. PICK R : Reads(R, ts)
  BY StatementNodes
<1>2. nodes \in Seq(Nodes(ts)) /\ Len(nodes) = Len(R[EndOf(ts, 1)]) + 1 /\ nodes[1] = p
  BY <1>1 DEF Reads
<1>3. R[EndOf(ts, 1)] \in Seq(Nodes(ts))
  <2>1. 1 \in 1 .. Len(ts) + 1
    OBVIOUS
  <2>2. EndOf(ts, 1) \in 1 .. Len(ts) + 1
    BY <2>1, EndLemma
  <2>3. EndOf(ts, 1) \in 1 .. Len(ts) + 2
    BY <2>2
  <2> QED BY <1>1, <2>3 DEF Reads
<1>4. 1 \in DOMAIN nodes
  <2> DEFINE s == R[EndOf(ts, 1)]
  <2>1. s \in Seq(Nodes(ts)) /\ Len(nodes) = Len(s) + 1
    BY <1>2, <1>3
  <2> HIDE DEF s, nodes
  <2> QED BY <1>2, <2>1
<1>5. ValidProcess(p) /\ ~HasError(p)
  BY <1>2, <1>4, Zenon DEF validate_statement
<1>6. 1 \in 1 .. Len(ts) + 1
  OBVIOUS
<1> QED BY <1>5, <1>6, TakenLemma

LEMMA AcceptedClean ==
    ASSUME NEW S, NEW ts \in Seq(S), LexicalTokens(ts), Clean(ts),
           validate_statement(parse_statement(ts))
    PROVE  \/ Alone(ts) \/ Redirected(ts)
           \/ \E e \in 1 .. Len(ts) : Piped(ts, e) \/ PipedOut(ts, e)
<1> DEFINE nodes == parse_statement(ts)
           n == Len(ts)
           e == EndOf(ts, 1)
<1>0. n \in Nat /\ 1 \in 1 .. n + 1
  OBVIOUS
<1>1. PICK R : Reads(R, ts)
  BY StatementNodes
<1>2. Taken(ts, 1)
  BY AcceptedFirst
<1>3. /\ 1 < e /\ e <= n + 1 /\ ProcessIn(ts, 1, e - 1)
      /\ e <= n => e \in 1 .. n /\ ts[e].type \in {"pipe", "redir"}
  BY <1>0, <1>2, CleanTaken
<1>4. /\ Len(nodes) = Len(R[e]) + 1 /\ nodes[1] = take_process(ts, 1)
      /\ \A k \in 1 .. Len(R[e]) : nodes[k + 1] = R[e][k]
      /\ DOMAIN nodes = 1 .. Len(nodes)
  BY <1>1, NodesDomain DEF Reads
<1>e. e \in Nat
  BY <1>0, EndLemma
<1>5. CASE e = n + 1
  BY <1>0, <1>3, <1>5 DEF Alone
<1>6. CASE e <= n /\ ts[e].type = "redir"
  <2>1. Len(R[e]) > 0 /\ R[e][1] = ts[e]
    BY <1>1, <1>3, <1>6, NotNothing
  <2>8. Len(R[e]) \in Nat
    <3>1. e \in 1 .. n + 2
      BY <1>0, <1>3, <1>e, <1>6
    <3>2. R[e] \in Seq(Nodes(ts))
      BY <1>1, <3>1 DEF Reads
    <3> HIDE DEF e
    <3> QED BY <3>2
  <2> HIDE DEF e, nodes, n
  <2>2. nodes[2] = ts[e] /\ Len(nodes) # 1
    <3>1. 1 \in 1 .. Len(R[e]) /\ 1 + 1 = 2
      BY <2>1, <2>8
    <3>2. nodes[1 + 1] = R[e][1]
      BY <1>4, <3>1
    <3> QED BY <1>4, <2>1, <2>8, <3>1, <3>2
  <2>3. Len(nodes) = 3 /\ ValidFile(nodes[2], nodes[3], {"string", "identifier"})
    BY <1>6, <2>2 DEF validate_statement, nodes
  <2>4. Len(R[e]) = 2 /\ R[e][2] = nodes[3]
    <3> DEFINE m == Len(R[e])
    <3>4. m \in Nat /\ 3 = m + 1
      BY <1>4, <2>3, <2>8
    <3>1. Len(R[e]) = 2
      <4> HIDE DEF m
      <4>1. m = 2
        BY <3>4
      <4> QED BY <4>1 DEF m
    <3>2. 2 \in 1 .. Len(R[e]) /\ 2 + 1 = 3
      BY <3>1
    <3>3. nodes[2 + 1] = R[e][2]
      BY <1>4, <3>2
    <3> QED BY <3>1, <3>2, <3>3
  <2>5. nodes[2].val \in {">", ">>"} /\ nodes[3].type \in {"string", "identifier"} /\ nodes[3].val # ""
    BY <2>3 DEF ValidFile
  <2>6. e = n - 1 /\ R[e][2] = ts[n]
    <3>1. R[e][2].type # "redir"
      BY <2>4, <2>5
    <3> QED BY <1>1, <1>3, <1>6, <2>4, <3>1, FileLast DEF n
  <2>7. TargetAt(ts, n - 1)
    <3>1. (n - 1) + 1 = n
      BY <1>0
    <3> QED BY <1>6, <2>2, <2>4, <2>5, <2>6, <3>1 DEF TargetAt
  <2>9. e - 1 = n - 2
    BY <1>0, <2>6
  <2> QED BY <1>3, <2>7, <2>9 DEF Redirected, n
<1>7. CASE e <= n /\ ts[e].type = "pipe"
  <2>1. e \in 1 .. n /\ PipeAt(ts, e)
    BY <1>3, <1>7 DEF PipeAt
  <2> DEFINE d == EndOf(ts, e + 1)
             s == R[d]
             q == take_process(ts, e + 1)
  <2>2. /\ s \in Seq(Nodes(ts)) /\ Len(nodes) = Len(s) + 3
        /\ nodes[2] = ts[e] /\ nodes[3] = q /\ \A k \in 1 .. Len(s) : nodes[k + 3] = s[k]
    <3> HIDE DEF e
    <3> QED BY <1>1, <2>1, PipeNodes
  <2>3. Len(s) \in Nat
    <3> HIDE DEF s
    <3> QED BY <2>2
  <2>4. e + 1 \in 1 .. n + 1
    <3> HIDE DEF e
    <3> QED BY <1>0, <2>1
  <2>d. d \in Nat
    <3> HIDE DEF e
    <3> QED BY <2>4, EndLemma
  <2> HIDE DEF nodes, e, s
  <2>5. validate_statement(nodes)
    BY DEF nodes
  <2>6. \/ Len(s) = 0 /\ ValidProcess(nodes[3])
        \/ /\ Len(s) = 2 /\ ValidProcess(nodes[3]) /\ nodes[4].type = "redir"
           /\ ValidFile(nodes[4], nodes[5], {"identifier"})
    <3>1. nodes[2].type # "redir" /\ Len(nodes) # 1
      BY <1>7, <2>2, <2>3
    <3>2. \/ Len(nodes) = 3 /\ ValidProcess(nodes[3])
          \/ /\ Len(nodes) = 5 /\ ValidProcess(nodes[3]) /\ nodes[4].type = "redir"
             /\ ValidFile(nodes[4], nodes[5], {"identifier"})
      BY <2>5, <3>1, Zenon DEF validate_statement
    <3>3. Len(nodes) = Len(s) + 3
      BY <2>2
    <3>4. (Len(nodes) = 3 => Len(s) = 0) /\ (Len(nodes) = 5 => Len(s) = 2)
      <4> DEFINE k == Len(nodes)
                 m == Len(s)
      <4>1. m \in Nat /\ k = m + 3
        BY <2>3, <3>3
      <4> HIDE DEF k, m
      <4>2. (k = 3 => m = 0) /\ (k = 5 => m = 2)
        BY <4>1
      <4> QED BY <4>2 DEF k, m
    <3> QED BY <3>2, <3>4
  <2>7. Taken(ts, e + 1)
    <3>1. 3 \in DOMAIN nodes
      BY <1>4, <2>2, <2>3
    <3>2. ~HasError(q) /\ ValidProcess(q)
      BY <2>2, <2>5, <2>6, <3>1, Zenon DEF validate_statement
    <3> QED BY <2>4, <3>2, TakenLemma
  <2>8. /\ e + 1 < d /\ d <= n + 1 /\ ProcessIn(ts, e + 1, d - 1)
        /\ d <= n => d \in 1 .. n /\ ts[d].type \in {"pipe", "redir"}
    BY <2>4, <2>7, CleanTaken
  <2>9. d <= n => Len(s) > 0 /\ s[1] = ts[d]
    <3> HIDE DEF d
    <3> QED BY <1>1, <2>8, NotNothing DEF s
  <2>10. CASE Len(s) = 0
    <3> HIDE DEF d, n
    <3>1. d - 1 = n
      BY <1>0, <2>d, <2>8, <2>9, <2>10
    <3>2. Piped(ts, e)
      BY <2>1, <2>8, <3>1 DEF Piped, n
    <3> QED BY <2>1, <3>2 DEF n
  <2>11. CASE Len(s) = 2
    <3> HIDE DEF d, q, n
    <3>1. nodes[4].type = "redir" /\ ValidFile(nodes[4], nodes[5], {"identifier"})
      BY <2>6, <2>11
    <3>2. nodes[4] = s[1] /\ nodes[5] = s[2]
      <4>1. nodes[1 + 3] = s[1] /\ nodes[2 + 3] = s[2]
        BY <2>2, <2>11
      <4> QED BY <4>1
    <3>3. d <= n
      <4> SUFFICES ASSUME d = n + 1 PROVE FALSE
        BY <1>0, <2>d, <2>8
      <4>1. n + 1 \in n + 1 .. n + 2
        BY <1>0
      <4>2. s = <<>>
        BY <1>1, <4>1 DEF Reads, s, n
      <4> QED BY <2>11, <4>2
    <3>4. d \in 1 .. n /\ s[1] = ts[d] /\ ts[d].type = "redir"
      BY <2>8, <2>9, <3>1, <3>2, <3>3
    <3>5. /\ ts[d].val \in {">", ">>"} /\ s[2].type = "identifier" /\ s[2].val # ""
      BY <3>1, <3>2, <3>4 DEF ValidFile
    <3>6. d = n - 1 /\ s[2] = ts[n]
      <4>1. R[d][2].type # "redir" /\ Len(R[d]) = 2
        BY <2>11, <3>5 DEF s
      <4>2. d = n - 1 /\ R[d][2] = ts[n]
        BY <1>1, <3>4, <4>1, FileLast DEF n
      <4> QED BY <4>2 DEF s
    <3>7. TargetAt(ts, n - 1) /\ ts[n].type = "identifier"
      <4>1. (n - 1) + 1 = n
        BY <1>0
      <4> QED BY <3>4, <3>5, <3>6, <4>1 DEF TargetAt
    <3>8. d - 1 = n - 2
      BY <1>0, <3>6
    <3>9. PipedOut(ts, e)
      BY <2>1, <2>8, <3>7, <3>8 DEF PipedOut, n
    <3> QED BY <2>1, <3>9 DEF n
  <2> QED BY <2>6, <2>10, <2>11
<1>8. e <= n \/ e = n + 1
  <2> HIDE DEF e, n
  <2> QED BY <1>0, <1>3, <1>e
<1> QED BY <1>3, <1>5, <1>6, <1>7, <1>8

(***************************************************************************)
(* The texts of a statement                                                *)
(***************************************************************************)
TextOf(node) == IF node.type = "process" THEN Words(node) ELSE <<node.val>>

Joined(f, nodes, m) == f[0] = <<>> /\ \A k \in 1 .. m : f[k] = f[k - 1] \o TextOf(nodes[k])

LEMMA JoinedExists ==
    ASSUME NEW nodes, NEW N \in Nat
    PROVE  \E f : f = [k \in 0 .. N |-> f[k]] /\ Joined(f, nodes, N)
<1> DEFINE B == {m \in 0 .. N : \E f : f = [k \in 0 .. m |-> f[k]] /\ Joined(f, nodes, m)}
<1>1. 0 \in B
  <2> DEFINE f == [k \in 0 .. 0 |-> <<>>]
  <2>1. f = [k \in 0 .. 0 |-> f[k]] /\ f[0] = <<>>
    OBVIOUS
  <2> HIDE DEF f
  <2>2. Joined(f, nodes, 0)
    BY <2>1 DEF Joined
  <2> QED BY <2>1, <2>2
<1>2. ASSUME NEW m \in 1 .. N, \A k \in 0 .. m - 1 : k \in B PROVE m \in B
  <2>1. m - 1 \in B /\ m \in 0 .. N
    BY <1>2
  <2>2. PICK f : Joined(f, nodes, m - 1)
    BY <2>1
  <2> DEFINE v == f[m - 1] \o TextOf(nodes[m])
             g == [k \in 0 .. m |-> IF k = m THEN v ELSE f[k]]
  <2>3. g[m] = v /\ \A k \in 0 .. m - 1 : g[k] = f[k]
    OBVIOUS
  <2>4. g = [k \in 0 .. m |-> g[k]]
    OBVIOUS
  <2> HIDE DEF g
  <2>5. g[0] = <<>>
    <3>1. 0 \in 0 .. m - 1
      OBVIOUS
    <3> QED BY <2>2, <2>3, <3>1 DEF Joined
  <2>6. ASSUME NEW k \in 1 .. m PROVE g[k] = g[k - 1] \o TextOf(nodes[k])
    <3>1. k - 1 \in 0 .. m - 1
      OBVIOUS
    <3>2. CASE k = m
      <4>1. g[m - 1] = f[m - 1]
        BY <2>3, <3>1, <3>2
      <4> QED BY <2>3, <3>2, <4>1
    <3>3. CASE k # m
      <4>1. k \in 1 .. m - 1 /\ k \in 0 .. m - 1
        BY <3>3
      <4>2. f[k] = f[k - 1] \o TextOf(nodes[k])
        BY <2>2, <4>1 DEF Joined
      <4> QED BY <2>3, <3>1, <4>1, <4>2
    <3> QED BY <3>2, <3>3
  <2>7. Joined(g, nodes, m)
    BY <2>5, <2>6 DEF Joined
  <2> QED BY <2>1, <2>4, <2>7
<1>3. \A m \in 1 .. N : (\A k \in 0 .. m - 1 : k \in B) => m \in B
  BY <1>2
<1> HIDE DEF B
<1>4. \A m \in 0 .. N : m \in B
  BY <1>1, <1>3, UpTo
<1>5. N \in B
  BY <1>4
<1> QED BY <1>5 DEF B

LEMMA TextsJoined ==
    ASSUME NEW nodes, NEW N \in Nat, Len(nodes) = N
    PROVE  \E f : Joined(f, nodes, N) /\ Texts(nodes) = f[N]
<1> DEFINE Rule(g) == [n \in 0 .. N |->
                        IF n = 0 THEN <<>>
                        ELSE g[n - 1] \o
                             IF nodes[n].type = "process" THEN Words(nodes[n]) ELSE <<nodes[n].val>>]
           F(g) == [n \in 0 .. N |-> IF n = 0 THEN <<>> ELSE g[n - 1] \o TextOf(nodes[n])]
           upto == CHOOSE g : g = Rule(g)
<1>1. PICK f : f = [k \in 0 .. N |-> f[k]] /\ Joined(f, nodes, N)
  BY JoinedExists
<1>2. \A g : Rule(g) = F(g)
  BY DEF TextOf
<1>3. f = Rule(f)
  <2>1. ASSUME NEW n \in 0 .. N PROVE f[n] = IF n = 0 THEN <<>> ELSE f[n - 1] \o TextOf(nodes[n])
    <3>1. n = 0 \/ n \in 1 .. N
      OBVIOUS
    <3> QED BY <1>1, <3>1 DEF Joined
  <2>2. f = F(f)
    BY <1>1, <2>1
  <2> HIDE DEF F, Rule
  <2> QED BY <1>2, <2>2
<1>4. upto = Rule(upto)
  <2> HIDE DEF Rule
  <2> QED BY <1>3
<1>5. Texts(nodes) = upto[N]
  BY DEF Texts
<1>6. upto = F(upto)
  <2> HIDE DEF F, Rule, upto
  <2> QED BY <1>2, <1>4
<1> HIDE DEF upto
<1>7. Joined(upto, nodes, N)
  <2>1. upto[0] = <<>>
    BY <1>6
  <2>2. ASSUME NEW k \in 1 .. N PROVE upto[k] = upto[k - 1] \o TextOf(nodes[k])
    <3>1. k \in 0 .. N /\ k # 0
      OBVIOUS
    <3> QED BY <1>6, <3>1
  <2> QED BY <2>1, <2>2 DEF Joined
<1> QED BY <1>5, <1>7

\* The texts of the tokens from i up to j.
Vals(ts, i, j) == [k \in 1 .. j - i + 1 |-> ts[i + k - 1].val]

LEMMA ValsJoin ==
    ASSUME NEW S, NEW ts \in Seq(S), NEW i \in 1 .. Len(ts) + 1, NEW j \in i - 1 .. Len(ts)
    PROVE  Vals(ts, 1, i - 1) \o Vals(ts, i, j) = Vals(ts, 1, j)
<1> DEFINE Y == {ts[k].val : k \in 1 .. Len(ts)}
           n == Len(ts)
           a == i - 1
           b == j - i + 1
           x == Vals(ts, 1, a)
           y == Vals(ts, i, j)
           z == Vals(ts, 1, j)
           w == x \o y
<1>0. n \in Nat /\ a \in Nat /\ b \in Nat /\ j \in Nat /\ j = a + b /\ a <= n /\ j <= n /\ i = a + 1
  OBVIOUS
<1>1. \A k \in 1 .. n : ts[k].val \in Y
  OBVIOUS
<1> HIDE DEF a, b, n, Y
<1>2. x = [k \in 1 .. a |-> ts[k].val]
  <2>1. a - 1 + 1 = a /\ \A k \in 1 .. a : 1 + k - 1 = k
    BY <1>0
  <2> QED BY <2>1 DEF Vals
<1>3. y = [k \in 1 .. b |-> ts[a + k].val]
  <2>1. j - i + 1 = b /\ \A k \in 1 .. b : i + k - 1 = a + k
    BY <1>0
  <2> QED BY <2>1 DEF Vals
<1>4. z = [k \in 1 .. j |-> ts[k].val]
  <2>1. j - 1 + 1 = j /\ \A k \in 1 .. j : 1 + k - 1 = k
    BY <1>0
  <2> QED BY <2>1 DEF Vals
<1> HIDE DEF x, y, z
<1>5. x \in Seq(Y) /\ Len(x) = a /\ \A k \in 1 .. a : x[k] = ts[k].val
  <2>1. \A k \in 1 .. a : ts[k].val \in Y
    <3>1. \A k \in 1 .. a : k \in 1 .. n
      BY <1>0
    <3> QED BY <1>1, <3>1
  <2> QED BY <1>0, <1>2, <2>1
<1>6. y \in Seq(Y) /\ Len(y) = b /\ \A k \in 1 .. b : y[k] = ts[a + k].val
  <2>1. \A k \in 1 .. b : ts[a + k].val \in Y
    <3>1. \A k \in 1 .. b : a + k \in 1 .. n
      BY <1>0
    <3> QED BY <1>1, <3>1
  <2> QED BY <1>0, <1>3, <2>1
<1>7. z \in Seq(Y) /\ Len(z) = j /\ \A k \in 1 .. j : z[k] = ts[k].val
  <2>1. \A k \in 1 .. j : ts[k].val \in Y
    <3>1. \A k \in 1 .. j : k \in 1 .. n
      BY <1>0
    <3> QED BY <1>1, <3>1
  <2> QED BY <1>0, <1>4, <2>1
<1>8. /\ w \in Seq(Y) /\ Len(w) = Len(x) + Len(y)
      /\ \A k \in 1 .. Len(x) : w[k] = x[k]
      /\ \A k \in 1 .. Len(y) : w[Len(x) + k] = y[k]
  <2>1. x \in Seq(Y) /\ y \in Seq(Y)
    BY <1>5, <1>6
  <2>2. x \o y \in Seq(Y) /\ Len(x \o y) = Len(x) + Len(y)
    BY <2>1, JoinLemma
  <2>3. \A k \in 1 .. Len(x) : (x \o y)[k] = x[k]
    BY <2>1, JoinLemma
  <2>4. \A k \in 1 .. Len(y) : (x \o y)[Len(x) + k] = y[k]
    BY <2>1, JoinLemma
  <2> QED BY <2>2, <2>3, <2>4
<1> HIDE DEF w
<1>9. Len(w) = j
  BY <1>0, <1>5, <1>6, <1>8
<1>10. ASSUME NEW k \in 1 .. j PROVE w[k] = z[k]
  <2>1. CASE k <= a
    <3>1. k \in 1 .. a
      BY <1>0, <2>1
    <3> QED BY <1>5, <1>7, <1>8, <3>1
  <2>2. CASE k > a
    <3>1. k - a \in 1 .. b /\ a + (k - a) = k
      BY <1>0, <2>2
    <3>2. w[a + (k - a)] = y[k - a]
      BY <1>5, <1>6, <1>8, <3>1
    <3>3. y[k - a] = ts[a + (k - a)].val
      BY <1>6, <3>1
    <3> QED BY <1>7, <3>1, <3>2, <3>3
  <2> QED BY <1>0, <2>1, <2>2
<1>11. w = z
  BY <1>7, <1>8, <1>9, <1>10
<1> QED BY <1>11 DEF w, x, y, z, a

LEMMA TokenText ==
    ASSUME NEW S, NEW ts \in Seq(S), LexicalTokens(ts), NEW i \in 1 .. Len(ts)
    PROVE  TextOf(ts[i]) = Vals(ts, i, i)
<1>1. ts[i].type # "process"
  BY LexicalFacts DEF LexicalTokens
<1> DEFINE v == ts[i].val
<1>2. TextOf(ts[i]) = <<v>>
  BY <1>1 DEF TextOf
<1>3. Vals(ts, i, i) = [k \in 1 .. 1 |-> v]
  <2>1. i - i + 1 = 1 /\ \A k \in 1 .. 1 : i + k - 1 = i
    OBVIOUS
  <2> QED BY <2>1 DEF Vals
<1> HIDE DEF v
<1>4. <<v>> = [k \in 1 .. 1 |-> v]
  OBVIOUS
<1> QED BY <1>2, <1>3, <1>4

LEMMA ProcessText ==
    ASSUME NEW S, NEW ts \in Seq(S), NEW i \in 1 .. Len(ts) + 1
    PROVE  TextOf(take_process(ts, i)) = Vals(ts, i, EndOf(ts, i) - 1)
<1> DEFINE p == take_process(ts, i)
           size == EndOf(ts, i) - i
<1>1. /\ p.type = "process" /\ size \in Nat
      /\ p.val = [n \in 1 .. size |-> Token(Role(ts[i + n - 1], n), ts[i + n - 1].val)]
  BY ProcessLemma
<1>2. (EndOf(ts, i) - 1) - i + 1 = size
  <2>1. EndOf(ts, i) \in i .. Len(ts) + 1
    BY EndLemma
  <2> QED BY <2>1
<1>3. Vals(ts, i, EndOf(ts, i) - 1) = [k \in 1 .. size |-> ts[i + k - 1].val]
  BY <1>2 DEF Vals
<1> HIDE DEF p, size
<1>4. DOMAIN p.val = 1 .. size /\ \A n \in 1 .. size : p.val[n].val = ts[i + n - 1].val
  BY <1>1 DEF Token
<1>5. Words(p) = [k \in 1 .. size |-> ts[i + k - 1].val]
  BY <1>4 DEF Words
<1> QED BY <1>1, <1>3, <1>5 DEF TextOf, p

LEMMA TextStep ==
    ASSUME NEW S, NEW ts \in Seq(S), NEW i \in 1 .. Len(ts) + 1, NEW j \in i - 1 .. Len(ts),
           NEW before, NEW text, before = Vals(ts, 1, i - 1), text = Vals(ts, i, j)
    PROVE  before \o text = Vals(ts, 1, j)
  BY ValsJoin

LEMMA EmptyVals == ASSUME NEW ts PROVE Vals(ts, 1, 0) = <<>>
<1>1. 0 - 1 + 1 = 0 /\ 1 .. 0 = {}
  OBVIOUS
<1>2. Vals(ts, 1, 0) = [k \in {} |-> ts[1 + k - 1].val]
  BY <1>1 DEF Vals
<1> QED BY <1>1, <1>2

LEMMA WholeVals ==
    ASSUME NEW S, NEW ts \in Seq(S)
    PROVE  Vals(ts, 1, Len(ts)) = [n \in DOMAIN ts |-> ts[n].val]
<1>1. DOMAIN ts = 1 .. Len(ts) /\ Len(ts) - 1 + 1 = Len(ts)
  OBVIOUS
<1>2. \A n \in 1 .. Len(ts) : 1 + n - 1 = n
  OBVIOUS
<1> QED BY <1>1, <1>2 DEF Vals

\* The first process of a statement, and the nodes after it up to place j.
LEMMA FirstText ==
    ASSUME NEW S, NEW ts \in Seq(S), NEW nodes, NEW f, NEW m \in Nat \ {0}, Joined(f, nodes, m),
           nodes[1] = take_process(ts, 1)
    PROVE  f[1] = Vals(ts, 1, EndOf(ts, 1) - 1)
<1>1. 1 \in 1 .. m /\ 1 - 1 = 0
  OBVIOUS
<1>2. f[1] = f[0] \o TextOf(nodes[1]) /\ f[0] = <<>>
  <2>1. f[1] = f[1 - 1] \o TextOf(nodes[1]) /\ f[0] = <<>>
    BY <1>1 DEF Joined
  <2> QED BY <1>1, <2>1
<1>3. 1 \in 1 .. Len(ts) + 1
  OBVIOUS
<1>4. TextOf(nodes[1]) = Vals(ts, 1, EndOf(ts, 1) - 1)
  BY <1>3, ProcessText
<1>5. EndOf(ts, 1) - 1 \in 1 - 1 .. Len(ts)
  <2>1. EndOf(ts, 1) \in 1 .. Len(ts) + 1
    BY <1>3, EndLemma
  <2> QED BY <2>1
<1> DEFINE j == EndOf(ts, 1) - 1
<1>6. j \in 1 - 1 .. Len(ts) /\ TextOf(nodes[1]) = Vals(ts, 1, j)
  BY <1>4, <1>5
<1> HIDE DEF j
<1>7. f[0] = Vals(ts, 1, 1 - 1)
  BY <1>1, <1>2, EmptyVals
<1>8. f[0] \o TextOf(nodes[1]) = Vals(ts, 1, j)
  BY <1>3, <1>6, <1>7, TextStep
<1> QED BY <1>2, <1>8 DEF j

LEMMA TokenStep ==
    ASSUME NEW S, NEW ts \in Seq(S), LexicalTokens(ts), NEW nodes, NEW f, NEW m \in Nat,
           Joined(f, nodes, m), NEW k \in 1 .. m, NEW i \in 1 .. Len(ts),
           nodes[k] = ts[i], f[k - 1] = Vals(ts, 1, i - 1)
    PROVE  f[k] = Vals(ts, 1, i)
<1>1. f[k] = f[k - 1] \o TextOf(nodes[k])
  BY DEF Joined
<1>2. TextOf(nodes[k]) = Vals(ts, i, i)
  BY TokenText
<1>3. i \in 1 .. Len(ts) + 1 /\ i \in i - 1 .. Len(ts)
  OBVIOUS
<1> QED BY <1>1, <1>2, <1>3, TextStep

LEMMA ProcessStep ==
    ASSUME NEW S, NEW ts \in Seq(S), NEW nodes, NEW f, NEW m \in Nat,
           Joined(f, nodes, m), NEW k \in 1 .. m, NEW i \in 1 .. Len(ts),
           nodes[k] = take_process(ts, i + 1), f[k - 1] = Vals(ts, 1, i)
    PROVE  f[k] = Vals(ts, 1, EndOf(ts, i + 1) - 1)
<1> DEFINE h == i + 1
           j == EndOf(ts, h) - 1
<1>1. f[k] = f[k - 1] \o TextOf(nodes[k])
  BY DEF Joined
<1>2. h \in 1 .. Len(ts) + 1 /\ h - 1 = i
  OBVIOUS
<1>3. TextOf(nodes[k]) = Vals(ts, h, j)
  <2> HIDE DEF h
  <2> QED BY <1>2, ProcessText DEF h
<1>4. j \in h - 1 .. Len(ts)
  <2> HIDE DEF h
  <2>1. EndOf(ts, h) \in h .. Len(ts) + 1
    BY <1>2, EndLemma
  <2> QED BY <1>2, <2>1
<1>5. f[k - 1] = Vals(ts, 1, h - 1)
  BY <1>2
<1> HIDE DEF h, j
<1>6. f[k - 1] \o TextOf(nodes[k]) = Vals(ts, 1, j)
  BY <1>2, <1>3, <1>4, <1>5, TextStep
<1> QED BY <1>1, <1>6 DEF h, j

\* Every token of a statement is in its nodes, in order.
LEMMA FormTexts ==
    ASSUME NEW S, NEW ts \in Seq(S), LexicalTokens(ts),
           \/ Alone(ts) \/ Redirected(ts)
           \/ \E e \in 1 .. Len(ts) : Piped(ts, e) \/ PipedOut(ts, e)
    PROVE  Texts(parse_statement(ts)) = Vals(ts, 1, Len(ts))
<1> DEFINE nodes == parse_statement(ts)
           n == Len(ts)
<1>0. n \in Nat
  OBVIOUS
<1>1. CASE Alone(ts)
  <2>1. EndOf(ts, 1) = n + 1 /\ Len(nodes) = 1 /\ nodes[1] = take_process(ts, 1)
    BY <1>1, AloneNodes
  <2> HIDE DEF nodes
  <2>2. PICK f : Joined(f, nodes, 1) /\ Texts(nodes) = f[1]
    <3>1. 1 \in Nat
      OBVIOUS
    <3> QED BY <2>1, <3>1, TextsJoined
  <2>3. f[1] = Vals(ts, 1, EndOf(ts, 1) - 1)
    <3>1. 1 \in Nat \ {0}
      OBVIOUS
    <3> QED BY <2>1, <2>2, <3>1, FirstText
  <2>4. EndOf(ts, 1) - 1 = n
    BY <1>0, <2>1
  <2> QED BY <2>2, <2>3, <2>4 DEF nodes
<1>2. CASE Redirected(ts)
  <2>1. /\ n > 2 /\ EndOf(ts, 1) = n - 1 /\ Len(nodes) = 3 /\ nodes[1] = take_process(ts, 1)
        /\ nodes[2] = ts[n - 1] /\ nodes[3] = ts[n]
    BY <1>2, RedirectedNodes
  <2> HIDE DEF nodes
  <2>2. PICK f : Joined(f, nodes, 3) /\ Texts(nodes) = f[3]
    <3>1. 3 \in Nat
      OBVIOUS
    <3> QED BY <2>1, <3>1, TextsJoined
  <2>3. f[1] = Vals(ts, 1, (n - 1) - 1)
    <3>1. 3 \in Nat \ {0}
      OBVIOUS
    <3>2. f[1] = Vals(ts, 1, EndOf(ts, 1) - 1)
      BY <2>1, <2>2, <3>1, FirstText
    <3> QED BY <2>1, <3>2
  <2>4. f[2] = Vals(ts, 1, n - 1)
    <3> DEFINE i == n - 1
    <3>1. i \in 1 .. n /\ 2 \in 1 .. 3 /\ 2 - 1 = 1 /\ 3 \in Nat
      BY <1>0, <2>1
    <3>2. nodes[2] = ts[i] /\ f[2 - 1] = Vals(ts, 1, i - 1)
      BY <2>1, <2>3, <3>1
    <3> HIDE DEF i
    <3>3. f[2] = Vals(ts, 1, i)
      BY <2>2, <3>1, <3>2, TokenStep
    <3> QED BY <3>3 DEF i
  <2>5. f[3] = Vals(ts, 1, n)
    <3>1. n \in 1 .. n /\ 3 \in 1 .. 3 /\ 3 - 1 = 2 /\ 3 \in Nat
      BY <1>0, <2>1
    <3>2. f[3 - 1] = Vals(ts, 1, n - 1)
      BY <2>4, <3>1
    <3> QED BY <2>1, <2>2, <3>1, <3>2, TokenStep
  <2> QED BY <2>2, <2>5 DEF nodes
<1>3. ASSUME NEW e \in 1 .. n, Piped(ts, e) PROVE Texts(nodes) = Vals(ts, 1, n)
  <2>1. /\ EndOf(ts, e + 1) = n + 1 /\ Len(nodes) = 3 /\ nodes[1] = take_process(ts, 1)
        /\ nodes[2] = ts[e] /\ nodes[3] = take_process(ts, e + 1)
    BY <1>3, PipedNodes
  <2>2. EndOf(ts, 1) = e
    BY <1>3, PipeEnd DEF Piped
  <2> HIDE DEF nodes
  <2>3. PICK f : Joined(f, nodes, 3) /\ Texts(nodes) = f[3]
    <3>1. 3 \in Nat
      OBVIOUS
    <3> QED BY <2>1, <3>1, TextsJoined
  <2>4. 3 \in Nat \ {0} /\ 2 \in 1 .. 3 /\ 3 \in 1 .. 3 /\ 2 - 1 = 1 /\ 3 - 1 = 2 /\ 3 \in Nat
    OBVIOUS
  <2>5. f[2 - 1] = Vals(ts, 1, e - 1)
    <3>1. f[1] = Vals(ts, 1, EndOf(ts, 1) - 1)
      BY <2>1, <2>3, <2>4, FirstText
    <3> QED BY <2>2, <2>4, <3>1
  <2>6. f[3 - 1] = Vals(ts, 1, e)
    <3>1. f[2] = Vals(ts, 1, e)
      BY <2>1, <2>3, <2>4, <2>5, TokenStep
    <3> QED BY <2>4, <3>1
  <2>7. f[3] = Vals(ts, 1, EndOf(ts, e + 1) - 1)
    BY <2>1, <2>3, <2>4, <2>6, ProcessStep
  <2>8. (n + 1) - 1 = n
    BY <1>0
  <2> QED BY <2>1, <2>3, <2>7, <2>8
<1>4. ASSUME NEW e \in 1 .. n, PipedOut(ts, e) PROVE Texts(nodes) = Vals(ts, 1, n)
  <2>1. /\ e < n - 2 /\ EndOf(ts, e + 1) = n - 1 /\ Len(nodes) = 5 /\ nodes[1] = take_process(ts, 1)
        /\ nodes[2] = ts[e] /\ nodes[3] = take_process(ts, e + 1)
        /\ nodes[4] = ts[n - 1] /\ nodes[5] = ts[n]
    BY <1>4, PipedOutNodes
  <2>2. EndOf(ts, 1) = e
    BY <1>4, PipeEnd DEF PipedOut
  <2> HIDE DEF nodes
  <2>3. PICK f : Joined(f, nodes, 5) /\ Texts(nodes) = f[5]
    <3>1. 5 \in Nat
      OBVIOUS
    <3> QED BY <2>1, <3>1, TextsJoined
  <2>4. /\ 5 \in Nat \ {0} /\ 5 \in Nat /\ 2 \in 1 .. 5 /\ 3 \in 1 .. 5 /\ 4 \in 1 .. 5 /\ 5 \in 1 .. 5
        /\ 2 - 1 = 1 /\ 3 - 1 = 2 /\ 4 - 1 = 3 /\ 5 - 1 = 4
    OBVIOUS
  <2>5. f[2 - 1] = Vals(ts, 1, e - 1)
    <3>1. f[1] = Vals(ts, 1, EndOf(ts, 1) - 1)
      BY <2>1, <2>3, <2>4, FirstText
    <3> QED BY <2>2, <2>4, <3>1
  <2>6. f[3 - 1] = Vals(ts, 1, e)
    <3>1. f[2] = Vals(ts, 1, e)
      BY <2>1, <2>3, <2>4, <2>5, TokenStep
    <3> QED BY <2>4, <3>1
  <2>7. f[3] = Vals(ts, 1, (n - 1) - 1)
    <3>1. f[3] = Vals(ts, 1, EndOf(ts, e + 1) - 1)
      BY <2>1, <2>3, <2>4, <2>6, ProcessStep
    <3> QED BY <2>1, <3>1
  <2>8. f[4] = Vals(ts, 1, n - 1)
    <3> DEFINE i == n - 1
    <3>1. i \in 1 .. n
      BY <1>0, <2>1
    <3>2. nodes[4] = ts[i] /\ f[4 - 1] = Vals(ts, 1, i - 1)
      BY <2>1, <2>4, <2>7
    <3> HIDE DEF i
    <3>3. f[4] = Vals(ts, 1, i)
      BY <2>3, <2>4, <3>1, <3>2, TokenStep
    <3> QED BY <3>3 DEF i
  <2>9. f[5] = Vals(ts, 1, n)
    <3>1. n \in 1 .. n
      BY <1>0, <2>1
    <3>2. f[5 - 1] = Vals(ts, 1, n - 1)
      BY <2>4, <2>8
    <3> QED BY <2>1, <2>3, <2>4, <3>1, <3>2, TokenStep
  <2> QED BY <2>3, <2>9
<1> QED BY <1>1, <1>2, <1>3, <1>4

\* The parser, of any statement.
LEMMA ReadLemma ==
    ASSUME NEW S, NEW ts \in Seq(S), LexicalTokens(ts)
    PROVE  /\ Grammatical(ts) <=> validate_statement(parse_statement(ts)) /\ Clean(ts)
           /\ Grammatical(ts) => Texts(parse_statement(ts)) = [n \in DOMAIN ts |-> ts[n].val]
<1> DEFINE Form == \/ Alone(ts) \/ Redirected(ts)
                   \/ \E e \in 1 .. Len(ts) : Piped(ts, e) \/ PipedOut(ts, e)
<1>1. Grammatical(ts) <=> Form
  BY GrammarLemma
<1>2. Form => validate_statement(parse_statement(ts)) /\ Clean(ts)
  BY AloneAccepted, RedirectedAccepted, PipedAccepted, PipedOutAccepted
<1>3. validate_statement(parse_statement(ts)) /\ Clean(ts) => Form
  BY AcceptedClean
<1>4. Form => Texts(parse_statement(ts)) = [n \in DOMAIN ts |-> ts[n].val]
  BY FormTexts, WholeVals
<1> QED BY <1>1, <1>2, <1>3, <1>4

(***************************************************************************)
(* The tokens of a line are such as tokenize makes, of any number.         *)
(***************************************************************************)
TokensLexical(ts) ==
    /\ \E S : ts \in Seq(S)
    /\ IsLua(ts) \/ \A k \in 1 .. Len(ts) : Lexical(ts[k]) \/ (k = 1 /\ ts[k] = Bang)

LEMMA BangLemma == Bang.type = "debug" /\ LuaWord.type = "str" /\ LuaWord # Bang
  BY DEF Bang, LuaWord, Token

LEMMA CommandLexical ==
    ASSUME NEW ts, TokensLexical(ts), ~IsLua(ts)
    PROVE  \E S : Command(ts) \in Seq(S) /\ LexicalTokens(Command(ts))
<1>1. PICK S : ts \in Seq(S)
  BY DEF TokensLexical
<1>2. \A k \in 1 .. Len(ts) : Lexical(ts[k]) \/ (k = 1 /\ ts[k] = Bang)
  BY DEF TokensLexical
<1>3. CASE Debugs(ts)
  <2> DEFINE c == Tail(ts)
  <2>1. ts # <<>>
    BY <1>3 DEF Debugs
  <2>2. c \in Seq(S) /\ Len(c) = Len(ts) - 1 /\ \A k \in 1 .. Len(c) : c[k] = ts[k + 1]
    BY <1>1, <2>1
  <2> HIDE DEF c
  <2>3. Len(ts) \in Nat
    BY <1>1
  <2>4. ASSUME NEW k \in 1 .. Len(c) PROVE Lexical(c[k])
    <3>1. k + 1 \in 1 .. Len(ts) /\ k + 1 # 1
      BY <2>2, <2>3
    <3>2. Lexical(ts[k + 1])
      BY <1>2, <3>1
    <3> QED BY <2>2, <3>2
  <2>5. LexicalTokens(c)
    BY <2>4 DEF LexicalTokens
  <2> QED BY <1>3, <2>2, <2>5 DEF Command, c
<1>4. CASE ~Debugs(ts)
  <2>1. \A k \in 1 .. Len(ts) : k = 1 => ts[k] # Bang
    <3>1. Len(ts) > 0 => ts # <<>>
      BY <1>1
    <3>2. \A k \in 1 .. Len(ts) : Len(ts) > 0
      BY <1>1
    <3> QED BY <1>4, <3>1, <3>2 DEF Debugs
  <2>2. LexicalTokens(ts)
    BY <1>2, <2>1 DEF LexicalTokens
  <2> QED BY <1>1, <1>4, <2>2 DEF Command
<1> QED BY <1>3, <1>4

LEMMA ReadAsTypedLemma ==
    ASSUME TokensLexical(tokens)
    PROVE  ReadAsTyped
<1> SUFFICES ASSUME Command(tokens) # <<>>, ~IsLua(tokens)
             PROVE  LET ts == Command(tokens)
                    IN  /\ Grammatical(ts) <=> Accepted(tokens) /\ Clean(ts)
                        /\ Grammatical(ts) =>
                             Texts(parse_statement(ts)) = [n \in DOMAIN ts |-> ts[n].val]
  BY DEF ReadAsTyped
<1>1. PICK S : Command(tokens) \in Seq(S) /\ LexicalTokens(Command(tokens))
  BY CommandLexical
<1> DEFINE ts == Command(tokens)
<1>2. Accepted(tokens) <=> validate_statement(parse_statement(ts))
  BY DEF Accepted
<1> HIDE DEF ts
<1>3. /\ Grammatical(ts) <=> validate_statement(parse_statement(ts)) /\ Clean(ts)
      /\ Grammatical(ts) => Texts(parse_statement(ts)) = [n \in DOMAIN ts |-> ts[n].val]
  BY <1>1, ReadLemma DEF ts
<1> QED BY <1>2, <1>3 DEF ts

LEMMA EmptyLexical == TokensLexical(<<>>)
<1>1. <<>> \in Seq({}) /\ Len(<<>>) = 0 /\ 1 .. 0 = {}
  OBVIOUS
<1> QED BY <1>1 DEF TokensLexical

LEMMA BangLexical == TokensLexical(<<Bang>>)
<1> DEFINE b == Bang
           ts == <<b>>
<1>1. ts \in Seq({b}) /\ Len(ts) = 1 /\ ts[1] = b
  OBVIOUS
<1> HIDE DEF ts
<1>2. \A k \in 1 .. Len(ts) : k = 1 /\ ts[k] = Bang
  BY <1>1
<1> QED BY <1>1, <1>2 DEF TokensLexical, ts

LEMMA AppendLexical ==
    ASSUME NEW ts, TokensLexical(ts), ~IsLua(ts), NEW t, Lexical(t)
    PROVE  TokensLexical(Append(ts, t))
<1>1. PICK S : ts \in Seq(S)
  BY DEF TokensLexical
<1>2. \A k \in 1 .. Len(ts) : Lexical(ts[k]) \/ (k = 1 /\ ts[k] = Bang)
  BY DEF TokensLexical
<1> DEFINE T == S \cup {t}
           us == Append(ts, t)
<1>3. t \in T /\ ts \in Seq(T)
  BY <1>1
<1> HIDE DEF T
<1>4. us \in Seq(T) /\ Len(us) = Len(ts) + 1 /\ us[Len(ts) + 1] = t
      /\ \A k \in 1 .. Len(ts) : us[k] = ts[k]
  BY <1>3
<1> HIDE DEF us
<1>5. ASSUME NEW k \in 1 .. Len(us) PROVE Lexical(us[k]) \/ (k = 1 /\ us[k] = Bang)
  <2>1. Len(ts) \in Nat
    BY <1>1
  <2>2. k \in 1 .. Len(ts) \/ k = Len(ts) + 1
    BY <1>4, <2>1
  <2> QED BY <1>2, <1>4, <2>2
<1>6. TokensLexical(us)
  BY <1>4, <1>5 DEF TokensLexical
<1> QED BY <1>6 DEF us

LEMMA LuaLexical ==
    ASSUME NEW ts, TokensLexical(ts), Command(ts) = <<>>
    PROVE  TokensLexical(ts \o <<LuaWord, LuaCode>>)
<1>1. PICK S : ts \in Seq(S)
  BY DEF TokensLexical
<1> DEFINE a == LuaWord
           c == LuaCode
           T == S \cup {a, c}
           w == <<a, c>>
           us == ts \o w
<1>2. ts \in Seq(T) /\ w \in Seq(T) /\ Len(w) = 2 /\ w[1] = a
  BY <1>1
<1> HIDE DEF T, w, a, c
<1>3. us \in Seq(T) /\ Len(us) = Len(ts) + 2 /\ us[Len(ts) + 1] = a
      /\ \A k \in 1 .. Len(ts) : us[k] = ts[k]
  <2>1. 1 \in 1 .. Len(w)
    BY <1>2
  <2>2. us \in Seq(T) /\ Len(us) = Len(ts) + Len(w)
    BY <1>2, JoinLemma
  <2>3. \A k \in 1 .. Len(ts) : us[k] = ts[k]
    BY <1>2, JoinLemma
  <2>4. \A k \in 1 .. Len(w) : us[Len(ts) + k] = w[k]
    <3>1. ts \in Seq(T) /\ w \in Seq(T)
      BY <1>2
    <3> QED BY <3>1, JoinLemma
  <2> HIDE DEF us
  <2>5. us[Len(ts) + 1] = a
    BY <1>2, <2>1, <2>4
  <2> QED BY <1>2, <2>2, <2>3, <2>5
<1> HIDE DEF us
<1>4. Len(ts) \in Nat /\ us # <<>>
  <2>1. Len(ts) \in Nat
    BY <1>1
  <2>2. Len(us) # 0
    BY <1>3, <2>1
  <2> QED BY <2>1, <2>2
<1>5. CASE Debugs(ts)
  <2>1. ts # <<>> /\ ts[1] = Bang /\ Tail(ts) = <<>>
    BY <1>5 DEF Debugs, Command
  <2>2. Len(ts) = 1
    <3>1. Len(Tail(ts)) = Len(ts) - 1
      BY <1>1, <2>1
    <3>2. Len(ts) - 1 = 0
      BY <2>1, <3>1
    <3> QED BY <1>4, <3>2
  <2>3. us[1] = Bang
    BY <1>3, <2>1, <2>2
  <2>4. Command(us) = Tail(us)
    BY <1>4, <2>3 DEF Command, Debugs
  <2>5. Tail(us) # <<>> /\ Tail(us)[1] = a
    <3>1. Tail(us) \in Seq(T) /\ Len(Tail(us)) = Len(us) - 1 /\ \A k \in 1 .. Len(us) - 1 : Tail(us)[k] = us[k + 1]
      BY <1>3, <1>4
    <3>2. 1 \in 1 .. Len(us) - 1 /\ 1 + 1 = Len(ts) + 1
      BY <1>3, <2>2
    <3>3. Tail(us)[1] = us[1 + 1]
      BY <3>1, <3>2
    <3>4. Len(Tail(us)) # 0
      BY <1>3, <2>2, <3>1
    <3> QED BY <1>3, <3>2, <3>3, <3>4
  <2>6. IsLua(us)
    BY <2>4, <2>5 DEF IsLua, a
  <2> QED BY <1>3, <2>6 DEF TokensLexical, us, w, a, c
<1>6. CASE ~Debugs(ts)
  <2>1. Len(ts) = 0
    BY <1>6 DEF Command
  <2>2. us[1] = a
    BY <1>3, <2>1
  <2>3. Command(us) = us
    BY <2>2, BangLemma DEF Command, Debugs, a
  <2>4. IsLua(us)
    BY <1>4, <2>2, <2>3 DEF IsLua, a
  <2> QED BY <1>3, <2>4 DEF TokensLexical, us, w, a, c
<1> QED BY <1>5, <1>6

Lexed == TokensLexical(tokens)

\* Lang's steps: tokens are typed, and a line that does not fail goes.
LEMMA TypedLexical ==
    ASSUME Lexed, TypeBang \/ TypeLua \/ Erase \/ \E t \in Typed : Type(t)
    PROVE  Lexed'
<1>0. TokensLexical(tokens)
  BY DEF Lexed
<1> SUFFICES \E after : after = tokens' /\ TokensLexical(after)
  BY DEF Lexed
<1>1. CASE TypeBang
  BY <1>1, BangLexical DEF TypeBang
<1>2. CASE TypeLua
  BY <1>0, <1>2, LuaLexical DEF TypeLua
<1>3. CASE Erase
  BY <1>3, EmptyLexical DEF Erase
<1>4. ASSUME NEW t \in Typed, Type(t) PROVE \E after : after = tokens' /\ TokensLexical(after)
  <2>1. Lexical(t)
    BY LangAssumption
  <2>2. ~IsLua(tokens) /\ tokens' = Append(tokens, t)
    BY <1>4 DEF Type
  <2> QED BY <1>0, <2>1, <2>2, AppendLexical
<1> QED BY <1>1, <1>2, <1>3, <1>4

LEMMA SubmittedLexical ==
    ASSUME Lexed, Submit
    PROVE  Lexed'
<1>0. TokensLexical(tokens)
  BY DEF Lexed
<1> SUFFICES \E after : after = tokens' /\ TokensLexical(after)
  BY DEF Lexed
<1>1. tokens' = tokens \/ tokens' = <<>>
  <2>1. ASSUME NEW result, Ends(result) PROVE tokens' = tokens \/ tokens' = <<>>
    BY <2>1 DEF Ends
  <2>2. CASE Submit_Nothing
    BY <2>1, <2>2 DEF Submit_Nothing
  <2>3. CASE Submit_Refused
    BY <2>1, <2>3 DEF Submit_Refused
  <2>4. CASE Submit_Lua
    BY <2>1, <2>4 DEF Submit_Lua
  <2>5. CASE Submit_Statement
    BY <2>1, <2>5 DEF Submit_Statement
  <2> QED BY <2>2, <2>3, <2>4, <2>5 DEF Submit
<1> QED BY <1>0, <1>1, EmptyLexical

LEMMA LexedInit == Init => Lexed
  BY EmptyLexical DEF Init, Lexed

\* Of every line, of any tokens and any length: a line of the grammar is accepted, with
\* every token in its place, and what else is accepted has tokens that are taken away.
THEOREM StatementsReadAsTyped == Spec => []ReadAsTyped
<1>1. Lexed /\ [Next]_vars => Lexed'
  <2> SUFFICES ASSUME Lexed, [Next]_vars PROVE Lexed'
    OBVIOUS
  <2>1. CASE TypeBang \/ TypeLua \/ Erase \/ \E t \in Typed : Type(t)
    BY <2>1, TypedLexical
  <2>2. CASE Submit
    BY <2>2, SubmittedLexical
  <2>3. CASE UNCHANGED vars
    BY <2>3 DEF vars, Lexed
  <2> QED BY <2>1, <2>2, <2>3 DEF Next
<1>2. Lexed => ReadAsTyped
  BY ReadAsTypedLemma DEF Lexed
<1> QED BY <1>1, <1>2, LexedInit, PTL DEF Spec

(***************************************************************************)
(* Lines typed character by character: the lexer's tokens are such, too.   *)
(***************************************************************************)
LineFits == line \in Seq(Alphabet) /\ Len(line) <= MaxLine

Short(val) == val # <<>> /\ Len(val) <= MaxLine

Kinds ==
    {t \in Tok :
        \/ t.type = "string"
        \/ t.type = "error" /\ Short(t.val) /\ t.val[1] \in Lex!Quotes
        \/ t.type = Lex!WordType(t.val) /\ Short(t.val)}

LEMMA AtKind ==
    ASSUME LineFits, NEW i \in 1 .. Len(line), line[i] # Lex!Blank
    PROVE  At(i) \in Kinds
<1> DEFINE t == At(i)
<1>0. line \in Seq(Alphabet) /\ Len(line) \in Nat /\ Len(line) <= MaxLine /\ MaxLine \in Nat
  BY FrontEndAssumption DEF LineFits
<1>1. PICK j \in i .. Len(line) : Good(t, i, j)
  BY <1>0, AtGood
<1> DEFINE text == SubSeq(line, i, j)
<1>2. text \in Seq(Alphabet) /\ Len(text) = j - i + 1
  <2>1. i \in 1 .. Len(line) + 1 /\ j \in i - 1 .. Len(line)
    BY <1>0
  <2> QED BY <1>0, <2>1, PartLemma
<1>3. t \in Tok /\ Lex!Fits(t) /\ Lex!Text(t) = text
  BY <1>1 DEF Good, Lex!Text
<1> HIDE DEF text
<1>4. Short(text)
  <2>1. Len(text) # 0 /\ Len(text) <= MaxLine
    BY <1>0, <1>2
  <2> QED BY <2>1 DEF Short
<1>5. CASE line[i] \in Lex!Quotes
  <2>1. t.type \in {"string", "error"}
    BY <1>5 DEF At, Lex!Quoted, Lex!Token
  <2>2. CASE t.type = "string"
    BY <1>3, <2>2 DEF Kinds
  <2>3. CASE t.type = "error"
    <3> HIDE DEF t
    <3>1. t.val = text /\ text[1] \in Lex!Quotes
      BY <1>3, <2>3 DEF Lex!Fits
    <3> QED BY <1>3, <1>4, <2>3, <3>1 DEF Kinds, t
  <2> QED BY <2>1, <2>2, <2>3
<1>6. CASE line[i] \notin Lex!Quotes
  <2>1. t.type = Lex!WordType(t.val)
    BY <1>6 DEF At, Lex!Word, Lex!Token
  <2>2. t.type \in {"pipe", "redir", "fd", "identifier"}
    BY <2>1 DEF Lex!WordType
  <2> HIDE DEF t
  <2>3. t.val = text
    BY <1>3, <2>2 DEF Lex!Fits
  <2> QED BY <1>3, <1>4, <2>1, <2>3 DEF Kinds, t
<1> QED BY <1>5, <1>6

LEMMA LexedKinds ==
    ASSUME LineFits, NEW from \in 1 .. Len(line) + 1
    PROVE  Lex!Lexed(line, from) \in Seq(Kinds)
<1> DEFINE L == Len(line)
<1>0. L \in Nat /\ line \in Seq(Alphabet)
  BY DEF LineFits
<1>1. PICK f : Lexing(f, from) /\ Lex!Lexed(line, from) = f[from]
  BY <1>0, LexedLemma
<1> DEFINE B == {n \in 0 .. L + 1 - from : f[L + 1 - n] \in Seq(Kinds)}
<1>2. 0 \in B
  <2>1. f[L + 1] = <<>> /\ L + 1 - 0 = L + 1 /\ 0 \in 0 .. L + 1 - from
    BY <1>0, <1>1 DEF Lexing
  <2>2. <<>> \in Seq(Kinds)
    OBVIOUS
  <2> QED BY <2>1, <2>2
<1>3. ASSUME NEW n \in 1 .. L + 1 - from, \A m \in 0 .. n - 1 : m \in B PROVE n \in B
  <2> DEFINE i == L + 1 - n
             b == Behind(i)
  <2>1. i \in 1 .. L /\ i \in from .. L /\ n \in 0 .. L + 1 - from
    BY <1>0
  <2>2. b \in i + 1 .. L + 1
    BY <1>0, <2>1, BehindLemma
  <2>3. L + 1 - b \in 0 .. n - 1 /\ L + 1 - (L + 1 - b) = b
    <3> HIDE DEF b
    <3> QED BY <1>0, <2>1, <2>2
  <2>4. f[b] \in Seq(Kinds)
    <3>1. L + 1 - b \in B
      BY <1>3, <2>3
    <3>2. f[L + 1 - (L + 1 - b)] \in Seq(Kinds)
      BY <3>1
    <3> HIDE DEF b, L
    <3> QED BY <2>3, <3>2
  <2>5. f[i] = Handed(f, i)
    BY <1>1, <2>1 DEF Lexing
  <2> HIDE DEF i
  <2>6. f[i] \in Seq(Kinds)
    <3>1. CASE line[i] = Lex!Blank
      BY <2>4, <2>5, <3>1 DEF Handed
    <3>2. CASE line[i] # Lex!Blank
      <4>1. f[i] = <<At(i)>> \o f[b] /\ At(i) \in Kinds
        BY <2>1, <2>5, <3>2, AtKind DEF Handed
      <4> HIDE DEF b
      <4> QED BY <2>4, <4>1, OneBefore
    <3> QED BY <3>1, <3>2
  <2> QED BY <2>1, <2>6 DEF i
<1>4. \A n \in 1 .. L + 1 - from : (\A m \in 0 .. n - 1 : m \in B) => n \in B
  BY <1>3
<1> HIDE DEF B
<1>5. L + 1 - from \in B
  <2>1. L + 1 - from \in Nat
    BY <1>0
  <2>2. \A n \in 0 .. L + 1 - from : n \in B
    BY <1>2, <1>4, <2>1, UpTo
  <2> QED BY <2>1, <2>2
<1>6. L + 1 - (L + 1 - from) = from
  BY <1>0
<1> QED BY <1>1, <1>5, <1>6 DEF B

LEMMA ParsedLexical ==
    ASSUME NEW t \in Kinds
    PROVE  Lexical(Parsed(t))
<1>0. t \in Tok /\ MaxLine \in Nat
  BY FrontEndAssumption DEF Kinds
<1> DEFINE p == Parsed(t)
           text == Text(t.val)
<1>1. t.type # "lua_code" => p.type = t.type /\ p.val = text
  BY DEF Parsed, Token
<1>2. ASSUME Short(t.val) PROVE TextFits(t.val)
  <2> DEFINE v == t.val
             n == Len(v)
  <2>1. v \in Seq(Alphabet) /\ n \in 0 .. MaxLine
    <3>1. v \in Seq(Alphabet) /\ n <= MaxLine
      BY <1>0, <1>2 DEF Tok, Short
    <3> HIDE DEF v
    <3> QED BY <1>0, <3>1
  <2> HIDE DEF v
  <2>2. v \in [1 .. n -> Alphabet]
    BY <2>1
  <2> HIDE DEF n
  <2>3. TextFits(v)
    BY <2>1, <2>2, TextAssumption
  <2> QED BY <2>3 DEF v
<1> HIDE DEF p
<1>3. CASE t.type = "string"
  BY <1>1, <1>3 DEF Lexical, p
<1>4. CASE t.type = "error" /\ Short(t.val) /\ t.val[1] \in Lex!Quotes
  <2> DEFINE v == t.val
  <2>1. TextFits(v)
    BY <1>2, <1>4
  <2> HIDE DEF text
  <2>2. text = Text(v)
    BY DEF text
  <2> HIDE DEF v
  <2>3. v \notin Lex!Pipes /\ v \notin Lex!Redirs /\ v \notin Lex!Descriptors
    <3>1. v[1] \in Lex!Quotes
      BY <1>4 DEF v
    <3>2. \A x \in Lex!Pipes \cup Lex!Redirs \cup Lex!Descriptors : x[1] \in {"|", "<", ">", "&"}
      BY DEF Lex!Pipes, Lex!Redirs, Lex!Descriptors
    <3>3. {"|", "<", ">", "&"} \cap Lex!Quotes = {}
      BY DEF Lex!Quotes
    <3> QED BY <3>1, <3>2, <3>3
  <2>4. v # <<>>
    BY <1>4 DEF Short, v
  <2>5. text \notin pipe_set /\ text \notin redir_set /\ text \notin fd_set /\ text # ""
    BY <2>1, <2>2, <2>3, <2>4 DEF TextFits
  <2>6. p.type = "error" /\ p.val = text
    BY <1>1, <1>4 DEF text
  <2> QED BY <2>5, <2>6 DEF Lexical, p
<1>5. CASE t.type = Lex!WordType(t.val) /\ Short(t.val)
  <2> DEFINE v == t.val
  <2>1. TextFits(v) /\ v # <<>>
    BY <1>2, <1>5 DEF Short
  <2> HIDE DEF text
  <2>2. text = Text(v)
    BY DEF text
  <2> HIDE DEF v
  <2>3. t.type = Lex!WordType(v)
    BY <1>5 DEF v
  <2>4. p.type = t.type /\ p.val = text
    BY <1>1, <2>3 DEF Lex!WordType, text
  <2>5. /\ text \in pipe_set <=> v \in Lex!Pipes
        /\ text \in redir_set <=> v \in Lex!Redirs
        /\ text \in fd_set <=> v \in Lex!Descriptors
        /\ text # ""
    BY <2>1, <2>2 DEF TextFits
  <2>6. /\ ~(text \in pipe_set /\ text \in redir_set)
        /\ ~(text \in pipe_set /\ text \in fd_set)
        /\ ~(text \in redir_set /\ text \in fd_set)
    BY DEF pipe_set, redir_set, fd_set
  <2>7. /\ text \in pipe_set => p.type = "pipe"
        /\ text \in redir_set => p.type = "redir"
        /\ text \in fd_set => p.type = "fd"
        /\ text \notin pipe_set /\ text \notin redir_set /\ text \notin fd_set => p.type = "identifier"
    BY <2>3, <2>4, <2>5, <2>6 DEF Lex!WordType
  <2> QED BY <2>4, <2>5, <2>6, <2>7 DEF Lexical, p
<1> QED BY <1>3, <1>4, <1>5 DEF Kinds

LEMMA ParserTokensLexical ==
    ASSUME LineFits
    PROVE  TokensLexical(ParserTokens(line))
<1> DEFINE ts == Lex!tokenize(line)
           us == ParserTokens(line)
           debugs == Lex!Debugs(line)
           from == IF debugs THEN 2 ELSE 1
           mark == Lex!Token(1, 1, <<"!">>, "debug")
           lua == Lex!IsLua(line, from)
           rest == IF lua THEN Lex!LuaTokens(line, from) ELSE Lex!Lexed(line, from)
           T == {Parsed(t) : t \in Tok}
<1>0. line \in Seq(Alphabet) /\ Len(line) \in Nat
  BY DEF LineFits
<1>1. ts = (IF debugs THEN <<mark>> ELSE <<>>) \o rest
  BY DEF Lex!tokenize
<1>2. Tiled(ts, 1)
  BY <1>0, TokensTiled DEF Lex!tokens
<1>3. ts \in Seq(Tok)
  BY <1>2 DEF Tiled
<1>4. us = [n \in DOMAIN ts |-> Parsed(ts[n])]
  BY DEF ParserTokens
<1>5. debugs => 1 \in 1 .. Len(line) /\ line[1] = "!"
  BY DEF Lex!Debugs
<1>6. from \in 1 .. Len(line) + 1
  BY <1>0, <1>5
<1> HIDE DEF ts, us
<1>7. us \in Seq(T) /\ Len(us) = Len(ts) /\ \A n \in 1 .. Len(ts) : us[n] = Parsed(ts[n])
  <2>1. DOMAIN ts = 1 .. Len(ts) /\ Len(ts) \in Nat
    BY <1>3
  <2>2. \A n \in 1 .. Len(ts) : Parsed(ts[n]) \in T
    BY <1>3
  <2> HIDE DEF T
  <2> QED BY <1>4, <2>1, <2>2
<1> HIDE DEF T, from
<1>8. rest \in Seq(Tok)
  <2>1. CASE lua
    <3>1. from \in 1 .. Len(line)
      BY <1>0, <1>6, <2>1 DEF Lex!IsLua
    <3>2. Tiled(Lex!LuaTokens(line, from), from)
      BY <1>0, <2>1, <3>1, CodeTiled
    <3> QED BY <2>1, <3>2 DEF Tiled
  <2>2. CASE ~lua
    <3>1. Tiled(Lex!Lexed(line, from), from)
      BY <1>0, <1>6, LexedTiled
    <3> QED BY <2>2, <3>1 DEF Tiled
  <2> QED BY <2>1, <2>2
\* The exclamation mark is the parser's, and what follows it comes one place later.
<1>9. ASSUME debugs
      PROVE  /\ Len(ts) = Len(rest) + 1 /\ us[1] = Bang
             /\ \A k \in 1 .. Len(rest) : ts[k + 1] = rest[k]
  <2>1. mark \in Tok
    <3>1. Good(Lex!Token(1, 1, <<line[1]>>, "debug"), 1, 1)
      BY <1>0, <1>5, <1>9, MarkGood
    <3> QED BY <1>5, <1>9, <3>1 DEF Good
  <2>2. Parsed(mark) = Bang
    <3> DEFINE val == <<"!">>
    <3>1. mark.type = "debug" /\ mark.val = val
      BY DEF Lex!Token
    <3> HIDE DEF mark
    <3>2. Parsed(mark) = Token("debug", Text(val))
      BY <3>1 DEF Parsed
    <3>3. Text(val) = Bang.val /\ Bang.val = "!"
      BY TextAssumption DEF Bang, Token
    <3> QED BY <3>2, <3>3 DEF Bang
  <2>3. ts = <<mark>> \o rest
    BY <1>1, <1>9
  <2> HIDE DEF mark, rest
  <2>4. Len(ts) = Len(rest) + 1 /\ ts[1] = mark /\ \A k \in 1 .. Len(rest) : ts[k + 1] = rest[k]
    BY <1>8, <2>1, <2>3, OneBefore
  <2>5. 1 \in 1 .. Len(ts)
    <3>1. Len(rest) \in Nat
      BY <1>8
    <3> QED BY <2>4, <3>1
  <2>6. us[1] = Bang
    BY <1>7, <2>2, <2>4, <2>5
  <2> QED BY <2>4, <2>6
<1>10. ASSUME ~debugs PROVE ts = rest
  <2>1. ts = <<>> \o rest
    BY <1>1, <1>10
  <2> HIDE DEF rest
  <2> QED BY <1>8, <2>1
<1>11. Len(rest) \in Nat
  <2> HIDE DEF rest
  <2> QED BY <1>8
<1>12. CASE lua
  <2> DEFINE w == Lex!Token(from, from, <<"L">>, "str")
             x == Lex!Token(Lex!EndOfBlanks(line, from + 1), Len(line),
                            SubSeq(line, Lex!EndOfBlanks(line, from + 1), Len(line)), "lua_code")
  <2>1. rest = <<w, x>>
    BY <1>12 DEF Lex!LuaTokens
  <2>2. Len(rest) = 2 /\ rest[1] = w
    <3> HIDE DEF w, x, rest
    <3> QED BY <2>1
  <2>3. Parsed(w) = LuaWord
    <3> DEFINE val == <<"L">>
    <3>1. w.type = "str" /\ w.val = val
      BY DEF Lex!Token
    <3> HIDE DEF w
    <3>2. Parsed(w) = Token("str", Text(val))
      BY <3>1 DEF Parsed
    <3>3. Text(val) = LuaWord.val /\ LuaWord.val = "lua"
      BY TextAssumption DEF LuaWord, Token
    <3> QED BY <3>2, <3>3 DEF LuaWord
  <2> HIDE DEF rest, w, x
  <2>4. Command(us) # <<>> /\ Command(us)[1] = LuaWord
    <3>1. CASE debugs
      <4>1. Len(us) = 3 /\ us[1] = Bang /\ us[2] = LuaWord
        <5>1. Len(ts) = 3 /\ ts[1 + 1] = rest[1]
          BY <1>9, <2>2, <3>1
        <5>2. 2 \in 1 .. Len(ts) /\ 1 + 1 = 2
          BY <5>1
        <5> QED BY <1>7, <1>9, <2>2, <2>3, <3>1, <5>1, <5>2
      <4>2. us # <<>>
        BY <4>1
      <4>3. Command(us) = Tail(us)
        BY <4>1, <4>2 DEF Command, Debugs
      <4>4. Len(Tail(us)) = 2 /\ Tail(us)[1] = us[1 + 1]
        BY <1>7, <4>1, <4>2
      <4>5. Tail(us) # <<>> /\ 1 + 1 = 2
        BY <4>4
      <4> QED BY <4>1, <4>3, <4>4, <4>5
    <3>2. CASE ~debugs
      <4>1. Len(us) = 2 /\ us[1] = LuaWord
        <5>1. ts = rest /\ 1 \in 1 .. 2
          BY <1>10, <3>2
        <5> QED BY <1>7, <2>2, <2>3, <5>1
      <4>2. us # <<>>
        BY <4>1
      <4>3. Command(us) = us
        BY <4>1, BangLemma DEF Command, Debugs
      <4> QED BY <4>1, <4>2, <4>3
    <3> QED BY <3>1, <3>2
  <2>5. IsLua(us)
    BY <2>4 DEF IsLua
  <2> QED BY <1>7, <2>5 DEF TokensLexical, us
<1>13. CASE ~lua
  <2>1. rest \in Seq(Kinds)
    BY <1>6, <1>13, LexedKinds
  <2> HIDE DEF rest
  <2>2. ASSUME NEW k \in 1 .. Len(rest) PROVE Lexical(Parsed(rest[k]))
    <3>1. rest[k] \in Kinds
      BY <2>1
    <3> QED BY <3>1, ParsedLexical
  <2>3. ASSUME NEW k \in 1 .. Len(us) PROVE Lexical(us[k]) \/ (k = 1 /\ us[k] = Bang)
    <3>1. CASE debugs /\ k = 1
      BY <1>9, <3>1
    <3>2. CASE debugs /\ k # 1
      <4>1. k - 1 \in 1 .. Len(rest) /\ (k - 1) + 1 = k
        BY <1>7, <1>9, <1>11, <3>2
      <4>2. ts[k] = rest[k - 1]
        BY <1>9, <3>2, <4>1
      <4> QED BY <1>7, <2>2, <4>1, <4>2
    <3>3. CASE ~debugs
      <4>1. ts = rest /\ k \in 1 .. Len(rest)
        BY <1>7, <1>10, <3>3
      <4> QED BY <1>7, <2>2, <4>1
    <3> QED BY <3>1, <3>2, <3>3
  <2> QED BY <1>7, <2>3 DEF TokensLexical, us
<1> QED BY <1>12, <1>13

FELexed == LineFits /\ (tokens = ParserTokens(line) \/ Lexed)

LEMMA FELexedLemma == FELexed => Lexed
  BY ParserTokensLexical DEF FELexed, Lexed

LEMMA FitsStep ==
    ASSUME LineFits, [FENext]_feVars
    PROVE  LineFits'
<1>0. line \in Seq(Alphabet) /\ Len(line) \in Nat /\ Len(line) <= MaxLine /\ MaxLine \in Nat
  BY FrontEndAssumption DEF LineFits
<1>1. line' \in Seq(Alphabet)
  <2>1. Characters
    BY <1>0 DEF Characters
  <2> QED BY <2>1, LineStep DEF Characters
<1>2. ASSUME NEW c \in Alphabet, TypeCharacter(c) PROVE Len(line') <= MaxLine
  <2>1. Len(line) < MaxLine /\ line' = Append(line, c)
    BY <1>2 DEF TypeCharacter, Lex!Type
  <2>2. Len(line') = Len(line) + 1
    BY <1>0, <2>1
  <2> QED BY <1>0, <2>1, <2>2
<1>3. ASSUME EraseCharacter PROVE Len(line') <= MaxLine
  <2>1. line # <<>> /\ line' = SubSeq(line, 1, Len(line) - 1)
    BY <1>3 DEF EraseCharacter, Lex!Erase
  <2>2. Len(line) - 1 \in 1 - 1 .. Len(line) /\ 1 \in 1 .. Len(line) + 1
    BY <1>0, <2>1
  <2>3. Len(line') = (Len(line) - 1) - 1 + 1
    BY <1>0, <2>1, <2>2, PartLemma
  <2> QED BY <1>0, <2>3
<1>4. ASSUME TypeToken \/ UNCHANGED feVars PROVE Len(line') <= MaxLine
  <2>1. line' = line
    BY <1>4, Zenon DEF TypeToken, feVars
  <2> QED BY <1>0, <2>1
<1>5. ASSUME SubmitLine PROVE Len(line') <= MaxLine
  <2>1. line' = line \/ line' = <<>>
    BY <1>5 DEF SubmitLine
  <2> QED BY <1>0, <2>1
<1>6. Len(line') <= MaxLine
  BY <1>2, <1>3, <1>4, <1>5 DEF FENext
<1> QED BY <1>1, <1>6 DEF LineFits

LEMMA FELexedStep ==
    ASSUME FELexed, [FENext]_feVars
    PROVE  FELexed'
<1>1. LineFits'
  BY FitsStep DEF FELexed
<1>2. Lexed
  BY FELexedLemma
<1>3. CASE TypeToken
  <2>1. Lexed'
    BY <1>2, <1>3, TypedLexical DEF TypeToken
  <2> QED BY <1>1, <2>1 DEF FELexed
<1>4. CASE SubmitLine
  <2>1. Lexed'
    BY <1>2, <1>4, SubmittedLexical DEF SubmitLine
  <2> QED BY <1>1, <2>1 DEF FELexed
<1>5. CASE EraseCharacter \/ \E c \in Alphabet : TypeCharacter(c)
  <2>1. tokens' = ParserTokens(line')
    BY <1>5 DEF EraseCharacter, TypeCharacter, Retyped
  <2> QED BY <1>1, <2>1 DEF FELexed
<1>6. CASE UNCHANGED feVars
  <2>1. Lexed'
    BY <1>2, <1>6 DEF feVars, Lexed
  <2> QED BY <1>1, <2>1 DEF FELexed
<1> QED BY <1>3, <1>4, <1>5, <1>6 DEF FENext

\* So it is of a line typed by characters, whatever the lexer makes of it.
THEOREM LinesReadAsTyped == FESpec => []ReadAsTyped
<1>1. FEInit => FELexed
  <2> SUFFICES ASSUME FEInit PROVE FELexed
    OBVIOUS
  <2>1. line = <<>> /\ Lexed
    BY LexedInit DEF FEInit, Lex!Init
  <2>2. <<>> \in Seq(Alphabet) /\ Len(<<>>) = 0
    OBVIOUS
  <2>3. 0 <= MaxLine
    BY FrontEndAssumption
  <2> QED BY <2>1, <2>2, <2>3 DEF FELexed, LineFits
<1>2. FELexed => ReadAsTyped
  BY FELexedLemma, ReadAsTypedLemma DEF Lexed
<1> QED BY <1>1, <1>2, FELexedStep, PTL DEF FESpec
=============================================================================
