------------------------------- MODULE Lexer -------------------------------
(***************************************************************************)
(* tokenize (plugins/api/lua/lang.lua), and format_tokens                  *)
(* (plugins/api/init.lua), which paints the line with its tokens on every  *)
(* key.                                                                    *)
(*                                                                         *)
(* The letter "L" stands for the three letters of the word lua, and a      *)
(* colour is one mark in the text.                                         *)
(***************************************************************************)
EXTENDS Naturals, Sequences, FiniteSets

CONSTANTS
    Alphabet,   \* the characters typed
    MaxLine     \* bound: characters in a line

VARIABLE line

(***************************************************************************)
(* tokenize                                                                *)
(***************************************************************************)
Blank == " "
Quotes == {"'", "\""}

Pipes == {<<"|">>, <<"|", "&">>}
Redirs == {<<"<">>, <<"<", "<">>, <<">">>, <<">", ">">>}
Descriptors == {<<"&", "0">>, <<"&", "1">>, <<"&", "2">>}

Token(first, last, val, type) == [span |-> <<first, last>>, val |-> val, type |-> type]

\* The first place from i on where P holds of the character, or the one after the end.
From(s, i, P(_)) ==
    CHOOSE j \in i .. Len(s) + 1 :
        /\ j <= Len(s) => P(s[j])
        /\ \A k \in i .. j - 1 : ~P(s[k])

EndOfWord(s, i) == LET IsBlank(c) == c = Blank IN From(s, i, IsBlank)
EndOfBlanks(s, i) == LET IsText(c) == c # Blank IN From(s, i, IsText)
Closing(s, i) == LET IsQuote(c) == c = s[i] IN From(s, i + 1, IsQuote)

WordType(val) ==
    CASE val \in Pipes -> "pipe"
      [] val \in Redirs -> "redir"
      [] val \in Descriptors -> "fd"
      [] OTHER -> "identifier"

\* The token of a quote at i: a string up to the same quote, or an error up to the end.
Quoted(s, i) ==
    LET j == Closing(s, i)
    IN  IF j > Len(s) THEN Token(i, Len(s), SubSeq(s, i, Len(s)), "error")
        ELSE Token(i, j, SubSeq(s, i + 1, j - 1), "string")

Word_AtQuote(s, i) ==
    LET Ends(c) == c = Blank \/ c \in Quotes
        j == From(s, i, Ends)
    IN  Token(i, j - 1, SubSeq(s, i, j - 1), WordType(SubSeq(s, i, j - 1)))

\* The token of any other text at i: up to the next blank, quotes and all.
Word(s, i) ==
    LET j == EndOfWord(s, i)
    IN  Token(i, j - 1, SubSeq(s, i, j - 1), WordType(SubSeq(s, i, j - 1)))

Lexed(s, from) ==
    LET lexed[i \in from .. Len(s) + 1] ==
            IF i > Len(s) THEN <<>>
            ELSE IF s[i] = Blank THEN lexed[i + 1]
            ELSE LET t == IF s[i] \in Quotes THEN Quoted(s, i) ELSE Word(s, i)
                 IN  <<t>> \o lexed[t.span[2] + 1]
    IN  lexed[from]

\* `lua` and a blank at the start: the rest of the line is code.
IsLua(s, i) == i < Len(s) /\ s[i] = "L" /\ s[i + 1] = Blank

LuaTokens(s, i) ==
    LET j == EndOfBlanks(s, i + 1)
    IN  <<Token(i, i, <<"L">>, "str"), Token(j, Len(s), SubSeq(s, j, Len(s)), "lua_code")>>

Debugs(s) == s # <<>> /\ s[1] = "!"

tokenize(s) ==
    LET from == IF Debugs(s) THEN 2 ELSE 1
    IN  (IF Debugs(s) THEN <<Token(1, 1, <<"!">>, "debug")>> ELSE <<>>)
            \o IF IsLua(s, from) THEN LuaTokens(s, from) ELSE Lexed(s, from)

(***************************************************************************)
(* format_tokens                                                           *)
(***************************************************************************)
Coloured == {"string", "identifier", "pipe", "redir"}
Marks == Coloured \cup {"reset"}

Paint_OneMark(s, t, offset) ==
    SubSeq(s, 1, t.span[1] + offset - 1) \o <<t.type>>
        \o SubSeq(s, t.span[1] + offset, t.span[2] + offset)
        \o SubSeq(s, t.span[2] + offset + 1, Len(s))

\* A colour before a token and a reset after it, in a text that has grown by offset.
Paint(s, t, offset) ==
    SubSeq(s, 1, t.span[1] + offset - 1) \o <<t.type>>
        \o SubSeq(s, t.span[1] + offset, t.span[2] + offset) \o <<"reset">>
        \o SubSeq(s, t.span[2] + offset + 1, Len(s))

format_tokens(s, ts) ==
    LET painted[n \in 0 .. Len(ts)] ==
            IF n = 0 THEN [text |-> s, offset |-> 0]
            ELSE LET before == painted[n - 1]
                 IN  IF ts[n].type \notin Coloured THEN before
                     ELSE [text |-> Paint(before.text, ts[n], before.offset),
                           offset |-> before.offset + 2]
    IN  painted[Len(ts)].text

(***************************************************************************)
(* A line is typed, and tokenized and painted after every key.             *)
(***************************************************************************)
Init == line = <<>>

Type(c) == Len(line) < MaxLine /\ line' = Append(line, c)

Erase == line # <<>> /\ line' = SubSeq(line, 1, Len(line) - 1)

(***************************************************************************)
(* Properties                                                              *)
(***************************************************************************)
tokens == tokenize(line)

Text(t) == SubSeq(line, t.span[1], t.span[2])
Within(t, i) == t.span[1] <= i /\ i <= t.span[2]

\* What each kind of token may be the text of, and what may follow it.
Fits(t) ==
    LET text == Text(t)
    IN  CASE t.type = "string" ->
               /\ text[1] \in Quotes /\ text = <<text[1]>> \o t.val \o <<text[1]>>
               /\ \A i \in DOMAIN t.val : t.val[i] # text[1]
          [] t.type = "error" ->
               /\ text = t.val /\ text[1] \in Quotes /\ t.span[2] = Len(line)
               /\ \A i \in 2 .. Len(text) : text[i] # text[1]
          [] t.type \in {"debug", "str", "lua_code"} -> text = t.val
          [] OTHER ->
               /\ text = t.val /\ text # <<>> /\ text[1] \notin Quotes
               /\ \A i \in DOMAIN text : text[i] # Blank
               /\ t.span[2] < Len(line) => line[t.span[2] + 1] = Blank

\* The tokens lie one after the other, every character that is not a blank belongs to
\* one, and each is the longest text of its kind: quotes are closed by the same quote,
\* words by a blank alone, and nothing typed is lost before it reaches the parser.
TokensTile ==
    /\ \A n \in DOMAIN tokens : Fits(tokens[n])
    /\ \A n \in 1 .. Len(tokens) - 1 : tokens[n].span[2] < tokens[n + 1].span[1]
    /\ \A i \in DOMAIN line : line[i] = Blank \/ \E n \in DOMAIN tokens : Within(tokens[n], i)

painted == format_tokens(line, tokens)

IsText(c) == c \notin Marks

\* The colour in force at k.
Ink(k) ==
    LET before == {i \in 1 .. k - 1 : painted[i] \in Marks}
    IN  IF before = {} THEN "reset" ELSE painted[CHOOSE i \in before : \A j \in before : j <= i]

\* The character of the line that is at k: the characters up to there, counted.
Place(k) == Cardinality({j \in 1 .. k : IsText(painted[j])})

\* Colours, put in one token after the other into a text that grows, neither lose nor
\* move a character of the line - the cursor is placed by the line's own length - and
\* every character has the colour of its own token.
PaintedAsTyped ==
    /\ Place(Len(painted)) = Len(line)
    /\ \A k \in DOMAIN painted :
         IsText(painted[k]) =>
            LET i == Place(k)
                own == {tokens[n].type : n \in {m \in DOMAIN tokens : Within(tokens[m], i)}}
            IN  /\ painted[k] = line[i]
                /\ Ink(k) = IF own \cap Coloured = {} THEN "reset" ELSE CHOOSE t \in own : TRUE
=============================================================================
