------------------------ MODULE EditorScreen_proofs -------------------------
(***************************************************************************)
(* Theorems about LineEditor, for any bytes, any bound on the line and any *)
(* bound on the history; and about EditorScreen, for any terminal, prompts,*)
(* line and history: drawing does not disturb the editor, and what is drawn*)
(* is the prompt and the line, with the cursor in its place.               *)
(***************************************************************************)
EXTENDS EditorScreen, FiniteSetTheorems, FunctionTheorems, TLAPS

\* The two sequences a key may build.
LEMMA InsertLemma ==
    ASSUME NEW S, NEW s \in Seq(S), NEW i \in 0 .. Len(s), NEW c \in S
    PROVE  /\ SubSeq(s, 1, i) \o <<c>> \o SubSeq(s, i + 1, Len(s)) \in Seq(S)
           /\ Len(SubSeq(s, 1, i) \o <<c>> \o SubSeq(s, i + 1, Len(s))) = Len(s) + 1
<1> DEFINE a == SubSeq(s, 1, i)  b == SubSeq(s, i + 1, Len(s))  m == a \o <<c>>
<1>1. a \in Seq(S) /\ Len(a) = i
  OBVIOUS
<1>2. b \in Seq(S) /\ Len(b) = Len(s) - i
  OBVIOUS
<1>3. m \in Seq(S) /\ Len(m) = i + 1
  <2>1. <<c>> \in Seq(S) /\ Len(<<c>>) = 1
    OBVIOUS
  <2> QED BY <1>1, <2>1
<1>4. m \o b \in Seq(S) /\ Len(m \o b) = Len(m) + Len(b)
  BY <1>2, <1>3
<1> HIDE DEF b, m
<1>5. Len(m \o b) = Len(s) + 1
  BY <1>2, <1>3, <1>4
<1> QED BY <1>4, <1>5 DEF a, b, m

\* Removing one byte of a sequence, as backspace does.
LEMMA RemoveLemma ==
    ASSUME NEW S, NEW s \in Seq(S), NEW i \in 1 .. Len(s)
    PROVE  /\ SubSeq(s, 1, i - 1) \o SubSeq(s, i + 1, Len(s)) \in Seq(S)
           /\ Len(SubSeq(s, 1, i - 1) \o SubSeq(s, i + 1, Len(s))) = Len(s) - 1
<1> DEFINE a == SubSeq(s, 1, i - 1)  b == SubSeq(s, i + 1, Len(s))
<1>1. a \in Seq(S) /\ Len(a) = i - 1
  OBVIOUS
<1>2. b \in Seq(S) /\ Len(b) = Len(s) - i
  OBVIOUS
<1>3. a \o b \in Seq(S) /\ Len(a \o b) = Len(a) + Len(b)
  BY <1>1, <1>2
<1> HIDE DEF a, b
<1>4. Len(a \o b) = Len(s) - 1
  BY <1>1, <1>2, <1>3
<1> QED BY <1>3, <1>4 DEF a, b

\* The line pushed becomes the first of the history, and the others follow.
LEMMA PushLemma ==
    ASSUME NEW S, NEW s \in Seq(S), NEW x \in S
    PROVE  /\ <<x>> \o s \in Seq(S) /\ Len(<<x>> \o s) = Len(s) + 1
           /\ (<<x>> \o s)[1] = x
           /\ \A i \in 1 .. Len(s) : (<<x>> \o s)[i + 1] = s[i]
<1>1. <<x>> \in Seq(S) /\ Len(<<x>>) = 1 /\ <<x>>[1] = x
  OBVIOUS
<1> QED BY <1>1

\* Every property of the module is part of one inductive invariant: a key that shows
\* a line of the history needs the index in range, and the history non-empty lines.
IInv == TypeOK /\ InRange /\ ShownAgrees /\ NoRepeats

\* The editor starts empty.
LEMMA InitIInv == Init => IInv
  BY DEF Init, IInv, TypeOK, InRange, ShownAgrees, NoRepeats, Line

\* What a key that edits the line has to establish.
LEMMA EditLemma ==
    ASSUME IInv, data' \in Line, index' \in 0 .. Len(data'), Edited
    PROVE  IInv'
  BY DEF IInv, TypeOK, InRange, ShownAgrees, NoRepeats, Edited

\* What a key that shows a line has to establish.
LEMMA ShowLemma ==
    ASSUME IInv, NEW line \in Line, Show(line), current' \in Line, UNCHANGED history,
           hindex' \in 0 .. Len(history),
           line = IF hindex' = 0 THEN current' ELSE history[hindex']
    PROVE  IInv'
  BY DEF IInv, TypeOK, InRange, ShownAgrees, NoRepeats, Show, Line

\* A letter makes the line one byte longer.
LEMMA LetterLemma ==
    ASSUME IInv, NEW c \in Letters, Letter(c)
    PROVE  data' \in Line /\ Len(data') = Len(data) + 1
<1>1. data \in Seq(Letters) /\ index \in 0 .. Len(data)
  BY DEF IInv, TypeOK, InRange, Line
<1>2. data' = SubSeq(data, 1, index) \o <<c>> \o SubSeq(data, index + 1, Len(data))
  BY DEF Letter, Before, After
<1> QED BY <1>1, <1>2, InsertLemma DEF Line

\* backspace makes it one byte shorter.
LEMMA BackspaceLemma ==
    ASSUME IInv, Backspace
    PROVE  index \in 1 .. Len(data) /\ data' \in Line /\ Len(data') = Len(data) - 1
<1>1. data \in Seq(Letters) /\ index \in 1 .. Len(data)
  BY DEF IInv, TypeOK, InRange, Line, Backspace
<1>2. data' = SubSeq(data, 1, index - 1) \o SubSeq(data, index + 1, Len(data))
  BY DEF Backspace, Before, After
<1> QED BY <1>1, <1>2, RemoveLemma DEF Line

\* Running a line keeps the history free of empty and repeated lines.
LEMMA PushedLemma ==
    ASSUME IInv, data # <<>>
    PROVE  /\ Pushed \in Seq(Line)
           /\ \A i \in DOMAIN Pushed : Pushed[i] # <<>>
           /\ \A i \in 1 .. Len(Pushed) - 1 : Pushed[i] # Pushed[i + 1]
<1> USE DEF IInv, TypeOK, NoRepeats
<1>1. CASE history # <<>> /\ history[1] = data
  BY <1>1 DEF Pushed
<1>2. CASE ~(history # <<>> /\ history[1] = data)
  <2> DEFINE p == <<data>> \o history
  <2>1. Pushed = p
    BY <1>2 DEF Pushed
  <2>2. /\ p \in Seq(Line) /\ Len(p) = Len(history) + 1
        /\ p[1] = data
        /\ \A i \in 1 .. Len(history) : p[i + 1] = history[i]
    BY PushLemma
  <2> HIDE DEF p
  <2>3. ASSUME NEW i \in DOMAIN p
        PROVE  p[i] # <<>>
    <3>1. CASE i = 1
      BY <2>2, <3>1
    <3>2. CASE i # 1
      <4>1. i - 1 \in 1 .. Len(history) /\ i = (i - 1) + 1
        BY <2>2, <3>2
      <4> QED BY <2>2, <4>1
    <3> QED BY <3>1, <3>2
  <2>4. ASSUME NEW i \in 1 .. Len(p) - 1
        PROVE  p[i] # p[i + 1]
    <3>1. CASE i = 1
      <4>1. 1 \in 1 .. Len(history) /\ history # <<>>
        BY <2>2, <3>1
      <4> QED BY <1>2, <2>2, <3>1, <4>1
    <3>2. CASE i # 1
      <4>1. i - 1 \in 1 .. Len(history) - 1 /\ i = (i - 1) + 1 /\ i \in 1 .. Len(history)
        BY <2>2, <3>2
      <4>2. i - 1 \in 1 .. Len(history)
        BY <4>1
      <4>3. p[(i - 1) + 1] = history[i - 1]
        BY <2>2, <4>2
      <4>4. p[i] = history[i - 1] /\ p[i + 1] = history[i]
        BY <2>2, <4>1, <4>3
      <4>5. history[i - 1] # history[(i - 1) + 1]
        BY <4>1
      <4> QED BY <4>1, <4>4, <4>5
    <3> QED BY <3>1, <3>2
  <2> QED BY <2>1, <2>2, <2>3, <2>4
<1> QED BY <1>1, <1>2

\* Every key keeps the invariant.
LEMMA NextIInv == IInv /\ [Next]_vars => IInv'
<1> SUFFICES ASSUME IInv, [Next]_vars PROVE IInv'
  OBVIOUS
<1>0. /\ data \in Seq(Letters) /\ index \in 0 .. Len(data)
      /\ current \in Line /\ hindex \in 0 .. Len(history) /\ history \in Seq(Line)
  BY DEF IInv, TypeOK, InRange, Line
<1>1. ASSUME NEW c \in Letters, Letter(c) PROVE IInv'
  <2>1. data' \in Line /\ Len(data') = Len(data) + 1
    BY <1>1, LetterLemma
  <2> QED BY <1>0, <1>1, <2>1, EditLemma DEF Letter
<1>2. CASE Left
  BY <1>2 DEF Left, IInv, TypeOK, InRange, ShownAgrees, NoRepeats
<1>3. CASE Right
  BY <1>3 DEF Right, IInv, TypeOK, InRange, ShownAgrees, NoRepeats
<1>4. CASE Backspace
  <2>1. index \in 1 .. Len(data) /\ data' \in Line /\ Len(data') = Len(data) - 1
    BY <1>4, BackspaceLemma
  <2> QED BY <1>0, <1>4, <2>1, EditLemma DEF Backspace
<1>5. CASE Up
  <2>1. CASE history = <<>>
    BY <1>5, <2>1 DEF Up, Saved, IInv, TypeOK, InRange, ShownAgrees, NoRepeats
  <2>2. CASE history # <<>>
    <3>1. hindex' \in 1 .. Len(history)
      BY <1>0, <1>5, <2>2 DEF Up
    <3>2. history[hindex'] \in Line /\ current' \in Line
      BY <1>0, <1>5, <3>1 DEF Up, Saved, Line
    <3> QED BY <1>5, <2>2, <3>1, <3>2, ShowLemma DEF Up
  <2> QED BY <2>1, <2>2
<1>6. CASE Down
  <2>1. hindex' \in 0 .. Len(history)
    BY <1>0, <1>6 DEF Down
  <2>2. (IF hindex' = 0 THEN current ELSE history[hindex']) \in Line
    BY <1>0, <2>1
  <2> QED BY <1>0, <1>6, <2>1, <2>2, ShowLemma DEF Down
<1>7. CASE Enter
  <2>1. /\ data # <<>> /\ history' = Pushed
        /\ data' = <<>> /\ index' = 0 /\ hindex' = 0 /\ current' = <<>>
    BY <1>7 DEF Enter
  <2> QED BY <2>1, PushedLemma DEF IInv, TypeOK, InRange, ShownAgrees, NoRepeats, Line
<1>8. CASE Reload
  BY <1>8 DEF Reload, IInv, TypeOK, InRange, ShownAgrees, NoRepeats, Line
<1>9. CASE UNCHANGED vars
  BY <1>9 DEF vars, IInv, TypeOK, InRange, ShownAgrees, NoRepeats
<1> QED BY <1>1, <1>2, <1>3, <1>4, <1>5, <1>6, <1>7, <1>8, <1>9 DEF Next

\* The invariant holds in every state of the editor.
LEMMA SpecIInv == Spec => []IInv
  BY InitIInv, NextIInv, PTL DEF Spec

\* The state is made of lines and natural numbers.
THEOREM TypeCorrect == Spec => []TypeOK
  BY SpecIInv, PTL DEF IInv

\* No sequence of keys puts the cursor outside the line, or the place in the history
\* outside the history.
THEOREM AlwaysInRange == Spec => []InRange
  BY SpecIInv, PTL DEF IInv

\* The line shown is always the one the history's index and saved line say.
THEOREM AlwaysAgrees == Spec => []ShownAgrees
  BY SpecIInv, PTL DEF IInv

\* The history never holds an empty line, nor a line next to itself.
THEOREM NeverRepeats == Spec => []NoRepeats
  BY SpecIInv, PTL DEF IInv

\* The empty editor shows the empty draft.
LEMMA RefineInit == Init => Abstract!Init
  BY DEF Init, Abstract!Init

\* Every key is a step of LineHistory, or none that it sees.
LEMMA RefineNext == IInv /\ [Next]_vars => [Abstract!Next]_(Abstract!vars)
<1> SUFFICES ASSUME IInv, [Next]_vars
             PROVE  Abstract!Next \/ UNCHANGED Abstract!vars
  OBVIOUS
<1>0. /\ data = Abstract!Shown
      /\ data \in Seq(Letters) /\ index \in 0 .. Len(data)
      /\ hindex \in 0 .. Len(history) /\ history \in Seq(Line) /\ current \in Line
  BY DEF IInv, ShownAgrees, TypeOK, InRange, Line, Abstract!Shown
<1>1. ASSUME NEW c \in Letters, Letter(c) PROVE Abstract!Edit
  <2>1. data' \in Line /\ Len(data') = Len(data) + 1
    BY <1>1, LetterLemma
  <2> QED BY <1>0, <1>1, <2>1 DEF Letter, Edited, Line, Abstract!Edit, Abstract!Line
<1>2. CASE Left
  BY <1>2 DEF Left, Abstract!vars
<1>3. CASE Right
  BY <1>3 DEF Right, Abstract!vars
<1>4. CASE Backspace
  <2>1. index \in 1 .. Len(data) /\ data' \in Line /\ Len(data') = Len(data) - 1
    BY <1>4, BackspaceLemma
  <2> QED BY <1>0, <1>4, <2>1
           DEF Backspace, Edited, Line, Abstract!Next, Abstract!Edit, Abstract!Line
<1>5. CASE Up
  <2>1. current' = current /\ history' = history
    BY <1>0, <1>5 DEF Up, Saved, Abstract!Shown
  <2>2. CASE history # <<>> /\ hindex < Len(history)
    BY <1>5, <2>1, <2>2 DEF Up, Abstract!Next, Abstract!Older
  <2>3. CASE history = <<>> \/ ~(hindex < Len(history))
    <3>1. hindex' = hindex
      BY <1>5, <2>3 DEF Up
    <3> QED BY <2>1, <3>1 DEF Abstract!vars
  <2> QED BY <2>2, <2>3
<1>6. CASE Down
  BY <1>6 DEF Down, Abstract!Next, Abstract!Newer
<1>7. CASE Enter
  BY <1>0, <1>7 DEF Enter, Pushed, Abstract!Next, Abstract!Submit
<1>8. CASE Reload
  BY <1>8 DEF Reload, Abstract!Next, Abstract!Forget
<1>9. CASE UNCHANGED vars
  BY <1>9 DEF vars, Abstract!vars
<1> QED BY <1>1, <1>2, <1>3, <1>4, <1>5, <1>6, <1>7, <1>8, <1>9 DEF Next, Abstract!Next

\* The editor of config/init.lua implements LineHistory: looking through the history
\* loses neither the draft nor a line of it.
THEOREM Implements == Spec => KeepsHistory
  BY SpecIInv, RefineInit, RefineNext, PTL DEF Spec, KeepsHistory, Abstract!Spec

-----------------------------------------------------------------------------
(***************************************************************************)
(* The editor                                                              *)
(***************************************************************************)
LEMMA EditorInit == ESInit => Init
  BY DEF ESInit

\* Every step is one of the editor, or leaves it alone.
LEMMA EditorStep == [ESNext]_esVars => [Next]_vars
<1> SUFFICES ASSUME [ESNext]_esVars PROVE [Next]_vars
  OBVIOUS
<1>1. CASE Key
  BY <1>1 DEF Key, Next
<1>2. CASE UpUnseen
  BY <1>2 DEF UpUnseen, Next
<1>3. CASE Submit_Line \/ Submit_Fails \/ Submit_Empty
  BY <1>3 DEF Submit_Line, Submit_Fails, Submit_Empty, Next
<1>4. CASE \E c \in Widths : Resize(c)
  BY <1>4 DEF Resize
<1>5. CASE Reload_Drawn
  BY <1>5 DEF Reload_Drawn, Next
<1>6. CASE UNCHANGED esVars
  BY <1>6 DEF esVars
<1> QED BY <1>1, <1>2, <1>3, <1>4, <1>5, <1>6 DEF ESNext

\* With the screen, the editor is still LineEditor.
THEOREM ScreenImplementsEditor == ESSpec => Spec
  BY EditorInit, EditorStep, PTL DEF ESSpec, Spec

\* So it keeps what it promises of the line and the history, and the line shown is the
\* one that the place in the history and the saved line say.
THEOREM ScreenKeepsHistory == ESSpec => KeepsHistory
  BY ScreenImplementsEditor, Implements

THEOREM ScreenAgrees == ESSpec => []ShownAgrees
  BY ScreenImplementsEditor, AlwaysAgrees

LEMMA ScreenIInv == ESSpec => []IInv
  BY ScreenImplementsEditor, SpecIInv

(***************************************************************************)
(* The terminal                                                            *)
(***************************************************************************)
\* What every step of the terminal keeps; its rows may hold anything.
IsTerm(t) == DOMAIN t = {"rows", "row", "col", "due"} /\ t.row \in 1 .. Height

LEMMA UpTerm ==
    ASSUME NEW t, IsTerm(t), NEW n \in Nat
    PROVE  /\ IsTerm(CursorUp(t, n)) /\ CursorUp(t, n).rows = t.rows
           /\ CursorUp(t, n).row = IF t.row > n THEN t.row - n ELSE 1
  BY RenderAssumption DEF IsTerm, CursorUp

LEMMA NewLineTerm ==
    ASSUME NEW t, IsTerm(t)
    PROVE  IsTerm(NewLine(t))
<1> DEFINE s == IF t.row = Height THEN Scroll(t, 1) ELSE t
<1>1. DOMAIN s = {"rows", "row", "col", "due"} /\ s.row \in 0 .. Height - 1
  BY RenderAssumption DEF IsTerm, Scroll
<1>2. NewLine(t) = [s EXCEPT !.row = s.row + 1, !.col = 0]
  BY DEF NewLine
<1> HIDE DEF s
<1> QED BY <1>1, <1>2, RenderAssumption DEF IsTerm

LEMMA ClearTerm ==
    ASSUME NEW t, IsTerm(t), NEW n \in Nat \ {0}
    PROVE  IsTerm(Clear(t, n))
  BY RenderAssumption DEF IsTerm, Clear, Smaller

LEMMA PrintTerm ==
    ASSUME NEW t, IsTerm(t), NEW row \in BOOLEAN, NEW more \in BOOLEAN
    PROVE  IsTerm(Prints(t, row, more))
<1>1. ASSUME NEW s, IsTerm(s), NEW d
      PROVE  IsTerm(Begun(s)) /\ IsTerm([Begun(s) EXCEPT !.due = d])
  BY <1>1 DEF IsTerm, Begun
<1> DEFINE p == IF row THEN NewLine([Begun(t) EXCEPT !.due = t.due + 1]) ELSE t
<1>2. IsTerm(p)
  BY <1>1, NewLineTerm
<1>3. Prints(t, row, more) = IF more THEN Begun(p) ELSE p
  BY DEF Prints
<1> HIDE DEF p
<1> QED BY <1>1, <1>2, <1>3

LEMMA EnteredTerm == ASSUME NEW t, IsTerm(t) PROVE IsTerm(Entered(t))
  BY DEF IsTerm, Entered

\* The place of the k-th of n lines written from `first` on, `over` of which scroll.
LEMMA PlaceLemma ==
    ASSUME NEW first \in Nat, NEW n \in Nat \ {0}, NEW over \in Nat, NEW k \in 1 .. n,
           NEW last \in Nat, last = first + n - 1,
           NEW h \in Nat, first - over \in 1 .. h, last - over \in 1 .. h
    PROVE  /\ last - over - n + k = first - over + k - 1
           /\ first - over + k - 1 \in 1 .. h
           /\ first - over + k - 1 + over \in first .. last
  OBVIOUS

\* Lines that fit are all there once they are written, and the cursor is on the last.
LEMMA WriteTerm ==
    ASSUME NEW t, IsTerm(t), NEW lines, Len(lines) \in Nat \ {0}
    PROVE  /\ IsTerm(Write(t, lines))
           /\ Len(lines) <= Height =>
                /\ Write(t, lines).row - Len(lines) + 1 \in 1 .. Height
                /\ \A k \in 1 .. Len(lines) :
                       Write(t, lines).rows[Write(t, lines).row - Len(lines) + k] = lines[k]
<1> DEFINE last == t.row + Len(lines) - 1
           over == IF last > Height THEN last - Height ELSE 0
           seen == Scroll(t, Smaller(over, Height))
           rows == [r \in 1 .. Height |->
                      IF r + over \in t.row .. last THEN lines[r + over - t.row + 1]
                      ELSE seen.rows[r]]
<1>1. DOMAIN seen = {"rows", "row", "col", "due"}
  BY DEF IsTerm, Scroll
<1>2. Write(t, lines) = [seen EXCEPT !.rows = rows, !.row = last - over]
  BY DEF Write
<1>3. /\ t.row \in Nat /\ last \in Nat /\ over \in Nat /\ Height \in Nat
      /\ last - over \in 1 .. Height /\ last = t.row + Len(lines) - 1
      /\ over = 0 \/ last - over = Height
  BY RenderAssumption DEF IsTerm
<1> HIDE DEF seen
<1>4. /\ DOMAIN Write(t, lines) = {"rows", "row", "col", "due"}
      /\ Write(t, lines).row = last - over /\ Write(t, lines).rows = rows
  <2> HIDE DEF rows, over, last
  <2> QED BY <1>1, <1>2
<1>5. ASSUME Len(lines) <= Height
      PROVE  /\ last - over - Len(lines) + 1 \in 1 .. Height
             /\ \A k \in 1 .. Len(lines) : rows[last - over - Len(lines) + k] = lines[k]
  <2> HIDE DEF last, over, rows
  <2>1. t.row - over \in 1 .. Height
    BY <1>3, <1>5, RenderAssumption DEF IsTerm
  <2>2. last - over - Len(lines) + 1 = t.row - over
    BY <1>3
  <2>3. ASSUME NEW k \in 1 .. Len(lines)
        PROVE  rows[last - over - Len(lines) + k] = lines[k]
    <3> DEFINE n == Len(lines)
    <3>n. n \in Nat \ {0} /\ k \in 1 .. n /\ last = t.row + n - 1
      BY <1>3
    <3> HIDE DEF n
    <3>1. /\ last - over - n + k = t.row - over + k - 1
          /\ t.row - over + k - 1 \in 1 .. Height
          /\ t.row - over + k - 1 + over \in t.row .. last
      BY <1>3, <2>1, <3>n, PlaceLemma
    <3>3. rows[t.row - over + k - 1] = lines[t.row - over + k - 1 + over - t.row + 1]
      BY <3>1 DEF rows
    <3>4. t.row - over + k - 1 + over - t.row + 1 = k
      BY <1>3
    <3> QED BY <3>1, <3>3, <3>4 DEF n
  <2> QED BY <2>1, <2>2, <2>3
<1> QED BY <1>3, <1>4, <1>5 DEF IsTerm

(***************************************************************************)
(* render_input                                                            *)
(***************************************************************************)
\* The row of a place in a text is not below the row of its end.
LEMMA DivLemma ==
    ASSUME NEW a \in Nat, NEW b \in Nat, NEW c \in Nat \ {0}, a <= b
    PROVE  a \div c \in Nat /\ b \div c \in Nat /\ a \div c <= b \div c
  OBVIOUS

LEMMA WrapLemma ==
    ASSUME NEW text, Len(text) \in Nat, NEW c \in Nat \ {0}
    PROVE  /\ Len(wrap_ansi(text, c)) = Len(text) \div c + 1
           /\ DOMAIN wrap_ansi(text, c) = 1 .. Len(text) \div c + 1
<1>1. Len(text) \div c + 1 \in Nat
  OBVIOUS
<1> QED BY <1>1 DEF wrap_ansi

\* A text that fits is on the screen once it is drawn, whatever was there.
DrawnWell(t, text, cursor, c) ==
    LET at == t.row - screen_row(cursor, c)
    IN  Len(wrap_ansi(text, c)) <= Height =>
          /\ at >= 1 /\ t.col = screen_col(cursor, c)
          /\ \A k \in DOMAIN wrap_ansi(text, c) : t.rows[at + k - 1] = wrap_ansi(text, c)[k]

LEMMA DrawnLemma ==
    ASSUME NEW t, IsTerm(t), NEW text, Len(text) \in Nat, NEW cursor \in 0 .. Len(text),
           NEW c \in Nat \ {0}, NEW width \in Nat, NEW at \in Nat
    PROVE  /\ IsTerm(Drawn(t, text, cursor, c, width, at))
           /\ DrawnWell(Drawn(t, text, cursor, c, width, at), text, cursor, c)
<1> DEFINE rows == Larger(screen_rows(width, c), screen_rows(Len(text), c))
           up == CursorUp(t, screen_row(at, c))
           cleared == Clear(up, rows)
           start == CursorUp(cleared, rows - 1)
           lines == wrap_ansi(text, c)
           written == Write(start, lines)
           back == screen_row(Len(text), c) - screen_row(cursor, c)
           moved == CursorUp(written, back)
           drawn == [moved EXCEPT !.col = screen_col(cursor, c)]
<1>1. /\ screen_row(at, c) \in Nat /\ rows \in Nat \ {0} /\ rows - 1 \in Nat
      /\ screen_row(cursor, c) \in Nat /\ screen_row(Len(text), c) \in Nat
      /\ back \in Nat
  <2>1. /\ at \div c \in Nat /\ width \div c \in Nat /\ Len(text) \div c \in Nat
        /\ cursor \div c \in Nat /\ cursor \div c <= Len(text) \div c
    BY DivLemma
  <2> QED BY <2>1 DEF screen_row, screen_rows, Larger
<1>2. Len(lines) = screen_row(Len(text), c) + 1 /\ DOMAIN lines = 1 .. Len(lines)
  BY WrapLemma DEF screen_row
<1>3. Drawn(t, text, cursor, c, width, at) = drawn
  BY DEF Drawn
<1> HIDE DEF rows, lines, back
<1>4. IsTerm(up)
  BY <1>1, UpTerm
<1>5. IsTerm(cleared)
  BY <1>1, <1>4, ClearTerm
<1>6. IsTerm(start)
  BY <1>1, <1>5, UpTerm
<1> HIDE DEF up, cleared, start
<1>7. Len(lines) \in Nat \ {0}
  BY <1>1, <1>2
<1>8. /\ IsTerm(written)
      /\ Len(lines) <= Height =>
           /\ written.row - Len(lines) + 1 \in 1 .. Height
           /\ \A k \in 1 .. Len(lines) :
                  written.rows[written.row - Len(lines) + k] = lines[k]
  BY <1>6, <1>7, WriteTerm
<1> HIDE DEF written
<1>9. /\ IsTerm(moved) /\ moved.rows = written.rows
      /\ moved.row = IF written.row > back THEN written.row - back ELSE 1
  BY <1>1, <1>8, UpTerm
<1> HIDE DEF moved
<1>10. /\ IsTerm(drawn) /\ drawn.rows = moved.rows /\ drawn.row = moved.row
       /\ drawn.col = screen_col(cursor, c)
  BY <1>9 DEF IsTerm
<1> HIDE DEF drawn
<1>11. ASSUME Len(lines) <= Height
       PROVE  drawn.row - screen_row(cursor, c) = written.row - Len(lines) + 1
  <2>1. written.row \in Nat /\ written.row >= Len(lines)
    BY <1>7, <1>8, <1>11, RenderAssumption DEF IsTerm
  <2>2. back = Len(lines) - 1 - screen_row(cursor, c)
    BY <1>1, <1>2 DEF back
  <2>3. written.row > back
    BY <1>1, <1>7, <2>1, <2>2
  <2> QED BY <1>1, <1>7, <1>9, <1>10, <2>1, <2>2, <2>3
<1>12. ASSUME Len(lines) <= Height
       PROVE  /\ drawn.row - screen_row(cursor, c) >= 1
              /\ \A k \in DOMAIN lines :
                    drawn.rows[drawn.row - screen_row(cursor, c) + k - 1] = lines[k]
  <2>1. written.row \in Nat
    BY <1>8, RenderAssumption DEF IsTerm
  <2>2. ASSUME NEW k \in DOMAIN lines
        PROVE  drawn.rows[drawn.row - screen_row(cursor, c) + k - 1] = lines[k]
    <3>1. k \in 1 .. Len(lines) /\ k \in Nat
      BY <1>2, <1>7
    <3>2. drawn.row - screen_row(cursor, c) + k - 1 = written.row - Len(lines) + k
      BY <1>7, <1>11, <1>12, <2>1, <3>1
    <3> QED BY <1>8, <1>9, <1>10, <1>12, <3>1, <3>2
  <2> QED BY <1>8, <1>11, <1>12, <2>1, <2>2
<1> QED BY <1>3, <1>10, <1>12 DEF DrawnWell, lines

(***************************************************************************)
(* What is displayed                                                       *)
(***************************************************************************)
\* The terminal, its columns and the prompt are what they may be, and the line is drawn.
DInv ==
    /\ IsTerm(term) /\ cols \in Widths /\ prompt \in Prompts
    /\ last_render_width \in Nat /\ last_render_cursor_width \in Nat
    /\ DrawnWell(term, prompt \o data, Len(prompt) + index, cols)

LEMMA TextLemma ==
    ASSUME NEW S, NEW p \in Seq(STRING), NEW line \in Seq(S), NEW i \in 0 .. Len(line)
    PROVE  /\ Len(p \o line) = Len(p) + Len(line) /\ Len(p) \in Nat
           /\ Len(p \o line) \in Nat /\ Len(p) + i \in 0 .. Len(p \o line)
<1>1. p \in Seq(STRING \cup S) /\ line \in Seq(STRING \cup S)
  OBVIOUS
<1>2. Len(p \o line) = Len(p) + Len(line)
  BY <1>1
<1> QED BY <1>2

\* A step that ends by drawing.
LEMMA RenderStep ==
    ASSUME IInv', NEW t, IsTerm(t), NEW width \in Nat, NEW at \in Nat,
           cols' \in Widths, prompt' \in Prompts,
           render_input(t, data', index', width, at)
    PROVE  DInv'
<1>1. prompt' \in Seq(STRING) /\ cols' \in Nat \ {0}
  BY RenderAssumption
<1>2. data' \in Seq(Letters) /\ index' \in 0 .. Len(data')
  BY DEF IInv, TypeOK, InRange, Line
<1>3. /\ Len(prompt') \in Nat /\ Len(prompt' \o data') \in Nat
      /\ Len(prompt') + index' \in 0 .. Len(prompt' \o data')
  BY <1>1, <1>2, TextLemma
<1>4. term' = Drawn(t, prompt' \o data', Len(prompt') + index', cols', width, at)
  BY DEF render_input
<1>5. /\ IsTerm(term')
      /\ DrawnWell(term', prompt' \o data', Len(prompt') + index', cols')
  BY <1>1, <1>3, <1>4, DrawnLemma
<1>6. last_render_width' \in Nat /\ last_render_cursor_width' \in Nat
  BY <1>2, <1>3 DEF render_input
<1> QED BY <1>5, <1>6 DEF DInv, IsTerm, DrawnWell

LEMMA DrawnInit == ESInit /\ IInv => DInv
<1> SUFFICES ASSUME ESInit, IInv PROVE DInv
  OBVIOUS
<1>1. /\ cols \in Nat \ {0} /\ prompt \in Seq(STRING) /\ Len(prompt) \in Nat
      /\ cols \in Widths /\ prompt \in Prompts /\ Height \in Nat \ {0}
  BY RenderAssumption DEF ESInit, RenderInit
<1>2. PICK r \in 1 .. Height :
         term = Drawn([rows |-> [s \in 1 .. Height |-> IF s < r THEN <<Output>> ELSE <<>>],
                       row |-> r, col |-> 0, due |-> r - 1],
                      prompt, Len(prompt), cols, 0, 0)
  BY DEF ESInit, RenderInit
<1> DEFINE first == [rows |-> [s \in 1 .. Height |-> IF s < r THEN <<Output>> ELSE <<>>],
                     row |-> r, col |-> 0, due |-> r - 1]
<1>3. IsTerm(first)
  BY DEF IsTerm
<1>4. term = Drawn(first, prompt, Len(prompt), cols, 0, 0)
  BY <1>2
<1> HIDE DEF first
<1>5. IsTerm(term) /\ DrawnWell(term, prompt, Len(prompt), cols)
  BY <1>1, <1>3, <1>4, DrawnLemma
<1>6. data = <<>> /\ index = 0
  BY DEF ESInit, Init
<1>7. prompt \o data = prompt /\ Len(prompt) + index = Len(prompt)
  BY <1>1, <1>6
<1>8. last_render_width = Len(prompt) /\ last_render_cursor_width = Len(prompt)
  BY DEF ESInit, RenderInit
<1> QED BY <1>1, <1>5, <1>7, <1>8 DEF DInv

LEMMA NowTerm == ASSUME DInv PROVE IsTerm(Now)
  BY DEF DInv, IsTerm, Now

\* A line that is entered is drawn, and what it leaves is drawn again.
LEMMA SubmitStep ==
    ASSUME IInv, IInv', DInv, prompt' \in Prompts,
           NEW row \in BOOLEAN, NEW more \in BOOLEAN, Submitted(row, more)
    PROVE  DInv'
<1> DEFINE width == Len(prompt) + Len(data)
           at == Len(prompt) + index
           drawn == Drawn(Now, prompt \o data, at, cols, last_render_width,
                          last_render_cursor_width)
           done == Prints(NewLine(Entered(drawn)), row, more)
<1>1. cols' = cols /\ render_input(done, data', index', width, at)
  BY DEF Submitted
<1>2. /\ prompt \in Seq(STRING) /\ cols \in Nat \ {0} /\ data \in Seq(Letters)
      /\ index \in 0 .. Len(data)
  BY RenderAssumption DEF DInv, IInv, TypeOK, InRange, Line
<1>3. /\ width \in Nat /\ at \in Nat /\ Len(prompt \o data) \in Nat
      /\ at \in 0 .. Len(prompt \o data)
  BY <1>2, TextLemma
<1>4. IsTerm(drawn)
  BY <1>2, <1>3, NowTerm, DrawnLemma DEF DInv
<1> HIDE DEF width, at, drawn
<1>5. IsTerm(done)
  BY <1>4, EnteredTerm, NewLineTerm, PrintTerm
<1> HIDE DEF done
<1> QED BY <1>1, <1>3, <1>5, RenderStep DEF DInv

LEMMA DrawnStep ==
    ASSUME IInv, IInv', DInv, [ESNext]_esVars
    PROVE  DInv'
<1>1. CASE Key
  <2>1. prompt' = prompt /\ cols' = cols
        /\ render_input(Now, data', index', last_render_width, last_render_cursor_width)
    BY <1>1 DEF Key, Redrawn
  <2> QED BY <2>1, NowTerm, RenderStep DEF DInv
<1>2. CASE UpUnseen
  BY <1>2 DEF UpUnseen, Up, renderVars, DInv, IsTerm, DrawnWell
<1>3. CASE Submit_Line
  BY <1>3, SubmitStep DEF Submit_Line
<1>4. CASE Submit_Fails
  BY <1>4, SubmitStep DEF Submit_Fails
<1>5. CASE Submit_Empty
  BY <1>5, SubmitStep DEF Submit_Empty, DInv
<1>6. ASSUME NEW c \in Widths, Resize(c)
      PROVE  DInv'
  <2>1. IsTerm(Cut(Now, c))
    BY NowTerm DEF IsTerm, Cut
  <2>2. prompt' = prompt /\ cols' = c
        /\ render_input(Cut(Now, c), data', index', last_render_width,
                        last_render_cursor_width)
    BY <1>6 DEF Resize, Redrawn
  <2> QED BY <2>1, <2>2, RenderStep DEF DInv
<1>7. CASE Reload_Drawn
  <2>1. prompt' \in Prompts /\ cols' = cols /\ render_input(Now, data', index', 0, 0)
    BY <1>7 DEF Reload_Drawn
  <2> QED BY <2>1, NowTerm, RenderStep DEF DInv
<1>8. CASE UNCHANGED esVars
  BY <1>8 DEF esVars, vars, renderVars, DInv, IsTerm, DrawnWell
<1> QED BY <1>1, <1>2, <1>3, <1>4, <1>5, <1>6, <1>7, <1>8 DEF ESNext

LEMMA SpecDInv == ESSpec => []DInv
<1>1. DInv /\ IInv /\ IInv' /\ [ESNext]_esVars => DInv'
  BY DrawnStep
<1> QED BY <1>1, DrawnInit, ScreenIInv, PTL DEF ESSpec

\* Whatever was drawn or printed before, whatever the columns become and however often
\* the line is drawn over: if they fit, the terminal shows the prompt and the line, each
\* row in its place, and the cursor where the line is edited.
THEOREM AlwaysDisplayed == ESSpec => [](Fits => Displayed)
<1>1. DInv => (Fits => Displayed)
  BY DEF DInv, DrawnWell, Fits, Displayed, shown, top, cursor_row
<1> QED BY <1>1, SpecDInv, PTL

-----------------------------------------------------------------------------
(***************************************************************************)
(* Where a text is drawn.  s is the row that render_input goes up to, R    *)
(* how many rows it clears from there; the drawing starts at s too, but    *)
(* where these rows do not fit it starts higher.                           *)
(***************************************************************************)
Start(t, at, c) == CursorUp(t, screen_row(at, c)).row

Landed(s, R) == IF s + R - 1 <= Height THEN s ELSE IF R <= Height THEN Height - R + 1 ELSE 1

\* The rows that are cleared.
Swept(text, c, width) == Larger(screen_rows(width, c), screen_rows(Len(text), c))

LEMMA RowsLemma ==
    ASSUME NEW w \in Nat, NEW c \in Nat \ {0}
    PROVE  /\ screen_row(w, c) \in Nat /\ screen_rows(w, c) = screen_row(w, c) + 1
           /\ screen_row(w, c) = 0 <=> w < c
<1>1. w \div c \in Nat /\ (w \div c = 0 <=> w < c)
  OBVIOUS
<1> QED BY <1>1 DEF screen_row, screen_rows

LEMMA CursorRow ==
    ASSUME NEW a \in Nat, NEW b \in Nat, a <= b, NEW c \in Nat \ {0}
    PROVE  screen_row(a, c) <= screen_row(b, c)
  BY DivLemma DEF screen_row

\* The rows, the row and the output of a terminal that Drawn leaves.
DrawnOn(t, d, text, cursor, c, width, at) ==
    LET s == Start(t, at, c)
        R == Swept(text, c, width)
        n == screen_rows(Len(text), c)
        first == Landed(s, R)
        back == n - 1 - screen_row(cursor, c)
    IN  /\ DOMAIN d.rows = 1 .. Height /\ d.due \in Int
        /\ n <= Height =>
             /\ first + n - 1 <= Height /\ d.row = first + screen_row(cursor, c)
             /\ d.due = t.due
             /\ \A r \in 1 .. Height :
                  d.rows[r] = IF r \in first .. first + n - 1
                              THEN wrap_ansi(text, c)[r - first + 1]
                              ELSE IF r \in s .. s + R - 1 THEN <<>> ELSE t.rows[r]
        /\ n > Height =>
             /\ d.row = IF Height > back THEN Height - back ELSE 1
             /\ d.due <= t.due
             /\ \A r \in 1 .. Height : d.rows[r] = wrap_ansi(text, c)[r + n - Height]

LEMMA OutputsNat ==
    ASSUME NEW rows, NEW n \in Nat, DOMAIN rows = 1 .. n
    PROVE  Outputs(rows) \in Nat
<1> DEFINE S == {r \in DOMAIN rows : IsOutput(rows[r])}
<1>1. IsFiniteSet(1 .. n) /\ S \in SUBSET (1 .. n)
  BY FS_Interval
<1> HIDE DEF S
<1>2. IsFiniteSet(S)
  BY <1>1, FS_Subset
<1>3. Cardinality(S) \in Nat
  BY <1>2, FS_CardinalityType
<1> QED BY <1>3 DEF Outputs, S

LEMMA NoOutputs ==
    ASSUME NEW rows, DOMAIN rows = {}
    PROVE  Outputs(rows) = 0
<1>1. {r \in DOMAIN rows : IsOutput(rows[r])} = {}
  OBVIOUS
<1> QED BY <1>1, FS_EmptySet DEF Outputs

LEMMA ScrollTerm ==
    ASSUME NEW t, IsTerm(t), NEW n \in Nat
    PROVE  /\ Scroll(t, n).rows = [r \in 1 .. Height |-> IF r + n <= Height THEN t.rows[r + n] ELSE <<>>]
           /\ Scroll(t, n).due = t.due - Outputs([r \in 1 .. n |-> t.rows[r]])
           /\ DOMAIN Scroll(t, n) = {"rows", "row", "col", "due"}
  BY DEF IsTerm, Scroll

\* Write, from a row where the lines fit, and from the first where they do not.
LEMMA WriteRows ==
    ASSUME NEW t, IsTerm(t), t.due \in Int, NEW lines, NEW n \in Nat \ {0}, Len(lines) = n
    PROVE  /\ DOMAIN Write(t, lines).rows = 1 .. Height /\ Write(t, lines).due \in Int
           /\ t.row + n - 1 <= Height =>
                /\ Write(t, lines).row = t.row + n - 1 /\ Write(t, lines).due = t.due
                /\ \A r \in 1 .. Height :
                     Write(t, lines).rows[r] = IF r \in t.row .. t.row + n - 1
                                               THEN lines[r - t.row + 1] ELSE t.rows[r]
           /\ t.row = 1 /\ n > Height =>
                /\ Write(t, lines).row = Height /\ Write(t, lines).due <= t.due
                /\ \A r \in 1 .. Height : Write(t, lines).rows[r] = lines[r + n - Height]
<1> DEFINE last == t.row + Len(lines) - 1
           over == IF last > Height THEN last - Height ELSE 0
           m == Smaller(over, Height)
           seen == Scroll(t, m)
           rows == [r \in 1 .. Height |->
                      IF r + over \in t.row .. last THEN lines[r + over - t.row + 1]
                      ELSE seen.rows[r]]
<1>0. Height \in Nat \ {0} /\ t.row \in 1 .. Height
  BY RenderAssumption DEF IsTerm
<1>1. last = t.row + n - 1 /\ over \in Nat /\ m \in Nat
  BY <1>0 DEF Smaller
<1>2. Write(t, lines) = [seen EXCEPT !.rows = rows, !.row = last - over]
  BY DEF Write
<1> HIDE DEF m
<1>3. /\ seen.rows = [r \in 1 .. Height |-> IF r + m <= Height THEN t.rows[r + m] ELSE <<>>]
      /\ seen.due = t.due - Outputs([r \in 1 .. m |-> t.rows[r]])
      /\ DOMAIN seen = {"rows", "row", "col", "due"}
  BY <1>1, ScrollTerm
<1>4. Outputs([r \in 1 .. m |-> t.rows[r]]) \in Nat
  BY <1>1, OutputsNat
<1> HIDE DEF seen
<1>5. /\ Write(t, lines).row = last - over /\ Write(t, lines).rows = rows
      /\ Write(t, lines).due = seen.due
  <2> HIDE DEF rows, over, last
  <2> QED BY <1>2, <1>3
<1>8. DOMAIN rows = 1 .. Height /\ seen.due \in Int
  BY <1>3, <1>4
<1>6. ASSUME t.row + n - 1 <= Height
      PROVE  /\ over = 0 /\ m = 0 /\ last - over = t.row + n - 1 /\ seen.due = t.due
             /\ \A r \in 1 .. Height : rows[r] = IF r \in t.row .. t.row + n - 1
                                                 THEN lines[r - t.row + 1] ELSE t.rows[r]
  <2>1. over = 0 /\ m = 0 /\ last - over = t.row + n - 1
    BY <1>0, <1>1, <1>6 DEF m, Smaller
  <2>2. Outputs([r \in 1 .. m |-> t.rows[r]]) = 0
    <3>1. DOMAIN [r \in 1 .. m |-> t.rows[r]] = {}
      BY <2>1
    <3> QED BY <3>1, NoOutputs
  <2>3. seen.due = t.due
    BY <1>3, <2>2
  <2>4. ASSUME NEW r \in 1 .. Height
        PROVE  rows[r] = IF r \in t.row .. t.row + n - 1 THEN lines[r - t.row + 1] ELSE t.rows[r]
    <3>1. seen.rows[r] = t.rows[r]
      BY <1>0, <1>3, <2>1
    <3>2. r + over = r /\ r + over - t.row + 1 = r - t.row + 1 /\ last = t.row + n - 1
      BY <1>0, <1>1, <2>1
    <3> HIDE DEF over, last
    <3> QED BY <3>1, <3>2
  <2> QED BY <2>1, <2>3, <2>4
<1>7. ASSUME t.row = 1, n > Height
      PROVE  /\ last - over = Height /\ seen.due <= t.due
             /\ \A r \in 1 .. Height : rows[r] = lines[r + n - Height]
  <2>1. over = n - Height /\ last = n /\ last - over = Height
    BY <1>0, <1>1, <1>7
  <2>2. seen.due <= t.due
    BY <1>3, <1>4
  <2>3. ASSUME NEW r \in 1 .. Height PROVE rows[r] = lines[r + n - Height]
    <3>1. r + over \in t.row .. last /\ r + over - t.row + 1 = r + n - Height
      BY <1>0, <1>7, <2>1
    <3> HIDE DEF over, last
    <3> QED BY <3>1
  <2> QED BY <2>1, <2>2, <2>3
<1> HIDE DEF rows, over, last
<1> QED BY <1>5, <1>6, <1>7, <1>8

LEMMA ClearRows ==
    ASSUME NEW t, IsTerm(t), NEW n \in Nat \ {0}
    PROVE  /\ Clear(t, n).row = Smaller(t.row + n - 1, Height) /\ Clear(t, n).due = t.due
           /\ \A r \in 1 .. Height :
                Clear(t, n).rows[r] = IF r \in t.row .. t.row + n - 1 THEN <<>> ELSE t.rows[r]
  BY DEF IsTerm, Clear

LEMMA UpDue ==
    ASSUME NEW t, IsTerm(t), NEW n \in Nat
    PROVE  CursorUp(t, n).due = t.due
  BY DEF IsTerm, CursorUp

\* The drawing starts at Landed, and its rows fit from there if they fit at all.
LEMMA LandedLemma ==
    ASSUME NEW s \in 1 .. Height, NEW R \in Nat \ {0}, NEW n \in 1 .. R, Height \in Nat \ {0},
           NEW row, row = Smaller(s + R - 1, Height)
    PROVE  /\ Landed(s, R) = IF row > R - 1 THEN row - (R - 1) ELSE 1
           /\ Landed(s, R) \in 1 .. s
           /\ n <= Height => Landed(s, R) + n - 1 <= Height
           /\ n > Height => Landed(s, R) = 1
  BY DEF Landed, Smaller

LEMMA SweptLemma ==
    ASSUME NEW text, Len(text) \in Nat, NEW cursor \in 0 .. Len(text), NEW c \in Nat \ {0},
           NEW width \in Nat
    PROVE  /\ Swept(text, c, width) \in Nat \ {0}
           /\ screen_rows(Len(text), c) \in 1 .. Swept(text, c, width)
           /\ screen_rows(width, c) \in 1 .. Swept(text, c, width)
           /\ Swept(text, c, width) \in {screen_rows(Len(text), c), screen_rows(width, c)}
           /\ screen_rows(Len(text), c) = screen_row(Len(text), c) + 1
           /\ screen_row(cursor, c) \in Nat
           /\ screen_row(cursor, c) <= screen_rows(Len(text), c) - 1
<1> DEFINE n == screen_rows(Len(text), c)
           m == screen_rows(width, c)
           cur == screen_row(cursor, c)
           end == screen_row(Len(text), c)
<1>1. n = end + 1 /\ end \in Nat
  BY RowsLemma
<1>2. m \in Nat \ {0}
  <2>1. m = screen_row(width, c) + 1 /\ screen_row(width, c) \in Nat
    BY RowsLemma
  <2> HIDE DEF m
  <2> QED BY <2>1
<1>3. cur \in Nat /\ cur <= end
  <2>1. cursor \in Nat /\ cursor <= Len(text)
    OBVIOUS
  <2>2. cur \in Nat
    BY <2>1, RowsLemma
  <2> QED BY <2>1, <2>2, CursorRow
<1>4. Swept(text, c, width) = Larger(m, n)
  BY DEF Swept
<1> HIDE DEF n, m, cur, end
<1>5. Larger(m, n) \in {n, m} /\ n <= Larger(m, n) /\ m <= Larger(m, n)
  BY <1>1, <1>2 DEF Larger
<1>6. n \in Nat \ {0}
  BY <1>1
<1>7. Larger(m, n) \in Nat \ {0} /\ n \in 1 .. Larger(m, n) /\ m \in 1 .. Larger(m, n)
  BY <1>2, <1>5, <1>6
<1>8. cur <= n - 1
  BY <1>1, <1>3
<1> QED BY <1>1, <1>3, <1>4, <1>5, <1>7, <1>8 DEF n, m, cur, end

LEMMA DrawnRows ==
    ASSUME NEW t, IsTerm(t), t.due \in Int, NEW text, Len(text) \in Nat,
           NEW cursor \in 0 .. Len(text), NEW c \in Nat \ {0}, NEW width \in Nat, NEW at \in Nat
    PROVE  DrawnOn(t, Drawn(t, text, cursor, c, width, at), text, cursor, c, width, at)
<1> DEFINE R == Swept(text, c, width)
           n == screen_rows(Len(text), c)
           up == CursorUp(t, screen_row(at, c))
           s == Start(t, at, c)
           cleared == Clear(up, R)
           start == CursorUp(cleared, R - 1)
           first == Landed(s, R)
           lines == wrap_ansi(text, c)
           written == Write(start, lines)
           back == screen_row(Len(text), c) - screen_row(cursor, c)
           moved == CursorUp(written, back)
           drawn == [moved EXCEPT !.col = screen_col(cursor, c)]
           cur == screen_row(cursor, c)
<1>0. Height \in Nat \ {0}
  BY RenderAssumption
<1>1. /\ R \in Nat \ {0} /\ n \in 1 .. R /\ R - 1 \in Nat
      /\ cur \in Nat /\ back \in Nat /\ back = n - 1 - cur /\ cur <= n - 1
      /\ screen_row(at, c) \in Nat
  <2> DEFINE end == screen_row(Len(text), c)
  <2>1. /\ R \in Nat \ {0} /\ n \in 1 .. R /\ n = end + 1 /\ cur \in Nat /\ cur <= n - 1
    BY SweptLemma
  <2>2. screen_row(at, c) \in Nat /\ end \in Nat
    <3>1. screen_row(at, c) \in Nat
      BY RowsLemma
    <3>2. end \in Nat
      BY RowsLemma
    <3> QED BY <3>1, <3>2
  <2>3. back = end - cur
    OBVIOUS
  <2> HIDE DEF n, R, cur, end, back
  <2> QED BY <2>1, <2>2, <2>3
<1>2. Len(lines) = n
  <2>1. Len(lines) = Len(text) \div c + 1
    BY WrapLemma
  <2> QED BY <2>1 DEF screen_rows
<1>3. Drawn(t, text, cursor, c, width, at) = drawn
  BY DEF Drawn, Swept
<1>4. IsTerm(up) /\ up.row = s /\ up.rows = t.rows /\ up.due = t.due /\ s \in 1 .. Height
  <2>1. IsTerm(up) /\ up.rows = t.rows /\ up.due = t.due
    BY <1>1, UpTerm, UpDue
  <2>2. up.row = s
    BY DEF Start
  <2> QED BY <2>1, <2>2 DEF IsTerm
<1> HIDE DEF R, n, back, lines, cur
<1>5. /\ IsTerm(cleared) /\ cleared.due = t.due /\ cleared.row = Smaller(s + R - 1, Height)
      /\ \A r \in 1 .. Height :
           cleared.rows[r] = IF r \in s .. s + R - 1 THEN <<>> ELSE t.rows[r]
  <2> HIDE DEF up, s
  <2>1. IsTerm(cleared)
    BY <1>1, <1>4, ClearTerm
  <2>2. /\ cleared.due = up.due /\ cleared.row = Smaller(up.row + R - 1, Height)
        /\ \A r \in 1 .. Height :
             cleared.rows[r] = IF r \in up.row .. up.row + R - 1 THEN <<>> ELSE up.rows[r]
    BY <1>1, <1>4, ClearRows
  <2> HIDE DEF cleared
  <2> QED BY <1>4, <2>1, <2>2
<1> HIDE DEF up, s
<1>6. /\ IsTerm(start) /\ start.due = t.due /\ start.rows = cleared.rows
      /\ start.row = IF cleared.row > R - 1 THEN cleared.row - (R - 1) ELSE 1
  <2> HIDE DEF cleared
  <2> QED BY <1>1, <1>5, UpTerm, UpDue
<1>7. /\ first = start.row /\ first \in 1 .. s
      /\ n <= Height => first + n - 1 <= Height
      /\ n > Height => first = 1
  <2> DEFINE row == cleared.row
  <2>1. row = Smaller(s + R - 1, Height)
    BY <1>5
  <2> HIDE DEF row
  <2>2. /\ first = IF row > R - 1 THEN row - (R - 1) ELSE 1
        /\ first \in 1 .. s /\ (n <= Height => first + n - 1 <= Height)
        /\ n > Height => first = 1
    <3>1. /\ Landed(s, R) = IF row > R - 1 THEN row - (R - 1) ELSE 1
          /\ Landed(s, R) \in 1 .. s
          /\ n <= Height => Landed(s, R) + n - 1 <= Height
          /\ n > Height => Landed(s, R) = 1
      <4>1. s \in 1 .. Height /\ R \in Nat \ {0} /\ n \in 1 .. R
        BY <1>1, <1>4
      <4> HIDE DEF first
      <4> QED BY <1>0, <2>1, <4>1, LandedLemma
    <3> QED BY <3>1
  <2> QED BY <1>6, <2>2 DEF row
<1> HIDE DEF first, start, cleared
<1>8. IsTerm(written) /\ n \in Nat \ {0}
  <2>1. n \in Nat \ {0}
    BY <1>1
  <2> QED BY <1>2, <1>6, <2>1, WriteTerm
<1>9. /\ DOMAIN written.rows = 1 .. Height /\ written.due \in Int
      /\ first + n - 1 <= Height =>
           /\ written.row = first + n - 1 /\ written.due = t.due
           /\ \A r \in 1 .. Height :
                written.rows[r] = IF r \in first .. first + n - 1
                                  THEN lines[r - first + 1] ELSE start.rows[r]
      /\ first = 1 /\ n > Height =>
           /\ written.row = Height /\ written.due <= t.due
           /\ \A r \in 1 .. Height : written.rows[r] = lines[r + n - Height]
  <2>1. /\ DOMAIN written.rows = 1 .. Height /\ written.due \in Int
        /\ start.row + n - 1 <= Height =>
             /\ written.row = start.row + n - 1 /\ written.due = start.due
             /\ \A r \in 1 .. Height :
                  written.rows[r] = IF r \in start.row .. start.row + n - 1
                                    THEN lines[r - start.row + 1] ELSE start.rows[r]
        /\ start.row = 1 /\ n > Height =>
             /\ written.row = Height /\ written.due <= start.due
             /\ \A r \in 1 .. Height : written.rows[r] = lines[r + n - Height]
    <3>1. start.due \in Int
      BY <1>6
    <3> QED BY <1>2, <1>6, <1>8, <3>1, WriteRows
  <2> HIDE DEF written
  <2> QED BY <1>6, <1>7, <2>1
<1> HIDE DEF written
<1>10. /\ IsTerm(moved) /\ moved.rows = written.rows /\ moved.due = written.due
       /\ moved.row = IF written.row > back THEN written.row - back ELSE 1
  BY <1>1, <1>8, UpTerm, UpDue
<1> HIDE DEF moved
<1>11. drawn.rows = written.rows /\ drawn.row = moved.row /\ drawn.due = written.due
  BY <1>10 DEF IsTerm
<1> HIDE DEF drawn
<1>12. ASSUME n <= Height
       PROVE  /\ first + n - 1 <= Height /\ drawn.row = first + cur /\ drawn.due = t.due
              /\ \A r \in 1 .. Height :
                   drawn.rows[r] = IF r \in first .. first + n - 1 THEN lines[r - first + 1]
                                   ELSE IF r \in s .. s + R - 1 THEN <<>> ELSE t.rows[r]
  <2>1. first + n - 1 <= Height
    BY <1>7, <1>12
  <2>2. drawn.row = first + cur
    <3> DEFINE row == written.row
    <3>1. row = first + n - 1 /\ n \in Nat /\ first \in Nat /\ first >= 1
      BY <1>1, <1>4, <1>7, <1>9, <2>1
    <3>2. drawn.row = IF row > back THEN row - back ELSE 1
      BY <1>10, <1>11
    <3> HIDE DEF row
    <3>3. row > back /\ row - back = first + cur
      BY <1>1, <3>1
    <3> QED BY <3>2, <3>3
  <2>3. ASSUME NEW r \in 1 .. Height
        PROVE  drawn.rows[r] = IF r \in first .. first + n - 1 THEN lines[r - first + 1]
                               ELSE IF r \in s .. s + R - 1 THEN <<>> ELSE t.rows[r]
    BY <1>5, <1>6, <1>9, <1>11, <2>1
  <2> QED BY <1>9, <1>11, <2>1, <2>2, <2>3
<1>13. ASSUME n > Height
       PROVE  /\ drawn.row = IF Height > n - 1 - cur THEN Height - (n - 1 - cur) ELSE 1
              /\ drawn.due <= t.due
              /\ \A r \in 1 .. Height : drawn.rows[r] = lines[r + n - Height]
  BY <1>1, <1>7, <1>9, <1>10, <1>11, <1>13
<1>14. DOMAIN drawn.rows = 1 .. Height /\ drawn.due \in Int
  BY <1>9, <1>11
<1> QED BY <1>3, <1>12, <1>13, <1>14 DEF DrawnOn, n, R, s, first, lines, cur

\* What is drawn ends in the last row, or it starts in the first one.
Placed(t, width, at, c) ==
    LET n == screen_rows(width, c)
        s == Start(t, at, c)
    IN  /\ n <= Height => s + n - 1 <= Height /\ t.row = s + screen_row(at, c)
        /\ n > Height => s = 1

LEMMA StartLemma ==
    ASSUME NEW t, IsTerm(t), NEW at \in Nat, NEW c \in Nat \ {0}
    PROVE  /\ Start(t, at, c) = IF t.row > screen_row(at, c) THEN t.row - screen_row(at, c) ELSE 1
           /\ Start(t, at, c) \in 1 .. Height
<1>1. screen_row(at, c) \in Nat /\ t.row \in 1 .. Height
  BY RowsLemma DEF IsTerm
<1>2. Start(t, at, c) = IF t.row > screen_row(at, c) THEN t.row - screen_row(at, c) ELSE 1
  BY <1>1, UpTerm DEF Start
<1> QED BY <1>1, <1>2, RenderAssumption

LEMMA PlacedLemma ==
    ASSUME NEW t, IsTerm(t), NEW d, IsTerm(d), NEW text, Len(text) \in Nat,
           NEW cursor \in 0 .. Len(text), NEW c \in Nat \ {0}, NEW width \in Nat, NEW at \in Nat,
           DrawnOn(t, d, text, cursor, c, width, at)
    PROVE  /\ Placed(d, Len(text), cursor, c)
           /\ screen_rows(Len(text), c) <= Height =>
                 Start(d, cursor, c) = Landed(Start(t, at, c), Swept(text, c, width))
<1> DEFINE n == screen_rows(Len(text), c)
           R == Swept(text, c, width)
           s == Start(t, at, c)
           first == Landed(s, R)
           cur == screen_row(cursor, c)
           mine == Start(d, cursor, c)
           row == d.row
           back == n - 1 - cur
<1>0. Height \in Nat \ {0}
  BY RenderAssumption
<1>1. /\ n \in Nat \ {0} /\ cur \in Nat /\ cur <= n - 1 /\ R \in Nat \ {0} /\ n \in 1 .. R
  <2>1. R \in Nat \ {0} /\ n \in 1 .. R /\ cur \in Nat /\ cur <= n - 1
    BY SweptLemma
  <2> HIDE DEF n, R, cur
  <2> QED BY <2>1
<1>2. mine = IF row > cur THEN row - cur ELSE 1
  BY StartLemma
<1>3. s \in 1 .. Height /\ row \in 1 .. Height
  BY StartLemma DEF IsTerm
<1>4. /\ n <= Height => first + n - 1 <= Height /\ row = first + cur
      /\ n > Height => row = IF Height > back THEN Height - back ELSE 1
  BY DEF DrawnOn
<1> HIDE DEF n, R, s, cur, mine, row
<1>5. first \in 1 .. s
  <2>1. PICK q : q = Smaller(s + R - 1, Height)
    OBVIOUS
  <2> QED BY <1>0, <1>1, <1>3, <2>1, LandedLemma
<1> HIDE DEF first
<1>6. ASSUME n <= Height PROVE mine = first /\ first + n - 1 <= Height /\ row = first + cur
  BY <1>1, <1>2, <1>3, <1>4, <1>5, <1>6
<1>7. ASSUME n > Height PROVE mine = 1
  BY <1>0, <1>1, <1>2, <1>3, <1>4, <1>7
<1> QED BY <1>6, <1>7 DEF Placed, n, mine, row, cur, first, s, R

\* Nothing of what was there stays below the drawing, if nothing was below what is cleared.
Empty(t, r) == \A k \in 1 .. Height : k >= r => t.rows[k] = <<>>

LEMMA BelowLemma ==
    ASSUME NEW t, IsTerm(t), NEW d, NEW text, Len(text) \in Nat,
           NEW cursor, NEW c \in Nat \ {0}, NEW width \in Nat, NEW at \in Nat,
           DrawnOn(t, d, text, cursor, c, width, at), screen_rows(Len(text), c) <= Height,
           Empty(t, Start(t, at, c) + Swept(text, c, width)),
           Start(t, at, c) <= Landed(Start(t, at, c), Swept(text, c, width))
                                + screen_rows(Len(text), c)
    PROVE  Empty(d, Landed(Start(t, at, c), Swept(text, c, width)) + screen_rows(Len(text), c))
<1> DEFINE n == screen_rows(Len(text), c)
           R == Swept(text, c, width)
           s == Start(t, at, c)
           first == Landed(s, R)
<1>1. \A r \in 1 .. Height :
        d.rows[r] = IF r \in first .. first + n - 1 THEN wrap_ansi(text, c)[r - first + 1]
                    ELSE IF r \in s .. s + R - 1 THEN <<>> ELSE t.rows[r]
  BY DEF DrawnOn
<1>2. n \in Nat \ {0} /\ R \in Nat \ {0} /\ s \in 1 .. Height /\ Height \in Nat \ {0}
  <2>1. 0 \in 0 .. Len(text)
    OBVIOUS
  <2>2. R \in Nat \ {0} /\ n \in 1 .. R
    BY <2>1, SweptLemma
  <2>3. s \in 1 .. Height
    BY StartLemma
  <2> HIDE DEF n, R, s
  <2> QED BY <2>2, <2>3, RenderAssumption
<1>3. first \in Int
  BY <1>2 DEF Landed
<1>4. s <= first + n /\ \A k \in 1 .. Height : k >= s + R => t.rows[k] = <<>>
  BY DEF Empty
<1> HIDE DEF n, R, s, first
<1>5. ASSUME NEW r \in 1 .. Height, r >= first + n PROVE d.rows[r] = <<>>
  <2>1. ~(r \in first .. first + n - 1) /\ r >= s
    BY <1>2, <1>3, <1>4, <1>5
  <2>2. CASE r <= s + R - 1
    BY <1>1, <1>2, <2>1, <2>2
  <2>3. CASE r > s + R - 1
    <3>1. r >= s + R /\ ~(r \in s .. s + R - 1)
      BY <1>2, <2>3
    <3> QED BY <1>1, <1>4, <2>1, <3>1
  <2> QED BY <1>2, <2>2, <2>3
<1> QED BY <1>5 DEF Empty, first, s, R, n

(***************************************************************************)
(* The rows: sequences of cells, and a row of output begins with its mark, *)
(* so that cutting it leaves it one.                                       *)
(***************************************************************************)
Cell == STRING \cup Letters \cup {Output, Past}

Marked(row) == row \in Seq(Cell) /\ (IsOutput(row) => row[1] = Output)

RowsOK(t) ==
    /\ DOMAIN t.rows = 1 .. Height /\ t.due \in Int
    /\ \A r \in 1 .. Height : Marked(t.rows[r])

Plain(row) == row \in Seq(Cell) /\ ~IsOutput(row)

LEMMA OneCell ==
    ASSUME NEW x \in Cell
    PROVE  <<x>> \in Seq(Cell) /\ Len(<<x>>) = 1 /\ <<x>>[1] = x /\ DOMAIN <<x>> = 1 .. 1
  OBVIOUS

LEMMA EmptyMarked == Marked(<<>>) /\ Plain(<<>>) /\ Marked(<<Output>>) /\ IsOutput(<<Output>>)
<1>1. Output \in Cell
  BY DEF Cell
<1>2. <<>> \in Seq(Cell) /\ DOMAIN <<>> = {}
  OBVIOUS
<1>3. <<Output>> \in Seq(Cell) /\ DOMAIN <<Output>> = 1 .. 1 /\ <<Output>>[1] = Output
  BY <1>1, OneCell
<1> QED BY <1>2, <1>3 DEF Marked, Plain, IsOutput

LEMMA PlainMarked == ASSUME NEW row, Plain(row) PROVE Marked(row)
  BY DEF Plain, Marked

\* The rows of a text without the mark of output have none.
LEMMA WrapPlain ==
    ASSUME NEW text, Plain(text), NEW c \in Nat \ {0}, NEW k \in 1 .. screen_rows(Len(text), c)
    PROVE  Plain(wrap_ansi(text, c)[k])
<1> DEFINE i == (k - 1) * c + 1
           j == Smaller(k * c, Len(text))
           row == SubSeq(text, i, j)
<1>1. text \in Seq(Cell) /\ Len(text) \in Nat /\ \A x \in DOMAIN text : text[x] # Output
  BY DEF Plain, IsOutput
<1>2. k \in 1 .. Len(text) \div c + 1
  BY DEF screen_rows
<1>3. wrap_ansi(text, c)[k] = row
  BY <1>2 DEF wrap_ansi
<1>4. k - 1 \in Nat /\ k \in Nat
  BY <1>1, <1>2
<1>5. (k - 1) * c \in Nat /\ k * c \in Nat
  BY <1>4
<1>6. i \in Int /\ j \in Int /\ 1 <= i /\ j <= Len(text)
  BY <1>1, <1>5 DEF Smaller
<1> HIDE DEF i, j
<1>7. row \in Seq(Cell) /\ \A x \in DOMAIN row : \E y \in DOMAIN text : row[x] = text[y]
  BY <1>1, <1>6
<1> HIDE DEF row
<1> QED BY <1>1, <1>3, <1>7 DEF Plain, IsOutput

LEMMA TextPlain ==
    ASSUME NEW p \in Prompts, NEW line \in Line
    PROVE  Plain(p \o line) /\ Len(p \o line) = Len(p) + Len(line)
<1>1. p \in Seq(STRING) /\ line \in Seq(Letters)
  BY RenderAssumption DEF Line
<1>2. \A i \in DOMAIN p : p[i] # Output
  BY OutputAssumption
<1>3. \A i \in DOMAIN line : line[i] # Output
  BY <1>1, OutputAssumption
<1>4. p \in Seq(Cell) /\ line \in Seq(Cell)
  BY <1>1 DEF Cell
<1> DEFINE text == p \o line
<1>5. text \in Seq(Cell) /\ Len(text) = Len(p) + Len(line)
  BY <1>4
<1>6. ASSUME NEW i \in DOMAIN text PROVE text[i] # Output
  <2>1. CASE i \in DOMAIN p
    BY <1>2, <1>4, <2>1
  <2>2. CASE i \notin DOMAIN p
    <3>1. i - Len(p) \in DOMAIN line /\ text[i] = line[i - Len(p)]
      BY <1>4, <1>5, <2>2
    <3> QED BY <1>3, <3>1
  <2> QED BY <2>1, <2>2
<1> QED BY <1>5, <1>6 DEF Plain, IsOutput

\* A drawing, a new line, the beginning of a row of output, a line entered and a change of
\* the width keep the rows well.
LEMMA DrawnMarked ==
    ASSUME NEW t, RowsOK(t), NEW d, NEW text, Plain(text), NEW cursor \in 0 .. Len(text),
           NEW c \in Nat \ {0}, NEW width \in Nat, NEW at \in Nat, IsTerm(t),
           DrawnOn(t, d, text, cursor, c, width, at)
    PROVE  RowsOK(d)
<1> DEFINE n == screen_rows(Len(text), c)
           R == Swept(text, c, width)
           s == Start(t, at, c)
           first == Landed(s, R)
           lines == wrap_ansi(text, c)
<1>0. Height \in Nat \ {0}
  BY RenderAssumption
<1>1. Len(text) \in Nat
  BY DEF Plain
<1>2. n \in 1 .. R /\ R \in Nat \ {0}
  BY <1>1, SweptLemma
<1>3. s \in 1 .. Height
  BY StartLemma
<1>4. \A k \in 1 .. n : Marked(lines[k])
  BY WrapPlain, PlainMarked
<1>5. /\ DOMAIN d.rows = 1 .. Height /\ d.due \in Int
      /\ n <= Height => \A r \in 1 .. Height :
                           d.rows[r] = IF r \in first .. first + n - 1 THEN lines[r - first + 1]
                                       ELSE IF r \in s .. s + R - 1 THEN <<>> ELSE t.rows[r]
      /\ n > Height => \A r \in 1 .. Height : d.rows[r] = lines[r + n - Height]
  BY DEF DrawnOn
<1> HIDE DEF lines, n, R, s
<1>6. first \in Nat
  BY <1>0, <1>2, <1>3 DEF Landed
<1> HIDE DEF first
<1>7. ASSUME NEW r \in 1 .. Height PROVE Marked(d.rows[r])
  <2>1. CASE n > Height
    <3>1. r + n - Height \in 1 .. n
      BY <1>0, <1>2, <2>1
    <3> QED BY <1>4, <1>5, <2>1, <3>1
  <2>2. CASE n <= Height /\ r \in first .. first + n - 1
    <3>1. r - first + 1 \in 1 .. n
      BY <1>2, <1>6, <2>2
    <3> QED BY <1>4, <1>5, <2>2, <3>1
  <2>3. CASE n <= Height /\ r \notin first .. first + n - 1
    BY <1>5, <2>3, EmptyMarked DEF RowsOK
  <2> QED BY <1>0, <1>2, <2>1, <2>2, <2>3
<1> QED BY <1>5, <1>7 DEF RowsOK

NewLined(t, u) ==
    LET k == IF t.row = Height THEN 1 ELSE 0
    IN  /\ u.row = t.row + 1 - k
        /\ u.due = IF k = 1 /\ IsOutput(t.rows[1]) THEN t.due - 1 ELSE t.due
        /\ \A r \in 1 .. Height : u.rows[r] = IF r + k <= Height THEN t.rows[r + k] ELSE <<>>

LEMMA NewLineRows ==
    ASSUME NEW t, IsTerm(t), RowsOK(t)
    PROVE  IsTerm(NewLine(t)) /\ RowsOK(NewLine(t)) /\ NewLined(t, NewLine(t))
<1> DEFINE s == IF t.row = Height THEN Scroll(t, 1) ELSE t
           u == NewLine(t)
           k == IF t.row = Height THEN 1 ELSE 0
<1>0. Height \in Nat \ {0} /\ t.row \in 1 .. Height
  BY RenderAssumption DEF IsTerm
<1>1. u = [s EXCEPT !.row = s.row + 1, !.col = 0]
  BY DEF NewLine
<1>2. Outputs([r \in 1 .. 1 |-> t.rows[r]]) = IF IsOutput(t.rows[1]) THEN 1 ELSE 0
  <2> DEFINE one == [r \in 1 .. 1 |-> t.rows[r]]
  <2>1. DOMAIN one = {1} /\ one[1] = t.rows[1]
    OBVIOUS
  <2> HIDE DEF one
  <2>2. {r \in DOMAIN one : IsOutput(one[r])} = IF IsOutput(t.rows[1]) THEN {1} ELSE {}
    BY <2>1
  <2>3. Cardinality({1}) = 1 /\ Cardinality({}) = 0
    BY FS_Singleton, FS_EmptySet
  <2>4. Outputs(one) = IF IsOutput(t.rows[1]) THEN 1 ELSE 0
    BY <2>2, <2>3 DEF Outputs
  <2> QED BY <2>4 DEF one
<1>3. /\ DOMAIN s = {"rows", "row", "col", "due"} /\ s.row = t.row - k
      /\ DOMAIN s.rows = 1 .. Height
      /\ s.due = IF k = 1 /\ IsOutput(t.rows[1]) THEN t.due - 1 ELSE t.due
      /\ \A r \in 1 .. Height : s.rows[r] = IF r + k <= Height THEN t.rows[r + k] ELSE <<>>
  <2>1. CASE t.row = Height
    <3>0. s = Scroll(t, 1)
      BY <2>1
    <3>1. /\ s.rows = [r \in 1 .. Height |-> IF r + 1 <= Height THEN t.rows[r + 1] ELSE <<>>]
          /\ s.due = t.due - Outputs([r \in 1 .. 1 |-> t.rows[r]])
          /\ DOMAIN s = {"rows", "row", "col", "due"}
      BY <3>0 DEF IsTerm, Scroll
    <3>2. s.row = t.row - 1
      BY <2>1 DEF Scroll, IsTerm
    <3>3. s.due = IF IsOutput(t.rows[1]) THEN t.due - 1 ELSE t.due
      <4>1. t.due \in Int
        BY DEF RowsOK
      <4> HIDE DEF s
      <4> QED BY <1>2, <3>1, <4>1
    <3> HIDE DEF s
    <3> QED BY <2>1, <3>1, <3>2, <3>3
  <2>2. CASE t.row # Height
    BY <1>0, <2>2 DEF IsTerm, RowsOK
  <2> QED BY <2>1, <2>2
<1> HIDE DEF s
<1>4. u.rows = s.rows /\ u.due = s.due /\ u.row = s.row + 1
  BY <1>1, <1>3
<1>5. IsTerm(u)
  BY NewLineTerm
<1> HIDE DEF u
<1>6. NewLined(t, u)
  BY <1>0, <1>3, <1>4 DEF NewLined
<1>7. ASSUME NEW r \in 1 .. Height PROVE Marked(u.rows[r])
  <2>1. CASE r + k <= Height
    <3>1. r + k \in 1 .. Height
      BY <1>0, <2>1
    <3> QED BY <1>3, <1>4, <2>1, <3>1 DEF RowsOK
  <2>2. CASE ~(r + k <= Height)
    BY <1>3, <1>4, <2>2, EmptyMarked
  <2> QED BY <2>1, <2>2
<1>8. DOMAIN u.rows = 1 .. Height /\ u.due \in Int
  BY <1>3, <1>4 DEF RowsOK
<1> QED BY <1>5, <1>6, <1>7, <1>8 DEF RowsOK, u

LEMMA BegunRows ==
    ASSUME NEW t, IsTerm(t), RowsOK(t)
    PROVE  /\ IsTerm(Begun(t)) /\ RowsOK(Begun(t))
           /\ Begun(t).row = t.row /\ Begun(t).due = t.due
           /\ IsOutput(Begun(t).rows[t.row])
           /\ \A r \in 1 .. Height : r # t.row => Begun(t).rows[r] = t.rows[r]
<1> DEFINE old == t.rows[t.row]
           rest == SubSeq(old, 2, Len(old))
           new == <<Output>> \o rest
<1>1. t.row \in 1 .. Height /\ old \in Seq(Cell) /\ DOMAIN t.rows = 1 .. Height
  BY DEF IsTerm, RowsOK, Marked
<1>2. rest \in Seq(Cell)
  BY <1>1
<1>3. <<Output>> \in Seq(Cell) /\ Len(<<Output>>) = 1 /\ <<Output>>[1] = Output
  <2>1. Output \in Cell
    BY DEF Cell
  <2> QED BY <2>1, OneCell
<1> HIDE DEF rest
<1>4. new \in Seq(Cell) /\ Len(new) = 1 + Len(rest) /\ new[1] = Output
  BY <1>2, <1>3
<1>5. 1 \in DOMAIN new
  BY <1>2, <1>4
<1> HIDE DEF new
<1>6. Marked(new) /\ IsOutput(new)
  BY <1>4, <1>5 DEF Marked, IsOutput
<1>7. Begun(t) = [[t EXCEPT !.rows = [t.rows EXCEPT ![t.row] = new]] EXCEPT !.col = 1]
  BY DEF Begun, new, rest
<1>8. /\ DOMAIN Begun(t) = {"rows", "row", "col", "due"}
      /\ Begun(t).rows = [t.rows EXCEPT ![t.row] = new]
      /\ Begun(t).row = t.row /\ Begun(t).due = t.due
  BY <1>7 DEF IsTerm
<1>9. /\ DOMAIN Begun(t).rows = 1 .. Height /\ Begun(t).rows[t.row] = new
      /\ \A r \in 1 .. Height : r # t.row => Begun(t).rows[r] = t.rows[r]
  BY <1>1, <1>8
<1>10. IsTerm(Begun(t))
  BY <1>8 DEF IsTerm
<1>11. RowsOK(Begun(t))
  BY <1>1, <1>6, <1>8, <1>9 DEF RowsOK
<1> QED BY <1>6, <1>8, <1>9, <1>10, <1>11

LEMMA EnteredRows ==
    ASSUME NEW t, IsTerm(t), RowsOK(t)
    PROVE  /\ IsTerm(Entered(t)) /\ RowsOK(Entered(t))
           /\ Entered(t).row = t.row /\ Entered(t).due = t.due
           /\ \A r \in 1 .. Height :
                /\ IsOutput(Entered(t).rows[r]) <=> IsOutput(t.rows[r])
                /\ t.rows[r] = <<>> => Entered(t).rows[r] = <<>>
<1> DEFINE row(r) == IF t.rows[r] = <<>> THEN <<>>
                     ELSE IF IsOutput(t.rows[r]) THEN <<Output>> ELSE <<Past>>
<1>1. Entered(t) = [t EXCEPT !.rows = [r \in 1 .. Height |-> row(r)]]
  BY DEF Entered
<1> HIDE DEF row
<1>2. /\ Entered(t).rows = [r \in 1 .. Height |-> row(r)]
      /\ DOMAIN Entered(t) = {"rows", "row", "col", "due"}
      /\ Entered(t).row = t.row /\ Entered(t).due = t.due
  BY <1>1 DEF IsTerm
<1>3. <<Past>> \in Seq(Cell) /\ DOMAIN <<Past>> = 1 .. 1 /\ <<Past>>[1] # Output
  <2>1. Past \in Cell
    BY DEF Cell
  <2>2. Past # Output
    BY DEF Past, Output
  <2> QED BY <2>1, <2>2, OneCell
<1>4. Marked(<<Past>>) /\ ~IsOutput(<<Past>>)
  BY <1>3 DEF Marked, IsOutput
<1>5. ASSUME NEW r \in 1 .. Height
      PROVE  /\ Marked(row(r)) /\ (IsOutput(row(r)) <=> IsOutput(t.rows[r]))
             /\ t.rows[r] = <<>> => row(r) = <<>>
  BY <1>4, EmptyMarked DEF row, Plain
<1>6. IsTerm(Entered(t))
  BY EnteredTerm
<1>7. RowsOK(Entered(t))
  BY <1>2, <1>5 DEF RowsOK
<1> QED BY <1>2, <1>5, <1>6, <1>7

LEMMA CutRows ==
    ASSUME NEW t, IsTerm(t), RowsOK(t), NEW c \in Nat \ {0}
    PROVE  /\ IsTerm(Cut(t, c)) /\ RowsOK(Cut(t, c))
           /\ Cut(t, c).row = t.row /\ Cut(t, c).due = t.due
           /\ \A r \in 1 .. Height :
                /\ IsOutput(t.rows[r]) => IsOutput(Cut(t, c).rows[r])
                /\ t.rows[r] = <<>> => Cut(t, c).rows[r] = <<>>
<1> DEFINE row(r) == SubSeq(t.rows[r], 1, Smaller(c, Len(t.rows[r])))
<1>1. Cut(t, c) = [[t EXCEPT !.rows = [r \in 1 .. Height |-> row(r)]]
                     EXCEPT !.col = Smaller(t.col, c - 1)]
  BY DEF Cut
<1> HIDE DEF row
<1>2. /\ Cut(t, c).rows = [r \in 1 .. Height |-> row(r)]
      /\ DOMAIN Cut(t, c) = {"rows", "row", "col", "due"}
      /\ Cut(t, c).row = t.row /\ Cut(t, c).due = t.due
  BY <1>1 DEF IsTerm
<1>3. ASSUME NEW r \in 1 .. Height
      PROVE  /\ Marked(row(r)) /\ (IsOutput(t.rows[r]) => IsOutput(row(r)))
             /\ t.rows[r] = <<>> => row(r) = <<>>
  <2> DEFINE old == t.rows[r]
             j == Smaller(c, Len(old))
  <2>1. Marked(old) /\ old \in Seq(Cell)
    BY DEF RowsOK, Marked
  <2> HIDE DEF old
  <2>2. j \in Nat /\ j <= Len(old) /\ (Len(old) > 0 => j >= 1) /\ (Len(old) = 0 => j = 0)
    BY <2>1 DEF Smaller
  <2>3. row(r) = SubSeq(old, 1, j)
    BY DEF row, old
  <2> HIDE DEF j
  <2>4. row(r) \in Seq(Cell) /\ Len(row(r)) = j /\ \A i \in 1 .. j : row(r)[i] = old[i]
    BY <2>1, <2>2, <2>3
  <2>5. ASSUME IsOutput(old) PROVE IsOutput(row(r)) /\ row(r)[1] = Output
    <3>1. old[1] = Output /\ Len(old) > 0
      BY <2>1, <2>5 DEF Marked, IsOutput
    <3>2. 1 \in 1 .. j /\ DOMAIN row(r) = 1 .. j
      BY <2>2, <2>4, <3>1
    <3> QED BY <2>4, <3>1, <3>2 DEF IsOutput
  <2>6. ASSUME IsOutput(row(r)) PROVE IsOutput(old)
    <3>1. DOMAIN row(r) = 1 .. j /\ 1 .. j \subseteq DOMAIN old
      BY <2>1, <2>2, <2>4
    <3> QED BY <2>4, <2>6, <3>1 DEF IsOutput
  <2>7. ASSUME old = <<>> PROVE row(r) = <<>>
    <3>1. Len(row(r)) = 0
      BY <2>2, <2>4, <2>7
    <3> QED BY <2>4, <3>1
  <2>8. Marked(row(r))
    BY <2>4, <2>5, <2>6 DEF Marked
  <2> QED BY <2>5, <2>7, <2>8 DEF old
<1>4. IsTerm(Cut(t, c))
  BY <1>2 DEF IsTerm
<1>5. RowsOK(Cut(t, c))
  BY <1>2, <1>3 DEF RowsOK
<1> QED BY <1>2, <1>3, <1>4, <1>5

(***************************************************************************)
(* What is on the screen at and below the drawing: nothing below, and no   *)
(* output.                                                                 *)
(***************************************************************************)
Bare(t, s) == \A k \in 1 .. Height : k >= s => ~IsOutput(t.rows[k])

Tidy(t, w, a, c, st) ==
    /\ IsTerm(t) /\ RowsOK(t) /\ Placed(t, w, a, c)
    /\ ~st => Empty(t, Start(t, a, c) + screen_rows(w, c)) /\ Bare(t, Start(t, a, c))

NowRows ==
    Outputs(term.rows) \in Nat /\ IsTerm(Now) /\ RowsOK(Now) /\ Now.rows = term.rows
    /\ Now.row = term.row /\ Now.due = Outputs(term.rows)

LEMMA NowLemma == ASSUME IsTerm(term), RowsOK(term) PROVE NowRows
<1>1. Outputs(term.rows) \in Nat
  BY RenderAssumption, OutputsNat DEF RowsOK
<1>2. /\ DOMAIN Now = {"rows", "row", "col", "due"} /\ Now.rows = term.rows
      /\ Now.row = term.row /\ Now.due = Outputs(term.rows)
  BY DEF IsTerm, Now
<1> QED BY <1>1, <1>2 DEF IsTerm, RowsOK, NowRows

\* What a drawing has to find, so that it leaves nothing below it.
Drawable(t, text, c, width, at) ==
    LET s == Start(t, at, c)
        R == Swept(text, c, width)
        n == screen_rows(Len(text), c)
    IN  n <= Height => Empty(t, s + R) /\ s <= Landed(s, R) + n

LEMMA TidyDrawn ==
    ASSUME NEW t, IsTerm(t), RowsOK(t), NEW text, Plain(text), NEW cursor \in 0 .. Len(text),
           NEW c \in Nat \ {0}, NEW width \in Nat, NEW at \in Nat, NEW st,
           st \/ Drawable(t, text, c, width, at)
    PROVE  /\ DrawnOn(t, Drawn(t, text, cursor, c, width, at), text, cursor, c, width, at)
           /\ Tidy(Drawn(t, text, cursor, c, width, at), Len(text), cursor, c, st)
<1> DEFINE d == Drawn(t, text, cursor, c, width, at)
           n == screen_rows(Len(text), c)
           R == Swept(text, c, width)
           s == Start(t, at, c)
           first == Landed(s, R)
           mine == Start(d, cursor, c)
           lines == wrap_ansi(text, c)
<1>1. Len(text) \in Nat /\ t.due \in Int
  BY DEF Plain, RowsOK
<1>2. IsTerm(d) /\ DrawnOn(t, d, text, cursor, c, width, at)
  BY <1>1, DrawnLemma, DrawnRows
<1> HIDE DEF d
<1>3. RowsOK(d)
  BY <1>2, DrawnMarked
<1>4. Placed(d, Len(text), cursor, c) /\ (n <= Height => mine = first)
  BY <1>1, <1>2, PlacedLemma
<1>5. cursor \in Nat /\ n \in 1 .. R /\ R \in Nat \ {0} /\ Height \in Nat \ {0}
  <2>1. n \in 1 .. R /\ R \in Nat \ {0}
    BY <1>1, SweptLemma
  <2> HIDE DEF n, R
  <2> QED BY <2>1, RenderAssumption
<1>6. mine \in 1 .. Height
  BY <1>2, <1>5, StartLemma
<1>7. ASSUME ~st, n <= Height PROVE Empty(d, mine + n)
  <2>1. Empty(t, s + R) /\ s <= first + n
    BY <1>7 DEF Drawable
  <2>2. Empty(d, first + n)
    BY <1>1, <1>2, <1>7, <2>1, BelowLemma
  <2> QED BY <1>4, <1>7, <2>2
<1>8. /\ n <= Height => \A r \in 1 .. Height :
           r \in first .. first + n - 1 => d.rows[r] = lines[r - first + 1]
      /\ n > Height => \A r \in 1 .. Height : d.rows[r] = lines[r + n - Height]
  BY <1>2 DEF DrawnOn
<1>9. \A k \in 1 .. n : Plain(lines[k])
  BY WrapPlain
<1> HIDE DEF n, R, s, first, mine, lines
<1>10. ASSUME ~st, NEW k \in 1 .. Height, k >= mine PROVE ~IsOutput(d.rows[k])
  <2>1. CASE n > Height
    <3>1. k + n - Height \in 1 .. n
      BY <1>5, <2>1
    <3> QED BY <1>8, <1>9, <2>1, <3>1 DEF Plain
  <2>2. CASE n <= Height /\ k <= mine + n - 1
    <3>1. k - first + 1 \in 1 .. n /\ k \in first .. first + n - 1
      BY <1>4, <1>5, <1>6, <1>10, <2>2
    <3> QED BY <1>8, <1>9, <2>2, <3>1 DEF Plain
  <2>3. CASE n <= Height /\ k > mine + n - 1
    <3>1. k >= mine + n
      BY <1>5, <1>6, <2>3
    <3>2. d.rows[k] = <<>>
      BY <1>7, <1>10, <2>3, <3>1 DEF Empty
    <3> QED BY <3>2, EmptyMarked DEF Plain
  <2> QED BY <1>5, <1>6, <2>1, <2>2, <2>3
<1>11. ~st => Empty(d, mine + n)
  <2>1. CASE n <= Height
    BY <1>7, <2>1
  <2>2. CASE n > Height
    <3>1. \A k \in 1 .. Height : ~(k >= mine + n)
      BY <1>5, <1>6, <2>2
    <3> QED BY <3>1 DEF Empty
  <2> QED BY <1>5, <2>1, <2>2
<1>12. ~st => Bare(d, mine)
  BY <1>10 DEF Bare
<1> QED BY <1>2, <1>3, <1>4, <1>11, <1>12 DEF Tidy, d, mine, n

\* A drawing over the last one lands where nothing is left above it.
LEMMA AgainLands ==
    ASSUME NEW s \in 1 .. Height, NEW n \in Nat \ {0}, NEW n2 \in Nat \ {0}, NEW R \in {n, n2},
           n <= R, n2 <= R, n2 <= Height, n <= Height => s + n - 1 <= Height,
           n > Height => s = 1, Height \in Nat \ {0}
    PROVE  s <= Landed(s, R) + n2
  BY DEF Landed

LEMMA AgainLemma ==
    ASSUME NEW t0, NEW w \in Nat, NEW a \in Nat, NEW c \in Nat \ {0},
           Tidy(t0, w, a, c, FALSE),
           NEW t, IsTerm(t), RowsOK(t), t.row = t0.row,
           \A r \in 1 .. Height : t0.rows[r] = <<>> => t.rows[r] = <<>>,
           NEW text, Plain(text)
    PROVE  Drawable(t, text, c, w, a)
<1> DEFINE n == screen_rows(w, c)
           n2 == screen_rows(Len(text), c)
           R == Swept(text, c, w)
           s == Start(t, a, c)
<1>0. Height \in Nat \ {0} /\ Len(text) \in Nat
  BY RenderAssumption DEF Plain
<1>1. /\ n \in Nat \ {0} /\ n2 \in Nat \ {0} /\ R \in {n, n2} /\ n <= R /\ n2 <= R
      /\ R \in Nat \ {0}
  <2>1. 0 \in 0 .. Len(text)
    BY <1>0
  <2>2. n \in 1 .. R /\ n2 \in 1 .. R /\ R \in {n, n2} /\ R \in Nat \ {0}
    BY <1>0, <2>1, SweptLemma
  <2> HIDE DEF n, n2, R
  <2> QED BY <2>2
<1>2. s = Start(t0, a, c) /\ s \in 1 .. Height
  <2>1. IsTerm(t0)
    BY DEF Tidy
  <2>2. s \in 1 .. Height /\ s = IF t.row > screen_row(a, c) THEN t.row - screen_row(a, c) ELSE 1
    BY StartLemma
  <2>3. Start(t0, a, c) = IF t0.row > screen_row(a, c) THEN t0.row - screen_row(a, c) ELSE 1
    BY <2>1, StartLemma
  <2> QED BY <2>2, <2>3
<1>3. /\ n <= Height => s + n - 1 <= Height
      /\ n > Height => s = 1
  BY <1>2 DEF Tidy, Placed
<1>4. Empty(t0, s + n)
  BY <1>2 DEF Tidy
<1> HIDE DEF n, n2, R, s
<1>5. ASSUME n2 <= Height PROVE s <= Landed(s, R) + n2
  BY <1>0, <1>1, <1>2, <1>3, <1>5, AgainLands
<1>6. Empty(t, s + R)
  <2>1. ASSUME NEW k \in 1 .. Height, k >= s + R PROVE t.rows[k] = <<>>
    <3>1. k >= s + n
      BY <1>1, <1>2, <2>1
    <3> QED BY <1>4, <3>1 DEF Empty
  <2> QED BY <2>1 DEF Empty
<1> QED BY <1>5, <1>6 DEF Drawable, n2, R, s

(***************************************************************************)
(* A line is entered: the terminal goes down, and prints.                  *)
(***************************************************************************)
\* u is t some rows lower, up to j, or scrolled: K rows less.
Lower(t, u, j, K) ==
    /\ u.row = t.row + j - K
    /\ \A e \in Nat : e >= t.row /\ Empty(t, e + 1) => Empty(u, e + 1 + j - K)

LEMMA NewLineLower ==
    ASSUME NEW t, IsTerm(t), RowsOK(t)
    PROVE  /\ IsTerm(NewLine(t)) /\ RowsOK(NewLine(t))
           /\ \E k \in 0 .. 1 :
                /\ NewLine(t).row = t.row + 1 - k
                /\ \A e \in Nat : Empty(t, e + 1) => Empty(NewLine(t), e + 1 - k)
<1> DEFINE u == NewLine(t)
<1>1. IsTerm(u) /\ RowsOK(u) /\ NewLined(t, u)
  BY NewLineRows
<1> HIDE DEF u
<1>2. PICK k \in 0 .. 1 :
        /\ u.row = t.row + 1 - k
        /\ \A r \in 1 .. Height : u.rows[r] = IF r + k <= Height THEN t.rows[r + k] ELSE <<>>
  BY <1>1 DEF NewLined
<1>3. ASSUME NEW e \in Nat, Empty(t, e + 1) PROVE Empty(u, e + 1 - k)
  <2>1. ASSUME NEW r \in 1 .. Height, r >= e + 1 - k PROVE u.rows[r] = <<>>
    <3>1. CASE r + k <= Height
      <4>1. r + k \in 1 .. Height /\ r + k >= e + 1
        BY <2>1, <3>1
      <4> QED BY <1>2, <1>3, <3>1, <4>1 DEF Empty
    <3>2. CASE ~(r + k <= Height)
      BY <1>2, <3>2
    <3> QED BY <3>1, <3>2
  <2> QED BY <2>1 DEF Empty
<1> QED BY <1>1, <1>2, <1>3 DEF u

LEMMA BegunEmpty ==
    ASSUME NEW t, IsTerm(t), RowsOK(t), NEW r \in Int, r > t.row, Empty(t, r)
    PROVE  Empty(Begun(t), r)
<1>1. \A k \in 1 .. Height : k # t.row => Begun(t).rows[k] = t.rows[k]
  BY BegunRows
<1>2. t.row \in 1 .. Height
  BY DEF IsTerm
<1>3. ASSUME NEW k \in 1 .. Height, k >= r PROVE Begun(t).rows[k] = <<>>
  <2>1. k # t.row
    BY <1>2, <1>3
  <2> QED BY <1>1, <1>3, <2>1 DEF Empty
<1> QED BY <1>3 DEF Empty

\* The row of output that a command prints, and the new line.
Row(t) == [Begun(t) EXCEPT !.due = t.due + 1]

LEMMA RowTerm ==
    ASSUME NEW t, IsTerm(t), RowsOK(t)
    PROVE  /\ IsTerm(Row(t)) /\ RowsOK(Row(t)) /\ Row(t).row = t.row
           /\ Row(t).rows = Begun(t).rows /\ Row(t).due = t.due + 1
<1>1. IsTerm(Begun(t)) /\ RowsOK(Begun(t)) /\ Begun(t).row = t.row /\ t.due \in Int
  BY BegunRows DEF RowsOK
<1>2. /\ DOMAIN Row(t) = {"rows", "row", "col", "due"} /\ Row(t).rows = Begun(t).rows
      /\ Row(t).due = t.due + 1 /\ Row(t).row = Begun(t).row
  BY <1>1 DEF Row, IsTerm
<1>3. DOMAIN Row(t).rows = 1 .. Height /\ t.due + 1 \in Int
  BY <1>1, <1>2 DEF RowsOK
<1>4. RowsOK(Row(t))
  BY <1>1, <1>2, <1>3 DEF RowsOK
<1> QED BY <1>1, <1>2, <1>4 DEF IsTerm

LEMMA PrintsAs ==
    ASSUME NEW t, NEW row, NEW more
    PROVE  Prints(t, row, more) = LET p == IF row THEN NewLine(Row(t)) ELSE t
                                  IN  IF more THEN Begun(p) ELSE p
  BY DEF Prints, Row

LEMMA DoneLower ==
    ASSUME NEW t, IsTerm(t), RowsOK(t), NEW row \in BOOLEAN, NEW more \in BOOLEAN,
           NEW j \in 1 .. 2, j = IF row THEN 2 ELSE 1
    PROVE  /\ IsTerm(Prints(NewLine(t), row, more)) /\ RowsOK(Prints(NewLine(t), row, more))
           /\ \E K \in 0 .. j : Lower(t, Prints(NewLine(t), row, more), j, K)
<1> DEFINE u == NewLine(t)
           v == NewLine(Row(u))
           p == IF row THEN v ELSE u
<1>0. t.row \in Nat
  BY DEF IsTerm
<1>1. /\ IsTerm(u) /\ RowsOK(u)
      /\ \E k \in 0 .. 1 : /\ u.row = t.row + 1 - k
                           /\ \A e \in Nat : Empty(t, e + 1) => Empty(u, e + 1 - k)
  BY NewLineLower
<1>2. PICK k \in 0 .. 1 : /\ u.row = t.row + 1 - k
                          /\ \A e \in Nat : Empty(t, e + 1) => Empty(u, e + 1 - k)
  BY <1>1
<1> HIDE DEF u
<1>3. /\ IsTerm(Row(u)) /\ RowsOK(Row(u)) /\ Row(u).row = u.row
      /\ \A r \in Int : r > u.row /\ Empty(u, r) => Empty(Row(u), r)
  <2>1. /\ IsTerm(Row(u)) /\ RowsOK(Row(u)) /\ Row(u).row = u.row /\ Row(u).rows = Begun(u).rows
    BY <1>1, RowTerm
  <2>2. \A r \in Int : r > u.row /\ Empty(u, r) => Empty(Begun(u), r)
    BY <1>1, BegunEmpty
  <2> QED BY <2>1, <2>2 DEF Empty
<1>4. /\ IsTerm(v) /\ RowsOK(v)
      /\ \E m \in 0 .. 1 : /\ v.row = u.row + 1 - m
                           /\ \A e \in Nat : Empty(Row(u), e + 1) => Empty(v, e + 1 - m)
  BY <1>3, NewLineLower
<1>5. PICK m \in 0 .. 1 : /\ v.row = u.row + 1 - m
                          /\ \A e \in Nat : Empty(Row(u), e + 1) => Empty(v, e + 1 - m)
  BY <1>4
<1> HIDE DEF v
<1>6. IsTerm(p) /\ RowsOK(p)
  BY <1>1, <1>4
<1>7. \E K \in 0 .. j : Lower(t, p, j, K)
  <2>1. CASE ~row
    <3>1. ASSUME NEW e \in Nat, e >= t.row, Empty(t, e + 1) PROVE Empty(u, e + 1 + 1 - k)
      <4>1. Empty(u, e + 1 - k)
        BY <1>2, <3>1
      <4> QED BY <4>1 DEF Empty
    <3>2. Lower(t, u, 1, k)
      BY <1>2, <3>1 DEF Lower
    <3> QED BY <2>1, <3>2
  <2>2. CASE row
    <3>0. k + m \in 0 .. 2
      OBVIOUS
    <3>1. ASSUME NEW e \in Nat, e >= t.row, Empty(t, e + 1)
          PROVE  Empty(v, e + 1 + 2 - (k + m))
      <4>1. Empty(u, e + 1 - k)
        BY <1>2, <3>1
      <4>2. Empty(u, e + 2 - k)
        BY <4>1 DEF Empty
      <4>3. e + 2 - k \in Int /\ e + 2 - k > u.row
        BY <1>0, <1>2, <3>1
      <4>4. Empty(Row(u), e + 2 - k)
        BY <1>3, <4>2, <4>3
      <4>5. e + 1 - k \in Nat /\ (e + 1 - k) + 1 = e + 2 - k
        BY <3>1
      <4>6. Empty(Row(u), (e + 1 - k) + 1)
        BY <4>4, <4>5
      <4>7. Empty(v, (e + 1 - k) + 1 - m)
        BY <1>5, <4>5, <4>6
      <4> QED BY <4>7 DEF Empty
    <3>2. v.row = t.row + 2 - (k + m)
      BY <1>0, <1>2, <1>5
    <3>3. Lower(t, v, 2, k + m)
      BY <3>1, <3>2 DEF Lower
    <3> QED BY <2>2, <3>0, <3>3
  <2> QED BY <2>1, <2>2
<1>8. Prints(u, row, more) = IF more THEN Begun(p) ELSE p
  BY PrintsAs DEF v
<1> HIDE DEF p
<1>9. IsTerm(Begun(p)) /\ RowsOK(Begun(p)) /\ Begun(p).row = p.row
  BY <1>6, BegunRows
<1>10. PICK K \in 0 .. j : Lower(t, p, j, K)
  BY <1>7
<1>11. Lower(t, Begun(p), j, K)
  <2>1. p.row = t.row + j - K
    BY <1>10 DEF Lower
  <2>2. ASSUME NEW e \in Nat, e >= t.row, Empty(t, e + 1) PROVE Empty(Begun(p), e + 1 + j - K)
    <3>1. Empty(p, e + 1 + j - K)
      BY <1>10, <2>2 DEF Lower
    <3>2. e + 1 + j - K \in Int /\ e + 1 + j - K > p.row
      BY <1>0, <2>1, <2>2
    <3> QED BY <1>6, <3>1, <3>2, BegunEmpty
  <2> QED BY <1>9, <2>1, <2>2 DEF Lower
<1> QED BY <1>6, <1>8, <1>9, <1>10, <1>11 DEF u

\* The line is drawn over itself and entered, and what it printed is drawn over.
LEMMA DoneDrawable ==
    ASSUME NEW t, NEW w \in Nat, NEW a \in 0 .. w, NEW c \in Nat \ {0}, NEW st0, Tidy(t, w, a, c, st0),
           LET n == screen_rows(w, c)  back == n - 1 - screen_row(a, c)
           IN  n > Height => t.row = IF Height > back THEN Height - back ELSE 1,
           NEW row \in BOOLEAN, NEW more \in BOOLEAN,
           NEW st, ~st => ~st0 /\ (row => screen_row(a, c) + 1 >= screen_row(w, c)),
           NEW text, Plain(text)
    PROVE  /\ IsTerm(Prints(NewLine(Entered(t)), row, more))
           /\ RowsOK(Prints(NewLine(Entered(t)), row, more))
           /\ st \/ Drawable(Prints(NewLine(Entered(t)), row, more), text, c, w, a)
<1> DEFINE e == Entered(t)
           u == Prints(NewLine(e), row, more)
           n == screen_rows(w, c)
           n2 == screen_rows(Len(text), c)
           R == Swept(text, c, w)
           s == Start(t, a, c)
           s0 == Start(u, a, c)
           b == screen_row(a, c)
           p == t.row
           q == u.row
           j == IF row THEN 2 ELSE 1
<1>0. Height \in Nat \ {0} /\ Len(text) \in Nat /\ a \in Nat
  BY RenderAssumption DEF Plain
<1>1. IsTerm(t) /\ RowsOK(t) /\ Placed(t, w, a, c)
  BY DEF Tidy
<1>2. /\ IsTerm(e) /\ RowsOK(e) /\ e.row = p
      /\ \A r \in 1 .. Height : t.rows[r] = <<>> => e.rows[r] = <<>>
  BY <1>1, EnteredRows
<1> HIDE DEF e
<1>3. j \in 1 .. 2
  OBVIOUS
<1>4. IsTerm(u) /\ RowsOK(u) /\ \E K \in 0 .. j : Lower(e, u, j, K)
  BY <1>2, <1>3, DoneLower
<1>5. PICK K \in 0 .. j : Lower(e, u, j, K)
  BY <1>4
<1> HIDE DEF u
<1>6. /\ n \in Nat \ {0} /\ n2 \in Nat \ {0} /\ R \in {n, n2} /\ n <= R /\ n2 <= R
      /\ R \in Nat \ {0}
  <2>1. 0 \in 0 .. Len(text)
    BY <1>0
  <2>2. n \in 1 .. R /\ n2 \in 1 .. R /\ R \in {n, n2} /\ R \in Nat \ {0}
    BY <1>0, <2>1, SweptLemma
  <2> HIDE DEF n, n2, R
  <2> QED BY <2>2
<1>7. b \in 0 .. n - 1 /\ n = screen_row(w, c) + 1
  <2>1. b \in Nat /\ screen_row(w, c) \in Nat /\ n = screen_row(w, c) + 1
    <3>1. b \in Nat
      BY <1>0, RowsLemma
    <3>2. screen_row(w, c) \in Nat /\ n = screen_row(w, c) + 1
      BY RowsLemma
    <3> QED BY <3>1, <3>2
  <2>2. b <= screen_row(w, c)
    BY <1>0, CursorRow
  <2> HIDE DEF b, n
  <2> QED BY <2>1, <2>2
<1>8. s \in 1 .. Height /\ s0 = IF q > b THEN q - b ELSE 1
  BY <1>0, <1>1, <1>4, StartLemma
<1>9. s0 \in 1 .. Height /\ p \in 1 .. Height /\ q \in 1 .. Height
  BY <1>0, <1>1, <1>4, StartLemma DEF IsTerm
<1>10. /\ n <= Height => s + n - 1 <= Height /\ p = s + b
       /\ n > Height => s = 1 /\ p = IF Height > n - 1 - b THEN Height - (n - 1 - b) ELSE 1
  BY <1>1 DEF Placed
<1>11. q = p + j - K
  BY <1>2, <1>5 DEF Lower
<1>12. ~st => /\ j = 2 => b + 1 >= n - 1
              /\ Empty(t, s + n)
  <2>1. ~st => Empty(t, s + n)
    BY DEF Tidy
  <2>2. ASSUME ~st, row PROVE b + 1 >= n - 1
    <3>1. b + 1 >= screen_row(w, c)
      BY <2>2
    <3>2. screen_row(w, c) = n - 1
      <4>1. screen_row(w, c) \in Nat
        BY RowsLemma
      <4> HIDE DEF n
      <4> QED BY <1>7, <4>1
    <3> QED BY <3>1, <3>2
  <2> QED BY <2>1, <2>2
<1>13. ASSUME ~st, n2 <= Height
       PROVE  /\ s0 <= Landed(s0, R) + n2
              /\ n <= Height => s0 = s + j - K
  <2>1. j = 2 => b + 1 >= n - 1
    BY <1>12, <1>13
  <2> HIDE DEF n, n2, R, s, s0, b, p, q, j
  <2>2. /\ Height \in Nat \ {0} /\ n \in Nat \ {0} /\ n2 \in Nat \ {0} /\ n2 <= Height
        /\ R \in {n, n2} /\ n <= R /\ n2 <= R /\ b \in 0 .. n - 1
    BY <1>0, <1>6, <1>7, <1>13
  <2>3. s \in 1 .. Height /\ p \in 1 .. Height /\ q \in 1 .. Height
    BY <1>8, <1>9
  <2>4. /\ j \in 1 .. 2 /\ K \in 0 .. j /\ q = p + j - K /\ (j = 2 => b + 1 >= n - 1)
        /\ s0 = IF q > b THEN q - b ELSE 1
    BY <1>3, <1>8, <1>11, <2>1
  <2>5. CASE n <= Height
    <3>1. s0 = s + j - K
      BY <1>10, <2>2, <2>3, <2>4, <2>5
    <3>2. CASE s0 + R - 1 <= Height
      BY <2>2, <2>3, <2>4, <2>5, <3>1, <3>2 DEF Landed
    <3>3. CASE ~(s0 + R - 1 <= Height)
      <4>1. R <= Height /\ Landed(s0, R) = Height - R + 1
        BY <2>2, <2>3, <2>4, <2>5, <3>1, <3>3 DEF Landed
      <4>2. CASE R = n2
        BY <2>2, <2>3, <2>4, <3>1, <4>1, <4>2
      <4>3. CASE R = n
        <5>1. s + n - 1 <= Height - 1 + K \/ j = 1
          BY <1>10, <2>2, <2>3, <2>4, <2>5
        <5> QED BY <1>10, <2>2, <2>3, <2>4, <2>5, <3>1, <4>1, <4>3, <5>1
      <4> QED BY <2>2, <4>2, <4>3
    <3>4. s0 + R - 1 <= Height \/ ~(s0 + R - 1 <= Height)
      OBVIOUS
    <3>5. s0 <= Landed(s0, R) + n2
      BY <3>2, <3>3, <3>4
    <3> QED BY <3>1, <3>5
  <2>6. CASE n > Height
    <3>1. R = n /\ R > Height
      BY <2>2, <2>6
    <3>2. s0 >= 1 /\ s0 <= 2
      BY <1>10, <2>2, <2>3, <2>4, <2>6
    <3>3. Landed(s0, R) = 1
      BY <2>2, <2>3, <2>4, <3>1, <3>2 DEF Landed
    <3>4. s0 <= Landed(s0, R) + n2
      BY <2>2, <2>4, <3>2, <3>3
    <3> QED BY <2>2, <2>6, <3>4
  <2> QED BY <2>2, <2>5, <2>6
<1>14. ASSUME ~st, n2 <= Height PROVE Empty(u, s0 + R)
  <2>1. CASE n <= Height
    <3> DEFINE end == s + n - 1
    <3>1. end \in Nat /\ end >= e.row /\ end + 1 = s + n
      <4> HIDE DEF n, s, b, p
      <4> QED BY <1>2, <1>6, <1>7, <1>8, <1>10, <2>1
    <3>2. Empty(e, end + 1)
      BY <1>2, <1>12, <1>14, <3>1 DEF Empty
    <3> HIDE DEF end
    <3>3. Empty(u, end + 1 + j - K)
      BY <1>5, <3>1, <3>2 DEF Lower
    <3>4. end + 1 + j - K <= s0 + R
      <4> HIDE DEF n, n2, R, s, s0, b, p, q, j
      <4>1. s0 = s + j - K /\ n <= R
        BY <1>6, <1>13, <1>14, <2>1
      <4> QED BY <1>3, <1>6, <1>8, <3>1, <4>1
    <3>5. end + 1 + j - K \in Int /\ s0 + R \in Int
      <4> HIDE DEF n, n2, R, s, s0, b, p, q, j
      <4> QED BY <1>3, <1>6, <1>9, <3>1
    <3> HIDE DEF s0, R, j
    <3> QED BY <3>3, <3>4, <3>5 DEF Empty
  <2>2. CASE n > Height
    <3>1. ASSUME NEW k \in 1 .. Height PROVE ~(k >= s0 + R)
      <4> HIDE DEF n, n2, R, s, s0
      <4> QED BY <1>0, <1>6, <1>9, <2>2
    <3> QED BY <3>1 DEF Empty
  <2>3. n \in Nat /\ Height \in Nat
    <3> HIDE DEF n
    <3> QED BY <1>0, <1>6
  <2> HIDE DEF n
  <2> QED BY <2>1, <2>2, <2>3
<1> QED BY <1>4, <1>13, <1>14 DEF Drawable, u, e, n2, R, s0

-----------------------------------------------------------------------------
(***************************************************************************)
(* The invariant of the screen                                             *)
(***************************************************************************)
SInv ==
    /\ cols \in Widths /\ prompt \in Prompts
    /\ last_render_width = Len(prompt) + Len(data)
    /\ last_render_cursor_width = Len(prompt) + index
    /\ Tidy(term, last_render_width, last_render_cursor_width, cols, stray)

\* The line with the prompt, and the cursor in it.
LEMMA LineLemma ==
    ASSUME NEW p \in Prompts, NEW line \in Line, NEW i \in 0 .. Len(line)
    PROVE  /\ Plain(p \o line) /\ Len(p \o line) = Len(p) + Len(line)
           /\ Len(p) \in Nat /\ Len(line) \in Nat /\ Len(p \o line) \in Nat
           /\ Len(p) + i \in 0 .. Len(p \o line)
<1>1. Len(line) \in Nat
  BY DEF Line
<1>2. Len(p) \in Nat
  BY RenderAssumption
<1>3. Plain(p \o line) /\ Len(p \o line) = Len(p) + Len(line)
  BY TextPlain
<1> QED BY <1>1, <1>2, <1>3

LEMMA EditorTypes == ASSUME IInv PROVE data \in Line /\ index \in 0 .. Len(data)
  BY DEF IInv, TypeOK, InRange, Line

LEMMA RestStep ==
    ASSUME IInv', NEW t, IsTerm(t), RowsOK(t), NEW width \in Nat, NEW at \in Nat,
           cols' \in Widths, prompt' \in Prompts,
           render_input(t, data', index', width, at),
           stray' \/ Drawable(t, prompt' \o data', cols', width, at)
    PROVE  /\ SInv'
           /\ DrawnOn(t, term', prompt' \o data', Len(prompt') + index', cols', width, at)
<1>1. /\ Plain(prompt' \o data') /\ Len(prompt' \o data') = Len(prompt') + Len(data')
      /\ Len(prompt') + index' \in 0 .. Len(prompt' \o data')
  <2>1. data' \in Line /\ index' \in 0 .. Len(data')
    BY DEF IInv, TypeOK, InRange, Line
  <2> QED BY <2>1, LineLemma
<1>2. cols' \in Nat \ {0}
  BY RenderAssumption
<1> DEFINE text == prompt' \o data'
           cursor == Len(prompt') + index'
           c == cols'
           st == stray'
<1>3. /\ term' = Drawn(t, text, cursor, c, width, at)
      /\ last_render_width' = Len(text) /\ last_render_cursor_width' = cursor
  BY <1>1 DEF render_input
<1> HIDE DEF text, cursor, c, st
<1>4. /\ DrawnOn(t, Drawn(t, text, cursor, c, width, at), text, cursor, c, width, at)
      /\ Tidy(Drawn(t, text, cursor, c, width, at), Len(text), cursor, c, st)
  BY <1>1, <1>2, TidyDrawn DEF text, cursor, c, st
<1>5. Tidy(term', last_render_width', last_render_cursor_width', cols', stray')
  BY <1>3, <1>4 DEF c, st
<1>6. DrawnOn(t, term', text, cursor, c, width, at)
  BY <1>3, <1>4
<1>7. /\ last_render_width' = Len(prompt') + Len(data')
      /\ last_render_cursor_width' = Len(prompt') + index'
  BY <1>1, <1>3 DEF text, cursor
<1> QED BY <1>5, <1>6, <1>7 DEF SInv, text, cursor, c

\* A text on one row is as well remembered as no text at all, and by any columns that
\* leave it on one row.
LEMMA OneRowTidy ==
    ASSUME NEW t, NEW w \in Nat, NEW a \in 0 .. w, NEW c \in Nat \ {0}, w < c,
           Tidy(t, w, a, c, FALSE),
           NEW w2 \in Nat, NEW a2 \in 0 .. w2, NEW c2 \in Nat \ {0}, w2 < c2
    PROVE  Tidy(t, w2, a2, c2, FALSE)
<1>1. ASSUME NEW v \in Nat, NEW b \in 0 .. v, NEW d \in Nat \ {0}, v < d
      PROVE  screen_rows(v, d) = 1 /\ screen_row(b, d) = 0
  <2>1. b \in Nat /\ b < d
    BY <1>1
  <2>2. screen_row(b, d) = 0
    BY <2>1, RowsLemma
  <2>3. screen_row(v, d) = 0 /\ screen_rows(v, d) = screen_row(v, d) + 1
    BY <1>1, RowsLemma
  <2> QED BY <2>2, <2>3
<1>2. /\ screen_rows(w, c) = 1 /\ screen_row(a, c) = 0
      /\ screen_rows(w2, c2) = 1 /\ screen_row(a2, c2) = 0
  BY <1>1
<1>3. IsTerm(t) /\ t.row \in 1 .. Height /\ Height \in Nat \ {0}
  BY RenderAssumption DEF Tidy, IsTerm
<1>4. a \in Nat /\ a2 \in Nat
  OBVIOUS
<1>5. Start(t, a, c) = t.row
  <2>1. Start(t, a, c) = IF t.row > screen_row(a, c) THEN t.row - screen_row(a, c) ELSE 1
    BY <1>3, <1>4, StartLemma
  <2> QED BY <1>2, <1>3, <2>1
<1>6. Start(t, a2, c2) = t.row
  <2>1. Start(t, a2, c2) = IF t.row > screen_row(a2, c2) THEN t.row - screen_row(a2, c2) ELSE 1
    BY <1>3, <1>4, StartLemma
  <2> QED BY <1>2, <1>3, <2>1
<1>7. Placed(t, w2, a2, c2)
  BY <1>2, <1>3, <1>6 DEF Placed
<1> QED BY <1>2, <1>5, <1>6, <1>7 DEF Tidy

LEMMA FirstTidy ==
    ASSUME NEW r \in 1 .. Height, NEW c \in Nat \ {0}, NEW t,
           t = [rows |-> [s \in 1 .. Height |-> IF s < r THEN <<Output>> ELSE <<>>],
                row |-> r, col |-> 0, due |-> r - 1]
    PROVE  Tidy(t, 0, 0, c, FALSE)
<1>1. Height \in Nat \ {0}
  BY RenderAssumption
<1>2. IsTerm(t) /\ t.row = r
  BY DEF IsTerm
<1>3. /\ DOMAIN t.rows = 1 .. Height /\ t.due \in Int
      /\ \A k \in 1 .. Height : t.rows[k] = IF k < r THEN <<Output>> ELSE <<>>
  BY <1>1
<1>4. RowsOK(t)
  BY <1>3, EmptyMarked DEF RowsOK
<1>5. screen_row(0, c) = 0 /\ screen_rows(0, c) = 1
  <2>1. PICK z \in Nat : z = 0
    OBVIOUS
  <2>2. /\ screen_row(z, c) \in Nat /\ screen_rows(z, c) = screen_row(z, c) + 1
        /\ screen_row(z, c) = 0 <=> z < c
    BY RowsLemma
  <2> QED BY <2>1, <2>2
<1>6. Start(t, 0, c) = r
  <2>1. Start(t, 0, c) = IF t.row > screen_row(0, c) THEN t.row - screen_row(0, c) ELSE 1
    BY <1>2, StartLemma
  <2> QED BY <1>1, <1>2, <1>5, <2>1
<1>7. Placed(t, 0, 0, c)
  BY <1>1, <1>2, <1>5, <1>6 DEF Placed
<1>8. Empty(t, r + 1)
  <2>1. \A k \in 1 .. Height : k >= r + 1 => ~(k < r)
    BY <1>1
  <2> QED BY <1>3, <2>1 DEF Empty
<1>9. Bare(t, r)
  <2>1. \A k \in 1 .. Height : k >= r => ~(k < r)
    BY <1>1
  <2> QED BY <1>3, <2>1, EmptyMarked DEF Bare, Plain
<1> QED BY <1>2, <1>4, <1>5, <1>6, <1>7, <1>8, <1>9 DEF Tidy

LEMMA RestInit == ESInit /\ IInv => SInv
<1> SUFFICES ASSUME ESInit, IInv PROVE SInv
  OBVIOUS
<1>1. /\ cols \in Nat \ {0} /\ prompt \in Seq(STRING) /\ Len(prompt) \in Nat
      /\ cols \in Widths /\ prompt \in Prompts /\ Height \in Nat \ {0}
  BY RenderAssumption DEF ESInit, RenderInit
<1>2. PICK r \in 1 .. Height :
         term = Drawn([rows |-> [s \in 1 .. Height |-> IF s < r THEN <<Output>> ELSE <<>>],
                       row |-> r, col |-> 0, due |-> r - 1],
                      prompt, Len(prompt), cols, 0, 0)
  BY DEF ESInit, RenderInit
<1> DEFINE first == [rows |-> [s \in 1 .. Height |-> IF s < r THEN <<Output>> ELSE <<>>],
                     row |-> r, col |-> 0, due |-> r - 1]
<1>3. term = Drawn(first, prompt, Len(prompt), cols, 0, 0)
  BY <1>2
<1>4. Tidy(first, 0, 0, cols, FALSE)
  <2>1. PICK f : f = first
    OBVIOUS
  <2>2. Tidy(f, 0, 0, cols, FALSE)
    BY <1>1, <2>1, FirstTidy
  <2> QED BY <2>1, <2>2
<1> HIDE DEF first
<1>5. data = <<>> /\ index = 0 /\ stray = FALSE
  BY DEF ESInit, Init
<1>6. Plain(prompt) /\ Len(prompt) \in 0 .. Len(prompt)
  <2>1. \A i \in DOMAIN prompt : prompt[i] # Output
    BY <1>1, OutputAssumption
  <2>2. prompt \in Seq(Cell)
    BY <1>1 DEF Cell
  <2> QED BY <1>1, <2>1, <2>2 DEF Plain, IsOutput
<1>7. IsTerm(first) /\ RowsOK(first)
  BY <1>4 DEF Tidy
<1>8. Drawable(first, prompt, cols, 0, 0)
  BY <1>1, <1>4, <1>6, <1>7, AgainLemma
<1>9. Tidy(term, Len(prompt), Len(prompt), cols, FALSE)
  BY <1>1, <1>3, <1>6, <1>7, <1>8, TidyDrawn
<1>10. last_render_width = Len(prompt) /\ last_render_cursor_width = Len(prompt)
  BY DEF ESInit, RenderInit
<1>11. Len(prompt) + Len(data) = Len(prompt) /\ Len(prompt) + index = Len(prompt)
  <2>1. Len(data) = 0
    BY <1>5
  <2> QED BY <1>1, <1>5, <2>1
<1> QED BY <1>1, <1>5, <1>9, <1>10, <1>11 DEF SInv

\* What the invariant says of the state before a step.
LEMMA SInvFacts ==
    ASSUME IInv, SInv
    PROVE  /\ cols \in Nat \ {0} /\ NowRows
           /\ last_render_width \in Nat /\ last_render_cursor_width \in 0 .. last_render_width
           /\ last_render_cursor_width \in Nat
           /\ Plain(prompt \o data) /\ Len(prompt \o data) = last_render_width
           /\ Tidy(term, last_render_width, last_render_cursor_width, cols, stray)
<1>1. cols \in Nat \ {0} /\ prompt \in Prompts
  BY RenderAssumption DEF SInv
<1>2. /\ Plain(prompt \o data) /\ Len(prompt \o data) = Len(prompt) + Len(data)
      /\ Len(prompt) \in Nat /\ Len(data) \in Nat /\ index \in 0 .. Len(data)
  BY <1>1, LineLemma, EditorTypes
<1>3. /\ last_render_width = Len(prompt) + Len(data)
      /\ last_render_cursor_width = Len(prompt) + index
      /\ Tidy(term, last_render_width, last_render_cursor_width, cols, stray)
  BY DEF SInv
<1>4. NowRows
  BY <1>3, NowLemma DEF Tidy
<1> QED BY <1>1, <1>2, <1>3, <1>4

LEMMA NextPlain ==
    ASSUME IInv', prompt' \in Prompts
    PROVE  Plain(prompt' \o data')
<1>1. data' \in Line /\ index' \in 0 .. Len(data')
  BY DEF IInv, TypeOK, InRange, Line
<1> QED BY <1>1, LineLemma

\* What is drawn by a step, on t, over a text of that width.
Draws(t, width, at) ==
    DrawnOn(t, term', prompt' \o data', Len(prompt') + index', cols', width, at)

LEMMA KeyRests ==
    ASSUME IInv, IInv', SInv, Key
    PROVE  SInv' /\ Draws(Now, last_render_width, last_render_cursor_width)
<1>1. /\ prompt' = prompt /\ cols' = cols /\ stray' = stray
      /\ render_input(Now, data', index', last_render_width, last_render_cursor_width)
  BY DEF Key, Redrawn
<1>2. /\ cols \in Nat \ {0} /\ NowRows
      /\ last_render_width \in Nat /\ last_render_cursor_width \in Nat
      /\ Tidy(term, last_render_width, last_render_cursor_width, cols, stray)
  BY SInvFacts
<1>3. cols' \in Widths /\ prompt' \in Prompts
  BY <1>1 DEF SInv
<1>4. Plain(prompt' \o data')
  BY <1>3, NextPlain
<1>6. /\ IsTerm(Now) /\ RowsOK(Now) /\ Now.row = term.row
      /\ \A r \in 1 .. Height : term.rows[r] = <<>> => Now.rows[r] = <<>>
  BY <1>2 DEF NowRows
<1>5. stray \/ Drawable(Now, prompt' \o data', cols, last_render_width, last_render_cursor_width)
  <2>1. CASE stray
    BY <2>1
  <2>2. CASE ~stray
    <3>1. Tidy(term, last_render_width, last_render_cursor_width, cols, FALSE)
      BY <1>2, <2>2 DEF Tidy
    <3>2. Drawable(Now, prompt' \o data', cols, last_render_width, last_render_cursor_width)
      BY <1>2, <1>4, <1>6, <3>1, AgainLemma
    <3> QED BY <3>2
  <2> QED BY <2>1, <2>2
<1> QED BY <1>1, <1>2, <1>3, <1>5, <1>6, RestStep DEF Draws

\* With the line on one row, by the columns of before and by those of now, the row where it
\* begins is no other for them.
LEMMA ResizeTidy ==
    ASSUME IInv, SInv, NEW c \in Widths, Resize(c), ~stray'
    PROVE  /\ ~stray /\ last_render_width < c /\ last_render_width < cols
           /\ Tidy(term, last_render_width, last_render_cursor_width, c, FALSE)
<1>1. /\ cols \in Nat \ {0} /\ c \in Nat \ {0}
      /\ last_render_width \in Nat /\ last_render_cursor_width \in Nat
      /\ last_render_cursor_width \in 0 .. last_render_width
      /\ Tidy(term, last_render_width, last_render_cursor_width, cols, stray)
  BY SInvFacts, RenderAssumption
<1>2. ~stray /\ ~(screen_rows(last_render_width, Smaller(c, cols)) > 1)
  BY DEF Resize
<1>3. last_render_width < Smaller(c, cols)
  <2>1. PICK m \in Nat \ {0} : m = Smaller(c, cols)
    BY <1>1 DEF Smaller
  <2>2. /\ screen_row(last_render_width, m) \in Nat
        /\ screen_rows(last_render_width, m) = screen_row(last_render_width, m) + 1
        /\ screen_row(last_render_width, m) = 0 <=> last_render_width < m
    BY <1>1, RowsLemma
  <2> QED BY <1>2, <2>1, <2>2
<1>4. last_render_width < c /\ last_render_width < cols
  BY <1>1, <1>3 DEF Smaller
<1>5. Tidy(term, last_render_width, last_render_cursor_width, cols, FALSE)
  BY <1>1, <1>2 DEF Tidy
<1>6. Tidy(term, last_render_width, last_render_cursor_width, c, FALSE)
  BY <1>1, <1>4, <1>5, OneRowTidy
<1> QED BY <1>2, <1>4, <1>6

LEMMA ResizeRests ==
    ASSUME IInv, IInv', SInv, NEW c \in Widths, Resize(c)
    PROVE  SInv' /\ Draws(Cut(Now, c), last_render_width, last_render_cursor_width)
<1>1. /\ prompt' = prompt /\ cols' = c
      /\ stray' = (stray \/ screen_rows(last_render_width, Smaller(c, cols)) > 1)
      /\ render_input(Cut(Now, c), data', index', last_render_width, last_render_cursor_width)
  BY DEF Resize, Redrawn
<1>2. /\ cols \in Nat \ {0} /\ NowRows
      /\ last_render_width \in Nat /\ last_render_cursor_width \in Nat
      /\ last_render_cursor_width \in 0 .. last_render_width
      /\ Tidy(term, last_render_width, last_render_cursor_width, cols, stray)
  BY SInvFacts
<1>3. cols' \in Widths /\ prompt' \in Prompts /\ c \in Nat \ {0}
  BY <1>1, RenderAssumption DEF SInv
<1>4. Plain(prompt' \o data')
  BY <1>3, NextPlain
<1>5. /\ IsTerm(Cut(Now, c)) /\ RowsOK(Cut(Now, c)) /\ Cut(Now, c).row = term.row
      /\ \A r \in 1 .. Height : term.rows[r] = <<>> => Cut(Now, c).rows[r] = <<>>
  <2>1. IsTerm(Now) /\ RowsOK(Now) /\ Now.row = term.row /\ Now.rows = term.rows
    BY <1>2 DEF NowRows
  <2> QED BY <1>3, <2>1, CutRows
<1>6. ASSUME ~stray'
      PROVE  Tidy(term, last_render_width, last_render_cursor_width, c, FALSE)
  BY <1>6, ResizeTidy
<1>7. stray' \/ Drawable(Cut(Now, c), prompt' \o data', c, last_render_width,
                         last_render_cursor_width)
  <2>1. CASE stray'
    BY <2>1
  <2>2. CASE ~stray'
    <3>1. Tidy(term, last_render_width, last_render_cursor_width, c, FALSE)
      BY <1>6, <2>2
    <3>2. Drawable(Cut(Now, c), prompt' \o data', c, last_render_width, last_render_cursor_width)
      BY <1>2, <1>3, <1>4, <1>5, <3>1, AgainLemma
    <3> QED BY <3>2
  <2> QED BY <2>1, <2>2
<1> QED BY <1>1, <1>2, <1>3, <1>5, <1>7, RestStep DEF Draws

LEMMA NotWrapped ==
    ASSUME IInv, SInv, ~Wrapped
    PROVE  last_render_width < cols
<1>1. cols \in Nat \ {0} /\ last_render_width \in Nat
  BY SInvFacts
<1>2. /\ screen_row(last_render_width, cols) \in Nat
      /\ screen_rows(last_render_width, cols) = screen_row(last_render_width, cols) + 1
      /\ screen_row(last_render_width, cols) = 0 <=> last_render_width < cols
  BY <1>1, RowsLemma
<1> QED BY <1>2 DEF Wrapped

\* Nor is it for the api that has drawn nothing yet.
LEMMA ReloadTidy ==
    ASSUME IInv, SInv, Reload_Drawn, ~stray'
    PROVE  ~stray /\ last_render_width < cols /\ Tidy(term, 0, 0, cols, FALSE)
<1>1. /\ cols \in Nat \ {0}
      /\ last_render_width \in Nat /\ last_render_cursor_width \in Nat
      /\ last_render_cursor_width \in 0 .. last_render_width
      /\ Tidy(term, last_render_width, last_render_cursor_width, cols, stray)
  BY SInvFacts
<1>2. ~stray /\ ~Wrapped
  BY DEF Reload_Drawn
<1>3. last_render_width < cols
  BY <1>2, NotWrapped
<1>4. 0 \in Nat /\ 0 \in 0 .. 0 /\ 0 < cols
  BY <1>1
<1>5. Tidy(term, last_render_width, last_render_cursor_width, cols, FALSE)
  BY <1>1, <1>2 DEF Tidy
<1>6. Tidy(term, 0, 0, cols, FALSE)
  BY <1>1, <1>3, <1>4, <1>5, OneRowTidy
<1> QED BY <1>2, <1>3, <1>6

LEMMA ReloadRests ==
    ASSUME IInv, IInv', SInv, Reload_Drawn
    PROVE  SInv' /\ Draws(Now, 0, 0)
<1>1. /\ prompt' \in Prompts /\ cols' = cols /\ stray' = (stray \/ Wrapped)
      /\ render_input(Now, data', index', 0, 0)
  BY DEF Reload_Drawn
<1>2. /\ cols \in Nat \ {0} /\ NowRows
      /\ last_render_width \in Nat /\ last_render_cursor_width \in Nat
      /\ last_render_cursor_width \in 0 .. last_render_width
      /\ Tidy(term, last_render_width, last_render_cursor_width, cols, stray)
  BY SInvFacts
<1>3. cols' \in Widths
  BY <1>1 DEF SInv
<1>4. Plain(prompt' \o data')
  BY <1>1, NextPlain
<1>5. ASSUME ~stray' PROVE Tidy(term, 0, 0, cols, FALSE)
  BY <1>5, ReloadTidy
<1>7. /\ IsTerm(Now) /\ RowsOK(Now) /\ Now.row = term.row
      /\ \A r \in 1 .. Height : term.rows[r] = <<>> => Now.rows[r] = <<>>
  BY <1>2 DEF NowRows
<1>6. stray' \/ Drawable(Now, prompt' \o data', cols, 0, 0)
  <2>1. CASE stray'
    BY <2>1
  <2>2. CASE ~stray'
    <3>1. Tidy(term, 0, 0, cols, FALSE) /\ 0 \in Nat
      BY <1>5, <2>2
    <3>2. Drawable(Now, prompt' \o data', cols, 0, 0)
      BY <1>2, <1>4, <1>7, <3>1, AgainLemma
    <3> QED BY <3>2
  <2> QED BY <2>1, <2>2
<1> QED BY <1>1, <1>2, <1>3, <1>6, <1>7, RestStep DEF Draws

\* submit_input's drawing, and what the terminal is when the line has run.
Again == Drawn(Now, prompt \o data, Len(prompt) + index, cols, last_render_width,
               last_render_cursor_width)
Done(row, more) == Prints(NewLine(Entered(Again)), row, more)

LEMMA AgainTidy ==
    ASSUME IInv, SInv
    PROVE  /\ Tidy(Again, last_render_width, last_render_cursor_width, cols, stray)
           /\ DrawnOn(Now, Again, prompt \o data, last_render_cursor_width, cols,
                      last_render_width, last_render_cursor_width)
<1>1. /\ cols \in Nat \ {0} /\ NowRows
      /\ last_render_width \in Nat /\ last_render_cursor_width \in 0 .. last_render_width
      /\ last_render_cursor_width \in Nat
      /\ Plain(prompt \o data) /\ Len(prompt \o data) = last_render_width
      /\ Tidy(term, last_render_width, last_render_cursor_width, cols, stray)
  BY SInvFacts
<1>2. Len(prompt) + index = last_render_cursor_width
  BY DEF SInv
<1> DEFINE text == prompt \o data
           w == last_render_width
           a == last_render_cursor_width
           c == cols
           st == stray
<1>3. Again = Drawn(Now, text, a, c, w, a)
  BY <1>2 DEF Again
<1>4. Plain(text) /\ Len(text) = w /\ a \in 0 .. Len(text) /\ a \in Nat /\ w \in Nat
      /\ c \in Nat \ {0}
  BY <1>1
<1>5. /\ IsTerm(Now) /\ RowsOK(Now) /\ Now.row = term.row
      /\ \A r \in 1 .. Height : term.rows[r] = <<>> => Now.rows[r] = <<>>
  BY <1>1 DEF NowRows
<1>6. ASSUME ~stray PROVE Drawable(Now, text, c, w, a)
  <2>1. Tidy(term, w, a, c, FALSE)
    BY <1>1, <1>6 DEF Tidy
  <2> HIDE DEF text, w, a, c
  <2> QED BY <1>4, <1>5, <2>1, AgainLemma
<1>7. st \/ Drawable(Now, text, c, w, a)
  <2>1. CASE stray
    BY <2>1
  <2>2. CASE ~stray
    BY <1>6, <2>2
  <2> QED BY <2>1, <2>2
<1> HIDE DEF text, w, a, c, st
<1>8. DrawnOn(Now, Again, text, a, c, w, a) /\ Tidy(Again, Len(text), a, c, st)
  BY <1>3, <1>4, <1>5, <1>7, TidyDrawn
<1>9. Tidy(Again, w, a, c, st)
  BY <1>4, <1>8
<1> QED BY <1>8, <1>9 DEF text, w, a, c, st

LEMMA SubmitRests ==
    ASSUME IInv, IInv', SInv, prompt' \in Prompts,
           NEW row \in BOOLEAN, NEW more \in BOOLEAN, Submitted(row, more)
    PROVE  SInv' /\ Draws(Done(row, more), last_render_width, last_render_cursor_width)
<1>1. Len(prompt) + Len(data) = last_render_width /\ Len(prompt) + index = last_render_cursor_width
  BY DEF SInv
<1>2. /\ cols' = cols
      /\ stray' = (stray \/ (row /\ screen_row(last_render_cursor_width, cols) + 1
                                      < screen_row(last_render_width, cols)))
      /\ render_input(Done(row, more), data', index', last_render_width, last_render_cursor_width)
  BY <1>1 DEF Submitted, Done, Again
<1>3. /\ cols \in Nat \ {0}
      /\ last_render_width \in Nat /\ last_render_cursor_width \in Nat
      /\ last_render_cursor_width \in 0 .. last_render_width
      /\ Len(prompt \o data) = last_render_width
  BY SInvFacts
<1>4. cols' \in Widths
  BY <1>2 DEF SInv
<1>5. Plain(prompt' \o data')
  BY NextPlain
<1> DEFINE text == prompt' \o data'
           w == last_render_width
           a == last_render_cursor_width
           c == cols
           st0 == stray
           st == stray'
           n == screen_rows(w, c)
           back == n - 1 - screen_row(a, c)
           done == Done(row, more)
<1>6. /\ Tidy(Again, w, a, c, st0)
      /\ n > Height => Again.row = IF Height > back THEN Height - back ELSE 1
  <2>1. /\ Tidy(Again, w, a, c, st0)
        /\ DrawnOn(Now, Again, prompt \o data, a, c, w, a)
    BY AgainTidy
  <2>2. n = screen_rows(Len(prompt \o data), c)
    BY <1>3
  <2> HIDE DEF n, w, a, c, st0
  <2> QED BY <2>1, <2>2 DEF DrawnOn
<1>7. ~st => ~st0 /\ (row => screen_row(a, c) + 1 >= screen_row(w, c))
  <2> DEFINE x == screen_row(a, c)  y == screen_row(w, c)
  <2>1. x \in Nat /\ y \in Nat
    <3>1. x \in Nat
      BY <1>3, RowsLemma
    <3>2. y \in Nat
      BY <1>3, RowsLemma
    <3> QED BY <3>1, <3>2
  <2>2. stray' = (stray \/ (row /\ x + 1 < y))
    BY <1>2
  <2> HIDE DEF x, y
  <2> SUFFICES ASSUME ~stray' PROVE ~stray /\ (row => x + 1 >= y)
    BY DEF x, y
  <2>3. ~stray /\ ~(row /\ x + 1 < y)
    BY <2>2
  <2> QED BY <2>1, <2>3
<1>8. w \in Nat /\ a \in 0 .. w /\ a \in Nat /\ c \in Nat \ {0} /\ Plain(text)
  BY <1>3, <1>5
<1>9. done = Prints(NewLine(Entered(Again)), row, more)
  BY DEF Done
<1>10. IsTerm(done) /\ RowsOK(done) /\ (st \/ Drawable(done, text, c, w, a))
  <2> HIDE DEF w, a, c, st0, st, done, text
  <2> QED BY <1>6, <1>7, <1>8, <1>9, DoneDrawable
<1>11. /\ IsTerm(done) /\ RowsOK(done)
       /\ stray' \/ Drawable(done, prompt' \o data', cols', w, a)
  BY <1>2, <1>10
<1>12. render_input(done, data', index', w, a)
  BY <1>2
<1> HIDE DEF w, a, done
<1>13. SInv' /\ DrawnOn(done, term', prompt' \o data', Len(prompt') + index', cols', w, a)
  BY <1>4, <1>8, <1>11, <1>12, RestStep
<1> QED BY <1>13 DEF Draws, w, a, done

\* An empty history leaves only the saved line changed, and that is the line.
LEMMA UpUnseenStutters == IInv /\ UpUnseen => UNCHANGED esVars
<1> SUFFICES ASSUME IInv, UpUnseen PROVE UNCHANGED esVars
  OBVIOUS
<1>1. history = <<>> /\ UNCHANGED <<data, index, hindex, history>> /\ current' = Saved
      /\ UNCHANGED <<renderVars, stray>>
  BY DEF UpUnseen, Up
<1>2. hindex \in 0 .. Len(history) /\ ShownAgrees
  BY DEF IInv, InRange
<1>3. hindex = 0
  <2>1. Len(history) = 0
    BY <1>1
  <2> QED BY <1>2, <2>1
<1>4. current' = current
  BY <1>1, <1>2, <1>3 DEF Saved, ShownAgrees
<1> QED BY <1>1, <1>4 DEF esVars, vars

LEMMA SInvUnchanged == SInv /\ UNCHANGED esVars => SInv'
  BY DEF SInv, esVars, vars, renderVars, Tidy, IsTerm, RowsOK, Placed, Empty, Bare, Start,
         Marked, IsOutput, CursorUp, screen_row, screen_rows

LEMMA RestsNext ==
    ASSUME IInv, IInv', SInv, [ESNext]_esVars
    PROVE  SInv'
<1>1. CASE Key
  BY <1>1, KeyRests
<1>2. CASE UpUnseen
  BY <1>2, UpUnseenStutters, SInvUnchanged
<1>3. CASE Submit_Line
  BY <1>3, SubmitRests DEF Submit_Line
<1>4. CASE Submit_Fails
  BY <1>4, SubmitRests DEF Submit_Fails
<1>5. CASE Submit_Empty
  BY <1>5, SubmitRests DEF Submit_Empty, SInv
<1>6. ASSUME NEW c \in Widths, Resize(c) PROVE SInv'
  BY <1>6, ResizeRests
<1>7. CASE Reload_Drawn
  BY <1>7, ReloadRests
<1>8. CASE UNCHANGED esVars
  BY <1>8, SInvUnchanged
<1> QED BY <1>1, <1>2, <1>3, <1>4, <1>5, <1>6, <1>7, <1>8 DEF ESNext

LEMMA SpecSInv == ESSpec => []SInv
<1>1. SInv /\ IInv /\ IInv' /\ [ESNext]_esVars => SInv'
  BY RestsNext
<1> QED BY <1>1, RestInit, ScreenIInv, PTL DEF ESSpec

LEMMA ShownLemma ==
    ASSUME IInv, SInv
    PROVE  /\ Len(shown) = screen_rows(last_render_width, cols)
           /\ cursor_row = screen_row(last_render_cursor_width, cols)
<1>1. cols \in Nat \ {0} /\ Len(prompt \o data) = last_render_width /\ last_render_width \in Nat
  BY SInvFacts
<1>2. Len(wrap_ansi(prompt \o data, cols)) = Len(prompt \o data) \div cols + 1
  BY <1>1, WrapLemma
<1>3. Len(prompt) + index = last_render_cursor_width
  BY DEF SInv
<1> QED BY <1>1, <1>2, <1>3 DEF shown, cursor_row, screen_rows

LEMMA NothingLeft == IInv /\ SInv /\ Fits /\ ~stray => NothingBelow
<1> SUFFICES ASSUME IInv, SInv, Fits, ~stray PROVE NothingBelow
  OBVIOUS
<1> DEFINE n == screen_rows(last_render_width, cols)
           a == screen_row(last_render_cursor_width, cols)
           s == Start(term, last_render_cursor_width, cols)
<1>1. Len(shown) = n /\ cursor_row = a
  BY ShownLemma
<1>2. /\ cols \in Nat \ {0} /\ last_render_width \in Nat /\ last_render_cursor_width \in Nat
      /\ Tidy(term, last_render_width, last_render_cursor_width, cols, stray)
  BY SInvFacts
<1>3. a \in Nat
  BY <1>2, RowsLemma
<1>4. n \in Nat
  <2>1. n = screen_row(last_render_width, cols) + 1 /\ screen_row(last_render_width, cols) \in Nat
    BY <1>2, RowsLemma
  <2> HIDE DEF n
  <2> QED BY <2>1
<1>5. s \in 1 .. Height /\ Height \in Nat
  BY <1>2, StartLemma, RenderAssumption DEF Tidy
<1>6. n <= Height
  BY <1>1 DEF Fits
<1>7. term.row = s + a
  BY <1>2, <1>6 DEF Tidy, Placed
<1>8. Empty(term, s + n)
  BY <1>2 DEF Tidy
<1> HIDE DEF n, a, s
<1>9. top = s
  BY <1>1, <1>3, <1>5, <1>7 DEF top
<1>10. ASSUME NEW r \in s + n .. Height PROVE term.rows[r] = <<>>
  <2>1. r \in 1 .. Height /\ r >= s + n
    BY <1>4, <1>5
  <2> QED BY <1>8, <2>1 DEF Empty
<1> QED BY <1>1, <1>9, <1>10 DEF NothingBelow

\* Whatever was drawn or printed before, the terminal shows the prompt and the line and the
\* cursor in its place, if they fit; and nothing is left below them, until the columns change
\* or the api is loaded again under a line of several rows, or a line is run that prints with
\* the cursor far above its end.
THEOREM AlwaysShowsLine == ESSpec => []ShowsLine
<1>1. DInv => (Fits => Displayed)
  BY DEF DInv, DrawnWell, Fits, Displayed, shown, top, cursor_row
<1>2. DInv /\ IInv /\ SInv => ShowsLine
  BY <1>1, NothingLeft DEF ShowsLine
<1> QED BY <1>2, SpecDInv, ScreenIInv, SpecSInv, PTL

-----------------------------------------------------------------------------
(***************************************************************************)
(* Output                                                                  *)
(***************************************************************************)
\* How many rows above a row are output.
Above(rows, s) == Cardinality({r \in 1 .. s - 1 : IsOutput(rows[r])})

LEMMA AboveFinite ==
    ASSUME NEW rows, NEW s \in Nat \ {0}
    PROVE  /\ IsFiniteSet({r \in 1 .. s - 1 : IsOutput(rows[r])}) /\ Above(rows, s) \in Nat
<1> DEFINE S == {r \in 1 .. s - 1 : IsOutput(rows[r])}
<1>1. S \in SUBSET (1 .. s - 1) /\ IsFiniteSet(1 .. s - 1)
  BY FS_Interval
<1> HIDE DEF S
<1>2. IsFiniteSet(S)
  BY <1>1, FS_Subset
<1>3. Cardinality(S) \in Nat
  BY <1>2, FS_CardinalityType
<1> QED BY <1>2, <1>3 DEF Above, S

\* No row is lost if every row of output is one still.
LEMMA AboveSub ==
    ASSUME NEW rows, NEW more, NEW s \in Nat \ {0}, NEW s2 \in Nat \ {0}, s <= s2,
           \A r \in 1 .. s - 1 : IsOutput(rows[r]) => IsOutput(more[r])
    PROVE  Above(rows, s) <= Above(more, s2)
<1> DEFINE S == {r \in 1 .. s - 1 : IsOutput(rows[r])}
           T == {r \in 1 .. s2 - 1 : IsOutput(more[r])}
<1>1. IsFiniteSet(T)
  BY AboveFinite
<1>2. S \in SUBSET T
  OBVIOUS
<1> HIDE DEF S, T
<1>3. Cardinality(S) <= Cardinality(T)
  BY <1>1, <1>2, FS_Subset
<1> QED BY <1>3 DEF Above, S, T

LEMMA AboveNext ==
    ASSUME NEW rows, NEW s \in Nat \ {0}
    PROVE  Above(rows, s + 1) = IF IsOutput(rows[s]) THEN Above(rows, s) + 1 ELSE Above(rows, s)
<1> DEFINE S == {r \in 1 .. s - 1 : IsOutput(rows[r])}
           T == {r \in 1 .. (s + 1) - 1 : IsOutput(rows[r])}
<1>1. IsFiniteSet(S)
  BY AboveFinite
<1>2. s \notin S
  OBVIOUS
<1>3. T = IF IsOutput(rows[s]) THEN S \cup {s} ELSE S
  <2>1. 1 .. (s + 1) - 1 = (1 .. s - 1) \cup {s}
    OBVIOUS
  <2> QED BY <2>1
<1> HIDE DEF S, T
<1>4. Cardinality(S \cup {s}) = Cardinality(S) + 1
  BY <1>1, <1>2, FS_AddElement
<1> QED BY <1>3, <1>4 DEF Above, S, T

\* The rows go up by one.
LEMMA AboveScroll ==
    ASSUME NEW rows, NEW up, NEW s \in Nat \ {0}, \A r \in 1 .. s - 1 : up[r] = rows[r + 1]
    PROVE  Above(rows, s + 1) = IF IsOutput(rows[1]) THEN Above(up, s) + 1 ELSE Above(up, s)
<1> DEFINE S == {r \in 1 .. s - 1 : IsOutput(up[r])}
           T == {r \in 2 .. s : IsOutput(rows[r])}
           All == {r \in 1 .. (s + 1) - 1 : IsOutput(rows[r])}
           f == [r \in S |-> r + 1]
<1>1. IsFiniteSet(S)
  BY AboveFinite
<1>2. f \in Bijection(S, T)
  <2>1. ASSUME NEW r \in S PROVE r + 1 \in T
    <3>1. r \in 1 .. s - 1 /\ IsOutput(rows[r + 1])
      OBVIOUS
    <3> QED BY <3>1
  <2>2. f \in [S -> T]
    BY <2>1
  <2>3. \A a, b \in S : f[a] = f[b] => a = b
    OBVIOUS
  <2>4. ASSUME NEW y \in T PROVE \E r \in S : f[r] = y
    <3>1. y - 1 \in 1 .. s - 1 /\ (y - 1) + 1 = y
      OBVIOUS
    <3>2. up[y - 1] = rows[y]
      BY <3>1
    <3>3. y - 1 \in S
      BY <3>1, <3>2
    <3>4. f[y - 1] = y
      BY <3>1, <3>3
    <3> QED BY <3>3, <3>4
  <2> HIDE DEF f, S, T
  <2> QED BY <2>2, <2>3, <2>4, Fun_IsBij
<1>3. 1 \notin T /\ All = IF IsOutput(rows[1]) THEN T \cup {1} ELSE T
  <2>1. 1 .. (s + 1) - 1 = {1} \cup 2 .. s
    OBVIOUS
  <2> QED BY <2>1
<1> HIDE DEF S, T, All, f
<1>4. ExistsBijection(S, T)
  BY <1>2 DEF ExistsBijection
<1>5. IsFiniteSet(T) /\ Cardinality(T) = Cardinality(S)
  BY <1>1, <1>4, FS_Bijection
<1>6. Cardinality(T \cup {1}) = Cardinality(T) + 1
  BY <1>3, <1>5, FS_AddElement
<1> QED BY <1>3, <1>5, <1>6 DEF Above, S, All

LEMMA AboveAll ==
    ASSUME NEW rows, DOMAIN rows = 1 .. Height
    PROVE  Outputs(rows) = Above(rows, Height + 1)
<1>1. 1 .. (Height + 1) - 1 = 1 .. Height
  BY RenderAssumption
<1> QED BY <1>1 DEF Outputs, Above

\* Below s there is no output, so that all of it is above.
LEMMA AboveBare ==
    ASSUME NEW t, DOMAIN t.rows = 1 .. Height, NEW s \in 1 .. Height, Bare(t, s)
    PROVE  Outputs(t.rows) = Above(t.rows, s)
<1>1. {r \in 1 .. (Height + 1) - 1 : IsOutput(t.rows[r])} = {r \in 1 .. s - 1 : IsOutput(t.rows[r])}
  <2>1. ASSUME NEW r \in 1 .. Height, IsOutput(t.rows[r]) PROVE r \in 1 .. s - 1
    BY <2>1 DEF Bare
  <2> QED BY <2>1, RenderAssumption
<1>2. Above(t.rows, Height + 1) = Above(t.rows, s)
  BY <1>1 DEF Above
<1> QED BY <1>2, AboveAll

(***************************************************************************)
(* The output that is due is above the cursor.                             *)
(***************************************************************************)
KeptAt(t, s) == t.due <= Above(t.rows, s)

\* A drawing that starts where it should, or in the first row, writes over none of it.
LEMMA DrawnKept ==
    ASSUME NEW t, IsTerm(t), RowsOK(t), NEW d, RowsOK(d), NEW text, Len(text) \in Nat,
           NEW cursor \in 0 .. Len(text), NEW c \in Nat \ {0}, NEW width \in Nat, NEW at \in Nat,
           DrawnOn(t, d, text, cursor, c, width, at),
           NEW s, s = Start(t, at, c), KeptAt(t, s),
           \/ screen_rows(Len(text), c) <= Height /\ Landed(s, Swept(text, c, width)) = s
           \/ screen_rows(Len(text), c) > Height /\ s = 1
    PROVE  ~Loses(d)
<1>1. Height \in Nat \ {0} /\ s \in 1 .. Height
  BY StartLemma, RenderAssumption
<1>2. t.due \in Int /\ d.due \in Int /\ DOMAIN d.rows = 1 .. Height
  BY DEF RowsOK
<1>3. Above(t.rows, s) \in Nat /\ Above(d.rows, s) \in Nat
  <2>1. s \in Nat \ {0}
    BY <1>1
  <2> QED BY <2>1, AboveFinite
<1>4. Above(d.rows, s) <= Outputs(d.rows) /\ Outputs(d.rows) \in Nat
  <2>1. s \in Nat \ {0} /\ Height + 1 \in Nat \ {0} /\ s <= Height + 1
    BY <1>1
  <2>2. Above(d.rows, s) <= Above(d.rows, Height + 1) /\ Above(d.rows, Height + 1) \in Nat
    BY <2>1, AboveSub, AboveFinite
  <2> QED BY <1>2, <2>2, AboveAll
<1>5. CASE screen_rows(Len(text), c) <= Height /\ Landed(s, Swept(text, c, width)) = s
  <2> DEFINE n == screen_rows(Len(text), c)  R == Swept(text, c, width)
  <2>1. /\ d.due = t.due
        /\ \A r \in 1 .. Height :
             d.rows[r] = IF r \in s .. s + n - 1 THEN wrap_ansi(text, c)[r - s + 1]
                         ELSE IF r \in s .. s + R - 1 THEN <<>> ELSE t.rows[r]
    BY <1>5 DEF DrawnOn
  <2>2. \A r \in 1 .. s - 1 : d.rows[r] = t.rows[r]
    <3> HIDE DEF n, R
    <3> QED BY <1>1, <2>1
  <2>3. Above(t.rows, s) <= Above(d.rows, s)
    <3>1. s \in Nat \ {0} /\ s <= s
      BY <1>1
    <3> QED BY <2>2, <3>1, AboveSub
  <2> QED BY <1>2, <1>3, <1>4, <2>1, <2>3 DEF KeptAt, Loses
<1>6. CASE screen_rows(Len(text), c) > Height /\ s = 1
  <2>1. d.due <= t.due
    BY <1>6 DEF DrawnOn
  <2>2. Above(t.rows, s) = 0
    <3>1. {r \in 1 .. s - 1 : IsOutput(t.rows[r])} = {}
      BY <1>6
    <3> QED BY <3>1, FS_EmptySet DEF Above
  <2> QED BY <1>2, <1>4, <2>1, <2>2 DEF KeptAt, Loses
<1> QED BY <1>5, <1>6

LEMMA NewLineKept ==
    ASSUME NEW t, IsTerm(t), RowsOK(t), KeptAt(t, t.row + 1)
    PROVE  KeptAt(NewLine(t), NewLine(t).row)
<1> DEFINE u == NewLine(t)
<1>0. Height \in Nat \ {0} /\ t.row \in 1 .. Height /\ t.due \in Int
  BY RenderAssumption DEF IsTerm, RowsOK
<1>1. NewLined(t, u)
  BY NewLineRows
<1> HIDE DEF u
<1>2. CASE t.row = Height
  <2>1. /\ u.row = Height
        /\ u.due = IF IsOutput(t.rows[1]) THEN t.due - 1 ELSE t.due
        /\ \A r \in 1 .. Height : u.rows[r] = IF r + 1 <= Height THEN t.rows[r + 1] ELSE <<>>
    BY <1>0, <1>1, <1>2 DEF NewLined
  <2>2. \A r \in 1 .. Height - 1 : u.rows[r] = t.rows[r + 1]
    BY <1>0, <2>1
  <2>3. Above(t.rows, Height + 1) = IF IsOutput(t.rows[1]) THEN Above(u.rows, Height) + 1
                                    ELSE Above(u.rows, Height)
    BY <1>0, <2>2, AboveScroll
  <2>4. Above(u.rows, Height) \in Nat
    BY <1>0, AboveFinite
  <2>5. t.due <= Above(t.rows, Height + 1)
    BY <1>2 DEF KeptAt
  <2> QED BY <1>0, <2>1, <2>3, <2>4, <2>5 DEF KeptAt, u
<1>3. CASE t.row # Height
  <2>1. /\ u.row = t.row + 1 /\ u.due = t.due
        /\ \A r \in 1 .. Height : u.rows[r] = t.rows[r]
    BY <1>0, <1>1, <1>3 DEF NewLined
  <2>2. \A r \in 1 .. (t.row + 1) - 1 : u.rows[r] = t.rows[r]
    BY <1>0, <2>1
  <2>3. t.row + 1 \in Nat \ {0} /\ t.row + 1 <= t.row + 1
    BY <1>0
  <2>4. Above(t.rows, t.row + 1) <= Above(u.rows, t.row + 1)
    BY <2>2, <2>3, AboveSub
  <2>5. Above(t.rows, t.row + 1) \in Nat /\ Above(u.rows, t.row + 1) \in Nat
    BY <2>3, AboveFinite
  <2> QED BY <1>0, <2>1, <2>4, <2>5 DEF KeptAt, u
<1> QED BY <1>2, <1>3

LEMMA BegunKept ==
    ASSUME NEW t, IsTerm(t), RowsOK(t), KeptAt(t, t.row)
    PROVE  KeptAt(Begun(t), t.row) /\ KeptAt(Row(t), t.row + 1)
<1>0. Height \in Nat \ {0} /\ t.row \in 1 .. Height /\ t.due \in Int /\ t.row \in Nat \ {0}
  BY RenderAssumption DEF IsTerm, RowsOK
<1>1. /\ Begun(t).due = t.due /\ IsOutput(Begun(t).rows[t.row])
      /\ \A r \in 1 .. Height : r # t.row => Begun(t).rows[r] = t.rows[r]
  BY BegunRows
<1>2. \A r \in 1 .. t.row - 1 : Begun(t).rows[r] = t.rows[r]
  BY <1>0, <1>1
<1>3. /\ Above(t.rows, t.row) <= Above(Begun(t).rows, t.row)
      /\ Above(t.rows, t.row) \in Nat /\ Above(Begun(t).rows, t.row) \in Nat
  <2>1. t.row <= t.row
    BY <1>0
  <2> QED BY <1>0, <1>2, <2>1, AboveSub, AboveFinite
<1>4. Above(Begun(t).rows, t.row + 1) = Above(Begun(t).rows, t.row) + 1
  BY <1>0, <1>1, AboveNext
<1>5. Row(t).rows = Begun(t).rows /\ Row(t).due = t.due + 1
  BY RowTerm
<1>6. t.due <= Above(t.rows, t.row)
  BY DEF KeptAt
<1> QED BY <1>0, <1>1, <1>3, <1>4, <1>5, <1>6 DEF KeptAt

\* A line is entered below the output, and what it prints is kept.
LEMMA DoneKept ==
    ASSUME NEW t, IsTerm(t), RowsOK(t), KeptAt(t, t.row), NEW row \in BOOLEAN, NEW more \in BOOLEAN
    PROVE  KeptAt(Prints(NewLine(Entered(t)), row, more),
                  Prints(NewLine(Entered(t)), row, more).row)
<1> DEFINE e == Entered(t)
           u == NewLine(e)
           v == NewLine(Row(u))
           p == IF row THEN v ELSE u
<1>0. t.row \in Nat \ {0} /\ t.due \in Int
  BY DEF IsTerm, RowsOK
<1>1. /\ IsTerm(e) /\ RowsOK(e) /\ e.row = t.row /\ e.due = t.due
      /\ \A r \in 1 .. Height : IsOutput(e.rows[r]) <=> IsOutput(t.rows[r])
  BY EnteredRows
<1> HIDE DEF e
<1>2. KeptAt(e, e.row + 1)
  <2>1. \A r \in 1 .. t.row - 1 : IsOutput(t.rows[r]) => IsOutput(e.rows[r])
    BY <1>1, RenderAssumption DEF IsTerm
  <2>2. t.row + 1 \in Nat \ {0} /\ t.row <= t.row + 1
    BY <1>0
  <2>3. Above(t.rows, t.row) <= Above(e.rows, t.row + 1)
    BY <1>0, <2>1, <2>2, AboveSub
  <2>4. Above(t.rows, t.row) \in Nat /\ Above(e.rows, t.row + 1) \in Nat
    BY <1>0, <2>2, AboveFinite
  <2> QED BY <1>0, <1>1, <2>3, <2>4 DEF KeptAt
<1>3. KeptAt(u, u.row) /\ IsTerm(u) /\ RowsOK(u)
  BY <1>1, <1>2, NewLineKept, NewLineRows
<1> HIDE DEF u
<1>4. KeptAt(Row(u), Row(u).row + 1) /\ IsTerm(Row(u)) /\ RowsOK(Row(u))
  BY <1>3, BegunKept, RowTerm
<1>5. KeptAt(v, v.row) /\ IsTerm(v) /\ RowsOK(v)
  BY <1>4, NewLineKept, NewLineRows
<1>6. Prints(u, row, more) = IF more THEN Begun(p) ELSE p
  BY PrintsAs
<1> HIDE DEF v
<1>7. KeptAt(p, p.row) /\ IsTerm(p) /\ RowsOK(p)
  BY <1>3, <1>5
<1> HIDE DEF p
<1>8. KeptAt(Begun(p), Begun(p).row)
  BY <1>7, BegunKept, BegunRows
<1> QED BY <1>6, <1>7, <1>8 DEF u, e

\* So output is lost only by a text that grows and ends in the last row.
LEMMA DrawnLoses ==
    ASSUME NEW t, IsTerm(t), RowsOK(t), NEW d, RowsOK(d), NEW text, Len(text) \in Nat,
           NEW cursor \in 0 .. Len(text), NEW c \in Nat \ {0}, NEW width \in Nat, NEW at \in Nat,
           DrawnOn(t, d, text, cursor, c, width, at),
           KeptAt(t, Start(t, at, c)), Placed(t, width, at, c),
           LET n == screen_rows(Len(text), c)  back == n - 1 - screen_row(cursor, c)
           IN  n > Height /\ Height <= back => Start(t, at, c) = 1,
           Loses(d)
    PROVE  LET n == screen_rows(Len(text), c)
           IN  n > screen_rows(width, c) /\ d.row - screen_row(cursor, c) + n - 1 = Height
<1> DEFINE n == screen_rows(Len(text), c)
           N == screen_rows(width, c)
           R == Swept(text, c, width)
           s == Start(t, at, c)
           cur == screen_row(cursor, c)
           back == n - 1 - cur
           row == d.row
<1>1. /\ R \in Nat \ {0} /\ n \in 1 .. R /\ N \in 1 .. R /\ R \in {N, n} /\ cur \in Nat /\ cur <= n - 1
  <2>1. /\ R \in Nat \ {0} /\ n \in 1 .. R /\ N \in 1 .. R /\ R \in {N, n}
        /\ cur \in Nat /\ cur <= n - 1
    BY SweptLemma
  <2> HIDE DEF n, N, R, cur
  <2> QED BY <2>1
<1>2. Height \in Nat \ {0} /\ s \in 1 .. Height
  BY StartLemma, RenderAssumption
<1>3. /\ N <= Height => s + N - 1 <= Height
      /\ N > Height => s = 1
  BY DEF Placed
<1>4. /\ n <= Height => row = Landed(s, R) + cur
      /\ n > Height => row = IF Height > back THEN Height - back ELSE 1
  BY DEF DrawnOn
<1>5. ~(n <= Height /\ Landed(s, R) = s) /\ ~(n > Height /\ s = 1)
  BY DrawnKept
<1>6. n > Height /\ Height <= back => s = 1
  OBVIOUS
<1> HIDE DEF N, R, s, cur, row, n
<1>7. CASE n <= Height
  <2>1. n > N /\ R = n
    BY <1>1, <1>2, <1>3, <1>5, <1>7 DEF Landed
  <2>2. Landed(s, R) = Height - n + 1
    BY <1>1, <1>2, <1>5, <1>7, <2>1 DEF Landed
  <2> QED BY <1>1, <1>2, <1>4, <1>7, <2>1, <2>2 DEF N, cur, row, n
<1>8. CASE n > Height
  <2>1. n > N /\ Height > back
    BY <1>1, <1>2, <1>3, <1>5, <1>6, <1>8
  <2>2. row = Height - back
    BY <1>4, <1>8, <2>1
  <2> QED BY <1>1, <1>2, <2>1, <2>2 DEF N, cur, row, n
<1> QED BY <1>1, <1>2, <1>7, <1>8

\* What a step may lose.
Keeps == Loses(term') => Grows /\ (top + Len(shown) - 1 = Height)'

LEMMA StepKeeps ==
    ASSUME IInv, IInv', SInv, SInv',
           NEW t, IsTerm(t), RowsOK(t), NEW width \in Nat, NEW at \in Nat, Draws(t, width, at),
           KeptAt(t, Start(t, at, cols')), Placed(t, width, at, cols'),
           screen_rows(width, cols') = screen_rows(last_render_width, cols),
           LET n == screen_rows(last_render_width', cols')
               back == n - 1 - screen_row(last_render_cursor_width', cols')
           IN  n > Height /\ Height <= back => Start(t, at, cols') = 1
    PROVE  Keeps
<1>1. /\ Plain(prompt' \o data') /\ Len(prompt' \o data') = Len(prompt') + Len(data')
      /\ Len(prompt') + index' \in 0 .. Len(prompt' \o data') /\ Len(prompt' \o data') \in Nat
  <2>1. data' \in Line /\ index' \in 0 .. Len(data') /\ prompt' \in Prompts
    BY DEF IInv, TypeOK, InRange, Line, SInv
  <2> QED BY <2>1, LineLemma
<1>2. /\ last_render_width' = Len(prompt' \o data')
      /\ last_render_cursor_width' = Len(prompt') + index'
      /\ IsTerm(term') /\ RowsOK(term') /\ cols' \in Nat \ {0}
  BY <1>1, RenderAssumption DEF SInv, Tidy
<1> DEFINE text == prompt' \o data'
           cursor == Len(prompt') + index'
           c == cols'
           d == term'
           n == screen_rows(Len(text), c)
<1>3. SUFFICES ASSUME Loses(d)
               PROVE  Grows /\ d.row - screen_row(cursor, c) + Len(wrap_ansi(text, c)) - 1 = Height
  BY DEF Keeps, top, shown, cursor_row
<1>4. Len(wrap_ansi(text, c)) = n
  BY <1>1, <1>2, WrapLemma DEF screen_rows
<1>5. /\ RowsOK(d) /\ Len(text) \in Nat /\ cursor \in 0 .. Len(text) /\ c \in Nat \ {0}
      /\ DrawnOn(t, d, text, cursor, c, width, at)
      /\ KeptAt(t, Start(t, at, c)) /\ Placed(t, width, at, c)
      /\ n > Height /\ Height <= n - 1 - screen_row(cursor, c) => Start(t, at, c) = 1
  BY <1>1, <1>2 DEF Draws
<1>6. n > screen_rows(width, c) /\ d.row - screen_row(cursor, c) + n - 1 = Height
  <2> HIDE DEF text, cursor, c, d
  <2> QED BY <1>3, <1>5, DrawnLoses
<1>7. Grows
  BY <1>2, <1>6 DEF Grows
<1> QED BY <1>4, <1>6, <1>7

\* Without output from where the line begins on, all of it is above.
LEMMA NowKept ==
    ASSUME NEW w \in Nat, NEW a \in Nat, NEW c \in Nat \ {0}, Tidy(term, w, a, c, FALSE)
    PROVE  /\ IsTerm(Now) /\ RowsOK(Now) /\ Start(Now, a, c) = Start(term, a, c)
           /\ KeptAt(Now, Start(Now, a, c)) /\ Placed(Now, w, a, c)
<1>1. IsTerm(term) /\ RowsOK(term) /\ Placed(term, w, a, c) /\ Bare(term, Start(term, a, c))
  BY DEF Tidy
<1>2. NowRows
  BY <1>1, NowLemma
<1>3. /\ IsTerm(Now) /\ RowsOK(Now) /\ Now.rows = term.rows /\ Now.row = term.row
      /\ Now.due = Outputs(term.rows)
  BY <1>2 DEF NowRows
<1>4. Start(Now, a, c) = Start(term, a, c) /\ Start(term, a, c) \in Nat \ {0}
      /\ Start(term, a, c) \in 1 .. Height
  <2>1. /\ Start(term, a, c) = IF term.row > screen_row(a, c) THEN term.row - screen_row(a, c) ELSE 1
        /\ Start(term, a, c) \in 1 .. Height
    BY <1>1, StartLemma
  <2>2. Start(Now, a, c) = IF Now.row > screen_row(a, c) THEN Now.row - screen_row(a, c) ELSE 1
    BY <1>3, StartLemma
  <2> QED BY <1>3, <2>1, <2>2
<1>5. Placed(Now, w, a, c)
  BY <1>1, <1>3, <1>4 DEF Placed
<1>6. Outputs(term.rows) = Above(term.rows, Start(term, a, c))
  BY <1>1, <1>4, AboveBare DEF RowsOK
<1>7. Above(term.rows, Start(term, a, c)) \in Nat
  BY <1>4, AboveFinite
<1>8. KeptAt(Now, Start(Now, a, c))
  BY <1>3, <1>4, <1>6, <1>7 DEF KeptAt
<1> QED BY <1>3, <1>4, <1>5, <1>8

\* A key leaves the cursor at the end of the line, or the line at most one byte longer.
LEMMA KeySize ==
    ASSUME IInv, Key
    PROVE  index' = Len(data') \/ Len(data') <= Len(data) + 1
<1>1. Len(data) \in Nat
  BY DEF IInv, TypeOK, Line
<1>2. ASSUME NEW c \in Letters, Letter(c) PROVE Len(data') <= Len(data) + 1
  <2>1. Len(data') = Len(data) + 1
    BY <1>2, LetterLemma
  <2> QED BY <1>1, <2>1
<1>3. ASSUME Backspace PROVE Len(data') <= Len(data) + 1
  <2>1. Len(data') = Len(data) - 1
    BY <1>3, BackspaceLemma
  <2> QED BY <1>1, <2>1
<1>4. ASSUME Left \/ Right \/ UNCHANGED vars PROVE Len(data') <= Len(data) + 1
  BY <1>1, <1>4 DEF Left, Right, vars
<1>5. ASSUME Down \/ (Up /\ history # <<>>) PROVE index' = Len(data')
  BY <1>5 DEF Down, Up, Show
<1>6. \/ \E c \in Letters : Letter(c)
      \/ Backspace \/ (Left \/ Right \/ UNCHANGED vars) \/ Down \/ (Up /\ history # <<>>)
  BY DEF Key
<1> QED BY <1>2, <1>3, <1>4, <1>5, <1>6, Zenon

\* The widths of now, and their rows.
LEMMA NextWidths ==
    ASSUME IInv', SInv'
    PROVE  /\ last_render_width' \in Nat /\ last_render_cursor_width' \in Nat
           /\ last_render_cursor_width' <= last_render_width'
           /\ cols' \in Nat \ {0}
           /\ Len(prompt') \in Nat /\ Len(data') \in Nat /\ index' \in 0 .. Len(data')
           /\ last_render_width' = Len(prompt') + Len(data')
           /\ last_render_cursor_width' = Len(prompt') + index'
           /\ screen_row(last_render_cursor_width', cols') \in Nat
           /\ screen_row(last_render_width', cols') \in Nat
           /\ screen_rows(last_render_width', cols') = screen_row(last_render_width', cols') + 1
<1>1. data' \in Line /\ index' \in 0 .. Len(data') /\ prompt' \in Prompts
  BY DEF IInv, TypeOK, InRange, Line, SInv
<1>2. Len(prompt') \in Nat /\ Len(data') \in Nat
  BY <1>1, LineLemma
<1>3. cols' \in Nat \ {0}
  BY RenderAssumption DEF SInv
<1>4. /\ last_render_width' = Len(prompt') + Len(data')
      /\ last_render_cursor_width' = Len(prompt') + index'
  BY DEF SInv
<1>5. last_render_width' \in Nat /\ last_render_cursor_width' \in Nat
  BY <1>1, <1>2, <1>4
<1>6. screen_row(last_render_cursor_width', cols') \in Nat
  BY <1>3, <1>5, RowsLemma
<1>7. /\ screen_row(last_render_width', cols') \in Nat
      /\ screen_rows(last_render_width', cols') = screen_row(last_render_width', cols') + 1
  BY <1>3, <1>5, RowsLemma
<1> QED BY <1>1, <1>2, <1>3, <1>4, <1>5, <1>6, <1>7

\* With the cursor at the end, the last row of the text is the cursor's.
LEMMA EndShown ==
    ASSUME IInv', SInv', index' = Len(data')
    PROVE  LET n == screen_rows(last_render_width', cols')
               back == n - 1 - screen_row(last_render_cursor_width', cols')
           IN  ~(n > Height /\ Height <= back)
<1>1. last_render_cursor_width' = last_render_width'
  BY NextWidths
<1>2. screen_rows(last_render_width', cols') - 1 - screen_row(last_render_cursor_width', cols') = 0
  BY <1>1, NextWidths
<1> QED BY <1>2, RenderAssumption

LEMMA DivStep ==
    ASSUME NEW a \in Nat, NEW b \in Nat, NEW c \in Nat \ {0}, b <= a + c
    PROVE  b \div c <= a \div c + 1
<1>1. (a + c) \div c = a \div c + 1
  OBVIOUS
<1>2. a + c \in Nat
  OBVIOUS
<1> QED BY <1>1, <1>2, DivLemma

LEMMA KeyKeeps ==
    ASSUME IInv, IInv', SInv, SInv', Key, ~stray
    PROVE  Keeps
<1>1. /\ cols \in Nat \ {0} /\ last_render_width \in Nat /\ last_render_cursor_width \in Nat
      /\ Tidy(term, last_render_width, last_render_cursor_width, cols, stray)
  BY SInvFacts
<1>2. cols' = cols /\ prompt' = prompt
  BY DEF Key
<1>3. Draws(Now, last_render_width, last_render_cursor_width)
  BY KeyRests
<1>4. Tidy(term, last_render_width, last_render_cursor_width, cols, FALSE)
  BY <1>1 DEF Tidy
<1> DEFINE s == Start(Now, last_render_cursor_width, cols)
<1>5. /\ IsTerm(Now) /\ RowsOK(Now) /\ KeptAt(Now, s)
      /\ Placed(Now, last_render_width, last_render_cursor_width, cols)
  BY <1>1, <1>4, NowKept
<1> DEFINE n == screen_rows(last_render_width', cols)
           N == screen_rows(last_render_width, cols)
           back == n - 1 - screen_row(last_render_cursor_width', cols)
<1>6. ASSUME n > Height, Height <= back PROVE s = 1
  <2>1. index' # Len(data')
    BY <1>2, <1>6, EndShown
  <2>2. Len(data') <= Len(data) + 1
    BY <2>1, KeySize
  <2>3. last_render_width = Len(prompt) + Len(data) /\ Len(data) \in Nat
    BY DEF SInv, IInv, TypeOK, Line
  <2>4. last_render_width' <= last_render_width + cols /\ last_render_width' \in Nat
    BY <1>1, <1>2, <2>2, <2>3, NextWidths
  <2>5. n <= N + 1 /\ N \in Nat /\ n \in Nat
    <3>1. last_render_width' \div cols <= last_render_width \div cols + 1
      BY <1>1, <2>4, DivStep
    <3>2. last_render_width' \div cols \in Nat
      BY <1>1, <2>4, RowsLemma DEF screen_row
    <3>3. last_render_width \div cols \in Nat
      BY <1>1
    <3> QED BY <3>1, <3>2, <3>3 DEF screen_rows
  <2>6. s \in 1 .. Height /\ Height \in Nat
    BY <1>1, <1>5, StartLemma, RenderAssumption
  <2>7. (N <= Height => s + N - 1 <= Height) /\ (N > Height => s = 1)
    BY <1>5 DEF Placed
  <2> HIDE DEF s, n, N
  <2> QED BY <1>6, <2>5, <2>6, <2>7
<1>7. screen_rows(last_render_width, cols') = screen_rows(last_render_width, cols)
  BY <1>2
<1> QED BY <1>1, <1>2, <1>3, <1>5, <1>6, <1>7, StepKeeps

LEMMA ResizeKeeps ==
    ASSUME IInv, IInv', SInv, SInv', NEW c \in Widths, Resize(c), ~stray'
    PROVE  Keeps
<1>1. /\ cols \in Nat \ {0} /\ c \in Nat \ {0} /\ NowRows
      /\ last_render_width \in Nat /\ last_render_cursor_width \in Nat
  BY SInvFacts, RenderAssumption
<1>2. cols' = c /\ prompt' = prompt /\ data' = data
  BY DEF Resize, vars
<1>3. Draws(Cut(Now, c), last_render_width, last_render_cursor_width)
  BY ResizeRests
<1>4. /\ last_render_width < c /\ last_render_width < cols
      /\ Tidy(term, last_render_width, last_render_cursor_width, c, FALSE)
  BY ResizeTidy
<1> DEFINE t == Cut(Now, c)
           s == Start(Now, last_render_cursor_width, c)
<1>5. /\ IsTerm(Now) /\ RowsOK(Now) /\ KeptAt(Now, s)
      /\ Placed(Now, last_render_width, last_render_cursor_width, c)
  BY <1>1, <1>4, NowKept
<1>6. /\ IsTerm(t) /\ RowsOK(t) /\ t.row = Now.row /\ t.due = Now.due
      /\ \A r \in 1 .. Height : IsOutput(Now.rows[r]) => IsOutput(t.rows[r])
  BY <1>1, <1>5, CutRows
<1> HIDE DEF t
<1>7. Start(t, last_render_cursor_width, c) = s /\ s \in 1 .. Height
  <2>1. s = (IF Now.row > screen_row(last_render_cursor_width, c)
             THEN Now.row - screen_row(last_render_cursor_width, c) ELSE 1) /\ s \in 1 .. Height
    BY <1>1, <1>5, StartLemma
  <2>2. Start(t, last_render_cursor_width, c)
          = IF t.row > screen_row(last_render_cursor_width, c)
            THEN t.row - screen_row(last_render_cursor_width, c) ELSE 1
    BY <1>1, <1>6, StartLemma
  <2> QED BY <1>6, <2>1, <2>2
<1>8. Placed(t, last_render_width, last_render_cursor_width, c)
  BY <1>5, <1>6, <1>7 DEF Placed
<1>9. KeptAt(t, s)
  <2>1. s \in Nat \ {0} /\ s <= s /\ Height \in Nat
    BY <1>7, RenderAssumption
  <2> HIDE DEF s
  <2>2. \A r \in 1 .. s - 1 : IsOutput(Now.rows[r]) => IsOutput(t.rows[r])
    BY <1>6, <1>7, <2>1
  <2>3. Above(Now.rows, s) <= Above(t.rows, s)
    BY <2>1, <2>2, AboveSub
  <2>4. Above(Now.rows, s) \in Nat /\ Above(t.rows, s) \in Nat /\ Now.due \in Int
    BY <1>5, <2>1, AboveFinite DEF RowsOK
  <2> QED BY <1>5, <1>6, <2>3, <2>4 DEF KeptAt
<1>10. screen_rows(last_render_width, c) = 1 /\ screen_rows(last_render_width, cols) = 1
  <2>1. screen_rows(last_render_width, c) = 1
    BY <1>1, <1>4, RowsLemma
  <2>2. screen_rows(last_render_width, cols) = 1
    BY <1>1, <1>4, RowsLemma
  <2> QED BY <2>1, <2>2
<1>11. last_render_width' = last_render_width
  BY <1>2, NextWidths DEF SInv
<1>12. ~(screen_rows(last_render_width', c) > Height)
  BY <1>10, <1>11, RenderAssumption
<1> HIDE DEF s
<1>13. /\ Draws(t, last_render_width, last_render_cursor_width)
       /\ KeptAt(t, Start(t, last_render_cursor_width, cols'))
       /\ Placed(t, last_render_width, last_render_cursor_width, cols')
       /\ screen_rows(last_render_width, cols') = screen_rows(last_render_width, cols)
       /\ ~(screen_rows(last_render_width', cols') > Height)
  BY <1>2, <1>3, <1>7, <1>8, <1>9, <1>10, <1>12 DEF t
<1> QED BY <1>1, <1>6, <1>13, StepKeeps

LEMMA ReloadKeeps ==
    ASSUME IInv, IInv', SInv, SInv', Reload_Drawn, ~stray'
    PROVE  Keeps
<1>1. cols \in Nat \ {0} /\ last_render_width \in Nat
  BY SInvFacts
<1>2. cols' = cols /\ index' = 0 /\ Len(data') = 0
  BY DEF Reload_Drawn, Reload
<1>3. Draws(Now, 0, 0)
  BY ReloadRests
<1>4. last_render_width < cols /\ Tidy(term, 0, 0, cols, FALSE)
  BY ReloadTidy
<1>5. /\ IsTerm(Now) /\ RowsOK(Now) /\ KeptAt(Now, Start(Now, 0, cols))
      /\ Placed(Now, 0, 0, cols)
  BY <1>1, <1>4, NowKept
<1>6. screen_rows(0, cols) = screen_rows(last_render_width, cols)
  <2>1. screen_rows(last_render_width, cols) = 1
    BY <1>1, <1>4, RowsLemma
  <2>2. PICK z \in Nat : z = 0
    OBVIOUS
  <2>3. screen_rows(z, cols) = 1
    BY <1>1, <2>2, RowsLemma
  <2> QED BY <2>1, <2>2, <2>3
<1>7. LET n == screen_rows(last_render_width', cols')
          back == n - 1 - screen_row(last_render_cursor_width', cols')
      IN  ~(n > Height /\ Height <= back)
  BY <1>2, EndShown
<1>8. /\ KeptAt(Now, Start(Now, 0, cols')) /\ Placed(Now, 0, 0, cols')
      /\ screen_rows(0, cols') = screen_rows(last_render_width, cols)
  BY <1>2, <1>5, <1>6
<1> QED BY <1>3, <1>5, <1>7, <1>8, StepKeeps

\* A line on one row is drawn where it was, and what it prints is kept above the next.
LEMMA AgainKept ==
    ASSUME IInv, SInv, ~stray, last_render_width < cols
    PROVE  IsTerm(Again) /\ RowsOK(Again) /\ KeptAt(Again, Again.row)
<1>1. /\ cols \in Nat \ {0} /\ last_render_width \in Nat /\ last_render_cursor_width \in Nat
      /\ last_render_cursor_width \in 0 .. last_render_width
      /\ Len(prompt \o data) = last_render_width
      /\ Tidy(term, last_render_width, last_render_cursor_width, cols, stray)
  BY SInvFacts
<1>2. /\ Tidy(Again, last_render_width, last_render_cursor_width, cols, stray)
      /\ DrawnOn(Now, Again, prompt \o data, last_render_cursor_width, cols,
                 last_render_width, last_render_cursor_width)
  BY AgainTidy
<1>3. IsTerm(Again) /\ RowsOK(Again)
  BY <1>2 DEF Tidy
<1>4. Tidy(term, last_render_width, last_render_cursor_width, cols, FALSE)
  BY <1>1 DEF Tidy
<1> DEFINE s == Start(Now, last_render_cursor_width, cols)
           n == screen_rows(Len(prompt \o data), cols)
           R == Swept(prompt \o data, cols, last_render_width)
           lines == wrap_ansi(prompt \o data, cols)
           cur == screen_row(last_render_cursor_width, cols)
<1>5. IsTerm(Now) /\ RowsOK(Now) /\ KeptAt(Now, s)
  BY <1>1, <1>4, NowKept
<1>6. n = 1 /\ R = 1
  <2>1. screen_rows(last_render_width, cols) = 1
    BY <1>1, RowsLemma
  <2> QED BY <1>1, <2>1 DEF Swept, Larger
<1>7. cur = 0
  BY <1>1, RowsLemma
<1>8. s \in 1 .. Height /\ Height \in Nat \ {0}
  BY <1>1, <1>5, StartLemma, RenderAssumption
<1>9. n <= Height =>
        /\ Again.row = Landed(s, R) + cur /\ Again.due = Now.due
        /\ \A r \in 1 .. Height :
             Again.rows[r] = IF r \in Landed(s, R) .. Landed(s, R) + n - 1
                             THEN lines[r - Landed(s, R) + 1]
                             ELSE IF r \in s .. s + R - 1 THEN <<>> ELSE Now.rows[r]
  BY <1>2 DEF DrawnOn
<1> HIDE DEF s, n, R, lines, cur
<1>10. Landed(s, R) = s
  BY <1>6, <1>8 DEF Landed
<1>11. /\ Again.row = s /\ Again.due = Now.due
       /\ \A r \in 1 .. s - 1 : Again.rows[r] = Now.rows[r]
  BY <1>6, <1>7, <1>8, <1>9, <1>10
<1>12. s \in Nat \ {0} /\ s <= s
  BY <1>8
<1>13. Above(Now.rows, s) <= Above(Again.rows, s)
  BY <1>11, <1>12, AboveSub
<1>14. Above(Now.rows, s) \in Nat /\ Above(Again.rows, s) \in Nat /\ Now.due \in Int
  BY <1>5, <1>12, AboveFinite DEF RowsOK
<1>15. KeptAt(Again, Again.row)
  BY <1>5, <1>11, <1>13, <1>14 DEF KeptAt
<1> QED BY <1>3, <1>15

LEMMA SubmitKeeps ==
    ASSUME IInv, IInv', SInv, SInv', prompt' \in Prompts,
           NEW row \in BOOLEAN, NEW more \in BOOLEAN, Submitted(row, more),
           index' = Len(data') \/ (data' = data /\ index' = index), ~stray', ~Wrapped
    PROVE  Keeps
<1>1. /\ cols \in Nat \ {0} /\ last_render_width \in Nat /\ last_render_cursor_width \in Nat
      /\ last_render_cursor_width \in 0 .. last_render_width
  BY SInvFacts
<1>2. cols' = cols /\ ~stray
  BY DEF Submitted
<1>3. last_render_width < cols
  BY NotWrapped
<1> DEFINE done == Done(row, more)
           w == last_render_width
           a == last_render_cursor_width
<1>4. Draws(done, w, a)
  BY SubmitRests
<1>5. IsTerm(done) /\ RowsOK(done) /\ KeptAt(done, done.row)
  <2>1. IsTerm(Again) /\ RowsOK(Again) /\ KeptAt(Again, Again.row)
    BY <1>2, <1>3, AgainKept
  <2>2. IsTerm(Entered(Again)) /\ RowsOK(Entered(Again))
    BY <2>1, EnteredRows
  <2>3. PICK j \in 1 .. 2 : j = IF row THEN 2 ELSE 1
    OBVIOUS
  <2>4. IsTerm(done) /\ RowsOK(done)
    BY <2>2, <2>3, DoneLower DEF Done
  <2>5. KeptAt(done, done.row)
    BY <2>1, DoneKept DEF Done
  <2> QED BY <2>4, <2>5
<1> HIDE DEF done
<1>6. screen_rows(w, cols) = 1 /\ screen_row(a, cols) = 0
  <2>1. screen_rows(w, cols) = 1
    BY <1>1, <1>3, RowsLemma
  <2>2. a < cols
    BY <1>1, <1>3
  <2>3. screen_row(a, cols) = 0
    BY <1>1, <2>2, RowsLemma
  <2> QED BY <2>1, <2>3
<1>7. done.row \in 1 .. Height /\ Height \in Nat \ {0}
  BY <1>5, RenderAssumption DEF IsTerm
<1>8. Start(done, a, cols) = done.row
  <2>1. Start(done, a, cols) = IF done.row > screen_row(a, cols) THEN done.row - screen_row(a, cols)
                               ELSE 1
    BY <1>1, <1>5, StartLemma
  <2> QED BY <1>6, <1>7, <2>1
<1>9. Placed(done, w, a, cols)
  BY <1>6, <1>7, <1>8 DEF Placed
<1> DEFINE n == screen_rows(last_render_width', cols')
           back == n - 1 - screen_row(last_render_cursor_width', cols')
<1>10. ASSUME n > Height, Height <= back PROVE Start(done, a, cols) = 1
  <2>1. data' = data /\ index' = index
    BY <1>10, EndShown
  <2>2. last_render_width' <= last_render_cursor_width' + cols
    <3>1. /\ last_render_width = Len(prompt) + Len(data)
          /\ last_render_width' = Len(prompt') + Len(data')
          /\ last_render_cursor_width' = Len(prompt') + index'
      BY DEF SInv
    <3>2. Len(prompt) \in Nat /\ Len(data) \in Nat /\ index \in 0 .. Len(data)
      BY LineLemma, EditorTypes DEF SInv
    <3>3. Len(prompt') \in Nat
      BY NextWidths
    <3> QED BY <1>1, <1>3, <2>1, <3>1, <3>2, <3>3
  <2>3. last_render_width' \in Nat /\ last_render_cursor_width' \in Nat
    BY NextWidths
  <2>4. last_render_width' \div cols <= last_render_cursor_width' \div cols + 1
    BY <1>1, <2>2, <2>3, DivStep
  <2>5. last_render_width' \div cols \in Nat
    BY <1>1, <2>3, RowsLemma DEF screen_row
  <2>6. last_render_cursor_width' \div cols \in Nat
    BY <1>1, <2>3, RowsLemma DEF screen_row
  <2>7. back <= 1
    BY <1>2, <2>4, <2>5, <2>6 DEF screen_rows, screen_row
  <2>8. back \in Int
    BY <1>2, <2>5, <2>6 DEF screen_rows, screen_row
  <2> HIDE DEF n, back
  <2>9. Height = 1
    BY <1>7, <1>10, <2>7, <2>8
  <2> QED BY <1>7, <1>8, <2>9
<1>11. /\ KeptAt(done, Start(done, a, cols')) /\ Placed(done, w, a, cols')
       /\ screen_rows(w, cols') = screen_rows(last_render_width, cols)
       /\ n > Height /\ Height <= back => Start(done, a, cols') = 1
  BY <1>2, <1>5, <1>8, <1>9, <1>10
<1> QED BY <1>1, <1>4, <1>5, <1>11, StepKeeps

\* Every step keeps the output, but for the causes the property names.
LEMMA NextKeeps ==
    ASSUME IInv, IInv', SInv, SInv', ESNext
    PROVE  stray' \/ Keeps \/ (Wrapped /\ ~Key) \/ UNCHANGED esVars
<1>1. ASSUME Key PROVE stray' \/ Keeps
  <2>1. stray' = stray
    BY <1>1 DEF Key
  <2> QED BY <1>1, <2>1, KeyKeeps
<1>2. ASSUME UpUnseen PROVE UNCHANGED esVars
  BY <1>2, UpUnseenStutters
<1>3. ASSUME Submit_Line PROVE stray' \/ Keeps \/ Wrapped
  <2>1. prompt' \in Prompts /\ \E row, more \in BOOLEAN : Submitted(row, more)
    BY <1>3 DEF Submit_Line
  <2>2. index' = Len(data')
    BY <1>3 DEF Submit_Line, Enter
  <2> QED BY <2>1, <2>2, SubmitKeeps
<1>4. ASSUME Submit_Fails PROVE stray' \/ Keeps \/ Wrapped
  <2>1. prompt' \in Prompts /\ data' = data /\ index' = index /\ Submitted(TRUE, FALSE)
    BY <1>4 DEF Submit_Fails, vars
  <2> QED BY <2>1, SubmitKeeps
<1>5. ASSUME Submit_Empty PROVE stray' \/ Keeps \/ Wrapped
  <2>1. prompt' \in Prompts /\ data' = data /\ index' = index /\ Submitted(FALSE, FALSE)
    BY <1>5 DEF Submit_Empty, SInv, vars
  <2> QED BY <2>1, SubmitKeeps
<1>6. ASSUME NEW c \in Widths, Resize(c) PROVE stray' \/ Keeps
  BY <1>6, ResizeKeeps
<1>7. ASSUME Reload_Drawn PROVE stray' \/ Keeps
  BY <1>7, ReloadKeeps
<1>8. \/ Key \/ UpUnseen \/ Submit_Line \/ Submit_Fails \/ Submit_Empty
      \/ (\E c \in Widths : Resize(c)) \/ Reload_Drawn
  BY DEF ESNext
<1> QED BY <1>1, <1>2, <1>3, <1>4, <1>5, <1>6, <1>7, <1>8, Zenon

\* Drawing over and over, whatever the keys and the signals, writes over a row of output
\* only when the columns change or the api is loaded again under a line of several rows,
\* when a line is run that prints with the cursor far above its end, when a line grows onto
\* the last row, or when a line of several rows is entered.
THEOREM AlwaysOutputKept == ESSpec => OutputKept
<1>1. IInv /\ IInv' /\ SInv /\ SInv' /\ [ESNext]_esVars =>
        [ Loses(term') =>
             \/ stray'
             \/ Grows /\ (top + Len(shown) - 1 = Height)'
             \/ Wrapped /\ ~Key ]_esVars
  BY NextKeeps DEF Keeps
<1> QED BY <1>1, ScreenIInv, SpecSInv, PTL DEF ESSpec, OutputKept
=============================================================================
