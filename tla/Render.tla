------------------------------- MODULE Render -------------------------------
(***************************************************************************)
(* render_input (plugins/api/init.lua), which draws the prompt and the     *)
(* line being edited again on every key, and the terminal it draws on.     *)
(*                                                                         *)
(* A terminal is its rows of cells, the cursor, and `due`: how many rows   *)
(* of output it would show if no row had been written over in this step.   *)
(* Colours take no room and are left to Lexer.  The lines entered are one  *)
(* mark each, and the output of commands another: what matters of these is *)
(* whether they are still there.                                           *)
(***************************************************************************)
EXTENDS Naturals, Sequences, FiniteSets

CONSTANTS
    Height,     \* rows of the terminal
    Widths,     \* the columns it may have
    Prompts     \* what prompt() may give

ASSUME RenderAssumption ==
    /\ Height \in Nat \ {0} /\ Widths \subseteq Nat \ {0}
    /\ \A p \in Prompts : p \in Seq(STRING)

VARIABLES
    term,                       \* the terminal
    cols,                       \* its columns, as terminal_columns() says
    prompt,                     \* the prompt last drawn
    last_render_width,
    last_render_cursor_width

renderVars == <<term, cols, prompt, last_render_width, last_render_cursor_width>>

Output == "o"   \* of a command
Past == "~"     \* a line that was entered

Smaller(a, b) == IF a < b THEN a ELSE b
Larger(a, b) == IF a < b THEN b ELSE a

(***************************************************************************)
(* The terminal                                                            *)
(***************************************************************************)
IsOutput(cells) == \E i \in DOMAIN cells : cells[i] = Output
Outputs(rows) == Cardinality({r \in DOMAIN rows : IsOutput(rows[r])})

\* A step begins.
Now == [term EXCEPT !.due = Outputs(term.rows)]

\* The cursor stops at the edges; only a new line at the bottom scrolls.
CursorUp(t, n) == [t EXCEPT !.row = IF t.row > n THEN t.row - n ELSE 1]

Scroll(t, n) ==
    [t EXCEPT !.rows = [r \in 1 .. Height |-> IF r + n <= Height THEN t.rows[r + n] ELSE <<>>],
              !.row = t.row - n,
              !.due = t.due - Outputs([r \in 1 .. n |-> t.rows[r]])]

NewLine(t) ==
    LET s == IF t.row = Height THEN Scroll(t, 1) ELSE t
    IN  [s EXCEPT !.row = s.row + 1, !.col = 0]

\* n rows are cleared from the cursor down, or the last one again and again.
Clear(t, n) ==
    [t EXCEPT !.rows = [r \in 1 .. Height |->
                            IF r \in t.row .. t.row + n - 1 THEN <<>> ELSE t.rows[r]],
              !.row = Smaller(t.row + n - 1, Height)]

\* Lines that each fill a row up to its end, with a new line between them.
Write(t, lines) ==
    LET last == t.row + Len(lines) - 1
        over == IF last > Height THEN last - Height ELSE 0
        seen == Scroll(t, Smaller(over, Height))
    IN  [seen EXCEPT !.rows = [r \in 1 .. Height |->
                                 IF r + over \in t.row .. last THEN lines[r + over - t.row + 1]
                                 ELSE seen.rows[r]],
                     !.row = last - over]

\* A command writes a row of output, or the beginning of one, which the next render
\* takes away, or both.
Begun(t) ==
    [t EXCEPT !.rows[t.row] = <<Output>> \o SubSeq(t.rows[t.row], 2, Len(t.rows[t.row])),
              !.col = 1]

Prints(t, row, more) ==
    LET printed == IF row THEN NewLine([Begun(t) EXCEPT !.due = t.due + 1]) ELSE t
    IN  IF more THEN Begun(printed) ELSE printed

\* What is on the screen when a line is entered is told apart no longer.
Entered(t) ==
    [t EXCEPT !.rows = [r \in 1 .. Height |->
        IF t.rows[r] = <<>> THEN <<>> ELSE IF IsOutput(t.rows[r]) THEN <<Output>> ELSE <<Past>>]]

(***************************************************************************)
(* render_input                                                            *)
(***************************************************************************)
screen_rows(width, c) == width \div c + 1

screen_row_FromOne(width, c) == screen_rows(width, c)

screen_row(width, c) == width \div c
screen_col(width, c) == width % c

\* The rows of a text: a full last row is followed by an empty one.
wrap_ansi(text, c) ==
    [k \in 1 .. Len(text) \div c + 1 |->
        SubSeq(text, (k - 1) * c + 1, Smaller(k * c, Len(text)))]

Drawn_ClearsNewRows(t, text, cursor, c, width, at) ==
    LET rows == screen_rows(Len(text), c)
        cleared == Clear(CursorUp(t, screen_row(at, c)), rows)
        written == Write(CursorUp(cleared, rows - 1), wrap_ansi(text, c))
    IN  [CursorUp(written, screen_row(Len(text), c) - screen_row(cursor, c))
            EXCEPT !.col = screen_col(cursor, c)]

\* text is drawn with the cursor in its place, over the one of that width drawn before,
\* whose cursor was at `at`.
Drawn(t, text, cursor, c, width, at) ==
    LET rows == Larger(screen_rows(width, c), screen_rows(Len(text), c))
        cleared == Clear(CursorUp(t, screen_row(at, c)), rows)
        written == Write(CursorUp(cleared, rows - 1), wrap_ansi(text, c))
    IN  [CursorUp(written, screen_row(Len(text), c) - screen_row(cursor, c))
            EXCEPT !.col = screen_col(cursor, c)]

\* The last render of a step, on what the step has made of the terminal, where the text
\* drawn last had that width and its cursor was at `at`.
render_input(t, line, index, width, at) ==
    /\ term' = Drawn(t, prompt' \o line, Len(prompt') + index, cols', width, at)
    /\ last_render_width' = Len(prompt') + Len(line)
    /\ last_render_cursor_width' = Len(prompt') + index

\* The first render, below what was on the terminal.
RenderInit ==
    /\ cols \in Widths /\ prompt \in Prompts
    /\ \E r \in 1 .. Height :
         term = Drawn([rows |-> [s \in 1 .. Height |-> IF s < r THEN <<Output>> ELSE <<>>],
                       row |-> r, col |-> 0, due |-> r - 1],
                      prompt, Len(prompt), cols, 0, 0)
    /\ last_render_width = Len(prompt) /\ last_render_cursor_width = Len(prompt)
=============================================================================
