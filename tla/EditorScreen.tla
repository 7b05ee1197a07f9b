---------------------------- MODULE EditorScreen ----------------------------
(***************************************************************************)
(* The line editor and what it shows: LineEditor and Render together, as   *)
(* handle_input, submit_input and handle_signal (config/init.lua) put      *)
(* them.                                                                   *)
(***************************************************************************)
EXTENDS LineEditor, Render

\* A row of output is no row of the line.
ASSUME OutputAssumption ==
    /\ Output \notin Letters
    /\ \A p \in Prompts : \A i \in DOMAIN p : p[i] # Output

VARIABLE stray  \* history: the columns changed, or the configuration was run again,
                \* under a line of several rows; or a line was run that prints, with the
                \* cursor two rows or more above its end

esVars == <<vars, renderVars, stray>>

ESInit == Init /\ RenderInit /\ stray = FALSE

Wrapped == screen_rows(last_render_width, cols) > 1

Redrawn(t) == render_input(t, data', index', last_render_width, last_render_cursor_width)

(***************************************************************************)
(* Keys and signals                                                        *)
(***************************************************************************)
\* Every key is drawn, whether it changed the line or not, and so is a change of the
\* window's height alone; but not a key that finds the history at its end.
Key ==
    /\ \/ \E c \in Letters : Letter(c)
       \/ Left \/ Right \/ Backspace \/ Down
       \/ Up /\ history # <<>>
       \/ UNCHANGED vars
    /\ UNCHANGED <<cols, prompt, stray>>
    /\ Redrawn(Now)

UpUnseen == Up /\ history = <<>> /\ UNCHANGED <<renderVars, stray>>

\* submit_input draws the line with the prompt of now, goes to the next row and runs it;
\* handle_input then draws what it left, below what was printed.
Submitted(row, more) ==
    LET width == Len(prompt) + Len(data)
        at == Len(prompt) + index
        drawn == Drawn(Now, prompt \o data, at, cols, last_render_width, last_render_cursor_width)
        done == Prints(NewLine(Entered(drawn)), row, more)
    IN  /\ UNCHANGED cols
        /\ stray' = (stray \/ (row /\ screen_row(at, cols) + 1 < screen_row(width, cols)))
        /\ render_input(done, data', index', width, at)

\* The line runs, fails - which prints the reason, and leaves the editor - or is empty.
\* The prompt shows an error and the debug level.
Submit_Line ==
    /\ Enter /\ prompt' \in Prompts
    /\ \E row, more \in BOOLEAN : Submitted(row, more)

Submit_Fails ==
    data # <<>> /\ UNCHANGED vars /\ prompt' \in Prompts /\ Submitted(TRUE, FALSE)

Submit_Empty == data = <<>> /\ UNCHANGED <<vars, prompt>> /\ Submitted(FALSE, FALSE)

\* Rows of a terminal that cuts long rows and joins none.
Cut(t, c) ==
    [t EXCEPT !.rows = [r \in 1 .. Height |-> SubSeq(t.rows[r], 1, Smaller(c, Len(t.rows[r])))],
              !.col = Smaller(t.col, c - 1)]

\* SIGWINCH: the columns are new, what was drawn last was drawn with the old ones.
Resize(c) ==
    /\ c # cols /\ cols' = c
    /\ stray' = (stray \/ screen_rows(last_render_width, Smaller(c, cols)) > 1)
    /\ UNCHANGED <<vars, prompt>>
    /\ Redrawn(Cut(Now, c))

\* The plugin api is loaded again, and has drawn nothing yet.
Reload_Drawn ==
    /\ Reload
    /\ stray' = (stray \/ Wrapped)
    /\ prompt' \in Prompts /\ UNCHANGED cols
    /\ render_input(Now, data', index', 0, 0)

ESNext ==
    \/ Key \/ UpUnseen
    \/ Submit_Line \/ Submit_Fails \/ Submit_Empty
    \/ \E c \in Widths : Resize(c)
    \/ Reload_Drawn

ESSpec == ESInit /\ [][ESNext]_esVars

(***************************************************************************)
(* Properties                                                              *)
(***************************************************************************)
shown == wrap_ansi(prompt \o data, cols)

\* The row where the prompt begins, if the text before the cursor fits.
cursor_row == screen_row(Len(prompt) + index, cols)
top == term.row - cursor_row

Fits == Len(shown) <= Height

Displayed ==
    /\ top >= 1 /\ term.col = screen_col(Len(prompt) + index, cols)
    /\ \A k \in DOMAIN shown : term.rows[top + k - 1] = shown[k]

NothingBelow == \A r \in top + Len(shown) .. Height : term.rows[r] = <<>>

\* After every key, whatever was drawn before, the terminal shows the prompt and the line
\* and the cursor in its place, if they fit; and nothing below, until the columns change
\* or the api is loaded again under a line of several rows, or a line is run that prints
\* with the cursor far above its end.
ShowsLine == Fits => Displayed /\ (~stray => NothingBelow)

\* Drawing over and over never writes over a row of output, but for these causes.
Loses(t) == Outputs(t.rows) < t.due
Grows == screen_rows(last_render_width', cols') > screen_rows(last_render_width, cols)

OutputKept ==
    [][ Loses(term') =>
           \/ stray'
           \* a line that grows onto the rows left at the bottom goes up instead of scrolling
           \/ Grows /\ (top + Len(shown) - 1 = Height)'
           \* a line of several rows is entered, and the prompt goes up as many
           \/ Wrapped /\ ~Key ]_esVars
=============================================================================
