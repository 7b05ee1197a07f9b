---------------------------- MODULE LineEditor ----------------------------
(***************************************************************************)
(* The line editor of config/init.lua: handle_input, the key_input hook of *)
(* the shipped configuration, and submit_input.  One action per key; each  *)
(* runs to its end before the next key is read.  A line is a sequence of   *)
(* bytes, a Lua index one more than the place in it.                       *)
(***************************************************************************)
EXTENDS Integers, Sequences

CONSTANTS
    Letters,    \* the bytes a key may insert
    MaxLine,    \* bound: bytes in a line that a letter is added to
    MaxPast     \* bound: lines in the history when another is run

ASSUME EditorAssumption == MaxLine \in Nat /\ MaxPast \in Nat

VARIABLES
    data,       \* input_state.data
    index,      \* input_state.index: the cursor
    history,    \* input_state.history.history
    hindex,     \* input_state.history.index
    current     \* input_state.history.current

vars == <<data, index, history, hindex, current>>

Line == Seq(Letters)

\* data:sub(1, i) and data:sub(i + 1)
Before(i) == SubSeq(data, 1, i)
After(i) == SubSeq(data, i + 1, Len(data))

Init ==
    /\ data = <<>> /\ index = 0
    /\ history = <<>> /\ hindex = 0 /\ current = <<>>

Edited_KeepsDraft == hindex' = 0 /\ UNCHANGED <<history, current>>

\* The line was edited: it is no longer one of the history's.
Edited == hindex' = 0 /\ current' = data' /\ UNCHANGED history

Letter(c) ==
    /\ Len(data) < MaxLine
    /\ data' = Before(index) \o <<c>> \o After(index)
    /\ index' = index + 1
    /\ Edited

Left ==
    /\ index > 0
    /\ index' = index - 1
    /\ UNCHANGED <<data, history, hindex, current>>

Right ==
    /\ index < Len(data)
    /\ index' = index + 1
    /\ UNCHANGED <<data, history, hindex, current>>

Backspace ==
    /\ index > 0
    /\ data' = Before(index - 1) \o After(index)
    /\ index' = index - 1
    /\ Edited

\* The line put in the editor, with the cursor at its end.
Show(line) == data' = line /\ index' = Len(line)

Saved_Always == data
Saved == IF hindex = 0 THEN data ELSE current

\* An empty history leaves only the saved line changed; at the oldest line the key
\* stays there.
Up ==
    /\ current' = Saved
    /\ IF history = <<>> THEN UNCHANGED <<data, index, hindex>>
       ELSE /\ hindex' = IF hindex < Len(history) THEN hindex + 1 ELSE hindex
            /\ Show(history[hindex'])
    /\ UNCHANGED history

Down ==
    /\ hindex > 0
    /\ hindex' = hindex - 1
    /\ Show(IF hindex' = 0 THEN current ELSE history[hindex'])
    /\ UNCHANGED <<history, current>>

Pushed == IF history # <<>> /\ history[1] = data THEN history ELSE <<data>> \o history

\* enter on a line that runs without an error; on an empty line, and when it fails,
\* the editor is left as it is.
Enter ==
    /\ data # <<>> /\ Len(history) < MaxPast
    /\ history' = Pushed
    /\ data' = <<>> /\ index' = 0 /\ hindex' = 0 /\ current' = <<>>

\* The configuration is run again, and makes a new input_state.
Reload ==
    /\ data' = <<>> /\ index' = 0
    /\ history' = <<>> /\ hindex' = 0 /\ current' = <<>>

Next ==
    \/ \E c \in Letters : Letter(c)
    \/ Left \/ Right \/ Backspace \/ Up \/ Down \/ Enter \/ Reload

Spec == Init /\ [][Next]_vars

(***************************************************************************)
(* Properties                                                              *)
(***************************************************************************)
TypeOK ==
    /\ data \in Line /\ current \in Line
    /\ history \in Seq(Line)
    /\ index \in Nat /\ hindex \in Nat

\* The cursor is in the line and the place in the history is one of its lines,
\* whatever keys follow one another: sub and the history table are never read
\* outside.
InRange == index \in 0 .. Len(data) /\ hindex \in 0 .. Len(history)

\* data, which handle_input edits, and the history's index and saved line, which it
\* keeps beside it, never disagree about the line that is shown.
ShownAgrees == data = IF hindex = 0 THEN current ELSE history[hindex]

\* The history holds no empty line, and no line twice in a row.
NoRepeats ==
    /\ \A i \in DOMAIN history : history[i] # <<>>
    /\ \A i \in 1 .. Len(history) - 1 : history[i] # history[i + 1]

\* The editor keeps LineHistory's promise.
Abstract == INSTANCE LineHistory WITH draft <- current, past <- history, at <- hindex

KeepsHistory == Abstract!Spec
=============================================================================
