---------------------------- MODULE LineHistory ----------------------------
(***************************************************************************)
(* What the line editor of config/init.lua promises of the line and its    *)
(* history: the lines that were run stay in order, newest first, none      *)
(* twice in a row; looking at them never changes them, nor the line being  *)
(* written, which editing alone replaces.                                  *)
(***************************************************************************)
EXTENDS Naturals, Sequences

CONSTANTS
    Letters     \* the bytes a key may insert

VARIABLES
    draft,      \* the line being written
    past,       \* the lines that were run, newest first
    at          \* the one being looked at, 0 for the draft

vars == <<draft, past, at>>

Line == Seq(Letters)

Shown == IF at = 0 THEN draft ELSE past[at]

Init == draft = <<>> /\ past = <<>> /\ at = 0

\* Editing what is shown makes a draft of it.
Edit ==
    /\ draft' \in Line
    /\ Len(draft') \in {Len(Shown) - 1, Len(Shown) + 1}
    /\ at' = 0 /\ past' = past

Older == at < Len(past) /\ at' = at + 1 /\ UNCHANGED <<draft, past>>

Newer == at > 0 /\ at' = at - 1 /\ UNCHANGED <<draft, past>>

\* The line shown is run, and is new in the history unless it repeats the last.
Submit ==
    /\ Shown # <<>>
    /\ past' = IF past # <<>> /\ past[1] = Shown THEN past ELSE <<Shown>> \o past
    /\ draft' = <<>> /\ at' = 0

\* The shell reloads its configuration: the history is forgotten.
Forget == draft' = <<>> /\ past' = <<>> /\ at' = 0

Next == Edit \/ Older \/ Newer \/ Submit \/ Forget

Spec == Init /\ [][Next]_vars
=============================================================================
