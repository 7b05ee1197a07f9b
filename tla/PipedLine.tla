----------------------------- MODULE PipedLine -----------------------------
(***************************************************************************)
(* What `src | out` promises, without file descriptors: out reads what src *)
(* wrote and sees the end of it only when src has ended; src is cut off    *)
(* only when there is nobody left to read; the line is over when both have *)
(* ended.                                                                  *)
(***************************************************************************)
EXTENDS Naturals

VARIABLES
    line,       \* "idle", "runs", or "aborted": the shell is gone
    src, out,   \* each program: "none", "runs", "ended", and src "cut"
    wrote, got, \* how much src wrote and out read
    eof         \* out saw the end of its input

vars == <<line, src, out, wrote, got, eof>>

Init ==
    /\ line = "idle" /\ src = "none" /\ out = "none"
    /\ wrote = 0 /\ got = 0 /\ eof = FALSE

Begin ==
    /\ line = "idle"
    /\ line' = "runs" /\ wrote' = 0 /\ got' = 0 /\ eof' = FALSE
    /\ UNCHANGED <<src, out>>

StartSrc ==
    /\ line = "runs" /\ src = "none"
    /\ src' = "runs"
    /\ UNCHANGED <<line, out, wrote, got, eof>>

StartOut ==
    /\ line = "runs" /\ src # "none" /\ out = "none"
    /\ out' = "runs"
    /\ UNCHANGED <<line, src, wrote, got, eof>>

Write ==
    /\ src = "runs"
    /\ wrote' = wrote + 1
    /\ UNCHANGED <<line, src, out, got, eof>>

Read ==
    /\ out = "runs" /\ got < wrote
    /\ got' = got + 1
    /\ UNCHANGED <<line, src, out, wrote, eof>>

ReadEnd ==
    /\ out = "runs" /\ src \in {"ended", "cut"} /\ got = wrote
    /\ eof' = TRUE
    /\ UNCHANGED <<line, src, out, wrote, got>>

EndSrc ==
    /\ src = "runs"
    /\ src' = "ended"
    /\ UNCHANGED <<line, out, wrote, got, eof>>

EndOut ==
    /\ out = "runs"
    /\ out' = "ended"
    /\ UNCHANGED <<line, src, wrote, got, eof>>

CutSrc ==
    /\ src = "runs" /\ (out = "ended" \/ line = "aborted")
    /\ src' = "cut"
    /\ UNCHANGED <<line, out, wrote, got, eof>>

Finish ==
    /\ line = "runs" /\ src \in {"ended", "cut"} /\ out = "ended"
    /\ line' = "idle" /\ src' = "none" /\ out' = "none"
    /\ UNCHANGED <<wrote, got, eof>>

Abort ==
    /\ line # "aborted" /\ out = "none"
    /\ line' = "aborted"
    /\ UNCHANGED <<src, out, wrote, got, eof>>

Next ==
    \/ Begin \/ StartSrc \/ StartOut \/ Write \/ Read \/ ReadEnd \/ EndSrc \/ EndOut
    \/ CutSrc \/ Finish \/ Abort

Spec == Init /\ [][Next]_vars
=============================================================================
