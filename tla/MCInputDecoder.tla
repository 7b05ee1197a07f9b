--------------------------- MODULE MCInputDecoder ---------------------------
(***************************************************************************)
(* InputDecoder with the keys of an xterm, at least one of each form.      *)
(***************************************************************************)
EXTENDS InputDecoder, TLC

Plain == {"a", "A", "bracket", "ctrl_a", "enter", "backspace", "alt_a", "escape"}
Sequences == {"up", "ctrl_up", "home", "f1", "shift_f1", "delete", "f5", "alt_f12", "paste"}

XtermKeys == Plain \cup Sequences

XtermEncoding ==
    "a" :> <<97>> @@ "A" :> <<65>> @@ "bracket" :> <<91>>
        @@ "ctrl_a" :> <<1>> @@ "enter" :> <<13>> @@ "backspace" :> <<127>>
        @@ "alt_a" :> <<27, 97>> @@ "escape" :> <<27>>
        @@ "up" :> <<27, 91, 65>> @@ "ctrl_up" :> <<27, 91, 49, 59, 53, 65>>
        @@ "home" :> <<27, 91, 72>> @@ "f1" :> <<27, 79, 80>>
        @@ "shift_f1" :> <<27, 91, 49, 59, 50, 80>>
        @@ "delete" :> <<27, 91, 51, 126>> @@ "f5" :> <<27, 91, 49, 53, 126>>
        @@ "alt_f12" :> <<27, 91, 50, 52, 59, 51, 126>>
        @@ "paste" :> <<27, 91, 50, 48, 48, 126>>

\* The start of a paste is no key, and is read as escape.
XtermMeant ==
    "a" :> Letter(97, {}) @@ "A" :> Letter(65, {}) @@ "bracket" :> Letter(91, {})
        @@ "ctrl_a" :> Letter(97, {"ctrl"}) @@ "enter" :> Special("enter")
        @@ "backspace" :> Special("backspace") @@ "alt_a" :> Letter(97, {"alt"})
        @@ "escape" :> Special("escape") @@ "paste" :> Special("escape")
        @@ "up" :> Special("up") @@ "ctrl_up" :> With(Special("up"), {"ctrl"})
        @@ "home" :> Special("home") @@ "f1" :> Special("f1")
        @@ "shift_f1" :> With(Special("f1"), {"shift"})
        @@ "delete" :> Special("delete") @@ "f5" :> Special("f5")
        @@ "alt_f12" :> With(Special("f12"), {"alt"})

\* The keys whose sequences differ in form, typed when they may be cut.
CutKeys == {"a", "escape", "alt_a", "up", "ctrl_up", "delete"}
=============================================================================
