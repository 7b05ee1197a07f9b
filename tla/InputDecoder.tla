---------------------------- MODULE InputDecoder ----------------------------
(***************************************************************************)
(* read_input_key (src/state/input.c): the bytes a terminal sends, read    *)
(* one at a time and each within a tenth of a second, become keys.         *)
(*                                                                         *)
(* The main loop calls it again and again.  A key's bytes may arrive whole *)
(* or in pieces; a read that finds nothing - the time is over, or a signal *)
(* came - ends the key that was being read.                                *)
(***************************************************************************)
EXTENDS Naturals, Sequences

CONSTANTS
    Keys,       \* the keys the user has
    Encoding,   \* the bytes the terminal sends for each
    Meant,      \* what each is
    Cuttable,   \* bound: the keys typed when bytes arrive in pieces
    MaxKeys     \* bound: keys typed

Byte == 0 .. 255
Modifiers == {"shift", "alt", "ctrl"}
Specials == {"up", "down", "right", "left", "enter", "tab", "backspace", "escape", "delete",
             "insert", "home", "end", "page_up", "page_down", "f1", "f2", "f3", "f4", "f5",
             "f6", "f7", "f8", "f9", "f10", "f11", "f12"}

\* struct InputKey: a letter, or a special key, with modifiers.
InputKey == [letter : Byte, special : Specials \cup {"none"}, mods : SUBSET Modifiers]

ASSUME DecoderAssumption ==
    /\ Encoding \in [Keys -> Seq(Byte)] /\ Meant \in [Keys -> InputKey]
    /\ \A k \in Keys : Encoding[k] # <<>>
    /\ Cuttable \subseteq Keys /\ MaxKeys \in Nat

VARIABLES
    split,      \* the bytes of one key may arrive in pieces
    wire,       \* what was typed and has not begun to arrive, one key after the other
    rest,       \* what is to come of the key that has
    input,      \* the bytes that can be read
    phase,      \* "idle", or after ESC: at "first", or in a "sequence"
    sequence,   \* the bytes of the escape sequence so far
    typed,      \* history: the keys typed
    delivered   \* history: the keys read_input_key returned

decoderVars == <<split, wire, rest, input, phase, sequence, typed, delivered>>

(***************************************************************************)
(* Bytes and keys                                                          *)
(***************************************************************************)
ESC == 27
Introducers == {91, 79}         \* [ and O
Digits == 48 .. 57
Semicolon == 59
Finals == 64 .. 126             \* what ends a sequence
Tilde == 126
MaxSequence == 15

Special(name) == [letter |-> 0, special |-> name, mods |-> {}]
Letter(code, mods) == [letter |-> code, special |-> "none", mods |-> mods]
NoKey == [letter |-> 0, special |-> "none", mods |-> {}]

With(key, mods) == [key EXCEPT !.mods = mods]

DecodeByte(b) ==
    CASE b \in {10, 13} -> Special("enter")
      [] b = 9 -> Special("tab")
      [] b \in {8, 127} -> Special("backspace")
      [] b \in 1 .. 26 \ {8, 9, 10, 13} -> Letter(96 + b, {"ctrl"})
      [] b \in 32 .. 126 -> Letter(b, {})
      [] OTHER -> NoKey

\* parse_modifier_code
ModifierCode(code) ==
    CASE code = 2 -> {"shift"}
      [] code = 3 -> {"alt"}
      [] code = 4 -> {"shift", "alt"}
      [] code = 5 -> {"ctrl"}
      [] code = 6 -> {"shift", "ctrl"}
      [] code = 7 -> {"alt", "ctrl"}
      [] code = 8 -> {"shift", "alt", "ctrl"}
      [] OTHER -> {}

\* parse_csi_tilde_key
TildeKey(code) ==
    CASE code \in {1, 7} -> "home"
      [] code = 2 -> "insert"
      [] code = 3 -> "delete"
      [] code \in {4, 8} -> "end"
      [] code = 5 -> "page_up"
      [] code = 6 -> "page_down"
      [] code = 15 -> "f5"
      [] code \in 17 .. 21 -> <<"f6", "f7", "f8", "f9", "f10">>[code - 16]
      [] code \in {23, 24} -> <<"f11", "f12">>[code - 22]
      [] OTHER -> "unknown"

\* The keys a final byte names by itself: A B C D, H F, P Q R S.
FinalKey ==
    [b \in {65, 66, 67, 68, 72, 70, 80, 81, 82, 83} |->
        CASE b = 65 -> "up" [] b = 66 -> "down" [] b = 67 -> "right" [] b = 68 -> "left"
          [] b = 72 -> "home" [] b = 70 -> "end"
          [] OTHER -> <<"f1", "f2", "f3", "f4">>[b - 79]]

(***************************************************************************)
(* The parameters of a sequence: at most three, its numbers but the last   *)
(* byte, empty ones left out.                                              *)
(***************************************************************************)
NoParams == [params |-> <<>>, current |-> 0, reading |-> FALSE]

Kept(s) == IF s.reading THEN Append(s.params, s.current) ELSE s.params

Scanned(s, b) ==
    IF Len(s.params) = 3 THEN s
    ELSE IF b \in Digits THEN [s EXCEPT !.current = 10 * @ + b - 48, !.reading = TRUE]
    ELSE IF b = Semicolon THEN [NoParams EXCEPT !.params = Kept(s)]
    ELSE s

Params(q) ==
    LET scan[i \in 0 .. Len(q) - 1] == IF i = 0 THEN NoParams ELSE Scanned(scan[i - 1], q[i])
        last == scan[Len(q) - 1]
    IN  IF Len(last.params) < 3 THEN Kept(last) ELSE last.params

Mods(params) == IF Len(params) >= 2 THEN ModifierCode(params[Len(params)]) ELSE {}

Known(params) == params # <<>> /\ TildeKey(params[1]) # "unknown"

\* What a sequence that ended, or was cut, is.
Decoded(q) ==
    LET final == q[Len(q)]
        params == Params(q)
    IN  IF q = <<>> THEN Special("escape")
        ELSE IF final \in DOMAIN FinalKey THEN With(Special(FinalKey[final]), Mods(params))
        ELSE IF final = Tilde /\ Known(params) THEN With(Special(TildeKey(params[1])), Mods(params))
        ELSE Special("escape")

\* A byte after ESC is a key with alt, or escape.
Alted(key) == IF key = NoKey THEN Special("escape") ELSE With(key, key.mods \cup {"alt"})

Ends_Letters(q) == q[Len(q)] \in 65 .. 90 \/ Len(q) = MaxSequence

\* What ends a sequence: its final byte, or the end of the buffer.
Ends(q) == q[Len(q)] \in Finals \/ Len(q) = MaxSequence

\* What a terminal sends for a key: a byte; ESC and a byte; or ESC, an introducer and a
\* sequence that its last byte, and no byte before it, ends.
WellSent(k) ==
    LET bytes == Encoding[k]
    IN  \/ /\ Len(bytes) = 1
           /\ Meant[k] = IF bytes[1] = ESC THEN Special("escape") ELSE DecodeByte(bytes[1])
        \/ /\ Len(bytes) = 2 /\ bytes[1] = ESC /\ bytes[2] \notin Introducers
           /\ Meant[k] = Alted(DecodeByte(bytes[2]))
        \/ /\ Len(bytes) > 2 /\ bytes[1] = ESC /\ bytes[2] \in Introducers
           /\ \A i \in 3 .. Len(bytes) :
                 (bytes[i] \in Finals \/ i = MaxSequence + 2) <=> i = Len(bytes)
           /\ Meant[k] = Decoded(SubSeq(bytes, 3, Len(bytes)))

\* A sequence that means nothing, and so is read as escape whole, is not cut.
ASSUME EncodingAssumption ==
    /\ \A k \in Keys : WellSent(k) /\ Meant[k] # NoKey
    /\ \A k \in Cuttable : Len(Encoding[k]) > 1 => Meant[k] # Special("escape")

(***************************************************************************)
(* The user and the terminal                                               *)
(***************************************************************************)
DecoderInit ==
    /\ split \in BOOLEAN
    /\ wire = <<>> /\ rest = <<>> /\ input = <<>>
    /\ phase = "idle" /\ sequence = <<>>
    /\ typed = <<>> /\ delivered = <<>>

Type(k) ==
    /\ Len(typed) < MaxKeys /\ (split => k \in Cuttable)
    /\ typed' = Append(typed, Meant[k]) /\ wire' = Append(wire, Encoding[k])
    /\ UNCHANGED <<rest, input, phase, sequence, delivered, split>>

\* The escape key is told from the start of a sequence by time alone: the next key
\* comes after the decoder has given up waiting.
Settled == (input = <<>> => phase # "first") /\ (input # <<>> => input[Len(input)] # ESC)

Arrives(bytes) ==
    \E n \in IF split THEN 1 .. Len(bytes) ELSE {Len(bytes)} :
        /\ input' = input \o SubSeq(bytes, 1, n)
        /\ rest' = SubSeq(bytes, n + 1, Len(bytes))

Arrive ==
    /\ \/ rest = <<>> /\ wire # <<>> /\ Settled /\ Arrives(Head(wire)) /\ wire' = Tail(wire)
       \/ rest # <<>> /\ Arrives(rest) /\ UNCHANGED wire
    /\ UNCHANGED <<phase, sequence, typed, delivered, split>>

(***************************************************************************)
(* read_input_key                                                          *)
(***************************************************************************)
Deliver(key) ==
    /\ phase' = "idle" /\ sequence' = <<>>
    /\ delivered' = IF key = NoKey THEN delivered ELSE Append(delivered, key)

Go(where, q) == phase' = where /\ sequence' = q /\ UNCHANGED delivered

\* A read returns a byte.
ReadByte ==
    /\ input # <<>> /\ input' = Tail(input)
    /\ LET b == Head(input)
           q == Append(sequence, b)
       IN  \/ /\ phase = "idle"
              /\ IF b = ESC THEN Go("first", <<>>) ELSE Deliver(DecodeByte(b))
           \/ /\ phase = "first"
              /\ IF b \in Introducers THEN Go("sequence", <<>>) ELSE Deliver(Alted(DecodeByte(b)))
           \/ /\ phase = "sequence"
              /\ IF Ends(q) THEN Deliver(Decoded(q))
                 ELSE Go("sequence", q)
    /\ UNCHANGED <<wire, rest, typed, split>>

ReadNothing_Drops ==
    /\ input = <<>>
    /\ Deliver(NoKey)
    /\ UNCHANGED <<wire, rest, input, typed, split>>

\* A read returns none: no key, or after ESC what there is of the sequence.
ReadNothing ==
    /\ input = <<>>
    /\ Deliver(IF phase = "idle" THEN NoKey ELSE Decoded(sequence))
    /\ UNCHANGED <<wire, rest, input, typed, split>>

DecoderNext == (\E k \in Keys : Type(k)) \/ Arrive \/ ReadByte \/ ReadNothing

DecoderSpec == DecoderInit /\ [][DecoderNext]_decoderVars

(***************************************************************************)
(* Properties                                                              *)
(***************************************************************************)
Agree(n) == n <= Len(typed) /\ delivered[n] = typed[n]

Quiet == wire = <<>> /\ rest = <<>> /\ input = <<>> /\ phase = "idle"

\* The keys the shell gets are those that were typed, in order, each once: a sequence
\* never swallows the next key nor leaves a byte of itself to it.  For keys that arrive
\* whole, however fast they follow one another.
KeysAgree ==
    ~split =>
        /\ \A n \in DOMAIN delivered : Agree(n)
        /\ Quiet => Len(delivered) = Len(typed)

\* A sequence that arrives in pieces is read as something else, but never silently as
\* another key: the first key that was not typed is an escape.
FirstWrongIsEscape ==
    \A n \in DOMAIN delivered :
        (~Agree(n) /\ \A m \in 1 .. n - 1 : Agree(m)) => delivered[n] = Special("escape")
=============================================================================
