--------------------------- MODULE Events_proofs ---------------------------
(***************************************************************************)
(* Theorems about Events, for any hooks and any bounds, and about          *)
(* InputDecoder, whose keys main hands to the hooks of one of the events.  *)
(***************************************************************************)
EXTENDS Events, InputDecoder, TLAPS

(***************************************************************************)
(* The invariant                                                           *)
(***************************************************************************)
\* What a trigger has on the stack: the hook it pushed and its arguments.
Pending(w) ==
    CASE trigger[w].at = "pushed" -> 1
      [] trigger[w].at = "ready" -> 1 + Len(Args(trigger[w].event))
      [] OTHER -> 0

\* The stack holds a value for every failure and what the triggers are preparing; the
\* handler only interrupts main outside Lua.
StackInv ==
    /\ Len(stack) = failures + Pending("main") + Pending("handler")
    /\ Active("handler") => trigger["main"].at # "runs"
    /\ \A w \in Threads : ~Active(w) => trigger[w] = NoTrigger

\* TypeOK without the bound on what a trigger is at.
Values == Value \cup {"key", "signal", "error"}

Types ==
    /\ hooks \in [Event -> Seq(Value)]
    /\ stack \in Seq(Values)
    /\ trigger \in [Threads -> [event : Event \cup {"none"}, n : Nat \ {0},
                                at : {"next", "pushed", "ready", "runs"},
                                called : Seq(Hooks), disturbed : BOOLEAN]]
    /\ failures \in Nat

IInv == Types /\ StackInv

LEMMA ArgsLemma ==
    ASSUME NEW e
    PROVE  Args(e) \in Seq(Values) /\ Len(Args(e)) \in Nat
<1>1. <<"key">> \in Seq(Values) /\ <<"signal">> \in Seq(Values) /\ <<>> \in Seq(Values)
  BY DEF Values
<1>2. Args(e) = <<"key">> \/ Args(e) = <<"signal">> \/ Args(e) = <<>>
  BY DEF Args
<1> QED BY <1>1, <1>2

LEMMA InitIInv == Init => IInv
  BY DEF Init, IInv, Types, StackInv, NoTrigger, Threads, Event, Active, Pending, Values, Value

LEMMA PendingNat == ASSUME Types, NEW w \in Threads PROVE Pending(w) \in Nat
  BY ArgsLemma DEF Pending

\* The one that runs, and the other, which is waiting or not there.
Other(w) == IF w = "main" THEN "handler" ELSE "main"

LEMMA OtherLemma ==
    ASSUME NEW w \in Threads
    PROVE  Other(w) \in Threads /\ Other(w) # w /\ \A v \in Threads : v = w \/ v = Other(w)
  BY DEF Other, Threads

\* Register keeps the types.
LEMMA RegisterLemma ==
    ASSUME Types, SomeRegister
    PROVE  hooks' \in [Event -> Seq(Value)]
<1>1. PICK name \in Event \cup {"other"}, value \in Value :
        hooks' = [hooks EXCEPT ![EventOf(name)] = Append(@, value)]
  BY DEF SomeRegister, Register, Value
<1>2. EventOf(name) \in Event
  BY DEF EventOf, Event
<1> QED BY <1>1, <1>2 DEF Types

\* A step of the trigger that runs, which leaves the other one what it prepared.
LEMMA Close ==
    ASSUME IInv, Types', NEW w \in Threads, w = Running, Active(w),
           trigger'[w].event = trigger[w].event,
           trigger'[Other(w)].at = trigger[Other(w)].at,
           trigger'[Other(w)].event = trigger[Other(w)].event,
           ~Active(Other(w)) => trigger'[Other(w)] = trigger[Other(w)],
           Len(stack') = failures' + Pending(w)' + Pending(Other(w))
    PROVE  IInv'
<1>1. Pending(Other(w))' = Pending(Other(w))
  BY DEF Pending
<1>2. Pending("main")' \in Nat /\ Pending("handler")' \in Nat /\ failures' \in Nat
  <2>1. \A v \in Threads : Pending(v)' \in Nat
    BY ArgsLemma DEF Types, Pending
  <2> QED BY <2>1 DEF Threads, Types
<1>3. Len(stack') = failures' + Pending("main")' + Pending("handler")'
  BY <1>1, <1>2 DEF Threads, Other
<1>4. Active("handler")' => trigger'["main"].at # "runs"
  <2>1. CASE w = "handler"
    BY <2>1 DEF IInv, StackInv, Other, Active
  <2>2. CASE w = "main"
    BY <2>2 DEF Running, Active, Other
  <2> QED BY <2>1, <2>2 DEF Threads
<1>5. \A v \in Threads : ~Active(v)' => trigger'[v] = NoTrigger
  BY OtherLemma DEF IInv, StackInv, Active
<1> QED BY <1>3, <1>4, <1>5 DEF IInv, StackInv

\* A step that changes one trigger.
LEMMA OneTrigger ==
    ASSUME Types, NEW w \in Threads, NEW t, trigger' = [trigger EXCEPT ![w] = t]
    PROVE  trigger'[w] = t /\ trigger'[Other(w)] = trigger[Other(w)]
  BY OtherLemma DEF Types

\* A step from one place in trigger_event to the next.
LEMMA AtTypes ==
    ASSUME Types, NEW w \in Threads, NEW at \in {"next", "pushed", "ready", "runs"},
           trigger' = [trigger EXCEPT ![w] = [trigger[w] EXCEPT !.at = at]]
    PROVE  trigger' \in [Threads -> [event : Event \cup {"none"}, n : Nat \ {0},
                                at : {"next", "pushed", "ready", "runs"},
                                called : Seq(Hooks), disturbed : BOOLEAN]]
<1> DEFINE Rec == [event : Event \cup {"none"}, n : Nat \ {0},
                   at : {"next", "pushed", "ready", "runs"},
                   called : Seq(Hooks), disturbed : BOOLEAN]
<1>1. trigger \in [Threads -> Rec]
  BY DEF Types
<1>2. [trigger[w] EXCEPT !.at = at] \in Rec
  BY <1>1
<1> HIDE DEF Rec
<1>3. trigger' \in [Threads -> Rec]
  BY <1>1, <1>2
<1> QED BY <1>3 DEF Rec

\* What an active trigger has put on the stack is there.
LEMMA ActiveTypes ==
    ASSUME Types, NEW w \in Threads, Active(w)
    PROVE  /\ trigger[w].event \in Event /\ trigger[w].n \in Nat \ {0}
           /\ trigger[w].called \in Seq(Hooks) /\ Own(w) \in Seq(Value)
  BY DEF Types, Active, Own

LEMMA OnStack ==
    ASSUME IInv, NEW w \in Threads
    PROVE  /\ Pending(w) \in Nat /\ Pending(Other(w)) \in Nat /\ failures \in Nat
           /\ Len(stack) = failures + Pending(w) + Pending(Other(w))
<1>1. Pending("main") \in Nat /\ Pending("handler") \in Nat
  BY PendingNat DEF IInv, Threads
<1>2. failures \in Nat /\ Len(stack) = failures + Pending("main") + Pending("handler")
  BY DEF IInv, StackInv, Types
<1> QED BY <1>1, <1>2 DEF Threads, Other

(***************************************************************************)
(* Steps of a trigger                                                      *)
(***************************************************************************)
LEMMA PushHookStep ==
    ASSUME IInv, NEW w \in Threads, PushHook(w)
    PROVE  IInv'
<1> USE DEF IInv
<1>1. /\ w = Running /\ Active(w) /\ trigger[w].at = "next" /\ trigger[w].n <= Len(Own(w))
      /\ stack' = Append(stack, Own(w)[trigger[w].n])
      /\ trigger' = [trigger EXCEPT ![w] = [trigger[w] EXCEPT !.at = "pushed"]]
      /\ hooks' = hooks /\ failures' = failures
  BY DEF PushHook, Step
<1>2. trigger'[w] = [trigger[w] EXCEPT !.at = "pushed"] /\ trigger'[Other(w)] = trigger[Other(w)]
  BY <1>1, OneTrigger
<1>3. /\ trigger'[w].at = "pushed" /\ trigger'[w].event = trigger[w].event
  BY <1>2 DEF Types
<1>4. Own(w)[trigger[w].n] \in Values
  <2>1. trigger[w].n \in 1 .. Len(Own(w)) /\ Own(w) \in Seq(Value)
    BY <1>1, ActiveTypes
  <2> QED BY <2>1 DEF Values
<1>5. stack' \in Seq(Values) /\ Len(stack') = Len(stack) + 1
  BY <1>1, <1>4 DEF Types
<1>6. Types'
  BY <1>1, <1>5, AtTypes DEF Types
<1>7. Pending(w) = 0 /\ Pending(w)' = 1
  BY <1>1, <1>3 DEF Pending
<1>8. Len(stack') = failures' + Pending(w)' + Pending(Other(w))
  BY <1>1, <1>5, <1>7, OnStack
<1> QED BY <1>1, <1>2, <1>3, <1>6, <1>8, Close

LEMMA PushArgsStep ==
    ASSUME IInv, NEW w \in Threads, PushArgs(w)
    PROVE  IInv'
<1> USE DEF IInv
<1>1. /\ w = Running /\ trigger[w].at = "pushed"
      /\ stack' = stack \o Args(trigger[w].event)
      /\ trigger' = [trigger EXCEPT ![w] = [trigger[w] EXCEPT !.at = "ready"]]
      /\ hooks' = hooks /\ failures' = failures
  BY DEF PushArgs, Step
<1>2. Active(w)
  BY <1>1 DEF StackInv, NoTrigger
<1>3. trigger'[w] = [trigger[w] EXCEPT !.at = "ready"] /\ trigger'[Other(w)] = trigger[Other(w)]
  BY <1>1, OneTrigger
<1>4. /\ trigger'[w].at = "ready" /\ trigger'[w].event = trigger[w].event
  BY <1>3 DEF Types
<1>5. stack' \in Seq(Values) /\ Len(stack') = Len(stack) + Len(Args(trigger[w].event))
  BY <1>1, ArgsLemma DEF Types
<1>6. Types'
  BY <1>1, <1>5, AtTypes DEF Types
<1>7. Pending(w) = 1 /\ Pending(w)' = 1 + Len(Args(trigger[w].event))
  BY <1>1, <1>4 DEF Pending
<1>8. Len(Args(trigger[w].event)) \in Nat
  BY ArgsLemma
<1>9. Len(stack') = failures' + Pending(w)' + Pending(Other(w))
  <2>1. /\ Pending(Other(w)) \in Nat /\ failures \in Nat
        /\ Len(stack) = failures + Pending(w) + Pending(Other(w))
    BY OnStack
  <2>2. Len(stack) = failures + 1 + Pending(Other(w))
    BY <1>7, <2>1
  <2> QED BY <1>1, <1>5, <1>7, <1>8, <2>1, <2>2
<1> QED BY <1>1, <1>2, <1>3, <1>4, <1>6, <1>9, Close

\* After a call: the next hook.
LEMMA AdvanceLemma ==
    ASSUME IInv, NEW w \in Threads, Active(w), NEW ok \in BOOLEAN, Advance(w, ok)
    PROVE  /\ trigger' \in [Threads -> [event : Event \cup {"none"}, n : Nat \ {0},
                                at : {"next", "pushed", "ready", "runs"},
                                called : Seq(Hooks), disturbed : BOOLEAN]]
           /\ trigger'[w].event = trigger[w].event /\ Pending(w)' = 0
           /\ trigger'[Other(w)].at = trigger[Other(w)].at
           /\ trigger'[Other(w)].event = trigger[Other(w)].event
           /\ ~Active(Other(w)) => trigger'[Other(w)] = trigger[Other(w)]
<1> USE DEF IInv
<1> DEFINE mine == [trigger[w] EXCEPT !.n = @ + 1, !.at = "next"]
           theirs(v) == [trigger[v] EXCEPT
                !.disturbed = @ \/ (~ok /\ trigger[v].at \in {"pushed", "ready"})]
<1>1. trigger' = [v \in Threads |-> IF v = w THEN mine ELSE theirs(v)]
  BY DEF Advance
<1>2. trigger'[w] = mine /\ trigger'[Other(w)] = theirs(Other(w))
  BY <1>1, OtherLemma
<1>3. mine.event = trigger[w].event /\ mine.at = "next"
  BY DEF Types
<1>4. /\ theirs(Other(w)).at = trigger[Other(w)].at
      /\ theirs(Other(w)).event = trigger[Other(w)].event
  BY OtherLemma DEF Types
<1>5. ~Active(Other(w)) => theirs(Other(w)) = trigger[Other(w)]
  <2> SUFFICES ASSUME ~Active(Other(w)) PROVE theirs(Other(w)) = trigger[Other(w)]
    OBVIOUS
  <2>1. trigger[Other(w)] = NoTrigger
    BY OtherLemma DEF StackInv
  <2>2. trigger[Other(w)].at = "next" /\ trigger[Other(w)].disturbed = FALSE
    BY <2>1 DEF NoTrigger
  <2>3. (trigger[Other(w)].disturbed
            \/ (~ok /\ trigger[Other(w)].at \in {"pushed", "ready"})) = FALSE
    BY <2>2
  <2> DEFINE t == trigger[Other(w)]
             hit == t.disturbed \/ (~ok /\ t.at \in {"pushed", "ready"})
  <2>4. theirs(Other(w)) = [t EXCEPT !.disturbed = hit]
    OBVIOUS
  <2>5. hit = FALSE
    BY <2>3
  <2> HIDE DEF hit, theirs
  <2>6. theirs(Other(w)) = [NoTrigger EXCEPT !.disturbed = FALSE]
    BY <2>1, <2>4, <2>5
  <2> QED BY <2>1, <2>6 DEF NoTrigger
<1>6. Pending(w)' = 0
  BY <1>2, <1>3 DEF Pending
<1>7. trigger' \in [Threads -> [event : Event \cup {"none"}, n : Nat \ {0},
                                at : {"next", "pushed", "ready", "runs"},
                                called : Seq(Hooks), disturbed : BOOLEAN]]
  <2> DEFINE Rec == [event : Event \cup {"none"}, n : Nat \ {0},
                     at : {"next", "pushed", "ready", "runs"},
                     called : Seq(Hooks), disturbed : BOOLEAN]
  <2>1. trigger[w] \in Rec /\ \A v \in Threads : trigger[v] \in Rec
    BY DEF Types
  <2>2. mine \in Rec
    <3>1. trigger[w].n + 1 \in Nat \ {0}
      BY <2>1
    <3>2. [trigger[w] EXCEPT !.n = trigger[w].n + 1] \in Rec
      BY <2>1, <3>1
    <3> QED BY <2>1, <3>1, <3>2
  <2>3. ASSUME NEW v \in Threads PROVE theirs(v) \in Rec
    <3>1. trigger[v].disturbed \in BOOLEAN
      BY <2>1
    <3>2. (trigger[v].disturbed \/ (~ok /\ trigger[v].at \in {"pushed", "ready"})) \in BOOLEAN
      BY <3>1
    <3> QED BY <2>1, <3>2
  <2> HIDE DEF Rec, mine, theirs
  <2>4. trigger' \in [Threads -> Rec]
    BY <1>1, <2>2, <2>3
  <2> QED BY <2>4 DEF Rec
<1> QED BY <1>2, <1>3, <1>4, <1>5, <1>6, <1>7

LEMMA ErrorStep ==
    ASSUME IInv, NEW w \in Threads, w = Running, Active(w), NEW kept \in Seq(Values),
           Len(kept) = failures + Pending(Other(w)), Error(w, kept), hooks' = hooks
    PROVE  IInv'
<1>1. stack' = Append(kept, "error") /\ failures' = failures + 1 /\ Advance(w, FALSE)
  BY DEF Error
<1>2. stack' \in Seq(Values) /\ Len(stack') = Len(kept) + 1
  BY <1>1 DEF Values
<1>3. FALSE \in BOOLEAN
  OBVIOUS
<1>4. /\ trigger' \in [Threads -> [event : Event \cup {"none"}, n : Nat \ {0},
                                at : {"next", "pushed", "ready", "runs"},
                                called : Seq(Hooks), disturbed : BOOLEAN]]
      /\ trigger'[w].event = trigger[w].event /\ Pending(w)' = 0
      /\ trigger'[Other(w)].at = trigger[Other(w)].at
      /\ trigger'[Other(w)].event = trigger[Other(w)].event
      /\ ~Active(Other(w)) => trigger'[Other(w)] = trigger[Other(w)]
  BY <1>1, <1>3, AdvanceLemma
<1>5. Types'
  BY <1>1, <1>2, <1>4 DEF IInv, Types
<1>6. Len(stack') = failures' + Pending(w)' + Pending(Other(w))
  <2>1. failures \in Nat /\ Pending(Other(w)) \in Nat
    BY OnStack
  <2> QED BY <1>1, <1>2, <1>4, <2>1
<1> QED BY <1>4, <1>5, <1>6, Close

LEMMA CallStep ==
    ASSUME IInv, NEW w \in Threads, Call(w)
    PROVE  IInv'
<1> USE DEF IInv
<1> DEFINE args == Len(Args(trigger[w].event))
           below == Len(stack) - args
           kept == SubSeq(stack, 1, below - 1)
<1>1. w = Running /\ trigger[w].at = "ready" /\ hooks' = hooks
  BY DEF Call
<1>2. Active(w)
  BY <1>1 DEF StackInv, NoTrigger
<1>3. Pending(w) = 1 + args /\ args \in Nat
  BY <1>1, ArgsLemma DEF Pending
<1>4. /\ Len(stack) \in Nat /\ below \in 1 .. Len(stack)
      /\ below - 1 = failures + Pending(Other(w))
  <2>1. /\ Pending(Other(w)) \in Nat /\ failures \in Nat
        /\ Len(stack) = failures + Pending(w) + Pending(Other(w))
    BY OnStack
  <2> HIDE DEF args
  <2>2. Len(stack) = failures + (1 + args) + Pending(Other(w))
    BY <1>3, <2>1
  <2> QED BY <1>3, <2>1, <2>2
<1>5. kept \in Seq(Values) /\ Len(kept) = failures + Pending(Other(w))
  <2>1. below - 1 \in 0 .. Len(stack)
    BY <1>4
  <2> HIDE DEF below
  <2> QED BY <1>4, <2>1 DEF Types
<1> HIDE DEF kept, below, args
<1>6. CASE stack[below] \in Hooks
  <2>1. /\ stack' = kept /\ failures' = failures
        /\ trigger' = [trigger EXCEPT ![w] = [trigger[w] EXCEPT !.at = "runs",
                                              !.called = Append(@, stack[below])]]
    BY <1>6 DEF Call, kept, below, args
  <2>2. /\ trigger'[w] = [trigger[w] EXCEPT !.at = "runs", !.called = Append(@, stack[below])]
        /\ trigger'[Other(w)] = trigger[Other(w)]
    BY <2>1, OneTrigger
  <2>3. trigger'[w].at = "runs" /\ trigger'[w].event = trigger[w].event
    BY <2>2 DEF Types
  <2>4. Pending(w)' = 0
    BY <2>3 DEF Pending
  <2>5. Types'
    <3>1. Append(trigger[w].called, stack[below]) \in Seq(Hooks)
      BY <1>6 DEF Types
    <3> DEFINE Rec == [event : Event \cup {"none"}, n : Nat \ {0},
                       at : {"next", "pushed", "ready", "runs"},
                       called : Seq(Hooks), disturbed : BOOLEAN]
    <3>2. trigger \in [Threads -> Rec]
      BY DEF Types
    <3>3. [trigger[w] EXCEPT !.at = "runs", !.called = Append(@, stack[below])] \in Rec
      BY <3>1, <3>2
    <3>4. trigger' \in [Threads -> Rec]
      BY <2>1, <3>2, <3>3
    <3> QED BY <1>1, <1>5, <2>1, <3>4 DEF Types
  <2>6. Len(stack') = failures' + Pending(w)' + Pending(Other(w))
    BY <1>5, <2>1, <2>4, OnStack
  <2> QED BY <1>1, <1>2, <2>2, <2>3, <2>5, <2>6, Close
<1>7. CASE stack[below] \notin Hooks
  <2>1. Error(w, kept)
    BY <1>7 DEF Call, kept, below, args
  <2> QED BY <1>1, <1>2, <1>5, <2>1, ErrorStep
<1> QED BY <1>6, <1>7

LEMMA ReturnStep ==
    ASSUME IInv, NEW w \in Threads, Return(w) \/ Raise(w)
    PROVE  IInv'
<1> USE DEF IInv
<1>1. w = Running /\ trigger[w].at = "runs" /\ hooks' = hooks
  BY DEF Return, Raise
<1>2. Active(w) /\ Pending(w) = 0
  BY <1>1 DEF StackInv, NoTrigger, Pending
<1>3. CASE Return(w)
  <2>1. Advance(w, TRUE) /\ stack' = stack /\ failures' = failures
    BY <1>3 DEF Return
  <2>2. Types'
    BY <1>1, <1>2, <2>1, AdvanceLemma DEF Types
  <2>3. Len(stack') = failures' + Pending(w)' + Pending(Other(w))
    BY <1>2, <2>1, AdvanceLemma, OnStack
  <2> QED BY <1>1, <1>2, <2>1, <2>2, <2>3, AdvanceLemma, Close
<1>4. CASE Raise(w)
  <2>1. Error(w, stack) /\ stack \in Seq(Values)
    BY <1>4 DEF Raise, Types
  <2>2. Len(stack) = failures + Pending(Other(w))
    BY <1>2, OnStack
  <2> QED BY <1>1, <1>2, <2>1, <2>2, ErrorStep
<1> QED BY <1>3, <1>4

(***************************************************************************)
(* Steps that begin or end a trigger                                       *)
(***************************************************************************)
\* A trigger with nothing on the stack before and after.
LEMMA Swap ==
    ASSUME IInv, NEW w \in Threads, Pending(w) = 0, NEW t,
           t = NoTrigger \/ (\E e \in Event : t = Trigger(e)),
           trigger' = [trigger EXCEPT ![w] = t],
           w = "handler" => trigger["main"].at # "runs",
           hooks' = hooks, stack' = stack, failures' = failures
    PROVE  IInv'
<1> USE DEF IInv
<1>1. t = [event |-> t.event, n |-> 1, at |-> "next", called |-> <<>>, disturbed |-> FALSE]
       /\ t.event \in Event \cup {"none"} /\ t.at = "next" /\ (t.event = "none" => t = NoTrigger)
  BY DEF NoTrigger, Trigger, Event
<1>2. trigger'[w] = t /\ trigger'[Other(w)] = trigger[Other(w)]
  BY OneTrigger
<1>3. Types'
  <2>1. t \in [event : Event \cup {"none"}, n : Nat \ {0},
               at : {"next", "pushed", "ready", "runs"},
               called : Seq(Hooks), disturbed : BOOLEAN]
    <3>1. ASSUME NEW e \in Event \cup {"none"}
          PROVE  [event |-> e, n |-> 1, at |-> "next", called |-> <<>>, disturbed |-> FALSE]
                    \in [event : Event \cup {"none"}, n : Nat \ {0},
                         at : {"next", "pushed", "ready", "runs"},
                         called : Seq(Hooks), disturbed : BOOLEAN]
      OBVIOUS
    <3> QED BY <1>1, <3>1
  <2> QED BY <2>1 DEF Types
<1>4. Pending(w)' = 0 /\ Pending(Other(w))' = Pending(Other(w))
  BY <1>1, <1>2 DEF Pending
<1>5. Len(stack') = failures' + Pending("main")' + Pending("handler")'
  BY <1>4 DEF StackInv, Threads, Other
<1>6. Active("handler")' => trigger'["main"].at # "runs"
  BY <1>1, <1>2, OtherLemma DEF StackInv, Active, Other, Threads
<1>7. \A v \in Threads : ~Active(v)' => trigger'[v] = NoTrigger
  BY <1>1, <1>2, OtherLemma DEF StackInv, Active
<1> QED BY <1>3, <1>5, <1>6, <1>7 DEF StackInv

LEMMA HooksStep ==
    ASSUME IInv, SomeRegister, UNCHANGED <<pc, stack, trigger, failures>>
    PROVE  IInv'
  BY RegisterLemma DEF IInv, Types, StackInv, Pending, Active

LEMMA ReloadStep ==
    ASSUME IInv, Reload
    PROVE  IInv'
<1> USE DEF IInv
<1>1. /\ hooks' = [e \in Event |-> <<>>] /\ stack' = <<>> /\ failures' = 0 /\ trigger' = trigger
      /\ ~Active("main") /\ ~Active("handler")
  BY DEF Reload, Idle
<1>2. trigger["main"] = NoTrigger /\ trigger["handler"] = NoTrigger
  BY <1>1 DEF StackInv, Threads
<1>3. Types'
  BY <1>1 DEF Types
<1>4. Pending("main")' = 0 /\ Pending("handler")' = 0
  BY <1>1, <1>2 DEF Pending, NoTrigger
<1> QED BY <1>1, <1>3, <1>4 DEF StackInv, Active

LEMMA NextIInv == IInv /\ [Next]_vars => IInv'
<1> SUFFICES ASSUME IInv, [Next]_vars PROVE IInv'
  OBVIOUS
<1>1. CASE Configure
  BY <1>1, HooksStep DEF Configure
<1>2. CASE Enter \/ Key \/ Exit
  <2>1. PICK e \in Event : Begin("main", e)
    BY <1>2 DEF Enter, Key, Exit, Event
  <2>2. "main" \in Threads /\ trigger["main"] = NoTrigger
    BY <1>2 DEF Enter, Key, Exit, Idle, IInv, StackInv, Threads
  <2>3. Pending("main") = 0
    BY <2>2 DEF Pending, NoTrigger
  <2> QED BY <2>1, <2>2, <2>3, Swap DEF Begin
<1>3. CASE Reload
  BY <1>3, ReloadStep
<1>4. CASE Signal
  <2>1. /\ Begin("handler", "signal") /\ "signal" \in Event /\ "handler" \in Threads
        /\ trigger["main"].at # "runs" /\ trigger["handler"] = NoTrigger
    BY <1>4 DEF Signal, IInv, StackInv, Event, Threads
  <2>2. Pending("handler") = 0
    BY <2>1 DEF Pending, NoTrigger
  <2> QED BY <2>1, <2>2, Swap DEF Begin
<1>5. CASE \E w \in Threads : TriggerStep(w)
  <2>1. PICK w \in Threads : TriggerStep(w)
    BY <1>5
  <2>2. CASE PushHook(w)
    BY <2>2, PushHookStep
  <2>3. CASE PushArgs(w)
    BY <2>3, PushArgsStep
  <2>4. CASE Call(w)
    BY <2>4, CallStep
  <2>5. CASE Return(w) \/ Raise(w)
    BY <2>5, ReturnStep
  <2>6. CASE Finish(w)
    <3>1. trigger[w].at = "next" /\ trigger' = [trigger EXCEPT ![w] = NoTrigger]
          /\ hooks' = hooks /\ stack' = stack /\ failures' = failures
          /\ (w = "handler" => Active("handler"))
      BY <2>6 DEF Finish
    <3>2. Pending(w) = 0 /\ (w = "handler" => trigger["main"].at # "runs")
      BY <3>1 DEF Pending, IInv, StackInv
    <3> QED BY <3>1, <3>2, Swap
  <2>7. CASE HookRegisters(w)
    BY <2>7, HooksStep DEF HookRegisters
  <2> QED BY <2>1, <2>2, <2>3, <2>4, <2>5, <2>6, <2>7 DEF TriggerStep
<1>6. CASE UNCHANGED vars
  BY <1>6 DEF vars, IInv, Types, StackInv, Pending, Active
<1> QED BY <1>1, <1>2, <1>3, <1>4, <1>5, <1>6 DEF Next

(***************************************************************************)
(* Theorems                                                                *)
(***************************************************************************)
\* Every variable of the events keeps its type; a trigger calls functions only.
THEOREM TypeCorrect == Spec => []TypeOK
<1> DEFINE Places == pc \in {"boot", "loop", "exit"}
<1>1. Init => IInv /\ Places
  BY InitIInv DEF Init
<1>2. IInv /\ Places /\ [Next]_vars => IInv' /\ Places'
  BY NextIInv DEF Next, vars, Configure, Enter, Key, Exit, Reload, Signal, TriggerStep,
     PushHook, PushArgs, Call, Return, Raise, Finish, HookRegisters
<1>3. IInv /\ Places => TypeOK
  BY DEF IInv, Types, TypeOK, Values, Value
<1> QED BY <1>1, <1>2, <1>3, PTL DEF Spec

\* The steps of trigger_event leave nothing on the Lua stack but the messages of the
\* calls that failed, whatever the hooks and wherever the signals fall: what a trigger
\* has pushed and not yet used is its own, and is gone when it ends.
THEOREM OnlyErrorsLeft == Spec => []OneValuePerFailure
<1>1. IInv => OneValuePerFailure
  <2> SUFFICES ASSUME IInv, Idle PROVE Len(stack) = failures
    BY DEF OneValuePerFailure
  <2>1. trigger["main"] = NoTrigger /\ trigger["handler"] = NoTrigger
    BY DEF Idle, IInv, StackInv, Threads
  <2>2. Pending("main") = 0 /\ Pending("handler") = 0
    BY <2>1 DEF Pending, NoTrigger
  <2> QED BY <2>2 DEF IInv, StackInv, Types
<1> QED BY <1>1, InitIInv, NextIInv, PTL DEF Spec

(***************************************************************************)
(* What a trigger has called                                               *)
(***************************************************************************)
\* Where the hook a trigger pushed lies: above the errors, and main's under the handler's.
\* (An error that comes above a hook disturbs its trigger.)
Place(w) == failures + 1 + (IF w = "handler" THEN Pending("main") ELSE 0)

\* A trigger that nothing disturbed has called the functions it has passed, and what it
\* is about to call is the hook it is at.
CallInv(w) ==
    Active(w) =>
        /\ trigger[w].n <= Len(Own(w)) + (IF trigger[w].at = "next" THEN 1 ELSE 0)
        /\ w = "handler" => ~trigger[w].disturbed
        /\ ~trigger[w].disturbed =>
             /\ InOrder(trigger[w].called, Own(w),
                        IF trigger[w].at = "runs" THEN trigger[w].n ELSE trigger[w].n - 1)
             /\ trigger[w].at \in {"pushed", "ready"} =>
                  stack[Place(w)] = Own(w)[trigger[w].n]

CallsInv == \A w \in Threads : CallInv(w)

\* A list that grows keeps what was called of it.
LEMMA InOrderGrows ==
    ASSUME NEW called, NEW s, NEW t, NEW k, \A j \in 1 .. k : t[j] = s[j], InOrder(called, s, k)
    PROVE  InOrder(called, t, k)
<1>1. PICK at \in [DOMAIN called -> 1 .. k] :
        /\ {at[i] : i \in DOMAIN called} = {j \in 1 .. k : s[j] \in Hooks}
        /\ \A i \in DOMAIN called : called[i] = s[at[i]]
        /\ \A i, j \in DOMAIN called : i < j => at[i] < at[j]
  BY DEF InOrder
<1>2. {j \in 1 .. k : s[j] \in Hooks} = {j \in 1 .. k : t[j] \in Hooks}
  OBVIOUS
<1>3. \A i \in DOMAIN called : called[i] = t[at[i]]
  BY <1>1
<1> QED BY <1>1, <1>2, <1>3 DEF InOrder

\* The next value is no function, or it is called.
LEMMA InOrderNext ==
    ASSUME NEW called \in Seq(Hooks), NEW s, NEW k \in Nat, InOrder(called, s, k)
    PROVE  /\ s[k + 1] \notin Hooks => InOrder(called, s, k + 1)
           /\ s[k + 1] \in Hooks => InOrder(Append(called, s[k + 1]), s, k + 1)
<1>1. PICK at \in [DOMAIN called -> 1 .. k] :
        /\ {at[i] : i \in DOMAIN called} = {j \in 1 .. k : s[j] \in Hooks}
        /\ \A i \in DOMAIN called : called[i] = s[at[i]]
        /\ \A i, j \in DOMAIN called : i < j => at[i] < at[j]
  BY DEF InOrder
<1>2. ASSUME s[k + 1] \notin Hooks PROVE InOrder(called, s, k + 1)
  <2>1. at \in [DOMAIN called -> 1 .. k + 1]
    BY <1>1
  <2>2. {j \in 1 .. k + 1 : s[j] \in Hooks} = {j \in 1 .. k : s[j] \in Hooks}
    BY <1>2
  <2> QED BY <1>1, <2>1, <2>2 DEF InOrder
<1>3. ASSUME s[k + 1] \in Hooks PROVE InOrder(Append(called, s[k + 1]), s, k + 1)
  <2> DEFINE m == Len(called)
             more == Append(called, s[k + 1])
             next == [i \in 1 .. m + 1 |-> IF i = m + 1 THEN k + 1 ELSE at[i]]
  <2>1. /\ m \in Nat /\ DOMAIN called = 1 .. m /\ DOMAIN more = 1 .. m + 1
        /\ more[m + 1] = s[k + 1] /\ \A i \in 1 .. m : more[i] = called[i]
    BY <1>3
  <2> HIDE DEF m, more
  <2>2. \A i \in 1 .. m : at[i] \in 1 .. k /\ next[i] = at[i]
    BY <2>1
  <2>3. next[m + 1] = k + 1 /\ next \in [1 .. m + 1 -> 1 .. k + 1]
    BY <2>1, <2>2
  <2> HIDE DEF next
  <2>4. ASSUME NEW j \in 1 .. k + 1, s[j] \in Hooks PROVE \E i \in 1 .. m + 1 : next[i] = j
    <3>1. CASE j = k + 1
      BY <2>1, <2>3, <3>1
    <3>2. CASE j \in 1 .. k
      <4>0. j \in {at[i] : i \in DOMAIN called}
        BY <1>1, <2>4, <3>2
      <4>1. PICK i \in 1 .. m : at[i] = j
        BY <2>1, <4>0
      <4>2. i \in 1 .. m + 1
        BY <2>1
      <4> QED BY <2>2, <4>1, <4>2
    <3> QED BY <3>1, <3>2
  <2>5. ASSUME NEW i \in 1 .. m + 1
        PROVE  next[i] \in 1 .. k + 1 /\ s[next[i]] \in Hooks /\ more[i] = s[next[i]]
    <3>1. CASE i = m + 1
      BY <1>3, <2>1, <2>3, <3>1
    <3>2. CASE i \in 1 .. m
      <4>1. at[i] \in {j \in 1 .. k : s[j] \in Hooks}
        BY <1>1, <2>1, <3>2
      <4>2. next[i] = at[i] /\ at[i] \in 1 .. k
        BY <2>2, <3>2
      <4>3. more[i] = called[i] /\ called[i] = s[at[i]]
        BY <1>1, <2>1, <3>2
      <4>4. s[at[i]] \in Hooks /\ at[i] \in 1 .. k + 1
        BY <4>1, <4>2
      <4> QED BY <4>2, <4>3, <4>4
    <3> QED BY <2>1, <3>1, <3>2
  <2>6. {next[i] : i \in 1 .. m + 1} = {j \in 1 .. k + 1 : s[j] \in Hooks}
    BY <2>4, <2>5
  <2>7. ASSUME NEW i \in 1 .. m + 1, NEW j \in 1 .. m + 1, i < j PROVE next[i] < next[j]
    <3>1. i \in 1 .. m
      BY <2>1, <2>7
    <3>2. CASE j = m + 1
      BY <2>2, <2>3, <3>1, <3>2
    <3>3. CASE j \in 1 .. m
      BY <1>1, <2>1, <2>2, <2>7, <3>1, <3>3
    <3> QED BY <2>1, <3>2, <3>3
  <2>8. \E a \in [DOMAIN more -> 1 .. k + 1] :
          /\ {a[i] : i \in DOMAIN more} = {j \in 1 .. k + 1 : s[j] \in Hooks}
          /\ \A i \in DOMAIN more : more[i] = s[a[i]]
          /\ \A i, j \in DOMAIN more : i < j => a[i] < a[j]
    <3>1. next \in [DOMAIN more -> 1 .. k + 1]
      BY <2>1, <2>3
    <3>2. {next[i] : i \in DOMAIN more} = {j \in 1 .. k + 1 : s[j] \in Hooks}
      BY <2>1, <2>6
    <3> QED BY <2>1, <2>5, <2>7, <3>1, <3>2
  <2> QED BY <2>8 DEF InOrder, more
<1> QED BY <1>2, <1>3

\* Nothing called, of nothing.
LEMMA InOrderNone == \A s : InOrder(<<>>, s, 0)
<1> SUFFICES ASSUME NEW s PROVE InOrder(<<>>, s, 0)
  OBVIOUS
<1> DEFINE at == [i \in {} |-> 0]
<1>1. DOMAIN <<>> = {} /\ at \in [DOMAIN <<>> -> 1 .. 0] /\ 1 .. 0 = {}
  OBVIOUS
<1> QED BY <1>1 DEF InOrder

\* A trigger that a step only disturbs, if anything, keeps what it has called.
LEMMA Waits ==
    ASSUME IInv, NEW v \in Threads, CallInv(v), Active(v), hooks' = hooks,
           trigger'[v].event = trigger[v].event, trigger'[v].n = trigger[v].n,
           trigger'[v].at = trigger[v].at, trigger'[v].called = trigger[v].called,
           v = "handler" => trigger'[v] = trigger[v],
           ~trigger'[v].disturbed => ~trigger[v].disturbed,
           ~trigger'[v].disturbed /\ trigger[v].at \in {"pushed", "ready"} =>
               stack'[Place(v)'] = stack[Place(v)]
    PROVE  CallInv(v)'
<1>1. Own(v)' = Own(v) /\ Active(v)'
  BY DEF Own, Active
<1> QED BY <1>1 DEF CallInv

\* A step of the trigger that runs keeps the invariant of the other one: main waits
\* under the handler, and the handler is not there while main runs.
LEMMA OtherCalls ==
    ASSUME IInv, CallsInv, NEW w \in Threads, w = Running, Active(w),
           IF w = "main" THEN trigger'["handler"] = trigger["handler"]
           ELSE /\ hooks' = hooks
                /\ trigger'["main"].event = trigger["main"].event
                /\ trigger'["main"].n = trigger["main"].n
                /\ trigger'["main"].at = trigger["main"].at
                /\ trigger'["main"].called = trigger["main"].called
                /\ ~trigger'["main"].disturbed => ~trigger["main"].disturbed
                /\ ~trigger'["main"].disturbed /\ trigger["main"].at \in {"pushed", "ready"} =>
                     /\ failures' = failures
                     /\ stack'[failures + 1] = stack[failures + 1]
    PROVE  CallInv(Other(w))'
<1>1. CASE w = "main"
  <2>1. ~Active("handler") /\ ~Active("handler")'
    BY <1>1 DEF Running, Active
  <2> QED BY <1>1, <2>1 DEF CallInv, Other
<1>2. CASE w = "handler"
  <2>1. "main" \in Threads /\ Other(w) = "main" /\ failures \in Nat /\ failures' + 1 + 0 = failures' + 1 + 0
    BY <1>2 DEF Threads, Other, IInv, Types
  <2>2. CASE Active("main")
    <3>1. Place("main") = failures + 1 + 0 /\ Place("main")' = failures' + 1 + 0
      BY DEF Place
    <3>2. failures + 1 + 0 = failures + 1
      BY <2>1
    <3> QED BY <1>2, <2>1, <2>2, <3>1, <3>2, Waits DEF CallsInv
  <2>3. CASE ~Active("main")
    BY <1>2, <2>1, <2>3 DEF CallInv, Active
  <2> QED BY <2>2, <2>3
<1> QED BY <1>1, <1>2 DEF Threads

LEMMA BothCalls ==
    ASSUME NEW w \in Threads, CallInv(w)', CallInv(Other(w))'
    PROVE  CallsInv'
  BY OtherLemma DEF CallsInv

\* What is under a trigger's own place is main's, if it is the handler.
LEMMA PlaceLemma ==
    ASSUME IInv, NEW w \in Threads, w = Running, Active(w)
    PROVE  /\ Place(w) \in Nat /\ failures \in Nat /\ Len(stack) \in Nat
           /\ Len(stack) + 1 = Place(w) + Pending(w)
           /\ w = "handler" /\ trigger["main"].at \in {"pushed", "ready"} =>
                failures + 1 < Place(w)
<1>1. /\ Pending("main") \in Nat /\ Pending("handler") \in Nat
      /\ failures \in Nat /\ Len(stack) = failures + Pending("main") + Pending("handler")
      /\ Len(stack) \in Nat
  BY PendingNat DEF IInv, Types, StackInv, Threads
<1>2. w = "main" => Pending("handler") = 0
  BY DEF Running, Active, IInv, StackInv, Pending, NoTrigger, Threads
<1>3. trigger["main"].at \in {"pushed", "ready"} => Pending("main") >= 1
  BY ArgsLemma DEF Pending
<1> QED BY <1>1, <1>2, <1>3 DEF Place, Threads

LEMMA PushHookCalls ==
    ASSUME IInv, CallsInv, NEW w \in Threads, PushHook(w)
    PROVE  CallsInv'
<1>1. /\ w = Running /\ Active(w) /\ trigger[w].at = "next" /\ trigger[w].n <= Len(Own(w))
      /\ stack' = Append(stack, Own(w)[trigger[w].n])
      /\ trigger' = [trigger EXCEPT ![w] = [trigger[w] EXCEPT !.at = "pushed"]]
      /\ hooks' = hooks /\ failures' = failures
  BY DEF PushHook, Step
<1>2. trigger'[w] = [trigger[w] EXCEPT !.at = "pushed"] /\ trigger'[Other(w)] = trigger[Other(w)]
  BY <1>1, OneTrigger DEF IInv
<1>3. /\ trigger'[w].at = "pushed" /\ trigger'[w].event = trigger[w].event
      /\ trigger'[w].n = trigger[w].n /\ trigger'[w].called = trigger[w].called
      /\ trigger'[w].disturbed = trigger[w].disturbed
  BY <1>2 DEF IInv, Types
<1>4. /\ Place(w) \in Nat /\ Len(stack) + 1 = Place(w) + 0 /\ failures \in Nat
      /\ w = "handler" /\ trigger["main"].at \in {"pushed", "ready"} => failures + 1 < Place(w)
  BY <1>1, PlaceLemma DEF Pending
<1>5. Place(w)' = Place(w)
  BY <1>1, <1>2 DEF Place, Pending, Threads, Other
<1>6. /\ stack'[Place(w)'] = Own(w)[trigger[w].n]
      /\ \A i \in 1 .. Len(stack) : stack'[i] = stack[i]
  BY <1>1, <1>4, <1>5 DEF IInv, Types
<1>7. Own(w)' = Own(w)
  BY <1>1, <1>3 DEF Own
<1>8. CallInv(w)'
  <2>1. CallInv(w) /\ Active(w)
    BY <1>1 DEF CallsInv
  <2>2. trigger[w].n <= Len(Own(w)) + 0
    BY <1>1, ActiveTypes DEF IInv
  <2> QED BY <1>1, <1>3, <1>6, <1>7, <2>1, <2>2 DEF CallInv
<1>9. w = "handler" /\ trigger["main"].at \in {"pushed", "ready"} =>
        stack'[failures + 1] = stack[failures + 1]
  BY <1>4, <1>6
<1>10. CallInv(Other(w))'
  BY <1>1, <1>2, <1>9, OtherCalls DEF Other, Threads
<1> QED BY <1>8, <1>10, BothCalls

LEMMA PushArgsCalls ==
    ASSUME IInv, CallsInv, NEW w \in Threads, PushArgs(w)
    PROVE  CallsInv'
<1>1. /\ w = Running /\ trigger[w].at = "pushed"
      /\ stack' = stack \o Args(trigger[w].event)
      /\ trigger' = [trigger EXCEPT ![w] = [trigger[w] EXCEPT !.at = "ready"]]
      /\ hooks' = hooks /\ failures' = failures
  BY DEF PushArgs, Step
<1>2. trigger'[w] = [trigger[w] EXCEPT !.at = "ready"] /\ trigger'[Other(w)] = trigger[Other(w)]
  BY <1>1, OneTrigger DEF IInv
<1>3. /\ trigger'[w].at = "ready" /\ trigger'[w].event = trigger[w].event
      /\ trigger'[w].n = trigger[w].n /\ trigger'[w].called = trigger[w].called
      /\ trigger'[w].disturbed = trigger[w].disturbed /\ Active(w)
  BY <1>1, <1>2 DEF IInv, Types, StackInv, NoTrigger
<1>4. /\ Place(w) \in Nat \ {0} /\ Len(stack) + 1 = Place(w) + 1 /\ failures \in Nat
      /\ w = "handler" /\ trigger["main"].at \in {"pushed", "ready"} => failures + 1 < Place(w)
  <2>1. Pending(w) = 1
    BY <1>1 DEF Pending
  <2>2. failures + 1 <= Place(w)
    BY PendingNat DEF Place, IInv, Threads, Types
  <2> QED BY <1>1, <1>3, <2>1, <2>2, PlaceLemma
<1>5. Place(w)' = Place(w)
  BY <1>1, <1>2 DEF Place, Pending, Threads, Other
<1>6. \A i \in 1 .. Len(stack) : stack'[i] = stack[i]
  BY <1>1, ArgsLemma DEF IInv, Types
<1>7. stack'[Place(w)'] = stack[Place(w)]
  BY <1>4, <1>5, <1>6
<1>8. Own(w)' = Own(w)
  BY <1>1, <1>3 DEF Own
<1>9. CallInv(w)'
  BY <1>1, <1>3, <1>7, <1>8 DEF CallInv, CallsInv
<1>10. w = "handler" /\ trigger["main"].at \in {"pushed", "ready"} =>
        stack'[failures + 1] = stack[failures + 1]
  BY <1>4, <1>6
<1>11. CallInv(Other(w))'
  BY <1>1, <1>2, <1>3, <1>10, OtherCalls DEF Other, Threads
<1> QED BY <1>9, <1>11, BothCalls

\* What Advance does to the fields of both triggers.
LEMMA AdvanceFields ==
    ASSUME IInv, NEW w \in Threads, NEW ok \in BOOLEAN, Advance(w, ok)
    PROVE  /\ trigger'[w].n = trigger[w].n + 1 /\ trigger'[w].at = "next"
           /\ trigger'[w].event = trigger[w].event /\ trigger'[w].called = trigger[w].called
           /\ trigger'[w].disturbed = trigger[w].disturbed
           /\ LET o == Other(w) IN
              /\ trigger'[o].n = trigger[o].n /\ trigger'[o].at = trigger[o].at
              /\ trigger'[o].event = trigger[o].event /\ trigger'[o].called = trigger[o].called
              /\ ~trigger'[o].disturbed =>
                   ~trigger[o].disturbed /\ (ok \/ trigger[o].at \notin {"pushed", "ready"})
<1> DEFINE Rec == [event : Event \cup {"none"}, n : Nat \ {0},
                   at : {"next", "pushed", "ready", "runs"},
                   called : Seq(Hooks), disturbed : BOOLEAN]
           mine == [trigger[w] EXCEPT !.n = @ + 1, !.at = "next"]
           theirs(v) == [trigger[v] EXCEPT
                !.disturbed = @ \/ (~ok /\ trigger[v].at \in {"pushed", "ready"})]
<1>1. trigger' = [v \in Threads |-> IF v = w THEN mine ELSE theirs(v)]
  BY DEF Advance
<1>2. Other(w) \in Threads /\ trigger'[w] = mine /\ trigger'[Other(w)] = theirs(Other(w))
  BY <1>1, OtherLemma
<1>3. trigger[w] \in Rec /\ trigger[Other(w)] \in Rec
  BY <1>2 DEF IInv, Types
<1>4. /\ mine.n = trigger[w].n + 1 /\ mine.at = "next" /\ mine.event = trigger[w].event
      /\ mine.called = trigger[w].called /\ mine.disturbed = trigger[w].disturbed
  BY <1>3
<1>5. LET o == Other(w) IN
        /\ theirs(o).n = trigger[o].n /\ theirs(o).at = trigger[o].at
        /\ theirs(o).event = trigger[o].event /\ theirs(o).called = trigger[o].called
        /\ theirs(o).disturbed =
             (trigger[o].disturbed \/ (~ok /\ trigger[o].at \in {"pushed", "ready"}))
  BY <1>3
<1> QED BY <1>2, <1>4, <1>5

\* The call of the hook at n is over, and so are those before it.
LEMMA AdvanceCalls ==
    ASSUME IInv, CallsInv, NEW w \in Threads, w = Running, Active(w), hooks' = hooks,
           trigger[w].n <= Len(Own(w)),
           ~trigger[w].disturbed => InOrder(trigger[w].called, Own(w), trigger[w].n),
           NEW ok \in BOOLEAN, Advance(w, ok),
           ok => failures' = failures /\ stack' = stack
    PROVE  CallsInv'
<1> DEFINE o == Other(w)
<1>1. /\ trigger'[w].n = trigger[w].n + 1 /\ trigger'[w].at = "next"
      /\ trigger'[w].event = trigger[w].event /\ trigger'[w].called = trigger[w].called
      /\ trigger'[w].disturbed = trigger[w].disturbed
      /\ trigger'[o].n = trigger[o].n /\ trigger'[o].at = trigger[o].at
      /\ trigger'[o].event = trigger[o].event /\ trigger'[o].called = trigger[o].called
      /\ ~trigger'[o].disturbed =>
           ~trigger[o].disturbed /\ (ok \/ trigger[o].at \notin {"pushed", "ready"})
  BY AdvanceFields
<1>2. Own(w)' = Own(w) /\ Own(w) \in Seq(Value) /\ trigger[w].n \in Nat \ {0}
  BY <1>1, ActiveTypes DEF Own, IInv
<1>3. CallInv(w)'
  <2>1. /\ trigger'[w].n <= Len(Own(w)') + 1 /\ trigger'[w].n - 1 = trigger[w].n
    BY <1>1, <1>2
  <2>2. w = "handler" => ~trigger[w].disturbed
    BY DEF CallsInv, CallInv
  <2> QED BY <1>1, <1>2, <2>1, <2>2 DEF CallInv
<1>4. ~Active(o) => trigger'[o] = trigger[o]
  BY AdvanceLemma
<1>5. CallInv(o)'
  <2>1. CASE w = "main"
    <3>1. o = "handler" /\ ~Active("handler")
      BY <2>1 DEF Other, Running, Active
    <3>2. trigger'["handler"] = trigger["handler"]
      BY <1>4, <3>1
    <3> QED BY <2>1, <3>2, OtherCalls
  <2>2. CASE w = "handler"
    <3>1. o = "main"
      BY <2>2 DEF Other
    <3> HIDE DEF o
    <3>2. /\ trigger'["main"].n = trigger["main"].n /\ trigger'["main"].at = trigger["main"].at
          /\ trigger'["main"].event = trigger["main"].event
          /\ trigger'["main"].called = trigger["main"].called
          /\ ~trigger'["main"].disturbed =>
               ~trigger["main"].disturbed /\ (ok \/ trigger["main"].at \notin {"pushed", "ready"})
      BY <1>1, <3>1
    <3>3. ~trigger'["main"].disturbed /\ trigger["main"].at \in {"pushed", "ready"} =>
             failures' = failures /\ stack'[failures + 1] = stack[failures + 1]
      BY <3>2
    <3>4. "handler" # "main"
      OBVIOUS
    <3> QED BY <2>2, <3>2, <3>3, <3>4, OtherCalls DEF o
  <2> QED BY <2>1, <2>2 DEF Threads
<1> QED BY <1>3, <1>5, BothCalls

LEMMA CallCalls ==
    ASSUME IInv, CallsInv, NEW w \in Threads, Call(w)
    PROVE  CallsInv'
<1> DEFINE args == Len(Args(trigger[w].event))
           below == Len(stack) - args
           kept == SubSeq(stack, 1, below - 1)
           n == trigger[w].n
<1>1. w = Running /\ trigger[w].at = "ready" /\ hooks' = hooks
  BY DEF Call
<1>2. Active(w) /\ Pending(w) = 1 + args /\ args \in Nat
  BY <1>1, ArgsLemma DEF IInv, StackInv, NoTrigger, Pending
<1>3. n \in Nat \ {0} /\ trigger[w].called \in Seq(Hooks)
  BY <1>2, ActiveTypes DEF IInv
<1>4. /\ Place(w) \in Nat /\ failures \in Nat /\ Len(stack) \in Nat
      /\ below = Place(w)
      /\ w = "handler" /\ trigger["main"].at \in {"pushed", "ready"} => failures + 1 < Place(w)
  <2>1. Place(w) \in Nat /\ Len(stack) \in Nat /\ Len(stack) + 1 = Place(w) + (1 + args)
    BY <1>1, <1>2, PlaceLemma
  <2> HIDE DEF args
  <2>2. below = Place(w)
    BY <1>2, <2>1
  <2> QED BY <1>1, <1>2, <2>1, <2>2, PlaceLemma
<1> HIDE DEF args
<1>5. /\ n <= Len(Own(w))
      /\ w = "handler" => ~trigger[w].disturbed
      /\ ~trigger[w].disturbed =>
           InOrder(trigger[w].called, Own(w), n - 1) /\ stack[below] = Own(w)[n]
  <2>1. CallInv(w)
    BY DEF CallsInv
  <2>2. n <= Len(Own(w)) + 0
    BY <1>1, <1>2, <2>1 DEF CallInv
  <2>3. Own(w) \in Seq(Value)
    BY <1>2, ActiveTypes DEF IInv
  <2> QED BY <1>1, <1>2, <1>3, <1>4, <2>1, <2>2, <2>3 DEF CallInv
<1>6. CASE stack[below] \in Hooks
  <2>1. /\ stack' = kept /\ failures' = failures
        /\ trigger' = [trigger EXCEPT ![w] = [trigger[w] EXCEPT !.at = "runs",
                                              !.called = Append(@, stack[below])]]
    BY <1>6 DEF Call, args
  <2>2. /\ trigger'[w] = [trigger[w] EXCEPT !.at = "runs", !.called = Append(@, stack[below])]
        /\ trigger'[Other(w)] = trigger[Other(w)]
    BY <2>1, OneTrigger DEF IInv
  <2>3. /\ trigger'[w].at = "runs" /\ trigger'[w].event = trigger[w].event
        /\ trigger'[w].n = n /\ trigger'[w].disturbed = trigger[w].disturbed
        /\ trigger'[w].called = Append(trigger[w].called, stack[below])
    BY <2>2 DEF IInv, Types
  <2>4. ~trigger[w].disturbed => InOrder(trigger'[w].called, Own(w), n)
    <3> SUFFICES ASSUME ~trigger[w].disturbed PROVE InOrder(trigger'[w].called, Own(w), n)
      OBVIOUS
    <3>1. n - 1 \in Nat /\ n - 1 + 1 = n /\ stack[below] = Own(w)[n]
      BY <1>3, <1>5
    <3>2. Own(w)[(n - 1) + 1] \in Hooks
      BY <1>6, <3>1
    <3>3. InOrder(Append(trigger[w].called, Own(w)[(n - 1) + 1]), Own(w), (n - 1) + 1)
      BY <1>3, <1>5, <3>1, <3>2, InOrderNext
    <3> QED BY <2>3, <3>1, <3>3
  <2>5. Own(w)' = Own(w)
    BY <1>1, <2>3 DEF Own
  <2>6. CallInv(w)'
    <3>1. n <= Len(Own(w)) + 0
      <4>1. Own(w) \in Seq(Value)
        BY <1>2, ActiveTypes DEF IInv
      <4>2. Len(Own(w)) + 0 = Len(Own(w))
        BY <4>1
      <4> QED BY <1>5, <4>2
    <3> QED BY <1>5, <2>3, <2>4, <2>5, <3>1 DEF CallInv
  <2>7. w = "handler" /\ trigger["main"].at \in {"pushed", "ready"} =>
          stack'[failures + 1] = stack[failures + 1]
    <3> SUFFICES ASSUME failures + 1 < below PROVE kept[failures + 1] = stack[failures + 1]
      BY <1>4, <2>1
    <3>1. failures + 1 \in 1 .. below - 1 /\ below <= Len(stack)
      BY <1>2, <1>4 DEF below
    <3> HIDE DEF below
    <3> QED BY <1>4, <3>1 DEF IInv, Types
  <2>8. CallInv(Other(w))'
    <3>1. w = "main" => trigger'["handler"] = trigger["handler"]
      BY <2>2 DEF Other
    <3>2. w = "handler" => trigger'["main"] = trigger["main"]
      BY <2>2 DEF Other
    <3>3. "handler" # "main"
      OBVIOUS
    <3> QED BY <1>1, <1>2, <2>1, <2>7, <3>1, <3>2, <3>3, OtherCalls DEF Threads
  <2> QED BY <2>6, <2>8, BothCalls
<1>7. CASE stack[below] \notin Hooks
  <2>1. Advance(w, FALSE) /\ FALSE \in BOOLEAN
    BY <1>7 DEF Call, Error, args
  <2>2. ~trigger[w].disturbed => InOrder(trigger[w].called, Own(w), n)
    <3> SUFFICES ASSUME ~trigger[w].disturbed PROVE InOrder(trigger[w].called, Own(w), n)
      OBVIOUS
    <3>1. n - 1 \in Nat /\ n - 1 + 1 = n /\ stack[below] = Own(w)[n]
      BY <1>3, <1>5
    <3>2. Own(w)[(n - 1) + 1] \notin Hooks
      BY <1>7, <3>1
    <3>3. InOrder(trigger[w].called, Own(w), (n - 1) + 1)
      BY <1>3, <1>5, <3>1, <3>2, InOrderNext
    <3> QED BY <3>1, <3>3
  <2>3. ~FALSE /\ n <= Len(Own(w))
    BY <1>5
  <2> QED BY <1>1, <1>2, <2>1, <2>2, <2>3, AdvanceCalls
<1> QED BY <1>6, <1>7

LEMMA ReturnCalls ==
    ASSUME IInv, CallsInv, NEW w \in Threads, Return(w) \/ Raise(w)
    PROVE  CallsInv'
<1>1. w = Running /\ trigger[w].at = "runs" /\ hooks' = hooks
  BY DEF Return, Raise
<1>2. Active(w)
  BY <1>1 DEF IInv, StackInv, NoTrigger
<1>3. /\ trigger[w].n <= Len(Own(w))
      /\ ~trigger[w].disturbed => InOrder(trigger[w].called, Own(w), trigger[w].n)
  <2>1. trigger[w].n <= Len(Own(w)) + 0
    BY <1>1, <1>2 DEF CallsInv, CallInv
  <2>2. Own(w) \in Seq(Value)
    BY <1>2, ActiveTypes DEF IInv
  <2> QED BY <1>1, <1>2, <2>1, <2>2 DEF CallsInv, CallInv
<1>4. \E ok \in BOOLEAN : Advance(w, ok) /\ (ok => failures' = failures /\ stack' = stack)
  BY DEF Return, Raise, Error
<1> QED BY <1>1, <1>2, <1>3, <1>4, AdvanceCalls

\* A step that begins or ends the trigger of w, and leaves the other one alone.
LEMMA SwapCalls ==
    ASSUME IInv, CallsInv, NEW w \in Threads, Pending(w) = 0, NEW t,
           t = NoTrigger \/ (\E e \in Event : t = Trigger(e)),
           trigger' = [trigger EXCEPT ![w] = t],
           hooks' = hooks, stack' = stack, failures' = failures
    PROVE  CallsInv'
<1>1. t = [event |-> t.event, n |-> 1, at |-> "next", called |-> <<>>, disturbed |-> FALSE]
       /\ t.event \in Event \cup {"none"}
  BY DEF NoTrigger, Trigger, Event
<1>2. trigger'[w] = t /\ trigger'[Other(w)] = trigger[Other(w)]
  BY OneTrigger DEF IInv
<1>3. CallInv(w)'
  <2> SUFFICES ASSUME Active(w)' PROVE CallInv(w)'
    BY DEF CallInv
  <2>1. t.event \in Event /\ t.n = 1 /\ t.at = "next" /\ t.called = <<>> /\ t.disturbed = FALSE
    BY <1>1, <1>2 DEF Active
  <2>2. Own(w)' \in Seq(Value)
    BY <1>2, <2>1 DEF Own, IInv, Types
  <2>3. 1 <= Len(Own(w)') + 1 /\ 1 - 1 = 0
    BY <2>2
  <2> QED BY <1>2, <2>1, <2>3, InOrderNone DEF CallInv
<1>4. CallInv(Other(w))'
  <2>1. Pending(w)' = 0
    BY <1>1, <1>2 DEF Pending
  <2>2. Place(Other(w))' = Place(Other(w))
    BY <2>1 DEF Place, Other, Threads
  <2>3. CallInv(Other(w)) /\ Other(w) \in Threads
    BY OtherLemma DEF CallsInv
  <2> QED BY <1>2, <2>2, <2>3 DEF CallInv, Active, Own
<1> QED BY <1>3, <1>4, BothCalls

\* A hook that is registered comes last, and what was called before is still in order.
LEMMA RegisterCalls ==
    ASSUME IInv, CallsInv, SomeRegister, UNCHANGED <<pc, stack, trigger, failures>>
    PROVE  CallsInv'
<1>1. PICK name \in Event \cup {"other"}, value \in Value :
        hooks' = [hooks EXCEPT ![EventOf(name)] = Append(@, value)]
  BY DEF SomeRegister, Register, Value
<1>2. ASSUME NEW w \in Threads, Active(w) PROVE CallInv(w)'
  <2> DEFINE own == Own(w)
             n == trigger[w].n
             k == IF trigger[w].at = "runs" THEN n ELSE n - 1
  <2>1. own \in Seq(Value) /\ n \in Nat \ {0} /\ Len(own) \in Nat
    BY <1>2, ActiveTypes DEF IInv
  <2>2. Own(w)' = own \/ Own(w)' = Append(own, value)
    BY <1>1, <1>2 DEF Own, IInv, Types, Active
  <2>3. /\ Len(Own(w)') >= Len(own) /\ Len(Own(w)') \in Nat
        /\ \A j \in 1 .. Len(own) : Own(w)'[j] = own[j]
    BY <2>1, <2>2
  <2>4. CallInv(w) /\ n <= Len(own) + (IF trigger[w].at = "next" THEN 1 ELSE 0)
    BY <1>2 DEF CallsInv, CallInv
  <2>5. k \in 0 .. Len(own)
    BY <2>1, <2>4
  <2>6. \A j \in 1 .. k : Own(w)'[j] = own[j]
    BY <2>1, <2>3, <2>5
  <2>7. trigger[w].at \in {"pushed", "ready"} => n \in 1 .. Len(own)
    BY <2>1, <2>4
  <2>8. InOrder(trigger[w].called, own, k) => InOrder(trigger[w].called, Own(w)', k)
    BY <2>6, InOrderGrows
  <2>9. Place(w)' = Place(w)
    BY DEF Place, Pending
  <2>10. n <= Len(Own(w)') + (IF trigger[w].at = "next" THEN 1 ELSE 0)
    BY <2>1, <2>3, <2>4
  <2>11. trigger[w].at \in {"pushed", "ready"} => Own(w)'[n] = own[n]
    BY <2>3, <2>7
  <2> QED BY <1>2, <2>4, <2>8, <2>9, <2>10, <2>11 DEF CallInv, Active
<1>3. ASSUME NEW w \in Threads, ~Active(w) PROVE CallInv(w)'
  BY <1>3 DEF CallInv, Active
<1> QED BY <1>2, <1>3 DEF CallsInv

LEMMA InitCalls == Init => CallsInv
  BY DEF Init, CallsInv, CallInv, Active, NoTrigger

LEMMA NextCalls == IInv /\ CallsInv /\ [Next]_vars => CallsInv'
<1> SUFFICES ASSUME IInv, CallsInv, [Next]_vars PROVE CallsInv'
  OBVIOUS
<1>1. CASE Configure
  BY <1>1, RegisterCalls DEF Configure
<1>2. CASE Enter \/ Key \/ Exit
  <2>1. PICK e \in Event : Begin("main", e)
    BY <1>2 DEF Enter, Key, Exit, Event
  <2>2. "main" \in Threads /\ trigger["main"] = NoTrigger
    BY <1>2 DEF Enter, Key, Exit, Idle, IInv, StackInv, Threads
  <2>3. Pending("main") = 0
    BY <2>2 DEF Pending, NoTrigger
  <2> QED BY <2>1, <2>2, <2>3, SwapCalls DEF Begin
<1>3. CASE Reload
  BY <1>3 DEF Reload, Idle, CallsInv, CallInv, Active, Threads
<1>4. CASE Signal
  <2>1. /\ Begin("handler", "signal") /\ "signal" \in Event /\ "handler" \in Threads
        /\ trigger["handler"] = NoTrigger
    BY <1>4 DEF Signal, IInv, StackInv, Event, Threads
  <2>2. Pending("handler") = 0
    BY <2>1 DEF Pending, NoTrigger
  <2> QED BY <2>1, <2>2, SwapCalls DEF Begin
<1>5. CASE \E w \in Threads : TriggerStep(w)
  <2>1. PICK w \in Threads : TriggerStep(w)
    BY <1>5
  <2>2. CASE PushHook(w)
    BY <2>2, PushHookCalls
  <2>3. CASE PushArgs(w)
    BY <2>3, PushArgsCalls
  <2>4. CASE Call(w)
    BY <2>4, CallCalls
  <2>5. CASE Return(w) \/ Raise(w)
    BY <2>5, ReturnCalls
  <2>6. CASE Finish(w)
    <3>1. trigger[w].at = "next" /\ trigger' = [trigger EXCEPT ![w] = NoTrigger]
          /\ hooks' = hooks /\ stack' = stack /\ failures' = failures
      BY <2>6 DEF Finish
    <3>2. Pending(w) = 0
      BY <3>1 DEF Pending
    <3> QED BY <3>1, <3>2, SwapCalls
  <2>7. CASE HookRegisters(w)
    BY <2>7, RegisterCalls DEF HookRegisters
  <2> QED BY <2>1, <2>2, <2>3, <2>4, <2>5, <2>6, <2>7 DEF TriggerStep
<1>6. CASE UNCHANGED vars
  BY <1>6 DEF vars, CallsInv, CallInv, Place, Pending, Active, Own
<1> QED BY <1>1, <1>2, <1>3, <1>4, <1>5, <1>6 DEF Next

\* Only Finish ends a trigger.
LEMMA OnlyFinishEnds ==
    ASSUME IInv, Next, NEW w \in Threads, Active(w), trigger'[w].event = "none"
    PROVE  Finish(w)
<1>1. CASE Configure \/ Reload
  BY <1>1 DEF Configure, Reload, Active
<1>2. CASE Enter \/ Key \/ Exit
  BY <1>2 DEF Enter, Key, Exit, Idle, Active, Threads
<1>3. CASE Signal
  BY <1>3 DEF Signal, Begin, Active, IInv, Types, Threads
<1>4. CASE \E v \in Threads : TriggerStep(v)
  <2>1. PICK v \in Threads : TriggerStep(v)
    BY <1>4
  <2>2. CASE PushHook(v) \/ PushArgs(v)
    <3>1. PICK at \in {"pushed", "ready"} : Step(v, at)
      BY <2>2 DEF PushHook, PushArgs
    <3> QED BY <3>1 DEF Step, Active, IInv, Types
  <2>3. CASE Return(v) \/ Raise(v)
    <3>1. PICK ok \in BOOLEAN : Advance(v, ok)
      BY <2>3 DEF Return, Raise, Error
    <3>2. trigger'[v].event = trigger[v].event /\ trigger'[Other(v)].event = trigger[Other(v)].event
      BY <3>1, AdvanceFields
    <3> QED BY <3>2, OtherLemma DEF Active
  <2>4. CASE Call(v)
    <3>1. CASE Advance(v, FALSE)
      <4>1. FALSE \in BOOLEAN
        OBVIOUS
      <4>2. trigger'[v].event = trigger[v].event /\ trigger'[Other(v)].event = trigger[Other(v)].event
        BY <3>1, <4>1, AdvanceFields
      <4> QED BY <4>2, OtherLemma DEF Active
    <3>2. CASE \E f : trigger' = [trigger EXCEPT ![v].at = "runs", ![v].called = Append(@, f)]
      BY <3>2 DEF Active, IInv, Types
    <3> QED BY <2>4, <3>1, <3>2 DEF Call, Error
  <2>5. CASE Finish(v)
    BY <2>5 DEF Finish, Active, IInv, Types
  <2>6. CASE HookRegisters(v)
    BY <2>6 DEF HookRegisters, Active
  <2> QED BY <2>1, <2>2, <2>3, <2>4, <2>5, <2>6 DEF TriggerStep
<1> QED BY <1>1, <1>2, <1>3, <1>4 DEF Next

\* Whatever the hooks register and whichever of them fail, and wherever a signal falls, a
\* trigger that no failing hook of a signal disturbed has called all the functions of its
\* list by the time it ends, each once and in the order they were registered: the list
\* only grows at its end, and what lies at the trigger's place on the stack is its hook.
THEOREM AlwaysCallsAll == Spec => CallsAll
<1>1. IInv /\ CallsInv /\ [Next]_vars =>
        [\A w \in Threads :
           (Active(w) /\ trigger'[w].event = "none" /\ ~trigger[w].disturbed) =>
             InOrder(trigger[w].called, Own(w), Len(Own(w)))]_vars
  <2> SUFFICES ASSUME IInv, CallsInv, Next, NEW w \in Threads, Active(w),
                      trigger'[w].event = "none", ~trigger[w].disturbed
               PROVE  InOrder(trigger[w].called, Own(w), Len(Own(w)))
    OBVIOUS
  <2>1. trigger[w].at = "next" /\ trigger[w].n > Len(Own(w))
    BY OnlyFinishEnds DEF Finish
  <2>2. trigger[w].n <= Len(Own(w)) + 1 /\ InOrder(trigger[w].called, Own(w), trigger[w].n - 1)
    BY <2>1 DEF CallsInv, CallInv
  <2>3. Own(w) \in Seq(Value) /\ trigger[w].n \in Nat \ {0}
    BY ActiveTypes DEF IInv
  <2>4. trigger[w].n - 1 = Len(Own(w))
    BY <2>1, <2>2, <2>3
  <2> QED BY <2>2, <2>4
<1>2. Init => IInv /\ CallsInv
  BY InitIInv, InitCalls
<1>3. IInv /\ CallsInv /\ [Next]_vars => IInv' /\ CallsInv'
  BY NextIInv, NextCalls
<1> QED BY <1>1, <1>2, <1>3, PTL DEF Spec, CallsAll

(***************************************************************************)
(* The keys the hooks are called with: InputDecoder, for any keys and any  *)
(* bytes that a terminal sends for them.                                   *)
(***************************************************************************)
Bytes == Seq(Byte)

DecoderTypes ==
    /\ wire \in Seq(Bytes) /\ rest \in Bytes /\ input \in Bytes /\ sequence \in Bytes
    /\ typed \in Seq(InputKey) /\ delivered \in Seq(InputKey)
    /\ phase \in {"idle", "first", "sequence"}

\* keys are the keys typed, text is their bytes, one key after the other, and marks[n] is
\* where the n-th ends.
Text(keys, marks, text) ==
    /\ keys \in Seq(Keys) /\ Len(keys) = Len(typed)
    /\ \A n \in 1 .. Len(keys) : typed[n] = Meant[keys[n]]
    /\ split => \A n \in 1 .. Len(keys) : keys[n] \in Cuttable
    /\ marks \in [0 .. Len(keys) -> Nat] /\ marks[0] = 0
    /\ \A n \in 1 .. Len(keys) : marks[n] = marks[n - 1] + Len(Encoding[keys[n]])
    /\ \A m, n \in 0 .. Len(keys) : m < n => marks[m] < marks[n]
    /\ text \in Bytes /\ Len(text) = marks[Len(keys)]
    /\ \A n \in 1 .. Len(keys) : \A i \in 1 .. Len(Encoding[keys[n]]) :
          text[marks[n - 1] + i] = Encoding[keys[n]][i]

\* Bytes are the text's after a position.
LiesAt(bytes, text, at) == \A i \in 1 .. Len(bytes) : bytes[i] = text[at + i]

\* The keys whose bytes have begun to arrive.
Arrived == Len(typed) - Len(wire)

\* What is to come, what has come and what was read are the text, each byte once; read of
\* it are the first at bytes.
OnTheWay(keys, marks, text, at) ==
    /\ at \in Nat
    /\ Arrived \in Nat /\ Len(delivered) <= Arrived
    /\ \A n \in 1 .. Len(wire) : wire[n] = Encoding[keys[Arrived + n]]
    /\ at + Len(input) + Len(rest) = marks[Arrived]
    /\ LiesAt(input, text, at) /\ LiesAt(rest, text, at + Len(input))
    /\ rest # <<>> => Arrived > 0 /\ marks[Arrived - 1] < at + Len(input)

\* Only the last key that arrived may be an escape that is not read yet.
EscapeLast(keys) ==
    \A n \in Len(delivered) + 1 .. Arrived - 1 : Encoding[keys[n]] # <<ESC>>

\* The keys delivered are those that were read, and the decoder is within the next.
Within(keys, marks, at) ==
    LET done == Len(delivered)
        bytes == Encoding[keys[done + 1]]
    IN  /\ \A n \in 1 .. done : delivered[n] = typed[n]
        /\ \/ phase = "idle" /\ sequence = <<>> /\ at = marks[done]
           \/ /\ phase = "first" /\ sequence = <<>> /\ done < Arrived
              /\ at = marks[done] + 1 /\ bytes[1] = ESC
           \/ /\ phase = "sequence" /\ done < Arrived
              /\ at = marks[done] + 2 + Len(sequence) /\ 2 + Len(sequence) < Len(bytes)
              /\ bytes[1] = ESC /\ bytes[2] \in Introducers
              /\ \A i \in 1 .. Len(sequence) : sequence[i] = bytes[2 + i]

InStep(keys, marks, text, at) ==
    /\ Text(keys, marks, text) /\ OnTheWay(keys, marks, text, at)
    /\ EscapeLast(keys) /\ Within(keys, marks, at)
    /\ ~split => rest = <<>>

\* A key was cut: the first that was not typed is an escape.
Cut(n) ==
    /\ n \in 1 .. Len(delivered) /\ n <= Len(typed)
    /\ delivered[n] # typed[n] /\ delivered[n] = Special("escape")
    /\ \A m \in 1 .. n - 1 : delivered[m] = typed[m]

DecoderInv ==
    /\ DecoderTypes
    /\ \/ \E keys, marks, text, at : InStep(keys, marks, text, at)
       \/ split /\ \E n : Cut(n)

(***************************************************************************)
(* Keys                                                                    *)
(***************************************************************************)
LEMMA ModifierCodeLemma == ASSUME NEW code PROVE ModifierCode(code) \in SUBSET Modifiers
  BY DEF ModifierCode, Modifiers

LEMMA ModsLemma == ASSUME NEW params PROVE Mods(params) \in SUBSET Modifiers
  BY ModifierCodeLemma DEF Mods

\* A key is one of the keys, whatever the parameters say.
LEMMA TildeKeyLemma ==
    ASSUME NEW code
    PROVE  TildeKey(code) = "unknown" \/ TildeKey(code) \in Specials
<1>1. CASE code \in 17 .. 21
  BY <1>1 DEF TildeKey, Specials
<1>2. CASE code \in {23, 24}
  BY <1>2 DEF TildeKey, Specials
<1>3. CASE code \notin 17 .. 21 /\ code \notin {23, 24}
  BY <1>3 DEF TildeKey, Specials
<1> QED BY <1>1, <1>2, <1>3

LEMMA FinalKeyLemma ==
    ASSUME NEW b \in DOMAIN FinalKey
    PROVE  FinalKey[b] \in Specials /\ b \in Finals
  BY DEF FinalKey, Specials, Finals

LEMMA SpecialLemma ==
    ASSUME NEW name \in Specials, NEW mods \in SUBSET Modifiers
    PROVE  /\ Special(name) \in InputKey
           /\ With(Special(name), mods) \in InputKey
  BY DEF Special, With, InputKey, Byte

LEMMA EscapeLemma ==
    /\ Special("escape") \in InputKey
    /\ Special("escape") # NoKey
  BY DEF Special, InputKey, Byte, Specials, NoKey

\* What a sequence is read as is a key.
LEMMA DecodedLemma == ASSUME NEW q PROVE Decoded(q) \in InputKey
<1> DEFINE final == q[Len(q)]
           params == Params(q)
           mods == Mods(params)
<1>1. mods \in SUBSET Modifiers
  BY ModsLemma
<1>2. Decoded(q) =
        IF q = <<>> THEN Special("escape")
        ELSE IF final \in DOMAIN FinalKey
             THEN With(Special(FinalKey[final]), mods)
        ELSE IF final = Tilde /\ Known(params)
             THEN With(Special(TildeKey(params[1])), mods)
        ELSE Special("escape")
  BY DEF Decoded
<1> HIDE DEF final, params, mods
<1>3. CASE q # <<>> /\ final \in DOMAIN FinalKey
  BY <1>1, <1>2, <1>3, FinalKeyLemma, SpecialLemma
<1>4. CASE Known(params)
  BY <1>1, <1>2, <1>3, <1>4, TildeKeyLemma, SpecialLemma, EscapeLemma DEF Known
<1> QED BY <1>2, <1>3, <1>4, EscapeLemma

\* A sequence that was cut before its final byte is read as escape.
LEMMA UnendedLemma ==
    ASSUME NEW q \in Bytes, q # <<>> => q[Len(q)] \notin Finals
    PROVE  Decoded(q) = Special("escape")
<1>1. Tilde \in Finals
  BY DEF Tilde, Finals
<1> QED BY <1>1, FinalKeyLemma DEF Decoded

LEMMA DecodeByteLemma ==
    ASSUME NEW b \in Byte
    PROVE  DecodeByte(b) \in InputKey
<1>1. CASE b \in {8, 9, 10, 13, 127}
  BY <1>1 DEF DecodeByte, Special, InputKey, Byte, Specials
<1>2. CASE b \in 1 .. 26 \ {8, 9, 10, 13}
  <2>1. DecodeByte(b) = Letter(96 + b, {"ctrl"})
    BY <1>2 DEF DecodeByte
  <2>2. 96 + b \in Byte
    BY <1>2 DEF Byte
  <2> QED BY <2>1, <2>2 DEF Letter, InputKey, Modifiers
<1>3. CASE b \in 32 .. 126
  <2>1. DecodeByte(b) = Letter(b, {})
    BY <1>3 DEF DecodeByte
  <2> QED BY <2>1 DEF Letter, InputKey, Modifiers
<1>4. CASE b \notin {8, 9, 10, 13, 127} /\ b \notin 1 .. 26 \ {8, 9, 10, 13} /\ b \notin 32 .. 126
  BY <1>4 DEF DecodeByte, NoKey, InputKey, Byte
<1> QED BY <1>1, <1>2, <1>3, <1>4

\* ESC and a byte are a key.
LEMMA AltedLemma ==
    ASSUME NEW key \in InputKey
    PROVE  Alted(key) \in InputKey /\ Alted(key) # NoKey
<1>1. CASE key = NoKey
  BY <1>1, EscapeLemma DEF Alted
<1>2. CASE key # NoKey
  <2>1. Alted(key) = [key EXCEPT !.mods = key.mods \cup {"alt"}]
    BY <1>2 DEF Alted, With
  <2>2. key.mods \cup {"alt"} \in SUBSET Modifiers
    BY DEF InputKey, Modifiers
  <2>3. Alted(key) \in InputKey
    BY <2>1, <2>2 DEF InputKey
  <2>4. "alt" \in Alted(key).mods /\ "alt" \notin NoKey.mods
    BY <2>1 DEF InputKey, NoKey
  <2> QED BY <2>3, <2>4
<1> QED BY <1>1, <1>2

(***************************************************************************)
(* Types                                                                   *)
(***************************************************************************)
\* The bytes of a piece that arrives, and those that are left.
LEMMA ArrivesLemma ==
    ASSUME NEW bytes \in Bytes, DecoderTypes, Arrives(bytes)
    PROVE  \E n \in 0 .. Len(bytes) :
              /\ ~split => n = Len(bytes)
              /\ bytes # <<>> => n > 0
              /\ input' \in Bytes /\ Len(input') = Len(input) + n
              /\ \A i \in 1 .. Len(input) : input'[i] = input[i]
              /\ \A i \in 1 .. n : input'[Len(input) + i] = bytes[i]
              /\ rest' \in Bytes /\ Len(rest') = Len(bytes) - n
              /\ \A i \in 1 .. Len(rest') : rest'[i] = bytes[n + i]
<1>1. Len(bytes) \in Nat /\ (bytes # <<>> => Len(bytes) > 0)
  BY DEF Bytes
<1>2. PICK n \in IF split THEN 1 .. Len(bytes) ELSE {Len(bytes)} :
        /\ input' = input \o SubSeq(bytes, 1, n)
        /\ rest' = SubSeq(bytes, n + 1, Len(bytes))
  BY DEF Arrives
<1>3. n \in 0 .. Len(bytes) /\ (~split => n = Len(bytes)) /\ (bytes # <<>> => n > 0)
  BY <1>1, <1>2
<1> DEFINE came == SubSeq(bytes, 1, n)
<1>4. came \in Bytes /\ Len(came) = n /\ \A i \in 1 .. n : came[i] = bytes[i]
  BY <1>1, <1>3 DEF Bytes
<1>5. rest' \in Bytes /\ Len(rest') = Len(bytes) - n /\ \A i \in 1 .. Len(rest') : rest'[i] = bytes[n + i]
  BY <1>1, <1>2, <1>3 DEF Bytes
<1>6. input' = input \o came
  BY <1>2
<1> HIDE DEF came
<1>7. input' \in Bytes /\ Len(input') = Len(input) + n
  <2>1. input \in Seq(Byte) /\ came \in Seq(Byte)
    BY <1>4 DEF Bytes, DecoderTypes
  <2>2. input \o came \in Seq(Byte) /\ Len(input \o came) = Len(input) + Len(came)
    BY <2>1
  <2> QED BY <1>4, <1>6, <2>2 DEF Bytes
<1>8. \A i \in 1 .. Len(input) : input'[i] = input[i]
  BY <1>3, <1>4, <1>6 DEF Bytes, DecoderTypes
<1>9. \A i \in 1 .. n : input'[Len(input) + i] = bytes[i]
  BY <1>3, <1>4, <1>6 DEF Bytes, DecoderTypes
<1> QED BY <1>3, <1>5, <1>7, <1>8, <1>9

\* Delivering adds a key, if it is one.
LEMMA DeliverLemma ==
    ASSUME DecoderTypes, NEW key \in InputKey, Deliver(key)
    PROVE  /\ phase' = "idle" /\ sequence' = <<>> /\ sequence' \in Bytes
           /\ delivered' \in Seq(InputKey)
           /\ key = NoKey => delivered' = delivered
           /\ key # NoKey =>
                /\ Len(delivered') = Len(delivered) + 1
                /\ delivered'[Len(delivered) + 1] = key
           /\ \A n \in 1 .. Len(delivered) : delivered'[n] = delivered[n]
<1>1. <<>> \in Seq(Byte)
  OBVIOUS
<1>2. phase' = "idle" /\ sequence' = <<>> /\ sequence' \in Bytes
  BY <1>1 DEF Deliver, Bytes
<1>3. CASE key = NoKey
  BY <1>2, <1>3 DEF Deliver, DecoderTypes
<1>4. CASE key # NoKey
  <2>1. delivered' = Append(delivered, key) /\ delivered \in Seq(InputKey)
    BY <1>4 DEF Deliver, DecoderTypes
  <2> QED BY <1>2, <1>4, <2>1
<1> QED BY <1>3, <1>4

LEMMA NoKeyLemma == NoKey \in InputKey
  BY DEF NoKey, InputKey, Byte

LEMMA SentLemma ==
    ASSUME NEW k \in Keys
    PROVE  Encoding[k] \in Bytes /\ Encoding[k] # <<>> /\ Meant[k] \in InputKey
  BY DecoderAssumption DEF Bytes

\* What is read goes to the decoder, and to nothing else.
LEMMA HeadLemma ==
    ASSUME DecoderTypes, ReadByte
    PROVE  /\ Len(input) > 0 /\ Head(input) = input[1] /\ input[1] \in Byte
           /\ input' \in Bytes /\ Len(input') = Len(input) - 1
           /\ \A i \in 1 .. Len(input') : input'[i] = input[i + 1]
           /\ Append(sequence, input[1]) \in Bytes
           /\ wire' = wire /\ rest' = rest /\ typed' = typed /\ split' = split
<1>1. input # <<>> /\ input' = Tail(input) /\ wire' = wire /\ rest' = rest /\ typed' = typed /\ split' = split
  BY DEF ReadByte
<1>2. input \in Seq(Byte) /\ sequence \in Seq(Byte)
  BY DEF DecoderTypes, Bytes
<1>3. Len(input) > 0 /\ Head(input) = input[1] /\ input[1] \in Byte
  BY <1>1, <1>2
<1>4. input' \in Seq(Byte) /\ Len(input') = Len(input) - 1
  BY <1>1, <1>2
<1>5. \A i \in 1 .. Len(input') : input'[i] = input[i + 1]
  BY <1>1, <1>2
<1>6. Append(sequence, input[1]) \in Seq(Byte)
  BY <1>2, <1>3
<1> QED BY <1>1, <1>3, <1>4, <1>5, <1>6 DEF Bytes

LEMMA DecoderTypesStep ==
    ASSUME DecoderTypes, [DecoderNext]_decoderVars
    PROVE  DecoderTypes'
<1>1. ASSUME NEW k \in Keys, Type(k) PROVE DecoderTypes'
  <2>1. typed' \in Seq(InputKey) /\ wire' \in Seq(Bytes)
    BY <1>1, SentLemma DEF Type, DecoderTypes
  <2> QED BY <1>1, <2>1 DEF Type, DecoderTypes
<1>2. ASSUME Arrive PROVE DecoderTypes'
  <2>1. input' \in Bytes /\ rest' \in Bytes /\ wire' \in Seq(Bytes)
    <3>1. CASE rest = <<>> /\ wire # <<>> /\ Arrives(Head(wire)) /\ wire' = Tail(wire)
      <4>1. Head(wire) \in Bytes /\ wire' \in Seq(Bytes)
        BY <3>1 DEF DecoderTypes
      <4>2. Arrives(Head(wire))
        BY <3>1
      <4> QED BY <4>1, <4>2, ArrivesLemma
    <3>2. CASE rest # <<>> /\ Arrives(rest) /\ wire' = wire
      BY <3>2, ArrivesLemma DEF DecoderTypes
    <3> QED BY <1>2, <3>1, <3>2 DEF Arrive
  <2> QED BY <1>2, <2>1 DEF Arrive, DecoderTypes
<1>3. ASSUME ReadByte PROVE DecoderTypes'
  <2> DEFINE b == input[1]
             q == Append(sequence, b)
  <2>1. /\ input' \in Bytes /\ b \in Byte /\ Head(input) = b /\ q \in Bytes
        /\ wire' = wire /\ rest' = rest /\ typed' = typed
    BY <1>3, HeadLemma
  <2>2. \/ \E key \in InputKey : Deliver(key)
        \/ \E where \in {"first", "sequence"} : Go(where, <<>>) \/ Go(where, q)
    <3>1. DecodeByte(b) \in InputKey
      BY <2>1, DecodeByteLemma
    <3>2. Alted(DecodeByte(b)) \in InputKey
      BY <3>1, AltedLemma
    <3>3. Decoded(q) \in InputKey
      BY DecodedLemma
    <3> HIDE DEF b, q
    <3>4. \/ Go("first", <<>>) \/ Deliver(DecodeByte(b))
          \/ Go("sequence", <<>>) \/ Deliver(Alted(DecodeByte(b)))
          \/ Deliver(Decoded(q)) \/ Go("sequence", q)
      BY <1>3, <2>1 DEF ReadByte, q
    <3> QED BY <3>1, <3>2, <3>3, <3>4
  <2> HIDE DEF b, q
  <2>3. <<>> \in Bytes
    BY DEF Bytes
  <2>4. CASE \E key \in InputKey : Deliver(key)
    BY <2>1, <2>4, DeliverLemma DEF DecoderTypes
  <2>5. CASE \E where \in {"first", "sequence"} : Go(where, <<>>) \/ Go(where, q)
    BY <2>1, <2>3, <2>5 DEF Go, DecoderTypes
  <2> QED BY <2>2, <2>4, <2>5
<1>4. ASSUME ReadNothing PROVE DecoderTypes'
  <2>1. \E key \in InputKey : Deliver(key)
    BY <1>4, NoKeyLemma, DecodedLemma DEF ReadNothing
  <2> QED BY <1>4, <2>1, DeliverLemma DEF ReadNothing, DecoderTypes
<1>5. ASSUME UNCHANGED decoderVars PROVE DecoderTypes'
  BY <1>5 DEF decoderVars, DecoderTypes
<1> QED BY <1>1, <1>2, <1>3, <1>4, <1>5 DEF DecoderNext

(***************************************************************************)
(* The decoder stays in step with what was typed                           *)
(***************************************************************************)
\* Where a key that was typed lies in the text.
LEMMA MarksLemma ==
    ASSUME NEW keys, NEW marks, NEW text, Text(keys, marks, text), NEW n \in 1 .. Len(keys)
    PROVE  /\ keys[n] \in Keys /\ Encoding[keys[n]] \in Bytes
           /\ Len(Encoding[keys[n]]) \in Nat /\ Len(Encoding[keys[n]]) > 0
           /\ marks[n - 1] \in Nat /\ marks[n] \in Nat
           /\ marks[n] = marks[n - 1] + Len(Encoding[keys[n]])
           /\ \A m \in 0 .. Len(keys) : marks[m] \in Nat /\ (m < n => marks[m] < marks[n])
           /\ marks[n] <= marks[Len(keys)]
<1>1. keys[n] \in Keys
  BY DEF Text
<1>2. Encoding[keys[n]] \in Bytes /\ Encoding[keys[n]] # <<>>
  BY <1>1, SentLemma
<1>3. Len(Encoding[keys[n]]) \in Nat /\ Len(Encoding[keys[n]]) > 0
  BY <1>2 DEF Bytes
<1>4. Len(keys) \in Nat /\ n \in 0 .. Len(keys) /\ n - 1 \in 0 .. Len(keys)
  BY DEF Text
<1>5. \A m \in 0 .. Len(keys) : marks[m] \in Nat
  BY DEF Text
<1>6. \A m \in 0 .. Len(keys) : m < n => marks[m] < marks[n]
  BY <1>4 DEF Text
<1>7. n < Len(keys) => marks[n] < marks[Len(keys)]
  BY <1>4 DEF Text
<1>8. marks[n] = marks[n - 1] + Len(Encoding[keys[n]])
  BY DEF Text
<1> QED BY <1>1, <1>2, <1>3, <1>4, <1>5, <1>6, <1>7, <1>8

\* A key typed is added at the end.
LEMMA TypedStep ==
    ASSUME DecoderTypes, NEW keys, NEW marks, NEW text, NEW at,
           InStep(keys, marks, text, at), NEW k \in Keys, Type(k)
    PROVE  \E keys2, marks2, text2 : InStep(keys2, marks2, text2, at)'
<1> DEFINE bytes == Encoding[k]
           keys2 == Append(keys, k)
           size == Len(keys)
           marks2 == [n \in 0 .. size + 1 |-> IF n <= size THEN marks[n] ELSE marks[size] + Len(bytes)]
           text2 == text \o bytes
<1>1. Text(keys, marks, text) /\ OnTheWay(keys, marks, text, at) /\ EscapeLast(keys)
      /\ Within(keys, marks, at) /\ (~split => rest = <<>>)
  BY DEF InStep
<1>2. /\ typed' = Append(typed, Meant[k]) /\ wire' = Append(wire, bytes) /\ (split => k \in Cuttable)
      /\ rest' = rest /\ input' = input /\ phase' = phase /\ sequence' = sequence
      /\ delivered' = delivered /\ split' = split
  BY DEF Type
<1>3. bytes \in Bytes /\ Len(bytes) \in Nat /\ Len(bytes) > 0 /\ Meant[k] \in InputKey
  BY SentLemma DEF Bytes
<1>4. keys2 \in Seq(Keys) /\ Len(keys2) = size + 1 /\ keys2[size + 1] = k
      /\ \A n \in 1 .. size : keys2[n] = keys[n]
  BY <1>1 DEF Text
<1>5. size \in Nat /\ size = Len(typed) /\ \A n \in 0 .. size : marks[n] \in Nat
  <2>1. keys \in Seq(Keys) /\ size = Len(typed)
    BY <1>1 DEF Text
  <2>2. marks \in [0 .. size -> Nat]
    BY <1>1 DEF Text
  <2>3. size \in Nat
    BY <2>1
  <2> HIDE DEF size
  <2> QED BY <2>1, <2>2, <2>3
<1>6. /\ marks2 \in [0 .. size + 1 -> Nat] /\ marks2[size + 1] = marks[size] + Len(bytes)
      /\ \A n \in 0 .. size : marks2[n] = marks[n]
  BY <1>3, <1>5
<1>7. text \in Bytes /\ Len(text) = marks[size]
  BY <1>1 DEF Text
<1>8. /\ text2 \in Bytes /\ Len(text2) = marks[size] + Len(bytes)
      /\ \A i \in 1 .. marks[size] : text2[i] = text[i]
      /\ \A i \in 1 .. Len(bytes) : text2[marks[size] + i] = bytes[i]
  <2>1. text \in Seq(Byte) /\ bytes \in Seq(Byte)
    BY <1>3, <1>7 DEF Bytes
  <2> HIDE DEF bytes
  <2>2. text2 \in Seq(Byte) /\ Len(text2) = Len(text) + Len(bytes)
    BY <2>1
  <2>3. \A i \in 1 .. Len(text) : text2[i] = text[i]
    BY <2>1
  <2>4. \A i \in 1 .. Len(bytes) : text2[Len(text) + i] = bytes[i]
    BY <2>1
  <2> QED BY <1>7, <2>2, <2>3, <2>4 DEF Bytes
<1>9. /\ Len(typed') = size + 1 /\ typed'[size + 1] = Meant[k]
      /\ \A n \in 1 .. size : typed'[n] = typed[n]
  BY <1>2, <1>3, <1>5 DEF DecoderTypes
<1>10. /\ Len(wire) \in Nat /\ Len(wire') = Len(wire) + 1 /\ wire'[Len(wire) + 1] = bytes
       /\ \A n \in 1 .. Len(wire) : wire'[n] = wire[n]
  BY <1>2, <1>3 DEF DecoderTypes
<1> HIDE DEF bytes, keys2, size, marks2, text2
<1>11. Text(keys2, marks2, text2)'
  <2>1. \A n \in 1 .. Len(keys2) : typed'[n] = Meant[keys2[n]]
    <3>1. \A n \in 1 .. Len(keys2) : n \in 1 .. size \/ n = size + 1
      BY <1>4, <1>5
    <3>2. \A n \in 1 .. size : typed[n] = Meant[keys[n]]
      BY <1>1 DEF Text, size
    <3> QED BY <3>1, <3>2, <1>4, <1>9
  <2>2. split' => \A n \in 1 .. Len(keys2) : keys2[n] \in Cuttable
    <3>1. \A n \in 1 .. Len(keys2) : n \in 1 .. size \/ n = size + 1
      BY <1>4, <1>5
    <3>2. split => \A n \in 1 .. size : keys[n] \in Cuttable
      BY <1>1 DEF Text, size
    <3>3. split => \A n \in 1 .. Len(keys2) : keys2[n] \in Cuttable
      BY <3>1, <3>2, <1>2, <1>4
    <3> QED BY <3>3, <1>2
  <2>3. marks2 \in [0 .. Len(keys2) -> Nat] /\ marks2[0] = 0
    BY <1>1, <1>4, <1>5, <1>6 DEF Text, size
  <2>4. ASSUME NEW n \in 1 .. Len(keys2) PROVE marks2[n] = marks2[n - 1] + Len(Encoding[keys2[n]])
    <3>1. CASE n = size + 1
      <4>1. n - 1 = size /\ size \in 0 .. size
        BY <3>1, <1>5
      <4>2. Encoding[keys2[n]] = bytes
        BY <3>1, <1>4 DEF bytes
      <4> QED BY <3>1, <4>1, <4>2, <1>6
    <3>2. CASE n # size + 1
      <4>1. n \in 1 .. size /\ n \in 0 .. size /\ n - 1 \in 0 .. size
        BY <3>2, <1>4, <1>5
      <4>2. marks[n] = marks[n - 1] + Len(Encoding[keys[n]])
        BY <4>1, <1>1 DEF Text, size
      <4> QED BY <4>1, <4>2, <1>4, <1>6
    <3> QED BY <3>1, <3>2
  <2>5. ASSUME NEW m \in 0 .. Len(keys2), NEW n \in 0 .. Len(keys2), m < n PROVE marks2[m] < marks2[n]
    <3>1. m \in 0 .. size
      BY <2>5, <1>4, <1>5
    <3>2. CASE n = size + 1
      <4>1. marks[m] <= marks[size]
        <5>1. m = size \/ m < size
          BY <3>1, <1>5
        <5>2. \A i, j \in 0 .. size : i < j => marks[i] < marks[j]
          BY <1>1 DEF Text, size
        <5>3. size \in 0 .. size
          BY <1>5
        <5> QED BY <3>1, <5>1, <5>2, <5>3, <1>5
      <4>2. size \in 0 .. size
        BY <1>5
      <4> QED BY <3>1, <3>2, <4>1, <4>2, <1>3, <1>5, <1>6
    <3>3. CASE n # size + 1
      <4>1. n \in 0 .. size
        BY <3>3, <1>4, <1>5
      <4> QED BY <2>5, <3>1, <4>1, <1>1, <1>6 DEF Text, size
    <3> QED BY <3>2, <3>3
  <2>6. ASSUME NEW n \in 1 .. Len(keys2), NEW i \in 1 .. Len(Encoding[keys2[n]])
        PROVE  text2[marks2[n - 1] + i] = Encoding[keys2[n]][i]
    <3>1. CASE n = size + 1
      <4>1. n - 1 = size /\ size \in 0 .. size
        BY <3>1, <1>5
      <4>2. Encoding[keys2[n]] = bytes
        BY <3>1, <1>4 DEF bytes
      <4> QED BY <3>1, <4>1, <4>2, <1>6, <1>8
    <3>2. CASE n # size + 1
      <4>1. n \in 1 .. size /\ n \in 1 .. Len(keys) /\ n - 1 \in 0 .. size
        BY <3>2, <1>4, <1>5 DEF size
      <4>2. keys2[n] = keys[n] /\ marks2[n - 1] = marks[n - 1]
        BY <4>1, <1>4, <1>6
      <4>3. text[marks[n - 1] + i] = Encoding[keys[n]][i]
        BY <4>1, <4>2, <1>1 DEF Text
      <4>4. marks[n - 1] + i \in 1 .. marks[size]
        <5>1. /\ Len(Encoding[keys[n]]) \in Nat /\ marks[n - 1] \in Nat /\ marks[n] \in Nat
              /\ marks[n] = marks[n - 1] + Len(Encoding[keys[n]]) /\ marks[n] <= marks[size]
          BY <4>1, <1>1, MarksLemma DEF size
        <5>2. i \in 1 .. Len(Encoding[keys[n]]) /\ marks[size] \in Nat
          BY <4>2, <1>5
        <5> QED BY <5>1, <5>2
      <4> QED BY <4>2, <4>3, <4>4, <1>8
    <3> QED BY <3>1, <3>2
  <2>7. text2 \in Bytes /\ Len(text2) = marks2[Len(keys2)]
    BY <1>4, <1>6, <1>8
  <2>8. keys2 \in Seq(Keys) /\ Len(keys2) = Len(typed')
    BY <1>4, <1>9
  <2> QED BY <2>1, <2>2, <2>3, <2>4, <2>5, <2>6, <2>7, <2>8 DEF Text
<1>12. Arrived' = Arrived /\ Arrived \in 0 .. size /\ Len(delivered) \in Nat /\ Len(delivered) <= Arrived
       /\ Arrived + Len(wire) = size
  BY <1>1, <1>5, <1>9, <1>10 DEF OnTheWay, Arrived, DecoderTypes
<1>13. OnTheWay(keys2, marks2, text2, at)'
  <2>1. ASSUME NEW n \in 1 .. Len(wire') PROVE wire'[n] = Encoding[keys2[Arrived + n]]
    <3>1. CASE n = Len(wire) + 1
      <4>1. Arrived + n = size + 1
        BY <3>1, <1>10, <1>12
      <4> QED BY <3>1, <4>1, <1>4, <1>10 DEF bytes
    <3>2. CASE n # Len(wire) + 1
      <4>1. n \in 1 .. Len(wire) /\ Arrived + n \in 1 .. size
        BY <3>2, <1>10, <1>12, <1>5
      <4>2. wire[n] = Encoding[keys[Arrived + n]]
        BY <4>1, <1>1 DEF OnTheWay
      <4> QED BY <4>1, <4>2, <1>4, <1>10
    <3> QED BY <3>1, <3>2
  <2>2. at \in Nat /\ Len(input) \in Nat /\ Len(rest) \in Nat /\ at + Len(input) + Len(rest) = marks[Arrived]
    BY <1>1 DEF OnTheWay, DecoderTypes, Bytes
  <2>3. marks2[Arrived] = marks[Arrived] /\ marks[Arrived] <= marks[size]
    <3>1. Arrived = size \/ Arrived < size
      BY <1>5, <1>12
    <3>2. \A i, j \in 0 .. size : i < j => marks[i] < marks[j]
      BY <1>1 DEF Text, size
    <3>3. size \in 0 .. size
      BY <1>5
    <3> QED BY <3>1, <3>2, <3>3, <1>5, <1>6, <1>12
  <2>4. marks[size] \in Nat /\ marks[Arrived] \in Nat
    BY <1>5, <1>12
  <2>5. \A i \in 1 .. Len(input) : input[i] = text2[at + i]
    <3>1. \A i \in 1 .. Len(input) : input[i] = text[at + i]
      BY <1>1 DEF OnTheWay, LiesAt
    <3>2. \A i \in 1 .. Len(input) : at + i \in 1 .. marks[size]
      BY <2>2, <2>3, <2>4
    <3> QED BY <3>1, <3>2, <1>8
  <2>6. \A i \in 1 .. Len(rest) : rest[i] = text2[at + Len(input) + i]
    <3>1. \A i \in 1 .. Len(rest) : rest[i] = text[at + Len(input) + i]
      BY <1>1 DEF OnTheWay, LiesAt
    <3>2. \A i \in 1 .. Len(rest) : at + Len(input) + i \in 1 .. marks[size]
      BY <2>2, <2>3, <2>4
    <3> QED BY <3>1, <3>2, <1>8
  <2>7. rest # <<>> => Arrived > 0 /\ marks2[Arrived - 1] < at + Len(input)
    <3>1. rest # <<>> => Arrived > 0 /\ marks[Arrived - 1] < at + Len(input)
      BY <1>1 DEF OnTheWay
    <3>2. Arrived > 0 => Arrived - 1 \in 0 .. size
      BY <1>5, <1>12
    <3> QED BY <3>1, <3>2, <1>6
  <2>8. Arrived \in Nat
    BY <1>12
  <2> QED BY <2>1, <2>2, <2>3, <2>5, <2>6, <2>7, <2>8, <1>2, <1>12 DEF OnTheWay, LiesAt
<1>14. EscapeLast(keys2)'
  <2>1. \A n \in Len(delivered) + 1 .. Arrived - 1 : n \in 1 .. size
    BY <1>5, <1>12
  <2> QED BY <2>1, <1>1, <1>2, <1>4, <1>12 DEF EscapeLast
<1>15. Within(keys2, marks2, at)'
  <2>1. \A n \in 1 .. Len(delivered) : n \in 1 .. size
    BY <1>5, <1>12
  <2>2. \A n \in 1 .. Len(delivered') : delivered'[n] = typed'[n]
    BY <2>1, <1>1, <1>2, <1>9 DEF Within
  <2>3. marks2[Len(delivered')] = marks[Len(delivered)]
    BY <1>2, <1>5, <1>6, <1>12
  <2>4. Len(delivered) < Arrived => keys2[Len(delivered') + 1] = keys[Len(delivered) + 1]
    <3>1. Len(delivered) < Arrived => Len(delivered) + 1 \in 1 .. size
      BY <1>5, <1>12
    <3> QED BY <3>1, <1>2, <1>4
  <2> QED BY <2>2, <2>3, <2>4, <1>1, <1>2, <1>12 DEF Within
<1> QED BY <1>1, <1>2, <1>11, <1>13, <1>14, <1>15 DEF InStep

\* Positions of the keys, for the arithmetic of one step.
LEMMA PlacesLemma ==
    ASSUME DecoderTypes, NEW keys, NEW marks, NEW text, NEW at, InStep(keys, marks, text, at)
    PROVE  /\ Len(keys) \in Nat /\ Len(keys) = Len(typed) /\ Len(wire) \in Nat /\ Len(delivered) \in Nat
           /\ Arrived \in 0 .. Len(keys) /\ Len(delivered) <= Arrived /\ Arrived + Len(wire) = Len(keys)
           /\ at \in Nat /\ Len(input) \in Nat /\ Len(rest) \in Nat /\ Len(sequence) \in Nat
           /\ at + Len(input) + Len(rest) = marks[Arrived]
           /\ rest = <<>> => Len(rest) = 0
           /\ \A n \in 0 .. Len(keys) : marks[n] \in Nat
           /\ \A m, n \in 0 .. Len(keys) : m < n => marks[m] < marks[n]
           /\ at <= marks[Arrived]
<1>1. keys \in Seq(Keys) /\ Len(keys) = Len(typed)
  BY DEF InStep, Text
<1>2. Len(keys) \in Nat
  BY <1>1
<1>3. Len(wire) \in Nat /\ Len(delivered) \in Nat /\ Len(input) \in Nat /\ Len(rest) \in Nat
      /\ Len(sequence) \in Nat /\ (rest = <<>> => Len(rest) = 0)
  BY DEF DecoderTypes, Bytes
<1>4. Arrived \in Nat /\ Len(delivered) <= Arrived /\ at \in Nat
      /\ at + Len(input) + Len(rest) = marks[Arrived]
  BY DEF InStep, OnTheWay
<1>5. Arrived + Len(wire) = Len(keys)
  BY <1>1, <1>2, <1>3 DEF Arrived
<1>6. marks \in [0 .. Len(keys) -> Nat]
  BY DEF InStep, Text
<1>7. \A n \in 0 .. Len(keys) : marks[n] \in Nat
  BY <1>6
<1>8. \A m, n \in 0 .. Len(keys) : m < n => marks[m] < marks[n]
  BY DEF InStep, Text
<1>9. Arrived \in 0 .. Len(keys)
  BY <1>2, <1>3, <1>4, <1>5
<1> HIDE DEF Arrived
<1>10. at <= marks[Arrived]
  BY <1>3, <1>4, <1>7, <1>9
<1> QED BY <1>1, <1>2, <1>3, <1>4, <1>5, <1>7, <1>8, <1>9, <1>10

\* While the decoder is within a key, it has not read all of it unless it is an escape.
LEMMA WithinLemma ==
    ASSUME DecoderTypes, NEW keys, NEW marks, NEW text, NEW at, InStep(keys, marks, text, at),
           phase # "idle"
    PROVE  /\ Len(delivered) < Arrived /\ marks[Len(delivered) + 1] <= marks[Arrived]
           /\ marks[Len(delivered)] < at
           /\ at < marks[Len(delivered) + 1] \/ (phase = "first" /\ at = marks[Len(delivered) + 1]
                                                  /\ Len(Encoding[keys[Len(delivered) + 1]]) = 1)
<1> DEFINE done == Len(delivered)
           bytes == Encoding[keys[done + 1]]
<1>1. done < Arrived
  BY DEF InStep, Within, DecoderTypes
<1>2. Text(keys, marks, text) /\ done + 1 \in 1 .. Len(keys) /\ done \in 0 .. Len(keys) /\ done + 1 \in 0 .. Len(keys)
  BY <1>1, PlacesLemma DEF InStep
<1>3. Len(bytes) \in Nat /\ Len(bytes) > 0 /\ marks[done + 1] = marks[(done + 1) - 1] + Len(bytes)
  BY <1>2, MarksLemma
<1>4. marks[done + 1] = marks[done] + Len(bytes)
  <2>1. (done + 1) - 1 = done
    BY <1>2, PlacesLemma
  <2> QED BY <1>3, <2>1
<1>5. marks[done + 1] <= marks[Arrived]
  <2>1. done + 1 < Arrived \/ done + 1 = Arrived
    BY <1>1, <1>2, PlacesLemma
  <2>2. Arrived \in 0 .. Len(keys) /\ marks[Arrived] \in Nat /\ marks[done + 1] \in Nat
    BY <1>2, PlacesLemma
  <2>3. done + 1 < Arrived => marks[done + 1] < marks[Arrived]
    BY <1>2, <2>2, PlacesLemma
  <2> QED BY <2>1, <2>2, <2>3
<1>6. \/ phase = "first" /\ at = marks[done] + 1
      \/ phase = "sequence" /\ at = marks[done] + 2 + Len(sequence) /\ 2 + Len(sequence) < Len(bytes)
  BY DEF InStep, Within, DecoderTypes
<1>7. marks[done] \in Nat /\ Len(sequence) \in Nat
  BY <1>2, PlacesLemma
<1> HIDE DEF done, bytes
<1>8. marks[done] < at
  BY <1>6, <1>7
<1>9. at < marks[done + 1] \/ (phase = "first" /\ at = marks[done + 1] /\ Len(bytes) = 1)
  <2>1. CASE phase = "first" /\ at = marks[done] + 1
    <3>1. Len(bytes) = 1 => at = marks[done + 1]
      BY <2>1, <1>4
    <3>2. Len(bytes) # 1 => at < marks[done + 1]
      <4> DEFINE size == Len(bytes)
                 from == marks[done]
                 to == marks[done + 1]
      <4>1. size \in Nat /\ size > 0 /\ from \in Nat /\ to = from + size /\ at = from + 1
        BY <2>1, <1>3, <1>4, <1>7
      <4> HIDE DEF size, from, to
      <4>2. size # 1 => at < to
        BY <4>1
      <4> QED BY <4>2 DEF size, to
    <3> QED BY <2>1, <3>1, <3>2
  <2>2. CASE at = marks[done] + 2 + Len(sequence) /\ 2 + Len(sequence) < Len(bytes)
    BY <2>2, <1>3, <1>4, <1>7
  <2> QED BY <1>6, <2>1, <2>2
<1> QED BY <1>1, <1>5, <1>8, <1>9 DEF done, bytes

\* The last byte that arrived is the last of the last key that did.
LEMMA SettledLemma ==
    ASSUME DecoderTypes, NEW keys, NEW marks, NEW text, NEW at, InStep(keys, marks, text, at),
           rest = <<>>, Settled, Len(delivered) < Arrived
    PROVE  Encoding[keys[Arrived]] # <<ESC>>
<1> DEFINE last == Arrived
<1>1. last \in 1 .. Len(keys) /\ Text(keys, marks, text) /\ at + Len(input) = marks[last]
  BY PlacesLemma DEF InStep
<1>2. CASE input = <<>>
  <2>1. at = marks[last]
    BY <1>1, <1>2, PlacesLemma
  <2>2. phase # "first"
    BY <1>2 DEF Settled
  <2>3. marks[Len(delivered)] < marks[last]
    BY <1>1, PlacesLemma
  <2>4. phase # "idle"
    BY <2>1, <2>3, PlacesLemma DEF InStep, Within
  <2>5. at < marks[Len(delivered) + 1] /\ marks[Len(delivered) + 1] <= marks[last]
    BY <2>2, <2>4, WithinLemma
  <2>6. Len(delivered) + 1 \in 0 .. Len(keys)
    BY <1>1, PlacesLemma
  <2>7. marks[Len(delivered) + 1] \in Nat /\ marks[last] \in Nat /\ at \in Nat
    BY <1>1, <2>6, PlacesLemma
  <2> HIDE DEF last
  <2> QED BY <2>1, <2>5, <2>7
<1>3. CASE input # <<>>
  <2>1. input[Len(input)] # ESC
    BY <1>3 DEF Settled
  <2>2. Len(input) \in 1 .. Len(input)
    BY <1>3 DEF DecoderTypes, Bytes
  <2>3. input[Len(input)] = text[marks[last]]
    BY <1>1, <2>2 DEF InStep, OnTheWay, LiesAt
  <2>4. ASSUME Encoding[keys[last]] = <<ESC>> PROVE FALSE
    <3>1. marks[last] = marks[last - 1] + 1 /\ 1 \in 1 .. Len(Encoding[keys[last]])
      <4>1. Len(<<ESC>>) = 1
        OBVIOUS
      <4>2. Len(Encoding[keys[last]]) = 1
        BY <2>4, <4>1
      <4>3. marks[last] = marks[last - 1] + Len(Encoding[keys[last]])
        BY <1>1, MarksLemma
      <4> QED BY <4>2, <4>3
    <3>2. text[marks[last - 1] + 1] = Encoding[keys[last]][1]
      BY <1>1, <3>1 DEF Text
    <3> QED BY <2>1, <2>3, <2>4, <3>1, <3>2
  <2> QED BY <2>4
<1> QED BY <1>2, <1>3

\* A piece arrives at its place in the text.
LEMMA PieceLemma ==
    ASSUME DecoderTypes, NEW bytes \in Bytes, bytes # <<>>, Arrives(bytes),
           NEW text, NEW at \in Nat,
           LiesAt(input, text, at), LiesAt(bytes, text, at + Len(input))
    PROVE  /\ Len(input') \in Nat /\ Len(rest') \in Nat /\ Len(input') > Len(input)
           /\ Len(input') + Len(rest') = Len(input) + Len(bytes)
           /\ LiesAt(input', text, at) /\ LiesAt(rest', text, at + Len(input'))
           /\ ~split => rest' = <<>>
<1>1. PICK n \in 0 .. Len(bytes) :
        /\ ~split => n = Len(bytes)
        /\ bytes # <<>> => n > 0
        /\ input' \in Bytes /\ Len(input') = Len(input) + n
        /\ \A i \in 1 .. Len(input) : input'[i] = input[i]
        /\ \A i \in 1 .. n : input'[Len(input) + i] = bytes[i]
        /\ rest' \in Bytes /\ Len(rest') = Len(bytes) - n
        /\ \A i \in 1 .. Len(rest') : rest'[i] = bytes[n + i]
  BY ArrivesLemma
<1>2. Len(input) \in Nat /\ Len(bytes) \in Nat /\ n \in 1 .. Len(bytes)
  BY <1>1 DEF DecoderTypes, Bytes
<1>3. Len(input') = Len(input) + n /\ Len(rest') = Len(bytes) - n
  BY <1>1
<1>4. Len(input') \in Nat /\ Len(rest') \in Nat /\ Len(input') > Len(input)
      /\ Len(input') + Len(rest') = Len(input) + Len(bytes)
  BY <1>2, <1>3
<1>5. ASSUME NEW i \in 1 .. Len(input') PROVE input'[i] = text[at + i]
  <2>1. CASE i <= Len(input)
    <3>1. i \in 1 .. Len(input)
      BY <2>1, <1>2, <1>3
    <3> QED BY <3>1, <1>1 DEF LiesAt
  <2>2. CASE i > Len(input)
    <3>1. PICK j \in 1 .. n : i = Len(input) + j
      <4>1. i - Len(input) \in 1 .. n /\ i = Len(input) + (i - Len(input))
        BY <2>2, <1>2, <1>3
      <4> QED BY <4>1
    <3>2. input'[i] = bytes[j] /\ j \in 1 .. Len(bytes)
      BY <3>1, <1>1, <1>2
    <3>3. bytes[j] = text[at + Len(input) + j]
      BY <3>2 DEF LiesAt
    <3>4. at + Len(input) + j = at + i
      BY <3>1, <1>2
    <3> QED BY <3>2, <3>3, <3>4
  <2> QED BY <2>1, <2>2, <1>2
<1>6. ASSUME NEW i \in 1 .. Len(rest') PROVE rest'[i] = text[at + Len(input') + i]
  <2>1. rest'[i] = bytes[n + i]
    BY <1>1
  <2>2. n + i \in 1 .. Len(bytes) /\ at + Len(input) + (n + i) = at + Len(input') + i
    BY <1>2, <1>3
  <2>3. bytes[n + i] = text[at + Len(input) + (n + i)]
    BY <2>2 DEF LiesAt
  <2> QED BY <2>1, <2>2, <2>3
<1>7. ~split => rest' = <<>>
  <2>1. ~split => Len(rest') = 0
    BY <1>1, <1>2, <1>3
  <2>2. rest' \in Seq(Byte)
    BY <1>1 DEF Bytes
  <2> QED BY <2>1, <2>2
<1> QED BY <1>4, <1>5, <1>6, <1>7 DEF LiesAt

LEMMA ArriveStep ==
    ASSUME DecoderTypes, NEW keys, NEW marks, NEW text, NEW at, InStep(keys, marks, text, at),
           Arrive
    PROVE  InStep(keys, marks, text, at)'
<1> DEFINE size == Len(keys)
<1>1. Text(keys, marks, text) /\ OnTheWay(keys, marks, text, at) /\ EscapeLast(keys)
      /\ Within(keys, marks, at) /\ (~split => rest = <<>>)
  BY DEF InStep
<1>2. phase' = phase /\ sequence' = sequence /\ typed' = typed /\ delivered' = delivered /\ split' = split
  BY DEF Arrive
<1>3. Text(keys, marks, text)'
  BY <1>1, <1>2 DEF Text
<1>4. /\ size \in Nat /\ size = Len(typed) /\ Len(wire) \in Nat /\ Len(delivered) \in Nat
      /\ Arrived \in 0 .. size /\ Len(delivered) <= Arrived /\ Arrived + Len(wire) = size
      /\ at \in Nat /\ Len(input) \in Nat /\ Len(rest) \in Nat
      /\ at + Len(input) + Len(rest) = marks[Arrived]
      /\ (rest = <<>> => Len(rest) = 0)
  BY PlacesLemma
<1>5. LiesAt(input, text, at)
  BY <1>1 DEF OnTheWay
<1>6. CASE rest = <<>> /\ wire # <<>> /\ Settled /\ Arrives(Head(wire)) /\ wire' = Tail(wire)
  <2> DEFINE bytes == Head(wire)
             next == Arrived + 1
  <2>1. Len(wire) > 0 /\ bytes = wire[1] /\ bytes \in Bytes
    BY <1>6 DEF DecoderTypes
  <2>2. Len(wire') = Len(wire) - 1 /\ \A n \in 1 .. Len(wire') : wire'[n] = wire[n + 1]
    BY <1>6 DEF DecoderTypes
  <2>3. next \in 1 .. size /\ next \in 0 .. size /\ Arrived' = next
    <3>1. Arrived' = Len(typed) - Len(wire')
      BY <1>2 DEF Arrived
    <3>2. Len(wire') = Len(wire) - 1 /\ Len(wire) > 0
      BY <2>1, <2>2
    <3>3. Arrived = Len(typed) - Len(wire)
      BY DEF Arrived
    <3>4. Arrived' = next
      BY <3>1, <3>2, <3>3, <1>4
    <3>5. next \in 1 .. size
      BY <3>2, <1>4
    <3> QED BY <3>4, <3>5
  <2>4. bytes = Encoding[keys[next]]
    <3>1. 1 \in 1 .. Len(wire)
      BY <2>1, <1>4
    <3> QED BY <3>1, <2>1, <1>1 DEF OnTheWay
  <2>5. bytes # <<>> /\ Len(bytes) > 0 /\ Len(bytes) \in Nat /\ marks[next] = marks[Arrived] + Len(bytes)
    <3>1. next - 1 = Arrived
      BY <1>4
    <3>2. Len(bytes) > 0 /\ Len(bytes) \in Nat /\ marks[next] = marks[next - 1] + Len(bytes)
      BY <2>3, <2>4, <1>1, MarksLemma
    <3>3. bytes # <<>>
      BY <3>2
    <3> QED BY <3>1, <3>2, <3>3
  <2>6. at + Len(input) = marks[Arrived]
    BY <1>4, <1>6
  <2>7. LiesAt(bytes, text, at + Len(input))
    <3>1. next - 1 = Arrived
      BY <1>4
    <3>2. \A i \in 1 .. Len(bytes) : text[marks[next - 1] + i] = bytes[i]
      BY <2>3, <2>4, <1>1 DEF Text
    <3> QED BY <3>1, <3>2, <2>6 DEF LiesAt
  <2> HIDE DEF bytes
  <2>8. /\ Len(input') \in Nat /\ Len(rest') \in Nat /\ Len(input') > Len(input)
        /\ Len(input') + Len(rest') = Len(input) + Len(bytes)
        /\ LiesAt(input', text, at) /\ LiesAt(rest', text, at + Len(input'))
        /\ ~split => rest' = <<>>
    <3>1. Arrives(bytes) /\ bytes # <<>> /\ bytes \in Bytes
      BY <1>6, <2>1, <2>5 DEF bytes
    <3>2. at \in Nat
      BY <1>4
    <3> QED BY <3>1, <3>2, <2>7, <1>5, PieceLemma
  <2> HIDE DEF next
  <2>9. OnTheWay(keys, marks, text, at)'
    <3>1. ASSUME NEW n \in 1 .. Len(wire') PROVE wire'[n] = Encoding[keys[next + n]]
      <4>1. n + 1 \in 1 .. Len(wire) /\ Arrived + (n + 1) = next + n
        BY <2>2, <1>4 DEF next
      <4>2. wire[n + 1] = Encoding[keys[Arrived + (n + 1)]]
        BY <4>1, <1>1 DEF OnTheWay
      <4> QED BY <4>1, <4>2, <2>2
    <3>2. at + Len(input') + Len(rest') = marks[next]
      <4>1. marks[Arrived] \in Nat
        BY <1>4, PlacesLemma
      <4>2. Len(bytes) \in Nat /\ marks[next] = marks[Arrived] + Len(bytes)
        BY <2>5
      <4>3. Len(input') + Len(rest') = Len(input) + Len(bytes)
        BY <2>8
      <4>4. Len(input') \in Nat /\ Len(rest') \in Nat /\ Len(input) \in Nat /\ at \in Nat
        BY <2>8, <1>4
      <4> QED BY <4>1, <4>2, <4>3, <4>4, <2>6
    <3>3. next > 0 /\ next \in Nat /\ Len(delivered) <= next
      BY <1>4 DEF next
    <3>4. marks[next - 1] < at + Len(input')
      <4>1. next - 1 = Arrived
        BY <1>4 DEF next
      <4> QED BY <4>1, <2>6, <2>8, <1>4
    <3> QED BY <3>1, <3>2, <3>3, <3>4, <2>3, <2>8, <1>2, <1>4 DEF OnTheWay
  <2>10. EscapeLast(keys)'
    <3>1. ASSUME NEW n \in Len(delivered) + 1 .. next - 1 PROVE Encoding[keys[n]] # <<ESC>>
      <4>1. CASE n \in Len(delivered) + 1 .. Arrived - 1
        BY <4>1, <1>1 DEF EscapeLast
      <4>2. CASE n \notin Len(delivered) + 1 .. Arrived - 1
        <5>1. n = Arrived /\ Len(delivered) < Arrived
          BY <4>2, <1>4 DEF next
        <5> QED BY <5>1, <1>6, SettledLemma
      <4> QED BY <4>1, <4>2
    <3> QED BY <3>1, <2>3, <1>2 DEF EscapeLast
  <2>11. Within(keys, marks, at)'
    <3>1. Len(delivered) < Arrived => Len(delivered) < next
      BY <1>4 DEF next
    <3> QED BY <3>1, <2>3, <1>1, <1>2 DEF Within
  <2>12. (~split => rest = <<>>)'
    BY <2>8, <1>2
  <2> QED BY <1>3, <2>9, <2>10, <2>11, <2>12 DEF InStep
<1>7. CASE rest # <<>> /\ Arrives(rest) /\ wire' = wire
  <2>1. Arrived' = Arrived
    BY <1>2, <1>7 DEF Arrived
  <2>2. rest \in Bytes /\ LiesAt(rest, text, at + Len(input))
    BY <1>1 DEF OnTheWay, DecoderTypes
  <2>3. /\ Len(input') \in Nat /\ Len(rest') \in Nat /\ Len(input') > Len(input)
        /\ Len(input') + Len(rest') = Len(input) + Len(rest)
        /\ LiesAt(input', text, at) /\ LiesAt(rest', text, at + Len(input'))
        /\ ~split => rest' = <<>>
    <3>1. Arrives(rest) /\ rest # <<>> /\ rest \in Bytes
      BY <1>7, <2>2
    <3>2. at \in Nat
      BY <1>4
    <3> QED BY <3>1, <3>2, <2>2, <1>5, PieceLemma
  <2>4. OnTheWay(keys, marks, text, at)'
    <3>1. Arrived > 0 /\ marks[Arrived - 1] < at + Len(input)
      BY <1>1, <1>7 DEF OnTheWay
    <3>2. marks[Arrived - 1] < at + Len(input')
      <4>1. marks[Arrived - 1] \in Nat
        <5>1. Arrived - 1 \in 0 .. size
          BY <3>1, <1>4
        <5> QED BY <5>1, PlacesLemma
      <4> QED BY <3>1, <4>1, <2>3, <1>4
    <3>3. at + Len(input') + Len(rest') = marks[Arrived]
      <4>1. marks[Arrived] \in Nat
        BY <1>4, PlacesLemma
      <4> QED BY <4>1, <2>3, <1>4
    <3> QED BY <3>1, <3>2, <3>3, <2>1, <2>3, <1>1, <1>2, <1>7 DEF OnTheWay
  <2>5. EscapeLast(keys)' /\ Within(keys, marks, at)'
    BY <2>1, <1>1, <1>2 DEF EscapeLast, Within
  <2>6. (~split => rest = <<>>)'
    BY <2>3, <1>2
  <2> QED BY <1>3, <2>4, <2>5, <2>6 DEF InStep
<1> QED BY <1>6, <1>7 DEF Arrive

\* The key that was typed next is delivered.
LEMMA DeliveredLemma ==
    ASSUME DecoderTypes, NEW keys, NEW marks, NEW text, NEW at, InStep(keys, marks, text, at),
           Len(delivered) < Arrived, Deliver(Meant[keys[Len(delivered) + 1]]),
           typed' = typed, wire' = wire,
           NEW after, after = marks[Len(delivered) + 1]
    PROVE  /\ Within(keys, marks, after)' /\ EscapeLast(keys)'
           /\ Len(delivered') = Len(delivered) + 1 /\ Arrived' = Arrived
<1> DEFINE done == Len(delivered)
           key == Meant[keys[done + 1]]
<1>1. done \in Nat /\ done + 1 \in 1 .. Len(keys) /\ Arrived \in Nat
  BY PlacesLemma
<1>2. keys[done + 1] \in Keys /\ typed[done + 1] = key
  BY <1>1 DEF InStep, Text
<1>3. key \in InputKey /\ key # NoKey
  BY <1>2, SentLemma, EncodingAssumption
<1>4. /\ phase' = "idle" /\ sequence' = <<>>
      /\ Len(delivered') = done + 1 /\ delivered'[done + 1] = key
      /\ \A n \in 1 .. done : delivered'[n] = delivered[n]
  <2> HIDE DEF key
  <2>1. Deliver(key)
    BY DEF key
  <2> QED BY <2>1, <1>3, DeliverLemma
<1>5. Arrived' = Arrived
  BY DEF Arrived
<1>6. \A n \in 1 .. done : delivered[n] = typed[n]
  BY DEF InStep, Within
<1>7. \A n \in 1 .. done + 1 : n \in 1 .. done \/ n = done + 1
  BY <1>1
<1>8. \A n \in 1 .. Len(delivered') : delivered'[n] = typed'[n]
  BY <1>2, <1>4, <1>6, <1>7
<1>9. EscapeLast(keys)'
  <2>1. \A n \in done + 1 .. Arrived - 1 : Encoding[keys[n]] # <<ESC>>
    BY DEF InStep, EscapeLast
  <2>2. \A n \in done + 1 + 1 .. Arrived - 1 : n \in done + 1 .. Arrived - 1
    BY <1>1
  <2> QED BY <2>1, <2>2, <1>4, <1>5 DEF EscapeLast
<1> HIDE DEF done, key
<1>10. Within(keys, marks, after)'
  <2>1. marks[Len(delivered')] = after /\ phase' = "idle" /\ sequence' = <<>>
    BY <1>4 DEF done
  <2> QED BY <2>1, <1>8 DEF Within
<1> QED BY <1>4, <1>5, <1>9, <1>10 DEF done

\* The byte that is read is the next of the first key not delivered.
LEMMA ReadLemma ==
    ASSUME DecoderTypes, NEW keys, NEW marks, NEW text, NEW at, InStep(keys, marks, text, at),
           ReadByte,
           NEW bytes, bytes = Encoding[keys[Len(delivered) + 1]]
    PROVE  /\ Len(delivered) < Arrived /\ Len(delivered) + 1 \in 1 .. Len(keys)
           /\ marks[Len(delivered) + 1] = marks[Len(delivered)] + Len(bytes)
           /\ \E r \in 1 .. Len(bytes) :
                 /\ at + 1 = marks[Len(delivered)] + r /\ input[1] = bytes[r]
                 /\ phase = "idle" => r = 1
                 /\ phase = "first" => r = 2
                 /\ phase = "sequence" => r = 3 + Len(sequence)
<1> DEFINE done == Len(delivered)
           next == done + 1
<1>1. Len(input) > 0
  BY HeadLemma
<1>2. at < marks[Arrived] /\ at \in Nat
  <2>1. at + Len(input) + Len(rest) = marks[Arrived] /\ at \in Nat /\ Len(input) \in Nat /\ Len(rest) \in Nat
    BY PlacesLemma
  <2> QED BY <1>1, <2>1
<1>3. done < Arrived
  <2>1. CASE phase = "idle"
    <3>1. at = marks[done]
      BY <2>1 DEF InStep, Within
    <3>2. done \in Nat /\ Arrived \in Nat /\ done <= Arrived /\ marks[Arrived] \in Nat
      BY PlacesLemma
    <3> QED BY <3>1, <3>2, <1>2
  <2>2. CASE phase # "idle"
    BY <2>2, WithinLemma
  <2> QED BY <2>1, <2>2
<1>4. next \in 1 .. Len(keys) /\ next \in 0 .. Len(keys) /\ done \in 0 .. Len(keys) /\ next - 1 = done
  BY <1>3, PlacesLemma
<1>5. Text(keys, marks, text)
  BY DEF InStep
<1>6. /\ Len(bytes) \in Nat /\ Len(bytes) > 0 /\ marks[done] \in Nat /\ marks[next] \in Nat
      /\ marks[next] = marks[done] + Len(bytes) /\ bytes \in Bytes
  BY <1>4, <1>5, MarksLemma
<1>7. at < marks[next]
  <2>1. CASE phase = "idle"
    <3>1. at = marks[done]
      BY <2>1 DEF InStep, Within
    <3> QED BY <3>1, <1>6
  <2>2. CASE phase # "idle" /\ ~(at < marks[next])
    <3>1. phase = "first" /\ at = marks[next] /\ Len(bytes) = 1
      BY <2>2, WithinLemma
    <3>2. bytes[1] = ESC
      BY <3>1 DEF InStep, Within
    <3>3. bytes = <<ESC>>
      <4>1. bytes \in Seq(Byte)
        BY <1>6 DEF Bytes
      <4> QED BY <4>1, <3>1, <3>2
    <3>4. next < Arrived
      <4>1. next \in Nat /\ Arrived \in Nat /\ next <= Arrived /\ marks[next] < marks[Arrived]
        BY <1>2, <1>3, <3>1, PlacesLemma
      <4>2. marks[next] # marks[Arrived]
        BY <4>1, <1>6
      <4>3. next # Arrived
        BY <4>2
      <4> HIDE DEF next
      <4> QED BY <4>1, <4>3
    <3>5. next \in done + 1 .. Arrived - 1
      BY <3>4, <1>4, PlacesLemma
    <3>6. bytes # <<ESC>>
      BY <3>5 DEF InStep, EscapeLast
    <3> QED BY <3>3, <3>6
  <2> QED BY <2>1, <2>2
<1>8. input[1] = text[at + 1]
  <2>1. 1 \in 1 .. Len(input)
    BY <1>1, PlacesLemma
  <2> QED BY <2>1 DEF InStep, OnTheWay, LiesAt
<1> HIDE DEF done, next
<1>9. PICK r \in 1 .. Len(bytes) : at + 1 = marks[done] + r
  <2>1. marks[done] <= at
    <3>1. CASE phase = "idle"
      <4>1. at = marks[done]
        BY <3>1 DEF InStep, Within, done
      <4> QED BY <4>1, <1>6
    <3>2. CASE phase # "idle"
      BY <3>2, <1>2, <1>6, WithinLemma DEF done
    <3> QED BY <3>1, <3>2
  <2> DEFINE r == at + 1 - marks[done]
  <2>2. r \in 1 .. Len(bytes) /\ at + 1 = marks[done] + r
    BY <2>1, <1>2, <1>6, <1>7
  <2> QED BY <2>2
<1>10. text[marks[done] + r] = bytes[r]
  <2>1. \A i \in 1 .. Len(bytes) : text[marks[next - 1] + i] = bytes[i]
    BY <1>4, <1>5 DEF Text, next, done
  <2> QED BY <2>1, <1>4
<1>11. (phase = "idle" => r = 1) /\ (phase = "first" => r = 2) /\ (phase = "sequence" => r = 3 + Len(sequence))
  <2>1. r \in Nat /\ Len(sequence) \in Nat
    BY <1>6, PlacesLemma
  <2>2. phase = "idle" => at = marks[done]
    BY DEF InStep, Within, done
  <2>3. phase = "first" => at = marks[done] + 1
    BY DEF InStep, Within, done
  <2>4. phase = "sequence" => at = marks[done] + 2 + Len(sequence)
    BY DEF InStep, Within, done
  <2> QED BY <2>1, <2>2, <2>3, <2>4, <1>6, <1>9
<1>12. input[1] = bytes[r]
  BY <1>8, <1>9, <1>10
<1> QED BY <1>3, <1>4, <1>6, <1>9, <1>11, <1>12 DEF done, next

\* A byte that is read leaves the others where they are.
LEMMA ReadOnTheWay ==
    ASSUME DecoderTypes, NEW keys, NEW marks, NEW text, NEW at, InStep(keys, marks, text, at),
           ReadByte, Len(delivered') <= Arrived, NEW after, after = at + 1
    PROVE  OnTheWay(keys, marks, text, after)'
<1>1. /\ Len(input) > 0 /\ Len(input') = Len(input) - 1
      /\ \A i \in 1 .. Len(input') : input'[i] = input[i + 1]
      /\ wire' = wire /\ rest' = rest /\ typed' = typed
  BY HeadLemma
<1>2. /\ at \in Nat /\ Len(input) \in Nat /\ Len(rest) \in Nat /\ Arrived \in Nat
      /\ at + Len(input) + Len(rest) = marks[Arrived]
  BY PlacesLemma
<1>3. Arrived' = Arrived
  BY <1>1 DEF Arrived
<1>4. LiesAt(input, text, at) /\ LiesAt(rest, text, at + Len(input))
  BY DEF InStep, OnTheWay
<1>5. after \in Nat /\ after + Len(input') = at + Len(input)
  BY <1>1, <1>2
<1>6. LiesAt(input', text, after)
  <2>1. ASSUME NEW i \in 1 .. Len(input') PROVE input'[i] = text[after + i]
    <3>1. i + 1 \in 1 .. Len(input) /\ at + (i + 1) = after + i
      BY <1>1, <1>2
    <3>2. input[i + 1] = text[at + (i + 1)]
      BY <3>1, <1>4 DEF LiesAt
    <3> QED BY <3>1, <3>2, <1>1
  <2> QED BY <2>1 DEF LiesAt
<1>7. LiesAt(rest', text, after + Len(input'))
  BY <1>1, <1>4, <1>5
<1>8. after + Len(input') + Len(rest') = marks[Arrived]
  BY <1>1, <1>2, <1>5
<1>9. rest' # <<>> => Arrived > 0 /\ marks[Arrived - 1] < after + Len(input')
  <2>1. rest # <<>> => Arrived > 0 /\ marks[Arrived - 1] < at + Len(input)
    BY DEF InStep, OnTheWay
  <2> QED BY <2>1, <1>1, <1>5
<1>10. \A n \in 1 .. Len(wire') : wire'[n] = Encoding[keys[Arrived + n]]
  BY <1>1 DEF InStep, OnTheWay
<1> QED BY <1>2, <1>3, <1>5, <1>6, <1>7, <1>8, <1>9, <1>10 DEF OnTheWay

\* What a terminal sends for a key that was typed.
LEMMA WellSentLemma ==
    ASSUME NEW keys, NEW marks, NEW text, Text(keys, marks, text), NEW n \in 1 .. Len(keys),
           NEW bytes, bytes = Encoding[keys[n]]
    PROVE  LET key == Meant[keys[n]]
           IN  \/ /\ Len(bytes) = 1
                  /\ key = IF bytes[1] = ESC THEN Special("escape")
                           ELSE DecodeByte(bytes[1])
               \/ /\ Len(bytes) = 2 /\ bytes[1] = ESC /\ bytes[2] \notin Introducers
                  /\ key = Alted(DecodeByte(bytes[2]))
               \/ /\ Len(bytes) > 2 /\ bytes[1] = ESC /\ bytes[2] \in Introducers
                  /\ \A i \in 3 .. Len(bytes) :
                        (bytes[i] \in Finals \/ i = MaxSequence + 2) <=> i = Len(bytes)
                  /\ key = Decoded(SubSeq(bytes, 3, Len(bytes)))
<1>1. keys[n] \in Keys
  BY DEF Text
<1>2. WellSent(keys[n])
  BY <1>1, EncodingAssumption
<1> QED BY <1>2 DEF WellSent

\* What a byte does to the decoder: it goes on within the key, or the key is delivered.
LEMMA ReadWithin ==
    ASSUME DecoderTypes, NEW keys, NEW marks, NEW text, NEW at, InStep(keys, marks, text, at),
           ReadByte, NEW after, after = at + 1
    PROVE  Within(keys, marks, after)' /\ EscapeLast(keys)' /\ Len(delivered') <= Arrived
<1> DEFINE done == Len(delivered)
           bytes == Encoding[keys[done + 1]]
           key == Meant[keys[done + 1]]
           b == input[1]
           q == Append(sequence, b)
<1>1. /\ done < Arrived /\ done + 1 \in 1 .. Len(keys)
      /\ marks[done + 1] = marks[done] + Len(bytes)
  BY ReadLemma
<1>2. PICK r \in 1 .. Len(bytes) :
        /\ at + 1 = marks[done] + r /\ b = bytes[r]
        /\ phase = "idle" => r = 1
        /\ phase = "first" => r = 2
        /\ phase = "sequence" => r = 3 + Len(sequence)
  BY ReadLemma
<1>3. wire' = wire /\ typed' = typed /\ Head(input) = b /\ b \in Byte /\ q \in Bytes
  BY HeadLemma
<1>4. Arrived' = Arrived /\ done \in Nat /\ Arrived \in Nat /\ Len(sequence) \in Nat
  BY <1>3, PlacesLemma DEF Arrived
<1>5. Text(keys, marks, text) /\ bytes \in Bytes /\ Len(bytes) \in Nat
  BY <1>1, MarksLemma DEF InStep
<1>6. \A n \in 1 .. done : delivered[n] = typed[n]
  BY DEF InStep, Within
<1>7. \A n \in done + 1 .. Arrived - 1 : Encoding[keys[n]] # <<ESC>>
  BY DEF InStep, EscapeLast
<1>8. ASSUME Deliver(key), r = Len(bytes) PROVE Within(keys, marks, after)' /\ EscapeLast(keys)' /\ Len(delivered') <= Arrived
  <2>1. after = marks[done + 1]
    BY <1>1, <1>2, <1>8
  <2>2. Within(keys, marks, after)' /\ EscapeLast(keys)' /\ Len(delivered') = done + 1
    BY <2>1, <1>1, <1>3, <1>8, DeliveredLemma
  <2> QED BY <2>2, <1>1, <1>4
<1>9. ASSUME delivered' = delivered PROVE EscapeLast(keys)' /\ Len(delivered') <= Arrived
  BY <1>1, <1>4, <1>7, <1>9 DEF EscapeLast
<1>10. \/ /\ Len(bytes) = 1
          /\ key = IF bytes[1] = ESC THEN Special("escape")
                   ELSE DecodeByte(bytes[1])
       \/ /\ Len(bytes) = 2 /\ bytes[1] = ESC /\ bytes[2] \notin Introducers
          /\ key = Alted(DecodeByte(bytes[2]))
       \/ /\ Len(bytes) > 2 /\ bytes[1] = ESC /\ bytes[2] \in Introducers
          /\ \A i \in 3 .. Len(bytes) :
                (bytes[i] \in Finals \/ i = MaxSequence + 2) <=> i = Len(bytes)
          /\ key = Decoded(SubSeq(bytes, 3, Len(bytes)))
  BY <1>1, <1>5, WellSentLemma
<1>11. CASE phase = "idle"
  <2>1. b = bytes[1] /\ r = 1
    BY <1>2, <1>11
  <2>2. IF b = ESC THEN Go("first", <<>>) ELSE Deliver(DecodeByte(b))
    BY <1>3, <1>11 DEF ReadByte
  <2>3. CASE b = ESC
    <3>1. phase' = "first" /\ sequence' = <<>> /\ delivered' = delivered
      BY <2>2, <2>3 DEF Go
    <3>2. bytes[1] = ESC /\ after = marks[done] + 1
      BY <2>1, <2>3, <1>2
    <3> QED BY <3>1, <3>2, <1>1, <1>3, <1>4, <1>6, <1>9 DEF Within
  <2>4. CASE b # ESC
    <3>1. Len(bytes) = 1 /\ key = DecodeByte(b)
      BY <2>1, <2>4, <1>10
    <3>2. Deliver(key)
      BY <3>1, <2>2, <2>4
    <3> QED BY <3>1, <3>2, <2>1, <1>8
  <2> QED BY <2>3, <2>4
<1>12. CASE phase = "first"
  <2>1. b = bytes[2] /\ r = 2 /\ Len(bytes) >= 2 /\ bytes[1] = ESC
    <3>1. r = 2 /\ r \in 1 .. Len(bytes)
      BY <1>2, <1>12
    <3>2. bytes[1] = ESC
      BY <1>12 DEF InStep, Within
    <3> QED BY <3>1, <3>2, <1>2, <1>5
  <2>2. IF b \in Introducers THEN Go("sequence", <<>>)
        ELSE Deliver(Alted(DecodeByte(b)))
    BY <1>3, <1>12 DEF ReadByte
  <2>3. CASE b \in Introducers
    <3>1. phase' = "sequence" /\ sequence' = <<>> /\ delivered' = delivered
      BY <2>2, <2>3 DEF Go
    <3>2. Len(bytes) > 2 /\ bytes[2] \in Introducers
      BY <2>1, <2>3, <1>10
    <3>3. Len(sequence') = 0
      BY <3>1
    <3>4. after = marks[done] + 2 + Len(sequence') /\ 2 + Len(sequence') < Len(bytes)
      <4>1. marks[done] \in Nat
        BY <1>1, PlacesLemma
      <4> QED BY <4>1, <3>2, <3>3, <2>1, <1>2, <1>5
    <3>5. \A i \in 1 .. Len(sequence') : sequence'[i] = bytes[2 + i]
      BY <3>3
    <3>6. Within(keys, marks, after)'
      BY <3>1, <3>2, <3>4, <3>5, <2>1, <1>1, <1>3, <1>4, <1>6 DEF Within
    <3> QED BY <3>1, <3>6, <1>9
  <2>4. CASE b \notin Introducers
    <3>1. Len(bytes) = 2 /\ key = Alted(DecodeByte(b))
      BY <2>1, <2>4, <1>10
    <3>2. Deliver(key)
      BY <3>1, <2>2, <2>4
    <3> QED BY <3>1, <3>2, <2>1, <1>8
  <2> QED BY <2>3, <2>4
<1>13. CASE phase = "sequence"
  <2> DEFINE size == Len(sequence)
  <2>1. /\ r = 3 + size /\ b = bytes[3 + size] /\ 2 + size < Len(bytes)
        /\ bytes[1] = ESC /\ bytes[2] \in Introducers
        /\ \A i \in 1 .. size : sequence[i] = bytes[2 + i]
    BY <1>2, <1>13 DEF InStep, Within
  <2>2. /\ \A i \in 3 .. Len(bytes) :
             (bytes[i] \in Finals \/ i = MaxSequence + 2) <=> i = Len(bytes)
        /\ key = Decoded(SubSeq(bytes, 3, Len(bytes))) /\ Len(bytes) > 2
    <3>1. Len(bytes) # 1 /\ bytes[2] \in Introducers
      BY <2>1, <1>4, <1>5
    <3> DEFINE one == /\ Len(bytes) = 1
                      /\ key = IF bytes[1] = ESC THEN Special("escape")
                               ELSE DecodeByte(bytes[1])
               two == Len(bytes) = 2 /\ bytes[1] = ESC /\ bytes[2] \notin Introducers
                      /\ key = Alted(DecodeByte(bytes[2]))
               ended == \A i \in 3 .. Len(bytes) :
                          (bytes[i] \in Finals \/ i = MaxSequence + 2) <=> i = Len(bytes)
               more == Len(bytes) > 2 /\ bytes[1] = ESC /\ bytes[2] \in Introducers
                       /\ ended /\ key = Decoded(SubSeq(bytes, 3, Len(bytes)))
    <3>2. one \/ two \/ more
      BY <1>10
    <3>3. ~one /\ ~two
      BY <3>1
    <3>4. more
      <4> HIDE DEF one, two, more
      <4> QED BY <3>2, <3>3
    <3>5. ended /\ Len(bytes) > 2 /\ key = Decoded(SubSeq(bytes, 3, Len(bytes)))
      <4> HIDE DEF ended
      <4> QED BY <3>4
    <3> QED BY <3>5
  <2>3. Len(q) = size + 1 /\ q[size + 1] = b /\ \A i \in 1 .. size : q[i] = sequence[i]
    BY <1>3 DEF DecoderTypes, Bytes
  <2>4. \A i \in 1 .. size + 1 : q[i] = bytes[2 + i]
    <3>1. \A i \in 1 .. size + 1 : i \in 1 .. size \/ i = size + 1
      BY <1>4
    <3>2. 2 + (size + 1) = 3 + size
      BY <1>4
    <3> HIDE DEF size, q, b, bytes
    <3> QED BY <3>1, <3>2, <2>1, <2>3
  <2>5. Ends(q) <=> 3 + size = Len(bytes)
    <3>1. Ends(q) <=> (b \in Finals \/ size + 1 = MaxSequence)
      <4> HIDE DEF q, b
      <4> QED BY <2>3 DEF Ends
    <3>2. 3 + size \in 3 .. Len(bytes) /\ (size + 1 = MaxSequence <=> 3 + size = MaxSequence + 2)
      BY <2>1, <1>4, <1>5 DEF MaxSequence
    <3> QED BY <3>1, <3>2, <2>1, <2>2
  <2>6. IF Ends(q) THEN Deliver(Decoded(q)) ELSE Go("sequence", q)
    BY <1>3, <1>13 DEF ReadByte
  <2>7. CASE Ends(q)
    <3>1. q = SubSeq(bytes, 3, Len(bytes))
      <4> DEFINE body == SubSeq(bytes, 3, Len(bytes))
      <4>1. body \in Seq(Byte) /\ Len(body) = Len(bytes) - 2
            /\ \A i \in 1 .. Len(bytes) - 2 : body[i] = bytes[2 + i]
        <5>1. bytes \in Seq(Byte)
          BY <1>5 DEF Bytes
        <5> HIDE DEF bytes
        <5> QED BY <5>1, <2>2
      <4>2. Len(bytes) - 2 = size + 1
        BY <2>5, <2>7, <1>4
      <4>3. q \in Seq(Byte)
        BY <1>3 DEF Bytes
      <4> HIDE DEF body, q
      <4>4. q = body
        BY <4>1, <4>2, <4>3, <2>3, <2>4
      <4> QED BY <4>4 DEF body
    <3>2. Deliver(key)
      BY <3>1, <2>2, <2>6, <2>7
    <3> QED BY <3>2, <2>1, <2>5, <2>7, <1>8
  <2>8. CASE ~Ends(q)
    <3>1. phase' = "sequence" /\ sequence' = q /\ delivered' = delivered
      BY <2>6, <2>8 DEF Go
    <3>2. Len(sequence') = size + 1
      BY <3>1, <2>3
    <3>3. after = marks[done] + 2 + Len(sequence') /\ 2 + Len(sequence') < Len(bytes)
      <4>1. marks[done] \in Nat
        BY <1>1, PlacesLemma
      <4> HIDE DEF size
      <4>2. size \in Nat
        BY <1>4 DEF size
      <4>3. after = marks[done] + 3 + size /\ 2 + size < Len(bytes) /\ 3 + size # Len(bytes)
        <5>1. after = marks[done] + r /\ r = 3 + size /\ 2 + size < Len(bytes)
          BY <2>1, <1>2 DEF size
        <5>2. 3 + size # Len(bytes)
          BY <2>5, <2>8 DEF size
        <5> QED BY <5>1, <5>2, <4>1, <4>2
      <4>4. Len(bytes) \in Nat
        BY <1>5
      <4> HIDE DEF bytes
      <4>5. 2 + (size + 1) < Len(bytes) /\ after = marks[done] + 2 + (size + 1)
        BY <4>1, <4>2, <4>3, <4>4
      <4> QED BY <4>5, <3>2
    <3>4. \A i \in 1 .. Len(sequence') : sequence'[i] = bytes[2 + i]
      BY <3>1, <3>2, <2>4
    <3>5. Within(keys, marks, after)'
      <4> HIDE DEF q, b, size
      <4> QED BY <3>1, <3>3, <3>4, <2>1, <1>1, <1>3, <1>4, <1>6 DEF Within
    <3> QED BY <3>1, <3>5, <1>9
  <2> QED BY <2>7, <2>8
<1> QED BY <1>11, <1>12, <1>13 DEF DecoderTypes

LEMMA ReadByteStep ==
    ASSUME DecoderTypes, NEW keys, NEW marks, NEW text, NEW at, InStep(keys, marks, text, at),
           ReadByte
    PROVE  \E after : InStep(keys, marks, text, after)'
<1> DEFINE after == at + 1
<1>1. Within(keys, marks, after)' /\ EscapeLast(keys)' /\ Len(delivered') <= Arrived
  BY ReadWithin
<1>2. OnTheWay(keys, marks, text, after)'
  BY <1>1, ReadOnTheWay
<1>3. typed' = typed /\ split' = split /\ rest' = rest
  BY HeadLemma
<1>4. Text(keys, marks, text)' /\ (~split => rest = <<>>)'
  BY <1>3 DEF InStep, Text
<1> HIDE DEF after
<1> QED BY <1>1, <1>2, <1>4 DEF InStep

\* What was read of a sequence that is not over has no final byte.
LEMMA NoFinalLemma ==
    ASSUME DecoderTypes, NEW keys, NEW marks, NEW text, NEW at, InStep(keys, marks, text, at),
           phase # "idle"
    PROVE  Decoded(sequence) = Special("escape")
<1>1. CASE sequence = <<>>
  BY <1>1 DEF Decoded
<1>2. CASE sequence # <<>>
  <2> DEFINE next == Len(delivered) + 1
             size == Len(sequence)
             bytes == Encoding[keys[next]]
  <2>1. /\ 2 + size < Len(bytes) /\ bytes[1] = ESC
        /\ \A i \in 1 .. size : sequence[i] = bytes[2 + i]
    BY <1>2 DEF InStep, Within
  <2>2. sequence \in Bytes /\ size \in Nat /\ size > 0
    BY <1>2 DEF DecoderTypes, Bytes
  <2>3. next \in 1 .. Len(keys) /\ Text(keys, marks, text)
    BY WithinLemma, PlacesLemma DEF InStep
  <2>4. Len(bytes) \in Nat
    BY <2>3, MarksLemma
  <2>5. \A i \in 3 .. Len(bytes) :
          (bytes[i] \in Finals \/ i = MaxSequence + 2) <=> i = Len(bytes)
    <3>1. Len(bytes) # 1 /\ Len(bytes) # 2
      <4> HIDE DEF size, bytes
      <4> QED BY <2>1, <2>2, <2>4
    <3> QED BY <3>1, <2>3, WellSentLemma
  <2>6. sequence[size] = bytes[2 + size] /\ 2 + size \in 3 .. Len(bytes) /\ 2 + size # Len(bytes)
    <3>1. size \in 1 .. size
      BY <2>2
    <3>2. sequence[size] = bytes[2 + size]
      BY <3>1, <2>1
    <3> HIDE DEF size, bytes
    <3> QED BY <3>2, <2>1, <2>2, <2>4
  <2>7. sequence[size] \notin Finals
    BY <2>5, <2>6
  <2> QED BY <2>2, <2>7, UnendedLemma
<1> QED BY <1>1, <1>2

\* When a read finds nothing the key that was being read is an escape, or was cut.
LEMMA ReadNothingStep ==
    ASSUME DecoderTypes, NEW keys, NEW marks, NEW text, NEW at, InStep(keys, marks, text, at),
           ReadNothing
    PROVE  InStep(keys, marks, text, at)' \/ (split' /\ \E n : Cut(n)')
<1> DEFINE done == Len(delivered)
           next == done + 1
           bytes == Encoding[keys[next]]
<1>1. /\ wire' = wire /\ rest' = rest /\ input' = input /\ typed' = typed /\ split' = split
      /\ Len(input) = 0
  BY DEF ReadNothing
<1>2. Text(keys, marks, text)' /\ (~split => rest = <<>>)' /\ Arrived' = Arrived
  BY <1>1 DEF InStep, Text, Arrived
<1>3. Len(delivered') <= Arrived => OnTheWay(keys, marks, text, at)'
  BY <1>1, <1>2 DEF InStep, OnTheWay
<1>4. CASE phase = "idle"
  <2>1. Deliver(NoKey)
    BY <1>4 DEF ReadNothing
  <2>2. phase' = "idle" /\ sequence' = <<>> /\ delivered' = delivered
    BY <2>1, NoKeyLemma, DeliverLemma
  <2>3. OnTheWay(keys, marks, text, at)' /\ EscapeLast(keys)'
    BY <2>2, <1>2, <1>3 DEF InStep, OnTheWay, EscapeLast
  <2>4. at = marks[Len(delivered)] /\ \A n \in 1 .. Len(delivered) : delivered[n] = typed[n]
    BY <1>4 DEF InStep, Within
  <2>5. Within(keys, marks, at)'
    BY <2>2, <2>4, <1>1 DEF Within
  <2> QED BY <2>3, <2>5, <1>2 DEF InStep
<1>5. CASE phase # "idle"
  <2>1. Deliver(Special("escape"))
    BY <1>5, NoFinalLemma DEF ReadNothing
  <2>2. /\ done < Arrived /\ marks[next] <= marks[Arrived] /\ marks[done] < at
        /\ at < marks[next] \/ (phase = "first" /\ at = marks[next] /\ Len(bytes) = 1)
    BY <1>5, WithinLemma
  <2>3. /\ done \in Nat /\ Arrived \in Nat /\ next \in 1 .. Len(keys) /\ next \in 0 .. Len(keys)
        /\ Text(keys, marks, text)
    BY <2>2, PlacesLemma DEF InStep
  <2>4. at \in Nat /\ marks[done] \in Nat /\ marks[next] \in Nat /\ marks[Arrived] \in Nat
    BY <2>2, <2>3, PlacesLemma
  <2>5. at + Len(rest) = marks[Arrived] /\ Len(rest) \in Nat
    BY <1>1, PlacesLemma
  <2>6. marks[next] = marks[done] + Len(bytes) /\ Len(bytes) \in Nat
    <3>1. next - 1 = done
      BY <2>3
    <3> QED BY <3>1, <2>3, MarksLemma
  <2>7. typed[next] = Meant[keys[next]]
    BY <2>3 DEF Text
  <2>8. CASE rest = <<>>
    <3>1. phase = "first" /\ at = marks[next] /\ Len(bytes) = 1
      <4>1. at = marks[Arrived]
        BY <2>4, <2>5, <2>8
      <4> HIDE DEF next
      <4> QED BY <4>1, <2>2, <2>4
    <3>2. bytes[1] = ESC
      BY <3>1 DEF InStep, Within
    <3>3. Meant[keys[next]] = Special("escape")
      BY <3>1, <3>2, <2>3, WellSentLemma
    <3>4. Within(keys, marks, at)' /\ EscapeLast(keys)' /\ Len(delivered') = done + 1
      BY <3>1, <3>3, <2>1, <2>2, <1>1, DeliveredLemma
    <3> QED BY <3>4, <2>2, <2>3, <1>2, <1>3 DEF InStep
  <2>9. CASE rest # <<>>
    <3>1. Arrived > 0 /\ marks[Arrived - 1] < at
      <4>1. Arrived > 0 /\ marks[Arrived - 1] < at + Len(input)
        BY <2>9 DEF InStep, OnTheWay
      <4> QED BY <4>1, <1>1, <2>4
    <3>2. split
      BY <2>9 DEF InStep
    <3>3. Len(rest) > 0
      BY <2>9 DEF DecoderTypes, Bytes
    <3>4. next = Arrived
      <4>1. ASSUME next < Arrived PROVE FALSE
        <5>1. Arrived - 1 \in 0 .. Len(keys) /\ (next = Arrived - 1 \/ next < Arrived - 1)
          BY <4>1, <2>3, PlacesLemma
        <5>2. marks[next] <= marks[Arrived - 1] /\ marks[Arrived - 1] \in Nat
          <6> DEFINE last == Arrived - 1
          <6>1. \A m, n \in 0 .. Len(keys) : m < n => marks[m] < marks[n]
            BY PlacesLemma
          <6>2. last \in 0 .. Len(keys) /\ marks[last] \in Nat
            BY <5>1, PlacesLemma
          <6>3. next = last \/ marks[next] < marks[last]
            <7> HIDE DEF next, last
            <7> QED BY <5>1, <6>1, <6>2, <2>3 DEF last
          <6> HIDE DEF next, last
          <6>4. marks[next] <= marks[last]
            BY <6>2, <6>3, <2>4
          <6> QED BY <6>2, <6>4 DEF last
        <5> HIDE DEF next
        <5> QED BY <5>2, <3>1, <2>2, <2>4
      <4> QED BY <4>1, <2>2, <2>3
    <3>5. Len(bytes) > 1
      <4>1. at < marks[next]
        BY <3>3, <3>4, <2>4, <2>5
      <4> HIDE DEF next, done, bytes
      <4> QED BY <4>1, <2>2, <2>4, <2>6
    <3>6. typed[next] # Special("escape")
      <4>1. keys[next] \in Cuttable
        BY <3>2, <2>3 DEF Text
      <4> QED BY <4>1, <3>5, <2>7, EncodingAssumption
    <3>7. /\ Len(delivered') = done + 1 /\ delivered'[done + 1] = Special("escape")
          /\ \A n \in 1 .. done : delivered'[n] = delivered[n]
      BY <2>1, EscapeLemma, DeliverLemma
    <3>8. \A n \in 1 .. done : delivered[n] = typed[n]
      BY DEF InStep, Within
    <3>9. next \in 1 .. Len(delivered') /\ next <= Len(typed') /\ next - 1 = done
      BY <3>7, <2>3, <1>1, PlacesLemma
    <3>10. \A m \in 1 .. next - 1 : delivered'[m] = typed'[m]
      BY <3>7, <3>8, <3>9, <1>1
    <3>11. PICK n : n = next
      OBVIOUS
    <3>12. delivered'[n] # typed'[n] /\ delivered'[n] = Special("escape")
      BY <3>6, <3>7, <3>11, <1>1
    <3>13. Cut(n)'
      BY <3>9, <3>10, <3>11, <3>12 DEF Cut
    <3> QED BY <3>2, <3>13, <1>1
  <2> QED BY <2>8, <2>9
<1> QED BY <1>4, <1>5

\* The histories only grow, so the first key that was not typed stays the first.
LEMMA CutStep ==
    ASSUME DecoderTypes, NEW n, Cut(n), [DecoderNext]_decoderVars
    PROVE  Cut(n)'
<1>1. /\ Len(typed) \in Nat /\ Len(delivered) \in Nat /\ n \in 1 .. Len(delivered) /\ n \in 1 .. Len(typed)
  BY DEF Cut, DecoderTypes
<1>2. Len(typed') >= Len(typed) /\ \A i \in 1 .. Len(typed) : typed'[i] = typed[i]
  <2>1. ASSUME NEW k \in Keys, Type(k)
        PROVE  Len(typed') >= Len(typed) /\ \A i \in 1 .. Len(typed) : typed'[i] = typed[i]
    <3>1. typed' = Append(typed, Meant[k]) /\ typed \in Seq(InputKey) /\ Meant[k] \in InputKey
      BY <2>1, SentLemma DEF Type, DecoderTypes
    <3> QED BY <3>1
  <2>2. CASE typed' = typed
    BY <2>2, <1>1
  <2>3. typed' = typed \/ \E k \in Keys : Type(k)
    BY DEF DecoderNext, Arrive, ReadByte, ReadNothing, decoderVars
  <2> QED BY <2>1, <2>2, <2>3
<1>3. Len(delivered') >= Len(delivered) /\ \A i \in 1 .. Len(delivered) : delivered'[i] = delivered[i]
  <2>1. CASE delivered' = delivered
    BY <2>1, <1>1
  <2>2. ASSUME NEW key \in InputKey, Deliver(key)
        PROVE  Len(delivered') >= Len(delivered) /\ \A i \in 1 .. Len(delivered) : delivered'[i] = delivered[i]
    <3>1. delivered' = delivered \/ (delivered' = Append(delivered, key) /\ delivered \in Seq(InputKey))
      BY <2>2 DEF Deliver, DecoderTypes
    <3> QED BY <3>1, <2>1
  <2>3. ASSUME ReadByte
        PROVE  delivered' = delivered \/ \E key \in InputKey : Deliver(key)
    <3> DEFINE b == input[1]
               q == Append(sequence, b)
    <3>1. Head(input) = b /\ b \in Byte
      BY <2>3, HeadLemma
    <3>2. DecodeByte(b) \in InputKey
      BY <3>1, DecodeByteLemma
    <3>3. Alted(DecodeByte(b)) \in InputKey
      BY <3>2, AltedLemma
    <3>4. Decoded(q) \in InputKey
      BY DecodedLemma
    <3> HIDE DEF b, q
    <3>5. \/ Go("first", <<>>) \/ Deliver(DecodeByte(b))
          \/ Go("sequence", <<>>) \/ Deliver(Alted(DecodeByte(b)))
          \/ Deliver(Decoded(q)) \/ Go("sequence", q)
      BY <2>3, <3>1 DEF ReadByte, q
    <3> QED BY <3>2, <3>3, <3>4, <3>5 DEF Go
  <2>4. ASSUME ReadNothing PROVE \E key \in InputKey : Deliver(key)
    BY <2>4, NoKeyLemma, DecodedLemma DEF ReadNothing
  <2>5. delivered' = delivered \/ \E key \in InputKey : Deliver(key)
    BY <2>3, <2>4 DEF DecoderNext, Type, Arrive, decoderVars
  <2> QED BY <2>1, <2>2, <2>5
<1>4. Len(typed') \in Nat /\ Len(delivered') \in Nat
  BY DecoderTypesStep DEF DecoderTypes
<1>5. n \in 1 .. Len(delivered') /\ n <= Len(typed')
  BY <1>1, <1>2, <1>3, <1>4
<1>6. \A m \in 1 .. n : delivered'[m] = delivered[m] /\ typed'[m] = typed[m]
  <2>1. \A m \in 1 .. n : m \in 1 .. Len(delivered) /\ m \in 1 .. Len(typed)
    BY <1>1
  <2> QED BY <2>1, <1>2, <1>3
<1>7. n \in 1 .. n /\ \A m \in 1 .. n - 1 : m \in 1 .. n
  BY <1>1
<1> QED BY <1>5, <1>6, <1>7 DEF Cut

LEMMA InitDecoderInv == ASSUME DecoderInit PROVE DecoderInv
<1>1. /\ wire = <<>> /\ rest = <<>> /\ input = <<>> /\ sequence = <<>> /\ typed = <<>> /\ delivered = <<>>
      /\ phase = "idle"
  BY DEF DecoderInit
<1>2. DecoderTypes
  BY <1>1 DEF DecoderTypes, Bytes
<1> DEFINE keys == <<>>
           marks == [n \in 0 .. 0 |-> 0]
<1>3. <<>> \in Seq(Keys) /\ <<>> \in Bytes /\ Len(<<>>) = 0
  BY DEF Bytes
<1>4. marks \in [0 .. Len(keys) -> Nat] /\ marks[0] = 0 /\ \A n \in 0 .. 0 : n = 0
  BY <1>3
<1> HIDE DEF marks
<1>5. Text(keys, marks, <<>>)
  BY <1>1, <1>3, <1>4 DEF Text
<1>6. Arrived = 0
  BY <1>1, <1>3 DEF Arrived
<1>7. OnTheWay(keys, marks, <<>>, 0)
  BY <1>1, <1>3, <1>4, <1>6 DEF OnTheWay, LiesAt
<1>8. EscapeLast(keys) /\ Within(keys, marks, 0)
  BY <1>1, <1>3, <1>4, <1>6 DEF EscapeLast, Within
<1>9. InStep(keys, marks, <<>>, 0)
  BY <1>1, <1>5, <1>7, <1>8 DEF InStep
<1> QED BY <1>2, <1>9 DEF DecoderInv

LEMMA DecoderInvStep ==
    ASSUME DecoderInv, [DecoderNext]_decoderVars
    PROVE  DecoderInv'
<1>1. DecoderTypes /\ DecoderTypes'
  BY DecoderTypesStep DEF DecoderInv
<1>2. ASSUME NEW n, split, Cut(n) PROVE DecoderInv'
  <2>1. Cut(n)'
    BY <1>1, <1>2, CutStep
  <2>2. split' = split
    BY DEF DecoderNext, Type, Arrive, ReadByte, ReadNothing, decoderVars
  <2> QED BY <1>1, <1>2, <2>1, <2>2 DEF DecoderInv
<1>3. ASSUME NEW keys, NEW marks, NEW text, NEW at, InStep(keys, marks, text, at) PROVE DecoderInv'
  <2>1. ASSUME NEW k \in Keys, Type(k) PROVE DecoderInv'
    <3>1. \E keys2, marks2, text2 : InStep(keys2, marks2, text2, at)'
      BY <1>1, <1>3, <2>1, TypedStep
    <3> QED BY <1>1, <3>1 DEF DecoderInv
  <2>2. ASSUME Arrive PROVE DecoderInv'
    <3>1. InStep(keys, marks, text, at)'
      BY <1>1, <1>3, <2>2, ArriveStep
    <3> QED BY <1>1, <3>1 DEF DecoderInv
  <2>3. ASSUME ReadByte PROVE DecoderInv'
    <3>1. \E after : InStep(keys, marks, text, after)'
      BY <1>1, <1>3, <2>3, ReadByteStep
    <3> QED BY <1>1, <3>1 DEF DecoderInv
  <2>4. ASSUME ReadNothing PROVE DecoderInv'
    <3>1. InStep(keys, marks, text, at)' \/ (split' /\ \E n : Cut(n)')
      BY <1>1, <1>3, <2>4, ReadNothingStep
    <3> QED BY <1>1, <3>1 DEF DecoderInv
  <2>5. ASSUME UNCHANGED decoderVars PROVE DecoderInv'
    <3>1. InStep(keys, marks, text, at)'
      BY <1>3, <2>5 DEF decoderVars, InStep, Text, OnTheWay, EscapeLast, Within, Arrived
    <3> QED BY <1>1, <3>1 DEF DecoderInv
  <2> QED BY <2>1, <2>2, <2>3, <2>4, <2>5 DEF DecoderNext
<1> QED BY <1>2, <1>3 DEF DecoderInv

LEMMA KeysAgreeLemma == ASSUME DecoderInv PROVE KeysAgree
<1>1. SUFFICES ASSUME ~split
               PROVE  /\ \A n \in DOMAIN delivered : Agree(n)
                      /\ Quiet => Len(delivered) = Len(typed)
  BY DEF KeysAgree
<1>2. PICK keys, marks, text, at : InStep(keys, marks, text, at)
  BY <1>1 DEF DecoderInv
<1>3. DecoderTypes
  BY DEF DecoderInv
<1>4. DOMAIN delivered = 1 .. Len(delivered)
  BY <1>3 DEF DecoderTypes
<1>5. /\ Len(delivered) \in Nat /\ Len(delivered) <= Arrived /\ Arrived \in 0 .. Len(keys)
      /\ Len(keys) = Len(typed) /\ Len(keys) \in Nat /\ Arrived + Len(wire) = Len(keys)
      /\ at + Len(input) + Len(rest) = marks[Arrived]
  BY <1>2, <1>3, PlacesLemma
<1>6. \A n \in DOMAIN delivered : Agree(n)
  <2>1. \A n \in 1 .. Len(delivered) : n <= Len(typed)
    BY <1>5
  <2> QED BY <2>1, <1>2, <1>4 DEF InStep, Within, Agree
<1>7. ASSUME Quiet PROVE Len(delivered) = Len(typed)
  <2>1. Len(wire) = 0 /\ Len(rest) = 0 /\ Len(input) = 0 /\ phase = "idle"
    BY <1>7 DEF Quiet
  <2>2. at = marks[Len(delivered)]
    BY <1>2, <2>1 DEF InStep, Within
  <2>3. Arrived = Len(typed) /\ Len(delivered) \in 0 .. Len(keys)
    BY <1>5, <2>1
  <2>4. at \in Nat /\ marks[Arrived] \in Nat /\ \A m, n \in 0 .. Len(keys) : m < n => marks[m] < marks[n]
    BY <1>2, <1>3, PlacesLemma
  <2>5. marks[Len(delivered)] = marks[Arrived]
    BY <1>5, <2>1, <2>2, <2>4
  <2>6. ~(Len(delivered) < Arrived)
    BY <1>5, <2>3, <2>4, <2>5
  <2> QED BY <1>5, <2>3, <2>6
<1> QED BY <1>6, <1>7

LEMMA FirstWrongLemma == ASSUME DecoderInv PROVE FirstWrongIsEscape
<1>1. SUFFICES ASSUME NEW n \in DOMAIN delivered, ~Agree(n), \A m \in 1 .. n - 1 : Agree(m)
               PROVE  delivered[n] = Special("escape")
  BY DEF FirstWrongIsEscape
<1>2. DecoderTypes
  BY DEF DecoderInv
<1>3. DOMAIN delivered = 1 .. Len(delivered) /\ n \in 1 .. Len(delivered) /\ Len(delivered) \in Nat
  BY <1>2 DEF DecoderTypes
<1>4. ASSUME NEW keys, NEW marks, NEW text, NEW at, InStep(keys, marks, text, at) PROVE FALSE
  <2>1. Len(delivered) <= Arrived /\ Arrived \in 0 .. Len(keys) /\ Len(keys) = Len(typed) /\ Len(keys) \in Nat
    BY <1>2, <1>4, PlacesLemma
  <2>2. n <= Len(typed)
    BY <1>3, <2>1
  <2> QED BY <1>1, <1>3, <1>4, <2>2 DEF InStep, Within, Agree
<1>5. ASSUME NEW c, Cut(c) PROVE delivered[n] = Special("escape")
  <2>1. /\ c \in 1 .. Len(delivered) /\ c <= Len(typed) /\ ~Agree(c)
        /\ delivered[c] = Special("escape") /\ \A m \in 1 .. c - 1 : delivered[m] = typed[m]
    BY <1>5 DEF Cut, Agree
  <2>2. ~(c < n)
    <3>1. c < n => c \in 1 .. n - 1
      BY <1>3, <2>1
    <3> QED BY <3>1, <1>1, <2>1
  <2>3. ~(n < c)
    <3>1. n < c => n \in 1 .. c - 1 /\ n <= Len(typed)
      BY <1>2, <1>3, <2>1 DEF DecoderTypes
    <3> QED BY <3>1, <1>1, <2>1 DEF Agree
  <2>4. n = c
    BY <1>3, <2>1, <2>2, <2>3
  <2> QED BY <2>1, <2>4
<1> QED BY <1>4, <1>5 DEF DecoderInv

LEMMA AlwaysDecoderInv == DecoderSpec => []DecoderInv
<1>1. DecoderInit => DecoderInv
  BY InitDecoderInv
<1>2. DecoderInv /\ [DecoderNext]_decoderVars => DecoderInv'
  BY DecoderInvStep
<1> QED BY <1>1, <1>2, PTL DEF DecoderSpec

\* However fast the keys follow one another, read_input_key returns those that were typed, in
\* order, each once: for any keys whose bytes are of one of the forms a terminal sends.
THEOREM KeysAlwaysAgree == DecoderSpec => []KeysAgree
<1>1. DecoderInv => KeysAgree
  BY KeysAgreeLemma
<1> QED BY <1>1, AlwaysDecoderInv, PTL

\* A key whose bytes come in pieces may be cut, and the first that is not what was typed is
\* then an escape.
THEOREM FirstWrongAlwaysEscape == DecoderSpec => []FirstWrongIsEscape
<1>1. DecoderInv => FirstWrongIsEscape
  BY FirstWrongLemma
<1> QED BY <1>1, AlwaysDecoderInv, PTL
=============================================================================
