------------------------------- MODULE Events -------------------------------
(***************************************************************************)
(* The hooks of the shell's events: on_event_hook and trigger_event        *)
(* (src/state/events.c), lyra.core.api.on_event (event_api.c), and the     *)
(* signal handler, which triggers an event of its own in the middle of     *)
(* another.                                                                *)
(*                                                                         *)
(* Both triggers use the one Lua stack.  A signal is taken where the main  *)
(* thread is outside Lua: between two triggers, and between the steps of   *)
(* trigger_event that prepare a call.  Inside Lua it is Shell's subject.   *)
(***************************************************************************)
EXTENDS Naturals, Sequences

CONSTANTS
    Hooks,      \* the Lua functions that are registered
    Bystander,  \* another Lua value
    MaxHooks,   \* bound: hooks registered
    MaxErrors   \* bound: values left on the Lua stack when a key or a signal comes

ASSUME EventsAssumption ==
    /\ Bystander \notin Hooks /\ Hooks \cap {"key", "signal", "error"} = {}
    /\ MaxHooks \in Nat /\ MaxErrors \in Nat

VARIABLES
    pc,         \* where main is
    hooks,      \* the hooks of every event
    stack,      \* the Lua stack
    trigger,    \* the trigger of main, and of the signal handler
    failures    \* history: the calls that failed

vars == <<pc, hooks, stack, trigger, failures>>

Event == {"enter", "exit", "key_input", "signal"}
Threads == {"main", "handler"}

\* A trigger: its event, the hook it is at and the step; what it called, and whether a
\* signal's hook failed while it prepared a call.
NoTrigger == [event |-> "none", n |-> 1, at |-> "next", called |-> <<>>, disturbed |-> FALSE]
Trigger(e) == [NoTrigger EXCEPT !.event = e]

Active(w) == trigger[w].event # "none"

\* The handler runs to its end before main goes on.
Running == IF Active("handler") THEN "handler" ELSE "main"

Own(w) == hooks[trigger[w].event]

\* push_empty, push_input_key, push_signal
Args(e) == CASE e = "key_input" -> <<"key">> [] e = "signal" -> <<"signal">> [] OTHER -> <<>>

Init ==
    /\ pc = "boot"
    /\ hooks = [e \in Event |-> <<>>] /\ stack = <<>>
    /\ trigger = [w \in Threads |-> NoTrigger]
    /\ failures = 0

(***************************************************************************)
(* Registering                                                             *)
(***************************************************************************)
Registered == Len(hooks["enter"]) + Len(hooks["exit"])
                + Len(hooks["key_input"]) + Len(hooks["signal"])

\* Any other name is the first event of the enumeration.
EventOf(name) == IF name \in Event THEN name ELSE "key_input"

Register_InFront(name, value) ==
    /\ Registered < MaxHooks
    /\ hooks' = [hooks EXCEPT ![EventOf(name)] = <<value>> \o @]

\* The value kept is the last argument, whatever it is, though the second is checked.
Register(name, value) ==
    /\ Registered < MaxHooks
    /\ hooks' = [hooks EXCEPT ![EventOf(name)] = Append(@, value)]

SomeRegister ==
    \E name \in Event \cup {"other"}, value \in Hooks \cup {Bystander} : Register(name, value)

Configure ==
    /\ pc = "boot" /\ ~Active("main") /\ SomeRegister
    /\ UNCHANGED <<pc, stack, trigger, failures>>

HookRegisters(w) ==
    /\ w = Running /\ Active(w) /\ trigger[w].at = "runs" /\ SomeRegister
    /\ UNCHANGED <<pc, stack, trigger, failures>>

(***************************************************************************)
(* trigger_event                                                           *)
(***************************************************************************)
Step(w, at) == trigger' = [trigger EXCEPT ![w].at = at]

\* lua_rawgeti.  The list and its length are read again for every hook.
PushHook(w) ==
    /\ w = Running /\ Active(w) /\ trigger[w].at = "next" /\ trigger[w].n <= Len(Own(w))
    /\ stack' = Append(stack, Own(w)[trigger[w].n])
    /\ Step(w, "pushed")
    /\ UNCHANGED <<pc, hooks, failures>>

PushArgs(w) ==
    /\ w = Running /\ trigger[w].at = "pushed"
    /\ stack' = stack \o Args(trigger[w].event)
    /\ Step(w, "ready")
    /\ UNCHANGED <<pc, hooks, failures>>

\* The next hook, after a call that failed or not: main may have been preparing one.
Advance(w, ok) ==
    trigger' = [v \in Threads |->
        IF v = w THEN [trigger[v] EXCEPT !.n = @ + 1, !.at = "next"]
        ELSE [trigger[v] EXCEPT !.disturbed = @ \/ (~ok /\ trigger[v].at \in {"pushed", "ready"})]]

Error(w, rest) ==
    /\ stack' = Append(rest, "error") /\ failures' = failures + 1
    /\ Advance(w, FALSE)

\* lua_pcall: what is below the arguments is called, and fails if it is no function.
Call(w) ==
    /\ w = Running /\ trigger[w].at = "ready"
    /\ LET below == Len(stack) - Len(Args(trigger[w].event))
           rest == SubSeq(stack, 1, below - 1)
       IN  IF stack[below] \in Hooks
           THEN /\ stack' = rest
                /\ trigger' = [trigger EXCEPT ![w].at = "runs",
                                              ![w].called = Append(@, stack[below])]
                /\ UNCHANGED failures
           ELSE Error(w, rest)
    /\ UNCHANGED <<pc, hooks>>

Return_LeavesResult(w) ==
    /\ w = Running /\ trigger[w].at = "runs"
    /\ stack' = Append(stack, "key") /\ Advance(w, TRUE)
    /\ UNCHANGED <<pc, hooks, failures>>

Return(w) ==
    /\ w = Running /\ trigger[w].at = "runs"
    /\ Advance(w, TRUE)
    /\ UNCHANGED <<pc, hooks, stack, failures>>

Raise(w) ==
    /\ w = Running /\ trigger[w].at = "runs"
    /\ Error(w, stack)
    /\ UNCHANGED <<pc, hooks>>

Finish(w) ==
    /\ w = Running /\ Active(w) /\ trigger[w].at = "next" /\ trigger[w].n > Len(Own(w))
    /\ trigger' = [trigger EXCEPT ![w] = NoTrigger]
    /\ UNCHANGED <<pc, hooks, stack, failures>>

(***************************************************************************)
(* main, and the signal                                                    *)
(***************************************************************************)
Begin(w, e) ==
    /\ trigger' = [trigger EXCEPT ![w] = Trigger(e)]
    /\ UNCHANGED <<hooks, stack, failures>>

Idle == ~Active("main") /\ ~Active("handler")

Quota == Len(stack) <= MaxErrors

Enter == Idle /\ pc = "boot" /\ pc' = "loop" /\ Begin("main", "enter")
Key == Idle /\ Quota /\ pc = "loop" /\ UNCHANGED pc /\ Begin("main", "key_input")
Exit == Idle /\ pc = "loop" /\ pc' = "exit" /\ Begin("main", "exit")

\* A reload: the lists and the Lua state are new.
Reload ==
    /\ Idle /\ pc = "exit" /\ pc' = "boot"
    /\ hooks' = [e \in Event |-> <<>>] /\ stack' = <<>> /\ failures' = 0
    /\ UNCHANGED trigger

\* SIGWINCH, which is blocked while it is handled.
Signal ==
    /\ Quota /\ pc # "boot" /\ ~Active("handler") /\ trigger["main"].at # "runs"
    /\ Begin("handler", "signal") /\ UNCHANGED pc

TriggerStep(w) ==
    \/ PushHook(w) \/ PushArgs(w) \/ Call(w) \/ Return(w) \/ Raise(w) \/ Finish(w)
    \/ HookRegisters(w)

Next ==
    \/ Configure \/ Enter \/ Key \/ Exit \/ Reload \/ Signal
    \/ \E w \in Threads : TriggerStep(w)

Spec == Init /\ [][Next]_vars

(***************************************************************************)
(* Properties                                                              *)
(***************************************************************************)
Value == Hooks \cup {Bystander}

TypeOK ==
    /\ pc \in {"boot", "loop", "exit"}
    /\ hooks \in [Event -> Seq(Value)]
    /\ stack \in Seq(Value \cup {"key", "signal", "error"})
    /\ trigger \in [Threads -> [event : Event \cup {"none"}, n : Nat \ {0},
                                at : {"next", "pushed", "ready", "runs"},
                                called : Seq(Hooks), disturbed : BOOLEAN]]
    /\ failures \in Nat

\* The functions among the first k values of s, each once and in their order.
InOrder(called, s, k) ==
    \E at \in [DOMAIN called -> 1 .. k] :
        /\ {at[i] : i \in DOMAIN called} = {j \in 1 .. k : s[j] \in Hooks}
        /\ \A i \in DOMAIN called : called[i] = s[at[i]]
        /\ \A i, j \in DOMAIN called : i < j => at[i] < at[j]

\* A trigger that ends has called every function registered for its event, each once and
\* in order of registration, those registered or failing while it went on among them -
\* unless a hook of a signal failed between the steps of a call: the error it leaves on
\* the stack is then called instead of the hook.
CallsAll ==
    [][\A w \in Threads :
         (Active(w) /\ trigger'[w].event = "none" /\ ~trigger[w].disturbed) =>
             InOrder(trigger[w].called, Own(w), Len(Own(w)))]_vars

\* Between triggers the Lua stack holds one value for every call that failed, and
\* nothing else: no value of a call that went well, nor of one that was interrupted.
OneValuePerFailure == Idle => Len(stack) = failures
=============================================================================
