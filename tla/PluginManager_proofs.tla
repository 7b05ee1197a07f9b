------------------------ MODULE PluginManager_proofs ------------------------
(***************************************************************************)
(* Theorems about PluginManager, for any plugins, any dependencies - even  *)
(* cyclic ones, on which prepare_plugin never returns -, any builds, and   *)
(* any nesting of the calls.                                               *)
(***************************************************************************)
EXTENDS PluginManager, SequenceTheorems, TLAPS

(***************************************************************************)
(* The inductive invariant                                                 *)
(***************************************************************************)
\* A prepared plugin is in the table and has a handler; a handler's object is open.
TableInv ==
    /\ prepared \subseteq plugins
    /\ \A u \in prepared : handler[u].present
    /\ \A u \in Plugins : handler[u].loaded => opens[u] > 0

\* The dependencies before the k-th are prepared.
DepsBefore(u, k) ==
    \A i \in DOMAIN Deps[u] :
        i < k /\ Followed(Deps[u][i]) => Deps[u][i].source \in prepared

\* A call of prepare_plugin has prepared the dependencies it has passed, and the call
\* above it, if any, prepares the one it is at.
PrepareAt(i) ==
    stack[i].op = "prepare" =>
        /\ DepsBefore(stack[i].plugin, stack[i].next)
        /\ stack[i].next > 0 => stack[i].plugin \in plugins
        /\ i < Depth =>
              /\ stack[i + 1].op = "prepare"
              /\ stack[i].next \in DOMAIN Deps[stack[i].plugin]
              /\ stack[i + 1].plugin = Deps[stack[i].plugin][stack[i].next].source

\* A call of require has its plugin prepared, or a call above it that does that.
RequireAt(i) ==
    stack[i].op = "require" =>
        IF i < Depth
        THEN stack[i + 1].op = "prepare" /\ stack[i + 1].plugin = stack[i].plugin
        ELSE ~failing => stack[i].plugin \in prepared

StackInv == \A i \in 1 .. Depth : PrepareAt(i) /\ RequireAt(i)

\* Only prepare_plugin and require hand on an Err; the stack is empty in end_shell_state.
ControlInv ==
    /\ failing => stack # <<>> /\ Top.op \in {"prepare", "require"}
    /\ phase \in {"unloading", "closed"} => stack = <<>>
    /\ phase = "unloading" => pending = prepared
    /\ phase = "closed" => prepared = {}

IInv ==
    /\ TypeOK /\ TableInv /\ StackInv /\ ControlInv /\ PreparedDepsPrepared

(***************************************************************************)
(* What a step does to the stack                                           *)
(***************************************************************************)
\* A call is pushed.
LEMMA PushLemma ==
    ASSUME TypeOK, NEW f \in Frame, stack' = Append(stack, f)
    PROVE  /\ stack' \in Seq(Frame) /\ Depth \in Nat /\ Depth' = Depth + 1
           /\ stack'[Depth + 1] = f
           /\ \A i \in 1 .. Depth : stack'[i] = stack[i]
  BY DEF TypeOK, Depth

\* All of a sequence but its last element.
LEMMA FrontLemma ==
    ASSUME NEW S, NEW s \in Seq(S), s # <<>>
    PROVE  /\ Len(s) \in Nat \ {0}
           /\ SubSeq(s, 1, Len(s) - 1) \in Seq(S)
           /\ Len(SubSeq(s, 1, Len(s) - 1)) = Len(s) - 1
           /\ \A i \in 1 .. Len(s) - 1 : SubSeq(s, 1, Len(s) - 1)[i] = s[i]
<1>1. Len(s) \in Nat \ {0} /\ \A i \in 1 .. Len(s) - 1 : s[i] \in S
  OBVIOUS
<1>2. ASSUME NEW n \in Nat, \A i \in 1 .. n : s[i] \in S
      PROVE  /\ SubSeq(s, 1, n) \in Seq(S) /\ Len(SubSeq(s, 1, n)) = n
             /\ \A i \in 1 .. n : SubSeq(s, 1, n)[i] = s[i]
  <2>1. /\ SubSeq(s, 1, n) \in Seq(S)
        /\ Len(SubSeq(s, 1, n)) = IF 1 <= n THEN n - 1 + 1 ELSE 0
        /\ \A i \in 1 .. n - 1 + 1 : SubSeq(s, 1, n)[i] = s[1 + i - 1]
    BY <1>2, SubSeqProperties
  <2>2. n - 1 + 1 = n /\ \A i \in 1 .. n : 1 + i - 1 = i
    OBVIOUS
  <2>3. \A i \in 1 .. n : SubSeq(s, 1, n)[i] = s[i]
    BY <2>1, <2>2
  <2> QED BY <2>1, <2>3
<1>3. Len(s) - 1 \in Nat
  BY <1>1
<1> QED BY <1>1, <1>2, <1>3

\* The innermost call returns.
LEMMA PopLemma ==
    ASSUME TypeOK, stack # <<>>, stack' = Below
    PROVE  /\ stack' \in Seq(Frame) /\ Depth \in Nat \ {0} /\ Depth' = Depth - 1
           /\ \A i \in 1 .. Depth - 1 : stack'[i] = stack[i]
  BY FrontLemma DEF TypeOK, Depth, Below

\* The innermost call returns to prepare_plugin, which goes on.
LEMMA ReturnLemma ==
    ASSUME TypeOK, stack # <<>>, stack' = Returned
    PROVE  /\ stack' \in Seq(Frame) /\ Depth \in Nat \ {0} /\ Depth' = Depth - 1
           /\ \A i \in 1 .. Depth - 1 :
                 /\ stack'[i].op = stack[i].op
                 /\ stack'[i].plugin = stack[i].plugin
                 /\ stack'[i].next = IF i = Depth - 1 /\ stack[i].op = "prepare"
                                     THEN stack[i].next + 1 ELSE stack[i].next
<1>1. /\ Below \in Seq(Frame) /\ Depth \in Nat \ {0} /\ Len(Below) = Depth - 1
      /\ \A i \in 1 .. Depth - 1 : Below[i] = stack[i]
  BY FrontLemma DEF TypeOK, Depth, Below
<1>2. CASE UnderPrepare
  <2>1. stack' = [Below EXCEPT ![Depth - 1].next = @ + 1]
    BY <1>2 DEF Returned
  <2>2. Depth - 1 \in 1 .. Depth - 1 /\ Below[Depth - 1] \in Frame
        /\ stack[Depth - 1].op = "prepare"
    BY <1>1, <1>2 DEF UnderPrepare
  <2>3. [Below[Depth - 1] EXCEPT !.next = @ + 1] \in Frame
    BY <2>2 DEF Frame
  <2> HIDE DEF Below, Depth, Frame
  <2>4. stack' \in Seq(Frame) /\ Len(stack') = Depth - 1
    BY <1>1, <2>1, <2>2, <2>3
  <2>5. \A i \in 1 .. Depth - 1 :
           stack'[i] = IF i = Depth - 1 THEN [Below[i] EXCEPT !.next = @ + 1] ELSE Below[i]
    BY <1>1, <2>1
  <2>6. ASSUME NEW i \in 1 .. Depth - 1
        PROVE  /\ stack'[i].op = stack[i].op
               /\ stack'[i].plugin = stack[i].plugin
               /\ stack'[i].next = IF i = Depth - 1 /\ stack[i].op = "prepare"
                                   THEN stack[i].next + 1 ELSE stack[i].next
    <3>1. CASE i = Depth - 1
      <4>1. stack'[i] = [stack[i] EXCEPT !.next = @ + 1] /\ stack[i] \in Frame
        BY <1>1, <2>2, <2>5, <3>1
      <4> QED BY <2>2, <3>1, <4>1 DEF Frame
    <3>2. CASE i # Depth - 1
      BY <1>1, <2>5, <3>2
    <3> QED BY <3>1, <3>2
  <2> QED BY <1>1, <2>4, <2>6 DEF Depth
<1>3. CASE ~UnderPrepare
  BY <1>1, <1>3 DEF Returned, UnderPrepare, Depth
<1> QED BY <1>2, <1>3

\* Only the innermost call changes: what it is doing, or the dependency it is at.
LEMMA TopLemma ==
    ASSUME TypeOK, stack # <<>>, NEW f \in Frame, stack' = [stack EXCEPT ![Depth] = f]
    PROVE  /\ stack' \in Seq(Frame) /\ Depth \in Nat \ {0} /\ Depth' = Depth
           /\ stack'[Depth] = f
           /\ \A i \in 1 .. Depth - 1 : stack'[i] = stack[i]
  BY DEF TypeOK, Depth

\* A call that is not the innermost one, neither before nor after the step, and whose
\* callee the step leaves alone, keeps its invariant.
LEMMA FrameLemma ==
    ASSUME IInv, TypeOK', plugins \subseteq plugins', prepared \subseteq prepared',
           NEW i \in 1 .. Depth, i < Depth, i < Depth',
           stack'[i].op = stack[i].op, stack'[i].plugin = stack[i].plugin,
           stack'[i].next = stack[i].next,
           stack'[i + 1].op = stack[i + 1].op, stack'[i + 1].plugin = stack[i + 1].plugin
    PROVE  PrepareAt(i)' /\ RequireAt(i)'
<1>1. PrepareAt(i) /\ RequireAt(i)
  BY DEF IInv, StackInv
<1>2. stack'[i].op = "prepare" => DepsBefore(stack[i].plugin, stack[i].next)'
  BY <1>1 DEF PrepareAt, DepsBefore
<1>3. PrepareAt(i)'
  BY <1>1, <1>2 DEF PrepareAt
<1>4. RequireAt(i)'
  BY <1>1 DEF RequireAt
<1> QED BY <1>3, <1>4

\* Lua code is running: the innermost call, if any, is of neither kind StackInv is about.
LEMMA LuaTop ==
    ASSUME IInv, LuaRuns
    PROVE  /\ phase = "running" /\ failing = FALSE /\ Depth \in Nat
           /\ \A i \in 1 .. Depth : i = Depth => stack[i].op \in {"init", "setup"}
  BY DEF IInv, TypeOK, LuaRuns, Depth, Top

\* The process dies.
LEMMA CrashStep ==
    ASSUME IInv, NEW why, Crash(why),
           why \in {"null_handler", "null_setup", "stale_handler", "null_dlclose"}
    PROVE  IInv'
<1>1. TypeOK'
  BY DEF IInv, TypeOK, Crash, manager
<1>2. TableInv'
  BY DEF IInv, TableInv, Crash, manager
<1>3. StackInv'
  BY DEF IInv, StackInv, PrepareAt, RequireAt, DepsBefore, Depth, Crash, manager
<1>4. ControlInv' /\ PreparedDepsPrepared'
  BY DEF IInv, ControlInv, Top, Depth, PreparedDepsPrepared, Crash, manager
<1> QED BY <1>1, <1>2, <1>3, <1>4 DEF IInv

\* The dependencies of a plugin are a sequence.
LEMMA DepsAreSeq ==
    ASSUME NEW u \in Plugins
    PROVE  /\ Len(Deps[u]) \in Nat /\ DOMAIN Deps[u] = 1 .. Len(Deps[u])
           /\ \A k \in DOMAIN Deps[u] : Deps[u][k] \in Dependency
  BY PluginsAssumption

\* No dependency comes before the first.
LEMMA NothingBefore == \A u \in Plugins : DepsBefore(u, 0)' /\ DepsBefore(u, 1)'
  BY DepsAreSeq DEF DepsBefore

(***************************************************************************)
(* Every step keeps the invariant                                          *)
(***************************************************************************)
\* lyra.plugin.resolve.
LEMMA ResolveStep ==
    ASSUME IInv, NEW u \in Plugins, Resolve(u)
    PROVE  IInv'
<1>1. CASE ~(u \in plugins /\ handler[u].present)
  BY <1>1, CrashStep DEF Resolve
<1>2. CASE u \in plugins /\ handler[u].present
  <2>1. /\ handler' = [handler EXCEPT ![u].opts = TRUE]
        /\ UNCHANGED <<plugins, prepared, pending, opens, installed, hooked, stack,
                       failing, booted, phase, fault>>
    BY <1>2 DEF Resolve
  <2>2. TypeOK'
    BY <2>1 DEF IInv, TypeOK, Handler
  <2>3. TableInv'
    BY <2>1 DEF IInv, TypeOK, TableInv, Handler
  <2>4. StackInv'
    BY <2>1 DEF IInv, StackInv, PrepareAt, RequireAt, DepsBefore, Depth
  <2>5. ControlInv' /\ PreparedDepsPrepared'
    BY <2>1 DEF IInv, ControlInv, Top, Depth, PreparedDepsPrepared
  <2> QED BY <2>2, <2>3, <2>4, <2>5 DEF IInv
<1> QED BY <1>1, <1>2

\* lyra.plugin.prepare.
LEMMA PrepareCall ==
    ASSUME IInv, NEW u \in Plugins, Prepare(u)
    PROVE  IInv'
<1> DEFINE f == Call("prepare", u)
<1>1. f \in Frame /\ f.op = "prepare" /\ f.next = 0
  BY DEF Call, Frame
<1> HIDE DEF f
<1>2. /\ stack' = Append(stack, f) /\ MayCall
      /\ UNCHANGED <<manager, installed, hooked, failing, booted, phase, fault>>
  BY DEF Prepare, f
<1>3. /\ stack' \in Seq(Frame) /\ Depth \in Nat /\ Depth' = Depth + 1
      /\ stack'[Depth + 1] = f /\ \A i \in 1 .. Depth : stack'[i] = stack[i]
  BY <1>1, <1>2, PushLemma DEF IInv
<1>4. /\ phase = "running" /\ failing = FALSE
      /\ \A i \in 1 .. Depth : i = Depth => stack[i].op \in {"init", "setup"}
  BY <1>2, LuaTop DEF MayCall
<1>5. TypeOK'
  BY <1>2, <1>3 DEF IInv, TypeOK, manager
<1>6. TableInv' /\ PreparedDepsPrepared'
  BY <1>2 DEF IInv, TableInv, PreparedDepsPrepared, manager
<1>7. StackInv'
  <2> SUFFICES ASSUME NEW i \in 1 .. Depth + 1
               PROVE  PrepareAt(i)' /\ RequireAt(i)'
    BY <1>3 DEF StackInv
  <2>1. CASE i = Depth + 1
    BY <1>1, <1>3, <2>1, NothingBefore DEF PrepareAt, RequireAt, Frame
  <2>2. CASE i = Depth
    BY <1>3, <1>4, <2>2 DEF PrepareAt, RequireAt
  <2>3. CASE i < Depth
    <3>1. /\ i \in 1 .. Depth /\ i + 1 \in 1 .. Depth /\ i < Depth'
          /\ stack'[i] = stack[i] /\ stack'[i + 1] = stack[i + 1]
      BY <1>3, <2>3
    <3>2. plugins \subseteq plugins' /\ prepared \subseteq prepared'
      BY <1>2 DEF manager
    <3> QED BY <1>5, <2>3, <3>1, <3>2, FrameLemma
  <2> QED BY <1>3, <2>1, <2>2, <2>3
<1>8. ControlInv'
  BY <1>2, <1>4 DEF ControlInv, manager
<1> QED BY <1>5, <1>6, <1>7, <1>8 DEF IInv

\* lyra.plugin.require: the plugin is prepared, or a call that prepares it is next.
LEMMA RequireCall ==
    ASSUME IInv, NEW u \in Plugins, Require(u)
    PROVE  IInv'
<1> DEFINE r == Call("require", u)
           f == Call("prepare", u)
<1>1. /\ r \in Frame /\ r.op = "require" /\ r.plugin = u
      /\ f \in Frame /\ f.op = "prepare" /\ f.plugin = u /\ f.next = 0
  BY DEF Call, Frame
<1> HIDE DEF r, f
<1>2. /\ stack' = IF u \in prepared THEN Append(stack, r) ELSE Append(Append(stack, r), f)
      /\ LuaRuns
      /\ UNCHANGED <<manager, installed, hooked, failing, booted, phase, fault>>
  BY DEF Require, r, f
<1>3. /\ stack' \in Seq(Frame) /\ Depth \in Nat /\ Depth' \in {Depth + 1, Depth + 2}
      /\ Depth' = IF u \in prepared THEN Depth + 1 ELSE Depth + 2
      /\ stack'[Depth + 1] = r /\ (u \notin prepared => stack'[Depth + 2] = f)
      /\ \A i \in 1 .. Depth : stack'[i] = stack[i]
  BY <1>1, <1>2 DEF IInv, TypeOK, Depth
<1>4. /\ phase = "running" /\ failing = FALSE
      /\ \A i \in 1 .. Depth : i = Depth => stack[i].op \in {"init", "setup"}
  BY <1>2, LuaTop
<1>5. TypeOK'
  BY <1>2, <1>3 DEF IInv, TypeOK, manager
<1>6. TableInv' /\ PreparedDepsPrepared'
  BY <1>2 DEF IInv, TableInv, PreparedDepsPrepared, manager
<1>7. StackInv'
  <2> SUFFICES ASSUME NEW i \in 1 .. Depth'
               PROVE  PrepareAt(i)' /\ RequireAt(i)'
    BY DEF StackInv
  <2>1. CASE i = Depth + 2
    BY <1>1, <1>3, <2>1, NothingBefore DEF PrepareAt, RequireAt
  <2>2. CASE i = Depth + 1
    <3>1. PrepareAt(i)'
      BY <1>1, <1>3, <2>2 DEF PrepareAt
    <3>2. CASE u \in prepared
      <4>1. ~(i < Depth') /\ stack'[i].plugin = u
        BY <1>1, <1>3, <2>2, <3>2
      <4>2. u \in prepared'
        BY <1>2, <3>2 DEF manager
      <4> QED BY <3>1, <4>1, <4>2 DEF RequireAt
    <3>3. CASE u \notin prepared
      BY <1>1, <1>3, <2>2, <3>1, <3>3 DEF RequireAt
    <3> QED BY <3>2, <3>3
  <2>3. CASE i = Depth
    BY <1>3, <1>4, <2>3 DEF PrepareAt, RequireAt
  <2>4. CASE i < Depth
    <3>1. /\ i \in 1 .. Depth /\ i + 1 \in 1 .. Depth /\ i < Depth'
          /\ stack'[i] = stack[i] /\ stack'[i + 1] = stack[i + 1]
      BY <1>3, <2>4
    <3>2. plugins \subseteq plugins' /\ prepared \subseteq prepared'
      BY <1>2 DEF manager
    <3> QED BY <1>5, <2>4, <3>1, <3>2, FrameLemma
  <2> QED BY <1>3, <2>1, <2>2, <2>3, <2>4
<1>8. ControlInv'
  BY <1>2, <1>4 DEF ControlInv, manager
<1> QED BY <1>5, <1>6, <1>7, <1>8 DEF IInv

\* The innermost call is a call of prepare_plugin.
LEMMA PrepareTop ==
    ASSUME IInv, At("prepare")
    PROVE  /\ stack # <<>> /\ Depth \in Nat \ {0} /\ Top = stack[Depth] /\ Top \in Frame
           /\ Top.op = "prepare" /\ Top.plugin \in Plugins /\ Top.next \in Nat
           /\ DepsBefore(Top.plugin, Top.next) /\ (Top.next > 0 => Top.plugin \in plugins)
<1>1. stack # <<>> /\ Depth \in Nat \ {0} /\ Top = stack[Depth] /\ Top \in Frame
      /\ Top.op = "prepare"
  BY DEF IInv, TypeOK, At, Top, Depth
<1>2. PrepareAt(Depth)
  BY <1>1 DEF IInv, StackInv
<1> QED BY <1>1, <1>2 DEF PrepareAt, Frame

\* The loop of prepare_plugin goes on, whether or not the table grew.
LEMMA AdvanceLemma ==
    ASSUME IInv, At("prepare"), stack' = Advanced \/ stack' = Inserted(Advanced)
    PROVE  /\ stack' \in Seq(Frame) /\ Depth' = Depth
           /\ \A i \in 1 .. Depth :
                 /\ stack'[i].op = stack[i].op
                 /\ stack'[i].plugin = stack[i].plugin
                 /\ stack'[i].next = IF i = Depth THEN stack[i].next + 1 ELSE stack[i].next
<1>1. /\ Depth \in Nat \ {0} /\ stack[Depth] \in Frame /\ stack \in Seq(Frame)
      /\ Depth = Len(stack)
  BY PrepareTop DEF IInv, TypeOK, Depth
<1> HIDE DEF Depth
<1> DEFINE f == [stack[Depth] EXCEPT !.next = @ + 1]
<1>2. /\ f \in Frame /\ f.op = stack[Depth].op /\ f.plugin = stack[Depth].plugin
      /\ f.next = stack[Depth].next + 1
  BY <1>1 DEF Frame
<1>3. Advanced = [stack EXCEPT ![Depth] = f]
  BY DEF Advanced
<1> HIDE DEF f
<1>4. /\ Advanced \in Seq(Frame) /\ Len(Advanced) = Depth /\ Advanced[Depth] = f
      /\ \A i \in 1 .. Depth : i # Depth => Advanced[i] = stack[i]
  BY <1>1, <1>2, <1>3
<1>5. \A i \in 1 .. Depth :
         /\ Advanced[i] \in Frame /\ Advanced[i].op = stack[i].op
         /\ Advanced[i].plugin = stack[i].plugin
         /\ Advanced[i].next = IF i = Depth THEN stack[i].next + 1 ELSE stack[i].next
  BY <1>2, <1>4
<1>6. CASE stack' = Advanced
  BY <1>4, <1>5, <1>6 DEF Depth
<1>7. CASE stack' = Inserted(Advanced) /\ ~Rehash
  BY <1>4, <1>5, <1>7 DEF Depth, Inserted
<1>8. CASE stack' = Inserted(Advanced) /\ Rehash
  <2> DEFINE g(i) == [Advanced[i] EXCEPT !.valid = @ /\ Advanced[i].op \in {"prepare", "require"}]
  <2>1. stack' = [i \in 1 .. Depth |-> g(i)]
    BY <1>1, <1>4, <1>8 DEF Inserted
  <2>2. ASSUME NEW i \in 1 .. Depth
        PROVE  /\ g(i) \in Frame /\ g(i).op = Advanced[i].op
               /\ g(i).plugin = Advanced[i].plugin /\ g(i).next = Advanced[i].next
    <3>1. Advanced[i] \in Frame
      BY <1>5
    <3>2. (Advanced[i].valid /\ Advanced[i].op \in {"prepare", "require"}) \in BOOLEAN
      OBVIOUS
    <3> QED BY <3>1, <3>2 DEF Frame
  <2> HIDE DEF g
  <2>3. stack' \in Seq(Frame) /\ Len(stack') = Depth
    BY <1>1, <2>1, <2>2
  <2> QED BY <1>5, <2>1, <2>2, <2>3 DEF Depth
<1> QED BY <1>6, <1>7, <1>8

\* A step of prepare_plugin that only goes on: in the first step the plugin enters the
\* table; later the dependency it passes is one it need not prepare.
LEMMA AdvanceKeepsStack ==
    ASSUME IInv, At("prepare"), TypeOK', plugins \subseteq plugins', prepared' = prepared,
           Top.plugin \in plugins', stack' = Advanced \/ stack' = Inserted(Advanced),
           DepsBefore(Top.plugin, Top.next + 1)
    PROVE  StackInv'
<1>1. /\ Depth' = Depth
      /\ \A i \in 1 .. Depth :
            /\ stack'[i].op = stack[i].op
            /\ stack'[i].plugin = stack[i].plugin
            /\ stack'[i].next = IF i = Depth THEN stack[i].next + 1 ELSE stack[i].next
  BY AdvanceLemma
<1>2. Depth \in Nat \ {0} /\ Top = stack[Depth] /\ Top.op = "prepare" /\ Top.next \in Nat
  BY PrepareTop
<1> SUFFICES ASSUME NEW i \in 1 .. Depth
             PROVE  PrepareAt(i)' /\ RequireAt(i)'
  BY <1>1 DEF StackInv
<1>3. CASE i = Depth
  <2>1. /\ stack'[i].op = "prepare" /\ stack'[i].plugin = Top.plugin
        /\ stack'[i].next = Top.next + 1 /\ ~(i < Depth')
    BY <1>1, <1>2, <1>3
  <2>2. DepsBefore(stack[i].plugin, stack[i].next)'
    BY <2>1 DEF DepsBefore
  <2> QED BY <2>1, <2>2 DEF PrepareAt, RequireAt
<1>4. CASE i < Depth
  <2>1. i + 1 \in 1 .. Depth /\ i # Depth
    BY <1>2, <1>4
  <2>2. prepared \subseteq prepared'
    OBVIOUS
  <2> QED BY <1>1, <1>4, <2>1, <2>2, FrameLemma
<1> QED BY <1>2, <1>3, <1>4

\* PluginManager::resolve finds the manifest.
LEMMA ReadManifestStep ==
    ASSUME IInv, ReadManifest
    PROVE  IInv'
<1>1. /\ phase = "running" /\ failing = FALSE /\ At("prepare") /\ Top.next = 0
      /\ plugins' = plugins \cup {Top.plugin}
      /\ stack' = Advanced \/ stack' = Inserted(Advanced)
      /\ UNCHANGED <<prepared, pending, handler, opens, installed, hooked, failing,
                     booted, phase, fault>>
  BY DEF ReadManifest, IInv, TypeOK
<1>2. Top.plugin \in Plugins
  BY <1>1, PrepareTop
<1>3. TypeOK'
  BY <1>1, <1>2, AdvanceLemma DEF IInv, TypeOK
<1>4. TableInv' /\ PreparedDepsPrepared'
  BY <1>1 DEF IInv, TableInv, PreparedDepsPrepared
<1>5. DepsBefore(Top.plugin, Top.next + 1)
  BY <1>1, <1>2, DepsAreSeq DEF DepsBefore
<1>6. StackInv'
  BY <1>1, <1>3, <1>5, AdvanceKeepsStack
<1>7. ControlInv'
  BY <1>1 DEF ControlInv
<1> QED BY <1>3, <1>4, <1>6, <1>7 DEF IInv

\* PluginManager::resolve does not find the manifest.
LEMMA MissingManifestStep ==
    ASSUME IInv, MissingManifest
    PROVE  IInv'
<1>1. /\ phase = "running" /\ At("prepare") /\ failing' = TRUE
      /\ UNCHANGED <<manager, installed, hooked, stack, booted, phase, fault>>
  BY DEF MissingManifest
<1>2. stack # <<>> /\ Top.op = "prepare"
  BY <1>1, PrepareTop
<1>3. TypeOK'
  BY <1>1 DEF IInv, TypeOK, manager
<1>4. TableInv' /\ PreparedDepsPrepared'
  BY <1>1 DEF IInv, TableInv, PreparedDepsPrepared, manager
<1>5. StackInv'
  BY <1>1 DEF IInv, StackInv, PrepareAt, RequireAt, DepsBefore, Depth, manager
<1>6. ControlInv'
  BY <1>1, <1>2 DEF ControlInv, Top, Depth
<1> QED BY <1>3, <1>4, <1>5, <1>6 DEF IInv

\* prepare_plugin is at a dependency.
LEMMA PrepareDependencyStep ==
    ASSUME IInv, PrepareDependency
    PROVE  IInv'
<1> DEFINE d == Deps[Top.plugin][Top.next]
           f == Call("prepare", d.source)
<1>1. /\ phase = "running" /\ failing = FALSE /\ At("prepare")
      /\ Top.next \in 1 .. Len(Deps[Top.plugin])
      /\ stack' = IF Followed(d) THEN Append(stack, f) ELSE Advanced
      /\ UNCHANGED <<manager, installed, hooked, failing, booted, phase, fault>>
  BY DEF PrepareDependency, IInv, TypeOK
<1>2. /\ Depth \in Nat \ {0} /\ Top = stack[Depth] /\ Top.op = "prepare"
      /\ Top.plugin \in Plugins /\ Top.next \in Nat /\ Top.plugin \in plugins
      /\ DepsBefore(Top.plugin, Top.next)
  BY <1>1, PrepareTop
<1>3. TableInv' /\ PreparedDepsPrepared'
  BY <1>1 DEF IInv, TableInv, PreparedDepsPrepared, manager
<1>4. ControlInv'
  BY <1>1 DEF ControlInv, manager
<1>5. d \in Dependency /\ Top.next \in DOMAIN Deps[Top.plugin]
  BY <1>1, <1>2, DepsAreSeq
<1>6. CASE Followed(d)
  <2>1. f \in Frame /\ f.op = "prepare" /\ f.plugin = d.source /\ f.next = 0
    BY <1>5, <1>6 DEF Followed, Dependency, Call, Frame
  <2> HIDE DEF f
  <2>2. /\ stack' \in Seq(Frame) /\ Depth' = Depth + 1 /\ stack'[Depth + 1] = f
        /\ \A i \in 1 .. Depth : stack'[i] = stack[i]
    BY <1>1, <1>6, <2>1, PushLemma DEF IInv
  <2>3. TypeOK'
    BY <1>1, <2>2 DEF IInv, TypeOK, manager
  <2>4. StackInv'
    <3> SUFFICES ASSUME NEW i \in 1 .. Depth + 1
                 PROVE  PrepareAt(i)' /\ RequireAt(i)'
      BY <2>2 DEF StackInv
    <3>1. CASE i = Depth + 1
      BY <1>2, <2>1, <2>2, <3>1, NothingBefore DEF PrepareAt, RequireAt, Frame
    <3>2. CASE i = Depth
      <4>1. stack'[i] = Top /\ stack'[i + 1] = f /\ i < Depth'
        BY <1>2, <2>2, <3>2
      <4>2. prepared' = prepared /\ plugins' = plugins
        BY <1>1 DEF manager
      <4>3. DepsBefore(stack[i].plugin, stack[i].next)'
        BY <1>2, <4>1, <4>2 DEF DepsBefore
      <4> QED BY <1>2, <1>5, <2>1, <4>1, <4>2, <4>3 DEF PrepareAt, RequireAt
    <3>3. CASE i < Depth
      <4>1. /\ i \in 1 .. Depth /\ i + 1 \in 1 .. Depth /\ i < Depth'
            /\ stack'[i] = stack[i] /\ stack'[i + 1] = stack[i + 1]
        BY <1>2, <2>2, <3>3
      <4>2. plugins \subseteq plugins' /\ prepared \subseteq prepared'
        BY <1>1 DEF manager
      <4> QED BY <2>3, <3>3, <4>1, <4>2, FrameLemma
    <3> QED BY <1>2, <3>1, <3>2, <3>3
  <2> QED BY <1>3, <1>4, <2>3, <2>4 DEF IInv
<1>7. CASE ~Followed(d)
  <2>1. TypeOK'
    BY <1>1, <1>7, AdvanceLemma DEF IInv, TypeOK, manager
  <2>2. DepsBefore(Top.plugin, Top.next + 1)
    <3> SUFFICES ASSUME NEW k \in DOMAIN Deps[Top.plugin], k < Top.next + 1,
                        Followed(Deps[Top.plugin][k])
                 PROVE  Deps[Top.plugin][k].source \in prepared
      BY DEF DepsBefore
    <3>1. k \in Nat /\ k # Top.next
      BY <1>2, <1>7, DepsAreSeq
    <3> QED BY <1>2, <3>1 DEF DepsBefore
  <2>3. plugins \subseteq plugins' /\ prepared' = prepared /\ Top.plugin \in plugins'
    BY <1>1, <1>2 DEF manager
  <2>4. StackInv'
    BY <1>1, <1>7, <2>1, <2>2, <2>3, AdvanceKeepsStack
  <2> QED BY <1>3, <1>4, <2>1, <2>4 DEF IInv
<1> QED BY <1>6, <1>7

\* An Err leaves a call.
LEMMA PropagateStep ==
    ASSUME IInv, Propagate
    PROVE  IInv'
<1>1. /\ phase = "running" /\ failing = TRUE /\ failing' = Escapes /\ stack' = Below
      /\ phase' \in {"running", "exited"}
      /\ UNCHANGED <<manager, installed, hooked, booted, fault>>
  BY DEF Propagate, IInv, TypeOK
<1>2. /\ stack # <<>> /\ Top.op \in {"prepare", "require"} /\ Top = stack[Depth]
  BY <1>1 DEF IInv, ControlInv, Top
<1>3. /\ stack' \in Seq(Frame) /\ Depth \in Nat \ {0} /\ Depth' = Depth - 1
      /\ \A i \in 1 .. Depth - 1 : stack'[i] = stack[i]
  BY <1>1, <1>2, PopLemma DEF IInv
<1>4. /\ plugins' = plugins /\ prepared' = prepared /\ pending' = pending
      /\ handler' = handler /\ opens' = opens
  BY <1>1 DEF manager
<1>5. failing' \in BOOLEAN
  BY <1>1 DEF Escapes, At
<1>6. TypeOK'
  BY <1>1, <1>3, <1>4, <1>5 DEF IInv, TypeOK
<1>7. TableInv' /\ PreparedDepsPrepared'
  BY <1>1, <1>4 DEF IInv, TableInv, PreparedDepsPrepared
<1>8. \* the call the Err reaches is not in prepare_plugin, and in require only if it fails
      ASSUME NEW i \in 1 .. Depth - 1, i = Depth - 1
      PROVE  /\ stack[i].op = "prepare" => failing' /\ Top.op = "prepare"
             /\ stack[i].op = "require" => failing'
  <2>1. PrepareAt(i) /\ RequireAt(i) /\ i < Depth /\ i + 1 = Depth
    BY <1>3, <1>8 DEF IInv, StackInv
  <2>2. stack[i].op \in {"prepare", "require"} => Top.op = "prepare"
    BY <1>2, <2>1 DEF PrepareAt, RequireAt
  <2>3. stack[i].op \in {"prepare", "require"} => failing'
    <3>1. Depth > 1 /\ stack[Depth - 1] = stack[i]
      BY <1>3, <1>8
    <3> QED BY <1>1, <1>2, <2>2, <3>1 DEF Escapes, At, UnderPrepare
  <2> QED BY <2>2, <2>3
<1>9. StackInv'
  <2> SUFFICES ASSUME NEW i \in 1 .. Depth - 1
               PROVE  PrepareAt(i)' /\ RequireAt(i)'
    BY <1>3 DEF StackInv
  <2>1. CASE i = Depth - 1
    <3>1. stack'[i] = stack[i] /\ ~(i < Depth') /\ i \in 1 .. Depth
      BY <1>3, <2>1
    <3>2. PrepareAt(i)
      BY <3>1 DEF IInv, StackInv
    <3>3. stack'[i].op = "prepare" => DepsBefore(stack[i].plugin, stack[i].next)'
      BY <1>4, <3>1, <3>2 DEF PrepareAt, DepsBefore
    <3>4. PrepareAt(i)'
      BY <1>4, <3>1, <3>2, <3>3 DEF PrepareAt
    <3>5. RequireAt(i)'
      BY <1>8, <2>1, <3>1 DEF RequireAt
    <3> QED BY <3>4, <3>5
  <2>2. CASE i < Depth - 1
    <3>1. /\ i \in 1 .. Depth /\ i < Depth /\ i + 1 \in 1 .. Depth - 1 /\ i < Depth'
          /\ stack'[i] = stack[i] /\ stack'[i + 1] = stack[i + 1]
      BY <1>3, <2>2
    <3>2. plugins \subseteq plugins' /\ prepared \subseteq prepared'
      BY <1>4
    <3> QED BY <1>6, <3>1, <3>2, FrameLemma
  <2> QED BY <1>3, <2>1, <2>2
<1>10. ControlInv'
  <2>1. ASSUME failing'
        PROVE  stack' # <<>> /\ Top'.op \in {"prepare", "require"}
    <3>1. Depth > 1 /\ stack[Depth - 1].op \in {"prepare", "require"}
      BY <1>1, <2>1 DEF Escapes, UnderPrepare
    <3>2. Depth' > 0 /\ Top' = stack[Depth - 1]
      BY <1>3, <3>1 DEF Top
    <3> QED BY <1>3, <3>1, <3>2 DEF Depth
  <2> QED BY <1>1, <2>1 DEF ControlInv
<1> QED BY <1>6, <1>7, <1>9, <1>10 DEF IInv

\* Every dependency is prepared, and the plugin is loaded.
LEMMA LoadPluginStep ==
    ASSUME IInv, LoadPlugin
    PROVE  IInv'
<1> DEFINE u == Top.plugin
<1>1. PICK o \in Outcome(u) :
         /\ handler' = [handler EXCEPT ![u] = NewHandler(o[1], o[2])]
         /\ opens' = [opens EXCEPT ![u] = IF o[1] THEN @ + 1 ELSE @]
  BY DEF LoadPlugin
<1>2. /\ phase = "running" /\ failing = FALSE /\ At("prepare")
      /\ Top.next > Len(Deps[u]) /\ prepared' = prepared \cup {u} /\ stack' = Returned
      /\ UNCHANGED <<plugins, pending, installed, hooked, failing, booted, phase, fault>>
  BY DEF LoadPlugin, IInv, TypeOK
<1>3. /\ stack # <<>> /\ Depth \in Nat \ {0} /\ Top = stack[Depth] /\ Top.op = "prepare"
      /\ u \in Plugins /\ Top.next \in Nat /\ DepsBefore(u, Top.next)
      /\ Top.next > 0 => u \in plugins
  BY <1>2, PrepareTop
<1>4. u \in plugins
  BY <1>2, <1>3, DepsAreSeq
<1>5. /\ stack' \in Seq(Frame) /\ Depth' = Depth - 1
      /\ \A i \in 1 .. Depth - 1 :
            /\ stack'[i].op = stack[i].op
            /\ stack'[i].plugin = stack[i].plugin
            /\ stack'[i].next = IF i = Depth - 1 /\ stack[i].op = "prepare"
                                THEN stack[i].next + 1 ELSE stack[i].next
  BY <1>2, <1>3, ReturnLemma DEF IInv
<1> HIDE DEF u
<1>6. o[1] \in BOOLEAN /\ o[2] \in BOOLEAN
  BY DEF Outcome, Built
<1>7. /\ NewHandler(o[1], o[2]) \in Handler /\ NewHandler(o[1], o[2]).present
      /\ NewHandler(o[1], o[2]).loaded = o[1]
  BY <1>6 DEF NewHandler, NoHandler, Handler
<1>8. handler' \in [Plugins -> Handler] /\ opens' \in [Plugins -> Nat]
  BY <1>1, <1>3, <1>7 DEF IInv, TypeOK
<1>9. TypeOK'
  BY <1>2, <1>3, <1>5, <1>8 DEF IInv, TypeOK
<1>10. TableInv'
  <2>1. \A v \in prepared' : handler'[v].present
    BY <1>1, <1>2, <1>3, <1>7 DEF IInv, TypeOK, TableInv
  <2>2. ASSUME NEW v \in Plugins, handler'[v].loaded
        PROVE  opens'[v] > 0
    <3>1. CASE v = u
      <4>1. o[1] = TRUE /\ opens'[v] = opens[u] + 1 /\ opens[u] \in Nat
        BY <1>1, <1>3, <1>6, <1>7, <2>2, <3>1 DEF IInv, TypeOK
      <4> QED BY <4>1
    <3>2. CASE v # u
      BY <1>1, <2>2, <3>2 DEF IInv, TypeOK, TableInv
    <3> QED BY <3>1, <3>2
  <2> QED BY <1>2, <1>4, <2>1, <2>2 DEF IInv, TableInv
<1>11. PreparedDepsPrepared'
  <2>1. \A k \in DOMAIN Deps[u] : Followed(Deps[u][k]) => Deps[u][k].source \in prepared
    BY <1>2, <1>3, DepsAreSeq DEF DepsBefore, u
  <2> QED BY <1>2, <2>1 DEF IInv, PreparedDepsPrepared
<1>12. StackInv'
  <2> SUFFICES ASSUME NEW i \in 1 .. Depth - 1
               PROVE  PrepareAt(i)' /\ RequireAt(i)'
    BY <1>5 DEF StackInv
  <2>1. CASE i = Depth - 1
    <3>1. /\ PrepareAt(i) /\ RequireAt(i) /\ i < Depth /\ i + 1 = Depth /\ ~(i < Depth')
          /\ stack[i + 1] = Top /\ stack[i] \in Frame
      BY <1>3, <1>5, <2>1 DEF IInv, StackInv, TypeOK, Depth
    <3>2. CASE stack[i].op = "prepare"
      <4> DEFINE v == stack[i].plugin
                 n == stack[i].next
      <4>1. /\ v \in Plugins /\ n \in DOMAIN Deps[v] /\ u = Deps[v][n].source
            /\ DepsBefore(v, n) /\ n \in Nat /\ v \in plugins
        BY <3>1, <3>2, DepsAreSeq DEF PrepareAt, Frame, u
      <4>2. stack'[i].plugin = v /\ stack'[i].next = n + 1 /\ stack'[i].op = "prepare"
        BY <1>5, <2>1, <3>2
      <4> HIDE DEF v, n
      <4>3. ASSUME NEW k \in DOMAIN Deps[v], k < n + 1, Followed(Deps[v][k])
            PROVE  Deps[v][k].source \in prepared'
        <5>1. k \in Nat
          BY <4>1, DepsAreSeq
        <5>2. k < n \/ k = n
          BY <4>1, <4>3, <5>1
        <5> QED BY <1>2, <4>1, <4>3, <5>2 DEF DepsBefore
      <4>4. DepsBefore(stack[i].plugin, stack[i].next)'
        BY <4>2, <4>3 DEF DepsBefore
      <4> QED BY <1>2, <3>1, <4>1, <4>2, <4>4 DEF PrepareAt, RequireAt
    <3>3. CASE stack[i].op = "require"
      BY <1>2, <1>5, <3>1, <3>3 DEF PrepareAt, RequireAt, u
    <3>4. CASE stack[i].op \notin {"prepare", "require"}
      BY <1>5, <3>4 DEF PrepareAt, RequireAt
    <3> QED BY <3>2, <3>3, <3>4
  <2>2. CASE i < Depth - 1
    <3>1. /\ i \in 1 .. Depth /\ i < Depth /\ i + 1 \in 1 .. Depth - 1 /\ i < Depth'
          /\ i # Depth - 1
      BY <1>3, <1>5, <2>2
    <3>2. plugins \subseteq plugins' /\ prepared \subseteq prepared'
      BY <1>2
    <3> QED BY <1>5, <1>9, <3>1, <3>2, FrameLemma
  <2> QED BY <1>3, <2>1, <2>2
<1>13. ControlInv'
  BY <1>2 DEF ControlInv
<1> QED BY <1>9, <1>10, <1>11, <1>12, <1>13 DEF IInv

\* The call whose plugin's code begins is a frame again.
LEMMA RunsFrame ==
    ASSUME TypeOK, stack # <<>>, NEW op \in {"init", "setup"},
           stack' = [stack EXCEPT ![Depth].op = op]
    PROVE  Top \in Frame /\ stack' \in Seq(Frame)
<1> DEFINE f == [stack[Depth] EXCEPT !.op = op]
<1>1. Depth \in Nat \ {0} /\ stack[Depth] \in Frame /\ Top = stack[Depth]
  BY DEF TypeOK, Top, Depth
<1>2. f \in Frame
  BY <1>1 DEF Frame
<1>3. stack' = [stack EXCEPT ![Depth] = f]
  OBVIOUS
<1> HIDE DEF f
<1> QED BY <1>1, <1>2, <1>3, TopLemma

\* A step of lua_plugin_api_require begins the plugin's code.
LEMMA RunsPlugin ==
    ASSUME IInv, TypeOK', stack # <<>>, Top.op # "prepare", plugins' = plugins,
           prepared' = prepared, NEW op \in {"init", "setup"},
           stack' = [stack EXCEPT ![Depth].op = op]
    PROVE  StackInv'
<1> DEFINE f == [stack[Depth] EXCEPT !.op = op]
<1>1. Depth \in Nat \ {0} /\ Depth = Len(stack) /\ stack[Depth] \in Frame /\ Top = stack[Depth]
  BY DEF IInv, TypeOK, Top, Depth
<1>2. f \in Frame /\ f.op = op
  BY <1>1 DEF Frame
<1>3. stack' = [stack EXCEPT ![Depth] = f]
  OBVIOUS
<1> HIDE DEF f
<1>4. /\ Depth' = Depth /\ stack'[Depth] = f /\ \A i \in 1 .. Depth - 1 : stack'[i] = stack[i]
  BY <1>1, <1>2, <1>3, TopLemma DEF IInv
<1> SUFFICES ASSUME NEW i \in 1 .. Depth
             PROVE  PrepareAt(i)' /\ RequireAt(i)'
  BY <1>4 DEF StackInv
<1>5. CASE i = Depth
  BY <1>2, <1>4, <1>5 DEF PrepareAt, RequireAt
<1>6. CASE i = Depth - 1
  <2>1. PrepareAt(i) /\ RequireAt(i) /\ i < Depth /\ i + 1 = Depth /\ stack'[i] = stack[i]
    BY <1>1, <1>4, <1>6 DEF IInv, StackInv
  <2>2. stack'[i].op \notin {"prepare", "require"}
    BY <1>1, <2>1 DEF PrepareAt, RequireAt
  <2> QED BY <2>2 DEF PrepareAt, RequireAt
<1>7. CASE i < Depth - 1
  <2>1. /\ i \in 1 .. Depth /\ i < Depth /\ i < Depth' /\ i + 1 \in 1 .. Depth - 1
        /\ stack'[i] = stack[i] /\ stack'[i + 1] = stack[i + 1]
    BY <1>1, <1>4, <1>7
  <2> QED BY <2>1, FrameLemma
<1> QED BY <1>1, <1>5, <1>6, <1>7

\* lua_plugin_api_require returns.
LEMMA RequireReturns ==
    ASSUME IInv, TypeOK', stack # <<>>, Top.op # "prepare", plugins' = plugins,
           prepared' = prepared, stack' = Below
    PROVE  StackInv'
<1>1. Depth \in Nat \ {0} /\ Top = stack[Depth]
  BY DEF IInv, TypeOK, Top, Depth
<1>2. Depth' = Depth - 1 /\ \A i \in 1 .. Depth - 1 : stack'[i] = stack[i]
  BY PopLemma DEF IInv
<1> SUFFICES ASSUME NEW i \in 1 .. Depth - 1
             PROVE  PrepareAt(i)' /\ RequireAt(i)'
  BY <1>2 DEF StackInv
<1>3. CASE i = Depth - 1
  <2>1. PrepareAt(i) /\ RequireAt(i) /\ i < Depth /\ i + 1 = Depth /\ stack'[i] = stack[i]
    BY <1>1, <1>2, <1>3 DEF IInv, StackInv
  <2>2. stack'[i].op \notin {"prepare", "require"}
    BY <1>1, <2>1 DEF PrepareAt, RequireAt
  <2> QED BY <2>2 DEF PrepareAt, RequireAt
<1>4. CASE i < Depth - 1
  <2>1. /\ i \in 1 .. Depth /\ i < Depth /\ i < Depth' /\ i + 1 \in 1 .. Depth - 1
        /\ stack'[i] = stack[i] /\ stack'[i + 1] = stack[i + 1]
    BY <1>1, <1>2, <1>4
  <2> QED BY <2>1, FrameLemma
<1> QED BY <1>1, <1>3, <1>4

\* A native plugin's setup is called.
LEMMA RunNativeStep ==
    ASSUME IInv, RunNative
    PROVE  IInv'
<1>1. CASE ~handler[Top.plugin].loaded
  BY <1>1, CrashStep DEF RunNative
<1>2. CASE handler[Top.plugin].loaded
  <2>1. /\ failing = FALSE /\ phase = "running" /\ stack # <<>> /\ Top.op = "require"
        /\ installed' = installed \cup {Top.plugin}
        /\ stack' = [stack EXCEPT ![Depth].op = "setup"]
        /\ UNCHANGED <<manager, hooked, failing, booted, phase, fault>>
    BY <1>2 DEF RunNative, Running, At, IInv, TypeOK
  <2>2. Top \in Frame /\ stack' \in Seq(Frame)
    BY <2>1, RunsFrame DEF IInv
  <2>3. TypeOK'
    BY <2>1, <2>2 DEF IInv, TypeOK, manager, Frame
  <2>4. TableInv' /\ PreparedDepsPrepared' /\ ControlInv'
    BY <2>1 DEF IInv, TableInv, PreparedDepsPrepared, ControlInv, manager
  <2>5. StackInv'
    BY <2>1, <2>3, RunsPlugin DEF manager
  <2> QED BY <2>3, <2>4, <2>5 DEF IInv
<1> QED BY <1>1, <1>2

\* A Lua plugin's init.lua is run.
LEMMA RunInitStep ==
    ASSUME IInv, RunInit
    PROVE  IInv'
<1>1. /\ failing = FALSE /\ phase = "running" /\ stack # <<>> /\ Top.op = "require"
      /\ stack' = [stack EXCEPT ![Depth].op = "init"]
      /\ UNCHANGED <<manager, installed, hooked, failing, booted, phase, fault>>
  BY DEF RunInit, Running, At, IInv, TypeOK
<1>2. stack' \in Seq(Frame)
  BY <1>1, RunsFrame DEF IInv
<1>3. TypeOK'
  BY <1>1, <1>2 DEF IInv, TypeOK, manager
<1>4. TableInv' /\ PreparedDepsPrepared' /\ ControlInv'
  BY <1>1 DEF IInv, TableInv, PreparedDepsPrepared, ControlInv, manager
<1>5. StackInv'
  BY <1>1, <1>3, RunsPlugin DEF manager
<1> QED BY <1>3, <1>4, <1>5 DEF IInv

\* A Lua plugin's setup is called.
LEMMA RunSetupStep ==
    ASSUME IInv, NEW b \in BOOLEAN, RunSetup(b)
    PROVE  IInv'
<1>1. CASE ~Top.valid
  BY <1>1, CrashStep DEF RunSetup
<1>2. CASE Top.valid
  <2>1. /\ failing = FALSE /\ phase = "running" /\ stack # <<>> /\ Top.op = "init"
        /\ handler' = [handler EXCEPT ![Top.plugin].unload = b \/ @]
        /\ hooked' = IF b THEN hooked \cup {Top.plugin} ELSE hooked
        /\ stack' = [stack EXCEPT ![Depth].op = "setup"]
        /\ UNCHANGED <<plugins, prepared, pending, opens, installed, failing, booted, phase,
                       fault>>
    BY <1>2 DEF RunSetup, Running, At, IInv, TypeOK
  <2>2. Top \in Frame /\ stack' \in Seq(Frame)
    BY <2>1, RunsFrame DEF IInv
  <2>3. Top.plugin \in Plugins
    BY <2>2 DEF Frame
  <2> DEFINE u == Top.plugin
             h == [handler[u] EXCEPT !.unload = b \/ @]
  <2>4. handler[u] \in Handler /\ (b \/ handler[u].unload) \in BOOLEAN
    BY <2>3 DEF IInv, TypeOK
  <2>5. h \in Handler /\ h.present = handler[u].present /\ h.loaded = handler[u].loaded
    BY <2>4 DEF Handler
  <2>6. handler' = [handler EXCEPT ![u] = h]
    BY <2>1
  <2> HIDE DEF h, u
  <2>7. /\ handler' \in [Plugins -> Handler]
        /\ \A v \in Plugins : /\ handler'[v].present = handler[v].present
                              /\ handler'[v].loaded = handler[v].loaded
    BY <2>5, <2>6 DEF IInv, TypeOK
  <2>8. TypeOK'
    BY <2>1, <2>2, <2>3, <2>7 DEF IInv, TypeOK
  <2>9. TableInv'
    BY <2>1, <2>7 DEF IInv, TypeOK, TableInv
  <2>10. PreparedDepsPrepared' /\ ControlInv'
    BY <2>1 DEF IInv, PreparedDepsPrepared, ControlInv
  <2>11. StackInv'
    BY <2>1, <2>8, RunsPlugin
  <2> QED BY <2>8, <2>9, <2>10, <2>11 DEF IInv
<1> QED BY <1>1, <1>2

\* setup returns.
LEMMA FinishRequireStep ==
    ASSUME IInv, NEW b \in BOOLEAN, FinishRequire(b)
    PROVE  IInv'
<1>1. CASE ~(b => Top.valid)
  BY <1>1, CrashStep DEF FinishRequire
<1>2. CASE b => Top.valid
  <2>1. /\ failing = FALSE /\ phase = "running" /\ stack # <<>> /\ Top.op = "setup"
        /\ stack' = Below /\ Advance
        /\ UNCHANGED <<manager, installed, hooked, failing, phase, fault>>
    BY <1>2 DEF FinishRequire, Running, At, IInv, TypeOK
  <2>2. stack' \in Seq(Frame)
    BY <2>1, PopLemma DEF IInv
  <2>3. booted' \in 0 .. Len(Boot)
    BY <2>1, PluginsAssumption DEF Advance, Booting, IInv, TypeOK
  <2>4. TypeOK'
    BY <2>1, <2>2, <2>3 DEF IInv, TypeOK, manager
  <2>5. TableInv' /\ PreparedDepsPrepared' /\ ControlInv'
    BY <2>1 DEF IInv, TableInv, PreparedDepsPrepared, ControlInv, manager
  <2>6. StackInv'
    BY <2>1, <2>4, RequireReturns DEF manager
  <2> QED BY <2>4, <2>5, <2>6 DEF IInv
<1> QED BY <1>1, <1>2

\* The plugin's code does not load, or raises an error.
LEMMA FailRequireStep ==
    ASSUME IInv, FailRequire
    PROVE  IInv'
<1>1. /\ failing = FALSE /\ phase = "running" /\ stack # <<>> /\ Top.op # "prepare"
      /\ stack' = Below /\ phase' \in {"running", "exited"}
      /\ UNCHANGED <<manager, installed, hooked, failing, booted, fault>>
  BY DEF FailRequire, Running, At, IInv, TypeOK
<1>2. stack' \in Seq(Frame)
  BY <1>1, PopLemma DEF IInv
<1>3. TypeOK'
  BY <1>1, <1>2 DEF IInv, TypeOK, manager
<1>4. TableInv' /\ PreparedDepsPrepared' /\ ControlInv'
  BY <1>1 DEF IInv, TableInv, PreparedDepsPrepared, ControlInv, manager
<1>5. StackInv'
  BY <1>1, <1>3, RequireReturns DEF manager
<1> QED BY <1>3, <1>4, <1>5 DEF IInv

\* end_shell_state begins.
LEMMA BeginShutdownStep ==
    ASSUME IInv, BeginShutdown
    PROVE  IInv'
<1>1. /\ stack = <<>> /\ phase = "running" /\ phase' = "unloading" /\ pending' = prepared
      /\ UNCHANGED <<plugins, prepared, handler, opens, installed, hooked, stack,
                     failing, booted, fault>>
  BY DEF BeginShutdown
<1>2. TypeOK' /\ TableInv' /\ ControlInv' /\ PreparedDepsPrepared'
  BY <1>1 DEF IInv, TypeOK, TableInv, ControlInv, PreparedDepsPrepared
<1>3. StackInv'
  BY <1>1 DEF StackInv, Depth
<1> QED BY <1>2, <1>3 DEF IInv

\* A prepared plugin is unloaded.
LEMMA UnloadStep ==
    ASSUME IInv, NEW u \in Plugins, Unload(u)
    PROVE  IInv'
<1>1. CASE Crash("null_dlclose")
  BY <1>1, CrashStep
<1>2. CASE /\ prepared' = prepared \ {u} /\ pending' = pending \ {u}
           /\ handler' = [handler EXCEPT ![u] = NoHandler]
           /\ opens' = [opens EXCEPT ![u] = IF handler[u].loaded THEN @ - 1 ELSE @]
           /\ UNCHANGED <<plugins, installed, hooked, stack, failing, booted, phase, fault>>
  <2>1. phase = "unloading" /\ stack = <<>> /\ failing = FALSE /\ pending = prepared
    BY DEF Unload, IInv, ControlInv, TypeOK
  <2>2. NoHandler \in Handler /\ NoHandler.loaded = FALSE
    BY DEF NoHandler, Handler
  <2>3. opens' \in [Plugins -> Nat]
    BY <1>2 DEF IInv, TypeOK, TableInv
  <2>4. TypeOK'
    BY <1>2, <2>2, <2>3 DEF IInv, TypeOK
  <2>5. TableInv'
    <3>1. prepared' \subseteq plugins' /\ \A v \in prepared' : handler'[v].present
      BY <1>2 DEF IInv, TypeOK, TableInv
    <3>2. \A v \in Plugins : handler'[v].loaded => opens'[v] > 0
      BY <1>2, <2>2 DEF IInv, TypeOK, TableInv
    <3> QED BY <3>1, <3>2 DEF TableInv
  <2>6. ControlInv' /\ PreparedDepsPrepared'
    BY <1>2, <2>1 DEF ControlInv, PreparedDepsPrepared
  <2>7. StackInv'
    BY <1>2, <2>1 DEF StackInv, Depth
  <2> QED BY <2>4, <2>5, <2>6, <2>7 DEF IInv
<1> QED BY <1>1, <1>2 DEF Unload, Emptied

\* Lua is closed.
LEMMA CloseLuaStep ==
    ASSUME IInv, CloseLua
    PROVE  IInv'
<1>1. /\ stack = <<>> /\ prepared = {} /\ phase' = "closed"
      /\ installed' = {} /\ hooked' = {}
      /\ UNCHANGED <<manager, stack, failing, booted, fault>>
  BY DEF CloseLua, IInv, ControlInv
<1>2. TypeOK' /\ TableInv' /\ ControlInv' /\ PreparedDepsPrepared'
  BY <1>1 DEF IInv, TypeOK, TableInv, ControlInv, PreparedDepsPrepared, manager
<1>3. StackInv'
  BY <1>1 DEF StackInv, Depth
<1> QED BY <1>2, <1>3 DEF IInv

\* A reload starts over.
LEMMA RestartStep ==
    ASSUME IInv, Restart
    PROVE  IInv'
<1>1. /\ stack = <<>> /\ prepared = {} /\ failing = FALSE /\ stack' = <<>> /\ prepared' = {}
      /\ pending' = pending /\ plugins' = {} /\ phase' = "running" /\ booted' = 0
      /\ handler' = [u \in Plugins |-> NoHandler] /\ opens' = [u \in Plugins |-> 0]
      /\ UNCHANGED <<installed, hooked, failing, fault>>
  BY DEF Restart, IInv, TypeOK, ControlInv
<1>2. NoHandler \in Handler /\ NoHandler.loaded = FALSE /\ Len(Boot) \in Nat
  BY PluginsAssumption DEF NoHandler, Handler
<1>3. TypeOK'
  BY <1>1, <1>2 DEF IInv, TypeOK
<1>4. TableInv' /\ ControlInv' /\ PreparedDepsPrepared'
  BY <1>1, <1>2 DEF TableInv, ControlInv, PreparedDepsPrepared
<1>5. StackInv'
  BY <1>1 DEF StackInv, Depth
<1> QED BY <1>3, <1>4, <1>5 DEF IInv

(***************************************************************************)
(* Theorems                                                                *)
(***************************************************************************)
\* A fresh shell satisfies it.
LEMMA InitIInv == Init => IInv
<1> SUFFICES ASSUME Init PROVE IInv
  OBVIOUS
<1>1. NoHandler \in Handler /\ NoHandler.loaded = FALSE /\ Len(Boot) \in Nat
  BY PluginsAssumption DEF NoHandler, Handler
<1>2. TypeOK
  <2>1. handler \in [Plugins -> Handler] /\ opens \in [Plugins -> Nat]
    BY <1>1 DEF Init
  <2>2. stack \in Seq(Frame) /\ booted \in 0 .. Len(Boot)
    BY <1>1 DEF Init
  <2>3. failing \in BOOLEAN
    BY DEF Init
  <2> QED BY <2>1, <2>2, <2>3 DEF Init, TypeOK
<1>3. TableInv /\ ControlInv /\ PreparedDepsPrepared
  BY <1>1 DEF Init, TableInv, ControlInv, PreparedDepsPrepared
<1>4. StackInv
  BY DEF Init, StackInv, Depth
<1> QED BY <1>2, <1>3, <1>4 DEF IInv

\* Every step keeps it.
LEMMA NextIInv == IInv /\ [Next]_vars => IInv'
<1> SUFFICES ASSUME IInv, [Next]_vars PROVE IInv'
  OBVIOUS
<1>1. CASE LuaCall
  BY <1>1, ResolveStep, PrepareCall, RequireCall DEF LuaCall
<1>2. CASE PrepareStep
  BY <1>2, ReadManifestStep, MissingManifestStep, PrepareDependencyStep, PropagateStep,
     LoadPluginStep DEF PrepareStep
<1>3. CASE RequireStep
  BY <1>3, RunNativeStep, RunInitStep, FailRequireStep, RunSetupStep, FinishRequireStep
     DEF RequireStep
<1>4. CASE ShutdownStep
  BY <1>4, BeginShutdownStep, UnloadStep, CloseLuaStep, RestartStep DEF ShutdownStep
<1>5. CASE UNCHANGED vars
  <2>1. TypeOK' /\ TableInv'
    BY <1>5 DEF IInv, TypeOK, TableInv, vars
  <2>2. ControlInv' /\ PreparedDepsPrepared'
    BY <1>5 DEF IInv, ControlInv, Top, Depth, PreparedDepsPrepared, vars
  <2>3. StackInv'
    BY <1>5 DEF IInv, StackInv, PrepareAt, RequireAt, DepsBefore, Depth, vars
  <2> QED BY <2>1, <2>2, <2>3 DEF IInv
<1> QED BY <1>1, <1>2, <1>3, <1>4, <1>5 DEF Next

\* The invariant holds in every reachable state.
THEOREM Invariance == Spec => []IInv
  BY InitIInv, NextIInv, PTL DEF Spec

\* Every variable keeps its type: in particular no object is closed more often than
\* it was opened.
THEOREM TypeCorrect == Spec => []TypeOK
<1>1. IInv => TypeOK
  BY DEF IInv
<1> QED BY <1>1, Invariance, PTL

\* While Lua runs, a prepared plugin's dependencies are prepared: whatever fails in
\* prepare_plugin, and whatever else Lua asks for meanwhile.
THEOREM DepsAlwaysPrepared == Spec => []PreparedDepsPrepared
<1>1. IInv => PreparedDepsPrepared
  BY DEF IInv
<1> QED BY <1>1, Invariance, PTL

\* lua_plugin_api_require finds the plugin and the handler it dereferences.
THEOREM RequireAlwaysFindsHandler == Spec => []RequireFindsHandler
<1>1. ASSUME IInv, Running("require")
      PROVE  Top.plugin \in plugins /\ handler[Top.plugin].present
  <2>1. stack # <<>> /\ Depth \in Nat \ {0} /\ Top = stack[Depth] /\ Top.op = "require" /\ ~failing
    BY <1>1 DEF IInv, TypeOK, Running, At, Top, Depth
  <2>2. RequireAt(Depth)
    BY <1>1, <2>1 DEF IInv, StackInv
  <2>3. Top.plugin \in prepared
    BY <2>1, <2>2 DEF RequireAt
  <2>4. TableInv
    BY <1>1 DEF IInv
  <2> QED BY <2>3, <2>4 DEF TableInv
<1>2. IInv => RequireFindsHandler
  BY <1>1 DEF RequireFindsHandler
<1> QED BY <1>2, Invariance, PTL

\* The handle in a handler is open.
THEOREM HandleAlwaysOpen == Spec => []HandleOpen
<1>1. TableInv => HandleOpen
  BY DEF TableInv, HandleOpen
<1>2. IInv => HandleOpen
  BY <1>1 DEF IInv
<1> QED BY <1>2, Invariance, PTL

\* The unload hook of a Lua plugin stays in the handler that runs it at the end, until the
\* plugin is prepared again: requiring it, resolving it or an error in it never loses the
\* hook (lua_plugin_api_require, get_plugin_handler, prepare_plugin).
THEOREM HookLostOnlyByPreparing == Spec => UnloadHookLostByPreparing
<1> DEFINE Kept == \A u \in hooked : handler[u].unload /\ ~handler'[u].unload =>
                        \/ Running("prepare") /\ Top.plugin = u
                        \/ phase # "running"
<1>1. ASSUME IInv, Next PROVE Kept
  <2> SUFFICES ASSUME NEW u \in hooked, handler[u].unload, ~handler'[u].unload,
                      phase = "running"
               PROVE  Running("prepare") /\ Top.plugin = u
    OBVIOUS
  <2>1. /\ handler \in [Plugins -> Handler] /\ u \in Plugins /\ handler' # handler
        /\ \A f \in Frame : f.plugin \in Plugins
    BY <1>1 DEF IInv, TypeOK, Frame
  <2>2. CASE LuaCall
    <3>1. PICK v \in Plugins : handler' = [handler EXCEPT ![v].opts = TRUE]
      BY <2>1, <2>2 DEF LuaCall, Resolve, Prepare, Require, Crash, manager
    <3>2. handler'[u].unload = handler[u].unload
      BY <2>1, <3>1 DEF Handler
    <3> QED BY <3>2
  <2>3. CASE PrepareStep
    <3>1. LoadPlugin
      BY <2>1, <2>3 DEF PrepareStep, ReadManifest, MissingManifest, PrepareDependency,
         Propagate, manager
    <3>2. /\ phase = "running" /\ ~failing /\ At("prepare")
          /\ \E o : handler' = [handler EXCEPT ![Top.plugin] = o]
      BY <3>1 DEF LoadPlugin
    <3>3. Top.plugin = u
      BY <2>1, <3>2
    <3> QED BY <3>2, <3>3 DEF Running
  <2>4. CASE RequireStep
    <3>1. PICK b \in BOOLEAN : handler' = [handler EXCEPT ![Top.plugin].unload = b \/ @]
      BY <2>1, <2>4 DEF RequireStep, RunNative, RunInit, FailRequire, RunSetup,
         FinishRequire, Crash, manager
    <3>2. handler'[u] = IF u = Top.plugin THEN [handler[u] EXCEPT !.unload = b \/ @]
                        ELSE handler[u]
      BY <2>1, <3>1
    <3>3. CASE u = Top.plugin
      <4>1. (b \/ handler[u].unload) = TRUE
        OBVIOUS
      <4>2. handler'[u] = [handler[u] EXCEPT !.unload = TRUE]
        BY <3>2, <3>3, <4>1
      <4> QED BY <2>1, <4>2 DEF Handler
    <3> QED BY <3>2, <3>3
  <2>5. CASE ShutdownStep
    BY <2>1, <2>5 DEF ShutdownStep, BeginShutdown, Unload, CloseLua, Restart, manager
  <2> QED BY <1>1, <2>2, <2>3, <2>4, <2>5 DEF Next
<1>2. IInv /\ [Next]_vars => [Kept]_vars
  BY <1>1
<1> QED BY <1>2, Invariance, PTL DEF Spec, UnloadHookLostByPreparing

\* Up to its own unloading, or the end of the process.
MappedUntilUnloaded ==
    phase \in {"running", "unloading"} =>
        \A u \in installed : opens[u] > 0 \/ (phase = "unloading" /\ u \notin prepared)

\* The object of a native plugin whose C functions Lua holds stays mapped while the shell
\* runs, and until end_shell_state unloads the plugin itself, in whatever order: what is
\* prepared again is opened again, and nothing is closed before.  (That it outlives the
\* others' unloading is MappedUntilLuaCloses, and a matter of the configuration.)
THEOREM AlwaysMappedUntilUnloaded == Spec => []MappedUntilUnloaded
<1> DEFINE Inv == MappedUntilUnloaded /\ (phase = "closed" => installed = {})
<1>1. Init => Inv
  BY DEF Init, MappedUntilUnloaded
<1>2. ASSUME IInv, Inv, [Next]_vars PROVE Inv'
  <2> USE DEF MappedUntilUnloaded
  <2>1. installed \subseteq Plugins /\ opens \in [Plugins -> Nat]
    BY <1>2 DEF IInv, TypeOK
  <2>2. CASE UNCHANGED <<opens, prepared>> /\ installed' = installed
             /\ (phase' = phase \/ phase' \in {"crashed", "exited"})
    BY <1>2, <2>2
  <2>3. CASE LoadPlugin
    <3>1. PICK o \in BOOLEAN \X BOOLEAN :
             opens' = [opens EXCEPT ![Top.plugin] = IF o[1] THEN @ + 1 ELSE @]
      BY <2>3 DEF LoadPlugin, Outcome, Built
    <3>2. \A u \in Plugins : opens'[u] = opens[u] \/ opens'[u] = opens[u] + 1
      BY <2>1, <3>1
    <3>3. phase = "running" /\ phase' = "running" /\ installed' = installed
      BY <2>3 DEF LoadPlugin
    <3> QED BY <1>2, <2>1, <3>2, <3>3
  <2>4. CASE RunNative /\ phase' # "crashed"
    <3>1. /\ phase = "running" /\ phase' = "running" /\ UNCHANGED <<opens, prepared>>
          /\ installed' = installed \cup {Top.plugin} /\ handler[Top.plugin].loaded
      BY <2>4 DEF RunNative, Running, Crash, manager
    <3>2. Top.plugin \in Plugins
      <4>1. stack # <<>> /\ stack' = [stack EXCEPT ![Depth].op = "setup"]
        BY <2>4 DEF RunNative, Running, At, Crash
      <4> QED BY <1>2, <4>1, RunsFrame DEF IInv, Frame
    <3>3. opens[Top.plugin] > 0
      BY <1>2, <3>1, <3>2 DEF IInv, TableInv
    <3> QED BY <1>2, <3>1, <3>3
  <2>5. CASE BeginShutdown \/ CloseLua \/ Restart
    BY <1>2, <2>5 DEF BeginShutdown, CloseLua, Restart, manager
  <2>6. ASSUME NEW v \in Plugins, Unload(v), phase' # "crashed" PROVE Inv'
    <3>1. /\ phase = "unloading" /\ phase' = phase /\ installed' = installed
          /\ prepared' = prepared \ {v}
          /\ opens' = [opens EXCEPT ![v] = IF handler[v].loaded THEN @ - 1 ELSE @]
      BY <2>6 DEF Unload, Crash
    <3>2. \A u \in Plugins \ {v} : opens'[u] = opens[u]
      BY <2>1, <3>1
    <3> QED BY <1>2, <2>1, <3>1, <3>2
  <2>7. \/ UNCHANGED <<opens, prepared>> /\ installed' = installed
              /\ (phase' = phase \/ phase' \in {"crashed", "exited"})
        \/ LoadPlugin
        \/ RunNative /\ phase' # "crashed"
        \/ BeginShutdown \/ CloseLua \/ Restart
        \/ \E v \in Plugins : Unload(v) /\ phase' # "crashed"
    <3>1. CASE LuaCall
      BY <3>1 DEF LuaCall, Resolve, Prepare, Require, Crash, manager
    <3>2. CASE PrepareStep
      BY <3>2 DEF PrepareStep, ReadManifest, MissingManifest, PrepareDependency, Propagate,
         manager
    <3>3. CASE RequireStep
      <4>1. CASE RunNative /\ phase' # "crashed"
        BY <4>1
      <4>2. CASE RunNative /\ phase' = "crashed"
        BY <4>2 DEF RunNative, Running, Crash, manager
      <4>3. CASE RunInit
        BY <4>3 DEF RunInit, manager
      <4>4. CASE FailRequire
        BY <4>4 DEF FailRequire, manager
      <4>5. ASSUME NEW b \in BOOLEAN, RunSetup(b) \/ FinishRequire(b)
            PROVE  /\ UNCHANGED <<opens, prepared>> /\ installed' = installed
                   /\ (phase' = phase \/ phase' = "crashed")
        BY <4>5 DEF RunSetup, FinishRequire, Crash, manager
      <4> QED BY <3>3, <4>1, <4>2, <4>3, <4>4, <4>5 DEF RequireStep
    <3>4. CASE ShutdownStep
      BY <3>4 DEF ShutdownStep, Unload, Crash, manager
    <3>5. CASE UNCHANGED vars
      BY <3>5 DEF vars
    <3> QED BY <1>2, <3>1, <3>2, <3>3, <3>4, <3>5 DEF Next
  <2> QED BY <2>2, <2>3, <2>4, <2>5, <2>6, <2>7
<1> QED BY <1>1, <1>2, Invariance, PTL DEF Spec

(***************************************************************************)
(* What the configuration adds                                             *)
(***************************************************************************)
\* The object of the first plugin was opened once more than its handler will close it.
Extra == opens[First] > IF handler[First].loaded THEN 1 ELSE 0

\* A call of prepare_plugin for the second plugin has passed its dependency on the first.
PastFirst(f) ==
    /\ f.op = "prepare" /\ f.plugin = Second
    /\ \E k \in DOMAIN Deps[Second] :
          k < f.next /\ Followed(Deps[Second][k]) /\ Deps[Second][k].source = First

\* The config file's first require: nothing else runs, and nothing else is prepared.
FirstRequire ==
    /\ prepared \subseteq {First} /\ Depth <= 2
    /\ Depth >= 1 => stack[1].plugin = First /\ stack[1].op \in {"require", "setup"}
    /\ Depth = 2 => stack[1].op = "require" /\ stack[2].op = "prepare" /\ stack[2].plugin = First
    /\ Depth = 1 /\ stack[1].op = "setup" => handler[First].loaded

\* The calls of the config file's second require: at its end the object is open twice.
SecondRequire ==
    stack # <<>> =>
        /\ stack[1].plugin = Second /\ stack[1].op # "prepare"
        /\ stack[1].op # "require" => Extra

\* After the first require the object is open, and once more when the second is prepared.
LaterRequires ==
    /\ handler[First].loaded \/ Extra
    /\ Second \in prepared => Extra
    /\ \A i \in 1 .. Depth : PastFirst(stack[i]) => Extra
    /\ booted = 1 => SecondRequire
    /\ booted > 1 => Extra

\* What holds of the first plugin, by how far the config file is.
BootInv ==
    /\ phase = "running" /\ booted = 0 => FirstRequire
    /\ phase = "running" /\ booted > 0 => LaterRequires
    /\ phase = "unloading" => Extra
    /\ \A u \in installed : Native(u)

\* The shipped configuration names plugins, and its first two differ.
LEMMA BootFacts ==
    ASSUME BootAsShipped
    PROVE  /\ Len(Boot) \in Nat /\ Len(Boot) >= 2
           /\ First \in Plugins /\ Second \in Plugins /\ First # Second
           /\ Native(First) /\ Len(Deps[First]) = 0
<1>1. /\ Len(Boot) \in Nat /\ Len(Boot) >= 2 /\ Native(First) /\ Deps[First] = <<>>
      /\ DOMAIN Deps[Second] # {}
  BY PluginsAssumption DEF BootAsShipped
<1>2. First \in Plugins /\ Second \in Plugins
  BY <1>1, PluginsAssumption DEF First, Second
<1> QED BY <1>1, <1>2

\* The process dies, or ends.
LEMMA EndedBoot ==
    ASSUME BootInv, phase' \notin {"running", "unloading"}, \A u \in installed' : Native(u)
    PROVE  BootInv'
  BY DEF BootInv

\* A step after the first require.
LEMMA LaterLemma ==
    ASSUME LaterRequires, booted' = booted, Extra => Extra',
           handler[First].loaded \/ Extra => handler'[First].loaded \/ Extra',
           Second \in prepared' => Second \in prepared \/ Extra',
           \A i \in 1 .. Depth' :
              PastFirst(stack'[i]) => Extra' \/ \E j \in 1 .. Depth : PastFirst(stack[j]),
           booted = 1 => SecondRequire'
    PROVE  LaterRequires'
  BY DEF LaterRequires

\* A step that neither opens nor closes anything.
LEMMA SameExtra ==
    ASSUME handler'[First].loaded = handler[First].loaded, opens' = opens
    PROVE  Extra' = Extra
  BY DEF Extra

\* A step that prepares nothing, either.
LEMMA SamePrepared ==
    ASSUME LaterRequires, booted' = booted, prepared' = prepared,
           handler'[First].loaded = handler[First].loaded, opens' = opens,
           \A i \in 1 .. Depth' :
              PastFirst(stack'[i]) => \E j \in 1 .. Depth : PastFirst(stack[j]),
           booted = 1 => SecondRequire'
    PROVE  LaterRequires'
<1>1. Extra' = Extra
  BY SameExtra
<1> HIDE DEF Extra
<1> QED BY <1>1, LaterLemma

\* A call that begins has passed nothing.
LEMMA NewCall ==
    ASSUME BootAsShipped, NEW f, f.next = 0
    PROVE  ~PastFirst(f)
<1>1. \A k \in DOMAIN Deps[Second] : k \in Nat /\ k > 0
  BY BootFacts, DepsAreSeq
<1> QED BY <1>1 DEF PastFirst

\* While the first require goes on, no Lua code runs.
LEMMA NoLuaAtFirst ==
    ASSUME BootAsShipped, IInv, BootInv, LuaRuns, booted = 0
    PROVE  stack = <<>> /\ Booting
<1>1. FirstRequire /\ Booting
  BY BootFacts DEF BootInv, LuaRuns, Booting
<1>2. Depth \in Nat /\ Depth = Len(stack) /\ (stack # <<>> => Depth > 0)
  BY DEF IInv, TypeOK, Depth
<1>3. Depth \notin {1, 2}
  BY <1>1, BootFacts DEF FirstRequire, LuaRuns, Top, Depth
<1> QED BY <1>1, <1>2, <1>3 DEF FirstRequire

\* lyra.plugin.resolve opens nothing.
LEMMA ResolveBoot ==
    ASSUME BootAsShipped, IInv, BootInv, NEW u \in Plugins, Resolve(u)
    PROVE  BootInv'
<1>1. CASE ~(u \in plugins /\ handler[u].present)
  BY <1>1, EndedBoot DEF Resolve, Crash, BootInv
<1>2. CASE u \in plugins /\ handler[u].present
  <2>1. /\ handler' = [handler EXCEPT ![u].opts = TRUE]
        /\ UNCHANGED <<plugins, prepared, opens, installed, stack, booted, phase>>
    BY <1>2 DEF Resolve
  <2>2. handler'[First].loaded = handler[First].loaded
    BY <2>1, BootFacts DEF IInv, TypeOK, Handler
  <2>3. phase = "running" /\ booted # 0
    BY NoLuaAtFirst DEF Resolve, MayCall, LuaRuns
  <2>4. LaterRequires
    BY <2>3 DEF BootInv, IInv, TypeOK
  <2>5. Extra' = Extra
    BY <2>1, <2>2, SameExtra
  <2>6. booted = 1 => SecondRequire'
    BY <2>1, <2>4, <2>5 DEF LaterRequires, SecondRequire
  <2>7. LaterRequires'
    BY <2>1, <2>2, <2>4, <2>6, SamePrepared DEF Depth
  <2> QED BY <2>1, <2>3, <2>7 DEF BootInv
<1> QED BY <1>1, <1>2

\* lyra.plugin.prepare is called when the config file has ended, or by what it requires.
LEMMA PrepareBoot ==
    ASSUME BootAsShipped, IInv, BootInv, NEW u \in Plugins, Prepare(u)
    PROVE  BootInv'
<1> DEFINE f == Call("prepare", u)
<1>1. f \in Frame /\ f.next = 0
  BY DEF Call, Frame
<1>2. /\ stack' = Append(stack, f) /\ MayCall
      /\ UNCHANGED <<manager, installed, hooked, failing, booted, phase, fault>>
  BY DEF Prepare
<1> HIDE DEF f
<1>3. /\ Depth \in Nat /\ Depth' = Depth + 1 /\ stack'[Depth + 1] = f
      /\ \A i \in 1 .. Depth : stack'[i] = stack[i]
  BY <1>1, <1>2, PushLemma DEF IInv
<1>4. phase = "running" /\ booted # 0
  BY <1>2, NoLuaAtFirst DEF MayCall, LuaRuns
<1>5. LaterRequires
  BY <1>4 DEF BootInv, IInv, TypeOK
<1>6. handler'[First].loaded = handler[First].loaded /\ opens' = opens /\ prepared' = prepared
  BY <1>2 DEF manager
<1>7. booted = 1 => SecondRequire'
  <2>1. booted = 1 => stack # <<>> /\ Booting
    BY <1>2, BootFacts DEF MayCall, Booting
  <2>2. stack # <<>> => 1 \in 1 .. Depth
    BY <1>3 DEF IInv, TypeOK, Depth
  <2>3. Extra' = Extra
    BY <1>6, SameExtra
  <2> QED BY <1>3, <1>5, <2>1, <2>2, <2>3 DEF LaterRequires, SecondRequire
<1>8. ASSUME NEW i \in 1 .. Depth', PastFirst(stack'[i])
      PROVE  \E j \in 1 .. Depth : PastFirst(stack[j])
  <2>1. i # Depth + 1
    BY <1>1, <1>3, <1>8, NewCall
  <2> QED BY <1>3, <1>8, <2>1
<1>9. LaterRequires'
  BY <1>2, <1>5, <1>6, <1>7, <1>8, SamePrepared
<1> QED BY <1>2, <1>4, <1>9 DEF BootInv

\* The config file's own requires come in its order; others are calls within them or after.
LEMMA RequireBoot ==
    ASSUME BootAsShipped, IInv, BootInv, NEW u \in Plugins, Require(u)
    PROVE  BootInv'
<1> DEFINE r == Call("require", u)
           f == Call("prepare", u)
<1>1. /\ r \in Frame /\ r.op = "require" /\ r.plugin = u /\ r.next = 0
      /\ f \in Frame /\ f.op = "prepare" /\ f.plugin = u /\ f.next = 0
  BY DEF Call, Frame
<1>2. /\ stack' = IF u \in prepared THEN Append(stack, r) ELSE Append(Append(stack, r), f)
      /\ LuaRuns /\ (stack = <<>> /\ Booting => u = Boot[booted + 1])
      /\ UNCHANGED <<manager, installed, hooked, failing, booted, phase, fault>>
  BY DEF Require
<1> HIDE DEF r, f
<1>3. /\ Depth \in Nat /\ Depth' = IF u \in prepared THEN Depth + 1 ELSE Depth + 2
      /\ stack'[Depth + 1] = r /\ (u \notin prepared => stack'[Depth + 2] = f)
      /\ \A i \in 1 .. Depth : stack'[i] = stack[i]
      /\ stack = <<>> <=> Depth = 0
  BY <1>1, <1>2 DEF IInv, TypeOK, Depth
<1>4. /\ phase = "running" /\ phase' = phase /\ booted \in Nat /\ booted' = booted
      /\ handler'[First].loaded = handler[First].loaded /\ opens' = opens /\ prepared' = prepared
      /\ installed' = installed
  BY <1>2 DEF manager, LuaRuns, IInv, TypeOK
<1>5. CASE booted = 0
  <2>1. FirstRequire /\ Depth = 0 /\ u = First
    BY <1>2, <1>3, <1>5, <1>4, NoLuaAtFirst DEF BootInv, First
  <2>2. FirstRequire'
    BY <1>1, <1>3, <1>4, <2>1 DEF FirstRequire
  <2> QED BY <1>4, <1>5, <2>2 DEF BootInv
<1>6. CASE booted # 0
  <2>1. LaterRequires
    BY <1>4, <1>6 DEF BootInv
  <2>2. booted = 1 => SecondRequire'
    <3>1. CASE booted = 1 /\ Depth = 0
      <4>1. u = Second
        BY <1>2, <1>3, <3>1, BootFacts DEF Booting, Second
      <4> QED BY <1>1, <1>3, <3>1, <4>1 DEF SecondRequire
    <3>2. CASE Depth # 0
      <4>1. 1 \in 1 .. Depth /\ stack # <<>>
        BY <1>3, <3>2
      <4>2. Extra' = Extra
        BY <1>4, SameExtra
      <4> QED BY <1>3, <2>1, <4>1, <4>2 DEF LaterRequires, SecondRequire
    <3> QED BY <3>1, <3>2
  <2>3. ASSUME NEW i \in 1 .. Depth', PastFirst(stack'[i])
        PROVE  \E j \in 1 .. Depth : PastFirst(stack[j])
    <3>1. i # Depth + 1 /\ (i = Depth + 2 => u \in prepared)
      BY <1>1, <1>3, <2>3, NewCall
    <3>2. i \in 1 .. Depth
      BY <1>3, <3>1
    <3> QED BY <1>3, <2>3, <3>2
  <2>4. LaterRequires'
    BY <1>4, <2>1, <2>2, <2>3, SamePrepared
  <2> QED BY <1>4, <1>6, <2>4 DEF BootInv
<1> QED BY <1>5, <1>6

\* A call goes on, and has not passed the dependency before.
LEMMA AdvanceBoot ==
    ASSUME BootAsShipped, IInv, BootInv, At("prepare"), phase = "running", phase' = phase,
           prepared' = prepared, handler' = handler, opens' = opens, installed' = installed,
           booted' = booted, stack' = Advanced \/ stack' = Inserted(Advanced),
           \A k \in DOMAIN Deps[Second] :
              k = Top.next /\ Top.plugin = Second => ~Followed(Deps[Second][k])
    PROVE  BootInv'
<1>1. /\ Depth' = Depth
      /\ \A i \in 1 .. Depth :
            /\ stack'[i].op = stack[i].op
            /\ stack'[i].plugin = stack[i].plugin
            /\ stack'[i].next = IF i = Depth THEN stack[i].next + 1 ELSE stack[i].next
  BY AdvanceLemma
<1>2. Depth \in Nat \ {0} /\ Top = stack[Depth] /\ Top.next \in Nat /\ stack # <<>>
  BY PrepareTop
<1>3. booted = 0 => FirstRequire'
  <2>1. 1 \in 1 .. Depth /\ (Depth = 2 => 2 \in 1 .. Depth)
    BY <1>2
  <2> QED BY <1>1, <2>1 DEF BootInv, FirstRequire
<1>4. CASE booted > 0
  <2>1. LaterRequires
    BY <1>4 DEF BootInv
  <2>2. Extra' = Extra
    BY SameExtra
  <2>3. booted = 1 => SecondRequire'
    <3>1. 1 \in 1 .. Depth
      BY <1>2
    <3> QED BY <1>1, <1>2, <2>1, <2>2, <3>1 DEF LaterRequires, SecondRequire
  <2>4. ASSUME NEW i \in 1 .. Depth', PastFirst(stack'[i])
        PROVE  PastFirst(stack[i])
    <3>1. i \in 1 .. Depth
      BY <1>1
    <3>2. CASE i # Depth
      BY <1>1, <2>4, <3>1, <3>2 DEF PastFirst
    <3>3. CASE i = Depth
      <4>1. /\ stack[i].op = "prepare" /\ stack[i].plugin = Second
            /\ stack[i] = Top /\ stack'[i].next = Top.next + 1
        BY <1>1, <1>2, <2>4, <3>1, <3>3 DEF PastFirst
      <4>2. PICK k \in DOMAIN Deps[Second] :
               /\ k < Top.next + 1
               /\ Followed(Deps[Second][k]) /\ Deps[Second][k].source = First
        BY <2>4, <4>1 DEF PastFirst
      <4>3. k \in Nat /\ k # Top.next
        BY <4>1, <4>2, BootFacts, DepsAreSeq
      <4>4. k < Top.next
        BY <1>2, <4>2, <4>3
      <4> QED BY <4>1, <4>2, <4>4 DEF PastFirst
    <3> QED BY <3>2, <3>3
  <2>5. LaterRequires'
    BY <1>1, <2>1, <2>3, <2>4, SamePrepared
  <2> QED BY <1>4, <2>5 DEF BootInv
<1>5. booted \in Nat
  BY DEF IInv, TypeOK
<1> QED BY <1>3, <1>4, <1>5 DEF BootInv

\* The first dependency is not passed when the manifest is found.
LEMMA ReadManifestBoot ==
    ASSUME BootAsShipped, IInv, BootInv, ReadManifest
    PROVE  BootInv'
<1>1. /\ phase = "running" /\ At("prepare") /\ Top.next = 0
      /\ stack' = Advanced \/ stack' = Inserted(Advanced)
      /\ UNCHANGED <<prepared, handler, opens, installed, booted, phase>>
  BY DEF ReadManifest
<1>2. \A k \in DOMAIN Deps[Second] : k # 0
  BY BootFacts, DepsAreSeq
<1> QED BY <1>1, <1>2, AdvanceBoot

\* A manifest that is missing changes no call and no object.
LEMMA MissingManifestBoot ==
    ASSUME BootInv, MissingManifest
    PROVE  BootInv'
  BY DEF MissingManifest, manager, BootInv, FirstRequire, LaterRequires, SecondRequire, Extra, Depth

\* A dependency on the first plugin is followed, never skipped.
LEMMA PrepareDependencyBoot ==
    ASSUME BootAsShipped, IInv, BootInv, PrepareDependency
    PROVE  BootInv'
<1> DEFINE d == Deps[Top.plugin][Top.next]
           f == Call("prepare", d.source)
<1>1. /\ phase = "running" /\ At("prepare") /\ Top.next \in 1 .. Len(Deps[Top.plugin])
      /\ stack' = IF Followed(d) THEN Append(stack, f) ELSE Advanced
      /\ UNCHANGED <<manager, installed, booted, phase>>
  BY DEF PrepareDependency
<1>2. /\ Depth \in Nat \ {0} /\ Top = stack[Depth] /\ Top.plugin \in Plugins /\ stack # <<>>
  BY <1>1, PrepareTop
<1>3. prepared' = prepared /\ handler' = handler /\ opens' = opens
  BY <1>1 DEF manager
<1>4. CASE ~Followed(d)
  BY <1>1, <1>3, <1>4, AdvanceBoot
<1>5. CASE Followed(d)
  <2>1. booted # 0
    <3>1. ASSUME booted = 0 PROVE Top.plugin = First
      BY <1>1, <1>2, <3>1 DEF BootInv, FirstRequire, At
    <3> QED BY <1>1, <3>1, BootFacts
  <2>2. LaterRequires
    BY <1>1, <2>1 DEF BootInv, IInv, TypeOK
  <2>3. d \in Dependency
    BY <1>1, <1>2, DepsAreSeq
  <2>4. f \in Frame /\ f.next = 0
    BY <1>5, <2>3 DEF Followed, Dependency, Call, Frame
  <2> HIDE DEF f
  <2>5. /\ Depth' = Depth + 1 /\ stack'[Depth + 1] = f
        /\ \A i \in 1 .. Depth : stack'[i] = stack[i]
    BY <1>1, <1>5, <2>4, PushLemma DEF IInv
  <2>6. booted = 1 => SecondRequire'
    <3>1. 1 \in 1 .. Depth /\ Extra' = Extra
      BY <1>2, <1>3, SameExtra
    <3> QED BY <1>2, <2>2, <2>5, <3>1 DEF LaterRequires, SecondRequire
  <2>7. ASSUME NEW i \in 1 .. Depth', PastFirst(stack'[i])
        PROVE  \E j \in 1 .. Depth : PastFirst(stack[j])
    <3>1. i # Depth + 1
      BY <2>4, <2>5, <2>7, NewCall
    <3>2. i \in 1 .. Depth
      BY <1>2, <2>5, <3>1
    <3> QED BY <2>5, <2>7, <3>2
  <2>8. LaterRequires'
    BY <1>1, <1>3, <2>2, <2>6, <2>7, SamePrepared
  <2> QED BY <1>1, <2>1, <2>8 DEF BootInv
<1> QED BY <1>4, <1>5

\* A call returns that is not the config file's own.
LEMMA PopBoot ==
    ASSUME BootAsShipped, IInv, BootInv, phase = "running", phase' = phase, stack # <<>>,
           Depth # 1, stack' = Below, booted' = booted, UNCHANGED <<manager, installed>>
    PROVE  BootInv'
<1>1. /\ Depth \in Nat \ {0} /\ Depth' = Depth - 1
      /\ \A i \in 1 .. Depth - 1 : stack'[i] = stack[i]
  BY PopLemma DEF IInv
<1>2. 1 \in 1 .. Depth - 1 /\ prepared' = prepared /\ handler' = handler /\ opens' = opens
  BY <1>1 DEF manager
<1>3. booted = 0 => FirstRequire'
  BY <1>1, <1>2 DEF BootInv, FirstRequire
<1>4. CASE booted > 0
  <2>1. LaterRequires /\ Extra' = Extra
    BY <1>2, <1>4, SameExtra DEF BootInv
  <2>2. booted = 1 => SecondRequire'
    BY <1>1, <1>2, <2>1 DEF LaterRequires, SecondRequire
  <2>3. ASSUME NEW i \in 1 .. Depth', PastFirst(stack'[i])
        PROVE  \E j \in 1 .. Depth : PastFirst(stack[j])
    <3>1. i \in 1 .. Depth - 1 /\ i \in 1 .. Depth
      BY <1>1
    <3> QED BY <1>1, <2>3, <3>1
  <2>4. LaterRequires'
    BY <1>2, <2>1, <2>2, <2>3, SamePrepared
  <2> QED BY <1>4, <2>4 DEF BootInv
<1>5. booted \in Nat
  BY DEF IInv, TypeOK
<1> QED BY <1>3, <1>4, <1>5 DEF BootInv

\* The config file's first two requires are of the first two plugins of Boot.
LEMMA BootingLemma ==
    ASSUME BootAsShipped, IInv, BootInv, phase = "running", ~Booting
    PROVE  Extra
<1>1. booted \in Nat /\ booted >= 2
  BY BootFacts DEF Booting, IInv, TypeOK
<1> QED BY <1>1 DEF BootInv, LaterRequires

\* A call fails, and with it the config file if it is the outermost.
LEMMA FailBoot ==
    ASSUME BootAsShipped, IInv, BootInv, phase = "running", stack # <<>>, stack' = Below,
           phase' = IF Depth = 1 /\ Booting THEN "exited" ELSE phase,
           booted' = booted, UNCHANGED <<manager, installed>>
    PROVE  BootInv'
<1>1. CASE Depth = 1 /\ Booting
  BY <1>1, EndedBoot DEF BootInv
<1>2. CASE Depth # 1
  BY <1>2, PopBoot
<1>3. CASE Depth = 1 /\ ~Booting
  <2>1. /\ Depth' = 0 /\ booted \in Nat /\ booted >= 2 /\ Extra
    BY <1>3, PopLemma, BootingLemma, BootFacts DEF Booting, IInv, TypeOK
  <2>2. prepared' = prepared /\ handler' = handler /\ opens' = opens
    BY DEF manager
  <2>3. Extra'
    BY <2>1, <2>2, SameExtra
  <2> HIDE DEF Extra
  <2>4. LaterRequires'
    BY <2>1, <2>3 DEF LaterRequires
  <2> QED BY <1>3, <2>1, <2>4 DEF BootInv
<1> QED BY <1>1, <1>2, <1>3

\* An Err leaves a call; out of the outermost it ends the boot and the process.
LEMMA PropagateBoot ==
    ASSUME BootAsShipped, IInv, BootInv, Propagate
    PROVE  BootInv'
<1>1. stack # <<>>
  BY DEF Propagate, IInv, ControlInv
<1> QED BY <1>1, FailBoot DEF Propagate

\* So does an error of Lua code.
LEMMA FailRequireBoot ==
    ASSUME BootAsShipped, IInv, BootInv, FailRequire
    PROVE  BootInv'
  BY FailBoot DEF FailRequire, Running, At

\* The first plugin is loaded again: the new handle is not yet closed, nor is the old one.
LEMMA LoadFirst ==
    ASSUME IInv, First \in Plugins, NEW a \in BOOLEAN, NEW b \in BOOLEAN,
           handler' = [handler EXCEPT ![First] = NewHandler(a, b)],
           opens' = [opens EXCEPT ![First] = IF a THEN @ + 1 ELSE @],
           handler[First].loaded \/ Extra
    PROVE  Extra'
<1>1. handler'[First].loaded = a /\ opens[First] \in Nat
  BY DEF IInv, TypeOK, NewHandler, NoHandler
<1>2. opens'[First] = IF a THEN opens[First] + 1 ELSE opens[First]
  BY DEF IInv, TypeOK
<1>3. opens[First] > 0
  BY <1>1 DEF Extra, IInv, TableInv
<1> QED BY <1>1, <1>2, <1>3 DEF Extra

\* A plugin is loaded: the first for the first time, the first again, or another.
LEMMA LoadPluginBoot ==
    ASSUME BootAsShipped, IInv, BootInv, LoadPlugin
    PROVE  BootInv'
<1> DEFINE u == Top.plugin
<1>1. PICK o \in Outcome(u) :
         /\ handler' = [handler EXCEPT ![u] = NewHandler(o[1], o[2])]
         /\ opens' = [opens EXCEPT ![u] = IF o[1] THEN @ + 1 ELSE @]
  BY DEF LoadPlugin
<1>2. /\ phase = "running" /\ At("prepare") /\ Top.next > Len(Deps[u])
      /\ prepared' = prepared \cup {u} /\ stack' = Returned
      /\ UNCHANGED <<installed, booted, phase>>
  BY DEF LoadPlugin
<1>3. /\ stack # <<>> /\ Depth \in Nat \ {0} /\ Top = stack[Depth] /\ Top.op = "prepare"
      /\ u \in Plugins /\ Top.next \in Nat
  BY <1>2, PrepareTop
<1>4. /\ Depth' = Depth - 1
      /\ \A i \in 1 .. Depth - 1 :
            /\ stack'[i].op = stack[i].op
            /\ stack'[i].plugin = stack[i].plugin
            /\ stack'[i].next = IF i = Depth - 1 /\ stack[i].op = "prepare"
                                THEN stack[i].next + 1 ELSE stack[i].next
  BY <1>2, <1>3, ReturnLemma DEF IInv
<1>5. o[1] \in BOOLEAN /\ o[2] \in BOOLEAN
  BY DEF Outcome, Built
<1>6. CASE booted = 0
  <2>1. FirstRequire /\ Depth = 2 /\ u = First
    BY <1>2, <1>3, <1>6 DEF BootInv, FirstRequire
  <2>2. FirstRequire'
    BY <1>2, <1>4, <2>1 DEF FirstRequire
  <2> QED BY <1>2, <1>6, <2>2 DEF BootInv
<1>7. CASE booted # 0
  <2>1. LaterRequires
    BY <1>2, <1>7 DEF BootInv, IInv, TypeOK
  <2>2. u = First => Extra'
    BY <1>1, <1>3, <1>5, <2>1, LoadFirst DEF LaterRequires
  <2>3. u # First => Extra' = Extra /\ handler'[First].loaded = handler[First].loaded
    BY <1>1, <1>3, BootFacts DEF Extra, IInv, TypeOK
  <2>4. u = Second => Extra
    <3>1. ASSUME u = Second PROVE PastFirst(Top)
      <4>1. PICK k \in DOMAIN Deps[Second] : Deps[Second][k] = [source |-> First, optional |-> FALSE]
        BY DEF BootAsShipped
      <4>2. Followed(Deps[Second][k]) /\ Deps[Second][k].source = First
        BY <4>1, BootFacts, PluginsAssumption DEF Followed
      <4>3. k < Top.next
        BY <1>2, <1>3, <3>1, DepsAreSeq
      <4> QED BY <1>3, <3>1, <4>2, <4>3 DEF PastFirst
    <3>2. Depth \in 1 .. Depth
      BY <1>3
    <3> QED BY <1>3, <2>1, <3>1, <3>2 DEF LaterRequires
  <2>5. ASSUME NEW i \in 1 .. Depth', PastFirst(stack'[i])
        PROVE  u = First \/ PastFirst(stack[i])
    <3>1. i \in 1 .. Depth - 1 /\ i \in 1 .. Depth
      BY <1>3, <1>4
    <3>2. stack[i].op = "prepare" /\ stack[i].plugin = Second /\ stack[i].next \in Nat
      <4>1. stack[i] \in Frame
        BY <3>1 DEF IInv, TypeOK, Depth
      <4>2. stack'[i].op = "prepare" /\ stack'[i].plugin = Second
        BY <2>5 DEF PastFirst
      <4> QED BY <1>4, <3>1, <4>1, <4>2 DEF Frame
    <3>3. CASE i # Depth - 1
      BY <1>4, <2>5, <3>1, <3>2, <3>3 DEF PastFirst
    <3>4. CASE i = Depth - 1
      <4>1. stack[i + 1] = Top /\ i < Depth /\ stack'[i].next = stack[i].next + 1
        BY <1>3, <1>4, <3>1, <3>2, <3>4
      <4>2. PrepareAt(i)
        BY <3>1 DEF IInv, StackInv
      <4>3. u = Deps[Second][stack[i].next].source
        BY <3>2, <4>1, <4>2 DEF PrepareAt
      <4>4. PICK k \in DOMAIN Deps[Second] :
               /\ k < stack[i].next + 1
               /\ Followed(Deps[Second][k]) /\ Deps[Second][k].source = First
        BY <2>5, <4>1 DEF PastFirst
      <4>5. k < stack[i].next \/ k = stack[i].next
        BY <3>2, <4>4, BootFacts, DepsAreSeq
      <4> QED BY <3>2, <4>3, <4>4, <4>5 DEF PastFirst
    <3> QED BY <3>3, <3>4
  <2>6. Extra => Extra'
    BY <2>2, <2>3
  <2>7. booted = 1 => SecondRequire'
    <3>1. stack' # <<>> => 1 \in 1 .. Depth - 1
      <4>1. stack' # <<>> => Depth' \in Nat \ {0}
        BY <1>2, <1>3, ReturnLemma DEF IInv, Depth
      <4> QED BY <1>3, <1>4, <4>1
    <3> QED BY <1>3, <1>4, <2>1, <2>6, <3>1 DEF LaterRequires, SecondRequire
  <2>8. handler[First].loaded \/ Extra => handler'[First].loaded \/ Extra'
    BY <2>2, <2>3
  <2>9. Second \in prepared' => Second \in prepared \/ Extra'
    BY <1>2, <2>4, <2>6
  <2>10. \A i \in 1 .. Depth' :
            PastFirst(stack'[i]) => Extra' \/ \E j \in 1 .. Depth : PastFirst(stack[j])
    <3>1. \A i \in 1 .. Depth' : i \in 1 .. Depth
      BY <1>3, <1>4
    <3> QED BY <2>2, <2>5, <3>1
  <2> HIDE DEF u
  <2>11. LaterRequires'
    BY <1>2, <2>1, <2>6, <2>7, <2>8, <2>9, <2>10, LaterLemma
  <2> QED BY <1>2, <1>7, <2>11 DEF BootInv
<1> QED BY <1>6, <1>7

\* The plugin's code begins, or its setup does.
LEMMA RunsBoot ==
    ASSUME BootAsShipped, IInv, BootInv, phase = "running", phase' = phase, failing = FALSE,
           stack # <<>>, Top.op \in {"require", "init"}, NEW op \in {"init", "setup"},
           stack' = [stack EXCEPT ![Depth].op = op], booted' = booted, booted > 0,
           handler'[First].loaded = handler[First].loaded, opens' = opens, prepared' = prepared
    PROVE  LaterRequires'
<1> DEFINE f == [stack[Depth] EXCEPT !.op = op]
<1>1. Depth \in Nat \ {0} /\ stack[Depth] \in Frame /\ Top = stack[Depth]
  BY DEF IInv, TypeOK, Top, Depth
<1>2. f \in Frame /\ f.op = op /\ f.plugin = stack[Depth].plugin
  BY <1>1 DEF Frame
<1>3. stack' = [stack EXCEPT ![Depth] = f]
  OBVIOUS
<1> HIDE DEF f
<1>4. /\ Depth' = Depth /\ stack'[Depth] = f
      /\ \A i \in 1 .. Depth - 1 : stack'[i] = stack[i]
  BY <1>1, <1>2, <1>3, TopLemma DEF IInv
<1>5. LaterRequires /\ Extra' = Extra
  BY SameExtra DEF BootInv
<1>6. booted = 1 => SecondRequire'
  <2>1. CASE Depth = 1
    <3>1. booted = 1 => stack[1].plugin = Second /\ (stack[1].op # "require" => Extra)
      BY <1>5 DEF LaterRequires, SecondRequire
    <3>2. stack[1].op = "require" => stack[1].plugin \in prepared
      <4>1. RequireAt(Depth)
        BY <1>1 DEF IInv, StackInv
      <4> QED BY <1>1, <2>1, <4>1 DEF RequireAt
    <3>3. booted = 1 => Extra
      BY <1>5, <3>1, <3>2 DEF LaterRequires
    <3> QED BY <1>2, <1>4, <1>5, <2>1, <3>1, <3>3 DEF SecondRequire
  <2>2. CASE Depth # 1
    <3>1. 1 \in 1 .. Depth - 1
      BY <1>1, <2>2
    <3> QED BY <1>4, <1>5, <3>1 DEF LaterRequires, SecondRequire
  <2> QED BY <2>1, <2>2
<1>7. ASSUME NEW i \in 1 .. Depth', PastFirst(stack'[i])
      PROVE  \E j \in 1 .. Depth : PastFirst(stack[j])
  <2>1. i # Depth
    BY <1>2, <1>4, <1>7 DEF PastFirst
  <2>2. i \in 1 .. Depth - 1 /\ i \in 1 .. Depth
    BY <1>1, <1>4, <2>1
  <2> QED BY <1>4, <1>7, <2>2
<1> QED BY <1>5, <1>6, <1>7, SamePrepared

\* While the first require goes on, the innermost call's plugin is the first.
LEMMA FirstTop ==
    ASSUME IInv, BootInv, phase = "running", booted = 0, stack # <<>>, Top.op # "prepare"
    PROVE  /\ FirstRequire /\ Depth = 1 /\ Top = stack[1] /\ Top.plugin = First
           /\ Top.op \in {"require", "setup"}
<1>1. Depth \in Nat \ {0} /\ Top = stack[Depth] /\ FirstRequire
  BY DEF BootInv, IInv, TypeOK, Top, Depth
<1> QED BY <1>1 DEF FirstRequire

\* setup of a native plugin, whose handle is open.
LEMMA RunNativeBoot ==
    ASSUME BootAsShipped, IInv, BootInv, RunNative
    PROVE  BootInv'
<1>1. CASE Crash("null_setup")
  BY <1>1, EndedBoot DEF Crash, BootInv
<1>2. CASE ~Crash("null_setup")
  <2>1. /\ phase = "running" /\ failing = FALSE /\ stack # <<>> /\ Top.op = "require"
        /\ Native(Top.plugin) /\ handler[Top.plugin].loaded
        /\ installed' = installed \cup {Top.plugin}
        /\ stack' = [stack EXCEPT ![Depth].op = "setup"]
        /\ UNCHANGED <<manager, booted, phase>>
    BY <1>2 DEF RunNative, Running, At, IInv, TypeOK
  <2>2. prepared' = prepared /\ handler' = handler /\ opens' = opens
    BY <2>1 DEF manager
  <2>3. \A w \in installed' : Native(w)
    BY <2>1 DEF BootInv
  <2>4. CASE booted = 0
    <3>1. FirstRequire /\ Depth = 1 /\ Top = stack[1] /\ Top.plugin = First
      BY <2>1, <2>4, FirstTop
    <3>2. Depth' = 1 /\ stack'[1].op = "setup" /\ stack'[1].plugin = First
      <4>1. stack' = [stack EXCEPT ![1] = [stack[1] EXCEPT !.op = "setup"]]
        BY <2>1, <3>1
      <4>2. stack \in Seq(Frame) /\ Len(stack) = 1 /\ stack[1] \in Frame
        <5>1. stack \in Seq(Frame) /\ Len(stack) = 1
          BY <3>1 DEF IInv, TypeOK, Depth
        <5> QED BY <5>1
      <4> QED BY <3>1, <4>1, <4>2 DEF Depth, Frame
    <3>3. FirstRequire'
      BY <2>1, <2>2, <3>1, <3>2 DEF FirstRequire
    <3> QED BY <2>1, <2>3, <2>4, <3>3 DEF BootInv
  <2>5. CASE booted # 0
    <3>1. booted > 0
      BY <2>5 DEF IInv, TypeOK
    <3>2. LaterRequires'
      BY <2>1, <2>2, <3>1, RunsBoot
    <3> QED BY <2>1, <2>3, <2>5, <3>2 DEF BootInv
  <2> QED BY <2>4, <2>5
<1> QED BY <1>1, <1>2

\* init.lua of a Lua plugin, which is not the first.
LEMMA RunInitBoot ==
    ASSUME BootAsShipped, IInv, BootInv, RunInit
    PROVE  BootInv'
<1>1. /\ phase = "running" /\ failing = FALSE /\ stack # <<>> /\ Top.op = "require"
      /\ ~Native(Top.plugin) /\ stack' = [stack EXCEPT ![Depth].op = "init"]
      /\ UNCHANGED <<manager, installed, booted, phase>>
  BY DEF RunInit, Running, At, IInv, TypeOK
<1>2. prepared' = prepared /\ handler' = handler /\ opens' = opens
  BY <1>1 DEF manager
<1>3. booted # 0
  BY <1>1, FirstTop, BootFacts
<1>4. booted > 0
  BY <1>3 DEF IInv, TypeOK
<1>5. LaterRequires'
  BY <1>1, <1>2, <1>4, RunsBoot
<1> QED BY <1>1, <1>3, <1>5 DEF BootInv

\* setup of a Lua plugin.
LEMMA RunSetupBoot ==
    ASSUME BootAsShipped, IInv, BootInv, NEW b \in BOOLEAN, RunSetup(b)
    PROVE  BootInv'
<1>1. CASE ~Top.valid
  BY <1>1, EndedBoot DEF RunSetup, Crash, BootInv
<1>2. CASE Top.valid
  <2>1. /\ phase = "running" /\ failing = FALSE /\ stack # <<>> /\ Top.op = "init"
        /\ handler' = [handler EXCEPT ![Top.plugin].unload = b \/ @]
        /\ stack' = [stack EXCEPT ![Depth].op = "setup"]
        /\ UNCHANGED <<prepared, opens, installed, booted, phase>>
    BY <1>2 DEF RunSetup, Running, At, IInv, TypeOK
  <2>2. handler'[First].loaded = handler[First].loaded
    BY <2>1, BootFacts DEF IInv, TypeOK, Handler
  <2>3. booted # 0
    BY <2>1, FirstTop
  <2>4. booted > 0
    BY <2>3 DEF IInv, TypeOK
  <2>5. LaterRequires'
    BY <2>1, <2>2, <2>4, RunsBoot
  <2> QED BY <2>1, <2>3, <2>5 DEF BootInv
<1> QED BY <1>1, <1>2

\* A require returns, and with it one of the config file's.
LEMMA FinishRequireBoot ==
    ASSUME BootAsShipped, IInv, BootInv, NEW b \in BOOLEAN, FinishRequire(b)
    PROVE  BootInv'
<1>1. CASE ~(b => Top.valid)
  BY <1>1, EndedBoot DEF FinishRequire, Crash, BootInv
<1>2. CASE b => Top.valid
  <2>1. /\ phase = "running" /\ stack # <<>> /\ Top.op = "setup" /\ stack' = Below
        /\ booted' = IF Depth = 1 /\ Booting THEN booted + 1 ELSE booted
        /\ UNCHANGED <<manager, installed, phase>>
    BY <1>2 DEF FinishRequire, Running, At, Advance
  <2>2. prepared' = prepared /\ handler' = handler /\ opens' = opens
    BY <2>1 DEF manager
  <2>3. Depth \in Nat \ {0} /\ Depth' = Depth - 1 /\ Top = stack[Depth] /\ booted \in Nat
    BY <2>1, PopLemma DEF IInv, TypeOK, Top
  <2>4. CASE Depth # 1
    BY <2>1, <2>4, PopBoot
  <2>5. CASE Depth = 1 /\ booted = 0
    <3>1. FirstRequire /\ handler[First].loaded
      BY <2>1, <2>3, <2>5 DEF BootInv, FirstRequire
    <3>2. booted' = 1 /\ Second \notin prepared'
      BY <2>1, <2>2, <2>5, <3>1, BootFacts DEF Booting, FirstRequire
    <3>3. Depth' = 0 /\ stack' = <<>>
      BY <2>1, <2>3, <2>5, PopLemma DEF IInv, Depth
    <3>4. LaterRequires'
      BY <2>2, <3>1, <3>2, <3>3 DEF LaterRequires, SecondRequire
    <3> QED BY <2>1, <3>2, <3>4 DEF BootInv
  <2>6. CASE Depth = 1 /\ booted # 0
    <3>1. LaterRequires
      BY <2>1, <2>3, <2>6 DEF BootInv
    <3>2. Extra
      BY <2>1, <2>3, <2>6, <3>1 DEF LaterRequires, SecondRequire
    <3>3. Extra'
      BY <2>2, <3>2, SameExtra
    <3>4. booted' > 1
      BY <2>1, <2>3, <2>6, BootFacts DEF Booting
    <3>5. LaterRequires'
      BY <2>3, <2>6, <3>3, <3>4 DEF LaterRequires
    <3> QED BY <2>1, <3>4, <3>5 DEF BootInv
  <2> QED BY <2>4, <2>5, <2>6
<1> QED BY <1>1, <1>2

\* Whatever is unloaded, the handle that no handler has remains.
LEMMA UnloadBoot ==
    ASSUME BootAsShipped, IInv, BootInv, NEW u \in Plugins, Unload(u)
    PROVE  BootInv'
<1>1. CASE Crash("null_dlclose")
  BY <1>1, EndedBoot DEF Crash, BootInv
<1>2. CASE /\ handler' = [handler EXCEPT ![u] = NoHandler]
           /\ opens' = [opens EXCEPT ![u] = IF handler[u].loaded THEN @ - 1 ELSE @]
           /\ UNCHANGED <<installed, phase>>
  <2>1. phase = "unloading" /\ Extra
    BY DEF Unload, BootInv
  <2>2. First \in Plugins /\ NoHandler.loaded = FALSE /\ opens[First] \in Nat
    BY BootFacts DEF NoHandler, IInv, TypeOK
  <2>3. Extra'
    <3>1. CASE u = First
      <4>1. /\ handler'[First].loaded = FALSE
            /\ opens'[First] = IF handler[First].loaded THEN opens[First] - 1 ELSE opens[First]
        BY <1>2, <2>2, <3>1 DEF IInv, TypeOK
      <4> QED BY <2>1, <2>2, <4>1 DEF Extra
    <3>2. CASE u # First
      BY <1>2, <2>1, <2>2, <3>2 DEF Extra, IInv, TypeOK
    <3> QED BY <3>1, <3>2
  <2> QED BY <1>2, <2>1, <2>3 DEF BootInv
<1> QED BY <1>1, <1>2 DEF Unload, Emptied

\* end_shell_state, and a reload.
LEMMA ShutdownBoot ==
    ASSUME BootAsShipped, IInv, BootInv, ShutdownStep
    PROVE  BootInv'
<1>1. CASE BeginShutdown
  <2>1. phase = "running" /\ phase' = "unloading" /\ ~Booting /\ installed' = installed
        /\ handler' = handler /\ opens' = opens
    BY <1>1 DEF BeginShutdown
  <2>2. Extra
    BY <2>1, BootingLemma
  <2>3. Extra'
    BY <2>1, <2>2, SameExtra
  <2> QED BY <2>1, <2>3 DEF BootInv
<1>2. CASE CloseLua
  BY <1>2, EndedBoot DEF CloseLua
<1>3. CASE Restart
  <2>1. /\ phase' = "running" /\ booted' = 0 /\ stack' = <<>> /\ prepared' = {}
        /\ installed' = installed
    BY <1>3 DEF Restart, IInv, ControlInv
  <2> QED BY <2>1 DEF BootInv, FirstRequire, Depth
<1>4. CASE \E u \in Plugins : Unload(u)
  BY <1>4, UnloadBoot
<1> QED BY <1>1, <1>2, <1>3, <1>4 DEF ShutdownStep

\* Every step keeps it.
LEMMA NextBootInv ==
    ASSUME BootAsShipped, IInv, BootInv, [Next]_vars
    PROVE  BootInv'
<1>1. CASE LuaCall
  BY <1>1, ResolveBoot, PrepareBoot, RequireBoot DEF LuaCall
<1>2. CASE PrepareStep
  BY <1>2, ReadManifestBoot, MissingManifestBoot, PrepareDependencyBoot, PropagateBoot,
     LoadPluginBoot DEF PrepareStep
<1>3. CASE RequireStep
  BY <1>3, RunNativeBoot, RunInitBoot, FailRequireBoot, RunSetupBoot, FinishRequireBoot
     DEF RequireStep
<1>4. CASE ShutdownStep
  BY <1>4, ShutdownBoot
<1>5. CASE UNCHANGED vars
  BY <1>5 DEF vars, BootInv, FirstRequire, LaterRequires, SecondRequire, Extra, Depth
<1> QED BY <1>1, <1>2, <1>3, <1>4, <1>5 DEF Next

\* Whatever the other plugins are, and whatever Lua asks of the plugin manager while the shell
\* runs: with a config file that begins as the shipped one does, the objects of the native
\* plugins it loads stay mapped until lua_close has returned.  The runtime is opened by its own
\* require and once more by the preparation of the plugin that depends on it, a handler is
\* closed once, and preparing it again opens it again.
THEOREM AlwaysMappedUntilLuaCloses ==
    ASSUME BootAsShipped
    PROVE  Spec => []MappedUntilLuaCloses
<1>1. Init => BootInv
  BY DEF Init, BootInv, FirstRequire, Depth
<1>2. IInv /\ BootInv /\ [Next]_vars => BootInv'
  BY NextBootInv
<1>3. IInv /\ BootInv /\ MappedUntilUnloaded => MappedUntilLuaCloses
  <2> SUFFICES ASSUME IInv, BootInv, MappedUntilUnloaded, phase \in {"running", "unloading"},
                      NEW u \in installed, NEW i \in DOMAIN Boot, Boot[i] = u
               PROVE  opens[u] > 0
    BY DEF MappedUntilLuaCloses
  <2>1. CASE phase = "running"
    BY <2>1 DEF MappedUntilUnloaded
  <2>2. CASE phase = "unloading"
    <3>1. u = First /\ Extra
      BY <2>2 DEF BootInv, BootAsShipped
    <3>2. opens[First] \in Nat
      BY BootFacts DEF IInv, TypeOK
    <3> QED BY <3>1, <3>2 DEF Extra
  <2> QED BY <2>1, <2>2
<1> QED BY <1>1, <1>2, <1>3, Invariance, AlwaysMappedUntilUnloaded, PTL DEF Spec
=============================================================================
