----------------------- MODULE ModuleResolver_proofs -----------------------
(***************************************************************************)
(* Theorems about ModuleResolver, for any plugins and libraries, whatever  *)
(* they are called and wherever they lie.                                  *)
(***************************************************************************)
EXTENDS ModuleResolver, TLAPS, WellFoundedInduction

(***************************************************************************)
(* First                                                                   *)
(***************************************************************************)
LEMMA Least ==
    ASSUME NEW S \in SUBSET Nat, S # {}
    PROVE  \E i \in S : \A j \in S : i <= j
<1> DEFINE R == {ss \in Nat \X Nat : ss[1] < ss[2]}
<1>1. IsWellFoundedOn(R, Nat)
  BY NatLessThanWellFounded DEF OpToRel
<1>2. \E x \in S : \A y \in S : ~(<<y, x>> \in R)
  <2> HIDE DEF R
  <2> QED BY <1>1, WFMin
<1>3. PICK x \in S : \A y \in S : ~(<<y, x>> \in R)
  BY <1>2
<1>4. ASSUME NEW y \in S PROVE x <= y
  <2>1. <<y, x>> \in Nat \X Nat /\ ~(<<y, x>> \in R)
    BY <1>3
  <2>2. ~(y < x)
    BY <2>1
  <2> QED BY <2>2
<1> QED BY <1>4

\* First gives a good member of the sequence, or "" if it has none.
LEMMA FirstLemma ==
    ASSUME NEW T, NEW s \in Seq(T), NEW good
    PROVE  /\ (\E i \in DOMAIN s : s[i] \in good) =>
                  \E i \in DOMAIN s : s[i] \in good /\ First(s, good) = s[i]
           /\ ~(\E i \in DOMAIN s : s[i] \in good) => First(s, good) = ""
<1> DEFINE Good == {i \in DOMAIN s : s[i] \in good}
<1>1. DOMAIN s = 1 .. Len(s) /\ Len(s) \in Nat
  OBVIOUS
<1>2. CASE \E i \in DOMAIN s : s[i] \in good
  <2>1. Good \in SUBSET Nat /\ Good # {}
    BY <1>1, <1>2
  <2>2. PICK i \in Good : \A j \in Good : i <= j
    <3> HIDE DEF Good
    <3> QED BY <2>1, Least
  <2>3. i \in DOMAIN s /\ s[i] \in good /\ \A j \in 1..(i - 1) : s[j] \notin good
    BY <1>1, <2>2
  <2> DEFINE c == CHOOSE k \in DOMAIN s :
                     s[k] \in good /\ \A j \in 1..(k - 1) : s[j] \notin good
  <2>4. c \in DOMAIN s /\ s[c] \in good
    BY <2>3
  <2>5. First(s, good) = s[c]
    BY <1>2 DEF First
  <2> QED BY <1>2, <2>4, <2>5
<1>3. CASE ~(\E i \in DOMAIN s : s[i] \in good)
  BY <1>3 DEF First
<1> QED BY <1>2, <1>3

LEMMA LastLemma ==
    ASSUME NEW T, NEW s \in Seq(T), s # <<>>
    PROVE  Len(s) \in DOMAIN s
  OBVIOUS

(***************************************************************************)
(* The invariant                                                           *)
(***************************************************************************)
Known == active \cup Libs

\* Where a file that was found under a name comes from, if A were required.
Source(n, f, A) ==
    \/ f \in Modules /\ \E X \in A \cup Libs : f = <<X, n[1], n[2]>>
    \/ n[1] = "" /\ \E Q \in A : n[2] = Ns[Q] /\ f = InitFile(Q)
    \/ \E Q \in A : n[1] = Ns[Q] /\ f = <<Q, "", n[2]>>

Tables ==
    /\ \A i \in DOMAIN path : path[i] \in Known
    /\ \A i \in DOMAIN searchers : searchers[i] \in active
    /\ \A P \in active : Taken(P) /\ Listed(P)

Kept == \A n \in Names : loaded[n] # Missing => Source(n, loaded[n], active)

Calls ==
    \A i \in DOMAIN stack :
        /\ stack[i].file[1] \in Known
        /\ stack[i].as # NoName => Source(stack[i].as, stack[i].file, active)

IInv == TypeOK /\ Tables /\ Kept /\ Calls

LEMMA SourceKnown ==
    ASSUME NEW n, NEW f, Source(n, f, active)
    PROVE  f[1] \in Known
<1>1. CASE \E X \in Known : f = <<X, n[1], n[2]>>
  BY <1>1
<1>2. CASE \E Q \in active : f = <<Q, "", "">> \/ f = <<Q, "", n[2]>>
  <2>1. PICK Q \in active : f = <<Q, "", "">> \/ f = <<Q, "", n[2]>>
    BY <1>2
  <2>2. f[1] = Q
    <3>1. CASE f = <<Q, "", "">>
      BY <3>1
    <3>2. CASE f = <<Q, "", n[2]>>
      BY <3>2
    <3> QED BY <2>1, <3>1, <3>2
  <2> QED BY <2>1, <2>2 DEF Known
<1> QED BY <1>1, <1>2 DEF Source, InitFile, Known

\* Nothing that was required is forgotten.
LEMMA SourceStays ==
    ASSUME NEW n, NEW f, NEW A, NEW B, Source(n, f, A), A \subseteq B
    PROVE  Source(n, f, B)
  BY DEF Source

LEMMA MissingNotFile == Missing \notin File
  BY ResolverAssumption DEF Missing, File, InitFile, Dirs

(***************************************************************************)
(* What a name finds                                                       *)
(***************************************************************************)
LEMMA ByPathLemma ==
    ASSUME IInv, NEW name
    PROVE  /\ ByPath(name) # Missing =>
                 /\ ByPath(name) \in Modules
                 /\ \E X \in Known : ByPath(name) = <<X, name[1], name[2]>>
           /\ (\E i \in DOMAIN path : <<path[i], name[1], name[2]>> \in Modules) =>
                 ByPath(name) # Missing
<1> DEFINE good == {X \in Dirs : <<X, name[1], name[2]>> \in Modules}
           D == First(path, good)
<1>1. path \in Seq(Dirs)
  BY DEF IInv, TypeOK
<1>2. ByPath(name) = IF D = "" THEN Missing ELSE <<D, name[1], name[2]>>
  BY DEF ByPath
<1>3. CASE \E i \in DOMAIN path : path[i] \in good
  <2>1. PICK i \in DOMAIN path : path[i] \in good /\ D = path[i]
    <3> HIDE DEF good
    <3> QED BY <1>1, <1>3, FirstLemma
  <2>2. D \in Known /\ D \in Dirs /\ <<D, name[1], name[2]>> \in Modules
    BY <2>1 DEF IInv, Tables
  <2>3. D # ""
    BY <2>2, ResolverAssumption
  <2> HIDE DEF D, good
  <2>4. ByPath(name) = <<D, name[1], name[2]>> /\ ByPath(name) # Missing
    BY <1>2, <2>2, <2>3, MissingNotFile DEF File
  <2> QED BY <2>2, <2>4
<1>4. CASE ~(\E i \in DOMAIN path : path[i] \in good)
  <2>1. D = ""
    <3> HIDE DEF good
    <3> QED BY <1>1, <1>4, FirstLemma
  <2>2. ByPath(name) = Missing
    BY <1>2, <2>1
  <2>3. \A i \in DOMAIN path : path[i] \in Dirs
    BY <1>1
  <2> QED BY <1>4, <2>2, <2>3
<1> QED BY <1>3, <1>4

\* The searchers give the file to the first plugin that may have it.
LEMMA ByNamespaceLemma ==
    ASSUME IInv, NEW name
    PROVE  LET good == {X \in Plugins : Within(X) /\ InPlugin(X, name) \in File}
           IN  /\ ByNamespace(name) # Missing =>
                    \E Q \in active \cap good : ByNamespace(name) = InPlugin(Q, name)
               /\ (\E i \in DOMAIN searchers : searchers[i] \in good) =>
                    ByNamespace(name) # Missing
<1> DEFINE good == {X \in Plugins : Within(X) /\ InPlugin(X, name) \in File}
           D == First(searchers, good)
<1>1. searchers \in Seq(Plugins)
  BY DEF IInv, TypeOK
<1>2. ByNamespace(name) = IF D = "" THEN Missing ELSE InPlugin(D, name)
  BY DEF ByNamespace
<1>3. CASE \E i \in DOMAIN searchers : searchers[i] \in good
  <2>1. PICK i \in DOMAIN searchers : searchers[i] \in good /\ D = searchers[i]
    <3> HIDE DEF good
    <3> QED BY <1>1, <1>3, FirstLemma
  <2>2. D \in active \cap good
    BY <2>1 DEF IInv, Tables
  <2>3. D \in Plugins /\ InPlugin(D, name) \in File
    BY <2>2
  <2>4. D # ""
    BY <2>3, ResolverAssumption DEF Dirs
  <2> HIDE DEF D, good
  <2>5. ByNamespace(name) = InPlugin(D, name) /\ ByNamespace(name) # Missing
    BY <1>2, <2>3, <2>4, MissingNotFile
  <2> QED BY <2>2, <2>5 DEF good
<1>4. CASE ~(\E i \in DOMAIN searchers : searchers[i] \in good)
  <2>1. D = ""
    <3> HIDE DEF good
    <3> QED BY <1>1, <1>4, FirstLemma
  <2> QED BY <1>2, <1>4, <2>1
<1> QED BY <1>3, <1>4

LEMMA FoundLemma ==
    ASSUME IInv, NEW name \in Names, Found(name) # Missing
    PROVE  Found(name) \in File /\ Source(name, Found(name), active)
<1>1. CASE loaded[name] # Missing
  BY <1>1 DEF Found, IInv, TypeOK, Kept
<1>2. CASE loaded[name] = Missing /\ ByPath(name) # Missing
  <2>1. Found(name) = ByPath(name)
    BY <1>2 DEF Found
  <2> QED BY <1>2, <2>1, ByPathLemma DEF File, Source, Known
<1>3. CASE loaded[name] = Missing /\ ByPath(name) = Missing
  <2>1. Found(name) = ByNamespace(name) /\ ByNamespace(name) # Missing
    BY <1>3 DEF Found
  <2>2. PICK Q \in active : InPlugin(Q, name) \in File /\ Found(name) = InPlugin(Q, name)
    BY <2>1, ByNamespaceLemma
  <2>3. InPlugin(Q, name) # Missing
    BY <2>2, MissingNotFile
  <2> QED BY <2>2, <2>3 DEF InPlugin, Source
<1> QED BY <1>1, <1>2, <1>3

(***************************************************************************)
(* Steps                                                                   *)
(***************************************************************************)
LEMMA InitIInv == Init => IInv
<1> SUFFICES ASSUME Init PROVE IInv
  OBVIOUS
<1>1. path = <<>> \/ \E L \in Libs : path = <<L>>
  BY DEF Init
<1>2. path \in Seq(Dirs) /\ \A i \in DOMAIN path : path[i] \in Known
  <2>1. CASE path = <<>>
    BY <2>1
  <2>2. ASSUME NEW L \in Libs, path = <<L>>
        PROVE  path \in Seq(Dirs) /\ \A i \in DOMAIN path : path[i] \in Known
    <3>1. L \in Dirs /\ L \in Known
      BY DEF Dirs, Known
    <3> QED BY <2>2, <3>1
  <2> QED BY <1>1, <2>1, <2>2
<1> QED BY <1>2 DEF Init, IInv, TypeOK, Tables, Kept, Calls, Frame

\* Another call on the stack.
LEMMA CallLemma ==
    ASSUME IInv, NEW file \in File, NEW as \in Names \cup {NoName}, Call(file, as),
           active \subseteq active', file[1] \in active' \cup Libs,
           as # NoName => Source(as, file, active)
    PROVE  stack' \in Seq(Frame) /\ Calls'
<1> DEFINE new == [file |-> file, as |-> as]
<1>1. stack \in Seq(Frame) /\ stack' = Append(stack, new)
  BY DEF IInv, TypeOK, Call
<1>2. new \in Frame /\ new.file = file /\ new.as = as
  BY DEF Frame
<1> HIDE DEF new
<1>3. /\ stack' \in Seq(Frame)
      /\ \A i \in DOMAIN stack' : (i \in DOMAIN stack /\ stack'[i] = stack[i]) \/ stack'[i] = new
  BY <1>1, <1>2
<1>4. ASSUME NEW i \in DOMAIN stack'
      PROVE  /\ stack'[i].file[1] \in Known'
             /\ stack'[i].as # NoName => Source(stack'[i].as, stack'[i].file, active')
  <2>1. CASE i \in DOMAIN stack /\ stack'[i] = stack[i]
    <3>1. /\ stack[i].file[1] \in Known
          /\ stack[i].as # NoName => Source(stack[i].as, stack[i].file, active)
      BY <2>1 DEF IInv, Calls
    <3> QED BY <2>1, <3>1, SourceStays DEF Known
  <2>2. CASE stack'[i] = new
    BY <1>2, <2>2, SourceStays DEF Known
  <2> QED BY <1>3, <2>1, <2>2
<1> QED BY <1>3, <1>4 DEF Calls

LEMMA RegisterLemma ==
    ASSUME IInv, NEW P \in Plugins, Register(P), active' = active \cup {P}
    PROVE  path' \in Seq(Dirs) /\ searchers' \in Seq(Plugins) /\ Tables'
<1>1. path \in Seq(Dirs) /\ searchers \in Seq(Plugins) /\ P \in Dirs /\ active \subseteq Plugins
  BY DEF IInv, TypeOK, Dirs
<1>2. path' = path \/ path' = Append(path, P)
  BY DEF Register
<1>3. \/ Taken(P) /\ searchers' = searchers
      \/ searchers' = Append(searchers, P)
  BY DEF Register
<1>4. path' \in Seq(Dirs) /\ searchers' \in Seq(Plugins)
  <2>1. path' \in Seq(Dirs)
    BY <1>1, <1>2
  <2>2. searchers' \in Seq(Plugins)
    BY <1>1, <1>3
  <2> QED BY <2>1, <2>2
<1>5. \A i \in DOMAIN path' : path'[i] \in Known'
  BY <1>1, <1>2 DEF IInv, Tables, Known
<1>6. \A i \in DOMAIN searchers' : searchers'[i] \in active'
  BY <1>1, <1>3 DEF IInv, Tables
<1>7. ASSUME NEW Q \in active' PROVE Listed(Q)'
  <2>1. CASE Listed(Q)
    <3>1. PICK i \in DOMAIN path : path[i] = Q \/ <<path[i], Q>> \in Covers
      BY <2>1 DEF Listed
    <3>2. i \in DOMAIN path' /\ path'[i] = path[i]
      BY <1>1, <1>2, <3>1
    <3> QED BY <3>1, <3>2 DEF Listed
  <2>2. CASE ~Listed(Q)
    <3>1. Q = P
      BY <2>2 DEF IInv, Tables
    <3>2. path' = Append(path, P)
      BY <2>2, <3>1 DEF Register
    <3>3. Len(path) + 1 \in DOMAIN path' /\ path'[Len(path) + 1] = P
      BY <1>1, <3>2
    <3> QED BY <3>1, <3>3 DEF Listed
  <2> QED BY <2>1, <2>2
<1>8. ASSUME NEW Q \in active' PROVE Taken(Q)'
  <2>1. CASE Taken(Q)
    <3>1. PICK i \in DOMAIN searchers : Ns[searchers[i]] = Ns[Q]
      BY <2>1 DEF Taken
    <3>2. i \in DOMAIN searchers' /\ searchers'[i] = searchers[i]
      BY <1>1, <1>3, <3>1
    <3> QED BY <3>1, <3>2 DEF Taken
  <2>2. CASE ~Taken(Q)
    <3>1. Q = P /\ searchers' = Append(searchers, P)
      BY <1>3, <2>2 DEF IInv, Tables
    <3>2. Len(searchers) + 1 \in DOMAIN searchers' /\ searchers'[Len(searchers) + 1] = P
      BY <1>1, <3>1
    <3> QED BY <3>1, <3>2 DEF Taken
  <2> QED BY <2>1, <2>2
<1> QED BY <1>4, <1>5, <1>6, <1>7, <1>8 DEF Tables

LEMMA RequirePluginStep ==
    ASSUME IInv, NEW P \in Plugins, RequirePlugin(P)
    PROVE  IInv'
<1>1. /\ Register(P) /\ Call(InitFile(P), NoName) /\ active' = active \cup {P}
      /\ loaded' = loaded
  BY DEF RequirePlugin
<1>2. path' \in Seq(Dirs) /\ searchers' \in Seq(Plugins) /\ Tables'
  BY <1>1, RegisterLemma
<1>3. InitFile(P) \in File /\ InitFile(P)[1] = P
  BY DEF File, InitFile
<1>4. stack' \in Seq(Frame) /\ Calls'
  BY <1>1, <1>3, CallLemma
<1>5. active' \subseteq Plugins /\ loaded' \in [Names -> File \cup {Missing}]
  BY <1>1 DEF IInv, TypeOK
<1>6. Kept'
  BY <1>1, SourceStays DEF IInv, Kept
<1> QED BY <1>2, <1>4, <1>5, <1>6 DEF IInv, TypeOK

LEMMA SameSource ==
    ASSUME active' = active
    PROVE  /\ Known' = Known
           /\ Tables /\ UNCHANGED <<path, searchers>> => Tables'
           /\ Kept /\ loaded' = loaded => Kept'
  BY DEF Known, Tables, Taken, Listed, Kept

LEMMA NestedCallStep ==
    ASSUME IInv, UNCHANGED <<path, searchers, loaded, active>>,
           stack' \in Seq(Frame), Calls'
    PROVE  IInv'
  BY SameSource DEF IInv, TypeOK

LEMMA ReturnStep ==
    ASSUME IInv, Return
    PROVE  IInv'
<1> DEFINE call == stack[Len(stack)]
<1>1. /\ stack # <<>> /\ stack' = SubSeq(stack, 1, Len(stack) - 1)
      /\ UNCHANGED <<path, searchers, active>> /\ stack \in Seq(Frame)
      /\ loaded \in [Names -> File \cup {Missing}]
  BY DEF Return, IInv, TypeOK
<1>2. Len(stack) \in DOMAIN stack /\ call \in Frame
  BY <1>1
<1>3. stack' \in Seq(Frame) /\ \A i \in DOMAIN stack' : i \in DOMAIN stack /\ stack'[i] = stack[i]
  BY <1>1
<1>4. Calls'
  BY <1>1, <1>3 DEF IInv, Calls, Known
<1>5. CASE loaded' = loaded
  BY <1>1, <1>3, <1>4, <1>5, NestedCallStep
<1>6. CASE call.as # NoName /\ loaded' = [loaded EXCEPT ![call.as] = call.file]
  <2>1. call.as \in Names /\ call.file \in File /\ Source(call.as, call.file, active)
    BY <1>2, <1>6 DEF IInv, Calls, Frame
  <2>2. loaded' \in [Names -> File \cup {Missing}]
    BY <1>1, <1>6, <2>1
  <2>3. ASSUME NEW n \in Names, loaded'[n] # Missing PROVE Source(n, loaded'[n], active')
    BY <1>1, <1>6, <2>1, <2>3 DEF IInv, Kept
  <2>4. Kept'
    BY <2>3 DEF Kept
  <2> QED BY <1>1, <1>3, <1>4, <2>2, <2>4, SameSource DEF IInv, TypeOK
<1> QED BY <1>1, <1>5, <1>6 DEF Return

LEMMA NextIInv == IInv /\ [Next]_vars => IInv'
<1> SUFFICES ASSUME IInv, [Next]_vars PROVE IInv'
  OBVIOUS
<1>1. CASE \E P \in Plugins : RequirePlugin(P)
  BY <1>1, RequirePluginStep
<1>2. ASSUME NEW P \in Plugins, CallPlugin(P) PROVE IInv'
  <2>1. /\ P \in active /\ Call(InitFile(P), NoName)
        /\ UNCHANGED <<path, searchers, loaded, active>>
    BY <1>2 DEF CallPlugin
  <2>2. InitFile(P) \in File /\ InitFile(P)[1] = P
    BY DEF File, InitFile
  <2> QED BY <2>1, <2>2, CallLemma, NestedCallStep
<1>3. ASSUME NEW n \in Names, Require(n) PROVE IInv'
  <2>1. /\ Found(n) # Missing /\ Call(Found(n), n)
        /\ UNCHANGED <<path, searchers, loaded, active>>
    BY <1>3 DEF Require
  <2>2. Found(n) \in File /\ Source(n, Found(n), active) /\ Found(n)[1] \in Known
    BY <2>1, FoundLemma, SourceKnown
  <2>3. stack' \in Seq(Frame) /\ Calls'
    BY <2>1, <2>2, CallLemma DEF Known
  <2> QED BY <2>1, <2>3, NestedCallStep
<1>4. CASE Return
  BY <1>4, ReturnStep
<1>5. CASE UNCHANGED vars
  BY <1>5 DEF vars, IInv, TypeOK, Tables, Taken, Listed, Kept, Calls, Known
<1> QED BY <1>1, <1>2, <1>3, <1>4, <1>5 DEF Next

(***************************************************************************)
(* Theorems                                                                *)
(***************************************************************************)
\* A plugin whose code runs was required.
LEMMA RunsLemma ==
    ASSUME IInv, NEW P \in Plugins, Runs(P)
    PROVE  P \in active /\ Within(P)
<1>1. Len(stack) \in DOMAIN stack /\ stack[Len(stack)].file[1] = P
  <2>1. stack \in Seq(Frame) /\ stack # <<>>
    BY DEF Runs, IInv, TypeOK
  <2>2. Len(stack) \in DOMAIN stack
    BY <2>1, LastLemma
  <2> QED BY <2>2 DEF Runs
<1>2. P \in Known /\ P \notin Libs
  BY <1>1, ResolverAssumption DEF IInv, Calls
<1> QED BY <1>1, <1>2 DEF Known, Within

LEMMA OwnLemma ==
    ASSUME IInv, NEW P \in Plugins, NEW m, Runs(P), <<P, "", m>> \in Modules,
           <<Ns[P], m>> \in Names,
           ~\E Q \in active \ {P} : Ns[Q] = Ns[P],
           ~\E X \in active \cup Libs : <<X, Ns[P], m>> \in Modules
    PROVE  Found(<<Ns[P], m>>) = <<P, "", m>>
<1> DEFINE name == <<Ns[P], m>>
<1>1. name[1] = Ns[P] /\ name[2] = m /\ name[1] # "" /\ name \in Names
  BY ResolverAssumption
<1>2. P \in active /\ Within(P)
  BY RunsLemma
<1>3. ASSUME NEW Q \in active, Ns[Q] = Ns[P] PROVE Q = P
  BY <1>3
<1> HIDE DEF name
<1>4. InPlugin(P, name) = <<P, "", m>> /\ <<P, "", m>> \in File
  BY <1>1 DEF InPlugin, File
<1>5. CASE loaded[name] # Missing
  <2>1. Source(name, loaded[name], active)
    BY <1>1, <1>5 DEF IInv, Kept
  <2> QED BY <1>1, <1>3, <1>5, <2>1 DEF Source, Known, Found, name
<1>6. ByPath(name) = Missing
  BY <1>1, ByPathLemma DEF Known
<1>7. CASE loaded[name] = Missing
  <2>1. PICK i \in DOMAIN searchers : searchers[i] = P
    BY <1>2, <1>3 DEF IInv, Tables, Taken
  <2>2. ByNamespace(name) # Missing
    BY <1>2, <1>4, <2>1, ByNamespaceLemma
  <2>3. PICK Q \in active : InPlugin(Q, name) \in File /\ ByNamespace(name) = InPlugin(Q, name)
    BY <2>2, ByNamespaceLemma
  <2>4. Ns[Q] = Ns[P]
    BY <1>1, <2>3, MissingNotFile DEF InPlugin
  <2>5. ByNamespace(name) = <<P, "", m>>
    BY <1>3, <1>4, <2>3, <2>4
  <2> QED BY <1>6, <1>7, <2>5 DEF Found, name
<1> QED BY <1>5, <1>7

LEMMA BareLemma ==
    ASSUME IInv, NEW P \in Plugins, NEW m, Runs(P), <<P, "", m>> \in Modules,
           <<"", m>> \in Names,
           ~\E X \in (active \cup Libs) \ {P} : <<X, "", m>> \in Modules,
           ~\E Q \in active : Ns[Q] = m \/ <<Q, P>> \in Covers
    PROVE  Found(<<"", m>>) = <<P, "", m>>
<1> DEFINE name == <<"", m>>
<1>1. name[1] = "" /\ name[2] = m /\ name \in Names
  OBVIOUS
<1>2. P \in active
  BY RunsLemma
<1>3. active \subseteq Plugins /\ \A Q \in active : Ns[Q] # ""
  BY ResolverAssumption DEF IInv, TypeOK
<1> HIDE DEF name
<1>4. CASE loaded[name] # Missing
  <2>1. Source(name, loaded[name], active)
    BY <1>1, <1>4 DEF IInv, Kept
  <2>2. PICK X \in active \cup Libs : loaded[name] = <<X, "", m>> /\ <<X, "", m>> \in Modules
    BY <1>1, <1>3, <2>1 DEF Source
  <2>3. X = P
    BY <2>2
  <2> QED BY <1>4, <2>2, <2>3 DEF Found, name
<1>5. CASE loaded[name] = Missing
  <2>1. PICK i \in DOMAIN path : path[i] = P \/ <<path[i], P>> \in Covers
    BY <1>2 DEF IInv, Tables, Listed
  <2>2. path[i] = P
    <3>1. path[i] \in Known
      BY DEF IInv, Tables
    <3>2. <<path[i], P>> \in Covers => path[i] \in Plugins /\ path[i] \notin Libs
      BY ResolverAssumption
    <3> QED BY <2>1, <3>1, <3>2 DEF Known
  <2>3. ByPath(name) # Missing
    BY <1>1, <2>2, ByPathLemma
  <2>4. PICK X \in Known : ByPath(name) = <<X, "", m>> /\ <<X, "", m>> \in Modules
    BY <1>1, <2>3, ByPathLemma
  <2>5. X = P
    BY <2>4 DEF Known
  <2> QED BY <1>5, <2>3, <2>4, <2>5 DEF Found, name
<1> QED BY <1>4, <1>5

\* Every variable of the resolver keeps its type.
THEOREM TypeCorrect == Spec => []TypeOK
<1>1. IInv => TypeOK
  BY DEF IInv
<1> QED BY <1>1, InitIInv, NextIInv, PTL DEF Spec

\* Whatever the plugins are called, wherever they lie, and in whatever order modules are
\* required, loaded and called: the searchers, first come first served, give a plugin its
\* own module for its own namespace, but for the two cases that are named.
THEOREM OwnAlwaysByNamespace == Spec => []OwnByNamespace
<1>1. IInv => OwnByNamespace
  BY OwnLemma DEF OwnByNamespace
<1> QED BY <1>1, InitIInv, NextIInv, PTL DEF Spec

\* And for its bare name, whoever was required first, but for the three that are named:
\* without them every directory is in the path, and none has another file of that name.
THEOREM OwnAlwaysByBareName == Spec => []OwnByBareName
<1>1. IInv => OwnByBareName
  BY BareLemma DEF OwnByBareName
<1> QED BY <1>1, InitIInv, NextIInv, PTL DEF Spec
=============================================================================
