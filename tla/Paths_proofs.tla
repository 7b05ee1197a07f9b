---------------------------- MODULE Paths_proofs ----------------------------
(***************************************************************************)
(* Theorems about Paths, for any names, any tree of directories and any    *)
(* bounds.  What a path gives is computed segment by segment; the facts    *)
(* about it are proved by induction on the number of segments, with the    *)
(* sets of numbers of which a fact holds.                                  *)
(***************************************************************************)
EXTENDS Paths, SequenceTheorems, WellFoundedInduction, TLAPS

(***************************************************************************)
(* Induction up to a number, and recursive functions                       *)
(***************************************************************************)
LEMMA Least ==
    ASSUME NEW S \in SUBSET Nat, S # {}
    PROVE  \E i \in S : \A j \in S : i <= j
<1> DEFINE R == {ss \in Nat \X Nat : ss[1] < ss[2]}
<1>1. IsWellFoundedOn(R, Nat)
  BY NatLessThanWellFounded DEF OpToRel
<1>2. \E x \in S : \A y \in S : ~(<<y, x>> \in R)
  <2> HIDE DEF R
  <2> QED BY <1>1, WFMin
<1>3. PICK x \in S : \A y \in S : ~(<<y, x>> \in R)
  BY <1>2
<1>4. ASSUME NEW y \in S PROVE x <= y
  <2>1. <<y, x>> \in Nat \X Nat /\ ~(<<y, x>> \in R)
    BY <1>3
  <2>2. ~(y < x)
    BY <2>1
  <2> QED BY <2>2
<1> QED BY <1>4

\* What holds of 0 and is handed on from n - 1 to n holds up to N.
LEMMA UpTo ==
    ASSUME NEW N \in Nat, NEW S, 0 \in S, \A n \in 1 .. N : n - 1 \in S => n \in S
    PROVE  \A n \in 0 .. N : n \in S
<1> DEFINE Bad == {n \in 0 .. N : n \notin S}
<1> SUFFICES ASSUME Bad # {} PROVE FALSE
  OBVIOUS
<1>0. Bad \in SUBSET Nat
  OBVIOUS
<1>1. PICK i \in Bad : \A j \in Bad : i <= j
  <2> HIDE DEF Bad
  <2> QED BY <1>0, Least
<1>2. i \in 1 .. N /\ i - 1 \in 0 .. N /\ i - 1 \notin Bad
  BY <1>1
<1> QED BY <1>1, <1>2

\* A function defined from 0 to N by a step exists.
Trace(f, N, V, base, step) ==
    f \in [0 .. N -> V] /\ f[0] = base /\ \A n \in 1 .. N : f[n] = step[n][f[n - 1]]

LEMMA Recursion ==
    ASSUME NEW N \in Nat, NEW V, NEW base \in V, NEW step \in [1 .. N -> [V -> V]]
    PROVE  \E f : Trace(f, N, V, base, step)
<1> DEFINE Good(m, f) == f[0] = base /\ \A n \in 1 .. m : f[n] = step[n][f[n - 1]]
           S == {m \in 0 .. N : \E f \in [0 .. m -> V] : Good(m, f)}
<1>1. 0 \in S
  <2> DEFINE g == [i \in 0 .. 0 |-> base]
  <2>1. g \in [0 .. 0 -> V] /\ g[0] = base /\ 1 .. 0 = {}
    OBVIOUS
  <2> HIDE DEF g
  <2>2. Good(0, g)
    BY <2>1
  <2> QED BY <2>1, <2>2
<1>2. ASSUME NEW m \in 1 .. N, m - 1 \in S PROVE m \in S
  <2>1. PICK f \in [0 .. m - 1 -> V] : Good(m - 1, f)
    BY <1>2
  <2>2. m - 1 \in 0 .. m - 1 /\ f[m - 1] \in V
    BY <2>1
  <2> DEFINE v == step[m][f[m - 1]]
             g == [i \in 0 .. m |-> IF i = m THEN v ELSE f[i]]
  <2>3. v \in V
    BY <2>2
  <2> HIDE DEF v
  <2>4. g \in [0 .. m -> V] /\ g[m] = v /\ \A i \in 0 .. m - 1 : g[i] = f[i]
    BY <2>3
  <2> HIDE DEF g
  <2>5. g[0] = base
    BY <2>1, <2>4
  <2>6. ASSUME NEW n \in 1 .. m PROVE g[n] = step[n][g[n - 1]]
    <3>1. n - 1 \in 0 .. m - 1 /\ g[n - 1] = f[n - 1]
      BY <2>4
    <3>2. CASE n = m
      BY <2>4, <3>1, <3>2 DEF v
    <3>3. CASE n \in 1 .. m - 1
      BY <2>1, <2>4, <3>1, <3>3
    <3> QED BY <3>2, <3>3
  <2> QED BY <2>4, <2>5, <2>6
<1>3. \A m \in 1 .. N : m - 1 \in S => m \in S
  BY <1>2
<1> HIDE DEF S
<1>4. \A m \in 0 .. N : m \in S
  BY <1>1, <1>3, UpTo
<1>5. N \in S
  BY <1>4
<1> QED BY <1>5 DEF S, Trace

\* Two functions that start alike and go on alike are alike.
LEMMA SameSteps ==
    ASSUME NEW N \in Nat, NEW f, NEW g, f[0] = g[0],
           \A n \in 1 .. N : f[n - 1] = g[n - 1] => f[n] = g[n]
    PROVE  f[N] = g[N]
<1> DEFINE S == {n \in 0 .. N : f[n] = g[n]}
<1>1. 0 \in S
  OBVIOUS
<1>2. \A n \in 1 .. N : n - 1 \in S => n \in S
  OBVIOUS
<1> HIDE DEF S
<1>3. N \in S
  BY <1>1, <1>2, UpTo
<1> QED BY <1>3 DEF S

(***************************************************************************)
(* Types                                                                   *)
(***************************************************************************)
Segments == Parts \cup {Root}

\* A path has the root nowhere but in front.
PathSet == {p \in Seq(Segments) : \A i \in 2 .. Len(p) : p[i] # Root}

Dir == Seq(Names)

\* Where there is a directory, there is the one it is in.
Trees == {ds \in SUBSET Dir : <<>> \in ds /\ \A d \in ds \ {<<>>} : Front(d) \in ds}

LEMMA NamesFacts ==
    /\ \A n \in Names : n \notin {"", ".", "..", Root, "nowhere"}
    /\ Nowhere \notin Dir
    /\ Root \notin Parts
<1>1. \A n \in Names : n \notin {"", ".", "..", Root, "nowhere"}
  BY PathsAssumption DEF Root
<1>2. Root \notin Parts
  BY <1>1 DEF Parts, Root
<1>3. Nowhere \notin Dir
  <2> SUFFICES ASSUME Nowhere \in Dir PROVE FALSE
    OBVIOUS
  <2>1. Nowhere[1] \in Names
    BY DEF Nowhere, Dir
  <2> QED BY <1>1, <2>1 DEF Nowhere
<1> QED BY <1>1, <1>2, <1>3

LEMMA FrontFacts ==
    ASSUME NEW T, NEW s \in Seq(T), s # <<>>
    PROVE  /\ Len(s) \in Nat \ {0}
           /\ Front(s) \in Seq(T) /\ Len(Front(s)) = Len(s) - 1
           /\ \A i \in 1 .. Len(s) - 1 : Front(s)[i] = s[i]
           /\ Last(s) = s[Len(s)] /\ Last(s) \in T
           /\ s = Append(Front(s), Last(s))
<1>1. Len(s) \in Nat \ {0} /\ \A i \in 1 .. Len(s) : s[i] \in T
  BY EmptySeq, ElementOfSeq
<1>2. \A i \in 1 .. Len(s) - 1 : s[i] \in T
  BY <1>1
<1>3. /\ Front(s) \in Seq(T) /\ Len(Front(s)) = Len(s) - 1
      /\ \A i \in 1 .. Len(s) - 1 : Front(s)[i] = s[i]
  <2> DEFINE m == Len(s) - 1
  <2>1. m \in Int /\ 1 \in Int /\ \A i \in 1 .. m : s[i] \in T
    BY <1>1, <1>2
  <2> HIDE DEF m
  <2>2. /\ SubSeq(s, 1, m) \in Seq(T)
        /\ Len(SubSeq(s, 1, m)) = IF 1 <= m THEN m - 1 + 1 ELSE 0
        /\ \A i \in 1 .. m - 1 + 1 : SubSeq(s, 1, m)[i] = s[1 + i - 1]
    BY <2>1, SubSeqProperties
  <2>3. Front(s) = SubSeq(s, 1, m) /\ m = Len(s) - 1
    BY DEF Front, m
  <2> QED BY <1>1, <2>1, <2>2, <2>3
<1>4. Last(s) = s[Len(s)] /\ Last(s) \in T
  BY <1>1 DEF Last
<1>5. s = Append(Front(s), Last(s))
  <2>1. /\ Append(Front(s), Last(s)) \in Seq(T) /\ Len(Append(Front(s), Last(s))) = Len(s)
        /\ \A i \in 1 .. Len(s) - 1 : Append(Front(s), Last(s))[i] = Front(s)[i]
        /\ Append(Front(s), Last(s))[Len(s)] = Last(s)
    BY <1>1, <1>3, <1>4, AppendProperties
  <2>2. \A i \in 1 .. Len(s) : s[i] = Append(Front(s), Last(s))[i]
    BY <1>1, <1>3, <1>4, <2>1
  <2> QED BY <2>1, <2>2, SeqEqual
<1> QED BY <1>1, <1>3, <1>4, <1>5

LEMMA AppendFront ==
    ASSUME NEW T, NEW s \in Seq(T), NEW x \in T
    PROVE  /\ Append(s, x) \in Seq(T) /\ Append(s, x) # <<>> /\ Len(Append(s, x)) = Len(s) + 1
           /\ Front(Append(s, x)) = s /\ Last(Append(s, x)) = x
<1>1. /\ Append(s, x) \in Seq(T) /\ Len(Append(s, x)) = Len(s) + 1 /\ Append(s, x) # <<>>
      /\ \A i \in 1 .. Len(s) : Append(s, x)[i] = s[i]
      /\ Append(s, x)[Len(s) + 1] = x /\ Len(s) \in Nat
  BY AppendProperties, LenProperties
<1>2. /\ Front(Append(s, x)) \in Seq(T) /\ Len(Front(Append(s, x))) = Len(s)
      /\ \A i \in 1 .. Len(s) : Front(Append(s, x))[i] = s[i]
  <2> DEFINE u == Append(s, x)
  <2>1. u \in Seq(T) /\ u # <<>> /\ Len(u) - 1 = Len(s)
    BY <1>1
  <2>2. \A i \in 1 .. Len(s) : u[i] = s[i]
    BY <1>1
  <2> HIDE DEF u
  <2>3. /\ Front(u) \in Seq(T) /\ Len(Front(u)) = Len(s)
        /\ \A i \in 1 .. Len(s) : Front(u)[i] = u[i]
    BY <2>1, FrontFacts
  <2> QED BY <2>2, <2>3 DEF u
<1>3. Front(Append(s, x)) = s
  BY <1>2, SeqEqual
<1> QED BY <1>1, <1>3 DEF Last

\* Sequences of one and of two.
LEMMA One ==
    ASSUME NEW T, NEW x \in T
    PROVE  /\ <<x>> \in Seq(T) /\ Len(<<x>>) = 1 /\ <<x>>[1] = x /\ Head(<<x>>) = x
           /\ <<x>> # <<>> /\ Front(<<x>>) = <<>> /\ Last(<<x>>) = x
<1>1. /\ <<x>> \in Seq(T) /\ Len(<<x>>) = 1 /\ <<x>>[1] = x /\ Head(<<x>>) = x
      /\ <<x>> # <<>> /\ <<x>> = Append(<<>>, x) /\ <<>> \in Seq(T)
  OBVIOUS
<1>2. Front(Append(<<>>, x)) = <<>> /\ Last(Append(<<>>, x)) = x
  BY <1>1, AppendFront
<1> QED BY <1>1, <1>2

LEMMA Two ==
    ASSUME NEW T, NEW x \in T, NEW y \in T
    PROVE  /\ <<x, y>> \in Seq(T) /\ Len(<<x, y>>) = 2 /\ Head(<<x, y>>) = x
           /\ <<x, y>> # <<>> /\ <<x, y>> # <<x>>
           /\ Front(<<x, y>>) = <<x>> /\ Last(<<x, y>>) = y
<1>1. /\ <<x, y>> \in Seq(T) /\ Len(<<x, y>>) = 2 /\ Head(<<x, y>>) = x
      /\ <<x, y>> # <<>> /\ <<x, y>> # <<x>>
      /\ <<x, y>> = Append(<<x>>, y) /\ <<x>> \in Seq(T)
  OBVIOUS
<1>2. Front(Append(<<x>>, y)) = <<x>> /\ Last(Append(<<x>>, y)) = y
  BY <1>1, AppendFront
<1> QED BY <1>1, <1>2

\* The first segments of a sequence.
LEMMA FirstOnes ==
    ASSUME NEW T, NEW s \in Seq(T), NEW n \in 0 .. Len(s)
    PROVE  /\ SubSeq(s, 1, n) \in Seq(T) /\ Len(SubSeq(s, 1, n)) = n
           /\ \A i \in 1 .. n : SubSeq(s, 1, n)[i] = s[i]
           /\ n > 0 => /\ Front(SubSeq(s, 1, n)) = SubSeq(s, 1, n - 1)
                       /\ Last(SubSeq(s, 1, n)) = s[n] /\ SubSeq(s, 1, n) # <<>>
                       /\ SubSeq(s, 1, n) = Append(SubSeq(s, 1, n - 1), s[n])
<1>1. Len(s) \in Nat /\ \A i \in 1 .. Len(s) : s[i] \in T
  BY LenProperties, ElementOfSeq
<1>2. ASSUME NEW m \in 0 .. Len(s)
      PROVE  /\ SubSeq(s, 1, m) \in Seq(T) /\ Len(SubSeq(s, 1, m)) = m
             /\ \A i \in 1 .. m : SubSeq(s, 1, m)[i] = s[i]
  <2>1. \A i \in 1 .. m : s[i] \in T
    BY <1>1
  <2>2. /\ SubSeq(s, 1, m) \in Seq(T) /\ Len(SubSeq(s, 1, m)) = IF 1 <= m THEN m - 1 + 1 ELSE 0
        /\ \A i \in 1 .. m - 1 + 1 : SubSeq(s, 1, m)[i] = s[1 + i - 1]
    BY <1>1, <2>1, SubSeqProperties
  <2> QED BY <1>1, <2>2
<1>3. ASSUME n > 0
      PROVE  /\ Front(SubSeq(s, 1, n)) = SubSeq(s, 1, n - 1)
             /\ Last(SubSeq(s, 1, n)) = s[n] /\ SubSeq(s, 1, n) # <<>>
  <2>1. SubSeq(s, 1, n) # <<>> /\ Last(SubSeq(s, 1, n)) = s[n]
    BY <1>1, <1>2, <1>3, EmptySeq DEF Last
  <2>2. n - 1 \in 0 .. Len(s)
    BY <1>1, <1>3
  <2>3. /\ SubSeq(s, 1, n - 1) \in Seq(T) /\ Len(SubSeq(s, 1, n - 1)) = n - 1
        /\ \A i \in 1 .. n - 1 : SubSeq(s, 1, n - 1)[i] = s[i]
    BY <1>2, <2>2
  <2>4. /\ Front(SubSeq(s, 1, n)) \in Seq(T) /\ Len(Front(SubSeq(s, 1, n))) = n - 1
        /\ \A i \in 1 .. n - 1 : Front(SubSeq(s, 1, n))[i] = s[i]
    <3> DEFINE u == SubSeq(s, 1, n)
    <3>1. u \in Seq(T) /\ u # <<>> /\ Len(u) = n /\ \A i \in 1 .. n : u[i] = s[i]
      BY <1>2, <2>1
    <3> HIDE DEF u
    <3>2. /\ Front(u) \in Seq(T) /\ Len(Front(u)) = n - 1
          /\ \A i \in 1 .. n - 1 : Front(u)[i] = u[i]
      BY <3>1, FrontFacts
    <3> QED BY <3>1, <3>2 DEF u
  <2>5. Front(SubSeq(s, 1, n)) = SubSeq(s, 1, n - 1)
    BY <2>3, <2>4, SeqEqual
  <2> QED BY <2>1, <2>5
<1>4. n > 0 => SubSeq(s, 1, n) = Append(SubSeq(s, 1, n - 1), s[n])
  BY <1>2, <1>3, FrontFacts
<1> QED BY <1>2, <1>3, <1>4

(***************************************************************************)
(* Walk, one part after the other                                          *)
(***************************************************************************)
Place == Dir \cup {Nowhere}

LEMMA LookType ==
    ASSUME NEW ds \in SUBSET Dir, NEW d \in Place, NEW part \in Parts
    PROVE  Look(ds, d, part) \in Place
<1>1. CASE d = Nowhere \/ part \in {"", "."}
  BY <1>1 DEF Look
<1>2. CASE d # Nowhere /\ part = ".."
  <2>1. d \in Dir /\ (d # <<>> => Front(d) \in Dir)
    BY <1>2, FrontFacts DEF Place, Dir
  <2> QED BY <1>2, <2>1 DEF Look, Parent, Place
<1>3. CASE d # Nowhere /\ part \notin {"", ".", ".."}
  BY <1>3 DEF Look, Place
<1> QED BY <1>1, <1>2, <1>3

LEMMA WalkTrace ==
    ASSUME NEW ds \in SUBSET Dir, NEW from \in Place, NEW t \in Seq(Parts)
    PROVE  \E f \in [0 .. Len(t) -> Place] :
             /\ f[0] = from /\ Walk(ds, from, t) = f[Len(t)]
             /\ \A n \in 1 .. Len(t) : f[n] = Look(ds, f[n - 1], t[n])
<1> DEFINE N == Len(t)
           step == [n \in 1 .. N |-> [d \in Place |-> Look(ds, d, t[n])]]
<1>1. N \in Nat /\ \A n \in 1 .. N : t[n] \in Parts
  BY LenProperties, ElementOfSeq
<1>2. step \in [1 .. N -> [Place -> Place]]
  BY <1>1, LookType
<1>3. \A n \in 1 .. N, d \in Place : step[n][d] = Look(ds, d, t[n])
  OBVIOUS
<1> HIDE DEF N, step
<1>4. PICK f : Trace(f, N, Place, from, step)
  <2>1. N \in Nat /\ from \in Place
    BY <1>1
  <2> QED BY <1>2, <2>1, Recursion
<1>5. ASSUME NEW n \in 1 .. N PROVE n - 1 \in 0 .. N /\ f[n] = Look(ds, f[n - 1], t[n])
  <2>1. n - 1 \in 0 .. N
    BY <1>1
  <2>2. f[n - 1] \in Place
    BY <1>4, <2>1 DEF Trace
  <2> QED BY <1>3, <1>4, <2>1, <2>2 DEF Trace
<1> DEFINE Rule(g) == [n \in 0 .. N |-> IF n = 0 THEN from ELSE Look(ds, g[n - 1], t[n])]
           at == CHOOSE g : g = Rule(g)
<1>6. f = Rule(f)
  BY <1>1, <1>4, <1>5 DEF Trace
<1>7. at = Rule(at)
  <2> HIDE DEF Rule
  <2> QED BY <1>6
<1>8. Walk(ds, from, t) = at[N]
  BY DEF Walk, N
<1>9. /\ at[0] = from
      /\ \A n \in 1 .. N : at[n] = Look(ds, at[n - 1], t[n])
  <2> HIDE DEF at
  <2> QED BY <1>1, <1>7
<1> HIDE DEF at
<1>10. at[N] = f[N]
  <2>1. N \in Nat /\ at[0] = f[0]
    BY <1>1, <1>4, <1>9 DEF Trace
  <2>2. \A n \in 1 .. N : at[n - 1] = f[n - 1] => at[n] = f[n]
    BY <1>5, <1>9
  <2> QED BY <2>1, <2>2, SameSteps
<1> QED BY <1>4, <1>5, <1>8, <1>10 DEF N, Trace

LEMMA WalkNext ==
    ASSUME NEW ds \in SUBSET Dir, NEW from \in Place, NEW t \in Seq(Parts)
    PROVE  /\ Walk(ds, from, t) \in Place
           /\ t = <<>> => Walk(ds, from, t) = from
           /\ t # <<>> => Walk(ds, from, t) = Look(ds, Walk(ds, from, Front(t)), Last(t))
<1>1. PICK f \in [0 .. Len(t) -> Place] :
        /\ f[0] = from /\ Walk(ds, from, t) = f[Len(t)]
        /\ \A n \in 1 .. Len(t) : f[n] = Look(ds, f[n - 1], t[n])
  BY WalkTrace
<1>2. Len(t) \in Nat /\ Len(<<>>) = 0
  BY LenProperties
<1>3. ASSUME t # <<>> PROVE Walk(ds, from, t) = Look(ds, Walk(ds, from, Front(t)), Last(t))
  <2> DEFINE u == Front(t)
             N == Len(u)
  <2>1. /\ u \in Seq(Parts) /\ N = Len(t) - 1 /\ N \in Nat
        /\ \A i \in 1 .. N : u[i] = t[i]
        /\ Last(t) = t[N + 1]
    BY <1>3, FrontFacts
  <2>2. PICK g \in [0 .. N -> Place] :
          /\ g[0] = from /\ Walk(ds, from, u) = g[N]
          /\ \A n \in 1 .. N : g[n] = Look(ds, g[n - 1], u[n])
    BY <2>1, WalkTrace
  <2> HIDE DEF u, N
  <2>3. \A n \in 1 .. N : f[n - 1] = g[n - 1] => f[n] = g[n]
    BY <1>1, <2>1, <2>2
  <2>4. f[N] = g[N]
    <3>1. N \in Nat /\ f[0] = g[0]
      BY <1>1, <2>1, <2>2
    <3> QED BY <2>3, <3>1, SameSteps
  <2>5. N + 1 \in 1 .. Len(t) /\ (N + 1) - 1 = N
    BY <2>1
  <2>6. f[N + 1] = Look(ds, f[N], t[N + 1])
    BY <1>1, <2>5
  <2> QED BY <1>1, <2>1, <2>2, <2>4, <2>6 DEF u
<1> QED BY <1>1, <1>2, <1>3

(***************************************************************************)
(* Induction on sequences                                                  *)
(***************************************************************************)
Inherits(T, S) == \A s \in Seq(T) : s # <<>> /\ Front(s) \in S => s \in S

LEMMA SeqInduction ==
    ASSUME NEW T, NEW S, <<>> \in S, Inherits(T, S)
    PROVE  \A s \in Seq(T) : s \in S
<1> TAKE s \in Seq(T)
<1> DEFINE N == Len(s)
           U == {n \in 0 .. N : SubSeq(s, 1, n) \in S}
<1>1. N \in Nat
  BY LenProperties
<1>2. 0 \in U
  <2>1. SubSeq(s, 1, 0) = <<>>
    BY SubSeqEmpty
  <2>2. SubSeq(s, 1, 0) \in S
    BY <2>1, Zenon
  <2>3. 0 \in 0 .. N
    BY <1>1
  <2> QED BY <2>2, <2>3, Zenon
<1>3. \A n \in 1 .. N : n - 1 \in U => n \in U
  <2> SUFFICES ASSUME NEW n \in 1 .. N, n - 1 \in U PROVE n \in U
    OBVIOUS
  <2>1. n \in 0 .. N /\ n > 0
    BY <1>1
  <2>2. SubSeq(s, 1, n) \in Seq(T) /\ SubSeq(s, 1, n) # <<>>
        /\ Front(SubSeq(s, 1, n)) = SubSeq(s, 1, n - 1)
    BY <2>1, FirstOnes
  <2> QED BY <2>1, <2>2 DEF Inherits
<1> HIDE DEF U
<1>4. \A n \in 0 .. N : n \in U
  BY <1>1, <1>2, <1>3, UpTo
<1>5. N \in U
  BY <1>1, <1>4
<1> QED BY <1>5, SubSeqFull DEF U

(***************************************************************************)
(* Where a walk comes                                                      *)
(***************************************************************************)
LEMMA TreeFacts ==
    ASSUME NEW ds \in Trees
    PROVE  ds \in SUBSET Dir /\ <<>> \in ds /\ \A d \in ds : Parent(d) \in ds
  BY DEF Trees, Parent

\* A walk from a directory that is there ends in one, or nowhere.
LEMMA WalkStays ==
    ASSUME NEW ds \in Trees, NEW from \in ds
    PROVE  \A t \in Seq(Parts) : Walk(ds, from, t) \in ds \cup {Nowhere}
<1> DEFINE S == {t \in Seq(Parts) : Walk(ds, from, t) \in ds \cup {Nowhere}}
<1>1. ds \in SUBSET Dir /\ from \in Place
  BY TreeFacts DEF Place
<1>2. <<>> \in S
  <2>1. <<>> \in Seq(Parts)
    BY EmptySeq
  <2> QED BY <1>1, <2>1, WalkNext
<1>3. ASSUME NEW t \in Seq(Parts), t # <<>>, Front(t) \in S PROVE t \in S
  <2> DEFINE d == Walk(ds, from, Front(t))
             part == Last(t)
  <2>1. d \in ds \cup {Nowhere} /\ part \in Parts
    BY <1>3, FrontFacts
  <2>2. Walk(ds, from, t) = Look(ds, d, part)
    BY <1>1, <1>3, WalkNext
  <2> HIDE DEF d, part
  <2>3. Look(ds, d, part) \in ds \cup {Nowhere}
    <3>1. CASE d = Nowhere \/ part \in {"", "."}
      BY <2>1, <3>1 DEF Look
    <3>2. CASE d # Nowhere /\ part = ".."
      BY <2>1, <3>2, TreeFacts DEF Look
    <3>3. CASE d # Nowhere /\ part \notin {"", ".", ".."}
      BY <3>3 DEF Look
    <3> QED BY <3>1, <3>2, <3>3
  <2> QED BY <2>2, <2>3
<1>4. Inherits(Parts, S)
  BY <1>3 DEF Inherits
<1> HIDE DEF S
<1>5. \A t \in Seq(Parts) : t \in S
  BY <1>2, <1>4, SeqInduction
<1> QED BY <1>5 DEF S

\* A walk that comes somewhere comes there with more directories too.
LEMMA WalkGrows ==
    ASSUME NEW ds \in SUBSET Dir, NEW es \in SUBSET Dir, ds \subseteq es, NEW from \in Place
    PROVE  \A t \in Seq(Parts) :
             Walk(ds, from, t) # Nowhere => Walk(es, from, t) = Walk(ds, from, t)
<1> DEFINE S == {t \in Seq(Parts) :
                   Walk(ds, from, t) # Nowhere => Walk(es, from, t) = Walk(ds, from, t)}
<1>1. <<>> \in S
  <2>1. <<>> \in Seq(Parts)
    BY EmptySeq
  <2>2. Walk(ds, from, <<>>) = from /\ Walk(es, from, <<>>) = from
    BY <2>1, WalkNext
  <2> QED BY <2>1, <2>2
<1>2. ASSUME NEW t \in Seq(Parts), t # <<>>, Front(t) \in S PROVE t \in S
  <2> DEFINE d == Walk(ds, from, Front(t))
             e == Walk(es, from, Front(t))
             part == Last(t)
  <2>1. (d # Nowhere => e = d) /\ part \in Parts
    BY <1>2, FrontFacts
  <2>2. Walk(ds, from, t) = Look(ds, d, part) /\ Walk(es, from, t) = Look(es, e, part)
    BY <1>2, WalkNext
  <2> HIDE DEF d, e, part
  <2>3. Look(ds, d, part) # Nowhere => Look(es, e, part) = Look(ds, d, part)
    <3>1. CASE d = Nowhere
      BY <3>1 DEF Look
    <3>2. CASE d # Nowhere /\ part \in {"", "."}
      BY <2>1, <3>2 DEF Look
    <3>3. CASE d # Nowhere /\ part = ".."
      BY <2>1, <3>3 DEF Look
    <3>4. CASE d # Nowhere /\ part \notin {"", ".", ".."}
      BY <2>1, <3>4 DEF Look
    <3> QED BY <3>1, <3>2, <3>3, <3>4
  <2> QED BY <2>2, <2>3
<1>3. Inherits(Parts, S)
  BY <1>2 DEF Inherits
<1> HIDE DEF S
<1>4. \A t \in Seq(Parts) : t \in S
  BY <1>1, <1>3, SeqInduction
<1> QED BY <1>4 DEF S

(***************************************************************************)
(* The text of a path                                                      *)
(***************************************************************************)
\* A segment as it is written, and what a path is written as but for the empty one and
\* the root alone.
Written(x) == IF x = Root THEN "" ELSE x
Mapped(p) == [i \in DOMAIN p |-> Written(p[i])]

LEMMA WrittenType == \A x \in Segments : Written(x) \in Parts
  BY DEF Written, Segments, Parts

LEMMA MappedFacts ==
    ASSUME NEW p \in Seq(Segments)
    PROVE  /\ Mapped(p) \in Seq(Parts) /\ Len(Mapped(p)) = Len(p)
           /\ \A i \in 1 .. Len(p) : Mapped(p)[i] = Written(p[i])
           /\ p = <<>> => Mapped(p) = <<>>
           /\ p # <<>> => /\ Mapped(p) # <<>>
                          /\ Front(Mapped(p)) = Mapped(Front(p))
                          /\ Last(Mapped(p)) = Written(Last(p))
<1>1. Len(p) \in Nat /\ DOMAIN p = 1 .. Len(p) /\ \A i \in 1 .. Len(p) : p[i] \in Segments
  BY LenProperties, ElementOfSeq
<1>2. ASSUME NEW q \in Seq(Segments)
      PROVE  /\ Mapped(q) \in Seq(Parts) /\ Len(Mapped(q)) = Len(q)
             /\ \A i \in 1 .. Len(q) : Mapped(q)[i] = Written(q[i])
  <2>1. Len(q) \in Nat /\ DOMAIN q = 1 .. Len(q) /\ \A i \in 1 .. Len(q) : q[i] \in Segments
    BY LenProperties, ElementOfSeq
  <2>2. Mapped(q) = [i \in 1 .. Len(q) |-> Written(q[i])]
    BY <2>1 DEF Mapped
  <2>3. Mapped(q) \in [1 .. Len(q) -> Parts]
    BY <2>1, <2>2, WrittenType
  <2>4. Mapped(q) \in Seq(Parts)
    BY <2>1, <2>3, SeqDef
  <2>5. Len(Mapped(q)) = Len(q)
    BY <2>1, <2>3, <2>4, LenProperties
  <2> QED BY <2>2, <2>4, <2>5
<1>3. p = <<>> => Mapped(p) = <<>>
  BY <1>2, EmptySeq
<1>4. ASSUME p # <<>>
      PROVE  /\ Mapped(p) # <<>>
             /\ Front(Mapped(p)) = Mapped(Front(p))
             /\ Last(Mapped(p)) = Written(Last(p))
  <2>1. /\ Len(p) \in Nat \ {0} /\ Front(p) \in Seq(Segments) /\ Len(Front(p)) = Len(p) - 1
        /\ \A i \in 1 .. Len(p) - 1 : Front(p)[i] = p[i]
        /\ Last(p) = p[Len(p)]
    BY <1>4, FrontFacts
  <2> DEFINE m == Mapped(p)
             f == Mapped(Front(p))
  <2>2. m \in Seq(Parts) /\ Len(m) = Len(p) /\ \A i \in 1 .. Len(p) : m[i] = Written(p[i])
    BY <1>2
  <2>3. /\ f \in Seq(Parts) /\ Len(f) = Len(p) - 1
        /\ \A i \in 1 .. Len(p) - 1 : f[i] = Written(p[i])
    BY <1>2, <2>1
  <2> HIDE DEF m, f
  <2>4. m # <<>>
    BY <2>1, <2>2, EmptySeq
  <2>5. /\ Front(m) \in Seq(Parts) /\ Len(Front(m)) = Len(p) - 1
        /\ \A i \in 1 .. Len(p) - 1 : Front(m)[i] = m[i]
        /\ Last(m) = m[Len(p)]
    BY <2>2, <2>4, FrontFacts
  <2>6. Front(m) = f
    <3>1. \A i \in 1 .. Len(Front(m)) : Front(m)[i] = f[i]
      BY <2>1, <2>2, <2>3, <2>5
    <3> QED BY <2>3, <2>5, <3>1, SeqEqual
  <2>7. Last(m) = Written(Last(p))
    BY <2>1, <2>2, <2>5
  <2> QED BY <2>4, <2>6, <2>7 DEF m, f
<1> QED BY <1>2, <1>3, <1>4

LEMMA TextFacts ==
    ASSUME NEW p \in Seq(Segments)
    PROVE  path_get_string(p) = IF p = <<>> THEN <<".">>
                                ELSE IF p = <<Root>> THEN <<"", "">> ELSE Mapped(p)
<1>1. p # <<Root>> \/ p # <<>>
  BY EmptySeq
<1>2. <<Root>> # <<>>
  OBVIOUS
<1> QED BY <1>1, <1>2 DEF path_get_string, Mapped, Written

\* Where a path leads, from the root or from a directory.
Start(from, p) == IF Absolute(p) THEN <<>> ELSE from
Reach(ds, from, p) == Walk(ds, Start(from, p), Mapped(p))

LEMMA MappedWalk ==
    ASSUME NEW ds \in SUBSET Dir, NEW from \in Place, NEW p \in Seq(Segments)
    PROVE  /\ Walk(ds, from, Mapped(p)) \in Place
           /\ p = <<>> => Walk(ds, from, Mapped(p)) = from
           /\ p # <<>> => Walk(ds, from, Mapped(p))
                            = Look(ds, Walk(ds, from, Mapped(Front(p))), Written(Last(p)))
<1>1. Mapped(p) \in Seq(Parts)
  BY MappedFacts
<1>2. /\ Walk(ds, from, Mapped(p)) \in Place
      /\ Mapped(p) = <<>> => Walk(ds, from, Mapped(p)) = from
      /\ Mapped(p) # <<>> => Walk(ds, from, Mapped(p))
            = Look(ds, Walk(ds, from, Front(Mapped(p))), Last(Mapped(p)))
  BY <1>1, WalkNext
<1> QED BY <1>2, MappedFacts

\* A text of one part.
LEMMA WalkOne ==
    ASSUME NEW ds \in SUBSET Dir, NEW from \in Place, NEW x \in Parts
    PROVE  Walk(ds, from, <<x>>) = Look(ds, from, x)
<1>1. ASSUME NEW t \in Seq(Parts), t # <<>>, Front(t) = <<>>, Last(t) = x
      PROVE  Walk(ds, from, t) = Look(ds, from, x)
  <2>1. <<>> \in Seq(Parts)
    BY EmptySeq
  <2>2. Walk(ds, from, <<>>) = from
    BY <2>1, WalkNext
  <2>3. Walk(ds, from, t) = Look(ds, Walk(ds, from, Front(t)), Last(t))
    BY <1>1, WalkNext
  <2> QED BY <1>1, <2>2, <2>3
<1> QED BY <1>1, One, Zenon

\* What stat and chdir find under the text of a path.
LEMMA NamedReach ==
    ASSUME NEW ds \in SUBSET Dir, NEW from \in Place, NEW p \in Seq(Segments), FromText(p)
    PROVE  Named(ds, from, path_get_string(p)) = Reach(ds, from, p)
<1>1. "" \in Parts /\ "." \in Parts /\ Root # "" /\ <<>> \in Place
  BY EmptySeq DEF Parts, Root, Place, Dir
<1>2. CASE p = <<>>
  <2>1. path_get_string(p) = <<".">> /\ ~Absolute(p) /\ ~IsFromRoot(<<".">>) /\ <<".">> # <<"">>
    <3>1. Len(<<".">>) = 1 /\ <<".">> # <<"">>
      OBVIOUS
    <3>2. ~(1 > 1)
      OBVIOUS
    <3>3. path_get_string(p) = <<".">>
      BY <1>2, TextFacts, Zenon
    <3> QED BY <1>2, <3>1, <3>2, <3>3, Zenon DEF Absolute, IsFromRoot
  <2>2. Walk(ds, from, <<".">>) = Look(ds, from, ".") /\ Look(ds, from, ".") = from
    BY <1>1, WalkOne DEF Look
  <2>3. Walk(ds, from, Mapped(p)) = from
    BY <1>2, MappedWalk
  <2> QED BY <2>1, <2>2, <2>3 DEF Named, Reach, Start
<1>3. CASE p = <<Root>>
  <2>1. path_get_string(p) = <<"", "">> /\ IsFromRoot(<<"", "">>) /\ <<"", "">> # <<"">>
    <3>1. p # <<>>
      BY <1>3
    <3>2. path_get_string(p) = <<"", "">>
      BY <1>3, <3>1, TextFacts, Zenon
    <3>3. Len(<<"", "">>) = 2 /\ Head(<<"", "">>) = "" /\ <<"", "">> # <<"">>
      BY <1>1, Two, Zenon
    <3>4. 2 > 1
      OBVIOUS
    <3> QED BY <3>2, <3>3, <3>4, Zenon DEF IsFromRoot
  <2>2. Absolute(p)
    BY <1>3 DEF Absolute
  <2>3. Walk(ds, <<>>, <<"", "">>) = <<>>
    <3>1. ASSUME NEW t \in Seq(Parts), t # <<>>, Front(t) = <<"">>, Last(t) = ""
          PROVE  Walk(ds, <<>>, t) = <<>>
      <4>1. Walk(ds, <<>>, t) = Look(ds, Walk(ds, <<>>, Front(t)), Last(t))
        BY <1>1, <3>1, WalkNext
      <4>2. Walk(ds, <<>>, <<"">>) = Look(ds, <<>>, "")
        BY <1>1, WalkOne
      <4> QED BY <3>1, <4>1, <4>2 DEF Look
    <3> QED BY <1>1, <3>1, Two, Zenon
  <2>4. Mapped(p) = <<"">>
    <3>1. Len(p) = 1 /\ p[1] = Root /\ 1 \in 1 .. 1
      BY <1>3
    <3>2. Mapped(p) \in Seq(Parts) /\ Len(Mapped(p)) = 1 /\ Mapped(p)[1] = ""
      BY <3>1, MappedFacts DEF Written
    <3>3. <<"">> \in Seq(Parts) /\ Len(<<"">>) = 1 /\ <<"">>[1] = ""
      BY <1>1, One
    <3>4. \A i \in 1 .. 1 : Mapped(p)[i] = <<"">>[i]
      <4>1. \A i \in 1 .. 1 : i = 1
        OBVIOUS
      <4> QED BY <3>2, <3>3, <4>1, Zenon
    <3> QED BY <3>2, <3>3, <3>4, SeqEqual
  <2>5. Walk(ds, <<>>, <<"">>) = <<>>
    BY <1>1, WalkOne DEF Look
  <2> QED BY <2>1, <2>2, <2>3, <2>4, <2>5 DEF Named, Reach, Start
<1>4. CASE p # <<>> /\ p # <<Root>>
  <2> DEFINE t == Mapped(p)
  <2>1. path_get_string(p) = t
    BY <1>4, TextFacts
  <2>2. Len(p) \in Nat \ {0} /\ Head(p) = p[1] /\ 1 \in 1 .. Len(p)
    BY <1>4, EmptySeq
  <2>3. t \in Seq(Parts) /\ Len(t) = Len(p) /\ t[1] = Written(p[1]) /\ Head(t) = t[1]
    BY <2>2, MappedFacts
  <2>4. p[1] # "" /\ (Absolute(p) <=> p[1] = Root)
    BY <1>4, <2>2 DEF FromText, Absolute
  <2>5. Len(p) = 1 => p[1] # Root
    BY <1>4
  <2>6. t[1] = "" <=> p[1] = Root
    BY <2>3, <2>4 DEF Written
  <2> HIDE DEF t
  <2>7. t # <<"">>
    <3>1. Len(<<"">>) = 1 /\ <<"">>[1] = ""
      OBVIOUS
    <3> QED BY <2>3, <2>5, <2>6, <3>1
  <2>8. IsFromRoot(t) <=> Absolute(p)
    <3>1. Head(t) = "" <=> p[1] = Root
      BY <2>3, <2>6
    <3>2. p[1] = Root => Len(t) > 1
      BY <2>2, <2>3, <2>5
    <3> QED BY <2>4, <3>1, <3>2 DEF IsFromRoot
  <2> QED BY <2>1, <2>7, <2>8 DEF Named, Reach, Start, t
<1> QED BY <1>2, <1>3, <1>4

(***************************************************************************)
(* path_mkdir_p, one segment after the other                               *)
(***************************************************************************)
\* Trees with at least these directories, and whether every mkdir went well.
Makings(ds) == [dirs : {e \in Trees : ds \subseteq e}, ok : BOOLEAN]

\* A directory that is made is made in one that is there, with a name.
LEMMA MakeFacts ==
    ASSUME NEW ds \in Trees, NEW from \in ds, NEW p \in Seq(Segments), p # <<>>,
           Last(p) \notin {Root, ".", ".."}, CanMake(ds, from, path_get_string(p)),
           NEW d, d = Walk(ds, IF IsFromRoot(path_get_string(p)) THEN <<>> ELSE from,
                           Mapped(Front(p)))
    PROVE  /\ d \in ds /\ Last(p) \in Names
           /\ Made(ds, from, path_get_string(p)) = Append(d, Last(p))
           /\ ds \cup {Append(d, Last(p))} \in Trees
<1> DEFINE t == path_get_string(p)
<1>1. t = Mapped(p)
  <2>1. p # <<Root>>
    <3> SUFFICES ASSUME p = <<Root>> PROVE FALSE
      OBVIOUS
    <3>1. Last(<<Root>>) = Root
      BY One DEF Segments
    <3> QED BY <3>1
  <2> QED BY <2>1, TextFacts, Zenon
<1>2. Front(p) \in Seq(Segments) /\ Last(p) \in Segments
  BY FrontFacts
<1>3. Front(t) = Mapped(Front(p)) /\ Last(t) = Last(p) /\ Mapped(Front(p)) \in Seq(Parts)
  BY <1>1, <1>2, MappedFacts DEF Written
<1> HIDE DEF t
<1>4. Last(t) # "" /\ d # Nowhere /\ Made(ds, from, t) = Append(d, Last(p))
  BY <1>3 DEF CanMake, Made, t
<1>5. Last(p) \in Names
  BY <1>2, <1>3, <1>4 DEF Segments, Parts
<1>6. d \in ds
  BY <1>3, <1>4, WalkStays, TreeFacts
<1>7. ds \cup {Append(d, Last(p))} \in Trees
  <2> DEFINE new == Append(d, Last(p))
  <2>1. new \in Dir /\ Front(new) = d
    BY <1>5, <1>6, AppendFront DEF Trees, Dir
  <2> HIDE DEF new
  <2>2. ds \cup {new} \in Trees
    BY <1>6, <2>1 DEF Trees
  <2> QED BY <2>2 DEF new
<1> QED BY <1>4, <1>5, <1>6, <1>7 DEF t

LEMMA MakeOneType ==
    ASSUME NEW ds \in Trees, NEW from \in ds, NEW made \in Makings(ds),
           NEW p \in Seq(Segments), p # <<>>
    PROVE  MakeOne(from, made, p) \in Makings(ds)
<1> DEFINE t == path_get_string(p)
           e == made.dirs
<1>1. e \in Trees /\ ds \subseteq e /\ from \in e /\ made.ok \in BOOLEAN
  BY DEF Makings
<1>2. CASE ~made.ok \/ Last(p) \in {Root, ".", ".."} \/ path_is_dir(e, from, p)
  BY <1>2 DEF MakeOne
<1>3. CASE /\ made.ok /\ Last(p) \notin {Root, ".", ".."} /\ ~path_is_dir(e, from, p)
           /\ CanMake(e, from, t)
  <2>1. e \cup {Made(e, from, t)} \in Trees
    <3> DEFINE d == Walk(e, IF IsFromRoot(t) THEN <<>> ELSE from, Mapped(Front(p)))
    <3> HIDE DEF e
    <3>1. /\ Made(e, from, t) = Append(d, Last(p))
          /\ e \cup {Append(d, Last(p))} \in Trees
      BY <1>1, <1>3, MakeFacts
    <3> QED BY <3>1
  <2>2. MakeOne(from, made, p) = [made EXCEPT !.dirs = e \cup {Made(e, from, t)}]
    BY <1>3 DEF MakeOne
  <2> HIDE DEF e, t
  <2>3. e \cup {Made(e, from, t)} \in {x \in Trees : ds \subseteq x}
    BY <1>1, <2>1
  <2> QED BY <2>2, <2>3 DEF Makings
<1>4. CASE /\ made.ok /\ Last(p) \notin {Root, ".", ".."} /\ ~path_is_dir(e, from, p)
           /\ ~CanMake(e, from, t)
  <2>1. MakeOne(from, made, p) = [made EXCEPT !.ok = FALSE]
    BY <1>4 DEF MakeOne
  <2> QED BY <2>1 DEF Makings
<1> QED BY <1>2, <1>3, <1>4

LEMMA MkdirTrace ==
    ASSUME NEW ds \in Trees, NEW from \in ds, NEW p \in Seq(Segments)
    PROVE  \E f \in [0 .. Len(p) -> Makings(ds)] :
             /\ f[0] = [dirs |-> ds, ok |-> TRUE] /\ path_mkdir_p(ds, from, p) = f[Len(p)]
             /\ \A n \in 1 .. Len(p) : f[n] = MakeOne(from, f[n - 1], SubSeq(p, 1, n))
<1> DEFINE N == Len(p)
           V == Makings(ds)
           base == [dirs |-> ds, ok |-> TRUE]
           step == [n \in 1 .. N |-> [m \in V |-> MakeOne(from, m, SubSeq(p, 1, n))]]
<1>1. N \in Nat /\ base \in V
  BY LenProperties DEF Makings
<1>2. step \in [1 .. N -> [V -> V]]
  <2>1. ASSUME NEW n \in 1 .. N, NEW m \in V PROVE MakeOne(from, m, SubSeq(p, 1, n)) \in V
    <3>1. n \in 0 .. N /\ n > 0
      BY <1>1
    <3>2. SubSeq(p, 1, n) \in Seq(Segments) /\ SubSeq(p, 1, n) # <<>>
      BY <3>1, FirstOnes
    <3> QED BY <3>2, MakeOneType
  <2> QED BY <2>1
<1>3. \A n \in 1 .. N, m \in V : step[n][m] = MakeOne(from, m, SubSeq(p, 1, n))
  OBVIOUS
<1> HIDE DEF N, V, base, step
<1>4. PICK f : Trace(f, N, V, base, step)
  BY <1>1, <1>2, Recursion
<1>5. ASSUME NEW n \in 1 .. N
      PROVE  n - 1 \in 0 .. N /\ f[n] = MakeOne(from, f[n - 1], SubSeq(p, 1, n))
  <2>1. n - 1 \in 0 .. N
    BY <1>1
  <2>2. f[n - 1] \in V
    BY <1>4, <2>1 DEF Trace
  <2> QED BY <1>3, <1>4, <2>1, <2>2 DEF Trace
<1> DEFINE Rule(g) == [n \in 0 .. N |->
                IF n = 0 THEN base ELSE MakeOne(from, g[n - 1], SubSeq(p, 1, n))]
           made == CHOOSE g : g = Rule(g)
<1>6. f = Rule(f)
  BY <1>1, <1>4, <1>5 DEF Trace
<1>7. made = Rule(made)
  <2> HIDE DEF Rule
  <2> QED BY <1>6
<1>8. path_mkdir_p(ds, from, p) = made[N]
  BY DEF path_mkdir_p, N, base
<1>9. /\ made[0] = base
      /\ \A n \in 1 .. N : made[n] = MakeOne(from, made[n - 1], SubSeq(p, 1, n))
  <2> HIDE DEF made
  <2> QED BY <1>1, <1>7
<1> HIDE DEF made
<1>10. made[N] = f[N]
  <2>1. N \in Nat /\ made[0] = f[0]
    BY <1>1, <1>4, <1>9 DEF Trace
  <2>2. \A n \in 1 .. N : made[n - 1] = f[n - 1] => made[n] = f[n]
    BY <1>5, <1>9
  <2> QED BY <2>1, <2>2, SameSteps
<1> QED BY <1>4, <1>5, <1>8, <1>10 DEF N, V, base, Trace

LEMMA MkdirNext ==
    ASSUME NEW ds \in Trees, NEW from \in ds, NEW p \in Seq(Segments)
    PROVE  /\ path_mkdir_p(ds, from, p) \in Makings(ds)
           /\ p = <<>> => path_mkdir_p(ds, from, p) = [dirs |-> ds, ok |-> TRUE]
           /\ p # <<>> => path_mkdir_p(ds, from, p)
                            = MakeOne(from, path_mkdir_p(ds, from, Front(p)), p)
<1>1. PICK f \in [0 .. Len(p) -> Makings(ds)] :
        /\ f[0] = [dirs |-> ds, ok |-> TRUE] /\ path_mkdir_p(ds, from, p) = f[Len(p)]
        /\ \A n \in 1 .. Len(p) : f[n] = MakeOne(from, f[n - 1], SubSeq(p, 1, n))
  BY MkdirTrace
<1>2. Len(p) \in Nat /\ Len(<<>>) = 0
  BY LenProperties
<1>3. ASSUME p # <<>>
      PROVE  path_mkdir_p(ds, from, p) = MakeOne(from, path_mkdir_p(ds, from, Front(p)), p)
  <2> DEFINE u == Front(p)
             N == Len(u)
  <2>1. u \in Seq(Segments) /\ N = Len(p) - 1 /\ N \in Nat
    BY <1>3, FrontFacts
  <2>2. PICK g \in [0 .. N -> Makings(ds)] :
          /\ g[0] = [dirs |-> ds, ok |-> TRUE] /\ path_mkdir_p(ds, from, u) = g[N]
          /\ \A n \in 1 .. N : g[n] = MakeOne(from, g[n - 1], SubSeq(u, 1, n))
    BY <2>1, MkdirTrace
  <2>3. \A n \in 1 .. N : SubSeq(u, 1, n) = SubSeq(p, 1, n)
    <3> SUFFICES ASSUME NEW n \in 1 .. N PROVE SubSeq(u, 1, n) = SubSeq(p, 1, n)
      OBVIOUS
    <3>1. \A i \in 1 .. n : u[i] = p[i]
      <4>1. \A i \in 1 .. n : i \in 1 .. Len(p) - 1
        BY <1>2, <2>1
      <4>2. \A i \in 1 .. Len(p) - 1 : u[i] = p[i]
        BY <1>3, FrontFacts
      <4> QED BY <4>1, <4>2
    <3>2. n \in 0 .. N /\ n \in 0 .. Len(p)
      BY <2>1
    <3>3. /\ SubSeq(u, 1, n) \in Seq(Segments) /\ Len(SubSeq(u, 1, n)) = n
          /\ \A i \in 1 .. n : SubSeq(u, 1, n)[i] = u[i]
      BY <2>1, <3>2, FirstOnes
    <3>4. /\ SubSeq(p, 1, n) \in Seq(Segments) /\ Len(SubSeq(p, 1, n)) = n
          /\ \A i \in 1 .. n : SubSeq(p, 1, n)[i] = p[i]
      BY <3>2, FirstOnes
    <3> QED BY <3>1, <3>3, <3>4, SeqEqual
  <2> HIDE DEF u, N
  <2>4. \A n \in 1 .. N : f[n - 1] = g[n - 1] => f[n] = g[n]
    <3>1. \A n \in 1 .. N : n \in 1 .. Len(p)
      BY <1>2, <2>1
    <3> QED BY <1>1, <2>2, <2>3, <3>1
  <2>5. f[N] = g[N]
    <3>1. N \in Nat /\ f[0] = g[0]
      BY <1>1, <2>1, <2>2
    <3> QED BY <2>4, <3>1, SameSteps
  <2>6. Len(p) \in 1 .. Len(p) /\ Len(p) - 1 = N
    BY <1>2, <2>1
  <2>7. f[Len(p)] = MakeOne(from, f[N], SubSeq(p, 1, Len(p)))
    BY <1>1, <2>6
  <2>8. SubSeq(p, 1, Len(p)) = p
    BY SubSeqFull
  <2> QED BY <1>1, <2>2, <2>5, <2>7, <2>8 DEF u
<1> QED BY <1>1, <1>2, <1>3

(***************************************************************************)
(* path_expand, one segment after the other                                *)
(***************************************************************************)
LEMMA EnteredType ==
    ASSUME NEW q \in Seq(Segments), NEW s \in Segments
    PROVE  Entered(q, s) \in Seq(Segments)
<1>1. Len(q) > 1 => Front(q) \in Seq(Segments)
  BY FrontFacts, EmptySeq
<1>2. Append(q, s) \in Seq(Segments)
  BY AppendProperties
<1>3. CASE s = "."
  BY <1>3 DEF Entered
<1>4. CASE s = ".."
  BY <1>1, <1>4 DEF Entered
<1>5. CASE s \notin {".", ".."}
  BY <1>2, <1>5 DEF Entered
<1> QED BY <1>3, <1>4, <1>5

LEMMA OverTrace ==
    ASSUME NEW p \in Seq(Segments), NEW base \in Seq(Segments)
    PROVE  \E f \in [0 .. Len(p) -> Seq(Segments)] :
             /\ f[0] = base /\ Over(p, base) = f[Len(p)]
             /\ \A n \in 1 .. Len(p) : f[n] = Entered(f[n - 1], p[n])
<1> DEFINE N == Len(p)
           V == Seq(Segments)
           step == [n \in 1 .. N |-> [q \in V |-> Entered(q, p[n])]]
<1>1. N \in Nat /\ base \in V /\ \A n \in 1 .. N : p[n] \in Segments
  BY LenProperties, ElementOfSeq
<1>2. step \in [1 .. N -> [V -> V]]
  BY <1>1, EnteredType
<1>3. \A n \in 1 .. N, q \in V : step[n][q] = Entered(q, p[n])
  OBVIOUS
<1> HIDE DEF N, V, step
<1>4. PICK f : Trace(f, N, V, base, step)
  BY <1>1, <1>2, Recursion
<1>5. ASSUME NEW n \in 1 .. N PROVE n - 1 \in 0 .. N /\ f[n] = Entered(f[n - 1], p[n])
  <2>1. n - 1 \in 0 .. N
    BY <1>1
  <2>2. f[n - 1] \in V
    BY <1>4, <2>1 DEF Trace
  <2> QED BY <1>3, <1>4, <2>1, <2>2 DEF Trace
<1> DEFINE Rule(g) == [n \in 0 .. N |-> IF n = 0 THEN base ELSE Entered(g[n - 1], p[n])]
           over == CHOOSE g : g = Rule(g)
<1>6. f = Rule(f)
  BY <1>1, <1>4, <1>5 DEF Trace
<1>7. over = Rule(over)
  <2> HIDE DEF Rule
  <2> QED BY <1>6
<1>8. Over(p, base) = over[N]
  BY DEF Over, N
<1>9. /\ over[0] = base
      /\ \A n \in 1 .. N : over[n] = Entered(over[n - 1], p[n])
  <2> HIDE DEF over
  <2> QED BY <1>1, <1>7
<1> HIDE DEF over
<1>10. over[N] = f[N]
  <2>1. N \in Nat /\ over[0] = f[0]
    BY <1>1, <1>4, <1>9 DEF Trace
  <2>2. \A n \in 1 .. N : over[n - 1] = f[n - 1] => over[n] = f[n]
    BY <1>5, <1>9
  <2> QED BY <2>1, <2>2, SameSteps
<1> QED BY <1>4, <1>5, <1>8, <1>10 DEF N, V, Trace

LEMMA OverNext ==
    ASSUME NEW p \in Seq(Segments), NEW base \in Seq(Segments)
    PROVE  /\ Over(p, base) \in Seq(Segments)
           /\ p = <<>> => Over(p, base) = base
           /\ p # <<>> => Over(p, base) = Entered(Over(Front(p), base), Last(p))
<1>1. PICK f \in [0 .. Len(p) -> Seq(Segments)] :
        /\ f[0] = base /\ Over(p, base) = f[Len(p)]
        /\ \A n \in 1 .. Len(p) : f[n] = Entered(f[n - 1], p[n])
  BY OverTrace
<1>2. Len(p) \in Nat /\ Len(<<>>) = 0
  BY LenProperties
<1>3. ASSUME p # <<>> PROVE Over(p, base) = Entered(Over(Front(p), base), Last(p))
  <2> DEFINE u == Front(p)
             N == Len(u)
  <2>1. /\ u \in Seq(Segments) /\ N = Len(p) - 1 /\ N \in Nat
        /\ \A i \in 1 .. N : u[i] = p[i]
        /\ Last(p) = p[N + 1]
    BY <1>3, FrontFacts
  <2>2. PICK g \in [0 .. N -> Seq(Segments)] :
          /\ g[0] = base /\ Over(u, base) = g[N]
          /\ \A n \in 1 .. N : g[n] = Entered(g[n - 1], u[n])
    BY <2>1, OverTrace
  <2> HIDE DEF u, N
  <2>3. \A n \in 1 .. N : f[n - 1] = g[n - 1] => f[n] = g[n]
    BY <1>1, <2>1, <2>2
  <2>4. f[N] = g[N]
    <3>1. N \in Nat /\ f[0] = g[0]
      BY <1>1, <2>1, <2>2
    <3> QED BY <2>3, <3>1, SameSteps
  <2>5. N + 1 \in 1 .. Len(p) /\ (N + 1) - 1 = N
    BY <2>1
  <2>6. f[N + 1] = Entered(f[N], p[N + 1])
    BY <1>1, <2>5
  <2> QED BY <1>1, <2>1, <2>2, <2>4, <2>6 DEF u
<1> QED BY <1>1, <1>2, <1>3

\* The root stays in front, and nowhere else.
LEMMA PathFacts ==
    ASSUME NEW q \in PathSet
    PROVE  /\ q \in Seq(Segments)
           /\ q # <<>> => Front(q) \in PathSet
           /\ \A s \in Parts : Append(q, s) \in PathSet
           /\ ~Absolute(q) => q \in Seq(Parts)
<1>1. q \in Seq(Segments) /\ \A i \in 2 .. Len(q) : q[i] # Root
  BY DEF PathSet
<1>2. ASSUME q # <<>> PROVE Front(q) \in PathSet
  <2>1. /\ Len(q) \in Nat \ {0} /\ Front(q) \in Seq(Segments) /\ Len(Front(q)) = Len(q) - 1
        /\ \A i \in 1 .. Len(q) - 1 : Front(q)[i] = q[i]
    BY <1>1, <1>2, FrontFacts
  <2>2. \A i \in 2 .. Len(Front(q)) : Front(q)[i] # Root
    BY <1>1, <2>1
  <2> QED BY <2>1, <2>2 DEF PathSet
<1>3. ASSUME NEW s \in Parts PROVE Append(q, s) \in PathSet
  <2>1. s \in Segments /\ s # Root
    BY NamesFacts DEF Segments
  <2>2. /\ Append(q, s) \in Seq(Segments) /\ Len(Append(q, s)) = Len(q) + 1 /\ Len(q) \in Nat
        /\ \A i \in 1 .. Len(q) : Append(q, s)[i] = q[i]
        /\ Append(q, s)[Len(q) + 1] = s
    BY <1>1, <2>1, AppendProperties, LenProperties
  <2>3. \A i \in 2 .. Len(Append(q, s)) : Append(q, s)[i] # Root
    <3> SUFFICES ASSUME NEW i \in 2 .. Len(Append(q, s)) PROVE Append(q, s)[i] # Root
      OBVIOUS
    <3>1. i \in 2 .. Len(q) \/ i = Len(q) + 1
      BY <2>2
    <3>2. i \in 2 .. Len(q) => i \in 1 .. Len(q)
      BY <2>2
    <3> QED BY <1>1, <2>1, <2>2, <3>1, <3>2
  <2> QED BY <2>2, <2>3 DEF PathSet
<1>4. ASSUME ~Absolute(q) PROVE q \in Seq(Parts)
  <2>1. Len(q) \in Nat /\ \A i \in 1 .. Len(q) : q[i] \in Segments
    BY <1>1, LenProperties, ElementOfSeq
  <2>2. q = <<>> \/ q[1] # Root
    BY <1>1, <1>4 DEF Absolute
  <2>3. CASE q = <<>>
    BY <2>3, EmptySeq
  <2>4. CASE q[1] # Root
    <3>1. \A i \in 1 .. Len(q) : q[i] \in Parts
      <4> SUFFICES ASSUME NEW i \in 1 .. Len(q) PROVE q[i] \in Parts
        OBVIOUS
      <4>1. i = 1 \/ i \in 2 .. Len(q)
        BY <2>1
      <4> QED BY <1>1, <2>1, <2>4, <4>1 DEF Segments
    <3>2. q \in [1 .. Len(q) -> Segments]
      BY <1>1, LenProperties
    <3>3. q \in [1 .. Len(q) -> Parts]
      BY <3>1, <3>2
    <3> QED BY <2>1, <3>3, SeqDef
  <2> QED BY <2>2, <2>3, <2>4
<1> QED BY <1>1, <1>2, <1>3, <1>4

LEMMA AbsoluteFacts ==
    ASSUME NEW q \in Seq(Segments)
    PROVE  /\ Absolute(q) /\ Len(q) > 1 => Absolute(Front(q))
           /\ \A s \in Segments : Absolute(q) => Absolute(Append(q, s))
           /\ Absolute(q) <=> q # <<>> /\ q[1] = Root
<1>1. q # <<>> => Head(q) = q[1] /\ Len(q) \in Nat \ {0}
  BY EmptySeq
<1>2. ASSUME Absolute(q), Len(q) > 1 PROVE Absolute(Front(q))
  <2>1. q # <<>> /\ 1 \in 1 .. Len(q) - 1 /\ Len(q) - 1 > 0
    BY <1>1, <1>2 DEF Absolute
  <2>2. Front(q) \in Seq(Segments) /\ Len(Front(q)) = Len(q) - 1 /\ Front(q)[1] = q[1]
    BY <2>1, FrontFacts
  <2>3. Front(q) # <<>>
    BY <2>1, <2>2, EmptySeq
  <2> QED BY <1>1, <1>2, <2>1, <2>2, <2>3 DEF Absolute
<1>3. ASSUME NEW s \in Segments, Absolute(q) PROVE Absolute(Append(q, s))
  <2>1. Append(q, s) \in Seq(Segments) /\ Append(q, s) # <<>>
    BY AppendProperties
  <2>2. Head(Append(q, s)) = Head(q)
    BY <1>3, HeadTailAppend DEF Absolute
  <2> QED BY <1>3, <2>1, <2>2 DEF Absolute
<1> QED BY <1>1, <1>2, <1>3 DEF Absolute

LEMMA OverFacts ==
    ASSUME NEW base \in PathSet
    PROVE  \A p \in Seq(Parts) : /\ Over(p, base) \in PathSet
                                 /\ Absolute(base) => Absolute(Over(p, base))
<1> DEFINE S == {p \in Seq(Parts) : /\ Over(p, base) \in PathSet
                                    /\ Absolute(base) => Absolute(Over(p, base))}
<1>1. ASSUME NEW p \in Seq(Parts) PROVE p \in Seq(Segments) /\ base \in Seq(Segments)
  BY PathFacts, SeqMonotonic DEF Segments
<1>2. <<>> \in S
  <2>1. <<>> \in Seq(Parts)
    BY EmptySeq
  <2>2. Over(<<>>, base) = base
    BY <1>1, <2>1, OverNext
  <2> QED BY <2>1, <2>2
<1>3. ASSUME NEW p \in Seq(Parts), p # <<>>, Front(p) \in S PROVE p \in S
  <2> DEFINE q == Over(Front(p), base)
             s == Last(p)
  <2>1. q \in PathSet /\ (Absolute(base) => Absolute(q)) /\ s \in Parts
    BY <1>3, FrontFacts
  <2>2. Over(p, base) = Entered(q, s)
    BY <1>1, <1>3, OverNext
  <2> HIDE DEF q, s
  <2>3. Entered(q, s) \in PathSet /\ (Absolute(base) => Absolute(Entered(q, s)))
    <3>1. q \in Seq(Segments) /\ s \in Segments /\ (Len(q) > 1 => q # <<>>)
      BY <2>1, PathFacts, EmptySeq DEF Segments
    <3>2. CASE s = "." \/ (s = ".." /\ ~(Len(q) > 1))
      BY <2>1, <3>2 DEF Entered
    <3>3. CASE s = ".." /\ Len(q) > 1
      <4>1. Entered(q, s) = Front(q)
        BY <3>3 DEF Entered
      <4> QED BY <2>1, <3>1, <3>3, <4>1, PathFacts, AbsoluteFacts
    <3>4. CASE s \notin {".", ".."}
      <4>1. Entered(q, s) = Append(q, s)
        BY <3>4 DEF Entered
      <4> QED BY <2>1, <3>1, <4>1, PathFacts, AbsoluteFacts
    <3> QED BY <3>2, <3>3, <3>4
  <2> QED BY <2>2, <2>3
<1>4. Inherits(Parts, S)
  BY <1>3 DEF Inherits
<1> HIDE DEF S
<1>5. \A p \in Seq(Parts) : p \in S
  BY <1>2, <1>4, SeqInduction
<1> QED BY <1>5 DEF S

(***************************************************************************)
(* What path_mkdir_p says                                                  *)
(***************************************************************************)
\* Where mkdir starts from is where the path starts.
LEMMA TextStart ==
    ASSUME NEW p \in Seq(Segments), p # <<>>, p # <<Root>>, FromText(p)
    PROVE  IsFromRoot(path_get_string(p)) <=> Absolute(p)
<1> DEFINE t == Mapped(p)
<1>1. path_get_string(p) = t
  BY TextFacts, Zenon
<1>2. Len(p) \in Nat \ {0} /\ Head(p) = p[1] /\ 1 \in 1 .. Len(p)
  BY EmptySeq
<1>3. t \in Seq(Parts) /\ Len(t) = Len(p) /\ t[1] = Written(p[1]) /\ Head(t) = t[1]
  BY <1>2, MappedFacts
<1>4. p[1] # "" /\ (Absolute(p) <=> p[1] = Root)
  BY <1>2 DEF FromText, Absolute
<1>5. Len(p) = 1 => p[1] # Root
  OBVIOUS
<1>6. t[1] = "" <=> p[1] = Root
  BY <1>3, <1>4 DEF Written
<1> HIDE DEF t
<1>7. Head(t) = "" <=> p[1] = Root
  BY <1>3, <1>6
<1>8. p[1] = Root => Len(t) > 1
  BY <1>2, <1>3, <1>5
<1> QED BY <1>1, <1>4, <1>7, <1>8 DEF IsFromRoot

LEMMA FromTextFront ==
    ASSUME NEW p \in Seq(Segments), p # <<>>, FromText(p)
    PROVE  /\ FromText(Front(p))
           /\ Front(p) # <<>> => (Absolute(Front(p)) <=> Absolute(p))
<1>1. /\ Front(p) \in Seq(Segments) /\ Len(Front(p)) = Len(p) - 1 /\ Len(p) \in Nat \ {0}
      /\ \A i \in 1 .. Len(p) - 1 : Front(p)[i] = p[i]
  BY FrontFacts
<1>2. Head(p) = p[1] /\ (Front(p) # <<>> => Head(Front(p)) = Front(p)[1])
  OBVIOUS
<1>3. Front(p) # <<>> => Front(p)[1] = p[1]
  <2> SUFFICES ASSUME Front(p) # <<>> PROVE Front(p)[1] = p[1]
    OBVIOUS
  <2>1. Len(Front(p)) \in Nat \ {0}
    BY <1>1, EmptySeq
  <2>2. 1 \in 1 .. Len(p) - 1
    BY <1>1, <2>1
  <2> QED BY <1>1, <2>2
<1> QED BY <1>2, <1>3 DEF FromText, Absolute

LEMMA MkdirMakesIt ==
    ASSUME NEW ds \in Trees, NEW from \in ds
    PROVE  \A p \in Seq(Segments) : FromText(p) =>
             LET made == path_mkdir_p(ds, from, p)
             IN  made.ok <=> Reach(made.dirs, from, p) # Nowhere
<1> DEFINE Says(p) == LET made == path_mkdir_p(ds, from, p)
                      IN  made.ok <=> Reach(made.dirs, from, p) # Nowhere
           S == {p \in Seq(Segments) : FromText(p) => Says(p)}
<1>1. <<>> \in Dir /\ Nowhere \notin Dir /\ from \in Dir /\ \A x \in Dir : x \in Place
  BY NamesFacts, TreeFacts, EmptySeq DEF Dir, Place
<1>2. <<>> \in S
  <2>1. <<>> \in Seq(Segments) /\ ~Absolute(<<>>)
    BY EmptySeq DEF Absolute
  <2>2. path_mkdir_p(ds, from, <<>>) = [dirs |-> ds, ok |-> TRUE]
    BY <2>1, MkdirNext
  <2>3. Walk(ds, from, Mapped(<<>>)) = from
    BY <1>1, <2>1, MappedWalk, TreeFacts
  <2> QED BY <1>1, <2>1, <2>2, <2>3 DEF Reach, Start
<1>3. ASSUME NEW p \in Seq(Segments), p # <<>>, Front(p) \in S PROVE p \in S
  <2> SUFFICES ASSUME FromText(p) PROVE Says(p)
    BY <1>3
  <2> DEFINE q == Front(p)
             s == Last(p)
             m == path_mkdir_p(ds, from, q)
             e == m.dirs
             start == Start(from, p)
             d == Walk(e, start, Mapped(q))
  <2>1. q \in Seq(Segments) /\ s \in Segments /\ FromText(q) /\ Says(q)
    BY <1>3, FrontFacts, FromTextFront
  <2>2. m \in Makings(ds) /\ path_mkdir_p(ds, from, p) = MakeOne(from, m, p)
    BY <1>3, <2>1, MkdirNext
  <2>3. /\ e \in Trees /\ e \in SUBSET Dir /\ from \in e /\ m.ok \in BOOLEAN
        /\ start \in e /\ start \in Dir /\ start \in Place
    BY <1>1, <2>2, TreeFacts DEF Makings, Start
  <2>4. \A x \in SUBSET Dir :
          Reach(x, from, p) = Look(x, Walk(x, start, Mapped(q)), Written(s))
    BY <1>3, <2>3, MappedWalk DEF Reach
  <2>5. m.ok <=> d # Nowhere
    <3>1. CASE q = <<>>
      <4>1. m.ok
        <5>1. m = [dirs |-> ds, ok |-> TRUE]
          BY <2>1, <3>1, MkdirNext
        <5> QED BY <5>1
      <4>2. d = start
        BY <2>1, <2>3, <3>1, MappedWalk
      <4> QED BY <1>1, <2>3, <4>1, <4>2
    <3>2. CASE q # <<>>
      <4>1. Start(from, q) = start
        BY <1>3, <3>2, FromTextFront DEF Start
      <4>2. Reach(e, from, q) = d
        BY <4>1 DEF Reach
      <4> QED BY <2>1, <4>2
    <3> QED BY <3>1, <3>2
  <2>6. d \in Place
    BY <2>1, <2>3, MappedWalk
  <2>7. Named(e, from, path_get_string(p)) = Reach(e, from, p)
    BY <1>1, <2>3, NamedReach
  <2> HIDE DEF q, s, m, e, start, d
  <2>8. CASE ~m.ok
    <3>1. MakeOne(from, m, p) = m
      BY <2>8 DEF MakeOne, s
    <3>2. Reach(e, from, p) = Nowhere
      BY <2>3, <2>4, <2>5, <2>8 DEF Look, d
    <3> QED BY <2>2, <2>8, <3>1, <3>2 DEF e
  <2>9. CASE m.ok /\ s \in {Root, ".", ".."}
    <3>1. MakeOne(from, m, p) = m
      BY <2>9 DEF MakeOne, s
    <3>2. Reach(e, from, p) = Look(e, d, Written(s)) /\ d # Nowhere
      BY <2>3, <2>4, <2>5, <2>9 DEF d
    <3>3. Written(s) = "" \/ Written(s) = "." \/ Written(s) = ".."
      BY <2>9 DEF Written
    <3>4. d \in Dir /\ Parent(d) \in Dir
      BY <2>6, <3>2, FrontFacts DEF Place, Parent, Dir
    <3>5. Look(e, d, Written(s)) # Nowhere
      BY <1>1, <3>2, <3>3, <3>4 DEF Look
    <3> QED BY <2>2, <2>9, <3>1, <3>2, <3>5 DEF e
  <2>10. CASE m.ok /\ s \notin {Root, ".", ".."} /\ path_is_dir(e, from, p)
    <3>1. MakeOne(from, m, p) = m
      BY <2>10 DEF MakeOne, s, e
    <3> QED BY <2>2, <2>7, <2>10, <3>1 DEF path_is_dir, e
  <2>11. CASE /\ m.ok /\ s \notin {Root, ".", ".."} /\ ~path_is_dir(e, from, p)
              /\ CanMake(e, from, path_get_string(p))
    <3> DEFINE new == Append(d, s)
               e2 == e \cup {new}
    <3>1. p # <<Root>>
      <4> SUFFICES ASSUME p = <<Root>> PROVE FALSE
        OBVIOUS
      <4>1. Last(<<Root>>) = Root
        BY One DEF Segments
      <4> QED BY <2>11, <4>1 DEF s
    <3>2. (IF IsFromRoot(path_get_string(p)) THEN <<>> ELSE from) = start
      BY <1>3, <3>1, TextStart DEF Start, start
    <3>3. /\ d \in e /\ s \in Names /\ e2 \in Trees
          /\ Made(e, from, path_get_string(p)) = new
      <4>1. d = Walk(e, IF IsFromRoot(path_get_string(p)) THEN <<>> ELSE from, Mapped(Front(p)))
        BY <3>2 DEF d, q
      <4>2. Last(p) \notin {Root, ".", ".."} /\ CanMake(e, from, path_get_string(p))
        BY <2>11 DEF s
      <4> DEFINE w == Walk(e, IF IsFromRoot(path_get_string(p)) THEN <<>> ELSE from,
                           Mapped(Front(p)))
      <4>3. e \in Trees /\ from \in e /\ p # <<>>
        BY <1>3, <2>3
      <4>4. /\ w \in e /\ Last(p) \in Names
            /\ Made(e, from, path_get_string(p)) = Append(w, Last(p))
            /\ e \cup {Append(w, Last(p))} \in Trees
        BY <4>2, <4>3, MakeFacts
      <4> QED BY <4>1, <4>4 DEF s
    <3>4. MakeOne(from, m, p) = [m EXCEPT !.dirs = e2]
      BY <2>11, <3>3 DEF MakeOne, s, e
    <3>5. e2 \in SUBSET Dir /\ e \subseteq e2 /\ new \in e2 /\ new \in Dir /\ d # Nowhere
      BY <1>1, <2>3, <3>3, TreeFacts
    <3> HIDE DEF new, e2
    <3>6. Walk(e2, start, Mapped(q)) = d
      <4>1. Mapped(q) \in Seq(Parts)
        BY <2>1, MappedFacts
      <4> QED BY <2>3, <3>5, <4>1, WalkGrows DEF d
    <3>7. Reach(e2, from, p) = Look(e2, d, s)
      <4>1. Written(s) = s
        BY <2>11 DEF Written
      <4> QED BY <2>4, <3>5, <3>6, <4>1
    <3>8. Look(e2, d, s) = new
      <4>1. s \notin {"", ".", ".."}
        BY <3>3, NamesFacts
      <4> QED BY <3>5, <4>1 DEF Look, new
    <3>9. path_mkdir_p(ds, from, p).ok /\ path_mkdir_p(ds, from, p).dirs = e2
      BY <2>2, <2>11, <3>4 DEF Makings
    <3> QED BY <1>1, <3>5, <3>7, <3>8, <3>9
  <2>12. CASE /\ m.ok /\ s \notin {Root, ".", ".."} /\ ~path_is_dir(e, from, p)
              /\ ~CanMake(e, from, path_get_string(p))
    <3>1. MakeOne(from, m, p) = [m EXCEPT !.ok = FALSE]
      BY <2>12 DEF MakeOne, s, e
    <3>2. Reach(e, from, p) = Nowhere
      BY <2>7, <2>12 DEF path_is_dir
    <3>3. ~path_mkdir_p(ds, from, p).ok /\ path_mkdir_p(ds, from, p).dirs = e
      BY <2>2, <3>1 DEF Makings, e
    <3> QED BY <3>2, <3>3
  <2> QED BY <2>8, <2>9, <2>10, <2>11, <2>12
<1>4. Inherits(Segments, S)
  BY <1>3 DEF Inherits
<1> HIDE DEF S, Says
<1>5. \A p \in Seq(Segments) : p \in S
  BY <1>2, <1>4, SeqInduction
<1> QED BY <1>5 DEF S, Says

(***************************************************************************)
(* Where an expanded path leads                                            *)
(***************************************************************************)
Without(p, x) == \A i \in 1 .. Len(p) : p[i] # x

LEMMA WithoutFacts ==
    ASSUME NEW T, NEW p \in Seq(T), p # <<>>, NEW x, Without(p, x)
    PROVE  Without(Front(p), x) /\ Last(p) # x
<1>1. /\ Len(p) \in Nat \ {0} /\ Len(Front(p)) = Len(p) - 1
      /\ \A i \in 1 .. Len(p) - 1 : Front(p)[i] = p[i]
      /\ Last(p) = p[Len(p)]
  BY FrontFacts
<1> QED BY <1>1 DEF Without

\* Names entered after names, and some taken back, leave names.
LEMMA OverClean ==
    ASSUME NEW base \in PathSet, Clean(base)
    PROVE  \A p \in Seq(Parts) : Without(p, "") => Clean(Over(p, base))
<1> DEFINE S == {p \in Seq(Parts) : Without(p, "") => Clean(Over(p, base))}
<1>1. ASSUME NEW p \in Seq(Parts) PROVE p \in Seq(Segments) /\ base \in Seq(Segments)
  BY PathFacts, SeqMonotonic DEF Segments
<1>2. <<>> \in S
  <2>1. <<>> \in Seq(Parts)
    BY EmptySeq
  <2>2. Over(<<>>, base) = base
    BY <1>1, <2>1, OverNext
  <2> QED BY <2>1, <2>2
<1>3. ASSUME NEW p \in Seq(Parts), p # <<>>, Front(p) \in S, Without(p, "")
      PROVE  Clean(Over(p, base))
  <2> DEFINE q == Over(Front(p), base)
             s == Last(p)
  <2>1. q \in PathSet /\ q \in Seq(Segments) /\ Clean(q) /\ s \in Parts /\ s # ""
    BY <1>3, FrontFacts, WithoutFacts, OverFacts, PathFacts
  <2>2. Over(p, base) = Entered(q, s)
    BY <1>1, <1>3, OverNext
  <2> HIDE DEF q, s
  <2>3. CASE s = "." \/ (s = ".." /\ ~(Len(q) > 1))
    BY <2>1, <2>2, <2>3 DEF Entered
  <2>4. CASE s = ".." /\ Len(q) > 1
    <3>1. Entered(q, s) = Front(q) /\ q # <<>>
      BY <2>1, <2>4, EmptySeq DEF Entered
    <3>2. /\ Len(q) \in Nat /\ Len(Front(q)) = Len(q) - 1
          /\ \A i \in 1 .. Len(q) - 1 : Front(q)[i] = q[i]
      BY <2>1, <3>1, FrontFacts
    <3>3. \A i \in 2 .. Len(Front(q)) : Front(q)[i] \notin {"", ".", ".."}
      <4>1. \A i \in 2 .. Len(q) : q[i] \notin {"", ".", ".."}
        BY <2>1 DEF Clean
      <4>2. \A i \in 2 .. Len(Front(q)) : i \in 2 .. Len(q) /\ i \in 1 .. Len(q) - 1
        BY <3>2
      <4> QED BY <3>2, <4>1, <4>2
    <3>4. Absolute(Front(q))
      BY <2>1, <2>4, AbsoluteFacts DEF Clean
    <3> QED BY <2>2, <3>1, <3>3, <3>4 DEF Clean
  <2>5. CASE s \notin {".", ".."}
    <3>1. Entered(q, s) = Append(q, s) /\ s \in Segments
      BY <2>1, <2>5 DEF Entered, Segments
    <3>2. /\ Len(q) \in Nat /\ Len(Append(q, s)) = Len(q) + 1
          /\ \A i \in 1 .. Len(q) : Append(q, s)[i] = q[i]
          /\ Append(q, s)[Len(q) + 1] = s
      <4>1. Len(q) \in Nat
        BY <2>1, LenProperties
      <4> QED BY <2>1, <3>1, <4>1, AppendProperties
    <3>3. \A i \in 2 .. Len(Append(q, s)) : Append(q, s)[i] \notin {"", ".", ".."}
      <4> SUFFICES ASSUME NEW i \in 2 .. Len(Append(q, s))
                   PROVE  Append(q, s)[i] \notin {"", ".", ".."}
        OBVIOUS
      <4>1. i \in 2 .. Len(q) \/ i = Len(q) + 1
        BY <3>2
      <4>2. i \in 2 .. Len(q) => i \in 1 .. Len(q) /\ q[i] \notin {"", ".", ".."}
        <5>1. \A j \in 2 .. Len(q) : q[j] \notin {"", ".", ".."}
          BY <2>1 DEF Clean
        <5>2. i \in 2 .. Len(q) => i \in 1 .. Len(q)
          BY <3>2
        <5> QED BY <5>1, <5>2
      <4> QED BY <2>1, <2>5, <3>2, <4>1, <4>2
    <3>4. Absolute(Append(q, s))
      BY <2>1, <3>1, AbsoluteFacts DEF Clean
    <3> QED BY <2>2, <3>1, <3>3, <3>4 DEF Clean
  <2> QED BY <2>3, <2>4, <2>5
<1>4. Inherits(Parts, S)
  BY <1>3 DEF Inherits
<1> HIDE DEF S
<1>5. \A p \in Seq(Parts) : p \in S
  BY <1>2, <1>4, SeqInduction
<1> QED BY <1>5 DEF S

\* The last of a clean path is a name, or it is the root alone.
LEMMA CleanLast ==
    ASSUME NEW q \in PathSet, Clean(q)
    PROVE  q # <<>> /\ (q = <<Root>> \/ (Len(q) > 1 /\ Last(q) \in Names))
<1>1. q \in Seq(Segments) /\ q # <<>> /\ q[1] = Root /\ Len(q) \in Nat \ {0}
  BY PathFacts, AbsoluteFacts, EmptySeq DEF Clean
<1>2. CASE Len(q) > 1
  <2>1. Last(q) = q[Len(q)] /\ Last(q) \in Segments /\ Len(q) \in 2 .. Len(q)
    BY <1>1, <1>2, FrontFacts
  <2>2. Last(q) \notin {Root, "", ".", ".."}
    BY <2>1 DEF Clean, PathSet
  <2>3. Last(q) \in Names
    BY <2>1, <2>2 DEF Segments, Parts
  <2> QED BY <1>1, <1>2, <2>3
<1>3. CASE Len(q) = 1
  <2>1. <<Root>> \in Seq(Segments) /\ Len(<<Root>>) = 1 /\ <<Root>>[1] = Root
    BY One DEF Segments
  <2>2. \A i \in 1 .. Len(q) : q[i] = <<Root>>[i]
    <3>1. \A i \in 1 .. Len(q) : i = 1
      BY <1>3
    <3> QED BY <1>1, <2>1, <3>1
  <2>3. q = <<Root>>
    BY <1>1, <1>3, <2>1, <2>2, SeqEqual
  <2> QED BY <1>1, <2>3, Zenon
<1>4. Len(q) > 1 \/ Len(q) = 1
  <2>1. Len(q) \in Nat \ {0}
    BY <1>1
  <2>2. \A n \in Nat \ {0} : n > 1 \/ n = 1
    OBVIOUS
  <2> QED BY <2>1, <2>2, Zenon
<1> QED BY <1>2, <1>3, <1>4

LEMMA OverLeads ==
    ASSUME NEW ds \in Trees, NEW from \in ds, NEW base \in PathSet, Absolute(base),
           Walk(ds, <<>>, Mapped(base)) = from
    PROVE  \A p \in Seq(Parts) :
             /\ Without(p, "..") \/ (Clean(base) /\ Without(p, ""))
             /\ Walk(ds, from, Mapped(p)) # Nowhere
             => Walk(ds, <<>>, Mapped(Over(p, base))) = Walk(ds, from, Mapped(p))
<1> DEFINE Fits(p) == Without(p, "..") \/ (Clean(base) /\ Without(p, ""))
           Same(p) == Walk(ds, <<>>, Mapped(Over(p, base))) = Walk(ds, from, Mapped(p))
           S == {p \in Seq(Parts) : Fits(p) /\ Walk(ds, from, Mapped(p)) # Nowhere => Same(p)}
<1>1. ASSUME NEW p \in Seq(Parts) PROVE p \in Seq(Segments) /\ base \in Seq(Segments)
  BY PathFacts, SeqMonotonic DEF Segments
<1>2. /\ ds \in SUBSET Dir /\ <<>> \in Place /\ from \in Place /\ <<>> \in Dir
      /\ Nowhere \notin Dir
  BY NamesFacts, TreeFacts, EmptySeq DEF Place, Dir
<1>3. <<>> \in S
  <2>1. <<>> \in Seq(Parts) /\ <<>> \in Seq(Segments)
    BY EmptySeq
  <2>2. Over(<<>>, base) = base /\ Walk(ds, from, Mapped(<<>>)) = from
    BY <1>1, <1>2, <2>1, OverNext, MappedWalk
  <2> QED BY <2>1, <2>2
<1>4. ASSUME NEW p \in Seq(Parts), p # <<>>, Front(p) \in S,
             Fits(p), Walk(ds, from, Mapped(p)) # Nowhere
      PROVE  Same(p)
  <2> DEFINE u == Front(p)
             s == Last(p)
             q == Over(u, base)
             d == Walk(ds, from, Mapped(u))
  <2>1. u \in Seq(Parts) /\ s \in Parts /\ Fits(u)
    BY <1>4, FrontFacts, WithoutFacts
  <2>2. q \in PathSet /\ q \in Seq(Segments) /\ Absolute(q) /\ Over(p, base) = Entered(q, s)
    BY <1>1, <1>4, <2>1, OverFacts, OverNext, PathFacts
  <2>3. Written(s) = s /\ Walk(ds, from, Mapped(p)) = Look(ds, d, s) /\ d \in Place
    <3>1. Written(s) = s
      BY <2>1, NamesFacts DEF Written
    <3>2. Walk(ds, from, Mapped(p)) = Look(ds, d, Written(s)) /\ d \in Place
      BY <1>1, <1>2, <1>4, <2>1, MappedWalk
    <3> QED BY <3>1, <3>2
  <2>4. d # Nowhere
    BY <1>4, <2>3 DEF Look
  <2>5. Walk(ds, <<>>, Mapped(q)) = d
    BY <1>4, <2>1, <2>4
  <2>6. CASE s = ".."
    <3>1. Clean(base) /\ Without(u, "")
      BY <1>4, <2>6, WithoutFacts
    <3>2. Clean(q)
      BY <2>1, <3>1, OverClean
    <3>3. Look(ds, d, s) = Parent(d)
      BY <2>4, <2>6 DEF Look
    <3>4. CASE q = <<Root>>
      <4>1. Entered(q, s) = q
        <5>1. Len(<<Root>>) = 1 /\ ~(1 > 1)
          OBVIOUS
        <5> QED BY <2>6, <3>4, <5>1 DEF Entered
      <4>2. d = <<>>
        <5>1. Front(q) = <<>> /\ Last(q) = Root /\ q # <<>>
          BY <3>4, One DEF Segments
        <5>2. Walk(ds, <<>>, Mapped(q))
                = Look(ds, Walk(ds, <<>>, Mapped(<<>>)), Written(Root))
          BY <1>2, <2>2, <5>1, MappedWalk
        <5>3. <<>> \in Seq(Segments)
          BY EmptySeq
        <5>4. Walk(ds, <<>>, Mapped(<<>>)) = <<>>
          BY <1>2, <5>3, MappedWalk
        <5> QED BY <2>5, <5>2, <5>4 DEF Look, Written
      <4>3. Parent(d) = d
        BY <4>2 DEF Parent
      <4> QED BY <2>2, <2>3, <2>5, <3>3, <4>1, <4>3
    <3>5. CASE Len(q) > 1 /\ Last(q) \in Names
      <4> DEFINE d0 == Walk(ds, <<>>, Mapped(Front(q)))
                 n == Last(q)
      <4>1. Entered(q, s) = Front(q) /\ q # <<>>
        BY <2>2, <2>6, <3>5, EmptySeq DEF Entered
      <4>2. Written(n) = n /\ n \notin {"", ".", ".."}
        BY <3>5, NamesFacts DEF Written
      <4>3. d = Look(ds, d0, n) /\ d0 \in Place
        <5>1. d = Look(ds, d0, Written(n))
          BY <1>2, <2>2, <2>5, <4>1, MappedWalk
        <5>2. d0 \in Place
          BY <1>2, <2>2, <4>1, MappedWalk, FrontFacts
        <5> QED BY <4>2, <5>1, <5>2
      <4> HIDE DEF d0
      <4>4. d0 # Nowhere /\ d = Append(d0, n)
        BY <2>4, <4>2, <4>3 DEF Look
      <4>5. d0 \in Seq(Names)
        BY <4>3, <4>4 DEF Place, Dir
      <4>6. Parent(d) = d0
        <5>1. Append(d0, n) # <<>> /\ Front(Append(d0, n)) = d0
          BY <3>5, <4>5, AppendFront
        <5> QED BY <4>4, <5>1 DEF Parent
      <4> QED BY <2>2, <2>3, <3>3, <4>1, <4>6 DEF d0
    <3> QED BY <2>2, <3>2, <3>4, <3>5, CleanLast
  <2>7. CASE s = "."
    <3>1. Entered(q, s) = q /\ Look(ds, d, s) = d
      BY <2>7 DEF Entered, Look
    <3> QED BY <2>2, <2>3, <2>5, <3>1
  <2>8. CASE s \notin {".", ".."}
    <3>1. Entered(q, s) = Append(q, s) /\ s \in Segments
      BY <2>1, <2>8 DEF Entered, Segments
    <3>2. /\ Append(q, s) \in Seq(Segments) /\ Append(q, s) # <<>>
          /\ Front(Append(q, s)) = q /\ Last(Append(q, s)) = s
      BY <2>2, <3>1, AppendFront
    <3>3. Walk(ds, <<>>, Mapped(Append(q, s))) = Look(ds, Walk(ds, <<>>, Mapped(q)), Written(s))
      <4> DEFINE a == Append(q, s)
      <4> HIDE DEF a
      <4>1. a \in Seq(Segments) /\ a # <<>> /\ Front(a) = q /\ Last(a) = s
        BY <3>2 DEF a
      <4>2. Walk(ds, <<>>, Mapped(a)) = Look(ds, Walk(ds, <<>>, Mapped(Front(a))), Written(Last(a)))
        BY <1>2, <4>1, MappedWalk
      <4> QED BY <4>1, <4>2 DEF a
    <3> QED BY <2>2, <2>3, <2>5, <3>1, <3>3
  <2> QED BY <2>6, <2>7, <2>8
<1>5. Inherits(Parts, S)
  BY <1>4 DEF Inherits
<1> HIDE DEF S
<1>6. \A p \in Seq(Parts) : p \in S
  BY <1>3, <1>5, SeqInduction
<1> QED BY <1>6 DEF S

(***************************************************************************)
(* Texts, and paths from texts                                             *)
(***************************************************************************)
LEMMA NoRoot ==
    ASSUME NEW p \in Seq(Parts)
    PROVE  p \in PathSet
<1>1. p \in Seq(Segments) /\ \A i \in 1 .. Len(p) : p[i] # Root
  <2>1. Parts \subseteq Segments
    BY DEF Segments
  <2>2. p \in Seq(Segments)
    BY <2>1, SeqMonotonic
  <2>3. \A i \in 1 .. Len(p) : p[i] \in Parts
    BY ElementOfSeq
  <2> QED BY <2>2, <2>3, NamesFacts
<1>2. \A i \in 2 .. Len(p) : i \in 1 .. Len(p)
  BY LenProperties
<1> QED BY <1>1, <1>2 DEF PathSet

\* A sequence after one element.
LEMMA Behind ==
    ASSUME NEW T, NEW e \in Seq(T), Len(e) = 1, NEW v \in Seq(T)
    PROVE  /\ e \o v \in Seq(T) /\ Len(e \o v) = Len(v) + 1 /\ Len(v) \in Nat
           /\ (e \o v)[1] = e[1] /\ \A i \in 1 .. Len(v) : (e \o v)[i + 1] = v[i]
<1> DEFINE c == e \o v
<1>1. /\ c \in Seq(T) /\ Len(c) = Len(e) + Len(v)
      /\ \A i \in 1 .. Len(e) + Len(v) : c[i] = IF i <= Len(e) THEN e[i] ELSE v[i - Len(e)]
  BY ConcatProperties
<1>2. Len(v) \in Nat
  BY LenProperties
<1> HIDE DEF c
<1>3. Len(c) = Len(v) + 1
  BY <1>1, <1>2
<1>4. c[1] = e[1]
  <2>1. 1 \in 1 .. Len(e) + Len(v) /\ 1 <= Len(e)
    BY <1>2
  <2> QED BY <1>1, <2>1
<1>5. ASSUME NEW i \in 1 .. Len(v) PROVE c[i + 1] = v[i]
  <2>1. i + 1 \in 1 .. Len(e) + Len(v) /\ ~(i + 1 <= Len(e)) /\ i + 1 - Len(e) = i
    BY <1>2
  <2> QED BY <1>1, <2>1
<1> QED BY <1>1, <1>2, <1>3, <1>4, <1>5 DEF c

\* What comes after the root.
LEMMA RootBefore ==
    ASSUME NEW u \in Seq(Parts)
    PROVE  /\ <<Root>> \o u \in PathSet /\ Absolute(<<Root>> \o u)
           /\ u = <<>> => <<Root>> \o u = <<Root>>
           /\ u # <<>> => /\ Front(<<Root>> \o u) = <<Root>> \o Front(u)
                          /\ Last(<<Root>> \o u) = Last(u)
<1>1. ASSUME NEW v \in Seq(Parts)
      PROVE  /\ <<Root>> \o v \in Seq(Segments) /\ Len(<<Root>> \o v) = Len(v) + 1
             /\ Len(v) \in Nat /\ (<<Root>> \o v)[1] = Root
             /\ \A i \in 2 .. Len(v) + 1 : (<<Root>> \o v)[i] = v[i - 1]
             /\ \A i \in 1 .. Len(v) : v[i] # Root
  <2>1. v \in Seq(Segments)
    <3>1. Parts \subseteq Segments
      BY DEF Segments
    <3> QED BY <3>1, SeqMonotonic
  <2>2. \A i \in 1 .. Len(v) : v[i] # Root
    <3>1. \A i \in 1 .. Len(v) : v[i] \in Parts
      BY ElementOfSeq
    <3> QED BY <3>1, NamesFacts
  <2> DEFINE r == <<Root>>
  <2>3. r \in Seq(Segments) /\ Len(r) = 1 /\ r[1] = Root
    BY One DEF Segments
  <2> HIDE DEF r
  <2>4. /\ r \o v \in Seq(Segments) /\ Len(r \o v) = Len(v) + 1 /\ Len(v) \in Nat
        /\ (r \o v)[1] = r[1] /\ \A i \in 1 .. Len(v) : (r \o v)[i + 1] = v[i]
    BY <2>1, <2>3, Behind
  <2>5. ASSUME NEW i \in 2 .. Len(v) + 1 PROVE (r \o v)[i] = v[i - 1]
    <3>1. i - 1 \in 1 .. Len(v) /\ (i - 1) + 1 = i
      BY <2>4
    <3> QED BY <2>4, <3>1
  <2> QED BY <2>2, <2>3, <2>4, <2>5 DEF r
<1> DEFINE a == <<Root>> \o u
<1>2. /\ a \in Seq(Segments) /\ Len(a) = Len(u) + 1 /\ Len(u) \in Nat /\ a[1] = Root
      /\ \A i \in 2 .. Len(u) + 1 : a[i] = u[i - 1]
      /\ \A i \in 1 .. Len(u) : u[i] # Root
  BY <1>1
<1> HIDE DEF a
<1>3. a \in PathSet
  <2>1. \A i \in 2 .. Len(a) : a[i] # Root
    <3> SUFFICES ASSUME NEW i \in 2 .. Len(a) PROVE a[i] # Root
      OBVIOUS
    <3>1. i - 1 \in 1 .. Len(u) /\ a[i] = u[i - 1]
      BY <1>2
    <3> QED BY <1>2, <3>1
  <2> QED BY <1>2, <2>1 DEF PathSet
<1>4. a # <<>> /\ Absolute(a)
  <2>1. a # <<>>
    BY <1>2, EmptySeq
  <2> QED BY <1>2, <2>1, AbsoluteFacts
<1>5. ASSUME u = <<>> PROVE a = <<Root>>
  <2>1. <<Root>> \in Seq(Segments)
    BY One DEF Segments
  <2> QED BY <1>5, <2>1, ConcatEmptySeq DEF a
<1>6. ASSUME u # <<>> PROVE Front(a) = <<Root>> \o Front(u) /\ Last(a) = Last(u)
  <2>1. /\ Len(u) \in Nat \ {0} /\ Front(u) \in Seq(Parts) /\ Len(Front(u)) = Len(u) - 1
        /\ \A i \in 1 .. Len(u) - 1 : Front(u)[i] = u[i]
        /\ Last(u) = u[Len(u)]
    BY <1>6, FrontFacts
  <2>2. /\ Front(a) \in Seq(Segments) /\ Len(Front(a)) = Len(u)
        /\ \A i \in 1 .. Len(u) : Front(a)[i] = a[i]
        /\ Last(a) = a[Len(u) + 1]
    <3>1. Len(a) - 1 = Len(u)
      BY <1>2
    <3> QED BY <1>2, <1>4, <3>1, FrontFacts
  <2> DEFINE b == <<Root>> \o Front(u)
  <2>3. /\ b \in Seq(Segments) /\ Len(b) = Len(u) /\ b[1] = Root
        /\ \A i \in 2 .. Len(u) : b[i] = Front(u)[i - 1]
    <3>1. Len(Front(u)) + 1 = Len(u)
      BY <2>1
    <3> QED BY <1>1, <2>1, <3>1
  <2> HIDE DEF b
  <2>4. \A i \in 1 .. Len(u) : Front(a)[i] = b[i]
    <3> SUFFICES ASSUME NEW i \in 1 .. Len(u) PROVE Front(a)[i] = b[i]
      OBVIOUS
    <3>1. CASE i = 1
      BY <1>2, <2>2, <2>3, <3>1
    <3>2. CASE i \in 2 .. Len(u)
      <4>1. i \in 2 .. Len(u) + 1 /\ i - 1 \in 1 .. Len(u) - 1
        BY <1>2, <3>2
      <4>2. Front(a)[i] = u[i - 1]
        BY <1>2, <2>2, <4>1
      <4>3. b[i] = u[i - 1]
        BY <2>1, <2>3, <3>2, <4>1
      <4> QED BY <4>2, <4>3
    <3> QED BY <1>2, <3>1, <3>2
  <2>5. Front(a) = b
    BY <2>2, <2>3, <2>4, SeqEqual
  <2>6. Last(a) = Last(u)
    <3>1. Len(u) + 1 \in 2 .. Len(u) + 1 /\ (Len(u) + 1) - 1 = Len(u)
      BY <2>1
    <3> QED BY <1>2, <2>1, <2>2, <3>1
  <2> QED BY <2>5, <2>6 DEF b
<1> QED BY <1>3, <1>4, <1>5, <1>6 DEF a

\* path_parse of any text.
LEMMA ParseFacts ==
    ASSUME NEW t \in Seq(Parts), t # <<>>
    PROVE  /\ path_parse(t) \in PathSet
           /\ IsFromRoot(t) => Absolute(path_parse(t))
           /\ path_parse(t) = <<>> => t = <<"">>
<1> DEFINE Kept(u) == IF Last(u) = "" THEN Front(u) ELSE u
<1>1. ASSUME NEW u \in Seq(Parts), u # <<>> PROVE Kept(u) \in Seq(Parts)
  BY <1>1, FrontFacts
<1>2. path_parse(t) = IF IsFromRoot(t) THEN <<Root>> \o Kept(Tail(t)) ELSE Kept(t)
  BY DEF path_parse
<1>3. CASE IsFromRoot(t)
  <2>1. Tail(t) \in Seq(Parts) /\ Len(Tail(t)) = Len(t) - 1 /\ Len(t) > 1 /\ Len(t) \in Nat
    BY <1>3, HeadTailProperties, LenProperties DEF IsFromRoot
  <2>2. Tail(t) # <<>>
    <3> DEFINE w == Tail(t)
    <3>1. Len(w) > 0
      BY <2>1
    <3> HIDE DEF w
    <3>2. w # <<>>
      BY <3>1, EmptySeq
    <3> QED BY <3>2 DEF w
  <2>3. Kept(Tail(t)) \in Seq(Parts)
    BY <1>1, <2>1, <2>2
  <2> HIDE DEF Kept
  <2>4. path_parse(t) \in PathSet /\ Absolute(path_parse(t))
    BY <1>2, <1>3, <2>3, RootBefore
  <2> QED BY <2>4 DEF Absolute
<1>4. CASE ~IsFromRoot(t)
  <2>1. path_parse(t) = Kept(t) /\ Kept(t) \in Seq(Parts)
    BY <1>1, <1>2, <1>4
  <2>2. ASSUME Kept(t) = <<>> PROVE t = <<"">>
    <3>1. Last(t) = "" /\ Front(t) = <<>> /\ t = Append(Front(t), Last(t))
      BY <2>2, FrontFacts
    <3>2. <<"">> = Append(<<>>, "")
      OBVIOUS
    <3> QED BY <3>1, <3>2
  <2> HIDE DEF Kept
  <2> QED BY <1>4, <2>1, <2>2, NoRoot
<1> QED BY <1>3, <1>4

LEMMA TextsFacts == \A t \in Texts : t \in Seq(Parts) /\ t # <<>>
<1> SUFFICES ASSUME NEW t \in Texts PROVE t \in Seq(Parts) /\ t # <<>>
  OBVIOUS
<1>1. PICK n \in 1 .. MaxParts : t \in [1 .. n -> Parts]
  BY DEF Texts
<1>2. n \in Nat /\ n > 0
  <2>1. MaxParts \in Nat
    BY PathsAssumption
  <2> QED BY <2>1
<1>3. t \in Seq(Parts)
  BY <1>1, <1>2, SeqDef
<1>4. t # <<>>
  <2> SUFFICES ASSUME t = <<>> PROVE FALSE
    OBVIOUS
  <2>1. Len(t) = 0 /\ DOMAIN t = 1 .. Len(t) /\ DOMAIN t = 1 .. n
    BY <1>1, <1>3, LenProperties, EmptySeq
  <2>2. 1 \in 1 .. n /\ ~(1 \in 1 .. 0)
    BY <1>2
  <2> QED BY <2>1, <2>2
<1> QED BY <1>3, <1>4

\* The path from the root to a directory leads there.
LEMMA RootLeads ==
    ASSUME NEW ds \in Trees
    PROVE  \A d \in Dir : d \in ds => Walk(ds, <<>>, Mapped(<<Root>> \o d)) = d
<1> DEFINE S == {d \in Dir : d \in ds => Walk(ds, <<>>, Mapped(<<Root>> \o d)) = d}
<1>1. ASSUME NEW d \in Dir PROVE d \in Seq(Parts) /\ <<Root>> \o d \in Seq(Segments)
  <2>1. d \in Seq(Parts)
    BY SeqMonotonic DEF Dir, Parts
  <2> QED BY <2>1, RootBefore, PathFacts
<1>2. /\ ds \in SUBSET Dir /\ <<>> \in Place /\ <<>> \in Dir /\ Nowhere \notin Dir
  BY NamesFacts, TreeFacts, EmptySeq DEF Place, Dir
<1>3. <<>> \in S
  <2> DEFINE a == <<Root>> \o <<>>
  <2>1. a = <<Root>> /\ a \in Seq(Segments)
    BY <1>1, <1>2, RootBefore
  <2>2. Front(a) = <<>> /\ Last(a) = Root /\ a # <<>> /\ <<>> \in Seq(Segments)
    BY <2>1, One, EmptySeq DEF Segments
  <2> HIDE DEF a
  <2>3. Walk(ds, <<>>, Mapped(a)) = Look(ds, Walk(ds, <<>>, Mapped(<<>>)), Written(Root))
    <3>1. Walk(ds, <<>>, Mapped(a)) = Look(ds, Walk(ds, <<>>, Mapped(Front(a))), Written(Last(a)))
      BY <1>2, <2>1, <2>2, MappedWalk
    <3> QED BY <2>2, <3>1
  <2>4. Walk(ds, <<>>, Mapped(<<>>)) = <<>>
    BY <1>2, <2>2, MappedWalk
  <2>5. Walk(ds, <<>>, Mapped(a)) = <<>>
    BY <2>3, <2>4 DEF Look, Written
  <2> QED BY <1>2, <2>5 DEF a
<1>4. ASSUME NEW d \in Seq(Names), d # <<>>, Front(d) \in S, d \in ds
      PROVE  Walk(ds, <<>>, Mapped(<<Root>> \o d)) = d
  <2> DEFINE f == Front(d)
             n == Last(d)
             a == <<Root>> \o d
  <2>1. f \in Dir /\ n \in Names /\ d = Append(f, n) /\ f \in ds /\ d \in Dir
    BY <1>4, FrontFacts DEF Trees, Dir
  <2>2. Walk(ds, <<>>, Mapped(<<Root>> \o f)) = f
    BY <1>4, <2>1
  <2>3. a \in Seq(Segments) /\ Front(a) = <<Root>> \o f /\ Last(a) = n /\ a # <<>>
    BY <1>1, <1>4, <2>1, RootBefore DEF Absolute
  <2> HIDE DEF a, f, n
  <2>4. Walk(ds, <<>>, Mapped(a)) = Look(ds, Walk(ds, <<>>, Mapped(Front(a))), Written(Last(a)))
    BY <1>2, <2>3, MappedWalk
  <2>5. Written(n) = n /\ n \notin {"", ".", ".."}
    BY <2>1, NamesFacts DEF Written
  <2>6. f # Nowhere
    BY <1>2, <2>1
  <2>7. Look(ds, f, n) = d
    BY <1>4, <2>1, <2>5, <2>6 DEF Look
  <2> QED BY <2>2, <2>3, <2>4, <2>5, <2>7 DEF a
<1>5. Inherits(Names, S)
  BY <1>4 DEF Inherits, Dir
<1> HIDE DEF S
<1>6. \A d \in Seq(Names) : d \in S
  BY <1>3, <1>5, SeqInduction
<1> QED BY <1>6 DEF S, Dir

\* The text that getcwd gives.
LEMMA CwdText ==
    ASSUME NEW ds \in Trees, NEW d \in ds
    PROVE  path_parse(<<"">> \o (IF d = <<>> THEN <<"">> ELSE d)) = <<Root>> \o d
<1> DEFINE x == IF d = <<>> THEN <<"">> ELSE d
           t == <<"">> \o x
           Kept(u) == IF Last(u) = "" THEN Front(u) ELSE u
<1>1. d \in Seq(Names) /\ d \in Seq(Parts)
  BY TreeFacts, SeqMonotonic DEF Dir, Parts
<1>2. x \in Seq(Parts) /\ x # <<>> /\ "" \in Parts
  BY <1>1, One DEF Parts
<1>3. Kept(x) = d
  <2>1. CASE d = <<>>
    BY <1>2, <2>1, One
  <2>2. CASE d # <<>>
    <3>1. Last(d) \in Names
      BY <1>1, <2>2, FrontFacts
    <3> QED BY <2>2, <3>1, NamesFacts
  <2> QED BY <2>1, <2>2
<1> HIDE DEF x, Kept
<1>4. Len(t) > 1 /\ Head(t) = "" /\ Tail(t) = x
  <2> DEFINE e == <<"">>
             y == e \o x
  <2>1. e \in Seq(Parts) /\ Len(e) = 1 /\ e[1] = ""
    BY <1>2, One
  <2>2. Len(x) \in Nat \ {0}
    BY <1>2, EmptySeq
  <2> HIDE DEF e
  <2>3. /\ y \in Seq(Parts) /\ Len(y) = Len(x) + 1
        /\ y[1] = e[1] /\ \A i \in 1 .. Len(x) : y[i + 1] = x[i]
    BY <1>2, <2>1, Behind
  <2> HIDE DEF y
  <2>4. Len(y) > 1 /\ Len(y) - 1 = Len(x)
    BY <2>2, <2>3
  <2>5. y # <<>> /\ Head(y) = ""
    <3>1. y # <<>>
      BY <2>4, EmptySeq
    <3>2. Head(y) = y[1]
      BY <2>3, <3>1
    <3> QED BY <2>1, <2>3, <3>1, <3>2
  <2>6. /\ Tail(y) \in Seq(Parts) /\ Len(Tail(y)) = Len(y) - 1
        /\ \A i \in 1 .. Len(Tail(y)) : Tail(y)[i] = y[i + 1]
    BY <2>3, <2>5, HeadTailProperties
  <2>7. Tail(y) = x
    <3>1. Len(Tail(y)) = Len(x) /\ \A i \in 1 .. Len(Tail(y)) : Tail(y)[i] = x[i]
      BY <2>3, <2>4, <2>6
    <3> QED BY <1>2, <2>6, <3>1, SeqEqual
  <2> QED BY <2>4, <2>5, <2>7 DEF y, e
<1>5. path_parse(t) = IF IsFromRoot(t) THEN <<Root>> \o Kept(Tail(t)) ELSE Kept(t)
  BY DEF path_parse, Kept
<1>6. IsFromRoot(t)
  BY <1>4 DEF IsFromRoot
<1>7. path_parse(t) = <<Root>> \o d
  BY <1>3, <1>4, <1>5, <1>6
<1> QED BY <1>7 DEF x

(***************************************************************************)
(* The inductive invariant                                                 *)
(***************************************************************************)
IInv ==
    /\ dirs \in Trees
    /\ real \in dirs
    /\ cwd \in PathSet
    /\ held \in [segments : PathSet, meta : BOOLEAN]
    /\ InSync

LEMMA TextType == \A p \in Seq(Segments) : path_get_string(p) \in Seq(Parts)
<1> SUFFICES ASSUME NEW p \in Seq(Segments) PROVE path_get_string(p) \in Seq(Parts)
  OBVIOUS
<1>1. "" \in Parts /\ "." \in Parts
  BY DEF Parts
<1>2. <<".">> \in Seq(Parts) /\ <<"", "">> \in Seq(Parts)
  BY <1>1, One, Two
<1>3. Mapped(p) \in Seq(Parts)
  BY MappedFacts
<1> QED BY <1>2, <1>3, TextFacts

\* A path leads to a directory that is there, or nowhere.
LEMMA NamedStays ==
    ASSUME NEW ds \in Trees, NEW from \in ds, NEW p \in Seq(Segments)
    PROVE  Named(ds, from, path_get_string(p)) \in ds \cup {Nowhere}
<1>1. path_get_string(p) \in Seq(Parts) /\ <<>> \in ds
  BY TextType, TreeFacts
<1> DEFINE t == path_get_string(p)
           start == IF IsFromRoot(t) THEN <<>> ELSE from
<1>2. t \in Seq(Parts) /\ start \in ds
  BY <1>1
<1>3. Named(ds, from, t) = IF t = <<"">> THEN Nowhere ELSE Walk(ds, start, t)
  BY DEF Named
<1> HIDE DEF t, start
<1>4. Walk(ds, start, t) \in ds \cup {Nowhere}
  BY <1>2, WalkStays
<1> QED BY <1>3, <1>4 DEF t

\* Where a path from the root leads does not depend on where the process is.
LEMMA FromRoot ==
    ASSUME NEW ds \in SUBSET Dir, NEW from \in Place, NEW p \in Seq(Segments), Absolute(p)
    PROVE  Named(ds, from, path_get_string(p)) = Walk(ds, <<>>, Mapped(p))
<1>1. FromText(p)
  BY DEF FromText, Absolute, Root
<1> QED BY <1>1, NamedReach DEF Reach, Start

LEMMA TreePlace ==
    ASSUME NEW ds \in Trees
    PROVE  ds \in SUBSET Dir /\ \A d \in ds : d \in Place /\ d # Nowhere
  BY TreeFacts, NamesFacts DEF Place

\* What path_expand gives is a path, and from the root if the base is.
LEMMA ExpandType ==
    ASSUME NEW p \in PathSet, NEW base \in PathSet, NEW e \in path_expand(p, base)
    PROVE  /\ e = NullPointer \/ e \in PathSet
           /\ Absolute(base) => e = IF p = <<>> \/ Absolute(p) THEN p ELSE Over(p, base)
           /\ Absolute(base) /\ p # <<>> => Absolute(e)
<1> DEFINE x == IF p = <<>> \/ Absolute(p) THEN p ELSE Over(p, base)
<1>1. x \in PathSet /\ (Absolute(base) /\ p # <<>> => Absolute(x))
  <2>1. CASE p = <<>> \/ Absolute(p)
    BY <2>1
  <2>2. CASE ~(p = <<>> \/ Absolute(p))
    <3>1. p \in Seq(Parts)
      BY <2>2, PathFacts
    <3> QED BY <2>2, <3>1, OverFacts
  <2> QED BY <2>1, <2>2
<1>2. Absolute(base) => base # <<>>
  BY DEF Absolute
<1>3. e \in IF base = <<>> THEN {NullPointer, p, x} ELSE IF Absolute(base) THEN {x} ELSE {p}
  BY DEF path_expand
<1> HIDE DEF x
<1>4. e = NullPointer \/ e \in PathSet
  BY <1>1, <1>3
<1>5. Absolute(base) => e = x
  BY <1>2, <1>3
<1> QED BY <1>1, <1>4, <1>5 DEF x

LEMMA CrashStep == ASSUME IInv, Crash PROVE IInv' /\ cwd' = cwd
  BY DEF IInv, Crash, InSync

\* A change of the working directory moves the process to where its path leads.
LEMMA ChangeStep ==
    ASSUME IInv, NEW p \in PathSet, Change(p)
    PROVE  IInv' /\ cwd' = p
<1>1. /\ dirs \in Trees /\ real \in dirs /\ p \in Seq(Segments)
      /\ held \in [segments : PathSet, meta : BOOLEAN]
  BY PathFacts DEF IInv
<1> DEFINE there == Named(dirs, real, path_get_string(p))
<1>2. there # Nowhere /\ cwd' = p /\ real' = there /\ dirs' = dirs /\ held' = held
  BY DEF Change
<1>3. there \in dirs
  BY <1>1, <1>2, NamedStays
<1>4. ASSUME Absolute(p) PROVE Named(dirs, there, path_get_string(p)) = there
  <2>1. dirs \in SUBSET Dir /\ real \in Place /\ there \in Place
    BY <1>1, <1>3, TreePlace
  <2> QED BY <1>1, <1>4, <2>1, FromRoot
<1> HIDE DEF there
<1>5. InSync'
  <2> SUFFICES ASSUME Absolute(p) PROVE Named(dirs, there, path_get_string(p)) = there
    BY <1>2 DEF InSync
  <2> QED BY <1>4
<1> QED BY <1>1, <1>2, <1>3, <1>5 DEF IInv

\* lyra.core.api.cd of a path.
LEMMA CdStep ==
    ASSUME IInv, NEW p \in PathSet, lua_change_cwd(p)
    PROVE  IInv' /\ (Absolute(cwd) /\ p # <<>> => Absolute(cwd'))
<1>1. PICK e \in path_expand(p, cwd) : IF e = NullPointer THEN Crash ELSE Change(e)
  BY DEF lua_change_cwd
<1>2. cwd \in PathSet
  BY DEF IInv
<1>3. /\ e = NullPointer \/ e \in PathSet
      /\ Absolute(cwd) /\ p # <<>> => Absolute(e)
  BY <1>2, ExpandType
<1>4. CASE e = NullPointer
  BY <1>1, <1>4, CrashStep
<1>5. CASE e # NullPointer
  <2>1. e \in PathSet /\ Change(e)
    BY <1>1, <1>3, <1>5
  <2>2. IInv' /\ cwd' = e
    BY <2>1, ChangeStep
  <2> QED BY <1>3, <2>2
<1> QED BY <1>4, <1>5

\* The text that a state is read from names the directory the process is in.
LEMMA ReadCwd ==
    ASSUME NEW ds \in Trees, NEW d \in ds
    PROVE  LET p == path_parse(<<"">> \o (IF d = <<>> THEN <<"">> ELSE d))
           IN  p \in PathSet /\ Absolute(p) /\ Named(ds, d, path_get_string(p)) = d
<1> DEFINE p == path_parse(<<"">> \o (IF d = <<>> THEN <<"">> ELSE d))
<1>1. p = <<Root>> \o d
  BY CwdText
<1>2. d \in Dir /\ d \in Place /\ ds \in SUBSET Dir
  BY TreePlace, TreeFacts
<1>3. d \in Seq(Parts)
  <2>1. Names \subseteq Parts
    BY DEF Parts
  <2> QED BY <1>2, <2>1, SeqMonotonic DEF Dir
<1> HIDE DEF p
<1>4. p \in PathSet /\ Absolute(p)
  BY <1>1, <1>3, RootBefore
<1>5. Walk(ds, <<>>, Mapped(p)) = d
  BY <1>1, <1>2, RootLeads
<1>6. Named(ds, d, path_get_string(p)) = d
  BY <1>2, <1>4, <1>5, PathFacts, FromRoot
<1> QED BY <1>4, <1>6 DEF p

\* path_mkdir_p adds directories to the tree, under directories that are there.
LEMMA MakeDirStep ==
    ASSUME IInv, NEW t \in Texts, MakeArtifactDir(t)
    PROVE  IInv' /\ cwd' = cwd
<1>1. /\ dirs \in Trees /\ real \in dirs /\ cwd \in PathSet /\ InSync
      /\ held \in [segments : PathSet, meta : BOOLEAN]
  BY DEF IInv
<1>2. path_parse(t) \in Seq(Segments) /\ cwd \in Seq(Segments)
  BY <1>1, TextsFacts, ParseFacts, PathFacts
<1>3. /\ dirs' = path_mkdir_p(dirs, real, path_parse(t)).dirs
      /\ cwd' = cwd /\ real' = real /\ held' = held
  BY DEF MakeArtifactDir
<1>4. dirs' \in Trees /\ dirs \subseteq dirs'
  BY <1>1, <1>2, <1>3, MkdirNext DEF Makings
<1>5. InSync'
  <2> SUFFICES ASSUME Absolute(cwd) PROVE Named(dirs', real, path_get_string(cwd)) = real
    BY <1>3 DEF InSync
  <2>1. /\ dirs \in SUBSET Dir /\ dirs' \in SUBSET Dir /\ <<>> \in Place
        /\ real \in Place /\ real # Nowhere
    BY <1>1, <1>4, TreePlace, TreeFacts
  <2>2. Walk(dirs, <<>>, Mapped(cwd)) = real
    BY <1>1, <1>2, <2>1, FromRoot DEF InSync
  <2>3. Mapped(cwd) \in Seq(Parts)
    BY <1>2, MappedFacts
  <2>4. Walk(dirs', <<>>, Mapped(cwd)) = real
    BY <1>4, <2>1, <2>2, <2>3, WalkGrows
  <2> QED BY <1>2, <2>1, <2>4, FromRoot
<1> QED BY <1>1, <1>3, <1>4, <1>5 DEF IInv

\* The path of a Lua program is another one; the rest stays as it is.
LEMMA HoldStep ==
    ASSUME IInv, NEW p \in PathSet, NEW meta \in BOOLEAN, held' = Userdata(p, meta),
           UNCHANGED <<cwd, real, dirs>>
    PROVE  IInv' /\ cwd' = cwd
<1>1. held' \in [segments : PathSet, meta : BOOLEAN]
  BY DEF Userdata
<1> QED BY <1>1 DEF IInv, InSync

LEMMA CdTextStep ==
    ASSUME IInv, NEW t \in Texts, CdText(t)
    PROVE  IInv' /\ (Absolute(cwd) /\ ~Absolute(cwd') => CdText(<<"">>))
<1>1. path_parse(t) \in PathSet /\ (path_parse(t) = <<>> => t = <<"">>)
  BY TextsFacts, ParseFacts
<1>2. IInv' /\ (Absolute(cwd) /\ path_parse(t) # <<>> => Absolute(cwd'))
  BY <1>1, CdStep DEF CdText
<1> QED BY <1>1, <1>2

LEMMA BuiltinCdStep ==
    ASSUME IInv, NEW t \in Texts, BuiltinCd(t)
    PROVE  IInv' /\ (Absolute(cwd) => Absolute(cwd'))
<1> DEFINE u == IF t = <<"">> THEN <<".">> ELSE t
<1>1. u \in Seq(Parts) /\ u # <<>> /\ u # <<"">>
  <2>1. "." \in Parts /\ <<".">> # <<"">>
    BY DEF Parts
  <2>2. <<".">> \in Seq(Parts) /\ <<".">> # <<>>
    BY <2>1, One
  <2> QED BY <2>1, <2>2, TextsFacts
<1>2. PICK p \in path_expand(path_parse(u), cwd) : IF p = NullPointer THEN Crash ELSE lua_change_cwd(p)
  BY DEF BuiltinCd
<1> HIDE DEF u
<1>3. path_parse(u) \in PathSet /\ path_parse(u) # <<>> /\ cwd \in PathSet
  BY <1>1, ParseFacts DEF IInv
<1>4. (p = NullPointer \/ p \in PathSet) /\ (Absolute(cwd) => Absolute(p))
  BY <1>3, ExpandType
<1>5. CASE p = NullPointer
  BY <1>2, <1>5, CrashStep
<1>6. CASE p # NullPointer
  <2>1. p \in PathSet /\ lua_change_cwd(p)
    BY <1>2, <1>4, <1>6
  <2>2. Absolute(cwd) => p # <<>>
    BY <1>4 DEF Absolute
  <2> QED BY <2>1, <2>2, CdStep
<1> QED BY <1>5, <1>6

LEMMA CdHomeStep ==
    ASSUME IInv, BuiltinCdHome
    PROVE  IInv' /\ (Absolute(cwd) => Absolute(cwd'))
<1>1. Home \in Seq(Parts) /\ IsFromRoot(Home)
  BY PathsAssumption DEF Parts, IsFromRoot
<1>2. Home # <<>>
  <2>1. Len(Home) > 1
    BY <1>1 DEF IsFromRoot
  <2> QED BY <1>1, <2>1, EmptySeq
<1>3. path_parse(Home) \in PathSet /\ path_parse(Home) # <<>>
  <2>1. path_parse(Home) \in PathSet /\ Absolute(path_parse(Home))
    BY <1>1, <1>2, ParseFacts
  <2> QED BY <2>1 DEF Absolute
<1> QED BY <1>3, CdStep DEF BuiltinCdHome

LEMMA CdPathStep ==
    ASSUME IInv, CdPath
    PROVE  IInv' /\ (Absolute(cwd) /\ held.segments # <<>> => Absolute(cwd'))
<1>1. held.segments \in PathSet
  BY DEF IInv
<1> QED BY <1>1, CdStep DEF CdPath

\* A reload reads the state from the kernel, unless the text is too long.
LEMMA ReloadStep ==
    ASSUME IInv, Reload
    PROVE  IInv' /\ (~Absolute(cwd') => real \in TooLong)
<1> DEFINE p == path_parse(<<"">> \o (IF real = <<>> THEN <<"">> ELSE real))
<1>1. /\ dirs \in Trees /\ real \in dirs
      /\ dirs' = dirs /\ real' = real /\ held' = Userdata(<<>>, TRUE)
      /\ cwd' = IF real \in TooLong THEN <<>> ELSE p
  BY DEF IInv, Reload
<1>2. p \in PathSet /\ Absolute(p) /\ Named(dirs, real, path_get_string(p)) = real
  BY <1>1, ReadCwd
<1> HIDE DEF p
<1>3. <<>> \in PathSet /\ ~Absolute(<<>>)
  <2>1. <<>> \in Seq(Parts)
    BY EmptySeq
  <2> QED BY <2>1, NoRoot DEF Absolute
<1>4. held' \in [segments : PathSet, meta : BOOLEAN]
  BY <1>1, <1>3 DEF Userdata
<1>5. cwd' \in PathSet
  BY <1>1, <1>2, <1>3
<1>6. InSync'
  BY <1>1, <1>2, <1>3 DEF InSync
<1>7. ~Absolute(cwd') => real \in TooLong
  BY <1>1, <1>2
<1> QED BY <1>1, <1>4, <1>5, <1>6, <1>7 DEF IInv

\* What a Lua program does to its path.
LEMMA HeldStep ==
    ASSUME IInv,
           \/ NewPath \/ TakeCwd \/ PopSegment \/ ExpandHeld \/ TakeChild
           \/ (\E t \in Texts : ParsePath(t)) \/ (\E part \in Parts : PushName(part))
    PROVE  IInv' /\ cwd' = cwd
<1>1. cwd \in PathSet /\ held.segments \in PathSet
  BY DEF IInv
<1>2. ASSUME NEW p \in PathSet, Hold(p, TRUE) PROVE IInv' /\ cwd' = cwd
  BY <1>2, HoldStep DEF Hold
<1>3. CASE NewPath
  <2>1. <<>> \in Seq(Parts)
    BY EmptySeq
  <2> QED BY <1>2, <1>3, <2>1, NoRoot DEF NewPath
<1>4. CASE TakeCwd
  BY <1>1, <1>2, <1>4 DEF TakeCwd
<1>5. CASE PopSegment
  BY <1>1, <1>2, <1>5, PathFacts DEF PopSegment
<1>6. CASE ExpandHeld
  <2>1. PICK e \in path_expand(held.segments, cwd) :
          IF e = NullPointer THEN Crash ELSE Hold(e, TRUE)
    BY <1>6 DEF ExpandHeld
  <2>2. e = NullPointer \/ e \in PathSet
    BY <1>1, ExpandType
  <2> QED BY <1>2, <2>1, <2>2, CrashStep
<1>7. CASE TakeChild
  <2>1. PICK n \in Names : held' = Child(n)
    BY <1>7 DEF TakeChild
  <2>2. Append(held.segments, n) \in PathSet
    BY <1>1, PathFacts DEF Parts
  <2>3. UNCHANGED <<cwd, real, dirs>>
    BY <1>7 DEF TakeChild
  <2> QED BY <2>1, <2>2, <2>3, HoldStep DEF Child
<1>8. CASE \E t \in Texts : ParsePath(t)
  <2>1. PICK t \in Texts : Hold(path_parse(t), TRUE)
    BY <1>8 DEF ParsePath
  <2>2. path_parse(t) \in PathSet
    BY TextsFacts, ParseFacts
  <2> QED BY <1>2, <2>1, <2>2
<1>9. CASE \E part \in Parts : PushName(part)
  <2>1. PICK part \in Parts : Hold(Append(held.segments, part), TRUE)
    BY <1>9 DEF PushName
  <2>2. Append(held.segments, part) \in PathSet
    BY <1>1, PathFacts
  <2> QED BY <1>2, <2>1, <2>2
<1> QED BY <1>3, <1>4, <1>5, <1>6, <1>7, <1>8, <1>9

LEMMA InitIInv == Init => IInv
<1> SUFFICES ASSUME Init PROVE IInv
  OBVIOUS
<1>1. dirs \in Trees
  <2>1. /\ FirstDirs \subseteq Seq(Names) /\ <<>> \in FirstDirs
        /\ \A d \in FirstDirs \ {<<>>} : Front(d) \in FirstDirs
    BY PathsAssumption
  <2> QED BY <2>1 DEF Init, Trees, Dir
<1>2. real \in dirs /\ held = Userdata(<<>>, TRUE)
      /\ cwd = path_parse(<<"">> \o (IF real = <<>> THEN <<"">> ELSE real))
  BY DEF Init
<1>3. cwd \in PathSet /\ Named(dirs, real, path_get_string(cwd)) = real
  BY <1>1, <1>2, ReadCwd
<1>4. held \in [segments : PathSet, meta : BOOLEAN]
  <2>1. <<>> \in Seq(Parts)
    BY EmptySeq
  <2>2. <<>> \in PathSet
    BY <2>1, NoRoot
  <2> QED BY <1>2, <2>2 DEF Userdata
<1> QED BY <1>1, <1>2, <1>3, <1>4 DEF IInv, InSync

\* The ways in which state.vars.cwd may stop to start at the root.
MayLoseRoot ==
    \/ CdText(<<"">>)
    \/ held.segments = <<>> /\ CdPath
    \/ Reload /\ real \in TooLong

LEMMA NextIInv ==
    ASSUME IInv, [Next]_vars
    PROVE  IInv' /\ (Absolute(cwd) /\ ~Absolute(cwd') => MayLoseRoot)
<1>1. ASSUME NEW t \in Texts, CdText(t)
      PROVE  IInv' /\ (Absolute(cwd) /\ ~Absolute(cwd') => MayLoseRoot)
  BY <1>1, CdTextStep DEF MayLoseRoot
<1>2. ASSUME NEW t \in Texts, BuiltinCd(t) PROVE IInv' /\ (Absolute(cwd) => Absolute(cwd'))
  BY <1>2, BuiltinCdStep
<1>3. ASSUME NEW t \in Texts, MakeArtifactDir(t) PROVE IInv' /\ cwd' = cwd
  BY <1>3, MakeDirStep
<1>4. CASE CdPath
  BY <1>4, CdPathStep DEF MayLoseRoot
<1>5. CASE BuiltinCdHome
  BY <1>5, CdHomeStep
<1>6. CASE Reload
  BY <1>6, ReloadStep DEF MayLoseRoot
<1>7. CASE \/ NewPath \/ TakeCwd \/ PopSegment \/ ExpandHeld \/ TakeChild
           \/ (\E t \in Texts : ParsePath(t)) \/ (\E part \in Parts : PushName(part))
  BY <1>7, HeldStep
<1>8. CASE UNCHANGED vars
  BY <1>8 DEF vars, IInv, InSync
<1> QED BY <1>1, <1>2, <1>3, <1>4, <1>5, <1>6, <1>7, <1>8 DEF Next

LEMMA Inductive == Spec => []IInv
<1>1. IInv /\ [Next]_vars => IInv'
  BY NextIInv
<1> QED BY InitIInv, <1>1, PTL DEF Spec

(***************************************************************************)
(* The theorems                                                            *)
(***************************************************************************)
\* state.vars.cwd and the kernel name the same directory after every change of the
\* working directory, every reload and every mkdir, for any tree.
THEOREM AlwaysInSync == Spec => []InSync
<1>1. IInv => InSync
  BY DEF IInv
<1> QED BY <1>1, Inductive, PTL

\* state.vars.cwd keeps its root over all calls but those that are given an empty
\* path, and the reloads in directories whose text is too long.
THEOREM RootLostOnlyWhenEmpty == Spec => AbsoluteUntilEmptyCd
<1>1. IInv /\ [Next]_vars => (Absolute(cwd) /\ ~Absolute(cwd') =>
                                \/ CdText(<<"">>)
                                \/ held.segments = <<>> /\ CdPath
                                \/ Reload /\ real \in TooLong)
  BY NextIInv DEF MayLoseRoot
<1> QED BY <1>1, Inductive, PTL DEF Spec, AbsoluteUntilEmptyCd

\* path_expand does not change the directory that a path leads to, for any tree, any
\* working directory and any path that Lua can make, of any length.
THEOREM AlwaysExpandAgrees == Spec => []ExpandAgrees
<1>1. ASSUME IInv PROVE ExpandAgrees
  <2> DEFINE p == held.segments
             there == Named(dirs, real, path_get_string(p))
  <2> SUFFICES ASSUME Absolute(cwd), ~Absolute(p), FromText(p), there # Nowhere,
                      Contains(p, "..") => Clean(cwd) /\ ~Contains(p, ""),
                      NEW e \in path_expand(p, cwd)
               PROVE  Named(dirs, real, path_get_string(e)) = there
    BY DEF ExpandAgrees
  <2>1. /\ dirs \in Trees /\ real \in dirs /\ cwd \in PathSet /\ p \in PathSet
        /\ Named(dirs, real, path_get_string(cwd)) = real
    BY <1>1 DEF IInv, InSync
  <2> HIDE DEF p, there
  <2>2. dirs \in SUBSET Dir /\ real \in Place /\ cwd \in Seq(Segments) /\ p \in Seq(Segments)
    BY <2>1, TreePlace, PathFacts
  <2>3. p \in Seq(Parts)
    BY <2>1, PathFacts
  <2>4. e = IF p = <<>> \/ Absolute(p) THEN p ELSE Over(p, cwd)
    BY <2>1, ExpandType
  <2>5. CASE p = <<>>
    BY <2>4, <2>5 DEF there
  <2>6. CASE p # <<>>
    <3>1. e = Over(p, cwd)
      BY <2>4, <2>6
    <3>2. e \in PathSet /\ Absolute(e)
      BY <2>1, <2>3, <3>1, OverFacts
    <3>3. Named(dirs, real, path_get_string(e)) = Walk(dirs, <<>>, Mapped(e))
      BY <2>2, <3>2, PathFacts, FromRoot
    <3>4. there = Walk(dirs, real, Mapped(p))
      BY <2>2, NamedReach DEF there, Reach, Start
    <3>5. Walk(dirs, <<>>, Mapped(cwd)) = real
      BY <2>1, <2>2, FromRoot
    <3>6. Without(p, "..") \/ (Clean(cwd) /\ Without(p, ""))
      BY DEF Without, Contains
    <3>7. Walk(dirs, <<>>, Mapped(Over(p, cwd))) = Walk(dirs, real, Mapped(p))
      BY <2>1, <2>3, <3>4, <3>5, <3>6, OverLeads
    <3> QED BY <3>1, <3>3, <3>4, <3>7
  <2> QED BY <2>5, <2>6
<1> QED BY <1>1, Inductive, PTL

\* path_mkdir_p tells the truth about what it made, for any path and any tree.
THEOREM AlwaysMkdirMakes == Spec => []MkdirMakes
<1>1. ASSUME IInv PROVE MkdirMakes
  <2> DEFINE p == held.segments
             made == path_mkdir_p(dirs, real, p)
  <2>1. dirs \in Trees /\ real \in dirs /\ p \in Seq(Segments)
    BY <1>1, PathFacts DEF IInv
  <2> HIDE DEF p
  <2>2. made \in Makings(dirs)
    BY <2>1, MkdirNext
  <2> SUFFICES ASSUME FromText(p) PROVE made.ok <=> path_is_dir(made.dirs, real, p)
    BY DEF MkdirMakes, p
  <2>3. made.ok <=> Reach(made.dirs, real, p) # Nowhere
    BY <2>1, MkdirMakesIt
  <2> HIDE DEF made
  <2>4. made.dirs \in SUBSET Dir /\ real \in Place
    BY <2>1, <2>2, TreePlace DEF Makings
  <2>5. Named(made.dirs, real, path_get_string(p)) = Reach(made.dirs, real, p)
    BY <2>1, <2>4, NamedReach
  <2> QED BY <2>3, <2>5 DEF path_is_dir
<1> QED BY <1>1, Inductive, PTL
=============================================================================
