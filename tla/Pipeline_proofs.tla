-------------------------- MODULE Pipeline_proofs ---------------------------
(***************************************************************************)
(* Theorems about Pipeline, for any number of pipes and any capacity, any  *)
(* lines one after another, and any system calls that may fail: who owns   *)
(* the descriptors of the shell, where a program finds its streams, and    *)
(* that a pipeline keeps the promise of PipedLine.                         *)
(***************************************************************************)
EXTENDS Pipeline, FiniteSetTheorems, SequenceTheorems, WellFoundedInduction, TLAPS

(***************************************************************************)
(* Types                                                                   *)
(***************************************************************************)
Places == {"prompt", "open", "run_src", "run_out", "close_pipe", "close_output",
           "wait_src", "wait_out", "exited"}
Stages == {"none", "forked", "program", "writing", "reading", "exited", "killed"}

PipeEnds == {ReadEnd(p) : p \in Pipes} \cup {WriteEnd(p) : p \in Pipes}
Descriptor == {Closed, Tty, File} \cup PipeEnds
Table == [Fds -> Descriptor]

Above == 3 .. MaxFd
Number == Above \cup {NoFd}
Struct == (Above \X Above) \cup {ClosedPipe}

TypeOK ==
    /\ pc \in Places
    /\ line \in [piped : BOOLEAN, both : BOOLEAN, redir : BOOLEAN]
    /\ pipe \in Struct /\ garbage \subseteq Struct
    /\ output \in Number
    /\ fds \in [Procs -> Table]
    /\ buf \in [Pipes -> Nat]
    /\ child \in [Children -> Stages]
    /\ copy \in [Children -> Struct]
    /\ next \in [Children -> 1 .. 3]
    /\ wrote \in Nat /\ got \in Nat /\ eof \in BOOLEAN

(***************************************************************************)
(* Control: which children there are, which are waited for, and whether    *)
(* the line has a pipe and a file, follow from where lang.lua is.          *)
(***************************************************************************)
PipeOpen == line.piped /\ pc \in {"open", "run_src", "run_out", "close_pipe"}

ControlInv ==
    /\ pc \in {"prompt", "open", "run_src"} => \A c \in Children : child[c] = "none"
    /\ pc = "run_out" => child["out"] = "none" /\ (child["src"] # "none" <=> line.piped)
    /\ pc \in {"close_pipe", "close_output", "wait_src", "wait_out"} =>
         child["out"] # "none" /\ (child["src"] # "none" <=> line.piped)
    /\ pc = "exited" => child["out"] = "none" /\ (child["src"] # "none" => line.piped)
    /\ pc = "wait_out" /\ line.piped => Ended("src")
    /\ pc \in {"open", "close_output"} => line.redir
    /\ pc \in {"run_src", "close_pipe", "wait_src"} => line.piped
    /\ pc = "open" \/ ~line.redir => output = NoFd
    /\ pc # "exited" => (pipe # ClosedPipe <=> PipeOpen)
    /\ child["src"] # "reading"
    /\ child["out"] \notin {"writing", "killed"}

(***************************************************************************)
(* The shell's table                                                       *)
(***************************************************************************)
\* The ends of p are where u says, and nowhere else.
HasEnds(t, u, p) ==
    \A n \in Fds : (t[n] = ReadEnd(p) <=> n = u[1]) /\ (t[n] = WriteEnd(p) <=> n = u[2])

Structs == (garbage \cup {pipe}) \ {ClosedPipe}

\* Of a table t: the terminal is at the first three numbers, the file at f, and each of
\* the struct Pipes has the two ends of a pipe; there is nothing else.
Sound(t, structs, f) ==
    /\ \A n \in 0 .. 2 : t[n] = Tty
    /\ \A n \in Above : t[n] # Tty
    /\ \A n \in Above : t[n] = File <=> n = f
    /\ \A u \in structs : \E p \in Pipes : HasEnds(t, u, p)
    /\ \A n \in Above : t[n] \in PipeEnds => \E u \in structs : n \in Ends(u)

FileAt == IF OutputOpen THEN output ELSE NoFd

ShellInv ==
    pc # "exited" =>
        /\ Sound(fds["shell"], Structs, FileAt)
        /\ pipe # ClosedPipe => pipe \notin garbage

(***************************************************************************)
(* The children's tables.  A child that is not there has none; one that is *)
(* has the shell's of the time of the fork, changed by its binds.          *)
(***************************************************************************)
Running(c) == child[c] = "forked" \/ InProgram(c)

Bound(c) == next[c] \notin DOMAIN Binds(c)

SrcInv(p) ==
    Running("src") =>
        /\ fds["src"][0] = Tty
        /\ IF Bound("src")
           THEN /\ fds["src"][1] = WriteEnd(p)
                /\ fds["src"][2] = IF line.both THEN WriteEnd(p) ELSE Tty
                /\ \A n \in Fds : fds["src"][n] # ReadEnd(p)
                /\ fds["src"][copy["src"][2]] = WriteEnd(p)
           ELSE /\ fds["src"][1] = Tty /\ fds["src"][2] = Tty
                /\ HasEnds(fds["src"], copy["src"], p)
        /\ copy["src"] # ClosedPipe
        /\ InProgram("src") => Bound("src")

\* Where the file goes, and before that where it is.
FileInv ==
    /\ fds["out"][1] = IF output # NoFd /\ next["out"] > 1 THEN File ELSE Tty
    /\ output # NoFd => fds["out"][output] = File

OutInv(p) ==
    Running("out") =>
        /\ FileInv /\ fds["out"][2] = Tty
        /\ line.piped =>
             /\ IF Bound("out")
                THEN /\ fds["out"][0] = ReadEnd(p)
                     /\ \A n \in Fds : fds["out"][n] # WriteEnd(p)
                ELSE fds["out"][0] = Tty /\ HasEnds(fds["out"], copy["out"], p)
             /\ copy["out"] # ClosedPipe
        /\ ~line.piped => fds["out"][0] = Tty
        /\ InProgram("out") => Bound("out")

EmptyInv == \A c \in Children : ~Running(c) => fds[c] = Empty

\* The line's pipe is p.
PipeInv(p) ==
    /\ pc # "exited" /\ PipeOpen => HasEnds(fds["shell"], pipe, p)
    /\ line.piped /\ pc \notin {"prompt", "exited"} => buf[p] + got = wrote
    /\ SrcInv(p) /\ OutInv(p)

IInv ==
    /\ TypeOK /\ ControlInv /\ ShellInv /\ EmptyInv
    /\ \E p \in Pipes : PipeInv(p)

(***************************************************************************)
(* Descriptors                                                             *)
(***************************************************************************)
LEMMA DescriptorFacts ==
    /\ Closed # Tty /\ Closed # File /\ Tty # File
    /\ \A p \in Pipes : ReadEnd(p) \notin {Closed, Tty, File}
    /\ \A p \in Pipes : WriteEnd(p) \notin {Closed, Tty, File}
    /\ \A p, q \in Pipes : ReadEnd(p) # WriteEnd(q)
    /\ \A p, q \in Pipes : ReadEnd(p) = ReadEnd(q) => p = q
    /\ \A p, q \in Pipes : WriteEnd(p) = WriteEnd(q) => p = q
    /\ \A p \in Pipes : ReadEnd(p) \in Descriptor /\ WriteEnd(p) \in Descriptor
  BY PipelineAssumption DEF Closed, Tty, File, ReadEnd, WriteEnd, Descriptor, PipeEnds

LEMMA FdFacts ==
    /\ MaxFd \in Nat /\ 0 \in Fds /\ 1 \in Fds /\ 2 \in Fds
    /\ Above \subseteq Fds /\ NoFd \notin Fds /\ \A n \in Fds : n \in Above \/ n \in 0 .. 2
    /\ 0 \notin Above /\ 1 \notin Above /\ 2 \notin Above
<1>1. MaxFd \in Nat /\ MaxFd >= 3
  <2>1. Cardinality(Pipes) \in Nat
    BY PipelineAssumption, FS_CardinalityType
  <2> QED BY <2>1, PipelineAssumption
<1> QED BY <1>1 DEF Fds, Above, NoFd

LEMMA Least ==
    ASSUME NEW S \in SUBSET Nat, S # {}
    PROVE  \E i \in S : \A j \in S : i <= j
<1> DEFINE R == {ss \in Nat \X Nat : ss[1] < ss[2]}
<1>1. IsWellFoundedOn(R, Nat)
  BY NatLessThanWellFounded DEF OpToRel
<1>2. \E x \in S : \A y \in S : ~(<<y, x>> \in R)
  <2> HIDE DEF R
  <2> QED BY <1>1, WFMin
<1>3. PICK x \in S : \A y \in S : ~(<<y, x>> \in R)
  BY <1>2
<1>4. ASSUME NEW y \in S PROVE x <= y
  <2>1. <<y, x>> \in Nat \X Nat /\ ~(<<y, x>> \in R)
    BY <1>3
  <2>2. ~(y < x)
    BY <2>1
  <2> QED BY <2>2
<1> QED BY <1>4

\* pipe(2) and open(2) take the lowest free number, if there is one.
LEMMA LowestFacts ==
    ASSUME NEW t, Unused(t) # {}
    PROVE  Lowest(t) \in Unused(t)
<1>1. Unused(t) \in SUBSET Nat
  BY FdFacts DEF Unused, Fds
<1>2. \E n \in Unused(t) : \A m \in Unused(t) : n <= m
  BY <1>1, Least
<1> QED BY <1>2 DEF Lowest

\* What is open beyond the first three is open once.
NoDoubles(t) == \A m, n \in Above : t[m] = t[n] /\ t[m] # Closed => m = n


\* A table with the terminal, no file, and pipes that are there once, has room: that is
\* how high MaxFd is.
LEMMA Room ==
    ASSUME NEW t \in Table, NoDoubles(t), \A n \in Above : t[n] \notin {Tty, File}
    PROVE  \E n \in Above : t[n] = Closed
<1> SUFFICES ASSUME \A n \in Above : t[n] # Closed PROVE FALSE
  OBVIOUS
<1> DEFINE Reads == {ReadEnd(p) : p \in Pipes}
           Writes == {WriteEnd(p) : p \in Pipes}
           f == [n \in Above |-> t[n]]
           N == Cardinality(Pipes)
<1>1. N \in Nat /\ IsFiniteSet(Pipes)
  BY PipelineAssumption, FS_CardinalityType
<1>2. IsFiniteSet(Reads) /\ Cardinality(Reads) <= N
  <2>1. [p \in Pipes |-> ReadEnd(p)] \in Surjection(Pipes, Reads)
    BY DEF Surjection
  <2> QED BY <1>1, <2>1, FS_Surjection
<1>3. IsFiniteSet(Writes) /\ Cardinality(Writes) <= N
  <2>1. [p \in Pipes |-> WriteEnd(p)] \in Surjection(Pipes, Writes)
    BY DEF Surjection
  <2> QED BY <1>1, <2>1, FS_Surjection
<1>4. IsFiniteSet(PipeEnds) /\ Cardinality(PipeEnds) <= 2 * N
  <2>1. IsFiniteSet(Reads \cap Writes)
    BY <1>2, FS_Intersection
  <2>2. /\ IsFiniteSet(Reads \cup Writes)
        /\ Cardinality(Reads \cup Writes) = Cardinality(Reads) + Cardinality(Writes)
                                               - Cardinality(Reads \cap Writes)
    BY <1>2, <1>3, FS_Union
  <2>3. /\ Cardinality(Reads \cap Writes) \in Nat
        /\ Cardinality(Reads) \in Nat /\ Cardinality(Writes) \in Nat
    BY <1>2, <1>3, <2>1, FS_CardinalityType
  <2> QED BY <1>1, <1>2, <1>3, <2>2, <2>3 DEF PipeEnds
<1>5. IsFiniteSet(Above) /\ Cardinality(Above) > 2 * N
  <2>1. MaxFd \in Int /\ MaxFd >= 2 * N + 3
    BY PipelineAssumption
  <2>2. IsFiniteSet(Above) /\ Cardinality(Above) = IF 3 > MaxFd THEN 0 ELSE MaxFd - 3 + 1
    BY <2>1, FS_Interval DEF Above
  <2> QED BY <1>1, <2>1, <2>2
<1>6. f \in [Above -> PipeEnds]
  BY FdFacts DEF Table, Descriptor
<1>7. Cardinality(PipeEnds) < Cardinality(Above)
  <2>1. Cardinality(PipeEnds) \in Nat /\ Cardinality(Above) \in Nat
    BY <1>4, <1>5, FS_CardinalityType
  <2> QED BY <1>1, <1>4, <1>5, <2>1
<1>8. \E m, n \in Above : m # n /\ f[m] = f[n]
  <2> HIDE DEF f
  <2> QED BY <1>4, <1>5, <1>6, <1>7, FS_PigeonHole
<1> QED BY <1>8 DEF NoDoubles

LEMMA LowestAbove ==
    ASSUME NEW t \in Table, NoDoubles(t), \A n \in Above : t[n] \notin {Tty, File},
           \A n \in 0 .. 2 : t[n] = Tty
    PROVE  Lowest(t) \in Above /\ t[Lowest(t)] = Closed
<1>1. Unused(t) # {}
  BY Room, FdFacts DEF Unused
<1>2. Lowest(t) \in Fds /\ t[Lowest(t)] = Closed
  BY <1>1, LowestFacts DEF Unused
<1> QED BY <1>2, FdFacts, DescriptorFacts

\* The pipe that pipe(2) makes has two numbers that were free.
LEMMA NewPipeFacts ==
    ASSUME NEW t \in Table, NoDoubles(t), \A n \in Above : t[n] \notin {Tty, File},
           \A n \in 0 .. 2 : t[n] = Tty,
           NEW p \in Pipes, \A n \in Fds : t[n] \notin {ReadEnd(p), WriteEnd(p)}
    PROVE  \E r, w \in Above :
              /\ r # w /\ t[r] = Closed /\ t[w] = Closed
              /\ NewPipe(t, p).ends = <<r, w>>
              /\ NewPipe(t, p).table = [t EXCEPT ![r] = ReadEnd(p), ![w] = WriteEnd(p)]
<1> DEFINE r == Lowest(t)
           half == [t EXCEPT ![r] = ReadEnd(p)]
           w == Lowest(half)
<1>1. r \in Above /\ t[r] = Closed
  BY LowestAbove
<1> HIDE DEF r
<1>2. half \in Table /\ \A n \in Fds : half[n] = IF n = r THEN ReadEnd(p) ELSE t[n]
  BY <1>1, DescriptorFacts DEF Table
<1>3. \A n \in Above : half[n] \notin {Tty, File}
  BY <1>1, <1>2, FdFacts, DescriptorFacts
<1>4. \A n \in 0 .. 2 : half[n] = Tty
  BY <1>1, <1>2, FdFacts
<1>5. NoDoubles(half)
  BY <1>1, <1>2, FdFacts DEF NoDoubles
<1> HIDE DEF half
<1>6. w \in Above /\ half[w] = Closed
  BY <1>2, <1>3, <1>4, <1>5, LowestAbove
<1>7. r # w /\ t[w] = Closed
  BY <1>1, <1>2, <1>6, FdFacts, DescriptorFacts
<1>8. NewPipe(t, p) = [table |-> [half EXCEPT ![w] = WriteEnd(p)], ends |-> <<r, w>>]
  BY DEF NewPipe, half, r
<1>9. [half EXCEPT ![w] = WriteEnd(p)] = [t EXCEPT ![r] = ReadEnd(p), ![w] = WriteEnd(p)]
  BY DEF half
<1> HIDE DEF w
<1>10. /\ NewPipe(t, p).ends = <<r, w>>
       /\ NewPipe(t, p).table = [t EXCEPT ![r] = ReadEnd(p), ![w] = WriteEnd(p)]
  BY <1>8, <1>9
<1> QED BY <1>1, <1>6, <1>7, <1>10

LEMMA ShutPipeFacts ==
    ASSUME NEW t \in Table, NEW u \in Struct
    PROVE  /\ ShutPipe(t, u) \in Table
           /\ \A n \in Fds : ShutPipe(t, u)[n] = IF n \in Ends(u) THEN Closed ELSE t[n]
<1>1. \A i \in {1, 2} : u[i] = NoFd \/ u[i] \in Fds
  BY FdFacts DEF Struct, ClosedPipe
<1>2. Closed \in Descriptor
  BY DEF Descriptor
<1> QED BY <1>1, <1>2, FdFacts DEF ShutPipe, Shut, Table, Ends

(***************************************************************************)
(* What the shell does to its table                                        *)
(***************************************************************************)
LEMMA StructFacts ==
    ASSUME NEW u \in Above \X Above
    PROVE  /\ u = <<u[1], u[2]>> /\ u[1] \in Above /\ u[2] \in Above
           /\ Ends(u) = {u[1], u[2]} /\ u # ClosedPipe
  BY FdFacts DEF Ends, ClosedPipe

\* Two struct Pipes of one pipe, or with a number in common, are the same.
LEMMA SoundDisjoint ==
    ASSUME NEW t \in Table, NEW G \in SUBSET (Above \X Above), NEW f, Sound(t, G, f),
           NEW u \in G, NEW v \in G
    PROVE  /\ \A p \in Pipes : HasEnds(t, u, p) /\ HasEnds(t, v, p) => u = v
           /\ Ends(u) \cap Ends(v) # {} => u = v
<1>1. /\ u = <<u[1], u[2]>> /\ u[1] \in Above /\ u[2] \in Above /\ Ends(u) = {u[1], u[2]}
      /\ v = <<v[1], v[2]>> /\ v[1] \in Above /\ v[2] \in Above /\ Ends(v) = {v[1], v[2]}
  BY StructFacts
<1>2. ASSUME NEW p \in Pipes, HasEnds(t, u, p), HasEnds(t, v, p) PROVE u = v
  <2>1. t[u[1]] = ReadEnd(p) /\ t[u[2]] = WriteEnd(p)
    BY <1>1, <1>2, FdFacts DEF HasEnds
  <2>2. u[1] = v[1] /\ u[2] = v[2]
    BY <1>1, <1>2, <2>1, FdFacts DEF HasEnds
  <2> QED BY <1>1, <2>2
<1>3. ASSUME NEW n \in Ends(u), n \in Ends(v) PROVE u = v
  <2>1. PICK p \in Pipes : HasEnds(t, u, p)
    BY DEF Sound
  <2>2. PICK q \in Pipes : HasEnds(t, v, q)
    BY DEF Sound
  <2>3. n \in Fds
    BY <1>1, FdFacts
  <2>4. t[n] = ReadEnd(p) \/ t[n] = WriteEnd(p)
    BY <1>1, <1>3, <2>1, <2>3 DEF HasEnds
  <2>5. t[n] = ReadEnd(q) \/ t[n] = WriteEnd(q)
    BY <1>1, <1>3, <2>2, <2>3 DEF HasEnds
  <2>6. p = q
    BY <2>4, <2>5, DescriptorFacts
  <2> QED BY <1>2, <2>1, <2>2, <2>6
<1> QED BY <1>2, <1>3

\* What is open beyond the first three is open once, and is no pipe's end twice.
LEMMA SoundNoDoubles ==
    ASSUME NEW t \in Table, NEW G \in SUBSET (Above \X Above), NEW f, Sound(t, G, f)
    PROVE  NoDoubles(t)
<1> SUFFICES ASSUME NEW m \in Above, NEW n \in Above, t[m] = t[n], t[m] # Closed
             PROVE  m = n
  BY DEF NoDoubles
<1>1. CASE t[m] = File
  BY <1>1 DEF Sound
<1>2. CASE t[m] # File
  <2>1. t[m] \in PipeEnds
    BY <1>2, FdFacts DEF Sound, Table, Descriptor
  <2>2. PICK u \in G : m \in Ends(u)
    BY <2>1 DEF Sound
  <2>3. PICK p \in Pipes : HasEnds(t, u, p)
    BY DEF Sound
  <2>4. u[1] \in Above /\ u[2] \in Above /\ Ends(u) = {u[1], u[2]}
    BY StructFacts
  <2>5. CASE m = u[1]
    <3>1. t[m] = ReadEnd(p)
      BY <2>3, <2>5, FdFacts DEF HasEnds
    <3> QED BY <2>3, <2>5, <3>1, FdFacts DEF HasEnds
  <2>6. CASE m = u[2]
    <3>1. t[m] = WriteEnd(p)
      BY <2>3, <2>6, FdFacts DEF HasEnds
    <3> QED BY <2>3, <2>6, <3>1, FdFacts DEF HasEnds
  <2> QED BY <2>2, <2>4, <2>5, <2>6
<1> QED BY <1>1, <1>2

LEMMA SoundClosePipe ==
    ASSUME NEW t \in Table, NEW G \in SUBSET (Above \X Above), NEW f, Sound(t, G, f),
           NEW u \in G
    PROVE  /\ Sound(ShutPipe(t, u), G \ {u}, f)
           /\ \A v \in G \ {u}, p \in Pipes :
                 HasEnds(t, v, p) => HasEnds(ShutPipe(t, u), v, p)
<1> DEFINE s == ShutPipe(t, u)
<1>0. u[1] \in Above /\ u[2] \in Above /\ Ends(u) = {u[1], u[2]} /\ u \in Struct
  BY StructFacts DEF Struct
<1>1. s \in Table /\ \A n \in Fds : s[n] = IF n \in Ends(u) THEN Closed ELSE t[n]
  BY <1>0, ShutPipeFacts
<1> HIDE DEF s
<1>2. PICK q \in Pipes : HasEnds(t, u, q)
  BY DEF Sound
<1>3. t[u[1]] = ReadEnd(q) /\ t[u[2]] = WriteEnd(q)
  BY <1>0, <1>2, FdFacts DEF HasEnds
<1>4. ASSUME NEW v \in G \ {u}, NEW p \in Pipes, HasEnds(t, v, p)
      PROVE  HasEnds(s, v, p)
  <2>1. v[1] \in Above /\ v[2] \in Above /\ Ends(v) = {v[1], v[2]}
    BY StructFacts
  <2>2. v[1] \notin Ends(u) /\ v[2] \notin Ends(u)
    BY <2>1, SoundDisjoint
  <2> QED BY <1>1, <1>4, <2>1, <2>2, FdFacts, DescriptorFacts DEF HasEnds
<1>5. \A n \in 0 .. 2 : s[n] = Tty
  BY <1>0, <1>1, FdFacts DEF Sound, Fds, Above
<1>6. \A n \in Above : s[n] # Tty
  BY <1>1, FdFacts, DescriptorFacts DEF Sound
<1>7. \A n \in Above : s[n] = File <=> n = f
  BY <1>0, <1>1, <1>3, FdFacts, DescriptorFacts DEF Sound
<1>8. \A v \in G \ {u} : \E p \in Pipes : HasEnds(s, v, p)
  BY <1>4 DEF Sound
<1>9. ASSUME NEW n \in Above, s[n] \in PipeEnds PROVE \E v \in G \ {u} : n \in Ends(v)
  <2>1. n \notin Ends(u) /\ t[n] \in PipeEnds
    BY <1>1, <1>9, FdFacts, DescriptorFacts DEF PipeEnds
  <2> QED BY <2>1 DEF Sound
<1> QED BY <1>4, <1>5, <1>6, <1>7, <1>8, <1>9 DEF Sound, s

LEMMA SoundOpenPipe ==
    ASSUME NEW t \in Table, NEW G \in SUBSET (Above \X Above), NEW f, Sound(t, G, f),
           NEW p \in Pipes, \A n \in Fds : t[n] \notin {ReadEnd(p), WriteEnd(p)},
           NEW r \in Above, NEW w \in Above, r # w, t[r] = Closed, t[w] = Closed
    PROVE  LET s == [t EXCEPT ![r] = ReadEnd(p), ![w] = WriteEnd(p)]
           IN  /\ s \in Table /\ Sound(s, G \cup {<<r, w>>}, f)
               /\ HasEnds(s, <<r, w>>, p) /\ <<r, w>> \notin G
<1> DEFINE s == [t EXCEPT ![r] = ReadEnd(p), ![w] = WriteEnd(p)]
<1>1. /\ s \in Table
      /\ \A n \in Fds : s[n] = IF n = w THEN WriteEnd(p) ELSE IF n = r THEN ReadEnd(p) ELSE t[n]
  BY FdFacts, DescriptorFacts DEF Table
<1> HIDE DEF s
<1>2. HasEnds(s, <<r, w>>, p)
  BY <1>1, DescriptorFacts DEF HasEnds
<1>3. ASSUME NEW u \in G
      PROVE  /\ r \notin Ends(u) /\ w \notin Ends(u)
             /\ \A q \in Pipes : HasEnds(t, u, q) => HasEnds(s, u, q)
  <2>1. u[1] \in Above /\ u[2] \in Above /\ Ends(u) = {u[1], u[2]}
    BY StructFacts
  <2>2. PICK q \in Pipes : HasEnds(t, u, q)
    BY DEF Sound
  <2>3. t[u[1]] = ReadEnd(q) /\ t[u[2]] = WriteEnd(q)
    BY <2>1, <2>2, FdFacts DEF HasEnds
  <2>4. r \notin Ends(u) /\ w \notin Ends(u)
    BY <2>1, <2>3, DescriptorFacts
  <2>5. ASSUME NEW o \in Pipes, HasEnds(t, u, o) PROVE HasEnds(s, u, o)
    <3>1. t[u[1]] = ReadEnd(o) /\ t[u[2]] = WriteEnd(o)
      BY <2>1, <2>5, FdFacts DEF HasEnds
    <3>2. o # p
      BY <2>1, <3>1, FdFacts
    <3> QED BY <1>1, <2>1, <2>4, <2>5, <3>2, FdFacts, DescriptorFacts DEF HasEnds
  <2> QED BY <2>4, <2>5
<1>4. <<r, w>> \notin G
  <2>1. r \in Ends(<<r, w>>)
    BY StructFacts
  <2> QED BY <1>3, <2>1
<1>5. \A n \in 0 .. 2 : s[n] = Tty
  BY <1>1, FdFacts DEF Sound, Fds, Above
<1>6. \A n \in Above : s[n] # Tty
  BY <1>1, FdFacts, DescriptorFacts DEF Sound
<1>7. \A n \in Above : s[n] = File <=> n = f
  BY <1>1, FdFacts, DescriptorFacts DEF Sound
<1>8. \A u \in G \cup {<<r, w>>} : \E q \in Pipes : HasEnds(s, u, q)
  BY <1>2, <1>3 DEF Sound
<1>9. ASSUME NEW n \in Above, s[n] \in PipeEnds
      PROVE  \E u \in G \cup {<<r, w>>} : n \in Ends(u)
  <2>1. Ends(<<r, w>>) = {r, w}
    BY StructFacts
  <2>2. CASE n = r \/ n = w
    BY <2>1, <2>2
  <2>3. CASE n # r /\ n # w
    BY <1>1, <1>9, <2>3, FdFacts DEF Sound
  <2> QED BY <2>2, <2>3
<1> QED BY <1>1, <1>2, <1>4, <1>5, <1>6, <1>7, <1>8, <1>9 DEF Sound, s

LEMMA SoundOpenFile ==
    ASSUME NEW t \in Table, NEW G \in SUBSET (Above \X Above), Sound(t, G, NoFd),
           NEW f \in Above, t[f] = Closed
    PROVE  LET s == [t EXCEPT ![f] = File]
           IN  /\ s \in Table /\ Sound(s, G, f)
               /\ \A u \in G, p \in Pipes : HasEnds(t, u, p) => HasEnds(s, u, p)
<1> DEFINE s == [t EXCEPT ![f] = File]
<1>1. s \in Table /\ \A n \in Fds : s[n] = IF n = f THEN File ELSE t[n]
  BY FdFacts DEF Table, Descriptor
<1> HIDE DEF s
<1>2. ASSUME NEW u \in G, NEW p \in Pipes, HasEnds(t, u, p) PROVE HasEnds(s, u, p)
  <2>1. u[1] \in Above /\ u[2] \in Above
    BY StructFacts
  <2>2. t[u[1]] = ReadEnd(p) /\ t[u[2]] = WriteEnd(p)
    BY <1>2, <2>1, FdFacts DEF HasEnds
  <2>3. f # u[1] /\ f # u[2]
    BY <2>2, DescriptorFacts
  <2> QED BY <1>1, <1>2, <2>3, FdFacts, DescriptorFacts DEF HasEnds
<1>3. \A n \in 0 .. 2 : s[n] = Tty
  BY <1>1, FdFacts DEF Sound, Fds, Above
<1>4. \A n \in Above : s[n] # Tty
  BY <1>1, FdFacts, DescriptorFacts DEF Sound
<1>5. \A n \in Above : s[n] = File <=> n = f
  BY <1>1, FdFacts DEF Sound
<1>6. \A n \in Above : s[n] \in PipeEnds => \E u \in G : n \in Ends(u)
  BY <1>1, FdFacts, DescriptorFacts DEF Sound, PipeEnds
<1>7. \A u \in G : \E p \in Pipes : HasEnds(s, u, p)
  BY <1>2 DEF Sound
<1> QED BY <1>1, <1>2, <1>3, <1>4, <1>5, <1>6, <1>7 DEF Sound, s

LEMMA SoundCloseFile ==
    ASSUME NEW t \in Table, NEW G \in SUBSET (Above \X Above), NEW f \in Number,
           Sound(t, G, f)
    PROVE  /\ Shut(t, f) \in Table /\ Sound(Shut(t, f), G, NoFd)
           /\ \A u \in G, p \in Pipes : HasEnds(t, u, p) => HasEnds(Shut(t, f), u, p)
<1> DEFINE s == Shut(t, f)
<1>1. s \in Table /\ \A n \in Fds : s[n] = IF n = f THEN Closed ELSE t[n]
  BY FdFacts DEF Table, Descriptor, Shut, Number
<1> HIDE DEF s
<1>2. f = NoFd \/ (f \in Above /\ t[f] = File)
  BY DEF Sound, Number
<1>3. ASSUME NEW u \in G, NEW p \in Pipes, HasEnds(t, u, p) PROVE HasEnds(s, u, p)
  <2>1. u[1] \in Above /\ u[2] \in Above
    BY StructFacts
  <2>2. t[u[1]] = ReadEnd(p) /\ t[u[2]] = WriteEnd(p)
    BY <1>3, <2>1, FdFacts DEF HasEnds
  <2>3. f # u[1] /\ f # u[2]
    BY <1>2, <2>1, <2>2, FdFacts, DescriptorFacts
  <2> QED BY <1>1, <1>3, <2>3, FdFacts, DescriptorFacts DEF HasEnds
<1>4. \A n \in 0 .. 2 : s[n] = Tty
  BY <1>1, <1>2, FdFacts DEF Sound, Fds, Above
<1>5. \A n \in Above : s[n] # Tty
  BY <1>1, FdFacts, DescriptorFacts DEF Sound
<1>6. \A n \in Above : s[n] = File <=> n = NoFd
  BY <1>1, FdFacts, DescriptorFacts DEF Sound
<1>7. \A n \in Above : s[n] \in PipeEnds => \E u \in G : n \in Ends(u)
  BY <1>1, FdFacts, DescriptorFacts DEF Sound, PipeEnds
<1>8. \A u \in G : \E p \in Pipes : HasEnds(s, u, p)
  BY <1>3 DEF Sound
<1> QED BY <1>1, <1>3, <1>4, <1>5, <1>6, <1>7, <1>8 DEF Sound, s

(***************************************************************************)
(* What the binds do to a child's table                                    *)
(***************************************************************************)
LEMMA SrcBinds ==
    /\ DOMAIN Binds("src") = {1}
    /\ Binds("src")[1] = BindTo("pipe", IF line.both THEN {"write", "error"} ELSE {"write"})
  BY DEF Binds

LEMMA OutBinds ==
    /\ line.redir /\ line.piped =>
         /\ DOMAIN Binds("out") = {1, 2}
         /\ Binds("out")[1] = BindTo("file", {"write"})
         /\ Binds("out")[2] = BindTo("pipe", {"read"})
    /\ line.redir /\ ~line.piped =>
         DOMAIN Binds("out") = {1} /\ Binds("out")[1] = BindTo("file", {"write"})
    /\ ~line.redir /\ line.piped =>
         DOMAIN Binds("out") = {1} /\ Binds("out")[1] = BindTo("pipe", {"read"})
    /\ ~line.redir /\ ~line.piped => DOMAIN Binds("out") = {}
<1> DEFINE F == BindTo("file", {"write"})
           P == BindTo("pipe", {"read"})
<1>1. Binds("out") = (IF line.redir THEN <<F>> ELSE <<>>) \o (IF line.piped THEN <<P>> ELSE <<>>)
  BY DEF Binds
<1> HIDE DEF F, P
<1>2. CASE line.redir /\ line.piped
  <2>1. Binds("out") = <<F>> \o <<P>>
    BY <1>1, <1>2
  <2>2. /\ <<F>> \in Seq({F, P}) /\ <<P>> \in Seq({F, P}) /\ <<F, P>> \in Seq({F, P})
        /\ Len(<<F>>) = 1 /\ Len(<<P>>) = 1 /\ Len(<<F, P>>) = 2
    OBVIOUS
  <2>3. /\ Binds("out") \in Seq({F, P}) /\ Len(Binds("out")) = 2
        /\ Binds("out")[1] = F /\ Binds("out")[2] = P
    <3> DEFINE a == <<F>>
               b == <<P>>
    <3>1. a \in Seq({F, P}) /\ b \in Seq({F, P}) /\ Len(a) = 1 /\ Len(b) = 1
          /\ a[1] = F /\ b[1] = P
      BY <2>2
    <3>2. Binds("out") = a \o b
      BY <2>1
    <3> HIDE DEF a, b
    <3>3. /\ a \o b \in Seq({F, P}) /\ Len(a \o b) = 2
          /\ (a \o b)[1] = a[1] /\ (a \o b)[2] = b[1]
      BY <3>1, ConcatProperties
    <3> QED BY <3>1, <3>2, <3>3
  <2> QED BY <1>2, <2>3 DEF F, P
<1>3. CASE line.redir /\ ~line.piped
  <2>1. Binds("out") = <<F>>
    BY <1>1, <1>3
  <2> QED BY <1>3, <2>1 DEF F
<1>4. CASE ~line.redir /\ line.piped
  <2>1. Binds("out") = <<P>>
    BY <1>1, <1>4
  <2> QED BY <1>4, <2>1 DEF P
<1>5. CASE ~line.redir /\ ~line.piped
  <2>1. Binds("out") = <<>>
    BY <1>1, <1>5
  <2> QED BY <1>5, <2>1
<1> QED BY <1>2, <1>3, <1>4, <1>5

LEMMA Dup2Facts ==
    ASSUME NEW t \in Table, NEW from \in Fds, t[from] # Closed, NEW to \in Fds
    PROVE  /\ Dup2(t, from, to) \in Table
           /\ \A n \in Fds : Dup2(t, from, to)[n] = IF n = to THEN t[from] ELSE t[n]
  BY FdFacts DEF Dup2, Table

LEMMA ShutFacts ==
    ASSUME NEW t \in Table, NEW m \in Fds
    PROVE  /\ Shut(t, m) \in Table
           /\ \A n \in Fds : Shut(t, m)[n] = IF n = m THEN Closed ELSE t[n]
  BY FdFacts DEF Shut, Table, Descriptor

\* The first program writes to the pipe, errors too if the line says so, and cannot
\* read it.
LEMMA SrcBindFacts ==
    ASSUME NEW t \in Table, NEW u \in Above \X Above, NEW p \in Pipes, HasEnds(t, u, p),
           t[0] = Tty, t[1] = Tty, t[2] = Tty, NEW both \in BOOLEAN
    PROVE  LET s == PipeBind(t, u, IF both THEN {"write", "error"} ELSE {"write"})
           IN  /\ s \in Table
               /\ s[0] = Tty /\ s[1] = WriteEnd(p) /\ s[2] = IF both THEN WriteEnd(p) ELSE Tty
               /\ \A n \in Fds : s[n] # ReadEnd(p)
               /\ s[u[2]] = WriteEnd(p)
<1> DEFINE kind == IF both THEN {"write", "error"} ELSE {"write"}
           err == IF both THEN Dup2(t, u[2], 2) ELSE t
           wr == Dup2(err, u[2], 1)
           s == Shut(wr, u[1])
<1>1. "write" \in kind /\ "read" \notin kind /\ ("error" \in kind <=> both)
  OBVIOUS
<1>2. kind \cap {"write", "error"} # {}
  BY <1>1
<1>3. PipeBind(t, u, kind) = s
  <2> HIDE DEF kind
  <2> QED BY <1>1, <1>2 DEF PipeBind
<1> HIDE DEF kind
<1>4. u[1] \in Above /\ u[2] \in Above /\ u[1] # u[2]
  <2>1. u[1] \in Above /\ u[2] \in Above
    OBVIOUS
  <2>2. t[u[1]] = ReadEnd(p) /\ t[u[2]] = WriteEnd(p)
    BY <2>1, FdFacts DEF HasEnds
  <2> QED BY <2>1, <2>2, DescriptorFacts
<1>5. /\ u[1] \in Fds /\ u[2] \in Fds /\ t[u[2]] = WriteEnd(p)
      /\ u[1] \notin {0, 1, 2} /\ u[2] \notin {0, 1, 2}
  BY <1>4, FdFacts DEF HasEnds
<1>6. /\ err \in Table
      /\ \A n \in Fds : err[n] = IF n = 2 /\ both THEN WriteEnd(p) ELSE t[n]
  BY <1>5, Dup2Facts, DescriptorFacts, FdFacts
<1> HIDE DEF err
<1>7. /\ wr \in Table
      /\ \A n \in Fds : wr[n] = IF n = 1 THEN WriteEnd(p) ELSE err[n]
  <2>1. err[u[2]] = WriteEnd(p)
    BY <1>5, <1>6
  <2> QED BY <1>5, <1>6, <2>1, Dup2Facts, DescriptorFacts, FdFacts
<1> HIDE DEF wr
<1>8. s \in Table /\ \A n \in Fds : s[n] = IF n = u[1] THEN Closed ELSE wr[n]
  BY <1>5, <1>7, ShutFacts
<1> HIDE DEF s
<1>9. \A n \in Fds : s[n] # ReadEnd(p)
  BY <1>6, <1>7, <1>8, DescriptorFacts DEF HasEnds
<1>10. /\ s[0] = Tty /\ s[1] = WriteEnd(p) /\ s[2] = IF both THEN WriteEnd(p) ELSE Tty
       /\ s[u[2]] = WriteEnd(p)
  BY <1>4, <1>5, <1>6, <1>7, <1>8, FdFacts
<1> QED BY <1>3, <1>8, <1>9, <1>10 DEF kind

\* The second one reads the pipe, and cannot write to it.
LEMMA OutBindFacts ==
    ASSUME NEW t \in Table, NEW u \in Above \X Above, NEW p \in Pipes, HasEnds(t, u, p),
           t[0] = Tty
    PROVE  LET s == PipeBind(t, u, {"read"})
           IN  /\ s \in Table /\ s[0] = ReadEnd(p)
               /\ \A n \in Fds : s[n] # WriteEnd(p)
               /\ \A n \in Fds : n # 0 /\ n # u[2] => s[n] = t[n]
<1> DEFINE rd == Dup2(t, u[1], 0)
           s == Shut(rd, u[2])
<1>1. PipeBind(t, u, {"read"}) = s
  <2>1. {"read"} \cap {"write", "error"} = {} /\ "write" \notin {"read"} /\ "error" \notin {"read"}
    OBVIOUS
  <2> QED BY <2>1 DEF PipeBind
<1>2. /\ u[1] \in Fds /\ u[2] \in Fds /\ u[2] # 0
      /\ t[u[1]] = ReadEnd(p) /\ t[u[2]] = WriteEnd(p)
  <2>1. u[1] \in Above /\ u[2] \in Above
    OBVIOUS
  <2> QED BY <2>1, FdFacts DEF HasEnds
<1>3. rd \in Table /\ \A n \in Fds : rd[n] = IF n = 0 THEN ReadEnd(p) ELSE t[n]
  BY <1>2, Dup2Facts, DescriptorFacts, FdFacts
<1> HIDE DEF rd
<1>4. s \in Table /\ \A n \in Fds : s[n] = IF n = u[2] THEN Closed ELSE rd[n]
  BY <1>2, <1>3, ShutFacts
<1> HIDE DEF s
<1>5. \A n \in Fds : s[n] # WriteEnd(p)
  BY <1>3, <1>4, DescriptorFacts DEF HasEnds
<1>6. s[0] = ReadEnd(p) /\ \A n \in Fds : n # 0 /\ n # u[2] => s[n] = t[n]
  BY <1>2, <1>3, <1>4, FdFacts
<1> QED BY <1>1, <1>4, <1>5, <1>6

\* A file that could not be opened is bound to nothing.
LEMMA FileBindFacts ==
    ASSUME NEW t \in Table, NEW f \in Number, f # NoFd => t[f] = File
    PROVE  /\ FileBind(t, f, {"write"}) \in Table
           /\ \A n \in Fds : FileBind(t, f, {"write"})[n] =
                IF n = 1 /\ f # NoFd THEN File ELSE t[n]
<1>1. FileBind(t, f, {"write"}) = Dup2(t, f, 1)
  BY DEF FileBind
<1>2. CASE f = NoFd
  BY <1>1, <1>2 DEF Dup2
<1>3. CASE f # NoFd
  <2>1. f \in Fds /\ t[f] = File
    BY <1>3, FdFacts DEF Number
  <2> QED BY <1>1, <1>3, <2>1, Dup2Facts, DescriptorFacts, FdFacts
<1> QED BY <1>2, <1>3

(***************************************************************************)
(* What a step leaves alone                                                *)
(***************************************************************************)
LEMMA ShellFrame ==
    ASSUME ShellInv, UNCHANGED <<pc, pipe, output, garbage>>, fds'["shell"] = fds["shell"]
    PROVE  ShellInv'
  BY DEF ShellInv, Structs, FileAt, OutputOpen

LEMMA SrcFrame ==
    ASSUME NEW p \in Pipes, SrcInv(p), line' = line,
           child'["src"] = child["src"], fds'["src"] = fds["src"],
           copy'["src"] = copy["src"], next'["src"] = next["src"]
    PROVE  SrcInv(p)'
<1>1. Binds("src")' = Binds("src")
  BY DEF Binds
<1> QED BY <1>1 DEF SrcInv, Running, InProgram, Bound

LEMMA OutFrame ==
    ASSUME NEW p \in Pipes, OutInv(p), line' = line, output' = output,
           child'["out"] = child["out"], fds'["out"] = fds["out"],
           copy'["out"] = copy["out"], next'["out"] = next["out"]
    PROVE  OutInv(p)'
<1>1. Binds("out")' = Binds("out")
  BY DEF Binds
<1> QED BY <1>1 DEF OutInv, FileInv, Running, InProgram, Bound

\* Nothing is said of a child that is not there.
LEMMA NoChild ==
    ASSUME NEW p \in Pipes
    PROVE  /\ child["src"] = "none" => SrcInv(p)
           /\ child["out"] = "none" => OutInv(p)
  BY DEF SrcInv, OutInv, Running, InProgram

LEMMA EmptyFrame ==
    ASSUME EmptyInv, \A c \in Children : fds'[c] = fds[c] /\ (Running(c) => Running(c)')
    PROVE  EmptyInv'
  BY DEF EmptyInv

\* What a step that does nothing to the children needs.
Still == UNCHANGED <<line, output, child, copy, next>> /\ \A c \in Children : fds'[c] = fds[c]

LEMMA StillFrame ==
    ASSUME Still, EmptyInv, NEW p \in Pipes, SrcInv(p), OutInv(p)
    PROVE  EmptyInv' /\ SrcInv(p)' /\ OutInv(p)'
<1>1. EmptyInv'
  BY EmptyFrame DEF Still, Running, InProgram
<1>2. SrcInv(p)'
  BY SrcFrame DEF Still, Children
<1>3. OutInv(p)'
  BY OutFrame DEF Still, Children
<1> QED BY <1>1, <1>2, <1>3

LEMMA ProcsFacts == "shell" \in Procs /\ "src" \in Children /\ "out" \in Children
                    /\ \A c \in Children : c \in Procs /\ c # "shell" /\ (c = "src" \/ c = "out")
  BY DEF Procs, Children

LEMMA TableFacts == Empty \in Table /\ \A n \in Fds : Empty[n] = Closed
  BY DEF Empty, Table, Descriptor

LEMMA InitIInv == Init => IInv
<1> SUFFICES ASSUME Init PROVE IInv
  OBVIOUS
<1> USE DEF Init
<1>1. /\ fds["shell"] = [n \in Fds |-> IF n <= 2 THEN Tty ELSE Closed]
      /\ \A c \in Children : fds[c] = Empty
      /\ fds["shell"] \in Table
  BY ProcsFacts DEF Table, Descriptor
<1>2. TypeOK
  <2>1. fds \in [Procs -> Table]
    BY <1>1, TableFacts DEF Procs
  <2>2. ClosedPipe \in Struct /\ NoFd \in Number
    BY DEF Struct, Number
  <2>3. /\ pc \in Places
        /\ line \in [piped : BOOLEAN, both : BOOLEAN, redir : BOOLEAN]
        /\ buf \in [Pipes -> Nat] /\ child \in [Children -> Stages]
        /\ copy \in [Children -> Struct] /\ next \in [Children -> 1 .. 3]
    BY <2>2 DEF Places, Stages
  <2> QED BY <2>1, <2>2, <2>3 DEF TypeOK
<1>3. ControlInv
  BY DEF ControlInv, PipeOpen, Children
<1>4. ShellInv
  <2>1. Structs = {} /\ FileAt = NoFd
    BY DEF Structs, FileAt, OutputOpen
  <2>2. \A n \in Fds : fds["shell"][n] = IF n <= 2 THEN Tty ELSE Closed
    BY <1>1
  <2>3. \A n \in Above : n \in Fds /\ ~(n <= 2) /\ n # NoFd
    BY FdFacts DEF Above
  <2>4. \A n \in 0 .. 2 : n \in Fds /\ n <= 2
    BY FdFacts DEF Fds
  <2>5. Sound(fds["shell"], {}, NoFd)
    BY <2>2, <2>3, <2>4, DescriptorFacts DEF Sound, PipeEnds
  <2> QED BY <2>1, <2>5 DEF ShellInv
<1>5. EmptyInv
  BY <1>1 DEF EmptyInv
<1>6. \E p \in Pipes : PipeInv(p)
  <2>1. PICK p \in Pipes : TRUE
    BY PipelineAssumption
  <2>2. SrcInv(p) /\ OutInv(p)
    BY NoChild DEF Children
  <2> QED BY <2>1, <2>2 DEF PipeInv, PipeOpen
<1> QED BY <1>2, <1>3, <1>4, <1>5, <1>6 DEF IInv

(***************************************************************************)
(* The shell's steps                                                       *)
(***************************************************************************)
LEMMA StructsType ==
    ASSUME TypeOK
    PROVE  /\ Structs \in SUBSET (Above \X Above)
           /\ pipe # ClosedPipe => pipe \in Structs
           /\ fds["shell"] \in Table
  BY ProcsFacts DEF TypeOK, Structs, Struct

LEMMA RunCommandInv ==
    ASSUME IInv, NEW redir \in BOOLEAN, RunCommand(redir)
    PROVE  IInv'
<1> USE DEF RunCommand
<1>1. TypeOK'
  BY DEF IInv, TypeOK, Places, Number, history
<1>2. \A c \in Children : child[c] = "none"
  BY DEF IInv, ControlInv
<1>3. ControlInv'
  BY <1>2, ProcsFacts DEF IInv, ControlInv, PipeOpen, Ended
<1>4. ShellInv'
  BY DEF IInv, ShellInv, Structs, FileAt, OutputOpen
<1>5. EmptyInv'
  BY EmptyFrame DEF IInv, Running, InProgram
<1>6. PICK p \in Pipes : PipeInv(p)
  BY DEF IInv
<1>7. SrcInv(p)' /\ OutInv(p)'
  BY <1>2, ProcsFacts DEF SrcInv, OutInv, Running, InProgram
<1>8. PipeInv(p)'
  BY <1>7 DEF PipeInv, PipeOpen
<1> QED BY <1>1, <1>3, <1>4, <1>5, <1>8 DEF IInv

\* exit(-1) leaves nothing of the shell.
LEMMA ExitInv ==
    ASSUME IInv, NEW call, Exit(call), UNCHANGED <<garbage, child, copy, next, buf, history>>,
           child["out"] = "none",
           \/ UNCHANGED <<line, pipe, output>>
           \/ /\ child["src"] = "none" /\ pipe' = pipe /\ output' = NoFd
              /\ line' \in [piped : BOOLEAN, both : BOOLEAN, redir : BOOLEAN]
    PROVE  IInv'
<1> USE DEF Exit
<1>0. fds'["shell"] = Empty /\ \A c \in Children : fds'[c] = fds[c]
  BY ProcsFacts DEF IInv, TypeOK
<1>1. TypeOK'
  BY TableFacts DEF IInv, TypeOK, Places, Number, history
<1>2. ControlInv'
  <2>1. child["src"] # "none" => line.piped /\ line' = line
    BY ProcsFacts DEF IInv, ControlInv, TypeOK, Places
  <2> QED BY <2>1 DEF IInv, ControlInv, PipeOpen, Ended
<1>3. ShellInv'
  BY DEF ShellInv
<1>4. EmptyInv'
  BY <1>0, EmptyFrame DEF IInv, Running, InProgram
<1>5. PICK p \in Pipes : PipeInv(p)
  BY DEF IInv
<1>6. OutInv(p)'
  BY NoChild DEF OutInv, Running, InProgram
<1>7. SrcInv(p)'
  <2>1. CASE child["src"] = "none"
    BY <2>1 DEF SrcInv, Running, InProgram
  <2>2. CASE child["src"] # "none"
    BY <1>0, <1>5, <2>2, SrcFrame, ProcsFacts DEF PipeInv
  <2> QED BY <2>1, <2>2
<1>8. PipeInv(p)'
  BY <1>6, <1>7 DEF PipeInv
<1> QED BY <1>1, <1>2, <1>3, <1>4, <1>8 DEF IInv

\* The pipe that pipe(2) makes, in the shell's table.
LEMMA NewInShell ==
    ASSUME IInv, pc = "prompt", NEW p \in FreePipes
    PROVE  LET new == NewPipe(fds["shell"], p)
           IN  /\ new.table \in Table /\ new.ends \in Above \X Above
               /\ Sound(new.table, Structs \cup {new.ends}, NoFd)
               /\ HasEnds(new.table, new.ends, p) /\ new.ends \notin Structs
<1> DEFINE t == fds["shell"]
<1>1. p \in Pipes /\ \A n \in Fds : t[n] \notin {ReadEnd(p), WriteEnd(p)}
  BY ProcsFacts DEF FreePipes, Readers, Writers, Holders
<1>2. Structs \in SUBSET (Above \X Above) /\ t \in Table
  BY StructsType DEF IInv
<1>3. Sound(t, Structs, NoFd)
  BY DEF IInv, ShellInv, FileAt, OutputOpen
<1>4. NoDoubles(t) /\ \A n \in Above : t[n] \notin {Tty, File}
  BY <1>2, <1>3, SoundNoDoubles, FdFacts DEF Sound
<1>5. \A n \in 0 .. 2 : t[n] = Tty
  BY <1>3 DEF Sound
<1> HIDE DEF t
<1>6. PICK r \in Above, w \in Above :
              /\ r # w /\ t[r] = Closed /\ t[w] = Closed
              /\ NewPipe(t, p).ends = <<r, w>>
              /\ NewPipe(t, p).table = [t EXCEPT ![r] = ReadEnd(p), ![w] = WriteEnd(p)]
  BY <1>1, <1>2, <1>4, <1>5, NewPipeFacts
<1>7. LET s == [t EXCEPT ![r] = ReadEnd(p), ![w] = WriteEnd(p)]
      IN  /\ s \in Table /\ Sound(s, Structs \cup {<<r, w>>}, NoFd)
          /\ HasEnds(s, <<r, w>>, p) /\ <<r, w>> \notin Structs
  BY <1>1, <1>2, <1>3, <1>6, SoundOpenPipe
<1> QED BY <1>6, <1>7 DEF t

LEMMA RunPipedInv ==
    ASSUME IInv, NEW both \in BOOLEAN, NEW redir \in BOOLEAN, RunPiped(both, redir)
    PROVE  IInv'
<1> USE DEF RunPiped
<1>0. /\ \A c \in Children : child[c] = "none"
      /\ pc = "prompt" /\ pipe = ClosedPipe
  BY DEF IInv, ControlInv, PipeOpen
<1>1. CASE Exit("pipe") /\ UNCHANGED <<pipe, buf, history>>
  BY <1>0, <1>1, ExitInv, ProcsFacts
<1>2. ASSUME NEW p \in FreePipes,
             fds' = [fds EXCEPT !["shell"] = NewPipe(fds["shell"], p).table],
             pipe' = NewPipe(fds["shell"], p).ends,
             buf' = [buf EXCEPT ![p] = 0],
             wrote' = 0, got' = 0, eof' = FALSE,
             pc' = IF redir THEN "open" ELSE "run_src"
      PROVE  IInv'
  <2> DEFINE new == NewPipe(fds["shell"], p)
  <2>1. /\ new.table \in Table /\ new.ends \in Above \X Above
        /\ Sound(new.table, Structs \cup {new.ends}, NoFd)
        /\ HasEnds(new.table, new.ends, p) /\ new.ends \notin Structs
    BY <1>0, NewInShell
  <2>2. fds' = [fds EXCEPT !["shell"] = new.table] /\ pipe' = new.ends
    BY <1>2
  <2> HIDE DEF new
  <2>3. /\ fds'["shell"] = new.table /\ fds' \in [Procs -> Table]
        /\ \A c \in Children : fds'[c] = fds[c]
    BY <2>1, <2>2, ProcsFacts DEF IInv, TypeOK
  <2>4. TypeOK'
    BY <1>2, <2>1, <2>2, <2>3 DEF IInv, TypeOK, Places, Number, Struct, FreePipes
  <2>5. pipe' # ClosedPipe /\ pipe' \notin garbage'
    BY <2>1, <2>2, StructFacts DEF Structs
  <2>6. ControlInv'
    BY <1>0, <1>2, <2>5, ProcsFacts DEF ControlInv, PipeOpen, Ended
  <2>7. ShellInv'
    <3>1. Structs' = Structs \cup {new.ends}
      BY <1>0, <2>2, <2>5 DEF Structs
    <3>2. FileAt' = NoFd
      BY DEF FileAt, OutputOpen
    <3> QED BY <2>1, <2>3, <2>5, <3>1, <3>2 DEF ShellInv
  <2>8. EmptyInv'
    BY <2>3, EmptyFrame DEF IInv, Running, InProgram
  <2>9. p \in Pipes /\ HasEnds(fds["shell"], pipe, p)' /\ buf'[p] + got' = wrote'
    <3>1. p \in Pipes
      BY DEF FreePipes
    <3> QED BY <1>2, <2>1, <2>2, <2>3, <3>1 DEF IInv, TypeOK, HasEnds
  <2>10. SrcInv(p)' /\ OutInv(p)'
    BY <1>0, ProcsFacts DEF SrcInv, OutInv, Running, InProgram
  <2> QED BY <2>4, <2>6, <2>7, <2>8, <2>9, <2>10 DEF IInv, PipeInv
<1> QED BY <1>1, <1>2

LEMMA OpenOutputInv == ASSUME IInv, OpenOutput PROVE IInv'
<1> USE DEF OpenOutput
<1> DEFINE t == fds["shell"]
<1>0. /\ \A c \in Children : child[c] = "none"
      /\ line.redir /\ output = NoFd /\ pc = "open" /\ FileAt = NoFd
  BY DEF IInv, ControlInv, FileAt, OutputOpen
<1>1. /\ Structs \in SUBSET (Above \X Above) /\ t \in Table
      /\ pipe # ClosedPipe => pipe \in Structs
  BY StructsType DEF IInv
<1>2. Sound(t, Structs, NoFd)
  BY <1>0 DEF IInv, ShellInv
<1>3. PICK p \in Pipes : PipeInv(p)
  BY DEF IInv
<1>4. /\ fds'["shell"] \in Table /\ fds' \in [Procs -> Table] /\ output' \in Number
      /\ \A c \in Children : fds'[c] = fds[c]
      /\ Sound(fds'["shell"], Structs, output')
      /\ \A u \in Structs, q \in Pipes : HasEnds(t, u, q) => HasEnds(fds'["shell"], u, q)
  <2>1. CASE UNCHANGED <<output, fds>>
    BY <1>0, <1>1, <1>2, <2>1 DEF IInv, TypeOK
  <2>2. CASE output' = Lowest(fds["shell"]) /\ fds' = [fds EXCEPT !["shell"][output'] = File]
    <3>1. NoDoubles(t) /\ \A n \in Above : t[n] \notin {Tty, File}
      BY <1>1, <1>2, SoundNoDoubles, FdFacts DEF Sound
    <3>2. \A n \in 0 .. 2 : t[n] = Tty
      BY <1>2 DEF Sound
    <3>3. output' \in Above /\ t[output'] = Closed
      BY <1>1, <2>2, <3>1, <3>2, LowestAbove
    <3> DEFINE s == [t EXCEPT ![output'] = File]
    <3>4. /\ s \in Table /\ Sound(s, Structs, output')
          /\ \A u \in Structs, q \in Pipes : HasEnds(t, u, q) => HasEnds(s, u, q)
      BY <1>1, <1>2, <3>3, SoundOpenFile
    <3>5. fds' = [fds EXCEPT !["shell"] = s]
      BY <2>2, ProcsFacts DEF IInv, TypeOK
    <3> HIDE DEF s
    <3>6. fds' \in [Procs -> Table] /\ fds'["shell"] = s /\ \A c \in Children : fds'[c] = fds[c]
      BY <3>4, <3>5, ProcsFacts DEF IInv, TypeOK
    <3> QED BY <3>3, <3>4, <3>6 DEF Number
  <2> QED BY <2>1, <2>2
<1>5. TypeOK'
  BY <1>4 DEF IInv, TypeOK, Places, history
<1>6. ControlInv'
  BY <1>0, ProcsFacts DEF IInv, ControlInv, PipeOpen, Ended
<1>7. ShellInv'
  <2>1. Structs' = Structs /\ FileAt' = output'
    BY DEF Structs, FileAt, OutputOpen
  <2> QED BY <1>4, <2>1 DEF IInv, ShellInv
<1>8. EmptyInv'
  BY <1>4, EmptyFrame DEF IInv, Running, InProgram
<1>9. SrcInv(p)' /\ OutInv(p)'
  BY <1>0, ProcsFacts DEF SrcInv, OutInv, Running, InProgram
<1>10. PipeInv(p)'
  <2>1. line.piped => HasEnds(t, pipe, p) /\ pipe \in Structs
    BY <1>1, <1>3 DEF IInv, ControlInv, PipeInv, PipeOpen
  <2>2. line.piped => HasEnds(fds["shell"], pipe, p)'
    BY <1>4, <2>1 DEF HasEnds
  <2>3. line.piped => buf'[p] + got' = wrote'
    BY <1>3 DEF PipeInv, history
  <2> QED BY <1>9, <2>2, <2>3 DEF PipeInv, PipeOpen
<1> QED BY <1>5, <1>6, <1>7, <1>8, <1>10 DEF IInv

\* What fork(2) leaves.
LEMMA ForkFacts ==
    ASSUME TypeOK, NEW c \in Children, fds' = [fds EXCEPT ![c] = fds["shell"]],
           child' = [child EXCEPT ![c] = "forked"],
           copy' = [copy EXCEPT ![c] = pipe], next' = [next EXCEPT ![c] = 1]
    PROVE  /\ fds' \in [Procs -> Table] /\ fds'["shell"] = fds["shell"]
           /\ child' \in [Children -> Stages]
           /\ copy' \in [Children -> Struct] /\ next' \in [Children -> 1 .. 3]
           /\ fds'[c] = fds["shell"] /\ child'[c] = "forked"
           /\ copy'[c] = pipe /\ next'[c] = 1
           /\ \A d \in Children \ {c} :
                /\ fds'[d] = fds[d] /\ child'[d] = child[d]
                /\ copy'[d] = copy[d] /\ next'[d] = next[d]
  BY ProcsFacts DEF TypeOK, Stages

LEMMA RunSrcInv == ASSUME IInv, RunSrc PROVE IInv'
<1> USE DEF RunSrc, Fork
<1>0. /\ \A c \in Children : child[c] = "none"
      /\ line.piped /\ pc = "run_src" /\ pipe # ClosedPipe /\ pipe \in Structs
  BY StructsType DEF IInv, ControlInv, PipeOpen
<1>1. CASE Exit("fork") /\ UNCHANGED <<child, copy, next>>
  BY <1>0, <1>1, ExitInv, ProcsFacts
<1>2. CASE /\ fds' = [fds EXCEPT !["src"] = fds["shell"]]
           /\ child' = [child EXCEPT !["src"] = "forked"]
           /\ copy' = [copy EXCEPT !["src"] = pipe] /\ next' = [next EXCEPT !["src"] = 1]
           /\ pc' = "run_out"
  <2>1. /\ fds' \in [Procs -> Table] /\ fds'["shell"] = fds["shell"]
        /\ child' \in [Children -> Stages]
        /\ copy' \in [Children -> Struct] /\ next' \in [Children -> 1 .. 3]
        /\ fds'["src"] = fds["shell"] /\ child'["src"] = "forked"
        /\ copy'["src"] = pipe /\ next'["src"] = 1
        /\ \A d \in Children \ {"src"} :
                /\ fds'[d] = fds[d] /\ child'[d] = child[d]
                /\ copy'[d] = copy[d] /\ next'[d] = next[d]
    BY <1>2, ForkFacts, ProcsFacts DEF IInv
  <2>2. TypeOK'
    BY <1>2, <2>1 DEF IInv, TypeOK, Places, history
  <2>3. ControlInv'
    BY <1>0, <1>2, <2>1, ProcsFacts DEF IInv, ControlInv, PipeOpen, Ended
  <2>4. ShellInv'
    BY <1>0, <1>2, <2>1 DEF IInv, ShellInv, Structs, FileAt, OutputOpen
  <2>5. EmptyInv'
    BY <2>1, ProcsFacts DEF IInv, EmptyInv, Running, InProgram
  <2>6. PICK p \in Pipes : PipeInv(p)
    BY DEF IInv
  <2>7. OutInv(p)'
    BY <1>0, <2>1, ProcsFacts DEF OutInv, Running, InProgram
  <2>8. HasEnds(fds["shell"], pipe, p)
    BY <1>0, <2>6 DEF PipeInv, PipeOpen
  <2>9. SrcInv(p)'
    <3>1. ~Bound("src")'
      <4>1. DOMAIN Binds("src")' = {1}
        BY DEF Binds
      <4> QED BY <2>1, <4>1 DEF Bound
    <3>2. fds["shell"][0] = Tty /\ fds["shell"][1] = Tty /\ fds["shell"][2] = Tty
      BY <1>0 DEF IInv, ShellInv, Sound
    <3>3. HasEnds(fds["src"], copy["src"], p)'
      BY <2>1, <2>8 DEF HasEnds
    <3> QED BY <1>0, <2>1, <3>1, <3>2, <3>3 DEF SrcInv, InProgram
  <2>10. PipeInv(p)'
    <3>1. HasEnds(fds["shell"], pipe, p)'
      BY <2>1, <2>8 DEF HasEnds
    <3>2. buf'[p] + got' = wrote'
      BY <1>0, <2>6 DEF PipeInv, history
    <3> QED BY <2>7, <2>9, <3>1, <3>2 DEF PipeInv
  <2> QED BY <2>2, <2>3, <2>4, <2>5, <2>10 DEF IInv
<1> QED BY <1>1, <1>2

LEMMA RunOutInv == ASSUME IInv, RunOut PROVE IInv'
<1> USE DEF RunOut, Fork
<1> DEFINE then == IF line.piped THEN "close_pipe" ELSE Closing
<1>0. /\ child["out"] = "none" /\ (child["src"] # "none" <=> line.piped) /\ pc = "run_out"
      /\ pipe # ClosedPipe <=> line.piped
      /\ pipe # ClosedPipe => pipe \in Structs
      /\ ~line.redir => output = NoFd
  BY StructsType DEF IInv, ControlInv, PipeOpen
<1>1. CASE Exit("fork") /\ UNCHANGED <<child, copy, next>>
  BY <1>0, <1>1, ExitInv
<1>2. CASE /\ fds' = [fds EXCEPT !["out"] = fds["shell"]]
           /\ child' = [child EXCEPT !["out"] = "forked"]
           /\ copy' = [copy EXCEPT !["out"] = pipe] /\ next' = [next EXCEPT !["out"] = 1]
           /\ pc' = then
  <2>0. /\ pc' \in {"close_pipe", "close_output", "wait_out"}
        /\ pc' = "close_pipe" <=> line.piped
        /\ pc' = "close_output" => line.redir
        /\ pc' = "wait_out" => ~line.redir
    BY <1>2 DEF Closing
  <2>1. /\ fds' \in [Procs -> Table] /\ fds'["shell"] = fds["shell"]
        /\ child' \in [Children -> Stages]
        /\ copy' \in [Children -> Struct] /\ next' \in [Children -> 1 .. 3]
        /\ fds'["out"] = fds["shell"] /\ child'["out"] = "forked"
        /\ copy'["out"] = pipe /\ next'["out"] = 1
        /\ \A d \in Children \ {"out"} :
                /\ fds'[d] = fds[d] /\ child'[d] = child[d]
                /\ copy'[d] = copy[d] /\ next'[d] = next[d]
    BY <1>2, ForkFacts, ProcsFacts DEF IInv
  <2>2. TypeOK'
    BY <2>0, <2>1 DEF IInv, TypeOK, Places, history
  <2>3. ControlInv'
    BY <1>0, <2>0, <2>1, ProcsFacts DEF IInv, ControlInv, PipeOpen, Ended
  <2>4. ShellInv'
    <3>1. FileAt' = FileAt
      BY <1>0, <2>0 DEF FileAt, OutputOpen
    <3>2. Structs' = Structs
      BY DEF Structs
    <3> QED BY <1>0, <2>1, <3>1, <3>2 DEF IInv, ShellInv
  <2>5. EmptyInv'
    BY <2>1, ProcsFacts DEF IInv, EmptyInv, Running, InProgram
  <2>6. PICK p \in Pipes : PipeInv(p)
    BY DEF IInv
  <2>7. SrcInv(p)'
    BY <2>1, <2>6, SrcFrame, ProcsFacts DEF PipeInv
  <2>8. line.piped => HasEnds(fds["shell"], pipe, p)
    BY <1>0, <2>6 DEF PipeInv, PipeOpen
  <2>9. OutInv(p)'
    <3>1. fds["shell"][0] = Tty /\ fds["shell"][1] = Tty /\ fds["shell"][2] = Tty
      BY <1>0 DEF IInv, ShellInv, Sound
    <3>2. output # NoFd => fds["shell"][output] = File
      <4>1. output # NoFd => output \in Above /\ FileAt = output
        BY <1>0 DEF IInv, TypeOK, Number, FileAt, OutputOpen
      <4> QED BY <1>0, <4>1 DEF IInv, ShellInv, Sound
    <3>3. FileInv'
      BY <2>1, <3>1, <3>2 DEF FileInv
    <3>4. line.piped => ~Bound("out")'
      <4>1. line.piped => 1 \in DOMAIN Binds("out")
        BY OutBinds DEF IInv, TypeOK
      <4>2. Binds("out")' = Binds("out")
        BY DEF Binds
      <4> QED BY <2>1, <4>1, <4>2 DEF Bound
    <3>5. line.piped => HasEnds(fds["out"], copy["out"], p)'
      BY <2>1, <2>8 DEF HasEnds
    <3> QED BY <1>0, <2>1, <3>1, <3>3, <3>4, <3>5 DEF OutInv, InProgram
  <2>10. PipeInv(p)'
    <3>1. line.piped => HasEnds(fds["shell"], pipe, p)'
      BY <2>1, <2>8 DEF HasEnds
    <3>2. line.piped => buf'[p] + got' = wrote'
      BY <1>0, <2>6 DEF PipeInv, history
    <3> QED BY <2>7, <2>9, <3>1, <3>2 DEF PipeInv, PipeOpen
  <2> QED BY <2>2, <2>3, <2>4, <2>5, <2>10 DEF IInv
<1> QED BY <1>1, <1>2

\* A step that changes the shell's table alone.
LEMMA ShellTable ==
    ASSUME TypeOK, NEW t \in Table, fds' = [fds EXCEPT !["shell"] = t]
    PROVE  /\ fds' \in [Procs -> Table] /\ fds'["shell"] = t
           /\ \A c \in Children : fds'[c] = fds[c]
  BY ProcsFacts DEF TypeOK

LEMMA ClosePipeInv == ASSUME IInv, ClosePipe PROVE IInv'
<1> USE DEF ClosePipe
<1> DEFINE t == fds["shell"]
           s == ShutPipe(t, pipe)
<1>0. /\ pc = "close_pipe" /\ line.piped /\ pipe # ClosedPipe /\ pipe \in Structs
      /\ pipe \notin garbage
      /\ Structs \in SUBSET (Above \X Above) /\ t \in Table /\ pipe \in Struct
  BY StructsType DEF IInv, ControlInv, PipeOpen, ShellInv, TypeOK
<1>1. Sound(t, Structs, FileAt)
  BY <1>0 DEF IInv, ShellInv
<1>2. s \in Table /\ Sound(s, Structs \ {pipe}, FileAt)
  BY <1>0, <1>1, SoundClosePipe, ShutPipeFacts
<1>3. fds' = [fds EXCEPT !["shell"] = s]
  BY ProcsFacts DEF IInv, TypeOK
<1> HIDE DEF s
<1>4. fds' \in [Procs -> Table] /\ fds'["shell"] = s /\ \A c \in Children : fds'[c] = fds[c]
  BY <1>2, <1>3, ShellTable DEF IInv
<1>5. pc' \in {"close_output", "wait_src"} /\ (pc' = "close_output" <=> line.redir)
  BY <1>0 DEF Closing
<1>6. TypeOK'
  BY <1>4, <1>5 DEF IInv, TypeOK, Places, Struct, history
<1>7. ControlInv'
  BY <1>0, <1>5, ProcsFacts DEF IInv, ControlInv, PipeOpen, Ended
<1>8. ShellInv'
  <2>1. Structs' = Structs \ {pipe}
    BY <1>0 DEF Structs
  <2>2. FileAt' = FileAt
    BY <1>0, <1>5 DEF IInv, ControlInv, FileAt, OutputOpen
  <2> QED BY <1>2, <1>4, <2>1, <2>2 DEF ShellInv
<1>9. PICK p \in Pipes : PipeInv(p)
  BY DEF IInv
<1>10. EmptyInv' /\ SrcInv(p)' /\ OutInv(p)'
  BY <1>4, <1>9, StillFrame DEF IInv, PipeInv, Still
<1>11. PipeInv(p)'
  BY <1>0, <1>5, <1>9, <1>10 DEF PipeInv, PipeOpen, history
<1> QED BY <1>6, <1>7, <1>8, <1>10, <1>11 DEF IInv

LEMMA CloseOutputInv == ASSUME IInv, CloseOutput PROVE IInv'
<1> USE DEF CloseOutput
<1> DEFINE t == fds["shell"]
           s == Shut(t, output)
<1>0. /\ pc = "close_output" /\ line.redir /\ pipe = ClosedPipe
      /\ Structs \in SUBSET (Above \X Above) /\ t \in Table /\ output \in Number
      /\ FileAt = output
  BY StructsType DEF IInv, ControlInv, PipeOpen, TypeOK, FileAt, OutputOpen
<1>1. Sound(t, Structs, output)
  BY <1>0 DEF IInv, ShellInv
<1>2. s \in Table /\ Sound(s, Structs, NoFd)
  BY <1>0, <1>1, SoundCloseFile
<1>3. fds' = [fds EXCEPT !["shell"] = s]
  BY ProcsFacts DEF IInv, TypeOK
<1> HIDE DEF s
<1>4. fds' \in [Procs -> Table] /\ fds'["shell"] = s /\ \A c \in Children : fds'[c] = fds[c]
  BY <1>2, <1>3, ShellTable DEF IInv
<1>5. pc' \in {"wait_src", "wait_out"} /\ (pc' = "wait_src" <=> line.piped)
  OBVIOUS
<1>6. TypeOK'
  BY <1>4, <1>5 DEF IInv, TypeOK, Places, history
<1>7. ControlInv'
  BY <1>0, <1>5, ProcsFacts DEF IInv, ControlInv, PipeOpen, Ended
<1>8. ShellInv'
  <2>1. Structs' = Structs /\ FileAt' = NoFd
    BY <1>5 DEF Structs, FileAt, OutputOpen
  <2> QED BY <1>0, <1>2, <1>4, <2>1 DEF ShellInv
<1>9. PICK p \in Pipes : PipeInv(p)
  BY DEF IInv
<1>10. EmptyInv' /\ SrcInv(p)' /\ OutInv(p)'
  BY <1>4, <1>9, StillFrame DEF IInv, PipeInv, Still
<1>11. PipeInv(p)'
  BY <1>0, <1>5, <1>9, <1>10 DEF PipeInv, PipeOpen, history
<1> QED BY <1>6, <1>7, <1>8, <1>10, <1>11 DEF IInv

LEMMA WaitSrcInv == ASSUME IInv, WaitSrc PROVE IInv'
<1> USE DEF WaitSrc
<1>1. TypeOK'
  BY DEF IInv, TypeOK, Places, history
<1>2. ControlInv'
  BY ProcsFacts DEF IInv, ControlInv, PipeOpen, Ended
<1>3. ShellInv'
  BY DEF IInv, ShellInv, Structs, FileAt, OutputOpen
<1>4. PICK p \in Pipes : PipeInv(p)
  BY DEF IInv
<1>5. EmptyInv' /\ SrcInv(p)' /\ OutInv(p)'
  BY <1>4, StillFrame DEF IInv, PipeInv, Still
<1>6. PipeInv(p)'
  BY <1>4, <1>5 DEF PipeInv, PipeOpen, history
<1> QED BY <1>1, <1>2, <1>3, <1>5, <1>6 DEF IInv

LEMMA WaitOutInv == ASSUME IInv, WaitOut PROVE IInv'
<1> USE DEF WaitOut
<1>0. /\ pipe = ClosedPipe /\ Ended("out") /\ (child["src"] # "none" => Ended("src"))
      /\ \A c \in Children : child'[c] = "none"
  BY DEF IInv, ControlInv, PipeOpen
<1>1. TypeOK'
  BY <1>0 DEF IInv, TypeOK, Places, Stages, Struct, history
<1>2. ControlInv'
  BY <1>0, ProcsFacts DEF IInv, ControlInv, PipeOpen, Ended
<1>3. ShellInv'
  <2>1. Structs' = Structs /\ FileAt' = FileAt
    BY <1>0 DEF Structs, FileAt, OutputOpen
  <2> QED BY <1>0, <2>1 DEF IInv, ShellInv
<1>4. EmptyInv'
  <2>1. \A c \in Children : ~Running(c)
    BY <1>0, ProcsFacts DEF Running, InProgram, Ended
  <2> QED BY <2>1 DEF IInv, EmptyInv
<1>5. PICK p \in Pipes : PipeInv(p)
  BY DEF IInv
<1>6. SrcInv(p)' /\ OutInv(p)'
  BY <1>0, ProcsFacts DEF SrcInv, OutInv, Running, InProgram
<1>7. PipeInv(p)'
  BY <1>6 DEF PipeInv, PipeOpen
<1> QED BY <1>1, <1>2, <1>3, <1>4, <1>7 DEF IInv

LEMMA DropPipeInv == ASSUME IInv, DropPipe PROVE IInv'
<1> USE DEF DropPipe
<1>0. pc = "prompt" /\ pipe = ClosedPipe
  BY DEF IInv, ControlInv, PipeOpen
<1>1. PICK q \in FreePipes :
         /\ fds' = [fds EXCEPT !["shell"] = NewPipe(fds["shell"], q).table]
         /\ garbage' = garbage \cup {NewPipe(fds["shell"], q).ends}
         /\ buf' = [buf EXCEPT ![q] = 0]
  OBVIOUS
<1> DEFINE new == NewPipe(fds["shell"], q)
<1>2. /\ new.table \in Table /\ new.ends \in Above \X Above
      /\ Sound(new.table, Structs \cup {new.ends}, NoFd)
  BY <1>0, NewInShell
<1>3. fds' = [fds EXCEPT !["shell"] = new.table] /\ garbage' = garbage \cup {new.ends}
  BY <1>1
<1> HIDE DEF new
<1>4. /\ fds' \in [Procs -> Table] /\ fds'["shell"] = new.table
      /\ \A c \in Children : fds'[c] = fds[c]
  BY <1>2, <1>3, ShellTable DEF IInv
<1>5. TypeOK'
  BY <1>1, <1>2, <1>3, <1>4 DEF IInv, TypeOK, Places, Struct, history
<1>6. ControlInv'
  BY ProcsFacts DEF IInv, ControlInv, PipeOpen, Ended
<1>7. ShellInv'
  <2>1. Structs' = Structs \cup {new.ends}
    BY <1>0, <1>2, <1>3, StructFacts DEF Structs
  <2>2. FileAt' = NoFd
    BY <1>0 DEF FileAt, OutputOpen
  <2> QED BY <1>0, <1>2, <1>4, <2>1, <2>2 DEF ShellInv
<1>8. PICK p \in Pipes : PipeInv(p)
  BY DEF IInv
<1>9. EmptyInv' /\ SrcInv(p)' /\ OutInv(p)'
  BY <1>4, <1>8, StillFrame DEF IInv, PipeInv, Still
<1>10. PipeInv(p)'
  BY <1>0, <1>9 DEF PipeInv, PipeOpen
<1> QED BY <1>5, <1>6, <1>7, <1>9, <1>10 DEF IInv

LEMMA CollectInv == ASSUME IInv, NEW u \in garbage, Collect(u) PROVE IInv'
<1> USE DEF Collect
<1> DEFINE t == fds["shell"]
           s == ShutPipe(t, u)
<1>0. /\ pc # "exited" /\ u \in Struct
      /\ Structs \in SUBSET (Above \X Above) /\ t \in Table
      /\ pipe # ClosedPipe => pipe \in Structs /\ pipe \notin garbage
  BY StructsType DEF IInv, ShellInv, TypeOK
<1>1. Sound(t, Structs, FileAt)
  BY <1>0 DEF IInv, ShellInv
<1>2. /\ s \in Table /\ Sound(s, Structs \ {u}, FileAt)
      /\ \A v \in Structs \ {u}, p \in Pipes : HasEnds(t, v, p) => HasEnds(s, v, p)
  <2>1. CASE u = ClosedPipe
    <3>1. s = t
      BY <2>1 DEF ShutPipe, Shut, ClosedPipe
    <3>2. Structs \ {u} = Structs
      BY <2>1 DEF Structs
    <3> QED BY <1>0, <1>1, <3>1, <3>2
  <2>2. CASE u # ClosedPipe
    <3>1. u \in Structs
      BY <2>2 DEF Structs
    <3> QED BY <1>0, <1>1, <3>1, SoundClosePipe, ShutPipeFacts
  <2> QED BY <2>1, <2>2
<1>3. fds' = [fds EXCEPT !["shell"] = s]
  BY ProcsFacts DEF IInv, TypeOK
<1> HIDE DEF s
<1>4. fds' \in [Procs -> Table] /\ fds'["shell"] = s /\ \A c \in Children : fds'[c] = fds[c]
  BY <1>2, <1>3, ShellTable DEF IInv
<1>5. TypeOK'
  BY <1>4 DEF IInv, TypeOK, history
<1>6. ControlInv'
  BY DEF IInv, ControlInv, PipeOpen, Ended
<1>7. ShellInv'
  <2>1. Structs' = Structs \ {u}
    BY <1>0 DEF Structs
  <2>2. FileAt' = FileAt
    BY DEF FileAt, OutputOpen
  <2> QED BY <1>0, <1>2, <1>4, <2>1, <2>2 DEF IInv, ShellInv
<1>8. PICK p \in Pipes : PipeInv(p)
  BY DEF IInv
<1>9. EmptyInv' /\ SrcInv(p)' /\ OutInv(p)'
  BY <1>4, <1>8, StillFrame DEF IInv, PipeInv, Still
<1>10. PipeInv(p)'
  <2>1. PipeOpen => pipe \in Structs \ {u}
    BY <1>0 DEF IInv, ControlInv
  <2>2. PipeOpen => HasEnds(fds["shell"], pipe, p)'
    <3>1. PipeOpen => HasEnds(s, pipe, p)
      BY <1>0, <1>2, <1>8, <2>1 DEF PipeInv
    <3> QED BY <1>4, <3>1 DEF HasEnds
  <2> QED BY <1>8, <1>9, <2>2 DEF PipeInv, PipeOpen, history
<1> QED BY <1>5, <1>6, <1>7, <1>9, <1>10 DEF IInv

(***************************************************************************)
(* The children's steps                                                    *)
(***************************************************************************)
\* A step that changes nothing of the shell, the line and the other child.
ChildFrame(c) ==
    /\ UNCHANGED <<pc, line, pipe, output, garbage>>
    /\ fds' \in [Procs -> Table] /\ fds'["shell"] = fds["shell"]
    /\ \A d \in Children \ {c} :
         /\ fds'[d] = fds[d] /\ child'[d] = child[d]
         /\ copy'[d] = copy[d] /\ next'[d] = next[d]

\* Such a step keeps the invariant if it keeps what is said of c.
LEMMA ChildKeeps ==
    ASSUME IInv, NEW c \in Children, ChildFrame(c), TypeOK',
           NEW p \in Pipes, PipeInv(p),
           c = "src" => SrcInv(p)', c = "out" => OutInv(p)',
           child[c] # "none", child'[c] # "none",
           Ended(c) => Ended(c)',
           c = "src" => child'[c] # "reading", c = "out" => child'[c] \notin {"writing", "killed"},
           ~Running(c)' => fds'[c] = Empty,
           line.piped /\ pc \notin {"prompt", "exited"} => buf'[p] + got' = wrote'
    PROVE  IInv'
<1> USE DEF ChildFrame
<1>1. ShellInv'
  BY ShellFrame DEF IInv
<1>2. ControlInv'
  <2>1. \A d \in Children : child'[d] = "none" <=> child[d] = "none"
    OBVIOUS
  <2>2. Ended("src") => Ended("src")'
    BY ProcsFacts DEF Ended
  <2>3. child'["src"] # "reading" /\ child'["out"] \notin {"writing", "killed"}
    BY ProcsFacts DEF IInv, ControlInv
  <2> QED BY <2>1, <2>2, <2>3, ProcsFacts DEF IInv, ControlInv, PipeOpen
<1>3. EmptyInv'
  <2>1. \A d \in Children \ {c} : Running(d)' <=> Running(d)
    BY DEF Running, InProgram
  <2> QED BY <2>1 DEF IInv, EmptyInv
<1>4. SrcInv(p)'
  <2>1. CASE c = "src"
    BY <2>1
  <2>2. CASE c # "src"
    BY <2>2, SrcFrame, ProcsFacts DEF PipeInv
  <2> QED BY <2>1, <2>2
<1>5. OutInv(p)'
  <2>1. CASE c = "out"
    BY <2>1
  <2>2. CASE c # "out"
    BY <2>2, OutFrame, ProcsFacts DEF PipeInv
  <2> QED BY <2>1, <2>2
<1>6. PipeInv(p)'
  <2>1. HasEnds(fds["shell"], pipe, p) => HasEnds(fds["shell"], pipe, p)'
    BY DEF HasEnds
  <2> QED BY <1>4, <1>5, <2>1 DEF PipeInv, PipeOpen
<1> QED BY <1>1, <1>2, <1>3, <1>6 DEF IInv

\* Where a program's streams are.
LEMMA StreamFacts ==
    ASSUME IInv, NEW p \in Pipes, PipeInv(p)
    PROVE  /\ InProgram("src") => Input("src") = {} /\ Outputs("src") = {p}
           /\ InProgram("out") => /\ Outputs("out") = {}
                                  /\ Input("out") = IF line.piped THEN {p} ELSE {}
<1>1. ASSUME InProgram("src") PROVE Input("src") = {} /\ Outputs("src") = {p}
  <2>1. /\ fds["src"][0] = Tty /\ fds["src"][1] = WriteEnd(p)
        /\ fds["src"][2] = WriteEnd(p) \/ fds["src"][2] = Tty
    BY <1>1 DEF PipeInv, SrcInv, Running
  <2> QED BY <2>1, DescriptorFacts DEF Input, Outputs
<1>2. ASSUME InProgram("out")
      PROVE  Outputs("out") = {} /\ Input("out") = IF line.piped THEN {p} ELSE {}
  <2>1. /\ fds["out"][1] = File \/ fds["out"][1] = Tty
        /\ fds["out"][2] = Tty
        /\ fds["out"][0] = IF line.piped THEN ReadEnd(p) ELSE Tty
    BY <1>2 DEF IInv, TypeOK, PipeInv, OutInv, FileInv, Running
  <2> QED BY <2>1, DescriptorFacts DEF Input, Outputs
<1> QED BY <1>1, <1>2

LEMMA EndInv ==
    ASSUME IInv, NEW c \in Children, NEW how \in {"exited", "killed"}, End(c, how),
           Running(c), how = "killed" => c = "src"
    PROVE  IInv'
<1> USE DEF End, Become
<1>1. ChildFrame(c) /\ fds'[c] = Empty /\ child'[c] = how
  BY ProcsFacts, TableFacts DEF IInv, TypeOK, ChildFrame
<1>2. TypeOK'
  BY <1>1 DEF IInv, TypeOK, ChildFrame, Stages, history
<1>3. PICK p \in Pipes : PipeInv(p)
  BY DEF IInv
<1>4. ~Running(c)' /\ child[c] # "none" /\ ~Ended(c)
  BY <1>1 DEF Running, InProgram, Ended
<1>5. (c = "src" => SrcInv(p)') /\ (c = "out" => OutInv(p)')
  BY <1>4 DEF SrcInv, OutInv
<1>6. line.piped /\ pc \notin {"prompt", "exited"} => buf'[p] + got' = wrote'
  BY <1>3 DEF PipeInv, history
<1> QED BY <1>1, <1>2, <1>3, <1>4, <1>5, <1>6, ChildKeeps DEF Ended

LEMMA BecomeInv ==
    ASSUME IInv, NEW c \in Children, NEW state \in {"program", "writing", "reading"},
           Become(c, state), Running(c), Bound(c),
           state = "writing" => c = "src", state = "reading" => c = "out",
           UNCHANGED <<pc, line, pipe, output, garbage, fds, copy, next>>,
           buf' \in [Pipes -> Nat], wrote' \in Nat, got' \in Nat, eof' \in BOOLEAN,
           NEW p \in Pipes, PipeInv(p),
           line.piped /\ pc \notin {"prompt", "exited"} => buf'[p] + got' = wrote'
    PROVE  IInv'
<1> USE DEF Become
<1>1. ChildFrame(c) /\ child'[c] = state
  BY DEF IInv, TypeOK, ChildFrame
<1>2. TypeOK'
  BY DEF IInv, TypeOK, Stages
<1>3. Binds(c)' = Binds(c)
  BY DEF Binds
<1>4. Running(c)' /\ Bound(c)' /\ ~Ended(c) /\ child[c] # "none"
  BY <1>1, <1>3 DEF Running, InProgram, Ended, Bound
<1>5. c = "src" => SrcInv(p)'
  BY <1>1, <1>3, <1>4 DEF PipeInv, SrcInv, Bound
<1>6. c = "out" => OutInv(p)'
  BY <1>1, <1>3, <1>4 DEF PipeInv, OutInv, FileInv, Bound
<1> QED BY <1>1, <1>2, <1>4, <1>5, <1>6, ChildKeeps DEF Ended

LEMMA BindSrcInv == ASSUME IInv, Bind("src") PROVE IInv'
<1> USE DEF Bind
<1>1. PICK p \in Pipes : PipeInv(p)
  BY DEF IInv
<1> DEFINE t == fds["src"]
           u == copy["src"]
           s == PipeBind(t, u, IF line.both THEN {"write", "error"} ELSE {"write"})
<1>2. child["src"] = "forked" /\ next["src"] = 1 /\ ~Bound("src")
  BY SrcBinds DEF Bound
<1>3. /\ t[0] = Tty /\ t[1] = Tty /\ t[2] = Tty /\ HasEnds(t, u, p)
      /\ t \in Table /\ u \in Above \X Above
  BY <1>1, <1>2, ProcsFacts DEF IInv, TypeOK, PipeInv, SrcInv, Running, Struct
<1>4. /\ s \in Table
      /\ s[0] = Tty /\ s[1] = WriteEnd(p) /\ s[2] = IF line.both THEN WriteEnd(p) ELSE Tty
      /\ \A n \in Fds : s[n] # ReadEnd(p)
      /\ s[u[2]] = WriteEnd(p)
  BY <1>3, SrcBindFacts DEF IInv, TypeOK
<1>5. fds' = [fds EXCEPT !["src"] = s]
  <2>1. /\ Binds("src")[1].what = "pipe"
        /\ Binds("src")[1].kind = IF line.both THEN {"write", "error"} ELSE {"write"}
    <3> DEFINE kind == IF line.both THEN {"write", "error"} ELSE {"write"}
    <3>1. Binds("src")[1] = BindTo("pipe", kind)
      BY SrcBinds
    <3> HIDE DEF kind
    <3>2. Binds("src")[1].what = "pipe" /\ Binds("src")[1].kind = kind
      BY <3>1 DEF BindTo
    <3> QED BY <3>2 DEF kind
  <2> QED BY <1>2, <2>1, ProcsFacts DEF IInv, TypeOK
<1> HIDE DEF s
<1>6. ChildFrame("src") /\ fds'["src"] = s /\ next'["src"] = 2
  BY <1>2, <1>4, <1>5, ProcsFacts DEF IInv, TypeOK, ChildFrame
<1>7. TypeOK'
  <2>1. next' \in [Children -> 1 .. 3]
    BY <1>2, ProcsFacts DEF IInv, TypeOK
  <2> QED BY <1>6, <2>1 DEF IInv, TypeOK, ChildFrame, history
<1>8. Bound("src")'
  BY <1>6, SrcBinds DEF Bound, Binds
<1>9. SrcInv(p)'
  BY <1>2, <1>3, <1>4, <1>6, <1>8, StructFacts DEF SrcInv, InProgram
<1>10. Running("src")' /\ ~Ended("src") /\ child["src"] # "none" /\ child'["src"] = "forked"
  BY <1>2 DEF Running, Ended
<1>11. line.piped /\ pc \notin {"prompt", "exited"} => buf'[p] + got' = wrote'
  BY <1>1 DEF PipeInv, history
<1> QED BY <1>1, <1>6, <1>7, <1>9, <1>10, <1>11, ChildKeeps, ProcsFacts DEF Ended

LEMMA BindOutInv == ASSUME IInv, Bind("out") PROVE IInv'
<1> USE DEF Bind
<1>1. PICK p \in Pipes : PipeInv(p)
  BY DEF IInv
<1> DEFINE t == fds["out"]
           u == copy["out"]
           n0 == next["out"]
<1>2. /\ child["out"] = "forked" /\ ~Bound("out") /\ Running("out")
      /\ line.redir \in BOOLEAN /\ line.piped \in BOOLEAN /\ n0 \in 1 .. 3
      /\ t \in Table /\ output \in Number
      /\ ~line.redir => output = NoFd
  BY ProcsFacts DEF Bound, Running, IInv, TypeOK, ControlInv
<1>3. /\ t[2] = Tty /\ t[0] = Tty
      /\ t[1] = IF output # NoFd /\ n0 > 1 THEN File ELSE Tty
      /\ output # NoFd => t[output] = File
      /\ line.piped => HasEnds(t, u, p) /\ u \in Above \X Above /\ u # ClosedPipe
  BY <1>1, <1>2, ProcsFacts DEF IInv, TypeOK, PipeInv, OutInv, FileInv, Struct
<1>4. Binds("out")' = Binds("out")
  BY DEF Binds
<1>5. next' = [next EXCEPT !["out"] = n0 + 1]
  OBVIOUS
<1>6. ASSUME NEW s \in Table, fds' = [fds EXCEPT !["out"] = s],
             s[2] = Tty, s[1] = IF output # NoFd /\ n0 + 1 > 1 THEN File ELSE Tty,
             output # NoFd => s[output] = File, n0 \in {1, 2},
             line.piped => IF (n0 + 1) \notin DOMAIN Binds("out")
                           THEN s[0] = ReadEnd(p) /\ \A n \in Fds : s[n] # WriteEnd(p)
                           ELSE s[0] = Tty /\ HasEnds(s, u, p),
             ~line.piped => s[0] = Tty
      PROVE  IInv'
  <2>1. ChildFrame("out") /\ fds'["out"] = s /\ next'["out"] = n0 + 1 /\ copy'["out"] = u
    BY <1>6, ProcsFacts DEF IInv, TypeOK, ChildFrame
  <2>2. TypeOK'
    <3>1. next' \in [Children -> 1 .. 3]
      BY <1>5, <1>6, ProcsFacts DEF IInv, TypeOK
    <3> QED BY <2>1, <3>1 DEF IInv, TypeOK, ChildFrame, history
  <2>3. Bound("out")' <=> (n0 + 1) \notin DOMAIN Binds("out")
    BY <1>4, <2>1 DEF Bound
  <2>4. FileInv'
    BY <1>6, <2>1 DEF FileInv
  <2>5. HasEnds(s, u, p) => HasEnds(fds["out"], copy["out"], p)'
    BY <2>1 DEF HasEnds
  <2>6. child'["out"] = "forked"
    BY <1>2
  <2>7. OutInv(p)'
    BY <1>3, <1>6, <2>1, <2>3, <2>4, <2>5, <2>6 DEF OutInv, InProgram
  <2>8. Running("out")' /\ ~Ended("out") /\ child["out"] # "none"
    BY <1>2, <2>6 DEF Running, Ended
  <2>9. line.piped /\ pc \notin {"prompt", "exited"} => buf'[p] + got' = wrote'
    BY <1>1 DEF PipeInv, history
  <2> QED BY <1>1, <2>1, <2>2, <2>6, <2>7, <2>8, <2>9, ChildKeeps, ProcsFacts DEF Ended
<1>7. CASE line.redir /\ n0 = 1
  <2> DEFINE s == FileBind(t, output, {"write"})
  <2>1. s \in Table /\ \A n \in Fds : s[n] = IF n = 1 /\ output # NoFd THEN File ELSE t[n]
    BY <1>2, <1>3, FileBindFacts
  <2>2. fds' = [fds EXCEPT !["out"] = s]
    <3>1. Binds("out")[1].what = "file" /\ Binds("out")[1].kind = {"write"}
      BY <1>2, <1>7, OutBinds DEF BindTo
    <3> QED BY <1>7, <3>1, ProcsFacts DEF IInv, TypeOK
  <2> HIDE DEF s
  <2>3. /\ s[2] = Tty /\ s[0] = Tty /\ n0 \in {1, 2} /\ n0 + 1 > 1
        /\ s[1] = IF output # NoFd /\ n0 + 1 > 1 THEN File ELSE Tty
    BY <1>3, <1>7, <2>1, FdFacts
  <2>4. output # NoFd => s[output] = File
    BY <1>2, <1>3, <2>1, FdFacts DEF Number
  <2>5. line.piped => (n0 + 1) \in DOMAIN Binds("out") /\ HasEnds(s, u, p)
    <3>1. line.piped => DOMAIN Binds("out") = {1, 2}
      BY <1>2, <1>7, OutBinds
    <3>2. line.piped => HasEnds(s, u, p)
      <4>1. line.piped => u[1] # 1 /\ u[2] # 1
        BY <1>3, FdFacts, StructFacts
      <4> QED BY <1>3, <2>1, <4>1, FdFacts, DescriptorFacts DEF HasEnds
    <3> QED BY <1>7, <3>1, <3>2
  <2>6. ~line.piped => s[0] = Tty
    BY <2>3
  <2> HIDE DEF t, u, n0
  <2> QED BY <1>6, <2>1, <2>2, <2>3, <2>4, <2>5, <2>6
<1>8. CASE ~(line.redir /\ n0 = 1)
  <2>1. /\ line.piped /\ n0 \in {1, 2} /\ (n0 + 1) \notin DOMAIN Binds("out")
        /\ Binds("out")[n0] = BindTo("pipe", {"read"})
        /\ n0 = 1 => ~line.redir
    BY <1>2, <1>8, OutBinds DEF Bound
  <2> DEFINE s == PipeBind(t, u, {"read"})
  <2>2. /\ s \in Table /\ s[0] = ReadEnd(p)
        /\ \A n \in Fds : s[n] # WriteEnd(p)
        /\ \A n \in Fds : n # 0 /\ n # u[2] => s[n] = t[n]
    BY <1>2, <1>3, <2>1, OutBindFacts
  <2>3. fds' = [fds EXCEPT !["out"] = s]
    <3>1. Binds("out")[n0].what = "pipe" /\ Binds("out")[n0].kind = {"read"}
      BY <2>1 DEF BindTo
    <3> QED BY <3>1, ProcsFacts DEF IInv, TypeOK
  <2> HIDE DEF s
  <2>4. u[2] \in Above /\ t[u[2]] = WriteEnd(p)
    BY <1>3, <2>1, FdFacts, StructFacts DEF HasEnds
  <2>5. s[1] = t[1] /\ s[2] = t[2]
    BY <2>2, <2>4, FdFacts
  <2>6. output # NoFd => s[output] = File
    <3>1. output # NoFd => output \in Above /\ output # u[2]
      BY <1>2, <1>3, <2>4, DescriptorFacts DEF Number
    <3> QED BY <1>3, <2>2, <3>1, FdFacts
  <2>7. s[1] = IF output # NoFd /\ n0 + 1 > 1 THEN File ELSE Tty
    BY <1>2, <1>3, <2>1, <2>5
  <2> QED BY <1>3, <1>6, <2>1, <2>2, <2>3, <2>5, <2>6, <2>7
<1> QED BY <1>7, <1>8

LEMMA ExecInv == ASSUME IInv, NEW c \in Children, Exec(c) PROVE IInv'
<1> USE DEF Exec
<1>1. Running(c) /\ Bound(c)
  BY DEF Running, Bound
<1>2. CASE Become(c, "program") /\ UNCHANGED <<pc, line, pipe, output, garbage, fds, buf, copy,
                                              next, history>>
  <2>1. PICK p \in Pipes : PipeInv(p)
    BY DEF IInv
  <2>2. buf' \in [Pipes -> Nat] /\ wrote' \in Nat /\ got' \in Nat /\ eof' \in BOOLEAN
    BY <1>2 DEF IInv, TypeOK, history
  <2>3. line.piped /\ pc \notin {"prompt", "exited"} => buf'[p] + got' = wrote'
    BY <1>2, <2>1 DEF PipeInv, history
  <2> QED BY <1>1, <1>2, <2>1, <2>2, <2>3, BecomeInv
<1>3. CASE End(c, "exited")
  BY <1>1, <1>3, EndInv
<1> QED BY <1>2, <1>3

LEMMA DecideInv == ASSUME IInv, NEW c \in Children, Decide(c) PROVE IInv'
<1> USE DEF Decide
<1>1. PICK p \in Pipes : PipeInv(p)
  BY DEF IInv
<1>2. InProgram(c) /\ Running(c) /\ Bound(c)
  BY <1>1, ProcsFacts DEF Running, InProgram, PipeInv, SrcInv, OutInv
<1>3. CASE End(c, "exited")
  BY <1>2, <1>3, EndInv
<1>4. ASSUME NEW state \in {"writing", "reading"}, Become(c, state),
             state = "writing" => Outputs(c) # {}, state = "reading" => Input(c) # {},
             UNCHANGED <<pc, line, pipe, output, garbage, fds, buf, copy, next, history>>
      PROVE  IInv'
  <2>1. (state = "writing" => c = "src") /\ (state = "reading" => c = "out")
    BY <1>1, <1>2, <1>4, StreamFacts, ProcsFacts
  <2>2. buf' \in [Pipes -> Nat] /\ wrote' \in Nat /\ got' \in Nat /\ eof' \in BOOLEAN
    BY <1>4 DEF IInv, TypeOK, history
  <2>3. line.piped /\ pc \notin {"prompt", "exited"} => buf'[p] + got' = wrote'
    BY <1>1, <1>4 DEF PipeInv, history
  <2> QED BY <1>1, <1>2, <1>4, <2>1, <2>2, <2>3, BecomeInv
<1> QED BY <1>3, <1>4

\* Only the first program of a pipeline writes, and to the line's pipe.
LEMMA WriteFacts ==
    ASSUME IInv, NEW c \in Children, child[c] = "writing", NEW p \in Pipes, PipeInv(p)
    PROVE  /\ c = "src" /\ Outputs(c) = {p} /\ Running(c) /\ Bound(c) /\ line.piped
           /\ pc # "prompt"
  BY StreamFacts, ProcsFacts
     DEF IInv, ControlInv, TypeOK, Places, Running, InProgram, PipeInv, SrcInv

LEMMA WriteInv == ASSUME IInv, NEW c \in Children, Write(c) PROVE IInv'
<1> USE DEF Write
<1>1. PICK p \in Pipes : PipeInv(p)
  BY DEF IInv
<1>2. c = "src" /\ Outputs(c) = {p} /\ Running(c) /\ Bound(c)
  BY <1>1, WriteFacts
<1>3. CASE End(c, "killed")
  BY <1>2, <1>3, EndInv
<1>4. CASE /\ buf' = [buf EXCEPT ![p] = @ + 1] /\ wrote' = wrote + 1 /\ Become(c, "program")
           /\ UNCHANGED <<pc, line, pipe, output, garbage, fds, copy, next, got, eof>>
  <2>1. buf' \in [Pipes -> Nat] /\ wrote' \in Nat /\ got' \in Nat /\ eof' \in BOOLEAN
    BY <1>4 DEF IInv, TypeOK
  <2>2. line.piped /\ pc \notin {"prompt", "exited"} => buf'[p] + got' = wrote'
    BY <1>1, <1>4 DEF PipeInv, IInv, TypeOK
  <2> QED BY <1>1, <1>2, <1>4, <2>1, <2>2, BecomeInv
<1> QED BY <1>2, <1>3, <1>4

\* Only the last program of a pipeline reads, and from the line's pipe.
LEMMA ReadFacts ==
    ASSUME IInv, NEW c \in Children, child[c] = "reading", Input(c) # {},
           NEW p \in Pipes, PipeInv(p)
    PROVE  /\ c = "out" /\ Input(c) = {p} /\ Running(c) /\ Bound(c) /\ line.piped
           /\ pc \notin {"prompt", "exited"}
<1>1. c = "out"
  BY ProcsFacts DEF IInv, ControlInv
<1>2. InProgram(c) /\ Running(c)
  BY DEF InProgram, Running
<1>3. Input(c) = {p} /\ line.piped
  BY <1>1, <1>2, StreamFacts
<1>4. Bound(c)
  BY <1>1, <1>2 DEF PipeInv, OutInv
<1>5. pc \notin {"prompt", "exited"}
  BY <1>1, ProcsFacts DEF IInv, ControlInv
<1> QED BY <1>1, <1>2, <1>3, <1>4, <1>5

LEMMA ReadInv == ASSUME IInv, NEW c \in Children, Read(c) PROVE IInv'
<1> USE DEF Read
<1>1. PICK p \in Pipes : PipeInv(p)
  BY DEF IInv
<1>2. /\ c = "out" /\ Input(c) = {p} /\ Running(c) /\ Bound(c) /\ line.piped
      /\ pc \notin {"prompt", "exited"}
  BY <1>1, ReadFacts
<1>3. /\ buf' \in [Pipes -> Nat] /\ wrote' \in Nat /\ got' \in Nat /\ eof' \in BOOLEAN
      /\ buf'[p] + got' = wrote'
  <2>1. buf[p] + got = wrote
    BY <1>1, <1>2 DEF PipeInv
  <2>2. CASE /\ buf[p] > 0 /\ buf' = [buf EXCEPT ![p] = @ - 1] /\ got' = got + 1
             /\ UNCHANGED eof
    BY <2>1, <2>2 DEF IInv, TypeOK
  <2>3. CASE eof' = TRUE /\ UNCHANGED <<buf, got>>
    BY <2>1, <2>3 DEF IInv, TypeOK
  <2> QED BY <1>2, <2>2, <2>3
<1> QED BY <1>1, <1>2, <1>3, BecomeInv

LEMMA NextIInv == IInv /\ [Next]_vars => IInv'
<1> SUFFICES ASSUME IInv, [Next]_vars PROVE IInv'
  OBVIOUS
<1>1. CASE NewLine
  BY <1>1, RunCommandInv, RunPipedInv DEF NewLine
<1>2. CASE ShellStep
  BY <1>2, OpenOutputInv, RunSrcInv, RunOutInv, ClosePipeInv, CloseOutputInv, WaitSrcInv,
     WaitOutInv DEF ShellStep
<1>3. CASE DropPipe
  BY <1>3, DropPipeInv
<1>4. CASE \E u \in garbage : Collect(u)
  BY <1>4, CollectInv
<1>5. ASSUME NEW c \in Children, ChildStep(c) PROVE IInv'
  <2>1. CASE Bind(c)
    BY <2>1, BindSrcInv, BindOutInv, ProcsFacts
  <2>2. CASE Exec(c) \/ Decide(c) \/ Write(c) \/ Read(c)
    BY <2>2, ExecInv, DecideInv, WriteInv, ReadInv
  <2> QED BY <1>5, <2>1, <2>2 DEF ChildStep
<1>6. CASE UNCHANGED vars
  <2>1. PICK p \in Pipes : PipeInv(p)
    BY DEF IInv
  <2>2. TypeOK' /\ ControlInv' /\ ShellInv'
    BY <1>6, ShellFrame DEF vars, IInv, TypeOK, ControlInv, PipeOpen, Ended
  <2>3. EmptyInv' /\ SrcInv(p)' /\ OutInv(p)'
    BY <1>6, <2>1, StillFrame DEF vars, IInv, PipeInv, Still
  <2>4. PipeInv(p)'
    BY <1>6, <2>1, <2>3 DEF vars, PipeInv, PipeOpen, HasEnds
  <2> QED BY <2>2, <2>3, <2>4 DEF IInv
<1> QED BY <1>1, <1>2, <1>3, <1>4, <1>5, <1>6 DEF Next

LEMMA SpecIInv == Spec => []IInv
  BY InitIInv, NextIInv, PTL DEF Spec

(***************************************************************************)
(* The theorems                                                            *)
(***************************************************************************)
\* Every variable keeps its type, whatever fails.
THEOREM TypeCorrect == Spec => []TypeOK
<1>1. IInv => TypeOK
  BY DEF IInv
<1> QED BY <1>1, SpecIInv, PTL

\* The shell leaks no descriptor, and closes none that belongs to somebody else, for any
\* lines, failures and collections (close of io_api.c, run_piped of lang.lua).
THEOREM AlwaysOneOwner == Spec => []OneOwner
<1>1. IInv => OneOwner
  <2> SUFFICES ASSUME IInv, pc # "exited" PROVE OneOwner
    BY DEF OneOwner
  <2> DEFINE t == fds["shell"]
  <2>1. Sound(t, Structs, FileAt)
    BY DEF IInv, ShellInv
  <2>2. /\ Structs \in SUBSET (Above \X Above) /\ t \in Table
        /\ pipe \in Struct /\ garbage \subseteq Struct /\ output \in Number
    BY StructsType DEF IInv, TypeOK
  <2>3. \A u \in garbage \cup {pipe} : u \in Structs \/ (u = ClosedPipe /\ Ends(u) = {})
    BY DEF Structs, Ends, ClosedPipe
  <2>4. \A u \in Structs : /\ u \in garbage \cup {pipe} /\ Ends(u) = {u[1], u[2]}
                           /\ u[1] \in Above /\ u[2] \in Above
                           /\ \E p \in Pipes : t[u[1]] = ReadEnd(p) /\ t[u[2]] = WriteEnd(p)
    <3> SUFFICES ASSUME NEW u \in Structs
                 PROVE  /\ u \in garbage \cup {pipe} /\ Ends(u) = {u[1], u[2]}
                        /\ u[1] \in Above /\ u[2] \in Above
                        /\ \E p \in Pipes : t[u[1]] = ReadEnd(p) /\ t[u[2]] = WriteEnd(p)
      OBVIOUS
    <3>1. u \in Above \X Above /\ u \in garbage \cup {pipe}
      BY <2>2 DEF Structs
    <3>2. PICK p \in Pipes : HasEnds(t, u, p)
      BY <2>1 DEF Sound
    <3>3. u[1] \in Above /\ u[2] \in Above /\ Ends(u) = {u[1], u[2]}
      BY <3>1, StructFacts
    <3>4. t[u[1]] = ReadEnd(p) /\ t[u[2]] = WriteEnd(p)
      BY <3>2, <3>3, FdFacts DEF HasEnds
    <3> QED BY <3>1, <3>3, <3>4
  <2>5. OutputOpen => output \in Above /\ t[output] = File
    <3>1. OutputOpen => FileAt = output /\ output \in Above
      BY <2>2 DEF OutputOpen, FileAt, Number
    <3> QED BY <2>1, <3>1 DEF Sound
  <2>6. Owned = {n \in Above : t[n] # Closed}
    <3>0. ASSUME NEW n
          PROVE  n \in Owned <=> \/ \E u \in garbage \cup {pipe} : n \in Ends(u)
                                 \/ (OutputOpen /\ n = output)
      <4> HIDE DEF t
      <4>1. n \in (UNION {Ends(u) : u \in garbage \cup {pipe}})
              <=> \E u \in garbage \cup {pipe} : n \in Ends(u)
        OBVIOUS
      <4>2. n \in (IF OutputOpen THEN {output} ELSE {}) <=> (OutputOpen /\ n = output)
        OBVIOUS
      <4> QED BY <4>1, <4>2 DEF Owned
    <3>1. ASSUME NEW n \in Owned PROVE n \in Above /\ t[n] # Closed
      <4>1. CASE \E u \in garbage \cup {pipe} : n \in Ends(u)
        <5>1. PICK u \in garbage \cup {pipe} : n \in Ends(u)
          BY <4>1
        <5>2. u \in Structs
          BY <2>3, <5>1
        <5>3. PICK p \in Pipes : t[u[1]] = ReadEnd(p) /\ t[u[2]] = WriteEnd(p)
          BY <2>4, <5>2
        <5>4. n \in Above /\ (n = u[1] \/ n = u[2])
          BY <2>4, <5>1, <5>2
        <5> HIDE DEF t
        <5> QED BY <5>3, <5>4, DescriptorFacts
      <4>2. CASE OutputOpen /\ n = output
        BY <2>5, <4>2, DescriptorFacts
      <4> QED BY <3>0, <3>1, <4>1, <4>2
    <3>2. ASSUME NEW n \in Above, t[n] # Closed PROVE n \in Owned
      <4>1. CASE t[n] = File
        <5>1. n = FileAt
          BY <2>1, <4>1 DEF Sound
        <5>2. OutputOpen /\ n = output
          BY <5>1, FdFacts DEF FileAt
        <5> QED BY <3>0, <5>2
      <4>2. CASE t[n] # File
        <5>1. t[n] \in PipeEnds
          BY <2>1, <2>2, <3>2, <4>2, FdFacts DEF Sound, Table, Descriptor
        <5>2. \E u \in Structs : n \in Ends(u)
          BY <2>1, <5>1 DEF Sound
        <5> QED BY <2>4, <3>0, <5>2
      <4> QED BY <4>1, <4>2
    <3> QED BY <3>1, <3>2
  <2>7. \A n \in 0 .. 2 : t[n] = Tty
    BY <2>1 DEF Sound
  <2>8. \A u, v \in garbage \cup {pipe} : u # v => Ends(u) \cap Ends(v) = {}
    BY <2>1, <2>2, <2>3, SoundDisjoint
  <2>9. OutputOpen => \A u \in garbage \cup {pipe} : output \notin Ends(u)
    BY <2>3, <2>4, <2>5, DescriptorFacts
  <2> QED BY <2>6, <2>7, <2>8, <2>9 DEF OneOwner, Above
<1> QED BY <1>1, SpecIInv, PTL

\* Every program finds its streams where the line says, and holds no end of the line's
\* pipe but its own (command_bind and the loop over the binds of command_run, process.c).
THEOREM AlwaysWired == Spec => []Wired
<1>1. IInv => Wired
  <2> SUFFICES ASSUME IInv PROVE Wired
    OBVIOUS
  <2>1. PICK p \in Pipes : PipeInv(p)
    BY DEF IInv
  <2>2. ASSUME InProgram("src")
        PROVE  /\ fds["src"][0] = Tty /\ fds["src"][1] = WriteEnd(p)
               /\ fds["src"][2] = IF line.both THEN WriteEnd(p) ELSE Tty
               /\ "src" \notin Readers(p)
    BY <2>1, <2>2 DEF PipeInv, SrcInv, Running, Readers, Holders
  <2>3. ASSUME InProgram("out")
        PROVE  /\ fds["out"][0] = IF line.piped THEN ReadEnd(p) ELSE Tty
               /\ fds["out"][1] = IF output # NoFd THEN File ELSE Tty
               /\ fds["out"][2] = Tty
               /\ line.piped => "out" \notin Writers(p)
    <3>1. /\ Running("out") /\ Bound("out") /\ OutInv(p)
          /\ line.piped \in BOOLEAN /\ line.redir \in BOOLEAN /\ next["out"] \in 1 .. 3
      BY <2>1, <2>3, ProcsFacts DEF PipeInv, OutInv, Running, IInv, TypeOK
    <3>2. output # NoFd => next["out"] > 1
      <4>1. output # NoFd => line.redir
        BY <3>1 DEF IInv, ControlInv
      <4>2. line.redir => 1 \in DOMAIN Binds("out")
        BY <3>1, OutBinds
      <4> QED BY <3>1, <4>1, <4>2 DEF Bound
    <3> QED BY <3>1, <3>2 DEF OutInv, FileInv, Writers, Holders
  <2> QED BY <2>1, <2>2, <2>3 DEF Wired
<1> QED BY <1>1, SpecIInv, PTL

(***************************************************************************)
(* The refinement of PipedLine, step by step                               *)
(***************************************************************************)
LEMMA RefineInit == Init => Abstract!Init
  BY DEF Init, Abstract!Init, Stage

\* A step within a line, or within the prompt, that neither starts nor ends a program.
LEMMA Stutter ==
    ASSUME UNCHANGED <<line, wrote, got, eof>>,
           (pc' = "exited") = (pc = "exited"), (pc' = "prompt") = (pc = "prompt"),
           \A c \in Children : Stage(c)' = Stage(c)
    PROVE  UNCHANGED Abstract!vars
  BY ProcsFacts DEF Abstract!vars

LEMMA SameStage ==
    ASSUME UNCHANGED <<line, child>>
    PROVE  \A c \in Children : Stage(c)' = Stage(c)
  BY DEF Stage

LEMMA RefineNewLine ==
    ASSUME IInv, NewLine
    PROVE  Abstract!Begin \/ Abstract!Abort \/ UNCHANGED Abstract!vars
<1>1. PICK both, redir \in BOOLEAN : RunCommand(redir) \/ RunPiped(both, redir)
  BY DEF NewLine
<1>2. pc = "prompt" /\ Stage("src") = "none" /\ Stage("out") = "none"
  BY <1>1, ProcsFacts DEF RunCommand, RunPiped, IInv, ControlInv, Stage
<1>3. /\ child' = child
      /\ Stage("src")' = "none" /\ Stage("out")' = "none"
  BY <1>1, <1>2, ProcsFacts DEF RunCommand, RunPiped, IInv, ControlInv, Stage
<1>4. CASE RunCommand(redir)
  BY <1>2, <1>3, <1>4 DEF RunCommand, Abstract!vars, history
<1>5. CASE RunPiped(both, redir)
  <2>1. CASE pc' = "exited" /\ UNCHANGED history
    BY <1>2, <1>3, <2>1 DEF Abstract!Abort, history
  <2>2. CASE /\ wrote' = 0 /\ got' = 0 /\ eof' = FALSE
             /\ pc' = IF redir THEN "open" ELSE "run_src"
    BY <1>2, <1>3, <1>5, <2>2 DEF RunPiped, Abstract!Begin
  <2> QED BY <1>5, <2>1, <2>2 DEF RunPiped, Exit
<1> QED BY <1>1, <1>4, <1>5

LEMMA RefineRunSrc ==
    ASSUME IInv, RunSrc
    PROVE  Abstract!StartSrc \/ Abstract!Abort
<1>1. pc = "run_src" /\ line.piped /\ Stage("src") = "none" /\ Stage("out") = "none"
  BY ProcsFacts DEF RunSrc, IInv, ControlInv, Stage
<1>2. UNCHANGED <<line, wrote, got, eof>>
  BY DEF RunSrc, Fork, history
<1>3. CASE pc' = "exited" /\ child' = child
  <2>1. Stage("src")' = "none" /\ Stage("out")' = "none"
    BY <1>1, <1>2, <1>3 DEF Stage
  <2> QED BY <1>1, <1>2, <1>3, <2>1 DEF Abstract!Abort
<1>4. CASE child' = [child EXCEPT !["src"] = "forked"] /\ pc' = "run_out"
  <2>1. Stage("src")' = "runs" /\ Stage("out")' = "none"
    BY <1>1, <1>2, <1>4, ProcsFacts DEF Stage, IInv, TypeOK
  <2> QED BY <1>1, <1>2, <1>4, <2>1 DEF Abstract!StartSrc
<1> QED BY <1>3, <1>4 DEF RunSrc, Fork, Exit

LEMMA RefineRunOut ==
    ASSUME IInv, RunOut
    PROVE  Abstract!StartOut \/ Abstract!Abort \/ UNCHANGED Abstract!vars
<1>1. /\ pc = "run_out" /\ Stage("out") = "none" /\ child["out"] = "none"
      /\ line.piped => Stage("src") # "none"
      /\ line.piped \in BOOLEAN
  BY ProcsFacts DEF RunOut, IInv, ControlInv, TypeOK, Stage
<1>2. UNCHANGED <<line, wrote, got, eof>>
  BY DEF RunOut, Fork, history
<1>3. CASE pc' = "exited" /\ child' = child
  <2>1. Stage("src")' = Stage("src") /\ Stage("out")' = "none"
    BY <1>1, <1>2, <1>3 DEF Stage
  <2> QED BY <1>1, <1>2, <1>3, <2>1 DEF Abstract!Abort
<1>4. CASE /\ child' = [child EXCEPT !["out"] = "forked"]
           /\ pc' = IF line.piped THEN "close_pipe" ELSE Closing
  <2>1. /\ Stage("src")' = Stage("src")
        /\ Stage("out")' = IF line.piped THEN "runs" ELSE "none"
    BY <1>1, <1>2, <1>4, ProcsFacts DEF Stage, IInv, TypeOK
  <2>2. pc' # "prompt" /\ pc' # "exited"
    BY <1>4 DEF Closing
  <2>3. CASE line.piped
    BY <1>1, <1>2, <2>1, <2>2, <2>3 DEF Abstract!StartOut
  <2>4. CASE ~line.piped
    BY <1>1, <1>2, <2>1, <2>2, <2>4, Stutter, ProcsFacts
  <2> QED BY <1>1, <2>3, <2>4
<1> QED BY <1>3, <1>4 DEF RunOut, Fork, Exit

LEMMA RefineWaitOut ==
    ASSUME IInv, WaitOut
    PROVE  Abstract!Finish \/ UNCHANGED Abstract!vars
<1>1. /\ pc = "wait_out" /\ pc' = "prompt" /\ UNCHANGED <<line, wrote, got, eof>>
      /\ Stage("src")' = "none" /\ Stage("out")' = "none" /\ line.piped \in BOOLEAN
  BY DEF WaitOut, Stage, history, Children, IInv, TypeOK
<1>2. CASE line.piped
  <2>1. Stage("out") = "ended" /\ Stage("src") \in {"ended", "cut"}
    BY <1>1, <1>2 DEF WaitOut, Ended, IInv, ControlInv, Stage
  <2> QED BY <1>1, <1>2, <2>1 DEF Abstract!Finish
<1>3. CASE ~line.piped
  BY <1>1, <1>3 DEF Abstract!vars, Stage
<1> QED BY <1>1, <1>2, <1>3

\* A child that ends by itself.
LEMMA RefineEnd ==
    ASSUME IInv, NEW c \in Children, Running(c), End(c, "exited")
    PROVE  Abstract!EndSrc \/ Abstract!EndOut \/ UNCHANGED Abstract!vars
<1>1. /\ child' = [child EXCEPT ![c] = "exited"]
      /\ UNCHANGED <<pc, line, wrote, got, eof>> /\ line.piped \in BOOLEAN
  BY DEF End, Become, history, IInv, TypeOK
<1>2. /\ \A d \in Children : Stage(d)' = IF d = c /\ line.piped THEN "ended" ELSE Stage(d)
      /\ line.piped => Stage(c) = "runs"
  BY <1>1, ProcsFacts DEF IInv, TypeOK, Stage, Running, InProgram
<1>3. CASE line.piped /\ c = "src"
  BY <1>1, <1>2, <1>3, ProcsFacts DEF Abstract!EndSrc
<1>4. CASE line.piped /\ c = "out"
  BY <1>1, <1>2, <1>4, ProcsFacts DEF Abstract!EndOut
<1>5. CASE ~line.piped
  BY <1>1, <1>2, <1>5, Stutter
<1> QED BY <1>1, <1>3, <1>4, <1>5, ProcsFacts

\* A child that goes on running.
LEMMA RefineBecome ==
    ASSUME IInv, NEW c \in Children, Running(c), UNCHANGED <<pc, line>>,
           NEW state \in {"program", "writing", "reading"}, Become(c, state)
    PROVE  \A d \in Children : Stage(d)' = Stage(d)
  BY ProcsFacts DEF IInv, TypeOK, Become, Stage, Running, InProgram

\* Somebody holds the end a running program of the line waits for.
LEMMA Held ==
    ASSUME IInv, NEW p \in Pipes, PipeInv(p), line.piped
    PROVE  /\ Running("src") => Writers(p) # {}
           /\ Running("out") => Readers(p) # {}
           /\ pc = "run_out" => Readers(p) # {}
<1>1. ASSUME NEW t \in Table, NEW u \in Struct, u # ClosedPipe, HasEnds(t, u, p)
      PROVE  /\ \E n \in Fds : t[n] = ReadEnd(p)
             /\ \E n \in Fds : t[n] = WriteEnd(p)
  <2>1. u[1] \in Fds /\ u[2] \in Fds
    BY <1>1, StructFacts, FdFacts DEF Struct
  <2> QED BY <1>1, <2>1 DEF HasEnds
<1>2. ASSUME Running("src") PROVE Writers(p) # {}
  <2>1. SrcInv(p) /\ fds["src"] \in Table /\ copy["src"] \in Struct
    BY ProcsFacts DEF PipeInv, IInv, TypeOK
  <2>2. \E n \in Fds : fds["src"][n] = WriteEnd(p)
    BY <1>1, <1>2, <2>1, FdFacts DEF SrcInv
  <2> QED BY <2>2, ProcsFacts DEF Writers, Holders
<1>3. ASSUME Running("out") PROVE Readers(p) # {}
  <2>1. OutInv(p) /\ fds["out"] \in Table /\ copy["out"] \in Struct
    BY ProcsFacts DEF PipeInv, IInv, TypeOK
  <2>2. \E n \in Fds : fds["out"][n] = ReadEnd(p)
    BY <1>1, <1>3, <2>1, FdFacts DEF OutInv
  <2> QED BY <2>2, ProcsFacts DEF Readers, Holders
<1>4. ASSUME pc = "run_out" PROVE Readers(p) # {}
  <2>1. /\ HasEnds(fds["shell"], pipe, p) /\ fds["shell"] \in Table
        /\ pipe \in Struct /\ pipe # ClosedPipe
    BY <1>4, ProcsFacts DEF PipeInv, PipeOpen, IInv, TypeOK, ControlInv
  <2>2. \E n \in Fds : fds["shell"][n] = ReadEnd(p)
    BY <1>1, <2>1
  <2> QED BY <2>2, ProcsFacts DEF Readers, Holders
<1> QED BY <1>2, <1>3, <1>4

LEMMA RefineWrite ==
    ASSUME IInv, NEW c \in Children, Write(c)
    PROVE  Abstract!Write \/ Abstract!CutSrc
<1>1. PICK p \in Pipes : PipeInv(p)
  BY DEF IInv
<1>2. /\ c = "src" /\ child["src"] = "writing" /\ Outputs(c) = {p} /\ Running(c)
      /\ line.piped /\ pc # "prompt" /\ Stage("src") = "runs"
  BY <1>1, WriteFacts DEF Write, Stage
<1>3. CASE Readers(p) = {} /\ End("src", "killed")
  <2>1. /\ UNCHANGED <<pc, line, wrote, got, eof>>
        /\ Stage("src")' = "cut" /\ Stage("out")' = Stage("out")
    BY <1>2, <1>3, ProcsFacts DEF End, Become, history, IInv, TypeOK, Stage
  <2>2. pc = "exited" \/ Stage("out") = "ended"
    <3>1. ~Running("out") /\ pc # "run_out"
      BY <1>1, <1>2, <1>3, Held
    <3>2. child["out"] \in {"none", "exited"}
      BY <3>1, ProcsFacts DEF Running, InProgram, IInv, TypeOK, ControlInv, Stages
    <3>3. child["out"] = "none" => pc = "exited"
      BY <1>2, <3>1, ProcsFacts DEF IInv, TypeOK, ControlInv, Places
    <3> QED BY <1>2, <3>2, <3>3 DEF Stage
  <2> QED BY <1>2, <2>1, <2>2 DEF Abstract!CutSrc
<1>4. CASE wrote' = wrote + 1 /\ Become("src", "program") /\ UNCHANGED <<pc, line, got, eof>>
  BY <1>2, <1>4, RefineBecome, ProcsFacts DEF Abstract!Write
<1> QED BY <1>2, <1>3, <1>4 DEF Write

LEMMA RefineRead ==
    ASSUME IInv, NEW c \in Children, Read(c)
    PROVE  Abstract!Read \/ Abstract!ReadEnd
<1>1. PICK p \in Pipes : PipeInv(p)
  BY DEF IInv
<1>2. /\ c = "out" /\ Input(c) = {p} /\ Running(c) /\ line.piped
      /\ pc \notin {"prompt", "exited"} /\ child["out"] = "reading"
  BY <1>1, ReadFacts DEF Read
<1>3. /\ Stage("out") = "runs" /\ UNCHANGED <<pc, line, wrote>>
      /\ Stage("src")' = Stage("src") /\ Stage("out")' = Stage("out")
  BY <1>2, RefineBecome, ProcsFacts DEF Read, Stage
<1>4. /\ buf[p] + got = wrote
      /\ buf[p] \in Nat /\ got \in Nat /\ wrote \in Nat
  BY <1>1, <1>2 DEF PipeInv, IInv, TypeOK
<1>5. CASE buf[p] > 0 /\ got' = got + 1 /\ UNCHANGED eof
  <2>1. got < wrote
    BY <1>4, <1>5
  <2> QED BY <1>2, <1>3, <1>5, <2>1 DEF Abstract!Read
<1>6. CASE buf[p] = 0 /\ Writers(p) = {} /\ eof' = TRUE /\ UNCHANGED got
  <2>1. got = wrote
    BY <1>4, <1>6
  <2>2. child["src"] # "none" /\ ~Running("src")
    BY <1>1, <1>2, <1>6, Held, ProcsFacts DEF IInv, TypeOK, ControlInv, Places
  <2>3. Stage("src") \in {"ended", "cut"}
    BY <1>2, <2>2, ProcsFacts DEF IInv, TypeOK, Stages, Running, InProgram, Stage
  <2> QED BY <1>2, <1>3, <1>6, <2>1, <2>3 DEF Abstract!ReadEnd
<1> QED BY <1>2, <1>5, <1>6 DEF Read

LEMMA RefineChild ==
    ASSUME IInv, NEW c \in Children, ChildStep(c)
    PROVE  Abstract!Next \/ UNCHANGED Abstract!vars
<1>1. ASSUME UNCHANGED <<pc, line, wrote, got, eof>>, Running(c),
             NEW state \in {"program", "writing", "reading"}, Become(c, state)
      PROVE  UNCHANGED Abstract!vars
  BY <1>1, RefineBecome, Stutter
<1>2. ASSUME Running(c), End(c, "exited") PROVE Abstract!Next \/ UNCHANGED Abstract!vars
  BY <1>2, RefineEnd DEF Abstract!Next
<1>3. CASE Bind(c)
  BY <1>3, SameStage, Stutter DEF Bind, history
<1>4. CASE Exec(c)
  BY <1>1, <1>2, <1>4 DEF Exec, Running, history
<1>5. CASE Decide(c)
  BY <1>1, <1>2, <1>5 DEF Decide, Running, InProgram, history
<1>6. CASE Write(c)
  BY <1>6, RefineWrite DEF Abstract!Next
<1>7. CASE Read(c)
  BY <1>7, RefineRead DEF Abstract!Next
<1> QED BY <1>3, <1>4, <1>5, <1>6, <1>7 DEF ChildStep

LEMMA RefineNext == IInv /\ [Next]_vars => [Abstract!Next]_Abstract!vars
<1> SUFFICES ASSUME IInv, [Next]_vars PROVE Abstract!Next \/ UNCHANGED Abstract!vars
  OBVIOUS
<1>1. CASE NewLine
  BY <1>1, RefineNewLine DEF Abstract!Next
<1>2. CASE RunSrc \/ RunOut \/ WaitOut
  BY <1>2, RefineRunSrc, RefineRunOut, RefineWaitOut DEF Abstract!Next
<1>3. CASE OpenOutput \/ ClosePipe \/ CloseOutput \/ WaitSrc
  <2>1. /\ UNCHANGED <<line, child, wrote, got, eof>>
        /\ pc \notin {"prompt", "exited"} /\ pc' \notin {"prompt", "exited"}
    BY <1>3 DEF OpenOutput, ClosePipe, CloseOutput, WaitSrc, Closing, history
  <2> QED BY <2>1, SameStage, Stutter
<1>4. CASE DropPipe \/ \E u \in garbage : Collect(u)
  <2>1. UNCHANGED <<pc, line, child, wrote, got, eof>>
    BY <1>4 DEF DropPipe, Collect, history
  <2> QED BY <2>1, SameStage, Stutter
<1>5. CASE \E c \in Children : ChildStep(c)
  BY <1>5, RefineChild
<1>6. CASE UNCHANGED vars
  BY <1>6, SameStage, Stutter DEF vars
<1> QED BY <1>1, <1>2, <1>3, <1>4, <1>5, <1>6 DEF Next, ShellStep

\* Whatever fails, and whenever the collector runs, a pipeline keeps PipedLine's promise:
\* the second program sees the end of what the first wrote only when the first has ended
\* and everything is read, and the first is cut off only when nobody is left to read.
THEOREM Implements == Spec => KeepsStream
  BY RefineInit, RefineNext, SpecIInv, PTL DEF Spec, KeepsStream, Abstract!Spec
=============================================================================
