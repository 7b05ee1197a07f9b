------------------------------- MODULE Paths -------------------------------
(***************************************************************************)
(* Paths (src/path.c, path_api.c) and the working directory, which is kept *)
(* twice: as state.vars.cwd, and by the kernel.                            *)
(*                                                                         *)
(* A text is the sequence of the parts between its slashes: "/a/" is       *)
(* <<"", "a", "">>.  A path is a sequence of segments: Root, "." for       *)
(* CURR_PATH, ".." for PREV_PATH, and any other name.                      *)
(***************************************************************************)
EXTENDS Naturals, SequencesExt

CONSTANTS
    Names,          \* what a directory can be called
    FirstDirs,      \* the directories there are, each the sequence of names from the root
    Files,          \* names taken by files, as sequences too
    Home,           \* the text of the home directory in the user database
    TooLong,        \* directories whose text does not fit the 256 bytes given to getcwd
    MaxParts,       \* bound: parts in a text
    MaxSegments,    \* bound: segments in a path
    MaxDepth        \* bound: no directory can be made deeper than this

ASSUME PathsAssumption ==
    /\ {"", ".", "..", "/", "nowhere", "null"} \cap Names = {}
    /\ FirstDirs \subseteq Seq(Names) /\ FirstDirs \cap Files = {}
    /\ <<>> \in FirstDirs /\ \A d \in FirstDirs \ {<<>>} : Front(d) \in FirstDirs
    /\ Home \in Seq(Names \cup {"", ".", ".."}) /\ Len(Home) > 1 /\ Head(Home) = ""
    /\ MaxParts \in Nat /\ MaxSegments \in Nat /\ MaxDepth \in Nat

VARIABLES
    cwd,        \* state.vars.cwd
    real,       \* the kernel's working directory of the process
    dirs,       \* the directories there are
    held,       \* the path a Lua program works on, with or without its metatable
    crashed     \* the process was ended by a null pointer

vars == <<cwd, real, dirs, held, crashed>>

Parts == Names \cup {"", ".", ".."}
Texts == UNION {[1 .. n -> Parts] : n \in 1 .. MaxParts}

Root == "/"
Absolute(p) == p # <<>> /\ Head(p) = Root

(***************************************************************************)
(* path.c                                                                  *)
(***************************************************************************)
IsFromRoot(t) == Len(t) > 1 /\ Head(t) = ""

\* The part after the last slash is a segment only if it is not empty.
path_parse(t) ==
    LET Kept(u) == IF Last(u) = "" THEN Front(u) ELSE u
    IN  IF IsFromRoot(t) THEN <<Root>> \o Kept(Tail(t)) ELSE Kept(t)

path_get_string(p) ==
    CASE p = <<>> -> <<".">>
      [] p = <<Root>> -> <<"", "">>
      [] OTHER -> [i \in DOMAIN p |-> IF p[i] = Root THEN "" ELSE p[i]]

Entered_PopsRoot(q, s) ==
    CASE s = "." -> q
      [] s = ".." -> IF Len(q) > 0 THEN Front(q) ELSE q
      [] OTHER -> Append(q, s)

Entered_KeepsFirst(q, s) ==
    CASE s = "." -> q
      [] s = ".." -> IF Len(q) > 2 THEN Front(q) ELSE q
      [] OTHER -> Append(q, s)

\* What path_expand makes of the segment s after q.
Entered(q, s) ==
    CASE s = "." -> q
      [] s = ".." -> IF Len(q) > 1 THEN Front(q) ELSE q
      [] OTHER -> Append(q, s)

\* The segments of p entered one by one from base, which is copied as it is.
Over(p, base) ==
    LET over[n \in 0 .. Len(p)] == IF n = 0 THEN base ELSE Entered(over[n - 1], p[n])
    IN  over[Len(p)]

NullPointer == <<"null">>

\* What path_expand may make of p.  It reads the first segment of the base before
\* anything else: of a base without segments that is a null pointer, or what lies
\* behind an empty allocation, which may look like a root or not.
path_expand(p, base) ==
    LET expanded == IF p = <<>> \/ Absolute(p) THEN p ELSE Over(p, base)
    IN  IF base = <<>> THEN {NullPointer, p, expanded}
        ELSE IF Absolute(base) THEN {expanded}
        ELSE {p}

(***************************************************************************)
(* The kernel, without symbolic links.                                     *)
(***************************************************************************)
Nowhere == <<"nowhere">>

Parent(d) == IF d = <<>> THEN d ELSE Front(d)

Look(ds, d, part) ==
    CASE d = Nowhere \/ part \in {"", "."} -> d
      [] d # Nowhere /\ part = ".." -> Parent(d)
      [] OTHER -> IF Append(d, part) \in ds THEN Append(d, part) ELSE Nowhere

Walk(ds, from, t) ==
    LET at[n \in 0 .. Len(t)] == IF n = 0 THEN from ELSE Look(ds, at[n - 1], t[n])
    IN  at[Len(t)]

\* The directory a text names, seen from a directory.
Named(ds, from, t) ==
    IF t = <<"">> THEN Nowhere
    ELSE Walk(ds, IF IsFromRoot(t) THEN <<>> ELSE from, t)

path_is_dir(ds, from, p) == Named(ds, from, path_get_string(p)) # Nowhere

\* mkdir of a text that names no directory yet.
CanMake(ds, from, t) ==
    LET parent == Walk(ds, IF IsFromRoot(t) THEN <<>> ELSE from, Front(t))
    IN  /\ Last(t) # "" /\ parent # Nowhere
        /\ Append(parent, Last(t)) \notin Files
        /\ Len(parent) < MaxDepth
Made(ds, from, t) ==
    Append(Walk(ds, IF IsFromRoot(t) THEN <<>> ELSE from, Front(t)), Last(t))

MakeOne_TakesFile(from, made, p) ==
    LET t == path_get_string(p)
    IN  IF ~made.ok \/ Last(p) \in {Root, ".", ".."} THEN made
        ELSE IF path_is_dir(made.dirs, from, p) THEN made
        ELSE IF CanMake(made.dirs, from, t)
             THEN [made EXCEPT !.dirs = @ \cup {Made(@, from, t)}]
        ELSE [made EXCEPT !.ok = Walk(made.dirs, from, Front(t)) # Nowhere]

\* One round of path_mkdir_p, for the segments up to the last of p.
MakeOne(from, made, p) ==
    LET t == path_get_string(p)
    IN  IF ~made.ok \/ Last(p) \in {Root, ".", ".."} THEN made
        ELSE IF path_is_dir(made.dirs, from, p) THEN made
        ELSE IF CanMake(made.dirs, from, t)
             THEN [made EXCEPT !.dirs = @ \cup {Made(@, from, t)}]
        ELSE [made EXCEPT !.ok = FALSE]

path_mkdir_p(ds, from, p) ==
    LET made[n \in 0 .. Len(p)] ==
            IF n = 0 THEN [dirs |-> ds, ok |-> TRUE]
            ELSE MakeOne(from, made[n - 1], SubSeq(p, 1, n))
    IN  made[Len(p)]

-----------------------------------------------------------------------------
Userdata(p, meta) == [segments |-> p, meta |-> meta]

Init ==
    /\ dirs = FirstDirs
    /\ real \in dirs \ TooLong
    /\ cwd = path_parse(<<"">> \o (IF real = <<>> THEN <<"">> ELSE real))
    /\ held = Userdata(<<>>, TRUE)
    /\ crashed = FALSE

Crash == ~crashed /\ crashed' = TRUE /\ UNCHANGED <<cwd, real, dirs, held>>

(***************************************************************************)
(* The working directory                                                   *)
(***************************************************************************)
Change_Anyway(p) ==
    LET there == Named(dirs, real, path_get_string(p))
    IN  /\ ~crashed
        /\ cwd' = p
        /\ real' = IF there = Nowhere THEN real ELSE there
        /\ UNCHANGED <<dirs, held, crashed>>

\* chdir to the expanded path, which is kept if that succeeds.
Change(p) ==
    LET there == Named(dirs, real, path_get_string(p))
    IN  /\ ~crashed /\ there # Nowhere
        /\ Len(p) <= MaxSegments
        /\ cwd' = p
        /\ real' = there
        /\ UNCHANGED <<dirs, held, crashed>>

lua_change_cwd(p) ==
    \E e \in path_expand(p, cwd) : IF e = NullPointer THEN Crash ELSE Change(e)

\* lyra.core.api.cd of a text, and of a path.
CdText(t) == lua_change_cwd(path_parse(t))
CdPath == held.meta /\ lua_change_cwd(held.segments)

\* The builtin cd: the path is expanded by expand_path (plugins/api/init.lua), and
\* once more by lyra.core.api.cd.
BuiltinCd(t) ==
    \E p \in path_expand(path_parse(IF t = <<"">> THEN <<".">> ELSE t), cwd) :
        IF p = NullPointer THEN Crash ELSE lua_change_cwd(p)
BuiltinCdHome == lua_change_cwd(path_parse(Home))

\* A reload: the state is thrown away and read again from the kernel, and the path
\* of the configuration is expanded, which needs a first segment.
Reload ==
    /\ ~crashed
    /\ cwd' = IF real \in TooLong THEN <<>>
              ELSE path_parse(<<"">> \o (IF real = <<>> THEN <<"">> ELSE real))
    /\ crashed' = (cwd' = <<>>)
    /\ held' = Userdata(<<>>, TRUE)
    /\ UNCHANGED <<real, dirs>>

\* The loaders of plugins make the directories of their artifacts.
MakeArtifactDir(t) ==
    /\ ~crashed
    /\ dirs' = path_mkdir_p(dirs, real, path_parse(t)).dirs
    /\ dirs' # dirs
    /\ UNCHANGED <<cwd, real, held, crashed>>

(***************************************************************************)
(* The path of a Lua program.  Without its metatable nothing can be done   *)
(* with it: every call is refused with an error.                           *)
(***************************************************************************)
Hold(p, meta) ==
    /\ ~crashed /\ Len(p) <= MaxSegments
    /\ held' = Userdata(p, meta)
    /\ UNCHANGED <<cwd, real, dirs, crashed>>

NewPath == Hold(<<>>, TRUE)
ParsePath(t) == Hold(path_parse(t), TRUE)
TakeCwd == Hold(cwd, TRUE)

PushName(part) == held.meta /\ Hold(Append(held.segments, part), TRUE)
PopSegment ==
    /\ held.meta /\ held.segments # <<>>
    /\ Hold(Front(held.segments), TRUE)

\* path:expand_path(lyra.vars.cwd)
ExpandHeld ==
    /\ held.meta
    /\ \E e \in path_expand(held.segments, cwd) :
           IF e = NullPointer THEN Crash ELSE Hold(e, TRUE)

\* What get_childs gives for an entry: a path that was given no metatable.
Child(n) == Userdata(Append(held.segments, n), FALSE)

TakeChild ==
    /\ ~crashed /\ held.meta
    /\ LET here == Named(dirs, real, path_get_string(held.segments))
       IN  /\ here # Nowhere
           /\ \E n \in Names :
                  /\ Append(here, n) \in dirs \cup Files
                  /\ Len(held.segments) < MaxSegments
                  /\ held' = Child(n)
    /\ UNCHANGED <<cwd, real, dirs, crashed>>

Next ==
    \/ \E t \in Texts : CdText(t) \/ BuiltinCd(t) \/ MakeArtifactDir(t) \/ ParsePath(t)
    \/ CdPath \/ BuiltinCdHome \/ Reload
    \/ NewPath \/ TakeCwd \/ PopSegment \/ ExpandHeld \/ TakeChild
    \/ \E part \in Parts : PushName(part)

Spec == Init /\ [][Next]_vars

-----------------------------------------------------------------------------
(***************************************************************************)
(* Properties                                                              *)
(***************************************************************************)
\* state.vars.cwd names the directory the kernel has the process in, whatever was
\* changed to and whatever failed, as long as it starts at the root.
InSync == Absolute(cwd) => Named(dirs, real, path_get_string(cwd)) = real

\* state.vars.cwd starts at the root until lyra.core.api.cd is given an empty path,
\* or a reload finds the process in a directory whose text is too long.
AbsoluteUntilEmptyCd ==
    [][Absolute(cwd) /\ ~Absolute(cwd') =>
          \/ CdText(<<"">>)
          \/ held.segments = <<>> /\ CdPath
          \/ Reload /\ real \in TooLong]_vars

\* A text never gives a path that starts with an empty name: only Lua can push one.
FromText(p) == p = <<>> \/ Head(p) # ""

\* Nothing in it but the root and names.
Clean(p) == Absolute(p) /\ \A i \in 2 .. Len(p) : p[i] \notin {"", ".", ".."}

\* A relative path that the kernel can follow names the same directory once it is
\* expanded: always if it has no ".." segment, and if it has, when neither it nor
\* state.vars.cwd has an empty segment, and state.vars.cwd no "." or "..".
ExpandAgrees ==
    LET p == held.segments
        there == Named(dirs, real, path_get_string(p))
    IN  /\ Absolute(cwd) /\ ~Absolute(p) /\ FromText(p) /\ there # Nowhere
        /\ Contains(p, "..") => Clean(cwd) /\ ~Contains(p, "")
        => \A e \in path_expand(p, cwd) : Named(dirs, real, path_get_string(e)) = there

\* path_mkdir_p says that it succeeded exactly when the path is a directory afterwards,
\* with "..", with files in the way and when a mkdir fails half way.
MkdirMakes ==
    LET made == path_mkdir_p(dirs, real, held.segments)
    IN  FromText(held.segments) => (made.ok <=> path_is_dir(made.dirs, real, held.segments))
=============================================================================
