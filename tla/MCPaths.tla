------------------------------ MODULE MCPaths ------------------------------
(***************************************************************************)
(* A tree of three directories, one of them in the other, and a file that  *)
(* has the name of a directory elsewhere.  The text of the deepest         *)
(* directory is too long for getcwd.                                       *)
(***************************************************************************)
EXTENDS Paths

SmallTree == {<<>>, <<"a">>, <<"a", "b">>}
OneFile == {<<"b">>}
HomeText == <<"", "a">>
LongDirs == {<<"a", "b">>}

=============================================================================
