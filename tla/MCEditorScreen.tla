--------------------------- MODULE MCEditorScreen ---------------------------
(***************************************************************************)
(* EditorScreen with the prompt after a line without and with an error.    *)
(***************************************************************************)
EXTENDS EditorScreen

TwoPrompts == {<<">">>, <<"1", ">">>}
=============================================================================
