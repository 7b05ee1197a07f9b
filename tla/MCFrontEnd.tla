----------------------------- MODULE MCFrontEnd -----------------------------
(***************************************************************************)
(* A token of every kind the parser tells apart, and a character of every  *)
(* kind the lexer does: "0" is a letter like others, and makes "&0".       *)
(***************************************************************************)
EXTENDS FrontEnd

LineCharacters == {" ", "'", "\"", "|", "&", ">", "!", "L", "0"}

ShortTokens ==
    {Token("identifier", "a"), Token("identifier", "cd"), Token("string", "|"),
     Token("string", ""), Token("pipe", "|"), Token("redir", ">"), Token("redir", "<"),
     Token("fd", "&1"), Token("error", "'b")}

\* The tokens of the longest statement, with one of each kind, for lines of every length.
LongTokens ==
    {Token("identifier", "a"), Token("identifier", "exit"), Token("string", "b"),
     Token("pipe", "|&"), Token("redir", ">>")}

LineTokens == ShortTokens \cup LongTokens
LineLengths == {<<ShortTokens, 4>>, <<LongTokens, 6>>}

JustShort == {<<ShortTokens, 3>>}
=============================================================================
