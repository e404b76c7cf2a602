----------------------------- MODULE MCPipeline -----------------------------
(***************************************************************************)
(* Pipeline and LineParser on a small instance: the lengths and texts of   *)
(* the code made short (the lengths 10, 15, 17, 20, 37 are 3, 1, 3, 4, 6); *)
(* and the texts of an upload.                                             *)
(***************************************************************************)
EXTENDS Upload

MCNotAssociated == <<"(", " ", "x">>
MCExcepts == {<<"x", "r">>}
MCPwrAt == [ap |-> 3, apstation |-> 6]

\* An ap, a station without an ap, a station's line cut in its second word,
\* a line of airodump-ng's own, and one too short.
MCTexts == {<<ESC, " ", "x", " ", "x", " ", "x", "\n">>,
            <<"(", " ", "x", " ", "x", "x", " ", "x", "\n">>,
            <<"x", " ", "x", "x", "\n">>,
            <<"x", "r", "x", " ", "x", "\n">>,
            <<"x", "\n">>}

\* What JSON gives a meaning to, an ESC, a newline where a line has it, a whole
\* escape sequence, and another character.
MCComments ==
    BoundedSeq({Quote, Backslash, ",", "}", "\n", "x"}, 2)
      \cup {<<Backslash, Quote, "x">>, <<"x", Quote, "\n">>, <<"x", ESC, "x">>,
            <<Backslash, "u", "0", "0", "5", "c">>, <<Backslash, "n", "\n">>}

\* All lengths of the last group, and bits in every place of a byte.
MCZipped == BoundedSeq({0, 1, 92, 251, 255}, 4)

MCCodes == {200, 204, 302, 399, 400, 404, 500, 599}
=============================================================================
