------------------------------- MODULE Upload -------------------------------
(***************************************************************************)
(* The texts at both ends of yah: what it makes of airodump-ng's lines     *)
(* (Pipeline), and what the server and it make of each other's texts       *)
(* (Message).  Nothing that runs changes the way a text is written or      *)
(* read, so that this is asked of the initial state only.                  *)
(***************************************************************************)
EXTENDS Pipeline, Message

\* What is heard of a line is read as it was written only if an escape sequence
\* took the line's newline (airodump.cpp:73).  The loop of core_start leaves
\* every other line its newline (core.cpp:203), and the text is no JSON.
HeardArrives ==
    \A s \in Inputs : \A d \in Format(s) :
        d.kind \in {"ap", "apstation"} =>
            \/ Strings(ArrayText(<<Datum(d.comment)>>)) # <<Comment, d.comment, Time, <<"0">>>>
            \/ Len(s) \in InCode(s, 1)

\* Both ends of an upload understand each other, up to two conditions that are
\* necessary as well: no backslash and no control character in a comment
\* (dict.cpp:70), which excludes what ordinary lines make, and a reply whose code
\* is not cut (http.cpp:100).  Asked before any line has been read.
UploadIsUnderstood == lines = <<>> => BothEndsUnderstand /\ HeardArrives
=============================================================================
