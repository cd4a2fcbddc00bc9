----------------------------- MODULE MCLogFile ------------------------------
(***************************************************************************)
(* Small logs, short entries and a small buffer for model checking LogFile.*)
(***************************************************************************)
EXTENDS LogFile, TLC

CONSTANTS p1, p2, p3

\* An entry: the line break, the header, the text and its line break.
Line(text) == <<"n", "=", "=", "=", ">">> \o text \o <<"n">>

\* Two old entries, the first one with text that may look like a header; the
\* end of a log that an earlier invocation has torn; an empty file.
MCOld == {Line(text) \o Line(<<"=">>) :
            text \in {<<"x", "=", "=">>, <<"=", "=", "=">>, <<"=", ">", "=">>}}
         \union {<<"=", "=", ">", "=", "=", "=">> \o Line(<<"x", "x">>), <<>>}

\* A log of whole entries.
MCWhole == {Line(<<"x", "=", "=">>) \o Line(<<"=">>)}

\* p3 has log_level 0.
MCLines == p1 :> <<Line(<<"y">>), <<"=">>>>
           @@ p2 :> <<Line(<<"z", "=">>)>>
           @@ p3 :> <<>>

\* The entry of p1 is longer than Keep, and nobody else logs anything.
MCLongLines == p1 :> <<Line([i \in 1..18 |-> "y"])>> @@ p2 :> <<>> @@ p3 :> <<>>

\* What p1 logs with log_level 3 after it has measured the file.
MCChatter == p1 :> <<"x">> @@ p2 :> <<>> @@ p3 :> <<>>

=============================================================================
