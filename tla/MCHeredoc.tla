----------------------------- MODULE MCHeredoc -----------------------------
(* Commands with one and with two here-documents, for TLC. *)
EXTENDS Heredoc

OneDoc  == <<"A">>
TwoDocs == <<"A", "B">>

\* $B is expanded to the delimiter of the second document
Expanded == [l \in Lines |-> IF l = "$B" THEN "B" ELSE l]
=============================================================================
