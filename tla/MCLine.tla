------------------------------- MODULE MCLine -------------------------------
(* Every line made of a few short pieces, for TLC. *)
EXTENDS Line

Pieces == {<<" ">>, <<"|">>, <<"<">>, <<">">>, <<"'">>, <<"\"">>, <<"$", "a">>, <<"a">>}

Lines(n, pieces) == {FlattenSeq(s) : s \in [1 .. n -> pieces]}

\* up to four pieces, five of the commonest, and longer lines that combine them
SmallInputs ==
    UNION {Lines(n, Pieces) : n \in 1 .. 4}
        \cup Lines(5, {<<" ">>, <<"|">>, <<"<">>, <<"'">>, <<"a">>})
        \cup {<<"a", "<", "<", "'", "$", "a", "'", ">", "a", "|", "$", "?">>,
              <<"a", ">", ">", "$", "a", " ", "\"", "$", "a", "|", "\"", "|", "a", "<", "a">>,
              <<"'", "$", "a", "'", "\"", "$", "a", "'", "\"", "$", "a", "1", "$", "1", "$", " ", "a">>}

OneStatus == <<"1", "3", "0">>
AValue == [n \in {<<"a">>} |-> <<"x", "'">>]
=============================================================================
