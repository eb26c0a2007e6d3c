------------------------------- MODULE Words -------------------------------
(***************************************************************************)
(* What the lexer and the expansion make of the characters of a word       *)
(* (lexer/lexer_word.c, expand/expand.c).  A string is the sequence of its *)
(* characters; letters stand for what isalnum and '_' accept.              *)
(***************************************************************************)
EXTENDS Integers, SequencesExt

CONSTANTS
    Letters,   \* the characters a name begins with
    Digits,    \* and those it may go on with
    Vars,      \* the environment: a function from names to values
    Status     \* $? written out

Spaces == {" "}
Ops    == {"|", "<", ">"}
Sq     == "'"
Dq     == "\""
Quotes == {Sq, Dq}
NoQuote == "none"

(* A name has no quotes in it, and the values of variables are texts. *)
ASSUME WordsAssumption ==
    /\ Quotes \cap (Letters \cup Digits) = {}
    /\ Status \in Seq(STRING) /\ \A v \in DOMAIN Vars : Vars[v] \in Seq(STRING)

(* q after reading c *)
Toggle(q, c) == CASE q = NoQuote /\ c \in Quotes -> c
                  [] q = c -> NoQuote
                  [] OTHER -> q

(* The quote that is open before each position, when reading starts at st. *)
QuoteFrom(s, st) ==
    LET Q[p \in st .. Len(s) + 1] == IF p = st THEN NoQuote ELSE Toggle(Q[p - 1], s[p - 1]) IN Q

(* Mutant: quotes do not protect spaces. *)
lex_word_end_space(s, st) ==
    LET Q == QuoteFrom(s, st)
        Stops == {p \in st .. Len(s) : s[p] \in Spaces \/ (Q[p] = NoQuote /\ s[p] \in Ops)}
    IN Min(Stops \cup {Len(s) + 1})

(* Where the word that starts at st ends: at a space or an operator outside
   quotes, or at the end of the line. *)
lex_word_end(s, st) ==
    LET Q == QuoteFrom(s, st)
        Stops == {p \in st .. Len(s) : Q[p] = NoQuote /\ s[p] \in Spaces \cup Ops}
    IN Min(Stops \cup {Len(s) + 1})

has_quote(s) == \E p \in DOMAIN s : s[p] \in Quotes

(* The characters that are not the quotes themselves. *)
strip_quotes(s) ==
    LET Q == QuoteFrom(s, 1)
        S[p \in 1 .. Len(s) + 1] ==
            IF p = Len(s) + 1 THEN <<>>
            ELSE (IF Q[p] = Q[p + 1] THEN <<s[p]>> ELSE <<>>) \o S[p + 1]
    IN S[1]

(* expand_var at the '$' in position p: what it stands for, and where the text
   goes on.  A '$' before anything else than a name or '?' is itself. *)
NameEnd(s, p) ==
    IF p < Len(s) /\ s[p + 1] \in Letters
    THEN Min({n \in p + 1 .. Len(s) + 1 : n = Len(s) + 1 \/ s[n] \notin Letters \cup Digits})
    ELSE p + 1
expand_var(s, p) ==
    LET name == SubSeq(s, p + 1, NameEnd(s, p) - 1) IN
    IF p < Len(s) /\ s[p + 1] = "?" THEN [text |-> Status, next |-> p + 2]
    ELSE IF name = <<>> THEN [text |-> <<"$">>, next |-> p + 1]
    ELSE [text |-> IF name \in DOMAIN Vars THEN Vars[name] ELSE <<>>, next |-> NameEnd(s, p)]

(* Mutant: single quotes do not protect '$'. *)
expand_word_single(s) ==
    LET E[at \in (1 .. Len(s) + 1) \X (Quotes \cup {NoQuote})] ==
            LET p == at[1] q == at[2] IN
            IF p = Len(s) + 1 THEN <<>>
            ELSE IF Toggle(q, s[p]) # q THEN E[<<p + 1, Toggle(q, s[p])>>]
            ELSE IF s[p] = "$" THEN expand_var(s, p).text \o E[<<expand_var(s, p).next, q>>]
            ELSE <<s[p]>> \o E[<<p + 1, q>>]
    IN E[<<1, NoQuote>>]

(* Quotes are removed and, outside single quotes, variables replaced. *)
expand_word(s) ==
    LET E[at \in (1 .. Len(s) + 1) \X (Quotes \cup {NoQuote})] ==
            LET p == at[1] q == at[2] IN
            IF p = Len(s) + 1 THEN <<>>
            ELSE IF Toggle(q, s[p]) # q THEN E[<<p + 1, Toggle(q, s[p])>>]
            ELSE IF s[p] = "$" /\ q # Sq THEN expand_var(s, p).text \o E[<<expand_var(s, p).next, q>>]
            ELSE <<s[p]>> \o E[<<p + 1, q>>]
    IN E[<<1, NoQuote>>]

-----------------------------------------------------------------------------
(* The reference: a word is a sequence of unquoted, single-quoted and
   double-quoted parts; each is expanded on its own. *)
FirstOf(s, cs) == Min({p \in DOMAIN s : s[p] \in cs} \cup {Len(s) + 1})

Parts[s \in Seq(STRING)] ==
    IF s = <<>> THEN <<>>
    ELSE IF Head(s) \in Quotes
         THEN LET n == FirstOf(Tail(s), {Head(s)}) IN
              <<[quote |-> Head(s), text |-> SubSeq(s, 2, n)]>> \o Parts[SubSeq(s, n + 2, Len(s))]
         ELSE LET n == FirstOf(s, Quotes) IN
              <<[quote |-> NoQuote, text |-> SubSeq(s, 1, n - 1)]>> \o Parts[SubSeq(s, n, Len(s))]

Substituted[s \in Seq(STRING)] ==
    LET n == FirstOf(s, {"$"})
        v == expand_var(s, n)
    IN IF n > Len(s) THEN s
       ELSE SubSeq(s, 1, n - 1) \o v.text \o Substituted[SubSeq(s, v.next, Len(s))]

Meaning(s) ==
    FlattenSeq([k \in DOMAIN Parts[s] |->
        IF Parts[s][k].quote = Sq THEN Parts[s][k].text ELSE Substituted[Parts[s][k].text]])
Literal(s) == FlattenSeq([k \in DOMAIN Parts[s] |-> Parts[s][k].text])
=============================================================================
