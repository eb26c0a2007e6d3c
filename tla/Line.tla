-------------------------------- MODULE Line --------------------------------
(***************************************************************************)
(* handle_line (core/loop.c): a line is cut into tokens (lexer/), the      *)
(* tokens are parsed into commands (parser/), and their words expanded     *)
(* (expand/), each stage in an arena of its own (mem/) that is released    *)
(* when the next no longer needs it.  A word remembers the arena its       *)
(* characters are in, and an allocation may fail at every call.            *)
(***************************************************************************)
EXTENDS Words, FiniteSets

CONSTANTS
    Inputs,   \* the lines to try
    Faults    \* whether ms_alloc may fail

(* A string ends at its first NUL, which "" stands for. *)
ASSUME LineAssumption == Inputs \subseteq Seq(STRING \ {""}) /\ Faults \in BOOLEAN

Arenas == {"lex", "parse", "exp"}
RedirTypes == {"in", "out", "append", "heredoc"}
Types  == {"word", "pipe"} \cup RedirTypes

NULL       == [text |-> <<>>, mem |-> "null"]
Text(s, a) == [text |-> s, mem |-> a]

VARIABLES
    phase,   \* where handle_line is
    line,
    i,       \* lex_line's position in line, then the parser's in toks
    toks,    \* the tokens: type and value
    pl,      \* the commands parsed so far: argv, its room argc, redirects
    e,       \* expand_pipeline's index
    code,    \* what was written to sh->exit_code: 0 if nothing
    mem,     \* the arenas: "none", "live" or "freed"
    failed   \* history: an allocation has failed

vars == <<phase, line, i, toks, pl, e, code, mem, failed>>

count == Cardinality({k \in DOMAIN toks : toks[k].type = "pipe"}) + 1

TokWords == {t.value : t \in ToSet(toks)} \ {NULL}
CmdWords(c) == ToSet(c.argv) \cup {r.target : r \in ToSet(c.redirects)}
PlWords == (UNION {CmdWords(c) : c \in ToSet(pl)}) \ {NULL}

TypeOK ==
    /\ phase \in {"lex", "parse", "cmd", "fill", "expand", "exec", "done", "crashed"}
    /\ \A t \in ToSet(toks) : t.type \in Types /\ (t.value # NULL => t.value.mem = "lex")
    /\ \A c \in ToSet(pl) : \A r \in ToSet(c.redirects) : r.type \in RedirTypes /\ r.quoted \in BOOLEAN
    /\ code \in {0, 2}
    /\ mem \in [Arenas -> {"none", "live", "freed"}]
    /\ failed \in BOOLEAN

Init ==
    /\ phase = "lex" /\ line \in Inputs /\ i = 1
    /\ toks = <<>> /\ pl = <<>> /\ e = 1 /\ code = 0
    /\ mem = [a \in Arenas |-> IF a = "lex" THEN "live" ELSE "none"]
    /\ failed = FALSE

Free(as) == [a \in Arenas |-> IF a \in as THEN "freed" ELSE mem[a]]

(* handle_line's early returns, each with the arenas it releases. *)
Stop(c, as)   == phase' = "done" /\ code' = c /\ mem' = Free(as)
LexError      == Stop(2, {"lex"})
ParseError(c) == Stop(c, {"lex", "parse"})
ExpandError   == Stop(code, {"parse", "exp"})
Crash         == phase' = "crashed" /\ UNCHANGED <<code, mem>>
NoMemory      == Faults /\ failed' = TRUE

-----------------------------------------------------------------------------
(* lexer.c *)

NextChar == Min({p \in i .. Len(line) : line[p] \notin Spaces} \cup {Len(line) + 1})
At(p)    == IF p <= Len(line) THEN line[p] ELSE ""

OpType(p) == CASE At(p) = "<" -> IF At(p + 1) = "<" THEN "heredoc" ELSE "in"
               [] At(p) = ">" -> IF At(p + 1) = ">" THEN "append" ELSE "out"
               [] OTHER       -> "pipe"
OpLen(p)  == IF OpType(p) \in {"heredoc", "append"} THEN 2 ELSE 1

(* Mutant: a failed push leaves a token of no type. *)
push_tok_blank(t) ==
    \/ toks' = Append(toks, t) /\ UNCHANGED failed
    \/ NoMemory /\ toks' = Append(toks, [type |-> "none", value |-> NULL])

(* Mutant: a token is put before the others. *)
push_tok_front(t) ==
    \/ toks' = <<t>> \o toks /\ UNCHANGED failed
    \/ NoMemory /\ UNCHANGED toks

(* The callers of push_tok do not look whether it failed. *)
push_tok(t) ==
    \/ toks' = Append(toks, t) /\ UNCHANGED failed
    \/ NoMemory /\ UNCHANGED toks

lex_op ==
    /\ phase = "lex" /\ At(NextChar) \in Ops
    /\ push_tok([type |-> OpType(NextChar), value |-> NULL])
    /\ i' = NextChar + OpLen(NextChar)
    /\ UNCHANGED <<phase, line, pl, e, code, mem>>

(* A quote that is not closed is an error; a copy that fails is a token
   without value. *)
lex_word ==
    LET end == lex_word_end(line, NextChar) IN
    /\ phase = "lex" /\ At(NextChar) \notin Ops \cup {""}
    /\ i' = end
    /\ \/ /\ QuoteFrom(line, NextChar)[end] # NoQuote
          /\ LexError
          /\ UNCHANGED <<toks, failed>>
       \/ /\ QuoteFrom(line, NextChar)[end] = NoQuote
          /\ \/ push_tok([type |-> "word", value |-> Text(SubSeq(line, NextChar, end - 1), "lex")])
             \/ NoMemory /\ toks' = Append(toks, [type |-> "word", value |-> NULL])
          /\ UNCHANGED <<phase, code, mem>>
    /\ UNCHANGED <<line, pl, e>>

lex_line_end ==
    /\ phase = "lex" /\ At(NextChar) = ""
    /\ phase' = "parse" /\ i' = 1
    /\ mem' = [mem EXCEPT !["parse"] = "live"]
    /\ UNCHANGED <<line, toks, pl, e, code, failed>>

-----------------------------------------------------------------------------
(* parser.c, parser_cmd.c *)

TypeAt(k) == IF k \in DOMAIN toks THEN toks[k].type ELSE "end"

(* The array of commands cannot be had: exit_code is left alone. *)
parse_pipeline ==
    /\ phase = "parse"
    /\ \/ TypeAt(1) \in {"end", "pipe"} /\ ParseError(2) /\ UNCHANGED failed
       \/ TypeAt(1) \notin {"end", "pipe"} /\ phase' = "cmd" /\ UNCHANGED <<code, mem, failed>>
       \/ TypeAt(1) \notin {"end", "pipe"} /\ NoMemory /\ ParseError(0)
    /\ UNCHANGED <<line, i, toks, pl, e>>

(* Mutant: the target of a redirection is not skipped. *)
count_argc_target(k) ==
    LET End == Min({m \in k .. Len(toks) : toks[m].type = "pipe"} \cup {Len(toks) + 1})
    IN Cardinality({m \in k .. End - 1 : toks[m].type = "word" /\ (m = k \/ toks[m - 1].type # "in")})

(* count_argc: the words up to a pipe, less the token behind a redirection,
   whatever it is. *)
count_argc(k) ==
    LET Counted[m \in Nat] ==
            CASE TypeAt(m) \in {"end", "pipe"} -> 0
              [] TypeAt(m) = "word"            -> 1 + Counted[m + 1]
              [] OTHER                         -> IF TypeAt(m + 1) = "end" THEN 0 ELSE Counted[m + 2]
    IN Counted[k]

(* Mutant: an empty command is let through. *)
parse_one_empty ==
    /\ phase = "cmd"
    /\ pl' = Append(pl, [argv |-> <<>>, argc |-> count_argc(i), redirects |-> <<>>])
    /\ phase' = "fill"
    /\ UNCHANGED <<line, i, toks, e, code, mem, failed>>

(* parse_one: any failure from here on makes parse_pipeline set 2. *)
parse_one ==
    /\ phase = "cmd"
    /\ \/ TypeAt(i) = "pipe" /\ ParseError(2) /\ UNCHANGED <<pl, failed>>
       \/ /\ TypeAt(i) # "pipe"
          /\ pl' = Append(pl, [argv |-> <<>>, argc |-> count_argc(i), redirects |-> <<>>])
          /\ phase' = "fill"
          /\ UNCHANGED <<code, mem, failed>>
       \/ TypeAt(i) # "pipe" /\ NoMemory /\ ParseError(2) /\ UNCHANGED pl
    /\ UNCHANGED <<line, i, toks, e>>

last == Len(pl)

(* ms_strdup into the parse arena, or the NULL it returns, which nobody looks
   at; of NULL it makes an empty word. *)
Copied(w, to) ==
    IF Faults THEN {Text(w.text, to), NULL} ELSE {Text(w.text, to)}

fill_word ==
    /\ phase = "fill" /\ TypeAt(i) = "word"
    /\ \E w \in Copied(toks[i].value, "parse") :
          /\ pl' = [pl EXCEPT ![last].argv = Append(@, w)]
          /\ failed' = (failed \/ w = NULL)
    /\ i' = i + 1
    /\ UNCHANGED <<phase, line, toks, e, code, mem>>

Redirect(k, w) == [type |-> TypeAt(k), target |-> w, quoted |-> has_quote(toks[k + 1].value.text)]

add_redirect(k) ==
    \E w \in Copied(toks[k + 1].value, "parse") :
        /\ pl' = [pl EXCEPT ![last].redirects = Append(@, Redirect(k, w))]
        /\ failed' = (failed \/ w = NULL)

(* has_quote(NULL) ends the process. *)
fill_redirect ==
    /\ phase = "fill" /\ TypeAt(i) \in RedirTypes
    /\ \/ TypeAt(i + 1) # "word" /\ ParseError(2) /\ UNCHANGED <<pl, i, failed>>
       \/ TypeAt(i + 1) = "word" /\ NoMemory /\ ParseError(2) /\ UNCHANGED <<pl, i>>
       \/ TypeAt(i + 1) = "word" /\ toks[i + 1].value = NULL /\ Crash /\ UNCHANGED <<pl, i, failed>>
       \/ /\ TypeAt(i + 1) = "word" /\ toks[i + 1].value # NULL
          /\ add_redirect(i)
          /\ i' = i + 2
          /\ UNCHANGED <<phase, code, mem>>
    /\ UNCHANGED <<line, toks, e>>

(* The end of a command, and of parse_cmds: handle_line then releases the
   tokens and begins to expand. *)
parse_cmds ==
    /\ phase = "fill" /\ TypeAt(i) \in {"pipe", "end"}
    /\ LET next == IF TypeAt(i) = "pipe" THEN i + 1 ELSE i IN
          /\ i' = next
          /\ \/ last < count /\ TypeAt(next) # "end" /\ phase' = "cmd" /\ UNCHANGED <<code, mem>>
             \/ (last < count <=> TypeAt(next) = "end") /\ ParseError(2)
             \/ /\ last = count /\ TypeAt(next) = "end"
                /\ phase' = "expand"
                /\ mem' = [Free({"lex"}) EXCEPT !["exp"] = "live"]
                /\ UNCHANGED code
    /\ UNCHANGED <<line, toks, pl, e, failed>>

-----------------------------------------------------------------------------
(* expand_pipeline.c *)

(* The words before the first NULL. *)
Upto(argv) == SubSeq(argv, 1, Min({k \in DOMAIN argv : argv[k] = NULL} \cup {Len(argv) + 1}) - 1)

expand_argv(c) == [k \in DOMAIN Upto(c.argv) |-> Text(expand_word(c.argv[k].text), "exp")]

Target(r) == IF r.type = "heredoc" THEN strip_quotes(r.target.text) ELSE expand_word(r.target.text)

(* Mutant: the redirections stay in the parser's arena. *)
expand_redirects_shared(c, bad) ==
    [k \in DOMAIN c.redirects |->
        [c.redirects[k] EXCEPT !.target = IF k \in bad THEN NULL ELSE Text(Target(c.redirects[k]), "parse")]]

(* bad: the targets whose copy failed, which nobody looks at. *)
expand_redirects(c, bad) ==
    [k \in DOMAIN c.redirects |->
        [c.redirects[k] EXCEPT !.target = IF k \in bad THEN NULL ELSE Text(Target(c.redirects[k]), "exp")]]

Expanded(c, bad) ==
    [argv |-> expand_argv(c), argc |-> Len(expand_argv(c)), redirects |-> expand_redirects(c, bad)]

(* One command of expand_pipeline.  expand_word(NULL) ends the process.  That
   a variable whose name cannot be copied counts as unset is left out. *)
expand_cmd ==
    /\ phase = "expand" /\ e <= Len(pl)
    /\ \/ /\ NULL \notin {r.target : r \in ToSet(pl[e].redirects)}
          /\ \E bad \in SUBSET (IF Faults THEN DOMAIN pl[e].redirects ELSE {}) :
                /\ pl' = [pl EXCEPT ![e] = Expanded(@, bad)]
                /\ failed' = (failed \/ bad # {})
          /\ e' = e + 1
          /\ UNCHANGED <<phase, code, mem>>
       \/ NULL \in {r.target : r \in ToSet(pl[e].redirects)} /\ Crash /\ UNCHANGED <<pl, e, failed>>
       \/ NoMemory /\ ExpandError /\ UNCHANGED <<pl, e>>
    /\ UNCHANGED <<line, i, toks>>

expand_pipeline_end ==
    /\ phase = "expand" /\ e = Len(pl) + 1
    /\ phase' = "exec" /\ mem' = Free({"parse"})
    /\ UNCHANGED <<line, i, toks, pl, e, code, failed>>

(* exec_pipeline returns. *)
exec_pipeline ==
    /\ phase = "exec"
    /\ phase' = "done" /\ mem' = Free({"exp"})
    /\ UNCHANGED <<line, i, toks, pl, e, code, failed>>

Over == phase \in {"done", "crashed"} /\ UNCHANGED vars

Next ==
    \/ lex_op \/ lex_word \/ lex_line_end
    \/ parse_pipeline \/ parse_one \/ fill_word \/ fill_redirect \/ parse_cmds
    \/ expand_cmd \/ expand_pipeline_end \/ exec_pipeline
    \/ Over

Spec == Init /\ [][Next]_vars

-----------------------------------------------------------------------------
InOrder(S, s) == FlattenSeq([k \in DOMAIN s |-> IF k \in S THEN <<k>> ELSE <<>>])

(* The tokens are the line: nothing outside quotes but spaces is dropped and
   nothing doubled, a word is never cut inside quotes or at a character that
   is none of the separators, and never runs past one; exactly the lines
   whose quotes are open are refused. *)
OpenAt      == QuoteFrom(line, 1)
Separator(p) == OpenAt[p] = NoQuote /\ line[p] \in Spaces \cup Ops
WordStarts  == {p \in DOMAIN line : ~ Separator(p) /\ (p = 1 \/ Separator(p - 1))}
Spelling(t) == CASE t.type = "word" -> t.value.text
                 [] t.type = "pipe" -> <<"|">>
                 [] t.type = "in"   -> <<"<">>
                 [] t.type = "out"  -> <<">">>
                 [] t.type = "heredoc" -> <<"<", "<">>
                 [] t.type = "append"  -> <<">", ">">>
NotBlank    == {p \in DOMAIN line : ~ (Separator(p) /\ line[p] \in Spaces)}
LexFaithful ==
    /\ phase = "parse" /\ ~ failed =>
          /\ OpenAt[Len(line) + 1] = NoQuote
          /\ FlattenSeq([k \in DOMAIN toks |-> Spelling(toks[k])])
                = [n \in 1 .. Cardinality(NotBlank) |-> line[InOrder(NotBlank, line)[n]]]
          /\ Cardinality({k \in DOMAIN toks : toks[k].type = "word"}) = Cardinality(WordStarts)
    /\ phase = "done" /\ mem["parse"] = "none" => OpenAt[Len(line) + 1] # NoQuote

(* A line is accepted exactly when it is pipes between commands, and behind
   every redirection a word. *)
Grammatical ==
    /\ toks # <<>>
    /\ \A k \in DOMAIN toks :
          /\ toks[k].type = "pipe" => k > 1 /\ TypeAt(k + 1) \notin {"pipe", "end"}
          /\ toks[k].type \in RedirTypes => TypeAt(k + 1) = "word"
ParsesTheGrammar ==
    /\ phase \in {"expand", "exec"} => Grammatical
    /\ phase = "done" /\ mem["parse"] # "none" /\ code = 2 /\ ~ failed => ~ Grammatical

(* The n-th command as it was typed: its words and its redirections. *)
Of(n)    == {k \in DOMAIN toks : /\ toks[k].type # "pipe"
                                 /\ Cardinality({m \in 1 .. k : toks[m].type = "pipe"}) = n - 1}
Behind   == {k \in 2 .. Len(toks) : toks[k - 1].type \in RedirTypes}
Args(n)  == InOrder({k \in Of(n) \ Behind : toks[k].type = "word"}, toks)
Redirs(n) == InOrder({k \in Of(n) : toks[k].type \in RedirTypes}, toks)
Typed(k) == toks[k].value.text

(* What is executed is what was typed, memory permitting: every command has
   its words and redirections in their order, each with the meaning its
   quotes and variables give it, the delimiter of a here-document alone being
   left as it is but for its quotes. *)
ExecutesWhatWasTyped ==
    phase = "exec" /\ ~ failed =>
        /\ Len(pl) = count
        /\ \A n \in DOMAIN pl :
              /\ [k \in DOMAIN pl[n].argv |-> pl[n].argv[k].text]
                    = [k \in DOMAIN Args(n) |-> Meaning(Typed(Args(n)[k]))]
              /\ [k \in DOMAIN pl[n].redirects |-> [pl[n].redirects[k] EXCEPT !.target = @.text]]
                    = [k \in DOMAIN Redirs(n) |->
                          LET r == Redirs(n)[k] IN
                          [type   |-> toks[r].type,
                           target |-> IF toks[r].type = "heredoc" THEN Literal(Typed(r + 1)) ELSE Meaning(Typed(r + 1)),
                           quoted |-> has_quote(Typed(r + 1))]]

(* Where memory ran out and the line is executed all the same, words,
   redirections and pipes may be missing, which moves a target among the
   arguments and arguments into the command before, and a word may be empty
   (lexer.c:94, parser_cmd.c:65); but nothing is invented and nothing changes
   places: the arguments of all the commands are, in their order, words of the
   line with their meanings, and so is every target.  Without such a failure no line ends the process
   (parser_cmd.c:25). *)
LineWords ==
    LET starts == InOrder(WordStarts, line)
        End(p) == Min({q \in p .. Len(line) : Separator(q)} \cup {Len(line) + 1}) - 1
    IN [n \in 1 .. Cardinality(WordStarts) |-> SubSeq(line, starts[n], End(starts[n]))]
Unmatched(texts, words) ==
    LET Left[n \in 0 .. Len(words)] ==
            IF n = 0 THEN texts
            ELSE IF Left[n - 1] # <<>> /\ Head(Left[n - 1]) \in {<<>>, Meaning(words[n])} THEN Tail(Left[n - 1])
            ELSE Left[n - 1]
    IN Left[Len(words)]
OutOfMemory ==
    /\ phase = "crashed" => failed
    /\ phase = "exec" /\ failed =>
          LET words == LineWords
              argvs == FlattenSeq([n \in DOMAIN pl |-> [k \in DOMAIN pl[n].argv |-> pl[n].argv[k].text]])
          IN /\ Unmatched(argvs, words) = <<>>
             /\ Len(pl) <= 1 + Cardinality({p \in DOMAIN line : Separator(p) /\ line[p] = "|"})
             /\ \A c \in ToSet(pl) : \A r \in ToSet(c.redirects) :
                   r.target.text \in {<<>>} \cup {Meaning(w) : w \in ToSet(words)} \cup {Literal(w) : w \in ToSet(words)}

(* fill_cmd never writes past the room count_argc asked for, also in a line
   that turns out to be wrong, and leaves none of it unwritten. *)
ArgvFits ==
    \A n \in DOMAIN pl :
        /\ Len(pl[n].argv) <= pl[n].argc
        /\ phase = "expand" \/ (n < Len(pl) /\ phase \in {"cmd", "fill"}) => Len(pl[n].argv) = pl[n].argc

(* No stage uses a word after its arena was released, and none leaves an
   arena behind, on any path and whichever allocation failed. *)
MemoryOwned ==
    /\ phase \in {"lex", "parse", "cmd", "fill"} => \A w \in TokWords : mem[w.mem] = "live"
    /\ phase \notin {"done", "crashed"} => \A w \in PlWords : mem[w.mem] = "live"
    /\ phase = "done" => \A a \in Arenas : mem[a] # "live"
=============================================================================
