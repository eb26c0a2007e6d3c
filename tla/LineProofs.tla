----------------------------- MODULE LineProofs -----------------------------
(***************************************************************************)
(* Proofs about Words and Line, for every line, every environment and      *)
(* whichever allocations fail.                                             *)
(* Owned is the inductive invariant: the arenas that exist in each phase   *)
(* of handle_line, the shape of its tokens and commands, and the arena     *)
(* every word of theirs is in. Room adds what count_argc has still to come *)
(* of, Parsed what the parser has accepted up to its position.             *)
(* The loops of the expansion are then shown to do what the reference says *)
(* of a word part by part (from QuoteIs to StripsToLiteral). Lexed adds to *)
(* Owned where in the line the tokens come from, Said what of the tokens   *)
(* is in the commands, as it was typed or with its meaning.                *)
(***************************************************************************)
EXTENDS Line, NatLemmas, SequenceTheorems, FiniteSetTheorems

-----------------------------------------------------------------------------
(* Lists, of whatever they are. *)
IsList(s) == \E S : s \in Seq(S)

(* A list has a length, and its elements are those at its positions. *)
LEMMA ListIs == ASSUME NEW s, IsList(s) PROVE Len(s) \in Nat /\ DOMAIN s = 1 .. Len(s) /\ ToSet(s) = {s[k] : k \in 1 .. Len(s)}
<1>1. PICK S : s \in Seq(S)
  BY DEF IsList
<1>2. QED
  BY <1>1, LenProperties DEF ToSet

(* The empty list. *)
LEMMA EmptyIs == IsList(<<>>) /\ Len(<<>>) = 0 /\ DOMAIN <<>> = {}
  BY EmptySeq DEF IsList

(* What is written as a function on 1 .. n is a list of length n. *)
LEMMA ListOf ==
  ASSUME NEW n \in Nat, NEW s, s = [k \in 1 .. n |-> s[k]]
  PROVE  IsList(s) /\ Len(s) = n
<1>1. PICK S : S = {s[k] : k \in 1 .. n}
  OBVIOUS
<1>2. s \in [1 .. n -> S]
  BY <1>1
<1>3. s \in Seq(S)
  BY <1>2, SeqDef
<1>4. Len(s) \in Nat /\ DOMAIN s = 1 .. Len(s) /\ DOMAIN s = 1 .. n
  BY <1>2, <1>3, LenProperties
<1>5. QED
  BY <1>3, <1>4 DEF IsList

(* Append keeps what was there and adds one element at the end. *)
LEMMA AppendList ==
  ASSUME NEW s, IsList(s), NEW x
  PROVE  /\ IsList(Append(s, x)) /\ Len(Append(s, x)) = Len(s) + 1
         /\ \A k \in 1 .. Len(s) : Append(s, x)[k] = s[k]
         /\ Append(s, x)[Len(s) + 1] = x
<1>1. PICK S : s \in Seq(S)
  BY DEF IsList
<1>2. PICK T : T = S \cup {x}
  OBVIOUS
<1>3. s \in Seq(T) /\ x \in T
  BY <1>1, <1>2, SeqMonotonic
<1>4. Append(s, x) \in Seq(T)
  BY <1>3
<1>5. Len(s) \in Nat /\ Len(Append(s, x)) = Len(s) + 1
  BY <1>3, LenProperties
<1>6. \A k \in 1 .. Len(s) : Append(s, x)[k] = s[k]
  BY <1>3, <1>5
<1>7. Append(s, x)[Len(s) + 1] = x
  BY <1>3, <1>5
<1>8. QED
  BY <1>4, <1>5, <1>6, <1>7 DEF IsList

-----------------------------------------------------------------------------
(* The shape of the tokens and of the commands. *)
Tokens ==
    /\ IsList(toks)
    /\ \A k \in 1 .. Len(toks) :
          /\ toks[k].type \in Types
          /\ toks[k].value # NULL => toks[k].value.mem = "lex"
          /\ toks[k].type = "word" /\ ~ failed => toks[k].value # NULL

Redirection(r) == /\ r = [type |-> r.type, target |-> r.target, quoted |-> r.quoted]
                  /\ r.type \in RedirTypes /\ r.quoted \in BOOLEAN

IsCmd(c) == /\ c = [argv |-> c.argv, argc |-> c.argc, redirects |-> c.redirects]
            /\ IsList(c.argv) /\ IsList(c.redirects)
            /\ \A k \in 1 .. Len(c.redirects) : Redirection(c.redirects[k])

(* The words of a command are in arena a, but for copies that failed. *)
WordsIn(c, a) ==
    /\ \A k \in 1 .. Len(c.argv) : c.argv[k] # NULL => c.argv[k].mem = a
    /\ \A k \in 1 .. Len(c.redirects) : c.redirects[k].target # NULL => c.redirects[k].target.mem = a

NoneMissing(c) == \A k \in 1 .. Len(c.redirects) : c.redirects[k].target # NULL

Cmds ==
    /\ IsList(pl)
    /\ \A n \in 1 .. Len(pl) : IsCmd(pl[n]) /\ (~ failed => NoneMissing(pl[n]))

(* Where the words are in each phase, and which arenas there are. *)
Stages ==
    /\ phase \in {"lex", "parse"} => pl = <<>>
    /\ phase \in {"cmd", "fill"} => \A n \in 1 .. Len(pl) : WordsIn(pl[n], "parse")
    /\ phase = "fill" => Len(pl) > 0
    /\ phase \in {"lex", "parse", "cmd", "fill"} => e = 1
    /\ phase = "expand" => /\ e \in 1 .. Len(pl) + 1
                           /\ \A n \in 1 .. Len(pl) : WordsIn(pl[n], IF n < e THEN "exp" ELSE "parse")
    /\ phase = "exec" => \A n \in 1 .. Len(pl) : WordsIn(pl[n], "exp")

ArenaOf(p) == [a \in Arenas |->
    CASE p = "lex"                      -> IF a = "lex" THEN "live" ELSE "none"
      [] p \in {"parse", "cmd", "fill"} -> IF a = "exp" THEN "none" ELSE "live"
      [] p = "expand"                   -> IF a = "lex" THEN "freed" ELSE "live"
      [] OTHER                          -> IF a = "exp" THEN "live" ELSE "freed"]

Control ==
    /\ phase \in {"lex", "parse", "cmd", "fill", "expand", "exec", "done", "crashed"}
    /\ code \in {0, 2} /\ (phase # "done" => code = 0)
    /\ mem \in [Arenas -> {"none", "live", "freed"}]
    /\ phase \notin {"done", "crashed"} => mem = ArenaOf(phase)
    /\ phase = "done" => \A a \in Arenas : mem[a] # "live"
    /\ failed \in BOOLEAN
    /\ phase = "crashed" => failed

(* What handle_line's releases leave of the arenas. *)
LEMMA FreeIs == \A as : Free(as) = [a \in Arenas |-> IF a \in as THEN "freed" ELSE mem[a]]
  BY DEF Free

(* handle_line begins with the arena of the lexer alone. *)
LEMMA ControlInit == Init => Control
  BY DEF Init, Control, ArenaOf, Arenas

(* Every step leaves the arenas that its phase has, handle_line's early returns
   none at all, and only a step that saw an allocation fail ends the process. *)
LEMMA ControlNext ==
  ASSUME Control, Tokens, Cmds, Stages, [Next]_vars
  PROVE  Control'
<1> USE DEF Control
<1>1. CASE lex_op
  <2>1. failed' \in BOOLEAN
    BY <1>1 DEF lex_op, push_tok, NoMemory
  <2>2. QED
    BY <1>1, <2>1 DEF lex_op
<1>2. CASE lex_word
  <2>1. failed' \in BOOLEAN /\ phase = "lex"
    BY <1>2 DEF lex_word, push_tok, NoMemory
  <2>2. CASE LexError
    BY <2>1, <2>2 DEF LexError, Stop, Free, ArenaOf, Arenas
  <2>3. CASE UNCHANGED <<phase, code, mem>>
    BY <2>1, <2>3
  <2>4. QED
    BY <1>2, <2>2, <2>3 DEF lex_word
<1>3. CASE lex_line_end
  BY <1>3 DEF lex_line_end, ArenaOf, Arenas
<1>4. CASE parse_pipeline
  <2>1. phase = "parse" /\ failed' \in BOOLEAN
    BY <1>4 DEF parse_pipeline, NoMemory
  <2>2. CASE phase' = "cmd" /\ UNCHANGED <<code, mem>>
    BY <2>1, <2>2 DEF ArenaOf
  <2>3. CASE ParseError(2) \/ ParseError(0)
    BY <2>1, <2>3 DEF ParseError, Stop, Free, ArenaOf, Arenas
  <2>4. QED
    BY <1>4, <2>2, <2>3 DEF parse_pipeline
<1>5. CASE parse_one
  <2>1. phase = "cmd" /\ failed' \in BOOLEAN
    BY <1>5 DEF parse_one, NoMemory
  <2>2. CASE phase' = "fill" /\ UNCHANGED <<code, mem>>
    BY <2>1, <2>2 DEF ArenaOf
  <2>3. CASE ParseError(2)
    BY <2>1, <2>3 DEF ParseError, Stop, Free, ArenaOf, Arenas
  <2>4. QED
    BY <1>5, <2>2, <2>3 DEF parse_one
<1>6. CASE fill_word
  BY <1>6 DEF fill_word
<1>7. CASE fill_redirect
  <2>1. phase = "fill" /\ failed' \in BOOLEAN
    BY <1>7 DEF fill_redirect, add_redirect, NoMemory
  <2>2. CASE UNCHANGED <<phase, code, mem>>
    BY <2>1, <2>2
  <2>3. CASE ParseError(2)
    BY <2>1, <2>3 DEF ParseError, Stop, Free, ArenaOf, Arenas
  <2>4. CASE TypeAt(i + 1) = "word" /\ toks[i + 1].value = NULL /\ Crash /\ UNCHANGED failed
    <3>1. i + 1 \in DOMAIN toks /\ toks[i + 1].type = "word"
      BY <2>4 DEF TypeAt
    <3>2. failed
      BY <2>4, <3>1, ListIs DEF Tokens
    <3>3. QED
      BY <2>1, <2>4, <3>2 DEF Crash
  <2>5. QED
    BY <1>7, <2>2, <2>3, <2>4 DEF fill_redirect
<1>8. CASE parse_cmds
  <2>1. phase = "fill" /\ UNCHANGED failed
    BY <1>8 DEF parse_cmds
  <2>2. CASE phase' = "cmd" /\ UNCHANGED <<code, mem>>
    BY <2>1, <2>2 DEF ArenaOf
  <2>3. CASE ParseError(2)
    BY <2>1, <2>3 DEF ParseError, Stop, Free, ArenaOf, Arenas
  <2>4. CASE phase' = "expand" /\ mem' = [Free({"lex"}) EXCEPT !["exp"] = "live"] /\ UNCHANGED code
    BY <2>1, <2>4 DEF Free, ArenaOf, Arenas
  <2>5. QED
    BY <1>8, <2>2, <2>3, <2>4 DEF parse_cmds
<1>9. CASE expand_cmd
  <2>1. phase = "expand" /\ failed' \in BOOLEAN /\ e <= Len(pl)
    BY <1>9 DEF expand_cmd, NoMemory
  <2>2. CASE UNCHANGED <<phase, code, mem>>
    BY <2>1, <2>2
  <2>3. CASE ExpandError
    BY <2>1, <2>3 DEF ExpandError, Stop, Free, ArenaOf, Arenas
  <2>4. CASE NULL \in {r.target : r \in ToSet(pl[e].redirects)} /\ Crash /\ UNCHANGED failed
    <3>1. e \in 1 .. Len(pl)
      BY <2>1, ListIs DEF Stages, Cmds
    <3>2. IsList(pl[e].redirects) /\ (~ failed => NoneMissing(pl[e]))
      BY <3>1 DEF Cmds, IsCmd
    <3>3. failed
      BY <2>4, <3>2, ListIs DEF NoneMissing
    <3>4. QED
      BY <2>1, <2>4, <3>3 DEF Crash
  <2>5. QED
    BY <1>9, <2>2, <2>3, <2>4 DEF expand_cmd
<1>10. CASE expand_pipeline_end
  BY <1>10 DEF expand_pipeline_end, Free, ArenaOf, Arenas
<1>11. CASE exec_pipeline
  BY <1>11 DEF exec_pipeline, Free, ArenaOf, Arenas
<1>12. CASE UNCHANGED vars
  BY <1>12 DEF vars
<1>13. QED
  BY <1>1, <1>2, <1>3, <1>4, <1>5, <1>6, <1>7, <1>8, <1>9, <1>10, <1>11, <1>12 DEF Next, Over

(* That an allocation has failed is never forgotten. *)
LEMMA FailedStays == ASSUME Control, [Next]_vars PROVE failed => failed'
  BY DEF Control, Next, vars, Over, lex_op, lex_word, push_tok, NoMemory, lex_line_end, parse_pipeline, parse_one, fill_word,
         fill_redirect, add_redirect, parse_cmds, expand_cmd, expand_pipeline_end, exec_pipeline

(* After the lexer the tokens stay as they are. *)
LEMMA ToksStay ==
  ASSUME Next, ~ lex_op, ~ lex_word
  PROVE  UNCHANGED toks
  BY DEF Next, vars, Over, lex_line_end, parse_pipeline, parse_one, fill_word,
         fill_redirect, parse_cmds, expand_cmd, expand_pipeline_end, exec_pipeline

(* push_tok adds a token at the end, or an allocation has failed. *)
LEMMA Pushed ==
  ASSUME Tokens, NEW t, t.type \in Types, t.value # NULL => t.value.mem = "lex", failed => failed',
         t.type = "word" /\ ~ failed' => t.value # NULL, toks' = Append(toks, t)
  PROVE  Tokens'
<1>1. IsList(toks) /\ Len(toks) \in Nat
  BY ListIs DEF Tokens
<1>2. PICK u : u = toks'
  OBVIOUS
<1>3. PICK n : n = Len(toks)
  OBVIOUS
<1>4. /\ IsList(u) /\ Len(u) = n + 1 /\ n \in Nat
      /\ \A k \in 1 .. n : u[k] = toks[k]
      /\ u[n + 1] = t
  BY <1>1, <1>2, <1>3, AppendList
<1>5. ASSUME NEW k \in 1 .. n + 1
      PROVE  /\ u[k].type \in Types
             /\ u[k].value # NULL => u[k].value.mem = "lex"
             /\ u[k].type = "word" /\ ~ failed' => u[k].value # NULL
  <2>1. CASE k = n + 1
    BY <1>4, <2>1
  <2>2. CASE k \in 1 .. n
    BY <1>3, <1>4, <2>2 DEF Tokens
  <2>3. QED
    BY <1>4, <2>1, <2>2
<1>6. QED
  BY <1>2, <1>4, <1>5 DEF Tokens

(* The lexer makes tokens of the six types, with words in its arena. *)
LEMMA TokensNext ==
  ASSUME Control, Tokens, [Next]_vars
  PROVE  Tokens'
<1>1. failed => failed'
  BY FailedStays
<1>2. CASE UNCHANGED toks
  BY <1>1, <1>2 DEF Tokens
<1>3. ASSUME NEW t, push_tok(t), t.type \in Types, t.value # NULL => t.value.mem = "lex", t.type = "word" => t.value # NULL
      PROVE  Tokens'
  BY <1>1, <1>2, <1>3, Pushed DEF push_tok
<1>4. CASE lex_op
  <2>1. PICK t : t = [type |-> OpType(NextChar), value |-> NULL]
    OBVIOUS
  <2>2. OpType(NextChar) \in Types \ {"word"}
    BY DEF OpType, Types, RedirTypes
  <2>3. push_tok(t)
    BY <1>4, <2>1 DEF lex_op
  <2>4. QED
    BY <1>3, <2>1, <2>2, <2>3
<1>5. CASE lex_word
  <2>1. PICK x : x = SubSeq(line, NextChar, lex_word_end(line, NextChar) - 1)
    OBVIOUS
  <2>2. CASE push_tok([type |-> "word", value |-> Text(x, "lex")])
    <3>1. PICK t : t = [type |-> "word", value |-> Text(x, "lex")]
      OBVIOUS
    <3>2. t.type = "word" /\ t.value.mem = "lex" /\ t.value # NULL
      BY <3>1 DEF Text, NULL
    <3>3. QED
      BY <1>3, <2>2, <3>1, <3>2 DEF Types
  <2>3. CASE NoMemory /\ toks' = Append(toks, [type |-> "word", value |-> NULL])
    <3>1. PICK t : t = [type |-> "word", value |-> NULL]
      OBVIOUS
    <3>2. t.type = "word" /\ t.value = NULL /\ failed'
      BY <2>3, <3>1 DEF NoMemory
    <3>3. QED
      BY <2>3, <3>1, <3>2, Pushed DEF Types
  <2>4. QED
    BY <1>2, <1>5, <2>1, <2>2, <2>3 DEF lex_word
<1>6. QED
  BY <1>2, <1>4, <1>5, ToksStay DEF vars

-----------------------------------------------------------------------------
(* What the parser and the expansion do to one command. *)
LEMMA ArgvGrows ==
  ASSUME NEW c, IsCmd(c), NEW w, NEW d,
         d = [argv |-> Append(c.argv, w), argc |-> c.argc, redirects |-> c.redirects]
  PROVE  /\ IsCmd(d) /\ d.argv = Append(c.argv, w) /\ d.argc = c.argc /\ d.redirects = c.redirects
         /\ NoneMissing(c) => NoneMissing(d)
         /\ \A a : WordsIn(c, a) /\ (w # NULL => w.mem = a) => WordsIn(d, a)
<1>1. PICK v, n, r : v = c.argv /\ n = c.argc /\ r = c.redirects
  OBVIOUS
<1>2. c = [argv |-> v, argc |-> n, redirects |-> r]
  BY <1>1 DEF IsCmd
<1>3. d = [argv |-> Append(v, w), argc |-> n, redirects |-> r]
  BY <1>2
<1>4. IsList(v) /\ IsList(r) /\ Len(v) \in Nat
  BY <1>1, ListIs DEF IsCmd
<1>5. PICK u : u = Append(v, w)
  OBVIOUS
<1>6. /\ IsList(u) /\ Len(u) = Len(v) + 1
      /\ \A k \in 1 .. Len(v) : u[k] = v[k]
      /\ u[Len(v) + 1] = w
  BY <1>4, <1>5, AppendList
<1>7. d.argv = u /\ d.argc = n /\ d.redirects = r
  BY <1>3, <1>5
<1>8. IsCmd(d)
  BY <1>1, <1>3, <1>4, <1>5, <1>6, <1>7 DEF IsCmd
<1>9. ASSUME NEW a, WordsIn(c, a), w # NULL => w.mem = a PROVE WordsIn(d, a)
  <2>1. ASSUME NEW k \in 1 .. Len(u), u[k] # NULL PROVE u[k].mem = a
    <3>1. k \in 1 .. Len(v) \/ k = Len(v) + 1
      BY <1>4, <1>6
    <3>2. QED
      BY <1>1, <1>6, <1>9, <2>1, <3>1 DEF WordsIn
  <2>2. QED
    BY <1>1, <1>7, <1>9, <2>1 DEF WordsIn
<1>10. QED
  BY <1>1, <1>5, <1>7, <1>8, <1>9 DEF NoneMissing

(* add_redirect adds one redirection and leaves the rest of the command. *)
LEMMA RedirectsGrow ==
  ASSUME NEW c, IsCmd(c), NEW x, Redirection(x), NEW d,
         d = [argv |-> c.argv, argc |-> c.argc, redirects |-> Append(c.redirects, x)]
  PROVE  /\ IsCmd(d) /\ d.argv = c.argv /\ d.argc = c.argc
         /\ NoneMissing(c) /\ x.target # NULL => NoneMissing(d)
         /\ \A a : WordsIn(c, a) /\ (x.target # NULL => x.target.mem = a) => WordsIn(d, a)
<1>1. PICK v, n, r : v = c.argv /\ n = c.argc /\ r = c.redirects
  OBVIOUS
<1>2. c = [argv |-> v, argc |-> n, redirects |-> r]
  BY <1>1 DEF IsCmd
<1>3. d = [argv |-> v, argc |-> n, redirects |-> Append(r, x)]
  BY <1>2
<1>4. IsList(v) /\ IsList(r) /\ Len(r) \in Nat /\ \A k \in 1 .. Len(r) : Redirection(r[k])
  BY <1>1, ListIs DEF IsCmd
<1>5. PICK u : u = Append(r, x)
  OBVIOUS
<1>6. /\ IsList(u) /\ Len(u) = Len(r) + 1
      /\ \A k \in 1 .. Len(r) : u[k] = r[k]
      /\ u[Len(r) + 1] = x
  BY <1>4, <1>5, AppendList
<1>7. d.argv = v /\ d.argc = n /\ d.redirects = u
  BY <1>3, <1>5
<1>8. \A k \in 1 .. Len(u) : k \in 1 .. Len(r) \/ k = Len(r) + 1
  BY <1>4, <1>6
<1>9. IsCmd(d)
  BY <1>1, <1>3, <1>4, <1>5, <1>6, <1>7, <1>8 DEF IsCmd
<1>10. ASSUME NEW a, WordsIn(c, a), x.target # NULL => x.target.mem = a PROVE WordsIn(d, a)
  BY <1>1, <1>6, <1>7, <1>8, <1>10 DEF WordsIn
<1>11. ASSUME NoneMissing(c), x.target # NULL PROVE NoneMissing(d)
  BY <1>1, <1>6, <1>7, <1>8, <1>11 DEF NoneMissing
<1>12. QED
  BY <1>1, <1>7, <1>9, <1>10, <1>11

(* The words before the first NULL are a prefix. *)
LEMMA UptoIs == ASSUME NEW argv, IsList(argv) PROVE \E n \in 0 .. Len(argv) : DOMAIN Upto(argv) = 1 .. n
<1>1. Len(argv) \in Nat /\ DOMAIN argv = 1 .. Len(argv)
  BY ListIs
<1>2. PICK S : S = {k \in DOMAIN argv : argv[k] = NULL} \cup {Len(argv) + 1}
  OBVIOUS
<1>3. S \subseteq 1 .. Len(argv) + 1 /\ S # {} /\ S \in SUBSET Nat
  BY <1>1, <1>2
<1>4. \E n \in S : \A m \in S : n <= m
  BY <1>3, Least
<1>5. Min(S) \in S
  BY <1>4 DEF Min
<1>6. PICK n : n = Min(S) - 1
  OBVIOUS
<1>7. n \in 0 .. Len(argv)
  <2>1. PICK z : z = Min(S)
    OBVIOUS
  <2>2. z \in 1 .. Len(argv) + 1
    BY <1>3, <1>5, <2>1
  <2>3. QED
    BY <1>1, <1>6, <2>1, <2>2
<1>8. PICK T : argv \in Seq(T)
  BY DEF IsList
<1>9. \A k \in 1 .. n : argv[k] \in T
  BY <1>1, <1>7, <1>8, ElementOfSeq
<1>10. PICK u : u = SubSeq(argv, 1, n)
  OBVIOUS
<1>11. u \in Seq(T) /\ Len(u) = n
  <2>1. 1 \in Int /\ n \in Int
    BY <1>1, <1>7
  <2>2. u \in Seq(T) /\ Len(u) = IF 1 <= n THEN n - 1 + 1 ELSE 0
    BY <1>9, <1>10, <2>1, SubSeqProperties
  <2>3. QED
    BY <1>7, <2>2
<1>12. DOMAIN u = 1 .. n
  BY <1>11, LenProperties
<1>13. Upto(argv) = u
  BY <1>2, <1>6, <1>10 DEF Upto
<1>14. QED
  BY <1>7, <1>12, <1>13

(* An expanded command has its words in expand's arena, however many copies of
   targets failed. *)
LEMMA ExpandedIs ==
  ASSUME NEW c, IsCmd(c), NEW bad
  PROVE  /\ IsCmd(Expanded(c, bad)) /\ WordsIn(Expanded(c, bad), "exp")
         /\ Expanded(c, bad).argc = Len(Expanded(c, bad).argv)
         /\ bad = {} => NoneMissing(Expanded(c, bad))
<1>1. PICK d : d = Expanded(c, bad)
  OBVIOUS
<1>2. PICK v, r : v = expand_argv(c) /\ r = expand_redirects(c, bad)
  OBVIOUS
<1>3. d = [argv |-> v, argc |-> Len(v), redirects |-> r]
  BY <1>1, <1>2 DEF Expanded
<1>4. IsList(v) /\ \A k \in 1 .. Len(v) : v[k].mem = "exp"
  <2>1. PICK n \in 0 .. Len(c.argv) : DOMAIN Upto(c.argv) = 1 .. n
    BY UptoIs DEF IsCmd
  <2>2. n \in Nat
    BY <2>1, ListIs DEF IsCmd
  <2>3. v = [k \in 1 .. n |-> Text(expand_word(c.argv[k].text), "exp")]
    BY <1>2, <2>1 DEF expand_argv
  <2>4. v = [k \in 1 .. n |-> v[k]] /\ \A k \in 1 .. n : v[k].mem = "exp"
    BY <2>3 DEF Text
  <2>5. IsList(v) /\ Len(v) = n
    BY <2>2, <2>4, ListOf
  <2>6. QED
    BY <2>4, <2>5
<1>5. /\ IsList(r)
      /\ \A k \in 1 .. Len(r) : /\ Redirection(r[k])
                                /\ r[k].target # NULL => r[k].target.mem = "exp"
                                /\ bad = {} => r[k].target # NULL
  <2>1. PICK o : o = c.redirects
    OBVIOUS
  <2>2. PICK n : n = Len(o)
    OBVIOUS
  <2>3. n \in Nat /\ DOMAIN o = 1 .. n /\ \A k \in 1 .. n : Redirection(o[k])
    BY <2>1, <2>2, ListIs DEF IsCmd
  <2>4. r = [k \in 1 .. n |-> [o[k] EXCEPT !.target = IF k \in bad THEN NULL ELSE Text(Target(o[k]), "exp")]]
    BY <1>2, <2>1, <2>3 DEF expand_redirects
  <2>5. ASSUME NEW k \in 1 .. n
        PROVE /\ Redirection(r[k])
              /\ r[k].target # NULL => r[k].target.mem = "exp"
              /\ bad = {} => r[k].target # NULL
    <3>1. PICK x : x = IF k \in bad THEN NULL ELSE Text(Target(o[k]), "exp")
      OBVIOUS
    <3>2. /\ x # NULL => x.mem = "exp"
          /\ bad = {} => x # NULL
      BY <3>1 DEF Text, NULL
    <3>3. r[k] = [type |-> o[k].type, target |-> x, quoted |-> o[k].quoted]
      BY <2>3, <2>4, <3>1 DEF Redirection
    <3>4. o[k].type \in RedirTypes /\ o[k].quoted \in BOOLEAN
      BY <2>3 DEF Redirection
    <3>5. QED
      BY <3>2, <3>3, <3>4 DEF Redirection
  <2>6. r = [k \in 1 .. n |-> r[k]]
    BY <2>4
  <2>7. IsList(r) /\ Len(r) = n
    BY <2>3, <2>6, ListOf
  <2>8. QED
    BY <2>5, <2>7
<1>6. d.argv = v /\ d.argc = Len(v) /\ d.redirects = r
  BY <1>3
<1>7. IsCmd(d) /\ WordsIn(d, "exp") /\ (bad = {} => NoneMissing(d))
  BY <1>3, <1>4, <1>5, <1>6 DEF IsCmd, WordsIn, NoneMissing
<1>8. QED
  BY <1>1, <1>6, <1>7

(* One command is replaced. *)
LEMMA CmdReplaced ==
  ASSUME Cmds, failed => failed', NEW n \in 1 .. Len(pl), NEW d, IsCmd(d), ~ failed' => NoneMissing(d),
         pl' = [pl EXCEPT ![n] = d]
  PROVE  /\ Cmds' /\ Len(pl') = Len(pl)
         /\ \A m \in 1 .. Len(pl) : pl'[m] = IF m = n THEN d ELSE pl[m]
<1>1. IsList(pl)
  BY DEF Cmds
<1>2. PICK q : q = pl' /\ q = [pl EXCEPT ![n] = d]
  OBVIOUS
<1>3. /\ IsList(q) /\ Len(q) = Len(pl)
      /\ \A m \in 1 .. Len(pl) : q[m] = IF m = n THEN d ELSE pl[m]
  <2>1. PICK p : p = pl
    OBVIOUS
  <2>2. Len(p) \in Nat /\ DOMAIN p = 1 .. Len(p)
    BY <1>1, <2>1, ListIs
  <2>3. q = [k \in 1 .. Len(p) |-> q[k]] /\ \A m \in 1 .. Len(p) : q[m] = IF m = n THEN d ELSE p[m]
    BY <1>2, <2>1, <2>2
  <2>4. IsList(q) /\ Len(q) = Len(p)
    BY <2>2, <2>3, ListOf
  <2>5. QED
    BY <2>1, <2>3, <2>4
<1>4. \A m \in 1 .. Len(q) : IsCmd(q[m]) /\ (~ failed' => NoneMissing(q[m]))
  BY <1>3 DEF Cmds
<1>5. Cmds'
  <2>1. IsList(q) /\ \A m \in 1 .. Len(q) : IsCmd(q[m]) /\ (~ failed' => NoneMissing(q[m]))
    BY <1>3, <1>4
  <2>2. QED
    BY <1>2, <2>1 DEF Cmds
<1>6. QED
  BY <1>2, <1>3, <1>5

(* A command is begun. *)
Begun(n) == [argv |-> <<>>, argc |-> n, redirects |-> <<>>]

(* A command begins without words and redirections. *)
LEMMA BegunIs == ASSUME NEW n PROVE IsCmd(Begun(n)) /\ NoneMissing(Begun(n)) /\ \A a : WordsIn(Begun(n), a)
<1>1. PICK z : z = <<>>
  OBVIOUS
<1>2. IsList(z) /\ Len(z) = 0
  BY <1>1, EmptyIs
<1>3. PICK d : d = Begun(n)
  OBVIOUS
<1>4. d = [argv |-> z, argc |-> n, redirects |-> z]
  BY <1>1, <1>3 DEF Begun
<1>5. d.argv = z /\ d.argc = n /\ d.redirects = z
  BY <1>4
<1>6. IsCmd(d) /\ NoneMissing(d) /\ \A a : WordsIn(d, a)
  BY <1>2, <1>4, <1>5 DEF IsCmd, NoneMissing, WordsIn
<1>7. QED
  BY <1>3, <1>6

(* parse_one adds a command that is begun, the others staying as they are. *)
LEMMA CmdBegun ==
  ASSUME Cmds, failed' = failed, NEW n, pl' = Append(pl, Begun(n))
  PROVE  /\ Cmds' /\ Len(pl') = Len(pl) + 1
         /\ \A m \in 1 .. Len(pl) : pl'[m] = pl[m]
         /\ pl'[Len(pl) + 1] = Begun(n)
<1>1. IsList(pl) /\ Len(pl) \in Nat
  BY ListIs DEF Cmds
<1>2. PICK q : q = pl'
  OBVIOUS
<1>3. /\ IsList(q) /\ Len(q) = Len(pl) + 1
      /\ \A m \in 1 .. Len(pl) : q[m] = pl[m]
      /\ q[Len(pl) + 1] = Begun(n)
  BY <1>1, <1>2, AppendList
<1>4. ASSUME NEW m \in 1 .. Len(q) PROVE IsCmd(q[m]) /\ (~ failed => NoneMissing(q[m]))
  <2>1. m \in 1 .. Len(pl) \/ m = Len(pl) + 1
    BY <1>1, <1>3
  <2>2. QED
    BY <1>3, <2>1, BegunIs DEF Cmds
<1>5. Cmds'
  <2>1. IsList(q) /\ \A m \in 1 .. Len(q) : IsCmd(q[m]) /\ (~ failed' => NoneMissing(q[m]))
    BY <1>3, <1>4
  <2>2. QED
    BY <1>2, <2>1 DEF Cmds
<1>6. QED
  BY <1>2, <1>3, <1>5

(* What parse_one does: a new command, or the end. *)
LEMMA ParseOneIs ==
  ASSUME parse_one
  PROVE  \/ UNCHANGED pl /\ phase' = "done"
         \/ /\ TypeAt(i) # "pipe" /\ phase' = "fill" /\ UNCHANGED <<i, toks, e, failed>>
            /\ pl' = Append(pl, Begun(count_argc(i)))
  BY DEF parse_one, ParseError, Stop, Begun

(* The word goes into the command that is being filled. *)
LEMMA FillWordIs ==
  ASSUME Cmds, Stages, failed \in BOOLEAN, fill_word
  PROVE  \E w : /\ failed' = (failed \/ w = NULL) /\ (w # NULL => w.mem = "parse")
                /\ w \in Copied(toks[i].value, "parse")
                /\ phase = "fill" /\ last \in 1 .. Len(pl) /\ IsCmd(pl[last])
                /\ Cmds' /\ Len(pl') = Len(pl)
                /\ \A m \in 1 .. Len(pl) : m # last => pl'[m] = pl[m]
                /\ pl'[last] = [argv |-> Append(pl[last].argv, w), argc |-> pl[last].argc, redirects |-> pl[last].redirects]
                /\ TypeAt(i) = "word" /\ i' = i + 1 /\ UNCHANGED <<toks, phase, e>>
<1>1. PICK w : /\ w \in Copied(toks[i].value, "parse")
               /\ pl' = [pl EXCEPT ![last].argv = Append(@, w)]
               /\ failed' = (failed \/ w = NULL)
  BY DEF fill_word
<1>2. w # NULL => w.mem = "parse"
  BY <1>1 DEF Copied, Text
<1>3. phase = "fill" /\ last \in 1 .. Len(pl) /\ IsCmd(pl[last]) /\ (~ failed => NoneMissing(pl[last]))
  <2>1. phase = "fill" /\ Len(pl) \in Nat \ {0}
    BY ListIs DEF fill_word, Stages, Cmds
  <2>2. last \in 1 .. Len(pl)
    BY <2>1 DEF last
  <2>3. QED
    BY <2>1, <2>2 DEF Cmds
<1>4. PICK n : n = last
  OBVIOUS
<1>5. PICK d : d = [argv |-> Append(pl[n].argv, w), argc |-> pl[n].argc, redirects |-> pl[n].redirects]
  OBVIOUS
<1>6. pl' = [pl EXCEPT ![n] = d]
  <2>1. [pl[n] EXCEPT !.argv = Append(@, w)] = d
    <3>1. PICK c, v, m, r : c = pl[n] /\ v = c.argv /\ m = c.argc /\ r = c.redirects
      OBVIOUS
    <3>2. c = [argv |-> v, argc |-> m, redirects |-> r]
      BY <1>3, <1>4, <3>1 DEF IsCmd
    <3>3. d = [argv |-> Append(v, w), argc |-> m, redirects |-> r]
      BY <1>5, <3>1
    <3>4. [c EXCEPT !.argv = Append(@, w)] = [argv |-> Append(v, w), argc |-> m, redirects |-> r]
      BY <3>2
    <3>5. QED
      BY <3>1, <3>3, <3>4
  <2>2. pl' = [pl EXCEPT ![n] = [pl[n] EXCEPT !.argv = Append(@, w)]]
    BY <1>1, <1>4
  <2>3. QED
    BY <2>1, <2>2
<1>7. IsCmd(d) /\ (~ failed' => NoneMissing(d)) /\ (failed => failed')
  <2>1. PICK c : c = pl[n]
    OBVIOUS
  <2>2. IsCmd(c) /\ d = [argv |-> Append(c.argv, w), argc |-> c.argc, redirects |-> c.redirects]
    BY <1>3, <1>4, <1>5, <2>1
  <2>3. IsCmd(d) /\ (NoneMissing(c) => NoneMissing(d))
    BY <2>2, ArgvGrows
  <2>4. QED
    BY <1>1, <1>3, <1>4, <2>1, <2>3
<1>8. /\ Cmds' /\ Len(pl') = Len(pl)
      /\ \A m \in 1 .. Len(pl) : pl'[m] = IF m = n THEN d ELSE pl[m]
  <2>1. n \in 1 .. Len(pl)
    BY <1>3, <1>4
  <2>2. QED
    BY <1>6, <1>7, <2>1, CmdReplaced
<1>9. TypeAt(i) = "word" /\ i' = i + 1 /\ UNCHANGED <<toks, phase, e>>
  BY DEF fill_word
<1>10. QED
  BY <1>1, <1>2, <1>3, <1>4, <1>5, <1>6, <1>8, <1>9

(* What fill_redirect does: one redirection more, or the end. *)
LEMMA FillRedirectIs ==
  ASSUME Cmds, Stages, failed \in BOOLEAN, fill_redirect
  PROVE  \/ UNCHANGED pl /\ phase' \in {"done", "crashed"}
         \/ \E x : /\ failed' = (failed \/ x.target = NULL) /\ (x.target # NULL => x.target.mem = "parse")
                   /\ Redirection(x) /\ x.target \in Copied(toks[i + 1].value, "parse") /\ x = Redirect(i, x.target)
                   /\ phase = "fill" /\ last \in 1 .. Len(pl) /\ IsCmd(pl[last])
                   /\ Cmds' /\ Len(pl') = Len(pl)
                   /\ \A m \in 1 .. Len(pl) : m # last => pl'[m] = pl[m]
                   /\ pl'[last] = [argv |-> pl[last].argv, argc |-> pl[last].argc, redirects |-> Append(pl[last].redirects, x)]
                   /\ TypeAt(i) \in RedirTypes /\ TypeAt(i + 1) = "word" /\ i' = i + 2 /\ UNCHANGED <<toks, phase, e>>
<1>1. CASE UNCHANGED pl /\ phase' \in {"done", "crashed"}
  BY <1>1
<1>2. CASE /\ TypeAt(i + 1) = "word" /\ add_redirect(i) /\ i' = i + 2 /\ UNCHANGED phase
  <2>1. PICK w : /\ w \in Copied(toks[i + 1].value, "parse")
                 /\ pl' = [pl EXCEPT ![last].redirects = Append(@, Redirect(i, w))]
                 /\ failed' = (failed \/ w = NULL)
    BY <1>2 DEF add_redirect
  <2>2. w # NULL => w.mem = "parse"
    BY <2>1 DEF Copied, Text
  <2>3. phase = "fill" /\ last \in 1 .. Len(pl) /\ IsCmd(pl[last]) /\ (~ failed => NoneMissing(pl[last]))
    <3>1. phase = "fill" /\ Len(pl) \in Nat \ {0}
      BY ListIs DEF fill_redirect, Stages, Cmds
    <3>2. last \in 1 .. Len(pl)
      BY <3>1 DEF last
    <3>3. QED
      BY <3>1, <3>2 DEF Cmds
  <2>4. PICK n : n = last
    OBVIOUS
  <2>5. PICK x : x = Redirect(i, w)
    OBVIOUS
  <2>6. Redirection(x) /\ x.target = w
    <3>1. TypeAt(i) \in RedirTypes
      BY DEF fill_redirect
    <3>2. has_quote(toks[i + 1].value.text) \in BOOLEAN
      BY DEF has_quote
    <3>3. QED
      BY <2>5, <3>1, <3>2 DEF Redirect, Redirection
  <2>7. PICK d : d = [argv |-> pl[n].argv, argc |-> pl[n].argc, redirects |-> Append(pl[n].redirects, x)]
    OBVIOUS
  <2>8. pl' = [pl EXCEPT ![n] = d]
    <3>1. [pl[n] EXCEPT !.redirects = Append(@, x)] = d
      <4>1. PICK c, v, m, r : c = pl[n] /\ v = c.argv /\ m = c.argc /\ r = c.redirects
        OBVIOUS
      <4>2. c = [argv |-> v, argc |-> m, redirects |-> r]
        BY <2>3, <2>4, <4>1 DEF IsCmd
      <4>3. d = [argv |-> v, argc |-> m, redirects |-> Append(r, x)]
        BY <2>7, <4>1
      <4>4. [c EXCEPT !.redirects = Append(@, x)] = [argv |-> v, argc |-> m, redirects |-> Append(r, x)]
        BY <4>2
      <4>5. QED
        BY <4>1, <4>3, <4>4
    <3>2. pl' = [pl EXCEPT ![n] = [pl[n] EXCEPT !.redirects = Append(@, x)]]
      BY <2>1, <2>4, <2>5
    <3>3. QED
      BY <3>1, <3>2
  <2>9. IsCmd(d) /\ (~ failed' => NoneMissing(d)) /\ (failed => failed')
    <3>1. PICK c : c = pl[n]
      OBVIOUS
    <3>2. IsCmd(c) /\ d = [argv |-> c.argv, argc |-> c.argc, redirects |-> Append(c.redirects, x)]
      BY <2>3, <2>4, <2>7, <3>1
    <3>3. IsCmd(d) /\ (NoneMissing(c) /\ x.target # NULL => NoneMissing(d))
      BY <2>6, <3>2, RedirectsGrow
    <3>4. QED
      BY <2>1, <2>3, <2>4, <2>6, <3>1, <3>3
  <2>10. /\ Cmds' /\ Len(pl') = Len(pl)
         /\ \A m \in 1 .. Len(pl) : pl'[m] = IF m = n THEN d ELSE pl[m]
    <3>1. n \in 1 .. Len(pl)
      BY <2>3, <2>4
    <3>2. QED
      BY <2>8, <2>9, <3>1, CmdReplaced
  <2>11. TypeAt(i) \in RedirTypes /\ UNCHANGED <<toks, e>>
    BY DEF fill_redirect
  <2>12. QED
    BY <1>2, <2>1, <2>2, <2>3, <2>4, <2>5, <2>6, <2>7, <2>10, <2>11
<1>3. QED
  BY <1>1, <1>2 DEF fill_redirect, ParseError, Stop, Crash

(* What expand_cmd does: command e is expanded, or handle_line ends. *)
LEMMA ExpandCmdIs ==
  ASSUME Cmds, Stages, failed \in BOOLEAN, expand_cmd
  PROVE  \/ UNCHANGED pl /\ phase' \in {"done", "crashed"}
         \/ \E d : /\ IsCmd(d) /\ WordsIn(d, "exp") /\ d.argc = Len(d.argv)
                   /\ \E bad : d = Expanded(pl[e], bad) /\ (bad # {} => failed')
                   /\ phase = "expand" /\ e \in 1 .. Len(pl)
                   /\ Cmds' /\ Len(pl') = Len(pl)
                   /\ \A m \in 1 .. Len(pl) : pl'[m] = IF m = e THEN d ELSE pl[m]
                   /\ e' = e + 1 /\ UNCHANGED <<toks, phase, i>>
<1>1. CASE UNCHANGED pl /\ phase' \in {"done", "crashed"}
  BY <1>1
<1>2. ASSUME NEW bad, pl' = [pl EXCEPT ![e] = Expanded(@, bad)], failed' = (failed \/ bad # {}),
             e' = e + 1, UNCHANGED phase
      PROVE  \E d : /\ IsCmd(d) /\ WordsIn(d, "exp") /\ d.argc = Len(d.argv)
                    /\ \E b : d = Expanded(pl[e], b) /\ (b # {} => failed')
                    /\ phase = "expand" /\ e \in 1 .. Len(pl)
                    /\ Cmds' /\ Len(pl') = Len(pl)
                    /\ \A m \in 1 .. Len(pl) : pl'[m] = IF m = e THEN d ELSE pl[m]
                    /\ e' = e + 1 /\ UNCHANGED <<toks, phase, i>>
  <2>1. phase = "expand" /\ e \in 1 .. Len(pl)
    <3>1. phase = "expand" /\ e <= Len(pl) /\ e \in 1 .. Len(pl) + 1 /\ Len(pl) \in Nat
      BY ListIs DEF expand_cmd, Stages, Cmds
    <3>2. QED
      BY <3>1
  <2>2. PICK n : n = e
    OBVIOUS
  <2>3. PICK d : d = Expanded(pl[n], bad)
    OBVIOUS
  <2>4. pl' = [pl EXCEPT ![n] = d]
    BY <1>2, <2>2, <2>3
  <2>5. IsCmd(pl[n])
    BY <2>1, <2>2 DEF Cmds
  <2>6. IsCmd(d) /\ WordsIn(d, "exp") /\ d.argc = Len(d.argv) /\ (bad = {} => NoneMissing(d))
    BY <2>3, <2>5, ExpandedIs
  <2>7. (failed => failed') /\ (~ failed' => NoneMissing(d))
    BY <1>2, <2>6
  <2>8. /\ Cmds' /\ Len(pl') = Len(pl)
        /\ \A m \in 1 .. Len(pl) : pl'[m] = IF m = n THEN d ELSE pl[m]
    <3>1. n \in 1 .. Len(pl)
      BY <2>1, <2>2
    <3>2. IsCmd(d)
      BY <2>6
    <3>3. QED
      BY <2>4, <2>7, <3>1, <3>2, CmdReplaced
  <2>9. UNCHANGED <<toks, i>>
    BY DEF expand_cmd
  <2>10. d = Expanded(pl[e], bad) /\ (bad # {} => failed')
    BY <1>2, <2>2, <2>3
  <2>11. QED
    BY <1>2, <2>1, <2>2, <2>6, <2>8, <2>9, <2>10
<1>3. QED
  BY <1>1, <1>2 DEF expand_cmd, ExpandError, Stop, Crash

(* Commands that nothing touches stay what they are. *)
LEMMA CmdsStay == ASSUME Cmds, UNCHANGED pl, failed => failed' PROVE Cmds'
  BY DEF Cmds

(* Four actions alone change the commands. *)
LEMMA PlStays ==
  ASSUME Next, ~ parse_one, ~ fill_word, ~ fill_redirect, ~ expand_cmd
  PROVE  UNCHANGED pl
  BY DEF Next, vars, Over, lex_op, lex_word, lex_line_end, parse_pipeline, parse_cmds,
         expand_pipeline_end, exec_pipeline

(* The commands keep their shape, and have no NULL target unless a copy failed. *)
LEMMA CmdsNext ==
  ASSUME Control, Cmds, Stages, [Next]_vars
  PROVE  Cmds'
<1>1. failed => failed'
  BY FailedStays
<1>2. CASE UNCHANGED pl
  BY <1>1, <1>2, CmdsStay
<1>3. CASE parse_one
  <2>1. CASE failed' = failed /\ pl' = Append(pl, Begun(count_argc(i)))
    BY <2>1, CmdBegun
  <2>2. QED
    BY <1>2, <1>3, <2>1, ParseOneIs
<1>4. CASE fill_word
  BY <1>4, FillWordIs DEF Control
<1>5. CASE fill_redirect
  BY <1>2, <1>5, FillRedirectIs DEF Control
<1>6. CASE expand_cmd
  BY <1>2, <1>6, ExpandCmdIs DEF Control
<1>7. QED
  BY <1>2, <1>3, <1>4, <1>5, <1>6, PlStays DEF vars

(* Every word stays in the arena of the stage that its command has reached. *)
LEMMA StagesNext ==
  ASSUME Control, Cmds, Stages, [Next]_vars
  PROVE  Stages'
<1>0. phase' \in {"done", "crashed"} => Stages'
  BY DEF Stages
<1>1. IsList(pl) /\ Len(pl) \in Nat
  BY ListIs DEF Cmds
<1>2. CASE UNCHANGED <<pl, phase, e>>
  BY <1>2 DEF Stages
<1>3. CASE lex_op
  BY <1>2, <1>3 DEF lex_op
<1>4. CASE lex_word
  BY <1>0, <1>2, <1>4 DEF lex_word, LexError, Stop
<1>5. CASE lex_line_end
  BY <1>5 DEF lex_line_end, Stages
<1>6. CASE parse_pipeline
  <2>1. CASE phase' = "cmd"
    <3>1. pl' = <<>> /\ Len(pl') = 0 /\ e' = 1
      BY <1>6, <2>1, EmptyIs DEF parse_pipeline, Stages
    <3>2. QED
      BY <2>1, <3>1 DEF Stages
  <2>2. QED
    BY <1>0, <1>6, <2>1 DEF parse_pipeline, ParseError, Stop
<1>7. CASE parse_one
  <2>1. CASE phase' = "fill" /\ UNCHANGED <<e, failed>> /\ pl' = Append(pl, Begun(count_argc(i)))
    <3>1. /\ Len(pl') = Len(pl) + 1
          /\ \A m \in 1 .. Len(pl) : pl'[m] = pl[m]
          /\ pl'[Len(pl) + 1] = Begun(count_argc(i))
      BY <2>1, CmdBegun
    <3>2. phase = "cmd" /\ e = 1 /\ \A n \in 1 .. Len(pl) : WordsIn(pl[n], "parse")
      BY <1>7 DEF parse_one, Stages
    <3>3. \A n \in 1 .. Len(pl') : WordsIn(pl'[n], "parse")
      <4>1. WordsIn(Begun(count_argc(i)), "parse")
        BY BegunIs
      <4>2. \A n \in 1 .. Len(pl') : n \in 1 .. Len(pl) \/ n = Len(pl) + 1
        BY <1>1, <3>1
      <4>3. QED
        BY <3>1, <3>2, <4>1, <4>2
    <3>4. QED
      BY <1>1, <2>1, <3>1, <3>2, <3>3 DEF Stages
  <2>2. QED
    BY <1>0, <1>7, <2>1, ParseOneIs
<1>8. CASE fill_word
  <2>1. PICK w : /\ w # NULL => w.mem = "parse"
                 /\ phase = "fill" /\ last \in 1 .. Len(pl) /\ IsCmd(pl[last])
                 /\ Len(pl') = Len(pl)
                 /\ \A m \in 1 .. Len(pl) : m # last => pl'[m] = pl[m]
                 /\ pl'[last] = [argv |-> Append(pl[last].argv, w), argc |-> pl[last].argc, redirects |-> pl[last].redirects]
                 /\ UNCHANGED <<toks, phase, e>>
    BY <1>8, FillWordIs DEF Control
  <2>2. PICK c, d : c = pl[last] /\ d = pl'[last]
    OBVIOUS
  <2>3. WordsIn(c, "parse") => WordsIn(d, "parse")
    BY <2>1, <2>2, ArgvGrows
  <2>4. \A n \in 1 .. Len(pl) : WordsIn(pl'[n], "parse")
    BY <2>1, <2>2, <2>3 DEF Stages
  <2>5. QED
    BY <2>1, <2>4 DEF Stages
<1>9. CASE fill_redirect
  <2>1. ASSUME NEW x, x.target # NULL => x.target.mem = "parse", Redirection(x),
               phase = "fill", last \in 1 .. Len(pl), IsCmd(pl[last]),
               Len(pl') = Len(pl),
               \A m \in 1 .. Len(pl) : m # last => pl'[m] = pl[m],
               pl'[last] = [argv |-> pl[last].argv, argc |-> pl[last].argc, redirects |-> Append(pl[last].redirects, x)],
               UNCHANGED <<toks, phase, e>>
        PROVE  Stages'
    <3>1. PICK c, d : c = pl[last] /\ d = pl'[last]
      OBVIOUS
    <3>2. WordsIn(c, "parse") => WordsIn(d, "parse")
      BY <2>1, <3>1, RedirectsGrow
    <3>3. \A n \in 1 .. Len(pl) : WordsIn(pl'[n], "parse")
      BY <2>1, <3>1, <3>2 DEF Stages
    <3>4. QED
      BY <2>1, <3>3 DEF Stages
  <2>2. QED
    BY <1>0, <1>9, <2>1, FillRedirectIs DEF Control
<1>10. CASE parse_cmds
  <2>1. phase = "fill" /\ UNCHANGED <<pl, e>>
    BY <1>10 DEF parse_cmds
  <2>2. CASE phase' = "cmd"
    BY <2>1, <2>2 DEF Stages
  <2>3. CASE phase' = "expand"
    <3>1. e' = 1 /\ \A n \in 1 .. Len(pl) : WordsIn(pl[n], "parse") /\ ~ (n < 1)
      BY <1>1, <2>1 DEF Stages
    <3>2. QED
      BY <1>1, <2>1, <2>3, <3>1 DEF Stages
  <2>4. QED
    BY <1>0, <1>10, <2>2, <2>3 DEF parse_cmds, ParseError, Stop
<1>11. CASE expand_cmd
  <2>1. ASSUME NEW d, WordsIn(d, "exp"), phase = "expand", e \in 1 .. Len(pl),
               Len(pl') = Len(pl),
               \A m \in 1 .. Len(pl) : pl'[m] = IF m = e THEN d ELSE pl[m],
               e' = e + 1, UNCHANGED phase
        PROVE  Stages'
    <3>1. ASSUME NEW n \in 1 .. Len(pl) PROVE WordsIn(pl'[n], IF n < e' THEN "exp" ELSE "parse")
      <4>1. CASE n = e
        BY <2>1, <4>1
      <4>2. CASE n # e
        <5>1. pl'[n] = pl[n] /\ (n < e' <=> n < e)
          BY <2>1, <4>2
        <5>2. QED
          BY <2>1, <5>1 DEF Stages
      <4>3. QED
        BY <4>1, <4>2
    <3>2. e' \in 1 .. Len(pl') + 1
      BY <1>1, <2>1
    <3>3. QED
      BY <2>1, <3>1, <3>2 DEF Stages
  <2>2. QED
    BY <1>0, <1>11, <2>1, ExpandCmdIs DEF Control
<1>12. CASE expand_pipeline_end
  <2>1. phase = "expand" /\ phase' = "exec" /\ UNCHANGED pl /\ e = Len(pl) + 1
    BY <1>12 DEF expand_pipeline_end
  <2>2. \A n \in 1 .. Len(pl) : n < e
    BY <1>1, <2>1
  <2>3. QED
    BY <2>1, <2>2 DEF Stages
<1>13. CASE exec_pipeline
  BY <1>0, <1>13 DEF exec_pipeline
<1>14. CASE UNCHANGED vars
  BY <1>2, <1>14 DEF vars
<1>15. QED
  BY <1>3, <1>4, <1>5, <1>6, <1>7, <1>8, <1>9, <1>10, <1>11, <1>12, <1>13, <1>14 DEF Next, Over

Owned == Control /\ Tokens /\ Cmds /\ Stages

(* Owned holds in every state. *)
LEMMA OwnedInductive == Spec => []Owned
<1>1. Init => Owned
  BY ControlInit, EmptyIs DEF Init, Owned, Tokens, Cmds, Stages
<1>2. Owned /\ [Next]_vars => Owned'
  BY ControlNext, TokensNext, CmdsNext, StagesNext DEF Owned
<1>3. QED
  BY <1>1, <1>2, PTL DEF Spec

(* Line's variables keep their types, whichever allocations fail: tokens,
   redirections and their words are what lexer.c and parser_cmd.c make. *)
THEOREM LineTypeOK == Spec => []TypeOK
<1>1. Owned => TypeOK
  <2> SUFFICES ASSUME Owned PROVE TypeOK
    OBVIOUS
  <2>1. \A t \in ToSet(toks) : t.type \in Types /\ (t.value # NULL => t.value.mem = "lex")
    BY ListIs DEF Owned, Tokens
  <2>2. ASSUME NEW c \in ToSet(pl), NEW r \in ToSet(c.redirects) PROVE r.type \in RedirTypes /\ r.quoted \in BOOLEAN
    <3>1. IsCmd(c)
      BY ListIs DEF Owned, Cmds
    <3>2. Redirection(r)
      BY <3>1, ListIs DEF IsCmd
    <3>3. QED
      BY <3>2 DEF Redirection
  <2>3. QED
    BY <2>1, <2>2 DEF Owned, Control, TypeOK
<1>2. QED
  BY <1>1, OwnedInductive, PTL

(* No stage uses a word whose arena was released, and no arena is left behind. *)
THEOREM LineOwnsMemory == Spec => []MemoryOwned
<1>1. Owned => MemoryOwned
  <2> SUFFICES ASSUME Owned PROVE MemoryOwned
    OBVIOUS
  <2>1. ASSUME phase \in {"lex", "parse", "cmd", "fill"}, NEW w \in TokWords PROVE mem[w.mem] = "live"
    <3>1. w # NULL /\ \E t \in ToSet(toks) : w = t.value
      BY <2>1 DEF TokWords
    <3>2. w.mem = "lex"
      BY <3>1, ListIs DEF Owned, Tokens
    <3>3. QED
      BY <2>1, <3>2 DEF Owned, Control, ArenaOf, Arenas
  <2>2. ASSUME phase \notin {"done", "crashed"}, NEW w \in PlWords PROVE mem[w.mem] = "live"
    <3>1. w # NULL /\ \E c \in ToSet(pl) : w \in CmdWords(c)
      BY <2>2 DEF PlWords
    <3>2. PICK n \in 1 .. Len(pl) : w \in CmdWords(pl[n])
      BY <3>1, ListIs DEF Owned, Cmds
    <3>3. PICK c : c = pl[n]
      OBVIOUS
    <3>4. IsCmd(c)
      BY <3>2, <3>3 DEF Owned, Cmds
    <3>5. ASSUME NEW a, WordsIn(c, a) PROVE w.mem = a
      <4>1. \/ \E k \in 1 .. Len(c.argv) : w = c.argv[k]
            \/ \E k \in 1 .. Len(c.redirects) : w = c.redirects[k].target
        BY <3>2, <3>3, <3>4, ListIs DEF IsCmd, CmdWords
      <4>2. QED
        BY <3>1, <3>5, <4>1 DEF WordsIn
    <3>6. phase \notin {"lex", "parse"}
      BY <3>2, EmptyIs DEF Owned, Stages
    <3>7. CASE phase \in {"cmd", "fill"}
      <4>1. w.mem = "parse"
        BY <3>2, <3>3, <3>5, <3>7 DEF Owned, Stages
      <4>2. QED
        BY <3>7, <4>1 DEF Owned, Control, ArenaOf, Arenas
    <3>8. CASE phase = "expand"
      <4>1. w.mem \in {"exp", "parse"}
        BY <3>2, <3>3, <3>5, <3>8 DEF Owned, Stages
      <4>2. QED
        BY <3>8, <4>1 DEF Owned, Control, ArenaOf, Arenas
    <3>9. CASE phase = "exec"
      <4>1. w.mem = "exp"
        BY <3>2, <3>3, <3>5, <3>9 DEF Owned, Stages
      <4>2. QED
        BY <3>9, <4>1 DEF Owned, Control, ArenaOf, Arenas
    <3>10. QED
      BY <2>2, <3>6, <3>7, <3>8, <3>9 DEF Owned, Control
  <2>3. QED
    BY <2>1, <2>2 DEF Owned, Control, MemoryOwned
<1>2. QED
  BY <1>1, OwnedInductive, PTL

(* Only a failed allocation can end the process (parser_cmd.c:25). *)
THEOREM CrashOutOfMemory == Spec => [](phase = "crashed" => failed)
<1>1. Owned => (phase = "crashed" => failed)
  BY DEF Owned, Control
<1>2. QED
  BY <1>1, OwnedInductive, PTL

-----------------------------------------------------------------------------
(* count_argc's recursion, which ends at the end of the tokens. *)
CountAt(g, m) ==
    CASE TypeAt(m) \in {"end", "pipe"} -> 0
      [] TypeAt(m) = "word"            -> 1 + g[m + 1]
      [] OTHER                         -> IF TypeAt(m + 1) = "end" THEN 0 ELSE g[m + 2]

CountsFrom(g, l) == g \in [Nat -> Nat] /\ \A m \in Nat : m >= l => g[m] = CountAt(g, m)

(* What is right from token l + 1 on is made right at l: count_argc's recursion
   defines a function. *)
LEMMA CountsMore ==
  ASSUME NEW l \in Nat, NEW g, CountsFrom(g, l + 1)
  PROVE  \E h : CountsFrom(h, l)
<1>1. PICK x : x = CountAt(g, l)
  OBVIOUS
<1>2. x \in Nat
  <2>1. g[l + 1] \in Nat /\ g[l + 2] \in Nat
    BY DEF CountsFrom
  <2>2. QED
    BY <1>1, <2>1 DEF CountAt
<1>3. PICK h : h = [m \in Nat |-> IF m = l THEN x ELSE g[m]]
  OBVIOUS
<1>4. h \in [Nat -> Nat] /\ h[l] = x /\ \A m \in Nat : m > l => h[m] = g[m]
  BY <1>2, <1>3 DEF CountsFrom
<1>5. ASSUME NEW m \in Nat, m >= l PROVE h[m] = CountAt(h, m)
  <2>1. m + 1 \in Nat /\ m + 2 \in Nat /\ m + 1 > l /\ m + 2 > l
    BY <1>5
  <2>2. h[m + 1] = g[m + 1] /\ h[m + 2] = g[m + 2]
    BY <1>4, <2>1
  <2>3. CountAt(h, m) = CountAt(g, m)
    BY <2>2 DEF CountAt
  <2>4. CASE m = l
    BY <1>1, <1>4, <2>3, <2>4
  <2>5. CASE m >= l + 1
    <3>1. g[m] = CountAt(g, m)
      BY <2>5 DEF CountsFrom
    <3>2. h[m] = g[m]
      BY <1>4, <2>5
    <3>3. QED
      BY <2>3, <3>1, <3>2
  <2>6. QED
    BY <1>5, <2>4, <2>5
<1>6. QED
  BY <1>4, <1>5 DEF CountsFrom

(* There is a function that satisfies the recursion at every token. *)
LEMMA CountExists == ASSUME IsList(toks) PROVE \E g : CountsFrom(g, 0)
<1>1. PICK n : n = Len(toks) + 1
  OBVIOUS
<1>2. n \in Nat /\ DOMAIN toks = 1 .. n - 1
  BY <1>1, ListIs
<1>3. \E g : CountsFrom(g, n)
  <2>1. PICK z : z = [m \in Nat |-> 0]
    OBVIOUS
  <2>2. ASSUME NEW m \in Nat, m >= n PROVE CountAt(z, m) = 0 /\ z[m] = 0
    <3>1. m \notin DOMAIN toks
      BY <1>2, <2>2
    <3>2. QED
      BY <2>1, <3>1 DEF CountAt, TypeAt
  <2>3. z \in [Nat -> Nat]
    BY <2>1
  <2>4. QED
    BY <2>2, <2>3 DEF CountsFrom
<1> DEFINE S == {j \in 0 .. n : ~ \E g : CountsFrom(g, n - j)}
<1>4. ASSUME S # {} PROVE FALSE
  <2>1. S \in SUBSET Nat
    BY <1>2
  <2>2. PICK j \in S : \A k \in S : j <= k
    BY <1>4, <2>1, Least
  <2>3. j \in 0 .. n /\ ~ \E g : CountsFrom(g, n - j)
    BY <2>2
  <2>4. j # 0
    BY <1>2, <1>3, <2>3
  <2>5. j - 1 \in 0 .. n /\ j - 1 \notin S
    BY <1>2, <2>2, <2>3, <2>4
  <2>6. PICK g : CountsFrom(g, n - (j - 1))
    BY <2>5
  <2>7. n - j \in Nat /\ n - (j - 1) = (n - j) + 1
    BY <1>2, <2>3
  <2>8. \E h : CountsFrom(h, n - j)
    BY <2>6, <2>7, CountsMore
  <2>9. QED
    BY <2>3, <2>8
<1>5. n \notin S /\ n \in 0 .. n /\ n - n = 0
  BY <1>2, <1>4
<1>6. QED
  BY <1>5

(* count_argc is such a function, with values in Nat. *)
LEMMA CountIs ==
  ASSUME IsList(toks)
  PROVE  \E g : CountsFrom(g, 0) /\ \A k \in Nat : count_argc(k) = g[k]
<1> DEFINE Unfolds(f) == f = [m \in Nat |-> CountAt(f, m)]
           f0 == CHOOSE f : Unfolds(f)
<1>1. PICK g : CountsFrom(g, 0)
  BY CountExists
<1>2. Unfolds(g)
  <2>1. \A m \in Nat : m >= 0
    OBVIOUS
  <2>2. g \in [Nat -> Nat] /\ \A m \in Nat : g[m] = CountAt(g, m)
    BY <1>1, <2>1 DEF CountsFrom
  <2>3. QED
    BY <2>2
<1>3. Unfolds(f0)
  BY <1>2
<1>4. \A k : count_argc(k) = f0[k]
  BY DEF count_argc, CountAt
<1>5. PICK f : f = f0
  OBVIOUS
<1>6. \A m \in Nat : f[m] = CountAt(f, m)
  BY <1>3, <1>5
<1> HIDE DEF f0, Unfolds
<1>7. PICK n : n = Len(toks) + 1
  OBVIOUS
<1>8. n \in Nat /\ DOMAIN toks = 1 .. n - 1
  BY <1>7, ListIs
<1>9. \A m \in Nat : m >= n => f[m] = 0
  BY <1>6, <1>8 DEF CountAt, TypeAt
<1> DEFINE S == {j \in 0 .. n : f[n - j] \notin Nat}
<1>10. ASSUME S # {} PROVE FALSE
  <2>1. S \in SUBSET Nat
    BY <1>8
  <2>2. PICK j \in S : \A k \in S : j <= k
    BY <1>10, <2>1, Least
  <2>3. PICK m : m = n - j
    OBVIOUS
  <2>4. j \in 0 .. n /\ f[m] \notin Nat /\ m \in Nat /\ j \in Int
    BY <1>8, <2>2, <2>3
  <2>5. ASSUME NEW o \in Nat, o > m PROVE f[o] \in Nat
    <3>1. CASE o >= n
      BY <1>9, <3>1
    <3>2. CASE o < n
      <4>1. n - o \in 0 .. n /\ n - o < j /\ n - (n - o) = o
        BY <1>8, <2>3, <2>4, <2>5, <3>2
      <4>2. n - o \notin S
        BY <2>2, <2>4, <4>1
      <4>3. QED
        BY <4>1, <4>2
    <3>3. QED
      BY <1>8, <3>1, <3>2
  <2>6. m + 1 \in Nat /\ m + 1 > m /\ m + 2 \in Nat /\ m + 2 > m
    BY <2>4
  <2>7. f[m + 1] \in Nat /\ f[m + 2] \in Nat
    BY <2>5, <2>6
  <2>8. CountAt(f, m) \in Nat
    BY <2>7 DEF CountAt
  <2>9. QED
    BY <1>6, <2>4, <2>8
<1>11. ASSUME NEW m \in Nat PROVE f[m] \in Nat
  <2>1. CASE m >= n
    BY <1>9, <2>1
  <2>2. CASE m < n
    <3>1. n - m \in 0 .. n /\ n - (n - m) = m
      BY <1>8, <2>2
    <3>2. n - m \notin S
      BY <1>10
    <3>3. QED
      BY <3>1, <3>2
  <2>3. QED
    BY <1>8, <2>1, <2>2
<1>12. CountsFrom(f, 0)
  <2>1. f = [m \in Nat |-> CountAt(f, m)]
    BY <1>3, <1>5 DEF Unfolds
  <2>2. f \in [Nat -> Nat]
    BY <1>11, <2>1
  <2>3. QED
    BY <1>6, <2>2 DEF CountsFrom
<1>13. QED
  BY <1>4, <1>5, <1>12

(* One step of count_argc, by the type of the token it is at. *)
LEMMA CountUnfolds ==
  ASSUME IsList(toks), NEW k \in Nat
  PROVE  /\ count_argc(k) \in Nat
         /\ TypeAt(k) \in {"end", "pipe"} => count_argc(k) = 0
         /\ TypeAt(k) = "word" => count_argc(k) = 1 + count_argc(k + 1)
         /\ TypeAt(k) \notin {"end", "pipe", "word"} /\ TypeAt(k + 1) # "end" => count_argc(k) = count_argc(k + 2)
<1>1. PICK g : CountsFrom(g, 0) /\ \A m \in Nat : count_argc(m) = g[m]
  BY CountIs
<1>2. count_argc(k) = g[k] /\ count_argc(k + 1) = g[k + 1] /\ count_argc(k + 2) = g[k + 2]
  BY <1>1
<1>3. g[k] \in Nat /\ g[k] = CountAt(g, k)
  BY <1>1 DEF CountsFrom
<1>4. QED
  BY <1>2, <1>3 DEF CountAt

-----------------------------------------------------------------------------
(* The room that is left is what count_argc would still count. *)
Room ==
    /\ phase \in {"parse", "cmd", "fill"} => i \in Nat
    /\ \A n \in 1 .. Len(pl) :
          /\ pl[n].argc \in Nat /\ Len(pl[n].argv) <= pl[n].argc
          /\ phase \in {"cmd", "expand"} \/ (phase = "fill" /\ n # last) => Len(pl[n].argv) = pl[n].argc
    /\ phase = "fill" => Len(pl[last].argv) + count_argc(i) = pl[last].argc

(* What fill_cmd writes is what count_argc has counted: the words still to come
   and the words there are together are argc. *)
LEMMA RoomNext ==
  ASSUME Owned, Room, [Next]_vars
  PROVE  Room'
<1>1. IsList(pl) /\ Len(pl) \in Nat /\ IsList(toks)
  BY ListIs DEF Owned, Cmds, Tokens
<1>2. \A n \in 1 .. Len(pl) : Len(pl[n].argv) \in Nat
  BY ListIs DEF Owned, Cmds, IsCmd
<1>3. UNCHANGED toks => \A k : count_argc(k)' = count_argc(k)
  BY DEF count_argc, TypeAt
<1>4. CASE UNCHANGED pl /\ phase' \in {"done", "crashed", "exec"}
  BY <1>4 DEF Room
<1>5. CASE phase' \in {"lex", "parse"} /\ UNCHANGED pl /\ (phase' = "parse" => i' \in Nat)
  BY <1>5 DEF Room
<1>6. CASE UNCHANGED vars
  BY <1>3, <1>6 DEF Room, vars, last
<1>7. CASE lex_op \/ lex_word \/ lex_line_end
  <2>1. CASE lex_op
    BY <1>5, <2>1 DEF lex_op
  <2>2. CASE lex_word
    BY <1>4, <1>5, <2>2 DEF lex_word, LexError, Stop
  <2>3. CASE lex_line_end
    BY <1>5, <2>3 DEF lex_line_end
  <2>4. QED
    BY <1>7, <2>1, <2>2, <2>3
<1>8. CASE parse_pipeline
  <2>1. CASE phase' = "cmd"
    <3>1. pl' = <<>> /\ Len(pl') = 0 /\ i' \in Nat
      BY <1>8, <2>1, EmptyIs DEF parse_pipeline, Owned, Stages, Room
    <3>2. QED
      BY <2>1, <3>1 DEF Room
  <2>2. QED
    BY <1>4, <1>8, <2>1 DEF parse_pipeline, ParseError, Stop
<1>9. CASE parse_one
  <2>1. CASE phase' = "fill" /\ UNCHANGED <<i, toks, e, failed>> /\ pl' = Append(pl, Begun(count_argc(i)))
    <3>1. /\ Len(pl') = Len(pl) + 1
          /\ \A m \in 1 .. Len(pl) : pl'[m] = pl[m]
          /\ pl'[Len(pl) + 1] = Begun(count_argc(i))
      BY <2>1, CmdBegun DEF Owned
    <3>2. phase = "cmd" /\ i \in Nat
      BY <1>9 DEF parse_one, Room
    <3>3. PICK d : d = Begun(count_argc(i))
      OBVIOUS
    <3>4. Len(d.argv) = 0 /\ d.argc = count_argc(i) /\ count_argc(i) \in Nat
      BY <1>1, <3>2, <3>3, CountUnfolds, EmptyIs DEF Begun
    <3>5. last' = Len(pl) + 1 /\ count_argc(i)' = count_argc(i)
      BY <1>3, <2>1, <3>1 DEF last, count_argc, TypeAt
    <3>6. ASSUME NEW n \in 1 .. Len(pl')
          PROVE  /\ pl'[n].argc \in Nat /\ Len(pl'[n].argv) <= pl'[n].argc
                 /\ n # last' => Len(pl'[n].argv) = pl'[n].argc
      <4>1. CASE n \in 1 .. Len(pl)
        BY <3>1, <3>2, <4>1 DEF Room
      <4>2. CASE n = Len(pl) + 1
        BY <3>1, <3>3, <3>4, <3>5, <4>2
      <4>3. QED
        BY <1>1, <3>1, <4>1, <4>2
    <3>7. Len(pl'[last'].argv) + count_argc(i)' = pl'[last'].argc
      BY <3>1, <3>3, <3>4, <3>5
    <3>8. QED
      BY <2>1, <3>2, <3>6, <3>7 DEF Room
  <2>2. QED
    BY <1>4, <1>9, <2>1, ParseOneIs
<1>10. CASE fill_word
  <2>1. PICK w : /\ phase = "fill" /\ last \in 1 .. Len(pl) /\ IsCmd(pl[last])
                 /\ Len(pl') = Len(pl)
                 /\ \A m \in 1 .. Len(pl) : m # last => pl'[m] = pl[m]
                 /\ pl'[last] = [argv |-> Append(pl[last].argv, w), argc |-> pl[last].argc, redirects |-> pl[last].redirects]
                 /\ TypeAt(i) = "word" /\ i' = i + 1 /\ UNCHANGED <<toks, phase, e>>
    BY <1>10, FillWordIs DEF Owned, Control
  <2>2. PICK c, d : c = pl[last] /\ d = pl'[last]
    OBVIOUS
  <2>3. IsList(c.argv) /\ d.argv = Append(c.argv, w) /\ d.argc = c.argc
    BY <2>1, <2>2 DEF IsCmd
  <2>4. Len(d.argv) = Len(c.argv) + 1 /\ Len(c.argv) \in Nat
    BY <2>3, AppendList, ListIs
  <2>5. i \in Nat /\ i + 1 \in Nat /\ count_argc(i) = 1 + count_argc(i + 1) /\ count_argc(i + 1) \in Nat
    <3>1. i \in Nat /\ i + 1 \in Nat
      BY <2>1 DEF Room
    <3>2. QED
      BY <1>1, <2>1, <3>1, CountUnfolds
  <2>6. Len(c.argv) + count_argc(i) = c.argc /\ c.argc \in Nat
    BY <2>1, <2>2 DEF Room
  <2>7. PICK j : j = i + 1
    OBVIOUS
  <2>8. count_argc(i)' = count_argc(j)
    BY <2>1, <2>7 DEF count_argc, TypeAt
  <2>9. last' = last
    BY <2>1 DEF last
  <2>10. Len(d.argv) + count_argc(j) = d.argc /\ Len(d.argv) <= d.argc /\ d.argc \in Nat
    BY <2>3, <2>4, <2>5, <2>6, <2>7
  <2>11. \A n \in 1 .. Len(pl) :
            /\ pl'[n].argc \in Nat /\ Len(pl'[n].argv) <= pl'[n].argc
            /\ n # last => Len(pl'[n].argv) = pl'[n].argc
    BY <2>1, <2>2, <2>10 DEF Room
  <2>12. QED
    BY <2>1, <2>2, <2>5, <2>8, <2>9, <2>10, <2>11 DEF Room
<1>11. CASE fill_redirect
  <2>1. ASSUME NEW x,
               phase = "fill", last \in 1 .. Len(pl), IsCmd(pl[last]),
               Len(pl') = Len(pl),
               \A m \in 1 .. Len(pl) : m # last => pl'[m] = pl[m],
               pl'[last] = [argv |-> pl[last].argv, argc |-> pl[last].argc, redirects |-> Append(pl[last].redirects, x)],
               TypeAt(i) \in RedirTypes, TypeAt(i + 1) = "word", i' = i + 2, UNCHANGED <<toks, phase, e>>
        PROVE  Room'
    <3>1. i \in Nat /\ i + 2 \in Nat /\ count_argc(i) = count_argc(i + 2)
      <4>1. i \in Nat /\ i + 2 \in Nat
        BY <2>1 DEF Room
      <4>2. QED
        BY <1>1, <2>1, <4>1, CountUnfolds DEF RedirTypes
    <3>2. PICK j : j = i + 2
      OBVIOUS
    <3>3. count_argc(i)' = count_argc(j) /\ last' = last
      BY <2>1, <3>2 DEF count_argc, TypeAt, last
    <3>4. \A n \in 1 .. Len(pl) : pl'[n].argv = pl[n].argv /\ pl'[n].argc = pl[n].argc
      BY <2>1
    <3>5. \A n \in 1 .. Len(pl) :
            /\ pl'[n].argc \in Nat /\ Len(pl'[n].argv) <= pl'[n].argc
            /\ n # last => Len(pl'[n].argv) = pl'[n].argc
      BY <2>1, <3>4 DEF Room
    <3>6. Len(pl'[last].argv) + count_argc(j) = pl'[last].argc
      BY <2>1, <3>1, <3>2, <3>4 DEF Room
    <3>7. QED
      BY <2>1, <3>1, <3>3, <3>5, <3>6 DEF Room
  <2>2. QED
    BY <1>4, <1>11, <2>1, FillRedirectIs DEF Owned, Control
<1>12. CASE parse_cmds
  <2>1. phase = "fill" /\ UNCHANGED pl /\ i \in Nat /\ i' \in Nat
    BY <1>12 DEF parse_cmds, Room
  <2>2. CASE phase' \in {"cmd", "expand"}
    <3>1. count_argc(i) = 0
      BY <1>1, <1>12, <2>1, CountUnfolds DEF parse_cmds
    <3>2. last \in 1 .. Len(pl)
      BY <1>1, <2>1 DEF Owned, Stages, last
    <3>3. Len(pl[last].argv) = pl[last].argc
      BY <1>2, <2>1, <3>1, <3>2 DEF Room
    <3>4. \A n \in 1 .. Len(pl) : Len(pl[n].argv) = pl[n].argc /\ pl[n].argc \in Nat /\ Len(pl[n].argv) <= pl[n].argc
      BY <2>1, <3>3 DEF Room
    <3>5. QED
      BY <2>1, <2>2, <3>4 DEF Room
  <2>3. QED
    BY <1>4, <1>12, <2>1, <2>2 DEF parse_cmds, ParseError, Stop
<1>13. CASE expand_cmd
  <2>1. ASSUME NEW d, IsCmd(d), d.argc = Len(d.argv), phase = "expand", Len(pl') = Len(pl),
               \A m \in 1 .. Len(pl) : pl'[m] = IF m = e THEN d ELSE pl[m],
               UNCHANGED phase
        PROVE  Room'
    <3>1. d.argc \in Nat
      BY <2>1, ListIs DEF IsCmd
    <3>2. \A n \in 1 .. Len(pl) : pl'[n].argc \in Nat /\ Len(pl'[n].argv) <= pl'[n].argc /\ Len(pl'[n].argv) = pl'[n].argc
      BY <2>1, <3>1 DEF Room
    <3>3. QED
      BY <2>1, <3>2 DEF Room
  <2>2. QED
    BY <1>4, <1>13, <2>1, ExpandCmdIs DEF Owned, Control
<1>14. CASE expand_pipeline_end \/ exec_pipeline
  BY <1>4, <1>14 DEF expand_pipeline_end, exec_pipeline
<1>15. QED
  BY <1>6, <1>7, <1>8, <1>9, <1>10, <1>11, <1>12, <1>13, <1>14 DEF Next, Over

(* fill_cmd never writes past what count_argc asked for (parser_cmd.c:65). *)
THEOREM ArgvHasRoom == Spec => []ArgvFits
<1>1. Init => Room
  BY EmptyIs DEF Init, Room
<1>2. Owned /\ Room /\ [Next]_vars => Room'
  BY RoomNext
<1>3. Owned /\ Room => ArgvFits
  <2> SUFFICES ASSUME Owned, Room PROVE ArgvFits
    OBVIOUS
  <2>1. Len(pl) \in Nat /\ DOMAIN pl = 1 .. Len(pl)
    BY ListIs DEF Owned, Cmds
  <2>2. QED
    BY <2>1 DEF Room, ArgvFits, last
<1>4. QED
  BY <1>1, <1>2, <1>3, OwnedInductive, PTL DEF Spec

-----------------------------------------------------------------------------
(* The parser against the grammar: what it has accepted up to its position,
   and that it has met as many pipes as it has commands. *)
GoodAt(k) == /\ TypeAt(k) = "pipe" => k > 1 /\ TypeAt(k + 1) \notin {"pipe", "end"}
             /\ TypeAt(k) \in RedirTypes => TypeAt(k + 1) = "word"

PipeSet(j) == {k \in 1 .. j : toks[k].type = "pipe"}
Pipes(j)   == Cardinality(PipeSet(j))

Refused == phase = "done" /\ mem["parse"] # "none" /\ code = 2 /\ ~ failed => ~ Grammatical

Parsed ==
    /\ phase = "parse" => i = 1
    /\ phase \in {"cmd", "fill"} => i \in 1 .. Len(toks) + 1 /\ TypeAt(1) \notin {"pipe", "end"}
    /\ phase = "cmd"  => /\ \A k \in 1 .. i - 2 : GoodAt(k)
                         /\ TypeAt(i) # "end" /\ (i > 1 => TypeAt(i - 1) = "pipe")
                         /\ Len(pl) = Pipes(i - 1)
    /\ phase = "fill" => /\ \A k \in 1 .. i - 1 : GoodAt(k)
                         /\ Len(pl) = Pipes(i - 1) + 1
    /\ phase \in {"expand", "exec"} => Grammatical
    /\ Refused

(* The type of the token at a position, which is "end" only behind the last. *)
LEMMA TypeAtIs ==
  ASSUME Tokens, NEW k
  PROVE  /\ TypeAt(k) = "end" <=> k \notin 1 .. Len(toks)
         /\ k \in 1 .. Len(toks) => TypeAt(k) = toks[k].type
         /\ Len(toks) \in Nat /\ DOMAIN toks = 1 .. Len(toks)
<1>1. Len(toks) \in Nat /\ DOMAIN toks = 1 .. Len(toks)
  BY ListIs DEF Tokens
<1>2. k \in 1 .. Len(toks) => toks[k].type # "end"
  BY DEF Tokens, Types, RedirTypes
<1>3. QED
  BY <1>1, <1>2 DEF TypeAt

(* The pipes among the first j tokens, one token at a time. *)
LEMMA PipesAre ==
  ASSUME NEW j \in Nat
  PROVE  /\ IsFiniteSet(PipeSet(j)) /\ Pipes(j) \in Nat /\ Pipes(0) = 0
         /\ toks[j + 1].type = "pipe" => Pipes(j + 1) = Pipes(j) + 1
         /\ toks[j + 1].type # "pipe" => Pipes(j + 1) = Pipes(j)
<1>1. IsFiniteSet(1 .. j)
  BY FS_Interval
<1>2. PipeSet(j) \in SUBSET (1 .. j)
  BY DEF PipeSet
<1>3. IsFiniteSet(PipeSet(j))
  BY <1>1, <1>2, FS_Subset
<1>4. Pipes(j) \in Nat
  BY <1>3, FS_CardinalityType DEF Pipes
<1>5. Pipes(0) = 0
  <2>1. PipeSet(0) = {}
    BY DEF PipeSet
  <2>2. QED
    BY <2>1, FS_EmptySet DEF Pipes
<1>6. ASSUME toks[j + 1].type = "pipe" PROVE Pipes(j + 1) = Pipes(j) + 1
  <2>1. PipeSet(j + 1) = PipeSet(j) \cup {j + 1} /\ j + 1 \notin PipeSet(j)
    BY <1>6 DEF PipeSet
  <2>2. QED
    BY <1>3, <2>1, FS_AddElement DEF Pipes
<1>7. ASSUME toks[j + 1].type # "pipe" PROVE Pipes(j + 1) = Pipes(j)
  <2>1. PipeSet(j + 1) = PipeSet(j)
    BY <1>7 DEF PipeSet
  <2>2. QED
    BY <2>1 DEF Pipes
<1>8. QED
  BY <1>3, <1>4, <1>5, <1>6, <1>7

(* Before a pipe there are fewer pipes than in the line. *)
LEMMA CountPipes ==
  ASSUME Tokens
  PROVE  /\ count = Pipes(Len(toks)) + 1
         /\ \A j \in 1 .. Len(toks) : toks[j].type = "pipe" => Pipes(j - 1) < Pipes(Len(toks))
<1>1. Len(toks) \in Nat /\ DOMAIN toks = 1 .. Len(toks)
  BY TypeAtIs
<1>2. count = Pipes(Len(toks)) + 1
  BY <1>1 DEF count, Pipes, PipeSet
<1>3. ASSUME NEW j \in 1 .. Len(toks), toks[j].type = "pipe" PROVE Pipes(j - 1) < Pipes(Len(toks))
  <2>1. PICK S, T : S = PipeSet(Len(toks)) /\ T = PipeSet(j - 1)
    OBVIOUS
  <2>2. T \in SUBSET S /\ j \in S /\ j \notin T
    BY <1>1, <1>3, <2>1 DEF PipeSet
  <2>3. IsFiniteSet(S)
    BY <1>1, <2>1, PipesAre
  <2>4. Cardinality(T) <= Cardinality(S) /\ Cardinality(S) # Cardinality(T)
    BY <2>2, <2>3, FS_Subset
  <2>5. Cardinality(S) \in Nat /\ Cardinality(T) \in Nat
    <3>1. j - 1 \in Nat
      BY <1>1
    <3>2. QED
      BY <1>1, <2>1, <3>1, PipesAre DEF Pipes
  <2>6. QED
    BY <2>1, <2>4, <2>5 DEF Pipes
<1>4. QED
  BY <1>2, <1>3

(* A line is grammatical when every one of its tokens is good where it stands. *)
LEMMA GrammarIs ==
  ASSUME Tokens
  PROVE  Grammatical <=> Len(toks) > 0 /\ \A k \in 1 .. Len(toks) : GoodAt(k)
<1>1. Len(toks) \in Nat /\ DOMAIN toks = 1 .. Len(toks) /\ \A k \in 1 .. Len(toks) : TypeAt(k) = toks[k].type
  BY TypeAtIs
<1>2. toks # <<>> <=> Len(toks) > 0
  <2>1. toks = <<>> => Len(toks) = 0
    BY EmptyIs
  <2>2. toks # <<>> => Len(toks) \in Nat \ {0}
    <3>1. PICK S : toks \in Seq(S)
      BY DEF Tokens, IsList
    <3>2. QED
      BY <3>1, EmptySeq
  <2>3. QED
    BY <1>1, <2>1, <2>2
<1>3. QED
  BY <1>1, <1>2 DEF Grammatical, GoodAt

(* How a step of the parser's leaves what it looks at. *)
LEMMA ParsedStays ==
  ASSUME UNCHANGED toks
  PROVE  /\ Grammatical' = Grammatical /\ TypeAt(1)' = TypeAt(1)
         /\ \A k : GoodAt(k)' = GoodAt(k) /\ Pipes(k)' = Pipes(k)
  BY DEF Grammatical, TypeAt, GoodAt, Pipes, PipeSet

(* Every step of the parser keeps what it has accepted good, and refuses only at
   a token that is not. *)
LEMMA ParsedNext ==
  ASSUME Owned, Parsed, [Next]_vars
  PROVE  Parsed'
<1>1. Tokens /\ Control /\ Len(pl) \in Nat /\ Len(toks) \in Nat
  BY ListIs, TypeAtIs DEF Owned, Cmds
<1>2. failed \in BOOLEAN /\ (failed => failed')
  BY FailedStays DEF Owned, Control
<1>3. CASE UNCHANGED vars
  BY <1>3 DEF vars, Parsed, GoodAt, TypeAt, Pipes, PipeSet, Refused, Grammatical
<1>4. ASSUME phase' = "done", UNCHANGED toks, failed' \/ code' # 2 \/ ~ Grammatical PROVE Parsed'
  BY <1>4, ParsedStays DEF Parsed, Refused
<1>5. phase' = "crashed" => Parsed'
  BY DEF Parsed, Refused
<1>6. CASE lex_op
  BY <1>6 DEF lex_op, Parsed, Refused
<1>7. CASE lex_word
  <2>1. phase = "lex" /\ mem["parse"] = "none"
    BY <1>1, <1>7 DEF lex_word, Control, ArenaOf, Arenas
  <2>2. CASE LexError
    <3>1. mem'["parse"] = "none" /\ phase' = "done"
      BY <2>1, <2>2 DEF LexError, Stop, Free, Arenas
    <3>2. QED
      BY <3>1 DEF Parsed, Refused
  <2>3. CASE UNCHANGED phase
    BY <2>1, <2>3 DEF Parsed, Refused
  <2>4. QED
    BY <1>7, <2>2, <2>3 DEF lex_word
<1>8. CASE lex_line_end
  BY <1>8 DEF lex_line_end, Parsed, Refused
<1>9. CASE parse_pipeline
  <2>1. phase = "parse" /\ i = 1 /\ UNCHANGED <<toks, i, pl>>
    BY <1>9 DEF parse_pipeline, Parsed
  <2>2. CASE TypeAt(1) \in {"end", "pipe"}
    <3>1. ~ Grammatical
      <4>1. CASE TypeAt(1) = "end"
        BY <1>1, <4>1, TypeAtIs, GrammarIs
      <4>2. CASE TypeAt(1) = "pipe"
        <5>1. ~ GoodAt(1)
          BY <4>2 DEF GoodAt
        <5>2. 1 \in 1 .. Len(toks)
          BY <1>1, <4>2, TypeAtIs
        <5>3. QED
          BY <1>1, <5>1, <5>2, GrammarIs
      <4>3. QED
        BY <2>2, <4>1, <4>2
    <3>2. phase' = "done"
      BY <1>9, <2>2 DEF parse_pipeline, ParseError, Stop
    <3>3. QED
      BY <1>4, <2>1, <3>1, <3>2
  <2>3. CASE TypeAt(1) \notin {"end", "pipe"} /\ phase' = "cmd"
    <3>1. Len(pl) = 0 /\ Pipes(0) = 0
      BY <2>1, EmptyIs, PipesAre DEF Owned, Stages
    <3>2. TypeAt(1)' \notin {"pipe", "end"} /\ TypeAt(i)' # "end" /\ i' = 1
      BY <2>1, <2>3 DEF TypeAt
    <3>3. Pipes(i - 1)' = 0 /\ Len(pl') = 0
      BY <2>1, <3>1 DEF Pipes, PipeSet
    <3>4. i' \in 1 .. Len(toks') + 1
      BY <1>1, <2>1
    <3>5. \A k \in 1 .. i' - 2 : FALSE
      BY <2>1
    <3>6. QED
      BY <2>3, <3>2, <3>3, <3>4, <3>5 DEF Parsed, Refused
  <2>4. CASE NoMemory /\ ParseError(0)
    BY <1>4, <2>1, <2>4 DEF NoMemory, ParseError, Stop
  <2>5. QED
    BY <1>9, <2>2, <2>3, <2>4 DEF parse_pipeline
<1>10. CASE parse_one
  <2>1. /\ phase = "cmd" /\ UNCHANGED <<i, toks>>
        /\ i \in 1 .. Len(toks) + 1 /\ TypeAt(1) \notin {"pipe", "end"}
        /\ \A k \in 1 .. i - 2 : GoodAt(k)
        /\ TypeAt(i) # "end" /\ (i > 1 => TypeAt(i - 1) = "pipe")
        /\ Len(pl) = Pipes(i - 1)
    BY <1>10 DEF parse_one, Parsed
  <2>2. CASE TypeAt(i) = "pipe"
    <3>1. i > 1 /\ TypeAt(i - 1) = "pipe"
      BY <2>1, <2>2
    <3>2. i - 1 \in 1 .. Len(toks) /\ (i - 1) + 1 = i
      BY <1>1, <2>1, <3>1
    <3>3. ~ GoodAt(i - 1)
      BY <2>2, <3>1, <3>2 DEF GoodAt
    <3>4. ~ Grammatical
      BY <1>1, <3>2, <3>3, GrammarIs
    <3>5. phase' = "done"
      BY <1>10, <2>2 DEF parse_one, ParseError, Stop
    <3>6. QED
      BY <1>4, <2>1, <3>4, <3>5
  <2>3. CASE TypeAt(i) # "pipe" /\ phase' = "fill" /\ UNCHANGED failed /\ pl' = Append(pl, Begun(count_argc(i)))
    <3>1. Len(pl') = Pipes(i - 1) + 1
      BY <2>1, <2>3, CmdBegun DEF Owned
    <3>2. ASSUME NEW k \in 1 .. i - 1 PROVE GoodAt(k)
      <4>1. CASE k \in 1 .. i - 2
        BY <2>1, <4>1
      <4>2. CASE k = i - 1
        <5>1. i > 1 /\ TypeAt(k) = "pipe" /\ k + 1 = i /\ k # 1 /\ k > 1
          BY <2>1, <4>2, <1>1
        <5>2. QED
          BY <2>1, <2>3, <5>1 DEF GoodAt, RedirTypes
      <4>3. QED
        BY <1>1, <2>1, <4>1, <4>2
    <3>3. Pipes(i - 1)' = Pipes(i - 1) /\ TypeAt(1)' = TypeAt(1) /\ \A k : GoodAt(k)' = GoodAt(k)
      BY <2>1 DEF Pipes, PipeSet, GoodAt, TypeAt
    <3>4. QED
      BY <2>1, <2>3, <3>1, <3>2, <3>3 DEF Parsed, Refused
  <2>4. CASE NoMemory /\ ParseError(2)
    BY <1>4, <2>1, <2>4 DEF NoMemory, ParseError, Stop
  <2>5. QED
    BY <1>10, <2>2, <2>3, <2>4 DEF parse_one, Begun
<1>11. phase = "fill" =>
         /\ i \in 1 .. Len(toks) + 1 /\ TypeAt(1) \notin {"pipe", "end"}
         /\ \A k \in 1 .. i - 1 : GoodAt(k)
         /\ Len(pl) = Pipes(i - 1) + 1
  BY DEF Parsed
<1>12. CASE fill_word
  <2>1. /\ phase = "fill" /\ UNCHANGED <<toks, phase>> /\ TypeAt(i) = "word" /\ i' = i + 1 /\ Len(pl') = Len(pl)
    BY <1>12, FillWordIs DEF Owned, Control
  <2>2. i \in 1 .. Len(toks) /\ toks[i].type = "word"
    BY <1>1, <2>1, TypeAtIs
  <2>3. PICK j : j = i + 1
    OBVIOUS
  <2>4. Pipes(j - 1) = Pipes(i - 1) /\ j \in 1 .. Len(toks) + 1
    <3>1. i - 1 \in Nat /\ (i - 1) + 1 = i /\ j - 1 = i /\ j \in 1 .. Len(toks) + 1
      BY <1>1, <2>2, <2>3
    <3>2. QED
      BY <2>2, <3>1, PipesAre
  <2>5. ASSUME NEW k \in 1 .. j - 1 PROVE GoodAt(k)
    <3>1. k \in 1 .. i - 1 \/ k = i
      BY <1>1, <2>2, <2>3
    <3>2. GoodAt(i)
      BY <2>1 DEF GoodAt, RedirTypes
    <3>3. QED
      BY <1>11, <2>1, <3>1, <3>2
  <2>6. Pipes(j - 1)' = Pipes(j - 1) /\ TypeAt(1)' = TypeAt(1) /\ \A k : GoodAt(k)' = GoodAt(k)
    BY <2>1 DEF Pipes, PipeSet, GoodAt, TypeAt
  <2>7. i' = j /\ Pipes(i - 1)' = Pipes(j - 1)'
    BY <2>1, <2>3 DEF Pipes, PipeSet
  <2>8. QED
    BY <1>11, <2>1, <2>4, <2>5, <2>6, <2>7 DEF Parsed, Refused
<1>13. CASE fill_redirect
  <2>1. CASE /\ phase = "fill" /\ UNCHANGED <<toks, phase>> /\ TypeAt(i) \in RedirTypes /\ TypeAt(i + 1) = "word"
             /\ i' = i + 2 /\ Len(pl') = Len(pl)
    <3>1. i \in 1 .. Len(toks) /\ toks[i].type # "pipe"
      BY <1>1, <2>1, TypeAtIs DEF RedirTypes
    <3>2. i + 1 \in 1 .. Len(toks) /\ toks[i + 1].type = "word"
      BY <1>1, <2>1, TypeAtIs
    <3>3. PICK j : j = i + 2
      OBVIOUS
    <3>4. Pipes(j - 1) = Pipes(i - 1) /\ j \in 1 .. Len(toks) + 1
      <4>1. i - 1 \in Nat /\ (i - 1) + 1 = i /\ j - 1 = i + 1 /\ i \in Nat /\ j \in 1 .. Len(toks) + 1
        BY <1>1, <3>1, <3>2, <3>3
      <4>2. Pipes(i) = Pipes(i - 1)
        BY <3>1, <4>1, PipesAre
      <4>3. Pipes(i + 1) = Pipes(i)
        BY <3>2, <4>1, PipesAre
      <4>4. QED
        BY <4>1, <4>2, <4>3
    <3>5. ASSUME NEW k \in 1 .. j - 1 PROVE GoodAt(k)
      <4>1. k \in 1 .. i - 1 \/ k = i \/ k = i + 1
        BY <1>1, <3>1, <3>3
      <4>2. GoodAt(i) /\ GoodAt(i + 1)
        BY <2>1 DEF GoodAt, RedirTypes
      <4>3. QED
        BY <1>11, <2>1, <4>1, <4>2
    <3>6. Pipes(j - 1)' = Pipes(j - 1) /\ TypeAt(1)' = TypeAt(1) /\ \A k : GoodAt(k)' = GoodAt(k)
      BY <2>1 DEF Pipes, PipeSet, GoodAt, TypeAt
    <3>7. i' = j /\ Pipes(i - 1)' = Pipes(j - 1)'
      BY <2>1, <3>3 DEF Pipes, PipeSet
    <3>8. QED
      BY <1>11, <2>1, <3>4, <3>5, <3>6, <3>7 DEF Parsed, Refused
  <2>2. CASE TypeAt(i + 1) # "word" /\ ParseError(2)
    <3>1. phase = "fill" /\ TypeAt(i) \in RedirTypes /\ UNCHANGED toks
      BY <1>13 DEF fill_redirect
    <3>2. i \in 1 .. Len(toks) /\ ~ GoodAt(i)
      BY <1>1, <2>2, <3>1, TypeAtIs DEF GoodAt, RedirTypes
    <3>3. ~ Grammatical
      BY <1>1, <3>2, GrammarIs
    <3>4. QED
      BY <1>4, <2>2, <3>1, <3>3 DEF ParseError, Stop
  <2>3. CASE NoMemory /\ ParseError(2)
    BY <1>4, <1>13, <2>3 DEF NoMemory, ParseError, Stop, fill_redirect
  <2>4. CASE Crash
    BY <1>5, <2>4 DEF Crash
  <2>5. QED
    <3>1. \/ UNCHANGED pl /\ phase' \in {"done", "crashed"}
          \/ /\ phase = "fill" /\ UNCHANGED <<toks, phase>> /\ TypeAt(i) \in RedirTypes /\ TypeAt(i + 1) = "word"
             /\ i' = i + 2 /\ Len(pl') = Len(pl)
      BY <1>13, FillRedirectIs DEF Owned, Control
    <3>2. phase = "fill"
      BY <1>13 DEF fill_redirect
    <3>3. \/ TypeAt(i + 1) # "word" /\ ParseError(2)
          \/ NoMemory /\ ParseError(2)
          \/ Crash
          \/ UNCHANGED phase
      BY <1>13 DEF fill_redirect
    <3>4. QED
      BY <2>1, <2>2, <2>3, <2>4, <3>1, <3>2, <3>3
<1>14. CASE parse_cmds
  <2>1. phase = "fill" /\ UNCHANGED <<toks, pl>> /\ TypeAt(i) \in {"pipe", "end"} /\ last = Len(pl)
    BY <1>14 DEF parse_cmds, last
  <2>2. i \in 1 .. Len(toks) + 1 /\ i - 1 \in Nat
    BY <1>1, <1>11, <2>1
  <2>3. CASE TypeAt(i) = "end"
    <3>1. i = Len(toks) + 1 /\ i - 1 = Len(toks)
      BY <1>1, <2>2, <2>3, TypeAtIs
    <3>2. last = count
      BY <1>1, <1>11, <2>1, <3>1, CountPipes
    <3>3. phase' = "expand"
      BY <1>14, <2>3, <3>2, <2>1, <1>1 DEF parse_cmds
    <3>4. 1 \in 1 .. Len(toks)
      BY <1>1, <1>11, <2>1, TypeAtIs
    <3>5. Grammatical
      BY <1>1, <1>11, <2>1, <3>1, <3>4, GrammarIs
    <3>6. QED
      BY <2>1, <3>3, <3>5, ParsedStays DEF Parsed, Refused
  <2>4. CASE TypeAt(i) = "pipe"
    <3>1. i \in 1 .. Len(toks) /\ toks[i].type = "pipe"
      BY <1>1, <2>2, <2>4, TypeAtIs
    <3>2. last < count
      <4>1. Pipes(i - 1) \in Nat /\ Pipes(Len(toks)) \in Nat
        BY <1>1, <2>2, PipesAre
      <4>2. Pipes(i - 1) < Pipes(Len(toks))
        BY <1>1, <3>1, CountPipes
      <4>3. count = Pipes(Len(toks)) + 1 /\ last = Pipes(i - 1) + 1
        BY <1>1, <1>11, <2>1, CountPipes
      <4>4. QED
        BY <4>1, <4>2, <4>3
    <3>3. count \in Nat
      BY <1>1, PipesAre, CountPipes
    <3>4. CASE TypeAt(i + 1) = "end"
      <4>1. ~ GoodAt(i)
        BY <2>4, <3>4 DEF GoodAt
      <4>2. ~ Grammatical
        BY <1>1, <3>1, <4>1, GrammarIs
      <4>3. phase' = "done"
        BY <1>14, <1>1, <2>1, <2>4, <3>2, <3>3, <3>4 DEF parse_cmds, ParseError, Stop
      <4>4. QED
        BY <1>4, <2>1, <4>2, <4>3
    <3>5. CASE TypeAt(i + 1) # "end"
      <4>1. phase' = "cmd" /\ i' = i + 1
        BY <1>14, <1>1, <2>1, <2>4, <3>2, <3>3, <3>5 DEF parse_cmds
      <4>2. PICK j : j = i + 1
        OBVIOUS
      <4>3. j - 1 = i /\ j - 2 = i - 1 /\ i + 1 \in 1 .. Len(toks) + 1 /\ (i - 1) + 1 = i
        BY <1>1, <3>1, <4>2
      <4>4. Pipes(j - 1) = Len(pl)
        BY <1>11, <2>1, <2>2, <3>1, <4>3, PipesAre
      <4>5. i' = j /\ Pipes(i - 1)' = Pipes(j - 1) /\ TypeAt(1)' = TypeAt(1) /\ TypeAt(i)' = TypeAt(j) /\ TypeAt(i - 1)' = TypeAt(j - 1)
        BY <2>1, <4>1, <4>2 DEF Pipes, PipeSet, TypeAt
      <4>6. \A k : GoodAt(k)' = GoodAt(k)
        BY <2>1 DEF GoodAt, TypeAt
      <4>7. \A k \in 1 .. j - 2 : GoodAt(k)
        BY <1>11, <2>1, <4>3
      <4>8. QED
        BY <1>11, <2>1, <2>4, <3>5, <4>1, <4>2, <4>3, <4>4, <4>5, <4>6, <4>7 DEF Parsed, Refused
    <3>6. QED
      BY <3>4, <3>5
  <2>5. QED
    BY <2>1, <2>3, <2>4
<1>15. CASE expand_cmd
  <2>1. phase = "expand" /\ UNCHANGED toks /\ code = 0
    BY <1>1, <1>15 DEF expand_cmd, Control
  <2>2. CASE UNCHANGED phase
    BY <2>1, <2>2, ParsedStays DEF Parsed, Refused
  <2>3. CASE ExpandError
    BY <1>4, <2>1, <2>3 DEF ExpandError, Stop
  <2>4. CASE Crash
    BY <1>5, <2>4 DEF Crash
  <2>5. QED
    BY <1>15, <2>2, <2>3, <2>4 DEF expand_cmd
<1>16. CASE expand_pipeline_end
  BY <1>16, ParsedStays DEF expand_pipeline_end, Parsed, Refused
<1>17. CASE exec_pipeline
  BY <1>1, <1>4, <1>17 DEF exec_pipeline, Control
<1>18. QED
  BY <1>3, <1>6, <1>7, <1>8, <1>9, <1>10, <1>12, <1>13, <1>14, <1>15, <1>16, <1>17 DEF Next, Over

(* A line is executed only if it is pipes between commands with a word behind
   every redirection, and refused for its syntax only if it is not
   (parser.c:15-75), for every line whatever. *)
THEOREM LineParses == Spec => []ParsesTheGrammar
<1>1. Init => Parsed
  BY DEF Init, Parsed, Refused
<1>2. Owned /\ Parsed /\ [Next]_vars => Parsed'
  BY ParsedNext
<1>3. Parsed => ParsesTheGrammar
  BY DEF Parsed, Refused, ParsesTheGrammar
<1>4. QED
  BY <1>1, <1>2, <1>3, OwnedInductive, PTL DEF Spec

-----------------------------------------------------------------------------
(* The quote that is open, or none. *)
States == Quotes \cup {NoQuote}

(* A quote that is open, or none, is what reading a character leaves. *)
LEMMA ToggleType == ASSUME NEW q \in States, NEW c PROVE Toggle(q, c) \in States
  BY DEF Toggle, States, Quotes, NoQuote, Sq, Dq

(* The quotes that QuoteFrom computes, one position after the other. *)
LEMMA QuoteIs ==
  ASSUME NEW s \in Seq(STRING), NEW st \in 1 .. Len(s) + 1
  PROVE  /\ QuoteFrom(s, st) \in [st .. Len(s) + 1 -> States]
         /\ QuoteFrom(s, st)[st] = NoQuote
         /\ \A p \in st .. Len(s) : QuoteFrom(s, st)[p + 1] = Toggle(QuoteFrom(s, st)[p], s[p])
<1> DEFINE Solved(f) == f = [p \in st .. Len(s) + 1 |-> IF p = st THEN NoQuote ELSE Toggle(f[p - 1], s[p - 1])]
<1>1. PICK D, rank : D = st .. Len(s) + 1 /\ rank = [p \in D |-> p - st]
  OBVIOUS
<1>2. PICK step : step = [z \in D \X [D -> States] |-> IF z[1] = st THEN NoQuote ELSE Toggle(z[2][z[1] - 1], s[z[1] - 1])]
  OBVIOUS
<1>3. \A x \in D : \A f \in [D -> States] :
         step[<<x, f>>] = IF x = st THEN NoQuote ELSE Toggle(f[x - 1], s[x - 1])
  BY <1>2
<1>4. \A x \in D : x # st => x - 1 \in D /\ rank[x - 1] < rank[x]
  BY <1>1
<1>5. Descends(D, States, rank, step)
  <2>1. rank \in [D -> Nat]
    BY <1>1
  <2>2. step \in [D \X [D -> States] -> States]
    <3>1. ASSUME NEW x \in D, NEW f \in [D -> States] PROVE step[<<x, f>>] \in States
      <4>1. CASE x = st
        BY <1>3, <4>1 DEF States
      <4>2. CASE x # st
        BY <1>3, <1>4, <4>2, ToggleType
      <4>3. QED
        BY <4>1, <4>2
    <3>2. QED
      BY <1>2, <3>1
  <2>3. QED
    <3>1. ASSUME NEW x \in D, NEW f \in [D -> States], NEW g \in [D -> States],
                 \A y \in D : rank[y] < rank[x] => f[y] = g[y]
          PROVE  step[<<x, f>>] = step[<<x, g>>]
      <4>1. x # st => f[x - 1] = g[x - 1]
        BY <1>4, <3>1
      <4>2. QED
        BY <1>3, <4>1
    <3>2. QED
      BY <2>1, <2>2, <3>1 DEF Descends
<1>6. PICK f \in [D -> States] : \A x \in D : f[x] = step[<<x, f>>]
  <2>1. States # {}
    BY DEF States
  <2>2. QED
    BY <1>5, <2>1, Recursion
<1>7. Solved(f)
  BY <1>1, <1>3, <1>6
<1>8. QuoteFrom(s, st) = CHOOSE g : Solved(g)
  BY DEF QuoteFrom
<1>9. PICK q : q = QuoteFrom(s, st) /\ Solved(q)
  BY <1>7, <1>8
<1>10. q[st] = NoQuote /\ \A p \in st .. Len(s) : q[p + 1] = Toggle(q[p], s[p])
  <2>1. ASSUME NEW p \in st .. Len(s) PROVE p + 1 \in st .. Len(s) + 1 /\ p + 1 # st /\ (p + 1) - 1 = p
    OBVIOUS
  <2>2. QED
    <3>1. q[st] = NoQuote
      BY <1>9
    <3>2. ASSUME NEW x \in st .. Len(s) + 1, x # st PROVE q[x] = Toggle(q[x - 1], s[x - 1])
      BY <1>9, <3>2
    <3>3. QED
      BY <2>1, <3>1, <3>2
<1>11. \A p \in st .. Len(s) + 1 : q[p] \in States
  <2> DEFINE S == {p \in Int : q[p] \in States}
  <2>1. st \in S
    BY <1>10 DEF States
  <2>2. \A p \in st .. (Len(s) + 1) - 1 : p \in S => p + 1 \in S
    BY <1>10, ToggleType
  <2>3. \A p \in st .. Len(s) + 1 : p \in S
    <3> HIDE DEF S
    <3>1. st \in Int /\ Len(s) + 1 \in Int
      OBVIOUS
    <3>2. QED
      BY <2>1, <2>2, <3>1, Upward
  <2>4. QED
    BY <2>3
<1>12. q \in [st .. Len(s) + 1 -> States]
  BY <1>9, <1>11
<1>13. QED
  BY <1>9, <1>10, <1>12

(* A piece of a list, possibly empty. *)
LEMMA SubIs ==
  ASSUME NEW S, NEW s \in Seq(S), NEW a \in 1 .. Len(s) + 1, NEW b \in a - 1 .. Len(s)
  PROVE  /\ SubSeq(s, a, b) \in Seq(S) /\ Len(SubSeq(s, a, b)) = b - a + 1
         /\ \A k \in 1 .. b - a + 1 : SubSeq(s, a, b)[k] = s[k + a - 1]
<1>1. \A k \in a .. b : s[k] \in S
  <2>1. \A k \in a .. b : k \in 1 .. Len(s)
    OBVIOUS
  <2>2. QED
    BY <2>1, ElementOfSeq
<1>2. a \in Int /\ b \in Int
  OBVIOUS
<1>3. /\ SubSeq(s, a, b) \in Seq(S) /\ Len(SubSeq(s, a, b)) = IF a <= b THEN b - a + 1 ELSE 0
      /\ \A k \in 1 .. b - a + 1 : SubSeq(s, a, b)[k] = s[a + k - 1]
  BY <1>1, <1>2, SubSeqProperties
<1>4. \A k \in 1 .. b - a + 1 : a + k - 1 = k + a - 1
  OBVIOUS
<1>5. QED
  BY <1>3, <1>4

(* The least of some positions. *)
LEMMA MinIs ==
  ASSUME NEW S \in SUBSET Nat, S # {}
  PROVE  Min(S) \in S /\ \A n \in S : Min(S) <= n
  BY Least DEF Min

(* Reading a piece of s that begins outside quotes. *)
LEMMA QuoteSub ==
  ASSUME NEW s \in Seq(STRING), NEW st \in 1 .. Len(s) + 1, NEW a \in st .. Len(s) + 1, NEW b \in a - 1 .. Len(s),
         QuoteFrom(s, st)[a] = NoQuote
  PROVE  \A k \in 1 .. b - a + 2 : QuoteFrom(SubSeq(s, a, b), 1)[k] = QuoteFrom(s, st)[k + a - 1]
<1>1. PICK t, q, u : t = SubSeq(s, a, b) /\ q = QuoteFrom(s, st) /\ u = QuoteFrom(t, 1)
  OBVIOUS
<1>2. t \in Seq(STRING) /\ Len(t) = b - a + 1 /\ \A k \in 1 .. Len(t) : t[k] = s[k + a - 1]
  BY <1>1, SubIs
<1>3. u[1] = NoQuote /\ \A k \in 1 .. Len(t) : u[k + 1] = Toggle(u[k], t[k])
  <2>1. 1 \in 1 .. Len(t) + 1
    BY <1>2
  <2>2. QED
    BY <1>1, <1>2, <2>1, QuoteIs
<1>4. \A p \in st .. Len(s) : q[p + 1] = Toggle(q[p], s[p])
  BY <1>1, QuoteIs
<1> DEFINE S == {k \in Int : u[k] = q[k + a - 1]}
<1>5. 1 \in S
  BY <1>1, <1>3
<1>6. ASSUME NEW k \in 1 .. (b - a + 2) - 1, k \in S PROVE k + 1 \in S
  <2>1. k \in 1 .. Len(t) /\ k + a - 1 \in st .. Len(s) /\ (k + 1) + a - 1 = (k + a - 1) + 1
    BY <1>2
  <2>2. u[k + 1] = q[(k + a - 1) + 1]
    BY <1>2, <1>3, <1>4, <1>6, <2>1
  <2>3. QED
    BY <2>1, <2>2
<1>7. \A k \in 1 .. b - a + 2 : k \in S
  <2> HIDE DEF S
  <2>1. PICK n \in Int : n = b - a + 2
    OBVIOUS
  <2>2. \A k \in 1 .. n - 1 : k \in S => k + 1 \in S
    BY <1>6, <2>1
  <2>3. \A k \in 1 .. n : k \in S
    BY <1>5, <2>2, Upward
  <2>4. QED
    BY <2>1, <2>3
<1>8. QED
  BY <1>1, <1>7

(* The end of the name behind a '$'. *)
Alnum == Letters \cup Digits
EndOfName(s, p, n) ==
    /\ n \in p + 1 .. Len(s) + 1
    /\ p < Len(s) /\ s[p + 1] \in Letters => /\ n = Len(s) + 1 \/ s[n] \notin Alnum
                                            /\ \A m \in p + 1 .. n - 1 : s[m] \in Alnum
    /\ ~ (p < Len(s) /\ s[p + 1] \in Letters) => n = p + 1

(* NameEnd is the one place where the name behind a '$' ends. *)
LEMMA NameEndIs ==
  ASSUME NEW s \in Seq(STRING), NEW p \in 1 .. Len(s)
  PROVE  EndOfName(s, p, NameEnd(s, p)) /\ \A n : EndOfName(s, p, n) => n = NameEnd(s, p)
<1>1. CASE ~ (p < Len(s) /\ s[p + 1] \in Letters)
  <2>1. NameEnd(s, p) = p + 1
    BY <1>1 DEF NameEnd
  <2>2. QED
    BY <1>1, <2>1 DEF EndOfName
<1>2. CASE p < Len(s) /\ s[p + 1] \in Letters
  <2> DEFINE S == {n \in p + 1 .. Len(s) + 1 : n = Len(s) + 1 \/ s[n] \notin Alnum}
  <2>1. NameEnd(s, p) = Min(S)
    BY <1>2 DEF NameEnd, Alnum
  <2>2. S \in SUBSET Nat /\ Len(s) + 1 \in S
    OBVIOUS
  <2>3. Min(S) \in S /\ \A n \in S : Min(S) <= n
    <3> HIDE DEF S
    <3>1. QED
      BY <2>2, MinIs
  <2>4. PICK z : z = Min(S)
    OBVIOUS
  <2>5. z \in S /\ \A n \in S : z <= n
    BY <2>3, <2>4
  <2>6. EndOfName(s, p, z)
    <3>1. \A m \in p + 1 .. z - 1 : s[m] \in Alnum
      BY <2>5
    <3>2. QED
      BY <1>2, <2>5, <3>1 DEF EndOfName
  <2>7. ASSUME NEW n, EndOfName(s, p, n) PROVE n = z
    <3>1. n \in S /\ \A m \in p + 1 .. n - 1 : s[m] \in Alnum /\ m # Len(s) + 1
      BY <1>2, <2>7 DEF EndOfName
    <3>2. z <= n
      BY <2>5, <3>1
    <3>3. ~ (z < n)
      BY <2>5, <3>1
    <3>4. QED
      BY <2>5, <3>1, <3>2, <3>3
  <2>8. QED
    BY <2>1, <2>4, <2>6, <2>7
<1>3. QED
  BY <1>1, <1>2

(* Texts: the characters that the definitions write out are added, since the
   prover does not know that they are strings. *)
Chars == STRING \cup {"$", "|", "<", ">"}
Texts == Seq(Chars)

(* A list of one element. *)
LEMMA OneIs == ASSUME NEW S, NEW x \in S PROVE <<x>> \in Seq(S) /\ Len(<<x>>) = 1 /\ <<x>>[1] = x
  OBVIOUS

(* What the constants stand for. *)
LEMMA CharsAre ==
  /\ \A c \in Quotes : c \notin Alnum /\ c \notin Letters /\ c # "?" /\ c # "$" /\ c # NoQuote
  /\ Status \in Texts /\ \A v \in DOMAIN Vars : Vars[v] \in Texts
<1>1. \A c \in Quotes : c \notin Alnum /\ c \notin Letters
  <2>1. Quotes \cap (Letters \cup Digits) = {}
    BY WordsAssumption
  <2>2. ASSUME NEW c \in Quotes PROVE c \notin Letters \cup Digits
    BY <2>1
  <2>3. QED
    BY <2>2 DEF Alnum
<1>2. \A c \in Quotes : c # "?" /\ c # "$" /\ c # NoQuote
  BY DEF Quotes, Sq, Dq, NoQuote
<1>3. \A s \in Seq(STRING) : s \in Texts
  <2>1. STRING \subseteq Chars
    BY DEF Chars
  <2>2. QED
    BY <2>1, SeqMonotonic DEF Texts
<1>4. QED
  BY <1>1, <1>2, <1>3, WordsAssumption

(* What a '$' stands for is a text, and reading goes on behind it. *)
LEMMA VarIs ==
  ASSUME NEW s \in Seq(STRING), NEW p \in 1 .. Len(s)
  PROVE  expand_var(s, p).text \in Texts /\ expand_var(s, p).next \in p + 1 .. Len(s) + 1
<1>1. PICK n : n = NameEnd(s, p)
  OBVIOUS
<1>2. n \in p + 1 .. Len(s) + 1
  BY <1>1, NameEndIs DEF EndOfName
<1>3. <<"$">> \in Texts /\ <<>> \in Texts /\ Status \in Texts
  <2>1. <<"$">> \in Texts
    BY OneIs DEF Texts, Chars
  <2>2. <<>> \in Texts
    BY DEF Texts
  <2>3. QED
    BY <2>1, <2>2, CharsAre
<1>4. PICK name : name = SubSeq(s, p + 1, n - 1)
  OBVIOUS
<1>5. name \in DOMAIN Vars => Vars[name] \in Texts
  BY CharsAre
<1>6. expand_var(s, p) = IF p < Len(s) /\ s[p + 1] = "?" THEN [text |-> Status, next |-> p + 2]
                         ELSE IF name = <<>> THEN [text |-> <<"$">>, next |-> p + 1]
                         ELSE [text |-> IF name \in DOMAIN Vars THEN Vars[name] ELSE <<>>, next |-> n]
  BY <1>1, <1>4 DEF expand_var
<1>7. CASE p < Len(s) /\ s[p + 1] = "?"
  <2>1. expand_var(s, p) = [text |-> Status, next |-> p + 2]
    BY <1>6, <1>7
  <2>2. QED
    BY <1>3, <1>7, <2>1
<1>8. CASE ~ (p < Len(s) /\ s[p + 1] = "?") /\ name = <<>>
  <2>1. expand_var(s, p) = [text |-> <<"$">>, next |-> p + 1]
    BY <1>6, <1>8
  <2>2. QED
    BY <1>3, <2>1
<1>9. CASE ~ (p < Len(s) /\ s[p + 1] = "?") /\ name # <<>>
  <2>1. expand_var(s, p) = [text |-> IF name \in DOMAIN Vars THEN Vars[name] ELSE <<>>, next |-> n]
    BY <1>6, <1>9
  <2>2. (IF name \in DOMAIN Vars THEN Vars[name] ELSE <<>>) \in Texts
    BY <1>3, <1>5
  <2>3. QED
    BY <1>2, <2>1, <2>2
<1>10. QED
  BY <1>7, <1>8, <1>9

(* It is the same in a piece of s that does not end in the middle of a name. *)
LEMMA VarSub ==
  ASSUME NEW s \in Seq(STRING), NEW d \in 0 .. Len(s), NEW b \in d .. Len(s), b = Len(s) \/ s[b + 1] \in Quotes,
         NEW p \in 1 .. b - d
  PROVE  /\ expand_var(s, p + d).text = expand_var(SubSeq(s, d + 1, b), p).text
         /\ expand_var(s, p + d).next = expand_var(SubSeq(s, d + 1, b), p).next + d
<1>1. PICK t : t = SubSeq(s, d + 1, b)
  OBVIOUS
<1>2. t \in Seq(STRING) /\ Len(t) = b - d /\ \A k \in 1 .. Len(t) : t[k] = s[k + d]
  <2>1. d + 1 \in 1 .. Len(s) + 1 /\ b \in (d + 1) - 1 .. Len(s) /\ b - (d + 1) + 1 = b - d /\ \A k \in Int : k + (d + 1) - 1 = k + d
    OBVIOUS
  <2>2. QED
    BY <1>1, <2>1, SubIs
<1>3. p \in 1 .. Len(t) /\ p + d \in 1 .. Len(s)
  BY <1>2
<1>4. b < Len(s) => s[b + 1] \notin Alnum /\ s[b + 1] # "?" /\ s[b + 1] \notin Letters
  BY CharsAre
<1>5. (p < Len(t) /\ t[p + 1] = "?") <=> (p + d < Len(s) /\ s[(p + d) + 1] = "?")
  <2>1. CASE p < Len(t)
    <3>1. p + 1 \in 1 .. Len(t) /\ (p + 1) + d = (p + d) + 1 /\ p + d < Len(s)
      BY <1>2, <2>1
    <3>2. QED
      BY <1>2, <2>1, <3>1
  <2>2. CASE p = Len(t)
    <3>1. (p + d) + 1 = b + 1
      BY <1>2, <2>2
    <3>2. QED
      BY <1>4, <2>2, <3>1
  <2>3. QED
    BY <1>3, <2>1, <2>2
<1>6. PICK n : n = NameEnd(t, p)
  OBVIOUS
<1>7. EndOfName(t, p, n)
  BY <1>2, <1>3, <1>6, NameEndIs
<1>8. n \in p + 1 .. Len(t) + 1
  BY <1>7 DEF EndOfName
<1>9. (p < Len(t) /\ t[p + 1] \in Letters) <=> (p + d < Len(s) /\ s[(p + d) + 1] \in Letters)
  <2>1. CASE p < Len(t)
    <3>1. p + 1 \in 1 .. Len(t) /\ (p + 1) + d = (p + d) + 1 /\ p + d < Len(s)
      BY <1>2, <2>1
    <3>2. QED
      BY <1>2, <2>1, <3>1
  <2>2. CASE p = Len(t)
    <3>1. (p + d) + 1 = b + 1
      BY <1>2, <2>2
    <3>2. QED
      BY <1>4, <2>2, <3>1
  <2>3. QED
    BY <1>3, <2>1, <2>2
<1>10. EndOfName(s, p + d, n + d)
  <2>1. n + d \in (p + d) + 1 .. Len(s) + 1
    BY <1>2, <1>8
  <2>2. CASE ~ (p < Len(t) /\ t[p + 1] \in Letters)
    BY <1>7, <1>9, <2>1, <2>2 DEF EndOfName
  <2>3. CASE p < Len(t) /\ t[p + 1] \in Letters
    <3>1. n = Len(t) + 1 \/ t[n] \notin Alnum
      BY <1>7, <2>3 DEF EndOfName
    <3>2. \A m \in p + 1 .. n - 1 : t[m] \in Alnum
      BY <1>7, <2>3 DEF EndOfName
    <3>3. n + d = Len(s) + 1 \/ s[n + d] \notin Alnum
      <4>1. CASE n = Len(t) + 1
        <5>1. n + d = b + 1
          BY <1>2, <4>1
        <5>2. QED
          BY <1>4, <5>1
      <4>2. CASE n \in 1 .. Len(t)
        BY <1>2, <3>1, <4>2
      <4>3. QED
        BY <1>3, <1>8, <4>1, <4>2
    <3>4. ASSUME NEW m \in (p + d) + 1 .. (n + d) - 1 PROVE s[m] \in Alnum
      <4>1. m - d \in p + 1 .. n - 1 /\ m - d \in 1 .. Len(t) /\ (m - d) + d = m
        BY <1>2, <1>8
      <4>2. QED
        BY <1>2, <3>2, <4>1
    <3>5. QED
      BY <2>1, <2>3, <1>9, <3>3, <3>4 DEF EndOfName
  <2>4. QED
    BY <2>2, <2>3
<1>11. NameEnd(s, p + d) = n + d
  BY <1>3, <1>10, NameEndIs
<1>12. PICK name : name = SubSeq(t, p + 1, n - 1)
  OBVIOUS
<1>13. SubSeq(s, (p + d) + 1, (n + d) - 1) = name
  <2>1. PICK u : u = SubSeq(s, (p + d) + 1, (n + d) - 1)
    OBVIOUS
  <2>2. /\ p + 1 \in 1 .. Len(t) + 1 /\ n - 1 \in (p + 1) - 1 .. Len(t)
        /\ (p + d) + 1 \in 1 .. Len(s) + 1 /\ (n + d) - 1 \in ((p + d) + 1) - 1 .. Len(s)
    BY <1>2, <1>3, <1>8
  <2>3. PICK l \in Nat : l = n - p - 1
    BY <1>8
  <2>4. (n - 1) - (p + 1) + 1 = l /\ ((n + d) - 1) - ((p + d) + 1) + 1 = l
    BY <1>8, <2>3
  <2>5. /\ name \in Seq(STRING) /\ Len(name) = l
        /\ \A k \in 1 .. l : name[k] = t[k + (p + 1) - 1]
    BY <1>2, <1>12, <2>2, <2>4, SubIs
  <2>6. /\ u \in Seq(STRING) /\ Len(u) = l
        /\ \A k \in 1 .. l : u[k] = s[k + ((p + d) + 1) - 1]
    BY <2>1, <2>2, <2>4, SubIs
  <2>7. ASSUME NEW k \in 1 .. l PROVE name[k] = u[k]
    <3>1. k + (p + 1) - 1 \in 1 .. Len(t) /\ (k + (p + 1) - 1) + d = k + ((p + d) + 1) - 1
      BY <1>3, <1>8, <2>3
    <3>2. QED
      BY <1>2, <2>5, <2>6, <3>1
  <2>8. name = u
    BY <2>5, <2>6, <2>7, SeqEqual
  <2>9. QED
    BY <2>1, <2>8
<1>14. expand_var(t, p) = IF p < Len(t) /\ t[p + 1] = "?" THEN [text |-> Status, next |-> p + 2]
                          ELSE IF name = <<>> THEN [text |-> <<"$">>, next |-> p + 1]
                          ELSE [text |-> IF name \in DOMAIN Vars THEN Vars[name] ELSE <<>>, next |-> n]
  BY <1>6, <1>12 DEF expand_var
<1>15. expand_var(s, p + d) = IF p < Len(t) /\ t[p + 1] = "?" THEN [text |-> Status, next |-> (p + d) + 2]
                              ELSE IF name = <<>> THEN [text |-> <<"$">>, next |-> (p + d) + 1]
                              ELSE [text |-> IF name \in DOMAIN Vars THEN Vars[name] ELSE <<>>, next |-> n + d]
  BY <1>5, <1>11, <1>13 DEF expand_var
<1>16. n + d = n + d /\ (p + d) + 2 = (p + 2) + d /\ (p + d) + 1 = (p + 1) + d
  BY <1>8
<1>17. CASE p < Len(t) /\ t[p + 1] = "?"
  <2>1. expand_var(t, p) = [text |-> Status, next |-> p + 2] /\ expand_var(s, p + d) = [text |-> Status, next |-> (p + d) + 2]
    BY <1>14, <1>15, <1>17
  <2>2. expand_var(t, p).next = p + 2 /\ expand_var(s, p + d).next = (p + d) + 2
    BY <2>1
  <2>3. expand_var(t, p).text = Status /\ expand_var(s, p + d).text = Status
    BY <2>1
  <2>4. QED
    BY <1>1, <1>16, <2>2, <2>3
<1>18. CASE ~ (p < Len(t) /\ t[p + 1] = "?") /\ name = <<>>
  <2>1. expand_var(t, p) = [text |-> <<"$">>, next |-> p + 1] /\ expand_var(s, p + d) = [text |-> <<"$">>, next |-> (p + d) + 1]
    BY <1>14, <1>15, <1>18
  <2>2. QED
    BY <1>1, <1>16, <2>1
<1>19. CASE ~ (p < Len(t) /\ t[p + 1] = "?") /\ name # <<>>
  <2>1. PICK v : v = IF name \in DOMAIN Vars THEN Vars[name] ELSE <<>>
    OBVIOUS
  <2>2. expand_var(t, p) = [text |-> v, next |-> n] /\ expand_var(s, p + d) = [text |-> v, next |-> n + d]
    BY <1>14, <1>15, <1>19, <2>1
  <2>3. QED
    BY <1>1, <2>2
<1>20. QED
  BY <1>17, <1>18, <1>19

-----------------------------------------------------------------------------
(* expand_word's loop, as a function of the position and the open quote. *)
Places(s) == (1 .. Len(s) + 1) \X States

ExpandAt(s, f, p, q) ==
    IF p = Len(s) + 1 THEN <<>>
    ELSE IF Toggle(q, s[p]) # q THEN f[<<p + 1, Toggle(q, s[p])>>]
    ELSE IF s[p] = "$" /\ q # Sq THEN expand_var(s, p).text \o f[<<expand_var(s, p).next, q>>]
    ELSE <<s[p]>> \o f[<<p + 1, q>>]

Expands(s) == CHOOSE f : f = [at \in Places(s) |-> ExpandAt(s, f, at[1], at[2])]

(* It is a text, if what comes later is. *)
LEMMA ExpandAtType ==
  ASSUME NEW s \in Seq(STRING), NEW f \in [Places(s) -> Texts], NEW p \in 1 .. Len(s) + 1, NEW q \in States
  PROVE  ExpandAt(s, f, p, q) \in Texts
<1>1. CASE p = Len(s) + 1
  BY <1>1 DEF ExpandAt, Texts
<1>2. CASE p # Len(s) + 1 /\ Toggle(q, s[p]) # q
  <2>1. <<p + 1, Toggle(q, s[p])>> \in Places(s)
    BY <1>2, ToggleType DEF Places
  <2>2. QED
    BY <1>2, <2>1 DEF ExpandAt
<1>3. CASE p # Len(s) + 1 /\ Toggle(q, s[p]) = q
  <2>1. p \in 1 .. Len(s) /\ <<p + 1, q>> \in Places(s) /\ s[p] \in Chars
    BY <1>3 DEF Places, Chars
  <2>2. expand_var(s, p).text \in Texts /\ <<expand_var(s, p).next, q>> \in Places(s)
    <3>1. expand_var(s, p).text \in Texts /\ expand_var(s, p).next \in p + 1 .. Len(s) + 1
      BY <2>1, VarIs
    <3>2. QED
      BY <3>1 DEF Places
  <2>3. <<s[p]>> \in Texts /\ f[<<p + 1, q>>] \in Texts /\ f[<<expand_var(s, p).next, q>>] \in Texts
    BY <2>1, <2>2, OneIs DEF Texts
  <2>4. \A a, b \in Texts : a \o b \in Texts
    BY ConcatProperties DEF Texts
  <2>5. QED
    BY <1>3, <2>2, <2>3, <2>4 DEF ExpandAt
<1>4. QED
  BY <1>1, <1>2, <1>3

(* The loop goes forward, so it ends. *)
LEMMA ExpandAtLooks ==
  ASSUME NEW s \in Seq(STRING), NEW f, NEW g,
         NEW p \in 1 .. Len(s) + 1, NEW q \in States,
         \A o \in p + 1 .. Len(s) + 1 : \A r \in States : f[<<o, r>>] = g[<<o, r>>]
  PROVE  ExpandAt(s, f, p, q) = ExpandAt(s, g, p, q)
<1>1. CASE p = Len(s) + 1
  BY <1>1 DEF ExpandAt
<1>2. CASE p # Len(s) + 1
  <2>1. p \in 1 .. Len(s) /\ p + 1 \in p + 1 .. Len(s) + 1
    BY <1>2
  <2>2. expand_var(s, p).next \in p + 1 .. Len(s) + 1
    BY <2>1, VarIs
  <2>3. Toggle(q, s[p]) \in States
    BY ToggleType
  <2>4. QED
    BY <1>2, <2>1, <2>2, <2>3 DEF ExpandAt
<1>3. QED
  BY <1>1, <1>2

(* expand_word's loop, one position after the other. *)
LEMMA ExpandsIs ==
  ASSUME NEW s \in Seq(STRING)
  PROVE  /\ \A p \in 1 .. Len(s) + 1 : \A q \in States :
               /\ Expands(s)[<<p, q>>] \in Texts
               /\ Expands(s)[<<p, q>>] = ExpandAt(s, Expands(s), p, q)
         /\ expand_word(s) = Expands(s)[<<1, NoQuote>>]
<1>1. PICK D, rk : D = Places(s) /\ rk = [at \in D |-> Len(s) + 1 - at[1]]
  OBVIOUS
<1>2. PICK st : st = [z \in D \X [D -> Texts] |-> ExpandAt(s, z[2], z[1][1], z[1][2])]
  OBVIOUS
<1>3. \A x \in D : x = <<x[1], x[2]>> /\ x[1] \in 1 .. Len(s) + 1 /\ x[2] \in States
  BY <1>1 DEF Places
<1>4. \A x \in D : \A f \in [D -> Texts] : st[<<x, f>>] = ExpandAt(s, f, x[1], x[2])
  BY <1>2
<1>5. Descends(D, Texts, rk, st)
  <2>1. rk \in [D -> Nat]
    BY <1>1, <1>3
  <2>2. st \in [D \X [D -> Texts] -> Texts]
    <3>1. ASSUME NEW x \in D, NEW f \in [D -> Texts] PROVE st[<<x, f>>] \in Texts
      <4>1. f \in [Places(s) -> Texts] /\ x[1] \in 1 .. Len(s) + 1 /\ x[2] \in States
        BY <1>1, <1>3
      <4>2. QED
        BY <1>4, <4>1, ExpandAtType
    <3>2. QED
      BY <1>2, <3>1
  <2>3. ASSUME NEW x \in D, NEW f \in [D -> Texts], NEW g \in [D -> Texts],
               \A y \in D : rk[y] < rk[x] => f[y] = g[y]
        PROVE  st[<<x, f>>] = st[<<x, g>>]
    <3>1. PICK p, q : p = x[1] /\ q = x[2]
      OBVIOUS
    <3>2. p \in 1 .. Len(s) + 1 /\ q \in States
      BY <1>3, <3>1
    <3>3. ASSUME NEW o \in p + 1 .. Len(s) + 1, NEW r \in States PROVE f[<<o, r>>] = g[<<o, r>>]
      <4>1. <<o, r>> \in D
        BY <1>1, <3>2 DEF Places
      <4>2. rk[<<o, r>>] = Len(s) + 1 - o /\ rk[x] = Len(s) + 1 - p
        BY <1>1, <3>1, <4>1
      <4>3. rk[<<o, r>>] < rk[x]
        BY <3>2, <4>2
      <4>4. QED
        BY <2>3, <4>1, <4>3
    <3>4. ExpandAt(s, f, p, q) = ExpandAt(s, g, p, q)
      BY <1>1, <3>2, <3>3, ExpandAtLooks
    <3>5. QED
      BY <1>4, <3>1, <3>4
  <2>4. QED
    BY <2>1, <2>2, <2>3 DEF Descends
<1>6. PICK f \in [D -> Texts] : \A x \in D : f[x] = st[<<x, f>>]
  <2>1. <<>> \in Texts
    BY DEF Texts
  <2>2. QED
    BY <1>5, <2>1, Recursion
<1> DEFINE Solved(g) == g = [at \in Places(s) |-> ExpandAt(s, g, at[1], at[2])]
<1>7. Solved(f)
  BY <1>1, <1>4, <1>6
<1>8. Expands(s) = CHOOSE g : Solved(g)
  BY DEF Expands
<1>9. PICK z : z = Expands(s) /\ Solved(z)
  BY <1>7, <1>8
<1>10. \A p \in 1 .. Len(s) + 1 : \A q \in States : z[<<p, q>>] = ExpandAt(s, z, p, q)
  <2>1. ASSUME NEW p \in 1 .. Len(s) + 1, NEW q \in States PROVE z[<<p, q>>] = ExpandAt(s, z, p, q)
    <3>1. <<p, q>> \in Places(s) /\ <<p, q>>[1] = p /\ <<p, q>>[2] = q
      BY DEF Places
    <3>2. QED
      BY <1>9, <3>1
  <2>2. QED
    BY <2>1
<1>11. \A p \in 1 .. Len(s) + 1 : \A q \in States : z[<<p, q>>] = f[<<p, q>>]
  <2> DEFINE S == {p \in Int : \A q \in States : z[<<p, q>>] = f[<<p, q>>]}
  <2>1. PICK K, r : K = 1 .. Len(s) + 1 /\ r = [p \in K |-> Len(s) + 1 - p]
    OBVIOUS
  <2>2. ASSUME NEW p \in K, \A o \in K : r[o] < r[p] => o \in S PROVE p \in S
    <3>1. \A o \in p + 1 .. Len(s) + 1 : \A q \in States : z[<<o, q>>] = f[<<o, q>>]
      <4>1. ASSUME NEW o \in p + 1 .. Len(s) + 1 PROVE o \in S
        <5>1. o \in K /\ r[o] = Len(s) + 1 - o /\ r[p] = Len(s) + 1 - p
          BY <2>1, <2>2
        <5>2. r[o] < r[p]
          BY <2>1, <5>1
        <5>3. QED
          BY <2>2, <5>1, <5>2
      <4>2. QED
        BY <4>1
    <3>2. ASSUME NEW q \in States PROVE z[<<p, q>>] = f[<<p, q>>]
      <4>1. <<p, q>> \in D /\ <<p, q>>[1] = p /\ <<p, q>>[2] = q
        BY <1>1, <2>1 DEF Places
      <4>2. f[<<p, q>>] = ExpandAt(s, f, p, q)
        BY <1>4, <1>6, <4>1
      <4>3. p \in 1 .. Len(s) + 1
        BY <2>1
      <4>4. ExpandAt(s, z, p, q) = ExpandAt(s, f, p, q)
        BY <3>1, <4>3, ExpandAtLooks
      <4>5. QED
        BY <1>10, <4>2, <4>3, <4>4
    <3>3. QED
      BY <2>1, <3>2
  <2>3. \A p \in K : p \in S
    <3>1. r \in [K -> Nat]
      BY <2>1
    <3> HIDE DEF S
    <3>2. \A p \in K : (\A o \in K : r[o] < r[p] => o \in S) => p \in S
      BY <2>2
    <3>3. QED
      BY <3>1, <3>2, ByRank
  <2>4. QED
    BY <2>1, <2>3
<1>12. \A p \in 1 .. Len(s) + 1 : \A q \in States : f[<<p, q>>] \in Texts
  BY <1>1 DEF Places
<1>13. expand_word(s) = Expands(s)[<<1, NoQuote>>]
  BY DEF expand_word, Expands, ExpandAt, Places, States
<1>14. QED
  BY <1>9, <1>10, <1>11, <1>12, <1>13

(* What expand_word makes of s, when the quote q is open before it. *)
Expansion(s, q) == Expands(s)[<<1, q>>]
From(s, k)      == SubSeq(s, k, Len(s))

(* The rest of a text. *)
LEMMA FromIs ==
  ASSUME NEW S, NEW s \in Seq(S), NEW k \in 1 .. Len(s) + 1
  PROVE  /\ From(s, k) \in Seq(S) /\ Len(From(s, k)) = Len(s) + 1 - k
         /\ \A m \in 1 .. Len(s) + 1 - k : From(s, k)[m] = s[m + (k - 1)]
<1>1. /\ SubSeq(s, k, Len(s)) \in Seq(S) /\ Len(SubSeq(s, k, Len(s))) = Len(s) - k + 1
      /\ \A m \in 1 .. Len(s) - k + 1 : SubSeq(s, k, Len(s))[m] = s[m + k - 1]
  BY SubIs
<1>2. Len(s) - k + 1 = Len(s) + 1 - k /\ \A m \in Int : m + k - 1 = m + (k - 1)
  OBVIOUS
<1>3. QED
  BY <1>1, <1>2 DEF From

(* The loop does in s what it does in the rest of s. *)
LEMMA ExpandsFrom ==
  ASSUME NEW s \in Seq(STRING), NEW k \in 1 .. Len(s) + 1
  PROVE  \A p \in 1 .. Len(s) + 2 - k : \A q \in States :
            Expands(s)[<<p + (k - 1), q>>] = Expands(From(s, k))[<<p, q>>]
<1>1. PICK d, t, n : d = k - 1 /\ t = From(s, k) /\ n = Len(s) + 2 - k
  OBVIOUS
<1>2. /\ t \in Seq(STRING) /\ Len(t) = n - 1 /\ Len(t) + d = Len(s) /\ d \in 0 .. Len(s)
      /\ \A m \in 1 .. Len(t) : t[m] = s[m + d]
      /\ n \in Nat /\ Len(t) \in Nat /\ Len(s) \in Nat
  <2>1. /\ t \in Seq(STRING) /\ Len(t) = Len(s) + 1 - k
        /\ \A m \in 1 .. Len(s) + 1 - k : t[m] = s[m + (k - 1)]
    BY <1>1, FromIs
  <2>2. Len(s) \in Nat
    OBVIOUS
  <2>3. Len(t) = n - 1 /\ Len(t) + d = Len(s) /\ d \in 0 .. Len(s) /\ n \in Nat
    BY <1>1, <2>1, <2>2
  <2>4. QED
    BY <1>1, <2>1, <2>2, <2>3
<1> DEFINE S == {p \in Int : \A q \in States : Expands(s)[<<p + d, q>>] = Expands(t)[<<p, q>>]}
<1>3. PICK K, r : K = 1 .. n /\ r = [p \in K |-> n - p]
  OBVIOUS
<1>4. ASSUME NEW p \in K, \A o \in K : r[o] < r[p] => o \in S PROVE p \in S
  <2>1. \A o \in p + 1 .. n : \A q \in States : Expands(s)[<<o + d, q>>] = Expands(t)[<<o, q>>]
    <3>1. ASSUME NEW o \in p + 1 .. n PROVE o \in S
      <4>1. o \in K /\ r[o] = n - o /\ r[p] = n - p
        BY <1>3, <1>4
      <4>2. r[o] < r[p]
        BY <1>1, <1>3, <4>1
      <4>3. QED
        BY <1>4, <4>1, <4>2
    <3>2. QED
      BY <3>1
  <2>2. p \in 1 .. Len(t) + 1 /\ p + d \in 1 .. Len(s) + 1 /\ p \in Int /\ d \in Int
    BY <1>2, <1>3
  <2>3. ASSUME NEW q \in States PROVE Expands(s)[<<p + d, q>>] = Expands(t)[<<p, q>>]
    <3>1. /\ Expands(s)[<<p + d, q>>] = ExpandAt(s, Expands(s), p + d, q)
          /\ Expands(t)[<<p, q>>] = ExpandAt(t, Expands(t), p, q)
      BY <1>2, <2>2, ExpandsIs
    <3>2. CASE p = Len(t) + 1
      <4>1. p + d = Len(s) + 1
        BY <1>2, <3>2
      <4>2. QED
        BY <3>1, <3>2, <4>1 DEF ExpandAt
    <3>3. CASE p # Len(t) + 1
      <4>1. p \in 1 .. Len(t) /\ t[p] = s[p + d] /\ p + d # Len(s) + 1 /\ p + d \in 1 .. Len(s)
        BY <1>2, <2>2, <3>3
      <4>2. p + 1 \in p + 1 .. n /\ (p + 1) + d = (p + d) + 1
        BY <1>2, <2>2, <4>1
      <4>3. PICK u : u = Toggle(q, t[p])
        OBVIOUS
      <4>4. u \in States
        BY <4>3, ToggleType
      <4>5. Expands(s)[<<(p + d) + 1, u>>] = Expands(t)[<<p + 1, u>>]
        BY <2>1, <4>2, <4>4
      <4>6. Expands(s)[<<(p + d) + 1, q>>] = Expands(t)[<<p + 1, q>>]
        BY <2>1, <4>2
      <4>7. PICK v, w : v = expand_var(t, p) /\ w = expand_var(s, p + d)
        OBVIOUS
      <4>8. w.text = v.text /\ w.next = v.next + d
        <5>1. p \in 1 .. Len(s) - d /\ d + 1 = k
          BY <1>1, <1>2, <4>1
        <5>2. t = SubSeq(s, d + 1, Len(s))
          BY <1>1, <5>1 DEF From
        <5>3. Len(s) \in d .. Len(s)
          BY <1>2
        <5>4. QED
          BY <1>2, <4>7, <5>1, <5>2, <5>3, VarSub
      <4>9. v.next \in p + 1 .. n
        <5>1. v.next \in p + 1 .. Len(t) + 1
          BY <1>2, <4>1, <4>7, VarIs
        <5>2. QED
          BY <1>2, <5>1
      <4>10. Expands(s)[<<w.next, q>>] = Expands(t)[<<v.next, q>>]
        BY <2>1, <4>8, <4>9
      <4>11. /\ ExpandAt(s, Expands(s), p + d, q) =
                   IF u # q THEN Expands(s)[<<(p + d) + 1, u>>]
                   ELSE IF t[p] = "$" /\ q # Sq THEN w.text \o Expands(s)[<<w.next, q>>]
                   ELSE <<t[p]>> \o Expands(s)[<<(p + d) + 1, q>>]
             /\ ExpandAt(t, Expands(t), p, q) =
                   IF u # q THEN Expands(t)[<<p + 1, u>>]
                   ELSE IF t[p] = "$" /\ q # Sq THEN v.text \o Expands(t)[<<v.next, q>>]
                   ELSE <<t[p]>> \o Expands(t)[<<p + 1, q>>]
        BY <3>3, <4>1, <4>3, <4>7 DEF ExpandAt
      <4>12. QED
        BY <3>1, <4>5, <4>6, <4>8, <4>10, <4>11
    <3>4. QED
      BY <3>2, <3>3
  <2>4. QED
    BY <2>2, <2>3
<1>5. \A p \in K : p \in S
  <2>1. r \in [K -> Nat]
    BY <1>1, <1>3
  <2> HIDE DEF S
  <2>2. \A p \in K : (\A o \in K : r[o] < r[p] => o \in S) => p \in S
    BY <1>4
  <2>3. QED
    BY <2>1, <2>2, ByRank
<1>6. QED
  BY <1>1, <1>3, <1>5

(* Expansion, one character or variable at a time. *)
LEMMA ExpansionIs ==
  ASSUME NEW s \in Seq(STRING), NEW q \in States
  PROVE  /\ Expansion(s, q) \in Texts
         /\ s = <<>> => Expansion(s, q) = <<>>
         /\ s # <<>> /\ Toggle(q, s[1]) # q => Expansion(s, q) = Expansion(From(s, 2), Toggle(q, s[1]))
         /\ s # <<>> /\ Toggle(q, s[1]) = q /\ s[1] = "$" /\ q # Sq =>
               Expansion(s, q) = expand_var(s, 1).text \o Expansion(From(s, expand_var(s, 1).next), q)
         /\ s # <<>> /\ Toggle(q, s[1]) = q /\ ~ (s[1] = "$" /\ q # Sq) =>
               Expansion(s, q) = <<s[1]>> \o Expansion(From(s, 2), q)
<1>1. 1 \in 1 .. Len(s) + 1
  OBVIOUS
<1>2. Expansion(s, q) \in Texts /\ Expansion(s, q) = ExpandAt(s, Expands(s), 1, q)
  BY <1>1, ExpandsIs DEF Expansion
<1>3. s = <<>> => Expansion(s, q) = <<>>
  <2>1. s = <<>> => Len(s) = 0
    BY EmptySeq
  <2>2. QED
    BY <1>2, <2>1 DEF ExpandAt
<1>4. ASSUME s # <<>> PROVE 1 \in 1 .. Len(s) /\ 1 # Len(s) + 1
  BY <1>4, EmptySeq
<1>5. ASSUME NEW n \in 2 .. Len(s) + 1, NEW u \in States PROVE Expands(s)[<<n, u>>] = Expansion(From(s, n), u)
  <2>1. n \in 1 .. Len(s) + 1 /\ 1 \in 1 .. Len(s) + 2 - n /\ 1 + (n - 1) = n
    BY <1>5
  <2>2. QED
    BY <2>1, ExpandsFrom DEF Expansion
<1>6. ASSUME s # <<>>, Toggle(q, s[1]) # q PROVE Expansion(s, q) = Expansion(From(s, 2), Toggle(q, s[1]))
  <2>1. 2 \in 2 .. Len(s) + 1 /\ Toggle(q, s[1]) \in States /\ 1 + 1 = 2
    BY <1>4, <1>6, ToggleType
  <2>2. ExpandAt(s, Expands(s), 1, q) = Expands(s)[<<2, Toggle(q, s[1])>>]
    BY <1>4, <1>6, <2>1 DEF ExpandAt
  <2>3. QED
    BY <1>2, <1>5, <2>1, <2>2
<1>7. ASSUME s # <<>>, Toggle(q, s[1]) = q, s[1] = "$", q # Sq
      PROVE  Expansion(s, q) = expand_var(s, 1).text \o Expansion(From(s, expand_var(s, 1).next), q)
  <2>1. expand_var(s, 1).next \in 2 .. Len(s) + 1
    BY <1>4, <1>7, VarIs
  <2>2. ExpandAt(s, Expands(s), 1, q) = expand_var(s, 1).text \o Expands(s)[<<expand_var(s, 1).next, q>>]
    BY <1>4, <1>7 DEF ExpandAt
  <2>3. QED
    BY <1>2, <1>5, <2>1, <2>2
<1>8. ASSUME s # <<>>, Toggle(q, s[1]) = q, ~ (s[1] = "$" /\ q # Sq)
      PROVE  Expansion(s, q) = <<s[1]>> \o Expansion(From(s, 2), q)
  <2>1. 2 \in 2 .. Len(s) + 1 /\ 1 + 1 = 2
    BY <1>4, <1>8
  <2>2. ExpandAt(s, Expands(s), 1, q) = <<s[1]>> \o Expands(s)[<<2, q>>]
    BY <1>4, <1>8, <2>1 DEF ExpandAt
  <2>3. QED
    BY <1>2, <1>5, <2>1, <2>2
<1>9. QED
  BY <1>2, <1>3, <1>6, <1>7, <1>8

(* The tail of a text. *)
LEMMA TailIs ==
  ASSUME NEW s \in Seq(STRING), s # <<>>
  PROVE  /\ Len(s) \in Nat /\ Len(s) > 0 /\ 1 \in 1 .. Len(s) /\ s[1] \in STRING /\ s[1] \in Chars
         /\ From(s, 2) \in Seq(STRING) /\ Len(From(s, 2)) = Len(s) - 1
         /\ \A m \in 1 .. Len(s) - 1 : From(s, 2)[m] = s[m + 1]
         /\ s = <<s[1]>> \o From(s, 2)
<1>1. Len(s) \in Nat /\ Len(s) > 0
  BY EmptySeq
<1>2. 2 \in 1 .. Len(s) + 1 /\ 1 \in 1 .. Len(s) /\ Len(s) \in 1 .. Len(s)
  BY <1>1
<1>3. /\ From(s, 2) \in Seq(STRING) /\ Len(From(s, 2)) = Len(s) + 1 - 2
      /\ \A m \in 1 .. Len(s) + 1 - 2 : From(s, 2)[m] = s[m + (2 - 1)]
  BY <1>2, FromIs
<1>4. SubSeq(s, 1, Len(s)) = <<s[1]>> \o SubSeq(s, 1 + 1, Len(s))
  BY <1>2, SubSeqRecursiveFirst
<1>5. 1 + 1 = 2 /\ SubSeq(s, 1, Len(s)) = s
  BY SubSeqFull
<1>6. s[1] \in STRING
  BY <1>2, ElementOfSeq
<1>7. QED
  BY <1>1, <1>2, <1>3, <1>4, <1>5, <1>6 DEF From, Chars

(* Texts, put behind each other. *)
LEMMA TextsAre ==
  /\ <<>> \in Texts /\ \A t \in Seq(STRING) : t \in Texts
  /\ \A c \in Chars : <<c>> \in Texts
  /\ \A a, b \in Texts : a \o b \in Texts /\ Len(a \o b) = Len(a) + Len(b)
  /\ \A a \in Texts : <<>> \o a = a /\ a \o <<>> = a
  /\ \A a, b, c \in Texts : (a \o b) \o c = a \o (b \o c)
<1>1. <<>> \in Texts
  BY DEF Texts
<1>2. \A t \in Seq(STRING) : t \in Texts
  BY SeqMonotonic DEF Texts, Chars
<1>3. \A c \in Chars : <<c>> \in Texts
  BY OneIs DEF Texts
<1>4. \A a, b \in Texts : a \o b \in Texts /\ Len(a \o b) = Len(a) + Len(b)
  BY ConcatProperties DEF Texts
<1>5. \A a \in Texts : <<>> \o a = a /\ a \o <<>> = a
  BY ConcatEmptySeq DEF Texts
<1>6. \A a, b, c \in Texts : (a \o b) \o c = a \o (b \o c)
  BY ConcatAssociative DEF Texts
<1>7. QED
  BY <1>1, <1>2, <1>3, <1>4, <1>5, <1>6

-----------------------------------------------------------------------------
(* The reference's recursions on texts. *)
LEMMA FirstIs ==
  ASSUME NEW s \in Seq(STRING), NEW cs
  PROVE  /\ FirstOf(s, cs) \in 1 .. Len(s) + 1
         /\ FirstOf(s, cs) <= Len(s) => s[FirstOf(s, cs)] \in cs
         /\ \A m \in 1 .. FirstOf(s, cs) - 1 : s[m] \notin cs
<1>1. PICK S : S = {p \in DOMAIN s : s[p] \in cs} \cup {Len(s) + 1}
  OBVIOUS
<1>2. DOMAIN s = 1 .. Len(s) /\ Len(s) \in Nat
  OBVIOUS
<1>3. S \in SUBSET Nat /\ S # {} /\ \A n \in S : n \in 1 .. Len(s) + 1
  BY <1>1, <1>2
<1>4. PICK z : z = Min(S)
  OBVIOUS
<1>5. z \in S /\ \A n \in S : z <= n
  BY <1>3, <1>4, MinIs
<1>6. z <= Len(s) => s[z] \in cs
  BY <1>1, <1>2, <1>5
<1>7. ASSUME NEW m \in 1 .. z - 1 PROVE s[m] \notin cs
  <2>1. m \notin S /\ m \in 1 .. Len(s)
    BY <1>2, <1>3, <1>5
  <2>2. QED
    BY <1>1, <1>2, <2>1
<1>8. FirstOf(s, cs) = z
  BY <1>1, <1>4 DEF FirstOf
<1>9. QED
  BY <1>3, <1>5, <1>6, <1>7, <1>8

(* A piece of a text from its second character on is shorter. *)
LEMMA SubShorter ==
  ASSUME NEW S, NEW s \in Seq(S), NEW a \in Nat, a > 1, NEW b \in Int, b <= Len(s)
  PROVE  SubSeq(s, a, b) \in Seq(S) /\ (s # <<>> => Len(SubSeq(s, a, b)) < Len(s))
<1>1. \A k \in a .. b : s[k] \in S
  <2>1. \A k \in a .. b : k \in 1 .. Len(s)
    OBVIOUS
  <2>2. QED
    BY <2>1, ElementOfSeq
<1>2. SubSeq(s, a, b) \in Seq(S) /\ Len(SubSeq(s, a, b)) = IF a <= b THEN b - a + 1 ELSE 0
  BY <1>1, SubSeqProperties
<1>3. s # <<>> => Len(s) > 0
  BY EmptySeq
<1>4. QED
  BY <1>2, <1>3

SubstitutedAt(s, f) ==
    LET n == FirstOf(s, {"$"})
        v == expand_var(s, n)
    IN IF n > Len(s) THEN s
       ELSE SubSeq(s, 1, n - 1) \o v.text \o f[SubSeq(s, v.next, Len(s))]

(* Where the first '$' is, and what follows it. *)
LEMMA SubstitutedParts ==
  ASSUME NEW s \in Seq(STRING), FirstOf(s, {"$"}) <= Len(s)
  PROVE  LET n == FirstOf(s, {"$"})
             v == expand_var(s, n)
         IN /\ n \in 1 .. Len(s) /\ s # <<>>
            /\ v.next \in n + 1 .. Len(s) + 1
            /\ SubSeq(s, 1, n - 1) \in Texts /\ v.text \in Texts
            /\ SubSeq(s, v.next, Len(s)) \in Seq(STRING)
            /\ Len(SubSeq(s, v.next, Len(s))) < Len(s)
<1>1. PICK n : n = FirstOf(s, {"$"})
  OBVIOUS
<1>2. n \in 1 .. Len(s)
  BY <1>1, FirstIs
<1>3. s # <<>>
  BY <1>2, EmptySeq
<1>4. PICK v : v = expand_var(s, n)
  OBVIOUS
<1>5. v.text \in Texts /\ v.next \in n + 1 .. Len(s) + 1
  BY <1>2, <1>4, VarIs
<1>6. s \in Texts
  BY SeqMonotonic DEF Texts, Chars
<1>7. SubSeq(s, 1, n - 1) \in Texts
  <2>1. 1 \in 1 .. Len(s) + 1 /\ n - 1 \in 1 - 1 .. Len(s)
    BY <1>2
  <2>2. QED
    BY <1>6, <2>1, SubIs DEF Texts
<1>8. v.next \in Nat /\ v.next > 1 /\ Len(s) \in Int
  BY <1>2, <1>5
<1>9. SubSeq(s, v.next, Len(s)) \in Seq(STRING) /\ Len(SubSeq(s, v.next, Len(s))) < Len(s)
  BY <1>3, <1>8, SubShorter
<1>10. QED
  BY <1>1, <1>2, <1>3, <1>4, <1>5, <1>7, <1>9

(* The reference's substitution, one '$' after the other. *)
LEMMA SubstitutedIs ==
  ASSUME NEW s \in Seq(STRING)
  PROVE  Substituted[s] \in Texts /\ Substituted[s] = SubstitutedAt(s, Substituted)
<1>1. PICK D, rk : D = Seq(STRING) /\ rk = [t \in D |-> Len(t)]
  OBVIOUS
<1>2. PICK st : st = [z \in D \X [D -> Texts] |-> SubstitutedAt(z[1], z[2])]
  OBVIOUS
<1>3. \A x \in D : \A f \in [D -> Texts] : st[<<x, f>>] = SubstitutedAt(x, f)
  BY <1>2
<1>4. rk \in [D -> Nat] /\ \A x \in D : rk[x] = Len(x)
  BY <1>1
<1>5. ASSUME NEW x \in D, NEW f \in [D -> Texts] PROVE SubstitutedAt(x, f) \in Texts
  <2>1. x \in Texts
    BY <1>1, SeqMonotonic DEF Texts, Chars
  <2>2. CASE FirstOf(x, {"$"}) > Len(x)
    BY <2>1, <2>2 DEF SubstitutedAt
  <2>3. CASE FirstOf(x, {"$"}) <= Len(x)
    <3>1. PICK n, v : n = FirstOf(x, {"$"}) /\ v = expand_var(x, n)
      OBVIOUS
    <3>2. /\ n \in 1 .. Len(x) /\ SubSeq(x, 1, n - 1) \in Texts /\ v.text \in Texts
          /\ SubSeq(x, v.next, Len(x)) \in D
      BY <1>1, <2>3, <3>1, SubstitutedParts
    <3>3. f[SubSeq(x, v.next, Len(x))] \in Texts
      BY <3>2
    <3>4. \A a, b \in Texts : a \o b \in Texts
      BY ConcatProperties DEF Texts
    <3>5. SubstitutedAt(x, f) = SubSeq(x, 1, n - 1) \o v.text \o f[SubSeq(x, v.next, Len(x))]
      <4>1. ~ (n > Len(x))
        BY <1>1, <3>2
      <4>2. QED
        BY <3>1, <4>1 DEF SubstitutedAt
    <3>6. QED
      BY <3>2, <3>3, <3>4, <3>5
  <2>4. FirstOf(x, {"$"}) \in Int /\ Len(x) \in Int
    BY <1>1, FirstIs
  <2>5. QED
    BY <2>2, <2>3, <2>4
<1>6. ASSUME NEW x \in D, NEW f, NEW g, \A y \in D : rk[y] < rk[x] => f[y] = g[y]
      PROVE  SubstitutedAt(x, f) = SubstitutedAt(x, g)
  <2>1. CASE FirstOf(x, {"$"}) > Len(x)
    BY <2>1 DEF SubstitutedAt
  <2>2. CASE FirstOf(x, {"$"}) <= Len(x)
    <3>1. PICK y : y = SubSeq(x, expand_var(x, FirstOf(x, {"$"})).next, Len(x))
      OBVIOUS
    <3>2. y \in D /\ Len(y) < Len(x)
      BY <1>1, <2>2, <3>1, SubstitutedParts
    <3>3. f[y] = g[y]
      BY <1>4, <1>6, <3>2
    <3>4. QED
      BY <3>1, <3>3 DEF SubstitutedAt
  <2>3. FirstOf(x, {"$"}) \in Int /\ Len(x) \in Int
    BY <1>1, FirstIs
  <2>4. QED
    BY <2>1, <2>2, <2>3
<1>7. Descends(D, Texts, rk, st)
  <2>1. st \in [D \X [D -> Texts] -> Texts]
    <3>1. ASSUME NEW x \in D, NEW f \in [D -> Texts] PROVE st[<<x, f>>] \in Texts
      BY <1>3, <1>5
    <3>2. QED
      BY <1>2, <3>1
  <2>2. ASSUME NEW x \in D, NEW f \in [D -> Texts], NEW g \in [D -> Texts],
               \A y \in D : rk[y] < rk[x] => f[y] = g[y]
        PROVE  st[<<x, f>>] = st[<<x, g>>]
    <3>1. SubstitutedAt(x, f) = SubstitutedAt(x, g)
      BY <1>6, <2>2
    <3>2. QED
      BY <1>3, <3>1
  <2>3. QED
    BY <1>4, <2>1, <2>2 DEF Descends
<1>8. PICK f \in [D -> Texts] : \A x \in D : f[x] = st[<<x, f>>]
  <2>1. <<>> \in Texts
    BY DEF Texts
  <2>2. QED
    BY <1>7, <2>1, Recursion
<1> DEFINE Solved(g) == g = [t \in Seq(STRING) |-> SubstitutedAt(t, g)]
<1>9. Solved(f)
  BY <1>1, <1>3, <1>8
<1>10. Substituted = CHOOSE g : Solved(g)
  BY DEF Substituted, SubstitutedAt
<1>11. PICK z : z = Substituted /\ Solved(z)
  BY <1>9, <1>10
<1>12. \A x \in D : z[x] = SubstitutedAt(x, z)
  BY <1>1, <1>11
<1> DEFINE S == {x \in D : z[x] = f[x]}
<1>13. ASSUME NEW x \in D, \A y \in D : rk[y] < rk[x] => y \in S PROVE x \in S
  <2>1. SubstitutedAt(x, z) = SubstitutedAt(x, f)
    BY <1>6, <1>13
  <2>2. QED
    BY <1>3, <1>8, <1>12, <2>1
<1>14. \A x \in D : x \in S
  <2> HIDE DEF S
  <2>1. \A x \in D : (\A y \in D : rk[y] < rk[x] => y \in S) => x \in S
    BY <1>13
  <2>2. QED
    BY <1>4, <2>1, ByRank
<1>15. s \in D /\ z[s] = f[s] /\ f[s] \in Texts
  BY <1>1, <1>8, <1>14
<1>16. QED
  BY <1>11, <1>12, <1>15

(* Substituted, one character or variable at a time. *)
LEMMA SubstitutedSteps ==
  ASSUME NEW s \in Seq(STRING)
  PROVE  /\ s = <<>> => Substituted[s] = <<>>
         /\ s # <<>> /\ s[1] = "$" =>
               Substituted[s] = expand_var(s, 1).text \o Substituted[From(s, expand_var(s, 1).next)]
         /\ s # <<>> /\ s[1] # "$" => Substituted[s] = <<s[1]>> \o Substituted[From(s, 2)]
<1>1. Substituted[s] = SubstitutedAt(s, Substituted)
  BY SubstitutedIs
<1>2. PICK n : n = FirstOf(s, {"$"})
  OBVIOUS
<1>3. n \in 1 .. Len(s) + 1 /\ (n <= Len(s) => s[n] = "$") /\ (\A m \in 1 .. n - 1 : s[m] # "$") /\ Len(s) \in Nat
  BY <1>2, FirstIs
<1>4. PICK v : v = expand_var(s, n)
  OBVIOUS
<1>5. Substituted[s] = IF n > Len(s) THEN s ELSE SubSeq(s, 1, n - 1) \o v.text \o Substituted[From(s, v.next)]
  BY <1>1, <1>2, <1>4 DEF SubstitutedAt, From
<1>6. \A t \in Seq(STRING) : Substituted[t] \in Texts
  BY SubstitutedIs
<1>7. \A t \in Seq(STRING) : t \in Texts
  BY SeqMonotonic DEF Texts, Chars
<1>8. ASSUME s = <<>> PROVE Substituted[s] = <<>>
  <2>1. n > Len(s)
    BY <1>3, <1>8, EmptySeq
  <2>2. QED
    BY <1>5, <1>8, <2>1
<1>9. ASSUME s # <<>> PROVE Len(s) > 0 /\ 1 \in 1 .. Len(s)
  BY <1>9, EmptySeq
<1>10. ASSUME s # <<>>, s[1] = "$"
       PROVE  Substituted[s] = expand_var(s, 1).text \o Substituted[From(s, expand_var(s, 1).next)]
  <2>1. n = 1
    <3>1. ~ (n > 1)
      BY <1>3, <1>9, <1>10
    <3>2. QED
      BY <1>3, <3>1
  <2>2. SubSeq(s, 1, n - 1) = <<>>
    BY <2>1, SubSeqEmpty
  <2>3. v.text \in Texts /\ v.next \in 2 .. Len(s) + 1
    BY <1>4, <1>9, <1>10, <2>1, VarIs
  <2>4. <<>> \o v.text = v.text
    BY <2>3, ConcatEmptySeq DEF Texts
  <2>5. ~ (n > Len(s)) /\ v = expand_var(s, 1)
    BY <1>3, <1>4, <1>9, <1>10, <2>1
  <2>6. Substituted[s] = SubSeq(s, 1, n - 1) \o v.text \o Substituted[From(s, v.next)]
    BY <1>5, <2>5
  <2>7. QED
    BY <2>2, <2>4, <2>5, <2>6
<1>11. ASSUME s # <<>>, s[1] # "$" PROVE Substituted[s] = <<s[1]>> \o Substituted[From(s, 2)]
  <2>1. n > 1
    <3>1. n # 1
      BY <1>3, <1>9, <1>11
    <3>2. QED
      BY <1>3, <3>1
  <2>2. PICK t : t = From(s, 2)
    OBVIOUS
  <2>3. t \in Seq(STRING) /\ Len(t) = Len(s) - 1 /\ \A m \in 1 .. Len(s) - 1 : t[m] = s[m + 1]
    BY <1>11, <2>2, TailIs
  <2>4. FirstOf(t, {"$"}) = n - 1
    <3>1. PICK o : o = FirstOf(t, {"$"})
      OBVIOUS
    <3>2. o \in 1 .. Len(t) + 1 /\ (o <= Len(t) => t[o] = "$") /\ (\A m \in 1 .. o - 1 : t[m] # "$")
      BY <2>3, <3>1, FirstIs
    <3>3. ASSUME o < n - 1 PROVE FALSE
      <4>1. o <= Len(t) /\ o \in 1 .. Len(s) - 1 /\ o + 1 \in 1 .. n - 1
        BY <1>3, <2>3, <3>2, <3>3
      <4>2. t[o] = s[o + 1]
        BY <2>3, <4>1
      <4>3. QED
        BY <1>3, <3>2, <4>1, <4>2
    <3>4. ASSUME o > n - 1 PROVE FALSE
      <4>1. n - 1 \in 1 .. o - 1 /\ n <= Len(s) /\ n - 1 \in 1 .. Len(s) - 1 /\ (n - 1) + 1 = n
        BY <1>3, <2>1, <2>3, <3>2, <3>4
      <4>2. t[n - 1] = s[n]
        BY <2>3, <4>1
      <4>3. QED
        BY <1>3, <3>2, <4>1, <4>2
    <3>5. QED
      BY <1>3, <2>3, <3>1, <3>2, <3>3, <3>4
  <2>5. s[1] \in Chars /\ s = <<s[1]>> \o t
    BY <1>11, <2>2, TailIs
  <2>6. CASE n > Len(s)
    <3>1. Substituted[t] = t
      <4>1. Substituted[t] = SubstitutedAt(t, Substituted)
        BY <2>3, SubstitutedIs
      <4>2. FirstOf(t, {"$"}) > Len(t)
        BY <1>3, <2>3, <2>4, <2>6
      <4>3. QED
        BY <4>1, <4>2 DEF SubstitutedAt
    <3>2. QED
      BY <1>5, <2>2, <2>5, <2>6, <3>1
  <2>7. CASE n <= Len(s)
    <3>1. PICK w : w = expand_var(t, n - 1)
      OBVIOUS
    <3>2. n - 1 \in 1 .. Len(s) - 1 /\ n \in 1 .. Len(s) /\ (n - 1) + 1 = n /\ 1 \in 0 .. Len(s) /\ Len(s) \in 1 .. Len(s) /\ 1 + 1 = 2
      BY <1>3, <2>1, <2>7
    <3>3. v.text = w.text /\ v.next = w.next + 1
      BY <1>4, <2>2, <3>1, <3>2, VarSub DEF From
    <3>4. w.text \in Texts /\ w.next \in n .. Len(t) + 1
      BY <2>3, <3>1, <3>2, VarIs
    <3>5. From(t, w.next) = From(s, v.next)
      <4>1. w.next \in 1 .. Len(t) + 1 /\ v.next \in 1 .. Len(s) + 1
        BY <2>3, <3>2, <3>3, <3>4
      <4>2. PICK x, y : x = From(t, w.next) /\ y = From(s, v.next)
        OBVIOUS
      <4>3. PICK a, l : a = w.next - 1 /\ l = Len(t) + 1 - w.next
        OBVIOUS
      <4>4. x \in Seq(STRING) /\ Len(x) = l /\ \A m \in 1 .. l : x[m] = t[m + a]
        BY <2>3, <4>1, <4>2, <4>3, FromIs
      <4>5. Len(s) + 1 - v.next = l /\ v.next - 1 = a + 1 /\ l \in Nat /\ a \in Nat
        <5>1. PICK x1 \in Int, x2 \in Int, x3 \in Int, x4 \in Int :
                 x1 = w.next /\ x2 = v.next /\ x3 = Len(s) /\ x4 = Len(t)
          BY <1>3, <2>3, <4>1
        <5>2. x1 \in 1 .. x4 + 1 /\ x2 = x1 + 1 /\ x4 = x3 - 1 /\ a = x1 - 1 /\ l = x4 + 1 - x1
          BY <2>3, <3>3, <4>1, <4>3, <5>1
        <5>3. x3 + 1 - x2 = l /\ x2 - 1 = a + 1 /\ l \in Nat /\ a \in Nat
          BY <5>2
        <5>4. QED
          BY <5>1, <5>3
      <4>6. y \in Seq(STRING) /\ Len(y) = l /\ \A m \in 1 .. l : y[m] = s[m + (a + 1)]
        <5>1. /\ y \in Seq(STRING) /\ Len(y) = Len(s) + 1 - v.next
              /\ \A m \in 1 .. Len(s) + 1 - v.next : y[m] = s[m + (v.next - 1)]
          BY <4>1, <4>2, FromIs
        <5>2. QED
          BY <4>5, <5>1
      <4>7. ASSUME NEW m \in 1 .. l PROVE x[m] = y[m]
        <5>1. m + a \in 1 .. Len(s) - 1 /\ (m + a) + 1 = m + (a + 1)
          <6>1. PICK x1 \in Int, x3 \in Int, x4 \in Int : x1 = w.next /\ x3 = Len(s) /\ x4 = Len(t)
            BY <1>3, <2>3, <4>1
          <6>2. x1 \in 1 .. x4 + 1 /\ x4 = x3 - 1 /\ a = x1 - 1 /\ l = x4 + 1 - x1
            BY <2>3, <4>1, <4>3, <6>1
          <6>3. m + a \in 1 .. x3 - 1 /\ (m + a) + 1 = m + (a + 1)
            BY <6>2
          <6>4. QED
            BY <6>1, <6>3
        <5>2. QED
          BY <2>3, <4>4, <4>6, <5>1
      <4>8. x = y
        BY <4>4, <4>6, <4>7, SeqEqual
      <4>9. QED
        BY <4>2, <4>8
    <3>6. PICK c, r : c = SubSeq(t, 1, n - 2) /\ r = Substituted[From(s, v.next)]
      OBVIOUS
    <3>7. Substituted[t] = (c \o v.text) \o r
      <4>1. Substituted[t] = SubstitutedAt(t, Substituted)
        BY <2>3, SubstitutedIs
      <4>2. ~ (FirstOf(t, {"$"}) > Len(t)) /\ (n - 1) - 1 = n - 2
        BY <1>3, <2>3, <2>4, <2>7
      <4>3. From(t, w.next) = SubSeq(t, w.next, Len(t))
        BY DEF From
      <4>4. QED
        BY <2>4, <3>1, <3>3, <3>5, <3>6, <4>1, <4>2, <4>3 DEF SubstitutedAt
    <3>8. SubSeq(s, 1, n - 1) = <<s[1]>> \o c
      <4>1. 1 \in 1 .. Len(s) /\ n - 1 \in 1 .. Len(s)
        BY <1>9, <1>11, <3>2
      <4>2. SubSeq(s, 1, n - 1) = <<s[1]>> \o SubSeq(s, 1 + 1, n - 1)
        BY <4>1, SubSeqRecursiveFirst
      <4>3. PICK y : y = SubSeq(s, 2, n - 1)
        OBVIOUS
      <4>4. 2 \in 1 .. Len(s) + 1 /\ n - 1 \in 2 - 1 .. Len(s) /\ (n - 1) - 2 + 1 = n - 2 /\ \A k \in Int : k + 2 - 1 = k + 1
        BY <1>3, <2>1, <4>1
      <4>5. y \in Seq(STRING) /\ Len(y) = n - 2 /\ \A k \in 1 .. n - 2 : y[k] = s[k + 1]
        BY <4>3, <4>4, SubIs
      <4>6. 1 \in 1 .. Len(t) + 1 /\ n - 2 \in 1 - 1 .. Len(t) /\ (n - 2) - 1 + 1 = n - 2 /\ \A k \in Int : k + 1 - 1 = k
        BY <2>1, <2>3, <3>2
      <4>7. c \in Seq(STRING) /\ Len(c) = n - 2 /\ \A k \in 1 .. n - 2 : c[k] = t[k]
        BY <2>3, <3>6, <4>6, SubIs
      <4>8. ASSUME NEW k \in 1 .. n - 2 PROVE c[k] = y[k]
        <5>1. k \in 1 .. Len(s) - 1
          BY <3>2
        <5>2. QED
          BY <2>3, <4>5, <4>7, <5>1
      <4>9. c = y
        BY <4>5, <4>7, <4>8, SeqEqual
      <4>10. QED
        BY <3>2, <4>2, <4>3, <4>9
    <3>9. c \in Texts /\ v.text \in Texts /\ r \in Texts /\ <<s[1]>> \in Texts
      <4>1. c \in Seq(STRING)
        <5>1. 1 \in 1 .. Len(t) + 1 /\ n - 2 \in 1 - 1 .. Len(t)
          BY <2>1, <2>3, <3>2
        <5>2. QED
          BY <2>3, <3>6, <5>1, SubIs
      <4>2. v.next \in 1 .. Len(s) + 1
        BY <2>3, <3>2, <3>3, <3>4
      <4>3. From(s, v.next) \in Seq(STRING)
        BY <4>2, FromIs
      <4>4. QED
        BY <1>6, <1>7, <2>5, <3>3, <3>4, <3>6, <4>1, <4>3, OneIs DEF Texts
    <3>10. (<<s[1]>> \o c) \o v.text = <<s[1]>> \o (c \o v.text)
      BY <3>9, TextsAre
    <3>11. c \o v.text \in Texts
      BY <3>9, TextsAre
    <3>12. (<<s[1]>> \o (c \o v.text)) \o r = <<s[1]>> \o ((c \o v.text) \o r)
      <4>1. PICK a, b : a = <<s[1]>> /\ b = c \o v.text
        OBVIOUS
      <4>2. a \in Texts /\ b \in Texts /\ r \in Texts
        BY <3>9, <3>11, <4>1
      <4>3. (a \o b) \o r = a \o (b \o r)
        BY <4>2, TextsAre
      <4>4. QED
        BY <4>1, <4>3
    <3>13. Substituted[s] = (SubSeq(s, 1, n - 1) \o v.text) \o r
      <4>1. ~ (n > Len(s))
        BY <1>3, <2>7
      <4>2. QED
        BY <1>5, <3>6, <4>1
    <3>14. QED
      BY <2>2, <3>7, <3>8, <3>10, <3>12, <3>13
  <2>8. QED
    BY <1>3, <2>6, <2>7
<1>12. QED
  BY <1>8, <1>10, <1>11

-----------------------------------------------------------------------------
(* FlattenSeq, as a recursion from the left. *)
FlattenAt(ss, f, n) == IF n = 1 THEN ss[n] ELSE f[n - 1] \o ss[n]
Flattens(ss) == CHOOSE f : f = [n \in 1 .. Len(ss) |-> FlattenAt(ss, f, n)]

(* FlattenSeq, one list after the other. *)
LEMMA FlattensIs ==
  ASSUME NEW S, NEW ss \in Seq(Seq(S))
  PROVE  /\ FlattenSeq(ss) = IF Len(ss) = 0 THEN ss ELSE Flattens(ss)[Len(ss)]
         /\ \A n \in 1 .. Len(ss) : /\ Flattens(ss)[n] \in Seq(S)
                                    /\ Flattens(ss)[n] = FlattenAt(ss, Flattens(ss), n)
<1>1. PICK D, V, rk : D = 1 .. Len(ss) /\ V = Seq(S) /\ rk = [n \in D |-> n]
  OBVIOUS
<1>2. PICK st : st = [z \in D \X [D -> V] |-> FlattenAt(ss, z[2], z[1])]
  OBVIOUS
<1>3. \A x \in D : \A f \in [D -> V] : st[<<x, f>>] = FlattenAt(ss, f, x)
  BY <1>2
<1>4. rk \in [D -> Nat] /\ (\A x \in D : rk[x] = x) /\ \A x \in D : x # 1 => x - 1 \in D /\ x - 1 < x
  BY <1>1
<1>5. \A x \in D : ss[x] \in V
  BY <1>1, ElementOfSeq
<1>6. \A a, b \in V : a \o b \in V
  BY <1>1, ConcatProperties
<1>a. ASSUME NEW x \in D, NEW f, NEW g, x # 1 => f[x - 1] = g[x - 1] PROVE FlattenAt(ss, f, x) = FlattenAt(ss, g, x)
  BY <1>a DEF FlattenAt
<1>7. Descends(D, V, rk, st)
  <2>1. st \in [D \X [D -> V] -> V]
    <3>1. ASSUME NEW x \in D, NEW f \in [D -> V] PROVE st[<<x, f>>] \in V
      <4>1. CASE x = 1
        BY <1>3, <1>5, <4>1 DEF FlattenAt
      <4>2. CASE x # 1
        <5>1. f[x - 1] \in V
          BY <1>4, <4>2
        <5>2. QED
          BY <1>3, <1>5, <1>6, <4>2, <5>1 DEF FlattenAt
      <4>3. QED
        BY <4>1, <4>2
    <3>2. QED
      BY <1>2, <3>1
  <2>2. ASSUME NEW x \in D, NEW f \in [D -> V], NEW g \in [D -> V],
               \A y \in D : rk[y] < rk[x] => f[y] = g[y]
        PROVE  st[<<x, f>>] = st[<<x, g>>]
    <3>1. x # 1 => f[x - 1] = g[x - 1]
      BY <1>4, <2>2
    <3>2. FlattenAt(ss, f, x) = FlattenAt(ss, g, x)
      BY <1>a, <3>1
    <3>3. QED
      BY <1>3, <3>2
  <2>3. QED
    BY <1>4, <2>1, <2>2 DEF Descends
<1>8. PICK f \in [D -> V] : \A x \in D : f[x] = st[<<x, f>>]
  <2>1. <<>> \in V
    BY <1>1
  <2>2. QED
    BY <1>7, <2>1, Recursion
<1> DEFINE Solved(g) == g = [n \in 1 .. Len(ss) |-> FlattenAt(ss, g, n)]
<1>9. Solved(f)
  BY <1>1, <1>3, <1>8
<1>10. PICK h : h = Flattens(ss) /\ Solved(h)
  <2>1. Flattens(ss) = CHOOSE g : Solved(g)
    BY DEF Flattens
  <2>2. QED
    BY <1>9, <2>1
<1>11. \A x \in D : h[x] = FlattenAt(ss, h, x)
  BY <1>1, <1>10
<1> DEFINE R == {x \in D : h[x] = f[x]}
<1>12. ASSUME NEW x \in D, \A y \in D : rk[y] < rk[x] => y \in R PROVE x \in R
  <2>1. x # 1 => h[x - 1] = f[x - 1]
    BY <1>4, <1>12
  <2>2. FlattenAt(ss, h, x) = FlattenAt(ss, f, x)
    BY <1>a, <2>1
  <2>3. QED
    BY <1>3, <1>8, <1>11, <2>2
<1>13. \A x \in D : x \in R
  <2> HIDE DEF R
  <2>1. \A x \in D : (\A y \in D : rk[y] < rk[x] => y \in R) => x \in R
    BY <1>12
  <2>2. QED
    BY <1>4, <2>1, ByRank
<1>14. \A n \in D : h[n] \in V /\ h[n] = FlattenAt(ss, h, n)
  BY <1>8, <1>11, <1>13
<1>15. FlattenSeq(ss) = IF Len(ss) = 0 THEN ss ELSE Flattens(ss)[Len(ss)]
  BY DEF FlattenSeq, Flattens, FlattenAt
<1>16. QED
  BY <1>1, <1>10, <1>14, <1>15

(* It begins with nothing. *)
LEMMA FlattenEmpty == FlattenSeq(<<>>) = <<>>
<1>1. <<>> \in Seq(Seq({})) /\ Len(<<>>) = 0
  OBVIOUS
<1>2. QED
  BY <1>1, FlattensIs

(* What is flattened is a list of what the lists are of. *)
LEMMA FlattenType == ASSUME NEW S, NEW ss \in Seq(Seq(S)) PROVE FlattenSeq(ss) \in Seq(S)
<1>1. CASE Len(ss) = 0
  BY <1>1, EmptySeq, FlattenEmpty
<1>2. CASE Len(ss) # 0
  <2>1. Len(ss) \in 1 .. Len(ss)
    BY <1>2
  <2>2. QED
    BY <1>2, <2>1, FlattensIs
<1>3. QED
  BY <1>1, <1>2

(* One list more at the end. *)
LEMMA FlattenAppend ==
  ASSUME NEW S, NEW ss \in Seq(Seq(S)), NEW x \in Seq(S)
  PROVE  FlattenSeq(Append(ss, x)) = FlattenSeq(ss) \o x
<1>1. PICK tt : tt = Append(ss, x)
  OBVIOUS
<1>2. PICK l \in Nat : l = Len(ss)
  OBVIOUS
<1>3. tt \in Seq(Seq(S)) /\ Len(tt) = l + 1 /\ (\A n \in 1 .. l : tt[n] = ss[n]) /\ tt[l + 1] = x
  BY <1>1, <1>2, AppendProperties
<1>4. PICK f, g : f = Flattens(ss) /\ g = Flattens(tt)
  OBVIOUS
<1>5. \A n \in 1 .. l : f[n] \in Seq(S) /\ f[n] = IF n = 1 THEN ss[n] ELSE f[n - 1] \o ss[n]
  BY <1>2, <1>4, FlattensIs DEF FlattenAt
<1>6. \A n \in 1 .. l + 1 : g[n] \in Seq(S) /\ g[n] = IF n = 1 THEN tt[n] ELSE g[n - 1] \o tt[n]
  <2>1. \A n \in 1 .. Len(tt) : g[n] \in Seq(S) /\ g[n] = FlattenAt(tt, g, n)
    BY <1>3, <1>4, FlattensIs
  <2>2. QED
    BY <1>3, <2>1 DEF FlattenAt
<1>7. FlattenSeq(tt) = g[l + 1]
  <2>1. FlattenSeq(tt) = IF Len(tt) = 0 THEN tt ELSE g[Len(tt)]
    BY <1>3, <1>4, FlattensIs
  <2>2. QED
    BY <1>3, <2>1
<1>8. CASE l = 0
  <2>1. ss = <<>>
    BY <1>2, <1>8, EmptySeq
  <2>2. FlattenSeq(tt) = x
    BY <1>3, <1>6, <1>7, <1>8
  <2>3. QED
    BY <1>1, <2>1, <2>2, FlattenEmpty, ConcatEmptySeq
<1>9. CASE l # 0
  <2> DEFINE R == {n \in 1 .. l : f[n] = g[n]}
  <2>1. 1 \in R
    BY <1>3, <1>5, <1>6, <1>9
  <2>2. ASSUME NEW n \in 1 .. l - 1, n \in R PROVE n + 1 \in R
    <3>1. n + 1 \in 1 .. l /\ n + 1 \in 1 .. l + 1 /\ n + 1 # 1 /\ (n + 1) - 1 = n
      OBVIOUS
    <3>2. QED
      BY <1>3, <1>5, <1>6, <2>2, <3>1
  <2>3. l \in R
    <3> HIDE DEF R
    <3>0. 1 \in Int /\ l \in Int /\ \A n \in 1 .. l - 1 : n \in R => n + 1 \in R
      BY <2>2
    <3>1. \A n \in 1 .. l : n \in R
      BY <2>1, <3>0, Upward
    <3>2. QED
      BY <1>9, <3>1
  <2>4. FlattenSeq(ss) = f[l]
    BY <1>2, <1>4, <1>9, FlattensIs
  <2>5. l + 1 \in 1 .. l + 1 /\ l + 1 # 1 /\ (l + 1) - 1 = l
    BY <1>9
  <2>6. g[l + 1] = g[l] \o x
    BY <1>3, <1>6, <2>5
  <2>7. QED
    BY <1>1, <1>7, <2>3, <2>4, <2>6
<1>10. QED
  BY <1>8, <1>9

(* One list more in front. *)
LEMMA FlattenCons ==
  ASSUME NEW S, NEW ss \in Seq(Seq(S)), NEW x \in Seq(S)
  PROVE  FlattenSeq(<<x>> \o ss) = x \o FlattenSeq(ss)
<1>1. PICK tt : tt = <<x>> \o ss
  OBVIOUS
<1>2. PICK l \in Nat : l = Len(ss)
  OBVIOUS
<1>3. tt \in Seq(Seq(S)) /\ Len(tt) = l + 1 /\ (\A n \in 1 .. l : tt[n + 1] = ss[n]) /\ tt[1] = x
  <2>1. <<x>> \in Seq(Seq(S)) /\ Len(<<x>>) = 1 /\ <<x>>[1] = x
    BY OneIs
  <2>2. tt \in Seq(Seq(S)) /\ Len(tt) = 1 + l
        /\ \A n \in 1 .. 1 + l : tt[n] = IF n <= 1 THEN <<x>>[n] ELSE ss[n - 1]
    BY <1>1, <1>2, <2>1, ConcatProperties
  <2>3. ASSUME NEW n \in 1 .. l PROVE tt[n + 1] = ss[n]
    <3>1. n + 1 \in 1 .. 1 + l /\ ~ (n + 1 <= 1) /\ (n + 1) - 1 = n
      OBVIOUS
    <3>2. tt[n + 1] = ss[(n + 1) - 1]
      BY <2>2, <3>1
    <3>3. QED
      BY <3>1, <3>2
  <2>4. tt[1] = x /\ 1 + l = l + 1
    BY <2>1, <2>2
  <2>5. QED
    BY <2>2, <2>3, <2>4
<1>4. PICK f, g : f = Flattens(ss) /\ g = Flattens(tt)
  OBVIOUS
<1>5. \A n \in 1 .. l : f[n] \in Seq(S) /\ f[n] = IF n = 1 THEN ss[n] ELSE f[n - 1] \o ss[n]
  BY <1>2, <1>4, FlattensIs DEF FlattenAt
<1>6. \A n \in 1 .. l + 1 : g[n] \in Seq(S) /\ g[n] = IF n = 1 THEN tt[n] ELSE g[n - 1] \o tt[n]
  <2>1. \A n \in 1 .. Len(tt) : g[n] \in Seq(S) /\ g[n] = FlattenAt(tt, g, n)
    BY <1>3, <1>4, FlattensIs
  <2>2. QED
    BY <1>3, <2>1 DEF FlattenAt
<1>7. FlattenSeq(tt) = g[l + 1]
  <2>1. FlattenSeq(tt) = IF Len(tt) = 0 THEN tt ELSE g[Len(tt)]
    BY <1>3, <1>4, FlattensIs
  <2>2. QED
    BY <1>3, <2>1
<1>8. g[1] = x
  BY <1>3, <1>6
<1>9. CASE l = 0
  <2>1. ss = <<>>
    BY <1>2, <1>9, EmptySeq
  <2>2. QED
    BY <1>1, <1>7, <1>8, <1>9, <2>1, FlattenEmpty, ConcatEmptySeq
<1>10. CASE l # 0
  <2> DEFINE R == {n \in 1 .. l : g[n + 1] = x \o f[n]}
  <2>1. 1 \in R
    <3>1. 1 + 1 \in 1 .. l + 1 /\ 1 + 1 # 1 /\ (1 + 1) - 1 = 1 /\ 1 \in 1 .. l
      BY <1>10
    <3>2. g[1 + 1] = g[1] \o tt[1 + 1]
      BY <1>6, <3>1
    <3>3. tt[1 + 1] = ss[1] /\ f[1] = ss[1]
      BY <1>3, <1>5, <3>1
    <3>4. QED
      BY <1>8, <3>1, <3>2, <3>3
  <2>2. ASSUME NEW n \in 1 .. l - 1, n \in R PROVE n + 1 \in R
    <3>1. /\ n + 1 \in 1 .. l /\ (n + 1) + 1 \in 1 .. l + 1 /\ (n + 1) + 1 # 1 /\ ((n + 1) + 1) - 1 = n + 1
          /\ n + 1 # 1 /\ (n + 1) - 1 = n /\ n \in 1 .. l
      OBVIOUS
    <3>2. g[(n + 1) + 1] = g[n + 1] \o tt[(n + 1) + 1]
      BY <1>6, <3>1
    <3>3. tt[(n + 1) + 1] = ss[n + 1] /\ f[n + 1] = f[n] \o ss[n + 1] /\ f[n] \in Seq(S) /\ ss[n + 1] \in Seq(S)
      <4>1. ss[n + 1] \in Seq(S)
        BY <1>2, <3>1, ElementOfSeq
      <4>2. QED
        BY <1>3, <1>5, <3>1, <4>1
    <3>4. \A a, b \in Seq(S) : (x \o a) \o b = x \o (a \o b)
      BY ConcatAssociative
    <3>5. QED
      BY <2>2, <3>1, <3>2, <3>3, <3>4
  <2>3. l \in R
    <3> HIDE DEF R
    <3>0. 1 \in Int /\ l \in Int /\ \A n \in 1 .. l - 1 : n \in R => n + 1 \in R
      BY <2>2
    <3>1. \A n \in 1 .. l : n \in R
      BY <2>1, <3>0, Upward
    <3>2. QED
      BY <1>10, <3>1
  <2>4. FlattenSeq(ss) = f[l]
    BY <1>2, <1>4, <1>10, FlattensIs
  <2>5. QED
    BY <1>1, <1>7, <2>3, <2>4
<1>11. QED
  BY <1>9, <1>10

-----------------------------------------------------------------------------
(* The parts of a word. *)
Pieces == [quote : States, text : Seq(STRING)]
Cut(s) == IF Head(s) \in Quotes THEN FirstOf(Tail(s), {Head(s)}) ELSE FirstOf(s, Quotes)
FirstPart(s) == IF Head(s) \in Quotes THEN [quote |-> Head(s), text |-> SubSeq(s, 2, Cut(s))]
                ELSE [quote |-> NoQuote, text |-> SubSeq(s, 1, Cut(s) - 1)]
OtherParts(s) == SubSeq(s, IF Head(s) \in Quotes THEN Cut(s) + 2 ELSE Cut(s), Len(s))
PartsAt(s, f) == IF s = <<>> THEN <<>> ELSE <<FirstPart(s)>> \o f[OtherParts(s)]

(* The first part is a piece, and what follows it is shorter. *)
LEMMA PartIs ==
  ASSUME NEW s \in Seq(STRING), s # <<>>
  PROVE  /\ Head(s) = s[1] /\ Tail(s) = From(s, 2)
         /\ FirstPart(s) \in Pieces /\ OtherParts(s) \in Seq(STRING) /\ Len(OtherParts(s)) < Len(s)
<1>1. Head(s) = s[1] /\ Tail(s) = From(s, 2)
  <2>1. Head(s) = s[1]
    OBVIOUS
  <2>2. QED
    BY <2>1, TailIsSubSeq DEF From
<1>2. PICK t : t = From(s, 2)
  OBVIOUS
<1>3. t \in Seq(STRING) /\ Len(t) = Len(s) - 1 /\ Len(s) \in Nat /\ Len(s) > 0
  BY <1>2, TailIs
<1>4. CASE s[1] \in Quotes
  <2>1. PICK n : n = FirstOf(t, {s[1]})
    OBVIOUS
  <2>2. n \in 1 .. Len(s)
    <3>1. n \in 1 .. Len(t) + 1
      BY <1>3, <2>1, FirstIs
    <3>2. QED
      BY <1>3, <3>1
  <2>3. Cut(s) = n
    BY <1>1, <1>2, <1>4, <2>1 DEF Cut
  <2>4. SubSeq(s, 2, n) \in Seq(STRING)
    BY <1>3, <2>2, SubShorter
  <2>5. n + 2 \in Nat /\ n + 2 > 1 /\ Len(s) \in Int /\ Len(s) <= Len(s)
    BY <1>3, <2>2
  <2>6. SubSeq(s, n + 2, Len(s)) \in Seq(STRING) /\ Len(SubSeq(s, n + 2, Len(s))) < Len(s)
    BY <2>5, SubShorter
  <2>7. [quote |-> s[1], text |-> SubSeq(s, 2, n)] \in Pieces
    BY <1>4, <2>4 DEF Pieces, States
  <2>8. FirstPart(s) = [quote |-> s[1], text |-> SubSeq(s, 2, n)] /\ OtherParts(s) = SubSeq(s, n + 2, Len(s))
    BY <1>1, <1>4, <2>3 DEF FirstPart, OtherParts
  <2>9. QED
    BY <1>1, <2>6, <2>7, <2>8
<1>5. CASE s[1] \notin Quotes
  <2>1. PICK n : n = FirstOf(s, Quotes)
    OBVIOUS
  <2>2. n \in 1 .. Len(s) + 1 /\ (n <= Len(s) => s[n] \in Quotes)
    BY <2>1, FirstIs
  <2>3. n > 1
    BY <1>3, <1>5, <2>2
  <2>4. Cut(s) = n
    BY <1>1, <1>5, <2>1 DEF Cut
  <2>5. 1 \in 1 .. Len(s) + 1 /\ n - 1 \in 1 - 1 .. Len(s)
    BY <1>3, <2>2
  <2>6. SubSeq(s, 1, n - 1) \in Seq(STRING)
    BY <2>5, SubIs
  <2>7. SubSeq(s, n, Len(s)) \in Seq(STRING) /\ Len(SubSeq(s, n, Len(s))) < Len(s)
    <3>1. n \in Nat /\ Len(s) \in Int /\ Len(s) <= Len(s)
      BY <1>3, <2>2
    <3>2. QED
      BY <2>3, <3>1, SubShorter
  <2>8. [quote |-> NoQuote, text |-> SubSeq(s, 1, n - 1)] \in Pieces
    BY <2>6 DEF Pieces, States
  <2>9. FirstPart(s) = [quote |-> NoQuote, text |-> SubSeq(s, 1, n - 1)] /\ OtherParts(s) = SubSeq(s, n, Len(s))
    BY <1>1, <1>5, <2>4 DEF FirstPart, OtherParts
  <2>10. QED
    BY <1>1, <2>7, <2>8, <2>9
<1>6. QED
  BY <1>4, <1>5

(* The parts of a word: its first part, and the parts of what is behind it. *)
LEMMA PartsIs ==
  ASSUME NEW s \in Seq(STRING)
  PROVE  Parts[s] \in Seq(Pieces) /\ Parts[s] = PartsAt(s, Parts)
<1>1. PICK D, V, rk : D = Seq(STRING) /\ V = Seq(Pieces) /\ rk = [t \in D |-> Len(t)]
  OBVIOUS
<1>2. PICK st : st = [z \in D \X [D -> V] |-> PartsAt(z[1], z[2])]
  OBVIOUS
<1>3. \A x \in D : \A f \in [D -> V] : st[<<x, f>>] = PartsAt(x, f)
  BY <1>2
<1>4. rk \in [D -> Nat] /\ \A x \in D : rk[x] = Len(x)
  BY <1>1
<1>5. ASSUME NEW x \in D, NEW f \in [D -> V] PROVE PartsAt(x, f) \in V
  <2>1. CASE x = <<>>
    BY <1>1, <2>1 DEF PartsAt
  <2>2. CASE x # <<>>
    <3>1. FirstPart(x) \in Pieces /\ OtherParts(x) \in D
      BY <1>1, <2>2, PartIs
    <3>2. <<FirstPart(x)>> \in V /\ f[OtherParts(x)] \in V
      BY <1>1, <3>1, OneIs
    <3>3. <<FirstPart(x)>> \o f[OtherParts(x)] \in V
      BY <1>1, <3>2, ConcatProperties
    <3>4. QED
      BY <2>2, <3>3 DEF PartsAt
  <2>3. QED
    BY <2>1, <2>2
<1>6. ASSUME NEW x \in D, NEW f, NEW g, \A y \in D : rk[y] < rk[x] => f[y] = g[y]
      PROVE  PartsAt(x, f) = PartsAt(x, g)
  <2>1. CASE x = <<>>
    BY <2>1 DEF PartsAt
  <2>2. CASE x # <<>>
    <3>1. OtherParts(x) \in D /\ Len(OtherParts(x)) < Len(x)
      BY <1>1, <2>2, PartIs
    <3>2. f[OtherParts(x)] = g[OtherParts(x)]
      BY <1>4, <1>6, <3>1
    <3>3. QED
      BY <2>2, <3>2 DEF PartsAt
  <2>3. QED
    BY <2>1, <2>2
<1>7. Descends(D, V, rk, st)
  <2>1. st \in [D \X [D -> V] -> V]
    <3>1. ASSUME NEW x \in D, NEW f \in [D -> V] PROVE st[<<x, f>>] \in V
      BY <1>3, <1>5
    <3>2. QED
      BY <1>2, <3>1
  <2>2. ASSUME NEW x \in D, NEW f \in [D -> V], NEW g \in [D -> V],
               \A y \in D : rk[y] < rk[x] => f[y] = g[y]
        PROVE  st[<<x, f>>] = st[<<x, g>>]
    <3>1. PartsAt(x, f) = PartsAt(x, g)
      BY <1>6, <2>2
    <3>2. QED
      BY <1>3, <3>1
  <2>3. QED
    BY <1>4, <2>1, <2>2 DEF Descends
<1>8. PICK f \in [D -> V] : \A x \in D : f[x] = st[<<x, f>>]
  <2>1. <<>> \in V
    BY <1>1
  <2>2. QED
    BY <1>7, <2>1, Recursion
<1> DEFINE Solved(g) == g = [t \in Seq(STRING) |-> PartsAt(t, g)]
<1>9. Solved(f)
  BY <1>1, <1>3, <1>8
<1>10. Parts = CHOOSE g : Solved(g)
  <2>1. ASSUME NEW t, NEW g
        PROVE  PartsAt(t, g)
               = IF t = <<>> THEN <<>>
                 ELSE IF Head(t) \in Quotes
                      THEN LET n == FirstOf(Tail(t), {Head(t)}) IN
                           <<[quote |-> Head(t), text |-> SubSeq(t, 2, n)]>> \o g[SubSeq(t, n + 2, Len(t))]
                      ELSE LET n == FirstOf(t, Quotes) IN
                           <<[quote |-> NoQuote, text |-> SubSeq(t, 1, n - 1)]>> \o g[SubSeq(t, n, Len(t))]
    BY DEF PartsAt, FirstPart, OtherParts, Cut
  <2>2. QED
    BY <2>1 DEF Parts
<1>11. PICK z : z = Parts /\ Solved(z)
  BY <1>9, <1>10
<1>12. \A x \in D : z[x] = PartsAt(x, z)
  BY <1>1, <1>11
<1> DEFINE S == {x \in D : z[x] = f[x]}
<1>13. ASSUME NEW x \in D, \A y \in D : rk[y] < rk[x] => y \in S PROVE x \in S
  <2>1. PartsAt(x, z) = PartsAt(x, f)
    BY <1>6, <1>13
  <2>2. QED
    BY <1>3, <1>8, <1>12, <2>1
<1>14. \A x \in D : x \in S
  <2> HIDE DEF S
  <2>1. \A x \in D : (\A y \in D : rk[y] < rk[x] => y \in S) => x \in S
    BY <1>13
  <2>2. QED
    BY <1>4, <2>1, ByRank
<1>15. s \in D /\ z[s] = f[s] /\ f[s] \in V
  BY <1>1, <1>8, <1>14
<1>16. QED
  BY <1>1, <1>11, <1>12, <1>15

-----------------------------------------------------------------------------
(* What a part comes to, and a word, part by part. *)
Worth(p) == IF p.quote = Sq THEN p.text ELSE Substituted[p.text]

(* Both are texts. *)
LEMMA WorthIs == ASSUME NEW p \in Pieces PROVE Worth(p) \in Texts /\ p.text \in Texts
<1>1. p.text \in Seq(STRING)
  BY DEF Pieces
<1>2. p.text \in Texts
  BY <1>1, TextsAre
<1>3. Substituted[p.text] \in Texts
  BY <1>1, SubstitutedIs
<1>4. QED
  BY <1>2, <1>3 DEF Worth

(* What a list of parts comes to. *)
LEMMA WorthsAre ==
  ASSUME NEW ps \in Seq(Pieces)
  PROVE  /\ [k \in DOMAIN ps |-> Worth(ps[k])] \in Seq(Texts) /\ [k \in DOMAIN ps |-> ps[k].text] \in Seq(Texts)
         /\ \A p \in Pieces :
               /\ [k \in DOMAIN (<<p>> \o ps) |-> Worth((<<p>> \o ps)[k])]
                     = <<Worth(p)>> \o [k \in DOMAIN ps |-> Worth(ps[k])]
               /\ [k \in DOMAIN (<<p>> \o ps) |-> (<<p>> \o ps)[k].text]
                     = <<p.text>> \o [k \in DOMAIN ps |-> ps[k].text]
<1>1. PICK l \in Nat : l = Len(ps) /\ DOMAIN ps = 1 .. l
  BY LenProperties
<1>2. \A k \in 1 .. l : ps[k] \in Pieces
  BY <1>1, ElementOfSeq
<1>3. PICK W, T : W = [k \in 1 .. l |-> Worth(ps[k])] /\ T = [k \in 1 .. l |-> ps[k].text]
  OBVIOUS
<1>4. W \in [1 .. l -> Texts] /\ T \in [1 .. l -> Texts]
  BY <1>2, <1>3, WorthIs
<1>5. W \in Seq(Texts) /\ T \in Seq(Texts) /\ Len(W) = l /\ Len(T) = l
  <2>1. W \in Seq(Texts) /\ T \in Seq(Texts)
    BY <1>4, SeqDef
  <2>2. DOMAIN W = 1 .. l /\ DOMAIN T = 1 .. l /\ DOMAIN W = 1 .. Len(W) /\ DOMAIN T = 1 .. Len(T)
        /\ Len(W) \in Nat /\ Len(T) \in Nat
    BY <1>4, <2>1, LenProperties
  <2>3. QED
    BY <2>1, <2>2
<1>6. ASSUME NEW p \in Pieces
      PROVE  /\ [k \in DOMAIN (<<p>> \o ps) |-> Worth((<<p>> \o ps)[k])] = <<Worth(p)>> \o W
             /\ [k \in DOMAIN (<<p>> \o ps) |-> (<<p>> \o ps)[k].text] = <<p.text>> \o T
  <2>1. PICK r : r = <<p>> \o ps
    OBVIOUS
  <2>2. <<p>> \in Seq(Pieces) /\ Len(<<p>>) = 1 /\ <<p>>[1] = p
    BY OneIs
  <2>3. r \in Seq(Pieces) /\ Len(r) = 1 + l /\ \A k \in 1 .. 1 + l : r[k] = IF k <= 1 THEN <<p>>[k] ELSE ps[k - 1]
    BY <1>1, <2>1, <2>2, ConcatProperties
  <2>4. DOMAIN r = 1 .. 1 + l
    BY <2>3
  <2>5. Worth(p) \in Texts /\ p.text \in Texts
    BY WorthIs
  <2>6. PICK A, B : A = <<Worth(p)>> \o W /\ B = <<p.text>> \o T
    OBVIOUS
  <2>7. <<Worth(p)>> \in Seq(Texts) /\ Len(<<Worth(p)>>) = 1 /\ <<Worth(p)>>[1] = Worth(p)
    BY <2>5, OneIs
  <2>8. <<p.text>> \in Seq(Texts) /\ Len(<<p.text>>) = 1 /\ <<p.text>>[1] = p.text
    BY <2>5, OneIs
  <2>9. A \in Seq(Texts) /\ Len(A) = 1 + l /\ \A k \in 1 .. 1 + l : A[k] = IF k <= 1 THEN <<Worth(p)>>[k] ELSE W[k - 1]
    BY <1>5, <2>6, <2>7, ConcatProperties
  <2>10. B \in Seq(Texts) /\ Len(B) = 1 + l /\ \A k \in 1 .. 1 + l : B[k] = IF k <= 1 THEN <<p.text>>[k] ELSE T[k - 1]
    BY <1>5, <2>6, <2>8, ConcatProperties
  <2>11. ASSUME NEW k \in 1 .. 1 + l PROVE Worth(r[k]) = A[k] /\ r[k].text = B[k]
    <3>1. CASE k = 1
      <4>1. 1 \in 1 .. 1 + l /\ 1 <= 1
        OBVIOUS
      <4>2. QED
        BY <2>2, <2>3, <2>7, <2>8, <2>9, <2>10, <3>1, <4>1
    <3>2. CASE k # 1
      <4>1. k - 1 \in 1 .. l /\ ~ (k <= 1)
        BY <3>2
      <4>2. QED
        BY <1>3, <2>3, <2>9, <2>10, <4>1
    <3>3. QED
      BY <3>1, <3>2
  <2>12. A = [k \in 1 .. 1 + l |-> A[k]] /\ B = [k \in 1 .. 1 + l |-> B[k]]
    <3>1. A \in [1 .. Len(A) -> Texts] /\ B \in [1 .. Len(B) -> Texts]
      BY <2>9, <2>10, LenProperties
    <3>2. QED
      BY <2>9, <2>10, <3>1
  <2>13. [k \in 1 .. 1 + l |-> Worth(r[k])] = A /\ [k \in 1 .. 1 + l |-> r[k].text] = B
    BY <2>11, <2>12
  <2>14. QED
    BY <2>1, <2>4, <2>6, <2>13
<1>7. QED
  BY <1>1, <1>3, <1>5, <1>6

(* The meaning of a word, and its spelling without quotes, part by part. *)
LEMMA MeaningIs ==
  ASSUME NEW s \in Seq(STRING)
  PROVE  /\ Meaning(s) \in Texts /\ Literal(s) \in Texts
         /\ s = <<>> => Meaning(s) = <<>> /\ Literal(s) = <<>>
         /\ s # <<>> => /\ Meaning(s) = Worth(FirstPart(s)) \o Meaning(OtherParts(s))
                        /\ Literal(s) = FirstPart(s).text \o Literal(OtherParts(s))
<1>1. \A t : /\ Meaning(t) = FlattenSeq([k \in DOMAIN Parts[t] |-> Worth(Parts[t][k])])
             /\ Literal(t) = FlattenSeq([k \in DOMAIN Parts[t] |-> Parts[t][k].text])
  BY DEF Meaning, Literal, Worth
<1>2. \A t \in Seq(STRING) : Meaning(t) \in Texts /\ Literal(t) \in Texts
  <2>1. TAKE t \in Seq(STRING)
  <2>2. Parts[t] \in Seq(Pieces)
    BY PartsIs
  <2>3. [k \in DOMAIN Parts[t] |-> Worth(Parts[t][k])] \in Seq(Seq(Chars))
        /\ [k \in DOMAIN Parts[t] |-> Parts[t][k].text] \in Seq(Seq(Chars))
    BY <2>2, WorthsAre DEF Texts
  <2>4. QED
    BY <1>1, <2>3, FlattenType DEF Texts
<1>3. ASSUME s = <<>> PROVE Meaning(s) = <<>> /\ Literal(s) = <<>>
  <2>1. Parts[s] = <<>>
    BY <1>3, PartsIs DEF PartsAt
  <2>2. PICK ps : ps = Parts[s]
    OBVIOUS
  <2>4. [k \in DOMAIN ps |-> Worth(ps[k])] = <<>> /\ [k \in DOMAIN ps |-> ps[k].text] = <<>>
    BY <2>1, <2>2
  <2>5. QED
    BY <1>1, <2>2, <2>4, FlattenEmpty
<1>4. ASSUME s # <<>>
      PROVE  /\ Meaning(s) = Worth(FirstPart(s)) \o Meaning(OtherParts(s))
             /\ Literal(s) = FirstPart(s).text \o Literal(OtherParts(s))
  <2>1. PICK p, o : p = FirstPart(s) /\ o = OtherParts(s)
    OBVIOUS
  <2>2. p \in Pieces /\ o \in Seq(STRING)
    BY <1>4, <2>1, PartIs
  <2>3. PICK ps : ps = Parts[o]
    OBVIOUS
  <2>4. ps \in Seq(Pieces)
    BY <2>2, <2>3, PartsIs
  <2>5. Parts[s] = <<p>> \o ps
    BY <1>4, <2>1, <2>3, PartsIs DEF PartsAt
  <2>6. PICK W, T : W = [k \in DOMAIN ps |-> Worth(ps[k])] /\ T = [k \in DOMAIN ps |-> ps[k].text]
    OBVIOUS
  <2>7. W \in Seq(Seq(Chars)) /\ T \in Seq(Seq(Chars))
    BY <2>4, <2>6, WorthsAre DEF Texts
  <2>8. Worth(p) \in Seq(Chars) /\ p.text \in Seq(Chars)
    BY <2>2, WorthIs DEF Texts
  <2>9. Meaning(s) = FlattenSeq(<<Worth(p)>> \o W) /\ Literal(s) = FlattenSeq(<<p.text>> \o T)
    <3>1. PICK r : r = <<p>> \o ps
      OBVIOUS
    <3>2. /\ [k \in DOMAIN r |-> Worth(r[k])] = <<Worth(p)>> \o W
          /\ [k \in DOMAIN r |-> r[k].text] = <<p.text>> \o T
      BY <2>2, <2>4, <2>6, <3>1, WorthsAre
    <3>3. QED
      BY <1>1, <2>5, <3>1, <3>2
  <2>10. Meaning(o) = FlattenSeq(W) /\ Literal(o) = FlattenSeq(T)
    BY <1>1, <2>3, <2>6
  <2>11. FlattenSeq(<<Worth(p)>> \o W) = Worth(p) \o FlattenSeq(W)
         /\ FlattenSeq(<<p.text>> \o T) = p.text \o FlattenSeq(T)
    BY <2>7, <2>8, FlattenCons
  <2>12. QED
    BY <2>1, <2>9, <2>10, <2>11
<1>5. QED
  BY <1>2, <1>3, <1>4

-----------------------------------------------------------------------------
(* The characters that change the quote q. *)
Ends(q) == IF q = NoQuote THEN Quotes ELSE {q}

(* Those and no others. *)
LEMMA EndsAre == ASSUME NEW q \in States, NEW c PROVE Toggle(q, c) # q <=> c \in Ends(q)
  BY DEF Toggle, States, Ends, Quotes, NoQuote, Sq, Dq

(* Where they are first, in what is left of s from k on. *)
LEMMA FirstFrom ==
  ASSUME NEW s \in Seq(STRING), NEW cs, NEW k \in 1 .. FirstOf(s, cs)
  PROVE  /\ FirstOf(From(s, k), cs) = FirstOf(s, cs) - (k - 1)
         /\ From(From(s, k), FirstOf(s, cs) - (k - 1)) = From(s, FirstOf(s, cs))
         /\ SubSeq(From(s, k), 1, FirstOf(s, cs) - k) = From(SubSeq(s, 1, FirstOf(s, cs) - 1), k)
<1>1. PICK n, l : n = FirstOf(s, cs) /\ l = Len(s)
  OBVIOUS
<1>2. n \in 1 .. l + 1 /\ (n <= l => s[n] \in cs) /\ (\A m \in 1 .. n - 1 : s[m] \notin cs) /\ l \in Nat /\ k \in 1 .. n
  BY <1>1, FirstIs
<1>3. PICK t : t = From(s, k)
  OBVIOUS
<1>4. t \in Seq(STRING) /\ Len(t) = l + 1 - k /\ \A m \in 1 .. l + 1 - k : t[m] = s[m + (k - 1)]
  <2>1. k \in 1 .. Len(s) + 1
    BY <1>1, <1>2
  <2>2. QED
    BY <1>1, <1>3, <2>1, FromIs
<1>5. PICK o \in 1 .. l + 2 - k : o = FirstOf(t, cs)
  <2>1. FirstOf(t, cs) \in 1 .. Len(t) + 1
    BY <1>4, FirstIs
  <2>2. QED
    BY <1>2, <1>4, <2>1
<1>6. (o <= l + 1 - k => t[o] \in cs) /\ (\A m \in 1 .. o - 1 : t[m] \notin cs)
  BY <1>4, <1>5, FirstIs
<1>7. o = n - (k - 1)
  <2>1. ASSUME o < n - (k - 1) PROVE FALSE
    <3>1. o \in 1 .. l + 1 - k /\ o + (k - 1) \in 1 .. n - 1 /\ o <= l + 1 - k
      BY <1>2, <2>1
    <3>2. QED
      BY <1>2, <1>4, <1>6, <3>1
  <2>2. ASSUME o > n - (k - 1) PROVE FALSE
    <3>1. PICK m \in Int : m = n - (k - 1)
      BY <1>2
    <3>2. m \in 1 .. l + 1 - k /\ m \in 1 .. o - 1 /\ m + (k - 1) = n /\ n <= l
      BY <1>2, <2>2, <3>1
    <3>3. QED
      BY <1>2, <1>4, <1>6, <3>2
  <2>3. QED
    BY <1>2, <2>1, <2>2
<1>8. From(t, o) = From(s, n)
  <2>1. PICK x, y : x = From(t, o) /\ y = From(s, n)
    OBVIOUS
  <2>2. x \in Seq(STRING) /\ Len(x) = Len(t) + 1 - o /\ \A m \in 1 .. Len(t) + 1 - o : x[m] = t[m + (o - 1)]
    <3>1. o \in 1 .. Len(t) + 1
      BY <1>2, <1>4, <1>7
    <3>2. QED
      BY <1>4, <2>1, <3>1, FromIs
  <2>3. y \in Seq(STRING) /\ Len(y) = l + 1 - n /\ \A m \in 1 .. l + 1 - n : y[m] = s[m + (n - 1)]
    <3>1. n \in 1 .. Len(s) + 1
      BY <1>1, <1>2
    <3>2. y \in Seq(STRING) /\ Len(y) = Len(s) + 1 - n /\ \A m \in 1 .. Len(s) + 1 - n : y[m] = s[m + (n - 1)]
      BY <2>1, <3>1, FromIs
    <3>3. QED
      BY <1>1, <3>2
  <2>4. Len(t) + 1 - o = l + 1 - n
    BY <1>2, <1>4, <1>7
  <2>5. ASSUME NEW m \in 1 .. l + 1 - n PROVE x[m] = y[m]
    <3>1. m + (o - 1) \in 1 .. l + 1 - k /\ (m + (o - 1)) + (k - 1) = m + (n - 1)
      BY <1>2, <1>7
    <3>2. QED
      BY <1>4, <2>2, <2>3, <2>4, <3>1
  <2>6. x = y
    BY <2>2, <2>3, <2>4, <2>5, SeqEqual
  <2>7. QED
    BY <2>1, <2>6
<1>9. SubSeq(t, 1, n - k) = From(SubSeq(s, 1, n - 1), k)
  <2>1. PICK a : a = SubSeq(s, 1, n - 1)
    OBVIOUS
  <2>2. a \in Seq(STRING) /\ Len(a) = n - 1 /\ \A m \in 1 .. n - 1 : a[m] = s[m]
    <3>1. 1 \in 1 .. Len(s) + 1 /\ n - 1 \in 1 - 1 .. Len(s) /\ (n - 1) - 1 + 1 = n - 1 /\ \A m \in Int : m + 1 - 1 = m
      BY <1>1, <1>2
    <3>2. QED
      BY <2>1, <3>1, SubIs
  <2>3. PICK x, y : x = SubSeq(t, 1, n - k) /\ y = From(a, k)
    OBVIOUS
  <2>4. x \in Seq(STRING) /\ Len(x) = n - k /\ \A m \in 1 .. n - k : x[m] = t[m]
    <3>1. 1 \in 1 .. Len(t) + 1 /\ n - k \in 1 - 1 .. Len(t) /\ (n - k) - 1 + 1 = n - k /\ \A m \in Int : m + 1 - 1 = m
      BY <1>2, <1>4
    <3>2. QED
      BY <1>4, <2>3, <3>1, SubIs
  <2>5. y \in Seq(STRING) /\ Len(y) = n - k /\ \A m \in 1 .. n - k : y[m] = a[m + (k - 1)]
    <3>1. k \in 1 .. Len(a) + 1 /\ Len(a) + 1 - k = n - k
      BY <1>2, <2>2
    <3>2. QED
      BY <2>2, <2>3, <3>1, FromIs
  <2>6. ASSUME NEW m \in 1 .. n - k PROVE x[m] = y[m]
    <3>1. m + (k - 1) \in 1 .. n - 1 /\ m \in 1 .. l + 1 - k
      BY <1>2
    <3>2. QED
      BY <1>4, <2>2, <2>4, <2>5, <3>1
  <2>7. x = y
    BY <2>4, <2>5, <2>6, SeqEqual
  <2>8. QED
    BY <2>1, <2>3, <2>7
<1>10. QED
  BY <1>1, <1>3, <1>5, <1>7, <1>8, <1>9

(* Up to where the quote changes, the loop does what the reference does with
   the part. *)
RegionHolds(s, q) ==
    Expansion(s, q) = Worth([quote |-> q, text |-> SubSeq(s, 1, FirstOf(s, Ends(q)) - 1)])
                          \o Expansion(From(s, FirstOf(s, Ends(q))), q)

(* One character of a part, and of what is behind it. *)
LEMMA RegionStep ==
  ASSUME NEW s \in Seq(STRING), NEW q \in States,
         \A t \in Seq(STRING) : Len(t) < Len(s) => RegionHolds(t, q)
  PROVE  RegionHolds(s, q)
<1>1. PICK n, l : n = FirstOf(s, Ends(q)) /\ l = Len(s)
  OBVIOUS
<1>2. /\ n \in 1 .. l + 1 /\ (n <= l => s[n] \in Ends(q)) /\ (\A m \in 1 .. n - 1 : s[m] \notin Ends(q))
      /\ l \in Nat
  BY <1>1, FirstIs
<1>3. PICK a : a = SubSeq(s, 1, n - 1)
  OBVIOUS
<1>4. a \in Seq(STRING) /\ Len(a) = n - 1 /\ \A m \in 1 .. n - 1 : a[m] = s[m]
  <2>1. 1 \in 1 .. Len(s) + 1 /\ n - 1 \in 1 - 1 .. Len(s) /\ (n - 1) - 1 + 1 = n - 1 /\ \A m \in Int : m + 1 - 1 = m
    BY <1>1, <1>2
  <2>2. QED
    BY <1>3, <2>1, SubIs
<1>5. PICK w : w = Worth([quote |-> q, text |-> a])
  OBVIOUS
<1>6. w = IF q = Sq THEN a ELSE Substituted[a]
  BY <1>5 DEF Worth
<1>7. From(s, n) \in Seq(STRING)
  BY <1>1, <1>2, FromIs
<1>8. PICK x : x = Expansion(From(s, n), q)
  OBVIOUS
<1>9. x \in Texts
  BY <1>7, <1>8, ExpansionIs
<1>10. SUFFICES Expansion(s, q) = w \o x
  BY <1>1, <1>3, <1>5, <1>8 DEF RegionHolds
<1>11. CASE n = 1
  <2>1. a = <<>>
    BY <1>4, <1>11, EmptySeq
  <2>2. w = <<>>
    BY <1>4, <1>6, <2>1, SubstitutedSteps
  <2>3. From(s, 1) = s
    BY SubSeqFull DEF From
  <2>4. QED
    BY <1>8, <1>9, <1>11, <2>2, <2>3, TextsAre
<1>12. CASE n > 1
  <2>1. s # <<>> /\ a # <<>> /\ 1 \in 1 .. n - 1
    BY <1>1, <1>2, <1>4, <1>12, EmptySeq
  <2>2. Toggle(q, s[1]) = q /\ a[1] = s[1] /\ s[1] \in Chars
    <3>1. s[1] \in Chars
      BY <2>1, TailIs
    <3>2. QED
      BY <1>2, <1>4, <2>1, <3>1, EndsAre
  <2>3. ASSUME NEW k \in 2 .. n
        PROVE  /\ From(a, k) \in Seq(STRING) /\ From(s, k) \in Seq(STRING)
               /\ Expansion(From(s, k), q) = (IF q = Sq THEN From(a, k) ELSE Substituted[From(a, k)]) \o x
    <3>1. k \in 1 .. n /\ k \in 1 .. Len(s) + 1 /\ k \in 1 .. Len(a) + 1
      BY <1>1, <1>2, <1>4, <2>3
    <3>2. PICK t : t = From(s, k)
      OBVIOUS
    <3>3. t \in Seq(STRING) /\ Len(t) = Len(s) + 1 - k
      BY <3>1, <3>2, FromIs
    <3>4. Len(t) < Len(s)
      BY <1>1, <1>2, <3>1, <3>3, <2>3
    <3>5. RegionHolds(t, q)
      BY <3>3, <3>4
    <3>6. /\ FirstOf(t, Ends(q)) = n - (k - 1) /\ From(t, n - (k - 1)) = From(s, n)
          /\ SubSeq(t, 1, n - k) = From(a, k)
      BY <1>1, <1>3, <3>1, <3>2, FirstFrom
    <3>7. (n - (k - 1)) - 1 = n - k
      BY <1>2, <3>1
    <3>8. Expansion(t, q) = Worth([quote |-> q, text |-> From(a, k)]) \o x
      BY <1>8, <3>5, <3>6, <3>7 DEF RegionHolds
    <3>9. Worth([quote |-> q, text |-> From(a, k)]) = IF q = Sq THEN From(a, k) ELSE Substituted[From(a, k)]
      BY DEF Worth
    <3>10. From(a, k) \in Seq(STRING)
      BY <1>4, <3>1, FromIs
    <3>11. QED
      BY <3>2, <3>3, <3>8, <3>9, <3>10
  <2>4. \A t \in Seq(STRING) : t \in Texts /\ Substituted[t] \in Texts
    BY TextsAre, SubstitutedIs
  <2>5. CASE s[1] = "$" /\ q # Sq
    <3>1. PICK v, y : v = expand_var(s, 1) /\ y = expand_var(a, 1)
      OBVIOUS
    <3>2. y.text = v.text /\ y.next = v.next
      <4>1. PICK b : b = n - 1
        OBVIOUS
      <4>2. 0 \in 0 .. Len(s) /\ b \in 0 .. Len(s) /\ 1 \in 1 .. b - 0 /\ 1 + 0 = 1 /\ 0 + 1 = 1 /\ b + 1 = n
        BY <1>1, <1>2, <1>12, <4>1
      <4>3. b = Len(s) \/ s[b + 1] \in Quotes
        <5>1. n <= l => s[n] \in Quotes
          BY <1>2, <2>5 DEF Ends, States
        <5>2. QED
          BY <1>1, <1>2, <4>1, <4>2, <5>1
      <4>4. /\ expand_var(s, 1 + 0).text = expand_var(SubSeq(s, 0 + 1, b), 1).text
            /\ expand_var(s, 1 + 0).next = expand_var(SubSeq(s, 0 + 1, b), 1).next + 0
        BY <4>2, <4>3, VarSub
      <4>5. y.next \in 1 + 1 .. Len(a) + 1
        <5>1. 1 \in 1 .. Len(a)
          BY <1>4, <2>1
        <5>2. QED
          BY <1>4, <3>1, <5>1, VarIs
      <4>6. QED
        BY <1>3, <3>1, <4>1, <4>2, <4>4, <4>5
    <3>3. v.next \in 2 .. n /\ v.text \in Texts
      <4>1. 1 \in 1 .. Len(a)
        BY <1>4, <2>1
      <4>2. y.text \in Texts /\ y.next \in 1 + 1 .. Len(a) + 1
        BY <1>4, <3>1, <4>1, VarIs
      <4>3. QED
        BY <1>2, <1>4, <3>2, <4>2
    <3>4. Expansion(s, q) = v.text \o Expansion(From(s, v.next), q)
      BY <2>1, <2>2, <2>5, <3>1, ExpansionIs
    <3>5. Substituted[a] = v.text \o Substituted[From(a, v.next)]
      BY <1>4, <2>1, <2>2, <2>5, <3>1, <3>2, SubstitutedSteps
    <3>6. PICK z : z = Substituted[From(a, v.next)]
      OBVIOUS
    <3>7. z \in Texts /\ Expansion(From(s, v.next), q) = z \o x
      BY <2>3, <2>4, <2>5, <3>3, <3>6
    <3>8. (v.text \o z) \o x = v.text \o (z \o x)
      BY <1>9, <3>3, <3>7, TextsAre
    <3>9. QED
      BY <1>6, <2>5, <3>4, <3>5, <3>6, <3>7, <3>8
  <2>6. CASE ~ (s[1] = "$" /\ q # Sq)
    <3>1. 2 \in 2 .. n
      BY <1>2, <1>12
    <3>2. Expansion(s, q) = <<s[1]>> \o Expansion(From(s, 2), q)
      BY <2>1, <2>2, <2>6, ExpansionIs
    <3>3. PICK z : z = IF q = Sq THEN From(a, 2) ELSE Substituted[From(a, 2)]
      OBVIOUS
    <3>4. z \in Texts /\ Expansion(From(s, 2), q) = z \o x
      BY <2>3, <2>4, <3>1, <3>3
    <3>5. w = <<s[1]>> \o z
      <4>1. CASE q = Sq
        BY <1>4, <1>6, <2>1, <2>2, <3>3, <4>1, TailIs
      <4>2. CASE q # Sq
        <5>1. Substituted[a] = <<a[1]>> \o Substituted[From(a, 2)]
          BY <1>4, <2>1, <2>2, <2>6, <4>2, SubstitutedSteps
        <5>2. QED
          BY <1>6, <2>2, <3>3, <4>2, <5>1
      <4>3. QED
        BY <4>1, <4>2
    <3>6. <<s[1]>> \in Texts
      BY <2>2, TextsAre
    <3>7. (<<s[1]>> \o z) \o x = <<s[1]>> \o (z \o x)
      BY <1>9, <3>4, <3>6, TextsAre
    <3>8. QED
      BY <3>2, <3>4, <3>5, <3>7
  <2>7. QED
    BY <2>5, <2>6
<1>13. QED
  BY <1>2, <1>11, <1>12

(* And so of every part, whatever its length. *)
LEMMA RegionIs == ASSUME NEW q \in States PROVE \A s \in Seq(STRING) : RegionHolds(s, q)
<1>1. PICK D, rk : D = Seq(STRING) /\ rk = [t \in D |-> Len(t)]
  OBVIOUS
<1>2. rk \in [D -> Nat] /\ \A x \in D : rk[x] = Len(x)
  BY <1>1
<1> DEFINE S == {t \in D : RegionHolds(t, q)}
<1>3. ASSUME NEW x \in D, \A y \in D : rk[y] < rk[x] => y \in S PROVE x \in S
  <2>1. \A t \in Seq(STRING) : Len(t) < Len(x) => RegionHolds(t, q)
    BY <1>1, <1>2, <1>3
  <2>2. QED
    BY <1>1, <2>1, RegionStep
<1>4. \A x \in D : x \in S
  <2> HIDE DEF S
  <2>1. \A x \in D : (\A y \in D : rk[y] < rk[x] => y \in S) => x \in S
    BY <1>3
  <2>2. QED
    BY <1>2, <2>1, ByRank
<1>5. QED
  BY <1>1, <1>4

-----------------------------------------------------------------------------
(* A word whose quotes are closed at its end. *)
Closed(s) == QuoteFrom(s, 1)[Len(s) + 1] = NoQuote

(* Between the characters that change it, the quote stays. *)
LEMMA QuoteStays ==
  ASSUME NEW s \in Seq(STRING), NEW a \in 1 .. Len(s) + 1, NEW b \in a .. Len(s) + 1, NEW q,
         QuoteFrom(s, 1)[a] = q, \A m \in a .. b - 1 : s[m] \notin Ends(q)
  PROVE  \A p \in a .. b : QuoteFrom(s, 1)[p] = q
<1>1. PICK Q, l : Q = QuoteFrom(s, 1) /\ l = Len(s)
  OBVIOUS
<1>2. 1 \in 1 .. Len(s) + 1 /\ l \in Nat /\ a \in 1 .. l + 1 /\ b \in a .. l + 1
  BY <1>1
<1>3. Q \in [1 .. l + 1 -> States] /\ \A p \in 1 .. l : Q[p + 1] = Toggle(Q[p], s[p])
  BY <1>1, <1>2, QuoteIs
<1> DEFINE S == {p \in a .. b : Q[p] = q}
<1>4. a \in S
  BY <1>1, <1>2
<1>5. ASSUME NEW p \in a .. b - 1, p \in S PROVE p + 1 \in S
  <2>1. p \in 1 .. l /\ p + 1 \in a .. b /\ p \in 1 .. l + 1
    BY <1>2
  <2>2. Q[p] = q /\ q \in States /\ s[p] \notin Ends(q)
    BY <1>3, <1>5, <2>1
  <2>3. Toggle(q, s[p]) = q
    BY <2>2, EndsAre
  <2>4. QED
    BY <1>3, <2>1, <2>2, <2>3
<1>6. \A p \in a .. b : p \in S
  <2> HIDE DEF S
  <2>1. a \in Int /\ b \in Int /\ \A p \in a .. b - 1 : p \in S => p + 1 \in S
    BY <1>2, <1>5
  <2>2. QED
    BY <1>4, <2>1, Upward
<1>7. QED
  BY <1>1, <1>6

(* The rest of a word, from outside quotes. *)
LEMMA ClosedFrom ==
  ASSUME NEW s \in Seq(STRING), NEW k \in 1 .. Len(s) + 1, QuoteFrom(s, 1)[k] = NoQuote
  PROVE  /\ \A p \in 1 .. Len(s) + 2 - k : QuoteFrom(From(s, k), 1)[p] = QuoteFrom(s, 1)[p + (k - 1)]
         /\ Closed(s) => Closed(From(s, k))
<1>1. PICK l : l = Len(s) /\ l \in Nat /\ k \in 1 .. l + 1
  OBVIOUS
<1>2. /\ 1 \in 1 .. Len(s) + 1 /\ Len(s) \in k - 1 .. Len(s)
      /\ Len(s) - k + 2 = Len(s) + 2 - k /\ \A p \in Int : p + k - 1 = p + (k - 1)
  BY <1>1
<1>3. \A p \in 1 .. Len(s) - k + 2 : QuoteFrom(SubSeq(s, k, Len(s)), 1)[p] = QuoteFrom(s, 1)[p + k - 1]
  BY <1>2, QuoteSub
<1>4. \A p \in 1 .. Len(s) + 2 - k : QuoteFrom(From(s, k), 1)[p] = QuoteFrom(s, 1)[p + (k - 1)]
  BY <1>2, <1>3 DEF From
<1>5. Len(From(s, k)) = Len(s) + 1 - k
  BY FromIs
<1>6. PICK m \in Int : m = Len(s) + 2 - k
  BY <1>1
<1>7. m \in 1 .. Len(s) + 2 - k /\ Len(From(s, k)) + 1 = m /\ m + (k - 1) = Len(s) + 1
  BY <1>1, <1>5, <1>6
<1>8. QED
  BY <1>4, <1>7 DEF Closed

(* The first part of a word that is closed. *)
Starts(s) == IF s[1] \in Quotes THEN FirstOf(From(s, 2), {s[1]}) ELSE FirstOf(s, Quotes)

(* The first part of a word whose quotes are closed ends where its quote is
   closed, and leaves a word whose quotes are closed. *)
LEMMA ClosedParts ==
  ASSUME NEW s \in Seq(STRING), s # <<>>, Closed(s)
  PROVE  LET n == Starts(s)
             Q == QuoteFrom(s, 1)
         IN IF s[1] \in Quotes
            THEN /\ n \in 1 .. Len(s) - 1 /\ s[n + 1] = s[1] /\ From(s, 2)[n] = s[1]
                 /\ FirstPart(s) = [quote |-> s[1], text |-> SubSeq(s, 2, n)]
                 /\ OtherParts(s) = From(s, n + 2) /\ Closed(OtherParts(s))
                 /\ Q[1] = NoQuote /\ Q[n + 2] = NoQuote /\ \A p \in 2 .. n + 1 : Q[p] = s[1]
            ELSE /\ n \in 2 .. Len(s) + 1
                 /\ FirstPart(s) = [quote |-> NoQuote, text |-> SubSeq(s, 1, n - 1)]
                 /\ OtherParts(s) = From(s, n) /\ Closed(OtherParts(s))
                 /\ \A p \in 1 .. n : Q[p] = NoQuote
<1>1. PICK n, Q : n = Starts(s) /\ Q = QuoteFrom(s, 1)
  OBVIOUS
<1>2. PICK l : l = Len(s) /\ l \in Nat /\ l > 0
  BY TailIs
<1>3. 1 \in 1 .. Len(s) + 1
  BY <1>2
<1>4. Q \in [1 .. l + 1 -> States] /\ Q[1] = NoQuote /\ \A p \in 1 .. l : Q[p + 1] = Toggle(Q[p], s[p])
  BY <1>1, <1>2, <1>3, QuoteIs
<1>5. Head(s) = s[1] /\ Tail(s) = From(s, 2)
  BY PartIs
<1>6. CASE s[1] \in Quotes
  <2>1. PICK t, c : t = From(s, 2) /\ c = s[1]
    OBVIOUS
  <2>2. t \in Seq(STRING) /\ Len(t) = l - 1 /\ \A m \in 1 .. l - 1 : t[m] = s[m + 1]
    BY <1>2, <2>1, TailIs
  <2>3. n = FirstOf(t, {c})
    BY <1>1, <1>6, <2>1 DEF Starts
  <2>4. n \in 1 .. l /\ (n <= l - 1 => t[n] = c) /\ \A m \in 1 .. n - 1 : t[m] # c
    <3>1. n \in 1 .. Len(t) + 1 /\ (n <= Len(t) => t[n] \in {c}) /\ \A m \in 1 .. n - 1 : t[m] \notin {c}
      BY <2>2, <2>3, FirstIs
    <3>2. QED
      BY <1>2, <2>2, <3>1
  <2>5. Q[2] = c /\ Ends(c) = {c} /\ c \in States /\ c # NoQuote
    <3>1. 1 \in 1 .. l /\ 1 + 1 = 2
      BY <1>2
    <3>2. Q[2] = Toggle(NoQuote, c)
      BY <1>4, <2>1, <3>1
    <3>3. QED
      BY <1>6, <2>1, <3>2 DEF Toggle, States, Ends, Quotes, NoQuote, Sq, Dq
  <2>6. \A p \in 2 .. n + 1 : Q[p] = c
    <3>1. 2 \in 1 .. Len(s) + 1 /\ n + 1 \in 2 .. Len(s) + 1
      BY <1>2, <2>4
    <3>2. ASSUME NEW m \in 2 .. (n + 1) - 1 PROVE s[m] \notin Ends(c)
      <4>1. m - 1 \in 1 .. n - 1 /\ m - 1 \in 1 .. l - 1 /\ (m - 1) + 1 = m
        BY <1>2, <2>4
      <4>2. t[m - 1] = s[m] /\ t[m - 1] # c
        BY <2>2, <2>4, <4>1
      <4>3. QED
        BY <2>5, <4>2
    <3>3. QED
      BY <1>1, <2>5, <3>1, <3>2, QuoteStays
  <2>7. n <= l - 1
    <3>1. ASSUME n = l PROVE FALSE
      <4>1. l + 1 \in 2 .. n + 1
        BY <1>2, <3>1
      <4>2. Q[l + 1] = c
        BY <2>6, <4>1
      <4>3. QED
        BY <1>1, <1>2, <2>5, <4>2 DEF Closed
    <3>2. QED
      BY <1>2, <2>4, <3>1
  <2>8. s[n + 1] = c /\ t[n] = c
    BY <2>2, <2>4, <2>7
  <2>9. Q[n + 2] = NoQuote
    <3>1. n + 1 \in 1 .. l /\ (n + 1) + 1 = n + 2 /\ n + 1 \in 2 .. n + 1
      BY <1>2, <2>4, <2>7
    <3>2. Q[n + 2] = Toggle(c, c)
      BY <1>4, <2>6, <2>8, <3>1
    <3>3. QED
      BY <2>5, <3>2 DEF Toggle
  <2>10. Cut(s) = n
    BY <1>5, <1>6, <2>1, <2>3 DEF Cut
  <2>11. FirstPart(s) = [quote |-> c, text |-> SubSeq(s, 2, n)] /\ OtherParts(s) = From(s, n + 2)
    BY <1>5, <1>6, <2>1, <2>10 DEF FirstPart, OtherParts, From
  <2>12. Closed(OtherParts(s))
    <3>1. n + 2 \in 1 .. Len(s) + 1
      BY <1>2, <2>4, <2>7
    <3>2. QED
      BY <1>1, <2>9, <2>11, <3>1, ClosedFrom
  <2>13. n \in 1 .. Len(s) - 1
    BY <1>2, <2>4, <2>7
  <2>14. QED
    BY <1>1, <1>4, <1>6, <2>1, <2>6, <2>8, <2>9, <2>11, <2>12, <2>13
<1>7. CASE s[1] \notin Quotes
  <2>1. n = FirstOf(s, Quotes)
    BY <1>1, <1>7 DEF Starts
  <2>2. n \in 1 .. l + 1 /\ (n <= l => s[n] \in Quotes) /\ \A m \in 1 .. n - 1 : s[m] \notin Quotes
    BY <1>2, <2>1, FirstIs
  <2>3. n \in 2 .. l + 1
    BY <1>2, <1>7, <2>2
  <2>4. Cut(s) = n
    BY <1>5, <1>7, <2>1 DEF Cut
  <2>5. FirstPart(s) = [quote |-> NoQuote, text |-> SubSeq(s, 1, n - 1)] /\ OtherParts(s) = From(s, n)
    BY <1>5, <1>7, <2>4 DEF FirstPart, OtherParts, From
  <2>6. \A p \in 1 .. n : Q[p] = NoQuote
    <3>1. n \in 1 .. Len(s) + 1
      BY <1>2, <2>2
    <3>2. \A m \in 1 .. n - 1 : s[m] \notin Ends(NoQuote)
      BY <2>2 DEF Ends
    <3>3. QED
      BY <1>1, <1>3, <1>4, <3>1, <3>2, QuoteStays
  <2>7. Closed(OtherParts(s))
    <3>1. n \in 1 .. Len(s) + 1 /\ n \in 1 .. n
      BY <1>2, <2>2
    <3>2. QED
      BY <1>1, <2>5, <2>6, <3>1, ClosedFrom
  <2>8. n \in 2 .. Len(s) + 1
    BY <1>2, <2>3
  <2>9. QED
    BY <1>1, <1>7, <2>5, <2>6, <2>7, <2>8
<1>8. QED
  BY <1>6, <1>7

(* expand_word gives a word the meaning its quotes and variables have. *)
LEMMA WordStep ==
  ASSUME NEW s \in Seq(STRING), Closed(s),
         \A t \in Seq(STRING) : Len(t) < Len(s) /\ Closed(t) => Expansion(t, NoQuote) = Meaning(t)
  PROVE  Expansion(s, NoQuote) = Meaning(s)
<1>1. CASE s = <<>>
  <2>1. NoQuote \in States
    BY DEF States
  <2>2. QED
    BY <1>1, <2>1, ExpansionIs, MeaningIs
<1>2. CASE s # <<>>
  <2>1. PICK n : n = Starts(s)
    OBVIOUS
  <2>2. PICK l : l = Len(s) /\ l \in Nat /\ l > 0
    BY <1>2, TailIs
  <2>3. PICK o : o = OtherParts(s)
    OBVIOUS
  <2>4. o \in Seq(STRING) /\ Len(o) < Len(s)
    BY <1>2, <2>3, PartIs
  <2>5. Closed(o)
    BY <1>2, <2>3, ClosedParts
  <2>6. Expansion(o, NoQuote) = Meaning(o)
    BY <2>4, <2>5
  <2>7. Meaning(s) = Worth(FirstPart(s)) \o Meaning(o)
    BY <1>2, <2>3, MeaningIs
  <2>8. NoQuote \in States
    BY DEF States
  <2>9. CASE s[1] \in Quotes
    <3>1. PICK t, c : t = From(s, 2) /\ c = s[1]
      OBVIOUS
    <3>2. c \in States /\ Toggle(NoQuote, c) = c /\ c # NoQuote /\ Ends(c) = {c} /\ Toggle(c, c) = NoQuote
      BY <2>9, <3>1 DEF Toggle, States, Ends, Quotes, NoQuote, Sq, Dq
    <3>3. /\ n \in 1 .. Len(s) - 1 /\ t[n] = c
          /\ FirstPart(s) = [quote |-> c, text |-> SubSeq(s, 2, n)] /\ o = From(s, n + 2)
      BY <1>2, <2>1, <2>3, <2>9, <3>1, ClosedParts
    <3>4. n = FirstOf(t, {c})
      BY <2>1, <2>9, <3>1 DEF Starts
    <3>5. t \in Seq(STRING) /\ Len(t) = l - 1 /\ \A m \in 1 .. l - 1 : t[m] = s[m + 1]
      BY <1>2, <2>2, <3>1, TailIs
    <3>6. Expansion(s, NoQuote) = Expansion(t, c)
      BY <1>2, <2>8, <3>1, <3>2, ExpansionIs
    <3>7. Expansion(t, c) = Worth([quote |-> c, text |-> SubSeq(t, 1, n - 1)]) \o Expansion(From(t, n), c)
      BY <3>2, <3>4, <3>5, RegionIs DEF RegionHolds
    <3>8. SubSeq(t, 1, n - 1) = SubSeq(s, 2, n)
      <4>1. PICK x, y : x = SubSeq(t, 1, n - 1) /\ y = SubSeq(s, 2, n)
        OBVIOUS
      <4>2. 1 \in 1 .. Len(t) + 1 /\ n - 1 \in 1 - 1 .. Len(t) /\ (n - 1) - 1 + 1 = n - 1 /\ \A m \in Int : m + 1 - 1 = m
        BY <2>2, <3>3, <3>5
      <4>3. x \in Seq(STRING) /\ Len(x) = n - 1 /\ \A m \in 1 .. n - 1 : x[m] = t[m]
        BY <3>5, <4>1, <4>2, SubIs
      <4>4. 2 \in 1 .. Len(s) + 1 /\ n \in 2 - 1 .. Len(s) /\ n - 2 + 1 = n - 1 /\ \A m \in Int : m + 2 - 1 = m + 1
        BY <2>2, <3>3
      <4>5. y \in Seq(STRING) /\ Len(y) = n - 1 /\ \A m \in 1 .. n - 1 : y[m] = s[m + 1]
        BY <4>1, <4>4, SubIs
      <4>6. ASSUME NEW m \in 1 .. n - 1 PROVE x[m] = y[m]
        <5>1. m \in 1 .. l - 1
          BY <2>2, <3>3
        <5>2. QED
          BY <3>5, <4>3, <4>5, <5>1
      <4>7. x = y
        BY <4>3, <4>5, <4>6, SeqEqual
      <4>8. QED
        BY <4>1, <4>7
    <3>9. PICK u : u = From(t, n)
      OBVIOUS
    <3>10. u \in Seq(STRING) /\ Len(u) = l - n /\ \A m \in 1 .. l - n : u[m] = s[m + n]
      <4>1. n \in 1 .. Len(t) + 1
        BY <2>2, <3>3, <3>5
      <4>2. /\ u \in Seq(STRING) /\ Len(u) = Len(t) + 1 - n
            /\ \A m \in 1 .. Len(t) + 1 - n : u[m] = t[m + (n - 1)]
        BY <3>5, <3>9, <4>1, FromIs
      <4>3. Len(t) + 1 - n = l - n
        BY <2>2, <3>3, <3>5
      <4>4. ASSUME NEW m \in 1 .. l - n PROVE u[m] = s[m + n]
        <5>1. m + (n - 1) \in 1 .. l - 1 /\ (m + (n - 1)) + 1 = m + n
          BY <2>2, <3>3
        <5>2. QED
          BY <3>5, <4>2, <4>3, <5>1
      <4>5. QED
        BY <4>2, <4>3, <4>4
    <3>11. u # <<>> /\ u[1] = c
      <4>1. l - n > 0 /\ 1 \in 1 .. l - n /\ 1 + n = n + 1
        BY <2>2, <3>3
      <4>2. s[n + 1] = c
        <5>1. n \in 1 .. l - 1
          BY <2>2, <3>3
        <5>2. QED
          BY <3>3, <3>5, <5>1
      <4>3. QED
        BY <3>10, <4>1, <4>2, EmptySeq
    <3>12. Expansion(u, c) = Expansion(From(u, 2), NoQuote)
      BY <3>2, <3>10, <3>11, ExpansionIs
    <3>13. From(u, 2) = o
      <4>1. PICK x, y : x = From(u, 2) /\ y = From(s, n + 2)
        OBVIOUS
      <4>2. x \in Seq(STRING) /\ Len(x) = Len(u) - 1 /\ \A m \in 1 .. Len(u) - 1 : x[m] = u[m + 1]
        BY <3>10, <3>11, <4>1, TailIs
      <4>3. n + 2 \in 1 .. Len(s) + 1 /\ Len(s) + 1 - (n + 2) = l - n - 1 /\ Len(u) - 1 = l - n - 1
            /\ \A m \in Int : m + ((n + 2) - 1) = (m + 1) + n
        BY <2>2, <3>3, <3>10
      <4>4. /\ y \in Seq(STRING) /\ Len(y) = Len(s) + 1 - (n + 2)
            /\ \A m \in 1 .. Len(s) + 1 - (n + 2) : y[m] = s[m + ((n + 2) - 1)]
        BY <4>1, <4>3, FromIs
      <4>5. ASSUME NEW m \in 1 .. l - n - 1 PROVE x[m] = y[m]
        <5>1. m + 1 \in 1 .. l - n
          BY <2>2, <3>3
        <5>2. x[m] = u[m + 1] /\ m \in Int
          <6>1. m \in 1 .. Len(u) - 1
            BY <4>3
          <6>2. m \in Int
            BY <2>2, <3>3
          <6>3. QED
            BY <4>2, <6>1, <6>2
        <5>3. y[m] = s[m + ((n + 2) - 1)]
          BY <4>3, <4>4
        <5>4. QED
          BY <3>10, <4>3, <5>1, <5>2, <5>3
      <4>6. x = y
        BY <4>2, <4>3, <4>4, <4>5, SeqEqual
      <4>7. QED
        BY <3>3, <4>1, <4>6
    <3>14. QED
      BY <2>6, <2>7, <3>3, <3>6, <3>7, <3>8, <3>9, <3>12, <3>13
  <2>10. CASE s[1] \notin Quotes
    <3>1. FirstPart(s) = [quote |-> NoQuote, text |-> SubSeq(s, 1, n - 1)] /\ o = From(s, n)
      BY <1>2, <2>1, <2>3, <2>10, ClosedParts
    <3>2. n = FirstOf(s, Ends(NoQuote))
      BY <2>1, <2>10 DEF Starts, Ends
    <3>3. Expansion(s, NoQuote) = Worth([quote |-> NoQuote, text |-> SubSeq(s, 1, n - 1)]) \o Expansion(From(s, n), NoQuote)
      BY <2>8, <3>2, RegionIs DEF RegionHolds
    <3>4. QED
      BY <2>6, <2>7, <3>1, <3>3
  <2>11. QED
    BY <2>9, <2>10
<1>3. QED
  BY <1>1, <1>2

(* expand_word gives every word whose quotes are closed the meaning that the
   reference gives it part by part, for every environment and every $?
   (expand/expand.c:40-76). *)
THEOREM ExpandsToMeaning ==
  ASSUME NEW s \in Seq(STRING), QuoteFrom(s, 1)[Len(s) + 1] = NoQuote
  PROVE  expand_word(s) = Meaning(s)
<1>1. PICK D, rk : D = Seq(STRING) /\ rk = [t \in D |-> Len(t)]
  OBVIOUS
<1>2. rk \in [D -> Nat] /\ \A x \in D : rk[x] = Len(x)
  BY <1>1
<1> DEFINE S == {t \in D : Closed(t) => Expansion(t, NoQuote) = Meaning(t)}
<1>3. ASSUME NEW x \in D, \A y \in D : rk[y] < rk[x] => y \in S PROVE x \in S
  <2>1. \A t \in Seq(STRING) : Len(t) < Len(x) /\ Closed(t) => Expansion(t, NoQuote) = Meaning(t)
    BY <1>1, <1>2, <1>3
  <2>2. QED
    BY <1>1, <2>1, WordStep
<1>4. \A x \in D : x \in S
  <2> HIDE DEF S
  <2>1. \A x \in D : (\A y \in D : rk[y] < rk[x] => y \in S) => x \in S
    BY <1>3
  <2>2. QED
    BY <1>2, <2>1, ByRank
<1>5. Closed(s)
  BY DEF Closed
<1>6. expand_word(s) = Expansion(s, NoQuote)
  BY ExpandsIs DEF Expansion
<1>7. QED
  BY <1>1, <1>4, <1>5, <1>6

-----------------------------------------------------------------------------
(* strip_quotes' loop, as a function of the position. *)
StripAt(s, f, p) ==
    IF p = Len(s) + 1 THEN <<>>
    ELSE (IF QuoteFrom(s, 1)[p] = QuoteFrom(s, 1)[p + 1] THEN <<s[p]>> ELSE <<>>) \o f[p + 1]
Strips(s) == CHOOSE f : f = [p \in 1 .. Len(s) + 1 |-> StripAt(s, f, p)]

(* strip_quotes, one position after the other. *)
LEMMA StripsIs ==
  ASSUME NEW s \in Seq(STRING)
  PROVE  /\ strip_quotes(s) = Strips(s)[1]
         /\ \A p \in 1 .. Len(s) + 1 : Strips(s)[p] \in Texts /\ Strips(s)[p] = StripAt(s, Strips(s), p)
<1>1. PICK l : l = Len(s) /\ l \in Nat
  OBVIOUS
<1>2. PICK D, rk : D = 1 .. l + 1 /\ rk = [p \in D |-> l + 1 - p]
  OBVIOUS
<1>3. PICK st : st = [z \in D \X [D -> Texts] |-> StripAt(s, z[2], z[1])]
  OBVIOUS
<1>4. \A x \in D : \A f \in [D -> Texts] : st[<<x, f>>] = StripAt(s, f, x)
  BY <1>3
<1>5. rk \in [D -> Nat] /\ (\A x \in D : rk[x] = l + 1 - x)
      /\ \A x \in D : x # l + 1 => x + 1 \in D /\ rk[x + 1] < rk[x] /\ x \in 1 .. l
  BY <1>1, <1>2
<1>6. ASSUME NEW x \in D, NEW f \in [D -> Texts] PROVE StripAt(s, f, x) \in Texts
  <2>1. CASE x = l + 1
    BY <1>1, <2>1, TextsAre DEF StripAt
  <2>2. CASE x # l + 1
    <3>1. s[x] \in Chars
      <4>1. s[x] \in STRING
        BY <1>1, <1>5, <2>2, ElementOfSeq
      <4>2. QED
        BY <4>1 DEF Chars
    <3>2. <<s[x]>> \in Texts /\ <<>> \in Texts /\ f[x + 1] \in Texts
      BY <1>5, <2>2, <3>1, TextsAre
    <3>3. \A a, b \in Texts : a \o b \in Texts
      BY TextsAre
    <3>4. QED
      BY <1>1, <2>2, <3>2, <3>3 DEF StripAt
  <2>3. QED
    BY <2>1, <2>2
<1>7. ASSUME NEW x \in D, NEW f, NEW g, \A y \in D : rk[y] < rk[x] => f[y] = g[y]
      PROVE  StripAt(s, f, x) = StripAt(s, g, x)
  <2>1. x # l + 1 => f[x + 1] = g[x + 1]
    BY <1>5, <1>7
  <2>2. QED
    BY <1>1, <2>1 DEF StripAt
<1>8. Descends(D, Texts, rk, st)
  <2>1. st \in [D \X [D -> Texts] -> Texts]
    <3>1. ASSUME NEW x \in D, NEW f \in [D -> Texts] PROVE st[<<x, f>>] \in Texts
      BY <1>4, <1>6
    <3>2. QED
      BY <1>3, <3>1
  <2>2. ASSUME NEW x \in D, NEW f \in [D -> Texts], NEW g \in [D -> Texts],
               \A y \in D : rk[y] < rk[x] => f[y] = g[y]
        PROVE  st[<<x, f>>] = st[<<x, g>>]
    <3>1. StripAt(s, f, x) = StripAt(s, g, x)
      BY <1>7, <2>2
    <3>2. QED
      BY <1>4, <3>1
  <2>3. QED
    BY <1>5, <2>1, <2>2 DEF Descends
<1>9. PICK f \in [D -> Texts] : \A x \in D : f[x] = st[<<x, f>>]
  <2>1. <<>> \in Texts
    BY TextsAre
  <2>2. QED
    BY <1>8, <2>1, Recursion
<1> DEFINE Solved(g) == g = [p \in 1 .. Len(s) + 1 |-> StripAt(s, g, p)]
<1>10. Solved(f)
  BY <1>1, <1>2, <1>4, <1>9
<1>11. PICK h : h = Strips(s) /\ Solved(h)
  <2>1. Strips(s) = CHOOSE g : Solved(g)
    BY DEF Strips
  <2>2. QED
    BY <1>10, <2>1
<1>12. \A x \in D : h[x] = StripAt(s, h, x)
  BY <1>1, <1>2, <1>11
<1> DEFINE R == {x \in D : h[x] = f[x]}
<1>13. ASSUME NEW x \in D, \A y \in D : rk[y] < rk[x] => y \in R PROVE x \in R
  <2>1. StripAt(s, h, x) = StripAt(s, f, x)
    BY <1>7, <1>13
  <2>2. QED
    BY <1>4, <1>9, <1>12, <2>1
<1>14. \A x \in D : x \in R
  <2> HIDE DEF R
  <2>1. \A x \in D : (\A y \in D : rk[y] < rk[x] => y \in R) => x \in R
    BY <1>13
  <2>2. QED
    BY <1>5, <2>1, ByRank
<1>15. strip_quotes(s) = Strips(s)[1]
  BY DEF strip_quotes, Strips, StripAt
<1>16. QED
  BY <1>1, <1>2, <1>9, <1>11, <1>12, <1>14, <1>15

(* Behind a place outside quotes, what is stripped is what is stripped of the
   rest alone. *)
LEMMA StripsFrom ==
  ASSUME NEW s \in Seq(STRING), NEW k \in 1 .. Len(s) + 1, QuoteFrom(s, 1)[k] = NoQuote
  PROVE  Strips(s)[k] = strip_quotes(From(s, k))
<1>1. PICK l, d, t : l = Len(s) /\ l \in Nat /\ d = k - 1 /\ t = From(s, k)
  OBVIOUS
<1>2. PICK n : n = l - d
  OBVIOUS
<1>3. d \in 0 .. l /\ n \in Nat /\ k = d + 1 /\ n + d = l
  BY <1>1, <1>2
<1>4. t \in Seq(STRING) /\ Len(t) = n /\ \A m \in 1 .. n : t[m] = s[m + d]
  <2>1. /\ t \in Seq(STRING) /\ Len(t) = Len(s) + 1 - k
        /\ \A m \in 1 .. Len(s) + 1 - k : t[m] = s[m + (k - 1)]
    BY <1>1, FromIs
  <2>2. Len(s) + 1 - k = n
    BY <1>1, <1>2
  <2>3. QED
    BY <1>1, <2>1, <2>2
<1>5. PICK Q, R : Q = QuoteFrom(s, 1) /\ R = QuoteFrom(t, 1)
  OBVIOUS
<1>6. \A p \in 1 .. n + 1 : R[p] = Q[p + d]
  <2>1. \A p \in 1 .. Len(s) + 2 - k : QuoteFrom(From(s, k), 1)[p] = QuoteFrom(s, 1)[p + (k - 1)]
    BY ClosedFrom
  <2>2. Len(s) + 2 - k = n + 1
    BY <1>1, <1>2
  <2>3. QED
    BY <1>1, <1>5, <2>1, <2>2
<1>7. PICK f, g : f = Strips(s) /\ g = Strips(t)
  OBVIOUS
<1>8. \A p \in 1 .. l + 1 :
         f[p] = IF p = l + 1 THEN <<>> ELSE (IF Q[p] = Q[p + 1] THEN <<s[p]>> ELSE <<>>) \o f[p + 1]
  <2>1. \A p \in 1 .. Len(s) + 1 : f[p] = StripAt(s, f, p)
    BY <1>7, StripsIs
  <2>2. QED
    BY <1>1, <1>5, <2>1 DEF StripAt
<1>9. \A p \in 1 .. n + 1 :
         g[p] = IF p = n + 1 THEN <<>> ELSE (IF R[p] = R[p + 1] THEN <<t[p]>> ELSE <<>>) \o g[p + 1]
  <2>1. \A p \in 1 .. Len(t) + 1 : g[p] = StripAt(t, g, p)
    BY <1>4, <1>7, StripsIs
  <2>2. QED
    BY <1>4, <1>5, <2>1 DEF StripAt
<1> DEFINE S == {p \in Int : f[p + d] = g[p]}
<1>10. n + 1 \in S
  <2>1. n + 1 \in 1 .. n + 1 /\ (n + 1) + d = l + 1 /\ l + 1 \in 1 .. l + 1 /\ n + 1 \in Int
    BY <1>3
  <2>2. QED
    BY <1>8, <1>9, <2>1
<1>11. ASSUME NEW p \in 1 .. (n + 1) - 1, p + 1 \in S PROVE p \in S
  <2>1. /\ p \in 1 .. n /\ p \in 1 .. n + 1 /\ p + 1 \in 1 .. n + 1 /\ p # n + 1 /\ p \in Int
        /\ p + d \in 1 .. l + 1 /\ p + d # l + 1 /\ (p + d) + 1 = (p + 1) + d
    BY <1>3
  <2>2. R[p] = Q[p + d] /\ R[p + 1] = Q[(p + d) + 1] /\ t[p] = s[p + d] /\ f[(p + d) + 1] = g[p + 1]
    BY <1>4, <1>6, <1>11, <2>1
  <2>3. f[p + d] = (IF Q[p + d] = Q[(p + d) + 1] THEN <<s[p + d]>> ELSE <<>>) \o f[(p + d) + 1]
    BY <1>8, <2>1
  <2>4. g[p] = (IF R[p] = R[p + 1] THEN <<t[p]>> ELSE <<>>) \o g[p + 1]
    BY <1>9, <2>1
  <2>5. f[p + d] = g[p]
    BY <2>2, <2>3, <2>4
  <2>6. QED
    BY <2>1, <2>5
<1>12. \A p \in 1 .. n + 1 : p \in S
  <2> HIDE DEF S
  <2>1. 1 \in Int /\ n + 1 \in Int /\ \A p \in 1 .. (n + 1) - 1 : p + 1 \in S => p \in S
    BY <1>3, <1>11
  <2>2. QED
    BY <1>10, <2>1, Downward
<1>13. f[1 + d] = g[1]
  <2>1. 1 \in 1 .. n + 1
    BY <1>3
  <2>2. QED
    BY <1>12, <2>1
<1>14. strip_quotes(t) = g[1] /\ 1 + d = k
  BY <1>3, <1>4, <1>7, StripsIs
<1>15. QED
  BY <1>1, <1>7, <1>13, <1>14

(* Where the quote stays, nothing is dropped. *)
LEMMA StripsKeep ==
  ASSUME NEW s \in Seq(STRING), NEW a \in 1 .. Len(s) + 1, NEW b \in a .. Len(s) + 1, NEW q,
         \A p \in a .. b : QuoteFrom(s, 1)[p] = q
  PROVE  Strips(s)[a] = SubSeq(s, a, b - 1) \o Strips(s)[b]
<1>1. PICK l, f, Q : l = Len(s) /\ l \in Nat /\ f = Strips(s) /\ Q = QuoteFrom(s, 1)
  OBVIOUS
<1>2. \A p \in 1 .. l + 1 :
         /\ f[p] \in Texts
         /\ f[p] = IF p = l + 1 THEN <<>> ELSE (IF Q[p] = Q[p + 1] THEN <<s[p]>> ELSE <<>>) \o f[p + 1]
  <2>1. \A p \in 1 .. Len(s) + 1 : f[p] \in Texts /\ f[p] = StripAt(s, f, p)
    BY <1>1, StripsIs
  <2>2. QED
    BY <1>1, <2>1 DEF StripAt
<1>3. a \in 1 .. l + 1 /\ b \in a .. l + 1 /\ a \in Int /\ b \in Int /\ l \in Nat
  BY <1>1
<1> DEFINE S == {p \in Int : f[p] = SubSeq(s, p, b - 1) \o f[b]}
<1>4. b \in S
  <2>1. SubSeq(s, b, b - 1) = <<>>
    BY <1>3, SubSeqEmpty
  <2>2. f[b] \in Texts
    <3>1. b \in 1 .. l + 1
      BY <1>3
    <3>2. QED
      BY <1>2, <3>1
  <2>3. QED
    BY <1>3, <2>1, <2>2, TextsAre
<1>5. ASSUME NEW p \in a .. b - 1, p + 1 \in S PROVE p \in S
  <2>1. /\ p \in 1 .. l /\ p \in 1 .. l + 1 /\ p # l + 1 /\ p \in a .. b /\ p + 1 \in a .. b /\ p \in Int
        /\ b - 1 \in p .. l /\ b \in 1 .. l + 1
    BY <1>3
  <2>2. f[p] = <<s[p]>> \o f[p + 1]
    <3>1. Q[p] = Q[p + 1]
      BY <1>1, <2>1
    <3>2. QED
      BY <1>2, <2>1, <3>1
  <2>3. f[p + 1] = SubSeq(s, p + 1, b - 1) \o f[b]
    BY <1>5
  <2>4. SubSeq(s, p, b - 1) = <<s[p]>> \o SubSeq(s, p + 1, b - 1)
    BY <1>1, <2>1, SubSeqRecursiveFirst
  <2>5. s[p] \in STRING
    BY <1>1, <2>1, ElementOfSeq
  <2>6. <<s[p]>> \in Texts
    BY <2>5, TextsAre DEF Chars
  <2>7. SubSeq(s, p + 1, b - 1) \in Texts /\ f[b] \in Texts
    <3>1. p + 1 \in 1 .. Len(s) + 1 /\ b - 1 \in (p + 1) - 1 .. Len(s)
      BY <1>1, <2>1
    <3>2. SubSeq(s, p + 1, b - 1) \in Seq(STRING)
      BY <3>1, SubIs
    <3>3. QED
      BY <1>2, <2>1, <3>2, TextsAre
  <2>8. (<<s[p]>> \o SubSeq(s, p + 1, b - 1)) \o f[b] = <<s[p]>> \o (SubSeq(s, p + 1, b - 1) \o f[b])
    BY <2>6, <2>7, TextsAre
  <2>9. QED
    BY <2>1, <2>2, <2>3, <2>4, <2>8
<1>6. \A p \in a .. b : p \in S
  <2> HIDE DEF S
  <2>1. \A p \in a .. b - 1 : p + 1 \in S => p \in S
    BY <1>5
  <2>2. QED
    BY <1>3, <1>4, <2>1, Downward
<1>7. a \in a .. b
  BY <1>3
<1>8. QED
  BY <1>1, <1>6, <1>7

(* strip_quotes leaves a word as it is but for its quotes. *)
LEMMA LiteralStep ==
  ASSUME NEW s \in Seq(STRING), Closed(s),
         \A t \in Seq(STRING) : Len(t) < Len(s) /\ Closed(t) => strip_quotes(t) = Literal(t)
  PROVE  strip_quotes(s) = Literal(s)
<1>1. PICK l, f, Q : l = Len(s) /\ l \in Nat /\ f = Strips(s) /\ Q = QuoteFrom(s, 1)
  OBVIOUS
<1>2. /\ strip_quotes(s) = f[1]
      /\ \A p \in 1 .. l + 1 :
            /\ f[p] \in Texts
            /\ f[p] = IF p = l + 1 THEN <<>> ELSE (IF Q[p] = Q[p + 1] THEN <<s[p]>> ELSE <<>>) \o f[p + 1]
  <2>1. strip_quotes(s) = f[1] /\ \A p \in 1 .. Len(s) + 1 : f[p] \in Texts /\ f[p] = StripAt(s, f, p)
    BY <1>1, StripsIs
  <2>2. QED
    BY <1>1, <2>1 DEF StripAt
<1>3. CASE s = <<>>
  <2>1. l = 0
    BY <1>1, <1>3, EmptySeq
  <2>2. 1 \in 1 .. l + 1 /\ 1 = l + 1
    BY <2>1
  <2>3. strip_quotes(s) = <<>>
    BY <1>2, <2>2
  <2>4. QED
    BY <1>3, <2>3, MeaningIs
<1>4. CASE s # <<>>
  <2>1. PICK n, o : n = Starts(s) /\ o = OtherParts(s)
    OBVIOUS
  <2>2. l > 0
    BY <1>1, <1>4, TailIs
  <2>3. o \in Seq(STRING) /\ Len(o) < Len(s)
    BY <1>4, <2>1, PartIs
  <2>4. Closed(o)
    BY <1>4, <2>1, ClosedParts
  <2>5. strip_quotes(o) = Literal(o)
    BY <2>3, <2>4
  <2>6. Literal(s) = FirstPart(s).text \o Literal(o)
    BY <1>4, <2>1, MeaningIs
  <2>7. CASE s[1] \in Quotes
    <3>1. /\ n \in 1 .. Len(s) - 1 /\ FirstPart(s) = [quote |-> s[1], text |-> SubSeq(s, 2, n)] /\ o = From(s, n + 2)
          /\ Q[1] = NoQuote /\ Q[n + 2] = NoQuote /\ \A p \in 2 .. n + 1 : Q[p] = s[1]
      BY <1>1, <1>4, <2>1, <2>7, ClosedParts
    <3>2. n \in 1 .. l - 1
      BY <1>1, <3>1
    <3>3. s[1] # NoQuote
      BY <2>7 DEF Quotes, NoQuote, Sq, Dq
    <3>4. f[1] = f[2]
      <4>1. 1 \in 1 .. l + 1 /\ 1 # l + 1 /\ 1 + 1 = 2 /\ 2 \in 2 .. n + 1 /\ 2 \in 1 .. l + 1
        BY <1>1, <2>2, <3>2
      <4>2. f[1] = <<>> \o f[2] /\ f[2] \in Texts
        BY <1>2, <3>1, <3>3, <4>1
      <4>3. QED
        BY <4>2, TextsAre
    <3>5. f[2] = SubSeq(s, 2, n) \o f[n + 1]
      <4>1. 2 \in 1 .. Len(s) + 1 /\ n + 1 \in 2 .. Len(s) + 1 /\ (n + 1) - 1 = n
        BY <1>1, <3>2
      <4>2. \A p \in 2 .. n + 1 : QuoteFrom(s, 1)[p] = s[1]
        BY <1>1, <3>1
      <4>3. Strips(s)[2] = SubSeq(s, 2, (n + 1) - 1) \o Strips(s)[n + 1]
        BY <4>1, <4>2, StripsKeep
      <4>4. QED
        BY <1>1, <4>1, <4>3
    <3>6. f[n + 1] = f[n + 2]
      <4>1. n + 1 \in 1 .. l + 1 /\ n + 1 # l + 1 /\ (n + 1) + 1 = n + 2 /\ n + 1 \in 2 .. n + 1 /\ n + 2 \in 1 .. l + 1
        BY <1>1, <2>2, <3>2
      <4>2. f[n + 1] = <<>> \o f[n + 2] /\ f[n + 2] \in Texts
        BY <1>2, <3>1, <3>3, <4>1
      <4>3. QED
        BY <4>2, TextsAre
    <3>7. f[n + 2] = strip_quotes(o)
      <4>1. n + 2 \in 1 .. Len(s) + 1
        BY <1>1, <3>2
      <4>2. QED
        BY <1>1, <3>1, <4>1, StripsFrom
    <3>8. FirstPart(s).text = SubSeq(s, 2, n)
      BY <3>1
    <3>9. strip_quotes(s) = SubSeq(s, 2, n) \o Literal(o)
      BY <1>2, <2>5, <3>4, <3>5, <3>6, <3>7
    <3>10. QED
      BY <2>6, <3>8, <3>9
  <2>8. CASE s[1] \notin Quotes
    <3>1. /\ n \in 2 .. Len(s) + 1 /\ FirstPart(s) = [quote |-> NoQuote, text |-> SubSeq(s, 1, n - 1)] /\ o = From(s, n)
          /\ \A p \in 1 .. n : Q[p] = NoQuote
      BY <1>1, <1>4, <2>1, <2>8, ClosedParts
    <3>2. 1 \in 1 .. Len(s) + 1 /\ n \in 1 .. Len(s) + 1 /\ n \in 1 .. n
      BY <1>1, <3>1
    <3>3. \A p \in 1 .. n : QuoteFrom(s, 1)[p] = NoQuote
      BY <1>1, <3>1
    <3>4. Strips(s)[1] = SubSeq(s, 1, n - 1) \o Strips(s)[n]
      BY <3>2, <3>3, StripsKeep
    <3>5. Strips(s)[n] = strip_quotes(o)
      BY <3>1, <3>2, <3>3, StripsFrom
    <3>6. QED
      BY <1>1, <1>2, <2>5, <2>6, <3>1, <3>4, <3>5
  <2>9. QED
    BY <2>7, <2>8
<1>5. QED
  BY <1>3, <1>4

(* strip_quotes leaves of every word whose quotes are closed the text of its
   parts (expand/expand.c:78-105). *)
THEOREM StripsToLiteral ==
  ASSUME NEW s \in Seq(STRING), QuoteFrom(s, 1)[Len(s) + 1] = NoQuote
  PROVE  strip_quotes(s) = Literal(s)
<1>1. PICK D, rk : D = Seq(STRING) /\ rk = [t \in D |-> Len(t)]
  OBVIOUS
<1>2. rk \in [D -> Nat] /\ \A x \in D : rk[x] = Len(x)
  BY <1>1
<1> DEFINE S == {t \in D : Closed(t) => strip_quotes(t) = Literal(t)}
<1>3. ASSUME NEW x \in D, \A y \in D : rk[y] < rk[x] => y \in S PROVE x \in S
  <2>1. \A t \in Seq(STRING) : Len(t) < Len(x) /\ Closed(t) => strip_quotes(t) = Literal(t)
    BY <1>1, <1>2, <1>3
  <2>2. QED
    BY <1>1, <2>1, LiteralStep
<1>4. \A x \in D : x \in S
  <2> HIDE DEF S
  <2>1. \A x \in D : (\A y \in D : rk[y] < rk[x] => y \in S) => x \in S
    BY <1>3
  <2>2. QED
    BY <1>2, <2>1, ByRank
<1>5. Closed(s)
  BY DEF Closed
<1>6. QED
  BY <1>1, <1>4, <1>5

-----------------------------------------------------------------------------
(* The members of S among the first m positions, in their order. *)
OneIn(S, k) == IF k \in S THEN <<k>> ELSE <<>>
Chosen(S, m) == FlattenSeq([k \in 1 .. m |-> OneIn(S, k)])

(* InOrder goes through a whole list. *)
LEMMA InOrderIs == ASSUME NEW s, IsList(s), NEW S PROVE InOrder(S, s) = Chosen(S, Len(s))
<1>1. DOMAIN s = 1 .. Len(s)
  BY ListIs
<1>2. QED
  BY <1>1 DEF InOrder, Chosen, OneIn

(* One position after the other. *)
LEMMA ChosenIs ==
  ASSUME NEW S, NEW m \in Nat
  PROVE  /\ Chosen(S, 0) = <<>> /\ Chosen(S, m) \in Seq(Int)
         /\ m + 1 \in S => Chosen(S, m + 1) = Append(Chosen(S, m), m + 1)
         /\ m + 1 \notin S => Chosen(S, m + 1) = Chosen(S, m)
<1>1. \A k \in Int : OneIn(S, k) \in Seq(Int)
  BY DEF OneIn
<1>2. ASSUME NEW n \in Nat
      PROVE  /\ [k \in 1 .. n |-> OneIn(S, k)] \in Seq(Seq(Int)) /\ Len([k \in 1 .. n |-> OneIn(S, k)]) = n
             /\ DOMAIN [k \in 1 .. n |-> OneIn(S, k)] = 1 .. n
  <2>1. PICK f : f = [k \in 1 .. n |-> OneIn(S, k)]
    OBVIOUS
  <2>2. f \in [1 .. n -> Seq(Int)]
    BY <1>1, <2>1
  <2>3. f \in Seq(Seq(Int))
    BY <2>2, SeqDef
  <2>4. DOMAIN f = 1 .. Len(f) /\ DOMAIN f = 1 .. n /\ Len(f) \in Nat
    BY <2>2, <2>3, LenProperties
  <2>5. QED
    BY <2>1, <2>3, <2>4
<1>3. PICK f, g : f = [k \in 1 .. m |-> OneIn(S, k)] /\ g = [k \in 1 .. m + 1 |-> OneIn(S, k)]
  OBVIOUS
<1>4. /\ f \in Seq(Seq(Int)) /\ Len(f) = m /\ g \in Seq(Seq(Int)) /\ Len(g) = m + 1
  BY <1>2, <1>3
<1>5. PICK x : x = OneIn(S, m + 1) /\ x \in Seq(Int)
  BY <1>1
<1>6. g = Append(f, x)
  <2>1. PICK h : h = Append(f, x)
    OBVIOUS
  <2>2. h \in Seq(Seq(Int)) /\ Len(h) = m + 1 /\ (\A k \in 1 .. m : h[k] = f[k]) /\ h[m + 1] = x
    BY <1>4, <1>5, <2>1, AppendProperties
  <2>3. ASSUME NEW k \in 1 .. m + 1 PROVE g[k] = h[k]
    <3>1. g[k] = OneIn(S, k)
      BY <1>3
    <3>2. CASE k = m + 1
      BY <1>5, <2>2, <3>1, <3>2
    <3>3. CASE k # m + 1
      <4>1. k \in 1 .. m
        BY <3>3
      <4>2. f[k] = OneIn(S, k)
        BY <1>3, <4>1
      <4>3. QED
        BY <2>2, <3>1, <4>1, <4>2
    <3>4. QED
      BY <3>2, <3>3
  <2>4. g = h
    BY <1>4, <2>2, <2>3, SeqEqual
  <2>5. QED
    BY <2>1, <2>4
<1>7. Chosen(S, m) = FlattenSeq(f) /\ Chosen(S, m + 1) = FlattenSeq(g)
  BY <1>3 DEF Chosen
<1>8. FlattenSeq(f) \in Seq(Int)
  BY <1>4, FlattenType
<1>9. FlattenSeq(g) = FlattenSeq(f) \o x
  BY <1>4, <1>5, <1>6, FlattenAppend
<1>10. Chosen(S, 0) = <<>>
  <2>1. PICK z : z = [k \in 1 .. 0 |-> OneIn(S, k)]
    OBVIOUS
  <2>2. z \in Seq(Seq(Int)) /\ Len(z) = 0
    BY <1>2, <2>1
  <2>3. z = <<>>
    BY <2>2, EmptySeq
  <2>4. QED
    BY <2>1, <2>3, FlattenEmpty DEF Chosen
<1>11. ASSUME m + 1 \in S PROVE Chosen(S, m + 1) = Append(Chosen(S, m), m + 1)
  <2>1. x = <<m + 1>>
    BY <1>5, <1>11 DEF OneIn
  <2>2. m + 1 \in Int
    OBVIOUS
  <2>3. Append(FlattenSeq(f), m + 1) = FlattenSeq(f) \o <<m + 1>>
    BY <1>8, <2>2, AppendIsConcat
  <2>4. QED
    BY <1>7, <1>9, <2>1, <2>3
<1>12. ASSUME m + 1 \notin S PROVE Chosen(S, m + 1) = Chosen(S, m)
  <2>1. x = <<>>
    BY <1>5, <1>12 DEF OneIn
  <2>2. QED
    BY <1>7, <1>8, <1>9, <2>1, ConcatEmptySeq
<1>13. QED
  BY <1>7, <1>8, <1>10, <1>11, <1>12

(* What is chosen is in S, and there is as much of it as of S. *)
LEMMA ChosenAre ==
  ASSUME NEW S, NEW m \in Nat
  PROVE  /\ \A k \in 1 .. Len(Chosen(S, m)) : Chosen(S, m)[k] \in S /\ Chosen(S, m)[k] \in 1 .. m
         /\ IsFiniteSet(S \cap (1 .. m)) /\ Len(Chosen(S, m)) = Cardinality(S \cap (1 .. m))
         /\ (\A k \in 1 .. m : k \notin S) => Chosen(S, m) = <<>>
<1> DEFINE Good(n) == /\ \A k \in 1 .. Len(Chosen(S, n)) : Chosen(S, n)[k] \in S /\ Chosen(S, n)[k] \in 1 .. n
                      /\ IsFiniteSet(S \cap (1 .. n)) /\ Len(Chosen(S, n)) = Cardinality(S \cap (1 .. n))
                      /\ (\A k \in 1 .. n : k \notin S) => Chosen(S, n) = <<>>
           R == {n \in Nat : Good(n)}
<1>1. 0 \in R
  <2>1. Chosen(S, 0) = <<>> /\ Len(<<>>) = 0
    BY ChosenIs, EmptyIs
  <2>2. S \cap (1 .. 0) = {}
    OBVIOUS
  <2>3. IsFiniteSet(S \cap (1 .. 0)) /\ Cardinality(S \cap (1 .. 0)) = 0
    BY <2>2, FS_EmptySet
  <2>4. \A k \in 1 .. Len(Chosen(S, 0)) : FALSE
    BY <2>1
  <2>5. QED
    BY <2>1, <2>3, <2>4
<1>2. ASSUME NEW n \in Nat, Good(n) PROVE Good(n + 1)
  <2>1. PICK c, d, I, J : c = Chosen(S, n) /\ d = Chosen(S, n + 1) /\ I = S \cap (1 .. n) /\ J = S \cap (1 .. n + 1)
    OBVIOUS
  <2>2. /\ \A k \in 1 .. Len(c) : c[k] \in S /\ c[k] \in 1 .. n
        /\ IsFiniteSet(I) /\ Len(c) = Cardinality(I)
        /\ (\A k \in 1 .. n : k \notin S) => c = <<>>
    BY <1>2, <2>1
  <2>3. c \in Seq(Int) /\ Len(c) \in Nat
    BY <2>1, ChosenIs, LenProperties
  <2>4. CASE n + 1 \in S
    <3>1. d = Append(c, n + 1) /\ n + 1 \in Int
      <4>1. Chosen(S, n + 1) = Append(Chosen(S, n), n + 1)
        BY <2>4, ChosenIs
      <4>2. QED
        BY <2>1, <4>1
    <3>2. Len(d) = Len(c) + 1 /\ (\A k \in 1 .. Len(c) : d[k] = c[k]) /\ d[Len(c) + 1] = n + 1
      BY <2>3, <3>1, AppendProperties
    <3>3. J = I \cup {n + 1} /\ n + 1 \notin I
      BY <2>1, <2>4
    <3>4. IsFiniteSet(J) /\ Cardinality(J) = Cardinality(I) + 1
      BY <2>2, <3>3, FS_AddElement
    <3>5. ASSUME NEW k \in 1 .. Len(d) PROVE d[k] \in S /\ d[k] \in 1 .. n + 1
      <4>1. CASE k = Len(c) + 1
        <5>1. d[k] = n + 1 /\ n + 1 \in 1 .. n + 1
          BY <3>2, <4>1
        <5>2. QED
          BY <2>4, <5>1
      <4>2. CASE k # Len(c) + 1
        <5>1. k \in 1 .. Len(c)
          BY <2>3, <3>2, <4>2
        <5>2. d[k] = c[k] /\ c[k] \in S /\ c[k] \in 1 .. n
          BY <2>2, <3>2, <5>1
        <5>3. \A z \in 1 .. n : z \in 1 .. n + 1
          OBVIOUS
        <5>4. QED
          BY <5>2, <5>3
      <4>3. QED
        BY <4>1, <4>2
    <3>6. n + 1 \in 1 .. n + 1
      OBVIOUS
    <3>7. QED
      BY <2>1, <2>2, <2>4, <3>2, <3>4, <3>5, <3>6
  <2>5. CASE n + 1 \notin S
    <3>1. d = c
      BY <2>1, <2>5, ChosenIs
    <3>2. J = I
      BY <2>1, <2>5
    <3>3. \A z \in 1 .. n : z \in 1 .. n + 1
      OBVIOUS
    <3>4. QED
      BY <2>1, <2>2, <3>1, <3>2, <3>3
  <2>6. QED
    BY <2>4, <2>5
<1>3. m \in R
  <2> HIDE DEF Good
  <2>1. ASSUME NEW n \in 0 .. m - 1, n \in R PROVE n + 1 \in R
    <3>1. n \in Nat /\ n + 1 \in Nat
      OBVIOUS
    <3>2. Good(n)
      BY <2>1
    <3>3. Good(n + 1)
      BY <1>2, <3>1, <3>2
    <3>4. QED
      BY <3>1, <3>3
  <2> HIDE DEF R
  <2>2. \A n \in 0 .. m - 1 : n \in R => n + 1 \in R
    BY <2>1
  <2>3. \A n \in 0 .. m : n \in R
    BY <1>1, <2>2, Upward
  <2>4. QED
    BY <2>3
<1>4. Good(m)
  <2> HIDE DEF Good
  <2>1. QED
    BY <1>3
<1>5. QED
  BY <1>4

-----------------------------------------------------------------------------
(* The lexer.  What is picked of the line up to m: all but the blanks between
   words. *)
Picked(m) == [n \in 1 .. Len(Chosen(NotBlank, m)) |-> line[Chosen(NotBlank, m)[n]]]

(* What is picked, one character after the other. *)
LEMMA PickedIs ==
  ASSUME line \in Seq(STRING), NEW m \in 0 .. Len(line)
  PROVE  /\ Picked(m) \in Texts /\ (m = 0 => Picked(m) = <<>>)
         /\ m < Len(line) /\ m + 1 \in NotBlank => Picked(m + 1) = Picked(m) \o <<line[m + 1]>>
         /\ m < Len(line) /\ m + 1 \notin NotBlank => Picked(m + 1) = Picked(m)
<1>1. PICK l : l = Len(line) /\ l \in Nat /\ m \in 0 .. l
  OBVIOUS
<1>2. ASSUME NEW n \in 0 .. l
      PROVE  /\ Chosen(NotBlank, n) \in Seq(Int) /\ Len(Chosen(NotBlank, n)) \in Nat
             /\ Picked(n) \in Texts /\ Len(Picked(n)) = Len(Chosen(NotBlank, n))
             /\ \A k \in 1 .. Len(Chosen(NotBlank, n)) : Picked(n)[k] = line[Chosen(NotBlank, n)[k]]
  <2>1. PICK c, p : c = Chosen(NotBlank, n) /\ p = Picked(n)
    OBVIOUS
  <2>2. n \in Nat
    BY <1>1
  <2>3. c \in Seq(Int) /\ Len(c) \in Nat
    BY <2>1, <2>2, ChosenIs, LenProperties
  <2>4. \A k \in 1 .. Len(c) : c[k] \in 1 .. n
    BY <2>1, <2>2, ChosenAre
  <2>5. p = [k \in 1 .. Len(c) |-> line[c[k]]]
    BY <2>1 DEF Picked
  <2>6. \A k \in 1 .. Len(c) : line[c[k]] \in Chars
    <3>1. ASSUME NEW k \in 1 .. Len(c) PROVE line[c[k]] \in Chars
      <4>1. PICK z : z = c[k]
        OBVIOUS
      <4>2. z \in 1 .. n
        BY <2>4, <4>1
      <4>3. z \in 1 .. Len(line)
        BY <1>1, <4>2
      <4>4. line[z] \in STRING
        BY <4>3, ElementOfSeq
      <4>5. QED
        BY <4>1, <4>4 DEF Chars
    <3>2. QED
      BY <3>1
  <2>7. p \in [1 .. Len(c) -> Chars]
    BY <2>5, <2>6
  <2>8. p \in Seq(Chars)
    BY <2>3, <2>7, SeqDef
  <2>9. DOMAIN p = 1 .. Len(p) /\ DOMAIN p = 1 .. Len(c) /\ Len(p) \in Nat
    BY <2>7, <2>8, LenProperties
  <2>10. Len(p) = Len(c)
    BY <2>3, <2>9
  <2>11. QED
    BY <2>1, <2>3, <2>5, <2>8, <2>10 DEF Texts
<1>3. ASSUME m = 0 PROVE Picked(m) = <<>>
  <2>1. Chosen(NotBlank, 0) = <<>> /\ Len(<<>>) = 0
    BY ChosenIs, EmptyIs
  <2>2. Len(Picked(0)) = 0 /\ Picked(0) \in Texts
    BY <1>1, <1>2, <1>3, <2>1
  <2>3. QED
    BY <1>3, <2>2, EmptySeq DEF Texts
<1>4. ASSUME m < Len(line) PROVE m + 1 \in 0 .. l /\ m + 1 \in 1 .. l /\ m \in Nat
  BY <1>1, <1>4
<1>5. ASSUME m < Len(line), m + 1 \in NotBlank PROVE Picked(m + 1) = Picked(m) \o <<line[m + 1]>>
  <2>1. PICK c, d, p, q : c = Chosen(NotBlank, m) /\ d = Chosen(NotBlank, m + 1) /\ p = Picked(m) /\ q = Picked(m + 1)
    OBVIOUS
  <2>2. c \in Seq(Int) /\ Len(c) \in Nat /\ p \in Texts /\ Len(p) = Len(c) /\ \A k \in 1 .. Len(c) : p[k] = line[c[k]]
    BY <1>1, <1>2, <2>1
  <2>3. q \in Texts /\ Len(q) = Len(d) /\ \A k \in 1 .. Len(d) : q[k] = line[d[k]]
    BY <1>2, <1>4, <1>5, <2>1
  <2>4. d = Append(c, m + 1) /\ m + 1 \in Int
    <3>1. m \in Nat /\ m + 1 \in Int
      BY <1>1
    <3>2. Chosen(NotBlank, m + 1) = Append(Chosen(NotBlank, m), m + 1)
      BY <1>5, <3>1, ChosenIs
    <3>3. QED
      BY <2>1, <3>1, <3>2
  <2>5. Len(d) = Len(c) + 1 /\ (\A k \in 1 .. Len(c) : d[k] = c[k]) /\ d[Len(c) + 1] = m + 1
    BY <2>2, <2>4, AppendProperties
  <2>6. PICK x : x = line[m + 1] /\ x \in Chars
    <3>1. line[m + 1] \in STRING
      BY <1>1, <1>4, <1>5, ElementOfSeq
    <3>2. QED
      BY <3>1 DEF Chars
  <2>7. PICK r : r = Append(p, x)
    OBVIOUS
  <2>8. /\ r \in Texts /\ Len(r) = Len(c) + 1 /\ (\A k \in 1 .. Len(c) : r[k] = p[k]) /\ r[Len(c) + 1] = x
        /\ r = p \o <<x>>
    <3>1. p \in Seq(Chars)
      BY <2>2 DEF Texts
    <3>2. /\ r \in Seq(Chars) /\ Len(r) = Len(p) + 1 /\ (\A k \in 1 .. Len(p) : r[k] = p[k]) /\ r[Len(p) + 1] = x
          /\ r = p \o <<x>>
      BY <2>6, <2>7, <3>1, AppendProperties, AppendIsConcat
    <3>3. QED
      BY <2>2, <3>2 DEF Texts
  <2>9. ASSUME NEW k \in 1 .. Len(c) + 1 PROVE q[k] = r[k]
    <3>1. CASE k = Len(c) + 1
      <4>1. k \in 1 .. Len(d) /\ d[k] = m + 1
        BY <2>5, <3>1
      <4>2. QED
        BY <2>3, <2>6, <2>8, <3>1, <4>1
    <3>2. CASE k # Len(c) + 1
      <4>1. k \in 1 .. Len(c)
        BY <2>2, <3>2
      <4>2. k \in 1 .. Len(d) /\ d[k] = c[k]
        BY <2>5, <4>1
      <4>3. QED
        BY <2>2, <2>3, <2>8, <4>1, <4>2
    <3>3. QED
      BY <3>1, <3>2
  <2>10. q = r
    BY <2>3, <2>5, <2>8, <2>9, SeqEqual DEF Texts
  <2>11. QED
    BY <2>1, <2>6, <2>8, <2>10
<1>6. ASSUME m < Len(line), m + 1 \notin NotBlank PROVE Picked(m + 1) = Picked(m)
  <2>1. m \in Nat
    BY <1>1
  <2>2. Chosen(NotBlank, m + 1) = Chosen(NotBlank, m)
    BY <1>6, <2>1, ChosenIs
  <2>3. QED
    BY <2>2 DEF Picked
<1>7. Picked(m) \in Texts
  BY <1>1, <1>2
<1>8. QED
  BY <1>3, <1>5, <1>6, <1>7

(* Over blanks nothing is picked. *)
LEMMA PickedSame ==
  ASSUME line \in Seq(STRING), NEW a \in 1 .. Len(line) + 1, NEW b \in a .. Len(line) + 1,
         \A m \in a .. b - 1 : m \notin NotBlank
  PROVE  Picked(b - 1) = Picked(a - 1)
<1>1. PICK l : l = Len(line) /\ l \in Nat /\ a \in 1 .. l + 1 /\ b \in a .. l + 1
  OBVIOUS
<1> DEFINE S == {n \in Int : Picked(n - 1) = Picked(a - 1)}
<1>2. a \in S
  BY <1>1
<1>3. ASSUME NEW n \in a .. b - 1, n \in S PROVE n + 1 \in S
  <2>1. n - 1 \in 0 .. Len(line) /\ n - 1 < Len(line) /\ (n - 1) + 1 = n /\ (n + 1) - 1 = n /\ n + 1 \in Int
    BY <1>1
  <2>2. (n - 1) + 1 \notin NotBlank
    BY <2>1
  <2>3. Picked((n - 1) + 1) = Picked(n - 1)
    BY <2>1, <2>2, PickedIs
  <2>4. QED
    BY <1>3, <2>1, <2>3
<1>4. \A n \in a .. b : n \in S
  <2> HIDE DEF S
  <2>1. a \in Int /\ b \in Int /\ \A n \in a .. b - 1 : n \in S => n + 1 \in S
    BY <1>1, <1>3
  <2>2. QED
    BY <1>2, <2>1, Upward
<1>5. b \in a .. b
  BY <1>1
<1>6. QED
  BY <1>4, <1>5

(* Over a word everything is. *)
LEMMA PickedAll ==
  ASSUME line \in Seq(STRING), NEW a \in 1 .. Len(line) + 1, NEW b \in a .. Len(line) + 1,
         \A m \in a .. b - 1 : m \in NotBlank
  PROVE  Picked(b - 1) = Picked(a - 1) \o SubSeq(line, a, b - 1)
<1>1. PICK l : l = Len(line) /\ l \in Nat /\ a \in 1 .. l + 1 /\ b \in a .. l + 1
  OBVIOUS
<1>2. a - 1 \in 0 .. Len(line)
  BY <1>1
<1>3. Picked(a - 1) \in Texts
  BY <1>2, PickedIs
<1> DEFINE S == {n \in Int : Picked(n - 1) = Picked(a - 1) \o SubSeq(line, a, n - 1)}
<1>4. a \in S
  <2>1. SubSeq(line, a, a - 1) = <<>> /\ a \in Int
    BY <1>1, SubSeqEmpty
  <2>2. QED
    BY <1>3, <2>1, TextsAre
<1>5. ASSUME NEW n \in a .. b - 1, n \in S PROVE n + 1 \in S
  <2>1. /\ n - 1 \in 0 .. Len(line) /\ n - 1 < Len(line) /\ (n - 1) + 1 = n /\ (n + 1) - 1 = n /\ n + 1 \in Int
        /\ n \in 1 .. Len(line) /\ a \in 1 .. Len(line) /\ n \in a .. Len(line) /\ n - 1 \in a - 1 .. Len(line)
    BY <1>1
  <2>2. (n - 1) + 1 \in NotBlank
    BY <2>1
  <2>3. Picked((n - 1) + 1) = Picked(n - 1) \o <<line[(n - 1) + 1]>>
    BY <2>1, <2>2, PickedIs
  <2>4. PICK x : x = SubSeq(line, a, n - 1)
    OBVIOUS
  <2>5. SubSeq(line, a, n) = x \o <<line[n]>>
    BY <2>1, <2>4, SubSeqRecursiveSecond
  <2>6. x \in Texts
    <3>1. x \in Seq(STRING)
      BY <2>1, <2>4, SubIs
    <3>2. QED
      BY <3>1, TextsAre
  <2>7. <<line[n]>> \in Texts
    <3>1. line[n] \in STRING
      BY <2>1, ElementOfSeq
    <3>2. line[n] \in Chars
      BY <3>1 DEF Chars
    <3>3. QED
      BY <3>2, TextsAre
  <2>8. (Picked(a - 1) \o x) \o <<line[n]>> = Picked(a - 1) \o (x \o <<line[n]>>)
    BY <1>3, <2>6, <2>7, TextsAre
  <2>9. QED
    BY <1>5, <2>1, <2>3, <2>4, <2>5, <2>8
<1>6. \A n \in a .. b : n \in S
  <2> HIDE DEF S
  <2>1. a \in Int /\ b \in Int /\ \A n \in a .. b - 1 : n \in S => n + 1 \in S
    BY <1>1, <1>5
  <2>2. QED
    BY <1>4, <2>1, Upward
<1>7. b \in a .. b
  BY <1>1
<1>8. QED
  BY <1>6, <1>7

(* A line is characters none of which is the NUL that ends it. *)
IsLine == line \in Seq(STRING \ {""})

(* Its characters, and the quotes that are open before each. *)
LEMMA LineIs ==
  ASSUME IsLine
  PROVE  /\ line \in Seq(STRING) /\ Len(line) \in Nat /\ DOMAIN line = 1 .. Len(line)
         /\ \A p \in 1 .. Len(line) : line[p] \in STRING /\ line[p] # "" /\ At(p) = line[p]
         /\ \A p \in Int : p > Len(line) => At(p) = ""
         /\ OpenAt \in [1 .. Len(line) + 1 -> States] /\ OpenAt[1] = NoQuote
         /\ \A p \in 1 .. Len(line) : OpenAt[p + 1] = Toggle(OpenAt[p], line[p])
<1>1. line \in Seq(STRING)
  BY SeqMonotonic DEF IsLine
<1>2. Len(line) \in Nat /\ DOMAIN line = 1 .. Len(line)
  BY <1>1, LenProperties
<1>3. \A p \in 1 .. Len(line) : line[p] \in STRING \ {""}
  BY ElementOfSeq DEF IsLine
<1>4. ASSUME NEW p \in 1 .. Len(line) PROVE At(p) = line[p]
  <2>1. p <= Len(line)
    BY <1>2
  <2>2. QED
    BY <2>1 DEF At
<1>5. ASSUME NEW p \in Int, p > Len(line) PROVE At(p) = ""
  <2>1. ~ (p <= Len(line))
    BY <1>2, <1>5
  <2>2. QED
    BY <2>1 DEF At
<1>6. 1 \in 1 .. Len(line) + 1
  BY <1>2
<1>7. /\ OpenAt \in [1 .. Len(line) + 1 -> States] /\ OpenAt[1] = NoQuote
      /\ \A p \in 1 .. Len(line) : OpenAt[p + 1] = Toggle(OpenAt[p], line[p])
  BY <1>1, <1>6, QuoteIs DEF OpenAt
<1>8. QED
  BY <1>1, <1>2, <1>3, <1>4, <1>5, <1>7

(* Quotes are read alike from every place outside of them. *)
LEMMA QuoteAgain ==
  ASSUME NEW s \in Seq(STRING), NEW p \in 1 .. Len(s) + 1, QuoteFrom(s, 1)[p] = NoQuote
  PROVE  \A q \in p .. Len(s) + 1 : QuoteFrom(s, p)[q] = QuoteFrom(s, 1)[q]
<1>1. PICK l : l = Len(s) /\ l \in Nat /\ p \in 1 .. l + 1
  OBVIOUS
<1>2. 1 \in 1 .. Len(s) + 1 /\ p \in p .. Len(s) + 1 /\ Len(s) \in p - 1 .. Len(s)
  BY <1>1
<1>3. QuoteFrom(s, p)[p] = NoQuote
  BY <1>2, QuoteIs
<1>4. \A k \in 1 .. Len(s) - p + 2 : QuoteFrom(SubSeq(s, p, Len(s)), 1)[k] = QuoteFrom(s, 1)[k + p - 1]
  BY <1>2, QuoteSub
<1>5. \A k \in 1 .. Len(s) - p + 2 : QuoteFrom(SubSeq(s, p, Len(s)), 1)[k] = QuoteFrom(s, p)[k + p - 1]
  BY <1>2, <1>3, QuoteSub
<1>6. ASSUME NEW q \in p .. Len(s) + 1 PROVE QuoteFrom(s, p)[q] = QuoteFrom(s, 1)[q]
  <2>1. PICK k \in Int : k = q - p + 1
    BY <1>1
  <2>2. k \in 1 .. Len(s) - p + 2 /\ k + p - 1 = q
    BY <1>1, <2>1
  <2>3. QuoteFrom(s, 1)[k + p - 1] = QuoteFrom(s, p)[k + p - 1]
    BY <1>4, <1>5, <2>2
  <2>4. QED
    BY <2>2, <2>3
<1>7. QED
  BY <1>6

(* Outside words: the next word begins here or later. *)
Between(p) ==
    /\ p \in 1 .. Len(line) + 1 /\ OpenAt[p] = NoQuote
    /\ p <= Len(line) /\ ~ Separator(p) => p = 1 \/ Separator(p - 1)

(* The blanks before the next token. *)
LEMMA NextIs ==
  ASSUME IsLine, Between(i)
  PROVE  /\ NextChar \in i .. Len(line) + 1 /\ Between(NextChar)
         /\ NextChar <= Len(line) => line[NextChar] \notin Spaces
         /\ Picked(NextChar - 1) = Picked(i - 1)
         /\ WordStarts \cap (1 .. NextChar - 1) = WordStarts \cap (1 .. i - 1)
<1>1. PICK l : l = Len(line) /\ l \in Nat /\ DOMAIN line = 1 .. l /\ line \in Seq(STRING)
  BY LineIs
<1>2. i \in 1 .. l + 1 /\ OpenAt[i] = NoQuote
  BY <1>1 DEF Between
<1>3. PICK S : S = {p \in i .. Len(line) : line[p] \notin Spaces} \cup {Len(line) + 1}
  OBVIOUS
<1>4. S \in SUBSET Nat /\ S # {} /\ (\A n \in S : n \in i .. l + 1) /\ \A n \in S : n <= l => line[n] \notin Spaces
  BY <1>1, <1>2, <1>3
<1>5. PICK p : p = Min(S)
  OBVIOUS
<1>6. p \in S /\ \A n \in S : p <= n
  BY <1>4, <1>5, MinIs
<1>7. NextChar = p
  BY <1>3, <1>5 DEF NextChar
<1>8. p \in i .. l + 1 /\ (p <= l => line[p] \notin Spaces)
  BY <1>4, <1>6
<1>9. \A m \in i .. p - 1 : line[m] \in Spaces
  <2>1. ASSUME NEW m \in i .. p - 1, line[m] \notin Spaces PROVE FALSE
    <3>1. m \in i .. Len(line) /\ ~ (p <= m)
      BY <1>1, <1>2, <1>8
    <3>2. m \in S
      BY <1>3, <2>1, <3>1
    <3>3. QED
      BY <1>6, <3>1, <3>2
  <2>2. QED
    BY <2>1
<1>10. \A m \in i .. p : OpenAt[m] = NoQuote
  <2>1. i \in 1 .. Len(line) + 1 /\ p \in i .. Len(line) + 1
    BY <1>1, <1>2, <1>8
  <2>2. \A c \in Spaces : c \notin Ends(NoQuote)
    BY DEF Spaces, Ends, Quotes, Sq, Dq
  <2>3. QED
    BY <1>1, <1>2, <1>9, <2>1, <2>2, QuoteStays DEF OpenAt
<1>11. \A m \in i .. p - 1 : Separator(m) /\ m \notin NotBlank
  <2>1. ASSUME NEW m \in i .. p - 1 PROVE m \in i .. p
    BY <1>2, <1>8
  <2>2. QED
    BY <1>9, <1>10, <2>1 DEF Separator, NotBlank
<1>12. Picked(p - 1) = Picked(i - 1)
  <2>1. i \in 1 .. Len(line) + 1 /\ p \in i .. Len(line) + 1
    BY <1>1, <1>2, <1>8
  <2>2. QED
    BY <1>1, <1>11, <2>1, PickedSame
<1>13. WordStarts \cap (1 .. p - 1) = WordStarts \cap (1 .. i - 1)
  <2>1. ASSUME NEW m \in 1 .. p - 1 PROVE m \in 1 .. i - 1 \/ m \in i .. p - 1
    BY <1>2, <1>8
  <2>2. \A m \in i .. p - 1 : m \notin WordStarts
    BY <1>11 DEF WordStarts
  <2>3. \A m \in 1 .. i - 1 : m \in 1 .. p - 1
    BY <1>2, <1>8
  <2>4. QED
    BY <2>1, <2>2, <2>3
<1>14. Between(p)
  <2>1. p \in 1 .. Len(line) + 1 /\ p \in i .. p
    BY <1>1, <1>2, <1>8
  <2>2. ASSUME p <= Len(line), ~ Separator(p) PROVE p = 1 \/ Separator(p - 1)
    <3>1. CASE p = i
      BY <2>2, <3>1 DEF Between
    <3>2. CASE p # i
      <4>1. p - 1 \in i .. p - 1
        BY <1>2, <1>8, <3>2
      <4>2. QED
        BY <1>11, <4>1
    <3>3. QED
      BY <3>1, <3>2
  <2>3. QED
    BY <1>10, <2>1, <2>2 DEF Between
<1>15. QED
  BY <1>1, <1>7, <1>8, <1>12, <1>13, <1>14

(* Where the word that begins at p ends, and that word. *)
WordEnd(p) == Min({q \in p .. Len(line) : Separator(q)} \cup {Len(line) + 1})
WordAt(p) == SubSeq(line, p, WordEnd(p) - 1)

(* A word: it runs to the next separator. *)
LEMMA WordIs ==
  ASSUME IsLine, NEW p \in 1 .. Len(line), Between(p), line[p] \notin Spaces \cup Ops,
         NEW end, end = lex_word_end(line, p)
  PROVE  /\ end \in p + 1 .. Len(line) + 1 /\ QuoteFrom(line, p)[end] = OpenAt[end]
         /\ \A q \in p .. end - 1 : ~ Separator(q)
         /\ end = WordEnd(p) /\ (end <= Len(line) => Separator(end))
         /\ Picked(end - 1) = Picked(p - 1) \o SubSeq(line, p, end - 1)
         /\ WordStarts \cap (1 .. end - 1) = (WordStarts \cap (1 .. p - 1)) \cup {p}
         /\ SubSeq(line, p, end - 1) \in Seq(STRING)
         /\ OpenAt[end] = NoQuote => Closed(SubSeq(line, p, end - 1))
<1>1. PICK l : l = Len(line) /\ l \in Nat /\ DOMAIN line = 1 .. l /\ line \in Seq(STRING)
  BY LineIs
<1>2. p \in 1 .. l /\ p \in 1 .. Len(line) + 1 /\ OpenAt[p] = NoQuote
  BY <1>1 DEF Between
<1>3. \A q \in p .. l + 1 : QuoteFrom(line, p)[q] = OpenAt[q]
  BY <1>1, <1>2, QuoteAgain DEF OpenAt
<1>4. PICK S : S = {q \in p .. Len(line) : Separator(q)} \cup {Len(line) + 1}
  OBVIOUS
<1>5. end = Min(S)
  <2>1. {q \in p .. Len(line) : QuoteFrom(line, p)[q] = NoQuote /\ line[q] \in Spaces \cup Ops}
          = {q \in p .. Len(line) : Separator(q)}
    <3>1. \A q \in p .. Len(line) : QuoteFrom(line, p)[q] = OpenAt[q]
      <4>1. \A q \in p .. Len(line) : q \in p .. l + 1
        BY <1>1, <1>2
      <4>2. QED
        BY <1>3, <4>1
    <3>2. QED
      BY <3>1 DEF Separator
  <2>2. QED
    BY <1>4, <2>1 DEF lex_word_end
<1>6. S \in SUBSET Nat /\ S # {} /\ (\A n \in S : n \in p .. l + 1) /\ \A n \in S : n <= l => Separator(n)
  BY <1>1, <1>2, <1>4
<1>7. end \in S /\ \A n \in S : end <= n
  BY <1>5, <1>6, MinIs
<1>8. end \in p .. l + 1 /\ (end <= l => Separator(end))
  BY <1>6, <1>7
<1>9. ~ Separator(p)
  BY DEF Separator
<1>10. end \in p + 1 .. l + 1
  BY <1>1, <1>2, <1>8, <1>9
<1>11. \A q \in p .. end - 1 : ~ Separator(q)
  <2>1. ASSUME NEW q \in p .. end - 1, Separator(q) PROVE FALSE
    <3>1. q \in p .. Len(line) /\ ~ (end <= q)
      BY <1>1, <1>2, <1>8
    <3>2. q \in S
      BY <1>4, <2>1, <3>1
    <3>3. QED
      BY <1>7, <3>1, <3>2
  <2>2. QED
    BY <2>1
<1>12. \A q \in p .. end - 1 : q \in NotBlank
  <2>1. \A q \in p .. end - 1 : q \in DOMAIN line
    BY <1>1, <1>2, <1>8
  <2>2. QED
    BY <1>11, <2>1 DEF NotBlank
<1>13. Picked(end - 1) = Picked(p - 1) \o SubSeq(line, p, end - 1)
  <2>1. p \in 1 .. Len(line) + 1 /\ end \in p .. Len(line) + 1
    BY <1>1, <1>2, <1>8
  <2>2. QED
    BY <1>1, <1>12, <2>1, PickedAll
<1>14. WordStarts \cap (1 .. end - 1) = (WordStarts \cap (1 .. p - 1)) \cup {p}
  <2>1. p \in WordStarts
    <3>1. p = 1 \/ Separator(p - 1)
      BY <1>1, <1>2, <1>9 DEF Between
    <3>2. QED
      BY <1>1, <1>2, <1>9, <3>1 DEF WordStarts
  <2>2. ASSUME NEW m \in p + 1 .. end - 1 PROVE m \notin WordStarts
    <3>1. m - 1 \in p .. end - 1 /\ m # 1
      BY <1>2, <1>8
    <3>2. QED
      BY <1>11, <3>1 DEF WordStarts
  <2>3. ASSUME NEW m \in 1 .. end - 1 PROVE m \in 1 .. p - 1 \/ m = p \/ m \in p + 1 .. end - 1
    BY <1>2, <1>8
  <2>4. p \in 1 .. end - 1 /\ \A m \in 1 .. p - 1 : m \in 1 .. end - 1
    BY <1>2, <1>10
  <2>5. QED
    BY <2>1, <2>2, <2>3, <2>4
<1>15. PICK b \in Int : b = end - 1
  BY <1>8
<1>16. p \in p .. Len(line) + 1 /\ b \in p - 1 .. Len(line) /\ p \in 1 .. Len(line) + 1
  BY <1>1, <1>2, <1>8, <1>15
<1>17. SubSeq(line, p, b) \in Seq(STRING) /\ Len(SubSeq(line, p, b)) = b - p + 1
  BY <1>1, <1>16, SubIs
<1>18. ASSUME OpenAt[end] = NoQuote PROVE Closed(SubSeq(line, p, b))
  <2>1. QuoteFrom(line, p)[p] = NoQuote
    BY <1>1, <1>16, QuoteIs
  <2>2. \A k \in 1 .. b - p + 2 : QuoteFrom(SubSeq(line, p, b), 1)[k] = QuoteFrom(line, p)[k + p - 1]
    BY <1>1, <1>16, <2>1, QuoteSub
  <2>3. PICK k \in Int : k = b - p + 2
    BY <1>2, <1>15
  <2>4. k \in 1 .. b - p + 2 /\ k + p - 1 = end /\ (b - p + 1) + 1 = k
    <3>1. PICK z \in Int : z = end
      BY <1>8
    <3>2. p \in Int /\ z >= p /\ b = z - 1
      BY <1>2, <1>8, <1>15, <3>1
    <3>3. k \in 1 .. b - p + 2 /\ k + p - 1 = z /\ (b - p + 1) + 1 = k
      <4>1. k = z - 1 - p + 2
        BY <2>3, <3>2
      <4>2. k = z - p + 1
        BY <3>2, <4>1
      <4>3. QED
        BY <2>3, <3>2, <4>2
    <3>4. QED
      BY <3>1, <3>3
  <2>5. QuoteFrom(SubSeq(line, p, b), 1)[k] = QuoteFrom(line, p)[end]
    BY <2>2, <2>4
  <2>6. QuoteFrom(line, p)[end] = NoQuote
    BY <1>3, <1>8, <1>18
  <2>7. QED
    BY <1>17, <2>4, <2>5, <2>6 DEF Closed
<1>19. end = WordEnd(p)
  BY <1>4, <1>5 DEF WordEnd
<1>20. QED
  BY <1>1, <1>3, <1>8, <1>10, <1>11, <1>13, <1>14, <1>15, <1>17, <1>18, <1>19

(* The same twice. *)
LEMMA TwoIs == ASSUME NEW a PROVE <<a>> \o <<a>> = <<a, a>>
<1>1. PICK S : S = {a}
  OBVIOUS
<1>2. a \in S
  BY <1>1
<1>3. PICK x, y : x = <<a>> /\ y = Append(x, a)
  OBVIOUS
<1>4. x \in Seq(S) /\ Len(x) = 1 /\ x[1] = a
  BY <1>2, <1>3, OneIs
<1>5. y = x \o <<a>>
  BY <1>2, <1>3, <1>4, AppendIsConcat
<1>6. y \in Seq(S) /\ Len(y) = 2 /\ y[1] = a /\ y[2] = a
  BY <1>2, <1>3, <1>4, AppendProperties
<1>7. PICK z : z = <<a, a>>
  OBVIOUS
<1>8. z \in Seq(S) /\ Len(z) = 2 /\ z[1] = a /\ z[2] = a
  BY <1>2, <1>7
<1>9. \A k \in 1 .. 2 : k = 1 \/ k = 2
  OBVIOUS
<1>10. y = z
  BY <1>6, <1>8, <1>9, SeqEqual
<1>11. QED
  BY <1>3, <1>5, <1>7, <1>10

(* An operator: one or two characters, each a separator. *)
LEMMA OpIs ==
  ASSUME IsLine, NEW p \in 1 .. Len(line), OpenAt[p] = NoQuote, line[p] \in Ops,
         NEW t, t = [type |-> OpType(p), value |-> NULL], NEW z, z = p + OpLen(p)
  PROVE  /\ z \in p + 1 .. Len(line) + 1 /\ OpenAt[z] = NoQuote /\ Separator(z - 1)
         /\ t.type \in Types \ {"word"} /\ t.value = NULL
         /\ Picked(z - 1) = Picked(p - 1) \o Spelling(t) /\ Spelling(t) \in Texts
         /\ WordStarts \cap (1 .. z - 1) = WordStarts \cap (1 .. p - 1)
         /\ t.type = "pipe" => line[p] = "|"
<1>1. PICK l : l = Len(line) /\ l \in Nat /\ DOMAIN line = 1 .. l /\ line \in Seq(STRING)
  BY LineIs
<1>2. p \in 1 .. l /\ p \in Int
  BY <1>1
<1>3. ASSUME NEW q \in 1 .. l, OpenAt[q] = NoQuote, line[q] \in Ops
      PROVE  Separator(q) /\ q \in NotBlank /\ q \notin WordStarts /\ OpenAt[q + 1] = NoQuote
  <2>1. Separator(q) /\ q \in DOMAIN line /\ line[q] \notin Spaces /\ line[q] \notin Quotes
    BY <1>1, <1>3 DEF Separator, Ops, Spaces, Quotes, Sq, Dq
  <2>2. OpenAt[q + 1] = Toggle(NoQuote, line[q])
    BY <1>1, <1>3, LineIs
  <2>3. Toggle(NoQuote, line[q]) = NoQuote
    BY <2>1 DEF Toggle
  <2>4. QED
    BY <2>1, <2>2, <2>3 DEF NotBlank, WordStarts
<1>4. At(p) = line[p]
  BY LineIs
<1>5. t.type = OpType(p) /\ t.value = NULL
  OBVIOUS
<1>6. CASE OpLen(p) = 1
  <2>1. Spelling(t) = <<line[p]>> /\ t.type \in Types \ {"word"} /\ (t.type = "pipe" => line[p] = "|")
    BY <1>4, <1>5, <1>6 DEF OpLen, OpType, Spelling, Ops, Types, RedirTypes
  <2>2. z = p + 1 /\ z - 1 = p /\ p - 1 \in 0 .. Len(line) /\ p - 1 < Len(line) /\ (p - 1) + 1 = p
    BY <1>1, <1>2, <1>6
  <2>3. Separator(p) /\ p \in NotBlank /\ p \notin WordStarts /\ OpenAt[p + 1] = NoQuote
    BY <1>2, <1>3
  <2>4. Picked(p) = Picked(p - 1) \o <<line[p]>>
    <3>1. (p - 1) + 1 \in NotBlank
      BY <2>2, <2>3
    <3>2. Picked((p - 1) + 1) = Picked(p - 1) \o <<line[(p - 1) + 1]>>
      BY <1>1, <2>2, <3>1, PickedIs
    <3>3. QED
      BY <2>2, <3>2
  <2>5. <<line[p]>> \in Texts
    <3>1. line[p] \in Chars
      BY LineIs DEF Chars
    <3>2. QED
      BY <3>1, TextsAre
  <2>6. WordStarts \cap (1 .. p) = WordStarts \cap (1 .. p - 1)
    <3>1. \A m \in 1 .. p : m \in 1 .. p - 1 \/ m = p
      BY <1>2
    <3>2. \A m \in 1 .. p - 1 : m \in 1 .. p
      BY <1>2
    <3>3. QED
      BY <2>3, <3>1, <3>2
  <2>7. z \in p + 1 .. Len(line) + 1
    BY <1>1, <1>2, <2>2
  <2>8. QED
    BY <1>5, <2>1, <2>2, <2>3, <2>4, <2>5, <2>6, <2>7
<1>7. CASE OpLen(p) = 2
  <2>1. OpType(p) \in {"heredoc", "append"} /\ At(p + 1) = line[p]
    BY <1>4, <1>7 DEF OpLen, OpType
  <2>2. Spelling(t) = <<line[p], line[p]>> /\ t.type \in Types \ {"word"} /\ t.type # "pipe"
    BY <1>4, <1>5, <1>7 DEF OpLen, OpType, Spelling, Ops, Types, RedirTypes
  <2>3. p + 1 \in 1 .. l /\ line[p + 1] = line[p]
    <3>1. ASSUME p + 1 > l PROVE FALSE
      <4>1. At(p + 1) = ""
        <5>1. p + 1 \in Int /\ p + 1 > Len(line)
          BY <1>1, <1>2, <3>1
        <5>2. QED
          BY <5>1, LineIs
      <4>2. line[p] # ""
        BY LineIs
      <4>3. QED
        BY <2>1, <4>1, <4>2
    <3>2. p + 1 \in 1 .. l
      BY <1>1, <1>2, <3>1
    <3>3. QED
      BY <1>1, <2>1, <3>2, LineIs
  <2>4. Separator(p) /\ p \in NotBlank /\ p \notin WordStarts /\ OpenAt[p + 1] = NoQuote
    BY <1>2, <1>3
  <2>5. Separator(p + 1) /\ p + 1 \in NotBlank /\ p + 1 \notin WordStarts /\ OpenAt[(p + 1) + 1] = NoQuote
    BY <1>3, <2>3, <2>4
  <2>6. z = (p + 1) + 1 /\ z - 1 = p + 1 /\ p - 1 \in 0 .. Len(line) /\ p - 1 < Len(line) /\ (p - 1) + 1 = p
        /\ p \in 0 .. Len(line) /\ p < Len(line)
    BY <1>1, <1>2, <1>7, <2>3
  <2>7. PICK x : x = <<line[p]>>
    OBVIOUS
  <2>8. x \in Texts
    <3>1. line[p] \in Chars
      BY LineIs DEF Chars
    <3>2. QED
      BY <2>7, <3>1, TextsAre
  <2>9. Picked(p) = Picked(p - 1) \o x
    <3>1. (p - 1) + 1 \in NotBlank
      BY <2>4, <2>6
    <3>2. Picked((p - 1) + 1) = Picked(p - 1) \o <<line[(p - 1) + 1]>>
      BY <1>1, <2>6, <3>1, PickedIs
    <3>3. QED
      BY <2>6, <2>7, <3>2
  <2>10. Picked(p + 1) = Picked(p) \o x
    <3>1. Picked(p + 1) = Picked(p) \o <<line[p + 1]>>
      BY <1>1, <2>5, <2>6, PickedIs
    <3>2. QED
      BY <2>3, <2>7, <3>1
  <2>11. x \o x = <<line[p], line[p]>> /\ x \o x \in Texts
    <3>1. x \o x \in Texts
      BY <2>8, TextsAre
    <3>2. PICK a : a = line[p]
      OBVIOUS
    <3>3. x = <<a>>
      BY <2>7, <3>2
    <3>4. <<a>> \o <<a>> = <<a, a>>
      BY TwoIs
    <3>5. QED
      BY <3>1, <3>2, <3>3, <3>4
  <2>12. Picked(p - 1) \in Texts
    BY <1>1, <2>6, PickedIs
  <2>13. (Picked(p - 1) \o x) \o x = Picked(p - 1) \o (x \o x)
    BY <2>8, <2>12, TextsAre
  <2>14. WordStarts \cap (1 .. p + 1) = WordStarts \cap (1 .. p - 1)
    <3>1. \A m \in 1 .. p + 1 : m \in 1 .. p - 1 \/ m = p \/ m = p + 1
      BY <1>2
    <3>2. \A m \in 1 .. p - 1 : m \in 1 .. p + 1
      BY <1>2
    <3>3. QED
      BY <2>4, <2>5, <3>1, <3>2
  <2>15. z \in p + 1 .. Len(line) + 1
    BY <1>1, <2>3, <2>6
  <2>16. QED
    BY <1>5, <2>2, <2>5, <2>6, <2>9, <2>10, <2>11, <2>13, <2>14, <2>15
<1>8. OpLen(p) \in {1, 2}
  BY DEF OpLen
<1>9. QED
  BY <1>6, <1>7, <1>8

-----------------------------------------------------------------------------
(* The pipes of the line. *)
Bars == {p \in DOMAIN line : Separator(p) /\ line[p] = "|"}

(* Where the tokens ts come from in the first b characters of the line. *)
FromLine(ts, src, b) ==
    /\ src \in [1 .. Len(ts) -> 1 .. b]
    /\ \A k, m \in 1 .. Len(ts) : k < m => src[k] < src[m]
    /\ \A k \in 1 .. Len(ts) :
          /\ ts[k].type = "word" => src[k] \in WordStarts /\ (ts[k].value = NULL \/ ts[k].value.text = WordAt(src[k]))
          /\ ts[k].type = "pipe" => src[k] \in Bars
Sourced(ts, b) == \E src : FromLine(ts, src, b)

(* Nothing of the first m characters is dropped and nothing doubled. *)
WordToks(ts) == {k \in DOMAIN ts : ts[k].type = "word"}
Spelled(ts)  == [k \in DOMAIN ts |-> Spelling(ts[k])]
Told(ts, m)  == /\ FlattenSeq(Spelled(ts)) = Picked(m)
                /\ Cardinality(WordToks(ts)) = Cardinality(WordStarts \cap (1 .. m))

(* Tokens that can be spelled, whose words have their quotes closed. *)
Whole(ts) == \A k \in 1 .. Len(ts) :
    /\ Spelling(ts[k]) \in Texts
    /\ ts[k].type = "word" => ts[k].value.text \in Seq(STRING) /\ Closed(ts[k].value.text)

(* What comes from the line's beginning comes from the line. *)
LEMMA SourcedWider == ASSUME NEW ts, NEW a \in Int, NEW b \in Int, a <= b, Sourced(ts, a) PROVE Sourced(ts, b)
<1>1. PICK src : FromLine(ts, src, a)
  BY DEF Sourced
<1>2. \A p \in 1 .. a : p \in 1 .. b
  OBVIOUS
<1>3. src \in [1 .. Len(ts) -> 1 .. b]
  BY <1>1, <1>2 DEF FromLine
<1>4. FromLine(ts, src, b)
  BY <1>1, <1>3 DEF FromLine
<1>5. QED
  BY <1>4 DEF Sourced

(* One token more, from a later place. *)
LEMMA SourcedMore ==
  ASSUME NEW ts, IsList(ts), NEW t, NEW a \in Int, NEW b \in Int, NEW p \in a + 1 .. b, a >= 0, Sourced(ts, a),
         t.type = "word" => p \in WordStarts /\ (t.value = NULL \/ t.value.text = WordAt(p)),
         t.type = "pipe" => p \in Bars
  PROVE  Sourced(Append(ts, t), b)
<1>1. PICK src : FromLine(ts, src, a)
  BY DEF Sourced
<1>2. PICK l, u : l = Len(ts) /\ u = Append(ts, t)
  OBVIOUS
<1>3. l \in Nat /\ Len(u) = l + 1 /\ (\A k \in 1 .. l : u[k] = ts[k]) /\ u[l + 1] = t
  BY <1>2, ListIs, AppendList
<1>4. PICK f : f = [k \in 1 .. l + 1 |-> IF k = l + 1 THEN p ELSE src[k]]
  OBVIOUS
<1>5. (\A k \in 1 .. l : f[k] = src[k] /\ src[k] \in 1 .. a) /\ f[l + 1] = p
  <2>1. \A k \in 1 .. l : k \in 1 .. l + 1 /\ k # l + 1
    BY <1>3
  <2>2. l + 1 \in 1 .. l + 1
    BY <1>3
  <2>3. \A k \in 1 .. l : src[k] \in 1 .. a
    BY <1>1, <1>2 DEF FromLine
  <2>4. QED
    BY <1>4, <2>1, <2>2, <2>3
<1>6. \A k \in 1 .. l + 1 : k \in 1 .. l \/ k = l + 1
  BY <1>3
<1>7. \A k \in 1 .. l + 1 : f[k] \in 1 .. b
  BY <1>5, <1>6
<1>8. f \in [1 .. l + 1 -> 1 .. b]
  BY <1>4, <1>7
<1>9. ASSUME NEW k \in 1 .. l + 1, NEW m \in 1 .. l + 1, k < m PROVE f[k] < f[m]
  <2>1. k \in 1 .. l
    BY <1>3, <1>9
  <2>2. CASE m \in 1 .. l
    <3>1. src[k] < src[m]
      BY <1>1, <1>2, <1>9, <2>1, <2>2 DEF FromLine
    <3>2. QED
      BY <1>5, <2>1, <2>2, <3>1
  <2>3. CASE m = l + 1
    <3>1. f[k] \in 1 .. a /\ f[m] = p
      BY <1>5, <2>1, <2>3
    <3>2. QED
      BY <3>1
  <2>4. QED
    BY <1>6, <2>2, <2>3
<1>10. ASSUME NEW k \in 1 .. l + 1
       PROVE  /\ u[k].type = "word" => f[k] \in WordStarts /\ (u[k].value = NULL \/ u[k].value.text = WordAt(f[k]))
              /\ u[k].type = "pipe" => f[k] \in Bars
  <2>1. CASE k \in 1 .. l
    <3>1. u[k] = ts[k] /\ f[k] = src[k]
      BY <1>3, <1>5, <2>1
    <3>2. /\ ts[k].type = "word" => src[k] \in WordStarts /\ (ts[k].value = NULL \/ ts[k].value.text = WordAt(src[k]))
          /\ ts[k].type = "pipe" => src[k] \in Bars
      BY <1>1, <1>2, <2>1 DEF FromLine
    <3>3. QED
      BY <3>1, <3>2
  <2>2. CASE k = l + 1
    BY <1>3, <1>5, <2>2
  <2>3. QED
    BY <1>6, <2>1, <2>2
<1>11. FromLine(u, f, b)
  BY <1>3, <1>8, <1>9, <1>10 DEF FromLine
<1>12. QED
  BY <1>2, <1>11 DEF Sourced

(* The spelling of one token more, and the words among the tokens. *)
LEMMA ToldMore ==
  ASSUME NEW ts, IsList(ts), Whole(ts), NEW t, Spelling(t) \in Texts, NEW a, NEW b, Told(ts, a),
         Picked(b) = Picked(a) \o Spelling(t),
         t.type = "word" => \E p : /\ p \notin WordStarts \cap (1 .. a)
                                   /\ WordStarts \cap (1 .. b) = (WordStarts \cap (1 .. a)) \cup {p},
         t.type # "word" => WordStarts \cap (1 .. b) = WordStarts \cap (1 .. a),
         IsFiniteSet(WordStarts \cap (1 .. a))
  PROVE  Told(Append(ts, t), b)
<1>1. PICK l, u : l = Len(ts) /\ u = Append(ts, t)
  OBVIOUS
<1>2. /\ l \in Nat /\ DOMAIN ts = 1 .. l /\ Len(u) = l + 1 /\ DOMAIN u = 1 .. l + 1
      /\ (\A k \in 1 .. l : u[k] = ts[k]) /\ u[l + 1] = t
  BY <1>1, ListIs, AppendList
<1>3. PICK x, y : x = Spelled(ts) /\ y = Spelled(u)
  OBVIOUS
<1>4. x \in Seq(Texts) /\ Len(x) = l /\ \A k \in 1 .. l : x[k] = Spelling(ts[k])
  <2>1. x = [k \in 1 .. l |-> Spelling(ts[k])]
    BY <1>2, <1>3 DEF Spelled
  <2>2. x \in [1 .. l -> Texts]
    BY <1>1, <2>1 DEF Whole
  <2>3. x \in Seq(Texts)
    BY <1>2, <2>2, SeqDef
  <2>4. DOMAIN x = 1 .. Len(x) /\ DOMAIN x = 1 .. l /\ Len(x) \in Nat
    BY <2>2, <2>3, LenProperties
  <2>5. QED
    BY <1>2, <2>1, <2>3, <2>4
<1>5. \A k \in 1 .. l + 1 : k \in 1 .. l \/ k = l + 1
  BY <1>2
<1>6. y \in Seq(Texts) /\ Len(y) = l + 1 /\ (\A k \in 1 .. l : y[k] = x[k]) /\ y[l + 1] = Spelling(t)
  <2>1. y = [k \in 1 .. l + 1 |-> Spelling(u[k])]
    BY <1>2, <1>3 DEF Spelled
  <2>2. \A k \in 1 .. l : k \in 1 .. l + 1
    BY <1>2
  <2>3. l + 1 \in 1 .. l + 1 /\ l + 1 \in Nat
    BY <1>2
  <2>4. (\A k \in 1 .. l : y[k] = x[k]) /\ y[l + 1] = Spelling(t)
    BY <1>2, <1>4, <2>1, <2>2, <2>3
  <2>5. \A k \in 1 .. l : x[k] \in Texts
    BY <1>4, ElementOfSeq
  <2>6. \A k \in 1 .. l + 1 : y[k] \in Texts
    BY <1>5, <2>4, <2>5
  <2>7. y \in [1 .. l + 1 -> Texts]
    BY <2>1, <2>6
  <2>8. y \in Seq(Texts)
    BY <2>3, <2>7, SeqDef
  <2>9. DOMAIN y = 1 .. Len(y) /\ DOMAIN y = 1 .. l + 1 /\ Len(y) \in Nat
    BY <2>7, <2>8, LenProperties
  <2>10. Len(y) = l + 1
    <3>1. PICK n, m : n = l + 1 /\ m = Len(y)
      OBVIOUS
    <3>2. n \in Nat /\ m \in Nat /\ 1 .. m = 1 .. n
      BY <2>3, <2>9, <3>1
    <3>3. m = n
      BY <3>2
    <3>4. QED
      BY <3>1, <3>3
  <2>11. QED
    BY <2>4, <2>8, <2>10
<1>7. y = Append(x, Spelling(t))
  <2>1. PICK z, v : v = Spelling(t) /\ z = Append(x, v)
    OBVIOUS
  <2>2. z \in Seq(Texts) /\ Len(z) = l + 1 /\ (\A k \in 1 .. l : z[k] = x[k]) /\ z[l + 1] = v
    BY <1>4, <2>1, AppendProperties
  <2>3. \A k \in 1 .. l + 1 : y[k] = z[k]
    BY <1>5, <1>6, <2>1, <2>2
  <2>4. QED
    BY <1>6, <2>1, <2>2, <2>3, SeqEqual
<1>8. FlattenSeq(y) = FlattenSeq(x) \o Spelling(t)
  BY <1>4, <1>7, FlattenAppend DEF Texts
<1>9. FlattenSeq(Spelled(u)) = Picked(b)
  BY <1>3, <1>8 DEF Told
<1>10. IsFiniteSet(WordToks(ts)) /\ l + 1 \notin WordToks(ts)
  <2>1. WordToks(ts) \in SUBSET (1 .. l)
    BY <1>2 DEF WordToks
  <2>2. IsFiniteSet(1 .. l)
    BY <1>2, FS_Interval
  <2>3. l + 1 \notin 1 .. l
    BY <1>2
  <2>4. QED
    BY <2>1, <2>2, <2>3, FS_Subset
<1>11. Cardinality(WordToks(ts)) = Cardinality(WordStarts \cap (1 .. a))
  BY DEF Told
<1>12. CASE t.type = "word"
  <2>1. WordToks(u) = WordToks(ts) \cup {l + 1}
    <3>1. \A k \in 1 .. l : k \in 1 .. l + 1
      BY <1>2
    <3>2. l + 1 \in 1 .. l + 1
      BY <1>2
    <3>3. QED
      BY <1>2, <1>5, <1>12, <3>1, <3>2 DEF WordToks
  <2>2. Cardinality(WordToks(u)) = Cardinality(WordToks(ts)) + 1
    BY <1>10, <2>1, FS_AddElement
  <2>3. Cardinality(WordStarts \cap (1 .. b)) = Cardinality(WordStarts \cap (1 .. a)) + 1
    <3>1. PICK S, T : S = WordStarts \cap (1 .. a) /\ T = WordStarts \cap (1 .. b)
      OBVIOUS
    <3>2. PICK p : p \notin S /\ T = S \cup {p}
      BY <1>12, <3>1
    <3>3. Cardinality(T) = Cardinality(S) + 1
      BY <3>1, <3>2, FS_AddElement
    <3>4. QED
      BY <3>1, <3>3
  <2>4. QED
    BY <1>1, <1>9, <1>11, <2>2, <2>3 DEF Told
<1>13. CASE t.type # "word"
  <2>1. WordToks(u) = WordToks(ts)
    <3>1. \A k \in 1 .. l : k \in 1 .. l + 1
      BY <1>2
    <3>2. QED
      BY <1>2, <1>5, <1>13, <3>1 DEF WordToks
  <2>2. QED
    BY <1>1, <1>9, <1>11, <1>13, <2>1 DEF Told
<1>14. QED
  BY <1>12, <1>13

(* One whole token more. *)
LEMMA WholeMore ==
  ASSUME NEW ts, IsList(ts), Whole(ts), NEW t, Spelling(t) \in Texts,
         t.type = "word" => t.value.text \in Seq(STRING) /\ Closed(t.value.text)
  PROVE  Whole(Append(ts, t))
<1>1. PICK l, u : l = Len(ts) /\ u = Append(ts, t)
  OBVIOUS
<1>2. l \in Nat /\ Len(u) = l + 1 /\ (\A k \in 1 .. l : u[k] = ts[k]) /\ u[l + 1] = t
  BY <1>1, ListIs, AppendList
<1>3. ASSUME NEW k \in 1 .. l + 1
      PROVE  /\ Spelling(u[k]) \in Texts
             /\ u[k].type = "word" => u[k].value.text \in Seq(STRING) /\ Closed(u[k].value.text)
  <2>1. CASE k \in 1 .. l
    BY <1>1, <1>2, <2>1 DEF Whole
  <2>2. CASE k = l + 1
    BY <1>2, <2>2
  <2>3. QED
    BY <1>2, <2>1, <2>2
<1>4. QED
  BY <1>1, <1>2, <1>3 DEF Whole

(* What the lexer has made of the line up to its position. *)
Lexed ==
    /\ IsLine /\ Whole(toks)
    /\ phase = "lex" => Between(i) /\ Sourced(toks, i - 1) /\ (~ failed => Told(toks, i - 1))
    /\ phase # "lex" => Sourced(toks, Len(line))
    /\ phase = "parse" => OpenAt[Len(line) + 1] = NoQuote /\ (~ failed => Told(toks, Len(line)))
    /\ phase = "done" /\ mem["parse"] = "none" => OpenAt[Len(line) + 1] # NoQuote

(* The line itself stays as it is, and what is said of it. *)
LEMMA LineStays ==
  ASSUME UNCHANGED line
  PROVE  /\ IsLine' = IsLine /\ OpenAt' = OpenAt
         /\ \A p : Between(p)' = Between(p)
         /\ \A ts, b : Sourced(ts, b)' = Sourced(ts, b) /\ Told(ts, b)' = Told(ts, b)
<1>1. IsLine' = IsLine
  BY DEF IsLine
<1>2. OpenAt' = OpenAt
  BY DEF OpenAt
<1>3. \A p : Separator(p)' = Separator(p)
  BY <1>2 DEF Separator
<1>4. \A p : Between(p)' = Between(p)
  BY <1>2, <1>3 DEF Between
<1>5. WordStarts' = WordStarts /\ NotBlank' = NotBlank /\ Bars' = Bars
  BY <1>3 DEF WordStarts, NotBlank, Bars
<1>6. \A p : WordAt(p)' = WordAt(p)
  BY <1>3 DEF WordAt, WordEnd
<1>7. \A ts, src, b : FromLine(ts, src, b)' = FromLine(ts, src, b)
  BY <1>5, <1>6 DEF FromLine
<1>8. \A m : Picked(m)' = Picked(m)
  BY <1>5 DEF Picked
<1>9. QED
  BY <1>1, <1>2, <1>4, <1>5, <1>7, <1>8 DEF Sourced, Told

(* The text of NULL has no quotes. *)
LEMMA EmptyClosed == <<>> \in Seq(STRING) /\ Closed(<<>>)
<1>1. PICK z : z = <<>>
  OBVIOUS
<1>2. z \in Seq(STRING) /\ Len(z) = 0
  BY <1>1, EmptySeq
<1>3. 1 \in 1 .. Len(z) + 1 /\ Len(z) + 1 = 1
  BY <1>2
<1>4. QuoteFrom(z, 1)[1] = NoQuote
  BY <1>2, <1>3, QuoteIs
<1>5. Closed(z)
  BY <1>3, <1>4 DEF Closed
<1>6. QED
  BY <1>1, <1>2, <1>5

(* Before the first token. *)
LEMMA LexedInit == Init => Lexed
<1> SUFFICES ASSUME Init PROVE Lexed
  OBVIOUS
<1>1. IsLine /\ phase = "lex" /\ i = 1 /\ toks = <<>> /\ mem["parse"] = "none"
  BY LineAssumption DEF Init, IsLine, Arenas
<1>2. Len(line) \in Nat /\ OpenAt[1] = NoQuote /\ line \in Seq(STRING)
  BY <1>1, LineIs
<1>3. Between(1)
  <2>1. 1 \in 1 .. Len(line) + 1
    BY <1>2
  <2>2. QED
    BY <1>2, <2>1 DEF Between
<1>4. Len(toks) = 0 /\ DOMAIN toks = {}
  BY <1>1, EmptyIs
<1>5. Sourced(toks, 0)
  <2>1. PICK src : src = [k \in 1 .. 0 |-> 0]
    OBVIOUS
  <2>2. src \in [1 .. Len(toks) -> 1 .. 0]
    BY <1>4, <2>1
  <2>3. \A k \in 1 .. Len(toks) : FALSE
    BY <1>4
  <2>4. FromLine(toks, src, 0)
    BY <2>2, <2>3 DEF FromLine
  <2>5. QED
    BY <2>4 DEF Sourced
<1>6. Told(toks, 0)
  <2>1. Spelled(toks) = <<>>
    <3>1. PICK z : z = Spelled(toks)
      OBVIOUS
    <3>2. z \in [1 .. 0 -> Texts]
      BY <1>4, <3>1 DEF Spelled
    <3>3. z \in Seq(Texts)
      BY <3>2, SeqDef
    <3>4. Len(z) = 0
      BY <3>2, <3>3, LenProperties
    <3>5. QED
      BY <3>1, <3>3, <3>4, EmptySeq
  <2>2. Picked(0) = <<>>
    <3>1. 0 \in 0 .. Len(line)
      BY <1>2
    <3>2. QED
      BY <1>2, <3>1, PickedIs
  <2>3. WordToks(toks) = {} /\ WordStarts \cap (1 .. 0) = {}
    BY <1>4 DEF WordToks
  <2>4. QED
    BY <2>1, <2>2, <2>3, FlattenEmpty DEF Told
<1>7. Whole(toks)
  BY <1>4 DEF Whole
<1>8. QED
  BY <1>1, <1>3, <1>5, <1>6, <1>7 DEF Lexed

(* The tokens read so far and the blanks behind them. *)
LEMMA NextToken ==
  ASSUME Lexed, Tokens, phase = "lex", NEW p, p = NextChar
  PROVE  /\ IsLine /\ Len(line) \in Nat /\ i \in 1 .. Len(line) + 1 /\ IsList(toks)
         /\ p \in i .. Len(line) + 1 /\ p \in Int /\ Between(p) /\ OpenAt[p] = NoQuote
         /\ p <= Len(line) => line[p] \notin Spaces /\ At(p) = line[p] /\ line[p] # "" /\ p \in 1 .. Len(line)
         /\ p > Len(line) => At(p) = ""
         /\ Sourced(toks, p - 1) /\ (~ failed => Told(toks, p - 1))
         /\ IsFiniteSet(WordStarts \cap (1 .. p - 1))
<1>1. IsLine /\ Between(i) /\ Sourced(toks, i - 1) /\ (~ failed => Told(toks, i - 1))
  BY DEF Lexed
<1>2. Len(line) \in Nat /\ i \in 1 .. Len(line) + 1
  BY <1>1, LineIs DEF Between
<1>3. /\ p \in i .. Len(line) + 1 /\ Between(p) /\ (p <= Len(line) => line[p] \notin Spaces)
      /\ Picked(p - 1) = Picked(i - 1)
      /\ WordStarts \cap (1 .. p - 1) = WordStarts \cap (1 .. i - 1)
  BY <1>1, NextIs
<1>4. p \in Int /\ (p <= Len(line) => p \in 1 .. Len(line)) /\ p - 1 \in Int /\ i - 1 \in Int /\ i - 1 <= p - 1
  BY <1>2, <1>3
<1>5. /\ p <= Len(line) => At(p) = line[p] /\ line[p] # ""
      /\ p > Len(line) => At(p) = ""
  BY <1>1, <1>4, LineIs
<1>6. Sourced(toks, p - 1)
  BY <1>1, <1>4, SourcedWider
<1>7. ~ failed => Told(toks, p - 1)
  BY <1>1, <1>3 DEF Told
<1>8. IsFiniteSet(WordStarts \cap (1 .. p - 1))
  <2>1. IsFiniteSet(1 .. p - 1)
    BY <1>4, FS_Interval
  <2>2. WordStarts \cap (1 .. p - 1) \in SUBSET (1 .. p - 1)
    OBVIOUS
  <2>3. QED
    BY <2>1, <2>2, FS_Subset
<1>9. IsList(toks) /\ OpenAt[p] = NoQuote
  BY <1>3 DEF Tokens, Between
<1>10. QED
  BY <1>1, <1>2, <1>3, <1>4, <1>5, <1>6, <1>7, <1>8, <1>9

(* An operator is read. *)
LEMMA LexedOp == ASSUME Control, Tokens, Lexed, lex_op PROVE Lexed'
<1>1. phase = "lex" /\ phase' = "lex" /\ UNCHANGED line /\ At(NextChar) \in Ops
  BY DEF lex_op
<1>2. PICK p : p = NextChar
  OBVIOUS
<1>3. /\ IsLine /\ Len(line) \in Nat /\ i \in 1 .. Len(line) + 1 /\ IsList(toks)
      /\ p \in i .. Len(line) + 1 /\ p \in Int /\ Between(p) /\ OpenAt[p] = NoQuote
      /\ p <= Len(line) => line[p] \notin Spaces /\ At(p) = line[p] /\ line[p] # "" /\ p \in 1 .. Len(line)
      /\ p > Len(line) => At(p) = ""
      /\ Sourced(toks, p - 1) /\ (~ failed => Told(toks, p - 1))
      /\ IsFiniteSet(WordStarts \cap (1 .. p - 1))
  BY <1>1, <1>2, NextToken
<1>4. p \in 1 .. Len(line) /\ line[p] \in Ops
  <2>1. "" \notin Ops
    BY DEF Ops
  <2>2. At(p) # "" /\ At(p) \in Ops
    BY <1>1, <1>2, <2>1
  <2>3. p > Len(line) => At(p) = ""
    BY <1>3
  <2>4. ~ (p > Len(line))
    BY <2>2, <2>3
  <2>5. p <= Len(line)
    <3>1. PICK l : l = Len(line)
      OBVIOUS
    <3>2. l \in Nat
      BY <1>3, <3>1
    <3>3. p \in Int
      BY <1>3
    <3>4. ~ (p > l) => p <= l
      BY <3>2, <3>3
    <3>5. QED
      BY <2>4, <3>1, <3>4
  <2>6. QED
    BY <1>3, <2>2, <2>5
<1>5. PICK t : t = [type |-> OpType(p), value |-> NULL]
  OBVIOUS
<1>6. PICK z : z = p + OpLen(p)
  OBVIOUS
<1>7. /\ z \in p + 1 .. Len(line) + 1 /\ OpenAt[z] = NoQuote /\ Separator(z - 1)
      /\ t.type \in Types \ {"word"} /\ t.value = NULL
      /\ Picked(z - 1) = Picked(p - 1) \o Spelling(t) /\ Spelling(t) \in Texts
      /\ WordStarts \cap (1 .. z - 1) = WordStarts \cap (1 .. p - 1)
      /\ t.type = "pipe" => line[p] = "|"
  BY <1>3, <1>4, <1>5, <1>6, OpIs
<1>8. i' = z /\ (toks' = Append(toks, t) \/ (toks' = toks /\ failed'))
  BY <1>2, <1>5, <1>6 DEF lex_op, push_tok, NoMemory
<1>9. Between(z) /\ z \in Int /\ p - 1 \in Int /\ z - 1 \in Int /\ p - 1 <= z - 1 /\ p - 1 >= 0 /\ p \in (p - 1) + 1 .. z - 1
  <2>1. PICK l \in Nat : l = Len(line)
    BY <1>3
  <2>2. p \in 1 .. l /\ z \in p + 1 .. l + 1
    BY <1>4, <1>7, <2>1
  <2>3. /\ z \in 1 .. l + 1 /\ z \in Int /\ p - 1 \in Int /\ z - 1 \in Int /\ p - 1 <= z - 1 /\ p - 1 >= 0
        /\ p \in (p - 1) + 1 .. z - 1
    BY <2>2
  <2>4. Between(z)
    BY <1>7, <2>1, <2>3 DEF Between
  <2>5. QED
    BY <2>3, <2>4
<1>10. failed => failed'
  BY DEF Control, lex_op, push_tok, NoMemory
<1>11. Whole(toks)
  BY DEF Lexed
<1>12. CASE toks' = Append(toks, t)
  <2>1. Sourced(Append(toks, t), z - 1)
    <3>1. t.type = "pipe" => p \in Bars
      <4>1. p \in DOMAIN line
        BY <1>3, <1>4, LineIs
      <4>2. QED
        BY <1>3, <1>4, <1>7, <4>1 DEF Bars, Separator
    <3>2. t.type # "word"
      BY <1>7
    <3>3. IsList(toks) /\ Sourced(toks, p - 1)
      BY <1>3
    <3>4. p \in (p - 1) + 1 .. z - 1 /\ p - 1 \in Int /\ z - 1 \in Int /\ p - 1 >= 0
      BY <1>9
    <3>5. QED
      BY <3>1, <3>2, <3>3, <3>4, SourcedMore
  <2>2. ~ failed' => Told(Append(toks, t), z - 1)
    BY <1>3, <1>7, <1>10, <1>11, ToldMore
  <2>3. Whole(Append(toks, t))
    BY <1>3, <1>7, <1>11, WholeMore
  <2>4. QED
    BY <1>1, <1>3, <1>8, <1>9, <1>12, <2>1, <2>2, <2>3, LineStays DEF Lexed, Whole
<1>13. CASE toks' = toks /\ failed'
  <2>1. Sourced(toks, z - 1)
    BY <1>3, <1>9, SourcedWider
  <2>2. QED
    BY <1>1, <1>3, <1>8, <1>9, <1>11, <1>13, <2>1, LineStays DEF Lexed, Whole
<1>14. QED
  BY <1>8, <1>12, <1>13

(* A word is read, or a quote found that is not closed. *)
LEMMA LexedWord == ASSUME Control, Tokens, Lexed, lex_word PROVE Lexed'
<1>1. phase = "lex" /\ UNCHANGED line /\ At(NextChar) \notin Ops \cup {""}
  BY DEF lex_word
<1>2. PICK p : p = NextChar
  OBVIOUS
<1>3. /\ IsLine /\ Len(line) \in Nat /\ i \in 1 .. Len(line) + 1 /\ IsList(toks)
      /\ p \in i .. Len(line) + 1 /\ p \in Int /\ Between(p) /\ OpenAt[p] = NoQuote
      /\ p <= Len(line) => line[p] \notin Spaces /\ At(p) = line[p] /\ line[p] # "" /\ p \in 1 .. Len(line)
      /\ p > Len(line) => At(p) = ""
      /\ Sourced(toks, p - 1) /\ (~ failed => Told(toks, p - 1))
      /\ IsFiniteSet(WordStarts \cap (1 .. p - 1))
  BY <1>1, <1>2, NextToken
<1>4. p \in 1 .. Len(line) /\ line[p] \notin Spaces \cup Ops
  <2>1. At(p) # "" /\ At(p) \notin Ops
    BY <1>1, <1>2
  <2>2. p > Len(line) => At(p) = ""
    BY <1>3
  <2>3. ~ (p > Len(line))
    BY <2>1, <2>2
  <2>4. p <= Len(line)
    <3>1. PICK l : l = Len(line)
      OBVIOUS
    <3>2. l \in Nat
      BY <1>3, <3>1
    <3>3. p \in Int
      BY <1>3
    <3>4. ~ (p > l) => p <= l
      BY <3>2, <3>3
    <3>5. QED
      BY <2>3, <3>1, <3>4
  <2>5. QED
    BY <1>3, <2>1, <2>4
<1>5. PICK end : end = lex_word_end(line, p)
  OBVIOUS
<1>6. PICK w : w = SubSeq(line, p, end - 1)
  OBVIOUS
<1>7. /\ end \in p + 1 .. Len(line) + 1 /\ QuoteFrom(line, p)[end] = OpenAt[end]
      /\ \A q \in p .. end - 1 : ~ Separator(q)
      /\ end = WordEnd(p) /\ (end <= Len(line) => Separator(end))
      /\ Picked(end - 1) = Picked(p - 1) \o w
      /\ WordStarts \cap (1 .. end - 1) = (WordStarts \cap (1 .. p - 1)) \cup {p}
      /\ w \in Seq(STRING)
      /\ OpenAt[end] = NoQuote => Closed(w)
  BY <1>3, <1>4, <1>5, <1>6, WordIs
<1>8. /\ end \in Int /\ p - 1 \in Int /\ end - 1 \in Int /\ p - 1 <= end - 1 /\ p - 1 >= 0 /\ p \in (p - 1) + 1 .. end - 1
      /\ end \in 1 .. Len(line) + 1 /\ end - 1 <= Len(line) /\ Len(line) \in Int /\ p - 1 <= Len(line)
  <2>1. PICK l \in Nat : l = Len(line)
    BY <1>3
  <2>2. p \in 1 .. l /\ end \in p + 1 .. l + 1
    BY <1>4, <1>7, <2>1
  <2>3. /\ end \in Int /\ p - 1 \in Int /\ end - 1 \in Int /\ p - 1 <= end - 1 /\ p - 1 >= 0 /\ p \in (p - 1) + 1 .. end - 1
        /\ end \in 1 .. l + 1 /\ end - 1 <= l /\ l \in Int /\ p - 1 <= l
    BY <2>2
  <2>4. QED
    BY <2>1, <2>3
<1>9. Whole(toks)
  BY DEF Lexed
<1>10. i' = end
  BY <1>2, <1>5 DEF lex_word
<1>11. CASE QuoteFrom(line, p)[end] # NoQuote /\ LexError /\ UNCHANGED toks
  <2>1. end = Len(line) + 1
    <3>1. end <= Len(line) => OpenAt[end] = NoQuote
      BY <1>7 DEF Separator
    <3>2. ~ (end <= Len(line))
      BY <1>7, <1>11, <3>1
    <3>3. QED
      BY <1>8, <3>2
  <2>2. OpenAt[Len(line) + 1] # NoQuote /\ phase' = "done"
    BY <1>7, <1>11, <2>1 DEF LexError, Stop
  <2>3. Sourced(toks, Len(line))
    BY <1>3, <1>8, SourcedWider
  <2>4. QED
    BY <1>1, <1>3, <1>9, <1>11, <2>2, <2>3, LineStays DEF Lexed, Whole
<1>12. ASSUME QuoteFrom(line, p)[end] = NoQuote, phase' = "lex" PROVE Between(end) /\ OpenAt[end] = NoQuote /\ Closed(w)
  <2>1. OpenAt[end] = NoQuote
    BY <1>7, <1>12
  <2>2. QED
    BY <1>7, <1>8, <2>1 DEF Between
<1>13. ASSUME NEW t, toks' = Append(toks, t), t.type = "word", phase' = "lex", QuoteFrom(line, p)[end] = NoQuote,
              failed => failed',
              t.value.text = w \/ (t.value = NULL /\ failed')
       PROVE  Lexed'
  <2>1. Sourced(Append(toks, t), end - 1)
    <3>1. p \in WordStarts
      BY <1>7
    <3>2. t.value = NULL \/ t.value.text = WordAt(p)
      BY <1>6, <1>7, <1>13 DEF WordAt
    <3>3. t.type # "pipe"
      BY <1>13
    <3>4. QED
      BY <1>3, <1>8, <3>1, <3>2, <3>3, SourcedMore
  <2>2. Spelling(t) = t.value.text /\ t.value.text \in Seq(STRING) /\ Closed(t.value.text) /\ Spelling(t) \in Texts
    <3>1. Spelling(t) = t.value.text
      BY <1>13 DEF Spelling
    <3>2. t.value.text = w \/ t.value.text = <<>>
      BY <1>13 DEF NULL
    <3>3. <<>> \in Seq(STRING) /\ Closed(<<>>)
      BY EmptyClosed
    <3>4. t.value.text \in Seq(STRING) /\ Closed(t.value.text)
      BY <1>7, <1>12, <1>13, <3>2, <3>3
    <3>5. QED
      BY <3>1, <3>4, TextsAre
  <2>3. Whole(Append(toks, t))
    BY <1>3, <1>9, <1>13, <2>2, WholeMore
  <2>4. ASSUME ~ failed' PROVE Told(Append(toks, t), end - 1)
    <3>1. t.value.text = w /\ Told(toks, p - 1)
      BY <1>3, <1>13, <2>4
    <3>2. Picked(end - 1) = Picked(p - 1) \o Spelling(t)
      BY <1>7, <2>2, <3>1
    <3>3. p \notin WordStarts \cap (1 .. p - 1)
      BY <1>8
    <3>4. QED
      BY <1>3, <1>7, <1>9, <1>13, <2>2, <3>1, <3>2, <3>3, ToldMore
  <2>5. QED
    BY <1>1, <1>3, <1>10, <1>12, <1>13, <2>1, <2>3, <2>4, LineStays DEF Lexed, Whole
<1>14. CASE QuoteFrom(line, p)[end] = NoQuote /\ UNCHANGED phase /\ push_tok([type |-> "word", value |-> Text(w, "lex")])
  <2>1. PICK t : t = [type |-> "word", value |-> Text(w, "lex")]
    OBVIOUS
  <2>2. t.type = "word" /\ t.value.text = w
    BY <2>1 DEF Text
  <2>3. CASE toks' = Append(toks, t) /\ UNCHANGED failed
    BY <1>1, <1>13, <1>14, <2>2, <2>3
  <2>4. CASE NoMemory /\ UNCHANGED toks
    <3>1. Sourced(toks, end - 1)
      BY <1>3, <1>8, SourcedWider
    <3>2. QED
      BY <1>1, <1>3, <1>9, <1>10, <1>12, <1>14, <2>4, <3>1, LineStays DEF Lexed, Whole, NoMemory
  <2>5. QED
    BY <1>14, <2>1, <2>3, <2>4 DEF push_tok
<1>15. CASE QuoteFrom(line, p)[end] = NoQuote /\ UNCHANGED phase /\ NoMemory /\ toks' = Append(toks, [type |-> "word", value |-> NULL])
  <2>1. PICK t : t = [type |-> "word", value |-> NULL]
    OBVIOUS
  <2>2. t.type = "word" /\ t.value = NULL /\ failed'
    BY <1>15, <2>1 DEF NoMemory
  <2>3. QED
    BY <1>1, <1>13, <1>15, <2>1, <2>2
<1>16. QED
  BY <1>2, <1>5, <1>6, <1>11, <1>14, <1>15 DEF lex_word

(* The line is read to its end. *)
LEMMA LexedEnd == ASSUME Control, Tokens, Lexed, lex_line_end PROVE Lexed'
<1>1. phase = "lex" /\ phase' = "parse" /\ UNCHANGED <<line, toks, failed>> /\ At(NextChar) = ""
  BY DEF lex_line_end
<1>2. PICK p : p = NextChar
  OBVIOUS
<1>3. /\ IsLine /\ Len(line) \in Nat /\ i \in 1 .. Len(line) + 1 /\ IsList(toks)
      /\ p \in i .. Len(line) + 1 /\ p \in Int /\ Between(p) /\ OpenAt[p] = NoQuote
      /\ p <= Len(line) => line[p] \notin Spaces /\ At(p) = line[p] /\ line[p] # "" /\ p \in 1 .. Len(line)
      /\ p > Len(line) => At(p) = ""
      /\ Sourced(toks, p - 1) /\ (~ failed => Told(toks, p - 1))
      /\ IsFiniteSet(WordStarts \cap (1 .. p - 1))
  BY <1>1, <1>2, NextToken
<1>4. PICK l : l = Len(line)
  OBVIOUS
<1>5. l \in Nat /\ i \in 1 .. l + 1 /\ p \in i .. l + 1 /\ p \in Int
  BY <1>3, <1>4
<1>6. ~ (p <= l)
  BY <1>1, <1>2, <1>3, <1>4
<1>7. p = l + 1 /\ p - 1 = l
  BY <1>5, <1>6
<1>8. Sourced(toks, l) /\ (~ failed => Told(toks, l)) /\ OpenAt[l + 1] = NoQuote
  BY <1>3, <1>7
<1>9. QED
  BY <1>1, <1>3, <1>4, <1>8, LineStays DEF Lexed, Whole

(* Once the line is read, the tokens are as they are, and the parser has had
   an arena. *)
LEMMA LexedAfter ==
  ASSUME Control, Lexed, UNCHANGED <<line, toks>>, phase # "lex", phase' \notin {"lex", "parse"},
         phase' = "done" => mem'["parse"] # "none"
  PROVE  Lexed'
<1>1. Sourced(toks, Len(line))' = Sourced(toks, Len(line))
  BY LineStays
<1>2. QED
  BY <1>1, LineStays DEF Lexed, Whole

(* No step loses or invents a token. *)
LEMMA LexedNext ==
  ASSUME Control, Tokens, Lexed, [Next]_vars
  PROVE  Lexed'
<1>1. ASSUME phase \notin {"lex", "done", "crashed"} PROVE mem["parse"] # "none" /\ \A as : Free(as)["parse"] # "none"
  <2>1. "parse" \in Arenas /\ phase \in {"parse", "cmd", "fill", "expand", "exec"}
    BY <1>1 DEF Arenas, Control
  <2>2. mem = ArenaOf(phase)
    BY <1>1 DEF Control
  <2>3. mem["parse"] # "none"
    BY <2>1, <2>2 DEF ArenaOf
  <2>4. QED
    BY <2>1, <2>3 DEF Free
<1>2. CASE lex_op
  BY <1>2, LexedOp
<1>3. CASE lex_word
  BY <1>3, LexedWord
<1>4. CASE lex_line_end
  BY <1>4, LexedEnd
<1>5. CASE parse_pipeline
  <2>1. phase = "parse" /\ UNCHANGED <<line, toks>> /\ phase' \in {"cmd", "done"}
    BY <1>5 DEF parse_pipeline, ParseError, Stop
  <2>2. phase' = "done" => mem'["parse"] # "none"
    BY <1>1, <1>5, <2>1 DEF parse_pipeline, ParseError, Stop
  <2>3. QED
    BY <2>1, <2>2, LexedAfter
<1>6. CASE parse_one
  <2>1. phase = "cmd" /\ UNCHANGED <<line, toks>> /\ phase' \in {"fill", "done"}
    BY <1>6 DEF parse_one, ParseError, Stop
  <2>2. phase' = "done" => mem'["parse"] # "none"
    BY <1>1, <1>6, <2>1 DEF parse_one, ParseError, Stop
  <2>3. QED
    BY <2>1, <2>2, LexedAfter
<1>7. CASE fill_word
  <2>1. phase = "fill" /\ UNCHANGED <<line, toks, phase>>
    BY <1>7 DEF fill_word
  <2>2. QED
    BY <2>1, LexedAfter
<1>8. CASE fill_redirect
  <2>1. phase = "fill" /\ UNCHANGED <<line, toks>> /\ phase' \in {"fill", "done", "crashed"}
    BY <1>8 DEF fill_redirect, ParseError, Stop, Crash
  <2>2. phase' = "done" => mem'["parse"] # "none"
    BY <1>1, <1>8, <2>1 DEF fill_redirect, ParseError, Stop, Crash
  <2>3. QED
    BY <2>1, <2>2, LexedAfter
<1>9. CASE parse_cmds
  <2>1. phase = "fill" /\ UNCHANGED <<line, toks>> /\ phase' \in {"cmd", "expand", "done"}
    BY <1>9 DEF parse_cmds, ParseError, Stop
  <2>2. phase' = "done" => mem'["parse"] # "none"
    BY <1>1, <1>9, <2>1 DEF parse_cmds, ParseError, Stop
  <2>3. QED
    BY <2>1, <2>2, LexedAfter
<1>10. CASE expand_cmd
  <2>1. phase = "expand" /\ UNCHANGED <<line, toks>> /\ phase' \in {"expand", "done", "crashed"}
    BY <1>10 DEF expand_cmd, ExpandError, Stop, Crash
  <2>2. phase' = "done" => mem'["parse"] # "none"
    BY <1>1, <1>10, <2>1 DEF expand_cmd, ExpandError, Stop, Crash
  <2>3. QED
    BY <2>1, <2>2, LexedAfter
<1>11. CASE expand_pipeline_end
  <2>1. phase = "expand" /\ UNCHANGED <<line, toks>> /\ phase' = "exec"
    BY <1>11 DEF expand_pipeline_end
  <2>2. QED
    BY <2>1, LexedAfter
<1>12. CASE exec_pipeline
  <2>1. phase = "exec" /\ UNCHANGED <<line, toks>> /\ phase' = "done" /\ mem' = Free({"exp"})
    BY <1>12 DEF exec_pipeline
  <2>2. mem'["parse"] # "none"
    BY <1>1, <2>1
  <2>3. QED
    BY <2>1, <2>2, LexedAfter
<1>13. CASE UNCHANGED vars
  BY <1>13, LineStays DEF vars, Lexed, Whole
<1>14. QED
  BY <1>2, <1>3, <1>4, <1>5, <1>6, <1>7, <1>8, <1>9, <1>10, <1>11, <1>12, <1>13 DEF Next, Over

(* Lexed holds in every state. *)
LEMMA LexedInductive == Spec => []Lexed
<1>1. Owned /\ Lexed /\ [Next]_vars => Lexed'
  BY LexedNext DEF Owned
<1>2. QED
  BY <1>1, LexedInit, OwnedInductive, PTL DEF Spec

(* What was picked of a whole line is what NotBlank picks of it. *)
LEMMA PickedWhole ==
  ASSUME IsLine
  PROVE  /\ Picked(Len(line)) = [n \in 1 .. Cardinality(NotBlank) |-> line[InOrder(NotBlank, line)[n]]]
         /\ WordStarts \cap (1 .. Len(line)) = WordStarts
<1>1. Len(line) \in Nat /\ DOMAIN line = 1 .. Len(line) /\ IsList(line)
  BY LineIs DEF IsList
<1>2. InOrder(NotBlank, line) = Chosen(NotBlank, Len(line))
  BY <1>1, InOrderIs
<1>3. NotBlank \cap (1 .. Len(line)) = NotBlank
  BY <1>1 DEF NotBlank
<1>4. Len(Chosen(NotBlank, Len(line))) = Cardinality(NotBlank)
  BY <1>1, <1>3, ChosenAre
<1>5. WordStarts \cap (1 .. Len(line)) = WordStarts
  BY <1>1 DEF WordStarts
<1>6. QED
  BY <1>2, <1>4, <1>5 DEF Picked

(* The tokens are the line, for every line: nothing but blanks between words is
   dropped, nothing doubled, no word cut in its quotes, and exactly the lines
   whose quotes are open are refused (lexer.c:35-103, lexer_word.c:15-33). *)
THEOREM LexesTheLine == Spec => []LexFaithful
<1>1. Owned /\ Lexed => LexFaithful
  <2> SUFFICES ASSUME Owned, Lexed PROVE LexFaithful
    OBVIOUS
  <2>1. ASSUME phase = "parse", ~ failed
        PROVE  /\ OpenAt[Len(line) + 1] = NoQuote
               /\ FlattenSeq([k \in DOMAIN toks |-> Spelling(toks[k])])
                    = [n \in 1 .. Cardinality(NotBlank) |-> line[InOrder(NotBlank, line)[n]]]
               /\ Cardinality({k \in DOMAIN toks : toks[k].type = "word"}) = Cardinality(WordStarts)
    <3>1. OpenAt[Len(line) + 1] = NoQuote /\ Told(toks, Len(line)) /\ IsLine
      BY <2>1 DEF Lexed
    <3>2. QED
      BY <3>1, PickedWhole DEF Told, Spelled, WordToks
  <2>2. phase = "done" /\ mem["parse"] = "none" => OpenAt[Len(line) + 1] # NoQuote
    BY DEF Lexed
  <2>3. QED
    BY <2>1, <2>2 DEF LexFaithful
<1>2. QED
  BY <1>1, OwnedInductive, LexedInductive, PTL

-----------------------------------------------------------------------------
(* What a command is of what was typed. *)
ArgSet(n)   == {k \in Of(n) \ Behind : toks[k].type = "word"}
RedirSet(n) == {k \in Of(n) : toks[k].type \in RedirTypes}

(* The text of w is s, or nothing where memory ran out, which f tells. *)
IsCopy(w, s, f) == w.text \in {<<>>, s} /\ (~ f => w.text = s)

CopiedArgs(v, a, f) ==
    Len(v) = Len(a) /\ \A k \in 1 .. Len(a) : IsCopy(v[k], Typed(a[k]), f) /\ (~ f => v[k] # NULL)

SameRedir(x, r)   == x.type = toks[r].type /\ x.quoted = has_quote(Typed(r + 1))
CopiedRedirs(v, a, f) ==
    Len(v) = Len(a) /\ \A k \in 1 .. Len(a) : SameRedir(v[k], a[k]) /\ IsCopy(v[k].target, Typed(a[k] + 1), f)

(* c is the n-th command as it was typed, up to token j. *)
IsTyped(c, n, j, f) ==
    CopiedArgs(c.argv, Chosen(ArgSet(n), j), f) /\ CopiedRedirs(c.redirects, Chosen(RedirSet(n), j), f)

(* The pipes before a token are among those before a later one. *)
LEMMA PipesUp == ASSUME NEW j \in Nat, NEW k \in Nat, j <= k PROVE Pipes(j) <= Pipes(k)
<1>1. PICK S, T : S = PipeSet(j) /\ T = PipeSet(k)
  OBVIOUS
<1>2. S \in SUBSET T /\ IsFiniteSet(T)
  BY <1>1, PipesAre DEF PipeSet
<1>3. Cardinality(S) <= Cardinality(T)
  BY <1>2, FS_Subset
<1>4. QED
  BY <1>1, <1>3 DEF Pipes

(* Which command a token is of. *)
LEMMA OfIs ==
  ASSUME Tokens, NEW n \in Nat, NEW k
  PROVE  /\ k \in Of(n) <=> k \in 1 .. Len(toks) /\ toks[k].type # "pipe" /\ Pipes(k) = n - 1
         /\ k \in Behind <=> k \in 2 .. Len(toks) /\ toks[k - 1].type \in RedirTypes
  BY TypeAtIs DEF Of, Behind, Pipes, PipeSet

(* Each token, as the parser goes over it. *)
LEMMA TokenIs ==
  ASSUME Tokens, NEW k \in 1 .. Len(toks), NEW n \in Nat
  PROVE  /\ k \in ArgSet(n) <=> toks[k].type = "word" /\ Pipes(k) = n - 1 /\ ~ (k > 1 /\ TypeAt(k - 1) \in RedirTypes)
         /\ k \in RedirSet(n) <=> toks[k].type \in RedirTypes /\ Pipes(k) = n - 1
         /\ toks[k].type = "pipe" => Pipes(k) = Pipes(k - 1) + 1
         /\ toks[k].type # "pipe" => Pipes(k) = Pipes(k - 1)
<1>1. Len(toks) \in Nat /\ k - 1 \in Nat /\ (k - 1) + 1 = k /\ (k > 1 => k - 1 \in 1 .. Len(toks)) /\ (k \in 2 .. Len(toks) <=> k > 1)
  BY TypeAtIs
<1>2. k > 1 => TypeAt(k - 1) = toks[k - 1].type
  BY <1>1, TypeAtIs
<1>3. /\ toks[k].type = "pipe" => Pipes(k) = Pipes(k - 1) + 1
      /\ toks[k].type # "pipe" => Pipes(k) = Pipes(k - 1)
  BY <1>1, PipesAre
<1>4. k \in Behind <=> k > 1 /\ TypeAt(k - 1) \in RedirTypes
  BY <1>1, <1>2, OfIs
<1>5. k \in Of(n) <=> toks[k].type # "pipe" /\ Pipes(k) = n - 1
  BY OfIs
<1>6. k \in ArgSet(n) <=> toks[k].type = "word" /\ Pipes(k) = n - 1 /\ ~ (k > 1 /\ TypeAt(k - 1) \in RedirTypes)
  BY <1>4, <1>5 DEF ArgSet
<1>7. k \in RedirSet(n) <=> toks[k].type \in RedirTypes /\ Pipes(k) = n - 1
  BY <1>5 DEF RedirSet, RedirTypes
<1>8. QED
  BY <1>3, <1>6, <1>7

(* A list, one position after the other, again. *)
LEMMA ChosenNext ==
  ASSUME Tokens, NEW k \in 1 .. Len(toks), NEW S
  PROVE  /\ k \in S => Chosen(S, k) = Append(Chosen(S, k - 1), k)
         /\ k \notin S => Chosen(S, k) = Chosen(S, k - 1)
         /\ Chosen(S, k - 1) \in Seq(Int) /\ IsList(Chosen(S, k - 1))
<1>1. k - 1 \in Nat /\ (k - 1) + 1 = k
  BY TypeAtIs
<1>2. /\ (k - 1) + 1 \in S => Chosen(S, (k - 1) + 1) = Append(Chosen(S, k - 1), (k - 1) + 1)
      /\ (k - 1) + 1 \notin S => Chosen(S, (k - 1) + 1) = Chosen(S, k - 1)
      /\ Chosen(S, k - 1) \in Seq(Int)
  BY <1>1, ChosenIs
<1>3. QED
  BY <1>1, <1>2 DEF IsList

(* One more argument. *)
LEMMA ArgsGrow ==
  ASSUME NEW f, NEW v, IsList(v), NEW a, IsList(a), CopiedArgs(v, a, f), NEW w, NEW k, IsCopy(w, Typed(k), f), ~ f => w # NULL
  PROVE  CopiedArgs(Append(v, w), Append(a, k), f)
<1>1. PICK x, b, l : x = Append(v, w) /\ b = Append(a, k) /\ l = Len(a)
  OBVIOUS
<1>2. /\ l \in Nat /\ Len(v) = l /\ Len(x) = l + 1 /\ Len(b) = l + 1
      /\ (\A m \in 1 .. l : x[m] = v[m]) /\ x[l + 1] = w
      /\ (\A m \in 1 .. l : b[m] = a[m]) /\ b[l + 1] = k
  BY <1>1, ListIs, AppendList DEF CopiedArgs
<1>3. ASSUME NEW m \in 1 .. l + 1 PROVE IsCopy(x[m], Typed(b[m]), f) /\ (~ f => x[m] # NULL)
  <2>1. CASE m \in 1 .. l
    <3>1. IsCopy(v[m], Typed(a[m]), f) /\ (~ f => v[m] # NULL)
      BY <1>1, <2>1 DEF CopiedArgs
    <3>2. QED
      BY <1>2, <2>1, <3>1
  <2>2. CASE m = l + 1
    BY <1>2, <2>2
  <2>3. QED
    BY <1>2, <2>1, <2>2
<1>4. QED
  BY <1>1, <1>2, <1>3 DEF CopiedArgs

(* One more redirection. *)
LEMMA RedirsGrow ==
  ASSUME NEW f, NEW v, IsList(v), NEW a, IsList(a), CopiedRedirs(v, a, f), NEW y, NEW k, SameRedir(y, k), IsCopy(y.target, Typed(k + 1), f)
  PROVE  CopiedRedirs(Append(v, y), Append(a, k), f)
<1>1. PICK x, b, l : x = Append(v, y) /\ b = Append(a, k) /\ l = Len(a)
  OBVIOUS
<1>2. /\ l \in Nat /\ Len(v) = l /\ Len(x) = l + 1 /\ Len(b) = l + 1
      /\ (\A m \in 1 .. l : x[m] = v[m]) /\ x[l + 1] = y
      /\ (\A m \in 1 .. l : b[m] = a[m]) /\ b[l + 1] = k
  BY <1>1, ListIs, AppendList DEF CopiedRedirs
<1>3. ASSUME NEW m \in 1 .. l + 1 PROVE SameRedir(x[m], b[m]) /\ IsCopy(x[m].target, Typed(b[m] + 1), f)
  <2>1. CASE m \in 1 .. l
    <3>1. SameRedir(v[m], a[m]) /\ IsCopy(v[m].target, Typed(a[m] + 1), f)
      BY <1>1, <2>1 DEF CopiedRedirs
    <3>2. QED
      BY <1>2, <2>1, <3>1
  <2>2. CASE m = l + 1
    BY <1>2, <2>2
  <2>3. QED
    BY <1>2, <2>1, <2>2
<1>4. QED
  BY <1>1, <1>2, <1>3 DEF CopiedRedirs

(* A command begins with nothing of what was typed, its tokens being behind the
   last pipe. *)
LEMMA BegunTyped ==
  ASSUME Tokens, NEW j \in 1 .. Len(toks) + 1, j > 1 => TypeAt(j - 1) = "pipe", NEW f, NEW c, c.argv = <<>>, c.redirects = <<>>
  PROVE  IsTyped(c, Pipes(j - 1) + 1, j - 1, f)
<1>1. PICK n : n = Pipes(j - 1) + 1
  OBVIOUS
<1>2. Len(toks) \in Nat /\ j \in Nat /\ j - 1 \in Nat /\ n \in Nat /\ n - 1 = Pipes(j - 1) /\ Pipes(j - 1) \in Nat
  <2>1. Len(toks) \in Nat /\ j \in Nat /\ j - 1 \in Nat
    BY TypeAtIs
  <2>2. Pipes(j - 1) \in Nat
    BY <2>1, PipesAre
  <2>3. QED
    BY <1>1, <2>1, <2>2
<1>3. ASSUME NEW k \in 1 .. j - 1 PROVE k \notin Of(n)
  <2>1. j > 1 /\ TypeAt(j - 1) = "pipe" /\ j - 1 \in 1 .. Len(toks) /\ k \in 1 .. Len(toks)
    BY <1>2
  <2>2. toks[j - 1].type = "pipe"
    BY <2>1, TypeAtIs
  <2>3. CASE k = j - 1
    BY <1>2, <2>2, <2>3, OfIs
  <2>4. CASE k # j - 1
    <3>1. k <= (j - 1) - 1 /\ k \in Nat /\ (j - 1) - 1 \in Nat
      BY <1>2, <2>1, <2>4
    <3>2. Pipes(k) <= Pipes((j - 1) - 1) /\ Pipes(k) \in Nat /\ Pipes((j - 1) - 1) \in Nat
      BY <3>1, PipesUp, PipesAre
    <3>3. Pipes(j - 1) = Pipes((j - 1) - 1) + 1
      BY <2>1, <2>2, <1>2, TokenIs
    <3>4. Pipes(k) # n - 1
      BY <1>2, <3>2, <3>3
    <3>5. QED
      BY <1>2, <3>4, OfIs
  <2>5. QED
    BY <2>3, <2>4
<1>4. Chosen(ArgSet(n), j - 1) = <<>>
  <2>1. \A k \in 1 .. j - 1 : k \notin ArgSet(n)
    BY <1>3 DEF ArgSet
  <2>2. QED
    BY <1>2, <2>1, ChosenAre
<1>5. Chosen(RedirSet(n), j - 1) = <<>>
  <2>1. \A k \in 1 .. j - 1 : k \notin RedirSet(n)
    BY <1>3 DEF RedirSet
  <2>2. QED
    BY <1>2, <2>1, ChosenAre
<1>6. PICK z : z = <<>>
  OBVIOUS
<1>7. Len(z) = 0 /\ \A k \in 1 .. Len(z) : FALSE
  BY <1>6, EmptyIs
<1>8. CopiedArgs(z, z, f) /\ CopiedRedirs(z, z, f)
  BY <1>7 DEF CopiedArgs, CopiedRedirs
<1>9. QED
  BY <1>1, <1>4, <1>5, <1>6, <1>8 DEF IsTyped

-----------------------------------------------------------------------------
(* What the target of redirection r comes to. *)
Worded(r) == IF toks[r].type = "heredoc" THEN Literal(Typed(r + 1)) ELSE Meaning(Typed(r + 1))

MeantArgs(v, a, f) ==
    /\ Len(v) <= Len(a) /\ (~ f => Len(v) = Len(a))
    /\ \A k \in 1 .. Len(v) : IsCopy(v[k], Meaning(Typed(a[k])), f)
MeantRedirs(v, a, f) ==
    Len(v) = Len(a) /\ \A k \in 1 .. Len(a) : SameRedir(v[k], a[k]) /\ IsCopy(v[k].target, Worded(a[k]), f)

(* c is the n-th command with the meaning of what was typed. *)
IsMeant(c, n, f) ==
    /\ MeantArgs(c.argv, Chosen(ArgSet(n), Len(toks)), f)
    /\ MeantRedirs(c.redirects, Chosen(RedirSet(n), Len(toks)), f)

(* Without a NULL all the words are expanded. *)
LEMMA UptoAll ==
  ASSUME NEW argv, IsList(argv), \A k \in 1 .. Len(argv) : argv[k] # NULL
  PROVE  DOMAIN Upto(argv) = 1 .. Len(argv)
<1>1. PICK l : l = Len(argv) /\ l \in Nat /\ DOMAIN argv = 1 .. l
  BY ListIs
<1>2. PICK S : S = {k \in DOMAIN argv : argv[k] = NULL} \cup {Len(argv) + 1}
  OBVIOUS
<1>3. S = {l + 1}
  BY <1>1, <1>2
<1>4. Min(S) = l + 1
  <2>1. S \in SUBSET Nat /\ S # {}
    BY <1>1, <1>3
  <2>2. Min(S) \in S
    BY <2>1, MinIs
  <2>3. QED
    BY <1>3, <2>2
<1>5. PICK u : u = SubSeq(argv, 1, l)
  OBVIOUS
<1>6. (l + 1) - 1 = l
  BY <1>1
<1>7. Upto(argv) = u
  BY <1>2, <1>4, <1>5, <1>6 DEF Upto
<1>8. PICK T : argv \in Seq(T)
  BY DEF IsList
<1>9. \A k \in 1 .. l : argv[k] \in T
  BY <1>1, <1>8, ElementOfSeq
<1>10. u \in Seq(T) /\ Len(u) = l
  <2>1. 1 \in Int /\ l \in Int
    BY <1>1
  <2>2. u \in Seq(T) /\ Len(u) = IF 1 <= l THEN l - 1 + 1 ELSE 0
    BY <1>5, <1>9, <2>1, SubSeqProperties
  <2>3. QED
    BY <1>1, <2>2
<1>11. DOMAIN u = 1 .. l
  BY <1>10, LenProperties
<1>12. QED
  BY <1>1, <1>7, <1>11

(* A copy of a word, expanded or without its quotes, is a copy of its meaning. *)
LEMMA CopyMeans ==
  ASSUME NEW w, NEW s, NEW f, IsCopy(w, s, f), s \in Seq(STRING), Closed(s)
  PROVE  /\ expand_word(w.text) \in {<<>>, Meaning(s)} /\ (~ f => expand_word(w.text) = Meaning(s))
         /\ strip_quotes(w.text) \in {<<>>, Literal(s)} /\ (~ f => strip_quotes(w.text) = Literal(s))
<1>1. \A t \in Seq(STRING) : Closed(t) => expand_word(t) = Meaning(t) /\ strip_quotes(t) = Literal(t)
  BY ExpandsToMeaning, StripsToLiteral DEF Closed
<1>2. expand_word(s) = Meaning(s) /\ strip_quotes(s) = Literal(s)
  BY <1>1
<1>3. PICK z : z = <<>>
  OBVIOUS
<1>4. z \in Seq(STRING) /\ Closed(z)
  BY <1>3, EmptyClosed
<1>5. expand_word(z) = z /\ strip_quotes(z) = z
  BY <1>1, <1>3, <1>4, MeaningIs
<1>6. w.text = z \/ w.text = s
  BY <1>3 DEF IsCopy
<1>7. ~ f => w.text = s
  BY DEF IsCopy
<1>8. expand_word(w.text) \in {z, Meaning(s)} /\ strip_quotes(w.text) \in {z, Literal(s)}
  BY <1>2, <1>5, <1>6
<1>9. QED
  BY <1>2, <1>3, <1>7, <1>8

(* expand_pipeline gives a command that was typed its meaning. *)
LEMMA ExpandedMeans ==
  ASSUME Tokens, Whole(toks), Grammatical, NEW c, IsCmd(c), NEW n \in Nat, NEW f, NEW g, f => g,
         NEW bad, bad # {} => g, IsTyped(c, n, Len(toks), f)
  PROVE  IsMeant(Expanded(c, bad), n, g)
<1>1. PICK l : l = Len(toks) /\ l \in Nat
  BY TypeAtIs
<1>2. PICK a, b : a = Chosen(ArgSet(n), l) /\ b = Chosen(RedirSet(n), l)
  OBVIOUS
<1>3. PICK d : d = Expanded(c, bad)
  OBVIOUS
<1>4. PICK v, r : v = expand_argv(c) /\ r = expand_redirects(c, bad)
  OBVIOUS
<1>5. d.argv = v /\ d.redirects = r
  BY <1>3, <1>4 DEF Expanded
<1>6. CopiedArgs(c.argv, a, f) /\ CopiedRedirs(c.redirects, b, f)
  BY <1>1, <1>2 DEF IsTyped
<1>7. Len(a) \in Nat /\ Len(b) \in Nat
  BY <1>1, <1>2, ChosenIs, LenProperties
<1>8. ASSUME NEW k \in 1 .. Len(a) PROVE Typed(a[k]) \in Seq(STRING) /\ Closed(Typed(a[k]))
  <2>1. a[k] \in ArgSet(n) /\ a[k] \in 1 .. l
    BY <1>1, <1>2, ChosenAre
  <2>2. toks[a[k]].type = "word"
    BY <2>1 DEF ArgSet
  <2>3. QED
    BY <1>1, <2>1, <2>2 DEF Whole, Typed
<1>9. ASSUME NEW k \in 1 .. Len(b) PROVE Typed(b[k] + 1) \in Seq(STRING) /\ Closed(Typed(b[k] + 1))
  <2>1. b[k] \in RedirSet(n) /\ b[k] \in 1 .. l
    BY <1>1, <1>2, ChosenAre
  <2>2. toks[b[k]].type \in RedirTypes /\ b[k] \in DOMAIN toks
    BY <1>1, <2>1, TypeAtIs DEF RedirSet
  <2>3. TypeAt(b[k] + 1) = "word"
    BY <2>2 DEF Grammatical
  <2>4. b[k] + 1 \in 1 .. Len(toks) /\ toks[b[k] + 1].type = "word"
    BY <2>3, TypeAtIs
  <2>5. QED
    BY <2>4 DEF Whole, Typed
<1>10. MeantArgs(v, a, g)
  <2>1. PICK q : q = c.argv
    OBVIOUS
  <2>2. IsList(q) /\ Len(q) = Len(a) /\ \A k \in 1 .. Len(a) : IsCopy(q[k], Typed(a[k]), f) /\ (~ f => q[k] # NULL)
    BY <1>6, <2>1 DEF IsCmd, CopiedArgs
  <2>3. PICK m \in 0 .. Len(q) : DOMAIN Upto(q) = 1 .. m
    BY <2>2, UptoIs
  <2>4. m \in Nat /\ m <= Len(a) /\ \A k \in 1 .. m : k \in 1 .. Len(a)
    BY <1>7, <2>2, <2>3
  <2>5. ~ f => m = Len(a)
    <3>1. ASSUME ~ f PROVE DOMAIN Upto(q) = 1 .. Len(q)
      BY <2>2, <3>1, UptoAll
    <3>2. ASSUME ~ f PROVE m = Len(a)
      <4>1. PICK p : p = Len(a)
        OBVIOUS
      <4>2. p \in Nat /\ m \in Nat /\ 1 .. m = 1 .. p
        BY <1>7, <2>2, <2>3, <2>4, <3>1, <3>2, <4>1
      <4>3. m = p
        BY <4>2
      <4>4. QED
        BY <4>1, <4>3
    <3>3. QED
      BY <3>2
  <2>6. v = [k \in 1 .. m |-> Text(expand_word(q[k].text), "exp")]
    BY <1>4, <2>1, <2>3 DEF expand_argv
  <2>7. v = [k \in 1 .. m |-> v[k]] /\ \A k \in 1 .. m : v[k].text = expand_word(q[k].text)
    BY <2>6 DEF Text
  <2>8. Len(v) = m
    BY <2>4, <2>7, ListOf
  <2>9. ASSUME NEW k \in 1 .. m PROVE IsCopy(v[k], Meaning(Typed(a[k])), g)
    <3>1. k \in 1 .. Len(a) /\ IsCopy(q[k], Typed(a[k]), f)
      BY <2>2, <2>4
    <3>2. Typed(a[k]) \in Seq(STRING) /\ Closed(Typed(a[k]))
      BY <1>8, <3>1
    <3>3. expand_word(q[k].text) \in {<<>>, Meaning(Typed(a[k]))} /\ (~ f => expand_word(q[k].text) = Meaning(Typed(a[k])))
      BY <3>1, <3>2, CopyMeans
    <3>4. QED
      BY <2>7, <3>3 DEF IsCopy
  <2>10. QED
    BY <2>4, <2>5, <2>8, <2>9 DEF MeantArgs
<1>11. MeantRedirs(r, b, g)
  <2>1. PICK o : o = c.redirects
    OBVIOUS
  <2>2. /\ IsList(o) /\ Len(o) = Len(b) /\ \A k \in 1 .. Len(b) : Redirection(o[k])
        /\ \A k \in 1 .. Len(b) : SameRedir(o[k], b[k]) /\ IsCopy(o[k].target, Typed(b[k] + 1), f)
    BY <1>6, <2>1 DEF IsCmd, CopiedRedirs
  <2>3. PICK m : m = Len(b) /\ m \in Nat /\ DOMAIN o = 1 .. m
    BY <1>7, <2>2, ListIs
  <2>4. r = [k \in 1 .. m |-> [o[k] EXCEPT !.target = IF k \in bad THEN NULL ELSE Text(Target(o[k]), "exp")]]
    BY <1>4, <2>1, <2>3 DEF expand_redirects
  <2>5. r = [k \in 1 .. m |-> r[k]]
    BY <2>4
  <2>6. Len(r) = m
    BY <2>3, <2>5, ListOf
  <2>7. ASSUME NEW k \in 1 .. m PROVE SameRedir(r[k], b[k]) /\ IsCopy(r[k].target, Worded(b[k]), g)
    <3>1. PICK x : x = IF k \in bad THEN NULL ELSE Text(Target(o[k]), "exp")
      OBVIOUS
    <3>2. Redirection(o[k]) /\ SameRedir(o[k], b[k]) /\ IsCopy(o[k].target, Typed(b[k] + 1), f)
      BY <2>2, <2>3
    <3>3. r[k] = [type |-> o[k].type, target |-> x, quoted |-> o[k].quoted]
      BY <2>4, <3>1, <3>2 DEF Redirection
    <3>4. r[k].type = o[k].type /\ r[k].target = x /\ r[k].quoted = o[k].quoted
      BY <3>3
    <3>5. SameRedir(r[k], b[k])
      BY <3>2, <3>4 DEF SameRedir
    <3>6. Typed(b[k] + 1) \in Seq(STRING) /\ Closed(Typed(b[k] + 1))
      BY <1>9, <2>3
    <3>7. Target(o[k]) \in {<<>>, Worded(b[k])} /\ (~ f => Target(o[k]) = Worded(b[k]))
      <4>1. PICK w : w = o[k].target
        OBVIOUS
      <4>2. /\ expand_word(w.text) \in {<<>>, Meaning(Typed(b[k] + 1))} /\ (~ f => expand_word(w.text) = Meaning(Typed(b[k] + 1)))
            /\ strip_quotes(w.text) \in {<<>>, Literal(Typed(b[k] + 1))} /\ (~ f => strip_quotes(w.text) = Literal(Typed(b[k] + 1)))
        BY <3>2, <3>6, <4>1, CopyMeans
      <4>3. o[k].type = toks[b[k]].type
        BY <3>2 DEF SameRedir
      <4>4. QED
        BY <4>1, <4>2, <4>3 DEF Target, Worded
    <3>8. CASE k \in bad
      <4>1. x.text = <<>> /\ g
        BY <3>1, <3>8 DEF NULL
      <4>2. QED
        BY <3>4, <3>5, <4>1 DEF IsCopy
    <3>9. CASE k \notin bad
      <4>1. x.text = Target(o[k])
        BY <3>1, <3>9 DEF Text
      <4>2. QED
        BY <3>4, <3>5, <3>7, <4>1 DEF IsCopy
    <3>10. QED
      BY <3>8, <3>9
  <2>8. QED
    BY <2>3, <2>6, <2>7 DEF MeantRedirs
<1>12. QED
  BY <1>1, <1>2, <1>3, <1>5, <1>10, <1>11 DEF IsMeant

(* Where memory has run out, less is said. *)
LEMMA SaidWeaker ==
  ASSUME NEW c, NEW n, NEW f, NEW g, f => g
  PROVE  /\ \A j : IsTyped(c, n, j, f) => IsTyped(c, n, j, g)
         /\ IsMeant(c, n, f) => IsMeant(c, n, g)
<1>1. \A w, s : IsCopy(w, s, f) => IsCopy(w, s, g)
  BY DEF IsCopy
<1>2. \A v, a : CopiedArgs(v, a, f) => CopiedArgs(v, a, g)
  BY <1>1 DEF CopiedArgs
<1>3. \A v, a : CopiedRedirs(v, a, f) => CopiedRedirs(v, a, g)
  BY <1>1 DEF CopiedRedirs
<1>4. \A v, a : MeantArgs(v, a, f) => MeantArgs(v, a, g)
  BY <1>1 DEF MeantArgs
<1>5. \A v, a : MeantRedirs(v, a, f) => MeantRedirs(v, a, g)
  BY <1>1 DEF MeantRedirs
<1>6. QED
  BY <1>2, <1>3, <1>4, <1>5 DEF IsTyped, IsMeant

(* The tokens stay what they are, and what is said with them. *)
LEMMA SaidStays ==
  ASSUME UNCHANGED toks
  PROVE  /\ \A c, n, j, f : IsTyped(c, n, j, f)' = IsTyped(c, n, j, f)
         /\ \A c, n, f : IsMeant(c, n, f)' = IsMeant(c, n, f)
         /\ count' = count /\ \A k : TypeAt(k)' = TypeAt(k)
<1>1. \A n : ArgSet(n)' = ArgSet(n) /\ RedirSet(n)' = RedirSet(n)
  BY DEF ArgSet, RedirSet, Of, Behind
<1>2. \A k : Typed(k)' = Typed(k) /\ Worded(k)' = Worded(k)
  BY DEF Typed, Worded
<1>3. \A x, r : SameRedir(x, r)' = SameRedir(x, r)
  BY <1>2 DEF SameRedir
<1>4. \A v, a, f : CopiedArgs(v, a, f)' = CopiedArgs(v, a, f) /\ CopiedRedirs(v, a, f)' = CopiedRedirs(v, a, f)
  BY <1>2, <1>3 DEF CopiedArgs, CopiedRedirs
<1>5. \A v, a, f : MeantArgs(v, a, f)' = MeantArgs(v, a, f) /\ MeantRedirs(v, a, f)' = MeantRedirs(v, a, f)
  BY <1>2, <1>3 DEF MeantArgs, MeantRedirs
<1>6. \A c, n, j, f : IsTyped(c, n, j, f)' = IsTyped(c, n, j, f)
  BY <1>1, <1>4 DEF IsTyped
<1>7. \A c, n, f : IsMeant(c, n, f)' = IsMeant(c, n, f)
  BY <1>1, <1>5 DEF IsMeant
<1>8. QED
  BY <1>6, <1>7 DEF count, TypeAt

(* A token that is not of the command. *)
LEMMA TypedSkips ==
  ASSUME Tokens, NEW k \in 1 .. Len(toks), NEW n, NEW c, NEW f, k \notin ArgSet(n), k \notin RedirSet(n),
         IsTyped(c, n, k - 1, f)
  PROVE  IsTyped(c, n, k, f)
<1>1. Chosen(ArgSet(n), k) = Chosen(ArgSet(n), k - 1) /\ Chosen(RedirSet(n), k) = Chosen(RedirSet(n), k - 1)
  BY ChosenNext
<1>2. QED
  BY <1>1 DEF IsTyped

(* A word of the command. *)
LEMMA TypedWord ==
  ASSUME Tokens, NEW k \in 1 .. Len(toks), NEW n, NEW c, IsCmd(c), NEW f, k \in ArgSet(n), k \notin RedirSet(n),
         IsTyped(c, n, k - 1, f), NEW w \in Copied(toks[k].value, "parse"), w = NULL => f,
         NEW d, d.argv = Append(c.argv, w), d.redirects = c.redirects
  PROVE  IsTyped(d, n, k, f)
<1>1. Chosen(ArgSet(n), k) = Append(Chosen(ArgSet(n), k - 1), k) /\ Chosen(RedirSet(n), k) = Chosen(RedirSet(n), k - 1)
      /\ IsList(Chosen(ArgSet(n), k - 1))
  BY ChosenNext
<1>2. CopiedArgs(c.argv, Chosen(ArgSet(n), k - 1), f) /\ CopiedRedirs(c.redirects, Chosen(RedirSet(n), k - 1), f)
  BY DEF IsTyped
<1>3. IsCopy(w, Typed(k), f) /\ (~ f => w # NULL)
  <2>1. w = NULL \/ w = Text(toks[k].value.text, "parse")
    BY DEF Copied
  <2>2. CASE w = NULL
    <3>1. w.text = <<>>
      BY <2>2 DEF NULL
    <3>2. QED
      BY <2>2, <3>1 DEF IsCopy
  <2>3. CASE w # NULL /\ w = Text(toks[k].value.text, "parse")
    <3>1. w.text = Typed(k)
      BY <2>3 DEF Text, Typed
    <3>2. QED
      BY <2>3, <3>1 DEF IsCopy
  <2>4. QED
    BY <2>1, <2>2, <2>3
<1>4. IsList(c.argv)
  BY DEF IsCmd
<1>5. CopiedArgs(d.argv, Chosen(ArgSet(n), k), f)
  BY <1>1, <1>2, <1>3, <1>4, ArgsGrow
<1>6. QED
  BY <1>1, <1>2, <1>5 DEF IsTyped

(* A redirection of the command. *)
LEMMA TypedRedir ==
  ASSUME Tokens, NEW k \in 1 .. Len(toks), NEW n, NEW c, IsCmd(c), NEW f, k \notin ArgSet(n), k \in RedirSet(n),
         IsTyped(c, n, k - 1, f), NEW x, x = Redirect(k, x.target), x.target \in Copied(toks[k + 1].value, "parse"),
         x.target = NULL => f,
         NEW d, d.argv = c.argv, d.redirects = Append(c.redirects, x)
  PROVE  IsTyped(d, n, k, f)
<1>1. Chosen(RedirSet(n), k) = Append(Chosen(RedirSet(n), k - 1), k) /\ Chosen(ArgSet(n), k) = Chosen(ArgSet(n), k - 1)
      /\ IsList(Chosen(RedirSet(n), k - 1))
  BY ChosenNext
<1>2. CopiedArgs(c.argv, Chosen(ArgSet(n), k - 1), f) /\ CopiedRedirs(c.redirects, Chosen(RedirSet(n), k - 1), f)
  BY DEF IsTyped
<1>3. PICK w : w = x.target
  OBVIOUS
<1>4. IsCopy(w, Typed(k + 1), f)
  <2>1. w = NULL \/ w = Text(toks[k + 1].value.text, "parse")
    BY <1>3 DEF Copied
  <2>2. CASE w = NULL
    <3>1. w.text = <<>>
      BY <2>2 DEF NULL
    <3>2. QED
      BY <1>3, <2>2, <3>1 DEF IsCopy
  <2>3. CASE w = Text(toks[k + 1].value.text, "parse")
    <3>1. w.text = Typed(k + 1)
      BY <2>3 DEF Text, Typed
    <3>2. QED
      BY <3>1 DEF IsCopy
  <2>4. QED
    BY <2>1, <2>2, <2>3
<1>5. SameRedir(x, k)
  <2>1. x = [type |-> TypeAt(k), target |-> w, quoted |-> has_quote(toks[k + 1].value.text)]
    BY <1>3 DEF Redirect
  <2>2. x.type = TypeAt(k) /\ x.quoted = has_quote(Typed(k + 1))
    BY <2>1 DEF Typed
  <2>3. TypeAt(k) = toks[k].type
    BY TypeAtIs
  <2>4. QED
    BY <2>2, <2>3 DEF SameRedir
<1>6. IsList(c.redirects)
  BY DEF IsCmd
<1>7. CopiedRedirs(d.redirects, Chosen(RedirSet(n), k), f)
  BY <1>1, <1>2, <1>3, <1>4, <1>5, <1>6, RedirsGrow
<1>8. QED
  BY <1>1, <1>2, <1>7 DEF IsTyped

-----------------------------------------------------------------------------
(* What the parser and the expansion have made of what was typed. *)
Said ==
    /\ phase \in {"cmd", "fill"} => /\ i > 1 => TypeAt(i - 1) \notin RedirTypes
                                    /\ \A n \in 1 .. Len(pl) : IsTyped(pl[n], n, i - 1, failed)
    /\ phase = "expand" => \A n \in 1 .. Len(pl) : IF n < e THEN IsMeant(pl[n], n, failed)
                                                   ELSE IsTyped(pl[n], n, Len(toks), failed)
    /\ phase = "exec" => \A n \in 1 .. Len(pl) : IsMeant(pl[n], n, failed)
    /\ phase \in {"expand", "exec"} => Len(pl) = count

(* parse_one: a command of which nothing was typed yet. *)
LEMMA SaidParseOne == ASSUME Owned, Parsed, Said, parse_one PROVE Said'
<1>1. phase = "cmd" /\ UNCHANGED <<i, toks>>
  BY DEF parse_one
<1>2. CASE phase' = "done"
  BY <1>2 DEF Said
<1>3. CASE TypeAt(i) # "pipe" /\ phase' = "fill" /\ UNCHANGED <<i, toks, e, failed>> /\ pl' = Append(pl, Begun(count_argc(i)))
  <2>1. /\ i \in 1 .. Len(toks) + 1 /\ (i > 1 => TypeAt(i - 1) = "pipe") /\ Len(pl) = Pipes(i - 1)
        /\ Tokens /\ Cmds /\ Len(toks) \in Nat
    BY <1>1, TypeAtIs DEF Parsed, Owned
  <2>2. /\ Len(pl') = Len(pl) + 1
        /\ \A m \in 1 .. Len(pl) : pl'[m] = pl[m]
        /\ pl'[Len(pl) + 1] = Begun(count_argc(i))
    BY <1>3, <2>1, CmdBegun
  <2>3. PICK l, c : l = Len(pl) /\ c = Begun(count_argc(i))
    OBVIOUS
  <2>4. l \in Nat
    BY <2>1, <2>3, ListIs DEF Cmds
  <2>5. c.argv = <<>> /\ c.redirects = <<>>
    BY <2>3 DEF Begun
  <2>6. IsTyped(c, l + 1, i - 1, failed)
    BY <2>1, <2>3, <2>5, BegunTyped
  <2>7. ASSUME NEW n \in 1 .. l + 1 PROVE IsTyped(pl'[n], n, i - 1, failed)
    <3>1. CASE n = l + 1
      BY <2>2, <2>3, <2>6, <3>1
    <3>2. CASE n # l + 1
      <4>1. n \in 1 .. Len(pl)
        BY <2>3, <2>4, <3>2
      <4>2. QED
        BY <1>1, <2>2, <4>1 DEF Said
    <3>3. QED
      BY <3>1, <3>2
  <2>8. i > 1 => TypeAt(i - 1) \notin RedirTypes
    BY <1>1 DEF Said
  <2>9. QED
    BY <1>3, <2>2, <2>3, <2>7, <2>8, SaidStays DEF Said
<1>4. QED
  BY <1>2, <1>3, ParseOneIs

(* fill_cmd's words. *)
LEMMA SaidFillWord == ASSUME Owned, Parsed, Said, fill_word PROVE Said'
<1>1. PICK w : /\ failed' = (failed \/ w = NULL) /\ (w # NULL => w.mem = "parse")
               /\ w \in Copied(toks[i].value, "parse")
               /\ phase = "fill" /\ last \in 1 .. Len(pl) /\ IsCmd(pl[last])
               /\ Cmds' /\ Len(pl') = Len(pl)
               /\ \A m \in 1 .. Len(pl) : m # last => pl'[m] = pl[m]
               /\ pl'[last] = [argv |-> Append(pl[last].argv, w), argc |-> pl[last].argc, redirects |-> pl[last].redirects]
               /\ TypeAt(i) = "word" /\ i' = i + 1 /\ UNCHANGED <<toks, phase, e>>
  BY FillWordIs DEF Owned, Control
<1>2. Tokens /\ Cmds /\ Len(toks) \in Nat /\ Len(pl) \in Nat /\ failed \in BOOLEAN
  BY TypeAtIs, ListIs DEF Owned, Cmds, Control
<1>3. i \in 1 .. Len(toks) /\ toks[i].type = "word" /\ i \in Int
  BY <1>1, <1>2, TypeAtIs
<1>4. Len(pl) = Pipes(i - 1) + 1 /\ Pipes(i) = Pipes(i - 1) /\ Pipes(i) \in Nat
  <2>1. i - 1 \in Nat /\ i \in Nat
    BY <1>3
  <2>2. QED
    BY <1>1, <1>2, <1>3, <2>1, TokenIs, PipesAre DEF Parsed
<1>5. /\ i > 1 => TypeAt(i - 1) \notin RedirTypes
      /\ \A n \in 1 .. Len(pl) : IsTyped(pl[n], n, i - 1, failed)
  BY <1>1 DEF Said
<1>6. ASSUME NEW n \in 1 .. Len(pl) PROVE IsTyped(pl'[n], n, i, failed')
  <2>1. failed => failed'
    BY <1>1
  <2>2. IsTyped(pl[n], n, i - 1, failed')
    BY <1>5, <2>1, SaidWeaker
  <2>3. n \in Nat /\ i \notin RedirSet(n) /\ (i \in ArgSet(n) <=> Pipes(i) = n - 1)
    <3>1. n \in Nat
      BY <1>2
    <3>2. QED
      BY <1>2, <1>3, <1>5, <3>1, TokenIs DEF RedirTypes
  <2>4. CASE n = last
    <3>1. Pipes(i) = n - 1
      BY <1>2, <1>4, <2>4 DEF last
    <3>2. PICK c, d : c = pl[n] /\ d = pl'[n]
      OBVIOUS
    <3>3. IsCmd(c) /\ d.argv = Append(c.argv, w) /\ d.redirects = c.redirects
      BY <1>1, <2>4, <3>2
    <3>4. IsTyped(d, n, i, failed')
      <4>1. w = NULL => failed'
        BY <1>1
      <4>2. IsTyped(c, n, i - 1, failed') /\ i \in ArgSet(n) /\ i \notin RedirSet(n) /\ w \in Copied(toks[i].value, "parse")
        BY <1>1, <2>2, <2>3, <3>1, <3>2
      <4>3. QED
        BY <1>2, <1>3, <3>3, <4>1, <4>2, TypedWord
    <3>5. QED
      BY <3>2, <3>4
  <2>5. CASE n # last
    <3>1. pl'[n] = pl[n] /\ Pipes(i) # n - 1
      BY <1>1, <1>2, <1>4, <2>5 DEF last
    <3>2. IsTyped(pl[n], n, i, failed')
      BY <1>2, <1>3, <2>2, <2>3, <3>1, TypedSkips
    <3>3. QED
      BY <3>1, <3>2
  <2>6. QED
    BY <2>4, <2>5
<1>7. PICK j : j = i + 1
  OBVIOUS
<1>8. j - 1 = i /\ i' = j /\ TypeAt(j - 1) \notin RedirTypes
  BY <1>1, <1>3, <1>7 DEF RedirTypes
<1>9. \A n \in 1 .. Len(pl') : IsTyped(pl'[n], n, j - 1, failed')
  BY <1>1, <1>6, <1>8
<1>10. QED
  BY <1>1, <1>8, <1>9, SaidStays DEF Said

(* fill_cmd's redirections, each with the word behind it. *)
LEMMA SaidFillRedirect == ASSUME Owned, Parsed, Said, fill_redirect PROVE Said'
<1>1. CASE phase' \in {"done", "crashed"}
  BY <1>1 DEF Said
<1>2. ASSUME NEW x, failed' = (failed \/ x.target = NULL),
             x.target \in Copied(toks[i + 1].value, "parse"), x = Redirect(i, x.target),
             phase = "fill", last \in 1 .. Len(pl), IsCmd(pl[last]),
             Len(pl') = Len(pl),
             \A m \in 1 .. Len(pl) : m # last => pl'[m] = pl[m],
             pl'[last] = [argv |-> pl[last].argv, argc |-> pl[last].argc, redirects |-> Append(pl[last].redirects, x)],
             TypeAt(i) \in RedirTypes, TypeAt(i + 1) = "word", i' = i + 2, UNCHANGED <<toks, phase, e>>
      PROVE  Said'
  <2>1. Tokens /\ Cmds /\ Len(toks) \in Nat /\ Len(pl) \in Nat /\ failed \in BOOLEAN
    BY TypeAtIs, ListIs DEF Owned, Cmds, Control
  <2>2. i \in 1 .. Len(toks) /\ toks[i].type \in RedirTypes /\ i \in Int
        /\ i + 1 \in 1 .. Len(toks) /\ toks[i + 1].type = "word"
    <3>1. TypeAt(i) # "end"
      BY <1>2 DEF RedirTypes
    <3>2. i \in 1 .. Len(toks) /\ i + 1 \in 1 .. Len(toks)
      BY <1>2, <2>1, <3>1, TypeAtIs
    <3>3. QED
      BY <1>2, <2>1, <3>2, TypeAtIs
  <2>3. PICK j : j = i + 1 /\ j \in 1 .. Len(toks) /\ toks[j].type = "word" /\ j - 1 = i /\ j > 1
    BY <2>2
  <2>4. Len(pl) = Pipes(i - 1) + 1 /\ Pipes(i) = Pipes(i - 1) /\ Pipes(i) \in Nat
    <3>1. i - 1 \in Nat /\ i \in Nat /\ toks[i].type # "pipe"
      BY <2>2 DEF RedirTypes
    <3>2. Pipes(i) = Pipes(i - 1)
      <4>1. 0 \in Nat
        OBVIOUS
      <4>2. QED
        BY <2>1, <2>2, <3>1, <4>1, TokenIs
    <3>3. QED
      BY <1>2, <3>1, <3>2, PipesAre DEF Parsed
  <2>5. \A n \in 1 .. Len(pl) : IsTyped(pl[n], n, i - 1, failed)
    BY <1>2 DEF Said
  <2>6. ASSUME NEW n \in 1 .. Len(pl) PROVE IsTyped(pl'[n], n, j, failed')
    <3>1. failed => failed'
      BY <1>2
    <3>2. IsTyped(pl[n], n, i - 1, failed')
      BY <2>5, <3>1, SaidWeaker
    <3>3. n \in Nat
      BY <2>1
    <3>4. i \notin ArgSet(n) /\ (i \in RedirSet(n) <=> Pipes(i) = n - 1)
      BY <2>1, <2>2, <3>3, TokenIs DEF RedirTypes
    <3>5. j \notin ArgSet(n) /\ j \notin RedirSet(n)
      BY <1>2, <2>1, <2>3, <3>3, TokenIs DEF RedirTypes
    <3>6. IsTyped(pl'[n], n, i, failed')
      <4>1. CASE n = last
        <5>1. Pipes(i) = n - 1
          BY <2>1, <2>4, <4>1 DEF last
        <5>2. PICK c, d : c = pl[n] /\ d = pl'[n]
          OBVIOUS
        <5>3. IsCmd(c) /\ d.argv = c.argv /\ d.redirects = Append(c.redirects, x)
          BY <1>2, <4>1, <5>2
        <5>4. x.target = NULL => failed'
          BY <1>2
        <5>5. IsTyped(c, n, i - 1, failed') /\ i \in RedirSet(n) /\ i \notin ArgSet(n)
          BY <3>2, <3>4, <5>1, <5>2
        <5>6. IsTyped(d, n, i, failed')
          BY <1>2, <2>1, <2>2, <5>3, <5>4, <5>5, TypedRedir
        <5>7. QED
          BY <5>2, <5>6
      <4>2. CASE n # last
        <5>1. pl'[n] = pl[n] /\ Pipes(i) # n - 1
          BY <1>2, <2>1, <2>4, <4>2 DEF last
        <5>2. IsTyped(pl[n], n, i, failed')
          BY <2>1, <2>2, <3>2, <3>4, <5>1, TypedSkips
        <5>3. QED
          BY <5>1, <5>2
      <4>3. QED
        BY <4>1, <4>2
    <3>7. IsTyped(pl'[n], n, j - 1, failed')
      BY <2>3, <3>6
    <3>8. QED
      BY <2>1, <2>3, <3>5, <3>7, TypedSkips
  <2>7. PICK k : k = i + 2
    OBVIOUS
  <2>8. k - 1 = j /\ i' = k /\ TypeAt(k - 1) \notin RedirTypes
    BY <1>2, <2>2, <2>3, <2>7 DEF RedirTypes
  <2>9. \A n \in 1 .. Len(pl') : IsTyped(pl'[n], n, k - 1, failed')
    BY <1>2, <2>6, <2>8
  <2>10. QED
    BY <1>2, <2>8, <2>9, SaidStays DEF Said
<1>3. QED
  BY <1>1, <1>2, FillRedirectIs DEF Owned, Control

(* The end of a command, and of the commands. *)
LEMMA SaidParseCmds == ASSUME Owned, Parsed, Said, parse_cmds PROVE Said'
<1>1. phase = "fill" /\ UNCHANGED <<toks, pl, failed>> /\ TypeAt(i) \in {"pipe", "end"} /\ last = Len(pl) /\ e' = 1
  BY DEF parse_cmds, last, Owned, Stages
<1>2. Tokens /\ Len(toks) \in Nat /\ i \in 1 .. Len(toks) + 1 /\ Len(pl) \in Nat
  BY <1>1, TypeAtIs, ListIs DEF Owned, Parsed, Cmds
<1>3. \A n \in 1 .. Len(pl) : IsTyped(pl[n], n, i - 1, failed)
  BY <1>1 DEF Said
<1>4. CASE phase' = "done"
  BY <1>4 DEF Said
<1>5. CASE TypeAt(i) = "end" /\ phase' = "expand" /\ last = count
  <2>1. i - 1 = Len(toks)
    BY <1>2, <1>5, TypeAtIs
  <2>2. \A n \in 1 .. Len(pl) : IsTyped(pl[n], n, Len(toks), failed) /\ ~ (n < 1)
    BY <1>2, <1>3, <2>1
  <2>3. QED
    BY <1>1, <1>5, <2>2, SaidStays DEF Said
<1>6. CASE TypeAt(i) = "pipe" /\ phase' = "cmd" /\ i' = i + 1
  <2>1. i \in 1 .. Len(toks) /\ toks[i].type = "pipe" /\ i \in Int
    BY <1>2, <1>6, TypeAtIs
  <2>2. ASSUME NEW n \in 1 .. Len(pl) PROVE IsTyped(pl[n], n, i, failed)
    <3>1. n \in Nat
      BY <1>2
    <3>2. i \notin ArgSet(n) /\ i \notin RedirSet(n)
      BY <1>2, <2>1, <3>1, TokenIs DEF RedirTypes
    <3>3. QED
      BY <1>2, <1>3, <2>1, <3>2, TypedSkips
  <2>3. PICK j : j = i + 1
    OBVIOUS
  <2>4. j - 1 = i /\ i' = j /\ TypeAt(j - 1) \notin RedirTypes
    BY <1>6, <2>1, <2>3 DEF RedirTypes
  <2>5. \A n \in 1 .. Len(pl') : IsTyped(pl'[n], n, j - 1, failed')
    BY <1>1, <2>2, <2>4
  <2>6. QED
    BY <1>6, <2>4, <2>5, <1>1, SaidStays DEF Said
<1>7. \/ phase' = "done"
      \/ TypeAt(i) = "end" /\ phase' = "expand" /\ last = count
      \/ TypeAt(i) = "pipe" /\ phase' = "cmd" /\ i' = i + 1
  <2>1. CASE TypeAt(i) = "pipe"
    <3>1. ~ (phase' = "expand")
      <4>1. ASSUME phase' = "expand" PROVE FALSE
        <5>1. last = count
          BY <4>1 DEF parse_cmds, ParseError, Stop
        <5>2. i \in 1 .. Len(toks) /\ toks[i].type = "pipe"
          BY <1>2, <2>1, TypeAtIs
        <5>3. i - 1 \in Nat
          BY <1>2
        <5>4. Pipes(i - 1) < Pipes(Len(toks)) /\ count = Pipes(Len(toks)) + 1 /\ Len(pl) = Pipes(i - 1) + 1
          BY <1>1, <1>2, <5>2, CountPipes DEF Parsed
        <5>5. Pipes(i - 1) \in Nat /\ Pipes(Len(toks)) \in Nat
          BY <1>2, <5>3, PipesAre
        <5>6. PICK x \in Nat : x = Pipes(i - 1)
          BY <5>5
        <5>7. PICK y \in Nat : y = Pipes(Len(toks))
          BY <5>5
        <5>8. x < y /\ x + 1 = y + 1
          BY <1>1, <5>1, <5>4, <5>6, <5>7
        <5>9. QED
          BY <5>8
      <4>2. QED
        BY <4>1
    <3>2. QED
      BY <2>1, <3>1 DEF parse_cmds, ParseError, Stop
  <2>2. CASE TypeAt(i) = "end"
    <3>1. TypeAt(i) # "pipe"
      BY <2>2
    <3>2. QED
      BY <2>2, <3>1 DEF parse_cmds, ParseError, Stop
  <2>3. QED
    BY <1>1, <2>1, <2>2
<1>8. QED
  BY <1>4, <1>5, <1>6, <1>7

(* expand_pipeline, one command. *)
LEMMA SaidExpandCmd == ASSUME Owned, Parsed, Lexed, Said, expand_cmd PROVE Said'
<1>1. CASE phase' \in {"done", "crashed"}
  BY <1>1 DEF Said
<1>2. ASSUME NEW d, \E bad : d = Expanded(pl[e], bad) /\ (bad # {} => failed'),
             phase = "expand", e \in 1 .. Len(pl), Len(pl') = Len(pl),
             \A m \in 1 .. Len(pl) : pl'[m] = IF m = e THEN d ELSE pl[m],
             e' = e + 1, UNCHANGED <<toks, phase, i>>
      PROVE  Said'
  <2>1. Tokens /\ Len(pl) \in Nat /\ Whole(toks) /\ Grammatical /\ IsCmd(pl[e]) /\ e \in Nat
    BY <1>2, ListIs DEF Owned, Cmds, Lexed, Parsed
  <2>2. failed => failed'
    BY DEF Owned, Control, expand_cmd, NoMemory
  <2>3. PICK bad : d = Expanded(pl[e], bad) /\ (bad # {} => failed')
    BY <1>2
  <2>4. IsTyped(pl[e], e, Len(toks), failed)
    BY <1>2, <2>1 DEF Said
  <2>5. IsMeant(d, e, failed')
    BY <2>1, <2>2, <2>3, <2>4, ExpandedMeans
  <2>6. ASSUME NEW n \in 1 .. Len(pl)
        PROVE  IF n < e' THEN IsMeant(pl'[n], n, failed') ELSE IsTyped(pl'[n], n, Len(toks), failed')
    <3>1. CASE n = e
      <4>1. n < e' /\ pl'[n] = d
        BY <1>2, <2>1, <3>1
      <4>2. QED
        BY <2>5, <3>1, <4>1
    <3>2. CASE n # e
      <4>1. pl'[n] = pl[n] /\ (n < e' <=> n < e)
        BY <1>2, <2>1, <3>2
      <4>2. IF n < e THEN IsMeant(pl[n], n, failed) ELSE IsTyped(pl[n], n, Len(toks), failed)
        BY <1>2 DEF Said
      <4>3. /\ IsMeant(pl[n], n, failed) => IsMeant(pl[n], n, failed')
            /\ IsTyped(pl[n], n, Len(toks), failed) => IsTyped(pl[n], n, Len(toks), failed')
        BY <2>2, SaidWeaker
      <4>4. QED
        BY <4>1, <4>2, <4>3
    <3>3. QED
      BY <3>1, <3>2
  <2>7. Len(pl) = count
    BY <1>2 DEF Said
  <2>8. QED
    BY <1>2, <2>6, <2>7, SaidStays DEF Said
<1>3. QED
  BY <1>1, <1>2, ExpandCmdIs DEF Owned, Control

(* Every step keeps what has been said of the commands. *)
LEMMA SaidNext ==
  ASSUME Owned, Parsed, Lexed, Said, [Next]_vars
  PROVE  Said'
<1>1. CASE phase' \in {"lex", "parse", "done", "crashed"}
  BY <1>1 DEF Said
<1>2. CASE lex_op
  BY <1>1, <1>2 DEF lex_op
<1>3. CASE lex_word
  BY <1>1, <1>3 DEF lex_word, LexError, Stop
<1>4. CASE lex_line_end
  BY <1>1, <1>4 DEF lex_line_end
<1>5. CASE parse_pipeline
  <2>1. phase = "parse" /\ i = 1 /\ UNCHANGED <<i, pl>> /\ pl = <<>>
    BY <1>5 DEF parse_pipeline, Parsed, Owned, Stages
  <2>2. CASE phase' = "cmd"
    <3>1. ~ (i' > 1) /\ \A n \in 1 .. Len(pl') : FALSE
      BY <2>1, EmptyIs
    <3>2. QED
      BY <2>2, <3>1 DEF Said
  <2>3. QED
    BY <1>1, <1>5, <2>2 DEF parse_pipeline, ParseError, Stop
<1>6. CASE parse_one
  BY <1>6, SaidParseOne
<1>7. CASE fill_word
  BY <1>7, SaidFillWord
<1>8. CASE fill_redirect
  BY <1>8, SaidFillRedirect
<1>9. CASE parse_cmds
  BY <1>9, SaidParseCmds
<1>10. CASE expand_cmd
  BY <1>10, SaidExpandCmd
<1>11. CASE expand_pipeline_end
  <2>1. phase = "expand" /\ phase' = "exec" /\ e = Len(pl) + 1 /\ UNCHANGED <<toks, pl, failed>>
    BY <1>11 DEF expand_pipeline_end
  <2>2. Len(pl) \in Nat
    BY ListIs DEF Owned, Cmds
  <2>3. \A n \in 1 .. Len(pl) : n < e
    BY <2>1, <2>2
  <2>4. \A n \in 1 .. Len(pl) : IsMeant(pl[n], n, failed)
    BY <2>1, <2>3 DEF Said
  <2>5. QED
    BY <2>1, <2>4, SaidStays DEF Said
<1>12. CASE exec_pipeline
  BY <1>1, <1>12 DEF exec_pipeline
<1>13. CASE UNCHANGED vars
  BY <1>13, SaidStays DEF vars, Said
<1>14. QED
  BY <1>2, <1>3, <1>4, <1>5, <1>6, <1>7, <1>8, <1>9, <1>10, <1>11, <1>12, <1>13 DEF Next, Over

(* Said holds in every state, and Parsed. *)
LEMMA SaidInductive == Spec => [](Parsed /\ Said)
<1>1. Init => Parsed /\ Said
  BY DEF Init, Parsed, Refused, Said
<1>2. Owned /\ Lexed /\ (Parsed /\ Said) /\ [Next]_vars => (Parsed /\ Said)'
  BY ParsedNext, SaidNext
<1>3. QED
  BY <1>1, <1>2, OwnedInductive, LexedInductive, PTL DEF Spec

-----------------------------------------------------------------------------
(* The words and the redirections of the n-th command, as they are chosen. *)
LEMMA ArgsAre ==
  ASSUME Tokens, NEW n
  PROVE  Args(n) = Chosen(ArgSet(n), Len(toks)) /\ Redirs(n) = Chosen(RedirSet(n), Len(toks))
<1>1. Args(n) = InOrder(ArgSet(n), toks) /\ Redirs(n) = InOrder(RedirSet(n), toks)
  BY DEF Args, ArgSet, Redirs, RedirSet
<1>2. \A S : InOrder(S, toks) = Chosen(S, Len(toks))
  BY InOrderIs DEF Tokens
<1>3. QED
  BY <1>1, <1>2

(* A command that has its meaning, where no allocation failed, is written as
   ExecutesWhatWasTyped writes it. *)
LEMMA MeantIs ==
  ASSUME Tokens, NEW n, NEW c, IsCmd(c), NEW f, ~ f, IsMeant(c, n, f)
  PROVE  /\ [k \in DOMAIN c.argv |-> c.argv[k].text]
              = [k \in DOMAIN Args(n) |-> Meaning(Typed(Args(n)[k]))]
         /\ [k \in DOMAIN c.redirects |-> [c.redirects[k] EXCEPT !.target = @.text]]
              = [k \in DOMAIN Redirs(n) |->
                    LET r == Redirs(n)[k] IN
                    [type   |-> toks[r].type,
                     target |-> IF toks[r].type = "heredoc" THEN Literal(Typed(r + 1)) ELSE Meaning(Typed(r + 1)),
                     quoted |-> has_quote(Typed(r + 1))]]
<1>1. Len(toks) \in Nat
  BY TypeAtIs
<1>2. PICK a, b, v, o : a = Args(n) /\ b = Redirs(n) /\ v = c.argv /\ o = c.redirects
  OBVIOUS
<1>3. a = Chosen(ArgSet(n), Len(toks)) /\ b = Chosen(RedirSet(n), Len(toks))
  BY <1>2, ArgsAre
<1>4. a \in Seq(Int) /\ b \in Seq(Int)
  BY <1>1, <1>3, ChosenIs
<1>5. DOMAIN a = 1 .. Len(a) /\ DOMAIN b = 1 .. Len(b)
  BY <1>4, LenProperties
<1>6. DOMAIN v = 1 .. Len(v) /\ DOMAIN o = 1 .. Len(o) /\ \A k \in 1 .. Len(o) : Redirection(o[k])
  BY <1>2, ListIs DEF IsCmd
<1>7. MeantArgs(v, a, f) /\ MeantRedirs(o, b, f)
  BY <1>2, <1>3 DEF IsMeant
<1>8. DOMAIN v = DOMAIN a /\ \A k \in DOMAIN a : v[k].text = Meaning(Typed(a[k]))
  BY <1>5, <1>6, <1>7 DEF MeantArgs, IsCopy
<1>9. DOMAIN o = DOMAIN b
  BY <1>5, <1>6, <1>7 DEF MeantRedirs
<1>10. ASSUME NEW k \in DOMAIN b
       PROVE  [o[k] EXCEPT !.target = @.text]
                = [type |-> toks[b[k]].type, target |-> Worded(b[k]), quoted |-> has_quote(Typed(b[k] + 1))]
  <2>1. PICK x : x = o[k]
    OBVIOUS
  <2>2. x = [type |-> x.type, target |-> x.target, quoted |-> x.quoted]
    BY <1>5, <1>6, <1>9, <1>10, <2>1 DEF Redirection
  <2>3. SameRedir(x, b[k]) /\ IsCopy(x.target, Worded(b[k]), f)
    BY <1>5, <1>7, <1>10, <2>1 DEF MeantRedirs
  <2>4. x.type = toks[b[k]].type /\ x.quoted = has_quote(Typed(b[k] + 1)) /\ x.target.text = Worded(b[k])
    BY <2>3 DEF SameRedir, IsCopy
  <2>5. [x EXCEPT !.target = @.text] = [type |-> x.type, target |-> x.target.text, quoted |-> x.quoted]
    BY <2>2
  <2>6. QED
    BY <2>1, <2>4, <2>5
<1>11. [k \in DOMAIN v |-> v[k].text] = [k \in DOMAIN a |-> Meaning(Typed(a[k]))]
  BY <1>8
<1>12. [k \in DOMAIN o |-> [o[k] EXCEPT !.target = @.text]]
         = [k \in DOMAIN b |-> [type |-> toks[b[k]].type, target |-> Worded(b[k]), quoted |-> has_quote(Typed(b[k] + 1))]]
  BY <1>9, <1>10
<1>13. QED
  BY <1>2, <1>11, <1>12 DEF Worded

(* What is executed is what was typed, for every line, every environment and
   every $?: each command has its words and its redirections in their order,
   each with the meaning its quotes and variables give it, as long as every
   allocation succeeded (core/loop.c:15-38, parser_cmd.c:15-111,
   expand/expand_pipeline.c:15-110). *)
THEOREM ExecutesTheLine == Spec => []ExecutesWhatWasTyped
<1>1. Owned /\ Said => ExecutesWhatWasTyped
  <2> SUFFICES ASSUME Owned, Said, phase = "exec", ~ failed
               PROVE  /\ Len(pl) = count
                      /\ \A n \in DOMAIN pl :
                            /\ [k \in DOMAIN pl[n].argv |-> pl[n].argv[k].text]
                                 = [k \in DOMAIN Args(n) |-> Meaning(Typed(Args(n)[k]))]
                            /\ [k \in DOMAIN pl[n].redirects |-> [pl[n].redirects[k] EXCEPT !.target = @.text]]
                                 = [k \in DOMAIN Redirs(n) |->
                                       LET r == Redirs(n)[k] IN
                                       [type   |-> toks[r].type,
                                        target |-> IF toks[r].type = "heredoc" THEN Literal(Typed(r + 1)) ELSE Meaning(Typed(r + 1)),
                                        quoted |-> has_quote(Typed(r + 1))]]
    BY DEF ExecutesWhatWasTyped
  <2>1. Tokens /\ DOMAIN pl = 1 .. Len(pl) /\ \A n \in 1 .. Len(pl) : IsCmd(pl[n])
    BY ListIs DEF Owned, Cmds
  <2>2. Len(pl) = count /\ \A n \in 1 .. Len(pl) : IsMeant(pl[n], n, failed)
    BY DEF Said
  <2>3. ASSUME NEW n \in DOMAIN pl PROVE IsCmd(pl[n]) /\ IsMeant(pl[n], n, failed)
    BY <2>1, <2>2, <2>3
  <2>4. QED
    BY <2>1, <2>2, <2>3, MeantIs
<1>2. QED
  BY <1>1, OwnedInductive, SaidInductive, PTL

-----------------------------------------------------------------------------
(* What is left of r once a word of meaning m has been passed. *)
Past(r, m) == IF r # <<>> /\ Head(r) \in {<<>>, m} THEN Tail(r) ELSE r

(* Unmatched goes over the words one after the other. *)
LEMMA UnmatchedIs ==
  ASSUME NEW T, NEW texts \in Seq(T), NEW words, Len(words) \in Nat
  PROVE  \E g \in [0 .. Len(words) -> Seq(T)] :
            /\ g[0] = texts /\ Unmatched(texts, words) = g[Len(words)]
            /\ \A n \in 1 .. Len(words) : g[n] = Past(g[n - 1], Meaning(words[n]))
<1> DEFINE Solved(f) ==
       f = [n \in 0 .. Len(words) |->
               IF n = 0 THEN texts
               ELSE IF f[n - 1] # <<>> /\ Head(f[n - 1]) \in {<<>>, Meaning(words[n])} THEN Tail(f[n - 1])
               ELSE f[n - 1]]
<1>1. PICK D, V, rank : D = 0 .. Len(words) /\ V = Seq(T) /\ rank = [n \in D |-> n]
  OBVIOUS
<1>2. PICK step : step = [z \in D \X [D -> V] |-> IF z[1] = 0 THEN texts ELSE Past(z[2][z[1] - 1], Meaning(words[z[1]]))]
  OBVIOUS
<1>3. \A x \in D : \A f \in [D -> V] : step[<<x, f>>] = IF x = 0 THEN texts ELSE Past(f[x - 1], Meaning(words[x]))
  BY <1>2
<1>4. \A x \in D : x # 0 => x - 1 \in D /\ rank[x - 1] < rank[x]
  BY <1>1
<1>5. \A r \in V : \A m : Past(r, m) \in V
  <2>1. ASSUME NEW r \in V, NEW m PROVE Past(r, m) \in V
    <3>1. CASE r = <<>>
      BY <3>1 DEF Past
    <3>2. CASE r # <<>>
      <4>1. Tail(r) \in Seq(T)
        BY <1>1, <3>2, HeadTailProperties
      <4>2. QED
        BY <1>1, <4>1 DEF Past
    <3>3. QED
      BY <3>1, <3>2
  <2>2. QED
    BY <2>1
<1>6. Descends(D, V, rank, step)
  <2>1. rank \in [D -> Nat]
    BY <1>1
  <2>2. step \in [D \X [D -> V] -> V]
    <3>1. ASSUME NEW x \in D, NEW f \in [D -> V] PROVE step[<<x, f>>] \in V
      <4>1. CASE x = 0
        BY <1>1, <1>3, <4>1
      <4>2. CASE x # 0
        BY <1>3, <1>4, <1>5, <4>2
      <4>3. QED
        BY <4>1, <4>2
    <3>2. QED
      BY <1>2, <3>1
  <2>3. ASSUME NEW x \in D, NEW f \in [D -> V], NEW g \in [D -> V], \A y \in D : rank[y] < rank[x] => f[y] = g[y]
        PROVE  step[<<x, f>>] = step[<<x, g>>]
    <3>1. x # 0 => f[x - 1] = g[x - 1]
      BY <1>4, <2>3
    <3>2. QED
      BY <1>3, <3>1
  <2>4. QED
    BY <2>1, <2>2, <2>3 DEF Descends
<1>7. PICK f \in [D -> V] : \A x \in D : f[x] = step[<<x, f>>]
  <2>1. V # {}
    BY <1>1
  <2>2. QED
    BY <1>6, <2>1, Recursion
<1>8. Solved(f)
  <2>1. \A n \in D : f[n] = IF n = 0 THEN texts ELSE Past(f[n - 1], Meaning(words[n]))
    BY <1>3, <1>7
  <2>2. \A n \in D : f[n] = IF n = 0 THEN texts
                            ELSE IF f[n - 1] # <<>> /\ Head(f[n - 1]) \in {<<>>, Meaning(words[n])} THEN Tail(f[n - 1])
                            ELSE f[n - 1]
    BY <2>1 DEF Past
  <2>3. QED
    BY <1>1, <2>2
<1>9. Unmatched(texts, words) = (CHOOSE g : Solved(g))[Len(words)]
  BY DEF Unmatched
<1>10. PICK g : Solved(g) /\ Unmatched(texts, words) = g[Len(words)]
  BY <1>8, <1>9
<1>11. g[0] = texts /\ g = [n \in D |-> g[n]]
  BY <1>1, <1>10
<1>12. \A n \in D : n # 0 => g[n] = Past(g[n - 1], Meaning(words[n]))
  BY <1>1, <1>10 DEF Past
<1> HIDE DEF Solved
<1>13. \A n \in D : g[n] \in V
  <2> DEFINE S == {n \in Int : g[n] \in V}
  <2>1. 0 \in S
    BY <1>1, <1>11
  <2>2. ASSUME NEW n \in 0 .. Len(words) - 1, n \in S PROVE n + 1 \in S
    <3>1. n + 1 \in D /\ n + 1 # 0 /\ (n + 1) - 1 = n
      BY <1>1
    <3>2. g[n + 1] = Past(g[n], Meaning(words[n + 1]))
      BY <1>12, <3>1
    <3>3. QED
      BY <1>5, <2>2, <3>2
  <2> HIDE DEF S
  <2>3. \A n \in 0 .. Len(words) - 1 : n \in S => n + 1 \in S
    BY <2>2
  <2>4. 0 \in Int /\ Len(words) \in Int
    OBVIOUS
  <2>5. \A n \in 0 .. Len(words) : n \in S
    BY <2>1, <2>3, <2>4, Upward
  <2>6. QED
    BY <1>1, <2>5 DEF S
<1>14. g \in [0 .. Len(words) -> Seq(T)]
  BY <1>1, <1>11, <1>13
<1>15. \A n \in 1 .. Len(words) : n \in D /\ n # 0
  BY <1>1
<1>16. QED
  BY <1>10, <1>11, <1>12, <1>14, <1>15

(* f tells of which words of the list the texts are, in their order; a text may be nothing. *)
Matches(texts, words, f) ==
    /\ f \in [1 .. Len(texts) -> 1 .. Len(words)]
    /\ \A k, m \in 1 .. Len(texts) : k < m => f[k] < f[m]
    /\ \A k \in 1 .. Len(texts) : texts[k] \in {<<>>, Meaning(words[f[k]])}

(* Unmatched then leaves none of them: to take the first word that will do is as
   good as to take the right one. *)
LEMMA AllMatched ==
  ASSUME NEW T, NEW texts \in Seq(T), NEW words, Len(words) \in Nat, NEW f, Matches(texts, words, f)
  PROVE  Unmatched(texts, words) = <<>>
<1>1. PICK g \in [0 .. Len(words) -> Seq(T)] :
            /\ g[0] = texts /\ Unmatched(texts, words) = g[Len(words)]
            /\ \A n \in 1 .. Len(words) : g[n] = Past(g[n - 1], Meaning(words[n]))
  BY UnmatchedIs
<1>2. PICK l, w : l = Len(texts) /\ l \in Nat /\ w = Len(words) /\ w \in Nat
  BY LenProperties
<1> DEFINE Rest(r, n, p) == /\ Len(r) = l - p
                            /\ \A k \in 1 .. l - p : r[k] = texts[k + p]
                            /\ \A k \in 1 .. l : f[k] <= n => k <= p
           S == {n \in Int : \E p \in 0 .. l : Rest(g[n], n, p)}
<1>3. 0 \in S
  <2>1. \A k \in 1 .. l : ~ (f[k] <= 0)
    <3>1. \A k \in 1 .. l : f[k] \in 1 .. w
      BY <1>2 DEF Matches
    <3>2. QED
      BY <3>1
  <2>2. \A k \in 1 .. l - 0 : texts[k] = texts[k + 0]
    BY <1>2
  <2>3. Rest(g[0], 0, 0)
    <3>1. g[0] = texts
      BY <1>1
    <3>2. Len(texts) = l - 0
      BY <1>2
    <3>3. \A k \in 1 .. l : f[k] <= 0 => k <= 0
      BY <2>1
    <3>4. QED
      BY <2>2, <3>1, <3>2, <3>3
  <2>4. 0 \in 0 .. l
    BY <1>2
  <2>5. QED
    BY <2>3, <2>4
<1>4. ASSUME NEW n \in 0 .. w - 1, n \in S PROVE n + 1 \in S
  <2>1. PICK p \in 0 .. l : Rest(g[n], n, p)
    BY <1>4
  <2>2. PICK r, m : r = g[n] /\ m = Meaning(words[n + 1])
    OBVIOUS
  <2>3. r \in Seq(T)
    <3>1. n \in 0 .. w
      BY <1>2
    <3>2. g[n] \in Seq(T)
      BY <1>1, <1>2, <3>1
    <3>3. QED
      BY <2>2, <3>2
  <2>4. g[n + 1] = Past(r, m)
    <3>1. n + 1 \in 1 .. Len(words) /\ (n + 1) - 1 = n
      BY <1>2
    <3>2. QED
      BY <1>1, <2>2, <3>1
  <2>5. Len(r) = l - p /\ (\A k \in 1 .. l - p : r[k] = texts[k + p]) /\ (\A k \in 1 .. l : f[k] <= n => k <= p)
    BY <2>1, <2>2
  <2>6. \A k \in 1 .. l : f[k] \in 1 .. w /\ texts[k] \in {<<>>, Meaning(words[f[k]])}
    BY <1>2 DEF Matches
  <2>7. \A k, o \in 1 .. l : k < o => f[k] < f[o]
    BY <1>2 DEF Matches
  <2>8. CASE r # <<>> /\ Head(r) \in {<<>>, m}
    <3>1. Tail(r) \in Seq(T) /\ Len(Tail(r)) = Len(r) - 1 /\ (\A k \in 1 .. Len(Tail(r)) : Tail(r)[k] = r[k + 1])
      BY <2>3, <2>8, HeadTailProperties
    <3>2. Len(r) # 0
      BY <2>3, <2>8, EmptySeq
    <3>3. p + 1 \in 0 .. l /\ Len(Tail(r)) = l - (p + 1)
      <4>1. Len(r) = l - p /\ Len(Tail(r)) = Len(r) - 1
        BY <2>5, <3>1
      <4>2. l \in Nat /\ p \in 0 .. l
        BY <1>2
      <4>3. QED
        BY <3>2, <4>1, <4>2
    <3>4. ASSUME NEW k \in 1 .. l - (p + 1) PROVE Tail(r)[k] = texts[k + (p + 1)]
      <4>1. k + 1 \in 1 .. l - p /\ (k + 1) + p = k + (p + 1)
        BY <1>2
      <4>2. QED
        BY <2>5, <3>1, <3>3, <4>1
    <3>5. ASSUME NEW k \in 1 .. l, f[k] <= n + 1 PROVE k <= p + 1
      <4>1. CASE k <= p + 1
        BY <4>1
      <4>2. CASE ~ (k <= p + 1)
        <5>1. k - 1 \in 1 .. l /\ k - 1 < k /\ ~ (k - 1 <= p)
          BY <1>2, <4>2
        <5>2. f[k - 1] < f[k] /\ f[k - 1] \in 1 .. w /\ f[k] \in 1 .. w
          BY <2>6, <2>7, <5>1
        <5>3. f[k - 1] <= n
          BY <3>5, <5>2
        <5>4. QED
          BY <2>5, <5>1, <5>3
      <4>3. QED
        BY <4>1, <4>2
    <3>6. Past(r, m) = Tail(r)
      BY <2>8 DEF Past
    <3>7. Rest(g[n + 1], n + 1, p + 1)
      BY <2>4, <3>3, <3>4, <3>5, <3>6
    <3>8. n + 1 \in Int
      OBVIOUS
    <3>9. QED
      BY <3>3, <3>7, <3>8
  <2>9. CASE ~ (r # <<>> /\ Head(r) \in {<<>>, m})
    <3>1. ASSUME NEW k \in 1 .. l, f[k] <= n + 1, ~ (k <= p) PROVE FALSE
      <4>1. ~ (f[k] <= n)
        BY <2>5, <3>1
      <4>2. f[k] = n + 1
        BY <2>6, <3>1, <4>1
      <4>3. k = p + 1
        <5>1. ASSUME k # p + 1 PROVE FALSE
          <6>1. k - 1 \in 1 .. l /\ k - 1 < k /\ ~ (k - 1 <= p)
            BY <1>2, <3>1, <5>1
          <6>2. f[k - 1] < f[k] /\ f[k - 1] \in 1 .. w /\ f[k] \in 1 .. w
            BY <2>6, <2>7, <6>1
          <6>3. f[k - 1] <= n
            BY <4>2, <6>2
          <6>4. QED
            BY <2>5, <6>1, <6>3
        <5>2. QED
          BY <5>1
      <4>4. 1 \in 1 .. l - p /\ 1 + p = k
        BY <1>2, <4>3
      <4>5. r[1] = texts[k] /\ Len(r) # 0
        BY <2>5, <4>4
      <4>6. r[1] \in {<<>>, m}
        BY <2>2, <2>6, <4>2, <4>5
      <4>7. r # <<>>
        BY <4>5, EmptySeq
      <4>8. Head(r) = r[1]
        BY <2>3
      <4>9. QED
        BY <2>9, <4>6, <4>7, <4>8
    <3>2. Past(r, m) = r
      BY <2>9 DEF Past
    <3>3. \A k \in 1 .. l : f[k] <= n + 1 => k <= p
      BY <3>1
    <3>4. Rest(g[n + 1], n + 1, p)
      BY <2>4, <2>5, <3>2, <3>3
    <3>5. n + 1 \in Int
      OBVIOUS
    <3>6. QED
      BY <3>4, <3>5
  <2>10. QED
    BY <2>8, <2>9
<1>5. w \in S
  <2> HIDE DEF S
  <2>1. \A n \in 0 .. w - 1 : n \in S => n + 1 \in S
    BY <1>4
  <2>2. 0 \in Int /\ w \in Int /\ w \in 0 .. w
    BY <1>2
  <2>3. \A n \in 0 .. w : n \in S
    BY <1>3, <2>1, <2>2, Upward
  <2>4. QED
    BY <2>2, <2>3
<1>6. PICK p \in 0 .. l : Rest(g[w], w, p)
  BY <1>5
<1>7. p = l
  <2>1. CASE l = 0
    BY <2>1
  <2>2. CASE l # 0
    <3>1. l \in 1 .. l /\ f[l] <= w
      <4>1. l \in 1 .. l
        BY <1>2, <2>2
      <4>2. f[l] \in 1 .. w
        BY <1>2, <4>1 DEF Matches
      <4>3. QED
        BY <4>1, <4>2
    <3>2. l <= p
      BY <1>6, <3>1
    <3>3. QED
      BY <1>2, <3>2
  <2>3. QED
    BY <2>1, <2>2
<1>8. Len(g[w]) = 0 /\ g[w] \in Seq(T)
  BY <1>1, <1>2, <1>6, <1>7
<1>9. QED
  BY <1>1, <1>2, <1>8, EmptySeq

-----------------------------------------------------------------------------
(* How many members of S there are up to p. *)
Number(S, p) == Cardinality(S \cap (1 .. p))

(* What is chosen is in order. *)
LEMMA ChosenUp ==
  ASSUME NEW S, NEW m \in Nat
  PROVE  \A j, k \in 1 .. Len(Chosen(S, m)) : j < k => Chosen(S, m)[j] < Chosen(S, m)[k]
<1> DEFINE Good(n) == \A j, k \in 1 .. Len(Chosen(S, n)) : j < k => Chosen(S, n)[j] < Chosen(S, n)[k]
           R == {n \in Nat : Good(n)}
<1>1. 0 \in R
  <2>1. Chosen(S, 0) = <<>> /\ Len(<<>>) = 0
    BY ChosenIs, EmptyIs
  <2>2. \A k \in 1 .. Len(Chosen(S, 0)) : FALSE
    BY <2>1
  <2>3. QED
    BY <2>2
<1>2. ASSUME NEW n \in Nat, Good(n) PROVE Good(n + 1)
  <2>1. PICK c, d : c = Chosen(S, n) /\ d = Chosen(S, n + 1)
    OBVIOUS
  <2>2. \A j, k \in 1 .. Len(c) : j < k => c[j] < c[k]
    BY <1>2, <2>1
  <2>3. c \in Seq(Int) /\ Len(c) \in Nat /\ \A k \in 1 .. Len(c) : c[k] \in 1 .. n
    BY <2>1, ChosenIs, ChosenAre, LenProperties
  <2>4. CASE n + 1 \in S
    <3>1. d = Append(c, n + 1) /\ n + 1 \in Int
      <4>1. Chosen(S, n + 1) = Append(Chosen(S, n), n + 1)
        BY <2>4, ChosenIs
      <4>2. QED
        BY <2>1, <4>1
    <3>2. Len(d) = Len(c) + 1 /\ (\A k \in 1 .. Len(c) : d[k] = c[k]) /\ d[Len(c) + 1] = n + 1
      BY <2>3, <3>1, AppendProperties
    <3>3. ASSUME NEW j \in 1 .. Len(d), NEW k \in 1 .. Len(d), j < k PROVE d[j] < d[k]
      <4>1. PICK l : l = Len(c) /\ l \in Nat /\ j \in 1 .. l + 1 /\ k \in 1 .. l + 1
        BY <2>3, <3>2
      <4>2. j \in 1 .. l
        BY <3>3, <4>1
      <4>3. d[j] = c[j] /\ c[j] \in 1 .. n
        BY <2>3, <3>2, <4>1, <4>2
      <4>4. CASE k = l + 1
        <5>1. d[k] = n + 1
          BY <3>2, <4>1, <4>4
        <5>2. QED
          BY <4>3, <5>1
      <4>5. CASE k # l + 1
        <5>1. k \in 1 .. l
          BY <4>1, <4>5
        <5>2. d[k] = c[k] /\ c[j] < c[k]
          BY <2>2, <3>2, <3>3, <4>1, <4>2, <5>1
        <5>3. QED
          BY <4>3, <5>2
      <4>6. QED
        BY <4>4, <4>5
    <3>4. QED
      BY <2>1, <3>3
  <2>5. CASE n + 1 \notin S
    <3>1. d = c
      BY <2>1, <2>5, ChosenIs
    <3>2. QED
      BY <2>1, <2>2, <3>1
  <2>6. QED
    BY <2>4, <2>5
<1> HIDE DEF Good
<1>3. ASSUME NEW n \in 0 .. m - 1, n \in R PROVE n + 1 \in R
  <2>1. n \in Nat /\ n + 1 \in Nat
    OBVIOUS
  <2>2. Good(n + 1)
    BY <1>2, <1>3, <2>1
  <2>3. QED
    BY <2>1, <2>2
<1>4. m \in R
  <2> HIDE DEF R
  <2>1. \A n \in 0 .. m - 1 : n \in R => n + 1 \in R
    BY <1>3
  <2>2. 0 \in Int /\ m \in Int /\ m \in 0 .. m
    OBVIOUS
  <2>3. \A n \in 0 .. m : n \in R
    BY <1>1, <2>1, <2>2, Upward
  <2>4. QED
    BY <2>2, <2>3
<1>5. QED
  BY <1>4 DEF Good

(* And every member is chosen, at its number. *)
LEMMA ChosenOnto ==
  ASSUME NEW S, NEW m \in Nat, NEW p \in 1 .. m, p \in S
  PROVE  Number(S, p) \in 1 .. Len(Chosen(S, m)) /\ Chosen(S, m)[Number(S, p)] = p
<1> DEFINE R == {q \in Int : Number(S, p) \in 1 .. Len(Chosen(S, q)) /\ Chosen(S, q)[Number(S, p)] = p}
<1>1. p \in Int /\ m \in Int /\ p \in Nat /\ p - 1 \in Nat /\ (p - 1) + 1 = p
  OBVIOUS
<1>2. p \in R
  <2>1. PICK c, d : c = Chosen(S, p - 1) /\ d = Chosen(S, p)
    OBVIOUS
  <2>2. c \in Seq(Int) /\ Len(c) \in Nat
    BY <1>1, <2>1, ChosenIs, LenProperties
  <2>3. Chosen(S, (p - 1) + 1) = Append(Chosen(S, p - 1), (p - 1) + 1)
    <3>1. (p - 1) + 1 \in S
      BY <1>1
    <3>2. QED
      BY <1>1, <3>1, ChosenIs
  <2>4. d = Append(c, p)
    BY <1>1, <2>1, <2>3
  <2>5. Len(d) = Len(c) + 1 /\ d[Len(c) + 1] = p
    BY <1>1, <2>2, <2>4, AppendProperties
  <2>6. Len(d) = Number(S, p)
    BY <1>1, <2>1, ChosenAre DEF Number
  <2>7. Number(S, p) \in 1 .. Len(d) /\ d[Number(S, p)] = p
    BY <2>2, <2>5, <2>6
  <2>8. QED
    BY <1>1, <2>1, <2>7
<1>3. ASSUME NEW q \in p .. m - 1, q \in R PROVE q + 1 \in R
  <2>1. PICK c, d, n : c = Chosen(S, q) /\ d = Chosen(S, q + 1) /\ n = Number(S, p)
    OBVIOUS
  <2>2. q \in Nat /\ q + 1 \in Int
    BY <1>1
  <2>3. n \in 1 .. Len(c) /\ c[n] = p
    BY <1>3, <2>1
  <2>4. c \in Seq(Int) /\ Len(c) \in Nat
    BY <2>1, <2>2, ChosenIs, LenProperties
  <2>5. CASE q + 1 \in S
    <3>1. d = Append(c, q + 1)
      BY <2>1, <2>2, <2>5, ChosenIs
    <3>2. Len(d) = Len(c) + 1 /\ \A k \in 1 .. Len(c) : d[k] = c[k]
      BY <2>2, <2>4, <3>1, AppendProperties
    <3>3. n \in 1 .. Len(d) /\ d[n] = p
      BY <2>3, <2>4, <3>2
    <3>4. QED
      BY <2>1, <2>2, <3>3
  <2>6. CASE q + 1 \notin S
    <3>1. d = c
      BY <2>1, <2>2, <2>6, ChosenIs
    <3>2. QED
      BY <2>1, <2>2, <2>3, <3>1
  <2>7. QED
    BY <2>5, <2>6
<1>4. m \in R
  <2> HIDE DEF R
  <2>1. \A q \in p .. m - 1 : q \in R => q + 1 \in R
    BY <1>3
  <2>2. \A q \in p .. m : q \in R
    BY <1>1, <1>2, <2>1, Upward
  <2>3. QED
    BY <2>2
<1>5. QED
  BY <1>4

(* A later member has a greater number. *)
LEMMA NumberUp ==
  ASSUME NEW S, NEW p \in Nat, NEW q \in Nat, p < q, q \in S
  PROVE  Number(S, p) < Number(S, q)
<1>1. PICK A, B : A = S \cap (1 .. p) /\ B = S \cap (1 .. q)
  OBVIOUS
<1>2. A \in SUBSET B /\ q \in B /\ q \notin A
  BY <1>1
<1>3. IsFiniteSet(A) /\ IsFiniteSet(B)
  BY <1>1, ChosenAre
<1>4. Cardinality(A) <= Cardinality(B) /\ Cardinality(B) # Cardinality(A)
  BY <1>2, <1>3, FS_Subset
<1>5. Cardinality(A) \in Nat /\ Cardinality(B) \in Nat
  BY <1>3, FS_CardinalityType
<1>6. QED
  BY <1>1, <1>4, <1>5 DEF Number

(* The words of the line are those that start at its word starts. *)
LEMMA WordsAre ==
  ASSUME IsLine
  PROVE  /\ LineWords \in Seq({LineWords[k] : k \in 1 .. Len(LineWords)}) /\ Len(LineWords) \in Nat
         /\ \A p \in WordStarts : p \in Nat /\ Number(WordStarts, p) \in 1 .. Len(LineWords)
                                  /\ LineWords[Number(WordStarts, p)] = WordAt(p)
<1>1. Len(line) \in Nat /\ DOMAIN line = 1 .. Len(line) /\ IsList(line)
  BY LineIs DEF IsList
<1>2. PICK s, n : s = Chosen(WordStarts, Len(line)) /\ n = Cardinality(WordStarts)
  OBVIOUS
<1>3. InOrder(WordStarts, line) = s
  BY <1>1, <1>2, InOrderIs
<1>4. WordStarts \cap (1 .. Len(line)) = WordStarts
  BY PickedWhole
<1>5. Len(s) = n /\ s \in Seq(Int)
  BY <1>1, <1>2, <1>4, ChosenAre, ChosenIs
<1>6. n \in Nat
  BY <1>5, LenProperties
<1>7. PICK w : w = [k \in 1 .. n |-> WordAt(s[k])]
  OBVIOUS
<1>8. LineWords = w
  BY <1>2, <1>3, <1>7 DEF LineWords, WordAt, WordEnd
<1>9. w = [k \in 1 .. n |-> w[k]]
  BY <1>7
<1>10. IsList(w) /\ Len(w) = n
  BY <1>6, <1>9, ListOf
<1>11. w \in Seq({w[k] : k \in 1 .. Len(w)})
  <2>1. w \in [1 .. n -> {w[k] : k \in 1 .. Len(w)}]
    BY <1>9, <1>10
  <2>2. QED
    BY <1>6, <2>1, SeqDef
<1>12. ASSUME NEW p \in WordStarts
       PROVE  p \in Nat /\ Number(WordStarts, p) \in 1 .. Len(w) /\ w[Number(WordStarts, p)] = WordAt(p)
  <2>1. p \in 1 .. Len(line)
    BY <1>4
  <2>2. Number(WordStarts, p) \in 1 .. Len(s) /\ s[Number(WordStarts, p)] = p
    BY <1>1, <1>2, <2>1, ChosenOnto
  <2>3. QED
    BY <1>5, <1>7, <1>10, <2>1, <2>2
<1>13. QED
  BY <1>6, <1>8, <1>10, <1>11, <1>12

-----------------------------------------------------------------------------
(* Texts that are those of words of the first n commands, in their order, or
   nothing: f says of which. *)
Spread(texts, n, f) ==
    /\ f \in [1 .. Len(texts) -> 1 .. Len(toks)]
    /\ \A j, k \in 1 .. Len(texts) : j < k => f[j] < f[k]
    /\ \A k \in 1 .. Len(texts) : /\ toks[f[k]].type = "word" /\ Pipes(f[k]) < n
                                  /\ texts[k] \in {<<>>, Meaning(Typed(f[k]))}

(* The texts of one command more. *)
LEMMA SpreadMore ==
  ASSUME Tokens, NEW n \in Nat, NEW T, NEW s \in Seq(T), NEW f, Spread(s, n, f),
         NEW t \in Seq(T), NEW a, a = Chosen(ArgSet(n + 1), Len(toks)), Len(t) <= Len(a),
         \A k \in 1 .. Len(t) : t[k] \in {<<>>, Meaning(Typed(a[k]))}
  PROVE  \E g : Spread(s \o t, n + 1, g)
<1>1. Len(toks) \in Nat /\ n + 1 \in Nat /\ (n + 1) - 1 = n
  BY TypeAtIs
<1>2. PICK l, m, u : l = Len(s) /\ m = Len(t) /\ u = s \o t
  OBVIOUS
<1>3. l \in Nat /\ m \in Nat /\ m <= Len(a) /\ Len(a) \in Nat
  <2>1. Len(a) \in Nat
    BY <1>1, ChosenIs, LenProperties
  <2>2. QED
    BY <1>2, <2>1, LenProperties
<1>4. Len(u) = l + m /\ \A k \in 1 .. l + m : u[k] = IF k <= l THEN s[k] ELSE t[k - l]
  BY <1>2, ConcatProperties
<1>5. /\ \A k \in 1 .. l : f[k] \in 1 .. Len(toks) /\ toks[f[k]].type = "word" /\ Pipes(f[k]) < n
                           /\ s[k] \in {<<>>, Meaning(Typed(f[k]))}
      /\ \A j, k \in 1 .. l : j < k => f[j] < f[k]
  BY <1>2 DEF Spread
<1>6. ASSUME NEW k \in 1 .. m
      PROVE  /\ a[k] \in 1 .. Len(toks) /\ toks[a[k]].type = "word" /\ Pipes(a[k]) = n
             /\ t[k] \in {<<>>, Meaning(Typed(a[k]))}
  <2>1. k \in 1 .. Len(a) /\ k \in 1 .. Len(t)
    BY <1>2, <1>3
  <2>2. a[k] \in ArgSet(n + 1) /\ a[k] \in 1 .. Len(toks)
    BY <1>1, <2>1, ChosenAre
  <2>3. toks[a[k]].type = "word" /\ Pipes(a[k]) = (n + 1) - 1
    BY <1>1, <2>2, TokenIs
  <2>4. QED
    BY <1>1, <2>1, <2>2, <2>3
<1>7. \A j, k \in 1 .. m : j < k => a[j] < a[k]
  <2>1. \A k \in 1 .. m : k \in 1 .. Len(a)
    BY <1>3
  <2>2. QED
    BY <1>1, <2>1, ChosenUp
<1>8. ASSUME NEW j \in 1 .. l, NEW k \in 1 .. m PROVE f[j] < a[k]
  <2>1. PICK x, y : x = f[j] /\ y = a[k]
    OBVIOUS
  <2>2. x \in Nat /\ y \in Nat /\ Pipes(x) < n /\ Pipes(y) = n
    BY <1>5, <1>6, <2>1
  <2>3. CASE x < y
    BY <2>1, <2>3
  <2>4. CASE y <= x
    <3>1. Pipes(y) <= Pipes(x) /\ Pipes(x) \in Nat
      BY <2>2, <2>4, PipesUp, PipesAre
    <3>2. QED
      BY <2>2, <3>1
  <2>5. QED
    BY <2>2, <2>3, <2>4
<1>9. PICK g : g = [k \in 1 .. l + m |-> IF k <= l THEN f[k] ELSE a[k - l]]
  OBVIOUS
<1>10. ASSUME NEW k \in 1 .. l + m
       PROVE  /\ k \in 1 .. l => g[k] = f[k] /\ u[k] = s[k]
              /\ k \notin 1 .. l => k - l \in 1 .. m /\ g[k] = a[k - l] /\ u[k] = t[k - l]
  BY <1>3, <1>4, <1>9
<1>11. ASSUME NEW k \in 1 .. l + m
       PROVE  /\ g[k] \in 1 .. Len(toks) /\ toks[g[k]].type = "word" /\ Pipes(g[k]) < n + 1
              /\ u[k] \in {<<>>, Meaning(Typed(g[k]))}
  <2>1. CASE k \in 1 .. l
    <3>1. g[k] = f[k] /\ u[k] = s[k]
      BY <1>10, <2>1
    <3>2. f[k] \in 1 .. Len(toks) /\ toks[f[k]].type = "word" /\ Pipes(f[k]) < n /\ s[k] \in {<<>>, Meaning(Typed(f[k]))}
      BY <1>5, <2>1
    <3>3. PICK x \in Nat : x = f[k]
      BY <1>1, <3>2
    <3>4. Pipes(x) \in Nat /\ Pipes(x) < n
      BY <3>2, <3>3, PipesAre
    <3>5. Pipes(f[k]) < n + 1
      BY <3>3, <3>4
    <3>6. QED
      BY <3>1, <3>2, <3>5
  <2>2. CASE k \notin 1 .. l
    <3>1. k - l \in 1 .. m /\ g[k] = a[k - l] /\ u[k] = t[k - l]
      BY <1>10, <2>2
    <3>2. a[k - l] \in 1 .. Len(toks) /\ toks[a[k - l]].type = "word" /\ Pipes(a[k - l]) = n /\ t[k - l] \in {<<>>, Meaning(Typed(a[k - l]))}
      BY <1>6, <3>1
    <3>3. Pipes(a[k - l]) < n + 1
      BY <3>2
    <3>4. QED
      BY <3>1, <3>2, <3>3
  <2>3. QED
    BY <2>1, <2>2
<1>12. ASSUME NEW j \in 1 .. l + m, NEW k \in 1 .. l + m, j < k PROVE g[j] < g[k]
  <2>1. CASE k \in 1 .. l
    <3>1. j \in 1 .. l
      BY <1>3, <1>12, <2>1
    <3>2. QED
      BY <1>5, <1>10, <1>12, <2>1, <3>1
  <2>2. CASE k \notin 1 .. l
    <3>1. k - l \in 1 .. m /\ g[k] = a[k - l]
      BY <1>10, <2>2
    <3>2. CASE j \in 1 .. l
      BY <1>8, <1>10, <3>1, <3>2
    <3>3. CASE j \notin 1 .. l
      <4>1. j - l \in 1 .. m /\ g[j] = a[j - l]
        BY <1>10, <3>3
      <4>2. j - l < k - l
        BY <1>3, <1>12
      <4>3. QED
        BY <1>7, <3>1, <4>1, <4>2
    <3>4. QED
      BY <3>2, <3>3
  <2>3. QED
    BY <2>1, <2>2
<1>13. g \in [1 .. Len(u) -> 1 .. Len(toks)]
  BY <1>4, <1>9, <1>11
<1>14. Spread(u, n + 1, g)
  BY <1>4, <1>11, <1>12, <1>13 DEF Spread
<1>15. QED
  BY <1>2, <1>14

(* The texts of all the commands. *)
LEMMA AllSpread ==
  ASSUME Tokens, NEW N \in Nat, NEW T, NEW A,
         \A n \in 1 .. N : /\ A[n] \in Seq(T) /\ Len(A[n]) <= Len(Chosen(ArgSet(n), Len(toks)))
                           /\ \A k \in 1 .. Len(A[n]) : A[n][k] \in {<<>>, Meaning(Typed(Chosen(ArgSet(n), Len(toks))[k]))}
  PROVE  /\ FlattenSeq([n \in 1 .. N |-> A[n]]) \in Seq(T)
         /\ \E f : Spread(FlattenSeq([n \in 1 .. N |-> A[n]]), N, f)
<1> DEFINE First(m) == [n \in 1 .. m |-> A[n]]
           Good(m)  == First(m) \in Seq(Seq(T)) /\ Len(First(m)) = m /\ \E f : Spread(FlattenSeq(First(m)), m, f)
           R        == {m \in Nat : Good(m)}
<1>1. ASSUME NEW m \in 0 .. N PROVE First(m) \in Seq(Seq(T)) /\ Len(First(m)) = m
  <2>1. PICK h : h = First(m)
    OBVIOUS
  <2>2. h = [n \in 1 .. m |-> h[n]] /\ \A n \in 1 .. m : h[n] = A[n]
    BY <2>1
  <2>3. \A n \in 1 .. m : n \in 1 .. N
    OBVIOUS
  <2>4. m \in Nat
    OBVIOUS
  <2>5. h \in [1 .. m -> Seq(T)]
    BY <2>2, <2>3
  <2>6. h \in Seq(Seq(T)) /\ Len(h) = m
    BY <2>2, <2>4, <2>5, SeqDef, ListOf
  <2>7. QED
    BY <2>1, <2>6
<1>2. 0 \in R
  <2>1. 0 \in 0 .. N
    OBVIOUS
  <2>2. First(0) \in Seq(Seq(T)) /\ Len(First(0)) = 0
    BY <1>1, <2>1
  <2>3. First(0) = <<>>
    BY <2>2, EmptySeq
  <2>4. FlattenSeq(First(0)) = <<>>
    BY <2>3, FlattenEmpty
  <2>5. PICK z, f : z = <<>> /\ f = [k \in {} |-> 0]
    OBVIOUS
  <2>6. Len(z) = 0 /\ 1 .. Len(z) = {}
    BY <2>5, EmptyIs
  <2>7. Spread(z, 0, f)
    BY <2>5, <2>6 DEF Spread
  <2>8. QED
    BY <2>2, <2>4, <2>5, <2>7
<1>3. ASSUME NEW m \in 0 .. N - 1, Good(m) PROVE Good(m + 1)
  <2>1. m \in Nat /\ m + 1 \in 1 .. N /\ m \in 0 .. N /\ m + 1 \in 0 .. N
    OBVIOUS
  <2>2. PICK g, h, s, t, a : g = First(m) /\ h = First(m + 1) /\ s = FlattenSeq(g) /\ t = A[m + 1] /\ a = Chosen(ArgSet(m + 1), Len(toks))
    OBVIOUS
  <2>3. g \in Seq(Seq(T)) /\ Len(g) = m /\ h \in Seq(Seq(T)) /\ Len(h) = m + 1
    BY <1>1, <2>1, <2>2
  <2>4. t \in Seq(T) /\ Len(t) <= Len(a) /\ \A k \in 1 .. Len(t) : t[k] \in {<<>>, Meaning(Typed(a[k]))}
    BY <2>1, <2>2
  <2>5. h = Append(g, t)
    <3>1. PICK o : o = Append(g, t)
      OBVIOUS
    <3>2. o \in Seq(Seq(T)) /\ Len(o) = m + 1 /\ (\A k \in 1 .. m : o[k] = g[k]) /\ o[m + 1] = t
      BY <2>3, <2>4, <3>1, AppendProperties
    <3>3. ASSUME NEW k \in 1 .. m + 1 PROVE h[k] = o[k]
      <4>1. h[k] = A[k]
        BY <2>2
      <4>2. CASE k = m + 1
        BY <2>2, <3>2, <4>1, <4>2
      <4>3. CASE k # m + 1
        <5>1. k \in 1 .. m
          BY <2>1, <4>3
        <5>2. g[k] = A[k]
          BY <2>2, <5>1
        <5>3. QED
          BY <3>2, <4>1, <5>1, <5>2
      <4>4. QED
        BY <4>2, <4>3
    <3>4. h = o
      <4>1. Len(h) = Len(o) /\ \A k \in 1 .. Len(h) : h[k] = o[k]
        BY <2>3, <3>2, <3>3
      <4>2. QED
        BY <2>3, <3>2, <4>1, SeqEqual
    <3>5. QED
      BY <3>1, <3>4
  <2>6. s \in Seq(T) /\ FlattenSeq(h) = s \o t
    BY <2>2, <2>3, <2>4, <2>5, FlattenType, FlattenAppend
  <2>7. PICK f : Spread(s, m, f)
    BY <1>3, <2>2
  <2>8. \E f2 : Spread(s \o t, m + 1, f2)
    BY <2>1, <2>2, <2>4, <2>6, <2>7, SpreadMore
  <2>9. \E f2 : Spread(FlattenSeq(h), m + 1, f2)
    BY <2>6, <2>8
  <2>10. QED
    BY <2>2, <2>3, <2>9
<1> HIDE DEF Good
<1>4. ASSUME NEW m \in 0 .. N - 1, m \in R PROVE m + 1 \in R
  <2>1. m + 1 \in Nat
    OBVIOUS
  <2>2. Good(m + 1)
    BY <1>3, <1>4
  <2>3. QED
    BY <2>1, <2>2
<1>5. Good(N)
  <2>1. N \in R
    <3> HIDE DEF R
    <3>1. \A m \in 0 .. N - 1 : m \in R => m + 1 \in R
      BY <1>4
    <3>2. 0 \in Int /\ N \in Int /\ N \in 0 .. N
      OBVIOUS
    <3>3. \A m \in 0 .. N : m \in R
      BY <1>2, <3>1, <3>2, Upward
    <3>4. QED
      BY <3>2, <3>3
  <2>2. QED
    BY <2>1
<1>6. FlattenSeq(First(N)) \in Seq(T) /\ \E f : Spread(FlattenSeq(First(N)), N, f)
  BY <1>5, FlattenType DEF Good
<1>7. QED
  BY <1>6

-----------------------------------------------------------------------------
(* The word of a token is one of the line's, unless it could not be had. *)
LEMMA TypedFound ==
  ASSUME IsLine, NEW src, FromLine(toks, src, Len(line)), NEW k \in 1 .. Len(toks), toks[k].type = "word"
  PROVE  /\ src[k] \in WordStarts /\ src[k] \in Nat /\ Number(WordStarts, src[k]) \in 1 .. Len(LineWords)
         /\ Typed(k) \in {<<>>, LineWords[Number(WordStarts, src[k])]}
<1>1. src[k] \in WordStarts /\ (toks[k].value = NULL \/ toks[k].value.text = WordAt(src[k]))
  BY DEF FromLine
<1>2. toks[k].value = NULL => Typed(k) = <<>>
  BY DEF Typed, NULL
<1>3. src[k] \in Nat /\ Number(WordStarts, src[k]) \in 1 .. Len(LineWords) /\ LineWords[Number(WordStarts, src[k])] = WordAt(src[k])
  BY <1>1, WordsAre
<1>4. Typed(k) = <<>> \/ Typed(k) = WordAt(src[k])
  BY <1>1, <1>2 DEF Typed
<1>5. QED
  BY <1>1, <1>3, <1>4

(* No word has no meaning. *)
LEMMA NothingMeant == Meaning(<<>>) = <<>> /\ Literal(<<>>) = <<>>
<1>1. PICK z : z = <<>>
  OBVIOUS
<1>2. z \in Seq(STRING)
  BY <1>1, EmptyClosed
<1>3. Meaning(z) = z /\ Literal(z) = z
  BY <1>1, <1>2, MeaningIs
<1>4. QED
  BY <1>1, <1>3

(* Texts of the tokens, in their order, are texts of the line's words, in theirs. *)
LEMMA SpreadMatches ==
  ASSUME IsLine, Sourced(toks, Len(line)), NEW s, NEW n, NEW f, Spread(s, n, f)
  PROVE  \E g : Matches(s, LineWords, g)
<1>1. PICK src : FromLine(toks, src, Len(line))
  BY DEF Sourced
<1>2. PICK D, g : D = 1 .. Len(s) /\ g = [k \in D |-> Number(WordStarts, src[f[k]])]
  OBVIOUS
<1>3. ASSUME NEW k \in D
      PROVE  /\ f[k] \in 1 .. Len(toks) /\ src[f[k]] \in WordStarts /\ src[f[k]] \in Nat /\ g[k] \in 1 .. Len(LineWords)
             /\ s[k] \in {<<>>, Meaning(LineWords[g[k]])}
  <2>1. f[k] \in 1 .. Len(toks) /\ toks[f[k]].type = "word" /\ s[k] \in {<<>>, Meaning(Typed(f[k]))}
    BY <1>2 DEF Spread
  <2>2. PICK o : o = f[k]
    OBVIOUS
  <2>3. /\ src[o] \in WordStarts /\ src[o] \in Nat /\ Number(WordStarts, src[o]) \in 1 .. Len(LineWords)
        /\ Typed(o) \in {<<>>, LineWords[Number(WordStarts, src[o])]}
    BY <1>1, <2>1, <2>2, TypedFound
  <2>4. g[k] = Number(WordStarts, src[o])
    BY <1>2, <2>2
  <2>5. s[k] \in {<<>>, Meaning(LineWords[g[k]])}
    BY <2>1, <2>2, <2>3, <2>4, NothingMeant
  <2>6. QED
    BY <2>1, <2>2, <2>3, <2>4, <2>5
<1>4. ASSUME NEW j \in D, NEW k \in D, j < k PROVE g[j] < g[k]
  <2>1. f[j] < f[k]
    BY <1>2, <1>4 DEF Spread
  <2>2. src[f[j]] < src[f[k]]
    BY <1>1, <1>3, <2>1 DEF FromLine
  <2>3. PICK p, q : p = src[f[j]] /\ q = src[f[k]]
    OBVIOUS
  <2>4. p \in Nat /\ q \in Nat /\ p < q /\ q \in WordStarts
    BY <1>3, <2>2, <2>3
  <2>5. Number(WordStarts, p) < Number(WordStarts, q)
    BY <2>4, NumberUp
  <2>6. QED
    BY <1>2, <2>3, <2>5
<1>5. g \in [D -> 1 .. Len(LineWords)]
  BY <1>2, <1>3
<1>6. Matches(s, LineWords, g)
  BY <1>2, <1>3, <1>4, <1>5 DEF Matches
<1>7. QED
  BY <1>6

(* There are no more pipes among the tokens than in the line. *)
LEMMA PipesBound ==
  ASSUME IsLine, Tokens, Sourced(toks, Len(line))
  PROVE  count <= 1 + Cardinality(Bars)
<1>1. PICK src : FromLine(toks, src, Len(line))
  BY DEF Sourced
<1>2. Len(toks) \in Nat /\ Len(line) \in Nat /\ DOMAIN line = 1 .. Len(line)
  BY TypeAtIs, LineIs
<1>3. PICK P, h : P = PipeSet(Len(toks)) /\ h = [k \in P |-> src[k]]
  OBVIOUS
<1>4. \A k \in P : k \in 1 .. Len(toks) /\ k \in Int /\ toks[k].type = "pipe"
  BY <1>3 DEF PipeSet
<1>5. \A k \in P : src[k] \in Bars /\ src[k] \in Int
  <2>1. \A k \in 1 .. Len(toks) : src[k] \in 1 .. Len(line)
    BY <1>1 DEF FromLine
  <2>2. \A k \in P : src[k] \in Bars
    BY <1>1, <1>4 DEF FromLine
  <2>3. QED
    BY <1>4, <2>1, <2>2
<1>6. ASSUME NEW j \in P, NEW k \in P, h[j] = h[k] PROVE j = k
  <2>1. src[j] = src[k] /\ src[j] \in Int
    BY <1>3, <1>5, <1>6
  <2>2. j < k => src[j] < src[k]
    BY <1>1, <1>4 DEF FromLine
  <2>3. k < j => src[k] < src[j]
    BY <1>1, <1>4 DEF FromLine
  <2>4. ~ (j < k) /\ ~ (k < j)
    BY <2>1, <2>2, <2>3
  <2>5. j \in Int /\ k \in Int
    BY <1>4
  <2>6. QED
    BY <2>4, <2>5
<1>7. h \in [P -> Bars]
  BY <1>3, <1>5
<1>8. h \in Injection(P, Bars)
  BY <1>6, <1>7 DEF Injection, IsInjective
<1>9. IsFiniteSet(Bars)
  <2>1. Bars \in SUBSET (1 .. Len(line)) /\ IsFiniteSet(1 .. Len(line))
    BY <1>2, FS_Interval DEF Bars
  <2>2. QED
    BY <2>1, FS_Subset
<1>10. Cardinality(P) <= Cardinality(Bars)
  BY <1>8, <1>9, FS_Injection
<1>11. PICK x, y : x = Cardinality(P) /\ y = Cardinality(Bars)
  OBVIOUS
<1>12. x \in Nat /\ y \in Nat /\ x <= y
  <2>1. x \in Nat
    BY <1>2, <1>3, <1>11, PipesAre DEF Pipes
  <2>2. y \in Nat
    BY <1>9, <1>11, FS_CardinalityType
  <2>3. QED
    BY <1>10, <1>11, <2>1, <2>2
<1>13. count = x + 1
  BY <1>3, <1>11, CountPipes DEF Pipes
<1>14. x + 1 <= 1 + y
  BY <1>12
<1>15. QED
  BY <1>11, <1>13, <1>14

(* What a target comes to is what a word of the line comes to. *)
LEMMA WordedFound ==
  ASSUME IsLine, Tokens, Grammatical, Sourced(toks, Len(line)), NEW r \in 1 .. Len(toks), toks[r].type \in RedirTypes
  PROVE  Worded(r) \in {<<>>} \cup {Meaning(w) : w \in ToSet(LineWords)} \cup {Literal(w) : w \in ToSet(LineWords)}
<1>1. PICK src : FromLine(toks, src, Len(line))
  BY DEF Sourced
<1>2. TypeAt(r + 1) = "word"
  BY TypeAtIs DEF Grammatical
<1>3. r + 1 \in 1 .. Len(toks) /\ toks[r + 1].type = "word"
  BY <1>2, TypeAtIs
<1>4. PICK k, n : k = r + 1 /\ n = Number(WordStarts, src[k])
  OBVIOUS
<1>5. n \in 1 .. Len(LineWords) /\ Typed(k) \in {<<>>, LineWords[n]}
  BY <1>1, <1>3, <1>4, TypedFound
<1>6. LineWords[n] \in ToSet(LineWords)
  <2>1. IsList(LineWords)
    BY WordsAre DEF IsList
  <2>2. ToSet(LineWords) = {LineWords[m] : m \in 1 .. Len(LineWords)}
    BY <2>1, ListIs
  <2>3. QED
    BY <1>5, <2>2
<1>7. Worded(r) \in {Meaning(Typed(k)), Literal(Typed(k))}
  BY <1>4 DEF Worded
<1>8. CASE Typed(k) = <<>>
  BY <1>7, <1>8, NothingMeant
<1>9. CASE Typed(k) = LineWords[n]
  BY <1>6, <1>7, <1>9
<1>10. QED
  BY <1>5, <1>8, <1>9

(* Where memory ran out and the line is executed all the same, nothing is
   invented and nothing changes places, for every line, every environment and
   whichever allocations failed: the arguments of all the commands are, in
   their order, words of the line with their meanings, and so is every target
   (lexer.c:94, parser_cmd.c:25,65). *)
THEOREM OutOfMemoryIsOrderly == Spec => []OutOfMemory
<1>1. Owned /\ Parsed /\ Lexed /\ Said => OutOfMemory
  <2> SUFFICES ASSUME Owned, Parsed, Lexed, Said PROVE OutOfMemory
    OBVIOUS
  <2>1. phase = "crashed" => failed
    BY DEF Owned, Control
  <2>2. ASSUME phase = "exec"
        PROVE  LET words == LineWords
                   argvs == FlattenSeq([n \in DOMAIN pl |-> [k \in DOMAIN pl[n].argv |-> pl[n].argv[k].text]])
               IN /\ Unmatched(argvs, words) = <<>>
                  /\ Len(pl) <= 1 + Cardinality({p \in DOMAIN line : Separator(p) /\ line[p] = "|"})
                  /\ \A c \in ToSet(pl) : \A r \in ToSet(c.redirects) :
                        r.target.text \in {<<>>} \cup {Meaning(w) : w \in ToSet(words)} \cup {Literal(w) : w \in ToSet(words)}
    <3>1. Tokens /\ IsLine /\ Grammatical /\ Sourced(toks, Len(line)) /\ Len(toks) \in Nat
      BY <2>2, TypeAtIs DEF Owned, Parsed, Lexed
    <3>2. PICK N : N = Len(pl) /\ N \in Nat /\ DOMAIN pl = 1 .. N /\ ToSet(pl) = {pl[n] : n \in 1 .. N}
      BY ListIs DEF Owned, Cmds
    <3>3. ASSUME NEW n \in 1 .. N PROVE IsCmd(pl[n]) /\ IsMeant(pl[n], n, failed)
      BY <2>2, <3>2 DEF Owned, Cmds, Said
    <3>4. PICK A : A = [n \in 1 .. N |-> [k \in DOMAIN pl[n].argv |-> pl[n].argv[k].text]]
      OBVIOUS
    <3>5. PICK T : T = UNION {{A[n][k] : k \in 1 .. Len(A[n])} : n \in 1 .. N}
      OBVIOUS
    <3>6. ASSUME NEW n \in 1 .. N
          PROVE  /\ A[n] \in Seq(T) /\ Len(A[n]) <= Len(Chosen(ArgSet(n), Len(toks)))
                 /\ \A k \in 1 .. Len(A[n]) : A[n][k] \in {<<>>, Meaning(Typed(Chosen(ArgSet(n), Len(toks))[k]))}
      <4>1. PICK v, a, x : v = pl[n].argv /\ a = Chosen(ArgSet(n), Len(toks)) /\ x = A[n]
        OBVIOUS
      <4>2. IsList(v) /\ MeantArgs(v, a, failed)
        BY <3>3, <4>1 DEF IsCmd, IsMeant
      <4>3. PICK l : l = Len(v) /\ l \in Nat /\ DOMAIN v = 1 .. l
        BY <4>2, ListIs
      <4>4. x = [k \in 1 .. l |-> v[k].text]
        BY <3>4, <4>1, <4>3
      <4>5. x = [k \in 1 .. l |-> x[k]] /\ \A k \in 1 .. l : x[k] = v[k].text
        BY <4>4
      <4>6. Len(x) = l
        BY <4>3, <4>5, ListOf
      <4>7. \A k \in 1 .. l : x[k] \in T
        BY <3>5, <4>1, <4>6
      <4>8. x \in Seq(T)
        <5>1. x \in [1 .. l -> T]
          BY <4>5, <4>7
        <5>2. QED
          BY <4>3, <5>1, SeqDef
      <4>9. l <= Len(a) /\ \A k \in 1 .. l : v[k].text \in {<<>>, Meaning(Typed(a[k]))}
        BY <4>2, <4>3 DEF MeantArgs, IsCopy
      <4>10. QED
        BY <4>1, <4>5, <4>6, <4>8, <4>9
    <3>7. PICK s : s = FlattenSeq([n \in 1 .. N |-> A[n]])
      OBVIOUS
    <3>8. s = FlattenSeq([n \in DOMAIN pl |-> [k \in DOMAIN pl[n].argv |-> pl[n].argv[k].text]])
      <4>1. [n \in 1 .. N |-> A[n]] = [n \in DOMAIN pl |-> [k \in DOMAIN pl[n].argv |-> pl[n].argv[k].text]]
        BY <3>2, <3>4
      <4>2. QED
        BY <3>7, <4>1
    <3>9. Unmatched(s, LineWords) = <<>>
      <4>1. s \in Seq(T) /\ \E f : Spread(s, N, f)
        BY <3>1, <3>2, <3>6, <3>7, AllSpread
      <4>2. \E g : Matches(s, LineWords, g)
        BY <3>1, <4>1, SpreadMatches
      <4>3. Len(LineWords) \in Nat
        BY <3>1, WordsAre
      <4>4. QED
        BY <4>1, <4>2, <4>3, AllMatched
    <3>10. Len(pl) <= 1 + Cardinality({p \in DOMAIN line : Separator(p) /\ line[p] = "|"})
      <4>1. Len(pl) = count
        BY <2>2 DEF Said
      <4>2. QED
        BY <3>1, <4>1, PipesBound DEF Bars
    <3>11. ASSUME NEW c \in ToSet(pl), NEW r \in ToSet(c.redirects)
           PROVE  r.target.text \in {<<>>} \cup {Meaning(w) : w \in ToSet(LineWords)} \cup {Literal(w) : w \in ToSet(LineWords)}
      <4>1. PICK n \in 1 .. N : c = pl[n]
        BY <3>2
      <4>2. PICK o, b : o = c.redirects /\ b = Chosen(RedirSet(n), Len(toks))
        OBVIOUS
      <4>3. IsList(o) /\ MeantRedirs(o, b, failed)
        BY <3>3, <4>1, <4>2 DEF IsCmd, IsMeant
      <4>4. PICK k \in 1 .. Len(o) : r = o[k]
        BY <4>2, <4>3, ListIs
      <4>5. Len(o) = Len(b) /\ k \in 1 .. Len(b) /\ IsCopy(r.target, Worded(b[k]), failed)
        BY <4>3, <4>4 DEF MeantRedirs
      <4>6. r.target.text \in {<<>>, Worded(b[k])}
        BY <4>5 DEF IsCopy
      <4>7. b[k] \in RedirSet(n) /\ b[k] \in 1 .. Len(toks)
        BY <3>1, <4>2, <4>5, ChosenAre
      <4>8. toks[b[k]].type \in RedirTypes
        BY <4>7 DEF RedirSet
      <4>9. PICK j : j = b[k]
        OBVIOUS
      <4>10. Worded(j) \in {<<>>} \cup {Meaning(w) : w \in ToSet(LineWords)} \cup {Literal(w) : w \in ToSet(LineWords)}
        BY <3>1, <4>7, <4>8, <4>9, WordedFound
      <4>11. QED
        BY <4>6, <4>9, <4>10
    <3>12. QED
      BY <3>8, <3>9, <3>10, <3>11
  <2>3. QED
    BY <2>1, <2>2 DEF OutOfMemory
<1>2. QED
  BY <1>1, OwnedInductive, LexedInductive, SaidInductive, PTL
=============================================================================
