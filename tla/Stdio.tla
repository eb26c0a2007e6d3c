------------------------------- MODULE Stdio -------------------------------
(***************************************************************************)
(* What a parent builtin prints and how exit ends the shell, on top of     *)
(* Descriptors.  export (builtin/export_unset.c) and exit (builtin/exit.c) *)
(* print with printf into stdout's buffer, which on a terminal goes out    *)
(* with each line and otherwise when readline, which writes its prompt to  *)
(* the same stream, flushes it, or exit does; the descriptor behind it may *)
(* be another one by then.                                                 *)
(***************************************************************************)
EXTENDS Descriptors

CONSTANTS
    ExitArgs,  \* the words that exit may be given, as sequences of characters
    LongMax    \* LONG_MAX

ASSUME StdioAssumption == ExitArgs \subseteq Seq(STRING) /\ LongMax \in Nat

VARIABLES
    terminal,  \* whether stdout is a terminal when the first prompt is written
    meant,     \* history: where the line, read as it is, sends its output, and the shell's own stdout
    buffer,    \* the texts in stdout's buffer, each as what was meant when it was printed
    landed,    \* history: the texts last written, and where they went
    ended      \* how the process ended

io == <<terminal, meant, buffer, landed, ended>>

Texts   == [line : Objects, shell : Objects]
Running == [args |-> <<>>, last |-> 0, code |-> -1]

StdioTypeOK ==
    /\ TypeOK
    /\ terminal \in BOOLEAN /\ meant \in Texts
    /\ buffer \in Seq(Texts) /\ landed \in Seq(Texts \X Objects)
    /\ ended = Running \/ (ended.args \in Seq(ExitArgs) /\ {ended.last, ended.code} \subseteq 0 .. 255)

StdioInit ==
    /\ Init
    /\ terminal \in BOOLEAN /\ meant = [line |-> "tty", shell |-> "tty"]
    /\ buffer = <<>> /\ landed = <<>> /\ ended = Running

-----------------------------------------------------------------------------
(* libft's ft_atol: the number, and whether it is one. *)
Digit == [c \in {"0", "1", "2", "3", "4", "5", "6", "7", "8", "9"} |->
            CASE c = "0" -> 0 [] c = "1" -> 1 [] c = "2" -> 2 [] c = "3" -> 3 [] c = "4" -> 4
              [] c = "5" -> 5 [] c = "6" -> 6 [] c = "7" -> 7 [] c = "8" -> 8 [] c = "9" -> 9]

At(s, p) == IF p \in DOMAIN s THEN s[p] ELSE ""
Space    == " "

(* Mutant: the last digit is left out of the test for overflow. *)
Overflows_last(n, digit) == n > LongMax \div 10

Overflows(n, digit) == n > (LongMax - digit) \div 10

(* The loop over the digits that begin at first; at is the position and the
   number so far. *)
read_digits(s, first, sign) ==
    LET Loop[at \in Nat \X Nat] ==
            LET p == at[1] n == at[2] IN
            IF At(s, p) \notin DOMAIN Digit THEN [ok |-> p > first /\ p = Len(s) + 1, n |-> sign * n]
            ELSE IF Overflows(n, Digit[At(s, p)]) THEN [ok |-> FALSE, n |-> sign * n]
            ELSE Loop[<<p + 1, 10 * n + Digit[At(s, p)]>>]
    IN Loop[<<first, 0>>]

ft_atol(s) ==
    LET start == Min({p \in 1 .. Len(s) + 1 : At(s, p) # Space})
        first == IF At(s, start) \in {"-", "+"} THEN start + 1 ELSE start
    IN read_digits(s, first, IF At(s, start) = "-" THEN -1 ELSE 1)

-----------------------------------------------------------------------------
Written(texts) == [k \in DOMAIN texts |-> <<texts[k], table[1]>>]

(* printf of a line *)
Printed(text) ==
    IF terminal THEN landed' = Written(<<text>>) /\ UNCHANGED buffer
                ELSE buffer' = Append(buffer, text) /\ UNCHANGED landed

(* readline writes its prompt and flushes; the user types a line. *)
Prompt(p, rs) ==
    /\ ended = Running
    /\ Line(p, rs)
    /\ meant' = [line |-> IF \E k \in DOMAIN rs : rs[k] = "out" THEN "file" ELSE table[1], shell |-> table[1]]
    /\ landed' = Written(buffer) /\ buffer' = <<>>
    /\ UNCHANGED <<terminal, ended>>

(* cd, unset, export with arguments; export without. *)
Quiet        == UNCHANGED io
print_export == Printed(meant) /\ UNCHANGED <<terminal, meant, ended>>

(* exit(3) flushes stdout. *)
Exits(args, last, code) ==
    /\ ended' = [args |-> args, last |-> last, code |-> code % 256]
    /\ landed' = Written(Append(buffer, meant)) /\ buffer' = <<>>

(* bi_exit, which in an interactive shell prints "exit" first; sh->exit_code
   may be anything. *)
bi_exit(args, last) ==
    /\ UNCHANGED <<terminal, meant>>
    /\ \/ args = <<>> /\ Exits(args, last, last)
       \/ args # <<>> /\ ~ ft_atol(args[1]).ok /\ Exits(args, last, 2)
       \/ Len(args) = 1 /\ ft_atol(args[1]).ok /\ Exits(args, last, ft_atol(args[1]).n)
       \/ Len(args) > 1 /\ ft_atol(args[1]).ok /\ Printed(meant) /\ UNCHANGED ended

(* Mutant: the builtin runs although a redirection failed. *)
RunBuiltin_anyway ==
    /\ path = "parent" /\ (Redirected \/ RedirectFails)
    /\ \/ Quiet \/ print_export
       \/ \E a \in ExitArgs, last \in {0, 130} : \E args \in {<<>>, <<a>>, <<a, a>>} : bi_exit(args, last)

(* exec_single_parent between its redirections and its restore. *)
RunBuiltin ==
    /\ path = "parent" /\ Redirected
    /\ \/ Quiet \/ print_export
       \/ \E a \in ExitArgs, last \in {0, 130} : \E args \in {<<>>, <<a>>, <<a, a>>} : bi_exit(args, last)

Ended == ended # Running /\ UNCHANGED <<vars, io>>

StdioNext ==
    \/ \E p \in Paths, rs \in UNION {[1 .. n -> Redirections] : n \in 0 .. MaxRedirects} : Prompt(p, rs)
    \/ /\ ended = Running
       /\ \/ RunBuiltin
          \/ /\ Save \/ Redirect \/ HeredocInterrupted \/ RedirectFails \/ Restore \/ (path = "bare" /\ Redirected)
             /\ UNCHANGED io
    \/ Ended

StdioSpec == StdioInit /\ [][StdioNext]_<<vars, io>>

-----------------------------------------------------------------------------
(* On a terminal, and whenever the shell ends with it, a builtin's output goes
   to the file or stdout that its line names (exec.c:64-68). *)
OutputLands ==
    \A k \in DOMAIN landed :
        terminal \/ ended # Running => landed[k][2] = landed[k][1].line

(* A builtin's output goes to the file that its line redirects it to
   (en.minishell.md:225), whatever the shell's stdout is.  The code prints into
   stdio's buffer and restores stdout before anything flushes it. *)
OutputFollowsRedirection ==
    \A k \in DOMAIN landed : landed[k][2] = landed[k][1].line

(* exit's status, for every argument: that of the last command without one, 2
   for what is no numeral or does not fit, even with more arguments behind it,
   and the number modulo 256 otherwise, in which case it is the only argument
   (exit.c:24-35, ft_atol.c:39). *)
Blanks(s)  == CHOOSE n \in 0 .. Len(s) : (\A p \in 1 .. n : s[p] = Space) /\ At(s, n + 1) # Space
Sign(s)    == At(s, Blanks(s) + 1)
Body(s)    == SubSeq(s, Blanks(s) + (IF Sign(s) \in {"+", "-"} THEN 2 ELSE 1), Len(s))
Numeral(b) == b # <<>> /\ \A p \in DOMAIN b : b[p] \in DOMAIN Digit
Value(b)   == LET V[k \in 0 .. Len(b)] == IF k = 0 THEN 0 ELSE 10 * V[k - 1] + Digit[b[k]]
              IN V[Len(b)]
Fits(b)    == Numeral(b) /\ Value(b) <= LongMax
ExitStatus ==
    ended # Running =>
        IF ended.args = <<>> THEN ended.code = ended.last
        ELSE LET s == ended.args[1] IN
             IF Fits(Body(s))
             THEN /\ Len(ended.args) = 1
                  /\ (ended.code - IF Sign(s) = "-" THEN - Value(Body(s)) ELSE Value(Body(s))) % 256 = 0
             ELSE ended.code = 2
=============================================================================
