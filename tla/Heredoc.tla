------------------------------ MODULE Heredoc ------------------------------
(***************************************************************************)
(* apply_redirects and heredoc_fd (exec/redirect.c, exec/heredoc.c) on a   *)
(* command whose redirections are here-documents, in the process that      *)
(* applies them: the shell for cd, export, unset, exit and a line without  *)
(* a command, the forked child for all others.                             *)
(*                                                                         *)
(* A document is read from the process's stdin line by line, written into  *)
(* a pipe of its own whose read end then becomes stdin, so the process is  *)
(* reader and writer of a bounded pipe, and the next document is read from *)
(* the pipe of the one before.  A line is expanded on the way unless the   *)
(* delimiter was quoted.  The user types, presses Ctrl-D, and Ctrl-C at any *)
(* moment; malloc may fail.                                                *)
(***************************************************************************)
EXTENDS Integers, Sequences

CONSTANTS
    Lines,      \* what a line may be
    Expand,     \* what expand_word makes of each
    Delims,     \* the delimiters of the command's here-documents, in order
    Roles,      \* which process applies them: subset of {"shell", "child"}
    Cap,        \* lines a pipe holds
    MaxLines,   \* lines the user types at most
    MaxInts,    \* Ctrl-C pressed at most
    Faults      \* whether malloc may fail

ASSUME HeredocAssumption ==
    /\ Lines \subseteq STRING \ {""} /\ Expand \in [Lines -> Lines]
    /\ Delims \in Seq(Lines) /\ Delims # <<>>
    /\ Roles \subseteq {"shell", "child"}
    /\ Cap \in Nat /\ MaxLines \in Nat /\ MaxInts \in Nat /\ Faults \in BOOLEAN

SIGINT == 2
Docs   == DOMAIN Delims

VARIABLES
    role,      \* which process this is
    quoted,    \* for each document, whether its delimiter was quoted
    before,    \* sh->exit_code of the line before, which stays until the return
    pc,        \* where it is
    d,         \* the document being read
    stdin,     \* 0: the stdin it started with; j: the pipe of document j
    pipe,      \* the lines in each document's pipe
    text,      \* the line in hand, or NoText at end of file
    g_sig,
    int, quit, \* the dispositions of SIGINT and SIGQUIT
    ret,       \* what apply_redirects returns
    typed,     \* history: the lines taken from the first stdin
    docs,      \* history: what was written for each document
    ints,      \* Ctrl-C pressed so far
    hit,       \* history: where
    failed     \* history: a malloc has failed

NoText == ""
sigs   == <<g_sig, int, quit>>
keys   == <<ints, hit>>
given  == <<role, quoted, before>>
vars   == <<given, pc, d, stdin, pipe, text, sigs, ret, typed, docs, keys, failed>>

Pcs == {"pipe", "reset", "install", "read", "look", "write", "restore", "reinstall", "test", "dup",
        "done", "killed"}
Working == Pcs \ {"done", "killed"}

TypeOK ==
    /\ role \in Roles /\ before \in {0, 130} /\ quoted \in [Docs -> BOOLEAN]
    /\ pc \in Pcs
    /\ d \in Docs
    /\ stdin \in {0} \cup Docs
    /\ pipe \in [Docs -> Seq(Lines)] /\ \A j \in Docs : Len(pipe[j]) <= Cap
    /\ text \in Lines \cup {NoText}
    /\ g_sig \in {0, SIGINT}
    /\ int \in {"exec", "default", "record", "interactive"}
    /\ quit \in {"ignore", "default"}
    /\ ret \in {0, 1, 130}
    /\ typed \in Seq(Lines) /\ Len(typed) <= MaxLines
    /\ docs \in [Docs -> Seq(Lines)]
    /\ ints \in 0 .. MaxInts
    /\ hit \subseteq Pcs /\ failed \in BOOLEAN

(* exec_pipeline has called sig_set_exec_parent, or child_exec
   sig_set_exec_child. *)
Init ==
    /\ role \in Roles /\ before \in {0, 130} /\ quoted \in [Docs -> BOOLEAN]
    /\ pc = "pipe" /\ d = 1 /\ stdin = 0 /\ g_sig = 0 /\ ret = 0 /\ ints = 0
    /\ pipe = [j \in Docs |-> <<>>] /\ docs = [j \in Docs |-> <<>>]
    /\ text = NoText /\ typed = <<>> /\ hit = {} /\ failed = FALSE
    /\ int = IF role = "shell" THEN "exec" ELSE "default"
    /\ quit = IF role = "shell" THEN "ignore" ELSE "default"

-----------------------------------------------------------------------------
Goto(p)   == pc' = p
Return(r) == ret' = r /\ pc' = "done"

(* pipe(p); without one, apply_redirects takes the 130 of the line before for
   an interrupt, or reports an error. *)
Pipe ==
    /\ pc = "pipe"
    /\ (Goto("reset") /\ UNCHANGED ret) \/ Return(IF before = 130 THEN 130 ELSE 1)
    /\ UNCHANGED <<given, d, stdin, pipe, text, sigs, typed, docs, keys, failed>>

(* sig_set_heredoc: g_sig = 0, SIGQUIT ignored; then the SIGINT handler. *)
Reset ==
    /\ pc = "reset"
    /\ g_sig' = 0 /\ quit' = "ignore"
    /\ Goto("install")
    /\ UNCHANGED <<given, d, stdin, pipe, text, int, ret, typed, docs, keys, failed>>

Install ==
    /\ pc = "install"
    /\ int' = "record"
    /\ Goto("read")
    /\ UNCHANGED <<given, d, stdin, pipe, text, g_sig, quit, ret, typed, docs, keys, failed>>

(* Mutant: the line in hand is kept when the input ends without newline. *)
EndOfFile_stale ==
    /\ pc = "read"
    /\ Goto("look")
    /\ stdin # 0 => pipe[stdin] = <<>>
    /\ UNCHANGED <<given, d, stdin, pipe, text, sigs, ret, typed, docs, keys, failed>>

(* read_heredoc_line at end of file: the user types Ctrl-D, or the pipe is
   empty, its write end having been closed by heredoc_fd. *)
EndOfFile ==
    /\ pc = "read"
    /\ Goto("look")
    /\ stdin # 0 => pipe[stdin] = <<>>
    /\ text' = NoText
    /\ UNCHANGED <<given, d, stdin, pipe, sigs, ret, typed, docs, keys, failed>>

(* read_heredoc_line with a line.  Ctrl-C does not end the read: signal()
   has it restarted. *)
TypeLine(l) ==
    /\ pc = "read" /\ stdin = 0
    /\ Len(typed) < MaxLines
    /\ typed' = Append(typed, l)
    /\ text' = l
    /\ Goto("look")
    /\ UNCHANGED <<given, d, stdin, pipe, sigs, ret, docs, keys, failed>>

PipedLine ==
    /\ pc = "read" /\ stdin # 0
    /\ pipe[stdin] # <<>>
    /\ text' = Head(pipe[stdin])
    /\ pipe' = [pipe EXCEPT ![stdin] = Tail(@)]
    /\ Goto("look")
    /\ UNCHANGED <<given, d, stdin, sigs, ret, typed, docs, keys, failed>>

(* read_heredoc_line without memory for the next character: what it has read of
   the line is lost, and for heredoc_fd the input has ended. *)
LoseLine ==
    /\ pc = "read" /\ Faults
    /\ text' = NoText /\ failed' = TRUE
    /\ Goto("look")
    /\ UNCHANGED <<given, d, stdin, pipe, sigs, ret, typed, docs, keys>>

(* Mutant: the delimiter is looked for after the line is written. *)
Look_late ==
    /\ pc = "look"
    /\ Goto(IF text = NoText \/ g_sig = SIGINT THEN "restore" ELSE "write")
    /\ UNCHANGED <<given, d, stdin, pipe, text, sigs, ret, typed, docs, keys, failed>>

(* No line, an interrupt, or the delimiter ends the document. *)
Look ==
    /\ pc = "look"
    /\ Goto(IF text = NoText \/ g_sig = SIGINT \/ text = Delims[d] THEN "restore" ELSE "write")
    /\ UNCHANGED <<given, d, stdin, pipe, text, sigs, ret, typed, docs, keys, failed>>

Put(line) ==
    /\ pipe' = [pipe EXCEPT ![d] = Append(@, line)]
    /\ docs' = [docs EXCEPT ![d] = Append(@, line)]

(* heredoc_write: blocks while the pipe is full; a line that expand_word finds
   no memory for is written as it is. *)
Write ==
    /\ pc = "write"
    /\ Len(pipe[d]) < Cap
    /\ \/ Put(IF quoted[d] THEN text ELSE Expand[text]) /\ UNCHANGED failed
       \/ ~ quoted[d] /\ Faults /\ Put(text) /\ failed' = TRUE
    /\ Goto("read")
    /\ UNCHANGED <<given, d, stdin, text, sigs, ret, typed, keys>>

(* sig_set_interactive, before g_sig is looked at. *)
Restore ==
    /\ pc = "restore"
    /\ g_sig' = 0 /\ quit' = "ignore"
    /\ Goto("reinstall")
    /\ UNCHANGED <<given, d, stdin, pipe, text, int, ret, typed, docs, keys, failed>>

Reinstall ==
    /\ pc = "reinstall"
    /\ int' = "interactive"
    /\ Goto("test")
    /\ UNCHANGED <<given, d, stdin, pipe, text, g_sig, quit, ret, typed, docs, keys, failed>>

(* Mutant: the document is used although it was interrupted. *)
Test_used ==
    /\ pc = "test"
    /\ Goto("dup") /\ UNCHANGED ret
    /\ UNCHANGED <<given, d, stdin, pipe, text, sigs, typed, docs, keys, failed>>

(* The last look at g_sig. *)
Test ==
    /\ pc = "test"
    /\ \/ g_sig = SIGINT /\ Return(130)
       \/ g_sig # SIGINT /\ Goto("dup") /\ UNCHANGED ret
    /\ UNCHANGED <<given, d, stdin, pipe, text, sigs, typed, docs, keys, failed>>

(* Mutant: one redirection too many. *)
NextRedirect_one_more ==
    /\ pc = "dup"
    /\ stdin' = d
    /\ IF d \in Docs THEN d' = d + 1 /\ Goto("pipe") /\ UNCHANGED ret
                     ELSE Return(0) /\ UNCHANGED d
    /\ UNCHANGED <<given, pipe, text, sigs, typed, docs, keys, failed>>

(* dup2 and close: the pipe becomes stdin, and the next redirection is
   applied. *)
NextRedirect ==
    /\ pc = "dup"
    /\ stdin' = d
    /\ IF d + 1 \in Docs THEN d' = d + 1 /\ Goto("pipe") /\ UNCHANGED ret
                         ELSE Return(0) /\ UNCHANGED d
    /\ UNCHANGED <<given, pipe, text, sigs, typed, docs, keys, failed>>

Step ==
    \/ Pipe \/ Reset \/ Install \/ PipedLine \/ Look \/ Write \/ Restore \/ Reinstall
    \/ Test \/ NextRedirect

CtrlC ==
    /\ ints < MaxInts
    /\ pc \in Working
    /\ ints' = ints + 1
    /\ hit' = hit \cup {pc}
    /\ IF int = "default" THEN Goto("killed") /\ UNCHANGED g_sig ELSE g_sig' = SIGINT /\ UNCHANGED pc
    /\ UNCHANGED <<given, d, stdin, pipe, text, int, quit, ret, typed, docs, failed>>

(* The pipe is full, and the process that would read it is the one that writes. *)
Clogged == pc = "write" /\ Len(pipe[d]) = Cap

Over == (pc \in {"done", "killed"} \/ Clogged) /\ UNCHANGED vars

Next == Step \/ LoseLine \/ EndOfFile \/ (\E l \in Lines : TypeLine(l)) \/ CtrlC \/ Over

(* The process runs whenever it can, and a user who has started a document
   goes on typing or ends it with Ctrl-D. *)
Spec     == Init /\ [][Next]_vars
FairSpec == Spec /\ WF_vars(Step) /\ WF_vars(EndOfFile \/ \E l \in Lines : TypeLine(l))

-----------------------------------------------------------------------------
(* The reference: the lines before the first one that is the delimiter. *)
UpTo(s, l) ==
    LET n == CHOOSE n \in 0 .. Len(s) :
                /\ \A m \in 1 .. n : s[m] # l
                /\ n < Len(s) => s[n + 1] = l
    IN SubSeq(s, 1, n)

(* The input that the code gives a document: the stdin the process started
   with, and then the pipe of the document before, which is stdin by then. *)
Source(j) == IF j = 1 THEN typed ELSE docs[j - 1]

(* Unless Ctrl-C came, each document is exactly what its input has before the
   delimiter, every line expanded unless the delimiter was quoted: no line is
   lost, doubled or out of order, the delimiter is not in it, is looked for
   before the line is expanded, and that of one document does not end another.
   Out of memory a document may be too short (heredoc.c:37) and its lines not
   expanded (heredoc.c:51), but nothing is invented.  That the input of a later
   document should be another one is EveryDocumentIsTyped. *)
DocumentsAreWhatWasRead ==
    pc = "done" /\ ret = 0 /\ hit = {} =>
        \A j \in Docs :
            LET read    == UpTo(Source(j), Delims[j])
                Line(n) == IF quoted[j] THEN read[n] ELSE Expand[read[n]]
            IN /\ Len(docs[j]) <= Len(read)
               /\ \A n \in DOMAIN docs[j] : docs[j][n] = Line(n) \/ (failed /\ docs[j][n] = read[n])
               /\ ~ failed => Len(docs[j]) = Len(read)

(* A command is cancelled with 130 only by a Ctrl-C that the last test of g_sig
   could see, or by a $? of 130 when there is no pipe; and apply_redirects
   returns 0 with an interrupt pending only when it came after that test. *)
InterruptsAccountedFor ==
    pc = "done" => /\ ret = 130 => before = 130 \/ hit \cap {"reinstall", "test"} # {}
                   /\ ret = 0 /\ g_sig = SIGINT => "dup" \in hit

(* Of every document the delimiter or the end is found, and apply_redirects
   ends, unless one has more lines than its pipe holds: << is meant to read its
   input until the delimiter is seen (en.minishell.md:228), but heredoc_fd then
   waits for itself (heredoc.c:57) and reads no further. *)
Ends == <>(\/ pc \in {"done", "killed"}
           \/ Clogged /\ Len(UpTo(Source(d), Delims[d])) > Cap)

-----------------------------------------------------------------------------
(* What the documents and tests say of this code, and it does not do. *)

(* Ctrl-C while a here-document is being read cancels the command with 130
   (test-signals.py:147, resources.md:131). *)
InterruptCancels == pc = "done" /\ hit \cap {"read", "look", "write"} # {} => ret = 130

(* What is typed for document j: the lines after the delimiters of those before. *)
After(s, l) == SubSeq(s, Len(UpTo(s, l)) + 2, Len(s))
TypedFor    == [j \in Docs |->
                  LET From[k \in Docs] == IF k = 1 THEN typed ELSE After(From[k - 1], Delims[k - 1])
                  IN UpTo(From[j], Delims[j])]

(* Each << is given a delimiter, then reads the input until a line containing
   it is seen (en.minishell.md:228): of "cat << A << B" too, when the user has
   ended the first document with A, both are what is typed for them. *)
EveryDocumentIsTyped ==
    pc = "done" /\ ret = 0 /\ hit = {} /\ ~ failed /\ TypedFor[1] # typed =>
        \A j \in Docs :
            docs[j] = [n \in DOMAIN TypedFor[j] |->
                          IF quoted[j] THEN TypedFor[j][n] ELSE Expand[TypedFor[j][n]]]
=============================================================================
