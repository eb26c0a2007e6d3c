---------------------------- MODULE Descriptors ----------------------------
(***************************************************************************)
(* The shell's own descriptor table over a sequence of command lines:      *)
(* exec_single_parent and the path without a command of exec_pipeline      *)
(* (exec/exec.c), apply_redirects (exec/redirect.c) and the descriptors of *)
(* heredoc_fd (exec/heredoc.c).  The table is finite, so dup, open and     *)
(* pipe fail when it is full.                                              *)
(***************************************************************************)
EXTENDS Integers, Sequences, FiniteSetsExt

CONSTANTS
    Limit,         \* how many descriptors a process may have
    MaxRedirects   \* how many redirections a line has at most

ASSUME DescriptorsAssumption == Limit \in Nat /\ Limit > 2 /\ MaxRedirects \in Nat

Fds  == 0 .. Limit - 1
None == -1                                \* what a failing call returns

(* A redirection by what it does to the table: open a file for stdin or
   stdout, fail to, or read a here-document. *)
Redirections == {"in", "out", "missing", "heredoc"}
Objects      == {"closed", "tty", "file", "pipe", "inherited"}
Paths        == {"parent", "bare"}   \* a parent builtin; no command at all

VARIABLES
    table,      \* what each descriptor refers to
    pc,         \* where exec_pipeline is
    path,       \* which of its paths was taken
    redirects,  \* the redirections still to apply
    in_save, out_save,
    before      \* history: the table when the line was begun

saves == <<in_save, out_save>>
vars  == <<table, pc, path, redirects, saves, before>>

TypeOK ==
    /\ table \in [Fds -> Objects]
    /\ pc \in {"prompt", "save", "redirect", "restore"}
    /\ path \in Paths
    /\ redirects \in Seq(Redirections)
    /\ in_save \in Fds \cup {None} /\ out_save \in Fds \cup {None}
    /\ before \in [Fds -> Objects]

(* The shell may have inherited descriptors from the program that started it. *)
Init ==
    /\ \E n \in 0 .. Limit - 3 :
          table = [f \in Fds |-> CASE f < 3 -> "tty" [] f \in 3 .. n + 2 -> "inherited" [] OTHER -> "closed"]
    /\ pc = "prompt" /\ path = "parent" /\ redirects = <<>>
    /\ in_save = None /\ out_save = None
    /\ before = table

-----------------------------------------------------------------------------
(* The system calls: the lowest free descriptor, or None. *)
Free(t)  == {f \in Fds : t[f] = "closed"}
Lowest(t) == IF Free(t) = {} THEN None ELSE Min(Free(t))

Put(t, f, o)   == IF f = None THEN t ELSE [t EXCEPT ![f] = o]
Close(t, f)    == Put(t, f, "closed")
Dup2(t, f, to) == IF f = None THEN t ELSE [t EXCEPT ![to] = t[f]]

(* A line typed at the prompt. *)
Line(p, rs) ==
    /\ pc = "prompt"
    /\ path' = p
    /\ redirects' = rs
    /\ before' = table
    /\ pc' = IF p = "parent" THEN "save" ELSE "redirect"
    /\ UNCHANGED <<table, saves>>

(* in_save = dup(0), out_save = dup(1) *)
Save ==
    /\ pc = "save"
    /\ in_save' = Lowest(table)
    /\ LET t == Put(table, in_save', table[0]) IN
          /\ out_save' = Lowest(t)
          /\ table' = Put(t, out_save', table[1])
    /\ pc' = "redirect"
    /\ UNCHANGED <<path, redirects, before>>

(* Mutant: a line without a command ends the shell. *)
Applied_exit == pc' = IF path = "parent" THEN "restore" ELSE "exited"

(* After the last redirection, or the first that fails: a parent builtin
   goes on to run_builtin, which leaves the table alone, and to the restore. *)
Applied == pc' = IF path = "parent" THEN "restore" ELSE "prompt"

(* open, dup2, close *)
Open(kind, to) ==
    /\ Head(redirects) = kind
    /\ LET fd == Lowest(table) IN
          /\ fd # None
          /\ table' = Close(Dup2(Put(table, fd, "file"), fd, to), fd)

(* heredoc_fd: pipe, and when the document is read close(p[1]); the caller's
   dup2 and close of p[0], or after a Ctrl-C heredoc_fd's own close of it. *)
Heredoc(interrupted) ==
    /\ Head(redirects) = "heredoc"
    /\ LET p0   == Lowest(table)
           t    == Put(table, p0, "pipe")
           p1   == Lowest(t)
           read == Close(Put(t, p1, "pipe"), p1)
       IN /\ p1 # None
          /\ table' = Close(IF interrupted THEN read ELSE Dup2(read, p0, 0), p0)

Redirect ==
    /\ pc = "redirect" /\ redirects # <<>>
    /\ Open("in", 0) \/ Open("out", 1) \/ Heredoc(FALSE)
    /\ redirects' = Tail(redirects)
    /\ UNCHANGED <<pc, path, saves, before>>

(* Mutant: heredoc_fd returns -1 and leaves the pipe open. *)
HeredocInterrupted_open ==
    /\ pc = "redirect" /\ redirects # <<>> /\ Head(redirects) = "heredoc"
    /\ Cardinality(Free(table)) > 1
    /\ table' = Put(table, Lowest(table), "pipe")
    /\ Applied
    /\ UNCHANGED <<path, redirects, saves, before>>

(* A Ctrl-C while the document was read: heredoc_fd returns -1, and
   apply_redirects stops. *)
HeredocInterrupted ==
    /\ pc = "redirect" /\ redirects # <<>>
    /\ Heredoc(TRUE)
    /\ Applied
    /\ UNCHANGED <<path, redirects, saves, before>>

(* A redirection that fails before it has opened anything. *)
RedirectFails ==
    /\ pc = "redirect" /\ redirects # <<>>
    /\ \/ Head(redirects) = "missing"
       \/ Free(table) = {}
       \/ Head(redirects) = "heredoc" /\ Cardinality(Free(table)) < 2
    /\ Applied
    /\ UNCHANGED <<table, path, redirects, saves, before>>

Redirected ==
    /\ pc = "redirect" /\ redirects = <<>>
    /\ Applied
    /\ UNCHANGED <<table, path, redirects, saves, before>>

(* Mutant: the saved stdin and stdout are put back in the wrong places. *)
Restore_swapped ==
    /\ pc = "restore"
    /\ table' = Close(Close(Dup2(Dup2(table, in_save, 1), out_save, 0), in_save), out_save)
    /\ pc' = "prompt"
    /\ UNCHANGED <<path, redirects, saves, before>>

(* dup2 twice, close twice; with None they do nothing. *)
Restore ==
    /\ pc = "restore"
    /\ table' = Close(Close(Dup2(Dup2(table, in_save, 0), out_save, 1), in_save), out_save)
    /\ pc' = "prompt"
    /\ UNCHANGED <<path, redirects, saves, before>>

Next ==
    \/ \E p \in Paths, rs \in UNION {[1 .. n -> Redirections] : n \in 0 .. MaxRedirects} : Line(p, rs)
    \/ Save \/ Redirect \/ HeredocInterrupted \/ RedirectFails \/ Redirected \/ Restore

Spec == Init /\ [][Next]_vars

-----------------------------------------------------------------------------
(* Back at the prompt the descriptors that are open are those that were open
   when the line was typed, whichever of its calls failed and whichever of its
   here-documents was interrupted: none leaks, and stdin and stdout are never
   lost. *)
NoDescriptorLeaks == pc = "prompt" => Free(table) = Free(before)

(* A parent builtin leaves stdin and stdout as they were, also when there is
   no descriptor left to save them in: then none is left to redirect them. *)
ParentRestoresStdio == pc = "prompt" /\ path = "parent" => table = before

(* The shell keeps its stdin and stdout from line to line: whoever calls
   apply_redirects in the shell has saved them (resources.md:132). *)
ShellKeepsItsStdio == pc = "prompt" => table[0] = "tty" /\ table[1] = "tty"
=============================================================================
