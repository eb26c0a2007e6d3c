------------------------------- MODULE Shell -------------------------------
(***************************************************************************)
(* The shell's main loop (core/loop.c), exec_pipeline (exec/exec.c) and    *)
(* the SIGINT handlers (signal/): which handler is installed when, what    *)
(* g_sig holds, and what $? becomes, with Ctrl-C at every moment.  A       *)
(* forked pipeline is taken as the Job it implements (module Pipeline), the*)
(* one with failing calls and commands left behind included.  Its commands *)
(* go on until the next job begins, where the model forgets those still    *)
(* there: only the wait for a missing command could take one of them, and a*)
(* Job with one missing may return any value.  Redirections are reduced to *)
(* whether one fails and whether one is a here-document, since that is     *)
(* where they meet signals.                                                *)
(*                                                                         *)
(* The calls sig_set_* reset g_sig and install a handler in that order; a  *)
(* signal can come in between, so they are two steps here.  SIGQUIT is     *)
(* ignored by all of them and left out.                                    *)
(***************************************************************************)
EXTENDS Integers, FiniteSets

CONSTANTS
    Count,     \* commands of a forked pipeline
    Value,     \* what they may end with
    MaxInts    \* how many times the user may press Ctrl-C

SIGINT == 2

ASSUME ShellAssumption ==
    /\ Count \in Nat \ {0}
    /\ Value \subseteq 0 .. 255
    /\ {1, 128 + SIGINT} \subseteq Value
    /\ MaxInts \in Nat

(* The lines a user may type, by what they make the shell do.  "parent" is
   cd, export or unset, "bare" is a line of redirections only, "nomem" a line
   whose memory cannot be had; doc says whether a redirection that the shell
   itself applies is a here-document. *)
Kinds == {"eof", "empty", "syntax", "nomem", "parent", "exit", "bare", "forked"}
Line  == [kind : Kinds, doc : BOOLEAN]
NoLine == [kind |-> "empty", doc |-> FALSE]
Lines == {l \in Line : l.doc => l.kind \in {"parent", "exit", "bare"}}

VARIABLES
    pc,         \* where the shell is
    g_sig,      \* the global the handlers write
    handler,    \* the SIGINT handler
    exit_code,  \* sh->exit_code, the user's $?
    ret,        \* what the command line will give
    line,       \* the line being handled
    echoctl,    \* the terminal's ECHOCTL flag: "orig" or "off"
    ints,       \* Ctrl-C pressed so far
    hit,        \* history: where Ctrl-C came since g_sig was reset for this line
    own,        \* history: what the command itself gave
    state, value, result    \* the Job

jobVars == <<state, value, result>>
rest    == <<line, echoctl, ints, hit, jobVars>>     \* what most steps leave alone
vars    == <<pc, g_sig, handler, exit_code, ret, own, rest>>

J == INSTANCE Job

LoopPcs    == {"top", "install", "readline", "check", "clear", "dispatch", "compute"}
HeredocPcs == {"hd_reset", "hd_install", "hd_read", "hd_restore", "hd_reinstall", "hd_test"}
ExecPcs    == {"redirect", "builtin", "job", "job_reset", "job_install", "verdict"} \cup HeredocPcs
Pcs        == LoopPcs \cup ExecPcs \cup
              {"exec", "restore", "reinstall", "quit", "exited", "killed"}

TypeOK ==
    /\ pc \in Pcs
    /\ g_sig \in {0, SIGINT}
    /\ handler \in {"default", "interactive", "record", "exec"}
    /\ exit_code \in 0 .. 255
    /\ ret \in 0 .. 255
    /\ line \in Lines
    /\ echoctl \in {"orig", "off"}
    /\ ints \in 0 .. MaxInts
    /\ hit \subseteq Pcs
    /\ own \in 0 .. 255
    /\ J!TypeOK

(* main has called init_shell, in a terminal: ECHOCTL is off, no handler is
   installed yet. *)
Init ==
    /\ pc = "top"
    /\ g_sig = 0
    /\ handler = "default"
    /\ exit_code = 0
    /\ ret = 0
    /\ line = NoLine
    /\ echoctl = "off"
    /\ ints = 0
    /\ hit = {}
    /\ own = 0
    /\ J!Init

-----------------------------------------------------------------------------
Goto(p) == pc' = p

(* The two halves of sig_set_interactive and of sig_set_heredoc. *)
Reset(from, to) ==
    /\ pc = from
    /\ g_sig' = 0
    /\ Goto(to)
    /\ UNCHANGED <<handler, exit_code, ret, own, rest>>

Install(from, h, to) ==
    /\ pc = from
    /\ handler' = h
    /\ Goto(to)
    /\ UNCHANGED <<g_sig, exit_code, ret, own, rest>>

-----------------------------------------------------------------------------
(* ms_loop. *)

(* The variables of the line before are dead, the history of this model among
   them. *)
ForgetLine ==
    /\ hit' = {}
    /\ ret' = 0
    /\ own' = 0
    /\ line' = NoLine

(* Mutant: sig_set_interactive leaves g_sig alone. *)
LoopTop_noreset ==
    /\ pc = "top"
    /\ Goto("install")
    /\ ForgetLine
    /\ UNCHANGED <<g_sig, handler, exit_code, ints, echoctl, jobVars>>

LoopTop ==
    /\ pc = "top"
    /\ g_sig' = 0
    /\ ForgetLine
    /\ Goto("install")
    /\ UNCHANGED <<handler, exit_code, ints, echoctl, jobVars>>

LoopInstall == Install("install", "interactive", "readline")

(* readline returns a line, or NULL on Ctrl-D. *)
Readline(l) ==
    /\ pc = "readline"
    /\ line' = l
    /\ echoctl' = "off"
    /\ Goto("check")
    /\ UNCHANGED <<g_sig, handler, exit_code, ret, own, ints, hit, jobVars>>

CheckInterrupt ==
    /\ pc = "check"
    /\ \/ g_sig = SIGINT /\ exit_code' = 130 /\ Goto("clear")
       \/ g_sig # SIGINT /\ UNCHANGED exit_code /\ Goto("dispatch")
    /\ UNCHANGED <<g_sig, handler, ret, own, rest>>

ClearInterrupt == Reset("clear", "dispatch")


Dispatch ==
    /\ pc = "dispatch"
    /\ Goto(CASE line.kind = "eof" -> "quit" [] line.kind = "empty" -> "top" [] OTHER -> "compute")
    /\ UNCHANGED <<g_sig, handler, exit_code, ret, own, rest>>

(* handle_line up to exec_pipeline: lexer, parser and expansion.  A syntax
   error sets exit_code to 2; memory that cannot be had leaves it alone. *)
Compute ==
    /\ pc = "compute"
    /\ \/ line.kind = "syntax" /\ exit_code' = 2 /\ Goto("top")
       \/ line.kind = "nomem" /\ UNCHANGED exit_code /\ Goto("top")
       \/ line.kind \notin {"syntax", "nomem"} /\ UNCHANGED exit_code /\ Goto("exec")
    /\ UNCHANGED <<g_sig, handler, ret, own, rest>>

(* print_exit, then restore_terminal in main. *)
Quit ==
    /\ pc = "quit"
    /\ echoctl' = "orig"
    /\ Goto("exited")
    /\ UNCHANGED <<g_sig, handler, exit_code, ret, own, line, ints, hit, jobVars>>

-----------------------------------------------------------------------------
(* exec_pipeline. *)

(* The command gives r, unless Ctrl-C has the last word. *)
Gives(r) ==
    /\ ret' = r
    /\ own' = r
    /\ Goto("verdict")

(* A new Job is about to begin. *)
NewJob ==
    /\ state' = [n \in J!Cmds |-> "new"]
    /\ value' = [n \in J!Cmds |-> J!NoResult]
    /\ result' = J!NoResult

(* sig_set_exec_parent does not reset g_sig. *)
ExecStart ==
    /\ pc = "exec"
    /\ handler' = "exec"
    /\ \/ line.kind = "forked" /\ Goto("job") /\ NewJob
       \/ /\ line.kind # "forked"
          /\ Goto(IF line.doc THEN "hd_reset" ELSE "redirect")
          /\ UNCHANGED jobVars
    /\ UNCHANGED <<g_sig, exit_code, ret, own, line, echoctl, ints, hit>>

(* apply_redirects succeeded: run the builtin, if there is one. *)
Redirected ==
    IF line.kind = "bare" THEN Gives(0) ELSE Goto("builtin") /\ UNCHANGED <<ret, own>>

(* The redirections that are not here-documents. *)
Redirect ==
    /\ pc = "redirect"
    /\ Redirected \/ Gives(1)
    /\ UNCHANGED <<g_sig, handler, exit_code, rest>>

(* run_builtin in the shell.  exit ends the process unless it has too many
   arguments; it does not pass through main, nor restore_terminal. *)
Builtin ==
    /\ pc = "builtin"
    /\ \/ line.kind = "parent" /\ \E r \in {0, 1} : Gives(r)
       \/ line.kind = "exit" /\ Gives(1)
       \/ line.kind = "exit" /\ Goto("exited") /\ UNCHANGED <<ret, own>>
    /\ UNCHANGED <<g_sig, handler, exit_code, rest>>

(* heredoc_fd in the shell.  read() is restarted after the handler, so the
   loop looks at g_sig only once a whole line, or end of file, has come; what
   the lines hold is in module Heredoc. *)
HeredocReset   == Reset("hd_reset", "hd_install")
HeredocInstall == Install("hd_install", "record", "hd_read")

HeredocEnd ==
    /\ pc = "hd_read"
    /\ Goto("hd_restore")
    /\ UNCHANGED <<g_sig, handler, exit_code, ret, own, rest>>

HeredocRestore   == Reset("hd_restore", "hd_reinstall")
HeredocReinstall == Install("hd_reinstall", "interactive", "hd_test")

HeredocTest ==
    /\ pc = "hd_test"
    /\ \/ g_sig = SIGINT /\ exit_code' = 130 /\ Gives(130)
       \/ g_sig # SIGINT /\ UNCHANGED exit_code /\ Redirected
    /\ UNCHANGED <<g_sig, handler, rest>>

(* exec_forked_pipeline up to its return: what the Job does by itself. *)
JobStep ==
    /\ pc = "job"
    /\ (\E n \in J!Cmds : J!Launch(n) \/ J!Collect(n)) \/ J!Return
    /\ UNCHANGED <<pc, g_sig, handler, exit_code, ret, own, ints, hit, line, echoctl>>

(* The commands end in their own time, the ones left behind included. *)
CommandsEnd ==
    /\ \E S \in SUBSET J!Cmds, v \in Value : J!End(S, v)
    /\ UNCHANGED <<pc, g_sig, handler, exit_code, ret, own, ints, hit, line, echoctl>>

(* Mutants: exec_forked_pipeline does not wait; wait_all may leave the last
   command. *)
JobReturned_early ==
    /\ pc = "job"
    /\ ret' = result
    /\ own' = result
    /\ Goto("job_reset")
    /\ UNCHANGED <<g_sig, handler, exit_code, rest>>
JobReturned_forgets ==
    /\ pc = "job"
    /\ J!Launched /\ \A n \in J!Cmds : n < Count - 1 => state[n] = "collected"
    /\ ret' = 0
    /\ own' = 0
    /\ Goto("job_reset")
    /\ UNCHANGED <<g_sig, handler, exit_code, rest>>

(* When a command was not launched, for want of memory or of a pipe,
   exec_forked_pipeline returns without its sig_set_interactive. *)
JobReturned ==
    /\ pc = "job"
    /\ result # J!NoResult
    /\ ret' = result
    /\ own' = result
    /\ Goto(IF J!Launched THEN "job_reset" ELSE "verdict")
    /\ UNCHANGED <<g_sig, handler, exit_code, rest>>

(* Mutant: exec_forked_pipeline does not reset g_sig. *)
JobReset_keep == Install("job_reset", "interactive", "job_install")

JobReset   == Reset("job_reset", "job_install")
JobInstall == Install("job_install", "interactive", "verdict")

(* Mutant: the interrupt is not looked at. *)
Verdict_none ==
    /\ pc = "verdict"
    /\ Goto("restore")
    /\ UNCHANGED <<g_sig, handler, exit_code, ret, own, rest>>

Verdict ==
    /\ pc = "verdict"
    /\ ret' = IF g_sig = SIGINT THEN 130 ELSE ret
    /\ Goto("restore")
    /\ UNCHANGED <<g_sig, handler, exit_code, own, rest>>

Restore == Reset("restore", "reinstall")

(* The handler for the prompt, and handle_line's  exit_code = ret. *)
Reinstall ==
    /\ pc = "reinstall"
    /\ handler' = "interactive"
    /\ exit_code' = ret
    /\ Goto("top")
    /\ UNCHANGED <<g_sig, ret, own, rest>>

Step ==
    \/ LoopTop \/ LoopInstall \/ CheckInterrupt \/ ClearInterrupt \/ Dispatch
    \/ Compute \/ Quit \/ ExecStart \/ Redirect \/ Builtin
    \/ HeredocReset \/ HeredocInstall \/ HeredocRestore \/ HeredocReinstall \/ HeredocTest
    \/ JobStep \/ JobReturned \/ JobReset \/ JobInstall
    \/ Verdict \/ Restore \/ Reinstall

-----------------------------------------------------------------------------
(* Ctrl-C.  Every handler records the signal; the interactive one also makes
   readline redraw its line.  Some of the commands may die of it. *)
CtrlC ==
    /\ ints < MaxInts
    /\ pc \notin {"exited", "killed"}
    /\ ints' = ints + 1
    /\ IF handler = "default"
       THEN Goto("killed") /\ UNCHANGED <<g_sig, hit>>
       ELSE /\ g_sig' = SIGINT
            /\ hit' = hit \cup {pc}
            /\ UNCHANGED pc
    /\ \/ UNCHANGED jobVars
       \/ \E S \in SUBSET J!Cmds : J!End(S, 128 + SIGINT)
    /\ UNCHANGED <<handler, exit_code, ret, own, line, echoctl>>

Stopped == pc \in {"exited", "killed"} /\ UNCHANGED vars

Next ==
    \/ Step
    \/ \E l \in Lines : Readline(l)
    \/ HeredocEnd
    \/ CommandsEnd
    \/ CtrlC
    \/ Stopped

(* The kernel runs the shell.  Nothing is expected of the user, nor of the
   commands. *)
Spec     == Init /\ [][Next]_vars
FairSpec == Spec /\ WF_vars(Step)

-----------------------------------------------------------------------------
(* When readline has returned, $? becomes 130 if Ctrl-C was pressed since the
   loop reset g_sig for this line, and stays as it is otherwise: an interrupt
   of the line before is not counted again (core/loop.c:68-74). *)
PromptInterrupt ==
    [][pc = "check" /\ pc' # "check" => exit_code' = IF hit = {} THEN exit_code ELSE 130]_vars

(* The status of a line that the shell executes itself is the command's own,
   or 130 if Ctrl-C came after the test of g_sig at the prompt and before the
   one in exec_pipeline: no earlier line's interrupt is taken for this one's,
   and none of this one's is lost (exec/exec.c:80-92). *)
ParentStatus ==
    pc = "restore" /\ line.kind \in {"parent", "exit", "bare"} /\ ~ line.doc =>
        ret = IF hit \cap {"dispatch", "compute", "exec", "redirect", "builtin", "verdict"} = {}
              THEN own ELSE 130

(* Where an interrupt counts for a forked line: after exec_forked_pipeline's
   reset of g_sig, or, when it returned without one, from the prompt's test. *)
Counted ==
    IF J!Launched THEN {"job_install", "verdict"}
                  ELSE {"dispatch", "compute", "exec", "job", "verdict"}

(* The status of a forked pipeline is its Job's: the interrupt its children
   saw is not reported a second time, unless Ctrl-C comes again between
   exec_forked_pipeline's reset of g_sig and exec_pipeline's test.  When there
   was no memory or no pipe there is no such reset, and an interrupt of the
   line is not lost. *)
ForkedStatus ==
    pc = "restore" /\ line.kind = "forked" => ret = IF hit \cap Counted = {} THEN own ELSE 130

(* Nothing the user typed earlier is still running, or uncollected, when the
   shell is at its prompt, unless a pipe was wanting, and then the job gave 1,
   or a fork failed. *)
NothingRunsAtThePrompt ==
    pc \in LoopPcs => \/ \A n \in J!Cmds : state[n] \in {"new", "collected"}
                      \/ ~ J!Launched /\ result = 1
                      \/ ~ J!Whole


=============================================================================
