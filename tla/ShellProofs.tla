---------------------------- MODULE ShellProofs ----------------------------
(***************************************************************************)
(* What $? becomes, and what may be left running at the prompt, for        *)
(* pipelines of every length and however often Ctrl-C is pressed.  The     *)
(* invariant says of each stretch of the loop what a pending g_sig means   *)
(* there: which of the places where Ctrl-C came since the last reset.      *)
(***************************************************************************)
EXTENDS Shell, TLAPS

(* Where the shell is when it reads a line, executes one itself, finishes one
   that it forked, and fails to fork one. *)
Prompting == {"install", "readline", "check"}
Itself    == {"dispatch", "compute", "exec", "redirect", "builtin", "verdict"}
Finishing == {"job_install", "verdict"}
Forking   == {"dispatch", "compute", "exec", "job", "verdict"}

HandlerInstalled == pc \notin {"top", "install", "killed"} => handler # "default"

LineKinds ==
    /\ pc \in {"job", "job_reset", "job_install"} => line.kind = "forked"
    /\ pc \in {"redirect", "builtin"} \cup HeredocPcs => line.kind # "forked"
    /\ pc \in HeredocPcs => line.doc
    /\ pc \in {"job_reset", "job_install"} => J!Launched

PendingAtPrompt == /\ pc \in Prompting => (g_sig = SIGINT <=> hit # {})
                   /\ pc \in Prompting \cup {"clear"} => hit \subseteq Prompting \cup {"clear"}
PendingInShell  == pc \in Itself /\ line.kind # "forked" /\ ~ line.doc =>
                      (g_sig = SIGINT <=> hit \cap Itself # {})
PendingInJob    == /\ pc \in Forking \ {"verdict"} /\ line.kind = "forked" =>
                         (g_sig = SIGINT <=> hit \cap Forking # {})
                   /\ pc = "verdict" /\ line.kind = "forked" /\ ~ J!Launched =>
                         (g_sig = SIGINT <=> hit \cap Forking # {})
PendingAfterJob == /\ pc \in Finishing /\ line.kind = "forked" /\ J!Launched =>
                         (g_sig = SIGINT <=> hit \cap Finishing # {})
                   /\ pc \notin Finishing \cup {"restore", "reinstall", "top", "killed"} =>
                         hit \cap Finishing = {}
OwnStatus       == pc \in Finishing \cup {"job_reset"} => ret = own

(* A Job that is over has left nothing, or what failed is known. *)
Quiet ==
    \/ \A n \in J!Cmds : state[n] \in {"new", "collected"}
    \/ ~ J!Launched /\ result = 1
    \/ ~ J!Whole
JobOver == pc # "job" \/ result # J!NoResult => Quiet

IInv ==
    /\ TypeOK /\ HandlerInstalled /\ LineKinds
    /\ PendingAtPrompt /\ PendingInShell /\ PendingInJob /\ PendingAfterJob /\ OwnStatus
    /\ JobOver
    /\ ParentStatus /\ ForkedStatus

USE DEF LoopPcs, HeredocPcs, ExecPcs, Pcs, Prompting, Itself, Finishing, Forking, SIGINT

-----------------------------------------------------------------------------
LEMMA ShellInit == Init => IInv
<1> SUFFICES ASSUME Init PROVE IInv
  OBVIOUS
<1>1. TypeOK
  BY ShellAssumption DEF Init, TypeOK, J!Init, J!TypeOK, NoLine, Lines, Line, Kinds
<1>2. QED
  BY <1>1 DEF Init, IInv, HandlerInstalled, LineKinds, PendingAtPrompt, PendingInShell, PendingInJob,
     PendingAfterJob, OwnStatus, JobOver, Quiet, ParentStatus, ForkedStatus, J!Init

(* What is said of the Job, when nothing happens to it, and when commands end. *)
LEMMA JobUnchanged ==
  ASSUME UNCHANGED jobVars
  PROVE  (J!TypeOK' <=> J!TypeOK) /\ (J!Launched' <=> J!Launched) /\ (Quiet' <=> Quiet)
  BY DEF jobVars, J!TypeOK, J!Launched, J!Whole, Quiet

LEMMA JobEnd ==
  ASSUME J!TypeOK, NEW S \in SUBSET J!Cmds, NEW v \in Value, J!End(S, v)
  PROVE  J!TypeOK' /\ (J!Launched' <=> J!Launched) /\ (Quiet => Quiet') /\ result' = result
<1>1. \A n \in J!Cmds : IF n \in S THEN state[n] = "live" /\ state'[n] = "ended" ELSE state'[n] = state[n]
  BY DEF J!End
<1>2. J!TypeOK'
  BY ShellAssumption DEF J!TypeOK, J!End
<1>3. (J!Launched' <=> J!Launched) /\ (J!Whole' <=> J!Whole)
  BY <1>1 DEF J!Launched, J!Whole
<1>4. result' = result
  BY DEF J!End
<1>5. Quiet => Quiet'
  BY <1>1, <1>3, <1>4 DEF Quiet
<1>6. QED
  BY <1>2, <1>3, <1>4, <1>5

(* What a step that leaves rest alone leaves alone. *)
LEMMA RestUnchanged ==
  ASSUME TypeOK, UNCHANGED rest
  PROVE  /\ line' = line /\ line' \in Lines
         /\ echoctl' \in {"orig", "off"}
         /\ ints' \in 0 .. MaxInts
         /\ hit' = hit /\ hit' \subseteq Pcs
         /\ state' = state /\ value' = value /\ result' = result
         /\ J!TypeOK' /\ (J!Launched' <=> J!Launched) /\ (Quiet' <=> Quiet)
<1>1. UNCHANGED <<line, echoctl, ints, hit, state, value, result>>
  BY DEF rest, jobVars
<1>2. J!TypeOK' /\ (J!Launched' <=> J!Launched) /\ (Quiet' <=> Quiet)
  BY <1>1, JobUnchanged DEF TypeOK, jobVars
<1>3. QED
  BY <1>1, <1>2 DEF TypeOK

(* Steps that leave rest alone, by what they do to the other variables. *)
LEMMA StepTypeOK ==
  ASSUME TypeOK, Step \/ HeredocEnd \/ CommandsEnd \/ \E l \in Lines : Readline(l) PROVE TypeOK'
<1>1. CASE LoopTop
  <2>1. J!TypeOK' /\ NoLine \in Lines
    BY <1>1, JobUnchanged DEF LoopTop, TypeOK, NoLine, Lines, Line, Kinds
  <2>2. QED
    BY <1>1, <2>1 DEF LoopTop, ForgetLine, Goto, TypeOK
<1>2. ASSUME NEW l \in Lines, Readline(l) PROVE TypeOK'
  <2>1. J!TypeOK'
    BY <1>2 DEF Readline, jobVars, TypeOK, J!TypeOK
  <2>2. QED
    BY <1>2, <2>1 DEF Readline, Goto, TypeOK
<1>3. CASE JobStep
  <2>1. J!TypeOK'
    <3>1. Count - 1 \in J!Cmds /\ 1 \in Value
      BY ShellAssumption DEF J!Cmds
    <3>2. ASSUME NEW n \in J!Cmds, J!Launch(n) \/ J!Collect(n) PROVE J!TypeOK'
      BY <3>2 DEF TypeOK, J!TypeOK, J!Launch, J!Collect
    <3>3. ASSUME J!Return PROVE J!TypeOK'
      BY <3>1, <3>3 DEF TypeOK, J!TypeOK, J!Return
    <3>4. QED
      BY <1>3, <3>2, <3>3 DEF JobStep
  <2>2. QED
    BY <1>3, <2>1 DEF JobStep, TypeOK
<1>4. CASE Quit
  <2>1. J!TypeOK'
    BY <1>4 DEF Quit, jobVars, TypeOK, J!TypeOK
  <2>2. QED
    BY <1>4, <2>1 DEF Quit, Goto, TypeOK
<1>5. CASE LoopInstall
  BY <1>5, RestUnchanged DEF LoopInstall, Install, Goto, TypeOK
<1>6. CASE CheckInterrupt
  BY <1>6, RestUnchanged DEF CheckInterrupt, Goto, TypeOK
<1>7. CASE ClearInterrupt
  BY <1>7, RestUnchanged DEF ClearInterrupt, Reset, Goto, TypeOK
<1>8. CASE Dispatch
  BY <1>8, RestUnchanged DEF Dispatch, Goto, TypeOK
<1>9. CASE Compute
  BY <1>9, RestUnchanged DEF Compute, Goto, TypeOK
<1>10. CASE ExecStart
  <2>1. J!TypeOK'
    BY <1>10, JobUnchanged DEF ExecStart, NewJob, TypeOK, J!TypeOK
  <2>2. QED
    BY <1>10, <2>1 DEF ExecStart, Goto, TypeOK
<1>11. CASE Redirect
  BY <1>11, RestUnchanged DEF Redirect, Redirected, Gives, Goto, TypeOK
<1>12. CASE Builtin
  BY <1>12, RestUnchanged DEF Builtin, Gives, Goto, TypeOK
<1>13. CASE HeredocReset
  BY <1>13, RestUnchanged DEF HeredocReset, Reset, Goto, TypeOK
<1>14. CASE HeredocInstall
  BY <1>14, RestUnchanged DEF HeredocInstall, Install, Goto, TypeOK
<1>15. CASE HeredocEnd
  BY <1>15, RestUnchanged DEF HeredocEnd, Goto, TypeOK
<1>16. CASE HeredocRestore
  BY <1>16, RestUnchanged DEF HeredocRestore, Reset, Goto, TypeOK
<1>17. CASE HeredocReinstall
  BY <1>17, RestUnchanged DEF HeredocReinstall, Install, Goto, TypeOK
<1>18. CASE HeredocTest
  BY <1>18, RestUnchanged DEF HeredocTest, Redirected, Gives, Goto, TypeOK
<1>19. CASE JobReturned
  <2>1. result \in Value
    BY <1>19 DEF JobReturned, TypeOK, J!TypeOK
  <2>2. QED
    BY <1>19, <2>1, RestUnchanged, ShellAssumption DEF JobReturned, Goto, TypeOK
<1>20. CASE JobReset
  BY <1>20, RestUnchanged DEF JobReset, Reset, Goto, TypeOK
<1>21. CASE JobInstall
  BY <1>21, RestUnchanged DEF JobInstall, Install, Goto, TypeOK
<1>22. CASE Verdict
  BY <1>22, RestUnchanged DEF Verdict, Goto, TypeOK
<1>23. CASE Restore
  BY <1>23, RestUnchanged DEF Restore, Reset, Goto, TypeOK
<1>24. CASE Reinstall
  BY <1>24, RestUnchanged DEF Reinstall, Goto, TypeOK
<1>25. CASE CommandsEnd
  BY <1>25, JobEnd DEF CommandsEnd, TypeOK
<1>26. QED
  BY <1>1, <1>2, <1>3, <1>4, <1>5, <1>6, <1>7, <1>8, <1>9, <1>10, <1>11, <1>12, <1>13, <1>14, <1>15, <1>16, <1>17, <1>18, <1>19, <1>20, <1>21, <1>22, <1>23, <1>24, <1>25 DEF Step

(* Ctrl-C, which may end some commands of the Job. *)
LEMMA CtrlCJob ==
  ASSUME TypeOK, CtrlC
  PROVE  J!TypeOK' /\ (J!Launched' <=> J!Launched) /\ (Quiet => Quiet') /\ result' = result
<1>1. 128 + SIGINT \in Value
  BY ShellAssumption
<1>2. J!TypeOK
  BY DEF TypeOK
<1>3. CASE UNCHANGED jobVars
  BY <1>2, <1>3, JobUnchanged DEF jobVars
<1>4. CASE \E S \in SUBSET J!Cmds : J!End(S, 128 + SIGINT)
  BY <1>1, <1>2, <1>4, JobEnd
<1>5. QED
  BY <1>3, <1>4 DEF CtrlC

LEMMA CtrlCTypeOK == ASSUME TypeOK, CtrlC PROVE TypeOK'
<1>1. J!TypeOK'
  BY CtrlCJob
<1>2. ints' \in 0 .. MaxInts
  BY ShellAssumption DEF CtrlC, TypeOK
<1>3. UNCHANGED <<handler, exit_code, ret, own, line, echoctl>>
  BY DEF CtrlC
<1>4. pc' \in Pcs /\ g_sig' \in {0, SIGINT} /\ hit' \subseteq Pcs
  BY DEF CtrlC, Goto, TypeOK
<1>5. QED
  BY <1>1, <1>2, <1>3, <1>4 DEF TypeOK

(* Every step keeps what is said of g_sig, of the line and of the Job. *)
LEMMA ShellNext == ASSUME IInv, [Next]_vars PROVE IInv'
<1> USE DEF IInv, HandlerInstalled, LineKinds, PendingAtPrompt, PendingInShell, PendingInJob, PendingAfterJob, OwnStatus, JobOver,
       ParentStatus, ForkedStatus, Counted
<1>1. CASE LoopTop
  <2>1. TypeOK'
    BY <1>1, StepTypeOK DEF Step
  <2>2. QED
    BY <1>1, <2>1, JobUnchanged DEF LoopTop, ForgetLine, NoLine, Goto
<1>2. ASSUME NEW l \in Lines, Readline(l) PROVE IInv'
  <2>1. TypeOK'
    BY <1>2, StepTypeOK
  <2>2. QED
    BY <1>2, <2>1, JobUnchanged DEF Readline, Goto
<1>3. CASE JobStep
  <2>1. TypeOK'
    BY <1>3, StepTypeOK DEF Step
  <2>2. JobOver'
    <3>1. pc' = "job" /\ result = J!NoResult
      BY <1>3 DEF JobStep, J!Launch, J!Collect, J!Return
    <3>2. CASE J!Return
      BY <3>2 DEF J!Return, J!Launched, J!Whole, Quiet
    <3>3. CASE \E n \in J!Cmds : J!Launch(n) \/ J!Collect(n)
      BY <3>1, <3>3 DEF J!Launch, J!Collect
    <3>4. QED
      BY <1>3, <3>2, <3>3 DEF JobStep
  <2>3. QED
    BY <1>3, <2>1, <2>2 DEF JobStep
<1>4. CASE Quit
  <2>1. TypeOK'
    BY <1>4, StepTypeOK DEF Step
  <2>2. QED
    BY <1>4, <2>1, JobUnchanged DEF Quit, Goto
<1>5. CASE CtrlC
  <2>1. TypeOK'
    BY <1>5, CtrlCTypeOK
  <2>2. JobOver'
    BY <1>5, CtrlCJob DEF CtrlC, Goto
  <2>3. (HandlerInstalled /\ LineKinds /\ OwnStatus)'
    BY <1>5, CtrlCJob DEF CtrlC, Goto
  <2>4. PendingAtPrompt'
    BY <1>5 DEF CtrlC, Goto
  <2>5. PendingInShell'
    BY <1>5 DEF CtrlC, Goto
  <2>6. (PendingInJob /\ PendingAfterJob)'
    BY <1>5, CtrlCJob DEF CtrlC, Goto
  <2>7. (ParentStatus /\ ForkedStatus)'
    BY <1>5, CtrlCJob DEF CtrlC, Goto
  <2>8. QED
    BY <2>1, <2>2, <2>3, <2>4, <2>5, <2>6, <2>7
<1>6. CASE LoopInstall
  <2>1. TypeOK'
    BY <1>6, StepTypeOK DEF Step
  <2>2. QED
    BY <1>6, <2>1, RestUnchanged DEF LoopInstall, Install, Goto, TypeOK
<1>7. CASE CheckInterrupt
  <2>1. TypeOK'
    BY <1>7, StepTypeOK DEF Step
  <2>2. QED
    BY <1>7, <2>1, RestUnchanged DEF CheckInterrupt, Goto, TypeOK
<1>8. CASE ClearInterrupt
  <2>1. TypeOK'
    BY <1>8, StepTypeOK DEF Step
  <2>2. QED
    BY <1>8, <2>1, RestUnchanged DEF ClearInterrupt, Reset, Goto, TypeOK
<1>9. CASE Dispatch
  <2>1. TypeOK'
    BY <1>9, StepTypeOK DEF Step
  <2>2. QED
    BY <1>9, <2>1, RestUnchanged DEF Dispatch, Goto, TypeOK
<1>10. CASE Compute
  <2>1. TypeOK'
    BY <1>10, StepTypeOK DEF Step
  <2>2. QED
    BY <1>10, <2>1, RestUnchanged DEF Compute, Goto, TypeOK
<1>11. CASE ExecStart
  <2>1. TypeOK'
    BY <1>11, StepTypeOK DEF Step
  <2>2. JobOver'
    BY <1>11, JobUnchanged DEF ExecStart, NewJob, Goto
  <2>3. QED
    BY <1>11, <2>1, <2>2, JobUnchanged DEF ExecStart, NewJob, Goto, TypeOK
<1>12. CASE Redirect
  <2>1. TypeOK'
    BY <1>12, StepTypeOK DEF Step
  <2>2. QED
    BY <1>12, <2>1, RestUnchanged DEF Redirect, Redirected, Gives, Goto, TypeOK
<1>13. CASE Builtin
  <2>1. TypeOK'
    BY <1>13, StepTypeOK DEF Step
  <2>2. QED
    BY <1>13, <2>1, RestUnchanged DEF Builtin, Gives, Goto, TypeOK
<1>14. CASE HeredocReset
  <2>1. TypeOK'
    BY <1>14, StepTypeOK DEF Step
  <2>2. QED
    BY <1>14, <2>1, RestUnchanged DEF HeredocReset, Reset, Goto, TypeOK
<1>15. CASE HeredocInstall
  <2>1. TypeOK'
    BY <1>15, StepTypeOK DEF Step
  <2>2. QED
    BY <1>15, <2>1, RestUnchanged DEF HeredocInstall, Install, Goto, TypeOK
<1>16. CASE HeredocEnd
  <2>1. TypeOK'
    BY <1>16, StepTypeOK DEF Step
  <2>2. QED
    BY <1>16, <2>1, RestUnchanged DEF HeredocEnd, Goto, TypeOK
<1>17. CASE HeredocRestore
  <2>1. TypeOK'
    BY <1>17, StepTypeOK DEF Step
  <2>2. QED
    BY <1>17, <2>1, RestUnchanged DEF HeredocRestore, Reset, Goto, TypeOK
<1>18. CASE HeredocReinstall
  <2>1. TypeOK'
    BY <1>18, StepTypeOK DEF Step
  <2>2. QED
    BY <1>18, <2>1, RestUnchanged DEF HeredocReinstall, Install, Goto, TypeOK
<1>19. CASE HeredocTest
  <2>1. TypeOK'
    BY <1>19, StepTypeOK DEF Step
  <2>2. QED
    BY <1>19, <2>1, RestUnchanged DEF HeredocTest, Redirected, Gives, Goto, TypeOK
<1>20. CASE JobReturned
  <2>1. TypeOK'
    BY <1>20, StepTypeOK DEF Step
  <2>2. QED
    BY <1>20, <2>1, RestUnchanged DEF JobReturned, Goto, TypeOK
<1>21. CASE JobReset
  <2>1. TypeOK'
    BY <1>21, StepTypeOK DEF Step
  <2>2. QED
    BY <1>21, <2>1, RestUnchanged DEF JobReset, Reset, Goto, TypeOK
<1>22. CASE JobInstall
  <2>1. TypeOK'
    BY <1>22, StepTypeOK DEF Step
  <2>2. QED
    BY <1>22, <2>1, RestUnchanged DEF JobInstall, Install, Goto, TypeOK
<1>23. CASE Verdict
  <2>1. TypeOK'
    BY <1>23, StepTypeOK DEF Step
  <2>2. QED
    BY <1>23, <2>1, RestUnchanged DEF Verdict, Goto, TypeOK
<1>24. CASE Restore
  <2>1. TypeOK'
    BY <1>24, StepTypeOK DEF Step
  <2>2. QED
    BY <1>24, <2>1, RestUnchanged DEF Restore, Reset, Goto, TypeOK
<1>25. CASE Reinstall
  <2>1. TypeOK'
    BY <1>25, StepTypeOK DEF Step
  <2>2. QED
    BY <1>25, <2>1, RestUnchanged DEF Reinstall, Goto, TypeOK
<1>26. CASE UNCHANGED vars
  <2>1. UNCHANGED <<pc, g_sig, handler, exit_code, ret, own, rest>>
    BY <1>26 DEF vars
  <2>2. TypeOK'
    BY <2>1, RestUnchanged DEF TypeOK
  <2>3. QED
    BY <2>1, <2>2, RestUnchanged
<1>27. CASE CommandsEnd
  <2>1. TypeOK'
    BY <1>27, StepTypeOK
  <2>2. (J!Launched' <=> J!Launched) /\ (Quiet => Quiet') /\ result' = result
    BY <1>27, JobEnd DEF CommandsEnd, TypeOK
  <2>3. QED
    BY <1>27, <2>1, <2>2 DEF CommandsEnd
<1>28. QED
  BY <1>1, <1>2, <1>3, <1>4, <1>5, <1>6, <1>7, <1>8, <1>9, <1>10, <1>11, <1>12, <1>13, <1>14, <1>15, <1>16, <1>17, <1>18, <1>19, <1>20, <1>21, <1>22, <1>23, <1>24, <1>25, <1>26, <1>27 DEF Next, Step, Stopped

-----------------------------------------------------------------------------
LEMMA ShellInvariant == Spec => []IInv
<1>1. Init => IInv
  BY ShellInit
<1>2. IInv /\ [Next]_vars => IInv'
  BY ShellNext
<1>3. QED
  BY <1>1, <1>2, PTL DEF Spec

(* ms_loop's variables, those of exec_pipeline and the Job keep their types. *)
THEOREM ShellTypeOK == Spec => []TypeOK
<1>1. IInv => TypeOK
  BY DEF IInv
<1>2. QED
  BY <1>1, ShellInvariant, PTL

(* The status of a line that the shell executes itself is its own, or 130 for
   an interrupt of this very line: g_sig never carries one over. *)
THEOREM StatusOfParentLine == Spec => []ParentStatus
<1>1. IInv => ParentStatus
  BY DEF IInv
<1>2. QED
  BY <1>1, ShellInvariant, PTL

(* The status of a forked line is its Job's, or 130 for an interrupt between
   exec_forked_pipeline's reset of g_sig and exec_pipeline's test, or, when the
   Job could not be launched, for an interrupt of this line. *)
THEOREM StatusOfForkedLine == Spec => []ForkedStatus
<1>1. IInv => ForkedStatus
  BY DEF IInv
<1>2. QED
  BY <1>1, ShellInvariant, PTL

(* Whatever was typed and interrupted, a command still running, or left to be
   waited for, at the prompt belongs to a line that gave 1 for want of a pipe,
   or one of whose forks failed. *)
THEOREM PromptIsQuiet == Spec => []NothingRunsAtThePrompt
<1>1. IInv => NothingRunsAtThePrompt
  BY DEF IInv, JobOver, Quiet, NothingRunsAtThePrompt
<1>2. QED
  BY <1>1, ShellInvariant, PTL

(* $? becomes 130 at the prompt exactly for a Ctrl-C of this prompt. *)
THEOREM InterruptAtPrompt == Spec => PromptInterrupt
<1>1. IInv /\ [Next]_vars =>
        [pc = "check" /\ pc' # "check" => exit_code' = IF hit = {} THEN exit_code ELSE 130]_vars
  <2> SUFFICES ASSUME IInv, Next, pc = "check", pc' # "check"
               PROVE  exit_code' = IF hit = {} THEN exit_code ELSE 130
    OBVIOUS
  <2>1. CheckInterrupt \/ CtrlC
    BY DEF Next, Step, Stopped, LoopTop, LoopInstall, ClearInterrupt, Dispatch, Compute, Quit, ExecStart,
       Redirect, Builtin, HeredocReset, HeredocInstall, HeredocRestore, HeredocReinstall, HeredocTest,
       JobStep, JobReturned, JobReset, JobInstall, Verdict, Restore, Reinstall, Readline, HeredocEnd, CommandsEnd,
       Install, Reset
  <2>2. g_sig = SIGINT <=> hit # {}
    BY DEF IInv, PendingAtPrompt
  <2>3. CASE CheckInterrupt
    BY <2>2, <2>3 DEF CheckInterrupt
  <2>4. CASE CtrlC
    BY <2>4 DEF CtrlC, IInv, HandlerInstalled
  <2>5. QED
    BY <2>1, <2>3, <2>4
<1>2. QED
  BY <1>1, ShellInvariant, PTL DEF Spec, PromptInterrupt
=============================================================================
