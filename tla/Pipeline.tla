------------------------------ MODULE Pipeline ------------------------------
(***************************************************************************)
(* One call of exec_forked_pipeline (exec/pipeline.c): the shell forks one *)
(* child per command, joins neighbours by pipes, and waits for all of      *)
(* them, while the children it has already forked run and the user presses *)
(* Ctrl-C or Ctrl-\.                                                       *)
(*                                                                         *)
(* Each process (the shell, pid 0, and the child of command i, pid i+1)    *)
(* has the five descriptors this code ever uses: stdin, stdout, the local  *)
(* variable prev, and the two elements of the local array p.  A pipe is at *)
(* end of file when nobody holds its write end, and broken when nobody     *)
(* holds its read end, so a descriptor that is not closed is visible as a  *)
(* child that never ends.                                                  *)
(***************************************************************************)
EXTENDS Integers, FiniteSets

CONSTANTS
    Count,       \* pl->count, the number of commands of the pipeline
    Cap,         \* how many units a pipe holds before a writer blocks
    Load,        \* how many units an "emit" command writes
    Plans,       \* the pipelines to try: functions from Cmds to commands
    Faults,      \* the calls that may fail: subset of {"malloc", "pipe", "fork"}
    MaxSignals   \* how many times the user may press Ctrl-C or Ctrl-\

Cmds  == 0 .. Count - 1
Pids  == 1 .. Count
Sh    == 0
Procs == {Sh} \cup Pids
Pipes == 0 .. Count - 2

(***************************************************************************)
(* What a command does once execve (or its builtin) has control:           *)
(*   emit   writes Load units, then exits                                  *)
(*   copy   copies stdin to stdout until end of file, like cat             *)
(*   first  reads at most one unit, like head -1                           *)
(*   skip   exits without touching its descriptors                         *)
(*   sleep  runs until a signal ends it                                    *)
(*   trap   catches SIGINT and goes on, then exits when it likes           *)
(* and what its redirections do before that: none, one that opens a file   *)
(* for stdin or for stdout, or one that cannot be opened.                  *)
(***************************************************************************)
Programs  == {"emit", "copy", "first", "skip", "sleep", "trap"}
Redirects == {"none", "in", "out", "bad"}
Command   == [prog : Programs, redir : Redirects]

ASSUME PipelineAssumption ==
    /\ Count \in Nat \ {0}
    /\ Cap \in Nat \ {0}
    /\ Load \in Nat
    /\ Plans \subseteq [Cmds -> Command]
    /\ Faults \subseteq {"malloc", "pipe", "fork"}
    /\ MaxSignals \in Nat

(* What a descriptor refers to. *)
Closed == <<"closed", 0>>
Tty    == <<"tty", 0>>
File   == <<"file", 0>>
R(k)   == <<"read", k>>
W(k)   == <<"write", k>>
Ends   == {Closed, Tty, File} \cup {R(k) : k \in Pipes} \cup {W(k) : k \in Pipes}

Slots  == {"in", "out", "prev", "p0", "p1"}
NoFds  == [s \in Slots |-> Closed]

SIGINT  == 2
SIGQUIT == 3
SIGPIPE == 13

(* A wait status: killed by signal sig, or (sig = 0) exited with code.  The
   commands' own exit codes are told apart. *)
Killed(s)      == [sig |-> s, code |-> 0]
Exited(n)      == [sig |-> 0, code |-> n]
ExitCode(c)    == 100 + c
Statuses       == {Killed(s) : s \in {SIGINT, SIGQUIT, SIGPIPE}}
                      \cup {Exited(0), Exited(1)} \cup {Exited(ExitCode(c)) : c \in Pids}
exit_status(w) == IF w.sig = 0 THEN w.code ELSE 128 + w.sig

VARIABLES
    pc,       \* where the shell is in exec_forked_pipeline
    i,        \* the loop index of fork_all, then of wait_all
    pids,     \* the array: the pid of each command, -1 when fork failed
    ret,      \* the value exec_forked_pipeline returns
    last,     \* wait_all's last
    g_sig,    \* the shell's g_sig
    plan,     \* the pipeline being executed
    cpc,      \* where each child is
    fd,       \* the descriptors of each process
    left,     \* units the child has still to write
    status,   \* the wait status of a child that has ended
    buf,      \* units in each pipe
    signals   \* keys pressed so far

shVars    == <<pc, i, pids, ret, last, g_sig>>
childVars == <<cpc, left, status>>
world     == <<plan, signals>>
vars      == <<shVars, childVars, world, fd, buf>>

Alive    == {c \in Pids : cpc[c] \in {"forked", "redir", "run"}}
Zombies  == {c \in Pids : cpc[c] = "zombie"}
Children == Alive \cup Zombies             \* forked and not waited for

Writers(k) == {q \in Procs : \E s \in Slots : fd[q][s] = W(k)}
Readers(k) == {q \in Procs : \E s \in Slots : fd[q][s] = R(k)}
Prog(c)    == plan[c - 1].prog
Redir(c)   == plan[c - 1].redir

TypeOK ==
    /\ pc \in {"malloc", "pipe", "fork", "close", "wait", "done"}
    /\ i \in 0 .. Count
    /\ pids \in [Cmds -> {-1} \cup Procs]
    /\ ret \in {exit_status(w) : w \in Statuses}
    /\ last \in Statuses
    /\ g_sig \in {0, SIGINT}
    /\ plan \in [Cmds -> Command]
    /\ cpc \in [Pids -> {"none", "forked", "redir", "run", "zombie", "reaped"}]
    /\ fd \in [Procs -> [Slots -> Ends]]
    /\ left \in [Pids -> Nat]
    /\ status \in [Pids -> Statuses]
    /\ buf \in [Pipes -> 0 .. Cap]
    /\ signals \in 0 .. MaxSignals

(* exec_pipeline has called sig_set_exec_parent; nothing is forked yet. *)
Init ==
    /\ pc = "malloc" /\ i = 0 /\ ret = 0 /\ g_sig = 0 /\ signals = 0
    /\ last = Exited(0)
    /\ pids = [n \in Cmds |-> 0]
    /\ plan \in Plans
    /\ cpc = [c \in Pids |-> "none"]
    /\ fd = [q \in Procs |-> IF q = Sh THEN [NoFds EXCEPT !["in"] = Tty, !["out"] = Tty]
                                       ELSE NoFds]
    /\ left = [c \in Pids |-> 0]
    /\ status = [c \in Pids |-> Exited(0)]
    /\ buf = [k \in Pipes |-> 0]

-----------------------------------------------------------------------------
(* The shell. *)

Return(r) == ret' = r /\ pc' = "done"

exec_forked_pipeline ==
    /\ pc = "malloc"
    /\ \/ pc' = "pipe" /\ UNCHANGED ret
       \/ "malloc" \in Faults /\ Return(1)
    /\ UNCHANGED <<i, pids, last, g_sig, childVars, world, fd, buf>>

(* Mutant: a pipe after the last command too. *)
MakePipe_last ==
    /\ pc = "pipe"
    /\ fd' = [fd EXCEPT ![Sh]["p0"] = R(i), ![Sh]["p1"] = W(i)]
    /\ pc' = "fork"
    /\ UNCHANGED <<i, pids, ret, last, g_sig, childVars, world, buf>>

(* fork_all, the top of the loop.  A failing pipe() returns at once: prev
   stays open and the children forked so far are not waited for. *)
MakePipe ==
    /\ pc = "pipe"
    /\ \/ /\ i = Count - 1
          /\ pc' = "fork"
          /\ UNCHANGED <<fd, ret>>
       \/ /\ i < Count - 1
          /\ fd' = [fd EXCEPT ![Sh]["p0"] = R(i), ![Sh]["p1"] = W(i)]
          /\ pc' = "fork"
          /\ UNCHANGED ret
       \/ /\ i < Count - 1
          /\ "pipe" \in Faults
          /\ Return(1)
          /\ UNCHANGED fd
    /\ UNCHANGED <<i, pids, last, g_sig, childVars, world, buf>>

(* The child starts as a copy of the shell, its SIGINT handler included.  A
   failing fork() is not looked at: -1 is stored and the loop goes on. *)
Fork ==
    /\ pc = "fork"
    /\ pc' = "close"
    /\ \/ /\ pids' = [pids EXCEPT ![i] = i + 1]
          /\ cpc' = [cpc EXCEPT ![i + 1] = "forked"]
          /\ fd' = [fd EXCEPT ![i + 1] = fd[Sh]]
       \/ /\ "fork" \in Faults
          /\ pids' = [pids EXCEPT ![i] = -1]
          /\ UNCHANGED <<cpc, fd>>
    /\ UNCHANGED <<i, ret, last, g_sig, left, status, world, buf>>

(* i++, and the end of the loop, where wait_all starts. *)
NextCommand ==
    IF i + 1 < Count THEN pc' = "pipe" /\ i' = i + 1 ELSE pc' = "wait" /\ i' = 0

(* Mutants: the shell keeps p[1] open; wait_all starts at the last command. *)
CloseEnds_open ==
    /\ pc = "close"
    /\ fd' = [fd EXCEPT ![Sh]["prev"] = fd[Sh]["p0"], ![Sh]["p0"] = Closed]
    /\ NextCommand
    /\ UNCHANGED <<pids, ret, last, g_sig, childVars, world, buf>>
CloseEnds_noreset ==
    /\ pc = "close"
    /\ fd' = [fd EXCEPT ![Sh]["prev"] = fd[Sh]["p0"], ![Sh]["p0"] = Closed, ![Sh]["p1"] = Closed]
    /\ IF i + 1 < Count THEN pc' = "pipe" /\ i' = i + 1 ELSE pc' = "wait" /\ i' = i
    /\ UNCHANGED <<pids, ret, last, g_sig, childVars, world, buf>>

(* close(prev), close(p[1]), prev = p[0].  The close(prev) after the loop
   finds prev = -1. *)
CloseEnds ==
    /\ pc = "close"
    /\ fd' = [fd EXCEPT ![Sh]["prev"] = fd[Sh]["p0"], ![Sh]["p0"] = Closed, ![Sh]["p1"] = Closed]
    /\ NextCommand
    /\ UNCHANGED <<pids, ret, last, g_sig, childVars, world, buf>>

(* Mutant: the status kept is that of the last command but one. *)
wait_all_offbyone ==
    /\ pc = "wait"
    /\ i < Count
    /\ \E c \in Zombies \cap {pids[i]} :
          /\ cpc' = [cpc EXCEPT ![c] = "reaped"]
          /\ last' = IF i = Count - 2 THEN status[c] ELSE last
          /\ i' = i + 1
    /\ UNCHANGED <<pc, ret, g_sig, pids, left, status, world, fd, buf>>

(* waitpid(pids[i]): with -1 any child will do; ECHILD when there is none.
   signal() restarts waitpid after a handler, so EINTR is a mere retry. *)
wait_all ==
    /\ pc = "wait"
    /\ i < Count
    /\ LET matching == IF pids[i] = -1 THEN Children ELSE Children \cap {pids[i]} IN
       \/ \E c \in matching \cap Zombies :
             /\ cpc' = [cpc EXCEPT ![c] = "reaped"]
             /\ last' = IF i = Count - 1 THEN status[c] ELSE last
             /\ i' = i + 1
             /\ UNCHANGED <<ret, pc, g_sig>>
       \/ /\ matching = {}
          /\ Return(1)
          /\ g_sig' = 0
          /\ UNCHANGED <<cpc, last, i>>
    /\ UNCHANGED <<pids, left, status, world, fd, buf>>

(* The end of wait_all, then sig_set_interactive. *)
wait_all_end ==
    /\ pc = "wait"
    /\ i = Count
    /\ Return(exit_status(last))
    /\ g_sig' = 0
    /\ UNCHANGED <<i, pids, last, childVars, world, fd, buf>>

Shell ==
    exec_forked_pipeline \/ MakePipe \/ Fork \/ CloseEnds \/ wait_all \/ wait_all_end

-----------------------------------------------------------------------------
(* A child, from fork_child to its end. *)

(* Mutant: fork_child leaves p[0] and p[1] open. *)
fork_child_open(c) ==
    /\ cpc[c] = "forked"
    /\ cpc' = [cpc EXCEPT ![c] = "redir"]
    /\ fd' = [fd EXCEPT
          ![c]["in"]   = IF fd[c]["prev"] = Closed THEN @ ELSE fd[c]["prev"],
          ![c]["out"]  = IF fd[c]["p1"] = Closed THEN @ ELSE fd[c]["p1"],
          ![c]["prev"] = Closed]
    /\ UNCHANGED <<shVars, left, status, world, buf>>

(* The dup2 and close calls, and sig_set_exec_child: from here signals have
   their default effect. *)
fork_child(c) ==
    /\ cpc[c] = "forked"
    /\ cpc' = [cpc EXCEPT ![c] = "redir"]
    /\ fd' = [fd EXCEPT
          ![c]["in"]   = IF fd[c]["prev"] = Closed THEN @ ELSE fd[c]["prev"],
          ![c]["out"]  = IF fd[c]["p1"] = Closed THEN @ ELSE fd[c]["p1"],
          ![c]["prev"] = Closed, ![c]["p0"] = Closed, ![c]["p1"] = Closed]
    /\ UNCHANGED <<shVars, left, status, world, buf>>

(* The process ends: the kernel closes its descriptors and keeps w. *)
End(c, w) ==
    /\ cpc' = [cpc EXCEPT ![c] = "zombie"]
    /\ status' = [status EXCEPT ![c] = w]
    /\ fd' = [fd EXCEPT ![c] = NoFds]

(* apply_redirects in child_exec; a redirection that fails exits 1 there. *)
child_exec(c) ==
    /\ cpc[c] = "redir"
    /\ \/ /\ Redir(c) = "bad"
          /\ End(c, Exited(1))
          /\ UNCHANGED left
       \/ /\ Redir(c) # "bad"
          /\ fd' = [fd EXCEPT ![c]["in"]  = IF Redir(c) = "in"  THEN File ELSE @,
                              ![c]["out"] = IF Redir(c) = "out" THEN File ELSE @]
          /\ cpc' = [cpc EXCEPT ![c] = "run"]
          /\ left' = [left EXCEPT ![c] = IF Prog(c) = "emit" THEN Load ELSE 0]
          /\ UNCHANGED status
    /\ UNCHANGED <<shVars, world, buf>>

(* write(1): into a pipe with room, or away; a broken pipe kills. *)
Write(c) ==
    /\ cpc[c] = "run"
    /\ left[c] > 0
    /\ \/ \E k \in Pipes :
             /\ fd[c]["out"] = W(k)
             /\ \/ /\ Readers(k) # {}
                   /\ buf[k] < Cap
                   /\ buf' = [buf EXCEPT ![k] = @ + 1]
                   /\ left' = [left EXCEPT ![c] = @ - 1]
                   /\ UNCHANGED <<cpc, status, fd>>
                \/ /\ Readers(k) = {}
                   /\ End(c, Killed(SIGPIPE))
                   /\ UNCHANGED <<buf, left>>
       \/ /\ fd[c]["out"] \in {Tty, File}
          /\ left' = [left EXCEPT ![c] = @ - 1]
          /\ UNCHANGED <<cpc, status, fd, buf>>
    /\ UNCHANGED <<shVars, world>>

(* read(0) that finds a unit. *)
Read(c) ==
    /\ cpc[c] = "run"
    /\ left[c] = 0
    /\ \E k \in Pipes :
          /\ fd[c]["in"] = R(k)
          /\ buf[k] > 0
          /\ buf' = [buf EXCEPT ![k] = @ - 1]
    /\ \/ /\ Prog(c) = "copy"
          /\ left' = [left EXCEPT ![c] = 1]
          /\ UNCHANGED <<cpc, status, fd>>
       \/ /\ Prog(c) = "first"
          /\ End(c, Exited(ExitCode(c)))
          /\ UNCHANGED left
    /\ UNCHANGED <<shVars, world>>

(* A file, and the terminal (the user types Ctrl-D), are at end of file; a
   pipe is once it is empty and nobody holds its write end. *)
AtEof(c) ==
    \/ fd[c]["in"] \in {Tty, File}
    \/ \E k \in Pipes : fd[c]["in"] = R(k) /\ buf[k] = 0 /\ Writers(k) = {}

Exit(c) ==
    /\ cpc[c] = "run"
    /\ left[c] = 0
    /\ \/ Prog(c) \in {"emit", "skip", "trap"}
       \/ Prog(c) \in {"copy", "first"} /\ AtEof(c)
    /\ End(c, Exited(ExitCode(c)))
    /\ UNCHANGED <<shVars, left, world, buf>>

Child(c) == fork_child(c) \/ child_exec(c) \/ Write(c) \/ Read(c) \/ Exit(c)

-----------------------------------------------------------------------------
(* The terminal sends the signal to the whole foreground group at once.  A
   child dies of it unless it still has the shell's dispositions, or is a
   "trap" command and the signal is SIGINT.  The shell's handler records
   SIGINT; the shell ignores SIGQUIT. *)
Victims(s) ==
    {c \in Alive : cpc[c] # "forked" /\ ~ (s = SIGINT /\ cpc[c] = "run" /\ Prog(c) = "trap")}

Key(s) ==
    /\ signals < MaxSignals
    /\ pc # "done"
    /\ signals' = signals + 1
    /\ g_sig' = IF s = SIGINT THEN SIGINT ELSE g_sig
    /\ cpc' = [c \in Pids |-> IF c \in Victims(s) THEN "zombie" ELSE cpc[c]]
    /\ status' = [c \in Pids |-> IF c \in Victims(s) THEN Killed(s) ELSE status[c]]
    /\ fd' = [q \in Procs |-> IF q \in Victims(s) THEN NoFds ELSE fd[q]]
    /\ UNCHANGED <<pc, i, pids, ret, last, left, plan, buf>>

Finished == pc = "done" /\ UNCHANGED vars

Next ==
    \/ Shell
    \/ \E c \in Pids : Child(c)
    \/ \E s \in {SIGINT, SIGQUIT} : Key(s)
    \/ Finished

(* The kernel schedules every process that can run; the user need not
   press any key. *)
Fairness == WF_vars(Shell) /\ \A c \in Pids : WF_vars(Child(c))

Spec     == Init /\ [][Next]_vars
FairSpec == Spec /\ Fairness

-----------------------------------------------------------------------------
(* fork_all lets every pipe end reach exactly the processes meant to have it:
   at no moment does a command hold an end of a pipe that is not its
   neighbour's, a later command never inherits an earlier write end, and once
   fork_child is past its dup2 calls only stdin and stdout are open.  One
   stray write end and the reader would never see end of file. *)
PipeEndsWhereMeant ==
    /\ \A k \in Pipes : Writers(k) \subseteq {Sh, k + 1} /\ Readers(k) \subseteq {Sh, k + 1, k + 2}
    /\ \A c \in Pids : cpc[c] \in {"redir", "run"} =>
          /\ \A s \in {"prev", "p0", "p1"} : fd[c][s] = Closed
          /\ fd[c]["in"] \in {Tty, File} \cup (IF c > 1 THEN {R(c - 2)} ELSE {})
          /\ fd[c]["out"] \in {Tty, File} \cup (IF c < Count THEN {W(c - 1)} ELSE {})

(* Every fork has been tried, and none has failed. *)
EveryForked == \A n \in Cmds : pids[n] = n + 1

(* When exec_forked_pipeline returns, the shell holds no pipe end and has no
   child left that it has not waited for, which resources.md:113-114 promise
   without a condition.  The code keeps to it unless a call failed: a pipe()
   that fails leaves prev open and the commands before it uncollected, a fork
   that fails leaves a command uncollected when another was taken in its place. *)
NothingLeftBehind ==
    pc = "done" =>
        /\ fd[Sh]["p0"] = Closed /\ fd[Sh]["p1"] = Closed
        /\ fd[Sh]["prev"] = Closed \/ \E n \in Cmds : pids[n] = 0
        /\ EveryForked => Children = {}

(* The value exec_forked_pipeline returns, which becomes $?, is that of the
   last command, whatever killed the children and in whatever order; there is
   no such promise once a fork has failed. *)
StatusOfLastCommand ==
    pc = "done" /\ EveryForked => ret = exit_status(status[Count])

(* Commands that end once their data does leave no process waiting for a pipe
   forever: the shell gets its prompt back. *)
Returns == (\A c \in Pids : Prog(c) # "sleep") => <>(pc = "done")

-----------------------------------------------------------------------------
(* Whichever calls fail, this is a Job: the commands are launched from left to
   right, whatever keys are pressed meanwhile (the ones after a Ctrl-C too, see
   InterruptEndsLaunch); if all were, they are collected from left to right and
   the call returns the last one's value, and if not, it returns as a Job that
   is not whole does. *)
Stage(pid, at) ==
    IF pid = -1 THEN "missing"
    ELSE CASE at = "none" -> "new" [] at = "zombie" -> "ended" [] at = "reaped" -> "collected" [] OTHER -> "live"
EndValue(at, w) == IF at \in {"zombie", "reaped"} THEN exit_status(w) ELSE -1

jobState  == [n \in Cmds |-> Stage(pids[n], cpc[n + 1])]
jobValue  == [n \in Cmds |-> EndValue(cpc[n + 1], status[n + 1])]
jobResult == IF pc = "done" THEN ret ELSE -1

JobSpec == INSTANCE Job WITH
    Value  <- {exit_status(w) : w \in Statuses},
    state  <- jobState,
    value  <- jobValue,
    result <- jobResult

ImplementsJob == JobSpec!Spec

-----------------------------------------------------------------------------
(* What the documents say of this code, and it does not do: when Ctrl-C comes
   between two forks, the commands forked so far die and the others are not
   executed (signal-phases-report.md:41-42). *)
InterruptEndsLaunch ==
    [][(\E c \in Pids : status[c] = Killed(SIGINT)) =>
          \A c \in Pids : cpc[c] = "none" => cpc'[c] = "none"]_vars
=============================================================================
