--------------------------- MODULE PipelineProofs ---------------------------
(***************************************************************************)
(* For pipelines of any length, whatever their commands, and whichever     *)
(* calls fail, pipe ends are only where fork_all means them to be.  The    *)
(* invariant behind it says what is in every descriptor of the shell at    *)
(* every point of the loop, hence of a child at the moment it is forked.   *)
(***************************************************************************)
EXTENDS Pipeline, TLAPS

InEnd(n)   == IF n = 0 THEN Closed ELSE R(n - 1)            \* what command n reads from
OutEnd(n)  == IF n < Count - 1 THEN W(n) ELSE Closed        \* what it writes to
NextEnd(n) == IF n < Count - 1 THEN R(n) ELSE Closed        \* what its neighbour will read from

Row(in, out, prev, p0, p1) ==
    [s \in Slots |-> CASE s = "in" -> in [] s = "out" -> out [] s = "prev" -> prev [] s = "p0" -> p0 [] s = "p1" -> p1]

ShellIndex ==
    /\ pc \in {"malloc", "pipe", "fork", "close"} => i < Count
    /\ pc = "malloc" => i = 0
ShellFds ==
    /\ pc \in {"malloc", "pipe"}  => fd[Sh] = Row(Tty, Tty, InEnd(i), Closed, Closed)
    /\ pc \in {"fork", "close"}   => fd[Sh] = Row(Tty, Tty, InEnd(i), NextEnd(i), OutEnd(i))
    /\ pc = "wait"                => fd[Sh] = Row(Tty, Tty, Closed, Closed, Closed)
ChildIn(c)  == {Tty, File} \cup (IF c > 1 THEN {R(c - 2)} ELSE {})
ChildOut(c) == {Tty, File} \cup (IF c < Count THEN {W(c - 1)} ELSE {})
AtFork(n)   == Row(Tty, Tty, InEnd(n), NextEnd(n), OutEnd(n))
ChildRow(c, at, row) ==
    /\ at \in {"none", "zombie", "reaped"} => row = NoFds
    /\ at = "forked" => row = AtFork(c - 1)
    /\ at \in {"redir", "run"} => \E in \in ChildIn(c), out \in ChildOut(c) : row = Row(in, out, Closed, Closed, Closed)
ChildFds == \A c \in Pids : ChildRow(c, cpc[c], fd[c])

IInv == TypeOK /\ ShellIndex /\ ShellFds /\ ChildFds

-----------------------------------------------------------------------------
(* The ends a command may have are ends, and every row has its cells. *)
LEMMA EndsTyped ==
  /\ \A n \in Cmds : InEnd(n) \in Ends /\ OutEnd(n) \in Ends /\ NextEnd(n) \in Ends
  /\ \A c \in Pids : ChildIn(c) \subseteq Ends /\ ChildOut(c) \subseteq Ends
  /\ Closed \in Ends /\ Tty \in Ends /\ File \in Ends
<1>1. \A k \in Pipes : R(k) \in Ends /\ W(k) \in Ends
  BY DEF Ends
<1>2. Closed \in Ends /\ Tty \in Ends /\ File \in Ends
  BY DEF Ends
<1>3. \A n \in Cmds : (n = 0 \/ n - 1 \in Pipes) /\ (n < Count - 1 => n \in Pipes)
  BY PipelineAssumption DEF Cmds, Pipes
<1>4. \A c \in Pids : (c > 1 => c - 2 \in Pipes) /\ (c < Count => c - 1 \in Pipes)
  BY PipelineAssumption DEF Pids, Pipes
<1>5. QED
  BY <1>1, <1>2, <1>3, <1>4 DEF InEnd, OutEnd, NextEnd, ChildIn, ChildOut

LEMMA RowTyped ==
  ASSUME NEW in \in Ends, NEW out \in Ends, NEW prev \in Ends, NEW p0 \in Ends, NEW p1 \in Ends
  PROVE  /\ Row(in, out, prev, p0, p1) \in [Slots -> Ends]
         /\ Row(in, out, prev, p0, p1)["in"] = in
         /\ Row(in, out, prev, p0, p1)["out"] = out
         /\ Row(in, out, prev, p0, p1)["prev"] = prev
         /\ Row(in, out, prev, p0, p1)["p0"] = p0
         /\ Row(in, out, prev, p0, p1)["p1"] = p1
  BY DEF Row, Slots

LEMMA NoFdsRow == NoFds = Row(Closed, Closed, Closed, Closed, Closed) /\ NoFds \in [Slots -> Ends]
<1>1. NoFds = Row(Closed, Closed, Closed, Closed, Closed)
  BY DEF NoFds, Row, Slots
<1>2. QED
  BY <1>1, EndsTyped, RowTyped

(* What changes the descriptors of one process leaves those of the others. *)
LEMMA OneRow ==
  ASSUME fd \in [Procs -> [Slots -> Ends]], NEW q \in Procs, NEW g \in [Slots -> Ends],
         fd' = [fd EXCEPT ![q] = g]
  PROVE  /\ fd' \in [Procs -> [Slots -> Ends]]
         /\ fd'[q] = g
         /\ \A r \in Procs \ {q} : fd'[r] = fd[r]
  OBVIOUS

-----------------------------------------------------------------------------
(* fork_all's assignments to prev and p, as whole rows. *)
LEMMA MakePipeRow ==
  ASSUME IInv, MakePipe, pc' = "fork"
  PROVE  fd' = [fd EXCEPT ![Sh] = Row(Tty, Tty, InEnd(i), NextEnd(i), OutEnd(i))]
<1>1. /\ fd \in [Procs -> [Slots -> Ends]] /\ Sh \in Procs
      /\ i \in Cmds /\ fd[Sh] = Row(Tty, Tty, InEnd(i), Closed, Closed)
  BY PipelineAssumption DEF IInv, TypeOK, ShellIndex, ShellFds, MakePipe, Procs, Cmds
<1>2. CASE i = Count - 1
  <2>1. fd' = fd
    BY <1>1, <1>2, PipelineAssumption DEF MakePipe, Cmds
  <2>2. NextEnd(i) = Closed /\ OutEnd(i) = Closed
    BY <1>2 DEF NextEnd, OutEnd
  <2>3. QED
    BY <1>1, <2>1, <2>2
<1>3. CASE i < Count - 1
  <2>1. fd' = [fd EXCEPT ![Sh]["p0"] = R(i), ![Sh]["p1"] = W(i)]
    <3>1. i # Count - 1 /\ pc' # "done"
      BY <1>1, <1>3, PipelineAssumption DEF Cmds
    <3>2. QED
      BY <3>1 DEF MakePipe, Return
  <2>2. fd' = [fd EXCEPT ![Sh] = [[fd[Sh] EXCEPT !["p0"] = R(i)] EXCEPT !["p1"] = W(i)]]
    BY <1>1, <2>1
  <2>3. NextEnd(i) = R(i) /\ OutEnd(i) = W(i)
    BY <1>3 DEF NextEnd, OutEnd
  <2>4. [[fd[Sh] EXCEPT !["p0"] = R(i)] EXCEPT !["p1"] = W(i)] = Row(Tty, Tty, InEnd(i), NextEnd(i), OutEnd(i))
    BY <1>1, <2>3 DEF Row, Slots
  <2>5. QED
    BY <2>2, <2>4
<1>4. QED
  BY <1>1, <1>2, <1>3, PipelineAssumption DEF Cmds

LEMMA CloseEndsRow ==
  ASSUME IInv, CloseEnds
  PROVE  fd' = [fd EXCEPT ![Sh] = Row(Tty, Tty, NextEnd(i), Closed, Closed)]
<1>1. /\ fd \in [Procs -> [Slots -> Ends]] /\ Sh \in Procs
      /\ fd[Sh] = Row(Tty, Tty, InEnd(i), NextEnd(i), OutEnd(i))
  BY DEF IInv, TypeOK, ShellFds, CloseEnds, Procs
<1>2. fd' = [fd EXCEPT ![Sh]["prev"] = fd[Sh]["p0"], ![Sh]["p0"] = Closed, ![Sh]["p1"] = Closed]
  BY DEF CloseEnds
<1>3. fd' = [fd EXCEPT ![Sh] = [[[fd[Sh] EXCEPT !["prev"] = fd[Sh]["p0"]] EXCEPT !["p0"] = Closed] EXCEPT !["p1"] = Closed]]
  BY <1>1, <1>2
<1>4. [[[fd[Sh] EXCEPT !["prev"] = fd[Sh]["p0"]] EXCEPT !["p0"] = Closed] EXCEPT !["p1"] = Closed]
        = Row(Tty, Tty, NextEnd(i), Closed, Closed)
  BY <1>1 DEF Row, Slots
<1>5. QED
  BY <1>3, <1>4

(* A child is left with its two ends and nothing else. *)
LEMMA ForkChildRow ==
  ASSUME IInv, NEW c \in Pids, fork_child(c)
  PROVE  \E in \in ChildIn(c), out \in ChildOut(c) : fd' = [fd EXCEPT ![c] = Row(in, out, Closed, Closed, Closed)]
<1> DEFINE in  == IF InEnd(c - 1) = Closed THEN Tty ELSE InEnd(c - 1)
           out == IF OutEnd(c - 1) = Closed THEN Tty ELSE OutEnd(c - 1)
<1>1. /\ fd \in [Procs -> [Slots -> Ends]] /\ c \in Procs
      /\ fd[c] = Row(Tty, Tty, InEnd(c - 1), NextEnd(c - 1), OutEnd(c - 1))
  BY DEF IInv, TypeOK, ChildFds, ChildRow, AtFork, fork_child, Procs
<1>2. fd[c]["in"] = Tty /\ fd[c]["out"] = Tty /\ fd[c]["prev"] = InEnd(c - 1) /\ fd[c]["p1"] = OutEnd(c - 1)
  BY <1>1 DEF Row, Slots
<1>3. fd' = [fd EXCEPT ![c] = [[[[[fd[c] EXCEPT !["in"] = in] EXCEPT !["out"] = out]
                                     EXCEPT !["prev"] = Closed] EXCEPT !["p0"] = Closed] EXCEPT !["p1"] = Closed]]
  <2>1. fd' = [fd EXCEPT
          ![c]["in"]   = IF fd[c]["prev"] = Closed THEN @ ELSE fd[c]["prev"],
          ![c]["out"]  = IF fd[c]["p1"] = Closed THEN @ ELSE fd[c]["p1"],
          ![c]["prev"] = Closed, ![c]["p0"] = Closed, ![c]["p1"] = Closed]
    BY DEF fork_child
  <2>2. QED
    BY <1>1, <1>2, <2>1
<1>4. [[[[[fd[c] EXCEPT !["in"] = in] EXCEPT !["out"] = out] EXCEPT !["prev"] = Closed] EXCEPT !["p0"] = Closed] EXCEPT !["p1"] = Closed]
        = Row(in, out, Closed, Closed, Closed)
  <2> HIDE DEF in, out
  <2>1. QED
    BY <1>1 DEF Row, Slots
<1>5. in \in ChildIn(c) /\ out \in ChildOut(c)
  <2>1. c \in 1 .. Count /\ Count \in Nat
    BY PipelineAssumption DEF Pids
  <2>2. in \in ChildIn(c)
    <3>1. c - 1 # 0 => c > 1 /\ (c - 1) - 1 = c - 2
      BY <2>1
    <3>2. QED
      BY <3>1 DEF InEnd, ChildIn
  <2>3. out \in ChildOut(c)
    <3>1. c - 1 < Count - 1 => c < Count
      BY <2>1
    <3>2. QED
      BY <3>1 DEF OutEnd, ChildOut
  <2>4. QED
    BY <2>2, <2>3
<1>6. QED
  BY <1>3, <1>4, <1>5

(* A redirection replaces stdin or stdout by a file. *)
LEMMA ChildExecRow ==
  ASSUME IInv, NEW c \in Pids, child_exec(c), Redir(c) # "bad"
  PROVE  \E in \in ChildIn(c), out \in ChildOut(c) : fd' = [fd EXCEPT ![c] = Row(in, out, Closed, Closed, Closed)]
<1>1. PICK in0 \in ChildIn(c), out0 \in ChildOut(c) : fd[c] = Row(in0, out0, Closed, Closed, Closed)
  BY DEF IInv, ChildFds, ChildRow, child_exec
<1> DEFINE in  == IF Redir(c) = "in" THEN File ELSE in0
           out == IF Redir(c) = "out" THEN File ELSE out0
<1>2. fd \in [Procs -> [Slots -> Ends]] /\ c \in Procs /\ fd[c]["in"] = in0 /\ fd[c]["out"] = out0
  BY <1>1 DEF IInv, TypeOK, Procs, Row, Slots
<1>3. fd' = [fd EXCEPT ![c] = [[fd[c] EXCEPT !["in"] = in] EXCEPT !["out"] = out]]
  <2>1. fd' = [fd EXCEPT ![c]["in"]  = IF Redir(c) = "in"  THEN File ELSE @,
                         ![c]["out"] = IF Redir(c) = "out" THEN File ELSE @]
    BY DEF child_exec
  <2>2. QED
    BY <1>2, <2>1
<1>4. [[fd[c] EXCEPT !["in"] = in] EXCEPT !["out"] = out] = Row(in, out, Closed, Closed, Closed)
  <2> HIDE DEF in, out
  <2>1. QED
    BY <1>1 DEF Row, Slots
<1>5. in \in ChildIn(c) /\ out \in ChildOut(c)
  BY DEF ChildIn, ChildOut
<1>6. QED
  BY <1>3, <1>4, <1>5

(* The processes and statuses the steps speak of are of their types. *)
LEMMA Basics ==
  /\ Count \in Nat /\ Count > 0 /\ Cap \in Nat /\ Load \in Nat /\ MaxSignals \in Nat
  /\ Sh \in Procs /\ Sh \notin Pids /\ Pids \subseteq Procs /\ Procs = Pids \cup {Sh}
  /\ \A n \in Cmds : n + 1 \in Pids /\ n \in 0 .. Count
  /\ Exited(0) \in Statuses /\ Exited(1) \in Statuses
  /\ \A c \in Pids : Exited(ExitCode(c)) \in Statuses
  /\ \A sig \in {SIGINT, SIGQUIT, SIGPIPE} : Killed(sig) \in Statuses
  /\ exit_status(Exited(0)) = 0 /\ exit_status(Exited(1)) = 1
  BY PipelineAssumption DEF Procs, Pids, Cmds, Sh, Statuses, exit_status, Exited

(* Nothing but the shell's own state changes, or one child's. *)
LEMMA InitIInv == Init => IInv
<1> SUFFICES ASSUME Init PROVE IInv
  OBVIOUS
<1>1. fd[Sh] = Row(Tty, Tty, Closed, Closed, Closed) /\ \A c \in Pids : fd[c] = NoFds
  <2>1. fd[Sh] = [[NoFds EXCEPT !["in"] = Tty] EXCEPT !["out"] = Tty]
    BY Basics DEF Init
  <2>2. [[NoFds EXCEPT !["in"] = Tty] EXCEPT !["out"] = Tty] = Row(Tty, Tty, Closed, Closed, Closed)
    BY DEF NoFds, Row, Slots
  <2>3. \A c \in Pids : c # Sh /\ c \in Procs
    BY Basics
  <2>4. QED
    BY <2>1, <2>2, <2>3 DEF Init
<1>2. fd \in [Procs -> [Slots -> Ends]]
  <2>1. Row(Tty, Tty, Closed, Closed, Closed) \in [Slots -> Ends]
    BY EndsTyped, RowTyped
  <2>2. \A q \in Procs : fd[q] \in [Slots -> Ends]
    BY <1>1, <2>1, NoFdsRow, Basics
  <2>3. fd = [q \in Procs |-> fd[q]]
    BY DEF Init
  <2>4. QED
    BY <2>2, <2>3
<1>3. TypeOK
  <2>1. plan \in [Cmds -> Command]
    BY PipelineAssumption DEF Init
  <2>2. pids \in [Cmds -> {-1} \cup Procs]
    BY Basics DEF Init, Sh
  <2>3. ret \in {exit_status(w) : w \in Statuses}
    BY Basics DEF Init
  <2>4. QED
    BY <1>2, <2>1, <2>2, <2>3, Basics DEF Init, TypeOK
<1>4. ShellIndex /\ ShellFds
  BY <1>1, Basics DEF Init, ShellIndex, ShellFds, InEnd
<1>5. ChildFds
  BY <1>1 DEF Init, ChildFds, ChildRow
<1>6. QED
  BY <1>3, <1>4, <1>5 DEF IInv

-----------------------------------------------------------------------------
(* The shell's steps. *)
LEMMA StepMalloc == IInv /\ exec_forked_pipeline => IInv'
<1> SUFFICES ASSUME IInv, exec_forked_pipeline PROVE IInv'
  OBVIOUS
<1>1. /\ pc = "malloc" /\ pc' \in {"pipe", "done"}
      /\ UNCHANGED <<i, pids, last, g_sig, cpc, left, status, plan, signals, fd, buf>>
      /\ ret' \in {ret, 1}
  BY DEF exec_forked_pipeline, childVars, world, Return
<1>2. TypeOK'
  <2>1. ret' \in {exit_status(w) : w \in Statuses}
    BY <1>1, Basics DEF IInv, TypeOK
  <2>2. QED
    BY <1>1, <2>1 DEF IInv, TypeOK
<1>3. (ShellIndex /\ ShellFds)'
  BY <1>1 DEF IInv, ShellIndex, ShellFds, InEnd
<1>4. ChildFds'
  BY <1>1 DEF IInv, ChildFds
<1>5. QED
  BY <1>2, <1>3, <1>4 DEF IInv

LEMMA StepMakePipe == IInv /\ MakePipe => IInv'
<1> SUFFICES ASSUME IInv, MakePipe PROVE IInv'
  OBVIOUS
<1>1. /\ pc = "pipe" /\ pc' \in {"fork", "done"}
      /\ UNCHANGED <<i, pids, last, g_sig, cpc, left, status, plan, signals, buf>>
      /\ ret' \in {ret, 1}
      /\ pc' = "done" => fd' = fd
  BY DEF MakePipe, childVars, world, Return
<1>2. i \in Cmds
  BY <1>1, Basics DEF IInv, TypeOK, ShellIndex, Cmds
<1>3. pc' = "fork" => fd' = [fd EXCEPT ![Sh] = Row(Tty, Tty, InEnd(i), NextEnd(i), OutEnd(i))]
  BY MakePipeRow
<1>4. Row(Tty, Tty, InEnd(i), NextEnd(i), OutEnd(i)) \in [Slots -> Ends]
  BY <1>2, EndsTyped, RowTyped
<1>5. /\ fd' \in [Procs -> [Slots -> Ends]]
      /\ pc' = "fork" => fd'[Sh] = Row(Tty, Tty, InEnd(i), NextEnd(i), OutEnd(i))
      /\ \A c \in Pids : fd'[c] = fd[c]
  BY <1>1, <1>3, <1>4, Basics, OneRow DEF IInv, TypeOK
<1>6. TypeOK'
  <2>1. ret' \in {exit_status(w) : w \in Statuses}
    BY <1>1, Basics DEF IInv, TypeOK
  <2>2. QED
    BY <1>1, <1>5, <2>1 DEF IInv, TypeOK
<1>7. (ShellIndex /\ ShellFds)'
  BY <1>1, <1>5 DEF IInv, ShellIndex, ShellFds, InEnd, NextEnd, OutEnd
<1>8. ChildFds'
  BY <1>1, <1>5 DEF IInv, ChildFds
<1>9. QED
  BY <1>6, <1>7, <1>8 DEF IInv

LEMMA StepFork == IInv /\ Fork => IInv'
<1> SUFFICES ASSUME IInv, Fork PROVE IInv'
  OBVIOUS
<1>1. /\ pc = "fork" /\ pc' = "close"
      /\ UNCHANGED <<i, ret, last, g_sig, left, status, plan, signals, buf>>
  BY DEF Fork, world
<1>2. i \in Cmds /\ i + 1 \in Pids /\ i + 1 \in Procs /\ i + 1 # Sh
  BY <1>1, Basics DEF IInv, TypeOK, ShellIndex, Cmds
<1>3. fd[Sh] = Row(Tty, Tty, InEnd(i), NextEnd(i), OutEnd(i)) /\ fd[Sh] \in [Slots -> Ends]
  BY <1>1, Basics DEF IInv, ShellFds, TypeOK
<1>4. CASE fd' = [fd EXCEPT ![i + 1] = fd[Sh]] /\ cpc' = [cpc EXCEPT ![i + 1] = "forked"] /\ pids' = [pids EXCEPT ![i] = i + 1]
  <2>1. /\ fd' \in [Procs -> [Slots -> Ends]] /\ fd'[i + 1] = fd[Sh] /\ fd'[Sh] = fd[Sh]
        /\ \A c \in Pids \ {i + 1} : fd'[c] = fd[c] /\ cpc'[c] = cpc[c]
        /\ cpc'[i + 1] = "forked"
    BY <1>2, <1>3, <1>4, Basics, OneRow DEF IInv, TypeOK
  <2>2. TypeOK'
    BY <1>1, <1>2, <1>4, <2>1 DEF IInv, TypeOK
  <2>3. (ShellIndex /\ ShellFds)'
    BY <1>1, <1>3, <2>1 DEF IInv, ShellIndex, ShellFds, InEnd, NextEnd, OutEnd
  <2>4. ChildFds'
    <3>2. \A c \in Pids : c - 1 = i => fd[Sh] = AtFork(c - 1)
      BY <1>3 DEF AtFork
    <3>3. \A c \in Pids : c - 1 = i => ChildRow(c, "forked", fd[Sh])
      BY <3>2 DEF ChildRow
    <3>4. ASSUME NEW c \in Pids PROVE ChildRow(c, cpc'[c], fd'[c])
      <4>1. CASE c = i + 1
        <5>1. c - 1 = i
          BY <1>2, <4>1 DEF Cmds
        <5>2. QED
          BY <2>1, <3>3, <4>1, <5>1
      <4>2. CASE c # i + 1
        BY <2>1, <4>2 DEF IInv, ChildFds
      <4>3. QED
        BY <4>1, <4>2
    <3>5. QED
      BY <3>4 DEF ChildFds
  <2>5. QED
    BY <2>2, <2>3, <2>4 DEF IInv
<1>5. CASE pids' = [pids EXCEPT ![i] = -1] /\ UNCHANGED <<cpc, fd>>
  <2>1. TypeOK'
    BY <1>1, <1>2, <1>5 DEF IInv, TypeOK
  <2>2. (ShellIndex /\ ShellFds)'
    BY <1>1, <1>5 DEF IInv, ShellIndex, ShellFds, InEnd, NextEnd, OutEnd
  <2>3. ChildFds'
    BY <1>5 DEF IInv, ChildFds
  <2>4. QED
    BY <2>1, <2>2, <2>3 DEF IInv
<1>6. QED
  BY <1>4, <1>5 DEF Fork

LEMMA StepCloseEnds == IInv /\ CloseEnds => IInv'
<1> SUFFICES ASSUME IInv, CloseEnds PROVE IInv'
  OBVIOUS
<1>1. /\ pc = "close"
      /\ UNCHANGED <<pids, ret, last, g_sig, cpc, left, status, plan, signals, buf>>
      /\ IF i + 1 < Count THEN pc' = "pipe" /\ i' = i + 1 ELSE pc' = "wait" /\ i' = 0
  BY DEF CloseEnds, NextCommand, childVars, world
<1>2. i \in Cmds /\ i \in Nat /\ i < Count
  BY <1>1, Basics DEF IInv, TypeOK, ShellIndex, Cmds
<1>3. Row(Tty, Tty, NextEnd(i), Closed, Closed) \in [Slots -> Ends]
  BY <1>2, EndsTyped, RowTyped
<1>4. /\ fd' \in [Procs -> [Slots -> Ends]]
      /\ fd'[Sh] = Row(Tty, Tty, NextEnd(i), Closed, Closed)
      /\ \A c \in Pids : fd'[c] = fd[c]
  BY <1>3, CloseEndsRow, Basics, OneRow DEF IInv, TypeOK
<1>5. TypeOK'
  BY <1>1, <1>2, <1>4, Basics DEF IInv, TypeOK
<1>6. (ShellIndex /\ ShellFds)'
  <2>1. CASE i + 1 < Count
    <3>1. pc' = "pipe" /\ i' = i + 1 /\ i' # 0 /\ i' - 1 = i /\ i < Count - 1
      BY <1>1, <1>2, <2>1, Basics
    <3>2. InEnd(i') = NextEnd(i)
      BY <3>1 DEF InEnd, NextEnd
    <3>3. QED
      BY <1>4, <2>1, <3>1, <3>2 DEF ShellIndex, ShellFds, InEnd
  <2>2. CASE ~ (i + 1 < Count)
    <3>1. pc' = "wait" /\ NextEnd(i) = Closed
      BY <1>1, <1>2, <2>2, Basics DEF NextEnd
    <3>2. QED
      BY <1>4, <3>1 DEF ShellIndex, ShellFds
  <2>3. QED
    BY <2>1, <2>2
<1>7. ChildFds'
  BY <1>1, <1>4 DEF IInv, ChildFds
<1>8. QED
  BY <1>5, <1>6, <1>7 DEF IInv

LEMMA StepWait == IInv /\ wait_all => IInv'
<1> SUFFICES ASSUME IInv, wait_all PROVE IInv'
  OBVIOUS
<1>1. /\ pc = "wait" /\ i < Count
      /\ UNCHANGED <<pids, left, status, plan, signals, fd, buf>>
  BY DEF wait_all, world
<1>2. ASSUME NEW c \in Zombies, cpc' = [cpc EXCEPT ![c] = "reaped"], last' \in {status[c], last},
             i' = i + 1, UNCHANGED <<ret, pc, g_sig>>
      PROVE  IInv'
  <2>1. c \in Pids /\ cpc[c] = "zombie"
    BY <1>2 DEF Zombies
  <2>2. TypeOK'
    BY <1>1, <1>2, <2>1, Basics DEF IInv, TypeOK
  <2>3. (ShellIndex /\ ShellFds)'
    BY <1>1, <1>2 DEF IInv, ShellIndex, ShellFds
  <2>4. ChildFds'
    BY <1>1, <1>2, <2>1 DEF IInv, TypeOK, ChildFds, ChildRow
  <2>5. QED
    BY <2>2, <2>3, <2>4 DEF IInv
<1>3. ASSUME Return(1), g_sig' = 0, UNCHANGED <<cpc, last, i>>
      PROVE  IInv'
  <2>1. TypeOK'
    BY <1>1, <1>3, Basics DEF IInv, TypeOK, Return
  <2>2. (ShellIndex /\ ShellFds)'
    BY <1>1, <1>3 DEF IInv, ShellIndex, ShellFds, Return
  <2>3. ChildFds'
    BY <1>1, <1>3 DEF IInv, ChildFds
  <2>4. QED
    BY <2>1, <2>2, <2>3 DEF IInv
<1>4. QED
  BY <1>2, <1>3 DEF wait_all

LEMMA StepWaitEnd == IInv /\ wait_all_end => IInv'
<1> SUFFICES ASSUME IInv, wait_all_end PROVE IInv'
  OBVIOUS
<1>1. /\ pc = "wait" /\ ret' = exit_status(last) /\ pc' = "done" /\ g_sig' = 0
      /\ UNCHANGED <<i, pids, last, cpc, left, status, plan, signals, fd, buf>>
  BY DEF wait_all_end, Return, childVars, world
<1>2. TypeOK'
  BY <1>1 DEF IInv, TypeOK
<1>3. (ShellIndex /\ ShellFds)'
  BY <1>1 DEF IInv, ShellIndex, ShellFds
<1>4. ChildFds'
  BY <1>1 DEF IInv, ChildFds
<1>5. QED
  BY <1>2, <1>3, <1>4 DEF IInv

-----------------------------------------------------------------------------
(* The children's steps, and the user's.  What a child does to its own
   descriptors leaves the shell's and the other children's. *)
LEMMA ChildFrame ==
  ASSUME IInv, NEW c \in Pids, NEW at \in {"forked", "redir", "run", "zombie"}, NEW row \in [Slots -> Ends],
         ChildRow(c, at, row), cpc' = [cpc EXCEPT ![c] = at], fd' = [fd EXCEPT ![c] = row],
         UNCHANGED <<pc, i>>
  PROVE  /\ cpc' \in [Pids -> {"none", "forked", "redir", "run", "zombie", "reaped"}]
         /\ fd' \in [Procs -> [Slots -> Ends]]
         /\ (ShellIndex /\ ShellFds /\ ChildFds)'
<1>1. /\ c \in Procs /\ c # Sh
      /\ cpc \in [Pids -> {"none", "forked", "redir", "run", "zombie", "reaped"}]
      /\ fd \in [Procs -> [Slots -> Ends]]
  BY Basics DEF IInv, TypeOK
<1>2. /\ fd' \in [Procs -> [Slots -> Ends]] /\ fd'[c] = row /\ fd'[Sh] = fd[Sh]
      /\ \A d \in Pids \ {c} : fd'[d] = fd[d]
  BY <1>1, OneRow, Basics
<1>3. /\ cpc' \in [Pids -> {"none", "forked", "redir", "run", "zombie", "reaped"}]
      /\ cpc'[c] = at /\ \A d \in Pids \ {c} : cpc'[d] = cpc[d]
  BY <1>1
<1>4. (ShellIndex /\ ShellFds)'
  BY <1>2 DEF IInv, ShellIndex, ShellFds, InEnd, NextEnd, OutEnd
<1>5. ChildFds'
  BY <1>2, <1>3 DEF IInv, ChildFds
<1>6. QED
  BY <1>2, <1>3, <1>4, <1>5

LEMMA EndFrame ==
  ASSUME IInv, NEW c \in Pids, NEW w \in Statuses, End(c, w), UNCHANGED <<pc, i>>
  PROVE  /\ cpc' \in [Pids -> {"none", "forked", "redir", "run", "zombie", "reaped"}]
         /\ fd' \in [Procs -> [Slots -> Ends]]
         /\ status' \in [Pids -> Statuses]
         /\ (ShellIndex /\ ShellFds /\ ChildFds)'
<1>1. ChildRow(c, "zombie", NoFds) /\ NoFds \in [Slots -> Ends]
  BY NoFdsRow DEF ChildRow
<1>2. QED
  BY <1>1, ChildFrame DEF End, IInv, TypeOK

LEMMA StepForkChild == ASSUME NEW c \in Pids PROVE IInv /\ fork_child(c) => IInv'
<1> SUFFICES ASSUME IInv, fork_child(c) PROVE IInv'
  OBVIOUS
<1>1. /\ cpc' = [cpc EXCEPT ![c] = "redir"]
      /\ UNCHANGED <<pc, i, pids, ret, last, g_sig, left, status, plan, signals, buf>>
  BY DEF fork_child, shVars, world
<1>2. PICK in \in ChildIn(c), out \in ChildOut(c) : fd' = [fd EXCEPT ![c] = Row(in, out, Closed, Closed, Closed)]
  BY ForkChildRow
<1>3. Row(in, out, Closed, Closed, Closed) \in [Slots -> Ends] /\ ChildRow(c, "redir", Row(in, out, Closed, Closed, Closed))
  BY EndsTyped, RowTyped DEF ChildRow
<1>4. /\ cpc' \in [Pids -> {"none", "forked", "redir", "run", "zombie", "reaped"}]
      /\ fd' \in [Procs -> [Slots -> Ends]]
      /\ (ShellIndex /\ ShellFds /\ ChildFds)'
  BY <1>1, <1>2, <1>3, ChildFrame
<1>5. TypeOK'
  BY <1>1, <1>4 DEF IInv, TypeOK
<1>6. QED
  BY <1>4, <1>5 DEF IInv

LEMMA StepChildExec == ASSUME NEW c \in Pids PROVE IInv /\ child_exec(c) => IInv'
<1> SUFFICES ASSUME IInv, child_exec(c) PROVE IInv'
  OBVIOUS
<1>1. UNCHANGED <<pc, i, pids, ret, last, g_sig, plan, signals, buf>>
  BY DEF child_exec, shVars, world
<1>2. CASE Redir(c) = "bad"
  <2>1. End(c, Exited(1)) /\ UNCHANGED left
    BY <1>2 DEF child_exec
  <2>2. /\ cpc' \in [Pids -> {"none", "forked", "redir", "run", "zombie", "reaped"}]
        /\ fd' \in [Procs -> [Slots -> Ends]]
        /\ status' \in [Pids -> Statuses]
        /\ (ShellIndex /\ ShellFds /\ ChildFds)'
    BY <1>1, <2>1, EndFrame, Basics
  <2>3. TypeOK'
    BY <1>1, <2>1, <2>2 DEF IInv, TypeOK
  <2>4. QED
    BY <2>2, <2>3 DEF IInv
<1>3. CASE Redir(c) # "bad"
  <2>1. /\ cpc' = [cpc EXCEPT ![c] = "run"] /\ UNCHANGED status
        /\ left' = [left EXCEPT ![c] = IF Prog(c) = "emit" THEN Load ELSE 0]
    BY <1>3 DEF child_exec
  <2>2. PICK in \in ChildIn(c), out \in ChildOut(c) : fd' = [fd EXCEPT ![c] = Row(in, out, Closed, Closed, Closed)]
    BY <1>3, ChildExecRow
  <2>3. Row(in, out, Closed, Closed, Closed) \in [Slots -> Ends] /\ ChildRow(c, "run", Row(in, out, Closed, Closed, Closed))
    BY EndsTyped, RowTyped DEF ChildRow
  <2>4. /\ cpc' \in [Pids -> {"none", "forked", "redir", "run", "zombie", "reaped"}]
        /\ fd' \in [Procs -> [Slots -> Ends]]
        /\ (ShellIndex /\ ShellFds /\ ChildFds)'
    BY <1>1, <2>1, <2>2, <2>3, ChildFrame
  <2>5. left' \in [Pids -> Nat]
    BY <2>1, Basics DEF IInv, TypeOK
  <2>6. TypeOK'
    BY <1>1, <2>1, <2>4, <2>5 DEF IInv, TypeOK
  <2>7. QED
    BY <2>4, <2>6 DEF IInv
<1>4. QED
  BY <1>2, <1>3

(* A step that changes no descriptor and no child's place. *)
LEMMA DataFrame ==
  ASSUME IInv, UNCHANGED <<pc, i, cpc, fd>>
  PROVE  (ShellIndex /\ ShellFds /\ ChildFds)'
<1>1. (ShellIndex /\ ShellFds)'
  BY DEF IInv, ShellIndex, ShellFds, InEnd, NextEnd, OutEnd
<1>2. ChildFds'
  BY DEF IInv, ChildFds
<1>3. QED
  BY <1>1, <1>2

LEMMA StepWrite == ASSUME NEW c \in Pids PROVE IInv /\ Write(c) => IInv'
<1> SUFFICES ASSUME IInv, Write(c) PROVE IInv'
  OBVIOUS
<1>1. left[c] > 0 /\ UNCHANGED <<pc, i, pids, ret, last, g_sig, plan, signals>>
  BY DEF Write, shVars, world
<1>2. left \in [Pids -> Nat] /\ buf \in [Pipes -> 0 .. Cap]
  BY DEF IInv, TypeOK
<1>3. ASSUME left' = [left EXCEPT ![c] = @ - 1], buf' \in [Pipes -> 0 .. Cap], UNCHANGED <<cpc, status, fd>>
      PROVE  IInv'
  <2>1. left' \in [Pids -> Nat]
    BY <1>1, <1>2, <1>3
  <2>2. TypeOK'
    BY <1>1, <1>3, <2>1 DEF IInv, TypeOK
  <2>3. QED
    BY <1>1, <1>3, <2>2, DataFrame DEF IInv
<1>4. ASSUME NEW k \in Pipes, buf[k] < Cap, buf' = [buf EXCEPT ![k] = @ + 1]
      PROVE  buf' \in [Pipes -> 0 .. Cap]
  BY <1>2, <1>4, Basics
<1>5. ASSUME End(c, Killed(SIGPIPE)), UNCHANGED <<buf, left>>
      PROVE  IInv'
  <2>1. /\ cpc' \in [Pids -> {"none", "forked", "redir", "run", "zombie", "reaped"}]
        /\ fd' \in [Procs -> [Slots -> Ends]]
        /\ status' \in [Pids -> Statuses]
        /\ (ShellIndex /\ ShellFds /\ ChildFds)'
    BY <1>1, <1>5, EndFrame, Basics
  <2>2. TypeOK'
    BY <1>1, <1>5, <2>1 DEF IInv, TypeOK
  <2>3. QED
    BY <2>1, <2>2 DEF IInv
<1>6. QED
  BY <1>2, <1>3, <1>4, <1>5 DEF Write

LEMMA StepRead == ASSUME NEW c \in Pids PROVE IInv /\ Read(c) => IInv'
<1> SUFFICES ASSUME IInv, Read(c) PROVE IInv'
  OBVIOUS
<1>1. UNCHANGED <<pc, i, pids, ret, last, g_sig, plan, signals>>
  BY DEF Read, shVars, world
<1>2. buf' \in [Pipes -> 0 .. Cap]
  <2>1. PICK k \in Pipes : buf[k] > 0 /\ buf' = [buf EXCEPT ![k] = @ - 1]
    BY DEF Read
  <2>2. QED
    BY <2>1, Basics DEF IInv, TypeOK
<1>3. CASE left' = [left EXCEPT ![c] = 1] /\ UNCHANGED <<cpc, status, fd>>
  <2>1. TypeOK'
    BY <1>1, <1>2, <1>3 DEF IInv, TypeOK
  <2>2. QED
    BY <1>1, <1>3, <2>1, DataFrame DEF IInv
<1>4. CASE End(c, Exited(ExitCode(c))) /\ UNCHANGED left
  <2>1. /\ cpc' \in [Pids -> {"none", "forked", "redir", "run", "zombie", "reaped"}]
        /\ fd' \in [Procs -> [Slots -> Ends]]
        /\ status' \in [Pids -> Statuses]
        /\ (ShellIndex /\ ShellFds /\ ChildFds)'
    BY <1>1, <1>4, EndFrame, Basics
  <2>2. TypeOK'
    BY <1>1, <1>2, <1>4, <2>1 DEF IInv, TypeOK
  <2>3. QED
    BY <2>1, <2>2 DEF IInv
<1>5. QED
  BY <1>3, <1>4 DEF Read

LEMMA StepExit == ASSUME NEW c \in Pids PROVE IInv /\ Exit(c) => IInv'
<1> SUFFICES ASSUME IInv, Exit(c) PROVE IInv'
  OBVIOUS
<1>1. UNCHANGED <<pc, i, pids, ret, last, g_sig, left, plan, signals, buf>> /\ End(c, Exited(ExitCode(c)))
  BY DEF Exit, shVars, world
<1>2. /\ cpc' \in [Pids -> {"none", "forked", "redir", "run", "zombie", "reaped"}]
      /\ fd' \in [Procs -> [Slots -> Ends]]
      /\ status' \in [Pids -> Statuses]
      /\ (ShellIndex /\ ShellFds /\ ChildFds)'
  BY <1>1, EndFrame, Basics
<1>3. TypeOK'
  BY <1>1, <1>2 DEF IInv, TypeOK
<1>4. QED
  BY <1>2, <1>3 DEF IInv

LEMMA StepKey == ASSUME NEW s \in {SIGINT, SIGQUIT} PROVE IInv /\ Key(s) => IInv'
<1> SUFFICES ASSUME IInv, Key(s) PROVE IInv'
  OBVIOUS
<1>1. /\ UNCHANGED <<pc, i, pids, ret, last, left, plan, buf>>
      /\ signals' = signals + 1 /\ signals < MaxSignals
      /\ g_sig' = IF s = SIGINT THEN SIGINT ELSE g_sig
      /\ cpc' = [c \in Pids |-> IF c \in Victims(s) THEN "zombie" ELSE cpc[c]]
      /\ status' = [c \in Pids |-> IF c \in Victims(s) THEN Killed(s) ELSE status[c]]
      /\ fd' = [q \in Procs |-> IF q \in Victims(s) THEN NoFds ELSE fd[q]]
  BY DEF Key
<1>2. Victims(s) \subseteq Pids /\ Sh \notin Victims(s) /\ Killed(s) \in Statuses
  BY Basics DEF Victims, Alive
<1>3. TypeOK'
  <2>1. fd' \in [Procs -> [Slots -> Ends]]
    BY <1>1, NoFdsRow DEF IInv, TypeOK
  <2>2. cpc' \in [Pids -> {"none", "forked", "redir", "run", "zombie", "reaped"}] /\ status' \in [Pids -> Statuses]
    BY <1>1, <1>2 DEF IInv, TypeOK
  <2>3. signals' \in 0 .. MaxSignals /\ g_sig' \in {0, SIGINT}
    BY <1>1, Basics DEF IInv, TypeOK
  <2>4. QED
    BY <1>1, <2>1, <2>2, <2>3 DEF IInv, TypeOK
<1>4. (ShellIndex /\ ShellFds)'
  <2>1. fd'[Sh] = fd[Sh]
    BY <1>1, <1>2, Basics
  <2>2. QED
    BY <1>1, <2>1 DEF IInv, ShellIndex, ShellFds, InEnd, NextEnd, OutEnd
<1>5. ChildFds'
  <2>1. \A c \in Pids : ChildRow(c, "zombie", NoFds)
    BY DEF ChildRow
  <2>2. \A c \in Pids : \/ (cpc'[c] = "zombie" /\ fd'[c] = NoFds)
                         \/ (cpc'[c] = cpc[c] /\ fd'[c] = fd[c])
    BY <1>1, Basics
  <2>3. QED
    BY <2>1, <2>2 DEF IInv, ChildFds
<1>6. QED
  BY <1>3, <1>4, <1>5 DEF IInv

LEMMA NextIInv == IInv /\ [Next]_vars => IInv'
<1> SUFFICES ASSUME IInv, [Next]_vars PROVE IInv'
  OBVIOUS
<1>1. CASE Shell
  BY <1>1, StepMalloc, StepMakePipe, StepFork, StepCloseEnds, StepWait, StepWaitEnd DEF Shell
<1>2. ASSUME NEW c \in Pids, Child(c) PROVE IInv'
  BY <1>2, StepForkChild, StepChildExec, StepWrite, StepRead, StepExit DEF Child
<1>3. ASSUME NEW s \in {SIGINT, SIGQUIT}, Key(s) PROVE IInv'
  BY <1>3, StepKey
<1>4. CASE UNCHANGED vars
  <2>1. UNCHANGED <<pc, i, pids, ret, last, g_sig, cpc, left, status, plan, signals, fd, buf>>
    BY <1>4 DEF vars, shVars, childVars, world
  <2>2. TypeOK'
    BY <2>1 DEF IInv, TypeOK
  <2>3. QED
    BY <2>1, <2>2, DataFrame DEF IInv
<1>5. QED
  BY <1>1, <1>2, <1>3, <1>4 DEF Next, Finished

LEMMA Inductive == Spec => []IInv
<1>1. QED
  BY InitIInv, NextIInv, PTL DEF Spec

(* Which pipe ends a row can hold: a command's own two, and, between fork and
   fork_child, the one its neighbour will read from. *)
LEMMA ChildEnds ==
  ASSUME IInv, NEW c \in Pids, NEW s \in Slots, NEW k \in Pipes
  PROVE  /\ fd[c][s] = W(k) => k + 1 = c
         /\ fd[c][s] = R(k) => k + 1 = c \/ k + 2 = c
<1>1. ChildRow(c, cpc[c], fd[c]) /\ cpc[c] \in {"none", "forked", "redir", "run", "zombie", "reaped"}
  BY DEF IInv, ChildFds, TypeOK
<1>2. c \in Int /\ k \in Int
  BY DEF Pids, Pipes
<1>3. \A n, m \in Int : /\ R(n) = R(m) => n = m
                        /\ W(n) = W(m) => n = m
                        /\ R(n) # W(m) /\ R(n) # Closed /\ R(n) # Tty /\ R(n) # File
                        /\ W(n) # Closed /\ W(n) # Tty /\ W(n) # File
  BY DEF R, W, Closed, Tty, File
<1>4. CASE cpc[c] \in {"none", "zombie", "reaped"}
  <2>1. fd[c][s] = Closed
    BY <1>1, <1>4 DEF ChildRow, NoFds
  <2>2. QED
    BY <1>2, <1>3, <2>1
<1>5. CASE cpc[c] = "forked"
  <2>1. fd[c][s] \in {Tty, InEnd(c - 1), NextEnd(c - 1), OutEnd(c - 1)}
    BY <1>1, <1>5 DEF ChildRow, AtFork, Row, Slots
  <2>2. InEnd(c - 1) \in {Closed, R(c - 2)}
    <3>1. (c - 1) - 1 = c - 2
      BY <1>2
    <3>2. QED
      BY <3>1 DEF InEnd
  <2>3. NextEnd(c - 1) \in {Closed, R(c - 1)} /\ OutEnd(c - 1) \in {Closed, W(c - 1)}
    BY DEF NextEnd, OutEnd
  <2>4. c - 1 \in Int /\ c - 2 \in Int
    BY <1>2
  <2>5. fd[c][s] \in {Tty, Closed, R(c - 2), R(c - 1), W(c - 1)}
    BY <2>1, <2>2, <2>3
  <2>6. (fd[c][s] = W(k) => k = c - 1) /\ (fd[c][s] = R(k) => k = c - 1 \/ k = c - 2)
    BY <1>2, <1>3, <2>4, <2>5
  <2>7. QED
    BY <1>2, <2>6
<1>6. CASE cpc[c] \in {"redir", "run"}
  <2>1. PICK in \in ChildIn(c), out \in ChildOut(c) : fd[c] = Row(in, out, Closed, Closed, Closed)
    BY <1>1, <1>6 DEF ChildRow
  <2>2. fd[c][s] \in {in, out, Closed}
    BY <2>1 DEF Row, Slots
  <2>3. fd[c][s] \in {Tty, File, Closed, R(c - 2), W(c - 1)}
    BY <2>2 DEF ChildIn, ChildOut
  <2>4. c - 1 \in Int /\ c - 2 \in Int
    BY <1>2
  <2>5. (fd[c][s] = W(k) => k = c - 1) /\ (fd[c][s] = R(k) => k = c - 2)
    BY <1>2, <1>3, <2>3, <2>4
  <2>6. QED
    BY <1>2, <2>5
<1>7. QED
  BY <1>1, <1>4, <1>5, <1>6

(* The invariant puts pipe ends where they are meant to be. *)
LEMMA MeantEnds == IInv => PipeEndsWhereMeant
<1> SUFFICES ASSUME IInv PROVE PipeEndsWhereMeant
  OBVIOUS
<1>1. ASSUME NEW k \in Pipes
      PROVE  Writers(k) \subseteq {Sh, k + 1} /\ Readers(k) \subseteq {Sh, k + 1, k + 2}
  BY <1>1, ChildEnds, Basics DEF Writers, Readers
<1>2. ASSUME NEW c \in Pids, cpc[c] \in {"redir", "run"}
      PROVE  /\ \A s \in {"prev", "p0", "p1"} : fd[c][s] = Closed
             /\ fd[c]["in"] \in ChildIn(c)
             /\ fd[c]["out"] \in ChildOut(c)
  <2>1. PICK in \in ChildIn(c), out \in ChildOut(c) : fd[c] = Row(in, out, Closed, Closed, Closed)
    BY <1>2 DEF IInv, ChildFds, ChildRow
  <2>2. in \in Ends /\ out \in Ends /\ Closed \in Ends
    BY EndsTyped
  <2>3. QED
    BY <2>1, <2>2, RowTyped
<1>3. QED
  BY <1>1, <1>2 DEF PipeEndsWhereMeant, ChildIn, ChildOut

(* The pipeline's variables keep their types. *)
THEOREM PipelineTypeOK == Spec => []TypeOK
<1>1. IInv => TypeOK
  BY DEF IInv
<1>2. QED
  BY <1>1, Inductive, PTL

(* In a pipeline of any length, whichever of malloc, pipe and fork fail and
   whatever keys are pressed, fork_all and fork_child leave no pipe end with a
   process it is not meant for. *)
THEOREM PipelineEndsWhereMeant == Spec => []PipeEndsWhereMeant
<1>1. QED
  BY MeantEnds, Inductive, PTL

-----------------------------------------------------------------------------
(* Whichever calls fail, exec_forked_pipeline implements a Job.  The invariant
   behind it says which commands are where at each point of fork_all's and
   wait_all's loops; once every command is forked the loops keep their order
   to the end. *)

Unforked(n)  == cpc[n + 1] = "none" /\ pids[n] = 0
Missing(n)   == cpc[n + 1] = "none" /\ pids[n] = -1
Running(n)   == cpc[n + 1] \in {"forked", "redir", "run", "zombie"} /\ pids[n] = n + 1
Collected(n) == cpc[n + 1] = "reaped" /\ pids[n] = n + 1

(* fork has been called for commands 0 .. n - 1. *)
ForkedUpTo(n) ==
    /\ \A m \in Cmds : m < n => Running(m) \/ Missing(m)
    /\ \A m \in Cmds : n <= m => Unforked(m)
(* wait_all has collected them; the others it will find by their pids. *)
CollectedUpTo(n) ==
    /\ \A m \in Cmds : m < n => Collected(m)
    /\ \A m \in Cmds : n <= m => Running(m)

(* What the shell has open at the end: prev, when pipe() failed, or nothing. *)
ShellHolds ==
    /\ fd[Sh]["p0"] = Closed /\ fd[Sh]["p1"] = Closed
    /\ fd[Sh]["prev"] = Closed \/ \E n \in Cmds : pids[n] = 0

Placed  == \A m \in Cmds : Unforked(m) \/ Missing(m) \/ Running(m) \/ Collected(m)
Ordered ==
    /\ pc \in {"malloc", "pipe", "fork"} => ForkedUpTo(i)
    /\ pc = "close" => ForkedUpTo(i + 1)
    /\ pc = "wait"  => \A m \in Cmds : ~ Unforked(m)
    /\ pc = "wait" /\ EveryForked => CollectedUpTo(i) /\ (i = Count => last = status[Count])
    /\ pc = "done" /\ EveryForked => CollectedUpTo(Count) /\ ret = exit_status(status[Count])
    /\ pc = "done" => ShellHolds

OInv == IInv /\ Placed /\ Ordered

-----------------------------------------------------------------------------
LEMMA ValuesAreNat == \A w \in Statuses : exit_status(w) \in Nat
<1>1. \A w \in Statuses : w.sig \in Nat /\ w.code \in Nat
  BY PipelineAssumption DEF Statuses, Killed, Exited, ExitCode, SIGINT, SIGQUIT, SIGPIPE, Pids
<1>2. QED
  BY <1>1 DEF exit_status

LEMMA InitOrdered == Init => Placed /\ Ordered
<1> SUFFICES ASSUME Init PROVE Placed /\ Ordered
  OBVIOUS
<1>1. \A m \in Cmds : m + 1 \in Pids /\ m \in Int /\ 0 <= m
  BY Basics DEF Cmds
<1>2. \A m \in Cmds : Unforked(m)
  BY <1>1 DEF Init, Unforked
<1>3. ForkedUpTo(i)
  BY <1>1, <1>2 DEF Init, ForkedUpTo
<1>4. QED
  BY <1>2, <1>3 DEF Init, Placed, Ordered

(* A step of a child, or of several: some that are alive end, or go from one
   place to the next. *)
ChildrenGoOn ==
    /\ \A c \in Pids : cpc'[c] # cpc[c] => cpc[c] \in {"forked", "redir", "run"} /\ cpc'[c] \in {"redir", "run", "zombie"}
    /\ \A c \in Pids : status'[c] # status[c] => cpc[c] \in {"forked", "redir", "run"}
    /\ fd'[Sh] = fd[Sh]
    /\ UNCHANGED <<pc, i, pids, ret, last>>

LEMMA ChildrenGoOnOrdered == OInv /\ ChildrenGoOn => (Placed /\ Ordered)'
<1> SUFFICES ASSUME OInv, ChildrenGoOn PROVE (Placed /\ Ordered)'
  OBVIOUS
<1>1. \A m \in Cmds : m + 1 \in Pids /\ m \in Int
  BY Basics DEF Cmds
<1>2. \A m \in Cmds : /\ Unforked(m)  <=> Unforked(m)'
                      /\ Missing(m)   <=> Missing(m)'
                      /\ Collected(m) <=> Collected(m)'
                      /\ Running(m)   <=> Running(m)'
  BY <1>1 DEF ChildrenGoOn, Unforked, Missing, Collected, Running
<1>3. \A n \in Nat : (ForkedUpTo(n) => ForkedUpTo(n)') /\ (CollectedUpTo(n) => CollectedUpTo(n)')
  BY <1>2 DEF ForkedUpTo, CollectedUpTo
<1>4. i \in Nat /\ i + 1 \in Nat /\ Count \in Nat /\ Count \in Pids /\ Count - 1 \in Cmds /\ (Count - 1) + 1 = Count
      /\ Count - 1 < Count
  BY Basics DEF OInv, IInv, TypeOK, Pids, Cmds
<1>5. CollectedUpTo(Count) => status'[Count] = status[Count]
  <2>1. CollectedUpTo(Count) => cpc[Count] = "reaped"
    BY <1>4 DEF CollectedUpTo, Collected
  <2>2. QED
    BY <1>4, <2>1 DEF ChildrenGoOn
<1>6. UNCHANGED <<pc, i, ret, last, pids>> /\ fd'[Sh] = fd[Sh] /\ (EveryForked' <=> EveryForked)
  BY DEF ChildrenGoOn, EveryForked
<1>7. pc = "wait" /\ EveryForked => (CollectedUpTo(i) /\ (i = Count => last = status[Count]))'
  BY <1>3, <1>4, <1>5, <1>6 DEF OInv, Ordered
<1>8. /\ pc = "done" /\ EveryForked => (CollectedUpTo(Count) /\ ret = exit_status(status[Count]))'
      /\ pc = "done" => ShellHolds'
  <2>1. ASSUME pc = "done", EveryForked
        PROVE  (CollectedUpTo(Count) /\ ret = exit_status(status[Count]))'
    <3>1. CollectedUpTo(Count) /\ ret = exit_status(status[Count])
      BY <2>1 DEF OInv, Ordered
    <3>2. CollectedUpTo(Count)'
      BY <1>3, <1>4, <3>1
    <3>3. (ret = exit_status(status[Count]))'
      BY <1>5, <1>6, <3>1
    <3>4. QED
      BY <3>2, <3>3
  <2>2. ASSUME pc = "done" PROVE ShellHolds'
    BY <1>6, <2>2 DEF OInv, Ordered, ShellHolds
  <2>3. QED
    BY <2>1, <2>2
<1>9. Placed'
  BY <1>2 DEF OInv, Placed
<1>10. pc = "wait" => \A m \in Cmds : ~ Unforked(m)'
  BY <1>2 DEF OInv, Ordered
<1>11. /\ pc \in {"malloc", "pipe", "fork"} => ForkedUpTo(i)'
       /\ pc = "close" => ForkedUpTo(i + 1)'
  BY <1>3, <1>4, <1>6 DEF OInv, Ordered
<1>12. Ordered'
  BY <1>6, <1>7, <1>8, <1>10, <1>11 DEF Ordered
<1>13. QED
  BY <1>9, <1>12

-----------------------------------------------------------------------------
(* The mapping onto a Job, place by place. *)
LEMMA StageOf ==
  /\ \A at : Stage(-1, at) = "missing"
  /\ \A p : p # -1 => /\ Stage(p, "none") = "new" /\ Stage(p, "zombie") = "ended" /\ Stage(p, "reaped") = "collected"
                      /\ Stage(p, "forked") = "live" /\ Stage(p, "redir") = "live" /\ Stage(p, "run") = "live"
  /\ \A w : /\ EndValue("none", w) = -1 /\ EndValue("forked", w) = -1
           /\ EndValue("redir", w) = -1 /\ EndValue("run", w) = -1
           /\ EndValue("zombie", w) = exit_status(w) /\ EndValue("reaped", w) = exit_status(w)
  BY DEF Stage, EndValue

LEMMA PlaceOf ==
  ASSUME NEW n \in Cmds
  PROVE  /\ Unforked(n)  => jobState[n] = "new" /\ jobValue[n] = -1
         /\ Missing(n)   => jobState[n] = "missing" /\ jobValue[n] = -1
         /\ Running(n)   => jobState[n] \in {"live", "ended"}
         /\ Collected(n) => jobState[n] = "collected" /\ jobValue[n] = exit_status(status[n + 1])
<1>1. n \in Int /\ n + 1 # -1
  BY Basics DEF Cmds
<1>2. QED
  BY <1>1, StageOf DEF Unforked, Missing, Running, Collected, jobState, jobValue

(* When a command is missing, or there is one still to launch, the Job knows. *)
LEMMA Incomplete ==
  ASSUME OInv
  PROVE  /\ (\A n \in Cmds : ~ Unforked(n)) => JobSpec!Launched
         /\ (\A n \in Cmds : ~ Unforked(n)) /\ ~ EveryForked => ~ JobSpec!Whole
         /\ \A n \in Cmds : Unforked(n) => ~ JobSpec!Launched /\ ~ EveryForked
<1>1. \A n \in Cmds : jobState[n] = "new" => Unforked(n)
  BY PlaceOf DEF OInv, Placed
<1>2. \A n \in Cmds : ~ Unforked(n) /\ pids[n] # n + 1 => jobState[n] = "missing"
  BY PlaceOf DEF OInv, Placed, Running, Collected
<1>3. \A n \in Cmds : Unforked(n) => jobState[n] = "new" /\ pids[n] # n + 1
  <2>1. \A n \in Cmds : n \in Int /\ n + 1 # 0
    BY DEF Cmds
  <2>2. QED
    BY <2>1, PlaceOf DEF Unforked
<1>4. QED
  BY <1>1, <1>2, <1>3 DEF EveryForked, JobSpec!Launched, JobSpec!Whole, JobSpec!Cmds, Cmds

LEMMA InitJob == Init => JobSpec!Init
<1> SUFFICES ASSUME Init PROVE JobSpec!Init
  OBVIOUS
<1>1. \A n \in Cmds : cpc[n + 1] = "none" /\ pids[n] = 0 /\ pids[n] # -1
  BY Basics DEF Init
<1>2. jobState = [n \in Cmds |-> "new"] /\ jobValue = [n \in Cmds |-> -1] /\ jobResult = -1
  BY <1>1, StageOf DEF Init, jobState, jobValue, jobResult
<1>3. QED
  BY <1>2 DEF JobSpec!Init, JobSpec!Cmds, JobSpec!NoResult, Cmds

(* Nothing of a Job happens in a step that leaves every child's place and
   what the call returned as they were. *)
LEMMA JobStutters ==
  ASSUME UNCHANGED <<cpc, status, pids>>, pc' # "done", pc # "done"
  PROVE  UNCHANGED JobSpec!vars
<1>1. UNCHANGED <<jobState, jobValue, jobResult>>
  BY DEF jobState, jobValue, jobResult
<1>2. QED
  BY <1>1 DEF JobSpec!vars

(* Children that end together, of one cause, are an End of the Job. *)
LEMMA JobEnds ==
  ASSUME OInv, NEW S \in SUBSET Alive, S # {}, NEW w \in Statuses,
         cpc' = [c \in Pids |-> IF c \in S THEN "zombie" ELSE cpc[c]],
         status' = [c \in Pids |-> IF c \in S THEN w ELSE status[c]],
         UNCHANGED <<pc, ret, pids>>
  PROVE  JobSpec!Next
<1> DEFINE T == {c - 1 : c \in S}
<1>1. /\ S \subseteq Pids /\ \A c \in S : cpc[c] \in {"forked", "redir", "run"}
      /\ \A n \in Cmds : n + 1 \in Pids /\ n \in Int
  BY Basics DEF Alive, Cmds
<1>2. T \in SUBSET Cmds /\ T # {} /\ \A n \in Cmds : n \in T <=> n + 1 \in S
  <2>1. \A c \in S : c \in Int /\ c - 1 \in Cmds
    BY <1>1, Basics DEF Pids, Cmds
  <2>2. T \subseteq Cmds
    BY <2>1
  <2>3. T # {}
    OBVIOUS
  <2>4. \A n \in Cmds : n + 1 \in S => n \in T
    <3>1. \A n \in Cmds : n = (n + 1) - 1
      BY <1>1
    <3>2. QED
      BY <3>1
  <2>5. \A n \in Cmds : n \in T => n + 1 \in S
    <3>1. \A c \in S : (c - 1) + 1 = c
      BY <2>1
    <3>2. QED
      BY <3>1
  <2>6. QED
    BY <2>2, <2>3, <2>4, <2>5
<1>3. \A n \in T : jobState[n] = "live" /\ pids[n] # -1
  <2>1. \A n \in T : pids[n] = n + 1 /\ n + 1 # -1
    BY <1>1, <1>2 DEF OInv, Placed, Unforked, Missing, Running, Collected, Cmds
  <2>2. QED
    BY <1>1, <1>2, <2>1, StageOf DEF jobState
<1>4. jobState' = [n \in Cmds |-> IF n \in T THEN "ended" ELSE jobState[n]]
  <2>1. \A n \in Cmds : Stage(pids[n], cpc'[n + 1]) = IF n \in T THEN "ended" ELSE Stage(pids[n], cpc[n + 1])
    BY <1>1, <1>2, <1>3, StageOf
  <2>2. QED
    BY <2>1 DEF jobState
<1>5. jobValue' = [n \in Cmds |-> IF n \in T THEN exit_status(w) ELSE jobValue[n]]
  <2>1. \A n \in Cmds : EndValue(cpc'[n + 1], status'[n + 1]) = IF n \in T THEN exit_status(w) ELSE EndValue(cpc[n + 1], status[n + 1])
    BY <1>1, <1>2, StageOf
  <2>2. QED
    BY <2>1 DEF jobValue
<1>6. jobResult' = jobResult
  BY DEF jobResult
<1>7. JobSpec!End(T, exit_status(w))
  BY <1>2, <1>3, <1>4, <1>5, <1>6 DEF JobSpec!End, JobSpec!Cmds, Cmds
<1>8. QED
  BY <1>2, <1>7 DEF JobSpec!Next, JobSpec!Cmds, Cmds

(* A child that goes on without ending is nothing to a Job. *)
LEMMA JobIgnores ==
  ASSUME OInv, NEW c \in Pids, cpc[c] \in {"forked", "redir", "run"}, NEW at \in {"redir", "run"},
         cpc' = [cpc EXCEPT ![c] = at], UNCHANGED <<status, pc, ret, pids>>
  PROVE  UNCHANGED JobSpec!vars
<1>1. cpc \in [Pids -> {"none", "forked", "redir", "run", "zombie", "reaped"}]
  BY DEF OInv, IInv, TypeOK
<1>2. \A n \in Cmds : n + 1 \in Pids
  BY Basics
<1>3. \A n \in Cmds : Stage(pids[n], cpc'[n + 1]) = Stage(pids[n], cpc[n + 1]) /\ EndValue(cpc'[n + 1], status'[n + 1]) = EndValue(cpc[n + 1], status[n + 1])
  BY <1>1, <1>2, StageOf
<1>4. UNCHANGED <<jobState, jobValue, jobResult>>
  BY <1>3 DEF jobState, jobValue, jobResult
<1>5. QED
  BY <1>4 DEF JobSpec!vars

-----------------------------------------------------------------------------
(* The shell's steps.  First those of a fork that succeeds and one that fails. *)
LEMMA ForkImplements == OInv /\ Fork => (Placed /\ Ordered)' /\ JobSpec!Next
<1> SUFFICES ASSUME OInv, Fork PROVE (Placed /\ Ordered)' /\ JobSpec!Next
  OBVIOUS
<1>1. /\ \A n \in Cmds : n + 1 \in Pids /\ n \in Int /\ n + 1 # -1
      /\ i \in Nat
      /\ cpc \in [Pids -> {"none", "forked", "redir", "run", "zombie", "reaped"}]
      /\ pids \in [Cmds -> {-1} \cup Procs]
  BY Basics DEF OInv, IInv, TypeOK, Pids, Cmds
<1>2. pc = "fork" /\ pc' = "close" /\ UNCHANGED <<i, ret, status>>
  BY DEF Fork
<1>3. ForkedUpTo(i) /\ i \in Cmds /\ i < Count
  BY <1>1, <1>2, Basics DEF OInv, Ordered, IInv, ShellIndex, Cmds
<1>4. jobState[i] = "new" /\ jobValue[i] = -1 /\ \A m \in 0 .. i - 1 : jobState[m] # "new"
  <2>1. \A m \in 0 .. i - 1 : m \in Cmds /\ m < i
    BY <1>1, <1>3, Basics DEF Cmds
  <2>2. Unforked(i) /\ \A m \in 0 .. i - 1 : Running(m) \/ Missing(m)
    BY <1>1, <1>3, <2>1 DEF ForkedUpTo
  <2>3. QED
    BY <1>3, <2>1, <2>2, PlaceOf
<1>5. jobResult = -1 /\ jobResult' = -1
  BY <1>2 DEF jobResult
<1>6. ASSUME NEW to \in {"live", "missing"},
             jobState' = [jobState EXCEPT ![i] = to], jobValue' = jobValue
      PROVE  JobSpec!Next
  <2>1. JobSpec!Launch(i)
    BY <1>4, <1>5, <1>6 DEF JobSpec!Launch, JobSpec!NoResult
  <2>2. QED
    BY <1>3, <2>1 DEF JobSpec!Next, JobSpec!Cmds, Cmds
<1>7. ASSUME (Running(i) \/ Missing(i))',
             \A m \in Cmds \ {i} : pids'[m] = pids[m] /\ cpc'[m + 1] = cpc[m + 1]
      PROVE  (Placed /\ Ordered)'
  <2>1. \A m \in Cmds \ {i} : /\ Unforked(m) => Unforked(m)'
                              /\ Running(m) => Running(m)'
                              /\ Missing(m) => Missing(m)'
    BY <1>7 DEF Unforked, Running, Missing
  <2>2. \A m \in Cmds : (m < i + 1 => m < i \/ m = i) /\ (i + 1 <= m => i <= m /\ m # i) /\ (m < i + 1 \/ i + 1 <= m)
    BY <1>1
  <2>3. ForkedUpTo(i + 1)'
    BY <1>2, <1>3, <1>7, <2>1, <2>2 DEF ForkedUpTo
  <2>4. Placed'
    BY <1>2, <2>2, <2>3 DEF ForkedUpTo, Placed
  <2>5. QED
    BY <1>2, <2>3, <2>4 DEF Ordered
<1>8. CASE pids' = [pids EXCEPT ![i] = i + 1] /\ cpc' = [cpc EXCEPT ![i + 1] = "forked"]
  <2>1. /\ pids'[i] = i + 1 /\ cpc'[i + 1] = "forked"
        /\ \A m \in Cmds \ {i} : pids'[m] = pids[m] /\ cpc'[m + 1] = cpc[m + 1]
    BY <1>1, <1>3, <1>8
  <2>2. (Placed /\ Ordered)'
    <3>1. Running(i)'
      BY <1>2, <2>1 DEF Running
    <3>2. QED
      BY <1>7, <2>1, <3>1
  <2>3. jobState' = [jobState EXCEPT ![i] = "live"]
    <3>1. \A n \in Cmds : Stage(pids'[n], cpc'[n + 1]) = IF n = i THEN "live" ELSE Stage(pids[n], cpc[n + 1])
      BY <1>1, <1>3, <2>1, StageOf
    <3>2. QED
      BY <1>3, <3>1 DEF jobState
  <2>4. jobValue' = jobValue
    <3>1. \A n \in Cmds : EndValue(cpc'[n + 1], status'[n + 1]) = EndValue(cpc[n + 1], status[n + 1])
      <4>1. cpc[i + 1] = "none"
        BY <1>1, <1>3 DEF ForkedUpTo, Unforked
      <4>2. QED
        BY <1>1, <1>2, <1>3, <2>1, <4>1, StageOf
    <3>2. QED
      BY <3>1 DEF jobValue
  <2>5. QED
    BY <1>6, <2>2, <2>3, <2>4
<1>9. CASE pids' = [pids EXCEPT ![i] = -1] /\ UNCHANGED cpc
  <2>1. pids'[i] = -1 /\ \A m \in Cmds \ {i} : pids'[m] = pids[m]
    BY <1>1, <1>3, <1>9
  <2>2. (Placed /\ Ordered)'
    <3>1. Unforked(i)
      BY <1>1, <1>3 DEF ForkedUpTo
    <3>2. Missing(i)'
      BY <1>2, <1>9, <2>1, <3>1 DEF Missing, Unforked
    <3>3. QED
      BY <1>7, <1>9, <2>1, <3>2
  <2>3. jobState' = [jobState EXCEPT ![i] = "missing"]
    <3>1. \A n \in Cmds : Stage(pids'[n], cpc'[n + 1]) = IF n = i THEN "missing" ELSE Stage(pids[n], cpc[n + 1])
      BY <1>3, <1>9, <2>1, StageOf
    <3>2. QED
      BY <1>3, <3>1 DEF jobState
  <2>4. jobValue' = jobValue
    BY <1>2, <1>9 DEF jobValue
  <2>5. QED
    BY <1>6, <2>2, <2>3, <2>4
<1>10. QED
  BY <1>8, <1>9 DEF Fork

(* A command waited for is the next one when every command is forked, and any
   one when a fork failed; then there may be none, too. *)
LEMMA WaitImplements == OInv /\ wait_all => (Placed /\ Ordered)' /\ JobSpec!Next
<1> SUFFICES ASSUME OInv, wait_all PROVE (Placed /\ Ordered)' /\ JobSpec!Next
  OBVIOUS
<1>1. /\ \A n \in Cmds : n + 1 \in Pids /\ n \in Int /\ n + 1 # -1
      /\ i \in Nat /\ Count \in Nat /\ (Count - 1) + 1 = Count
      /\ cpc \in [Pids -> {"none", "forked", "redir", "run", "zombie", "reaped"}]
  BY Basics DEF OInv, IInv, TypeOK, Pids, Cmds
<1>2. pc = "wait" /\ i < Count /\ i \in Cmds /\ UNCHANGED <<pids, status>> /\ (EveryForked' <=> EveryForked)
  BY <1>1 DEF wait_all, Cmds, EveryForked
<1>3. (\A n \in Cmds : ~ Unforked(n)) /\ JobSpec!Launched /\ (~ EveryForked => ~ JobSpec!Whole)
  BY <1>2, Incomplete DEF OInv, Ordered
<1>4. EveryForked => CollectedUpTo(i) /\ pids[i] = i + 1 /\ pids[i] # -1 /\ i + 1 \in Children
  <2> SUFFICES ASSUME EveryForked PROVE CollectedUpTo(i) /\ pids[i] = i + 1 /\ pids[i] # -1 /\ i + 1 \in Children
    OBVIOUS
  <2>1. CollectedUpTo(i)
    BY <1>2 DEF OInv, Ordered
  <2>2. Running(i)
    BY <1>1, <1>2, <2>1 DEF CollectedUpTo
  <2>3. QED
    BY <1>1, <1>2, <2>1, <2>2 DEF Running, Children, Alive, Zombies
<1> DEFINE matching == IF pids[i] = -1 THEN Children ELSE Children \cap {pids[i]}
<1>5. EveryForked => matching = {i + 1}
  BY <1>4
<1>6. ASSUME NEW c \in matching \cap Zombies,
             cpc' = [cpc EXCEPT ![c] = "reaped"],
             last' = IF i = Count - 1 THEN status[c] ELSE last,
             i' = i + 1, UNCHANGED <<ret, pc>>
      PROVE  (Placed /\ Ordered)' /\ JobSpec!Next
  <2> DEFINE n == c - 1
  <2>1. c \in Pids /\ cpc[c] = "zombie" /\ n \in Cmds /\ n + 1 = c /\ (EveryForked => n = i)
    <3>1. c \in Pids /\ cpc[c] = "zombie"
      BY <1>6 DEF Zombies
    <3>2. EveryForked => c = i + 1
      BY <1>5, <1>6
    <3>3. QED
      BY <1>1, <3>1, <3>2, Basics DEF Pids, Cmds
  <2> HIDE DEF n, matching
  <2>2. cpc'[n + 1] = "reaped" /\ \A m \in Cmds \ {n} : cpc'[m + 1] = cpc[m + 1]
    BY <1>1, <1>6, <2>1
  <2>3. Running(n)
    BY <2>1 DEF OInv, Placed, Unforked, Missing, Running, Collected
  <2>4. /\ Collected(n)'
        /\ \A m \in Cmds \ {n} : /\ Unforked(m) <=> Unforked(m)'
                                 /\ Missing(m)   <=> Missing(m)'
                                 /\ Collected(m) <=> Collected(m)'
                                 /\ Running(m)   <=> Running(m)'
    BY <1>2, <2>2, <2>3 DEF Unforked, Missing, Running, Collected
  <2>5. Placed'
    BY <2>4 DEF OInv, Placed
  <2>6. \A m \in Cmds : ~ Unforked(m)'
    BY <1>3, <2>2, <2>4 DEF Unforked
  <2>7. EveryForked => (CollectedUpTo(i) /\ (i = Count => last = status[Count]))'
    <3> SUFFICES ASSUME EveryForked PROVE (CollectedUpTo(i) /\ (i = Count => last = status[Count]))'
      OBVIOUS
    <3>1. n = i /\ CollectedUpTo(i) /\ c = i + 1
      BY <1>4, <2>1
    <3>2. \A m \in Cmds : (m < i + 1 => m < i \/ m = i) /\ (i + 1 <= m => i <= m /\ m # i)
      BY <1>1, <1>2
    <3>3. CollectedUpTo(i)'
      BY <1>6, <2>4, <3>1, <3>2 DEF CollectedUpTo
    <3>4. i' = Count => last' = status'[Count]
      BY <1>1, <1>2, <1>6, <3>1
    <3>5. QED
      BY <3>3, <3>4
  <2>8. Ordered'
    BY <1>2, <1>6, <2>6, <2>7 DEF Ordered
  <2>9. jobState[n] = "ended"
    BY <1>1, <2>1, <2>3, StageOf DEF Running, jobState
  <2>10. JobSpec!Whole => \A m \in 0 .. n - 1 : jobState[m] = "collected"
    <3> SUFFICES ASSUME JobSpec!Whole, NEW m \in 0 .. n - 1 PROVE jobState[m] = "collected"
      OBVIOUS
    <3>1. EveryForked
      BY <1>3
    <3>2. n = i /\ CollectedUpTo(i)
      BY <1>4, <2>1, <3>1
    <3>3. m \in Cmds /\ m < i
      BY <1>1, <1>2, <3>2 DEF Cmds
    <3>4. QED
      BY <3>2, <3>3, PlaceOf DEF CollectedUpTo
  <2>11. jobState' = [jobState EXCEPT ![n] = "collected"]
    <3>0. pids[n] # -1
      BY <1>1, <2>1, <2>3 DEF Running
    <3>1. \A m \in Cmds : Stage(pids'[m], cpc'[m + 1]) = IF m = n THEN "collected" ELSE Stage(pids[m], cpc[m + 1])
      BY <1>2, <2>1, <2>2, <3>0, StageOf
    <3>2. QED
      BY <2>1, <3>1 DEF jobState
  <2>12. jobValue' = jobValue
    <3>1. \A m \in Cmds : EndValue(cpc'[m + 1], status'[m + 1]) = EndValue(cpc[m + 1], status[m + 1])
      BY <1>2, <2>1, <2>2, StageOf
    <3>2. QED
      BY <3>1 DEF jobValue
  <2>13. jobResult = -1 /\ jobResult' = -1
    BY <1>2, <1>6 DEF jobResult
  <2>14. JobSpec!Collect(n)
    BY <1>3, <2>9, <2>10, <2>11, <2>12, <2>13 DEF JobSpec!Collect, JobSpec!NoResult
  <2>15. JobSpec!Next
    BY <2>1, <2>14 DEF JobSpec!Next, JobSpec!Cmds, Cmds
  <2>16. QED
    BY <2>5, <2>8, <2>15
<1>7. ASSUME matching = {}, Return(1), UNCHANGED <<cpc, last, i>>
      PROVE  (Placed /\ Ordered)' /\ JobSpec!Next
  <2>1. ~ EveryForked
    BY <1>5, <1>7
  <2>2. pc' = "done" /\ ret' = 1 /\ ~ EveryForked'
    BY <1>2, <1>7, <2>1 DEF Return
  <2>3. Placed'
    BY <1>2, <1>7 DEF OInv, Placed, Unforked, Missing, Running, Collected
  <2>4. Ordered'
    <3>1. fd[Sh] = Row(Tty, Tty, Closed, Closed, Closed) /\ UNCHANGED fd
      BY <1>2 DEF OInv, IInv, ShellFds, wait_all
    <3>2. ShellHolds'
      BY <3>1 DEF ShellHolds, Row, Slots
    <3>3. QED
      BY <2>2, <3>2 DEF Ordered
  <2>5. jobResult = -1 /\ jobResult' = 1 /\ UNCHANGED <<jobState, jobValue>>
    BY <1>2, <1>7, <2>2 DEF jobResult, jobState, jobValue
  <2>6. 1 \in {exit_status(w) : w \in Statuses}
    BY Basics
  <2>7. JobSpec!Return
    BY <1>3, <2>1, <2>5, <2>6 DEF JobSpec!Return, JobSpec!NoResult
  <2>8. QED
    BY <2>3, <2>4, <2>7 DEF JobSpec!Next
<1>8. QED
  BY <1>6, <1>7 DEF wait_all

(* What wait_all leaves in last is the last command's when every command is
   forked; else what the call returns is of no Job that is whole. *)
LEMMA WaitEndImplements == OInv /\ wait_all_end => (Placed /\ Ordered)' /\ JobSpec!Next
<1> SUFFICES ASSUME OInv, wait_all_end PROVE (Placed /\ Ordered)' /\ JobSpec!Next
  OBVIOUS
<1>1. /\ \A n \in Cmds : n \in Int /\ n < Count
      /\ Count - 1 \in Cmds /\ (Count - 1) + 1 = Count
  BY Basics DEF Cmds
<1>2. /\ pc = "wait" /\ i = Count /\ ret' = exit_status(last) /\ pc' = "done"
      /\ UNCHANGED <<i, pids, last, cpc, status, fd>> /\ (EveryForked' <=> EveryForked)
  BY DEF wait_all_end, Return, childVars, EveryForked
<1>3. JobSpec!Launched /\ (~ EveryForked => ~ JobSpec!Whole)
  BY <1>2, Incomplete DEF OInv, Ordered
<1>4. EveryForked => CollectedUpTo(Count) /\ last = status[Count]
  BY <1>2 DEF OInv, Ordered
<1>5. fd[Sh] = Row(Tty, Tty, Closed, Closed, Closed)
  BY <1>2 DEF OInv, IInv, ShellFds
<1>6. Placed'
  BY <1>2 DEF OInv, Placed, Unforked, Missing, Running, Collected
<1>7. EveryForked => CollectedUpTo(Count)'
  BY <1>2, <1>4 DEF CollectedUpTo, Collected, Running
<1>8. Ordered'
  <2>1. ShellHolds'
    BY <1>2, <1>5 DEF ShellHolds, Row, Slots
  <2>2. QED
    BY <1>2, <1>4, <1>7, <2>1 DEF Ordered
<1>9. jobResult = -1 /\ jobResult' = exit_status(last) /\ UNCHANGED <<jobState, jobValue>>
  BY <1>2 DEF jobResult, jobState, jobValue
<1>10. CASE EveryForked
  <2>1. \A n \in Cmds : jobState[n] = "collected"
    BY <1>1, <1>4, <1>10, PlaceOf DEF CollectedUpTo
  <2>2. jobValue[Count - 1] = exit_status(last)
    BY <1>1, <1>4, <1>10, PlaceOf DEF CollectedUpTo
  <2>3. JobSpec!Return
    BY <1>9, <2>1, <2>2 DEF JobSpec!Return, JobSpec!Cmds, JobSpec!NoResult, Cmds
  <2>4. QED
    BY <1>6, <1>8, <2>3 DEF JobSpec!Next
<1>11. CASE ~ EveryForked
  <2>1. last \in Statuses
    BY DEF OInv, IInv, TypeOK
  <2>2. jobResult' \in {exit_status(w) : w \in Statuses}
    BY <1>9, <2>1
  <2>3. JobSpec!Return
    BY <1>3, <1>9, <1>11, <2>2 DEF JobSpec!Return, JobSpec!NoResult
  <2>4. QED
    BY <1>6, <1>8, <2>3 DEF JobSpec!Next
<1>12. QED
  BY <1>10, <1>11

LEMMA ShellImplements == OInv /\ Shell => (Placed /\ Ordered)' /\ (JobSpec!Next \/ UNCHANGED JobSpec!vars)
<1> SUFFICES ASSUME OInv, Shell PROVE (Placed /\ Ordered)' /\ (JobSpec!Next \/ UNCHANGED JobSpec!vars)
  OBVIOUS
<1>1. /\ \A n \in Cmds : n \in Int /\ n < Count
      /\ i \in Nat /\ i <= Count /\ Count \in Nat
  BY Basics DEF OInv, IInv, TypeOK, Cmds
<1>2. CASE exec_forked_pipeline \/ MakePipe
  <2>1. /\ pc \in {"malloc", "pipe"} /\ pc' \in {"pipe", "fork", "done"}
        /\ pc' = "done" => ret' = 1
        /\ UNCHANGED <<i, pids, cpc, status>>
    BY <1>2 DEF exec_forked_pipeline, MakePipe, childVars, Return
  <2>2. ForkedUpTo(i) /\ ForkedUpTo(i)' /\ Placed'
    BY <2>1 DEF OInv, Ordered, ForkedUpTo, Placed, Unforked, Missing, Running, Collected
  <2>3. CASE pc' # "done"
    BY <2>1, <2>2, <2>3, JobStutters DEF Ordered
  <2>4. CASE pc' = "done"
    <3>1. i \in Cmds /\ Unforked(i)
      BY <1>1, <2>1, <2>2 DEF OInv, IInv, ShellIndex, ForkedUpTo, Cmds
    <3>2. ~ JobSpec!Launched /\ ~ EveryForked /\ ~ EveryForked'
      BY <2>1, <3>1, Incomplete DEF EveryForked
    <3>3. jobResult = -1 /\ jobResult' = 1 /\ UNCHANGED <<jobState, jobValue>>
      BY <2>1, <2>4 DEF jobResult, jobState, jobValue
    <3>4. JobSpec!Return
      BY <3>2, <3>3 DEF JobSpec!Return, JobSpec!NoResult
    <3>5. fd[Sh] = Row(Tty, Tty, InEnd(i), Closed, Closed) /\ UNCHANGED fd
      BY <1>2, <2>1, <2>4 DEF OInv, IInv, ShellFds, exec_forked_pipeline, MakePipe
    <3>6. ShellHolds'
      <4>1. fd'[Sh]["p0"] = Closed /\ fd'[Sh]["p1"] = Closed
        BY <3>5 DEF Row, Slots
      <4>2. pids'[i] = 0
        BY <2>1, <3>1 DEF Unforked
      <4>3. QED
        BY <3>1, <4>1, <4>2 DEF ShellHolds
    <3>7. QED
      BY <2>2, <2>4, <3>2, <3>4, <3>6 DEF Ordered, JobSpec!Next
  <2>5. QED
    BY <2>3, <2>4
<1>3. CASE CloseEnds
  <2>1. /\ pc = "close" /\ UNCHANGED <<pids, cpc, status>>
        /\ IF i + 1 < Count THEN pc' = "pipe" /\ i' = i + 1 ELSE pc' = "wait" /\ i' = 0
    BY <1>3 DEF CloseEnds, NextCommand, childVars
  <2>2. ForkedUpTo(i + 1) /\ UNCHANGED JobSpec!vars
    BY <2>1, JobStutters DEF OInv, Ordered
  <2>3. \A m \in Cmds : /\ Unforked(m)' <=> Unforked(m)
                        /\ Missing(m)'  <=> Missing(m)
                        /\ Running(m)'  <=> Running(m)
                        /\ Collected(m)' <=> Collected(m)
    BY <2>1 DEF Unforked, Missing, Running, Collected
  <2>4. Placed'
    BY <2>3 DEF OInv, Placed
  <2>5. CASE i + 1 < Count
    <3>1. ForkedUpTo(i)'
      BY <2>1, <2>2, <2>3, <2>5 DEF ForkedUpTo
    <3>2. QED
      BY <2>1, <2>2, <2>4, <2>5, <3>1 DEF Ordered
  <2>6. CASE ~ (i + 1 < Count)
    <3>1. pc' = "wait" /\ i' = 0 /\ i' # Count
      BY <2>1, <2>6, Basics
    <3>2. \A m \in Cmds : m < i + 1 /\ ~ (m < 0) /\ 0 <= m
      BY <1>1, <2>6 DEF Cmds
    <3>3. \A m \in Cmds : Running(m) \/ Missing(m)
      BY <2>2, <3>2 DEF ForkedUpTo
    <3>4. EveryForked => CollectedUpTo(i)'
      <4>1. EveryForked => \A m \in Cmds : Running(m)
        <5>1. \A m \in Cmds : m + 1 # -1
          BY DEF Cmds
        <5>2. QED
          BY <3>3, <5>1 DEF EveryForked, Missing
      <4>2. QED
        BY <2>3, <3>1, <3>2, <4>1 DEF CollectedUpTo
    <3>5. \A m \in Cmds : ~ Unforked(m)'
      BY <2>3, <3>3 DEF Unforked, Running, Missing
    <3>6. EveryForked' <=> EveryForked
      BY <2>1 DEF EveryForked
    <3>7. QED
      BY <2>2, <2>4, <3>1, <3>4, <3>5, <3>6 DEF Ordered
  <2>7. QED
    BY <2>5, <2>6
<1>4. QED
  BY <1>2, <1>3, ForkImplements, WaitImplements, WaitEndImplements DEF Shell

(* The children's steps, and the user's. *)
LEMMA ChildImplements ==
  ASSUME NEW c \in Pids
  PROVE  OInv /\ Child(c) => (Placed /\ Ordered)' /\ (JobSpec!Next \/ UNCHANGED JobSpec!vars)
<1> SUFFICES ASSUME OInv, Child(c) PROVE (Placed /\ Ordered)' /\ (JobSpec!Next \/ UNCHANGED JobSpec!vars)
  OBVIOUS
<1>1. /\ cpc \in [Pids -> {"none", "forked", "redir", "run", "zombie", "reaped"}]
      /\ status \in [Pids -> Statuses]
      /\ fd \in [Procs -> [Slots -> Ends]] /\ c \in Procs /\ Sh \in Procs /\ c # Sh
  BY Basics DEF OInv, IInv, TypeOK
<1>2. UNCHANGED <<pc, i, pids, ret, last>> /\ cpc[c] \in {"forked", "redir", "run"}
  BY DEF Child, fork_child, child_exec, Write, Read, Exit, shVars
<1>3. ASSUME NEW w \in Statuses, End(c, w)
      PROVE  (Placed /\ Ordered)' /\ JobSpec!Next
  <2>1. cpc' = [cpc EXCEPT ![c] = "zombie"] /\ status' = [status EXCEPT ![c] = w] /\ fd'[Sh] = fd[Sh]
    BY <1>1, <1>3 DEF End
  <2>2. ChildrenGoOn
    BY <1>1, <1>2, <2>1 DEF ChildrenGoOn
  <2>3. /\ cpc' = [d \in Pids |-> IF d \in {c} THEN "zombie" ELSE cpc[d]]
        /\ status' = [d \in Pids |-> IF d \in {c} THEN w ELSE status[d]]
    BY <1>1, <2>1
  <2>4. {c} \in SUBSET Alive /\ {c} # {}
    BY <1>2 DEF Alive
  <2>5. JobSpec!Next
    BY <1>2, <2>3, <2>4, JobEnds
  <2>6. QED
    BY <2>2, <2>5, ChildrenGoOnOrdered
<1>4. ASSUME NEW at \in {"redir", "run"}, cpc' = [cpc EXCEPT ![c] = at], UNCHANGED status,
             fd'[Sh] = fd[Sh]
      PROVE  (Placed /\ Ordered)' /\ UNCHANGED JobSpec!vars
  <2>1. ChildrenGoOn
    BY <1>1, <1>2, <1>4 DEF ChildrenGoOn
  <2>2. QED
    BY <1>2, <1>4, <2>1, ChildrenGoOnOrdered, JobIgnores
<1>5. ASSUME UNCHANGED <<cpc, status, fd>>
      PROVE  (Placed /\ Ordered)' /\ UNCHANGED JobSpec!vars
  <2>1. ChildrenGoOn
    BY <1>2, <1>5 DEF ChildrenGoOn
  <2>2. UNCHANGED <<jobState, jobValue, jobResult>>
    BY <1>2, <1>5 DEF jobState, jobValue, jobResult
  <2>3. QED
    BY <2>1, <2>2, ChildrenGoOnOrdered DEF JobSpec!vars
<1>6. CASE fork_child(c)
  <2>1. fd'[Sh] = fd[Sh]
    BY <1>1, <1>6, ForkChildRow DEF OInv
  <2>2. QED
    BY <1>4, <1>6, <2>1 DEF fork_child
<1>7. CASE child_exec(c)
  <2>1. Redir(c) # "bad" => fd'[Sh] = fd[Sh]
    BY <1>1, <1>7, ChildExecRow DEF OInv
  <2>2. QED
    BY <1>3, <1>4, <1>7, <2>1, Basics DEF child_exec
<1>8. CASE Write(c)
  BY <1>3, <1>5, <1>8, Basics DEF Write
<1>9. CASE Read(c)
  BY <1>3, <1>5, <1>9, Basics DEF Read
<1>10. CASE Exit(c)
  BY <1>3, <1>10, Basics DEF Exit
<1>11. QED
  BY <1>6, <1>7, <1>8, <1>9, <1>10 DEF Child

LEMMA KeyImplements ==
  ASSUME NEW s \in {SIGINT, SIGQUIT}
  PROVE  OInv /\ Key(s) => (Placed /\ Ordered)' /\ (JobSpec!Next \/ UNCHANGED JobSpec!vars)
<1> SUFFICES ASSUME OInv, Key(s) PROVE (Placed /\ Ordered)' /\ (JobSpec!Next \/ UNCHANGED JobSpec!vars)
  OBVIOUS
<1>1. /\ UNCHANGED <<pc, i, pids, ret, last>>
      /\ cpc' = [c \in Pids |-> IF c \in Victims(s) THEN "zombie" ELSE cpc[c]]
      /\ status' = [c \in Pids |-> IF c \in Victims(s) THEN Killed(s) ELSE status[c]]
      /\ fd'[Sh] = fd[Sh]
  BY Basics DEF Key, Victims, Alive
<1>2. Victims(s) \in SUBSET Alive /\ Killed(s) \in Statuses
  BY Basics DEF Victims
<1>3. ChildrenGoOn
  BY <1>1, <1>2 DEF ChildrenGoOn, Alive
<1>4. CASE Victims(s) # {}
  BY <1>1, <1>2, <1>3, <1>4, ChildrenGoOnOrdered, JobEnds
<1>5. CASE Victims(s) = {}
  <2>1. \A n \in Cmds : cpc'[n + 1] = cpc[n + 1] /\ status'[n + 1] = status[n + 1]
    BY <1>1, <1>5, Basics
  <2>2. UNCHANGED <<jobState, jobValue, jobResult>>
    BY <1>1, <2>1 DEF jobState, jobValue, jobResult
  <2>3. QED
    BY <1>3, <2>2, ChildrenGoOnOrdered DEF JobSpec!vars
<1>6. QED
  BY <1>4, <1>5

LEMMA StepImplements == OInv /\ [Next]_vars => OInv' /\ [JobSpec!Next]_(JobSpec!vars)
<1> SUFFICES ASSUME OInv, [Next]_vars PROVE OInv' /\ [JobSpec!Next]_(JobSpec!vars)
  OBVIOUS
<1>1. IInv'
  BY NextIInv DEF OInv
<1>2. CASE Shell
  BY <1>1, <1>2, ShellImplements DEF OInv
<1>3. ASSUME NEW c \in Pids, Child(c) PROVE OInv' /\ [JobSpec!Next]_(JobSpec!vars)
  BY <1>1, <1>3, ChildImplements DEF OInv
<1>4. ASSUME NEW s \in {SIGINT, SIGQUIT}, Key(s) PROVE OInv' /\ [JobSpec!Next]_(JobSpec!vars)
  BY <1>1, <1>4, KeyImplements DEF OInv
<1>5. CASE UNCHANGED vars
  <2>1. UNCHANGED <<pc, i, pids, ret, last, cpc, status, fd>>
    BY <1>5 DEF vars, shVars, childVars
  <2>2. ChildrenGoOn
    BY <2>1 DEF ChildrenGoOn
  <2>3. UNCHANGED <<jobState, jobValue, jobResult>>
    BY <2>1 DEF jobState, jobValue, jobResult
  <2>4. QED
    BY <1>1, <2>2, <2>3, ChildrenGoOnOrdered DEF OInv, JobSpec!vars
<1>6. QED
  BY <1>2, <1>3, <1>4, <1>5 DEF Next, Finished

-----------------------------------------------------------------------------
(* Whichever of malloc, pipe and fork fail, exec_forked_pipeline does what a
   Job promises its caller, whatever the commands do and whenever keys are
   pressed. *)
THEOREM PipelineIsAJob == Spec => ImplementsJob
<1>1. Init => OInv /\ JobSpec!Init
  BY InitIInv, InitOrdered, InitJob DEF OInv
<1>2. OInv /\ [Next]_vars => OInv' /\ [JobSpec!Next]_(JobSpec!vars)
  BY StepImplements
<1>3. QED
  BY <1>1, <1>2, PTL DEF Spec, ImplementsJob, JobSpec!Spec

LEMMA OrderInductive == Spec => []OInv
<1>1. Init => OInv
  BY InitIInv, InitOrdered DEF OInv
<1>2. OInv /\ [Next]_vars => OInv'
  BY StepImplements
<1>3. QED
  BY <1>1, <1>2, PTL DEF Spec

(* $? is the last command's value, however the children ended, for a pipeline
   of any length. *)
THEOREM PipelineStatus == Spec => []StatusOfLastCommand
<1>1. OInv => StatusOfLastCommand
  BY DEF OInv, Ordered, StatusOfLastCommand
<1>2. QED
  BY <1>1, OrderInductive, PTL

(* The shell keeps no pipe end but prev, and that one only if pipe() failed; and
   when no fork was prevented, no child is left. *)
THEOREM PipelineLeavesNothing == Spec => []NothingLeftBehind
<1>1. OInv => NothingLeftBehind
  <2> SUFFICES ASSUME OInv, pc = "done" PROVE NothingLeftBehind
    BY DEF NothingLeftBehind
  <2>1. ShellHolds
    BY DEF OInv, Ordered
  <2>2. ASSUME EveryForked PROVE Children = {}
    <3>1. \A c \in Pids : c - 1 \in Cmds /\ (c - 1) + 1 = c /\ c - 1 < Count
      BY Basics DEF Pids, Cmds
    <3>2. \A c \in Pids : cpc[c] = "reaped"
      BY <2>2, <3>1 DEF OInv, Ordered, CollectedUpTo, Collected
    <3>3. QED
      BY <3>2 DEF Children, Alive, Zombies
  <2>3. QED
    BY <2>1, <2>2 DEF NothingLeftBehind, ShellHolds
<1>2. QED
  BY <1>1, OrderInductive, PTL
=============================================================================
