------------------------- MODULE DescriptorsProofs -------------------------
(***************************************************************************)
(* However large the descriptor table, whatever the shell inherited and    *)
(* whichever calls fail, no line leaks a descriptor, a parent builtin puts *)
(* stdin and stdout back, and what it printed goes where OutputLands says; *)
(* and exit leaves the status its argument says, for every text and        *)
(* however large LONG_MAX.                                                 *)
(***************************************************************************)
EXTENDS Stdio, NatLemmas, SequenceTheorems

StdioOpen(t) == t[0] # "closed" /\ t[1] # "closed"

(* What exec_single_parent has saved, by how many of its two dups worked.  When
   one of them failed the table is full, so that no redirection succeeds. *)
BothSaved ==
    /\ in_save \in Free(before) /\ out_save \in Free(before) /\ in_save # out_save
    /\ table[in_save] = before[0] /\ table[out_save] = before[1]
    /\ \A f \in Fds \ {0, 1, in_save, out_save} : table[f] = before[f]
OneSaved ==
    /\ in_save \in Free(before) /\ out_save = None
    /\ Free(table) = {}
    /\ table[in_save] = before[0]
    /\ \A f \in Fds \ {in_save} : table[f] = before[f]
NoneSaved == in_save = None /\ out_save = None /\ Free(table) = {} /\ table = before

AtPrompt   == pc = "prompt" => Free(table) = Free(before) /\ (path = "parent" => table = before)
AtSave     == pc = "save" => path = "parent" /\ table = before
InParent   == pc \in {"redirect", "restore"} /\ path = "parent" => BothSaved \/ OneSaved \/ NoneSaved
InBare     == path = "bare" => pc # "restore" /\ Free(table) = Free(before)

IInv == TypeOK /\ StdioOpen(table) /\ StdioOpen(before) /\ AtPrompt /\ AtSave /\ InParent /\ InBare

-----------------------------------------------------------------------------
(* dup, open and pipe return a descriptor that was closed, or None when there
   is none. *)
LEMMA LowestIsFree ==
  ASSUME NEW t \in [Fds -> Objects]
  PROVE  /\ Free(t) # {} => Lowest(t) \in Free(t) /\ Lowest(t) \in Fds /\ Lowest(t) # None
         /\ Free(t) = {} => Lowest(t) = None
<1>1. Free(t) \in SUBSET Nat /\ Free(t) \subseteq Fds
  BY DescriptorsAssumption DEF Free, Fds
<1>2. ASSUME Free(t) # {} PROVE Min(Free(t)) \in Free(t)
  <2>1. \E n \in Free(t) : \A m \in Free(t) : n <= m
    BY <1>1, <1>2, Least
  <2>2. QED
    BY <2>1 DEF Min
<1>3. QED
  BY <1>1, <1>2, DescriptorsAssumption DEF Lowest, Fds, None

(* A here-document makes stdin its pipe, or leaves the table as it was when it
   is interrupted; both ends of the pipe are closed again. *)
LEMMA HeredocEffect ==
  ASSUME TypeOK, StdioOpen(table), NEW interrupted \in BOOLEAN, Heredoc(interrupted)
  PROVE  /\ Free(table) # {}
         /\ table' = IF interrupted THEN table ELSE [table EXCEPT ![0] = "pipe"]
<1>1. table \in [Fds -> Objects] /\ {0, 1} \subseteq Fds
  BY DescriptorsAssumption DEF TypeOK, Fds
<1> DEFINE p0   == Lowest(table)
           t    == Put(table, p0, "pipe")
           p1   == Lowest(t)
           read == Close(Put(t, p1, "pipe"), p1)
<1>2. p0 # None /\ p0 \in Free(table) /\ p0 \in Fds /\ t = [table EXCEPT ![p0] = "pipe"]
  <2>1. CASE p0 = None
    BY <1>1, <2>1, LowestIsFree DEF Heredoc, Put
  <2>2. QED
    BY <1>1, <2>1, LowestIsFree DEF Put
<1>3. t \in [Fds -> Objects]
  BY <1>1, <1>2 DEF Objects
<1>4. p1 # None /\ p1 \in Free(t) /\ p1 \in Fds
  BY <1>3, LowestIsFree DEF Heredoc
<1>5. p0 # 0 /\ p1 # 0 /\ p0 # p1 /\ table[p0] = "closed" /\ table[p1] = "closed"
  BY <1>1, <1>2, <1>4 DEF Free, StdioOpen
<1>6. read = t
  <2>1. read = [[t EXCEPT ![p1] = "pipe"] EXCEPT ![p1] = "closed"]
    BY <1>4 DEF Close, Put
  <2>2. QED
    BY <1>2, <1>3, <1>4, <1>5, <2>1
<1>7. table' = Close(IF interrupted THEN t ELSE Dup2(t, p0, 0), p0)
  BY <1>6 DEF Heredoc
<1>8. CASE interrupted
  <2>1. table' = [t EXCEPT ![p0] = "closed"]
    BY <1>2, <1>7, <1>8 DEF Close, Put
  <2>2. QED
    BY <1>1, <1>2, <1>5, <1>8, <2>1
<1>9. CASE ~ interrupted
  <2>1. table' = [[t EXCEPT ![0] = "pipe"] EXCEPT ![p0] = "closed"]
    BY <1>1, <1>2, <1>7, <1>9 DEF Close, Dup2, Put
  <2>2. QED
    BY <1>1, <1>2, <1>5, <1>9, <2>1
<1>10. QED
  BY <1>8, <1>9

(* A redirection that succeeds changes stdin or stdout and nothing else; the
   descriptors it needs meanwhile are closed again. *)
LEMMA RedirectEffect ==
  ASSUME TypeOK, StdioOpen(table), Redirect
  PROVE  /\ Free(table) # {}
         /\ \E to \in {0, 1}, o \in {"file", "pipe"} :
               /\ table' = [table EXCEPT ![to] = o]
               /\ IF Head(redirects) = "out" THEN to = 1 /\ o = "file" ELSE to = 0
<1>1. table \in [Fds -> Objects] /\ {0, 1} \subseteq Fds
  BY DescriptorsAssumption DEF TypeOK, Fds
<1>2. ASSUME NEW kind, NEW to \in {0, 1}, Open(kind, to)
      PROVE  Free(table) # {} /\ table' = [table EXCEPT ![to] = "file"]
  <2> DEFINE fd == Lowest(table)
  <2>1. fd # None /\ fd \in Free(table) /\ fd \in Fds /\ Free(table) # {}
    BY <1>1, <1>2, LowestIsFree DEF Open
  <2>2. fd # to /\ table[fd] = "closed"
    BY <2>1 DEF Free, StdioOpen
  <2>3. table' = [[[table EXCEPT ![fd] = "file"] EXCEPT ![to] = "file"] EXCEPT ![fd] = "closed"]
    BY <1>1, <1>2, <2>1 DEF Open, Close, Dup2, Put
  <2>4. QED
    BY <1>1, <2>1, <2>2, <2>3
<1>3. ASSUME Heredoc(FALSE)
      PROVE  Free(table) # {} /\ table' = [table EXCEPT ![0] = "pipe"]
  BY <1>3, HeredocEffect
<1>4. QED
  BY <1>2, <1>3 DEF Redirect, Open, Heredoc

(* The two dups: both succeed, or the table is full when they are done. *)
LEMMA SaveEffect ==
  ASSUME TypeOK, StdioOpen(table), table = before, Save
  PROVE  (BothSaved \/ OneSaved \/ NoneSaved)' /\ StdioOpen(table') /\ TypeOK'
<1> DEFINE t == Put(table, in_save', table[0])
<1>1. table \in [Fds -> Objects] /\ {0, 1} \subseteq Fds /\ None \notin Fds /\ before' = before
  BY DescriptorsAssumption DEF TypeOK, Fds, None, Save
<1>2. in_save' = Lowest(table) /\ out_save' = Lowest(t) /\ table' = Put(t, out_save', table[1])
  BY DEF Save
<1>3. CASE Free(table) = {}
  <2>1. in_save' = None /\ t = table
    BY <1>1, <1>2, <1>3, LowestIsFree DEF Put
  <2>2. out_save' = None /\ table' = table
    BY <1>1, <1>2, <1>3, <2>1, LowestIsFree DEF Put
  <2>3. NoneSaved'
    BY <1>1, <1>3, <2>1, <2>2 DEF NoneSaved
  <2>4. QED
    BY <2>1, <2>2, <2>3, <1>1 DEF TypeOK, Save, StdioOpen
<1>4. CASE Free(table) # {}
  <2>1. in_save' \in Free(table) /\ in_save' \in Fds \ {0, 1} /\ in_save' # None
    BY <1>1, <1>2, <1>4, LowestIsFree DEF StdioOpen, Free
  <2>2. t = [table EXCEPT ![in_save'] = table[0]] /\ t \in [Fds -> Objects]
    BY <1>1, <2>1 DEF Put
  <2>3. CASE Free(t) = {}
    <3>1. out_save' = None /\ table' = t
      BY <1>1, <1>2, <2>2, <2>3, LowestIsFree DEF Put
    <3>2. OneSaved'
      BY <1>1, <2>1, <2>2, <2>3, <3>1 DEF OneSaved
    <3>3. QED
      BY <3>1, <3>2, <2>1, <2>2, <1>1 DEF TypeOK, Save, StdioOpen
  <2>4. CASE Free(t) # {}
    <3>1. out_save' \in Free(t) /\ out_save' \in Fds /\ out_save' # None
      BY <1>1, <1>2, <2>2, <2>4, LowestIsFree
    <3>2. out_save' # in_save' /\ out_save' \in Free(table) /\ out_save' \notin {0, 1}
      BY <3>1, <2>1, <2>2, <1>1 DEF Free, StdioOpen
    <3>3. table' = [t EXCEPT ![out_save'] = table[1]]
      BY <1>2, <3>1 DEF Put
    <3>4. BothSaved'
      BY <1>1, <2>1, <2>2, <3>1, <3>2, <3>3 DEF BothSaved
    <3>5. QED
      BY <3>1, <3>2, <3>3, <3>4, <2>1, <2>2, <1>1 DEF TypeOK, Save, StdioOpen
  <2>5. QED
    BY <2>3, <2>4
<1>5. QED
  BY <1>3, <1>4

(* The two dup2s and closes put the table back, whichever dup had failed. *)
LEMMA RestoreEffect ==
  ASSUME TypeOK, StdioOpen(before), BothSaved \/ OneSaved \/ NoneSaved, Restore
  PROVE  table' = before
<1>1. /\ table \in [Fds -> Objects] /\ before \in [Fds -> Objects]
      /\ {0, 1} \subseteq Fds /\ None \notin Fds
  BY DescriptorsAssumption DEF TypeOK, Fds, None
<1> DEFINE t1 == Dup2(table, in_save, 0)
           t2 == Dup2(t1, out_save, 1)
           t3 == Close(t2, in_save)
<1>2. table' = Close(t3, out_save)
  BY DEF Restore
<1>3. CASE BothSaved
  <2>1. /\ in_save \in Fds \ {0, 1} /\ out_save \in Fds \ {0, 1} /\ in_save # out_save
        /\ before[in_save] = "closed" /\ before[out_save] = "closed"
    BY <1>1, <1>3 DEF BothSaved, Free, StdioOpen
  <2>2. t1 = [table EXCEPT ![0] = before[0]]
    BY <1>1, <1>3, <2>1 DEF Dup2, BothSaved
  <2>3. t2 = [t1 EXCEPT ![1] = before[1]]
    BY <1>1, <1>3, <2>1, <2>2 DEF Dup2, BothSaved
  <2>4. t3 = [t2 EXCEPT ![in_save] = "closed"] /\ table' = [t3 EXCEPT ![out_save] = "closed"]
    BY <1>1, <1>2, <2>1 DEF Close, Put
  <2>5. ASSUME NEW f \in Fds PROVE table'[f] = before[f]
    BY <1>1, <1>3, <2>1, <2>2, <2>3, <2>4 DEF BothSaved
  <2>6. QED
    BY <1>1, <2>2, <2>3, <2>4, <2>5
<1>4. CASE OneSaved
  <2>1. in_save \in Fds \ {0, 1} /\ before[in_save] = "closed" /\ out_save = None
    BY <1>1, <1>4 DEF OneSaved, Free, StdioOpen
  <2>2. t1 = [table EXCEPT ![0] = before[0]] /\ t2 = t1
    BY <1>1, <1>4, <2>1 DEF Dup2, OneSaved
  <2>3. table' = [t1 EXCEPT ![in_save] = "closed"]
    BY <1>1, <1>2, <2>1, <2>2 DEF Close, Put
  <2>4. ASSUME NEW f \in Fds PROVE table'[f] = before[f]
    BY <1>1, <1>4, <2>1, <2>2, <2>3 DEF OneSaved
  <2>5. QED
    BY <1>1, <2>2, <2>3, <2>4
<1>5. CASE NoneSaved
  BY <1>1, <1>2, <1>5 DEF NoneSaved, Dup2, Close, Put
<1>6. QED
  BY <1>3, <1>4, <1>5

-----------------------------------------------------------------------------
(* The shell begins with stdin and stdout open. *)
LEMMA InitIInv == Init => IInv
<1> SUFFICES ASSUME Init PROVE IInv
  OBVIOUS
<1>1. PICK n \in 0 .. Limit - 3 :
        table = [f \in Fds |-> CASE f < 3 -> "tty" [] f \in 3 .. n + 2 -> "inherited" [] OTHER -> "closed"]
  BY DEF Init
<1>2. {0, 1} \subseteq Fds /\ Fds \subseteq Int
  BY DescriptorsAssumption DEF Fds
<1>3. table \in [Fds -> Objects]
  BY <1>1, <1>2 DEF Objects
<1>4. table[0] = "tty" /\ table[1] = "tty"
  BY <1>1, <1>2
<1>5. QED
  BY <1>3, <1>4 DEF Init, IInv, TypeOK, StdioOpen, AtPrompt, AtSave, InParent, InBare, Paths, Redirections, Fds, None

(* Every step of a line keeps the invariant. *)
LEMMA NextIInv == IInv /\ [Next]_vars => IInv'
<1> SUFFICES ASSUME IInv, [Next]_vars PROVE IInv'
  OBVIOUS
<1> USE DEF IInv
<1>1. ASSUME NEW p \in Paths, NEW n \in 0 .. MaxRedirects, NEW rs \in [1 .. n -> Redirections], Line(p, rs)
      PROVE  IInv'
  <2>1. rs \in Seq(Redirections)
    BY DescriptorsAssumption
  <2>2. table' = table /\ before' = table /\ pc' \in {"save", "redirect"} /\ path' = p
        /\ redirects' = rs /\ in_save' = in_save /\ out_save' = out_save /\ pc = "prompt"
        /\ pc' = IF p = "parent" THEN "save" ELSE "redirect"
    BY <1>1 DEF Line, saves
  <2>3. TypeOK' /\ StdioOpen(table)' /\ StdioOpen(before)'
    BY <2>1, <2>2 DEF TypeOK, StdioOpen
  <2>4. (AtPrompt /\ AtSave /\ InParent /\ InBare)'
    BY <2>2 DEF AtPrompt, AtSave, InParent, InBare, Paths
  <2>5. QED
    BY <2>3, <2>4
<1>2. CASE Save
  <2>1. pc = "save" /\ pc' = "redirect" /\ path' = path /\ before' = before /\ path = "parent" /\ table = before
    BY <1>2 DEF Save, AtSave
  <2>2. (BothSaved \/ OneSaved \/ NoneSaved)' /\ StdioOpen(table') /\ TypeOK'
    BY <1>2, <2>1, SaveEffect
  <2>3. QED
    BY <2>1, <2>2 DEF StdioOpen, AtPrompt, AtSave, InParent, InBare
<1>3. CASE Redirect
  <2>1. /\ pc = "redirect" /\ redirects # <<>> /\ redirects' = Tail(redirects)
        /\ UNCHANGED <<pc, path, in_save, out_save, before>>
    BY <1>3 DEF Redirect, saves
  <2>2. PICK to \in {0, 1}, o \in {"file", "pipe"} : Free(table) # {} /\ table' = [table EXCEPT ![to] = o]
    BY <1>3, RedirectEffect
  <2>3. table \in [Fds -> Objects] /\ {0, 1} \subseteq Fds
    BY DescriptorsAssumption DEF TypeOK, Fds
  <2>4. TypeOK'
    BY <2>1, <2>2, <2>3 DEF TypeOK, Objects
  <2>5. StdioOpen(table') /\ StdioOpen(before')
    BY <2>1, <2>2, <2>3 DEF StdioOpen
  <2>6. Free(table') = Free(table)
    BY <2>2, <2>3 DEF Free, StdioOpen
  <2>7. BothSaved => BothSaved'
    BY <2>1, <2>2, <2>3 DEF BothSaved, Free, StdioOpen
  <2>8. ~ OneSaved /\ ~ NoneSaved
    BY <2>2 DEF OneSaved, NoneSaved
  <2>9. QED
    BY <2>1, <2>4, <2>5, <2>6, <2>7, <2>8 DEF StdioOpen, AtPrompt, AtSave, InParent, InBare
<1>4. ASSUME pc = "redirect", Applied, UNCHANGED <<table, path, redirects, in_save, out_save, before>>
      PROVE  IInv'
  <2>1. TypeOK' /\ StdioOpen(table)' /\ StdioOpen(before)'
    BY <1>4 DEF Applied, TypeOK, StdioOpen
  <2>2. Free(table)' = Free(table) /\ Free(before)' = Free(before)
    BY <1>4 DEF Free
  <2>3. (BothSaved \/ OneSaved \/ NoneSaved) => (BothSaved \/ OneSaved \/ NoneSaved)'
    BY <1>4, <2>2 DEF BothSaved, OneSaved, NoneSaved
  <2>4. CASE path = "parent"
    BY <1>4, <2>1, <2>2, <2>3, <2>4 DEF Applied, AtPrompt, AtSave, InParent, InBare
  <2>5. CASE path = "bare"
    BY <1>4, <2>1, <2>2, <2>5 DEF Applied, AtPrompt, AtSave, InParent, InBare
  <2>6. QED
    BY <2>4, <2>5 DEF TypeOK, Paths
<1>5. CASE RedirectFails
  BY <1>4, <1>5 DEF RedirectFails, saves
<1>6. CASE Redirected
  BY <1>4, <1>6 DEF Redirected, saves
<1>10. CASE HeredocInterrupted
  <2>1. table' = table
    BY <1>10, HeredocEffect DEF HeredocInterrupted
  <2>2. QED
    BY <1>4, <1>10, <2>1 DEF HeredocInterrupted, saves
<1>7. CASE Restore
  <2>1. /\ pc = "restore" /\ pc' = "prompt" /\ UNCHANGED <<path, redirects, in_save, out_save, before>>
    BY <1>7 DEF Restore, saves
  <2>2. path = "parent"
    BY <2>1 DEF InBare, TypeOK, Paths
  <2>3. BothSaved \/ OneSaved \/ NoneSaved
    BY <2>1, <2>2 DEF InParent
  <2>4. table' = before
    BY <1>7, <2>3, RestoreEffect
  <2>5. TypeOK' /\ StdioOpen(table)' /\ StdioOpen(before)'
    BY <2>1, <2>4 DEF TypeOK, StdioOpen
  <2>6. QED
    BY <2>1, <2>2, <2>4, <2>5 DEF AtPrompt, AtSave, InParent, InBare, Free
<1>8. CASE UNCHANGED vars
  BY <1>8 DEF vars, saves, TypeOK, StdioOpen, AtPrompt, AtSave, InParent, InBare, Free, BothSaved, OneSaved, NoneSaved
<1>9. QED
  BY <1>1, <1>2, <1>3, <1>5, <1>6, <1>7, <1>8, <1>10 DEF Next

-----------------------------------------------------------------------------
(* A line executes the steps of Descriptors, whatever is printed meanwhile. *)
LEMMA StdioStep == [StdioNext]_<<vars, io>> => [Next]_vars
  BY DEF StdioNext, Prompt, RunBuiltin, Ended, Next

(* dup leaves stdout alone. *)
LEMMA SaveKeepsStdout ==
  ASSUME TypeOK, StdioOpen(table), Save
  PROVE  table'[1] = table[1]
<1> DEFINE t == Put(table, in_save', table[0])
<1>1. table \in [Fds -> Objects] /\ {0, 1} \subseteq Fds /\ None \notin Fds
  BY DescriptorsAssumption DEF TypeOK, Fds, None
<1>2. in_save' = Lowest(table) /\ out_save' = Lowest(t) /\ table' = Put(t, out_save', table[1])
  BY DEF Save
<1>3. t \in [Fds -> Objects] /\ t[1] = table[1]
  <2>1. in_save' = None \/ (in_save' \in Fds /\ in_save' # 1)
    BY <1>1, <1>2, LowestIsFree DEF Free, StdioOpen
  <2>2. QED
    BY <1>1, <2>1 DEF Put
<1>4. out_save' = None \/ (out_save' \in Fds /\ out_save' # 1)
  BY <1>1, <1>2, <1>3, LowestIsFree DEF Free, StdioOpen
<1>5. QED
  BY <1>1, <1>2, <1>3, <1>4 DEF Put

(* Until the builtin runs nothing is in the buffer, and stdout is on its way to
   where the line sends it; what is in the buffer afterwards was printed by
   this line, and is meant for stdout as it was before it. *)
Bound(rs) == \E k \in DOMAIN rs : rs[k] = "out"

OnItsWay ==
    path = "parent" /\ pc \in {"save", "redirect"} =>
        /\ meant.shell = before[1]
        /\ meant.line = IF Bound(redirects) THEN "file" ELSE table[1]

Pending ==
    /\ buffer \in Seq(Texts) /\ meant \in Texts
    /\ pc \in {"save", "redirect"} \/ terminal => buffer = <<>>
    /\ buffer # <<>> => path = "parent" /\ \A k \in DOMAIN buffer : buffer[k].shell = before[1]

(* Where the printed texts went, also on what is no terminal: there a line's
   output is written when stdout has been restored. *)
Landed ==
    \A k \in DOMAIN landed :
        landed[k][2] = IF terminal \/ ended # Running THEN landed[k][1].line ELSE landed[k][1].shell

OInv == IInv /\ (ended = Running => OnItsWay /\ Pending) /\ Landed

(* At the start nothing has been printed. *)
LEMMA InitOInv == StdioInit => OInv
<1> SUFFICES ASSUME StdioInit PROVE OInv
  OBVIOUS
<1>1. IInv /\ pc = "prompt"
  BY InitIInv DEF StdioInit, Init
<1>2. meant \in Texts
  BY DEF StdioInit, Texts, Objects
<1>3. QED
  BY <1>1, <1>2 DEF StdioInit, OInv, OnItsWay, Pending, Landed

(* The line is typed: the flush of the prompt before it finds stdout restored. *)
LEMMA PromptOInv ==
  ASSUME OInv, IInv', NEW p \in Paths, NEW rs, Prompt(p, rs)
  PROVE  OInv'
<1>1. /\ pc = "prompt" /\ path' = p /\ redirects' = rs /\ table' = table /\ before' = table
      /\ pc' \in {"save", "redirect"}
      /\ ended = Running /\ ended' = ended /\ terminal' = terminal /\ buffer' = <<>>
      /\ meant' = [line |-> IF Bound(rs) THEN "file" ELSE table[1], shell |-> table[1]]
      /\ landed' = [k \in DOMAIN buffer |-> <<buffer[k], table[1]>>]
  BY DEF Prompt, Line, Bound, Written
<1>2. table[1] \in Objects /\ "file" \in Objects
  BY DescriptorsAssumption DEF OInv, IInv, TypeOK, Fds, Objects
<1>3. OnItsWay'
  BY <1>1 DEF OnItsWay, Bound
<1>4. Pending'
  BY <1>1, <1>2 DEF Pending, Texts
<1>5. Landed'
  <2>1. CASE buffer = <<>>
    BY <1>1, <2>1 DEF Landed
  <2>2. CASE buffer # <<>>
    BY <1>1, <2>2 DEF OInv, IInv, AtPrompt, Pending, Landed
  <2>3. QED
    BY <2>1, <2>2
<1>6. QED
  BY <1>3, <1>4, <1>5 DEF OInv

(* The builtin prints: on a terminal at once, at the end of the shell, or into
   the buffer. *)
LEMMA RunBuiltinOInv ==
  ASSUME OInv, IInv', ended = Running, RunBuiltin
  PROVE  OInv'
<1>1. /\ path = "parent" /\ pc = "redirect" /\ redirects = <<>> /\ pc' = "restore"
      /\ UNCHANGED <<table, path, before>>
  BY DEF RunBuiltin, Redirected, Applied
<1>2. /\ OnItsWay /\ Pending /\ buffer = <<>> /\ meant.line = table[1] /\ meant.shell = before[1]
      /\ meant \in Texts
  BY <1>1 DEF OInv, OnItsWay, Pending, Bound
<1>3. OnItsWay'
  BY <1>1 DEF OnItsWay
<1>4. CASE Quiet
  BY <1>1, <1>2, <1>3, <1>4 DEF Quiet, io, OInv, Pending, Landed
<1>5. ASSUME Printed(meant), UNCHANGED <<terminal, meant, ended>> PROVE OInv'
  <2>1. CASE terminal
    <3>1. landed' = [k \in {1} |-> <<meant, table[1]>>] /\ buffer' = <<>>
      BY <1>2, <1>5, <2>1 DEF Printed, Written
    <3>2. QED
      BY <1>1, <1>2, <1>3, <1>5, <2>1, <3>1 DEF OInv, Pending, Landed
  <2>2. CASE ~ terminal
    <3>1. landed' = landed /\ buffer' = <<meant>>
      BY <1>2, <1>5, <2>2 DEF Printed
    <3>2. Pending'
      BY <1>1, <1>2, <1>5, <2>2, <3>1 DEF Pending
    <3>3. QED
      BY <1>3, <1>5, <2>2, <3>1, <3>2 DEF OInv, Landed
  <2>3. QED
    BY <2>1, <2>2
<1>6. ASSUME NEW args, NEW last \in {0, 130}, bi_exit(args, last) PROVE OInv'
  <2>1. CASE Printed(meant) /\ UNCHANGED ended
    BY <1>5, <1>6, <2>1 DEF bi_exit
  <2>2. ASSUME NEW code, Exits(args, last, code), args = <<>> => code = last PROVE OInv'
    <3>1. ended' # Running
      BY <2>2 DEF Exits, Running
    <3>2. landed' = [k \in {1} |-> <<meant, table[1]>>]
      BY <1>2, <2>2 DEF Exits, Written
    <3>3. QED
      BY <1>2, <3>1, <3>2 DEF OInv, Landed
  <2>3. QED
    BY <1>6, <2>1, <2>2 DEF bi_exit
<1>7. QED
  BY <1>4, <1>5, <1>6 DEF RunBuiltin, print_export

(* The other steps of a line print nothing. *)
LEMMA SilentOInv ==
  ASSUME OInv, IInv', ended = Running, UNCHANGED io,
         Save \/ Redirect \/ HeredocInterrupted \/ RedirectFails \/ Restore \/ (path = "bare" /\ Redirected)
  PROVE  OInv'
<1>1. OnItsWay /\ Pending /\ Landed /\ IInv
  BY DEF OInv
<1>2. Landed' /\ UNCHANGED <<meant, buffer, terminal, ended>>
  BY <1>1 DEF io, Landed
<1>3. path' = path /\ before' = before
  BY DEF Save, Redirect, HeredocInterrupted, RedirectFails, Restore, Redirected
<1>4. Pending'
  BY <1>1, <1>2, <1>3 DEF Pending, Save, Redirect, HeredocInterrupted, RedirectFails, Restore, Redirected, Applied
<1>5. CASE Save
  BY <1>1, <1>2, <1>3, <1>4, <1>5, SaveKeepsStdout DEF IInv, Save, OInv, OnItsWay
<1>6. CASE Redirect
  <2>1. redirects # <<>> /\ redirects' = Tail(redirects) /\ pc' = pc /\ redirects \in Seq(Redirections)
    BY <1>1, <1>6 DEF Redirect, IInv, TypeOK
  <2>2. table'[1] = IF Head(redirects) = "out" THEN "file" ELSE table[1]
    <3>1. PICK to \in {0, 1}, o \in {"file", "pipe"} :
            /\ table' = [table EXCEPT ![to] = o]
            /\ IF Head(redirects) = "out" THEN to = 1 /\ o = "file" ELSE to = 0
      BY <1>1, <1>6, RedirectEffect DEF IInv
    <3>2. table \in [Fds -> Objects] /\ {0, 1} \subseteq Fds
      BY <1>1, DescriptorsAssumption DEF IInv, TypeOK, Fds
    <3>3. QED
      BY <3>1, <3>2
  <2>3. Bound(redirects) <=> Head(redirects) = "out" \/ Bound(redirects')
    <3>1. /\ Len(redirects) \in Nat /\ Len(redirects) > 0
          /\ DOMAIN redirects = 1 .. Len(redirects) /\ DOMAIN redirects' = 1 .. Len(redirects) - 1
          /\ Head(redirects) = redirects[1]
          /\ \A k \in 1 .. Len(redirects) - 1 : redirects'[k] = redirects[k + 1]
      BY <2>1
    <3>2. ASSUME NEW k \in DOMAIN redirects, redirects[k] = "out", k # 1 PROVE Bound(redirects')
      <4>1. k - 1 \in DOMAIN redirects' /\ redirects'[k - 1] = "out"
        BY <3>1, <3>2
      <4>2. QED
        BY <4>1 DEF Bound
    <3>3. QED
      BY <3>1, <3>2 DEF Bound
  <2>4. OnItsWay'
    BY <1>1, <1>2, <1>3, <2>1, <2>2, <2>3 DEF OnItsWay
  <2>5. QED
    BY <1>2, <1>4, <2>4 DEF OInv
<1>7. CASE HeredocInterrupted \/ RedirectFails \/ Restore \/ (path = "bare" /\ Redirected)
  <2>1. OnItsWay'
    BY <1>3, <1>7 DEF HeredocInterrupted, RedirectFails, Restore, Redirected, Applied, OnItsWay
  <2>2. QED
    BY <1>2, <1>4, <2>1 DEF OInv
<1>8. QED
  BY <1>5, <1>6, <1>7

(* Every step keeps the invariant of what is printed. *)
LEMMA NextOInv == OInv /\ [StdioNext]_<<vars, io>> => OInv'
<1> SUFFICES ASSUME OInv, [StdioNext]_<<vars, io>> PROVE OInv'
  OBVIOUS
<1>1. IInv'
  BY StdioStep, NextIInv DEF OInv
<1>2. ASSUME UNCHANGED <<vars, io>> PROVE OInv'
  BY <1>1, <1>2 DEF vars, saves, io, OInv, OnItsWay, Pending, Landed
<1>3. QED
  BY <1>1, <1>2, PromptOInv, RunBuiltinOInv, SilentOInv DEF StdioNext, Ended

(* At every moment the invariant holds. *)
LEMMA Inductive == StdioSpec => []OInv
<1>1. QED
  BY InitOInv, NextOInv, PTL DEF StdioSpec

(* The descriptor table, and exec_single_parent's variables, keep their types. *)
THEOREM DescriptorsTypeOK == StdioSpec => []TypeOK
<1>1. OInv => TypeOK
  BY DEF OInv, IInv
<1>2. QED
  BY <1>1, Inductive, PTL

(* No line leaks a descriptor or loses stdin or stdout, however many
   descriptors there are, whichever call of exec_single_parent, apply_redirects
   or heredoc_fd fails and whichever here-document a Ctrl-C interrupts. *)
THEOREM DescriptorsDoNotLeak == StdioSpec => []NoDescriptorLeaks
<1>1. OInv => NoDescriptorLeaks
  BY DEF OInv, IInv, AtPrompt, NoDescriptorLeaks
<1>2. QED
  BY <1>1, Inductive, PTL

(* exec_single_parent leaves stdin and stdout as they were. *)
THEOREM ParentBuiltinRestores == StdioSpec => []ParentRestoresStdio
<1>1. OInv => ParentRestoresStdio
  BY DEF OInv, IInv, AtPrompt, ParentRestoresStdio
<1>2. QED
  BY <1>1, Inductive, PTL

(* On a terminal, and when the shell ends with it, what a parent builtin prints
   goes to the file or stdout that its line names, whatever its redirections
   and the lines before it. *)
THEOREM BuiltinOutputLands == StdioSpec => []OutputLands
<1>1. OInv => OutputLands
  BY DEF OInv, Landed, OutputLands
<1>2. QED
  BY <1>1, Inductive, PTL

-----------------------------------------------------------------------------
(* ft_atol.  The digits are what they are; the end of the string, a blank and
   the signs are none. *)
LEMMA DigitIs ==
  /\ \A c \in DOMAIN Digit : Digit[c] \in 0 .. 9
  /\ "" \notin DOMAIN Digit /\ "+" \notin DOMAIN Digit /\ "-" \notin DOMAIN Digit
  BY DEF Digit

(* What ft_atol returns where the digits end, and when the number overflows. *)
AtEnd(s, first, sign, p, n) == [ok |-> p > first /\ p = Len(s) + 1, n |-> sign * n]
TooBig(sign, n) == [ok |-> FALSE, n |-> sign * n]

(* One turn of ft_atol's loop, at position p with n so far. *)
LoopAt(g, s, first, sign, p, n) ==
    IF At(s, p) \notin DOMAIN Digit THEN AtEnd(s, first, sign, p, n)
    ELSE IF Overflows(n, Digit[At(s, p)]) THEN TooBig(sign, n)
    ELSE g[<<p + 1, 10 * n + Digit[At(s, p)]>>]

LoopsFrom(g, s, first, sign, l) ==
    /\ g = [at \in Nat \X Nat |-> g[at]]
    /\ \A p \in Nat, n \in Nat : p >= l => g[<<p, n>>] = LoopAt(g, s, first, sign, p, n)

(* The loop ends at the end of the string, so that its recursion defines it:
   a function that is right from l + 1 on is made right at l. *)
LEMMA LoopMore ==
  ASSUME NEW s, NEW first, NEW sign, NEW l \in Nat, NEW g, LoopsFrom(g, s, first, sign, l + 1)
  PROVE  \E h : LoopsFrom(h, s, first, sign, l)
<1>1. PICK h : h = [at \in Nat \X Nat |-> IF at[1] = l THEN LoopAt(g, s, first, sign, at[1], at[2]) ELSE g[at]]
  OBVIOUS
<1>2. \A p \in Nat, n \in Nat : h[<<p, n>>] = IF p = l THEN LoopAt(g, s, first, sign, p, n) ELSE g[<<p, n>>]
  BY <1>1
<1>3. h = [at \in Nat \X Nat |-> h[at]]
  BY <1>1
<1>4. ASSUME NEW p \in Nat, NEW n \in Nat, p >= l PROVE h[<<p, n>>] = LoopAt(h, s, first, sign, p, n)
  <2>1. LoopAt(h, s, first, sign, p, n) = LoopAt(g, s, first, sign, p, n)
    <3>1. CASE At(s, p) \in DOMAIN Digit
      <4>0. PICK d \in 0 .. 9 : d = Digit[At(s, p)]
        BY <3>1, DigitIs
      <4>1. PICK m : m = 10 * n + Digit[At(s, p)]
        OBVIOUS
      <4>2. m \in Nat /\ p + 1 \in Nat /\ p + 1 # l
        BY <1>4, <4>0, <4>1
      <4>3. h[<<p + 1, m>>] = g[<<p + 1, m>>]
        BY <1>2, <4>2
      <4>4. QED
        BY <4>1, <4>3 DEF LoopAt
    <3>2. CASE At(s, p) \notin DOMAIN Digit
      BY <3>2 DEF LoopAt
    <3>3. QED
      BY <3>1, <3>2
  <2>2. CASE p = l
    BY <1>2, <2>1, <2>2
  <2>3. CASE p # l
    <3>1. p >= l + 1
      BY <1>4, <2>3
    <3>2. g[<<p, n>>] = LoopAt(g, s, first, sign, p, n)
      BY <3>1 DEF LoopsFrom
    <3>3. QED
      BY <1>2, <2>1, <2>3, <3>2
  <2>4. QED
    BY <2>2, <2>3
<1>5. QED
  BY <1>3, <1>4 DEF LoopsFrom

(* There is a function that satisfies the recursion at every position. *)
LEMMA LoopExists ==
  ASSUME NEW s, Len(s) \in Nat, DOMAIN s = 1 .. Len(s), NEW first, NEW sign
  PROVE  \E g : LoopsFrom(g, s, first, sign, 0)
<1>1. PICK e : e = Len(s) + 1
  OBVIOUS
<1>2. e \in Nat /\ DOMAIN s = 1 .. e - 1
  BY <1>1
<1>3. \E g : LoopsFrom(g, s, first, sign, e)
  <2>1. PICK z : z = [at \in Nat \X Nat |-> AtEnd(s, first, sign, at[1], at[2])]
    OBVIOUS
  <2>2. \A p \in Nat, n \in Nat : z[<<p, n>>] = AtEnd(s, first, sign, p, n)
    BY <2>1
  <2>3. z = [at \in Nat \X Nat |-> z[at]]
    BY <2>1
  <2>4. ASSUME NEW p \in Nat, NEW n \in Nat, p >= e PROVE z[<<p, n>>] = LoopAt(z, s, first, sign, p, n)
    <3>1. p \notin DOMAIN s
      BY <1>2, <2>4
    <3>2. At(s, p) \notin DOMAIN Digit
      BY <3>1, DigitIs DEF At
    <3>3. LoopAt(z, s, first, sign, p, n) = AtEnd(s, first, sign, p, n)
      BY <3>2 DEF LoopAt
    <3>4. z[<<p, n>>] = AtEnd(s, first, sign, p, n)
      BY <2>2
    <3>5. QED
      BY <3>3, <3>4
  <2>5. QED
    BY <2>3, <2>4 DEF LoopsFrom
<1>4. PICK S : S = {j \in 0 .. e : ~ \E g : LoopsFrom(g, s, first, sign, e - j)}
  OBVIOUS
<1>5. \A j : j \in S <=> j \in 0 .. e /\ ~ \E g : LoopsFrom(g, s, first, sign, e - j)
  BY <1>4
<1>6. ASSUME NEW j \in S, \A k \in S : j <= k PROVE FALSE
  <2>1. j \in 0 .. e /\ ~ \E g : LoopsFrom(g, s, first, sign, e - j)
    BY <1>5, <1>6
  <2>2. j # 0
    <3>1. e - 0 = e
      BY <1>2
    <3>2. QED
      BY <1>3, <2>1, <3>1
  <2>3. PICK k : k = j - 1
    OBVIOUS
  <2>4. k \in 0 .. e /\ ~ (j <= k) /\ e - j \in Nat /\ e - k = (e - j) + 1
    BY <1>2, <2>1, <2>2, <2>3
  <2>5. PICK g : LoopsFrom(g, s, first, sign, e - k)
    BY <1>5, <1>6, <2>4
  <2>6. PICK l : l = e - j
    OBVIOUS
  <2>7. \E h : LoopsFrom(h, s, first, sign, l)
    BY <2>4, <2>5, <2>6, LoopMore
  <2>8. QED
    BY <2>1, <2>6, <2>7
<1>7. S \in SUBSET Nat
  BY <1>2, <1>4
<1>8. S = {}
  BY <1>6, <1>7, Least
<1>9. e \in 0 .. e /\ e - e = 0
  BY <1>2
<1>10. QED
  BY <1>5, <1>8, <1>9

-----------------------------------------------------------------------------
(* The value of a numeral, digit by digit. *)
ValueAt(h, s, k) == IF k = 0 THEN 0 ELSE 10 * h[k - 1] + Digit[s[k]]

ValuesTo(h, s, n) == h = [k \in 0 .. n |-> ValueAt(h, s, k)]

(* A function that gives the value of n digits is extended to one more. *)
LEMMA ValueMore ==
  ASSUME NEW s, NEW n \in Nat, NEW h, ValuesTo(h, s, n)
  PROVE  \E f : ValuesTo(f, s, n + 1)
<1>1. PICK f : f = [k \in 0 .. n + 1 |-> IF k = n + 1 THEN ValueAt(h, s, k) ELSE h[k]]
  OBVIOUS
<1>2. \A k \in 0 .. n : f[k] = h[k] /\ h[k] = ValueAt(h, s, k)
  BY <1>1 DEF ValuesTo
<1>3. ASSUME NEW k \in 0 .. n + 1 PROVE f[k] = ValueAt(f, s, k)
  <2>1. ValueAt(f, s, k) = ValueAt(h, s, k)
    <3>1. CASE k = 0
      BY <3>1 DEF ValueAt
    <3>2. CASE k # 0
      <4>1. k - 1 \in 0 .. n
        BY <3>2
      <4>2. f[k - 1] = h[k - 1]
        BY <1>2, <4>1
      <4>3. QED
        BY <4>2 DEF ValueAt
    <3>3. QED
      BY <3>1, <3>2
  <2>2. CASE k = n + 1
    <3>1. f[k] = ValueAt(h, s, k)
      BY <1>1, <2>2
    <3>2. QED
      BY <2>1, <3>1
  <2>3. CASE k # n + 1
    <3>1. k \in 0 .. n
      BY <2>3
    <3>2. QED
      BY <1>2, <2>1, <3>1
  <2>4. QED
    BY <2>2, <2>3
<1>4. f = [k \in 0 .. n + 1 |-> f[k]]
  BY <1>1
<1>5. f = [k \in 0 .. n + 1 |-> ValueAt(f, s, k)]
  BY <1>3, <1>4
<1>6. QED
  BY <1>5 DEF ValuesTo

(* There is such a function for every number of digits. *)
LEMMA ValueExists ==
  ASSUME NEW s, NEW n \in Nat
  PROVE  \E h : ValuesTo(h, s, n)
<1>1. PICK S : S = {k \in Nat : ~ \E h : ValuesTo(h, s, k)}
  OBVIOUS
<1>2. \A k : k \in S <=> k \in Nat /\ ~ \E h : ValuesTo(h, s, k)
  BY <1>1
<1>3. \E h : ValuesTo(h, s, 0)
  <2>1. PICK h : h = [k \in 0 .. 0 |-> 0]
    OBVIOUS
  <2>2. \A k \in 0 .. 0 : ValueAt(h, s, k) = 0
    BY DEF ValueAt
  <2>3. h = [k \in 0 .. 0 |-> ValueAt(h, s, k)]
    BY <2>1, <2>2
  <2>4. QED
    BY <2>3 DEF ValuesTo
<1>4. ASSUME NEW k \in S, \A m \in S : k <= m PROVE FALSE
  <2>1. k \in Nat /\ ~ \E h : ValuesTo(h, s, k)
    BY <1>2, <1>4
  <2>2. k # 0
    BY <1>3, <2>1
  <2>3. PICK m : m = k - 1
    OBVIOUS
  <2>4. m \in Nat /\ ~ (k <= m) /\ m + 1 = k
    BY <2>1, <2>2, <2>3
  <2>5. PICK h : ValuesTo(h, s, m)
    BY <1>2, <1>4, <2>4
  <2>6. \E f : ValuesTo(f, s, m + 1)
    BY <2>4, <2>5, ValueMore
  <2>7. QED
    BY <2>1, <2>4, <2>6
<1>5. S \in SUBSET Nat
  BY <1>1
<1>6. S = {}
  BY <1>4, <1>5, Least
<1>7. QED
  BY <1>2, <1>6

(* The value of a numeral, by its recursion. *)
LEMMA ValueIs ==
  ASSUME NEW s, NEW n \in Nat, Len(s) = n
  PROVE  \E v : /\ Value(s) = v[n] /\ v[0] = 0
                /\ \A k \in 1 .. n : v[k] = 10 * v[k - 1] + Digit[s[k]]
<1> DEFINE Unfolds(f) == f = [k \in 0 .. Len(s) |-> ValueAt(f, s, k)]
           v0 == CHOOSE f : Unfolds(f)
<1>1. \E f : Unfolds(f)
  BY ValueExists DEF ValuesTo
<1>2. Unfolds(v0)
  BY <1>1
<1>3. Value(s) = v0[Len(s)]
  BY DEF Value, ValueAt
<1>4. PICK v : v = v0
  OBVIOUS
<1>5. v = [k \in 0 .. Len(s) |-> ValueAt(v, s, k)]
  BY <1>2, <1>4
<1> HIDE DEF v0, Unfolds
<1>6. \A k \in 0 .. n : v[k] = ValueAt(v, s, k)
  BY <1>5
<1>7. v[0] = 0
  BY <1>6 DEF ValueAt
<1>8. \A k \in 1 .. n : v[k] = 10 * v[k - 1] + Digit[s[k]]
  BY <1>6 DEF ValueAt
<1>9. QED
  BY <1>3, <1>4, <1>7, <1>8

(* Every digit makes it larger. *)
LEMMA ValueGrows ==
  ASSUME NEW s, NEW v, NEW n \in Nat, v[0] = 0,
         \A k \in 1 .. n : v[k] = 10 * v[k - 1] + Digit[s[k]] /\ s[k] \in DOMAIN Digit
  PROVE  \A k \in 0 .. n : v[k] \in Nat /\ \A j \in 0 .. k : v[j] <= v[k]
<1>1. PICK S : S = {k \in 0 .. n : ~ (v[k] \in Nat /\ \A j \in 0 .. k : v[j] \in Nat /\ v[j] <= v[k])}
  OBVIOUS
<1>2. ASSUME NEW k \in S, \A m \in S : k <= m PROVE FALSE
  <2>1. k \in 0 .. n /\ ~ (v[k] \in Nat /\ \A j \in 0 .. k : v[j] \in Nat /\ v[j] <= v[k])
    BY <1>1, <1>2
  <2>2. k # 0
    BY <2>1
  <2>3. PICK m : m = k - 1
    OBVIOUS
  <2>4. m \in 0 .. n /\ ~ (k <= m) /\ k \in 1 .. n
    BY <2>1, <2>2, <2>3
  <2>5. v[m] \in Nat /\ \A j \in 0 .. m : v[j] \in Nat /\ v[j] <= v[m]
    BY <1>1, <1>2, <2>4
  <2>6. PICK d \in 0 .. 9 : d = Digit[s[k]]
    BY <2>4, DigitIs
  <2>7. v[k] = 10 * v[m] + d
    BY <2>3, <2>4, <2>6
  <2>8. v[k] \in Nat /\ v[m] <= v[k]
    BY <2>5, <2>6, <2>7
  <2>9. ASSUME NEW j \in 0 .. k PROVE v[j] \in Nat /\ v[j] <= v[k]
    <3>1. CASE j = k
      BY <2>8, <3>1
    <3>2. CASE j \in 0 .. m
      <4>1. v[j] \in Nat /\ v[j] <= v[m]
        BY <2>5, <3>2
      <4>2. QED
        BY <2>5, <2>8, <4>1
    <3>3. QED
      BY <2>1, <2>3, <3>1, <3>2
  <2>10. QED
    BY <2>1, <2>8, <2>9
<1>3. S \in SUBSET Nat
  BY <1>1
<1>4. S = {}
  BY <1>2, <1>3, Least
<1>5. QED
  BY <1>1, <1>4

(* ft_atol's test before it takes a digit says exactly whether the number with
   that digit would be larger than LONG_MAX. *)
LEMMA OverflowIs ==
  ASSUME NEW n \in Nat, NEW d \in 0 .. 9
  PROVE  Overflows(n, d) <=> 10 * n + d > LongMax
<1>1. LongMax \in Nat
  BY StdioAssumption
<1>2. PICK a : a = LongMax - d
  OBVIOUS
<1>3. a \in Int
  BY <1>1, <1>2
<1>4. PICK q : q = a \div 10
  OBVIOUS
<1>5. q \in Int /\ 10 * q <= a /\ a < 10 * (q + 1)
  BY <1>3, <1>4, SMTT(30)
<1>6. n > q <=> 10 * n > a
  BY <1>3, <1>5
<1>7. QED
  BY <1>1, <1>2, <1>4, <1>6 DEF Overflows

(* The loop reads the digits as long as the number fits: v[k] is the number
   after k of them. *)
Digits(s, first, v, n) ==
    /\ v[0] = 0
    /\ \A k \in 1 .. n : v[k] = 10 * v[k - 1] + Digit[At(s, first + k - 1)] /\ At(s, first + k - 1) \in DOMAIN Digit
    /\ \A k \in 0 .. n : v[k] \in Nat /\ v[k] <= LongMax

LEMMA LoopReads ==
  ASSUME NEW s, NEW first \in Nat, NEW sign, NEW g, LoopsFrom(g, s, first, sign, 0),
         NEW n \in Nat, NEW v, Digits(s, first, v, n)
  PROVE  g[<<first, 0>>] = g[<<first + n, v[n]>>]
<1> USE DEF Digits
<1>1. PICK S : S = {k \in 0 .. n : g[<<first, 0>>] # g[<<first + k, v[k]>>]}
  OBVIOUS
<1>2. ASSUME NEW k \in S, \A m \in S : k <= m PROVE FALSE
  <2>1. k \in 0 .. n /\ g[<<first, 0>>] # g[<<first + k, v[k]>>]
    BY <1>1, <1>2
  <2>2. k # 0
    <3>1. first + 0 = first
      OBVIOUS
    <3>2. QED
      BY <2>1, <3>1
  <2>3. PICK m : m = k - 1
    OBVIOUS
  <2>4. m \in 0 .. n /\ ~ (k <= m) /\ k \in 1 .. n
    BY <2>1, <2>2, <2>3
  <2>5. g[<<first, 0>>] = g[<<first + m, v[m]>>]
    BY <1>1, <1>2, <2>4
  <2>6. PICK p, x : p = first + m /\ x = v[m]
    OBVIOUS
  <2>7. p \in Nat /\ x \in Nat /\ p >= 0 /\ p = first + k - 1 /\ p + 1 = first + k
    BY <2>3, <2>4, <2>6
  <2>8. g[<<p, x>>] = LoopAt(g, s, first, sign, p, x)
    BY <2>7 DEF LoopsFrom
  <2>9. At(s, p) \in DOMAIN Digit /\ v[k] = 10 * x + Digit[At(s, p)]
    BY <2>3, <2>4, <2>6, <2>7
  <2>10. PICK d \in 0 .. 9 : d = Digit[At(s, p)]
    BY <2>9, DigitIs
  <2>11. ~ Overflows(x, d)
    <3>1. v[k] \in Nat /\ v[k] <= LongMax /\ LongMax \in Nat
      BY <2>4, StdioAssumption
    <3>2. QED
      BY <2>7, <2>9, <2>10, <3>1, OverflowIs
  <2>12. LoopAt(g, s, first, sign, p, x) = g[<<p + 1, 10 * x + Digit[At(s, p)]>>]
    BY <2>9, <2>10, <2>11 DEF LoopAt
  <2>13. QED
    BY <2>1, <2>5, <2>6, <2>7, <2>8, <2>9, <2>12
<1>3. S \in SUBSET Nat
  BY <1>1
<1>4. S = {}
  BY <1>2, <1>3, Least
<1>5. n \in 0 .. n
  OBVIOUS
<1>6. QED
  BY <1>1, <1>4, <1>5

(* What the loop makes of the text b behind the sign. *)
LEMMA LoopIs ==
  ASSUME NEW s, NEW first \in Nat, NEW sign \in {1, -1}, NEW g, LoopsFrom(g, s, first, sign, 0),
         NEW b, NEW n \in Nat, Len(b) = n, DOMAIN b = 1 .. n, b = <<>> <=> n = 0, Len(s) + 1 = first + n,
         \A k \in 1 .. n : At(s, first + k - 1) = b[k], At(s, first + n) \notin DOMAIN Digit
  PROVE  LET r == g[<<first, 0>>] IN
         /\ r.n \in Int
         /\ Fits(b) => r.ok /\ r.n = sign * Value(b)
         /\ ~ Fits(b) => ~ r.ok
<1>1. PICK v : /\ Value(b) = v[n] /\ v[0] = 0
               /\ \A k \in 1 .. n : v[k] = 10 * v[k - 1] + Digit[b[k]]
  BY ValueIs
<1>2. PICK r : r = g[<<first, 0>>]
  OBVIOUS
<1>3. PICK S : S = {k \in 1 .. n : b[k] \notin DOMAIN Digit \/ ~ (v[k] <= LongMax)}
  OBVIOUS
<1>4. S \in SUBSET Nat /\ LongMax \in Nat
  BY <1>3, StdioAssumption
<1>5. ASSUME NEW m \in 0 .. n, \A k \in 1 .. m : k \notin S
      PROVE  /\ v[m] \in Nat /\ r = LoopAt(g, s, first, sign, first + m, v[m])
             /\ \A k \in 0 .. m : v[k] \in Nat /\ v[k] <= LongMax
  <2>1. \A k \in 1 .. m : k \in 1 .. n /\ b[k] \in DOMAIN Digit /\ v[k] <= LongMax
    BY <1>3, <1>5
  <2>2. \A k \in 1 .. m : v[k] = 10 * v[k - 1] + Digit[b[k]] /\ b[k] \in DOMAIN Digit
    BY <1>1, <2>1
  <2>3. \A k \in 0 .. m : v[k] \in Nat
    <3>1. m \in Nat
      BY <1>5
    <3>2. \A k \in 0 .. m : v[k] \in Nat /\ \A j \in 0 .. k : v[j] <= v[k]
      BY <1>1, <2>2, <3>1, ValueGrows
    <3>3. QED
      BY <3>2
  <2>4. \A k \in 0 .. m : v[k] <= LongMax
    BY <1>1, <1>4, <2>1
  <2>5. \A k \in 1 .. m : v[k] = 10 * v[k - 1] + Digit[At(s, first + k - 1)] /\ At(s, first + k - 1) \in DOMAIN Digit
    BY <2>1, <2>2
  <2>6. g[<<first, 0>>] = g[<<first + m, v[m]>>]
    <3>1. m \in Nat /\ Digits(s, first, v, m)
      BY <1>1, <1>5, <2>3, <2>4, <2>5 DEF Digits
    <3>2. QED
      BY <3>1, LoopReads
  <2>7. PICK p, x : p = first + m /\ x = v[m]
    OBVIOUS
  <2>8. p \in Nat /\ x \in Nat /\ p >= 0 /\ m \in 0 .. m
    BY <2>3, <2>7
  <2>9. g[<<p, x>>] = LoopAt(g, s, first, sign, p, x)
    BY <2>8 DEF LoopsFrom
  <2>10. QED
    BY <1>2, <2>3, <2>4, <2>6, <2>7, <2>8, <2>9
<1>6. CASE S = {}
  <2>1. /\ v[n] \in Nat /\ r = LoopAt(g, s, first, sign, first + n, v[n])
        /\ v[n] <= LongMax
    BY <1>5, <1>6
  <2>2. r = AtEnd(s, first, sign, first + n, v[n])
    BY <2>1 DEF LoopAt
  <2>3. r.n = sign * v[n] /\ (r.ok <=> n > 0)
    <3>1. r.ok = (first + n > first /\ first + n = Len(s) + 1)
      BY <2>2 DEF AtEnd
    <3>2. r.n = sign * v[n]
      BY <2>2 DEF AtEnd
    <3>3. first + n > first <=> n > 0
      OBVIOUS
    <3>4. QED
      BY <3>1, <3>2, <3>3
  <2>4. Fits(b) <=> n > 0
    BY <1>1, <1>3, <1>6, <2>1 DEF Fits, Numeral
  <2>5. r.n \in Int
    BY <2>1, <2>3
  <2>6. QED
    BY <1>1, <1>2, <2>3, <2>4, <2>5
<1>7. ASSUME NEW k \in S, \A m \in S : k <= m
      PROVE  r.n \in Int /\ ~ r.ok /\ ~ Fits(b)
  <2>1. k \in 1 .. n /\ (b[k] \notin DOMAIN Digit \/ ~ (v[k] <= LongMax))
    BY <1>3, <1>7
  <2>2. PICK m : m = k - 1
    OBVIOUS
  <2>3. m \in 0 .. n /\ first + m = first + k - 1 /\ first + m \in Nat
    BY <2>1, <2>2
  <2>4. ASSUME NEW j \in 1 .. m PROVE j \notin S
    BY <1>7, <2>1, <2>2
  <2>5. v[m] \in Nat /\ r = LoopAt(g, s, first, sign, first + m, v[m])
    BY <1>5, <2>3, <2>4
  <2>6. At(s, first + m) = b[k]
    BY <2>1, <2>3
  <2>7. CASE b[k] \notin DOMAIN Digit
    <3>1. r = AtEnd(s, first, sign, first + m, v[m])
      BY <2>5, <2>6, <2>7 DEF LoopAt
    <3>2. r.n = sign * v[m] /\ ~ r.ok
      <4>1. r.ok = (first + m > first /\ first + m = Len(s) + 1)
        BY <3>1 DEF AtEnd
      <4>2. r.n = sign * v[m]
        BY <3>1 DEF AtEnd
      <4>3. first + m # first + n
        BY <2>1, <2>2
      <4>4. QED
        BY <4>1, <4>2, <4>3
    <3>3. ~ Numeral(b)
      BY <2>1, <2>7 DEF Numeral
    <3>4. QED
      BY <2>5, <3>2, <3>3 DEF Fits
  <2>8. CASE b[k] \in DOMAIN Digit
    <3>1. PICK d \in 0 .. 9 : d = Digit[b[k]]
      BY <2>8, DigitIs
    <3>2. v[k] = 10 * v[m] + d /\ v[k] \in Nat /\ v[k] > LongMax
      <4>1. v[k] = 10 * v[k - 1] + Digit[b[k]]
        BY <1>1, <2>1
      <4>2. v[k] = 10 * v[m] + d
        BY <2>2, <3>1, <4>1
      <4>3. v[k] \in Nat
        <5>1. v[m] \in Nat
          BY <2>5
        <5>2. QED
          BY <4>2, <5>1
      <4>4. ~ (v[k] <= LongMax)
        BY <2>1, <2>8
      <4>5. QED
        BY <1>4, <4>2, <4>3, <4>4
    <3>3. Overflows(v[m], d)
      BY <2>5, <3>2, OverflowIs
    <3>4. r = TooBig(sign, v[m])
      BY <2>5, <2>6, <2>8, <3>1, <3>3 DEF LoopAt
    <3>5. r.n = sign * v[m] /\ ~ r.ok
      BY <3>4 DEF TooBig
    <3>6. ASSUME Numeral(b) PROVE ~ (Value(b) <= LongMax)
      <4>1. \A j \in 1 .. n : v[j] = 10 * v[j - 1] + Digit[b[j]] /\ b[j] \in DOMAIN Digit
        BY <1>1, <3>6 DEF Numeral
      <4>2. \A j \in 0 .. n : v[j] \in Nat /\ \A i \in 0 .. j : v[i] <= v[j]
        BY <1>1, <4>1, ValueGrows
      <4>3. v[n] \in Nat /\ v[k] <= v[n]
        BY <2>1, <4>2
      <4>4. QED
        BY <1>1, <1>4, <3>2, <4>3
    <3>7. QED
      BY <2>5, <3>5, <3>6 DEF Fits
  <2>9. QED
    BY <2>7, <2>8
<1>8. QED
  <2>1. CASE S # {}
    <3>1. PICK k \in S : \A m \in S : k <= m
      BY <1>4, <2>1, Least
    <3>2. QED
      BY <1>2, <1>7, <3>1
  <2>2. QED
    BY <1>6, <2>1

(* Before the sign there are blanks only. *)
LEMMA BlanksAre ==
  ASSUME NEW s, NEW n \in Nat, Len(s) = n, DOMAIN s = 1 .. n
  PROVE  /\ Blanks(s) \in 0 .. n /\ At(s, Blanks(s) + 1) # Space
         /\ Min({p \in 1 .. n + 1 : At(s, p) # Space}) = Blanks(s) + 1
<1>1. PICK S : S = {p \in 1 .. n + 1 : At(s, p) # Space}
  OBVIOUS
<1>2. n + 1 \in S
  <2>1. n + 1 \notin DOMAIN s /\ n + 1 \in 1 .. n + 1
    OBVIOUS
  <2>2. "" # Space
    BY Zenon DEF Space
  <2>3. At(s, n + 1) # Space
    BY <2>1, <2>2 DEF At
  <2>4. QED
    BY <1>1, <2>1, <2>3
<1>3. S \in SUBSET Nat
  BY <1>1
<1>4. PICK m \in S : \A p \in S : m <= p
  BY <1>2, <1>3, Least
<1>5. \A p \in 1 .. n + 1 : p \in S <=> At(s, p) # Space
  BY <1>1
<1>6. Min(S) = m
  <2>1. \A x \in S : (\A p \in S : x <= p) => x = m
    BY <1>3, <1>4
  <2>2. QED
    BY <1>4, <2>1 DEF Min
<1> DEFINE Only(b) == (\A p \in 1 .. b : s[p] = Space) /\ At(s, b + 1) # Space
<1>7. m - 1 \in 0 .. n /\ Only(m - 1)
  <2>1. m \in 1 .. n + 1 /\ At(s, m) # Space /\ (m - 1) + 1 = m
    BY <1>1
  <2>2. ASSUME NEW p \in 1 .. m - 1 PROVE s[p] = Space
    <3>1. p \in 1 .. n + 1 /\ p \notin S /\ p \in DOMAIN s
      BY <1>4, <2>1, <2>2
    <3>2. QED
      BY <1>5, <3>1 DEF At
  <2>3. QED
    BY <2>1, <2>2
<1>8. ASSUME NEW b \in 0 .. n, Only(b) PROVE b = m - 1
  <2>1. b + 1 \in S
    BY <1>1, <1>8
  <2>2. m <= b + 1
    BY <1>4, <2>1
  <2>3. ASSUME m <= b PROVE FALSE
    <3>1. m \in 1 .. b /\ m \in 1 .. n + 1 /\ m \in DOMAIN s
      BY <1>1, <1>4, <2>3
    <3>2. s[m] = Space /\ At(s, m) # Space
      BY <1>4, <1>5, <1>8, <3>1
    <3>3. QED
      BY <3>1, <3>2 DEF At
  <2>4. m \in Nat
    BY <1>3
  <2>5. QED
    BY <2>2, <2>3, <2>4
<1>9. Blanks(s) = CHOOSE b \in 0 .. n : Only(b)
  BY DEF Blanks
<1> HIDE DEF Only
<1>10. Blanks(s) = m - 1
  BY <1>7, <1>8, <1>9
<1>11. m \in Nat
  BY <1>3
<1>12. Blanks(s) \in 0 .. n /\ Only(Blanks(s)) /\ Min(S) = Blanks(s) + 1
  BY <1>6, <1>7, <1>10, <1>11
<1>13. QED
  BY <1>1, <1>12 DEF Only

(* A numeral has a value. *)
LEMMA BodyValue ==
  ASSUME NEW b \in Seq(STRING), Numeral(b)
  PROVE  Value(b) \in Nat
<1>1. PICK n \in Nat : Len(b) = n /\ DOMAIN b = 1 .. n
  BY LenProperties
<1>2. PICK v : /\ Value(b) = v[n] /\ v[0] = 0
               /\ \A k \in 1 .. n : v[k] = 10 * v[k - 1] + Digit[b[k]]
  BY <1>1, ValueIs
<1>3. \A k \in 1 .. n : v[k] = 10 * v[k - 1] + Digit[b[k]] /\ b[k] \in DOMAIN Digit
  BY <1>1, <1>2 DEF Numeral
<1>4. \A k \in 0 .. n : v[k] \in Nat /\ \A j \in 0 .. k : v[j] <= v[k]
  BY <1>2, <1>3, ValueGrows
<1>5. n \in 0 .. n
  OBVIOUS
<1>6. QED
  BY <1>2, <1>4, <1>5

(* ft_atol, for every text: what it accepts, and the number it returns. *)
LEMMA AtolIs ==
  ASSUME NEW s \in Seq(STRING)
  PROVE  /\ Body(s) \in Seq(STRING) /\ ft_atol(s).n \in Int
         /\ ft_atol(s).ok <=> Fits(Body(s))
         /\ Fits(Body(s)) => ft_atol(s).n = (IF Sign(s) = "-" THEN -1 ELSE 1) * Value(Body(s))
<1>1. PICK n \in Nat : Len(s) = n /\ DOMAIN s = 1 .. n
  BY LenProperties
<1>2. PICK c, first, sign :
        /\ c = Sign(s)
        /\ first = Blanks(s) + (IF c \in {"+", "-"} THEN 2 ELSE 1)
        /\ sign = IF c = "-" THEN -1 ELSE 1
  OBVIOUS
<1>3. Blanks(s) \in 0 .. n /\ Min({p \in 1 .. Len(s) + 1 : At(s, p) # Space}) = Blanks(s) + 1
  BY <1>1, BlanksAre
<1>4. first \in 1 .. n + 1
  <2>1. CASE c \in {"+", "-"}
    <3>1. Blanks(s) + 1 \in DOMAIN s
      BY <1>2, <2>1 DEF Sign, At
    <3>2. QED
      BY <1>1, <1>2, <1>3, <2>1, <3>1
  <2>2. CASE c \notin {"+", "-"}
    BY <1>2, <1>3, <2>2
  <2>3. QED
    BY <2>1, <2>2
<1>5. PICK b : b = SubSeq(s, first, n)
  OBVIOUS
<1>6. b = Body(s)
  BY <1>1, <1>2, <1>5 DEF Body
<1>7. PICK k \in Nat : k = n + 1 - first
  BY <1>4
<1>8. /\ b \in Seq(STRING) /\ Len(b) = k
      /\ \A j \in 1 .. k : b[j] = s[first + j - 1]
  <2>1. \A j \in first .. n : s[j] \in STRING
    BY <1>1, <1>4
  <2>2. first \in Int /\ n \in Int
    BY <1>4
  <2>3. /\ b \in Seq(STRING)
        /\ Len(b) = IF first <= n THEN n - first + 1 ELSE 0
        /\ \A j \in 1 .. n - first + 1 : b[j] = s[first + j - 1]
    BY <1>5, <2>1, <2>2, SubSeqProperties
  <2>4. QED
    BY <1>4, <1>7, <2>3
<1>9. DOMAIN b = 1 .. k /\ (b = <<>> <=> k = 0)
  BY <1>8, LenProperties, EmptySeq
<1>10. \A j \in 1 .. k : At(s, first + j - 1) = b[j]
  <2>1. \A j \in 1 .. k : first + j - 1 \in DOMAIN s
    BY <1>1, <1>4, <1>7
  <2>2. QED
    BY <1>8, <2>1 DEF At
<1>11. At(s, first + k) \notin DOMAIN Digit
  <2>1. first + k \notin DOMAIN s
    BY <1>1, <1>4, <1>7
  <2>2. QED
    BY <2>1, DigitIs DEF At
<1> DEFINE Unfolds(f) == f = [at \in Nat \X Nat |-> LoopAt(f, s, first, sign, at[1], at[2])]
           g0 == CHOOSE f : Unfolds(f)
<1>12. \E g : Unfolds(g)
  <2>1. PICK g : LoopsFrom(g, s, first, sign, 0)
    BY <1>1, LoopExists
  <2>2. g = [at \in Nat \X Nat |-> g[at]]
    BY <2>1 DEF LoopsFrom
  <2>3. \A at \in Nat \X Nat : at[1] \in Nat /\ at[2] \in Nat /\ at = <<at[1], at[2]>>
    OBVIOUS
  <2>4. \A at \in Nat \X Nat : g[at] = LoopAt(g, s, first, sign, at[1], at[2])
    BY <2>1, <2>3 DEF LoopsFrom
  <2>5. QED
    BY <2>2, <2>4
<1>13. ft_atol(s) = g0[<<first, 0>>]
  <2>1. read_digits(s, first, sign) = g0[<<first, 0>>]
    BY DEF read_digits, LoopAt, AtEnd, TooBig
  <2>2. PICK start : start = Blanks(s) + 1 /\ start \in Int
    BY <1>3
  <2>3. c = At(s, start) /\ start = Min({p \in 1 .. Len(s) + 1 : At(s, p) # Space})
    BY <1>2, <1>3, <2>2 DEF Sign
  <2>4. first = IF c \in {"-", "+"} THEN start + 1 ELSE start
    BY <1>2, <1>3, <2>2
  <2>5. ft_atol(s) = read_digits(s, first, sign)
    BY <1>2, <2>3, <2>4 DEF ft_atol
  <2>6. QED
    BY <2>1, <2>5
<1>14. PICK g : g = g0
  OBVIOUS
<1>15. g = [at \in Nat \X Nat |-> LoopAt(g, s, first, sign, at[1], at[2])]
  BY <1>12, <1>14
<1> HIDE DEF g0, Unfolds
<1>16. LoopsFrom(g, s, first, sign, 0)
  <2>1. \A p \in Nat, x \in Nat : g[<<p, x>>] = LoopAt(g, s, first, sign, p, x)
    BY <1>15
  <2>2. g = [at \in Nat \X Nat |-> g[at]]
    BY <1>15
  <2>3. QED
    BY <2>1, <2>2 DEF LoopsFrom
<1>17. PICK r : r = g[<<first, 0>>]
  OBVIOUS
<1>18. /\ r.n \in Int
       /\ Fits(b) => r.ok /\ r.n = sign * Value(b)
       /\ ~ Fits(b) => ~ r.ok
  <2>1. sign \in {1, -1} /\ first \in Nat /\ n + 1 = first + k
    BY <1>2, <1>4, <1>7
  <2>2. QED
    BY <1>1, <1>8, <1>9, <1>10, <1>11, <1>16, <1>17, <2>1, LoopIs
<1>19. QED
  BY <1>2, <1>6, <1>8, <1>13, <1>14, <1>17, <1>18

(* A command that exit ends leaves the status its arguments say. *)
LEMMA ExitIs ==
  ASSUME NEW a \in ExitArgs, NEW args, args # <<>> => args[1] = a, Len(args) = 1 => args # <<>>,
         NEW lastStatus \in {0, 130},
         bi_exit(args, lastStatus), ended = Running
  PROVE  /\ ended' = ended \/ \E code \in 0 .. 255 : ended' = [args |-> args, last |-> lastStatus, code |-> code]
         /\ ExitStatus'
<1>1. a \in Seq(STRING)
  BY StdioAssumption
<1>2. PICK r : r = ft_atol(a)
  OBVIOUS
<1>3. PICK v, sign, fits :
        /\ v = Value(Body(a)) /\ sign = (IF Sign(a) = "-" THEN -1 ELSE 1) /\ fits = Fits(Body(a))
  OBVIOUS
<1>4. Body(a) \in Seq(STRING) /\ r.n \in Int /\ (r.ok <=> fits) /\ (fits => r.n = sign * v)
  BY <1>1, <1>2, <1>3, AtolIs
<1>5. args # <<>> => args[1] = a
  OBVIOUS
<1>6. ASSUME NEW code \in Int, Exits(args, lastStatus, code)
      PROVE  /\ code % 256 \in 0 .. 255
             /\ ended' = [args |-> args, last |-> lastStatus, code |-> code % 256]
             /\ ended' # Running
  <2>1. code % 256 \in 0 .. 255
    BY SMTT(30)
  <2>2. ended' = [args |-> args, last |-> lastStatus, code |-> code % 256]
    BY <1>6 DEF Exits
  <2>3. ended'.code # -1
    BY <2>1, <2>2
  <2>4. QED
    BY <2>1, <2>2, <2>3 DEF Running
<1>7. CASE args = <<>> /\ Exits(args, lastStatus, lastStatus)
  <2>1. lastStatus % 256 = lastStatus /\ lastStatus \in Int
    BY SMTT(30)
  <2>2. QED
    BY <1>6, <1>7, <2>1 DEF ExitStatus
<1>8. CASE args # <<>> /\ ~ ft_atol(args[1]).ok /\ Exits(args, lastStatus, 2)
  <2>1. 2 % 256 = 2
    BY SMTT(30)
  <2>2. ~ fits
    BY <1>2, <1>4, <1>5, <1>8
  <2>3. ended'.code = 2 /\ ended'.args = args
    BY <1>6, <1>8, <2>1
  <2>4. QED
    BY <1>3, <1>5, <1>6, <1>8, <2>2, <2>3 DEF ExitStatus
<1>9. CASE Len(args) = 1 /\ ft_atol(args[1]).ok /\ Exits(args, lastStatus, ft_atol(args[1]).n)
  <2>1. args # <<>>
    BY <1>9
  <2>2. PICK x : x = r.n
    OBVIOUS
  <2>3. fits /\ x = sign * v /\ x \in Int /\ Exits(args, lastStatus, x)
    BY <1>2, <1>4, <1>5, <1>9, <2>1, <2>2
  <2>4. /\ x % 256 \in 0 .. 255
        /\ ended' = [args |-> args, last |-> lastStatus, code |-> x % 256]
        /\ ended' # Running
    BY <1>6, <2>3
  <2>5. ended'.code = x % 256 /\ ended'.args = args
    BY <2>4
  <2>6. x = IF Sign(a) = "-" THEN - v ELSE v
    <3>1. v \in Nat
      BY <1>3, <1>4, <2>3, BodyValue DEF Fits
    <3>2. QED
      BY <1>3, <2>3, <3>1
  <2>7. ((x % 256) - x) % 256 = 0
    BY <2>3, SMTT(30)
  <2>8. ExitStatus'
    <3>1. (ended'.code - IF Sign(a) = "-" THEN - Value(Body(a)) ELSE Value(Body(a))) % 256 = 0
      BY <1>3, <2>5, <2>6, <2>7
    <3>2. ended'.args # <<>> /\ ended'.args[1] = a /\ Len(ended'.args) = 1 /\ Fits(Body(a))
      BY <1>3, <1>5, <1>9, <2>1, <2>3, <2>5
    <3>3. QED
      BY <3>1, <3>2 DEF ExitStatus
  <2>9. QED
    BY <2>4, <2>8
<1>10. CASE UNCHANGED ended
  BY <1>10 DEF ExitStatus
<1>11. QED
  BY <1>4, <1>6, <1>7, <1>8, <1>9, <1>10 DEF bi_exit

(* The arguments of exit that are tried. *)
LEMMA ArgsAre ==
  ASSUME NEW a \in ExitArgs, NEW args, args \in {<<>>, <<a>>, <<a, a>>}
  PROVE  /\ args \in Seq(ExitArgs)
         /\ args # <<>> => args[1] = a
         /\ Len(args) = 1 => args # <<>>
<1>1. CASE args = <<>>
  <2>1. Len(args) = 0 /\ args \in Seq(ExitArgs)
    BY <1>1, EmptySeq
  <2>2. QED
    BY <1>1, <2>1
<1>2. CASE args = <<a>>
  <2>1. args \in Seq(ExitArgs) /\ args[1] = a /\ Len(args) = 1
    BY <1>2
  <2>2. args # <<>>
    BY <2>1, EmptySeq
  <2>3. QED
    BY <2>1, <2>2
<1>3. CASE args = <<a, a>>
  <2>1. args \in Seq(ExitArgs) /\ args[1] = a /\ Len(args) = 2
    BY <1>3
  <2>2. QED
    BY <2>1
<1>4. QED
  BY <1>1, <1>2, <1>3

-----------------------------------------------------------------------------
(* What is in the buffer, what was written last, and how the shell ended. *)
Typed ==
    /\ terminal \in BOOLEAN /\ meant \in Texts
    /\ buffer \in Seq(Texts) /\ landed \in Seq(Texts \X Objects)
    /\ ended = Running \/ (ended.args \in Seq(ExitArgs) /\ {ended.last, ended.code} \subseteq 0 .. 255)

(* What is written lands somewhere. *)
LEMMA WrittenIs ==
  ASSUME NEW texts \in Seq(Texts), table[1] \in Objects
  PROVE  Written(texts) \in Seq(Texts \X Objects)
<1>1. PICK n \in Nat : DOMAIN texts = 1 .. n /\ \A k \in 1 .. n : texts[k] \in Texts
  BY LenProperties, ElementOfSeq
<1>2. Written(texts) = [k \in 1 .. n |-> <<texts[k], table[1]>>]
  BY <1>1 DEF Written
<1>3. PICK T : T = Texts \X Objects
  OBVIOUS
<1>4. \A k \in 1 .. n : <<texts[k], table[1]>> \in T
  BY <1>1, <1>3
<1>5. Written(texts) \in [1 .. n -> T]
  BY <1>2, <1>4
<1>6. QED
  BY <1>3, <1>5, SeqDef

(* Every step keeps the types of what is printed and of the status. *)
LEMMA TypedNext ==
  ASSUME TypeOK, Typed, [StdioNext]_<<vars, io>>
  PROVE  Typed'
<1>1. table[1] \in Objects /\ "file" \in Objects
  BY DescriptorsAssumption DEF TypeOK, Fds, Objects
<1>2. CASE UNCHANGED io
  BY <1>2 DEF io, Typed
<1>3. ASSUME NEW p \in Paths, NEW rs, Prompt(p, rs) PROVE Typed'
  <2>1. meant' \in Texts
    BY <1>1, <1>3 DEF Prompt, Texts
  <2>2. landed' \in Seq(Texts \X Objects)
    BY <1>1, <1>3, WrittenIs DEF Prompt, Typed
  <2>3. buffer' \in Seq(Texts)
    BY <1>3, EmptySeq DEF Prompt
  <2>4. QED
    BY <1>3, <2>1, <2>2, <2>3 DEF Prompt, Typed
<1>4. ASSUME Printed(meant), UNCHANGED <<terminal, meant>>
      PROVE  buffer' \in Seq(Texts) /\ landed' \in Seq(Texts \X Objects)
  <2>1. Append(buffer, meant) \in Seq(Texts) /\ <<meant>> \in Seq(Texts)
    BY DEF Typed
  <2>2. Written(<<meant>>) \in Seq(Texts \X Objects)
    BY <1>1, <2>1, WrittenIs
  <2>3. QED
    BY <1>4, <2>1, <2>2 DEF Printed, Typed
<1>5. CASE print_export
  BY <1>4, <1>5 DEF print_export, Typed
<1>6. ASSUME NEW a \in ExitArgs, NEW lastStatus \in {0, 130}, NEW args \in Seq(ExitArgs),
             args # <<>> => args[1] = a, Len(args) = 1 => args # <<>>,
             bi_exit(args, lastStatus), ended = Running
      PROVE  Typed'
  <2>1. ended' = ended \/ \E code \in 0 .. 255 : ended' = [args |-> args, last |-> lastStatus, code |-> code]
    BY <1>6, ExitIs
  <2>2. CASE Printed(meant) /\ UNCHANGED <<terminal, meant, ended>>
    BY <1>4, <2>2 DEF Typed
  <2>3. ASSUME NEW code, Exits(args, lastStatus, code), UNCHANGED <<terminal, meant>> PROVE Typed'
    <3>1. Append(buffer, meant) \in Seq(Texts)
      BY DEF Typed
    <3>2. landed' \in Seq(Texts \X Objects)
      BY <1>1, <2>3, <3>1, WrittenIs DEF Exits
    <3>3. buffer' \in Seq(Texts)
      BY <2>3, EmptySeq DEF Exits
    <3>4. ended' = Running \/ (ended'.args \in Seq(ExitArgs) /\ {ended'.last, ended'.code} \subseteq 0 .. 255)
      <4>1. CASE ended' = ended
        BY <1>6, <4>1
      <4>2. ASSUME NEW x \in 0 .. 255, ended' = [args |-> args, last |-> lastStatus, code |-> x]
            PROVE  ended'.args \in Seq(ExitArgs) /\ {ended'.last, ended'.code} \subseteq 0 .. 255
        <5>1. ended'.args = args /\ ended'.last = lastStatus /\ ended'.code = x
          BY <4>2
        <5>2. QED
          BY <1>6, <5>1
      <4>3. QED
        BY <2>1, <4>1, <4>2
    <3>5. QED
      BY <2>3, <3>2, <3>3, <3>4 DEF Typed
  <2>4. QED
    BY <1>6, <2>2, <2>3 DEF bi_exit
<1>7. QED
  <2>1. CASE RunBuiltin /\ ended = Running
    <3>1. ASSUME NEW a \in ExitArgs, NEW lastStatus \in {0, 130}, NEW args \in {<<>>, <<a>>, <<a, a>>}
          PROVE  args \in Seq(ExitArgs) /\ (args # <<>> => args[1] = a) /\ (Len(args) = 1 => args # <<>>)
      BY ArgsAre
    <3>2. ASSUME NEW a \in ExitArgs, NEW lastStatus \in {0, 130}, NEW args \in {<<>>, <<a>>, <<a, a>>},
                 bi_exit(args, lastStatus)
          PROVE  Typed'
      <4>1. args \in Seq(ExitArgs) /\ (args # <<>> => args[1] = a) /\ (Len(args) = 1 => args # <<>>)
        BY <3>1
      <4>2. QED
        BY <1>6, <2>1, <3>2, <4>1
    <3>3. QED
      BY <1>2, <1>5, <2>1, <3>2 DEF RunBuiltin, Quiet
  <2>2. QED
    BY <1>2, <1>3, <2>1 DEF StdioNext, Ended, io

(* exit alone sets the status, and sets it to what its argument says. *)
LEMMA StatusNext ==
  ASSUME ExitStatus, [StdioNext]_<<vars, io>>
  PROVE  ExitStatus'
<1>1. CASE UNCHANGED ended
  BY <1>1 DEF ExitStatus
<1>2. ASSUME NEW a \in ExitArgs, NEW lastStatus \in {0, 130}, NEW args \in {<<>>, <<a>>, <<a, a>>},
             bi_exit(args, lastStatus), ended = Running
      PROVE  ExitStatus'
  <2>1. (args # <<>> => args[1] = a) /\ (Len(args) = 1 => args # <<>>)
    BY ArgsAre
  <2>2. QED
    BY <1>2, <2>1, ExitIs
<1>3. QED
  BY <1>1, <1>2 DEF StdioNext, Prompt, RunBuiltin, Quiet, print_export, Ended, io

(* Stdio's variables keep their types: what is printed, what has landed, and
   the status that exit leaves. *)
THEOREM StdioKeepsTypes == StdioSpec => []StdioTypeOK
<1>1. StdioInit => Typed
  <2> SUFFICES ASSUME StdioInit PROVE Typed
    OBVIOUS
  <2>1. meant \in Texts
    BY DEF StdioInit, Texts, Objects
  <2>2. buffer \in Seq(Texts) /\ landed \in Seq(Texts \X Objects)
    BY EmptySeq DEF StdioInit
  <2>3. QED
    BY <2>1, <2>2 DEF StdioInit, Typed
<1>2. TypeOK /\ Typed /\ [StdioNext]_<<vars, io>> => Typed'
  BY TypedNext
<1>3. TypeOK /\ Typed => StdioTypeOK
  BY DEF Typed, StdioTypeOK
<1>4. QED
  BY <1>1, <1>2, <1>3, DescriptorsTypeOK, PTL DEF StdioSpec

(* exit ends the shell with the status that its argument says, whatever the
   argument and however large LONG_MAX: ft_atol takes every number up to it,
   and none beyond. *)
THEOREM ExitStatusIsItsArgument == StdioSpec => []ExitStatus
<1>1. StdioInit => ExitStatus
  BY DEF StdioInit, ExitStatus
<1>2. ExitStatus /\ [StdioNext]_<<vars, io>> => ExitStatus'
  BY StatusNext
<1>3. QED
  BY <1>1, <1>2, PTL DEF StdioSpec

(* Printing changes nothing about the descriptors: with what is printed left
   out, the shell does what Descriptors says, so that all that holds of its
   lines there holds here. *)
THEOREM StdioImplementsDescriptors == StdioSpec => Spec
<1>1. StdioInit => Init
  BY DEF StdioInit
<1>2. [StdioNext]_<<vars, io>> => [Next]_vars
  BY StdioStep
<1>3. QED
  BY <1>1, <1>2, PTL DEF StdioSpec, Spec
=============================================================================
