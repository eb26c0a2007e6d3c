---------------------------- MODULE HeredocProofs ----------------------------
(***************************************************************************)
(* For any number of here-documents and lines, pipes of any size, any      *)
(* number of Ctrl-C and any failing malloc: each document is what its      *)
(* input has before the delimiter, and a command is cancelled exactly by   *)
(* an interrupt that its last test can see.                                *)
(***************************************************************************)
EXTENDS Heredoc, NatLemmas, SequenceTheorems

(* The lines that have been taken from the input of the document being read. *)
Taken == IF d = 1 THEN Len(typed) ELSE Len(docs[d - 1]) - Len(pipe[d - 1])

(* Document j is the first n lines of its input. *)
Copied(j, n) ==
    /\ Len(docs[j]) = n /\ n <= Len(Source(j))
    /\ \A m \in 1 .. n :
          /\ Source(j)[m] # Delims[j]
          /\ \/ docs[j][m] = IF quoted[j] THEN Source(j)[m] ELSE Expand[Source(j)[m]]
             \/ failed /\ docs[j][m] = Source(j)[m]

(* ... and the next one ends it. *)
Finished(j) ==
    /\ Copied(j, Len(docs[j]))
    /\ \/ failed
       \/ Len(docs[j]) = Len(Source(j))
       \/ Source(j)[Len(docs[j]) + 1] = Delims[j]

(* The last line taken is in hand and has not been written. *)
InHand == Taken >= 1 /\ Source(d)[Taken] = text /\ Copied(d, Taken - 1)

(* The document is read from the pipe of the one before; what is about to be
   written is a line and not the delimiter. *)
Places ==
    /\ pc \in Working => stdin = d - 1
    /\ pc = "write" => text # NoText /\ text # Delims[d]

(* That pipe holds what the one before has and has not been taken; nobody has
   read from a later one. *)
Pipes ==
    /\ \A j \in Docs : j > d => docs[j] = <<>>
    /\ \A j \in Docs : j >= d => pipe[j] = docs[j]
    /\ d > 1 => /\ Len(pipe[d - 1]) <= Len(docs[d - 1])
                /\ \A m \in 1 .. Len(pipe[d - 1]) : pipe[d - 1][m] = docs[d - 1][Taken + m]
    /\ pc \in {"pipe", "reset", "install"} => docs[d] = <<>> /\ Taken = 0

(* An interrupt that is pending came after the last g_sig = 0. *)
Signals ==
    /\ hit = {} => g_sig = 0
    /\ pc \in {"reinstall", "test"} /\ g_sig = SIGINT => hit \cap {"reinstall", "test"} # {}
    /\ pc = "dup" /\ g_sig = SIGINT => "dup" \in hit
    /\ InterruptsAccountedFor

(* Without an interrupt, every document is what has been read for it so far. *)
Faithful ==
    hit = {} =>
        /\ \A j \in Docs : j < d => Finished(j)
        /\ pc = "read" => Copied(d, Taken)
        /\ pc = "look" /\ text = NoText => Copied(d, Taken) /\ (failed \/ Taken = Len(Source(d)))
        /\ pc = "look" /\ text # NoText => InHand
        /\ pc = "write" => InHand
        /\ pc \in {"restore", "reinstall", "test", "dup"} => Finished(d)
        /\ pc = "done" /\ ret = 0 => \A j \in Docs : Finished(j)

IInv == TypeOK /\ Places /\ Pipes /\ Signals /\ Faithful

-----------------------------------------------------------------------------
(* The documents are numbered from 1. *)
LEMMA Numbers ==
  /\ Docs = 1 .. Len(Delims) /\ Len(Delims) \in Nat \ {0} /\ 1 \in Docs /\ Docs \subseteq Nat
  /\ \A j \in Docs : Delims[j] \in Lines /\ Delims[j] # NoText
  /\ \A j \in Docs : j > 1 => j - 1 \in Docs
  /\ \A j \in Docs : j + 1 \notin Docs => \A k \in Docs : k <= j
<1>1. Delims \in Seq(Lines) /\ Delims # <<>> /\ NoText \notin Lines
  BY HeredocAssumption DEF NoText
<1>2. Docs = 1 .. Len(Delims) /\ Len(Delims) \in Nat \ {0}
  BY <1>1, EmptySeq DEF Docs
<1>3. \A j \in Docs : Delims[j] \in Lines
  BY <1>1, <1>2
<1> HIDE DEF Docs
<1>4. QED
  BY <1>1, <1>2, <1>3

LEMMA Bounds ==
  /\ Cap \in Nat /\ MaxLines \in Nat /\ MaxInts \in Nat
  /\ Expand \in [Lines -> Lines] /\ NoText \notin Lines
BY HeredocAssumption DEF NoText

LEMMA Texts ==
  ASSUME TypeOK
  PROVE  /\ d \in Docs /\ d \in Nat /\ d > 0
         /\ \A j \in Docs : docs[j] \in Seq(Lines) /\ Len(docs[j]) \in Nat /\ pipe[j] \in Seq(Lines) /\ Len(pipe[j]) \in Nat
         /\ typed \in Seq(Lines) /\ Len(typed) \in Nat
         /\ \A j \in Docs : Source(j) \in Seq(Lines) /\ Len(Source(j)) \in Nat
         /\ \A l \in Lines : Expand[l] \in Lines
<1>1. /\ d \in Docs /\ typed \in Seq(Lines)
      /\ docs \in [Docs -> Seq(Lines)] /\ pipe \in [Docs -> Seq(Lines)]
  BY DEF TypeOK
<1>2. d \in Nat /\ d > 0
  BY <1>1, Numbers
<1> HIDE DEF Docs
<1>3. \A j \in Docs : docs[j] \in Seq(Lines) /\ Len(docs[j]) \in Nat /\ pipe[j] \in Seq(Lines) /\ Len(pipe[j]) \in Nat
  BY <1>1, LenProperties
<1>4. \A j \in Docs : Source(j) \in Seq(Lines)
  BY <1>1, <1>3, Numbers DEF Source
<1>5. QED
  BY <1>1, <1>2, <1>3, <1>4, LenProperties, HeredocAssumption

-----------------------------------------------------------------------------
LEMMA InitIInv ==
  ASSUME Init
  PROVE  IInv
<1>1. TypeOK
  <2>1. /\ pc = "pipe" /\ d = 1 /\ stdin = 0 /\ g_sig = 0 /\ ret = 0 /\ ints = 0
        /\ pipe = [j \in Docs |-> <<>>] /\ docs = [j \in Docs |-> <<>>]
        /\ text = NoText /\ typed = <<>> /\ hit = {} /\ failed = FALSE
    BY DEF Init
  <2>2. PICK none : none = <<>> /\ none \in Seq(Lines) /\ Len(none) = 0
    BY EmptySeq
  <2> HIDE DEF Docs
  <2>3. pipe = [j \in Docs |-> none] /\ docs = [j \in Docs |-> none] /\ typed = none
    BY <2>1, <2>2
  <2>7. none \in Seq(Lines) /\ Len(none) = 0
    BY <2>2
  <2>8. /\ pipe \in [Docs -> Seq(Lines)] /\ docs \in [Docs -> Seq(Lines)] /\ typed \in Seq(Lines)
    BY <2>3, <2>7
  <2>9. (\A j \in Docs : Len(pipe[j]) <= Cap) /\ Len(typed) <= MaxLines /\ ints \in 0 .. MaxInts
    BY <2>3, <2>7, <2>1, Bounds
  <2>4. /\ int \in {"exec", "default"} /\ quit \in {"ignore", "default"}
        /\ role \in Roles /\ before \in {0, 130} /\ quoted \in [Docs -> BOOLEAN]
    BY DEF Init
  <2>5. d \in Docs /\ stdin \in {0} \cup Docs /\ pc \in Pcs
    BY <2>1, Numbers DEF Pcs
  <2>6. QED
    BY <2>1, <2>8, <2>9, <2>4, <2>5 DEF TypeOK
<1> USE DEF Init
<1>2. Places
  BY DEF Places
<1>3. Pipes
  <2>1. Len(<<>>) = 0 /\ Taken = 0
    BY DEF Taken
  <2>2. \A j \in Docs : docs[j] = <<>> /\ pipe[j] = <<>>
    OBVIOUS
  <2>3. QED
    BY <2>1, <2>2, Numbers DEF Pipes
<1>4. Signals
  BY DEF Signals, InterruptsAccountedFor
<1>5. Faithful
  BY Numbers DEF Faithful
<1>6. QED
  BY <1>1, <1>2, <1>3, <1>4, <1>5 DEF IInv

(* What heredoc_write appends to the document being read, and to its pipe. *)
Puts(line) ==
    /\ docs' = [docs EXCEPT ![d] = Append(docs[d], line)]
    /\ pipe' = [pipe EXCEPT ![d] = Append(pipe[d], line)]

LEMMA WriteLine ==
  ASSUME TypeOK, Places, Write
  PROVE  \E line \in Lines :
            /\ Puts(line)
            /\ \/ line = IF quoted[d] THEN text ELSE Expand[text]
               \/ failed' /\ line = text
            /\ failed => failed'
<1>1. text \in Lines /\ Expand[text] \in Lines
  BY Bounds DEF TypeOK, Places, Write
<1> HIDE DEF Docs
<1>2. CASE Put(IF quoted[d] THEN text ELSE Expand[text]) /\ UNCHANGED failed
  BY <1>1, <1>2 DEF Put, Puts
<1>3. CASE Put(text) /\ failed' = TRUE
  BY <1>1, <1>3 DEF Put, Puts
<1>4. QED
  BY <1>2, <1>3 DEF Write

LEMMA PutsEffect ==
  ASSUME TypeOK, NEW line \in Lines, Puts(line)
  PROVE  /\ docs' \in [Docs -> Seq(Lines)] /\ pipe' \in [Docs -> Seq(Lines)]
         /\ \A j \in Docs : j # d => docs'[j] = docs[j] /\ pipe'[j] = pipe[j]
         /\ Len(docs'[d]) = Len(docs[d]) + 1 /\ Len(pipe'[d]) = Len(pipe[d]) + 1
         /\ \A m \in 1 .. Len(docs[d]) : docs'[d][m] = docs[d][m]
         /\ docs'[d][Len(docs[d]) + 1] = line
         /\ pipe[d] = docs[d] => pipe'[d] = docs'[d]
<1>1. d \in Docs /\ docs \in [Docs -> Seq(Lines)] /\ pipe \in [Docs -> Seq(Lines)]
  BY DEF TypeOK
<1> HIDE DEF Docs
<1>2. docs[d] \in Seq(Lines) /\ pipe[d] \in Seq(Lines)
  BY <1>1
<1>3. PICK new : new = Append(docs[d], line)
  OBVIOUS
<1>4. /\ new \in Seq(Lines) /\ Len(new) = Len(docs[d]) + 1
      /\ \A m \in 1 .. Len(docs[d]) : new[m] = docs[d][m]
      /\ new[Len(docs[d]) + 1] = line
  BY <1>2, <1>3, AppendProperties
<1>5. PICK full : full = Append(pipe[d], line)
  OBVIOUS
<1>6. full \in Seq(Lines) /\ Len(full) = Len(pipe[d]) + 1
  BY <1>2, <1>5, AppendProperties
<1>7. pipe[d] = docs[d] => full = new
  BY <1>3, <1>5
<1>8. docs' = [docs EXCEPT ![d] = new] /\ pipe' = [pipe EXCEPT ![d] = full]
  BY <1>3, <1>5 DEF Puts
<1>9. QED
  BY <1>1, <1>4, <1>6, <1>7, <1>8

-----------------------------------------------------------------------------
LEMMA TypeStep ==
  ASSUME TypeOK, Places, Next \/ UNCHANGED vars
  PROVE  TypeOK'
<1>1. /\ d \in Docs /\ pipe \in [Docs -> Seq(Lines)] /\ docs \in [Docs -> Seq(Lines)]
      /\ typed \in Seq(Lines) /\ text \in Lines \cup {NoText} /\ Len(typed) <= MaxLines
      /\ (\A j \in Docs : Len(pipe[j]) <= Cap) /\ stdin \in {0} \cup Docs
      /\ ints \in 0 .. MaxInts /\ hit \subseteq Pcs
  BY DEF TypeOK
<1> HIDE DEF Docs
<1> USE DEF given, sigs, keys, Goto, Return
<1>2. CASE Pipe
  BY <1>2 DEF Pipe, TypeOK, Pcs
<1>3. CASE Reset
  BY <1>3 DEF Reset, TypeOK, Pcs
<1>4. CASE Install
  BY <1>4 DEF Install, TypeOK, Pcs
<1>5. CASE EndOfFile
  BY <1>5 DEF EndOfFile, TypeOK, Pcs
<1>6. ASSUME NEW l \in Lines, TypeLine(l) PROVE TypeOK'
  <2>1. typed' \in Seq(Lines) /\ Len(typed') <= MaxLines
    <3>1. typed' = Append(typed, l) /\ Len(typed) < MaxLines
      BY <1>6 DEF TypeLine
    <3>2. QED
      BY <1>1, <3>1, Bounds, LenProperties, AppendProperties
  <2>2. text' = l /\ pc' = "look"
    BY <1>6 DEF TypeLine
  <2>3. QED
    BY <1>6, <2>1, <2>2 DEF TypeLine, TypeOK, Pcs
<1>7. CASE PipedLine
  <2>1. stdin \in Docs /\ pipe[stdin] \in Seq(Lines) /\ pipe[stdin] # <<>>
    BY <1>1, <1>7 DEF PipedLine
  <2>2. Head(pipe[stdin]) \in Lines /\ Tail(pipe[stdin]) \in Seq(Lines) /\ Len(Tail(pipe[stdin])) = Len(pipe[stdin]) - 1
    BY <2>1, HeadTailProperties
  <2>3. pipe' = [pipe EXCEPT ![stdin] = Tail(pipe[stdin])] /\ text' = Head(pipe[stdin])
    BY <1>7 DEF PipedLine
  <2>4. pipe' \in [Docs -> Seq(Lines)] /\ \A j \in Docs : Len(pipe'[j]) <= Cap
    <3>1. pipe' \in [Docs -> Seq(Lines)]
      BY <1>1, <2>1, <2>2, <2>3
    <3>2. Len(pipe[stdin]) \in Nat
      BY <2>1, LenProperties
    <3>3. QED
      BY <1>1, <2>1, <2>2, <2>3, <3>1, <3>2, Bounds
  <2>5. text' \in Lines
    BY <2>2, <2>3
  <2>6. QED
    BY <1>7, <2>4, <2>5 DEF PipedLine, TypeOK, Pcs
<1>8. CASE LoseLine
  BY <1>8 DEF LoseLine, TypeOK, Pcs
<1>9. CASE Look
  BY <1>9 DEF Look, TypeOK, Pcs
<1>10. CASE Write
  <2>1. PICK line \in Lines : Puts(line)
    BY <1>10, WriteLine
  <2>2. Len(pipe[d]) < Cap /\ Len(pipe[d]) \in Nat
    BY <1>10, Texts DEF Write
  <2>3. /\ docs' \in [Docs -> Seq(Lines)] /\ pipe' \in [Docs -> Seq(Lines)]
        /\ \A j \in Docs : j # d => pipe'[j] = pipe[j]
        /\ Len(pipe'[d]) = Len(pipe[d]) + 1
    BY <2>1, PutsEffect
  <2>6. \A j \in Docs : Len(pipe'[j]) <= Cap
    <3>1. \A j \in Docs : Len(pipe[j]) <= Cap
      BY <1>1
    <3>2. Len(pipe'[d]) <= Cap
      BY <2>2, <2>3, Bounds
    <3>3. QED
      BY <3>1, <3>2, <2>3
  <2>4. failed' \in BOOLEAN
    BY <1>10 DEF Write, TypeOK
  <2>5. QED
    BY <1>10, <2>3, <2>4, <2>6 DEF Write, TypeOK, Pcs
<1>11. CASE Restore
  BY <1>11 DEF Restore, TypeOK, Pcs
<1>12. CASE Reinstall
  BY <1>12 DEF Reinstall, TypeOK, Pcs
<1>13. CASE Test
  BY <1>1, <1>13 DEF Test, TypeOK, Pcs
<1>17. CASE NextRedirect
  BY <1>1, <1>17 DEF NextRedirect, TypeOK, Pcs
<1>14. CASE CtrlC
  BY <1>1, <1>14, Bounds DEF CtrlC, TypeOK, Pcs, Working
<1>15. CASE UNCHANGED vars
  BY <1>15 DEF vars, TypeOK
<1>16. QED
  BY <1>2, <1>3, <1>4, <1>5, <1>6, <1>7, <1>8, <1>9, <1>10, <1>11, <1>12, <1>13, <1>14, <1>15, <1>17 DEF Next, Step, Over

LEMMA PlacesStep ==
  ASSUME TypeOK, Places, Next \/ UNCHANGED vars
  PROVE  Places'
<1>1. d \in Nat /\ text \in Lines \cup {NoText} /\ NoText \notin Lines
  BY Texts, Bounds DEF TypeOK
<1> HIDE DEF Docs, NoText
<1> USE DEF given, sigs, keys, Goto, Return, Places, Working, Pcs
<1>2. CASE Look
  BY <1>2 DEF Look
<1>3. CASE Test \/ NextRedirect
  BY <1>1, <1>3 DEF Test, NextRedirect
<1>4. CASE CtrlC
  BY <1>4 DEF CtrlC
<1>5. CASE Pipe \/ Reset \/ Install
  BY <1>5 DEF Pipe, Reset, Install
<1>6. CASE EndOfFile \/ PipedLine \/ LoseLine \/ \E l \in Lines : TypeLine(l)
  BY <1>6 DEF EndOfFile, PipedLine, LoseLine, TypeLine
<1>7. CASE Write \/ Restore \/ Reinstall
  BY <1>7 DEF Write, Restore, Reinstall
<1>8. CASE UNCHANGED vars
  BY <1>8 DEF vars
<1>9. QED
  BY <1>2, <1>3, <1>4, <1>5, <1>6, <1>7, <1>8 DEF Next, Step, Over

LEMMA SignalsStep ==
  ASSUME TypeOK, Signals, Next \/ UNCHANGED vars
  PROVE  Signals'
<1>1. g_sig \in {0, SIGINT} /\ SIGINT # 0 /\ ret \in {0, 1, 130} /\ hit \subseteq Pcs
  BY DEF TypeOK, SIGINT
<1> HIDE DEF Docs, SIGINT
<1> USE DEF given, sigs, keys, Goto, Return, Signals, InterruptsAccountedFor
<1>2. CASE Pipe
  BY <1>2 DEF Pipe
<1>3. CASE Test \/ NextRedirect
  BY <1>1, <1>3 DEF Test, NextRedirect
<1>4. CASE CtrlC
  BY <1>1, <1>4 DEF CtrlC, Working
<1>5. CASE Reset \/ Install \/ Restore \/ Reinstall
  BY <1>1, <1>5 DEF Reset, Install, Restore, Reinstall
<1>6. CASE EndOfFile \/ PipedLine \/ LoseLine \/ \E l \in Lines : TypeLine(l)
  BY <1>6 DEF EndOfFile, PipedLine, LoseLine, TypeLine
<1>7. CASE Look \/ Write
  BY <1>7 DEF Look, Write
<1>8. CASE UNCHANGED vars
  BY <1>8 DEF vars
<1>9. QED
  BY <1>2, <1>3, <1>4, <1>5, <1>6, <1>7, <1>8 DEF Next, Step, Over

LEMMA PipesStep ==
  ASSUME TypeOK, Places, Pipes, Next \/ UNCHANGED vars
  PROVE  Pipes'
<1>1. /\ d \in Docs /\ d \in Nat /\ d > 0 /\ Docs \subseteq Nat
      /\ \A j \in Docs : Len(docs[j]) \in Nat /\ Len(pipe[j]) \in Nat /\ pipe[j] \in Seq(Lines)
      /\ \A j \in Docs : j > 1 => j - 1 \in Docs
  BY Texts, Numbers
<1> HIDE DEF Docs
<1> USE DEF given, sigs, keys, Goto, Return
<1>2. ASSUME UNCHANGED <<d, docs, pipe, typed>>,
             pc' \in {"pipe", "reset", "install"} => pc \in {"pipe", "reset", "install"}
      PROVE  Pipes'
  BY <1>2 DEF Pipes, Taken
<1>3. ASSUME NEW l \in Lines, TypeLine(l) PROVE Pipes'
  <2>1. d = 1 /\ d' = 1 /\ docs' = docs /\ pipe' = pipe /\ pc' = "look"
    BY <1>1, <1>3 DEF TypeLine, Places, Working, Pcs
  <2>2. QED
    BY <2>1 DEF Pipes
<1>4. CASE PipedLine
  <2>1. /\ stdin = d - 1 /\ d > 1 /\ d - 1 \in Docs /\ d' = d /\ docs' = docs /\ pc' = "look"
        /\ pipe' = [pipe EXCEPT ![d - 1] = Tail(pipe[d - 1])] /\ pipe[d - 1] # <<>>
    BY <1>1, <1>4 DEF PipedLine, Places, Working, Pcs
  <2>2. PICK rest : rest = Tail(pipe[d - 1])
    OBVIOUS
  <2>3. /\ Len(rest) = Len(pipe[d - 1]) - 1 /\ Len(rest) \in Nat
        /\ \A m \in 1 .. Len(rest) : rest[m] = pipe[d - 1][m + 1]
    <3>1. PICK full : full = pipe[d - 1]
      OBVIOUS
    <3>2. full \in Seq(Lines) /\ full # <<>> /\ rest = Tail(full)
      BY <1>1, <2>1, <2>2, <3>1
    <3>3. Len(rest) = Len(full) - 1 /\ Len(full) \in Nat /\ Len(full) > 0
      BY <3>2, HeadTailProperties, LenProperties, EmptySeq
    <3>4. \A m \in 1 .. Len(rest) : rest[m] = full[m + 1]
      BY <3>2, <3>3
    <3>5. QED
      BY <3>1, <3>3, <3>4
  <2>4. pipe' = [pipe EXCEPT ![d - 1] = rest] /\ DOMAIN pipe = Docs
    BY <2>1, <2>2 DEF TypeOK
  <2>5. pipe'[d - 1] = rest /\ \A j \in Docs : j # d - 1 => pipe'[j] = pipe[j]
    BY <2>1, <2>4
  <2>6. Taken = Len(docs[d - 1]) - Len(pipe[d - 1]) /\ Taken' = Taken + 1 /\ Taken \in Int
    <3>1. Len(docs[d - 1]) \in Nat /\ Len(pipe[d - 1]) \in Nat
      BY <1>1, <2>1
    <3>2. d # 1 /\ d' = d /\ docs' = docs
      BY <1>1, <2>1
    <3>5. Taken = Len(docs[d - 1]) - Len(pipe[d - 1])
      BY <3>2 DEF Taken
    <3>3. Taken' = Len(docs[d - 1]) - Len(rest)
      BY <2>5, <3>2 DEF Taken
    <3>4. QED
      BY <2>3, <3>1, <3>5, <3>3
  <2>7. \A m \in 1 .. Len(rest) : rest[m] = docs[d - 1][Taken' + m]
    <3>1. TAKE m \in 1 .. Len(rest)
    <3>2. rest[m] = pipe[d - 1][m + 1] /\ m + 1 \in 1 .. Len(pipe[d - 1])
      BY <1>1, <2>1, <2>3
    <3>3. pipe[d - 1][m + 1] = docs[d - 1][Taken + (m + 1)]
      BY <3>2, <2>1 DEF Pipes
    <3>6. m \in Int
      BY <2>3
    <3>7. Taken \in Int /\ Taken' = Taken + 1
      BY <2>6
    <3>4. Taken + (m + 1) = Taken' + m
      <4>1. \A a, b, c \in Int : b = a + 1 => a + (c + 1) = b + c
        OBVIOUS
      <4>2. Taken' \in Int
        BY <3>7
      <4>3. QED
        BY <3>6, <3>7, <4>1, <4>2
    <3>5. QED
      BY <3>2, <3>3, <3>4
  <2>8. Len(rest) <= Len(docs[d - 1])
    BY <1>1, <2>1, <2>3 DEF Pipes
  <2>9. \A j \in Docs : j >= d => pipe'[j] = docs[j]
    <3>1. \A j \in Docs : j >= d => pipe[j] = docs[j] /\ j # d - 1
      BY <1>1 DEF Pipes
    <3>2. QED
      BY <2>5, <3>1
  <2>10. QED
    BY <2>1, <2>5, <2>7, <2>8, <2>9 DEF Pipes
<1>5. CASE Write
  <2>1. PICK line \in Lines : Puts(line)
    BY <1>5, WriteLine
  <2>2. d' = d /\ pc' = "read" /\ typed' = typed
    BY <1>5 DEF Write
  <2>3. /\ \A j \in Docs : j # d => docs'[j] = docs[j] /\ pipe'[j] = pipe[j]
        /\ pipe[d] = docs[d] => pipe'[d] = docs'[d]
    BY <2>1, PutsEffect
  <2>4. /\ \A j \in Docs : j > d => docs'[j] = <<>>
        /\ \A j \in Docs : j >= d => pipe'[j] = docs'[j]
    BY <1>1, <2>3 DEF Pipes
  <2>5. d > 1 => d - 1 \in Docs /\ docs'[d - 1] = docs[d - 1] /\ pipe'[d - 1] = pipe[d - 1] /\ Taken' = Taken
    <3>1. SUFFICES ASSUME d > 1
                   PROVE  d - 1 \in Docs /\ docs'[d - 1] = docs[d - 1] /\ pipe'[d - 1] = pipe[d - 1] /\ Taken' = Taken
      OBVIOUS
    <3>2. d - 1 \in Docs /\ d - 1 # d /\ d # 1
      BY <1>1, <3>1
    <3>3. docs'[d - 1] = docs[d - 1] /\ pipe'[d - 1] = pipe[d - 1]
      BY <2>3, <3>2
    <3>4. QED
      BY <2>2, <3>2, <3>3 DEF Taken
  <2>6. QED
    BY <2>2, <2>4, <2>5 DEF Pipes
<1>6. CASE NextRedirect /\ d' = d + 1
  <2>1. d + 1 \in Docs /\ docs' = docs /\ pipe' = pipe
    BY <1>1, <1>6 DEF NextRedirect
  <2>2. pipe[d] = docs[d] /\ docs[d + 1] = <<>> /\ \A j \in Docs : j > d + 1 => docs[j] = <<>>
    BY <1>1, <2>1 DEF Pipes
  <2>3. \A j \in Docs : j >= d + 1 => pipe[j] = docs[j]
    BY <1>1 DEF Pipes
  <2>4. Taken' = 0 /\ d' - 1 = d /\ d' # 1
    BY <1>1, <1>6, <2>1, <2>2 DEF Taken
  <2>5. Len(pipe'[d' - 1]) <= Len(docs'[d' - 1]) /\ \A m \in 1 .. Len(pipe'[d' - 1]) : pipe'[d' - 1][m] = docs'[d' - 1][Taken' + m]
    BY <1>1, <2>1, <2>2, <2>4
  <2>6. QED
    BY <1>6, <2>1, <2>2, <2>3, <2>4, <2>5 DEF Pipes
<1>7. CASE Test \/ (NextRedirect /\ d' # d + 1)
  BY <1>1, <1>2, <1>7 DEF Test, NextRedirect
<1>8. CASE Pipe \/ Reset \/ Install \/ EndOfFile \/ LoseLine \/ Look \/ Restore \/ Reinstall
  BY <1>2, <1>8 DEF Pipe, Reset, Install, EndOfFile, LoseLine, Look, Restore, Reinstall
<1>9. CASE CtrlC
  BY <1>2, <1>9 DEF CtrlC
<1>10. CASE UNCHANGED vars
  BY <1>2, <1>10 DEF vars
<1>11. QED
  BY <1>3, <1>4, <1>5, <1>6, <1>7, <1>8, <1>9, <1>10 DEF Next, Step, Over

(* What is known of the documents stays known as long as they, and what has
   been taken, do not change; running out of memory only weakens it. *)
LEMMA Frame ==
  ASSUME UNCHANGED <<d, docs, pipe, typed, quoted>>, failed => failed'
  PROVE  /\ Taken' = Taken
         /\ Source(d)' = Source(d)
         /\ \A j \in Docs : \A n : Copied(j, n) => Copied(j, n)'
         /\ \A j \in Docs : Finished(j) => Finished(j)'
         /\ Copied(d, Taken) => Copied(d, Taken)'
         /\ InHand /\ text' = text => InHand'
<1>1. Taken' = Taken
  BY DEF Taken
<1>2. \A j \in Docs : Source(j)' = Source(j)
  BY DEF Source
<1>3. Source(d)' = Source(d)
  BY DEF Source
<1>4. \A j \in Docs : \A n : Copied(j, n) => Copied(j, n)'
  BY <1>2 DEF Copied
<1>5. \A j \in Docs : Finished(j) => Finished(j)'
  BY <1>2, <1>4 DEF Finished
<1>6. Copied(d, Taken) => Copied(d, Taken)'
  BY <1>1, <1>3 DEF Copied
<1>7. InHand /\ text' = text => InHand'
  BY <1>1, <1>3 DEF InHand, Copied
<1>8. QED
  BY <1>1, <1>3, <1>4, <1>5, <1>6, <1>7

(* The document before is not changed by what is written for this one. *)
LEMMA Earlier ==
  ASSUME TypeOK, d' = d, UNCHANGED <<typed, quoted>>, failed => failed',
         \A j \in Docs : j < d => docs'[j] = docs[j]
  PROVE  /\ Source(d)' = Source(d)
         /\ \A j \in Docs : j < d /\ Finished(j) => Finished(j)'
<1>1. d \in Nat /\ d > 0 /\ Docs \subseteq Nat /\ \A j \in Docs : j > 0 /\ (j > 1 => j - 1 \in Docs)
  BY Texts, Numbers
<1> HIDE DEF Docs
<1>2. \A j \in Docs : j <= d => Source(j)' = Source(j)
  <2>1. SUFFICES ASSUME NEW j \in Docs, j <= d PROVE Source(j)' = Source(j)
    OBVIOUS
  <2>2. j # 1 => j - 1 \in Docs /\ j - 1 < d
    BY <1>1, <2>1
  <2>3. QED
    BY <2>2 DEF Source
<1>3. d \in Docs /\ Source(d)' = Source(d)
  BY <1>1, <1>2 DEF TypeOK, Source
<1>4. \A j \in Docs : j < d /\ Finished(j) => Finished(j)'
  <2>1. SUFFICES ASSUME NEW j \in Docs, j < d, Finished(j) PROVE Finished(j)'
    OBVIOUS
  <2>2. Source(j)' = Source(j) /\ docs'[j] = docs[j]
    BY <1>1, <1>2, <2>1
  <2>3. QED
    BY <2>1, <2>2 DEF Finished, Copied
<1>5. QED
  BY <1>3, <1>4

LEMMA TakenFits ==
  ASSUME TypeOK, Pipes
  PROVE  Taken \in Nat /\ Taken <= Len(Source(d))
<1>1. d \in Docs /\ d \in Nat /\ d > 0 /\ Len(typed) \in Nat
  BY Texts
<1>2. CASE d = 1
  BY <1>1, <1>2 DEF Taken, Source
<1>3. CASE d # 1
  <2>1. d > 1 /\ d - 1 \in Docs
    BY <1>1, <1>3, Numbers
  <2>2. PICK a, b : a = Len(docs[d - 1]) /\ b = Len(pipe[d - 1])
    OBVIOUS
  <2>3. a \in Nat /\ b \in Nat /\ b <= a
    BY <2>1, <2>2, Texts DEF Pipes
  <2>4. Taken = a - b /\ Len(Source(d)) = a
    BY <1>3, <2>2 DEF Taken, Source
  <2>5. QED
    BY <2>3, <2>4
<1>4. QED
  BY <1>2, <1>3

(* A line that is taken from the terminal is in hand. *)
LEMMA TypedInHand ==
  ASSUME TypeOK, Places, NEW l \in Lines, TypeLine(l), Copied(d, Taken)
  PROVE  InHand'
<1>1. /\ d = 1 /\ d' = d /\ UNCHANGED <<docs, quoted, failed>> /\ text' = l
  <2>1. d \in Nat /\ d > 0
    BY Texts
  <2>2. QED
    BY <2>1 DEF TypeLine, Places, Working, Pcs, given
<1>2. PICK n : n = Len(typed)
  OBVIOUS
<1>3. PICK new : new = Append(typed, l)
  OBVIOUS
<1>4. /\ n \in Nat /\ Len(new) = n + 1 /\ new[n + 1] = l
      /\ \A m \in 1 .. n : new[m] = typed[m]
  BY <1>2, <1>3, Texts, AppendProperties DEF TypeOK
<1>5. typed' = new
  BY <1>3 DEF TypeLine
<1>6. Source(d) = typed /\ Source(d)' = new /\ Taken = n /\ Taken' = n + 1
  BY <1>1, <1>2, <1>4, <1>5 DEF Source, Taken
<1>7. Copied(d, n)
  BY <1>6
<1> HIDE DEF Docs
<1>8. Copied(d, n)'
  BY <1>1, <1>4, <1>6, <1>7 DEF Copied
<1>9. n + 1 >= 1 /\ (n + 1) - 1 = n
  BY <1>4
<1>10. QED
  BY <1>1, <1>4, <1>6, <1>8, <1>9 DEF InHand

(* A line that is taken from the pipe of the document before is in hand. *)
LEMMA PipedInHand ==
  ASSUME TypeOK, Places, Pipes, PipedLine, Copied(d, Taken)
  PROVE  InHand' /\ text' # NoText
<1>1. /\ stdin = d - 1 /\ d # 1 /\ d > 1 /\ d - 1 \in Docs /\ d' = d
      /\ UNCHANGED <<docs, typed, quoted, failed>>
  <2>1. d \in Docs /\ d \in Nat /\ d > 0
    BY Texts
  <2>2. stdin = d - 1 /\ d # 1 /\ d' = d /\ UNCHANGED <<docs, typed, quoted, failed>>
    BY <2>1 DEF PipedLine, Places, Working, Pcs, given
  <2>3. QED
    BY <2>1, <2>2, Numbers
<1>2. PICK full : full = pipe[d - 1]
  OBVIOUS
<1>3. full \in Seq(Lines) /\ full # <<>> /\ pipe' = [pipe EXCEPT ![d - 1] = Tail(full)] /\ text' = Head(full)
  BY <1>1, <1>2, Texts DEF PipedLine
<1>4. /\ Len(Tail(full)) = Len(full) - 1 /\ Len(full) \in Nat /\ Len(full) > 0 /\ Head(full) = full[1]
      /\ Head(full) \in Lines
  BY <1>3, HeadTailProperties, LenProperties, EmptySeq
<1>5. pipe'[d - 1] = Tail(full)
  BY <1>1, <1>3 DEF TypeOK
<1>6. PICK n : n = Len(docs[d - 1])
  OBVIOUS
<1>7. n \in Nat
  BY <1>1, <1>6, Texts
<1>8. Taken = n - Len(full)
  BY <1>1, <1>2, <1>6 DEF Taken
<1>9. Taken' = n - Len(Tail(full))
  BY <1>1, <1>5, <1>6 DEF Taken
<1>10. Taken' = Taken + 1 /\ Taken \in Nat
  <2>1. Len(full) <= n
    BY <1>1, <1>2, <1>6 DEF Pipes
  <2>2. PICK a, b : a = Len(full) /\ b = Len(Tail(full))
    OBVIOUS
  <2>3. a \in Nat /\ b = a - 1 /\ a <= n
    BY <1>4, <2>1, <2>2
  <2>4. Taken = n - a /\ Taken' = n - b
    BY <1>8, <1>9, <2>2
  <2>5. n - a \in Nat /\ n - b = (n - a) + 1
    BY <1>7, <2>3
  <2>6. QED
    BY <2>4, <2>5
<1>11. Source(d) = docs[d - 1] /\ Source(d)' = docs[d - 1]
  BY <1>1 DEF Source
<1>12. text' = Source(d)[Taken + 1]
  <2>1. 1 \in 1 .. Len(full)
    BY <1>4
  <2>2. full[1] = docs[d - 1][Taken + 1]
    BY <1>1, <1>2, <2>1 DEF Pipes
  <2>3. QED
    BY <1>3, <1>4, <1>11, <2>2
<1>13. PICK k : k = Taken
  OBVIOUS
<1>14. Copied(d, k)'
  <2>1. Copied(d, k)
    BY <1>13
  <2>2. QED
    BY <1>1, <1>11, <2>1 DEF Copied
<1>15. /\ Taken' >= 1 /\ Taken' - 1 = k
       /\ Source(d)'[Taken'] = text'
  BY <1>10, <1>11, <1>12, <1>13
<1>16. text' # NoText
  BY <1>3, <1>4, Bounds
<1>17. InHand'
  BY <1>1, <1>14, <1>15 DEF InHand
<1>18. QED
  BY <1>16, <1>17

(* The line in hand, once written, is copied. *)
LEMMA WrittenCopied ==
  ASSUME TypeOK, Places, Pipes, Write, InHand
  PROVE  Copied(d, Taken)'
<1>1. /\ d \in Docs /\ d \in Nat /\ d > 0 /\ \A j \in Docs : j > 1 => j - 1 \in Docs
      /\ d' = d /\ UNCHANGED <<typed, quoted>> /\ text # Delims[d]
  BY Texts, Numbers DEF Write, Places, given
<1>2. PICK line \in Lines :
         /\ Puts(line)
         /\ line = (IF quoted[d] THEN text ELSE Expand[text]) \/ (failed' /\ line = text)
         /\ failed => failed'
  BY WriteLine
<1>3. PICK n : n = Len(docs[d])
  OBVIOUS
<1>4. /\ n \in Nat /\ Len(docs'[d]) = n + 1 /\ docs'[d][n + 1] = line
      /\ \A m \in 1 .. n : docs'[d][m] = docs[d][m]
      /\ \A j \in Docs : j # d => docs'[j] = docs[j] /\ pipe'[j] = pipe[j]
  BY <1>1, <1>2, <1>3, Texts, PutsEffect
<1>5. PICK s : s = Source(d)
  OBVIOUS
<1>6. Source(d)' = s /\ Taken' = Taken
  <2>1. d # 1 => d - 1 \in Docs /\ d - 1 # d
    BY <1>1
  <2>2. d # 1 => docs'[d - 1] = docs[d - 1] /\ pipe'[d - 1] = pipe[d - 1]
    BY <1>4, <2>1
  <2>3. QED
    BY <1>1, <1>5, <2>2 DEF Source, Taken
<1>7. Taken = n + 1 /\ s[n + 1] = text /\ n + 1 <= Len(s)
  <2>1. Taken \in Nat /\ Taken <= Len(s)
    BY <1>5, TakenFits
  <2>2. n = Taken - 1 /\ s[Taken] = text
    BY <1>3, <1>5 DEF InHand, Copied
  <2>3. QED
    BY <2>1, <2>2
<1>8. \A m \in 1 .. n : s[m] # Delims[d] /\ (docs[d][m] = (IF quoted[d] THEN s[m] ELSE Expand[s[m]]) \/ (failed /\ docs[d][m] = s[m]))
  <2>1. Copied(d, n)
    BY <1>3 DEF InHand, Copied
  <2>2. QED
    BY <1>5, <2>1 DEF Copied
<1>9. \A m \in 1 .. n + 1 : s[m] # Delims[d] /\ (docs'[d][m] = (IF quoted[d] THEN s[m] ELSE Expand[s[m]]) \/ (failed' /\ docs'[d][m] = s[m]))
  <2>1. \A m \in 1 .. n + 1 : m \in 1 .. n \/ m = n + 1
    BY <1>4
  <2>2. QED
    BY <1>1, <1>2, <1>4, <1>7, <1>8, <2>1
<1>10. QED
  BY <1>1, <1>4, <1>6, <1>7, <1>9 DEF Copied

(* A document ends where its input does, or the line in hand is its delimiter. *)
LEMMA EndedFinished ==
  ASSUME TypeOK, Pipes, Copied(d, Taken), failed \/ Taken = Len(Source(d))
  PROVE  Finished(d)
BY DEF Finished, Copied

LEMMA DelimiterFinished ==
  ASSUME TypeOK, Pipes, InHand, text = Delims[d]
  PROVE  Finished(d)
<1>1. PICK n : n = Len(docs[d])
  OBVIOUS
<1>2. n = Taken - 1 /\ Source(d)[Taken] = Delims[d] /\ Taken \in Nat /\ Copied(d, n)
  BY <1>1, TakenFits DEF InHand, Copied
<1>3. Source(d)[n + 1] = Delims[d]
  BY <1>2
<1>4. QED
  BY <1>1, <1>2, <1>3 DEF Finished

LEMMA FaithfulStep ==
  ASSUME IInv, Next \/ UNCHANGED vars
  PROVE  Faithful'
<1> USE DEF given, sigs, keys, Goto, Return
<1>1. TypeOK /\ Places /\ Pipes /\ Signals /\ Faithful
  BY DEF IInv
<1>2. d \in Docs /\ d \in Nat /\ d > 0 /\ Docs \subseteq Nat /\ NoText \notin Lines /\ text \in Lines \cup {NoText}
  BY <1>1, Texts, Numbers, Bounds DEF TypeOK
<1> HIDE DEF Docs, NoText
<1>3. CASE CtrlC
  BY <1>3 DEF CtrlC, Faithful
<1>4. SUFFICES ASSUME ~ CtrlC, hit = {}, hit' = {} PROVE Faithful'
  <2>1. ~ CtrlC => hit' = hit
    BY DEF Next, Step, Over, Pipe, Reset, Install, PipedLine, Look, Write, Restore, Reinstall, Test, NextRedirect,
           LoseLine, EndOfFile, TypeLine, vars
  <2>2. QED
    BY <1>3, <2>1 DEF Faithful
<1>5. \A j \in Docs : j < d => Finished(j)
  BY <1>1, <1>4 DEF Faithful
<1>6. CASE Pipe \/ Reset \/ Restore \/ Reinstall
  <2>1. UNCHANGED <<d, docs, pipe, typed, quoted, failed>>
    BY <1>6 DEF Pipe, Reset, Restore, Reinstall
  <2>2. \A j \in Docs : Finished(j) => Finished(j)'
    BY <2>1, Frame
  <2>3. QED
    BY <1>2, <1>1, <1>4, <1>5, <1>6, <2>1, <2>2 DEF Pipe, Reset, Restore, Reinstall, Faithful
<1>7. CASE Install
  <2>1. UNCHANGED <<d, docs, pipe, typed, quoted, failed>> /\ pc' = "read"
    BY <1>7 DEF Install
  <2>2. docs[d] = <<>> /\ Taken = 0 /\ Len(docs[d]) = 0
    BY <1>1, <1>7 DEF Install, Pipes
  <2>3. Copied(d, Taken)
    BY <1>1, <1>2, <2>2, TakenFits DEF Copied
  <2>4. Copied(d, Taken)' /\ \A j \in Docs : Finished(j) => Finished(j)'
    BY <1>2, <2>1, <2>3, Frame DEF Copied
  <2>5. QED
    BY <1>5, <2>1, <2>4 DEF Faithful
<1>8. CASE EndOfFile
  <2>1. UNCHANGED <<d, docs, pipe, typed, quoted, failed>> /\ pc' = "look" /\ text' = NoText
    BY <1>8 DEF EndOfFile
  <2>2. Copied(d, Taken)
    BY <1>1, <1>4, <1>8 DEF EndOfFile, Faithful
  <2>3. Taken = Len(Source(d))
    <3>1. stdin = d - 1 /\ (stdin # 0 => pipe[stdin] = <<>>)
      BY <1>1, <1>8 DEF EndOfFile, Places, Working, Pcs
    <3>2. CASE d = 1
      BY <3>2 DEF Taken, Source
    <3>3. CASE d # 1
      <4>1. Len(pipe[d - 1]) = 0 /\ Len(docs[d - 1]) \in Nat
        BY <1>1, <1>2, <3>1, <3>3, Texts, Numbers
      <4>2. QED
        BY <3>3, <4>1 DEF Taken, Source
    <3>4. QED
      BY <3>2, <3>3
  <2>4. Copied(d, Taken)' /\ (Taken = Len(Source(d)))' /\ \A j \in Docs : Finished(j) => Finished(j)'
    BY <2>1, <2>2, <2>3, Frame
  <2>5. QED
    BY <1>5, <2>1, <2>4 DEF Faithful
<1>9. ASSUME NEW l \in Lines, TypeLine(l) PROVE Faithful'
  <2>1. UNCHANGED <<d, docs, quoted, failed>> /\ pc' = "look" /\ text' = l /\ d = 1
    BY <1>1, <1>2, <1>9 DEF TypeLine, Places, Working, Pcs
  <2>2. InHand'
    BY <1>1, <1>4, <1>9, TypedInHand DEF TypeLine, Faithful
  <2>3. text' # NoText /\ \A j \in Docs : ~ (j < d)
    BY <1>2, <2>1, Numbers
  <2>4. QED
    BY <2>1, <2>2, <2>3 DEF Faithful
<1>10. CASE PipedLine
  <2>1. UNCHANGED <<d, docs, typed, quoted, failed>> /\ pc' = "look"
    BY <1>10 DEF PipedLine
  <2>2. InHand' /\ text' # NoText
    BY <1>1, <1>4, <1>10, PipedInHand DEF PipedLine, Faithful
  <2>3. \A j \in Docs : j < d /\ Finished(j) => Finished(j)'
    BY <1>1, <2>1, Earlier
  <2>4. QED
    BY <1>5, <2>1, <2>2, <2>3 DEF Faithful
<1>11. CASE LoseLine
  <2>1. UNCHANGED <<d, docs, pipe, typed, quoted>> /\ failed' = TRUE /\ pc' = "look" /\ text' = NoText
    BY <1>11 DEF LoseLine
  <2>2. Copied(d, Taken)
    BY <1>1, <1>4, <1>11 DEF LoseLine, Faithful
  <2>3. Copied(d, Taken)' /\ \A j \in Docs : Finished(j) => Finished(j)'
    BY <2>1, <2>2, Frame
  <2>4. QED
    BY <1>5, <2>1, <2>3 DEF Faithful
<1>12. CASE Look
  <2>1. UNCHANGED <<d, docs, pipe, typed, quoted, failed, text>> /\ pc = "look"
    BY <1>12 DEF Look
  <2>2. \A j \in Docs : Finished(j) => Finished(j)'
    BY <2>1, Frame
  <2>3. g_sig # SIGINT
    BY <1>1, <1>4 DEF Signals, SIGINT
  <2>4. CASE text = NoText \/ text = Delims[d]
    <3>1. pc' = "restore"
      BY <1>12, <2>4 DEF Look
    <3>2. Finished(d)
      BY <1>1, <1>4, <2>1, <2>4, EndedFinished, DelimiterFinished DEF Faithful
    <3>3. QED
      BY <1>2, <1>5, <2>1, <2>2, <3>1, <3>2 DEF Faithful
  <2>5. CASE text # NoText /\ text # Delims[d]
    <3>1. pc' = "write" /\ InHand
      BY <1>1, <1>4, <1>12, <2>1, <2>3, <2>5 DEF Look, Faithful
    <3>2. InHand'
      BY <2>1, <3>1, Frame
    <3>3. QED
      BY <1>5, <2>1, <2>2, <3>1, <3>2 DEF Faithful
  <2>6. QED
    BY <2>4, <2>5
<1>13. CASE Write
  <2>1. d' = d /\ pc' = "read" /\ UNCHANGED <<typed, quoted>> /\ InHand
    BY <1>1, <1>4, <1>13 DEF Write, Faithful
  <2>2. PICK line \in Lines : Puts(line) /\ (failed => failed')
    BY <1>1, <1>13, WriteLine
  <2>3. \A j \in Docs : j < d => docs'[j] = docs[j]
    <3>1. \A j \in Docs : j # d => docs'[j] = docs[j]
      BY <1>1, <2>2, PutsEffect
    <3>2. QED
      BY <1>2, <3>1
  <2>4. Copied(d, Taken)'
    BY <1>1, <1>13, <2>1, WrittenCopied
  <2>5. \A j \in Docs : j < d /\ Finished(j) => Finished(j)'
    BY <1>1, <2>1, <2>2, <2>3, Earlier
  <2>6. QED
    BY <1>5, <2>1, <2>4, <2>5 DEF Faithful
<1>14. CASE Test
  <2>1. UNCHANGED <<docs, pipe, typed, quoted, failed, d>> /\ pc = "test"
    BY <1>14 DEF Test
  <2>2. (\A j \in Docs : Finished(j) => Finished(j)') /\ Finished(d)
    BY <1>1, <1>4, <2>1 DEF Finished, Copied, Source, Faithful
  <2>3. pc' = "dup" \/ (pc' = "done" /\ ret' # 0)
    BY <1>14 DEF Test
  <2>4. QED
    BY <1>2, <1>5, <2>1, <2>2, <2>3 DEF Faithful
<1>17. CASE NextRedirect
  <2>1. UNCHANGED <<docs, pipe, typed, quoted, failed>> /\ pc = "dup"
    BY <1>17 DEF NextRedirect
  <2>2. \A j \in Docs : Finished(j) => Finished(j)'
    BY <2>1 DEF Finished, Copied, Source
  <2>3. Finished(d)
    BY <1>1, <1>4, <2>1 DEF Faithful
  <2>4. CASE d + 1 \in Docs /\ d' = d + 1
    <3>1. pc' = "pipe" /\ \A j \in Docs : j < d + 1 => j < d \/ j = d
      BY <1>2, <1>17, <2>4 DEF NextRedirect
    <3>2. QED
      BY <1>5, <2>2, <2>3, <2>4, <3>1 DEF Faithful
  <2>5. CASE d + 1 \notin Docs /\ d' = d
    <3>1. pc' = "done" /\ \A j \in Docs : j < d \/ j = d
      BY <1>2, <1>17, <2>5, Numbers DEF NextRedirect
    <3>2. QED
      BY <1>5, <2>2, <2>3, <2>5, <3>1 DEF Faithful
  <2>6. QED
    BY <1>17, <2>4, <2>5 DEF NextRedirect
<1>15. CASE UNCHANGED vars
  <2>1. UNCHANGED <<pc, d, docs, pipe, typed, quoted, failed, text, hit, ret>>
    BY <1>15 DEF vars
  <2>2. Source(d)' = Source(d) /\ \A j \in Docs : Finished(j) => Finished(j)'
    BY <2>1, Frame
  <2>3. (Copied(d, Taken) => Copied(d, Taken)') /\ (InHand => InHand') /\ Taken' = Taken
    BY <2>1, Frame
  <2>4. /\ \A j \in Docs : j < d' => Finished(j)'
        /\ pc' = "done" /\ ret' = 0 => \A j \in Docs : Finished(j)'
        /\ pc' \in {"restore", "reinstall", "test", "dup"} => Finished(d)'
    <3>1. Finished(d) => Finished(d)'
      BY <2>1 DEF Finished, Copied, Source
    <3>2. QED
      BY <1>1, <1>4, <1>5, <2>1, <2>2, <3>1 DEF Faithful
  <2>5. /\ pc' = "read" => Copied(d, Taken)'
        /\ pc' = "look" /\ text' # NoText => InHand'
        /\ pc' = "write" => InHand'
        /\ pc' = "look" /\ text' = NoText => Copied(d, Taken)' /\ (failed' \/ Taken' = Len(Source(d)'))
    BY <1>1, <1>4, <2>1, <2>2, <2>3 DEF Faithful
  <2>6. QED
    BY <2>4, <2>5 DEF Faithful
<1>16. QED
  BY <1>3, <1>6, <1>7, <1>8, <1>9, <1>10, <1>11, <1>12, <1>13, <1>14, <1>15, <1>17 DEF Next, Step, Over

-----------------------------------------------------------------------------
LEMMA IInvInductive == Spec => []IInv
<1>1. Init => IInv
  BY InitIInv
<1>2. IInv /\ [Next]_vars => IInv'
  <2>1. SUFFICES ASSUME IInv, Next \/ UNCHANGED vars PROVE IInv'
    OBVIOUS
  <2>2. TypeOK' /\ Places' /\ Pipes' /\ Signals'
    BY <2>1, TypeStep, PlacesStep, PipesStep, SignalsStep DEF IInv
  <2>3. QED
    BY <2>1, <2>2, FaithfulStep DEF IInv
<1>3. QED
  BY <1>1, <1>2, PTL DEF Spec

(* UpTo is what it says: the input before the first delimiter. *)
LEMMA UpToIs ==
  ASSUME NEW s \in Seq(Lines), NEW l
  PROVE  \E n \in 0 .. Len(s) :
            /\ Len(UpTo(s, l)) = n /\ \A m \in 1 .. n : UpTo(s, l)[m] = s[m]
            /\ \A m \in 1 .. n : s[m] # l
            /\ n < Len(s) => s[n + 1] = l
<1> DEFINE First(n) == (\A m \in 1 .. n : s[m] # l) /\ (n < Len(s) => s[n + 1] = l)
           Stops    == {n \in 0 .. Len(s) : n < Len(s) => s[n + 1] = l}
<1>1. Len(s) \in Nat /\ \A m \in 1 .. Len(s) : s[m] \in Lines
  BY ElementOfSeq, LenProperties
<1>2. Stops \in SUBSET Nat /\ Len(s) \in Stops
  BY <1>1
<1>3. PICK n \in Stops : \A m \in Stops : n <= m
  <2> HIDE DEF Stops
  <2>1. QED
    BY <1>2, Least
<1>4. n \in 0 .. Len(s) /\ First(n)
  <2>1. n \in 0 .. Len(s) /\ (n < Len(s) => s[n + 1] = l)
    OBVIOUS
  <2>2. ASSUME NEW m \in 1 .. n PROVE s[m] # l
    <3>1. m - 1 \notin Stops
      <4>1. m - 1 < n
        BY <1>1, <2>1
      <4> HIDE DEF Stops
      <4>2. QED
        BY <1>1, <1>2, <1>3, <2>1, <4>1
    <3>2. QED
      BY <1>1, <2>1, <3>1
  <2>3. QED
    BY <2>1, <2>2
<1>5. PICK k : k = CHOOSE i \in 0 .. Len(s) : First(i)
  OBVIOUS
<1>6. k \in 0 .. Len(s) /\ First(k) /\ UpTo(s, l) = SubSeq(s, 1, k)
  <2>1. UpTo(s, l) = SubSeq(s, 1, k)
    BY <1>5 DEF UpTo
  <2> HIDE DEF First
  <2>2. QED
    BY <1>4, <1>5, <2>1
<1>7. PICK t : t = SubSeq(s, 1, k)
  OBVIOUS
<1>8. Len(t) = k /\ \A m \in 1 .. k : t[m] = s[m]
  <2>1. k \in Nat /\ k <= Len(s) /\ \A i \in 1 .. k : s[i] \in Lines
    BY <1>1, <1>6
  <2>2. /\ Len(t) = IF 1 <= k THEN k - 1 + 1 ELSE 0
        /\ \A i \in 1 .. k - 1 + 1 : t[i] = s[1 + i - 1]
    BY <1>7, <2>1, SubSeqProperties
  <2>3. QED
    BY <2>1, <2>2
<1>9. QED
  BY <1>6, <1>7, <1>8

(* apply_redirects leaves the shell's state within its types, whatever is
   typed, interrupted or fails: no document outgrows its pipe, and no
   redirection after the last is applied (redirect.c:36-55). *)
THEOREM HeredocTypeOK == Spec => []TypeOK
<1>1. IInv => TypeOK
  BY DEF IInv
<1>2. QED
  BY <1>1, IInvInductive, PTL

(* For any number of documents of any length: unless Ctrl-C came, the document
   a command gets is its input up to the delimiter, no line lost, doubled or
   reordered, although each document's input is the pipe of the one before
   (heredoc.c:62-89, redirect.c:36-55). *)
THEOREM DocumentsFaithful == Spec => []DocumentsAreWhatWasRead
<1>1. IInv => DocumentsAreWhatWasRead
  <2>1. SUFFICES ASSUME IInv, pc = "done", ret = 0, hit = {}, NEW j \in Docs
                 PROVE  LET read    == UpTo(Source(j), Delims[j])
                            Line(n) == IF quoted[j] THEN read[n] ELSE Expand[read[n]]
                        IN /\ Len(docs[j]) <= Len(read)
                           /\ \A n \in DOMAIN docs[j] : docs[j][n] = Line(n) \/ (failed /\ docs[j][n] = read[n])
                           /\ ~ failed => Len(docs[j]) = Len(read)
    BY DEF DocumentsAreWhatWasRead
  <2>2. TypeOK /\ Finished(j)
    BY <2>1 DEF IInv, Faithful
  <2> HIDE DEF Docs
  <2>3. PICK s : s = Source(j)
    OBVIOUS
  <2>4. PICK read : read = UpTo(Source(j), Delims[j])
    OBVIOUS
  <2>5. s \in Seq(Lines) /\ Len(s) \in Nat /\ read = UpTo(s, Delims[j])
    BY <2>2, <2>3, <2>4, Texts
  <2>6. PICK n \in 0 .. Len(s) :
          /\ Len(read) = n /\ \A m \in 1 .. n : read[m] = s[m]
          /\ \A m \in 1 .. n : s[m] # Delims[j]
          /\ n < Len(s) => s[n + 1] = Delims[j]
    BY <2>5, UpToIs
  <2>7. PICK k : k = Len(docs[j])
    OBVIOUS
  <2>8. /\ k \in Nat /\ k <= Len(s) /\ DOMAIN docs[j] = 1 .. k
        /\ \A m \in 1 .. k :
              /\ s[m] # Delims[j]
              /\ docs[j][m] = (IF quoted[j] THEN s[m] ELSE Expand[s[m]]) \/ (failed /\ docs[j][m] = s[m])
        /\ failed \/ k = Len(s) \/ s[k + 1] = Delims[j]
    <3>1. k \in Nat /\ DOMAIN docs[j] = 1 .. k
      BY <2>2, <2>7, Texts, LenProperties
    <3>2. QED
      BY <2>2, <2>3, <2>7, <3>1 DEF Finished, Copied
  <2>9. k <= n
    <3>1. SUFFICES ASSUME n < k PROVE FALSE
      BY <2>6, <2>8, <2>5
    <3>2. n + 1 \in 1 .. k /\ n < Len(s)
      BY <2>5, <2>6, <2>8, <3>1
    <3>3. QED
      BY <2>6, <2>8, <3>2
  <2>10. ~ failed => k = n
    <3>1. SUFFICES ASSUME ~ failed, k < n PROVE FALSE
      BY <2>6, <2>8, <2>9
    <3>2. k + 1 \in 1 .. n /\ k # Len(s)
      BY <2>5, <2>6, <2>8, <3>1
    <3>3. QED
      BY <2>6, <2>8, <3>1, <3>2
  <2>11. \A m \in 1 .. k : read[m] = s[m]
    BY <2>5, <2>6, <2>8, <2>9
  <2>12. QED
    BY <2>4, <2>6, <2>7, <2>8, <2>9, <2>10, <2>11
<1>2. QED
  BY <1>1, IInvInductive, PTL

(* However many times Ctrl-C is pressed, and whenever: apply_redirects returns
   130 only when the last test of g_sig could see it, or for the 130 of the
   line before, and returns 0 with one pending only when it came after that
   test, while the pipe was made stdin (heredoc.c:83-87, redirect.c:42-53). *)
THEOREM InterruptsAccounted == Spec => []InterruptsAccountedFor
<1>1. IInv => InterruptsAccountedFor
  BY DEF IInv, Signals
<1>2. QED
  BY <1>1, IInvInductive, PTL
=============================================================================
