----------------------------- MODULE ArenaProofs -----------------------------
(***************************************************************************)
(* For every word size, every sequence of requests, marks, pops and resets *)
(* and every malloc that fails, the memory of two live allocations never   *)
(* overlaps and a pop puts the arena back to the byte.                     *)
(***************************************************************************)
EXTENDS Arena, NatLemmas, SequenceTheorems, TLAPS

Before(o, p) == o.block < p.block \/ (o.block = p.block /\ o.at + o.size <= p.at)

(* Blocks and objects: what is in use is a multiple of the word, and objects
   lie one behind the other in the part of their block that is used. *)
Rounded == \A b \in DOMAIN blocks : blocks[b].used % Word = 0
Placed  == \A i \in DOMAIN objects :
              LET o == objects[i] IN
              /\ o.block \in DOMAIN blocks /\ o.at % Word = 0
              /\ o.at + o.size <= blocks[o.block].used
Stacked == \A i, j \in DOMAIN objects : i < j => Before(objects[i], objects[j])

(* A mark that can still be popped: no block below its own has changed since,
   its own has only been filled further, and the objects there were end within
   it. *)
Inside(o, m) == o.block < m.block \/ (o.block = m.block /\ o.at + o.size <= m.used)

Keeps(m, stack, objs) ==
    /\ m.block <= Len(stack) /\ Len(m.blocks) = m.block
    /\ \A b \in 1 .. m.block : b < m.block => stack[b] = m.blocks[b]
    /\ m.block > 0 => /\ m.blocks[m.block] = [cap |-> stack[m.block].cap, used |-> m.used]
                      /\ m.used <= stack[m.block].used /\ m.used % Word = 0
    /\ m.block = 0 => m.used = 0
    /\ m.objects <= Len(objs)
    /\ \A i \in 1 .. m.objects : Inside(objs[i], m)

(* What a later mark keeps includes what an earlier one does. *)
Within(m, n) ==
    /\ m.block <= n.block /\ m.objects <= n.objects
    /\ m.block = n.block => m.used <= n.used

Nested ==
    /\ \A k \in DOMAIN marks : Keeps(marks[k], blocks, objects)
    /\ \A k, l \in DOMAIN marks : k < l => Within(marks[k], marks[l])

IInv == TypeOK /\ Rounded /\ Placed /\ Stacked /\ Nested

-----------------------------------------------------------------------------
(* What the types say of the elements of the three stacks. *)
LEMMA BlockFields ==
  \A b \in Block : b.cap \in Nat /\ b.used \in Nat /\ b = [cap |-> b.cap, used |-> b.used]
  BY DEF Block

LEMMA BlockMade ==
  ASSUME NEW c \in Nat, NEW u \in Nat
  PROVE  [cap |-> c, used |-> u] \in Block
  BY DEF Block

LEMMA ObjectFields ==
  \A o \in Object : o.block \in Nat /\ o.at \in Nat /\ o.size \in Nat
  BY DEF Object

LEMMA MarkFields ==
  \A m \in Mark : m.block \in Nat /\ m.used \in Nat /\ m.objects \in Nat /\ m.blocks \in Seq(Block)
  BY DEF Mark

LEMMA Stacks ==
  ASSUME TypeOK
  PROVE  /\ Len(blocks) \in Nat /\ DOMAIN blocks = 1 .. Len(blocks)
         /\ \A b \in DOMAIN blocks : blocks[b] \in Block
         /\ Len(objects) \in Nat /\ DOMAIN objects = 1 .. Len(objects)
         /\ \A i \in DOMAIN objects : objects[i] \in Object
         /\ Len(marks) \in Nat /\ DOMAIN marks = 1 .. Len(marks)
         /\ \A k \in DOMAIN marks : marks[k] \in Mark
<1>1. blocks \in Seq(Block) /\ objects \in Seq(Object) /\ marks \in Seq(Mark)
  BY DEF TypeOK
<1>2. QED
  BY <1>1

(* What a step may do without spoiling a mark. *)
LEMMA KeepsPreserved ==
  ASSUME NEW m \in Mark, NEW stack, NEW objs, NEW stack2, NEW objs2, Keeps(m, stack, objs),
         m.block <= Len(stack2), m.objects <= Len(objs2),
         \A b \in 1 .. m.block : b < m.block => stack2[b] = stack[b],
         m.block > 0 => stack2[m.block].cap = stack[m.block].cap /\ m.used <= stack2[m.block].used,
         \A i \in 1 .. m.objects : objs2[i] = objs[i]
  PROVE  Keeps(m, stack2, objs2)
  BY Zenon DEF Keeps

(* Align rounds up to a multiple of the word. *)
LEMMA AlignRounds ==
  ASSUME NEW size \in Sizes
  PROVE  Align(size) \in Nat /\ Align(size) % Word = 0 /\ size <= Align(size) /\ size \in Nat
<1>1. Word \in Nat \ {0} /\ size \in Nat \ {0}
  BY ArenaAssumption
<1> DEFINE n == size + Word - 1
<1>2. n \in Nat
  BY <1>1
<1>3. Align(size) = (n \div Word) * Word
  BY DEF Align
<1> HIDE DEF n
<1>4. n \div Word \in Nat /\ n % Word \in 0 .. Word - 1 /\ n = Word * (n \div Word) + (n % Word)
  BY <1>1, <1>2, Division
<1>5. ((n \div Word) * Word) % Word = 0
  BY <1>1, <1>4, MultipleMod
<1>6. (n \div Word) * Word \in Nat /\ n - (Word - 1) <= (n \div Word) * Word
  BY <1>1, <1>2, <1>4, SMTT(30)
<1>7. QED
  BY <1>1, <1>2, <1>3, <1>5, <1>6 DEF n

(* A new block has room for what it was made for. *)
LEMMA NewBlock ==
  ASSUME NEW need \in Nat
  PROVE  new_block(need) \in Block /\ need <= new_block(need).cap /\ new_block(need).used = 0
  BY ArenaAssumption DEF new_block, Block

(* The arena's blocks, or these and a new one behind them, with room for need. *)
Room(stack, need) ==
    /\ stack \in Seq(Block) /\ stack # <<>>
    /\ Len(stack) = Len(blocks) \/ (Len(stack) = Len(blocks) + 1 /\ stack[Len(stack)].used = 0)
    /\ \A b \in DOMAIN blocks : stack[b] = blocks[b]
    /\ stack[Len(stack)].used + need <= stack[Len(stack)].cap

(* Taking need bytes from the last of these blocks. *)
LEMMA TakeIInv ==
  ASSUME IInv, NEW stack, NEW size \in Sizes, Room(stack, Align(size)), Take(stack, Align(size), size),
         UNCHANGED marks
  PROVE  IInv'
<1> DEFINE n    == Len(stack)
           old  == Len(blocks)
           need == Align(size)
           at   == stack[n].used
           new  == [block |-> n, at |-> at, size |-> size]
<1>1. /\ need \in Nat /\ need % Word = 0 /\ size \in Nat /\ size <= need
      /\ Word \in Nat \ {0}
  BY AlignRounds, ArenaAssumption
<1>2. /\ n \in Nat /\ n > 0 /\ old \in Nat /\ (old = n \/ old = n - 1)
      /\ DOMAIN stack = 1 .. n /\ DOMAIN blocks = 1 .. old
      /\ \A b \in 1 .. n : stack[b] \in Block
      /\ \A b \in DOMAIN blocks : stack[b] = blocks[b] /\ blocks[b].used <= blocks[b].cap
  BY Stacks DEF IInv, TypeOK, Room
<1>r. /\ stack \in Seq(Block) /\ at + need <= stack[n].cap
      /\ old = n \/ at = 0
  BY DEF Room
<1>t. /\ blocks' = [stack EXCEPT ![n] = [cap |-> stack[n].cap, used |-> at + need]]
      /\ objects' = Append(objects, new)
  BY DEF Take
<1>l. Len(stack) = n
  OBVIOUS
<1> HIDE DEF n, old, need
<1>3. /\ at \in Nat /\ (at + need) % Word = 0 /\ at % Word = 0
      /\ stack[n].cap \in Nat /\ at + need <= stack[n].cap
  <2>1. stack[n] \in Block /\ at \in Nat /\ stack[n].cap \in Nat
    BY <1>2, BlockFields
  <2>2. 0 % Word = 0
    BY <1>1, SMTT(30)
  <2>3. at % Word = 0
    <3>1. CASE old = n
      <4>1. n \in DOMAIN blocks /\ blocks[n] = stack[n]
        BY <1>2, <3>1
      <4>2. QED
        BY <4>1 DEF IInv, Rounded
    <3>2. CASE old = n - 1
      <4>1. at = 0
        BY <1>2, <1>r, <3>2
      <4>2. QED
        BY <2>2, <4>1
    <3>3. QED
      BY <1>2, <3>1, <3>2
  <2>4. QED
    BY <1>1, <2>1, <2>3, <1>r, MultiplesAdd
<1>4. /\ blocks' \in Seq(Block) /\ Len(blocks') = n /\ DOMAIN blocks' = 1 .. n
      /\ \A b \in 1 .. n : b # n => blocks'[b] = blocks[b]
      /\ blocks'[n].used = at + need /\ blocks'[n].cap = stack[n].cap
  <2> DEFINE b == [cap |-> stack[n].cap, used |-> at + need]
  <2>1. blocks' = [stack EXCEPT ![n] = b]
    BY <1>t
  <2>2. b \in Block /\ b.cap = stack[n].cap /\ b.used = at + need
    <3>1. at + need \in Nat /\ stack[n].cap \in Nat
      BY <1>1, <1>3
    <3>2. b \in Block
      BY <3>1, BlockMade
    <3>3. QED
      BY <3>2
  <2> HIDE DEF b
  <2>4. blocks' \in Seq(Block) /\ Len(blocks') = n
    BY <1>2, <1>l, <1>r, <2>1, <2>2
  <2>5. \A c \in 1 .. n : blocks'[c] = IF c = n THEN b ELSE stack[c]
    BY <1>2, <2>1
  <2>6. QED
    BY <1>2, <2>2, <2>4, <2>5
<1>5. objects' = Append(objects, new) /\ new \in Object /\ objects \in Seq(Object) /\ marks \in Seq(Mark)
  BY <1>1, <1>2, <1>3, <1>t DEF Object, IInv, TypeOK
<1>6. /\ Len(objects) \in Nat /\ Len(objects') = Len(objects) + 1 /\ objects' \in Seq(Object)
      /\ DOMAIN objects = 1 .. Len(objects) /\ DOMAIN objects' = 1 .. Len(objects) + 1
      /\ \A i \in DOMAIN objects : objects'[i] = objects[i] /\ objects[i] \in Object
      /\ objects'[Len(objects) + 1] = new
  BY <1>5
<1>7. new.block = n /\ new.at = at /\ new.size = size
  OBVIOUS
<1>8. old = n => blocks[n].used = at /\ blocks[n].cap = stack[n].cap
  BY <1>2
<1> HIDE DEF at, new
<1>9. \A b \in DOMAIN blocks : b \in 1 .. n /\ blocks[b].used \in Nat /\ blocks[b].used <= blocks'[b].used
                               /\ blocks'[b].cap = blocks[b].cap
  <2> SUFFICES ASSUME NEW b \in DOMAIN blocks
               PROVE  b \in 1 .. n /\ blocks[b].used \in Nat /\ blocks[b].used <= blocks'[b].used
                      /\ blocks'[b].cap = blocks[b].cap
    OBVIOUS
  <2>1. b \in 1 .. n /\ blocks[b] \in Block /\ blocks[b].used \in Nat
    BY <1>2, BlockFields
  <2>2. CASE b = n
    <3>1. blocks[b].used = at /\ blocks[b].cap = stack[n].cap
      BY <1>2, <1>8, <2>2
    <3>2. QED
      BY <1>1, <1>3, <1>4, <2>1, <2>2, <3>1
  <2>3. CASE b # n
    <3>1. blocks'[b] = blocks[b]
      BY <1>4, <2>1, <2>3
    <3>2. QED
      BY <2>1, <3>1
  <2>4. QED
    BY <2>2, <2>3
<1>10. TypeOK' /\ Rounded'
  <2>1. ASSUME NEW b \in 1 .. n
        PROVE  blocks'[b].used <= blocks'[b].cap /\ blocks'[b].used % Word = 0
    <3>1. CASE b = n
      BY <1>3, <1>4, <3>1
    <3>2. CASE b # n
      <4>1. n \in Nat /\ DOMAIN blocks = 1 .. old /\ (old = n \/ old = n - 1)
        BY <1>2
      <4>2. b \in DOMAIN blocks
        BY <3>2, <4>1
      <4>3. blocks'[b] = blocks[b] /\ blocks[b].used <= blocks[b].cap
        BY <1>2, <1>4, <3>2, <4>2
      <4>4. QED
        BY <4>2, <4>3 DEF IInv, Rounded
    <3>3. QED
      BY <3>1, <3>2
  <2>2. QED
    BY <1>4, <1>5, <1>6, <2>1 DEF TypeOK, Rounded
<1>11. ASSUME NEW i \in DOMAIN objects
      PROVE  /\ objects[i].block \in DOMAIN blocks' /\ objects[i].at % Word = 0
             /\ objects[i].at + objects[i].size <= blocks'[objects[i].block].used
             /\ Before(objects[i], new)
  <2>1. /\ objects[i].block \in DOMAIN blocks /\ objects[i].at % Word = 0
        /\ objects[i].at + objects[i].size <= blocks[objects[i].block].used
    BY <1>11 DEF IInv, Placed
  <2>2. objects[i].block \in Nat /\ objects[i].at \in Nat /\ objects[i].size \in Nat
    BY <1>6, <1>11, ObjectFields
  <2>3. /\ objects[i].block \in 1 .. n /\ blocks[objects[i].block].used \in Nat
        /\ blocks[objects[i].block].used <= blocks'[objects[i].block].used
    BY <1>9, <2>1
  <2>4. blocks'[objects[i].block].used \in Nat
    BY <1>4, <2>3, BlockFields
  <2>5. Before(objects[i], new)
    <3>1. CASE objects[i].block = n
      BY <1>2, <1>7, <1>8, <2>1, <3>1 DEF Before
    <3>2. CASE objects[i].block # n
      <4>1. n \in Nat /\ objects[i].block \in 1 .. n
        BY <1>2, <2>3
      <4>2. objects[i].block < n
        BY <3>2, <4>1
      <4>3. QED
        BY <1>7, <4>2 DEF Before
    <3>3. QED
      BY <3>1, <3>2
  <2>6. QED
    BY <1>4, <2>1, <2>2, <2>3, <2>4, <2>5
<1>12. Placed'
  <2>1. new.block \in DOMAIN blocks' /\ new.at % Word = 0 /\ new.at + new.size <= blocks'[new.block].used
    <3>1. n \in DOMAIN blocks' /\ blocks'[n].used = at + need
      <4>1. n \in Nat /\ n > 0
        BY <1>2
      <4>2. n \in 1 .. n
        BY <4>1
      <4>3. QED
        BY <1>4, <4>2
    <3>2. at + size <= at + need
      BY <1>1, <1>3
    <3>3. QED
      BY <1>3, <1>7, <3>1, <3>2
  <2>2. ASSUME NEW i \in DOMAIN objects'
        PROVE  /\ objects'[i].block \in DOMAIN blocks' /\ objects'[i].at % Word = 0
               /\ objects'[i].at + objects'[i].size <= blocks'[objects'[i].block].used
    <3>1. CASE i = Len(objects) + 1
      BY <1>6, <2>1, <3>1
    <3>2. CASE i \in DOMAIN objects
      BY <1>6, <1>11, <3>2
    <3>3. QED
      BY <1>6, <3>1, <3>2
  <2>3. QED
    BY <2>2 DEF Placed
<1>13. Stacked'
  BY <1>6, <1>11 DEF IInv, Stacked
<1>14. ASSUME NEW k \in DOMAIN marks PROVE Keeps(marks'[k], blocks', objects')
  <2> DEFINE m == marks[k]
  <2>1. m \in Mark /\ Keeps(m, blocks, objects)
    BY <1>5, Stacks DEF IInv, Nested
  <2>2. marks' = marks
    OBVIOUS
  <2> HIDE DEF m
  <2>3. m.block \in Nat /\ m.used \in Nat /\ m.objects \in Nat
    BY <2>1, MarkFields
  <2>4. /\ m.block <= old /\ m.objects <= Len(objects)
        /\ m.block > 0 => m.used <= blocks[m.block].used
    BY <2>1 DEF Keeps, old
  <2>5. m.block <= Len(blocks') /\ m.objects <= Len(objects')
    <3>1. old \in Nat /\ n \in Nat /\ old <= n /\ Len(blocks') = n
      <4>1. old \in Nat /\ n \in Nat /\ (old = n \/ old = n - 1)
        BY <1>2
      <4>2. Len(blocks') = n
        BY <1>4
      <4>3. QED
        BY <4>1, <4>2
    <3>2. Len(objects) \in Nat /\ Len(objects') = Len(objects) + 1
      BY <1>6
    <3>3. m.block <= Len(blocks')
      BY <2>3, <2>4, <3>1
    <3>4. QED
      BY <2>3, <2>4, <3>2, <3>3
  <2>6. ASSUME NEW b \in 1 .. m.block, b < m.block
        PROVE  blocks'[b] = blocks[b]
    <3>1. /\ old \in Nat /\ n \in Nat /\ DOMAIN blocks = 1 .. old
          /\ old = n \/ old = n - 1
      BY <1>2
    <3>2. b \in Nat /\ b > 0 /\ b < old
      <4>1. b \in Nat /\ b > 0
        BY <2>3
      <4>2. QED
        BY <2>3, <2>4, <2>6, <3>1, <4>1
    <3>3. b \in DOMAIN blocks /\ b \in 1 .. n /\ b # n
      BY <3>1, <3>2
    <3>4. QED
      BY <1>2, <1>4, <3>3
  <2>7. ASSUME m.block > 0
        PROVE  blocks'[m.block].cap = blocks[m.block].cap /\ m.used <= blocks'[m.block].used
    <3>1. m.block \in DOMAIN blocks
      <4>1. old \in Nat /\ DOMAIN blocks = 1 .. old
        BY <1>2
      <4>2. QED
        BY <2>3, <2>4, <2>7, <4>1
    <3>2. /\ m.block \in 1 .. n /\ blocks[m.block].used \in Nat /\ blocks'[m.block].used \in Nat
          /\ blocks[m.block].used <= blocks'[m.block].used
          /\ blocks'[m.block].cap = blocks[m.block].cap
      BY <1>4, <1>9, <3>1, BlockFields
    <3>3. QED
      BY <2>3, <2>4, <2>7, <3>2
  <2>8. \A i \in 1 .. m.objects : objects'[i] = objects[i]
    BY <1>6, <2>3, <2>4
  <2>9. Keeps(m, blocks', objects')
    BY <2>1, <2>5, <2>6, <2>7, <2>8, KeepsPreserved
  <2>10. QED
    BY <2>2, <2>9 DEF m
<1>15. QED
  BY <1>5, <1>10, <1>12, <1>13, <1>14 DEF IInv, Nested

LEMMA AllocIInv ==
  ASSUME IInv, NEW size \in Sizes, ms_alloc(size)
  PROVE  IInv'
<1>1. Align(size) \in Nat
  BY AlignRounds
<1>2. blocks \in Seq(Block) /\ marks' = marks
  BY DEF IInv, TypeOK, ms_alloc
<1>3. CASE Fits(Align(size)) /\ Take(blocks, Align(size), size)
  <2>1. Room(blocks, Align(size))
    BY <1>2, <1>3 DEF Fits, Top, Room
  <2>2. QED
    BY <1>2, <1>3, <2>1, TakeIInv
<1>4. CASE Take(Append(blocks, new_block(Align(size))), Align(size), size)
  <2> DEFINE b     == new_block(Align(size))
             stack == Append(blocks, b)
  <2>1. b \in Block /\ Align(size) <= b.cap /\ b.used = 0
    BY <1>1, NewBlock
  <2>2. /\ stack \in Seq(Block) /\ Len(stack) = Len(blocks) + 1 /\ stack[Len(stack)] = b /\ stack # <<>>
        /\ \A c \in DOMAIN blocks : stack[c] = blocks[c]
    BY <1>2, <2>1
  <2>3. stack[Len(stack)].used + Align(size) <= stack[Len(stack)].cap
    BY <1>1, <2>1, <2>2
  <2>4. Room(stack, Align(size))
    BY <2>1, <2>2, <2>3 DEF Room
  <2>5. QED
    BY <1>2, <1>4, <2>4, TakeIInv
<1>5. CASE UNCHANGED <<blocks, objects>>
  BY <1>2, <1>5 DEF IInv, TypeOK, Rounded, Placed, Stacked, Nested, Keeps
<1>6. QED
  BY <1>3, <1>4, <1>5 DEF ms_alloc

-----------------------------------------------------------------------------
LEMMA MarkIInv ==
  ASSUME IInv, mem_mark
  PROVE  IInv'
<1> DEFINE n    == Len(blocks)
           used == IF n = 0 THEN 0 ELSE blocks[n].used
           new  == [block |-> n, used |-> used, blocks |-> blocks, objects |-> Len(objects)]
<1>1. /\ blocks \in Seq(Block) /\ objects \in Seq(Object) /\ marks \in Seq(Mark)
      /\ UNCHANGED <<blocks, objects>>
  BY DEF IInv, TypeOK, mem_mark
<1>2. n \in Nat /\ used \in Nat /\ (n = 0 => used = 0) /\ (n > 0 => used = blocks[n].used /\ n \in DOMAIN blocks)
  BY <1>1, Stacks, BlockFields DEF IInv
<1>3. marks' = Append(marks, new)
  BY DEF mem_mark, Top
<1>4. new.block = n /\ new.used = used /\ new.blocks = blocks /\ new.objects = Len(objects)
  OBVIOUS
<1>5. new \in Mark
  BY <1>1, <1>2, Stacks DEF Mark, IInv
<1> HIDE DEF n, used, new
<1>6. /\ DOMAIN marks' = 1 .. Len(marks) + 1 /\ DOMAIN marks = 1 .. Len(marks) /\ Len(marks) \in Nat
      /\ marks'[Len(marks) + 1] = new /\ \A k \in DOMAIN marks : marks'[k] = marks[k] /\ marks[k] \in Mark
      /\ marks' \in Seq(Mark)
  BY <1>1, <1>3, <1>5
<1>7. TypeOK' /\ Rounded' /\ Placed' /\ Stacked'
  BY <1>1, <1>6 DEF IInv, TypeOK, Rounded, Placed, Stacked
<1>8. Keeps(new, blocks, objects)
  <2>1. n > 0 => used % Word = 0 /\ blocks[n] = [cap |-> blocks[n].cap, used |-> used]
    BY <1>2, Stacks, BlockFields DEF IInv, Rounded
  <2>2. ASSUME NEW i \in 1 .. Len(objects)
        PROVE  Inside(objects[i], new)
    <3>1. i \in DOMAIN objects /\ objects[i] \in Object
      BY Stacks DEF IInv
    <3>2. /\ objects[i].block \in DOMAIN blocks
          /\ objects[i].at + objects[i].size <= blocks[objects[i].block].used
      BY <3>1 DEF IInv, Placed
    <3>3. objects[i].block \in 1 .. n
      BY <3>2, Stacks DEF IInv, n
    <3>4. CASE objects[i].block = n
      <4>1. blocks[n].used = used
        BY <1>2, <3>3, <3>4
      <4>2. QED
        BY <1>4, <3>2, <3>4, <4>1 DEF Inside
    <3>5. CASE objects[i].block # n
      BY <1>2, <1>4, <3>3, <3>5 DEF Inside
    <3>6. QED
      BY <3>4, <3>5
  <2>3. new.block <= Len(blocks) /\ Len(new.blocks) = new.block /\ new.objects <= Len(objects)
    BY <1>2, <1>4, Stacks DEF n, IInv
  <2>4. QED
    BY <1>2, <1>4, <2>1, <2>2, <2>3 DEF Keeps
<1>9. ASSUME NEW k \in DOMAIN marks PROVE Keeps(marks[k], blocks, objects) /\ Within(marks[k], new)
  <2>1. Keeps(marks[k], blocks, objects) /\ marks[k] \in Mark
    BY <1>6 DEF IInv, Nested
  <2>2. marks[k].block <= n /\ marks[k].objects <= Len(objects)
    BY <2>1 DEF Keeps, n
  <2>3. marks[k].block = n => marks[k].used <= used
    <3>1. CASE n = 0
      BY <1>2, <2>1, <3>1 DEF Keeps
    <3>2. CASE n > 0
      BY <1>2, <2>1, <3>2 DEF Keeps
    <3>3. QED
      BY <1>2, <3>1, <3>2
  <2>4. QED
    BY <1>4, <2>1, <2>2, <2>3 DEF Within
<1>10. \A k \in DOMAIN marks' : Keeps(marks'[k], blocks, objects)
  BY <1>6, <1>8, <1>9
<1>11. \A k, l \in DOMAIN marks' : k < l => Within(marks'[k], marks'[l])
  BY <1>6, <1>9 DEF IInv, Nested
<1>12. QED
  BY <1>1, <1>7, <1>10, <1>11 DEF IInv, Nested

(* The newest mark is popped: its own block is cut back, and what was behind
   it is gone. *)
LEMMA PopIInv ==
  ASSUME IInv, mem_pop
  PROVE  IInv' /\ blocks' = marks[Len(marks)].blocks
<1> DEFINE l    == Len(marks)
           mark == marks[l]
           n    == mark.block
           kept == SubSeq(blocks, 1, n)
<1>1. /\ blocks \in Seq(Block) /\ objects \in Seq(Object) /\ marks \in Seq(Mark) /\ marks # <<>>
      /\ marks' = SubSeq(marks, 1, l - 1)
      /\ objects' = SubSeq(objects, 1, mark.objects)
      /\ n = 0 => blocks' = kept
      /\ n # 0 => blocks' = [kept EXCEPT ![n] = [cap |-> kept[n].cap, used |-> mark.used]]
  BY DEF IInv, TypeOK, mem_pop
<1>2. l \in Nat /\ l > 0 /\ l \in DOMAIN marks
  BY <1>1
<1>3. mark \in Mark /\ Keeps(mark, blocks, objects)
  BY <1>2, Stacks DEF IInv, Nested
<1> HIDE DEF mark
<1>4. /\ n \in Nat /\ mark.used \in Nat /\ mark.objects \in Nat /\ mark.blocks \in Seq(Block)
      /\ n <= Len(blocks) /\ mark.objects <= Len(objects) /\ Len(mark.blocks) = n
      /\ n > 0 => mark.used <= blocks[n].used /\ mark.used % Word = 0
      /\ n > 0 => mark.blocks[n] = [cap |-> blocks[n].cap, used |-> mark.used]
      /\ \A b \in 1 .. n : b < n => mark.blocks[b] = blocks[b]
      /\ \A i \in 1 .. mark.objects : Inside(objects[i], mark)
  BY <1>3, MarkFields DEF Keeps
<1>5. mark.block = n
  OBVIOUS
<1> HIDE DEF n, l
<1>6. /\ DOMAIN marks = 1 .. l /\ DOMAIN marks' = 1 .. l - 1 /\ marks' \in Seq(Mark) /\ Len(marks') = l - 1
      /\ \A k \in 1 .. l - 1 : marks'[k] = marks[k] /\ marks[k] \in Mark
  <2>1. DOMAIN marks = 1 .. l /\ \A k \in 1 .. l - 1 : marks[k] \in Mark
    BY <1>2, Stacks DEF l, IInv
  <2>2. /\ SubSeq(marks, 1, l - 1) \in Seq(Mark)
        /\ Len(SubSeq(marks, 1, l - 1)) = IF 1 <= l - 1 THEN l - 1 - 1 + 1 ELSE 0
        /\ \A k \in 1 .. l - 1 - 1 + 1 : SubSeq(marks, 1, l - 1)[k] = marks[1 + k - 1]
    BY <1>2, <2>1, SubSeqProperties
  <2>3. marks' \in Seq(Mark) /\ Len(marks') = l - 1 /\ \A k \in 1 .. l - 1 : marks'[k] = marks[k]
    BY <1>1, <1>2, <2>2
  <2>4. QED
    BY <2>1, <2>3
<1>7. /\ DOMAIN objects' = 1 .. mark.objects /\ objects' \in Seq(Object) /\ Len(objects') = mark.objects
      /\ \A i \in 1 .. mark.objects : i \in DOMAIN objects /\ objects'[i] = objects[i] /\ objects[i] \in Object
  BY <1>1, <1>4, Stacks DEF IInv
<1>8. /\ kept \in Seq(Block) /\ Len(kept) = n /\ DOMAIN kept = 1 .. n
      /\ \A b \in 1 .. n : kept[b] = blocks[b] /\ b \in DOMAIN blocks /\ blocks[b] \in Block
  BY <1>1, <1>4, Stacks DEF IInv
<1> HIDE DEF kept
<1>9. /\ blocks' \in Seq(Block) /\ Len(blocks') = n /\ DOMAIN blocks' = 1 .. n
      /\ \A b \in 1 .. n : b # n => blocks'[b] = blocks[b]
      /\ n > 0 => blocks'[n].cap = blocks[n].cap /\ blocks'[n].used = mark.used
      /\ n > 0 => blocks'[n] = [cap |-> blocks[n].cap, used |-> mark.used]
  <2>1. CASE n = 0
    BY <1>1, <1>8, <2>1
  <2>2. CASE n # 0
    <3> DEFINE cut == [cap |-> kept[n].cap, used |-> mark.used]
    <3>1. n \in 1 .. n /\ kept[n] = blocks[n] /\ blocks[n].cap \in Nat
      BY <1>4, <1>8, <2>2, BlockFields
    <3>2. cut \in Block /\ cut.cap = blocks[n].cap /\ cut.used = mark.used
      BY <1>4, <3>1, BlockMade
    <3>3. blocks' = [kept EXCEPT ![n] = cut]
      BY <1>1, <2>2
    <3>4. cut = [cap |-> blocks[n].cap, used |-> mark.used]
      BY <3>1
    <3> HIDE DEF cut
    <3>5. blocks' \in Seq(Block) /\ Len(blocks') = n
      <4>1. n \in 1 .. Len(kept)
        BY <1>8, <3>1
      <4>2. [kept EXCEPT ![n] = cut] \in Seq(Block) /\ Len([kept EXCEPT ![n] = cut]) = Len(kept)
        BY <1>8, <3>2, <4>1, ExceptSeq
      <4>3. QED
        BY <1>8, <3>3, <4>2
    <3>6. \A b \in 1 .. n : blocks'[b] = IF b = n THEN cut ELSE kept[b]
      BY <1>8, <3>3
    <3>7. QED
      BY <1>4, <1>8, <3>1, <3>2, <3>4, <3>5, <3>6
  <2>3. QED
    BY <2>1, <2>2
<1>10. blocks' = mark.blocks
  <2>1. \A b \in 1 .. n : blocks'[b] = mark.blocks[b]
    BY <1>4, <1>9
  <2>2. QED
    BY <1>4, <1>9, <2>1
<1>11. \A b \in 1 .. n : /\ blocks[b].cap \in Nat /\ blocks[b].used \in Nat
                         /\ blocks[b].used <= blocks[b].cap /\ blocks[b].used % Word = 0
  BY <1>8, BlockFields DEF IInv, TypeOK, Rounded
<1>12. TypeOK' /\ Rounded'
  <2>1. ASSUME NEW b \in 1 .. n
        PROVE  blocks'[b].used <= blocks'[b].cap /\ blocks'[b].used % Word = 0
    <3>1. CASE b = n
      BY <1>4, <1>9, <1>11, <3>1
    <3>2. CASE b # n
      BY <1>9, <1>11, <3>2
    <3>3. QED
      BY <3>1, <3>2
  <2>2. QED
    BY <1>6, <1>7, <1>9, <2>1 DEF TypeOK, Rounded
<1>13. Placed'
  <2>1. ASSUME NEW i \in 1 .. mark.objects
        PROVE  /\ objects[i].block \in 1 .. n /\ objects[i].at % Word = 0
               /\ objects[i].at + objects[i].size <= blocks'[objects[i].block].used
    <3>1. /\ objects[i].block \in Nat /\ objects[i].block \in DOMAIN blocks /\ objects[i].at % Word = 0
          /\ objects[i].at + objects[i].size <= blocks[objects[i].block].used
      BY <1>7, ObjectFields DEF IInv, Placed
    <3>2. objects[i].block < n \/ (objects[i].block = n /\ objects[i].at + objects[i].size <= mark.used)
      BY <1>4, <1>5 DEF Inside
    <3>3. objects[i].block \in 1 .. n
      BY <1>4, <3>1, <3>2, Stacks DEF IInv
    <3>4. CASE objects[i].block = n
      <4>1. objects[i].at + objects[i].size <= mark.used
        BY <1>4, <3>2, <3>4
      <4>2. blocks'[n].used = mark.used
        BY <1>4, <1>9, <3>3, <3>4
      <4>3. QED
        BY <3>1, <3>3, <3>4, <4>1, <4>2
    <3>5. CASE objects[i].block # n
      BY <1>9, <3>1, <3>3, <3>5
    <3>6. QED
      BY <3>4, <3>5
  <2>2. QED
    BY <1>7, <1>9, <2>1 DEF Placed
<1>14. Stacked'
  BY <1>7 DEF IInv, Stacked
<1>15. ASSUME NEW k \in 1 .. l - 1 PROVE Keeps(marks'[k], blocks', objects')
  <2> DEFINE m == marks[k]
  <2>1. m \in Mark /\ Keeps(m, blocks, objects) /\ Within(m, mark)
    BY <1>2, <1>6 DEF IInv, Nested, mark
  <2>2. marks'[k] = marks[k] /\ k \in DOMAIN marks'
    BY <1>6
  <2> HIDE DEF m
  <2>3. /\ m.block \in Nat /\ m.used \in Nat /\ m.objects \in Nat
        /\ m.block <= n /\ m.objects <= mark.objects /\ (m.block = n => m.used <= mark.used)
    BY <1>5, <2>1, MarkFields DEF Within
  <2>4. m.block > 0 => m.used <= blocks[m.block].used
    BY <2>1 DEF Keeps
  <2>5. m.block <= Len(blocks') /\ m.objects <= Len(objects')
    BY <1>7, <1>9, <2>3
  <2>6. \A b \in 1 .. m.block : b < m.block => blocks'[b] = blocks[b]
    BY <1>4, <1>9, <2>3
  <2>7. ASSUME m.block > 0
        PROVE  blocks'[m.block].cap = blocks[m.block].cap /\ m.used <= blocks'[m.block].used
    <3>1. CASE m.block = n
      <4>1. n > 0
        BY <2>7, <3>1
      <4>2. QED
        BY <1>9, <2>3, <3>1, <4>1
    <3>2. CASE m.block # n
      <4>1. blocks'[m.block] = blocks[m.block]
        BY <1>4, <1>9, <2>3, <2>7, <3>2
      <4>2. QED
        BY <2>4, <2>7, <4>1
    <3>3. QED
      BY <3>1, <3>2
  <2>8. \A i \in 1 .. m.objects : objects'[i] = objects[i]
    BY <1>4, <1>7, <2>3
  <2>9. Keeps(m, blocks', objects')
    BY <2>1, <2>5, <2>6, <2>7, <2>8, KeepsPreserved
  <2>10. QED
    BY <2>2, <2>9 DEF m
<1>16. Nested'
  <2>1. \A k \in DOMAIN marks' : Keeps(marks'[k], blocks', objects')
    BY <1>6, <1>15
  <2>2. \A j, k \in DOMAIN marks' : j < k => Within(marks'[j], marks'[k])
    BY <1>2, <1>6 DEF IInv, Nested
  <2>3. QED
    BY <2>1, <2>2 DEF Nested
<1>17. QED
  BY <1>10, <1>12, <1>13, <1>14, <1>16 DEF IInv, mark, l

-----------------------------------------------------------------------------
LEMMA InitIInv ==
  ASSUME Init
  PROVE  IInv
<1> DEFINE b == new_block(MinBlock)
<1>1. b \in Block /\ b.used = 0 /\ b.cap \in Nat
  BY ArenaAssumption, NewBlock, BlockFields
<1>2. objects = <<>> /\ marks = <<>> /\ (blocks = <<>> \/ blocks = <<b>>)
  BY DEF Init
<1> HIDE DEF b
<1>3. 0 % Word = 0
  BY ArenaAssumption, SMTT(30)
<1>4. blocks \in Seq(Block) /\ \A c \in DOMAIN blocks : blocks[c] = b
  <2>1. CASE blocks = <<>>
    BY <2>1
  <2>2. CASE blocks = <<b>>
    BY <1>1, <2>2
  <2>3. QED
    BY <1>2, <2>1, <2>2
<1>5. \A c \in DOMAIN blocks : blocks[c].used <= blocks[c].cap /\ blocks[c].used % Word = 0
  BY <1>1, <1>3, <1>4
<1>6. QED
  BY <1>2, <1>4, <1>5 DEF IInv, TypeOK, Rounded, Placed, Stacked, Nested

(* An arena that is begun, or given back, has no marks; it has one block with
   nothing in it, or none. *)
LEMMA InitialisedIInv ==
  ASSUME IInv, mem_init
  PROVE  IInv'
<1> DEFINE b == new_block(MinBlock)
<1>1. b \in Block /\ b.used = 0 /\ b.cap \in Nat
  BY ArenaAssumption, NewBlock, BlockFields
<1>2. objects' = objects /\ marks' = marks /\ marks = <<>> /\ blocks = <<>> /\ blocks' = <<b>>
  BY DEF mem_init
<1> HIDE DEF b
<1>3. 0 % Word = 0
  BY ArenaAssumption, SMTT(30)
<1>4. objects \in Seq(Object) /\ objects = <<>>
  <2>1. objects \in Seq(Object) /\ DOMAIN objects = 1 .. Len(objects) /\ Len(objects) \in Nat
    BY Stacks DEF IInv, TypeOK
  <2>2. 1 \notin DOMAIN objects
    <3>1. DOMAIN blocks = {}
      BY <1>2
    <3>2. QED
      BY <3>1 DEF IInv, Placed
  <2>3. Len(objects) = 0
    BY <2>1, <2>2
  <2>4. QED
    BY <2>1, <2>3, EmptySeq
<1>5. blocks' \in Seq(Block) /\ \A c \in DOMAIN blocks' : blocks'[c] = b
  BY <1>1, <1>2
<1>6. \A c \in DOMAIN blocks' : blocks'[c].used <= blocks'[c].cap /\ blocks'[c].used % Word = 0
  BY <1>1, <1>3, <1>5
<1>7. QED
  BY <1>2, <1>4, <1>5, <1>6 DEF IInv, TypeOK, Rounded, Placed, Stacked, Nested

LEMMA ResetIInv ==
  ASSUME IInv, mem_reset
  PROVE  IInv'
<1>1. blocks' = <<>> /\ objects' = <<>> /\ marks' = <<>>
  BY DEF mem_reset
<1>2. QED
  BY <1>1 DEF IInv, TypeOK, Rounded, Placed, Stacked, Nested

(* Every step keeps the invariant, and the ones that pop are exact. *)
LEMMA NextIInv ==
  ASSUME IInv, [Next]_vars
  PROVE  /\ IInv'
         /\ Len(marks') < Len(marks) => blocks' = marks[Len(marks)].blocks
<1>1. Len(marks) \in Nat
  BY Stacks DEF IInv
<1>2. CASE mem_init
  <2>1. marks' = marks
    BY <1>2 DEF mem_init
  <2>2. QED
    BY <1>1, <1>2, <2>1, InitialisedIInv
<1>3. CASE mem_reset
  <2>1. marks' = marks
    BY <1>3 DEF mem_reset
  <2>2. QED
    BY <1>1, <1>3, <2>1, ResetIInv
<1>4. CASE mem_mark
  <2>1. marks \in Seq(Mark)
    BY DEF IInv, TypeOK
  <2>2. PICK m : marks' = Append(marks, m)
    BY <1>4 DEF mem_mark
  <2>3. Len(marks') = Len(marks) + 1
    BY <2>1, <2>2
  <2>4. QED
    BY <1>1, <1>4, <2>3, MarkIInv
<1>5. CASE mem_pop
  BY <1>5, PopIInv
<1>6. ASSUME NEW size \in Sizes, ms_alloc(size)
      PROVE  IInv' /\ marks' = marks
  BY <1>6, AllocIInv DEF ms_alloc
<1>7. CASE UNCHANGED vars
  BY <1>1, <1>7 DEF vars, IInv, TypeOK, Rounded, Placed, Stacked, Nested
<1>8. QED
  BY <1>1, <1>2, <1>3, <1>4, <1>5, <1>6, <1>7 DEF Next

LEMMA Inductive == Spec => []IInv
<1>1. Init => IInv
  BY InitIInv
<1>2. IInv /\ [Next]_vars => IInv'
  BY NextIInv
<1>3. QED
  BY <1>1, <1>2, PTL DEF Spec

(* No block is filled beyond its capacity (mem.c:61,68). *)
THEOREM ArenaTypeOK == Spec => []TypeOK
<1>1. IInv => TypeOK
  BY DEF IInv
<1>2. QED
  BY <1>1, Inductive, PTL

(* Every pointer ms_alloc has returned and nobody has released is aligned,
   lies within its block, and overlaps no other (mem.c:54-70). *)
THEOREM ObjectsDisjoint == Spec => []ObjectsAreDisjoint
<1>1. IInv => ObjectsAreDisjoint
  <2> SUFFICES ASSUME IInv PROVE ObjectsAreDisjoint
    OBVIOUS
  <2>1. \A i, j \in DOMAIN objects :
          i < j /\ objects[i].block = objects[j].block => objects[i].at + objects[i].size <= objects[j].at
    <3> SUFFICES ASSUME NEW i \in DOMAIN objects, NEW j \in DOMAIN objects,
                        i < j, objects[i].block = objects[j].block
                 PROVE  objects[i].at + objects[i].size <= objects[j].at
      OBVIOUS
    <3>1. Before(objects[i], objects[j])
      BY DEF IInv, Stacked
    <3>2. objects[i].block \in Nat
      BY Stacks, ObjectFields DEF IInv
    <3>3. QED
      BY <3>1, <3>2 DEF Before
  <2>2. QED
    BY <2>1 DEF IInv, TypeOK, Placed, ObjectsAreDisjoint
<1>2. QED
  BY <1>1, Inductive, PTL

(* mem_pop gives back everything that was allocated since its mark and nothing
   else, also when blocks were added or refused since (mem_str.c:24-36). *)
THEOREM PopIsExact == Spec => PopRestores
<1>1. IInv /\ [Next]_vars => [Len(marks') < Len(marks) => blocks' = marks[Len(marks)].blocks]_vars
  BY NextIInv
<1>2. QED
  BY <1>1, Inductive, PTL DEF Spec, PopRestores
=============================================================================
