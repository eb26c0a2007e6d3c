------------------------------- MODULE Arena -------------------------------
(***************************************************************************)
(* What is inside an arena (mem/mem.c, mem/mem_str.c): a stack of blocks,   *)
(* of which the last is mem->top, filled from the bottom and never given   *)
(* back in part, except to a mark.  Line has three arenas and looks only at *)
(* who uses which; handle_line of src/codex/src/core/loop.c has one, and    *)
(* marks and pops it for every line.                                       *)
(***************************************************************************)
EXTENDS Integers, Sequences

CONSTANTS
    Word,        \* sizeof(void *)
    MinBlock,    \* MS_MIN_BLOCK
    Sizes,       \* the sizes that are asked for
    MaxObjects,  \* bound: allocations that are alive
    MaxMarks,    \* bound: marks that are not popped
    Faults       \* whether malloc may fail

ASSUME ArenaAssumption ==
    /\ Word \in Nat \ {0} /\ MinBlock \in Nat
    /\ Sizes \subseteq Nat \ {0}
    /\ MaxObjects \in Nat /\ MaxMarks \in Nat
    /\ Faults \in BOOLEAN

VARIABLES
    blocks,   \* the blocks: [cap, used], the newest last
    objects,  \* history: what ms_alloc returned and is still alive, in order: [block, at, size]
    marks     \* the marks: [block, used], and history: the blocks and how many objects there were

vars == <<blocks, objects, marks>>

Block  == [cap : Nat, used : Nat]
Object == [block : Nat, at : Nat, size : Nat]
Mark   == [block : Nat, used : Nat, blocks : Seq(Block), objects : Nat]

TypeOK ==
    /\ blocks \in Seq(Block) /\ objects \in Seq(Object) /\ marks \in Seq(Mark)
    /\ \A i \in DOMAIN blocks : blocks[i].used <= blocks[i].cap

-----------------------------------------------------------------------------
Top == Len(blocks)     \* mem->top, 0 for NULL

new_block(need) == [cap |-> IF need < MinBlock THEN MinBlock ELSE need, used |-> 0]

Init == blocks \in {<<>>, <<new_block(MinBlock)>>} /\ objects = <<>> /\ marks = <<>>

(* mem_init, which leaves top NULL when malloc fails *)
mem_init ==
    /\ blocks = <<>> /\ marks = <<>>
    /\ blocks' = <<new_block(MinBlock)>>
    /\ UNCHANGED <<objects, marks>>

(* mem_reset; whoever resets an arena has no mark in it. *)
mem_reset ==
    /\ marks = <<>>
    /\ blocks' = <<>> /\ objects' = <<>>
    /\ UNCHANGED marks

(* Mutant: sizes are not rounded. *)
Align_bytes(size) == size

Align(size) == ((size + Word - 1) \div Word) * Word

Fits(need) == Top # 0 /\ blocks[Top].used + need <= blocks[Top].cap

(* need bytes from the end of what is used in the last of these blocks. *)
Take(stack, need, size) ==
    LET n == Len(stack) IN
    /\ blocks' = [stack EXCEPT ![n] = [cap |-> @.cap, used |-> @.used + need]]
    /\ objects' = Append(objects, [block |-> n, at |-> stack[n].used, size |-> size])

ms_alloc(size) ==
    /\ Len(objects) < MaxObjects
    /\ \/ Fits(Align(size)) /\ Take(blocks, Align(size), size)
       \/ ~ Fits(Align(size)) /\ Take(Append(blocks, new_block(Align(size))), Align(size), size)
       \/ ~ Fits(Align(size)) /\ Faults /\ UNCHANGED <<blocks, objects>>
    /\ UNCHANGED marks

mem_mark ==
    /\ Len(marks) < MaxMarks
    /\ marks' = Append(marks, [block   |-> Top,
                               used    |-> IF Top = 0 THEN 0 ELSE blocks[Top].used,
                               blocks  |-> blocks,
                               objects |-> Len(objects)])
    /\ UNCHANGED <<blocks, objects>>

(* Mutant: the mark's block is not cut back. *)
mem_pop_blocks ==
    /\ marks # <<>>
    /\ LET mark == marks[Len(marks)] IN
          /\ blocks' = SubSeq(blocks, 1, mark.block)
          /\ objects' = SubSeq(objects, 1, mark.objects)
    /\ marks' = SubSeq(marks, 1, Len(marks) - 1)

(* The newest mark: newer blocks are freed, its own is cut back. *)
mem_pop ==
    /\ marks # <<>>
    /\ LET mark == marks[Len(marks)]
           kept == SubSeq(blocks, 1, mark.block)
       IN /\ blocks' = IF mark.block = 0 THEN kept ELSE [kept EXCEPT ![mark.block] = [cap |-> @.cap, used |-> mark.used]]
          /\ objects' = SubSeq(objects, 1, mark.objects)
    /\ marks' = SubSeq(marks, 1, Len(marks) - 1)

Next ==
    \/ mem_init \/ mem_reset \/ mem_mark \/ mem_pop
    \/ \E size \in Sizes : ms_alloc(size)

Spec == Init /\ [][Next]_vars

-----------------------------------------------------------------------------
(* What ms_alloc has returned and nobody has released is memory of its own: it
   begins at a word, lies within its block, in the part that counts as used,
   and no two of them overlap, whatever was marked, popped, grown or refused
   in between (mem.c:61,69, mem_str.c:35). *)
ObjectsAreDisjoint ==
    /\ \A i \in DOMAIN objects :
          LET o == objects[i] IN
          /\ o.block \in DOMAIN blocks
          /\ o.at % Word = 0
          /\ o.at + o.size <= blocks[o.block].used /\ blocks[o.block].used <= blocks[o.block].cap
    /\ \A i, j \in DOMAIN objects :
          i < j /\ objects[i].block = objects[j].block =>
             objects[i].at + objects[i].size <= objects[j].at

(* mem_pop leaves exactly the memory that there was at its mark: what has been
   allocated since is released to the last byte, and nothing older is
   (mem_str.c:28-35). *)
PopRestores == [][Len(marks') < Len(marks) => blocks' = marks[Len(marks)].blocks]_vars
=============================================================================
