------------------------------- MODULE Buddy -------------------------------
(***************************************************************************)
(* The buddy allocator of kernel/src/memory/buddy.rs as operators on its   *)
(* state: per frame the FrameType and the order of its BuddyList node, per *)
(* order the free list.  A frame's FrameInfo is found by its number, and a *)
(* block of order o is 2^o frames starting at a multiple of 2^o.  Every    *)
(* method runs under BUDDY_ALLOCATOR's lock, so it is one step.  The loops *)
(* of split and merge are stated per order: each iteration works on its    *)
(* own free list and its own half of the block, so none reads what another *)
(* one writes.                                                             *)
(***************************************************************************)
EXTENDS Naturals, Sequences, FiniteSetsExt, SequencesExt

CONSTANTS
  NFrames,     \* frames of physical memory, a multiple of the largest block
  MAX_ORDER,
  None         \* no order: the FrameInfo holds no BuddyList node

ASSUME BuddyAssumption ==
  /\ MAX_ORDER \in Nat
  /\ NFrames \in Nat /\ NFrames % 2^MAX_ORDER = 0
  /\ None \notin Nat

Frame == 0 .. NFrames - 1
Order == 0 .. MAX_ORDER
FrameType == {"Reserved", "Buddy", "BuddyTail", "BuddyAllocated", "Slab"}

(* The frames of a block. *)
Block(f, o) == f .. f + 2^o - 1

(* FrameInfo::new_page and BuddyAllocator::init: all memory is reserved. *)
BuddyInit == [ty    |-> [f \in Frame |-> "Reserved"],
              order |-> [f \in Frame |-> None],
              heads |-> [o \in Order |-> <<>>]]

-----------------------------------------------------------------------------
(* BuddyList: a free list is circular, so what goes in before its head is  *)
(* last.                                                                   *)

insert(list, fi) == Append(list, fi)
pop_front(list) == Tail(list)
unlink(list, fi) == Remove(list, fi)

-----------------------------------------------------------------------------
(* buddy_add_range *)

(* The order of the block cut off at the start of addr .. end - 1: as far  *)
(* as the alignment of addr and what is left of the range allow.           *)
CutOrder(addr, end) ==
  Max({o \in Order : addr % 2^o = 0 /\ addr + 2^o <= end})

(* The first frames of the blocks the range is cut into, in order. *)
Cuts(addr, end) ==
  LET cuts[a \in addr .. end] ==
        IF a = end THEN <<>> ELSE <<a>> \o cuts[a + 2^CutOrder(a, end)]
  IN  cuts[addr]

AddRange(b, addr, end) ==
  LET cuts == Cuts(addr, end)
      cut  == ToSet(cuts)
  IN  [ty    |-> [f \in Frame |-> CASE f \in cut -> "Buddy"
                                    [] f \in (addr .. end - 1) \ cut -> "BuddyTail"
                                    [] OTHER -> b.ty[f]],
       order |-> [f \in Frame |-> IF f \in cut THEN CutOrder(f, end) ELSE b.order[f]],
       heads |-> [o \in Order |->
                    b.heads[o] \o SelectSeq(cuts, LAMBDA f : CutOrder(f, end) = o)]]

-----------------------------------------------------------------------------
(* BuddyAllocator::alloc *)

CanAlloc(b, order) == \E o \in order .. MAX_ORDER : b.heads[o] # <<>>

(* The order of the block alloc_min pops. *)
MinOrder(b, order) == Min({o \in order .. MAX_ORDER : b.heads[o] # <<>>})

AllocatedFrame(b, order) == Head(b.heads[MinOrder(b, order)])

(* split(): of the block fi of the given order, the upper half goes back   *)
(* to its free list until the target order is left.                        *)
Split(b, fi, order, target) ==
  LET half(f) == {o \in target .. order - 1 : f = fi + 2^o}
  IN  [ty    |-> [f \in Frame |-> IF half(f) # {} THEN "Buddy" ELSE b.ty[f]],
       order |-> [f \in Frame |-> IF f = fi THEN target
                                  ELSE IF half(f) # {} THEN Min(half(f)) ELSE b.order[f]],
       heads |-> [o \in Order |-> IF o \in target .. order - 1
                                  THEN insert(b.heads[o], fi + 2^o) ELSE b.heads[o]]]

BuddyAlloc(b, order) ==
  LET o  == MinOrder(b, order)
      fi == Head(b.heads[o])
      s  == Split([b EXCEPT !.heads[o] = pop_front(@)], fi, o, order)
  IN  [s EXCEPT !.ty[fi] = "BuddyAllocated"]

-----------------------------------------------------------------------------
(* BuddyAllocator::free *)

(* sort_buddies' lower: the block of order o that frame f lies in. *)
Base(f, o) == f - (f % 2^o)

(* get_buddy, of the block of order o that frame f lies in. *)
BuddyOf(f, o) ==
  IF (f \div 2^o) % 2 = 0 THEN Base(f, o) + 2^o ELSE Base(f, o) - 2^o

(* Bug: the order of the buddy is not compared. *)
BugMergesAnyOrder(b, fi, o) == o < MAX_ORDER /\ b.ty[BuddyOf(fi, o)] = "Buddy"

(* An iteration of merge() joins the block with its buddy. *)
Merges(b, fi, o) ==
  /\ o < MAX_ORDER
  /\ b.ty[BuddyOf(fi, o)] = "Buddy"
  /\ b.order[BuddyOf(fi, o)] = o

(* The order at which merge() leaves its loop. *)
MergedOrder(b, fi, order) == Min({o \in order .. MAX_ORDER : ~ Merges(b, fi, o)})

(* ... and where it would panic instead. *)
MergePanics(b, fi, order) ==
  LET o == MergedOrder(b, fi, order)
  IN  o < MAX_ORDER /\ b.ty[BuddyOf(fi, o)] = "BuddyTail"

(* merge(): every buddy joined is unlinked, and the higher of each pair    *)
(* becomes a tail.  The free list gets the merged block.                   *)
BuddyFree(b, fi, order) ==
  LET m      == MergedOrder(b, fi, order)
      joined == order .. m - 1
      higher == {Base(fi, o + 1) + 2^o : o \in joined}
      merged == Base(fi, m)
  IN  [ty    |-> [f \in Frame |-> CASE f = merged -> "Buddy"
                                    [] f \in higher -> "BuddyTail"
                                    [] OTHER -> b.ty[f]],
       order |-> [b.order EXCEPT ![merged] = m],
       heads |-> [o \in Order |->
                    CASE o \in joined -> unlink(b.heads[o], BuddyOf(fi, o))
                      [] o = m -> insert(b.heads[o], merged)
                      [] OTHER -> b.heads[o]]]
=============================================================================
