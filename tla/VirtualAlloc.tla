----------------------------- MODULE VirtualAlloc -----------------------------
(***************************************************************************)
(* The virtual allocator of kernel/src/memory/virtual_alloc.rs: SpanAlloc, *)
(* which finds room for a span in a search tree augmented with the gaps in *)
(* it, and VirtualAllocator, which maps new frames between the guards of a *)
(* span and takes everything back when memory runs out half way.  A step   *)
(* is one iteration of a loop; VIRTUAL_ALLOCATOR is locked throughout.     *)
(*                                                                         *)
(* The tree is the set of its spans.  Which of them is the root of a       *)
(* subtree depends on its history (RbTree.tla); find_gap may meet any.     *)
(***************************************************************************)
EXTENDS Naturals, FiniteSetsExt

CONSTANTS
  RangeStart, RangeEnd,   \* VIRTUAL_ALLOCATOR_START, VIRTUAL_ALLOCATOR_END
  FRAME_SIZE,
  TableSize,              \* bytes of address space one page table covers
  Sizes,                  \* sizes of layouts, in bytes; none is aligned to more
                          \* than a page, as alloc asserts
  Guards,                 \* guard sizes of AllocSettings, in bytes; callers ask for
                          \* none or for a page
  NFrames                 \* bound: frames of memory

ASSUME VirtualAllocAssumption ==
  /\ RangeStart \in Nat /\ RangeEnd \in Nat /\ RangeStart < RangeEnd
  /\ FRAME_SIZE \in Nat \ {0} /\ RangeStart % FRAME_SIZE = 0 /\ RangeEnd % FRAME_SIZE = 0
  /\ TableSize \in Nat \ {0} /\ TableSize % FRAME_SIZE = 0
  /\ Sizes \subseteq Nat \ {0} /\ Guards \subseteq {0, FRAME_SIZE}
  /\ NFrames \in Nat

VARIABLES
  spans,    \* SpanAlloc.spans
  mapped,   \* pages of the range that are mapped, each to a frame of its own
  tables,   \* page tables there are, by the part of the range they cover
  frames,   \* frames the buddy allocator has left
  others,   \* frames it has given to others
  live,     \* addresses callers hold
  pc,       \* "idle", or in the loop of find_gap, try_map_pages or unmap_pages,
            \* "insert" in between, in activate(), or in the panic handler
  call,     \* alloc's settings and size, later its range and the next page
  walk      \* find_gap's subtree, tree_min and tree_max

virtualVars == <<spans, mapped, tables, frames, others, live, pc, call, walk>>

NoCall == [size |-> 0, bottom |-> 0, top |-> 0, gap |-> 0, start |-> 0, end |-> 0, next |-> 0]
NoWalk == [tree |-> {}, min |-> 0, max |-> 0]

VirtualInit ==
  /\ spans = {}
  /\ mapped = {}
  /\ tables = {}
  /\ frames = NFrames
  /\ others = 0
  /\ live = {}
  /\ pc = "idle"
  /\ call = NoCall
  /\ walk = NoWalk

next_multiple_of(n) == n + ((FRAME_SIZE - (n % FRAME_SIZE)) % FRAME_SIZE)

-----------------------------------------------------------------------------
(* SpanAlloc *)

Left(tree, node) == {s \in tree : s.start < node.start}
Right(tree, node) == {s \in tree : s.start > node.start}

(* Bug: the gap between the node and its right subtree is left out. *)
BugForgetsGap(node, left, right) ==
  [min_addr |-> Min({node.start} \cup {l.min_addr : l \in left}),
   max_addr |-> Max({node.end} \cup {r.max_addr : r \in right}),
   max_gap  |-> Max({0} \cup {c.max_gap : c \in left \cup right}
                        \cup {node.start - l.max_addr : l \in left})]

(* MaxGap::augment, from the values of the children; an Option is a set of *)
(* at most one element.                                                    *)
augment(node, left, right) ==
  [min_addr |-> Min({node.start} \cup {l.min_addr : l \in left}),
   max_addr |-> Max({node.end} \cup {r.max_addr : r \in right}),
   max_gap  |-> Max({0} \cup {c.max_gap : c \in left \cup right}
                        \cup {node.start - l.max_addr : l \in left}
                        \cup {r.min_addr - node.end : r \in right})]

(* What the root of a subtree may be augmented with, over all its shapes. *)
RECURSIVE Augments(_)
Augments(tree) ==
  IF tree = {} THEN {{}}
  ELSE UNION {{{augment(node, l, r)} : l \in Augments(Left(tree, node)),
                                       r \in Augments(Right(tree, node))} : node \in tree}

Found(addr) == pc' = "insert" /\ call' = [call EXCEPT !.gap = addr] /\ walk' = NoWalk

Descend(tree, min, max) ==
  walk' = [tree |-> tree, min |-> min, max |-> max] /\ UNCHANGED <<pc, call>>

Exhausted == pc' = "idle" /\ call' = NoCall /\ walk' = NoWalk

(* An iteration of find_gap at the root of a subtree, with the values its  *)
(* children are augmented with; its tests in order.  As long as the spans  *)
(* lie in the range no difference is negative.                             *)
FindGapAt(node, left, right) ==
  LET size == call.size
      left_end    == IF left = {} THEN walk.min ELSE Max({l.max_addr : l \in left})
      right_start == IF right = {} THEN walk.max ELSE Min({r.min_addr : r \in right})
      fits == <<\E l \in left : l.min_addr - walk.min >= size,
                \E l \in left : l.max_gap >= size,
                node.start - left_end >= size,
                right_start - node.end >= size,
                \E r \in right : r.max_gap >= size,
                \E r \in right : walk.max - r.max_addr >= size>>
      first(i) == fits[i] /\ \A j \in 1 .. i - 1 : ~ fits[j]
  IN  \/ first(1) /\ Found(walk.min)
      \/ first(2) /\ Descend(Left(walk.tree, node), walk.min, node.start)
      \/ first(3) /\ Found(left_end)
      \/ first(4) /\ Found(node.end)
      \/ first(5) /\ Descend(Right(walk.tree, node), node.end, walk.max)
      \/ first(6) /\ \E r \in right : Found(r.max_addr)
      \/ (\A i \in 1 .. 6 : ~ fits[i]) /\ Exhausted

FindGap ==
  /\ pc = "find"
  /\ \E node \in walk.tree :
       \E left \in Augments(Left(walk.tree, node)), right \in Augments(Right(walk.tree, node)) :
         FindGapAt(node, left, right)
  /\ UNCHANGED <<spans, mapped, tables, frames, others, live>>

Containing(addr) == CHOOSE s \in spans : s.start <= addr /\ addr < s.end
FreeSpan(addr) == spans' = spans \ {Containing(addr)}

-----------------------------------------------------------------------------
(* VirtualAllocator *)

(* alloc, up to the loop of find_gap, which an empty tree does not enter.  *)
(* The layout has been aligned to pages.                                   *)
Alloc(size, bottom, top) ==
  /\ pc = "idle"
  /\ LET total == next_multiple_of(size) + next_multiple_of(bottom) + next_multiple_of(top)
         c == [NoCall EXCEPT !.size = total, !.bottom = bottom, !.top = top]
     IN  \/ /\ spans = {}
            /\ pc' = "insert"
            /\ call' = [c EXCEPT !.gap = RangeStart]
            /\ UNCHANGED walk
         \/ /\ spans # {}
            /\ pc' = "find"
            /\ call' = c
            /\ walk' = [tree |-> spans, min |-> RangeStart, max |-> RangeEnd]
  /\ UNCHANGED <<spans, mapped, tables, frames, others, live>>

(* The span gets its node, or there is no memory for it. *)
InsertSpan ==
  /\ pc = "insert"
  /\ \/ /\ LET end == call.gap + call.size
           IN  /\ spans' = spans \cup {[start |-> call.gap, end |-> end,
                                        guard_bottom |-> next_multiple_of(call.bottom),
                                        guard_top |-> next_multiple_of(call.top)]}
               /\ call' = [call EXCEPT !.start = call.gap + call.bottom,
                                       !.next = call.gap + call.bottom,
                                       !.end = end - call.top]
        /\ pc' = "map"
     \/ /\ pc' = "idle"
        /\ call' = NoCall
        /\ UNCHANGED spans
  /\ UNCHANGED <<mapped, tables, frames, others, live, walk>>

(* map_new_page takes a frame; map_to takes another for a page table that  *)
(* is missing, and its failure is unwrapped.  The error, when there is no  *)
(* frame at all, is its caller's.                                          *)
map_new_page(addr) ==
  LET missing == {addr \div TableSize} \ tables
  IN  \/ /\ frames > Cardinality(missing)
         /\ frames' = frames - 1 - Cardinality(missing)
         /\ tables' = tables \cup missing
         /\ mapped' = mapped \cup {addr}
         /\ call' = [call EXCEPT !.next = @ + FRAME_SIZE]
         /\ UNCHANGED pc
      \/ /\ frames = 1 /\ missing # {}
         /\ frames' = 0
         /\ pc' = "panic"
         /\ UNCHANGED <<mapped, tables, call>>

unmap_pages(pages) == mapped' = mapped \ pages /\ frames' = frames + Cardinality(pages)

(* An iteration of try_map_pages. *)
MapPage ==
  /\ pc = "map"
  /\ call.next < call.end
  /\ \/ map_new_page(call.next)
     \/ /\ frames = 0
        /\ pc' = "unmap"
        /\ call' = [call EXCEPT !.end = call.next, !.next = call.start]
        /\ UNCHANGED <<mapped, tables, frames>>
  /\ UNCHANGED <<spans, others, live, walk>>

Mapped ==
  /\ pc = "map"
  /\ call.next >= call.end
  /\ live' = live \cup {call.start}
  /\ pc' = "idle"
  /\ call' = NoCall
  /\ UNCHANGED <<spans, mapped, tables, frames, others, walk>>

UnmapPage ==
  /\ pc = "unmap"
  /\ call.next < call.end
  /\ unmap_pages({call.next})
  /\ call' = [call EXCEPT !.next = @ + FRAME_SIZE]
  /\ UNCHANGED <<spans, tables, others, live, pc, walk>>

(* Bug: a failed allocation keeps its span. *)
BugKeepsSpan ==
  /\ pc = "unmap"
  /\ call.next >= call.end
  /\ pc' = "idle"
  /\ call' = NoCall
  /\ UNCHANGED <<spans, mapped, tables, frames, others, live, walk>>

RolledBack ==
  /\ pc = "unmap"
  /\ call.next >= call.end
  /\ FreeSpan(call.start)
  /\ pc' = "idle"
  /\ call' = NoCall
  /\ UNCHANGED <<mapped, tables, frames, others, live, walk>>

PagesOf(start, end) == {p \in start .. end - 1 : (p - start) % FRAME_SIZE = 0}
Pages(s) == PagesOf(s.start + s.guard_bottom, s.end - s.guard_top)

Free(addr) ==
  /\ pc = "idle"
  /\ FreeSpan(addr)
  /\ unmap_pages(Pages(Containing(addr)))
  /\ live' = live \ {addr}
  /\ UNCHANGED <<tables, others, pc, call, walk>>

VirtualNext ==
  \/ FindGap \/ InsertSpan \/ MapPage \/ Mapped \/ UnmapPage \/ RolledBack
  \/ \E addr \in live : Free(addr)

-----------------------------------------------------------------------------
Owner(addr) == {s \in spans : s.start + s.guard_bottom = addr}

(* Spans do not overlap and lie in the range, for sizes the range could    *)
(* hold (with no span in the tree, find_gap compares no size).  What       *)
(* callers hold is the start of a span of its own, behind its guard, as    *)
(* free() asserts; every page of it is mapped, and no other page is: no    *)
(* guard and nothing a failed allocation left.  Between calls every span   *)
(* is some caller's.  No frame is lost or used twice.                      *)
MappedExact ==
  LET owned    == UNION {Owner(a) : a \in live}
      underway == CASE pc = "map"   -> PagesOf(call.start, call.next)
                    [] pc = "unmap" -> PagesOf(call.next, call.end)
                    [] OTHER        -> {}
  IN  /\ \A s \in spans : RangeStart <= s.start /\ s.end <= RangeEnd
      /\ \A r, s \in spans : r # s => r.end <= s.start \/ s.end <= r.start
      /\ \A a \in live : Cardinality(Owner(a)) = 1
      /\ pc # "panic" => /\ mapped = UNION {Pages(s) : s \in owned} \cup underway
                         /\ frames + others + Cardinality(mapped) + Cardinality(tables) = NFrames
      /\ pc = "idle" => owned = spans

(* Addresses run out only when they have: find_gap gives up only when no   *)
(* gap of the range is large enough, whatever the shape of the tree.       *)
ExhaustedOnlyWhenFull ==
  [][ pc = "find" /\ pc' = "idle" =>
        \A a \in RangeStart .. RangeEnd - call.size :
          \E s \in spans : s.start < a + call.size /\ a < s.end ]_virtualVars
=============================================================================
