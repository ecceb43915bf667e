------------------------------- MODULE BootAlloc -------------------------------
(***************************************************************************)
(* The allocator of the boot (kernel/src/memory/boot_alloc.rs) in the      *)
(* sequence bootstrap.rs drives it through: the memory map of the firmware *)
(* and what the kernel and the boot loader occupy are entered, frames are  *)
(* taken for page tables and for the FrameInfos of all memory, the free    *)
(* pages go to the buddy allocator, and once the boot stack is left the    *)
(* reclaimable ones follow.  Spans live in a fixed array of node slots and *)
(* are compacted when it is full.  A step is one iteration of a loop;      *)
(* nothing else runs yet.                                                  *)
(*                                                                         *)
(* The tree is the set of its spans, which are searched by address only.   *)
(***************************************************************************)
EXTENDS Naturals, SequencesExt

CONSTANTS
  FRAME_SIZE,
  InfosPerPage, \* FrameInfos in a page
  MemoryEnd,    \* bytes of physical memory
  Slots,        \* length of SPANS
  MmapRanges,   \* ranges <<start, end>> of memory map entries
  MarkRanges,   \* ranges of the kernel's image and of the boot loader's data
  Modules,      \* modules the boot loader passes
  MaxMmaps      \* bound: entries of the memory map

ASSUME BootAllocAssumption ==
  /\ FRAME_SIZE \in Nat \ {0} /\ InfosPerPage \in Nat \ {0}
  /\ MemoryEnd \in Nat /\ MemoryEnd % FRAME_SIZE = 0
  /\ Slots \in Nat \ {0} /\ MaxMmaps \in Nat /\ Modules \in Nat
  /\ \A r \in MmapRanges \cup MarkRanges : r[1] \in Nat /\ r[2] \in r[1] .. MemoryEnd

VARIABLES
  spans,    \* the tree; the slots that are not in it are on the free list
  pc,       \* the phase of init and of Reclaimer::drop, or "update"
  upd,      \* update's addr, end and update_fn, and the phase it returns to
  n,        \* entries, then marks, that have been entered
  at,       \* how far the walk over the spans is, in each of the three
  infos,    \* pages of FrameInfos that are mapped, all of type Reserved
  walk,     \* what setup_page_table has yet to map for the span it is at
  given,    \* how often each page was handed to the buddy allocator
  wanted,   \* history: the type each byte has once update is done
  joined    \* history: whether usable spans adjoined when the walk began

vars == <<spans, pc, upd, n, at, infos, walk, given, wanted, joined>>
infoVars == <<infos, walk, joined>>

Types == {"Reserved", "InUse", "Reclaimable", "Free"}
Bytes == 0 .. MemoryEnd - 1
Pages == {b \in Bytes : b % FRAME_SIZE = 0}
PageBytes(p) == p .. p + FRAME_SIZE - 1
NoUpdate == [addr |-> 0, end |-> 0, fn |-> "none", ret |-> "none"]

Span(start, end, type) == [start |-> start, end |-> end, span_type |-> type]
align_up(a) == ((a + FRAME_SIZE - 1) \div FRAME_SIZE) * FRAME_SIZE
align_down(a) == (a \div FRAME_SIZE) * FRAME_SIZE
is_usable(type) == type \in {"Reclaimable", "Free"}
needs_frameinfo(type) == type # "Reserved"

(* The page of FrameInfos that a frame's lies in. *)
frame_info_addr(addr) == (addr \div FRAME_SIZE) \div InfosPerPage

(* Bug: the end is rounded down. *)
BugLosesLastPage(span) == [next |-> frame_info_addr(align_down(span.start)),
                           end  |-> frame_info_addr(align_up(span.end))]

(* The pages those of a span lie in. *)
InfoPages(span) == [next |-> frame_info_addr(align_down(span.start)),
                    end  |-> frame_info_addr(align_up(span.end) + (InfosPerPage - 1) * FRAME_SIZE)]

Init ==
  /\ spans = {}
  /\ pc = "mmaps"
  /\ upd = NoUpdate
  /\ n = 0
  /\ at = 0
  /\ infos = {}
  /\ walk = [next |-> 0, end |-> 0]
  /\ joined = FALSE
  /\ given = [p \in Pages |-> 0]
  /\ wanted = [b \in Bytes |-> "None"]

-----------------------------------------------------------------------------
(* The tree and its node slots *)

(* The first of the spans that satisfy a test which holds from some span on. *)
lower_bound(S) == CHOOSE s \in S : \A r \in S : s.start <= r.start

Adjacent(r, s) == r.end = s.start /\ r.span_type = s.span_type

(* Every run of adjacent spans of one type becomes one. *)
compact(S) ==
  {Span(s.start,
        Min({r.end : r \in {r \in S : r.start >= s.start /\ ~ \E q \in S : Adjacent(r, q)}}),
        s.span_type) : s \in {s \in S : ~ \E q \in S : Adjacent(q, s)}}

(* acc.ok is FALSE once an insertion ran out of slots and panicked. *)
insert(acc, span) ==
  LET room == IF Cardinality(acc.spans) < Slots THEN acc.spans ELSE compact(acc.spans)
  IN  [spans |-> room \cup {span}, ok |-> acc.ok /\ Cardinality(room) < Slots]

(* A span is removed and others are inserted, one after the other. *)
Replace(old, pieces, next) ==
  LET acc == FoldLeft(insert, [spans |-> spans \ old, ok |-> TRUE], pieces)
  IN  \/ acc.ok /\ spans' = acc.spans /\ next
      \/ ~ acc.ok /\ pc' = "panic" /\ UNCHANGED <<spans, upd, at>>

-----------------------------------------------------------------------------
(* update *)

(* The functions given to update; alloc's asserts. *)
update_fn(fn, type) ==
  CASE fn = "usable"      -> IF type = "None" THEN "Free" ELSE type
    [] fn = "unusable"    -> "Reserved"
    [] fn = "reserved"    -> "Reserved"
    [] fn = "used"        -> IF type = "Reserved" THEN "Reserved" ELSE "InUse"
    [] fn = "reclaimable" -> IF type = "Reserved" THEN "Reserved" ELSE "Reclaimable"
    [] fn = "alloc"       -> IF type = "Free" THEN "InUse" ELSE "assertion failed"

(* The call itself, before the loop. *)
Update(start, end, fn, ret) ==
  /\ pc' = "update"
  /\ upd' = [addr |-> start, end |-> end, fn |-> fn, ret |-> ret]
  /\ wanted' = [b \in Bytes |-> IF start <= b /\ b < end THEN update_fn(fn, wanted[b])
                                ELSE wanted[b]]

(* Bug: what an old span has beyond the end is lost. *)
BugDropsTail(old, addr, end, fn) ==
  LET first == IF old.start > addr THEN old.start ELSE addr
  IN  (IF old.start > addr THEN <<Span(addr, old.start, update_fn(fn, "None"))>>
       ELSE IF old.start < addr THEN <<Span(old.start, addr, old.span_type)>> ELSE <<>>)
      \o <<Span(first, Min({old.end, end}), update_fn(fn, old.span_type))>>

(* What takes the place of an old span that overlaps addr .. end. *)
Pieces(old, addr, end, fn) ==
  LET first == IF old.start > addr THEN old.start ELSE addr
  IN  (IF old.start > addr THEN <<Span(addr, old.start, update_fn(fn, "None"))>>
       ELSE IF old.start < addr THEN <<Span(old.start, addr, old.span_type)>> ELSE <<>>)
      \o <<Span(first, Min({old.end, end}), update_fn(fn, old.span_type))>>
      \o (IF old.end > end THEN <<Span(end, old.end, old.span_type)>> ELSE <<>>)

UpdateSpan ==
  LET beyond == {s \in spans : s.end > upd.addr}
      node   == lower_bound(beyond)
      done(addr) == upd' = [upd EXCEPT !.addr = addr] /\ UNCHANGED <<pc, at>>
  IN  /\ pc = "update"
      /\ upd.addr # upd.end
      /\ IF beyond = {} \/ node.start >= upd.end
         THEN Replace({}, <<Span(upd.addr, upd.end, update_fn(upd.fn, "None"))>>, done(upd.end))
         ELSE Replace({node}, Pieces(node, upd.addr, upd.end, upd.fn),
                      done(Min({node.end, upd.end})))
      /\ UNCHANGED <<n, given, wanted, infoVars>>

UpdateReturns ==
  /\ pc = "update"
  /\ upd.addr = upd.end
  /\ pc' = upd.ret
  /\ upd' = NoUpdate
  /\ UNCHANGED <<spans, n, at, given, wanted, infoVars>>

-----------------------------------------------------------------------------
(* init *)

Mmap(range, usable) ==
  /\ pc = "mmaps"
  /\ n < MaxMmaps
  /\ n' = n + 1
  /\ Update(range[1], range[2], IF usable THEN "usable" ELSE "unusable", "mmaps")
  /\ UNCHANGED <<spans, at, given, infoVars>>

MmapsEnd ==
  /\ pc = "mmaps"
  /\ pc' = "marks"
  /\ n' = 0
  /\ UNCHANGED <<spans, upd, at, given, wanted, infoVars>>

(* The table of the modules; of each the contents and the name. *)
mark_modules ==
  <<"reclaimable">> \o [i \in 1 .. 2 * Modules |-> IF i % 2 = 1 THEN "used" ELSE "reclaimable"]

(* The command line, the first page, the kernel, the MultibootInfoRaw, the *)
(* memory map, the kernel's reclaimable section, the modules.              *)
Marks ==
  <<"reclaimable", "reserved", "used", "reclaimable", "reclaimable", "reclaimable">>
  \o mark_modules

Mark(range) ==
  /\ pc = "marks"
  /\ n < Len(Marks)
  /\ n' = n + 1
  /\ Marks[n + 1] = "reserved" => range = <<0, FRAME_SIZE>>
  /\ Update(range[1], range[2], Marks[n + 1], "marks")
  /\ UNCHANGED <<spans, at, given, infoVars>>

(* alloc_worker, first to last in the tree: free spans with room for an    *)
(* aligned frame.  Subtrees it skips have none.                            *)
alloc_worker ==
  {s \in spans : s.span_type = "Free" /\ align_up(s.start) + FRAME_SIZE <= s.end}

alloc(ret) ==
  LET start == align_up(Min({s.start : s \in alloc_worker}))
  IN  Update(start, start + FRAME_SIZE, "alloc", ret)

(* Without a frame, boot_oom(). *)
allocate_frame(ret) ==
  \/ alloc_worker # {} /\ alloc(ret)
  \/ alloc_worker = {} /\ pc' = "panic" /\ UNCHANGED <<upd, wanted>>

(* The level 4 table. *)
MarksEnd ==
  /\ pc = "marks"
  /\ n = Len(Marks)
  /\ allocate_frame("tables")
  /\ UNCHANGED <<spans, n, at, given, infoVars>>

-----------------------------------------------------------------------------
(* setup_page_table *)

(* map_to of the x86_64 crate makes the tables that are missing: for the   *)
(* direct map and the kernel, and for the page of FrameInfos at hand.      *)
TableFrame ==
  /\ pc \in {"tables", "map"}
  /\ allocate_frame(pc)
  /\ UNCHANGED <<spans, n, at, given, infoVars>>

WalkBegins ==
  /\ pc = "tables"
  /\ pc' = "frameinfos"
  /\ at' = 0
  /\ joined' = \E r, s \in spans : Adjacent(r, s) /\ is_usable(r.span_type)
  /\ UNCHANGED <<spans, upd, n, infos, walk, given, wanted>>

(* The next span by address, of the list as it is by now. *)
WalkSpan ==
  LET rest == {s \in spans : s.start >= at}
      span == lower_bound(rest)
  IN  /\ pc = "frameinfos"
      /\ walk.next = walk.end
      /\ rest # {}
      /\ at' = span.end
      /\ walk' = IF needs_frameinfo(span.span_type) THEN InfoPages(span) ELSE walk
      /\ UNCHANGED <<spans, pc, upd, n, infos, given, wanted, joined>>

(* A page that is mapped already is initialised again. *)
ensure_allocated ==
  /\ pc = "frameinfos"
  /\ walk.next # walk.end
  /\ \/ /\ walk.next \in infos
        /\ walk' = [walk EXCEPT !.next = @ + 1]
        /\ UNCHANGED <<pc, upd, wanted>>
     \/ /\ walk.next \notin infos
        /\ allocate_frame("map")
        /\ UNCHANGED walk
  /\ UNCHANGED <<spans, n, at, infos, given, joined>>

(* The new page is in place, and new_page fills it. *)
MapInfos ==
  /\ pc = "map"
  /\ pc' = "frameinfos"
  /\ infos' = infos \cup {walk.next}
  /\ walk' = [walk EXCEPT !.next = @ + 1]
  /\ UNCHANGED <<spans, upd, n, at, given, wanted, joined>>

-----------------------------------------------------------------------------
(* The memory goes to the buddy allocator *)

(* buddy_add_range writes the FrameInfo of every page of the range. *)
InfosMapped(start, end) == \A p \in Pages : start <= p /\ p < end => frame_info_addr(p) \in infos
Give(start, end) == given' = [p \in Pages |-> IF start <= p /\ p < end THEN given[p] + 1 ELSE given[p]]

(* The walk is over.  claim_free_ranges begins with a compaction. *)
Claim ==
  /\ pc = "frameinfos"
  /\ walk.next = walk.end
  /\ ~ \E s \in spans : s.start >= at
  /\ pc' = "claim"
  /\ spans' = compact(spans)
  /\ at' = 0
  /\ UNCHANGED <<upd, n, given, wanted, infoVars>>

(* Bug: pages handed over stay free. *)
BugStaysFree(span, start, end) == <<span>>

ClaimPieces(span, start, end) ==
  <<Span(start, end, "InUse")>>
  \o (IF span.start < start THEN <<Span(span.start, start, "Free")>> ELSE <<>>)
  \o (IF end < span.end THEN <<Span(end, span.end, "Free")>> ELSE <<>>)

(* A FrameInfo that is not mapped is a page fault in the kernel: a panic. *)
ClaimSpan ==
  LET rest  == {s \in spans : s.start >= at}
      span  == lower_bound(rest)
      start == align_up(span.start)
      end   == align_down(span.end)
  IN  /\ pc = "claim"
      /\ rest # {}
      /\ IF span.span_type = "Free" /\ end > start
         THEN \/ /\ InfosMapped(start, end)
                 /\ Give(start, end)
                 /\ Replace({span}, ClaimPieces(span, start, end),
                            at' = span.end /\ UNCHANGED <<pc, upd>>)
              \/ /\ ~ InfosMapped(start, end)
                 /\ pc' = "panic"
                 /\ UNCHANGED <<spans, upd, at, given>>
         ELSE at' = span.end /\ UNCHANGED <<spans, pc, upd, given>>
      /\ UNCHANGED <<n, wanted, infoVars>>

(* init is done; later the Reclaimer is dropped. *)
ClaimEnds ==
  /\ pc = "claim"
  /\ ~ \E s \in spans : s.start >= at
  /\ pc' = "reclaim"
  /\ at' = 0
  /\ UNCHANGED <<spans, upd, n, given, wanted, infoVars>>

(* ReclaimableRangeIter::next: the usable spans from an address on, and    *)
(* the end of the first run of adjoining ones.                             *)
UsableFrom(addr) == {s \in spans : s.start >= addr /\ is_usable(s.span_type)}
RunEnd(usable) == Min({s.end : s \in {s \in usable : ~ \E r \in usable : r.start = s.end}})

(* An iteration of Reclaimer::drop; a run without a whole page gives none. *)
Reclaim ==
  LET usable == UsableFrom(at)
      start  == align_up(lower_bound(usable).start)
      end    == RunEnd(usable)
  IN  /\ pc = "reclaim"
      /\ \/ /\ usable # {}
            /\ InfosMapped(start, align_down(end))
            /\ Give(start, align_down(end))
            /\ at' = end
            /\ UNCHANGED pc
         \/ /\ usable # {}
            /\ ~ InfosMapped(start, align_down(end))
            /\ pc' = "panic"
            /\ UNCHANGED <<at, given>>
         \/ /\ usable = {}
            /\ pc' = "done"
            /\ UNCHANGED <<at, given>>
      /\ UNCHANGED <<spans, upd, n, wanted, infoVars>>

(* The boot is over, or the panic handler loops. *)
Over == pc \in {"done", "panic"} /\ UNCHANGED vars

Next ==
  \/ UpdateSpan \/ UpdateReturns
  \/ \E r \in MmapRanges, usable \in BOOLEAN : Mmap(r, usable)
  \/ MmapsEnd
  \/ \E r \in MarkRanges \cup {<<0, FRAME_SIZE>>} : Mark(r)
  \/ MarksEnd \/ TableFrame \/ WalkBegins \/ WalkSpan \/ ensure_allocated \/ MapInfos
  \/ Claim \/ ClaimSpan \/ ClaimEnds \/ Reclaim
  \/ Over

Spec == Init /\ [][Next]_vars

-----------------------------------------------------------------------------
TypeAt(b) == LET over == {s \in spans : s.start <= b /\ b < s.end}
             IN  IF over = {} THEN "None" ELSE (CHOOSE s \in over : TRUE).span_type

(* The spans never overlap, fit the slots, and say of every byte what the  *)
(* calls of update so far made of it: cutting spans up, filling the holes  *)
(* between them and compacting them under way changes no byte outside the  *)
(* range of the call, and the assertion of alloc never fails.              *)
UpdateExact ==
  /\ \A s \in spans : s.start < s.end /\ s.span_type \in Types
  /\ \A r, s \in spans : r # s => r.end <= s.start \/ s.end <= r.start
  /\ Cardinality(spans) <= Slots
  /\ pc \in {"mmaps", "marks", "tables", "frameinfos", "map", "update"} =>
       \A b \in Bytes : ~ (upd.addr <= b /\ b < upd.end) => TypeAt(b) = wanted[b]

(* No page is handed to the buddy allocator twice, none of which a byte is *)
(* reserved or in use is, and when the Reclaimer is gone every other page  *)
(* was: a page that is free in part and reclaimable in part is not lost.   *)
PagesGivenOnce ==
  \A p \in Pages :
    LET usable == \A b \in PageBytes(p) : is_usable(wanted[b])
    IN  /\ given[p] <= (IF usable THEN 1 ELSE 0)
        /\ pc = "done" /\ usable => given[p] = 1

(* "we assume the FrameInfo structs are already mapped in the correct      *)
(* locations" (buddy_init): when the memory goes to the buddy allocator,   *)
(* setup_page_table has mapped the FrameInfo of every usable page.         *)
FrameInfosMapped ==
  pc \in {"claim", "reclaim", "done"} =>
    \A p \in Pages : (\A b \in PageBytes(p) : is_usable(wanted[b])) => frame_info_addr(p) \in infos

(* It has if no usable spans of one type adjoined when it began to walk    *)
(* the list, however its own allocations then split and compact that list. *)
MappedUnlessJoined == ~ joined => FrameInfosMapped
=============================================================================
