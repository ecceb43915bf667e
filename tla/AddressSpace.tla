---------------------------- MODULE AddressSpace ----------------------------
(***************************************************************************)
(* Processes (kernel/src/user.rs) and their memory                         *)
(* (kernel/src/memory/address_space.rs), beside the virtual allocator: the *)
(* frames are shared, the page table of a process begins with a copy of    *)
(* the kernel's top-level entries, and its own pages are mapped when they  *)
(* are first used.  A thread has a process while code of its holds the     *)
(* Arc, or while the scheduler keeps it in SchedThread.proc.               *)
(*                                                                         *)
(* Locks and interrupts are those of Kernel.tla; code that runs with       *)
(* interrupts off is entered and left with pc = "idle".                    *)
(***************************************************************************)
EXTENDS VirtualAlloc, Sequences

CONSTANTS
  None,
  Proc,         \* processes there may be
  Thread,       \* slots of the thread table
  Program,      \* load segments of the ELF file: [va, file_size, mem_size]
  UserStack,    \* [va, mem_size] of the user stack
  UserEnd,      \* end of the user half
  MaxLive       \* bound: allocations held while there are processes

ASSUME AddressSpaceAssumption ==
  /\ \A i \in DOMAIN Program : Program[i].file_size <= Program[i].mem_size
  /\ UserEnd % FRAME_SIZE = 0 /\ UserEnd <= RangeStart

VARIABLES
  space,          \* a process's UserAddressSpace
  strong,         \* strong count of its Arc
  proc,           \* SchedThread.proc
  held,           \* the Arc or ActiveProc that code of a thread holds
  load,           \* where a thread is in load_elf
  thread,         \* mach().current_thread_id
  current_proc,   \* mach().current_proc
  cr3             \* process whose page table is loaded, None for the kernel's

procVars == <<space, strong, proc, held, load, thread, current_proc, cr3>>
vars == <<virtualVars, procVars>>

User == 0 .. UserEnd - 1
PageOf(addr) == addr - (addr % FRAME_SIZE)
PageBytes(page) == page .. page + FRAME_SIZE - 1

Absent == "absent"   \* no page there
Zero == "zero"
File == "file"       \* a byte of the ELF file
Stale == "stale"     \* what a frame held before
NoSpace == [state |-> "none", mappings |-> {}, tables |-> {},
            bytes |-> [a \in User |-> Absent]]
NoLoad == [segment |-> 0, at |-> None]
NotHeld == [proc |-> None, active |-> FALSE]

Init ==
  /\ VirtualInit
  /\ space = [p \in Proc |-> NoSpace]
  /\ strong = [p \in Proc |-> 0]
  /\ proc = [t \in Thread |-> None]
  /\ held = [t \in Thread |-> NotHeld]
  /\ load = [t \in Thread |-> NoLoad]
  /\ thread \in Thread
  /\ current_proc = None
  /\ cr3 = None

-----------------------------------------------------------------------------
(* Arc *)

Clone(counts, p) == IF p = None THEN counts ELSE [counts EXCEPT ![p] = @ + 1]
Decrement(counts, p) == IF p = None THEN counts ELSE [counts EXCEPT ![p] = @ - 1]

FramesOf(s) ==
  IF s.state = "none" THEN 0
  ELSE 1 + Cardinality(s.tables) + Cardinality({a \in User : s.bytes[a] # Absent}) \div FRAME_SIZE

(* Bug: the page table and what it maps are freed with the process. *)
BugFreesPageTable(s) == NoSpace

(* Drop of UserAddressSpace: the mappings go, the page table and what it   *)
(* maps stays allocated.                                                   *)
drop(s) == [s EXCEPT !.state = "dropped", !.mappings = {}]

(* The counts change; who reaches zero is dropped. *)
Counted(counts) ==
  LET dropped == {p \in Proc : space[p].state = "live" /\ counts[p] = 0}
      spaces == [p \in Proc |-> IF p \in dropped THEN drop(space[p]) ELSE space[p]]
  IN  /\ strong' = counts
      /\ space' = spaces
      /\ LET back(p) == FramesOf(space[p]) - FramesOf(spaces[p])
             returned == MapThenSumSet(back, dropped)
         IN  frames' = frames + returned /\ others' = others - returned
      /\ UNCHANGED <<spans, mapped, tables, live, call, walk>>

-----------------------------------------------------------------------------
(* Proc *)

Running(t) == thread = t /\ pc = "idle"

(* Proc::new: the page table is empty but for the kernel's half, of which  *)
(* nothing is ever removed.  Without a frame for it Proc::new is an error  *)
(* and nothing happens.                                                    *)
NewProc(t, p) ==
  /\ Running(t) /\ held[t] = NotHeld
  /\ space[p].state = "none" /\ frames > 0
  /\ Cardinality(live) <= MaxLive
  /\ space' = [space EXCEPT ![p] = [NoSpace EXCEPT !.state = "live"]]
  /\ strong' = [strong EXCEPT ![p] = 1]
  /\ held' = [held EXCEPT ![t] = [proc |-> p, active |-> FALSE]]
  /\ frames' = frames - 1 /\ others' = others + 1
  /\ UNCHANGED <<spans, mapped, tables, live, pc, call, walk, proc, load, thread, current_proc, cr3>>

(* activate() up to Cr3::read: the process before loses mach's reference   *)
(* while its page table is still loaded.  Counts include those of the      *)
(* caller.                                                                 *)
Activating(counts, p) ==
  /\ Counted(Decrement(Clone(counts, p), current_proc))
  /\ current_proc' = p
  /\ pc' = "activate"
  /\ UNCHANGED cr3

Activate(t) ==
  /\ Running(t) /\ held[t].proc # None /\ ~ held[t].active
  /\ Activating(strong, held[t].proc)
  /\ held' = [held EXCEPT ![t].active = TRUE]
  /\ UNCHANGED <<proc, load, thread>>

WriteCr3 ==
  /\ pc = "activate"
  /\ cr3' = current_proc
  /\ pc' = "idle"
  /\ UNCHANGED <<spans, mapped, tables, frames, others, live, call, walk,
                 space, strong, proc, held, load, thread, current_proc>>

(* The code of a thread drops its Arc or ActiveProc. *)
DropHeld(t) ==
  /\ Running(t) /\ held[t].proc # None /\ load[t] = NoLoad
  /\ Counted(Decrement(strong, held[t].proc))
  /\ held' = [held EXCEPT ![t] = NotHeld]
  /\ UNCHANGED <<pc, proc, load, thread, current_proc, cr3>>

(* sched(): the thread that stops keeps a reference to the process that is *)
(* loaded, even if that is not its own; a thread without one goes on with  *)
(* it.                                                                     *)
Switch(t, next) ==
  LET saved == Decrement(Clone(strong, current_proc), proc[t])
  IN  /\ Running(t) /\ next # t
      /\ proc' = [proc EXCEPT ![t] = current_proc]
      /\ thread' = next
      /\ \/ proc[next] # None /\ Activating(saved, proc[next])
         \/ proc[next] = None /\ Counted(saved) /\ UNCHANGED <<pc, current_proc, cr3>>
      /\ UNCHANGED <<held, load>>

(* A thread whose code has returned is removed, another may get its slot. *)
CleanUp(t) ==
  /\ pc = "idle" /\ thread # t
  /\ held[t] = NotHeld /\ proc[t] # None
  /\ Counted(Decrement(strong, proc[t]))
  /\ proc' = [proc EXCEPT ![t] = None]
  /\ UNCHANGED <<pc, held, load, thread, current_proc, cr3>>

-----------------------------------------------------------------------------
(* Page faults *)

InSpan(addr, s) == s.start <= addr /\ addr < s.end
Overlapping(spans_, start, end) == \E s \in spans_ : s.end > start /\ s.start < end

(* Bug: the new page shows what its frame held before. *)
BugKeepsContents(s, addr) ==
  [s EXCEPT !.tables = @ \cup {addr \div TableSize},
            !.bytes = [a \in User |-> IF a \in PageBytes(PageOf(addr)) THEN Stale ELSE @[a]]]

(* A zeroed frame, mapped where the fault was. *)
WithPage(s, addr) ==
  [s EXCEPT !.tables = @ \cup {addr \div TableSize},
            !.bytes = [a \in User |-> IF a \in PageBytes(PageOf(addr)) THEN Zero ELSE @[a]]]

Panic == pc' = "panic" /\ UNCHANGED <<spans, mapped, tables, live, call, walk, space, strong>>

(* page_fault_handler at a user address: a missing frame or page table is  *)
(* unwrapped, a fault outside of the mappings loops for ever.              *)
PageFault(addr) ==
  LET s == space[current_proc]
      needed == 1 + Cardinality({addr \div TableSize} \ s.tables)
      known == current_proc # None /\ \E m \in s.mappings : InSpan(addr, m)
  IN  \/ /\ known /\ frames >= needed
         /\ space' = [space EXCEPT ![current_proc] = WithPage(@, addr)]
         /\ frames' = frames - needed /\ others' = others + needed
         /\ UNCHANGED <<spans, mapped, tables, live, pc, call, walk, strong>>
      \/ /\ known /\ frames < needed
         /\ frames' = 0 /\ others' = others + frames
         /\ Panic
      \/ ~ known /\ Panic /\ UNCHANGED <<frames, others>>

-----------------------------------------------------------------------------
(* ActiveProc *)

LoadElf(t) ==
  /\ Running(t) /\ held[t].active /\ load[t] = NoLoad
  /\ load' = [load EXCEPT ![t].segment = 1]
  /\ UNCHANGED <<virtualVars, space, strong, proc, held, thread, current_proc, cr3>>

StackSegment == Len(Program) + 1
Launched == [segment |-> StackSegment + 1, at |-> None]
Segment(i) == IF i = StackSegment THEN UserStack ELSE Program[i]

(* add_mapping of the next segment, or of the stack: an overlap, or no     *)
(* memory for the span, is unwrapped.                                      *)
AddMapping(t) ==
  LET i == load[t].segment
      start == Segment(i).va
      end == start + Segment(i).mem_size
      p == held[t].proc
  IN  /\ Running(t) /\ i \in 1 .. StackSegment /\ load[t].at = None
      /\ \/ /\ ~ Overlapping(space[p].mappings, start, end)
            /\ space' = [space EXCEPT ![p].mappings = @ \cup {[start |-> start, end |-> end]}]
            /\ load' = [load EXCEPT ![t] = IF i = StackSegment THEN Launched
                                           ELSE [segment |-> i, at |-> start]]
            /\ UNCHANGED <<virtualVars, strong>>
         \/ Panic /\ UNCHANGED <<frames, others, load>>
      /\ UNCHANGED <<proc, held, thread, current_proc, cr3>>

(* What a copy of the file's bytes from at on writes into a page. *)
Copied(s, segment, at) ==
  [s EXCEPT !.bytes = [a \in User |-> IF /\ a \in at .. segment.va + segment.file_size - 1
                                         /\ PageOf(a) = PageOf(at)
                                      THEN File ELSE @[a]]]

(* copy_from_slice, page by page through the page table that is loaded. *)
Copy(t) ==
  LET segment == Segment(load[t].segment)
      at == load[t].at
  IN  /\ Running(t) /\ at # None
      /\ at < segment.va + segment.file_size
      /\ space[cr3].bytes[at] # Absent
      /\ space' = [space EXCEPT ![cr3] = Copied(@, segment, at)]
      /\ load' = [load EXCEPT ![t].at = PageOf(at) + FRAME_SIZE]
      /\ UNCHANGED <<virtualVars, strong, proc, held, thread, current_proc, cr3>>

NextSegment(t) ==
  LET segment == Segment(load[t].segment)
  IN  /\ Running(t) /\ load[t].at # None
      /\ load[t].at >= segment.va + segment.file_size
      /\ load' = [load EXCEPT ![t] = [segment |-> @.segment + 1, at |-> None]]
      /\ UNCHANGED <<virtualVars, space, strong, proc, held, thread, current_proc, cr3>>

(* Where a thread may use user memory: where it copies to, or, launched,   *)
(* anywhere.                                                               *)
Uses(t) ==
  IF load[t] = Launched THEN User
  ELSE {a \in {load[t].at} \ {None} : a < Segment(load[t].segment).va + Segment(load[t].segment).file_size}

Fault(t, addr) ==
  /\ Running(t) /\ addr \in Uses(t)
  /\ space[cr3].bytes[addr] = Absent
  /\ PageFault(addr)
  /\ UNCHANGED <<proc, held, load, thread, current_proc, cr3>>

-----------------------------------------------------------------------------
NoProc == \A p \in Proc : space[p].state = "none"

(* The panic handler loops, as unhandled_fault does. *)
Panicked == pc = "panic" /\ UNCHANGED vars

Next ==
  \/ /\ \/ /\ NoProc \/ Cardinality(live) < MaxLive
           /\ \E size \in Sizes, bottom, top \in Guards : Alloc(size, bottom, top)
        \/ VirtualNext
     /\ UNCHANGED procVars
  \/ \E t \in Thread :
       \/ \E p \in Proc : NewProc(t, p)
       \/ Activate(t) \/ DropHeld(t) \/ CleanUp(t)
       \/ \E next \in Thread : Switch(t, next)
       \/ LoadElf(t) \/ AddMapping(t) \/ Copy(t) \/ NextSegment(t)
       \/ \E addr \in User : Fault(t, addr)
  \/ WriteCr3
  \/ Panicked

Spec == Init /\ [][Next]_vars

-----------------------------------------------------------------------------
(* Bytes of the file that load_elf of a thread has copied. *)
Loaded(t) ==
  {a \in User :
     \E i \in DOMAIN Program :
       /\ a \in Program[i].va .. Program[i].va + Program[i].file_size - 1
       /\ \/ load[t].segment > i
          \/ load[t].segment = i /\ load[t].at # None /\ a < load[t].at}

(* However threads are switched while load_elf faults in the pages it      *)
(* writes, the bytes of the file are where they belong in the memory of    *)
(* the process, every other byte of it is zero (never what the frame held  *)
(* before), and only pages with some mapping in them are there.            *)
UserMemoryExact ==
  \A t \in Thread :
    LET s == space[held[t].proc]
    IN  held[t].proc # None =>
          \A a \in User :
            /\ s.bytes[a] # Absent => /\ s.bytes[a] = IF a \in Loaded(t) THEN File ELSE Zero
                                      /\ \E m \in s.mappings, b \in PageBytes(PageOf(a)) : InSpan(b, m)
            /\ a \in Loaded(t) => s.bytes[a] = File

(* A process lives as long as mach(), a thread or code refers to it, and   *)
(* the count of its Arc is the number of these.  The page table that is    *)
(* loaded is allocated even while activate() has dropped its process and   *)
(* not yet written CR3; afterwards it is the current process's, which is   *)
(* that of the ActiveProc the running code holds.                          *)
ProcsExact ==
  /\ \A p \in Proc :
       /\ strong[p] = Cardinality({t \in Thread : proc[t] = p})
                        + Cardinality({t \in Thread : held[t].proc = p})
                        + Cardinality({current_proc} \cap {p})
       /\ space[p].state = "live" <=> strong[p] > 0
  /\ pc # "panic" => others = MapThenSumSet(LAMBDA p : FramesOf(space[p]), Proc)
  /\ cr3 # None => space[cr3].state # "none"
  /\ pc = "idle" => /\ cr3 = current_proc
                    /\ held[thread].active => held[thread].proc = current_proc
=============================================================================
