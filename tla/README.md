# A verification of the lilith-rs kernel

TLA+ modules of the lilith-rs kernel (`src/kernel/src`, all paths below are
relative to it), model-checked with TLC on small instances, with theorems that
TLAPS proves for every value of the constants.

## The system and its parts

lilith-rs is a kernel for one x86_64 CPU. Its parts, and how they interact:

| Part | Source | Module | State |
|---|---|---|---|
| Scheduler, thread table | `sched.rs`, `id_vec.rs` | `Scheduler`, `SchedulerProofs` | modelled, safety proved |
| IrqLock, interrupt guards | `sync.rs` | `Kernel`, `KernelProofs` | modelled, without `BootInit`; safety proved |
| Per-CPU state | `mach.rs` | `Kernel`, `KernelProofs` | modelled, without the GDT; safety proved |
| Interrupt and system call entry | `interrupts.rs`, `interrupts/tables.rs` | `Kernel`, `KernelProofs` | control flow, safety proved; tables and devices left out |
| Sleeping, wait queues | `sched.rs` | `Kernel`, `KernelProofs` | modelled, safety proved |
| Timer queue | `sched.rs` | `Timers`, `TimerQueue`, `TimerQueueProofs`, `OperatorProofs` | modelled, proved |
| Async executor | `tasks.rs` | `Executor`, `ExecutorProofs` | modelled, safety proved |
| User processes | `user.rs` | `Kernel`, `AddressSpace` | modelled; ELF headers are input |
| Buddy allocator | `memory/buddy.rs`, `memory/frame_info.rs` | `Buddy` | modelled |
| Slub allocator, heap front end | `memory/slub.rs`, `memory.rs` | `Heap` | modelled, without the virtual fallback |
| Address spaces | `memory/address_space.rs` | `AddressSpace`, `VirtualAlloc`, `Kernel` | modelled; one level of page tables stands for the lower three |
| Virtual allocator | `memory/virtual_alloc.rs` | `VirtualAlloc`, `AddressSpace` | modelled |
| Red-black tree | `memory/rbtree.rs` | `RbTree` | modelled, without cloning, comparing and dropping whole trees |
| Boot memory | `memory/boot_alloc.rs`, `memory/bootstrap.rs` | `BootAlloc` | modelled; page tables are frames |
| Windows | `draw/window.rs` | `Screen` | modelled |
| Regions, surfaces | `draw/banded_region.rs`, `draw/geometry.rs`, `draw/surface.rs` | `BandedRegion`, `Geometry`, `SurfaceParts`, `Surface`, `OperatorProofs`, `Drawing` | modelled, `fill` and the geometry of `blit` proved |
| Text on the frame buffer | `draw/text.rs`, `draw/vesa.rs` | `Console` | cursor, characters and scrolling |
| Other devices, RAM file system, multiboot parsing, test runner, user programs | | | not modelled |

`main()` becomes the idle thread. Every other thread is made by
`thread_spawn`, runs until it yields, sleeps, waits, exits or is preempted by
the timer interrupt, and is switched by `sched()` with the `SCHEDULER` lock held
across the switch. Locks are `IrqLock`s: a spin mutex with a guard that keeps
interrupts off and counts in `irq_lock_count`. The timer interrupt runs the
closures of `TIMER_QUEUE`, which wake sleeping threads and the wakers of
tasks; tasks are polled by one executor thread, which waits on a wait queue.
Memory for all of them comes from the slub allocator, which takes frames from
the buddy allocator; stacks, which have guard pages, come from the virtual
allocator, which maps frames into a range of addresses. At boot `BootAlloc` keeps
account of the memory map and hands its pages to the buddy allocator. The virtual
and the boot allocator keep their spans in the augmented red-black tree, and so do a
process its mappings and `BandedRegion` its bands. A process is an `Arc<Proc>` that the
CPU, threads and code refer to; its pages are mapped by the page faults of whoever
first uses them. A `Screen` stacks windows and keeps in a `BandedRegion` which of them
shows at each point and what must be painted again; `println!` draws its text straight
on the frame buffer.

## Modules

**`Scheduler`** is the abstract specification of scheduling: one action per
method of `Scheduler` (`Spawn`, `Wake`) and per part of the loop of `sched()`
(`Sched`, `Resume`, `CleanUp`, `Again`). `threads`, `len`, `free` are the
`IdSparseVec`, `ready` the ready queue, `deferred` the `DeferredAction` handed
through `switch()`, `pc` the place in the loop. **`Queues`** says, for `Scheduler` and
`Executor`, what it is for a queue to hold a value, and none twice.

**`Kernel`** opens these steps up. A thread's kernel stack is the sequence of
operations it has yet to perform (`prog[t]`). A source function is an operator
that gives its operations in the order of the statements, with the drops at the
end of the scopes (`ThreadSleep`, `SleepUntilBlocks`, `IntHandler`, ...); an
action performs the first operation of the running thread. An interrupt puts
the handler in front of whatever is there, wherever the flag is set. So every
interleaving of threads and interrupts at the grain of guard and lock
operations is explored. `ImplementsScheduler` says that this implements
`Scheduler`, with `pc` mapped from the operation at hand (`SchedulerPc`). Three things are
shorter here than in the code, because other modules have them in full. `LoadElf` takes the
lock of the process once, for all segments and for the stack, and `PageFaultHandler` is the
way that maps a page; the segments one by one, the unwraps and the fault outside of the
mappings are in `AddressSpace`. `mach().ticks` is a variable of `TimerQueue` and `Executor`,
not of `Kernel`, where nothing depends on it.

**`Timers`** holds the delta queue as operators, used by `Kernel` and
`Executor`. **`TimerQueue`** is the queue itself, with the loop of `insert()` one
iteration at a time. It carries two values the code does not keep, the tick
`run_later` returned and the tick at which the queue as it stands pops the
event. `InsertIsInsertTimer` says that the loop computes the operator.

**`Executor`** is the async executor with the timer interrupt. Its step is a
critical section of `EXECUTOR`, a call a future makes during a poll, or one timer
closure. A future may drop a sleep that is still running, so wakers outlive
their tasks and find ids that are vacant or belong to another task.

**`Buddy`** has the buddy allocator as operators on frame types, orders and
free lists; **`Heap`** puts the slub allocator and `direct_alloc`/`direct_free` on
top, with callers that hold allocations and give each back once. An allocation of size
zero is the address of frame 0, which `direct_free` passes over; `bootstrap.rs:251`
reserves that frame, so no range has it (`HeapAssumption`), and `SlabsExact` says that
what is passed over is never anything else.

**`RbTree`** has the pointers, colours and augmented values of the tree's nodes;
`insert_raw` and `remove_raw` take one step per iteration of `recolor` and
`remove_fixup`, and `pairwise_merge` one per pair it compares. The augmented value of a node is the term of its whole subtree, so
that a value is exact here only if every `Augment` would be; a value says whether
`pairwise_merge` has changed it. The users of the tree below see it as a set or a
sequence of spans, which is what `TreeExact`, `AugmentsExact` and `SearchExact`
entitle them to.

**`VirtualAlloc`** searches for a gap one iteration of `find_gap` at a time, with any
span of a subtree as its root, and with the values that `MaxGap::augment` computes
for the shapes of its subtrees (`Augments`): so the result holds for every shape the tree
may have. Mapping and roll-back go page by page, with memory that may run out at each.
A page table, made by `map_to` of the `x86_64` crate, costs a frame of its own that
is never given back; one level stands for the three. Layouts are aligned to at most a
page, as the assertion at `virtual_alloc.rs:258` wants, and guards are none or one page,
which is what `Stack::new` and `kernel_alloc` ask for. Lines 268-269 use the size of a
guard as it was given where lines 255-256 round it up to pages; these are the same for
such guards, and others, which no caller asks for, are not checked.

**`AddressSpace`** puts processes beside the virtual allocator, on the same frames. A
process has the reference count of its `Arc`, its mappings, the tables and pages of its
page table with their bytes. The kernel's half of it, copied when the process is made,
is left out: nothing is ever removed from it, and its entry for the virtual allocator,
which covers 512 GiB, is there from the first thread's stack on. `proc` is `SchedThread.proc`, `held` what the code of a thread holds, `cr3` the
page table that is loaded. `activate()` is two steps, before and after the write to CR3.
`load_elf` copies page by page and faults wherever a page is missing; threads are
switched between any two steps. A byte is zero, from the file, or what the frame held
before.

**`Geometry`** and **`BandedRegion`** are the pure part of the drawing code, operator by
operator and loop by loop; a tree of bands or regions is the sequence its iterator
visits. **`Surface`** has an image as a function of the offset from its pointer, so that
overlapping copies and accesses outside of it show; **`SurfaceParts`** is the part of it
that copies no rows. `self_blit` is what the call does to the pixels; the drop of its
temporary `Surface` is an operator of its own, which `Console` adds and `Drawing`, whose
behaviours end with the call, does not. **`Drawing`** is a client of both,
with the map of points that its calls describe. **`Screen`** uses `BandedRegion` itself as
its damage tracker; an image is the set of points a client has painted, and `frame` what
the frame buffer shows. **`Console`** is the `TextWriter` on a `Surface`.

**`BootAlloc`** follows `bootstrap::init` and `Reclaimer::drop`: entries of the
memory map, the marks in the order of the code, `setup_page_table`,
`claim_free_ranges`, reclaim. `setup_page_table` takes any number of frames for
page tables, then walks the spans by address and maps the pages of their FrameInfos
(`infos`) with frames from the list it is walking. Two history variables: `wanted`
is what each byte should be after the calls so far, and `joined` whether usable spans
of one type adjoined when the walk began.

## Runs

| Run | What it shows | Bounds |
|---|---|---|
| `scheduler` | The thread table, the ready queue and the deferred clean-up stay exact, and no assertion of `sched()` fails. | 4 slots |
| `kernel` | Guards, locks and wake-ups under preemption between any two operations; the refinement of `Scheduler`; ready threads run, sleepers wake, waiting consumers get their items. | 3 threads, 1 item, delays 1 and 2 |
| `kernel_user` | The same locks, the interrupt flag, return paths, page table and TSS through user mode, system calls and page faults, among threads that sleep. | 3 threads, delays 0 and 2 |
| `timer_queue` | No closure early; none late without delays of zero; the loop of `insert()`. | 4 events, delays 0, 1, 2, 4 |
| `executor` | No panic, no lost wake-up, every task is polled again. | 2 task slots, 3 events |
| `heap` | Every frame and every object is in one place; frees find their owner; sizes and alignment hold. | 7 frames in 3 ranges and a reserved one, blocks of 1 to 4 frames, 2 classes, 4 allocations |
| `rbtree` | Insertions, removals and merges in any order leave a red-black search tree with exact augmented values, in which search and iteration find what they should. | 10 nodes, two with equal keys; trees of up to 5 nodes are merged |
| `address_space` | Spans, guards, pages and frames agree, also after a failed mapping; a gap is found whenever there is one. The memory of a process is what `load_elf` put there and zero elsewhere; reference counts are exact, and the page table that is loaded is allocated. | 7 pages of addresses, 8 frames, 2 processes, 2 threads; 1 allocation besides processes |
| `boot_alloc` | The spans say of every byte what was entered; every usable page reaches the buddy allocator exactly once, with its FrameInfo mapped unless usable spans of one type adjoined. | 15 pages of 2 bytes, 5 FrameInfos to a page, 3 map entries, 1 module, 6 slots |
| `screen` | The damage tracker knows the front window of every point, and what is not on the screen is marked, but for the two cases below. | 3 windows, 4 calls and any number of updates |
| `drawing` | Bands stand for the map the calls describe; `query` and `drain` report it point by point; `fill`, `blit` and `self_blit` leave every pixel as described and touch nothing else. | a plane of 3 by 3 points, 2 values, 2 updates |
| `console_scroll` | What `surface.rs:35` says of ownership is violated: scrolling frees the image of the frame buffer. | 3 lines of 2 characters and a margin |

Why the bounds are enough for the interesting cases: three threads are the idle
thread, one that blocks or exits, and one that wakes, preempts or takes the freed
id. One item makes two consumers compete; a delay of two lets a tick pass that
wakes nobody. Two task slots with three timers are enough for a waker to outlive
its task and meet a second task under the same id. Eight frames with blocks of up to
four have a largest block, a split over two orders, ranges that meet in the middle of
a block, and in frame 0 a buddy that is never free. The object sizes 3 and 4 in frames
of 8 are one class that is a power of two and one that is not, as 24, 48 and 96 are in
the code; the first leaves
a rest in its frame. Ten nodes are the fewest that make the fix-up after a
removal iterate: a black leaf then has a black parent below the root. Eight frames
are too few for seven pages, their tables and a process, so a mapping fails at its
first page, half way, and at a page table, and so does a page fault. Six slots for spans are too few for some
memory maps, so the list is compacted in the middle of an update and sometimes
is full even then, which panics. Pages of two bytes are the smallest that can be
free in part and reclaimable in part. Fifteen of them leave room for the frames
that `setup_page_table` takes from a span below the one it is at, which is what it
takes for a compaction to join that one with the next.

Two updates of any rectangles on three by three points make every way in which one
rectangle can cut another, and `drain` cuts the bands further. Three windows are one
that moves, one in front and one behind.

Five disagreements and limits met on the way:

- `self_blit` makes a second `Surface` of its own image, whose drop passes the image to
  `kernel_free`. `TextWriter` scrolls the frame buffer with it, and `direct_free` then
  panics, or faults, on an address that was never allocated (`console_scroll`). The panic
  handler prints through the same `WRITER`, whose lock is held.
- `FrameInfosMapped` of `BootAlloc`, the assumption stated at `buddy.rs:93`, does not hold:
  a compaction during the walk of `setup_page_table` can join the span it is at with the
  next one, which is then skipped. It needs two adjoining usable spans of one type, as
  from a memory map with adjoining available entries, free memory below them, and a list
  that fills up while the first of them is walked. Every page of FrameInfos adds a span
  until the list is compacted, so 128 slots do fill up on a machine with a few dozen
  megabytes. A memory map without such neighbours is safe (`MappedUnlessJoined`), and so
  would be a compaction before the walk.
- The comment at `mach.rs:44` says the interrupt flag is set iff `irq_lock_count` is *not*
  zero. The code keeps the opposite, `InterruptFlag`.
- `move_window` hands the old place of a window to the windows behind it and to nobody
  where there are none, so that the background there is not painted; and
  `rebuild_damage_tracker_move_to_back` keeps regions with `z_index >= new_z_index`, the
  window's own among them, so that a window sent back still shows where the ones that are
  now in front of it should. `TrackerSound` excepts these points (`exposed`) until a later
  call marks or paints them.
- `query` may return rectangles that begin above its boundary (`banded_region.rs:362`);
  `QueryExact` compares what they report inside of it. `drain` stays inside.

With no span in its tree, `find_gap` (`virtual_alloc.rs:104`) returns the whole range
whatever the size. The range is 16 TiB, so no caller meets this; `address_space` asks for
sizes the range can hold.

`timer_queue`, `screen` and `drawing` do not check for deadlock, since the bounds on ticks and
calls end their behaviours.

### Fairness

`Kernel`: the CPU performs the next operation (`WF` of `KernelStep`); the PIC keeps
the timer interrupt pending until it can be delivered (`SF` of `TimerIrq`); the
period of the PIT is longer than the handler, so the code that was interrupted
makes progress between ticks in each thread that gets to run (`SF` per thread). A
thread body promises nothing: it may compute for ever without calling the kernel.
`Executor`: the timer keeps ticking, handlers end, and the executor thread gets to
run, which is `ReadyRuns` of `Kernel`. That a poll ends is assumed.

Delays of zero are left out of the fair runs. `tick()` counts nothing down while
the head of the queue is at zero, so repeated delays of zero put off every later
timer, and `SleeperWakes` does not hold with them. `OnTime` states this limit.

## Proofs

| Module | What it proves |
|---|---|
| `OperatorProofs` | what the operators on queues, timers, counts and surfaces compute |
| `SchedulerProofs` | the invariant of `Scheduler` |
| `TimerQueueProofs` | the invariant of `TimerQueue`, and that its loop is the operator of `Timers` |
| `ExecutorProofs` | the invariant of `Executor` |
| `KernelStacks` | the stacks of the kernel's functions: what each relies on and leaves behind |
| `KernelSteps`, `KernelSwitches` | each action of `Kernel` keeps its invariant and is a step of `Scheduler` or none |
| `KernelProofs` | the theorems about `Kernel` |

### Scheduler

`SchedulerProofs` proves, for every `MaxThreads`, that `IInv` is inductive and from
it `TypeOK`, `ReadyQueueExact`, `DeferredToIdle`, `FreeListExact`,
`SchedAssertions` and `RemovedOnlyAfterExit`. None of these is inductive alone.
`ReadyQueueExact` needs to know that the thread `Spawn` creates was vacant, which is
`FreeListExact`; that needs to know that the thread cleaned up was in no queue,
which is `DeferredToIdle`; and that the idle thread can be switched to
(`IdleAvailable`) and that the one running thread is `current`
(`RunningIsCurrent`) are needed by all of them. The lemmas `PushBack` and
`PopFront` of `OperatorProofs` say what `Append` and `Tail` do to a queue without
duplicates. Assumed: `MaxThreads` is a positive natural number, `None` is not a number.

### Kernel

`KernelProofs` proves, for any number of threads, any bodies and any delays, every
safety property that the runs `kernel` and `kernel_user` check: `LocksOwned`,
`InterruptFlag`, `ReschedNotLost`, `UserContext`, `BlockedHasOneWakeup`, `NoLostWakeup`,
and the refinement `ImplementsScheduler`.

In `Kernel` a thread is the sequence of operations it has yet to perform, of any length,
so the invariant has to speak of all of them. `KernelContexts` does so with *contexts*. A
context is what a running thread knows: how many guards and which locks it holds, the
interrupt flag, a pending request to reschedule, whether its own page table and kernel
stack are in place, and how far it is in a function that is more than one step
(`phase`). Each operation relies on something (`Relies`, the code's assertions and locking
rules among it) and leaves something behind (`Leaves`). A stack is `Sound` from a context
on if every operation on it finds what it relies on.

The inductive invariant `KInv` is the invariant of `Scheduler` together with: the stack
of the running thread is sound from a context that agrees with the CPU's state
(`Running`); that of every other thread from a context just after a switch, with one guard
and only `SCHEDULER` (`Suspended`); no more spawns are under way than slots are vacant
(`SpawnsFit`); the timer queue holds exactly the sleeping threads, but for the one whose
closure the handler has taken (`SleepersExact`); the wait queue exactly the waiting ones
(`WaitersExact`); and while threads wait every item has a consumer that will still look,
but for the item being put or taken (`ItemsExact`). The last three see a thread that has
queued itself but not yet switched as blocked already (`StateIn`), which is what makes
them hold between the two steps.

The argument has four parts.

1. Stacks join where the context one leaves is the one the next relies on
   (`ConcatChain`). So each source function is proved once to lead from the context it is
   called in to the one it returns in: a handler restores the context it interrupts,
   `thread_sleep` and `sleep_until` the one they are called in, a new thread comes out of
   `switch()` like one that was suspended. These facts (`Groundwork`) are proved in
   `KernelStacks` and used by the other modules.
2. Each action takes an operation off the stack, or puts a function on it, and the context
   changes as `Leaves` says. There is a lemma for each action (`...Kept`). Spawning, waking
   and the passes of `sched()` change the thread table as the actions of `Scheduler` do;
   all other actions leave it alone.
3. So every step of `Kernel` is a step of `Scheduler` or none. `SchedulerProofs` then gives
   the part of `KInv` about the thread table, and with the initial states this is
   `ImplementsScheduler`.
4. A sound stack has as many guards to leave as its context has guards, drops each of its
   locks once, and wakes the thread its context says, once (`GuardsCounted`,
   `LocksCounted`, `WakesOnce`). The properties follow.

The third part is why the refinement and the invariant are proved together: that
`Scheduler::wake` finds its thread blocked is known from the queues, that the thread
`sched()` takes from the ready queue has a stack to return to from the scheduler's
invariant. The counts in `LocksOwned` and `BlockedHasOneWakeup` are sizes of sets of
positions in a stack. `CountingWorks` of `OperatorProofs` says how such a count follows
from one of the remaining operations, by going down from the last position.

Assumed: `MaxThreads` is a positive natural number, `None` is not a number, delays and
`MaxItems` are natural numbers, and bodies make only the calls `Kernel` knows.

### Timers and tasks

`TimerQueueProofs` proves, for all delays and any number of events, that the
deltas add up (`DeltasAddUp`), that the queue is in order, that the cursor of
`insert()` keeps count of what is left of the delay (`CursorInv`), and that the
queue plans each event at its target, or later once a delay of zero was asked for
(`DueInv`). `NeverEarly` and `OnTime` follow: a closure that is popped has delta
zero, so it is due now. It also proves `InsertIsInsertTimer`: the loop stops where
`InsertIndex` says (`CursorIsInsertIndex`), so the queues that the loop and the operator
make run the same closures at the same times, and those determine a queue
(`TimesDetermine`). Assumed: delays are natural numbers.

`OperatorProofs` proves what the operators of `Timers` do to the time at which each event
of a queue of any length is due: `InsertDue` for `insert()`, `TickDue` for `tick()`,
`TailDue` for `pop_closure()`. That time is a sum over the queue (`DueIn`, a recursive
function), so the proofs are inductions. They go through the least position at which a
claim fails, which exists because `<` on the natural numbers is well-founded
(`LeastNat`, `InductionUpTo`).

`ExecutorProofs` proves, for any number of task slots, all delays and any number of
timers, that `ReadyListExact` and `WakeupsKept` always hold. They are inductive only
together. A waker may be stale, so `wake()` keeps the ready list exact only because that
list is known to hold just the tasks in state Ready (`WakeExact`). `PausedHasTimer` needs
to know that a poll that was not woken has left a timer behind (`PollHasTimer`), and
that a sleep polled again still has one that fires no earlier than its target
(`SleepHasTimer`): the closure that is popped is due now, so it is not the one a task
still sleeps on. That last step is what the times of `OperatorProofs` are for. Assumed:
there is a task slot, and delays are natural numbers.

### Surfaces

`OperatorProofs` proves, for surfaces and rectangles of any size, that `fill()` sets
exactly the points of its rectangle, leaves the padding between width and stride alone
and never leaves the image (`FillExact`), because different points are different offsets
(`OffsetsApart`). Of `blit()` it proves that what it copies are the points the source has
(`CopiedFromSource`), and that the copied part and the four filled ones cover the
rectangle without overlap (`BlitCovers`). Coordinates are integers without a width.
Assumed (`IsSurface`): the image has room for its rows, and the stride is no less than
the width, which `Surface::new` provides and `from_raw` asks for.

### Only model-checked

- All liveness: it is under fairness, which is out of the prover's reach.
- `RbTree`, `BandedRegion` and with it `Screen` and `Drawing`, and `BootAlloc`. Their
  operators are recursive or fold over sequences with an operator as a parameter: the
  terms of augmented subtrees, the loops over bands, `update` of a list of spans. What
  such a definition computes for every input takes an induction over data that the
  prover cannot do.
- `Heap`: its blocks are powers of two at multiples of themselves, and the arithmetic of
  powers and remainders is beyond the installed provers; `buddy_add_range` cuts a range
  with a recursive function on sequences.
- `VirtualAlloc` and `AddressSpace`: the account of frames is a sum over processes, a fold
  with an operator as a parameter. No proof of the parts without it was attempted.
- The rows that `blit_unsafe` copies, for the same reason.

## What is not modelled

- The registers of threads and the decoding of ELF headers.
- A rectangle without area given to `BandedRegion`, which cuts a band and leaves an empty
  region; a test calls the outcome open (`banded_region.rs:474`), and windows have area.
- The fallback of `kernel_alloc` to the virtual allocator: `VirtualAlloc` models what it
  calls, and the two allocators meet only in the frames.
- Which FrameInfos `merge()` reads (`buddy.rs:177`), against those `setup_page_table` maps.
- More than one CPU: the kernel has one `Mach`.
- `BootInit`, GDT, IDT, PIC and PIT programming, which happen once before
  interrupts are enabled.
- Device output, VESA modes, glyphs, the RAM file system, multiboot parsing, symbol lookup:
  tables that are read, or output without protocol state.
- A spin mutex that is taken fairly: with one CPU a held lock is a deadlock, which
  `LocksOwned` and TLC's deadlock check exclude.
