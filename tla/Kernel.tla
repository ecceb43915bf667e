------------------------------- MODULE Kernel -------------------------------
(***************************************************************************)
(* The kernel's single CPU at the grain of lock operations: threads,       *)
(* context switches, interrupts, system calls, IrqLocks, sleeping and wait *)
(* queues (sched.rs, sync.rs, interrupts.rs, mach.rs).                     *)
(*                                                                         *)
(* A thread's kernel stack is the sequence of operations it has yet to     *)
(* perform, prog[t].  A function of the source is the sequence of the      *)
(* operations it performs, in the order of its statements and of the drops *)
(* at the end of its scopes.  The CPU performs the first operation of the  *)
(* current thread; an interrupt puts the handler in front of it.           *)
(***************************************************************************)
EXTENDS Timers, FiniteSets

CONSTANTS
  MaxThreads,   \* bound: slots of the thread table
  None,
  Calls,        \* the calls thread bodies make, a subset of AllCalls
  Delays,       \* delays of thread_sleep, in ticks
  MaxItems      \* bound: items a waiting thread can be given

IDLE == 0
ThreadId == 0 .. MaxThreads - 1
AllCalls == {"yield", "exit", "spawn", "sleep", "consume", "produce",
             "produce_all", "launch", "syscall", "fault"}
Locks == {"SCHEDULER", "TIMER_QUEUE", "OBJECT", "WAITERS", "PICS", "MEMORY", "PROC"}
IdleCalls == {"yield", "spawn", "produce", "produce_all"}

ASSUME KernelAssumption ==
  /\ MaxThreads \in Nat \ {0}
  /\ None \notin Nat
  /\ Calls \subseteq AllCalls
  /\ Delays \subseteq Nat
  /\ MaxItems \in Nat

VARIABLES
  threads, len, free, ready,  \* the Scheduler, protected by SCHEDULER
  current,      \* mach().current_thread_id
  deferred,     \* the DeferredAction switch() hands over, None or a thread
  prog,         \* what is left to do on each kernel stack
  intr,         \* the CPU's interrupt flag
  count,        \* mach().irq_lock_count
  held,         \* the spin mutexes that are locked
  need,         \* mach().irq_need_resched
  inService,    \* the PIC awaits the end of the timer interrupt
  proc,         \* SchedThread.proc; a process is named after its thread
  active,       \* mach().current_proc, the process whose page table is loaded
  tss,          \* the thread whose kernel stack user mode enters the kernel on
  timers,       \* TIMER_QUEUE.timers; a closure wakes the thread it holds
  waiters,      \* the WaitQueue's waiters
  items         \* the object guarded by OBJECT: items left to consume

sched == <<threads, len, free, ready, current, deferred>>
irq == <<intr, count, held, need, inService>>
user == <<proc, active, tss>>
queues == <<timers, waiters, items>>
vars == <<sched, prog, irq, user, queues>>

Op(op, arg) == [op |-> op, arg |-> arg]
Do(op) == <<Op(op, None)>>
Now == Head(prog[current])

(* The operation at hand is done and `todo` comes before the rest. *)
Then(todo) == prog' = [prog EXCEPT ![current] = todo \o Tail(@)]

-----------------------------------------------------------------------------
(* sync.rs: IrqLock *)

Lock(l) == Do("enter") \o <<Op("acquire", l)>>

LockWithInterruptGuard(l) == <<Op("acquire", l)>>

(* Bug: the InterruptGuard is the first field. *)
BugInterruptGuardFirst(l) == Do("leave") \o <<Op("release", l)>>

(* Fields drop in order: the MutexGuard, then the InterruptGuard. *)
Drop(l) == <<Op("release", l)>> \o Do("leave")

(* into_interrupt_guard() keeps the InterruptGuard. *)
IntoInterruptGuard(l) == <<Op("release", l)>>

(* Bug: the guard the previous thread left behind is not dropped. *)
BugForceUnlockKeepsGuard(l) == <<Op("release", l)>>

ForceUnlock(l) == <<Op("release", l)>> \o Do("leave")

(* sched.rs: the functions threads call *)

ThreadYield ==
  Lock("SCHEDULER") \o <<Op("sched", "Yielding")>> \o Drop("SCHEDULER")

(* The allocators have IrqLocks of their own; one stands for all. *)
AllocatorCall == Lock("MEMORY") \o Drop("MEMORY")

ThreadExit ==
  Lock("SCHEDULER") \o <<Op("sched", "Exiting")>> \o Do("unreachable")

(* spawn_inner allocates the stack under the scheduler's lock. *)
ThreadSpawn ==
  Lock("SCHEDULER") \o AllocatorCall \o Do("spawn") \o Drop("SCHEDULER")

RunLater(ticks) == Lock("TIMER_QUEUE") \o <<Op("insert", ticks)>> \o Drop("TIMER_QUEUE")

ThreadSleep(ticks) ==
  Lock("SCHEDULER") \o RunLater(ticks) \o <<Op("sched", "Sleeping")>> \o Drop("SCHEDULER")

ThreadEntry ==
  Do("thread_entry") \o ForceUnlock("SCHEDULER") \o Do("body") \o ThreadExit

(* WaitQueue::sleep_until(OBJECT, items > 0); `condition` decides. *)
SleepUntil == Lock("OBJECT") \o Do("condition")

(* Bug: the object is unlocked before the thread queues. *)
BugUnlocksObjectEarly ==
  Drop("OBJECT") \o Lock("SCHEDULER") \o Lock("WAITERS") \o Do("push_waiter")
  \o Drop("WAITERS") \o <<Op("sched", "Waiting")>> \o Drop("SCHEDULER")

SleepUntilBlocks ==
  Lock("SCHEDULER") \o Lock("WAITERS") \o Do("push_waiter") \o Drop("WAITERS")
  \o Drop("OBJECT") \o <<Op("sched", "Waiting")>> \o Drop("SCHEDULER")

(* A consumer takes an item under the lock sleep_until returns. *)
Consume == SleepUntil

SleepUntilReturns == Do("take_item") \o Drop("OBJECT")

WakeOne ==
  Lock("SCHEDULER") \o Lock("WAITERS") \o Do("wake_front") \o Drop("WAITERS") \o Drop("SCHEDULER")

WakeAll ==
  Lock("SCHEDULER") \o Lock("WAITERS") \o Do("wake_each") \o Drop("WAITERS") \o Drop("SCHEDULER")

(* A producer changes the object and wakes under its lock, the way         *)
(* Executor::spawn and Executor::wake do.                                  *)
Produce(wake) == Lock("OBJECT") \o Do("put_item") \o wake \o Drop("OBJECT")

(* interrupts.rs *)

DrainTimers == Lock("TIMER_QUEUE") \o Do("pop_closure")

TimerInterrupt ==
  Lock("TIMER_QUEUE") \o Do("tick") \o Drop("TIMER_QUEUE") \o DrainTimers
  \o Do("need_resched") \o Lock("PICS") \o Do("end_of_interrupt") \o Drop("PICS")

(* The way through the handler that maps a page: its locks.  The pages,    *)
(* the unwraps and the fault outside of the mappings are AddressSpace's.   *)
PageFaultHandler == Lock("PROC") \o AllocatorCall \o Drop("PROC")

IntHandler(handler, rflags) ==
  Do("enter") \o handler \o Do("resched")
  \o Do("drop_without_disabling") \o <<Op("iretq", rflags)>>

(* user.rs: activate(), load_elf(), and launch() up to its iretq; the rest *)
(* of the kernel stack is given up for good.                               *)
Activate == Do("enter") \o Do("activate") \o Lock("PROC") \o Drop("PROC") \o Do("leave")

ThreadStack == Lock("SCHEDULER") \o Drop("SCHEDULER")

(* The lock that add_mapping is called with, once for all segments and the *)
(* stack, and the copies, which fault; AddressSpace has them one by one.   *)
LoadElf == Lock("PROC") \o Drop("PROC") \o Do("load_elf")

Launch ==
  Activate \o LoadElf \o Do("enter") \o ThreadStack \o Do("set_kernel_rsp")
  \o Do("drop_without_disabling") \o <<Op("iretq", TRUE)>> \o Do("user")

SyscallEntry(call) == Do("syscall_handler") \o call \o Do("cli") \o Do("sysretq")

-----------------------------------------------------------------------------
Init ==
  /\ threads = [t \in ThreadId |-> IF t = IDLE THEN "Running" ELSE "Vacant"]
  /\ len = 1
  /\ free = <<>>
  /\ ready = <<>>
  /\ current = IDLE
  /\ deferred = None
  /\ prog = [t \in ThreadId |-> IF t = IDLE THEN Do("body") ELSE <<>>]
  /\ intr = TRUE
  /\ count = 0
  /\ held = {}
  /\ need = FALSE
  /\ inService = FALSE
  /\ proc = [t \in ThreadId |-> None]
  /\ active = None
  /\ tss = None
  /\ timers = <<>>
  /\ waiters = <<>>
  /\ items = 0

-----------------------------------------------------------------------------
(* Interrupt guards and mutexes *)

Enter ==
  /\ Now.op = "enter"
  /\ intr' = FALSE
  /\ count' = count + 1
  /\ Then(<<>>)
  /\ UNCHANGED <<sched, held, need, inService, user, queues>>

(* Bug: dropping an inner guard enables interrupts. *)
BugLeaveEnables ==
  /\ Now.op = "leave"
  /\ count' = count - 1
  /\ intr' = TRUE
  /\ Then(<<>>)
  /\ UNCHANGED <<sched, held, need, inService, user, queues>>

Leave ==
  /\ Now.op = "leave"
  /\ count' = count - 1
  /\ intr' = (intr \/ count = 1)
  /\ Then(<<>>)
  /\ UNCHANGED <<sched, held, need, inService, user, queues>>

(* spin::Mutex: spins while the mutex is locked. *)
Acquire ==
  /\ Now.op = "acquire"
  /\ Now.arg \notin held
  /\ held' = held \cup {Now.arg}
  /\ Then(<<>>)
  /\ UNCHANGED <<sched, intr, count, need, inService, user, queues>>

Release ==
  /\ Now.op = "release"
  /\ held' = held \ {Now.arg}
  /\ Then(<<>>)
  /\ UNCHANGED <<sched, intr, count, need, inService, user, queues>>

-----------------------------------------------------------------------------
(* The Scheduler *)

InsertedId == IF free # <<>> THEN Head(free) ELSE len

SpawnInner ==
  /\ Now.op = "spawn"
  /\ IF free # <<>> THEN free' = Tail(free) /\ len' = len
                    ELSE free' = free /\ len' = len + 1
  /\ threads' = [threads EXCEPT ![InsertedId] = "Ready"]
  /\ ready' = Append(ready, InsertedId)
  /\ prog' = [prog EXCEPT ![InsertedId] = ThreadEntry, ![current] = Tail(@)]
  /\ proc' = [proc EXCEPT ![InsertedId] = None]
  /\ UNCHANGED <<current, deferred, irq, active, tss, queues>>

(* Scheduler::wake; its assertion is WakeAssertion below. *)
WakeThread(t) ==
  /\ threads' = [threads EXCEPT ![t] = "Ready"]
  /\ ready' = Append(ready, t)
  /\ UNCHANGED <<len, free, current, deferred>>

(* Bug: an exiting thread hands over to the first ready one. *)
BugExitToReady(reason) == IF ready = <<>> THEN IDLE ELSE Head(ready)

NextThread(reason) == IF reason = "Exiting" \/ ready = <<>> THEN IDLE ELSE Head(ready)

Remaining(reason) == IF reason = "Exiting" \/ ready = <<>> THEN ready ELSE Tail(ready)

(* Bug: a yielding thread is not put back. *)
BugYieldDequeues(reason) == Remaining(reason)

Requeue(reason) ==
  IF reason = "Yielding" /\ current # IDLE
  THEN Append(Remaining(reason), current) ELSE Remaining(reason)

(* Bug: the process is not switched with the thread. *)
BugKeepsProc(next) ==
  /\ proc' = [proc EXCEPT ![current] = active]
  /\ tss' = next
  /\ UNCHANGED active

(* The process and the kernel stack that go with the next thread.  A       *)
(* thread without a process keeps the previous one loaded.                 *)
SwitchProc(next) ==
  /\ proc' = [proc EXCEPT ![current] = active]
  /\ active' = IF proc[next] = None THEN active ELSE proc[next]
  /\ tss' = next

(* One pass of the loop of sched(), for a thread that calls it ("sched")   *)
(* or goes around again ("loop").  The stack keeps the pass's reason.      *)
SchedPass ==
  /\ Now.op \in {"sched", "loop"}
  /\ LET reason == Now.arg
         next   == NextThread(reason)
     IN \/ /\ reason = "Yielding" /\ ready = <<>>
           /\ Then(<<>>)
           /\ UNCHANGED <<sched, user>>
        \/ /\ ~ (reason = "Yielding" /\ ready = <<>>)
           /\ threads' = [threads EXCEPT
                ![current] = IF reason = "Yielding" THEN "Ready" ELSE reason,
                ![next] = "Running"]
           /\ ready' = Requeue(reason)
           /\ deferred' = IF reason = "Exiting" THEN current ELSE None
           /\ current' = next
           /\ SwitchProc(next)
           /\ Then(<<Op("switched", reason)>>)
           /\ UNCHANGED <<len, free>>
  /\ UNCHANGED <<irq, queues>>

(* switch() returns in a thread that had called sched(); clean_up() drops  *)
(* the exited thread with its stack, and the loop goes around.             *)
Switched ==
  /\ Now.op = "switched"
  /\ \/ /\ deferred = None
        /\ Then(<<>>)
        /\ UNCHANGED sched
     \/ /\ deferred # None
        /\ threads' = [threads EXCEPT ![deferred] = "Vacant"]
        /\ free' = Append(free, deferred)
        /\ deferred' = None
        /\ prog' = [prog EXCEPT
                      ![current] = AllocatorCall \o <<Op("loop", Now.arg)>> \o Tail(@),
                      ![deferred] = <<>>]
        /\ UNCHANGED <<len, ready, current>>
  /\ UNCHANGED <<irq, user, queues>>

(* switch() enters a new thread, which looks at no deferred action. *)
ThreadStarts ==
  /\ Now.op = "thread_entry"
  /\ Then(<<>>)
  /\ UNCHANGED <<sched, irq, user, queues>>

-----------------------------------------------------------------------------
(* Timers and wait queues *)

InsertTimerEvent ==
  /\ Now.op = "insert"
  /\ timers' = InsertTimer(timers, Now.arg, current)
  /\ Then(<<>>)
  /\ UNCHANGED <<sched, irq, user, waiters, items>>

(* The count of ticks, and the tick that run_later returns, are kept by    *)
(* TimerQueue; thread_sleep does not use them.                             *)
Tick ==
  /\ Now.op = "tick"
  /\ timers' = TickQueue(timers)
  /\ Then(<<>>)
  /\ UNCHANGED <<sched, irq, user, waiters, items>>

(* The lock is dropped before the closure runs and taken again after it. *)
PopClosure ==
  /\ Now.op = "pop_closure"
  /\ \/ /\ FirstIsDue(timers)
        /\ timers' = Tail(timers)
        /\ Then(Drop("TIMER_QUEUE") \o Lock("SCHEDULER") \o <<Op("wake", timers[1].closure)>>
                \o Drop("SCHEDULER") \o DrainTimers)
     \/ /\ ~ FirstIsDue(timers)
        /\ Then(Drop("TIMER_QUEUE"))
        /\ UNCHANGED timers
  /\ UNCHANGED <<sched, irq, user, waiters, items>>

WakeSleeper ==
  /\ Now.op = "wake"
  /\ WakeThread(Now.arg)
  /\ Then(<<>>)
  /\ UNCHANGED <<irq, user, queues>>

(* The test of the condition in sleep_until. *)
Condition ==
  /\ Now.op = "condition"
  /\ Then(IF items > 0 THEN SleepUntilReturns ELSE SleepUntilBlocks \o SleepUntil)
  /\ UNCHANGED <<sched, irq, user, queues>>

PushWaiter ==
  /\ Now.op = "push_waiter"
  /\ waiters' = Append(waiters, current)
  /\ Then(<<>>)
  /\ UNCHANGED <<sched, irq, user, timers, items>>

(* Bug: front() instead of pop_front(). *)
BugWakeKeepsWaiter ==
  /\ Now.op \in {"wake_front", "wake_each"}
  /\ IF waiters = <<>> THEN UNCHANGED sched ELSE WakeThread(Head(waiters))
  /\ Then(<<>>)
  /\ UNCHANGED <<irq, user, queues>>

(* wake_one() wakes the front waiter; wake_all() goes on until none is left. *)
WakeFront ==
  /\ Now.op \in {"wake_front", "wake_each"}
  /\ \/ /\ waiters = <<>>
        /\ Then(<<>>)
        /\ UNCHANGED <<sched, waiters>>
     \/ /\ waiters # <<>>
        /\ WakeThread(Head(waiters))
        /\ waiters' = Tail(waiters)
        /\ Then(IF Now.op = "wake_each" THEN Do("wake_each") ELSE <<>>)
  /\ UNCHANGED <<irq, user, timers, items>>

TakeItem ==
  /\ Now.op = "take_item"
  /\ items' = items - 1
  /\ Then(<<>>)
  /\ UNCHANGED <<sched, irq, user, timers, waiters>>

PutItem ==
  /\ Now.op = "put_item"
  /\ items' = items + 1
  /\ Then(<<>>)
  /\ UNCHANGED <<sched, irq, user, timers, waiters>>

-----------------------------------------------------------------------------
(* Interrupts and system calls *)

NeedResched ==
  /\ Now.op = "need_resched"
  /\ need' = TRUE
  /\ Then(<<>>)
  /\ UNCHANGED <<sched, intr, count, held, inService, user, queues>>

EndOfInterrupt ==
  /\ Now.op = "end_of_interrupt"
  /\ inService' = FALSE
  /\ Then(<<>>)
  /\ UNCHANGED <<sched, intr, count, held, need, user, queues>>

(* Bug: load() instead of swap(false). *)
BugReschedKeepsFlag ==
  /\ Now.op = "resched"
  /\ Then(IF count = 1 /\ need
          THEN LockWithInterruptGuard("SCHEDULER") \o <<Op("sched", "Yielding")>>
               \o IntoInterruptGuard("SCHEDULER")
          ELSE <<>>)
  /\ UNCHANGED <<sched, irq, user, queues>>

(* The test at the end of int_handler; drop_would_reenable() is count = 1. *)
Resched ==
  /\ Now.op = "resched"
  /\ IF count = 1 /\ need
     THEN /\ need' = FALSE
          /\ Then(LockWithInterruptGuard("SCHEDULER") \o <<Op("sched", "Yielding")>>
                  \o IntoInterruptGuard("SCHEDULER"))
     ELSE Then(<<>>) /\ UNCHANGED need
  /\ UNCHANGED <<sched, intr, count, held, inService, user, queues>>

DropWithoutDisabling ==
  /\ Now.op = "drop_without_disabling"
  /\ count' = count - 1
  /\ Then(<<>>)
  /\ UNCHANGED <<sched, intr, held, need, inService, user, queues>>

IretQ ==
  /\ Now.op = "iretq"
  /\ intr' = Now.arg
  /\ Then(<<>>)
  /\ UNCHANGED <<sched, count, held, need, inService, user, queues>>

(* syscall_handler enables interrupts; syscall_entry disables them again;  *)
(* sysretq restores the flags of user mode.                                *)
SyscallFlag ==
  /\ Now.op \in {"syscall_handler", "cli", "sysretq"}
  /\ intr' = (Now.op # "cli")
  /\ Then(<<>>)
  /\ UNCHANGED <<sched, count, held, need, inService, user, queues>>

SetProc ==
  /\ Now.op = "activate"
  /\ active' = current
  /\ Then(<<>>)
  /\ UNCHANGED <<sched, irq, proc, tss, queues>>

(* The segments are copied into place. *)
ElfLoaded ==
  /\ Now.op = "load_elf"
  /\ Then(<<>>)
  /\ UNCHANGED <<sched, irq, user, queues>>

SetKernelRsp ==
  /\ Now.op = "set_kernel_rsp"
  /\ tss' = current
  /\ Then(<<>>)
  /\ UNCHANGED <<sched, irq, proc, active, queues>>

(* A timer interrupt is delivered between any two operations. *)
TimerIrq ==
  /\ intr
  /\ ~ inService
  /\ prog' = [prog EXCEPT ![current] = IntHandler(TimerInterrupt, intr) \o @]
  /\ intr' = FALSE
  /\ inService' = TRUE
  /\ UNCHANGED <<sched, count, held, need, user, queues>>

-----------------------------------------------------------------------------
(* The code of a thread outside the kernel's functions.  The idle thread   *)
(* is main(): it never blocks, never exits and never leaves the kernel.    *)

Calling(call) ==
  /\ Now.op = "body"
  /\ call \in (IF current = IDLE THEN Calls \cap IdleCalls ELSE Calls)

Before(todo) == prog' = [prog EXCEPT ![current] = todo \o @]

CallYield == Calling("yield") /\ Before(ThreadYield) /\ UNCHANGED <<sched, irq, user, queues>>

(* The body returns; thread_entry goes on to thread_exit(). *)
BodyReturns == Calling("exit") /\ Then(<<>>) /\ UNCHANGED <<sched, irq, user, queues>>

(* The bound MaxThreads: every thread_spawn under way will find a slot. *)
SpawnsPending == {t \in ThreadId : \E i \in DOMAIN prog[t] : prog[t][i].op = "spawn"}

CallSpawn ==
  /\ Calling("spawn")
  /\ Cardinality(SpawnsPending) < Cardinality({t \in ThreadId : threads[t] = "Vacant"})
  /\ Before(ThreadSpawn)
  /\ UNCHANGED <<sched, irq, user, queues>>

CallSleep ==
  /\ Calling("sleep")
  /\ \E d \in Delays : Before(ThreadSleep(d))
  /\ UNCHANGED <<sched, irq, user, queues>>

CallConsume == Calling("consume") /\ Before(Consume) /\ UNCHANGED <<sched, irq, user, queues>>

CallProduce ==
  /\ items < MaxItems
  /\ \/ Calling("produce") /\ Before(Produce(WakeOne))
     \/ Calling("produce_all") /\ Before(Produce(WakeAll))
  /\ UNCHANGED <<sched, irq, user, queues>>

CallLaunch ==
  /\ Calling("launch")
  /\ prog' = [prog EXCEPT ![current] = Launch]
  /\ UNCHANGED <<sched, irq, user, queues>>

(* The syscall instruction clears the interrupt flag (SFMask). *)
Syscall ==
  /\ Now.op = "user"
  /\ "syscall" \in Calls
  /\ intr' = FALSE
  /\ \/ Before(SyscallEntry(<<>>))
     \/ \E d \in Delays : Before(SyscallEntry(ThreadSleep(d)))
  /\ UNCHANGED <<sched, count, held, need, inService, user, queues>>

(* On a page of the process, in user mode or while load_elf fills it. *)
PageFault ==
  /\ Now.op \in {"user", "load_elf"}
  /\ "fault" \in Calls
  /\ Before(IntHandler(PageFaultHandler, intr))
  /\ intr' = FALSE
  /\ UNCHANGED <<sched, count, held, need, inService, user, queues>>

Body ==
  \/ CallYield \/ BodyReturns \/ CallSpawn \/ CallSleep \/ CallConsume
  \/ CallProduce \/ CallLaunch \/ Syscall \/ PageFault

(* The operations of the kernel's functions, each enabled at most one way. *)
KernelStep ==
  \/ Enter \/ Leave \/ Acquire \/ Release
  \/ SpawnInner \/ SchedPass \/ Switched \/ ThreadStarts
  \/ InsertTimerEvent \/ Tick \/ PopClosure \/ WakeSleeper
  \/ Condition \/ PushWaiter \/ WakeFront \/ TakeItem \/ PutItem
  \/ NeedResched \/ EndOfInterrupt \/ Resched \/ DropWithoutDisabling \/ IretQ
  \/ SyscallFlag \/ SetProc \/ ElfLoaded \/ SetKernelRsp

Next == Body \/ KernelStep \/ TimerIrq

Spec == Init /\ [][Next]_vars

(* The CPU never stops between two operations of the kernel.  The PIC      *)
(* keeps the timer interrupt pending until the flag is set.  The PIT's     *)
(* period is longer than the handler, so the code that was interrupted     *)
(* runs between two ticks, in whichever thread it is.  What a body does    *)
(* next, or whether it calls the kernel at all, is up to the body.         *)
Fairness ==
  /\ WF_vars(KernelStep)
  /\ SF_vars(TimerIrq)
  /\ \A t \in ThreadId : SF_vars(intr /\ current = t /\ KernelStep)

FairSpec == Spec /\ Fairness

-----------------------------------------------------------------------------
(* Every variable stays in its type. *)
TypeOK ==
  /\ threads \in [ThreadId -> {"Vacant", "Running", "Ready", "Exiting", "Waiting", "Sleeping"}]
  /\ len \in 1 .. MaxThreads
  /\ \A q \in {free, ready, waiters} : \A i \in DOMAIN q : q[i] \in ThreadId
  /\ current \in ThreadId
  /\ deferred \in ThreadId \cup {None}
  /\ intr \in BOOLEAN /\ need \in BOOLEAN /\ inService \in BOOLEAN
  /\ count \in Nat
  /\ held \subseteq Locks
  /\ proc \in [ThreadId -> ThreadId \cup {None}]
  /\ active \in ThreadId \cup {None} /\ tss \in ThreadId \cup {None}
  /\ \A i \in DOMAIN timers : timers[i].delta \in Nat /\ timers[i].closure \in ThreadId
  /\ items \in Nat

(* Guards a stack holds: those it will drop less those it has yet to take. *)
(* The loops that drop a guard later on stand for that drop.               *)
GuardsOf(t) ==
  LET Have(ops) == Cardinality({i \in DOMAIN prog[t] : prog[t][i].op \in ops})
  IN  Have({"leave", "drop_without_disabling", "condition", "pop_closure", "unreachable"})
      - Have({"enter"})

(* How often a stack is to release a lock, less the times it is to take it.*)
Owns(t, l) ==
  LET Have(op) == Cardinality({i \in DOMAIN prog[t] : prog[t][i] = Op(op, l)})
      Implicit ==
        Cardinality({i \in DOMAIN prog[t] :
          \/ prog[t][i].op = "condition" /\ l = "OBJECT"
          \/ prog[t][i].op = "pop_closure" /\ l = "TIMER_QUEUE"
          \/ prog[t][i].op = "unreachable" /\ l = "SCHEDULER"})
  IN  Have("release") + Implicit - Have("acquire")

(* Locks and guards pair up, across switches, new threads and interrupts.  *)
(* irq_lock_count, one per CPU, is the number of guards on the stack of    *)
(* the running thread, and a lock is held just when that stack is to       *)
(* release it.  Every other thread was switched away from with one guard,  *)
(* that of SCHEDULER, which passes from thread to thread.  An interrupt    *)
(* never finds a lock held: what the drop order of IrqLockGuard            *)
(* (sync.rs:79) and force_unlock are for.  And sched(), at every pass of   *)
(* its loop and whoever called it, holds nothing but SCHEDULER:            *)
(* "irq_lock_count == 1 when calling sched() (only the scheduler lock is   *)
(* held)" (mach.rs:45).                                                    *)
LocksOwned ==
  /\ TypeOK
  /\ intr => held = {}
  /\ Now.op \in {"sched", "loop"} => count = 1 /\ held = {"SCHEDULER"}
  /\ count = GuardsOf(current)
  /\ \A l \in Locks : Owns(current, l) = IF l \in held THEN 1 ELSE 0
  /\ \A t \in ThreadId \ {current} :
       threads[t] \notin {"Vacant", "Exiting"} =>
         /\ GuardsOf(t) = 1
         /\ \A l \in Locks : Owns(t, l) = IF l = "SCHEDULER" THEN 1 ELSE 0

(* Interrupts are enabled exactly while irq_lock_count is zero, but for    *)
(* the first and the last instructions of an interrupt or a system call,   *)
(* where the CPU or the entry code has the flag off on its own.  So the    *)
(* debug assertions hold: the flags int_handler returns with agree with    *)
(* the count, and syscall_handler starts with a count of zero.             *)
InterruptFlag ==
  /\ intr => count = 0
  /\ ~ intr /\ count = 0 => Now.op \in {"enter", "iretq", "syscall_handler", "sysretq"}
  /\ Now.op = "iretq" => Now.arg = (count = 0)
  /\ Now.op = "syscall_handler" => count = 0

(* Every blocked thread has exactly one wake-up coming: a sleeping one a   *)
(* timer or the call its timer's closure is about to make, a waiting one   *)
(* its place in the wait queue.  So Scheduler::wake finds its thread       *)
(* blocked (the assert at sched.rs:128), whoever calls it.                 *)
BlockedHasOneWakeup ==
  LET Wakeups(t) ==
        Cardinality({i \in DOMAIN timers : timers[i].closure = t})
        + Cardinality({i \in DOMAIN prog[current] : prog[current][i] = Op("wake", t)})
      Places(t) == Cardinality({i \in DOMAIN waiters : waiters[i] = t})
      Blocked(t) == threads[t] \in {"Waiting", "Sleeping"}
  IN  /\ \A t \in ThreadId \ {current} :
           /\ Wakeups(t) = IF threads[t] = "Sleeping" THEN 1 ELSE 0
           /\ Places(t) = IF threads[t] = "Waiting" THEN 1 ELSE 0
      /\ Now.op = "wake" => Blocked(Now.arg)
      /\ Now.op \in {"wake_front", "wake_each"} =>
           \A i \in DOMAIN waiters : Blocked(waiters[i])

(* No wake-up is lost between the test in sleep_until and the switch:      *)
(* while threads wait, no more items are left than there are consumers     *)
(* awake that will look for one.                                           *)
NoLostWakeup ==
  LET Awake == {t \in ThreadId : /\ \E i \in DOMAIN prog[t] : prog[t][i].op = "condition"
                                 /\ \A i \in DOMAIN waiters : waiters[i] # t}
  IN  "OBJECT" \notin held /\ waiters # <<>> => items <= Cardinality(Awake)

(* A thread in user mode, or filling its process's memory, has its own     *)
(* process's page table loaded, and in user mode its own kernel stack in   *)
(* the TSS, whatever ran on the CPU since it last did.                     *)
UserContext ==
  /\ Now.op \in {"load_elf", "user"} => active = current
  /\ Now.op = "user" => tss = current

(* irq_need_resched is acted on before the handler that set it returns.    *)
ReschedNotLost == intr => ~ need

-----------------------------------------------------------------------------
(* The kernel implements Scheduler: nothing but the methods, called with   *)
(* the lock held, changes the scheduler's state, and no path around the    *)
(* loop of sched() or into a new thread skips a step or a deferred action. *)
SchedulerPc ==
  CASE Now.op \in {"switched", "thread_entry"} -> "switched"
    [] \E i \in DOMAIN prog[current] : prog[current][i].op = "loop" -> "continue"
    [] OTHER -> "free"

Abstract == INSTANCE Scheduler WITH pc <- SchedulerPc

(* Scheduler's specification, as a property of this one. *)
ImplementsScheduler == Abstract!Spec

(* A ready thread runs: the ready queue and the timer interrupt leave      *)
(* nobody behind.  The idle thread, which is in no queue, has no such      *)
(* promise.                                                                *)
ReadyRuns ==
  \A t \in ThreadId \ {IDLE} : threads[t] = "Ready" ~> threads[t] = "Running"

(* A thread in thread_sleep is woken. *)
SleeperWakes ==
  \A t \in ThreadId \ {IDLE} : threads[t] = "Sleeping" ~> threads[t] = "Ready"

(* Waiting threads and items do not stay side by side for ever. *)
ItemsAreTaken == items > 0 /\ waiters # <<>> ~> items = 0 \/ waiters = <<>>
=============================================================================
