--------------------------- MODULE KernelContexts ---------------------------
(***************************************************************************)
(* What each operation on a kernel stack relies on and what it leaves      *)
(* behind, and the inductive invariant of Kernel that is built from it.    *)
(*                                                                         *)
(* A context says what a thread that runs knows: the interrupt guards and  *)
(* locks it holds, the interrupt flag, and how far it is in the functions  *)
(* it is in.  A stack is sound from a context on if every operation on it  *)
(* finds the context it relies on, up to the operation that ends it.       *)
(*                                                                         *)
(* At the end are the facts that the proofs about steps share.             *)
(* KernelStacks and KernelProofs prove them; KernelSteps and               *)
(* KernelSwitches assume them.                                             *)
(***************************************************************************)
EXTENDS Kernel, Queues, Counting

(* How far a thread is: inside sched(), between the two halves of going to *)
(* sleep, of waiting, of waking a sleeper, of consuming and of producing.  *)
Phases == {"free", "switched", "continue", "Sleeping", "Waiting", "waking",
           "blocking", "take", "put", "end"}

(* The phases in which locks are taken and dropped. *)
Carried == {"free", "continue", "Sleeping", "Waiting", "waking", "blocking", "put"}

(* What a context says. *)
Fields ==
  [guards  : Nat,               \* irq_lock_count
   locks   : SUBSET Locks,      \* the locks it holds
   flag    : BOOLEAN,           \* interrupts are enabled
   resched : BOOLEAN,           \* irq_need_resched
   loaded  : BOOLEAN,           \* its own process is the active one
   stack   : BOOLEAN,           \* its own kernel stack is in the TSS
   phase   : Phases,
   wakes   : ThreadId \cup {None},             \* the sleeper it is waking
   call    : {"none", "spawn", "condition"},   \* an operation still to come
   idle    : BOOLEAN]           \* it is the idle thread

(* An interrupt finds no lock held and no request to reschedule. *)
WellFormed(c) ==
  /\ c.flag => c.guards = 0 /\ c.locks = {} /\ ~ c.resched /\ c.phase \in {"free", "end"}
  /\ c.wakes = None <=> c.phase # "waking"
  /\ c.phase \in {"blocking", "take", "put"} => "OBJECT" \in c.locks
  /\ c.phase \in {"blocking", "Waiting"} => c.call = "condition"
  /\ c.phase = "end" => c.guards = 0 /\ c.locks = {} /\ c.call = "none"

(* The contexts a thread can be in. *)
Context == {c \in Fields : WellFormed(c)}

(* Why sched() is called. *)
SchedReason == {"Yielding", "Exiting", "Waiting", "Sleeping"}

(* The arguments of operations. *)
Args == {None, TRUE} \cup Nat \cup Locks \cup SchedReason

(* The operations that stacks are made of. *)
OpNames ==
  {"enter", "leave", "acquire", "release", "spawn", "sched", "loop", "switched",
   "thread_entry", "insert", "tick", "pop_closure", "wake", "condition", "push_waiter",
   "wake_front", "wake_each", "take_item", "put_item", "need_resched",
   "end_of_interrupt", "resched", "drop_without_disabling", "iretq", "syscall_handler",
   "cli", "sysretq", "activate", "load_elf", "set_kernel_rsp", "user", "body",
   "unreachable"}

(* The operations with their arguments. *)
Ops == [op : OpNames, arg : Args]

(* Only the scheduler's lock is held. *)
OnlyScheduler(c) == c.guards = 1 /\ c.locks = {"SCHEDULER"} /\ ~ c.resched

(* No guard is held. *)
NoGuard(c) == c.guards = 0 /\ c.locks = {} /\ ~ c.resched /\ c.phase = "free"

(* What the operation e relies on. *)
Relies(e, c) ==
  CASE e.op = "enter" -> c.phase \in Carried
    [] e.op = "leave" -> c.phase \in Carried /\ c.guards > 0
    [] e.op = "acquire" -> c.phase \in Carried /\ c.guards > 0 /\ e.arg \in Locks \ c.locks
    [] e.op = "release" -> c.phase \in Carried /\ c.guards > 0 /\ e.arg \in c.locks
    [] e.op = "spawn" -> c.phase = "free" /\ c.guards > 0 /\ "SCHEDULER" \in c.locks /\ c.call = "spawn"
    [] e.op = "sched" ->
         /\ OnlyScheduler(c)
         /\ e.arg \in SchedReason
         /\ c.idle => e.arg = "Yielding"
         /\ e.arg = "Exiting" => c.call = "none"
         /\ c.phase = IF e.arg \in {"Sleeping", "Waiting"} THEN e.arg ELSE "free"
    [] e.op = "loop" -> OnlyScheduler(c) /\ c.phase = "continue" /\ c.idle /\ e.arg = "Yielding"
    [] e.op = "switched" ->
         OnlyScheduler(c) /\ c.phase = "switched" /\ (c.idle => e.arg = "Yielding")
    [] e.op = "thread_entry" -> OnlyScheduler(c) /\ c.phase = "switched" /\ ~ c.idle
    [] e.op = "insert" ->
         c.phase = "free" /\ c.guards > 0 /\ {"SCHEDULER", "TIMER_QUEUE"} \subseteq c.locks /\ e.arg \in Nat
    [] e.op = "tick" -> c.phase = "free" /\ c.guards > 0 /\ "TIMER_QUEUE" \in c.locks
    [] e.op = "pop_closure" -> c.phase = "free" /\ c.guards = 2 /\ c.locks = {"TIMER_QUEUE"}
    [] e.op = "wake" ->
         c.phase = "waking" /\ c.guards > 0 /\ "SCHEDULER" \in c.locks /\ c.wakes = e.arg
    [] e.op = "condition" ->
         /\ c.guards = 1 /\ c.locks = {"OBJECT"} /\ ~ c.resched
         /\ c.phase = "free" /\ c.call = "condition" /\ ~ c.idle
    [] e.op = "push_waiter" ->
         /\ c.phase = "blocking" /\ c.guards > 0 /\ c.call = "condition"
         /\ {"SCHEDULER", "OBJECT", "WAITERS"} \subseteq c.locks
    [] e.op \in {"wake_front", "wake_each"} ->
         /\ c.phase = "put" /\ c.guards > 0
         /\ {"SCHEDULER", "OBJECT", "WAITERS"} \subseteq c.locks
    [] e.op = "take_item" -> c.phase = "take" /\ c.guards > 0 /\ "OBJECT" \in c.locks
    [] e.op = "put_item" -> c.phase = "free" /\ c.guards > 0 /\ "OBJECT" \in c.locks
    [] e.op \in {"need_resched", "end_of_interrupt", "activate", "set_kernel_rsp"} ->
         c.phase = "free" /\ c.guards > 0
    [] e.op = "resched" -> c.phase = "free" /\ c.guards = 1 /\ c.locks = {}
    [] e.op = "drop_without_disabling" ->
         c.phase = "free" /\ c.guards = 1 /\ c.locks = {} /\ ~ c.resched
    [] e.op = "iretq" -> NoGuard(c) /\ ~ c.flag /\ e.arg = TRUE
    [] e.op \in {"syscall_handler", "sysretq"} -> NoGuard(c) /\ ~ c.flag
    [] e.op = "cli" -> NoGuard(c) /\ c.flag
    [] e.op = "load_elf" -> NoGuard(c) /\ c.flag /\ c.loaded
    [] e.op = "user" -> NoGuard(c) /\ c.flag /\ c.loaded /\ c.stack /\ c.call = "none" /\ ~ c.idle
    [] e.op = "body" -> NoGuard(c) /\ c.flag /\ c.call = "none"
    [] e.op = "unreachable" -> OnlyScheduler(c) /\ c.phase = "free" /\ c.call = "none"
    [] OTHER -> FALSE

(* What the operation e, or the loop it stands for, leaves behind. *)
Leaves(e, c) ==
  [guards  |-> CASE e.op = "enter" -> c.guards + 1
                 [] e.op \in {"leave", "drop_without_disabling", "condition",
                              "pop_closure", "unreachable"} -> c.guards - 1
                 [] OTHER -> c.guards,
   locks   |-> CASE e.op = "acquire" -> c.locks \cup {e.arg}
                 [] e.op = "release" -> c.locks \ {e.arg}
                 [] e.op \in {"condition", "pop_closure", "unreachable"} -> {}
                 [] OTHER -> c.locks,
   flag    |-> CASE e.op = "leave" -> c.guards = 1
                 [] e.op \in {"condition", "unreachable", "iretq", "syscall_handler",
                              "sysretq"} -> TRUE
                 [] e.op \in {"enter", "cli"} -> FALSE
                 [] OTHER -> c.flag,
   resched |-> CASE e.op = "need_resched" -> TRUE
                 [] e.op = "resched" -> FALSE
                 [] OTHER -> c.resched,
   loaded  |-> (c.loaded \/ e.op = "activate"),
   stack   |-> (c.stack \/ e.op = "set_kernel_rsp"),
   phase   |-> CASE e.op \in {"sched", "loop", "switched", "thread_entry", "wake",
                              "take_item", "wake_front", "wake_each"} -> "free"
                 [] e.op = "insert" -> "Sleeping"
                 [] e.op = "push_waiter" -> "Waiting"
                 [] e.op = "put_item" -> "put"
                 [] e.op \in {"user", "unreachable"} -> "end"
                 [] e.op = "body" /\ c.idle -> "end"
                 [] OTHER -> c.phase,
   wakes   |-> IF e.op = "wake" THEN None ELSE c.wakes,
   call    |-> IF e.op \in {"spawn", "condition"} THEN "none" ELSE c.call,
   idle    |-> c.idle]

(* The operation e leads from context c to context d. *)
Step(e, c, d) == Relies(e, c) /\ d = Leaves(e, c)

(* The operations of s lead from context c to context d. *)
Chain(s, c, d) ==
  /\ s \in Seq(Ops)
  /\ \E f \in [1 .. Len(s) + 1 -> Context] :
       /\ f[1] = c
       /\ f[Len(s) + 1] = d
       /\ \A i \in 1 .. Len(s) : Step(s[i], f[i], f[i + 1])

(* A thread in context c can perform s to its end. *)
Sound(s, c) == \E d \in Context : Chain(s, c, d) /\ d.phase = "end"

-----------------------------------------------------------------------------

(* The context c, but for one or a few of its fields. *)
Locking(c, guards, locks, flag) ==
  [guards |-> guards, locks |-> locks, flag |-> flag, resched |-> c.resched,
   loaded |-> c.loaded, stack |-> c.stack, phase |-> c.phase, wakes |-> c.wakes,
   call |-> c.call, idle |-> c.idle]

(* In another phase. *)
At(c, phase) ==
  [guards |-> c.guards, locks |-> c.locks, flag |-> c.flag, resched |-> c.resched,
   loaded |-> c.loaded, stack |-> c.stack, phase |-> phase, wakes |-> c.wakes,
   call |-> c.call, idle |-> c.idle]

(* With one more guard. *)
Guarded(c) == Locking(c, c.guards + 1, c.locks, FALSE)

(* With the lock l, and the guard that comes with it. *)
Locked(c, l) == Locking(c, c.guards + 1, c.locks \cup {l}, FALSE)

(* Interrupts are on just when no guard is held. *)
Calm(c) == c \in Context /\ c.phase \in Carried /\ (c.flag <=> c.guards = 0)

(* With interrupts off, but without a guard: where the CPU enters a        *)
(* handler.                                                                *)
Masked(c) == Locking(c, c.guards, c.locks, FALSE)

(* A thread outside the kernel's functions. *)
Outside(c) == c \in Context /\ NoGuard(c) /\ c.flag

(* About to make a call. *)
Making(c, call) ==
  [guards |-> c.guards, locks |-> c.locks, flag |-> c.flag, resched |-> c.resched,
   loaded |-> c.loaded, stack |-> c.stack, phase |-> c.phase, wakes |-> c.wakes,
   call |-> call, idle |-> c.idle]

(* About to wake the sleeper t, whose closure it has taken. *)
Waking(c, t) ==
  [guards |-> c.guards, locks |-> c.locks, flag |-> c.flag, resched |-> c.resched,
   loaded |-> c.loaded, stack |-> c.stack, phase |-> "waking", wakes |-> t,
   call |-> c.call, idle |-> c.idle]

(* With or without a request to reschedule. *)
Asking(c, asked) ==
  [guards |-> c.guards, locks |-> c.locks, flag |-> c.flag, resched |-> asked,
   loaded |-> c.loaded, stack |-> c.stack, phase |-> c.phase, wakes |-> c.wakes,
   call |-> c.call, idle |-> c.idle]

(* With or without its own process and its own stack in the TSS. *)
User(c, loaded, stack) ==
  [guards |-> c.guards, locks |-> c.locks, flag |-> c.flag, resched |-> c.resched,
   loaded |-> loaded, stack |-> stack, phase |-> c.phase, wakes |-> c.wakes,
   call |-> c.call, idle |-> c.idle]

(* A context just after a switch. *)
JustSwitched(c) == c \in Context /\ OnlyScheduler(c) /\ c.phase = "switched"

(* Inside a handler, with the handler's guard and no lock. *)
InHandler(c) == Calm(c) /\ c.guards = 1 /\ c.locks = {} /\ c.phase = "free"

(* How far sched() is when it is entered in context c. *)
PhasePc(c) == IF c.phase \in {"switched", "continue"} THEN c.phase ELSE "free"

(* Where Scheduler sees a thread with stack s. *)
StackPc(s) ==
  CASE Head(s).op \in {"switched", "thread_entry"} -> "switched"
    [] \E i \in DOMAIN s : s[i].op = "loop" -> "continue"
    [] OTHER -> "free"

(* The operation o is still to come on stack s. *)
HasOp(s, o) == \E i \in DOMAIN s : s[i].op = o

(* The consumers that will look at the object without being woken. *)
Awake == {t \in ThreadId : HasOp(prog[t], "condition") /\ ~ Holds(waiters, t)}

(* The vacant slots of the thread table. *)
Vacancies == {t \in ThreadId : threads[t] = "Vacant"}

(* The types of what Scheduler does not see. *)
Types ==
  /\ prog \in [ThreadId -> Seq(Ops)]
  /\ proc \in [ThreadId -> ThreadId \cup {None}]
  /\ active \in ThreadId \cup {None} /\ tss \in ThreadId \cup {None}
  /\ intr \in BOOLEAN /\ need \in BOOLEAN /\ inService \in BOOLEAN
  /\ IsTimers(ThreadId, timers)
  /\ waiters \in Seq(ThreadId)
  /\ items \in Nat

(* The running thread is in context c. *)
Running(c) ==
  /\ c \in Context
  /\ c.phase # "end"
  /\ Sound(prog[current], c)
  /\ c.guards = count /\ c.locks = held
  /\ (c.flag <=> intr) /\ (c.resched <=> need)
  /\ c.idle <=> current = IDLE
  /\ c.loaded => active = current
  /\ c.stack => tss = current

(* A thread that does not run: it will come out of switch() in a context   *)
(* its stack is sound from, with its own process if it relies on that; a   *)
(* waiting thread will look at its condition again.                        *)
Suspended(t) ==
  \E c : /\ JustSwitched(c)
         /\ c.idle <=> t = IDLE
         /\ c.loaded => proc[t] = t
         /\ threads[t] = "Waiting" => c.call = "condition"
         /\ threads[t] = "Exiting" => c.call = "none"
         /\ Sound(prog[t], c)

(* Threads have stacks and vacant slots have none. *)
Others ==
  \A t \in ThreadId :
    /\ threads[t] = "Vacant" => prog[t] = <<>>
    /\ t # current /\ threads[t] # "Vacant" => Suspended(t)

(* No more spawns are under way than there are vacant slots. *)
SpawnsFit == Cardinality(SpawnsPending) <= Cardinality(Vacancies)

(* The state of t; for the running thread, the one it is about to sleep    *)
(* in.                                                                     *)
StateIn(c, t) == IF t = current THEN c.phase ELSE threads[t]

(* Each sleeping thread, or one about to sleep, has exactly one wake-up:   *)
(* an event of the timer queue or the handler that took it.  Nobody else   *)
(* has one.                                                                *)
SleepersExact(c) ==
  /\ WakesApart(timers)
  /\ ~ WakesIn(timers, c.wakes)
  /\ \A t \in ThreadId : WakesIn(timers, t) \/ c.wakes = t <=> StateIn(c, t) = "Sleeping"

(* The threads that wait, or are about to, are those in the queue of       *)
(* waiters, once each.                                                     *)
WaitersExact(c) ==
  /\ Distinct(waiters)
  /\ \A t \in ThreadId : Holds(waiters, t) <=> StateIn(c, t) = "Waiting"

(* What consumer and producer know of the object while they hold its lock; *)
(* while a thread waits, every item has an awake consumer that will look   *)
(* at the object, but for the item that is just being put or taken.        *)
ItemsExact(c) ==
  /\ c.phase = "take" => items > 0
  /\ c.phase = "blocking" => items = 0
  /\ waiters # <<>> => items <= Cardinality(Awake) + One(c.phase \in {"put", "take"})

(* What Kernel adds to the scheduler's invariant when c is the context of  *)
(* the running thread.                                                     *)
Rest(c) ==
  /\ Types
  /\ Running(c)
  /\ Others
  /\ SpawnsFit
  /\ SleepersExact(c)
  /\ WaitersExact(c)
  /\ ItemsExact(c)

(* The inductive invariant of Kernel. *)
KInv == Abstract!IInv /\ \E c : Rest(c)

(* A step keeps the invariant, and is a step of Scheduler or none. *)
Kept == (\E d : Rest(d)') /\ [Abstract!Next]_(Abstract!vars)

(* The table of threads is finite, so sets of threads can be counted. *)
ThreadsCount ==
  /\ Cardinality({}) = 0
  /\ \A S \in SUBSET ThreadId :
       /\ Cardinality(S) \in Nat
       /\ \A R \in SUBSET S : Cardinality(R) <= Cardinality(S)
       /\ \A t \in S : Cardinality(S \ {t}) = Cardinality(S) - 1
       /\ \A t \in ThreadId \ S : Cardinality(S \cup {t}) = Cardinality(S) + 1

(* push_back and pop_front of a queue that holds no thread twice. *)
QueuesKeepOrder ==
  \A q \in Seq(ThreadId) :
    Distinct(q) =>
      /\ \A t \in ThreadId :
           ~ Holds(q, t) =>
             /\ Append(q, t) \in Seq(ThreadId) /\ Distinct(Append(q, t))
             /\ \A u : Holds(Append(q, t), u) <=> Holds(q, u) \/ u = t
      /\ q # <<>> =>
           /\ Head(q) \in ThreadId /\ Holds(q, Head(q))
           /\ Tail(q) \in Seq(ThreadId) /\ Distinct(Tail(q))
           /\ \A u : Holds(Tail(q), u) <=> Holds(q, u) /\ u # Head(q)

(* insert() and tick() of the timer queue: no thread is woken twice. *)
TimersWakeOnce ==
  \A q :
    IsTimers(ThreadId, q) /\ WakesApart(q) =>
      /\ \A n \in Nat, t \in ThreadId :
           ~ WakesIn(q, t) =>
             /\ IsTimers(ThreadId, InsertTimer(q, n, t)) /\ WakesApart(InsertTimer(q, n, t))
             /\ \A u : WakesIn(InsertTimer(q, n, t), u) <=> WakesIn(q, u) \/ u = t
      /\ IsTimers(ThreadId, TickQueue(q)) /\ WakesApart(TickQueue(q))
      /\ \A u : WakesIn(TickQueue(q), u) <=> WakesIn(q, u)

(* What is left to do on a stack is what its context says. *)
StacksTell ==
  \A s, c :
    Sound(s, c) =>
      /\ HasOp(s, "loop") <=> c.phase = "continue"
      /\ HasOp(s, "spawn") <=> c.call = "spawn"
      /\ HasOp(s, "condition") <=> c.call = "condition"

(* Stacks are joined where the context that one leaves is the context the  *)
(* next relies on.                                                         *)
StacksJoin ==
  /\ \A c \in Context : Chain(<<>>, c, c)
  /\ \A s, t, b, c, d : Chain(s, b, c) /\ Chain(t, c, d) => Chain(s \o t, b, d)
  /\ \A s, t, c, d : Chain(s, c, d) /\ Sound(t, d) => Sound(s \o t, c)
  /\ \A o \in OpNames, a \in Args, c, d \in Context :
       Relies(Op(o, a), c) /\ d = Leaves(Op(o, a), c) => Chain(<<Op(o, a)>>, c, d)

(* The first operation of a sound stack finds what it relies on. *)
StacksPop ==
  \A s, c :
    Sound(s, c) /\ c.phase # "end" =>
      /\ s \in Seq(Ops) /\ s # <<>>
      /\ Head(s) \in Ops
      /\ Tail(s) \in Seq(Ops)
      /\ c \in Context
      /\ \E d \in Context : Step(Head(s), c, d) /\ Sound(Tail(s), d)

(* Arguments, and the names of locks. *)
NamesKnown ==
  /\ None \in Args /\ TRUE \in Args /\ SchedReason \subseteq Args
  /\ \A n \in Nat : n \in Args
  /\ {"SCHEDULER", "TIMER_QUEUE", "OBJECT", "WAITERS", "PICS", "MEMORY", "PROC"} \subseteq Locks
  /\ Locks \subseteq Args

(* The calls that bodies make restore the context they are made in. *)
CallsReturn ==
  \A c :
    Outside(c) =>
      /\ Chain(ThreadYield, c, c)
      /\ Chain(Produce(WakeOne), c, c) /\ Chain(Produce(WakeAll), c, c)
      /\ ~ c.idle => \A n \in Nat : Chain(ThreadSleep(n), c, c)
      /\ c.call = "none" => Outside(Making(c, "spawn")) /\ Chain(ThreadSpawn, Making(c, "spawn"), c)
      /\ ~ c.idle /\ c.call = "none" =>
           Outside(Making(c, "condition")) /\ Chain(SleepUntil, Making(c, "condition"), c)

(* Bodies, the launch of a process and its system calls. *)
BodiesRun ==
  \A c :
    Outside(c) =>
      /\ c.idle /\ c.call = "none" => Sound(Do("body"), c)
      /\ ~ c.idle /\ c.call = "none" => Sound(Launch, c)
      /\ Masked(c) \in Context
      /\ \A call : Chain(call, c, c) => Chain(SyscallEntry(call), Masked(c), c)

(* A new thread comes out of switch() like one that was suspended. *)
ThreadsEnter ==
  /\ \A c :
       Outside(c) /\ ~ c.idle =>
         /\ JustSwitched(At(Locked(c, "SCHEDULER"), "switched"))
         /\ Chain(Do("thread_entry"), At(Locked(c, "SCHEDULER"), "switched"), Locked(c, "SCHEDULER"))
         /\ c.call = "none" => Sound(ThreadEntry, At(Locked(c, "SCHEDULER"), "switched"))
  /\ \A c : Calm(c) /\ "MEMORY" \notin c.locks => Chain(AllocatorCall, c, c)

(* Handlers restore the context they interrupt. *)
HandlersReturn ==
  /\ \A c :
       Outside(c) =>
         /\ c \in Context /\ Masked(c) \in Context /\ Guarded(c) \in Context
         /\ Calm(c) /\ InHandler(Guarded(c)) /\ ~ Guarded(c).resched
         /\ Chain(IntHandler(TimerInterrupt, TRUE), Masked(c), c)
         /\ Chain(IntHandler(PageFaultHandler, TRUE), Masked(c), c)
  /\ \A c :
       InHandler(c) /\ ~ c.resched =>
         Chain(LockWithInterruptGuard("SCHEDULER") \o <<Op("sched", "Yielding")>>
               \o IntoInterruptGuard("SCHEDULER"), c, c)
  /\ \A c, l :
       InHandler(c) /\ l \in Locks =>
         /\ c \in Context /\ Calm(c) /\ l \notin c.locks
         /\ Locked(c, l) \in Context /\ Calm(Locked(c, l))
         /\ Locked(c, l).phase = "free" /\ Locked(c, l).guards = 2
         /\ Locked(c, l).guards > 0 /\ Locked(c, l).locks = {l}

(* What sleep_until() does once it has looked at its condition. *)
WaitersContinue ==
  /\ \A c :
       Outside(c) =>
         /\ At(Locked(c, "OBJECT"), "take") \in Context
         /\ Chain(SleepUntilReturns, At(Locked(c, "OBJECT"), "take"), c)
         /\ ~ c.idle /\ c.call = "condition" =>
              /\ At(Locked(c, "OBJECT"), "blocking") \in Context
              /\ Chain(SleepUntilBlocks, At(Locked(c, "OBJECT"), "blocking"), c)
  /\ \A c \in Context : \A d :
       Relies(Op("condition", None), c) /\ d = Leaves(Op("condition", None), c) =>
         /\ Outside(d) /\ ~ d.idle /\ d.call = "none"
         /\ c = Locked(Making(d, "condition"), "OBJECT")

(* The timer interrupt runs the closures that are due, each with the lock  *)
(* of the timer queue dropped.                                             *)
ClosuresWake ==
  /\ \A c, t :
       InHandler(c) /\ t \in ThreadId =>
         /\ Waking(Locked(c, "TIMER_QUEUE"), t) \in Context
         /\ Chain(Drop("TIMER_QUEUE") \o Lock("SCHEDULER") \o <<Op("wake", t)>>
                  \o Drop("SCHEDULER") \o DrainTimers,
                  Waking(Locked(c, "TIMER_QUEUE"), t), c)
  /\ \A c \in Context : \A d :
       Relies(Op("pop_closure", None), c) /\ d = Leaves(Op("pop_closure", None), c) =>
         InHandler(d) /\ c = Locked(d, "TIMER_QUEUE")
  /\ \A c, l : Calm(c) /\ l \in Locks \ c.locks => Chain(Drop(l), Locked(c, l), c)

(* What the steps rely on that is not about a single step: what the stacks *)
(* of the kernel's functions do, proved in KernelStacks, and what takes    *)
(* counting or induction, proved in KernelProofs.                          *)
Groundwork ==
  /\ StacksJoin /\ StacksPop /\ NamesKnown
  /\ CallsReturn /\ BodiesRun /\ ThreadsEnter /\ HandlersReturn /\ WaitersContinue /\ ClosuresWake
  /\ StacksTell /\ ThreadsCount /\ QueuesKeepOrder /\ TimersWakeOnce

(* What a step starts from, besides Rest. *)
Base == Abstract!IInv /\ Groundwork
=============================================================================
