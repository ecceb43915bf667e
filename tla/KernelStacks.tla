---------------------------- MODULE KernelStacks ----------------------------
(***************************************************************************)
(* The functions of the kernel as stacks of operations: each restores the  *)
(* context it is called in, whatever that is, and finds the locks and the  *)
(* guards that it relies on.                                               *)
(***************************************************************************)
EXTENDS KernelContexts, Integers, TLAPS

(* Steps that Zenon cannot do, as with arithmetic, name SMT. *)
USE Zenon

(* A function without statements. *)
LEMMA EmptyChain == ASSUME NEW c \in Context PROVE Chain(<<>>, c, c)
<1>1. <<>> \in Seq(Ops) /\ Len(<<>>) = 0
  BY SMT
<1> DEFINE f == [i \in 1 .. 1 |-> c]
<1>2. f \in [1 .. 0 + 1 -> Context] /\ f[1] = c /\ f[0 + 1] = c
  BY SMT
<1> HIDE DEF f
<1>3. \A i \in 1 .. 0 : Step(<<>>[i], f[i], f[i + 1])
  BY SMT
<1> QED
  BY <1>1, <1>2, <1>3 DEF Chain

(* One operation. *)
LEMMA StepChain ==
  ASSUME NEW e \in Ops, NEW c \in Context, NEW d \in Context, Step(e, c, d)
  PROVE  Chain(<<e>>, c, d)
<1> DEFINE f == [i \in 1 .. 2 |-> IF i = 1 THEN c ELSE d]
<1>1. <<e>> \in Seq(Ops) /\ Len(<<e>>) = 1 /\ <<e>>[1] = e
  BY SMT
<1>2. f \in [1 .. 2 -> Context] /\ f[1] = c /\ f[2] = d
  BY SMT
<1> HIDE DEF f
<1>3. \A i \in 1 .. 1 : Step(<<e>>[i], f[i], f[i + 1])
  BY SMT, <1>1, <1>2
<1> QED
  BY SMT, <1>1, <1>2, <1>3 DEF Chain

(* One function after another. *)
LEMMA ConcatChain ==
  ASSUME NEW s, NEW t, NEW b, NEW c, NEW d, Chain(s, b, c), Chain(t, c, d)
  PROVE  Chain(s \o t, b, d)
<1> DEFINE m == Len(s)
           n == Len(t)
           r == s \o t
<1>1. s \in Seq(Ops) /\ t \in Seq(Ops) /\ m \in Nat /\ n \in Nat
  BY SMT DEF Chain
<1>2. PICK f \in [1 .. m + 1 -> Context] :
        f[1] = b /\ f[m + 1] = c /\ \A i \in 1 .. m : Step(s[i], f[i], f[i + 1])
  BY DEF Chain
<1>3. PICK g \in [1 .. n + 1 -> Context] :
        g[1] = c /\ g[n + 1] = d /\ \A i \in 1 .. n : Step(t[i], g[i], g[i + 1])
  BY DEF Chain
<1>4. /\ r \in Seq(Ops) /\ Len(r) = m + n
      /\ \A i \in 1 .. m : r[i] = s[i]
      /\ \A i \in m + 1 .. m + n : r[i] = t[i - m]
  BY SMT, <1>1
<1> HIDE DEF m, n, r
<1> DEFINE h == [i \in 1 .. m + n + 1 |-> IF i <= m + 1 THEN f[i] ELSE g[i - m]]
<1>5. h \in [1 .. m + n + 1 -> Context]
  BY SMT, <1>1, <1>2, <1>3
<1>6. /\ \A i \in 1 .. m + 1 : h[i] = f[i]
      /\ \A i \in m + 1 .. m + n + 1 : h[i] = g[i - m]
  BY SMT, <1>1, <1>2, <1>3
<1> HIDE DEF h
<1>7. h[1] = b /\ h[m + n + 1] = d
  BY SMT, <1>1, <1>2, <1>3, <1>6
<1>8. ASSUME NEW i \in 1 .. m + n PROVE Step(r[i], h[i], h[i + 1])
  <2>1. CASE i \in 1 .. m
    <3>1. i \in 1 .. m + 1 /\ i + 1 \in 1 .. m + 1
      BY SMT, <1>1, <2>1
    <3> QED
      BY <1>2, <1>4, <1>6, <2>1, <3>1
  <2>2. CASE i \in m + 1 .. m + n
    <3>1. /\ i \in m + 1 .. m + n + 1 /\ i + 1 \in m + 1 .. m + n + 1
          /\ i - m \in 1 .. n /\ (i + 1) - m = (i - m) + 1
      BY SMT, <1>1, <2>2
    <3>2. h[i] = g[i - m] /\ h[i + 1] = g[(i - m) + 1]
      BY SMT, <1>6, <3>1
    <3>3. r[i] = t[i - m]
      BY <1>4, <2>2
    <3> QED
      BY <1>3, <3>1, <3>2, <3>3
  <2> QED
    BY SMT, <1>1, <2>1, <2>2
<1> QED
  BY <1>4, <1>5, <1>7, <1>8 DEF Chain, r

(* What is in front of a sound stack makes it sound from further back. *)
LEMMA PushSound ==
  ASSUME NEW s, NEW t, NEW c, NEW d, Chain(s, c, d), Sound(t, d)
  PROVE  Sound(s \o t, c)
  BY ConcatChain DEF Sound

(* The operation at hand finds what it relies on, and the rest is sound    *)
(* from what it leaves behind on.                                          *)
LEMMA PopSound ==
  ASSUME NEW s, NEW c, Sound(s, c), c.phase # "end"
  PROVE  /\ s \in Seq(Ops) /\ s # <<>>
         /\ Head(s) \in Ops
         /\ Tail(s) \in Seq(Ops)
         /\ c \in Context
         /\ \E d \in Context : Step(Head(s), c, d) /\ Sound(Tail(s), d)
<1>1. PICK z \in Context : Chain(s, c, z) /\ z.phase = "end"
  BY DEF Sound
<1> DEFINE n == Len(s)
<1>2. s \in Seq(Ops) /\ n \in Nat
  BY SMT, <1>1 DEF Chain
<1>3. PICK f \in [1 .. n + 1 -> Context] :
        f[1] = c /\ f[n + 1] = z /\ \A i \in 1 .. n : Step(s[i], f[i], f[i + 1])
  BY <1>1 DEF Chain
<1>4. n # 0
  BY SMT, <1>1, <1>3
<1>5. /\ s # <<>> /\ Head(s) = s[1] /\ Head(s) \in Ops
      /\ Tail(s) \in Seq(Ops) /\ Len(Tail(s)) = n - 1
      /\ \A i \in 1 .. n - 1 : Tail(s)[i] = s[i + 1]
  BY SMT, <1>2, <1>4
<1> DEFINE g == [i \in 1 .. n |-> f[i + 1]]
           u == Tail(s)
<1> HIDE DEF n
<1>6. /\ g \in [1 .. n -> Context] /\ g[1] = f[2] /\ g[n] = z /\ f[2] \in Context
      /\ \A i \in 1 .. n - 1 : g[i] = f[i + 1] /\ g[i + 1] = f[i + 2]
  BY SMT, <1>2, <1>3, <1>4
<1> HIDE DEF g, u
<1>7. ASSUME NEW i \in 1 .. n - 1 PROVE Step(u[i], g[i], g[i + 1])
  <2>1. i + 1 \in 1 .. n /\ (i + 1) + 1 = i + 2
    BY SMT, <1>2
  <2> QED
    BY <1>3, <1>5, <1>6, <2>1 DEF u
<1>8. n = (n - 1) + 1 /\ 1 \in 1 .. n /\ 1 + 1 = 2 /\ 1 \in 1 .. n + 1
  BY SMT, <1>2, <1>4
<1>9. Chain(u, f[2], z)
  BY <1>5, <1>6, <1>7, <1>8 DEF Chain, u
<1>10. Step(Head(s), c, f[2]) /\ c \in Context
  BY <1>3, <1>5, <1>8
<1> QED
  BY <1>1, <1>2, <1>5, <1>6, <1>9, <1>10 DEF Sound, u

-----------------------------------------------------------------------------
(* The functions of the kernel, one after another. *)

(* Locks, reasons and delays are arguments. *)
LEMMA ArgTypes ==
  /\ None \in Args /\ TRUE \in Args
  /\ \A l \in Locks : l \in Args
  /\ \A r \in SchedReason : r \in Args
  /\ \A n \in Nat : n \in Args
  BY DEF Args

(* An operation that finds what it relies on. *)
LEMMA OpChain ==
  ASSUME NEW o \in OpNames, NEW a \in Args, NEW c \in Context, NEW d \in Context,
         Relies(Op(o, a), c), d = Leaves(Op(o, a), c)
  PROVE  Chain(<<Op(o, a)>>, c, d)
<1>1. Op(o, a) \in Ops
  BY DEF Ops, Op
<1> QED
  BY <1>1, StepChain DEF Step

(* InterruptGuard::new() turns interrupts off as it counts. *)
LEMMA GuardedCalm ==
  ASSUME NEW c, Calm(c) PROVE Guarded(c) \in Context /\ Calm(Guarded(c))
  BY SMT DEF Calm, Context, Fields, WellFormed, Guarded, Locking, Carried

(* IrqLock::lock() turns interrupts off as well. *)
LEMMA LockedCalm ==
  ASSUME NEW c, Calm(c), NEW l \in Locks PROVE Locked(c, l) \in Context /\ Calm(Locked(c, l))
  BY SMT DEF Calm, Context, Fields, WellFormed, Locked, Locking, Carried

(* Outside the kernel's functions nothing is locked. *)
LEMMA OutsideCalm ==
  ASSUME NEW c, Outside(c)
  PROVE  /\ Calm(c) /\ c.locks = {} /\ c.phase = "free" /\ c.guards = 0
         /\ Masked(c) \in Context
  BY DEF Outside, Calm, NoGuard, Carried, Masked, Locking, Context, Fields, WellFormed

(* InterruptGuard::new() adds a guard. *)
LEMMA EnterChain == ASSUME NEW c, Calm(c) PROVE Chain(Do("enter"), c, Guarded(c))
<1>1. Relies(Op("enter", None), c)
  BY DEF Calm, Relies, Op
<1>2. Guarded(c) = Leaves(Op("enter", None), c)
  BY DEF Calm, Leaves, Guarded, Locking, Op, Context, Fields
<1> QED
  BY <1>1, <1>2, GuardedCalm, ArgTypes, OpChain DEF Do, OpNames, Calm

(* Dropping the guard takes back what new() did, the flag included. *)
LEMMA LeaveChain == ASSUME NEW c, Calm(c) PROVE Chain(Do("leave"), Guarded(c), c)
<1>1. Relies(Op("leave", None), Guarded(c))
  BY SMT DEF Calm, Relies, Op, Guarded, Locking, Context, Fields
<1>2. c = Leaves(Op("leave", None), Guarded(c))
  BY SMT DEF Calm, Leaves, Guarded, Locking, Op, Context, Fields
<1> QED
  BY <1>1, <1>2, GuardedCalm, ArgTypes, OpChain DEF Do, OpNames, Calm

(* SpinLock::lock() takes a lock that is free, under a guard. *)
LEMMA AcquireChain ==
  ASSUME NEW c, Calm(c), NEW l \in Locks, l \notin c.locks
  PROVE  Chain(<<Op("acquire", l)>>, Guarded(c), Locked(c, l))
<1>1. Relies(Op("acquire", l), Guarded(c))
  BY SMT DEF Calm, Relies, Op, Guarded, Locking, Context, Fields
<1>2. Locked(c, l) = Leaves(Op("acquire", l), Guarded(c))
  BY DEF Calm, Leaves, Guarded, Locked, Locking, Op, Context, Fields
<1> QED
  BY <1>1, <1>2, GuardedCalm, LockedCalm, ArgTypes, OpChain DEF OpNames

(* Dropping the lock's guard takes back what lock() did. *)
LEMMA ReleaseChain ==
  ASSUME NEW c, Calm(c), NEW l \in Locks, l \notin c.locks
  PROVE  Chain(<<Op("release", l)>>, Locked(c, l), Guarded(c))
<1>1. Relies(Op("release", l), Locked(c, l))
  BY SMT DEF Calm, Relies, Op, Locked, Locking, Context, Fields
<1>2. (c.locks \cup {l}) \ {l} = c.locks
  OBVIOUS
<1>3. Guarded(c) = Leaves(Op("release", l), Locked(c, l))
  BY <1>2 DEF Calm, Leaves, Guarded, Locked, Locking, Op, Context, Fields
<1> QED
  BY <1>1, <1>3, GuardedCalm, LockedCalm, ArgTypes, OpChain DEF OpNames

(* IrqLock::lock(). *)
LEMMA LockChain ==
  ASSUME NEW c, Calm(c), NEW l \in Locks, l \notin c.locks
  PROVE  Chain(Lock(l), c, Locked(c, l))
  BY EnterChain, AcquireChain, ConcatChain DEF Lock

(* Dropping what IrqLock::lock() returned restores the caller's context. *)
LEMMA DropChain ==
  ASSUME NEW c, Calm(c), NEW l \in Locks, l \notin c.locks
  PROVE  Chain(Drop(l), Locked(c, l), c)
  BY ReleaseChain, LeaveChain, ConcatChain DEF Drop

(* An operation that finds what it relies on and changes nothing. *)
LEMMA SameChain ==
  ASSUME NEW c \in Context, NEW o \in OpNames, NEW a \in Args, Relies(Op(o, a), c),
         o \in {"tick", "end_of_interrupt", "load_elf"}
  PROVE  Chain(<<Op(o, a)>>, c, c)
<1>1. c = Leaves(Op(o, a), c)
  BY DEF Leaves, Op, Context, Fields
<1> QED
  BY <1>1, OpChain

(* sched() returns to its caller with the scheduler's lock, as it was      *)
(* called.                                                                 *)
LEMMA SchedChain ==
  ASSUME NEW c \in Context, NEW r \in SchedReason, OnlyScheduler(c),
         c.idle => r = "Yielding", r = "Exiting" => c.call = "none",
         c.phase = IF r \in {"Sleeping", "Waiting"} THEN r ELSE "free"
  PROVE  /\ At(c, "free") \in Context
         /\ Chain(<<Op("sched", r)>>, c, At(c, "free"))
<1>1. At(c, "free") \in Context
  BY DEF OnlyScheduler, At, Context, Fields, WellFormed, Phases, SchedReason
<1>2. Relies(Op("sched", r), c)
  BY DEF Relies, Op
<1>3. At(c, "free") = Leaves(Op("sched", r), c)
  BY DEF Leaves, Op, At, Context, Fields
<1> QED
  BY <1>1, <1>2, <1>3, ArgTypes, OpChain DEF OpNames

(* spawn_inner() is the last of a call of thread_spawn(). *)
LEMMA SpawnOpChain ==
  ASSUME NEW c \in Context, c.phase = "free", c.guards > 0, "SCHEDULER" \in c.locks, c.call = "none"
  PROVE  /\ Making(c, "spawn") \in Context
         /\ Chain(Do("spawn"), Making(c, "spawn"), c)
<1>1. Making(c, "spawn") \in Context
  BY DEF Making, Context, Fields, WellFormed
<1>2. Relies(Op("spawn", None), Making(c, "spawn"))
  BY DEF Relies, Op, Making
<1>3. c = Leaves(Op("spawn", None), Making(c, "spawn"))
  BY DEF Leaves, Op, Making, Context, Fields
<1> QED
  BY <1>1, <1>2, <1>3, ArgTypes, OpChain DEF OpNames, Do

(* Inserting the timer event is the first half of thread_sleep(). *)
LEMMA InsertChain ==
  ASSUME NEW c \in Context, c.phase = "free", c.guards > 0,
         "SCHEDULER" \in c.locks, "TIMER_QUEUE" \in c.locks, NEW n \in Nat
  PROVE  /\ At(c, "Sleeping") \in Context
         /\ Chain(<<Op("insert", n)>>, c, At(c, "Sleeping"))
<1>1. At(c, "Sleeping") \in Context
  BY DEF At, Context, Fields, WellFormed, Phases
<1>2. Relies(Op("insert", n), c)
  BY DEF Relies, Op
<1>3. At(c, "Sleeping") = Leaves(Op("insert", n), c)
  BY DEF Leaves, Op, At, Context, Fields
<1> QED
  BY <1>1, <1>2, <1>3, ArgTypes, OpChain DEF OpNames

(* A change of phase under a guard leaves the flag off. *)
LEMMA AtCalm ==
  ASSUME NEW c \in Context, c.guards > 0, c.phase # "waking", NEW p \in Carried, p # "waking",
         p \in {"blocking", "put"} => "OBJECT" \in c.locks,
         p \in {"blocking", "Waiting"} => c.call = "condition"
  PROVE  At(c, p) \in Context /\ Calm(At(c, p))
  BY SMT DEF Calm, At, Carried, Context, Fields, WellFormed, Phases

(* The phase a context is in. *)
LEMMA AtSame == ASSUME NEW c \in Context PROVE At(c, c.phase) = c
  BY DEF At, Context, Fields

(* A guard more, whatever the guards were. *)
LEMMA LockingAgain ==
  ASSUME NEW c, NEW guards, NEW locks, NEW flag
  PROVE  Guarded(Locking(c, guards, locks, flag)) = Locking(c, guards + 1, locks, FALSE)
  BY DEF Guarded, Locking

(* Only the last change of phase counts. *)
LEMMA AtAgain == ASSUME NEW c, NEW p, NEW q PROVE At(At(c, p), q) = At(c, q)
  BY DEF At

(* Locks and phases change independently. *)
LEMMA AtLocked == ASSUME NEW c, NEW p, NEW l PROVE At(Locked(c, l), p) = Locked(At(c, p), l)
  BY DEF At, Locked, Locking

(* What taking a lock changes, and what it does not. *)
LEMMA LockedFields ==
  ASSUME NEW c, Calm(c), NEW l \in Locks
  PROVE  /\ c.guards \in Nat /\ Locked(c, l).guards = c.guards + 1
         /\ Locked(c, l).guards > 0
         /\ Locked(c, l).locks = c.locks \cup {l}
         /\ Locked(c, l).phase = c.phase
         /\ Locked(c, l).call = c.call
         /\ Locked(c, l).resched <=> c.resched
         /\ Locked(c, l).idle <=> c.idle
         /\ ~ Locked(c, l).flag
  BY SMT DEF Locked, Locking, Calm, Context, Fields

(* What a change of phase does not change. *)
LEMMA AtFields ==
  ASSUME NEW c, NEW p
  PROVE  /\ At(c, p).guards = c.guards /\ At(c, p).locks = c.locks
         /\ At(c, p).phase = p /\ At(c, p).call = c.call
         /\ At(c, p).resched <=> c.resched
         /\ At(c, p).idle <=> c.idle
         /\ At(c, p).flag <=> c.flag
  BY DEF At

(* Two locks leave the same context in either order. *)
LEMMA LockedCommute ==
  ASSUME NEW c, NEW l, NEW m PROVE Locked(Locked(c, l), m) = Locked(Locked(c, m), l)
<1>1. (c.locks \cup {l}) \cup {m} = (c.locks \cup {m}) \cup {l}
  OBVIOUS
<1> QED
  BY <1>1 DEF Locked, Locking

(* The names of the locks. *)
LEMMA LockNames ==
  /\ "SCHEDULER" \in Locks /\ "TIMER_QUEUE" \in Locks /\ "OBJECT" \in Locks
  /\ "WAITERS" \in Locks /\ "PICS" \in Locks /\ "MEMORY" \in Locks /\ "PROC" \in Locks
  BY DEF Locks

(* The first lock that a thread takes is its only one. *)
LEMMA OutsideLocked ==
  ASSUME NEW c, Outside(c), NEW l \in Locks
  PROVE  /\ Calm(c) /\ l \notin c.locks
         /\ Locked(c, l) \in Context /\ Calm(Locked(c, l))
         /\ Locked(c, l).phase = "free"
         /\ Locked(c, l).guards = 1 /\ Locked(c, l).guards > 0
         /\ Locked(c, l).locks = {l} /\ l \in Locked(c, l).locks
         /\ ~ Locked(c, l).resched /\ ~ Locked(c, l).flag
<1>1. Calm(c) /\ c.locks = {} /\ c.guards = 0 /\ c.phase = "free" /\ ~ c.resched
  BY OutsideCalm DEF Outside, NoGuard
<1> QED
  BY SMT, <1>1, LockedCalm, LockedFields

(* A thread that locks the scheduler first may call sched(). *)
LEMMA SchedulerLocked ==
  ASSUME NEW c, Outside(c)
  PROVE  /\ Calm(c) /\ "SCHEDULER" \in Locks /\ "SCHEDULER" \notin c.locks
         /\ Locked(c, "SCHEDULER") \in Context /\ Calm(Locked(c, "SCHEDULER"))
         /\ OnlyScheduler(Locked(c, "SCHEDULER"))
         /\ Locked(c, "SCHEDULER").phase = "free"
         /\ Locked(c, "SCHEDULER").guards > 0
         /\ Locked(c, "SCHEDULER").locks = {"SCHEDULER"}
  BY OutsideLocked, LockNames DEF OnlyScheduler

(* thread_yield() returns to the context it was called in. *)
LEMMA YieldChain == ASSUME NEW c, Outside(c) PROVE Chain(ThreadYield, c, c)
<1> DEFINE k == Locked(c, "SCHEDULER")
<1>1. Chain(<<Op("sched", "Yielding")>>, k, k)
  <2> HIDE DEF k
  <2>1. k \in Context /\ OnlyScheduler(k) /\ k.phase = "free"
    BY SchedulerLocked DEF k
  <2> QED
    BY <2>1, SchedChain, AtSame DEF SchedReason
<1> QED
  BY <1>1, SchedulerLocked, LockChain, DropChain, ConcatChain DEF ThreadYield

(* A call of the allocator locks and unlocks MEMORY. *)
LEMMA AllocatorChain ==
  ASSUME NEW c, Calm(c), "MEMORY" \notin c.locks PROVE Chain(AllocatorCall, c, c)
  BY LockChain, DropChain, ConcatChain DEF AllocatorCall, Locks

(* thread_spawn() returns to the context it was called in, the call made. *)
LEMMA ThreadSpawnChain ==
  ASSUME NEW c, Outside(c), c.call = "none"
  PROVE  Outside(Making(c, "spawn")) /\ Chain(ThreadSpawn, Making(c, "spawn"), c)
<1> DEFINE b == Making(c, "spawn")
           k == Locked(c, "SCHEDULER")
           j == Locked(b, "SCHEDULER")
<1>1. Outside(b)
  BY DEF Outside, NoGuard, Making, Context, Fields, WellFormed
<1>2. j = Making(k, "spawn")
  BY DEF Making, Locked, Locking
<1>3. k.call = "none"
  BY SchedulerLocked, LockedFields
<1> HIDE DEF b, k, j
<1>4. Chain(Do("spawn"), j, k)
  BY <1>2, <1>3, SpawnOpChain, SchedulerLocked DEF k
<1>5. Calm(j) /\ "MEMORY" \notin j.locks
  BY SMT, <1>1, SchedulerLocked DEF j
<1>6. Chain(AllocatorCall, j, j)
  BY <1>5, AllocatorChain
<1>7. Chain(Lock("SCHEDULER"), b, j) /\ Chain(Drop("SCHEDULER"), k, c)
  BY <1>1, SchedulerLocked, LockChain, DropChain DEF k, j
<1> QED
  BY <1>1, <1>4, <1>6, <1>7, ConcatChain DEF ThreadSpawn, b

(* thread_sleep() returns to the context it was called in. *)
LEMMA SleepChain ==
  ASSUME NEW c, Outside(c), ~ c.idle, NEW n \in Nat PROVE Chain(ThreadSleep(n), c, c)
<1> DEFINE k == Locked(c, "SCHEDULER")
           j == At(k, "Sleeping")
<1>1. /\ k \in Context /\ Calm(k) /\ OnlyScheduler(k) /\ k.phase = "free" /\ ~ k.idle
      /\ k.guards > 0 /\ k.locks = {"SCHEDULER"}
  BY SchedulerLocked, LockedFields
<1> HIDE DEF k
<1>2. j \in Context /\ Calm(j) /\ j.locks = {"SCHEDULER"} /\ j.phase = "Sleeping" /\ ~ j.idle
  BY SMT, <1>1, AtCalm, AtFields DEF Carried
<1>3. OnlyScheduler(j)
  BY <1>1, AtFields DEF OnlyScheduler
<1>4. Chain(<<Op("sched", "Sleeping")>>, j, k)
  <2>1. At(j, "free") = k
    BY SMT, <1>1, AtAgain, AtSame
  <2> HIDE DEF j
  <2> QED
    BY <1>2, <1>3, <2>1, SchedChain DEF SchedReason
<1>6. "TIMER_QUEUE" \in Locks
  BY DEF Locks
<1>5. Chain(<<Op("insert", n)>>, Locked(k, "TIMER_QUEUE"), Locked(j, "TIMER_QUEUE"))
  <2> DEFINE q == Locked(k, "TIMER_QUEUE")
  <2>1. /\ q \in Context /\ q.phase = "free" /\ q.guards > 0
        /\ "SCHEDULER" \in q.locks /\ "TIMER_QUEUE" \in q.locks
    BY SMT, <1>1, <1>6, LockedFields, LockedCalm
  <2>2. Locked(j, "TIMER_QUEUE") = At(q, "Sleeping")
    BY SMT, AtLocked
  <2> HIDE DEF q
  <2> QED
    BY <2>1, <2>2, InsertChain DEF q
<1>7. Chain(Lock("TIMER_QUEUE"), k, Locked(k, "TIMER_QUEUE"))
      /\ Chain(Drop("TIMER_QUEUE"), Locked(j, "TIMER_QUEUE"), j)
  BY <1>1, <1>2, <1>6, LockChain, DropChain
<1> HIDE DEF j
<1>8. Chain(RunLater(n), k, j)
  BY <1>5, <1>7, ConcatChain DEF RunLater
<1>9. Chain(Lock("SCHEDULER"), c, k) /\ Chain(Drop("SCHEDULER"), k, c)
  BY SchedulerLocked, LockChain, DropChain DEF k
<1> QED
  BY <1>4, <1>8, <1>9, ConcatChain DEF ThreadSleep

-----------------------------------------------------------------------------

(* A body has returned: thread_exit() is the end of the stack. *)
LEMMA UnreachableSound ==
  ASSUME NEW c \in Context, OnlyScheduler(c), c.phase = "free", c.call = "none"
  PROVE  Sound(Do("unreachable"), c)
<1> DEFINE d == Leaves(Op("unreachable", None), c)
<1>1. d \in Context /\ d.phase = "end"
  BY SMT DEF OnlyScheduler, Leaves, Op, Context, Fields, WellFormed, Phases
<1>2. Relies(Op("unreachable", None), c)
  BY DEF Relies, Op
<1> HIDE DEF d
<1>3. Chain(Do("unreachable"), c, d)
  BY <1>1, <1>2, ArgTypes, OpChain DEF d, OpNames, Do
<1> QED
  BY <1>1, <1>3 DEF Sound

(* thread_exit() does not come back from sched(). *)
LEMMA ExitSound ==
  ASSUME NEW c, Outside(c), ~ c.idle, c.call = "none" PROVE Sound(ThreadExit, c)
<1> DEFINE k == Locked(c, "SCHEDULER")
<1>1. /\ k \in Context /\ OnlyScheduler(k) /\ k.phase = "free" /\ ~ k.idle /\ k.call = "none"
  BY SchedulerLocked, LockedFields
<1>2. Chain(Lock("SCHEDULER"), c, k)
  BY SchedulerLocked, LockChain
<1> HIDE DEF k
<1>3. Chain(<<Op("sched", "Exiting")>>, k, k)
  BY <1>1, SchedChain, AtSame DEF SchedReason
<1>4. Sound(Do("unreachable"), k)
  BY <1>1, UnreachableSound
<1> QED
  BY SMT, <1>2, <1>3, <1>4, ConcatChain, PushSound DEF ThreadExit

(* A thread's body starts and ends outside the kernel's functions. *)
LEMMA BodyChain ==
  ASSUME NEW c, Outside(c), ~ c.idle, c.call = "none" PROVE Chain(Do("body"), c, c)
<1>1. Relies(Op("body", None), c)
  BY DEF Outside, Relies, Op
<1>2. c = Leaves(Op("body", None), c)
  BY DEF Outside, Leaves, Op, Context, Fields
<1> QED
  BY <1>1, <1>2, ArgTypes, OpChain DEF OpNames, Do, Outside

(* thread_entry() is where a new thread comes out of switch(). *)
LEMMA EntryChain ==
  ASSUME NEW c, Outside(c), ~ c.idle
  PROVE  /\ JustSwitched(At(Locked(c, "SCHEDULER"), "switched"))
         /\ Chain(Do("thread_entry"), At(Locked(c, "SCHEDULER"), "switched"), Locked(c, "SCHEDULER"))
<1> DEFINE k == Locked(c, "SCHEDULER")
           j == At(k, "switched")
<1>1. /\ k \in Context /\ OnlyScheduler(k) /\ k.phase = "free" /\ ~ k.idle
  BY SchedulerLocked, LockedFields
<1> HIDE DEF k
<1>2. j \in Context
  BY <1>1 DEF At, OnlyScheduler, Context, Fields, WellFormed, Phases
<1>3. j.phase = "switched" /\ ~ j.idle /\ OnlyScheduler(j)
  BY <1>1, AtFields DEF OnlyScheduler
<1>4. k = Leaves(Op("thread_entry", None), j)
  BY <1>1 DEF Leaves, Op, At, Context, Fields
<1> HIDE DEF j
<1>5. Relies(Op("thread_entry", None), j)
  BY <1>3 DEF Relies, Op
<1>6. Chain(Do("thread_entry"), j, k)
  BY <1>1, <1>2, <1>4, <1>5, ArgTypes, OpChain DEF OpNames, Do
<1> QED
  BY <1>2, <1>3, <1>6 DEF JustSwitched, j, k

(* A new thread drops the scheduler's lock that it was switched to with,   *)
(* runs its body and exits.                                                *)
LEMMA ThreadEntrySound ==
  ASSUME NEW c, Outside(c), ~ c.idle, c.call = "none"
  PROVE  Sound(ThreadEntry, At(Locked(c, "SCHEDULER"), "switched"))
<1> DEFINE k == Locked(c, "SCHEDULER")
           j == At(k, "switched")
<1>1. Chain(Do("thread_entry"), j, k)
  BY EntryChain
<1>2. Chain(ForceUnlock("SCHEDULER"), k, c)
  BY SchedulerLocked, DropChain DEF ForceUnlock, Drop
<1>3. Chain(Do("body"), c, c) /\ Sound(ThreadExit, c)
  BY BodyChain, ExitSound
<1> HIDE DEF j, k
<1> QED
  BY SMT, <1>1, <1>2, <1>3, ConcatChain, PushSound DEF ThreadEntry, j, k

-----------------------------------------------------------------------------

(* Wait queues *)

(* The test of sleep_until, and what is left once it holds. *)
LEMMA ConditionContext ==
  ASSUME NEW c \in Context, Relies(Op("condition", None), c),
         NEW d, d = Leaves(Op("condition", None), c)
  PROVE  /\ Outside(d) /\ ~ d.idle /\ d.call = "none"
         /\ c = Locked(Making(d, "condition"), "OBJECT")
<1>1. /\ c.guards = 1 /\ c.locks = {"OBJECT"} /\ ~ c.resched
      /\ c.phase = "free" /\ c.call = "condition" /\ ~ c.idle
  BY DEF Relies, Op
<1>2. Outside(d) /\ ~ d.idle /\ d.call = "none"
  BY SMT, <1>1 DEF Leaves, Op, Outside, NoGuard, Context, Fields, WellFormed
<1>3. ~ c.flag
  BY <1>1 DEF Context, WellFormed
<1>4. {} \cup {"OBJECT"} = {"OBJECT"} /\ 1 - 1 + 1 = 1
  BY SMT
<1>5. c = Locked(Making(d, "condition"), "OBJECT")
  BY ZenonT(60), <1>1, <1>3, <1>4 DEF Leaves, Op, Locked, Locking, Making, Context, Fields
<1> QED
  BY <1>2, <1>5

(* sleep_until() returns to the context it was called in, having seen its  *)
(* condition hold.                                                         *)
LEMMA SleepUntilChain ==
  ASSUME NEW c, Outside(c), ~ c.idle, c.call = "none"
  PROVE  /\ Outside(Making(c, "condition"))
         /\ Chain(SleepUntil, Making(c, "condition"), c)
<1> DEFINE b == Making(c, "condition")
           o == Locked(b, "OBJECT")
<1>1. Outside(b) /\ ~ b.idle /\ b.call = "condition"
  BY DEF Outside, NoGuard, Making, Context, Fields, WellFormed
<1>2. Calm(b) /\ "OBJECT" \in Locks /\ "OBJECT" \notin b.locks /\ b.guards = 0 /\ b.locks = {}
  BY <1>1, OutsideCalm DEF Locks
<1>3. o \in Context
  BY <1>2, LockedCalm
<1>4. c = Leaves(Op("condition", None), o)
  BY SMT DEF Outside, NoGuard, Leaves, Op, Locked, Locking, Making, Context, Fields
<1>5. /\ o.guards = 1 /\ o.locks = {"OBJECT"} /\ ~ o.resched
      /\ o.phase = "free" /\ o.call = "condition" /\ ~ o.idle
  BY SMT, <1>1, <1>2, OutsideCalm, LockedFields DEF Outside, NoGuard
<1> HIDE DEF o
<1>6. Relies(Op("condition", None), o)
  BY <1>5 DEF Relies, Op
<1>7. Chain(Do("condition"), o, c)
  BY <1>3, <1>4, <1>6, ArgTypes, OpChain DEF OpNames, Do, Outside
<1>8. Chain(Lock("OBJECT"), b, o)
  BY <1>2, LockChain DEF o
<1> HIDE DEF b
<1> QED
  BY <1>1, <1>7, <1>8, ConcatChain DEF SleepUntil, b

(* Queueing itself is the first half of a thread's waiting. *)
LEMMA PushWaiterChain ==
  ASSUME NEW c \in Context, c.phase = "blocking", c.guards > 0, c.call = "condition",
         {"SCHEDULER", "OBJECT", "WAITERS"} \subseteq c.locks
  PROVE  /\ At(c, "Waiting") \in Context
         /\ Chain(Do("push_waiter"), c, At(c, "Waiting"))
<1>1. At(c, "Waiting") \in Context
  BY DEF At, Context, Fields, WellFormed, Phases
<1>2. Relies(Op("push_waiter", None), c)
  BY DEF Relies, Op
<1>3. At(c, "Waiting") = Leaves(Op("push_waiter", None), c)
  BY DEF Leaves, Op, At, Context, Fields
<1> QED
  BY <1>1, <1>2, <1>3, ArgTypes, OpChain DEF OpNames, Do

(* The object's lock goes after the scheduler's has been taken. *)
LEMMA BlocksChain ==
  ASSUME NEW b, Outside(b), ~ b.idle, b.call = "condition"
  PROVE  /\ At(Locked(b, "OBJECT"), "blocking") \in Context
         /\ Chain(SleepUntilBlocks, At(Locked(b, "OBJECT"), "blocking"), b)
<1> DEFINE o == Locked(b, "OBJECT")
           x == At(o, "blocking")
           xs == Locked(x, "SCHEDULER")
           z == Locked(xs, "WAITERS")
           k == Locked(b, "SCHEDULER")
           y == At(k, "Waiting")
           ys == Locked(y, "OBJECT")
<1>0. "OBJECT" \in Locks /\ "SCHEDULER" \in Locks /\ "WAITERS" \in Locks
  BY DEF Locks
<1>1. Calm(b) /\ b.locks = {} /\ b.guards = 0 /\ b.phase = "free"
  BY OutsideCalm
<1>2. /\ o \in Context /\ Calm(o) /\ o.locks = {"OBJECT"} /\ o.guards > 0 /\ o.phase = "free"
      /\ o.call = "condition"
  BY SMT, <1>0, <1>1, LockedCalm, LockedFields
<1>3. x \in Context /\ Calm(x) /\ x.locks = {"OBJECT"} /\ x.phase = "blocking" /\ x.call = "condition"
  <2> HIDE DEF o
  <2> QED
    BY SMT, <1>2, AtCalm, AtFields DEF Carried
<1>4. /\ xs \in Context /\ Calm(xs) /\ xs.locks = {"OBJECT", "SCHEDULER"} /\ xs.phase = "blocking"
      /\ xs.call = "condition"
  <2> HIDE DEF x
  <2> QED
    BY SMT, <1>0, <1>3, LockedCalm, LockedFields
<1>5. /\ z \in Context /\ Calm(z) /\ {"SCHEDULER", "OBJECT", "WAITERS"} \subseteq z.locks
      /\ z.phase = "blocking" /\ z.call = "condition" /\ z.guards > 0
  <2> HIDE DEF xs
  <2>1. z.locks = {"OBJECT", "SCHEDULER"} \cup {"WAITERS"}
    BY SMT, <1>0, <1>4, LockedFields
  <2>2. {"SCHEDULER", "OBJECT", "WAITERS"} \subseteq z.locks
    BY <2>1
  <2> QED
    BY <1>0, <1>4, <2>2, LockedCalm, LockedFields
<1>6. At(z, "Waiting") = Locked(ys, "WAITERS")
  <2>1. At(z, "Waiting") = Locked(Locked(Locked(At(b, "Waiting"), "OBJECT"), "SCHEDULER"), "WAITERS")
    BY SMT, AtLocked, AtAgain
  <2>2. ys = Locked(Locked(At(b, "Waiting"), "SCHEDULER"), "OBJECT")
    BY SMT, AtLocked
  <2> QED
    BY SMT, <2>1, <2>2, LockedCommute
<1>7. /\ k \in Context /\ Calm(k) /\ k.locks = {"SCHEDULER"} /\ k.guards > 0 /\ k.phase = "free"
      /\ OnlyScheduler(k) /\ ~ k.idle /\ k.call = "condition"
  BY <1>0, <1>1, SchedulerLocked, LockedFields
<1>8. /\ y \in Context /\ Calm(y) /\ y.locks = {"SCHEDULER"} /\ OnlyScheduler(y)
      /\ y.phase = "Waiting" /\ ~ y.idle
  <2> HIDE DEF k
  <2> QED
    BY ZenonT(60), <1>7, AtCalm, AtFields DEF Carried, OnlyScheduler
<1>9. At(y, "free") = k
  <2> HIDE DEF k
  <2> QED
    BY SMT, <1>7, AtAgain, AtSame
<1>10. Calm(ys) /\ "WAITERS" \notin ys.locks
  <2> HIDE DEF y
  <2> QED
    BY SMT, <1>0, <1>8, LockedCalm, LockedFields
<1> HIDE DEF o, x, xs, z, k, y, ys
<1>11. Chain(Lock("SCHEDULER"), x, xs)
  BY <1>0, <1>3, LockChain DEF xs
<1>12. Chain(Lock("WAITERS"), xs, z)
  BY <1>0, <1>4, LockChain DEF z
<1>13. Chain(Do("push_waiter"), z, Locked(ys, "WAITERS"))
  BY <1>5, <1>6, PushWaiterChain
<1>14. Chain(Drop("WAITERS"), Locked(ys, "WAITERS"), ys)
  BY <1>0, <1>10, DropChain
<1>15. Chain(Drop("OBJECT"), ys, y)
  BY <1>0, <1>8, DropChain DEF ys
<1>16. Chain(<<Op("sched", "Waiting")>>, y, k)
  BY <1>8, <1>9, SchedChain DEF SchedReason
<1>17. Chain(Drop("SCHEDULER"), k, b)
  BY SchedulerLocked, DropChain DEF k
<1> QED
  BY <1>3, <1>11, <1>12, <1>13, <1>14, <1>15, <1>16, <1>17, ConcatChain
     DEF SleepUntilBlocks, x, o

(* sleep_until() returns with the object locked, the consumer then unlocks *)
(* it.                                                                     *)
LEMMA TakeItemChain ==
  ASSUME NEW c, Outside(c)
  PROVE  /\ At(Locked(c, "OBJECT"), "take") \in Context
         /\ Chain(SleepUntilReturns, At(Locked(c, "OBJECT"), "take"), c)
<1> DEFINE o == Locked(c, "OBJECT")
           x == At(o, "take")
<1>1. /\ Calm(c) /\ "OBJECT" \in Locks /\ "OBJECT" \notin c.locks
      /\ o \in Context /\ Calm(o) /\ "OBJECT" \in o.locks /\ o.phase = "free"
      /\ o.guards > 0
  BY OutsideLocked, OutsideCalm, LockNames
<1>2. Chain(Drop("OBJECT"), o, c)
  BY <1>1, DropChain
<1> HIDE DEF o
<1>3. x \in Context /\ x.phase = "take" /\ x.guards > 0 /\ "OBJECT" \in x.locks
  BY <1>1 DEF At, Context, Fields, WellFormed, Phases
<1>4. o = Leaves(Op("take_item", None), x)
  BY <1>1 DEF Leaves, Op, At, Context, Fields
<1> HIDE DEF x
<1>5. Relies(Op("take_item", None), x)
  BY <1>3 DEF Relies, Op
<1>6. Chain(Do("take_item"), x, o)
  BY <1>1, <1>3, <1>4, <1>5, ArgTypes, OpChain DEF OpNames, Do
<1> QED
  BY <1>2, <1>3, <1>6, ConcatChain DEF SleepUntilReturns, x, o

(* wake_one() and wake_all() come after the change they announce. *)
LEMMA WakeOpChain ==
  ASSUME NEW c \in Context, c.phase = "put", c.guards > 0,
         {"SCHEDULER", "OBJECT", "WAITERS"} \subseteq c.locks,
         NEW o \in {"wake_front", "wake_each"}
  PROVE  Chain(Do(o), c, At(c, "free"))
<1>1. At(c, "free") \in Context
  BY DEF At, Context, Fields, WellFormed, Phases
<1>2. Relies(Op(o, None), c)
  BY DEF Relies, Op
<1>3. At(c, "free") = Leaves(Op(o, None), c)
  BY DEF Leaves, Op, At, Context, Fields
<1> QED
  BY <1>1, <1>2, <1>3, ArgTypes, OpChain DEF OpNames, Do

(* wake_one() and wake_all() lock the scheduler and the waiters around it. *)
LEMMA WakeChain ==
  ASSUME NEW c, Calm(c), c.phase = "put", c.guards > 0, "OBJECT" \in c.locks,
         "SCHEDULER" \notin c.locks, "WAITERS" \notin c.locks,
         NEW o \in {"wake_front", "wake_each"}
  PROVE  Chain(Lock("SCHEDULER") \o Lock("WAITERS") \o Do(o) \o Drop("WAITERS")
               \o Drop("SCHEDULER"), c, At(c, "free"))
<1> DEFINE s == Locked(c, "SCHEDULER")
           z == Locked(s, "WAITERS")
           d == At(c, "free")
           ds == Locked(d, "SCHEDULER")
<1>0. "SCHEDULER" \in Locks /\ "WAITERS" \in Locks
  BY DEF Locks
<1>1. Calm(s) /\ s.locks = c.locks \cup {"SCHEDULER"} /\ s.phase = "put" /\ "WAITERS" \notin s.locks
  BY SMT, <1>0, LockedCalm, LockedFields
<1>2. z \in Context /\ z.locks = s.locks \cup {"WAITERS"} /\ z.phase = "put" /\ z.guards > 0
  <2> HIDE DEF s
  <2> QED
    BY SMT, <1>0, <1>1, LockedCalm, LockedFields
<1>3. Calm(d) /\ d.locks = c.locks
  BY SMT, AtCalm, AtFields DEF Calm, Carried
<1>4. Calm(ds) /\ ds.locks = c.locks \cup {"SCHEDULER"} /\ "WAITERS" \notin ds.locks
  <2> HIDE DEF d
  <2> QED
    BY SMT, <1>0, <1>3, LockedCalm, LockedFields
<1>5. At(z, "free") = Locked(ds, "WAITERS")
  BY SMT, AtLocked
<1> HIDE DEF s, z, d, ds
<1>6. Chain(Do(o), z, Locked(ds, "WAITERS"))
  <2>1. {"SCHEDULER", "OBJECT", "WAITERS"} \subseteq z.locks
    BY <1>1, <1>2
  <2> QED
    BY <1>2, <1>5, <2>1, WakeOpChain
<1>7. Chain(Lock("SCHEDULER"), c, s) /\ Chain(Lock("WAITERS"), s, z)
  BY <1>0, <1>1, LockChain DEF s, z
<1>8. Chain(Drop("WAITERS"), Locked(ds, "WAITERS"), ds) /\ Chain(Drop("SCHEDULER"), ds, d)
  BY <1>0, <1>3, <1>4, DropChain DEF ds
<1>9. Chain(Lock("SCHEDULER") \o Lock("WAITERS") \o Do(o), c, Locked(ds, "WAITERS"))
  BY <1>6, <1>7, ConcatChain
<1> QED
  BY <1>8, <1>9, ConcatChain DEF d

(* A producer changes the object and wakes whoever waits for it, under the *)
(* object's lock.                                                          *)
LEMMA ProduceChain ==
  ASSUME NEW c, Outside(c), NEW wake,
         Chain(wake, At(Locked(c, "OBJECT"), "put"), Locked(c, "OBJECT"))
  PROVE  Chain(Produce(wake), c, c)
<1> DEFINE o == Locked(c, "OBJECT")
           x == At(o, "put")
<1>1. /\ Calm(c) /\ "OBJECT" \in Locks /\ "OBJECT" \notin c.locks
      /\ o \in Context /\ Calm(o) /\ "OBJECT" \in o.locks /\ o.phase = "free"
      /\ o.guards > 0
  BY OutsideLocked, OutsideCalm, LockNames
<1>2. Chain(Lock("OBJECT"), c, o) /\ Chain(Drop("OBJECT"), o, c)
  BY <1>1, LockChain, DropChain
<1>3. Chain(wake, x, o)
  OBVIOUS
<1> HIDE DEF o
<1>4. x \in Context
  BY <1>1 DEF At, Context, Fields, WellFormed, Phases
<1>5. x = Leaves(Op("put_item", None), o)
  BY <1>1 DEF Leaves, Op, At, Context, Fields
<1> HIDE DEF x
<1>6. Relies(Op("put_item", None), o)
  BY <1>1 DEF Relies, Op
<1>7. Chain(Do("put_item"), o, x)
  BY <1>1, <1>4, <1>5, <1>6, ArgTypes, OpChain DEF OpNames, Do
<1> QED
  BY <1>2, <1>3, <1>7, ConcatChain DEF Produce

(* Both producers return to the context they were called in. *)
LEMMA ProducersChain ==
  ASSUME NEW c, Outside(c)
  PROVE  Chain(Produce(WakeOne), c, c) /\ Chain(Produce(WakeAll), c, c)
<1> DEFINE o == Locked(c, "OBJECT")
           x == At(o, "put")
<1>1. /\ Calm(c) /\ "OBJECT" \in Locks /\ c.locks = {}
      /\ o \in Context /\ Calm(o) /\ o.locks = {"OBJECT"} /\ o.phase = "free"
      /\ o.guards > 0
  BY OutsideLocked, OutsideCalm, LockNames
<1> HIDE DEF o
<1>2. Calm(x) /\ x.phase = "put" /\ x.guards > 0 /\ x.locks = {"OBJECT"}
  BY <1>1, AtCalm, AtFields DEF Carried
<1>3. At(x, "free") = o
  BY SMT, <1>1, AtAgain, AtSame
<1> HIDE DEF x
<1>4. Chain(WakeOne, x, o) /\ Chain(WakeAll, x, o)
  BY <1>2, <1>3, WakeChain DEF WakeOne, WakeAll
<1> QED
  BY <1>4, ProduceChain DEF o, x

-----------------------------------------------------------------------------

(* Interrupts *)

(* A handler's guard is the only one it finds. *)
LEMMA HandlerLocked ==
  ASSUME NEW c, InHandler(c), NEW l \in Locks
  PROVE  /\ Calm(c) /\ l \notin c.locks /\ c \in Context
         /\ Locked(c, l) \in Context /\ Calm(Locked(c, l))
         /\ Locked(c, l).phase = "free" /\ Locked(c, l).guards = 2
         /\ Locked(c, l).guards > 0 /\ Locked(c, l).locks = {l}
  BY SMT, LockedCalm, LockedFields DEF InHandler, Calm

(* When no event is due, the drain loop ends with TIMER_QUEUE unlocked. *)
LEMMA PopClosureChain ==
  ASSUME NEW c, InHandler(c)
  PROVE  Chain(Do("pop_closure"), Locked(c, "TIMER_QUEUE"), c)
<1> DEFINE q == Locked(c, "TIMER_QUEUE")
<1>1. /\ q \in Context /\ q.phase = "free" /\ q.guards = 2 /\ q.locks = {"TIMER_QUEUE"}
      /\ c \in Context
  BY HandlerLocked, LockNames
<1>2. c = Leaves(Op("pop_closure", None), q)
  BY SMT, <1>1 DEF InHandler, Calm, Leaves, Op, Locked, Locking, Context, Fields
<1> HIDE DEF q
<1>3. Relies(Op("pop_closure", None), q)
  BY <1>1 DEF Relies, Op
<1> QED
  BY <1>1, <1>2, <1>3, ArgTypes, OpChain DEF OpNames, Do, q

(* Conversely, this is the only context in which the loop looks for an     *)
(* event.                                                                  *)
LEMMA PopClosureContext ==
  ASSUME NEW c \in Context, Relies(Op("pop_closure", None), c),
         NEW d, d = Leaves(Op("pop_closure", None), c)
  PROVE  InHandler(d) /\ c = Locked(d, "TIMER_QUEUE")
<1>1. c.phase = "free" /\ c.guards = 2 /\ c.locks = {"TIMER_QUEUE"}
  BY DEF Relies, Op
<1>2. ~ c.flag
  BY <1>1 DEF Context, WellFormed
<1>3. InHandler(d)
  BY SMT, <1>1, <1>2 DEF InHandler, Calm, Carried, Leaves, Op, Context, Fields, WellFormed
<1>4. {} \cup {"TIMER_QUEUE"} = {"TIMER_QUEUE"}
  OBVIOUS
<1>5. c = Locked(d, "TIMER_QUEUE")
  BY SMT, <1>1, <1>2, <1>4 DEF Leaves, Op, Locked, Locking, Context, Fields
<1> QED
  BY <1>3, <1>5

(* The drain loop of timer_interrupt() leaves the handler's context alone. *)
LEMMA DrainTimersChain == ASSUME NEW c, InHandler(c) PROVE Chain(DrainTimers, c, c)
  BY HandlerLocked, LockNames, LockChain, PopClosureChain, ConcatChain DEF DrainTimers

(* A closure that is due wakes its thread before the queue is looked at    *)
(* again.                                                                  *)
LEMMA ClosureChain ==
  ASSUME NEW c, InHandler(c), NEW t \in ThreadId
  PROVE  /\ Waking(Locked(c, "TIMER_QUEUE"), t) \in Context
         /\ Chain(Drop("TIMER_QUEUE") \o Lock("SCHEDULER") \o <<Op("wake", t)>>
                  \o Drop("SCHEDULER") \o DrainTimers,
                  Waking(Locked(c, "TIMER_QUEUE"), t), c)
<1> DEFINE w == Waking(c, t)
           k == Locked(c, "SCHEDULER")
           kw == Locked(w, "SCHEDULER")
<1>0. t \in Nat /\ t # None /\ t \in Args
  <2>1. t \in Nat
    BY SMT, KernelAssumption DEF ThreadId
  <2>2. None \notin Nat
    BY KernelAssumption
  <2> QED
    BY <2>1, <2>2, ArgTypes
<1>1. Waking(Locked(c, "TIMER_QUEUE"), t) = Locked(w, "TIMER_QUEUE")
  BY DEF Waking, Locked, Locking
<1>2. w \in Context /\ Calm(w) /\ w.locks = {}
  BY SMT, <1>0 DEF InHandler, Waking, Calm, Carried, Context, Fields, WellFormed, Phases
<1>3. Locked(w, "TIMER_QUEUE") \in Context
  <2> HIDE DEF w
  <2> QED
    BY <1>2, LockedCalm, LockNames
<1>4. /\ kw \in Context /\ kw.guards > 0 /\ kw.locks = {"SCHEDULER"} /\ kw.phase = "waking"
  <2>1. w.phase = "waking"
    BY DEF Waking
  <2>2. "SCHEDULER" \in Locks
    BY LockNames
  <2> HIDE DEF w
  <2>3. kw.guards > 0 /\ kw.locks = w.locks \cup {"SCHEDULER"} /\ kw.phase = w.phase
    BY ZenonT(60), <1>2, <2>2, LockedFields
  <2>4. kw \in Context
    BY <1>2, <2>2, LockedCalm
  <2> HIDE DEF kw
  <2> QED
    BY <1>2, <2>1, <2>3, <2>4
<1>5. kw.wakes = t
  BY DEF Waking, Locked, Locking
<1>6. k = Leaves(Op("wake", t), kw)
  BY DEF InHandler, Calm, Leaves, Op, Waking, Locked, Locking, Context, Fields, WellFormed
<1>7. k \in Context
  BY HandlerLocked, LockNames
<1> HIDE DEF kw, k
<1>8. Relies(Op("wake", t), kw)
  BY <1>4, <1>5 DEF Relies, Op
<1>9. Chain(<<Op("wake", t)>>, kw, k)
  BY <1>0, <1>4, <1>6, <1>7, <1>8, OpChain DEF OpNames
<1> HIDE DEF w
<1>10. Chain(Drop("TIMER_QUEUE"), Locked(w, "TIMER_QUEUE"), w)
  BY <1>2, LockNames, DropChain
<1>11. Chain(Lock("SCHEDULER"), w, kw)
  BY <1>2, LockNames, LockChain DEF kw
<1>12. Chain(Drop("SCHEDULER"), k, c)
  BY HandlerLocked, LockNames, DropChain DEF k
<1>13. Chain(DrainTimers, c, c)
  BY DrainTimersChain
<1> QED
  BY <1>1, <1>3, <1>9, <1>10, <1>11, <1>12, <1>13, ConcatChain

(* A handler may ask to reschedule. *)
LEMMA AskingHandler ==
  ASSUME NEW c, InHandler(c), NEW asked \in BOOLEAN
  PROVE  /\ Asking(c, asked) \in Context /\ InHandler(Asking(c, asked))
         /\ (Asking(c, asked).resched <=> asked)
  BY SMT DEF InHandler, Calm, Carried, Asking, Context, Fields, WellFormed

(* timer_interrupt() asks to reschedule and otherwise leaves the context   *)
(* alone.                                                                  *)
LEMMA TimerInterruptChain ==
  ASSUME NEW c, InHandler(c) PROVE Chain(TimerInterrupt, c, Asking(c, TRUE))
<1> DEFINE q == Locked(c, "TIMER_QUEUE")
           d == Asking(c, TRUE)
           p == Locked(d, "PICS")
<1>1. q \in Context /\ q.phase = "free" /\ q.guards > 0 /\ q.locks = {"TIMER_QUEUE"}
  BY HandlerLocked, LockNames
<1>2. d \in Context /\ InHandler(d)
  BY AskingHandler
<1>3. d = Leaves(Op("need_resched", None), c)
  BY DEF InHandler, Calm, Leaves, Op, Asking, Context, Fields
<1>4. Relies(Op("need_resched", None), c)
  BY SMT DEF InHandler, Relies, Op
<1> HIDE DEF d, q
<1>5. Chain(Do("need_resched"), c, d)
  BY <1>2, <1>3, <1>4, ArgTypes, OpChain DEF OpNames, Do, InHandler, Calm
<1>6. Chain(Do("tick"), q, q)
  <2>1. Relies(Op("tick", None), q)
    BY <1>1 DEF Relies, Op
  <2> QED
    BY <1>1, <2>1, ArgTypes, SameChain DEF OpNames, Do
<1>7. Chain(Lock("TIMER_QUEUE"), c, q) /\ Chain(Drop("TIMER_QUEUE"), q, c)
  BY HandlerLocked, LockNames, LockChain, DropChain DEF q
<1>8. p \in Context /\ p.phase = "free" /\ p.guards > 0
  BY <1>2, HandlerLocked, LockNames
<1>9. Chain(Lock("PICS"), d, p) /\ Chain(Drop("PICS"), p, d)
  BY <1>2, HandlerLocked, LockNames, LockChain, DropChain
<1> HIDE DEF p
<1>10. Chain(Do("end_of_interrupt"), p, p)
  <2>1. Relies(Op("end_of_interrupt", None), p)
    BY <1>8 DEF Relies, Op
  <2> QED
    BY <1>8, <2>1, ArgTypes, SameChain DEF OpNames, Do
<1>11. Chain(DrainTimers, c, c)
  BY DrainTimersChain
<1>12. Chain(Lock("TIMER_QUEUE") \o Do("tick") \o Drop("TIMER_QUEUE") \o DrainTimers, c, c)
  BY <1>6, <1>7, <1>11, ConcatChain
<1> QED
  BY <1>5, <1>9, <1>10, <1>12, ConcatChain DEF TimerInterrupt, d

-----------------------------------------------------------------------------
(* Interrupt handlers, system calls and user mode. *)

(* An interrupt guard taken outside the kernel's functions. *)
LEMMA OutsideGuarded ==
  ASSUME NEW c, Outside(c)
  PROVE  /\ Guarded(c) \in Context /\ InHandler(Guarded(c)) /\ ~ Guarded(c).resched
         /\ Calm(c) /\ c \in Context /\ Masked(c) \in Context
<1>1. Calm(c) /\ c.locks = {} /\ c.guards = 0 /\ c.phase = "free" /\ ~ c.resched /\ c \in Context
      /\ Masked(c) \in Context
  BY OutsideCalm DEF Outside, NoGuard
<1>2. Guarded(c) \in Context /\ Calm(Guarded(c))
  BY <1>1, GuardedCalm
<1>3. /\ Guarded(c).guards = 1 /\ Guarded(c).locks = {} /\ Guarded(c).phase = "free"
      /\ ~ Guarded(c).resched
  BY SMT, <1>1 DEF Guarded, Locking
<1> QED
  BY <1>1, <1>2, <1>3 DEF InHandler

(* The CPU has the flag off on its own when it enters a handler or a       *)
(* system call, and iretq and sysretq turn it on again.                    *)
LEMMA MaskedChains ==
  ASSUME NEW c, Outside(c)
  PROVE  /\ Chain(Do("enter"), Masked(c), Guarded(c))
         /\ Chain(Do("drop_without_disabling"), Guarded(c), Masked(c))
         /\ Chain(<<Op("iretq", TRUE)>>, Masked(c), c)
         /\ Chain(Do("syscall_handler"), Masked(c), c)
         /\ Chain(Do("sysretq"), Masked(c), c)
         /\ Chain(Do("cli"), c, Masked(c))
<1> DEFINE m == Masked(c)
           g == Guarded(c)
<1>1. /\ g \in Context /\ m \in Context /\ c \in Context /\ c \in Fields
      /\ g.guards = 1 /\ g.locks = {} /\ g.phase = "free" /\ ~ g.resched
  BY OutsideGuarded DEF InHandler, Context
<1>2. /\ NoGuard(m) /\ ~ m.flag
      /\ NoGuard(c) /\ c.flag
  BY DEF Outside, NoGuard, Masked, Locking
<1>3. /\ g = Leaves(Op("enter", None), m)
      /\ c = Leaves(Op("iretq", TRUE), m)
      /\ c = Leaves(Op("syscall_handler", None), m)
      /\ c = Leaves(Op("sysretq", None), m)
      /\ m = Leaves(Op("cli", None), c)
  BY <1>1, <1>2 DEF NoGuard, Leaves, Op, Masked, Guarded, Locking, Fields
<1>4. m = Leaves(Op("drop_without_disabling", None), g)
  <2>1. c \in Fields /\ c.guards \in Nat /\ (c.guards + 1) - 1 = c.guards
    BY SMT, <1>1 DEF Fields
  <2> QED
    BY <2>1 DEF NoGuard, Leaves, Op, Masked, Guarded, Locking, Fields
<1> HIDE DEF m, g
<1>5. Relies(Op("enter", None), m) /\ Relies(Op("iretq", TRUE), m)
  BY <1>2 DEF NoGuard, Relies, Op, Carried
<1>6. /\ Relies(Op("syscall_handler", None), m) /\ Relies(Op("sysretq", None), m)
      /\ Relies(Op("cli", None), c)
  BY <1>2 DEF NoGuard, Relies, Op
<1>7. Relies(Op("drop_without_disabling", None), g)
  BY <1>1 DEF Relies, Op
<1>8. Chain(Do("enter"), m, g) /\ Chain(<<Op("iretq", TRUE)>>, m, c)
  BY <1>1, <1>3, <1>5, ArgTypes, OpChain DEF OpNames, Do
<1>9. Chain(Do("syscall_handler"), m, c) /\ Chain(Do("sysretq"), m, c) /\ Chain(Do("cli"), c, m)
  BY <1>1, <1>3, <1>6, ArgTypes, OpChain DEF OpNames, Do
<1>10. Chain(Do("drop_without_disabling"), g, m)
  BY <1>1, <1>4, <1>7, ArgTypes, OpChain DEF OpNames, Do
<1> QED
  BY <1>8, <1>9, <1>10 DEF m, g

(* Whether or not it was asked for, resched() leaves no request behind. *)
LEMMA ReschedChain ==
  ASSUME NEW c, InHandler(c), ~ c.resched, NEW asked \in BOOLEAN
  PROVE  Chain(Do("resched"), Asking(c, asked), c)
<1> DEFINE d == Asking(c, asked)
<1>1. d \in Context /\ InHandler(d) /\ c \in Context
  BY AskingHandler DEF InHandler, Calm
<1>2. c = Leaves(Op("resched", None), d)
  BY <1>1 DEF Leaves, Op, Asking, Context, Fields
<1> HIDE DEF d
<1>3. Relies(Op("resched", None), d)
  BY <1>1 DEF InHandler, Relies, Op
<1> QED
  BY <1>1, <1>2, <1>3, ArgTypes, OpChain DEF OpNames, Do, d

(* A handler around an interrupt guard leaves everything as it was. *)
LEMMA IntHandlerChain ==
  ASSUME NEW c, Outside(c), NEW handler, NEW asked \in BOOLEAN,
         Chain(handler, Guarded(c), Asking(Guarded(c), asked))
  PROVE  Masked(c) \in Context /\ Chain(IntHandler(handler, TRUE), Masked(c), c)
<1>1. InHandler(Guarded(c)) /\ ~ Guarded(c).resched /\ Masked(c) \in Context
  BY OutsideGuarded
<1>2. Chain(Do("resched"), Asking(Guarded(c), asked), Guarded(c))
  BY <1>1, ReschedChain
<1>3. Chain(Do("enter") \o handler \o Do("resched"), Masked(c), Guarded(c))
  BY <1>2, MaskedChains, ConcatChain
<1> QED
  BY <1>1, <1>3, MaskedChains, ConcatChain DEF IntHandler

(* Both handlers return to what they interrupted. *)
LEMMA HandlersChain ==
  ASSUME NEW c, Outside(c)
  PROVE  /\ Masked(c) \in Context
         /\ Chain(IntHandler(TimerInterrupt, TRUE), Masked(c), c)
         /\ Chain(IntHandler(PageFaultHandler, TRUE), Masked(c), c)
<1> DEFINE g == Guarded(c)
           p == Locked(g, "PROC")
<1>1. g \in Context /\ InHandler(g) /\ ~ g.resched
  BY OutsideGuarded
<1> HIDE DEF g
<1>2. Chain(TimerInterrupt, g, Asking(g, TRUE))
  BY <1>1, TimerInterruptChain
<1>3. Calm(p) /\ p.locks = {"PROC"} /\ Calm(g) /\ "PROC" \notin g.locks /\ "PROC" \in Locks
  BY <1>1, HandlerLocked, LockNames
<1>4. Chain(Lock("PROC"), g, p) /\ Chain(Drop("PROC"), p, g)
  BY <1>3, LockChain, DropChain
<1> HIDE DEF p
<1>5. Chain(AllocatorCall, p, p)
  BY <1>3, AllocatorChain
<1>6. Chain(PageFaultHandler, g, g)
  BY <1>4, <1>5, ConcatChain DEF PageFaultHandler
<1>7. Asking(g, FALSE) = g
  BY <1>1 DEF Asking, Context, Fields
<1> QED
  BY <1>2, <1>6, <1>7, IntHandlerChain DEF g

(* What int_handler does when the timer asked it to reschedule. *)
LEMMA HandlerYieldsChain ==
  ASSUME NEW c \in Context, InHandler(c), ~ c.resched
  PROVE  Chain(LockWithInterruptGuard("SCHEDULER") \o <<Op("sched", "Yielding")>>
               \o IntoInterruptGuard("SCHEDULER"), c, c)
<1> DEFINE x == Locking(c, 0, {}, TRUE)
           k == Locked(x, "SCHEDULER")
<1>1. Outside(x)
  BY DEF InHandler, Outside, NoGuard, Locking, Context, Fields, WellFormed
<1>2. Guarded(x) = c
  <2>1. c.guards = 0 + 1 /\ c.locks = {} /\ c.flag = FALSE
    BY SMT DEF InHandler, Calm, Context, Fields
  <2>2. c = Locking(c, c.guards, c.locks, c.flag)
    BY DEF Locking, Context, Fields
  <2>3. Guarded(x) = Locking(c, 0 + 1, {}, FALSE)
    BY LockingAgain
  <2> QED
    BY <2>1, <2>2, <2>3
<1> HIDE DEF x
<1>3. Calm(x) /\ "SCHEDULER" \in Locks /\ "SCHEDULER" \notin x.locks
      /\ k \in Context /\ OnlyScheduler(k) /\ k.phase = "free"
  BY <1>1, SchedulerLocked
<1>4. Chain(<<Op("acquire", "SCHEDULER")>>, c, k) /\ Chain(<<Op("release", "SCHEDULER")>>, k, c)
  BY <1>2, <1>3, AcquireChain, ReleaseChain
<1> HIDE DEF k
<1>5. Chain(<<Op("sched", "Yielding")>>, k, k)
  BY <1>3, SchedChain, AtSame DEF SchedReason
<1> QED
  BY <1>4, <1>5, ConcatChain DEF LockWithInterruptGuard, IntoInterruptGuard

(* A system call returns to the user program. *)
LEMMA SyscallChain ==
  ASSUME NEW c, Outside(c), NEW call, Chain(call, c, c)
  PROVE  Masked(c) \in Context /\ Chain(SyscallEntry(call), Masked(c), c)
  BY OutsideGuarded, MaskedChains, ConcatChain DEF SyscallEntry

(* Looking up the thread's stack locks and unlocks the scheduler. *)
LEMMA ThreadStackChain ==
  ASSUME NEW c, Calm(c), "SCHEDULER" \notin c.locks PROVE Chain(ThreadStack, c, c)
  BY LockChain, DropChain, ConcatChain, LockNames DEF ThreadStack

(* launch() of a process: page table, program, kernel stack, user mode. *)
LEMMA LoadElfChain ==
  ASSUME NEW c, Outside(c), c.loaded PROVE Chain(LoadElf, c, c)
<1>1. Chain(Lock("PROC"), c, Locked(c, "PROC")) /\ Chain(Drop("PROC"), Locked(c, "PROC"), c)
  BY OutsideLocked, LockNames, LockChain, DropChain
<1>2. Relies(Op("load_elf", None), c)
  BY DEF Outside, Relies, Op
<1>3. Chain(Do("load_elf"), c, c)
  BY <1>2, ArgTypes, SameChain DEF OpNames, Do, Outside
<1> QED
  BY <1>1, <1>3, ConcatChain DEF LoadElf

(* Activating a process makes it the thread's own. *)
LEMMA ActivateChain ==
  ASSUME NEW c, Outside(c)
  PROVE  /\ Outside(User(c, TRUE, c.stack))
         /\ Chain(Activate, c, User(c, TRUE, c.stack))
<1> DEFINE d == User(c, TRUE, c.stack)
           g == Guarded(c)
           h == Guarded(d)
           p == Locked(h, "PROC")
<1>1. Outside(d)
  BY DEF Outside, NoGuard, User, Context, Fields, WellFormed
<1>2. h = Leaves(Op("activate", None), g)
  BY DEF Outside, Leaves, Op, User, Guarded, Locking, Context, Fields
<1> HIDE DEF d
<1>3. g \in Context /\ InHandler(g) /\ h \in Context /\ InHandler(h) /\ Calm(c) /\ Calm(d)
  BY <1>1, OutsideGuarded
<1>4. Chain(Do("enter"), c, g) /\ Chain(Do("leave"), h, d)
  BY <1>3, EnterChain, LeaveChain
<1> HIDE DEF g, h
<1>5. Relies(Op("activate", None), g)
  BY SMT, <1>3 DEF InHandler, Relies, Op
<1>6. Chain(Do("activate"), g, h)
  BY <1>2, <1>3, <1>5, ArgTypes, OpChain DEF OpNames, Do
<1>7. Chain(Lock("PROC"), h, p) /\ Chain(Drop("PROC"), p, h)
  BY <1>3, HandlerLocked, LockNames, LockChain, DropChain
<1> HIDE DEF p
<1> QED
  BY <1>1, <1>4, <1>6, <1>7, ConcatChain DEF Activate, d

(* User mode is entered with the thread's process and stack, and not left  *)
(* but by interrupts and system calls.                                     *)
LEMMA UserSound ==
  ASSUME NEW c, Outside(c), c.loaded, c.stack, c.call = "none", ~ c.idle
  PROVE  Sound(Do("user"), c)
<1> DEFINE d == Leaves(Op("user", None), c)
<1>1. d \in Context /\ d.phase = "end"
  BY DEF Outside, NoGuard, Leaves, Op, Context, Fields, WellFormed, Phases
<1>2. Relies(Op("user", None), c)
  BY DEF Outside, Relies, Op
<1> HIDE DEF d
<1>3. Chain(Do("user"), c, d)
  BY <1>1, <1>2, ArgTypes, OpChain DEF d, OpNames, Do, Outside
<1> QED
  BY <1>1, <1>3 DEF Sound

(* The launch of a process sets up what user mode relies on, in this       *)
(* order.                                                                  *)
LEMMA LaunchSound ==
  ASSUME NEW c, Outside(c), c.call = "none", ~ c.idle PROVE Sound(Launch, c)
<1> DEFINE a == User(c, TRUE, c.stack)
           u == User(c, TRUE, TRUE)
           g == Guarded(a)
           h == Guarded(u)
<1>1. Outside(a) /\ a.loaded /\ Chain(Activate, c, a)
  BY ActivateChain DEF User
<1>2. Outside(u) /\ u.loaded /\ u.stack /\ u.call = "none" /\ ~ u.idle
  BY DEF Outside, NoGuard, User, Context, Fields, WellFormed
<1>3. h = Leaves(Op("set_kernel_rsp", None), g)
  BY DEF Outside, Leaves, Op, User, Guarded, Locking, Context, Fields
<1> HIDE DEF a, u
<1>4. g \in Context /\ InHandler(g) /\ h \in Context /\ Calm(a)
  BY <1>1, <1>2, OutsideGuarded
<1>5. Chain(LoadElf, a, a) /\ Chain(Do("enter"), a, g)
  BY <1>1, <1>4, LoadElfChain, EnterChain
<1>6. Chain(Do("drop_without_disabling"), h, Masked(u)) /\ Chain(<<Op("iretq", TRUE)>>, Masked(u), u)
  BY <1>2, MaskedChains
<1> HIDE DEF g, h
<1>7. Chain(ThreadStack, g, g)
  BY <1>4, ThreadStackChain DEF InHandler
<1>8. Relies(Op("set_kernel_rsp", None), g)
  BY SMT, <1>4 DEF InHandler, Relies, Op
<1>9. Chain(Do("set_kernel_rsp"), g, h)
  BY <1>3, <1>4, <1>8, ArgTypes, OpChain DEF OpNames, Do
<1>10. Sound(Do("user"), u)
  BY <1>2, UserSound
<1>11. Chain(Activate \o LoadElf \o Do("enter") \o ThreadStack, c, g)
  BY <1>1, <1>5, <1>7, ConcatChain
<1>12. Chain(Activate \o LoadElf \o Do("enter") \o ThreadStack \o Do("set_kernel_rsp")
             \o Do("drop_without_disabling") \o <<Op("iretq", TRUE)>>, c, u)
  BY <1>6, <1>9, <1>11, ConcatChain
<1> QED
  BY <1>10, <1>12, PushSound DEF Launch

(* main() at boot. *)
LEMMA IdleBodySound ==
  ASSUME NEW c, Outside(c), c.idle, c.call = "none" PROVE Sound(Do("body"), c)
<1> DEFINE d == Leaves(Op("body", None), c)
<1>1. d \in Context /\ d.phase = "end"
  BY DEF Outside, NoGuard, Leaves, Op, Context, Fields, WellFormed, Phases
<1>2. Relies(Op("body", None), c)
  BY DEF Outside, Relies, Op
<1> HIDE DEF d
<1>3. Chain(Do("body"), c, d)
  BY <1>1, <1>2, ArgTypes, OpChain DEF d, OpNames, Do, Outside
<1> QED
  BY <1>1, <1>3 DEF Sound

-----------------------------------------------------------------------------
(* What an operation adds to the counts of guards, locks and wakeups. *)

(* One(b) is 0 or 1. *)
LEMMA OneTypes == \A b \in BOOLEAN : One(b) \in Int /\ (One(b) = 0 <=> ~ b) /\ (One(b) = 1 <=> b)
  BY SMT DEF One

(* What one operation does to what the invariants count. *)
LEMMA StepCounts ==
  ASSUME NEW e \in Ops, NEW c \in Context, NEW d \in Context, Step(e, c, d)
  PROVE  /\ c.guards - d.guards =
              One(e.op \in {"leave", "drop_without_disabling", "condition", "pop_closure",
                            "unreachable"})
              - One(e.op = "enter")
         /\ One(c.phase = "continue") - One(d.phase = "continue") = One(e.op = "loop")
         /\ One(c.call = "spawn") - One(d.call = "spawn") = One(e.op = "spawn")
         /\ One(c.call = "condition") - One(d.call = "condition") = One(e.op = "condition")
<1>1. c.guards - d.guards =
              One(e.op \in {"leave", "drop_without_disabling", "condition", "pop_closure",
                            "unreachable"})
              - One(e.op = "enter")
  BY SMT DEF Step, Leaves, Context, Fields, One
<1>2. One(c.phase = "continue") - One(d.phase = "continue") = One(e.op = "loop")
  <2>1. e.op = "loop" => c.phase = "continue" /\ d.phase = "free"
    BY DEF Step, Relies, Leaves
  <2>2. e.op # "loop" => (c.phase = "continue" <=> d.phase = "continue")
    BY ZenonT(60) DEF Step, Relies, Leaves, NoGuard, OnlyScheduler
  <2> QED
    BY SMT, <2>1, <2>2 DEF One
<1>3. /\ e.op = "spawn" => c.call = "spawn" /\ d.call = "none"
      /\ e.op = "condition" => c.call = "condition" /\ d.call = "none"
      /\ e.op \notin {"spawn", "condition"} => c.call = d.call
  BY DEF Step, Relies, Leaves
<1> QED
  BY SMT, <1>1, <1>2, <1>3 DEF One

(* Only its own wake operation ends the waking of a thread. *)
LEMMA StepWakes ==
  ASSUME NEW e \in Ops, NEW c \in Context, NEW d \in Context, Step(e, c, d), NEW t \in ThreadId
  PROVE  One(c.wakes = t) - One(d.wakes = t) = One(e = Op("wake", t))
<1>1. None # t
  BY SMT, KernelAssumption DEF ThreadId
<1>2. e = Op("wake", t) <=> e.op = "wake" /\ e.arg = t
  BY SMT DEF Ops, Op
<1>3. e.op = "wake" => c.wakes = e.arg /\ d.wakes = None
  BY DEF Step, Relies, Leaves
<1>4. e.op # "wake" => c.wakes = d.wakes
  BY DEF Step, Leaves
<1> QED
  BY SMT, <1>1, <1>2, <1>3, <1>4 DEF One

(* The loops that release a lock in the end. *)
Implicit(e, l) ==
  \/ e.op = "condition" /\ l = "OBJECT"
  \/ e.op = "pop_closure" /\ l = "TIMER_QUEUE"
  \/ e.op = "unreachable" /\ l = "SCHEDULER"

(* Locks are taken by acquire and dropped by release, or where a function  *)
(* that drops them is one operation.                                       *)
LEMMA StepLocks ==
  ASSUME NEW e \in Ops, NEW c \in Context, NEW d \in Context, Step(e, c, d), NEW l \in Locks
  PROVE  One(l \in c.locks) - One(l \in d.locks) =
           One(e = Op("release", l) \/ Implicit(e, l)) - One(e = Op("acquire", l))
<1>1. /\ e = Op("release", l) <=> e.op = "release" /\ e.arg = l
      /\ e = Op("acquire", l) <=> e.op = "acquire" /\ e.arg = l
  BY SMT DEF Ops, Op
<1>2. CASE e.op = "acquire"
  <2>1. e.arg \notin c.locks /\ d.locks = c.locks \cup {e.arg}
    BY <1>2 DEF Step, Relies, Leaves
  <2> QED
    BY SMT, <1>1, <1>2, <2>1 DEF One, Implicit
<1>3. CASE e.op = "release"
  <2>1. e.arg \in c.locks /\ d.locks = c.locks \ {e.arg}
    BY <1>3 DEF Step, Relies, Leaves
  <2> QED
    BY SMT, <1>1, <1>3, <2>1 DEF One, Implicit
<1>4. CASE e.op \in {"condition", "pop_closure", "unreachable"}
  <2>1. /\ d.locks = {}
        /\ e.op = "condition" => c.locks = {"OBJECT"}
        /\ e.op = "pop_closure" => c.locks = {"TIMER_QUEUE"}
        /\ e.op = "unreachable" => c.locks = {"SCHEDULER"}
    BY ZenonT(60), <1>4 DEF Step, Relies, Leaves, OnlyScheduler
  <2> QED
    BY <1>1, <1>4, <2>1 DEF One, Implicit
<1>5. CASE e.op \notin {"acquire", "release", "condition", "pop_closure", "unreachable"}
  <2>1. d.locks = c.locks
    BY <1>5 DEF Step, Leaves
  <2> QED
    BY SMT, <1>1, <1>5, <2>1 DEF One, Implicit
<1> QED
  BY <1>2, <1>3, <1>4, <1>5

(* f follows the operations of s from context c to the end. *)
Follows(s, c, f) ==
  /\ s \in Seq(Ops)
  /\ f \in [1 .. Len(s) + 1 -> Context]
  /\ f[1] = c
  /\ f[Len(s) + 1].phase = "end"
  /\ \A i \in 1 .. Len(s) : s[i] \in Ops /\ Step(s[i], f[i], f[i + 1])

(* A sound stack has a context at every operation. *)
LEMMA SoundFollows == ASSUME NEW s, NEW c, Sound(s, c) PROVE \E f : Follows(s, c, f)
<1>1. PICK z \in Context : Chain(s, c, z) /\ z.phase = "end"
  BY DEF Sound
<1>2. PICK f \in [1 .. Len(s) + 1 -> Context] :
        /\ f[1] = c /\ f[Len(s) + 1] = z
        /\ \A i \in 1 .. Len(s) : Step(s[i], f[i], f[i + 1])
  BY <1>1 DEF Chain
<1>3. s \in Seq(Ops) /\ \A i \in 1 .. Len(s) : s[i] \in Ops
  BY SMT, <1>1 DEF Chain
<1> QED
  BY <1>1, <1>2, <1>3 DEF Follows

(* What these contexts are, and how the last one ends. *)
LEMMA FollowsTypes ==
  ASSUME NEW s, NEW c, NEW f, Follows(s, c, f)
  PROVE  /\ Len(s) \in Nat /\ DOMAIN s = 1 .. Len(s)
         /\ f[1] = c /\ f[Len(s) + 1] \in Context
         /\ f[Len(s) + 1].phase = "end"
         /\ f[Len(s) + 1].guards = 0 /\ f[Len(s) + 1].locks = {}
         /\ f[Len(s) + 1].wakes = None /\ f[Len(s) + 1].call = "none"
         /\ \A i \in 1 .. Len(s) + 1 : f[i] \in Context /\ f[i].guards \in Nat
         /\ \A i \in 1 .. Len(s) :
              s[i] \in Ops /\ f[i] \in Context /\ f[i + 1] \in Context /\ Step(s[i], f[i], f[i + 1])
<1>1. Len(s) \in Nat /\ DOMAIN s = 1 .. Len(s)
  BY SMT DEF Follows
<1>2. \A i \in 1 .. Len(s) + 1 : f[i] \in Context
  BY DEF Follows
<1>3. \A d \in Context :
        /\ d.guards \in Nat
        /\ d.phase = "end" => d.guards = 0 /\ d.locks = {} /\ d.wakes = None /\ d.call = "none"
  BY DEF Context, Fields, WellFormed
<1>4. \A i \in 1 .. Len(s) : i \in 1 .. Len(s) + 1 /\ i + 1 \in 1 .. Len(s) + 1
  BY SMT, <1>1
<1>5. Len(s) + 1 \in 1 .. Len(s) + 1
  BY SMT, <1>1
<1> QED
  BY <1>1, <1>2, <1>3, <1>4, <1>5 DEF Follows

-----------------------------------------------------------------------------
(* What the proofs about steps use. *)

(* What the proofs about steps use of stacks and operations. *)
LEMMA JoinsAndPops == StacksJoin /\ StacksPop /\ NamesKnown
<1>1. \A c \in Context : Chain(<<>>, c, c)
  BY EmptyChain
<1>2. \A s, t, b, c, d : Chain(s, b, c) /\ Chain(t, c, d) => Chain(s \o t, b, d)
  BY ConcatChain
<1>3. \A s, t, c, d : Chain(s, c, d) /\ Sound(t, d) => Sound(s \o t, c)
  BY PushSound
<1>4. \A o \in OpNames, a \in Args, c, d \in Context :
        Relies(Op(o, a), c) /\ d = Leaves(Op(o, a), c) => Chain(<<Op(o, a)>>, c, d)
  BY OpChain
<1>5. StacksPop
  BY PopSound DEF StacksPop
<1>6. NamesKnown
  BY ArgTypes, LockNames DEF NamesKnown
<1> QED
  BY <1>1, <1>2, <1>3, <1>4, <1>5, <1>6 DEF StacksJoin

(* What they use of the functions that bodies call, and of new threads. *)
LEMMA CallsAndBodies == CallsReturn /\ BodiesRun /\ ThreadsEnter
<1>1. CallsReturn
  <2> SUFFICES ASSUME NEW c, Outside(c)
               PROVE  /\ Chain(ThreadYield, c, c)
                      /\ Chain(Produce(WakeOne), c, c) /\ Chain(Produce(WakeAll), c, c)
                      /\ ~ c.idle => \A n \in Nat : Chain(ThreadSleep(n), c, c)
                      /\ c.call = "none" =>
                           Outside(Making(c, "spawn")) /\ Chain(ThreadSpawn, Making(c, "spawn"), c)
                      /\ ~ c.idle /\ c.call = "none" =>
                           Outside(Making(c, "condition")) /\ Chain(SleepUntil, Making(c, "condition"), c)
    BY DEF CallsReturn
  <2> QED
    BY YieldChain, ProducersChain, SleepChain, ThreadSpawnChain, SleepUntilChain
<1>2. BodiesRun
  <2> SUFFICES ASSUME NEW c, Outside(c)
               PROVE  /\ c.idle /\ c.call = "none" => Sound(Do("body"), c)
                      /\ ~ c.idle /\ c.call = "none" => Sound(Launch, c)
                      /\ Masked(c) \in Context
                      /\ \A call : Chain(call, c, c) => Chain(SyscallEntry(call), Masked(c), c)
    BY DEF BodiesRun
  <2> QED
    BY IdleBodySound, LaunchSound, OutsideCalm, SyscallChain
<1>3. ThreadsEnter
  BY EntryChain, ThreadEntrySound, AllocatorChain DEF ThreadsEnter
<1> QED
  BY <1>1, <1>2, <1>3

(* What they use of interrupt handlers and of waiting. *)
LEMMA HandlersAndWaiters == HandlersReturn /\ WaitersContinue /\ ClosuresWake
<1>1. ASSUME NEW c, Outside(c)
      PROVE  /\ c \in Context /\ Masked(c) \in Context /\ Guarded(c) \in Context
             /\ Calm(c) /\ InHandler(Guarded(c)) /\ ~ Guarded(c).resched
             /\ Chain(IntHandler(TimerInterrupt, TRUE), Masked(c), c)
             /\ Chain(IntHandler(PageFaultHandler, TRUE), Masked(c), c)
  BY <1>1, HandlersChain, OutsideGuarded
<1>2. ASSUME NEW c, InHandler(c), ~ c.resched
      PROVE  Chain(LockWithInterruptGuard("SCHEDULER") \o <<Op("sched", "Yielding")>>
                   \o IntoInterruptGuard("SCHEDULER"), c, c)
  BY <1>2, HandlerYieldsChain, HandlerLocked, LockNames
<1>3. ASSUME NEW c, NEW l, InHandler(c), l \in Locks
      PROVE  /\ c \in Context /\ Calm(c) /\ l \notin c.locks
             /\ Locked(c, l) \in Context /\ Calm(Locked(c, l))
             /\ Locked(c, l).phase = "free" /\ Locked(c, l).guards = 2
             /\ Locked(c, l).guards > 0 /\ Locked(c, l).locks = {l}
  BY <1>3, HandlerLocked
<1>4. HandlersReturn
  BY <1>1, <1>2, <1>3 DEF HandlersReturn
<1>5. WaitersContinue
  BY TakeItemChain, BlocksChain, ConditionContext DEF WaitersContinue
<1>6. ClosuresWake
  BY ClosureChain, PopClosureContext, DropChain DEF ClosuresWake
<1> QED
  BY <1>4, <1>5, <1>6

-----------------------------------------------------------------------------
(* How often a stack does what its context says is to come. *)

(* The operations whose context tells whether they are still to come. *)
LEMMA StillToCome ==
  ASSUME CountsAdd, NEW s, NEW c, Sound(s, c)
  PROVE  /\ (\E i \in DOMAIN s : s[i].op = "loop") <=> c.phase = "continue"
         /\ (\E i \in DOMAIN s : s[i].op = "spawn") <=> c.call = "spawn"
         /\ (\E i \in DOMAIN s : s[i].op = "condition") <=> c.call = "condition"
<1>1. PICK f : Follows(s, c, f)
  BY SoundFollows
<1> DEFINE n == Len(s)
           At1(o) == {i \in 1 .. n : s[i].op = o}
           v1 == [i \in 1 .. n + 1 |-> One(f[i].phase = "continue")]
           v2 == [i \in 1 .. n + 1 |-> One(f[i].call = "spawn")]
           v3 == [i \in 1 .. n + 1 |-> One(f[i].call = "condition")]
<1>2. /\ n \in Nat /\ DOMAIN s = 1 .. n /\ 1 \in 1 .. n + 1 /\ n + 1 \in 1 .. n + 1
      /\ f[1] = c /\ f[n + 1].phase = "end" /\ f[n + 1].call = "none"
      /\ \A i \in 1 .. n :
           /\ i \in 1 .. n + 1 /\ i + 1 \in 1 .. n + 1
           /\ s[i] \in Ops /\ f[i] \in Context /\ f[i + 1] \in Context /\ Step(s[i], f[i], f[i + 1])
  BY SMT, <1>1, FollowsTypes
<1>3. /\ v1 \in [1 .. n + 1 -> Int] /\ v2 \in [1 .. n + 1 -> Int] /\ v3 \in [1 .. n + 1 -> Int]
  BY SMT DEF One
<1>4. /\ v1[n + 1] = 0 /\ v2[n + 1] = 0 /\ v3[n + 1] = 0
      /\ v1[1] = 0 <=> c.phase # "continue"
      /\ v2[1] = 0 <=> c.call # "spawn"
      /\ v3[1] = 0 <=> c.call # "condition"
  BY SMT, <1>2 DEF One
<1>5. ASSUME NEW i \in 1 .. n
      PROVE  /\ v1[i] - v1[i + 1] = One(i \in At1("loop")) - One(i \in {})
             /\ v2[i] - v2[i + 1] = One(i \in At1("spawn")) - One(i \in {})
             /\ v3[i] - v3[i + 1] = One(i \in At1("condition")) - One(i \in {})
  <2>1. /\ One(f[i].phase = "continue") - One(f[i + 1].phase = "continue") = One(s[i].op = "loop")
        /\ One(f[i].call = "spawn") - One(f[i + 1].call = "spawn") = One(s[i].op = "spawn")
        /\ One(f[i].call = "condition") - One(f[i + 1].call = "condition") = One(s[i].op = "condition")
    BY ZenonT(60), <1>2, StepCounts
  <2>2. One(i \in {}) = 0
    BY DEF One
  <2>3. \A o : (i \in At1(o) <=> s[i].op = o)
    OBVIOUS
  <2> QED
    BY SMT, <1>2, <2>1, <2>2, <2>3 DEF One
<1> HIDE DEF v1, v2, v3
<1>6. /\ Tracks(n, v1, At1("loop"), {})
      /\ Tracks(n, v2, At1("spawn"), {})
      /\ Tracks(n, v3, At1("condition"), {})
  BY <1>2, <1>3, <1>5 DEF Tracks
<1>7. /\ At1("loop") = {} <=> v1[1] = 0
      /\ At1("spawn") = {} <=> v2[1] = 0
      /\ At1("condition") = {} <=> v3[1] = 0
  BY <1>4, <1>6 DEF CountsAdd
<1> QED
  BY <1>2, <1>4, <1>7

(* A stack about to wake a sleeper is to wake it once. *)
LEMMA WakesOnce ==
  ASSUME CountsAdd, NEW s, NEW c, Sound(s, c), NEW t \in ThreadId
  PROVE  Cardinality({i \in DOMAIN s : s[i] = Op("wake", t)}) = One(c.wakes = t)
<1>1. PICK f : Follows(s, c, f)
  BY SoundFollows
<1> DEFINE n == Len(s)
           P == {i \in 1 .. n : s[i] = Op("wake", t)}
           v == [i \in 1 .. n + 1 |-> One(f[i].wakes = t)]
<1>2. /\ n \in Nat /\ DOMAIN s = 1 .. n /\ 1 \in 1 .. n + 1 /\ n + 1 \in 1 .. n + 1
      /\ f[1] = c /\ f[n + 1].wakes = None
      /\ \A i \in 1 .. n :
           /\ i \in 1 .. n + 1 /\ i + 1 \in 1 .. n + 1
           /\ s[i] \in Ops /\ f[i] \in Context /\ f[i + 1] \in Context /\ Step(s[i], f[i], f[i + 1])
  BY SMT, <1>1, FollowsTypes
<1>3. v \in [1 .. n + 1 -> Int] /\ v[n + 1] = 0 /\ v[1] = One(c.wakes = t)
  BY SMT, <1>2, KernelAssumption DEF One, ThreadId
<1>4. ASSUME NEW i \in 1 .. n
      PROVE  v[i] - v[i + 1] = One(i \in P) - One(i \in {})
  <2>1. One(f[i].wakes = t) - One(f[i + 1].wakes = t) = One(s[i] = Op("wake", t))
    BY SMT, <1>2, StepWakes
  <2> QED
    BY SMT, <1>2, <2>1 DEF One
<1> HIDE DEF v
<1>5. Tracks(n, v, P, {})
  BY <1>2, <1>3, <1>4 DEF Tracks
<1>6. Cardinality(P) = v[1]
  BY <1>3, <1>5 DEF CountsAdd
<1> QED
  BY <1>2, <1>3, <1>6

(* The guards a context knows of are those the stack will drop. *)
LEMMA GuardsCounted ==
  ASSUME CountsAdd, NEW t, NEW c, Sound(prog[t], c)
  PROVE  GuardsOf(t) = c.guards
<1> DEFINE s == prog[t]
           n == Len(s)
           drops == {"leave", "drop_without_disabling", "condition", "pop_closure", "unreachable"}
           P == {i \in 1 .. n : s[i].op \in drops}
           Q == {i \in 1 .. n : s[i].op \in {"enter"}}
<1>1. PICK f : Follows(s, c, f)
  BY SoundFollows
<1> DEFINE v == [i \in 1 .. n + 1 |-> f[i].guards]
<1>2. /\ n \in Nat /\ DOMAIN s = 1 .. n /\ 1 \in 1 .. n + 1 /\ n + 1 \in 1 .. n + 1
      /\ f[1] = c /\ f[n + 1].guards = 0
      /\ \A i \in 1 .. n + 1 : f[i].guards \in Nat
      /\ \A i \in 1 .. n :
           /\ i \in 1 .. n + 1 /\ i + 1 \in 1 .. n + 1
           /\ s[i] \in Ops /\ f[i] \in Context /\ f[i + 1] \in Context /\ Step(s[i], f[i], f[i + 1])
  BY SMT, <1>1, FollowsTypes
<1>3. v \in [1 .. n + 1 -> Int] /\ v[n + 1] = 0 /\ v[1] = c.guards /\ c.guards \in Nat
  BY SMT, <1>2
<1>4. ASSUME NEW i \in 1 .. n
      PROVE  v[i] - v[i + 1] = One(i \in P) - One(i \in Q)
  <2>1. f[i].guards - f[i + 1].guards = One(s[i].op \in drops) - One(s[i].op = "enter")
    BY <1>2, StepCounts
  <2> QED
    BY <1>2, <2>1 DEF One
<1> HIDE DEF v
<1>5. Tracks(n, v, P, Q)
  BY <1>2, <1>3, <1>4 DEF Tracks
<1>6. Cardinality(P) - Cardinality(Q) = v[1] - v[n + 1]
  BY <1>5 DEF CountsAdd
<1>7. GuardsOf(t) = Cardinality(P) - Cardinality(Q)
  BY <1>2 DEF GuardsOf
<1> QED
  BY SMT, <1>3, <1>6, <1>7

(* The locks a context knows of are those the stack will drop, each once. *)
LEMMA LocksCounted ==
  ASSUME CountsAdd, NEW t, NEW c, Sound(prog[t], c), NEW l \in Locks
  PROVE  Owns(t, l) = IF l \in c.locks THEN 1 ELSE 0
<1> DEFINE s == prog[t]
           n == Len(s)
           R == {i \in 1 .. n : s[i] = Op("release", l)}
           I == {i \in 1 .. n : Implicit(s[i], l)}
           A == {i \in 1 .. n : s[i] = Op("acquire", l)}
           P == R \cup I
<1>1. PICK f : Follows(s, c, f)
  BY SoundFollows
<1> DEFINE v == [i \in 1 .. n + 1 |-> One(l \in f[i].locks)]
<1>2. /\ n \in Nat /\ DOMAIN s = 1 .. n /\ 1 \in 1 .. n + 1 /\ n + 1 \in 1 .. n + 1
      /\ f[1] = c /\ f[n + 1].locks = {}
      /\ \A i \in 1 .. n :
           /\ i \in 1 .. n + 1 /\ i + 1 \in 1 .. n + 1
           /\ s[i] \in Ops /\ f[i] \in Context /\ f[i + 1] \in Context /\ Step(s[i], f[i], f[i + 1])
  BY SMT, <1>1, FollowsTypes
<1>3. v \in [1 .. n + 1 -> Int] /\ v[n + 1] = 0 /\ v[1] = One(l \in c.locks)
  BY SMT, <1>2 DEF One
<1>4. ASSUME NEW i \in 1 .. n
      PROVE  v[i] - v[i + 1] = One(i \in P) - One(i \in A)
  <2>1. One(l \in f[i].locks) - One(l \in f[i + 1].locks)
          = One(s[i] = Op("release", l) \/ Implicit(s[i], l)) - One(s[i] = Op("acquire", l))
    BY SMT, <1>2, StepLocks
  <2>2. /\ i \in P <=> (s[i] = Op("release", l) \/ Implicit(s[i], l))
        /\ i \in A <=> s[i] = Op("acquire", l)
    OBVIOUS
  <2>3. v[i] = One(l \in f[i].locks) /\ v[i + 1] = One(l \in f[i + 1].locks)
    BY <1>2
  <2> HIDE DEF v, P, A
  <2> QED
    BY <2>1, <2>2, <2>3 DEF One
<1> HIDE DEF v
<1>5. Tracks(n, v, P, A)
  BY <1>2, <1>3, <1>4 DEF Tracks
<1>6. Cardinality(P) - Cardinality(A) = v[1] - v[n + 1] /\ IsFiniteSet(P)
      /\ Cardinality(A) \in Nat
  BY ZenonT(60), <1>5 DEF CountsAdd
<1>7. R \cap I = {}
  BY SMT DEF Op, Implicit
<1>8. /\ Cardinality(P) = Cardinality(R) + Cardinality(I)
      /\ Cardinality(R) \in Nat /\ Cardinality(I) \in Nat
  <2> HIDE DEF R, I
  <2> QED
    BY <1>6, <1>7 DEF P, CountsAdd
<1>9. Owns(t, l) = Cardinality(R) + Cardinality(I) - Cardinality(A)
  BY <1>2 DEF Owns, Implicit
<1> HIDE DEF P, R, I, A
<1>10. Owns(t, l) = Cardinality(P) - Cardinality(A)
  BY SMT, <1>6, <1>8, <1>9
<1>11. v[1] - v[n + 1] = v[1]
  BY SMT, <1>3 DEF One
<1> QED
  BY <1>3, <1>6, <1>10, <1>11 DEF One
=============================================================================
