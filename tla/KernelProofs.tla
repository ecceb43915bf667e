---------------------------- MODULE KernelProofs ----------------------------
(***************************************************************************)
(* KInv of Kernel is inductive, for any number of threads, bodies and      *)
(* delays: each thread's stack is sound from the context it is in, and the *)
(* queues hold what the stacks and the scheduler's thread table say.       *)
(* Every step of Kernel is a step of Scheduler or none, so Scheduler's own *)
(* inductive invariant is carried along as a part of KInv.                 *)
(***************************************************************************)
EXTENDS KernelStacks, KernelSwitches, OperatorProofs

(* Steps that Zenon cannot do, as with arithmetic, name SMT. *)
USE ZenonT(60)

-----------------------------------------------------------------------------
(* All steps, and what follows from the invariant. *)

(* main() at boot. *)
BootContext ==
  [guards |-> 0, locks |-> {}, flag |-> TRUE, resched |-> FALSE,
   loaded |-> FALSE, stack |-> FALSE, phase |-> "free", wakes |-> None,
   call |-> "none", idle |-> TRUE]

(* The state at boot: the idle thread runs main(). *)
LEMMA InitRest == ASSUME Groundwork, Init PROVE (\E c : Rest(c)) /\ Abstract!Init
<1> DEFINE c == BootContext
<1>0. IDLE \in ThreadId /\ None \notin ThreadId
  BY SMT, KernelAssumption DEF ThreadId, IDLE
<1>1. Outside(c) /\ c.idle /\ c.call = "none"
  BY DEF BootContext, Outside, NoGuard, Context, Fields, WellFormed, Phases
<1>2. /\ c.guards = 0 /\ c.locks = {} /\ c.flag /\ ~ c.resched /\ ~ c.loaded /\ ~ c.stack
      /\ c.phase = "free" /\ c.wakes = None /\ c.idle /\ c.call = "none"
  BY DEF BootContext
<1> HIDE DEF c
<1>3. Sound(Do("body"), c) /\ c \in Context
  BY <1>1 DEF Outside, Base, Groundwork, BodiesRun
<1>4. prog[IDLE] = Do("body") /\ \A t \in ThreadId \ {IDLE} : prog[t] = <<>>
  BY <1>0 DEF Init
<1>5. Do("body") \in Seq(Ops)
  BY <1>3 DEF Sound, Chain
<1>6. Types
  <2>1. prog \in [ThreadId -> Seq(Ops)]
    <3> HIDE DEF Do
    <3>1. <<>> \in Seq(Ops)
      BY SMT
    <3> QED
      BY <1>5, <3>1 DEF Init
  <2>2. IsTimers(ThreadId, timers)
    BY SMT DEF Init, IsTimers
  <2>3. waiters \in Seq(ThreadId) /\ items \in Nat
    BY SMT DEF Init
  <2>4. proc \in [ThreadId -> ThreadId \cup {None}]
    BY DEF Init
  <2>5. active \in ThreadId \cup {None} /\ tss \in ThreadId \cup {None}
    BY DEF Init
  <2>6. intr \in BOOLEAN /\ need \in BOOLEAN /\ inService \in BOOLEAN
    BY DEF Init
  <2> QED
    BY <2>1, <2>2, <2>3, <2>4, <2>5, <2>6 DEF Types
<1>7. Running(c)
  BY <1>2, <1>3, <1>4 DEF Init, Running
<1>8. Others
  BY <1>0, <1>4 DEF Init, Others
<1>9. ~ HasOp(prog[IDLE], "spawn") /\ \A t \in ThreadId : ~ HasOp(prog[t], "spawn")
  <2>1. ~ HasOp(Do("body"), "spawn")
    BY SMT DEF HasOp, Do, Op
  <2>2. ~ HasOp(<<>>, "spawn")
    BY SMT DEF HasOp
  <2> QED
    BY <1>0, <1>4, <2>1, <2>2
<1>10. SpawnsFit
  <2>1. SpawnsPending = {}
    BY <1>9 DEF SpawnsPending, HasOp
  <2>2. Cardinality({}) = 0 /\ Cardinality(Vacancies) \in Nat
    BY DEF Groundwork, ThreadsCount, Vacancies
  <2> QED
    BY SMT, <2>1, <2>2 DEF SpawnsFit
<1>11. SleepersExact(c)
  <2>1. Len(timers) = 0
    BY DEF Init
  <2>2. \A t \in ThreadId : StateIn(c, t) # "Sleeping" /\ c.wakes # t
    BY <1>0, <1>2 DEF Init, StateIn
  <2> QED
    BY SMT, <2>1, <2>2 DEF SleepersExact, WakesIn, WakesApart
<1>12. WaitersExact(c)
  <2>1. Len(waiters) = 0
    BY DEF Init
  <2>2. \A t \in ThreadId : StateIn(c, t) # "Waiting"
    BY <1>2 DEF Init, StateIn
  <2> QED
    BY SMT, <2>1, <2>2 DEF WaitersExact, Holds, Distinct
<1>13. ItemsExact(c)
  BY <1>2 DEF Init, ItemsExact
<1>14. Rest(c)
  BY <1>6, <1>7, <1>8, <1>10, <1>11, <1>12, <1>13 DEF Rest
<1>15. SchedulerPc = "free"
  <2>1. Head(Do("body")).op = "body" /\ ~ HasOp(Do("body"), "loop") /\ current = IDLE
    BY SMT DEF HasOp, Do, Op, Init
  <2> HIDE DEF Do
  <2> QED
    BY <1>4, <2>1, PcFacts DEF StackPc, HasOp
<1>16. Abstract!Init
  BY <1>15 DEF Init, Abstract!Init, ThreadId, Abstract!ThreadId, IDLE, Abstract!IDLE
<1> QED
  BY <1>14, <1>16

(* Nothing happens. *)
LEMMA StutterKept == ASSUME Base, NEW c, Rest(c), UNCHANGED vars PROVE Kept
<1>1. /\ threads' = threads /\ len' = len /\ free' = free /\ ready' = ready /\ current' = current
      /\ deferred' = deferred /\ prog' = prog /\ UNCHANGED irq /\ UNCHANGED user /\ UNCHANGED queues
  BY DEF vars, sched
<1>2. Now' = Now /\ SchedulerPc' = SchedulerPc
  BY <1>1 DEF Now, SchedulerPc
<1>3. Rest(c)'
  <2>1. Types' /\ Running(c)' /\ Others'
    BY <1>1 DEF Rest, Types, Running, Others, Suspended, irq, user, queues
  <2>2. SpawnsFit'
    BY <1>1 DEF Rest, SpawnsFit, SpawnsPending, Vacancies
  <2>3. SleepersExact(c)'
    BY <1>1 DEF Rest, SleepersExact, StateIn, WakesIn, WakesApart, queues
  <2>4. WaitersExact(c)'
    BY <1>1 DEF Rest, WaitersExact, StateIn, Distinct, Holds, queues
  <2>5. ItemsExact(c)'
    BY <1>1 DEF Rest, ItemsExact, Holds, Awake, queues
  <2> QED
    BY <2>1, <2>2, <2>3, <2>4, <2>5 DEF Rest
<1> QED
  BY <1>1, <1>2, <1>3 DEF Kept, Abstract!vars

(* The calls that bodies make. *)
LEMMA BodyKept == ASSUME Base, NEW c, Rest(c), Body PROVE Kept
  BY CallYieldKept, BodyReturnsKept, CallSpawnKept, CallSleepKept, CallConsumeKept,
     CallProduceKept, CallLaunchKept, SyscallKept, PageFaultKept DEF Body

(* The operations of the kernel's functions. *)
LEMMA KernelStepKept == ASSUME Base, NEW c, Rest(c), KernelStep PROVE Kept
<1>1. CASE Enter \/ Leave \/ Acquire \/ Release
  BY <1>1, EnterKept, LeaveKept, AcquireKept, ReleaseKept
<1>2. CASE SpawnInner \/ SchedPass \/ Switched \/ ThreadStarts
  BY <1>2, SpawnInnerKept, SchedPassKept, SwitchedKept, ThreadStartsKept
<1>3. CASE InsertTimerEvent \/ Tick \/ PopClosure \/ WakeSleeper
  BY <1>3, InsertTimerEventKept, TickKept, PopClosureKept, WakeSleeperKept
<1>4. CASE Condition \/ PushWaiter \/ WakeFront \/ TakeItem \/ PutItem
  BY <1>4, ConditionKept, PushWaiterKept, WakeFrontKept, TakeItemKept, PutItemKept
<1>5. CASE NeedResched \/ EndOfInterrupt \/ Resched \/ DropWithoutDisabling \/ IretQ
  BY <1>5, NeedReschedKept, EndOfInterruptKept, ReschedKept, DropWithoutDisablingKept, IretQKept
<1>6. CASE SyscallFlag \/ SetProc \/ ElfLoaded \/ SetKernelRsp
  BY <1>6, SyscallFlagKept, SetProcKept, ElfLoadedKept, SetKernelRspKept
<1> QED
  BY <1>1, <1>2, <1>3, <1>4, <1>5, <1>6 DEF KernelStep

(* The type invariant of Kernel follows. *)
LEMMA KernelTypes == ASSUME Base, NEW c, Rest(c) PROVE TypeOK
<1>1. /\ threads \in [ThreadId -> {"Vacant", "Running", "Ready", "Exiting", "Waiting", "Sleeping"}]
      /\ len \in 1 .. MaxThreads /\ current \in ThreadId /\ deferred \in ThreadId \cup {None}
      /\ free \in Seq(ThreadId) /\ ready \in Seq(ThreadId) /\ waiters \in Seq(ThreadId)
  BY SchedulerFacts DEF Rest, Types
<1>2. \A q \in {free, ready, waiters} : \A i \in DOMAIN q : q[i] \in ThreadId
  BY SMT, <1>1
<1>3. count \in Nat /\ held \subseteq Locks
  BY SMT, ContextFacts DEF Context, Fields
<1>4. \A i \in DOMAIN timers : timers[i].delta \in Nat /\ timers[i].closure \in ThreadId
  <2>1. IsTimers(ThreadId, timers)
    BY DEF Rest, Types
  <2>2. DOMAIN timers = 1 .. Len(timers)
    BY SMT, <2>1 DEF IsTimers
  <2> QED
    BY <2>1, <2>2, TimerEvents
<1> QED
  BY <1>1, <1>2, <1>3, <1>4 DEF TypeOK, Rest, Types

(* InterruptFlag follows from the invariant. *)
LEMMA FlagFollows == ASSUME Base, NEW c, Rest(c) PROVE InterruptFlag
<1>1. /\ c.guards = count /\ (c.flag <=> intr) /\ (c.flag => c.guards = 0) /\ count \in Nat
      /\ Relies(Now, c) /\ Now.op \in OpNames
  BY ContextFacts, AtHand
<1> HIDE DEF Now
<1>2. ~ intr /\ count = 0 => Now.op \in {"enter", "iretq", "syscall_handler", "sysretq"}
  BY SMT, <1>1 DEF Relies, OpNames, NoGuard, OnlyScheduler
<1>3. Now.op = "iretq" => Now.arg = TRUE /\ count = 0
  BY <1>1 DEF Relies, NoGuard
<1>4. Now.op = "syscall_handler" => count = 0
  BY <1>1 DEF Relies, NoGuard
<1>5. Now.op = "iretq" => Now.arg = (count = 0)
  BY <1>3
<1> QED
  BY <1>1, <1>2, <1>4, <1>5 DEF InterruptFlag

(* ReschedNotLost follows from the invariant. *)
LEMMA RequestServed == ASSUME Base, NEW c, Rest(c) PROVE ReschedNotLost
  BY ContextFacts DEF ReschedNotLost

(* UserContext follows from the invariant. *)
LEMMA OwnContext == ASSUME Base, NEW c, Rest(c) PROVE UserContext
<1>1. Relies(Now, c) /\ (c.loaded => active = current) /\ (c.stack => tss = current)
  BY ContextFacts, AtHand
<1> HIDE DEF Now
<1> QED
  BY <1>1 DEF Relies, UserContext

(* NoLostWakeup follows from the invariant. *)
LEMMA WakeupKept == ASSUME Base, NEW c, Rest(c) PROVE NoLostWakeup
<1>1. c.locks = held /\ (c.phase \in {"put", "take"} => "OBJECT" \in c.locks)
  BY ContextFacts DEF Context, WellFormed
<1>2. waiters # <<>> => items <= Cardinality(Awake) + One(c.phase \in {"put", "take"})
  BY DEF Rest, ItemsExact
<1>3. Cardinality(Awake) \in Nat /\ items \in Nat
  BY ThreadSets DEF Rest, Types, Awake
<1>4. "OBJECT" \notin held /\ waiters # <<>> => items <= Cardinality(Awake)
  BY SMT, <1>1, <1>2, <1>3 DEF One
<1>5. Awake = {t \in ThreadId : /\ \E i \in DOMAIN prog[t] : prog[t][i].op = "condition"
                                /\ \A i \in DOMAIN waiters : waiters[i] # t}
  <2>1. DOMAIN waiters = 1 .. Len(waiters)
    BY SMT DEF Rest, Types
  <2> QED
    BY <2>1 DEF Awake, HasOp, Holds
<1> QED
  BY <1>4, <1>5 DEF NoLostWakeup

(* Only threads that are blocked are woken. *)
LEMMA OnlyBlockedAreWoken ==
  ASSUME Base, NEW c, Rest(c)
  PROVE  /\ Now.op = "wake" => threads[Now.arg] \in {"Waiting", "Sleeping"}
         /\ Now.op \in {"wake_front", "wake_each"} =>
              \A i \in DOMAIN waiters : threads[waiters[i]] \in {"Waiting", "Sleeping"}
<1>1. /\ \A t \in ThreadId : WakesIn(timers, t) \/ c.wakes = t <=> StateIn(c, t) = "Sleeping"
      /\ \A t \in ThreadId : Holds(waiters, t) <=> StateIn(c, t) = "Waiting"
      /\ DOMAIN waiters = 1 .. Len(waiters) /\ waiters \in Seq(ThreadId)
  BY SMT DEF Rest, Types, SleepersExact, WaitersExact
<1>2. Now.op = "wake" => threads[Now.arg] \in {"Waiting", "Sleeping"}
  <2>1. Relies(Now, c) /\ c \in Context
    BY AtHand
  <2> HIDE DEF Now
  <2>2. Now.op = "wake" => c.phase = "waking" /\ c.wakes = Now.arg /\ Now.arg \in ThreadId
    BY <2>1 DEF Relies, Context, Fields, WellFormed
  <2> QED
    BY <1>1, <2>2 DEF StateIn
<1>3. Now.op \in {"wake_front", "wake_each"} =>
        \A i \in DOMAIN waiters : threads[waiters[i]] \in {"Waiting", "Sleeping"}
  <2>1. Relies(Now, c)
    BY AtHand
  <2> HIDE DEF Now
  <2>2. Now.op \in {"wake_front", "wake_each"} => c.phase = "put"
    BY <2>1 DEF Relies
  <2>3. \A i \in DOMAIN waiters : waiters[i] \in ThreadId /\ Holds(waiters, waiters[i])
    BY SMT, <1>1 DEF Holds
  <2> QED
    BY <1>1, <2>2, <2>3 DEF StateIn
<1> QED
  BY <1>2, <1>3

-----------------------------------------------------------------------------
(* The groundwork. *)

(* The tables of the scheduler hold finitely many threads. *)
LEMMA ThreadsAreCounted == ThreadsCount
<1>1. IsFiniteSet(ThreadId)
  BY SMT, KernelAssumption, FS_Interval DEF ThreadId
<1>2. ASSUME NEW S \in SUBSET ThreadId
      PROVE  /\ Cardinality(S) \in Nat
             /\ \A R \in SUBSET S : Cardinality(R) <= Cardinality(S)
             /\ \A t \in S : Cardinality(S \ {t}) = Cardinality(S) - 1
             /\ \A t \in ThreadId \ S : Cardinality(S \cup {t}) = Cardinality(S) + 1
  <2>1. IsFiniteSet(S) /\ Cardinality(S) \in Nat
    BY <1>1, FS_Subset, FS_CardinalityType
  <2>2. \A R \in SUBSET S : Cardinality(R) <= Cardinality(S)
    BY <2>1, FS_Subset
  <2>3. \A t \in S : Cardinality(S \ {t}) = Cardinality(S) - 1
    BY <2>1, FS_RemoveElement
  <2>4. \A t \in ThreadId \ S : Cardinality(S \cup {t}) = Cardinality(S) + 1
    BY <2>1, FS_AddElement
  <2> QED
    BY <2>1, <2>2, <2>3, <2>4
<1> QED
  BY <1>2, FS_EmptySet DEF ThreadsCount

(* What KernelSteps takes for granted. *)
LEMMA GroundworkHolds == Groundwork
<1>1. QueuesKeepOrder
  <2> SUFFICES ASSUME NEW q \in Seq(ThreadId), Distinct(q)
               PROVE  /\ \A t \in ThreadId :
                           ~ Holds(q, t) =>
                             /\ Append(q, t) \in Seq(ThreadId) /\ Distinct(Append(q, t))
                             /\ \A u : Holds(Append(q, t), u) <=> Holds(q, u) \/ u = t
                      /\ q # <<>> =>
                           /\ Head(q) \in ThreadId /\ Holds(q, Head(q))
                           /\ Tail(q) \in Seq(ThreadId) /\ Distinct(Tail(q))
                           /\ \A u : Holds(Tail(q), u) <=> Holds(q, u) /\ u # Head(q)
    BY DEF QueuesKeepOrder
  <2> QED
    BY PushBack, PopFront
<1>2. TimersWakeOnce
  BY InsertedWakes, TickedWakes DEF TimersWakeOnce
<1>3. StacksTell
  BY CountingWorks, StillToCome DEF StacksTell, HasOp
<1> QED
  BY <1>1, <1>2, <1>3, ThreadsAreCounted, JoinsAndPops, CallsAndBodies, HandlersAndWaiters
     DEF Groundwork

(* What the steps take for granted holds wherever KInv does. *)
LEMMA KInvBase == ASSUME KInv PROVE Base
  BY GroundworkHolds DEF KInv, Base

(* LocksOwned follows from the invariant. *)
LEMMA LocksAreOwned == ASSUME KInv PROVE LocksOwned
<1>1. PICK c : Rest(c)
  BY DEF KInv
<1>2. Base
  BY KInvBase
<1>3. intr => held = {}
  BY <1>1, <1>2, ContextFacts
<1>4. Now.op \in {"sched", "loop"} => count = 1 /\ held = {"SCHEDULER"}
  BY <1>1, <1>2, SchedCaller, ContextFacts DEF OnlyScheduler
<1>5. Sound(prog[current], c) /\ c.guards = count /\ c.locks = held
  BY <1>1 DEF Rest, Running
<1>6. count = GuardsOf(current)
  BY <1>5, CountingWorks, GuardsCounted
<1>7. \A l \in Locks : Owns(current, l) = IF l \in held THEN 1 ELSE 0
  BY <1>5, CountingWorks, LocksCounted
<1>8. ASSUME NEW t \in ThreadId \ {current}, threads[t] \notin {"Vacant", "Exiting"}
      PROVE  /\ GuardsOf(t) = 1
             /\ \A l \in Locks : Owns(t, l) = IF l = "SCHEDULER" THEN 1 ELSE 0
  <2>1. Suspended(t)
    BY <1>1, <1>8 DEF Rest, Others
  <2>2. PICK x : Sound(prog[t], x) /\ OnlyScheduler(x)
    BY <2>1 DEF Suspended, JustSwitched
  <2>3. GuardsOf(t) = 1
    BY <2>2, CountingWorks, GuardsCounted DEF OnlyScheduler
  <2>4. ASSUME NEW l \in Locks PROVE Owns(t, l) = IF l = "SCHEDULER" THEN 1 ELSE 0
    <3>1. Owns(t, l) = IF l \in x.locks THEN 1 ELSE 0
      BY <2>2, CountingWorks, LocksCounted
    <3> QED
      BY <2>2, <3>1 DEF OnlyScheduler
  <2> QED
    BY <2>3, <2>4
<1> QED
  BY <1>1, <1>2, <1>3, <1>4, <1>6, <1>7, <1>8, KernelTypes DEF LocksOwned

(* BlockedHasOneWakeup follows from the invariant. *)
LEMMA BlockedAreWoken == ASSUME KInv PROVE BlockedHasOneWakeup
<1>1. PICK c : Rest(c)
  BY DEF KInv
<1>2. Base
  BY KInvBase
<1>3. /\ Sound(prog[current], c) /\ WakesApart(timers) /\ ~ WakesIn(timers, c.wakes)
      /\ \A t \in ThreadId : WakesIn(timers, t) \/ c.wakes = t <=> StateIn(c, t) = "Sleeping"
      /\ Distinct(waiters)
      /\ \A t \in ThreadId : Holds(waiters, t) <=> StateIn(c, t) = "Waiting"
      /\ DOMAIN timers = 1 .. Len(timers) /\ DOMAIN waiters = 1 .. Len(waiters)
      /\ waiters \in Seq(ThreadId)
  BY SMT, <1>1 DEF Rest, Types, Running, SleepersExact, WaitersExact, IsTimers
<1>4. ASSUME NEW t \in ThreadId \ {current}
      PROVE  Cardinality({i \in DOMAIN timers : timers[i].closure = t})
             + Cardinality({i \in DOMAIN prog[current] : prog[current][i] = Op("wake", t)})
             = IF threads[t] = "Sleeping" THEN 1 ELSE 0
  <2> DEFINE S == {i \in DOMAIN timers : timers[i].closure = t}
  <2>1. (S # {} <=> WakesIn(timers, t)) /\ \A i, j \in S : i = j
    BY SMT, <1>3 DEF WakesIn, WakesApart
  <2>2. Cardinality(S) = One(S # {})
    <3> HIDE DEF S
    <3> QED
      BY <2>1, AtMostOne
  <2>3. Cardinality({i \in DOMAIN prog[current] : prog[current][i] = Op("wake", t)}) = One(c.wakes = t)
    BY SMT, <1>3, CountingWorks, WakesOnce
  <2>4. WakesIn(timers, t) \/ c.wakes = t <=> threads[t] = "Sleeping"
    BY <1>3 DEF StateIn
  <2>5. ~ (WakesIn(timers, t) /\ c.wakes = t)
    BY <1>3
  <2>6. One(S # {}) + One(c.wakes = t) = IF threads[t] = "Sleeping" THEN 1 ELSE 0
    <3> HIDE DEF S
    <3> QED
      BY SMT, <2>1, <2>4, <2>5 DEF One
  <2> QED
    BY <2>2, <2>3, <2>6
<1>5. ASSUME NEW t \in ThreadId \ {current}
      PROVE  Cardinality({i \in DOMAIN waiters : waiters[i] = t})
             = IF threads[t] = "Waiting" THEN 1 ELSE 0
  <2> DEFINE S == {i \in DOMAIN waiters : waiters[i] = t}
  <2>1. (S # {} <=> Holds(waiters, t)) /\ \A i, j \in S : i = j
    BY <1>3 DEF Holds, Distinct
  <2>2. Holds(waiters, t) <=> threads[t] = "Waiting"
    BY <1>3 DEF StateIn
  <2>3. Cardinality(S) = One(S # {})
    <3> HIDE DEF S
    <3> QED
      BY <2>1, AtMostOne
  <2> HIDE DEF S
  <2>4. Cardinality(S) = IF threads[t] = "Waiting" THEN 1 ELSE 0
    BY <2>1, <2>2, <2>3 DEF One
  <2> QED
    BY <2>4 DEF S
<1>6. /\ Now.op = "wake" => threads[Now.arg] \in {"Waiting", "Sleeping"}
      /\ Now.op \in {"wake_front", "wake_each"} =>
           \A i \in DOMAIN waiters : threads[waiters[i]] \in {"Waiting", "Sleeping"}
  BY <1>1, <1>2, OnlyBlockedAreWoken
<1> QED
  BY <1>4, <1>5, <1>6 DEF BlockedHasOneWakeup

-----------------------------------------------------------------------------
(* The theorems. *)

(* The scheduler's own proofs, about the scheduler inside the kernel. *)
P == INSTANCE SchedulerProofs WITH pc <- SchedulerPc

(* P and Abstract are the same scheduler. *)
LEMMA SameScheduler ==
  /\ Abstract!Init => P!Init
  /\ Abstract!Next => P!Next
  /\ P!vars = Abstract!vars /\ P!vars' = Abstract!vars'
  /\ P!IInv <=> Abstract!IInv
  /\ P!IInv' <=> Abstract!IInv'
<1>1. Abstract!Init => P!Init
  BY DEF P!Init, Abstract!Init, P!ThreadId, Abstract!ThreadId, P!IDLE, Abstract!IDLE
<1>2. Abstract!Next => P!Next
  BY DEF P!Next, Abstract!Next, P!Spawn, Abstract!Spawn, P!Wake, Abstract!Wake, P!Sched, Abstract!Sched,
         P!Resume, Abstract!Resume, P!CleanUp, Abstract!CleanUp, P!Again, Abstract!Again,
         P!Switch, Abstract!Switch, P!CanInsert, Abstract!CanInsert, P!InsertSlot, Abstract!InsertSlot,
         P!InsertedId, Abstract!InsertedId, P!YieldToNobody, Abstract!YieldToNobody,
         P!NextThread, Abstract!NextThread, P!Remaining, Abstract!Remaining, P!Requeue, Abstract!Requeue,
         P!StateAfter, Abstract!StateAfter, P!SchedReason, Abstract!SchedReason,
         P!ThreadId, Abstract!ThreadId, P!IDLE, Abstract!IDLE
<1>3. P!vars = Abstract!vars /\ P!vars' = Abstract!vars'
  BY DEF P!vars, Abstract!vars
<1>4. (P!IInv <=> Abstract!IInv) /\ (P!IInv' <=> Abstract!IInv')
  BY DEF P!IInv, Abstract!IInv, P!TypeOK, Abstract!TypeOK, P!RunningIsCurrent, Abstract!RunningIsCurrent,
         P!ReadyQueueExact, Abstract!ReadyQueueExact, P!IdleAvailable, Abstract!IdleAvailable,
         P!DeferredToIdle, Abstract!DeferredToIdle, P!FreeListExact, Abstract!FreeListExact,
         P!ThreadId, Abstract!ThreadId, P!IDLE, Abstract!IDLE, P!ThreadState, Abstract!ThreadState,
         P!Distinct, Abstract!Distinct, P!Holds, Abstract!Holds
<1> QED
  BY <1>1, <1>2, <1>3, <1>4

(* The state at boot. *)
LEMMA InitKInv == ASSUME Init PROVE KInv /\ Abstract!Init
<1>1. (\E c : Rest(c)) /\ Abstract!Init
  BY GroundworkHolds, InitRest
<1>2. Abstract!IInv
  BY <1>1, SameScheduler, SchedulerConstants, P!InitInv
<1> QED
  BY <1>1, <1>2 DEF KInv

(* All steps. *)
LEMMA NextKept == ASSUME KInv, [Next]_vars PROVE Kept
<1>1. PICK c : Rest(c)
  BY DEF KInv
<1>2. Base
  BY KInvBase
<1> QED
  BY <1>1, <1>2, BodyKept, KernelStepKept, TimerIrqKept, StutterKept DEF Next

(* On every path through the kernel's functions, interrupted wherever the  *)
(* flag allows, each operation finds the guards, locks and flags it relies *)
(* on: KInv holds, for any number of threads, bodies and delays.           *)
THEOREM KernelInvariant == Spec => []KInv
<1>1. Init => KInv
  BY InitKInv
<1>2. KInv /\ [Next]_vars => KInv'
  <2> SUFFICES ASSUME KInv, [Next]_vars PROVE KInv'
    OBVIOUS
  <2>1. Kept
    BY NextKept
  <2>2. P!IInv /\ [P!Next]_(P!vars)
    BY <2>1, SameScheduler DEF KInv, Kept
  <2>3. Abstract!IInv'
    BY <2>2, SameScheduler, SchedulerConstants, P!InductiveInv
  <2> QED
    BY <2>1, <2>3 DEF KInv, Kept
<1> QED
  BY <1>1, <1>2, PTL DEF Spec

(* Threads that call the kernel's functions, with interrupts and all       *)
(* locking, use the scheduler as Scheduler says: every step is one of its  *)
(* steps or leaves its state alone.                                        *)
THEOREM KernelImplementsScheduler == Spec => ImplementsScheduler
<1>1. Init => Abstract!Init
  BY InitKInv
<1>2. KInv /\ [Next]_vars => [Abstract!Next]_(Abstract!vars)
  BY NextKept DEF Kept
<1> QED
  BY <1>1, <1>2, KernelInvariant, PTL DEF Spec, ImplementsScheduler, Abstract!Spec

(* LocksOwned: every lock that is held, and every interrupt guard, is      *)
(* dropped exactly once by the running thread, which takes no lock that is *)
(* held; so lock() never spins for ever on the one CPU.                    *)
THEOREM LocksAndGuardsPairUp == Spec => []LocksOwned
  BY LocksAreOwned, KernelInvariant, PTL

(* InterruptFlag: interrupts are on just outside guards and handlers, and  *)
(* no thread that does not run will find them otherwise.                   *)
THEOREM InterruptsFollowTheCount == Spec => []InterruptFlag
<1>1. KInv => InterruptFlag
  BY KInvBase, FlagFollows DEF KInv
<1> QED
  BY <1>1, KernelInvariant, PTL

(* ReschedNotLost: a request of the timer interrupt to reschedule is       *)
(* served before interrupts are on again.                                  *)
THEOREM ReschedIsNotLost == Spec => []ReschedNotLost
<1>1. KInv => ReschedNotLost
  BY KInvBase, RequestServed DEF KInv
<1> QED
  BY <1>1, KernelInvariant, PTL

(* UserContext: a thread in user mode has its own process active and its   *)
(* own kernel stack in the TSS.                                            *)
THEOREM UserModeHasItsOwn == Spec => []UserContext
<1>1. KInv => UserContext
  BY KInvBase, OwnContext DEF KInv
<1> QED
  BY <1>1, KernelInvariant, PTL

(* BlockedHasOneWakeup: a sleeping thread has exactly one event or closure *)
(* that will wake it, a waiting one exactly one place in the queue of      *)
(* waiters, and only blocked threads are woken.                            *)
THEOREM EveryBlockedThreadIsWoken == Spec => []BlockedHasOneWakeup
  BY BlockedAreWoken, KernelInvariant, PTL

(* NoLostWakeup: no item is left to a consumer that only waits. *)
THEOREM NoWakeupIsLost == Spec => []NoLostWakeup
<1>1. KInv => NoLostWakeup
  BY KInvBase, WakeupKept DEF KInv
<1> QED
  BY <1>1, KernelInvariant, PTL
=============================================================================
