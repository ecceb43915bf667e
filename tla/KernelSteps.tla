---------------------------- MODULE KernelSteps -----------------------------
(***************************************************************************)
(* The steps of Kernel that move no thread: each keeps the invariant of    *)
(* KernelContexts and leaves the state of Scheduler alone.                 *)
(***************************************************************************)
EXTENDS KernelContexts, TLAPS

(* Steps that Zenon cannot do, as with arithmetic, name SMT. *)
USE Zenon

(* What the scheduler's invariant says, in the terms of Kernel. *)
LEMMA SchedulerFacts ==
  ASSUME Base
  PROVE  /\ current \in ThreadId /\ IDLE \in ThreadId
         /\ threads \in [ThreadId -> {"Vacant", "Running", "Ready", "Exiting", "Waiting", "Sleeping"}]
         /\ free \in Seq(ThreadId) /\ ready \in Seq(ThreadId)
         /\ len \in 1 .. MaxThreads
         /\ deferred \in ThreadId \cup {None}
         /\ \A t \in ThreadId : threads[t] = "Running" <=> t = current
         /\ threads[current] = "Running"
         /\ threads[IDLE] \in {"Running", "Ready"}
         /\ deferred # None => current = IDLE /\ SchedulerPc = "switched"
         /\ \A t \in ThreadId : threads[t] = "Exiting" <=> t = deferred
         /\ Distinct(ready)
         /\ \A t \in ThreadId : Holds(ready, t) <=> threads[t] = "Ready" /\ t # IDLE
         /\ Distinct(free)
         /\ \A t \in ThreadId : Holds(free, t) <=> threads[t] = "Vacant" /\ t < len
         /\ \A t \in ThreadId : t >= len => threads[t] = "Vacant"
<1>1. ThreadId = Abstract!ThreadId /\ IDLE = Abstract!IDLE /\ IDLE \in ThreadId
  BY SMT, KernelAssumption DEF ThreadId, Abstract!ThreadId, IDLE, Abstract!IDLE
<1>2. \A q, t : (Distinct(q) <=> Abstract!Distinct(q)) /\ (Holds(q, t) <=> Abstract!Holds(q, t))
  BY DEF Distinct, Abstract!Distinct, Holds, Abstract!Holds
<1> QED
  BY <1>1, <1>2 DEF Base, Abstract!IInv, Abstract!TypeOK, Abstract!ThreadState,
                    Abstract!RunningIsCurrent, Abstract!IdleAvailable, Abstract!DeferredToIdle,
                    Abstract!ReadyQueueExact, Abstract!FreeListExact

(* Scheduler sees where the stack of the running thread is. *)
LEMMA PcFacts == SchedulerPc = StackPc(prog[current]) /\ SchedulerPc' = StackPc(prog'[current'])
  BY DEF SchedulerPc, StackPc, Now

(* Its phase says the same. *)
LEMMA PcOfPhase ==
  ASSUME Base, NEW s, NEW c, Sound(s, c), c.phase # "end"
  PROVE  StackPc(s) = PhasePc(c)
<1>1. (\E i \in DOMAIN s : s[i].op = "loop") <=> c.phase = "continue"
  BY DEF Base, Groundwork, StacksTell, HasOp
<1> DEFINE e == Head(s)
<1>2. PICK d \in Context : Step(e, c, d)
  BY DEF Base, Groundwork, StacksPop
<1>3. Relies(e, c) /\ e.op \in OpNames
  BY <1>2 DEF Step, Ops, Base, Groundwork, StacksPop
<1> HIDE DEF e
<1>4. e.op \in {"switched", "thread_entry"} <=> c.phase = "switched"
  BY <1>3 DEF Relies, OnlyScheduler, NoGuard, Carried, OpNames
<1> QED
  BY <1>1, <1>4 DEF StackPc, PhasePc, e

(* The operation at hand finds what it relies on. *)
LEMMA AtHand ==
  ASSUME Base, NEW c, Rest(c)
  PROVE  /\ Now \in Ops /\ Now.op \in OpNames /\ prog[current] \in Seq(Ops)
         /\ Tail(prog[current]) \in Seq(Ops)
         /\ prog[current] # <<>>
         /\ c \in Context /\ c \in Fields /\ WellFormed(c)
         /\ Relies(Now, c)
         /\ Leaves(Now, c) \in Context
         /\ Sound(Tail(prog[current]), Leaves(Now, c))
<1>1. Sound(prog[current], c) /\ c.phase # "end" /\ c \in Context
  BY DEF Rest, Running
<1>2. PICK d \in Context : Step(Now, c, d) /\ Sound(Tail(prog[current]), d)
  BY <1>1 DEF Now, Base, Groundwork, StacksPop
<1>3. Now \in Ops /\ prog[current] \in Seq(Ops) /\ Tail(prog[current]) \in Seq(Ops) /\ prog[current] # <<>>
  BY <1>1 DEF Now, Base, Groundwork, StacksPop
<1>4. Now.op \in OpNames
  BY <1>3 DEF Ops
<1> QED
  BY <1>1, <1>2, <1>3, <1>4 DEF Step, Context

-----------------------------------------------------------------------------
(* Steps of the running thread, and what they leave alone. *)

(* The rest of the state of the running thread, in the next state. *)
RunsOn(d, todo) ==
  /\ d \in Context /\ d.phase # "end" /\ Sound(todo, d)
  /\ prog' = [prog EXCEPT ![current] = todo]
  /\ d.guards = count' /\ d.locks = held'
  /\ (d.flag <=> intr') /\ (d.resched <=> need')
  /\ d.idle <=> current = IDLE
  /\ d.loaded => active' = current
  /\ d.stack => tss' = current
  /\ active' \in ThreadId \cup {None} /\ tss' \in ThreadId \cup {None}
  /\ intr' \in BOOLEAN /\ need' \in BOOLEAN /\ inService' \in BOOLEAN

(* The running thread runs on in context d. *)
LEMMA RunsOnRunning ==
  ASSUME Base, NEW c, Rest(c), NEW d, NEW todo, RunsOn(d, todo), current' = current
  PROVE  /\ Running(d)'
         /\ prog' \in [ThreadId -> Seq(Ops)]
         /\ prog'[current] = todo
         /\ \A t \in ThreadId \ {current} : prog'[t] = prog[t]
<1>1. current \in ThreadId /\ prog \in [ThreadId -> Seq(Ops)]
  BY SchedulerFacts DEF Rest, Types
<1>2. todo \in Seq(Ops)
  BY DEF RunsOn, Sound, Chain
<1>3. /\ prog' \in [ThreadId -> Seq(Ops)]
      /\ prog'[current] = todo
      /\ \A t \in ThreadId \ {current} : prog'[t] = prog[t]
  BY <1>1, <1>2 DEF RunsOn
<1> QED
  BY <1>3 DEF RunsOn, Running

(* The other threads do not notice. *)
LEMMA OthersStay ==
  ASSUME Base, NEW c, Rest(c), NEW d, NEW todo, RunsOn(d, todo),
         current' = current, threads' = threads, proc' = proc
  PROVE  Others'
<1>1. /\ \A t \in ThreadId \ {current} : prog'[t] = prog[t]
      /\ threads[current] = "Running"
  BY RunsOnRunning, SchedulerFacts
<1>2. ASSUME NEW t \in ThreadId, t # current, threads[t] # "Vacant" PROVE Suspended(t)'
  BY <1>1, <1>2 DEF Rest, Others, Suspended
<1>3. ASSUME NEW t \in ThreadId, threads[t] = "Vacant" PROVE prog'[t] = <<>>
  BY <1>1, <1>3 DEF Rest, Others
<1> QED
  BY <1>2, <1>3 DEF Others

(* Whether a stack is still to reach an operation. *)
LEMMA OpToCome ==
  ASSUME Base, NEW s, NEW c, Sound(s, c)
  PROVE  /\ HasOp(s, "spawn") <=> c.call = "spawn"
         /\ HasOp(s, "condition") <=> c.call = "condition"
  BY DEF Base, Groundwork, StacksTell

(* No call is made and none comes to its end. *)
LEMMA CallsStay ==
  ASSUME Base, NEW c, Rest(c), NEW d, NEW todo, RunsOn(d, todo), d.call = c.call,
         current' = current
  PROVE  /\ SpawnsPending' = SpawnsPending
         /\ \A t \in ThreadId : HasOp(prog'[t], "condition") <=> HasOp(prog[t], "condition")
<1>1. /\ prog'[current] = todo
      /\ \A t \in ThreadId \ {current} : prog'[t] = prog[t]
  BY RunsOnRunning
<1>2. Sound(todo, d) /\ Sound(prog[current], c)
  BY DEF RunsOn, Rest, Running
<1>3. \A t \in ThreadId : /\ HasOp(prog'[t], "spawn") <=> HasOp(prog[t], "spawn")
                          /\ HasOp(prog'[t], "condition") <=> HasOp(prog[t], "condition")
  BY <1>1, <1>2, OpToCome
<1>4. SpawnsPending' = SpawnsPending
  BY <1>3 DEF SpawnsPending, HasOp
<1> QED
  BY <1>3, <1>4

(* A step that leaves the scheduler's own state alone. *)
LEMMA SettledRest ==
  ASSUME Base, NEW c, Rest(c), NEW d, NEW todo, RunsOn(d, todo),
         UNCHANGED <<sched, proc>>,
         IsTimers(ThreadId, timers'), waiters' \in Seq(ThreadId), items' \in Nat,
         SpawnsFit', SleepersExact(d)', WaitersExact(d)', ItemsExact(d)'
  PROVE  Rest(d)' /\ SchedulerPc = PhasePc(c) /\ SchedulerPc' = PhasePc(d)
<1>1. threads' = threads /\ current' = current /\ proc' = proc
  BY DEF sched
<1>2. Running(d)' /\ prog' \in [ThreadId -> Seq(Ops)]
  BY <1>1, RunsOnRunning
<1>3. Types'
  BY <1>1, <1>2 DEF Rest, Types, RunsOn
<1>4. Others'
  BY <1>1, OthersStay
<1>5. Rest(d)'
  BY <1>2, <1>3, <1>4 DEF Rest
<1>6. Sound(prog[current], c) /\ c.phase # "end" /\ Sound(prog'[current'], d) /\ d.phase # "end"
  BY <1>2 DEF Rest, Running
<1>7. StackPc(prog[current]) = PhasePc(c) /\ StackPc(prog'[current']) = PhasePc(d)
  BY <1>6, PcOfPhase
<1> QED
  BY <1>5, <1>7, PcFacts

(* A step that the scheduler does not see at all. *)
LEMMA Settled ==
  ASSUME Base, NEW c, Rest(c), NEW d, NEW todo, RunsOn(d, todo), PhasePc(d) = PhasePc(c),
         UNCHANGED <<sched, proc>>,
         IsTimers(ThreadId, timers'), waiters' \in Seq(ThreadId), items' \in Nat,
         SpawnsFit', SleepersExact(d)', WaitersExact(d)', ItemsExact(d)'
  PROVE  Kept
<1>1. Rest(d)' /\ SchedulerPc' = SchedulerPc
  BY SMT, SettledRest
<1>2. UNCHANGED Abstract!vars
  BY <1>1 DEF Abstract!vars, sched
<1> QED
  BY <1>1, <1>2 DEF Kept

(* Operations away from the object leave the items as they are for the     *)
(* waiters.                                                                *)
LEMMA ItemsStay ==
  ASSUME NEW c, NEW d, Rest(c), waiters' = waiters, items' = items, Awake' = Awake,
         c.phase \notin {"put", "take"}, d.phase \notin {"put", "take", "blocking"}
  PROVE  ItemsExact(d)'
<1>1. One(c.phase \in {"put", "take"}) = 0 /\ One(d.phase \in {"put", "take"}) = 0
  BY DEF One
<1>2. waiters # <<>> => items <= Cardinality(Awake) + 0
  BY <1>1 DEF Rest, ItemsExact
<1> QED
  BY <1>1, <1>2 DEF ItemsExact

(* What a step that leaves one of them alone keeps. *)
LEMMA SpawnsStay ==
  ASSUME Base, NEW c, Rest(c), NEW d, NEW todo, RunsOn(d, todo), d.call = c.call,
         UNCHANGED sched
  PROVE  SpawnsFit'
<1>1. SpawnsPending' = SpawnsPending /\ Vacancies' = Vacancies
  BY CallsStay DEF Vacancies, sched
<1> QED
  BY <1>1 DEF Rest, SpawnsFit

(* Timers and sleepers stay. *)
LEMMA SleepersStay ==
  ASSUME Base, NEW c, Rest(c), NEW d, UNCHANGED sched, timers' = timers,
         d.wakes = c.wakes, d.phase = "Sleeping" <=> c.phase = "Sleeping"
  PROVE  SleepersExact(d)'
<1>1. threads' = threads /\ current' = current
  BY DEF sched
<1>2. \A t : StateIn(d, t)' = "Sleeping" <=> StateIn(c, t) = "Sleeping"
  BY <1>1 DEF StateIn
<1> QED
  BY <1>1, <1>2 DEF Rest, SleepersExact, WakesApart, WakesIn

(* Waiters stay. *)
LEMMA WaitersStay ==
  ASSUME Base, NEW c, Rest(c), NEW d, UNCHANGED sched, waiters' = waiters,
         d.phase = "Waiting" <=> c.phase = "Waiting"
  PROVE  WaitersExact(d)'
<1>1. threads' = threads /\ current' = current
  BY DEF sched
<1>2. \A t : StateIn(d, t)' = "Waiting" <=> StateIn(c, t) = "Waiting"
  BY <1>1 DEF StateIn
<1> QED
  BY <1>1, <1>2 DEF Rest, WaitersExact, Holds, Distinct

(* The consumers that will look at the object stay. *)
LEMMA AwakeStay ==
  ASSUME Base, NEW c, Rest(c), NEW d, NEW todo, RunsOn(d, todo), d.call = c.call,
         UNCHANGED sched, waiters' = waiters
  PROVE  Awake' = Awake
  BY CallsStay DEF Awake, Holds, sched

(* A step of the running thread that is nobody else's business. *)
LEMMA Quiet ==
  ASSUME Base, NEW c, Rest(c), NEW d, NEW todo, RunsOn(d, todo),
         d.phase = c.phase, d.wakes = c.wakes, d.call = c.call,
         UNCHANGED <<sched, proc, queues>>
  PROVE  Kept
<1>1. timers' = timers /\ waiters' = waiters /\ items' = items
  BY DEF queues
<1>2. UNCHANGED sched /\ UNCHANGED proc
  OBVIOUS
<1>3. SpawnsFit' /\ SleepersExact(d)' /\ WaitersExact(d)' /\ Awake' = Awake
  BY <1>1, <1>2, SpawnsStay, SleepersStay, WaitersStay, AwakeStay
<1>4. ItemsExact(d)'
  BY <1>1, <1>3 DEF Rest, ItemsExact
<1>5. IsTimers(ThreadId, timers') /\ waiters' \in Seq(ThreadId) /\ items' \in Nat
  BY <1>1 DEF Rest, Types
<1>6. PhasePc(d) = PhasePc(c)
  BY DEF PhasePc
<1> QED
  BY <1>2, <1>3, <1>4, <1>5, <1>6, Settled

(* The operation at hand is taken off the stack. *)
LEMMA ThenNothing ==
  ASSUME Base, NEW c, Rest(c), Then(<<>>)
  PROVE  prog' = [prog EXCEPT ![current] = Tail(prog[current])]
<1>1. Tail(prog[current]) \in Seq(Ops)
  BY AtHand
<1>2. <<>> \o Tail(prog[current]) = Tail(prog[current])
  BY SMT, <1>1
<1> QED
  BY <1>2 DEF Then

(* What the running thread's context says of the state. *)
LEMMA ContextFacts ==
  ASSUME Base, NEW c, Rest(c)
  PROVE  /\ c \in Context /\ c.phase # "end" /\ c.guards \in Nat
         /\ c.guards = count /\ c.locks = held
         /\ (c.flag <=> intr) /\ (c.resched <=> need)
         /\ c.idle <=> current = IDLE
         /\ c.loaded => active = current
         /\ c.stack => tss = current
         /\ active \in ThreadId \cup {None} /\ tss \in ThreadId \cup {None}
         /\ intr \in BOOLEAN /\ need \in BOOLEAN /\ inService \in BOOLEAN
         /\ current \in ThreadId
         /\ c.flag => c.guards = 0 /\ c.locks = {} /\ ~ c.resched
         /\ c.flag => c.phase = "free"
         /\ c.wakes = None <=> c.phase # "waking"
  BY SchedulerFacts DEF Rest, Types, Running, Context, Fields, WellFormed

(* Sets of threads are finite. *)
LEMMA ThreadSets ==
  ASSUME Base
  PROVE  /\ \A S \in SUBSET ThreadId : Cardinality(S) \in Nat
         /\ None \notin ThreadId
  BY SMT, KernelAssumption DEF ThreadId, Base, Groundwork, ThreadsCount

(* One thread more or less in a set of threads. *)
LEMMA OneThreadMore ==
  ASSUME Base, NEW S \in SUBSET ThreadId, NEW t \in ThreadId
  PROVE  /\ Cardinality(S) \in Nat
         /\ t \notin S => Cardinality(S \cup {t}) = Cardinality(S) + 1
         /\ t \in S => Cardinality(S \ {t}) = Cardinality(S) - 1
         /\ Cardinality(S \cup {t}) \in Nat /\ Cardinality(S \cup {t}) <= Cardinality(S) + 1
         /\ Cardinality(S \ {t}) \in Nat
<1>1. /\ Cardinality(S) \in Nat
      /\ t \notin S => Cardinality(S \cup {t}) = Cardinality(S) + 1
      /\ t \in S => Cardinality(S \ {t}) = Cardinality(S) - 1
  BY DEF Base, Groundwork, ThreadsCount
<1>2. Cardinality(S \cup {t}) \in Nat /\ Cardinality(S \ {t}) \in Nat
  BY ThreadSets, S \cup {t} \in SUBSET ThreadId, S \ {t} \in SUBSET ThreadId
<1>3. Cardinality(S \cup {t}) <= Cardinality(S) + 1
  <2>1. t \in S => Cardinality(S \cup {t}) = Cardinality(S)
    BY t \in S => S \cup {t} = S
  <2> QED
    BY SMT, <1>1, <1>2, <2>1
<1> QED
  BY <1>1, <1>2, <1>3

(* The thread is told apart by what is still on its stack. *)
LEMMA CurrentCalls ==
  ASSUME Base, NEW c, Rest(c), NEW d, NEW todo, RunsOn(d, todo), current' = current
  PROVE  /\ HasOp(prog[current], "spawn") <=> c.call = "spawn"
         /\ HasOp(prog[current], "condition") <=> c.call = "condition"
         /\ HasOp(prog'[current], "spawn") <=> d.call = "spawn"
         /\ HasOp(prog'[current], "condition") <=> d.call = "condition"
         /\ \A t \in ThreadId \ {current} : prog'[t] = prog[t]
<1>1. prog'[current] = todo /\ \A t \in ThreadId \ {current} : prog'[t] = prog[t]
  BY RunsOnRunning
<1>2. Sound(todo, d) /\ Sound(prog[current], c)
  BY DEF RunsOn, Rest, Running
<1> QED
  BY <1>1, <1>2, OpToCome

(* Everything but the queues and the object stays as it is. *)
LEMMA SameCpu ==
  ASSUME Base, NEW c, Rest(c), NEW d \in Context, NEW todo, Sound(todo, d), d.phase # "end",
         d.guards = c.guards, d.locks = c.locks, d.flag <=> c.flag, d.resched <=> c.resched,
         d.idle <=> c.idle, d.loaded <=> c.loaded, d.stack <=> c.stack,
         prog' = [prog EXCEPT ![current] = todo], UNCHANGED <<irq, user>>
  PROVE  RunsOn(d, todo)
  BY ContextFacts DEF RunsOn, irq, user

(* An operation that moves the thread on to its next phase. *)
QueueOps == {"insert", "tick", "push_waiter", "take_item", "put_item", "wake",
             "wake_front", "wake_each", "thread_entry", "switched", "sched", "loop", "spawn"}

(* What such an operation needs and leaves alone. *)
LEMMA QueueStep ==
  ASSUME Base, NEW c, Rest(c), Now.op \in QueueOps, Then(<<>>), UNCHANGED <<irq, user>>
  PROVE  /\ RunsOn(Leaves(Now, c), Tail(prog[current]))
         /\ Relies(Now, c)
         /\ Now.op # "wake" => Leaves(Now, c).wakes = c.wakes
         /\ Now.op # "spawn" => Leaves(Now, c).call = c.call
<1> DEFINE d == Leaves(Now, c)
           todo == Tail(prog[current])
<1>1. d \in Context /\ Sound(todo, d) /\ Relies(Now, c)
  BY AtHand
<1>2. prog' = [prog EXCEPT ![current] = todo]
  BY ThenNothing
<1>3. /\ d.guards = c.guards /\ d.locks = c.locks
      /\ d.flag <=> c.flag
      /\ d.resched <=> c.resched
      /\ d.idle <=> c.idle
      /\ d.loaded <=> c.loaded
      /\ d.stack <=> c.stack
      /\ Now.op # "wake" => d.wakes = c.wakes
      /\ Now.op # "spawn" => d.call = c.call
  <2> HIDE DEF Now
  <2> QED
    BY ZenonT(60), <1>1, ContextFacts DEF Leaves, QueueOps
<1>4. d.phase # "end"
  <2>1. Relies(Now, c) /\ c.phase # "end"
    BY <1>1, ContextFacts
  <2> HIDE DEF Now
  <2> QED
    BY <2>1 DEF Leaves, QueueOps
<1> HIDE DEF d, todo
<1>5. RunsOn(d, todo)
  BY <1>1, <1>2, <1>3, <1>4, SameCpu
<1> QED
  BY <1>1, <1>3, <1>5 DEF d, todo

(* The operation at hand goes on with todo. *)
LEMMA ThenStep ==
  ASSUME Base, NEW c, Rest(c), NEW x \in Context, NEW d, NEW todo, Chain(todo, x, d),
         Sound(Tail(prog[current]), d), Then(todo), x.phase # "end",
         x.guards = c.guards, x.locks = c.locks, x.flag <=> c.flag, x.resched <=> c.resched,
         x.idle <=> c.idle, x.loaded <=> c.loaded, x.stack <=> c.stack,
         UNCHANGED <<irq, user>>
  PROVE  RunsOn(x, todo \o Tail(prog[current]))
<1>1. Sound(todo \o Tail(prog[current]), x)
  BY DEF Base, Groundwork, StacksJoin
<1>2. prog' = [prog EXCEPT ![current] = todo \o Tail(prog[current])]
  BY DEF Then
<1> QED
  BY <1>1, <1>2, SameCpu

-----------------------------------------------------------------------------
(* Timers, waiters and the object. *)

(* A call changes nothing else. *)
LEMMA MakingFields ==
  ASSUME NEW c, NEW call
  PROVE  /\ Making(c, call).phase = c.phase /\ Making(c, call).guards = c.guards
         /\ Making(c, call).locks = c.locks
         /\ Making(c, call).wakes = c.wakes /\ Making(c, call).call = call
         /\ Making(c, call).resched <=> c.resched
         /\ Making(c, call).idle <=> c.idle
         /\ Making(c, call).loaded <=> c.loaded
         /\ Making(c, call).stack <=> c.stack
         /\ Making(c, call).flag <=> c.flag
  BY DEF Making

(* What looking at the condition changes. *)
LEMMA TakingFields ==
  ASSUME NEW d, NEW c, c = Locked(Making(d, "condition"), "OBJECT"),
         NEW x, x \in {At(Locked(d, "OBJECT"), "take"), At(c, "blocking")}
  PROVE  /\ x.guards = c.guards /\ x.locks = c.locks /\ x.wakes = c.wakes
         /\ x.resched <=> c.resched
         /\ x.idle <=> c.idle
         /\ x.flag <=> c.flag
         /\ x.loaded <=> c.loaded
         /\ x.stack <=> c.stack
         /\ c.call = "condition"
         /\ x = At(Locked(d, "OBJECT"), "take") => x.call = d.call /\ x.phase = "take"
         /\ x = At(c, "blocking") => x.call = "condition" /\ x.phase = "blocking"
<1>1. CASE x = At(Locked(d, "OBJECT"), "take")
  BY <1>1 DEF At, Locked, Locking, Making
<1>2. CASE x = At(c, "blocking")
  BY <1>2 DEF At, Locked, Locking, Making
<1> QED
  BY <1>1, <1>2

(* sleep_until() returns or goes on to wait, by what it sees under the     *)
(* lock.                                                                   *)
LEMMA ConditionKept == ASSUME Base, NEW c, Rest(c), Condition PROVE Kept
<1>1. Now.op = "condition" /\ Relies(Now, c) /\ c \in Context
  BY AtHand DEF Condition
<1> PICK d, todo : d = Leaves(Now, c) /\ todo = Tail(prog[current])
  OBVIOUS
<1>2. /\ Outside(d) /\ ~ d.idle /\ d.call = "none"
      /\ c = Locked(Making(d, "condition"), "OBJECT") /\ c.phase = "free"
  <2>1. Relies(Op("condition", None), c) /\ d = Leaves(Op("condition", None), c) /\ c.phase = "free"
    <3> HIDE DEF Now
    <3> QED
      BY <1>1 DEF Relies, Leaves, Op
  <2> QED
    BY <1>1, <2>1 DEF Base, Groundwork, WaitersContinue
<1>3. Sound(todo, d)
  BY AtHand
<1>4. UNCHANGED sched /\ UNCHANGED proc /\ UNCHANGED irq /\ UNCHANGED user
      /\ timers' = timers /\ waiters' = waiters /\ items' = items
      /\ current' = current /\ threads' = threads
  BY DEF Condition, user, sched, queues
<1>5. IsTimers(ThreadId, timers') /\ waiters' \in Seq(ThreadId) /\ items' \in Nat /\ items \in Nat
  BY <1>4 DEF Rest, Types
<1>6. CASE items > 0
  <2>1. Then(SleepUntilReturns)
    BY <1>6 DEF Condition
  <2> PICK x, all : x = At(Locked(d, "OBJECT"), "take") /\ all = SleepUntilReturns \o todo
    OBVIOUS
  <2>2. x \in Context /\ Chain(SleepUntilReturns, x, d)
    BY <1>2 DEF Base, Groundwork, WaitersContinue
  <2>3. /\ x.guards = c.guards /\ x.locks = c.locks /\ x.wakes = c.wakes
        /\ x.resched <=> c.resched
        /\ x.idle <=> c.idle
        /\ x.flag <=> c.flag
        /\ x.loaded <=> c.loaded
        /\ x.stack <=> c.stack
        /\ c.call = "condition" /\ x.call = "none" /\ x.phase = "take"
    BY SMT, <1>2, TakingFields
  <2>4. RunsOn(x, all)
    BY <1>3, <1>4, <2>1, <2>2, <2>3, ThenStep
  <2>5. SleepersExact(x)' /\ WaitersExact(x)'
    BY <1>2, <1>4, <2>3, SleepersStay, WaitersStay
  <2>6. /\ \A t \in ThreadId : HasOp(prog'[t], "spawn") <=> HasOp(prog[t], "spawn")
        /\ \A t \in ThreadId : HasOp(prog'[t], "condition") <=> HasOp(prog[t], "condition") /\ t # current
        /\ HasOp(prog[current], "condition")
        /\ current \in ThreadId
    BY <1>4, <2>3, <2>4, CurrentCalls, ContextFacts
  <2>7. SpawnsFit'
    <3>1. SpawnsPending' = SpawnsPending /\ Vacancies' = Vacancies
      BY <1>4, <2>6 DEF SpawnsPending, HasOp, Vacancies
    <3> QED
      BY <3>1 DEF Rest, SpawnsFit
  <2>8. Awake' = Awake \ {current} /\ current \in Awake /\ Awake \in SUBSET ThreadId
    <3>1. ~ Holds(waiters, current)
      BY <1>2, <2>6 DEF Rest, WaitersExact, StateIn
    <3>2. Awake' = Awake \ {current}
      BY <1>4, <2>6 DEF Awake, Holds
    <3> QED
      BY <2>6, <3>1, <3>2 DEF Awake
  <2>9. /\ Cardinality(Awake) \in Nat /\ Cardinality(Awake') \in Nat
        /\ Cardinality(Awake') = Cardinality(Awake) - 1
    BY <2>6, <2>8, OneThreadMore
  <2>10. ItemsExact(x)'
    BY SMT, <1>2, <1>4, <1>5, <1>6, <2>3, <2>9 DEF Rest, ItemsExact, One
  <2>11. PhasePc(x) = PhasePc(c)
    BY <1>2, <2>3 DEF PhasePc
  <2> QED
    BY <1>4, <1>5, <2>4, <2>5, <2>7, <2>10, <2>11, Settled
<1>7. CASE items = 0
  <2> DEFINE does == SleepUntilBlocks \o SleepUntil
  <2>1. Then(does)
    BY SMT, <1>7 DEF Condition
  <2> PICK x, all : x = At(c, "blocking") /\ all = does \o todo
    OBVIOUS
  <2>2. x \in Context /\ Chain(does, x, d)
    <3> DEFINE b == Making(d, "condition")
    <3>1. Outside(b) /\ Chain(SleepUntil, b, d) /\ b.call = "condition" /\ ~ b.idle
      BY <1>2, MakingFields DEF Base, Groundwork, CallsReturn
    <3>2. x \in Context /\ Chain(SleepUntilBlocks, x, b)
      BY <1>2, <3>1 DEF Base, Groundwork, WaitersContinue
    <3> HIDE DEF b
    <3> QED
      BY <3>1, <3>2 DEF Base, Groundwork, StacksJoin
  <2>3. /\ x.guards = c.guards /\ x.locks = c.locks /\ x.wakes = c.wakes
        /\ x.resched <=> c.resched
        /\ x.idle <=> c.idle
        /\ x.flag <=> c.flag
        /\ x.loaded <=> c.loaded
        /\ x.stack <=> c.stack
        /\ c.call = "condition" /\ x.call = "condition" /\ x.phase = "blocking"
    BY SMT, <1>2, TakingFields
  <2> HIDE DEF does
  <2>4. RunsOn(x, all)
    BY <1>3, <1>4, <2>1, <2>2, <2>3, ThenStep
  <2>5. SpawnsFit' /\ SleepersExact(x)' /\ WaitersExact(x)' /\ Awake' = Awake
    BY <1>2, <1>4, <2>3, <2>4, SpawnsStay, SleepersStay, WaitersStay, AwakeStay
  <2>6. Cardinality(Awake) \in Nat
    BY ThreadSets DEF Awake
  <2>7. ItemsExact(x)'
    BY SMT, <1>4, <1>7, <2>3, <2>5, <2>6 DEF ItemsExact, One
  <2>8. PhasePc(x) = PhasePc(c)
    BY <1>2, <2>3 DEF PhasePc
  <2> QED
    BY <1>4, <1>5, <2>4, <2>5, <2>7, <2>8, Settled
<1> QED
  BY SMT, <1>5, <1>6, <1>7

(* pop_closure() takes out the only event of its thread. *)
LEMMA PopWakes ==
  ASSUME NEW q, IsTimers(ThreadId, q), WakesApart(q), q # <<>>
  PROVE  /\ IsTimers(ThreadId, Tail(q))
         /\ q[1].closure \in ThreadId
         /\ WakesApart(Tail(q))
         /\ ~ WakesIn(Tail(q), q[1].closure)
         /\ WakesIn(q, q[1].closure)
         /\ \A u : WakesIn(q, u) <=> WakesIn(Tail(q), u) \/ u = q[1].closure
<1> DEFINE E == [delta : Nat, closure : ThreadId]
           r == Tail(q)
<1>1. q \in Seq(E)
  BY DEF IsTimers
<1>2. \A e \in E : e.closure \in ThreadId
  OBVIOUS
<1> HIDE DEF E
<1>3. /\ Len(q) \in Nat /\ Len(q) >= 1 /\ q[1] \in E
      /\ r \in Seq(E) /\ Len(r) = Len(q) - 1
      /\ \A i \in 1 .. Len(q) - 1 : r[i] = q[i + 1]
  BY SMT, <1>1
<1>4. IsTimers(ThreadId, r)
  BY <1>3 DEF IsTimers, E
<1> HIDE DEF r
<1>5. \A i \in 1 .. Len(r) : i + 1 \in 1 .. Len(q) /\ r[i] = q[i + 1] /\ i + 1 # 1
  BY SMT, <1>3
<1>6. \A i \in 1 .. Len(q) : i = 1 \/ (i - 1 \in 1 .. Len(r) /\ r[i - 1] = q[i])
  <2> TAKE i \in 1 .. Len(q)
  <2>1. i = 1 \/ (i - 1 \in 1 .. Len(r) /\ (i - 1) + 1 = i)
    BY SMT, <1>3
  <2> QED
    BY <1>5, <2>1
<1>7. WakesApart(r)
  <2> SUFFICES ASSUME NEW i \in 1 .. Len(r), NEW j \in 1 .. Len(r), r[i].closure = r[j].closure
               PROVE  i = j
    BY DEF WakesApart
  <2>1. i + 1 = j + 1
    BY ZenonT(60), <1>5 DEF WakesApart
  <2> QED
    BY SMT, <2>1
<1>8. 1 \in 1 .. Len(q)
  BY SMT, <1>3
<1>9. ~ WakesIn(r, q[1].closure)
  BY <1>5, <1>8 DEF WakesIn, WakesApart
<1>10. ASSUME NEW u, WakesIn(q, u) PROVE WakesIn(r, u) \/ u = q[1].closure
  <2>1. PICK i \in 1 .. Len(q) : q[i].closure = u
    BY <1>10 DEF WakesIn
  <2>2. i = 1 \/ (i - 1 \in 1 .. Len(r) /\ r[i - 1] = q[i])
    BY <1>6
  <2> QED
    BY <2>1, <2>2 DEF WakesIn
<1>11. ASSUME NEW u, WakesIn(r, u) PROVE WakesIn(q, u)
  <2>1. PICK i \in 1 .. Len(r) : r[i].closure = u
    BY <1>11 DEF WakesIn
  <2>2. i + 1 \in 1 .. Len(q) /\ r[i] = q[i + 1]
    BY <1>5
  <2> QED
    BY <2>1, <2>2 DEF WakesIn
<1>12. WakesIn(q, q[1].closure)
  BY <1>8 DEF WakesIn
<1>13. \A u : WakesIn(q, u) <=> WakesIn(r, u) \/ u = q[1].closure
  BY <1>10, <1>11, <1>12
<1> QED
  BY <1>2, <1>3, <1>4, <1>7, <1>9, <1>13 DEF r

(* Taking a closure changes nothing else. *)
LEMMA WakingFields ==
  ASSUME NEW c, NEW t, NEW x, x = Waking(c, t)
  PROVE  /\ x.guards = c.guards /\ x.locks = c.locks
         /\ x.phase = "waking" /\ x.call = c.call /\ x.wakes = t
         /\ x.resched <=> c.resched
         /\ x.idle <=> c.idle
         /\ x.flag <=> c.flag
         /\ x.loaded <=> c.loaded
         /\ x.stack <=> c.stack
  BY DEF Waking

(* When no event is due the drain loop drops its lock. *)
LEMMA DrainDrops ==
  ASSUME Base, NEW d, InHandler(d)
  PROVE  Chain(Drop("TIMER_QUEUE"), Locked(d, "TIMER_QUEUE"), d)
<1>1. "TIMER_QUEUE" \in Locks
  BY DEF Base, Groundwork, NamesKnown
<1>2. Calm(d) /\ "TIMER_QUEUE" \notin d.locks
  BY <1>1 DEF Base, Groundwork, HandlersReturn
<1> QED
  BY <1>1, <1>2 DEF Base, Groundwork, ClosuresWake

(* The drain loop takes an event, and with it the duty to wake its thread, *)
(* or ends.                                                                *)
LEMMA PopClosureKept == ASSUME Base, NEW c, Rest(c), PopClosure PROVE Kept
<1>1. Now.op = "pop_closure" /\ Relies(Now, c) /\ c \in Context
  BY AtHand DEF PopClosure
<1> PICK d, todo : d = Leaves(Now, c) /\ todo = Tail(prog[current])
  OBVIOUS
<1>2. InHandler(d) /\ c = Locked(d, "TIMER_QUEUE") /\ c.phase = "free"
  <2>1. Relies(Op("pop_closure", None), c) /\ d = Leaves(Op("pop_closure", None), c) /\ c.phase = "free"
    <3> HIDE DEF Now
    <3> QED
      BY <1>1 DEF Relies, Leaves, Op
  <2> QED
    BY <1>1, <2>1 DEF Base, Groundwork, ClosuresWake
<1>3. Sound(todo, d)
  BY AtHand
<1>4. UNCHANGED sched /\ UNCHANGED proc /\ waiters' = waiters /\ items' = items
      /\ current' = current /\ threads' = threads /\ UNCHANGED irq /\ UNCHANGED user
  BY DEF PopClosure, user, sched
<1>5. waiters' \in Seq(ThreadId) /\ items' \in Nat
  BY <1>4 DEF Rest, Types
<1>6. CASE FirstIsDue(timers)
  <2>1. timers # <<>>
    BY <1>6 DEF FirstIsDue
  <2> DEFINE u == timers[1].closure
             does == Drop("TIMER_QUEUE") \o Lock("SCHEDULER") \o <<Op("wake", u)>>
                     \o Drop("SCHEDULER") \o DrainTimers
  <2>2. /\ IsTimers(ThreadId, Tail(timers)) /\ u \in ThreadId /\ WakesApart(Tail(timers))
        /\ ~ WakesIn(Tail(timers), u)
        /\ \A v : WakesIn(timers, v) <=> WakesIn(Tail(timers), v) \/ v = u
    BY <2>1, PopWakes DEF Rest, Types, SleepersExact
  <2>3. timers' = Tail(timers) /\ Then(does)
    BY <1>6 DEF PopClosure
  <2> PICK x, all : x = Waking(c, u) /\ all = does \o todo
    OBVIOUS
  <2>4. x \in Context /\ Chain(does, x, d)
    BY <1>2, <2>2 DEF Base, Groundwork, ClosuresWake
  <2> HIDE DEF does, u
  <2>5. /\ x.guards = c.guards /\ x.locks = c.locks
        /\ x.phase = "waking" /\ x.call = c.call /\ x.wakes = u
        /\ x.resched <=> c.resched
        /\ x.idle <=> c.idle
        /\ x.flag <=> c.flag
        /\ x.loaded <=> c.loaded
        /\ x.stack <=> c.stack
    BY SMT, WakingFields
  <2>6. RunsOn(x, all)
    BY <1>3, <1>4, <2>3, <2>4, <2>5, ThenStep
  <2>7. SpawnsFit' /\ WaitersExact(x)' /\ Awake' = Awake
    BY <1>2, <1>4, <2>5, <2>6, SpawnsStay, WaitersStay, AwakeStay
  <2>8. ItemsExact(x)'
    BY <1>2, <1>4, <2>5, <2>7 DEF Rest, ItemsExact, One
  <2>9. /\ c.wakes = None /\ None \notin ThreadId
        /\ \A t \in ThreadId : WakesIn(timers, t) <=> StateIn(c, t) = "Sleeping"
    BY <1>2, ContextFacts, ThreadSets DEF Rest, SleepersExact
  <2>10. SleepersExact(x)'
    <3>1. \A t \in ThreadId : StateIn(x, t)' = "Sleeping" <=> StateIn(c, t) = "Sleeping"
      BY <1>2, <1>4, <2>5 DEF StateIn
    <3>2. \A t \in ThreadId : WakesIn(timers', t) \/ x.wakes = t <=> StateIn(x, t)' = "Sleeping"
      BY <2>2, <2>3, <2>5, <2>9, <3>1
    <3> QED
      BY <2>2, <2>3, <2>5, <3>2 DEF SleepersExact
  <2>11. PhasePc(x) = PhasePc(c)
    BY <1>2, <2>5 DEF PhasePc
  <2> QED
    BY <1>4, <1>5, <2>2, <2>3, <2>6, <2>7, <2>8, <2>10, <2>11, Settled
<1>7. CASE ~ FirstIsDue(timers)
  <2>1. timers' = timers /\ Then(Drop("TIMER_QUEUE"))
    BY <1>7 DEF PopClosure
  <2>2. Chain(Drop("TIMER_QUEUE"), c, d)
    BY <1>2, DrainDrops
  <2> PICK all : all = Drop("TIMER_QUEUE") \o todo
    OBVIOUS
  <2>3. RunsOn(c, all)
    BY <1>1, <1>2, <1>3, <1>4, <2>1, <2>2, ThenStep
  <2> QED
    BY <1>4, <2>1, <2>3, Quiet DEF queues
<1> QED
  BY <1>6, <1>7

(* A consumer takes the item it found under the same lock. *)
LEMMA TakeItemKept == ASSUME Base, NEW c, Rest(c), TakeItem PROVE Kept
<1> PICK d, todo : d = Leaves(Now, c) /\ todo = Tail(prog[current])
  OBVIOUS
<1>1. Now.op = "take_item" /\ RunsOn(d, todo) /\ Relies(Now, c) /\ d.wakes = c.wakes /\ d.call = c.call
  BY QueueStep DEF TakeItem, QueueOps
<1>2. c.phase = "take" /\ d.phase = "free"
  <2> HIDE DEF Now
  <2> QED
    BY <1>1 DEF Relies, Leaves
<1>3. UNCHANGED sched /\ UNCHANGED proc /\ timers' = timers /\ waiters' = waiters /\ items' = items - 1
  BY DEF TakeItem, user
<1>4. SpawnsFit' /\ SleepersExact(d)' /\ WaitersExact(d)' /\ Awake' = Awake
  BY <1>1, <1>2, <1>3, SpawnsStay, SleepersStay, WaitersStay, AwakeStay
<1>5. items \in Nat /\ items > 0 /\ Cardinality(Awake) \in Nat
  BY <1>2, ThreadSets DEF Rest, Types, ItemsExact, Awake
<1>6. ItemsExact(d)'
  BY SMT, <1>2, <1>3, <1>4, <1>5 DEF Rest, ItemsExact, One
<1>7. IsTimers(ThreadId, timers') /\ waiters' \in Seq(ThreadId) /\ items' \in Nat
  BY SMT, <1>3, <1>5 DEF Rest, Types
<1>8. PhasePc(d) = PhasePc(c)
  BY <1>2 DEF PhasePc
<1> QED
  BY <1>1, <1>3, <1>4, <1>6, <1>7, <1>8, Settled

(* A producer puts an item, and is yet to wake a waiter. *)
LEMMA PutItemKept == ASSUME Base, NEW c, Rest(c), PutItem PROVE Kept
<1> PICK d, todo : d = Leaves(Now, c) /\ todo = Tail(prog[current])
  OBVIOUS
<1>1. Now.op = "put_item" /\ RunsOn(d, todo) /\ Relies(Now, c) /\ d.wakes = c.wakes /\ d.call = c.call
  BY QueueStep DEF PutItem, QueueOps
<1>2. c.phase = "free" /\ d.phase = "put"
  <2> HIDE DEF Now
  <2> QED
    BY <1>1 DEF Relies, Leaves
<1>3. UNCHANGED sched /\ UNCHANGED proc /\ timers' = timers /\ waiters' = waiters /\ items' = items + 1
  BY DEF PutItem, user
<1>4. SpawnsFit' /\ SleepersExact(d)' /\ WaitersExact(d)' /\ Awake' = Awake
  BY <1>1, <1>2, <1>3, SpawnsStay, SleepersStay, WaitersStay, AwakeStay
<1>5. items \in Nat /\ Cardinality(Awake) \in Nat
  BY <1>2, ThreadSets DEF Rest, Types, Awake
<1>6. ItemsExact(d)'
  BY SMT, <1>2, <1>3, <1>4, <1>5 DEF Rest, ItemsExact, One
<1>7. IsTimers(ThreadId, timers') /\ waiters' \in Seq(ThreadId) /\ items' \in Nat
  BY SMT, <1>3, <1>5 DEF Rest, Types
<1>8. PhasePc(d) = PhasePc(c)
  BY <1>2 DEF PhasePc
<1> QED
  BY <1>1, <1>3, <1>4, <1>6, <1>7, <1>8, Settled

(* A consumer that found no item queues itself, still under the object's   *)
(* lock.                                                                   *)
LEMMA PushWaiterKept == ASSUME Base, NEW c, Rest(c), PushWaiter PROVE Kept
<1> PICK d, todo : d = Leaves(Now, c) /\ todo = Tail(prog[current])
  OBVIOUS
<1>1. Now.op = "push_waiter" /\ RunsOn(d, todo) /\ Relies(Now, c) /\ d.wakes = c.wakes /\ d.call = c.call
  BY QueueStep DEF PushWaiter, QueueOps
<1>2. c.phase = "blocking" /\ d.phase = "Waiting"
  <2> HIDE DEF Now
  <2> QED
    BY <1>1 DEF Relies, Leaves
<1>3. UNCHANGED sched /\ UNCHANGED proc /\ timers' = timers /\ items' = items
      /\ waiters' = Append(waiters, current) /\ current' = current /\ threads' = threads
  BY DEF PushWaiter, user, sched
<1>4. SpawnsFit' /\ SleepersExact(d)'
  BY <1>1, <1>2, <1>3, SpawnsStay, SleepersStay
<1>5. /\ current \in ThreadId /\ waiters \in Seq(ThreadId) /\ Distinct(waiters)
      /\ \A t \in ThreadId : Holds(waiters, t) <=> StateIn(c, t) = "Waiting"
      /\ ~ Holds(waiters, current)
  BY <1>2, ContextFacts DEF Rest, Types, WaitersExact, StateIn
<1>6. /\ waiters' \in Seq(ThreadId) /\ Distinct(waiters')
      /\ \A t : Holds(waiters', t) <=> Holds(waiters, t) \/ t = current
  BY <1>3, <1>5 DEF Base, Groundwork, QueuesKeepOrder
<1>7. WaitersExact(d)'
  BY <1>2, <1>3, <1>5, <1>6 DEF WaitersExact, StateIn
<1>8. items = 0 /\ Awake' \in SUBSET ThreadId
  BY <1>2 DEF Rest, ItemsExact, Awake
<1>9. Cardinality(Awake') \in Nat
  BY <1>8, ThreadSets
<1>10. ItemsExact(d)'
  BY SMT, <1>2, <1>3, <1>8, <1>9 DEF ItemsExact, One
<1>11. IsTimers(ThreadId, timers') /\ items' \in Nat
  BY <1>3 DEF Rest, Types
<1>12. PhasePc(d) = PhasePc(c)
  BY <1>2 DEF PhasePc
<1> QED
  BY <1>1, <1>3, <1>4, <1>6, <1>7, <1>10, <1>11, <1>12, Settled

(* What insert(), tick() and pop_closure() do to the threads timers wake. *)
LEMMA InsertWakes ==
  ASSUME Base, NEW q, IsTimers(ThreadId, q), WakesApart(q),
         NEW n \in Nat, NEW t \in ThreadId, ~ WakesIn(q, t)
  PROVE  /\ IsTimers(ThreadId, InsertTimer(q, n, t))
         /\ WakesApart(InsertTimer(q, n, t))
         /\ \A u : WakesIn(InsertTimer(q, n, t), u) <=> WakesIn(q, u) \/ u = t
  BY DEF Base, Groundwork, TimersWakeOnce

(* A tick changes no closure. *)
LEMMA TickWakes ==
  ASSUME Base, NEW q, IsTimers(ThreadId, q), WakesApart(q)
  PROVE  /\ IsTimers(ThreadId, TickQueue(q))
         /\ WakesApart(TickQueue(q))
         /\ \A u : WakesIn(TickQueue(q), u) <=> WakesIn(q, u)
  BY DEF Base, Groundwork, TimersWakeOnce

(* thread_sleep() inserts its event before the thread sleeps. *)
LEMMA InsertTimerEventKept == ASSUME Base, NEW c, Rest(c), InsertTimerEvent PROVE Kept
<1> PICK d, todo : d = Leaves(Now, c) /\ todo = Tail(prog[current])
  OBVIOUS
<1>1. Now.op = "insert" /\ RunsOn(d, todo) /\ Relies(Now, c) /\ d.wakes = c.wakes /\ d.call = c.call
  BY QueueStep DEF InsertTimerEvent, QueueOps
<1>2. c.phase = "free" /\ d.phase = "Sleeping" /\ Now.arg \in Nat
  <2> HIDE DEF Now
  <2> QED
    BY <1>1 DEF Relies, Leaves
<1>3. UNCHANGED sched /\ UNCHANGED proc /\ waiters' = waiters /\ items' = items
      /\ current' = current /\ threads' = threads
  BY DEF InsertTimerEvent, user, sched
<1>4. SpawnsFit' /\ WaitersExact(d)' /\ Awake' = Awake
  BY <1>1, <1>2, <1>3, SpawnsStay, WaitersStay, AwakeStay
<1>5. ItemsExact(d)'
  BY <1>2, <1>3, <1>4 DEF Rest, ItemsExact, One
<1>6. /\ IsTimers(ThreadId, timers) /\ WakesApart(timers) /\ current \in ThreadId /\ c.wakes = None
      /\ ~ WakesIn(timers, None) /\ ~ WakesIn(timers, current) /\ None \notin ThreadId
      /\ \A t \in ThreadId : WakesIn(timers, t) <=> StateIn(c, t) = "Sleeping"
  BY ZenonT(60), <1>2, ContextFacts, ThreadSets DEF Rest, Types, SleepersExact, StateIn
<1>7. /\ IsTimers(ThreadId, timers') /\ WakesApart(timers')
      /\ \A u : WakesIn(timers', u) <=> WakesIn(timers, u) \/ u = current
  BY <1>2, <1>6, InsertWakes DEF InsertTimerEvent
<1>8. SleepersExact(d)'
  BY <1>1, <1>2, <1>3, <1>6, <1>7 DEF SleepersExact, StateIn
<1>9. waiters' \in Seq(ThreadId) /\ items' \in Nat
  BY <1>3 DEF Rest, Types
<1>10. PhasePc(d) = PhasePc(c)
  BY <1>2 DEF PhasePc
<1> QED
  BY <1>1, <1>3, <1>4, <1>5, <1>7, <1>8, <1>9, <1>10, Settled

(* The tick of the timer interrupt. *)
LEMMA TickKept == ASSUME Base, NEW c, Rest(c), Tick PROVE Kept
<1> PICK d, todo : d = Leaves(Now, c) /\ todo = Tail(prog[current])
  OBVIOUS
<1>1. Now.op = "tick" /\ RunsOn(d, todo) /\ Relies(Now, c) /\ d.wakes = c.wakes /\ d.call = c.call
  BY QueueStep DEF Tick, QueueOps
<1>2. d.phase = c.phase
  <2> HIDE DEF Now
  <2> QED
    BY <1>1 DEF Leaves
<1>3. UNCHANGED sched /\ UNCHANGED proc /\ waiters' = waiters /\ items' = items
      /\ current' = current /\ threads' = threads
  BY DEF Tick, user, sched
<1>4. SpawnsFit' /\ WaitersExact(d)' /\ Awake' = Awake
  BY <1>1, <1>2, <1>3, SpawnsStay, WaitersStay, AwakeStay
<1>5. ItemsExact(d)'
  BY <1>2, <1>3, <1>4 DEF Rest, ItemsExact
<1>6. /\ IsTimers(ThreadId, timers') /\ WakesApart(timers')
      /\ \A u : WakesIn(timers', u) <=> WakesIn(timers, u)
  BY TickWakes DEF Tick, Rest, Types, SleepersExact
<1>7. SleepersExact(d)'
  BY <1>1, <1>2, <1>3, <1>6 DEF Rest, SleepersExact, StateIn
<1>8. waiters' \in Seq(ThreadId) /\ items' \in Nat
  BY <1>3 DEF Rest, Types
<1>9. PhasePc(d) = PhasePc(c)
  BY <1>2 DEF PhasePc
<1> QED
  BY <1>1, <1>3, <1>4, <1>5, <1>6, <1>7, <1>8, <1>9, Settled

-----------------------------------------------------------------------------
(* Calls of bodies. *)

(* Functions and handlers are put in front of what is left to do. *)
LEMMA PushStep ==
  ASSUME Base, NEW c, Rest(c), NEW b \in Context, NEW todo, Chain(todo, b, c),
         b.phase = c.phase, b.guards = c.guards, b.locks = c.locks, b.wakes = c.wakes,
         b.resched <=> c.resched, b.idle <=> c.idle, b.loaded <=> c.loaded, b.stack <=> c.stack,
         b.flag <=> intr', intr' \in BOOLEAN, inService' \in BOOLEAN,
         prog' = [prog EXCEPT ![current] = todo \o @],
         UNCHANGED <<count, held, need, user>>
  PROVE  RunsOn(b, todo \o prog[current])
<1>1. Sound(prog[current], c)
  BY DEF Rest, Running
<1>2. Sound(todo \o prog[current], b)
  BY <1>1 DEF Base, Groundwork, StacksJoin
<1>3. prog' = [prog EXCEPT ![current] = todo \o prog[current]]
  OBVIOUS
<1> QED
  BY <1>2, <1>3, ContextFacts DEF RunsOn, user

(* The flag is on outside the kernel's functions only. *)
LEMMA FlagOutside ==
  ASSUME Base, NEW c, Rest(c), c.flag PROVE Outside(c) /\ intr = TRUE
  BY ContextFacts DEF Outside, NoGuard

(* A body at the point where it makes its next call. *)
LEMMA AtBody ==
  ASSUME Base, NEW c, Rest(c), NEW call, Calling(call)
  PROVE  /\ Outside(c) /\ c.call = "none" /\ c.flag /\ c \in Context
         /\ c.idle => call \in IdleCalls
         /\ Now.op = "body"
<1>1. Now.op = "body" /\ Relies(Now, c)
  BY AtHand DEF Calling
<1>2. c.flag /\ c.call = "none"
  <2> HIDE DEF Now
  <2> QED
    BY <1>1 DEF Relies
<1>3. c.idle => call \in IdleCalls
  BY ContextFacts DEF Calling
<1> QED
  BY <1>1, <1>2, <1>3, FlagOutside, ContextFacts

(* A body calls thread_spawn() while there is a slot for the thread. *)
LEMMA CallSpawnKept == ASSUME Base, NEW c, Rest(c), CallSpawn PROVE Kept
<1> DEFINE b == Making(c, "spawn")
           todo == ThreadSpawn \o prog[current]
<1>1. Outside(c) /\ c.call = "none" /\ c \in Context /\ c.phase = "free"
  BY AtBody DEF CallSpawn, Outside, NoGuard
<1>2. b \in Context /\ Chain(ThreadSpawn, b, c)
  BY <1>1 DEF Outside, Base, Groundwork, CallsReturn
<1>3. UNCHANGED sched /\ UNCHANGED proc /\ timers' = timers /\ waiters' = waiters /\ items' = items
      /\ current' = current
  BY DEF CallSpawn, sched, user, queues
<1>4. RunsOn(b, todo)
  <2>1. /\ b.phase = c.phase /\ b.guards = c.guards /\ b.locks = c.locks /\ b.wakes = c.wakes
        /\ b.resched <=> c.resched
        /\ b.idle <=> c.idle
        /\ b.loaded <=> c.loaded
        /\ b.stack <=> c.stack
        /\ b.flag <=> c.flag
    BY MakingFields
  <2>2. UNCHANGED <<count, held, need, user>> /\ intr' = intr /\ inService' = inService
    BY DEF CallSpawn, irq
  <2>3. prog' = [prog EXCEPT ![current] = ThreadSpawn \o @]
    BY DEF CallSpawn, Before
  <2>4. (c.flag <=> intr) /\ intr \in BOOLEAN /\ inService \in BOOLEAN
    BY ContextFacts
  <2> HIDE DEF b
  <2> QED
    BY <1>2, <2>1, <2>2, <2>3, <2>4, PushStep
<1>5. b.phase = c.phase /\ b.wakes = c.wakes /\ b.call = "spawn"
  BY MakingFields
<1> HIDE DEF b, todo
<1>6. SleepersExact(b)' /\ WaitersExact(b)'
  BY <1>3, <1>5, SleepersStay, WaitersStay
<1>7. /\ \A t \in ThreadId : HasOp(prog'[t], "spawn") <=> HasOp(prog[t], "spawn") \/ t = current
      /\ \A t \in ThreadId : HasOp(prog'[t], "condition") <=> HasOp(prog[t], "condition")
      /\ current \in ThreadId
  BY <1>1, <1>3, <1>4, <1>5, CurrentCalls, ContextFacts
<1>8. SpawnsFit'
  <2>1. SpawnsPending' = SpawnsPending \cup {current} /\ Vacancies' = Vacancies
    BY <1>3, <1>7 DEF SpawnsPending, HasOp, Vacancies, sched
  <2>2. /\ Cardinality(SpawnsPending \cup {current}) \in Nat /\ Cardinality(SpawnsPending) \in Nat
        /\ Cardinality(SpawnsPending \cup {current}) <= Cardinality(SpawnsPending) + 1
    <3>1. SpawnsPending \in SUBSET ThreadId
      BY DEF SpawnsPending
    <3> QED
      BY <1>7, <3>1, OneThreadMore
  <2>3. Cardinality(SpawnsPending) < Cardinality(Vacancies) /\ Cardinality(Vacancies) \in Nat
    BY ThreadSets DEF CallSpawn, Vacancies
  <2> QED
    BY SMT, <2>1, <2>2, <2>3 DEF SpawnsFit
<1>9. Awake' = Awake
  BY <1>3, <1>7 DEF Awake, Holds
<1>10. ItemsExact(b)'
  BY <1>3, <1>5, <1>9 DEF Rest, ItemsExact
<1>11. IsTimers(ThreadId, timers') /\ waiters' \in Seq(ThreadId) /\ items' \in Nat
  BY <1>3 DEF Rest, Types
<1>12. PhasePc(b) = PhasePc(c)
  BY <1>5 DEF PhasePc
<1> QED
  BY <1>3, <1>4, <1>6, <1>8, <1>10, <1>11, <1>12, Settled

(* A body consumes an item: one more thread will look at the object. *)
LEMMA CallConsumeKept == ASSUME Base, NEW c, Rest(c), CallConsume PROVE Kept
<1> DEFINE b == Making(c, "condition")
           todo == Consume \o prog[current]
<1>1. Outside(c) /\ c.call = "none" /\ c \in Context /\ c.phase = "free" /\ ~ c.idle
  BY SMT, AtBody DEF CallConsume, Outside, NoGuard, IdleCalls
<1>2. b \in Context /\ Chain(Consume, b, c)
  BY <1>1 DEF Outside, Consume, Base, Groundwork, CallsReturn
<1>3. UNCHANGED sched /\ UNCHANGED proc /\ timers' = timers /\ waiters' = waiters /\ items' = items
      /\ current' = current
  BY DEF CallConsume, sched, user, queues
<1>4. RunsOn(b, todo)
  <2>1. /\ b.phase = c.phase /\ b.guards = c.guards /\ b.locks = c.locks /\ b.wakes = c.wakes
        /\ b.resched <=> c.resched
        /\ b.idle <=> c.idle
        /\ b.loaded <=> c.loaded
        /\ b.stack <=> c.stack
        /\ b.flag <=> c.flag
    BY MakingFields
  <2>2. UNCHANGED <<count, held, need, user>> /\ intr' = intr /\ inService' = inService
    BY DEF CallConsume, irq
  <2>3. prog' = [prog EXCEPT ![current] = Consume \o @]
    BY DEF CallConsume, Before
  <2>4. (c.flag <=> intr) /\ intr \in BOOLEAN /\ inService \in BOOLEAN
    BY ContextFacts
  <2> HIDE DEF b
  <2> QED
    BY <1>2, <2>1, <2>2, <2>3, <2>4, PushStep
<1>5. b.phase = c.phase /\ b.wakes = c.wakes /\ b.call = "condition"
  BY MakingFields
<1> HIDE DEF b, todo
<1>6. SleepersExact(b)' /\ WaitersExact(b)'
  BY <1>3, <1>5, SleepersStay, WaitersStay
<1>7. /\ \A t \in ThreadId : HasOp(prog'[t], "spawn") <=> HasOp(prog[t], "spawn")
      /\ \A t \in ThreadId : HasOp(prog[t], "condition") => HasOp(prog'[t], "condition")
      /\ current \in ThreadId
  BY <1>1, <1>3, <1>4, <1>5, CurrentCalls, ContextFacts
<1>8. SpawnsFit'
  <2>1. SpawnsPending' = SpawnsPending /\ Vacancies' = Vacancies
    BY <1>3, <1>7 DEF SpawnsPending, HasOp, Vacancies, sched
  <2> QED
    BY <2>1 DEF Rest, SpawnsFit
<1>9. /\ Cardinality(Awake) \in Nat /\ Cardinality(Awake') \in Nat
      /\ Cardinality(Awake) <= Cardinality(Awake')
  <2>1. Awake \subseteq Awake' /\ Awake \in SUBSET ThreadId /\ Awake' \in SUBSET ThreadId
    BY <1>3, <1>7 DEF Awake, Holds
  <2>2. Awake \in SUBSET Awake'
    BY <2>1
  <2> QED
    BY <2>1, <2>2 DEF Base, Groundwork, ThreadsCount
<1>10. ItemsExact(b)'
  BY SMT, <1>1, <1>3, <1>5, <1>9 DEF Rest, Types, ItemsExact, One
<1>11. IsTimers(ThreadId, timers') /\ waiters' \in Seq(ThreadId) /\ items' \in Nat
  BY <1>3 DEF Rest, Types
<1>12. PhasePc(b) = PhasePc(c)
  BY <1>5 DEF PhasePc
<1> QED
  BY <1>3, <1>4, <1>6, <1>8, <1>10, <1>11, <1>12, Settled

(* A call that does not outlive its own program. *)
LEMMA CallKept ==
  ASSUME Base, NEW c, Rest(c), NEW todo, Chain(todo, c, c), Before(todo),
         UNCHANGED <<sched, irq, user, queues>>
  PROVE  Kept
<1>1. RunsOn(c, todo \o prog[current])
  BY ContextFacts, PushStep DEF Before, irq
<1> QED
  BY <1>1, Quiet DEF user

(* A body calls thread_yield(). *)
LEMMA CallYieldKept == ASSUME Base, NEW c, Rest(c), CallYield PROVE Kept
<1>1. Outside(c)
  BY AtBody DEF CallYield
<1> QED
  BY <1>1, CallKept DEF CallYield, Base, Groundwork, CallsReturn

(* A body calls thread_sleep(). *)
LEMMA CallSleepKept == ASSUME Base, NEW c, Rest(c), CallSleep PROVE Kept
<1>1. Outside(c) /\ ~ c.idle
  BY SMT, AtBody DEF CallSleep, IdleCalls
<1>2. PICK n \in Delays : Before(ThreadSleep(n))
  BY DEF CallSleep
<1>3. n \in Nat
  BY KernelAssumption
<1> QED
  BY <1>1, <1>2, <1>3, CallKept DEF CallSleep, Base, Groundwork, CallsReturn

(* A body produces an item. *)
LEMMA CallProduceKept == ASSUME Base, NEW c, Rest(c), CallProduce PROVE Kept
<1>1. Outside(c)
  BY AtBody DEF CallProduce
<1> QED
  BY <1>1, CallKept DEF CallProduce, Base, Groundwork, CallsReturn

(* A body returns. *)
LEMMA BodyReturnsKept == ASSUME Base, NEW c, Rest(c), BodyReturns PROVE Kept
<1>1. Outside(c) /\ ~ c.idle /\ Now.op = "body" /\ c.call = "none" /\ c \in Context
  BY SMT, AtBody DEF BodyReturns, IdleCalls
<1>2. Leaves(Now, c) = c
  <2> HIDE DEF Now
  <2> QED
    BY <1>1 DEF Leaves, Context, Fields
<1>3. Sound(Tail(prog[current]), c)
  BY <1>2, AtHand
<1>4. RunsOn(c, Tail(prog[current]))
  BY <1>3, ContextFacts, ThenNothing DEF BodyReturns, RunsOn, irq, user
<1> QED
  BY <1>4, Quiet DEF BodyReturns, user

(* A body launches a process. *)
LEMMA CallLaunchKept == ASSUME Base, NEW c, Rest(c), CallLaunch PROVE Kept
<1>1. Outside(c) /\ ~ c.idle /\ c.call = "none" /\ c \in Context
  BY SMT, AtBody DEF CallLaunch, IdleCalls
<1>2. Sound(Launch, c)
  BY <1>1 DEF Base, Groundwork, BodiesRun
<1>3. RunsOn(c, Launch)
  BY <1>2, ContextFacts DEF CallLaunch, RunsOn, irq, user
<1> QED
  BY <1>3, Quiet DEF CallLaunch, user

-----------------------------------------------------------------------------
(* Interrupts and system calls. *)

(* What the CPU does not change when it enters a handler. *)
LEMMA MaskedFields ==
  ASSUME NEW c
  PROVE  /\ Masked(c).phase = c.phase /\ Masked(c).guards = c.guards /\ Masked(c).locks = c.locks
         /\ Masked(c).wakes = c.wakes /\ Masked(c).call = c.call
         /\ Masked(c).resched <=> c.resched
         /\ Masked(c).idle <=> c.idle
         /\ Masked(c).loaded <=> c.loaded
         /\ Masked(c).stack <=> c.stack
         /\ ~ Masked(c).flag
  BY DEF Masked, Locking

(* An interrupt handler in front of code that runs with interrupts on. *)
LEMMA HandlerKept ==
  ASSUME Base, NEW c, Rest(c), c.flag, NEW todo, Chain(todo, Masked(c), c),
         prog' = [prog EXCEPT ![current] = todo \o @],
         intr' = FALSE, inService' \in BOOLEAN,
         UNCHANGED <<sched, count, held, need, user, queues>>
  PROVE  Kept
<1>1. Masked(c) \in Context
  BY FlagOutside DEF Base, Groundwork, HandlersReturn
<1>2. RunsOn(Masked(c), todo \o prog[current])
  BY <1>1, MaskedFields, PushStep
<1>3. UNCHANGED <<sched, proc, queues>>
  BY DEF user
<1> QED
  BY <1>2, <1>3, MaskedFields, Quiet

(* The timer interrupt, wherever the flag lets it in. *)
LEMMA TimerIrqKept == ASSUME Base, NEW c, Rest(c), TimerIrq PROVE Kept
<1>1. c.flag /\ Outside(c) /\ intr = TRUE
  BY FlagOutside, ContextFacts DEF TimerIrq
<1>2. Chain(IntHandler(TimerInterrupt, intr), Masked(c), c)
  BY <1>1 DEF Base, Groundwork, HandlersReturn
<1> QED
  BY <1>1, <1>2, HandlerKept DEF TimerIrq

(* A page fault of the user program or of load_elf(). *)
LEMMA PageFaultKept == ASSUME Base, NEW c, Rest(c), PageFault PROVE Kept
<1>1. Now.op \in {"user", "load_elf"} /\ Relies(Now, c)
  BY AtHand DEF PageFault
<1>2. c.flag
  <2> HIDE DEF Now
  <2> QED
    BY <1>1 DEF Relies
<1>3. Outside(c) /\ intr = TRUE
  BY <1>2, FlagOutside
<1>4. Chain(IntHandler(PageFaultHandler, intr), Masked(c), c)
  BY <1>3 DEF Base, Groundwork, HandlersReturn
<1>5. inService' \in BOOLEAN
  BY ContextFacts DEF PageFault
<1> QED
  BY <1>2, <1>4, <1>5, HandlerKept DEF PageFault, Before

(* A system call of the user program. *)
LEMMA SyscallKept == ASSUME Base, NEW c, Rest(c), Syscall PROVE Kept
<1>1. Now.op = "user" /\ Relies(Now, c)
  BY AtHand DEF Syscall
<1>2. c.flag /\ ~ c.idle
  <2> HIDE DEF Now
  <2> QED
    BY <1>1 DEF Relies
<1>3. Outside(c) /\ c \in Context
  BY <1>2, FlagOutside, ContextFacts
<1>4. PICK call : Chain(call, c, c) /\ Before(SyscallEntry(call))
  <2>1. CASE Before(SyscallEntry(<<>>))
    BY <1>3, <2>1 DEF Base, Groundwork, StacksJoin
  <2>2. CASE \E n \in Delays : Before(SyscallEntry(ThreadSleep(n)))
    <3>1. PICK n \in Delays : Before(SyscallEntry(ThreadSleep(n)))
      BY <2>2
    <3>2. n \in Nat
      BY KernelAssumption
    <3> QED
      BY <1>2, <1>3, <3>1, <3>2 DEF Base, Groundwork, CallsReturn
  <2> QED
    BY <2>1, <2>2 DEF Syscall
<1>5. Chain(SyscallEntry(call), Masked(c), c)
  BY <1>3, <1>4 DEF Base, Groundwork, BodiesRun
<1>6. inService' \in BOOLEAN
  BY ContextFacts DEF Syscall
<1> QED
  BY <1>2, <1>4, <1>5, <1>6, HandlerKept DEF Syscall, Before

(* resched() yields when it was asked to and its guard is the last one. *)
LEMMA ReschedKept == ASSUME Base, NEW c, Rest(c), Resched PROVE Kept
<1>1. Now.op = "resched" /\ Relies(Now, c) /\ c \in Context
  BY AtHand DEF Resched
<1> DEFINE d == Leaves(Now, c)
<1>2. /\ c.guards = 1 /\ c.locks = {} /\ c.phase = "free"
      /\ d.guards = 1 /\ d.locks = {} /\ d.phase = "free" /\ ~ d.resched
      /\ d.wakes = c.wakes /\ d.call = c.call
      /\ d.idle <=> c.idle
      /\ d.loaded <=> c.loaded
      /\ d.stack <=> c.stack
      /\ d.flag <=> c.flag
  <2> HIDE DEF Now
  <2> QED
    BY <1>1 DEF Relies, Leaves
<1>3. d \in Context /\ Sound(Tail(prog[current]), d)
  BY AtHand
<1> HIDE DEF d
<1>4. CASE count = 1 /\ need
  <2>1. ~ d.flag
    BY SMT, <1>2, ContextFacts
  <2>2. InHandler(d)
    <3>1. d.flag <=> d.guards = 0
      BY SMT, <1>2, <2>1
    <3> QED
      BY <1>2, <1>3, <3>1 DEF InHandler, Calm, Carried
  <2> DEFINE yields == LockWithInterruptGuard("SCHEDULER") \o <<Op("sched", "Yielding")>>
                       \o IntoInterruptGuard("SCHEDULER")
  <2>3. Chain(yields, d, d)
    BY <1>2, <1>3, <2>2 DEF Base, Groundwork, HandlersReturn
  <2>4. Then(yields) /\ need' = FALSE
    BY <1>4 DEF Resched
  <2> HIDE DEF yields
  <2>5. Sound(yields \o Tail(prog[current]), d)
    BY <1>3, <2>3 DEF Base, Groundwork, StacksJoin
  <2>6. prog' = [prog EXCEPT ![current] = yields \o Tail(prog[current])]
    BY <2>4 DEF Then
  <2>7. RunsOn(d, yields \o Tail(prog[current]))
    BY <1>2, <1>3, <1>4, <2>4, <2>5, <2>6, ContextFacts DEF Resched, RunsOn, user
  <2> QED
    BY <1>2, <2>7, Quiet DEF Resched, user
<1>5. CASE ~ (count = 1 /\ need)
  <2>1. need = FALSE /\ Then(<<>>) /\ need' = need
    BY <1>2, <1>5, ContextFacts DEF Resched
  <2>2. RunsOn(d, Tail(prog[current]))
    BY <1>2, <1>3, <2>1, ContextFacts, ThenNothing DEF Resched, RunsOn, user
  <2> QED
    BY <1>2, <2>2, Quiet DEF Resched, user
<1> QED
  BY <1>4, <1>5

-----------------------------------------------------------------------------
(* Guards, locks and flags. *)

(* An operation that only concerns the guards, locks and flags. *)
PlainOps == {"enter", "leave", "acquire", "release", "need_resched", "end_of_interrupt",
             "resched", "drop_without_disabling", "iretq", "syscall_handler", "cli",
             "sysretq", "activate", "load_elf", "set_kernel_rsp"}

(* Such an operation is nobody else's business. *)
LEMMA PlainStep ==
  ASSUME Base, NEW c, Rest(c), Now.op \in PlainOps, Then(<<>>),
         UNCHANGED <<sched, proc, queues>>,
         Leaves(Now, c).guards = count', Leaves(Now, c).locks = held',
         Leaves(Now, c).flag <=> intr', Leaves(Now, c).resched <=> need',
         Leaves(Now, c).loaded => active' = current,
         Leaves(Now, c).stack => tss' = current,
         active' \in {active, current}, tss' \in {tss, current},
         intr' \in BOOLEAN, need' \in BOOLEAN, inService' \in BOOLEAN
  PROVE  Kept
<1> DEFINE d == Leaves(Now, c)
           todo == Tail(prog[current])
<1>1. d \in Context /\ Sound(todo, d)
  BY AtHand
<1>2. prog' = [prog EXCEPT ![current] = todo]
  BY ThenNothing
<1>3. Relies(Now, c)
  BY AtHand
<1>4. d.wakes = c.wakes /\ d.call = c.call /\ d.phase = c.phase /\ (d.idle <=> c.idle)
  <2> HIDE DEF Now
  <2> QED
    BY ZenonT(60) DEF Leaves, PlainOps
<1>5. RunsOn(d, todo)
  <2> HIDE DEF d, todo
  <2> QED
    BY <1>1, <1>2, <1>4, ContextFacts DEF RunsOn, d
<1> HIDE DEF d, todo
<1> QED
  BY <1>4, <1>5, Quiet

(* InterruptGuard::new(). *)
LEMMA EnterKept == ASSUME Base, NEW c, Rest(c), Enter PROVE Kept
<1>1. Now.op = "enter" /\ Relies(Now, c)
  BY AtHand DEF Enter
<1> HIDE DEF Now
<1> QED
  BY <1>1, ContextFacts, PlainStep DEF Enter, PlainOps, Leaves, Relies, user

(* Dropping an InterruptGuard. *)
LEMMA LeaveKept == ASSUME Base, NEW c, Rest(c), Leave PROVE Kept
<1>1. Now.op = "leave" /\ Relies(Now, c)
  BY AtHand DEF Leave
<1> HIDE DEF Now
<1> QED
  BY SMT, <1>1, ContextFacts, PlainStep DEF Leave, PlainOps, Leaves, Relies, user

(* SpinLock::lock() of a lock that is free. *)
LEMMA AcquireKept == ASSUME Base, NEW c, Rest(c), Acquire PROVE Kept
<1>1. Now.op = "acquire" /\ Relies(Now, c)
  BY AtHand DEF Acquire
<1> HIDE DEF Now
<1> QED
  BY <1>1, ContextFacts, PlainStep DEF Acquire, PlainOps, Leaves, Relies, user

(* Dropping a lock's guard. *)
LEMMA ReleaseKept == ASSUME Base, NEW c, Rest(c), Release PROVE Kept
<1>1. Now.op = "release" /\ Relies(Now, c)
  BY AtHand DEF Release
<1> HIDE DEF Now
<1> QED
  BY <1>1, ContextFacts, PlainStep DEF Release, PlainOps, Leaves, Relies, user

(* timer_interrupt() asks to reschedule. *)
LEMMA NeedReschedKept == ASSUME Base, NEW c, Rest(c), NeedResched PROVE Kept
<1>1. Now.op = "need_resched" /\ Relies(Now, c)
  BY AtHand DEF NeedResched
<1> HIDE DEF Now
<1> QED
  BY <1>1, ContextFacts, PlainStep DEF NeedResched, PlainOps, Leaves, Relies, user

(* timer_interrupt() acknowledges the interrupt. *)
LEMMA EndOfInterruptKept == ASSUME Base, NEW c, Rest(c), EndOfInterrupt PROVE Kept
<1>1. Now.op = "end_of_interrupt" /\ Relies(Now, c)
  BY AtHand DEF EndOfInterrupt
<1> HIDE DEF Now
<1> QED
  BY <1>1, ContextFacts, PlainStep DEF EndOfInterrupt, PlainOps, Leaves, Relies, user

(* int_handler() drops its guard and leaves interrupts off. *)
LEMMA DropWithoutDisablingKept == ASSUME Base, NEW c, Rest(c), DropWithoutDisabling PROVE Kept
<1>1. Now.op = "drop_without_disabling" /\ Relies(Now, c)
  BY AtHand DEF DropWithoutDisabling
<1> HIDE DEF Now
<1> QED
  BY <1>1, ContextFacts, PlainStep DEF DropWithoutDisabling, PlainOps, Leaves, Relies, user

(* The return from an interrupt restores the flag. *)
LEMMA IretQKept == ASSUME Base, NEW c, Rest(c), IretQ PROVE Kept
<1>1. Now.op = "iretq" /\ Relies(Now, c)
  BY AtHand DEF IretQ
<1> HIDE DEF Now
<1> QED
  BY <1>1, ContextFacts, PlainStep DEF IretQ, PlainOps, Leaves, Relies, user

(* The flag on the way into and out of a system call. *)
LEMMA SyscallFlagKept == ASSUME Base, NEW c, Rest(c), SyscallFlag PROVE Kept
<1>1. Now.op \in {"syscall_handler", "cli", "sysretq"} /\ Relies(Now, c)
  BY AtHand DEF SyscallFlag
<1> HIDE DEF Now
<1> QED
  BY <1>1, ContextFacts, PlainStep DEF SyscallFlag, PlainOps, Leaves, Relies, user

(* Activating a process. *)
LEMMA SetProcKept == ASSUME Base, NEW c, Rest(c), SetProc PROVE Kept
<1>1. Now.op = "activate" /\ Relies(Now, c)
  BY AtHand DEF SetProc
<1> HIDE DEF Now
<1> QED
  BY <1>1, ContextFacts, PlainStep DEF SetProc, PlainOps, Leaves, Relies, irq

(* load_elf() ends. *)
LEMMA ElfLoadedKept == ASSUME Base, NEW c, Rest(c), ElfLoaded PROVE Kept
<1>1. Now.op = "load_elf" /\ Relies(Now, c)
  BY AtHand DEF ElfLoaded
<1> HIDE DEF Now
<1> QED
  BY <1>1, ContextFacts, PlainStep DEF ElfLoaded, PlainOps, Leaves, Relies, irq, user

(* The thread's kernel stack goes into the TSS. *)
LEMMA SetKernelRspKept == ASSUME Base, NEW c, Rest(c), SetKernelRsp PROVE Kept
<1>1. Now.op = "set_kernel_rsp" /\ Relies(Now, c)
  BY AtHand DEF SetKernelRsp
<1> HIDE DEF Now
<1> QED
  BY <1>1, ContextFacts, PlainStep DEF SetKernelRsp, PlainOps, Leaves, Relies, irq
=============================================================================
