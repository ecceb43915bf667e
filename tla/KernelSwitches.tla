--------------------------- MODULE KernelSwitches ---------------------------
(***************************************************************************)
(* The steps of Kernel that move threads: waking, spawning and switching   *)
(* to another thread.  Each keeps the invariant of KernelContexts and is a *)
(* step of Scheduler or leaves its state alone.                            *)
(***************************************************************************)
EXTENDS KernelSteps

(* Steps that Zenon cannot do, as with arithmetic, name SMT. *)
USE Zenon

(* What Scheduler is at: the program counter that its specification sees. *)
LEMMA PcOfRunning ==
  ASSUME Base, NEW c, Rest(c)
  PROVE  SchedulerPc = PhasePc(c)
  BY PcOfPhase, PcFacts DEF Rest, Running

-----------------------------------------------------------------------------
(* sched(). *)

(* An operation of sched() that leaves the scheduler's own state alone. *)
LEMMA PassEnds ==
  ASSUME Base, NEW c, Rest(c), Then(<<>>), UNCHANGED <<sched, irq, user, queues>>,
         Now.op \in {"sched", "loop", "switched", "thread_entry"},
         c.phase \in {"free", "continue", "switched"}
  PROVE  /\ \E d : Rest(d)'
         /\ SchedulerPc = PhasePc(c) /\ SchedulerPc' = "free"
<1> PICK d, todo : d = Leaves(Now, c) /\ todo = Tail(prog[current])
  OBVIOUS
<1>1. RunsOn(d, todo) /\ d.wakes = c.wakes /\ d.call = c.call
  BY QueueStep DEF QueueOps
<1>2. d.phase = "free"
  <2> HIDE DEF Now
  <2> QED
    BY DEF Leaves
<1>3. UNCHANGED sched /\ UNCHANGED proc /\ timers' = timers /\ waiters' = waiters /\ items' = items
  BY DEF user, queues
<1>4. SpawnsFit' /\ SleepersExact(d)' /\ WaitersExact(d)' /\ Awake' = Awake
  BY <1>1, <1>2, <1>3, SpawnsStay, SleepersStay, WaitersStay, AwakeStay
<1>5. ItemsExact(d)'
  BY SMT, <1>2, <1>3, <1>4 DEF Rest, ItemsExact
<1>6. IsTimers(ThreadId, timers') /\ waiters' \in Seq(ThreadId) /\ items' \in Nat
  BY <1>3 DEF Rest, Types
<1>7. Rest(d)' /\ SchedulerPc = PhasePc(c) /\ SchedulerPc' = PhasePc(d)
  BY <1>1, <1>3, <1>4, <1>5, <1>6, SettledRest
<1> QED
  BY <1>2, <1>7 DEF PhasePc

(* What the callers of sched() make sure of. *)
LEMMA SchedCaller ==
  ASSUME Base, NEW c, Rest(c), Now.op \in {"sched", "loop"}
  PROVE  /\ c \in Context /\ OnlyScheduler(c) /\ Now.arg \in SchedReason
         /\ c.idle => Now.arg = "Yielding"
         /\ Now.arg = "Exiting" => c.call = "none"
         /\ Now.op = "loop" => c.phase = "continue" /\ Now.arg = "Yielding"
         /\ Now.op = "sched" => c.phase = IF Now.arg \in {"Sleeping", "Waiting"} THEN Now.arg ELSE "free"
         /\ c.wakes = None
         /\ Leaves(Now, c) = At(c, "free")
<1>1. Relies(Now, c) /\ c \in Context
  BY AtHand
<1> HIDE DEF Now
<1>2. /\ OnlyScheduler(c) /\ Now.arg \in SchedReason
      /\ c.idle => Now.arg = "Yielding"
      /\ Now.arg = "Exiting" => c.call = "none"
      /\ Now.op = "loop" => c.phase = "continue" /\ Now.arg = "Yielding"
      /\ Now.op = "sched" => c.phase = IF Now.arg \in {"Sleeping", "Waiting"} THEN Now.arg ELSE "free"
  BY <1>1 DEF Relies, SchedReason
<1>3. c.wakes = None
  BY <1>2, ContextFacts
<1>4. Leaves(Now, c) = At(c, "free")
  BY <1>1 DEF Leaves, At, Context, Fields
<1> QED
  BY <1>1, <1>2, <1>3, <1>4

(* sched() has nobody to yield to. *)
LEMMA NobodyToYieldToKept ==
  ASSUME Base, NEW c, Rest(c), SchedPass, Now.arg = "Yielding", ready = <<>>
  PROVE  Kept
<1>1. Now.op \in {"sched", "loop"} /\ c.phase \in {"free", "continue"}
      /\ (Now.op = "loop" <=> c.phase = "continue")
  BY SchedCaller DEF SchedPass
<1>2. Then(<<>>) /\ UNCHANGED <<sched, irq, user, queues>>
  BY DEF SchedPass
<1>3. (\E d : Rest(d)') /\ SchedulerPc = PhasePc(c) /\ SchedulerPc' = "free"
  BY <1>1, <1>2, PassEnds
<1>4. CASE c.phase = "free"
  BY <1>2, <1>3, <1>4 DEF Kept, Abstract!vars, sched, PhasePc
<1>5. CASE c.phase = "continue"
  <2>1. Abstract!Again
    BY <1>2, <1>3, <1>5 DEF Abstract!Again, Abstract!YieldToNobody, sched, PhasePc
  <2> QED
    BY <1>3, <2>1 DEF Kept, Abstract!Next
<1> QED
  BY <1>1, <1>4, <1>5

(* The stack sched() leaves behind when it switches away from it. *)
LEMMA LeftBehind ==
  ASSUME Base, NEW c \in Context, OnlyScheduler(c), NEW r \in SchedReason, c.idle => r = "Yielding",
         c.wakes = None, NEW todo, Sound(todo, At(c, "free"))
  PROVE  /\ JustSwitched(At(c, "switched"))
         /\ Sound(<<Op("switched", r)>> \o todo, At(c, "switched"))
<1> DEFINE z == At(c, "switched")
           d == At(c, "free")
<1>1. OnlyScheduler(z) /\ z.phase = "switched" /\ (z.idle <=> c.idle)
  BY DEF OnlyScheduler, At
<1>2. z \in Context /\ d \in Context
  BY DEF OnlyScheduler, At, Context, Fields, WellFormed, Phases
<1>3. d = Leaves(Op("switched", r), z)
  BY DEF Leaves, Op, At, Context, Fields
<1> HIDE DEF z, d
<1>4. Relies(Op("switched", r), z)
  BY <1>1 DEF Relies, Op
<1>5. "switched" \in OpNames /\ r \in Args
  BY DEF OpNames, Base, Groundwork, NamesKnown
<1>6. Chain(<<Op("switched", r)>>, z, d)
  BY <1>2, <1>3, <1>4, <1>5 DEF Base, Groundwork, StacksJoin
<1>7. Sound(<<Op("switched", r)>> \o todo, z)
  BY <1>6 DEF d, Base, Groundwork, StacksJoin
<1> QED
  BY <1>1, <1>2, <1>7 DEF JustSwitched, z

(* sched() switches to another thread, whose context is the one it was     *)
(* suspended in.                                                           *)
LEMMA SwitchKept ==
  ASSUME Base, NEW c, Rest(c), SchedPass, ~ (Now.arg = "Yielding" /\ ready = <<>>)
  PROVE  Kept
<1> PICK m, r, n, z, todo :
      /\ m = current /\ r = Now.arg /\ n = NextThread(r) /\ z = At(c, "switched")
      /\ todo = <<Op("switched", r)>> \o Tail(prog[current])
  OBVIOUS
<1>1. Now.op \in {"sched", "loop"}
  BY DEF SchedPass
<1>2. /\ c \in Context /\ OnlyScheduler(c) /\ r \in SchedReason /\ (c.idle => r = "Yielding")
      /\ r = "Exiting" => c.call = "none"
      /\ Now.op = "loop" => c.phase = "continue" /\ r = "Yielding"
      /\ Now.op = "sched" => c.phase = IF r \in {"Sleeping", "Waiting"} THEN r ELSE "free"
      /\ c.wakes = None
  BY <1>1, SchedCaller
<1>3. JustSwitched(z) /\ Sound(todo, z)
  <2>1. Sound(Tail(prog[current]), At(c, "free"))
    BY <1>1, SchedCaller, AtHand
  <2> QED
    BY <1>2, <2>1, LeftBehind
<1>4. /\ z.call = c.call
      /\ z.idle <=> c.idle
      /\ z.loaded <=> c.loaded
  BY DEF At
<1>5. todo \in Seq(Ops)
  BY <1>3 DEF Sound, Chain
<1>6. /\ current \in ThreadId /\ prog \in [ThreadId -> Seq(Ops)]
      /\ proc \in [ThreadId -> ThreadId \cup {None}] /\ active \in ThreadId \cup {None}
      /\ threads \in [ThreadId -> {"Vacant", "Running", "Ready", "Exiting", "Waiting", "Sleeping"}]
      /\ threads[current] = "Running"
      /\ (c.idle <=> current = IDLE) /\ (c.loaded => active = current)
  BY SchedulerFacts, ContextFacts DEF Rest, Types
<1>7. SchedulerPc = PhasePc(c) /\ PhasePc(c) # "switched"
  BY <1>1, <1>2, PcOfRunning DEF PhasePc
<1>8. n \in ThreadId /\ threads[n] = "Ready" /\ n # current
  <2>1. CASE r = "Exiting" \/ ready = <<>>
    <3>1. n = IDLE /\ current # IDLE
      BY <1>2, <1>6, <2>1 DEF NextThread
    <3> QED
      BY <3>1, SchedulerFacts
  <2>2. CASE ~ (r = "Exiting" \/ ready = <<>>)
    <3>1. n = Head(ready)
      BY <2>2 DEF NextThread
    <3>2. n \in ThreadId /\ Holds(ready, n)
      BY SMT, <2>2, <3>1, SchedulerFacts DEF Base, Groundwork, QueuesKeepOrder
    <3> QED
      BY <1>6, <3>2, SchedulerFacts
  <2> QED
    BY <2>1, <2>2
<1>9. PICK y : /\ JustSwitched(y) /\ (y.idle <=> n = IDLE) /\ (y.loaded => proc[n] = n)
               /\ Sound(prog[n], y)
  <2>1. Suspended(n)
    BY <1>8 DEF Rest, Others
  <2> QED
    BY <2>1 DEF Suspended
<1>10. /\ y \in Context /\ OnlyScheduler(y) /\ y.phase = "switched" /\ ~ y.flag /\ y.wakes = None
  BY <1>9 DEF JustSwitched, Context, WellFormed, OnlyScheduler
<1>11. /\ prog' \in [ThreadId -> Seq(Ops)] /\ prog'[current] = todo
       /\ \A t \in ThreadId \ {current} : prog'[t] = prog[t]
  <2>1. prog' = [prog EXCEPT ![current] = todo]
    BY DEF SchedPass, Then
  <2> QED
    BY <1>5, <1>6, <2>1
<1>12. /\ threads' = [threads EXCEPT ![current] = IF r = "Yielding" THEN "Ready" ELSE r,
                                     ![n] = "Running"]
       /\ threads'[n] = "Running"
       /\ threads'[current] = IF r = "Yielding" THEN "Ready" ELSE r
       /\ \A t \in ThreadId \ {n, current} : threads'[t] = threads[t]
  <2>1. threads' = [threads EXCEPT ![current] = IF r = "Yielding" THEN "Ready" ELSE r,
                                   ![n] = "Running"]
    BY DEF SchedPass
  <2> QED
    BY <1>6, <1>8, <2>1
<1>13. /\ proc' \in [ThreadId -> ThreadId \cup {None}] /\ proc'[current] = active
       /\ \A t \in ThreadId \ {current} : proc'[t] = proc[t]
       /\ active' = IF proc[n] = None THEN active ELSE proc[n]
       /\ tss' = n
  <2>1. SwitchProc(n)
    BY DEF SchedPass
  <2>2. /\ proc' = [proc EXCEPT ![current] = active] /\ tss' = n
        /\ active' = IF proc[n] = None THEN active ELSE proc[n]
    BY <2>1 DEF SwitchProc
  <2> QED
    BY <1>6, <2>2
<1>14. /\ current' = n /\ UNCHANGED irq /\ timers' = timers /\ waiters' = waiters /\ items' = items
       /\ ready' = Requeue(r) /\ deferred' = (IF r = "Exiting" THEN current ELSE None)
       /\ len' = len /\ free' = free
  BY DEF SchedPass, queues
<1>15. Running(y)'
  <2>1. y.guards = count /\ y.locks = held /\ (y.flag <=> intr) /\ (y.resched <=> need)
    BY <1>2, <1>10, ContextFacts DEF OnlyScheduler, Context, WellFormed
  <2>2. y.loaded => active' = n
    BY <1>8, <1>9, <1>13, ThreadSets
  <2> QED
    BY <1>8, <1>9, <1>10, <1>11, <1>13, <1>14, <2>1, <2>2 DEF Running, irq
<1>16. Types'
  <2>1. active' \in ThreadId \cup {None} /\ tss' \in ThreadId \cup {None}
    BY <1>6, <1>8, <1>13
  <2> QED
    BY <1>11, <1>13, <1>14, <2>1 DEF Rest, Types, irq
<1>17. Others'
  <2>1. ASSUME NEW t \in ThreadId, threads'[t] = "Vacant" PROVE prog'[t] = <<>>
    BY ZenonT(60), <1>2, <1>6, <1>8, <1>11, <1>12, <2>1 DEF Rest, Others, SchedReason
  <2>2. Suspended(m)'
    <3>1. /\ threads'[current] = "Waiting" => z.call = "condition"
          /\ threads'[current] = "Exiting" => z.call = "none"
      BY SMT, <1>1, <1>2, <1>4, <1>12 DEF Context, WellFormed
    <3>2. z.loaded => proc'[current] = current
      BY <1>4, <1>6, <1>13
    <3> QED
      BY <1>3, <1>4, <1>6, <1>11, <3>1, <3>2 DEF Suspended
  <2>3. ASSUME NEW t \in ThreadId, t # current, t # n, threads'[t] # "Vacant" PROVE Suspended(t)'
    <3>1. Suspended(t) /\ threads'[t] = threads[t] /\ prog'[t] = prog[t] /\ proc'[t] = proc[t]
      BY <1>11, <1>12, <1>13, <2>3 DEF Rest, Others
    <3> QED
      BY <3>1 DEF Suspended
  <2> QED
    BY <1>14, <2>1, <2>2, <2>3 DEF Others
<1>18. \A t \in ThreadId : /\ HasOp(prog'[t], "spawn") <=> HasOp(prog[t], "spawn")
                           /\ HasOp(prog'[t], "condition") <=> HasOp(prog[t], "condition")
  <2>1. Sound(prog[current], c)
    BY DEF Rest, Running
  <2>2. /\ HasOp(prog'[current], "spawn") <=> HasOp(prog[current], "spawn")
        /\ HasOp(prog'[current], "condition") <=> HasOp(prog[current], "condition")
    BY ZenonT(60), <1>3, <1>4, <1>11, <2>1, OpToCome
  <2> QED
    BY <1>11, <2>2
<1>19. SpawnsFit'
  <2>1. SpawnsPending' = SpawnsPending
    BY <1>18 DEF SpawnsPending, HasOp
  <2>2. \A t \in ThreadId : threads'[t] = "Vacant" <=> threads[t] = "Vacant"
    BY <1>2, <1>6, <1>8, <1>12 DEF SchedReason
  <2>3. Vacancies' = Vacancies
    BY <2>2 DEF Vacancies
  <2> QED
    BY <2>1, <2>3 DEF Rest, SpawnsFit
<1>20. \A t \in ThreadId : /\ StateIn(y, t)' = "Sleeping" <=> StateIn(c, t) = "Sleeping"
                           /\ StateIn(y, t)' = "Waiting" <=> StateIn(c, t) = "Waiting"
  BY ZenonT(60), <1>1, <1>2, <1>8, <1>10, <1>12, <1>14 DEF StateIn, SchedReason
<1>21. SleepersExact(y)'
  BY SMT, <1>2, <1>10, <1>14, <1>20 DEF Rest, SleepersExact, WakesApart, WakesIn
<1>22. WaitersExact(y)'
  BY <1>14, <1>20 DEF Rest, WaitersExact, Distinct, Holds
<1>23. ItemsExact(y)'
  <2>1. Awake' = Awake
    BY <1>14, <1>18 DEF Awake, Holds
  <2>2. c.phase \notin {"put", "take", "blocking"}
    BY <1>1, <1>2
  <2> QED
    BY <1>10, <1>14, <2>1, <2>2, ItemsStay
<1>24. Rest(y)'
  BY <1>15, <1>16, <1>17, <1>19, <1>21, <1>22, <1>23 DEF Rest
<1>25. SchedulerPc' = "switched"
  <2>1. StackPc(prog'[current']) = PhasePc(y)
    BY <1>15, PcOfPhase DEF Running
  <2> QED
    BY <1>10, <2>1, PcFacts DEF PhasePc
<1>26. Abstract!Switch(r)
  <2>1. /\ Abstract!NextThread(r) = n /\ Abstract!Requeue(r) = Requeue(r)
        /\ Abstract!StateAfter(r) = IF r = "Yielding" THEN "Ready" ELSE r
    BY DEF NextThread, Abstract!NextThread, Requeue, Abstract!Requeue,
           Remaining, Abstract!Remaining, Abstract!StateAfter,
           IDLE, Abstract!IDLE
  <2> QED
    BY <1>12, <1>14, <1>25, <2>1 DEF Abstract!Switch
<1>27. CASE Now.op = "sched"
  <2>1. SchedulerPc = "free"
    BY <1>2, <1>7, <1>27 DEF PhasePc
  <2>2. current = Abstract!IDLE => r = "Yielding"
    BY <1>2, <1>6 DEF IDLE, Abstract!IDLE
  <2>3. Abstract!Sched(r) /\ r \in Abstract!SchedReason
    BY <1>2, <1>26, <2>1, <2>2 DEF Abstract!Sched, SchedReason, Abstract!SchedReason
  <2> QED
    BY <1>24, <2>3 DEF Kept, Abstract!Next
<1>28. CASE Now.op = "loop"
  <2>1. SchedulerPc = "continue" /\ r = "Yielding"
    BY <1>2, <1>7, <1>28 DEF PhasePc
  <2>2. Abstract!Again
    BY <1>26, <2>1 DEF Abstract!Again
  <2> QED
    BY <1>24, <2>2 DEF Kept, Abstract!Next
<1> QED
  BY <1>1, <1>27, <1>28

(* A pass through the loop of sched(). *)
LEMMA SchedPassKept == ASSUME Base, NEW c, Rest(c), SchedPass PROVE Kept
  BY NobodyToYieldToKept, SwitchKept

(* A new thread comes out of switch(). *)
LEMMA ThreadStartsKept == ASSUME Base, NEW c, Rest(c), ThreadStarts PROVE Kept
<1>1. Now.op = "thread_entry" /\ Relies(Now, c)
  BY AtHand DEF ThreadStarts
<1>2. c.phase = "switched" /\ ~ c.idle
  <2> HIDE DEF Now
  <2> QED
    BY <1>1 DEF Relies
<1>3. deferred = None
  BY <1>2, ContextFacts, SchedulerFacts
<1>4. (\E d : Rest(d)') /\ SchedulerPc = "switched" /\ SchedulerPc' = "free"
  BY <1>1, <1>2, PassEnds DEF ThreadStarts, PhasePc
<1>5. Abstract!Resume
  BY <1>3, <1>4 DEF ThreadStarts, sched, Abstract!Resume
<1> QED
  BY <1>4, <1>5 DEF Kept, Abstract!Next

(* switch() returns and no thread has exited. *)
LEMMA SwitchReturnsKept == ASSUME Base, NEW c, Rest(c), Switched, deferred = None PROVE Kept
<1>1. Now.op = "switched" /\ Relies(Now, c)
  BY AtHand DEF Switched
<1>2. c.phase = "switched"
  <2> HIDE DEF Now
  <2> QED
    BY <1>1 DEF Relies
<1>3. (\E d : Rest(d)') /\ SchedulerPc = "switched" /\ SchedulerPc' = "free"
  BY <1>1, <1>2, PassEnds DEF Switched, PhasePc
<1>4. Abstract!Resume
  BY <1>3 DEF Switched, sched, Abstract!Resume
<1> QED
  BY <1>3, <1>4 DEF Kept, Abstract!Next

(* The loop of sched() goes around after clean_up(). *)
LEMMA LoopSound ==
  ASSUME Base, NEW c \in Context, NEW todo, NEW d, Sound(todo, d), d = At(c, "free"),
         OnlyScheduler(c), c.phase = "switched", c.idle
  PROVE  /\ At(c, "continue") \in Context
         /\ Sound(AllocatorCall \o <<Op("loop", "Yielding")>> \o todo, At(c, "continue"))
<1> DEFINE x == At(c, "continue")
<1>1. /\ x.guards = 1 /\ x.locks = {"SCHEDULER"} /\ ~ x.resched /\ x.phase = "continue" /\ x.idle
  BY DEF OnlyScheduler, At
<1>2. x \in Context /\ d \in Context /\ ~ x.flag
  BY DEF OnlyScheduler, At, Context, Fields, WellFormed, Phases
<1>3. d = Leaves(Op("loop", "Yielding"), x)
  BY DEF Leaves, Op, At, Context, Fields
<1> HIDE DEF x
<1>4. Chain(AllocatorCall, x, x)
  BY SMT, <1>1, <1>2 DEF Calm, Carried, Base, Groundwork, ThreadsEnter
<1>5. Chain(<<Op("loop", "Yielding")>>, x, d)
  <2>1. Relies(Op("loop", "Yielding"), x)
    BY <1>1 DEF Relies, Op, OnlyScheduler
  <2>2. "loop" \in OpNames /\ "Yielding" \in Args
    BY DEF OpNames, SchedReason, Base, Groundwork, NamesKnown
  <2> QED
    BY <1>2, <1>3, <2>1, <2>2 DEF Base, Groundwork, StacksJoin
<1>6. Chain(AllocatorCall \o <<Op("loop", "Yielding")>>, x, d)
  BY <1>4, <1>5 DEF Base, Groundwork, StacksJoin
<1>7. Sound((AllocatorCall \o <<Op("loop", "Yielding")>>) \o todo, x)
  BY <1>6 DEF Base, Groundwork, StacksJoin
<1> QED
  BY <1>2, <1>7 DEF x

(* switch() returns to the idle thread, which removes the thread that      *)
(* exited.                                                                 *)
LEMMA CleanUpKept == ASSUME Base, NEW c, Rest(c), Switched, deferred # None PROVE Kept
<1>1. Now.op = "switched" /\ Relies(Now, c) /\ c \in Context
  BY AtHand DEF Switched
<1> PICK d, x, u, todo :
      /\ d = Leaves(Now, c) /\ x = At(c, "continue") /\ u = deferred
      /\ todo = AllocatorCall \o <<Op("loop", "Yielding")>> \o Tail(prog[current])
  OBVIOUS
<1>2. /\ current = IDLE /\ u \in ThreadId /\ threads[u] = "Exiting" /\ u # current /\ current \in ThreadId
      /\ threads \in [ThreadId -> {"Vacant", "Running", "Ready", "Exiting", "Waiting", "Sleeping"}]
      /\ c.idle /\ prog \in [ThreadId -> Seq(Ops)]
  BY SchedulerFacts, ContextFacts DEF Switched, Rest, Types
<1>3. c.phase = "switched" /\ OnlyScheduler(c) /\ Now.arg = "Yielding" /\ d = At(c, "free")
  <2> HIDE DEF Now
  <2> QED
    BY <1>1, <1>2 DEF Relies, Leaves, At, Context, Fields
<1>4. x \in Context /\ Sound(todo, x)
  BY <1>1, <1>2, <1>3, AtHand, LoopSound
<1>5. todo \in Seq(Ops)
  BY <1>4 DEF Sound, Chain
<1>6. /\ x.phase = "continue" /\ x.guards = c.guards /\ x.locks = c.locks
      /\ x.call = c.call /\ x.wakes = c.wakes
      /\ x.flag <=> c.flag
      /\ x.resched <=> c.resched
      /\ x.idle <=> c.idle
      /\ x.loaded <=> c.loaded
      /\ x.stack <=> c.stack
  BY DEF At
<1>7. /\ prog' \in [ThreadId -> Seq(Ops)] /\ prog'[u] = <<>> /\ prog'[current] = todo
      /\ \A t \in ThreadId \ {u, current} : prog'[t] = prog[t]
  <2>1. prog' = [prog EXCEPT ![current] = todo, ![u] = <<>>]
    BY <1>3 DEF Switched
  <2>2. <<>> \in Seq(Ops)
    BY SMT
  <2> QED
    BY <1>2, <1>5, <2>1, <2>2
<1>8. /\ threads' = [threads EXCEPT ![u] = "Vacant"] /\ threads'[u] = "Vacant"
      /\ \A t \in ThreadId \ {u} : threads'[t] = threads[t]
  BY <1>2 DEF Switched
<1>9. /\ current' = current /\ UNCHANGED irq /\ UNCHANGED user
      /\ timers' = timers /\ waiters' = waiters /\ items' = items
  BY DEF Switched, queues
<1>10. Running(x)'
  BY <1>4, <1>6, <1>7, <1>9, ContextFacts DEF Running, irq, user
<1>11. Types'
  BY <1>7, <1>9 DEF Rest, Types, irq, user
<1>12. Others'
  <2>1. ASSUME NEW t \in ThreadId, threads'[t] = "Vacant" PROVE prog'[t] = <<>>
    BY <1>7, <1>8, <2>1, SchedulerFacts DEF Rest, Others
  <2>2. ASSUME NEW t \in ThreadId, t # current, threads'[t] # "Vacant" PROVE Suspended(t)'
    <3>1. Suspended(t) /\ threads'[t] = threads[t] /\ prog'[t] = prog[t]
      BY <1>7, <1>8, <2>2 DEF Rest, Others
    <3> QED
      BY <1>9, <3>1 DEF Suspended, user
  <2> QED
    BY <1>9, <2>1, <2>2 DEF Others
<1>13. /\ ~ HasOp(prog'[u], "spawn") /\ ~ HasOp(prog'[u], "condition")
       /\ ~ HasOp(prog[u], "spawn") /\ ~ HasOp(prog[u], "condition")
       /\ HasOp(prog'[current], "spawn") <=> HasOp(prog[current], "spawn")
       /\ HasOp(prog'[current], "condition") <=> HasOp(prog[current], "condition")
  <2>1. Sound(prog[current], c)
    BY DEF Rest, Running
  <2>2. PICK y : Sound(prog[u], y) /\ y.call = "none"
    <3>1. Suspended(u)
      BY <1>2 DEF Rest, Others
    <3> QED
      BY <1>2, <3>1 DEF Suspended
  <2>3. ~ HasOp(<<>>, "spawn") /\ ~ HasOp(<<>>, "condition")
    BY SMT DEF HasOp
  <2> QED
    BY SMT, <1>4, <1>6, <1>7, <2>1, <2>2, <2>3, OpToCome
<1>14. \A t \in ThreadId : /\ HasOp(prog'[t], "spawn") <=> HasOp(prog[t], "spawn")
                           /\ HasOp(prog'[t], "condition") <=> HasOp(prog[t], "condition")
  BY <1>7, <1>13
<1>15. SpawnsFit'
  <2>1. SpawnsPending' = SpawnsPending /\ Vacancies' = Vacancies \cup {u} /\ u \notin Vacancies
    <3>1. SpawnsPending' = SpawnsPending
      BY <1>14 DEF SpawnsPending, HasOp
    <3>2. \A t : t \in Vacancies' <=> t \in Vacancies \/ t = u
      BY <1>2, <1>8 DEF Vacancies
    <3> QED
      BY <1>2, <3>1, <3>2 DEF Vacancies
  <2>2. Cardinality(Vacancies') = Cardinality(Vacancies) + 1 /\ Cardinality(Vacancies) \in Nat
    <3>1. Vacancies \in SUBSET ThreadId
      BY DEF Vacancies
    <3> QED
      BY <1>2, <2>1, <3>1, OneThreadMore
  <2>3. Cardinality(SpawnsPending) \in Nat
    BY ThreadSets DEF SpawnsPending
  <2> QED
    BY SMT, <2>1, <2>2, <2>3 DEF Rest, SpawnsFit
<1>16. SleepersExact(x)'
  <2>1. \A t \in ThreadId : StateIn(x, t)' = "Sleeping" <=> StateIn(c, t) = "Sleeping"
    BY <1>2, <1>3, <1>6, <1>8, <1>9 DEF StateIn
  <2> QED
    BY <1>6, <1>9, <2>1 DEF Rest, SleepersExact, WakesApart, WakesIn
<1>17. WaitersExact(x)'
  <2>1. \A t \in ThreadId : StateIn(x, t)' = "Waiting" <=> StateIn(c, t) = "Waiting"
    BY <1>2, <1>3, <1>6, <1>8, <1>9 DEF StateIn
  <2> QED
    BY <1>9, <2>1 DEF Rest, WaitersExact, Distinct, Holds
<1>18. ItemsExact(x)'
  <2>1. Awake' = Awake
    BY <1>9, <1>14 DEF Awake, Holds
  <2> QED
    BY <1>3, <1>6, <1>9, <2>1, ItemsStay
<1>19. Rest(x)'
  BY <1>10, <1>11, <1>12, <1>15, <1>16, <1>17, <1>18 DEF Rest
<1>20. SchedulerPc = "switched" /\ SchedulerPc' = "continue"
  <2>1. StackPc(prog'[current']) = PhasePc(x)
    BY <1>10, PcOfPhase DEF Running
  <2> QED
    BY <1>3, <1>6, <2>1, PcOfRunning, PcFacts DEF PhasePc
<1>21. Abstract!CleanUp
  BY <1>8, <1>20 DEF Switched, Abstract!CleanUp
<1> QED
  BY <1>19, <1>21 DEF Kept, Abstract!Next

(* Both returns from switch(). *)
LEMMA SwitchedKept == ASSUME Base, NEW c, Rest(c), Switched PROVE Kept
  BY SwitchReturnsKept, CleanUpKept

-----------------------------------------------------------------------------
(* New threads. *)

(* The thread table has at least one slot and None is no thread. *)
LEMMA SchedulerConstants == MaxThreads \in Nat \ {0} /\ None \notin Nat
  BY KernelAssumption

(* A thread about to run thread_entry() and then its body. *)
NewThread ==
  [guards |-> 0, locks |-> {}, flag |-> TRUE, resched |-> FALSE,
   loaded |-> FALSE, stack |-> FALSE, phase |-> "free", wakes |-> None,
   call |-> "none", idle |-> FALSE]

(* thread_spawn() leaves a stack that is sound from where switch() enters  *)
(* it.                                                                     *)
LEMMA NewThreadSound ==
  ASSUME Base
  PROVE  \E x : /\ JustSwitched(x) /\ ~ x.idle /\ ~ x.loaded /\ x.call = "none"
                /\ Sound(ThreadEntry, x)
<1>1. Outside(NewThread) /\ ~ NewThread.idle /\ NewThread.call = "none" /\ ~ NewThread.loaded
  BY DEF NewThread, Outside, NoGuard, Context, Fields, WellFormed, Phases
<1> DEFINE e == NewThread
           x == At(Locked(e, "SCHEDULER"), "switched")
<1> HIDE DEF e
<1>2. JustSwitched(x) /\ Sound(ThreadEntry, x)
  BY <1>1 DEF e, Base, Groundwork, ThreadsEnter
<1>3. ~ x.idle /\ ~ x.loaded /\ x.call = "none"
  BY <1>1 DEF At, Locked, Locking, e
<1> HIDE DEF x
<1> QED
  BY <1>2, <1>3

(* thread_spawn() finds a slot: the bound on the thread table holds. *)
LEMMA SlotToInsert ==
  ASSUME Base, NEW c, Rest(c), Now.op = "spawn"
  PROVE  /\ Abstract!CanInsert
         /\ InsertedId \in ThreadId /\ threads[InsertedId] = "Vacant"
         /\ InsertedId # current /\ InsertedId # IDLE
         /\ current \in SpawnsPending
<1>1. HasOp(prog[current], "spawn")
  <2>1. Now = prog[current][1] /\ 1 \in DOMAIN prog[current]
    BY SMT, AtHand DEF Now
  <2> QED
    BY <2>1 DEF HasOp
<1>2. current \in SpawnsPending /\ SpawnsPending \in SUBSET ThreadId /\ current \in ThreadId
  BY <1>1, SchedulerFacts DEF SpawnsPending, HasOp
<1>3. Cardinality(SpawnsPending) \in Nat /\ Cardinality(SpawnsPending) > 0
  <2>1. /\ Cardinality(SpawnsPending \ {current}) = Cardinality(SpawnsPending) - 1
        /\ Cardinality(SpawnsPending \ {current}) \in Nat /\ Cardinality(SpawnsPending) \in Nat
    BY <1>2, OneThreadMore
  <2> QED
    BY SMT, <2>1
<1>4. Vacancies # {}
  <2>1. Cardinality({}) = 0
    BY DEF Base, Groundwork, ThreadsCount
  <2>2. Cardinality(Vacancies) \in Nat /\ Cardinality(SpawnsPending) <= Cardinality(Vacancies)
    BY ThreadSets DEF Rest, SpawnsFit, Vacancies
  <2> QED
    BY SMT, <1>3, <2>1, <2>2
<1>5. PICK v \in ThreadId : threads[v] = "Vacant"
  BY <1>4 DEF Vacancies
<1>6. Abstract!CanInsert
  <2>1. CASE v < len
    <3>1. Holds(free, v)
      BY <1>5, <2>1, SchedulerFacts
    <3>2. free # <<>>
      BY SMT, <3>1 DEF Holds
    <3> QED
      BY <3>2 DEF Abstract!CanInsert
  <2>2. CASE ~ (v < len)
    <3>1. v \in 0 .. MaxThreads - 1 /\ len \in 1 .. MaxThreads /\ MaxThreads \in Nat
      BY SchedulerConstants, SchedulerFacts DEF ThreadId
    <3> QED
      BY SMT, <2>2, <3>1 DEF Abstract!CanInsert
  <2> QED
    BY <2>1, <2>2
<1>7. InsertedId \in ThreadId /\ threads[InsertedId] = "Vacant"
  <2>1. CASE free # <<>>
    <3>1. Head(free) \in ThreadId /\ Holds(free, Head(free))
      BY <2>1, SchedulerFacts DEF Base, Groundwork, QueuesKeepOrder
    <3> QED
      BY <2>1, <3>1, SchedulerFacts DEF InsertedId
  <2>2. CASE free = <<>>
    <3>1. len < MaxThreads /\ len \in 1 .. MaxThreads /\ MaxThreads \in Nat
      BY <1>6, <2>2, SchedulerConstants, SchedulerFacts DEF Abstract!CanInsert
    <3>2. len \in ThreadId /\ len >= len
      BY SMT, <3>1 DEF ThreadId
    <3> QED
      BY <2>2, <3>2, SchedulerFacts DEF InsertedId
  <2> QED
    BY <2>1, <2>2
<1> QED
  BY <1>2, <1>6, <1>7, SchedulerFacts

(* spawn_inner() puts a thread with a new stack into a vacant slot. *)
LEMMA SpawnInnerKept == ASSUME Base, NEW c, Rest(c), SpawnInner PROVE Kept
<1> PICK d, todo, n : d = Leaves(Now, c) /\ todo = Tail(prog[current]) /\ n = InsertedId
  OBVIOUS
<1>1. Now.op = "spawn" /\ Relies(Now, c) /\ d \in Context /\ Sound(todo, d)
  BY AtHand DEF SpawnInner
<1>2. /\ c.phase = "free" /\ c.call = "spawn" /\ d.phase = "free" /\ d.call = "none"
      /\ d.guards = c.guards /\ d.locks = c.locks /\ d.wakes = c.wakes
      /\ d.flag <=> c.flag
      /\ d.resched <=> c.resched
      /\ d.idle <=> c.idle
      /\ d.loaded <=> c.loaded
      /\ d.stack <=> c.stack
  <2> HIDE DEF Now
  <2> QED
    BY <1>1, ContextFacts DEF Relies, Leaves
<1>3. /\ Abstract!CanInsert /\ n \in ThreadId /\ threads[n] = "Vacant" /\ n # current /\ n # IDLE
      /\ current \in SpawnsPending
  BY <1>1, SlotToInsert
<1>4. /\ current \in ThreadId /\ prog \in [ThreadId -> Seq(Ops)] /\ todo \in Seq(Ops)
      /\ proc \in [ThreadId -> ThreadId \cup {None}]
      /\ threads \in [ThreadId -> {"Vacant", "Running", "Ready", "Exiting", "Waiting", "Sleeping"}]
  BY AtHand, SchedulerFacts DEF Rest, Types
<1>5. PICK x : /\ JustSwitched(x) /\ ~ x.idle /\ ~ x.loaded /\ x.call = "none"
               /\ Sound(ThreadEntry, x)
  BY NewThreadSound
<1>6. ThreadEntry \in Seq(Ops)
  BY <1>5 DEF Sound, Chain
<1>7. /\ prog' \in [ThreadId -> Seq(Ops)] /\ prog'[n] = ThreadEntry /\ prog'[current] = todo
      /\ \A t \in ThreadId \ {n, current} : prog'[t] = prog[t]
  <2>1. prog' = [prog EXCEPT ![n] = ThreadEntry, ![current] = todo]
    BY <1>3 DEF SpawnInner
  <2> HIDE DEF ThreadEntry
  <2> QED
    BY <1>3, <1>4, <1>6, <2>1
<1>8. /\ threads' = [threads EXCEPT ![n] = "Ready"] /\ threads'[n] = "Ready"
      /\ \A t \in ThreadId \ {n} : threads'[t] = threads[t]
  BY <1>3, <1>4 DEF SpawnInner
<1>9. /\ proc' \in [ThreadId -> ThreadId \cup {None}]
      /\ \A t \in ThreadId \ {n} : proc'[t] = proc[t]
  BY <1>3, <1>4 DEF SpawnInner
<1>10. /\ current' = current /\ deferred' = deferred /\ UNCHANGED irq /\ active' = active /\ tss' = tss
       /\ timers' = timers /\ waiters' = waiters /\ items' = items
  BY DEF SpawnInner, queues
<1>11. Running(d)'
  BY <1>1, <1>2, <1>7, <1>10, ContextFacts DEF Running, irq
<1>12. Types'
  BY <1>7, <1>9, <1>10 DEF Rest, Types, irq
<1>13. Others'
  <2>1. ASSUME NEW t \in ThreadId, threads'[t] = "Vacant" PROVE prog'[t] = <<>>
    BY <1>7, <1>8, <2>1, SchedulerFacts DEF Rest, Others
  <2>2. Suspended(n)'
    BY <1>3, <1>5, <1>7, <1>8 DEF Suspended
  <2>3. ASSUME NEW t \in ThreadId, t # current, t # n, threads'[t] # "Vacant" PROVE Suspended(t)'
    <3>1. Suspended(t) /\ threads'[t] = threads[t] /\ prog'[t] = prog[t] /\ proc'[t] = proc[t]
      BY <1>7, <1>8, <1>9, <2>3 DEF Rest, Others
    <3> QED
      BY <3>1 DEF Suspended
  <2> QED
    BY <1>10, <2>1, <2>2, <2>3 DEF Others
<1>14. /\ ~ HasOp(prog'[n], "spawn") /\ ~ HasOp(prog'[n], "condition")
       /\ ~ HasOp(prog[n], "spawn") /\ ~ HasOp(prog[n], "condition")
       /\ ~ HasOp(prog'[current], "spawn") /\ ~ HasOp(prog'[current], "condition")
       /\ ~ HasOp(prog[current], "condition")
  <2>1. prog[n] = <<>> /\ Sound(prog[current], c)
    BY <1>3 DEF Rest, Running, Others
  <2>2. ~ HasOp(<<>>, "spawn") /\ ~ HasOp(<<>>, "condition")
    BY SMT DEF HasOp
  <2> HIDE DEF ThreadEntry
  <2> QED
    BY <1>1, <1>2, <1>5, <1>7, <2>1, <2>2, OpToCome
<1>15. SpawnsFit'
  <2>1. SpawnsPending' = SpawnsPending \ {current} /\ Vacancies' = Vacancies \ {n} /\ n \in Vacancies
    <3>1. \A t \in ThreadId : HasOp(prog'[t], "spawn") <=> HasOp(prog[t], "spawn") /\ t # current
      BY <1>7, <1>14
    <3> QED
      BY <1>3, <1>8, <3>1 DEF SpawnsPending, HasOp, Vacancies
  <2>2. /\ Cardinality(SpawnsPending') = Cardinality(SpawnsPending) - 1 /\ Cardinality(SpawnsPending) \in Nat
        /\ Cardinality(Vacancies') = Cardinality(Vacancies) - 1 /\ Cardinality(Vacancies) \in Nat
    <3>1. SpawnsPending \in SUBSET ThreadId /\ Vacancies \in SUBSET ThreadId
      BY DEF SpawnsPending, Vacancies
    <3> QED
      BY <1>3, <1>4, <2>1, <3>1, OneThreadMore
  <2> QED
    BY SMT, <2>2 DEF Rest, SpawnsFit
<1>16. SleepersExact(d)'
  <2>1. \A t \in ThreadId : StateIn(d, t)' = "Sleeping" <=> StateIn(c, t) = "Sleeping"
    BY <1>2, <1>3, <1>8, <1>10 DEF StateIn
  <2> QED
    BY ZenonT(60), <1>2, <1>10, <2>1 DEF Rest, SleepersExact, WakesApart, WakesIn
<1>17. WaitersExact(d)'
  <2>1. \A t \in ThreadId : StateIn(d, t)' = "Waiting" <=> StateIn(c, t) = "Waiting"
    BY <1>2, <1>3, <1>8, <1>10 DEF StateIn
  <2> QED
    BY <1>10, <2>1 DEF Rest, WaitersExact, Distinct, Holds
<1>18. ItemsExact(d)'
  <2>1. Awake' = Awake
    <3>1. \A t \in ThreadId : HasOp(prog'[t], "condition") <=> HasOp(prog[t], "condition")
      BY <1>7, <1>14
    <3> QED
      BY <1>10, <3>1 DEF Awake, Holds
  <2> QED
    BY <1>2, <1>10, <2>1 DEF Rest, ItemsExact
<1>19. Rest(d)'
  BY <1>11, <1>12, <1>13, <1>15, <1>16, <1>17, <1>18 DEF Rest
<1>20. SchedulerPc = "free" /\ SchedulerPc' = "free"
  <2>1. StackPc(prog'[current']) = PhasePc(d)
    BY <1>11, PcOfPhase DEF Running
  <2> QED
    BY <1>2, <2>1, PcOfRunning, PcFacts DEF PhasePc
<1>21. Abstract!Spawn
  BY <1>3, <1>10, <1>20 DEF SpawnInner, Abstract!Spawn, Abstract!InsertSlot, InsertedId, Abstract!InsertedId
<1> QED
  BY <1>19, <1>21 DEF Kept, Abstract!Next

-----------------------------------------------------------------------------
(* Waking threads. *)

(* A blocked thread becomes ready while the running one runs on. *)
LEMMA Woken ==
  ASSUME Base, NEW c, Rest(c), NEW d, NEW todo, RunsOn(d, todo), d.call = c.call,
         PhasePc(c) = "free", PhasePc(d) = "free",
         NEW u \in ThreadId, threads[u] \in {"Waiting", "Sleeping"}, WakeThread(u),
         proc' = proc,
         IsTimers(ThreadId, timers'), waiters' \in Seq(ThreadId), items' \in Nat,
         SleepersExact(d)', WaitersExact(d)', ItemsExact(d)'
  PROVE  Kept
<1>1. /\ threads' = [threads EXCEPT ![u] = "Ready"] /\ ready' = Append(ready, u)
      /\ len' = len /\ free' = free /\ current' = current /\ deferred' = deferred
  BY DEF WakeThread
<1>2. /\ threads \in [ThreadId -> {"Vacant", "Running", "Ready", "Exiting", "Waiting", "Sleeping"}]
      /\ current \in ThreadId /\ threads[current] = "Running"
  BY SchedulerFacts
<1>3. /\ threads'[u] = "Ready" /\ u # current
      /\ \A t \in ThreadId \ {u} : threads'[t] = threads[t]
  BY <1>1, <1>2
<1>4. /\ Running(d)' /\ prog' \in [ThreadId -> Seq(Ops)]
      /\ \A t \in ThreadId \ {current} : prog'[t] = prog[t]
  BY <1>1, RunsOnRunning
<1>5. Types'
  BY <1>4 DEF Rest, Types, RunsOn
<1>6. Others'
  <2>1. ASSUME NEW t \in ThreadId, threads'[t] = "Vacant" PROVE prog'[t] = <<>>
    BY <1>2, <1>3, <1>4, <2>1 DEF Rest, Others
  <2>2. ASSUME NEW t \in ThreadId, t # current, threads'[t] # "Vacant" PROVE Suspended(t)'
    <3>1. Suspended(t) /\ (t # u => threads'[t] = threads[t])
      BY <1>3, <2>2 DEF Rest, Others
    <3> QED
      BY <1>3, <1>4, <2>2, <3>1 DEF Suspended
  <2> QED
    BY <1>1, <2>1, <2>2 DEF Others
<1>7. SpawnsFit'
  <2>1. SpawnsPending' = SpawnsPending
    BY <1>1, CallsStay
  <2>2. Vacancies' = Vacancies
    BY <1>3 DEF Vacancies
  <2> QED
    BY <2>1, <2>2 DEF Rest, SpawnsFit
<1>8. Rest(d)'
  BY <1>4, <1>5, <1>6, <1>7 DEF Rest
<1>9. SchedulerPc = "free" /\ SchedulerPc' = "free"
  <2>1. StackPc(prog'[current']) = PhasePc(d)
    BY <1>4, PcOfPhase DEF Running
  <2> QED
    BY <2>1, PcOfRunning, PcFacts
<1>10. Abstract!Wake(u)
  BY <1>1, <1>9 DEF Abstract!Wake
<1>11. u \in Abstract!ThreadId
  BY DEF ThreadId, Abstract!ThreadId
<1> QED
  BY <1>8, <1>10, <1>11 DEF Kept, Abstract!Next

(* The events of the timer queue. *)
LEMMA TimerEvents ==
  ASSUME NEW q, IsTimers(ThreadId, q)
  PROVE  \A i \in 1 .. Len(q) : q[i].delta \in Nat /\ q[i].closure \in ThreadId
<1> DEFINE Event == [delta : Nat, closure : ThreadId]
<1>1. q \in Seq(Event) /\ \A e \in Event : e.delta \in Nat /\ e.closure \in ThreadId
  BY DEF IsTimers
<1> HIDE DEF Event
<1>2. \A i \in 1 .. Len(q) : q[i] \in Event
  BY SMT, <1>1
<1> QED
  BY <1>1, <1>2

(* None is not in the timer queue. *)
LEMMA ClosuresAreThreads ==
  ASSUME Base, NEW q, IsTimers(ThreadId, q) PROVE ~ WakesIn(q, None)
  BY TimerEvents, ThreadSets DEF WakesIn

(* The closure wakes the thread that slept for it. *)
LEMMA WakeSleeperKept == ASSUME Base, NEW c, Rest(c), WakeSleeper PROVE Kept
<1> PICK d, todo, u : d = Leaves(Now, c) /\ todo = Tail(prog[current]) /\ u = Now.arg
  OBVIOUS
<1>1. Now.op = "wake" /\ RunsOn(d, todo) /\ Relies(Now, c) /\ d.call = c.call
  BY QueueStep DEF WakeSleeper, QueueOps
<1>2. c.phase = "waking" /\ d.phase = "free" /\ c.wakes = u /\ d.wakes = None
  <2> HIDE DEF Now
  <2> QED
    BY <1>1 DEF Relies, Leaves
<1>3. u \in ThreadId /\ c.wakes # None
  BY <1>2, ContextFacts DEF Context, Fields
<1>4. /\ WakesApart(timers) /\ ~ WakesIn(timers, u)
      /\ \A t \in ThreadId : WakesIn(timers, t) \/ u = t <=> StateIn(c, t) = "Sleeping"
  BY <1>2 DEF Rest, SleepersExact
<1>5. u # current /\ threads[u] = "Sleeping"
  BY <1>2, <1>3, <1>4 DEF StateIn
<1>6. WakeThread(u) /\ current' = current /\ proc' = proc
      /\ timers' = timers /\ waiters' = waiters /\ items' = items
  BY DEF WakeSleeper, user, queues, WakeThread
<1>7. threads'[u] = "Ready" /\ \A t \in ThreadId \ {u} : threads'[t] = threads[t]
  BY <1>3, <1>6, SchedulerFacts DEF WakeThread
<1>8. IsTimers(ThreadId, timers') /\ waiters' \in Seq(ThreadId) /\ items' \in Nat
  BY <1>6 DEF Rest, Types
<1>9. SleepersExact(d)'
  <2>1. ~ WakesIn(timers, None)
    BY <1>6, <1>8, ClosuresAreThreads
  <2>2. \A t \in ThreadId : StateIn(d, t)' = "Sleeping" <=> StateIn(c, t) = "Sleeping" /\ t # u
    BY <1>2, <1>5, <1>6, <1>7 DEF StateIn
  <2>3. \A t \in ThreadId : d.wakes # t
    BY <1>2, ThreadSets
  <2>4. WakesApart(timers)' /\ ~ WakesIn(timers, d.wakes)'
    BY <1>2, <1>4, <1>6, <2>1 DEF WakesApart, WakesIn
  <2>5. \A t \in ThreadId : WakesIn(timers, t)' \/ d.wakes = t <=> StateIn(d, t)' = "Sleeping"
    BY <1>4, <1>6, <2>2, <2>3
  <2> QED
    BY <2>4, <2>5 DEF SleepersExact
<1>10. WaitersExact(d)'
  <2>1. \A t \in ThreadId : StateIn(d, t)' = "Waiting" <=> StateIn(c, t) = "Waiting"
    BY <1>2, <1>5, <1>6, <1>7 DEF StateIn
  <2> QED
    BY <1>6, <2>1 DEF Rest, WaitersExact, Holds, Distinct
<1>11. ItemsExact(d)'
  <2>1. Awake' = Awake
    BY <1>1, <1>6, CallsStay DEF Awake, Holds
  <2> QED
    BY <1>2, <1>6, <2>1 DEF Rest, ItemsExact, One
<1>12. PhasePc(c) = "free" /\ PhasePc(d) = "free"
  BY <1>2 DEF PhasePc
<1> QED
  BY <1>1, <1>3, <1>5, <1>6, <1>8, <1>9, <1>10, <1>11, <1>12, Woken

(* wake_one() and wake_all() with nobody waiting. *)
LEMMA NobodyWaitsKept == ASSUME Base, NEW c, Rest(c), WakeFront, waiters = <<>> PROVE Kept
<1> PICK d, todo : d = Leaves(Now, c) /\ todo = Tail(prog[current])
  OBVIOUS
<1>1. /\ Now.op \in {"wake_front", "wake_each"} /\ RunsOn(d, todo) /\ Relies(Now, c)
      /\ d.wakes = c.wakes /\ d.call = c.call
  BY QueueStep DEF WakeFront, QueueOps
<1>2. c.phase = "put" /\ d.phase = "free"
  <2> HIDE DEF Now
  <2> QED
    BY <1>1 DEF Relies, Leaves
<1>3. UNCHANGED sched /\ UNCHANGED proc /\ timers' = timers /\ waiters' = waiters /\ items' = items
  BY DEF WakeFront, user
<1>4. SpawnsFit' /\ SleepersExact(d)' /\ WaitersExact(d)'
  BY <1>1, <1>2, <1>3, SpawnsStay, SleepersStay, WaitersStay
<1>5. ItemsExact(d)'
  BY <1>2, <1>3 DEF ItemsExact
<1>6. IsTimers(ThreadId, timers') /\ waiters' \in Seq(ThreadId) /\ items' \in Nat
  BY <1>3 DEF Rest, Types
<1>7. PhasePc(d) = PhasePc(c)
  BY <1>2 DEF PhasePc
<1> QED
  BY <1>1, <1>3, <1>4, <1>5, <1>6, <1>7, Settled

(* A waiting thread goes around the loop of sleep_until(). *)
LEMMA WaiterLooks ==
  ASSUME Base, NEW c, Rest(c), NEW u \in ThreadId, u # current, threads[u] = "Waiting"
  PROVE  HasOp(prog[u], "condition")
<1>1. Suspended(u)
  BY DEF Rest, Others
<1>2. PICK x : Sound(prog[u], x) /\ x.call = "condition"
  BY <1>1 DEF Suspended
<1> QED
  BY <1>2, OpToCome

(* wake_one() wakes the first waiter, which will look at the object again; *)
(* wake_all() goes on with the others.                                     *)
LEMMA FrontWokenKept == ASSUME Base, NEW c, Rest(c), WakeFront, waiters # <<>> PROVE Kept
<1> PICK u : u = Head(waiters)
  OBVIOUS
<1>1. Now.op \in {"wake_front", "wake_each"} /\ Relies(Now, c) /\ Now \in Ops
  BY AtHand DEF WakeFront
<1>2. c.phase = "put"
  <2> HIDE DEF Now
  <2> QED
    BY <1>1 DEF Relies
<1>3. /\ waiters \in Seq(ThreadId) /\ Distinct(waiters)
      /\ \A t \in ThreadId : Holds(waiters, t) <=> StateIn(c, t) = "Waiting"
  BY DEF Rest, Types, WaitersExact
<1>4. /\ u \in ThreadId /\ Holds(waiters, u) /\ Tail(waiters) \in Seq(ThreadId)
      /\ Distinct(Tail(waiters))
      /\ \A t : Holds(Tail(waiters), t) <=> Holds(waiters, t) /\ t # u
  BY <1>3 DEF Base, Groundwork, QueuesKeepOrder
<1>5. u # current /\ threads[u] = "Waiting"
  BY <1>2, <1>3, <1>4 DEF StateIn
<1>6. /\ WakeThread(u) /\ current' = current /\ proc' = proc /\ UNCHANGED irq /\ UNCHANGED user
      /\ timers' = timers /\ waiters' = Tail(waiters) /\ items' = items
  BY DEF WakeFront, user, WakeThread
<1>7. threads'[u] = "Ready" /\ \A t \in ThreadId \ {u} : threads'[t] = threads[t]
  BY <1>4, <1>6, SchedulerFacts DEF WakeThread
<1>8. IsTimers(ThreadId, timers') /\ waiters' \in Seq(ThreadId) /\ items' \in Nat /\ items \in Nat
  BY <1>4, <1>6 DEF Rest, Types
<1>9. ASSUME NEW d, NEW todo, RunsOn(d, todo), d.call = c.call, d.wakes = c.wakes,
             d.phase \in {"free", "put"}
      PROVE  Kept
  <2>1. SleepersExact(d)'
    <3>1. \A t \in ThreadId : StateIn(d, t)' = "Sleeping" <=> StateIn(c, t) = "Sleeping"
      BY <1>2, <1>5, <1>6, <1>7, <1>9 DEF StateIn
    <3>2. WakesApart(timers)' /\ ~ WakesIn(timers, d.wakes)'
      BY <1>6, <1>9 DEF Rest, SleepersExact
    <3>3. \A t \in ThreadId : WakesIn(timers, t)' \/ d.wakes = t <=> StateIn(d, t)' = "Sleeping"
      BY <1>6, <1>9, <3>1 DEF Rest, SleepersExact
    <3> QED
      BY <3>2, <3>3 DEF SleepersExact
  <2>2. WaitersExact(d)'
    <3>1. \A t \in ThreadId : StateIn(d, t)' = "Waiting" <=> StateIn(c, t) = "Waiting" /\ t # u
      BY <1>2, <1>5, <1>6, <1>7, <1>9 DEF StateIn
    <3> QED
      BY <1>3, <1>4, <1>6, <3>1 DEF WaitersExact
  <2>3. Awake' = Awake \cup {u} /\ u \notin Awake /\ Awake \in SUBSET ThreadId
    <3>1. HasOp(prog[u], "condition")
      BY <1>4, <1>5, WaiterLooks
    <3>2. \A t \in ThreadId : HasOp(prog'[t], "condition") <=> HasOp(prog[t], "condition")
      BY <1>6, <1>9, CallsStay
    <3> QED
      BY <1>4, <1>6, <3>1, <3>2 DEF Awake
  <2>4. /\ Cardinality(Awake) \in Nat /\ Cardinality(Awake') \in Nat
        /\ Cardinality(Awake') = Cardinality(Awake) + 1
    BY <1>4, <2>3, OneThreadMore
  <2>5. items <= Cardinality(Awake) + 1
    BY <1>2 DEF Rest, ItemsExact, One
  <2>6. One(d.phase \in {"put", "take"}) \in Nat
    BY DEF One
  <2>7. ItemsExact(d)'
    BY SMT, <1>6, <1>8, <1>9, <2>4, <2>5, <2>6 DEF ItemsExact
  <2>8. PhasePc(c) = "free" /\ PhasePc(d) = "free"
    BY <1>2, <1>9 DEF PhasePc
  <2> QED
    BY <1>4, <1>5, <1>6, <1>8, <1>9, <2>1, <2>2, <2>7, <2>8, Woken
<1>10. CASE Now.op = "wake_front"
  <2> PICK d, todo : d = Leaves(Now, c) /\ todo = Tail(prog[current])
    OBVIOUS
  <2>1. Then(<<>>)
    BY <1>10 DEF WakeFront
  <2>2. RunsOn(d, todo) /\ d.wakes = c.wakes /\ d.call = c.call
    BY <1>6, <1>10, <2>1, QueueStep DEF QueueOps
  <2>3. d.phase = "free"
    <3> HIDE DEF Now
    <3> QED
      BY <1>10 DEF Leaves
  <2> QED
    BY <1>9, <2>2, <2>3
<1>11. CASE Now.op = "wake_each"
  <2> PICK d, todo : d = Leaves(Now, c) /\ todo = Do("wake_each") \o Tail(prog[current])
    OBVIOUS
  <2>1. Then(Do("wake_each"))
    BY <1>11 DEF WakeFront
  <2>2. d \in Context /\ Sound(Tail(prog[current]), d) /\ c \in Context
    BY AtHand
  <2>3. Chain(Do("wake_each"), c, d)
    <3>1. Relies(Op("wake_each", None), c) /\ d = Leaves(Op("wake_each", None), c)
      <4> HIDE DEF Now
      <4> QED
        BY <1>1, <1>11 DEF Relies, Leaves, Op
    <3>2. "wake_each" \in OpNames /\ None \in Args
      BY DEF OpNames, Base, Groundwork, NamesKnown
    <3> QED
      BY <2>2, <3>1, <3>2 DEF Do, Base, Groundwork, StacksJoin
  <2>4. RunsOn(c, todo)
    BY <1>2, <1>6, <2>1, <2>2, <2>3, ThenStep
  <2> QED
    BY <1>2, <1>9, <2>4
<1> QED
  BY <1>1, <1>10, <1>11

(* wake_one() and each round of wake_all(). *)
LEMMA WakeFrontKept == ASSUME Base, NEW c, Rest(c), WakeFront PROVE Kept
  BY NobodyWaitsKept, FrontWokenKept
=============================================================================
