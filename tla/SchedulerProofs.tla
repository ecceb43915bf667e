-------------------------- MODULE SchedulerProofs --------------------------
(***************************************************************************)
(* IInv of Scheduler is inductive, for every size of the thread table; the *)
(* assertions of sched() and the removal of threads follow from it.        *)
(***************************************************************************)
EXTENDS Scheduler, OperatorProofs

(* The thread table always has the slot of the idle thread. *)
LEMMA IdleIsThread == IDLE \in ThreadId
  BY MaxThreadsAssumption DEF IDLE, ThreadId

(* No thread has the id None, so `deferred` tells a thread from no action. *)
LEMMA NoneIsNoThread == None \notin ThreadId
  BY NoneAssumption, MaxThreadsAssumption DEF ThreadId

(* The boot state of Scheduler satisfies the invariant. *)
LEMMA InitInv == Init => IInv
<1> SUFFICES ASSUME Init PROVE IInv
  OBVIOUS
<1> USE MaxThreadsAssumption, IdleIsThread, NoneIsNoThread DEF Init
<1>1. TypeOK
  BY DEF TypeOK, ThreadState
<1>2. RunningIsCurrent /\ IdleAvailable
  BY DEF RunningIsCurrent, IdleAvailable
<1>3. ReadyQueueExact
  BY DEF ReadyQueueExact, Distinct, Holds
<1>4. DeferredToIdle
  BY DEF DeferredToIdle
<1>5. FreeListExact
  BY DEF FreeListExact, Distinct, Holds, ThreadId, IDLE
<1> QED
  BY <1>1, <1>2, <1>3, <1>4, <1>5 DEF IInv

(* IdSparseVec::insert gives a slot that is vacant. *)
LEMMA InsertedIdIsVacant ==
  ASSUME IInv, CanInsert
  PROVE  /\ InsertedId \in ThreadId
         /\ threads[InsertedId] = "Vacant"
<1>1. CASE free # <<>>
  <2>1. Head(free) \in ThreadId /\ Holds(free, Head(free))
    BY <1>1, PopFront DEF IInv, TypeOK, FreeListExact
  <2> QED
    BY <1>1, <2>1 DEF InsertedId, IInv, FreeListExact
<1>2. CASE free = <<>>
  <2>1. len \in ThreadId
    BY <1>2, MaxThreadsAssumption DEF CanInsert, IInv, TypeOK, ThreadId
  <2> QED
    BY <1>2, <2>1 DEF InsertedId, IInv, FreeListExact, TypeOK
<1> QED
  BY <1>1, <1>2

(* spawn() keeps the invariant. *)
LEMMA SpawnInv == IInv /\ Spawn => IInv'
<1> SUFFICES ASSUME IInv, Spawn PROVE IInv'
  OBVIOUS
<1> DEFINE id == InsertedId
<1>1. id \in ThreadId /\ threads[id] = "Vacant"
  BY InsertedIdIsVacant DEF Spawn
<1>2. id # IDLE /\ id # current /\ id # deferred
  BY <1>1 DEF IInv, IdleAvailable, RunningIsCurrent, DeferredToIdle
<1>3. ~ Holds(ready, id)
  BY <1>1 DEF IInv, ReadyQueueExact
<1>4. /\ threads' = [threads EXCEPT ![id] = "Ready"]
      /\ ready' = Append(ready, id)
      /\ current' = current /\ deferred' = deferred /\ pc' = pc
  BY DEF Spawn
<1>5. /\ ready' \in Seq(ThreadId)
      /\ Distinct(ready')
      /\ \A t : Holds(ready', t) <=> Holds(ready, t) \/ t = id
  BY <1>1, <1>3, <1>4, PushBack DEF IInv, TypeOK, ReadyQueueExact
<1>6. /\ len' \in 1 .. MaxThreads
      /\ free' \in Seq(ThreadId)
      /\ Distinct(free')
      /\ \A t \in ThreadId : Holds(free', t) <=> Holds(free, t) /\ t # id
      /\ \A t \in ThreadId : t < len' <=> t < len \/ t = id
  <2>1. CASE free # <<>>
    <3>1. free' = Tail(free) /\ len' = len /\ id = Head(free)
      BY <2>1 DEF Spawn, InsertSlot, InsertedId
    <3>2. Holds(free, id) /\ free' \in Seq(ThreadId) /\ Distinct(free')
          /\ \A t : Holds(free', t) <=> Holds(free, t) /\ t # id
      BY <2>1, <3>1, PopFront DEF IInv, TypeOK, FreeListExact
    <3>3. id < len
      BY <1>1, <3>2 DEF IInv, FreeListExact
    <3> QED
      BY <3>1, <3>2, <3>3 DEF IInv, TypeOK
  <2>2. CASE free = <<>>
    <3>1. free' = free /\ len' = len + 1 /\ id = len /\ len < MaxThreads
      BY <2>2 DEF Spawn, CanInsert, InsertSlot, InsertedId
    <3>2. \A t : ~ Holds(free, t)
      BY <2>2 DEF Holds
    <3> QED
      BY <3>1, <3>2, MaxThreadsAssumption DEF IInv, TypeOK, FreeListExact, ThreadId
  <2> QED
    BY <2>1, <2>2
<1> HIDE DEF id
<1>7. TypeOK'
  BY <1>1, <1>4, <1>5, <1>6 DEF IInv, TypeOK, ThreadState
<1>8. RunningIsCurrent' /\ IdleAvailable' /\ DeferredToIdle'
  BY <1>1, <1>2, <1>4, IdleIsThread
     DEF IInv, TypeOK, RunningIsCurrent, IdleAvailable, DeferredToIdle
<1>9. ReadyQueueExact'
  BY <1>1, <1>2, <1>4, <1>5 DEF IInv, TypeOK, ReadyQueueExact
<1>10. FreeListExact'
  <2>1. ASSUME NEW t \in ThreadId
        PROVE  /\ Holds(free', t) <=> threads'[t] = "Vacant" /\ t < len'
               /\ t >= len' => threads'[t] = "Vacant"
    <3>1. t \in Nat /\ len \in Nat /\ len' \in Nat
      BY <1>6, MaxThreadsAssumption DEF IInv, TypeOK, ThreadId
    <3>2. CASE t = id
      BY <1>1, <1>4, <1>6, <3>1, <3>2 DEF IInv, TypeOK
    <3>3. CASE t # id
      BY <1>1, <1>4, <1>6, <3>1, <3>3 DEF IInv, TypeOK, FreeListExact
    <3> QED
      BY <3>2, <3>3
  <2> QED
    BY <1>6, <2>1 DEF FreeListExact
<1> QED
  BY <1>7, <1>8, <1>9, <1>10 DEF IInv

(* wake() keeps the invariant. *)
LEMMA WakeInv == ASSUME IInv, NEW t \in ThreadId, Wake(t) PROVE IInv'
<1>1. /\ threads[t] \in {"Waiting", "Sleeping"}
      /\ threads' = [threads EXCEPT ![t] = "Ready"]
      /\ ready' = Append(ready, t)
      /\ UNCHANGED <<len, free, current, deferred, pc>>
  BY DEF Wake
<1>2. ~ Holds(ready, t) /\ t # IDLE /\ t # current /\ t # deferred
  BY <1>1 DEF IInv, ReadyQueueExact, IdleAvailable, RunningIsCurrent, DeferredToIdle
<1>3. /\ ready' \in Seq(ThreadId)
      /\ Distinct(ready')
      /\ \A u : Holds(ready', u) <=> Holds(ready, u) \/ u = t
  BY <1>1, <1>2, PushBack DEF IInv, TypeOK, ReadyQueueExact
<1>4. TypeOK'
  BY <1>1, <1>3 DEF IInv, TypeOK, ThreadState
<1>5. RunningIsCurrent' /\ IdleAvailable' /\ DeferredToIdle'
  BY <1>1, <1>2, IdleIsThread
     DEF IInv, TypeOK, RunningIsCurrent, IdleAvailable, DeferredToIdle
<1>6. ReadyQueueExact'
  BY <1>1, <1>2, <1>3 DEF IInv, TypeOK, ReadyQueueExact
<1>7. FreeListExact'
  BY <1>1 DEF IInv, TypeOK, FreeListExact, Holds, Distinct
<1> QED
  BY <1>4, <1>5, <1>6, <1>7 DEF IInv

(* When a pass of sched() goes on to switch(): what NextThread and Requeue *)
(* give.  The caller is not the idle thread unless it yields.              *)
SwitchPossible(reason) ==
  /\ reason \in SchedReason
  /\ current = IDLE => reason = "Yielding"
  /\ ~ YieldToNobody(reason)
  /\ deferred = None

(* The thread to switch to is there, ready and not the current one. *)
LEMMA NextThreadIsReady ==
  ASSUME IInv, NEW reason, SwitchPossible(reason)
  PROVE  /\ NextThread(reason) \in ThreadId
         /\ threads[NextThread(reason)] = "Ready"
         /\ NextThread(reason) # current
         /\ threads[current] = "Running"
         /\ Remaining(reason) \in Seq(ThreadId)
         /\ Distinct(Remaining(reason))
         /\ \A t \in ThreadId :
              Holds(Remaining(reason), t) <=> Holds(ready, t) /\ t # NextThread(reason)
<1> DEFINE next == NextThread(reason)
<1>1. threads[current] = "Running" /\ current \in ThreadId
  BY DEF IInv, TypeOK, RunningIsCurrent
<1>2. CASE reason = "Exiting" \/ ready = <<>>
  <2>1. next = IDLE /\ Remaining(reason) = ready
    BY <1>2 DEF NextThread, Remaining
  <2>2. current # IDLE
    BY <1>2 DEF SwitchPossible, YieldToNobody
  <2>3. threads[IDLE] = "Ready" /\ ~ Holds(ready, IDLE)
    BY <2>2, IdleIsThread DEF IInv, IdleAvailable, RunningIsCurrent, ReadyQueueExact
  <2> QED
    BY <1>1, <2>1, <2>2, <2>3, IdleIsThread DEF IInv, TypeOK, ReadyQueueExact
<1>3. CASE ~ (reason = "Exiting" \/ ready = <<>>)
  <2>1. next = Head(ready) /\ Remaining(reason) = Tail(ready)
    BY <1>3 DEF NextThread, Remaining
  <2>2. /\ next \in ThreadId
        /\ Holds(ready, next)
        /\ Tail(ready) \in Seq(ThreadId)
        /\ Distinct(Tail(ready))
        /\ \A t : Holds(Tail(ready), t) <=> Holds(ready, t) /\ t # next
    BY <1>3, <2>1, PopFront DEF IInv, TypeOK, ReadyQueueExact
  <2>3. threads[next] = "Ready"
    BY <2>2 DEF IInv, ReadyQueueExact
  <2> QED
    BY <1>1, <2>1, <2>2, <2>3
<1> QED
  BY <1>2, <1>3

(* One pass of sched() keeps the invariant. *)
LEMMA SwitchInv ==
  ASSUME IInv, NEW reason, SwitchPossible(reason), Switch(reason)
  PROVE  IInv'
<1> DEFINE next == NextThread(reason)
           left == StateAfter(reason)
           rest == Remaining(reason)
<1>1. /\ next \in ThreadId
      /\ threads[next] = "Ready"
      /\ next # current
      /\ threads[current] = "Running"
      /\ rest \in Seq(ThreadId)
      /\ Distinct(rest)
      /\ \A t \in ThreadId : Holds(rest, t) <=> Holds(ready, t) /\ t # next
  BY NextThreadIsReady
<1>2. /\ threads' = [threads EXCEPT ![current] = left, ![next] = "Running"]
      /\ ready' = Requeue(reason)
      /\ deferred' = IF reason = "Exiting" THEN current ELSE None
      /\ current' = next
      /\ pc' = "switched"
      /\ UNCHANGED <<len, free>>
  BY DEF Switch
<1>3. /\ left \in {"Ready", "Exiting", "Waiting", "Sleeping"}
      /\ left = "Ready" <=> reason = "Yielding"
      /\ left = "Exiting" <=> reason = "Exiting"
      /\ reason = "Exiting" => next = IDLE
      /\ current = IDLE => reason = "Yielding"
      /\ deferred = None
  BY DEF SwitchPossible, SchedReason, StateAfter, NextThread
<1>4. current \in ThreadId /\ threads \in [ThreadId -> ThreadState \cup {"Vacant"}]
  BY DEF IInv, TypeOK
<1> HIDE DEF next, left, rest
<1>5. ASSUME NEW t \in ThreadId
      PROVE  threads'[t] = IF t = next THEN "Running"
                           ELSE IF t = current THEN left ELSE threads[t]
  BY <1>1, <1>2, <1>4
<1>6. /\ ready' \in Seq(ThreadId)
      /\ Distinct(ready')
      /\ \A t \in ThreadId : Holds(ready', t) <=>
            \/ Holds(ready, t) /\ t # next
            \/ t = current /\ reason = "Yielding" /\ current # IDLE
  <2>1. CASE reason = "Yielding" /\ current # IDLE
    <3>1. ready' = Append(rest, current)
      BY <1>2, <2>1 DEF Requeue, rest
    <3>2. ~ Holds(rest, current)
      BY <1>1, <1>4 DEF IInv, ReadyQueueExact
    <3> QED
      BY <1>1, <1>4, <2>1, <3>1, <3>2, PushBack
  <2>2. CASE ~ (reason = "Yielding" /\ current # IDLE)
    BY <1>1, <1>2, <2>2 DEF Requeue, rest
  <2> QED
    BY <2>1, <2>2
<1>7. TypeOK'
  <2>1. threads' \in [ThreadId -> ThreadState \cup {"Vacant"}]
    BY <1>1, <1>2, <1>3, <1>4 DEF ThreadState
  <2> QED
    BY <1>1, <1>2, <1>4, <1>6, <2>1 DEF IInv, TypeOK
<1>8. RunningIsCurrent'
  BY <1>1, <1>2, <1>3, <1>5 DEF IInv, RunningIsCurrent
<1>9. IdleAvailable'
  BY <1>3, <1>5, IdleIsThread DEF IInv, IdleAvailable
<1>10. DeferredToIdle'
  <2>1. ASSUME NEW t \in ThreadId PROVE threads[t] # "Exiting"
    BY <1>3, NoneIsNoThread DEF IInv, DeferredToIdle
  <2>2. ASSUME NEW t \in ThreadId PROVE threads'[t] = "Exiting" <=> t = deferred'
    BY <1>1, <1>2, <1>3, <1>4, <1>5, <2>1, NoneIsNoThread
  <2> QED
    BY <1>2, <1>3, <2>2 DEF DeferredToIdle
<1>11. ReadyQueueExact'
  <2>1. ASSUME NEW t \in ThreadId
        PROVE  Holds(ready', t) <=> threads'[t] = "Ready" /\ t # IDLE
    BY <1>1, <1>3, <1>5, <1>6 DEF IInv, ReadyQueueExact
  <2> QED
    BY <1>6, <2>1 DEF ReadyQueueExact
<1>12. FreeListExact'
  <2>1. ASSUME NEW t \in ThreadId PROVE threads'[t] = "Vacant" <=> threads[t] = "Vacant"
    BY <1>1, <1>3, <1>5
  <2> QED
    BY <1>2, <2>1 DEF IInv, FreeListExact
<1> QED
  BY <1>7, <1>8, <1>9, <1>10, <1>11, <1>12 DEF IInv

(* clean_up() keeps the invariant. *)
LEMMA CleanUpInv == ASSUME IInv, CleanUp PROVE IInv'
<1>1. /\ deferred # None
      /\ threads' = [threads EXCEPT ![deferred] = "Vacant"]
      /\ free' = Append(free, deferred)
      /\ deferred' = None
      /\ pc' = "continue"
      /\ UNCHANGED <<len, ready, current>>
  BY DEF CleanUp
<1>2. deferred \in ThreadId /\ threads[deferred] = "Exiting" /\ current = IDLE
  BY <1>1 DEF IInv, TypeOK, DeferredToIdle
<1>3. deferred # IDLE /\ ~ Holds(free, deferred) /\ deferred < len
  BY <1>2, MaxThreadsAssumption
     DEF IInv, TypeOK, IdleAvailable, FreeListExact, ThreadId
<1>4. /\ free' \in Seq(ThreadId)
      /\ Distinct(free')
      /\ \A t : Holds(free', t) <=> Holds(free, t) \/ t = deferred
  BY <1>1, <1>2, <1>3, PushBack DEF IInv, TypeOK, FreeListExact
<1>5. TypeOK'
  BY <1>1, <1>2, <1>4 DEF IInv, TypeOK, ThreadState
<1>6. RunningIsCurrent' /\ IdleAvailable'
  BY <1>1, <1>2, <1>3, IdleIsThread DEF IInv, TypeOK, RunningIsCurrent, IdleAvailable
<1>7. DeferredToIdle'
  BY <1>1, <1>2, NoneIsNoThread DEF IInv, TypeOK, DeferredToIdle
<1>8. ReadyQueueExact'
  BY <1>1, <1>2 DEF IInv, TypeOK, ReadyQueueExact, Holds, Distinct
<1>9. FreeListExact'
  BY <1>1, <1>2, <1>3, <1>4 DEF IInv, TypeOK, FreeListExact
<1> QED
  BY <1>5, <1>6, <1>7, <1>8, <1>9 DEF IInv

(* The steps that change nothing but where the CPU is in sched(). *)
LEMMA UnchangedInv ==
  ASSUME IInv, UNCHANGED <<threads, len, free, ready, current, deferred>>,
         deferred = None, pc' \in {"free", "switched", "continue"}
  PROVE  IInv'
  BY DEF IInv, TypeOK, RunningIsCurrent, ReadyQueueExact, IdleAvailable, DeferredToIdle,
         FreeListExact, Holds, Distinct

(* Every step of Scheduler keeps the invariant. *)
THEOREM InductiveInv == IInv /\ [Next]_vars => IInv'
<1> SUFFICES ASSUME IInv, [Next]_vars PROVE IInv'
  OBVIOUS
<1>1. CASE Spawn
  BY <1>1, SpawnInv
<1>2. CASE \E t \in ThreadId : Wake(t)
  BY <1>2, WakeInv
<1>3. CASE \E reason \in SchedReason : Sched(reason)
  <2>1. PICK reason \in SchedReason : Sched(reason)
    BY <1>3
  <2>2. SwitchPossible(reason) /\ Switch(reason)
    BY <2>1 DEF Sched, Switch, SwitchPossible, YieldToNobody, IInv, DeferredToIdle
  <2> QED
    BY <2>2, SwitchInv
<1>4. CASE Resume
  BY <1>4, UnchangedInv DEF Resume
<1>5. CASE CleanUp
  BY <1>5, CleanUpInv
<1>6. CASE Again
  <2>1. deferred = None
    BY <1>6 DEF Again, IInv, DeferredToIdle
  <2>2. CASE Switch("Yielding")
    <3>1. SwitchPossible("Yielding")
      BY <2>1, <2>2 DEF Switch, SwitchPossible, YieldToNobody, SchedReason
    <3> QED
      BY <2>2, <3>1, SwitchInv
  <2>3. CASE ~ Switch("Yielding")
    BY <1>6, <2>1, <2>3, UnchangedInv DEF Again
  <2> QED
    BY <2>2, <2>3
<1>7. CASE UNCHANGED vars
  BY <1>7 DEF vars, IInv, TypeOK, RunningIsCurrent, ReadyQueueExact, IdleAvailable,
              DeferredToIdle, FreeListExact, Holds, Distinct
<1> QED
  BY <1>1, <1>2, <1>3, <1>4, <1>5, <1>6, <1>7 DEF Next

(* The invariant of sched.rs holds in every reachable state. *)
THEOREM Invariance == Spec => []IInv
  BY InitInv, InductiveInv, PTL DEF Spec

(* Every variable of the scheduler keeps its type. *)
THEOREM TypeCorrect == Spec => []TypeOK
<1>1. IInv => TypeOK
  BY DEF IInv
<1> QED
  BY <1>1, Invariance, PTL

(* No ready thread is lost and none is queued twice, with any number of    *)
(* threads (Scheduler.ready, sched.rs).                                    *)
THEOREM NoThreadLost == Spec => []ReadyQueueExact
<1>1. IInv => ReadyQueueExact
  BY DEF IInv
<1> QED
  BY <1>1, Invariance, PTL

(* Deferred actions reach the idle thread only (sched.rs:234). *)
THEOREM DeferredReachesIdle == Spec => []DeferredToIdle
<1>1. IInv => DeferredToIdle
  BY DEF IInv
<1> QED
  BY <1>1, Invariance, PTL

(* No live thread's id is handed out again (IdSparseVec::insert). *)
THEOREM NoLiveIdReused == Spec => []FreeListExact
<1>1. IInv => FreeListExact
  BY DEF IInv
<1> QED
  BY <1>1, Invariance, PTL

(* The assertions of sched() never fail (sched.rs:229-232). *)
THEOREM SchedNeverPanics == Spec => []SchedAssertions
<1>1. ASSUME IInv PROVE SchedAssertions
  <2> SUFFICES ASSUME NEW reason \in SchedReason, pc \in {"free", "continue"},
                      current = IDLE => reason = "Yielding", ~ YieldToNobody(reason)
               PROVE  /\ current # NextThread(reason)
                      /\ threads[current] = "Running"
                      /\ threads[NextThread(reason)] = "Ready"
    BY DEF SchedAssertions
  <2>1. deferred = None
    BY <1>1 DEF IInv, DeferredToIdle
  <2>2. SwitchPossible(reason)
    BY <2>1 DEF SwitchPossible
  <2> QED
    BY <1>1, <2>2, NextThreadIsReady
<1> QED
  BY <1>1, Invariance, PTL

(* A thread is removed only after it exited and never from under the CPU   *)
(* (clean_up, sched.rs:121-125 and 246-247).                               *)
THEOREM RemovalIsSafe == Spec => RemovedOnlyAfterExit
<1> DEFINE Removal ==
      \A t \in ThreadId :
        threads[t] # "Vacant" /\ threads'[t] = "Vacant"
        => threads[t] = "Exiting" /\ current = IDLE /\ t # IDLE
<1>1. ASSUME IInv, [Next]_vars PROVE [Removal]_vars
  <2> SUFFICES ASSUME Next, NEW t \in ThreadId,
                      threads[t] # "Vacant", threads'[t] = "Vacant"
               PROVE  threads[t] = "Exiting" /\ current = IDLE /\ t # IDLE
    BY <1>1
  <2> USE <1>1
  <2>1. threads \in [ThreadId -> ThreadState \cup {"Vacant"}]
    BY DEF IInv, TypeOK
  <2>2. CASE Spawn \/ \E u \in ThreadId : Wake(u)
    BY <2>1, <2>2 DEF Spawn, Wake
  <2>3. ASSUME NEW reason \in SchedReason, Switch(reason) PROVE FALSE
    BY <2>1, <2>3 DEF Switch, StateAfter, SchedReason
  <2>4. CASE CleanUp
    <3>1. t = deferred
      BY <2>1, <2>4 DEF CleanUp
    <3> QED
      BY <2>4, <3>1 DEF CleanUp, IInv, DeferredToIdle, IdleAvailable
  <2> QED
    BY <2>2, <2>3, <2>4 DEF Next, Sched, Resume, Again, SchedReason
<1> QED
  BY <1>1, Invariance, PTL DEF Spec, RemovedOnlyAfterExit
=============================================================================
