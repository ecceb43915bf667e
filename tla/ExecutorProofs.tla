--------------------------- MODULE ExecutorProofs ---------------------------
(***************************************************************************)
(* The ready list of Executor is exact and no wake-up is lost, for every   *)
(* size of the task table, all delays and any number of timers.            *)
(***************************************************************************)
EXTENDS Executor, OperatorProofs

(* ReadyListExact and WakeupsKept are inductive together. *)
IInv == ReadyListExact /\ WakeupsKept

States == {"Vacant", "Executing", "ExecutingAndAwoken", "Ready", "Paused"}

(* A task id is a natural number; the types of the timers. *)
LEMMA TypeFacts ==
  ASSUME TypeOK
  PROVE  /\ \A t \in TaskId : t \in Nat
         /\ len \in Nat
         /\ tasks \in [TaskId -> States]
         /\ IsTimers(TaskId, timers)
  BY ExecutorAssumption DEF TypeOK, TaskId, States, IsTimers

(* The boot state satisfies the invariant. *)
LEMMA InitInv == Init => IInv
<1> SUFFICES ASSUME Init PROVE IInv
  OBVIOUS
<1> USE ExecutorAssumption DEF Init
<1>1. TypeOK
  BY DEF TypeOK, TaskId
<1>2. ReadyListExact
  BY DEF ReadyListExact, Distinct, Holds, TaskId
<1>3. PausedHasTimer /\ SleepHasTimer /\ PollHasTimer
  BY DEF PausedHasTimer, SleepHasTimer, PollHasTimer
<1> QED
  BY <1>1, <1>2, <1>3 DEF IInv, WakeupsKept

(* spawn() takes a vacant slot and queues it. *)
LEMMA SpawnInv == ASSUME IInv, Spawn PROVE IInv'
<1> DEFINE id == InsertedId
<1>1. TypeOK /\ ReadyListExact /\ PausedHasTimer /\ SleepHasTimer /\ PollHasTimer
  BY DEF IInv, WakeupsKept
<1>2. (\A t \in TaskId : t \in Nat) /\ len \in Nat /\ tasks \in [TaskId -> States]
  BY <1>1, TypeFacts
<1>3. id \in TaskId /\ tasks[id] = "Vacant"
  <2>1. CASE free # <<>>
    <3>1. Head(free) \in TaskId /\ Holds(free, Head(free))
      BY <1>1, <2>1, PopFront DEF TypeOK, ReadyListExact
    <3> QED
      BY <1>1, <2>1, <3>1 DEF InsertedId, ReadyListExact
  <2>2. CASE free = <<>>
    <3>1. len \in TaskId
      BY <1>2, <2>2, ExecutorAssumption DEF Spawn, TaskId
    <3> QED
      BY <1>1, <1>2, <2>2, <3>1 DEF InsertedId, ReadyListExact
  <2> QED
    BY <2>1, <2>2
<1>4. ~ Holds(ready, id)
  BY <1>1, <1>3 DEF ReadyListExact
<1>5. /\ tasks' = [tasks EXCEPT ![id] = "Ready"]
      /\ left' = [left EXCEPT ![id] = 0]
      /\ ready' = Append(ready, id)
      /\ pc' = IF pc = "wait" THEN "look" ELSE pc
      /\ UNCHANGED <<cur, polled, timers, draining>>
  BY DEF Spawn, WakeExecutor
<1>6. /\ ready' \in Seq(TaskId)
      /\ Distinct(ready')
      /\ \A t : Holds(ready', t) <=> Holds(ready, t) \/ t = id
  BY <1>1, <1>3, <1>4, <1>5, PushBack DEF TypeOK, ReadyListExact
<1>7. /\ len' \in 0 .. MaxTasks
      /\ free' \in Seq(TaskId)
      /\ Distinct(free')
      /\ \A t \in TaskId : Holds(free', t) <=> Holds(free, t) /\ t # id
      /\ \A t \in TaskId : t < len' <=> t < len \/ t = id
  <2>1. CASE free # <<>>
    <3>1. free' = Tail(free) /\ len' = len /\ id = Head(free)
      BY <2>1 DEF Spawn, InsertedId
    <3>2. Holds(free, id) /\ free' \in Seq(TaskId) /\ Distinct(free')
          /\ \A t : Holds(free', t) <=> Holds(free, t) /\ t # id
      BY <1>1, <2>1, <3>1, PopFront DEF TypeOK, ReadyListExact
    <3>3. id < len
      BY <1>1, <1>3, <3>2 DEF ReadyListExact
    <3> QED
      BY <1>1, <3>1, <3>2, <3>3 DEF TypeOK
  <2>2. CASE free = <<>>
    <3>1. free' = free /\ len' = len + 1 /\ id = len /\ len < MaxTasks
      BY <2>2 DEF Spawn, InsertedId
    <3>2. \A t : ~ Holds(free, t)
      BY <2>2 DEF Holds
    <3> QED
      BY <1>1, <1>2, <3>1, <3>2, ExecutorAssumption DEF TypeOK, ReadyListExact, TaskId
  <2> QED
    BY <2>1, <2>2
<1> HIDE DEF id
<1>8. TypeOK'
  BY <1>1, <1>3, <1>5, <1>6, <1>7 DEF TypeOK
<1>9. ASSUME NEW t \in TaskId
      PROVE  tasks'[t] = (IF t = id THEN "Ready" ELSE tasks[t])
             /\ left'[t] = (IF t = id THEN 0 ELSE left[t])
  BY <1>1, <1>3, <1>5 DEF TypeOK
<1>10. ready' # <<>>
  <2>1. Holds(ready', id)
    BY <1>6
  <2> QED
    BY <2>1 DEF Holds
<1>11. id # cur \/ pc \notin {"poll", "done", "pending"}
  BY <1>1, <1>3 DEF ReadyListExact
<1>12. ReadyListExact'
  <2>1. ASSUME NEW t \in TaskId
        PROVE  /\ Holds(ready', t) <=> tasks'[t] = "Ready"
               /\ tasks'[t] \in {"Executing", "ExecutingAndAwoken"}
                    <=> pc' \in {"poll", "done", "pending"} /\ t = cur'
               /\ Holds(free', t) <=> tasks'[t] = "Vacant" /\ t < len'
               /\ t >= len' => tasks'[t] = "Vacant"
    <3>1. t \in Nat /\ len \in Nat /\ len' \in Nat
      BY <1>2, <1>7
    <3>2. CASE t = id
      BY <1>3, <1>5, <1>6, <1>7, <1>9, <1>11, <3>1, <3>2
    <3>3. CASE t # id
      BY <1>1, <1>5, <1>6, <1>7, <1>9, <3>1, <3>3 DEF ReadyListExact
    <3> QED
      BY <3>2, <3>3
  <2>2. pc' # "wait"
    BY <1>1, <1>5 DEF TypeOK
  <2> QED
    BY <1>6, <1>7, <2>1, <2>2 DEF ReadyListExact
<1>13. \A t : HasTimer(t)' <=> HasTimer(t)
  BY <1>5 DEF HasTimer
<1>14. PausedHasTimer'
  BY <1>1, <1>9, <1>13 DEF PausedHasTimer
<1>15. SleepHasTimer'
  <2>1. ASSUME NEW t \in TaskId, left'[t] > 0 PROVE t # id
    BY <1>9, <2>1
  <2> QED
    BY <1>1, <1>5, <1>9, <2>1 DEF SleepHasTimer
<1>16. PollHasTimer'
  BY <1>1, <1>5, <1>9, <1>13 DEF PollHasTimer, TypeOK
<1> QED
  BY <1>8, <1>12, <1>14, <1>15, <1>16 DEF IInv, WakeupsKept
(* sleep_until() finds no ready task and the executor thread waits. *)
LEMMA SleepUntilInv == ASSUME IInv, SleepUntil PROVE IInv'
<1> USE DEF SleepUntil
<1>1. TypeOK /\ ReadyListExact /\ PausedHasTimer /\ SleepHasTimer /\ PollHasTimer
  BY DEF IInv, WakeupsKept
<1>2. TypeOK'
  BY <1>1 DEF TypeOK
<1>3. ReadyListExact'
  BY <1>1 DEF ReadyListExact
<1>4. PausedHasTimer' /\ SleepHasTimer' /\ PollHasTimer'
  BY <1>1 DEF PausedHasTimer, SleepHasTimer, PollHasTimer, HasTimer
<1> QED
  BY <1>2, <1>3, <1>4 DEF IInv, WakeupsKept

(* executor_thread takes the first ready task out to be polled. *)
LEMMA TakeTaskInv == ASSUME IInv, TakeTask PROVE IInv'
<1>1. TypeOK /\ ReadyListExact /\ PausedHasTimer /\ SleepHasTimer /\ PollHasTimer
  BY DEF IInv, WakeupsKept
<1>2. /\ cur' \in TaskId /\ Holds(ready, cur') /\ ready' \in Seq(TaskId) /\ Distinct(ready')
      /\ \A t : Holds(ready', t) <=> Holds(ready, t) /\ t # cur'
  BY <1>1, PopFront DEF TakeTask, TypeOK, ReadyListExact
<1>3. /\ tasks' = [tasks EXCEPT ![cur'] = "Executing"]
      /\ pc = "look" /\ pc' = "poll" /\ polled' = {}
      /\ UNCHANGED <<len, free, left, timers, draining>>
  BY DEF TakeTask
<1>4. tasks[cur'] = "Ready"
  BY <1>1, <1>2 DEF ReadyListExact
<1>5. TypeOK'
  BY <1>1, <1>2, <1>3 DEF TypeOK
<1>6. \A t \in TaskId : tasks'[t] = IF t = cur' THEN "Executing" ELSE tasks[t]
  BY <1>1, <1>2, <1>3 DEF TypeOK
<1>7. ReadyListExact'
  <2>1. ASSUME NEW t \in TaskId
        PROVE  /\ Holds(ready', t) <=> tasks'[t] = "Ready"
               /\ tasks'[t] \in {"Executing", "ExecutingAndAwoken"}
                    <=> pc' \in {"poll", "done", "pending"} /\ t = cur'
               /\ Holds(free', t) <=> tasks'[t] = "Vacant" /\ t < len'
               /\ t >= len' => tasks'[t] = "Vacant"
    <3>1. CASE t = cur'
      BY <1>1, <1>2, <1>3, <1>4, <1>6, <3>1 DEF ReadyListExact
    <3>2. CASE t # cur'
      BY <1>1, <1>2, <1>3, <1>6, <3>2 DEF ReadyListExact
    <3> QED
      BY <3>1, <3>2
  <2> QED
    BY <1>1, <1>2, <1>3, <2>1 DEF ReadyListExact
<1>8. PausedHasTimer' /\ SleepHasTimer' /\ PollHasTimer'
  BY <1>1, <1>3, <1>6 DEF PausedHasTimer, SleepHasTimer, PollHasTimer, HasTimer
<1> QED
  BY <1>5, <1>7, <1>8 DEF IInv, WakeupsKept

(* Poll::Ready: the slot of the task becomes vacant and goes to the free list. *)
LEMMA RemoveTaskInv == ASSUME IInv, RemoveTask PROVE IInv'
<1>1. TypeOK /\ ReadyListExact /\ PausedHasTimer /\ SleepHasTimer /\ PollHasTimer
  BY DEF IInv, WakeupsKept
<1>2. /\ tasks' = [tasks EXCEPT ![cur] = "Vacant"]
      /\ free' = Append(free, cur)
      /\ pc = "done" /\ pc' = "look"
      /\ UNCHANGED <<len, ready, cur, polled, left, timers, draining>>
  BY DEF RemoveTask, RemoveSlot
<1>3. cur \in TaskId /\ tasks[cur] \in {"Executing", "ExecutingAndAwoken"}
  BY <1>1, <1>2 DEF TypeOK, ReadyListExact
<1>4. cur < len
  BY <1>1, <1>3, TypeFacts DEF ReadyListExact
<1>5. /\ free' \in Seq(TaskId) /\ Distinct(free')
      /\ \A t : Holds(free', t) <=> Holds(free, t) \/ t = cur
  <2>1. ~ Holds(free, cur)
    BY <1>1, <1>3 DEF ReadyListExact
  <2> QED
    BY <1>1, <1>2, <1>3, <2>1, PushBack DEF TypeOK, ReadyListExact
<1>6. TypeOK'
  BY <1>1, <1>2, <1>3, <1>5 DEF TypeOK
<1>7. \A t \in TaskId : tasks'[t] = IF t = cur THEN "Vacant" ELSE tasks[t]
  BY <1>1, <1>2, <1>3 DEF TypeOK
<1>8. ReadyListExact'
  <2>1. ASSUME NEW t \in TaskId
        PROVE  /\ Holds(ready', t) <=> tasks'[t] = "Ready"
               /\ tasks'[t] \in {"Executing", "ExecutingAndAwoken"}
                    <=> pc' \in {"poll", "done", "pending"} /\ t = cur'
               /\ Holds(free', t) <=> tasks'[t] = "Vacant" /\ t < len'
               /\ t >= len' => tasks'[t] = "Vacant"
    <3>1. CASE t = cur
      BY <1>1, <1>2, <1>3, <1>4, <1>5, <1>7, <3>1 DEF ReadyListExact
    <3>2. CASE t # cur
      BY <1>1, <1>2, <1>5, <1>7, <3>2 DEF ReadyListExact
    <3> QED
      BY <3>1, <3>2
  <2> QED
    BY <1>1, <1>2, <1>5, <2>1 DEF ReadyListExact
<1>9. PausedHasTimer' /\ SleepHasTimer' /\ PollHasTimer'
  BY <1>1, <1>2, <1>7 DEF PausedHasTimer, SleepHasTimer, PollHasTimer, HasTimer
<1> QED
  BY <1>6, <1>8, <1>9 DEF IInv, WakeupsKept

(* Poll::Pending: the task is paused, or queued if it was woken meanwhile. *)
LEMMA PutBackInv == ASSUME IInv, PutBack PROVE IInv'
<1>1. TypeOK /\ ReadyListExact /\ PausedHasTimer /\ SleepHasTimer /\ PollHasTimer
  BY DEF IInv, WakeupsKept
<1>2. pc = "pending" /\ pc' = "look" /\ UNCHANGED <<len, free, cur, polled, left, timers, draining>>
  BY DEF PutBack
<1>3. cur \in TaskId
  BY <1>1 DEF TypeOK
<1> DEFINE state == IF tasks[cur] = "Executing" THEN "Paused" ELSE "Ready"
<1>4. tasks' = [tasks EXCEPT ![cur] = state]
  BY DEF PutBack
<1>5. /\ ready' \in Seq(TaskId) /\ Distinct(ready')
      /\ \A t : Holds(ready', t) <=> Holds(ready, t) \/ (t = cur /\ state = "Ready")
  <2>1. CASE tasks[cur] = "Executing"
    <3>1. ready' = ready
      BY <2>1 DEF PutBack
    <3> QED
      BY <1>1, <2>1, <3>1 DEF TypeOK, ReadyListExact
  <2>2. CASE tasks[cur] # "Executing"
    <3>1. ready' = Append(ready, cur) /\ tasks[cur] = "ExecutingAndAwoken"
      BY <2>2 DEF PutBack
    <3>2. ~ Holds(ready, cur)
      BY <1>1, <1>3, <3>1 DEF ReadyListExact
    <3> QED
      BY <1>1, <1>3, <2>2, <3>1, <3>2, PushBack DEF TypeOK, ReadyListExact
  <2> QED
    BY <2>1, <2>2
<1>6. state \in {"Paused", "Ready"} /\ (state = "Paused" => tasks[cur] = "Executing")
  OBVIOUS
<1>7. tasks[cur] \in {"Executing", "ExecutingAndAwoken"}
  BY <1>1, <1>2, <1>3 DEF ReadyListExact
<1> HIDE DEF state
<1>8. TypeOK'
  BY <1>1, <1>2, <1>3, <1>4, <1>5, <1>6 DEF TypeOK
<1>9. \A t \in TaskId : tasks'[t] = IF t = cur THEN state ELSE tasks[t]
  BY <1>1, <1>3, <1>4 DEF TypeOK
<1>10. ReadyListExact'
  <2>1. ASSUME NEW t \in TaskId
        PROVE  /\ Holds(ready', t) <=> tasks'[t] = "Ready"
               /\ tasks'[t] \in {"Executing", "ExecutingAndAwoken"}
                    <=> pc' \in {"poll", "done", "pending"} /\ t = cur'
               /\ Holds(free', t) <=> tasks'[t] = "Vacant" /\ t < len'
               /\ t >= len' => tasks'[t] = "Vacant"
    <3>1. CASE t = cur
      BY <1>1, <1>2, <1>5, <1>6, <1>7, <1>9, <3>1 DEF ReadyListExact
    <3>2. CASE t # cur
      BY <1>1, <1>2, <1>5, <1>9, <3>2 DEF ReadyListExact
    <3> QED
      BY <3>1, <3>2
  <2> QED
    BY <1>1, <1>2, <1>5, <2>1 DEF ReadyListExact
<1>11. PausedHasTimer' /\ SleepHasTimer' /\ PollHasTimer'
  BY <1>1, <1>2, <1>6, <1>9 DEF PausedHasTimer, SleepHasTimer, PollHasTimer, HasTimer
<1> QED
  BY <1>8, <1>10, <1>11 DEF IInv, WakeupsKept

(* Executor::wake() keeps the ready list exact, whatever state the task is *)
(* in: a stale waker finds a task that is vacant, ready or being polled.   *)
LEMMA WakeExact ==
  ASSUME TypeOK, ReadyListExact, NEW c \in TaskId, Wake(c), UNCHANGED <<len, free, cur>>
  PROVE  /\ ReadyListExact'
         /\ tasks' \in [TaskId -> States]
         /\ ready' \in Seq(TaskId)
         /\ pc' \in {"look", "wait", "poll", "done", "pending"}
         /\ pc' \in {"poll", "pending"} => pc' = pc
         /\ \A t \in TaskId : t # c => tasks'[t] = tasks[t]
         /\ tasks'[c] \notin {"Paused", "Executing"}
<1> DEFINE state == CASE tasks[c] = "Executing" -> "ExecutingAndAwoken"
                      [] tasks[c] = "Paused" -> "Ready"
                      [] OTHER -> tasks[c]
<1>1. tasks \in [TaskId -> States] /\ tasks[c] \in States
  BY DEF TypeOK, States
<1>2. /\ state \in States \ {"Paused", "Executing"}
      /\ state = "Vacant" <=> tasks[c] = "Vacant"
      /\ state = "Ready" <=> tasks[c] \in {"Ready", "Paused"}
      /\ state = "ExecutingAndAwoken" <=> tasks[c] \in {"Executing", "ExecutingAndAwoken"}
  BY <1>1 DEF States
<1>3. tasks' = [tasks EXCEPT ![c] = state]
  BY DEF Wake
<1> HIDE DEF state
<1>4. \A t \in TaskId : tasks'[t] = IF t = c THEN state ELSE tasks[t]
  BY <1>1, <1>3
<1>5. /\ ready' \in Seq(TaskId) /\ Distinct(ready')
      /\ \A t : Holds(ready', t) <=> Holds(ready, t) \/ (t = c /\ tasks[c] = "Paused")
  <2>1. CASE tasks[c] = "Paused"
    <3>1. ready' = Append(ready, c) /\ ~ Holds(ready, c)
      BY <2>1 DEF Wake, ReadyListExact
    <3> QED
      BY <2>1, <3>1, PushBack DEF TypeOK, ReadyListExact
  <2>2. CASE tasks[c] # "Paused"
    <3>1. ready' = ready
      BY <2>2 DEF Wake
    <3> QED
      BY <2>2, <3>1 DEF TypeOK, ReadyListExact
  <2> QED
    BY <2>1, <2>2
<1>6. /\ pc' = IF tasks[c] = "Paused" /\ pc = "wait" THEN "look" ELSE pc
      /\ pc \in {"look", "wait", "poll", "done", "pending"}
  BY DEF Wake, WakeExecutor, TypeOK
<1>7. pc' = "wait" => ready' = <<>>
  BY <1>6 DEF Wake, ReadyListExact
<1>8. ASSUME NEW t \in TaskId
      PROVE  /\ Holds(ready', t) <=> tasks'[t] = "Ready"
             /\ tasks'[t] \in {"Executing", "ExecutingAndAwoken"}
                  <=> pc' \in {"poll", "done", "pending"} /\ t = cur'
             /\ Holds(free', t) <=> tasks'[t] = "Vacant" /\ t < len'
             /\ t >= len' => tasks'[t] = "Vacant"
  <2>1. CASE t = c
    BY <1>2, <1>4, <1>5, <1>6, <2>1 DEF ReadyListExact
  <2>2. CASE t # c
    BY <1>4, <1>5, <1>6, <2>2 DEF ReadyListExact
  <2> QED
    BY <2>1, <2>2
<1>9. ReadyListExact'
  BY <1>5, <1>7, <1>8 DEF ReadyListExact
<1> QED
  BY <1>1, <1>2, <1>3, <1>4, <1>5, <1>6, <1>9

(* YieldFuture wakes the task that is being polled. *)
LEMMA PollYieldInv == ASSUME IInv, PollYield PROVE IInv'
<1>1. TypeOK /\ ReadyListExact /\ PausedHasTimer /\ SleepHasTimer /\ PollHasTimer
  BY DEF IInv, WakeupsKept
<1>2. /\ cur \in TaskId /\ Wake(cur) /\ polled' = polled \cup {"yield"}
      /\ UNCHANGED <<len, free, cur, left, timers, draining>>
  BY <1>1 DEF PollYield, TypeOK
<1>3. /\ ReadyListExact'
      /\ tasks' \in [TaskId -> States] /\ ready' \in Seq(TaskId)
      /\ pc' \in {"look", "wait", "poll", "done", "pending"}
      /\ \A t \in TaskId : t # cur => tasks'[t] = tasks[t]
      /\ tasks'[cur] \notin {"Paused", "Executing"}
  BY <1>1, <1>2, WakeExact
<1>4. TypeOK'
  BY <1>1, <1>2, <1>3 DEF TypeOK, States
<1>5. PausedHasTimer' /\ SleepHasTimer' /\ PollHasTimer'
  BY <1>1, <1>2, <1>3 DEF PausedHasTimer, SleepHasTimer, PollHasTimer, HasTimer
<1> QED
  BY <1>3, <1>4, <1>5 DEF IInv, WakeupsKept

(* SleepFuture queues a timer for the task that is being polled.  No timer *)
(* of another task is lost or comes earlier (InsertDue).                   *)
LEMMA PollSleepInv == ASSUME IInv, NEW d \in Delays, PollSleep(d) PROVE IInv'
<1>1. TypeOK /\ ReadyListExact /\ PausedHasTimer /\ SleepHasTimer /\ PollHasTimer
  BY DEF IInv, WakeupsKept
<1>2. /\ pc = "poll" /\ cur \in TaskId /\ d \in Nat
      /\ timers' = InsertTimer(timers, d, cur)
      /\ left' = [left EXCEPT ![cur] = d]
      /\ polled' = polled \cup {"sleep"}
      /\ UNCHANGED <<tasks, len, free, ready, pc, cur, draining>>
  BY <1>1, ExecutorAssumption DEF PollSleep, TypeOK
<1> DEFINE at == InsertIndex(timers, d)
           n == Len(timers)
<1>3. IsTimers(TaskId, timers)
  BY <1>1, TypeFacts
<1>4. /\ IsTimers(TaskId, timers')
      /\ n \in Nat /\ Len(timers') = n + 1
      /\ at \in 1 .. n + 1 /\ timers'[at].closure = cur /\ DueIn(timers', at) = d
      /\ \A i \in 1 .. at - 1 : timers'[i] = timers[i] /\ DueIn(timers', i) = DueIn(timers, i)
      /\ \A i \in at .. n : /\ timers'[i + 1].closure = timers[i].closure
                            /\ DueIn(timers', i + 1) = DueIn(timers, i)
  <2>1. IsInsertion(TaskId, timers, d, cur, at, timers')
    BY <1>2, <1>3, InsertDue
  <2> HIDE DEF at
  <2> QED
    BY <2>1 DEF IsInsertion
<1> HIDE DEF at, n
<1>5. TypeOK'
  <2>1. timers' \in Seq([delta : Nat, closure : TaskId])
    BY <1>4 DEF IsTimers
  <2> QED
    BY <1>1, <1>2, <2>1 DEF TypeOK
<1>6. ReadyListExact'
  BY <1>1, <1>2 DEF ReadyListExact
<1>7. ASSUME NEW i \in 1 .. n
      PROVE  \E j \in 1 .. n + 1 : /\ timers'[j].closure = timers[i].closure
                                   /\ DueIn(timers', j) = DueIn(timers, i)
  <2>1. CASE i < at
    BY <1>4, <2>1
  <2>2. CASE i >= at
    <3>1. i \in at .. n /\ i + 1 \in 1 .. n + 1
      BY <1>4, <2>2
    <3> QED
      BY <1>4, <3>1
  <2> QED
    BY <1>4, <2>1, <2>2
<1>8. \A t \in TaskId : HasTimer(t) => HasTimer(t)'
  BY <1>4, <1>7 DEF HasTimer, n
<1>9. HasTimer(cur)'
  BY <1>2, <1>4 DEF HasTimer
<1>10. PausedHasTimer' /\ PollHasTimer'
  BY <1>1, <1>2, <1>8, <1>9 DEF PausedHasTimer, PollHasTimer
<1>11. SleepHasTimer'
  <2> SUFFICES ASSUME NEW t \in TaskId, left'[t] > 0
               PROVE  \E j \in 1 .. n + 1 : timers'[j].closure = t /\ DueIn(timers', j) >= left'[t]
    BY <1>4 DEF SleepHasTimer
  <2>1. CASE t = cur
    <3>1. left'[t] = d
      BY <1>1, <1>2, <2>1 DEF TypeOK
    <3> QED
      BY <1>2, <1>4, <2>1, <3>1
  <2>2. CASE t # cur
    <3>1. left'[t] = left[t]
      BY <1>1, <1>2, <2>2 DEF TypeOK
    <3>2. PICK i \in 1 .. n : timers[i].closure = t /\ DueIn(timers, i) >= left[t]
      BY <1>1, <3>1 DEF SleepHasTimer, n
    <3> QED
      BY <1>7, <3>1, <3>2
  <2> QED
    BY <2>1, <2>2
<1> QED
  BY <1>5, <1>6, <1>10, <1>11 DEF IInv, WakeupsKept

(* The body of the task ends. *)
LEMMA PollReadyInv == ASSUME IInv, PollReady PROVE IInv'
<1> USE DEF PollReady
<1>1. TypeOK /\ ReadyListExact /\ PausedHasTimer /\ SleepHasTimer /\ PollHasTimer
  BY DEF IInv, WakeupsKept
<1>2. TypeOK'
  BY <1>1 DEF TypeOK
<1>3. ReadyListExact'
  BY <1>1 DEF ReadyListExact
<1>4. PausedHasTimer' /\ PollHasTimer'
  BY <1>1 DEF PausedHasTimer, PollHasTimer, HasTimer
<1>5. SleepHasTimer'
  <2>1. \A t \in TaskId : left'[t] = IF t = cur THEN 0 ELSE left[t]
    BY <1>1 DEF TypeOK
  <2> QED
    BY <1>1, <2>1 DEF SleepHasTimer
<1> QED
  BY <1>2, <1>3, <1>4, <1>5 DEF IInv, WakeupsKept

(* A future pends only after it has yielded, or with a timer running. *)
LEMMA PollPendingInv == ASSUME IInv, PollPending PROVE IInv'
<1> USE DEF PollPending
<1>1. TypeOK /\ ReadyListExact /\ PausedHasTimer /\ SleepHasTimer /\ PollHasTimer
  BY DEF IInv, WakeupsKept
<1>2. TypeOK'
  BY <1>1 DEF TypeOK
<1>3. ReadyListExact'
  BY <1>1 DEF ReadyListExact
<1>4. PausedHasTimer' /\ SleepHasTimer'
  BY <1>1 DEF PausedHasTimer, SleepHasTimer, HasTimer
<1>5. PollHasTimer'
  <2> SUFFICES ASSUME tasks[cur] = "Executing"
               PROVE  "yield" \notin polled /\ HasTimer(cur)
    BY DEF PollHasTimer, HasTimer
  <2>1. "yield" \notin polled /\ ("sleep" \in polled => HasTimer(cur))
    BY <1>1 DEF PollHasTimer
  <2>2. left[cur] > 0 => HasTimer(cur)
    BY <1>1 DEF SleepHasTimer, HasTimer, TypeOK
  <2> QED
    BY <1>1, <2>1, <2>2 DEF TypeOK
<1> QED
  BY <1>2, <1>3, <1>4, <1>5 DEF IInv, WakeupsKept

(* tick(): a timer comes at most one tick closer, as the target does. *)
LEMMA TimerTickInv == ASSUME IInv, TimerTick PROVE IInv'
<1>1. TypeOK /\ ReadyListExact /\ PausedHasTimer /\ SleepHasTimer /\ PollHasTimer
  BY DEF IInv, WakeupsKept
<1>2. /\ timers' = TickQueue(timers)
      /\ left' = [t \in TaskId |-> IF left[t] > 0 THEN left[t] - 1 ELSE 0]
      /\ draining' = TRUE
      /\ UNCHANGED <<tasks, len, free, ready, pc, cur, polled>>
  BY DEF TimerTick
<1> DEFINE n == Len(timers)
<1>3. /\ IsTimers(TaskId, timers')
      /\ Len(timers') = n
      /\ \A i \in 1 .. n : /\ timers'[i].closure = timers[i].closure
                           /\ DueIn(timers', i) >= DueIn(timers, i) - 1
  BY <1>1, <1>2, TypeFacts, TickDue
<1>4. \A i \in 1 .. n : DueIn(timers, i) \in Nat /\ DueIn(timers', i) \in Nat
  <2>1. n \in Nat /\ \A i \in 0 .. n : DueIn(timers, i) \in Nat
    BY <1>1, TypeFacts, EventsOf
  <2>2. \A i \in 0 .. Len(timers') : DueIn(timers', i) \in Nat
    BY <1>3, EventsOf
  <2> HIDE DEF n
  <2> QED
    BY <1>3, <2>1, <2>2
<1> HIDE DEF n
<1>5. \A t \in TaskId : left[t] \in Nat /\ left'[t] = IF left[t] > 0 THEN left[t] - 1 ELSE 0
  BY <1>1, <1>2 DEF TypeOK
<1>6. TypeOK'
  <2>1. timers' \in Seq([delta : Nat, closure : TaskId])
    BY <1>3 DEF IsTimers
  <2>2. left' \in [TaskId -> Nat]
    BY <1>2, <1>5
  <2> QED
    BY <1>1, <1>2, <2>1, <2>2 DEF TypeOK
<1>7. ReadyListExact'
  BY <1>1, <1>2 DEF ReadyListExact
<1>8. \A t : HasTimer(t)' <=> HasTimer(t)
  BY <1>3 DEF HasTimer, n
<1>9. PausedHasTimer' /\ PollHasTimer'
  BY <1>1, <1>2, <1>8 DEF PausedHasTimer, PollHasTimer
<1>10. SleepHasTimer'
  <2> SUFFICES ASSUME NEW t \in TaskId, left'[t] > 0
               PROVE  \E i \in 1 .. n : timers'[i].closure = t /\ DueIn(timers', i) >= left'[t]
    BY <1>3 DEF SleepHasTimer
  <2>1. left[t] \in Nat /\ left[t] > 0 /\ left'[t] = left[t] - 1
    BY <1>5
  <2>2. PICK i \in 1 .. n : timers[i].closure = t /\ DueIn(timers, i) >= left[t]
    BY <1>1, <2>1 DEF SleepHasTimer, n
  <2>3. timers'[i].closure = t /\ DueIn(timers', i) >= left'[t]
    BY <1>3, <1>4, <2>1, <2>2
  <2> QED
    BY <2>3
<1> QED
  BY <1>6, <1>7, <1>9, <1>10 DEF IInv, WakeupsKept

(* pop_closure(): the first timer leaves the queue and wakes its task.  No *)
(* task still sleeps on it, since it is due now.                           *)
LEMMA PopClosureInv == ASSUME IInv, PopClosure PROVE IInv'
<1>1. TypeOK /\ ReadyListExact /\ PausedHasTimer /\ SleepHasTimer /\ PollHasTimer
  BY DEF IInv, WakeupsKept
<1> DEFINE c == timers[1].closure
           n == Len(timers)
<1>2. /\ timers # <<>> /\ timers[1].delta = 0
      /\ timers' = Tail(timers)
      /\ Wake(c)
      /\ UNCHANGED <<len, free, cur, polled, left, draining>>
  BY DEF PopClosure, FirstIsDue
<1>3. IsTimers(TaskId, timers)
  BY <1>1, TypeFacts
<1>4. /\ IsTimers(TaskId, timers')
      /\ n \in Nat /\ n >= 1
      /\ Len(timers') = n - 1
      /\ \A i \in 1 .. n - 1 : /\ timers'[i] = timers[i + 1]
                               /\ DueIn(timers', i) = DueIn(timers, i + 1) - 0
  BY <1>2, <1>3, TailDue
<1>5. DueIn(timers, 1) = 0
  BY <1>2, <1>3, <1>4, FirstDue
<1>6. c \in TaskId
  BY <1>3, <1>4, EventsOf
<1>7. \A i \in 1 .. n : DueIn(timers, i) \in Nat
  <2>1. \A i \in 0 .. n : DueIn(timers, i) \in Nat
    BY <1>3, EventsOf
  <2> HIDE DEF n
  <2> QED
    BY <1>4, <2>1
<1> HIDE DEF c, n
<1>8. /\ ReadyListExact'
      /\ tasks' \in [TaskId -> States] /\ ready' \in Seq(TaskId)
      /\ pc' \in {"look", "wait", "poll", "done", "pending"}
      /\ pc' \in {"poll", "pending"} => pc' = pc
      /\ \A t \in TaskId : t # c => tasks'[t] = tasks[t]
      /\ tasks'[c] \notin {"Paused", "Executing"}
  BY <1>1, <1>2, <1>6, WakeExact
<1>9. TypeOK'
  <2>1. timers' \in Seq([delta : Nat, closure : TaskId])
    BY <1>4 DEF IsTimers
  <2> QED
    BY <1>1, <1>2, <1>8, <2>1 DEF TypeOK, States
<1>10. ASSUME NEW i \in 1 .. n, i # 1
       PROVE  /\ i - 1 \in 1 .. n - 1
              /\ timers'[i - 1] = timers[i]
              /\ DueIn(timers', i - 1) = DueIn(timers, i)
  <2>1. i - 1 \in 1 .. n - 1 /\ (i - 1) + 1 = i
    BY <1>4, <1>10
  <2>2. timers'[i - 1] = timers[(i - 1) + 1] /\ DueIn(timers', i - 1) = DueIn(timers, (i - 1) + 1) - 0
    BY <1>4, <2>1
  <2> QED
    BY <1>7, <2>1, <2>2
<1>11. ASSUME NEW t \in TaskId, HasTimer(t), t # c PROVE HasTimer(t)'
  <2>1. PICK i \in 1 .. n : timers[i].closure = t
    BY <1>11 DEF HasTimer, n
  <2>2. i # 1
    BY <1>11, <2>1 DEF c
  <2> QED
    BY <1>4, <1>10, <2>1, <2>2 DEF HasTimer
<1>12. PausedHasTimer'
  BY <1>1, <1>8, <1>11 DEF PausedHasTimer
<1>13. PollHasTimer'
  BY <1>1, <1>2, <1>8, <1>11 DEF PollHasTimer, TypeOK
<1>14. SleepHasTimer'
  <2> SUFFICES ASSUME NEW t \in TaskId, left[t] > 0
               PROVE  \E j \in 1 .. n - 1 : timers'[j].closure = t /\ DueIn(timers', j) >= left[t]
    BY <1>2, <1>4 DEF SleepHasTimer
  <2>1. PICK i \in 1 .. n : timers[i].closure = t /\ DueIn(timers, i) >= left[t]
    BY <1>1 DEF SleepHasTimer, n
  <2>2. left[t] \in Nat
    BY <1>1 DEF TypeOK
  <2>3. i # 1
    BY <1>5, <2>1, <2>2
  <2> QED
    BY <1>10, <2>1, <2>3
<1> QED
  BY <1>8, <1>9, <1>12, <1>13, <1>14 DEF IInv, WakeupsKept

(* The interrupt handler is done with the closures. *)
LEMMA DrainedInv == ASSUME IInv, Drained PROVE IInv'
<1> USE DEF Drained
<1>1. TypeOK /\ ReadyListExact /\ PausedHasTimer /\ SleepHasTimer /\ PollHasTimer
  BY DEF IInv, WakeupsKept
<1>2. TypeOK'
  BY <1>1 DEF TypeOK
<1>3. ReadyListExact'
  BY <1>1 DEF ReadyListExact
<1>4. PausedHasTimer' /\ SleepHasTimer' /\ PollHasTimer'
  BY <1>1 DEF PausedHasTimer, SleepHasTimer, PollHasTimer, HasTimer
<1> QED
  BY <1>2, <1>3, <1>4 DEF IInv, WakeupsKept

(* Every step of the executor, of its tasks and of the timer interrupt     *)
(* keeps the invariant.                                                    *)
LEMMA NextInv == IInv /\ [Next]_vars => IInv'
<1> SUFFICES ASSUME IInv, [Next]_vars PROVE IInv'
  OBVIOUS
<1>1. CASE UNCHANGED vars
  <2>1. TypeOK /\ ReadyListExact /\ PausedHasTimer /\ SleepHasTimer /\ PollHasTimer
    BY DEF IInv, WakeupsKept
  <2>2. TypeOK' /\ ReadyListExact'
    BY <1>1, <2>1 DEF TypeOK, ReadyListExact, vars
  <2>3. PausedHasTimer' /\ SleepHasTimer' /\ PollHasTimer'
    BY <1>1, <2>1 DEF PausedHasTimer, SleepHasTimer, PollHasTimer, HasTimer, vars
  <2> QED
    BY <2>2, <2>3 DEF IInv, WakeupsKept
<1>2. CASE Next
  BY <1>2, SpawnInv, SleepUntilInv, TakeTaskInv, RemoveTaskInv, PutBackInv, PollYieldInv,
     PollSleepInv, PollReadyInv, PollPendingInv, TimerTickInv, PopClosureInv, DrainedInv
     DEF Next, ExecutorThread, Handler
<1> QED
  BY <1>1, <1>2

(* The ready list and the free list of the executor are exact in every     *)
(* state, so none of executor_thread's panics and unwraps can fail.        *)
THEOREM ReadyListExactAlways == Spec => []ReadyListExact
<1>1. IInv => ReadyListExact
  BY DEF IInv
<1> QED
  BY InitInv, NextInv, <1>1, PTL DEF Spec

(* No wake-up is ever lost between wake(), the poll and the timer          *)
(* interrupt: a paused task has a timer, which is not too early.           *)
THEOREM WakeupsKeptAlways == Spec => []WakeupsKept
<1>1. IInv => WakeupsKept
  BY DEF IInv
<1> QED
  BY InitInv, NextInv, <1>1, PTL DEF Spec
=============================================================================
