------------------------------ MODULE Executor ------------------------------
(***************************************************************************)
(* The async executor of kernel/src/tasks.rs: tasks, their wakers, the     *)
(* executor thread, and the timer interrupt that wakes a task out of       *)
(* task_sleep.  A step is one critical section of EXECUTOR, one call a     *)
(* future makes while it is polled, or one closure run by the interrupt.   *)
(* EXECUTOR_WAIT.sleep_until is one step here: Kernel.tla opens it up and  *)
(* shows that it loses no wake-up.  The body of a task is any future made  *)
(* of task_yield and task_sleep; it may poll both at once, and may drop a  *)
(* sleep that is still running ("TODO: need to be able to cancel sleeps"). *)
(***************************************************************************)
EXTENDS Timers, Queues, FiniteSets

CONSTANTS
  MaxTasks,    \* bound: the task table never grows past this
  Delays,      \* delays of task_sleep in ticks
  MaxTimers    \* bound: events in the timer queue

ASSUME ExecutorAssumption ==
  /\ MaxTasks \in Nat \ {0}
  /\ IsFiniteSet(Delays) /\ \A d \in Delays : d \in Nat

TaskId == 0 .. MaxTasks - 1

VARIABLES
  tasks,    \* TaskState of each task; "Vacant" where the table has no task
  len,      \* IdSparseVec.list.len()
  free,     \* IdSparseVec.free
  ready,    \* Executor.ready
  pc,       \* executor_thread: "look" for a task, "wait" on EXECUTOR_WAIT, "poll",
            \* or back from it with Poll::Ready ("done") or Poll::Pending ("pending")
  cur,      \* the task polled last
  polled,   \* what this poll has awaited for the first time: "yield", "sleep"
  left,     \* ticks until the target of the sleep the task awaits; 0: reached, or none
  timers,   \* TIMER_QUEUE; the closure of an event is the task its waker wakes
  draining  \* the timer interrupt is running closures

vars == <<tasks, len, free, ready, pc, cur, polled, left, timers, draining>>

Init ==
  /\ tasks = [t \in TaskId |-> "Vacant"]
  /\ len = 0
  /\ free = <<>>
  /\ ready = <<>>
  /\ pc = "look"
  /\ cur = 0
  /\ polled = {}
  /\ left = [t \in TaskId |-> 0]
  /\ timers = <<>>
  /\ draining = FALSE

-----------------------------------------------------------------------------
(* Executor methods *)

InsertedId == IF free # <<>> THEN Head(free) ELSE len

(* EXECUTOR_WAIT.wake_one: the executor thread is the only waiter. *)
WakeExecutor == pc' = IF pc = "wait" THEN "look" ELSE pc

(* Executor::spawn, from any thread or from a task that is being polled. *)
Spawn ==
  /\ ~ draining
  /\ free # <<>> \/ len < MaxTasks
  /\ IF free # <<>> THEN free' = Tail(free) /\ len' = len
                    ELSE free' = free /\ len' = len + 1
  /\ tasks' = [tasks EXCEPT ![InsertedId] = "Ready"]
  /\ left' = [left EXCEPT ![InsertedId] = 0]
  /\ ready' = Append(ready, InsertedId)
  /\ WakeExecutor
  /\ UNCHANGED <<cur, polled, timers, draining>>

(* Bug: every wake-up queues the task, whatever its state. *)
BugWakeQueues(t) ==
  /\ tasks' = [tasks EXCEPT ![t] = IF @ = "Vacant" THEN "Vacant" ELSE "Ready"]
  /\ ready' = IF tasks[t] = "Vacant" THEN ready ELSE Append(ready, t)
  /\ WakeExecutor

(* Executor::wake: a stale waker's id may be vacant, or another task's by now. *)
Wake(t) ==
  /\ tasks' = [tasks EXCEPT ![t] = CASE @ = "Executing" -> "ExecutingAndAwoken"
                                     [] @ = "Paused" -> "Ready"
                                     [] OTHER -> @]
  /\ ready' = IF tasks[t] = "Paused" THEN Append(ready, t) ELSE ready
  /\ IF tasks[t] = "Paused" THEN WakeExecutor ELSE pc' = pc

-----------------------------------------------------------------------------
(* executor_thread *)

(* sleep_until's condition fails, and the thread waits ... *)
SleepUntil ==
  /\ ~ draining
  /\ pc = "look"
  /\ ready = <<>>
  /\ pc' = "wait"
  /\ UNCHANGED <<tasks, len, free, ready, cur, polled, left, timers, draining>>

(* Bug: the last ready task is taken. *)
BugTakesLast ==
  /\ ~ draining
  /\ pc = "look"
  /\ ready # <<>>
  /\ cur' = ready[Len(ready)]
  /\ ready' = SubSeq(ready, 1, Len(ready) - 1)
  /\ tasks' = [tasks EXCEPT ![cur'] = "Executing"]
  /\ pc' = "poll"
  /\ polled' = {}
  /\ UNCHANGED <<len, free, left, timers, draining>>

(* ... or it holds, and the first ready task is taken out to be polled. *)
TakeTask ==
  /\ ~ draining
  /\ pc = "look"
  /\ ready # <<>>
  /\ cur' = Head(ready)
  /\ ready' = Tail(ready)
  /\ tasks' = [tasks EXCEPT ![cur'] = "Executing"]
  /\ pc' = "poll"
  /\ polled' = {}
  /\ UNCHANGED <<len, free, left, timers, draining>>

(* IdSparseVec::remove *)
RemoveSlot(t) ==
  /\ tasks' = [tasks EXCEPT ![t] = "Vacant"]
  /\ free' = Append(free, t)

(* Poll::Ready: the task is removed. *)
RemoveTask ==
  /\ ~ draining
  /\ pc = "done"
  /\ RemoveSlot(cur)
  /\ pc' = "look"
  /\ UNCHANGED <<len, ready, cur, polled, left, timers, draining>>

(* Bug: the wake-up that came during the poll is forgotten. *)
BugForgetsAwoken ==
  /\ ~ draining
  /\ pc = "pending"
  /\ tasks' = [tasks EXCEPT ![cur] = "Paused"]
  /\ pc' = "look"
  /\ UNCHANGED <<len, free, ready, cur, polled, left, timers, draining>>

(* Poll::Pending: the task is put back, and queued if it was woken meanwhile. *)
PutBack ==
  /\ ~ draining
  /\ pc = "pending"
  /\ \/ /\ tasks[cur] = "Executing"
        /\ tasks' = [tasks EXCEPT ![cur] = "Paused"]
        /\ ready' = ready
     \/ /\ tasks[cur] = "ExecutingAndAwoken"
        /\ tasks' = [tasks EXCEPT ![cur] = "Ready"]
        /\ ready' = Append(ready, cur)
  /\ pc' = "look"
  /\ UNCHANGED <<len, free, cur, polled, left, timers, draining>>

-----------------------------------------------------------------------------
(* What a future does while it is polled *)

(* YieldFuture::NotYielded: the task wakes itself. *)
PollYield ==
  /\ ~ draining
  /\ pc = "poll"
  /\ "yield" \notin polled
  /\ Wake(cur)
  /\ polled' = polled \cup {"yield"}
  /\ UNCHANGED <<len, free, cur, left, timers, draining>>

(* SleepFuture::NotYet. *)
PollSleep(d) ==
  /\ ~ draining
  /\ pc = "poll"
  /\ "sleep" \notin polled
  /\ Len(timers) < MaxTimers
  /\ timers' = InsertTimer(timers, d, cur)
  /\ left' = [left EXCEPT ![cur] = d]
  /\ polled' = polled \cup {"sleep"}
  /\ UNCHANGED <<tasks, len, free, ready, pc, cur, draining>>

(* The body ends, dropping what it has not awaited to the end. *)
PollReady ==
  /\ ~ draining
  /\ pc = "poll"
  /\ pc' = "done"
  /\ left' = [left EXCEPT ![cur] = 0]
  /\ UNCHANGED <<tasks, len, free, ready, cur, polled, timers, draining>>

(* Bug: a sleep that was started before pends even after its target. *)
BugYetPends ==
  /\ ~ draining
  /\ pc = "poll"
  /\ pc' = "pending"
  /\ UNCHANGED <<tasks, len, free, ready, cur, polled, left, timers, draining>>

(* The body pends: on a future it has polled for the first time, or on a   *)
(* SleepFuture::Yet whose target is still to come.                         *)
PollPending ==
  /\ ~ draining
  /\ pc = "poll"
  /\ polled # {} \/ left[cur] > 0
  /\ pc' = "pending"
  /\ UNCHANGED <<tasks, len, free, ready, cur, polled, left, timers, draining>>

-----------------------------------------------------------------------------
(* timer_interrupt *)

TimerTick ==
  /\ ~ draining
  /\ timers' = TickQueue(timers)
  /\ left' = [t \in TaskId |-> IF left[t] > 0 THEN left[t] - 1 ELSE 0]
  /\ draining' = TRUE
  /\ UNCHANGED <<tasks, len, free, ready, pc, cur, polled>>

PopClosure ==
  /\ draining
  /\ FirstIsDue(timers)
  /\ timers' = Tail(timers)
  /\ Wake(timers[1].closure)
  /\ UNCHANGED <<len, free, cur, polled, left, draining>>

Drained ==
  /\ draining
  /\ ~ FirstIsDue(timers)
  /\ draining' = FALSE
  /\ UNCHANGED <<tasks, len, free, ready, pc, cur, polled, left, timers>>

-----------------------------------------------------------------------------
ExecutorThread ==
  \/ SleepUntil \/ TakeTask \/ RemoveTask \/ PutBack
  \/ PollYield \/ (\E d \in Delays : PollSleep(d)) \/ PollReady \/ PollPending

Handler == PopClosure \/ Drained

Next == Spawn \/ ExecutorThread \/ TimerTick \/ Handler

Spec == Init /\ [][Next]_vars

(* The PIT keeps ticking, a handler runs to its end, and between two ticks *)
(* the executor thread gets to run (Kernel.tla, ReadyRuns).                *)
FairSpec == Spec /\ SF_vars(ExecutorThread) /\ SF_vars(TimerTick) /\ WF_vars(Handler)

-----------------------------------------------------------------------------
(* Every variable stays in its type. *)
TypeOK ==
  /\ tasks \in [TaskId -> {"Vacant", "Executing", "ExecutingAndAwoken", "Ready", "Paused"}]
  /\ len \in 0 .. MaxTasks
  /\ free \in Seq(TaskId)
  /\ ready \in Seq(TaskId)
  /\ pc \in {"look", "wait", "poll", "done", "pending"}
  /\ cur \in TaskId
  /\ polled \subseteq {"yield", "sleep"}
  /\ left \in [TaskId -> Nat]
  /\ timers \in Seq([delta : Nat, closure : TaskId])
  /\ draining \in BOOLEAN

(* The ready list holds exactly the tasks in state Ready, each once; only  *)
(* the task being polled is Executing; the free list holds the vacant      *)
(* slots, each once; and the executor thread never waits with a task to    *)
(* poll.  So neither panic of executor_thread ("task in ready list not     *)
(* actually ready", "double-pause ?") and none of its unwraps can fail,    *)
(* whatever stale wakers do.                                               *)
ReadyListExact ==
  /\ Distinct(ready)
  /\ \A t \in TaskId : Holds(ready, t) <=> tasks[t] = "Ready"
  /\ \A t \in TaskId :
       tasks[t] \in {"Executing", "ExecutingAndAwoken"} <=> pc \in {"poll", "done", "pending"} /\ t = cur
  /\ Distinct(free)
  /\ \A t \in TaskId : Holds(free, t) <=> tasks[t] = "Vacant" /\ t < len
  /\ \A t \in TaskId : t >= len => tasks[t] = "Vacant"
  /\ pc = "wait" => ready = <<>>

HasTimer(t) == \E i \in 1 .. Len(timers) : timers[i].closure = t

PausedHasTimer == \A t \in TaskId : tasks[t] = "Paused" => HasTimer(t)

(* The timer of a sleep does not fire before the target. *)
SleepHasTimer ==
  \A t \in TaskId : left[t] > 0 =>
    \E i \in 1 .. Len(timers) : timers[i].closure = t /\ DueIn(timers, i) >= left[t]

(* A poll that was not woken has left a timer behind when it pends. *)
PollHasTimer ==
  pc \in {"poll", "pending"} /\ tasks[cur] = "Executing" =>
    /\ "yield" \notin polled
    /\ "sleep" \in polled \/ pc = "pending" => HasTimer(cur)

(* No wake-up is lost: a paused task has a timer that will wake it, also   *)
(* when the wake-up of a sleep comes before the poll has returned or a     *)
(* stale waker polls the task early.                                       *)
WakeupsKept == TypeOK /\ PausedHasTimer /\ SleepHasTimer /\ PollHasTimer

(* A task that sleeps is polled again. *)
SleepersResume == \A t \in TaskId : tasks[t] = "Paused" ~> tasks[t] # "Paused"

(* A ready task is polled. *)
ReadyIsPolled == \A t \in TaskId : tasks[t] = "Ready" ~> tasks[t] = "Executing"
=============================================================================
