------------------------------ MODULE Scheduler ------------------------------
(***************************************************************************)
(* The Scheduler object of kernel/src/sched.rs: the thread table (an       *)
(* IdSparseVec), the ready queue, and the loop of sched() with the action  *)
(* it defers to the idle thread.  One action per method; every method runs *)
(* with the SCHEDULER lock held, so it is one step here.  Kernel.tla opens *)
(* those steps up into lock operations and interrupts and shows that the   *)
(* running kernel implements this module.                                  *)
(***************************************************************************)
EXTENDS Queues, FiniteSets

CONSTANTS MaxThreads,   \* bound: the thread table never grows past this
          None          \* no thread

ASSUME MaxThreadsAssumption == MaxThreads \in Nat \ {0}
ASSUME NoneAssumption == None \notin Nat

IDLE == 0                         \* IDLE_THREAD_ID
ThreadId == 0 .. MaxThreads - 1
SchedReason == {"Yielding", "Exiting", "Waiting", "Sleeping"}
ThreadState == {"Running", "Ready", "Exiting", "Waiting", "Sleeping"}

VARIABLES
  threads,    \* state of each thread; "Vacant" where the table has no thread
  len,        \* IdSparseVec.list.len()
  free,       \* IdSparseVec.free, the ids to reuse, oldest first
  ready,      \* Scheduler.ready
  current,    \* mach().current_thread_id
  deferred,   \* the thread of a DeferredAction::Cleanup in flight, or None
  pc          \* "free": outside sched(); "switched": switch() has just
              \* returned in the new thread; "continue": back at the loop head

vars == <<threads, len, free, ready, current, deferred, pc>>

Init ==
  /\ threads = [t \in ThreadId |-> IF t = IDLE THEN "Running" ELSE "Vacant"]
  /\ len = 1
  /\ free = <<>>
  /\ ready = <<>>
  /\ current = IDLE
  /\ deferred = None
  /\ pc = "free"

-----------------------------------------------------------------------------
(* IdSparseVec *)

CanInsert == free # <<>> \/ len < MaxThreads

InsertedId == IF free # <<>> THEN Head(free) ELSE len

InsertSlot ==
  IF free # <<>> THEN free' = Tail(free) /\ len' = len
                 ELSE free' = free /\ len' = len + 1

-----------------------------------------------------------------------------
(* Scheduler methods *)

Spawn ==
  /\ pc = "free"
  /\ CanInsert
  /\ InsertSlot
  /\ threads' = [threads EXCEPT ![InsertedId] = "Ready"]
  /\ ready' = Append(ready, InsertedId)
  /\ UNCHANGED <<current, deferred, pc>>

Wake(t) ==
  /\ pc = "free"
  /\ threads[t] \in {"Waiting", "Sleeping"}
  /\ threads' = [threads EXCEPT ![t] = "Ready"]
  /\ ready' = Append(ready, t)
  /\ UNCHANGED <<len, free, current, deferred, pc>>

(* The thread sched() picks, and the queue it leaves behind. *)
NextThread(reason) == IF reason = "Exiting" \/ ready = <<>> THEN IDLE ELSE Head(ready)

Remaining(reason) == IF reason = "Exiting" \/ ready = <<>> THEN ready ELSE Tail(ready)

(* Bug: an exiting thread is removed while on its own stack. *)
BugRemovesCurrent(reason) ==
  CASE reason = "Yielding" -> "Ready" [] reason = "Exiting" -> "Vacant" [] OTHER -> reason

StateAfter(reason) == IF reason = "Yielding" THEN "Ready" ELSE reason

(* Bug: the idle thread is queued like any other. *)
BugQueuesIdle(reason) ==
  IF reason = "Yielding" THEN Append(Remaining(reason), current) ELSE Remaining(reason)

(* The ready queue once the current thread has been put back, if it is. *)
Requeue(reason) ==
  IF reason = "Yielding" /\ current # IDLE
  THEN Append(Remaining(reason), current)
  ELSE Remaining(reason)

(* One pass of the loop in sched(), up to and including switch(). *)
Switch(reason) ==
  /\ ~ (reason = "Yielding" /\ ready = <<>>)
  /\ threads' = [threads EXCEPT ![current] = StateAfter(reason),
                                ![NextThread(reason)] = "Running"]
  /\ ready' = Requeue(reason)
  /\ deferred' = IF reason = "Exiting" THEN current ELSE None
  /\ current' = NextThread(reason)
  /\ pc' = "switched"
  /\ UNCHANGED <<len, free>>

(* sched() with nobody to yield to returns at once. *)
YieldToNobody(reason) == reason = "Yielding" /\ ready = <<>>

(* A call of sched().  Only the idle thread's own code, which never blocks *)
(* and never exits, runs as IDLE.                                          *)
Sched(reason) ==
  /\ pc = "free"
  /\ current = IDLE => reason = "Yielding"
  /\ Switch(reason)

(* switch() has returned in the new thread with nothing deferred. *)
Resume ==
  /\ pc = "switched"
  /\ deferred = None
  /\ pc' = "free"
  /\ UNCHANGED <<threads, len, free, ready, current, deferred>>

(* Bug: the slot of a removed thread is never free again. *)
BugLeaksSlot ==
  /\ pc = "switched"
  /\ deferred # None
  /\ threads' = [threads EXCEPT ![deferred] = "Vacant"]
  /\ deferred' = None
  /\ pc' = "continue"
  /\ UNCHANGED <<len, free, ready, current>>

(* clean_up() of the exited thread, on the idle thread; then `continue`. *)
CleanUp ==
  /\ pc = "switched"
  /\ deferred # None
  /\ threads' = [threads EXCEPT ![deferred] = "Vacant"]
  /\ free' = Append(free, deferred)
  /\ deferred' = None
  /\ pc' = "continue"
  /\ UNCHANGED <<len, ready, current>>

(* The next pass of the loop, for the reason the idle thread slept with. *)
Again ==
  /\ pc = "continue"
  /\ \/ Switch("Yielding")
     \/ /\ YieldToNobody("Yielding")
        /\ pc' = "free"
        /\ UNCHANGED <<threads, len, free, ready, current, deferred>>

Next ==
  \/ Spawn
  \/ \E t \in ThreadId : Wake(t)
  \/ \E reason \in SchedReason : Sched(reason)
  \/ Resume
  \/ CleanUp
  \/ Again

Spec == Init /\ [][Next]_vars

-----------------------------------------------------------------------------
(* Every variable stays in its type. *)
TypeOK ==
  /\ threads \in [ThreadId -> ThreadState \cup {"Vacant"}]
  /\ len \in 1 .. MaxThreads
  /\ free \in Seq(ThreadId)
  /\ ready \in Seq(ThreadId)
  /\ current \in ThreadId
  /\ deferred \in ThreadId \cup {None}
  /\ pc \in {"free", "switched", "continue"}

(* The thread mach().current_thread_id names is the one thread in state    *)
(* Running: what assert_eq!(current_thread.state, Running) in sched() and  *)
(* the unwrap in current_thread() rely on.                                 *)
RunningIsCurrent ==
  \A t \in ThreadId : threads[t] = "Running" <=> t = current

(* The ready queue holds every ready thread but the idle one exactly once: *)
(* no thread is lost by a wake or a yield, none is scheduled twice.        *)
ReadyQueueExact ==
  /\ Distinct(ready)
  /\ \A t \in ThreadId : Holds(ready, t) <=> threads[t] = "Ready" /\ t # IDLE

(* The idle thread can always be switched to: it is never in the queue,    *)
(* never blocked, never removed.                                           *)
IdleAvailable == threads[IDLE] \in {"Running", "Ready"}

(* "we only ever pass DeferredActions to the idle thread" (sched.rs:234),  *)
(* and there is an exited thread only while its clean-up is in flight.     *)
DeferredToIdle ==
  /\ deferred # None => current = IDLE /\ pc = "switched"
  /\ \A t \in ThreadId : threads[t] = "Exiting" <=> t = deferred

(* The free list of the thread table holds each vacant slot exactly once,  *)
(* so insert() never hands out the id of a live thread.                    *)
FreeListExact ==
  /\ Distinct(free)
  /\ \A t \in ThreadId : Holds(free, t) <=> threads[t] = "Vacant" /\ t < len
  /\ \A t \in ThreadId : t >= len => threads[t] = "Vacant"

(* Table, queue and deferred clean-up together: a slot is vacant, queued,  *)
(* running or awaiting its clean-up, and in no two of these places.  The   *)
(* methods of Scheduler and sched() preserve this, and it is inductive.    *)
IInv ==
  /\ TypeOK
  /\ RunningIsCurrent
  /\ ReadyQueueExact
  /\ IdleAvailable
  /\ DeferredToIdle
  /\ FreeListExact

(* The assertions of sched() at each pass of its loop: it never switches a *)
(* thread to itself, and get_mut_2 finds both threads (sched.rs:229-232).  *)
SchedAssertions ==
  \A reason \in SchedReason :
    ( /\ pc \in {"free", "continue"}
      /\ current = IDLE => reason = "Yielding"
      /\ ~ YieldToNobody(reason) )
    => /\ current # NextThread(reason)
       /\ threads[current] = "Running"
       /\ threads[NextThread(reason)] = "Ready"

(* A thread leaves the table only through Exiting, and only once the CPU   *)
(* has left its stack: no step removes the thread that is running or one   *)
(* that can still be scheduled (sched.rs:246-247).                         *)
RemovedOnlyAfterExit ==
  [][ \A t \in ThreadId :
        threads[t] # "Vacant" /\ threads'[t] = "Vacant"
        => threads[t] = "Exiting" /\ current = IDLE /\ t # IDLE ]_vars
=============================================================================
