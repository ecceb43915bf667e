----------------------------- MODULE TimerQueue -----------------------------
(***************************************************************************)
(* TIMER_QUEUE of kernel/src/sched.rs: run_later with the loop of insert() *)
(* one iteration at a time, and the timer interrupt, which ticks and then  *)
(* pops what is due.  insert() runs with interrupts off, so a tick falls   *)
(* between insertions.  An event carries, besides its delta, two values    *)
(* the code does not keep: the tick run_later promised (target) and the    *)
(* tick at which the queue as it stands will pop it (due).                 *)
(***************************************************************************)
EXTENDS Timers

CONSTANTS
  Delays,      \* delays of run_later in ticks
  MaxTimers,   \* bound: events in the queue
  MaxTick      \* bound: ticks

ASSUME DelaysAssumption == Delays \subseteq Nat

VARIABLES
  timers,      \* TimerQueue.timers
  now,         \* mach().ticks
  pc,          \* "idle", in the loop of insert() ("insert"), or in the loop of
               \* the interrupt handler over pop_closure() ("drain")
  ins,         \* insert()'s index, what is left of its ticks, and the target
  zeroArmed    \* history: a delay of zero ticks has been asked for

vars == <<timers, now, pc, ins, zeroArmed>>

NoInsert == [i |-> 1, ticks |-> 0, target |-> 0]

Init ==
  /\ timers = <<>>
  /\ now = 0
  /\ pc = "idle"
  /\ ins = NoInsert
  /\ zeroArmed = FALSE

(* run_later, up to the loop of insert(). *)
RunLater(ticks) ==
  /\ pc = "idle"
  /\ Len(timers) < MaxTimers
  /\ pc' = "insert"
  /\ ins' = [i |-> 1, ticks |-> ticks, target |-> now + ticks]
  /\ zeroArmed' = (zeroArmed \/ ticks = 0)
  /\ UNCHANGED <<timers, now>>

(* The tick at which the event in front of index i is popped. *)
DueBefore(i) == IF i = 1 THEN now ELSE timers[i - 1].due

NewEvent == [delta |-> ins.ticks, target |-> ins.target, due |-> DueBefore(ins.i) + ins.ticks]

(* An iteration that passes an event. *)
InsertAfter ==
  /\ pc = "insert"
  /\ ins.i <= Len(timers)
  /\ ins.ticks >= timers[ins.i].delta
  /\ ins' = [ins EXCEPT !.i = @ + 1, !.ticks = @ - timers[ins.i].delta]
  /\ UNCHANGED <<timers, now, pc, zeroArmed>>

(* Bug: the event behind the new one keeps its delta. *)
BugInsertKeepsDelta ==
  /\ pc = "insert"
  /\ ins.i <= Len(timers)
  /\ ins.ticks < timers[ins.i].delta
  /\ timers' = [k \in 1 .. Len(timers) + 1 |->
                  CASE k < ins.i -> timers[k]
                    [] k = ins.i -> NewEvent
                    [] OTHER -> timers[k - 1]]
  /\ pc' = "idle"
  /\ ins' = NoInsert
  /\ UNCHANGED <<now, zeroArmed>>

(* The iteration that finds an event due later and inserts before it. *)
InsertBefore ==
  /\ pc = "insert"
  /\ ins.i <= Len(timers)
  /\ ins.ticks < timers[ins.i].delta
  /\ timers' = [k \in 1 .. Len(timers) + 1 |->
                  CASE k < ins.i -> timers[k]
                    [] k = ins.i -> NewEvent
                    [] k = ins.i + 1 -> [timers[k - 1] EXCEPT !.delta = @ - ins.ticks]
                    [] OTHER -> timers[k - 1]]
  /\ pc' = "idle"
  /\ ins' = NoInsert
  /\ UNCHANGED <<now, zeroArmed>>

(* push_back after the loop. *)
InsertLast ==
  /\ pc = "insert"
  /\ ins.i > Len(timers)
  /\ timers' = Append(timers, NewEvent)
  /\ pc' = "idle"
  /\ ins' = NoInsert
  /\ UNCHANGED <<now, zeroArmed>>

(* Bug: every event counts down, as if deltas were absolute. *)
BugTickAll ==
  /\ pc = "idle"
  /\ now < MaxTick
  /\ now' = now + 1
  /\ timers' = [k \in DOMAIN timers |->
                  [timers[k] EXCEPT !.delta = IF @ > 0 THEN @ - 1 ELSE 0]]
  /\ pc' = "drain"
  /\ UNCHANGED <<ins, zeroArmed>>

(* timer_interrupt: the tick.  When the first event is at zero already,    *)
(* nothing counts down and every event is popped a tick later than planned.*)
Tick ==
  /\ pc = "idle"
  /\ now < MaxTick
  /\ now' = now + 1
  /\ timers' = IF FirstIsDue(timers)
               THEN [k \in DOMAIN timers |-> [timers[k] EXCEPT !.due = @ + 1]]
               ELSE TickQueue(timers)
  /\ pc' = "drain"
  /\ UNCHANGED <<ins, zeroArmed>>

PopClosure ==
  /\ pc = "drain"
  /\ FirstIsDue(timers)
  /\ timers' = Tail(timers)
  /\ UNCHANGED <<now, pc, ins, zeroArmed>>

(* Bug: one event per interrupt. *)
BugDrainsOne ==
  /\ pc = "drain"
  /\ pc' = "idle"
  /\ UNCHANGED <<timers, now, ins, zeroArmed>>

Drained ==
  /\ pc = "drain"
  /\ ~ FirstIsDue(timers)
  /\ pc' = "idle"
  /\ UNCHANGED <<timers, now, ins, zeroArmed>>

Next ==
  \/ \E ticks \in Delays : RunLater(ticks)
  \/ InsertAfter \/ InsertBefore \/ InsertLast
  \/ Tick \/ PopClosure \/ Drained

Spec == Init /\ [][Next]_vars

-----------------------------------------------------------------------------
Event == [delta : Nat, target : Nat, due : Nat]

(* Every variable stays in its type. *)
TypeOK ==
  /\ timers \in Seq(Event)
  /\ now \in Nat
  /\ pc \in {"idle", "insert", "drain"}
  /\ ins \in [i : Nat \ {0}, ticks : Nat, target : Nat]
  /\ zeroArmed \in BOOLEAN

(* The deltas add up: each event is due its delta after the one in front.  *)
DeltasAddUp ==
  \A k \in 1 .. Len(timers) : timers[k].due = DueBefore(k) + timers[k].delta

(* The queue is in the order in which its events are due. *)
InOrder ==
  \A j, k \in 1 .. Len(timers) : j <= k => timers[j].due <= timers[k].due

(* The cursor of insert(): what is left of the delay counts from the event *)
(* in front of the cursor.                                                 *)
CursorInv ==
  pc = "insert" =>
    /\ ins.i <= Len(timers) + 1
    /\ DueBefore(ins.i) + ins.ticks = ins.target
    /\ ~ zeroArmed => ins.target > now

(* The queue plans no event before its target, and, until a delay of zero  *)
(* is asked for, none after it.                                            *)
DueInv ==
  \A k \in 1 .. Len(timers) :
    /\ timers[k].due >= timers[k].target
    /\ ~ zeroArmed => timers[k].due = timers[k].target

(* Until a delay of zero is asked for, the head is never left at zero. *)
HeadInv == ~ zeroArmed /\ pc # "drain" => ~ FirstIsDue(timers)

(* The inductive invariant. *)
IInv == TypeOK /\ DeltasAddUp /\ InOrder /\ CursorInv /\ DueInv /\ HeadInv

(* No closure runs before the tick run_later returned: what SleepFuture    *)
(* relies on when it is polled only once more (tasks.rs:173-177).          *)
NeverEarly ==
  pc = "drain" /\ FirstIsDue(timers) => now >= timers[1].target

(* As long as nobody asks for a delay of zero, every closure runs at the   *)
(* very tick run_later returned: none is popped late and none is still     *)
(* queued once its tick is over.                                           *)
OnTime ==
  ~ zeroArmed =>
    /\ pc = "drain" /\ FirstIsDue(timers) => now = timers[1].target
    /\ pc # "drain" => \A k \in 1 .. Len(timers) : timers[k].target > now

(* The queue without the values the code does not keep; a closure is known *)
(* by its target.                                                          *)
Plain(q) == [k \in DOMAIN q |-> [delta |-> q[k].delta, closure |-> q[k].target]]

(* The loop of insert() computes InsertTimer, the operator Kernel uses. *)
InsertIsInsertTimer ==
  [][ pc = "insert" /\ pc' = "idle" =>
        Plain(timers') = InsertTimer(Plain(timers), ins.target - now, ins.target) ]_vars
=============================================================================
