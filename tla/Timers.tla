------------------------------- MODULE Timers -------------------------------
(***************************************************************************)
(* TimerQueue of kernel/src/sched.rs as operators on a sequence of events. *)
(* An event's delta counts ticks from the event in front of it.            *)
(***************************************************************************)
EXTENDS Naturals, Sequences

(* A timer queue whose closures are in C. *)
IsTimers(C, q) == q \in Seq([delta : Nat, closure : C])

(* Some event of q has the closure c; no two events have the same. *)
WakesIn(q, c) == \E i \in 1 .. Len(q) : q[i].closure = c

WakesApart(q) == \A i, j \in 1 .. Len(q) : q[i].closure = q[j].closure => i = j

(* Ticks until the i-th event of q is due. *)
DueIn(q, i) ==
  LET sum[k \in 0 .. Len(q)] == IF k = 0 THEN 0 ELSE sum[k - 1] + q[k].delta
  IN  sum[i]

(* The index in front of which insert() stops: the first event that is due *)
(* later than the new one, so that equal events keep their order.          *)
InsertIndex(q, ticks) ==
  LET later == {i \in 1 .. Len(q) : ticks < DueIn(q, i)}
  IN  IF later = {} THEN Len(q) + 1 ELSE CHOOSE i \in later : \A j \in later : i <= j

(* insert(): the event behind the new one counts from the new one on. *)
InsertTimer(q, ticks, closure) ==
  LET at    == InsertIndex(q, ticks)
      delta == ticks - DueIn(q, at - 1)
      event == [delta |-> delta, closure |-> closure]
      behind == [i \in 1 .. Len(q) - at + 1 |->
                   IF i = 1 THEN [q[at] EXCEPT !.delta = @ - delta] ELSE q[at + i - 1]]
  IN  SubSeq(q, 1, at - 1) \o <<event>> \o behind

(* Bug: the last tick is not counted down. *)
BugTickStopsAtOne(q) ==
  IF q # <<>> /\ q[1].delta > 1 THEN [q EXCEPT ![1].delta = @ - 1] ELSE q

(* tick(): only the first event counts down, and it stops at zero. *)
TickQueue(q) ==
  IF q # <<>> /\ q[1].delta > 0 THEN [q EXCEPT ![1].delta = @ - 1] ELSE q

(* pop_closure() has something to pop. *)
FirstIsDue(q) == q # <<>> /\ q[1].delta = 0
=============================================================================
