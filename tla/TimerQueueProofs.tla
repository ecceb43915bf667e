-------------------------- MODULE TimerQueueProofs --------------------------
(***************************************************************************)
(* IInv of TimerQueue is inductive, for all delays and any bounds: timers  *)
(* are never early, and exactly on time while no delay is zero.            *)
(*                                                                         *)
(* The loop of TimerQueue::insert() computes InsertTimer, for queues of    *)
(* any length.  The cursor of the loop stops where InsertIndex says, both  *)
(* queues then run the same closures at the same times, and a timer queue  *)
(* is determined by the times at which its closures run.                   *)
(***************************************************************************)
EXTENDS TimerQueue, OperatorProofs, SequenceTheorems, TLAPS

USE DelaysAssumption

(* The empty queue at boot satisfies the invariant. *)
LEMMA InitInv == Init => IInv
<1> SUFFICES ASSUME Init PROVE IInv
  OBVIOUS
<1>1. timers = <<>> /\ now = 0 /\ pc = "idle" /\ ins = NoInsert /\ zeroArmed = FALSE
  BY DEF Init
<1>2. timers \in Seq(Event) /\ Len(timers) = 0
  BY <1>1
<1>3. TypeOK
  <2>1. ins \in [i : Nat \ {0}, ticks : Nat, target : Nat]
    BY <1>1 DEF NoInsert
  <2>2. now \in Nat /\ pc \in {"idle", "insert", "drain"}
    BY <1>1
  <2>3. zeroArmed \in BOOLEAN
    BY <1>1
  <2> QED
    BY <1>2, <2>1, <2>2, <2>3 DEF TypeOK
<1>4. DeltasAddUp /\ InOrder /\ CursorInv /\ DueInv /\ HeadInv
  BY <1>1, <1>2 DEF DeltasAddUp, InOrder, CursorInv, DueInv, HeadInv, FirstIsDue
<1> QED
  BY <1>3, <1>4 DEF IInv

(* run_later keeps the invariant. *)
LEMMA RunLaterInv == ASSUME IInv, NEW ticks \in Delays, RunLater(ticks) PROVE IInv'
<1>1. /\ pc = "idle" /\ pc' = "insert"
      /\ ins' = [i |-> 1, ticks |-> ticks, target |-> now + ticks]
      /\ zeroArmed' = (zeroArmed \/ ticks = 0)
      /\ timers' = timers /\ now' = now
  BY DEF RunLater
<1>2. ticks \in Nat /\ timers \in Seq(Event) /\ now \in Nat /\ zeroArmed \in BOOLEAN
  BY DEF IInv, TypeOK
<1>3. TypeOK'
  BY <1>1, <1>2 DEF TypeOK
<1>4. DeltasAddUp' /\ InOrder'
  BY <1>1 DEF IInv, DeltasAddUp, InOrder, DueBefore
<1>5. CursorInv'
  <2>1. ins'.i = 1 /\ ins'.ticks = ticks /\ ins'.target = now + ticks
    BY <1>1
  <2>2. DueBefore(ins.i)' = now
    BY <1>1, <2>1 DEF DueBefore
  <2>3. Len(timers)' \in Nat
    BY <1>1, <1>2
  <2>4. /\ ins'.i <= Len(timers)' + 1
        /\ DueBefore(ins.i)' + ins'.ticks = ins'.target
    BY <1>2, <2>1, <2>2, <2>3
  <2>5. ticks # 0 => ins'.target > now'
    BY <1>1, <1>2, <2>1
  <2>6. ~ zeroArmed' => ins'.target > now'
    BY <1>1, <2>5
  <2> QED
    BY <2>4, <2>6 DEF CursorInv
<1>6. DueInv' /\ HeadInv'
  BY <1>1 DEF IInv, DueInv, HeadInv
<1> QED
  BY <1>3, <1>4, <1>5, <1>6 DEF IInv

(* Every event of the queue, and the tick in front of every index, is typed. *)
LEMMA QueueTypes ==
  ASSUME TypeOK
  PROVE  /\ Len(timers) \in Nat
         /\ \A k \in 1 .. Len(timers) :
              /\ timers[k] \in Event
              /\ timers[k].delta \in Nat /\ timers[k].target \in Nat /\ timers[k].due \in Nat
         /\ \A k \in 1 .. Len(timers) + 1 : DueBefore(k) \in Nat
<1>1. timers \in Seq(Event) /\ now \in Nat /\ Len(timers) \in Nat
  BY DEF TypeOK
<1>2. ASSUME NEW k \in 1 .. Len(timers)
      PROVE  /\ timers[k] \in Event
             /\ timers[k].delta \in Nat /\ timers[k].target \in Nat /\ timers[k].due \in Nat
  <2>1. timers[k] \in Event
    BY <1>1
  <2> QED
    BY <2>1 DEF Event
<1>3. ASSUME NEW k \in 1 .. Len(timers) + 1 PROVE DueBefore(k) \in Nat
  <2>1. CASE k = 1
    BY <1>1, <2>1 DEF DueBefore
  <2>2. CASE k # 1
    <3>1. k - 1 \in 1 .. Len(timers)
      BY <1>1, <2>2
    <3> QED
      BY <1>2, <2>2, <3>1 DEF DueBefore
  <2> QED
    BY <2>1, <2>2
<1> QED
  BY <1>1, <1>2, <1>3

(* The locals of insert() are typed. *)
LEMMA CursorTypes ==
  ASSUME TypeOK
  PROVE  ins.i \in Nat \ {0} /\ ins.ticks \in Nat /\ ins.target \in Nat
<1>1. ins \in [i : Nat \ {0}, ticks : Nat, target : Nat]
  BY DEF TypeOK
<1> QED
  BY <1>1

(* An iteration of insert() keeps the invariant. *)
LEMMA InsertAfterInv == ASSUME IInv, InsertAfter PROVE IInv'
<1>1. /\ pc = "insert" /\ pc' = pc
      /\ ins.i <= Len(timers)
      /\ ins.ticks >= timers[ins.i].delta
      /\ ins' = [ins EXCEPT !.i = @ + 1, !.ticks = @ - timers[ins.i].delta]
      /\ timers' = timers /\ now' = now /\ zeroArmed' = zeroArmed
  BY DEF InsertAfter
<1>2. TypeOK /\ DeltasAddUp /\ CursorInv
  BY DEF IInv
<1>3. ins.i \in Nat \ {0} /\ ins.ticks \in Nat /\ ins.target \in Nat
  BY <1>2, CursorTypes
<1>4. ins.i \in 1 .. Len(timers) /\ ins.i \in 1 .. Len(timers) + 1 /\ Len(timers) \in Nat
  BY <1>1, <1>2, <1>3, QueueTypes
<1>5. /\ timers[ins.i].delta \in Nat /\ timers[ins.i].due \in Nat
      /\ DueBefore(ins.i) \in Nat
  BY <1>2, <1>4, QueueTypes
<1>6. /\ ins'.i = ins.i + 1
      /\ ins'.ticks = ins.ticks - timers[ins.i].delta
      /\ ins'.target = ins.target
  <2>1. ins \in [i : Nat \ {0}, ticks : Nat, target : Nat]
    BY <1>2 DEF TypeOK
  <2> QED
    BY <1>1, <2>1
<1>7. ins' \in [i : Nat \ {0}, ticks : Nat, target : Nat]
  <2>1. ins \in [i : Nat \ {0}, ticks : Nat, target : Nat]
    BY <1>2 DEF TypeOK
  <2>2. ins.i + 1 \in Nat \ {0} /\ ins.ticks - timers[ins.i].delta \in Nat
    BY <1>1, <1>3, <1>5
  <2> QED
    BY <1>1, <2>1, <2>2
<1>8. timers[ins.i].due = DueBefore(ins.i) + timers[ins.i].delta
  BY <1>2, <1>4 DEF DeltasAddUp
<1>9. DueBefore(ins.i)' = timers[ins.i].due
  <2>1. ins'.i # 1 /\ ins'.i - 1 = ins.i
    BY <1>3, <1>6
  <2> QED
    BY <1>1, <2>1 DEF DueBefore
<1>10. CursorInv'
  <2>1. /\ DueBefore(ins.i) + ins.ticks = ins.target
        /\ ~ zeroArmed => ins.target > now
    BY <1>1, <1>2 DEF CursorInv
  <2>2. ins'.i <= Len(timers)' + 1
    BY <1>1, <1>4, <1>6
  <2>3. DueBefore(ins.i)' + ins'.ticks = ins'.target
    BY <1>3, <1>5, <1>6, <1>8, <1>9, <2>1
  <2>4. ~ zeroArmed' => ins'.target > now'
    BY <1>1, <1>6, <2>1
  <2> QED
    BY <2>2, <2>3, <2>4 DEF CursorInv
<1>11. TypeOK'
  BY <1>1, <1>2, <1>7 DEF TypeOK
<1>12. DeltasAddUp' /\ InOrder' /\ DueInv' /\ HeadInv'
  BY <1>1 DEF IInv, DeltasAddUp, InOrder, DueInv, HeadInv, DueBefore
<1> QED
  BY <1>10, <1>11, <1>12 DEF IInv

(* The new event is due at its target. *)
LEMMA NewEventDue ==
  ASSUME IInv, pc = "insert"
  PROVE  /\ NewEvent \in Event
         /\ NewEvent.delta = ins.ticks
         /\ NewEvent.due = DueBefore(ins.i) + ins.ticks
         /\ NewEvent.due = NewEvent.target
         /\ ~ zeroArmed => NewEvent.due > now
<1>1. TypeOK /\ CursorInv
  BY DEF IInv
<1>2. /\ DueBefore(ins.i) + ins.ticks = ins.target
      /\ ~ zeroArmed => ins.target > now
  BY <1>1 DEF CursorInv
<1>3. ins.ticks \in Nat /\ ins.target \in Nat
  BY <1>1, CursorTypes
<1>4. NewEvent = [delta |-> ins.ticks, target |-> ins.target, due |-> ins.target]
  BY <1>2 DEF NewEvent
<1>5. NewEvent \in Event
  BY <1>3, <1>4 DEF Event
<1>6. NewEvent.delta = ins.ticks /\ NewEvent.due = ins.target /\ NewEvent.target = ins.target
  BY <1>4
<1> QED
  BY <1>2, <1>5, <1>6
(* A function on 1 .. m is a sequence of length m. *)
LEMMA FunctionIsSeq ==
  ASSUME NEW S, NEW m \in Nat, NEW f \in [1 .. m -> S]
  PROVE  f \in Seq(S) /\ Len(f) = m
<1>1. f \in Seq(S)
  BY IsASeq
<1>2. DOMAIN f = 1 .. Len(f) /\ DOMAIN f = 1 .. m /\ Len(f) \in Nat
  BY <1>1
<1> QED
  BY <1>1, <1>2

(* Inserting in front of a later event keeps the invariant: the new event  *)
(* and the one behind it share the delta that one had.                     *)
LEMMA InsertBeforeInv == ASSUME IInv, InsertBefore PROVE IInv'
<1> DEFINE n == Len(timers)
           behind == [timers[ins.i] EXCEPT !.delta = @ - ins.ticks]
<1>1. /\ pc = "insert" /\ pc' = "idle"
      /\ ins.i <= n /\ ins.ticks < timers[ins.i].delta
      /\ ins' = NoInsert /\ now' = now /\ zeroArmed' = zeroArmed
  BY DEF InsertBefore
<1>2. TypeOK /\ DeltasAddUp /\ InOrder /\ DueInv /\ HeadInv
  BY DEF IInv
<1>3. /\ n \in Nat /\ ins.i \in 1 .. n /\ ins.i \in Nat /\ ins.ticks \in Nat
      /\ \A k \in 1 .. n :
           /\ timers[k] \in Event
           /\ timers[k].delta \in Nat /\ timers[k].target \in Nat /\ timers[k].due \in Nat
      /\ DueBefore(ins.i) \in Nat /\ now \in Nat
  <2>1. n \in Nat /\ ins.i \in Nat \ {0} /\ ins.ticks \in Nat
    BY <1>2, QueueTypes, CursorTypes
  <2>2. ins.i \in 1 .. n /\ ins.i \in 1 .. n + 1
    BY <1>1, <2>1
  <2>3. now \in Nat
    BY <1>2 DEF TypeOK
  <2> QED
    BY <1>2, <2>1, <2>2, <2>3, QueueTypes
<1>4. /\ NewEvent \in Event
      /\ NewEvent.delta = ins.ticks
      /\ NewEvent.due = DueBefore(ins.i) + ins.ticks
      /\ NewEvent.due = NewEvent.target
      /\ ~ zeroArmed => NewEvent.due > now
  BY <1>1, NewEventDue
<1>5. /\ behind \in Event
      /\ behind.delta = timers[ins.i].delta - ins.ticks
      /\ behind.target = timers[ins.i].target
      /\ behind.due = timers[ins.i].due
  BY <1>1, <1>3 DEF Event
<1>6. timers[ins.i].due = DueBefore(ins.i) + timers[ins.i].delta
  BY <1>2, <1>3 DEF DeltasAddUp
<1> HIDE DEF n, behind
<1>7. timers' = [k \in 1 .. n + 1 |->
                   CASE k < ins.i -> timers[k]
                     [] k = ins.i -> NewEvent
                     [] k = ins.i + 1 -> behind
                     [] OTHER -> timers[k - 1]]
  <2>1. timers' = [k \in 1 .. Len(timers) + 1 |->
                  CASE k < ins.i -> timers[k]
                    [] k = ins.i -> NewEvent
                    [] k = ins.i + 1 -> [timers[k - 1] EXCEPT !.delta = @ - ins.ticks]
                    [] OTHER -> timers[k - 1]]
    BY DEF InsertBefore
  <2>2. ins.i + 1 - 1 = ins.i
    BY <1>3
  <2> QED
    BY <2>1, <2>2, <1>3 DEF n, behind
<1>8. /\ \A k \in 1 .. n + 1 : k < ins.i => timers'[k] = timers[k]
      /\ timers'[ins.i] = NewEvent
      /\ timers'[ins.i + 1] = behind
      /\ \A k \in 1 .. n + 1 : k > ins.i + 1 => timers'[k] = timers[k - 1]
  BY <1>3, <1>7
<1>9. timers' \in Seq(Event) /\ Len(timers') = n + 1
  <2>1. \A k \in 1 .. n + 1 : timers'[k] \in Event
    <3> SUFFICES ASSUME NEW k \in 1 .. n + 1 PROVE timers'[k] \in Event
      OBVIOUS
    <3>1. k < ins.i => k \in 1 .. n
      BY <1>3
    <3>2. k > ins.i + 1 => k - 1 \in 1 .. n
      BY <1>3
    <3>3. k < ins.i \/ k = ins.i \/ k = ins.i + 1 \/ k > ins.i + 1
      BY <1>3
    <3> QED
      BY <1>3, <1>4, <1>5, <1>8, <3>1, <3>2, <3>3
  <2>2. timers' \in [1 .. n + 1 -> Event]
    BY <1>7, <2>1
  <2>3. n + 1 \in Nat
    BY <1>3
  <2> QED
    BY <2>2, <2>3, FunctionIsSeq
<1>10. TypeOK'
  <2>1. ins' \in [i : Nat \ {0}, ticks : Nat, target : Nat]
    BY <1>1 DEF NoInsert
  <2>2. now' \in Nat /\ pc' \in {"idle", "insert", "drain"}
    BY <1>1, <1>3
  <2>3. zeroArmed' \in BOOLEAN
    BY <1>1, <1>2 DEF TypeOK
  <2> QED
    BY <1>9, <2>1, <2>2, <2>3 DEF TypeOK
(* the due ticks, in the new queue, around the new event *)
<1>11. /\ \A k \in 1 .. n + 1 : k < ins.i => timers'[k].due = timers[k].due
       /\ timers'[ins.i].due = NewEvent.due
       /\ \A k \in 1 .. n + 1 : k > ins.i => timers'[k].due = timers[k - 1].due
  <2>1. ins.i + 1 - 1 = ins.i
    BY <1>3
  <2>2. \A k \in 1 .. n + 1 : k > ins.i => k = ins.i + 1 \/ k > ins.i + 1
    BY <1>3
  <2> QED
    BY <1>3, <1>5, <1>8, <2>1, <2>2
<1>12. /\ DueBefore(ins.i) <= NewEvent.due
       /\ NewEvent.due < timers[ins.i].due
       /\ NewEvent.due \in Nat
  BY <1>1, <1>3, <1>4, <1>6
<1>13. DeltasAddUp'
  <2> SUFFICES ASSUME NEW k \in 1 .. n + 1
               PROVE  timers'[k].due = (IF k = 1 THEN now ELSE timers'[k - 1].due) + timers'[k].delta
    BY <1>1, <1>9 DEF DeltasAddUp, DueBefore
  <2>1. CASE k < ins.i
    <3>1. k \in 1 .. n /\ (k # 1 => k - 1 \in 1 .. n + 1 /\ k - 1 < ins.i)
      BY <1>3, <2>1
    <3> QED
      BY <1>2, <1>8, <2>1, <3>1 DEF DeltasAddUp, DueBefore, n
  <2>2. CASE k = ins.i
    <3>1. k # 1 => k - 1 \in 1 .. n + 1 /\ k - 1 < ins.i
      BY <1>3, <2>2
    <3> QED
      BY <1>4, <1>8, <2>2, <3>1 DEF DueBefore
  <2>3. CASE k = ins.i + 1
    <3>1. k # 1 /\ k - 1 = ins.i
      BY <1>3, <2>3
    <3> QED
      BY <1>3, <1>4, <1>5, <1>6, <1>8, <1>12, <2>3, <3>1
  <2>4. CASE k > ins.i + 1
    <3>1. k # 1 /\ k - 1 \in 1 .. n /\ k - 1 # 1 /\ k - 1 > ins.i /\ k - 1 \in 1 .. n + 1
      BY <1>3, <2>4
    <3>2. timers[k - 1].due = timers[k - 1 - 1].due + timers[k - 1].delta
      BY <1>2, <3>1 DEF DeltasAddUp, DueBefore, n
    <3> QED
      BY <1>8, <1>11, <2>4, <3>1, <3>2
  <2> QED
    BY <1>3, <2>1, <2>2, <2>3, <2>4
<1>14. InOrder'
  <2> SUFFICES ASSUME NEW j \in 1 .. n + 1, NEW k \in 1 .. n + 1, j < k
               PROVE  timers'[j].due <= timers'[k].due
    <3>1. \A k \in 1 .. n + 1 : timers'[k].due \in Nat
      <4>1. \A k \in 1 .. n + 1 : timers'[k] \in Event
        BY <1>9
      <4> QED
        BY <4>1 DEF Event
    <3> QED
      BY <1>3, <1>9, <3>1 DEF InOrder
  <2>1. \A a, b \in 1 .. n : a <= b => timers[a].due <= timers[b].due
    BY <1>2 DEF InOrder, n
  <2>2. CASE k < ins.i
    BY <1>3, <1>11, <2>1, <2>2
  <2>3. CASE k = ins.i
    <3>1. j < ins.i /\ j \in 1 .. n /\ ins.i # 1 /\ ins.i - 1 \in 1 .. n /\ j <= ins.i - 1
      BY <1>3, <2>3
    <3>2. timers[j].due <= timers[ins.i - 1].due /\ timers[ins.i - 1].due = DueBefore(ins.i)
      BY <2>1, <3>1 DEF DueBefore
    <3> QED
      BY <1>3, <1>11, <1>12, <2>3, <3>1, <3>2
  <2>4. CASE k > ins.i
    <3>1. k - 1 \in 1 .. n /\ ins.i <= k - 1
      BY <1>3, <2>4
    <3>2. timers[ins.i].due <= timers[k - 1].due /\ timers'[k].due = timers[k - 1].due
      BY <1>3, <1>11, <2>1, <2>4, <3>1
    <3>3. CASE j < ins.i
      BY <1>3, <1>11, <2>1, <3>1, <3>2, <3>3
    <3>4. CASE j = ins.i
      BY <1>3, <1>11, <1>12, <3>1, <3>2, <3>4
    <3>5. CASE j > ins.i
      <4>1. j - 1 \in 1 .. n /\ j - 1 <= k - 1
        BY <1>3, <3>5
      <4> QED
        BY <1>11, <2>1, <3>1, <3>2, <3>5, <4>1
    <3> QED
      BY <1>3, <3>3, <3>4, <3>5
  <2> QED
    BY <1>3, <2>2, <2>3, <2>4
<1>15. DueInv'
  <2> SUFFICES ASSUME NEW k \in 1 .. n + 1
               PROVE  /\ timers'[k].due >= timers'[k].target
                      /\ ~ zeroArmed => timers'[k].due = timers'[k].target
    BY <1>1, <1>9 DEF DueInv
  <2>1. \A a \in 1 .. n : /\ timers[a].due >= timers[a].target
                          /\ ~ zeroArmed => timers[a].due = timers[a].target
    BY <1>2 DEF DueInv, n
  <2>2. CASE k < ins.i
    BY <1>3, <1>8, <2>1, <2>2
  <2>3. CASE k = ins.i
    BY <1>4, <1>8, <1>12, <2>3
  <2>4. CASE k = ins.i + 1
    BY <1>3, <1>5, <1>8, <2>1, <2>4
  <2>5. CASE k > ins.i + 1
    <3>1. k - 1 \in 1 .. n
      BY <1>3, <2>5
    <3> QED
      BY <1>8, <2>1, <2>5, <3>1
  <2> QED
    BY <1>3, <2>2, <2>3, <2>4, <2>5
<1>16. HeadInv'
  <2> SUFFICES ASSUME ~ zeroArmed PROVE timers'[1].delta # 0
    BY <1>1 DEF HeadInv, FirstIsDue
  <2>1. CASE ins.i = 1
    <3>1. DueBefore(ins.i) = now
      BY <2>1 DEF DueBefore
    <3> QED
      BY <1>3, <1>4, <1>8, <2>1, <3>1
  <2>2. CASE ins.i # 1
    <3>1. timers'[1] = timers[1] /\ n > 0
      BY <1>3, <1>8, <2>2
    <3>2. timers # <<>> /\ pc # "drain"
      BY <1>1, <3>1 DEF n
    <3> QED
      BY <1>2, <3>1, <3>2 DEF HeadInv, FirstIsDue
  <2> QED
    BY <2>1, <2>2
<1>17. CursorInv'
  BY <1>1 DEF CursorInv
<1> QED
  BY <1>10, <1>13, <1>14, <1>15, <1>16, <1>17 DEF IInv

(* Appending behind the last event keeps the invariant. *)
LEMMA InsertLastInv == ASSUME IInv, InsertLast PROVE IInv'
<1> DEFINE n == Len(timers)
<1>1. /\ pc = "insert" /\ pc' = "idle" /\ ins.i > n
      /\ timers' = Append(timers, NewEvent)
      /\ ins' = NoInsert /\ now' = now /\ zeroArmed' = zeroArmed
  BY DEF InsertLast
<1>2. TypeOK /\ DeltasAddUp /\ InOrder /\ CursorInv /\ DueInv /\ HeadInv
  BY DEF IInv
<1>3. /\ n \in Nat /\ ins.i = n + 1 /\ ins.ticks \in Nat
      /\ \A k \in 1 .. n :
           /\ timers[k] \in Event
           /\ timers[k].delta \in Nat /\ timers[k].target \in Nat /\ timers[k].due \in Nat
      /\ DueBefore(ins.i) \in Nat /\ now \in Nat /\ timers \in Seq(Event)
  <2>1. n \in Nat /\ ins.i \in Nat \ {0} /\ ins.ticks \in Nat
    BY <1>2, QueueTypes, CursorTypes
  <2>2. ins.i <= n + 1
    BY <1>1, <1>2 DEF CursorInv
  <2>3. ins.i = n + 1 /\ ins.i \in 1 .. n + 1
    BY <1>1, <2>1, <2>2
  <2>4. now \in Nat /\ timers \in Seq(Event)
    BY <1>2 DEF TypeOK
  <2> QED
    BY <1>2, <2>1, <2>3, <2>4, QueueTypes
<1>4. /\ NewEvent \in Event
      /\ NewEvent.delta = ins.ticks
      /\ NewEvent.due = DueBefore(ins.i) + ins.ticks
      /\ NewEvent.due = NewEvent.target
      /\ ~ zeroArmed => NewEvent.due > now
  BY <1>1, NewEventDue
<1> HIDE DEF n
<1>5. /\ timers' \in Seq(Event) /\ Len(timers') = n + 1
      /\ \A k \in 1 .. n : timers'[k] = timers[k]
      /\ timers'[n + 1] = NewEvent
  BY <1>1, <1>3, <1>4 DEF n
<1>6. TypeOK'
  <2>1. ins' \in [i : Nat \ {0}, ticks : Nat, target : Nat]
    BY <1>1 DEF NoInsert
  <2>2. now' \in Nat /\ pc' \in {"idle", "insert", "drain"}
    BY <1>1, <1>3
  <2>3. zeroArmed' \in BOOLEAN
    BY <1>1, <1>2 DEF TypeOK
  <2> QED
    BY <1>5, <2>1, <2>2, <2>3 DEF TypeOK
<1>7. DeltasAddUp'
  <2> SUFFICES ASSUME NEW k \in 1 .. n + 1
               PROVE  timers'[k].due = (IF k = 1 THEN now ELSE timers'[k - 1].due) + timers'[k].delta
    BY <1>1, <1>5 DEF DeltasAddUp, DueBefore
  <2>1. k # 1 => k - 1 \in 1 .. n
    BY <1>3
  <2>2. CASE k \in 1 .. n
    BY <1>2, <1>5, <2>1, <2>2 DEF DeltasAddUp, DueBefore, n
  <2>3. CASE k = n + 1
    BY <1>3, <1>4, <1>5, <2>1, <2>3 DEF DueBefore
  <2> QED
    BY <1>3, <2>2, <2>3
<1>8. InOrder'
  <2>1. \A a, b \in 1 .. n : a <= b => timers[a].due <= timers[b].due
    BY <1>2 DEF InOrder, n
  <2>2. NewEvent.due \in Nat /\ DueBefore(ins.i) <= NewEvent.due
    BY <1>3, <1>4
  <2>3. \A a \in 1 .. n : timers[a].due <= NewEvent.due
    <3> SUFFICES ASSUME NEW a \in 1 .. n PROVE timers[a].due <= NewEvent.due
      OBVIOUS
    <3>1. ins.i # 1 /\ ins.i - 1 = n /\ n \in 1 .. n /\ a <= n
      BY <1>3
    <3>2. DueBefore(ins.i) = timers[n].due /\ timers[a].due <= timers[n].due
      BY <2>1, <3>1 DEF DueBefore
    <3> QED
      BY <1>3, <2>2, <3>1, <3>2
  <2> SUFFICES ASSUME NEW j \in 1 .. n + 1, NEW k \in 1 .. n + 1, j <= k
               PROVE  timers'[j].due <= timers'[k].due
    BY <1>5 DEF InOrder
  <2>4. CASE k \in 1 .. n
    <3>1. j \in 1 .. n
      BY <1>3, <2>4
    <3> QED
      BY <1>5, <2>1, <2>4, <3>1
  <2>5. CASE k = n + 1
    <3>1. j \in 1 .. n \/ j = n + 1
      BY <1>3
    <3> QED
      BY <1>5, <2>2, <2>3, <2>5, <3>1
  <2> QED
    BY <1>3, <2>4, <2>5
<1>9. DueInv'
  <2> SUFFICES ASSUME NEW k \in 1 .. n + 1
               PROVE  /\ timers'[k].due >= timers'[k].target
                      /\ ~ zeroArmed => timers'[k].due = timers'[k].target
    BY <1>1, <1>5 DEF DueInv
  <2>1. CASE k \in 1 .. n
    BY <1>2, <1>5, <2>1 DEF DueInv, n
  <2>2. CASE k = n + 1
    BY <1>3, <1>4, <1>5, <2>2
  <2> QED
    BY <1>3, <2>1, <2>2
<1>10. HeadInv'
  <2> SUFFICES ASSUME ~ zeroArmed PROVE timers'[1].delta # 0
    BY <1>1 DEF HeadInv, FirstIsDue
  <2>1. CASE n = 0
    <3>1. DueBefore(ins.i) = now
      BY <1>3, <2>1 DEF DueBefore
    <3> QED
      BY <1>3, <1>4, <1>5, <2>1, <3>1
  <2>2. CASE n # 0
    <3>1. timers'[1] = timers[1] /\ timers # <<>> /\ pc # "drain"
      BY <1>1, <1>3, <1>5, <2>2 DEF n
    <3> QED
      BY <1>2, <3>1 DEF HeadInv, FirstIsDue
  <2> QED
    BY <2>1, <2>2
<1>11. CursorInv'
  BY <1>1 DEF CursorInv
<1> QED
  BY <1>6, <1>7, <1>8, <1>9, <1>10, <1>11 DEF IInv

(* A tick keeps the invariant: the head counts down as the clock counts    *)
(* up, or, with the head at zero, every event is due one tick later.       *)
LEMMA TickInv == ASSUME IInv, Tick PROVE IInv'
<1>1. /\ pc = "idle" /\ pc' = "drain" /\ now' = now + 1
      /\ ins' = ins /\ zeroArmed' = zeroArmed
  BY DEF Tick
<1>1a. timers' = IF FirstIsDue(timers)
                 THEN [k \in DOMAIN timers |-> [timers[k] EXCEPT !.due = @ + 1]]
                 ELSE TickQueue(timers)
  BY DEF Tick
<1>2. TypeOK /\ DeltasAddUp /\ InOrder /\ DueInv /\ HeadInv
  BY DEF IInv
<1>3. /\ Len(timers) \in Nat /\ timers \in Seq(Event) /\ now \in Nat
      /\ \A k \in 1 .. Len(timers) :
           /\ timers[k] \in Event
           /\ timers[k].delta \in Nat /\ timers[k].target \in Nat /\ timers[k].due \in Nat
  <2>1. timers \in Seq(Event) /\ now \in Nat
    BY <1>2 DEF TypeOK
  <2> QED
    BY <1>2, <2>1, QueueTypes
<1>4. CursorInv' /\ HeadInv'
  BY <1>1 DEF CursorInv, HeadInv
<1>5. timers' \in Seq(Event) => TypeOK'
  <2>1. now' \in Nat /\ pc' \in {"idle", "insert", "drain"}
    BY <1>1, <1>3
  <2>2. zeroArmed' \in BOOLEAN /\ ins' \in [i : Nat \ {0}, ticks : Nat, target : Nat]
    BY <1>1, <1>2 DEF TypeOK
  <2> QED
    BY <2>1, <2>2 DEF TypeOK
<1>6. CASE timers = <<>>
  <2>1. timers' = <<>> /\ timers' \in Seq(Event) /\ Len(timers') = 0
    BY <1>1a, <1>3, <1>6 DEF FirstIsDue, TickQueue
  <2>2. DeltasAddUp' /\ InOrder' /\ DueInv'
    BY <2>1 DEF DeltasAddUp, InOrder, DueInv
  <2> QED
    BY <1>4, <1>5, <2>1, <2>2 DEF IInv
<1>7. CASE timers # <<>> /\ timers[1].delta = 0
  <2>1. zeroArmed
    BY <1>1, <1>2, <1>7 DEF HeadInv, FirstIsDue
  <2>1a. timers' = [k \in 1 .. Len(timers) |-> [timers[k] EXCEPT !.due = @ + 1]]
    BY <1>1a, <1>3, <1>7 DEF FirstIsDue
  <2>2. \A k \in 1 .. Len(timers) : /\ timers'[k] \in Event
                          /\ timers'[k].due = timers[k].due + 1
                          /\ timers'[k].target = timers[k].target
                          /\ timers'[k].delta = timers[k].delta
    <3> SUFFICES ASSUME NEW k \in 1 .. Len(timers)
                 PROVE  /\ timers'[k] \in Event
                        /\ timers'[k].due = timers[k].due + 1
                        /\ timers'[k].target = timers[k].target
                        /\ timers'[k].delta = timers[k].delta
      OBVIOUS
    <3>1. timers'[k] = [timers[k] EXCEPT !.due = @ + 1]
      BY <2>1a
    <3>2. timers[k] \in Event /\ timers[k].due \in Nat
      BY <1>3
    <3> QED
      BY <3>1, <3>2 DEF Event
  <2>3. timers' \in [1 .. Len(timers) -> Event]
    BY <2>1a, <2>2
  <2>4. timers' \in Seq(Event) /\ Len(timers') = Len(timers)
    BY <1>3, <2>3, FunctionIsSeq
  <2>5. DeltasAddUp'
    <3> SUFFICES ASSUME NEW k \in 1 .. Len(timers)
                 PROVE  timers'[k].due = (IF k = 1 THEN now + 1 ELSE timers'[k - 1].due) + timers'[k].delta
      BY <1>1, <2>4 DEF DeltasAddUp, DueBefore
    <3>1. k # 1 => k - 1 \in 1 .. Len(timers)
      BY <1>3
    <3>2. timers[k].due = (IF k = 1 THEN now ELSE timers[k - 1].due) + timers[k].delta
      BY <1>2 DEF DeltasAddUp, DueBefore
    <3>3. CASE k = 1
      BY <1>3, <2>2, <3>2, <3>3
    <3>4. CASE k # 1
      <4>1. k - 1 \in 1 .. Len(timers)
        BY <3>1, <3>4
      <4>2. timers'[k].due = timers[k].due + 1 /\ timers'[k].delta = timers[k].delta
        BY <2>2
      <4>3. timers'[k - 1].due = timers[k - 1].due + 1
        BY <2>2, <4>1
      <4>4. timers[k].delta \in Nat /\ timers[k - 1].due \in Nat
        BY <1>3, <4>1
      <4> QED
        BY <3>2, <3>4, <4>2, <4>3, <4>4
    <3> QED
      BY <3>3, <3>4
  <2>6. InOrder'
    <3>1. \A j, k \in 1 .. Len(timers) : j <= k => timers[j].due <= timers[k].due
      BY <1>2 DEF InOrder
    <3> SUFFICES ASSUME NEW j \in 1 .. Len(timers), NEW k \in 1 .. Len(timers), j <= k
                 PROVE  timers'[j].due <= timers'[k].due
      BY <2>4 DEF InOrder
    <3>2. timers[j].due <= timers[k].due
      BY <3>1
    <3>3. timers[j].due \in Nat /\ timers[k].due \in Nat
      BY <1>3
    <3>4. timers'[j].due = timers[j].due + 1 /\ timers'[k].due = timers[k].due + 1
      BY <2>2
    <3> QED
      BY <3>2, <3>3, <3>4
  <2>7. DueInv'
    <3>1. \A k \in 1 .. Len(timers) : timers[k].due >= timers[k].target
      BY <1>2 DEF DueInv
    <3>2. \A k \in 1 .. Len(timers) : timers'[k].due >= timers'[k].target
      BY <1>3, <2>2, <3>1
    <3> QED
      BY <1>1, <2>1, <2>4, <3>2 DEF DueInv
  <2> QED
    BY <1>4, <1>5, <2>4, <2>5, <2>6, <2>7 DEF IInv
<1>8. CASE timers # <<>> /\ timers[1].delta # 0
  <2>1. 1 \in 1 .. Len(timers)
    BY <1>3, <1>8
  <2>2. timers[1].delta > 0
    BY <1>3, <1>8, <2>1
  <2>3. timers' = [timers EXCEPT ![1].delta = @ - 1]
    BY <1>1a, <1>8, <2>2 DEF FirstIsDue, TickQueue
  <2>4. timers' \in Seq(Event) /\ Len(timers') = Len(timers)
    <3>1. timers[1] \in Event /\ timers[1].delta - 1 \in Nat
      BY <1>3, <2>1, <2>2
    <3>2. [timers[1] EXCEPT !.delta = @ - 1] \in Event
      BY <3>1 DEF Event
    <3>3. timers' \in [1 .. Len(timers) -> Event]
      <4>1. /\ DOMAIN timers' = 1 .. Len(timers)
            /\ timers'[1] = [timers[1] EXCEPT !.delta = @ - 1]
            /\ \A k \in 1 .. Len(timers) : k # 1 => timers'[k] = timers[k]
        BY <1>3, <2>1, <2>3
      <4>2. \A k \in 1 .. Len(timers) : timers'[k] \in Event
        BY <1>3, <3>2, <4>1
      <4>3. timers' = [k \in DOMAIN timers' |-> timers'[k]]
        BY <2>3
      <4> QED
        BY <4>1, <4>2, <4>3
    <3> QED
      BY <1>3, <3>3, FunctionIsSeq
  <2>5. /\ timers'[1].delta = timers[1].delta - 1
        /\ \A k \in 1 .. Len(timers) : k # 1 => timers'[k].delta = timers[k].delta
        /\ \A k \in 1 .. Len(timers) : /\ timers'[k].due = timers[k].due
                             /\ timers'[k].target = timers[k].target
    BY <1>3, <2>1, <2>3 DEF Event
  <2>6. DeltasAddUp'
    <3> SUFFICES ASSUME NEW k \in 1 .. Len(timers)
                 PROVE  timers'[k].due = (IF k = 1 THEN now + 1 ELSE timers'[k - 1].due) + timers'[k].delta
      BY <1>1, <2>4 DEF DeltasAddUp, DueBefore
    <3>1. k # 1 => k - 1 \in 1 .. Len(timers)
      BY <1>3
    <3>2. timers[k].due = (IF k = 1 THEN now ELSE timers[k - 1].due) + timers[k].delta
      BY <1>2 DEF DeltasAddUp, DueBefore
    <3>3. CASE k = 1
      <4>1. timers[1].due = now + timers[1].delta
        BY <3>2, <3>3
      <4>2. timers[1].delta \in Nat /\ now \in Nat
        BY <1>3, <2>1
      <4>3. timers[1].due = now + 1 + (timers[1].delta - 1)
        BY <4>1, <4>2
      <4> QED
        BY <2>1, <2>5, <3>3, <4>3
    <3>4. CASE k # 1
      BY <1>3, <2>5, <3>1, <3>2, <3>4
    <3> QED
      BY <3>3, <3>4
  <2>7. InOrder' /\ DueInv'
    <3>1. InOrder'
      BY <1>2, <2>4, <2>5 DEF InOrder
    <3>2. DueInv'
      BY <1>1, <1>2, <2>4, <2>5 DEF DueInv
    <3> QED
      BY <3>1, <3>2
  <2> QED
    BY <1>4, <1>5, <2>4, <2>6, <2>7 DEF IInv
<1> QED
  BY <1>6, <1>7, <1>8

(* A due event leaves the queue: the next one counted from this very tick. *)
LEMMA PopClosureInv == ASSUME IInv, PopClosure PROVE IInv'
<1> DEFINE n == Len(timers)
<1>1. /\ pc = "drain" /\ pc' = pc /\ now' = now /\ ins' = ins /\ zeroArmed' = zeroArmed
      /\ timers # <<>> /\ timers[1].delta = 0 /\ timers' = Tail(timers)
  BY DEF PopClosure, FirstIsDue
<1>2. TypeOK /\ DeltasAddUp /\ InOrder /\ DueInv
  BY DEF IInv
<1>3. /\ n \in Nat /\ timers \in Seq(Event) /\ now \in Nat
      /\ \A k \in 1 .. n :
           /\ timers[k].delta \in Nat /\ timers[k].target \in Nat /\ timers[k].due \in Nat
  <2>1. timers \in Seq(Event) /\ now \in Nat
    BY <1>2 DEF TypeOK
  <2> QED
    BY <1>2, <2>1, QueueTypes
<1>4. 1 \in 1 .. n
  BY <1>1, <1>3
<1>5. /\ timers' \in Seq(Event) /\ Len(timers') = n - 1
      /\ \A k \in 1 .. n - 1 : timers'[k] = timers[k + 1]
  BY <1>1, <1>3
<1>6. timers[1].due = now
  <2>1. timers[1].due = DueBefore(1) + timers[1].delta
    BY <1>2, <1>4 DEF DeltasAddUp
  <2> QED
    BY <1>1, <1>3, <2>1 DEF DueBefore
<1>7. TypeOK'
  BY <1>1, <1>2, <1>5 DEF TypeOK
<1> HIDE DEF n
<1>8. DeltasAddUp'
  <2> SUFFICES ASSUME NEW k \in 1 .. n - 1
               PROVE  timers'[k].due = (IF k = 1 THEN now ELSE timers'[k - 1].due) + timers'[k].delta
    BY <1>1, <1>5 DEF DeltasAddUp, DueBefore
  <2>1. k + 1 \in 1 .. n /\ k + 1 # 1 /\ (k + 1) - 1 = k
    BY <1>3
  <2>2. timers[k + 1].due = timers[k].due + timers[k + 1].delta
    BY <1>2, <2>1 DEF DeltasAddUp, DueBefore, n
  <2>3. k # 1 => k - 1 \in 1 .. n - 1 /\ k - 1 + 1 = k
    BY <1>3
  <2> QED
    BY <1>5, <1>6, <2>2, <2>3
<1>9. InOrder' /\ DueInv'
  <2>1. \A k \in 1 .. n - 1 : k + 1 \in 1 .. n
    BY <1>3
  <2>2. InOrder'
    BY <1>2, <1>3, <1>5, <2>1 DEF InOrder, n
  <2>3. DueInv'
    BY <1>1, <1>2, <1>5, <2>1 DEF DueInv, n
  <2> QED
    BY <2>2, <2>3
<1>10. CursorInv' /\ HeadInv'
  BY <1>1 DEF CursorInv, HeadInv
<1> QED
  BY <1>7, <1>8, <1>9, <1>10 DEF IInv

(* The handler's loop ends with the head not due. *)
LEMMA DrainedInv == ASSUME IInv, Drained PROVE IInv'
<1>1. /\ pc' = "idle" /\ timers' = timers /\ now' = now /\ ins' = ins /\ zeroArmed' = zeroArmed
      /\ ~ FirstIsDue(timers)
  BY DEF Drained
<1>2. HeadInv' /\ CursorInv'
  BY <1>1 DEF HeadInv, CursorInv, FirstIsDue
<1>3. TypeOK'
  BY <1>1 DEF IInv, TypeOK
<1>4. DeltasAddUp' /\ InOrder' /\ DueInv'
  BY <1>1 DEF IInv, DeltasAddUp, InOrder, DueInv, DueBefore
<1> QED
  BY <1>2, <1>3, <1>4 DEF IInv

(* Every step of the timer queue, and stuttering, keeps the invariant. *)
THEOREM InductiveInv == ASSUME IInv, [Next]_vars PROVE IInv'
<1>1. ASSUME NEW ticks \in Delays, RunLater(ticks) PROVE IInv'
  BY <1>1, RunLaterInv
<1>2. CASE UNCHANGED vars
  BY <1>2 DEF vars, IInv, TypeOK, DeltasAddUp, InOrder, CursorInv, DueInv, HeadInv, DueBefore
<1> QED
  BY <1>1, <1>2, InsertAfterInv, InsertBeforeInv, InsertLastInv, TickInv, PopClosureInv,
     DrainedInv DEF Next

(* The deltas of TIMER_QUEUE add up in every reachable state. *)
THEOREM Invariance == Spec => []IInv
  BY InitInv, InductiveInv, PTL DEF Spec

(* The event in front, when it is due, is due now. *)
LEMMA HeadIsDueNow ==
  ASSUME IInv, FirstIsDue(timers)
  PROVE  1 \in 1 .. Len(timers) /\ timers[1].due = now /\ timers[1].target \in Nat
<1>1. TypeOK /\ DeltasAddUp
  BY DEF IInv
<1>2. timers \in Seq(Event) /\ timers # <<>> /\ timers[1].delta = 0 /\ now \in Nat
  BY <1>1 DEF TypeOK, FirstIsDue
<1>3. 1 \in 1 .. Len(timers)
  BY <1>2
<1>4. timers[1].due = now + 0
  BY <1>1, <1>2, <1>3 DEF DeltasAddUp, DueBefore
<1> QED
  BY <1>1, <1>2, <1>3, <1>4, QueueTypes

(* run_later's closure never runs before the tick run_later returned,      *)
(* whatever delays are asked for and however many timers are pending.      *)
THEOREM ClosuresNeverEarly == Spec => []NeverEarly
<1>1. ASSUME IInv PROVE NeverEarly
  <2> SUFFICES ASSUME FirstIsDue(timers) PROVE now >= timers[1].target
    BY DEF NeverEarly
  <2> QED
    BY <1>1, HeadIsDueNow DEF IInv, DueInv
<1> QED
  BY <1>1, Invariance, PTL

(* Without delays of zero, every closure runs at exactly that tick. *)
THEOREM ClosuresOnTime == Spec => []OnTime
<1>1. ASSUME IInv PROVE OnTime
  <2> SUFFICES ASSUME ~ zeroArmed
               PROVE  /\ pc = "drain" /\ FirstIsDue(timers) => now = timers[1].target
                      /\ pc # "drain" => \A k \in 1 .. Len(timers) : timers[k].target > now
    BY DEF OnTime
  <2>1. ASSUME FirstIsDue(timers) PROVE now = timers[1].target
    BY <1>1, <2>1, HeadIsDueNow DEF IInv, DueInv
  <2>2. ASSUME pc # "drain", NEW k \in 1 .. Len(timers) PROVE timers[k].target > now
    <3>1. TypeOK /\ DeltasAddUp /\ InOrder /\ DueInv /\ HeadInv
      BY <1>1 DEF IInv
    <3>2. timers \in Seq(Event) /\ now \in Nat
      BY <3>1 DEF TypeOK
    <3>3. 1 \in 1 .. Len(timers) /\ 1 <= k /\ timers # <<>>
      BY <3>2
    <3>4. timers[1].delta \in Nat /\ timers[1].due \in Nat /\ timers[k].due \in Nat
      BY <3>1, <3>3, QueueTypes
    <3>5. timers[1].delta # 0
      BY <2>2, <3>1, <3>3 DEF HeadInv, FirstIsDue
    <3>6. timers[1].due = now + timers[1].delta
      BY <3>1, <3>3 DEF DeltasAddUp, DueBefore
    <3>7. timers[1].due <= timers[k].due /\ timers[k].due = timers[k].target
      BY <3>1, <3>3 DEF InOrder, DueInv
    <3> QED
      BY <3>2, <3>4, <3>5, <3>6, <3>7
  <2> QED
    BY <2>1, <2>2
<1> QED
  BY <1>1, Invariance, PTL

-----------------------------------------------------------------------------

(* The deltas of q add up from tick t on. *)
AddsUp(q, t) ==
  \A k \in 1 .. Len(q) : q[k].due = (IF k = 1 THEN t ELSE q[k - 1].due) + q[k].delta

(* What the ghost `due` of an event stands for: its distance from now is   *)
(* the sum of the deltas up to it.                                         *)
LEMMA PlainDue ==
  ASSUME NEW q \in Seq(Event), NEW t \in Nat, AddsUp(q, t)
  PROVE  /\ IsTimers(Nat, Plain(q))
         /\ Len(q) \in Nat /\ Len(Plain(q)) = Len(q)
         /\ \A k \in 1 .. Len(q) : /\ Plain(q)[k].closure = q[k].target
                                   /\ q[k].due \in Nat
                                   /\ DueIn(Plain(q), k) = q[k].due - t
<1> DEFINE p == Plain(q)
           n == Len(q)
           E == [delta : Nat, closure : Nat]
<1>1. n \in Nat /\ DOMAIN q = 1 .. n
  OBVIOUS
<1>2. ASSUME NEW k \in 1 .. n
      PROVE  q[k].delta \in Nat /\ q[k].target \in Nat /\ q[k].due \in Nat
  <2>1. q[k] \in Event
    OBVIOUS
  <2> QED
    BY <2>1 DEF Event
<1>3. ASSUME NEW k \in 1 .. n
      PROVE  p[k] \in E /\ p[k].delta = q[k].delta /\ p[k].closure = q[k].target
  BY <1>1, <1>2 DEF Plain
<1>4. IsTimers(Nat, p) /\ Len(p) = n
  <2>1. p \in [1 .. n -> E]
    <3>1. p = [k \in 1 .. n |-> p[k]]
      BY <1>1 DEF Plain
    <3> HIDE DEF p, E
    <3> QED
      BY <1>3, <3>1
  <2>2. p \in Seq(E) /\ Len(p) = n
    <3> HIDE DEF p, E, n
    <3> QED
      BY <1>1, <2>1, FunctionIsSeq
  <2> QED
    BY <2>2 DEF IsTimers
<1> HIDE DEF p, n, E
<1>5. /\ DueIn(p, 0) = 0
      /\ \A i \in 0 .. n : DueIn(p, i) \in Nat
      /\ \A i \in 1 .. n : DueIn(p, i) = DueIn(p, i - 1) + p[i].delta
  BY <1>4, EventsOf
<1>6. \A k \in 1 .. n : q[k].due = (IF k = 1 THEN t ELSE q[k - 1].due) + q[k].delta
  BY DEF AddsUp, n
<1> DEFINE Good == {k \in 0 .. n : k = 0 \/ DueIn(p, k) = q[k].due - t}
<1>7. 0 \in Good
  BY <1>1
<1>8. ASSUME NEW k \in 1 .. n, k - 1 \in Good PROVE k \in Good
  <2>1. DueIn(p, k) = DueIn(p, k - 1) + q[k].delta
    BY <1>3, <1>5
  <2>2. CASE k = 1
    <3>1. q[k].due = t + q[k].delta /\ k - 1 = 0
      BY <1>6, <2>2
    <3> QED
      BY <1>2, <1>5, <2>1, <3>1
  <2>3. CASE k # 1
    <3>1. k - 1 \in 1 .. n /\ k - 1 # 0
      BY <1>1, <2>3
    <3>2. DueIn(p, k - 1) = q[k - 1].due - t
      BY <1>8, <3>1
    <3>3. q[k].due = q[k - 1].due + q[k].delta
      BY <1>6, <2>3
    <3>4. q[k - 1].due \in Nat /\ q[k].due \in Nat /\ q[k].delta \in Nat
      BY <1>2, <3>1
    <3>5. DueIn(p, k) = q[k].due - t
      <4> HIDE DEF Good
      <4> QED
        BY <2>1, <3>2, <3>3, <3>4
    <3> QED
      BY <1>1, <3>5
  <2> QED
    BY <2>2, <2>3
<1>9. \A k \in 0 .. n : k \in Good
  <2> HIDE DEF Good
  <2> QED
    BY <1>1, <1>7, <1>8, InductionUpTo
<1>10. ASSUME NEW k \in 1 .. n PROVE DueIn(p, k) = q[k].due - t
  <2>1. k \in 0 .. n /\ k # 0
    BY <1>1
  <2> QED
    BY <1>9, <2>1
<1> QED
  BY <1>1, <1>2, <1>3, <1>4, <1>10 DEF p, n

(* q and r run the same closures in the same order after the same times. *)
SameTimes(q, r) ==
  /\ Len(q) = Len(r)
  /\ \A k \in 1 .. Len(q) : q[k].closure = r[k].closure /\ DueIn(q, k) = DueIn(r, k)

(* The times determine the deltas: TimerQueue has one way to hold events.  *)
LEMMA TimesDetermine ==
  ASSUME NEW C, NEW q, IsTimers(C, q), NEW r, IsTimers(C, r), SameTimes(q, r)
  PROVE  q = r
<1> DEFINE n == Len(q)
           E == [delta : Nat, closure : C]
<1>1. q \in Seq(E) /\ r \in Seq(E)
  BY DEF IsTimers
<1>2. /\ n \in Nat /\ Len(r) = n
      /\ \A k \in 1 .. n : q[k].closure = r[k].closure /\ DueIn(q, k) = DueIn(r, k)
  BY EventsOf DEF SameTimes
<1>3. /\ \A i \in 1 .. n : q[i].delta \in Nat
      /\ DueIn(q, 0) = 0
      /\ \A i \in 0 .. n : DueIn(q, i) \in Nat
      /\ \A i \in 1 .. n : DueIn(q, i) = DueIn(q, i - 1) + q[i].delta
  BY EventsOf
<1>4. /\ \A i \in 1 .. Len(r) : r[i].delta \in Nat
      /\ DueIn(r, 0) = 0
      /\ \A i \in 1 .. Len(r) : DueIn(r, i) = DueIn(r, i - 1) + r[i].delta
  BY EventsOf
<1>5. \A k \in 1 .. n : q[k] \in E /\ r[k] \in E
  <2> HIDE DEF E
  <2> QED
    BY <1>1, <1>2
<1> HIDE DEF n
<1>6. ASSUME NEW k \in 1 .. n PROVE q[k] = r[k]
  <2>1. q[k].delta = r[k].delta
    <3> HIDE DEF E
    <3>1. k - 1 \in 0 .. n /\ k \in 0 .. n /\ k \in 1 .. Len(r)
      BY <1>2
    <3>2. DueIn(q, k - 1) = DueIn(r, k - 1)
      <4>1. CASE k = 1
        BY <1>3, <1>4, <4>1
      <4>2. CASE k # 1
        <5>1. k - 1 \in 1 .. n
          BY <1>2, <4>2
        <5> QED
          BY <1>2, <5>1
      <4> QED
        BY <4>1, <4>2
    <3>3. /\ DueIn(q, k) = DueIn(q, k - 1) + q[k].delta
          /\ DueIn(q, k) = DueIn(q, k - 1) + r[k].delta
          /\ DueIn(q, k - 1) \in Nat /\ q[k].delta \in Nat /\ r[k].delta \in Nat
      BY <1>2, <1>3, <1>4, <3>1, <3>2
    <3> QED
      BY <3>3
  <2> QED
    BY <1>2, <1>5, <2>1
<1> QED
  <2> HIDE DEF E
  <2> QED
    BY <1>1, <1>2, <1>6 DEF n

(* Where insert() stops in the loop is where InsertIndex says. *)
LEMMA CursorIsInsertIndex ==
  ASSUME IInv, pc = "insert",
         ins.i <= Len(timers) => ins.ticks < timers[ins.i].delta
  PROVE  /\ ins.target - now \in Nat
         /\ InsertIndex(Plain(timers), ins.target - now) = ins.i
         /\ ins.i \in 1 .. Len(timers) + 1
<1> DEFINE p == Plain(timers)
           n == Len(timers)
           i == ins.i
           ticks == ins.target - now
           at == InsertIndex(p, ticks)
<1>1. TypeOK /\ DeltasAddUp /\ CursorInv
  BY DEF IInv
<1>2. /\ timers \in Seq(Event) /\ now \in Nat /\ AddsUp(timers, now)
      /\ i \in Nat \ {0} /\ ins.ticks \in Nat /\ ins.target \in Nat
  BY <1>1, CursorTypes DEF TypeOK, DeltasAddUp, AddsUp, DueBefore
<1>3. /\ IsTimers(Nat, p)
      /\ n \in Nat /\ Len(p) = n
      /\ \A k \in 1 .. n : timers[k].due \in Nat /\ DueIn(p, k) = timers[k].due - now
  BY <1>2, PlainDue
<1>4. i <= n + 1 /\ DueBefore(i) + ins.ticks = ins.target
  BY <1>1 DEF CursorInv
<1>5. /\ DueIn(p, 0) = 0
      /\ \A k \in 0 .. n : DueIn(p, k) \in Nat
      /\ \A k \in 1 .. n : DueIn(p, k) = DueIn(p, k - 1) + p[k].delta
  BY <1>3, EventsOf
<1>6. \A k \in 1 .. n : p[k].delta = timers[k].delta
  BY <1>2 DEF Plain
<1>7. i <= n => ins.ticks < timers[i].delta /\ timers[i].delta \in Nat
  BY <1>1, <1>2, QueueTypes
<1> HIDE DEF p, n, i
<1>8. i \in 1 .. n + 1 /\ i - 1 \in 0 .. n
  BY <1>2, <1>3, <1>4
<1>9. DueIn(p, i - 1) + ins.ticks = ticks /\ DueIn(p, i - 1) \in Nat
  <2>1. CASE i = 1
    <3>1. DueBefore(i) = now /\ i - 1 = 0
      BY <2>1 DEF DueBefore
    <3> QED
      BY <1>2, <1>4, <1>5, <3>1
  <2>2. CASE i # 1
    <3>1. DueBefore(i) = timers[i - 1].due /\ i - 1 \in 1 .. n
      BY <1>8, <1>3, <2>2 DEF DueBefore
    <3>2. DueIn(p, i - 1) = timers[i - 1].due - now /\ timers[i - 1].due \in Nat
      BY <1>3, <3>1
    <3>3. DueIn(p, i - 1) \in Nat
      BY <1>5, <1>8
    <3>4. now \in Nat /\ ins.ticks \in Nat /\ ins.target \in Nat
      BY <1>2
    <3>5. timers[i - 1].due + ins.ticks = ins.target
      BY <1>4, <3>1
    <3> QED
      BY <3>2, <3>3, <3>4, <3>5
  <2> QED
    BY <2>1, <2>2
<1> HIDE DEF ticks
<1>10. ticks \in Nat
  BY <1>2, <1>9
<1>11. /\ at \in 1 .. n + 1
       /\ \A k \in 1 .. n : ticks < DueIn(p, k) <=> k >= at
  BY <1>3, <1>10, InsertIndexStops
<1> HIDE DEF at
<1>12. i <= n => i >= at
  <2> SUFFICES ASSUME i <= n PROVE i >= at
    OBVIOUS
  <2>1. i \in 1 .. n
    BY <1>3, <1>8
  <2>2. DueIn(p, i) = DueIn(p, i - 1) + timers[i].delta
    BY <1>5, <1>6, <2>1
  <2>3. ticks < DueIn(p, i)
    BY <1>2, <1>7, <1>9, <2>2
  <2> QED
    BY <1>11, <2>1, <2>3
<1>13. ASSUME i # 1 PROVE ~ (i - 1 >= at)
  <2>1. i - 1 \in 1 .. n
    BY <1>3, <1>8, <1>13
  <2>2. ~ (ticks < DueIn(p, i - 1))
    BY <1>2, <1>9
  <2> QED
    BY <1>11, <2>1, <2>2
<1>14. at = i
  BY <1>3, <1>8, <1>11, <1>12, <1>13
<1> QED
  BY <1>8, <1>10, <1>14 DEF at, p, i, ticks, n

(* The step that ends insert() puts the new event at the cursor and leaves *)
(* the others where they were, due when they were.                         *)
LEMMA InsertStep ==
  ASSUME IInv, InsertBefore \/ InsertLast
  PROVE  /\ Len(timers') = Len(timers) + 1
         /\ \A k \in 1 .. ins.i - 1 : timers'[k].target = timers[k].target
                                      /\ timers'[k].due = timers[k].due
         /\ timers'[ins.i].target = ins.target /\ timers'[ins.i].due = ins.target
         /\ \A k \in ins.i .. Len(timers) : timers'[k + 1].target = timers[k].target
                                            /\ timers'[k + 1].due = timers[k].due
<1> DEFINE n == Len(timers)
<1>1. pc = "insert"
  BY DEF InsertBefore, InsertLast
<1>2. /\ NewEvent \in Event /\ NewEvent.due = NewEvent.target /\ NewEvent.target = ins.target
  BY <1>1, NewEventDue DEF NewEvent
<1>3. TypeOK /\ CursorInv
  BY DEF IInv
<1>4. /\ timers \in Seq(Event) /\ n \in Nat /\ ins.i \in Nat \ {0} /\ ins.i <= n + 1
      /\ ins.ticks \in Nat
      /\ \A k \in 1 .. n : timers[k] \in Event
  BY <1>1, <1>3, CursorTypes, QueueTypes DEF TypeOK, CursorInv
<1>5. TypeOK'
  BY InductiveInv DEF Next, IInv
<1>6. CASE InsertLast
  <2>1. timers' = Append(timers, NewEvent) /\ ins.i = n + 1
    BY <1>4, <1>6 DEF InsertLast
  <2> HIDE DEF NewEvent
  <2>2. /\ Len(timers') = n + 1 /\ timers'[n + 1] = NewEvent
        /\ \A k \in 1 .. n : timers'[k] = timers[k]
    BY <1>2, <1>4, <2>1
  <2> HIDE DEF n
  <2> QED
    BY <1>2, <1>4, <2>1, <2>2 DEF n
<1>7. CASE InsertBefore
  <2> DEFINE behind == [timers[ins.i] EXCEPT !.delta = @ - ins.ticks]
  <2>1. /\ ins.i <= n
        /\ timers' = [k \in 1 .. n + 1 |->
                        CASE k < ins.i -> timers[k]
                          [] k = ins.i -> NewEvent
                          [] k = ins.i + 1 -> [timers[k - 1] EXCEPT !.delta = @ - ins.ticks]
                          [] OTHER -> timers[k - 1]]
    BY <1>7 DEF InsertBefore
  <2> HIDE DEF n, behind
  <2>2. /\ \A k \in 1 .. ins.i - 1 : timers'[k] = timers[k]
        /\ timers'[ins.i] = NewEvent
        /\ timers'[ins.i + 1] = behind
        /\ \A k \in ins.i + 1 .. n : timers'[k + 1] = timers[k]
        /\ DOMAIN timers' = 1 .. n + 1
    <3>1. n \in Nat /\ ins.i \in Nat /\ ins.i \in 1 .. n /\ ins.i + 1 - 1 = ins.i
      BY <1>4, <2>1
    <3>2. timers' = [k \in 1 .. n + 1 |->
                      CASE k < ins.i -> timers[k]
                        [] k = ins.i -> NewEvent
                        [] k = ins.i + 1 -> behind
                        [] OTHER -> timers[k - 1]]
      BY <2>1, <3>1 DEF behind
    <3>3. ASSUME NEW k \in ins.i + 1 .. n PROVE timers'[k + 1] = timers[k]
      <4>1. k + 1 \in 1 .. n + 1 /\ k + 1 > ins.i + 1 /\ k + 1 - 1 = k
        BY <3>1
      <4> QED
        BY <3>1, <3>2, <4>1
    <3> QED
      BY <3>1, <3>2, <3>3
  <2>3. behind.target = timers[ins.i].target /\ behind.due = timers[ins.i].due
    <3>1. timers[ins.i] \in Event
      BY <1>4, <2>1
    <3> QED
      BY <3>1 DEF Event, behind
  <2>4. Len(timers') = n + 1
    <3>1. timers' \in Seq(Event)
      BY <1>5 DEF TypeOK
    <3> QED
      BY <1>4, <2>2, <3>1
  <2>5. ASSUME NEW k \in ins.i .. n
        PROVE  timers'[k + 1].target = timers[k].target /\ timers'[k + 1].due = timers[k].due
    <3>1. k = ins.i \/ k \in ins.i + 1 .. n
      BY <1>4
    <3> QED
      BY <2>2, <2>3, <3>1
  <2> QED
    BY <1>2, <2>2, <2>4, <2>5 DEF n
<1> QED
  BY <1>6, <1>7

(* The step that ends the loop of insert() computes InsertTimer. *)
LEMMA InsertStepIsInsertTimer ==
  ASSUME IInv, InsertBefore \/ InsertLast
  PROVE  Plain(timers') = InsertTimer(Plain(timers), ins.target - now, ins.target)
<1> DEFINE p == Plain(timers)
           q == Plain(timers')
           n == Len(timers)
           i == ins.i
           ticks == ins.target - now
           r == InsertTimer(p, ticks, ins.target)
<1>1. pc = "insert" /\ (i <= n => ins.ticks < timers[i].delta) /\ now' = now
  BY DEF InsertBefore, InsertLast, TypeOK, IInv, CursorInv
<1>2. ticks \in Nat /\ InsertIndex(p, ticks) = i /\ i \in 1 .. n + 1
  BY <1>1, CursorIsInsertIndex
<1>3. /\ timers \in Seq(Event) /\ now \in Nat /\ AddsUp(timers, now) /\ ins.target \in Nat
  BY CursorTypes DEF IInv, TypeOK, DeltasAddUp, AddsUp, DueBefore
<1>4. /\ IsTimers(Nat, p) /\ n \in Nat /\ Len(p) = n
      /\ \A k \in 1 .. n : /\ p[k].closure = timers[k].target
                           /\ DueIn(p, k) = timers[k].due - now
  BY <1>3, PlainDue
<1>5. timers' \in Seq(Event) /\ AddsUp(timers', now)
  <2>1. TypeOK' /\ DeltasAddUp'
    BY InductiveInv DEF Next, IInv
  <2> QED
    BY <1>1, <2>1 DEF TypeOK, DeltasAddUp, AddsUp, DueBefore
<1>6. /\ IsTimers(Nat, q) /\ Len(q) = Len(timers')
      /\ \A k \in 1 .. Len(timers') : /\ q[k].closure = timers'[k].target
                                      /\ DueIn(q, k) = timers'[k].due - now
  BY <1>3, <1>5, PlainDue
<1>7. IsInsertion(Nat, p, ticks, ins.target, i, r)
  BY <1>2, <1>3, <1>4, InsertDue
<1>8. /\ Len(timers') = n + 1
      /\ \A k \in 1 .. i - 1 : timers'[k].target = timers[k].target /\ timers'[k].due = timers[k].due
      /\ timers'[i].target = ins.target /\ timers'[i].due = ins.target
      /\ \A k \in i .. n : /\ timers'[k + 1].target = timers[k].target
                           /\ timers'[k + 1].due = timers[k].due
  BY InsertStep
<1> HIDE DEF p, q, r, n, i
<1>9. /\ IsTimers(Nat, r) /\ Len(r) = n + 1
      /\ r[i].closure = ins.target /\ DueIn(r, i) = ticks
      /\ \A k \in 1 .. i - 1 : r[k] = p[k] /\ DueIn(r, k) = DueIn(p, k)
      /\ \A k \in i .. n : r[k + 1].closure = p[k].closure /\ DueIn(r, k + 1) = DueIn(p, k)
  BY <1>4, <1>7 DEF IsInsertion
<1>10. ASSUME NEW k \in 1 .. n + 1
       PROVE  q[k].closure = r[k].closure /\ DueIn(q, k) = DueIn(r, k)
  <2>1. q[k].closure = timers'[k].target /\ DueIn(q, k) = timers'[k].due - now
    BY <1>6, <1>8
  <2>2. CASE k < i
    <3>1. k \in 1 .. i - 1 /\ k \in 1 .. n
      BY <1>2, <1>4, <2>2
    <3> QED
      BY <1>4, <1>8, <1>9, <2>1, <3>1
  <2>3. CASE k = i
    BY <1>8, <1>9, <2>1, <2>3
  <2>4. CASE k > i
    <3> DEFINE j == k - 1
    <3>1. j \in i .. n /\ j \in 1 .. n /\ k = j + 1
      BY <1>2, <1>4, <2>4
    <3> HIDE DEF j
    <3> QED
      BY <1>4, <1>8, <1>9, <2>1, <3>1
  <2> QED
    BY <1>2, <1>4, <2>2, <2>3, <2>4
<1>11. SameTimes(q, r)
  BY <1>6, <1>8, <1>9, <1>10 DEF SameTimes
<1>12. q = r
  BY <1>6, <1>9, <1>11, TimesDetermine
<1> QED
  BY <1>12 DEF p, q, r

(* The loop of insert() computes InsertTimer, on queues of any length: the *)
(* operator that Kernel and Executor use for TIMER_QUEUE is the code's.    *)
THEOREM InsertRefined == Spec => InsertIsInsertTimer
<1>1. ASSUME IInv, [Next]_vars
      PROVE  [pc = "insert" /\ pc' = "idle" =>
                Plain(timers') = InsertTimer(Plain(timers), ins.target - now, ins.target)]_vars
  <2> SUFFICES ASSUME pc = "insert", pc' = "idle"
               PROVE  Plain(timers') = InsertTimer(Plain(timers), ins.target - now, ins.target)
    OBVIOUS
  <2>1. InsertBefore \/ InsertLast
    BY <1>1 DEF Next, RunLater, InsertAfter, Tick, PopClosure, Drained, vars
  <2> QED
    BY <1>1, <2>1, InsertStepIsInsertTimer
<1> QED
  BY <1>1, Invariance, PTL DEF Spec, InsertIsInsertTimer
=============================================================================
