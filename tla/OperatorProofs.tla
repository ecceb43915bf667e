--------------------------- MODULE OperatorProofs ---------------------------
(***************************************************************************)
(* What the operators compute that the components are built from, for all  *)
(* arguments.                                                              *)
(*                                                                         *)
(* - push_back and pop_front of a VecDeque, on a queue that holds no value *)
(*   twice.                                                                *)
(* - insert(), tick() and pop_closure() of TimerQueue: the time at which   *)
(*   each event is due, for queues of any length.  It is a sum of deltas   *)
(*   (DueIn), so the facts about it are proved by induction: over a set of *)
(*   numbers, from the least number that is not in it.                     *)
(* - fill() sets the pixels of its rectangle and touches nothing else, and *)
(*   blit() cuts its rectangle into parts that cover it exactly, for       *)
(*   images and rectangles of any size.                                    *)
(***************************************************************************)
EXTENDS Queues, Timers, Counting, SurfaceParts, FiniteSetTheorems, WellFoundedInduction, TLAPS

(* What push_back does to a queue. *)
LEMMA AppendElements ==
  ASSUME NEW S, NEW q \in Seq(S), NEW e \in S
  PROVE  /\ Append(q, e) \in Seq(S)
         /\ Len(Append(q, e)) = Len(q) + 1
         /\ \A i \in 1 .. Len(q) : Append(q, e)[i] = q[i]
         /\ Append(q, e)[Len(q) + 1] = e
  OBVIOUS

(* What pop_front does to a queue. *)
LEMMA TailElements ==
  ASSUME NEW S, NEW q \in Seq(S), q # <<>>
  PROVE  /\ Len(q) \in Nat /\ Len(q) >= 1
         /\ Head(q) = q[1] /\ Head(q) \in S
         /\ Tail(q) \in Seq(S)
         /\ Len(Tail(q)) = Len(q) - 1
         /\ \A i \in 1 .. Len(q) - 1 : Tail(q)[i] = q[i + 1]
  OBVIOUS

(* push_back of a value the queue does not hold. *)
LEMMA PushBack ==
  ASSUME NEW S, NEW q \in Seq(S), NEW e \in S, Distinct(q), ~ Holds(q, e)
  PROVE  /\ Append(q, e) \in Seq(S)
         /\ Distinct(Append(q, e))
         /\ \A x : Holds(Append(q, e), x) <=> Holds(q, x) \/ x = e
<1> DEFINE r == Append(q, e)
<1>1. /\ r \in Seq(S)
      /\ Len(r) = Len(q) + 1
      /\ \A i \in 1 .. Len(q) : r[i] = q[i]
      /\ r[Len(q) + 1] = e
      /\ Len(q) \in Nat
  BY AppendElements
<1> HIDE DEF r
<1>2. Distinct(r)
  BY <1>1 DEF Distinct, Holds
<1>3. ASSUME NEW x PROVE Holds(r, x) <=> Holds(q, x) \/ x = e
  <2>1. ASSUME Holds(q, x) PROVE Holds(r, x)
    <3>1. PICK i \in 1 .. Len(q) : q[i] = x
      BY <2>1 DEF Holds
    <3>2. i \in 1 .. Len(r) /\ r[i] = x
      BY <1>1, <3>1
    <3> QED
      BY <3>2 DEF Holds
  <2>2. ASSUME x = e PROVE Holds(r, x)
    <3>1. Len(q) + 1 \in 1 .. Len(r)
      BY <1>1
    <3> QED
      BY <1>1, <2>2, <3>1 DEF Holds
  <2>3. ASSUME Holds(r, x) PROVE Holds(q, x) \/ x = e
    <3>1. PICK i \in 1 .. Len(r) : r[i] = x
      BY <2>3 DEF Holds
    <3>2. i \in 1 .. Len(q) \/ i = Len(q) + 1
      BY <1>1
    <3> QED
      BY <1>1, <3>1, <3>2 DEF Holds
  <2> QED
    BY <2>1, <2>2, <2>3
<1> QED
  BY <1>1, <1>2, <1>3 DEF r

(* pop_front of a queue without duplicates. *)
LEMMA PopFront ==
  ASSUME NEW S, NEW q \in Seq(S), q # <<>>, Distinct(q)
  PROVE  /\ Head(q) \in S
         /\ Holds(q, Head(q))
         /\ Tail(q) \in Seq(S)
         /\ Distinct(Tail(q))
         /\ \A x : Holds(Tail(q), x) <=> Holds(q, x) /\ x # Head(q)
<1> DEFINE r == Tail(q)
           h == Head(q)
<1>1. /\ Len(q) \in Nat /\ Len(q) >= 1
      /\ h = q[1] /\ h \in S
      /\ r \in Seq(S)
      /\ Len(r) = Len(q) - 1
      /\ \A i \in 1 .. Len(q) - 1 : r[i] = q[i + 1]
  BY TailElements
<1> HIDE DEF r, h
<1>2. 1 \in 1 .. Len(q)
  BY <1>1
<1>3. ASSUME NEW i \in 1 .. Len(r)
      PROVE  i + 1 \in 1 .. Len(q) /\ r[i] = q[i + 1] /\ r[i] # h
  BY <1>1, <1>2 DEF Distinct
<1>4. Distinct(r)
  BY <1>1, <1>3 DEF Distinct
<1>5. ASSUME NEW x PROVE Holds(r, x) <=> Holds(q, x) /\ x # h
  <2>1. ASSUME Holds(r, x) PROVE Holds(q, x) /\ x # h
    BY <1>3, <2>1 DEF Holds
  <2>2. ASSUME Holds(q, x), x # h PROVE Holds(r, x)
    <3>1. PICK i \in 1 .. Len(q) : q[i] = x
      BY <2>2 DEF Holds
    <3>2. i # 1
      BY <1>1, <2>2, <3>1
    <3>3. i - 1 \in 1 .. Len(r) /\ r[i - 1] = q[i]
      BY <1>1, <3>2
    <3> QED
      BY <3>1, <3>3 DEF Holds
  <2> QED
    BY <2>1, <2>2
<1>6. Holds(q, h)
  BY <1>1, <1>2 DEF Holds
<1> QED
  BY <1>1, <1>4, <1>5, <1>6 DEF r, h

-----------------------------------------------------------------------------

(* Every set of numbers has a least one: where insert() stops, and what    *)
(* the inductions over the queue start from.                               *)
LEMMA LeastNat ==
  ASSUME NEW T, T \subseteq Nat, T # {}
  PROVE  \E n \in T : \A m \in T : n <= m
<1> DEFINE R == {ss \in Nat \X Nat : ss[1] < ss[2]}
<1>1. IsWellFoundedOn(R, Nat)
  BY NatLessThanWellFounded, Zenon DEF OpToRel
<1> HIDE DEF R
<1>2. PICK n \in T : \A m \in T : ~ (<<m, n>> \in R)
  BY <1>1, WFMin, Zenon
<1>3. ASSUME NEW m \in T PROVE n <= m
  <2>1. m \in Nat /\ n \in Nat OBVIOUS
  <2>2. <<m, n>> \in Nat \X Nat /\ <<m, n>>[1] = m /\ <<m, n>>[2] = n BY <2>1
  <2>3. m < n => <<m, n>> \in R
    <3> DEFINE ss == <<m, n>>
    <3>1. ss \in Nat \X Nat /\ ss[1] = m /\ ss[2] = n BY <2>2
    <3> HIDE DEF ss
    <3>2. m < n => ss \in R BY <3>1 DEF R
    <3> QED BY <3>2 DEF ss
  <2> QED BY <1>2, <2>1, <2>3
<1> QED BY <1>3

(* Induction over the positions 0 .. n of a queue, for a set of positions. *)
LEMMA InductionUpTo ==
  ASSUME NEW n \in Nat, NEW Good,
         0 \in Good,
         \A k \in 1 .. n : k - 1 \in Good => k \in Good
  PROVE  \A k \in 0 .. n : k \in Good
<1> DEFINE T == {k \in 0 .. n : k \notin Good}
<1> SUFFICES ASSUME T # {} PROVE FALSE
  OBVIOUS
<1>1. PICK k \in T : \A m \in T : k <= m
  BY LeastNat, T \subseteq Nat
<1>2. k # 0 /\ k \in 1 .. n /\ k - 1 \in 0 .. n
  BY <1>1
<1>3. k - 1 \in Good
  BY <1>1, <1>2
<1> QED
  BY <1>1, <1>2, <1>3

(* f adds up the deltas of the first n events of q. *)
IsSum(q, n, f) == /\ f \in [0 .. n -> Nat]
                  /\ f[0] = 0
                  /\ \A k \in 1 .. n : f[k] = f[k - 1] + q[k].delta

(* The deltas of a queue can be added up, so DueIn is well defined. *)
LEMMA SumExists ==
  ASSUME NEW q, Len(q) \in Nat, \A i \in 1 .. Len(q) : q[i].delta \in Nat
  PROVE  \E f : IsSum(q, Len(q), f)
<1> DEFINE Good == {n \in 0 .. Len(q) : \E f : IsSum(q, n, f)}
<1>1. 0 \in Good
  <2> DEFINE f == [k \in 0 .. 0 |-> 0]
  <2>1. IsSum(q, 0, f)
    BY DEF IsSum
  <2> QED
    BY <2>1
<1>2. ASSUME NEW n \in 1 .. Len(q), n - 1 \in Good PROVE n \in Good
  <2>1. PICK f : IsSum(q, n - 1, f)
    BY <1>2
  <2> DEFINE g == [k \in 0 .. n |-> IF k < n THEN f[k] ELSE f[n - 1] + q[n].delta]
  <2>2. g \in [0 .. n -> Nat]
    BY <2>1 DEF IsSum
  <2>3. g[0] = 0
    BY <2>1 DEF IsSum
  <2>4. ASSUME NEW k \in 1 .. n PROVE g[k] = g[k - 1] + q[k].delta
    BY <2>1 DEF IsSum
  <2>5. IsSum(q, n, g)
    BY <2>2, <2>3, <2>4 DEF IsSum
  <2> QED
    BY <2>5
<1> HIDE DEF Good
<1>3. \A n \in 0 .. Len(q) : n \in Good
  BY <1>1, <1>2, InductionUpTo
<1> QED
  BY <1>3 DEF Good

(* The time of an event is that of the event in front plus its own delta,  *)
(* which is what the deltas of TimerQueue mean.                            *)
LEMMA DueInIsSum ==
  ASSUME NEW q, Len(q) \in Nat, \A i \in 1 .. Len(q) : q[i].delta \in Nat
  PROVE  /\ DueIn(q, 0) = 0
         /\ \A i \in 0 .. Len(q) : DueIn(q, i) \in Nat
         /\ \A i \in 1 .. Len(q) : DueIn(q, i) = DueIn(q, i - 1) + q[i].delta
<1> DEFINE F(f) == [k \in 0 .. Len(q) |-> IF k = 0 THEN 0 ELSE f[k - 1] + q[k].delta]
           sum == CHOOSE f : f = F(f)
<1>1. \E f : f = F(f)
  <2>1. PICK f : IsSum(q, Len(q), f)
    BY SumExists
  <2>2. f = F(f)
    BY <2>1 DEF IsSum
  <2> QED
    BY <2>2
<1>2. sum = F(sum)
  BY <1>1
<1>3. \A i : DueIn(q, i) = sum[i]
  BY Zenon DEF DueIn
<1> HIDE DEF sum
<1>4. sum[0] = 0 /\ \A i \in 1 .. Len(q) : sum[i] = sum[i - 1] + q[i].delta
  BY <1>2
<1>5. \A i \in 0 .. Len(q) : sum[i] \in Nat
  <2> DEFINE Good == {i \in 0 .. Len(q) : sum[i] \in Nat}
  <2>1. 0 \in Good
    BY <1>4
  <2>2. \A k \in 1 .. Len(q) : k - 1 \in Good => k \in Good
    BY <1>4
  <2> HIDE DEF Good
  <2>3. \A k \in 0 .. Len(q) : k \in Good
    BY <2>1, <2>2, InductionUpTo
  <2> QED
    BY <2>3 DEF Good
<1> QED
  BY <1>3, <1>4, <1>5

(* The same, and the types of the events of a timer queue. *)
LEMMA EventsOf ==
  ASSUME NEW C, NEW q, IsTimers(C, q)
  PROVE  /\ Len(q) \in Nat
         /\ \A i \in 1 .. Len(q) : q[i].delta \in Nat /\ q[i].closure \in C
         /\ DueIn(q, 0) = 0
         /\ \A i \in 0 .. Len(q) : DueIn(q, i) \in Nat
         /\ \A i \in 1 .. Len(q) : DueIn(q, i) = DueIn(q, i - 1) + q[i].delta
<1> DEFINE E == [delta : Nat, closure : C]
<1>1. q \in Seq(E)
  BY DEF IsTimers
<1>2. \A e \in E : e.delta \in Nat /\ e.closure \in C
  OBVIOUS
<1> HIDE DEF E
<1>3. Len(q) \in Nat /\ \A i \in 1 .. Len(q) : q[i] \in E
  BY <1>1
<1>4. \A i \in 1 .. Len(q) : q[i].delta \in Nat /\ q[i].closure \in C
  BY <1>2, <1>3
<1> QED
  BY <1>3, <1>4, DueInIsSum

(* f adds up n deltas d, both as functions, without the queue they are of. *)
Sums(n, f, d) ==
  /\ n \in Nat /\ f \in [0 .. n -> Nat] /\ d \in [1 .. n -> Nat]
  /\ f[0] = 0
  /\ \A i \in 1 .. n : f[i] = f[i - 1] + d[i]

(* The times of q as a function. *)
Due(q) == [i \in 0 .. Len(q) |-> DueIn(q, i)]

(* The deltas of q as a function. *)
Deltas(q) == [i \in 1 .. Len(q) |-> q[i].delta]

(* The times of a timer queue are the sums of its deltas. *)
LEMMA DueIsSums ==
  ASSUME NEW C, NEW q, IsTimers(C, q)
  PROVE  Sums(Len(q), Due(q), Deltas(q))
<1> DEFINE n == Len(q)
           f == Due(q)
           d == Deltas(q)
<1>1. /\ n \in Nat
      /\ \A i \in 1 .. n : q[i].delta \in Nat
      /\ DueIn(q, 0) = 0
      /\ \A i \in 0 .. n : DueIn(q, i) \in Nat
      /\ \A i \in 1 .. n : DueIn(q, i) = DueIn(q, i - 1) + q[i].delta
  BY EventsOf
<1>2. f = [i \in 0 .. n |-> DueIn(q, i)] /\ d = [i \in 1 .. n |-> q[i].delta]
  BY DEF Due, Deltas
<1> HIDE DEF n, f, d
<1>3. f \in [0 .. n -> Nat] /\ d \in [1 .. n -> Nat] /\ f[0] = 0
  BY <1>1, <1>2
<1>4. ASSUME NEW i \in 1 .. n PROVE f[i] = f[i - 1] + d[i]
  <2>1. i \in 0 .. n /\ i - 1 \in 0 .. n
    BY <1>1
  <2>2. f[i] = DueIn(q, i) /\ f[i - 1] = DueIn(q, i - 1) /\ d[i] = q[i].delta
    BY <1>2, <2>1
  <2> QED
    BY <1>1, <2>2
<1> QED
  BY <1>1, <1>3, <1>4 DEF Sums, n, f, d

(* The len deltas of d behind m are those of e behind n; and so the sums. *)
SameDeltas(d, m, e, n, len) == \A k \in 1 .. len : d[m + k] = e[n + k]
SameSums(f, m, g, n, len) == \A k \in 0 .. len : f[m + k] + g[n] = g[n + k] + f[m]

(* Equal deltas have equal sums: what insert() and pop_closure() leave      *)
(* alone keeps its distances in time.                                      *)
LEMMA SumsFrom ==
  ASSUME NEW nq, NEW f, NEW d, Sums(nq, f, d), NEW nr, NEW g, NEW e, Sums(nr, g, e),
         NEW m \in Nat, NEW n \in Nat, NEW len \in Nat, m + len <= nq, n + len <= nr,
         SameDeltas(d, m, e, n, len)
  PROVE  SameSums(f, m, g, n, len)
<1>1. nq \in Nat /\ nr \in Nat
  BY DEF Sums
<1>2. ASSUME NEW i \in 1 .. nq
      PROVE  f[i] \in Nat /\ f[i - 1] \in Nat /\ d[i] \in Nat /\ f[i] = f[i - 1] + d[i]
  BY <1>1, i - 1 \in 0 .. nq DEF Sums
<1>3. ASSUME NEW i \in 1 .. nr
      PROVE  g[i] \in Nat /\ g[i - 1] \in Nat /\ e[i] \in Nat /\ g[i] = g[i - 1] + e[i]
  BY <1>1, i - 1 \in 0 .. nr DEF Sums
<1>4. f[m] \in Nat /\ g[n] \in Nat
  BY <1>1, m \in 0 .. nq, n \in 0 .. nr DEF Sums
<1> DEFINE Good == {k \in 0 .. len : f[m + k] + g[n] = g[n + k] + f[m]}
<1>5. 0 \in Good
  BY <1>4, m + 0 = m, n + 0 = n
<1>6. ASSUME NEW k \in 1 .. len, k - 1 \in Good PROVE k \in Good
  <2> DEFINE a == m + k
             b == n + k
  <2>1. a \in 1 .. nq /\ b \in 1 .. nr /\ a - 1 = m + (k - 1) /\ b - 1 = n + (k - 1)
    BY <1>1
  <2>2. d[a] = e[b]
    BY DEF SameDeltas
  <2>3. f[m + (k - 1)] + g[n] = g[n + (k - 1)] + f[m]
    BY <1>6
  <2> HIDE DEF a, b
  <2>4. f[a - 1] + g[n] = g[b - 1] + f[m]
    BY <2>1, <2>3
  <2>5. f[a] \in Nat /\ f[a - 1] \in Nat /\ d[a] \in Nat /\ f[a] = f[a - 1] + d[a]
    BY <1>2, <2>1
  <2>6. g[b] \in Nat /\ g[b - 1] \in Nat /\ e[b] \in Nat /\ g[b] = g[b - 1] + e[b]
    BY <1>3, <2>1
  <2>7. f[a] + g[n] = g[b] + f[m]
    BY <1>4, <2>2, <2>4, <2>5, <2>6
  <2> QED
    BY <2>7 DEF a, b
<1> HIDE DEF Good
<1>7. \A k \in 0 .. len : k \in Good
  BY <1>5, <1>6, InductionUpTo
<1> QED
  BY <1>7 DEF Good, SameSums

(* Events are queued in the order in which they are due. *)
LEMMA SumsMonotone ==
  ASSUME NEW n, NEW f, NEW d, Sums(n, f, d), NEW i \in 0 .. n, NEW j \in 0 .. n, i <= j
  PROVE  f[i] <= f[j]
<1>1. n \in Nat /\ \A k \in 0 .. n : f[k] \in Nat
  BY DEF Sums
<1> DEFINE Good == {k \in 0 .. n : i <= k => f[i] <= f[k]}
<1>2. 0 \in Good
  BY <1>1
<1>3. ASSUME NEW k \in 1 .. n, k - 1 \in Good PROVE k \in Good
  <2>1. f[k] = f[k - 1] + d[k] /\ f[i] \in Nat /\ f[k - 1] \in Nat /\ d[k] \in Nat
    BY <1>1, k - 1 \in 0 .. n DEF Sums
  <2>2. CASE i <= k - 1
    <3>1. f[i] <= f[k - 1]
      BY <1>3, <2>2
    <3> QED
      BY <2>1, <3>1
  <2>3. CASE i = k
    BY <1>1, <2>3
  <2>4. CASE i > k
    BY <1>1, <2>4
  <2> QED
    BY <1>1, <2>2, <2>3, <2>4
<1> HIDE DEF Good
<1>4. \A k \in 0 .. n : k \in Good
  BY <1>1, <1>2, <1>3, InductionUpTo
<1> QED
  BY <1>4 DEF Good

(* The len events of q behind m are as far apart as those of r behind n. *)
SameEvents(q, m, r, n, len) == \A k \in 1 .. len : q[m + k].delta = r[n + k].delta
SameDue(q, m, r, n, len) ==
  \A k \in 0 .. len : DueIn(q, m + k) + DueIn(r, n) = DueIn(r, n + k) + DueIn(q, m)

(* SumsFrom for two timer queues: before and after an operation. *)
LEMMA DueInFrom ==
  ASSUME NEW C, NEW q, IsTimers(C, q), NEW r, IsTimers(C, r),
         NEW m \in Nat, NEW n \in Nat, NEW len \in Nat, m + len <= Len(q), n + len <= Len(r),
         SameEvents(q, m, r, n, len)
  PROVE  SameDue(q, m, r, n, len)
<1> DEFINE nq == Len(q)
           nr == Len(r)
           f == Due(q)
           d == Deltas(q)
           g == Due(r)
           e == Deltas(r)
<1>1. Sums(nq, f, d) /\ Sums(nr, g, e)
  BY DueIsSums
<1>2. nq \in Nat /\ nr \in Nat /\ m + len <= nq /\ n + len <= nr
  BY EventsOf
<1>3. /\ \A i \in 0 .. nq : f[i] = DueIn(q, i)
      /\ \A i \in 1 .. nq : d[i] = q[i].delta
      /\ \A i \in 0 .. nr : g[i] = DueIn(r, i)
      /\ \A i \in 1 .. nr : e[i] = r[i].delta
  BY DEF Due, Deltas
<1> HIDE DEF nq, nr, f, d, g, e
<1>4. ASSUME NEW k \in 1 .. len PROVE d[m + k] = e[n + k]
  <2>1. m + k \in 1 .. nq /\ n + k \in 1 .. nr
    BY <1>2
  <2> QED
    BY <1>3, <2>1 DEF SameEvents
<1>5. SameDeltas(d, m, e, n, len)
  BY <1>4 DEF SameDeltas
<1>6. SameSums(f, m, g, n, len)
  BY <1>1, <1>2, <1>5, SumsFrom
<1>7. ASSUME NEW k \in 0 .. len
      PROVE  DueIn(q, m + k) + DueIn(r, n) = DueIn(r, n + k) + DueIn(q, m)
  <2>1. m + k \in 0 .. nq /\ n + k \in 0 .. nr /\ m \in 0 .. nq /\ n \in 0 .. nr
    BY <1>2
  <2> QED
    BY <1>3, <1>6, <2>1 DEF SameSums
<1> QED
  BY <1>7 DEF SameDue

(* The first event, the one that tick() counts down, is due after its delta. *)
LEMMA FirstDue ==
  ASSUME NEW C, NEW q, IsTimers(C, q), Len(q) >= 1
  PROVE  DueIn(q, 1) = q[1].delta /\ q[1].delta \in Nat
<1>1. Len(q) \in Nat /\ 1 \in 1 .. Len(q)
  BY EventsOf
<1>2. DueIn(q, 1) = DueIn(q, 1 - 1) + q[1].delta /\ DueIn(q, 0) = 0 /\ q[1].delta \in Nat
  BY <1>1, EventsOf
<1> QED
  BY <1>2

(* pop_closure(): each event moves up by one, and is due sooner by what    *)
(* the first event had left, which is nothing when it is popped.           *)
LEMMA TailDue ==
  ASSUME NEW C, NEW q, IsTimers(C, q), q # <<>>
  PROVE  /\ IsTimers(C, Tail(q))
         /\ Len(q) \in Nat /\ Len(q) >= 1
         /\ Len(Tail(q)) = Len(q) - 1
         /\ \A i \in 1 .. Len(q) - 1 : /\ Tail(q)[i] = q[i + 1]
                                      /\ DueIn(Tail(q), i) = DueIn(q, i + 1) - q[1].delta
<1> DEFINE r == Tail(q)
           n == Len(q) - 1
           one == 1
           zero == 0
<1>1. /\ Len(q) \in Nat /\ Len(q) >= 1
      /\ IsTimers(C, r) /\ Len(r) = n
      /\ \A i \in 1 .. n : r[i] = q[i + 1]
  <2> DEFINE E == [delta : Nat, closure : C]
  <2>1. q \in Seq(E)
    BY DEF IsTimers
  <2> HIDE DEF E
  <2>2. /\ Len(q) \in Nat /\ Len(q) >= 1
        /\ r \in Seq(E) /\ Len(r) = n
        /\ \A i \in 1 .. n : r[i] = q[i + 1]
    BY <2>1
  <2> QED
    BY <2>2 DEF E, IsTimers
<1> HIDE DEF r
<1>2. n \in Nat /\ one \in Nat /\ zero \in Nat /\ one + n <= Len(q) /\ zero + n <= Len(r)
  BY <1>1
<1>3. SameEvents(q, one, r, zero, n)
  <2>1. ASSUME NEW k \in 1 .. n PROVE q[one + k].delta = r[zero + k].delta
    <3>1. r[k] = q[k + 1] /\ one + k = k + 1 /\ zero + k = k
      BY <1>1
    <3> QED
      BY <3>1
  <2> QED
    BY <2>1 DEF SameEvents
<1> HIDE DEF n, one, zero
<1>4. SameDue(q, one, r, zero, n)
  BY <1>1, <1>2, <1>3, DueInFrom
<1>5. DueIn(q, 1) = q[1].delta /\ q[1].delta \in Nat /\ DueIn(r, 0) = 0
  BY <1>1, FirstDue, EventsOf
<1>6. ASSUME NEW i \in 1 .. n PROVE DueIn(r, i) = DueIn(q, i + 1) - q[1].delta
  <2>1. i \in 0 .. n /\ i + 1 \in 0 .. Len(q) /\ i \in 0 .. Len(r)
    BY <1>1, <1>2 DEF n
  <2>2. DueIn(q, one + i) + DueIn(r, zero) = DueIn(r, zero + i) + DueIn(q, one)
    BY <1>4, <2>1 DEF SameDue
  <2>3. one + i = i + 1 /\ zero + i = i /\ one = 1 /\ zero = 0
    BY <1>2 DEF one, zero
  <2>4. DueIn(q, i + 1) \in Nat /\ DueIn(r, i) \in Nat
    BY <1>1, <2>1, EventsOf
  <2> QED
    BY <1>5, <2>2, <2>3, <2>4
<1> QED
  BY <1>1, <1>6 DEF r, n

(* tick(): every event stays, and is due at most one tick sooner. *)
LEMMA TickDue ==
  ASSUME NEW C, NEW q, IsTimers(C, q)
  PROVE  /\ IsTimers(C, TickQueue(q))
         /\ Len(TickQueue(q)) = Len(q)
         /\ \A i \in 1 .. Len(q) : /\ TickQueue(q)[i].closure = q[i].closure
                                  /\ DueIn(TickQueue(q), i) >= DueIn(q, i) - 1
<1> DEFINE r == TickQueue(q)
<1>1. Len(q) \in Nat /\ \A i \in 1 .. Len(q) : q[i].delta \in Nat /\ DueIn(q, i) \in Nat
  BY EventsOf
<1>2. CASE q # <<>> /\ q[1].delta > 0
  <2> DEFINE E == [delta : Nat, closure : C]
             first == [q[1] EXCEPT !.delta = q[1].delta - 1]
             n == Len(q) - 1
             one == 1
  <2>1. r = [q EXCEPT ![1] = first]
    BY <1>2 DEF TickQueue
  <2>2. Len(q) >= 1
    BY <1>2, TailDue
  <2>3. q \in Seq(E)
    BY DEF IsTimers
  <2>4. q[1] \in E /\ q[1].delta - 1 \in Nat
    <3> HIDE DEF E
    <3>1. 1 \in 1 .. Len(q)
      BY <1>1, <2>2
    <3>2. q[1] \in E
      BY <2>3, <3>1
    <3> QED
      BY <1>1, <1>2, <3>1, <3>2
  <2>5. first \in E /\ first.delta = q[1].delta - 1 /\ first.closure = q[1].closure
    BY <2>4
  <2> HIDE DEF E, first
  <2>6. /\ r \in Seq(E) /\ Len(r) = Len(q)
        /\ r[1] = first
        /\ \A i \in 2 .. Len(q) : r[i] = q[i]
    BY <1>1, <2>1, <2>2, <2>3, <2>5
  <2> HIDE DEF r
  <2>7. IsTimers(C, r)
    BY <2>6 DEF E, IsTimers
  <2>8. n \in Nat /\ one \in Nat /\ one + n <= Len(q) /\ one + n <= Len(r)
    BY <1>1, <2>2, <2>6
  <2>9. SameEvents(r, one, q, one, n)
    <3>1. ASSUME NEW k \in 1 .. n PROVE r[one + k].delta = q[one + k].delta
      <4>1. one + k \in 2 .. Len(q)
        BY <1>1
      <4> QED
        BY <2>6, <4>1
    <3> QED
      BY <3>1 DEF SameEvents
  <2> HIDE DEF n, one
  <2>10. SameDue(r, one, q, one, n)
    BY <2>7, <2>8, <2>9, DueInFrom
  <2>11. /\ DueIn(q, 1) = q[1].delta /\ DueIn(r, 1) = q[1].delta - 1
         /\ q[1].delta \in Nat
    BY <1>1, <2>2, <2>5, <2>6, <2>7, FirstDue
  <2>12. ASSUME NEW i \in 1 .. Len(q)
         PROVE  r[i].closure = q[i].closure /\ DueIn(r, i) = DueIn(q, i) - 1
    <3> DEFINE k == i - 1
    <3>1. k \in 0 .. n /\ one + k = i /\ one = 1 /\ i \in 0 .. Len(q)
      BY <1>1 DEF n, one
    <3> HIDE DEF k
    <3>2. DueIn(r, i) + DueIn(q, 1) = DueIn(q, i) + DueIn(r, 1)
      BY <2>10, <3>1 DEF SameDue
    <3>3. DueIn(r, i) \in Nat /\ DueIn(q, i) \in Nat
      BY <2>6, <2>7, <3>1, EventsOf
    <3>4. DueIn(r, i) = DueIn(q, i) - 1
      BY <2>11, <3>2, <3>3
    <3>5. i = 1 \/ i \in 2 .. Len(q)
      BY <1>1
    <3> QED
      BY <2>5, <2>6, <3>4, <3>5
  <2>13. ASSUME NEW i \in 1 .. Len(q) PROVE DueIn(r, i) >= DueIn(q, i) - 1
    BY <1>1, <2>12
  <2> QED
    BY <2>6, <2>7, <2>12, <2>13 DEF r
<1>3. CASE ~ (q # <<>> /\ q[1].delta > 0)
  <2>1. r = q
    BY <1>3 DEF TickQueue
  <2> QED
    BY <1>1, <2>1
<1> QED
  BY <1>2, <1>3

(* r is s, then e, then t. *)
IsSplice(S, r, s, e, t) ==
  /\ r \in Seq(S) /\ Len(r) = Len(s) + 1 + Len(t)
  /\ \A i \in 1 .. Len(s) : r[i] = s[i]
  /\ r[Len(s) + 1] = e
  /\ \A i \in 1 .. Len(t) : r[Len(s) + 1 + i] = t[i]

(* VecDeque::insert: the event goes between the ones in front of the index *)
(* and the ones from the index on.                                         *)
LEMMA Splice ==
  ASSUME NEW S, NEW s \in Seq(S), NEW e \in S, NEW t \in Seq(S)
  PROVE  IsSplice(S, s \o <<e>> \o t, s, e, t)
<1>1. <<e>> \in Seq(S) /\ Len(<<e>>) = 1 /\ <<e>>[1] = e
  OBVIOUS
<1> DEFINE m == <<e>>
           h == s \o m
<1> HIDE DEF m
<1>2. h \in Seq(S) /\ Len(h) = Len(s) + 1 /\ h[Len(s) + 1] = e
      /\ \A i \in 1 .. Len(s) : h[i] = s[i]
  BY <1>1 DEF m
<1> HIDE DEF h
<1>3. /\ h \o t \in Seq(S) /\ Len(h \o t) = Len(h) + Len(t)
      /\ \A i \in 1 .. Len(h) : (h \o t)[i] = h[i]
      /\ \A i \in 1 .. Len(t) : (h \o t)[Len(h) + i] = t[i]
  BY <1>2
<1>4. /\ Len(s) \in Nat /\ Len(t) \in Nat /\ Len(s) + 1 \in 1 .. Len(h)
      /\ \A i \in 1 .. Len(s) : i \in 1 .. Len(h)
  BY <1>2
<1>5. IsSplice(S, h \o t, s, e, t)
  BY <1>2, <1>3, <1>4 DEF IsSplice
<1> QED
  BY <1>5 DEF h, m

(* insert() stops in front of the first event that is due later. *)
LEMMA InsertIndexStops ==
  ASSUME NEW C, NEW q, IsTimers(C, q), NEW ticks \in Nat
  PROVE  /\ InsertIndex(q, ticks) \in 1 .. Len(q) + 1
         /\ \A i \in 1 .. Len(q) : ticks < DueIn(q, i) <=> i >= InsertIndex(q, ticks)
<1> DEFINE nq == Len(q)
           later == {i \in 1 .. nq : ticks < DueIn(q, i)}
           first == CHOOSE i \in later : \A j \in later : i <= j
           at == InsertIndex(q, ticks)
<1>1. nq \in Nat /\ \A k \in 0 .. nq : DueIn(q, k) \in Nat
  BY EventsOf
<1>2. at = IF later = {} THEN nq + 1 ELSE first
  BY DEF InsertIndex
<1>3. \A i, j \in 0 .. nq : i <= j => DueIn(q, i) <= DueIn(q, j)
  <2> TAKE i, j \in 0 .. nq
  <2> HAVE i <= j
  <2>1. Sums(nq, Due(q), Deltas(q))
    BY DueIsSums
  <2>2. Due(q)[i] <= Due(q)[j]
    <3> HIDE DEF nq
    <3> QED
      BY <2>1, SumsMonotone
  <2> QED
    BY <2>2 DEF Due
<1> HIDE DEF nq, at
<1>4. CASE later = {}
  BY <1>1, <1>2, <1>4 DEF at, nq
<1>5. CASE later # {}
  <2>1. \E i \in later : \A j \in later : i <= j
    BY <1>1, <1>5, LeastNat, later \subseteq Nat
  <2>2. first \in later /\ \A j \in later : first <= j
    BY <2>1
  <2>3. at = first
    BY <1>2, <1>5
  <2> HIDE DEF first
  <2>4. at \in 1 .. nq /\ ticks < DueIn(q, at) /\ \A j \in later : at <= j
    BY <2>2, <2>3
  <2>5. ASSUME NEW i \in 1 .. nq PROVE ticks < DueIn(q, i) <=> i >= at
    <3>1. ASSUME i >= at PROVE ticks < DueIn(q, i)
      <4>1. DueIn(q, at) <= DueIn(q, i) /\ DueIn(q, at) \in Nat /\ DueIn(q, i) \in Nat
        BY <1>1, <1>3, <2>4, <3>1, at \in 0 .. nq, i \in 0 .. nq
      <4> QED
        BY <2>4, <4>1
    <3>2. ASSUME ticks < DueIn(q, i) PROVE i >= at
      BY <1>1, <2>4, <3>2
    <3> QED
      BY <3>1, <3>2
  <2>6. at \in 1 .. nq + 1
    BY <1>1, <2>4
  <2> QED
    BY <2>5, <2>6 DEF at, nq
<1> QED
  BY <1>4, <1>5

(* r is q with an event for c put in at position `at`, due after `ticks`,  *)
(* and no other event put off or brought forward.                          *)
IsInsertion(C, q, ticks, c, at, r) ==
  /\ IsTimers(C, r)
  /\ Len(q) \in Nat /\ Len(r) = Len(q) + 1
  /\ at \in 1 .. Len(r) /\ r[at].closure = c /\ DueIn(r, at) = ticks
  /\ \A i \in 1 .. at - 1 : r[i] = q[i] /\ DueIn(r, i) = DueIn(q, i)
  /\ \A i \in at .. Len(q) :
       r[i + 1].closure = q[i].closure /\ DueIn(r, i + 1) = DueIn(q, i)

(* TimerQueue::insert() makes the new event due after `ticks`, and changes *)
(* neither the order nor the time of any event that is already queued.     *)
THEOREM InsertDue ==
  ASSUME NEW C, NEW q, IsTimers(C, q), NEW ticks \in Nat, NEW c \in C
  PROVE  IsInsertion(C, q, ticks, c, InsertIndex(q, ticks), InsertTimer(q, ticks, c))
<1> DEFINE E == [delta : Nat, closure : C]
           n == Len(q)
           at == InsertIndex(q, ticks)
           delta == ticks - DueIn(q, at - 1)
           event == [delta |-> delta, closure |-> c]
           next == [q[at] EXCEPT !.delta = q[at].delta - delta]
           behind == [i \in 1 .. n - at + 1 |-> IF i = 1 THEN next ELSE q[at + i - 1]]
           r == InsertTimer(q, ticks, c)
<1>1. /\ n \in Nat
      /\ \A i \in 1 .. n : q[i] \in E /\ q[i].delta \in Nat
      /\ \A i \in 0 .. n : DueIn(q, i) \in Nat
      /\ \A i \in 1 .. n : DueIn(q, i) = DueIn(q, i - 1) + q[i].delta
      /\ DueIn(q, 0) = 0
  <2>1. q \in Seq(E)
    BY DEF IsTimers
  <2>2. \A i \in 1 .. n : q[i] \in E
    <3> HIDE DEF E
    <3> QED
      BY <2>1
  <2> QED
    BY <2>2, EventsOf
<1>2. /\ at \in 1 .. n + 1
      /\ \A i \in 1 .. n : ticks < DueIn(q, i) <=> i >= at
  BY InsertIndexStops
<1>3. r = SubSeq(q, 1, at - 1) \o <<event>> \o behind
  BY DEF InsertTimer
<1> HIDE DEF n, at, r
<1>4. delta \in Nat /\ DueIn(q, at - 1) + delta = ticks
  <2>1. at - 1 \in 0 .. n
    BY <1>1, <1>2
  <2>2. DueIn(q, at - 1) <= ticks
    <3>1. CASE at = 1
      BY <1>1, <3>1
    <3>2. CASE at # 1
      <4>1. at - 1 \in 1 .. n /\ ~ (at - 1 >= at)
        BY <1>1, <1>2, <3>2
      <4>2. ~ (ticks < DueIn(q, at - 1)) /\ DueIn(q, at - 1) \in Nat
        BY <1>1, <1>2, <2>1, <4>1
      <4> QED
        BY <4>2
    <3> QED
      BY <3>1, <3>2
  <2>3. DueIn(q, at - 1) \in Nat
    BY <1>1, <2>1
  <2> QED
    BY <2>2, <2>3
<1>5. ASSUME at <= n
      PROVE  /\ next \in E /\ next.closure = q[at].closure
             /\ next.delta = q[at].delta - delta
  <2>1. at \in 1 .. n /\ at >= at
    BY <1>1, <1>2, <1>5
  <2>2. ticks < DueIn(q, at) /\ DueIn(q, at) = DueIn(q, at - 1) + q[at].delta
    BY <1>1, <1>2, <2>1
  <2>3. q[at].delta \in Nat /\ DueIn(q, at - 1) \in Nat /\ q[at] \in E
    BY <1>1, <2>1, at - 1 \in 0 .. n
  <2>4. q[at].delta - delta \in Nat
    <3> HIDE DEF delta, E
    <3> QED
      BY <1>4, <2>2, <2>3
  <2> HIDE DEF delta
  <2> QED
    BY <2>3, <2>4
<1>6. event \in E /\ event.delta = delta /\ event.closure = c
  <2> HIDE DEF delta
  <2> QED
    BY <1>4
<1>7. /\ IsTimers(C, r) /\ Len(r) = n + 1
      /\ \A i \in 1 .. at - 1 : r[i] = q[i]
      /\ r[at] = event
      /\ \A i \in at .. n : r[i + 1] = IF i = at THEN next ELSE q[i]
  <2>1. q \in Seq(E)
    BY DEF IsTimers
  <2>2. behind \in Seq(E) /\ Len(behind) = n - at + 1
    <3>1. ASSUME NEW i \in 1 .. n - at + 1 PROVE behind[i] \in E
      <4>1. at + i - 1 \in 1 .. n /\ at <= n
        BY <1>1, <1>2
      <4> HIDE DEF E, next
      <4> QED
        BY <1>1, <1>5, <4>1
    <3>2. n - at + 1 \in Nat
      BY <1>1, <1>2
    <3> HIDE DEF E, next
    <3> QED
      BY <3>1, <3>2
  <2> DEFINE front == SubSeq(q, 1, at - 1)
  <2> HIDE DEF E, next, event
  <2>3. front \in Seq(E) /\ Len(front) = at - 1 /\ \A i \in 1 .. at - 1 : front[i] = q[i]
    BY <1>1, <1>2, <2>1 DEF n
  <2>4. \A i \in 1 .. n - at + 1 : behind[i] = IF i = 1 THEN next ELSE q[at + i - 1]
    OBVIOUS
  <2>5. r = front \o <<event>> \o behind
    BY <1>3
  <2> HIDE DEF front, behind
  <2>6. /\ r \in Seq(E) /\ Len(r) = Len(front) + 1 + Len(behind)
        /\ \A i \in 1 .. Len(front) : r[i] = front[i]
        /\ r[Len(front) + 1] = event
        /\ \A i \in 1 .. Len(behind) : r[Len(front) + 1 + i] = behind[i]
    <3>1. front \in Seq(E) /\ event \in E /\ behind \in Seq(E)
      BY <1>6, <2>2, <2>3
    <3>2. IsSplice(E, front \o <<event>> \o behind, front, event, behind)
      BY <3>1, Splice
    <3> QED
      BY <2>5, <3>2 DEF IsSplice
  <2>7. Len(front) + 1 = at /\ Len(front) + 1 + Len(behind) = n + 1
    BY <1>1, <1>2, <2>2, <2>3
  <2>8. /\ \A i \in 1 .. at - 1 : r[i] = q[i]
        /\ r[at] = event
        /\ \A i \in 1 .. n - at + 1 : r[at + i] = behind[i]
    BY <2>2, <2>3, <2>6, <2>7
  <2>9. ASSUME NEW i \in at .. n PROVE r[i + 1] = IF i = at THEN next ELSE q[i]
    <3> DEFINE k == i - at + 1
    <3>1. k \in 1 .. n - at + 1 /\ at + k = i + 1 /\ at + k - 1 = i /\ (k = 1 <=> i = at)
      BY <1>1, <1>2
    <3> HIDE DEF k
    <3> QED
      BY <2>4, <2>8, <3>1
  <2>10. IsTimers(C, r)
    BY <2>6 DEF IsTimers, E
  <2> QED
    BY <2>6, <2>7, <2>8, <2>9, <2>10
<1> HIDE DEF E, delta, event, next
<1>8. /\ Len(r) \in Nat
      /\ \A i \in 0 .. n + 1 : DueIn(r, i) \in Nat
      /\ \A i \in 1 .. n + 1 : DueIn(r, i) = DueIn(r, i - 1) + r[i].delta
      /\ DueIn(r, 0) = 0
  BY <1>7, EventsOf
<1>9. ASSUME NEW i \in 0 .. at - 1 PROVE DueIn(r, i) = DueIn(q, i)
  <2> DEFINE zero == 0
             len == at - 1
  <2>1. /\ len \in Nat /\ zero \in Nat /\ zero + len <= Len(r) /\ zero + len <= Len(q)
        /\ i \in 0 .. len /\ i \in 0 .. n + 1 /\ i \in 0 .. n
    BY <1>1, <1>2, <1>7 DEF n
  <2>2. SameEvents(r, zero, q, zero, len)
    <3>1. ASSUME NEW k \in 1 .. len PROVE r[zero + k].delta = q[zero + k].delta
      <4>1. zero + k = k /\ r[k] = q[k]
        BY <1>2, <1>7
      <4> QED
        BY <4>1
    <3> QED
      BY <3>1 DEF SameEvents
  <2>3. zero + i = i /\ zero = 0
    BY <1>2
  <2> HIDE DEF zero, len
  <2>4. SameDue(r, zero, q, zero, len)
    BY <1>7, <2>1, <2>2, DueInFrom
  <2>5. DueIn(r, i) + DueIn(q, 0) = DueIn(q, i) + DueIn(r, 0)
    BY <2>1, <2>3, <2>4 DEF SameDue
  <2>6. DueIn(r, i) \in Nat /\ DueIn(q, i) \in Nat /\ DueIn(q, 0) = 0 /\ DueIn(r, 0) = 0
    BY <1>1, <1>8, <2>1
  <2> QED
    BY <2>5, <2>6
<1>10. DueIn(r, at) = ticks
  <2>1. at \in 1 .. n + 1 /\ at - 1 \in 0 .. at - 1
    BY <1>1, <1>2
  <2>2. DueIn(r, at) = DueIn(r, at - 1) + delta
    BY <1>6, <1>7, <1>8, <2>1
  <2>3. DueIn(r, at - 1) = DueIn(q, at - 1)
    BY <1>9, <2>1
  <2> QED
    BY <1>4, <2>2, <2>3
<1>11. ASSUME NEW i \in at .. n PROVE DueIn(r, i + 1) = DueIn(q, i)
  <2> DEFINE b == at + 1
             len == n - at
             k == i - at
  <2>1. /\ at \in Nat /\ at \in 1 .. n /\ at \in at .. n /\ at <= n
        /\ b \in Nat /\ b \in 1 .. n + 1 /\ b - 1 = at /\ at + 1 = b
        /\ len \in Nat /\ b + len <= Len(r) /\ at + len <= Len(q)
        /\ k \in 0 .. len /\ b + k = i + 1 /\ at + k = i
    BY <1>1, <1>2, <1>7 DEF n
  <2>2. DueIn(r, b) = DueIn(q, at)
    <3>1. DueIn(r, b) = DueIn(r, at) + r[b].delta
      <4> HIDE DEF b
      <4> QED
        BY <1>8, <2>1
    <3>2. r[b] = next
      BY <1>7, <2>1
    <3>3. next.delta = q[at].delta - delta
      BY <1>5, <2>1
    <3>4. DueIn(q, at) = DueIn(q, at - 1) + q[at].delta
      BY <1>1, <2>1
    <3>5. q[at].delta \in Nat /\ DueIn(q, at - 1) \in Nat
      BY <1>1, <2>1, at - 1 \in 0 .. n
    <3> HIDE DEF b
    <3> QED
      BY <1>4, <1>10, <3>1, <3>2, <3>3, <3>4, <3>5
  <2>3. SameEvents(r, b, q, at, len)
    <3>1. ASSUME NEW j \in 1 .. len PROVE r[b + j].delta = q[at + j].delta
      <4>1. at + j \in at .. n /\ at + j # at /\ b + j = (at + j) + 1
        BY <1>1, <2>1
      <4> QED
        BY <1>7, <4>1
    <3> QED
      BY <3>1 DEF SameEvents
  <2> HIDE DEF b, len, k
  <2>4. SameDue(r, b, q, at, len)
    BY <1>7, <2>1, <2>3, DueInFrom
  <2>5. DueIn(r, i + 1) + DueIn(q, at) = DueIn(q, i) + DueIn(r, b)
    BY <2>1, <2>4 DEF SameDue
  <2>6. DueIn(r, i + 1) \in Nat /\ DueIn(q, i) \in Nat /\ DueIn(q, at) \in Nat
    BY <1>1, <1>2, <1>8, i + 1 \in 0 .. n + 1, i \in 0 .. n, at \in 0 .. n
  <2> QED
    BY <2>2, <2>5, <2>6
<1>12. at \in 1 .. Len(r) /\ \A i \in 1 .. at - 1 : i \in 0 .. at - 1
  BY <1>1, <1>2, <1>7
<1>13. ASSUME NEW i \in at .. n PROVE r[i + 1].closure = q[i].closure
  <2>1. at <= n
    BY <1>1, <1>2
  <2> QED
    BY <1>5, <1>7, <2>1
<1> QED
  BY <1>1, <1>6, <1>7, <1>9, <1>10, <1>11, <1>12, <1>13 DEF n, at, r, IsInsertion

(* insert() adds its closure to those of the queue. *)
LEMMA InsertedWakes ==
  ASSUME NEW C, NEW q, IsTimers(C, q), WakesApart(q),
         NEW n \in Nat, NEW t \in C, ~ WakesIn(q, t)
  PROVE  /\ IsTimers(C, InsertTimer(q, n, t))
         /\ WakesApart(InsertTimer(q, n, t))
         /\ \A u : WakesIn(InsertTimer(q, n, t), u) <=> WakesIn(q, u) \/ u = t
<1> DEFINE r == InsertTimer(q, n, t)
           at == InsertIndex(q, n)
<1>1. IsInsertion(C, q, n, t, at, r)
  BY InsertDue
<1> HIDE DEF r, at
<1>2. /\ IsTimers(C, r) /\ Len(q) \in Nat /\ Len(r) = Len(q) + 1
      /\ at \in 1 .. Len(r) /\ r[at].closure = t
      /\ \A i \in 1 .. at - 1 : r[i].closure = q[i].closure
      /\ \A i \in at .. Len(q) : r[i + 1].closure = q[i].closure
  BY <1>1 DEF IsInsertion
<1> DEFINE from(i) == IF i < at THEN i ELSE i - 1
<1>3. ASSUME NEW i \in 1 .. Len(r), i # at
      PROVE  from(i) \in 1 .. Len(q) /\ r[i].closure = q[from(i)].closure
  <2>1. CASE i < at
    BY <1>2, <2>1
  <2>2. CASE i > at
    <3>1. i - 1 \in at .. Len(q) /\ (i - 1) + 1 = i /\ ~ (i < at)
      BY <1>2, <2>2
    <3> QED
      BY <1>2, <3>1
  <2> QED
    BY <1>2, <1>3, <2>1, <2>2
<1>4. \A u : WakesIn(r, u) <=> WakesIn(q, u) \/ u = t
  <2>1. ASSUME NEW u, WakesIn(r, u) PROVE WakesIn(q, u) \/ u = t
    BY <1>2, <1>3, <2>1 DEF WakesIn
  <2>2. ASSUME NEW u, WakesIn(q, u) PROVE WakesIn(r, u)
    <3>1. PICK i \in 1 .. Len(q) : q[i].closure = u
      BY <2>2 DEF WakesIn
    <3>2. CASE i < at
      BY <1>2, <3>1, <3>2, i \in 1 .. at - 1, i \in 1 .. Len(r) DEF WakesIn
    <3>3. CASE i >= at
      BY <1>2, <3>1, <3>3, i \in at .. Len(q), i + 1 \in 1 .. Len(r) DEF WakesIn
    <3> QED
      BY <1>2, <3>2, <3>3
  <2>3. WakesIn(r, t)
    BY <1>2 DEF WakesIn
  <2> QED
    BY <2>1, <2>2, <2>3
<1>5. WakesApart(r)
  <2> SUFFICES ASSUME NEW i \in 1 .. Len(r), NEW j \in 1 .. Len(r), r[i].closure = r[j].closure
               PROVE  i = j
    BY DEF WakesApart
  <2>1. CASE i # at /\ j # at
    <3>1. q[from(i)].closure = q[from(j)].closure /\ from(i) \in 1 .. Len(q) /\ from(j) \in 1 .. Len(q)
      BY <1>3, <2>1
    <3>2. from(i) = from(j)
      <4> HIDE DEF from
      <4> QED
        BY <3>1 DEF WakesApart
    <3> QED
      BY <1>2, <2>1, <3>2
  <2>2. ASSUME i = at, j # at PROVE FALSE
    BY <1>2, <1>3, <2>2 DEF WakesIn
  <2>3. ASSUME j = at, i # at PROVE FALSE
    BY <1>2, <1>3, <2>3 DEF WakesIn
  <2> QED
    BY <2>1, <2>2, <2>3
<1> QED
  BY <1>2, <1>4, <1>5 DEF r

(* tick() leaves the closures alone. *)
LEMMA TickedWakes ==
  ASSUME NEW C, NEW q, IsTimers(C, q), WakesApart(q)
  PROVE  /\ IsTimers(C, TickQueue(q))
         /\ WakesApart(TickQueue(q))
         /\ \A u : WakesIn(TickQueue(q), u) <=> WakesIn(q, u)
<1> DEFINE r == TickQueue(q)
<1>1. IsTimers(C, r) /\ Len(r) = Len(q) /\ \A i \in 1 .. Len(q) : r[i].closure = q[i].closure
  BY TickDue
<1> HIDE DEF r
<1>2. WakesApart(r) /\ \A u : WakesIn(r, u) <=> WakesIn(q, u)
  BY <1>1 DEF WakesApart, WakesIn
<1> QED
  BY <1>1, <1>2 DEF r

-----------------------------------------------------------------------------
(* Counting. *)

(* The positions of S up to k. *)
Upto(S, k) == S \cap (1 .. k)

(* The falls less the rises are the fall from the first to the last        *)
(* position.                                                               *)
LEMMA Tally ==
  ASSUME NEW n, NEW v, NEW P, NEW Q, Tracks(n, v, P, Q)
  PROVE  /\ IsFiniteSet(P) /\ Cardinality(P) \in Nat
         /\ IsFiniteSet(Q) /\ Cardinality(Q) \in Nat
         /\ Cardinality(P) - Cardinality(Q) = v[1] - v[n + 1]
<1> DEFINE Good == {k \in 0 .. n : Cardinality(Upto(P, k)) - Cardinality(Upto(Q, k)) = v[1] - v[k + 1]}
<1>0. /\ n \in Nat /\ P \subseteq 1 .. n /\ Q \subseteq 1 .. n
      /\ v \in [1 .. n + 1 -> Int]
      /\ \A i \in 1 .. n : v[i] - v[i + 1] = One(i \in P) - One(i \in Q)
  BY DEF Tracks
<1>1. IsFiniteSet(1 .. n)
  BY <1>0, FS_Interval
<1>2. ASSUME NEW S \in SUBSET (1 .. n), NEW k \in 0 .. n
      PROVE  IsFiniteSet(Upto(S, k)) /\ Cardinality(Upto(S, k)) \in Nat
  BY <1>1, FS_Subset, FS_CardinalityType, Upto(S, k) \in SUBSET (1 .. n) DEF Upto
<1>3. ASSUME NEW S \in SUBSET (1 .. n), NEW k \in 1 .. n
      PROVE  Cardinality(Upto(S, k)) = Cardinality(Upto(S, k - 1)) + One(k \in S)
  <2>1. k - 1 \in 0 .. n /\ k \notin Upto(S, k - 1)
    BY <1>0 DEF Upto
  <2>2. CASE k \in S
    <3>1. Upto(S, k) = Upto(S, k - 1) \cup {k}
      BY <1>0, <2>2 DEF Upto
    <3>2. IsFiniteSet(Upto(S, k - 1))
      BY <1>2, <2>1
    <3> QED
      BY <2>1, <2>2, <3>1, <3>2, FS_AddElement DEF One
  <2>3. CASE k \notin S
    <3>1. Upto(S, k) = Upto(S, k - 1)
      BY <1>0, <2>3 DEF Upto
    <3>2. Cardinality(Upto(S, k - 1)) \in Nat
      BY <1>2, <2>1
    <3> QED
      BY <2>3, <3>1, <3>2 DEF One
  <2> QED
    BY <2>2, <2>3
<1>4. 0 \in Good
  <2>1. Upto(P, 0) = {} /\ Upto(Q, 0) = {}
    BY DEF Upto
  <2>2. Cardinality({}) = 0
    BY FS_EmptySet
  <2>3. v[1] \in Int /\ v[1] - v[0 + 1] = 0 /\ 0 \in 0 .. n
    BY <1>0, 1 \in 1 .. n + 1
  <2>4. Cardinality(Upto(P, 0)) - Cardinality(Upto(Q, 0)) = v[1] - v[0 + 1]
    BY <2>1, <2>2, <2>3
  <2> QED
    BY <2>3, <2>4
<1>5. ASSUME NEW k \in 1 .. n PROVE k - 1 \in Good => k \in Good
  <2> SUFFICES ASSUME k - 1 \in Good PROVE k \in Good
    OBVIOUS
  <2>1. k - 1 \in 0 .. n /\ (k - 1) + 1 = k /\ k \in 1 .. n + 1 /\ k + 1 \in 1 .. n + 1 /\ k \in 0 .. n
    BY <1>0
  <2> DEFINE a == One(k \in P)
             b == One(k \in Q)
             p0 == Cardinality(Upto(P, k - 1))
             q0 == Cardinality(Upto(Q, k - 1))
             p1 == Cardinality(Upto(P, k))
             q1 == Cardinality(Upto(Q, k))
  <2>2. v[1] \in Int /\ v[k] \in Int /\ v[k + 1] \in Int
    BY <1>0, <2>1, 1 \in 1 .. n + 1
  <2>3. p0 \in Nat /\ q0 \in Nat /\ p1 = p0 + a /\ q1 = q0 + b
    BY <1>0, <1>2, <1>3, <2>1
  <2>4. p0 - q0 = v[1] - v[k]
    <3>1. p0 - q0 = v[1] - v[(k - 1) + 1]
      OBVIOUS
    <3> QED
      BY <2>1, <3>1
  <2>5. v[k] - v[k + 1] = a - b
    BY <1>0
  <2>6. a \in Int /\ b \in Int
    BY DEF One
  <2> HIDE DEF a, b, p0, q0, p1, q1
  <2>7. p1 - q1 = v[1] - v[k + 1]
    <3>1. p1 - q1 = (p0 - q0) + (a - b)
      BY <2>3, <2>6
    <3>2. (p0 - q0) + (a - b) = (v[1] - v[k]) + (v[k] - v[k + 1])
      BY <2>4, <2>5
    <3>3. (v[1] - v[k]) + (v[k] - v[k + 1]) = v[1] - v[k + 1]
      BY <2>2
    <3> QED
      BY <3>1, <3>2, <3>3
  <2> QED
    BY <2>1, <2>7 DEF p1, q1
<1>6. n \in Good
  <2> HIDE DEF Good
  <2>1. \A k \in 1 .. n : k - 1 \in Good => k \in Good
    BY <1>5
  <2>2. \A k \in 0 .. n : k \in Good
    BY <1>0, <1>4, <2>1, InductionUpTo
  <2> QED
    BY <1>0, <2>2
<1>7. Upto(P, n) = P /\ Upto(Q, n) = Q
  BY <1>0 DEF Upto
<1>8. n \in 0 .. n
  BY <1>0
<1> QED
  BY <1>0, <1>2, <1>6, <1>7, <1>8

(* The same for one set of positions, each of which uses up one. *)
LEMMA Countdown ==
  ASSUME NEW n, NEW v, NEW P, Tracks(n, v, P, {}), v[n + 1] = 0
  PROVE  /\ IsFiniteSet(P) /\ Cardinality(P) = v[1]
         /\ P = {} <=> v[1] = 0
<1>1. v[1] \in Int
  BY 1 \in 1 .. n + 1 DEF Tracks
<1>2. IsFiniteSet(P) /\ Cardinality(P) \in Nat /\ Cardinality(P) - Cardinality({}) = v[1] - v[n + 1]
  BY Tally
<1>3. Cardinality(P) = v[1]
  BY <1>1, <1>2, FS_EmptySet
<1> QED
  BY <1>2, <1>3, FS_EmptySet

(* A set of places that are all the same. *)
LEMMA AtMostOne ==
  ASSUME NEW S, \A i, j \in S : i = j
  PROVE  Cardinality(S) = One(S # {})
<1>1. CASE S = {}
  BY <1>1, FS_EmptySet DEF One
<1>2. CASE S # {}
  <2>1. PICK i : S = {i}
    BY <1>2
  <2> QED
    BY <1>2, <2>1, FS_Singleton DEF One
<1> QED
  BY <1>1, <1>2

(* All three facts about counting that the kernel's stacks rely on. *)
LEMMA CountingWorks == CountsAdd
<1>1. ASSUME NEW R, NEW I, IsFiniteSet(R \cup I), R \cap I = {}
      PROVE  /\ Cardinality(R \cup I) = Cardinality(R) + Cardinality(I)
             /\ Cardinality(R) \in Nat /\ Cardinality(I) \in Nat
  <2>1. IsFiniteSet(R) /\ IsFiniteSet(I)
    BY <1>1, FS_Subset
  <2>2. Cardinality(R) \in Nat /\ Cardinality(I) \in Nat
    BY <2>1, FS_CardinalityType
  <2>3. Cardinality(R \cup I) = Cardinality(R) + Cardinality(I) - Cardinality(R \cap I)
    BY <2>1, FS_Union
  <2>4. Cardinality(R \cap I) = 0
    BY <1>1, FS_EmptySet
  <2> QED
    BY <2>2, <2>3, <2>4
<1> QED
  BY <1>1, Tally, Countdown DEF CountsAdd

-----------------------------------------------------------------------------
(* Surfaces. *)

AllPoints == [x : Int, y : Int]
AllRects == [x0 : Int, y0 : Int, x1 : Int, y1 : Int]

(* An image of a rectangle, with room for its rows of `stride` pixels, as  *)
(* Surface::new makes it and from_raw asks for ("suitably sized").         *)
Room(s) == 0 .. size(s.rect).y * s.stride - 1
IsSurface(s) ==
  /\ s = [ptr |-> s.ptr, image |-> s.image, rect |-> s.rect, stride |-> s.stride,
          fill |-> s.fill, wild |-> s.wild]
  /\ s.rect \in AllRects /\ s.rect.x0 <= s.rect.x1 /\ s.rect.y0 <= s.rect.y1
  /\ s.stride \in Nat /\ size(s.rect).x <= s.stride
  /\ s.image = [i \in Room(s) |-> s.image[i]]
  /\ s.wild \in BOOLEAN

(* Rect::intersect is the intersection of the points. *)
LEMMA IntersectPoints ==
  ASSUME NEW r \in AllRects, NEW b \in AllRects
  PROVE  /\ intersect(r, b) \in AllRects
         /\ \A p \in AllPoints : contains_point(intersect(r, b), p)
                                 <=> contains_point(r, p) /\ contains_point(b, p)
  BY DEF AllRects, AllPoints, intersect, Rect, min, max, contains_point

(* The corners of the part that blit() copies, and of where it goes. *)
LEMMA PlacedCorners ==
  ASSUME NEW r \in AllRects, NEW src_rect \in AllRects, NEW src_start \in AllPoints
  PROVE  LET c == Copied(r, src_rect, src_start)
             b == Placed(r, src_rect, src_start)
         IN  /\ c \in AllRects /\ b \in AllRects
             /\ c.x0 = max(src_start.x, src_rect.x0) /\ c.y0 = max(src_start.y, src_rect.y0)
             /\ c.x1 = min(src_start.x + (r.x1 - r.x0), src_rect.x1)
             /\ c.y1 = min(src_start.y + (r.y1 - r.y0), src_rect.y1)
             /\ b.x0 = r.x0 + (c.x0 - src_start.x) /\ b.y0 = r.y0 + (c.y0 - src_start.y)
             /\ b.x1 = r.x0 + (c.x1 - src_start.x) /\ b.y1 = r.y0 + (c.y1 - src_start.y)
<1> DEFINE c == Copied(r, src_rect, src_start)
           b == Placed(r, src_rect, src_start)
<1>1. /\ c \in AllRects
      /\ c.x0 = max(src_start.x, src_rect.x0) /\ c.y0 = max(src_start.y, src_rect.y0)
      /\ c.x1 = min(src_start.x + (r.x1 - r.x0), src_rect.x1)
      /\ c.y1 = min(src_start.y + (r.y1 - r.y0), src_rect.y1)
  <2>1. c = intersect(RectOf(src_start, Add(src_start, size(r))), src_rect)
    BY DEF Copied
  <2>2. RectOf(src_start, Add(src_start, size(r)))
          = Rect(src_start.x, src_start.y, src_start.x + (r.x1 - r.x0), src_start.y + (r.y1 - r.y0))
    BY DEF RectOf, Rect, Add, Point, size, AllRects, AllPoints
  <2> QED
    BY <2>1, <2>2 DEF intersect, AllRects, AllPoints, Rect, min, max
<1>2. b = LET t == Add(tl(r), Sub(tl(c), src_start)) IN RectOf(t, Add(t, size(c)))
  BY DEF Placed
<1> HIDE DEF c, b
<1>3. /\ b \in AllRects
      /\ b.x0 = r.x0 + (c.x0 - src_start.x) /\ b.y0 = r.y0 + (c.y0 - src_start.y)
      /\ b.x1 = r.x0 + (c.x1 - src_start.x) /\ b.y1 = r.y0 + (c.y1 - src_start.y)
  BY <1>1, <1>2 DEF AllRects, AllPoints, RectOf, Rect, Add, Sub, Point, tl, size
<1> QED
  BY <1>1, <1>3 DEF c, b

(* blit() copies exactly the points of its rectangle that the source has,  *)
(* each from its own place in the source.                                  *)
THEOREM CopiedFromSource ==
  ASSUME NEW r \in AllRects, NEW src_rect \in AllRects, NEW src_start \in AllPoints
  PROVE  \A p \in AllPoints :
           contains_point(Placed(r, src_rect, src_start), p)
             <=> /\ contains_point(r, p)
                 /\ contains_point(src_rect, Add(src_start, Sub(p, tl(r))))
<1> DEFINE c == Copied(r, src_rect, src_start)
           b == Placed(r, src_rect, src_start)
<1>1. /\ c \in AllRects /\ b \in AllRects
      /\ c.x0 = max(src_start.x, src_rect.x0) /\ c.y0 = max(src_start.y, src_rect.y0)
      /\ c.x1 = min(src_start.x + (r.x1 - r.x0), src_rect.x1)
      /\ c.y1 = min(src_start.y + (r.y1 - r.y0), src_rect.y1)
      /\ b.x0 = r.x0 + (c.x0 - src_start.x) /\ b.y0 = r.y0 + (c.y0 - src_start.y)
      /\ b.x1 = r.x0 + (c.x1 - src_start.x) /\ b.y1 = r.y0 + (c.y1 - src_start.y)
  BY PlacedCorners
<1> HIDE DEF c, b
<1> SUFFICES ASSUME NEW p \in AllPoints
             PROVE  contains_point(b, p)
                      <=> /\ contains_point(r, p)
                          /\ contains_point(src_rect, Add(src_start, Sub(p, tl(r))))
  BY DEF b
<1>2. /\ Add(src_start, Sub(p, tl(r))).x = src_start.x + (p.x - r.x0)
      /\ Add(src_start, Sub(p, tl(r))).y = src_start.y + (p.y - r.y0)
  BY DEF Add, Sub, tl, Point
<1>3. /\ p.x \in Int /\ p.y \in Int /\ src_start.x \in Int /\ src_start.y \in Int
      /\ r.x0 \in Int /\ r.x1 \in Int /\ r.y0 \in Int /\ r.y1 \in Int
      /\ src_rect.x0 \in Int /\ src_rect.x1 \in Int /\ src_rect.y0 \in Int /\ src_rect.y1 \in Int
  BY DEF AllPoints, AllRects
<1>4. b.x0 <= p.x /\ p.x < b.x1
        <=> /\ r.x0 <= p.x /\ p.x < r.x1
            /\ src_rect.x0 <= src_start.x + (p.x - r.x0) /\ src_start.x + (p.x - r.x0) < src_rect.x1
  BY <1>1, <1>3 DEF min, max
<1>5. b.y0 <= p.y /\ p.y < b.y1
        <=> /\ r.y0 <= p.y /\ p.y < r.y1
            /\ src_rect.y0 <= src_start.y + (p.y - r.y0) /\ src_start.y + (p.y - r.y0) < src_rect.y1
  BY <1>1, <1>3 DEF min, max
<1> QED
  BY <1>2, <1>4, <1>5 DEF contains_point

(* What blit() copies and the four rectangles it fills cover its rectangle *)
(* without overlap, and stay in it.                                        *)
THEOREM BlitCovers ==
  ASSUME NEW r \in AllRects, NEW src_rect \in AllRects, NEW src_start \in AllPoints,
         ~ is_empty(Copied(r, src_rect, src_start))
  PROVE  LET b == Placed(r, src_rect, src_start)
             parts == <<b, Above(r, b), LeftOf(r, b), RightOf(r, b), BelowOf(r, b)>>
         IN  \A p \in AllPoints :
               /\ contains_point(r, p) <=> \E i \in 1 .. 5 : contains_point(parts[i], p)
               /\ \A i, j \in 1 .. 5 :
                    contains_point(parts[i], p) /\ contains_point(parts[j], p) => i = j
<1> DEFINE c == Copied(r, src_rect, src_start)
           b == Placed(r, src_rect, src_start)
           parts == <<b, Above(r, b), LeftOf(r, b), RightOf(r, b), BelowOf(r, b)>>
<1>1. /\ c \in AllRects /\ b \in AllRects
      /\ c.x0 = max(src_start.x, src_rect.x0) /\ c.y0 = max(src_start.y, src_rect.y0)
      /\ c.x1 = min(src_start.x + (r.x1 - r.x0), src_rect.x1)
      /\ c.y1 = min(src_start.y + (r.y1 - r.y0), src_rect.y1)
      /\ b.x0 = r.x0 + (c.x0 - src_start.x) /\ b.y0 = r.y0 + (c.y0 - src_start.y)
      /\ b.x1 = r.x0 + (c.x1 - src_start.x) /\ b.y1 = r.y0 + (c.y1 - src_start.y)
  BY PlacedCorners
<1>2. c.x0 < c.x1 /\ c.y0 < c.y1
  <2>1. ~ is_empty(c)
    OBVIOUS
  <2> HIDE DEF c
  <2> QED
    BY <1>1, <2>1 DEF is_empty, AllRects
<1> HIDE DEF c, b
<1>3. /\ r.x0 <= b.x0 /\ b.x0 < b.x1 /\ b.x1 <= r.x1
      /\ r.y0 <= b.y0 /\ b.y0 < b.y1 /\ b.y1 <= r.y1
  BY <1>1, <1>2 DEF AllRects, AllPoints, min, max
<1> SUFFICES ASSUME NEW p \in AllPoints
             PROVE  /\ contains_point(r, p) <=> \E i \in 1 .. 5 : contains_point(parts[i], p)
                    /\ \A i, j \in 1 .. 5 :
                         contains_point(parts[i], p) /\ contains_point(parts[j], p) => i = j
  BY DEF b
<1>4. /\ p.x \in Int /\ p.y \in Int
      /\ r.x0 \in Int /\ r.x1 \in Int /\ r.y0 \in Int /\ r.y1 \in Int
      /\ b.x0 \in Int /\ b.x1 \in Int /\ b.y0 \in Int /\ b.y1 \in Int
  BY <1>1 DEF AllPoints, AllRects
<1> DEFINE In(i) == contains_point(parts[i], p)
<1>5. /\ In(1) <=> b.x0 <= p.x /\ p.x < b.x1 /\ b.y0 <= p.y /\ p.y < b.y1
      /\ In(2) <=> r.x0 <= p.x /\ p.x < r.x1 /\ r.y0 <= p.y /\ p.y < b.y0
      /\ In(3) <=> r.x0 <= p.x /\ p.x < b.x0 /\ b.y0 <= p.y /\ p.y < b.y1
      /\ In(4) <=> b.x1 <= p.x /\ p.x < r.x1 /\ b.y0 <= p.y /\ p.y < b.y1
      /\ In(5) <=> r.x0 <= p.x /\ p.x < r.x1 /\ b.y1 <= p.y /\ p.y < r.y1
  BY DEF contains_point, Above, LeftOf, RightOf, BelowOf, Rect
<1>6. contains_point(r, p) <=> r.x0 <= p.x /\ p.x < r.x1 /\ r.y0 <= p.y /\ p.y < r.y1
  BY DEF contains_point
<1> HIDE DEF In
<1>7. contains_point(r, p) <=> In(1) \/ In(2) \/ In(3) \/ In(4) \/ In(5)
  BY <1>3, <1>4, <1>5, <1>6
<1>8. /\ In(1) => ~ In(2) /\ ~ In(3) /\ ~ In(4) /\ ~ In(5)
      /\ In(2) => ~ In(3) /\ ~ In(4) /\ ~ In(5)
      /\ In(3) => ~ In(4) /\ ~ In(5)
      /\ In(4) => ~ In(5)
  BY <1>3, <1>4, <1>5
<1>9. \A i \in 1 .. 5 : i = 1 \/ i = 2 \/ i = 3 \/ i = 4 \/ i = 5
  OBVIOUS
<1>10. contains_point(r, p) <=> \E i \in 1 .. 5 : In(i)
  BY <1>7, <1>9
<1>11. \A i, j \in 1 .. 5 : In(i) /\ In(j) => i = j
  BY <1>8, <1>9
<1> QED
  BY <1>10, <1>11 DEF In

(* A row ends before the next one begins. *)
LEMMA RowsApart ==
  ASSUME NEW a \in Nat, NEW c \in Nat, NEW stride \in Nat, a < c
  PROVE  a * stride \in Nat /\ c * stride \in Nat /\ a * stride + stride <= c * stride
<1>1. PICK d \in Nat : c = a + 1 + d
  <2>1. c - a - 1 \in Nat /\ c = a + 1 + (c - a - 1)
    OBVIOUS
  <2> QED
    BY <2>1
<1>2. c * stride = a * stride + stride + d * stride
  BY <1>1
<1>3. a * stride \in Nat /\ d * stride \in Nat /\ c * stride \in Nat
  OBVIOUS
<1> QED
  BY <1>2, <1>3

(* image_ptr_unsafe: different points of a surface are different pixels of *)
(* its image.                                                              *)
LEMMA OffsetsApart ==
  ASSUME NEW s, IsSurface(s),
         NEW p \in AllPoints, contains_point(s.rect, p)
  PROVE  /\ image_ptr_unsafe(s, p) \in Room(s)
         /\ \A q \in AllPoints : contains_point(s.rect, q)
                                 /\ image_ptr_unsafe(s, q) = image_ptr_unsafe(s, p) => q = p
<1> DEFINE row(q) == q.y - s.rect.y0
           col(q) == q.x - s.rect.x0
           h == s.rect.y1 - s.rect.y0
           st == s.stride
<1>1. /\ s.rect.x0 \in Int /\ s.rect.x1 \in Int /\ s.rect.y0 \in Int /\ s.rect.y1 \in Int
      /\ st \in Nat /\ s.rect.x1 - s.rect.x0 <= st /\ size(s.rect).y = h /\ h \in Nat
  BY DEF IsSurface, AllRects, size, Point
<1>2. ASSUME NEW q \in AllPoints, contains_point(s.rect, q)
      PROVE  row(q) \in Nat /\ row(q) < h /\ col(q) \in Nat /\ col(q) < st
             /\ image_ptr_unsafe(s, q) = row(q) * st + col(q)
  BY <1>1, <1>2 DEF AllPoints, contains_point, image_ptr_unsafe
<1>3. Room(s) = 0 .. h * st - 1
  BY <1>1 DEF Room
<1> HIDE DEF row, col, h, st
<1>4. image_ptr_unsafe(s, p) \in Room(s)
  <2>1. row(p) * st \in Nat /\ h * st \in Nat /\ row(p) * st + st <= h * st
    BY <1>1, <1>2, RowsApart
  <2> QED
    BY <1>1, <1>2, <1>3, <2>1
<1>5. ASSUME NEW q \in AllPoints, contains_point(s.rect, q),
             image_ptr_unsafe(s, q) = image_ptr_unsafe(s, p)
      PROVE  q = p
  <2>1. row(q) * st + col(q) = row(p) * st + col(p)
    BY <1>2, <1>5
  <2>2. /\ row(p) \in Nat /\ row(q) \in Nat /\ st \in Nat
        /\ col(p) \in Nat /\ col(q) \in Nat /\ col(p) < st /\ col(q) < st
    BY <1>1, <1>2, <1>5
  <2>3. ~ (row(q) < row(p))
    <3>1. row(q) < row(p) => /\ row(q) * st + st <= row(p) * st
                             /\ row(q) * st \in Nat /\ row(p) * st \in Nat
      BY <2>2, RowsApart
    <3> QED
      BY <2>1, <2>2, <3>1
  <2>4. ~ (row(p) < row(q))
    <3>1. row(p) < row(q) => /\ row(p) * st + st <= row(q) * st
                             /\ row(p) * st \in Nat /\ row(q) * st \in Nat
      BY <2>2, RowsApart
    <3> QED
      BY <2>1, <2>2, <3>1
  <2>5. row(q) = row(p)
    BY <2>2, <2>3, <2>4
  <2>6. col(q) = col(p)
    <3> DEFINE m == row(p) * st
    <3>1. m \in Nat /\ m + col(q) = m + col(p)
      BY <2>1, <2>2, <2>5
    <3> HIDE DEF m
    <3> QED
      BY <2>2, <3>1
  <2>7. q.x = p.x /\ q.y = p.y
    BY <1>1, <2>5, <2>6 DEF row, col, AllPoints
  <2> QED
    BY <2>7 DEF AllPoints
<1> QED
  BY <1>4, <1>5

(* The pixels that fill_unsafe() writes. *)
Touched(s, r) == UNION {Slice(s, Point(r.x0, y), size(r).x) : y \in r.y0 .. r.y1 - 1}

(* The slices of fill_unsafe() are the pixels of the points of its         *)
(* rectangle.                                                              *)
LEMMA TouchedPoints ==
  ASSUME NEW s, IsSurface(s), NEW r \in AllRects
  PROVE  \A i : i \in Touched(s, r)
                  <=> \E p \in AllPoints : contains_point(r, p) /\ i = image_ptr_unsafe(s, p)
<1>1. /\ r.x0 \in Int /\ r.x1 \in Int /\ r.y0 \in Int /\ r.y1 \in Int
      /\ s.rect.x0 \in Int /\ s.rect.y0 \in Int /\ s.stride \in Nat
  BY DEF IsSurface, AllRects
<1>2. ASSUME NEW i, i \in Touched(s, r)
      PROVE  \E p \in AllPoints : contains_point(r, p) /\ i = image_ptr_unsafe(s, p)
  <2>1. PICK y \in r.y0 .. r.y1 - 1 : i \in Slice(s, Point(r.x0, y), size(r).x)
    BY <1>2 DEF Touched
  <2>2. PICK k \in 0 .. size(r).x - 1 : i = image_ptr_unsafe(s, Point(r.x0, y)) + k
    BY <2>1 DEF Slice
  <2> DEFINE p == Point(r.x0 + k, y)
  <2>3. k \in Int /\ 0 <= k /\ k < r.x1 - r.x0 /\ y \in Int /\ r.y0 <= y /\ y < r.y1
    BY <1>1 DEF size, Point
  <2>4. p \in AllPoints /\ contains_point(r, p)
    BY <1>1, <2>3 DEF AllPoints, contains_point, Point
  <2>5. i = image_ptr_unsafe(s, p)
    <3> DEFINE o == (y - s.rect.y0) * s.stride
    <3>1. o \in Int
      BY <1>1, <2>3
    <3>2. image_ptr_unsafe(s, Point(r.x0, y)) = o + (r.x0 - s.rect.x0)
      BY DEF image_ptr_unsafe, Point
    <3>3. image_ptr_unsafe(s, p) = o + ((r.x0 + k) - s.rect.x0)
      <4>1. p.x = r.x0 + k /\ p.y = y
        BY DEF Point
      <4> HIDE DEF p
      <4> QED
        BY <4>1 DEF image_ptr_unsafe
    <3> HIDE DEF o, p
    <3> QED
      BY <1>1, <2>2, <2>3, <3>1, <3>2, <3>3
  <2> QED
    BY <2>4, <2>5
<1>3. ASSUME NEW i, NEW p \in AllPoints, contains_point(r, p), i = image_ptr_unsafe(s, p)
      PROVE  i \in Touched(s, r)
  <2> DEFINE k == p.x - r.x0
             y == p.y
             o == (y - s.rect.y0) * s.stride
  <2>1. /\ p.x \in Int /\ y \in r.y0 .. r.y1 - 1 /\ k \in 0 .. size(r).x - 1 /\ k \in Int
    BY <1>1, <1>3 DEF AllPoints, contains_point, size, Point
  <2>2. o \in Int
    BY <1>1, <2>1
  <2>3. i = o + (p.x - s.rect.x0) /\ image_ptr_unsafe(s, Point(r.x0, y)) = o + (r.x0 - s.rect.x0)
    BY <1>3 DEF image_ptr_unsafe, Point
  <2>4. i = image_ptr_unsafe(s, Point(r.x0, y)) + k
    <3> HIDE DEF o
    <3> QED
      BY <1>1, <2>1, <2>2, <2>3
  <2> HIDE DEF k, y, o
  <2>5. i \in Slice(s, Point(r.x0, y), size(r).x)
    BY <2>1, <2>4 DEF Slice
  <2> QED
    BY <2>1, <2>5 DEF Touched
<1> QED
  BY <1>2, <1>3

(* What fill() of color c has made of s: t. *)
IsFilled(s, dst_rect, color, t) ==
  /\ IsSurface(t) /\ t.rect = s.rect /\ t.stride = s.stride
  /\ t.wild = s.wild
  /\ \A p \in AllPoints : contains_point(s.rect, p) =>
       t.image[image_ptr_unsafe(s, p)] =
         IF contains_point(dst_rect, p) THEN color ELSE s.image[image_ptr_unsafe(s, p)]
  /\ \A i \in Room(s) :
       (\A p \in AllPoints : contains_point(s.rect, p) => i # image_ptr_unsafe(s, p))
         => t.image[i] = s.image[i]

(* fill_unsafe() inside of the surface. *)
LEMMA FillUnsafeExact ==
  ASSUME NEW s, IsSurface(s), NEW r \in AllRects, NEW color,
         \A p \in AllPoints : contains_point(r, p) => contains_point(s.rect, p)
  PROVE  IsFilled(s, r, color, fill_unsafe(s, r, color))
<1> DEFINE t == fill_unsafe(s, r, color)
           touched == Touched(s, r)
           off(p) == image_ptr_unsafe(s, p)
<1>1. t = [s EXCEPT !.image = [i \in DOMAIN s.image |-> IF i \in touched THEN color ELSE s.image[i]],
                    !.wild = s.wild \/ ~ touched \subseteq DOMAIN s.image]
  BY DEF fill_unsafe, Touched
<1>2. DOMAIN s.image = Room(s)
  BY DEF IsSurface
<1>3. \A i : i \in touched <=> \E p \in AllPoints : contains_point(r, p) /\ i = off(p)
  BY TouchedPoints
<1>4. touched \subseteq Room(s)
  BY <1>3, OffsetsApart
<1> HIDE DEF t, touched, off
<1>5. /\ t.ptr = s.ptr /\ t.rect = s.rect /\ t.stride = s.stride /\ t.fill = s.fill
      /\ t.image = [i \in Room(s) |-> IF i \in touched THEN color ELSE s.image[i]]
      /\ t.wild = s.wild
      /\ t = [ptr |-> t.ptr, image |-> t.image, rect |-> t.rect, stride |-> t.stride,
              fill |-> t.fill, wild |-> t.wild]
  <2> DEFINE image == [i \in Room(s) |-> IF i \in touched THEN color ELSE s.image[i]]
             u == [ptr |-> s.ptr, image |-> s.image, rect |-> s.rect, stride |-> s.stride,
                   fill |-> s.fill, wild |-> s.wild]
  <2>1. s = u /\ s.wild \in BOOLEAN
    BY DEF IsSurface
  <2>2. t = [s EXCEPT !.image = image, !.wild = s.wild \/ ~ touched \subseteq Room(s)]
    BY <1>1, <1>2
  <2>3. (s.wild \/ ~ touched \subseteq Room(s)) = s.wild
    BY <1>4, <2>1
  <2>4. t = [s EXCEPT !.image = image, !.wild = s.wild]
    BY <2>2, <2>3
  <2> HIDE DEF image
  <2>5. t = [ptr |-> s.ptr, image |-> image, rect |-> s.rect, stride |-> s.stride,
             fill |-> s.fill, wild |-> s.wild]
    BY <2>1, <2>4
  <2> QED
    BY <2>5 DEF image
<1>6. IsSurface(t) /\ Room(t) = Room(s)
  BY <1>5 DEF IsSurface, Room
<1>7. ASSUME NEW p \in AllPoints, contains_point(s.rect, p)
      PROVE  t.image[off(p)] = IF contains_point(r, p) THEN color ELSE s.image[off(p)]
  <2>1. off(p) \in Room(s) /\ \A q \in AllPoints : contains_point(s.rect, q) /\ off(q) = off(p) => q = p
    BY <1>7, OffsetsApart DEF off
  <2>2. off(p) \in touched <=> contains_point(r, p)
    BY <1>3, <2>1
  <2> QED
    BY <1>5, <2>1, <2>2
<1>8. ASSUME NEW i \in Room(s), \A p \in AllPoints : contains_point(s.rect, p) => i # off(p)
      PROVE  t.image[i] = s.image[i]
  <2>1. i \notin touched
    BY <1>3, <1>8
  <2> QED
    BY <1>5, <2>1
<1> QED
  BY <1>5, <1>6, <1>7, <1>8 DEF IsFilled, t, off

(* fill() gives every point of the surface that is in the rectangle the    *)
(* color, leaves every other pixel of the image as it was, padding         *)
(* included, and accesses nothing outside of the image.                    *)
THEOREM FillExact ==
  ASSUME NEW s, IsSurface(s), NEW dst_rect \in AllRects, NEW color
  PROVE  IsFilled(s, dst_rect, color, fill(s, dst_rect, color))
<1> DEFINE rect == intersect(dst_rect, s.rect)
<1>1. /\ rect \in AllRects
      /\ \A p \in AllPoints : contains_point(rect, p)
                              <=> contains_point(dst_rect, p) /\ contains_point(s.rect, p)
  BY IntersectPoints DEF IsSurface
<1>2. fill(s, dst_rect, color) = IF is_empty(rect) THEN s ELSE fill_unsafe(s, rect, color)
  BY DEF fill
<1> HIDE DEF rect
<1>3. CASE is_empty(rect)
  <2>1. \A p \in AllPoints : ~ contains_point(rect, p)
    BY <1>1, <1>3 DEF is_empty, contains_point, AllRects, AllPoints
  <2> QED
    BY <1>1, <1>2, <1>3, <2>1 DEF IsFilled
<1>4. CASE ~ is_empty(rect)
  <2>1. IsFilled(s, rect, color, fill_unsafe(s, rect, color))
    BY <1>1, FillUnsafeExact
  <2> QED
    BY <1>1, <1>2, <1>4, <2>1 DEF IsFilled
<1> QED
  BY <1>3, <1>4
=============================================================================
