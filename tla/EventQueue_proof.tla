-------------------------- MODULE EventQueue_proof --------------------------
(***************************************************************************)
(* Proofs about the event queue, for any set of events and any bounds: the *)
(* queue stays in firing order and nothing on it is ever in the past; and  *)
(* the linked list of the code implements the queue.                       *)
(***************************************************************************)
EXTENDS EventList, FiniteSetTheorems, WellFoundedInduction, SequenceTheorems, TLAPS

\* A set of positions has a least one: the loops over the list stop at the
\* first event that satisfies their test.
LEMMA LeastPosition ==
  ASSUME NEW n \in Nat, NEW T \in SUBSET (1 .. n), T # {}
  PROVE  \E x \in T : \A y \in T : x <= y
<1> DEFINE Upto(x) == {i \in T : i <= x}
           S == 1 .. n
           D == {Upto(x) : x \in T}
<1>1. IsFiniteSet(S)
  BY FS_Interval
<1>2. D \subseteq SUBSET S /\ D # {}
  OBVIOUS
<1>3. IsWellFoundedOn(StrictSubsetOrdering(S), SUBSET S)
  <2> HIDE DEF S
  <2> QED BY <1>1, FS_StrictSubsetOrderingWellFounded, FS_FiniteSubsetsOfFinite
<1>4. PICK d \in D : \A c \in D : ~ (<<c, d>> \in StrictSubsetOrdering(S))
  <2> HIDE DEF D, S
  <2> QED BY <1>2, <1>3, WFMin
<1>5. PICK x \in T : d = Upto(x)
  OBVIOUS
<1>6. ASSUME NEW y \in T, ~ (x <= y)  PROVE FALSE
  <2>1. x \in Int /\ y \in Int /\ y < x /\ T \subseteq Int
    BY <1>6
  <2>2. \A i \in T : i <= y => i <= x
    BY <2>1
  <2>3. Upto(y) \subseteq Upto(x)
    BY <2>2
  <2>4. x \notin Upto(y)
    BY <1>6
  <2>5. x \in Upto(x)
    <3>1. x <= x BY <2>1
    <3> QED BY <3>1
  <2>6. Upto(y) \in SUBSET S /\ d \in SUBSET S /\ Upto(y) # d /\ Upto(y) \subseteq d /\ Upto(y) \in D
    BY <2>3, <2>4, <2>5, <1>5, <1>2
  <2>7. <<Upto(y), d>> \in StrictSubsetOrdering(S)
    <3> HIDE DEF S, Upto, D
    <3> QED BY <2>6 DEF StrictSubsetOrdering
  <2> QED BY <2>6, <2>7, <1>4
<1> QED BY <1>6

\* The scan of schedule() finds a place: after events that fire no later and
\* before the first one that fires later.
LEMMA SlotFound ==
  ASSUME NEW q \in Seq(Event), NEW at \in [Event -> Int], NEW t \in Int
  PROVE  /\ Slot(q, at, t) \in 1 .. Len(q) + 1
         /\ \A i \in 1 .. Slot(q, at, t) - 1 : at[q[i]] <= t
         /\ Slot(q, at, t) <= Len(q) => at[q[Slot(q, at, t)]] > t
<1> DEFINE Good(k) == /\ \A i \in 1 .. k - 1 : at[q[i]] <= t
                      /\ k <= Len(q) => at[q[k]] > t
           T == {i \in 1 .. Len(q) : at[q[i]] > t}
<1>1. \A i \in 1 .. Len(q) : at[q[i]] \in Int
  OBVIOUS
<1>2. \E k \in 1 .. Len(q) + 1 : Good(k)
  <2>1. CASE T = {}
    <3>1. \A i \in 1 .. Len(q) : at[q[i]] <= t
      BY <2>1, <1>1
    <3>2. Len(q) + 1 \in 1 .. Len(q) + 1 /\ Good(Len(q) + 1)
      BY <3>1
    <3> QED BY <3>2
  <2>2. CASE T # {}
    <3>0. Len(q) \in Nat /\ T \in SUBSET (1 .. Len(q))
      OBVIOUS
    <3>1. PICK k \in T : \A y \in T : k <= y
      <4> HIDE DEF T
      <4> QED BY <2>2, <3>0, LeastPosition
    <3>2. k \in 1 .. Len(q) /\ at[q[k]] > t
      OBVIOUS
    <3>3. ASSUME NEW i \in 1 .. k - 1  PROVE at[q[i]] <= t
      <4>1. i \in 1 .. Len(q) /\ ~ (k <= i)
        BY <3>2
      <4>2. i \notin T
        <5> HIDE DEF T
        <5> QED BY <3>1, <4>1
      <4>3. ~ (at[q[i]] > t)
        BY <4>1, <4>2
      <4> QED BY <1>1, <4>1, <4>3
    <3>4. k \in 1 .. Len(q) + 1 /\ Good(k)
      BY <3>2, <3>3
    <3> QED BY <3>4
  <2> QED BY <2>1, <2>2
<1>3. Slot(q, at, t) = CHOOSE k \in 1 .. Len(q) + 1 : Good(k)
  BY DEF Slot
<1>4. Slot(q, at, t) \in 1 .. Len(q) + 1 /\ Good(Slot(q, at, t))
  <2> HIDE DEF Good
  <2> QED BY <1>2, <1>3
<1> QED BY <1>4

\* What an insertion makes of the queue.
LEMMA InsertAtElements ==
  ASSUME NEW S, NEW s \in Seq(S), NEW k \in 1 .. Len(s) + 1, NEW e \in S
  PROVE  /\ InsertAt(s, k, e) \in Seq(S)
         /\ Len(InsertAt(s, k, e)) = Len(s) + 1
         /\ \A i \in 1 .. Len(s) + 1 :
              InsertAt(s, k, e)[i] = IF i < k THEN s[i] ELSE IF i = k THEN e ELSE s[i - 1]
<1> DEFINE a == SubSeq(s, 1, k - 1)
           b == SubSeq(s, k, Len(s))
<1>1. a \in Seq(S) /\ Len(a) = k - 1 /\ \A i \in 1 .. k - 1 : a[i] = s[i]
  BY SubSeqProperties
<1>2. b \in Seq(S) /\ Len(b) = Len(s) - k + 1 /\ \A i \in 1 .. Len(s) - k + 1 : b[i] = s[k + i - 1]
  BY SubSeqProperties
<1>3. <<e>> \in Seq(S) /\ Len(<<e>>) = 1 /\ <<e>>[1] = e
  OBVIOUS
<1> HIDE DEF a, b
<1>4. /\ a \o <<e>> \in Seq(S) /\ Len(a \o <<e>>) = k
      /\ \A i \in 1 .. k : (a \o <<e>>)[i] = IF i < k THEN s[i] ELSE e
  BY <1>1, <1>3, ConcatProperties
<1>5. InsertAt(s, k, e) = (a \o <<e>>) \o b
  BY DEF InsertAt, a, b
<1> DEFINE ae == a \o <<e>>
<1> HIDE DEF ae
<1>6. /\ ae \o b \in Seq(S) /\ Len(ae \o b) = Len(s) + 1
      /\ \A i \in 1 .. Len(s) + 1 : (ae \o b)[i] = IF i <= k THEN ae[i] ELSE b[i - k]
  <2>1. ae \in Seq(S) /\ Len(ae) = k
    BY <1>4 DEF ae
  <2>2. /\ ae \o b \in Seq(S) /\ Len(ae \o b) = Len(ae) + Len(b)
        /\ \A i \in 1 .. Len(ae) + Len(b) :
             (ae \o b)[i] = IF i <= Len(ae) THEN ae[i] ELSE b[i - Len(ae)]
    BY <1>2, <2>1, ConcatProperties
  <2>3. Len(ae) + Len(b) = Len(s) + 1
    BY <1>2, <2>1
  <2> QED BY <2>1, <2>2, <2>3
<1>7. \A i \in 1 .. Len(s) + 1 : i > k => b[i - k] = s[i - 1]
  BY <1>2
<1> QED BY <1>4, <1>5, <1>6, <1>7, SMTT(30) DEF ae

\* What a removal makes of the queue.
LEMMA RemoveAtElements ==
  ASSUME NEW S, NEW s \in Seq(S), NEW k \in 1 .. Len(s)
  PROVE  /\ RemoveAt(s, k) \in Seq(S)
         /\ Len(RemoveAt(s, k)) = Len(s) - 1
         /\ \A i \in 1 .. Len(s) - 1 :
              RemoveAt(s, k)[i] = IF i < k THEN s[i] ELSE s[i + 1]
<1> DEFINE a == SubSeq(s, 1, k - 1)
           b == SubSeq(s, k + 1, Len(s))
<1>1. a \in Seq(S) /\ Len(a) = k - 1 /\ \A i \in 1 .. k - 1 : a[i] = s[i]
  BY SubSeqProperties
<1>2. b \in Seq(S) /\ Len(b) = Len(s) - k /\ \A i \in 1 .. Len(s) - k : b[i] = s[k + i]
  BY SubSeqProperties
<1> HIDE DEF a, b
<1>3. /\ a \o b \in Seq(S) /\ Len(a \o b) = Len(s) - 1
      /\ \A i \in 1 .. Len(s) - 1 : (a \o b)[i] = IF i <= k - 1 THEN a[i] ELSE b[i - (k - 1)]
  <2>1. /\ a \o b \in Seq(S) /\ Len(a \o b) = Len(a) + Len(b)
        /\ \A i \in 1 .. Len(a) + Len(b) :
             (a \o b)[i] = IF i <= Len(a) THEN a[i] ELSE b[i - Len(a)]
    BY <1>1, <1>2, ConcatProperties
  <2>2. Len(a) + Len(b) = Len(s) - 1
    BY <1>1, <1>2
  <2> QED BY <1>1, <2>1, <2>2
<1>4. RemoveAt(s, k) = a \o b
  BY DEF RemoveAt, a, b
<1>5. ASSUME NEW i \in 1 .. Len(s) - 1
      PROVE  (a \o b)[i] = IF i < k THEN s[i] ELSE s[i + 1]
  <2>1. CASE i < k
    <3>1. i \in 1 .. k - 1 /\ i <= k - 1
      BY <2>1
    <3> QED BY <1>1, <1>3, <2>1, <3>1
  <2>2. CASE ~ (i < k)
    <3>1. i - (k - 1) \in 1 .. Len(s) - k /\ ~ (i <= k - 1) /\ k + (i - (k - 1)) = i + 1
      BY <2>2
    <3>2. b[i - (k - 1)] = s[i + 1]
      BY <1>2, <3>1
    <3> QED BY <1>3, <2>2, <3>1, <3>2
  <2> QED BY <2>1, <2>2
<1> QED BY <1>3, <1>4, <1>5

\* cancel() takes one event out of the queue, or leaves it alone.
LEMMA RemoveFirstCases ==
  ASSUME NEW S, NEW s \in Seq(S), NEW e
  PROVE  \/ RemoveFirst(s, e) = s
         \/ \E k \in 1 .. Len(s) : s[k] = e /\ RemoveFirst(s, e) = RemoveAt(s, k)
<1> DEFINE I == {i \in 1 .. Len(s) : s[i] = e}
<1>1. CASE I = {}
  BY <1>1 DEF RemoveFirst
<1>2. CASE I # {}
  <2>1. Len(s) \in Nat /\ I \in SUBSET (1 .. Len(s))
    OBVIOUS
  <2>2. \E k \in I : \A y \in I : k <= y
    <3> HIDE DEF I
    <3> QED BY <1>2, <2>1, LeastPosition
  <2>3. Min(I) \in I
    <3> HIDE DEF I
    <3> QED BY <2>2 DEF Min
  <2>4. RemoveFirst(s, e) = RemoveAt(s, Min(I))
    BY <1>2 DEF RemoveFirst, SelectInSeq
  <2> QED BY <2>3, <2>4
<1> QED BY <1>1, <1>2

IInv == TypeOK /\ QueueOK

LEMMA InitIInv == Init => IInv
BY QueueBounds DEF Init, IInv, TypeOK, QueueOK, OnceOnly, InOrder, NotOverdue

\* Queue q is in order for the trigger times at, and not overdue at time now.
Ordered(q, at, now) ==
  /\ \A i, j \in 1 .. Len(q) : q[i] = q[j] => i = j
  /\ \A i, j \in 1 .. Len(q) : i <= j => at[q[i]] <= at[q[j]]
  /\ \A i \in 1 .. Len(q) : now <= at[q[i]]

\* Queue r is q with e at position k.
Inserted(q, r, k, e) ==
  /\ Len(r) = Len(q) + 1
  /\ \A i \in 1 .. Len(q) + 1 : r[i] = IF i < k THEN q[i] ELSE IF i = k THEN e ELSE q[i - 1]

\* Position k is where e belongs.
Fits(q, at, k, e) ==
  /\ \A i \in 1 .. Len(q) : q[i] # e
  /\ \A i \in 1 .. k - 1 : at[q[i]] <= at[e]
  /\ \A i \in k .. Len(q) : at[e] <= at[q[i]]

\* A queue with one more event, placed after the events that fire no later and
\* before those that fire later, keeps its order.
LEMMA InsertedQueue ==
  ASSUME NEW q \in Seq(Event), NEW r \in Seq(Event), NEW at \in [Event -> Int], NEW now \in Int,
         NEW e \in Event, NEW k \in 1 .. Len(q) + 1,
         Ordered(q, at, now), Inserted(q, r, k, e), Fits(q, at, k, e), now <= at[e]
  PROVE  Ordered(r, at, now)
<1>a. /\ \A i, j \in 1 .. Len(q) : q[i] = q[j] => i = j
      /\ \A i, j \in 1 .. Len(q) : i <= j => at[q[i]] <= at[q[j]]
      /\ \A i \in 1 .. Len(q) : now <= at[q[i]]
  BY DEF Ordered
<1>b. Len(r) = Len(q) + 1
  BY DEF Inserted
<1>c. \A i \in 1 .. Len(q) + 1 : r[i] = IF i < k THEN q[i] ELSE IF i = k THEN e ELSE q[i - 1]
  BY DEF Inserted
<1>d. /\ \A i \in 1 .. Len(q) : q[i] # e
      /\ \A i \in 1 .. k - 1 : at[q[i]] <= at[e]
      /\ \A i \in k .. Len(q) : at[e] <= at[q[i]]
  BY DEF Fits
<1> DEFINE Old(i) == IF i < k THEN i ELSE i - 1
<1>1. ASSUME NEW i \in 1 .. Len(r), i # k
      PROVE  Old(i) \in 1 .. Len(q) /\ r[i] = q[Old(i)] /\ r[i] \in Event
  <2>1. CASE i < k
    BY <1>b, <1>c, <2>1
  <2>2. CASE i > k
    <3>1. i - 1 \in 1 .. Len(q) /\ r[i] = q[i - 1]
      BY <1>b, <1>c, <2>2
    <3> QED BY <2>2, <3>1, SMTT(30)
  <2> QED BY <1>1, <2>1, <2>2
<1>2. k \in 1 .. Len(r) /\ r[k] = e /\ k \in Int
  BY <1>b, <1>c
<1>3. \A i \in 1 .. Len(r) : now <= at[r[i]]
  BY <1>1, <1>2, <1>a
<1>4. ASSUME NEW i \in 1 .. Len(r), NEW j \in 1 .. Len(r), i < j
      PROVE  r[i] # r[j] /\ at[r[i]] <= at[r[j]]
  <2>1. CASE i # k /\ j # k
    <3>1. Old(i) \in 1 .. Len(q) /\ Old(j) \in 1 .. Len(q) /\ Old(i) < Old(j)
      BY <1>1, <1>4, <2>1, SMTT(30)
    <3>2. r[i] = q[Old(i)] /\ r[j] = q[Old(j)]
      BY <1>1, <2>1
    <3> HIDE DEF Old
    <3>3. Old(i) <= Old(j) /\ Old(i) # Old(j)
      BY <3>1, SMTT(30)
    <3> QED BY <1>a, <3>1, <3>2, <3>3
  <2>2. CASE i = k
    <3>1. j # k /\ Old(j) \in k .. Len(q)
      BY <1>1, <1>4, <1>b, <2>2, SMTT(30)
    <3>2. Old(j) \in 1 .. Len(q) /\ r[j] = q[Old(j)]
      BY <1>1, <3>1
    <3> HIDE DEF Old
    <3> QED BY <1>2, <1>d, <2>2, <3>1, <3>2
  <2>3. CASE j = k
    <3>1. i # k /\ Old(i) \in 1 .. k - 1
      BY <1>1, <1>4, <1>b, <2>3, SMTT(30)
    <3>2. Old(i) \in 1 .. Len(q) /\ r[i] = q[Old(i)]
      BY <1>1, <3>1
    <3> HIDE DEF Old
    <3> QED BY <1>2, <1>d, <2>3, <3>1, <3>2
  <2> QED BY <2>1, <2>2, <2>3
<1>5. \A i \in 1 .. Len(r) : at[r[i]] \in Int
  <2> r \in Seq(Event) /\ \A i \in 1 .. Len(r) : r[i] \in Event
    OBVIOUS
  <2> QED OBVIOUS
<1>6. \A i, j \in 1 .. Len(r) : r[i] = r[j] => i = j
  <2> SUFFICES ASSUME NEW i \in 1 .. Len(r), NEW j \in 1 .. Len(r), i # j
               PROVE  r[i] # r[j]
    OBVIOUS
  <2>1. i < j \/ j < i
    OBVIOUS
  <2> QED BY <1>4, <2>1
<1>7. \A i, j \in 1 .. Len(r) : i <= j => at[r[i]] <= at[r[j]]
  <2> SUFFICES ASSUME NEW i \in 1 .. Len(r), NEW j \in 1 .. Len(r), i <= j
               PROVE  at[r[i]] <= at[r[j]]
    OBVIOUS
  <2>1. i < j \/ i = j
    OBVIOUS
  <2>2. CASE i = j
    <3>1. at[r[j]] <= at[r[j]]
      BY <1>5
    <3> QED BY <2>2, <3>1
  <2> QED BY <1>4, <2>1, <2>2
<1> QED BY <1>3, <1>6, <1>7 DEF Ordered

\* An insertion at a time that is not in the past keeps the queue in order.
LEMMA InsertIInv ==
  ASSUME IInv, NEW e \in Event, NEW t \in Int, currentTime <= t, Insert(e, t)
  PROVE  IInv'
<1> DEFINE k == Slot(queue, triggerTime', t)
<1>0. /\ \A i, j \in 1 .. Len(queue) : queue[i] = queue[j] => i = j
      /\ \A i, j \in 1 .. Len(queue) : i <= j => triggerTime[queue[i]] <= triggerTime[queue[j]]
      /\ \A i \in 1 .. Len(queue) : currentTime <= triggerTime[queue[i]]
  BY DEF IInv, QueueOK, OnceOnly, InOrder, NotOverdue
<1>1. /\ queue \in Seq(Event) /\ triggerTime \in [Event -> 0 .. MaxTime]
      /\ currentTime \in 0 .. MaxTime /\ MaxTime \in Nat /\ t \in 0 .. MaxTime
      /\ currentTime' = currentTime
  BY QueueBounds DEF Insert, IInv, TypeOK
<1>2. /\ triggerTime' \in [Event -> 0 .. MaxTime] /\ triggerTime'[e] = t
      /\ \A f \in Event : f # e => triggerTime'[f] = triggerTime[f]
  BY <1>1 DEF Insert
<1>3. triggerTime' \in [Event -> Int]
  BY <1>1, <1>2
<1>4. /\ k \in 1 .. Len(queue) + 1
      /\ \A i \in 1 .. k - 1 : triggerTime'[queue[i]] <= t
      /\ k <= Len(queue) => triggerTime'[queue[k]] > t
  BY <1>1, <1>3, SlotFound
<1>5. queue' = InsertAt(queue, k, e)
  BY DEF Insert
<1> HIDE DEF k
<1>6. \A i \in 1 .. Len(queue) : queue[i] \in Event /\ queue[i] # e
  BY <1>1 DEF Insert, Pending, ToSet
<1>7. /\ queue' \in Seq(Event) /\ Len(queue') = Len(queue) + 1
      /\ \A i \in 1 .. Len(queue) + 1 :
           queue'[i] = IF i < k THEN queue[i] ELSE IF i = k THEN e ELSE queue[i - 1]
  <2> DEFINE r == InsertAt(queue, k, e)
  <2>1. /\ r \in Seq(Event) /\ Len(r) = Len(queue) + 1
        /\ \A i \in 1 .. Len(queue) + 1 :
             r[i] = IF i < k THEN queue[i] ELSE IF i = k THEN e ELSE queue[i - 1]
    BY <1>1, <1>4, InsertAtElements
  <2>2. queue' = r
    BY <1>5
  <2> HIDE DEF r
  <2> QED BY <2>1, <2>2
<1>8. /\ \A i, j \in 1 .. Len(queue) : i <= j => triggerTime'[queue[i]] <= triggerTime'[queue[j]]
      /\ \A i \in 1 .. Len(queue) : currentTime <= triggerTime'[queue[i]]
  <2>1. \A i \in 1 .. Len(queue) : triggerTime'[queue[i]] = triggerTime[queue[i]]
    BY <1>2, <1>6
  <2> QED BY <1>0, <2>1
<1>9. \A i \in k .. Len(queue) : triggerTime'[e] <= triggerTime'[queue[i]]
  <2> SUFFICES ASSUME NEW i \in k .. Len(queue)
               PROVE  t <= triggerTime'[queue[i]]
    BY <1>2
  <2>1. k \in 1 .. Len(queue) /\ i \in 1 .. Len(queue) /\ k <= i
    BY <1>4
  <2>2. triggerTime'[queue[k]] <= triggerTime'[queue[i]] /\ triggerTime'[queue[k]] > t
    BY <1>4, <1>8, <2>1
  <2>3. triggerTime'[queue[k]] \in Int /\ triggerTime'[queue[i]] \in Int
    BY <1>3, <1>6, <2>1
  <2> QED BY <2>2, <2>3
<1>10. /\ \A i, j \in 1 .. Len(queue') : queue'[i] = queue'[j] => i = j
       /\ \A i, j \in 1 .. Len(queue') : i <= j => triggerTime'[queue'[i]] <= triggerTime'[queue'[j]]
       /\ \A i \in 1 .. Len(queue') : currentTime <= triggerTime'[queue'[i]]
  <2>1. \A i \in 1 .. k - 1 : triggerTime'[queue[i]] <= triggerTime'[e]
    BY <1>2, <1>4
  <2>2. currentTime \in Int /\ currentTime <= triggerTime'[e]
    BY <1>1, <1>2
  <2>3. /\ queue \in Seq(Event) /\ queue' \in Seq(Event) /\ Len(queue') = Len(queue) + 1
        /\ k \in 1 .. Len(queue) + 1 /\ \A i \in 1 .. Len(queue) : queue[i] # e
    BY <1>1, <1>4, <1>6, <1>7
  <2>4. \A i \in 1 .. Len(queue) + 1 :
           queue'[i] = IF i < k THEN queue[i] ELSE IF i = k THEN e ELSE queue[i - 1]
    BY <1>7
  <2>5. \A i, j \in 1 .. Len(queue) : queue[i] = queue[j] => i = j
    BY <1>0
  <2> DEFINE r == queue'
             at == triggerTime'
  <2>6. \A i \in k .. Len(queue) : at[e] <= at[queue[i]]
    BY <1>9
  <2> HIDE DEF r, at
  <2>7. /\ \A i, j \in 1 .. Len(r) : r[i] = r[j] => i = j
        /\ \A i, j \in 1 .. Len(r) : i <= j => at[r[i]] <= at[r[j]]
        /\ \A i \in 1 .. Len(r) : currentTime <= at[r[i]]
    <3>1. /\ queue \in Seq(Event) /\ r \in Seq(Event) /\ at \in [Event -> Int]
          /\ currentTime \in Int /\ k \in 1 .. Len(queue) + 1 /\ currentTime <= at[e]
      BY <1>3, <2>2, <2>3 DEF r, at
    <3>2. Inserted(queue, r, k, e)
      BY <2>3, <2>4 DEF r, Inserted
    <3>3. Fits(queue, at, k, e)
      BY <2>1, <2>3, <2>6 DEF at, Fits
    <3>4. Ordered(queue, at, currentTime)
      BY <1>8, <2>5 DEF at, Ordered
    <3>5. Ordered(r, at, currentTime)
      BY <3>1, <3>2, <3>3, <3>4, InsertedQueue
    <3> QED BY <3>5 DEF Ordered
  <2> QED BY <2>7 DEF r, at
<1> QED BY <1>1, <1>2, <1>7, <1>10 DEF IInv, TypeOK, QueueOK, OnceOnly, InOrder, NotOverdue

\* The slot a client asks for is never in the past.
LEMMA NextSlotNotPast ==
  ASSUME NEW now \in Nat, NEW cycles \in Nat, NEW phase \in Phase
  PROVE  /\ NextSlot(now, cycles, phase) \in Nat
         /\ NextSlot(now, cycles, phase) % 2 = phase
         /\ now + 2 * cycles <= NextSlot(now, cycles, phase)
         /\ NextSlot(now, cycles, phase) <= now + 2 * cycles + 1
BY DEF NextSlot, Phase, PHI1, PHI2

\* A queue made of some of the events of another one, in the same order, keeps
\* its order.
LEMMA SubQueue ==
  ASSUME NEW q \in Seq(Event), NEW r \in Seq(Event), NEW at \in [Event -> Int], NEW now \in Int,
         NEW m \in [1 .. Len(r) -> 1 .. Len(q)],
         \A i \in 1 .. Len(r) : r[i] = q[m[i]],
         \A i, j \in 1 .. Len(r) : i < j => m[i] < m[j],
         \A i, j \in 1 .. Len(q) : q[i] = q[j] => i = j,
         \A i, j \in 1 .. Len(q) : i <= j => at[q[i]] <= at[q[j]],
         \A i \in 1 .. Len(q) : now <= at[q[i]]
  PROVE  /\ \A i, j \in 1 .. Len(r) : r[i] = r[j] => i = j
         /\ \A i, j \in 1 .. Len(r) : i <= j => at[r[i]] <= at[r[j]]
         /\ \A i \in 1 .. Len(r) : now <= at[r[i]]
<1>1. ASSUME NEW i \in 1 .. Len(r), NEW j \in 1 .. Len(r)
      PROVE  /\ r[i] = r[j] => i = j
             /\ i <= j => at[r[i]] <= at[r[j]]
             /\ now <= at[r[i]]
  <2>1. /\ m[i] \in 1 .. Len(q) /\ m[j] \in 1 .. Len(q)
        /\ r[i] = q[m[i]] /\ r[j] = q[m[j]]
    OBVIOUS
  <2>2. r[i] = r[j] => m[i] = m[j]
    BY <2>1
  <2>3. i < j => m[i] < m[j]
    OBVIOUS
  <2>4. j < i => m[j] < m[i]
    OBVIOUS
  <2>5. i \in Int /\ j \in Int /\ m[i] \in Int /\ m[j] \in Int
    BY <2>1
  <2>6. r[i] = r[j] => i = j
    BY <2>2, <2>3, <2>4, <2>5
  <2>7. i <= j => m[i] <= m[j]
    BY <2>3, <2>5
  <2> QED BY <2>1, <2>6, <2>7
<1> QED BY <1>1

LEMMA CancelIInv ==
  ASSUME IInv, NEW e \in Event, Cancel(e)
  PROVE  IInv'
<1>0. /\ \A i, j \in 1 .. Len(queue) : queue[i] = queue[j] => i = j
      /\ \A i, j \in 1 .. Len(queue) : i <= j => triggerTime[queue[i]] <= triggerTime[queue[j]]
      /\ \A i \in 1 .. Len(queue) : currentTime <= triggerTime[queue[i]]
  BY DEF IInv, QueueOK, OnceOnly, InOrder, NotOverdue
<1>1. /\ queue \in Seq(Event) /\ triggerTime' = triggerTime /\ currentTime' = currentTime
      /\ triggerTime \in [Event -> 0 .. MaxTime] /\ currentTime \in 0 .. MaxTime /\ MaxTime \in Nat
  BY QueueBounds DEF Cancel, IInv, TypeOK
<1>2. CASE queue' = queue
  BY <1>1, <1>2 DEF IInv, TypeOK, QueueOK, OnceOnly, InOrder, NotOverdue
<1>3. ASSUME NEW k \in 1 .. Len(queue), queue' = RemoveAt(queue, k)
      PROVE  IInv'
  <2> DEFINE m == [i \in 1 .. Len(queue) - 1 |-> IF i < k THEN i ELSE i + 1]
  <2>1. /\ queue' \in Seq(Event) /\ Len(queue') = Len(queue) - 1
        /\ \A i \in 1 .. Len(queue) - 1 : queue'[i] = IF i < k THEN queue[i] ELSE queue[i + 1]
    BY <1>1, <1>3, RemoveAtElements
  <2>2. /\ m \in [1 .. Len(queue') -> 1 .. Len(queue)]
        /\ \A i \in 1 .. Len(queue') : queue'[i] = queue[m[i]]
        /\ \A i, j \in 1 .. Len(queue') : i < j => m[i] < m[j]
    BY <2>1
  <2>3. triggerTime \in [Event -> Int] /\ currentTime \in Int
    BY <1>1
  <2>4. /\ \A i, j \in 1 .. Len(queue') : queue'[i] = queue'[j] => i = j
        /\ \A i, j \in 1 .. Len(queue') : i <= j => triggerTime[queue'[i]] <= triggerTime[queue'[j]]
        /\ \A i \in 1 .. Len(queue') : currentTime <= triggerTime[queue'[i]]
    <3> HIDE DEF m
    <3> QED BY <1>0, <1>1, <2>1, <2>2, <2>3, SubQueue
  <2> QED BY <1>1, <2>1, <2>4 DEF IInv, TypeOK, QueueOK, OnceOnly, InOrder, NotOverdue
<1> QED BY <1>1, <1>2, <1>3, RemoveFirstCases DEF Cancel

LEMMA ClockIInv ==
  ASSUME IInv, Clock
  PROVE  IInv'
<1>0. /\ \A i, j \in 1 .. Len(queue) : queue[i] = queue[j] => i = j
      /\ \A i, j \in 1 .. Len(queue) : i <= j => triggerTime[queue[i]] <= triggerTime[queue[j]]
  BY DEF IInv, QueueOK, OnceOnly, InOrder
<1>1. /\ queue \in Seq(Event) /\ queue # <<>> /\ triggerTime' = triggerTime
      /\ triggerTime \in [Event -> 0 .. MaxTime] /\ MaxTime \in Nat
      /\ currentTime' = triggerTime[Head(queue)]
  BY QueueBounds DEF Clock, IInv, TypeOK
<1>2. /\ Len(queue) \in Nat \ {0} /\ Head(queue) = queue[1]
      /\ queue[1] \in Event /\ currentTime' \in 0 .. MaxTime
  BY <1>1
<1> DEFINE m == [i \in 1 .. Len(queue') |-> i + 1]
<1>3. /\ queue' \in Seq(Event) /\ Len(queue') = Len(queue) - 1
      /\ \A i \in 1 .. Len(queue') : queue'[i] = queue[i + 1]
  BY <1>1, HeadTailProperties DEF Clock
<1>4. /\ m \in [1 .. Len(queue') -> 1 .. Len(queue)]
      /\ \A i \in 1 .. Len(queue') : queue'[i] = queue[m[i]]
      /\ \A i, j \in 1 .. Len(queue') : i < j => m[i] < m[j]
  BY <1>2, <1>3
<1>5. triggerTime \in [Event -> Int] /\ currentTime' \in Int
  BY <1>1, <1>2
<1>6. \A i \in 1 .. Len(queue) : currentTime' <= triggerTime[queue[i]]
  BY <1>0, <1>1, <1>2
<1>7. /\ \A i, j \in 1 .. Len(queue') : queue'[i] = queue'[j] => i = j
      /\ \A i, j \in 1 .. Len(queue') : i <= j => triggerTime[queue'[i]] <= triggerTime[queue'[j]]
      /\ \A i \in 1 .. Len(queue') : currentTime' <= triggerTime[queue'[i]]
  <2> HIDE DEF m
  <2> QED BY <1>0, <1>1, <1>3, <1>4, <1>5, <1>6, SubQueue, ZenonT(60)
<1> QED BY <1>1, <1>2, <1>3, <1>7 DEF IInv, TypeOK, QueueOK, OnceOnly, InOrder, NotOverdue

LEMMA NextIInv == IInv /\ [Next]_vars => IInv'
<1> SUFFICES ASSUME IInv, [Next]_vars  PROVE IInv'
  OBVIOUS
<1>1. MaxCycles \in Nat /\ MaxTime \in Nat /\ currentTime \in Nat
  BY QueueBounds DEF IInv, TypeOK
<1>2. ASSUME NEW e \in Event, NEW c \in 0 .. MaxCycles, NEW p \in Phase, ScheduleInPhase(e, c, p)
      PROVE  IInv'
  <2>1. NextSlot(currentTime, c, p) \in Int /\ currentTime <= NextSlot(currentTime, c, p)
    BY <1>1, NextSlotNotPast
  <2> QED BY <1>2, <2>1, InsertIInv DEF ScheduleInPhase
<1>3. ASSUME NEW e \in Event, NEW c \in 0 .. MaxCycles, Schedule(e, c)
      PROVE  IInv'
  <2>1. currentTime + 2 * c \in Int /\ currentTime <= currentTime + 2 * c
    BY <1>1
  <2> QED BY <1>3, <2>1, InsertIInv DEF Schedule
<1>4. ASSUME NEW e \in Event, Cancel(e)  PROVE IInv'
  BY <1>4, CancelIInv
<1>5. CASE Reset
  BY <1>5, <1>1 DEF Reset, IInv, TypeOK, QueueOK, OnceOnly, InOrder, NotOverdue
<1>6. CASE Clock
  BY <1>6, ClockIInv
<1>7. CASE UNCHANGED vars
  BY <1>7 DEF vars, IInv, TypeOK, QueueOK, OnceOnly, InOrder, NotOverdue
<1> QED BY <1>2, <1>3, <1>4, <1>5, <1>6, <1>7 DEF Next

\* Every reachable queue is well typed.
THEOREM QueueTypeCorrect == Spec => []TypeOK
<1>1. IInv => TypeOK
  BY DEF IInv
<1> QED BY InitIInv, NextIInv, <1>1, PTL DEF Spec

\* An event is queued at most once, the queue is in firing order, and no
\* pending event is in the past: clock() always takes the earliest event and
\* never turns the time back.
THEOREM QueueCorrect == Spec => []QueueOK
<1>1. IInv => QueueOK
  BY DEF IInv
<1> QED BY InitIInv, NextIInv, <1>1, PTL DEF Spec

\* Time goes forward, and only clock() moves it while events are pending; it
\* stops at the first of them, so that it passes none.
THEOREM TimeCorrect == Spec => TimeAdvances
<1> DEFINE Advances ==
      currentTime' # currentTime /\ queue' # <<>> =>
        /\ currentTime' > currentTime
        /\ \A e \in Pending' : triggerTime'[e] >= currentTime'
<1>1. IInv /\ IInv' /\ [Next]_vars => [Advances]_vars
  <2> SUFFICES ASSUME IInv, IInv', Next, currentTime' # currentTime, queue' # <<>>
               PROVE  /\ currentTime' > currentTime
                      /\ \A e \in Pending' : triggerTime'[e] >= currentTime'
    OBVIOUS
  <2>1. Clock
    BY DEF Next, ScheduleInPhase, Schedule, Insert, Cancel, Reset
  <2>2. queue \in Seq(Event) /\ queue # <<>> /\ currentTime' = triggerTime[queue[1]]
    BY <2>1 DEF Clock, IInv, TypeOK
  <2>3. currentTime \in Int /\ currentTime' \in Int
    BY QueueBounds DEF IInv, TypeOK
  <2>4. currentTime <= currentTime'
    BY <2>2 DEF IInv, QueueOK, NotOverdue
  <2>5. ASSUME NEW e \in Pending'  PROVE triggerTime'[e] >= currentTime'
    <3>1. PICK i \in 1 .. Len(queue') : queue'[i] = e
      BY DEF Pending, ToSet, IInv, TypeOK
    <3> QED BY <3>1, <2>3, QueueBounds DEF IInv, TypeOK, QueueOK, NotOverdue
  <2> QED BY <2>3, <2>4, <2>5
<1> QED BY InitIInv, NextIInv, <1>1, PTL DEF Spec, TimeAdvances

-----------------------------------------------------------------------------
(* The linked list.                                                        *)

\* The pointers lead through the events of q, in its order.
Linked(q, first, nxt) ==
  /\ first = IF q = <<>> THEN NULL ELSE q[1]
  /\ \A i \in 1 .. Len(q) : nxt[q[i]] = IF i = Len(q) THEN NULL ELSE q[i + 1]

Distinct(q) == \A i, j \in 1 .. Len(q) : q[i] = q[j] => i = j

\* What a walk along q sees.
Walk(q) == [k \in List!Hops |-> IF k < Len(q) THEN q[k + 1] ELSE NULL]

\* The list's module counts as this one does.
LEMMA SameCardinality == \A S : List!Cardinality(S) = Cardinality(S)
BY DEF List!Cardinality, Cardinality

LEMMA HopsBound == List!Hops = 0 .. Cardinality(Event)
BY SameCardinality DEF List!Hops

\* There are no more events on a list than there are events.
LEMMA EnoughHops ==
  ASSUME NEW q \in Seq(Event), Distinct(q)
  PROVE  Cardinality(Event) \in Nat /\ Len(q) \in List!Hops
<1>1. q \in Injection(1 .. Len(q), Event)
  BY DEF Injection, IsInjective, Distinct
<1>2. IsFiniteSet(Event)
  BY ListAssumption
<1>3. Cardinality(1 .. Len(q)) <= Cardinality(Event)
  BY <1>1, <1>2, FS_Injection
<1>4. Cardinality(Event) \in Nat
  BY <1>2, FS_CardinalityType
<1>5. Len(q) \in Nat /\ Cardinality(1 .. Len(q)) = Len(q)
  <2>1. \A m \in Nat : Cardinality(1 .. m) = m
    BY FS_Interval
  <2>2. QED  BY <2>1
<1>6. Len(q) \in 0 .. Cardinality(Event)
  BY <1>3, <1>4, <1>5
<1>7. QED  BY <1>4, <1>6, HopsBound

\* The walk of the code's loops sees the events that the pointers lead through.
LEMMA WalkedChain ==
  ASSUME NEW q \in Seq(Event), Distinct(q), Linked(q, firstEvent, next)
  PROVE  List!Chain = Walk(q)
<1> DEFINE n == Cardinality(Event)
           Hop(f, k) == IF k = 0 THEN firstEvent
                        ELSE IF f[k - 1] = NULL THEN NULL ELSE next[f[k - 1]]
<1>1. n \in Nat /\ Len(q) \in 0 .. n /\ List!Hops = 0 .. n
  <2>1. List!Hops = 0 .. n
    BY HopsBound
  <2>2. QED  BY <2>1, EnoughHops
<1>2. ASSUME NEW k \in 0 .. n  PROVE Walk(q)[k] = Hop(Walk(q), k)
  <2> HIDE DEF n
  <2>1. Walk(q)[k] = IF k < Len(q) THEN q[k + 1] ELSE NULL
    BY <1>1 DEF Walk
  <2>2. CASE k = 0
    BY <2>1, <2>2 DEF Linked
  <2>3. CASE k # 0
    <3>1. k - 1 \in 0 .. n
      BY <1>1, <2>3
    <3>2. Walk(q)[k - 1] = IF k - 1 < Len(q) THEN q[k] ELSE NULL
      BY <1>1, <3>1 DEF Walk
    <3>3. CASE k - 1 < Len(q)
      <4>1. k \in 1 .. Len(q) /\ q[k] \in Event
        BY <1>1, <2>3, <3>3
      <4>2. next[q[k]] = IF k = Len(q) THEN NULL ELSE q[k + 1]
        BY <4>1 DEF Linked
      <4>3. q[k] # NULL
        BY <4>1, ListAssumption
      <4>4. QED  BY <2>1, <2>3, <3>2, <3>3, <4>1, <4>2, <4>3
    <3>4. CASE ~(k - 1 < Len(q))
      BY <1>1, <2>1, <2>3, <3>2, <3>4
    <3>5. QED  BY <3>3, <3>4
  <2>4. QED  BY <2>2, <2>3
<1> DEFINE IsChain(f) == f = [k \in List!Hops |-> Hop(f, k)]
<1>3. IsChain(Walk(q))
  BY <1>1, <1>2 DEF Walk
<1>4. IsChain(List!Chain)
  <2>1. List!Chain = CHOOSE f : IsChain(f)
    BY DEF List!Chain
  <2> HIDE DEF IsChain
  <2>2. QED  BY <1>3, <2>1
<1> DEFINE Wrong == {i \in 1 .. n + 1 : List!Chain[i - 1] # Walk(q)[i - 1]}
<1>5. Wrong = {}
  <2> SUFFICES ASSUME Wrong # {}  PROVE FALSE
    OBVIOUS
  <2>1. n + 1 \in Nat /\ Wrong \in SUBSET (1 .. n + 1)
    BY <1>1
  <2>2. PICK i \in Wrong : \A j \in Wrong : i <= j
    <3> HIDE DEF Wrong
    <3>1. QED  BY <2>1, LeastPosition
  <2> DEFINE k == i - 1
  <2>3. k \in 0 .. n /\ List!Chain[k] # Walk(q)[k]
    BY <1>1
  <2> HIDE DEF n
  <2>4. List!Chain[k] = Hop(List!Chain, k)
    BY <1>1, <1>4, <2>3
  <2>5. k # 0 => List!Chain[k - 1] = Walk(q)[k - 1]
    <3> SUFFICES ASSUME k # 0  PROVE List!Chain[k - 1] = Walk(q)[k - 1]
      OBVIOUS
    <3>1. k \in 1 .. n + 1 /\ k < i
      BY <1>1, <2>3
    <3>2. k \notin Wrong
      BY <2>2, <3>1
    <3>3. QED  BY <3>1, <3>2
  <2>6. QED  BY <1>2, <2>3, <2>4, <2>5
<1>6. QED
  <2>1. \A k \in 0 .. n : List!Chain[k] = Walk(q)[k]
    <3> SUFFICES ASSUME NEW k \in 0 .. n  PROVE List!Chain[k] = Walk(q)[k]
      OBVIOUS
    <3>1. k + 1 \in 1 .. n + 1 /\ k + 1 \notin Wrong
      BY <1>1, <1>5
    <3>2. QED  BY <1>1, <3>1
  <2>2. List!Chain = [k \in 0 .. n |-> List!Chain[k]] /\ Walk(q) = [k \in 0 .. n |-> Walk(q)[k]]
    BY <1>1, <1>4 DEF Walk
  <2>3. QED  BY <2>1, <2>2

\* What is listed is what the pointers lead through.
ListsLinked ==
  \A q \in Seq(Event) : Distinct(q) /\ Linked(q, firstEvent, next) => List!Listed = q

LEMMA ListedLinked == ListsLinked
<1> SUFFICES ASSUME NEW q \in Seq(Event), Distinct(q), Linked(q, firstEvent, next)
             PROVE  List!Listed = q
  BY DEF ListsLinked
<1> DEFINE Live == {k \in List!Hops : List!Chain[k] # NULL}
           n == Len(q)
<1>1. n \in Nat /\ n \in List!Hops /\ List!Hops = 0 .. Cardinality(Event) /\ Cardinality(Event) \in Nat
  BY EnoughHops, HopsBound
<1>2. \A k \in List!Hops : List!Chain[k] = IF k < n THEN q[k + 1] ELSE NULL
  BY WalkedChain DEF Walk
<1>3. \A i \in 1 .. n : q[i] \in Event /\ q[i] # NULL
  BY ListAssumption
<1>4. Live = 0 .. (n - 1)
  <2> HIDE DEF n
  <2>1. ASSUME NEW k \in List!Hops  PROVE List!Chain[k] # NULL <=> k < n
    <3>1. k < n => k + 1 \in 1 .. n
      BY <1>1
    <3>2. QED  BY <1>2, <1>3, <3>1
  <2>2. \A k \in 0 .. (n - 1) : k \in List!Hops /\ k < n
    BY <1>1
  <2>3. \A k \in List!Hops : k < n => k \in 0 .. (n - 1)
    BY <1>1
  <2>4. QED  BY <2>1, <2>2, <2>3
<1>5. List!Cardinality(Live) = n
  <2>1. \A m \in Nat : Cardinality(0 .. (m - 1)) = m
    BY FS_Interval
  <2> HIDE DEF n
  <2>2. QED  BY <1>1, <1>4, <2>1, SameCardinality
<1>6. List!Listed = [i \in 1 .. n |-> List!Chain[i - 1]]
  <2>1. List!Listed = [i \in 1 .. List!Cardinality(Live) |-> List!Chain[i - 1]]
    BY DEF List!Listed
  <2> HIDE DEF n, Live
  <2>2. QED  BY <1>5, <2>1
<1>7. ASSUME NEW i \in 1 .. n  PROVE List!Chain[i - 1] = q[i]
  <2>1. i - 1 \in List!Hops /\ i - 1 < n /\ (i - 1) + 1 = i
    BY <1>1
  <2>2. QED  BY <1>2, <2>1
<1>8. q = [i \in 1 .. n |-> q[i]]
  OBVIOUS
<1>9. QED  BY <1>6, <1>7, <1>8

\* The place where the scan of schedule() stops is the queue's.
LEMMA SlotUnique ==
  ASSUME NEW q \in Seq(Event), NEW at \in [Event -> Int], NEW t \in Int, NEW p \in 1 .. Len(q) + 1,
         \A i \in 1 .. p - 1 : at[q[i]] <= t, p <= Len(q) => at[q[p]] > t
  PROVE  Slot(q, at, t) = p
<1> DEFINE s == Slot(q, at, t)
<1>1. /\ s \in 1 .. Len(q) + 1
      /\ \A i \in 1 .. s - 1 : at[q[i]] <= t
      /\ s <= Len(q) => at[q[s]] > t
  BY SlotFound
<1> HIDE DEF s
<1>2. ASSUME s < p  PROVE FALSE
  <2>1. s \in 1 .. Len(q) /\ s \in 1 .. p - 1
    BY <1>1, <1>2
  <2>2. at[q[s]] \in Int
    BY <2>1
  <2>3. QED  BY <1>1, <2>1, <2>2
<1>3. ASSUME p < s  PROVE FALSE
  <2>1. p \in 1 .. Len(q) /\ p \in 1 .. s - 1
    BY <1>1, <1>3
  <2>2. at[q[p]] \in Int
    BY <2>1
  <2>3. QED  BY <1>1, <2>1, <2>2
<1>4. QED  BY <1>1, <1>2, <1>3 DEF s

\* The pointers lead through the queue, and the queue is in order.
ListInv ==
  /\ IInv
  /\ Linked(queue, firstEvent, next)
  /\ next \in [Event -> Event \cup {NULL}]

\* A walk along the queue of the invariant.
LEMMA ChainOfQueue ==
  ASSUME ListInv
  PROVE  /\ queue \in Seq(Event) /\ Distinct(queue) /\ Len(queue) \in List!Hops
         /\ List!Hops = 0 .. Cardinality(Event) /\ Cardinality(Event) \in Nat
         /\ \A k \in List!Hops : List!Chain[k] = IF k < Len(queue) THEN queue[k + 1] ELSE NULL
         /\ \A i \in 1 .. Len(queue) : queue[i] \in Event /\ queue[i] # NULL
<1>1. queue \in Seq(Event) /\ Distinct(queue)
  BY DEF ListInv, IInv, TypeOK, QueueOK, OnceOnly, Distinct
<1>2. \A k \in List!Hops : List!Chain[k] = IF k < Len(queue) THEN queue[k + 1] ELSE NULL
  BY <1>1, WalkedChain DEF ListInv, Walk
<1>3. \A i \in 1 .. Len(queue) : queue[i] \in Event /\ queue[i] # NULL
  BY <1>1, ListAssumption
<1>4. QED  BY <1>1, <1>2, <1>3, EnoughHops, HopsBound

\* A step of the list that links the events of q makes q the queue.
LEMMA QueueLinked ==
  ASSUME NEW q \in Seq(Event), Distinct(q), Linked(q, firstEvent', next'), queue' = List!Listed'
  PROVE  queue' = q
<1>1. ListsLinked'
  BY ListedLinked, PTL
<1>2. \A r \in Seq(Event) : Distinct(r) /\ Linked(r, firstEvent', next') => List!Listed' = r
  BY <1>1 DEF ListsLinked
<1>3. QED  BY <1>2

\* schedule() tucks the event in where the queue puts it.
LEMMA ListInsert ==
  ASSUME ListInv, NEW e \in Event, NEW t \in Int, List!Insert(e, t), queue' = List!Listed'
  PROVE  Insert(e, t) /\ Linked(queue', firstEvent', next') /\ next' \in [Event -> Event \cup {NULL}]
<1> DEFINE n == Len(queue)
<1>1. /\ queue \in Seq(Event) /\ Distinct(queue) /\ n \in List!Hops /\ n \in Nat
      /\ List!Hops = 0 .. Cardinality(Event) /\ Cardinality(Event) \in Nat
      /\ \A k \in List!Hops : List!Chain[k] = IF k < n THEN queue[k + 1] ELSE NULL
      /\ \A i \in 1 .. n : queue[i] \in Event /\ queue[i] # NULL
  BY ChainOfQueue
<1>2. /\ ~List!IsPending(e) /\ t <= MaxTime
      /\ triggerTime' = [triggerTime EXCEPT ![e] = t] /\ UNCHANGED currentTime
  BY DEF List!Insert
<1>3. PICK k \in List!Hops :
        List!Before(k, t, triggerTime') /\ List!Store(k, [next EXCEPT ![e] = List!Chain[k]], e)
  BY DEF List!Insert
<1>4. \A i \in 1 .. n : queue[i] # e
  <2> SUFFICES ASSUME NEW i \in 1 .. n  PROVE queue[i] # e
    OBVIOUS
  <2> HIDE DEF n
  <2>1. i - 1 \in List!Hops /\ i - 1 < n /\ (i - 1) + 1 = i
    BY <1>1
  <2>2. List!Chain[i - 1] = queue[i]
    BY <1>1, <2>1
  <2>3. QED  BY <1>2, <2>1, <2>2 DEF List!IsPending
<1> HIDE DEF n
<1>5. k <= n
  <2> SUFFICES ASSUME n < k  PROVE FALSE
    BY <1>1
  <2>1. List!Chain[n] = NULL
    BY <1>1
  <2>2. n \in 0 .. k - 1
    BY <1>1, <2>1
  <2>3. List!Chain[n] # NULL
    BY <1>3, <2>2 DEF List!Before
  <2>4. QED  BY <2>1, <2>3
<1> DEFINE p == k + 1
           at == triggerTime'
<1>6. p \in 1 .. n + 1 /\ k \in Nat
  BY <1>1, <1>5
<1>7. at \in [Event -> Int]
  BY <1>2 DEF ListInv, IInv, TypeOK
<1>8. Slot(queue, at, t) = p
  <2>1. ASSUME NEW i \in 1 .. p - 1  PROVE at[queue[i]] <= t
    <3>1. i - 1 \in 0 .. k - 1 /\ i - 1 \in List!Hops /\ i - 1 < n /\ (i - 1) + 1 = i
      BY <1>1, <1>5
    <3>2. List!Chain[i - 1] = queue[i]
      BY <1>1, <3>1
    <3>3. QED  BY <1>3, <3>1, <3>2 DEF List!Before
  <2>2. ASSUME p <= n  PROVE at[queue[p]] > t
    <3>1. List!Chain[k] = queue[p] /\ queue[p] # NULL
      BY <1>1, <1>6, <2>2
    <3>2. QED  BY <1>3, <3>1 DEF List!Before
  <2> HIDE DEF at, p
  <2>3. QED  BY <1>1, <1>6, <1>7, <2>1, <2>2, SlotUnique DEF n
<1> DEFINE q == InsertAt(queue, p, e)
<1>9. /\ q \in Seq(Event) /\ Len(q) = n + 1
      /\ \A i \in 1 .. n + 1 : q[i] = IF i < p THEN queue[i] ELSE IF i = p THEN e ELSE queue[i - 1]
  <2> HIDE DEF p
  <2>1. QED  BY <1>1, <1>6, InsertAtElements DEF n
<1> HIDE DEF q
<1>10. Distinct(q)
  <2>1. \A i, j \in 1 .. n : queue[i] = queue[j] => i = j
    BY <1>1 DEF Distinct, n
  <2> SUFFICES ASSUME NEW i \in 1 .. n + 1, NEW j \in 1 .. n + 1, i < j  PROVE q[i] # q[j]
    BY <1>1, <1>9 DEF Distinct
  <2> HIDE DEF p
  <2>2. CASE j < p
    BY <1>1, <1>6, <1>9, <2>1, <2>2
  <2>3. CASE j = p
    <3>1. i \in 1 .. n /\ q[i] = queue[i] /\ q[j] = e
      BY <1>1, <1>6, <1>9, <2>3
    <3>2. QED  BY <1>4, <3>1
  <2>4. CASE j > p /\ i = p
    <3>1. j - 1 \in 1 .. n /\ q[j] = queue[j - 1] /\ q[i] = e
      BY <1>1, <1>6, <1>9, <2>4
    <3>2. QED  BY <1>4, <3>1
  <2>5. CASE j > p /\ i < p
    <3>1. i \in 1 .. n /\ j - 1 \in 1 .. n /\ i # j - 1 /\ q[i] = queue[i] /\ q[j] = queue[j - 1]
      BY <1>1, <1>6, <1>9, <2>5
    <3>2. QED  BY <2>1, <3>1
  <2>6. CASE i > p
    <3>1. i - 1 \in 1 .. n /\ j - 1 \in 1 .. n /\ i - 1 # j - 1 /\ q[i] = queue[i - 1] /\ q[j] = queue[j - 1]
      BY <1>1, <1>6, <1>9, <2>6
    <3>2. QED  BY <2>1, <3>1
  <2>7. QED  BY <1>6, <2>2, <2>3, <2>4, <2>5, <2>6
<1>11. /\ next \in [Event -> Event \cup {NULL}]
       /\ firstEvent = IF queue = <<>> THEN NULL ELSE queue[1]
       /\ \A i \in 1 .. n : next[queue[i]] = IF i = n THEN NULL ELSE queue[i + 1]
  BY DEF ListInv, Linked, n
<1>12. /\ next' \in [Event -> Event \cup {NULL}]
       /\ next'[e] = List!Chain[k]
       /\ \A f \in Event \ {e} : next'[f] = IF k # 0 /\ f = queue[k] THEN e ELSE next[f]
       /\ firstEvent' = IF k = 0 THEN e ELSE firstEvent
  <2>1. List!Chain[k] \in Event \cup {NULL}
    BY <1>1, <1>6
  <2>2. CASE k = 0
    BY <1>3, <1>11, <2>1, <2>2 DEF List!Store
  <2>3. CASE k # 0
    <3>1. k \in 1 .. n /\ k - 1 \in List!Hops /\ k - 1 < n /\ (k - 1) + 1 = k
      BY <1>1, <1>5, <2>3
    <3>2. List!Chain[k - 1] = queue[k] /\ queue[k] \in Event /\ queue[k] # e
      BY <1>1, <1>4, <3>1
    <3>3. next' = [[next EXCEPT ![e] = List!Chain[k]] EXCEPT ![queue[k]] = e] /\ firstEvent' = firstEvent
      BY <1>3, <2>3, <3>2 DEF List!Store
    <3>4. QED  BY <1>11, <2>1, <2>3, <3>2, <3>3
  <2>4. QED  BY <2>2, <2>3
<1>13. Linked(q, firstEvent', next')
  <2>1. firstEvent' = IF q = <<>> THEN NULL ELSE q[1]
    <3>1. q # <<>> /\ 1 \in 1 .. n + 1
      BY <1>1, <1>9
    <3>2. CASE k = 0
      BY <1>9, <1>12, <3>1, <3>2
    <3>3. CASE k # 0
      <4>1. 1 < p /\ queue # <<>>
        BY <1>1, <1>5, <1>6, <3>3 DEF n
      <4>2. QED  BY <1>9, <1>11, <1>12, <3>1, <3>3, <4>1
    <3>4. QED  BY <3>2, <3>3
  <2>2. ASSUME NEW i \in 1 .. Len(q)  PROVE next'[q[i]] = IF i = Len(q) THEN NULL ELSE q[i + 1]
    <3>1. i \in 1 .. n + 1 /\ Len(q) = n + 1
      BY <1>9
    <3>2. CASE i < k
      <4>1. i \in 1 .. n /\ k \in 1 .. n /\ i # k /\ i + 1 \in 1 .. n + 1 /\ i + 1 < p /\ i # n
        BY <1>1, <1>5, <1>6, <3>1, <3>2
      <4>2. q[i] = queue[i] /\ q[i + 1] = queue[i + 1]
        BY <1>9, <3>1, <4>1
      <4>3. queue[i] # queue[k] /\ queue[i] \in Event \ {e}
        BY <1>1, <1>4, <4>1 DEF Distinct, n
      <4>4. QED  BY <1>11, <1>12, <3>1, <4>1, <4>2, <4>3
    <3>3. CASE i = k
      <4>1. k \in 1 .. n /\ k # 0 /\ i < p /\ i + 1 = p /\ i # n + 1
        BY <1>1, <1>5, <3>1, <3>3
      <4>2. q[i] = queue[k] /\ q[i + 1] = e
        BY <1>6, <1>9, <3>1, <3>3, <4>1
      <4>3. queue[k] \in Event \ {e}
        BY <1>1, <1>4, <4>1
      <4>4. QED  BY <1>12, <3>1, <4>1, <4>2, <4>3
    <3>4. CASE i = p
      <4>1. q[i] = e
        BY <1>9, <3>1, <3>4
      <4>2. CASE k < n
        <5>1. i + 1 \in 1 .. n + 1 /\ ~(i + 1 < p) /\ i + 1 # p /\ (i + 1) - 1 = k + 1 /\ i # n + 1
          BY <1>1, <1>6, <3>4, <4>2
        <5>2. q[i + 1] = queue[k + 1]
          BY <1>9, <5>1
        <5>3. QED  BY <1>1, <1>12, <3>1, <4>1, <4>2, <5>1, <5>2
      <4>3. CASE k = n
        BY <1>1, <1>12, <3>1, <3>4, <4>1, <4>3
      <4>4. QED  BY <1>1, <1>5, <1>6, <4>2, <4>3
    <3>5. CASE i > p
      <4>1. i - 1 \in 1 .. n /\ i - 1 # k /\ ~(i < p) /\ i # p /\ (i - 1) + 1 = i
        BY <1>1, <1>6, <3>1, <3>5
      <4>2. q[i] = queue[i - 1]
        BY <1>9, <3>1, <4>1
      <4>3. k # 0 => queue[i - 1] # queue[k]
        BY <1>1, <1>5, <1>6, <4>1 DEF Distinct, n
      <4>4. next'[q[i]] = next[queue[i - 1]]
        BY <1>1, <1>4, <1>12, <4>1, <4>2, <4>3
      <4>5. next[queue[i - 1]] = IF i - 1 = n THEN NULL ELSE queue[i]
        BY <1>11, <4>1
      <4>6. i # n + 1 => q[i + 1] = queue[i]
        <5> SUFFICES ASSUME i # n + 1  PROVE q[i + 1] = queue[i]
          OBVIOUS
        <5>1. i + 1 \in 1 .. n + 1 /\ ~(i + 1 < p) /\ i + 1 # p /\ (i + 1) - 1 = i
          BY <1>1, <1>6, <3>1, <3>5
        <5>2. QED  BY <1>9, <5>1
      <4>7. i - 1 = n <=> i = n + 1
        BY <1>1, <3>1
      <4>8. QED  BY <3>1, <4>4, <4>5, <4>6, <4>7
    <3>6. QED  BY <1>1, <1>6, <3>1, <3>2, <3>3, <3>4, <3>5
  <2>3. QED  BY <2>1, <2>2 DEF Linked
<1>14. queue' = q
  BY <1>9, <1>10, <1>13, QueueLinked
<1>15. e \notin Pending
  BY <1>1, <1>4 DEF Pending, ToSet, n
<1>16. Insert(e, t)
  <2>1. queue' = InsertAt(queue, Slot(queue, triggerTime', t), e)
    BY <1>8, <1>14 DEF q
  <2>2. QED  BY <1>2, <1>15, <2>1 DEF Insert
<1>17. QED  BY <1>12, <1>13, <1>14, <1>16

\* cancel() unlinks the event that the queue removes, which is there once.
LEMMA ListCancel ==
  ASSUME ListInv, NEW e \in Event, List!Cancel(e), queue' = List!Listed'
  PROVE  Cancel(e) /\ Linked(queue', firstEvent', next') /\ next' \in [Event -> Event \cup {NULL}]
<1> DEFINE n == Len(queue)
<1>1. /\ queue \in Seq(Event) /\ Distinct(queue) /\ n \in List!Hops /\ n \in Nat
      /\ List!Hops = 0 .. Cardinality(Event) /\ Cardinality(Event) \in Nat
      /\ \A k \in List!Hops : List!Chain[k] = IF k < n THEN queue[k + 1] ELSE NULL
      /\ \A i \in 1 .. n : queue[i] \in Event /\ queue[i] # NULL
  BY ChainOfQueue
<1>2. UNCHANGED <<triggerTime, currentTime>>
  BY DEF List!Cancel
<1>3. /\ next \in [Event -> Event \cup {NULL}]
      /\ Linked(queue, firstEvent, next)
      /\ firstEvent = IF queue = <<>> THEN NULL ELSE queue[1]
      /\ \A i \in 1 .. n : next[queue[i]] = IF i = n THEN NULL ELSE queue[i + 1]
  BY DEF ListInv, Linked
<1>4. \A i, j \in 1 .. n : queue[i] = queue[j] => i = j
  BY DEF ListInv, IInv, QueueOK, OnceOnly
<1>5. \A i \in 1 .. n : i - 1 \in List!Hops /\ List!Chain[i - 1] = queue[i]
  <2> SUFFICES ASSUME NEW i \in 1 .. n  PROVE i - 1 \in List!Hops /\ List!Chain[i - 1] = queue[i]
    OBVIOUS
  <2> HIDE DEF n
  <2>1. i - 1 \in List!Hops /\ i - 1 < n /\ (i - 1) + 1 = i
    BY <1>1
  <2>2. QED  BY <1>1, <2>1
<1>6. e # NULL
  BY ListAssumption
<1>7. CASE ~List!IsPending(e) /\ UNCHANGED <<firstEvent, next>>
  <2>1. \A i \in 1 .. n : queue[i] # e
    BY <1>5, <1>7 DEF List!IsPending
  <2>2. RemoveFirst(queue, e) = queue
    BY <2>1 DEF RemoveFirst
  <2>3. queue' = queue
    BY <1>1, <1>3, <1>7, QueueLinked
  <2>4. QED  BY <1>2, <1>3, <1>7, <2>2, <2>3 DEF Cancel
<1>8. ASSUME NEW k \in List!Hops, List!Chain[k] = e, List!Store(k, next, next[e])
      PROVE  Cancel(e) /\ Linked(queue', firstEvent', next') /\ next' \in [Event -> Event \cup {NULL}]
  <2> HIDE DEF n
  <2> DEFINE p == k + 1
             q == RemoveAt(queue, p)
  <2>1. k \in 0 .. n - 1 /\ p \in 1 .. n /\ queue[p] = e
    BY <1>1, <1>6, <1>8
  <2>2. RemoveFirst(queue, e) = q
    <3>1. \E i \in 1 .. n : queue[i] = e
      BY <2>1
    <3>2. RemoveFirst(queue, e) # queue \/ RemoveFirst(queue, e) = q
      <4> SUFFICES ASSUME RemoveFirst(queue, e) = queue  PROVE FALSE
        OBVIOUS
      <4> DEFINE I == {i \in 1 .. n : queue[i] = e}
      <4>1. I = {p}
        BY <1>4, <2>1
      <4>2. Min(I) = p
        <5> HIDE DEF I, p
        <5>1. p \in Int
          BY <2>1
        <5>2. QED  BY <4>1, <5>1 DEF Min
      <4>3. RemoveFirst(queue, e) = RemoveAt(queue, Min(I))
        BY <3>1 DEF RemoveFirst, SelectInSeq, n
      <4>4. Len(q) = n - 1
        <5> HIDE DEF p
        <5>1. QED  BY <1>1, <2>1, RemoveAtElements DEF n
      <4> HIDE DEF I
      <4>5. QED  BY <1>1, <4>2, <4>3, <4>4 DEF n
    <3>3. PICK i \in 1 .. n : RemoveFirst(queue, e) = queue
                               \/ (queue[i] = e /\ RemoveFirst(queue, e) = RemoveAt(queue, i))
      BY <1>1, <2>1, RemoveFirstCases DEF n
    <3>4. QED  BY <1>4, <2>1, <3>2, <3>3
  <2>3. /\ q \in Seq(Event) /\ Len(q) = n - 1
        /\ \A i \in 1 .. n - 1 : q[i] = IF i < p THEN queue[i] ELSE queue[i + 1]
    <3> HIDE DEF p
    <3>1. QED  BY <1>1, <2>1, RemoveAtElements DEF n
  <2> HIDE DEF q
  <2>4. Distinct(q)
    <3> SUFFICES ASSUME NEW i \in 1 .. n - 1, NEW j \in 1 .. n - 1, i < j  PROVE q[i] # q[j]
      BY <1>1, <2>3 DEF Distinct
    <3> HIDE DEF p
    <3> DEFINE m(x) == IF x < p THEN x ELSE x + 1
    <3>1. m(i) \in 1 .. n /\ m(j) \in 1 .. n /\ m(i) # m(j)
      BY <1>1, <2>1
    <3>2. q[i] = queue[m(i)] /\ q[j] = queue[m(j)]
      BY <2>3
    <3> HIDE DEF m
    <3>3. QED  BY <1>4, <3>1, <3>2
  <2>5. next[e] = IF p = n THEN NULL ELSE queue[p + 1]
    BY <1>3, <2>1
  <2>6. /\ next' \in [Event -> Event \cup {NULL}]
        /\ \A f \in Event : next'[f] = IF k # 0 /\ f = queue[k] THEN next[e] ELSE next[f]
        /\ firstEvent' = IF k = 0 THEN next[e] ELSE firstEvent
    <3>1. next[e] \in Event \cup {NULL}
      BY <1>3
    <3>2. CASE k = 0
      BY <1>3, <1>8, <3>1, <3>2 DEF List!Store
    <3>3. CASE k # 0
      <4>1. k \in 1 .. n
        BY <1>1, <2>1, <3>3
      <4>2. List!Chain[k - 1] = queue[k] /\ queue[k] \in Event
        BY <1>1, <1>5, <4>1
      <4>3. next' = [next EXCEPT ![queue[k]] = next[e]] /\ firstEvent' = firstEvent
        BY <1>8, <3>3, <4>2 DEF List!Store
      <4>4. QED  BY <1>3, <3>1, <3>3, <4>2, <4>3
    <3>4. QED  BY <3>2, <3>3
  <2>7. Linked(q, firstEvent', next')
    <3>1. firstEvent' = IF q = <<>> THEN NULL ELSE q[1]
      <4>1. q = <<>> <=> n = 1
        BY <1>1, <2>1, <2>3
      <4>2. CASE k = 0
        <5>1. p = 1 /\ firstEvent' = next[e]
          BY <2>6, <4>2
        <5>2. CASE n = 1
          BY <2>5, <4>1, <5>1, <5>2
        <5>3. CASE n # 1
          <6>1. 1 \in 1 .. n - 1 /\ ~(1 < p)
            BY <1>1, <2>1, <5>1, <5>3
          <6>2. q[1] = queue[2]
            BY <2>3, <6>1
          <6>3. QED  BY <2>5, <4>1, <5>1, <5>3, <6>2
        <5>4. QED  BY <5>2, <5>3
      <4>3. CASE k # 0
        <5>1. 1 < p /\ 1 \in 1 .. n - 1 /\ n # 1 /\ queue # <<>>
          BY <1>1, <2>1, <4>3 DEF n
        <5>2. q[1] = queue[1]
          BY <2>3, <5>1
        <5>3. QED  BY <1>3, <2>6, <4>1, <4>3, <5>1, <5>2
      <4>4. QED  BY <4>2, <4>3
    <3>2. ASSUME NEW i \in 1 .. Len(q)  PROVE next'[q[i]] = IF i = Len(q) THEN NULL ELSE q[i + 1]
      <4>1. i \in 1 .. n - 1 /\ Len(q) = n - 1
        BY <2>3
      <4>2. CASE i < k
        <5>1. i \in 1 .. n /\ k \in 1 .. n /\ i # k /\ i + 1 \in 1 .. n - 1 /\ i + 1 < p /\ i < p /\ i # n
          BY <1>1, <2>1, <4>1, <4>2
        <5>2. q[i] = queue[i] /\ q[i + 1] = queue[i + 1] /\ i # n - 1
          BY <1>1, <2>1, <2>3, <4>2, <5>1
        <5>3. queue[i] # queue[k] /\ queue[i] \in Event
          BY <1>1, <1>4, <5>1
        <5>4. QED  BY <1>3, <2>6, <4>1, <5>1, <5>2, <5>3
      <4>3. CASE i = k
        <5>1. k \in 1 .. n /\ k # 0 /\ i < p
          BY <1>1, <2>1, <4>1, <4>3
        <5>2. q[i] = queue[k] /\ queue[k] \in Event
          BY <1>1, <2>3, <4>1, <4>3, <5>1
        <5>3. next'[q[i]] = next[e]
          BY <2>6, <5>1, <5>2
        <5>4. CASE p = n
          <6>1. i = n - 1
            BY <1>1, <4>3, <5>4
          <6>2. QED  BY <2>5, <4>1, <5>3, <5>4, <6>1
        <5>5. CASE p # n
          <6>1. i + 1 \in 1 .. n - 1 /\ ~(i + 1 < p) /\ (i + 1) + 1 = p + 1 /\ i # n - 1
            BY <1>1, <2>1, <4>1, <4>3, <5>5
          <6>2. q[i + 1] = queue[p + 1]
            BY <2>3, <6>1
          <6>3. QED  BY <2>5, <4>1, <5>3, <5>5, <6>1, <6>2
        <5>6. QED  BY <5>4, <5>5
      <4>4. CASE i > k
        <5>1. i + 1 \in 1 .. n /\ ~(i < p) /\ i + 1 # k /\ (i + 1 = n <=> i = n - 1)
          BY <1>1, <2>1, <4>1, <4>4
        <5>2. q[i] = queue[i + 1]
          BY <2>3, <4>1, <5>1
        <5>3. k # 0 => queue[i + 1] # queue[k]
          <6>1. k # 0 => k \in 1 .. n
            BY <1>1, <2>1
          <6>2. QED  BY <1>4, <5>1, <6>1
        <5>4. next'[q[i]] = next[queue[i + 1]]
          BY <1>1, <2>6, <5>1, <5>2, <5>3
        <5>5. next[queue[i + 1]] = IF i + 1 = n THEN NULL ELSE queue[(i + 1) + 1]
          BY <1>3, <5>1
        <5>6. i # n - 1 => q[i + 1] = queue[(i + 1) + 1]
          <6> SUFFICES ASSUME i # n - 1  PROVE q[i + 1] = queue[(i + 1) + 1]
            OBVIOUS
          <6>1. i + 1 \in 1 .. n - 1 /\ ~(i + 1 < p)
            BY <1>1, <2>1, <4>1, <4>4
          <6>2. QED  BY <2>3, <6>1
        <5>7. QED  BY <4>1, <5>1, <5>4, <5>5, <5>6
      <4>5. QED  BY <1>1, <2>1, <4>1, <4>2, <4>3, <4>4
    <3>3. QED  BY <3>1, <3>2 DEF Linked
  <2>8. queue' = q
    BY <2>3, <2>4, <2>7, QueueLinked
  <2>9. Cancel(e)
    BY <1>2, <2>2, <2>8 DEF Cancel
  <2>10. QED  BY <2>6, <2>7, <2>8, <2>9
<1>9. QED  BY <1>7, <1>8 DEF List!Cancel

\* clock() takes the event that is first in the queue.
LEMMA ListClock ==
  ASSUME ListInv, List!Clock, queue' = List!Listed'
  PROVE  Clock /\ Linked(queue', firstEvent', next') /\ next' \in [Event -> Event \cup {NULL}]
<1> DEFINE n == Len(queue)
           q == Tail(queue)
<1>1. /\ queue \in Seq(Event) /\ n \in Nat
      /\ next \in [Event -> Event \cup {NULL}]
      /\ firstEvent = IF queue = <<>> THEN NULL ELSE queue[1]
      /\ \A i \in 1 .. n : next[queue[i]] = IF i = n THEN NULL ELSE queue[i + 1]
      /\ \A i, j \in 1 .. n : queue[i] = queue[j] => i = j
  BY DEF ListInv, Linked, IInv, TypeOK, QueueOK, OnceOnly
<1>2. /\ firstEvent # NULL /\ firstEvent' = next[firstEvent]
      /\ currentTime' = triggerTime[firstEvent] /\ UNCHANGED <<next, triggerTime>>
  BY DEF List!Clock
<1>3. queue # <<>> /\ firstEvent = queue[1] /\ Head(queue) = queue[1] /\ n \in Nat \ {0}
  BY <1>1, <1>2
<1>4. q \in Seq(Event) /\ Len(q) = n - 1 /\ \A i \in 1 .. n - 1 : q[i] = queue[i + 1]
  BY <1>1, <1>3, HeadTailProperties
<1> HIDE DEF q, n
<1>5. Distinct(q)
  <2> SUFFICES ASSUME NEW i \in 1 .. n - 1, NEW j \in 1 .. n - 1, q[i] = q[j]  PROVE i = j
    BY <1>4 DEF Distinct
  <2>1. i + 1 \in 1 .. n /\ j + 1 \in 1 .. n /\ queue[i + 1] = queue[j + 1]
    BY <1>1, <1>4
  <2>2. QED  BY <1>1, <2>1
<1>6. Linked(q, firstEvent', next')
  <2>1. firstEvent' = IF q = <<>> THEN NULL ELSE q[1]
    <3>1. firstEvent' = IF 1 = n THEN NULL ELSE queue[2]
      BY <1>1, <1>2, <1>3
    <3>2. CASE n = 1
      BY <1>4, <3>1, <3>2
    <3>3. CASE n # 1
      <4>1. 1 \in 1 .. n - 1
        BY <1>3, <3>3
      <4>2. q # <<>> /\ q[1] = queue[2]
        BY <1>4, <4>1
      <4>3. QED  BY <3>1, <3>3, <4>2
    <3>4. QED  BY <3>2, <3>3
  <2>2. ASSUME NEW i \in 1 .. Len(q)  PROVE next'[q[i]] = IF i = Len(q) THEN NULL ELSE q[i + 1]
    <3>1. i \in 1 .. n - 1 /\ i + 1 \in 1 .. n /\ q[i] = queue[i + 1] /\ (i + 1 = n <=> i = n - 1)
      BY <1>1, <1>4
    <3>2. next[queue[i + 1]] = IF i + 1 = n THEN NULL ELSE queue[(i + 1) + 1]
      BY <1>1, <3>1
    <3>3. i # n - 1 => i + 1 \in 1 .. n - 1
      BY <1>1, <3>1
    <3>4. i # n - 1 => q[i + 1] = queue[(i + 1) + 1]
      BY <1>4, <3>3
    <3>5. QED  BY <1>2, <1>4, <3>1, <3>2, <3>4
  <2>3. QED  BY <2>1, <2>2 DEF Linked
<1>7. queue' = q
  BY <1>4, <1>5, <1>6, QueueLinked
<1>8. Clock
  BY <1>2, <1>3, <1>7 DEF Clock, q
<1>9. QED  BY <1>1, <1>2, <1>6, <1>7, <1>8

\* A list that is forgotten is empty, whatever its events still hold.
LEMMA ListReset ==
  ASSUME ListInv, List!Reset, queue' = List!Listed'
  PROVE  Reset /\ Linked(queue', firstEvent', next') /\ next' \in [Event -> Event \cup {NULL}]
<1>1. firstEvent' = NULL /\ currentTime' = 0 /\ UNCHANGED <<next, triggerTime>>
  BY DEF List!Reset
<1>2. <<>> \in Seq(Event) /\ Distinct(<<>>) /\ Linked(<<>>, firstEvent', next')
  BY <1>1 DEF Distinct, Linked
<1>3. queue' = <<>>
  BY <1>2, QueueLinked
<1>4. QED  BY <1>1, <1>2, <1>3 DEF Reset, ListInv

LEMMA ListInitInv ==
  ASSUME ListInit  PROVE Init /\ ListInv
<1>1. firstEvent = NULL /\ next \in [Event -> Event \cup {NULL}]
  BY DEF ListInit, List!Init
<1>2. <<>> \in Seq(Event) /\ Distinct(<<>>) /\ Linked(<<>>, firstEvent, next)
  BY <1>1 DEF Distinct, Linked
<1>3. queue = <<>>
  BY <1>2, ListedLinked DEF ListsLinked, ListInit
<1>4. Init
  BY <1>3 DEF Init, ListInit, List!Init
<1>5. QED  BY <1>1, <1>2, <1>3, <1>4, InitIInv DEF ListInv

\* A step of the list is one of the queue, and keeps the invariant.
LEMMA ListStep ==
  ASSUME ListInv, [ListNext]_<<vars, firstEvent, next>>
  PROVE  [Next]_vars /\ ListInv'
<1>1. CASE UNCHANGED <<vars, firstEvent, next>>
  <2>1. UNCHANGED vars /\ IInv'
    BY <1>1, NextIInv DEF ListInv
  <2>2. QED  BY <1>1, <2>1 DEF ListInv, Linked, vars
<1>2. CASE ListNext
  <2>1. MaxCycles \in Nat /\ currentTime \in Nat
    BY QueueBounds DEF ListInv, IInv, TypeOK
  <2>2. queue' = List!Listed'
    BY <1>2 DEF ListNext
  <2> DEFINE Kept == Linked(queue', firstEvent', next') /\ next' \in [Event -> Event \cup {NULL}]
  <2>3. ASSUME NEW e \in Event, NEW c \in 0 .. MaxCycles, NEW p \in {0, 1}, List!ScheduleInPhase(e, c, p)
        PROVE  Next /\ Kept
    <3> DEFINE t == NextSlot(currentTime, c, p)
    <3>1. t \in Int /\ p \in Phase
      <4>1. p \in Phase /\ c \in Nat
        BY <2>1 DEF Phase, PHI1, PHI2
      <4>2. t \in Nat
        BY <2>1, <4>1, NextSlotNotPast
      <4> HIDE DEF t
      <4>3. QED  BY <4>1, <4>2
    <3>2. List!Insert(e, t)
      BY <2>3 DEF List!ScheduleInPhase, NextSlot
    <3> HIDE DEF t
    <3>3. Insert(e, t) /\ Kept
      BY <2>2, <3>1, <3>2, ListInsert
    <3>4. ScheduleInPhase(e, c, p)
      BY <3>3 DEF ScheduleInPhase, t
    <3>5. QED  BY <3>1, <3>3, <3>4 DEF Next
  <2>4. ASSUME NEW e \in Event, NEW c \in 0 .. MaxCycles, List!Schedule(e, c)
        PROVE  Next /\ Kept
    <3> DEFINE t == currentTime + 2 * c
    <3>1. t \in Int
      BY <2>1
    <3>2. List!Insert(e, t)
      BY <2>4 DEF List!Schedule
    <3> HIDE DEF t
    <3>3. Insert(e, t) /\ Kept
      BY <2>2, <3>1, <3>2, ListInsert
    <3>4. Schedule(e, c)
      BY <3>3 DEF Schedule, t
    <3>5. QED  BY <3>3, <3>4 DEF Next
  <2>5. ASSUME NEW e \in Event, List!Cancel(e)  PROVE Next /\ Kept
    BY <2>2, <2>5, ListCancel DEF Next
  <2>6. ASSUME List!Reset  PROVE Next /\ Kept
    BY <2>2, <2>6, ListReset DEF Next
  <2>7. ASSUME List!Clock  PROVE Next /\ Kept
    BY <2>2, <2>7, ListClock DEF Next
  <2>8. List!Next
    BY <1>2 DEF ListNext
  <2> HIDE DEF Kept
  <2>9. Next /\ Kept
    BY <2>3, <2>4, <2>5, <2>6, <2>7, <2>8 DEF List!Next
  <2>10. IInv'
    BY <2>9, NextIInv DEF ListInv
  <2>11. QED  BY <2>9, <2>10 DEF ListInv, Kept
<1>3. QED  BY <1>1, <1>2

\* The linked list of EventScheduler.h implements the queue: in any memory, for
\* any number of events, it serves them as the queue does.
THEOREM ListImplements == ListSpec => Refines
<1>1. ListInit => Init /\ ListInv
  BY ListInitInv
<1>2. ListInv /\ [ListNext]_<<vars, firstEvent, next>> => [Next]_vars /\ ListInv'
  BY ListStep
<1>3. QED  BY <1>1, <1>2, PTL DEF ListSpec, Refines, Spec

\* So the list itself is in firing order, holds no event twice and none that is
\* overdue.
THEOREM ListCorrect == ListSpec => []QueueOK
BY ListImplements, QueueCorrect, PTL DEF Refines
=============================================================================
