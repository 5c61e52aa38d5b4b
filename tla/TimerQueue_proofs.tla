--------------------------- MODULE TimerQueue_proofs ---------------------------
(***************************************************************************)
(* Proofs about the timers of the event loop, for any timers, intervals,   *)
(* longest wait and end of the clock.                                      *)
(***************************************************************************)
EXTENDS TimerQueue, SequenceTheorems, WellFoundedInduction, TLAPS

-----------------------------------------------------------------------------
(* The inductive invariant *)

\* The insertion of a timer is the first of its tasks and its cancellation
\* the last: the task queue is a FIFO.
TaskOrder ==
  \A j, k \in 1..Len(tasks) :
    j < k /\ tasks[j].timer = tasks[k].timer =>
      tasks[k].op # "insert" /\ tasks[j].op # "cancel"

\* What is known of the timer of a task that waits.
TaskFacts ==
  \A k \in 1..Len(tasks) :
    /\ tasks[k].timer \in used
    /\ tasks[k].op # "insert" =>
         interval[tasks[k].timer] # 0 /\ tasks[k].timer \notin cancelled
    /\ tasks[k].op = "cancel" => tasks[k].timer \in asked

\* A timer is alive until it was cancelled, and is then dead or freed.
AliveOK ==
  /\ \A t \in used \ cancelled : is_alive[t]
  /\ \A t \in cancelled : ~is_alive[t] \/ t \in freed

\* A timer with an interval is freed by a cancel or with the loop.
FreedOK ==
  \A t \in freed : interval[t] = 0 \/ t \in cancelled \/ pc = "destroyed"

\* A timer that was never added has its flags cleared.
UnusedOK == \A t \in Timers \ used : ~is_in_queue[t] /\ ~is_expired[t]

\* Where the loop's thread is when it has tasks, a batch or a current timer.
LoopOK ==
  /\ current # None <=> pc = "call"
  /\ done_timer # <<>> => pc \in {"batch", "call"}
  /\ todo > 0 => pc = "events"

\* The timers of the batch are due.
BatchDue == \A t \in Range(done_timer) : timestamp[t] <= now

\* The places of OnePlace: linked, in the batch, arriving, or freed.
Places(L, B, A) ==
  /\ \A t \in L : /\ is_alive[t] /\ is_in_queue[t] /\ ~is_expired[t]
                  /\ t \notin freed /\ t \notin B /\ t \notin A
  /\ \A t \in B : is_expired[t] /\ t \notin freed /\ t \notin A
  /\ \A t \in A : ~is_in_queue[t] /\ ~is_expired[t] /\ t \notin freed
  /\ used = L \cup B \cup A \cup freed

BatchOK ==
  /\ \A j, k \in 1..Len(done_timer) : j < k => done_timer[j] # done_timer[k]
  /\ current \notin Range(done_timer)

TasksLive == \A k \in 1..Len(tasks) : tasks[k].timer \notin freed \/ pc = "destroyed"

\* A list in order of the timestamps ts, with no timer twice.
InOrder(l, ts) ==
  \A j, k \in 1..Len(l) : j < k => ts[l[j]] <= ts[l[k]] /\ l[j] # l[k]

\* The minimum the queue keeps is the first timer's.
MinOK(l, min, ts) == l # <<>> => min = ts[l[1]]

\* The list, and the wait that was computed from it.
ListOK ==
  InOrder(timer_list, timestamp) /\ MinOK(timer_list, min_timestamp, timestamp)
SleepOK ==
  timer_list # <<>> /\ pc = "wait" =>
    deadline <= timestamp[timer_list[1]] \/ deadline <= now

TimerInv ==
  /\ TypeOK /\ Places(Linked, InBatch, Arriving) /\ BatchOK /\ TasksLive
  /\ ListOK /\ SleepOK
  /\ TaskOrder /\ TaskFacts
  /\ AliveOK /\ FreedOK /\ UnusedOK
  /\ LoopOK /\ BatchDue

-----------------------------------------------------------------------------
(* Lists *)

\* A set of naturals that is not empty has a least member.
LEMMA Least ==
  ASSUME NEW S \in SUBSET Nat, S # {}
  PROVE  \E m \in S : \A k \in S : m <= k
<1>1. PICK m \in S : \A k \in S : ~(<<k, m>> \in OpToRel(<, Nat))
  BY WFMin, NatLessThanWellFounded
<1>2. ASSUME NEW k \in S PROVE m <= k
  <2>1. ~(k < m)  BY <1>1 DEF OpToRel
  <2> QED  BY <2>1
<1> QED  BY <1>2

LEMMA TimersOf ==
  ASSUME NEW s \in Seq(Timers)
  PROVE  /\ Range(s) \subseteq Timers
         /\ \A x \in Range(s) : \E i \in 1..Len(s) : s[i] = x
         /\ \A i \in 1..Len(s) : s[i] \in Range(s)
<1>1. DOMAIN s = 1..Len(s) /\ \A i \in 1..Len(s) : s[i] \in Timers  OBVIOUS
<1>2. \A x \in Range(s) : \E i \in 1..Len(s) : s[i] = x  BY <1>1 DEF Range
<1>3. \A i \in 1..Len(s) : s[i] \in Range(s)  BY <1>1 DEF Range
<1>4. Range(s) \subseteq Timers  BY <1>1, <1>2
<1> QED  BY <1>2, <1>3, <1>4

\* Inserting at position i moves the rest up.
LEMMA InsertAtFacts ==
  ASSUME NEW S, NEW s \in Seq(S), NEW i \in 1..(Len(s) + 1), NEW e \in S
  PROVE  LET r == InsertAt(s, i, e)
         IN  /\ r \in Seq(S) /\ Len(r) = Len(s) + 1
             /\ \A j \in 1..(i - 1) : r[j] = s[j]
             /\ r[i] = e
             /\ \A j \in (i + 1)..(Len(s) + 1) : r[j] = s[j - 1]
<1> DEFINE n == Len(s)
           a == SubSeq(s, 1, i - 1)
           b == SubSeq(s, i, n)
           ae == a \o <<e>>
<1>1. n \in Nat /\ \A j \in 1..n : s[j] \in S  OBVIOUS
<1>2. a \in Seq(S) /\ Len(a) = i - 1 /\ \A j \in 1..(i - 1) : a[j] = s[j]
  <2>1. \A j \in 1..(i - 1) : s[j] \in S  BY <1>1
  <2> QED  BY <1>1, <2>1, SubSeqProperties
<1>3. b \in Seq(S) /\ Len(b) = n - i + 1 /\ \A j \in 1..(n - i + 1) : b[j] = s[i + j - 1]
  <2>1. \A j \in i..n : s[j] \in S  BY <1>1
  <2> QED  BY <1>1, <2>1, SubSeqProperties
<1>4. InsertAt(s, i, e) = ae \o b  BY DEF InsertAt
<1> HIDE DEF a, b, n
<1>5. ae \in Seq(S) /\ Len(ae) = i /\ (\A j \in 1..(i - 1) : ae[j] = s[j]) /\ ae[i] = e
  BY <1>1, <1>2 DEF n
<1> HIDE DEF ae
<1> DEFINE r == ae \o b
<1>6. r \in Seq(S) /\ Len(r) = n + 1 /\ (\A j \in 1..i : r[j] = ae[j])
      /\ \A j \in (i + 1)..(n + 1) : r[j] = b[j - i]
  BY <1>1, <1>3, <1>5 DEF n
<1>7. \A j \in (i + 1)..(n + 1) : b[j - i] = s[j - 1]
  <2> TAKE j \in (i + 1)..(n + 1)
  <2>1. j - i \in 1..(n - i + 1) /\ i + (j - i) - 1 = j - 1  BY <1>1 DEF n
  <2> QED  BY <1>3, <2>1
<1> HIDE DEF r
<1>8. (\A j \in 1..(i - 1) : r[j] = s[j]) /\ r[i] = e
      /\ \A j \in (i + 1)..(n + 1) : r[j] = s[j - 1]
  BY <1>1, <1>5, <1>6, <1>7 DEF n
<1> QED  BY <1>4, <1>6, <1>8 DEF r, n

\* Removing position i moves the rest down.
LEMMA RemoveAtFacts ==
  ASSUME NEW S, NEW s \in Seq(S), NEW i \in 1..Len(s)
  PROVE  LET r == RemoveAt(s, i)
         IN  /\ r \in Seq(S) /\ Len(r) = Len(s) - 1
             /\ \A j \in 1..(i - 1) : r[j] = s[j]
             /\ \A j \in i..(Len(s) - 1) : r[j] = s[j + 1]
<1> DEFINE n == Len(s)
           a == SubSeq(s, 1, i - 1)
           b == SubSeq(s, i + 1, n)
           r == a \o b
<1>1. n \in Nat /\ \A j \in 1..n : s[j] \in S  OBVIOUS
<1>2. a \in Seq(S) /\ Len(a) = i - 1 /\ \A j \in 1..(i - 1) : a[j] = s[j]
  <2>1. \A j \in 1..(i - 1) : s[j] \in S  BY <1>1
  <2> QED  BY <1>1, <2>1, SubSeqProperties
<1>3. b \in Seq(S) /\ Len(b) = n - i /\ \A j \in 1..(n - i) : b[j] = s[i + j]
  <2> DEFINE m == i + 1
  <2>1. (\A j \in m..n : s[j] \in S) /\ m \in Int /\ n \in Int  BY <1>1
  <2>2. (IF m <= n THEN n - m + 1 ELSE 0) = n - i /\ n - m + 1 = n - i
        /\ \A j \in 1..(n - i) : m + j - 1 = i + j
    BY <1>1
  <2> HIDE DEF m, n
  <2>3. /\ SubSeq(s, m, n) \in Seq(S)
        /\ Len(SubSeq(s, m, n)) = IF m <= n THEN n - m + 1 ELSE 0
        /\ \A j \in 1..(n - m + 1) : SubSeq(s, m, n)[j] = s[m + j - 1]
    BY <2>1, SubSeqProperties
  <2>4. b = SubSeq(s, m, n)  BY DEF m
  <2> HIDE DEF b
  <2> QED  BY <2>2, <2>3, <2>4
<1>4. RemoveAt(s, i) = r  BY DEF RemoveAt
<1> HIDE DEF a, b, n
<1>5. r \in Seq(S) /\ Len(r) = n - 1 /\ (\A j \in 1..(i - 1) : r[j] = a[j])
      /\ \A j \in i..(n - 1) : r[j] = b[j - (i - 1)]
  BY <1>1, <1>2, <1>3 DEF n
<1>6. \A j \in i..(n - 1) : b[j - (i - 1)] = s[j + 1]
  <2> TAKE j \in i..(n - 1)
  <2>1. j - (i - 1) \in 1..(n - i) /\ i + (j - (i - 1)) = j + 1  BY <1>1 DEF n
  <2> QED  BY <1>3, <2>1
<1> HIDE DEF r
<1> QED  BY <1>2, <1>4, <1>5, <1>6 DEF r, n

\* insert_timer_inloop's walk ends.
LEMMA PositionFacts ==
  ASSUME NEW l \in Seq(Timers), NEW ts \in [Timers -> Nat], NEW d \in Nat
  PROVE  LET k == Position(l, ts, d)
         IN  /\ k \in 1..(Len(l) + 1)
             /\ \A j \in 1..(k - 1) : ts[l[j]] <= d
             /\ k <= Len(l) => ts[l[k]] > d
<1> DEFINE n == Len(l)
           S == {k \in 1..n : ts[l[k]] > d} \cup {n + 1}
<1>1. n \in Nat /\ S \in SUBSET Nat /\ S # {} /\ \A j \in 1..n : ts[l[j]] \in Nat
  OBVIOUS
<1>2. PICK m \in S : \A k \in S : m <= k
  BY <1>1, Least
<1>3. m \in 1..(n + 1) /\ (m <= n => ts[l[m]] > d)  BY <1>1
<1>4. \A j \in 1..(m - 1) : ts[l[j]] <= d
  <2> TAKE j \in 1..(m - 1)
  <2>1. j \in 1..n /\ j < m  BY <1>1, <1>3
  <2>2. j \notin S  BY <1>2, <1>3, <2>1
  <2> QED  BY <1>1, <2>1, <2>2
<1>5. \E k \in 1..(Len(l) + 1) :
        /\ \A j \in 1..(k - 1) : ts[l[j]] <= d
        /\ k <= Len(l) => ts[l[k]] > d
  BY <1>3, <1>4
<1> QED  BY <1>5 DEF Position

\* insert_timer_inloop keeps the list in order and the minimum the first's.
LEMMA Inserting ==
  ASSUME NEW l \in Seq(Timers), NEW ts \in [Timers -> Nat], NEW t \in Timers,
         NEW min \in Nat, InOrder(l, ts), MinOK(l, min, ts), t \notin Range(l)
  PROVE  LET q == InsertTimer(l, min, ts, t)
         IN  /\ q.list \in Seq(Timers) /\ q.min \in Nat
             /\ Range(q.list) = Range(l) \cup {t}
             /\ InOrder(q.list, ts) /\ MinOK(q.list, q.min, ts)
<1> DEFINE i == Position(l, ts, ts[t])
           r == InsertAt(l, i, t)
           n == Len(l)
           q == InsertTimer(l, min, ts, t)
<1>1. n \in Nat /\ ts[t] \in Nat  OBVIOUS
<1>2. /\ i \in 1..(n + 1)
      /\ \A j \in 1..(i - 1) : ts[l[j]] <= ts[t]
      /\ i <= n => ts[l[i]] > ts[t]
  BY PositionFacts
<1>3. q = [list |-> r, min |-> IF i = 1 THEN ts[t] ELSE min]
  BY DEF InsertTimer
<1> HIDE DEF i, q
<1>4. /\ r \in Seq(Timers) /\ Len(r) = n + 1
      /\ \A j \in 1..(i - 1) : r[j] = l[j]
      /\ r[i] = t
      /\ \A j \in (i + 1)..(n + 1) : r[j] = l[j - 1]
  BY <1>2, InsertAtFacts
<1> HIDE DEF r
<1>5. \A j \in i..n : ts[l[j]] > ts[t]
  <2> TAKE j \in i..n
  <2>1. i \in 1..n /\ j \in 1..n /\ (i < j \/ i = j)  BY <1>1, <1>2
  <2>2. ts[l[i]] <= ts[l[j]] /\ ts[l[i]] > ts[t]  BY <1>2, <2>1 DEF InOrder
  <2>3. ts[l[i]] \in Nat /\ ts[l[j]] \in Nat  BY <2>1
  <2> QED  BY <1>1, <2>2, <2>3
<1>6. \A j \in 1..n : l[j] # t /\ ts[l[j]] \in Nat /\ l[j] \in Range(l)
  <2>1. \A j \in 1..n : l[j] \in Range(l)  BY TimersOf
  <2> QED  BY <2>1
<1>7. Range(r) = Range(l) \cup {t}
  <2>0. /\ \A x \in Range(r) : \E j \in 1..(n + 1) : r[j] = x
        /\ \A x \in Range(l) : \E j \in 1..n : l[j] = x
        /\ \A j \in 1..(n + 1) : r[j] \in Range(r)
    <3>1. /\ \A x \in Range(l) : \E j \in 1..n : l[j] = x
          /\ \A x \in Range(r) : \E j \in 1..Len(r) : r[j] = x
          /\ \A j \in 1..Len(r) : r[j] \in Range(r)
      BY <1>4, TimersOf
    <3> QED  BY <1>4, <3>1
  <2>1. ASSUME NEW x \in Range(r) PROVE x \in Range(l) \cup {t}
    <3>1. PICK j \in 1..(n + 1) : r[j] = x  BY <2>0
    <3>2. j \in 1..(i - 1) \/ j = i \/ (j \in (i + 1)..(n + 1) /\ j - 1 \in 1..n)
      BY <1>1, <1>2
    <3>3. j \in 1..(i - 1) => j \in 1..n  BY <1>1, <1>2
    <3> QED  BY <1>4, <3>1, <3>2, <3>3, <1>6
  <2>2. ASSUME NEW x \in Range(l) PROVE x \in Range(r)
    <3>1. PICK j \in 1..n : l[j] = x  BY <2>0
    <3>2. CASE j < i
      <4>1. j \in 1..(i - 1) /\ j \in 1..(n + 1)  BY <1>1, <1>2, <3>2
      <4> QED  BY <1>4, <3>1, <4>1, <2>0
    <3>3. CASE j >= i
      <4>1. j + 1 \in (i + 1)..(n + 1) /\ j + 1 \in 1..(n + 1) /\ (j + 1) - 1 = j
        BY <1>1, <1>2, <3>3
      <4>2. r[j + 1] = x  BY <1>4, <3>1, <4>1
      <4> QED  BY <1>4, <4>1, <4>2, <2>0
    <3> QED  BY <1>1, <1>2, <3>2, <3>3
  <2>3. t \in Range(r)
    <3>1. i \in 1..(n + 1)  BY <1>1, <1>2
    <3> QED  BY <1>4, <3>1, <2>0
  <2> QED  BY <2>1, <2>2, <2>3
<1>8. InOrder(r, ts)
  <2> SUFFICES ASSUME NEW j \in 1..(n + 1), NEW k \in 1..(n + 1), j < k
               PROVE  ts[r[j]] <= ts[r[k]] /\ r[j] # r[k]
    BY <1>4 DEF InOrder
  <2>1. CASE k < i
    <3>1. j \in 1..(i - 1) /\ k \in 1..(i - 1) /\ j \in 1..n /\ k \in 1..n  BY <1>1, <1>2, <2>1
    <3> QED  BY <1>4, <3>1 DEF InOrder
  <2>2. CASE k = i
    <3>1. j \in 1..(i - 1) /\ j \in 1..n  BY <1>1, <1>2, <2>2
    <3> QED  BY <1>2, <1>4, <1>6, <2>2, <3>1
  <2>3. CASE j = i
    <3>1. k \in (i + 1)..(n + 1) /\ k - 1 \in i..n /\ k - 1 \in 1..n  BY <1>1, <1>2, <2>3
    <3>2. r[k] = l[k - 1] /\ ts[l[k - 1]] > ts[t] /\ l[k - 1] # t /\ ts[l[k - 1]] \in Nat
      BY <1>4, <1>5, <1>6, <3>1
    <3> QED  BY <1>1, <1>4, <2>3, <3>2
  <2>4. CASE j < i /\ k > i
    <3>1. j \in 1..(i - 1) /\ j \in 1..n /\ k \in (i + 1)..(n + 1) /\ k - 1 \in 1..n /\ j < k - 1
      BY <1>1, <1>2, <2>4
    <3> QED  BY <1>4, <3>1 DEF InOrder
  <2>5. CASE j > i
    <3>1. j \in (i + 1)..(n + 1) /\ k \in (i + 1)..(n + 1) /\ j - 1 \in 1..n /\ k - 1 \in 1..n
          /\ j - 1 < k - 1
      BY <1>1, <1>2, <2>5
    <3>2. r[j] = l[j - 1] /\ r[k] = l[k - 1]  BY <1>4, <3>1
    <3> QED  BY <3>1, <3>2 DEF InOrder
  <2> QED  BY <1>1, <1>2, <2>1, <2>2, <2>3, <2>4, <2>5
<1>9. MinOK(r, q.min, ts) /\ q.min \in Nat
  <2>1. CASE i = 1
    BY <1>1, <1>3, <1>4, <2>1 DEF MinOK
  <2>2. CASE i # 1
    <3>1. 1 \in 1..(i - 1) /\ l # <<>>  BY <1>1, <1>2, <2>2
    <3> QED  BY <1>3, <1>4, <2>2, <3>1 DEF MinOK
  <2> QED  BY <2>1, <2>2
<1>10. q.list = r  BY <1>3
<1> QED  BY <1>4, <1>7, <1>8, <1>9, <1>10 DEF q

\* remove_timer_inloop keeps the order and the minimum.
LEMMA Removing ==
  ASSUME timer_list \in Seq(Timers), timestamp \in [Timers -> Nat], min_timestamp \in Nat,
         now \in Nat, InOrder(timer_list, timestamp),
         MinOK(timer_list, min_timestamp, timestamp), NEW t \in Range(timer_list)
  PROVE  LET q == RemoveTimer(t)
         IN  /\ q.list \in Seq(Timers) /\ q.min \in Nat
             /\ Range(q.list) = Range(timer_list) \ {t}
             /\ InOrder(q.list, timestamp) /\ MinOK(q.list, q.min, timestamp)
<1> DEFINE l == timer_list
           n == Len(l)
           i == IndexOf(l, t)
           r == RemoveAt(l, i)
           q == RemoveTimer(t)
<1>1. n \in Nat /\ \A j \in 1..n : l[j] \in Timers /\ timestamp[l[j]] \in Nat  OBVIOUS
<1>2. i \in 1..n /\ l[i] = t
  <2>1. \E k \in 1..n : l[k] = t  BY TimersOf
  <2> QED  BY <2>1 DEF IndexOf
<1>3. /\ q.list = r
      /\ q.min = IF l[1] # t THEN min_timestamp ELSE IF r = <<>> THEN now ELSE timestamp[r[1]]
  BY DEF RemoveTimer
<1> HIDE DEF i, q, l
<1>4. l \in Seq(Timers) /\ InOrder(l, timestamp) /\ MinOK(l, min_timestamp, timestamp)
  BY DEF l
<1>5. /\ r \in Seq(Timers) /\ Len(r) = n - 1
      /\ \A j \in 1..(i - 1) : r[j] = l[j]
      /\ \A j \in i..(n - 1) : r[j] = l[j + 1]
  BY <1>2, <1>4, RemoveAtFacts
<1> HIDE DEF r
\* Position j of the rest is position Old(j) of the list.
<1> DEFINE Old(j) == IF j < i THEN j ELSE j + 1
<1>6. \A j \in 1..(n - 1) : Old(j) \in 1..n /\ Old(j) # i /\ r[j] = l[Old(j)]
  BY <1>1, <1>2, <1>5
<1>7. \A j, k \in 1..(n - 1) : j < k => Old(j) < Old(k)
  BY <1>1, <1>2
<1>8. \A k \in 1..n : k # i => \E j \in 1..(n - 1) : Old(j) = k
  <2> SUFFICES ASSUME NEW k \in 1..n, k # i PROVE \E j \in 1..(n - 1) : Old(j) = k
    OBVIOUS
  <2>1. CASE k < i
    <3>1. k \in 1..(n - 1) /\ Old(k) = k  BY <1>1, <1>2, <2>1
    <3> QED  BY <3>1
  <2>2. CASE k > i
    <3>1. k - 1 \in 1..(n - 1) /\ Old(k - 1) = k  BY <1>1, <1>2, <2>2
    <3> QED  BY <3>1
  <2> QED  BY <1>1, <1>2, <2>1, <2>2
<1> HIDE DEF Old
<1>9. \A j, k \in 1..n : j # k => l[j] # l[k]
  <2> SUFFICES ASSUME NEW j \in 1..n, NEW k \in 1..n, j # k PROVE l[j] # l[k]
    OBVIOUS
  <2>1. j < k \/ k < j  BY <1>1
  <2> QED  BY <1>4, <2>1 DEF InOrder
<1>10. InOrder(r, timestamp)
  <2> SUFFICES ASSUME NEW j \in 1..(n - 1), NEW k \in 1..(n - 1), j < k
               PROVE  timestamp[r[j]] <= timestamp[r[k]] /\ r[j] # r[k]
    BY <1>5 DEF InOrder
  <2>1. Old(j) \in 1..n /\ Old(k) \in 1..n /\ Old(j) < Old(k)  BY <1>6, <1>7
  <2>2. r[j] = l[Old(j)] /\ r[k] = l[Old(k)]  BY <1>6
  <2>3. timestamp[l[Old(j)]] <= timestamp[l[Old(k)]] /\ l[Old(j)] # l[Old(k)]
    BY <1>4, <2>1 DEF InOrder
  <2> QED  BY <2>2, <2>3
<1>11. Range(r) = Range(l) \ {t}
  <2>1. /\ \A x \in Range(r) : \E j \in 1..(n - 1) : r[j] = x
        /\ \A x \in Range(l) : \E j \in 1..n : l[j] = x
        /\ \A j \in 1..(n - 1) : r[j] \in Range(r)
        /\ \A j \in 1..n : l[j] \in Range(l)
    <3>1. /\ \A x \in Range(r) : \E j \in 1..Len(r) : r[j] = x
          /\ \A x \in Range(l) : \E j \in 1..Len(l) : l[j] = x
          /\ \A j \in 1..Len(r) : r[j] \in Range(r)
          /\ \A j \in 1..Len(l) : l[j] \in Range(l)
      BY <1>4, <1>5, TimersOf
    <3> QED  BY <1>5, <3>1
  <2>2. ASSUME NEW x \in Range(r) PROVE x \in Range(l) /\ x # t
    <3>1. PICK j \in 1..(n - 1) : r[j] = x  BY <2>1
    <3>2. Old(j) \in 1..n /\ Old(j) # i /\ l[Old(j)] = x  BY <1>6, <3>1
    <3> QED  BY <1>2, <1>9, <2>1, <3>2
  <2>3. ASSUME NEW x \in Range(l), x # t PROVE x \in Range(r)
    <3>1. PICK k \in 1..n : l[k] = x  BY <2>1
    <3>2. k # i  BY <1>2, <2>3, <3>1
    <3>3. PICK j \in 1..(n - 1) : Old(j) = k  BY <1>8, <3>2
    <3>4. r[j] = x  BY <1>6, <3>1, <3>3
    <3> QED  BY <2>1, <3>4
  <2> QED  BY <2>2, <2>3
<1>12. MinOK(r, q.min, timestamp) /\ q.min \in Nat
  <2>1. CASE l[1] # t
    <3>1. 1 \in 1..(i - 1) /\ l # <<>>  BY <1>1, <1>2, <2>1
    <3>2. q.min = min_timestamp /\ r[1] = l[1]  BY <1>3, <1>5, <2>1, <3>1
    <3> QED  BY <1>4, <3>1, <3>2 DEF MinOK
  <2>2. CASE l[1] = t
    <3>1. q.min = IF r = <<>> THEN now ELSE timestamp[r[1]]  BY <1>3, <2>2
    <3>2. r # <<>> => timestamp[r[1]] \in Nat  BY <1>5
    <3> QED  BY <3>1, <3>2 DEF MinOK
  <2> QED  BY <2>1, <2>2
<1> QED  BY <1>3, <1>5, <1>10, <1>11, <1>12 DEF q, l

\* The timestamps of timers that are not in a list do not matter to it.
LEMMA OrderKept ==
  ASSUME NEW l \in Seq(Timers), NEW ts, NEW us, NEW min,
         \A t \in Range(l) : us[t] = ts[t], InOrder(l, ts), MinOK(l, min, ts)
  PROVE  InOrder(l, us) /\ MinOK(l, min, us)
<1>1. \A j \in 1..Len(l) : us[l[j]] = ts[l[j]]  BY TimersOf
<1>2. l # <<>> => 1 \in 1..Len(l)  OBVIOUS
<1> QED  BY <1>1, <1>2 DEF InOrder, MinOK

\* The walk over the expired timers ends.
LEMMA ExpiredFacts ==
  ASSUME timer_list \in Seq(Timers), timestamp \in [Timers -> Nat], NEW n \in Nat
  PROVE  LET k == Expired(n)
         IN  /\ k \in 0..Len(timer_list)
             /\ \A j \in 1..k : timestamp[timer_list[j]] <= n
<1> DEFINE k == Position(timer_list, timestamp, n) - 1
<1>1. /\ k + 1 \in 1..(Len(timer_list) + 1)
      /\ \A j \in 1..k : timestamp[timer_list[j]] <= n
      /\ k + 1 <= Len(timer_list) => timestamp[timer_list[k + 1]] > n
  <2>1. Position(timer_list, timestamp, n) \in 1..(Len(timer_list) + 1)  BY PositionFacts
  <2>2. Len(timer_list) \in Nat  OBVIOUS
  <2>3. k + 1 = Position(timer_list, timestamp, n)  BY <2>1, <2>2
  <2> QED  BY <2>1, <2>3, PositionFacts
<1>2. k \in 0..Len(timer_list) /\ (k < Len(timer_list) => k + 1 <= Len(timer_list))
  <2>1. k \in Int /\ Len(timer_list) \in Nat
    <3>1. Position(timer_list, timestamp, n) \in 1..(Len(timer_list) + 1)  BY PositionFacts
    <3> QED  BY <3>1
  <2> HIDE DEF k
  <2> QED  BY <1>1, <2>1
<1> HIDE DEF k
<1>3. \E i \in 0..Len(timer_list) :
        /\ \A j \in 1..i : timestamp[timer_list[j]] <= n
        /\ i < Len(timer_list) => timestamp[timer_list[i + 1]] > n
  BY <1>1, <1>2
<1> QED  BY <1>3 DEF Expired

\* A list in order is split into a front and a rest.
LEMMA Splitting ==
  ASSUME NEW l \in Seq(Timers), NEW ts, InOrder(l, ts), NEW k \in 0..Len(l)
  PROVE  LET front == SubSeq(l, 1, k)
             rest  == SubSeq(l, k + 1, Len(l))
         IN  /\ front \in Seq(Timers) /\ rest \in Seq(Timers)
             /\ InOrder(front, ts) /\ InOrder(rest, ts)
             /\ Range(front) \cup Range(rest) = Range(l)
             /\ Range(front) \cap Range(rest) = {}
             /\ Range(front) = {l[j] : j \in 1..k}
<1> DEFINE n == Len(l)
           m == k + 1
           a == SubSeq(l, 1, k)
           b == SubSeq(l, m, n)
<1>1. n \in Nat /\ \A j \in 1..n : l[j] \in Timers  OBVIOUS
<1>2. a \in Seq(Timers) /\ Len(a) = k /\ \A j \in 1..k : a[j] = l[j]
  <2>1. \A j \in 1..k : l[j] \in Timers  BY <1>1
  <2> QED  BY <1>1, <2>1, SubSeqProperties
<1>3. b \in Seq(Timers) /\ Len(b) = n - k /\ \A j \in 1..(n - k) : b[j] = l[k + j]
  <2>1. (\A j \in m..n : l[j] \in Timers) /\ m \in Int /\ n \in Int  BY <1>1
  <2>2. (IF m <= n THEN n - m + 1 ELSE 0) = n - k /\ n - m + 1 = n - k
        /\ \A j \in 1..(n - k) : m + j - 1 = k + j
    BY <1>1
  <2> HIDE DEF m, n
  <2>3. /\ b \in Seq(Timers)
        /\ Len(b) = IF m <= n THEN n - m + 1 ELSE 0
        /\ \A j \in 1..(n - m + 1) : b[j] = l[m + j - 1]
    BY <2>1, SubSeqProperties
  <2> HIDE DEF b
  <2> QED  BY <2>2, <2>3
<1> HIDE DEF a, b
<1>4. /\ \A x \in Range(a) : \E j \in 1..k : a[j] = x
      /\ \A j \in 1..k : a[j] \in Range(a)
      /\ \A x \in Range(b) : \E j \in 1..(n - k) : b[j] = x
      /\ \A j \in 1..(n - k) : b[j] \in Range(b)
  <2>1. /\ \A x \in Range(a) : \E j \in 1..Len(a) : a[j] = x
        /\ \A j \in 1..Len(a) : a[j] \in Range(a)
        /\ \A x \in Range(b) : \E j \in 1..Len(b) : b[j] = x
        /\ \A j \in 1..Len(b) : b[j] \in Range(b)
    BY <1>2, <1>3, TimersOf
  <2> QED  BY <1>2, <1>3, <2>1
<1>5. /\ \A x \in Range(l) : \E j \in 1..n : l[j] = x
      /\ \A j \in 1..n : l[j] \in Range(l)
  BY TimersOf
<1>6. (\A j \in 1..k : j \in 1..n) /\ (\A j \in 1..(n - k) : k + j \in 1..n /\ k + j > k)
      /\ (\A i, j \in 1..(n - k) : i < j => k + i < k + j)
  BY <1>1
<1>7. InOrder(a, ts)  BY <1>2, <1>6 DEF InOrder
<1>8. InOrder(b, ts)  BY <1>3, <1>6 DEF InOrder
<1>9. Range(a) \cup Range(b) = Range(l)
  <2>1. \A x \in Range(a) : x \in Range(l)  BY <1>2, <1>4, <1>5, <1>6
  <2>2. ASSUME NEW x \in Range(b) PROVE x \in Range(l)
    <3>1. PICK j \in 1..(n - k) : b[j] = x  BY <1>4
    <3>2. k + j \in 1..n /\ l[k + j] = x  BY <1>3, <1>6, <3>1
    <3> QED  BY <1>5, <3>2
  <2>3. ASSUME NEW x \in Range(l) PROVE x \in Range(a) \cup Range(b)
    <3>1. PICK j \in 1..n : l[j] = x  BY <1>5
    <3>2. CASE j <= k
      <4>1. j \in 1..k  BY <3>2
      <4> QED  BY <1>2, <1>4, <3>1, <4>1
    <3>3. CASE j > k
      <4>1. j - k \in 1..(n - k) /\ k + (j - k) = j  BY <1>1, <3>3
      <4>2. b[j - k] = x  BY <1>3, <3>1, <4>1
      <4> QED  BY <1>4, <4>1, <4>2
    <3> QED  BY <3>2, <3>3
  <2> QED  BY <2>1, <2>2, <2>3
<1>10. Range(a) \cap Range(b) = {}
  <2> SUFFICES ASSUME NEW x \in Range(a), x \in Range(b) PROVE FALSE
    OBVIOUS
  <2>1. PICK i \in 1..k : a[i] = x  BY <1>4
  <2>2. PICK j \in 1..(n - k) : b[j] = x  BY <1>4
  <2>3. i \in 1..n /\ k + j \in 1..n /\ i < k + j  BY <1>1, <1>6
  <2>4. l[i] = x /\ l[k + j] = x  BY <1>2, <1>3, <2>1, <2>2
  <2> QED  BY <2>3, <2>4 DEF InOrder
<1>11. Range(a) = {l[j] : j \in 1..k}
  BY <1>2, <1>4
<1> QED  BY <1>2, <1>3, <1>7, <1>8, <1>9, <1>10, <1>11 DEF a, b

-----------------------------------------------------------------------------
(* The tasks *)

LEMMA Submitting ==
  ASSUME tasks \in Seq(Task), NEW op \in {"insert", "cancel", "refresh"}, NEW t \in Timers,
         Submit(op, t)
  PROVE  /\ tasks' \in Seq(Task) /\ Len(tasks) \in Nat /\ Len(tasks') = Len(tasks) + 1
         /\ \A k \in 1..Len(tasks) : tasks'[k] = tasks[k]
         /\ tasks'[Len(tasks')].op = op /\ tasks'[Len(tasks')].timer = t
         /\ \A k \in 1..Len(tasks') : k \in 1..Len(tasks) \/ k = Len(tasks')
         /\ Arriving' = IF op = "insert" THEN Arriving \cup {t} ELSE Arriving
<1> DEFINE r == [op |-> op, timer |-> t]
           n == Len(tasks)
<1>1. r \in Task /\ r.op = op /\ r.timer = t  BY DEF Task
<1>2. tasks' = Append(tasks, r)  BY DEF Submit
<1> HIDE DEF r
<1>3. /\ tasks' \in Seq(Task) /\ n \in Nat /\ Len(tasks') = n + 1
      /\ \A k \in 1..n : tasks'[k] = tasks[k]
      /\ tasks'[n + 1] = r
  BY <1>1, <1>2
<1>4. \A k \in 1..(n + 1) : k \in 1..n \/ k = n + 1  BY <1>3
<1>5. ASSUME NEW u \in Timers
      PROVE  Pending("insert", u)' <=> Pending("insert", u) \/ (op = "insert" /\ u = t)
  <2> DEFINE x == [op |-> "insert", timer |-> u]
  <2>1. x = r <=> (op = "insert" /\ u = t)  BY DEF r
  <2>2. Pending("insert", u) <=> \E k \in 1..n : tasks[k] = x  BY DEF Pending
  <2>3. Pending("insert", u)' <=> \E k \in 1..(n + 1) : tasks'[k] = x
    BY <1>3 DEF Pending
  <2> HIDE DEF x
  <2>4. n + 1 \in 1..(n + 1) /\ \A k \in 1..n : k \in 1..(n + 1)  BY <1>3
  <2> QED  BY <1>3, <1>4, <2>1, <2>2, <2>3, <2>4
<1>6. Arriving' = IF op = "insert" THEN Arriving \cup {t} ELSE Arriving
  BY <1>5 DEF Arriving
<1> QED  BY <1>1, <1>3, <1>4, <1>6

\* The first task is taken.
LEMMA Taking ==
  ASSUME tasks \in Seq(Task), tasks # <<>>, TaskOrder, tasks' = Tail(tasks)
  PROVE  /\ tasks' \in Seq(Task) /\ Len(tasks) \in Nat /\ Len(tasks') = Len(tasks) - 1
         /\ Head(tasks) = tasks[1] /\ Head(tasks) \in Task /\ 1 \in 1..Len(tasks)
         /\ \A k \in 1..Len(tasks') :
              k + 1 \in 1..Len(tasks) /\ 1 < k + 1 /\ tasks'[k] = tasks[k + 1]
         /\ TaskOrder'
         /\ Arriving' = IF Head(tasks).op = "insert" THEN Arriving \ {Head(tasks).timer}
                        ELSE Arriving
         /\ Head(tasks).op = "insert" => Head(tasks).timer \in Arriving
<1> DEFINE n == Len(tasks)
           r == tasks[1]
<1>1. /\ tasks' \in Seq(Task) /\ n \in Nat /\ n > 0 /\ Len(tasks') = n - 1
      /\ Head(tasks) = r /\ r \in Task /\ 1 \in 1..n
      /\ \A k \in 1..(n - 1) : tasks'[k] = tasks[k + 1]
  OBVIOUS
<1>2. \A k \in 1..(n - 1) : k + 1 \in 1..n /\ 1 < k + 1  BY <1>1
<1>3. TaskOrder'
  <2> SUFFICES ASSUME NEW j \in 1..(n - 1), NEW k \in 1..(n - 1), j < k,
                      tasks'[j].timer = tasks'[k].timer
               PROVE  tasks'[k].op # "insert" /\ tasks'[j].op # "cancel"
    BY <1>1 DEF TaskOrder
  <2>1. j + 1 \in 1..n /\ k + 1 \in 1..n /\ j + 1 < k + 1  BY <1>1
  <2>2. tasks'[j] = tasks[j + 1] /\ tasks'[k] = tasks[k + 1]  BY <1>1
  <2> QED  BY <2>1, <2>2 DEF TaskOrder
<1>4. ASSUME NEW u \in Timers
      PROVE  Pending("insert", u)' <=>
               Pending("insert", u) /\ ~(r.op = "insert" /\ r.timer = u)
  <2> DEFINE x == [op |-> "insert", timer |-> u]
  <2>1. x.op = "insert" /\ x.timer = u  OBVIOUS
  <2>2. x = r <=> (r.op = "insert" /\ r.timer = u)  BY <1>1 DEF Task
  <2>3. Pending("insert", u) <=> \E k \in 1..n : tasks[k] = x  BY DEF Pending
  <2>4. Pending("insert", u)' <=> \E k \in 1..(n - 1) : tasks'[k] = x
    BY <1>1 DEF Pending
  <2> HIDE DEF x, r
  <2>5. ASSUME NEW k \in 1..(n - 1), tasks'[k] = x
        PROVE  Pending("insert", u) /\ x # r
    <3>1. k + 1 \in 1..n /\ 1 < k + 1 /\ tasks[k + 1] = x  BY <1>1, <1>2, <2>5
    <3>2. tasks[1].timer = u => FALSE  BY <1>1, <2>1, <3>1 DEF TaskOrder
    <3> QED  BY <2>1, <2>3, <3>1, <3>2 DEF r
  <2>6. ASSUME NEW k \in 1..n, tasks[k] = x, x # r
        PROVE  \E j \in 1..(n - 1) : tasks'[j] = x
    <3>1. k # 1  BY <2>6 DEF r
    <3>2. k - 1 \in 1..(n - 1) /\ (k - 1) + 1 = k  BY <1>1, <3>1
    <3>3. tasks'[k - 1] = x  BY <1>1, <2>6, <3>2
    <3> QED  BY <3>2, <3>3
  <2> QED  BY <2>2, <2>3, <2>4, <2>5, <2>6
<1>5. r.op = "insert" => r.timer \in Arriving
  <2>1. r.timer \in Timers /\ (r.op = "insert" => r = [op |-> "insert", timer |-> r.timer])
    BY <1>1 DEF Task
  <2> HIDE DEF r
  <2>2. tasks[1] = r /\ 1 \in 1..n  BY <1>1 DEF r
  <2> QED  BY <2>1, <2>2 DEF Arriving, Pending
<1>6. Arriving' = IF r.op = "insert" THEN Arriving \ {r.timer} ELSE Arriving
  BY <1>4 DEF Arriving
<1> QED  BY <1>1, <1>2, <1>3, <1>5, <1>6

\* A task on the way in is an insertion that waits.
LEMMA ArrivingFacts ==
  ASSUME tasks \in Seq(Task), NEW t \in Arriving
  PROVE  t \in Timers /\ \E k \in 1..Len(tasks) : tasks[k].op = "insert" /\ tasks[k].timer = t
BY DEF Arriving, Pending

-----------------------------------------------------------------------------
(* The steps *)

LEMMA TimerTypes ==
  ASSUME TimerInv
  PROVE  /\ now \in Nat /\ min_timestamp \in Nat /\ deadline \in Nat
         /\ timer_list \in Seq(Timers) /\ done_timer \in Seq(Timers)
         /\ tasks \in Seq(Task) /\ Len(tasks) \in Nat
         /\ timestamp \in [Timers -> Nat] /\ interval \in [Timers -> Nat]
         /\ used \subseteq Timers /\ freed \subseteq used
         /\ Linked \subseteq Timers
BY TimerAssumption, TimersOf DEF TimerInv, TypeOK, Linked

\* A step that leaves timers, tasks and the list alone.
LEMMA Quiet ==
  ASSUME TimerInv, UNCHANGED <<queue, fields, memory, tasks, batch, history>>,
         pc # "destroyed", now' \in Nat, now <= now', TypeOK', SleepOK', LoopOK'
  PROVE  TimerInv'
<1>1. UNCHANGED <<timer_list, min_timestamp, timestamp, interval, is_alive, is_expired,
                  is_in_queue, used, freed, tasks, done_timer, current, asked, cancelled>>
  BY DEF queue, fields, memory, batch, history
<1>2. Linked' = Linked /\ InBatch' = InBatch /\ Arriving' = Arriving
  BY <1>1 DEF Linked, InBatch, Arriving, Pending
<1>3. Places(Linked, InBatch, Arriving)' /\ BatchOK'
  BY <1>1, <1>2 DEF TimerInv, Places, BatchOK
<1>4. TasksLive' /\ TaskOrder' /\ TaskFacts'
  BY <1>1 DEF TimerInv, TasksLive, TaskOrder, TaskFacts
<1>5. ListOK'  BY <1>1 DEF TimerInv, ListOK
<1>6. AliveOK' /\ FreedOK' /\ UnusedOK'
  BY <1>1 DEF TimerInv, AliveOK, FreedOK, UnusedOK
<1>7. BatchDue'
  <2>1. Range(done_timer) \subseteq Timers /\ now \in Nat /\ timestamp \in [Timers -> Nat]
    BY TimerTypes, TimersOf
  <2>2. \A t \in Range(done_timer) : timestamp[t] <= now  BY DEF TimerInv, BatchDue
  <2> QED  BY <1>1, <2>1, <2>2 DEF BatchDue
<1> QED  BY <1>3, <1>4, <1>5, <1>6, <1>7 DEF TimerInv

LEMMA TickStep ==
  ASSUME TimerInv, Tick
  PROVE  TimerInv'
<1>1. now' = now + 1 /\ now < MaxTime /\ pc # "destroyed"
      /\ UNCHANGED <<queue, fields, memory, tasks, loop, batch, history>>
  BY DEF Tick, Running
<1>2. now \in Nat /\ now \in 0..MaxTime /\ deadline \in Nat  BY TimerTypes DEF TimerInv, TypeOK
<1>3. now' \in 0..MaxTime /\ now' \in Nat /\ now <= now'  BY <1>1, <1>2, TimerAssumption
<1>4. TypeOK'
  BY <1>1, <1>3 DEF TimerInv, TypeOK, queue, fields, memory, loop, batch, history
<1>5. SleepOK'
  BY <1>1, <1>2 DEF TimerInv, SleepOK, queue, fields, loop
<1>6. LoopOK'  BY <1>1 DEF TimerInv, LoopOK, loop, batch
<1> QED  BY <1>1, <1>3, <1>4, <1>5, <1>6, Quiet

LEMMA WaitStep ==
  ASSUME TimerInv, Wait
  PROVE  TimerInv'
<1>1. pc = "top" /\ deadline' = now + GetTimeout /\ pc' = "wait"
      /\ UNCHANGED <<now, queue, fields, memory, tasks, woken, todo, batch, history>>
  BY DEF Wait
<1>2. now \in Nat /\ min_timestamp \in Nat /\ MaxWait \in Nat /\ MaxWait > 0
  BY TimerTypes, TimerAssumption
<1>3. deadline' \in Nat
      /\ (timer_list # <<>> => deadline' <= min_timestamp \/ deadline' <= now)
  BY <1>1, <1>2 DEF GetTimeout
<1>4. TypeOK'
  BY <1>1, <1>3 DEF TimerInv, TypeOK, queue, fields, memory, batch, history
<1>5. SleepOK'
  BY <1>1, <1>3 DEF TimerInv, SleepOK, ListOK, MinOK, queue, fields
<1>6. LoopOK'  BY <1>1 DEF TimerInv, LoopOK, batch
<1> QED  BY <1>1, <1>2, <1>4, <1>5, <1>6, Quiet

LEMMA ReturnStep ==
  ASSUME TimerInv, Return
  PROVE  TimerInv'
<1>1. pc = "wait" /\ pc' = "events" /\ woken' = (tasks # <<>>) /\ deadline' = 0
      /\ UNCHANGED <<now, queue, fields, memory, tasks, todo, batch, history>>
  BY DEF Return
<1>2. woken' \in BOOLEAN  BY <1>1
<1>3. TypeOK'
  BY <1>1, <1>2 DEF TimerInv, TypeOK, queue, fields, memory, batch, history
<1>4. SleepOK' /\ LoopOK'  BY <1>1 DEF TimerInv, SleepOK, LoopOK, batch
<1>5. now' \in Nat /\ now <= now'  BY <1>1, TimerTypes
<1> QED  BY <1>1, <1>3, <1>4, <1>5, Quiet

LEMMA TakeTasksStep ==
  ASSUME TimerInv, TakeTasks
  PROVE  TimerInv'
<1>1. pc = "events" /\ woken' = FALSE /\ todo' = Len(tasks)
      /\ UNCHANGED <<now, queue, fields, memory, tasks, pc, deadline, batch, history>>
  BY DEF TakeTasks
<1>2. woken' \in BOOLEAN /\ todo' \in 0..Len(tasks)
  <2>1. woken' \in BOOLEAN  BY <1>1, Zenon
  <2>2. todo' \in 0..Len(tasks)  BY <1>1, TimerTypes
  <2> QED  BY <2>1, <2>2
<1>3. TypeOK'
  BY <1>1, <1>2 DEF TimerInv, TypeOK, queue, fields, memory, batch, history
<1>4. SleepOK' /\ LoopOK'  BY <1>1 DEF TimerInv, SleepOK, LoopOK, batch
<1>5. now' \in Nat /\ now <= now'  BY <1>1, TimerTypes
<1> QED  BY <1>1, <1>3, <1>4, <1>5, Quiet

LEMMA EndEventsStep ==
  ASSUME TimerInv, EndEvents
  PROVE  TimerInv'
<1>1. pc = "events" /\ todo = 0 /\ pc' = "process"
      /\ UNCHANGED <<now, queue, fields, memory, tasks, deadline, woken, todo, batch, history>>
  BY DEF EndEvents
<1>2. TypeOK'
  BY <1>1 DEF TimerInv, TypeOK, queue, fields, memory, batch, history
<1>3. SleepOK' /\ LoopOK'  BY <1>1 DEF TimerInv, SleepOK, LoopOK, batch
<1>4. now' \in Nat /\ now <= now'  BY <1>1, TimerTypes
<1> QED  BY <1>1, <1>2, <1>3, <1>4, Quiet

LEMMA EndBatchStep ==
  ASSUME TimerInv, EndBatch
  PROVE  TimerInv'
<1>1. pc = "batch" /\ done_timer = <<>> /\ pc' = "top"
      /\ UNCHANGED <<now, queue, fields, memory, tasks, deadline, woken, todo, batch, history>>
  BY DEF EndBatch
<1>2. TypeOK'
  BY <1>1 DEF TimerInv, TypeOK, queue, fields, memory, batch, history
<1>3. SleepOK' /\ LoopOK'  BY <1>1 DEF TimerInv, SleepOK, LoopOK, batch
<1>4. now' \in Nat /\ now <= now'  BY <1>1, TimerTypes
<1> QED  BY <1>1, <1>2, <1>3, <1>4, Quiet

\* A thread adds a timer: its insertion joins the tasks.
LEMMA ClientAddStep ==
  ASSUME TimerInv, NEW t \in Timers, NEW start \in Nat, NEW delay \in Nat, NEW i \in Nat,
         ClientAdd(t, start, delay, i)
  PROVE  TimerInv'
<1>1. /\ pc # "destroyed" /\ t \notin used
      /\ used' = used \cup {t}
      /\ timestamp' = [timestamp EXCEPT ![t] = start + delay]
      /\ interval' = [interval EXCEPT ![t] = i]
      /\ is_alive' = [is_alive EXCEPT ![t] = TRUE]
      /\ Submit("insert", t)
      /\ UNCHANGED <<now, timer_list, min_timestamp, is_expired, is_in_queue, freed,
                     pc, deadline, woken, todo, done_timer, current, asked, cancelled>>
  BY DEF ClientAdd, NewTimer, Running, queue, loop, batch, history
<1>2. /\ tasks' \in Seq(Task) /\ Len(tasks) \in Nat /\ Len(tasks') = Len(tasks) + 1
      /\ \A k \in 1..Len(tasks) : tasks'[k] = tasks[k]
      /\ tasks'[Len(tasks')].op = "insert" /\ tasks'[Len(tasks')].timer = t
      /\ \A k \in 1..Len(tasks') : k \in 1..Len(tasks) \/ k = Len(tasks')
      /\ Arriving' = Arriving \cup {t}
  BY <1>1, TimerTypes, Submitting
<1>3. /\ used \subseteq Timers /\ freed \subseteq used /\ asked \subseteq used
      /\ cancelled \subseteq asked
      /\ timestamp \in [Timers -> Nat] /\ interval \in [Timers -> Nat]
      /\ is_alive \in [Timers -> BOOLEAN]
      /\ timer_list \in Seq(Timers) /\ done_timer \in Seq(Timers)
  BY DEF TimerInv, TypeOK
<1>4. /\ timestamp' \in [Timers -> Nat] /\ interval' \in [Timers -> Nat]
      /\ is_alive' \in [Timers -> BOOLEAN] /\ is_alive'[t] = TRUE
      /\ \A u \in Timers \ {t} : /\ timestamp'[u] = timestamp[u] /\ interval'[u] = interval[u]
                                 /\ is_alive'[u] = is_alive[u]
  BY <1>1, <1>3
<1>5. TypeOK'
  <2>1. todo \in 0..Len(tasks)  BY DEF TimerInv, TypeOK
  <2>2. todo' \in 0..Len(tasks')  BY <1>1, <1>2, <2>1
  <2> QED  BY <1>1, <1>2, <1>4, <2>2 DEF TimerInv, TypeOK
<1>6. Linked' = Linked /\ InBatch' = InBatch /\ t \notin Linked /\ t \notin InBatch
      /\ Linked \subseteq used /\ InBatch \subseteq used
  BY <1>1 DEF TimerInv, Places, Linked, InBatch
<1>7. Places(Linked, InBatch, Arriving)'
  <2>1. Places(Linked, InBatch, Arriving) /\ ~is_in_queue[t] /\ ~is_expired[t]
    BY <1>1 DEF TimerInv, UnusedOK
  <2> HIDE DEF Linked, InBatch, Arriving
  <2> QED  BY <1>1, <1>2, <1>3, <1>4, <1>6, <2>1 DEF Places
<1>8. BatchOK' /\ LoopOK'  BY <1>1 DEF TimerInv, BatchOK, LoopOK
<1>9. \A k \in 1..Len(tasks) : tasks[k].timer \in used /\ tasks[k].timer # t
  BY <1>1 DEF TimerInv, TaskFacts
<1>10. TasksLive'
  BY <1>1, <1>2, <1>3 DEF TimerInv, TasksLive
<1>11. TaskOrder'
  <2> SUFFICES ASSUME NEW j \in 1..Len(tasks'), NEW k \in 1..Len(tasks'), j < k,
                      tasks'[j].timer = tasks'[k].timer
               PROVE  tasks'[k].op # "insert" /\ tasks'[j].op # "cancel"
    BY DEF TaskOrder
  <2>1. j \in 1..Len(tasks)  BY <1>2
  <2>2. k \in 1..Len(tasks)  BY <1>2, <1>9, <2>1
  <2> QED  BY <1>2, <2>1, <2>2 DEF TimerInv, TaskOrder
<1>12. TaskFacts'
  <2> SUFFICES ASSUME NEW k \in 1..Len(tasks')
               PROVE  /\ tasks'[k].timer \in used'
                      /\ tasks'[k].op # "insert" =>
                           interval'[tasks'[k].timer] # 0 /\ tasks'[k].timer \notin cancelled'
                      /\ tasks'[k].op = "cancel" => tasks'[k].timer \in asked'
    BY DEF TaskFacts
  <2>1. CASE k \in 1..Len(tasks)
    <3>1. tasks'[k] = tasks[k] /\ interval'[tasks[k].timer] = interval[tasks[k].timer]
      BY <1>2, <1>3, <1>4, <1>9, <2>1
    <3> QED  BY <1>1, <2>1, <3>1 DEF TimerInv, TaskFacts
  <2>2. CASE k = Len(tasks')  BY <1>1, <1>2, <2>2
  <2> QED  BY <1>2, <2>1, <2>2
<1>13. ListOK'
  <2>1. \A u \in Range(timer_list) : timestamp'[u] = timestamp[u]
    BY <1>3, <1>4, <1>6 DEF Linked
  <2>2. InOrder(timer_list, timestamp') /\ MinOK(timer_list, min_timestamp, timestamp')
    BY <1>3, <2>1, OrderKept DEF TimerInv, ListOK
  <2> QED  BY <1>1, <2>2 DEF ListOK
<1>14. SleepOK'
  <2>1. timer_list # <<>> => timer_list[1] \in Range(timer_list) /\ timer_list[1] \in Timers
    <3>1. timer_list # <<>> => 1 \in 1..Len(timer_list)  BY <1>3
    <3> QED  BY <1>3, <3>1, TimersOf
  <2>2. timer_list # <<>> => timestamp'[timer_list[1]] = timestamp[timer_list[1]]
    BY <1>4, <1>6, <2>1 DEF Linked
  <2> QED  BY <1>1, <2>2 DEF TimerInv, SleepOK
<1>15. AliveOK'
  BY <1>1, <1>3, <1>4 DEF TimerInv, AliveOK
<1>16. FreedOK'
  BY <1>1, <1>3, <1>4 DEF TimerInv, FreedOK
<1>17. UnusedOK'
  BY <1>1 DEF TimerInv, UnusedOK
<1>18. BatchDue'
  <2>1. Range(done_timer) \subseteq InBatch /\ Range(done_timer) \subseteq Timers
    BY <1>3, TimersOf DEF InBatch
  <2> QED  BY <1>1, <1>4, <1>6, <2>1 DEF TimerInv, BatchDue
<1> QED
  BY <1>5, <1>7, <1>8, <1>10, <1>11, <1>12, <1>13, <1>14, <1>15, <1>16, <1>17, <1>18
  DEF TimerInv

\* A thread asks for a cancel or a refresh: the timer is there, and no task
\* cancels it yet.
LEMMA Requested ==
  ASSUME TimerInv, NEW t \in Timers, NEW op \in {"cancel", "refresh"}, Submit(op, t),
         pc # "destroyed", t \in used, t \notin asked, interval[t] # 0,
         \/ asked' = asked /\ op # "cancel"
         \/ asked' = asked \cup {t},
         UNCHANGED <<now, queue, fields, memory, loop, batch, cancelled>>
  PROVE  TimerInv'
<1>1. UNCHANGED <<now, timer_list, min_timestamp, timestamp, interval, is_alive, is_expired,
                  is_in_queue, used, freed, pc, deadline, woken, todo, done_timer, current,
                  cancelled>>
  BY DEF queue, fields, memory, loop, batch
<1>2. /\ tasks' \in Seq(Task) /\ Len(tasks) \in Nat /\ Len(tasks') = Len(tasks) + 1
      /\ \A k \in 1..Len(tasks) : tasks'[k] = tasks[k]
      /\ tasks'[Len(tasks')].op = op /\ tasks'[Len(tasks')].timer = t
      /\ \A k \in 1..Len(tasks') : k \in 1..Len(tasks) \/ k = Len(tasks')
      /\ Arriving' = Arriving
  BY TimerTypes, Submitting
<1>3. asked \subseteq used /\ cancelled \subseteq asked  BY DEF TimerInv, TypeOK
<1>4. TypeOK'
  <2>1. todo \in 0..Len(tasks)  BY DEF TimerInv, TypeOK
  <2>2. todo' \in 0..Len(tasks')  BY <1>1, <1>2, <2>1
  <2>3. asked' \subseteq used' /\ cancelled' \subseteq asked'  BY <1>1, <1>3
  <2> QED  BY <1>1, <1>2, <2>2, <2>3 DEF TimerInv, TypeOK
<1>5. Places(Linked, InBatch, Arriving)'
  <2>1. Linked' = Linked /\ InBatch' = InBatch  BY <1>1 DEF Linked, InBatch
  <2> QED  BY <1>1, <1>2, <2>1 DEF TimerInv, Places
<1>6. BatchOK' /\ LoopOK' /\ ListOK' /\ SleepOK' /\ BatchDue'
  BY <1>1 DEF TimerInv, BatchOK, LoopOK, ListOK, SleepOK, BatchDue
<1>7. AliveOK' /\ FreedOK' /\ UnusedOK'
  BY <1>1 DEF TimerInv, AliveOK, FreedOK, UnusedOK
<1>8. t \notin freed
  BY <1>3 DEF TimerInv, FreedOK
<1>9. TasksLive'
  BY <1>1, <1>2, <1>8 DEF TimerInv, TasksLive
<1>10. \A k \in 1..Len(tasks) : tasks[k].op = "cancel" => tasks[k].timer # t
  BY DEF TimerInv, TaskFacts
<1>11. TaskOrder'
  <2> SUFFICES ASSUME NEW j \in 1..Len(tasks'), NEW k \in 1..Len(tasks'), j < k,
                      tasks'[j].timer = tasks'[k].timer
               PROVE  tasks'[k].op # "insert" /\ tasks'[j].op # "cancel"
    BY DEF TaskOrder
  <2>1. j \in 1..Len(tasks)  BY <1>2
  <2>2. CASE k \in 1..Len(tasks)
    BY <1>2, <2>1, <2>2 DEF TimerInv, TaskOrder
  <2>3. CASE k = Len(tasks')
    BY <1>2, <1>10, <2>1, <2>3
  <2> QED  BY <1>2, <2>2, <2>3
<1>12. TaskFacts'
  <2> SUFFICES ASSUME NEW k \in 1..Len(tasks')
               PROVE  /\ tasks'[k].timer \in used'
                      /\ tasks'[k].op # "insert" =>
                           interval'[tasks'[k].timer] # 0 /\ tasks'[k].timer \notin cancelled'
                      /\ tasks'[k].op = "cancel" => tasks'[k].timer \in asked'
    BY DEF TaskFacts
  <2>1. CASE k \in 1..Len(tasks)
    BY <1>1, <1>2, <2>1 DEF TimerInv, TaskFacts
  <2>2. CASE k = Len(tasks')
    BY <1>1, <1>2, <1>3, <2>2
  <2> QED  BY <1>2, <2>1, <2>2
<1> QED  BY <1>4, <1>5, <1>6, <1>7, <1>9, <1>11, <1>12 DEF TimerInv

LEMMA ClientCancelStep ==
  ASSUME TimerInv, NEW t \in Timers, ClientCancel(t)
  PROVE  TimerInv'
<1>1. /\ pc # "destroyed" /\ t \in used /\ t \notin asked /\ interval[t] # 0
      /\ Submit("cancel", t) /\ asked' = asked \cup {t}
      /\ UNCHANGED <<now, queue, fields, memory, loop, batch, cancelled>>
  BY DEF ClientCancel, Running, Handle
<1> QED  BY <1>1, Requested

LEMMA ClientRefreshStep ==
  ASSUME TimerInv, NEW t \in Timers, ClientRefresh(t)
  PROVE  TimerInv'
<1>1. /\ pc # "destroyed" /\ t \in used /\ t \notin asked /\ interval[t] > 0
      /\ Submit("refresh", t)
      /\ UNCHANGED <<now, queue, fields, memory, loop, batch, history>>
  BY DEF ClientRefresh, Running, Handle
<1>2. asked' = asked /\ cancelled' = cancelled  BY <1>1 DEF history
<1>3. interval[t] # 0  BY <1>1, TimerTypes
<1> QED  BY <1>1, <1>2, <1>3, Requested

\* What loop_runafter and loop_runevery do in the loop's thread.
LEMMA LoopAddStep ==
  ASSUME TimerInv, NEW t \in Timers, NEW delay \in Nat, NEW i \in Nat, LoopAdd(t, delay, i)
  PROVE  TimerInv'
<1> DEFINE q == InsertTimer(timer_list, min_timestamp, timestamp', t)
<1>1. /\ pc \in {"events", "call"} /\ t \notin used
      /\ used' = used \cup {t}
      /\ timestamp' = [timestamp EXCEPT ![t] = now + delay]
      /\ interval' = [interval EXCEPT ![t] = i]
      /\ is_alive' = [is_alive EXCEPT ![t] = TRUE]
      /\ timer_list' = q.list /\ min_timestamp' = q.min
      /\ is_in_queue' = [is_in_queue EXCEPT ![t] = TRUE]
      /\ UNCHANGED <<now, is_expired, freed, tasks, pc, deadline, woken, todo,
                     done_timer, current, asked, cancelled>>
  BY DEF LoopAdd, NewTimer, InCallback, SetQueue, loop, batch, history
<1>2. /\ used \subseteq Timers /\ freed \subseteq used /\ asked \subseteq used
      /\ cancelled \subseteq asked /\ now \in Nat /\ min_timestamp \in Nat
      /\ timestamp \in [Timers -> Nat] /\ interval \in [Timers -> Nat]
      /\ is_alive \in [Timers -> BOOLEAN] /\ is_in_queue \in [Timers -> BOOLEAN]
      /\ timer_list \in Seq(Timers) /\ done_timer \in Seq(Timers)
  BY TimerTypes DEF TimerInv, TypeOK
<1>3. /\ timestamp' \in [Timers -> Nat] /\ interval' \in [Timers -> Nat]
      /\ \A u \in Timers \ {t} : timestamp'[u] = timestamp[u] /\ interval'[u] = interval[u]
  BY <1>1, <1>2
<1>4. /\ is_alive' \in [Timers -> BOOLEAN] /\ is_alive'[t] = TRUE
      /\ is_in_queue' \in [Timers -> BOOLEAN] /\ is_in_queue'[t] = TRUE
      /\ \A u \in Timers \ {t} : is_alive'[u] = is_alive[u] /\ is_in_queue'[u] = is_in_queue[u]
  BY <1>1, <1>2
<1>5. /\ t \notin Linked /\ t \notin InBatch /\ t \notin Arriving
      /\ Linked \subseteq used /\ InBatch \subseteq used /\ Arriving \subseteq used
  BY <1>1 DEF TimerInv, Places
<1>6. /\ timer_list' \in Seq(Timers) /\ min_timestamp' \in Nat
      /\ Linked' = Linked \cup {t} /\ ListOK'
  <2>1. \A u \in Range(timer_list) : timestamp'[u] = timestamp[u]
    BY <1>2, <1>3, <1>5 DEF Linked
  <2>2. InOrder(timer_list, timestamp') /\ MinOK(timer_list, min_timestamp, timestamp')
    BY <1>2, <2>1, OrderKept DEF TimerInv, ListOK
  <2>3. /\ q.list \in Seq(Timers) /\ q.min \in Nat
        /\ Range(q.list) = Range(timer_list) \cup {t}
        /\ InOrder(q.list, timestamp') /\ MinOK(q.list, q.min, timestamp')
    BY <1>2, <1>3, <1>5, <2>2, Inserting DEF Linked
  <2> HIDE DEF q
  <2> QED  BY <1>1, <2>3 DEF Linked, ListOK
<1> HIDE DEF q
<1>7. TypeOK'
  BY <1>1, <1>3, <1>4, <1>6 DEF TimerInv, TypeOK
<1>8. InBatch' = InBatch /\ Arriving' = Arriving
  BY <1>1 DEF InBatch, Arriving, Pending
<1>9. Places(Linked, InBatch, Arriving)'
  <2>1. Places(Linked, InBatch, Arriving) /\ ~is_expired[t]
    BY <1>1 DEF TimerInv, UnusedOK
  <2> QED  BY <1>1, <1>2, <1>4, <1>5, <1>6, <1>8, <2>1 DEF Places
<1>10. BatchOK' /\ LoopOK' /\ TasksLive' /\ TaskOrder' /\ SleepOK'
  BY <1>1 DEF TimerInv, BatchOK, LoopOK, TasksLive, TaskOrder, SleepOK
<1>11. TaskFacts'
  BY <1>1, <1>2, <1>3 DEF TimerInv, TaskFacts
<1>12. AliveOK'
  BY <1>1, <1>2, <1>4 DEF TimerInv, AliveOK
<1>13. FreedOK'
  BY <1>1, <1>2, <1>3 DEF TimerInv, FreedOK
<1>14. UnusedOK'
  BY <1>1, <1>4 DEF TimerInv, UnusedOK
<1>15. BatchDue'
  <2>1. Range(done_timer) \subseteq InBatch /\ Range(done_timer) \subseteq Timers
    BY <1>2, TimersOf DEF InBatch
  <2> QED  BY <1>1, <1>3, <1>5, <2>1 DEF TimerInv, BatchDue
<1> QED
  BY <1>6, <1>7, <1>9, <1>10, <1>11, <1>12, <1>13, <1>14, <1>15 DEF TimerInv

\* A refresh of a linked timer moves it in the list.
LEMMA Refreshing ==
  ASSUME TimerInv, NEW t \in Linked, Refresh(t), pc \in {"events", "call"},
         UNCHANGED <<now, interval, is_alive, is_expired, is_in_queue, used, freed,
                     pc, deadline, woken, done_timer, current, asked, cancelled>>
  PROVE  /\ timestamp' \in [Timers -> Nat] /\ timer_list' \in Seq(Timers)
         /\ min_timestamp' \in Nat /\ Linked' = Linked /\ ListOK' /\ SleepOK' /\ BatchDue'
<1> DEFINE p == RemoveTimer(t)
           q == InsertTimer(p.list, p.min, timestamp', t)
<1>1. /\ timestamp' = [timestamp EXCEPT ![t] = now + interval[t]]
      /\ timer_list' = q.list /\ min_timestamp' = q.min
  BY DEF Refresh, SetQueue
<1>2. /\ now \in Nat /\ min_timestamp \in Nat
      /\ timestamp \in [Timers -> Nat] /\ interval \in [Timers -> Nat]
      /\ timer_list \in Seq(Timers) /\ done_timer \in Seq(Timers) /\ t \in Timers
  BY TimerTypes
<1>3. timestamp' \in [Timers -> Nat] /\ \A u \in Timers \ {t} : timestamp'[u] = timestamp[u]
  BY <1>1, <1>2
<1>4. /\ p.list \in Seq(Timers) /\ p.min \in Nat
      /\ Range(p.list) = Range(timer_list) \ {t}
      /\ InOrder(p.list, timestamp) /\ MinOK(p.list, p.min, timestamp)
  BY <1>2, Removing DEF TimerInv, ListOK, Linked
<1> HIDE DEF p
<1>5. InOrder(p.list, timestamp') /\ MinOK(p.list, p.min, timestamp')
  <2>1. Range(p.list) \subseteq Timers  BY <1>4, TimersOf
  <2>2. \A u \in Range(p.list) : timestamp'[u] = timestamp[u]
    BY <1>3, <1>4, <2>1
  <2> QED  BY <1>4, <2>2, OrderKept
<1>6. /\ q.list \in Seq(Timers) /\ q.min \in Nat
      /\ Range(q.list) = Range(p.list) \cup {t}
      /\ InOrder(q.list, timestamp') /\ MinOK(q.list, q.min, timestamp')
  <2>1. t \notin Range(p.list)  BY <1>4
  <2> QED  BY <1>2, <1>3, <1>4, <1>5, <2>1, Inserting
<1> HIDE DEF q
<1>7. Linked' = Linked  BY <1>1, <1>4, <1>6 DEF Linked
<1>8. BatchDue'
  <2>1. Range(done_timer) \subseteq InBatch /\ Range(done_timer) \subseteq Timers
    BY <1>2, TimersOf DEF InBatch
  <2>2. t \notin InBatch  BY DEF TimerInv, Places
  <2> QED  BY <1>3, <2>1, <2>2 DEF TimerInv, BatchDue
<1> QED  BY <1>1, <1>3, <1>6, <1>7, <1>8 DEF ListOK, SleepOK

LEMMA LoopRefreshStep ==
  ASSUME TimerInv, NEW t \in Timers, LoopRefresh(t)
  PROVE  TimerInv'
<1>1. /\ pc \in {"events", "call"} /\ t \in Linked /\ Refresh(t)
      /\ UNCHANGED <<now, interval, is_alive, is_expired, is_in_queue, used, freed, tasks,
                     pc, deadline, woken, todo, done_timer, current, asked, cancelled>>
  BY DEF LoopRefresh, InCallback, Linked, memory, loop, batch, history
<1>2. /\ timestamp' \in [Timers -> Nat] /\ timer_list' \in Seq(Timers)
      /\ min_timestamp' \in Nat /\ Linked' = Linked /\ ListOK' /\ SleepOK' /\ BatchDue'
  BY <1>1, Refreshing
<1>3. TypeOK'  BY <1>1, <1>2 DEF TimerInv, TypeOK
<1>4. InBatch' = InBatch /\ Arriving' = Arriving
  BY <1>1 DEF InBatch, Arriving, Pending
<1>5. Places(Linked, InBatch, Arriving)'
  BY <1>1, <1>2, <1>4 DEF TimerInv, Places
<1>6. BatchOK' /\ LoopOK' /\ TasksLive' /\ TaskOrder' /\ TaskFacts'
  BY <1>1 DEF TimerInv, BatchOK, LoopOK, TasksLive, TaskOrder, TaskFacts
<1>7. AliveOK' /\ FreedOK' /\ UnusedOK'
  BY <1>1 DEF TimerInv, AliveOK, FreedOK, UnusedOK
<1> QED  BY <1>2, <1>3, <1>5, <1>6, <1>7 DEF TimerInv

\* A timer whose insertion waits is arriving.
LEMMA InsertWaits ==
  ASSUME tasks \in Seq(Task), NEW k \in 1..Len(tasks), tasks[k].op = "insert"
  PROVE  tasks[k].timer \in Arriving
<1>1. tasks[k] \in Task  OBVIOUS
<1>2. tasks[k].timer \in Timers /\ tasks[k] = [op |-> "insert", timer |-> tasks[k].timer]
  BY <1>1 DEF Task
<1> QED  BY <1>2 DEF Arriving, Pending

\* The flags tell a cancel whether the timer is linked.
LEMMA FlagsTell ==
  ASSUME TimerInv, NEW t \in used \ freed
  PROVE  (t # current /\ ~is_expired[t] /\ is_in_queue[t]) <=> t \in Linked
<1>1. t \in Timers /\ None \notin Timers  BY TimerTypes, TimerAssumption
<1>2. ASSUME t \in Linked PROVE t # current
  <2>1. t \notin InBatch  BY <1>2 DEF TimerInv, Places
  <2> QED  BY <1>1, <2>1 DEF InBatch
<1>3. (t \in Linked => ~is_expired[t] /\ is_in_queue[t]) /\ (t \in InBatch => is_expired[t])
      /\ (t \in Arriving => ~is_in_queue[t]) /\ (t \in Linked \/ t \in InBatch \/ t \in Arriving)
  BY DEF TimerInv, Places
<1> QED  BY <1>2, <1>3

\* timer_queue_cancel_inloop, once no request for the timer waits any more.
LEMMA Cancelling ==
  ASSUME TimerInv, NEW t \in used \ freed, Cancel(t), pc \in {"events", "call"},
         tasks' \in Seq(Task), todo' \in 0..Len(tasks'), TaskOrder', LoopOK',
         Arriving' = Arriving,
         \A k \in 1..Len(tasks') : \E j \in 1..Len(tasks) : tasks'[k] = tasks[j],
         \A k \in 1..Len(tasks') : tasks'[k].timer = t => tasks'[k].op = "insert",
         asked' = asked \cup {t},
         UNCHANGED <<now, timestamp, interval, is_expired, is_in_queue, used, pc, deadline,
                     woken, done_timer, current>>
  PROVE  TimerInv'
<1> DEFINE q == RemoveTimer(t)
<1>1. /\ IF t \in Linked
         THEN timer_list' = q.list /\ min_timestamp' = q.min /\ freed' = freed \cup {t}
              /\ is_alive' = is_alive
         ELSE is_alive' = [is_alive EXCEPT ![t] = FALSE]
              /\ timer_list' = timer_list /\ min_timestamp' = min_timestamp /\ freed' = freed
      /\ cancelled' = cancelled \cup {t}
  BY FlagsTell DEF Cancel, SetQueue, queue
<1>2. /\ now \in Nat /\ min_timestamp \in Nat /\ timestamp \in [Timers -> Nat]
      /\ timer_list \in Seq(Timers) /\ used \subseteq Timers /\ freed \subseteq used
      /\ t \in Timers /\ is_alive \in [Timers -> BOOLEAN]
      /\ asked \subseteq used /\ cancelled \subseteq asked
  BY TimerTypes DEF TimerInv, TypeOK
<1>3. t \in Linked =>
        /\ q.list \in Seq(Timers) /\ q.min \in Nat
        /\ Range(q.list) = Linked \ {t}
        /\ InOrder(q.list, timestamp) /\ MinOK(q.list, q.min, timestamp)
  BY <1>2, Removing DEF TimerInv, ListOK, Linked
<1> HIDE DEF q
<1>4. /\ timer_list' \in Seq(Timers) /\ min_timestamp' \in Nat /\ Linked' = Linked \ {t} /\ ListOK'
  <2>1. CASE t \in Linked  BY <1>1, <1>3, <2>1 DEF Linked, ListOK
  <2>2. CASE t \notin Linked
    BY <1>1, <1>2, <2>2 DEF TimerInv, Linked, ListOK
  <2> QED  BY <2>1, <2>2
<1>5. /\ is_alive' \in [Timers -> BOOLEAN]
      /\ \A u \in Timers \ {t} : is_alive'[u] = is_alive[u]
      /\ t \in freed' \/ ~is_alive'[t]
      /\ freed \subseteq freed' /\ freed' \subseteq freed \cup {t} /\ freed' \subseteq used
      /\ t \in Linked <=> t \in freed'
  BY <1>1, <1>2
<1>6. TypeOK'
  <2>1. asked' \subseteq used' /\ cancelled' \subseteq asked'  BY <1>1, <1>2
  <2> QED  BY <1>4, <1>5, <2>1 DEF TimerInv, TypeOK
<1>7. Places(Linked, InBatch, Arriving)'
  <2>1. Places(Linked, InBatch, Arriving) /\ InBatch' = InBatch
    BY DEF TimerInv, InBatch
  <2>2. Linked \subseteq Timers  BY TimerTypes
  <2> QED  BY <1>2, <1>4, <1>5, <2>1, <2>2 DEF Places
<1>8. BatchOK' /\ SleepOK' /\ BatchDue'
  BY DEF TimerInv, BatchOK, SleepOK, BatchDue
<1>9. TasksLive'
  <2> SUFFICES ASSUME NEW k \in 1..Len(tasks'), tasks'[k].timer \in freed' PROVE FALSE
    BY DEF TasksLive
  <2>1. PICK j \in 1..Len(tasks) : tasks'[k] = tasks[j]  OBVIOUS
  <2>2. tasks[j].timer \notin freed  BY DEF TimerInv, TasksLive
  <2>3. tasks[j].timer = t /\ tasks[j].op = "insert" /\ t \in Linked
    BY <1>5, <2>1, <2>2
  <2>4. t \in Arriving  BY <2>3, InsertWaits, TimerTypes
  <2> QED  BY <2>3, <2>4 DEF TimerInv, Places
<1>10. TaskFacts'
  <2> SUFFICES ASSUME NEW k \in 1..Len(tasks')
               PROVE  /\ tasks'[k].timer \in used'
                      /\ tasks'[k].op # "insert" =>
                           interval'[tasks'[k].timer] # 0 /\ tasks'[k].timer \notin cancelled'
                      /\ tasks'[k].op = "cancel" => tasks'[k].timer \in asked'
    BY DEF TaskFacts
  <2>1. PICK j \in 1..Len(tasks) : tasks'[k] = tasks[j]  OBVIOUS
  <2> QED  BY <1>1, <2>1 DEF TimerInv, TaskFacts
<1>11. AliveOK'
  BY <1>1, <1>2, <1>5 DEF TimerInv, AliveOK
<1>12. FreedOK'
  BY <1>1, <1>5 DEF TimerInv, FreedOK
<1>13. UnusedOK'  BY DEF TimerInv, UnusedOK
<1> QED  BY <1>4, <1>6, <1>7, <1>8, <1>9, <1>10, <1>11, <1>12, <1>13 DEF TimerInv

LEMMA LoopCancelStep ==
  ASSUME TimerInv, NEW t \in Timers, LoopCancel(t)
  PROVE  TimerInv'
<1>1. /\ pc \in {"events", "call"} /\ t \in used /\ t \notin asked /\ t \notin freed
      /\ ~Pending("refresh", t) /\ Cancel(t) /\ asked' = asked \cup {t}
      /\ UNCHANGED <<now, timestamp, interval, is_expired, is_in_queue, used, tasks,
                     pc, deadline, woken, todo, done_timer, current>>
  BY DEF LoopCancel, InCallback, Handle, loop, batch
<1>2. tasks \in Seq(Task) /\ todo \in 0..Len(tasks)  BY DEF TimerInv, TypeOK
<1>3. TaskOrder' /\ LoopOK' /\ Arriving' = Arriving
  BY <1>1 DEF TimerInv, TaskOrder, LoopOK, Arriving, Pending
<1>4. ASSUME NEW k \in 1..Len(tasks), tasks[k].timer = t
      PROVE  tasks[k].op = "insert"
  <2>1. tasks[k] \in Task  BY <1>2
  <2>2. tasks[k].op \in {"insert", "cancel", "refresh"} /\ tasks[k] = [op |-> tasks[k].op, timer |-> t]
    BY <1>4, <2>1 DEF Task
  <2>3. tasks[k].op # "refresh"  BY <1>1, <2>2 DEF Pending
  <2>4. tasks[k].op # "cancel"  BY <1>1, <1>4 DEF TimerInv, TaskFacts
  <2> QED  BY <2>2, <2>3, <2>4
<1> QED  BY <1>1, <1>2, <1>3, <1>4, Cancelling

\* What waits is known before and after a task is taken.
LEMMA TasksKept ==
  ASSUME TimerInv, tasks # <<>>, tasks' = Tail(tasks), cancelled' = cancelled,
         UNCHANGED <<interval, used, asked>>
  PROVE  TaskFacts'
<1>1. \A k \in 1..Len(tasks') : k + 1 \in 1..Len(tasks) /\ tasks'[k] = tasks[k + 1]
  BY TimerTypes, Taking DEF TimerInv
<1> QED  BY <1>1 DEF TimerInv, TaskFacts

\* do_insert_timer, as the first of the tasks.
LEMMA DoInsertStep ==
  ASSUME TimerInv, NEW t \in Timers, pc = "events", tasks # <<>>, tasks' = Tail(tasks),
         Head(tasks).op = "insert", Head(tasks).timer = t, DoInsert(t),
         todo' \in 0..Len(tasks'), LoopOK',
         UNCHANGED <<now, interval, is_expired, used, pc, deadline, woken, done_timer, current, asked>>
  PROVE  TimerInv'
<1> DEFINE q == InsertTimer(timer_list, min_timestamp, timestamp, t)
<1>1. /\ UNCHANGED <<timestamp, is_alive, cancelled>>
      /\ \/ is_alive[t] /\ timer_list' = q.list /\ min_timestamp' = q.min
            /\ is_in_queue' = [is_in_queue EXCEPT ![t] = TRUE] /\ freed' = freed
         \/ ~is_alive[t] /\ freed' = freed \cup {t}
            /\ UNCHANGED <<timer_list, min_timestamp, is_in_queue>>
  BY DEF DoInsert, SetQueue, queue
<1>2. /\ tasks' \in Seq(Task) /\ Head(tasks) = tasks[1] /\ 1 \in 1..Len(tasks)
      /\ \A k \in 1..Len(tasks') :
           k + 1 \in 1..Len(tasks) /\ 1 < k + 1 /\ tasks'[k] = tasks[k + 1]
      /\ TaskOrder' /\ Arriving' = Arriving \ {t} /\ t \in Arriving
  BY TimerTypes, Taking DEF TimerInv
<1>3. /\ now \in Nat /\ min_timestamp \in Nat /\ timestamp \in [Timers -> Nat]
      /\ timer_list \in Seq(Timers) /\ used \subseteq Timers /\ freed \subseteq used
      /\ is_in_queue \in [Timers -> BOOLEAN]
      /\ t \notin Linked /\ t \notin InBatch /\ t \notin freed /\ t \in used
      /\ ~is_in_queue[t] /\ ~is_expired[t]
  BY <1>2, TimerTypes DEF TimerInv, TypeOK, Places
<1>4. TaskFacts'  BY <1>1, TasksKept
<1>5. BatchOK' /\ BatchDue' /\ InBatch' = InBatch /\ SleepOK'
  BY <1>1 DEF TimerInv, BatchOK, BatchDue, InBatch, SleepOK
<1>6. CASE is_alive[t]
  <2>1. timer_list' = q.list /\ min_timestamp' = q.min
        /\ is_in_queue' = [is_in_queue EXCEPT ![t] = TRUE] /\ freed' = freed
    BY <1>1, <1>6
  <2>2. /\ q.list \in Seq(Timers) /\ q.min \in Nat
        /\ Range(q.list) = Range(timer_list) \cup {t}
        /\ InOrder(q.list, timestamp) /\ MinOK(q.list, q.min, timestamp)
    BY <1>3, Inserting DEF TimerInv, ListOK, Linked
  <2> HIDE DEF q
  <2>3. timer_list' \in Seq(Timers) /\ min_timestamp' \in Nat /\ Linked' = Linked \cup {t} /\ ListOK'
    BY <1>1, <2>1, <2>2 DEF Linked, ListOK
  <2>4. is_in_queue' \in [Timers -> BOOLEAN] /\ is_in_queue'[t] = TRUE
        /\ \A u \in Timers \ {t} : is_in_queue'[u] = is_in_queue[u]
    BY <1>3, <2>1
  <2>5. TypeOK'  BY <1>1, <1>2, <2>1, <2>3, <2>4 DEF TimerInv, TypeOK
  <2>6. Places(Linked, InBatch, Arriving)'
    <3>1. Places(Linked, InBatch, Arriving) /\ Arriving \subseteq Timers
      BY DEF TimerInv, Arriving
    <3> QED  BY <1>1, <1>2, <1>3, <1>5, <1>6, <2>1, <2>3, <2>4, <3>1, TimerTypes DEF Places
  <2>7. TasksLive'
    BY <1>2, <2>1 DEF TimerInv, TasksLive
  <2>8. AliveOK' /\ FreedOK'  BY <1>1, <2>1 DEF TimerInv, AliveOK, FreedOK
  <2>9. UnusedOK'  BY <1>3, <2>4 DEF TimerInv, UnusedOK
  <2> QED  BY <1>2, <1>4, <1>5, <2>3, <2>5, <2>6, <2>7, <2>8, <2>9 DEF TimerInv
<1>7. CASE ~is_alive[t]
  <2>1. freed' = freed \cup {t} /\ UNCHANGED <<timer_list, min_timestamp, is_in_queue>>
    BY <1>1, <1>7
  <2>2. t \in cancelled  BY <1>3, <1>7 DEF TimerInv, AliveOK
  <2>3. Linked' = Linked /\ ListOK'  BY <1>1, <2>1 DEF TimerInv, Linked, ListOK
  <2>4. TypeOK'
    <3>1. freed' \subseteq used'  BY <1>3, <2>1
    <3> QED  BY <1>1, <1>2, <2>1, <3>1 DEF TimerInv, TypeOK
  <2>5. Places(Linked, InBatch, Arriving)'
    <3>1. Places(Linked, InBatch, Arriving) /\ Arriving \subseteq Timers
      BY DEF TimerInv, Arriving
    <3> QED  BY <1>1, <1>2, <1>3, <1>5, <2>1, <2>3, <3>1 DEF Places
  <2>6. TasksLive'
    <3> SUFFICES ASSUME NEW k \in 1..Len(tasks') PROVE tasks'[k].timer \notin freed'
      BY DEF TasksLive
    <3>1. k + 1 \in 1..Len(tasks) /\ 1 < k + 1 /\ tasks'[k] = tasks[k + 1]  BY <1>2
    <3>2. tasks[k + 1].timer \notin freed  BY <3>1 DEF TimerInv, TasksLive
    <3>3. ASSUME tasks[k + 1].timer = t PROVE FALSE
      <4>1. tasks[k + 1].op # "insert"  BY <1>2, <3>1, <3>3 DEF TimerInv, TaskOrder
      <4> QED  BY <2>2, <3>1, <3>3, <4>1 DEF TimerInv, TaskFacts
    <3> QED  BY <2>1, <3>1, <3>2, <3>3
  <2>7. AliveOK' /\ UnusedOK'  BY <1>1, <2>1 DEF TimerInv, AliveOK, UnusedOK
  <2>8. FreedOK'  BY <1>1, <2>1, <2>2 DEF TimerInv, FreedOK
  <2> QED  BY <1>2, <1>4, <1>5, <2>3, <2>4, <2>5, <2>6, <2>7, <2>8 DEF TimerInv
<1> QED  BY <1>6, <1>7

LEMMA RunTaskStep ==
  ASSUME TimerInv, RunTask
  PROVE  TimerInv'
<1> DEFINE t == tasks[1].timer
           op == tasks[1].op
<1>1. /\ pc = "events" /\ todo > 0 /\ tasks' = Tail(tasks) /\ todo' = todo - 1
      /\ UNCHANGED <<now, interval, is_expired, used, pc, deadline, woken, done_timer, current, asked>>
  BY DEF RunTask, NextTask, batch
<1>2. tasks # <<>> /\ todo \in 0..Len(tasks) /\ tasks \in Seq(Task) /\ Len(tasks) \in Nat
  <2>1. todo \in 0..Len(tasks)  BY DEF TimerInv, TypeOK
  <2> QED  BY <1>1, <2>1, TimerTypes
<1>3. /\ tasks' \in Seq(Task) /\ Len(tasks') = Len(tasks) - 1
      /\ Head(tasks) = tasks[1] /\ Head(tasks) \in Task /\ 1 \in 1..Len(tasks)
      /\ \A k \in 1..Len(tasks') :
           k + 1 \in 1..Len(tasks) /\ 1 < k + 1 /\ tasks'[k] = tasks[k + 1]
      /\ TaskOrder'
      /\ Arriving' = IF op = "insert" THEN Arriving \ {t} ELSE Arriving
  BY <1>1, <1>2, Taking DEF TimerInv
<1>4. todo' \in 0..Len(tasks') /\ (todo' > 0 => pc' = "events")
  BY <1>1, <1>2, <1>3
<1>5. LoopOK'  BY <1>1, <1>4 DEF TimerInv, LoopOK
<1>6. t \in Timers /\ t \in used /\ t \notin freed
  <2>1. t \in Timers  BY <1>3 DEF Task
  <2> QED  BY <1>1, <1>3, <2>1 DEF TimerInv, TaskFacts, TasksLive
<1>7. \/ op = "insert" /\ DoInsert(t)
      \/ op = "cancel" /\ Cancel(t) /\ UNCHANGED <<timestamp, is_in_queue>>
      \/ op = "refresh" /\ Refresh(t) /\ UNCHANGED <<is_alive, is_in_queue, freed, cancelled>>
  BY <1>3 DEF RunTask
<1>8. CASE op = "insert"
  BY <1>1, <1>2, <1>3, <1>4, <1>5, <1>6, <1>7, <1>8, DoInsertStep
<1>9. CASE op = "cancel"
  <2>1. t \in asked /\ asked' = asked \cup {t}
    BY <1>1, <1>3, <1>9 DEF TimerInv, TaskFacts
  <2>2. \A k \in 1..Len(tasks') : tasks'[k].timer # t
    BY <1>3, <1>9 DEF TimerInv, TaskOrder
  <2>3. Cancel(t) /\ UNCHANGED <<timestamp, is_in_queue>> /\ Arriving' = Arriving
    BY <1>3, <1>7, <1>9
  <2>4. \A k \in 1..Len(tasks') : \E j \in 1..Len(tasks) : tasks'[k] = tasks[j]  BY <1>3
  <2> HIDE DEF t, op
  <2> QED  BY <1>1, <1>3, <1>4, <1>5, <1>6, <2>1, <2>2, <2>3, <2>4, Cancelling
<1>10. CASE op = "refresh"
  <2>1. Refresh(t) /\ UNCHANGED <<is_alive, is_in_queue, freed, cancelled>> /\ Arriving' = Arriving
    BY <1>3, <1>7, <1>10
  <2>2. t \notin Arriving
    <3> SUFFICES ASSUME t \in Arriving PROVE FALSE  OBVIOUS
    <3>1. PICK k \in 1..Len(tasks) : tasks[k].op = "insert" /\ tasks[k].timer = t
      BY <1>2, ArrivingFacts
    <3>2. k # 1 /\ 1 < k  BY <1>2, <1>10, <3>1
    <3> QED  BY <1>3, <3>1, <3>2 DEF TimerInv, TaskOrder
  <2>3. InBatch = {}
    <3>1. done_timer = <<>> /\ current = None  BY <1>1 DEF TimerInv, LoopOK
    <3> QED  BY <3>1 DEF InBatch, Range
  <2>4. t \in Linked  BY <1>6, <2>2, <2>3 DEF TimerInv, Places
  <2>5. /\ timestamp' \in [Timers -> Nat] /\ timer_list' \in Seq(Timers)
        /\ min_timestamp' \in Nat /\ Linked' = Linked /\ ListOK' /\ SleepOK' /\ BatchDue'
    BY <1>1, <2>1, <2>4, Refreshing
  <2>6. TypeOK'  BY <1>1, <1>3, <1>4, <2>1, <2>5 DEF TimerInv, TypeOK
  <2>7. Places(Linked, InBatch, Arriving)' /\ BatchOK'
    <3>1. InBatch' = InBatch  BY <1>1 DEF InBatch
    <3> QED  BY <1>1, <2>1, <2>5, <3>1 DEF TimerInv, Places, BatchOK
  <2>8. TasksLive'  BY <1>1, <1>3, <2>1 DEF TimerInv, TasksLive
  <2>9. TaskFacts'  BY <1>1, <1>2, <2>1, TasksKept
  <2>10. AliveOK' /\ FreedOK' /\ UnusedOK'
    BY <1>1, <2>1 DEF TimerInv, AliveOK, FreedOK, UnusedOK
  <2> QED
    BY <1>3, <1>5, <2>5, <2>6, <2>7, <2>8, <2>9, <2>10 DEF TimerInv
<1> QED  BY <1>7, <1>8, <1>9, <1>10

\* The expired timers are unlinked and become the batch.
LEMMA TakeExpiredStep ==
  ASSUME TimerInv, TakeExpired
  PROVE  TimerInv'
<1> DEFINE k == Expired(now)
           front == SubSeq(timer_list, 1, k)
           rest == SubSeq(timer_list, k + 1, Len(timer_list))
<1>1. /\ pc = "process"
      /\ UNCHANGED <<now, timestamp, interval, is_alive, is_in_queue, used, freed, tasks,
                     deadline, woken, todo, current, asked, cancelled>>
      /\ IF k = 0
         THEN pc' = "top" /\ UNCHANGED <<timer_list, min_timestamp, is_expired, done_timer>>
         ELSE /\ done_timer' = front /\ timer_list' = rest
              /\ min_timestamp' = IF rest = <<>> THEN now ELSE timestamp[rest[1]]
              /\ is_expired' = [t \in Timers |-> is_expired[t] \/ t \in Range(front)]
              /\ pc' = "batch"
  BY DEF TakeExpired, memory, history, queue
<1>2. /\ now \in Nat /\ timestamp \in [Timers -> Nat] /\ timer_list \in Seq(Timers)
      /\ is_expired \in [Timers -> BOOLEAN] /\ done_timer = <<>> /\ current = None
  BY <1>1, TimerTypes DEF TimerInv, TypeOK, LoopOK
<1>3. k \in 0..Len(timer_list) /\ \A j \in 1..k : timestamp[timer_list[j]] <= now
  BY <1>2, ExpiredFacts
<1>4. CASE k = 0
  <2>1. pc' = "top" /\ UNCHANGED <<timer_list, min_timestamp, is_expired, done_timer>>
    BY <1>1, <1>4
  <2>2. TypeOK'  BY <1>1, <2>1 DEF TimerInv, TypeOK
  <2>3. SleepOK' /\ LoopOK'  BY <1>1, <1>2, <2>1 DEF TimerInv, SleepOK, LoopOK
  <2>4. now' \in Nat /\ now <= now'  BY <1>1, <1>2
  <2> QED
    BY <1>1, <2>1, <2>2, <2>3, <2>4, Quiet DEF queue, fields, memory, batch, history
<1>5. CASE k # 0
  <2>1. /\ done_timer' = front /\ timer_list' = rest
        /\ min_timestamp' = IF rest = <<>> THEN now ELSE timestamp[rest[1]]
        /\ is_expired' = [t \in Timers |-> is_expired[t] \/ t \in Range(front)]
        /\ pc' = "batch"
    BY <1>1, <1>5
  <2>2. /\ front \in Seq(Timers) /\ rest \in Seq(Timers)
        /\ InOrder(front, timestamp) /\ InOrder(rest, timestamp)
        /\ Range(front) \cup Range(rest) = Linked
        /\ Range(front) \cap Range(rest) = {}
        /\ Range(front) = {timer_list[j] : j \in 1..k}
    <3> HIDE DEF k
    <3>1. InOrder(timer_list, timestamp)  BY DEF TimerInv, ListOK
    <3> QED  BY <1>2, <1>3, <3>1, Splitting DEF Linked
  <2> HIDE DEF k, front, rest
  <2>3. min_timestamp' \in Nat /\ ListOK'
    <3>1. rest # <<>> => timestamp[rest[1]] \in Nat  BY <1>2, <2>2
    <3> QED  BY <1>1, <1>2, <2>1, <2>2, <3>1 DEF ListOK, MinOK
  <2>4. /\ is_expired' \in [Timers -> BOOLEAN]
        /\ \A t \in Timers : is_expired'[t] <=> is_expired[t] \/ t \in Range(front)
    <3>1. \A t \in Timers : (is_expired[t] \/ t \in Range(front)) \in BOOLEAN  OBVIOUS
    <3> QED  BY <2>1, <3>1
  <2>5. TypeOK'
    BY <1>1, <2>1, <2>2, <2>3, <2>4 DEF TimerInv, TypeOK
  <2>6. /\ Linked' = Range(rest) /\ InBatch' = Range(front) /\ Arriving' = Arriving
        /\ InBatch = {}
    BY <1>1, <1>2, <2>1 DEF Linked, InBatch, Arriving, Pending, Range
  <2>7. Places(Linked, InBatch, Arriving)'
    <3>1. Places(Linked, InBatch, Arriving) /\ Linked \subseteq Timers /\ Arriving \subseteq Timers
      BY TimerTypes DEF TimerInv, Arriving
    <3> QED  BY <1>1, <2>1, <2>2, <2>4, <2>6, <3>1 DEF Places
  <2>8. BatchOK'
    <3>1. None \notin Range(front)  BY <2>2, TimersOf, TimerAssumption
    <3> QED  BY <1>1, <1>2, <2>1, <2>2, <3>1 DEF BatchOK, InOrder
  <2>9. TasksLive' /\ TaskOrder' /\ TaskFacts'
    BY <1>1, <2>1 DEF TimerInv, TasksLive, TaskOrder, TaskFacts
  <2>10. AliveOK' /\ FreedOK'
    BY <1>1, <2>1 DEF TimerInv, AliveOK, FreedOK
  <2>11. UnusedOK'
    <3>1. Linked \subseteq used  BY DEF TimerInv, Places
    <3> QED  BY <1>1, <2>2, <2>4, <3>1 DEF TimerInv, UnusedOK
  <2>12. SleepOK' /\ LoopOK'  BY <1>1, <1>2, <2>1 DEF TimerInv, SleepOK, LoopOK
  <2>13. BatchDue'  BY <1>1, <1>3, <2>1, <2>2 DEF BatchDue
  <2> QED
    BY <2>3, <2>5, <2>7, <2>8, <2>9, <2>10, <2>11, <2>12, <2>13 DEF TimerInv
<1> QED  BY <1>4, <1>5

\* The first timer of the batch is taken.
LEMMA NextOfBatch ==
  ASSUME TimerInv, pc = "batch", done_timer # <<>>, done_timer' = Tail(done_timer)
  PROVE  /\ done_timer' \in Seq(Timers) /\ Head(done_timer) \in Timers
         /\ Range(done_timer) = Range(done_timer') \cup {Head(done_timer)}
         /\ Head(done_timer) \notin Range(done_timer')
         /\ \A j, k \in 1..Len(done_timer') : j < k => done_timer'[j] # done_timer'[k]
         /\ current = None /\ InBatch = Range(done_timer)
<1> DEFINE d == done_timer
           h == Head(d)
           n == Len(d)
<1>1. d \in Seq(Timers)  BY TimerTypes
<1>2. /\ done_timer' \in Seq(Timers) /\ n \in Nat /\ Len(done_timer') = n - 1
      /\ h = d[1] /\ 1 \in 1..n /\ h \in Timers
      /\ \A j \in 1..(n - 1) : done_timer'[j] = d[j + 1]
  BY <1>1
<1>3. \A j \in 1..(n - 1) : j + 1 \in 1..n /\ 1 < j + 1  BY <1>2
<1>4. \A j, k \in 1..n : j < k => d[j] # d[k]  BY DEF TimerInv, BatchOK
<1>5. /\ \A x \in Range(d) : \E j \in 1..n : d[j] = x
      /\ \A j \in 1..n : d[j] \in Range(d)
      /\ \A x \in Range(done_timer') : \E j \in 1..Len(done_timer') : done_timer'[j] = x
      /\ \A j \in 1..Len(done_timer') : done_timer'[j] \in Range(done_timer')
  BY <1>1, <1>2, TimersOf
<1>6. \A x \in Range(done_timer') : x \in Range(d) /\ x # h
  <2> TAKE x \in Range(done_timer')
  <2>1. PICK j \in 1..(n - 1) : done_timer'[j] = x  BY <1>2, <1>5
  <2> QED  BY <1>2, <1>3, <1>4, <1>5, <2>1
<1>7. \A x \in Range(d) : x = h \/ x \in Range(done_timer')
  <2> TAKE x \in Range(d)
  <2>1. PICK j \in 1..n : d[j] = x  BY <1>5
  <2>2. CASE j = 1  BY <1>2, <2>1, <2>2
  <2>3. CASE j # 1
    <3>1. j - 1 \in 1..(n - 1) /\ (j - 1) + 1 = j  BY <1>2, <2>3
    <3>2. done_timer'[j - 1] = x  BY <1>2, <2>1, <3>1
    <3> QED  BY <1>2, <1>5, <3>1, <3>2
  <2> QED  BY <2>2, <2>3
<1>8. \A j, k \in 1..(n - 1) : j < k => done_timer'[j] # done_timer'[k]
  <2> SUFFICES ASSUME NEW j \in 1..(n - 1), NEW k \in 1..(n - 1), j < k
               PROVE  done_timer'[j] # done_timer'[k]
    OBVIOUS
  <2>1. j + 1 \in 1..n /\ k + 1 \in 1..n /\ j + 1 < k + 1  BY <1>2
  <2> QED  BY <1>2, <1>4, <2>1
<1>9. h \in Range(d)  BY <1>2, <1>5
<1>10. current = None /\ InBatch = Range(d)  BY DEF TimerInv, LoopOK, InBatch
<1> QED  BY <1>2, <1>6, <1>7, <1>8, <1>9, <1>10

LEMMA CallStep ==
  ASSUME TimerInv, Call
  PROVE  TimerInv'
<1>1. /\ pc = "batch" /\ done_timer # <<>> /\ done_timer' = Tail(done_timer)
      /\ current' = Head(done_timer) /\ pc' = "call"
      /\ UNCHANGED <<now, timer_list, min_timestamp, timestamp, interval, is_alive, is_expired,
                     is_in_queue, used, freed, tasks, deadline, woken, todo, asked, cancelled>>
  BY DEF Call, queue, fields, memory, history
<1>2. /\ done_timer' \in Seq(Timers) /\ Head(done_timer) \in Timers
      /\ Range(done_timer) = Range(done_timer') \cup {Head(done_timer)}
      /\ Head(done_timer) \notin Range(done_timer')
      /\ \A j, k \in 1..Len(done_timer') : j < k => done_timer'[j] # done_timer'[k]
      /\ current = None /\ InBatch = Range(done_timer)
  BY <1>1, NextOfBatch
<1>3. current' # None  BY <1>1, <1>2, TimerAssumption
<1>4. TypeOK'  BY <1>1, <1>2 DEF TimerInv, TypeOK
<1>5. Linked' = Linked /\ InBatch' = InBatch /\ Arriving' = Arriving
  BY <1>1, <1>2, <1>3 DEF Linked, InBatch, Arriving, Pending
<1>6. Places(Linked, InBatch, Arriving)'  BY <1>1, <1>5 DEF TimerInv, Places
<1>7. BatchOK' /\ BatchDue'  BY <1>1, <1>2 DEF TimerInv, BatchOK, BatchDue
<1>8. TasksLive' /\ TaskOrder' /\ TaskFacts'
  BY <1>1 DEF TimerInv, TasksLive, TaskOrder, TaskFacts
<1>9. ListOK' /\ SleepOK' /\ AliveOK' /\ FreedOK' /\ UnusedOK'
  BY <1>1 DEF TimerInv, ListOK, SleepOK, AliveOK, FreedOK, UnusedOK
<1>10. LoopOK'  BY <1>1, <1>3 DEF TimerInv, LoopOK
<1> QED  BY <1>4, <1>6, <1>7, <1>8, <1>9, <1>10 DEF TimerInv

\* No task refers to a timer of the batch that will not be linked again.
LEMMA Forgotten ==
  ASSUME TimerInv, NEW t \in InBatch, ~(is_alive[t] /\ interval[t] # 0)
  PROVE  /\ \A k \in 1..Len(tasks) : tasks[k].timer # t
         /\ interval[t] = 0 \/ t \in cancelled
<1>1. t \in used /\ t \notin Arriving  BY DEF TimerInv, Places
<1>2. interval[t] = 0 \/ t \in cancelled  BY <1>1 DEF TimerInv, AliveOK
<1>3. ASSUME NEW k \in 1..Len(tasks), tasks[k].timer = t PROVE FALSE
  <2>1. tasks[k].op # "insert"  BY <1>1, <1>3, TimerTypes, InsertWaits
  <2> QED  BY <1>2, <1>3, <2>1 DEF TimerInv, TaskFacts
<1> QED  BY <1>2, <1>3

LEMMA SkipStep ==
  ASSUME TimerInv, Skip
  PROVE  TimerInv'
<1> DEFINE h == Head(done_timer)
<1>1. /\ pc = "batch" /\ done_timer # <<>> /\ ~is_alive[h] /\ done_timer' = Tail(done_timer)
      /\ freed' = freed \cup {h}
      /\ UNCHANGED <<now, timer_list, min_timestamp, timestamp, interval, is_alive, is_expired,
                     is_in_queue, used, tasks, pc, deadline, woken, todo, current, asked, cancelled>>
  BY DEF Skip, queue, fields, loop, history
<1>2. /\ done_timer' \in Seq(Timers) /\ h \in Timers
      /\ Range(done_timer) = Range(done_timer') \cup {h}
      /\ h \notin Range(done_timer')
      /\ \A j, k \in 1..Len(done_timer') : j < k => done_timer'[j] # done_timer'[k]
      /\ current = None /\ InBatch = Range(done_timer)
  BY <1>1, NextOfBatch
<1> HIDE DEF h
<1>3. /\ \A k \in 1..Len(tasks) : tasks[k].timer # h
      /\ interval[h] = 0 \/ h \in cancelled
      /\ h \in InBatch
  BY <1>1, <1>2, Forgotten
<1>4. TypeOK'
  <2>1. freed' \subseteq used'  BY <1>1, <1>3 DEF TimerInv, TypeOK, Places
  <2> QED  BY <1>1, <1>2, <2>1 DEF TimerInv, TypeOK
<1>5. Linked' = Linked /\ InBatch' = InBatch \ {h} /\ Arriving' = Arriving
  BY <1>1, <1>2 DEF Linked, InBatch, Arriving, Pending
<1>6. Places(Linked, InBatch, Arriving)'
  <2>1. Places(Linked, InBatch, Arriving)  BY DEF TimerInv
  <2> QED  BY <1>1, <1>3, <1>5, <2>1 DEF Places
<1>7. BatchOK' /\ BatchDue'
  <2>1. current \notin Range(done_timer)  BY DEF TimerInv, BatchOK
  <2> QED  BY <1>1, <1>2, <2>1 DEF TimerInv, BatchOK, BatchDue
<1>8. TasksLive' /\ TaskOrder' /\ TaskFacts'
  BY <1>1, <1>3 DEF TimerInv, TasksLive, TaskOrder, TaskFacts
<1>9. ListOK' /\ SleepOK' /\ AliveOK' /\ UnusedOK'
  BY <1>1 DEF TimerInv, ListOK, SleepOK, AliveOK, UnusedOK
<1>10. FreedOK'  BY <1>1, <1>3 DEF TimerInv, FreedOK
<1>11. LoopOK'  BY <1>1 DEF TimerInv, LoopOK
<1> QED  BY <1>4, <1>6, <1>7, <1>8, <1>9, <1>10, <1>11 DEF TimerInv

\* The callback has returned: its timer is linked again or freed.
LEMMA CallReturnStep ==
  ASSUME TimerInv, CallReturn
  PROVE  TimerInv'
<1> DEFINE c == current
           q == InsertTimer(timer_list, min_timestamp, timestamp', c)
<1>1. /\ pc = "call" /\ current' = None /\ pc' = "batch"
      /\ UNCHANGED <<now, interval, is_alive, used, tasks, deadline, woken, todo, done_timer,
                     asked, cancelled>>
      /\ IF is_alive[c] /\ interval[c] # 0
         THEN /\ timestamp' = [timestamp EXCEPT ![c] = timestamp[c] + interval[c]]
              /\ is_expired' = [is_expired EXCEPT ![c] = FALSE]
              /\ is_in_queue' = [is_in_queue EXCEPT ![c] = TRUE]
              /\ timer_list' = q.list /\ min_timestamp' = q.min /\ freed' = freed
         ELSE /\ freed' = freed \cup {c}
              /\ UNCHANGED <<timer_list, min_timestamp, timestamp, is_expired, is_in_queue>>
  BY DEF CallReturn, SetQueue, queue, history
<1>2. c # None /\ c \in Timers
  BY <1>1 DEF TimerInv, TypeOK, LoopOK
<1>3. /\ InBatch = Range(done_timer) \cup {c} /\ InBatch' = Range(done_timer)
      /\ c \notin Range(done_timer) /\ Arriving' = Arriving
  BY <1>1, <1>2 DEF TimerInv, BatchOK, InBatch, Arriving, Pending
<1>4. /\ min_timestamp \in Nat /\ timestamp \in [Timers -> Nat] /\ interval \in [Timers -> Nat]
      /\ timer_list \in Seq(Timers) /\ used \subseteq Timers /\ freed \subseteq used
      /\ is_in_queue \in [Timers -> BOOLEAN] /\ is_expired \in [Timers -> BOOLEAN]
      /\ Linked \subseteq Timers /\ Arriving \subseteq Timers
      /\ Range(done_timer) \subseteq Timers
  BY TimerTypes, TimersOf DEF TimerInv, TypeOK, Arriving
<1>5. c \notin Linked /\ c \notin Arriving /\ c \notin freed /\ c \in used
  BY <1>3 DEF TimerInv, Places
<1>6. BatchOK' /\ LoopOK' /\ SleepOK'
  <2>1. None \notin Range(done_timer)  BY <1>4, TimerAssumption
  <2> QED  BY <1>1, <2>1 DEF TimerInv, BatchOK, LoopOK, SleepOK
<1>7. TaskOrder' /\ TaskFacts'  BY <1>1 DEF TimerInv, TaskOrder, TaskFacts
<1>8. CASE is_alive[c] /\ interval[c] # 0
  <2>1. /\ timestamp' = [timestamp EXCEPT ![c] = timestamp[c] + interval[c]]
        /\ is_expired' = [is_expired EXCEPT ![c] = FALSE]
        /\ is_in_queue' = [is_in_queue EXCEPT ![c] = TRUE]
        /\ timer_list' = q.list /\ min_timestamp' = q.min /\ freed' = freed
    BY <1>1, <1>8
  <2>2. timestamp' \in [Timers -> Nat] /\ \A u \in Timers \ {c} : timestamp'[u] = timestamp[u]
    <3>1. timestamp[c] + interval[c] \in Nat  BY <1>2, <1>4
    <3> QED  BY <1>2, <1>4, <2>1, <3>1
  <2>3. /\ is_expired' \in [Timers -> BOOLEAN] /\ is_in_queue' \in [Timers -> BOOLEAN]
        /\ ~is_expired'[c] /\ is_in_queue'[c]
        /\ \A u \in Timers \ {c} : is_expired'[u] = is_expired[u] /\ is_in_queue'[u] = is_in_queue[u]
    BY <1>2, <1>4, <2>1
  <2>4. /\ q.list \in Seq(Timers) /\ q.min \in Nat
        /\ Range(q.list) = Range(timer_list) \cup {c}
        /\ InOrder(q.list, timestamp') /\ MinOK(q.list, q.min, timestamp')
    <3>1. \A u \in Range(timer_list) : timestamp'[u] = timestamp[u]
      BY <1>4, <1>5, <2>2 DEF Linked
    <3>2. InOrder(timer_list, timestamp') /\ MinOK(timer_list, min_timestamp, timestamp')
      BY <1>4, <3>1, OrderKept DEF TimerInv, ListOK
    <3> HIDE DEF c
    <3> QED  BY <1>2, <1>4, <1>5, <2>2, <3>2, Inserting DEF Linked
  <2> HIDE DEF q
  <2>5. timer_list' \in Seq(Timers) /\ min_timestamp' \in Nat /\ Linked' = Linked \cup {c} /\ ListOK'
    BY <2>1, <2>4 DEF Linked, ListOK
  <2>6. TypeOK'  BY <1>1, <2>1, <2>2, <2>3, <2>5 DEF TimerInv, TypeOK
  <2>7. Places(Linked, InBatch, Arriving)'
    <3>1. Places(Linked, InBatch, Arriving)  BY DEF TimerInv
    <3> HIDE DEF c
    <3> QED  BY <1>1, <1>3, <1>4, <1>5, <1>8, <2>1, <2>3, <2>5, <3>1 DEF Places
  <2>8. TasksLive' /\ FreedOK' /\ AliveOK'
    BY <1>1, <2>1 DEF TimerInv, TasksLive, FreedOK, AliveOK
  <2>9. UnusedOK'  BY <1>1, <1>5, <2>3 DEF TimerInv, UnusedOK
  <2>10. BatchDue'
    BY <1>1, <1>3, <1>4, <2>2 DEF TimerInv, BatchDue
  <2> QED
    BY <1>6, <1>7, <2>5, <2>6, <2>7, <2>8, <2>9, <2>10 DEF TimerInv
<1>9. CASE ~(is_alive[c] /\ interval[c] # 0)
  <2>1. freed' = freed \cup {c}
        /\ UNCHANGED <<timer_list, min_timestamp, timestamp, is_expired, is_in_queue>>
    BY <1>1, <1>9
  <2>2. /\ \A k \in 1..Len(tasks) : tasks[k].timer # c
        /\ interval[c] = 0 \/ c \in cancelled
    <3>1. c \in InBatch  BY <1>3
    <3> HIDE DEF c
    <3> QED  BY <1>9, <3>1, Forgotten
  <2>3. TypeOK'
    <3>1. freed' \subseteq used'  BY <1>1, <1>4, <1>5, <2>1
    <3> QED  BY <1>1, <2>1, <3>1 DEF TimerInv, TypeOK
  <2>4. Places(Linked, InBatch, Arriving)'
    <3>1. Places(Linked, InBatch, Arriving) /\ Linked' = Linked  BY <2>1 DEF TimerInv, Linked
    <3> HIDE DEF c
    <3> QED  BY <1>1, <1>3, <1>5, <2>1, <3>1 DEF Places
  <2>5. TasksLive'  BY <1>1, <2>1, <2>2 DEF TimerInv, TasksLive
  <2>6. FreedOK'  BY <1>1, <2>1, <2>2 DEF TimerInv, FreedOK
  <2>7. ListOK' /\ AliveOK' /\ UnusedOK' /\ BatchDue'
    BY <1>1, <2>1 DEF TimerInv, ListOK, AliveOK, UnusedOK, BatchDue
  <2> QED  BY <1>6, <1>7, <2>3, <2>4, <2>5, <2>6, <2>7 DEF TimerInv
<1> QED  BY <1>8, <1>9

\* loop_destroy frees the timers of the list.
LEMMA DestroyStep ==
  ASSUME TimerInv, Destroy
  PROVE  TimerInv'
<1>1. /\ pc = "top" /\ freed' = freed \cup Linked /\ timer_list' = <<>> /\ pc' = "destroyed"
      /\ UNCHANGED <<now, min_timestamp, timestamp, interval, is_alive, is_expired, is_in_queue,
                     used, tasks, deadline, woken, todo, done_timer, current, asked, cancelled>>
  BY DEF Destroy, Linked, fields, batch, history
<1>2. /\ Linked \subseteq used /\ freed \subseteq used  BY TimerTypes DEF TimerInv, Places
<1>3. /\ Linked' = {} /\ InBatch' = InBatch /\ Arriving' = Arriving /\ InBatch = {}
  <2>1. done_timer = <<>> /\ current = None  BY <1>1 DEF TimerInv, LoopOK
  <2> QED  BY <1>1, <2>1 DEF Linked, InBatch, Arriving, Pending, Range
<1>4. TypeOK'
  <2>1. freed' \subseteq used' /\ timer_list' \in Seq(Timers)  BY <1>1, <1>2
  <2> QED  BY <1>1, <2>1 DEF TimerInv, TypeOK
<1>5. Places(Linked, InBatch, Arriving)'
  <2>1. Places(Linked, InBatch, Arriving)  BY DEF TimerInv
  <2> HIDE DEF Linked, InBatch, Arriving
  <2> QED  BY <1>1, <1>3, <2>1 DEF Places
<1>6. BatchOK' /\ LoopOK' /\ BatchDue'  BY <1>1 DEF TimerInv, BatchOK, LoopOK, BatchDue
<1>7. TasksLive' /\ TaskOrder' /\ TaskFacts'
  BY <1>1 DEF TimerInv, TasksLive, TaskOrder, TaskFacts
<1>8. ListOK' /\ SleepOK'  BY <1>1 DEF ListOK, SleepOK, InOrder, MinOK
<1>9. AliveOK' /\ FreedOK' /\ UnusedOK'
  BY <1>1 DEF TimerInv, AliveOK, FreedOK, UnusedOK
<1> QED  BY <1>4, <1>5, <1>6, <1>7, <1>8, <1>9 DEF TimerInv

-----------------------------------------------------------------------------
(* The theorems *)

LEMMA TimerInit ==
  ASSUME Init
  PROVE  TimerInv
<1>1. TypeOK
  <2>1. timer_list \in Seq(Timers) /\ done_timer \in Seq(Timers) /\ tasks \in Seq(Task)
        /\ todo \in 0..Len(tasks)
    BY DEF Init
  <2>2. woken \in BOOLEAN  BY Zenon DEF Init
  <2> QED  BY <2>1, <2>2, TimerAssumption DEF Init, TypeOK
<1>2. Linked = {} /\ InBatch = {} /\ Arriving = {}
  BY DEF Init, Linked, InBatch, Arriving, Pending, Range
<1>3. Places(Linked, InBatch, Arriving)
  <2> HIDE DEF Linked, InBatch, Arriving
  <2> QED  BY <1>2 DEF Init, Places
<1>4. BatchOK /\ BatchDue  BY DEF Init, BatchOK, BatchDue, Range
<1>5. TasksLive /\ TaskOrder /\ TaskFacts  BY DEF Init, TasksLive, TaskOrder, TaskFacts
<1>6. ListOK /\ SleepOK  BY DEF Init, ListOK, SleepOK, InOrder, MinOK
<1>7. AliveOK /\ FreedOK /\ UnusedOK /\ LoopOK
  BY DEF Init, AliveOK, FreedOK, UnusedOK, LoopOK
<1> QED  BY <1>1, <1>3, <1>4, <1>5, <1>6, <1>7 DEF TimerInv

\* Every step of the loop's thread and of its callers keeps the invariant.
LEMMA TimerStep ==
  ASSUME TimerInv, [Next]_vars
  PROVE  TimerInv'
<1>1. ASSUME NEW t \in Timers, ClientStep(t) PROVE TimerInv'
  <2>1. ASSUME NEW d \in Intervals, NEW start \in 0..now,
               ClientAdd(t, start, d, 0) \/ ClientAdd(t, start, d, d)
        PROVE  TimerInv'
    <3>1. d \in Nat /\ start \in Nat /\ 0 \in Nat  BY TimerAssumption
    <3> QED  BY <2>1, <3>1, ClientAddStep
  <2> QED  BY <1>1, <2>1, ClientCancelStep, ClientRefreshStep DEF ClientStep
<1>2. ASSUME NEW t \in Timers, CallbackStep(t) PROVE TimerInv'
  <2>1. ASSUME NEW d \in Intervals, LoopAdd(t, d, 0) \/ LoopAdd(t, d, d) PROVE TimerInv'
    <3>1. d \in Nat /\ 0 \in Nat  BY TimerAssumption
    <3> QED  BY <2>1, <3>1, LoopAddStep
  <2> QED  BY <1>2, <2>1, LoopCancelStep, LoopRefreshStep DEF CallbackStep
<1>3. ASSUME LoopStep PROVE TimerInv'
  BY <1>3, WaitStep, ReturnStep, TakeTasksStep, RunTaskStep, EndEventsStep, TakeExpiredStep,
     CallStep, SkipStep, CallReturnStep, EndBatchStep
  DEF LoopStep
<1>4. CASE UNCHANGED vars
  <2>1. UNCHANGED <<now, queue, fields, memory, tasks, loop, batch, history>>  BY <1>4 DEF vars
  <2>2. UNCHANGED <<now, timer_list, min_timestamp, timestamp, interval, is_alive, is_expired,
                    is_in_queue, used, freed, tasks, pc, deadline, woken, todo, done_timer,
                    current, asked, cancelled>>
    BY <2>1 DEF queue, fields, memory, loop, batch, history
  <2>3. Linked' = Linked /\ InBatch' = InBatch /\ Arriving' = Arriving
    BY <2>2 DEF Linked, InBatch, Arriving, Pending
  <2>4. TypeOK' /\ Places(Linked, InBatch, Arriving)' /\ BatchOK' /\ TasksLive'
    BY <2>2, <2>3 DEF TimerInv, TypeOK, Places, BatchOK, TasksLive
  <2>5. ListOK' /\ SleepOK' /\ TaskOrder' /\ TaskFacts'
    BY <2>2 DEF TimerInv, ListOK, SleepOK, TaskOrder, TaskFacts
  <2>6. AliveOK' /\ FreedOK' /\ UnusedOK' /\ LoopOK' /\ BatchDue'
    BY <2>2 DEF TimerInv, AliveOK, FreedOK, UnusedOK, LoopOK, BatchDue
  <2> QED  BY <2>4, <2>5, <2>6 DEF TimerInv
<1> QED  BY <1>1, <1>2, <1>3, <1>4, TickStep, DestroyStep DEF Next

\* The invariant of the timers holds in every state of the loop.
THEOREM TimerInvariance == Spec => []TimerInv
<1>1. Init => TimerInv  BY TimerInit
<1>2. TimerInv /\ [Next]_vars => TimerInv'  BY TimerStep
<1> QED  BY <1>1, <1>2, PTL DEF Spec

\* Whatever threads and callbacks add, cancel and refresh, a timer is in one
\* place, its flags say in which, and no task refers to a freed one.
THEOREM TimerInOnePlace == Spec => []OnePlace
<1>1. TimerInv => OnePlace
  BY DEF TimerInv, Places, BatchOK, TasksLive, OnePlace
<1> QED  BY <1>1, TimerInvariance, PTL

\* The list stays in order, the minimum the wait is computed from is the first
\* timer's, and epoll_wait never sleeps past it.
THEOREM NeverOversleeps == Spec => []NoOversleep
<1>1. TimerInv => NoOversleep
  BY DEF TimerInv, ListOK, SleepOK, InOrder, MinOK, NoOversleep, Sorted
<1> QED  BY <1>1, TimerInvariance, PTL

\* timer_queue_process_inloop never begins the callback of a timer whose
\* cancel was carried out, nor that of a timer that is not due.
THEOREM CancelledNeverCalled == Spec => CancelledSilent
<1> DEFINE Silent == current' # current /\ current' # None =>
                       current' \notin cancelled /\ timestamp[current'] <= now
<1>1. ASSUME TimerInv, [Next]_vars PROVE Silent
  <2>1. CASE Call
    <3> DEFINE h == Head(done_timer)
    <3>1. pc = "batch" /\ done_timer # <<>> /\ is_alive[h] /\ current' = h
      BY <2>1 DEF Call
    <3>2. done_timer \in Seq(Timers)  BY <1>1, TimerTypes
    <3>3. 1 \in 1..Len(done_timer) /\ h = done_timer[1]  BY <3>1, <3>2
    <3>4. h \in Range(done_timer)  BY <3>2, <3>3, TimersOf
    <3> HIDE DEF h
    <3>5. h \notin freed  BY <1>1, <3>4 DEF TimerInv, Places, InBatch
    <3> QED  BY <1>1, <3>1, <3>4, <3>5 DEF TimerInv, AliveOK, BatchDue
  <2>2. CASE CallReturn  BY <2>2 DEF CallReturn
  <2>3. ASSUME NEW t \in Timers, ClientStep(t) \/ CallbackStep(t) PROVE current' = current
    BY <2>3 DEF ClientStep, ClientAdd, ClientCancel, ClientRefresh, CallbackStep, LoopAdd,
                LoopCancel, LoopRefresh, batch
  <2>4. CASE \/ Tick \/ Wait \/ Return \/ TakeTasks \/ RunTask \/ EndEvents \/ TakeExpired
             \/ Skip \/ EndBatch \/ Destroy \/ UNCHANGED vars
    BY <2>4 DEF Tick, Wait, Return, TakeTasks, RunTask, EndEvents, TakeExpired, Skip,
                EndBatch, Destroy, vars, batch
  <2> QED  BY <1>1, <2>1, <2>2, <2>3, <2>4 DEF Next, LoopStep
<1>2. TimerInv /\ [Next]_vars => [Silent]_vars  BY <1>1
<1> QED  BY <1>2, TimerInvariance, PTL DEF Spec, CancelledSilent

==============================================================================
