-------------------------- MODULE ThreadPool_proofs --------------------------
(***************************************************************************)
(* Proofs about ThreadPool for any finite set of workers, any clients and  *)
(* any number of jobs and pauses.                                          *)
(***************************************************************************)
EXTENDS ThreadPool, SequenceTheorems, FiniteSetTheorems, TLAPS

-----------------------------------------------------------------------------
(* Lemmas about the helpers *)

\* Asking for a lock leads from one label to the section behind it.
LEMMA LockCases ==
  ASSUME NEW w \in Workers, Lock(w)
  PROVE  /\ UNCHANGED <<queue, sem, cur, counters, signals, history>>
         /\ \E m \in Mutexes : owner' = [owner EXCEPT ![m] = w]
         /\ \/ pc[w] = "start" /\ pc' = [pc EXCEPT ![w] = "alive"]
            \/ pc[w] = "sem" /\ pc' = [pc EXCEPT ![w] = "take"]
            \/ pc[w] = "inc" /\ pc' = [pc EXCEPT ![w] = "working"]
            \/ pc[w] = "pull" /\ pc' = [pc EXCEPT ![w] = "pulling"]
            \/ pc[w] = "post" /\ pc' = [pc EXCEPT ![w] = "posting"]
            \/ pc[w] = "dec" /\ pc' = [pc EXCEPT ![w] = "finish"]
            \/ pc[w] = "exit" /\ pc' = [pc EXCEPT ![w] = "leave"]
<1>1. DOMAIN LockAt = {"start", "sem", "inc", "pull", "post", "dec", "exit"}
  BY DEF LockAt
<1>2. \A l \in DOMAIN LockAt : LockAt[l] \in Mutexes
  BY DEF LockAt, Mutexes
<1>3. /\ Section["start"] = "alive" /\ Section["sem"] = "take"
      /\ Section["inc"] = "working" /\ Section["pull"] = "pulling"
      /\ Section["post"] = "posting" /\ Section["dec"] = "finish"
      /\ Section["exit"] = "leave"
  BY DEF Section
<1> QED
  BY <1>1, <1>2, <1>3 DEF Lock, Goto

\* A signal wakes at most one thread, one that slept.
LEMMA SignalCases ==
  ASSUME NEW p, NEW s, NEW l, NEW r \in Signal(p, s, l)
  PROVE  r = p \/ \E t \in Threads : p[t] = s /\ r = [p EXCEPT ![t] = l]
BY DEF Signal

\* bsem_post moves the poster on and wakes at most sleepers of bsem_wait;
\* the end of a job does the same for those of thpool_wait.
LEMMA PostEffect ==
  ASSUME TypeOK, NEW t \in Threads, NEW l \in {"pulled", "idle"}, Up(t, l)
  PROVE  /\ pc' \in [Threads -> WorkerLabels \cup ClientLabels]
         /\ pc'[t] = l
         /\ \A u \in Threads \ {t} :
              pc'[u] = pc[u] \/ (pc[u] = "sleep" /\ pc'[u] = "sem")
<1>1. pc \in [Threads -> WorkerLabels \cup ClientLabels]
  BY DEF TypeOK
<1> DEFINE p == [pc EXCEPT ![t] = l]
<1>2. pc' \in Signal(p, "sleep", "sem")
  BY DEF Up
<1>3. pc' = p \/ \E u \in Threads : p[u] = "sleep" /\ pc' = [p EXCEPT ![u] = "sem"]
  BY <1>2, SignalCases
<1>4. /\ p \in [Threads -> WorkerLabels \cup ClientLabels] /\ p[t] = l
      /\ \A u \in Threads \ {t} : p[u] = pc[u]
  BY <1>1 DEF WorkerLabels, ClientLabels
<1> HIDE DEF p
<1>5. ASSUME NEW u \in Threads, p[u] = "sleep", pc' = [p EXCEPT ![u] = "sem"]
      PROVE  /\ pc' \in [Threads -> WorkerLabels \cup ClientLabels]
             /\ u # t /\ pc'[u] = "sem"
             /\ \A r \in Threads \ {u} : pc'[r] = p[r]
  BY <1>4, <1>5 DEF WorkerLabels
<1> QED
  BY <1>3, <1>4, <1>5

\* While one sleeps, bsem_post has sent another to try the semaphore.
LEMMA PostWakes ==
  ASSUME TypeOK, NEW t \in Threads, NEW l \in {"pulled", "idle"}, Up(t, l),
         NEW v \in Workers, pc'[v] = "sleep"
  PROVE  \E u \in Workers : pc'[u] = "sem"
<1> DEFINE p == [pc EXCEPT ![t] = l]
           S == {u \in Threads : p[u] = "sleep"}
<1>1. pc' \in IF S = {} THEN {p} ELSE {[p EXCEPT ![u] = "sem"] : u \in S}
  BY DEF Up, Signal
<1>2. S \subseteq Workers
  BY DEF TypeOK, Threads, ClientLabels
<1>3. S # {}
  BY <1>1 DEF Threads
<1>4. PICK u \in S : pc' = [p EXCEPT ![u] = "sem"]
  BY <1>1, <1>3
<1>5. pc'[u] = "sem"
  BY <1>4 DEF TypeOK
<1> QED
  BY <1>2, <1>5

LEMMA FinishEffect ==
  ASSUME TypeOK, NEW w \in Workers, Finish(w)
  PROVE  /\ pc' \in [Threads -> WorkerLabels \cup ClientLabels]
         /\ pc'[w] = "loop"
         /\ \A u \in Threads \ {w} :
              pc'[u] = pc[u] \/ (pc[u] = "asleep" /\ pc'[u] = "wait")
<1>1. pc \in [Threads -> WorkerLabels \cup ClientLabels] /\ w \in Threads
  BY DEF TypeOK, Threads
<1> DEFINE p == [pc EXCEPT ![w] = "loop"]
<1>2. pc' = p \/ pc' \in Signal(p, "asleep", "wait")
  BY DEF Finish
<1>3. pc' = p \/ \E u \in Threads : p[u] = "asleep" /\ pc' = [p EXCEPT ![u] = "wait"]
  BY <1>2, SignalCases
<1>4. /\ p \in [Threads -> WorkerLabels \cup ClientLabels] /\ p[w] = "loop"
      /\ \A u \in Threads \ {w} : p[u] = pc[u]
  BY <1>1 DEF WorkerLabels
<1> HIDE DEF p
<1>5. ASSUME NEW u \in Threads, p[u] = "asleep", pc' = [p EXCEPT ![u] = "wait"]
      PROVE  /\ pc' \in [Threads -> WorkerLabels \cup ClientLabels]
             /\ u # w /\ pc'[u] = "wait"
             /\ \A r \in Threads \ {u} : pc'[r] = p[r]
  BY <1>4, <1>5 DEF ClientLabels
<1> QED
  BY <1>1, <1>3, <1>4, <1>5

\* The counter follows the set of busy workers.
LEMMA BusyKept ==
  ASSUME WorkingCount, UNCHANGED working,
         \A w \in Workers : (Busy(w)' <=> Busy(w))
  PROVE  WorkingCount'
<1>1. {w \in Workers : Busy(w)'} = {w \in Workers : Busy(w)}
  OBVIOUS
<1> QED
  BY <1>1 DEF WorkingCount

LEMMA BusyMore ==
  ASSUME WorkingCount, NEW v \in Workers, ~Busy(v), Busy(v)', working' = working + 1,
         \A w \in Workers : w # v => (Busy(w)' <=> Busy(w))
  PROVE  WorkingCount'
<1> DEFINE B == {w \in Workers : Busy(w)}
<1>1. {w \in Workers : Busy(w)'} = B \cup {v}
  OBVIOUS
<1>2. IsFiniteSet(B) /\ v \notin B
  BY PoolAssumption, FS_Subset
<1>3. Cardinality(B \cup {v}) = Cardinality(B) + 1
  BY <1>2, FS_AddElement
<1> QED
  BY <1>1, <1>3 DEF WorkingCount

LEMMA BusyLess ==
  ASSUME WorkingCount, NEW v \in Workers, Busy(v), ~Busy(v)', working' = working - 1,
         \A w \in Workers : w # v => (Busy(w)' <=> Busy(w))
  PROVE  WorkingCount'
<1> DEFINE B == {w \in Workers : Busy(w)}
<1>1. {w \in Workers : Busy(w)'} = B \ {v}
  OBVIOUS
<1>2. IsFiniteSet(B) /\ v \in B
  BY PoolAssumption, FS_Subset
<1>3. Cardinality(B \ {v}) = Cardinality(B) - 1
  BY <1>2, FS_RemoveElement
<1> QED
  BY <1>1, <1>3 DEF WorkingCount

\* A step that touches no job keeps everything said about jobs.
LEMMA JobsKept ==
  ASSUME PoolInv, UNCHANGED <<queue, cur, added, done, freed>>
  PROVE  QueueOrder' /\ JobPlaces'
BY DEF PoolInv, QueueOrder, JobPlaces

-----------------------------------------------------------------------------
(* The invariant *)

\* A new pool.
LEMMA InitPoolInv == Init => PoolInv
<1> SUFFICES ASSUME Init PROVE PoolInv
  OBVIOUS
<1> USE PoolAssumption
<1>1. TypeOK
  <2>1. /\ pc \in [Threads -> WorkerLabels \cup ClientLabels]
        /\ \A w \in Workers : pc[w] \in WorkerLabels
        /\ \A c \in Clients : pc[c] \in ClientLabels
    BY DEF Init, Threads, WorkerLabels, ClientLabels
  <2>2. queue \in Seq(Jobs)
    BY EmptySeq DEF Init
  <2>3. /\ sem \in {0, 1} /\ alive \in Int /\ working \in Int
        /\ pauses \in 0..MaxPauses /\ added \in 0..MaxJobs
        /\ owner \in [Mutexes -> Threads \cup {None}]
        /\ cur \in [Workers -> Jobs \cup {0}]
    BY DEF Init
  <2> QED
    BY <2>1, <2>2, <2>3 DEF Init, TypeOK
<1>2. WorkingCount
  <2>1. {w \in Workers : Busy(w)} = {}
    BY DEF Init, Busy, Threads
  <2> QED
    BY <2>1, FS_EmptySet DEF Init, WorkingCount
<1>3. QueueOrder /\ JobInHand /\ JobPlaces /\ Quiet
  BY DEF Init, QueueOrder, JobInHand, JobPlaces, Quiet, Threads
<1> QED
  BY <1>1, <1>2, <1>3 DEF PoolInv

LEMMA LockInv ==
  ASSUME PoolInv, NEW w \in Workers, Lock(w)
  PROVE  PoolInv'
<1> USE PoolAssumption DEF counters, signals, history
<1>1. TypeOK'
  <2>1. /\ pc' \in [Threads -> WorkerLabels \cup ClientLabels]
        /\ \A v \in Workers : pc'[v] \in WorkerLabels
        /\ \A d \in Clients : pc'[d] \in ClientLabels
    BY LockCases DEF PoolInv, TypeOK, Threads, WorkerLabels, ClientLabels
  <2>2. owner' \in [Mutexes -> Threads \cup {None}]
    BY LockCases DEF PoolInv, TypeOK, Threads
  <2> QED
    BY <2>1, <2>2, LockCases DEF PoolInv, TypeOK
<1>2. WorkingCount'
  BY LockCases, BusyKept DEF PoolInv, TypeOK, Threads, Busy, WorkerLabels
<1>3. QueueOrder'
  BY LockCases, JobsKept
<1>4. JobInHand'
  BY LockCases DEF PoolInv, TypeOK, Threads, JobInHand
<1>5. JobPlaces'
  BY LockCases, JobsKept
<1>6. Quiet'
  BY LockCases DEF PoolInv, TypeOK, Threads, Quiet, WorkerLabels,
     ClientLabels
<1> QED
  BY <1>1, <1>2, <1>3, <1>4, <1>5, <1>6 DEF PoolInv

LEMMA AliveInv ==
  ASSUME PoolInv, NEW w \in Workers, Alive(w)
  PROVE  PoolInv'
<1> USE PoolAssumption DEF counters, signals, history
<1>1. TypeOK'
  BY DEF PoolInv, Alive, Goto, Release, TypeOK, Threads, WorkerLabels,
     ClientLabels, Mutexes, Jobs
<1>2. WorkingCount'
  BY BusyKept DEF PoolInv, Alive, Goto, Release, TypeOK, Threads, Busy
<1>3. QueueOrder'
  BY JobsKept DEF Alive
<1>4. JobInHand'
  BY DEF PoolInv, Alive, Goto, Release, TypeOK, Threads, JobInHand
<1>5. JobPlaces'
  BY JobsKept DEF Alive
<1>6. Quiet'
  BY DEF PoolInv, Alive, Goto, Release, TypeOK, Threads, Quiet, WorkerLabels,
     ClientLabels
<1> QED
  BY <1>1, <1>2, <1>3, <1>4, <1>5, <1>6 DEF PoolInv

LEMMA LoopInv ==
  ASSUME PoolInv, NEW w \in Workers, Loop(w)
  PROVE  PoolInv'
<1> USE PoolAssumption DEF counters, signals, history
<1>1. TypeOK'
  BY DEF PoolInv, Loop, Goto, TypeOK, Threads, WorkerLabels, ClientLabels,
     Mutexes, Jobs
<1>2. WorkingCount'
  BY BusyKept DEF PoolInv, Loop, Goto, TypeOK, Threads, Busy
<1>3. QueueOrder'
  BY JobsKept DEF Loop
<1>4. JobInHand'
  BY DEF PoolInv, Loop, Goto, TypeOK, Threads, JobInHand
<1>5. JobPlaces'
  BY JobsKept DEF Loop
<1>6. Quiet'
  BY DEF PoolInv, Loop, Goto, TypeOK, Threads, Quiet, WorkerLabels,
     ClientLabels
<1> QED
  BY <1>1, <1>2, <1>3, <1>4, <1>5, <1>6 DEF PoolInv

LEMMA SemTakeInv ==
  ASSUME PoolInv, NEW w \in Workers, SemTake(w)
  PROVE  PoolInv'
<1> USE PoolAssumption DEF counters, signals, history
<1>1. TypeOK'
  BY DEF PoolInv, SemTake, Goto, Release, TypeOK, Threads, WorkerLabels,
     ClientLabels, Mutexes, Jobs
<1>2. WorkingCount'
  BY BusyKept DEF PoolInv, SemTake, Goto, Release, TypeOK, Threads, Busy
<1>3. QueueOrder'
  BY JobsKept DEF SemTake
<1>4. JobInHand'
  BY DEF PoolInv, SemTake, Goto, Release, TypeOK, Threads, JobInHand
<1>5. JobPlaces'
  BY JobsKept DEF SemTake
<1>6. Quiet'
  BY DEF PoolInv, SemTake, Goto, Release, TypeOK, Threads, Quiet,
     WorkerLabels, ClientLabels
<1> QED
  BY <1>1, <1>2, <1>3, <1>4, <1>5, <1>6 DEF PoolInv

LEMMA GotInv ==
  ASSUME PoolInv, NEW w \in Workers, Got(w)
  PROVE  PoolInv'
<1> USE PoolAssumption DEF counters, signals, history
<1>1. TypeOK'
  BY DEF PoolInv, Got, Goto, TypeOK, Threads, WorkerLabels, ClientLabels,
     Mutexes, Jobs
<1>2. WorkingCount'
  BY BusyKept DEF PoolInv, Got, Goto, TypeOK, Threads, Busy
<1>3. QueueOrder'
  BY JobsKept DEF Got
<1>4. JobInHand'
  BY DEF PoolInv, Got, Goto, TypeOK, Threads, JobInHand
<1>5. JobPlaces'
  BY JobsKept DEF Got
<1>6. Quiet'
  BY DEF PoolInv, Got, Goto, TypeOK, Threads, Quiet, WorkerLabels,
     ClientLabels
<1> QED
  BY <1>1, <1>2, <1>3, <1>4, <1>5, <1>6 DEF PoolInv

LEMMA WorkingInv ==
  ASSUME PoolInv, NEW w \in Workers, Working(w)
  PROVE  PoolInv'
<1> USE PoolAssumption DEF counters, signals, history
<1>1. TypeOK'
  BY DEF PoolInv, Working, Goto, Release, TypeOK, Threads, WorkerLabels,
     ClientLabels, Mutexes, Jobs
<1>2. WorkingCount'
  BY BusyMore DEF PoolInv, Working, Goto, Release, TypeOK, Threads, Busy
<1>3. QueueOrder'
  BY JobsKept DEF Working
<1>4. JobInHand'
  BY DEF PoolInv, Working, Goto, Release, TypeOK, Threads, JobInHand
<1>5. JobPlaces'
  BY JobsKept DEF Working
<1>6. Quiet'
  BY DEF PoolInv, Working, Goto, Release, TypeOK, Threads, Quiet,
     WorkerLabels, ClientLabels
<1> QED
  BY <1>1, <1>2, <1>3, <1>4, <1>5, <1>6 DEF PoolInv

LEMMA PullInv ==
  ASSUME PoolInv, NEW w \in Workers, Pull(w)
  PROVE  PoolInv'
<1> USE PoolAssumption DEF counters, signals, history
<1>1. TypeOK'
  <2>1. queue # <<>> => Tail(queue) \in Seq(Jobs) /\ Head(queue) \in Jobs
    BY HeadTailProperties DEF PoolInv, TypeOK
  <2>2. queue' \in Seq(Jobs) /\ cur' \in [Workers -> Jobs \cup {0}]
    <3>1. CASE queue = <<>>
      BY <3>1 DEF PoolInv, Pull, TypeOK
    <3>2. CASE queue # <<>>
      <4>1. queue' = Tail(queue) /\ cur' = [cur EXCEPT ![w] = Head(queue)]
        BY <3>2 DEF Pull
      <4>2. cur \in [Workers -> Jobs \cup {0}]
        BY DEF PoolInv, TypeOK
      <4> QED
        BY <2>1, <3>2, <4>1, <4>2
    <3> QED
      BY <3>1, <3>2
  <2>3. owner' \in [Mutexes -> Threads \cup {None}]
    BY DEF PoolInv, Pull, Release, TypeOK
  <2>4. /\ pc' \in [Threads -> WorkerLabels \cup ClientLabels]
        /\ \A v \in Workers : pc'[v] \in WorkerLabels
        /\ \A d \in Clients : pc'[d] \in ClientLabels
    BY DEF PoolInv, Pull, Goto, TypeOK, Threads, WorkerLabels, ClientLabels
  <2> QED
    BY <2>2, <2>3, <2>4 DEF PoolInv, Pull, TypeOK
<1>2. WorkingCount'
  BY BusyKept DEF PoolInv, Pull, Goto, Release, TypeOK, Threads, Busy
<1>3. QueueOrder'
  <2>1. CASE queue = <<>>
    BY <2>1 DEF PoolInv, Pull, QueueOrder
  <2>2. CASE queue # <<>>
    <3>1. /\ Len(queue) \in Nat /\ Len(queue') = Len(queue) - 1
          /\ \A k \in 1..Len(queue') : queue'[k] = queue[k + 1]
      BY <2>2, HeadTailProperties, LenProperties DEF PoolInv, Pull, TypeOK
    <3> QED
      BY <3>1 DEF PoolInv, Pull, TypeOK, QueueOrder
  <2> QED
    BY <2>1, <2>2
<1>4. JobInHand'
  <2>1. queue # <<>> => Head(queue) # 0
    BY HeadTailProperties DEF PoolInv, TypeOK, Jobs
  <2>2. cur[w] = 0
    BY DEF PoolInv, Pull, JobInHand
  <2> QED
    BY <2>1, <2>2 DEF PoolInv, Pull, Goto, TypeOK, Threads, JobInHand
<1>5. JobPlaces'
  <2>1. CASE queue = <<>>
    BY <2>1 DEF PoolInv, Pull, JobPlaces
  <2>2. CASE queue # <<>>
    <3> DEFINE n == added - Len(queue)
    <3>1. Len(queue) \in Nat \ {0} /\ Len(queue') = Len(queue) - 1
      BY <2>2, HeadTailProperties, EmptySeq DEF PoolInv, Pull, TypeOK
    <3>2. Head(queue) = n + 1
      <4>1. Head(queue) = queue[1]
        BY <2>2
      <4> QED
        BY <3>1, <4>1 DEF PoolInv, QueueOrder
    <3>3. added - Len(queue') = n + 1 /\ n \in Int
      BY <3>1 DEF PoolInv, TypeOK
    <3>4. cur[w] = 0 /\ cur' = [cur EXCEPT ![w] = n + 1]
      BY <2>2, <3>2 DEF PoolInv, Pull, JobInHand
    <3> HIDE DEF n
    <3>5. ASSUME ~freed
          PROVE  /\ Len(queue) <= added
                 /\ \A j \in 1..n : j \in done \/ \E v \in Workers : cur[v] = j
                 /\ \A j \in done : j <= n
                 /\ \A v \in Workers : cur[v] # 0 => cur[v] <= n
                 /\ \A v \in Workers : cur[v] \notin done
                 /\ \A u, v \in Workers : cur[u] = cur[v] /\ cur[u] # 0 => u = v
      BY <3>5 DEF PoolInv, JobPlaces, n
    <3>6. /\ added \in Int /\ cur \in [Workers -> Jobs \cup {0}]
          /\ freed' = freed /\ done' = done /\ added' = added
      BY DEF PoolInv, Pull, TypeOK
    <3>7. \A v \in Workers : cur'[v] = IF v = w THEN n + 1 ELSE cur[v]
      BY <3>4, <3>6
    <3>8. ASSUME ~freed'
          PROVE  /\ Len(queue') <= added'
                 /\ \A j \in 1..n + 1 : j \in done' \/ \E v \in Workers : cur'[v] = j
                 /\ \A j \in done' : j <= n + 1
                 /\ \A v \in Workers : cur'[v] # 0 => cur'[v] <= n + 1
                 /\ \A v \in Workers : cur'[v] \notin done'
                 /\ \A u, v \in Workers : cur'[u] = cur'[v] /\ cur'[u] # 0 => u = v
      <4>1. \A j \in 1..n + 1 : j \in done' \/ \E v \in Workers : cur'[v] = j
        <5> TAKE j \in 1..n + 1
        <5>1. CASE j = n + 1
          BY <5>1, <3>7
        <5>2. CASE j \in 1..n
          BY <5>2, <3>4, <3>5, <3>6, <3>7, <3>8
        <5> QED
          BY <3>3, <5>1, <5>2
      <4>2. \A j \in done' : j \in Int /\ j <= n
        BY <3>5, <3>6, <3>8 DEF PoolInv, TypeOK, Jobs
      <4>3. \A v \in Workers : cur[v] \in Int
        BY <3>6 DEF Jobs
      <4>4. \A v \in Workers : cur[v] # n + 1
        <5>1. n >= 0
          BY <3>1, <3>5, <3>6, <3>8 DEF n
        <5>2. \A v \in Workers : cur[v] = 0 \/ cur[v] <= n
          BY <3>5, <3>6, <3>8
        <5> QED
          BY <4>3, <5>1, <5>2, <3>3
      <4>5. \A u, v \in Workers : cur'[u] = cur'[v] /\ cur'[u] # 0 => u = v
        BY <4>4, <3>5, <3>6, <3>7, <3>8
      <4>6. \A v \in Workers : cur'[v] \notin done'
        BY <4>2, <3>3, <3>5, <3>6, <3>7, <3>8
      <4> QED
        BY <4>1, <4>2, <4>3, <4>5, <4>6, <3>1, <3>3, <3>5, <3>6, <3>7, <3>8
    <3> QED
      BY <3>3, <3>6, <3>8 DEF JobPlaces
  <2> QED
    BY <2>1, <2>2
<1>6. Quiet'
  BY DEF PoolInv, Pull, Goto, Release, TypeOK, Threads, Quiet, WorkerLabels,
     ClientLabels
<1> QED
  BY <1>1, <1>2, <1>3, <1>4, <1>5, <1>6 DEF PoolInv

LEMMA PostInv ==
  ASSUME PoolInv, NEW w \in Workers, Post(w)
  PROVE  PoolInv'
<1> USE PoolAssumption DEF counters, signals, history
<1>1. TypeOK'
  <2>1. /\ pc' \in [Threads -> WorkerLabels \cup ClientLabels]
        /\ \A v \in Workers : pc'[v] \in WorkerLabels
        /\ \A d \in Clients : pc'[d] \in ClientLabels
    BY PostEffect DEF Post, PoolInv, TypeOK, Threads, WorkerLabels, ClientLabels
  <2>2. owner' \in [Mutexes -> Threads \cup {None}]
    BY DEF PoolInv, Post, Release, TypeOK
  <2> QED
    BY <2>1, <2>2 DEF PoolInv, Post, Up, TypeOK
<1>2. WorkingCount'
  <2>1. \A v \in Workers : (Busy(v)' <=> Busy(v))
    BY PostEffect DEF Post, PoolInv, TypeOK, Threads, Busy, WorkerLabels, ClientLabels
  <2> QED
    BY <2>1, BusyKept DEF PoolInv, Post
<1>3. QueueOrder'
  BY JobsKept DEF Post
<1>4. JobInHand'
  BY PostEffect DEF Post, PoolInv, TypeOK, Threads, WorkerLabels, JobInHand
<1>5. JobPlaces'
  BY JobsKept DEF Post
<1>6. Quiet'
  BY PostEffect DEF Post, PoolInv, TypeOK, Threads, WorkerLabels, ClientLabels,
     Quiet
<1> QED
  BY <1>1, <1>2, <1>3, <1>4, <1>5, <1>6 DEF PoolInv

LEMMA PulledInv ==
  ASSUME PoolInv, NEW w \in Workers, Pulled(w)
  PROVE  PoolInv'
<1> USE PoolAssumption DEF counters, signals, history
<1>1. TypeOK'
  BY DEF PoolInv, Pulled, Goto, Release, TypeOK, Threads, WorkerLabels,
     ClientLabels, Mutexes, Jobs
<1>2. WorkingCount'
  BY BusyKept DEF PoolInv, Pulled, Goto, Release, TypeOK, Threads, Busy
<1>3. QueueOrder'
  BY JobsKept DEF Pulled
<1>4. JobInHand'
  BY DEF PoolInv, Pulled, Goto, Release, TypeOK, Threads, JobInHand
<1>5. JobPlaces'
  BY JobsKept DEF Pulled
<1>6. Quiet'
  BY DEF PoolInv, Pulled, Goto, Release, TypeOK, Threads, Quiet,
     WorkerLabels, ClientLabels
<1> QED
  BY <1>1, <1>2, <1>3, <1>4, <1>5, <1>6 DEF PoolInv

LEMMA RunInv ==
  ASSUME PoolInv, NEW w \in Workers, Run(w)
  PROVE  PoolInv'
<1> USE PoolAssumption DEF counters, signals, history
<1>1. TypeOK'
  <2>1. cur[w] \in Jobs
    BY DEF PoolInv, Run, TypeOK, JobInHand
  <2>2. /\ pc' \in [Threads -> WorkerLabels \cup ClientLabels]
        /\ \A v \in Workers : pc'[v] \in WorkerLabels
        /\ \A d \in Clients : pc'[d] \in ClientLabels
    BY DEF PoolInv, Run, Goto, TypeOK, Threads, WorkerLabels, ClientLabels
  <2>3. cur' \in [Workers -> Jobs \cup {0}] /\ done' \subseteq Jobs
    BY <2>1 DEF PoolInv, Run, TypeOK
  <2> QED
    BY <2>2, <2>3 DEF PoolInv, Run, TypeOK
<1>2. WorkingCount'
  BY BusyKept DEF PoolInv, Run, Goto, TypeOK, Threads, Busy
<1>3. QueueOrder'
  BY DEF PoolInv, Run, Goto, TypeOK, Threads, QueueOrder
<1>4. JobInHand'
  BY DEF PoolInv, Run, Goto, TypeOK, Threads, JobInHand
<1>5. JobPlaces'
  <2>1. /\ cur[w] \in Jobs /\ 0 \notin done' /\ done' = done \cup {cur[w]}
        /\ \A v \in Workers : cur'[v] = IF v = w THEN 0 ELSE cur[v]
    BY DEF PoolInv, Run, TypeOK, JobInHand, Jobs
  <2>2. UNCHANGED <<queue, added, freed>>
    BY DEF Run
  <2> QED
    BY <2>1, <2>2 DEF PoolInv, JobPlaces
<1>6. Quiet'
  BY DEF PoolInv, Run, Goto, TypeOK, Threads, Quiet, WorkerLabels,
     ClientLabels
<1> QED
  BY <1>1, <1>2, <1>3, <1>4, <1>5, <1>6 DEF PoolInv

LEMMA FinishInv ==
  ASSUME PoolInv, NEW w \in Workers, Finish(w)
  PROVE  PoolInv'
<1> USE PoolAssumption DEF counters, signals, history
<1>1. TypeOK'
  <2>1. /\ pc' \in [Threads -> WorkerLabels \cup ClientLabels]
        /\ \A v \in Workers : pc'[v] \in WorkerLabels
        /\ \A d \in Clients : pc'[d] \in ClientLabels
    BY FinishEffect DEF PoolInv, TypeOK, Threads, WorkerLabels, ClientLabels
  <2>2. owner' \in [Mutexes -> Threads \cup {None}]
    BY DEF PoolInv, Finish, Release, TypeOK
  <2> QED
    BY <2>1, <2>2 DEF PoolInv, Finish, TypeOK
<1>2. WorkingCount'
  <2>1. \A v \in Workers : v # w => (Busy(v)' <=> Busy(v))
    BY FinishEffect DEF PoolInv, TypeOK, Threads, Busy
  <2>2. Busy(w) /\ ~Busy(w)'
    BY FinishEffect DEF PoolInv, Finish, Busy
  <2> QED
    BY <2>1, <2>2, BusyLess DEF PoolInv, Finish
<1>3. QueueOrder'
  BY JobsKept DEF Finish
<1>4. JobInHand'
  BY FinishEffect DEF PoolInv, Finish, TypeOK, Threads, WorkerLabels, JobInHand
<1>5. JobPlaces'
  BY JobsKept DEF Finish
<1>6. Quiet'
  BY FinishEffect DEF PoolInv, Finish, TypeOK, Threads, WorkerLabels, ClientLabels,
     Quiet
<1> QED
  BY <1>1, <1>2, <1>3, <1>4, <1>5, <1>6 DEF PoolInv

LEMMA LeaveInv ==
  ASSUME PoolInv, NEW w \in Workers, Leave(w)
  PROVE  PoolInv'
<1> USE PoolAssumption DEF counters, signals, history
<1>1. TypeOK'
  BY DEF PoolInv, Leave, Goto, TypeOK, Threads, WorkerLabels, ClientLabels,
     Mutexes, Jobs
<1>2. WorkingCount'
  BY BusyKept DEF PoolInv, Leave, Goto, TypeOK, Threads, Busy
<1>3. QueueOrder'
  BY JobsKept DEF Leave
<1>4. JobInHand'
  BY DEF PoolInv, Leave, Goto, TypeOK, Threads, JobInHand
<1>5. JobPlaces'
  BY JobsKept DEF Leave
<1>6. Quiet'
  BY DEF PoolInv, Leave, Goto, TypeOK, Threads, Quiet, WorkerLabels,
     ClientLabels
<1> QED
  BY <1>1, <1>2, <1>3, <1>4, <1>5, <1>6 DEF PoolInv

LEMMA UnlockInv ==
  ASSUME PoolInv, NEW w \in Workers, Unlock(w)
  PROVE  PoolInv'
<1> USE PoolAssumption DEF counters, signals, history
<1>1. TypeOK'
  BY DEF PoolInv, Unlock, Goto, Release, TypeOK, Threads, WorkerLabels,
     ClientLabels, Mutexes, Jobs
<1>2. WorkingCount'
  BY BusyKept DEF PoolInv, Unlock, Goto, Release, TypeOK, Threads, Busy
<1>3. QueueOrder'
  BY JobsKept DEF Unlock
<1>4. JobInHand'
  BY DEF PoolInv, Unlock, Goto, Release, TypeOK, Threads, JobInHand
<1>5. JobPlaces'
  BY JobsKept DEF Unlock
<1>6. Quiet'
  BY DEF PoolInv, Unlock, Goto, Release, TypeOK, Threads, Quiet,
     WorkerLabels, ClientLabels
<1> QED
  BY <1>1, <1>2, <1>3, <1>4, <1>5, <1>6 DEF PoolInv

LEMMA HoldInv ==
  ASSUME PoolInv, NEW w \in Workers, Hold(w)
  PROVE  PoolInv'
<1> USE PoolAssumption DEF counters, signals, history
<1>1. TypeOK'
  BY DEF PoolInv, Hold, TypeOK, Threads, WorkerLabels, ClientLabels, Mutexes,
     Jobs
<1>2. WorkingCount'
  BY BusyKept DEF PoolInv, Hold, TypeOK, Threads, Busy
<1>3. QueueOrder'
  BY JobsKept DEF Hold
<1>4. JobInHand'
  BY DEF PoolInv, Hold, TypeOK, Threads, JobInHand
<1>5. JobPlaces'
  BY JobsKept DEF Hold
<1>6. Quiet'
  BY DEF PoolInv, Hold, TypeOK, Threads, Quiet, WorkerLabels, ClientLabels
<1> QED
  BY <1>1, <1>2, <1>3, <1>4, <1>5, <1>6 DEF PoolInv

LEMMA UnholdInv ==
  ASSUME PoolInv, NEW w \in Workers, Unhold(w)
  PROVE  PoolInv'
<1> USE PoolAssumption DEF counters, signals, history
<1>1. TypeOK'
  BY DEF PoolInv, Unhold, TypeOK, Threads, WorkerLabels, ClientLabels,
     Mutexes, Jobs
<1>2. WorkingCount'
  BY BusyKept DEF PoolInv, Unhold, TypeOK, Threads, Busy
<1>3. QueueOrder'
  BY JobsKept DEF Unhold
<1>4. JobInHand'
  BY DEF PoolInv, Unhold, TypeOK, Threads, JobInHand
<1>5. JobPlaces'
  BY JobsKept DEF Unhold
<1>6. Quiet'
  BY DEF PoolInv, Unhold, TypeOK, Threads, Quiet, WorkerLabels, ClientLabels
<1> QED
  BY <1>1, <1>2, <1>3, <1>4, <1>5, <1>6 DEF PoolInv

LEMMA StartedInv ==
  ASSUME PoolInv, NEW c \in Clients, Started(c)
  PROVE  PoolInv'
<1> USE PoolAssumption DEF counters, signals, history
<1>1. TypeOK'
  BY DEF PoolInv, Started, Goto, TypeOK, Threads, WorkerLabels, ClientLabels,
     Mutexes, Jobs
<1>2. WorkingCount'
  BY BusyKept DEF PoolInv, Started, Goto, TypeOK, Threads, Busy,
     WorkerLabels, ClientLabels
<1>3. QueueOrder'
  BY JobsKept DEF Started
<1>4. JobInHand'
  BY DEF PoolInv, Started, Goto, TypeOK, Threads, JobInHand, WorkerLabels,
     ClientLabels
<1>5. JobPlaces'
  BY JobsKept DEF Started
<1>6. Quiet'
  BY DEF PoolInv, Started, Goto, TypeOK, Threads, Quiet, WorkerLabels,
     ClientLabels
<1> QED
  BY <1>1, <1>2, <1>3, <1>4, <1>5, <1>6 DEF PoolInv

LEMMA PushPostInv ==
  ASSUME PoolInv, NEW c \in Clients, PushPost(c)
  PROVE  PoolInv'
<1> USE PoolAssumption DEF counters, signals, history
<1>1. TypeOK'
  <2>1. /\ pc' \in [Threads -> WorkerLabels \cup ClientLabels]
        /\ \A v \in Workers : pc'[v] \in WorkerLabels
        /\ \A d \in Clients : pc'[d] \in ClientLabels
    BY PostEffect DEF PushPost, PoolInv, TypeOK, Threads, WorkerLabels, ClientLabels
  <2>2. owner' \in [Mutexes -> Threads \cup {None}]
    BY DEF PoolInv, PushPost, Release, TypeOK
  <2> QED
    BY <2>1, <2>2 DEF PoolInv, PushPost, Up, TypeOK
<1>2. WorkingCount'
  <2>1. /\ c \in Threads /\ TypeOK
        /\ \A v \in Workers : v \in Threads \ {c}
    BY DEF PoolInv, Threads
  <2>2. \A v \in Workers :
          pc'[v] = pc[v] \/ (pc[v] = "sleep" /\ pc'[v] = "sem")
    BY <2>1, PostEffect DEF PushPost
  <2>3. \A v \in Workers : (Busy(v)' <=> Busy(v))
    BY <2>2 DEF Busy
  <2> QED
    BY <2>3, BusyKept DEF PoolInv, PushPost
<1>3. QueueOrder'
  BY JobsKept DEF PushPost
<1>4. JobInHand'
  <2>1. /\ c \in Threads /\ TypeOK
        /\ \A v \in Workers : v \in Threads \ {c}
    BY DEF PoolInv, Threads
  <2>2. \A v \in Workers :
          pc'[v] = pc[v] \/ (pc[v] = "sleep" /\ pc'[v] = "sem")
    BY <2>1, PostEffect DEF PushPost
  <2> QED
    BY <2>2 DEF PoolInv, PushPost, JobInHand
<1>5. JobPlaces'
  BY JobsKept DEF PushPost
<1>6. Quiet'
  BY PostEffect DEF PushPost, PoolInv, TypeOK, Threads, WorkerLabels, ClientLabels,
     Quiet
<1> QED
  BY <1>1, <1>2, <1>3, <1>4, <1>5, <1>6 DEF PoolInv

LEMMA WaitInv ==
  ASSUME PoolInv, NEW c \in Clients, Wait(c)
  PROVE  PoolInv'
<1> USE PoolAssumption DEF counters, signals, history
<1>1. TypeOK'
  BY DEF PoolInv, Wait, Goto, TypeOK, Threads, WorkerLabels, ClientLabels,
     Mutexes, Jobs
<1>2. WorkingCount'
  BY BusyKept DEF PoolInv, Wait, Goto, TypeOK, Threads, Busy, WorkerLabels,
     ClientLabels
<1>3. QueueOrder'
  BY JobsKept DEF Wait
<1>4. JobInHand'
  BY DEF PoolInv, Wait, Goto, TypeOK, Threads, JobInHand, WorkerLabels,
     ClientLabels
<1>5. JobPlaces'
  BY JobsKept DEF Wait
<1>6. Quiet'
  BY DEF PoolInv, Wait, Goto, TypeOK, Threads, Quiet, WorkerLabels,
     ClientLabels
<1> QED
  BY <1>1, <1>2, <1>3, <1>4, <1>5, <1>6 DEF PoolInv

LEMMA DestroyPostInv ==
  ASSUME PoolInv, NEW c \in Clients, DestroyPost(c)
  PROVE  PoolInv'
<1> USE PoolAssumption DEF counters, signals, history
<1>1. TypeOK'
  BY DEF PoolInv, DestroyPost, TypeOK, Threads, WorkerLabels, ClientLabels,
     Mutexes, Jobs
<1>2. WorkingCount'
  BY BusyKept DEF PoolInv, DestroyPost, TypeOK, Threads, Busy, WorkerLabels,
     ClientLabels
<1>3. QueueOrder'
  BY JobsKept DEF DestroyPost
<1>4. JobInHand'
  BY DEF PoolInv, DestroyPost, TypeOK, Threads, JobInHand, WorkerLabels,
     ClientLabels
<1>5. JobPlaces'
  BY JobsKept DEF DestroyPost
<1>6. Quiet'
  BY DEF PoolInv, DestroyPost, TypeOK, Threads, Quiet, WorkerLabels,
     ClientLabels
<1> QED
  BY <1>1, <1>2, <1>3, <1>4, <1>5, <1>6 DEF PoolInv

LEMMA DestroyFreeInv ==
  ASSUME PoolInv, NEW c \in Clients, DestroyFree(c)
  PROVE  PoolInv'
<1> USE PoolAssumption DEF counters, signals, history
<1>1. TypeOK'
  BY DEF PoolInv, DestroyFree, Goto, TypeOK, Threads, WorkerLabels,
     ClientLabels, Mutexes, Jobs
<1>2. WorkingCount'
  BY BusyKept DEF PoolInv, DestroyFree, Goto, TypeOK, Threads, Busy,
     WorkerLabels, ClientLabels
<1>3. QueueOrder'
  BY DEF PoolInv, DestroyFree, Goto, TypeOK, Threads, QueueOrder
<1>4. JobInHand'
  BY DEF PoolInv, DestroyFree, Goto, TypeOK, Threads, JobInHand,
     WorkerLabels, ClientLabels
<1>5. JobPlaces'
  BY DEF PoolInv, DestroyFree, Goto, TypeOK, Threads, JobPlaces
<1>6. Quiet'
  BY DEF PoolInv, DestroyFree, Goto, TypeOK, Threads, Quiet, WorkerLabels,
     ClientLabels
<1> QED
  BY <1>1, <1>2, <1>3, <1>4, <1>5, <1>6 DEF PoolInv

LEMMA AddWorkInv ==
  ASSUME PoolInv, NEW c \in Clients, AddWork(c)
  PROVE  PoolInv'
<1> USE PoolAssumption DEF counters, signals, history
<1>1. TypeOK'
  BY DEF PoolInv, AddWork, Goto, TypeOK, Threads, WorkerLabels, ClientLabels,
     Mutexes, Jobs
<1>2. WorkingCount'
  BY BusyKept DEF PoolInv, AddWork, Goto, TypeOK, Threads, Busy,
     WorkerLabels, ClientLabels
<1>3. QueueOrder'
  BY JobsKept DEF AddWork
<1>4. JobInHand'
  BY DEF PoolInv, AddWork, Goto, TypeOK, Threads, JobInHand, WorkerLabels,
     ClientLabels
<1>5. JobPlaces'
  BY JobsKept DEF AddWork
<1>6. Quiet'
  BY DEF PoolInv, AddWork, Goto, TypeOK, Threads, Quiet, WorkerLabels,
     ClientLabels
<1> QED
  BY <1>1, <1>2, <1>3, <1>4, <1>5, <1>6 DEF PoolInv

LEMMA PushInv ==
  ASSUME PoolInv, NEW c \in Clients, Push(c)
  PROVE  PoolInv'
<1> USE PoolAssumption DEF counters, signals, history
<1>1. TypeOK'
  BY DEF PoolInv, Push, Goto, TypeOK, Threads, WorkerLabels, ClientLabels,
     Mutexes, Jobs
<1>2. WorkingCount'
  BY BusyKept DEF PoolInv, Push, Goto, TypeOK, Threads, Busy,
     WorkerLabels, ClientLabels
<1>3. QueueOrder'
  BY DEF PoolInv, Push, Goto, TypeOK, Threads, QueueOrder
<1>4. JobInHand'
  BY DEF PoolInv, Push, Goto, TypeOK, Threads, JobInHand, WorkerLabels,
     ClientLabels
<1>5. JobPlaces'
  BY DEF PoolInv, Push, Goto, TypeOK, Threads, JobPlaces
<1>6. Quiet'
  BY DEF PoolInv, Push, Goto, TypeOK, Threads, Quiet, WorkerLabels,
     ClientLabels
<1> QED
  BY <1>1, <1>2, <1>3, <1>4, <1>5, <1>6 DEF PoolInv

LEMMA WaitCallInv ==
  ASSUME PoolInv, NEW c \in Clients, WaitCall(c)
  PROVE  PoolInv'
<1> USE PoolAssumption DEF counters, signals, history
<1>1. TypeOK'
  BY DEF PoolInv, WaitCall, Goto, TypeOK, Threads, WorkerLabels,
     ClientLabels, Mutexes, Jobs
<1>2. WorkingCount'
  BY BusyKept DEF PoolInv, WaitCall, Goto, TypeOK, Threads, Busy,
     WorkerLabels, ClientLabels
<1>3. QueueOrder'
  BY JobsKept DEF WaitCall
<1>4. JobInHand'
  BY DEF PoolInv, WaitCall, Goto, TypeOK, Threads, JobInHand, WorkerLabels,
     ClientLabels
<1>5. JobPlaces'
  BY JobsKept DEF WaitCall
<1>6. Quiet'
  BY DEF PoolInv, WaitCall, Goto, TypeOK, Threads, Quiet, WorkerLabels,
     ClientLabels
<1> QED
  BY <1>1, <1>2, <1>3, <1>4, <1>5, <1>6 DEF PoolInv

LEMMA PauseInv ==
  ASSUME PoolInv, NEW c \in Clients, Pause(c)
  PROVE  PoolInv'
<1> USE PoolAssumption DEF counters, signals, history
<1>1. TypeOK'
  <2>1. pauses' \in 0..MaxPauses
    BY DEF PoolInv, Pause, TypeOK
  <2> QED
    BY <2>1 DEF PoolInv, Pause, TypeOK
<1>2. WorkingCount'
  BY BusyKept DEF PoolInv, Pause, TypeOK, Threads, Busy, WorkerLabels,
     ClientLabels
<1>3. QueueOrder'
  BY JobsKept DEF Pause
<1>4. JobInHand'
  BY DEF PoolInv, Pause, TypeOK, Threads, JobInHand, WorkerLabels,
     ClientLabels
<1>5. JobPlaces'
  BY JobsKept DEF Pause
<1>6. Quiet'
  BY DEF PoolInv, Pause, TypeOK, Threads, Quiet, WorkerLabels, ClientLabels
<1> QED
  BY <1>1, <1>2, <1>3, <1>4, <1>5, <1>6 DEF PoolInv

LEMMA ResumeInv ==
  ASSUME PoolInv, NEW c \in Clients, Resume(c)
  PROVE  PoolInv'
<1> USE PoolAssumption DEF counters, signals, history
<1>1. TypeOK'
  BY DEF PoolInv, Resume, TypeOK, Threads, WorkerLabels, ClientLabels,
     Mutexes, Jobs
<1>2. WorkingCount'
  BY BusyKept DEF PoolInv, Resume, TypeOK, Threads, Busy, WorkerLabels,
     ClientLabels
<1>3. QueueOrder'
  BY JobsKept DEF Resume
<1>4. JobInHand'
  BY DEF PoolInv, Resume, TypeOK, Threads, JobInHand, WorkerLabels,
     ClientLabels
<1>5. JobPlaces'
  BY JobsKept DEF Resume
<1>6. Quiet'
  BY DEF PoolInv, Resume, TypeOK, Threads, Quiet, WorkerLabels, ClientLabels
<1> QED
  BY <1>1, <1>2, <1>3, <1>4, <1>5, <1>6 DEF PoolInv

LEMMA DestroyInv ==
  ASSUME PoolInv, NEW c \in Clients, Destroy(c)
  PROVE  PoolInv'
<1> USE PoolAssumption DEF counters, signals, history
<1>1. TypeOK'
  BY DEF PoolInv, Destroy, Goto, TypeOK, Threads, WorkerLabels, ClientLabels,
     Mutexes, Jobs
<1>2. WorkingCount'
  BY BusyKept DEF PoolInv, Destroy, Goto, TypeOK, Threads, Busy,
     WorkerLabels, ClientLabels
<1>3. QueueOrder'
  BY JobsKept DEF Destroy
<1>4. JobInHand'
  BY DEF PoolInv, Destroy, Goto, TypeOK, Threads, JobInHand, WorkerLabels,
     ClientLabels
<1>5. JobPlaces'
  BY JobsKept DEF Destroy
<1>6. Quiet'
  BY DEF PoolInv, Destroy, Goto, TypeOK, Threads, Quiet, WorkerLabels,
     ClientLabels
<1> QED
  BY <1>1, <1>2, <1>3, <1>4, <1>5, <1>6 DEF PoolInv

LEMMA SpuriousWakeInv ==
  ASSUME PoolInv, NEW t \in Threads, SpuriousWake(t)
  PROVE  PoolInv'
<1> USE PoolAssumption DEF counters, signals, history
<1>1. TypeOK'
  <2>1. /\ pc' \in [Threads -> WorkerLabels \cup ClientLabels]
        /\ \A w \in Workers : pc'[w] \in WorkerLabels
        /\ \A c \in Clients : pc'[c] \in ClientLabels
    BY DEF PoolInv, SpuriousWake, Goto, TypeOK, Threads, WorkerLabels, ClientLabels
  <2> QED
    BY <2>1 DEF PoolInv, SpuriousWake, TypeOK
<1>2. WorkingCount'
  BY BusyKept DEF PoolInv, SpuriousWake, Goto, TypeOK, Threads, Busy,
     WorkerLabels, ClientLabels
<1>3. QueueOrder'
  BY JobsKept DEF SpuriousWake
<1>4. JobInHand'
  BY DEF PoolInv, SpuriousWake, Goto, TypeOK, Threads, JobInHand,
     WorkerLabels, ClientLabels
<1>5. JobPlaces'
  BY JobsKept DEF SpuriousWake
<1>6. Quiet'
  BY DEF PoolInv, SpuriousWake, Goto, TypeOK, Threads, Quiet, WorkerLabels,
     ClientLabels
<1> QED
  BY <1>1, <1>2, <1>3, <1>4, <1>5, <1>6 DEF PoolInv

LEMMA NextPoolInv == PoolInv /\ [Next]_vars => PoolInv'
<1> SUFFICES ASSUME PoolInv, [Next]_vars PROVE PoolInv'
  OBVIOUS
<1>1. CASE UNCHANGED vars
  <2>1. \A w \in Workers : Busy(w)' <=> Busy(w)
    BY <1>1 DEF vars, Busy
  <2>2. WorkingCount'
    BY <1>1, <2>1, BusyKept DEF vars, PoolInv
  <2>3. QueueOrder' /\ JobPlaces'
    BY <1>1, JobsKept DEF vars
  <2>4. TypeOK' /\ JobInHand' /\ Quiet'
    BY <1>1 DEF vars, PoolInv, TypeOK, JobInHand, Quiet
  <2> QED
    BY <2>2, <2>3, <2>4 DEF PoolInv
<1>2. ASSUME NEW w \in Workers, WorkerStep(w) PROVE PoolInv'
  BY <1>2, LockInv, AliveInv, LoopInv, SemTakeInv, GotInv, WorkingInv,
     PullInv, PostInv, PulledInv, RunInv, FinishInv, LeaveInv, UnlockInv DEF WorkerStep
<1>3. ASSUME NEW w \in Workers, Hold(w) \/ Unhold(w) PROVE PoolInv'
  BY <1>3, HoldInv, UnholdInv
<1>4. ASSUME NEW c \in Clients, ClientStep(c) PROVE PoolInv'
  BY <1>4, StartedInv, PushInv, PushPostInv, WaitInv, DestroyPostInv, DestroyFreeInv
     DEF ClientStep
<1>5. ASSUME NEW c \in Clients, ClientCall(c) PROVE PoolInv'
  BY <1>5, AddWorkInv, WaitCallInv, PauseInv, ResumeInv, DestroyInv
     DEF ClientCall
<1>6. ASSUME NEW t \in Threads, SpuriousWake(t) PROVE PoolInv'
  BY <1>6, SpuriousWakeInv
<1> QED
  BY <1>1, <1>2, <1>3, <1>4, <1>5, <1>6 DEF Next

-----------------------------------------------------------------------------
(* Theorems *)

\* In every reachable state the counters are right and every job that left
\* the queue is in the hands of exactly one worker or has run once.
THEOREM PoolInvariance == Spec => []PoolInv
BY InitPoolInv, NextPoolInv, PTL DEF Spec

\* The state is always well typed.
THEOREM PoolTypeCorrect == Spec => []TypeOK
<1>1. PoolInv => TypeOK
  BY DEF PoolInv
<1> QED
  BY <1>1, PoolInvariance, PTL

\* thpool_wait does not return before every job added before the call has
\* run, although it reads len and num_threads_working, which are protected
\* by different mutexes.
THEOREM WaitIsSound == Spec => WaitSound
<1>1. ASSUME PoolInv, [Next]_vars PROVE WaitStep
  <2> SUFFICES ASSUME NEW c \in Clients, pc[c] = "wait", pc'[c] = "idle"
               PROVE  target[c] \subseteq done
    BY DEF WaitStep
  <2> USE <1>1, PoolAssumption
  \* Only the last round of the loop of thpool_wait leads there.
  <2>1. queue = <<>> /\ working = 0
    <3>0. c \in Threads /\ TypeOK /\ \A w \in Workers : w # c
      BY DEF PoolInv, Threads
    <3>1. CASE UNCHANGED vars
      BY <3>1 DEF vars
    <3>2. ASSUME NEW w \in Workers, WorkerStep(w) PROVE FALSE
      <4>1. CASE Post(w)
        BY <3>0, <4>1, PostEffect DEF Post, Threads
      <4>2. CASE Finish(w)
        BY <3>0, <4>2, FinishEffect
      <4>3. CASE Lock(w)
        BY <3>0, <4>3, LockCases DEF TypeOK
      <4>4. ASSUME NEW l, pc' = [pc EXCEPT ![w] = l] PROVE FALSE
        BY <3>0, <4>4 DEF TypeOK
      <4> QED
        BY <3>2, <4>1, <4>2, <4>3, <4>4
           DEF WorkerStep, Alive, Loop, SemTake, Got, Working, Pull, Pulled, Run,
               Leave, Unlock, Goto
    <3>3. ASSUME NEW w \in Workers, Hold(w) \/ Unhold(w) PROVE FALSE
      BY <3>3 DEF Hold, Unhold
    <3>4. ASSUME NEW d \in Clients, ClientStep(d) \/ ClientCall(d)
          PROVE  queue = <<>> /\ working = 0
      <4>1. CASE PushPost(d)
        <5>1. d \in Threads /\ d # c
          BY <4>1 DEF PushPost, Threads
        <5> QED
          BY <3>0, <4>1, <5>1, PostEffect DEF PushPost
      <4>2. CASE DestroyPost(d)
        BY <3>0, <4>2 DEF DestroyPost
      <4>3. CASE Wait(d)
        BY <3>0, <4>3 DEF Wait, Goto, TypeOK
      <4> QED
        BY <3>0, <3>4, <4>1, <4>2, <4>3
           DEF ClientStep, ClientCall, Started, Push, DestroyFree, AddWork,
               WaitCall, Pause, Resume, Destroy, Goto, TypeOK
    <3>5. ASSUME NEW t \in Threads, SpuriousWake(t) PROVE FALSE
      BY <3>0, <3>5 DEF SpuriousWake, Goto, TypeOK
    <3> QED
      BY <3>1, <3>2, <3>3, <3>4, <3>5 DEF Next
  \* Nobody is working, so nobody has a job in hand.
  <2>2. \A w \in Workers : cur[w] = 0
    <3> DEFINE B == {w \in Workers : Busy(w)}
    <3>1. IsFiniteSet(B)
      BY FS_Subset
    <3>2. B = {}
      BY <2>1, <3>1, FS_EmptySet DEF PoolInv, WorkingCount
    <3> QED
      BY <3>2 DEF PoolInv, JobInHand, Busy
  <2>3. ~freed
    BY DEF PoolInv, Quiet
  <2>4. \A j \in 1..added : j \in done
    <3>1. Len(queue) = 0 /\ added \in Nat
      BY <2>1 DEF PoolInv, TypeOK
    <3> QED
      BY <2>2, <2>3, <3>1 DEF PoolInv, JobPlaces
  <2> QED
    BY <2>4 DEF PoolInv, Quiet
<1>2. PoolInv /\ [Next]_vars => [WaitStep]_vars
  BY <1>1
<1> QED
  BY <1>2, PoolInvariance, PTL DEF Spec, WaitSound

-----------------------------------------------------------------------------
(* The semaphore *)

\* The semaphore invariant is kept by every step.
LEMMA NextSemInv == TypeOK /\ SemInv /\ [Next]_vars => SemInv'
<1> SUFFICES ASSUME TypeOK, SemInv, [Next]_vars PROVE SemInv'
  OBVIOUS
<1> USE PoolAssumption DEF Fetching, Trying
<1>1. CASE UNCHANGED vars
  BY <1>1 DEF vars, SemInv
<1>2. ASSUME NEW w \in Workers, Lock(w) PROVE SemInv'
  BY <1>2, LockCases DEF SemInv, TypeOK, Threads, signals, history
<1>3. ASSUME NEW w \in Workers, Alive(w) PROVE SemInv'
  BY <1>3 DEF Alive, Goto, SemInv, TypeOK, Threads, signals, history
<1>4. ASSUME NEW w \in Workers, Loop(w) PROVE SemInv'
  BY <1>4 DEF Loop, Goto, SemInv, TypeOK, Threads, signals, history
<1>5. ASSUME NEW w \in Workers, SemTake(w) PROVE SemInv'
  BY <1>5 DEF SemTake, Goto, SemInv, TypeOK, Threads, signals, history
<1>6. ASSUME NEW w \in Workers, Got(w) PROVE SemInv'
  BY <1>6 DEF Got, Goto, SemInv, TypeOK, Threads, signals, history
<1>7. ASSUME NEW w \in Workers, Working(w) PROVE SemInv'
  BY <1>7 DEF Working, Goto, SemInv, TypeOK, Threads, signals, history
<1>8. ASSUME NEW w \in Workers, Pull(w) PROVE SemInv'
  BY <1>8 DEF Pull, Goto, SemInv, TypeOK, Threads, signals, history
<1>9. ASSUME NEW w \in Workers, Post(w) PROVE SemInv'
  <2>1. w \in Threads /\ Up(w, "pulled") /\ sem' = 1
    BY <1>9 DEF Post, Up, Threads
  <2>2. (\E v \in Workers : pc'[v] = "sleep") => \E v \in Workers : pc'[v] = "sem"
    BY <2>1, PostWakes
  <2> QED
    BY <2>1, <2>2 DEF SemInv
<1>10. ASSUME NEW w \in Workers, Run(w) PROVE SemInv'
  BY <1>10 DEF Run, Goto, SemInv, TypeOK, Threads, signals, history
<1>11. ASSUME NEW w \in Workers, Finish(w) PROVE SemInv'
  BY <1>11, FinishEffect DEF Finish, SemInv, TypeOK, Threads, signals,
     history
<1>12. ASSUME NEW w \in Workers, Leave(w) PROVE SemInv'
  BY <1>12 DEF Leave, Goto, SemInv, TypeOK, Threads, signals, history
<1>13. ASSUME NEW w \in Workers, Unlock(w) PROVE SemInv'
  BY <1>13 DEF Unlock, Goto, SemInv, TypeOK, Threads, signals, history
<1>14. ASSUME NEW w \in Workers, Hold(w) PROVE SemInv'
  BY <1>14 DEF Hold, SemInv, TypeOK, Threads, signals, history
<1>15. ASSUME NEW w \in Workers, Unhold(w) PROVE SemInv'
  BY <1>15 DEF Unhold, SemInv, TypeOK, Threads, signals, history
<1>16. ASSUME NEW c \in Clients, Started(c) PROVE SemInv'
  BY <1>16 DEF Started, Goto, SemInv, TypeOK, Threads, signals, history,
     WorkerLabels, ClientLabels
<1>17. ASSUME NEW c \in Clients, PushPost(c) PROVE SemInv'
  <2>1. c \in Threads /\ Up(c, "idle") /\ sem' = 1
    BY <1>17 DEF PushPost, Up, Threads
  <2>2. (\E v \in Workers : pc'[v] = "sleep") => \E v \in Workers : pc'[v] = "sem"
    BY <2>1, PostWakes
  <2> QED
    BY <2>1, <2>2 DEF SemInv
<1>18. ASSUME NEW c \in Clients, Wait(c) PROVE SemInv'
  BY <1>18 DEF Wait, Goto, SemInv, TypeOK, Threads, signals, history,
     WorkerLabels, ClientLabels
<1>19. ASSUME NEW c \in Clients, DestroyPost(c) PROVE SemInv'
  BY <1>19 DEF DestroyPost, SemInv, TypeOK, Threads, signals, history,
     WorkerLabels, ClientLabels
<1>20. ASSUME NEW c \in Clients, DestroyFree(c) PROVE SemInv'
  BY <1>20 DEF DestroyFree, Goto, SemInv, TypeOK, Threads, signals, history,
     WorkerLabels, ClientLabels
<1>21. ASSUME NEW c \in Clients, AddWork(c) PROVE SemInv'
  BY <1>21 DEF AddWork, Goto, SemInv, TypeOK, Threads, signals, history,
     WorkerLabels, ClientLabels
<1>22. ASSUME NEW c \in Clients, WaitCall(c) PROVE SemInv'
  BY <1>22 DEF WaitCall, Goto, SemInv, TypeOK, Threads, signals, history,
     WorkerLabels, ClientLabels
<1>23. ASSUME NEW c \in Clients, Pause(c) PROVE SemInv'
  BY <1>23 DEF Pause, SemInv, TypeOK, Threads, signals, history,
     WorkerLabels, ClientLabels
<1>24. ASSUME NEW c \in Clients, Resume(c) PROVE SemInv'
  BY <1>24 DEF Resume, SemInv, TypeOK, Threads, signals, history,
     WorkerLabels, ClientLabels
<1>25. ASSUME NEW c \in Clients, Destroy(c) PROVE SemInv'
  BY <1>25 DEF Destroy, Goto, SemInv, TypeOK, Threads, signals, history,
     WorkerLabels, ClientLabels
<1>26. ASSUME NEW t \in Threads, SpuriousWake(t) PROVE SemInv'
  BY <1>26 DEF SpuriousWake, Goto, SemInv, TypeOK, Threads, signals, history,
     WorkerLabels, ClientLabels
<1>27. ASSUME NEW w \in Workers, Pulled(w) PROVE SemInv'
  BY <1>27 DEF Pulled, Goto, SemInv, TypeOK, Threads, signals, history
<1>28. ASSUME NEW c \in Clients, Push(c) PROVE SemInv'
  <2>1. /\ pc[c] = "push" /\ pc'[c] = "post" /\ c \in Threads /\ sem' = sem
        /\ \A w \in Workers : pc'[w] = pc[w]
    BY <1>28 DEF Push, Goto, TypeOK, Threads
  <2> QED
    BY <2>1 DEF SemInv
<1> QED
  BY <1>1, <1>2, <1>3, <1>4, <1>5, <1>6, <1>7, <1>8, <1>9, <1>10, <1>11, <1>12, <1>13, <1>14, <1>15, <1>16, <1>17, <1>18, <1>19, <1>20, <1>21, <1>22, <1>23, <1>24, <1>25, <1>26, <1>27, <1>28
     DEF Next, WorkerStep, ClientStep, ClientCall

\* In every reachable state a queued job has the semaphore up or a worker
\* fetching, and an upped semaphore has a worker about to try it.
THEOREM SemInvariance == Spec => []SemInv
<1>1. Init => SemInv
  BY DEF Init, SemInv
<1>2. PoolInv => TypeOK
  BY DEF PoolInv
<1> QED
  BY <1>1, <1>2, NextSemInv, PoolInvariance, PTL DEF Spec

-----------------------------------------------------------------------------
(* The mutexes *)

In(t, m) == pc[t] \in Sections[m]

\* Nobody but t enters or leaves a section, and t none but m's.
OthersStay(t, m) ==
  \A u \in Threads, n \in Mutexes : u # t \/ n # m => (In(u, n)' <=> In(u, n))

LEMMA HoldersKept ==
  ASSUME Holders, UNCHANGED owner,
         \A t \in Threads, m \in Mutexes : In(t, m)' <=> In(t, m)
  PROVE  Holders'
BY DEF Holders, In

\* A free mutex is taken by the thread that enters a section of it, and set
\* free by the thread that leaves.
LEMMA HolderEnters ==
  ASSUME TypeOK, Holders, NEW t \in Threads, NEW m \in Mutexes,
         owner[m] = None, owner' = [owner EXCEPT ![m] = t],
         In(t, m)', OthersStay(t, m)
  PROVE  Holders'
<1>1. \A n \in Mutexes : owner'[n] = IF n = m THEN t ELSE owner[n]
  BY DEF TypeOK
<1>2. \A u \in Threads : ~In(u, m)
  BY PoolAssumption DEF Holders, In, Threads
<1> QED
  BY <1>1, <1>2 DEF Holders, In, OthersStay

LEMMA HolderLeaves ==
  ASSUME TypeOK, Holders, NEW t \in Threads, NEW m \in Mutexes,
         Release(m), In(t, m), ~In(t, m)', OthersStay(t, m)
  PROVE  Holders'
<1>1. \A n \in Mutexes : owner'[n] = IF n = m THEN None ELSE owner[n]
  BY DEF TypeOK, Release
<1>2. \A u \in Threads : u # t => ~In(u, m)
  BY DEF Holders, In
<1>3. None \notin Threads
  BY PoolAssumption DEF Threads
<1> QED
  BY <1>1, <1>2, <1>3 DEF Holders, In, OthersStay

\* A thread goes from label to label.
LEMMA StepAside ==
  ASSUME TypeOK, NEW t \in Threads, NEW l, Goto(t, l)
  PROVE  pc'[t] = l /\ \A u \in Threads \ {t} : pc'[u] = pc[u]
BY DEF TypeOK, Goto

\* The sections of each mutex, label by label.
LEMMA InSection ==
  ASSUME NEW t \in Threads
  PROVE  /\ In(t, "th") <=> pc[t] \in {"alive", "working", "finish", "leave", "unlock"}
         /\ In(t, "rw") <=> pc[t] \in {"pulling", "post", "posting", "pulled"}
         /\ In(t, "sem") <=> pc[t] \in {"take", "posting"}
         /\ In(t, "th")' <=> pc'[t] \in {"alive", "working", "finish", "leave", "unlock"}
         /\ In(t, "rw")' <=> pc'[t] \in {"pulling", "post", "posting", "pulled"}
         /\ In(t, "sem")' <=> pc'[t] \in {"take", "posting"}
BY DEF In, Sections

\* A worker that gets a mutex enters a section of it.
LEMMA LockHolders ==
  ASSUME TypeOK, Holders, NEW w \in Workers, Lock(w)
  PROVE  Holders'
<1>1. DOMAIN LockAt = {"start", "sem", "inc", "pull", "post", "dec", "exit"}
  BY DEF LockAt
<1>2. /\ w \in Threads /\ pc[w] \in DOMAIN LockAt
      /\ pc'[w] = Section[pc[w]] /\ \A u \in Threads \ {w} : pc'[u] = pc[u]
  BY StepAside DEF Lock, Threads
<1>3. PICK m \in Mutexes : m = LockAt[pc[w]]
  BY <1>1, <1>2 DEF LockAt, Mutexes
<1>4. /\ Section[pc[w]] \in Sections[m]
      /\ \A n \in Mutexes \ {m} :
           Section[pc[w]] \in Sections[n] <=> pc[w] \in Sections[n]
  BY <1>1, <1>2, <1>3 DEF LockAt, Section, Sections, Mutexes
<1>5. In(w, m)' /\ OthersStay(w, m)
  BY <1>2, <1>4 DEF In, OthersStay
<1>6. owner[m] = None /\ owner' = [owner EXCEPT ![m] = w]
  BY <1>3 DEF Lock
<1> QED
  BY <1>2, <1>5, <1>6, HolderEnters

LEMMA NextHolders == TypeOK /\ Holders /\ [Next]_vars => Holders'
<1> SUFFICES ASSUME TypeOK, Holders, [Next]_vars PROVE Holders'
  OBVIOUS
<1>0. \A w \in Workers : w \in Threads
  BY DEF Threads
<1>01. \A c \in Clients : c \in Threads
  BY DEF Threads
<1>02. "th" \in Mutexes /\ "rw" \in Mutexes /\ "sem" \in Mutexes
  BY DEF Mutexes
<1>1. CASE UNCHANGED vars
  BY <1>1, HoldersKept DEF vars, In
<1>2. ASSUME NEW w \in Workers, Lock(w) PROVE Holders'
  BY <1>2, LockHolders
<1>3. ASSUME NEW w \in Workers, Loop(w) PROVE Holders'
  <2>1. \A t \in Threads, m \in Mutexes : In(t, m)' <=> In(t, m)
    BY <1>3, <1>0, StepAside, InSection DEF Loop, Mutexes
  <2> QED
    BY <1>3, <2>1, HoldersKept DEF Loop
<1>4. ASSUME NEW w \in Workers, Got(w) PROVE Holders'
  <2>1. \A t \in Threads, m \in Mutexes : In(t, m)' <=> In(t, m)
    BY <1>4, <1>0, StepAside, InSection DEF Got, Mutexes
  <2> QED
    BY <1>4, <2>1, HoldersKept DEF Got
<1>5. ASSUME NEW w \in Workers, Run(w) PROVE Holders'
  <2>1. \A t \in Threads, m \in Mutexes : In(t, m)' <=> In(t, m)
    BY <1>5, <1>0, StepAside, InSection DEF Run, Mutexes
  <2> QED
    BY <1>5, <2>1, HoldersKept DEF Run
<1>6. ASSUME NEW w \in Workers, Leave(w) PROVE Holders'
  <2>1. \A t \in Threads, m \in Mutexes : In(t, m)' <=> In(t, m)
    BY <1>6, <1>0, StepAside, InSection DEF Leave, Mutexes
  <2> QED
    BY <1>6, <2>1, HoldersKept DEF Leave
<1>7. ASSUME NEW w \in Workers, Alive(w) PROVE Holders'
  <2>1. In(w, "th") /\ ~In(w, "th")' /\ OthersStay(w, "th")
    BY <1>7, <1>0, StepAside, InSection DEF Alive, Mutexes, OthersStay
  <2> QED
    BY <1>7, <1>0, <1>02, <2>1, HolderLeaves DEF Alive
<1>8. ASSUME NEW w \in Workers, SemTake(w) PROVE Holders'
  <2>1. In(w, "sem") /\ ~In(w, "sem")' /\ OthersStay(w, "sem")
    BY <1>8, <1>0, StepAside, InSection DEF SemTake, Mutexes, OthersStay
  <2> QED
    BY <1>8, <1>0, <1>02, <2>1, HolderLeaves DEF SemTake
<1>9. ASSUME NEW w \in Workers, Working(w) PROVE Holders'
  <2>1. In(w, "th") /\ ~In(w, "th")' /\ OthersStay(w, "th")
    BY <1>9, <1>0, StepAside, InSection DEF Working, Mutexes, OthersStay
  <2> QED
    BY <1>9, <1>0, <1>02, <2>1, HolderLeaves DEF Working
<1>10. ASSUME NEW w \in Workers, Pulled(w) PROVE Holders'
  <2>1. In(w, "rw") /\ ~In(w, "rw")' /\ OthersStay(w, "rw")
    BY <1>10, <1>0, StepAside, InSection DEF Pulled, Mutexes, OthersStay
  <2> QED
    BY <1>10, <1>0, <1>02, <2>1, HolderLeaves DEF Pulled
<1>11. ASSUME NEW w \in Workers, Unlock(w) PROVE Holders'
  <2>1. In(w, "th") /\ ~In(w, "th")' /\ OthersStay(w, "th")
    BY <1>11, <1>0, StepAside, InSection DEF Unlock, Mutexes, OthersStay
  <2> QED
    BY <1>11, <1>0, <1>02, <2>1, HolderLeaves DEF Unlock
<1>12. ASSUME NEW w \in Workers, Pull(w) PROVE Holders'
  <2>1. CASE Len(queue) > 1 /\ queue # <<>>
    <3>1. \A t \in Threads, m \in Mutexes : In(t, m)' <=> In(t, m)
      BY <1>12, <1>0, <2>1, StepAside, InSection DEF Pull, Mutexes
    <3> QED
      BY <1>12, <2>1, <3>1, HoldersKept DEF Pull
  <2>2. CASE ~(Len(queue) > 1)
    <3>1. In(w, "rw") /\ ~In(w, "rw")' /\ OthersStay(w, "rw")
      BY <1>12, <1>0, <2>2, StepAside, InSection DEF Pull, Mutexes, OthersStay
    <3> QED
      BY <1>12, <1>0, <1>02, <2>2, <3>1, HolderLeaves DEF Pull
  <2>3. queue = <<>> => ~(Len(queue) > 1)
    OBVIOUS
  <2> QED
    BY <2>1, <2>2, <2>3
<1>13. ASSUME NEW w \in Workers, Post(w) PROVE Holders'
  <2>1. In(w, "sem") /\ ~In(w, "sem")' /\ OthersStay(w, "sem")
    BY <1>13, <1>0, PostEffect, InSection DEF Post, Mutexes, OthersStay
  <2> QED
    BY <1>13, <1>0, <1>02, <2>1, HolderLeaves DEF Post
<1>14. ASSUME NEW w \in Workers, Finish(w) PROVE Holders'
  <2>1. In(w, "th") /\ ~In(w, "th")' /\ OthersStay(w, "th")
    BY <1>14, <1>0, FinishEffect, InSection DEF Finish, Mutexes, OthersStay
  <2> QED
    BY <1>14, <1>0, <1>02, <2>1, HolderLeaves DEF Finish
<1>15. ASSUME NEW w \in Workers, Hold(w) PROVE Holders'
  BY <1>15, HoldersKept DEF Hold, In
<1>16. ASSUME NEW w \in Workers, Unhold(w) PROVE Holders'
  BY <1>16, HoldersKept DEF Unhold, In
<1>17. ASSUME NEW c \in Clients, Pause(c) PROVE Holders'
  BY <1>17, HoldersKept DEF Pause, In
<1>18. ASSUME NEW c \in Clients, Resume(c) PROVE Holders'
  BY <1>18, HoldersKept DEF Resume, In
<1>19. ASSUME NEW c \in Clients, Started(c) PROVE Holders'
  <2>1. \A t \in Threads, m \in Mutexes : In(t, m)' <=> In(t, m)
    BY <1>19, <1>01, StepAside, InSection DEF Started, Mutexes
  <2> QED
    BY <1>19, <2>1, HoldersKept DEF Started
<1>20. ASSUME NEW c \in Clients, Wait(c) PROVE Holders'
  <2>1. \A t \in Threads, m \in Mutexes : In(t, m)' <=> In(t, m)
    BY <1>20, <1>01, StepAside, InSection DEF Wait, Mutexes
  <2> QED
    BY <1>20, <2>1, HoldersKept DEF Wait
<1>21. ASSUME NEW c \in Clients, DestroyFree(c) PROVE Holders'
  <2>1. \A t \in Threads, m \in Mutexes : In(t, m)' <=> In(t, m)
    BY <1>21, <1>01, StepAside, InSection DEF DestroyFree, Mutexes
  <2> QED
    BY <1>21, <2>1, HoldersKept DEF DestroyFree
<1>22. ASSUME NEW c \in Clients, AddWork(c) PROVE Holders'
  <2>1. \A t \in Threads, m \in Mutexes : In(t, m)' <=> In(t, m)
    BY <1>22, <1>01, StepAside, InSection DEF AddWork, Mutexes
  <2> QED
    BY <1>22, <2>1, HoldersKept DEF AddWork
<1>23. ASSUME NEW c \in Clients, WaitCall(c) PROVE Holders'
  <2>1. \A t \in Threads, m \in Mutexes : In(t, m)' <=> In(t, m)
    BY <1>23, <1>01, StepAside, InSection DEF WaitCall, Mutexes
  <2> QED
    BY <1>23, <2>1, HoldersKept DEF WaitCall
<1>24. ASSUME NEW c \in Clients, Destroy(c) PROVE Holders'
  <2>1. \A t \in Threads, m \in Mutexes : In(t, m)' <=> In(t, m)
    BY <1>24, <1>01, StepAside, InSection DEF Destroy, Mutexes
  <2> QED
    BY <1>24, <2>1, HoldersKept DEF Destroy
<1>25. ASSUME NEW c \in Clients, Push(c) PROVE Holders'
  <2>1. In(c, "rw")' /\ OthersStay(c, "rw")
    BY <1>25, <1>01, StepAside, InSection DEF Push, Mutexes, OthersStay
  <2> QED
    BY <1>25, <1>01, <1>02, <2>1, HolderEnters DEF Push
<1>26. ASSUME NEW c \in Clients, PushPost(c) PROVE Holders'
  <2>1. In(c, "rw") /\ ~In(c, "rw")' /\ OthersStay(c, "rw")
    BY <1>26, <1>01, PostEffect, InSection DEF PushPost, Mutexes, OthersStay
  <2> QED
    BY <1>26, <1>01, <1>02, <2>1, HolderLeaves DEF PushPost
<1>27. ASSUME NEW c \in Clients, DestroyPost(c) PROVE Holders'
  <2>1. \A t \in Threads : pc'[t] = IF pc[t] = "sleep" THEN "sem" ELSE pc[t]
    BY <1>27 DEF DestroyPost
  <2>2. \A t \in Threads, m \in Mutexes : In(t, m)' <=> In(t, m)
    BY <2>1, InSection DEF Mutexes
  <2> QED
    BY <1>27, <2>2, HoldersKept DEF DestroyPost
<1>28. ASSUME NEW t \in Threads, SpuriousWake(t) PROVE Holders'
  <2>1. \A u \in Threads, m \in Mutexes : In(u, m)' <=> In(u, m)
    BY <1>28, StepAside, InSection DEF SpuriousWake, Mutexes
  <2> QED
    BY <1>28, <2>1, HoldersKept DEF SpuriousWake
<1> QED
  BY <1>1, <1>2, <1>3, <1>4, <1>5, <1>6, <1>7, <1>8, <1>9, <1>10, <1>11, <1>12, <1>13, <1>14, <1>15, <1>16, <1>17, <1>18, <1>19, <1>20, <1>21, <1>22, <1>23, <1>24, <1>25, <1>26, <1>27, <1>28
     DEF Next, WorkerStep, ClientStep, ClientCall

\* A mutex of the pool is always with the one thread that is in a section of
\* it, and free when there is none.
THEOREM HoldersInvariance == Spec => []Holders
<1>1. Init => Holders
  BY PoolAssumption DEF Init, Holders, Threads, Mutexes, Sections
<1>2. PoolInv => TypeOK
  BY DEF PoolInv
<1> QED
  BY <1>1, <1>2, NextHolders, PoolInvariance, PTL DEF Spec

\* Nobody waits for ever for a mutex, but behind a worker that thpool_pause has
\* caught: of the three mutexes only rwmutex is held by a thread that asks for
\* another, has_jobs->mutex, whose owners ask for none.
THEOREM LockWaitsEnd == Spec => []WaitsEnd
<1>1. ASSUME TypeOK, Holders PROVE WaitsEnd
  <2> USE <1>1
  \* Who is in a section is not parked; he asks for a mutex only from "post",
  \* and then for has_jobs->mutex.
  <2>1. ASSUME NEW t \in Threads, NEW m \in Mutexes, In(t, m)
        PROVE  /\ ~Parked(t)
               /\ Wanted(t) \subseteq {"sem"}
               /\ m = "sem" => Wanted(t) = {}
    <3>1. /\ pc[t] \in {"alive", "working", "finish", "leave", "unlock",
                        "pulling", "post", "posting", "pulled", "take"}
          /\ m = "sem" => pc[t] # "post"
      BY <2>1, InSection DEF Mutexes
    <3>2. /\ DOMAIN LockAt = {"start", "sem", "inc", "pull", "post", "dec", "exit"}
          /\ LockAt["post"] = "sem"
          /\ DOMAIN ClientLockAt = {"push", "post", "wait", "destroy"}
          /\ ClientLockAt["post"] = "sem"
      BY DEF LockAt, ClientLockAt
    <3>3. pc[t] # "post" => Wanted(t) = {}
      BY <3>1, <3>2 DEF Wanted
    <3>4. pc[t] = "post" => Wanted(t) = {"sem"}
      BY <3>2 DEF Wanted
    <3> QED
      BY <3>1, <3>3, <3>4 DEF Parked
  <2>2. ASSUME NEW t \in Threads PROVE Wanted(t) \subseteq Mutexes
    BY DEF Wanted, LockAt, ClientLockAt, Mutexes
  <2>3. ASSUME NEW t \in Threads, NEW u \in Behind(t)
        PROVE  u \in Threads /\ \E m \in Wanted(t) : m \in Mutexes /\ In(u, m)
    BY <2>2, <2>3 DEF Behind, Holders, In, TypeOK
  <2>4. ASSUME NEW t \in Threads, Wanted(t) = {} PROVE Behind(t) = {}
    BY <2>4 DEF Behind
  <2>5. ASSUME NEW t \in Threads, NEW u \in Behind(t), NEW v \in Behind(u)
        PROVE  ~Parked(v) /\ Behind(v) = {}
    <3>1. u \in Threads /\ Wanted(u) \subseteq {"sem"}
      BY <2>1, <2>3, <2>5
    <3>2. v \in Threads /\ "sem" \in Mutexes /\ In(v, "sem")
      BY <2>3, <2>5, <3>1
    <3> QED
      BY <2>1, <2>4, <3>2
  <2> QED
    BY <2>1, <2>3, <2>5 DEF WaitsEnd
<1>2. PoolInv => TypeOK
  BY DEF PoolInv
<1> QED
  BY <1>1, <1>2, HoldersInvariance, PoolInvariance, PTL

-----------------------------------------------------------------------------
(* The life of the workers *)

\* The counter follows the set of living workers.
LEMMA AliveMore ==
  ASSUME AliveCount, NEW v \in Workers, ~Living(v), Living(v)', alive' = alive + 1,
         \A w \in Workers : w # v => (Living(w)' <=> Living(w))
  PROVE  AliveCount'
<1> DEFINE B == {w \in Workers : Living(w)}
<1>1. {w \in Workers : Living(w)'} = B \cup {v}
  OBVIOUS
<1>2. IsFiniteSet(B) /\ v \notin B
  BY PoolAssumption, FS_Subset
<1>3. Cardinality(B \cup {v}) = Cardinality(B) + 1
  BY <1>2, FS_AddElement
<1> QED
  BY <1>1, <1>3 DEF AliveCount

LEMMA AliveLess ==
  ASSUME AliveCount, NEW v \in Workers, Living(v), ~Living(v)', alive' = alive - 1,
         \A w \in Workers : w # v => (Living(w)' <=> Living(w))
  PROVE  AliveCount'
<1> DEFINE B == {w \in Workers : Living(w)}
<1>1. {w \in Workers : Living(w)'} = B \ {v}
  OBVIOUS
<1>2. IsFiniteSet(B) /\ v \in B
  BY PoolAssumption, FS_Subset
<1>3. Cardinality(B \ {v}) = Cardinality(B) - 1
  BY <1>2, FS_RemoveElement
<1> QED
  BY <1>1, <1>3 DEF AliveCount

\* What most steps do: no worker begins or ends its life, no client begins.
Stages == {{"start", "alive"}, {"unlock", "gone"}}
SameLives ==
  /\ UNCHANGED <<alive, freed>>
  /\ \A w \in Workers, s \in Stages : pc'[w] \in s <=> pc[w] \in s
  /\ \A c \in Clients : pc[c] = "init" => pc'[c] = "init"

LEMMA LivesKept ==
  ASSUME LifeInv, SameLives
  PROVE  LifeInv'
<1>1. \A w \in Workers : Living(w)' <=> Living(w)
  BY DEF SameLives, Stages, Living
<1>2. {w \in Workers : Living(w)'} = {w \in Workers : Living(w)}
  BY <1>1
<1>3. AliveCount'
  BY <1>2 DEF LifeInv, AliveCount, SameLives
<1>4. Begun'
  BY DEF LifeInv, Begun, SameLives, Stages
<1>5. OnlyUnlockLeft'
  BY DEF LifeInv, OnlyUnlockLeft, SameLives, Stages
<1> QED
  BY <1>3, <1>4, <1>5 DEF LifeInv

LEMMA NextLifeInv == TypeOK /\ LifeInv /\ [Next]_vars => LifeInv'
<1> SUFFICES ASSUME TypeOK, LifeInv, [Next]_vars PROVE LifeInv'
  OBVIOUS
<1> USE PoolAssumption
<1>1. CASE UNCHANGED vars
  BY <1>1, LivesKept DEF vars, SameLives
<1>2. ASSUME NEW w \in Workers, Lock(w) PROVE LifeInv'
  <2>1. SameLives
    BY <1>2, LockCases DEF SameLives, Stages, TypeOK, Threads, counters, history
  <2> QED
    BY <2>1, LivesKept
<1>3. ASSUME NEW w \in Workers, Loop(w) PROVE LifeInv'
  <2>1. SameLives
    BY <1>3 DEF Loop, Goto, SameLives, Stages, TypeOK, Threads, counters, history
  <2> QED
    BY <2>1, LivesKept
<1>4. ASSUME NEW w \in Workers, SemTake(w) PROVE LifeInv'
  <2>1. SameLives
    BY <1>4 DEF SemTake, Goto, SameLives, Stages, TypeOK, Threads, counters, history
  <2> QED
    BY <2>1, LivesKept
<1>5. ASSUME NEW w \in Workers, Got(w) PROVE LifeInv'
  <2>1. SameLives
    BY <1>5 DEF Got, Goto, SameLives, Stages, TypeOK, Threads, counters, history
  <2> QED
    BY <2>1, LivesKept
<1>6. ASSUME NEW w \in Workers, Working(w) PROVE LifeInv'
  <2>1. SameLives
    BY <1>6 DEF Working, Goto, SameLives, Stages, TypeOK, Threads, counters, history
  <2> QED
    BY <2>1, LivesKept
<1>7. ASSUME NEW w \in Workers, Pull(w) PROVE LifeInv'
  <2>1. SameLives
    BY <1>7 DEF Pull, Goto, SameLives, Stages, TypeOK, Threads, counters, history
  <2> QED
    BY <2>1, LivesKept
<1>8. ASSUME NEW w \in Workers, Run(w) PROVE LifeInv'
  <2>1. SameLives
    BY <1>8 DEF Run, Goto, SameLives, Stages, TypeOK, Threads, counters, history
  <2> QED
    BY <2>1, LivesKept
<1>9. ASSUME NEW w \in Workers, Unlock(w) PROVE LifeInv'
  <2>1. SameLives
    BY <1>9 DEF Unlock, Goto, SameLives, Stages, TypeOK, Threads, counters, history
  <2> QED
    BY <2>1, LivesKept
<1>10. ASSUME NEW w \in Workers, Hold(w) PROVE LifeInv'
  <2>1. SameLives
    BY <1>10 DEF Hold, SameLives, Stages, TypeOK, Threads, counters, history
  <2> QED
    BY <2>1, LivesKept
<1>11. ASSUME NEW w \in Workers, Unhold(w) PROVE LifeInv'
  <2>1. SameLives
    BY <1>11 DEF Unhold, SameLives, Stages, TypeOK, Threads, counters, history
  <2> QED
    BY <2>1, LivesKept
<1>12. ASSUME NEW w \in Workers, Finish(w) PROVE LifeInv'
  <2>1. SameLives
    BY <1>12, FinishEffect DEF Finish, SameLives, Stages, TypeOK, Threads, history
  <2> QED
    BY <2>1, LivesKept
<1>13. ASSUME NEW t \in Threads, NEW l \in {"pulled", "idle"}, Up(t, l),
               pc[t] \in {"post", "posting"}, t \in Workers => l = "pulled",
               UNCHANGED <<alive, freed>>
        PROVE  LifeInv'
  <2>1. SameLives
    BY <1>13, PostEffect DEF SameLives, Stages, TypeOK, Threads
  <2> QED
    BY <2>1, LivesKept
<1>14. ASSUME NEW c \in Clients, Wait(c) PROVE LifeInv'
  <2>1. SameLives
    BY <1>14 DEF Wait, Goto, SameLives, Stages, TypeOK, Threads, counters, history
  <2> QED
    BY <2>1, LivesKept
<1>15. ASSUME NEW c \in Clients, DestroyPost(c) PROVE LifeInv'
  <2>1. SameLives
    BY <1>15 DEF DestroyPost, SameLives, Stages, TypeOK, Threads, counters, history
  <2> QED
    BY <2>1, LivesKept
<1>16. ASSUME NEW c \in Clients, AddWork(c) PROVE LifeInv'
  <2>1. SameLives
    BY <1>16 DEF AddWork, Goto, SameLives, Stages, TypeOK, Threads, counters, history
  <2> QED
    BY <2>1, LivesKept
<1>17. ASSUME NEW c \in Clients, WaitCall(c) PROVE LifeInv'
  <2>1. SameLives
    BY <1>17 DEF WaitCall, Goto, SameLives, Stages, TypeOK, Threads, counters, history
  <2> QED
    BY <2>1, LivesKept
<1>18. ASSUME NEW c \in Clients, Pause(c) PROVE LifeInv'
  <2>1. SameLives
    BY <1>18 DEF Pause, SameLives, Stages, TypeOK, Threads, counters, history
  <2> QED
    BY <2>1, LivesKept
<1>19. ASSUME NEW c \in Clients, Resume(c) PROVE LifeInv'
  <2>1. SameLives
    BY <1>19 DEF Resume, SameLives, Stages, TypeOK, Threads, counters, history
  <2> QED
    BY <2>1, LivesKept
<1>20. ASSUME NEW c \in Clients, Destroy(c) PROVE LifeInv'
  <2>1. SameLives
    BY <1>20 DEF Destroy, Goto, SameLives, Stages, TypeOK, Threads, counters, history
  <2> QED
    BY <2>1, LivesKept
<1>21. ASSUME NEW t \in Threads, SpuriousWake(t) PROVE LifeInv'
  <2>1. SameLives
    BY <1>21 DEF SpuriousWake, Goto, SameLives, Stages, TypeOK, Threads, counters, history
  <2> QED
    BY <2>1, LivesKept
\* A worker is counted, before any client's call.
<1>22. ASSUME NEW w \in Workers, Alive(w) PROVE LifeInv'
  <2>1. /\ pc[w] = "alive" /\ pc'[w] = "loop"
        /\ \A t \in Threads \ {w} : pc'[t] = pc[t]
        /\ alive' = alive + 1 /\ freed' = freed
    BY <1>22 DEF Alive, Goto, TypeOK, Threads, history
  <2>2. AliveCount'
    BY <2>1, AliveMore DEF LifeInv, Living, Threads
  <2>3. Begun' /\ OnlyUnlockLeft'
    BY <2>1 DEF LifeInv, Begun, OnlyUnlockLeft, Threads
  <2> QED
    BY <2>2, <2>3 DEF LifeInv
<1>23. ASSUME NEW w \in Workers, Leave(w) PROVE LifeInv'
  <2>1. /\ pc[w] = "leave" /\ pc'[w] = "unlock"
        /\ \A t \in Threads \ {w} : pc'[t] = pc[t]
        /\ alive' = alive - 1 /\ freed' = freed
    BY <1>23 DEF Leave, Goto, TypeOK, Threads, history
  <2>2. AliveCount'
    BY <2>1, AliveLess DEF LifeInv, Living, Threads
  <2>3. Begun' /\ OnlyUnlockLeft'
    BY <2>1 DEF LifeInv, Begun, OnlyUnlockLeft, Threads
  <2> QED
    BY <2>2, <2>3 DEF LifeInv
\* As many are alive as there are workers, so all of them are.
<1>24. ASSUME NEW c \in Clients, Started(c) PROVE LifeInv'
  <2> DEFINE B == {w \in Workers : Living(w)}
  <2>1. B = Workers
    <3>1. B \subseteq Workers /\ Cardinality(B) = Cardinality(Workers)
      BY <1>24 DEF Started, LifeInv, AliveCount
    <3> QED
      BY <3>1, FS_Subset
  <2>2. \A w \in Workers : pc'[w] = pc[w]
    BY <1>24 DEF Started, Goto, TypeOK, Threads
  <2>3. Begun'
    BY <2>1, <2>2 DEF Begun, Living
  <2>4. {w \in Workers : Living(w)'} = B
    BY <2>2 DEF Living
  <2>5. AliveCount'
    BY <1>24, <2>4 DEF LifeInv, AliveCount, Started, counters
  <2>6. OnlyUnlockLeft'
    BY <1>24, <2>2 DEF LifeInv, OnlyUnlockLeft, Started, history
  <2> QED
    BY <2>3, <2>5, <2>6 DEF LifeInv
\* Nobody is alive and everybody was, so all have left.
<1>25. ASSUME NEW c \in Clients, DestroyFree(c) PROVE LifeInv'
  <2> DEFINE B == {w \in Workers : Living(w)}
  <2>1. B = {}
    <3>1. IsFiniteSet(B) /\ Cardinality(B) = 0
      BY <1>25, FS_Subset DEF DestroyFree, LifeInv, AliveCount
    <3> QED
      BY <3>1, FS_EmptySet
  <2>2. \A w \in Workers : pc'[w] = pc[w]
    BY <1>25 DEF DestroyFree, Goto, TypeOK, Threads
  <2>3. \A w \in Workers : pc[w] \in {"unlock", "gone"}
    BY <1>25, <2>1 DEF LifeInv, Begun, DestroyFree, Living
  <2>4. {w \in Workers : Living(w)'} = B
    BY <2>2 DEF Living
  <2>5. AliveCount'
    BY <1>25, <2>4 DEF LifeInv, AliveCount, DestroyFree, counters
  <2>6. Begun' /\ OnlyUnlockLeft'
    BY <2>2, <2>3 DEF Begun, OnlyUnlockLeft
  <2> QED
    BY <2>5, <2>6 DEF LifeInv
<1>26. ASSUME NEW w \in Workers, Post(w) PROVE LifeInv'
  BY <1>26, <1>13 DEF Post, Threads, counters, history
<1>27. ASSUME NEW c \in Clients, PushPost(c) PROVE LifeInv'
  BY <1>27, <1>13 DEF PushPost, Threads, counters, history
<1>28. ASSUME NEW w \in Workers, Pulled(w) PROVE LifeInv'
  <2>1. SameLives
    BY <1>28 DEF Pulled, Goto, SameLives, Stages, TypeOK, Threads, counters, history
  <2> QED
    BY <2>1, LivesKept
<1>29. ASSUME NEW c \in Clients, Push(c) PROVE LifeInv'
  <2>1. SameLives
    BY <1>29 DEF Push, Goto, SameLives, Stages, TypeOK, Threads, counters
  <2> QED
    BY <2>1, LivesKept
<1> QED
  BY <1>1, <1>2, <1>3, <1>4, <1>5, <1>6, <1>7, <1>8, <1>9, <1>10, <1>11, <1>12, <1>13, <1>14, <1>15, <1>16, <1>17, <1>18, <1>19, <1>20, <1>21, <1>22, <1>23, <1>24, <1>25, <1>26, <1>27, <1>28, <1>29
     DEF Next, WorkerStep, ClientStep, ClientCall

\* num_threads_alive is exact from the first worker's += to the last one's --.
THEOREM LifeInvariance == Spec => []LifeInv
<1>1. Init => LifeInv
  <2> SUFFICES ASSUME Init PROVE LifeInv
    OBVIOUS
  <2>1. {w \in Workers : Living(w)} = {}
    BY DEF Init, Living, Threads
  <2>2. AliveCount
    BY <2>1, FS_EmptySet DEF Init, AliveCount
  <2>3. Begun /\ OnlyUnlockLeft
    BY PoolAssumption DEF Init, Begun, OnlyUnlockLeft, Threads
  <2> QED
    BY <2>2, <2>3 DEF LifeInv
<1>2. PoolInv => TypeOK
  BY DEF PoolInv
<1> QED
  BY <1>1, <1>2, NextLifeInv, PoolInvariance, PTL DEF Spec

\* thpool_destroy frees the pool when every worker has at most the unlock of
\* thcount_lock left: none looks at a queue, a counter or a flag any more.
THEOREM FreedAfterWorkers == Spec => []OnlyUnlockLeft
<1>1. LifeInv => OnlyUnlockLeft
  BY DEF LifeInv
<1> QED
  BY <1>1, LifeInvariance, PTL

==============================================================================
