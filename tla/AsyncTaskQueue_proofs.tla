------------------------ MODULE AsyncTaskQueue_proofs ------------------------
(***************************************************************************)
(* Proofs about AsyncTaskQueue for any clients and any number of tasks, as *)
(* long as lock_it excludes or the loop's thread is the only one.          *)
(***************************************************************************)
EXTENDS AsyncTaskQueue, SequenceTheorems, TLAPS

\* What the queue needs: a lock that excludes, or no thread to exclude.
Sound == Excludes \/ Clients = {}

\* What linking one more task does to the history.
LEMMA AppendFacts ==
  ASSUME NEW s \in Seq(Tasks), NEW k \in Tasks
  PROVE  /\ Append(s, k) \in Seq(Tasks)
         /\ Len(Append(s, k)) = Len(s) + 1
         /\ \A i \in 1..Len(s) : Append(s, k)[i] = s[i]
         /\ Append(s, k)[Len(s) + 1] = k
BY AppendProperties

-----------------------------------------------------------------------------
(* Every step keeps the invariant: one lemma per action *)

\* A new task is in nobody else's hands.
LEMMA AsyncKeeps ==
  ASSUME QueueInv, Sound, NEW t \in Threads, ~fault, Async(t)
  PROVE  QueueInv'
<1>1. TypeOK'
  BY TaskAssumption DEF Async, CanCall, NewTask, Goto, list, batch, Home,
     NULL, QueueInv, TypeOK, Threads, Tasks, SubmitLabels, LoopLabels
<1>2. Exclusion'
  BY DEF Async, CanCall, NewTask, Goto, list, batch, Home, NULL, QueueInv,
     TypeOK, Threads, Exclusion, Inside
<1>3. HandsFresh'
  BY TaskAssumption DEF Async, CanCall, NewTask, Goto, list, batch, Home,
     NULL, QueueInv, TypeOK, Threads, HandsFresh, Unlinked, Allocated, Tasks
<1>4. Allocated'
  BY TaskAssumption DEF Async, CanCall, NewTask, Goto, list, batch, Home,
     NULL, QueueInv, TypeOK, Threads, Allocated, HandsFresh, Unlinked, Tasks
<1>5. StillTrue'
  BY DEF Async, CanCall, NewTask, Goto, list, batch, Home, NULL, QueueInv,
     TypeOK, Threads, StillTrue
<1>6. ListShape'
  BY DEF Async, CanCall, NewTask, Goto, list, batch, Home, NULL, QueueInv,
     TypeOK, Threads, ListShape, Nth
<1>7. BatchShape'
  BY TaskAssumption DEF Async, CanCall, NewTask, Goto, list, batch, Home,
     NULL, QueueInv, TypeOK, Threads, BatchShape, InCallback, Taking,
     SubmitLabels, Nth
<1>8. OnceEach'
  BY TaskAssumption DEF Async, CanCall, NewTask, Goto, list, batch, Home,
     NULL, QueueInv, TypeOK, Threads, OnceEach, InCallback, SubmitLabels
<1>9. Retired'
  BY DEF Async, CanCall, NewTask, Goto, list, batch, Home, NULL, QueueInv,
     TypeOK, Threads, Retired
<1> QED
  BY <1>1, <1>2, <1>3, <1>4, <1>5, <1>6, <1>7, <1>8, <1>9 DEF QueueInv

\* do_loop_quit on the spot touches loop->run alone.
LEMMA QuitInLoopKeeps ==
  ASSUME QueueInv, Sound, ~fault, QuitInLoop
  PROVE  QueueInv'
<1>1. TypeOK'
  BY TaskAssumption DEF QuitInLoop, CanCall, list, batch, calls, Home, NULL,
     QueueInv, TypeOK, Threads, Tasks, SubmitLabels, LoopLabels
<1>2. Exclusion'
  BY DEF QuitInLoop, CanCall, list, batch, calls, Home, NULL, QueueInv, TypeOK,
     Threads, Exclusion, Inside
<1>3. HandsFresh'
  BY DEF QuitInLoop, CanCall, list, batch, calls, Home, NULL, QueueInv, TypeOK,
     Threads, HandsFresh, Unlinked
<1>4. Allocated'
  BY DEF QuitInLoop, CanCall, list, batch, calls, Home, NULL, QueueInv, TypeOK,
     Threads, Allocated
<1>5. StillTrue'
  BY DEF QuitInLoop, CanCall, list, batch, calls, Home, NULL, QueueInv, TypeOK,
     Threads, StillTrue
<1>6. ListShape'
  BY DEF QuitInLoop, CanCall, list, batch, calls, Home, NULL, QueueInv, TypeOK,
     Threads, ListShape, Nth
<1>7. BatchShape'
  BY TaskAssumption DEF QuitInLoop, CanCall, list, batch, calls, Home, NULL,
     QueueInv, TypeOK, Threads, BatchShape, InCallback, Taking, SubmitLabels,
     Nth
<1>8. OnceEach'
  BY DEF QuitInLoop, CanCall, list, batch, calls, Home, NULL, QueueInv, TypeOK,
     Threads, OnceEach, InCallback
<1>9. Retired'
  BY DEF QuitInLoop, CanCall, list, batch, calls, Home, NULL, QueueInv, TypeOK,
     Threads, Retired
<1> QED
  BY <1>1, <1>2, <1>3, <1>4, <1>5, <1>6, <1>7, <1>8, <1>9 DEF QueueInv

\* In another thread a look at it comes first.
LEMMA QuitHereKeeps ==
  ASSUME QueueInv, Sound, NEW t \in Clients, ~fault, QuitHere(t)
  PROVE  QueueInv'
<1>1. TypeOK'
  BY TaskAssumption DEF QuitHere, CanCall, Goto, list, batch, calls, Home, NULL,
     QueueInv, TypeOK, Threads, Tasks, SubmitLabels, LoopLabels
<1>2. Exclusion'
  BY TaskAssumption DEF QuitHere, CanCall, Goto, list, batch, calls, Home, NULL, QueueInv, TypeOK,
     Threads, Exclusion, Inside
<1>3. HandsFresh'
  BY TaskAssumption DEF QuitHere, CanCall, Goto, list, batch, calls, Home, NULL, QueueInv, TypeOK,
     Threads, HandsFresh, Unlinked
<1>4. Allocated'
  BY TaskAssumption DEF QuitHere, CanCall, Goto, list, batch, calls, Home, NULL, QueueInv, TypeOK,
     Threads, Allocated
<1>5. StillTrue'
  BY TaskAssumption DEF QuitHere, CanCall, Goto, list, batch, calls, Home, NULL, QueueInv, TypeOK,
     Threads, StillTrue
<1>6. ListShape'
  BY TaskAssumption DEF QuitHere, CanCall, Goto, list, batch, calls, Home, NULL, QueueInv, TypeOK,
     Threads, ListShape, Nth
<1>7. BatchShape'
  BY TaskAssumption DEF QuitHere, CanCall, Goto, list, batch, calls, Home, NULL,
     QueueInv, TypeOK, Threads, BatchShape, InCallback, Taking, SubmitLabels,
     Nth
<1>8. OnceEach'
  BY TaskAssumption DEF QuitHere, CanCall, Goto, list, batch, calls, Home, NULL, QueueInv, TypeOK,
     Threads, OnceEach, InCallback
<1>9. Retired'
  BY TaskAssumption DEF QuitHere, CanCall, Goto, list, batch, calls, Home, NULL, QueueInv, TypeOK,
     Threads, Retired
<1> QED
  BY <1>1, <1>2, <1>3, <1>4, <1>5, <1>6, <1>7, <1>8, <1>9 DEF QueueInv

LEMMA DoQuitKeeps ==
  ASSUME QueueInv, Sound, NEW t \in Clients, ~fault, DoQuit(t)
  PROVE  QueueInv'
<1>1. TypeOK'
  BY TaskAssumption DEF DoQuit, Goto, list, batch, calls, Home, NULL,
     QueueInv, TypeOK, Threads, Tasks, SubmitLabels, LoopLabels
<1>2. Exclusion'
  BY TaskAssumption DEF DoQuit, Goto, list, batch, calls, Home, NULL, QueueInv, TypeOK,
     Threads, Exclusion, Inside
<1>3. HandsFresh'
  BY TaskAssumption DEF DoQuit, Goto, list, batch, calls, Home, NULL, QueueInv, TypeOK,
     Threads, HandsFresh, Unlinked
<1>4. Allocated'
  BY TaskAssumption DEF DoQuit, Goto, list, batch, calls, Home, NULL, QueueInv, TypeOK,
     Threads, Allocated
<1>5. StillTrue'
  BY TaskAssumption DEF DoQuit, Goto, list, batch, calls, Home, NULL, QueueInv, TypeOK,
     Threads, StillTrue
<1>6. ListShape'
  BY TaskAssumption DEF DoQuit, Goto, list, batch, calls, Home, NULL, QueueInv, TypeOK,
     Threads, ListShape, Nth
<1>7. BatchShape'
  BY TaskAssumption DEF DoQuit, Goto, list, batch, calls, Home, NULL,
     QueueInv, TypeOK, Threads, BatchShape, InCallback, Taking, SubmitLabels,
     Nth
<1>8. OnceEach'
  BY TaskAssumption DEF DoQuit, Goto, list, batch, calls, Home, NULL, QueueInv, TypeOK,
     Threads, OnceEach, InCallback
<1>9. Retired'
  BY TaskAssumption DEF DoQuit, Goto, list, batch, calls, Home, NULL, QueueInv, TypeOK,
     Threads, Retired
<1> QED
  BY <1>1, <1>2, <1>3, <1>4, <1>5, <1>6, <1>7, <1>8, <1>9 DEF QueueInv

\* A submitted loop_quit is a task like any other.
LEMMA QuitAsyncKeeps ==
  ASSUME QueueInv, Sound, NEW t \in Clients, ~fault, QuitAsync(t)
  PROVE  QueueInv'
<1>1. TypeOK'
  BY TaskAssumption DEF QuitAsync, CanCall, NewTask, Goto, list, batch, Home,
     NULL, QueueInv, TypeOK, Threads, Tasks, SubmitLabels, LoopLabels
<1>2. Exclusion'
  BY DEF QuitAsync, CanCall, NewTask, Goto, list, batch, Home, NULL, QueueInv,
     TypeOK, Threads, Exclusion, Inside
<1>3. HandsFresh'
  BY TaskAssumption DEF QuitAsync, CanCall, NewTask, Goto, list, batch, Home,
     NULL, QueueInv, TypeOK, Threads, HandsFresh, Unlinked, Allocated, Tasks
<1>4. Allocated'
  BY TaskAssumption DEF QuitAsync, CanCall, NewTask, Goto, list, batch, Home,
     NULL, QueueInv, TypeOK, Threads, Allocated, HandsFresh, Unlinked, Tasks
<1>5. StillTrue'
  BY DEF QuitAsync, CanCall, NewTask, Goto, list, batch, Home, NULL, QueueInv,
     TypeOK, Threads, StillTrue
<1>6. ListShape'
  BY DEF QuitAsync, CanCall, NewTask, Goto, list, batch, Home, NULL, QueueInv,
     TypeOK, Threads, ListShape, Nth
<1>7. BatchShape'
  BY TaskAssumption DEF QuitAsync, CanCall, NewTask, Goto, list, batch, Home,
     NULL, QueueInv, TypeOK, Threads, BatchShape, InCallback, Taking,
     SubmitLabels, Nth
<1>8. OnceEach'
  BY TaskAssumption DEF QuitAsync, CanCall, NewTask, Goto, list, batch, Home, NULL,
     QueueInv, TypeOK, Threads, OnceEach, InCallback
<1>9. Retired'
  BY DEF QuitAsync, CanCall, NewTask, Goto, list, batch, Home, NULL, QueueInv,
     TypeOK, Threads, Retired
<1> QED
  BY <1>1, <1>2, <1>3, <1>4, <1>5, <1>6, <1>7, <1>8, <1>9 DEF QueueInv

\* The lock lets one thread in.
LEMMA LockKeeps ==
  ASSUME QueueInv, Sound, NEW t \in Threads, ~fault, Lock(t)
  PROVE  QueueInv'
<1>1. TypeOK'
  BY TaskAssumption DEF Lock, Goto, LockIt, list, batch, calls, QueueInv,
     TypeOK, Threads, Tasks, SubmitLabels, LoopLabels
<1>2. Exclusion'
  BY TaskAssumption DEF Lock, Goto, LockIt, list, batch, calls, QueueInv,
     TypeOK, Threads, Exclusion, Inside, Sound
<1>3. HandsFresh'
  BY DEF Lock, Goto, LockIt, list, batch, calls, QueueInv, TypeOK, Threads,
     HandsFresh, Unlinked
<1>4. Allocated'
  BY DEF Lock, Goto, LockIt, list, batch, calls, QueueInv, TypeOK, Threads,
     Allocated
<1>5. StillTrue'
  BY DEF Lock, Goto, LockIt, list, batch, calls, QueueInv, TypeOK, Threads,
     StillTrue
<1>6. ListShape'
  BY DEF Lock, Goto, LockIt, list, batch, calls, QueueInv, TypeOK, Threads,
     ListShape, Nth
<1>7. BatchShape'
  BY TaskAssumption DEF Lock, Goto, LockIt, list, batch, calls, QueueInv,
     TypeOK, Threads, BatchShape, InCallback, Taking, SubmitLabels, Nth
<1>8. OnceEach'
  BY TaskAssumption DEF Lock, Goto, LockIt, list, batch, calls, QueueInv,
     TypeOK, Threads, OnceEach, InCallback, SubmitLabels
<1>9. Retired'
  BY DEF Lock, Goto, LockIt, list, batch, calls, QueueInv, TypeOK, Threads,
     Retired
<1> QED
  BY <1>1, <1>2, <1>3, <1>4, <1>5, <1>6, <1>7, <1>8, <1>9 DEF QueueInv

\* What the check finds stays true under the lock.
LEMMA CheckKeeps ==
  ASSUME QueueInv, Sound, NEW t \in Threads, ~fault, Check(t)
  PROVE  QueueInv'
<1>1. TypeOK'
  BY TaskAssumption DEF Check, Goto, NULL, list, batch, calls, QueueInv,
     TypeOK, Threads, Tasks, SubmitLabels, LoopLabels
<1>2. Exclusion'
  BY DEF Check, Goto, NULL, list, batch, calls, QueueInv, TypeOK, Threads,
     Exclusion, Inside
<1>3. HandsFresh'
  BY DEF Check, Goto, NULL, list, batch, calls, QueueInv, TypeOK, Threads,
     HandsFresh, Unlinked
<1>4. Allocated'
  BY DEF Check, Goto, NULL, list, batch, calls, QueueInv, TypeOK, Threads,
     Allocated
<1>5. StillTrue'
  BY TaskAssumption DEF Check, Goto, NULL, list, batch, calls, QueueInv,
     TypeOK, Threads, StillTrue, Exclusion, Inside, Sound, ListShape, Nth,
     Retired, Tasks, SubmitLabels, LoopLabels, HandsFresh, Unlinked,
     BatchShape, InCallback, Taking, OnceEach
<1>6. ListShape'
  BY DEF Check, Goto, NULL, list, batch, calls, QueueInv, TypeOK, Threads,
     ListShape, Nth
<1>7. BatchShape'
  BY TaskAssumption DEF Check, Goto, NULL, list, batch, calls, QueueInv,
     TypeOK, Threads, BatchShape, InCallback, Taking, SubmitLabels, Nth
<1>8. OnceEach'
  BY TaskAssumption DEF Check, Goto, NULL, list, batch, calls, QueueInv,
     TypeOK, Threads, OnceEach, InCallback, SubmitLabels
<1>9. Retired'
  BY DEF Check, Goto, NULL, list, batch, calls, QueueInv, TypeOK, Threads,
     Retired
<1> QED
  BY <1>1, <1>2, <1>3, <1>4, <1>5, <1>6, <1>7, <1>8, <1>9 DEF QueueInv

\* The first task becomes the list.
LEMMA FirstKeeps ==
  ASSUME QueueInv, Sound, NEW t \in Threads, ~fault, First(t)
  PROVE  QueueInv'
<1>0. TypeOK /\ order \in Seq(Tasks) /\ Len(order) \in Nat
  BY DEF QueueInv, TypeOK
<1> PICK n \in Nat : n = Len(order)
  BY <1>0
<1>a. TypeOK /\ order \in Seq(Tasks) /\ hand[t] \in Tasks /\ n \in Nat
  BY <1>0, TaskAssumption DEF QueueInv, TypeOK, HandsFresh, Unlinked, First, Tasks
<1>b. /\ order' \in Seq(Tasks) /\ Len(order') = n + 1
      /\ order'[n + 1] = hand[t]
      /\ \A i \in 1..n : order'[i] = order[i]
  BY <1>a, AppendFacts DEF First
<1>c. taken = n /\ pc[t] = "first" /\ hand[t] \in 1..made /\ nxt[hand[t]] = NULL
  BY DEF QueueInv, StillTrue, HandsFresh, Unlinked, First
<1>1. TypeOK'
  BY <1>a, <1>b DEF TypeOK, First, Goto, batch, calls, SubmitLabels, Threads
<1>2. Exclusion'
  BY <1>a DEF QueueInv, Exclusion, Inside, First, Goto, TypeOK, Threads
<1>3. HandsFresh'
  BY <1>a, <1>b, <1>c DEF QueueInv, HandsFresh, Unlinked, First, Goto, TypeOK, Threads, calls, batch
<1>4. Allocated'
  BY <1>a, <1>b, <1>c DEF QueueInv, Allocated, First, calls, batch
<1>5. StillTrue'
  BY <1>a, <1>b, <1>c DEF QueueInv, StillTrue, Exclusion, Inside, First, Goto, TypeOK, Threads,
     batch, calls
<1>6. ListShape'
  <2>1. pc'[t] = "end" /\ (t # Loop => pc'[Loop] = pc[Loop])
    BY <1>a DEF First, Goto, TypeOK, Threads
  <2>2. head' = Nth(taken + 1, n + 1)'
    BY <1>a, <1>b, <1>c DEF Nth, First, batch, TypeOK
  <2>3. \A i \in ran + 1..n + 1 :
          (nxt[order[i]] = Nth(i + 1, IF i <= taken THEN taken ELSE n + 1))'
    BY <1>a, <1>b, <1>c DEF QueueInv, ListShape, Nth, First, batch, TypeOK
  <2> QED
    BY <1>b, <2>1, <2>2, <2>3 DEF ListShape, First, batch
<1>7. BatchShape'
  <2>1. ran <= taken /\ ran \in Nat /\ taken \in Nat
    BY <1>a DEF TypeOK
  <2>2. pc'[Loop] = pc[Loop] \/ (t = Loop /\ pc'[Loop] = "end")
    BY <1>a DEF First, Goto, TypeOK, Threads
  <2>3. pc[Loop] \notin {"clear", "clearend"}
    BY <1>c DEF QueueInv, Exclusion, Inside, Threads
  <2> QED
    BY <1>a, <1>b, <1>c, <2>1, <2>2, <2>3
       DEF QueueInv, BatchShape, InCallback, Taking, Nth, First, batch, SubmitLabels
<1>8. OnceEach'
  <2>1. \A i, j \in 1..n + 1 : order'[i] = order'[j] => i = j
    <3>1. \A i, j \in 1..n : order[i] = order[j] => i = j
      BY <1>a DEF QueueInv, OnceEach
    <3>2. \A i \in 1..n : order[i] # hand[t]
      BY <1>a, <1>c DEF QueueInv, HandsFresh, Unlinked
    <3>3. SUFFICES ASSUME NEW i \in 1..n + 1, NEW j \in 1..n + 1, order'[i] = order'[j]
                   PROVE  i = j
      OBVIOUS
    <3>4. CASE i \in 1..n /\ j \in 1..n
      BY <1>b, <3>1, <3>3, <3>4
    <3>5. CASE i = n + 1 \/ j = n + 1
      BY <1>b, <3>2, <3>3, <3>5
    <3> QED
      BY <1>a, <3>4, <3>5
  <2>2. InCallback' <=> InCallback
    BY <1>a, <1>c DEF InCallback, First, Goto, TypeOK, Threads, batch, SubmitLabels
  <2>3. (pc[Loop] = "gone")' <=> pc[Loop] = "gone"
    BY <1>a, <1>c DEF First, Goto, TypeOK, Threads
  <2>4. hand[t] \notin freed /\ pc[Loop] # "gone"
    BY <1>c DEF QueueInv, HandsFresh, Unlinked, Retired, Threads
  <2> QED
    BY <1>a, <1>b, <2>1, <2>2, <2>3, <2>4 DEF QueueInv, OnceEach, First, batch, TypeOK
<1>9. Retired'
  BY <1>a DEF QueueInv, Retired, First, Goto, TypeOK, Threads
<1> QED
  BY <1>1, <1>2, <1>3, <1>4, <1>5, <1>6, <1>7, <1>8, <1>9 DEF QueueInv

\* The last task of the list leads to the new one.
LEMMA LinkKeeps ==
  ASSUME QueueInv, Sound, NEW t \in Threads, ~fault, Link(t)
  PROVE  QueueInv'
<1>0. TypeOK /\ order \in Seq(Tasks) /\ Len(order) \in Nat
  BY DEF QueueInv, TypeOK
<1> PICK n \in Nat : n = Len(order)
  BY <1>0
<1>a. TypeOK /\ order \in Seq(Tasks) /\ hand[t] \in Tasks /\ n \in Nat
  BY <1>0, TaskAssumption DEF QueueInv, TypeOK, HandsFresh, Unlinked, Link, Tasks
<1>b. /\ order' \in Seq(Tasks) /\ Len(order') = n + 1
      /\ order'[n + 1] = hand[t]
      /\ \A i \in 1..n : order'[i] = order[i]
  BY <1>a, AppendFacts DEF Link
<1>c. /\ taken < n /\ taken \in Nat /\ ran \in Nat /\ ran <= taken
      /\ pc[t] = "link"
      /\ hand[t] \in 1..made /\ nxt[hand[t]] = NULL
      /\ hand[t] \notin freed /\ \A i \in 1..n : order[i] # hand[t]
  BY <1>a DEF QueueInv, StillTrue, HandsFresh, Unlinked, Link, TypeOK
\* Nobody else is inside, so async_task_end is the last task linked.
<1>d. /\ \A u \in Threads : pc[u] # "end"
      /\ pc[Loop] \notin {"clear", "clearend", "gone"}
  BY <1>c DEF QueueInv, Exclusion, Inside, Retired, Threads
<1>e. tail = order[n] /\ tail \in Tasks /\ tail # NULL
  <2>1. tail = IF taken < n THEN order[n] ELSE NULL
    BY <1>a, <1>d DEF QueueInv, ListShape
  <2>2. order[n] \in Tasks
    BY <1>a, <1>c
  <2> QED
    BY <1>c, <2>1, <2>2, TaskAssumption DEF Tasks, NULL
<1>f. tail \notin freed
  BY <1>a, <1>c, <1>d, <1>e DEF QueueInv, OnceEach
<1>g. nxt' = [nxt EXCEPT ![tail] = hand[t]] /\ ~fault'
  BY <1>e, <1>f DEF Link
<1>1. TypeOK'
  BY <1>a, <1>b, <1>e, <1>g DEF TypeOK, Link, Goto, batch, calls, SubmitLabels, Threads
<1>2. Exclusion'
  BY <1>a DEF QueueInv, Exclusion, Inside, Link, Goto, TypeOK, Threads
<1>3. HandsFresh'
  <2>1. \A u \in Threads : Unlinked(u)' => Unlinked(u) /\ u # t
    BY <1>a DEF Unlinked, Link, Goto, TypeOK
  <2>2. \A u \in Threads : Unlinked(u) /\ u # t => hand[u] # hand[t] /\ hand[u] # tail
    BY <1>c, <1>e, <1>a DEF QueueInv, HandsFresh, Unlinked
  <2>3. \A u \in Threads : Unlinked(u)' => nxt'[hand[u]] = NULL
    BY <1>a, <1>g, <2>1, <2>2 DEF QueueInv, HandsFresh, TypeOK
  <2> QED
    BY <1>a, <1>b, <2>1, <2>2, <2>3 DEF QueueInv, HandsFresh, Link, calls, batch
<1>4. Allocated'
  <2>1. tail <= made /\ made \in Nat
    BY <1>a, <1>c, <1>e DEF QueueInv, Allocated, TypeOK
  <2> QED
    <3>1. \A k \in Tasks : k > made => k # tail /\ nxt[k] = NULL
      BY <2>1 DEF QueueInv, Allocated, Tasks
    <3>2. \A k \in Tasks : k > made' => nxt'[k] = NULL
      BY <1>a, <1>g, <3>1 DEF Link, calls, TypeOK
    <3>3. made' = made /\ \A k \in freed' : k <= made
      BY DEF QueueInv, Allocated, Link, calls, batch
    <3>4. \A i \in 1..n : order[i] <= made
      BY DEF QueueInv, Allocated
    <3>5. \A i \in 1..Len(order') : order'[i] <= made
      BY <1>a, <1>b, <1>c, <2>1, <3>4
    <3> QED
      BY <3>2, <3>3, <3>5 DEF Allocated
<1>5. StillTrue'
  BY <1>a, <1>b, <1>c DEF QueueInv, StillTrue, Exclusion, Inside, Link, Goto, TypeOK, Threads,
     batch, calls
<1>6. ListShape'
  <2>1. pc'[t] = "end" /\ pc'[Loop] \notin {"clear", "gone"}
    BY <1>a, <1>d DEF Link, Goto, TypeOK, Threads
  <2>2. head' = Nth(taken + 1, n + 1)'
    BY <1>a, <1>b, <1>c, <1>d DEF QueueInv, ListShape, Nth, Link, batch
  <2>3. ASSUME NEW i \in ran + 1..n + 1
        PROVE  (nxt[order[i]] = Nth(i + 1, IF i <= taken THEN taken ELSE n + 1))'
    <3>1. CASE i = n + 1
      BY <1>a, <1>b, <1>c, <1>e, <1>g, <3>1 DEF Nth, TypeOK, NULL, Link, batch
    <3>2. CASE i = n
      BY <1>a, <1>b, <1>c, <1>e, <1>g, <3>2 DEF Nth, TypeOK, Link, batch
    <3>3. CASE i < n
      <4>1. i \in 1..n /\ n \in 1..n /\ order[i] \in Tasks
        BY <1>a, <1>c, <3>3
      <4>2. order[i] # tail
        BY <1>e, <3>3, <4>1 DEF QueueInv, OnceEach
      <4>3. nxt'[order[i]] = nxt[order[i]]
        BY <1>a, <1>g, <4>1, <4>2 DEF TypeOK
      <4>4. nxt[order[i]] = Nth(i + 1, IF i <= taken THEN taken ELSE n)
        BY <1>a, <1>c, <3>3 DEF QueueInv, ListShape
      <4> QED
        BY <1>a, <1>b, <1>c, <3>3, <4>1, <4>3, <4>4 DEF Nth, Link, batch
    <3> QED
      BY <1>a, <1>c, <3>1, <3>2, <3>3
  <2>4. ~(\A u \in Threads : pc'[u] # "end")
    BY <2>1
  <2>5. \A i \in ran' + 1..n + 1 :
          (nxt[order[i]] = Nth(i + 1, IF i <= taken THEN taken ELSE n + 1))'
    BY <2>3 DEF Link, batch
  <2> QED
    BY <1>b, <2>2, <2>4, <2>5 DEF ListShape
<1>7. BatchShape'
  <2>1. pc'[Loop] = pc[Loop] \/ (t = Loop /\ pc'[Loop] = "end")
    BY <1>a DEF Link, Goto, TypeOK, Threads
  <2> QED
    BY <1>a, <1>b, <1>c, <1>d, <2>1
       DEF QueueInv, BatchShape, InCallback, Taking, Nth, Link, batch, SubmitLabels
<1>8. OnceEach'
  <2>1. \A i, j \in 1..n + 1 : order'[i] = order'[j] => i = j
    <3>1. \A i, j \in 1..n : order[i] = order[j] => i = j
      BY DEF QueueInv, OnceEach
    <3>2. SUFFICES ASSUME NEW i \in 1..n + 1, NEW j \in 1..n + 1, order'[i] = order'[j]
                   PROVE  i = j
      OBVIOUS
    <3>3. CASE i \in 1..n /\ j \in 1..n
      BY <1>b, <3>1, <3>2, <3>3
    <3>4. CASE i = n + 1 \/ j = n + 1
      BY <1>b, <1>c, <3>2, <3>4
    <3> QED
      BY <3>3, <3>4
  <2>2. InCallback' <=> InCallback
    BY <1>a, <1>c DEF InCallback, Link, Goto, TypeOK, Threads, batch, SubmitLabels
  <2>3. pc'[Loop] # "gone"
    BY <1>a, <1>c, <1>d DEF Link, Goto, TypeOK, Threads
  <2> QED
    <3>1. UNCHANGED <<freed, ran>>
      BY DEF Link, batch
    <3>2. \A i \in 1..n : order[i] \in freed <=> i < ran \/ (i = ran /\ ~InCallback)
      BY <1>a, <1>d DEF QueueInv, OnceEach
    <3>3. \A i \in 1..n + 1 : order'[i] \in freed <=> i < ran \/ (i = ran /\ ~InCallback)
      BY <1>a, <1>b, <1>c, <3>2
    <3> QED
      BY <1>b, <1>g, <2>1, <2>2, <2>3, <3>1, <3>3 DEF OnceEach
<1>9. Retired'
  BY <1>a DEF QueueInv, Retired, Link, Goto, TypeOK, Threads
<1> QED
  BY <1>1, <1>2, <1>3, <1>4, <1>5, <1>6, <1>7, <1>8, <1>9 DEF QueueInv

\* async_task_end catches up.
LEMMA EndKeeps ==
  ASSUME QueueInv, Sound, NEW t \in Threads, ~fault, End(t)
  PROVE  QueueInv'
<1>1. TypeOK'
  BY TaskAssumption DEF End, Goto, batch, calls, QueueInv, TypeOK, Threads,
     Tasks, SubmitLabels, LoopLabels
<1>2. Exclusion'
  BY DEF End, Goto, batch, calls, QueueInv, TypeOK, Threads, Exclusion, Inside
<1>3. HandsFresh'
  BY DEF End, Goto, batch, calls, QueueInv, TypeOK, Threads, HandsFresh,
     Unlinked
<1>4. Allocated'
  BY DEF End, Goto, batch, calls, QueueInv, TypeOK, Threads, Allocated
<1>5. StillTrue'
  BY DEF End, Goto, batch, calls, QueueInv, TypeOK, Threads, StillTrue
<1>6. ListShape'
  BY TaskAssumption DEF End, Goto, batch, calls, QueueInv, TypeOK, Threads,
     ListShape, Nth, BatchShape, Taking, NULL, Exclusion, Inside, StillTrue
<1>7. BatchShape'
  BY TaskAssumption DEF End, Goto, batch, calls, QueueInv, TypeOK, Threads,
     BatchShape, InCallback, Taking, SubmitLabels, Nth
<1>8. OnceEach'
  BY TaskAssumption DEF End, Goto, batch, calls, QueueInv, TypeOK, Threads,
     OnceEach, InCallback, SubmitLabels
<1>9. Retired'
  BY DEF End, Goto, batch, calls, QueueInv, TypeOK, Threads, Retired
<1> QED
  BY <1>1, <1>2, <1>3, <1>4, <1>5, <1>6, <1>7, <1>8, <1>9 DEF QueueInv

\* The section is left with the list in shape.
LEMMA UnlockKeeps ==
  ASSUME QueueInv, Sound, NEW t \in Threads, ~fault, Unlock(t)
  PROVE  QueueInv'
<1>1. TypeOK'
  BY TaskAssumption DEF Unlock, Goto, UnlockIt, list, batch, calls, QueueInv,
     TypeOK, Threads, Tasks, SubmitLabels, LoopLabels
<1>2. Exclusion'
  BY TaskAssumption DEF Unlock, Goto, UnlockIt, list, batch, calls, QueueInv,
     TypeOK, Threads, Exclusion, Inside, Sound
<1>3. HandsFresh'
  BY DEF Unlock, Goto, UnlockIt, list, batch, calls, QueueInv, TypeOK,
     Threads, HandsFresh, Unlinked
<1>4. Allocated'
  BY DEF Unlock, Goto, UnlockIt, list, batch, calls, QueueInv, TypeOK,
     Threads, Allocated
<1>5. StillTrue'
  BY DEF Unlock, Goto, UnlockIt, list, batch, calls, QueueInv, TypeOK,
     Threads, StillTrue
<1>6. ListShape'
  BY DEF Unlock, Goto, UnlockIt, list, batch, calls, QueueInv, TypeOK,
     Threads, ListShape, Nth
<1>7. BatchShape'
  BY TaskAssumption DEF Unlock, Goto, UnlockIt, list, batch, calls, QueueInv,
     TypeOK, Threads, BatchShape, InCallback, Taking, SubmitLabels, Nth
<1>8. OnceEach'
  BY TaskAssumption DEF Unlock, Goto, UnlockIt, list, batch, calls, QueueInv,
     TypeOK, Threads, OnceEach, InCallback, SubmitLabels
<1>9. Retired'
  BY DEF Unlock, Goto, UnlockIt, list, batch, calls, QueueInv, TypeOK,
     Threads, Retired
<1> QED
  BY <1>1, <1>2, <1>3, <1>4, <1>5, <1>6, <1>7, <1>8, <1>9 DEF QueueInv

\* Waking the loop touches no list.
LEMMA WriteKeeps ==
  ASSUME QueueInv, Sound, NEW t \in Threads, ~fault, Write(t)
  PROVE  QueueInv'
<1>1. TypeOK'
  BY TaskAssumption DEF Write, Goto, Home, NULL, list, batch, QueueInv,
     TypeOK, Threads, Tasks, SubmitLabels, LoopLabels
<1>2. Exclusion'
  BY DEF Write, Goto, Home, NULL, list, batch, QueueInv, TypeOK, Threads,
     Exclusion, Inside
<1>3. HandsFresh'
  BY DEF Write, Goto, Home, NULL, list, batch, QueueInv, TypeOK, Threads,
     HandsFresh, Unlinked
<1>4. Allocated'
  BY DEF Write, Goto, Home, NULL, list, batch, QueueInv, TypeOK, Threads,
     Allocated
<1>5. StillTrue'
  BY DEF Write, Goto, Home, NULL, list, batch, QueueInv, TypeOK, Threads,
     StillTrue
<1>6. ListShape'
  BY DEF Write, Goto, Home, NULL, list, batch, QueueInv, TypeOK, Threads,
     ListShape, Nth
<1>7. BatchShape'
  BY TaskAssumption DEF Write, Goto, Home, NULL, list, batch, QueueInv,
     TypeOK, Threads, BatchShape, InCallback, Taking, SubmitLabels, Nth
<1>8. OnceEach'
  BY TaskAssumption DEF Write, Goto, Home, NULL, list, batch, QueueInv,
     TypeOK, Threads, OnceEach, InCallback, SubmitLabels
<1>9. Retired'
  BY DEF Write, Goto, Home, NULL, list, batch, QueueInv, TypeOK, Threads,
     Retired
<1> QED
  BY <1>1, <1>2, <1>3, <1>4, <1>5, <1>6, <1>7, <1>8, <1>9 DEF QueueInv

\* loop_loop begins outside every section.
LEMMA StartKeeps ==
  ASSUME QueueInv, Sound, ~fault, Start
  PROVE  QueueInv'
<1>1. TypeOK'
  BY TaskAssumption DEF Start, Goto, list, batch, calls, QueueInv, TypeOK,
     Threads, Tasks, SubmitLabels, LoopLabels
<1>2. Exclusion'
  BY DEF Start, Goto, list, batch, calls, QueueInv, TypeOK, Threads,
     Exclusion, Inside
<1>3. HandsFresh'
  BY DEF Start, Goto, list, batch, calls, QueueInv, TypeOK, Threads,
     HandsFresh, Unlinked
<1>4. Allocated'
  BY DEF Start, Goto, list, batch, calls, QueueInv, TypeOK, Threads, Allocated
<1>5. StillTrue'
  BY DEF Start, Goto, list, batch, calls, QueueInv, TypeOK, Threads, StillTrue
<1>6. ListShape'
  BY DEF Start, Goto, list, batch, calls, QueueInv, TypeOK, Threads,
     ListShape, Nth
<1>7. BatchShape'
  BY TaskAssumption DEF Start, Goto, list, batch, calls, QueueInv, TypeOK,
     Threads, BatchShape, InCallback, Taking, SubmitLabels, Nth
<1>8. OnceEach'
  BY TaskAssumption DEF Start, Goto, list, batch, calls, QueueInv, TypeOK,
     Threads, OnceEach, InCallback, SubmitLabels
<1>9. Retired'
  BY DEF Start, Goto, list, batch, calls, QueueInv, TypeOK, Threads, Retired
<1> QED
  BY <1>1, <1>2, <1>3, <1>4, <1>5, <1>6, <1>7, <1>8, <1>9 DEF QueueInv

\* The loop's condition changes nothing.
LEMMA TopKeeps ==
  ASSUME QueueInv, Sound, ~fault, Top
  PROVE  QueueInv'
<1>1. TypeOK'
  BY TaskAssumption DEF Top, Goto, list, batch, calls, QueueInv, TypeOK,
     Threads, Tasks, SubmitLabels, LoopLabels
<1>2. Exclusion'
  BY DEF Top, Goto, list, batch, calls, QueueInv, TypeOK, Threads, Exclusion,
     Inside
<1>3. HandsFresh'
  BY DEF Top, Goto, list, batch, calls, QueueInv, TypeOK, Threads, HandsFresh,
     Unlinked
<1>4. Allocated'
  BY DEF Top, Goto, list, batch, calls, QueueInv, TypeOK, Threads, Allocated
<1>5. StillTrue'
  BY DEF Top, Goto, list, batch, calls, QueueInv, TypeOK, Threads, StillTrue
<1>6. ListShape'
  BY DEF Top, Goto, list, batch, calls, QueueInv, TypeOK, Threads, ListShape,
     Nth
<1>7. BatchShape'
  BY TaskAssumption DEF Top, Goto, list, batch, calls, QueueInv, TypeOK,
     Threads, BatchShape, InCallback, Taking, SubmitLabels, Nth
<1>8. OnceEach'
  BY TaskAssumption DEF Top, Goto, list, batch, calls, QueueInv, TypeOK,
     Threads, OnceEach, InCallback, SubmitLabels
<1>9. Retired'
  BY DEF Top, Goto, list, batch, calls, QueueInv, TypeOK, Threads, Retired
<1> QED
  BY <1>1, <1>2, <1>3, <1>4, <1>5, <1>6, <1>7, <1>8, <1>9 DEF QueueInv

\* Reading the eventfd changes no list.
LEMMA WaitKeeps ==
  ASSUME QueueInv, Sound, ~fault, Wait
  PROVE  QueueInv'
<1>1. TypeOK'
  BY TaskAssumption DEF Wait, Goto, list, batch, calls, QueueInv, TypeOK,
     Threads, Tasks, SubmitLabels, LoopLabels
<1>2. Exclusion'
  BY DEF Wait, Goto, list, batch, calls, QueueInv, TypeOK, Threads, Exclusion,
     Inside
<1>3. HandsFresh'
  BY DEF Wait, Goto, list, batch, calls, QueueInv, TypeOK, Threads,
     HandsFresh, Unlinked
<1>4. Allocated'
  BY DEF Wait, Goto, list, batch, calls, QueueInv, TypeOK, Threads, Allocated
<1>5. StillTrue'
  BY DEF Wait, Goto, list, batch, calls, QueueInv, TypeOK, Threads, StillTrue
<1>6. ListShape'
  BY DEF Wait, Goto, list, batch, calls, QueueInv, TypeOK, Threads, ListShape,
     Nth
<1>7. BatchShape'
  BY TaskAssumption DEF Wait, Goto, list, batch, calls, QueueInv, TypeOK,
     Threads, BatchShape, InCallback, Taking, SubmitLabels, Nth
<1>8. OnceEach'
  BY TaskAssumption DEF Wait, Goto, list, batch, calls, QueueInv, TypeOK,
     Threads, OnceEach, InCallback, SubmitLabels
<1>9. Retired'
  BY DEF Wait, Goto, list, batch, calls, QueueInv, TypeOK, Threads, Retired
<1> QED
  BY <1>1, <1>2, <1>3, <1>4, <1>5, <1>6, <1>7, <1>8, <1>9 DEF QueueInv

\* The loop enters the section like a submitter.
LEMMA GrabKeeps ==
  ASSUME QueueInv, Sound, ~fault, Grab
  PROVE  QueueInv'
<1>1. TypeOK'
  BY TaskAssumption DEF Grab, Goto, LockIt, list, batch, calls, QueueInv,
     TypeOK, Threads, Tasks, SubmitLabels, LoopLabels
<1>2. Exclusion'
  BY TaskAssumption DEF Grab, Goto, LockIt, list, batch, calls, QueueInv,
     TypeOK, Threads, Exclusion, Inside, Sound
<1>3. HandsFresh'
  BY DEF Grab, Goto, LockIt, list, batch, calls, QueueInv, TypeOK, Threads,
     HandsFresh, Unlinked
<1>4. Allocated'
  BY DEF Grab, Goto, LockIt, list, batch, calls, QueueInv, TypeOK, Threads,
     Allocated
<1>5. StillTrue'
  BY DEF Grab, Goto, LockIt, list, batch, calls, QueueInv, TypeOK, Threads,
     StillTrue
<1>6. ListShape'
  BY DEF Grab, Goto, LockIt, list, batch, calls, QueueInv, TypeOK, Threads,
     ListShape, Nth
<1>7. BatchShape'
  BY TaskAssumption DEF Grab, Goto, LockIt, list, batch, calls, QueueInv,
     TypeOK, Threads, BatchShape, InCallback, Taking, SubmitLabels, Nth
<1>8. OnceEach'
  BY TaskAssumption DEF Grab, Goto, LockIt, list, batch, calls, QueueInv,
     TypeOK, Threads, OnceEach, InCallback, SubmitLabels
<1>9. Retired'
  BY DEF Grab, Goto, LockIt, list, batch, calls, QueueInv, TypeOK, Threads,
     Retired
<1> QED
  BY <1>1, <1>2, <1>3, <1>4, <1>5, <1>6, <1>7, <1>8, <1>9 DEF QueueInv

\* The batch is the whole list.
LEMMA TakeKeeps ==
  ASSUME QueueInv, Sound, ~fault, Take
  PROVE  QueueInv'
<1>1. TypeOK'
  BY TaskAssumption DEF Take, Goto, list, calls, QueueInv, TypeOK, Threads,
     Tasks, SubmitLabels, LoopLabels
<1>2. Exclusion'
  BY DEF Take, Goto, list, calls, QueueInv, TypeOK, Threads, Exclusion, Inside
<1>3. HandsFresh'
  BY DEF Take, Goto, list, calls, QueueInv, TypeOK, Threads, HandsFresh,
     Unlinked
<1>4. Allocated'
  BY DEF Take, Goto, list, calls, QueueInv, TypeOK, Threads, Allocated
<1>5. StillTrue'
  BY TaskAssumption DEF Take, Goto, list, calls, QueueInv, TypeOK, Threads,
     StillTrue, Exclusion, Inside, Sound
<1>6. ListShape'
  <2>1. pc[Loop] = "take" /\ pc'[Loop] = "clear" /\ taken' = Len(order)
    BY DEF Take, Goto, QueueInv, TypeOK, Threads
  <2>2. UNCHANGED <<nxt, order, ran>>
    BY DEF Take, list
  <2>3. ran = taken /\ ran \in Nat /\ Len(order) \in Nat
    BY <2>1 DEF QueueInv, BatchShape, Taking, InCallback, SubmitLabels, TypeOK
  <2>4. \A i \in ran + 1..Len(order) : nxt[order[i]] = Nth(i + 1, Len(order))
    BY <2>3 DEF QueueInv, ListShape, Nth
  <2> QED
    BY <2>1, <2>2, <2>3, <2>4 DEF ListShape, Nth
<1>7. BatchShape'
  BY TaskAssumption DEF Take, Goto, list, calls, QueueInv, TypeOK, Threads,
     BatchShape, InCallback, Taking, SubmitLabels, Nth, ListShape, NULL
<1>8. OnceEach'
  BY TaskAssumption DEF Take, Goto, list, calls, QueueInv, TypeOK, Threads,
     OnceEach, InCallback, SubmitLabels
<1>9. Retired'
  BY DEF Take, Goto, list, calls, QueueInv, TypeOK, Threads, Retired
<1> QED
  BY <1>1, <1>2, <1>3, <1>4, <1>5, <1>6, <1>7, <1>8, <1>9 DEF QueueInv

\* The list is empty once its head is.
LEMMA ClearKeeps ==
  ASSUME QueueInv, Sound, ~fault, Clear
  PROVE  QueueInv'
<1>1. TypeOK'
  BY TaskAssumption DEF Clear, Goto, NULL, batch, calls, QueueInv, TypeOK,
     Threads, Tasks, SubmitLabels, LoopLabels
<1>2. Exclusion'
  BY DEF Clear, Goto, NULL, batch, calls, QueueInv, TypeOK, Threads,
     Exclusion, Inside
<1>3. HandsFresh'
  BY DEF Clear, Goto, NULL, batch, calls, QueueInv, TypeOK, Threads,
     HandsFresh, Unlinked
<1>4. Allocated'
  BY DEF Clear, Goto, NULL, batch, calls, QueueInv, TypeOK, Threads, Allocated
<1>5. StillTrue'
  BY DEF Clear, Goto, NULL, batch, calls, QueueInv, TypeOK, Threads, StillTrue
<1>6. ListShape'
  BY TaskAssumption DEF Clear, Goto, NULL, batch, calls, QueueInv, TypeOK,
     Threads, ListShape, Nth, BatchShape, Taking
<1>7. BatchShape'
  BY TaskAssumption DEF Clear, Goto, NULL, batch, calls, QueueInv, TypeOK,
     Threads, BatchShape, InCallback, Taking, SubmitLabels, Nth
<1>8. OnceEach'
  BY TaskAssumption DEF Clear, Goto, NULL, batch, calls, QueueInv, TypeOK,
     Threads, OnceEach, InCallback, SubmitLabels
<1>9. Retired'
  BY DEF Clear, Goto, NULL, batch, calls, QueueInv, TypeOK, Threads, Retired
<1> QED
  BY <1>1, <1>2, <1>3, <1>4, <1>5, <1>6, <1>7, <1>8, <1>9 DEF QueueInv

\* The list is empty, its end included.
LEMMA ClearEndKeeps ==
  ASSUME QueueInv, Sound, ~fault, ClearEnd
  PROVE  QueueInv'
<1>a. TypeOK /\ taken = Len(order) /\ Loop \in Threads
  BY DEF QueueInv, BatchShape, ClearEnd, Threads
<1>1. TypeOK'
  BY TaskAssumption DEF ClearEnd, Goto, NULL, batch, calls, QueueInv, TypeOK,
     Threads, Tasks, SubmitLabels, LoopLabels
<1>2. Exclusion'
  BY DEF ClearEnd, Goto, NULL, batch, calls, QueueInv, TypeOK, Threads,
     Exclusion, Inside
<1>3. HandsFresh'
  BY DEF ClearEnd, Goto, NULL, batch, calls, QueueInv, TypeOK, Threads,
     HandsFresh, Unlinked
<1>4. Allocated'
  BY DEF ClearEnd, Goto, NULL, batch, calls, QueueInv, TypeOK, Threads,
     Allocated
<1>5. StillTrue'
  BY DEF ClearEnd, Goto, NULL, batch, calls, QueueInv, TypeOK, Threads,
     StillTrue
<1>7. BatchShape'
  BY TaskAssumption DEF ClearEnd, Goto, NULL, batch, calls, QueueInv, TypeOK,
     Threads, BatchShape, InCallback, Taking, SubmitLabels, Nth
<1>8. OnceEach'
  BY TaskAssumption DEF ClearEnd, Goto, NULL, batch, calls, QueueInv, TypeOK,
     Threads, OnceEach, InCallback, SubmitLabels
<1>9. Retired'
  BY DEF ClearEnd, Goto, NULL, batch, calls, QueueInv, TypeOK, Threads,
     Retired
<1>6. ListShape'
  <2>1. pc' = [pc EXCEPT ![Loop] = "drop"] /\ pc[Loop] = "clearend" /\ tail' = NULL
    BY DEF ClearEnd, Goto
  <2>2. UNCHANGED <<head, nxt, taken, ran, order>>
    BY DEF ClearEnd, batch
  <2> QED
    BY <1>a, <2>1, <2>2 DEF QueueInv, ListShape, Nth, TypeOK
<1> QED
  BY <1>1, <1>2, <1>3, <1>4, <1>5, <1>6, <1>7, <1>8, <1>9 DEF QueueInv

\* The batch is the loop's own.
LEMMA DropKeeps ==
  ASSUME QueueInv, Sound, ~fault, Drop
  PROVE  QueueInv'
<1>1. TypeOK'
  BY TaskAssumption DEF Drop, Goto, UnlockIt, list, batch, calls, QueueInv,
     TypeOK, Threads, Tasks, SubmitLabels, LoopLabels
<1>2. Exclusion'
  BY TaskAssumption DEF Drop, Goto, UnlockIt, list, batch, calls, QueueInv,
     TypeOK, Threads, Exclusion, Inside, Sound
<1>3. HandsFresh'
  BY DEF Drop, Goto, UnlockIt, list, batch, calls, QueueInv, TypeOK, Threads,
     HandsFresh, Unlinked
<1>4. Allocated'
  BY DEF Drop, Goto, UnlockIt, list, batch, calls, QueueInv, TypeOK, Threads,
     Allocated
<1>5. StillTrue'
  BY DEF Drop, Goto, UnlockIt, list, batch, calls, QueueInv, TypeOK, Threads,
     StillTrue
<1>6. ListShape'
  BY DEF Drop, Goto, UnlockIt, list, batch, calls, QueueInv, TypeOK, Threads,
     ListShape, Nth
<1>7. BatchShape'
  BY TaskAssumption DEF Drop, Goto, UnlockIt, list, batch, calls, QueueInv,
     TypeOK, Threads, BatchShape, InCallback, Taking, SubmitLabels, Nth
<1>8. OnceEach'
  BY TaskAssumption DEF Drop, Goto, UnlockIt, list, batch, calls, QueueInv,
     TypeOK, Threads, OnceEach, InCallback, SubmitLabels
<1>9. Retired'
  BY DEF Drop, Goto, UnlockIt, list, batch, calls, QueueInv, TypeOK, Threads,
     Retired
<1> QED
  BY <1>1, <1>2, <1>3, <1>4, <1>5, <1>6, <1>7, <1>8, <1>9 DEF QueueInv

\* The successor is read while the task is still allocated.
LEMMA NextTaskKeeps ==
  ASSUME QueueInv, Sound, ~fault, NextTask
  PROVE  QueueInv'
<1>a. TypeOK /\ cursor # NULL /\ pc[Loop] = "next" /\ Loop \in Threads
  BY DEF QueueInv, NextTask, Threads
<1>b. /\ ran < taken /\ cursor = order[ran + 1] /\ cursor \in Tasks
      /\ ran \in Nat /\ taken \in Nat /\ taken <= Len(order) /\ Len(order) \in Nat
  BY <1>a DEF QueueInv, BatchShape, Taking, Nth, TypeOK
<1>c. iter' = Nth(ran + 2, taken)
  BY <1>a, <1>b DEF QueueInv, ListShape, NextTask, Nth
<1>d. /\ pc' = [pc EXCEPT ![Loop] = "call"] /\ pc'[Loop] = "call"
      /\ ran' = ran + 1
      /\ UNCHANGED <<head, tail, nxt, cursor, taken, order, freed, made, hand, fault>>
  BY <1>a DEF NextTask, Goto, list, calls, TypeOK
<1>1. TypeOK'
  <2>1. nxt[cursor] \in Tasks \cup {NULL}
    BY <1>b DEF QueueInv, TypeOK
  <2>2. run' \in BOOLEAN
    BY <1>a DEF TypeOK, NextTask
  <2>3. pc' \in [Threads -> SubmitLabels \cup LoopLabels \cup {"quit"}]
        /\ \A c \in Clients : pc'[c] = pc[c]
    BY <1>a, <1>d, TaskAssumption DEF TypeOK, LoopLabels, Threads
  <2>4. UNCHANGED <<efd, owner, quits>>
    BY DEF NextTask, calls
  <2>5. iter' = nxt[cursor]
    BY DEF NextTask
  <2> QED
    BY <1>a, <1>b, <1>d, <2>1, <2>2, <2>3, <2>4, <2>5 DEF TypeOK
<1>2. Exclusion'
  BY DEF NextTask, Goto, NULL, list, calls, QueueInv, TypeOK, Threads,
     Exclusion, Inside
<1>3. HandsFresh'
  BY DEF NextTask, Goto, NULL, list, calls, QueueInv, TypeOK, Threads,
     HandsFresh, Unlinked
<1>4. Allocated'
  BY DEF NextTask, Goto, NULL, list, calls, QueueInv, TypeOK, Threads,
     Allocated
<1>5. StillTrue'
  BY DEF NextTask, Goto, NULL, list, calls, QueueInv, TypeOK, Threads,
     StillTrue
<1>6. ListShape'
  BY DEF NextTask, Goto, NULL, list, calls, QueueInv, TypeOK, Threads,
     ListShape, Nth
<1>8. OnceEach'
  BY TaskAssumption DEF NextTask, Goto, NULL, list, calls, QueueInv, TypeOK,
     Threads, OnceEach, InCallback, SubmitLabels
<1>9. Retired'
  BY DEF NextTask, Goto, NULL, list, calls, QueueInv, TypeOK, Threads, Retired
<1>7. BatchShape'
  BY <1>a, <1>b, <1>c, <1>d DEF BatchShape, InCallback, Taking, Nth
<1> QED
  BY <1>1, <1>2, <1>3, <1>4, <1>5, <1>6, <1>7, <1>8, <1>9 DEF QueueInv

\* A finished batch leaves nothing behind.
LEMMA LastTaskKeeps ==
  ASSUME QueueInv, Sound, ~fault, LastTask
  PROVE  QueueInv'
<1>1. TypeOK'
  BY TaskAssumption DEF LastTask, Goto, NULL, list, batch, calls, QueueInv,
     TypeOK, Threads, Tasks, SubmitLabels, LoopLabels
<1>2. Exclusion'
  BY DEF LastTask, Goto, NULL, list, batch, calls, QueueInv, TypeOK, Threads,
     Exclusion, Inside
<1>3. HandsFresh'
  BY DEF LastTask, Goto, NULL, list, batch, calls, QueueInv, TypeOK, Threads,
     HandsFresh, Unlinked
<1>4. Allocated'
  BY DEF LastTask, Goto, NULL, list, batch, calls, QueueInv, TypeOK, Threads,
     Allocated
<1>5. StillTrue'
  BY DEF LastTask, Goto, NULL, list, batch, calls, QueueInv, TypeOK, Threads,
     StillTrue
<1>6. ListShape'
  BY DEF LastTask, Goto, NULL, list, batch, calls, QueueInv, TypeOK, Threads,
     ListShape, Nth
<1>7. BatchShape'
  BY TaskAssumption DEF LastTask, Goto, NULL, list, batch, calls, QueueInv,
     TypeOK, Threads, BatchShape, InCallback, Taking, SubmitLabels, Nth,
     ListShape, Sound, Tasks, LoopLabels, Exclusion, Inside, HandsFresh,
     Unlinked, StillTrue, OnceEach, Retired
<1>8. OnceEach'
  BY DEF LastTask, Goto, NULL, list, batch, calls, QueueInv, TypeOK, Threads,
     OnceEach, InCallback
<1>9. Retired'
  BY DEF LastTask, Goto, NULL, list, batch, calls, QueueInv, TypeOK, Threads,
     Retired
<1> QED
  BY <1>1, <1>2, <1>3, <1>4, <1>5, <1>6, <1>7, <1>8, <1>9 DEF QueueInv

\* Only the task that just ran is freed.
LEMMA FreeKeeps ==
  ASSUME QueueInv, Sound, ~fault, Free
  PROVE  QueueInv'
<1>a. TypeOK /\ pc[Loop] = "call" /\ Loop \in Threads /\ InCallback
  BY DEF QueueInv, Free, Threads, InCallback
<1>b. /\ ran > 0 /\ cursor = order[ran] /\ iter = Nth(ran + 1, taken)
      /\ ran \in Nat /\ taken \in Nat /\ ran <= taken /\ taken <= Len(order)
      /\ Len(order) \in Nat /\ cursor \in Tasks /\ ran \in 1..Len(order)
  BY <1>a DEF QueueInv, BatchShape, TypeOK
<1>c. /\ pc' = [pc EXCEPT ![Loop] = "next"] /\ pc'[Loop] = "next"
      /\ freed' = freed \cup {cursor} /\ cursor' = iter
      /\ UNCHANGED <<nxt, ran, taken, order, made, hand, fault>>
  BY <1>a DEF Free, Goto, list, calls, TypeOK
<1>3. HandsFresh'
  BY <1>a, <1>b, <1>c DEF QueueInv, HandsFresh, Unlinked, TypeOK
<1>4. Allocated'
  BY <1>b, <1>c DEF QueueInv, Allocated
<1>1. TypeOK'
  BY TaskAssumption DEF Free, Goto, list, calls, QueueInv, TypeOK, Threads,
     Tasks, SubmitLabels, LoopLabels, BatchShape, InCallback, Nth
<1>2. Exclusion'
  BY DEF Free, Goto, list, calls, QueueInv, TypeOK, Threads, Exclusion, Inside
<1>5. StillTrue'
  BY DEF Free, Goto, list, calls, QueueInv, TypeOK, Threads, StillTrue
<1>6. ListShape'
  BY DEF Free, Goto, list, calls, QueueInv, TypeOK, Threads, ListShape, Nth
<1>7. BatchShape'
  BY TaskAssumption DEF Free, Goto, list, calls, QueueInv, TypeOK, Threads,
     BatchShape, InCallback, Taking, SubmitLabels, Nth
<1>9. Retired'
  BY DEF Free, Goto, list, calls, QueueInv, TypeOK, Threads, Retired
<1>8. OnceEach'
  <2>1. ~InCallback'
    BY <1>c DEF InCallback, SubmitLabels
  <2>2. \A i \in 1..Len(order) : order[i] = cursor <=> i = ran
    BY <1>b DEF QueueInv, OnceEach
  <2>3. \A i \in 1..Len(order) : order[i] \in freed <=> i < ran
    BY <1>a, <1>b DEF QueueInv, OnceEach
  <2>4. \A i \in 1..Len(order) : order[i] \in freed' <=> (i < ran \/ i = ran)
    BY <1>c, <2>2, <2>3
  <2> QED
    BY <1>c, <2>1, <2>4 DEF QueueInv, OnceEach
<1> QED
  BY <1>1, <1>2, <1>3, <1>4, <1>5, <1>6, <1>7, <1>8, <1>9 DEF QueueInv

\* What is left is freed, and nobody uses it.
LEMMA DestroyKeeps ==
  ASSUME QueueInv, Sound, ~fault, Destroy
  PROVE  QueueInv'
<1>1. TypeOK'
  <2>1. TypeOK /\ \A i \in taken + 1..Len(order) : order[i] \in Tasks
    BY DEF QueueInv, TypeOK
  <2>2. freed' \subseteq Tasks
    BY <2>1 DEF Destroy, TypeOK
  <2> QED
    BY <2>1, <2>2 DEF Destroy, Goto, TypeOK, LoopLabels, Threads, calls
<1>2. Exclusion'
  BY DEF Destroy, Goto, NULL, calls, QueueInv, TypeOK, Threads, Exclusion,
     Inside
<1>3. HandsFresh'
  BY DEF Destroy, Goto, NULL, calls, QueueInv, TypeOK, Threads, HandsFresh,
     Unlinked
<1>4. Allocated'
  BY DEF Destroy, Goto, NULL, calls, QueueInv, TypeOK, Threads, Allocated
<1>5. StillTrue'
  BY DEF Destroy, Goto, NULL, calls, QueueInv, TypeOK, Threads, StillTrue
<1>6. ListShape'
  BY DEF Destroy, Goto, NULL, calls, QueueInv, TypeOK, Threads, ListShape, Nth
<1>7. BatchShape'
  BY TaskAssumption DEF Destroy, Goto, NULL, calls, QueueInv, TypeOK, Threads,
     BatchShape, InCallback, Taking, SubmitLabels, Nth
<1>8. OnceEach'
  BY TaskAssumption DEF Destroy, Goto, NULL, calls, QueueInv, TypeOK, Threads,
     OnceEach, InCallback, SubmitLabels, BatchShape, Taking
<1>9. Retired'
  BY DEF Destroy, Goto, NULL, calls, QueueInv, TypeOK, Threads, Retired
<1> QED
  BY <1>1, <1>2, <1>3, <1>4, <1>5, <1>6, <1>7, <1>8, <1>9 DEF QueueInv

-----------------------------------------------------------------------------
(* The theorems *)

\* So does every step of the next-state relation.
LEMMA StepKeeps ==
  ASSUME QueueInv, Sound, Next
  PROVE  QueueInv'
<1>1. ~fault /\ Loop \in Threads
  BY DEF Next, Threads
<1>2. ASSUME NEW t \in Threads, SubmitStep(t) PROVE QueueInv'
  BY <1>1, <1>2, LockKeeps, CheckKeeps, FirstKeeps, LinkKeeps, EndKeeps,
     UnlockKeeps, WriteKeeps DEF SubmitStep
<1>3. ASSUME NEW t \in Threads, Async(t) PROVE QueueInv'
  BY <1>1, <1>3, AsyncKeeps
<1>5. ASSUME NEW c \in Clients, QuitHere(c) \/ DoQuit(c) \/ QuitAsync(c) PROVE QueueInv'
  BY <1>1, <1>5, QuitHereKeeps, DoQuitKeeps, QuitAsyncKeeps
<1>4. ASSUME LoopStep PROVE QueueInv'
  BY <1>1, <1>2, <1>4, TopKeeps, WaitKeeps, GrabKeeps, TakeKeeps, ClearKeeps,
     ClearEndKeeps, DropKeeps, NextTaskKeeps, LastTaskKeeps, FreeKeeps DEF LoopStep
<1> QED
  BY <1>1, <1>2, <1>3, <1>4, <1>5, QuitInLoopKeeps, StartKeeps, DestroyKeeps
  DEF Next, Threads

\* An empty queue satisfies the invariant.
LEMMA QueueInit == Init => QueueInv
<1> SUFFICES ASSUME Init PROVE QueueInv
  OBVIOUS
<1>1. order = <<>> /\ Len(order) = 0 /\ order \in Seq(Tasks)
  BY DEF Init
<1>2. TypeOK
  <2>1. /\ pc \in [Threads -> SubmitLabels \cup LoopLabels \cup {"quit"}]
        /\ \A t \in Threads : pc[t] = "idle"
    BY DEF Init, LoopLabels
  <2>2. nxt \in [Tasks -> Tasks \cup {NULL}] /\ hand \in [Threads -> Tasks \cup {NULL}]
    BY DEF Init
  <2>3. made \in 0..MaxTasks /\ taken \in 0..Len(order) /\ ran \in 0..taken
    BY <1>1, TaskAssumption DEF Init
  <2>4. quits \subseteq Tasks /\ freed \subseteq Tasks /\ run \in BOOLEAN /\ fault \in BOOLEAN
    BY DEF Init
  <2> QED
    BY <1>1, <2>1, <2>2, <2>3, <2>4 DEF Init, TypeOK, Threads
<1>3. Exclusion /\ HandsFresh /\ Allocated /\ StillTrue
  BY <1>1, TaskAssumption DEF Init, Exclusion, Inside, HandsFresh, Unlinked, Allocated,
     StillTrue, Threads
<1>4. ListShape /\ BatchShape /\ OnceEach /\ Retired
  BY <1>1 DEF Init, ListShape, BatchShape, InCallback, Taking, OnceEach, Retired,
     Nth, Threads, SubmitLabels
<1> QED
  BY <1>2, <1>3, <1>4 DEF QueueInv

\* In every reachable state async_task .. async_task_end is the chain of the tasks
\* submitted and not yet taken, in order, and no task is lost, run twice or used
\* after its free, whatever the submitters and the loop do.
THEOREM QueueInvariance ==
  ASSUME Sound
  PROVE  Spec => []QueueInv
<1>1. QueueInv /\ [Next]_vars => QueueInv'
  <2>1. ASSUME QueueInv, UNCHANGED vars PROVE QueueInv'
    BY <2>1 DEF vars, QueueInv, TypeOK, Exclusion, Inside, HandsFresh, Unlinked,
       Allocated, StillTrue, ListShape, BatchShape, InCallback, Taking, OnceEach,
       Retired, Nth
  <2> QED
    BY <2>1, StepKeeps
<1> QED
  BY <1>1, QueueInit, PTL DEF Spec

\* Every step keeps a wakeup for the tasks that wait.
LEMMA WakeStep ==
  ASSUME QueueInv, NoLostWakeup, Next
  PROVE  NoLostWakeup'
<1> USE DEF NoLostWakeup
<1>0. TypeOK /\ Loop \in Threads
  BY DEF QueueInv, Threads
<1>1. ASSUME NEW t \in Threads, First(t) \/ Link(t) PROVE NoLostWakeup'
  BY <1>0, <1>1 DEF First, Link, Goto, TypeOK
<1>2. ASSUME NEW t \in Threads, Write(t) PROVE NoLostWakeup'
  BY <1>0, <1>2 DEF Write, TypeOK
<1>3. ASSUME NEW t \in Threads,
             Async(t) \/ QuitHere(t) \/ QuitAsync(t) \/ Lock(t) \/ Check(t)
             \/ End(t) \/ Unlock(t) \/ DoQuit(t)
      PROVE NoLostWakeup'
  BY <1>0, <1>3 DEF Async, QuitHere, DoQuit, QuitAsync, NewTask, Lock, Check, End, Unlock,
     Goto, Home, CanCall, TypeOK, batch
<1>4. ASSUME Wait PROVE NoLostWakeup'
  BY <1>0, <1>4 DEF Wait, Goto, TypeOK, batch
<1>5. ASSUME Take PROVE NoLostWakeup'
  BY <1>0, <1>5 DEF Take, Goto, TypeOK
<1>7. ASSUME QuitInLoop PROVE NoLostWakeup'
  BY <1>0, <1>7 DEF QuitInLoop, TypeOK, batch
<1>6. ASSUME Start \/ Top \/ Grab \/ Clear \/ ClearEnd \/ Drop \/ NextTask \/ LastTask
             \/ Free \/ Destroy
      PROVE NoLostWakeup'
  BY <1>0, <1>6 DEF Start, Top, Grab, Clear, ClearEnd, Drop, NextTask, LastTask, Free,
     Destroy, Goto, TypeOK, batch
<1> QED
  BY <1>0, <1>1, <1>2, <1>3, <1>4, <1>5, <1>6, <1>7
  DEF Next, SubmitStep, LoopStep, Threads

\* The loop never sleeps in epoll_wait on a list with tasks that nobody is going
\* to wake it for, although one eventfd_read answers any number of writes.
THEOREM WakeupsKept ==
  ASSUME Sound
  PROVE  Spec => []NoLostWakeup
<1>1. Init => NoLostWakeup
  BY DEF Init, NoLostWakeup
<1>2. QueueInv /\ NoLostWakeup /\ [Next]_vars => NoLostWakeup'
  BY WakeStep DEF vars, NoLostWakeup
<1> QED
  BY <1>1, <1>2, QueueInvariance, PTL DEF Spec

==============================================================================
