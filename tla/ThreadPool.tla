----------------------------- MODULE ThreadPool -----------------------------
(***************************************************************************)
(* udpclient/pool/thpool.c: a pool of worker threads that take jobs from a *)
(* queue, woken through a binary semaphore; client threads add jobs, wait  *)
(* for them, pause and resume the workers and destroy the pool.            *)
(*                                                                         *)
(* A worker step is one lock operation or one critical section, so that    *)
(* the SIGUSR1 of thpool_pause can catch a worker with a mutex in hand.    *)
(***************************************************************************)
EXTENDS Integers, Sequences, FiniteSets

CONSTANTS Workers,     \* the pool's threads
          Clients,     \* the threads that call the pool's functions
          None,        \* no owner of a mutex
          MaxJobs,     \* bound: calls of thpool_add_work
          MaxPauses,   \* bound: calls of thpool_pause
          CanDestroy   \* whether the pool is ever destroyed

ASSUME PoolAssumption ==
  /\ IsFiniteSet(Workers)
  /\ Workers \cap Clients = {}
  /\ None \notin Workers \cup Clients
  /\ MaxJobs \in Nat
  /\ MaxPauses \in Nat
  /\ CanDestroy \in BOOLEAN

VARIABLES
  queue,      \* the job queue; len is its length
  sem,        \* has_jobs->v
  owner,      \* who holds thcount_lock ("th"), rwmutex ("rw"), has_jobs->mutex ("sem")
  alive,      \* num_threads_alive
  working,    \* num_threads_working
  keepalive,  \* threads_keepalive
  onhold,     \* threads_on_hold
  pc,         \* where each worker and each client is
  cur,        \* the job each worker has pulled, 0 for none
  pending,    \* workers with a SIGUSR1 not yet delivered
  held,       \* workers inside the handler thread_hold
  pauses,     \* how often thpool_pause was called
  added,      \* history: jobs 1..added were added
  done,       \* history: the jobs that have run
  target,     \* history: the jobs added when each client called thpool_wait
  freed       \* the pool's memory was given back

vars == <<queue, sem, owner, alive, working, keepalive, onhold, pc, cur,
          pending, held, pauses, added, done, target, freed>>

counters == <<alive, working>>
signals == <<keepalive, onhold, pending, held, pauses>>
history == <<added, done, target, freed>>

Threads == Workers \cup Clients
Mutexes == {"th", "rw", "sem"}
Jobs == 1..MaxJobs

\* thpool_init: the threads are created and run thread_do; its wait for
\* num_threads_alive is the guard of every client action.
Init ==
  /\ queue = <<>>
  /\ sem = 0
  /\ owner = [m \in Mutexes |-> None]
  /\ alive = 0
  /\ working = 0
  /\ keepalive = TRUE
  /\ onhold = FALSE
  /\ pc = [t \in Threads |-> IF t \in Workers THEN "start" ELSE "init"]
  /\ cur = [w \in Workers |-> 0]
  /\ pending = {}
  /\ held = {}
  /\ pauses = 0
  /\ added = 0
  /\ done = {}
  /\ target = [c \in Clients |-> {}]
  /\ freed = FALSE

\* pthread_cond_signal wakes one sleeper if there is one: the program
\* counters p may become after it.
Signal(p, sleeping, woken) ==
  LET sleepers == {t \in Threads : p[t] = sleeping}
  IN  IF sleepers = {} THEN {p} ELSE {[p EXCEPT ![t] = woken] : t \in sleepers}

Goto(t, l) == pc' = [pc EXCEPT ![t] = l]
Release(m) == owner' = [owner EXCEPT ![m] = None]

-----------------------------------------------------------------------------
(* Workers: thread_do *)

\* The lock a worker asks for at a label, and the section it then enters.
LockAt == [start |-> "th", sem |-> "sem", inc |-> "th", pull |-> "rw",
           post |-> "sem", dec |-> "th", exit |-> "th"]
Section == [start |-> "alive", sem |-> "take", inc |-> "working",
            pull |-> "pulling", post |-> "posting", dec |-> "finish",
            exit |-> "leave"]

Lock(w) ==
  /\ pc[w] \in DOMAIN LockAt
  /\ owner[LockAt[pc[w]]] = None
  /\ owner' = [owner EXCEPT ![LockAt[pc[w]]] = w]
  /\ Goto(w, Section[pc[w]])
  /\ UNCHANGED <<queue, sem, cur, counters, signals, history>>

\* num_threads_alive += 1
Alive(w) ==
  /\ pc[w] = "alive"
  /\ alive' = alive + 1
  /\ Release("th")
  /\ Goto(w, "loop")
  /\ UNCHANGED <<queue, sem, working, cur, signals, history>>

\* while (threads_keepalive)
Loop(w) ==
  /\ pc[w] = "loop"
  /\ Goto(w, IF keepalive THEN "sem" ELSE "exit")
  /\ UNCHANGED <<queue, sem, owner, cur, counters, signals, history>>

\* bsem_wait: takes the semaphore, or sleeps and gives up the mutex.
SemTake(w) ==
  /\ pc[w] = "take"
  /\ sem' = 0
  /\ Release("sem")
  /\ Goto(w, IF sem = 1 THEN "got" ELSE "sleep")
  /\ UNCHANGED <<queue, cur, counters, signals, history>>

\* Faulty variant: the worker goes to the queue without being counted.
GotUncounted(w) ==
  /\ pc[w] = "got"
  /\ Goto(w, IF keepalive THEN "pull" ELSE "loop")
  /\ UNCHANGED <<queue, sem, owner, cur, counters, signals, history>>

\* if (threads_keepalive)
Got(w) ==
  /\ pc[w] = "got"
  /\ Goto(w, IF keepalive THEN "inc" ELSE "loop")
  /\ UNCHANGED <<queue, sem, owner, cur, counters, signals, history>>

\* num_threads_working++
Working(w) ==
  /\ pc[w] = "working"
  /\ working' = working + 1
  /\ Release("th")
  /\ Goto(w, "pull")
  /\ UNCHANGED <<queue, sem, alive, cur, signals, history>>

\* Faulty variant: the jobs left behind are not posted.
PullNoPost(w) ==
  /\ pc[w] = "pulling"
  /\ IF queue = <<>>
     THEN Goto(w, "dec") /\ UNCHANGED <<queue, cur>>
     ELSE /\ queue' = Tail(queue)
          /\ cur' = [cur EXCEPT ![w] = Head(queue)]
          /\ Goto(w, "run")
  /\ Release("rw")
  /\ UNCHANGED <<sem, counters, signals, history>>

\* jobqueue_pull: the front job, if any; with more behind it bsem_post comes
\* before the unlock of rwmutex.
Pull(w) ==
  /\ pc[w] = "pulling"
  /\ IF queue = <<>>
     THEN Goto(w, "dec") /\ UNCHANGED <<queue, cur>>
     ELSE /\ queue' = Tail(queue)
          /\ cur' = [cur EXCEPT ![w] = Head(queue)]
          /\ Goto(w, IF Len(queue) > 1 THEN "post" ELSE "run")
  /\ IF Len(queue) > 1 THEN UNCHANGED owner ELSE Release("rw")
  /\ UNCHANGED <<sem, counters, signals, history>>

\* bsem_post: the value and a signal to one sleeper of bsem_wait
Up(t, next) ==
  /\ sem' = 1
  /\ pc' \in Signal([pc EXCEPT ![t] = next], "sleep", "sem")

\* bsem_post at the end of jobqueue_pull, with both mutexes in hand,
Post(w) ==
  /\ pc[w] = "posting"
  /\ Up(w, "pulled")
  /\ Release("sem")
  /\ UNCHANGED <<queue, cur, counters, signals, history>>

\* and the unlock of rwmutex behind it.
Pulled(w) ==
  /\ pc[w] = "pulled"
  /\ Release("rw")
  /\ Goto(w, "run")
  /\ UNCHANGED <<queue, sem, cur, counters, signals, history>>

\* The job runs to its end.
Run(w) ==
  /\ pc[w] = "run"
  /\ done' = done \cup {cur[w]}
  /\ cur' = [cur EXCEPT ![w] = 0]
  /\ Goto(w, "dec")
  /\ UNCHANGED <<queue, sem, owner, counters, signals, added, target, freed>>

\* Faulty variant: thpool_wait is not signalled.
FinishSilent(w) ==
  /\ pc[w] = "finish"
  /\ working' = working - 1
  /\ Goto(w, "loop")
  /\ Release("th")
  /\ UNCHANGED <<queue, sem, alive, cur, signals, history>>

\* Faulty variant: thcount_lock is not given back when there is no signal.
FinishLocked(w) ==
  /\ pc[w] = "finish"
  /\ working' = working - 1
  /\ LET p == [pc EXCEPT ![w] = "loop"]
     IN  IF working' = 0 THEN pc' \in Signal(p, "asleep", "wait") ELSE pc' = p
  /\ IF working' = 0 THEN Release("th") ELSE UNCHANGED owner
  /\ UNCHANGED <<queue, sem, alive, cur, signals, history>>

\* num_threads_working--, and a signal to thpool_wait when it is zero
Finish(w) ==
  /\ pc[w] = "finish"
  /\ working' = working - 1
  /\ LET p == [pc EXCEPT ![w] = "loop"]
     IN  IF working' = 0 THEN pc' \in Signal(p, "asleep", "wait") ELSE pc' = p
  /\ Release("th")
  /\ UNCHANGED <<queue, sem, alive, cur, signals, history>>

\* num_threads_alive --, and then the unlock of thcount_lock
Leave(w) ==
  /\ pc[w] = "leave"
  /\ alive' = alive - 1
  /\ Goto(w, "unlock")
  /\ UNCHANGED <<queue, sem, owner, working, cur, signals, history>>

Unlock(w) ==
  /\ pc[w] = "unlock"
  /\ Release("th")
  /\ Goto(w, "gone")
  /\ UNCHANGED <<queue, sem, cur, counters, signals, history>>

WorkerStep(w) ==
  /\ w \notin held
  /\ \/ Lock(w) \/ Alive(w) \/ Loop(w) \/ SemTake(w) \/ Got(w) \/ Working(w)
     \/ Pull(w) \/ Post(w) \/ Pulled(w) \/ Run(w) \/ Finish(w) \/ Leave(w)
     \/ Unlock(w)

\* SIGUSR1 reaches the worker, which enters thread_hold wherever it is.
Hold(w) ==
  /\ w \in pending \ held
  /\ pc[w] # "gone"
  /\ pending' = pending \ {w}
  /\ held' = held \cup {w}
  /\ onhold' = TRUE
  /\ UNCHANGED <<queue, sem, owner, counters, keepalive, pauses, pc, cur,
                 history>>

\* while (threads_on_hold) has ended
Unhold(w) ==
  /\ w \in held
  /\ ~onhold
  /\ held' = held \ {w}
  /\ UNCHANGED <<queue, sem, owner, counters, keepalive, onhold, pending,
                 pauses, pc, cur, history>>

-----------------------------------------------------------------------------
(* Clients *)

\* The end of thpool_init: while (num_threads_alive != num_threads) {}
Started(c) ==
  /\ pc[c] = "init"
  /\ alive = Cardinality(Workers)
  /\ Goto(c, "idle")
  /\ UNCHANGED <<queue, sem, owner, cur, counters, signals, history>>

\* thpool_add_work up to the lock of rwmutex
AddWork(c) ==
  /\ pc[c] = "idle"
  /\ keepalive
  /\ added + Cardinality({d \in Clients : pc[d] = "push"}) < MaxJobs
  /\ Goto(c, "push")
  /\ UNCHANGED <<queue, sem, owner, cur, counters, signals, history>>

\* jobqueue_push under rwmutex,
Push(c) ==
  /\ pc[c] = "push"
  /\ added < MaxJobs
  /\ owner["rw"] = None
  /\ owner' = [owner EXCEPT !["rw"] = c]
  /\ added' = added + 1
  /\ queue' = Append(queue, added + 1)
  /\ Goto(c, "post")
  /\ UNCHANGED <<sem, cur, counters, signals, done, target, freed>>

\* which ends with bsem_post and the unlock of rwmutex.  No signal of the
\* pool is for a client, so nobody sees it between the two.
PushPost(c) ==
  /\ pc[c] = "post"
  /\ owner["sem"] = None
  /\ Up(c, "idle")
  /\ Release("rw")
  /\ UNCHANGED <<queue, cur, counters, signals, history>>

WaitCall(c) ==
  /\ pc[c] = "idle"
  /\ keepalive
  /\ target' = [target EXCEPT ![c] = 1..added]
  /\ Goto(c, "wait")
  /\ UNCHANGED <<queue, sem, owner, cur, counters, signals, added, done, freed>>

\* Faulty variant: an empty queue is taken for the end of all jobs.
WaitQueueOnly(c) ==
  /\ pc[c] = "wait"
  /\ owner["th"] = None
  /\ Goto(c, IF queue # <<>> THEN "asleep" ELSE "idle")
  /\ UNCHANGED <<queue, sem, owner, cur, counters, signals, history>>

\* One round of the loop of thpool_wait, under thcount_lock: it returns, or
\* sleeps on threads_all_idle and gives up the mutex.
Wait(c) ==
  /\ pc[c] = "wait"
  /\ owner["th"] = None
  /\ Goto(c, IF queue # <<>> \/ working # 0 THEN "asleep" ELSE "idle")
  /\ UNCHANGED <<queue, sem, owner, cur, counters, signals, history>>

\* thpool_pause: SIGUSR1 to every thread
Pause(c) ==
  /\ pc[c] = "idle"
  /\ keepalive
  /\ pauses < MaxPauses
  /\ pauses' = pauses + 1
  /\ pending' = Workers
  /\ UNCHANGED <<queue, sem, owner, counters, keepalive, onhold, held, pc, cur,
                 history>>

Resume(c) ==
  /\ pc[c] = "idle"
  /\ pauses > 0
  /\ onhold' = FALSE
  /\ UNCHANGED <<queue, sem, owner, counters, keepalive, pending, held, pauses,
                 pc, cur, history>>

\* thpool_destroy ends the workers' loops; nobody else is in the pool.
Destroy(c) ==
  /\ CanDestroy
  /\ keepalive
  /\ \A d \in Clients : pc[d] = "idle"
  /\ keepalive' = FALSE
  /\ Goto(c, "destroy")
  /\ UNCHANGED <<queue, sem, owner, cur, counters, onhold, pending, held, pauses,
                 history>>

\* Faulty variant: the broadcast without the value.
DestroyPostNoValue(c) ==
  /\ pc[c] = "destroy"
  /\ alive # 0
  /\ owner["sem"] = None
  /\ pc' = [t \in Threads |-> IF pc[t] = "sleep" THEN "sem" ELSE pc[t]]
  /\ UNCHANGED <<queue, sem, owner, cur, counters, signals, history>>

\* bsem_post_all while there are threads alive
DestroyPost(c) ==
  /\ pc[c] = "destroy"
  /\ alive # 0
  /\ owner["sem"] = None
  /\ sem' = 1
  /\ pc' = [t \in Threads |-> IF pc[t] = "sleep" THEN "sem" ELSE pc[t]]
  /\ UNCHANGED <<queue, owner, cur, counters, signals, history>>

\* Faulty variant: the threads still alive after the timeout are not polled.
DestroyFreeEarly(c) ==
  /\ pc[c] = "destroy"
  /\ queue' = <<>>
  /\ sem' = 0
  /\ freed' = TRUE
  /\ Goto(c, "destroyed")
  /\ UNCHANGED <<owner, cur, counters, signals, added, done, target>>

\* jobqueue_destroy drops the jobs that are left; then everything is freed.
DestroyFree(c) ==
  /\ pc[c] = "destroy"
  /\ alive = 0
  /\ queue' = <<>>
  /\ sem' = 0
  /\ freed' = TRUE
  /\ Goto(c, "destroyed")
  /\ UNCHANGED <<owner, cur, counters, signals, added, done, target>>

-----------------------------------------------------------------------------
\* pthread_cond_wait may return without a signal, in bsem_wait as in
\* thpool_wait: the loop around it looks again.
SpuriousWake(t) ==
  /\ \/ pc[t] = "sleep" /\ Goto(t, "sem")
     \/ pc[t] = "asleep" /\ Goto(t, "wait")
  /\ UNCHANGED <<queue, sem, owner, cur, counters, signals, history>>

ClientStep(c) ==
  \/ Started(c) \/ Push(c) \/ PushPost(c) \/ Wait(c)
  \/ DestroyPost(c) \/ DestroyFree(c)

ClientCall(c) ==
  \/ AddWork(c) \/ WaitCall(c) \/ Pause(c) \/ Resume(c) \/ Destroy(c)

-----------------------------------------------------------------------------
Next ==
  \/ \E w \in Workers : WorkerStep(w) \/ Hold(w) \/ Unhold(w)
  \/ \E c \in Clients : ClientStep(c) \/ ClientCall(c)
  \/ \E t \in Threads : SpuriousWake(t)

Spec == Init /\ [][Next]_vars

\* Threads are scheduled, jobs end, a mutex that is free again and again is
\* got in the end, a signal is delivered; nothing forces a spurious wakeup
\* or a call.
Fairness ==
  /\ \A w \in Workers :
       SF_vars(WorkerStep(w)) /\ WF_vars(Hold(w)) /\ WF_vars(Unhold(w))
  /\ \A c \in Clients : SF_vars(ClientStep(c))

FairSpec == Spec /\ Fairness

-----------------------------------------------------------------------------
(* Properties *)

WorkerLabels ==
  {"start", "alive", "loop", "sem", "take", "sleep", "got", "inc", "working",
   "pull", "pulling", "post", "posting", "pulled", "run", "dec", "finish", "exit", "leave",
   "unlock", "gone"}
ClientLabels ==
  {"init", "idle", "push", "post", "wait", "asleep", "destroy", "destroyed"}

\* The state is well typed.
TypeOK ==
  /\ queue \in Seq(Jobs)
  /\ sem \in {0, 1}
  /\ owner \in [Mutexes -> Threads \cup {None}]
  /\ alive \in Int
  /\ working \in Int
  /\ keepalive \in BOOLEAN
  /\ onhold \in BOOLEAN
  /\ pc \in [Threads -> WorkerLabels \cup ClientLabels]
  /\ \A w \in Workers : pc[w] \in WorkerLabels
  /\ \A c \in Clients : pc[c] \in ClientLabels
  /\ cur \in [Workers -> Jobs \cup {0}]
  /\ pending \subseteq Workers
  /\ held \subseteq Workers
  /\ pauses \in 0..MaxPauses
  /\ added \in 0..MaxJobs
  /\ done \subseteq Jobs
  /\ target \in [Clients -> SUBSET Jobs]
  /\ freed \in BOOLEAN

\* num_threads_working counts the workers between its ++ and its --.
Busy(w) ==
  pc[w] \in {"pull", "pulling", "post", "posting", "pulled", "run", "dec", "finish"}
WorkingCount == working = Cardinality({w \in Workers : Busy(w)})

\* Jobs are queued in the order they were added, without gaps.
QueueOrder ==
  \A k \in 1..Len(queue) : queue[k] = added - Len(queue) + k

\* A worker has a job only between pulling it and having run it.
JobInHand ==
  \A w \in Workers : cur[w] # 0 <=> pc[w] \in {"post", "posting", "pulled", "run"}

\* Until the pool is freed, every job that left the queue is in the hands
\* of one worker or has run, and no job is both: none is lost, none runs
\* twice.
JobPlaces ==
  ~freed =>
    /\ Len(queue) <= added
    /\ \A j \in 1..added - Len(queue) : j \in done \/ \E w \in Workers : cur[w] = j
    /\ \A j \in done : j <= added - Len(queue)
    /\ \A w \in Workers : cur[w] # 0 => cur[w] <= added - Len(queue)
    /\ \A w \in Workers : cur[w] \notin done
    /\ \A v, w \in Workers : cur[v] = cur[w] /\ cur[v] # 0 => v = w

\* Nobody waits in a pool that is being destroyed.
Quiet ==
  /\ freed => ~keepalive
  /\ ~keepalive => \A c \in Clients : pc[c] \in {"idle", "destroy", "destroyed"}
  /\ \A c \in Clients : pc[c] \in {"destroy", "destroyed"} => ~keepalive
  /\ \A c \in Clients : target[c] \subseteq 1..added

\* The inductive invariant behind WaitSound (see ThreadPool_proofs).
PoolInv ==
  /\ TypeOK
  /\ WorkingCount
  /\ QueueOrder
  /\ JobInHand
  /\ JobPlaces
  /\ Quiet

\* "Wait until all jobs have finished": when thpool_wait returns, every job
\* that was added before it was called has run to its end.
WaitStep ==
  \A c \in Clients :
    pc[c] = "wait" /\ pc'[c] = "idle" => target[c] \subseteq done
WaitSound == [][WaitStep]_vars

\* A worker with the semaphore in hand, on its way to the queue, or a
\* thread about to post; a worker about to try the semaphore.
Fetching(t) ==
  pc[t] \in {"got", "inc", "working", "pull", "pulling", "post", "posting"}
Trying(t) == pc[t] \in {"sem", "take"}

\* No job is forgotten: while there is one, the semaphore is up or somebody
\* is fetching.  No wakeup is lost: while the semaphore is up and a worker
\* sleeps, another is about to try it.
SemInv ==
  /\ keepalive /\ queue # <<>> => sem = 1 \/ \E t \in Threads : Fetching(t)
  /\ sem = 1 /\ (\E w \in Workers : pc[w] = "sleep") =>
       \E w \in Workers : Trying(w)

\* The mutex a thread is asking for, and who has it.
ClientLockAt == [push |-> "rw", post |-> "sem", wait |-> "th", destroy |-> "sem"]
Wanted(t) ==
  LET at == IF t \in Workers THEN LockAt ELSE ClientLockAt
  IN  {at[l] : l \in {pc[t]} \cap DOMAIN at}
Behind(t) == {owner[m] : m \in Wanted(t)} \ {None}

\* A thread that needs somebody else, or nothing at all, to go on.
Parked(t) ==
  pc[t] \in {"sleep", "asleep", "gone", "init", "idle", "destroyed"}

\* Nobody waits for ever for a mutex of the pool but behind a worker that
\* thpool_pause has caught: who has the mutex is in its section and asks for
\* none, or for one whose owner asks for none.  There is no cycle, no mutex
\* taken to sleep or out of the pool, and none forgotten by a worker that
\* goes on to the next job.
WaitsEnd ==
  \A t \in Threads : \A u \in Behind(t) :
    /\ ~Parked(u)
    /\ \A v \in Behind(u) : ~Parked(v) /\ Behind(v) = {}

\* The inductive invariant behind WaitsEnd (see ThreadPool_proofs): a mutex is
\* with the thread that is in one of its sections.
Sections == [th |-> {"alive", "working", "finish", "leave", "unlock"},
             rw |-> {"pulling", "post", "posting", "pulled"},
             sem |-> {"take", "posting"}]
Holders ==
  \A m \in Mutexes, t \in Threads : owner[m] = t <=> pc[t] \in Sections[m]

\* No worker stays in thread_hold for ever (a SIGUSR1 that
\* arrives after thpool_resume may put it there: see the README).
NotHeld == <>[](held = {})

\* Every job that is added runs, unless the pool is destroyed first.
EveryJobRuns ==
  NotHeld => \A j \in Jobs : added >= j ~> j \in done \/ ~keepalive

\* "Wait until all jobs have finished": thpool_wait returns.
Waiting(c) == pc[c] \in {"wait", "asleep"}
WaitReturns == \A c \in Clients : Waiting(c) ~> pc[c] = "idle"

\* thpool_wait returns to a client that is the only one in it, even if workers
\* were paused in between.
LoneWaitReturns ==
  NotHeld =>
    \A c \in Clients :
      Waiting(c) ~> pc[c] = "idle" \/ \E d \in Clients \ {c} : Waiting(d)

\* thpool_destroy returns, whatever the workers were doing.
DestroyReturns == NotHeld => (~keepalive ~> freed)

\* "Poll remaining threads": when the pool is freed, no worker has anything
\* left to do in it but the unlock of thcount_lock it is about to make.
OnlyUnlockLeft == freed => \A w \in Workers : pc[w] \in {"unlock", "gone"}

\* num_threads_alive counts the workers between its += and its --.
Living(w) == pc[w] \notin {"start", "alive", "unlock", "gone"}
AliveCount == alive = Cardinality({w \in Workers : Living(w)})

\* No call is made before thpool_init has seen every worker alive.
Begun ==
  (\E c \in Clients : pc[c] # "init") =>
    \A w \in Workers : pc[w] \notin {"start", "alive"}

\* The inductive invariant behind OnlyUnlockLeft (see ThreadPool_proofs).
LifeInv == AliveCount /\ Begun /\ OnlyUnlockLeft

=============================================================================
