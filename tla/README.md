# CommonLib: a TLA+ model of the concurrent core

CommonLib collects C and C++ building blocks: lock-free queues, a thread pool,
an event loop for UDP, loggers, timers, allocators and locks. This directory
models the parts in which threads meet, checks them with TLC on small
instances, and proves the most important results with TLAPS for every size.

Paths below are relative to `src/`.

## 1. Inventory

| Part | State | Operations | Who meets whom |
|---|---|---|---|
| `Mutiqueue/mpmc-bounded-queue.hpp` | ring of slots, each with a sequence number; head and tail counters | `enqueue`, `dequeue` | any number of producers and consumers, atomics only |
| `udpclient/pool/thpool.c` | job list, binary semaphore, three mutexes, counters of living and working threads, two process-wide flags | init, add_work, wait, pause, resume, destroy | workers and clients; SIGUSR1 stops a worker wherever it is |
| `udpclient/linux/net/async_task_queue.c`, `lock.h` | linked list of tasks, lock, eventfd | submit, process | any thread and the loop's thread |
| `udpclient/linux/net/loop.c` | run flag, thread id, epoll descriptor, task queue, timer queue | loop_loop, loop_run_inloop, loop_async, loop_quit, runafter/runevery, cancel, refresh | the centre of the net library |
| `udpclient/linux/net/timer_queue.c` | sorted list of timers, smallest timestamp; per timer its time, interval and four flags | add, cancel, refresh, gettimeout, process, destroy | tasks from other threads, callbacks that change the list while it is walked |
| `log/NanoLog.cpp` | a ring or a queue of buffers of lines, the state of the logger, the current file | push, try_pop, pop, destructor, write, roll | any number of producers, one logger thread |
| `udpclient/linux/net/channel.c`, `udp_peer.c` | event mask, epoll entry, `is_alive`, `is_in_callback` of a channel; reference count and callbacks of a peer | new, onmessage, onwrite, destroy; setevent, clearevent, detach, onevent | other threads through tasks of the loop, and callbacks of the round being dispatched |
| `udpclient/linux/net/time_wheel.c` | buckets of linked timers, the current bucket | submit, cancel, refresh, step, destroy | one thread; callbacks use the wheel while a bucket is walked |
| `Mutiqueue/mpsc-queue.hpp`, `spsc-queue.hpp`, `spsc-bounded-queue.hpp` | linked nodes behind a dummy; a ring with two counters | enqueue, dequeue, destructor | many producers or one, one consumer |
| `Mutiqueue/sync_queue.hpp`, `main.cpp` | two deques with condition variables | push_back, move, exit | the threads of one program: input, calculation, output |
| `base/log.cpp`, `base/task_queue_impl.h` | list of tasks and its flag, the `log_t` with its levels, classes and file | start, stop, log statements, mod_*; produce, consume, close | any thread and the one worker |
| `sync/rwlock.c`, `rwlock.hpp` | two semaphores and a count; two counters | read and write, lock and unlock | any |
| `udpclient/linux/net/buffer.c`, `sync/` spin locks and wrappers | bytes; platform primitives | | |
| `Memory/`, `mempool/`, `mmap_file/` | slabs, free lists, mapped areas | alloc/free | sequential as built |
| `timer/*` | third-party timer wheels | add/stop/tick | sequential |
| `client/`, `udpclient/udpserver/`, `epoll_client.c` | programs | | |
| `ini/`, `String-master/`, `xml/`, zlib, rapidjson | parsers, strings | | sequential or third-party |

How they fit together. The loop owns a task queue and a timer queue. Other
threads reach the loop only through `loop_run_inloop`, which becomes a task of
the queue; timers and channels are therefore changed in the loop's thread
alone, and everything rests on the task queue (AsyncTaskQueue), on which
TimerQueue and UdpPeer build. The client program uses the thread pool next to the loop.
The loggers, the queues of `Mutiqueue` and the locks stand alone.

What is hard about them: claims with compare-and-swap and checks that may be
stale (MPMC); a binary semaphore that forgets posts and a wait that reads two
values under two different mutexes (pool); the eventfd written after the
unlock, and a lock that does not lock (task queue); cancels, refreshes and
inserts from callbacks of the batch that is being walked (timers); a ring that
is lapped, 32-bit indices that wrap, and a buffer that is freed under the
thread that filled it (NanoLog); peers destroyed by a callback of the round that
names them, or by another thread with changes under way (UDP peer); nodes
deleted beside a producer that links behind them (list queues); a
condition variable that wakes one of several waiters (pipeline); a stop and
restart that leave the flag of the task queue set (log service); a bucket that changes
under the walk (time wheel). `PROJECT.json` lists each of these hazards at
its line.

`udpclient/udpserver/epoll/` is a copy of `udpclient/linux/net/`; the models
stand for both.

## 2. Modules

| Module | Models | State and actions |
|---|---|---|
| `BoundedFifo` | the promise of a bounded queue | a sequence, what each consumer got; Put, Get |
| `MpmcQueue` | `mpmc_bounded_queue_t` | the code's `_head_seq`, `_tail_seq`, `seq`, `data`, and `pc`, `pos`, `val` per thread; one action per access to shared memory (`EnqLoad`, `EnqCheck`, `EnqClaim`, ...). A failing compare-and-swap, spurious ones too, is `EnqRetry`/`DeqRetry` |
| `ThreadPool` | `thpool.c` | the job queue, `sem`, the three mutexes, the counters, the flags; a worker's step is one lock operation or one critical section, the `bsem_post` inside `jobqueue_pull` included, so that a signal can catch it with any mutex in hand (`Hold`/`Unhold`) |
| `AsyncTaskQueue` | `async_task_queue.c`, `lock.h`, and the loop around it | `head`, `tail`, `nxt` are the pointers of the list; one action per access, lock operation or system call; another thread's `loop_quit` looks at `loop->run` (`QuitHere`) and clears it (`DoQuit`) in two steps. `Excludes` chooses between the two branches of `lock.h` |
| `TimerQueue` | `timer_queue.c` and the loop around it | the code's fields, one function of timers each; the linked list is a sequence, the task queue a FIFO of requests, the clock a number |
| `FileWriter` | `FileWriter` | the bytes in the current file, the files; `Write` with rolling |
| `NanoLogger` | `NanoLogger`: constructor, `pop()`, destructor | `state`, where the thread is, the lines logged |
| `NanoRing` | `RingBuffer` under `NonGuaranteedLogger` | one locked section of an item is one step |
| `NanoQueue` | `Buffer`, `QueueBuffer` under `GuaranteedLogger` | one atomic access or one section under the spin lock is one step |
| `Channel` | `channel.c`, `do_loop_update_channel` | a channel as a record and its functions as operators on it: event mask, what epoll was told, whether it is being dispatched |
| `UdpPeer` | `udp_peer.c` and the loop around it | `peer`, `chan`, the task queue as a FIFO, the round of channels being dispatched; one action per call of a client, per call of a callback, per task and per part of `udp_peer_onevent` between callbacks |
| `LinkedQueue` | `mpsc-queue.hpp`, `spsc-queue.hpp` | `head`, `tail`, `next`, the nodes made and deleted; one action per shared access. `kind` chooses the enqueue |
| `SpscRing` | `spsc-bounded-queue.hpp` | `head`, `tail` modulo `Wrap`, `buffer` |
| `AddPipeline` | `sync_queue.hpp` as `Mutiqueue/main.cpp` uses it | the two queues, who waits for room or for data; a section under the mutex is one step |
| `LogService` | `base/log.cpp`, `task_queue_impl.h`, the log macros | the task list, its flag, the current `log_t`, the files of each day; a log statement is three steps (`CheckLevel`, `Find`, `Log`) between which the worker may change the configuration |
| `RwLock` | `sync/rwlock.c`, `sync/rwlock.hpp` | semaphores or counters, and where each thread is. A `sem_wait` on `mtx`, or on `wrt` in `rwl_writeLock`, that fails changes nothing and is a stuttering step |
| `TimeWheel` | `time_wheel.c` | the buckets as sequences, the walk of `time_wheel_step`; callbacks submit, cancel and refresh |
| `*_proofs` | theorems about the module they are named after; `Units_proofs` is about the units of MCUnits, `NanoRing_proofs` also about FileWriter | |
| `MC*` | instances for TLC | |

NanoRing and NanoQueue extend NanoLogger, which extends FileWriter: both
runs drive the whole path from a log statement to a file. MpmcQueue, LinkedQueue
and SpscRing instantiate BoundedFifo with refinement mappings. UdpPeer extends
Channel. MCUnits puts the smaller units into one instance: a variable `unit`, chosen
by Init, says which one runs; the others stay in their initial state, so the
behaviours of the instance are exactly those of the units.

A definition whose comment begins "Faulty variant" is a plausible mistake in the
definition that follows it. The specifications do not use these definitions;
`PROJECT.json` pairs each property with one that breaks it.

## 3. Runs and what they show

Passing runs:

* `mpmc_safety`: two producers, two consumers, two slots, four claims (each
  slot used in two rounds). No two threads use a slot's plain data at once
  (`SlotExclusive`); the ring refines the bounded FIFO with the effect at the
  claims (`FifoSpec`); a call fails only when the queue is full or empty or the
  thread at the very next slot is not done (`HonestFailure`); and the inductive
  invariant of the proof (`IInv`), which includes that the sequence number
  loaded before a compare-and-swap is still right if the swap succeeds
  (`CasFresh`).
* `pool`: two workers and a client that adds two jobs, waits, pauses, resumes
  and destroys. `PoolInv` and `SemInv` are the inductive invariants of the
  proofs; `WaitsEnd`: who asks for a mutex waits behind a thread that is in a section
  of it and asks for none, or for one whose owner asks for none, so that
  nobody but a worker caught by `thpool_pause` can keep the others waiting;
  `WaitSound`: `thpool_wait` returns after every job added before it;
  `OnlyUnlockLeft`: when the pool is freed, a worker has at most the unlock of
  `thcount_lock` left; `EveryJobRuns`, `LoneWaitReturns`, `DestroyReturns`.
* `async`: two clients and the loop's own callbacks, three tasks, quits, a
  lock that excludes. `QueueInv`: the pointers form the list of the tasks
  linked and not yet taken, each task runs once, in order, and is freed after
  that; `NoLostWakeup`; `EveryTaskRuns`; `QuitEnds`.
* `timer`: two timers, once or periodic, three ticks. `OnePlace`: a timer is in
  the list, in the batch, on its way in a task or freed, and its flags say
  which; `NoOversleep`: the list is sorted, `min_timestamp` is its first, and
  an `epoll_wait` never outlasts the first timer; `CancelledSilent`: no callback
  after a cancel, none early; `EveryTimerFires`.
* `ring`: three producers, seven lines on two items, indices that wrap at
  four, files of four bytes. `Accounted`: each line is in one place, however
  often the ring is lapped; `LossNeedsOverrun`: without an overrun lines come out in
  order, none is dropped and the destructor drains all; `FilesComplete`: what
  was popped is in the files, in order, and no file passes the roll size by more
  than a line; `Delivered` without an overrun.
* `nanoqueue`: three producers, five lines, buffers of two items. No two
  producers build an item in one place, and one switches buffers at a time
  (`OwnItem`); each line is on its way or in the file and never twice, the
  reader never looks at a freed buffer and the destructor drains everything
  (`NothingDropped`). All as long as no producer has touched a freed buffer,
  which the next list is about.
* `udp_peer`: two peers, a client, one change, two datagrams, two chunks per
  event. `RefsCounted`: the count is one for the owner and one for each change
  under way, and a peer is freed when it reaches zero, not before;
  `InterestAgrees`: the epoll set has the events of every channel in use
  and leads to no freed one; `KnownFaults`: whatever callbacks, tasks and other
  threads destroy, no freed channel is dispatched and no task finds its peer
  freed, with two exceptions that the code has: a message callback that destroys or
  silences its own peer with chunks left, and a callback that destroys a peer
  whose set-up task has not run (it counts no reference). What follows such a
  fault is undefined and not explored. `DestroyFrees`, `Heard`: destroyed peers are
  freed, datagrams are read.
* `units`: one unit per behaviour.
  - The linked queues (two producers, five nodes), the single-producer ring
    (four slots, counters that wrap at eight) and the MPMC queue. `NodesLive`: no
    thread uses a deleted node and none is leaked, the destructor included.
    `QueueSteps`: each step of LinkedQueue and SpscRing is a step of the abstract
    FIFO or a stutter, and a call that fails has its reason. `Progress`: what was put
    is taken, by a consumer that polls; in the pipeline every input is
    printed.
  - The pipeline (two feeders, queues of one, four inputs). `InTransit`: what is
    printed, queued for printing, being calculated and queued for calculation is, in
    that order, exactly what was pushed; no queue passes its bound before `exit()`.
  - The log service (two clients, two lines, one change, three starts, two
    days). `TasksLive`: a task runs on a live `log_t` and with a class that still
    exists, as long as the service was not restarted; `DayFiles`: a line on
    disk is in a file of the day it was written on, once and in no other file, and
    no file is opened over it while its own day has names left (with two lines the
    names do not run out here; the theorem covers that); `LinesLogged`: a queued line
    is run and `stop()` returns after it, without a restart.
  - The reader-writer locks (three threads). `LocksExclude`: a writer excludes
    everyone, as long as no wait of a first reader was interrupted. `Progress`: a writer
    of the spinning lock that has announced itself gets in.
  - The time wheel (three timers, three buckets, steps below, between and above).
    `OnTime`: a timer is called in the step it was asked for, as far
    as the wheel reaches, once per turn, and never after a cancel, with callbacks that use the wheel.

Runs that show a disagreement between the code and what it says of itself:

* `mpmc_size_one`: a queue of one slot passes the constructor's assertion and
  overwrites a value that was never taken.
* `pool_two_waiters`: `pthread_cond_signal` at `thpool.c:315` wakes one of two
  clients in `thpool_wait`; the other sleeps for ever.
* `async_linux`: the `__linux__` branch of `lock_it` calls
  `pthread_mutex_destroy`; a task linked while the loop clears the list is
  never run. `QueueInvariance` shows that the loop's thread alone, which is how
  the two programs use it, is safe even so.
* `nanoqueue_guarantee`: a producer stores the write state of the last item and
  counts it in two steps; the reader may free the buffer in between, the count
  is then read from freed memory and the next buffer may never be set up.

Also seen while modelling, kept as hazards without a run: a ring whose size does
not divide 2^32 drops lines at the wrap although it is not full (`Size = 3`,
`Wrap = 4` breaks `LossNeedsOverrun`); after an overrun `pop()` stops draining
at the first empty item; a roll size of 4096 MB wraps to 0; a SIGUSR1 delivered
after `thpool_resume` puts its worker on hold again; refreshing a timer from its
own callback, or one that waits in the batch, damages the list.

Seen in the units, and part of their models:

* `base/log.cpp` never counts `m_line_num`, so a file is never rolled at
  `MAX_LINE_NUM`; the swapped arguments of `memset` in the constructor leave
  `m_last_create_dir_tm` uninitialised, and the first line may take it for today.
* `stop()` closes the task queue for good: after a restart the worker ends
  at the first empty list, and the worker after that runs old tasks on a deleted `log_t`.
* `exit()` of `sync_queue.hpp` wakes nobody, though the comment above it says that it
  triggers the condition variable.
* An interrupted `sem_wait` in `rwl_readLock` leaves the reader counted.
* In the time wheel, a timer of `max_steps` steps is called in the next step; 0
  steps (in a loop) or more than `max_steps` (refreshed or in a loop) index outside the
  array; cancelling or refreshing the timer being called, or the next in the
  walk, uses freed memory.

### Bounds

`MaxSeq`, `MaxJobs`, `MaxPauses`, `MaxTasks`, `MaxLines`, `MaxTime`, `MaxCalls`,
`MaxIn`, `MaxNodes`, `MaxInput`, `MaxMods`, `MaxStarts`, `MaxDays`, `MaxTimers`,
`MaxTicks` cap what the
outside world asks for; no component stops because of them. Two threads per role
suffice for every race between two parties, and three producers are used where
a third can come between two others (NanoLog). A ring of two is used in at
least two rounds. `Chunks` stands for the size of a peer's receive buffer and
`MaxTry` for the 10000 file names that are tried. For the properties with a theorem (section 4) the bounds do not matter: they
hold for all of them. The code's widths are kept where they matter: the 32-bit indices of NanoLog's ring
and the masked counters of SpscRing (`Wrap`), and the 32-bit roll size (`RollWrap`). The MPMC counters
are naturals, since a `size_t` wraps after 2^64 operations. The code's 100 ms cap
on `epoll_wait` is `MaxWait`.

Symmetry is used in the two large safety runs only, over producers, consumers
and values, none of which is compared with anything but equality.

### Fairness

Threads are scheduled (weak fairness of a thread's steps), callbacks and jobs
return. Strong fairness is assumed of getting a mutex or a spin lock that is
free again and again and of a compare-and-swap that could succeed again and
again. No call is forced: clients need not add, wait, resume or quit. In the
pool's liveness properties `NotHeld` sets aside workers left in the signal
handler for ever, which the code allows. In TimerQueue the clock ticks up to
`MaxTime` and `epoll_wait` returns at its timeout or for the eventfd; that a
written eventfd wakes the loop is `NoLostWakeup` of AsyncTaskQueue. In UdpPeer
the loop's thread is scheduled and a client ends a call it began. In the units a
thread inside a call goes on, consumers poll, and the pipeline's and the
service's threads are scheduled; a feeder that waits on the condition variable moves only
when it is notified.

Deadlock is not checked where the system may stop: a destroyed pool, loop or
logger, or a client population that asks for nothing more.

## 4. Proofs

`MpmcQueue_proofs`, for any sets of threads and values, any `MaxSeq`, and
`Size >= 2`:

* `Invariance`: `Spec => []IInv`. `SlotExclusive` is not inductive: whether a
  slot may be claimed is read off its sequence number, so the invariant has to
  say what every number means (`SeqMeaning`), where claimed positions lie
  (`ClaimRange`, `Bounded`), that they are distinct (`ClaimUnique`) and that a
  check before a compare-and-swap is not stale (`CasFresh`). `Written` carries
  the data for the refinement.
* `TypeCorrect`, `NoDataRace`, `NoOverwrite`, `FailuresHonest` follow.
* `ImplementsFifo`: `Spec => Fifo!Spec`; a claim maps to Put or Get, everything
  else to a stuttering step. Two positions fewer than `Size` apart have
  different slots (a lemma on `%`), so a write disturbs no other item.

`ThreadPool_proofs`, for any finite set of workers, any clients, jobs and pauses:

* `PoolInvariance`: the working count is the number of workers between its `++`
  and `--` (cardinality lemmas), and each job is queued, in one worker's hand
  or done.
* `WaitIsSound`: `thpool_wait` reads the length and then the count; with a job in
  hand always counted, both zero means all done.
* `SemInvariance`: whoever leaves jobs behind posts again.
* `LockWaitsEnd` (`WaitsEnd`), from `Holders`: a mutex is with the one thread that is
  in a section of it. Of the sections only the one of `rwmutex` asks for another
  mutex, `has_jobs->mutex`, and that one's ask for none.
* `FreedAfterWorkers`: `OnlyUnlockLeft`. Its invariant, `LifeInv`, ties the count of
  living threads to the workers between their `++` and `--`, so that the zero
  that `thpool_destroy` polls for finds every worker behind its last section.

`AsyncTaskQueue_proofs`, for any clients and any number of tasks, assuming
`Excludes` or no other thread:

* `QueueInvariance`: the list of pointers against the history `order` of linked
  tasks. `ListShape` and `BatchShape` say which part of the history the list, the
  batch and the cursors stand for; `StillTrue` says that what a submitter
  read still holds when it acts; `HandsFresh` keeps its task out of
  everyone's reach.
* `WakeupsKept`: `NoLostWakeup` from `QueueInv`.

`TimerQueue_proofs`, for any timers, intervals, longest wait and end of the clock:

* `TimerInOnePlace` (`OnePlace`), `NeverOversleeps` (`NoOversleep`) and the action
  property `CancelledNeverCalled` (`CancelledSilent`), all from `TimerInv`.
  `OnePlace` alone is not inductive: a task that waits names a timer, so the
  invariant says which tasks may wait for which timer and in which order
  (`TaskOrder`: the insertion first, the cancel last; `TaskFacts`), which flags
  say that a timer is alive (`AliveOK`, `FreedOK`, `UnusedOK`), where the
  loop's thread is (`LoopOK`) and that a batch was due when it was taken
  (`BatchDue`). Lemmas on insertion into and removal from a sorted sequence carry
  `NoOversleep`.

`UdpPeer_proofs`, for any peers and any finite set of clients:

* `EveryReferenceCounted` (`RefsCounted`), `NoOtherFault` (`KnownFaults`) and
  `EpollAgrees` (`InterestAgrees`), from `PeerInv`. `CountOK` says what the count
  stands for at each stage of a peer's life (cardinalities of the changes in
  clients' hands and in the queue), `OneDestroy` that a destruction is queued
  once, `ChannelOK` how a peer's stage and its channel's fields agree, `HeldOK` that
  the loop still holds the channels of its round.

`NanoRing_proofs`, for any producers, lines, ring size and index width with
`Size <= Wrap`:

* `EveryLineAccounted` (`Accounted`): the invariant adds that only lines that
  were claimed are anywhere and that no two producers have the same one.
* `NoLossWithoutOverrun` (`LossNeedsOverrun`), under the hypothesis `Wrap % Size = 0`,
  which is needed (see the hazards): the indices are the counts modulo `Wrap`
  (`Indices`), so each line under way has the item of its number (`InOrder`),
  and with at most `Size` of them no two share one.
* `RollingComplete` (`FilesComplete`), under the hypothesis `RollFits` that the roll
  size fits the 32-bit integer it is computed in; a roll size of 4096 MB wraps
  to 0, and the closed files are then smaller than asked for. `Bytes` and
  `Joined` are recursive functions; `Steps` and `StayAlike` show,
  by looking at the least place where they would fail, that such functions exist
  and are unique, and `BytesAppend`, `JoinedGrows` and `JoinedBegins` what they
  are on a longer sequence.

`NanoQueue_proofs`, for any producers, lines and buffer size:

* `ItemsOwned` (`OwnItem`) and `NoLineDropped` (`NothingDropped`), from `QueueInv`:
  where the threads are, with or without a fault (`Control`), and, as long as no
  producer has touched a deleted buffer, three more parts. `Slots`: the count of
  the current buffer is the number of its items that were filled and counted
  (a cardinality), so exactly one producer counts the last one and switches. `Order`:
  the queue is an interval of the buffers in the order they were made, the
  deleted ones are those before it, all but the newest are full. `Places`: each
  line is in one hand or one item, and is in the file when its item was read.
* `OnlyLateCounts`: the first use of a deleted buffer, if there is one, is the
  `fetch_add` of a producer whose buffer was already popped to its end; no item is
  ever built in one. So the window that `nanoqueue_guarantee` shows is the only one.

`Units_proofs`, for any threads, values and bounds:

* `Locks` (`LocksExclude`), for any finite set of threads: the semaphores and
  counters are cardinalities of the threads at certain labels.
* `Pipeline` (`InTransit`): the property is inductive together with the types.
* `LogTasksLive` (`TasksLive`): `ServiceInv` says that everything that waits is on
  the current `log_t` until a task was queued for a worker that had ended, which takes a
  second `start()`. `LogDayFiles` (`DayFiles`): `LinesInv` says that a
  line that waits was not logged yet and waits in one task only, so it is written
  once; `FilesInv` adds that the open file is one of the `log_t`'s day and that a `log_t`
  that has opened a file finds none of a later day. So a name that exists is opened
  only after every name of that day was tried, and the lines it loses are of that day.
* `LinkedNodesLive` (`NodesLive`): `LinkedInv` describes the nodes from `_tail` along the
  history `queue` (`Chain`): no node is there twice, deleted or in a producer's
  hand (`OwnNodes`, `Apart`), the chain is linked but where a producer is
  between its two steps (`Links`, `HeadLast`), and every node is somewhere.
* `QueuesFifo` (`QueueSteps`): every step of the linked queues and of the
  single-producer ring is a step of BoundedFifo or a stutter, and failures are
  honest. For the ring, under `RingAssumption` (its size divides the range of its
  counters, as powers of two do), `RingInv` bounds the number of values in it (`Fill`)
  by what the producer and the consumer have checked; lemmas on `%` relate
  counters that have wrapped to slots.
* `WheelCallsOnTime` (`OnTime`), for any numbers of timers and buckets and any
  steps asked for: `WheelInv` says that a timer is in one place which
  `bucket->index` names (`Placed`), and that the distance of its bucket from the wheel's
  index is the time it has left (`Punctual`).

Every invariant that a passing run checks, and every action property, has its theorem.
The constants' assumptions are the named ASSUMEs of the component modules and of
MCUnits, which TLC evaluates in every run that extends them. Where a theorem needs more
than they say, the hypothesis is in its statement.

Only model-checked: the liveness properties `EveryJobRuns`, `LoneWaitReturns`,
`DestroyReturns`, `EveryTaskRuns`, `QuitEnds`, `EveryTimerFires`, `Delivered`,
`DestroyFrees`, `Heard`, `Progress` and `LinesLogged`. Liveness under fairness is
outside what TLAPS can prove.

## 5. Not modelled

* Weak memory: all models are sequentially consistent. The relaxed accesses of
  the MPMC queue and NanoLog are separate steps, so every interleaving is
  covered, not every reordering.
* Failing allocations and system calls: most of the code does not check them.
* The contents of jobs, tasks, callbacks and log lines.
* Calls outside a component's discipline: on a destroyed pool, loop or peer, on
  a timer that may have been freed, a log statement beside the destructor, a
  second thread that uses a peer before the loop runs.
* `channel_attach`, `rwl_isActive`, `rwl_destroy`, `multi_produce` and
  `consume_all`: nothing in the tree calls them, or their use is undefined.
* Sequential and third-party code: parsers, strings, XML, the allocators (their
  lock macros are empty or commented out), the other timer libraries, zlib,
  rapidjson, OpenSSL's headers. They are most of the lines of the tree, and have neither
  interleavings nor a protocol; `RTT` estimation is floating point.
* The programs (`client/`, `udpclient/udpserver/`, `epoll_client.c`): their
  behaviour depends on servers and devices that are not in the tree.
* "components" in `PROJECT.json` gives each part's reason.

## 6. Plan

Done: the models, and a theorem for each safety property. What is left: TimerQueue and
UdpPeer take the task queue of the loop for a FIFO of requests. State this
as an abstract specification and prove that AsyncTaskQueue implements it, with
the effect of a submit at the link and that of a take where the list is
cleared.
