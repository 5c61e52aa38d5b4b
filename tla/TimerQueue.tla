---------------------------- MODULE TimerQueue ----------------------------
(***************************************************************************)
(* The timers of the event loop: timer_queue.c with the part of loop.c     *)
(* that drives it (loop_runafter, loop_runevery, loop_cancel,              *)
(* loop_refresh and the main loop of loop_loop).                           *)
(*                                                                         *)
(* All work on the list of timers is done in the loop's thread.  Other     *)
(* threads hand theirs over as tasks; AsyncTaskQueue shows that, with a    *)
(* lock that excludes, the task queue is a FIFO that never forgets to wake *)
(* the loop, and this is all that is kept of it here.  The doubly linked   *)
(* list is a sequence of timers.  A callback may add, cancel and refresh   *)
(* timers while the batch of expired timers it belongs to is walked.       *)
(*                                                                         *)
(* The calls follow the only discipline under which a caller can know that *)
(* the timer still exists: a timer is cancelled once, one that fires once  *)
(* is cancelled in the loop's thread and before it was freed, and nobody   *)
(* refreshes a timer that is unlinked or has been cancelled.               *)
(***************************************************************************)
EXTENDS Integers, Sequences, SequencesExt

CONSTANTS
  Timers,     \* the loop_timer_t objects ever allocated
  None,       \* no timer is in its callback
  Intervals,  \* the intervals timers are added with
  MaxWait,    \* the longest epoll_wait (100 milliseconds in the code)
  MaxTime     \* bound: the clock stops there

ASSUME TimerAssumption ==
  /\ None \notin Timers
  /\ Intervals \subseteq Nat \ {0}
  /\ MaxWait \in Nat \ {0}
  /\ MaxTime \in Nat

VARIABLES
  now,             \* the clock of get_current_timestamp
  timer_list, min_timestamp,                     \* the timer_queue_t
  timestamp, interval, is_alive, is_expired, is_in_queue,   \* the timers
  used, freed,     \* the timers allocated so far, and the ones freed
  tasks,           \* the loop's asynchronous tasks on timers
  woken,           \* epoll_wait reported the eventfd of the task queue
  todo,            \* tasks of the batch taken off the queue that are still to run
  pc,              \* where the loop's thread is
  deadline,        \* when its epoll_wait times out (0 when it is not in one)
  done_timer,      \* rest of the batch of expired timers
  current,         \* the timer whose callback is running
  asked, cancelled \* history: cancels called for, cancels carried out

fields == <<timestamp, interval, is_alive, is_expired, is_in_queue>>
queue  == <<timer_list, min_timestamp>>
batch  == <<done_timer, current>>
memory == <<used, freed>>
history == <<asked, cancelled>>
loop   == <<pc, deadline, woken, todo>>
vars   == <<now, queue, fields, memory, tasks, loop, batch, history>>

Task == [op : {"insert", "cancel", "refresh"}, timer : Timers]

(***************************************************************************)
(* The list                                                                *)
(***************************************************************************)

\* Where insert_timer_inloop's walk over list l ends: before the first timer
\* that is due later than timestamp d.
Position(l, ts, d) ==
  CHOOSE k \in 1..Len(l) + 1 :
    /\ \A j \in 1..k - 1 : ts[l[j]] <= d
    /\ k <= Len(l) => ts[l[k]] > d

\* Faulty variant: the minimum is only set for an empty list.
InsertTimerStaleMin(l, min, ts, t) ==
  LET k == Position(l, ts, ts[t])
  IN  [list |-> InsertAt(l, k, t), min |-> IF l = <<>> THEN ts[t] ELSE min]

\* insert_timer_inloop, given the list and the minimum before it
InsertTimer(l, min, ts, t) ==
  LET k == Position(l, ts, ts[t])
  IN  [list |-> InsertAt(l, k, t), min |-> IF k = 1 THEN ts[t] ELSE min]

IndexOf(l, t) == CHOOSE k \in 1..Len(l) : l[k] = t

\* remove_timer_inloop
RemoveTimer(t) ==
  LET rest == RemoveAt(timer_list, IndexOf(timer_list, t))
  IN  [list |-> rest,
       min  |-> IF timer_list[1] # t THEN min_timestamp
                ELSE IF rest = <<>> THEN now
                ELSE timestamp[rest[1]]]

\* timer_queue_add: the new object, before it is handed to do_insert_timer
NewTimer(t, ts, i) ==
  /\ used' = used \cup {t}
  /\ timestamp' = [timestamp EXCEPT ![t] = ts]
  /\ interval' = [interval EXCEPT ![t] = i]
  /\ is_alive' = [is_alive EXCEPT ![t] = TRUE]

SetQueue(q) == timer_list' = q.list /\ min_timestamp' = q.min

Init ==
  /\ now = 0
  /\ timer_list = <<>> /\ min_timestamp = 0
  /\ timestamp = [t \in Timers |-> 0]
  /\ interval = [t \in Timers |-> 0]
  /\ is_alive = [t \in Timers |-> FALSE]
  /\ is_expired = [t \in Timers |-> FALSE]
  /\ is_in_queue = [t \in Timers |-> FALSE]
  /\ used = {} /\ freed = {}
  /\ tasks = <<>>
  /\ pc = "top" /\ deadline = 0 /\ woken = FALSE /\ todo = 0
  /\ done_timer = <<>> /\ current = None
  /\ asked = {} /\ cancelled = {}

Running == pc # "destroyed"

Tick ==
  /\ Running /\ now < MaxTime
  /\ now' = now + 1
  /\ UNCHANGED <<queue, fields, memory, tasks, loop, batch, history>>

(***************************************************************************)
(* Other threads                                                           *)
(***************************************************************************)

Submit(op, t) == tasks' = Append(tasks, [op |-> op, timer |-> t])

\* loop_runafter (the timer's interval is 0) and loop_runevery by a thread
\* that read the clock at time start and submits do_insert_timer now
ClientAdd(t, start, delay, i) ==
  /\ Running /\ t \notin used
  /\ NewTimer(t, start + delay, i)
  /\ Submit("insert", t)
  /\ UNCHANGED <<now, queue, is_expired, is_in_queue, freed, loop, batch, history>>

\* A caller that may hold the handle of timer t
Handle(t) == t \in used \ asked

Pending(op, t) == \E k \in 1..Len(tasks) : tasks[k] = [op |-> op, timer |-> t]

\* timer_queue_cancel from another thread: only a timer with an interval is
\* sure to exist still.
ClientCancel(t) ==
  /\ Running /\ Handle(t) /\ interval[t] # 0
  /\ Submit("cancel", t)
  /\ asked' = asked \cup {t}
  /\ UNCHANGED <<now, queue, fields, memory, loop, batch, cancelled>>

\* timer_queue_refresh from another thread (one request at a time)
ClientRefresh(t) ==
  /\ Running /\ Handle(t) /\ interval[t] > 0
  /\ ~Pending("refresh", t)
  /\ Submit("refresh", t)
  /\ UNCHANGED <<now, queue, fields, memory, loop, batch, history>>

(***************************************************************************)
(* The loop's thread: what callbacks and tasks do to the list              *)
(***************************************************************************)

InCallback == pc \in {"events", "call"}

LoopAdd(t, delay, i) ==
  /\ InCallback /\ t \notin used
  /\ NewTimer(t, now + delay, i)
  /\ SetQueue(InsertTimer(timer_list, min_timestamp, timestamp', t))
  /\ is_in_queue' = [is_in_queue EXCEPT ![t] = TRUE]
  /\ UNCHANGED <<now, is_expired, freed, tasks, loop, batch, history>>

\* Faulty variant: a timer of the batch is treated like a linked one and
\* freed at once.
CancelExpiredFreed(t) ==
  /\ IF is_in_queue[t]
     THEN /\ IF t \in Range(timer_list) THEN SetQueue(RemoveTimer(t)) ELSE UNCHANGED queue
          /\ freed' = freed \cup {t}
          /\ UNCHANGED is_alive
     ELSE /\ is_alive' = [is_alive EXCEPT ![t] = FALSE]
          /\ UNCHANGED <<queue, freed>>
  /\ cancelled' = cancelled \cup {t}

\* timer_queue_cancel_inloop; is_in_callback is set for the current timer.
Cancel(t) ==
  /\ IF t # current /\ ~is_expired[t] /\ is_in_queue[t]
     THEN /\ SetQueue(RemoveTimer(t))
          /\ freed' = freed \cup {t}
          /\ UNCHANGED is_alive
     ELSE /\ is_alive' = [is_alive EXCEPT ![t] = FALSE]
          /\ UNCHANGED <<queue, freed>>
  /\ cancelled' = cancelled \cup {t}

\* timer_queue_cancel in the loop's thread
LoopCancel(t) ==
  /\ InCallback /\ Handle(t) /\ t \notin freed
  /\ ~Pending("refresh", t)
  /\ Cancel(t)
  /\ asked' = asked \cup {t}
  /\ UNCHANGED <<now, timestamp, interval, is_expired, is_in_queue, used, tasks, loop, batch>>

\* do_timer_queue_refresh
Refresh(t) ==
  /\ timestamp' = [timestamp EXCEPT ![t] = now + interval[t]]
  /\ LET q == RemoveTimer(t)
     IN  SetQueue(InsertTimer(q.list, q.min, timestamp', t))

LoopRefresh(t) ==
  /\ InCallback /\ interval[t] > 0
  /\ t \in Range(timer_list)
  /\ Refresh(t)
  /\ UNCHANGED <<now, interval, is_alive, is_expired, is_in_queue, memory, tasks, loop, batch, history>>

\* do_insert_timer
DoInsert(t) ==
  /\ IF is_alive[t]
     THEN /\ SetQueue(InsertTimer(timer_list, min_timestamp, timestamp, t))
          /\ is_in_queue' = [is_in_queue EXCEPT ![t] = TRUE]
          /\ UNCHANGED freed
     ELSE /\ freed' = freed \cup {t}
          /\ UNCHANGED <<queue, is_in_queue>>
  /\ UNCHANGED <<timestamp, is_alive, cancelled>>

NextTask == tasks' = Tail(tasks) /\ todo' = todo - 1

\* One task of async_task_queue_process
RunTask ==
  /\ pc = "events" /\ todo > 0
  /\ NextTask
  /\ LET t == Head(tasks).timer
     IN  \/ /\ Head(tasks).op = "insert"
            /\ DoInsert(t)
         \/ /\ Head(tasks).op = "cancel"
            /\ Cancel(t)
            /\ UNCHANGED <<timestamp, is_in_queue>>
         \/ /\ Head(tasks).op = "refresh"
            /\ Refresh(t)
            /\ UNCHANGED <<is_alive, is_in_queue, freed, cancelled>>
  /\ UNCHANGED <<now, interval, is_expired, used, pc, deadline, woken, batch, asked>>

(***************************************************************************)
(* The loop's thread: loop_loop and timer_queue_process_inloop             *)
(***************************************************************************)

\* timer_queue_gettimeout
GetTimeout ==
  IF timer_list = <<>> \/ min_timestamp - now >= MaxWait THEN MaxWait
  ELSE IF min_timestamp < now THEN 0
  ELSE min_timestamp - now

Wait ==
  /\ pc = "top"
  /\ deadline' = now + GetTimeout
  /\ pc' = "wait"
  /\ UNCHANGED <<now, queue, fields, memory, tasks, woken, todo, batch, history>>

\* epoll_wait returns: for the task queue's eventfd, at the timeout, or for
\* some other channel's event or a signal, which may come at any time.
Wakeup == tasks # <<>> \/ now >= deadline

Return ==
  /\ pc = "wait"
  /\ pc' = "events"
  /\ woken' = (tasks # <<>>)
  /\ deadline' = 0
  /\ UNCHANGED <<now, queue, fields, memory, tasks, todo, batch, history>>

\* The task queue's channel is dispatched: async_task_queue_process takes all
\* the tasks there are.
TakeTasks ==
  /\ pc = "events" /\ woken
  /\ woken' = FALSE
  /\ todo' = Len(tasks)
  /\ UNCHANGED <<now, queue, fields, memory, tasks, pc, deadline, batch, history>>

\* All the reported events have been dispatched.
EndEvents ==
  /\ pc = "events" /\ ~woken /\ todo = 0
  /\ pc' = "process"
  /\ UNCHANGED <<now, queue, fields, memory, tasks, deadline, woken, todo, batch, history>>

\* Faulty variant: a timer is not due at the very millisecond it is set to.
ExpiredStrictly(n) ==
  CHOOSE k \in 0..Len(timer_list) :
    /\ \A j \in 1..k : timestamp[timer_list[j]] < n
    /\ k < Len(timer_list) => timestamp[timer_list[k + 1]] >= n

\* The expired timers: where the walk over the list at time n stops
Expired(n) ==
  CHOOSE k \in 0..Len(timer_list) :
    /\ \A j \in 1..k : timestamp[timer_list[j]] <= n
    /\ k < Len(timer_list) => timestamp[timer_list[k + 1]] > n

TakeExpired ==
  /\ pc = "process"
  /\ LET k == Expired(now)
         rest == SubSeq(timer_list, k + 1, Len(timer_list))
     IN  IF k = 0
         THEN /\ pc' = "top"
              /\ UNCHANGED <<queue, is_expired, done_timer>>
         ELSE /\ done_timer' = SubSeq(timer_list, 1, k)
              /\ timer_list' = rest
              /\ min_timestamp' = IF rest = <<>> THEN now ELSE timestamp[rest[1]]
              /\ is_expired' = [t \in Timers |->
                                  is_expired[t] \/ t \in Range(SubSeq(timer_list, 1, k))]
              /\ pc' = "batch"
  /\ UNCHANGED <<now, timestamp, interval, is_alive, is_in_queue, memory, tasks, deadline, woken, todo,
                 current, history>>

\* Faulty variant: is_alive is not looked at before the call.
CallDead ==
  /\ pc = "batch" /\ done_timer # <<>>
  /\ done_timer' = Tail(done_timer)
  /\ current' = Head(done_timer)
  /\ pc' = "call"
  /\ UNCHANGED <<now, queue, fields, memory, tasks, deadline, woken, todo, history>>

\* The next timer of the batch is alive: its callback begins.
Call ==
  /\ pc = "batch" /\ done_timer # <<>>
  /\ is_alive[Head(done_timer)]
  /\ done_timer' = Tail(done_timer)
  /\ current' = Head(done_timer)
  /\ pc' = "call"
  /\ UNCHANGED <<now, queue, fields, memory, tasks, deadline, woken, todo, history>>

\* It was cancelled by a callback before it in the batch.
Skip ==
  /\ pc = "batch" /\ done_timer # <<>>
  /\ ~is_alive[Head(done_timer)]
  /\ done_timer' = Tail(done_timer)
  /\ freed' = freed \cup {Head(done_timer)}
  /\ UNCHANGED <<now, queue, fields, used, tasks, loop, current, history>>

\* The callback returns: a timer with an interval is linked again.
CallReturn ==
  /\ pc = "call"
  /\ IF is_alive[current] /\ interval[current] # 0
     THEN /\ timestamp' = [timestamp EXCEPT ![current] = @ + interval[current]]
          /\ is_expired' = [is_expired EXCEPT ![current] = FALSE]
          /\ is_in_queue' = [is_in_queue EXCEPT ![current] = TRUE]
          /\ SetQueue(InsertTimer(timer_list, min_timestamp, timestamp', current))
          /\ UNCHANGED freed
     ELSE /\ freed' = freed \cup {current}
          /\ UNCHANGED <<queue, timestamp, is_expired, is_in_queue>>
  /\ current' = None
  /\ pc' = "batch"
  /\ UNCHANGED <<now, interval, is_alive, used, tasks, deadline, woken, todo, done_timer, history>>

EndBatch ==
  /\ pc = "batch" /\ done_timer = <<>>
  /\ pc' = "top"
  /\ UNCHANGED <<now, queue, fields, memory, tasks, deadline, woken, todo, batch, history>>

\* The loop was told to quit, and loop_destroy frees the timers of the list.
\* The callers have stopped by then.
Destroy ==
  /\ pc = "top"
  /\ freed' = freed \cup Range(timer_list)
  /\ timer_list' = <<>>
  /\ pc' = "destroyed"
  /\ UNCHANGED <<now, min_timestamp, fields, used, tasks, deadline, woken, todo, batch, history>>

ClientStep(t) ==
  \/ \E d \in Intervals, start \in 0..now :
       ClientAdd(t, start, d, 0) \/ ClientAdd(t, start, d, d)
  \/ ClientCancel(t)
  \/ ClientRefresh(t)

CallbackStep(t) ==
  \/ \E d \in Intervals : LoopAdd(t, d, 0) \/ LoopAdd(t, d, d)
  \/ LoopCancel(t)
  \/ LoopRefresh(t)

LoopStep ==
  \/ Wait \/ Return \/ TakeTasks \/ RunTask \/ EndEvents
  \/ TakeExpired \/ Call \/ Skip \/ CallReturn \/ EndBatch

Next ==
  \/ Tick
  \/ \E t \in Timers : ClientStep(t) \/ CallbackStep(t)
  \/ LoopStep
  \/ Destroy

Spec == Init /\ [][Next]_vars

\* The clock goes on; epoll_wait returns at its timeout or when the eventfd
\* is written; the loop's thread is scheduled and its callbacks return.
FairSpec ==
  /\ Spec
  /\ WF_vars(Tick)
  /\ WF_vars(LoopStep /\ (pc = "wait" => Wakeup))

(***************************************************************************)
(* Properties                                                              *)
(***************************************************************************)

\* The state is well typed, and the loop never has more tasks to run than wait.
TypeOK ==
  /\ now \in 0..MaxTime
  /\ timer_list \in Seq(Timers) /\ min_timestamp \in Nat
  /\ timestamp \in [Timers -> Nat] /\ interval \in [Timers -> Nat]
  /\ is_alive \in [Timers -> BOOLEAN]
  /\ is_expired \in [Timers -> BOOLEAN]
  /\ is_in_queue \in [Timers -> BOOLEAN]
  /\ used \subseteq Timers /\ freed \subseteq used
  /\ tasks \in Seq(Task)
  /\ pc \in {"top", "wait", "events", "process", "batch", "call", "destroyed"}
  /\ deadline \in Nat /\ woken \in BOOLEAN /\ todo \in 0..Len(tasks)
  /\ done_timer \in Seq(Timers) /\ current \in Timers \cup {None}
  /\ asked \subseteq used /\ cancelled \subseteq asked

\* The list has no timer twice and is in order of the timestamps.
Sorted ==
  \A j, k \in 1..Len(timer_list) :
    j < k => /\ timestamp[timer_list[j]] <= timestamp[timer_list[k]]
             /\ timer_list[j] # timer_list[k]

Overdue(t) == t \in used \ freed /\ timestamp[t] <= now

Linked == Range(timer_list)
InBatch == Range(done_timer) \cup (IF current = None THEN {} ELSE {current})
Arriving == {t \in Timers : Pending("insert", t)}

\* A timer is in one place: in the list, in the batch being called, on its
\* way in a task, or freed; its flags say which, so that a cancel frees the
\* linked ones and leaves the others to whoever holds them; and nobody,
\* a waiting task included, still refers to a freed one.  Once the loop is
\* destroyed only timers whose insertion it never came to are left.
OnePlace ==
  /\ TypeOK
  /\ \A t \in Linked : /\ is_alive[t] /\ is_in_queue[t] /\ ~is_expired[t]
                      /\ t \notin freed \cup InBatch \cup Arriving
  /\ \A t \in InBatch : is_expired[t] /\ t \notin freed \cup Arriving
  /\ \A t \in Arriving : ~is_in_queue[t] /\ ~is_expired[t] /\ t \notin freed
  /\ \A j, k \in 1..Len(done_timer) : j < k => done_timer[j] # done_timer[k]
  /\ current \notin Range(done_timer)
  /\ \A k \in 1..Len(tasks) : tasks[k].timer \notin freed \/ pc = "destroyed"
  /\ used = Linked \cup InBatch \cup Arriving \cup freed

\* The loop never sleeps past the first timer of its list: an epoll_wait that
\* nothing else interrupts ends when that timer is due, or at once.  The list
\* stays in order of the timestamps, and min_timestamp, which the wait is
\* computed from, is the first one's.
NoOversleep ==
  /\ Sorted
  /\ timer_list # <<>> =>
       /\ min_timestamp = timestamp[timer_list[1]]
       /\ pc = "wait" => deadline <= timestamp[timer_list[1]] \/ deadline <= now

\* Once a cancel was carried out the timer's callback never begins again, and
\* no callback begins before the timer is due.
CancelledSilent ==
  [][current' # current /\ current' # None =>
       current' \notin cancelled /\ timestamp[current'] <= now]_vars

\* Every timer gets its turn: an overdue one is called until it has caught up
\* with the clock, unless it is cancelled, refreshed or destroyed.
EveryTimerFires ==
  \A t \in Timers :
    Overdue(t) ~> ~Overdue(t) \/ pc = "destroyed"

===========================================================================
