--------------------------- MODULE AsyncTaskQueue ---------------------------
(***************************************************************************)
(* udpclient/linux/net/async_task_queue.c with the part of loop.c that     *)
(* drives it: any thread hands a callback to the event loop (loop_async,   *)
(* loop_run_inloop, loop_quit); the loop's thread wakes through an eventfd,*)
(* takes the whole list of tasks under the lock and runs it outside.       *)
(*                                                                         *)
(* One step is one access to the shared list, one lock operation or one    *)
(* system call.  The lock is lock.h's, whose lock_it differs between       *)
(* platforms: see Excludes.                                                *)
(***************************************************************************)
EXTENDS Integers, Sequences, FiniteSets

CONSTANTS Clients,   \* threads other than the loop's that use the loop
          Loop,      \* the thread that calls loop_loop
          None,      \* nobody holds task_lock
          Excludes,  \* whether lock_it keeps other threads out
          MaxTasks,  \* bound: callbacks handed over
          CanQuit    \* whether loop_quit is ever called

ASSUME TaskAssumption ==
  /\ Loop \notin Clients
  /\ None \notin Clients \cup {Loop}
  /\ Excludes \in BOOLEAN
  /\ MaxTasks \in Nat
  /\ CanQuit \in BOOLEAN

Threads == Clients \cup {Loop}
Tasks == 1..MaxTasks
NULL == 0

VARIABLES
  head,     \* async_task
  tail,     \* async_task_end
  nxt,      \* next, for every task
  efd,      \* the eventfd's counter
  owner,    \* who holds task_lock
  run,      \* loop->run
  pc,       \* where each thread is
  hand,     \* the task each thread is submitting
  cursor,   \* task, in async_task_queue_process
  iter,     \* t_iter, in async_task_queue_process
  made,     \* tasks 1..made were allocated
  quits,    \* those whose callback is do_loop_quit
  freed,    \* those that were given back
  fault,    \* NULL or a freed task was dereferenced
  order,    \* history: the tasks in the order they were linked
  taken,    \* history: how many of them async_task_queue_process has taken
  ran       \* history: how many of them have been run by the loop

vars == <<head, tail, nxt, efd, owner, run, pc, hand, cursor, iter, made,
          quits, freed, fault, order, taken, ran>>

list == <<head, tail, nxt>>
batch == <<cursor, iter, freed, taken, ran>>
calls == <<made, quits, hand>>

\* loop_new: an empty list whose eventfd is watched; loop_loop not yet called.
Init ==
  /\ head = NULL
  /\ tail = NULL
  /\ nxt = [k \in Tasks |-> NULL]
  /\ efd = 0
  /\ owner = None
  /\ run = FALSE
  /\ pc = [t \in Threads |-> "idle"]
  /\ hand = [t \in Threads |-> NULL]
  /\ cursor = NULL
  /\ iter = NULL
  /\ made = 0
  /\ quits = {}
  /\ freed = {}
  /\ fault = FALSE
  /\ order = <<>>
  /\ taken = 0
  /\ ran = 0

Goto(t, l) == pc' = [pc EXCEPT ![t] = l]

\* A call comes from the thread's own code or, once the loop runs, from a
\* callback.
Home(t) == IF t = Loop /\ cursor # NULL THEN "call" ELSE "idle"

\* The loop must not be used after loop_destroy: its caller sees to that.
CanCall(t) == pc[t] = Home(t) /\ pc[Loop] # "gone"

\* lock_it: EnterCriticalSection in the WINNT branch; pthread_mutex_destroy
\* in the __linux__ branch, which keeps nobody out.
LockIt(t) ==
  /\ Excludes => owner = None
  /\ owner' = IF Excludes THEN t ELSE owner

UnlockIt(t) == owner' = IF Excludes THEN None ELSE owner

-----------------------------------------------------------------------------
(* Submitting: loop_async, loop_run_inloop, loop_quit *)

\* async_task_queue_submit up to lock_it: a task of its own, not yet linked.
NewTask(t, quit) ==
  /\ made < MaxTasks
  /\ made' = made + 1
  /\ quits' = IF quit THEN quits \cup {made + 1} ELSE quits
  /\ hand' = [hand EXCEPT ![t] = made + 1]
  /\ Goto(t, "lock")
  /\ UNCHANGED <<list, efd, owner, run, batch, order, fault>>

Async(t) ==
  /\ CanCall(t)
  /\ NewTask(t, FALSE)

\* loop_quit through loop_run_inloop: do_loop_quit is called on the spot when
\* the caller is the loop's thread or the loop does not run; another thread
\* submits it otherwise.
QuitInLoop ==
  /\ CanQuit
  /\ CanCall(Loop)
  /\ run' = FALSE
  /\ UNCHANGED <<list, efd, owner, pc, batch, calls, order, fault>>

QuitHere(c) ==
  /\ CanQuit
  /\ CanCall(c)
  /\ ~run
  /\ Goto(c, "quit")
  /\ UNCHANGED <<list, efd, owner, run, batch, calls, order, fault>>

\* do_loop_quit clears loop->run, though the loop may have begun since.
DoQuit(c) ==
  /\ pc[c] = "quit"
  /\ run' = FALSE
  /\ Goto(c, "idle")
  /\ UNCHANGED <<list, efd, owner, batch, calls, order, fault>>

QuitAsync(c) ==
  /\ CanQuit
  /\ CanCall(c)
  /\ run
  /\ quits = {}                \* bound: one loop_quit is submitted
  /\ NewTask(c, TRUE)

Lock(t) ==
  /\ pc[t] = "lock"
  /\ LockIt(t)
  /\ Goto(t, "check")
  /\ UNCHANGED <<list, efd, run, batch, calls, order, fault>>

\* if (NULL == task_queue->async_task)
Check(t) ==
  /\ pc[t] = "check"
  /\ Goto(t, IF head = NULL THEN "first" ELSE "link")
  /\ UNCHANGED <<list, efd, owner, run, batch, calls, order, fault>>

\* task_queue->async_task = task
First(t) ==
  /\ pc[t] = "first"
  /\ head' = hand[t]
  /\ order' = Append(order, hand[t])
  /\ Goto(t, "end")
  /\ UNCHANGED <<tail, nxt, efd, owner, run, batch, calls, fault>>

\* task_queue->async_task_end->next = task
Link(t) ==
  /\ pc[t] = "link"
  /\ fault' = (tail = NULL \/ tail \in freed)
  /\ nxt' = IF tail = NULL THEN nxt ELSE [nxt EXCEPT ![tail] = hand[t]]
  /\ order' = Append(order, hand[t])
  /\ Goto(t, "end")
  /\ UNCHANGED <<head, tail, efd, owner, run, batch, calls>>

\* Faulty variant: async_task_end stays at the task before.
EndForgotten(t) ==
  /\ pc[t] = "end"
  /\ tail' = IF tail = NULL THEN hand[t] ELSE tail
  /\ Goto(t, "unlock")
  /\ UNCHANGED <<head, nxt, efd, owner, run, batch, calls, order, fault>>

\* task_queue->async_task_end = task
End(t) ==
  /\ pc[t] = "end"
  /\ tail' = hand[t]
  /\ Goto(t, "unlock")
  /\ UNCHANGED <<head, nxt, efd, owner, run, batch, calls, order, fault>>

Unlock(t) ==
  /\ pc[t] = "unlock"
  /\ UnlockIt(t)
  /\ Goto(t, "write")
  /\ UNCHANGED <<list, efd, run, batch, calls, order, fault>>

\* eventfd_write, and back to the caller
Write(t) ==
  /\ pc[t] = "write"
  /\ efd' = efd + 1
  /\ hand' = [hand EXCEPT ![t] = NULL]
  /\ Goto(t, Home(t))
  /\ UNCHANGED <<list, owner, run, batch, made, quits, order, fault>>

SubmitStep(t) ==
  \/ Lock(t) \/ Check(t) \/ First(t) \/ Link(t) \/ End(t) \/ Unlock(t)
  \/ Write(t)

-----------------------------------------------------------------------------
(* The loop's thread: loop_loop, async_task_event, async_task_queue_process *)

Start ==
  /\ pc[Loop] = "idle"
  /\ run' = TRUE
  /\ Goto(Loop, "top")
  /\ UNCHANGED <<list, efd, owner, batch, calls, order, fault>>

\* while (loop->run != 0)
Top ==
  /\ pc[Loop] = "top"
  /\ Goto(Loop, IF run THEN "wait" ELSE "done")
  /\ UNCHANGED <<list, efd, owner, run, batch, calls, order, fault>>

\* epoll_wait reports the eventfd and async_task_event reads it, or the call
\* runs into its timeout, which is 100 ms at most.
Wait ==
  /\ pc[Loop] = "wait"
  /\ efd' = 0
  /\ Goto(Loop, IF efd > 0 THEN "grab" ELSE "top")
  /\ UNCHANGED <<list, owner, run, batch, calls, order, fault>>

Grab ==
  /\ pc[Loop] = "grab"
  /\ LockIt(Loop)
  /\ Goto(Loop, "take")
  /\ UNCHANGED <<list, efd, run, batch, calls, order, fault>>

\* task = task_queue->async_task
Take ==
  /\ pc[Loop] = "take"
  /\ cursor' = head
  /\ taken' = Len(order)
  /\ Goto(Loop, "clear")
  /\ UNCHANGED <<list, efd, owner, run, iter, freed, ran, calls, order, fault>>

Clear ==
  /\ pc[Loop] = "clear"
  /\ head' = NULL
  /\ Goto(Loop, "clearend")
  /\ UNCHANGED <<tail, nxt, efd, owner, run, batch, calls, order, fault>>

ClearEnd ==
  /\ pc[Loop] = "clearend"
  /\ tail' = NULL
  /\ Goto(Loop, "drop")
  /\ UNCHANGED <<head, nxt, efd, owner, run, batch, calls, order, fault>>

Drop ==
  /\ pc[Loop] = "drop"
  /\ UnlockIt(Loop)
  /\ Goto(Loop, "next")
  /\ UNCHANGED <<list, efd, run, batch, calls, order, fault>>

\* Faulty variant: the callback of loop_quit is not told apart.
NextTaskNoQuit ==
  /\ pc[Loop] = "next"
  /\ cursor # NULL
  /\ iter' = nxt[cursor]
  /\ ran' = ran + 1
  /\ Goto(Loop, "call")
  /\ UNCHANGED <<list, efd, owner, run, cursor, freed, taken, calls, order, fault>>

\* while (NULL != task): its successor is read before the callback is called.
NextTask ==
  /\ pc[Loop] = "next"
  /\ cursor # NULL
  /\ iter' = nxt[cursor]
  /\ ran' = ran + 1
  /\ run' = IF cursor \in quits THEN FALSE ELSE run
  /\ Goto(Loop, "call")
  /\ UNCHANGED <<list, efd, owner, cursor, freed, taken, calls, order, fault>>

\* Faulty variant: the eventfd is read again when the batch is done.
LastTaskReads ==
  /\ pc[Loop] = "next"
  /\ cursor = NULL
  /\ efd' = 0
  /\ Goto(Loop, "top")
  /\ UNCHANGED <<list, owner, run, batch, calls, order, fault>>

\* The list is done: back to loop_loop.
LastTask ==
  /\ pc[Loop] = "next"
  /\ cursor = NULL
  /\ Goto(Loop, "top")
  /\ UNCHANGED <<list, efd, owner, run, batch, calls, order, fault>>

\* The callback returns; free(task); task = t_iter.
Free ==
  /\ pc[Loop] = "call"
  /\ freed' = freed \cup {cursor}
  /\ cursor' = iter
  /\ Goto(Loop, "next")
  /\ UNCHANGED <<list, efd, owner, run, iter, taken, ran, calls, order, fault>>

\* loop_destroy: the tasks still in the list are freed and never run.
Destroy ==
  /\ pc[Loop] = "done"
  /\ \A c \in Clients : pc[c] = "idle"
  /\ freed' = freed \cup {order[i] : i \in taken + 1..Len(order)}
  /\ head' = NULL
  /\ Goto(Loop, "gone")
  /\ UNCHANGED <<tail, nxt, efd, owner, run, cursor, iter, taken, ran, calls,
                 order, fault>>

LoopStep ==
  \/ Top \/ Wait \/ Grab \/ Take \/ Clear \/ ClearEnd \/ Drop \/ NextTask
  \/ LastTask \/ Free \/ SubmitStep(Loop)

-----------------------------------------------------------------------------
\* A dereferenced NULL or freed task is the end of what the model says.
Next ==
  /\ ~fault
  /\ \/ \E c \in Clients : SubmitStep(c) \/ QuitHere(c) \/ DoQuit(c) \/ QuitAsync(c)
     \/ \E t \in Threads : Async(t)
     \/ QuitInLoop \/ Start \/ LoopStep \/ Destroy

Spec == Init /\ [][Next]_vars

\* Threads are scheduled, callbacks return, and a lock that is free again and
\* again is got in the end.  Nothing forces a call, loop_loop's included.
Fairness ==
  /\ WF_vars(~fault /\ LoopStep)
  /\ SF_vars(~fault /\ (Grab \/ Lock(Loop)))
  /\ \A c \in Clients : WF_vars(~fault /\ (SubmitStep(c) \/ DoQuit(c)))
                        /\ SF_vars(~fault /\ Lock(c))

FairSpec == Spec /\ Fairness

-----------------------------------------------------------------------------
(* Properties *)

SubmitLabels == {"lock", "check", "first", "link", "end", "unlock", "write"}
LoopLabels ==
  {"idle", "top", "wait", "grab", "take", "clear", "clearend", "drop", "next",
   "call", "done", "gone"}

\* The state is well typed.
TypeOK ==
  /\ head \in Tasks \cup {NULL}
  /\ tail \in Tasks \cup {NULL}
  /\ nxt \in [Tasks -> Tasks \cup {NULL}]
  /\ efd \in Nat
  /\ owner \in Threads \cup {None}
  /\ run \in BOOLEAN
  /\ pc \in [Threads -> SubmitLabels \cup LoopLabels \cup {"quit"}]
  /\ \A c \in Clients : pc[c] \in SubmitLabels \cup {"idle", "quit"}
  /\ pc[Loop] # "quit"
  /\ hand \in [Threads -> Tasks \cup {NULL}]
  /\ cursor \in Tasks \cup {NULL}
  /\ iter \in Tasks \cup {NULL}
  /\ made \in 0..MaxTasks
  /\ quits \subseteq Tasks
  /\ freed \subseteq Tasks
  /\ fault \in BOOLEAN
  /\ order \in Seq(Tasks)
  /\ taken \in 0..Len(order)
  /\ ran \in 0..taken

\* The i-th task of the history, NULL past the n-th.
Nth(i, n) == IF i <= n THEN order[i] ELSE NULL

\* The critical sections of submit and process exclude each other.
Inside(t) ==
  pc[t] \in {"check", "first", "link", "end", "unlock", "take", "clear",
             "clearend", "drop"}
Exclusion ==
  /\ Excludes => \A t \in Threads : Inside(t) <=> owner = t
  /\ \A s, t \in Threads : Inside(s) /\ Inside(t) => s = t

\* A task on its way into the list is known to its submitter alone.
Unlinked(t) == pc[t] \in {"lock", "check", "first", "link"}
HandsFresh ==
  \A t \in Threads : Unlinked(t) =>
    /\ hand[t] \in 1..made
    /\ hand[t] \notin freed
    /\ nxt[hand[t]] = NULL
    /\ \A i \in 1..Len(order) : order[i] # hand[t]
    /\ \A s \in Threads : Unlinked(s) /\ hand[s] = hand[t] => s = t

\* Only tasks that were allocated are linked, freed or lead to others.
Allocated ==
  /\ \A k \in freed : k <= made
  /\ \A i \in 1..Len(order) : order[i] <= made
  /\ \A k \in Tasks : k > made => nxt[k] = NULL

\* What a submitter saw of async_task still holds when it acts on it.
StillTrue ==
  \A t \in Threads :
    /\ pc[t] = "first" => taken = Len(order)
    /\ pc[t] = "link" => taken < Len(order)
    /\ pc[t] = "end" => taken < Len(order) /\ hand[t] = order[Len(order)]

\* The list holds what was linked and not taken yet, in that order: outside
\* the critical sections async_task is the first and async_task_end the last
\* of them, and each one leads to its successor.  The tasks process has taken
\* form a chain of their own that no submit can touch any more.
ListShape ==
  LET n == Len(order)
  IN  /\ pc[Loop] \notin {"clear", "gone"} => head = Nth(taken + 1, n)
      /\ (\A t \in Threads : pc[t] # "end") /\ pc[Loop] \notin {"clear", "clearend", "gone"} =>
           tail = IF taken < n THEN order[n] ELSE NULL
      /\ \A i \in ran + 1..n :
           nxt[order[i]] = Nth(i + 1, IF i <= taken THEN taken ELSE n)
InCallback ==
  pc[Loop] = "call" \/ (pc[Loop] \in SubmitLabels /\ cursor # NULL)
Taking == pc[Loop] \in {"clear", "clearend", "drop", "next"}
BatchShape ==
  /\ Taking => cursor = Nth(ran + 1, taken)
  /\ pc[Loop] \in {"clear", "clearend"} => taken = Len(order)
  /\ InCallback =>
       /\ ran > 0
       /\ cursor = order[ran]
       /\ iter = Nth(ran + 1, taken)
  /\ ~Taking /\ ~InCallback => ran = taken /\ cursor = NULL

\* Every task is run at most once and freed only after it ran (or by
\* loop_destroy): no task is lost, doubled or used after its free.
OnceEach ==
  /\ \A i, j \in 1..Len(order) : order[i] = order[j] => i = j
  /\ \A i \in 1..Len(order) :
       order[i] \in freed <=>
         \/ i < ran
         \/ i = ran /\ ~InCallback
         \/ pc[Loop] = "gone"
  /\ ~fault

\* A destroyed loop is not used.
Retired == pc[Loop] = "gone" => \A c \in Clients : pc[c] = "idle"

\* What the submits and process keep true between them: the inductive
\* invariant of the queue.
QueueInv ==
  /\ TypeOK
  /\ Exclusion
  /\ HandsFresh
  /\ Allocated
  /\ StillTrue
  /\ ListShape
  /\ BatchShape
  /\ OnceEach
  /\ Retired

\* No wakeup is lost: while a task waits in the list, the eventfd is readable,
\* a submit is still on its way to writing it, or the loop is about to take
\* the list.
NoLostWakeup ==
  taken < Len(order) /\ pc[Loop] # "gone" =>
    \/ efd > 0
    \/ \E t \in Threads : pc[t] \in {"end", "unlock", "write"}
    \/ pc[Loop] \in {"grab", "take"}

\* A task that was linked is run by the loop, unless the loop is told to quit.
EveryTaskRuns ==
  \A i \in Tasks : run /\ Len(order) >= i ~> ran >= i \/ ~run

\* A loop_quit that was submitted ends loop_loop.
QuitEnds == quits # {} ~> pc[Loop] \in {"done", "gone"}

=============================================================================
