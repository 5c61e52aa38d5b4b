----------------------------- MODULE AddPipeline -----------------------------
(***************************************************************************)
(* Mutiqueue/sync_queue.hpp in the program main.cpp: input threads push    *)
(* into que1, the calculate thread moves que1's content and pushes the     *)
(* results into que2, the print thread moves and prints them.  main.cpp    *)
(* has one input thread; the queue is made for any number.                 *)
(*                                                                         *)
(* A section under m_mutex is one step; a thread in m_notFull.wait is in   *)
(* waiting until notify_one picks it, and then looks at its predicate      *)
(* again.                                                                  *)
(***************************************************************************)
EXTENDS Naturals, Sequences

CONSTANTS Feeders,   \* threads that read input and push it into que1
          MaxSize,   \* max_size
          MaxInput   \* bound: inputs read

VARIABLES
  que,      \* m_queue of que1 and que2
  m_exit,   \* m_exit of each
  waiting,  \* the threads in m_notFull.wait of each
  item,     \* the value each feeder is pushing, 0 for none
  batch,    \* what the calculate thread has moved and not yet pushed
  inputs,   \* history: inputs read
  pushed,   \* history: what was pushed into que1, in order
  printed,  \* what was printed
  over      \* main has returned

vars == <<que, m_exit, waiting, item, batch, inputs, pushed, printed, over>>

Calc == "calculate"

Init ==
  /\ que = [q \in 1..2 |-> <<>>]
  /\ m_exit = [q \in 1..2 |-> FALSE]
  /\ waiting = [q \in 1..2 |-> {}]
  /\ item = [f \in Feeders |-> 0]
  /\ batch = <<>>
  /\ inputs = 0
  /\ pushed = <<>>
  /\ printed = <<>>
  /\ over = FALSE

-----------------------------------------------------------------------------
(* sync_queue *)

\* Faulty variant: one value too many.
MustWaitLate(q) == ~m_exit[q] /\ Len(que[q]) > MaxSize

\* Whether push_back has to wait: the negation of its predicate.
MustWait(q) == ~m_exit[q] /\ Len(que[q]) >= MaxSize

\* Faulty variant: nobody is told that there is room.
NotifyNobody(q) == waiting' = waiting

\* m_notFull.notify_one(), called by move()
Notify(q) ==
  IF waiting[q] = {}
  THEN UNCHANGED waiting
  ELSE \E t \in waiting[q] : waiting' = [waiting EXCEPT ![q] = @ \ {t}]

\* exit(): the flag, and nothing else
Exit(q) ==
  /\ ~over /\ ~m_exit[q]
  /\ m_exit' = [m_exit EXCEPT ![q] = TRUE]
  /\ UNCHANGED <<que, waiting, item, batch, inputs, pushed, printed, over>>

\* push_back(x) by thread t: the value is stored, or t waits.
PushOrWait(t, q, x) ==
  /\ t \notin waiting[q]
  /\ IF MustWait(q)
     THEN waiting' = [waiting EXCEPT ![q] = @ \cup {t}] /\ UNCHANGED que
     ELSE que' = [que EXCEPT ![q] = Append(@, x)] /\ UNCHANGED waiting

-----------------------------------------------------------------------------
(* main.cpp *)

\* An input is read.
Input(f) ==
  /\ ~over
  /\ item[f] = 0
  /\ inputs < MaxInput
  /\ inputs' = inputs + 1
  /\ item' = [item EXCEPT ![f] = inputs + 1]
  /\ UNCHANGED <<que, m_exit, waiting, batch, pushed, printed, over>>

Feed(f) ==
  /\ ~over
  /\ item[f] # 0
  /\ PushOrWait(f, 1, item[f])
  /\ item' = [item EXCEPT ![f] = IF MustWait(1) THEN @ ELSE 0]
  /\ pushed' = IF MustWait(1) THEN pushed ELSE Append(pushed, item[f])
  /\ UNCHANGED <<m_exit, batch, inputs, printed, over>>

\* The calculate thread moves que1 once its last batch is pushed, empty or
\* not: it only sleeps a while first.
CalcMove ==
  /\ ~over
  /\ batch = <<>>
  /\ batch' = que[1]
  /\ que' = [que EXCEPT ![1] = <<>>]
  /\ Notify(1)
  /\ UNCHANGED <<m_exit, item, inputs, pushed, printed, over>>

CalcPush ==
  /\ ~over
  /\ batch # <<>>
  /\ PushOrWait(Calc, 2, Head(batch))
  /\ batch' = IF MustWait(2) THEN batch ELSE Tail(batch)
  /\ UNCHANGED <<m_exit, item, inputs, pushed, printed, over>>

\* The print thread
PrintMove ==
  /\ ~over
  /\ printed' = printed \o que[2]
  /\ que' = [que EXCEPT ![2] = <<>>]
  /\ Notify(2)
  /\ UNCHANGED <<m_exit, item, batch, inputs, pushed, over>>

\* The input ends and main returns, with both threads running: the program is
\* terminated and whatever is in the queues is lost.
Return ==
  /\ ~over
  /\ \A f \in Feeders : item[f] = 0
  /\ over' = TRUE
  /\ UNCHANGED <<que, m_exit, waiting, item, batch, inputs, pushed, printed>>

-----------------------------------------------------------------------------
CalcStep == CalcMove \/ CalcPush

Next ==
  \/ \E f \in Feeders : Input(f) \/ Feed(f)
  \/ CalcStep \/ PrintMove \/ Return
  \/ \E q \in 1..2 : Exit(q)

-----------------------------------------------------------------------------
(* Properties *)

\* Nothing is lost, doubled or reordered between the two queues and the batch
\* in between, and no queue outgrows max_size unless exit() was called.
InTransit ==
  /\ printed \o que[2] \o batch \o que[1] = pushed
  /\ \A q \in 1..2 : m_exit[q] \/ Len(que[q]) <= MaxSize

\* Every input is printed unless main returns first: no pusher is left waiting
\* although move() wakes one of them only.
Printed ==
  \A x \in 1..MaxInput :
    inputs >= x ~> over \/ \E i \in 1..Len(printed) : printed[i] = x

=============================================================================
