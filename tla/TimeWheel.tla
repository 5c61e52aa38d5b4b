------------------------------ MODULE TimeWheel ------------------------------
(***************************************************************************)
(* udpclient/linux/net/time_wheel.c: max_steps buckets, each a list of     *)
(* timers; every step calls the timers of one bucket.  Sequential, but a   *)
(* callback may submit, cancel and refresh timers while the step walks its *)
(* bucket, which the lists, here sequences, show.                          *)
(*                                                                         *)
(* fault records a pointer that leads nowhere: a bucket outside the array, *)
(* a timer freed or moved under the walk, or the wheel that was destroyed. *)
(* Nothing is said of what follows.                                        *)
(***************************************************************************)
EXTENDS Integers, SequencesExt

CONSTANTS MaxTimers, \* bound: timers submitted
          max_steps,
          Asked,     \* the numbers of steps asked for
          MaxTicks   \* bound: calls of time_wheel_step

VARIABLES
  buckets,   \* wheel->buckets
  windex,    \* wheel->index
  steps,     \* bucket->steps of each timer
  slot,      \* bucket->index of each timer
  state,     \* "new", "live" or "freed"
  walk,      \* the timers of the current step still to be called
  current,   \* the timer whose callback runs, or Nobody
  ticks,     \* history: steps begun
  due,       \* history: the step at which each timer is to be called
  fault

vars == <<buckets, windex, steps, slot, state, walk, current, ticks, due, fault>>

Handles == 1..MaxTimers  \* in the order they are submitted
Nobody == 0
Slots == 0..max_steps - 1

\* time_wheel_create
Init ==
  /\ buckets = [s \in Slots |-> <<>>]
  /\ windex = max_steps - 1
  /\ steps = [t \in Handles |-> 0]
  /\ slot = [t \in Handles |-> 0]
  /\ state = [t \in Handles |-> "new"]
  /\ walk = <<>>
  /\ current = Nobody
  /\ ticks = 0
  /\ due = [t \in Handles |-> 0]
  /\ fault = "none"

-----------------------------------------------------------------------------
\* An index that came out negative is taken once round the wheel.
Around(i) == IF i < 0 THEN i + max_steps ELSE i

\* The timer, unlinked from b, goes to the head of bucket i.
Link(b, t, i) ==
  IF i \in Slots
  THEN /\ buckets' = [b EXCEPT ![i] = <<t>> \o @]
       /\ slot' = [slot EXCEPT ![t] = i]
       /\ UNCHANGED fault
  ELSE /\ fault' = "outside"
       /\ UNCHANGED <<buckets, slot>>

\* The other functions are called by a callback, or between two steps.
Callable == current # Nobody \/ walk = <<>>

\* Faulty variant: the bucket that is called next counts as the first step.
SubmitSlotNext(n) ==
  IF n > max_steps THEN (windex + 1) % max_steps ELSE Around(windex - n + 1)

\* time_wheel_submit: the bucket for a timer that is due in n steps
SubmitSlot(n) ==
  IF n > max_steps THEN (windex + 1) % max_steps ELSE Around(windex - n)

Submit(t, n) ==
  /\ Callable
  /\ state[t] = "new" /\ \A u \in 1..t - 1 : state[u] # "new"
  /\ state' = [state EXCEPT ![t] = "live"]
  /\ steps' = [steps EXCEPT ![t] = n]
  /\ due' = [due EXCEPT ![t] = ticks + n + 1]
  /\ Link(buckets, t, SubmitSlot(n))
  /\ UNCHANGED <<windex, walk, current, ticks>>

\* A timer that the step is calling, or has picked to call next, may be
\* neither cancelled nor refreshed: its memory is used afterwards.
Held(t) == t = current \/ (walk # <<>> /\ t = Head(walk))

\* unlinks t from its bucket, or from the list being walked
Unlinked(t) == [buckets EXCEPT ![slot[t]] = RemoveFirst(@, t)]

\* Nothing is left of a timer that was freed.
Free(t) ==
  /\ state' = [state EXCEPT ![t] = "freed"]
  /\ steps' = [steps EXCEPT ![t] = 0]
  /\ slot' = [slot EXCEPT ![t] = 0]
  /\ due' = [due EXCEPT ![t] = 0]

\* time_wheel_cancel
Cancel(t) ==
  /\ Callable
  /\ state[t] = "live"
  /\ IF Held(t)
     THEN fault' = "walk" /\ UNCHANGED <<buckets, walk, state, steps, slot, due>>
     ELSE /\ buckets' = Unlinked(t)
          /\ walk' = RemoveFirst(walk, t)
          /\ Free(t)
          /\ UNCHANGED fault
  /\ UNCHANGED <<windex, current, ticks>>

\* time_wheel_refresh
Refresh(t) ==
  /\ Callable
  /\ state[t] = "live"
  /\ IF Held(t)
     THEN fault' = "walk" /\ UNCHANGED <<buckets, walk, slot, due>>
     ELSE /\ Link(Unlinked(t), t, Around(windex - steps[t]))
          /\ walk' = RemoveFirst(walk, t)
          /\ due' = [due EXCEPT ![t] = ticks + steps[t] + 1]
  /\ UNCHANGED <<windex, steps, state, current, ticks>>

-----------------------------------------------------------------------------
(* time_wheel_step *)

\* The bucket is taken off the wheel, which moves on.
Step ==
  /\ walk = <<>> /\ current = Nobody
  /\ ticks < MaxTicks
  /\ ticks' = ticks + 1
  /\ walk' = buckets[windex]
  /\ buckets' = [buckets EXCEPT ![windex] = <<>>]
  /\ windex' = IF windex = 0 THEN max_steps - 1 ELSE windex - 1
  /\ UNCHANGED <<steps, slot, state, current, due, fault>>

\* A timer is called; the one behind it is picked before the call.
CallNext ==
  /\ walk # <<>> /\ current = Nobody
  /\ current' = Head(walk)
  /\ walk' = Tail(walk)
  /\ UNCHANGED <<buckets, windex, steps, slot, state, ticks, due, fault>>

\* The callback returns TIME_WHEEL_EXPIRE_ONESHOT.
OneShot ==
  /\ current # Nobody
  /\ Free(current)
  /\ current' = Nobody
  /\ UNCHANGED <<buckets, windex, walk, ticks, fault>>

\* It returns anything else: the timer goes back on the wheel.
Loop ==
  /\ current # Nobody
  /\ Link(buckets, current, Around(windex - steps[current] + 1))
  /\ due' = [due EXCEPT ![current] = ticks + steps[current]]
  /\ current' = Nobody
  /\ UNCHANGED <<windex, steps, state, walk, ticks>>

\* time_wheel_destroy frees every timer on the wheel (and not the wheel).
Destroy ==
  /\ walk = <<>> /\ current = Nobody
  /\ buckets' = [s \in Slots |-> <<>>]
  /\ state' = [t \in Handles |->
                 IF \E s \in Slots : \E i \in 1..Len(buckets[s]) : buckets[s][i] = t
                 THEN "freed" ELSE state[t]]
  /\ fault' = "destroyed"
  /\ UNCHANGED <<windex, steps, slot, walk, current, ticks, due>>

-----------------------------------------------------------------------------
Next ==
  /\ fault = "none"
  /\ \/ \E t \in Handles : \/ \E n \in Asked : Submit(t, n)
                           \/ Cancel(t)
                           \/ Refresh(t)
     \/ Step \/ CallNext \/ OneShot \/ Loop \/ Destroy

-----------------------------------------------------------------------------
(* Properties *)

Occurs(l, t) == {i \in 1..Len(l) : l[i] = t}
Regular(t) == steps[t] \in 1..max_steps - 1

\* Every timer is in one place, and is called when it is due: in the step after
\* so many others when it was submitted or refreshed, every so many steps when
\* its callback wants to be called again.  For that the number must be at least
\* one and below max_steps: the wheel calls a timer of max_steps in the very
\* next step, and other numbers lead out of the array when the timer is put
\* back or refreshed.  time_wheel_destroy leaves no timer behind.
OnTime ==
  /\ fault = "destroyed" => \A t \in Handles : state[t] # "live"
  /\ fault = "outside" =>
       \E t \in Handles : state[t] = "live" /\ steps[t] \notin 1..max_steps
  /\ fault = "none" => \A t \in Handles :
       /\ \A s \in Slots : Occurs(buckets[s], t) # {} =>
            /\ state[t] = "live" /\ slot[t] = s
            /\ t # current /\ Occurs(walk, t) = {}
            /\ \E i \in 1..Len(buckets[s]) : Occurs(buckets[s], t) = {i}
            /\ Regular(t) => due[t] = ticks + 1 + ((windex - s) % max_steps)
       /\ t = current \/ Occurs(walk, t) # {} =>
            state[t] = "live" /\ (Regular(t) => due[t] = ticks)
       /\ state[t] = "live" =>
            t = current \/ Occurs(walk, t) # {} \/ Occurs(buckets[slot[t]], t) # {}

==============================================================================
