----------------------------- MODULE BoundedFifo -----------------------------
(***************************************************************************)
(* What the bounded queues of Mutiqueue/ promise, whatever their          *)
(* implementation: a first-in first-out queue of at most Capacity values.  *)
(* q is the queue, got[c] the value consumer c received last.  A failed    *)
(* call changes nothing, so it is a stuttering step here.                  *)
(***************************************************************************)
EXTENDS Naturals, Sequences

CONSTANTS Values,     \* the values that are enqueued
          Consumers,  \* the threads that dequeue
          Capacity,   \* the number of slots
          None        \* "nothing received yet"

VARIABLES q, got

vars == <<q, got>>

TypeOK ==
  /\ q \in Seq(Values)
  /\ got \in [Consumers -> Values \cup {None}]

Init ==
  /\ q = <<>>
  /\ got = [c \in Consumers |-> None]

\* A successful enqueue: there is room, the value goes to the back.
Put(v) ==
  /\ Len(q) < Capacity
  /\ q' = Append(q, v)
  /\ UNCHANGED got

\* A successful dequeue: consumer c receives the oldest value, exactly once.
Get(c) ==
  /\ q # <<>>
  /\ q' = Tail(q)
  /\ got' = [got EXCEPT ![c] = Head(q)]

Next ==
  \/ \E v \in Values : Put(v)
  \/ \E c \in Consumers : Get(c)

Spec == Init /\ [][Next]_vars
=============================================================================
