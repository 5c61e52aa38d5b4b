------------------------------- MODULE SpscRing -------------------------------
(***************************************************************************)
(* Mutiqueue/spsc-bounded-queue.hpp: a ring for one producer and one       *)
(* consumer.  One step per access to memory the other thread uses; each    *)
(* thread's own counter changes under nobody's hands.                      *)
(***************************************************************************)
EXTENDS Integers, Sequences

CONSTANTS Values,  \* the values enqueued
          None,    \* the initial content of a slot
          Size,    \* _size, a power of two
          Wrap     \* 2^64: the counters are size_t, a multiple of Size

VARIABLES
  head,    \* _head, modulo Wrap
  tail,    \* _tail, modulo Wrap
  buffer,  \* _buffer
  pc,      \* where the producer is
  cpc,     \* where the consumer is
  mine,    \* the argument of enqueue
  got      \* the output of dequeue

vars == <<head, tail, buffer, pc, cpc, mine, got>>

Slots == 0..Size - 1

\* x & _mask, for a difference of two counters and Size a power of two
Masked(x) == (x % Wrap) % Size

Init ==
  /\ head = 0 /\ tail = 0
  /\ buffer = [s \in Slots |-> None]
  /\ pc = "idle" /\ cpc = "idle"
  /\ mine = None /\ got = None

EnqCall(v) ==
  /\ pc = "idle"
  /\ mine' = v
  /\ pc' = "check"
  /\ UNCHANGED <<head, tail, buffer, cpc, got>>

\* Faulty variant: the slot that tells a full ring from an empty one is used.
EnqCheckFull ==
  /\ pc = "check"
  /\ pc' = IF head - tail < Size THEN "write" ELSE "idle"
  /\ UNCHANGED <<head, tail, buffer, cpc, mine, got>>

\* Loads _tail; returns false when one slot is left.
EnqCheck ==
  /\ pc = "check"
  /\ pc' = IF Masked(tail - (head + 1)) >= 1 THEN "write" ELSE "idle"
  /\ UNCHANGED <<head, tail, buffer, cpc, mine, got>>

EnqWrite ==
  /\ pc = "write"
  /\ buffer' = [buffer EXCEPT ![Masked(head)] = mine]
  /\ pc' = "store"
  /\ UNCHANGED <<head, tail, cpc, mine, got>>

EnqStore ==
  /\ pc = "store"
  /\ head' = (head + 1) % Wrap
  /\ pc' = "idle"
  /\ UNCHANGED <<tail, buffer, cpc, mine, got>>

DeqCall ==
  /\ cpc = "idle"
  /\ cpc' = "check"
  /\ UNCHANGED <<head, tail, buffer, pc, mine, got>>

\* Loads _head; returns false when there is nothing.
DeqCheck ==
  /\ cpc = "check"
  /\ cpc' = IF Masked(head - tail) >= 1 THEN "take" ELSE "idle"
  /\ UNCHANGED <<head, tail, buffer, pc, mine, got>>

DeqTake ==
  /\ cpc = "take"
  /\ got' = buffer[Masked(tail)]
  /\ cpc' = "store"
  /\ UNCHANGED <<head, tail, buffer, pc, mine>>

DeqStore ==
  /\ cpc = "store"
  /\ tail' = (tail + 1) % Wrap
  /\ cpc' = "idle"
  /\ UNCHANGED <<head, buffer, pc, mine, got>>

Next ==
  \/ \E v \in Values : EnqCall(v)
  \/ EnqCheck \/ EnqWrite \/ EnqStore
  \/ DeqCall \/ DeqCheck \/ DeqTake \/ DeqStore

-----------------------------------------------------------------------------
(* Properties *)

\* What is stored and not yet taken, oldest first.
First == IF cpc = "store" THEN tail + 1 ELSE tail
Queue == [k \in 1..(head - First) % Wrap |-> buffer[Masked(First + k - 1)]]

Fifo == INSTANCE BoundedFifo
          WITH Consumers <- {0}, Capacity <- Size - 1, q <- Queue,
               got <- [c \in {0} |-> got]

\* The ring is a first-in first-out queue of Size - 1 values, also where the
\* counters wrap.
FifoStep == [Fifo!Next]_<<Queue, got>>

\* enqueue fails only with Size - 1 values in the ring, counting one whose slot
\* the consumer has not given back, and dequeue only on an empty one.
HonestStep ==
  /\ pc = "check" /\ pc' = "idle" => Masked(head - tail) = Size - 1
  /\ cpc = "check" /\ cpc' = "idle" => head = tail

=============================================================================
