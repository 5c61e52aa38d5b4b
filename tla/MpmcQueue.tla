------------------------------ MODULE MpmcQueue ------------------------------
(***************************************************************************)
(* Mutiqueue/mpmc-bounded-queue.hpp: the bounded multi-producer            *)
(* multi-consumer queue.  Every slot carries a sequence number that says   *)
(* which position may use it next; a thread claims a position with a       *)
(* compare-and-swap on head_seq (tail_seq), uses the slot and hands it on  *)
(* by storing the next sequence number.                                    *)
(*                                                                         *)
(* One action per access to shared memory.  Sequence numbers are naturals: *)
(* the code's size_t wraps only after 2^64 operations (README, bounds).    *)
(***************************************************************************)
EXTENDS Integers, Sequences

CONSTANTS Producers,  \* the threads that call enqueue
          Consumers,  \* the threads that call dequeue
          Values,     \* the values enqueued
          None,       \* the initial content of a slot or an output variable
          Size,       \* _size
          MaxSeq      \* bound: no enqueue is called once MaxSeq are claimed

\* The assertion of the constructor, and that a thread has one role.
ASSUME ConstAssumption ==
  /\ Size \in Nat \ {0}
  /\ MaxSeq \in Nat
  /\ Producers \cap Consumers = {}
  /\ None \notin Values

ASSUME PowerOfTwo == \E k \in 0..Size : 2^k = Size

VARIABLES
  head_seq,  \* _head_seq, the next position to enqueue at
  tail_seq,  \* _tail_seq, the next position to dequeue from
  seq,       \* seq[i] is _buffer[i].seq
  data,      \* data[i] is _buffer[i].data
  pc,        \* what each thread does next
  pos,       \* the local head_seq (tail_seq) of each thread
  val        \* the argument of enqueue, the output of dequeue

vars == <<head_seq, tail_seq, seq, data, pc, pos, val>>

Threads == Producers \cup Consumers
Slots == 0..Size-1

\* position & _mask, for a size that is a power of two
Slot(i) == i % Size

-----------------------------------------------------------------------------
\* mpmc_bounded_queue_t(size)
Init ==
  /\ head_seq = 0
  /\ tail_seq = 0
  /\ seq = [i \in Slots |-> i]
  /\ data = [i \in Slots |-> None]
  /\ pc = [t \in Threads |-> "idle"]
  /\ pos = [t \in Threads |-> 0]
  /\ val = [t \in Threads |-> None]

Goto(t, l) == pc' = [pc EXCEPT ![t] = l]

\* Faulty variant: a thread that was overtaken gives up as if full (empty).
AfterCheckNoReload(dif) == IF dif = 0 THEN "cas" ELSE "idle"

\* What a thread does once it has compared the slot's sequence number with
\* the one it needs: claim the slot, give up, or look at the counter again.
AfterCheck(dif) ==
  CASE dif = 0 -> "cas"
    [] dif < 0 -> "idle"
    [] dif > 0 -> "load"

-----------------------------------------------------------------------------
(* enqueue *)

EnqCall(p, v) ==
  /\ pc[p] = "idle"
  /\ head_seq < MaxSeq
  /\ val' = [val EXCEPT ![p] = v]
  /\ Goto(p, "load")
  /\ UNCHANGED <<head_seq, tail_seq, seq, data, pos>>

EnqLoad(p) ==
  /\ pc[p] = "load"
  /\ pos' = [pos EXCEPT ![p] = head_seq]
  /\ Goto(p, "check")
  /\ UNCHANGED <<head_seq, tail_seq, seq, data, val>>

\* Loads node->seq; returns false when the slot is a round behind.
EnqCheck(p) ==
  /\ pc[p] = "check"
  /\ Goto(p, AfterCheck(seq[Slot(pos[p])] - pos[p]))
  /\ UNCHANGED <<head_seq, tail_seq, seq, data, pos, val>>

\* Faulty variant: head_seq is moved by a plain store, not a compare-and-swap.
EnqClaimPlain(p) ==
  /\ pc[p] = "cas"
  /\ head_seq' = pos[p] + 1
  /\ Goto(p, "write")
  /\ UNCHANGED <<tail_seq, seq, data, pos, val>>

\* Faulty variant: the slot is published before the value is in it.
EnqClaimUnwritten(p) ==
  /\ pc[p] = "cas"
  /\ head_seq = pos[p]
  /\ head_seq' = head_seq + 1
  /\ Goto(p, "publish")
  /\ UNCHANGED <<tail_seq, seq, data, pos, val>>

EnqClaim(p) ==
  /\ pc[p] = "cas"
  /\ head_seq = pos[p]
  /\ head_seq' = head_seq + 1
  /\ Goto(p, "write")
  /\ UNCHANGED <<tail_seq, seq, data, pos, val>>

\* compare_exchange_weak failed, perhaps spuriously: it reloads head_seq.
EnqRetry(p) ==
  /\ pc[p] = "cas"
  /\ pos' = [pos EXCEPT ![p] = head_seq]
  /\ Goto(p, "check")
  /\ UNCHANGED <<head_seq, tail_seq, seq, data, val>>

EnqWrite(p) ==
  /\ pc[p] = "write"
  /\ data' = [data EXCEPT ![Slot(pos[p])] = val[p]]
  /\ Goto(p, "publish")
  /\ UNCHANGED <<head_seq, tail_seq, seq, pos, val>>

\* Faulty variant: the sequence number is never handed on to the tail.
EnqPublishMissing(p) ==
  /\ pc[p] = "publish"
  /\ Goto(p, "idle")
  /\ UNCHANGED <<head_seq, tail_seq, seq, data, pos, val>>

EnqPublish(p) ==
  /\ pc[p] = "publish"
  /\ seq' = [seq EXCEPT ![Slot(pos[p])] = pos[p] + 1]
  /\ Goto(p, "idle")
  /\ UNCHANGED <<head_seq, tail_seq, data, pos, val>>

-----------------------------------------------------------------------------
(* dequeue *)

DeqCall(c) ==
  /\ pc[c] = "idle"
  /\ Goto(c, "load")
  /\ UNCHANGED <<head_seq, tail_seq, seq, data, pos, val>>

DeqLoad(c) ==
  /\ pc[c] = "load"
  /\ pos' = [pos EXCEPT ![c] = tail_seq]
  /\ Goto(c, "check")
  /\ UNCHANGED <<head_seq, tail_seq, seq, data, val>>

DeqCheck(c) ==
  /\ pc[c] = "check"
  /\ Goto(c, AfterCheck(seq[Slot(pos[c])] - (pos[c] + 1)))
  /\ UNCHANGED <<head_seq, tail_seq, seq, data, pos, val>>

DeqClaim(c) ==
  /\ pc[c] = "cas"
  /\ tail_seq = pos[c]
  /\ tail_seq' = tail_seq + 1
  /\ Goto(c, "take")
  /\ UNCHANGED <<head_seq, seq, data, pos, val>>

DeqRetry(c) ==
  /\ pc[c] = "cas"
  /\ pos' = [pos EXCEPT ![c] = tail_seq]
  /\ Goto(c, "check")
  /\ UNCHANGED <<head_seq, tail_seq, seq, data, val>>

DeqTake(c) ==
  /\ pc[c] = "take"
  /\ val' = [val EXCEPT ![c] = data[Slot(pos[c])]]
  /\ Goto(c, "release")
  /\ UNCHANGED <<head_seq, tail_seq, seq, data, pos>>

\* Faulty variant: stores tail_seq + _mask, one too little.
DeqReleaseShort(c) ==
  /\ pc[c] = "release"
  /\ seq' = [seq EXCEPT ![Slot(pos[c])] = pos[c] + Size - 1]
  /\ Goto(c, "idle")
  /\ UNCHANGED <<head_seq, tail_seq, data, pos, val>>

\* The slot's next user is the enqueue one round later.
DeqRelease(c) ==
  /\ pc[c] = "release"
  /\ seq' = [seq EXCEPT ![Slot(pos[c])] = pos[c] + Size]
  /\ Goto(c, "idle")
  /\ UNCHANGED <<head_seq, tail_seq, data, pos, val>>

-----------------------------------------------------------------------------
EnqStep(p) ==
  \/ EnqLoad(p)
  \/ EnqCheck(p)
  \/ EnqClaim(p)
  \/ EnqRetry(p)
  \/ EnqWrite(p)
  \/ EnqPublish(p)

DeqStep(c) ==
  \/ DeqCall(c)
  \/ DeqLoad(c)
  \/ DeqCheck(c)
  \/ DeqClaim(c)
  \/ DeqRetry(c)
  \/ DeqTake(c)
  \/ DeqRelease(c)

Next ==
  \/ \E p \in Producers : EnqStep(p) \/ \E v \in Values : EnqCall(p, v)
  \/ \E c \in Consumers : DeqStep(c)

Spec == Init /\ [][Next]_vars

-----------------------------------------------------------------------------
(* Properties *)

\* Positions, slots and program counters have their types.
TypeOK ==
  /\ head_seq \in Nat
  /\ tail_seq \in Nat
  /\ seq \in [Slots -> Nat]
  /\ data \in [Slots -> Values \cup {None}]
  /\ pc \in [Threads -> {"idle", "load", "check", "cas", "write", "publish",
                         "take", "release"}]
  /\ pos \in [Threads -> Nat]
  /\ val \in [Threads -> Values \cup {None}]

\* A producer between its claim and the store of node->seq, a consumer
\* between its claim and that store; Holds: either of them.
Fills(p) == pc[p] \in {"write", "publish"}
Empties(c) == pc[c] \in {"take", "release"}
Holds(t) == Fills(t) \/ Empties(t)

\* Position i is being filled; position i is being emptied.
Filling(i) == \E p \in Producers : Fills(p) /\ pos[p] = i
Emptying(i) == \E c \in Consumers : Empties(c) /\ pos[c] = i

\* No data race: a slot is used by one thread at a time, so the plain moves
\* into and out of node->data never overlap one another.
SlotExclusive ==
  \A t, u \in Threads :
    Holds(t) /\ Holds(u) /\ Slot(pos[t]) = Slot(pos[u]) => t = u

\* No overwrite: a slot is claimed by enqueue only after its last value was
\* taken, so at most Size positions lie between the two counters.
Bounded ==
  /\ tail_seq <= head_seq
  /\ head_seq <= tail_seq + Size

\* The meaning of node->seq that both loops rely on.  For the Size positions
\* from tail_seq on it is the position itself while its slot is free or
\* being filled, one more once published, and still the previous round's
\* number while a consumer is emptying the slot.
SeqMeaning ==
  \A i \in tail_seq..tail_seq + Size - 1 :
    seq[Slot(i)] =
      IF i < head_seq
      THEN IF Filling(i) THEN i ELSE i + 1
      ELSE IF Emptying(i - Size) THEN i - Size + 1 ELSE i

\* Where the position a thread works with lies, relative to the counters.
ClaimRange ==
  /\ \A p \in Producers :
       /\ Fills(p) => tail_seq <= pos[p] /\ pos[p] < head_seq
       /\ pc[p] \in {"check", "cas"} => pos[p] <= head_seq
       /\ ~Empties(p)
  /\ \A c \in Consumers :
       /\ Empties(c) => pos[c] < tail_seq /\ head_seq <= pos[c] + Size
       /\ pc[c] \in {"check", "cas"} => pos[c] <= tail_seq
       /\ ~Fills(c)

\* No position is claimed twice.
ClaimUnique ==
  /\ \A p, r \in Producers :
       Fills(p) /\ Fills(r) /\ pos[p] = pos[r] => p = r
  /\ \A c, d \in Consumers :
       Empties(c) /\ Empties(d) /\ pos[c] = pos[d] => c = d

\* The check is not stale when it is used: a compare-and-swap that can
\* succeed still finds the slot as it was when its sequence was loaded.
CasFresh ==
  /\ \A p \in Producers :
       pc[p] = "cas" /\ pos[p] = head_seq => seq[Slot(head_seq)] = head_seq
  /\ \A c \in Consumers :
       pc[c] = "cas" /\ pos[c] = tail_seq => seq[Slot(tail_seq)] = tail_seq + 1

\* A producer that is about to publish has its own value in the slot.
Written ==
  \A p \in Producers :
    /\ pc[p] # "idle" => val[p] \in Values
    /\ pc[p] = "publish" => data[Slot(pos[p])] = val[p]

\* The inductive invariant (for Size >= 2, see MpmcQueue_proofs).
IInv ==
  /\ TypeOK
  /\ Bounded
  /\ ClaimRange
  /\ ClaimUnique
  /\ SeqMeaning
  /\ CasFresh
  /\ Written

\* The value at a claimed position: still in the producer's hands, or in
\* its slot.
ItemAt(i) ==
  IF Filling(i)
  THEN val[CHOOSE p \in Producers : Fills(p) /\ pos[p] = i]
  ELSE data[Slot(i)]

\* The abstract queue: an enqueue takes effect at its claim, a dequeue at
\* its claim, and the value it gets is the one in the slot it claimed.
Queue == [k \in 1..head_seq - tail_seq |-> ItemAt(tail_seq + k - 1)]
Got == [c \in Consumers |->
          IF pc[c] = "take" THEN data[Slot(pos[c])] ELSE val[c]]

Fifo == INSTANCE BoundedFifo WITH Capacity <- Size, q <- Queue, got <- Got

\* The queue implements a bounded FIFO: values come out in the order of
\* their claims, each exactly once, none invented, never more than Size.
FifoSpec == Fifo!Spec

\* enqueue reports full, and dequeue empty, only for a reason: the queue is
\* full (empty), or the thread that uses the very next slot is not done.
HonestStep ==
  /\ \A p \in Producers :
       pc[p] = "check" /\ pc'[p] = "idle" =>
         head_seq = tail_seq + Size \/ Emptying(head_seq - Size)
  /\ \A c \in Consumers :
       pc[c] = "check" /\ pc'[c] = "idle" =>
         head_seq = tail_seq \/ Filling(tail_seq)

\* Every step of the queue is honest in that sense.
HonestFailure == [][HonestStep]_vars

\* Every value that was claimed a position is dequeued in the end.
Delivered ==
  \A i \in 0..MaxSeq : head_seq > i ~> tail_seq > i

=============================================================================
