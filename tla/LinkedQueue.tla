----------------------------- MODULE LinkedQueue -----------------------------
(***************************************************************************)
(* Mutiqueue/mpsc-queue.hpp and spsc-queue.hpp: queues of linked nodes, a  *)
(* dummy at the front.  Both dequeue alike; enqueue of the first swings    *)
(* _head and then links the node, enqueue of the second links it and then  *)
(* moves _head, which only its one producer uses.                          *)
(*                                                                         *)
(* One step per access to shared memory.  A node is a number that is never *)
(* used again, and carries itself as data; 0 is NULL.  The plain pointers  *)
(* of the SPSC queue are read and written whole and in program order, as   *)
(* the fences make the compilers do on the machines it is built for.       *)
(***************************************************************************)
EXTENDS Naturals, Sequences, FiniteSets

CONSTANTS Producers,  \* threads that enqueue
          MaxNodes    \* bound: nodes allocated, the dummy included

VARIABLES
  kind,    \* "mpsc" or "spsc"
  head,    \* _head
  tail,    \* _tail
  next,    \* node -> next
  made,    \* nodes 1..made were allocated
  freed,   \* nodes that were deleted
  pc,      \* where each producer is
  mine,    \* the node of each producer's enqueue
  prev,    \* prev_head of each producer
  cpc,     \* where the consumer is
  ahead,   \* the consumer's next
  back,    \* the node the consumer is about to delete
  got,     \* the data it received last
  queue,   \* history: the nodes enqueued and not dequeued, in order
  closing  \* the destructor runs

vars == <<kind, head, tail, next, made, freed, pc, mine, prev, cpc, ahead,
          back, got, queue, closing>>
consumer == <<tail, freed, cpc, ahead, back, got, closing>>
producer == <<head, next, made, pc, mine, prev>>

Nodes == 1..MaxNodes

\* The constructor: node 1 is the dummy.
Init ==
  /\ kind \in {"mpsc", "spsc"}
  /\ head = 1 /\ tail = 1 /\ made = 1
  /\ next = [n \in Nodes |-> 0]
  /\ freed = {}
  /\ pc = [p \in Producers |-> "idle"]
  /\ mine = [p \in Producers |-> 0]
  /\ prev = [p \in Producers |-> 0]
  /\ cpc = "idle" /\ ahead = 0 /\ back = 0 /\ got = 0
  /\ queue = <<>>
  /\ closing = FALSE

-----------------------------------------------------------------------------
(* enqueue *)

\* A new node with its data and no next.  The SPSC queue has one producer.
New(p) ==
  /\ pc[p] = "idle"
  /\ ~closing
  /\ made < MaxNodes
  /\ kind = "spsc" => \A r \in Producers : mine[r] # 0 => r = p
  /\ made' = made + 1
  /\ mine' = [mine EXCEPT ![p] = made + 1]
  /\ pc' = [pc EXCEPT ![p] = IF kind = "mpsc" THEN "swap" ELSE "append"]
  /\ UNCHANGED <<kind, head, next, prev, consumer, queue>>

\* MPSC: _head.exchange(node)
Swap(p) ==
  /\ pc[p] = "swap"
  /\ prev' = [prev EXCEPT ![p] = head]
  /\ head' = mine[p]
  /\ queue' = Append(queue, mine[p])
  /\ pc' = [pc EXCEPT ![p] = "link"]
  /\ UNCHANGED <<kind, next, made, mine, consumer>>

\* Faulty variant: the node is linked behind whatever is last by now.
LinkHead(p) ==
  /\ pc[p] = "link"
  /\ next' = [next EXCEPT ![head] = mine[p]]
  /\ pc' = [pc EXCEPT ![p] = "idle"]
  /\ UNCHANGED <<kind, head, made, mine, prev, consumer, queue>>

\* MPSC: prev_head->next.store(node)
Link(p) ==
  /\ pc[p] = "link"
  /\ next' = [next EXCEPT ![prev[p]] = mine[p]]
  /\ pc' = [pc EXCEPT ![p] = "idle"]
  /\ UNCHANGED <<kind, head, made, mine, prev, consumer, queue>>

\* SPSC: _head->next = node
AppendNode(p) ==
  /\ pc[p] = "append"
  /\ next' = [next EXCEPT ![head] = mine[p]]
  /\ queue' = Append(queue, mine[p])
  /\ pc' = [pc EXCEPT ![p] = "move"]
  /\ UNCHANGED <<kind, head, made, mine, prev, consumer>>

\* SPSC: _head = node
Move(p) ==
  /\ pc[p] = "move"
  /\ head' = mine[p]
  /\ pc' = [pc EXCEPT ![p] = "idle"]
  /\ UNCHANGED <<kind, next, made, mine, prev, consumer, queue>>

-----------------------------------------------------------------------------
(* dequeue *)

Call ==
  /\ cpc = "idle"
  /\ cpc' = "look"
  /\ UNCHANGED <<kind, producer, tail, freed, ahead, back, got, queue, closing>>

\* Loads tail->next; without one dequeue fails, and the destructor that
\* called it deletes the last node.
Look ==
  /\ cpc = "look"
  /\ ahead' = next[tail]
  /\ IF next[tail] # 0
     THEN cpc' = "take" /\ UNCHANGED freed
     ELSE IF closing
     THEN cpc' = "gone" /\ freed' = freed \cup {head}
     ELSE cpc' = "idle" /\ UNCHANGED freed
  /\ UNCHANGED <<kind, producer, tail, back, got, queue, closing>>

\* Faulty variant: the node that becomes the dummy is deleted.
TakeWrong ==
  /\ cpc = "take"
  /\ got' = ahead
  /\ back' = ahead
  /\ tail' = ahead
  /\ queue' = Tail(queue)
  /\ cpc' = "delete"
  /\ UNCHANGED <<kind, producer, freed, ahead, closing>>

\* output = next->data, _tail = next
Take ==
  /\ cpc = "take"
  /\ got' = ahead
  /\ back' = tail
  /\ tail' = ahead
  /\ queue' = Tail(queue)
  /\ cpc' = "delete"
  /\ UNCHANGED <<kind, producer, freed, ahead, closing>>

\* delete of the old dummy
Delete ==
  /\ cpc = "delete"
  /\ freed' = freed \cup {back}
  /\ cpc' = "idle"
  /\ UNCHANGED <<kind, producer, tail, ahead, back, got, queue, closing>>

\* The destructor begins; its caller lets nobody else use the queue.
Close ==
  /\ ~closing
  /\ cpc = "idle"
  /\ \A p \in Producers : pc[p] = "idle"
  /\ closing' = TRUE
  /\ UNCHANGED <<kind, producer, tail, freed, cpc, ahead, back, got, queue>>

-----------------------------------------------------------------------------
EnqStep(p) == Swap(p) \/ Link(p) \/ AppendNode(p) \/ Move(p)
DeqStep == Call \/ Look \/ Take \/ Delete

Next ==
  \/ \E p \in Producers : New(p) \/ EnqStep(p)
  \/ DeqStep \/ Close

-----------------------------------------------------------------------------
(* Properties *)

\* No node is used after its delete, whichever thread is between which two
\* accesses, and none is leaked: a node is deleted, is the dummy, or is queued
\* or in the hands of one thread; the destructor leaves none.  _head of the SPSC
\* queue may point to a deleted node while its producer is about to move it.
NodesLive ==
  /\ cpc # "gone" => tail \notin freed
  /\ cpc # "gone" /\ (\A p \in Producers : pc[p] # "move") => head \notin freed
  /\ \A p \in Producers : pc[p] = "link" => prev[p] \notin freed
  /\ cpc = "take" => ahead \notin freed
  /\ cpc # "gone" =>
       1..made = freed \cup {tail} \cup {queue[i] : i \in 1..Len(queue)}
                   \cup {mine[p] : p \in {r \in Producers : pc[r] \in {"swap", "append"}}}
                   \cup (IF cpc = "delete" THEN {back} ELSE {})
  /\ cpc = "gone" => freed = 1..made

Fifo == INSTANCE BoundedFifo
          WITH Values <- Nodes, Consumers <- {0}, Capacity <- MaxNodes, None <- 0,
               q <- queue, got <- [c \in {0} |-> got]

\* An enqueue takes effect where it swings _head (MPSC) or links its node
\* (SPSC); what dequeue returns is then first in, first out.
FifoStep == [Fifo!Next]_<<queue, got>>

\* dequeue fails only on an empty queue, or while the producer of the very
\* next node has swung _head and not linked it.
HonestStep ==
  cpc = "look" /\ cpc' \in {"idle", "gone"} =>
    queue = <<>> \/ \E p \in Producers : pc[p] = "link" /\ prev[p] = tail

\* Every node that was enqueued is dequeued.
Delivered ==
  \A n \in Nodes : (\E i \in 1..Len(queue) : queue[i] = n) ~> got = n

=============================================================================
