------------------------------- MODULE UdpPeer -------------------------------
(***************************************************************************)
(* udpclient/linux/net/udp_peer.c over the channels and the loop: peers    *)
(* are created, reconfigured and destroyed by threads of their own or by   *)
(* callbacks in the loop's thread.  loop_run_inloop makes a change at once *)
(* in the loop's thread, or while the loop does not run, and hands it to   *)
(* the task queue otherwise; AsyncTaskQueue shows that tasks then run in   *)
(* the order they were submitted.                                          *)
(*                                                                         *)
(* A step of the loop's thread is what it does between two points where a  *)
(* callback of the user runs.  Freed memory that is used is recorded in    *)
(* fault, and nothing is said of what follows.                             *)
(***************************************************************************)
EXTENDS Channel, Sequences

CONSTANTS Peers,     \* the peers that can be created, each once
          Clients,   \* threads other than the loop's
          MaxCalls,  \* bound: calls of udp_peer_onmessage and _onwrite
          MaxIn,     \* bound: datagrams that arrive
          Chunks     \* the datagrams in_buffer has room for

ASSUME PeerAssumption ==
  /\ IsFiniteSet(Clients) /\ "wakeup" \notin Peers
  /\ MaxCalls \in Nat /\ MaxIn \in Nat /\ Chunks \in Nat \ {0}

VARIABLES
  run,       \* loop->run, set when loop_loop begins
  peer,      \* the fields of each peer
  chan,      \* peer->channel
  tasks,     \* the loop's task queue
  hand,      \* the task a client has counted and not yet submitted
  round,     \* the channels of this round not yet dispatched
  at,        \* where the loop's thread is
  input,     \* datagrams waiting in each socket
  asked,     \* history: peers whose destruction was asked for
  calls,     \* history: calls of udp_peer_onmessage and udp_peer_onwrite
  arrived,   \* history: datagrams that arrived
  fault      \* the first use of freed memory or of a NULL callback

vars == <<run, peer, chan, tasks, hand, round, at, input, asked, calls,
          arrived, fault>>
history == <<asked, calls, arrived>>

Wakeup == "wakeup"  \* the task queue's own channel
NoTask == [op |-> "none", cb |-> FALSE]

\* Where the loop's thread is: in epoll_wait or between two channels, in
\* async_task_queue_process, or in the write or message callback of peer who
\* with so many chunks left.
Dispatching == [pc |-> "dispatch"]
InPeer(pc, p, left) == [pc |-> pc, who |-> p, left |-> left]

NoPeer == [mem |-> "none", ref_count |-> 0, messagecb |-> FALSE, writecb |-> FALSE]
FreedPeer == [NoPeer EXCEPT !.mem = "freed"]

Init ==
  /\ run = FALSE
  /\ peer = [p \in Peers |-> NoPeer]
  /\ chan = [p \in Peers |-> NoChannel]
  /\ tasks = <<>>
  /\ hand = [c \in Clients |-> NoTask]
  /\ round = {}
  /\ at = Dispatching
  /\ input = [p \in Peers |-> 0]
  /\ asked = {}
  /\ calls = 0
  /\ arrived = 0
  /\ fault = "none"

-----------------------------------------------------------------------------
(* The functions that loop_run_inloop calls.  Each takes peer and channel    *)
(* as the pair x = <<peer, channel>> and returns them changed.               *)

\* delete_udp_peer.  Closing the descriptor also ends its epoll entry.
DeletePeer(x) ==
  <<FreedPeer, [ChannelDestroy(Detach(x[2])) EXCEPT !.epoll = {}]>>

\* atomic_dec returns the old value.
Dec(x) == <<[x[1] EXCEPT !.ref_count = @ - 1], x[2]>>

\* init_udp_peer_event
InitEvent(x) ==
  <<x[1], SetEvent(x[2], IF x[1].writecb THEN {"IN", "OUT"} ELSE {"IN"})>>

Switch(c, on, e) == IF on THEN SetEvent(c, e) ELSE ClearEvent(c, e)

\* do_udp_peer_onmessage, do_udp_peer_onwrite
DoOnMessage(x, cb) ==
  LET y == Dec(<<[x[1] EXCEPT !.messagecb = cb], x[2]>>)
  IN  IF x[1].ref_count > 1
      THEN <<y[1], Switch(y[2], cb, {"IN"})>>
      ELSE DeletePeer(y)

DoOnWrite(x, cb) ==
  LET y == Dec(<<[x[1] EXCEPT !.writecb = cb], x[2]>>)
  IN  IF x[1].ref_count > 1
      THEN <<y[1], Switch(y[2], cb, {"OUT"})>>
      ELSE DeletePeer(y)

\* Faulty variant: the value atomic_dec returns is taken for the new one.
DoDestroyNewValue(x) == IF x[1].ref_count = 2 THEN DeletePeer(Dec(x)) ELSE Dec(x)

\* do_udp_peer_destroy
DoDestroy(x) == IF x[1].ref_count = 1 THEN DeletePeer(Dec(x)) ELSE Dec(x)

Apply(t, x) ==
  CASE t.op = "init"      -> InitEvent(x)
    [] t.op = "onmessage" -> DoOnMessage(x, t.cb)
    [] t.op = "onwrite"   -> DoOnWrite(x, t.cb)
    [] t.op = "destroy"   -> DoDestroy(x)

Task(op, p, cb) == [op |-> op, cb |-> cb, peer |-> p]

\* The task runs on its peer, which must still be there.
RunTask(t) ==
  LET p == t.peer
      x == Apply(t, <<peer[p], chan[p]>>)
  IN  IF peer[p].mem = "live"
      THEN /\ peer' = [peer EXCEPT ![p] = x[1]]
           /\ chan' = [chan EXCEPT ![p] = x[2]]
           /\ UNCHANGED fault
      ELSE /\ fault' = t.op
           /\ UNCHANGED <<peer, chan>>

\* loop_run_inloop called by another thread
RunInLoop(t) ==
  IF run
  THEN tasks' = Append(tasks, t) /\ UNCHANGED <<peer, chan, fault>>
  ELSE RunTask(t) /\ UNCHANGED tasks

-----------------------------------------------------------------------------
(* Calls.  A peer is not used once its destruction was asked for, and while *)
(* the loop does not run only one thread uses it.                           *)

Usable(p) == peer[p].mem = "live" /\ p \notin asked
Alone == run \/ \A c \in Clients : hand[c] = NoTask

\* udp_peer_new up to loop_run_inloop: the fields of the new peer
New(p, w) ==
  [mem |-> "live", ref_count |-> 1, messagecb |-> TRUE, writecb |-> w]

\* udp_peer_new by a client: the peer's events are set up in the loop.
ClientNew(c, p, w) ==
  /\ peer[p].mem = "none"
  /\ hand[c] = NoTask /\ Alone
  /\ LET fresh == <<New(p, w), ChannelNew>>
         x     == IF run THEN fresh ELSE InitEvent(fresh)
     IN  /\ peer' = [peer EXCEPT ![p] = x[1]]
         /\ chan' = [chan EXCEPT ![p] = x[2]]
         /\ tasks' = IF run THEN Append(tasks, Task("init", p, w)) ELSE tasks
  /\ UNCHANGED <<run, hand, round, at, input, history, fault>>

\* Faulty variant: no reference is counted for the change.
ClientCountMissing(c, p, op, cb) ==
  /\ Usable(p)
  /\ hand[c] = NoTask /\ Alone
  /\ calls < MaxCalls
  /\ calls' = calls + 1
  /\ hand' = [hand EXCEPT ![c] = Task(op, p, cb)]
  /\ UNCHANGED <<run, peer, chan, tasks, round, at, input, asked, arrived, fault>>

\* udp_peer_onmessage, udp_peer_onwrite by a client: atomic_inc,
ClientCount(c, p, op, cb) ==
  /\ Usable(p)
  /\ hand[c] = NoTask /\ Alone
  /\ calls < MaxCalls
  /\ calls' = calls + 1
  /\ peer' = [peer EXCEPT ![p].ref_count = @ + 1]
  /\ hand' = [hand EXCEPT ![c] = Task(op, p, cb)]
  /\ UNCHANGED <<run, chan, tasks, round, at, input, asked, arrived, fault>>

\* then loop_run_inloop.
ClientSubmit(c) ==
  /\ hand[c] # NoTask
  /\ RunInLoop(hand[c])
  /\ hand' = [hand EXCEPT ![c] = NoTask]
  /\ UNCHANGED <<run, round, at, input, history>>

\* udp_peer_destroy by a client
ClientDestroy(c, p) ==
  /\ Usable(p)
  /\ hand[c] = NoTask /\ Alone
  /\ asked' = asked \cup {p}
  /\ RunInLoop(Task("destroy", p, FALSE))
  /\ UNCHANGED <<run, hand, round, at, input, calls, arrived>>

\* A callback makes one of these calls on any peer, its own included; it takes
\* effect at once.
InCallback == at.pc \in {"write", "message"}

CallbackNew(p, w) ==
  /\ InCallback
  /\ peer[p].mem = "none"
  /\ LET x == InitEvent(<<New(p, w), ChannelNew>>)
     IN  /\ peer' = [peer EXCEPT ![p] = x[1]]
         /\ chan' = [chan EXCEPT ![p] = x[2]]
  /\ UNCHANGED <<run, tasks, hand, round, at, input, history, fault>>

CallbackChange(p, op, cb) ==
  /\ InCallback
  /\ Usable(p)
  /\ calls < MaxCalls
  /\ calls' = calls + 1
  /\ LET counted == [peer[p] EXCEPT !.ref_count = @ + 1]
         x       == Apply(Task(op, p, cb), <<counted, chan[p]>>)
     IN  /\ peer' = [peer EXCEPT ![p] = x[1]]
         /\ chan' = [chan EXCEPT ![p] = x[2]]
  /\ UNCHANGED <<run, tasks, hand, round, at, input, asked, arrived, fault>>

CallbackDestroy(p) ==
  /\ InCallback
  /\ Usable(p)
  /\ asked' = asked \cup {p}
  /\ RunTask(Task("destroy", p, FALSE))
  /\ UNCHANGED <<run, tasks, hand, round, at, input, calls, arrived>>

-----------------------------------------------------------------------------
(* The loop's thread *)

\* loop_loop begins.
Start ==
  /\ ~run
  /\ Alone
  /\ run' = TRUE
  /\ UNCHANGED <<peer, chan, tasks, hand, round, at, input, history, fault>>

\* Level-triggered: a socket with datagrams is readable, any is writable.
Ready(p) == {e \in chan[p].epoll : e = "IN" => input[p] > 0}

\* The round is over; epoll_wait returns, and every channel it names is
\* marked active before the first one is dispatched.
Wait ==
  /\ run /\ at = Dispatching /\ round = {}
  /\ LET ready == {p \in Peers : Ready(p) # {}}
         woken == IF tasks = <<>> THEN {} ELSE {Wakeup}
     IN  /\ ready \cup woken # {}
         /\ round' = ready \cup woken
         /\ chan' = [p \in Peers |->
                       IF p \in ready THEN SetRevent(chan[p], Ready(p)) ELSE chan[p]]
         /\ fault' = IF \E p \in ready : chan[p].mem # "live" THEN "channel" ELSE fault
  /\ UNCHANGED <<run, peer, tasks, hand, at, input, history>>

\* The wakeup is dispatched: async_task_queue_process takes the tasks,
DispatchTasks ==
  /\ at = Dispatching
  /\ Wakeup \in round
  /\ round' = round \ {Wakeup}
  /\ at' = [pc |-> "tasks", batch |-> tasks]
  /\ tasks' = <<>>
  /\ UNCHANGED <<run, peer, chan, hand, input, history, fault>>

\* and runs them one by one.
LoopTask ==
  /\ at.pc = "tasks"
  /\ RunTask(Head(at.batch))
  /\ at' = IF Len(at.batch) = 1 THEN Dispatching ELSE [at EXCEPT !.batch = Tail(@)]
  /\ UNCHANGED <<run, tasks, hand, round, input, history>>

\* udp_peer_onevent from EPOLLIN on, c being the channel: the datagrams that
\* fit are read and the first is passed to the message callback, or the
\* event is done.
Read(p, c) ==
  LET got  == IF input[p] < Chunks THEN input[p] ELSE Chunks
      bad  == "IN" \in c.revent /\ peer[p].mem = "freed"
      more == "IN" \in c.revent /\ peer[p].messagecb /\ got > 0
  IN  /\ fault' = IF bad THEN "own" ELSE fault
      /\ input' = [input EXCEPT ![p] = IF "IN" \in c.revent THEN @ - got ELSE @]
      /\ at' = IF more THEN InPeer("message", p, got) ELSE Dispatching
      /\ chan' = [chan EXCEPT ![p] = IF more THEN c ELSE OnEventEnd(c)]

\* channel_onevent for the next channel of the round
Dispatch(p) ==
  /\ at = Dispatching
  /\ p \in round
  /\ round' = round \ {p}
  /\ LET c == chan[p]
     IN  \/ /\ c.mem # "live"
            /\ fault' = "channel"
            /\ UNCHANGED <<chan, at, input>>
         \/ /\ c.mem = "live" /\ ~c.is_alive
            /\ chan' = [chan EXCEPT ![p] = OnEventDead(c)]
            /\ UNCHANGED <<at, input, fault>>
         \/ /\ c.mem = "live" /\ c.is_alive
            /\ IF "OUT" \in c.revent /\ peer[p].writecb
               THEN /\ at' = InPeer("write", p, 0)
                    /\ chan' = [chan EXCEPT ![p] = OnEventBegin(c)]
                    /\ UNCHANGED <<input, fault>>
               ELSE Read(p, OnEventBegin(c))
  /\ UNCHANGED <<run, peer, tasks, hand, history>>

\* Faulty variant: EPOLLIN is looked at only without EPOLLOUT.
WriteReturnsElse ==
  /\ at.pc = "write"
  /\ at' = Dispatching
  /\ chan' = [chan EXCEPT ![at.who] = OnEventEnd(@)]
  /\ UNCHANGED <<run, peer, tasks, hand, round, input, history, fault>>

\* udp_peer_onevent after the write callback
WriteReturns ==
  /\ at.pc = "write"
  /\ Read(at.who, chan[at.who])
  /\ UNCHANGED <<run, peer, tasks, hand, round, history>>

\* The message callback returns: the next chunk is passed to peer->messagecb,
\* whatever that is by now.
MessageReturns ==
  /\ at.pc = "message"
  /\ LET p    == at.who
         more == at.left > 1
         bad  == peer[p].mem = "freed" \/ (more /\ ~peer[p].messagecb)
     IN  /\ fault' = IF bad THEN "own" ELSE fault
         /\ at' = IF more THEN [at EXCEPT !.left = @ - 1] ELSE Dispatching
         /\ chan' = [chan EXCEPT ![p] = IF more THEN @ ELSE OnEventEnd(@)]
  /\ UNCHANGED <<run, peer, tasks, hand, round, input, history>>

\* A datagram arrives at a socket that is open.
Arrive(p) ==
  /\ peer[p].mem = "live"
  /\ arrived < MaxIn
  /\ arrived' = arrived + 1
  /\ input' = [input EXCEPT ![p] = @ + 1]
  /\ UNCHANGED <<run, peer, chan, tasks, hand, round, at, asked, calls, fault>>

-----------------------------------------------------------------------------
Changes == {"onmessage", "onwrite"}

ClientCall(c) ==
  \E p \in Peers :
    \/ \E w \in BOOLEAN : ClientNew(c, p, w)
    \/ \E op \in Changes, cb \in BOOLEAN : ClientCount(c, p, op, cb)
    \/ ClientDestroy(c, p)

CallbackCall ==
  \E p \in Peers :
    \/ \E w \in BOOLEAN : CallbackNew(p, w)
    \/ \E op \in Changes, cb \in BOOLEAN : CallbackChange(p, op, cb)
    \/ CallbackDestroy(p)

LoopStep ==
  \/ Wait \/ (\E p \in Peers : Dispatch(p)) \/ DispatchTasks \/ LoopTask
  \/ WriteReturns \/ MessageReturns

\* What follows a fault is undefined.
Next ==
  /\ fault = "none"
  /\ \/ \E c \in Clients : ClientCall(c) \/ ClientSubmit(c)
     \/ CallbackCall
     \/ \E p \in Peers : Arrive(p)
     \/ Start \/ LoopStep

Spec == Init /\ [][Next]_vars

\* The loop is started and its thread scheduled, its callbacks return, and a
\* client that began a call ends it.  Nobody has to call anything.
Fairness ==
  /\ WF_vars(fault = "none" /\ (Start \/ LoopStep))
  /\ \A c \in Clients : WF_vars(fault = "none" /\ ClientSubmit(c))

FairSpec == Spec /\ Fairness

-----------------------------------------------------------------------------
(* Properties *)

\* Peers, channels and the loop's position have their types.
TypeOK ==
  /\ run \in BOOLEAN
  /\ peer \in [Peers -> [mem : {"none", "live", "freed"}, ref_count : Nat,
                         messagecb : BOOLEAN, writecb : BOOLEAN]]
  /\ chan \in [Peers -> Channels]
  /\ round \subseteq Peers \cup {Wakeup}
  /\ at.pc \in {"dispatch", "tasks", "write", "message"}
  /\ input \in [Peers -> Nat]

\* The tasks under way: with a client, in the queue or in the batch.
Batch == IF at.pc = "tasks" THEN at.batch ELSE <<>>
Queued == Batch \o tasks
Pending(p, ops) ==
  Cardinality({c \in Clients : hand[c] # NoTask /\ hand[c].peer = p})
    + Cardinality({i \in 1..Len(Queued) : Queued[i].peer = p /\ Queued[i].op \in ops})

\* The reference count of a peer is one for its owner, until the destruction
\* was carried out, and one for each change under way; the peer is freed when
\* nobody holds a reference, and not before.
RefsCounted ==
  TypeOK /\ \A p \in Peers :
    /\ peer[p].mem = "live" =>
         peer[p].ref_count =
           Pending(p, Changes)
             + IF p \notin asked \/ \E i \in 1..Len(Queued) :
                    Queued[i].peer = p /\ Queued[i].op = "destroy"
               THEN 1 ELSE 0
    /\ peer[p].mem = "live" => peer[p].ref_count > 0
    /\ peer[p].mem = "freed" => Pending(p, Changes) = 0

\* Whatever callbacks, tasks and other threads destroy and in whichever order
\* the round comes to them: no freed channel is dispatched and no task finds
\* its peer freed.  The exceptions are a callback that destroys or silences
\* its own peer before onevent is done with it, and a peer that a callback
\* destroys before the task that sets up its events has run.
KnownFaults == fault \in {"none", "own", "init"}

\* The epoll set agrees with the channels: it has an entry for the events of
\* every channel that is in use, and none that leads to a freed one.
InterestAgrees ==
  \A p \in Peers :
    /\ chan[p].epoll # {} => chan[p].mem = "live" /\ peer[p].mem = "live"
    /\ peer[p].mem = "live" =>
         /\ chan[p].epoll = chan[p].event
         /\ chan[p].is_monitored = (chan[p].event # {})

\* A destruction that was asked for frees the peer and its channel, however
\* many changes and rounds are under way.
DestroyFrees ==
  \A p \in Peers :
    p \in asked ~> fault # "none" \/ (peer[p].mem = "freed" /\ chan[p].mem = "freed")

\* Datagrams that arrived are read as long as somebody wants them, whatever
\* else keeps the loop busy.
Heard ==
  \A p \in Peers :
    input[p] > 0 /\ "IN" \in chan[p].event ~>
      \/ input[p] = 0
      \/ "IN" \notin chan[p].event
      \/ peer[p].mem = "freed"
      \/ fault # "none"

=============================================================================
