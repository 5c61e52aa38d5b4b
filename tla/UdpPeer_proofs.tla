---------------------------- MODULE UdpPeer_proofs ----------------------------
(***************************************************************************)
(* Proofs about the peers, their channels and the loop, for any peers and  *)
(* any finite set of threads.                                              *)
(***************************************************************************)
EXTENDS UdpPeer, FiniteSetTheorems, FunctionTheorems, SequenceTheorems, TLAPS

-----------------------------------------------------------------------------
(* The inductive invariant *)

Ops == Changes \cup {"init", "destroy"}
Tasks == [op : Ops, cb : BOOLEAN, peer : Peers]
ChangeTasks == [op : Changes, cb : BOOLEAN, peer : Peers]

\* The tasks are tasks, and the loop's thread is at one of its places.
PlacesOK ==
  /\ tasks \in Seq(Tasks)
  /\ hand \in [Clients -> {NoTask} \cup ChangeTasks]
  /\ \/ at = Dispatching
     \/ at \in [pc : {"tasks"}, batch : Seq(Tasks)] /\ at.batch # <<>>
     \/ at \in [pc : {"write", "message"}, who : Peers, left : Nat]
  /\ asked \subseteq Peers
  /\ Wakeup \in round => tasks # <<>>

\* The changes under way for a peer, among the clients and in a queue.
InHands(h, p) == {c \in Clients : h[c] # NoTask /\ h[c].peer = p}
InQueue(q, p) == {i \in 1..Len(q) : q[i].peer = p /\ q[i].op \in Changes}
UnderWay(h, q, p) == Cardinality(InHands(h, p)) + Cardinality(InQueue(q, p))

\* Whether a queue has a task for a peer, and whether it has its destruction.
HasTask(q, p) == \E i \in 1..Len(q) : q[i].peer = p
HasDestroy(q, p) == \E i \in 1..Len(q) : q[i].peer = p /\ q[i].op = "destroy"

\* The owner's reference: nobody asked for the destruction, or it has not run.
Owned(q, a, p) == p \notin a \/ HasDestroy(q, p)

\* What the count of a peer stands for at each stage of its life.
CountOK(x, h, q, a, p) ==
  /\ x.mem = "none" =>
       p \notin a /\ UnderWay(h, q, p) = 0 /\ ~HasTask(q, p)
  /\ x.mem = "live" =>
       /\ x.ref_count = UnderWay(h, q, p) + IF Owned(q, a, p) THEN 1 ELSE 0
       /\ x.ref_count > 0
  /\ x.mem = "freed" => UnderWay(h, q, p) = 0 /\ ~Owned(q, a, p)

\* The destruction of a peer is queued once, and only if it was asked for.
OneDestroy(q, a) ==
  /\ \A p \in Peers : HasDestroy(q, p) => p \in a
  /\ \A i, j \in 1..Len(q) :
       q[i].op = "destroy" /\ q[j].op = "destroy" /\ q[i].peer = q[j].peer => i = j

\* What the channel of a peer looks like at each stage of its life.
ChannelOK(x, c) ==
  /\ x.mem = "none" => c = NoChannel
  /\ x.mem = "live" =>
       /\ c.mem = "live" /\ c.is_alive
       /\ c.epoll = c.event
       /\ c.is_monitored = (c.event # {})
  /\ x.mem = "freed" => c.epoll = {} /\ ~c.is_alive

\* The loop's thread still comes to the channels of its round, and is inside
\* of the one whose callback runs.
HeldOK ==
  /\ \A p \in round \cap Peers : chan[p].mem = "live" /\ chan[p].is_active
  /\ InCallback =>
       /\ chan[at.who].mem = "live" /\ chan[at.who].is_in_callback
       /\ at.who \notin round

PeerInv ==
  /\ TypeOK
  /\ PlacesOK
  /\ \A p \in Peers : CountOK(peer[p], hand, Queued, asked, p)
  /\ OneDestroy(Queued, asked)
  /\ \A p \in Peers : ChannelOK(peer[p], chan[p])
  /\ HeldOK
  /\ KnownFaults


-----------------------------------------------------------------------------
(* Channels *)

\* The loop's hold on a channel is kept: it stays allocated, and where the
\* loop's thread is.
Held(c, d) ==
  c.mem = "live" /\ (c.is_active \/ c.is_in_callback) =>
    /\ d.mem = "live"
    /\ d.is_active = c.is_active /\ d.is_in_callback = c.is_in_callback

\* The channel of a live peer.
InUse(c) ==
  /\ c.mem = "live" /\ c.is_alive
  /\ c.epoll = c.event
  /\ c.is_monitored = (c.event # {})

PeerRecs ==
  [mem : {"none", "live", "freed"}, ref_count : Nat,
   messagecb : BOOLEAN, writecb : BOOLEAN]

\* The entry of the epoll set follows the events of a channel in use.
LEMMA Updating ==
  ASSUME NEW c \in Channels, NEW e \in SUBSET Events, InUse(c)
  PROVE  LET d == UpdateChannel([c EXCEPT !.event = e])
         IN  d \in Channels /\ InUse(d) /\ Held(c, d)
<1> DEFINE b == [c EXCEPT !.event = e]
<1>1. /\ b \in Channels /\ b.event = e
      /\ b.mem = c.mem /\ b.is_alive = c.is_alive /\ b.epoll = c.epoll
      /\ b.is_monitored = c.is_monitored
      /\ b.is_active = c.is_active /\ b.is_in_callback = c.is_in_callback
  BY DEF Channels
<1> HIDE DEF b
<1>2. CASE e = {}
  <2>1. UpdateChannel(b) = [b EXCEPT !.is_monitored = FALSE, !.epoll = {}]
    BY <1>1, <1>2 DEF UpdateChannel
  <2>2. UpdateChannel(b).is_monitored = FALSE /\ UpdateChannel(b).event = {}
        /\ UpdateChannel(b).epoll = {}
    BY <1>1, <1>2, <2>1 DEF Channels
  <2>3. UpdateChannel(b) \in Channels /\ UpdateChannel(b).mem = c.mem
        /\ UpdateChannel(b).is_alive = c.is_alive
        /\ UpdateChannel(b).is_active = c.is_active
        /\ UpdateChannel(b).is_in_callback = c.is_in_callback
    BY <1>1, <2>1 DEF Channels
  <2> QED  BY <2>2, <2>3 DEF InUse, Held, b
<1>3. CASE e # {} /\ c.is_monitored
  BY <1>1, <1>3 DEF UpdateChannel, Channels, InUse, Held
<1>4. CASE e # {} /\ ~c.is_monitored
  BY <1>1, <1>4 DEF UpdateChannel, Channels, InUse, Held
<1> QED  BY <1>2, <1>3, <1>4 DEF b

\* Switching events on or off keeps a channel in use.
LEMMA Switching ==
  ASSUME NEW c \in Channels, NEW e \in SUBSET Events, NEW on \in BOOLEAN, InUse(c)
  PROVE  /\ SetEvent(c, e) \in Channels /\ InUse(SetEvent(c, e))
         /\ Held(c, SetEvent(c, e))
         /\ Switch(c, on, e) \in Channels /\ InUse(Switch(c, on, e))
         /\ Held(c, Switch(c, on, e))
<1>1. Held(c, c)  BY DEF Held
<1>2. SetEvent(c, e) \in Channels /\ InUse(SetEvent(c, e)) /\ Held(c, SetEvent(c, e))
  <2>1. (c.event \cup e) \in SUBSET Events  BY DEF Channels
  <2>2. [c EXCEPT !.event = @ \cup e] = [c EXCEPT !.event = c.event \cup e]
    OBVIOUS
  <2> QED  BY <1>1, <2>1, <2>2, Updating DEF SetEvent
<1>3. ClearEvent(c, e) \in Channels /\ InUse(ClearEvent(c, e)) /\ Held(c, ClearEvent(c, e))
  <2>1. (c.event \ e) \in SUBSET Events  BY DEF Channels
  <2>2. [c EXCEPT !.event = @ \ e] = [c EXCEPT !.event = c.event \ e]
    OBVIOUS
  <2> QED  BY <1>1, <2>1, <2>2, Updating DEF ClearEvent
<1> QED  BY <1>2, <1>3 DEF Switch

\* channel_destroy keeps what the loop holds.
LEMMA Destroying ==
  ASSUME NEW c \in Channels
  PROVE  /\ ChannelDestroy(c) \in Channels /\ ~ChannelDestroy(c).is_alive
         /\ Held(c, ChannelDestroy(c))
         /\ ChannelDestroy(c).epoll = {} \/ ChannelDestroy(c).epoll = c.epoll
<1>1. CASE c.is_in_callback \/ c.is_active
  BY <1>1 DEF ChannelDestroy, Channels, Held
<1>2. CASE ~(c.is_in_callback \/ c.is_active)
  BY <1>2 DEF ChannelDestroy, Channels, Held, FreedChannel, NoChannel
<1> QED  BY <1>1, <1>2

\* Detaching leaves the loop's hold alone.
LEMMA Detaching ==
  ASSUME NEW c \in Channels
  PROVE  Detach(c) \in Channels /\ Detach(c).mem = c.mem
         /\ Detach(c).is_active = c.is_active
         /\ Detach(c).is_in_callback = c.is_in_callback
<1>1. CASE c.event = {}  BY <1>1 DEF Detach
<1>2. CASE c.event # {}
  <2> DEFINE b == [c EXCEPT !.event = {}]
             d == UpdateChannel(b)
  <2>1. d \in Channels /\ d.mem = c.mem /\ d.is_active = c.is_active
        /\ d.is_in_callback = c.is_in_callback
    BY DEF UpdateChannel, Channels
  <2> HIDE DEF d
  <2>2. Detach(c) = [d EXCEPT !.event = c.event, !.loop = FALSE]
    BY <1>2 DEF Detach, d
  <2> QED  BY <2>1, <2>2 DEF Channels
<1> QED  BY <1>1, <1>2

\* delete_udp_peer frees the peer and takes its channel out of the epoll set.
LEMMA Deleting ==
  ASSUME NEW x, NEW c \in Channels
  PROVE  LET d == DeletePeer(<<x, c>>)
         IN  /\ d[1] = FreedPeer
             /\ d[2] \in Channels /\ d[2].epoll = {} /\ ~d[2].is_alive
             /\ Held(c, d[2])
<1> DEFINE b == ChannelDestroy(Detach(c))
           d == [b EXCEPT !.epoll = {}]
<1>1. b \in Channels /\ ~b.is_alive /\ Held(c, b)
  BY Detaching, Destroying DEF Held
<1>2. DeletePeer(<<x, c>>) = <<FreedPeer, d>>
  BY DEF DeletePeer
<1> HIDE DEF b
<1>3. d \in Channels /\ d.epoll = {} /\ ~d.is_alive /\ Held(c, d)
  BY <1>1 DEF Channels, Held
<1> HIDE DEF d
<1> QED  BY <1>2, <1>3

\* The steps of channel_onevent keep the channel of a peer at its stage.
LEMMA AroundCallback ==
  ASSUME NEW c \in Channels, NEW e \in SUBSET Events, NEW x, ChannelOK(x, c),
         x.mem \in {"none", "live", "freed"}, c.mem = "live"
  PROVE  /\ SetRevent(c, e) \in Channels /\ ChannelOK(x, SetRevent(c, e))
         /\ SetRevent(c, e).mem = "live" /\ SetRevent(c, e).is_active
         /\ OnEventBegin(c) \in Channels /\ ChannelOK(x, OnEventBegin(c))
         /\ OnEventBegin(c).mem = "live" /\ OnEventBegin(c).is_in_callback
         /\ OnEventEnd(c) \in Channels /\ ChannelOK(x, OnEventEnd(c))
<1>1. x.mem # "none"  BY DEF ChannelOK, NoChannel
<1>2. /\ SetRevent(c, e) \in Channels /\ ChannelOK(x, SetRevent(c, e))
      /\ SetRevent(c, e).mem = "live" /\ SetRevent(c, e).is_active
  BY <1>1 DEF SetRevent, ChannelOK, Channels
<1>3. /\ OnEventBegin(c) \in Channels /\ ChannelOK(x, OnEventBegin(c))
      /\ OnEventBegin(c).mem = "live" /\ OnEventBegin(c).is_in_callback
  BY <1>1 DEF OnEventBegin, ChannelOK, Channels
<1>4. OnEventEnd(c) \in Channels /\ ChannelOK(x, OnEventEnd(c))
  <2> DEFINE done == [c EXCEPT !.is_in_callback = FALSE, !.is_active = FALSE,
                               !.revent = {}]
  <2>1. done \in Channels /\ ChannelOK(x, done) /\ done.epoll = c.epoll
    BY <1>1 DEF ChannelOK, Channels
  <2>2. OnEventEnd(c) = IF c.is_alive THEN done ELSE ChannelDestroy(done)
    BY DEF OnEventEnd
  <2> HIDE DEF done
  <2>3. CASE c.is_alive  BY <2>1, <2>2, <2>3
  <2>4. CASE ~c.is_alive
    <3>1. x.mem = "freed"  BY <1>1, <2>4 DEF ChannelOK
    <3> QED  BY <2>1, <2>2, <2>4, <3>1, Destroying DEF ChannelOK
  <2> QED  BY <2>3, <2>4
<1> QED  BY <1>2, <1>3, <1>4

\* A dead channel is freed when its turn comes.
LEMMA DispatchingDead ==
  ASSUME NEW c \in Channels, NEW x, ChannelOK(x, c),
         x.mem \in {"none", "live", "freed"}, c.mem = "live", ~c.is_alive
  PROVE  OnEventDead(c) \in Channels /\ ChannelOK(x, OnEventDead(c))
<1>1. x.mem = "freed"  BY DEF ChannelOK, NoChannel
<1> DEFINE b == [c EXCEPT !.is_active = FALSE]
<1>2. b \in Channels /\ b.epoll = c.epoll  BY DEF Channels
<1>3. OnEventDead(c) = ChannelDestroy(b)  BY DEF OnEventDead
<1> HIDE DEF b
<1> QED  BY <1>1, <1>2, <1>3, Destroying DEF ChannelOK

-----------------------------------------------------------------------------
(* What a task does to its peer *)

\* The references a task gives back.
Given(t) == IF t.op = "init" THEN 0 ELSE 1

\* A task run on a live peer gives back its reference, and frees the peer
\* exactly if that was the last one.
LEMMA Applying ==
  ASSUME NEW t \in Tasks, NEW x \in PeerRecs, NEW c \in Channels,
         x.mem = "live", x.ref_count > 0, ChannelOK(x, c)
  PROVE  LET y == Apply(t, <<x, c>>)
         IN  /\ y[1] \in PeerRecs /\ y[2] \in Channels
             /\ ChannelOK(y[1], y[2]) /\ Held(c, y[2])
             /\ \/ /\ y[1].mem = "live" /\ y[1].ref_count > 0
                   /\ y[1].ref_count = x.ref_count - Given(t)
                \/ y[1].mem = "freed" /\ x.ref_count = 1 /\ Given(t) = 1
<1> DEFINE y == Apply(t, <<x, c>>)
<1>1. InUse(c)  BY DEF ChannelOK, InUse
<1>2. FreedPeer \in PeerRecs /\ FreedPeer.mem = "freed"
  BY DEF FreedPeer, NoPeer, PeerRecs
<1>3. \A d : InUse(d) => \A z : z.mem = "live" => ChannelOK(z, d)
  BY DEF InUse, ChannelOK
<1>4. \A d : d.epoll = {} /\ ~d.is_alive => ChannelOK(FreedPeer, d)
  BY <1>2 DEF ChannelOK
<1>5. CASE t.op = "init"
  <2> DEFINE e == IF x.writecb THEN {"IN", "OUT"} ELSE {"IN"}
  <2>1. y = <<x, SetEvent(c, e)>>
    BY <1>5 DEF Apply, InitEvent
  <2>2. e \in SUBSET Events  BY DEF Events
  <2> HIDE DEF e
  <2>3. SetEvent(c, e) \in Channels /\ InUse(SetEvent(c, e)) /\ Held(c, SetEvent(c, e))
    BY <1>1, <2>2, Switching
  <2>4. ChannelOK(x, SetEvent(c, e))
    BY <1>3, <2>3
  <2>5. Given(t) = 0  BY <1>5 DEF Given
  <2>6. x.ref_count = x.ref_count - Given(t)  BY <2>5 DEF PeerRecs
  <2> HIDE DEF y
  <2> QED  BY <2>1, <2>3, <2>4, <2>6 DEF y
<1>6. CASE t.op = "onmessage"
  <2> DEFINE w == [x EXCEPT !.messagecb = t.cb]
             z == [w EXCEPT !.ref_count = w.ref_count - 1]
  <2>1. y = IF x.ref_count > 1 THEN <<z, Switch(c, t.cb, {"IN"})>>
            ELSE DeletePeer(<<z, c>>)
    <3>1. y = DoOnMessage(<<x, c>>, t.cb)  BY <1>6 DEF Apply
    <3>2. Dec(<<w, c>>) = <<z, c>>  BY DEF Dec
    <3>3. DoOnMessage(<<x, c>>, t.cb) =
            IF x.ref_count > 1
            THEN <<Dec(<<w, c>>)[1], Switch(Dec(<<w, c>>)[2], t.cb, {"IN"})>>
            ELSE DeletePeer(Dec(<<w, c>>))
      BY DEF DoOnMessage
    <3> HIDE DEF w, z, y
    <3> QED  BY <3>1, <3>2, <3>3
  <2>2. z.mem = "live" /\ z.ref_count = x.ref_count - 1
        /\ (x.ref_count > 1 => z \in PeerRecs)
    <3>1. w \in PeerRecs /\ w.mem = x.mem /\ w.ref_count = x.ref_count
      BY DEF PeerRecs, Tasks
    <3> HIDE DEF w
    <3> QED  BY <3>1 DEF PeerRecs
  <2>3. Given(t) = 1 /\ t.cb \in BOOLEAN  BY <1>6 DEF Given, Tasks
  <2>4. {"IN"} \in SUBSET Events  BY DEF Events
  <2> HIDE DEF w, z, y
  <2>5. CASE x.ref_count > 1
    <3>1. InUse(Switch(c, t.cb, {"IN"})) /\ Switch(c, t.cb, {"IN"}) \in Channels
          /\ Held(c, Switch(c, t.cb, {"IN"}))
      BY <1>1, <2>3, <2>4, Switching
    <3>2. ChannelOK(z, Switch(c, t.cb, {"IN"}))  BY <1>3, <2>2, <3>1
    <3>3. z.ref_count > 0  BY <2>2, <2>5 DEF PeerRecs
    <3> QED  BY <2>1, <2>2, <2>3, <2>5, <3>1, <3>2, <3>3 DEF y
  <2>6. CASE ~(x.ref_count > 1)
    <3>1. x.ref_count = 1  BY <2>6 DEF PeerRecs
    <3>2. y = DeletePeer(<<z, c>>)  BY <2>1, <2>6
    <3> QED  BY <1>2, <1>4, <2>3, <3>1, <3>2, Deleting DEF y
  <2> QED  BY <2>5, <2>6
<1>7. CASE t.op = "onwrite"
  <2> DEFINE w == [x EXCEPT !.writecb = t.cb]
             z == [w EXCEPT !.ref_count = w.ref_count - 1]
  <2>1. y = IF x.ref_count > 1 THEN <<z, Switch(c, t.cb, {"OUT"})>>
            ELSE DeletePeer(<<z, c>>)
    <3>1. y = DoOnWrite(<<x, c>>, t.cb)  BY <1>7 DEF Apply
    <3>2. Dec(<<w, c>>) = <<z, c>>  BY DEF Dec
    <3>3. DoOnWrite(<<x, c>>, t.cb) =
            IF x.ref_count > 1
            THEN <<Dec(<<w, c>>)[1], Switch(Dec(<<w, c>>)[2], t.cb, {"OUT"})>>
            ELSE DeletePeer(Dec(<<w, c>>))
      BY DEF DoOnWrite
    <3> HIDE DEF w, z, y
    <3> QED  BY <3>1, <3>2, <3>3
  <2>2. z.mem = "live" /\ z.ref_count = x.ref_count - 1
        /\ (x.ref_count > 1 => z \in PeerRecs)
    <3>1. w \in PeerRecs /\ w.mem = x.mem /\ w.ref_count = x.ref_count
      BY DEF PeerRecs, Tasks
    <3> HIDE DEF w
    <3> QED  BY <3>1 DEF PeerRecs
  <2>3. Given(t) = 1 /\ t.cb \in BOOLEAN  BY <1>7 DEF Given, Tasks
  <2>4. {"OUT"} \in SUBSET Events  BY DEF Events
  <2> HIDE DEF w, z, y
  <2>5. CASE x.ref_count > 1
    <3>1. InUse(Switch(c, t.cb, {"OUT"})) /\ Switch(c, t.cb, {"OUT"}) \in Channels
          /\ Held(c, Switch(c, t.cb, {"OUT"}))
      BY <1>1, <2>3, <2>4, Switching
    <3>2. ChannelOK(z, Switch(c, t.cb, {"OUT"}))  BY <1>3, <2>2, <3>1
    <3>3. z.ref_count > 0  BY <2>2, <2>5 DEF PeerRecs
    <3> QED  BY <2>1, <2>2, <2>3, <2>5, <3>1, <3>2, <3>3 DEF y
  <2>6. CASE ~(x.ref_count > 1)
    <3>1. x.ref_count = 1  BY <2>6 DEF PeerRecs
    <3>2. y = DeletePeer(<<z, c>>)  BY <2>1, <2>6
    <3> QED  BY <1>2, <1>4, <2>3, <3>1, <3>2, Deleting DEF y
  <2> QED  BY <2>5, <2>6
<1>8. CASE t.op = "destroy"
  <2> DEFINE z == [x EXCEPT !.ref_count = @ - 1]
  <2>1. y = IF x.ref_count = 1 THEN DeletePeer(<<z, c>>) ELSE <<z, c>>
    BY <1>8 DEF Apply, DoDestroy, Dec
  <2>2. z.mem = "live" /\ z.ref_count = x.ref_count - 1
        /\ (x.ref_count > 1 => z \in PeerRecs)
    BY DEF PeerRecs
  <2>3. Given(t) = 1  BY <1>8 DEF Given
  <2> HIDE DEF z, y
  <2>4. CASE x.ref_count # 1
    <3>1. z.ref_count > 0 /\ z \in PeerRecs  BY <2>2, <2>4 DEF PeerRecs
    <3>2. ChannelOK(z, c) /\ Held(c, c)  BY <1>1, <1>3, <2>2 DEF Held
    <3> QED  BY <2>1, <2>2, <2>3, <2>4, <3>1, <3>2 DEF y
  <2>5. CASE x.ref_count = 1
    <3>1. y = DeletePeer(<<z, c>>)  BY <2>1, <2>5
    <3> QED  BY <1>2, <1>4, <2>3, <2>5, <3>1, Deleting DEF y
  <2> QED  BY <2>4, <2>5
<1> QED  BY <1>5, <1>6, <1>7, <1>8 DEF Tasks, Ops, Changes

-----------------------------------------------------------------------------
(* Counting the tasks *)

Counted(t, p) == IF t.peer = p /\ t.op \in Changes THEN 1 ELSE 0

\* The tasks <<h, q>> are those of <<h2, q2>> and t.
Without(t, h, q, h2, q2) ==
  \A p \in Peers :
    /\ UnderWay(h, q, p) = UnderWay(h2, q2, p) + Counted(t, p)
    /\ HasDestroy(q, p) <=> HasDestroy(q2, p) \/ (t.peer = p /\ t.op = "destroy")
    /\ HasTask(q2, p) => HasTask(q, p)
    /\ HasTask(q, p) => HasTask(q2, p) \/ t.peer = p

LEMMA CountsAreNat ==
  ASSUME NEW h, NEW q, Len(q) \in Nat, NEW p
  PROVE  /\ IsFiniteSet(InHands(h, p)) /\ IsFiniteSet(InQueue(q, p))
         /\ Cardinality(InHands(h, p)) \in Nat /\ Cardinality(InQueue(q, p)) \in Nat
         /\ UnderWay(h, q, p) \in Nat
<1>1. IsFiniteSet(InHands(h, p)) /\ IsFiniteSet(InQueue(q, p))
  <2>1. InHands(h, p) \subseteq Clients /\ InQueue(q, p) \subseteq 1..Len(q)
    BY DEF InHands, InQueue
  <2>2. IsFiniteSet(1..Len(q))  BY FS_Interval
  <2> QED  BY <2>1, <2>2, PeerAssumption, FS_Subset
<1>2. Cardinality(InHands(h, p)) \in Nat /\ Cardinality(InQueue(q, p)) \in Nat
  BY <1>1, FS_CardinalityType
<1> QED  BY <1>1, <1>2 DEF UnderWay

\* Adding a task to the end of a queue.
LEMMA QueueAppend ==
  ASSUME NEW h, NEW q \in Seq(Tasks), NEW t \in Tasks
  PROVE  Append(q, t) \in Seq(Tasks) /\ Without(t, h, Append(q, t), h, q)
<1> DEFINE r == Append(q, t)
           n == Len(q) + 1
<1>1. /\ r \in Seq(Tasks) /\ Len(q) \in Nat /\ Len(r) = n /\ r[n] = t
      /\ \A i \in 1..Len(q) : r[i] = q[i]
  OBVIOUS
<1>2. 1..n = (1..Len(q)) \cup {n} /\ n \notin 1..Len(q)
  BY <1>1
<1> HIDE DEF r, n
<1>3. ASSUME NEW p \in Peers
      PROVE  /\ HasDestroy(r, p) <=> HasDestroy(q, p) \/ (t.peer = p /\ t.op = "destroy")
             /\ HasTask(q, p) => HasTask(r, p)
             /\ HasTask(r, p) => HasTask(q, p) \/ t.peer = p
  BY <1>1, <1>2 DEF HasDestroy, HasTask
<1>4. ASSUME NEW p \in Peers
      PROVE  UnderWay(h, r, p) = UnderWay(h, q, p) + Counted(t, p)
  <2>1. CASE t.peer = p /\ t.op \in Changes
    <3>1. InQueue(r, p) = InQueue(q, p) \cup {n} /\ n \notin InQueue(q, p)
      BY <1>1, <1>2, <2>1 DEF InQueue
    <3>2. Cardinality(InQueue(r, p)) = Cardinality(InQueue(q, p)) + 1
      BY <1>1, <3>1, CountsAreNat, FS_AddElement
    <3> QED  BY <1>1, <2>1, <3>2, CountsAreNat DEF UnderWay, Counted
  <2>2. CASE ~(t.peer = p /\ t.op \in Changes)
    <3>1. InQueue(r, p) = InQueue(q, p)
      BY <1>1, <1>2, <2>2 DEF InQueue
    <3> QED  BY <1>1, <2>2, <3>1, CountsAreNat DEF UnderWay, Counted
  <2> QED  BY <2>1, <2>2
<1> QED  BY <1>1, <1>3, <1>4 DEF Without, r

\* Taking the first task of a queue.
LEMMA QueueTail ==
  ASSUME NEW h, NEW q \in Seq(Tasks), q # <<>>
  PROVE  /\ Tail(q) \in Seq(Tasks) /\ Head(q) \in Tasks
         /\ Without(Head(q), h, q, h, Tail(q))
<1> DEFINE r == Tail(q)
           t == Head(q)
<1>1. /\ r \in Seq(Tasks) /\ Len(q) \in Nat /\ Len(q) > 0 /\ Len(r) = Len(q) - 1
      /\ q[1] = t /\ t \in Tasks
      /\ \A i \in 1..Len(r) : r[i] = q[i + 1]
  OBVIOUS
<1> HIDE DEF r, t
<1>2. /\ \A i \in 1..Len(r) : i + 1 \in 1..Len(q)
      /\ \A j \in 1..Len(q) : j = 1 \/ (j - 1 \in 1..Len(r) /\ r[j - 1] = q[j])
      /\ 1 \in 1..Len(q)
  BY <1>1
<1>3. ASSUME NEW p \in Peers
      PROVE  /\ HasDestroy(q, p) <=> HasDestroy(r, p) \/ (t.peer = p /\ t.op = "destroy")
             /\ HasTask(r, p) => HasTask(q, p)
             /\ HasTask(q, p) => HasTask(r, p) \/ t.peer = p
  BY <1>1, <1>2 DEF HasDestroy, HasTask
<1>4. ASSUME NEW p \in Peers
      PROVE  UnderWay(h, q, p) = UnderWay(h, r, p) + Counted(t, p)
  <2> DEFINE later == InQueue(q, p) \ {1}
  <2>0. Len(r) \in Nat  BY <1>1
  <2>1. IsFiniteSet(later) /\ Cardinality(later) = Cardinality(InQueue(r, p))
    <3> DEFINE f == [i \in InQueue(r, p) |-> i + 1]
    <3>1. f \in [InQueue(r, p) -> later]
      BY <1>1, <1>2 DEF InQueue
    <3>2. \A i, j \in InQueue(r, p) : f[i] = f[j] => i = j
      BY DEF InQueue
    <3>3. \A k \in later : k - 1 \in InQueue(r, p) /\ f[k - 1] = k
      BY <1>1, <1>2 DEF InQueue
    <3>4. f \in Bijection(InQueue(r, p), later)
      <4> HIDE DEF f, later
      <4> QED  BY <3>1, <3>2, <3>3, Fun_IsBij
    <3>5. ExistsBijection(InQueue(r, p), later)
      BY <3>4 DEF ExistsBijection
    <3>6. IsFiniteSet(InQueue(r, p))  BY <2>0, CountsAreNat
    <3> HIDE DEF later, f
    <3> QED  BY <3>5, <3>6, FS_Bijection
  <2>2. CASE t.peer = p /\ t.op \in Changes
    <3>1. InQueue(q, p) = later \cup {1} /\ 1 \notin later
      BY <1>1, <1>2, <2>2 DEF InQueue
    <3> HIDE DEF later
    <3>2. Cardinality(InQueue(q, p)) = Cardinality(InQueue(r, p)) + 1
      BY <2>1, <3>1, FS_AddElement
    <3> QED  BY <1>1, <2>0, <2>2, <3>2, CountsAreNat DEF UnderWay, Counted
  <2>3. CASE ~(t.peer = p /\ t.op \in Changes)
    <3>1. InQueue(q, p) = later
      BY <1>1, <1>2, <2>3 DEF InQueue
    <3>2. Counted(t, p) = 0  BY <2>3 DEF Counted
    <3> HIDE DEF later
    <3> QED  BY <1>1, <2>0, <2>1, <3>1, <3>2, CountsAreNat DEF UnderWay
  <2> QED  BY <2>2, <2>3
<1> QED  BY <1>1, <1>3, <1>4 DEF Without, r, t

Hands == [Clients -> {NoTask} \cup ChangeTasks]

LEMMA ChangesAreTasks ==
  ASSUME NEW t \in ChangeTasks
  PROVE  t \in Tasks /\ t # NoTask /\ t.op \in Changes /\ t.peer \in Peers
BY DEF ChangeTasks, Tasks, NoTask, Ops, Changes

\* A client takes a task in hand, or gives it away.
LEMMA HandChanges ==
  ASSUME NEW h \in Hands, NEW c \in Clients, NEW t \in ChangeTasks, h[c] = t,
         NEW q, Len(q) \in Nat
  PROVE  LET g == [h EXCEPT ![c] = NoTask]
         IN  g \in Hands /\ Without(t, h, q, g, q)
<1> DEFINE g == [h EXCEPT ![c] = NoTask]
<1>1. g \in Hands /\ g[c] = NoTask /\ \A d \in Clients \ {c} : g[d] = h[d]
  BY DEF Hands
<1> HIDE DEF g
<1>2. t # NoTask /\ t.op \in Changes /\ t.op # "destroy"
  BY ChangesAreTasks DEF Changes
<1>3. ASSUME NEW p \in Peers
      PROVE  UnderWay(h, q, p) = UnderWay(g, q, p) + Counted(t, p)
  <2>1. CASE t.peer = p
    <3>1. InHands(h, p) = InHands(g, p) \cup {c} /\ c \notin InHands(g, p)
      BY <1>1, <1>2, <2>1 DEF InHands
    <3>2. Cardinality(InHands(h, p)) = Cardinality(InHands(g, p)) + 1
      BY <3>1, CountsAreNat, FS_AddElement
    <3>3. Counted(t, p) = 1  BY <1>2, <2>1 DEF Counted
    <3> QED  BY <3>2, <3>3, CountsAreNat DEF UnderWay
  <2>2. CASE t.peer # p
    <3>1. InHands(h, p) = InHands(g, p)
      BY <1>1, <1>2, <2>2 DEF InHands
    <3>2. Counted(t, p) = 0  BY <2>2 DEF Counted
    <3> QED  BY <3>1, <3>2, CountsAreNat DEF UnderWay
  <2> QED  BY <2>1, <2>2
<1>4. Without(t, h, q, g, q)
  BY <1>2, <1>3 DEF Without
<1> QED  BY <1>1, <1>4 DEF g

-----------------------------------------------------------------------------
(* The count follows the tasks *)

\* A task that is over leaves the counts of the other peers right, and those
\* of a peer that is freed.
LEMMA OthersAfter ==
  ASSUME NEW t \in Tasks, NEW h, NEW q, NEW h2, NEW q2, Len(q) \in Nat, Len(q2) \in Nat,
         Without(t, h, q, h2, q2), NEW a, NEW p \in Peers, NEW x \in PeerRecs,
         CountOK(x, h, q, a, p), p # t.peer \/ x.mem # "live"
  PROVE  CountOK(x, h2, q2, a, p)
<1>1. UnderWay(h, q, p) \in Nat /\ UnderWay(h2, q2, p) \in Nat
  BY CountsAreNat
<1>2. /\ UnderWay(h, q, p) = UnderWay(h2, q2, p) + Counted(t, p)
      /\ HasDestroy(q, p) <=> HasDestroy(q2, p) \/ (t.peer = p /\ t.op = "destroy")
      /\ HasTask(q2, p) => HasTask(q, p)
  BY DEF Without
<1>3. Counted(t, p) \in {0, 1} /\ (p # t.peer => Counted(t, p) = 0)
  BY DEF Counted
<1>4. CASE p # t.peer
  BY <1>1, <1>2, <1>3, <1>4 DEF CountOK, Owned
<1>5. CASE x.mem # "live"
  BY <1>1, <1>2, <1>3, <1>5 DEF CountOK, Owned
<1> QED  BY <1>4, <1>5

\* A new task leaves the counts of the other peers right.
LEMMA OthersBefore ==
  ASSUME NEW t \in Tasks, NEW h, NEW q, NEW h2, NEW q2, Len(q) \in Nat, Len(q2) \in Nat,
         Without(t, h, q, h2, q2), NEW a, NEW b, NEW p \in Peers, NEW x \in PeerRecs,
         CountOK(x, h2, q2, a, p), p # t.peer, p \in b <=> p \in a
  PROVE  CountOK(x, h, q, b, p)
<1>1. UnderWay(h, q, p) \in Nat /\ UnderWay(h2, q2, p) \in Nat
  BY CountsAreNat
<1>2. /\ UnderWay(h, q, p) = UnderWay(h2, q2, p) + Counted(t, p)
      /\ HasDestroy(q, p) <=> HasDestroy(q2, p)
      /\ HasTask(q, p) => HasTask(q2, p)
  BY DEF Without
<1>3. Counted(t, p) = 0  BY DEF Counted
<1> QED  BY <1>1, <1>2, <1>3 DEF CountOK, Owned

\* The count of the peer whose task was run.
LEMMA OwnAfter ==
  ASSUME NEW t \in Tasks, NEW h, NEW q, NEW h2, NEW q2, Len(q) \in Nat, Len(q2) \in Nat,
         Without(t, h, q, h2, q2), NEW a, NEW x \in PeerRecs, NEW y \in PeerRecs,
         x.mem = "live", CountOK(x, h, q, a, t.peer),
         t.op = "destroy" => t.peer \in a /\ ~HasDestroy(q2, t.peer),
         \/ /\ y.mem = "live" /\ y.ref_count > 0
            /\ y.ref_count = x.ref_count - Given(t)
         \/ y.mem = "freed" /\ x.ref_count = 1 /\ Given(t) = 1
  PROVE  CountOK(y, h2, q2, a, t.peer)
<1> DEFINE p == t.peer
           u == UnderWay(h, q, p)
           v == UnderWay(h2, q2, p)
<1>0. p \in Peers  BY DEF Tasks
<1>1. u \in Nat /\ v \in Nat  BY CountsAreNat
<1>2. /\ u = v + Counted(t, p)
      /\ HasDestroy(q, p) <=> HasDestroy(q2, p) \/ t.op = "destroy"
  BY <1>0 DEF Without
<1>3. x.ref_count = u + IF Owned(q, a, p) THEN 1 ELSE 0
  BY DEF CountOK
<1>4. x.ref_count \in Nat /\ y.ref_count \in Nat  BY DEF PeerRecs
<1> HIDE DEF u, v
<1>5. CASE t.op = "init"
  <2>1. Given(t) = 0 /\ Counted(t, p) = 0 /\ (Owned(q, a, p) <=> Owned(q2, a, p))
    BY <1>2, <1>5 DEF Given, Counted, Changes, Owned
  <2>2. y.mem = "live" /\ y.ref_count > 0 /\ y.ref_count = x.ref_count
    BY <1>4, <2>1
  <2>3. y.ref_count = v + IF Owned(q2, a, p) THEN 1 ELSE 0
    BY <1>1, <1>2, <1>3, <2>1, <2>2
  <2> QED  BY <2>2, <2>3 DEF CountOK, v
<1>6. CASE t.op \in Changes
  <2>1. Given(t) = 1 /\ Counted(t, p) = 1 /\ (Owned(q, a, p) <=> Owned(q2, a, p))
    BY <1>2, <1>6 DEF Given, Counted, Changes, Owned
  <2>2. x.ref_count = v + 1 + IF Owned(q2, a, p) THEN 1 ELSE 0
    BY <1>1, <1>2, <1>3, <2>1
  <2>3. CASE y.mem = "live"
    <3>1. y.ref_count > 0 /\ y.ref_count = v + IF Owned(q2, a, p) THEN 1 ELSE 0
      BY <1>1, <1>4, <2>1, <2>2, <2>3
    <3> QED  BY <2>3, <3>1 DEF CountOK, v
  <2>4. CASE y.mem = "freed"
    <3>1. v = 0 /\ ~Owned(q2, a, p)
      BY <1>1, <1>4, <2>1, <2>2, <2>4
    <3> QED  BY <2>4, <3>1 DEF CountOK, v
  <2> QED  BY <2>3, <2>4
<1>7. CASE t.op = "destroy"
  <2>1. Given(t) = 1 /\ Counted(t, p) = 0 /\ Owned(q, a, p) /\ ~Owned(q2, a, p)
    BY <1>2, <1>7 DEF Given, Counted, Changes, Owned
  <2>2. x.ref_count = v + 1
    BY <1>1, <1>2, <1>3, <2>1
  <2>3. CASE y.mem = "live"
    <3>1. y.ref_count > 0 /\ y.ref_count = v
      BY <1>1, <1>4, <2>1, <2>2, <2>3
    <3>2. y.ref_count = v + IF Owned(q2, a, p) THEN 1 ELSE 0
      BY <1>1, <2>1, <3>1
    <3> QED  BY <2>3, <3>1, <3>2 DEF CountOK, v
  <2>4. CASE y.mem = "freed"
    <3>1. v = 0
      BY <1>1, <1>4, <2>1, <2>2, <2>4
    <3> QED  BY <2>1, <2>4, <3>1 DEF CountOK, v
  <2> QED  BY <2>3, <2>4
<1> QED  BY <1>5, <1>6, <1>7 DEF Tasks, Ops

\* A task that is run: only one that sets up events can find its peer freed,
\* and every count, every channel and the loop's hold on them stay right.
LEMMA TaskRuns ==
  ASSUME peer \in [Peers -> PeerRecs], chan \in [Peers -> Channels], fault = "none",
         NEW t \in Tasks, RunTask(t),
         NEW h, NEW q, NEW h2, NEW q2, Len(q) \in Nat, Len(q2) \in Nat,
         Without(t, h, q, h2, q2), NEW a,
         \A p \in Peers : CountOK(peer[p], h, q, a, p),
         \A p \in Peers : ChannelOK(peer[p], chan[p]),
         t.op = "destroy" => t.peer \in a /\ ~HasDestroy(q2, t.peer)
  PROVE  /\ peer' \in [Peers -> PeerRecs] /\ chan' \in [Peers -> Channels]
         /\ \A p \in Peers : CountOK(peer'[p], h2, q2, a, p)
         /\ \A p \in Peers : ChannelOK(peer'[p], chan'[p])
         /\ \A p \in Peers : Held(chan[p], chan'[p])
         /\ fault' \in {"none", "init"}
<1> DEFINE r == t.peer
           x == peer[r]
           c == chan[r]
           y == Apply(t, <<x, c>>)
<1>1. r \in Peers /\ x \in PeerRecs /\ c \in Channels /\ CountOK(x, h, q, a, r)
      /\ ChannelOK(x, c)
  BY DEF Tasks
<1>2. \A d : Held(d, d)  BY DEF Held
<1>3. CASE x.mem = "live"
  <2>1. peer' = [peer EXCEPT ![r] = y[1]] /\ chan' = [chan EXCEPT ![r] = y[2]]
        /\ fault' = fault
    BY <1>3 DEF RunTask
  <2>2. x.ref_count > 0  BY <1>1, <1>3 DEF CountOK
  <2> HIDE DEF r, x, c
  <2>3. /\ y[1] \in PeerRecs /\ y[2] \in Channels
        /\ ChannelOK(y[1], y[2]) /\ Held(c, y[2])
        /\ \/ /\ y[1].mem = "live" /\ y[1].ref_count > 0
              /\ y[1].ref_count = x.ref_count - Given(t)
           \/ y[1].mem = "freed" /\ x.ref_count = 1 /\ Given(t) = 1
    BY <1>1, <1>3, <2>2, Applying
  <2> HIDE DEF y
  <2>4. CountOK(y[1], h2, q2, a, r)
    BY <1>1, <1>3, <2>3, OwnAfter DEF r
  <2>5. /\ peer' \in [Peers -> PeerRecs] /\ chan' \in [Peers -> Channels]
        /\ peer'[r] = y[1] /\ chan'[r] = y[2]
        /\ \A p \in Peers \ {r} : peer'[p] = peer[p] /\ chan'[p] = chan[p]
    BY <1>1, <2>1, <2>3
  <2>6. \A p \in Peers \ {r} : CountOK(peer[p], h2, q2, a, p)
    BY OthersAfter DEF r
  <2>7. \A p \in Peers : CountOK(peer'[p], h2, q2, a, p)
    BY <2>4, <2>5, <2>6
  <2>8. \A p \in Peers : ChannelOK(peer'[p], chan'[p])
    BY <2>3, <2>5
  <2>9. \A p \in Peers : Held(chan[p], chan'[p])
    BY <1>2, <2>3, <2>5 DEF c
  <2> QED  BY <2>1, <2>5, <2>7, <2>8, <2>9
<1>4. CASE x.mem # "live"
  <2>1. peer' = peer /\ chan' = chan /\ fault' = t.op
    BY <1>4 DEF RunTask
  <2>2. t.op = "init"
    <3>1. UnderWay(h, q, r) = UnderWay(h2, q2, r) + Counted(t, r)
          /\ UnderWay(h, q, r) \in Nat /\ UnderWay(h2, q2, r) \in Nat
      BY <1>1, CountsAreNat DEF Without
    <3>2. x.mem \in {"none", "freed"}  BY <1>1, <1>4 DEF PeerRecs
    <3>3. UnderWay(h, q, r) = 0  BY <1>1, <3>2 DEF CountOK
    <3>4. t.op \notin Changes  BY <3>1, <3>3 DEF Counted
    <3>5. t.op # "destroy"
      <4>1. t.op = "destroy" => r \in a /\ HasDestroy(q, r)
        BY <1>1 DEF Without
      <4> QED  BY <1>1, <3>2, <4>1 DEF CountOK, Owned
    <3> QED  BY <3>4, <3>5 DEF Tasks, Ops
  <2>3. \A p \in Peers : CountOK(peer[p], h2, q2, a, p)
    BY <1>4, OthersAfter
  <2> QED  BY <1>2, <2>1, <2>2, <2>3
<1> QED  BY <1>3, <1>4

-----------------------------------------------------------------------------
(* The queue and the loop's hold from step to step *)

LEMMA PeerTypes ==
  ASSUME PeerInv
  PROVE  /\ peer \in [Peers -> PeerRecs] /\ chan \in [Peers -> Channels]
         /\ Queued \in Seq(Tasks) /\ Len(Queued) \in Nat
         /\ hand \in Hands /\ input \in [Peers -> Nat]
<1>1. tasks \in Seq(Tasks) /\ Batch \in Seq(Tasks)
  <2>1. CASE at.pc = "tasks"
    BY <2>1 DEF PeerInv, PlacesOK, Batch, Dispatching
  <2>2. CASE at.pc # "tasks"
    BY <2>2 DEF PeerInv, PlacesOK, Batch
  <2> QED  BY <2>1, <2>2
<1>2. Queued \in Seq(Tasks)
  BY <1>1 DEF Queued
<1> QED
  BY <1>2 DEF PeerInv, TypeOK, PlacesOK, PeerRecs, Hands

\* The task a thread submits is behind those under way.
LEMMA Submitted ==
  ASSUME PeerInv, NEW t \in Tasks, tasks' = Append(tasks, t), at' = at
  PROVE  Queued' = Append(Queued, t)
<1>1. tasks \in Seq(Tasks) /\ Batch \in Seq(Tasks)
  <2>1. CASE at.pc = "tasks"
    BY <2>1 DEF PeerInv, PlacesOK, Batch, Dispatching
  <2>2. CASE at.pc # "tasks"
    BY <2>2 DEF PeerInv, PlacesOK, Batch
  <2> QED  BY <2>1, <2>2
<1>2. Batch' = Batch  BY DEF Batch
<1> QED  BY <1>1, <1>2 DEF Queued

\* Adding a task keeps OneDestroy.
LEMMA DestroyAdded ==
  ASSUME NEW q \in Seq(Tasks), NEW t \in Tasks, NEW a, NEW b, OneDestroy(q, a), a \subseteq b,
         t.op = "destroy" => t.peer \notin a /\ t.peer \in b
  PROVE  OneDestroy(Append(q, t), b)
<1> DEFINE r == Append(q, t)
           n == Len(q) + 1
<1>1. /\ Len(q) \in Nat /\ Len(r) = n /\ r[n] = t
      /\ \A i \in 1..Len(q) : r[i] = q[i]
  OBVIOUS
<1>2. 1..n = (1..Len(q)) \cup {n}  BY <1>1
<1>3. t.op = "destroy" => ~HasDestroy(q, t.peer)
  BY DEF OneDestroy, Tasks
<1> HIDE DEF r, n
<1>4. \A p \in Peers : HasDestroy(r, p) => p \in b
  BY <1>1, <1>2 DEF OneDestroy, HasDestroy
<1>5. \A i, j \in 1..Len(r) :
        r[i].op = "destroy" /\ r[j].op = "destroy" /\ r[i].peer = r[j].peer => i = j
  BY <1>1, <1>2, <1>3 DEF OneDestroy, HasDestroy
<1> QED  BY <1>4, <1>5 DEF OneDestroy, r

\* Taking the first task keeps OneDestroy, and its peer has no other destruction.
LEMMA DestroyTaken ==
  ASSUME NEW q \in Seq(Tasks), q # <<>>, NEW a, OneDestroy(q, a)
  PROVE  /\ OneDestroy(Tail(q), a)
         /\ Head(q).op = "destroy" => Head(q).peer \in a /\ ~HasDestroy(Tail(q), Head(q).peer)
<1> DEFINE r == Tail(q)
           t == Head(q)
<1>1. /\ Len(q) \in Nat /\ Len(q) > 0 /\ Len(r) = Len(q) - 1
      /\ q[1] = t /\ t \in Tasks /\ 1 \in 1..Len(q)
      /\ \A i \in 1..Len(r) : r[i] = q[i + 1]
  OBVIOUS
<1> HIDE DEF r, t
<1>2. \A i \in 1..Len(r) : i + 1 \in 1..Len(q) /\ i + 1 # 1 /\ r[i] = q[i + 1]
  BY <1>1
<1>3. \A p \in Peers : HasDestroy(r, p) => p \in a
  BY <1>2 DEF OneDestroy, HasDestroy
<1>4. ASSUME NEW i \in 1..Len(r), NEW j \in 1..Len(r),
             r[i].op = "destroy", r[j].op = "destroy", r[i].peer = r[j].peer
      PROVE  i = j
  <2>1. i + 1 = j + 1  BY <1>2, <1>4 DEF OneDestroy
  <2> QED  BY <2>1
<1>5. t.op = "destroy" => t.peer \in a
  BY <1>1 DEF OneDestroy, HasDestroy, Tasks
<1>6. t.op = "destroy" => ~HasDestroy(r, t.peer)
  BY <1>1, <1>2 DEF OneDestroy, HasDestroy
<1> QED  BY <1>3, <1>4, <1>5, <1>6 DEF OneDestroy, r, t

\* What the loop holds stays held when only the changes of Held are made.
LEMMA HoldKept ==
  ASSUME PeerInv, round' = round, at' = at \/ ~InCallback',
         \A p \in Peers : Held(chan[p], chan'[p])
  PROVE  HeldOK'
<1>1. \A p \in round \cap Peers : chan'[p].mem = "live" /\ chan'[p].is_active
  BY DEF PeerInv, HeldOK, Held
<1>2. ASSUME at' = at, InCallback
      PROVE  chan'[at.who].mem = "live" /\ chan'[at.who].is_in_callback
             /\ at.who \notin round
  <2>1. at.who \in Peers
    BY <1>2 DEF PeerInv, PlacesOK, InCallback, Dispatching
  <2> QED  BY <1>2, <2>1 DEF PeerInv, HeldOK, Held
<1> QED  BY <1>1, <1>2 DEF HeldOK, InCallback

-----------------------------------------------------------------------------
(* The steps *)

\* The parts of the invariant that most steps need, one by one.
LEMMA Assembled ==
  ASSUME PeerInv, run' \in BOOLEAN,
         peer' \in [Peers -> PeerRecs], chan' \in [Peers -> Channels],
         round' \subseteq Peers \cup {Wakeup}, input' \in [Peers -> Nat],
         PlacesOK',
         \A p \in Peers : CountOK(peer'[p], hand', Queued', asked', p),
         OneDestroy(Queued', asked'),
         \A p \in Peers : ChannelOK(peer'[p], chan'[p]),
         HeldOK', KnownFaults'
  PROVE  PeerInv'
<1>1. at'.pc \in {"dispatch", "tasks", "write", "message"}
  BY DEF PlacesOK, Dispatching
<1> QED  BY <1>1 DEF PeerInv, TypeOK, PeerRecs

\* Another thread's call of loop_run_inloop, from the counts that include t.
LEMMA InLoop ==
  ASSUME PeerInv, fault = "none", NEW t \in Tasks, RunInLoop(t),
         UNCHANGED <<run, round, at, input>>,
         hand' \in Hands, asked' \subseteq Peers,
         \A p \in Peers : CountOK(peer[p], hand', Append(Queued, t), asked', p),
         OneDestroy(Queued, asked'), OneDestroy(Append(Queued, t), asked')
  PROVE  PeerInv'
<1> DEFINE q == Queued
           r == Append(q, t)
<1>1. /\ peer \in [Peers -> PeerRecs] /\ chan \in [Peers -> Channels]
      /\ q \in Seq(Tasks) /\ Len(q) \in Nat
  BY PeerTypes
<1>2. r \in Seq(Tasks) /\ Len(r) \in Nat /\ Without(t, hand', r, hand', q)
  BY <1>1, QueueAppend
<1>3. run' \in BOOLEAN /\ round' \subseteq Peers \cup {Wakeup} /\ input' \in [Peers -> Nat]
  BY DEF PeerInv, TypeOK
<1>4. CASE run
  <2>1. tasks' = Append(tasks, t) /\ UNCHANGED <<peer, chan, fault>>
    BY <1>4 DEF RunInLoop
  <2>2. Queued' = r  BY <2>1, Submitted
  <2>3. PlacesOK'
    <3>1. tasks \in Seq(Tasks)  BY DEF PeerInv, PlacesOK
    <3>2. tasks' \in Seq(Tasks) /\ tasks' # <<>>  BY <2>1, <3>1
    <3> QED  BY <3>2 DEF PeerInv, PlacesOK, Hands
  <2>4. HeldOK'
    <3>1. \A p \in Peers : Held(chan[p], chan'[p])  BY <2>1 DEF Held
    <3> QED  BY <3>1, HoldKept
  <2>5. KnownFaults'  BY <2>1 DEF KnownFaults
  <2>6. \A p \in Peers : ChannelOK(peer'[p], chan'[p])  BY <2>1 DEF PeerInv
  <2> HIDE DEF q, r
  <2> QED  BY <1>1, <1>3, <2>1, <2>2, <2>3, <2>4, <2>5, <2>6, Assembled DEF q, r
<1>5. CASE ~run
  <2>1. RunTask(t) /\ tasks' = tasks
    BY <1>5 DEF RunInLoop
  <2>2. Queued' = q  BY <2>1 DEF Queued, Batch
  <2>3. t.op = "destroy" => t.peer \in asked' /\ ~HasDestroy(q, t.peer)
    <3> DEFINE n == Len(q) + 1
    <3>1. r[n] = t /\ Len(r) = n /\ n \in 1..Len(r) /\ \A i \in 1..Len(q) : r[i] = q[i] /\ i # n /\ i \in 1..Len(r)
      BY <1>1
    <3>2. t.peer \in Peers  BY DEF Tasks
    <3> HIDE DEF n, q, r
    <3> QED  BY <3>1, <3>2 DEF OneDestroy, HasDestroy, r, q
  <2>4. \A p \in Peers : ChannelOK(peer[p], chan[p])  BY DEF PeerInv
  <2> HIDE DEF q, r
  <2>5. /\ peer' \in [Peers -> PeerRecs] /\ chan' \in [Peers -> Channels]
        /\ \A p \in Peers : CountOK(peer'[p], hand', q, asked', p)
        /\ \A p \in Peers : ChannelOK(peer'[p], chan'[p])
        /\ \A p \in Peers : Held(chan[p], chan'[p])
        /\ fault' \in {"none", "init"}
    BY <1>1, <1>2, <2>1, <2>3, <2>4, TaskRuns DEF q, r
  <2>6. PlacesOK'  BY <2>1 DEF PeerInv, PlacesOK, Hands
  <2>7. HeldOK'  BY <2>5, HoldKept
  <2>8. KnownFaults'  BY <2>5 DEF KnownFaults
  <2> QED  BY <1>3, <2>2, <2>5, <2>6, <2>7, <2>8, Assembled DEF q
<1> QED  BY <1>4, <1>5

\* A client hands over the change it has counted.
LEMMA ClientSubmitStep ==
  ASSUME PeerInv, fault = "none", NEW c \in Clients, ClientSubmit(c)
  PROVE  PeerInv'
<1> DEFINE t == hand[c]
           q == Queued
<1>1. /\ peer \in [Peers -> PeerRecs] /\ hand \in Hands
      /\ q \in Seq(Tasks) /\ Len(q) \in Nat
  BY PeerTypes
<1>2. t \in ChangeTasks  BY <1>1 DEF ClientSubmit, Hands
<1>3. t \in Tasks /\ t.op \in Changes /\ t.op # "destroy" /\ t.peer \in Peers
  BY <1>2, ChangesAreTasks DEF Changes
<1>4. hand' = [hand EXCEPT ![c] = NoTask] /\ RunInLoop(t)
      /\ UNCHANGED <<run, round, at, input, asked>>
  BY DEF ClientSubmit, history
<1> HIDE DEF q, t
<1>5. hand' \in Hands /\ Without(t, hand, q, hand', q)
  BY <1>1, <1>2, <1>4, HandChanges DEF t
<1>6. Append(q, t) \in Seq(Tasks) /\ Without(t, hand', Append(q, t), hand', q)
  BY <1>1, <1>3, QueueAppend
<1>7. ASSUME NEW p \in Peers
      PROVE  CountOK(peer[p], hand', Append(q, t), asked', p)
  <2>1. CountOK(peer[p], hand, q, asked, p)  BY DEF PeerInv, q
  <2>2. /\ UnderWay(hand, q, p) = UnderWay(hand', q, p) + Counted(t, p)
        /\ UnderWay(hand', Append(q, t), p) = UnderWay(hand', q, p) + Counted(t, p)
        /\ HasDestroy(Append(q, t), p) <=> HasDestroy(q, p)
        /\ HasTask(Append(q, t), p) => HasTask(q, p) \/ t.peer = p
    BY <1>3, <1>5, <1>6 DEF Without
  <2>3. UnderWay(hand, q, p) \in Nat /\ UnderWay(hand', q, p) \in Nat
    BY <1>1, CountsAreNat
  <2>4. UnderWay(hand, q, p) = 0 => t.peer # p
    BY <1>3, <2>2, <2>3 DEF Counted
  <2> QED  BY <1>4, <2>1, <2>2, <2>4 DEF CountOK, Owned
<1>8. OneDestroy(q, asked') /\ OneDestroy(Append(q, t), asked')
  <2>1. OneDestroy(q, asked)  BY DEF PeerInv, q
  <2>2. asked' = asked  BY <1>4
  <2> QED  BY <1>1, <1>3, <2>1, <2>2, DestroyAdded
<1>9. asked' \subseteq Peers  BY <1>4 DEF PeerInv, PlacesOK
<1> QED  BY <1>3, <1>4, <1>5, <1>7, <1>8, <1>9, InLoop DEF q

\* The destruction of a peer joins the tasks: the owner's reference stays.
LEMMA DestroyAsked ==
  ASSUME PeerInv, NEW p \in Peers, Usable(p)
  PROVE  LET t == Task("destroy", p, FALSE)
             a == asked \cup {p}
         IN  /\ t \in Tasks /\ t.peer = p /\ t.op = "destroy" /\ a \subseteq Peers
             /\ \A r \in Peers : CountOK(peer[r], hand, Append(Queued, t), a, r)
             /\ OneDestroy(Queued, a) /\ OneDestroy(Append(Queued, t), a)
             /\ ~HasDestroy(Queued, p)
<1> DEFINE t == Task("destroy", p, FALSE)
           a == asked \cup {p}
           q == Queued
<1>1. peer \in [Peers -> PeerRecs] /\ q \in Seq(Tasks) /\ Len(q) \in Nat
  BY PeerTypes
<1>2. t \in Tasks /\ t.peer = p /\ t.op = "destroy"
  BY DEF Task, Tasks, Ops
<1>3. a \subseteq Peers /\ asked \subseteq a /\ p \notin asked /\ p \in a
      /\ \A r \in Peers \ {p} : r \in a <=> r \in asked
  BY DEF PeerInv, PlacesOK, Usable
<1>4. OneDestroy(q, asked) /\ \A r \in Peers : CountOK(peer[r], hand, q, asked, r)
  BY DEF PeerInv
<1> HIDE DEF t, a, q
<1>5. Append(q, t) \in Seq(Tasks) /\ Without(t, hand, Append(q, t), hand, q)
  BY <1>1, <1>2, QueueAppend
<1>6. OneDestroy(q, a) /\ OneDestroy(Append(q, t), a)
  BY <1>1, <1>2, <1>3, <1>4, DestroyAdded DEF OneDestroy
<1>7. ASSUME NEW r \in Peers, r # p
      PROVE  CountOK(peer[r], hand, Append(q, t), a, r)
  <2>1. Len(Append(q, t)) \in Nat /\ peer[r] \in PeerRecs /\ (r \in a <=> r \in asked)
    BY <1>1, <1>3, <1>5, <1>7
  <2> QED  BY <1>1, <1>2, <1>4, <1>5, <1>7, <2>1, OthersBefore
<1>8. CountOK(peer[p], hand, Append(q, t), a, p)
  <2>1. peer[p].mem = "live"  BY DEF Usable
  <2>2. UnderWay(hand, Append(q, t), p) = UnderWay(hand, q, p) + Counted(t, p)
        /\ HasDestroy(Append(q, t), p)
    BY <1>2, <1>5 DEF Without
  <2>3. Counted(t, p) = 0  BY <1>2 DEF Counted, Changes
  <2>4. UnderWay(hand, q, p) \in Nat  BY <1>1, CountsAreNat
  <2>5. Owned(q, asked, p) /\ Owned(Append(q, t), a, p)
    BY <1>3, <2>2 DEF Owned
  <2>6. UnderWay(hand, Append(q, t), p) = UnderWay(hand, q, p)
    BY <2>2, <2>3, <2>4
  <2> QED  BY <1>4, <2>1, <2>5, <2>6 DEF CountOK
<1>9. ~HasDestroy(q, p)  BY <1>3, <1>4 DEF OneDestroy
<1> QED  BY <1>2, <1>3, <1>6, <1>7, <1>8, <1>9 DEF t, a, q

LEMMA ClientDestroyStep ==
  ASSUME PeerInv, fault = "none", NEW c \in Clients, NEW p \in Peers, ClientDestroy(c, p)
  PROVE  PeerInv'
<1> DEFINE t == Task("destroy", p, FALSE)
<1>1. Usable(p) /\ asked' = asked \cup {p} /\ RunInLoop(t)
      /\ UNCHANGED <<run, hand, round, at, input>>
  BY DEF ClientDestroy
<1>2. hand' \in Hands /\ hand' = hand  BY <1>1, PeerTypes
<1>3. /\ t \in Tasks /\ asked' \subseteq Peers
      /\ \A r \in Peers : CountOK(peer[r], hand', Append(Queued, t), asked', r)
      /\ OneDestroy(Queued, asked') /\ OneDestroy(Append(Queued, t), asked')
  BY <1>1, <1>2, DestroyAsked
<1> HIDE DEF t
<1> QED  BY <1>1, <1>2, <1>3, InLoop

LEMMA CallbackDestroyStep ==
  ASSUME PeerInv, fault = "none", NEW p \in Peers, CallbackDestroy(p)
  PROVE  PeerInv'
<1> DEFINE t == Task("destroy", p, FALSE)
           q == Queued
<1>1. Usable(p) /\ asked' = asked \cup {p} /\ RunTask(t)
      /\ UNCHANGED <<run, tasks, hand, round, at, input>>
  BY DEF CallbackDestroy
<1>2. /\ peer \in [Peers -> PeerRecs] /\ chan \in [Peers -> Channels] /\ hand \in Hands
      /\ q \in Seq(Tasks) /\ Len(q) \in Nat
  BY PeerTypes
<1>3. /\ t \in Tasks /\ t.peer = p /\ t.op = "destroy" /\ asked' \subseteq Peers
      /\ \A r \in Peers : CountOK(peer[r], hand, Append(q, t), asked', r)
      /\ OneDestroy(q, asked') /\ ~HasDestroy(q, p)
  BY <1>1, DestroyAsked
<1>4. Queued' = q  BY <1>1 DEF Queued, Batch
<1>5. \A r \in Peers : ChannelOK(peer[r], chan[r])  BY DEF PeerInv
<1> HIDE DEF t, q
<1>6. Append(q, t) \in Seq(Tasks) /\ Len(Append(q, t)) \in Nat
      /\ Without(t, hand, Append(q, t), hand, q)
  BY <1>2, <1>3, QueueAppend
<1>7. p \in asked'  BY <1>1
<1>8. /\ peer' \in [Peers -> PeerRecs] /\ chan' \in [Peers -> Channels]
      /\ \A r \in Peers : CountOK(peer'[r], hand, q, asked', r)
      /\ \A r \in Peers : ChannelOK(peer'[r], chan'[r])
      /\ \A r \in Peers : Held(chan[r], chan'[r])
      /\ fault' \in {"none", "init"}
  BY <1>1, <1>2, <1>3, <1>5, <1>6, <1>7, TaskRuns
<1>9. PlacesOK'  BY <1>1, <1>3 DEF PeerInv, PlacesOK
<1>10. HeldOK'  BY <1>1, <1>8, HoldKept
<1>11. KnownFaults'  BY <1>8 DEF KnownFaults
<1>12. run' \in BOOLEAN /\ round' \subseteq Peers \cup {Wakeup} /\ input' \in [Peers -> Nat]
  BY <1>1 DEF PeerInv, TypeOK
<1>13. hand' = hand  BY <1>1
<1> QED  BY <1>3, <1>4, <1>8, <1>9, <1>10, <1>11, <1>12, <1>13, Assembled

LEMMA RestOfBatch ==
  ASSUME NEW s \in Seq(Tasks), s # <<>>, NEW u \in Seq(Tasks)
  PROVE  /\ Tail(s) \in Seq(Tasks) /\ Len(Tail(s)) \in Nat
         /\ Len(s) = 1 => Tail(s) \o u = u
         /\ Len(s) # 1 => Tail(s) # <<>>
<1>1. Tail(s) \in Seq(Tasks) /\ Len(Tail(s)) \in Nat /\ Len(Tail(s)) = Len(s) - 1
      /\ Len(s) \in Nat
  OBVIOUS
<1>2. ASSUME Len(s) = 1 PROVE Tail(s) \o u = u
  <2> DEFINE r == Tail(s)
  <2>1. r \in Seq(Tasks) /\ Len(r) = 0  BY <1>1, <1>2
  <2> HIDE DEF r
  <2>2. r = <<>>  BY <2>1
  <2>3. <<>> \o u = u  BY ConcatEmptySeq
  <2> QED  BY <2>2, <2>3 DEF r
<1>3. ASSUME Len(s) # 1, Tail(s) = <<>> PROVE FALSE
  <2> DEFINE r == Tail(s)
             n == Len(s)
  <2>1. r = <<>> /\ Len(r) = n - 1 /\ n \in Nat /\ n # 1  BY <1>1, <1>3
  <2> HIDE DEF r, n
  <2> QED  BY <2>1
<1> QED  BY <1>1, <1>2, <1>3

\* The loop's thread runs the first task of its batch.
LEMMA LoopTaskStep ==
  ASSUME PeerInv, fault = "none", LoopTask
  PROVE  PeerInv'
<1> DEFINE q == Queued
           t == Head(q)
<1>1. at.pc = "tasks" /\ RunTask(Head(at.batch))
      /\ at' = (IF Len(at.batch) = 1 THEN Dispatching ELSE [at EXCEPT !.batch = Tail(@)])
      /\ UNCHANGED <<run, tasks, hand, round, input, asked>>
  BY DEF LoopTask, history
<1>2. /\ peer \in [Peers -> PeerRecs] /\ chan \in [Peers -> Channels] /\ hand \in Hands
      /\ q \in Seq(Tasks) /\ Len(q) \in Nat
  BY PeerTypes
<1>3. at \in [pc : {"tasks"}, batch : Seq(Tasks)] /\ at.batch # <<>> /\ tasks \in Seq(Tasks)
  BY <1>1 DEF PeerInv, PlacesOK, Dispatching
<1>4. q = at.batch \o tasks  BY <1>1 DEF Queued, Batch
<1>5. q # <<>> /\ Head(q) = Head(at.batch) /\ Tail(q) = Tail(at.batch) \o tasks
  BY <1>3, <1>4
<1>6. Queued' = Tail(q) /\ ~InCallback'
      /\ (at' = Dispatching \/ (at' \in [pc : {"tasks"}, batch : Seq(Tasks)] /\ at'.batch # <<>>))
  <2>1. CASE Len(at.batch) = 1
    <3>1. at' = Dispatching /\ at'.pc = "dispatch"  BY <1>1, <2>1 DEF Dispatching
    <3>2. at.batch \in Seq(Tasks)  BY <1>3
    <3>3. Tail(q) = tasks  BY <1>3, <1>5, <2>1, <3>2, RestOfBatch
    <3> QED  BY <1>1, <3>1, <3>3, <1>3 DEF Queued, Batch, InCallback
  <2>2. CASE Len(at.batch) # 1
    <3>1. at' = [at EXCEPT !.batch = Tail(at.batch)]  BY <1>1, <2>2
    <3>2. Tail(at.batch) \in Seq(Tasks) /\ Tail(at.batch) # <<>>
      <4>1. at.batch \in Seq(Tasks)  BY <1>3
      <4> QED  BY <1>3, <2>2, <4>1, RestOfBatch
    <3>3. at' \in [pc : {"tasks"}, batch : Seq(Tasks)] /\ at'.batch = Tail(at.batch)
          /\ at'.pc = "tasks"
      BY <1>3, <3>1, <3>2
    <3> QED  BY <1>1, <1>5, <3>2, <3>3 DEF Queued, Batch, InCallback
  <2> QED  BY <2>1, <2>2
<1>7. \A r \in Peers : CountOK(peer[r], hand, q, asked, r) /\ ChannelOK(peer[r], chan[r])
  BY DEF PeerInv
<1>8. OneDestroy(q, asked)  BY DEF PeerInv
<1> HIDE DEF q
<1>9. Tail(q) \in Seq(Tasks) /\ t \in Tasks /\ Without(t, hand, q, hand, Tail(q))
      /\ Len(Tail(q)) \in Nat
  BY <1>2, <1>5, QueueTail, RestOfBatch
<1>10. /\ OneDestroy(Tail(q), asked)
       /\ t.op = "destroy" => t.peer \in asked /\ ~HasDestroy(Tail(q), t.peer)
  BY <1>2, <1>5, <1>8, DestroyTaken
<1>11. RunTask(t)  BY <1>1, <1>5
<1> HIDE DEF t
<1>12. /\ peer' \in [Peers -> PeerRecs] /\ chan' \in [Peers -> Channels]
       /\ \A r \in Peers : CountOK(peer'[r], hand, Tail(q), asked, r)
       /\ \A r \in Peers : ChannelOK(peer'[r], chan'[r])
       /\ \A r \in Peers : Held(chan[r], chan'[r])
       /\ fault' \in {"none", "init"}
  BY <1>2, <1>7, <1>9, <1>10, <1>11, TaskRuns
<1>13. PlacesOK'  BY <1>1, <1>6 DEF PeerInv, PlacesOK
<1>14. HeldOK'  BY <1>1, <1>6, <1>12, HoldKept
<1>15. KnownFaults'  BY <1>12 DEF KnownFaults
<1>16. run' \in BOOLEAN /\ round' \subseteq Peers \cup {Wakeup} /\ input' \in [Peers -> Nat]
  BY <1>1 DEF PeerInv, TypeOK
<1>17. hand' = hand /\ asked' = asked  BY <1>1
<1> QED  BY <1>6, <1>10, <1>12, <1>13, <1>14, <1>15, <1>16, <1>17, Assembled

\* udp_peer_new: the peer has its owner's reference, its channel is in use.
LEMMA Fresh ==
  ASSUME NEW p \in Peers, NEW w \in BOOLEAN
  PROVE  LET x == New(p, w)
             y == InitEvent(<<x, ChannelNew>>)
         IN  /\ x \in PeerRecs /\ x.mem = "live" /\ x.ref_count = 1
             /\ ChannelNew \in Channels /\ ChannelOK(x, ChannelNew)
             /\ y[1] = x /\ y[2] \in Channels /\ ChannelOK(x, y[2])
<1> DEFINE x == New(p, w)
           e == IF x.writecb THEN {"IN", "OUT"} ELSE {"IN"}
<1>1. x \in PeerRecs /\ x.mem = "live" /\ x.ref_count = 1
  BY DEF New, PeerRecs
<1>2. ChannelNew \in Channels /\ InUse(ChannelNew)
  <2>1. ChannelNew.event = {} /\ ChannelNew.is_monitored = FALSE /\ ChannelNew.epoll = {}
        /\ ChannelNew.mem = "live" /\ ChannelNew.is_alive
    BY DEF ChannelNew, NoChannel
  <2>2. ChannelNew \in Channels  BY DEF ChannelNew, NoChannel, Channels
  <2> QED  BY <2>1, <2>2 DEF InUse
<1>3. InitEvent(<<x, ChannelNew>>) = <<x, SetEvent(ChannelNew, e)>>
  BY DEF InitEvent
<1>4. e \in SUBSET Events  BY DEF Events
<1>5. \A d : InUse(d) => ChannelOK(x, d)
  BY <1>1 DEF InUse, ChannelOK
<1> HIDE DEF x, e
<1>6. SetEvent(ChannelNew, e) \in Channels /\ InUse(SetEvent(ChannelNew, e))
  BY <1>2, <1>4, Switching
<1> QED  BY <1>1, <1>2, <1>3, <1>5, <1>6 DEF x

\* A peer that was created, its channel c, and the task that may come with it.
LEMMA Created ==
  ASSUME PeerInv, fault = "none", NEW p \in Peers, NEW w \in BOOLEAN,
         peer[p].mem = "none", NEW c \in Channels, ChannelOK(New(p, w), c),
         peer' = [peer EXCEPT ![p] = New(p, w)], chan' = [chan EXCEPT ![p] = c],
         tasks' = tasks \/ tasks' = Append(tasks, Task("init", p, w)),
         UNCHANGED <<run, hand, round, at, input, asked, fault>>
  PROVE  PeerInv'
<1> DEFINE q == Queued
           t == Task("init", p, w)
           x == New(p, w)
<1>1. /\ peer \in [Peers -> PeerRecs] /\ chan \in [Peers -> Channels] /\ hand \in Hands
      /\ q \in Seq(Tasks) /\ Len(q) \in Nat
  BY PeerTypes
<1>2. x \in PeerRecs /\ x.mem = "live" /\ x.ref_count = 1  BY Fresh
<1>3. t \in Tasks /\ t.op = "init" /\ t.peer = p  BY DEF Task, Tasks, Ops
<1>4. OneDestroy(q, asked) /\ \A r \in Peers : CountOK(peer[r], hand, q, asked, r)
                                               /\ ChannelOK(peer[r], chan[r])
  BY DEF PeerInv
<1>5. /\ peer' \in [Peers -> PeerRecs] /\ chan' \in [Peers -> Channels]
      /\ peer'[p] = x /\ chan'[p] = c
      /\ \A r \in Peers \ {p} : peer'[r] = peer[r] /\ chan'[r] = chan[r]
  BY <1>1, <1>2
<1>6. \A r \in Peers : ChannelOK(peer'[r], chan'[r])
  BY <1>4, <1>5
<1>7. \A r \in Peers : Held(chan[r], chan'[r])
  <2>1. chan[p].mem = "none"  BY <1>4 DEF ChannelOK, NoChannel
  <2> QED  BY <1>5, <2>1 DEF Held
<1>8. HeldOK'  BY <1>7, HoldKept
<1>9. KnownFaults'  BY DEF KnownFaults
<1>10. run' \in BOOLEAN /\ round' \subseteq Peers \cup {Wakeup} /\ input' \in [Peers -> Nat]
  BY DEF PeerInv, TypeOK
<1>11. p \notin asked /\ UnderWay(hand, q, p) = 0  BY <1>4 DEF CountOK
<1> HIDE DEF q, t, x
<1>12. CASE tasks' = tasks
  <2>1. Queued' = q  BY <1>12 DEF Queued, Batch, q
  <2>2. CountOK(x, hand, q, asked, p)
    BY <1>2, <1>11 DEF CountOK, Owned
  <2>3. \A r \in Peers : CountOK(peer'[r], hand', Queued', asked', r)
    BY <1>4, <1>5, <2>1, <2>2
  <2>4. OneDestroy(Queued', asked')  BY <1>4, <2>1
  <2>5. PlacesOK'  BY <1>12 DEF PeerInv, PlacesOK
  <2> QED  BY <1>5, <1>6, <1>8, <1>9, <1>10, <2>3, <2>4, <2>5, Assembled
<1>13. CASE tasks' = Append(tasks, t)
  <2>1. Queued' = Append(q, t)  BY <1>3, <1>13, Submitted DEF q
  <2>2. Append(q, t) \in Seq(Tasks) /\ Len(Append(q, t)) \in Nat
        /\ Without(t, hand, Append(q, t), hand, q)
    BY <1>1, <1>3, QueueAppend
  <2>3. CountOK(x, hand, Append(q, t), asked, p)
    <3>1. UnderWay(hand, Append(q, t), p) = UnderWay(hand, q, p) + Counted(t, p)
      BY <2>2 DEF Without
    <3>2. Counted(t, p) = 0  BY <1>3 DEF Counted, Changes
    <3>3. UnderWay(hand, Append(q, t), p) = 0  BY <1>11, <3>1, <3>2
    <3> QED  BY <1>2, <1>11, <3>3 DEF CountOK, Owned
  <2>4. ASSUME NEW r \in Peers, r # p
        PROVE  CountOK(peer[r], hand, Append(q, t), asked, r)
    BY <1>1, <1>3, <1>4, <2>2, <2>4, OthersBefore
  <2>5. \A r \in Peers : CountOK(peer'[r], hand', Queued', asked', r)
    BY <1>5, <2>1, <2>3, <2>4
  <2>6. OneDestroy(Queued', asked')
    BY <1>1, <1>3, <1>4, <2>1, DestroyAdded
  <2>7. PlacesOK'
    <3>1. tasks \in Seq(Tasks)  BY DEF PeerInv, PlacesOK
    <3>2. tasks' \in Seq(Tasks) /\ tasks' # <<>>  BY <1>3, <1>13, <3>1
    <3> QED  BY <3>2 DEF PeerInv, PlacesOK
  <2> QED  BY <1>5, <1>6, <1>8, <1>9, <1>10, <2>5, <2>6, <2>7, Assembled
<1> QED  BY <1>12, <1>13 DEF t

LEMMA ClientNewStep ==
  ASSUME PeerInv, fault = "none", NEW b \in Clients, NEW p \in Peers, NEW w \in BOOLEAN,
         ClientNew(b, p, w)
  PROVE  PeerInv'
<1> DEFINE fresh == <<New(p, w), ChannelNew>>
           x     == IF run THEN fresh ELSE InitEvent(fresh)
<1>1. /\ peer[p].mem = "none"
      /\ peer' = [peer EXCEPT ![p] = x[1]] /\ chan' = [chan EXCEPT ![p] = x[2]]
      /\ tasks' = (IF run THEN Append(tasks, Task("init", p, w)) ELSE tasks)
      /\ UNCHANGED <<run, hand, round, at, input, asked, fault>>
  BY DEF ClientNew, history
<1>2. x[1] = New(p, w) /\ x[2] \in Channels /\ ChannelOK(New(p, w), x[2])
  BY Fresh
<1>3. tasks' = tasks \/ tasks' = Append(tasks, Task("init", p, w))  BY <1>1
<1> HIDE DEF x
<1> QED  BY <1>1, <1>2, <1>3, Created

LEMMA CallbackNewStep ==
  ASSUME PeerInv, fault = "none", NEW p \in Peers, NEW w \in BOOLEAN, CallbackNew(p, w)
  PROVE  PeerInv'
<1> DEFINE x == InitEvent(<<New(p, w), ChannelNew>>)
<1>1. /\ peer[p].mem = "none"
      /\ peer' = [peer EXCEPT ![p] = x[1]] /\ chan' = [chan EXCEPT ![p] = x[2]]
      /\ UNCHANGED <<run, tasks, hand, round, at, input, asked, fault>>
  BY DEF CallbackNew, history
<1>2. x[1] = New(p, w) /\ x[2] \in Channels /\ ChannelOK(New(p, w), x[2])
  BY Fresh
<1> HIDE DEF x
<1> QED  BY <1>1, <1>2, Created

\* atomic_inc counts the change that is about to be under way.
LEMMA Counting ==
  ASSUME NEW t \in Tasks, t.op \in Changes, NEW p \in Peers, t.peer = p,
         NEW h, NEW q, NEW h2, NEW q2, Len(q) \in Nat, Len(q2) \in Nat,
         Without(t, h, q, h2, q2), NEW a, NEW x \in PeerRecs, x.mem = "live",
         CountOK(x, h2, q2, a, p), NEW y \in PeerRecs, y.mem = "live",
         y.ref_count = x.ref_count + 1
  PROVE  y.ref_count > 0 /\ CountOK(y, h, q, a, p)
<1>1. y.ref_count > 0  BY DEF PeerRecs
<1>2. UnderWay(h, q, p) = UnderWay(h2, q2, p) + Counted(t, p)
      /\ UnderWay(h, q, p) \in Nat /\ UnderWay(h2, q2, p) \in Nat
  BY CountsAreNat DEF Without
<1>3. Counted(t, p) = 1  BY DEF Counted
<1>4. Owned(q, a, p) <=> Owned(q2, a, p)
  BY DEF Without, Owned, Changes
<1>5. x.ref_count = UnderWay(h2, q2, p) + IF Owned(q2, a, p) THEN 1 ELSE 0
  BY DEF CountOK
<1>6. y.ref_count = UnderWay(h, q, p) + IF Owned(q, a, p) THEN 1 ELSE 0
  BY <1>1, <1>2, <1>3, <1>4, <1>5
<1>7. CountOK(y, h, q, a, p)
  BY <1>1, <1>6 DEF CountOK
<1> QED  BY <1>1, <1>7

LEMMA ClientCountStep ==
  ASSUME PeerInv, fault = "none", NEW c \in Clients, NEW p \in Peers,
         NEW op \in Changes, NEW cb \in BOOLEAN, ClientCount(c, p, op, cb)
  PROVE  PeerInv'
<1> DEFINE t == Task(op, p, cb)
           q == Queued
           x == peer[p]
           y == [x EXCEPT !.ref_count = @ + 1]
<1>1. /\ Usable(p) /\ hand[c] = NoTask
      /\ peer' = [peer EXCEPT ![p].ref_count = @ + 1]
      /\ hand' = [hand EXCEPT ![c] = t]
      /\ UNCHANGED <<run, chan, tasks, round, at, input, asked, fault>>
  BY DEF ClientCount
<1>2. /\ peer \in [Peers -> PeerRecs] /\ chan \in [Peers -> Channels] /\ hand \in Hands
      /\ q \in Seq(Tasks) /\ Len(q) \in Nat
  BY PeerTypes
<1>3. t \in ChangeTasks /\ t \in Tasks /\ t.op \in Changes /\ t.peer = p
  <2>1. t \in ChangeTasks /\ t.peer = p  BY DEF Task, ChangeTasks
  <2> QED  BY <2>1, ChangesAreTasks
<1>4. \A r \in Peers : CountOK(peer[r], hand, q, asked, r) /\ ChannelOK(peer[r], chan[r])
  BY DEF PeerInv
<1>5. Queued' = q  BY <1>1 DEF Queued, Batch
<1>6. hand' \in Hands /\ hand'[c] = t /\ hand = [hand' EXCEPT ![c] = NoTask]
  BY <1>1, <1>2, <1>3 DEF Hands
<1> HIDE DEF t, q
<1>7. Without(t, hand', q, hand, q)
  BY <1>2, <1>3, <1>6, HandChanges
<1>8. y \in PeerRecs /\ y.mem = "live" /\ CountOK(y, hand', q, asked, p)
  <2>1. x \in PeerRecs /\ x.mem = "live" /\ CountOK(x, hand, q, asked, p)
    BY <1>1, <1>2, <1>4 DEF Usable
  <2> HIDE DEF x
  <2>2. y \in PeerRecs /\ y.mem = "live" /\ y.ref_count = x.ref_count + 1
    BY <2>1 DEF PeerRecs
  <2> HIDE DEF y
  <2> QED  BY <1>2, <1>3, <1>7, <2>1, <2>2, Counting
<1>9. peer' = [peer EXCEPT ![p] = y]  BY <1>1, <1>2
<1> HIDE DEF y
<1>10. /\ peer' \in [Peers -> PeerRecs] /\ peer'[p] = y
       /\ \A r \in Peers \ {p} : peer'[r] = peer[r]
  BY <1>2, <1>8, <1>9
<1>11. \A r \in Peers : CountOK(peer'[r], hand', Queued', asked', r)
  <2>1. ASSUME NEW r \in Peers, r # p
        PROVE  CountOK(peer[r], hand', q, asked, r)
    BY <1>2, <1>3, <1>4, <1>7, <2>1, OthersBefore
  <2> QED  BY <1>1, <1>5, <1>8, <1>10, <2>1
<1>12. \A r \in Peers : ChannelOK(peer'[r], chan'[r])
  <2>1. ChannelOK(y, chan[p])
    BY <1>1, <1>4, <1>8 DEF Usable, ChannelOK
  <2> QED  BY <1>1, <1>4, <1>10, <2>1
<1>13. HeldOK'
  <2>1. \A r \in Peers : Held(chan[r], chan'[r])  BY <1>1 DEF Held
  <2> QED  BY <1>1, <2>1, HoldKept
<1>14. PlacesOK' /\ KnownFaults' /\ OneDestroy(Queued', asked')
  BY <1>1, <1>5, <1>6 DEF PeerInv, PlacesOK, Hands, KnownFaults, q
<1>15. /\ run' \in BOOLEAN /\ round' \subseteq Peers \cup {Wakeup} /\ input' \in [Peers -> Nat]
       /\ chan' \in [Peers -> Channels]
  BY <1>1, <1>2 DEF PeerInv, TypeOK
<1> QED  BY <1>10, <1>11, <1>12, <1>13, <1>14, <1>15, Assembled

LEMMA CallbackChangeStep ==
  ASSUME PeerInv, fault = "none", NEW p \in Peers,
         NEW op \in Changes, NEW cb \in BOOLEAN, CallbackChange(p, op, cb)
  PROVE  PeerInv'
<1> DEFINE t == Task(op, p, cb)
           q == Queued
           x == peer[p]
           z == [x EXCEPT !.ref_count = @ + 1]
           y == Apply(t, <<z, chan[p]>>)
<1>1. /\ Usable(p)
      /\ peer' = [peer EXCEPT ![p] = y[1]] /\ chan' = [chan EXCEPT ![p] = y[2]]
      /\ UNCHANGED <<run, tasks, hand, round, at, input, asked, fault>>
  BY DEF CallbackChange
<1>2. /\ peer \in [Peers -> PeerRecs] /\ chan \in [Peers -> Channels] /\ hand \in Hands
      /\ q \in Seq(Tasks) /\ Len(q) \in Nat
  BY PeerTypes
<1>3. t \in Tasks /\ t.op \in Changes /\ t.peer = p /\ t.op # "destroy"
  <2>1. t \in ChangeTasks /\ t.peer = p  BY DEF Task, ChangeTasks
  <2> QED  BY <2>1, ChangesAreTasks DEF Changes
<1>4. \A r \in Peers : CountOK(peer[r], hand, q, asked, r) /\ ChannelOK(peer[r], chan[r])
  BY DEF PeerInv
<1>5. Queued' = q  BY <1>1 DEF Queued, Batch
<1>6. x \in PeerRecs /\ x.mem = "live" /\ CountOK(x, hand, q, asked, p)
      /\ ChannelOK(x, chan[p]) /\ chan[p] \in Channels
  BY <1>1, <1>2, <1>4 DEF Usable
<1> HIDE DEF t, q, x
<1>7. Append(q, t) \in Seq(Tasks) /\ Len(Append(q, t)) \in Nat
      /\ Without(t, hand, Append(q, t), hand, q)
  BY <1>2, <1>3, QueueAppend
<1>8. z \in PeerRecs /\ z.mem = "live" /\ z.ref_count > 0
      /\ CountOK(z, hand, Append(q, t), asked, p)
  <2>1. z \in PeerRecs /\ z.mem = "live" /\ z.ref_count = x.ref_count + 1
    BY <1>6 DEF PeerRecs
  <2> HIDE DEF z
  <2> QED  BY <1>2, <1>3, <1>6, <1>7, <2>1, Counting
<1>9. ChannelOK(z, chan[p])  BY <1>6, <1>8 DEF ChannelOK
<1> HIDE DEF z
<1>10. /\ y[1] \in PeerRecs /\ y[2] \in Channels
       /\ ChannelOK(y[1], y[2]) /\ Held(chan[p], y[2])
       /\ \/ /\ y[1].mem = "live" /\ y[1].ref_count > 0
             /\ y[1].ref_count = z.ref_count - Given(t)
          \/ y[1].mem = "freed" /\ z.ref_count = 1 /\ Given(t) = 1
  BY <1>3, <1>6, <1>8, <1>9, Applying
<1> HIDE DEF y
<1>11. CountOK(y[1], hand, q, asked, p)
  BY <1>2, <1>3, <1>7, <1>8, <1>10, OwnAfter
<1>12. /\ peer' \in [Peers -> PeerRecs] /\ chan' \in [Peers -> Channels]
       /\ peer'[p] = y[1] /\ chan'[p] = y[2]
       /\ \A r \in Peers \ {p} : peer'[r] = peer[r] /\ chan'[r] = chan[r]
  BY <1>1, <1>2, <1>10
<1>13. \A r \in Peers : CountOK(peer'[r], hand', Queued', asked', r)
  BY <1>1, <1>4, <1>5, <1>11, <1>12
<1>14. \A r \in Peers : ChannelOK(peer'[r], chan'[r])
  BY <1>4, <1>10, <1>12
<1>15. HeldOK'
  <2>1. \A r \in Peers : Held(chan[r], chan'[r])  BY <1>10, <1>12 DEF Held
  <2> QED  BY <1>1, <2>1, HoldKept
<1>16. PlacesOK' /\ KnownFaults' /\ OneDestroy(Queued', asked')
  BY <1>1, <1>5 DEF PeerInv, PlacesOK, KnownFaults, q
<1>17. run' \in BOOLEAN /\ round' \subseteq Peers \cup {Wakeup} /\ input' \in [Peers -> Nat]
  BY <1>1 DEF PeerInv, TypeOK
<1> QED  BY <1>12, <1>13, <1>14, <1>15, <1>16, <1>17, Assembled

\* A step of the loop's thread between its callbacks: no peer, task or count
\* changes.
LEMMA OnlyLoop ==
  ASSUME PeerInv, UNCHANGED <<peer, hand, asked>>, Queued' = Queued,
         run' \in BOOLEAN, chan' \in [Peers -> Channels],
         round' \subseteq Peers \cup {Wakeup}, input' \in [Peers -> Nat],
         PlacesOK', \A p \in Peers : ChannelOK(peer[p], chan'[p]), HeldOK', KnownFaults'
  PROVE  PeerInv'
<1>1. peer' \in [Peers -> PeerRecs]  BY PeerTypes
<1>2. \A p \in Peers : CountOK(peer'[p], hand', Queued', asked', p)
  BY DEF PeerInv
<1>3. OneDestroy(Queued', asked')  BY DEF PeerInv
<1>4. \A p \in Peers : ChannelOK(peer'[p], chan'[p])  OBVIOUS
<1> QED  BY <1>1, <1>2, <1>3, <1>4, Assembled

LEMMA StartStep ==
  ASSUME PeerInv, fault = "none", Start
  PROVE  PeerInv'
BY DEF Start, PeerInv, TypeOK, PlacesOK, HeldOK, InCallback, KnownFaults, Queued, Batch,
       history

LEMMA ArriveStep ==
  ASSUME PeerInv, fault = "none", NEW p \in Peers, Arrive(p)
  PROVE  PeerInv'
<1>1. input' \in [Peers -> Nat]  BY DEF Arrive, PeerInv, TypeOK
<1> QED
  BY <1>1 DEF Arrive, PeerInv, TypeOK, PlacesOK, HeldOK, InCallback, KnownFaults, Queued,
              Batch

\* epoll_wait names channels that are in use, and marks them active.
LEMMA WaitStep ==
  ASSUME PeerInv, fault = "none", Wait
  PROVE  PeerInv'
<1> DEFINE ready == {p \in Peers : Ready(p) # {}}
           woken == IF tasks = <<>> THEN {} ELSE {Wakeup}
<1>1. /\ at = Dispatching
      /\ round' = ready \cup woken
      /\ chan' = [p \in Peers |->
                    IF p \in ready THEN SetRevent(chan[p], Ready(p)) ELSE chan[p]]
      /\ fault' = (IF \E p \in ready : chan[p].mem # "live" THEN "channel" ELSE fault)
      /\ UNCHANGED <<run, peer, tasks, hand, at, input, asked>>
  BY DEF Wait, history
<1>2. ASSUME NEW p \in Peers
      PROVE  chan[p] \in Channels /\ ChannelOK(peer[p], chan[p])
             /\ Ready(p) \in SUBSET Events /\ Ready(p) \subseteq chan[p].epoll
             /\ peer[p].mem \in {"none", "live", "freed"}
  <2>1. chan[p] \in Channels /\ ChannelOK(peer[p], chan[p])
        /\ peer[p].mem \in {"none", "live", "freed"}
    BY DEF PeerInv, TypeOK
  <2>2. chan[p].epoll \in SUBSET Events  BY <2>1 DEF Channels
  <2> QED  BY <2>1, <2>2 DEF Ready
<1>3. ASSUME NEW p \in ready
      PROVE  chan[p].mem = "live"
  BY <1>2 DEF ChannelOK, NoChannel
<1>4. ASSUME NEW p \in Peers
      PROVE  /\ chan'[p] \in Channels /\ ChannelOK(peer[p], chan'[p])
             /\ p \in ready => chan'[p].mem = "live" /\ chan'[p].is_active
  <2>1. CASE p \in ready
    <3>1. chan'[p] = SetRevent(chan[p], Ready(p))  BY <1>1, <2>1
    <3> QED  BY <1>2, <1>3, <2>1, <3>1, AroundCallback
  <2>2. CASE p \notin ready  BY <1>1, <1>2, <2>2
  <2> QED  BY <2>1, <2>2
<1>5. chan' \in [Peers -> Channels]  BY <1>1, <1>4
<1>6. round' \subseteq Peers \cup {Wakeup} /\ round' \cap Peers = ready
      /\ (Wakeup \in round' => tasks' # <<>>)
  BY <1>1, PeerAssumption DEF Wakeup
<1>7. fault' = "none"  BY <1>1, <1>3
<1> HIDE DEF ready, woken
<1>8. PlacesOK'  BY <1>1, <1>6 DEF PeerInv, PlacesOK
<1>9. ~InCallback'  BY <1>1 DEF InCallback, Dispatching
<1>10. HeldOK'
  <2>1. \A p \in ready : p \in Peers  BY <1>6
  <2> QED  BY <1>4, <1>6, <1>9, <2>1 DEF HeldOK
<1>11. Queued' = Queued  BY <1>1 DEF Queued, Batch
<1>12. run' \in BOOLEAN /\ input' \in [Peers -> Nat] /\ KnownFaults'
  BY <1>1, <1>7 DEF PeerInv, TypeOK, KnownFaults
<1> QED  BY <1>1, <1>4, <1>5, <1>6, <1>8, <1>10, <1>11, <1>12, OnlyLoop

LEMMA DispatchTasksStep ==
  ASSUME PeerInv, fault = "none", DispatchTasks
  PROVE  PeerInv'
<1>1. /\ at = Dispatching /\ Wakeup \in round /\ round' = round \ {Wakeup}
      /\ at' = [pc |-> "tasks", batch |-> tasks] /\ tasks' = <<>>
      /\ UNCHANGED <<run, peer, chan, hand, input, asked, fault>>
  BY DEF DispatchTasks, history
<1>2. tasks \in Seq(Tasks) /\ tasks # <<>>  BY <1>1 DEF PeerInv, PlacesOK
<1>3. Queued' = Queued
  <2>1. Batch = <<>> /\ Batch' = tasks  BY <1>1 DEF Batch, Dispatching
  <2>2. <<>> \o tasks = tasks /\ tasks \o <<>> = tasks  BY <1>2, ConcatEmptySeq
  <2> QED  BY <1>1, <2>1, <2>2 DEF Queued
<1>4. PlacesOK'
  <2>1. at' \in [pc : {"tasks"}, batch : Seq(Tasks)] /\ at'.batch # <<>>
    BY <1>1, <1>2
  <2>2. tasks' \in Seq(Tasks)  BY <1>1
  <2>3. Wakeup \notin round'  BY <1>1
  <2> QED  BY <1>1, <2>1, <2>2, <2>3 DEF PeerInv, PlacesOK
<1>5. ~InCallback'  BY <1>1 DEF InCallback
<1>6. HeldOK'  BY <1>1, <1>5 DEF PeerInv, HeldOK
<1>7. /\ run' \in BOOLEAN /\ chan' \in [Peers -> Channels]
      /\ round' \subseteq Peers \cup {Wakeup} /\ input' \in [Peers -> Nat] /\ KnownFaults'
      /\ \A p \in Peers : ChannelOK(peer[p], chan'[p])
  BY <1>1 DEF PeerInv, TypeOK, KnownFaults
<1> QED  BY <1>1, <1>3, <1>4, <1>6, <1>7, OnlyLoop

\* The channel of one peer changes while the loop's thread is at its event;
\* the thread goes on to a callback of that peer or to the next channel.
LEMMA AtEvent ==
  ASSUME PeerInv, fault = "none", NEW p \in Peers, NEW d \in Channels,
         ChannelOK(peer[p], d), chan' = [chan EXCEPT ![p] = d],
         at.pc # "tasks", p \notin round', round' \subseteq round,
         \/ at' = Dispatching
         \/ /\ at' \in [pc : {"write", "message"}, who : {p}, left : Nat]
            /\ d.mem = "live" /\ d.is_in_callback,
         input' \in [Peers -> Nat], fault' \in {"none", "own"},
         UNCHANGED <<run, peer, tasks, hand, asked>>
  PROVE  PeerInv'
<1>1. chan \in [Peers -> Channels]  BY DEF PeerInv, TypeOK
<1>2. chan' \in [Peers -> Channels] /\ chan'[p] = d
      /\ \A r \in Peers \ {p} : chan'[r] = chan[r]
  BY <1>1
<1>3. at'.pc \in {"dispatch", "write", "message"}
  BY DEF Dispatching
<1>4. Queued' = Queued  BY <1>3 DEF Queued, Batch
<1>5. PlacesOK'
  <2>1. at' = Dispatching \/ at' \in [pc : {"write", "message"}, who : Peers, left : Nat]
    OBVIOUS
  <2> QED  BY <2>1 DEF PeerInv, PlacesOK
<1>6. HeldOK'
  <2>1. \A r \in round' \cap Peers : chan'[r].mem = "live" /\ chan'[r].is_active
    BY <1>2 DEF PeerInv, HeldOK
  <2>2. InCallback' => at'.who = p /\ d.mem = "live" /\ d.is_in_callback
    BY DEF InCallback, Dispatching
  <2> QED  BY <1>2, <2>1, <2>2 DEF HeldOK
<1>7. \A r \in Peers : ChannelOK(peer[r], chan'[r])  BY <1>2 DEF PeerInv
<1>8. run' \in BOOLEAN /\ round' \subseteq Peers \cup {Wakeup} /\ KnownFaults'
  BY DEF PeerInv, TypeOK, KnownFaults
<1> QED  BY <1>2, <1>4, <1>5, <1>6, <1>7, <1>8, OnlyLoop

\* udp_peer_onevent from EPOLLIN on.
LEMMA Reading ==
  ASSUME PeerInv, fault = "none", NEW p \in Peers, NEW c \in Channels,
         ChannelOK(peer[p], c), c.mem = "live", c.is_in_callback, Read(p, c),
         at.pc # "tasks", p \notin round', round' \subseteq round,
         UNCHANGED <<run, peer, tasks, hand, asked>>
  PROVE  PeerInv'
<1> DEFINE got  == IF input[p] < Chunks THEN input[p] ELSE Chunks
           bad  == "IN" \in c.revent /\ peer[p].mem = "freed"
           more == "IN" \in c.revent /\ peer[p].messagecb /\ got > 0
           d    == IF more THEN c ELSE OnEventEnd(c)
<1>1. /\ fault' = (IF bad THEN "own" ELSE fault)
      /\ input' = [input EXCEPT ![p] = IF "IN" \in c.revent THEN @ - got ELSE @]
      /\ at' = (IF more THEN InPeer("message", p, got) ELSE Dispatching)
      /\ chan' = [chan EXCEPT ![p] = d]
  BY DEF Read
<1>2. input \in [Peers -> Nat]  BY DEF PeerInv, TypeOK
<1>3. got \in Nat /\ input[p] - got \in Nat
  BY <1>2, PeerAssumption
<1>4. input' \in [Peers -> Nat]
  <2> DEFINE n == IF "IN" \in c.revent THEN input[p] - got ELSE input[p]
  <2>1. n \in Nat  BY <1>2, <1>3
  <2>2. input' = [input EXCEPT ![p] = n]  BY <1>1
  <2> HIDE DEF n, got
  <2> QED  BY <1>2, <2>1, <2>2
<1>5. peer[p].mem \in {"none", "live", "freed"}  BY DEF PeerInv, TypeOK
<1>6. d \in Channels /\ ChannelOK(peer[p], d) /\ (more => d = c)
  BY <1>5, AroundCallback
<1> HIDE DEF d, got
<1>7. \/ at' = Dispatching
      \/ /\ at' \in [pc : {"write", "message"}, who : {p}, left : Nat]
         /\ d.mem = "live" /\ d.is_in_callback
  <2>1. CASE more
    <3>1. at' = [pc |-> "message", who |-> p, left |-> got] /\ d = c
      BY <1>1, <1>6, <2>1 DEF InPeer
    <3> QED  BY <1>3, <3>1
  <2>2. CASE ~more  BY <1>1, <2>2
  <2> QED  BY <2>1, <2>2
<1>8. fault' \in {"none", "own"}  BY <1>1
<1> QED  BY <1>1, <1>4, <1>6, <1>7, <1>8, AtEvent

LEMMA DispatchStep ==
  ASSUME PeerInv, fault = "none", NEW p \in Peers, Dispatch(p)
  PROVE  PeerInv'
<1> DEFINE c == chan[p]
<1>1. /\ at = Dispatching /\ p \in round /\ round' = round \ {p}
      /\ UNCHANGED <<run, peer, tasks, hand, asked>>
  BY DEF Dispatch, history
<1>2. c \in Channels /\ ChannelOK(peer[p], c) /\ c.mem = "live"
      /\ peer[p].mem \in {"none", "live", "freed"}
  BY <1>1 DEF PeerInv, TypeOK, HeldOK
<1>3. at.pc # "tasks" /\ p \notin round' /\ round' \subseteq round
  BY <1>1 DEF Dispatching
<1>4. CASE ~c.is_alive
  <2>1. chan' = [chan EXCEPT ![p] = OnEventDead(c)] /\ UNCHANGED <<at, input, fault>>
    BY <1>2, <1>4 DEF Dispatch
  <2>2. OnEventDead(c) \in Channels /\ ChannelOK(peer[p], OnEventDead(c))
    BY <1>2, <1>4, DispatchingDead
  <2>3. input' \in [Peers -> Nat] /\ fault' \in {"none", "own"}
    BY <2>1 DEF PeerInv, TypeOK
  <2> HIDE DEF c
  <2> QED  BY <1>1, <1>3, <2>1, <2>2, <2>3, AtEvent
<1>5. CASE c.is_alive
  <2>1. /\ OnEventBegin(c) \in Channels /\ ChannelOK(peer[p], OnEventBegin(c))
        /\ OnEventBegin(c).mem = "live" /\ OnEventBegin(c).is_in_callback
    BY <1>2, AroundCallback
  <2>2. CASE "OUT" \in c.revent /\ peer[p].writecb
    <3>1. /\ at' = InPeer("write", p, 0) /\ chan' = [chan EXCEPT ![p] = OnEventBegin(c)]
          /\ UNCHANGED <<input, fault>>
      BY <1>2, <1>5, <2>2 DEF Dispatch
    <3>2. at' \in [pc : {"write", "message"}, who : {p}, left : Nat]
      BY <3>1 DEF InPeer
    <3>3. input' \in [Peers -> Nat] /\ fault' \in {"none", "own"}
      BY <3>1 DEF PeerInv, TypeOK
    <3> HIDE DEF c
    <3> QED  BY <1>1, <1>3, <2>1, <3>1, <3>2, <3>3, AtEvent
  <2>3. CASE ~("OUT" \in c.revent /\ peer[p].writecb)
    <3>1. Read(p, OnEventBegin(c))
      BY <1>2, <1>5, <2>3 DEF Dispatch
    <3> HIDE DEF c
    <3> QED  BY <1>1, <1>3, <2>1, <3>1, Reading
  <2> QED  BY <2>2, <2>3
<1> QED  BY <1>4, <1>5

LEMMA AtCallback ==
  ASSUME PeerInv, at.pc \in {"write", "message"}
  PROVE  /\ at.who \in Peers /\ at.who \notin round /\ at.pc # "tasks"
         /\ at \in [pc : {"write", "message"}, who : {at.who}, left : Nat]
         /\ chan[at.who] \in Channels /\ ChannelOK(peer[at.who], chan[at.who])
         /\ chan[at.who].mem = "live" /\ chan[at.who].is_in_callback
         /\ peer[at.who].mem \in {"none", "live", "freed"}
<1>1. at \in [pc : {"write", "message"}, who : Peers, left : Nat]
  BY DEF PeerInv, PlacesOK, Dispatching
<1>2. at \in [pc : {"write", "message"}, who : {at.who}, left : Nat]
  BY <1>1
<1> QED  BY <1>1, <1>2 DEF PeerInv, TypeOK, HeldOK, InCallback

LEMMA WriteReturnsStep ==
  ASSUME PeerInv, fault = "none", WriteReturns
  PROVE  PeerInv'
<1>1. at.pc = "write" /\ Read(at.who, chan[at.who])
      /\ UNCHANGED <<run, peer, tasks, hand, round, asked>>
  BY DEF WriteReturns, history
<1> QED  BY <1>1, AtCallback, Reading

LEMMA MessageReturnsStep ==
  ASSUME PeerInv, fault = "none", MessageReturns
  PROVE  PeerInv'
<1> DEFINE p    == at.who
           more == at.left > 1
           bad  == peer[p].mem = "freed" \/ (more /\ ~peer[p].messagecb)
           c    == chan[p]
           d    == IF more THEN c ELSE OnEventEnd(c)
<1>1. /\ at.pc = "message"
      /\ fault' = (IF bad THEN "own" ELSE fault)
      /\ at' = (IF more THEN [at EXCEPT !.left = @ - 1] ELSE Dispatching)
      /\ chan' = [chan EXCEPT ![p] = d]
      /\ UNCHANGED <<run, peer, tasks, hand, round, input, asked>>
  BY DEF MessageReturns, history
<1>2. /\ p \in Peers /\ p \notin round /\ at.pc # "tasks"
      /\ at \in [pc : {"write", "message"}, who : {p}, left : Nat]
      /\ c \in Channels /\ ChannelOK(peer[p], c)
      /\ c.mem = "live" /\ c.is_in_callback
      /\ peer[p].mem \in {"none", "live", "freed"}
  BY <1>1, AtCallback
<1>3. d \in Channels /\ ChannelOK(peer[p], d) /\ (more => d = c)
  BY <1>2, AroundCallback
<1>4. \/ at' = Dispatching
      \/ /\ at' \in [pc : {"write", "message"}, who : {p}, left : Nat]
         /\ d.mem = "live" /\ d.is_in_callback
  <2>1. CASE more
    <3>1. at' = [at EXCEPT !.left = at.left - 1] /\ at.left - 1 \in Nat
      BY <1>1, <1>2, <2>1
    <3>2. at' \in [pc : {"write", "message"}, who : {p}, left : Nat]
      BY <1>2, <3>1
    <3> QED  BY <1>2, <1>3, <2>1, <3>2
  <2>2. CASE ~more  BY <1>1, <2>2
  <2> QED  BY <2>1, <2>2
<1>5. fault' \in {"none", "own"}  BY <1>1
<1>6. input' \in [Peers -> Nat] /\ p \notin round' /\ round' \subseteq round
  BY <1>1, <1>2 DEF PeerInv, TypeOK
<1> HIDE DEF p, more, bad, c, d
<1> QED  BY <1>1, <1>2, <1>3, <1>4, <1>5, <1>6, AtEvent

-----------------------------------------------------------------------------
(* The theorems *)

LEMMA PeerInit == Init => PeerInv
<1> SUFFICES ASSUME Init PROVE PeerInv  OBVIOUS
<1>1. Queued = <<>>
  <2>1. Batch = <<>> /\ tasks = <<>>  BY DEF Init, Batch, Dispatching
  <2>2. <<>> \o <<>> = <<>>  OBVIOUS
  <2> QED  BY <2>1, <2>2 DEF Queued
<1>2. TypeOK
  BY DEF Init, TypeOK, NoPeer, NoChannel, Channels, Dispatching
<1>3. PlacesOK
  BY DEF Init, PlacesOK
<1>4. ASSUME NEW p \in Peers
      PROVE  CountOK(peer[p], hand, Queued, asked, p)
  <2>1. InHands(hand, p) = {} /\ InQueue(<<>>, p) = {}
    BY DEF Init, InHands, InQueue
  <2>2. UnderWay(hand, <<>>, p) = 0
    <3>1. Cardinality({}) = 0  BY FS_EmptySet
    <3>2. Cardinality(InHands(hand, p)) = 0 /\ Cardinality(InQueue(<<>>, p)) = 0
      BY <2>1, <3>1
    <3> QED  BY <3>2 DEF UnderWay
  <2>3. ~HasTask(<<>>, p)  BY DEF HasTask
  <2> QED  BY <1>1, <2>2, <2>3 DEF Init, CountOK, NoPeer
<1>5. OneDestroy(Queued, asked)
  BY <1>1 DEF OneDestroy, HasDestroy
<1>6. \A p \in Peers : ChannelOK(peer[p], chan[p])
  BY DEF Init, ChannelOK, NoPeer
<1>7. HeldOK /\ KnownFaults
  BY DEF Init, HeldOK, InCallback, Dispatching, KnownFaults
<1> QED  BY <1>2, <1>3, <1>4, <1>5, <1>6, <1>7 DEF PeerInv

LEMMA PeerStep == PeerInv /\ [Next]_vars => PeerInv'
<1> SUFFICES ASSUME PeerInv, [Next]_vars PROVE PeerInv'  OBVIOUS
<1>1. CASE Next
  <2>1. fault = "none"  BY <1>1 DEF Next
  <2>2. ASSUME NEW c \in Clients, ClientCall(c) PROVE PeerInv'
    BY <2>1, <2>2, ClientNewStep, ClientCountStep, ClientDestroyStep DEF ClientCall
  <2>3. ASSUME NEW c \in Clients, ClientSubmit(c) PROVE PeerInv'
    BY <2>1, <2>3, ClientSubmitStep
  <2>4. CASE CallbackCall
    BY <2>1, <2>4, CallbackNewStep, CallbackChangeStep, CallbackDestroyStep DEF CallbackCall
  <2>5. CASE LoopStep
    BY <2>1, <2>5, WaitStep, DispatchStep, DispatchTasksStep, LoopTaskStep,
       WriteReturnsStep, MessageReturnsStep
    DEF LoopStep
  <2>6. CASE Start \/ \E p \in Peers : Arrive(p)
    BY <2>1, <2>6, StartStep, ArriveStep
  <2> QED  BY <1>1, <2>2, <2>3, <2>4, <2>5, <2>6 DEF Next
<1>2. CASE UNCHANGED vars
  BY <1>2 DEF vars, history, PeerInv, TypeOK, PlacesOK, HeldOK, InCallback, KnownFaults,
              Queued, Batch
<1> QED  BY <1>1, <1>2

\* What the reference count of every peer stands for, what the channel of a
\* peer at each stage of its life looks like and what the loop still holds are
\* kept by every step of every thread, for any peers and any number of threads.
THEOREM PeerInvariance == Spec => []PeerInv
<1> QED  BY PeerInit, PeerStep, PTL DEF Spec

\* atomic_inc before a change is handed over and the test of the value that
\* atomic_dec returned free a peer with its last reference and not before,
\* however callbacks, tasks and threads change and destroy it.
THEOREM EveryReferenceCounted == Spec => []RefsCounted
<1>1. PeerInv => RefsCounted
  <2> SUFFICES ASSUME PeerInv PROVE RefsCounted  OBVIOUS
  <2>1. ASSUME NEW p \in Peers
        PROVE  /\ Pending(p, Changes) = UnderWay(hand, Queued, p)
               /\ CountOK(peer[p], hand, Queued, asked, p)
    BY DEF PeerInv, Pending, UnderWay, InHands, InQueue
  <2>2. TypeOK  BY DEF PeerInv
  <2> QED  BY <2>1, <2>2 DEF RefsCounted, CountOK, Owned, HasDestroy
<1> QED  BY <1>1, PeerInvariance, PTL

\* The loop dispatches no freed channel, and only the task that sets up the
\* events of a new peer can find its peer freed.
THEOREM NoOtherFault == Spec => []KnownFaults
<1>1. PeerInv => KnownFaults  BY DEF PeerInv
<1> QED  BY <1>1, PeerInvariance, PTL

\* do_loop_update_channel keeps the epoll set in step with the events of every
\* live peer, and delete_udp_peer leaves no entry behind.
THEOREM EpollAgrees == Spec => []InterestAgrees
<1>1. PeerInv => InterestAgrees
  <2> SUFFICES ASSUME PeerInv, NEW p \in Peers
               PROVE  /\ chan[p].epoll # {} => chan[p].mem = "live" /\ peer[p].mem = "live"
                      /\ peer[p].mem = "live" =>
                           /\ chan[p].epoll = chan[p].event
                           /\ chan[p].is_monitored = (chan[p].event # {})
    BY DEF InterestAgrees
  <2>1. ChannelOK(peer[p], chan[p]) /\ peer[p].mem \in {"none", "live", "freed"}
    BY DEF PeerInv, TypeOK
  <2> QED  BY <2>1 DEF ChannelOK, NoChannel
<1> QED  BY <1>1, PeerInvariance, PTL

==============================================================================
