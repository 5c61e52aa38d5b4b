------------------------------- MODULE Channel -------------------------------
(***************************************************************************)
(* udpclient/linux/net/channel.c and the part of loop.c that keeps the     *)
(* epoll set: a channel ties a descriptor to the loop.  A channel is a     *)
(* record, an operation maps the old record to the new one; the modules    *)
(* that own channels apply them.  Everything here runs in the loop's       *)
(* thread, or before the loop runs, so loop_update_channel takes effect at *)
(* once.                                                                   *)
(***************************************************************************)
EXTENDS Naturals, FiniteSets

Events == {"IN", "OUT"}  \* EPOLLIN, EPOLLOUT

\* A channel.  mem tells whether its memory was allocated or freed; epoll is
\* the kernel's entry for the descriptor, {} when there is none.
Channels ==
  [mem : {"none", "live", "freed"}, loop : BOOLEAN,
   event : SUBSET Events, revent : SUBSET Events,
   is_active : BOOLEAN, is_in_callback : BOOLEAN, is_alive : BOOLEAN,
   is_monitored : BOOLEAN, epoll : SUBSET Events]

NoChannel ==
  [mem |-> "none", loop |-> FALSE, event |-> {}, revent |-> {},
   is_active |-> FALSE, is_in_callback |-> FALSE, is_alive |-> FALSE,
   is_monitored |-> FALSE, epoll |-> {}]

\* Nothing is left of a channel that was freed.
FreedChannel == [NoChannel EXCEPT !.mem = "freed"]

\* channel_new
ChannelNew ==
  [NoChannel EXCEPT !.mem = "live", !.loop = TRUE, !.is_alive = TRUE]

\* Faulty variant: a channel that waits for its turn in the round is freed.
ChannelDestroyAtOnce(c) ==
  IF c.is_in_callback
  THEN [c EXCEPT !.is_alive = FALSE]
  ELSE FreedChannel

\* channel_destroy: the loop still holds a pointer to a channel it is about
\* to dispatch or is inside of, and frees it then.
ChannelDestroy(c) ==
  IF c.is_in_callback \/ c.is_active
  THEN [c EXCEPT !.is_alive = FALSE]
  ELSE FreedChannel

\* Faulty variant: is_monitored is not reset when the entry is deleted.
UpdateChannelStale(c) ==
  CASE c.event = {}   -> [c EXCEPT !.epoll = {}]
    [] c.event # {} /\ c.is_monitored ->
         [c EXCEPT !.epoll = IF @ = {} THEN @ ELSE c.event]
    [] OTHER          -> [c EXCEPT !.is_monitored = TRUE,
                                   !.epoll = IF @ = {} THEN c.event ELSE @]

\* do_loop_update_channel: EPOLL_CTL_DEL, MOD or ADD.  MOD fails without an
\* entry and ADD with one; the failure is only logged.
UpdateChannel(c) ==
  CASE c.event = {}   -> [c EXCEPT !.is_monitored = FALSE, !.epoll = {}]
    [] c.event # {} /\ c.is_monitored ->
         [c EXCEPT !.epoll = IF @ = {} THEN @ ELSE c.event]
    [] OTHER          -> [c EXCEPT !.is_monitored = TRUE,
                                   !.epoll = IF @ = {} THEN c.event ELSE @]

\* channel_setevent, channel_clearevent
SetEvent(c, e) ==
  IF e \subseteq c.event THEN c ELSE UpdateChannel([c EXCEPT !.event = @ \cup e])
ClearEvent(c, e) ==
  IF e \cap c.event = {} THEN c ELSE UpdateChannel([c EXCEPT !.event = @ \ e])

\* channel_detach: the event mask is kept for a later attach.
Detach(c) ==
  IF c.event = {}
  THEN c
  ELSE [UpdateChannel([c EXCEPT !.event = {}])
          EXCEPT !.event = c.event, !.loop = FALSE]

\* channel_setrevent: the loop has an event for the channel.
SetRevent(c, e) == [c EXCEPT !.revent = e, !.is_active = TRUE]

\* channel_onevent around the callback.  A channel destroyed since it was
\* marked active is freed instead of called.
OnEventDead(c) == ChannelDestroy([c EXCEPT !.is_active = FALSE])
OnEventBegin(c) == [c EXCEPT !.is_in_callback = TRUE]
OnEventEnd(c) ==
  LET done == [c EXCEPT !.is_in_callback = FALSE, !.is_active = FALSE,
                        !.revent = {}]
  IN  IF c.is_alive THEN done ELSE ChannelDestroy(done)

=============================================================================
