------------------------------ MODULE NanoQueue ------------------------------
(***************************************************************************)
(* log/NanoLog.cpp, classes QueueBuffer and Buffer, under a                *)
(* GuaranteedLogger: producers fill a buffer of Size items, the one who    *)
(* counts the last item sets up the next buffer, the logger's thread reads *)
(* the buffers in turn and frees each one after its last item.             *)
(*                                                                         *)
(* One step is one atomic access, or one section under the spin lock       *)
(* m_flag.  A buffer is a number; 0 is nullptr.                            *)
(***************************************************************************)
EXTENDS NanoLogger

CONSTANT Size  \* Buffer::size

ASSUME QueueAssumption == Size \in Nat \ {0}

VARIABLES
  m_write_index,
  m_current_write_buffer,
  m_buffers,              \* the queue of buffers
  m_current_read_buffer,
  m_read_index,
  m_flag,                 \* whether m_flag is held
  item,                   \* buffer -> index -> line, 0 while the write state is 0
  count,                  \* buffer -> m_write_state[size]
  freed,                  \* the buffers that were deleted
  made,                   \* buffers 1..made were allocated
  pc, line, index, buf,   \* where each producer is, its line, write_index, buffer
  step,                   \* where try_pop is
  lines,                  \* history: lines 1..lines were passed to push
  fault                   \* a deleted buffer was accessed

vars == <<loggerVars, m_write_index, m_current_write_buffer, m_buffers,
          m_current_read_buffer, m_read_index, m_flag, item, count, freed,
          made, pc, line, index, buf, step, lines, fault>>

reader == <<m_current_read_buffer, m_read_index, step, freed>>
memory == <<item, count, made>>
local == <<line, index, buf>>

MaxBuffers == MaxLines \div Size + 2  \* bound: buffers set up
Buffers == 1..MaxBuffers
Indices == 0..Size - 1

\* The constructor: setup_next_write_buffer with nobody else around.
Init ==
  /\ LoggerInit
  /\ m_write_index = 0
  /\ m_current_write_buffer = 1
  /\ m_buffers = <<1>>
  /\ m_current_read_buffer = 0
  /\ m_read_index = 0
  /\ m_flag = FALSE
  /\ item = [b \in Buffers |-> [i \in Indices |-> 0]]
  /\ count = [b \in Buffers |-> 0]
  /\ freed = {}
  /\ made = 1
  /\ pc = [p \in Producers |-> "idle"]
  /\ line = [p \in Producers |-> 0]
  /\ index = [p \in Producers |-> 0]
  /\ buf = [p \in Producers |-> 0]
  /\ step = "fetch"
  /\ lines = 0
  /\ fault = FALSE

Goto(p, l) == pc' = [pc EXCEPT ![p] = l]

-----------------------------------------------------------------------------
(* push *)

Push(p) ==
  /\ state = "READY"
  /\ pc[p] = "idle"
  /\ lines < MaxLines
  /\ lines' = lines + 1
  /\ line' = [line EXCEPT ![p] = lines + 1]
  /\ Goto(p, "claim")
  /\ UNCHANGED <<loggerVars, m_write_index, m_current_write_buffer, m_buffers,
                 m_flag, memory, reader, index, buf, fault>>

\* m_write_index.fetch_add(1): an index in the buffer, or none left
Claim(p) ==
  /\ pc[p] = "claim"
  /\ index' = [index EXCEPT ![p] = m_write_index]
  /\ m_write_index' = m_write_index + 1
  /\ Goto(p, IF m_write_index < Size THEN "load" ELSE "spin")
  /\ UNCHANGED <<loggerVars, m_current_write_buffer, m_buffers, m_flag, memory,
                 reader, line, buf, lines, fault>>

\* while (m_write_index >= size); push again
Spin(p) ==
  /\ pc[p] = "spin"
  /\ m_write_index < Size
  /\ Goto(p, "claim")
  /\ UNCHANGED <<loggerVars, m_write_index, m_current_write_buffer, m_buffers,
                 m_flag, memory, reader, local, lines, fault>>

\* m_current_write_buffer.load()
Load(p) ==
  /\ pc[p] = "load"
  /\ buf' = [buf EXCEPT ![p] = m_current_write_buffer]
  /\ Goto(p, "put")
  /\ UNCHANGED <<loggerVars, m_write_index, m_current_write_buffer, m_buffers,
                 m_flag, memory, reader, line, index, lines, fault>>

\* Buffer::push: the item is built and its write state set to 1.
Put(p) ==
  /\ pc[p] = "put"
  /\ fault' = (fault \/ buf[p] \in freed)
  /\ item' = [item EXCEPT ![buf[p]][index[p]] = line[p]]
  /\ Goto(p, "count")
  /\ UNCHANGED <<loggerVars, m_write_index, m_current_write_buffer, m_buffers,
                 m_flag, count, made, reader, local, lines>>

\* Faulty variant: whoever got the last index switches, others not yet done.
CountByIndex(p) ==
  /\ pc[p] = "count"
  /\ fault' = (fault \/ buf[p] \in freed)
  /\ count' = [count EXCEPT ![buf[p]] = @ + 1]
  /\ Goto(p, IF index[p] + 1 = Size THEN "setup" ELSE "idle")
  /\ UNCHANGED <<loggerVars, m_write_index, m_current_write_buffer, m_buffers,
                 m_flag, item, made, reader, local, lines>>

\* Faulty variant: the index is opened before there is a new buffer.
CountOpens(p) ==
  /\ pc[p] = "count"
  /\ fault' = (fault \/ buf[p] \in freed)
  /\ count' = [count EXCEPT ![buf[p]] = @ + 1]
  /\ m_write_index' = IF count[buf[p]] + 1 = Size THEN 0 ELSE m_write_index
  /\ Goto(p, IF count[buf[p]] + 1 = Size THEN "setup" ELSE "idle")
  /\ UNCHANGED <<loggerVars, m_current_write_buffer, m_buffers, m_flag, item,
                 made, reader, local, lines>>

\* Buffer::push: m_write_state[size].fetch_add(1) + 1 == size.  In a buffer
\* that was deleted meanwhile the counter may hold anything.
Count(p) ==
  /\ pc[p] = "count"
  /\ fault' = (fault \/ buf[p] \in freed)
  /\ count' = [count EXCEPT ![buf[p]] = @ + 1]
  /\ \/ buf[p] \notin freed
        /\ Goto(p, IF count[buf[p]] + 1 = Size THEN "setup" ELSE "idle")
     \/ buf[p] \in freed
        /\ \E l \in {"setup", "idle"} : Goto(p, l)
  /\ UNCHANGED <<loggerVars, m_write_index, m_current_write_buffer, m_buffers,
                 m_flag, item, made, reader, local, lines>>

\* setup_next_write_buffer: a new buffer is the one to write to,
Setup(p) ==
  /\ pc[p] = "setup"
  /\ made < MaxBuffers
  /\ made' = made + 1
  /\ m_current_write_buffer' = made + 1
  /\ buf' = [buf EXCEPT ![p] = made + 1]
  /\ Goto(p, "enqueue")
  /\ UNCHANGED <<loggerVars, m_write_index, m_buffers, m_flag, item, count,
                 reader, line, index, lines, fault>>

\* is queued for reading under the lock,
Enqueue(p) ==
  /\ pc[p] = "enqueue"
  /\ ~m_flag
  /\ m_flag' = TRUE
  /\ m_buffers' = Append(m_buffers, buf[p])
  /\ Goto(p, "reset")
  /\ UNCHANGED <<loggerVars, m_write_index, m_current_write_buffer, memory,
                 reader, local, lines, fault>>

\* and opened for the producers.
Reset(p) ==
  /\ pc[p] = "reset"
  /\ m_write_index' = 0
  /\ m_flag' = FALSE
  /\ Goto(p, "idle")
  /\ UNCHANGED <<loggerVars, m_current_write_buffer, m_buffers, memory, reader,
                 local, lines, fault>>

-----------------------------------------------------------------------------
(* try_pop, called by the logger's thread *)

\* get_next_read_buffer, if there is no current one
Fetch ==
  /\ thread \in {"pop", "drain"} /\ step = "fetch"
  /\ m_current_read_buffer = 0 => ~m_flag
  /\ LET next == IF m_buffers = <<>> THEN 0 ELSE Head(m_buffers)
         b    == IF m_current_read_buffer = 0 THEN next ELSE m_current_read_buffer
     IN  /\ m_current_read_buffer' = b
         /\ IF b = 0 THEN GotNothing /\ UNCHANGED step
                     ELSE step' = "read" /\ UNCHANGED loggerVars
  /\ UNCHANGED <<m_write_index, m_current_write_buffer, m_buffers, m_flag,
                 m_read_index, memory, freed, pc, local, lines, fault>>

\* Faulty variant: a buffer read to its end stays the current one.
ReadKeepsBuffer ==
  /\ step = "read"
  /\ LET l == item[m_current_read_buffer][m_read_index]
     IN  IF l = 0
         THEN /\ GotNothing
              /\ step' = "fetch"
              /\ UNCHANGED m_read_index
         ELSE /\ m_read_index' = (m_read_index + 1) % Size
              /\ IF m_read_index + 1 = Size
                 THEN /\ step' = "release"
                      /\ Log(l)
                      /\ UNCHANGED <<state, thread>>
                 ELSE /\ step' = "fetch"
                      /\ Got(l)
  /\ UNCHANGED <<m_write_index, m_current_write_buffer, m_buffers, m_flag,
                 m_current_read_buffer, memory, freed, pc, local, lines, fault>>

\* Buffer::try_pop on the item at m_read_index
Read ==
  /\ step = "read"
  /\ LET l == item[m_current_read_buffer][m_read_index]
     IN  IF l = 0
         THEN /\ GotNothing
              /\ step' = "fetch"
              /\ UNCHANGED <<m_read_index, m_current_read_buffer>>
         ELSE /\ m_read_index' = (m_read_index + 1) % Size
              /\ IF m_read_index + 1 = Size
                 THEN /\ m_current_read_buffer' = 0
                      /\ step' = "release"
                      /\ Log(l)
                      /\ UNCHANGED <<state, thread>>
                 ELSE /\ UNCHANGED m_current_read_buffer
                      /\ step' = "fetch"
                      /\ Got(l)
  /\ UNCHANGED <<m_write_index, m_current_write_buffer, m_buffers, m_flag,
                 memory, freed, pc, local, lines, fault>>

\* m_buffers.pop() deletes the buffer that was read to its end.
Release ==
  /\ step = "release"
  /\ ~m_flag
  /\ freed' = freed \cup {Head(m_buffers)}
  /\ m_buffers' = Tail(m_buffers)
  /\ step' = "fetch"
  /\ thread' = IF thread = "drain" THEN "drain" ELSE "loop"
  /\ UNCHANGED <<state, logged, writerVars, m_write_index, m_current_write_buffer,
                 m_flag, m_current_read_buffer, m_read_index, memory, pc, local,
                 lines, fault>>

Idle == \A p \in Producers : pc[p] = "idle"

Run ==
  /\ Ready \/ Awake \/ Loop
  /\ UNCHANGED <<m_write_index, m_current_write_buffer, m_buffers, m_flag,
                 memory, reader, pc, local, lines, fault>>

Destroy ==
  /\ Shutdown(Idle)
  /\ UNCHANGED <<m_write_index, m_current_write_buffer, m_buffers, m_flag,
                 memory, reader, pc, local, lines, fault>>

-----------------------------------------------------------------------------
PushStep(p) ==
  \/ Claim(p) \/ Spin(p) \/ Load(p) \/ Put(p) \/ Count(p) \/ Setup(p)
  \/ Enqueue(p) \/ Reset(p)
PopStep == Fetch \/ Read \/ Release

Next ==
  \/ \E p \in Producers : Push(p) \/ PushStep(p)
  \/ PopStep \/ Run \/ Destroy

Spec == Init /\ [][Next]_vars

\* Producers and the logger's thread are scheduled, and a spin lock that is
\* free again and again is got; a producer that spins on a full buffer gets an
\* index in the end.
Fairness ==
  /\ SF_vars(PopStep) /\ WF_vars(Run)
  /\ \A p \in Producers : SF_vars(PushStep(p))

FairSpec == Spec /\ Fairness

-----------------------------------------------------------------------------
(* Properties *)

\* The state is well typed.
TypeOK ==
  /\ LoggerType
  /\ m_write_index \in Nat
  /\ m_current_write_buffer \in Buffers
  /\ m_buffers \in Seq(Buffers)
  /\ m_current_read_buffer \in Buffers \cup {0}
  /\ m_read_index \in Indices
  /\ m_flag \in BOOLEAN
  /\ item \in [Buffers -> [Indices -> Lines \cup {0}]]
  /\ count \in [Buffers -> Nat]
  /\ freed \subseteq Buffers
  /\ made \in Buffers
  /\ pc \in [Producers -> {"idle", "claim", "spin", "load", "put", "count",
                           "setup", "enqueue", "reset"}]
  /\ line \in [Producers -> Lines \cup {0}]
  /\ index \in [Producers -> Nat]
  /\ buf \in [Producers -> Buffers \cup {0}]
  /\ step \in {"fetch", "read", "release"}
  /\ lines \in 0..MaxLines
  /\ fault \in BOOLEAN

Switching(p) == pc[p] \in {"setup", "enqueue", "reset"}
Writing(p) == pc[p] \in {"load", "put", "count"}

\* Two producers never build an item at the same place, and only the one who
\* counted the last item of a buffer switches to the next, when nobody else
\* writes to either.
OwnItem ==
  ~fault =>
    /\ \A p, q \in Producers :
         /\ Writing(p) /\ Writing(q) /\ index[p] = index[q] => p = q
         /\ Switching(p) /\ (Switching(q) \/ Writing(q)) => p = q
    /\ \A p \in Producers :
         pc[p] = "put" => item[buf[p]][index[p]] = 0

Unread(l) ==
  \E k \in 1..Len(m_buffers) : \E i \in Indices :
    /\ item[m_buffers[k]][i] = l
    /\ k = 1 => i >= m_read_index /\ step # "release"
IsLogged(l) == \E i \in 1..Len(logged) : logged[i] = l
Held(l) ==
  \E p \in Producers :
    line[p] = l /\ pc[p] \in {"claim", "spin", "load", "put"}

ReadsLive ==
  m_current_read_buffer # 0 =>
    m_buffers # <<>> /\ m_current_read_buffer = Head(m_buffers)

\* A line is somewhere on its way: with its producer, in an item the reader
\* has not come to, or in the file, and never twice; when pop() ends, every
\* line is in the file.  The reader only looks at a buffer that is there, the
\* first one queued.
NothingDropped ==
  TypeOK /\ ReadsLive /\ (~fault =>
    /\ \A l \in 1..lines : Held(l) \/ Unread(l) \/ IsLogged(l)
    /\ \A l \in 1..lines : ~(Held(l) /\ IsLogged(l)) /\ ~(Unread(l) /\ IsLogged(l))
    /\ \A i, j \in 1..Len(logged) : logged[i] = logged[j] => i = j
    /\ thread = "exit" => \A l \in 1..lines : IsLogged(l))

\* "Provides a guarantee log lines will not be dropped": every line that is
\* passed to push is written to the file.
Guaranteed == \A l \in Lines : lines >= l ~> IsLogged(l)

=============================================================================
