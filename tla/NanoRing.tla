------------------------------ MODULE NanoRing ------------------------------
(***************************************************************************)
(* log/NanoLog.cpp, class RingBuffer, under a NonGuaranteedLogger: any     *)
(* number of producers, the logger's thread as the only consumer.  Every   *)
(* access to an item happens under the item's spin lock, so one locked     *)
(* section is one step.  Lines are numbered in the order in which they got *)
(* their index from m_write_index.                                         *)
(***************************************************************************)
EXTENDS NanoLogger

CONSTANTS Size,  \* m_size
          Wrap   \* 2^32: m_write_index and m_read_index are unsigned int

ASSUME RingAssumption ==
  /\ Size \in Nat \ {0}
  /\ Wrap \in Nat \ {0}
  /\ Size <= Wrap

VARIABLES
  m_write_index,
  m_read_index,
  ring,      \* the line in each item that is written, 0 for none
  hand,      \* the line each producer is about to store, 0 for none
  at,        \* write_index % m_size, for each producer
  claims,    \* history: how many lines got an index
  overrun,   \* history: more than Size lines were under way at once
  dropped    \* history: the lines that were overwritten in their item

vars == <<loggerVars, m_write_index, m_read_index, ring, hand, at, claims,
          overrun, dropped>>
history == <<claims, overrun, dropped>>

Slots == 0..Size - 1

Init ==
  /\ LoggerInit
  /\ m_write_index = 0
  /\ m_read_index = 0
  /\ ring = [s \in Slots |-> 0]
  /\ hand = [p \in Producers |-> 0]
  /\ at = [p \in Producers |-> 0]
  /\ claims = 0
  /\ overrun = FALSE
  /\ dropped = {}

-----------------------------------------------------------------------------
\* push: m_write_index.fetch_add(1)
Claim(p) ==
  /\ state = "READY"
  /\ hand[p] = 0
  /\ claims < MaxLines
  /\ claims' = claims + 1
  /\ hand' = [hand EXCEPT ![p] = claims + 1]
  /\ at' = [at EXCEPT ![p] = m_write_index % Size]
  /\ m_write_index' = (m_write_index + 1) % Wrap
  /\ overrun' = (overrun \/ claims + 1 - Len(logged) > Size)
  /\ UNCHANGED <<loggerVars, m_read_index, ring, dropped>>

\* push, under the item's lock: whatever the item holds is replaced.
Fill(p) ==
  /\ hand[p] # 0
  /\ ring' = [ring EXCEPT ![at[p]] = hand[p]]
  /\ dropped' = IF ring[at[p]] = 0 THEN dropped ELSE dropped \cup {ring[at[p]]}
  /\ hand' = [hand EXCEPT ![p] = 0]
  /\ UNCHANGED <<loggerVars, m_write_index, m_read_index, at, claims, overrun>>

\* Faulty variant: the item stays marked as written.
TryPopKeeping ==
  /\ thread \in {"pop", "drain"}
  /\ LET s == m_read_index % Size
     IN  IF ring[s] # 0
         THEN /\ Got(ring[s])
              /\ m_read_index' = (m_read_index + 1) % Wrap
         ELSE /\ GotNothing
              /\ UNCHANGED m_read_index
  /\ UNCHANGED <<m_write_index, ring, hand, at, history>>

\* Faulty variant: the read index moves on past an item not yet written.
TryPopSkipping ==
  /\ thread \in {"pop", "drain"}
  /\ LET s == m_read_index % Size
     IN  /\ IF ring[s] # 0 THEN Got(ring[s]) ELSE GotNothing
         /\ ring' = [ring EXCEPT ![s] = 0]
         /\ m_read_index' = (m_read_index + 1) % Wrap
  /\ UNCHANGED <<m_write_index, hand, at, history>>

\* try_pop, under the item's lock, and pop()'s reaction to it
TryPop ==
  /\ thread \in {"pop", "drain"}
  /\ LET s == m_read_index % Size
     IN  IF ring[s] # 0
         THEN /\ Got(ring[s])
              /\ ring' = [ring EXCEPT ![s] = 0]
              /\ m_read_index' = (m_read_index + 1) % Wrap
         ELSE /\ GotNothing
              /\ UNCHANGED <<ring, m_read_index>>
  /\ UNCHANGED <<m_write_index, hand, at, history>>

Idle == \A p \in Producers : hand[p] = 0

Run ==
  /\ Ready \/ Awake \/ Loop
  /\ UNCHANGED <<m_write_index, m_read_index, ring, hand, at, history>>

Destroy ==
  /\ Shutdown(Idle)
  /\ UNCHANGED <<m_write_index, m_read_index, ring, hand, at, history>>

Next ==
  \/ \E p \in Producers : Claim(p) \/ Fill(p)
  \/ TryPop \/ Run \/ Destroy

Spec == Init /\ [][Next]_vars

\* The constructor ends, pop() is scheduled, and a producer inside push gets
\* to its item; nobody has to log or to destroy the logger.
Fairness ==
  /\ WF_vars(TryPop)
  /\ WF_vars(Run)
  /\ \A p \in Producers : WF_vars(Fill(p))

FairSpec == Spec /\ Fairness

-----------------------------------------------------------------------------
(* Properties *)

\* The state is well typed.
TypeOK ==
  /\ LoggerType
  /\ m_write_index \in 0..Wrap - 1
  /\ m_read_index \in 0..Wrap - 1
  /\ ring \in [Slots -> Lines \cup {0}]
  /\ hand \in [Producers -> Lines \cup {0}]
  /\ at \in [Producers -> Slots]
  /\ claims \in 0..MaxLines
  /\ overrun \in BOOLEAN
  /\ dropped \subseteq Lines

InHand(l) == \E p \in Producers : hand[p] = l
InRing(l) == \E s \in Slots : ring[s] = l
IsLogged(l) == \E i \in 1..Len(logged) : logged[i] = l

\* A line that was pushed is in its producer's hands, in one item, written to
\* the file or overwritten: in exactly one of these places, even when the
\* producers lap the consumer and each other.
Accounted ==
  /\ TypeOK
  /\ \A l \in 1..claims :
       /\ InHand(l) \/ InRing(l) \/ IsLogged(l) \/ l \in dropped
       /\ InHand(l) => ~InRing(l) /\ ~IsLogged(l) /\ l \notin dropped
       /\ InRing(l) => ~IsLogged(l) /\ l \notin dropped
       /\ IsLogged(l) => l \notin dropped
  /\ \A i, j \in 1..Len(logged) : logged[i] = logged[j] => i = j
  /\ \A s, t \in Slots : ring[s] = ring[t] /\ ring[s] # 0 => s = t

\* "When the ring gets full, the previous log line in the slot will be
\* dropped": only then.  While at most Size lines are under way at any time,
\* none is dropped, the file has every line once and in the order of their
\* indices, and the logger's thread ends only when all have reached it.
LossNeedsOverrun ==
  ~overrun =>
    /\ dropped = {}
    /\ \A i \in 1..Len(logged) : logged[i] = i
    /\ thread = "exit" => Len(logged) = claims

\* While there is no overrun, a line that was pushed reaches the file.
Delivered == \A l \in Lines : claims >= l ~> IsLogged(l) \/ overrun

=============================================================================
