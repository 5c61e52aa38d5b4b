--------------------------- MODULE NanoRing_proofs ---------------------------
(***************************************************************************)
(* Proofs about the ring buffer of NanoLog, where no line is ever in two   *)
(* places, and about its files.                                            *)
(***************************************************************************)
EXTENDS NanoRing, SequenceTheorems, WellFoundedInduction, TLAPS

-----------------------------------------------------------------------------
(* The inductive invariant *)

\* Only lines that got an index are anywhere.
OnlyClaimed ==
  /\ \A p \in Producers : hand[p] <= claims
  /\ \A s \in Slots : ring[s] <= claims
  /\ \A i \in 1..Len(logged) : logged[i] <= claims
  /\ \A l \in dropped : l <= claims

\* No two producers have the same line.
OneHand == \A p, q \in Producers : hand[p] = hand[q] /\ hand[p] # 0 => p = q

RingInv == Accounted /\ OnlyClaimed /\ OneHand

-----------------------------------------------------------------------------
LEMMA Remainder ==
  ASSUME NEW x \in Int, NEW n \in Nat \ {0}
  PROVE  x % n \in 0..n - 1
OBVIOUS

LEMMA TypeInit == Init => TypeOK
<1> SUFFICES ASSUME Init PROVE TypeOK
  OBVIOUS
<1>1. ring \in [Slots -> Lines \cup {0}] /\ hand \in [Producers -> Lines \cup {0}]
  BY DEF Init
<1>2. at \in [Producers -> Slots]
  BY RingAssumption DEF Init, Slots
<1>3. claims \in 0..MaxLines
  BY WriterAssumption DEF Init
<1>4. overrun \in BOOLEAN
  BY Zenon DEF Init
<1>5. LoggerType
  BY DEF Init, LoggerInit, LoggerType
<1>6. m_write_index \in 0..Wrap - 1 /\ m_read_index \in 0..Wrap - 1
  BY RingAssumption DEF Init
<1> QED
  BY <1>1, <1>2, <1>3, <1>4, <1>5, <1>6 DEF Init, TypeOK

LEMMA TypeNext == TypeOK /\ [Next]_vars => TypeOK'
<1> SUFFICES ASSUME TypeOK, [Next]_vars PROVE TypeOK'
  OBVIOUS
<1> USE DEF TypeOK
<1>1. ASSUME NEW p \in Producers, Claim(p) PROVE TypeOK'
  <2>1. (m_write_index + 1) % Wrap \in 0..Wrap - 1
    BY RingAssumption, Remainder
  <2>2. m_write_index % Size \in Slots
    BY RingAssumption, Remainder DEF Slots
  <2>3. claims + 1 \in Lines
    BY <1>1, WriterAssumption DEF Claim, Lines
  <2>4. overrun' \in BOOLEAN
    BY <1>1 DEF Claim
  <2> QED
    BY <1>1, <2>1, <2>2, <2>3, <2>4, WriterAssumption
    DEF Claim, loggerVars, LoggerType, Lines
<1>2. ASSUME NEW p \in Producers, Fill(p) PROVE TypeOK'
  <2>1. hand[p] \in Lines /\ at[p] \in Slots /\ 0 \in Lines \cup {0}
    BY <1>2 DEF Fill
  <2>2. dropped' \subseteq Lines
    BY <1>2, <2>1 DEF Fill
  <2>3. ring' \in [Slots -> Lines \cup {0}] /\ hand' \in [Producers -> Lines \cup {0}]
    BY <1>2, <2>1 DEF Fill
  <2> QED
    BY <1>2, <2>2, <2>3 DEF Fill, loggerVars, LoggerType
<1>3. CASE TryPop
  <2> DEFINE s == m_read_index % Size
  <2>1. s \in Slots /\ (m_read_index + 1) % Wrap \in 0..Wrap - 1
    BY RingAssumption, Remainder DEF Slots
  <2>2. CASE ring[s] # 0
    <3>1. Got(ring[s]) /\ ring' = [ring EXCEPT ![s] = 0]
          /\ m_read_index' = (m_read_index + 1) % Wrap
          /\ UNCHANGED <<m_write_index, hand, at, history>>
      BY <1>3, <2>2 DEF TryPop
    <3>2. ring[s] \in Lines
      BY <2>1, <2>2
    <3>3. LoggerType'
      BY <3>1, <3>2, <1>3 DEF Got, Log, LoggerType, TryPop
    <3> QED
      BY <2>1, <3>1, <3>3 DEF history
  <2>3. CASE ring[s] = 0
    BY <1>3, <2>3 DEF TryPop, GotNothing, LoggerType, history
  <2> QED
    BY <2>2, <2>3
<1>4. CASE Run
  BY <1>4 DEF Run, Ready, Awake, Loop, LoggerType, history
<1>5. CASE Destroy
  BY <1>5 DEF Destroy, Shutdown, LoggerType, history
<1>6. CASE UNCHANGED vars
  BY <1>6 DEF vars, loggerVars, LoggerType
<1> QED
  BY <1>1, <1>2, <1>3, <1>4, <1>5, <1>6 DEF Next

LEMMA RingInit == Init => RingInv
<1> SUFFICES ASSUME Init PROVE RingInv
  OBVIOUS
<1>1. TypeOK
  BY TypeInit
<1>2. logged = <<>> /\ claims = 0 /\ dropped = {}
  BY DEF Init, LoggerInit
<1>3. Accounted
  BY <1>1, <1>2 DEF Init, Accounted
<1>4. OnlyClaimed /\ OneHand
  BY <1>2 DEF Init, OnlyClaimed, OneHand
<1> QED
  BY <1>3, <1>4 DEF RingInv

\* A line gets its index and is in its producer's hands, and nowhere else.
LEMMA ClaimKeeps ==
  ASSUME RingInv, TypeOK', NEW p \in Producers, Claim(p)
  PROVE  RingInv'
<1>0. TypeOK /\ OnlyClaimed /\ OneHand
  BY DEF RingInv, Accounted
<1>1. /\ hand[p] = 0 /\ claims' = claims + 1 /\ claims \in Nat
      /\ hand' = [hand EXCEPT ![p] = claims + 1]
      /\ UNCHANGED <<ring, dropped, logged>>
  BY <1>0, WriterAssumption DEF Claim, loggerVars, TypeOK
<1>2. \A q \in Producers : hand'[q] = IF q = p THEN claims + 1 ELSE hand[q]
  BY <1>0, <1>1 DEF TypeOK
<1>3. /\ \A q \in Producers : hand[q] \in Int
      /\ \A s \in Slots : ring[s] \in Int
      /\ \A k \in 1..Len(logged) : logged[k] \in Int
      /\ \A l \in dropped : l \in Int
  <2>1. Lines \subseteq Int /\ 0 \in Int
    BY WriterAssumption DEF Lines
  <2>2. \A k \in 1..Len(logged) : logged[k] \in Lines
    BY <1>0 DEF TypeOK, LoggerType
  <2> QED
    BY <1>0, <2>1, <2>2 DEF TypeOK
<1>4. OnlyClaimed'
  BY <1>0, <1>1, <1>2, <1>3 DEF OnlyClaimed
<1>5. OneHand'
  BY <1>0, <1>1, <1>2, <1>3 DEF OneHand, OnlyClaimed
<1>6. ASSUME NEW l \in 1..claims'
      PROVE  /\ InHand(l)' \/ InRing(l)' \/ IsLogged(l)' \/ l \in dropped'
             /\ InHand(l)' => ~InRing(l)' /\ ~IsLogged(l)' /\ l \notin dropped'
             /\ InRing(l)' => ~IsLogged(l)' /\ l \notin dropped'
             /\ IsLogged(l)' => l \notin dropped'
  <2>1. InRing(l)' = InRing(l) /\ IsLogged(l)' = IsLogged(l) /\ dropped' = dropped
    BY <1>1 DEF InRing, IsLogged
  <2>2. CASE l = claims + 1
    <3>1. InHand(l)'
      BY <1>2, <2>2 DEF InHand
    <3>2. ~InRing(l) /\ ~IsLogged(l) /\ l \notin dropped
      BY <1>0, <1>1, <1>3, <2>2 DEF OnlyClaimed, InRing, IsLogged
    <3> QED
      BY <2>1, <3>1, <3>2
  <2>3. CASE l # claims + 1
    <3>1. l \in 1..claims
      BY <1>1, <2>3
    <3>2. InHand(l)' = InHand(l)
      BY <1>1, <1>2, <2>3, <3>1 DEF InHand
    <3> QED
      BY <2>1, <3>1, <3>2 DEF RingInv, Accounted
  <2> QED
    BY <2>2, <2>3
<1> QED
  BY <1>1, <1>4, <1>5, <1>6 DEF RingInv, Accounted

\* A line goes into its item, and what was there is dropped.
LEMMA FillKeeps ==
  ASSUME RingInv, TypeOK', NEW p \in Producers, Fill(p)
  PROVE  RingInv'
<1> DEFINE line == hand[p]
           old  == ring[at[p]]
<1>0. TypeOK /\ OnlyClaimed /\ OneHand
  BY DEF RingInv, Accounted
<1>1. /\ line # 0 /\ at[p] \in Slots
      /\ ring' = [ring EXCEPT ![at[p]] = line]
      /\ dropped' = IF old = 0 THEN dropped ELSE dropped \cup {old}
      /\ hand' = [hand EXCEPT ![p] = 0]
      /\ UNCHANGED <<claims, logged>>
  BY <1>0 DEF Fill, loggerVars, TypeOK
<1>2. /\ \A q \in Producers : hand'[q] = IF q = p THEN 0 ELSE hand[q]
      /\ \A s \in Slots : ring'[s] = IF s = at[p] THEN line ELSE ring[s]
  BY <1>0, <1>1 DEF TypeOK
<1>3. /\ \A q \in Producers : hand[q] \in Nat
      /\ \A s \in Slots : ring[s] \in Nat
      /\ claims \in Nat
  <2>1. Lines \cup {0} \subseteq Nat
    BY WriterAssumption DEF Lines
  <2> QED
    BY <1>0, <2>1, WriterAssumption DEF TypeOK
<1>4. line \in 1..claims
  BY <1>0, <1>1, <1>3 DEF OnlyClaimed
<1>5. ~InRing(line) /\ ~IsLogged(line) /\ line \notin dropped
  BY <1>4 DEF RingInv, Accounted, InHand
<1>6. ASSUME old # 0
      PROVE  old \in 1..claims /\ ~InHand(old) /\ ~IsLogged(old) /\ old # line
  BY <1>0, <1>1, <1>3, <1>5, <1>6 DEF OnlyClaimed, RingInv, Accounted, InRing
<1>7. OnlyClaimed'
  BY <1>0, <1>1, <1>2, <1>3 DEF OnlyClaimed
<1>8. OneHand'
  BY <1>0, <1>2 DEF OneHand
<1>9. \A s, t \in Slots : ring'[s] = ring'[t] /\ ring'[s] # 0 => s = t
  BY <1>1, <1>2, <1>5 DEF RingInv, Accounted, InRing
<1>10. ASSUME NEW l \in 1..claims
       PROVE  /\ InHand(l)' \/ InRing(l)' \/ IsLogged(l)' \/ l \in dropped'
              /\ InHand(l)' => ~InRing(l)' /\ ~IsLogged(l)' /\ l \notin dropped'
              /\ InRing(l)' => ~IsLogged(l)' /\ l \notin dropped'
              /\ IsLogged(l)' => l \notin dropped'
  <2>0. /\ InHand(l) \/ InRing(l) \/ IsLogged(l) \/ l \in dropped
        /\ InHand(l) => ~InRing(l) /\ ~IsLogged(l) /\ l \notin dropped
        /\ InRing(l) => ~IsLogged(l) /\ l \notin dropped
        /\ IsLogged(l) => l \notin dropped
    BY DEF RingInv, Accounted
  <2>1. IsLogged(l)' = IsLogged(l)
    BY <1>1 DEF IsLogged
  <2>2. CASE l = line
    <3>1. InRing(l)'
      BY <1>1, <1>2, <2>2 DEF InRing
    <3>2. ~InHand(l)'
      BY <1>0, <1>1, <1>2, <2>2 DEF InHand, OneHand
    <3>3. l \notin dropped'
      BY <1>1, <1>5, <1>6, <2>2
    <3> QED
      BY <1>5, <2>1, <2>2, <3>1, <3>2, <3>3
  <2>3. CASE l # line /\ l = old
    <3>1. ~InHand(l)'
      BY <1>2, <1>6, <2>3 DEF InHand
    <3>2. ~InRing(l)'
      BY <1>1, <1>2, <2>3 DEF InRing, RingInv, Accounted
    <3>3. l \in dropped' /\ ~IsLogged(l)
      BY <1>1, <1>6, <2>3
    <3> QED
      BY <2>1, <3>1, <3>2, <3>3
  <2>4. CASE l # line /\ l # old
    <3>1. InHand(l)' = InHand(l)
      BY <1>1, <1>2, <2>4 DEF InHand
    <3>2. InRing(l)' = InRing(l)
      BY <1>1, <1>2, <2>4 DEF InRing
    <3>3. l \in dropped' <=> l \in dropped
      BY <1>1, <2>4
    <3> QED
      BY <2>0, <2>1, <3>1, <3>2, <3>3
  <2> QED
    BY <2>2, <2>3, <2>4
<1> HIDE DEF line, old
<1> QED
  BY <1>1, <1>7, <1>8, <1>9, <1>10 DEF RingInv, Accounted

\* The logger's thread takes a line out of its item and writes it.
LEMMA TryPopKeeps ==
  ASSUME RingInv, TypeOK', TryPop
  PROVE  RingInv'
<1> DEFINE s == m_read_index % Size
           line == ring[s]
<1>0. TypeOK /\ OnlyClaimed /\ OneHand
  BY DEF RingInv, Accounted
<1>1. s \in Slots
  BY <1>0, RingAssumption, Remainder DEF Slots, TypeOK
<1>2. CASE line = 0
  BY <1>2, <1>0 DEF TryPop, GotNothing, RingInv, Accounted, OnlyClaimed, OneHand, InHand,
     InRing, IsLogged, history
<1>3. CASE line # 0
  <2>1. /\ ring' = [ring EXCEPT ![s] = 0]
        /\ logged' = Append(logged, line)
        /\ UNCHANGED <<hand, claims, dropped>>
    BY <1>3 DEF TryPop, Got, Log, history
  <2>2. \A t \in Slots : ring'[t] = IF t = s THEN 0 ELSE ring[t]
    BY <1>0, <1>1, <2>1 DEF TypeOK
  <2>3. /\ line \in Lines /\ line \in 1..claims /\ logged \in Seq(Lines)
        /\ claims \in Nat
    BY <1>0, <1>1, <1>3, WriterAssumption DEF TypeOK, LoggerType, Lines, OnlyClaimed
  <2> HIDE DEF line, s
  <2>4. /\ Len(logged') = Len(logged) + 1 /\ Len(logged) \in Nat
        /\ \A i \in 1..Len(logged) : logged'[i] = logged[i]
        /\ logged'[Len(logged) + 1] = line
    BY <2>1, <2>3
  <2>5. InRing(line)
    BY <1>1 DEF InRing, line
  <2>6. ~InHand(line) /\ ~IsLogged(line) /\ line \notin dropped
    BY <2>3, <2>5 DEF RingInv, Accounted
  <2>7. OnlyClaimed'
    BY <1>0, <1>3, <2>1, <2>2, <2>3, <2>4 DEF OnlyClaimed
  <2>8. OneHand'
    BY <1>0, <2>1 DEF OneHand
  <2>9. \A i, j \in 1..Len(logged') : logged'[i] = logged'[j] => i = j
    BY <2>4, <2>6 DEF RingInv, Accounted, IsLogged
  <2>10. \A t, u \in Slots : ring'[t] = ring'[u] /\ ring'[t] # 0 => t = u
    BY <2>2 DEF RingInv, Accounted
  <2>11. ASSUME NEW l \in 1..claims
         PROVE  /\ InHand(l)' \/ InRing(l)' \/ IsLogged(l)' \/ l \in dropped'
                /\ InHand(l)' => ~InRing(l)' /\ ~IsLogged(l)' /\ l \notin dropped'
                /\ InRing(l)' => ~IsLogged(l)' /\ l \notin dropped'
                /\ IsLogged(l)' => l \notin dropped'
    <3>0. /\ InHand(l) \/ InRing(l) \/ IsLogged(l) \/ l \in dropped
          /\ InHand(l) => ~InRing(l) /\ ~IsLogged(l) /\ l \notin dropped
          /\ InRing(l) => ~IsLogged(l) /\ l \notin dropped
          /\ IsLogged(l) => l \notin dropped
      BY DEF RingInv, Accounted
    <3>1. InHand(l)' = InHand(l) /\ dropped' = dropped
      BY <2>1 DEF InHand
    <3>2. IsLogged(l)' <=> IsLogged(l) \/ l = line
      BY <2>4 DEF IsLogged
    <3>3. InRing(l)' <=> InRing(l) /\ l # line
      BY <1>1, <1>3, <2>2 DEF InRing, line, RingInv, Accounted
    <3> QED
      BY <2>6, <3>0, <3>1, <3>2, <3>3
  <2> QED
    BY <2>1, <2>7, <2>8, <2>9, <2>10, <2>11 DEF RingInv, Accounted
<1> QED
  BY <1>2, <1>3

LEMMA RingStep == RingInv /\ [Next]_vars => RingInv'
<1> SUFFICES ASSUME RingInv, [Next]_vars PROVE RingInv'
  OBVIOUS
<1>1. TypeOK'
  BY TypeNext DEF RingInv, Accounted
<1>2. CASE \E p \in Producers : Claim(p) \/ Fill(p)
  BY <1>1, <1>2, ClaimKeeps, FillKeeps
<1>3. CASE TryPop
  BY <1>1, <1>3, TryPopKeeps
<1>4. CASE Run \/ Destroy \/ UNCHANGED vars
  <2>1. UNCHANGED <<ring, hand, logged, claims, dropped>>
    BY <1>4 DEF Run, Ready, Awake, Loop, Destroy, Shutdown, history, vars, loggerVars
  <2> QED
    BY <1>1, <2>1 DEF RingInv, Accounted, OnlyClaimed, OneHand, InHand, InRing, IsLogged
<1> QED
  BY <1>2, <1>3, <1>4 DEF Next

\* Every line that got an index of the ring is in exactly one place, in its
\* producer's hands, in one item, in the file or dropped, for any size of the
\* ring, any width of its indices and any number of producers.
THEOREM EveryLineAccounted == Spec => []Accounted
<1>1. RingInv => Accounted
  BY DEF RingInv
<1> QED
  BY <1>1, RingInit, RingStep, PTL DEF Spec

-----------------------------------------------------------------------------
(* Remainders: the slot of an index that wraps *)

LEMMA QuotientAndRest ==
  ASSUME NEW x \in Int, NEW n \in Nat \ {0}
  PROVE  \E q \in Int : x = n * q + (x % n)
<1> DEFINE q == x \div n
<1>0. n \in Nat /\ n > 0
  OBVIOUS
<1>1. x = n * q + (x % n) /\ q \in Int
  BY <1>0
<1> HIDE DEF q
<1> QED
  BY <1>1

LEMMA UniqueRest ==
  ASSUME NEW n \in Nat \ {0}, NEW q \in Int, NEW r \in 0..n - 1, NEW x \in Int,
         x = n * q + r
  PROVE  x % n = r
<1> DEFINE d == x % n
<1>1. PICK k \in Int : x = n * k + d
  BY QuotientAndRest
<1>2. d \in 0..n - 1
  BY Remainder
<1> HIDE DEF d
<1>3. d - r = n * (q - k)
  BY <1>1, <1>2
<1>4. q - k = 0
  BY <1>2, <1>3
<1>5. d = r
  BY <1>2, <1>3, <1>4
<1> QED
  BY <1>5 DEF d

\* Two numbers with the same remainder are a multiple apart.
LEMMA SameRest ==
  ASSUME NEW a \in Int, NEW b \in Int, NEW n \in Nat \ {0}, a % n = b % n, a < b
  PROVE  a + n <= b
<1> DEFINE r == a % n
<1>1. PICK j \in Int : a = n * j + r
  BY QuotientAndRest
<1>2. PICK k \in Int : b = n * k + r
  BY QuotientAndRest
<1>3. r \in 0..n - 1
  BY Remainder
<1> HIDE DEF r
<1>4. b - a = n * (k - j)
  BY <1>1, <1>2, <1>3
<1>5. k - j >= 1
  BY <1>4
<1> QED
  BY <1>4, <1>5

LEMMA NextRest ==
  ASSUME NEW x \in Int, NEW n \in Nat \ {0}
  PROVE  ((x % n) + 1) % n = (x + 1) % n
<1> DEFINE r == x % n
           t == r + 1
           s == t % n
           y == x + 1
<1>1. PICK q \in Int : x = n * q + r
  BY QuotientAndRest
<1>2. r \in 0..n - 1 /\ t \in Int /\ y \in Int
  BY Remainder
<1> HIDE DEF t, y
<1>3. PICK k \in Int : t = n * k + s
  BY <1>2, QuotientAndRest
<1>4. s \in 0..n - 1
  BY <1>2, Remainder
<1> HIDE DEF r, s
<1>5. y = n * (q + k) + s
  BY <1>1, <1>2, <1>3, <1>4 DEF t, y
<1>6. PICK j \in Int : j = q + k
  OBVIOUS
<1>7. y % n = s
  BY <1>2, <1>4, <1>5, <1>6, UniqueRest
<1> QED
  BY <1>7 DEF r, s, t, y

LEMMA RestOfRest ==
  ASSUME NEW x \in Int, NEW n \in Nat \ {0}, NEW w \in Nat \ {0}, w % n = 0
  PROVE  (x % w) % n = x % n
<1>1. PICK q \in Int : x = w * q + (x % w)
  BY QuotientAndRest
<1>2. PICK y \in Int : y = x % w
  BY Remainder
<1>3. PICK k \in Int : y = n * k + (y % n)
  BY QuotientAndRest
<1>4. PICK r \in 0..n - 1 : r = y % n
  BY Remainder
<1>5. PICK m \in Int : w = n * m + (w % n)
  <2>1. w \in Int
    OBVIOUS
  <2> QED
    BY <2>1, QuotientAndRest
<1>6. w = n * m
  BY <1>5
<1>7. x = w * q + (n * k + r)
  BY <1>1, <1>2, <1>3, <1>4
<1>8. PICK j \in Int : j = m * q + k
  OBVIOUS
<1>9. x = n * j + r
  <2>1. n * j = n * (m * q) + n * k
    BY <1>8
  <2>2. n * (m * q) = w * q
    BY <1>6
  <2> QED
    BY <1>7, <2>1, <2>2
<1>10. x % n = r
  BY <1>9, UniqueRest
<1> QED
  BY <1>2, <1>4, <1>10

-----------------------------------------------------------------------------
(* No loss without an overrun *)

\* The item of a line.
SlotOf(l) == (l - 1) % Size

\* The indices count the lines claimed and logged, until they wrap.
Indices ==
  /\ m_write_index = claims % Wrap
  /\ m_read_index = Len(logged) % Wrap

\* Until an overrun the lines under way are the last ones claimed, at most as
\* many as there are items, and each has an item of its own.
InOrder ==
  ~overrun =>
    /\ Len(logged) <= claims /\ claims <= Len(logged) + Size
    /\ dropped = {}
    /\ \A i \in 1..Len(logged) : logged[i] = i
    /\ \A p \in Producers : hand[p] # 0 => at[p] = SlotOf(hand[p])
    /\ \A s \in Slots : ring[s] # 0 => s = SlotOf(ring[s])

\* The thread drains once nobody logs any more, and ends with nothing left.
Ending ==
  /\ thread # "init" => state # "INIT"
  /\ thread \in {"drain", "exit"} => state = "SHUTDOWN"
  /\ state = "SHUTDOWN" => Idle
  /\ thread = "exit" /\ ~overrun => Len(logged) = claims

LossInv == RingInv /\ Indices /\ InOrder /\ Ending

\* Until an overrun a line under way has not been logged, and no other line
\* under way has its item.
LEMMA Window ==
  ASSUME LossInv, ~overrun, NEW l \in 1..claims, ~IsLogged(l)
  PROVE  /\ Len(logged) < l
         /\ \A m \in 1..claims : ~IsLogged(m) /\ SlotOf(m) = SlotOf(l) => m = l
         /\ SlotOf(l) = Len(logged) % Size => l = Len(logged) + 1
<1>0. /\ Len(logged) \in Nat /\ claims \in Nat /\ claims <= Len(logged) + Size
      /\ \A i \in 1..Len(logged) : logged[i] = i
      /\ Size \in Nat \ {0}
  BY RingAssumption, WriterAssumption
  DEF LossInv, InOrder, RingInv, Accounted, TypeOK, LoggerType
<1>1. \A m \in 1..claims : ~IsLogged(m) => Len(logged) < m
  BY <1>0 DEF IsLogged
<1>2. ASSUME NEW m \in 1..claims, ~IsLogged(m), SlotOf(m) = SlotOf(l)
      PROVE  m = l
  <2>1. PICK a \in Int : a = l - 1
    OBVIOUS
  <2>2. PICK b \in Int : b = m - 1
    OBVIOUS
  <2>3. a % Size = b % Size
    BY <1>2, <2>1, <2>2 DEF SlotOf
  <2>4. /\ a < b => a + Size <= b
        /\ b < a => b + Size <= a
    BY <1>0, <2>3, SameRest
  <2>5. Len(logged) < l /\ Len(logged) < m
    BY <1>1, <1>2
  <2> QED
    BY <1>0, <2>1, <2>2, <2>4, <2>5
<1>3. ASSUME SlotOf(l) = Len(logged) % Size
      PROVE  l = Len(logged) + 1
  <2>1. PICK a \in Int : a = l - 1
    OBVIOUS
  <2>2. PICK b \in Int : b = Len(logged)
    BY <1>0
  <2>3. a % Size = b % Size
    BY <1>3, <2>1, <2>2 DEF SlotOf
  <2>4. b < a => b + Size <= a
    BY <1>0, <2>3, SameRest
  <2>5. Len(logged) < l
    BY <1>1
  <2> QED
    BY <1>0, <2>1, <2>2, <2>4, <2>5
<1> QED
  BY <1>1, <1>2, <1>3

LEMMA LossInit == Init => LossInv
<1> SUFFICES ASSUME Init PROVE LossInv
  OBVIOUS
<1>1. RingInv
  BY RingInit
<1>2. logged = <<>> /\ claims = 0 /\ dropped = {} /\ state = "INIT" /\ thread = "init"
  BY DEF Init, LoggerInit
<1>3. Indices
  <2>1. 0 % Wrap = 0
    BY RingAssumption
  <2> QED
    BY <1>2, <2>1 DEF Init, Indices
<1>4. InOrder
  BY <1>2, RingAssumption DEF Init, InOrder
<1>5. Ending
  BY <1>2 DEF Ending
<1> QED
  BY <1>1, <1>3, <1>4, <1>5 DEF LossInv

LEMMA LossClaim ==
  ASSUME LossInv, RingInv', Wrap % Size = 0, NEW p \in Producers, Claim(p)
  PROVE  LossInv'
<1>0. TypeOK /\ Indices /\ InOrder /\ Ending
  BY DEF LossInv, RingInv, Accounted
<1>1. /\ state = "READY" /\ hand[p] = 0
      /\ claims' = claims + 1
      /\ hand' = [hand EXCEPT ![p] = claims + 1]
      /\ at' = [at EXCEPT ![p] = m_write_index % Size]
      /\ m_write_index' = (m_write_index + 1) % Wrap
      /\ overrun' = (overrun \/ claims + 1 - Len(logged) > Size)
      /\ UNCHANGED <<state, thread, logged, m_read_index, ring, dropped>>
  BY DEF Claim, loggerVars
<1>2. claims \in Int /\ Len(logged) \in Nat /\ Size \in Nat \ {0} /\ Wrap \in Nat \ {0}
  BY <1>0, RingAssumption, WriterAssumption DEF TypeOK, LoggerType
<1>3. Indices'
  BY <1>0, <1>1, <1>2, NextRest DEF Indices
<1>4. at'[p] = SlotOf(claims + 1)
  <2>1. (claims % Wrap) % Size = claims % Size
    BY <1>2, RestOfRest
  <2>2. (claims + 1) - 1 = claims
    BY <1>2
  <2> QED
    BY <1>0, <1>1, <2>1, <2>2 DEF Indices, SlotOf, TypeOK
<1>5. InOrder'
  <2> SUFFICES ASSUME ~overrun' PROVE InOrder'
    BY DEF InOrder
  <2>1. ~overrun /\ claims + 1 - Len(logged) <= Size
    <3>1. ~overrun /\ ~(claims + 1 - Len(logged) > Size)
      BY <1>1, Zenon
    <3> QED
      BY <1>2, <3>1
  <2>2. \A q \in Producers : hand'[q] # 0 => at'[q] = SlotOf(hand'[q])
    BY <1>0, <1>1, <1>4, <2>1 DEF InOrder, TypeOK
  <2> QED
    BY <1>0, <1>1, <1>2, <2>1, <2>2 DEF InOrder, SlotOf
<1>6. Ending'
  BY <1>0, <1>1 DEF Ending
<1> QED
  BY <1>3, <1>5, <1>6 DEF LossInv

LEMMA LossFill ==
  ASSUME LossInv, RingInv', NEW p \in Producers, Fill(p)
  PROVE  LossInv'
<1>0. TypeOK /\ Indices /\ InOrder /\ Ending /\ RingInv
  BY DEF LossInv, RingInv, Accounted
<1>1. /\ hand[p] # 0 /\ at[p] \in Slots
      /\ ring' = [ring EXCEPT ![at[p]] = hand[p]]
      /\ dropped' = IF ring[at[p]] = 0 THEN dropped ELSE dropped \cup {ring[at[p]]}
      /\ hand' = [hand EXCEPT ![p] = 0]
      /\ UNCHANGED <<state, thread, logged, m_write_index, m_read_index, at, claims,
                     overrun>>
  BY <1>0 DEF Fill, loggerVars, TypeOK
<1>2. Indices'
  BY <1>0, <1>1 DEF Indices
<1>3. Ending'
  BY <1>0, <1>1 DEF Ending, Idle, TypeOK
<1>4. ASSUME ~overrun
      PROVE  ring[at[p]] = 0
  <2> SUFFICES ASSUME ring[at[p]] # 0 PROVE FALSE
    OBVIOUS
  <2> DEFINE l == hand[p]
             m == ring[at[p]]
  <2>0. Lines \cup {0} \subseteq Nat /\ claims \in Nat
    BY <1>0, WriterAssumption DEF Lines, TypeOK
  <2>1. l \in 1..claims /\ m \in 1..claims
    BY <1>0, <1>1, <2>0 DEF TypeOK, RingInv, OnlyClaimed
  <2>2. InHand(l) /\ InRing(m)
    BY <1>1 DEF InHand, InRing
  <2>3. SlotOf(m) = SlotOf(l)
    BY <1>0, <1>1, <1>4 DEF InOrder
  <2> HIDE DEF l, m
  <2>4. ~IsLogged(l) /\ ~IsLogged(m) /\ ~InRing(l)
    BY <1>0, <2>1, <2>2 DEF RingInv, Accounted
  <2>5. m = l
    BY <1>4, <2>1, <2>3, <2>4, Window
  <2> QED
    BY <2>2, <2>4, <2>5
<1>5. InOrder'
  <2> SUFFICES ASSUME ~overrun PROVE InOrder'
    BY <1>1 DEF InOrder
  <2>1. dropped' = dropped
    BY <1>1, <1>4
  <2>2. \A s \in Slots : ring'[s] # 0 => s = SlotOf(ring'[s])
    BY <1>0, <1>1 DEF InOrder, TypeOK
  <2>3. \A q \in Producers : hand'[q] # 0 => at'[q] = SlotOf(hand'[q])
    BY <1>0, <1>1 DEF InOrder, TypeOK
  <2> QED
    BY <1>0, <1>1, <2>1, <2>2, <2>3 DEF InOrder
<1> QED
  BY <1>2, <1>3, <1>5 DEF LossInv

LEMMA LossTryPop ==
  ASSUME LossInv, RingInv', Wrap % Size = 0, TryPop
  PROVE  LossInv'
<1> DEFINE s == m_read_index % Size
           n == Len(logged)
<1>0. TypeOK /\ Indices /\ InOrder /\ Ending /\ RingInv
  BY DEF LossInv, RingInv, Accounted
<1>1. /\ n \in Nat /\ claims \in Nat /\ Size \in Nat \ {0} /\ Wrap \in Nat \ {0}
      /\ Lines \cup {0} \subseteq Nat
  BY <1>0, RingAssumption, WriterAssumption DEF TypeOK, LoggerType, Lines
<1>2. s = n % Size /\ s \in Slots
  <2>1. (n % Wrap) % Size = n % Size
    <3>1. PICK k \in Int : k = n
      BY <1>1
    <3> QED
      BY <1>1, <3>1, RestOfRest
  <2>2. m_read_index \in Int
    BY <1>0 DEF TypeOK
  <2> QED
    BY <1>0, <1>1, <2>1, <2>2, Remainder DEF Indices, Slots
<1> HIDE DEF s
<1>3. CASE ring[s] # 0
  <2> DEFINE l == ring[s]
  <2>1. /\ thread \in {"pop", "drain"}
        /\ thread' = IF thread = "drain" THEN "drain" ELSE "loop"
        /\ ring' = [ring EXCEPT ![s] = 0]
        /\ logged' = Append(logged, l)
        /\ m_read_index' = (m_read_index + 1) % Wrap
        /\ UNCHANGED <<state, m_write_index, hand, at, claims, overrun, dropped>>
    BY <1>3 DEF TryPop, Got, Log, history, s
  <2>2. l \in 1..claims /\ l \in Lines /\ InRing(l)
    BY <1>0, <1>1, <1>2, <1>3 DEF TypeOK, RingInv, OnlyClaimed, InRing
  <2>3. ~overrun => SlotOf(l) = s
    BY <1>0, <1>2, <1>3 DEF InOrder
  <2> HIDE DEF l
  <2>4. ~IsLogged(l)
    BY <1>0, <2>2 DEF RingInv, Accounted
  <2>5. ~overrun => l = n + 1
    BY <1>2, <2>2, <2>3, <2>4, Window
  <2>6. /\ Len(logged') = n + 1
        /\ \A i \in 1..n : logged'[i] = logged[i]
        /\ logged'[n + 1] = l
    BY <1>0, <2>1, <2>2 DEF TypeOK, LoggerType
  <2>7. Indices'
    <3>1. PICK k \in Int : k = n
      BY <1>1
    <3>2. ((k % Wrap) + 1) % Wrap = (k + 1) % Wrap
      BY <1>1, NextRest
    <3> QED
      BY <1>0, <2>1, <2>6, <3>1, <3>2 DEF Indices
  <2>8. Ending'
    BY <1>0, <2>1 DEF Ending, Idle
  <2>9. InOrder'
    <3> SUFFICES ASSUME ~overrun PROVE InOrder'
      BY <2>1 DEF InOrder
    <3>1. \A i \in 1..Len(logged') : logged'[i] = i
      BY <1>0, <1>1, <2>5, <2>6 DEF InOrder
    <3>2. \A t \in Slots : ring'[t] # 0 => t = SlotOf(ring'[t])
      BY <1>0, <2>1 DEF InOrder, TypeOK
    <3>3. Len(logged') <= claims /\ claims <= Len(logged') + Size
      BY <1>0, <1>1, <2>2, <2>5, <2>6 DEF InOrder
    <3> QED
      BY <1>0, <2>1, <3>1, <3>2, <3>3 DEF InOrder, SlotOf
  <2> QED
    BY <2>7, <2>8, <2>9 DEF LossInv
<1>4. CASE ring[s] = 0
  <2>1. /\ thread \in {"pop", "drain"}
        /\ thread' = IF thread = "drain" THEN "exit" ELSE "loop"
        /\ UNCHANGED <<state, logged, ring, m_read_index, m_write_index, hand, at,
                       claims, overrun, dropped>>
    BY <1>4 DEF TryPop, GotNothing, history, s
  <2>2. ASSUME thread = "drain", ~overrun
        PROVE  n = claims
    <3> SUFFICES ASSUME n < claims PROVE FALSE
      BY <1>0, <1>1, <2>2 DEF InOrder
    <3>1. n + 1 \in 1..claims /\ n + 1 # 0
      BY <1>1
    <3>2. Idle
      BY <1>0, <2>2 DEF Ending
    <3>3. ~InHand(n + 1)
      BY <3>1, <3>2 DEF InHand, Idle
    <3>4. ~IsLogged(n + 1)
      BY <1>0, <1>1, <2>2 DEF IsLogged, InOrder
    <3>5. n + 1 \notin dropped
      BY <1>0, <2>2 DEF InOrder
    <3>6. InRing(n + 1)
      BY <1>0, <3>1, <3>3, <3>4, <3>5 DEF RingInv, Accounted
    <3>7. PICK t \in Slots : ring[t] = n + 1
      BY <3>6 DEF InRing
    <3>8. t = SlotOf(n + 1)
      BY <1>0, <2>2, <3>1, <3>7 DEF InOrder
    <3>9. SlotOf(n + 1) = n % Size
      BY <1>1 DEF SlotOf
    <3> QED
      BY <1>2, <1>4, <3>1, <3>7, <3>8, <3>9
  <2>3. Ending'
    BY <1>0, <2>1, <2>2 DEF Ending, Idle
  <2>4. Indices' /\ InOrder'
    BY <1>0, <2>1 DEF Indices, InOrder, SlotOf
  <2> QED
    BY <2>3, <2>4 DEF LossInv
<1> QED
  BY <1>3, <1>4

LEMMA LossStep == Wrap % Size = 0 /\ LossInv /\ [Next]_vars => LossInv'
<1> SUFFICES ASSUME Wrap % Size = 0, LossInv, [Next]_vars PROVE LossInv'
  OBVIOUS
<1>1. RingInv'
  BY RingStep DEF LossInv
<1>2. CASE \E p \in Producers : Claim(p) \/ Fill(p)
  BY <1>1, <1>2, LossClaim, LossFill
<1>3. CASE TryPop
  BY <1>1, <1>3, LossTryPop
<1>4. CASE Run \/ Destroy \/ UNCHANGED vars
  <2>1. UNCHANGED <<ring, hand, at, logged, claims, dropped, overrun, m_write_index,
                    m_read_index>>
    BY <1>4 DEF Run, Ready, Awake, Loop, Destroy, Shutdown, history, vars, loggerVars
  <2>2. Indices' /\ InOrder'
    BY <2>1 DEF LossInv, Indices, InOrder, SlotOf
  <2>3. Ending'
    <3>0. Ending /\ TypeOK
      BY DEF LossInv, RingInv, Accounted
    <3>1. CASE Run
      BY <2>1, <3>0, <3>1
      DEF Run, Ready, Awake, Loop, Ending, Idle, TypeOK, LoggerType
    <3>2. CASE Destroy
      BY <2>1, <3>0, <3>2 DEF Destroy, Shutdown, Ending, Idle
    <3>3. CASE UNCHANGED vars
      BY <2>1, <3>0, <3>3 DEF vars, loggerVars, Ending, Idle
    <3> QED
      BY <1>4, <3>1, <3>2, <3>3
  <2> QED
    BY <1>1, <2>2, <2>3 DEF LossInv
<1> QED
  BY <1>2, <1>3, <1>4 DEF Next

\* While at most m_size lines are under way nothing is lost, the file has the
\* lines in the order of their indices, and the thread ends with all of them
\* written, for every size of the ring that divides the range of the unsigned
\* indices.
THEOREM NoLossWithoutOverrun ==
  ASSUME Wrap % Size = 0
  PROVE  Spec => []LossNeedsOverrun
<1>1. LossInv => LossNeedsOverrun
  BY DEF LossInv, InOrder, Ending, LossNeedsOverrun
<1>2. LossInv /\ [Next]_vars => LossInv'
  BY LossStep
<1> QED
  BY <1>1, <1>2, LossInit, PTL DEF Spec

-----------------------------------------------------------------------------
(* The files *)

\* A set of naturals that is not empty has a least member.
LEMMA LeastOf ==
  ASSUME NEW S \in SUBSET Nat, S # {}
  PROVE  \E m \in S : \A k \in S : m <= k
<1>1. PICK m \in S : \A k \in S : ~(<<k, m>> \in OpToRel(<, Nat))
  BY WFMin, NatLessThanWellFounded
<1>2. ASSUME NEW k \in S PROVE m <= k
  <2>1. ~(k < m)  BY <1>1 DEF OpToRel
  <2> QED  BY <2>1
<1> QED  BY <1>2

Alike(f, g, N) == \A n \in 0..N : f[n] = g[n]

SameSteps(f, g, N) ==
  f[0] = g[0] /\ \A n \in 1..N : f[n - 1] = g[n - 1] => f[n] = g[n]

\* Two functions that begin alike and go on alike are alike.
LEMMA StayAlike ==
  ASSUME NEW N \in Nat, NEW f, NEW g, SameSteps(f, g, N)
  PROVE  Alike(f, g, N)
<1> USE DEF Alike, SameSteps
<1> DEFINE Bad == {n \in 0..N : f[n] # g[n]}
<1> SUFFICES ASSUME Bad # {} PROVE FALSE
  OBVIOUS
<1>1. Bad \in SUBSET Nat
  OBVIOUS
<1>2. PICK m \in Bad : \A k \in Bad : m <= k
  <2> HIDE DEF Bad
  <2> QED  BY <1>1, LeastOf
<1>3. m \in 1..N /\ m - 1 \in 0..N /\ ~ (m <= m - 1)
  OBVIOUS
<1>4. f[m - 1] = g[m - 1]
  BY <1>2, <1>3
<1> QED  BY <1>3, <1>4

\* The values from a on that the functions d lead to.
Leads(S, N, a, d) ==
  \E f \in [0..N -> S] : f[0] = a /\ \A n \in 1..N : f[n] = d[n][f[n - 1]]

\* There are such values.
LEMMA Steps ==
  ASSUME NEW S, NEW N \in Nat, NEW a \in S, NEW d \in [1..N -> [S -> S]]
  PROVE  Leads(S, N, a, d)
<1> DEFINE P(m) == \E f \in [0..m -> S] : f[0] = a /\ \A n \in 1..m : f[n] = d[n][f[n - 1]]
           Bad == {m \in 0..N : ~ P(m)}
<1>0. Bad = {} => P(N)
  <2>1. N \in 0..N  OBVIOUS
  <2> HIDE DEF P
  <2> QED  BY <2>1
<1> SUFFICES ASSUME Bad # {} PROVE FALSE
  BY <1>0 DEF Leads
<1>1. Bad \in SUBSET Nat
  OBVIOUS
<1>2. PICK m \in Bad : \A k \in Bad : m <= k
  <2> HIDE DEF Bad
  <2> QED  BY <1>1, LeastOf
<1>3. m \in 0..N /\ ~ P(m)
  OBVIOUS
<1>4. CASE m = 0
  <2> DEFINE f == [n \in 0..0 |-> a]
  <2>1. f \in [0..0 -> S] /\ f[0] = a /\ 1..0 = {}
    OBVIOUS
  <2>2. P(0)
    BY <2>1
  <2> QED  BY <1>3, <1>4, <2>2
<1>5. CASE m # 0
  <2>1. m - 1 \in 0..N /\ ~ (m <= m - 1) /\ m \in 1..N
    BY <1>3, <1>5
  <2>2. P(m - 1)
    BY <1>2, <2>1
  <2>3. PICK f \in [0..(m - 1) -> S] : f[0] = a /\ \A n \in 1..(m - 1) : f[n] = d[n][f[n - 1]]
    BY <2>2
  <2> DEFINE g == [n \in 0..m |-> IF n = m THEN d[m][f[m - 1]] ELSE f[n]]
  <2>4. m - 1 \in 0..(m - 1) /\ d[m] \in [S -> S]
    BY <2>1
  <2>5. g \in [0..m -> S]
    BY <2>1, <2>4
  <2>6. g[0] = a
    BY <2>1, <2>3
  <2>7. \A n \in 1..m : g[n] = d[n][g[n - 1]]
    BY <2>1, <2>3
  <2>8. P(m)
    BY <2>5, <2>6, <2>7
  <2> QED  BY <1>3, <2>8
<1> QED  BY <1>4, <1>5

\* What Bytes adds up, position by position.
LEMMA BytesSteps ==
  ASSUME NEW s \in Seq(Lines)
  PROVE  \E f \in [0..Len(s) -> Nat] :
           /\ f[0] = 0 /\ \A n \in 1..Len(s) : f[n] = f[n - 1] + SizeOf[s[n]]
           /\ Bytes(s) = f[Len(s)]
<1> DEFINE N == Len(s)
           d == [n \in 1..N |-> [b \in Nat |-> b + SizeOf[s[n]]]]
           R(f) == [n \in 0..N |-> IF n = 0 THEN 0 ELSE f[n - 1] + SizeOf[s[n]]]
           u == CHOOSE f : f = R(f)
<1>1. N \in Nat /\ \A n \in 1..N : SizeOf[s[n]] \in Nat
  BY WriterAssumption
<1>2. d \in [1..N -> [Nat -> Nat]]
  BY <1>1
<1> HIDE DEF N
<1>3. PICK f \in [0..N -> Nat] : f[0] = 0 /\ \A n \in 1..N : f[n] = d[n][f[n - 1]]
  <2> HIDE DEF d
  <2>1. Leads(Nat, N, 0, d)
    BY <1>1, <1>2, Steps
  <2> QED  BY <2>1 DEF Leads
<1>4. \A n \in 1..N : f[n] = f[n - 1] + SizeOf[s[n]]
  <2> TAKE n \in 1..N
  <2>1. n - 1 \in 0..N
    BY <1>1
  <2> QED  BY <1>3, <2>1
<1>5. f = R(f)
  BY <1>1, <1>3, <1>4
<1>6. u = R(u)
  <2> HIDE DEF R
  <2> QED  BY <1>5
<1> HIDE DEF u
<1>7. u[0] = 0 /\ \A n \in 1..N : u[n] = u[n - 1] + SizeOf[s[n]]
  BY <1>1, <1>6
<1>8. \A n \in 0..N : u[n] = f[n]
  <2>1. SameSteps(u, f, N)
    BY <1>3, <1>4, <1>7 DEF SameSteps
  <2>2. Alike(u, f, N)
    BY <1>1, <2>1, StayAlike
  <2> QED  BY <2>2 DEF Alike
<1>9. Bytes(s) = u[N]
  BY DEF Bytes, u, N
<1> QED  BY <1>1, <1>3, <1>4, <1>8, <1>9 DEF N

LEMMA BytesEmpty == Bytes(<<>>) = 0
<1>1. <<>> \in Seq(Lines) /\ Len(<<>>) = 0
  OBVIOUS
<1> QED  BY <1>1, BytesSteps

LEMMA BytesAppend ==
  ASSUME NEW s \in Seq(Lines), NEW x \in Lines
  PROVE  Bytes(s) \in Nat /\ Bytes(Append(s, x)) = Bytes(s) + SizeOf[x]
<1> DEFINE N == Len(s)
           r == Append(s, x)
<1>1. N \in Nat /\ r \in Seq(Lines) /\ Len(r) = N + 1 /\ r[N + 1] = x
      /\ \A n \in 1..N : r[n] = s[n]
  OBVIOUS
<1>2. PICK f \in [0..N -> Nat] :
        /\ f[0] = 0 /\ \A n \in 1..N : f[n] = f[n - 1] + SizeOf[s[n]]
        /\ Bytes(s) = f[N]
  BY BytesSteps
<1> HIDE DEF N, r
<1>3. PICK g \in [0..(N + 1) -> Nat] :
        /\ g[0] = 0 /\ \A n \in 1..(N + 1) : g[n] = g[n - 1] + SizeOf[r[n]]
        /\ Bytes(r) = g[N + 1]
  <2>1. PICK g \in [0..Len(r) -> Nat] :
          /\ g[0] = 0 /\ \A n \in 1..Len(r) : g[n] = g[n - 1] + SizeOf[r[n]]
          /\ Bytes(r) = g[Len(r)]
    BY <1>1, BytesSteps
  <2> QED  BY <1>1, <2>1
<1>4. SameSteps(f, g, N)
  <2>1. \A n \in 1..N : n \in 1..(N + 1)  BY <1>1
  <2> QED  BY <1>1, <1>2, <1>3, <2>1 DEF SameSteps
<1>5. Alike(f, g, N)
  BY <1>1, <1>4, StayAlike
<1>6. N \in 0..N /\ N + 1 \in 1..(N + 1) /\ (N + 1) - 1 = N
  BY <1>1
<1>7. f[N] = g[N] /\ g[N + 1] = g[N] + SizeOf[x] /\ f[N] \in Nat
  BY <1>1, <1>2, <1>3, <1>5, <1>6 DEF Alike
<1> QED  BY <1>2, <1>3, <1>7 DEF r

\* What Joined puts together, file by file.
LEMMA JoinedSteps ==
  ASSUME NEW fs \in Seq(Seq(Lines))
  PROVE  \E f \in [0..Len(fs) -> Seq(Lines)] :
           /\ f[0] = <<>> /\ \A n \in 1..Len(fs) : f[n] = f[n - 1] \o fs[n]
           /\ Joined(fs) = f[Len(fs)]
<1> DEFINE N == Len(fs)
           T == Seq(Lines)
           none == <<>>
           join(t, n) == t \o fs[n]
           d == [n \in 1..N |-> [t \in T |-> join(t, n)]]
           R(f) == [n \in 0..N |-> IF n = 0 THEN none ELSE join(f[n - 1], n)]
           u == CHOOSE f : f = R(f)
<1>1. N \in Nat /\ none \in T /\ \A n \in 1..N : fs[n] \in T
  OBVIOUS
<1>2. d \in [1..N -> [T -> T]]
  <2>1. \A n \in 1..N, t \in T : join(t, n) \in T
    BY <1>1, ConcatProperties
  <2> HIDE DEF T, N, join
  <2> QED  BY <2>1
<1>9. Joined(fs) = u[N]
  BY DEF Joined
<1> HIDE DEF N, T, none, join
<1>3. PICK f \in [0..N -> T] : f[0] = none /\ \A n \in 1..N : f[n] = d[n][f[n - 1]]
  <2> HIDE DEF d
  <2>1. Leads(T, N, none, d)
    BY <1>1, <1>2, Steps
  <2> QED  BY <2>1 DEF Leads
<1>4. \A n \in 1..N : f[n] = join(f[n - 1], n)
  <2> TAKE n \in 1..N
  <2>1. n - 1 \in 0..N
    BY <1>1
  <2> QED  BY <1>3, <2>1
<1>5. f = R(f)
  BY <1>1, <1>3, <1>4
<1>6. u = R(u)
  <2> HIDE DEF R
  <2> QED  BY <1>5
<1> HIDE DEF u
<1>7. u[0] = none /\ \A n \in 1..N : u[n] = join(u[n - 1], n)
  BY <1>1, <1>6
<1>8. \A n \in 0..N : u[n] = f[n]
  <2>1. SameSteps(u, f, N)
    BY <1>3, <1>4, <1>7 DEF SameSteps
  <2>2. Alike(u, f, N)
    BY <1>1, <2>1, StayAlike
  <2> QED  BY <2>2 DEF Alike
<1>10. Joined(fs) = f[N]
  BY <1>1, <1>8, <1>9
<1>11. f \in [0..N -> T] /\ f[0] = none /\ \A n \in 1..N : f[n] = join(f[n - 1], n)
  BY <1>3, <1>4
<1> HIDE DEF d, R
<1> QED  BY <1>10, <1>11, Zenon DEF N, T, none, join

\* The last file grows by a line, or an empty one is begun.
LEMMA JoinedGrows ==
  ASSUME NEW fs \in Seq(Seq(Lines)), fs # <<>>, NEW x \in Lines
  PROVE  LET grown == [fs EXCEPT ![Len(fs)] = Append(fs[Len(fs)], x)]
         IN  grown \in Seq(Seq(Lines)) /\ Joined(grown) = Append(Joined(fs), x)
<1> DEFINE N == Len(fs)
           T == Seq(Lines)
           last == fs[N]
           r == [fs EXCEPT ![N] = Append(last, x)]
<1>1. N \in Nat /\ N > 0 /\ last \in T /\ Append(last, x) \in T
  OBVIOUS
<1>2. r \in Seq(T) /\ Len(r) = N /\ r[N] = Append(last, x)
      /\ \A n \in 1..(N - 1) : r[n] = fs[n]
  OBVIOUS
<1>3. PICK f \in [0..N -> T] :
        /\ f[0] = <<>> /\ \A n \in 1..N : f[n] = f[n - 1] \o fs[n]
        /\ Joined(fs) = f[N]
  BY JoinedSteps
<1> HIDE DEF N, r
<1>4. PICK g \in [0..N -> T] :
        /\ g[0] = <<>> /\ \A n \in 1..N : g[n] = g[n - 1] \o r[n]
        /\ Joined(r) = g[N]
  <2>1. PICK g \in [0..Len(r) -> T] :
          /\ g[0] = <<>> /\ \A n \in 1..Len(r) : g[n] = g[n - 1] \o r[n]
          /\ Joined(r) = g[Len(r)]
    BY <1>2, JoinedSteps
  <2> QED  BY <1>2, <2>1
<1>5. SameSteps(f, g, N - 1)
  <2>1. \A n \in 1..(N - 1) : n \in 1..N  BY <1>1
  <2> QED  BY <1>2, <1>3, <1>4, <2>1 DEF SameSteps
<1>6. Alike(f, g, N - 1)
  <2>1. N - 1 \in Nat  BY <1>1
  <2> QED  BY <1>5, <2>1, StayAlike
<1>7. N \in 1..N /\ N - 1 \in 0..(N - 1) /\ N - 1 \in 0..N
  BY <1>1
<1>8. f[N - 1] = g[N - 1] /\ f[N] = f[N - 1] \o last /\ g[N] = g[N - 1] \o Append(last, x)
      /\ f[N - 1] \in T
  BY <1>2, <1>3, <1>4, <1>6, <1>7 DEF Alike
<1> DEFINE t == f[N - 1]
<1>9. t \o Append(last, x) = Append(t \o last, x)
  <2>1. t \in Seq(Lines) /\ last \in Seq(Lines)
    BY <1>1, <1>8
  <2> HIDE DEF t, last
  <2> QED  BY <2>1
<1> QED  BY <1>2, <1>3, <1>4, <1>8, <1>9 DEF r, N

LEMMA JoinedBegins ==
  ASSUME NEW fs \in Seq(Seq(Lines))
  PROVE  Append(fs, <<>>) \in Seq(Seq(Lines)) /\ Joined(Append(fs, <<>>)) = Joined(fs)
<1> DEFINE N == Len(fs)
           T == Seq(Lines)
           r == Append(fs, <<>>)
<1>1. N \in Nat /\ r \in Seq(T) /\ Len(r) = N + 1 /\ r[N + 1] = <<>>
      /\ \A n \in 1..N : r[n] = fs[n]
  OBVIOUS
<1>2. PICK f \in [0..N -> T] :
        /\ f[0] = <<>> /\ \A n \in 1..N : f[n] = f[n - 1] \o fs[n]
        /\ Joined(fs) = f[N]
  BY JoinedSteps
<1> HIDE DEF N, r
<1>3. PICK g \in [0..(N + 1) -> T] :
        /\ g[0] = <<>> /\ \A n \in 1..(N + 1) : g[n] = g[n - 1] \o r[n]
        /\ Joined(r) = g[N + 1]
  <2>1. PICK g \in [0..Len(r) -> T] :
          /\ g[0] = <<>> /\ \A n \in 1..Len(r) : g[n] = g[n - 1] \o r[n]
          /\ Joined(r) = g[Len(r)]
    BY <1>1, JoinedSteps
  <2> QED  BY <1>1, <2>1
<1>4. SameSteps(f, g, N)
  <2>1. \A n \in 1..N : n \in 1..(N + 1)  BY <1>1
  <2> QED  BY <1>1, <1>2, <1>3, <2>1 DEF SameSteps
<1>5. Alike(f, g, N)
  BY <1>1, <1>4, StayAlike
<1>6. N \in 0..N /\ N + 1 \in 1..(N + 1) /\ (N + 1) - 1 = N /\ N \in 0..(N + 1)
  BY <1>1
<1>7. f[N] = g[N] /\ g[N + 1] = g[N] \o <<>> /\ g[N] \in T
  BY <1>1, <1>2, <1>3, <1>5, <1>6 DEF Alike
<1>8. g[N] \o <<>> = g[N]
  BY <1>7, ConcatEmptySeq
<1> QED  BY <1>1, <1>2, <1>3, <1>7, <1>8 DEF r

\* The roll size fits the unsigned int it is kept in.
RollFits == (IF RollMb < 1 THEN 1 ELSE RollMb) * MegaByte < RollWrap

LEMMA RollSize ==
  ASSUME RollFits
  PROVE  m_log_file_roll_size_bytes \in Nat /\ m_log_file_roll_size_bytes >= RollMb * MegaByte
<1> DEFINE mb == IF RollMb < 1 THEN 1 ELSE RollMb
<1>1. mb \in Nat /\ mb >= RollMb /\ RollMb \in Nat /\ MegaByte \in Nat /\ RollWrap \in Nat \ {0}
  BY WriterAssumption
<1>2. mb * MegaByte < RollWrap /\ m_log_file_roll_size_bytes = (mb * MegaByte) % RollWrap
  BY DEF RollFits, m_log_file_roll_size_bytes
<1> HIDE DEF mb
<1>3. PICK p \in Nat : p = mb * MegaByte
  BY <1>1
<1>4. mb * MegaByte >= RollMb * MegaByte
  <2>1. PICK k \in Nat : mb = RollMb + k
    <3>1. mb - RollMb \in Nat /\ mb = RollMb + (mb - RollMb)
      BY <1>1
    <3> QED  BY <3>1
  <2>2. PICK a \in Nat, b \in Nat : a = RollMb * MegaByte /\ b = k * MegaByte
    BY <1>1
  <2>3. mb * MegaByte = a + b
    BY <1>1, <2>1, <2>2
  <2> QED  BY <2>2, <2>3
<1>5. p % RollWrap = p
  BY <1>1, <1>2, <1>3
<1> QED  BY <1>2, <1>3, <1>4, <1>5

WriterInv ==
  /\ files \in Seq(Seq(Lines)) /\ files # <<>>
  /\ FilesComplete

LEMMA WriterWrites ==
  ASSUME RollFits, WriterInv, NEW x \in Lines, Log(x), logged \in Seq(Lines)
  PROVE  WriterInv'
<1> DEFINE N == Len(files)
           last == files[N]
           bytes == m_bytes_written + SizeOf[x]
           roll == m_log_file_roll_size_bytes
           grown == [files EXCEPT ![N] = Append(last, x)]
<1>1. /\ files \in Seq(Seq(Lines)) /\ files # <<>> /\ Joined(files) = logged
      /\ m_file_number = N /\ m_bytes_written = Bytes(last) /\ m_bytes_written <= roll
      /\ \A i \in 1..(N - 1) : /\ Bytes(files[i]) > RollMb * MegaByte
                               /\ Bytes(SubSeq(files[i], 1, Len(files[i]) - 1)) <= roll
  BY DEF WriterInv, FilesComplete, FilesBounded
<1>2. /\ logged' = Append(logged, x)
      /\ m_bytes_written' = IF bytes > roll THEN 0 ELSE bytes
      /\ m_file_number' = IF bytes > roll THEN N + 1 ELSE N
      /\ files' = IF bytes > roll THEN Append(grown, <<>>) ELSE grown
  BY <1>1 DEF Log, Write
<1>3. N \in Nat /\ N > 0 /\ last \in Seq(Lines)
  BY <1>1
<1>4. grown \in Seq(Seq(Lines)) /\ Joined(grown) = Append(logged, x)
  BY <1>1, JoinedGrows
<1>5. Len(grown) = N /\ grown[N] = Append(last, x) /\ \A i \in 1..(N - 1) : grown[i] = files[i]
  BY <1>1, <1>3
<1>6. Bytes(last) \in Nat /\ Bytes(Append(last, x)) = bytes /\ bytes \in Nat
  <2>1. SizeOf[x] \in Nat  BY WriterAssumption
  <2> QED  BY <1>1, <1>3, <2>1, BytesAppend
<1>7. SubSeq(Append(last, x), 1, Len(Append(last, x)) - 1) = last
  <2>1. Len(Append(last, x)) = Len(last) + 1 /\ (Len(last) + 1) - 1 = Len(last) /\ Len(last) \in Nat
    BY <1>3
  <2>2. SubSeq(Append(last, x), 1, Len(last)) = last
    <3> HIDE DEF last
    <3> QED  BY <1>3
  <2> HIDE DEF last
  <2> QED  BY <2>1, <2>2
<1>8. roll \in Nat /\ roll >= RollMb * MegaByte /\ RollMb * MegaByte \in Nat
  BY RollSize, WriterAssumption
<1> HIDE DEF N, last, bytes, roll, grown
<1>9. CASE bytes > roll
  <2> DEFINE fs == Append(grown, <<>>)
  <2>1. files' = fs /\ m_bytes_written' = 0 /\ m_file_number' = N + 1
    BY <1>2, <1>9
  <2>2. fs \in Seq(Seq(Lines)) /\ Joined(fs) = Append(logged, x)
    BY <1>4, JoinedBegins
  <2>3. Len(fs) = N + 1 /\ fs[N + 1] = <<>> /\ \A i \in 1..N : fs[i] = grown[i]
    BY <1>3, <1>4, <1>5
  <2> HIDE DEF fs
  <2>4. fs # <<>>
    BY <1>3, <2>3
  <2>5. Bytes(fs[Len(fs)]) = 0
    BY <2>3, BytesEmpty
  <2>6. ASSUME NEW i \in 1..(Len(fs) - 1)
        PROVE  /\ Bytes(fs[i]) > RollMb * MegaByte
               /\ Bytes(SubSeq(fs[i], 1, Len(fs[i]) - 1)) <= roll
    <3>1. i \in 1..N /\ fs[i] = grown[i]
      BY <1>3, <2>3
    <3>2. CASE i = N
      <4>1. fs[i] = Append(last, x)
        BY <1>5, <3>1, <3>2
      <4>2. Bytes(fs[i]) > RollMb * MegaByte
        BY <1>6, <1>8, <1>9, <4>1
      <4>3. Bytes(SubSeq(fs[i], 1, Len(fs[i]) - 1)) <= roll
        BY <1>1, <1>7, <4>1
      <4> QED  BY <4>2, <4>3
    <3>3. CASE i # N
      <4>1. i \in 1..(N - 1)
        BY <1>3, <3>1, <3>3
      <4>2. fs[i] = files[i]
        BY <1>5, <3>1, <4>1
      <4> QED  BY <1>1, <4>1, <4>2
    <3> QED  BY <3>2, <3>3
  <2>7. FilesBounded'
    BY <1>8, <2>1, <2>3, <2>5, <2>6 DEF FilesBounded, roll, m_log_file_roll_size_bytes
  <2> QED  BY <1>2, <2>1, <2>2, <2>4, <2>7 DEF WriterInv, FilesComplete
<1>10. CASE ~ (bytes > roll)
  <2>1. files' = grown /\ m_bytes_written' = bytes /\ m_file_number' = N
    BY <1>2, <1>10
  <2>2. grown # <<>>
    BY <1>3, <1>5
  <2>3. bytes <= roll /\ bytes = Bytes(grown[Len(grown)])
    BY <1>5, <1>6, <1>8, <1>10
  <2>4. \A i \in 1..(Len(grown) - 1) : /\ Bytes(grown[i]) > RollMb * MegaByte
                                       /\ Bytes(SubSeq(grown[i], 1, Len(grown[i]) - 1)) <= roll
    BY <1>1, <1>5
  <2>5. FilesBounded'
    BY <1>5, <2>1, <2>3, <2>4 DEF FilesBounded, roll, m_log_file_roll_size_bytes
  <2> QED  BY <1>2, <1>4, <2>1, <2>2, <2>5 DEF WriterInv, FilesComplete
<1> QED  BY <1>9, <1>10

LEMMA WriterStarts == RollFits /\ Init => WriterInv
<1> SUFFICES ASSUME RollFits, Init PROVE WriterInv
  OBVIOUS
<1> DEFINE fs == <<<<>>>>
<1>1. files = fs /\ logged = <<>> /\ m_bytes_written = 0 /\ m_file_number = 1
  BY DEF Init, LoggerInit, WriterInit
<1>2. fs \in Seq(Seq(Lines)) /\ fs # <<>> /\ Len(fs) = 1 /\ fs[1] = <<>>
  OBVIOUS
<1>3. Joined(fs) = <<>>
  <2>1. PICK f \in [0..Len(fs) -> Seq(Lines)] :
           /\ f[0] = <<>> /\ \A n \in 1..Len(fs) : f[n] = f[n - 1] \o fs[n]
           /\ Joined(fs) = f[Len(fs)]
    BY <1>2, JoinedSteps
  <2>2. f[1] = f[0] \o fs[1]
    <3> HIDE DEF fs
    <3>1. 1 \in 1..Len(fs) /\ 1 - 1 = 0  BY <1>2
    <3> QED  BY <2>1, <3>1
  <2>3. <<>> \o <<>> = <<>>
    OBVIOUS
  <2> HIDE DEF fs
  <2> QED  BY <1>2, <2>1, <2>2, <2>3
<1>4. 0 <= m_log_file_roll_size_bytes
  BY RollSize
<1> HIDE DEF fs
<1>5. FilesBounded
  BY <1>1, <1>2, <1>4, BytesEmpty DEF FilesBounded
<1> QED  BY <1>1, <1>2, <1>3, <1>5 DEF WriterInv, FilesComplete

LEMMA WriterStep == RollFits /\ WriterInv /\ TypeOK /\ [Next]_vars => WriterInv'
<1> SUFFICES ASSUME RollFits, WriterInv, TypeOK, [Next]_vars PROVE WriterInv'
  OBVIOUS
<1>1. CASE TryPop /\ ring[m_read_index % Size] # 0
  <2> DEFINE x == ring[m_read_index % Size]
  <2>1. x \in Lines /\ logged \in Seq(Lines)
    <3>1. m_read_index \in Int /\ Size \in Nat \ {0}
      BY RingAssumption DEF TypeOK
    <3>2. m_read_index % Size \in Slots
      BY <3>1, Remainder DEF Slots
    <3> QED  BY <1>1, <3>2 DEF TypeOK, LoggerType
  <2>2. Log(x)
    BY <1>1 DEF TryPop, Got
  <2> HIDE DEF x
  <2> QED  BY <2>1, <2>2, WriterWrites
<1>2. CASE UNCHANGED <<logged, writerVars>>
  BY <1>2 DEF WriterInv, FilesComplete, FilesBounded, writerVars
<1>3. CASE TryPop /\ ring[m_read_index % Size] = 0
  BY <1>2, <1>3 DEF TryPop, GotNothing
<1>4. CASE \E p \in Producers : Claim(p) \/ Fill(p)
  BY <1>2, <1>4 DEF Claim, Fill, loggerVars
<1>5. CASE Run \/ Destroy \/ UNCHANGED vars
  BY <1>2, <1>5 DEF Run, Ready, Awake, Loop, Destroy, Shutdown, vars, loggerVars
<1> QED  BY <1>1, <1>3, <1>4, <1>5 DEF Next

\* Rolling loses no line and splits none (FileWriter::write, roll_file): the
\* files one after the other are the lines popped, in order, and each file but
\* the last passes the roll size with its last line, for any sizes of lines and
\* any roll size that fits the unsigned int.
THEOREM RollingComplete ==
  ASSUME RollFits
  PROVE  Spec => []FilesComplete
<1>1. WriterInv => FilesComplete
  BY DEF WriterInv
<1>2. TypeOK /\ [Next]_vars => TypeOK'
  BY TypeNext
<1>3. WriterInv /\ TypeOK /\ [Next]_vars => WriterInv'
  BY WriterStep
<1>4. Init => WriterInv
  BY WriterStarts
<1> QED
  BY <1>1, <1>2, <1>3, <1>4, TypeInit, PTL DEF Spec

==============================================================================
