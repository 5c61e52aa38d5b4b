--------------------------- MODULE NanoQueue_proofs ---------------------------
(***************************************************************************)
(* Proofs about the guaranteed logger's queue of buffers, for any          *)
(* producers, buffer size and number of lines.                             *)
(***************************************************************************)
EXTENDS NanoQueue, FiniteSetTheorems, SequenceTheorems, TLAPS

-----------------------------------------------------------------------------
(* The inductive invariant *)

\* What holds with or without a fault: where the threads are.
Control ==
  /\ TypeOK
  /\ \A p \in Producers :
       /\ Writing(p) => index[p] \in Indices
       /\ pc[p] \in {"put", "count", "enqueue", "reset"} => buf[p] \in Buffers
  /\ ReadsLive
  /\ step = "read" => m_current_read_buffer # 0
  /\ step = "release" => m_buffers # <<>> /\ m_current_read_buffer = 0
  /\ step \in {"read", "release"} => thread \in {"pop", "drain"}
  /\ m_current_read_buffer = 0 => m_read_index = 0
  /\ thread # "init" => state # "INIT"
  /\ thread \in {"drain", "exit"} => state = "SHUTDOWN"
  /\ state = "SHUTDOWN" => Idle

Filling(p) == pc[p] \in {"load", "put"}
Opening(p) == pc[p] \in {"enqueue", "reset"}

\* The indices of the current buffer whose producers have counted them.
Counted ==
  {i \in Indices : /\ item[m_current_write_buffer][i] # 0
                   /\ \A p \in Producers : pc[p] = "count" => index[p] # i}

\* The current buffer is the newest; an index below m_write_index is taken by
\* one producer, which fills it and then counts it; the one who counts the last
\* switches alone.
Slots ==
  /\ m_current_write_buffer = made
  /\ \A b \in Buffers : b > made =>
       count[b] = 0 /\ \A i \in Indices : item[b][i] = 0
  /\ \A p, q \in Producers :
       /\ Writing(p) /\ Writing(q) /\ index[p] = index[q] => p = q
       /\ Switching(p) /\ (Switching(q) \/ Writing(q)) => p = q
  /\ \A p \in Producers :
       /\ Switching(p) => m_write_index >= Size
       /\ Writing(p) => index[p] < m_write_index
       /\ pc[p] \in {"put", "count"} \/ Opening(p) => buf[p] = made
       /\ Filling(p) => item[made][index[p]] = 0
       /\ pc[p] = "count" => item[made][index[p]] # 0
       /\ pc[p] = "setup" => count[made] = Size
       /\ Opening(p) => count[made] = 0 /\ \A i \in Indices : item[made][i] = 0
  /\ (\A p \in Producers : ~Opening(p)) => \A i \in Indices :
       /\ i < m_write_index =>
            item[made][i] # 0 \/ \E p \in Producers : Filling(p) /\ index[p] = i
       /\ i >= m_write_index => item[made][i] = 0
  /\ count[made] = Cardinality(Counted)
  /\ count[made] = Size => \E p \in Producers : pc[p] = "setup"

\* The newest buffer that was queued.
Newest == IF \E p \in Producers : pc[p] = "enqueue" THEN made - 1 ELSE made

\* The queue holds the buffers in the order they were made, from the oldest
\* that is not deleted; all but the newest are full.
Order ==
  /\ Len(m_buffers) <= Newest
  /\ freed = 1..(Newest - Len(m_buffers))
  /\ \A k \in 1..Len(m_buffers) : m_buffers[k] = (Newest - Len(m_buffers)) + k
  /\ \A b \in Buffers : b < made => \A i \in Indices : item[b][i] # 0

\* What the reader has read.
IsRead(b, i) ==
  \/ b \in freed
  \/ m_buffers # <<>> /\ b = Head(m_buffers) /\ (i < m_read_index \/ step = "release")

Holding(p) == pc[p] \in {"claim", "spin", "load", "put"}

\* A line is with its producer or in one item, and in the file once that item
\* was read.
Places ==
  /\ \A p \in Producers : Holding(p) =>
       /\ line[p] \in 1..lines
       /\ \A q \in Producers : Holding(q) /\ line[q] = line[p] => q = p
       /\ \A b \in Buffers, i \in Indices : item[b][i] # line[p]
  /\ \A b \in Buffers, i \in Indices : item[b][i] # 0 =>
       /\ item[b][i] \in 1..lines
       /\ \A c \in Buffers, j \in Indices : item[c][j] = item[b][i] => c = b /\ j = i
  /\ \A l \in 1..lines : Held(l) \/ \E b \in Buffers, i \in Indices : item[b][i] = l
  /\ \A b \in Buffers, i \in Indices : IsRead(b, i) => item[b][i] # 0 /\ IsLogged(item[b][i])
  /\ \A k \in 1..Len(logged) : \E b \in Buffers, i \in Indices : IsRead(b, i) /\ item[b][i] = logged[k]
  /\ \A i, j \in 1..Len(logged) : logged[i] = logged[j] => i = j
  /\ thread = "exit" => \A l \in 1..lines : IsLogged(l)

QueueInv == Control /\ (~fault => Slots /\ Order /\ Places)

-----------------------------------------------------------------------------
(* Where the threads are *)

LEMMA Consts ==
  /\ Size \in Nat /\ Size >= 1 /\ MaxLines \in Nat
  /\ MaxBuffers \in Nat /\ MaxBuffers >= 2 /\ 1 \in Buffers /\ 0 \in Indices
<1>1. Size \in Nat /\ Size >= 1 /\ MaxLines \in Nat
  BY QueueAssumption, WriterAssumption
<1>2. MaxLines \div Size \in Nat
  BY <1>1
<1>3. MaxBuffers \in Nat /\ MaxBuffers >= 2
  BY <1>2 DEF MaxBuffers
<1> QED  BY <1>1, <1>3 DEF Buffers, Indices

LEMMA HeadOfAppend ==
  ASSUME NEW S, NEW s \in Seq(S), NEW x \in S, s # <<>>
  PROVE  Append(s, x) # <<>> /\ Head(Append(s, x)) = Head(s)
<1>1. Len(s) \in Nat /\ Len(s) >= 1
  OBVIOUS
<1>2. Append(s, x) \in Seq(S) /\ Len(Append(s, x)) = Len(s) + 1 /\ Append(s, x)[1] = s[1]
  BY <1>1
<1>3. Append(s, x) # <<>>
  BY <1>1, <1>2
<1> QED  BY <1>2, <1>3

LEMMA ControlInit == Init => Control
<1> SUFFICES ASSUME Init PROVE Control
  OBVIOUS
<1>1. m_flag \in BOOLEAN /\ fault \in BOOLEAN
  BY Zenon DEF Init
<1>2. LoggerType
  BY DEF Init, LoggerInit, LoggerType
<1>3. TypeOK
  BY <1>1, <1>2, Consts DEF Init, TypeOK
<1> QED
  BY <1>3 DEF Init, LoggerInit, Control, Writing, ReadsLive

\* What the producers' steps leave alone.
LEMMA ControlPush ==
  ASSUME Control, NEW p \in Producers, Push(p) \/ PushStep(p)
  PROVE  Control'
<1> USE DEF Control
<1>1. state # "SHUTDOWN"
  BY DEF Push, PushStep, Claim, Spin, Load, Put, Count, Setup, Enqueue, Reset, Idle
<1>2. UNCHANGED <<state, thread, logged, m_current_read_buffer, m_read_index, step, freed>>
  BY DEF Push, PushStep, Claim, Spin, Load, Put, Count, Setup, Enqueue, Reset, loggerVars, reader
<1>3. TypeOK'
  <2> USE <1>2, Consts DEF TypeOK, LoggerType, memory, local, Goto
  <2>1. CASE Push(p)
    BY <2>1 DEF Push, Lines
  <2>2. CASE Claim(p)
    BY <2>2 DEF Claim
  <2>3. CASE Spin(p)
    BY <2>3 DEF Spin
  <2>4. CASE Load(p)
    BY <2>4 DEF Load
  <2>5. CASE Put(p)
    <3>1. buf[p] \in Buffers /\ index[p] \in Indices
      BY <2>5 DEF Put, Writing
    <3>2. fault' \in BOOLEAN
      BY <2>5, Zenon DEF Put
    <3>3. item' \in [Buffers -> [Indices -> Lines \cup {0}]]
      BY <2>5, <3>1 DEF Put
    <3> QED  BY <2>5, <3>2, <3>3 DEF Put
  <2>6. CASE Count(p)
    <3>1. buf[p] \in Buffers
      BY <2>6 DEF Count
    <3>2. fault' \in BOOLEAN
      BY <2>6, Zenon DEF Count
    <3>3. count' \in [Buffers -> Nat]
      BY <2>6, <3>1 DEF Count
    <3> QED  BY <2>6, <3>2, <3>3 DEF Count
  <2>7. CASE Setup(p)
    <3>1. made + 1 \in Buffers
      BY <2>7 DEF Setup, Buffers
    <3> QED  BY <2>7, <3>1 DEF Setup
  <2>8. CASE Enqueue(p)
    <3>1. buf[p] \in Buffers
      BY <2>8 DEF Enqueue
    <3>2. m_flag' \in BOOLEAN
      BY <2>8, Zenon DEF Enqueue
    <3>3. m_buffers' \in Seq(Buffers)
      BY <2>8, <3>1 DEF Enqueue
    <3> QED  BY <2>8, <3>2, <3>3 DEF Enqueue
  <2>9. CASE Reset(p)
    <3>1. m_flag' \in BOOLEAN
      BY <2>9, Zenon DEF Reset
    <3> QED  BY <2>9, <3>1 DEF Reset
  <2> QED
    BY <2>1, <2>2, <2>3, <2>4, <2>5, <2>6, <2>7, <2>8, <2>9 DEF PushStep
<1>4. \A r \in Producers :
        /\ Writing(r)' => index'[r] \in Indices
        /\ pc'[r] \in {"put", "count", "enqueue", "reset"} => buf'[r] \in Buffers
  <2> USE DEF TypeOK, Goto, Writing, local
  <2>1. CASE Push(p)
    BY <2>1 DEF Push
  <2>2. CASE Claim(p)
    BY <2>2, Consts DEF Claim, Indices
  <2>3. CASE Spin(p) \/ Load(p)
    BY <2>3 DEF Spin, Load
  <2>4. CASE Put(p) \/ Count(p)
    BY <2>4 DEF Put, Count
  <2>5. CASE Setup(p)
    <3>1. made + 1 \in Buffers
      BY <2>5, Consts DEF Setup, Buffers
    <3> QED  BY <2>5, <3>1 DEF Setup
  <2>6. CASE Enqueue(p) \/ Reset(p)
    BY <2>6 DEF Enqueue, Reset
  <2> QED
    BY <2>1, <2>2, <2>3, <2>4, <2>5, <2>6 DEF PushStep
<1>5. m_buffers' = m_buffers \/ \E b \in Buffers : m_buffers' = Append(m_buffers, b)
  BY DEF Push, PushStep, Claim, Spin, Load, Put, Count, Setup, Enqueue, Reset
<1>6. m_buffers # <<>> => m_buffers' # <<>> /\ Head(m_buffers') = Head(m_buffers)
  <2>1. m_buffers \in Seq(Buffers)
    BY DEF TypeOK
  <2>2. \A b \in Buffers : m_buffers # <<>> =>
          Append(m_buffers, b) # <<>> /\ Head(Append(m_buffers, b)) = Head(m_buffers)
    BY <2>1, HeadOfAppend
  <2> QED  BY <1>5, <2>2
<1>7. ReadsLive'
  BY <1>2, <1>6 DEF ReadsLive
<1> QED
  BY <1>1, <1>2, <1>3, <1>4, <1>6, <1>7

LEMMA ControlFetch ==
  ASSUME Control, Fetch
  PROVE  Control'
<1> USE DEF Control
<1> DEFINE next == IF m_buffers = <<>> THEN 0 ELSE Head(m_buffers)
           b == IF m_current_read_buffer = 0 THEN next ELSE m_current_read_buffer
<1>1. /\ UNCHANGED <<m_write_index, m_current_write_buffer, m_buffers, m_flag,
                     m_read_index, memory, freed, pc, local, lines, fault, state, logged>>
      /\ m_current_read_buffer' = b
      /\ thread \in {"pop", "drain"} /\ step = "fetch"
      /\ \/ b = 0 /\ step' = "fetch" /\ thread' = IF thread = "drain" THEN "exit" ELSE "loop"
         \/ b # 0 /\ step' = "read" /\ thread' = thread
  BY DEF Fetch, GotNothing, loggerVars
<1>2. b \in Buffers \cup {0} /\ (b # 0 => m_buffers # <<>> /\ b = Head(m_buffers))
  BY DEF TypeOK, ReadsLive
<1> HIDE DEF b
<1>3. TypeOK'
  BY <1>1, <1>2 DEF TypeOK, LoggerType, memory, local
<1>4. ReadsLive'
  BY <1>1, <1>2 DEF ReadsLive
<1>5. b = 0 => m_current_read_buffer = 0
  BY <1>2 DEF b, TypeOK
<1> QED
  BY <1>1, <1>2, <1>3, <1>4, <1>5 DEF Writing, Idle, local

LEMMA ControlRead ==
  ASSUME Control, Read
  PROVE  Control'
<1> USE DEF Control
<1> DEFINE l == item[m_current_read_buffer][m_read_index]
<1>1. /\ UNCHANGED <<m_write_index, m_current_write_buffer, m_buffers, m_flag,
                     memory, freed, pc, local, lines, fault, state>>
      /\ step = "read"
      /\ \/ /\ l = 0 /\ logged' = logged /\ step' = "fetch"
            /\ thread' = IF thread = "drain" THEN "exit" ELSE "loop"
            /\ UNCHANGED <<m_read_index, m_current_read_buffer>>
         \/ /\ l # 0 /\ logged' = Append(logged, l)
            /\ m_read_index' = (m_read_index + 1) % Size
            /\ \/ /\ m_read_index + 1 = Size /\ m_current_read_buffer' = 0
                  /\ step' = "release" /\ thread' = thread
               \/ /\ m_read_index + 1 # Size /\ m_current_read_buffer' = m_current_read_buffer
                  /\ step' = "fetch" /\ thread' = IF thread = "drain" THEN "drain" ELSE "loop"
  BY DEF Read, GotNothing, Got, Log, loggerVars
<1>2. l \in Lines \cup {0}
  BY <1>1 DEF TypeOK
<1>3. (m_read_index + 1) % Size \in Indices /\ (m_read_index + 1 = Size => (m_read_index + 1) % Size = 0)
  <2>1. m_read_index + 1 \in Nat /\ Size \in Nat \ {0}
    BY Consts DEF TypeOK, Indices
  <2>2. (m_read_index + 1) % Size \in 0..Size - 1
    BY <2>1
  <2>3. Size % Size = 0
    BY <2>1
  <2> QED  BY <2>2, <2>3 DEF Indices
<1>4. TypeOK'
  <2>1. logged' \in Seq(Lines)
    <3>1. logged \in Seq(Lines)
      BY DEF TypeOK, LoggerType
    <3>2. logged' = logged \/ (l \in Lines /\ logged' = Append(logged, l))
      BY <1>1, <1>2
    <3> HIDE DEF l
    <3> QED  BY <3>1, <3>2
  <2>2. thread' \in {"init", "loop", "pop", "drain", "exit"}
    BY <1>1 DEF TypeOK, LoggerType
  <2>3. m_read_index' \in Indices /\ m_current_read_buffer' \in Buffers \cup {0}
    BY <1>1, <1>3 DEF TypeOK
  <2> QED  BY <1>1, <2>1, <2>2, <2>3 DEF TypeOK, LoggerType, memory, local
<1>5. ReadsLive'
  BY <1>1 DEF ReadsLive
<1>6. thread \in {"pop", "drain"} /\ m_current_read_buffer # 0 /\ m_buffers # <<>>
  BY <1>1 DEF ReadsLive
<1> HIDE DEF l
<1> QED
  BY <1>1, <1>3, <1>4, <1>5, <1>6 DEF Writing, Idle, local

LEMMA ControlRelease ==
  ASSUME Control, Release
  PROVE  Control'
<1> USE DEF Control
<1>1. /\ UNCHANGED <<m_write_index, m_current_write_buffer, m_current_read_buffer, m_read_index,
                     m_flag, memory, pc, local, lines, fault, state, logged>>
      /\ step = "release" /\ step' = "fetch"
      /\ freed' = freed \cup {Head(m_buffers)} /\ m_buffers' = Tail(m_buffers)
      /\ thread' = IF thread = "drain" THEN "drain" ELSE "loop"
  BY DEF Release
<1>2. m_buffers # <<>> /\ m_current_read_buffer = 0
  BY <1>1
<1>3. Head(m_buffers) \in Buffers /\ Tail(m_buffers) \in Seq(Buffers)
  BY <1>2 DEF TypeOK
<1>4. TypeOK'
  BY <1>1, <1>3 DEF TypeOK, LoggerType, memory, local
<1>5. ReadsLive'
  BY <1>1, <1>2 DEF ReadsLive
<1> QED
  BY <1>1, <1>2, <1>4, <1>5 DEF Writing, Idle, local

LEMMA ControlRun ==
  ASSUME Control, Run \/ Destroy
  PROVE  Control'
<1> USE DEF Control
<1>1. /\ UNCHANGED <<m_write_index, m_current_write_buffer, m_buffers, m_flag,
                     memory, reader, pc, local, lines, fault, logged>>
      /\ \/ state = "INIT" /\ state' = "READY" /\ thread' = thread
         \/ thread = "init" /\ state # "INIT" /\ thread' = "loop" /\ state' = state
         \/ thread = "loop" /\ state' = state /\ thread' = IF state = "READY" THEN "pop" ELSE "drain"
         \/ state = "READY" /\ Idle /\ state' = "SHUTDOWN" /\ thread' = thread
  BY DEF Run, Destroy, Ready, Awake, Loop, Shutdown
<1>2. TypeOK'
  BY <1>1 DEF TypeOK, LoggerType, memory, local, reader
<1>3. ReadsLive' /\ Idle' = Idle
  BY <1>1 DEF ReadsLive, reader, Idle
<1> QED
  BY <1>1, <1>2, <1>3 DEF Writing, local, reader, TypeOK, LoggerType

-----------------------------------------------------------------------------
(* The items of the current buffer *)

\* The step of a producer that neither has an index nor switches.
LEMMA SlotsQuiet ==
  ASSUME Control, Slots, NEW p \in Producers, NEW l \in {"idle", "claim", "spin"},
         pc[p] \in {"idle", "claim", "spin"}, pc' = [pc EXCEPT ![p] = l],
         UNCHANGED <<m_current_write_buffer, made, item, count, index, buf, m_write_index>>
  PROVE  Slots'
<1>1. pc \in [Producers -> {"idle", "claim", "spin", "load", "put", "count",
                            "setup", "enqueue", "reset"}]
  BY DEF Control, TypeOK
<1>2. \A q \in Producers :
        /\ Writing(q)' <=> Writing(q)
        /\ Switching(q)' <=> Switching(q)
        /\ Filling(q)' <=> Filling(q)
        /\ Opening(q)' <=> Opening(q)
        /\ pc'[q] = "put" <=> pc[q] = "put"
        /\ pc'[q] = "count" <=> pc[q] = "count"
        /\ pc'[q] = "setup" <=> pc[q] = "setup"
  BY <1>1 DEF Writing, Switching, Filling, Opening
<1>3. Counted' = Counted
  BY <1>2 DEF Counted
<1> QED  BY <1>2, <1>3 DEF Slots

LEMMA SlotsClaim ==
  ASSUME Control, Slots, NEW p \in Producers, Claim(p)
  PROVE  Slots'
<1>1. pc \in [Producers -> {"idle", "claim", "spin", "load", "put", "count",
                            "setup", "enqueue", "reset"}]
      /\ index \in [Producers -> Nat] /\ m_write_index \in Nat
  BY DEF Control, TypeOK
<1>2. /\ UNCHANGED <<m_current_write_buffer, made, item, count, buf>>
      /\ pc[p] = "claim" /\ index' = [index EXCEPT ![p] = m_write_index]
      /\ m_write_index' = m_write_index + 1
      /\ pc' = [pc EXCEPT ![p] = IF m_write_index < Size THEN "load" ELSE "spin"]
  BY DEF Claim, Goto, memory
<1>3. \A q \in Producers :
        /\ Switching(q)' <=> Switching(q)
        /\ Opening(q)' <=> Opening(q)
        /\ pc'[q] = "put" <=> pc[q] = "put"
        /\ pc'[q] = "count" <=> pc[q] = "count"
        /\ pc'[q] = "setup" <=> pc[q] = "setup"
        /\ q # p => (Writing(q)' <=> Writing(q)) /\ (Filling(q)' <=> Filling(q)) /\ index'[q] = index[q]
        /\ Writing(q) => q # p
        /\ Filling(q) => q # p
  BY <1>1, <1>2 DEF Writing, Switching, Filling, Opening
<1>4. Counted' = Counted
  BY <1>2, <1>3 DEF Counted, Writing
<1>5. CASE m_write_index < Size
  <2>1. pc'[p] = "load" /\ index'[p] = m_write_index /\ Writing(p)' /\ Filling(p)'
    BY <1>1, <1>2, <1>5 DEF Writing, Filling
  <2>2. m_write_index \in Indices /\ Size \in Nat
    BY <1>1, <1>5, Consts DEF Indices
  <2>3. \A q \in Producers : ~Switching(q) /\ ~Opening(q)
    BY <1>1, <1>5, <2>2 DEF Slots, Switching, Opening
  <2>4. item[made][m_write_index] = 0
    BY <1>1, <2>2, <2>3 DEF Slots
  <2>5. \A q, r \in Producers : Writing(q)' /\ Writing(r)' /\ index'[q] = index'[r] => q = r
    BY <1>1, <1>3, <2>1 DEF Slots
  <2>6. \A q \in Producers :
          /\ Writing(q)' => index'[q] < m_write_index'
          /\ Filling(q)' => item'[made'][index'[q]] = 0
    BY <1>1, <1>2, <1>3, <2>1, <2>4 DEF Slots
  <2>7. ASSUME NEW i \in Indices
        PROVE  /\ i < m_write_index' =>
                    item'[made'][i] # 0 \/ \E q \in Producers : Filling(q)' /\ index'[q] = i
               /\ i >= m_write_index' => item'[made'][i] = 0
    <3>1. i \in Nat
      BY <2>2 DEF Indices
    <3>2. CASE i = m_write_index
      BY <1>1, <1>2, <2>1, <3>2
    <3>3. CASE i # m_write_index
      <4>1. (i < m_write_index' <=> i < m_write_index) /\ (i >= m_write_index' <=> i >= m_write_index)
        BY <1>1, <1>2, <3>1, <3>3
      <4> QED  BY <1>2, <1>3, <2>3, <4>1 DEF Slots
    <3> QED  BY <3>2, <3>3
  <2>8. \A q \in Producers : pc'[q] = "count" => item'[made'][index'[q]] # 0
    BY <1>2, <1>3, <2>1 DEF Slots, Writing
  <2> QED
    BY <1>2, <1>3, <1>4, <2>3, <2>5, <2>6, <2>7, <2>8 DEF Slots
<1>6. CASE ~ (m_write_index < Size)
  <2>1. \A q \in Producers :
          /\ Writing(q)' <=> Writing(q)
          /\ Filling(q)' <=> Filling(q)
    BY <1>1, <1>2, <1>6 DEF Writing, Filling
  <2>2. m_write_index >= Size /\ m_write_index' >= Size /\ Size \in Nat
    BY <1>1, <1>2, <1>6, Consts
  <2>3. \A i \in Indices : i < m_write_index /\ i < m_write_index' /\ i \in Nat
    BY <1>1, <1>2, <2>2 DEF Indices
  <2>4. \A q \in Producers : Writing(q) => index[q] < m_write_index'
    BY <1>1, <1>2 DEF Slots
  <2>5. \A q \in Producers : (pc[q] = "count" => Writing(q)) /\ (Filling(q) => Writing(q))
    BY DEF Writing, Filling
  <2>6. \A i \in Indices : ~ (i >= m_write_index) /\ ~ (i >= m_write_index')
    BY <1>1, <1>2, <2>3
  <2> QED
    BY <1>2, <1>3, <1>4, <2>1, <2>2, <2>3, <2>4, <2>5, <2>6 DEF Slots
<1> QED  BY <1>5, <1>6

LEMMA SlotsLoad ==
  ASSUME Control, Slots, NEW p \in Producers, Load(p)
  PROVE  Slots'
<1>1. pc \in [Producers -> {"idle", "claim", "spin", "load", "put", "count",
                            "setup", "enqueue", "reset"}]
      /\ buf \in [Producers -> Buffers \cup {0}]
  BY DEF Control, TypeOK
<1>2. /\ UNCHANGED <<m_current_write_buffer, made, item, count, index, m_write_index>>
      /\ pc[p] = "load" /\ pc' = [pc EXCEPT ![p] = "put"]
      /\ buf' = [buf EXCEPT ![p] = m_current_write_buffer]
  BY DEF Load, Goto, memory
<1>3. \A q \in Producers :
        /\ Writing(q)' <=> Writing(q)
        /\ Switching(q)' <=> Switching(q)
        /\ Filling(q)' <=> Filling(q)
        /\ Opening(q)' <=> Opening(q)
        /\ pc'[q] = "put" => q = p \/ pc[q] = "put"
        /\ pc'[q] = "count" <=> pc[q] = "count"
        /\ pc'[q] = "setup" <=> pc[q] = "setup"
  BY <1>1, <1>2 DEF Writing, Switching, Filling, Opening
<1>4. \A q \in Producers : pc'[q] \in {"put", "count"} \/ Opening(q)' => buf'[q] = made
  BY <1>1, <1>2, <1>3 DEF Slots
<1>5. Counted' = Counted
  BY <1>2, <1>3 DEF Counted
<1> QED  BY <1>2, <1>3, <1>4, <1>5 DEF Slots

LEMMA SlotsPut ==
  ASSUME Control, Slots, NEW p \in Producers, Put(p), line[p] # 0
  PROVE  Slots'
<1>1. pc \in [Producers -> {"idle", "claim", "spin", "load", "put", "count",
                            "setup", "enqueue", "reset"}]
      /\ item \in [Buffers -> [Indices -> Lines \cup {0}]] /\ made \in Buffers
  BY DEF Control, TypeOK
<1>2. /\ UNCHANGED <<m_current_write_buffer, made, count, index, buf, m_write_index>>
      /\ pc[p] = "put" /\ pc' = [pc EXCEPT ![p] = "count"]
      /\ item' = [item EXCEPT ![buf[p]][index[p]] = line[p]]
      /\ buf[p] = made /\ index[p] \in Indices /\ m_current_write_buffer = made
  BY DEF Put, Goto, local, Slots, Control, Writing
<1>3. /\ item[made][index[p]] = 0 /\ item'[made][index[p]] # 0
      /\ \A i \in Indices : i # index[p] => item'[made][i] = item[made][i]
      /\ \A b \in Buffers : b # made => item'[b] = item[b]
  BY <1>1, <1>2 DEF Slots, Filling
<1>4. \A q \in Producers :
        /\ Writing(q)' <=> Writing(q)
        /\ Switching(q)' <=> Switching(q)
        /\ Filling(q)' <=> Filling(q) /\ q # p
        /\ Opening(q)' <=> Opening(q)
        /\ pc'[q] = "put" => pc[q] = "put"
        /\ pc'[q] = "count" <=> q = p \/ pc[q] = "count"
        /\ pc'[q] = "setup" <=> pc[q] = "setup"
        /\ (Filling(q) => Writing(q)) /\ (pc[q] = "count" => Writing(q))
  BY <1>1, <1>2 DEF Writing, Switching, Filling, Opening
<1>5. Writing(p) /\ ~Switching(p) /\ \A q \in Producers : ~Switching(q) /\ ~Opening(q)
  BY <1>2 DEF Slots, Writing, Switching, Opening
<1>6. \A q \in Producers : q # p /\ Writing(q) => index[q] # index[p] /\ index[q] \in Indices
  BY <1>5 DEF Slots, Control
<1>7. Counted' = Counted
  BY <1>2, <1>3, <1>4, <1>5, <1>6 DEF Counted
<1>8. \A q \in Producers :
        /\ Filling(q)' => item'[made][index[q]] = 0
        /\ pc'[q] = "count" => item'[made][index[q]] # 0
  BY <1>2, <1>3, <1>4, <1>6 DEF Slots
<1>9. ASSUME NEW i \in Indices
      PROVE  /\ i < m_write_index =>
                  item'[made][i] # 0 \/ \E q \in Producers : Filling(q)' /\ index[q] = i
             /\ i >= m_write_index => item'[made][i] = 0
  <2>1. CASE i = index[p]
    <3>1. index[p] < m_write_index /\ m_write_index \in Nat /\ i \in Nat
      BY <1>2, <1>5, Consts DEF Slots, Control, TypeOK, Indices
    <3> QED  BY <1>3, <2>1, <3>1
  <2>2. CASE i # index[p]
    BY <1>3, <1>4, <1>5, <2>2 DEF Slots
  <2> QED  BY <2>1, <2>2
<1>10. \A b \in Buffers : b > made =>
         count[b] = 0 /\ \A i \in Indices : item'[b][i] = 0
  <2>1. \A b \in Buffers : b > made => b # made
    BY Consts DEF Control, TypeOK, Buffers
  <2> QED  BY <1>3, <2>1 DEF Slots
<1>11. \A q \in Producers : pc'[q] \in {"put", "count"} => buf[q] = made
  BY <1>2, <1>4 DEF Slots
<1> QED
  BY <1>2, <1>4, <1>5, <1>7, <1>8, <1>9, <1>10, <1>11 DEF Slots

\* When all items are counted there is nobody left who writes.
LEMMA AllCounted ==
  ASSUME Control, Slots, count[made] = Size
  PROVE  Counted = Indices /\ \A i \in Indices : item[made][i] # 0
<1>1. IsFiniteSet(Indices) /\ Cardinality(Indices) = Size
  <2>1. 0 \in Int /\ Size - 1 \in Int /\ Size \in Nat /\ Size >= 1
    BY Consts
  <2>2. IsFiniteSet(0..Size - 1)
        /\ Cardinality(0..Size - 1) = IF 0 > Size - 1 THEN 0 ELSE (Size - 1) - 0 + 1
    BY <2>1, FS_Interval
  <2> QED  BY <2>1, <2>2 DEF Indices
<1>2. Counted \subseteq Indices
  BY DEF Counted
<1>3. Cardinality(Counted) = Cardinality(Indices)
  BY <1>1 DEF Slots
<1>4. Counted = Indices
  BY <1>1, <1>2, <1>3, FS_Subset
<1> QED  BY <1>4 DEF Counted, Slots

LEMMA SlotsCount ==
  ASSUME Control, Slots, NEW p \in Producers, Count(p), ~fault'
  PROVE  Slots'
<1>1. pc \in [Producers -> {"idle", "claim", "spin", "load", "put", "count",
                            "setup", "enqueue", "reset"}]
      /\ count \in [Buffers -> Nat] /\ made \in Buffers /\ Size \in Nat
  BY Consts DEF Control, TypeOK
<1>2. /\ UNCHANGED <<m_current_write_buffer, made, item, index, buf, m_write_index>>
      /\ pc[p] = "count"
      /\ count' = [count EXCEPT ![made] = @ + 1]
      /\ pc' = [pc EXCEPT ![p] = IF count[made] + 1 = Size THEN "setup" ELSE "idle"]
      /\ buf[p] = made /\ index[p] \in Indices /\ m_current_write_buffer = made
  BY DEF Count, Goto, local, Slots, Control, Writing
<1>3. count'[made] = count[made] + 1 /\ \A b \in Buffers : b # made => count'[b] = count[b]
  BY <1>1, <1>2
<1>4. Writing(p) /\ ~Switching(p) /\ \A q \in Producers : ~Switching(q) /\ ~Opening(q)
  BY <1>2 DEF Slots, Writing, Switching, Opening
<1>5. \A q \in Producers :
        /\ Writing(q)' <=> Writing(q) /\ q # p
        /\ Switching(q)' <=> q = p /\ count[made] + 1 = Size
        /\ Filling(q)' <=> Filling(q)
        /\ ~Opening(q)'
        /\ pc'[q] = "put" => pc[q] = "put"
        /\ pc'[q] = "count" <=> pc[q] = "count" /\ q # p
        /\ pc'[q] = "setup" <=> q = p /\ count[made] + 1 = Size
        /\ (Filling(q) => Writing(q)) /\ (pc[q] = "count" => Writing(q))
        /\ Writing(q) => Filling(q) \/ pc[q] = "count"
  BY <1>1, <1>2, <1>4 DEF Writing, Switching, Filling, Opening
<1>6. \A q \in Producers : q # p /\ Writing(q) => index[q] # index[p] /\ index[q] \in Indices
  BY <1>4 DEF Slots, Control
<1>7. item[made][index[p]] # 0
  BY <1>2 DEF Slots
<1>8. Counted' = Counted \cup {index[p]} /\ index[p] \notin Counted
  BY <1>2, <1>5, <1>6, <1>7 DEF Counted
<1>9. IsFiniteSet(Counted) /\ IsFiniteSet(Indices) /\ Counted' \subseteq Indices
  <2>1. IsFiniteSet(Indices)
    BY <1>1, FS_Interval DEF Indices
  <2>2. Counted \subseteq Indices
    BY DEF Counted
  <2> QED  BY <1>2, <1>8, <2>1, <2>2, FS_Subset
<1>10. count'[made] = Cardinality(Counted')
  <2>1. Cardinality(Counted \cup {index[p]}) = Cardinality(Counted) + 1
    BY <1>8, <1>9, FS_AddElement
  <2> QED  BY <1>3, <1>8, <2>1 DEF Slots
<1>11. count[made] + 1 = Size => Counted' = Indices
  <2>1. Cardinality(Indices) = Size
    <3>1. 0 \in Int /\ Size - 1 \in Int /\ Size \in Nat /\ Size >= 1
      BY Consts
    <3>2. Cardinality(0..Size - 1) = IF 0 > Size - 1 THEN 0 ELSE (Size - 1) - 0 + 1
      BY <3>1, FS_Interval
    <3> QED  BY <3>1, <3>2 DEF Indices
  <2> HIDE DEF Counted
  <2> QED  BY <1>3, <1>9, <1>10, <2>1, FS_Subset
<1>12. ASSUME count[made] + 1 = Size
       PROVE  /\ \A q \in Producers : q # p => ~Writing(q)
              /\ m_write_index >= Size
  <2>1. \A i \in Indices : item[made][i] # 0 /\ \A q \in Producers : pc'[q] = "count" => index[q] # i
    BY <1>2, <1>11, <1>12 DEF Counted
  <2>2. \A q \in Producers : q # p => ~Writing(q)
    BY <1>5, <1>6, <2>1 DEF Slots
  <2>3. Size - 1 \in Indices /\ m_write_index \in Nat
    BY Consts DEF Indices, Control, TypeOK
  <2>4. ~ (Size - 1 >= m_write_index)
    BY <1>4, <2>1, <2>3 DEF Slots
  <2> QED  BY <1>1, <2>2, <2>3, <2>4
<1>13. \A q, r \in Producers :
         /\ Writing(q)' /\ Writing(r)' /\ index[q] = index[r] => q = r
         /\ Switching(q)' /\ (Switching(r)' \/ Writing(r)') => q = r
  BY <1>5, <1>12 DEF Slots
<1>14. \A b \in Buffers : b > made =>
         count'[b] = 0 /\ \A i \in Indices : item[b][i] = 0
  <2>1. \A b \in Buffers : b > made => b # made
    BY Consts DEF Control, TypeOK, Buffers
  <2> QED  BY <1>3, <2>1 DEF Slots
<1>15. \A q \in Producers :
       /\ Switching(q)' => m_write_index >= Size
       /\ Writing(q)' => index[q] < m_write_index
       /\ pc'[q] \in {"put", "count"} => buf[q] = made
       /\ Filling(q)' => item[made][index[q]] = 0
       /\ pc'[q] = "count" => item[made][index[q]] # 0
       /\ pc'[q] = "setup" => count'[made] = Size
  BY <1>3, <1>5, <1>12 DEF Slots
<1>16. \A i \in Indices :
       /\ i < m_write_index =>
            item[made][i] # 0 \/ \E q \in Producers : Filling(q)' /\ index[q] = i
       /\ i >= m_write_index => item[made][i] = 0
  BY <1>4, <1>5 DEF Slots
<1>17. count'[made] = Size => \E q \in Producers : pc'[q] = "setup"
  BY <1>3, <1>5
<1> QED
  BY <1>2, <1>5, <1>10, <1>13, <1>14, <1>15, <1>16, <1>17 DEF Slots

LEMMA SlotsSetup ==
  ASSUME Control, Slots, NEW p \in Producers, Setup(p)
  PROVE  Slots'
<1>1. pc \in [Producers -> {"idle", "claim", "spin", "load", "put", "count",
                            "setup", "enqueue", "reset"}]
      /\ buf \in [Producers -> Buffers \cup {0}] /\ made \in Buffers
  BY DEF Control, TypeOK
<1>2. /\ UNCHANGED <<item, count, index, m_write_index>>
      /\ pc[p] = "setup" /\ pc' = [pc EXCEPT ![p] = "enqueue"]
      /\ made' = made + 1 /\ m_current_write_buffer' = made + 1
      /\ buf' = [buf EXCEPT ![p] = made + 1] /\ made < MaxBuffers
  BY DEF Setup, Goto
<1>3. \A q \in Producers : ~Writing(q) /\ (Switching(q) => q = p)
  BY <1>2 DEF Slots, Switching, Writing
<1>4. \A q \in Producers :
        /\ ~Writing(q)' /\ ~Filling(q)' /\ (Switching(q)' => q = p) /\ (Opening(q)' => q = p)
        /\ pc'[q] \notin {"put", "count", "setup"}
  BY <1>1, <1>2, <1>3 DEF Writing, Switching, Filling, Opening
<1>5. made + 1 \in Buffers /\ made + 1 > made /\ \A b \in Buffers : b > made + 1 => b > made
  BY <1>1, <1>2, Consts DEF Buffers
<1>6. count[made + 1] = 0 /\ \A i \in Indices : item[made + 1][i] = 0
  BY <1>5 DEF Slots
<1>7. Counted' = {}
  BY <1>2, <1>6 DEF Counted
<1>8. count[made + 1] = Cardinality(Counted') /\ count[made + 1] # Size
  BY <1>6, <1>7, FS_EmptySet, Consts
<1>9. Opening(p)' /\ buf'[p] = made + 1 /\ m_write_index >= Size
  BY <1>1, <1>2 DEF Opening, Slots, Switching
<1>10. \A b \in Buffers : b > made' =>
         count[b] = 0 /\ \A i \in Indices : item[b][i] = 0
  BY <1>2, <1>5 DEF Slots
<1> QED
  BY <1>2, <1>4, <1>6, <1>8, <1>9, <1>10 DEF Slots

LEMMA SlotsEnqueue ==
  ASSUME Control, Slots, NEW p \in Producers, Enqueue(p)
  PROVE  Slots'
<1>1. pc \in [Producers -> {"idle", "claim", "spin", "load", "put", "count",
                            "setup", "enqueue", "reset"}]
  BY DEF Control, TypeOK
<1>2. /\ UNCHANGED <<m_current_write_buffer, made, item, count, index, buf, m_write_index>>
      /\ pc[p] = "enqueue" /\ pc' = [pc EXCEPT ![p] = "reset"]
  BY DEF Enqueue, Goto, memory, local
<1>3. \A q \in Producers :
        /\ Writing(q)' <=> Writing(q)
        /\ Switching(q)' <=> Switching(q)
        /\ Filling(q)' <=> Filling(q)
        /\ Opening(q)' <=> Opening(q)
        /\ pc'[q] = "put" <=> pc[q] = "put"
        /\ pc'[q] = "count" <=> pc[q] = "count"
        /\ pc'[q] = "setup" <=> pc[q] = "setup"
  BY <1>1, <1>2 DEF Writing, Switching, Filling, Opening
<1>4. Counted' = Counted
  BY <1>2, <1>3 DEF Counted
<1> QED  BY <1>2, <1>3, <1>4 DEF Slots

LEMMA SlotsReset ==
  ASSUME Control, Slots, NEW p \in Producers, Reset(p)
  PROVE  Slots'
<1>1. pc \in [Producers -> {"idle", "claim", "spin", "load", "put", "count",
                            "setup", "enqueue", "reset"}]
  BY DEF Control, TypeOK
<1>2. /\ UNCHANGED <<m_current_write_buffer, made, item, count, index, buf>>
      /\ pc[p] = "reset" /\ pc' = [pc EXCEPT ![p] = "idle"] /\ m_write_index' = 0
  BY DEF Reset, Goto, memory, local
<1>3. \A q \in Producers : ~Writing(q) /\ (Switching(q) => q = p)
  BY <1>2 DEF Slots, Switching, Writing
<1>4. \A q \in Producers :
        /\ ~Writing(q)' /\ ~Filling(q)' /\ ~Switching(q)' /\ ~Opening(q)'
        /\ pc'[q] \notin {"put", "count", "setup"} /\ pc[q] # "count"
  BY <1>1, <1>2, <1>3 DEF Writing, Switching, Filling, Opening
<1>5. Counted' = Counted
  BY <1>2, <1>4 DEF Counted
<1>6. count[made] = 0 /\ (\A i \in Indices : item[made][i] = 0) /\ Size # 0
  BY <1>2, Consts DEF Slots, Opening
<1>7. \A i \in Indices : ~ (i < 0)
  BY Consts DEF Indices
<1> QED
  BY <1>2, <1>4, <1>5, <1>6, <1>7 DEF Slots

-----------------------------------------------------------------------------
(* The order of the buffers *)

\* Numbers without a gap.
LEMMA OrderSame ==
  ASSUME Order, Newest' = Newest, UNCHANGED <<m_buffers, freed, made>>,
         \A b \in Buffers, i \in Indices : item[b][i] # 0 => item'[b][i] # 0
  PROVE  Order'
BY DEF Order

LEMMA NewestSame ==
  ASSUME Control, NEW p \in Producers, NEW l, l # "enqueue", pc[p] # "enqueue",
         pc' = [pc EXCEPT ![p] = l], made' = made
  PROVE  Newest' = Newest
<1>1. \A q \in Producers : pc'[q] = "enqueue" <=> pc[q] = "enqueue"
  BY DEF Control, TypeOK
<1> QED  BY <1>1 DEF Newest

LEMMA OrderPush ==
  ASSUME Control, Slots, Order, NEW p \in Producers,
         Push(p) \/ Claim(p) \/ Spin(p) \/ Load(p) \/ Count(p) \/ Reset(p)
  PROVE  Order'
<1>1. /\ UNCHANGED <<m_buffers, freed, made, item>>
      /\ pc[p] # "enqueue" /\ \E l : l # "enqueue" /\ pc' = [pc EXCEPT ![p] = l]
  BY DEF Push, Claim, Spin, Load, Count, Reset, Goto, memory, reader
<1>2. Newest' = Newest
  BY <1>1, NewestSame
<1> QED  BY <1>1, <1>2, OrderSame

LEMMA OrderPut ==
  ASSUME Control, Slots, Order, NEW p \in Producers, Put(p), line[p] # 0
  PROVE  Order'
<1>1. /\ UNCHANGED <<m_buffers, freed, made>>
      /\ pc[p] = "put" /\ pc' = [pc EXCEPT ![p] = "count"]
      /\ item' = [item EXCEPT ![buf[p]][index[p]] = line[p]]
      /\ buf[p] \in Buffers /\ index[p] \in Indices
  BY DEF Put, Goto, reader, Control, Writing
<1>2. Newest' = Newest
  BY <1>1, NewestSame
<1>3. \A b \in Buffers, i \in Indices : item[b][i] # 0 => item'[b][i] # 0
  BY <1>1 DEF Control, TypeOK
<1> QED  BY <1>1, <1>2, <1>3, OrderSame

LEMMA OrderSetup ==
  ASSUME Control, Slots, Order, NEW p \in Producers, Setup(p)
  PROVE  Order'
<1>1. /\ UNCHANGED <<m_buffers, freed, item>> /\ made \in Nat
      /\ pc[p] = "setup" /\ pc' = [pc EXCEPT ![p] = "enqueue"] /\ made' = made + 1
  BY Consts DEF Setup, Goto, reader, Control, TypeOK, Buffers
<1>2. \A q \in Producers : pc[q] # "enqueue"
  BY <1>1 DEF Slots, Switching
<1>3. pc'[p] = "enqueue"
  BY <1>1 DEF Control, TypeOK
<1>4. Newest' = Newest
  BY <1>1, <1>2, <1>3 DEF Newest
<1>5. \A i \in Indices : item[made][i] # 0
  BY <1>1, AllCounted DEF Slots
<1>6. \A b \in Buffers : b < made + 1 => b < made \/ b = made
  BY <1>1 DEF Buffers
<1> QED  BY <1>1, <1>4, <1>5, <1>6 DEF Order

LEMMA OrderEnqueue ==
  ASSUME Control, Slots, Order, NEW p \in Producers, Enqueue(p)
  PROVE  Order'
<1>1. /\ UNCHANGED <<freed, item, made>> /\ made \in Nat /\ made \in Buffers /\ buf[p] = made
      /\ pc[p] = "enqueue" /\ pc' = [pc EXCEPT ![p] = "reset"]
      /\ m_buffers' = Append(m_buffers, made) /\ m_buffers \in Seq(Buffers)
  BY Consts DEF Enqueue, Goto, reader, memory, Control, TypeOK, Buffers, Slots, Opening
<1>2. \A q \in Producers : pc'[q] # "enqueue"
  BY <1>1 DEF Slots, Switching, Control, TypeOK
<1>3. Newest = made - 1 /\ Newest' = made
  BY <1>1, <1>2 DEF Newest
<1>4. Len(m_buffers) \in Nat /\ Len(m_buffers') = Len(m_buffers) + 1
      /\ m_buffers'[Len(m_buffers) + 1] = made
      /\ \A k \in 1..Len(m_buffers) : m_buffers'[k] = m_buffers[k]
  BY <1>1
<1>5. Newest' - Len(m_buffers') = Newest - Len(m_buffers) /\ Len(m_buffers') <= Newest'
  BY <1>1, <1>3, <1>4 DEF Order
<1>6. ASSUME NEW k \in 1..Len(m_buffers')
      PROVE  m_buffers'[k] = (Newest - Len(m_buffers)) + k
  <2>1. CASE k = Len(m_buffers) + 1
    BY <1>1, <1>3, <1>4, <2>1
  <2>2. CASE k # Len(m_buffers) + 1
    <3>1. k \in 1..Len(m_buffers)
      BY <1>4, <2>2
    <3> QED  BY <1>4, <3>1 DEF Order
  <2> QED  BY <2>1, <2>2
<1> QED  BY <1>1, <1>5, <1>6 DEF Order

LEMMA OrderRelease ==
  ASSUME Control, Order, Release
  PROVE  Order'
<1>1. /\ UNCHANGED <<pc, item, made>> /\ made \in Nat /\ m_buffers # <<>>
      /\ freed' = freed \cup {Head(m_buffers)} /\ m_buffers' = Tail(m_buffers)
      /\ m_buffers \in Seq(Buffers)
  BY Consts DEF Release, memory, Control, TypeOK, Buffers
<1>2. Newest' = Newest /\ Newest \in Int
  BY <1>1 DEF Newest
<1>3. Len(m_buffers) \in Nat /\ Len(m_buffers) >= 1 /\ Len(m_buffers') = Len(m_buffers) - 1
      /\ Head(m_buffers) = m_buffers[1]
      /\ \A k \in 1..Len(m_buffers') : m_buffers'[k] = m_buffers[k + 1] /\ k + 1 \in 1..Len(m_buffers)
  BY <1>1
<1> DEFINE f == Newest - Len(m_buffers)
<1>4. f \in Nat /\ Newest' - Len(m_buffers') = f + 1 /\ Len(m_buffers') <= Newest'
  BY <1>2, <1>3 DEF Order
<1>5. Head(m_buffers) = f + 1
  <2>1. 1 \in 1..Len(m_buffers)  BY <1>3
  <2> QED  BY <1>3, <2>1 DEF Order
<1>6. \A k \in 1..Len(m_buffers') : m_buffers'[k] = f + (k + 1)
  BY <1>3 DEF Order
<1>7. freed = 1..f
  BY DEF Order
<1> HIDE DEF f
<1>8. freed' = 1..(f + 1)
  BY <1>1, <1>4, <1>5, <1>7
<1>9. \A k \in 1..Len(m_buffers') : m_buffers'[k] = (f + 1) + k
  BY <1>3, <1>4, <1>6
<1> QED  BY <1>1, <1>4, <1>8, <1>9 DEF Order

LEMMA OrderRest ==
  ASSUME Control, Order, UNCHANGED <<m_buffers, freed, made, item, pc>>
  PROVE  Order'
BY DEF Order, Newest

-----------------------------------------------------------------------------
(* Where the lines are *)

\* A step that moves no line.
LEMMA PlacesKeep ==
  ASSUME Places, UNCHANGED <<line, lines, item, logged>>,
         \A q \in Producers : Holding(q)' <=> Holding(q),
         \A b \in Buffers, i \in Indices : IsRead(b, i)' <=> IsRead(b, i),
         thread' = "exit" => thread = "exit" \/ \A l \in 1..lines : IsLogged(l)
  PROVE  Places'
<1>1. \A l : (Held(l)' <=> Held(l)) /\ (IsLogged(l)' <=> IsLogged(l))
  BY DEF Held, Holding, IsLogged
<1>2. \A b \in Buffers, i \in Indices : IsLogged(item[b][i])' <=> IsLogged(item[b][i])
  BY DEF IsLogged
<1> QED  BY <1>1, <1>2 DEF Places

LEMMA PlacesPush ==
  ASSUME Control, Places, NEW p \in Producers, Push(p)
  PROVE  Places'
<1>1. /\ UNCHANGED <<item, logged, freed, m_buffers, m_read_index, step, thread>>
      /\ state = "READY" /\ pc[p] = "idle" /\ pc' = [pc EXCEPT ![p] = "claim"]
      /\ lines' = lines + 1 /\ line' = [line EXCEPT ![p] = lines + 1]
  BY DEF Push, Goto, memory, reader, loggerVars
<1>2. /\ pc \in [Producers -> {"idle", "claim", "spin", "load", "put", "count",
                               "setup", "enqueue", "reset"}]
      /\ line \in [Producers -> Lines \cup {0}] /\ lines \in Nat
      /\ item \in [Buffers -> [Indices -> Lines \cup {0}]] /\ thread # "exit"
  BY <1>1, Consts DEF Control, TypeOK
<1>3. /\ Holding(p)' /\ ~Holding(p) /\ line'[p] = lines + 1
      /\ \A q \in Producers : q # p => (Holding(q)' <=> Holding(q)) /\ line'[q] = line[q]
  BY <1>1, <1>2 DEF Holding
<1>4. \A l \in 1..lines : l \in 1..(lines + 1) /\ l # lines + 1 /\ l # 0
  BY <1>2
<1>5. \A b \in Buffers, i \in Indices : item[b][i] # lines + 1
  <2>1. lines + 1 # 0  BY <1>2
  <2> QED  BY <1>4, <2>1 DEF Places
<1>6. \A b \in Buffers, i \in Indices :
        (IsRead(b, i)' <=> IsRead(b, i)) /\ (IsLogged(item[b][i])' <=> IsLogged(item[b][i]))
  BY <1>1 DEF IsRead, IsLogged
<1>7. \A q \in Producers : Holding(q)' =>
        /\ line'[q] \in 1..lines'
        /\ \A r \in Producers : Holding(r)' /\ line'[r] = line'[q] => r = q
        /\ \A b \in Buffers, i \in Indices : item[b][i] # line'[q]
  <2>1. lines + 1 \in 1..(lines + 1)  BY <1>2
  <2>2. \A q \in Producers : Holding(q) => q # p /\ line[q] \in 1..lines /\ line[q] # lines + 1
    BY <1>3, <1>4 DEF Places
  <2> QED  BY <1>1, <1>3, <1>4, <1>5, <2>1, <2>2 DEF Places
<1>8. ASSUME NEW l \in 1..lines'
      PROVE  Held(l)' \/ \E b \in Buffers, i \in Indices : item[b][i] = l
  <2>1. CASE l = lines + 1
    BY <1>3, <2>1 DEF Held, Holding
  <2>2. CASE l # lines + 1
    <3>1. l \in 1..lines
      BY <1>1, <1>2, <2>2
    <3>2. Held(l) => Held(l)'
      BY <1>1, <1>2 DEF Held
    <3> QED  BY <3>1, <3>2 DEF Places
  <2> QED  BY <2>1, <2>2
<1>9. \A b \in Buffers, i \in Indices : item[b][i] # 0 => item[b][i] \in 1..lines'
  BY <1>1, <1>4 DEF Places
<1> QED
  BY <1>1, <1>2, <1>6, <1>7, <1>8, <1>9 DEF Places

LEMMA PlacesMove ==
  ASSUME Control, Places, NEW p \in Producers,
         Claim(p) \/ Spin(p) \/ Load(p) \/ Count(p) \/ Setup(p) \/ Reset(p)
  PROVE  Places'
<1>1. UNCHANGED <<line, lines, item, logged, freed, m_buffers, m_read_index, step, thread>>
  BY DEF Claim, Spin, Load, Count, Setup, Reset, memory, reader, local, loggerVars
<1>2. \A q \in Producers : Holding(q)' <=> Holding(q)
  BY DEF Claim, Spin, Load, Count, Setup, Reset, Goto, Holding, Control, TypeOK
<1>3. \A b \in Buffers, i \in Indices : IsRead(b, i)' <=> IsRead(b, i)
  BY <1>1 DEF IsRead
<1> QED  BY <1>1, <1>2, <1>3, PlacesKeep

LEMMA PlacesEnqueue ==
  ASSUME Control, Places, NEW p \in Producers, Enqueue(p)
  PROVE  Places'
<1>1. /\ UNCHANGED <<line, lines, item, logged, freed, m_read_index, step, thread>>
      /\ m_buffers' = Append(m_buffers, buf[p]) /\ buf[p] \in Buffers
      /\ m_buffers \in Seq(Buffers)
  BY DEF Enqueue, memory, reader, local, loggerVars, Control, TypeOK
<1>2. \A q \in Producers : Holding(q)' <=> Holding(q)
  BY DEF Enqueue, Goto, Holding, Control, TypeOK
<1>3. m_buffers # <<>> => m_buffers' # <<>> /\ Head(m_buffers') = Head(m_buffers)
  BY <1>1, HeadOfAppend
<1>4. m_buffers = <<>> => m_read_index = 0 /\ step # "release"
  BY DEF Control, ReadsLive
<1>5. \A i \in Indices : ~ (i < 0)
  BY Consts DEF Indices
<1>6. \A b \in Buffers, i \in Indices : IsRead(b, i)' <=> IsRead(b, i)
  BY <1>1, <1>3, <1>4, <1>5 DEF IsRead
<1> QED  BY <1>1, <1>2, <1>6, PlacesKeep

LEMMA PlacesPut ==
  ASSUME Control, Slots, Places, NEW p \in Producers, Put(p)
  PROVE  Places'
<1>1. /\ UNCHANGED <<line, lines, logged, freed, m_buffers, m_read_index, step, thread>>
      /\ pc[p] = "put" /\ pc' = [pc EXCEPT ![p] = "count"]
      /\ item' = [item EXCEPT ![buf[p]][index[p]] = line[p]]
      /\ buf[p] \in Buffers /\ index[p] \in Indices /\ item[buf[p]][index[p]] = 0
  BY DEF Put, Goto, local, reader, loggerVars, Slots, Control, Writing, Filling
<1> DEFINE c == buf[p]
           j == index[p]
           n == line[p]
<1>2. /\ pc \in [Producers -> {"idle", "claim", "spin", "load", "put", "count",
                               "setup", "enqueue", "reset"}]
      /\ item \in [Buffers -> [Indices -> Lines \cup {0}]] /\ lines \in Nat
  BY Consts DEF Control, TypeOK
<1>3. /\ item'[c][j] = n
      /\ \A b \in Buffers, i \in Indices : b # c \/ i # j => item'[b][i] = item[b][i]
  BY <1>1, <1>2
<1>4. Holding(p) /\ \A q \in Producers : Holding(q)' <=> Holding(q) /\ q # p
  BY <1>1, <1>2 DEF Holding
<1>5. n \in 1..lines /\ n # 0 /\ \A b \in Buffers, i \in Indices : item[b][i] # n
  BY <1>2, <1>4 DEF Places
<1>6. \A b \in Buffers, i \in Indices : IsRead(b, i)' <=> IsRead(b, i)
  BY <1>1 DEF IsRead
<1>7. \A l : IsLogged(l)' <=> IsLogged(l)
  BY <1>1 DEF IsLogged
<1>8. ~IsRead(c, j)
  BY <1>1 DEF Places
<1>9. c \in Buffers /\ j \in Indices /\ item[c][j] = 0
  BY <1>1
<1>10. \A q \in Producers : Holding(q)' => line[q] # n
  BY <1>4 DEF Places
<1> HIDE DEF c, j, n
<1>11. \A q \in Producers : Holding(q)' =>
         /\ line[q] \in 1..lines
         /\ \A r \in Producers : Holding(r)' /\ line[r] = line[q] => r = q
         /\ \A b \in Buffers, i \in Indices : item'[b][i] # line[q]
  BY <1>3, <1>4, <1>10 DEF Places
<1>12. \A b \in Buffers, i \in Indices : item'[b][i] # 0 =>
         /\ item'[b][i] \in 1..lines
         /\ \A d \in Buffers, k \in Indices : item'[d][k] = item'[b][i] => d = b /\ k = i
  <2>1. \A b \in Buffers, i \in Indices : item'[b][i] = n => b = c /\ i = j
    BY <1>3, <1>5
  <2>2. \A b \in Buffers, i \in Indices : item'[b][i] # n => item'[b][i] = item[b][i]
    BY <1>3
  <2>3. \A b \in Buffers, i \in Indices : item'[b][i] # 0 => item'[b][i] \in 1..lines
    BY <1>5, <2>2 DEF Places
  <2>4. ASSUME NEW b \in Buffers, NEW i \in Indices, item'[b][i] # 0,
               NEW d \in Buffers, NEW k \in Indices, item'[d][k] = item'[b][i]
        PROVE  d = b /\ k = i
    <3>1. CASE item'[b][i] = n
      BY <2>1, <2>4, <3>1
    <3>2. CASE item'[b][i] # n
      <4>1. item'[b][i] = item[b][i] /\ item'[d][k] = item[d][k]
        BY <2>2, <2>4, <3>2
      <4> QED  BY <2>4, <4>1 DEF Places
    <3> QED  BY <3>1, <3>2
  <2> QED  BY <2>3, <2>4
<1>13. ASSUME NEW l \in 1..lines
       PROVE  Held(l)' \/ \E b \in Buffers, i \in Indices : item'[b][i] = l
  <2>1. CASE Held(l)
    <3>1. PICK q \in Producers : line[q] = l /\ Holding(q)
      BY <2>1 DEF Held, Holding
    <3>2. CASE q = p
      BY <1>3, <1>9, <3>1, <3>2 DEF n
    <3>3. CASE q # p
      BY <1>1, <1>4, <3>1, <3>3 DEF Held, Holding
    <3> QED  BY <3>2, <3>3
  <2>2. CASE \E b \in Buffers, i \in Indices : item[b][i] = l
    <3>1. l # 0  OBVIOUS
    <3> QED  BY <1>3, <1>9, <2>2, <3>1
  <2> QED  BY <2>1, <2>2 DEF Places
<1>14. \A b \in Buffers, i \in Indices : IsRead(b, i)' =>
         item'[b][i] = item[b][i] /\ item'[b][i] # 0 /\ IsLogged(item[b][i])
  BY <1>3, <1>6, <1>8 DEF Places
<1>15. \A k \in 1..Len(logged) : \E b \in Buffers, i \in Indices : IsRead(b, i)' /\ item'[b][i] = logged[k]
  BY <1>6, <1>14 DEF Places
<1>16. (\A b \in Buffers, i \in Indices : IsRead(b, i) => item[b][i] # 0 /\ IsLogged(item[b][i]))'
  BY <1>1, <1>14 DEF IsLogged
<1> QED
  BY <1>1, <1>7, <1>11, <1>12, <1>13, <1>15, <1>16 DEF Places

\* pop() ends when nothing is left to read.
LEMMA AllRead ==
  ASSUME Control, Slots, Order, Places, thread = "drain",
         m_buffers = <<>> \/ (step = "read" /\ item[m_current_read_buffer][m_read_index] = 0)
  PROVE  \A l \in 1..lines : IsLogged(l)
<1>1. \A p \in Producers : pc[p] = "idle"
  BY DEF Control, Idle
<1>2. Newest = made /\ \A p \in Producers : ~Opening(p) /\ ~Filling(p)
  BY <1>1 DEF Newest, Opening, Filling
<1>3. /\ made \in Nat /\ m_buffers \in Seq(Buffers) /\ Len(m_buffers) \in Nat
      /\ m_write_index \in Nat /\ m_read_index \in Indices /\ \A i \in Indices : i \in Nat
      /\ \A b \in Buffers : b \in Nat /\ b >= 1
  <2>1. made \in Buffers /\ m_buffers \in Seq(Buffers) /\ Len(m_buffers) \in Nat
        /\ m_write_index \in Nat /\ m_read_index \in Indices
    BY DEF Control, TypeOK
  <2>2. (\A i \in Indices : i \in Nat) /\ \A b \in Buffers : b \in Nat /\ b >= 1
    BY Consts DEF Buffers, Indices
  <2> QED  BY <2>1, <2>2
<1> TAKE l \in 1..lines
<1>4. PICK b \in Buffers, i \in Indices : item[b][i] = l
  BY <1>1 DEF Places, Held
<1>5. l # 0 /\ b <= made
  BY <1>3, <1>4 DEF Slots
<1>6. IsRead(b, i)
  <2>1. CASE m_buffers = <<>>
    <3>1. freed = 1..made
      BY <1>2, <1>3, <2>1 DEF Order
    <3> QED  BY <1>3, <1>5, <3>1 DEF IsRead
  <2>2. CASE m_buffers # <<>>
    <3> DEFINE f == made - Len(m_buffers)
               h == Head(m_buffers)
    <3>1. Len(m_buffers) >= 1 /\ h = m_buffers[1] /\ h \in Buffers
      BY <1>3, <2>2
    <3>2. freed = 1..f /\ h = f + 1 /\ f \in Nat
      <4>1. 1 \in 1..Len(m_buffers)  BY <1>3, <3>1
      <4> QED  BY <1>2, <1>3, <3>1, <4>1 DEF Order
    <3>3. m_current_read_buffer = h /\ item[h][m_read_index] = 0
      BY <2>2 DEF Control, ReadsLive
    <3>4. h = made
      <4>1. ~ (h < made)
        BY <1>3, <3>1, <3>3 DEF Order
      <4>2. h <= made
        BY <1>3, <3>1, <3>2
      <4> QED  BY <1>3, <3>1, <4>1, <4>2
    <3>5. CASE b < made
      BY <1>3, <3>2, <3>4, <3>5 DEF IsRead
    <3>6. CASE b = made
      <4>1. ~ (m_read_index < m_write_index)
        BY <1>2, <1>3, <3>3, <3>4 DEF Slots
      <4>2. ~ (i >= m_write_index)
        BY <1>2, <1>4, <1>5, <3>6 DEF Slots
      <4>3. i < m_read_index
        BY <1>3, <4>1, <4>2
      <4> QED  BY <2>2, <3>4, <3>6, <4>3 DEF IsRead
    <3> QED  BY <1>3, <1>5, <3>5, <3>6
  <2> QED  BY <2>1, <2>2
<1> QED  BY <1>4, <1>6 DEF Places

LEMMA PlacesFetch ==
  ASSUME Control, Slots, Order, Places, Fetch
  PROVE  Places'
<1>1. /\ UNCHANGED <<line, lines, item, logged, freed, m_buffers, m_read_index, pc>>
      /\ step = "fetch" /\ step' # "release"
      /\ thread' = "exit" => thread = "drain" /\ m_buffers = <<>>
  <2>1. m_current_read_buffer = 0 \/ m_buffers # <<>>
    BY DEF Control, ReadsLive
  <2>2. m_buffers # <<>> => Head(m_buffers) # 0
    <3>1. \A b \in Buffers : b # 0  BY Consts DEF Buffers
    <3> QED  BY <3>1 DEF Control, TypeOK
  <2> QED
    BY <2>1, <2>2 DEF Fetch, GotNothing, loggerVars, memory, local
<1>2. \A b \in Buffers, i \in Indices : IsRead(b, i)' <=> IsRead(b, i)
  BY <1>1 DEF IsRead
<1>3. thread' = "exit" => \A l \in 1..lines : IsLogged(l)
  BY <1>1, AllRead
<1> QED  BY <1>1, <1>2, <1>3, PlacesKeep DEF Holding

LEMMA PlacesRelease ==
  ASSUME Control, Order, Places, Release
  PROVE  Places'
<1>1. /\ UNCHANGED <<line, lines, item, logged, m_read_index, pc>>
      /\ step = "release" /\ step' = "fetch" /\ thread' # "exit"
      /\ freed' = freed \cup {Head(m_buffers)} /\ m_buffers # <<>> /\ m_read_index = 0
  BY DEF Release, memory, local, Control
<1>2. \A i \in Indices : ~ (i < 0)
  BY Consts DEF Indices
<1>3. \A b \in Buffers, i \in Indices : IsRead(b, i)' <=> IsRead(b, i)
  BY <1>1, <1>2 DEF IsRead
<1> QED  BY <1>1, <1>3, PlacesKeep DEF Holding

LEMMA PlacesRun ==
  ASSUME Places, Run \/ Destroy
  PROVE  Places'
<1>1. /\ UNCHANGED <<line, lines, item, logged, freed, m_buffers, m_read_index, step, pc>>
      /\ thread' = "exit" => thread = "exit"
  BY DEF Run, Destroy, Ready, Awake, Loop, Shutdown, memory, local, reader
<1>2. \A b \in Buffers, i \in Indices : IsRead(b, i)' <=> IsRead(b, i)
  BY <1>1 DEF IsRead
<1> QED  BY <1>1, <1>2, PlacesKeep DEF Holding

LEMMA PlacesRead ==
  ASSUME Control, Slots, Order, Places, Read
  PROVE  Places'
<1> DEFINE c == m_current_read_buffer
           j == m_read_index
           n == item[c][j]
<1>1. /\ UNCHANGED <<line, lines, item, freed, m_buffers, pc>>
      /\ step = "read"
      /\ \/ /\ n = 0 /\ logged' = logged /\ step' = "fetch" /\ m_read_index' = j
            /\ thread' = "exit" => thread = "drain"
         \/ /\ n # 0 /\ logged' = Append(logged, n) /\ thread' # "exit"
            /\ m_read_index' = (j + 1) % Size
            /\ \/ j + 1 = Size /\ step' = "release"
               \/ j + 1 # Size /\ step' = "fetch"
  BY DEF Read, GotNothing, Got, Log, loggerVars, memory, local, Control
<1>2. /\ c \in Buffers /\ j \in Indices /\ m_buffers # <<>> /\ c = Head(m_buffers)
      /\ m_buffers \in Seq(Buffers) /\ logged \in Seq(Lines)
      /\ item \in [Buffers -> [Indices -> Lines \cup {0}]]
  BY <1>1 DEF Control, ReadsLive, TypeOK, LoggerType
<1>3. CASE n = 0
  <2>1. \A b \in Buffers, i \in Indices : IsRead(b, i)' <=> IsRead(b, i)
    BY <1>1, <1>3 DEF IsRead
  <2>2. thread' = "exit" => \A l \in 1..lines : IsLogged(l)
    BY <1>1, <1>3, AllRead
  <2>3. UNCHANGED <<line, lines, item, logged, pc>>
    BY <1>1, <1>3
  <2> QED  BY <2>1, <2>2, <2>3, PlacesKeep DEF Holding
<1>4. CASE n # 0
  <2>1. /\ logged' = Append(logged, n) /\ thread' # "exit"
        /\ m_read_index' = (j + 1) % Size
        /\ \/ j + 1 = Size /\ step' = "release"
           \/ j + 1 # Size /\ step' = "fetch"
    BY <1>1, <1>4
  <2>2. n \in Lines
    BY <1>2, <1>4
  <2>3. ~IsRead(c, j)
    <3>1. c \notin freed
      <4>1. 1 \in 1..Len(m_buffers) /\ Len(m_buffers) \in Nat /\ c = m_buffers[1]
        BY <1>2
      <4>2. Newest \in Int
        BY Consts DEF Newest, Control, TypeOK, Buffers
      <4>3. c = (Newest - Len(m_buffers)) + 1 /\ freed = 1..(Newest - Len(m_buffers))
        BY <4>1 DEF Order
      <4> QED  BY <4>1, <4>2, <4>3
    <3>2. ~ (j < j)
      BY <1>2, Consts DEF Indices
    <3> QED  BY <1>1, <1>2, <3>1, <3>2 DEF IsRead
  <2>4. \A b \in Buffers, i \in Indices : IsRead(b, i)' <=> IsRead(b, i) \/ (b = c /\ i = j)
    <3> SUFFICES ASSUME NEW b \in Buffers, NEW i \in Indices
                 PROVE  IsRead(b, i)' <=> IsRead(b, i) \/ (b = c /\ i = j)
      OBVIOUS
    <3>1. i \in 0..(Size - 1) /\ j \in 0..(Size - 1) /\ Size \in Nat
      BY <1>2, Consts DEF Indices
    <3>2. CASE j + 1 = Size
      <4>1. step' = "release" /\ (i < j \/ i = j)
        BY <2>1, <3>1, <3>2
      <4> QED  BY <1>1, <1>2, <4>1 DEF IsRead
    <3>3. CASE j + 1 # Size
      <4>1. (j + 1) % Size = j + 1
        <5>1. j + 1 \in 0..(Size - 1)  BY <3>1, <3>3
        <5> QED  BY <3>1, <5>1
      <4>2. i < j + 1 <=> i < j \/ i = j
        BY <3>1
      <4> QED  BY <1>1, <1>2, <2>1, <3>3, <4>1, <4>2 DEF IsRead
    <3> QED  BY <3>2, <3>3
  <2> HIDE DEF n
  <2>5. /\ Len(logged) \in Nat /\ Len(logged') = Len(logged) + 1 /\ logged'[Len(logged) + 1] = n
        /\ \A k \in 1..Len(logged) : logged'[k] = logged[k]
        /\ \A k \in 1..(Len(logged) + 1) : k \in 1..Len(logged) \/ k = Len(logged) + 1
    BY <1>2, <2>1, <2>2
  <2>6. \A l : IsLogged(l) => IsLogged(l)'
    BY <2>5 DEF IsLogged
  <2>7. \E k \in 1..Len(logged') : logged'[k] = n
    <3>1. Len(logged) + 1 \in 1..Len(logged')  BY <2>5
    <3> QED  BY <2>5, <3>1
  <2>8. \A k \in 1..Len(logged) : logged[k] # n
    <3> SUFFICES ASSUME NEW k \in 1..Len(logged), logged[k] = n PROVE FALSE
      OBVIOUS
    <3>1. PICK b \in Buffers, i \in Indices : IsRead(b, i) /\ item[b][i] = logged[k]
      BY DEF Places
    <3>2. b = c /\ i = j
      BY <1>2, <1>4, <3>1 DEF Places, n
    <3> QED  BY <2>3, <3>1, <3>2
  <2>9. \A i, k \in 1..Len(logged') : logged'[i] = logged'[k] => i = k
    BY <2>5, <2>8 DEF Places
  <2>10. \A b \in Buffers, i \in Indices : IsRead(b, i)' => item[b][i] # 0 /\ IsLogged(item[b][i])'
    <3> SUFFICES ASSUME NEW b \in Buffers, NEW i \in Indices, IsRead(b, i)'
                 PROVE  item[b][i] # 0 /\ \E k \in 1..Len(logged') : logged'[k] = item[b][i]
      BY <1>1 DEF IsLogged
    <3>1. CASE b = c /\ i = j
      BY <1>1, <1>4, <2>7, <3>1 DEF n
    <3>2. CASE ~ (b = c /\ i = j)
      <4>1. IsRead(b, i)
        BY <2>4, <3>2
      <4>2. item[b][i] # 0 /\ IsLogged(item[b][i])
        BY <4>1 DEF Places
      <4> QED  BY <2>5, <4>2 DEF IsLogged
    <3> QED  BY <3>1, <3>2
  <2>11. \A k \in 1..Len(logged') : \E b \in Buffers, i \in Indices : IsRead(b, i)' /\ item[b][i] = logged'[k]
    <3> SUFFICES ASSUME NEW k \in 1..Len(logged')
                 PROVE  \E b \in Buffers, i \in Indices : IsRead(b, i)' /\ item[b][i] = logged'[k]
      OBVIOUS
    <3>1. CASE k = Len(logged) + 1
      BY <1>2, <2>4, <2>5, <3>1 DEF n
    <3>2. CASE k \in 1..Len(logged)
      BY <2>4, <2>5, <3>2 DEF Places
    <3> QED  BY <2>5, <3>1, <3>2
  <2>12. \A l : Held(l)' <=> Held(l)
    BY <1>1 DEF Held
  <2>13. \A q \in Producers : Holding(q)' <=> Holding(q)
    BY <1>1 DEF Holding
  <2>14. (\A b \in Buffers, i \in Indices : IsRead(b, i) => item[b][i] # 0 /\ IsLogged(item[b][i]))'
    BY <1>1, <2>10
  <2> QED
    BY <1>1, <2>1, <2>9, <2>11, <2>12, <2>13, <2>14 DEF Places
<1> QED  BY <1>3, <1>4

-----------------------------------------------------------------------------
(* The theorems *)

LEMMA QueueInit == Init => QueueInv
<1> SUFFICES ASSUME Init PROVE QueueInv
  OBVIOUS
<1>1. /\ made = 1 /\ m_current_write_buffer = 1 /\ m_buffers = <<1>> /\ freed = {} /\ lines = 0
      /\ logged = <<>> /\ step = "fetch" /\ m_read_index = 0 /\ m_write_index = 0 /\ thread = "init"
      /\ \A p \in Producers : pc[p] = "idle"
      /\ \A b \in Buffers : count[b] = 0 /\ \A i \in Indices : item[b][i] = 0
  BY DEF Init, LoggerInit
<1>2. Slots
  <2>1. Counted = {}
    BY <1>1, Consts DEF Counted
  <2>2. Cardinality(Counted) = 0
    BY <2>1, FS_EmptySet
  <2>3. \A i \in Indices : ~ (i < 0)
    BY Consts DEF Indices
  <2> QED
    BY <1>1, <2>2, <2>3, Consts DEF Slots, Writing, Switching, Filling, Opening
<1>3. Order
  <2>1. Newest = 1 /\ Len(m_buffers) = 1 /\ m_buffers[1] = 1 /\ 1..(1 - 1) = {}
    BY <1>1 DEF Newest
  <2>2. \A b \in Buffers : ~ (b < 1)
    BY Consts DEF Buffers
  <2> QED  BY <1>1, <2>1, <2>2 DEF Order
<1>4. Places
  <2>1. \A b \in Buffers, i \in Indices : ~IsRead(b, i)
    BY <1>1, Consts DEF IsRead, Indices
  <2> QED  BY <1>1, <2>1 DEF Places, Holding
<1> QED  BY <1>2, <1>3, <1>4, ControlInit DEF QueueInv

LEMMA QueueStep == QueueInv /\ [Next]_vars => QueueInv'
<1> SUFFICES ASSUME QueueInv, [Next]_vars PROVE QueueInv'
  OBVIOUS
<1>1. Control
  BY DEF QueueInv
<1>2. CASE UNCHANGED vars
  <2>1. Control' /\ fault' = fault
    BY <1>1, <1>2 DEF vars, loggerVars, Control, TypeOK, LoggerType, Writing, ReadsLive, Idle
  <2>2. Slots => Slots'
    <3>1. Counted' = Counted
      BY <1>2 DEF vars, Counted
    <3> QED  BY <1>2, <3>1 DEF vars, Slots, Writing, Switching, Filling, Opening
  <2>3. Order => Order'
    BY <1>1, <1>2, OrderRest DEF vars
  <2>4. Places => Places'
    BY <1>2, PlacesKeep DEF vars, loggerVars, Holding, IsRead
  <2> QED  BY <2>1, <2>2, <2>3, <2>4 DEF QueueInv
<1>3. ASSUME NEW p \in Producers, Push(p) \/ PushStep(p)
      PROVE  QueueInv'
  <2>1. Control'
    BY <1>1, <1>3, ControlPush
  <2>2. SUFFICES ASSUME ~fault' PROVE Slots' /\ Order' /\ Places'
    BY <2>1 DEF QueueInv
  <2>3. Slots /\ Order /\ Places
    <3>1. ~fault
      BY <1>3, <2>2 DEF Push, PushStep, Claim, Spin, Load, Put, Count, Setup, Enqueue, Reset
    <3> QED  BY <3>1 DEF QueueInv
  <2>4. CASE Push(p)
    <3>1. /\ UNCHANGED <<m_current_write_buffer, made, item, count, index, buf, m_write_index>>
          /\ pc[p] = "idle" /\ pc' = [pc EXCEPT ![p] = "claim"]
      BY <2>4 DEF Push, Goto, memory
    <3>2. Slots'
      BY <1>1, <2>3, <3>1, SlotsQuiet
    <3> QED  BY <1>1, <2>3, <2>4, <3>2, OrderPush, PlacesPush
  <2>5. CASE Claim(p)
    BY <1>1, <2>3, <2>5, SlotsClaim, OrderPush, PlacesMove
  <2>6. CASE Spin(p)
    <3>1. /\ UNCHANGED <<m_current_write_buffer, made, item, count, index, buf, m_write_index>>
          /\ pc[p] = "spin" /\ pc' = [pc EXCEPT ![p] = "claim"]
      BY <2>6 DEF Spin, Goto, memory, local
    <3>2. Slots'
      BY <1>1, <2>3, <3>1, SlotsQuiet
    <3> QED  BY <1>1, <2>3, <2>6, <3>2, OrderPush, PlacesMove
  <2>7. CASE Load(p)
    BY <1>1, <2>3, <2>7, SlotsLoad, OrderPush, PlacesMove
  <2>8. CASE Put(p)
    <3>1. line[p] # 0
      BY <2>3, <2>8 DEF Put, Places, Holding
    <3> QED  BY <1>1, <2>3, <2>8, <3>1, SlotsPut, OrderPut, PlacesPut
  <2>9. CASE Count(p)
    BY <1>1, <2>2, <2>3, <2>9, SlotsCount, OrderPush, PlacesMove
  <2>10. CASE Setup(p)
    BY <1>1, <2>3, <2>10, SlotsSetup, OrderSetup, PlacesMove
  <2>11. CASE Enqueue(p)
    BY <1>1, <2>3, <2>11, SlotsEnqueue, OrderEnqueue, PlacesEnqueue
  <2>12. CASE Reset(p)
    BY <1>1, <2>3, <2>12, SlotsReset, OrderPush, PlacesMove
  <2> QED
    BY <1>3, <2>4, <2>5, <2>6, <2>7, <2>8, <2>9, <2>10, <2>11, <2>12 DEF PushStep
<1>4. ASSUME PopStep \/ Run \/ Destroy
      PROVE  QueueInv'
  <2>1. Control'
    BY <1>1, <1>4, ControlFetch, ControlRead, ControlRelease, ControlRun DEF PopStep
  <2>2. SUFFICES ASSUME ~fault' PROVE Slots' /\ Order' /\ Places'
    BY <2>1 DEF QueueInv
  <2>3. UNCHANGED <<m_current_write_buffer, made, item, count, index, buf, m_write_index, pc, fault>>
    BY <1>4 DEF PopStep, Fetch, Read, Release, Run, Destroy, memory, local
  <2>4. Slots /\ Order /\ Places
    BY <2>2, <2>3 DEF QueueInv
  <2>5. Slots'
    <3>1. Counted' = Counted
      BY <2>3 DEF Counted
    <3> QED  BY <2>3, <2>4, <3>1 DEF Slots, Writing, Switching, Filling, Opening
  <2>6. CASE Release
    BY <1>1, <2>4, <2>5, <2>6, OrderRelease, PlacesRelease
  <2>7. CASE Fetch \/ Read \/ Run \/ Destroy
    <3>1. UNCHANGED <<m_buffers, freed>>
      BY <2>7 DEF Fetch, Read, Run, Destroy, reader
    <3>2. Order'
      BY <1>1, <2>3, <2>4, <3>1, OrderRest
    <3> QED  BY <1>1, <2>4, <2>5, <2>7, <3>2, PlacesFetch, PlacesRead, PlacesRun
  <2> QED  BY <1>4, <2>6, <2>7 DEF PopStep
<1> QED  BY <1>2, <1>3, <1>4 DEF Next

THEOREM QueueInvariance == Spec => []QueueInv
  BY QueueInit, QueueStep, PTL DEF Spec

\* Two producers never build an item at the same place, and the switch to the
\* next buffer is one producer's alone (QueueBuffer::push, Buffer::push), until
\* a deleted buffer was accessed.
THEOREM ItemsOwned == Spec => []OwnItem
<1>1. QueueInv => OwnItem
  BY DEF QueueInv, Slots, OwnItem, Filling
<1> QED  BY <1>1, QueueInvariance, PTL

\* A line passed to push is with its producer, in an item not yet read or in
\* the file, never twice, and in the file when pop() ends; the reader looks
\* only at the first buffer queued.
THEOREM NoLineDropped == Spec => []NothingDropped
<1>1. QueueInv => NothingDropped
  <2> SUFFICES ASSUME QueueInv PROVE NothingDropped
    OBVIOUS
  <2>1. TypeOK /\ ReadsLive
    BY DEF QueueInv, Control
  <2>2. SUFFICES ASSUME ~fault
        PROVE  /\ \A l \in 1..lines : Held(l) \/ Unread(l) \/ IsLogged(l)
               /\ \A l \in 1..lines : ~(Held(l) /\ IsLogged(l)) /\ ~(Unread(l) /\ IsLogged(l))
               /\ \A i, j \in 1..Len(logged) : logged[i] = logged[j] => i = j
               /\ thread = "exit" => \A l \in 1..lines : IsLogged(l)
    BY <2>1 DEF NothingDropped
  <2>3. Control /\ Slots /\ Order /\ Places
    BY <2>2 DEF QueueInv
  <2>4. /\ made \in Nat /\ made \in Buffers /\ m_buffers \in Seq(Buffers) /\ Len(m_buffers) \in Nat
        /\ Newest \in Int /\ Newest <= made
        /\ \A b \in Buffers : b \in Nat /\ b >= 1
    <3>1. made \in Buffers /\ m_buffers \in Seq(Buffers) /\ Len(m_buffers) \in Nat
      BY <2>1 DEF TypeOK
    <3>2. \A b \in Buffers : b \in Nat /\ b >= 1
      BY Consts DEF Buffers
    <3> QED  BY <3>1, <3>2 DEF Newest
  <2>5. ASSUME NEW b \in Buffers, NEW i \in Indices, item[b][i] # 0
        PROVE  b \in freed \/ \E k \in 1..Len(m_buffers) : m_buffers[k] = b
    <3>1. b <= Newest
      <4>1. b <= made
        BY <2>3, <2>4, <2>5 DEF Slots
      <4>2. CASE \E p \in Producers : pc[p] = "enqueue"
        <5>1. b # made
          BY <2>3, <2>5, <4>2 DEF Slots, Opening
        <5> QED  BY <2>4, <4>1, <4>2, <5>1 DEF Newest
      <4>3. CASE ~ \E p \in Producers : pc[p] = "enqueue"
        BY <4>1, <4>3 DEF Newest
      <4> QED  BY <4>2, <4>3
    <3> DEFINE f == Newest - Len(m_buffers)
    <3>2. f \in Int /\ freed = 1..f /\ \A k \in 1..Len(m_buffers) : m_buffers[k] = f + k
      BY <2>3, <2>4 DEF Order
    <3>3. CASE b <= f
      BY <2>4, <3>2, <3>3
    <3>4. CASE ~ (b <= f)
      <4>1. b - f \in 1..Len(m_buffers) /\ f + (b - f) = b
        BY <2>4, <3>1, <3>2, <3>4
      <4> QED  BY <3>2, <4>1
    <3> QED  BY <3>3, <3>4
  <2>6. ASSUME NEW k \in 1..Len(m_buffers)
        PROVE  /\ m_buffers[k] \in Buffers /\ m_buffers[k] \notin freed
               /\ k # 1 => m_buffers[k] # Head(m_buffers)
               /\ k = 1 => m_buffers[k] = Head(m_buffers)
               /\ m_buffers # <<>>
    <3> DEFINE f == Newest - Len(m_buffers)
    <3>1. f \in Int /\ freed = 1..f /\ m_buffers[k] = f + k /\ m_buffers[1] = f + 1
      <4>1. 1 \in 1..Len(m_buffers)  BY <2>4
      <4> QED  BY <2>3, <2>4, <4>1 DEF Order
    <3>2. m_buffers[k] \in Buffers /\ Head(m_buffers) = m_buffers[1] /\ m_buffers # <<>>
      BY <2>4
    <3> HIDE DEF f
    <3> QED  BY <3>1, <3>2
  <2>7. ASSUME NEW k \in 1..Len(m_buffers), NEW i \in Indices
        PROVE  IsRead(m_buffers[k], i) <=> ~ (k = 1 => i >= m_read_index /\ step # "release")
    <3>1. i \in Nat /\ m_read_index \in Nat
      BY <2>1, Consts DEF TypeOK, Indices
    <3> QED  BY <2>6, <3>1 DEF IsRead
  <2>8. ASSUME NEW l \in 1..lines
        PROVE  Held(l) \/ Unread(l) \/ IsLogged(l)
    <3>1. SUFFICES ASSUME ~Held(l), ~IsLogged(l) PROVE Unread(l)
      OBVIOUS
    <3>2. PICK b \in Buffers, i \in Indices : item[b][i] = l
      BY <2>3, <3>1 DEF Places
    <3>3. l # 0 /\ ~IsRead(b, i)
      BY <2>3, <3>1, <3>2 DEF Places
    <3>4. PICK k \in 1..Len(m_buffers) : m_buffers[k] = b
      BY <2>5, <3>2, <3>3 DEF IsRead
    <3> QED  BY <2>7, <3>2, <3>3, <3>4 DEF Unread
  <2>9. ASSUME NEW l \in 1..lines, IsLogged(l)
        PROVE  ~Held(l) /\ ~Unread(l)
    <3>1. PICK b \in Buffers, i \in Indices : IsRead(b, i) /\ item[b][i] = l
      BY <2>3, <2>9 DEF Places, IsLogged
    <3>2. ~Held(l)
      BY <2>3, <3>1 DEF Places, Held, Holding
    <3>3. ASSUME NEW k \in 1..Len(m_buffers), NEW j \in Indices, item[m_buffers[k]][j] = l
          PROVE  ~ (k = 1 => j >= m_read_index /\ step # "release")
      <4>1. m_buffers[k] \in Buffers /\ l # 0
        BY <2>6
      <4>2. m_buffers[k] = b /\ j = i
        BY <2>3, <3>1, <3>3, <4>1 DEF Places
      <4> QED  BY <2>7, <3>1, <4>2
    <3> QED  BY <3>2, <3>3 DEF Unread
  <2> QED  BY <2>3, <2>8, <2>9 DEF Places
<1> QED  BY <1>1, QueueInvariance, PTL

\* The first use of a deleted buffer is the count of a producer whose item, the
\* buffer's others too, the reader has already popped.
LateCount ==
  \E p \in Producers :
    /\ Count(p) /\ buf[p] \in freed
    /\ \A i \in Indices : item[buf[p]][i] # 0 /\ IsLogged(item[buf[p]][i])

\* Between a producer's store of the write state and its fetch_add
\* (Buffer::push, lines 473 and 474) lies the only way to a buffer that was
\* deleted: no producer builds an item in one, for any producers and sizes.
THEOREM OnlyLateCounts == Spec => [][~fault /\ fault' => LateCount]_vars
<1>1. QueueInv /\ [Next]_vars => [~fault /\ fault' => LateCount]_vars
  <2> SUFFICES ASSUME QueueInv, Next, ~fault, fault' PROVE LateCount
    BY DEF vars
  <2>1. Control /\ Slots /\ Order /\ Places /\ TypeOK
    BY DEF QueueInv, Control
  <2>2. PICK p \in Producers : (Put(p) \/ Count(p)) /\ buf[p] \in freed
    <3>1. (\E p \in Producers : Put(p) \/ Count(p)) \/ UNCHANGED fault
      BY DEF Next, PushStep, PopStep, Push, Claim, Spin, Load, Setup, Enqueue, Reset, Fetch, Read,
         Release, Run, Destroy, memory, local, reader
    <3> QED  BY <3>1 DEF Put, Count
  <2>3. buf[p] \in Buffers /\ index[p] \in Indices /\ buf[p] = made
    BY <2>1, <2>2 DEF Put, Count, Control, Slots, Writing
  <2>4. \A i \in Indices : item[buf[p]][i] # 0 /\ IsLogged(item[buf[p]][i])
    BY <2>1, <2>2, <2>3 DEF Places, IsRead
  <2>5. ~ Put(p)
    <3>1. Filling(p) => item[made][index[p]] = 0
      BY <2>1 DEF Slots
    <3> QED  BY <2>3, <2>4, <3>1 DEF Put, Filling
  <2> QED  BY <2>2, <2>4, <2>5 DEF LateCount
<1> QED  BY <1>1, QueueInvariance, PTL DEF Spec

=============================================================================
