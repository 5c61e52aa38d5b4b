-------------------------- MODULE MpmcQueue_proofs --------------------------
(***************************************************************************)
(* Proofs about MpmcQueue for any number of threads, any values, any bound *)
(* and any queue of at least two slots (one slot is not enough: README).   *)
(***************************************************************************)
EXTENDS MpmcQueue, SequenceTheorems, TLAPS

-----------------------------------------------------------------------------
(* Positions and slots *)

\* Two positions that share a slot are a whole round apart.
LEMMA SlotApart ==
  ASSUME NEW a \in Nat, NEW b \in Nat, Slot(a) = Slot(b), a < b
  PROVE  a + Size <= b
<1> DEFINE qa == a \div Size
           qb == b \div Size
<1>0. Size \in Nat /\ Size > 0
  BY ConstAssumption
<1>1. /\ a = Size * qa + (a % Size) /\ qa \in Int
      /\ b = Size * qb + (b % Size) /\ qb \in Int
  BY <1>0
<1>2. a % Size = b % Size
  BY DEF Slot
<1> HIDE DEF qa, qb
<1>3. b - a = Size * (qb - qa)
  BY <1>0, <1>1, <1>2
<1>4. qb - qa >= 1
  BY <1>0, <1>1, <1>3
<1> QED
  BY <1>0, <1>1, <1>3, <1>4

\* The position one round later has the same slot.
LEMMA SlotRound ==
  ASSUME NEW a \in Nat
  PROVE  Slot(a + Size) = Slot(a)
<1> DEFINE b == a + Size
           qa == a \div Size
           qb == b \div Size
           ra == a % Size
           rb == b % Size
<1>0. Size \in Nat /\ Size > 0
  BY ConstAssumption
<1>1. /\ a = Size * qa + ra /\ qa \in Int /\ ra \in 0..Size-1
      /\ b = Size * qb + rb /\ qb \in Int /\ rb \in 0..Size-1
  BY <1>0
<1>2. b = a + Size
  OBVIOUS
<1> HIDE DEF b, qa, qb, ra, rb
<1>3. rb - ra = Size * (qa + 1 - qb)
  BY <1>0, <1>1, <1>2
<1>4. qa + 1 - qb = 0
  BY <1>0, <1>1, <1>3
<1>5. rb = ra
  BY <1>0, <1>1, <1>3, <1>4
<1> QED
  BY <1>5 DEF Slot, b, ra, rb

\* Every position has a slot.
LEMMA SlotType ==
  ASSUME NEW a \in Nat
  PROVE  Slot(a) \in Slots
BY ConstAssumption DEF Slot, Slots

\* Any Size consecutive positions use every slot.
LEMMA SlotCover ==
  ASSUME NEW n \in Nat, NEW s \in Slots
  PROVE  \E i \in n..n + Size - 1 : Slot(i) = s
<1> DEFINE m == n \div Size
           r == n % Size
           b == Size * m + s
           qb == b \div Size
           rb == b % Size
<1>0. Size \in Nat /\ Size > 0 /\ s \in 0..Size-1
  BY ConstAssumption DEF Slots
<1>1. n = Size * m + r /\ m \in Nat /\ r \in 0..Size-1
  BY <1>0
<1>2. b \in Nat
  BY <1>0, <1>1
<1>3. b = Size * qb + rb /\ qb \in Int /\ rb \in 0..Size-1
  BY <1>0, <1>2
<1>4. b = Size * m + s
  OBVIOUS
<1> HIDE DEF m, r, b, qb, rb
<1>5. rb - s = Size * (m - qb)
  BY <1>0, <1>1, <1>3, <1>4
<1>6. m - qb = 0
  BY <1>0, <1>1, <1>3, <1>5
<1>7. rb = s
  BY <1>0, <1>1, <1>3, <1>5, <1>6
<1>8. Slot(b) = s /\ Slot(b + Size) = s
  BY <1>2, <1>7, SlotRound DEF Slot, rb
<1> QED
  BY <1>0, <1>1, <1>2, <1>4, <1>8

-----------------------------------------------------------------------------
(* The inductive invariant *)

\* A new queue: the slots carry their own index and nobody holds one.
LEMMA InitIInv == Init => IInv
<1> SUFFICES ASSUME Init PROVE IInv
  OBVIOUS
<1>0. Size \in Nat /\ Size > 0
  BY ConstAssumption
<1>1. \A i \in 0..Size-1 : Slot(i) = i
  BY <1>0 DEF Slot
<1> QED
  BY <1>0, <1>1 DEF Init, IInv, TypeOK, Bounded, ClaimRange, ClaimUnique,
     SeqMeaning, CasFresh, Written, Fills, Empties, Filling, Emptying,
     Threads, Slots

LEMMA EnqCallInv ==
  ASSUME Size >= 2, IInv, NEW p \in Producers, NEW v \in Values, EnqCall(p, v)
  PROVE  IInv'
<1> USE ConstAssumption
<1>1. TypeOK'
  BY SlotType DEF IInv, EnqCall, Goto, TypeOK, Threads
<1>2. Bounded'
  BY DEF IInv, EnqCall, TypeOK, Bounded
<1>3. ClaimRange'
  BY DEF IInv, EnqCall, Goto, TypeOK, Threads, Bounded, ClaimRange, Fills,
     Empties
<1>4. ClaimUnique'
  BY DEF IInv, EnqCall, Goto, TypeOK, Threads, ClaimRange, ClaimUnique,
     Fills, Empties
<1>5. SeqMeaning'
  BY SlotType DEF IInv, EnqCall, Goto, TypeOK, Threads, SeqMeaning, Filling,
     Emptying, Fills, Empties
<1>6. CasFresh'
  BY SlotType DEF IInv, EnqCall, Goto, TypeOK, Threads, ClaimRange,
     CasFresh, Fills, Empties
<1>7. Written'
  BY SlotType DEF IInv, EnqCall, Goto, TypeOK, Threads, Written
<1> QED
  BY <1>1, <1>2, <1>3, <1>4, <1>5, <1>6, <1>7 DEF IInv

LEMMA EnqLoadInv ==
  ASSUME Size >= 2, IInv, NEW p \in Producers, EnqLoad(p)
  PROVE  IInv'
<1> USE ConstAssumption
<1>1. TypeOK'
  BY SlotType DEF IInv, EnqLoad, Goto, TypeOK, Threads
<1>2. Bounded'
  BY DEF IInv, EnqLoad, TypeOK, Bounded
<1>3. ClaimRange'
  BY DEF IInv, EnqLoad, Goto, TypeOK, Threads, Bounded, ClaimRange, Fills,
     Empties
<1>4. ClaimUnique'
  BY DEF IInv, EnqLoad, Goto, TypeOK, Threads, ClaimRange, ClaimUnique,
     Fills, Empties
<1>5. SeqMeaning'
  BY SlotType DEF IInv, EnqLoad, Goto, TypeOK, Threads, SeqMeaning, Filling,
     Emptying, Fills, Empties
<1>6. CasFresh'
  BY SlotType DEF IInv, EnqLoad, Goto, TypeOK, Threads, ClaimRange,
     CasFresh, Fills, Empties
<1>7. Written'
  BY SlotType DEF IInv, EnqLoad, Goto, TypeOK, Threads, Written
<1> QED
  BY <1>1, <1>2, <1>3, <1>4, <1>5, <1>6, <1>7 DEF IInv

LEMMA EnqCheckInv ==
  ASSUME Size >= 2, IInv, NEW p \in Producers, EnqCheck(p)
  PROVE  IInv'
<1> USE ConstAssumption
<1>1. TypeOK'
  BY SlotType DEF IInv, EnqCheck, Goto, TypeOK, Threads, AfterCheck
<1>2. Bounded'
  BY DEF IInv, EnqCheck, TypeOK, Bounded
<1>3. ClaimRange'
  BY SlotType DEF IInv, EnqCheck, Goto, TypeOK, Threads, Bounded,
     ClaimRange, Fills, Empties, AfterCheck
<1>4. ClaimUnique'
  BY SlotType DEF IInv, EnqCheck, Goto, TypeOK, Threads, ClaimRange,
     ClaimUnique, Fills, Empties, AfterCheck
<1>5. SeqMeaning'
  BY SlotType DEF IInv, EnqCheck, Goto, TypeOK, Threads, SeqMeaning,
     Filling, Emptying, Fills, Empties, AfterCheck
<1>6. CasFresh'
  BY SlotType DEF IInv, EnqCheck, Goto, TypeOK, Threads, ClaimRange,
     CasFresh, Fills, Empties, AfterCheck
<1>7. Written'
  BY SlotType DEF IInv, EnqCheck, Goto, TypeOK, Threads, Written, AfterCheck
<1> QED
  BY <1>1, <1>2, <1>3, <1>4, <1>5, <1>6, <1>7 DEF IInv

LEMMA EnqClaimInv ==
  ASSUME Size >= 2, IInv, NEW p \in Producers, EnqClaim(p)
  PROVE  IInv'
<1> USE ConstAssumption
<1>1. TypeOK'
  BY SlotType DEF IInv, EnqClaim, Goto, TypeOK, Threads
<1>2. Bounded'
  \* If the queue were full, the slot at head_seq would be the one at
  \* tail_seq, whose number is a round behind: the check would have failed.
  <2>1. head_seq # tail_seq + Size
    <3> SUFFICES ASSUME head_seq = tail_seq + Size PROVE FALSE
      OBVIOUS
    <3>1. seq[Slot(tail_seq)] = head_seq
      BY SlotRound DEF IInv, TypeOK, CasFresh, EnqClaim
    <3>2. seq[Slot(tail_seq)] \in {tail_seq, tail_seq + 1}
      BY DEF IInv, TypeOK, SeqMeaning
    <3> QED
      BY <3>1, <3>2 DEF IInv, TypeOK
  <2> QED
    BY <2>1 DEF IInv, TypeOK, Bounded, EnqClaim
<1>3. ClaimRange'
  BY <1>2 DEF IInv, EnqClaim, Goto, TypeOK, Threads, Bounded, ClaimRange,
     Fills, Empties, CasFresh, SeqMeaning, Emptying
<1>4. ClaimUnique'
  BY DEF IInv, EnqClaim, Goto, TypeOK, Threads, ClaimRange, ClaimUnique,
     Fills, Empties
<1>5. SeqMeaning'
  BY SlotType DEF IInv, EnqClaim, Goto, TypeOK, Threads, SeqMeaning,
     Filling, Emptying, Fills, Empties, CasFresh, ClaimRange
<1>6. CasFresh'
  BY SlotType DEF IInv, EnqClaim, Goto, TypeOK, Threads, ClaimRange,
     CasFresh, Fills, Empties, Bounded, SeqMeaning
<1>7. Written'
  BY SlotType DEF IInv, EnqClaim, Goto, TypeOK, Threads, Written
<1> QED
  BY <1>1, <1>2, <1>3, <1>4, <1>5, <1>6, <1>7 DEF IInv

LEMMA EnqRetryInv ==
  ASSUME Size >= 2, IInv, NEW p \in Producers, EnqRetry(p)
  PROVE  IInv'
<1> USE ConstAssumption
<1>1. TypeOK'
  BY SlotType DEF IInv, EnqRetry, Goto, TypeOK, Threads
<1>2. Bounded'
  BY DEF IInv, EnqRetry, TypeOK, Bounded
<1>3. ClaimRange'
  BY DEF IInv, EnqRetry, Goto, TypeOK, Threads, Bounded, ClaimRange, Fills,
     Empties
<1>4. ClaimUnique'
  BY DEF IInv, EnqRetry, Goto, TypeOK, Threads, ClaimRange, ClaimUnique,
     Fills, Empties
<1>5. SeqMeaning'
  BY SlotType DEF IInv, EnqRetry, Goto, TypeOK, Threads, SeqMeaning,
     Filling, Emptying, Fills, Empties
<1>6. CasFresh'
  BY SlotType DEF IInv, EnqRetry, Goto, TypeOK, Threads, ClaimRange,
     CasFresh, Fills, Empties
<1>7. Written'
  BY SlotType DEF IInv, EnqRetry, Goto, TypeOK, Threads, Written
<1> QED
  BY <1>1, <1>2, <1>3, <1>4, <1>5, <1>6, <1>7 DEF IInv

LEMMA EnqWriteInv ==
  ASSUME Size >= 2, IInv, NEW p \in Producers, EnqWrite(p)
  PROVE  IInv'
<1> USE ConstAssumption
<1>1. TypeOK'
  BY SlotType DEF IInv, EnqWrite, Goto, TypeOK, Threads
<1>2. Bounded'
  BY DEF IInv, EnqWrite, TypeOK, Bounded
<1>3. ClaimRange'
  BY DEF IInv, EnqWrite, Goto, TypeOK, Threads, Bounded, ClaimRange, Fills,
     Empties
<1>4. ClaimUnique'
  BY DEF IInv, EnqWrite, Goto, TypeOK, Threads, ClaimRange, ClaimUnique,
     Fills, Empties
<1>5. SeqMeaning'
  BY SlotType DEF IInv, EnqWrite, Goto, TypeOK, Threads, SeqMeaning,
     Filling, Emptying, Fills, Empties
<1>6. CasFresh'
  BY SlotType DEF IInv, EnqWrite, Goto, TypeOK, Threads, ClaimRange,
     CasFresh, Fills, Empties
<1>7. Written'
  BY SlotType, SlotApart DEF IInv, EnqWrite, Goto, TypeOK, Threads, Written,
     ClaimRange, ClaimUnique, Bounded, Fills
<1> QED
  BY <1>1, <1>2, <1>3, <1>4, <1>5, <1>6, <1>7 DEF IInv

LEMMA EnqPublishInv ==
  ASSUME Size >= 2, IInv, NEW p \in Producers, EnqPublish(p)
  PROVE  IInv'
<1> USE ConstAssumption
<1>1. TypeOK'
  BY SlotType DEF IInv, EnqPublish, Goto, TypeOK, Threads
<1>2. Bounded'
  BY DEF IInv, EnqPublish, TypeOK, Bounded
<1>3. ClaimRange'
  BY DEF IInv, EnqPublish, Goto, TypeOK, Threads, Bounded, ClaimRange,
     Fills, Empties
<1>4. ClaimUnique'
  BY DEF IInv, EnqPublish, Goto, TypeOK, Threads, ClaimRange, ClaimUnique,
     Fills, Empties
<1>5. SeqMeaning'
  <2> SUFFICES ASSUME NEW i \in tail_seq..tail_seq + Size - 1
               PROVE  SeqMeaning!(i)'
    BY DEF SeqMeaning, EnqPublish
  <2>1. Emptying(i - Size)' = Emptying(i - Size)
    BY DEF Emptying, Empties, EnqPublish, Goto, IInv, TypeOK, Threads
  <2>2. CASE i = pos[p]
    <3>1. ~Filling(i)' /\ i < head_seq
      BY <2>2 DEF Filling, Fills, EnqPublish, Goto, IInv, TypeOK, Threads,
         ClaimUnique, ClaimRange
    <3> QED
      BY <2>2, <3>1, SlotType DEF EnqPublish, IInv, TypeOK, Threads
  <2>3. CASE i # pos[p]
    <3>1. Slot(i) # Slot(pos[p])
      BY <2>3, SlotApart DEF IInv, TypeOK, Threads, Bounded, ClaimRange,
         Fills, EnqPublish
    <3>2. Filling(i)' = Filling(i)
      BY <2>3 DEF Filling, Fills, EnqPublish, Goto, IInv, TypeOK, Threads
    <3> QED
      BY <2>1, <3>1, <3>2, SlotType
         DEF EnqPublish, IInv, TypeOK, Threads, SeqMeaning
  <2> QED
    BY <2>2, <2>3
<1>6. CasFresh'
  <2>0. /\ tail_seq <= pos[p] /\ pos[p] < head_seq
        /\ seq[Slot(pos[p])] = pos[p]
    BY DEF EnqPublish, IInv, TypeOK, Threads, Bounded, ClaimRange,
       SeqMeaning, Filling, Fills
  \* The slot p publishes is not the one a fresh check has seen free ...
  <2>1. seq[Slot(head_seq)] = head_seq => Slot(head_seq) # Slot(pos[p])
    BY <2>0 DEF IInv, TypeOK, Threads
  \* ... nor one that a fresh check has seen published.
  <2>2. seq[Slot(tail_seq)] = tail_seq + 1 => Slot(tail_seq) # Slot(pos[p])
    BY <2>0, SlotApart DEF IInv, TypeOK, Threads, Bounded
  <2> QED
    BY <2>1, <2>2, SlotType
       DEF EnqPublish, Goto, IInv, TypeOK, Threads, CasFresh
<1>7. Written'
  BY SlotType DEF IInv, EnqPublish, Goto, TypeOK, Threads, Written
<1> QED
  BY <1>1, <1>2, <1>3, <1>4, <1>5, <1>6, <1>7 DEF IInv

LEMMA DeqCallInv ==
  ASSUME Size >= 2, IInv, NEW c \in Consumers, DeqCall(c)
  PROVE  IInv'
<1> USE ConstAssumption
<1>1. TypeOK'
  BY SlotType DEF IInv, DeqCall, Goto, TypeOK, Threads
<1>2. Bounded'
  BY DEF IInv, DeqCall, TypeOK, Bounded
<1>3. ClaimRange'
  BY DEF IInv, DeqCall, Goto, TypeOK, Threads, Bounded, ClaimRange, Fills,
     Empties
<1>4. ClaimUnique'
  BY DEF IInv, DeqCall, Goto, TypeOK, Threads, ClaimRange, ClaimUnique,
     Fills, Empties
<1>5. SeqMeaning'
  BY SlotType DEF IInv, DeqCall, Goto, TypeOK, Threads, SeqMeaning, Filling,
     Emptying, Fills, Empties
<1>6. CasFresh'
  BY SlotType DEF IInv, DeqCall, Goto, TypeOK, Threads, ClaimRange,
     CasFresh, Fills, Empties
<1>7. Written'
  BY SlotType DEF IInv, DeqCall, Goto, TypeOK, Threads, Written
<1> QED
  BY <1>1, <1>2, <1>3, <1>4, <1>5, <1>6, <1>7 DEF IInv

LEMMA DeqLoadInv ==
  ASSUME Size >= 2, IInv, NEW c \in Consumers, DeqLoad(c)
  PROVE  IInv'
<1> USE ConstAssumption
<1>1. TypeOK'
  BY SlotType DEF IInv, DeqLoad, Goto, TypeOK, Threads
<1>2. Bounded'
  BY DEF IInv, DeqLoad, TypeOK, Bounded
<1>3. ClaimRange'
  BY DEF IInv, DeqLoad, Goto, TypeOK, Threads, Bounded, ClaimRange, Fills,
     Empties
<1>4. ClaimUnique'
  BY DEF IInv, DeqLoad, Goto, TypeOK, Threads, ClaimRange, ClaimUnique,
     Fills, Empties
<1>5. SeqMeaning'
  BY SlotType DEF IInv, DeqLoad, Goto, TypeOK, Threads, SeqMeaning, Filling,
     Emptying, Fills, Empties
<1>6. CasFresh'
  BY SlotType DEF IInv, DeqLoad, Goto, TypeOK, Threads, ClaimRange,
     CasFresh, Fills, Empties
<1>7. Written'
  BY SlotType DEF IInv, DeqLoad, Goto, TypeOK, Threads, Written
<1> QED
  BY <1>1, <1>2, <1>3, <1>4, <1>5, <1>6, <1>7 DEF IInv

LEMMA DeqCheckInv ==
  ASSUME Size >= 2, IInv, NEW c \in Consumers, DeqCheck(c)
  PROVE  IInv'
<1> USE ConstAssumption
<1>1. TypeOK'
  BY SlotType DEF IInv, DeqCheck, Goto, TypeOK, Threads, AfterCheck
<1>2. Bounded'
  BY DEF IInv, DeqCheck, TypeOK, Bounded
<1>3. ClaimRange'
  BY SlotType DEF IInv, DeqCheck, Goto, TypeOK, Threads, Bounded,
     ClaimRange, Fills, Empties, AfterCheck
<1>4. ClaimUnique'
  BY SlotType DEF IInv, DeqCheck, Goto, TypeOK, Threads, ClaimRange,
     ClaimUnique, Fills, Empties, AfterCheck
<1>5. SeqMeaning'
  BY SlotType DEF IInv, DeqCheck, Goto, TypeOK, Threads, SeqMeaning,
     Filling, Emptying, Fills, Empties, AfterCheck
<1>6. CasFresh'
  BY SlotType DEF IInv, DeqCheck, Goto, TypeOK, Threads, ClaimRange,
     CasFresh, Fills, Empties, AfterCheck
<1>7. Written'
  BY SlotType DEF IInv, DeqCheck, Goto, TypeOK, Threads, Written, AfterCheck
<1> QED
  BY <1>1, <1>2, <1>3, <1>4, <1>5, <1>6, <1>7 DEF IInv

LEMMA DeqClaimInv ==
  ASSUME Size >= 2, IInv, NEW c \in Consumers, DeqClaim(c)
  PROVE  IInv'
<1> USE ConstAssumption
<1>1. TypeOK'
  BY SlotType DEF IInv, DeqClaim, Goto, TypeOK, Threads
<1>2. Bounded'
  BY DEF IInv, DeqClaim, TypeOK, Bounded, CasFresh, SeqMeaning
<1>3. ClaimRange'
  BY DEF IInv, DeqClaim, Goto, TypeOK, Threads, Bounded, ClaimRange, Fills,
     Empties, CasFresh, SeqMeaning, Filling
<1>4. ClaimUnique'
  BY DEF IInv, DeqClaim, Goto, TypeOK, Threads, ClaimRange, ClaimUnique,
     Fills, Empties
<1>5. SeqMeaning'
  <2> SUFFICES ASSUME NEW i \in tail_seq + 1..tail_seq + Size
               PROVE  SeqMeaning!(i)'
    BY DEF SeqMeaning, DeqClaim, IInv, TypeOK
  <2>1. Filling(i)' = Filling(i)
    BY DEF Filling, Fills, DeqClaim, Goto, IInv, TypeOK, Threads
  <2>2. CASE i = tail_seq + Size
    <3>1. Emptying(i - Size)'
      BY <2>2 DEF Emptying, Empties, DeqClaim, Goto, IInv, TypeOK, Threads
    <3>2. seq[Slot(i)] = tail_seq + 1
      BY <2>2, SlotRound DEF DeqClaim, IInv, TypeOK, CasFresh
    <3> QED
      BY <2>2, <3>1, <3>2 DEF DeqClaim, IInv, TypeOK, Bounded
  <2>3. CASE i # tail_seq + Size
    <3>1. Emptying(i - Size)' = Emptying(i - Size)
      BY <2>3 DEF Emptying, Empties, DeqClaim, Goto, IInv, TypeOK, Threads
    <3> QED
      BY <2>1, <2>3, <3>1 DEF DeqClaim, IInv, TypeOK, SeqMeaning
  <2> QED
    BY <2>2, <2>3
<1>6. CasFresh'
  BY SlotType DEF IInv, DeqClaim, Goto, TypeOK, Threads, ClaimRange,
     CasFresh, Fills, Empties, Bounded, SeqMeaning
<1>7. Written'
  BY SlotType DEF IInv, DeqClaim, Goto, TypeOK, Threads, Written
<1> QED
  BY <1>1, <1>2, <1>3, <1>4, <1>5, <1>6, <1>7 DEF IInv

LEMMA DeqRetryInv ==
  ASSUME Size >= 2, IInv, NEW c \in Consumers, DeqRetry(c)
  PROVE  IInv'
<1> USE ConstAssumption
<1>1. TypeOK'
  BY SlotType DEF IInv, DeqRetry, Goto, TypeOK, Threads
<1>2. Bounded'
  BY DEF IInv, DeqRetry, TypeOK, Bounded
<1>3. ClaimRange'
  BY DEF IInv, DeqRetry, Goto, TypeOK, Threads, Bounded, ClaimRange, Fills,
     Empties
<1>4. ClaimUnique'
  BY DEF IInv, DeqRetry, Goto, TypeOK, Threads, ClaimRange, ClaimUnique,
     Fills, Empties
<1>5. SeqMeaning'
  BY SlotType DEF IInv, DeqRetry, Goto, TypeOK, Threads, SeqMeaning,
     Filling, Emptying, Fills, Empties
<1>6. CasFresh'
  BY SlotType DEF IInv, DeqRetry, Goto, TypeOK, Threads, ClaimRange,
     CasFresh, Fills, Empties
<1>7. Written'
  BY SlotType DEF IInv, DeqRetry, Goto, TypeOK, Threads, Written
<1> QED
  BY <1>1, <1>2, <1>3, <1>4, <1>5, <1>6, <1>7 DEF IInv

LEMMA DeqTakeInv ==
  ASSUME Size >= 2, IInv, NEW c \in Consumers, DeqTake(c)
  PROVE  IInv'
<1> USE ConstAssumption
<1>1. TypeOK'
  BY SlotType DEF IInv, DeqTake, Goto, TypeOK, Threads
<1>2. Bounded'
  BY DEF IInv, DeqTake, TypeOK, Bounded
<1>3. ClaimRange'
  BY DEF IInv, DeqTake, Goto, TypeOK, Threads, Bounded, ClaimRange, Fills,
     Empties
<1>4. ClaimUnique'
  BY DEF IInv, DeqTake, Goto, TypeOK, Threads, ClaimRange, ClaimUnique,
     Fills, Empties
<1>5. SeqMeaning'
  BY SlotType DEF IInv, DeqTake, Goto, TypeOK, Threads, SeqMeaning, Filling,
     Emptying, Fills, Empties
<1>6. CasFresh'
  BY SlotType DEF IInv, DeqTake, Goto, TypeOK, Threads, ClaimRange,
     CasFresh, Fills, Empties
<1>7. Written'
  BY SlotType DEF IInv, DeqTake, Goto, TypeOK, Threads, Written
<1> QED
  BY <1>1, <1>2, <1>3, <1>4, <1>5, <1>6, <1>7 DEF IInv

LEMMA DeqReleaseInv ==
  ASSUME Size >= 2, IInv, NEW c \in Consumers, DeqRelease(c)
  PROVE  IInv'
<1> USE ConstAssumption
<1>1. TypeOK'
  BY SlotType DEF IInv, DeqRelease, Goto, TypeOK, Threads
<1>2. Bounded'
  BY DEF IInv, DeqRelease, TypeOK, Bounded
<1>3. ClaimRange'
  BY DEF IInv, DeqRelease, Goto, TypeOK, Threads, Bounded, ClaimRange,
     Fills, Empties
<1>4. ClaimUnique'
  BY DEF IInv, DeqRelease, Goto, TypeOK, Threads, ClaimRange, ClaimUnique,
     Fills, Empties
<1>5. SeqMeaning'
  <2> SUFFICES ASSUME NEW i \in tail_seq..tail_seq + Size - 1
               PROVE  SeqMeaning!(i)'
    BY DEF SeqMeaning, DeqRelease
  <2>1. Filling(i)' = Filling(i)
    BY DEF Filling, Fills, DeqRelease, Goto, IInv, TypeOK, Threads
  <2>2. CASE i = pos[c] + Size
    <3>1. ~Emptying(i - Size)' /\ i >= head_seq
      BY <2>2 DEF Emptying, Empties, DeqRelease, Goto, IInv, TypeOK, Threads,
         ClaimUnique, ClaimRange
    <3>2. Slot(i) = Slot(pos[c])
      BY <2>2, SlotRound DEF IInv, TypeOK, Threads
    <3> QED
      BY <2>2, <3>1, <3>2, SlotType DEF DeqRelease, IInv, TypeOK, Threads
  <2>3. CASE i # pos[c] + Size
    <3>1. Slot(i) # Slot(pos[c] + Size)
      BY <2>3, SlotApart DEF IInv, TypeOK, Threads, Bounded, ClaimRange,
         Empties, DeqRelease
    <3>2. Slot(i) # Slot(pos[c])
      BY <3>1, SlotRound DEF IInv, TypeOK, Threads
    <3>3. Emptying(i - Size)' = Emptying(i - Size)
      BY <2>3 DEF Emptying, Empties, DeqRelease, Goto, IInv, TypeOK, Threads
    <3> QED
      BY <2>1, <3>2, <3>3, SlotType
         DEF DeqRelease, IInv, TypeOK, Threads, SeqMeaning
  <2> QED
    BY <2>2, <2>3
<1>6. CasFresh'
  <2>0. /\ pos[c] < tail_seq /\ head_seq <= pos[c] + Size
        /\ seq[Slot(pos[c])] = pos[c] + 1
    <3>1. pos[c] < tail_seq /\ head_seq <= pos[c] + Size
      BY DEF DeqRelease, IInv, ClaimRange, Empties
    <3>2. Emptying(pos[c] + Size - Size)
      BY DEF DeqRelease, Emptying, Empties, IInv, TypeOK, Threads
    <3>3. seq[Slot(pos[c] + Size)] = pos[c] + Size - Size + 1
      BY <3>1, <3>2 DEF IInv, TypeOK, Threads, Bounded, SeqMeaning
    <3> QED
      BY <3>1, <3>3, SlotRound DEF IInv, TypeOK, Threads
  \* With two slots or more, pos + 1 is no number a fresh check has seen.
  <2>1. seq[Slot(head_seq)] = head_seq => Slot(head_seq) # Slot(pos[c])
    BY <2>0, SlotApart DEF IInv, TypeOK, Threads, Bounded
  <2>2. seq[Slot(tail_seq)] = tail_seq + 1 => Slot(tail_seq) # Slot(pos[c])
    BY <2>0 DEF IInv, TypeOK, Threads
  <2> QED
    BY <2>1, <2>2, SlotType
       DEF DeqRelease, Goto, IInv, TypeOK, Threads, CasFresh
<1>7. Written'
  BY SlotType DEF IInv, DeqRelease, Goto, TypeOK, Threads, Written
<1> QED
  BY <1>1, <1>2, <1>3, <1>4, <1>5, <1>6, <1>7 DEF IInv

LEMMA NextIInv ==
  ASSUME Size >= 2
  PROVE  IInv /\ [Next]_vars => IInv'
<1> SUFFICES ASSUME IInv, [Next]_vars PROVE IInv'
  OBVIOUS
<1>1. CASE UNCHANGED vars
  BY <1>1 DEF vars, IInv, TypeOK, Bounded, ClaimRange, ClaimUnique,
     SeqMeaning, CasFresh, Written, Fills, Empties, Filling, Emptying
<1>2. ASSUME NEW p \in Producers, EnqStep(p) \/ \E v \in Values : EnqCall(p, v)
      PROVE  IInv'
  BY <1>2, EnqCallInv, EnqLoadInv, EnqCheckInv, EnqClaimInv, EnqRetryInv,
     EnqWriteInv, EnqPublishInv DEF EnqStep
<1>3. ASSUME NEW c \in Consumers, DeqStep(c) PROVE IInv'
  BY <1>3, DeqCallInv, DeqLoadInv, DeqCheckInv, DeqClaimInv, DeqRetryInv,
     DeqTakeInv, DeqReleaseInv DEF DeqStep
<1> QED
  BY <1>1, <1>2, <1>3 DEF Next

-----------------------------------------------------------------------------
(* Theorems *)

\* Every reachable state of a queue of two or more slots satisfies the
\* inductive invariant: node->seq means what enqueue and dequeue take it to
\* mean, and a check that can still succeed is never stale.
THEOREM Invariance ==
  ASSUME Size >= 2
  PROVE  Spec => []IInv
BY InitIInv, NextIInv, PTL DEF Spec

\* The state is always well typed.
THEOREM TypeCorrect ==
  ASSUME Size >= 2
  PROVE  Spec => []TypeOK
<1>1. IInv => TypeOK
  BY DEF IInv
<1> QED
  BY <1>1, Invariance, PTL

\* enqueue and dequeue never touch the data of a slot at the same time, and
\* neither do two enqueues or two dequeues: the moves of node->data race
\* with nothing.
THEOREM NoDataRace ==
  ASSUME Size >= 2
  PROVE  Spec => []SlotExclusive
<1>1. ASSUME IInv PROVE SlotExclusive
  <2> SUFFICES ASSUME NEW t \in Threads, NEW u \in Threads,
                      Holds(t), Holds(u), Slot(pos[t]) = Slot(pos[u])
               PROVE  t = u
    BY DEF SlotExclusive
  <2> USE <1>1, ConstAssumption
  <2>1. /\ head_seq <= pos[t] + Size /\ pos[t] < head_seq /\ pos[t] \in Nat
        /\ head_seq <= pos[u] + Size /\ pos[u] < head_seq /\ pos[u] \in Nat
    BY DEF IInv, TypeOK, Bounded, ClaimRange, Holds, Threads
  <2>2. pos[t] = pos[u]
    BY <2>1, SlotApart DEF IInv, TypeOK
  <2>3. (t \in Producers /\ u \in Producers) \/ (t \in Consumers /\ u \in Consumers)
    BY <2>1, <2>2 DEF IInv, TypeOK, ClaimRange, Holds, Threads
  <2> QED
    BY <2>2, <2>3 DEF IInv, ClaimRange, ClaimUnique, Holds, Threads
<1> QED
  BY <1>1, Invariance, PTL

\* No value is overwritten before it was taken.
THEOREM NoOverwrite ==
  ASSUME Size >= 2
  PROVE  Spec => []Bounded
<1>1. IInv => Bounded
  BY DEF IInv
<1> QED
  BY <1>1, Invariance, PTL

\* The number of a slot never falls behind a position that was claimed.
LEMMA SeqLowerBound ==
  ASSUME Size >= 2, IInv, NEW a \in Nat
  PROVE  /\ a < head_seq => seq[Slot(a)] >= a
         /\ a < tail_seq => seq[Slot(a)] >= a + 1
<1> USE ConstAssumption
<1>1. CASE a < tail_seq
  <2>1. PICK i \in tail_seq..tail_seq + Size - 1 : Slot(i) = Slot(a)
    BY SlotCover, SlotType DEF IInv, TypeOK
  <2>2. a + Size <= i
    BY <1>1, <2>1, SlotApart DEF IInv, TypeOK
  <2>3. seq[Slot(i)] >= i - Size + 1
    BY <2>1 DEF IInv, TypeOK, SeqMeaning
  <2> QED
    BY <2>1, <2>2, <2>3, SlotType DEF IInv, TypeOK
<1>2. CASE tail_seq <= a /\ a < head_seq
  BY <1>2 DEF IInv, TypeOK, Bounded, SeqMeaning
<1> QED
  BY <1>1, <1>2 DEF IInv, TypeOK

\* A call fails only when the queue is full (empty) or when the one thread
\* that uses the next slot has not handed it on yet.
THEOREM FailuresHonest ==
  ASSUME Size >= 2
  PROVE  Spec => HonestFailure
<1> USE ConstAssumption
\* Only a check of the slot's number leaves "check".
<1>1. ASSUME IInv, [Next]_vars, NEW p \in Producers,
             pc[p] = "check", pc'[p] = "idle"
      PROVE  seq[Slot(pos[p])] < pos[p]
  BY <1>1, SlotType DEF Next, vars, EnqStep, DeqStep, EnqCall, EnqLoad,
     EnqCheck, EnqClaim, EnqRetry, EnqWrite, EnqPublish, DeqCall, DeqLoad,
     DeqCheck, DeqClaim, DeqRetry, DeqTake, DeqRelease, Goto, AfterCheck,
     IInv, TypeOK, Threads
<1>2. ASSUME IInv, [Next]_vars, NEW c \in Consumers,
             pc[c] = "check", pc'[c] = "idle"
      PROVE  seq[Slot(pos[c])] < pos[c] + 1
  BY <1>2, SlotType DEF Next, vars, EnqStep, DeqStep, EnqCall, EnqLoad,
     EnqCheck, EnqClaim, EnqRetry, EnqWrite, EnqPublish, DeqCall, DeqLoad,
     DeqCheck, DeqClaim, DeqRetry, DeqTake, DeqRelease, Goto, AfterCheck,
     IInv, TypeOK, Threads
<1>3. ASSUME IInv, [Next]_vars PROVE HonestStep
  <2>1. ASSUME NEW p \in Producers, pc[p] = "check", pc'[p] = "idle"
        PROVE  head_seq = tail_seq + Size \/ Emptying(head_seq - Size)
    <3>1. pos[p] \in Nat /\ pos[p] <= head_seq
      BY <1>3, <2>1 DEF IInv, TypeOK, Threads, ClaimRange
    <3>2. seq[Slot(pos[p])] < pos[p]
      BY <1>1, <1>3, <2>1
    <3>3. pos[p] = head_seq
      BY <1>3, <3>1, <3>2, SeqLowerBound, SlotType DEF IInv, TypeOK
    <3> QED
      BY <1>3, <3>2, <3>3 DEF IInv, TypeOK, Bounded, SeqMeaning
  <2>2. ASSUME NEW c \in Consumers, pc[c] = "check", pc'[c] = "idle"
        PROVE  head_seq = tail_seq \/ Filling(tail_seq)
    <3>1. pos[c] \in Nat /\ pos[c] <= tail_seq
      BY <1>3, <2>2 DEF IInv, TypeOK, Threads, ClaimRange
    <3>2. seq[Slot(pos[c])] < pos[c] + 1
      BY <1>2, <1>3, <2>2
    <3>3. pos[c] = tail_seq
      BY <1>3, <3>1, <3>2, SeqLowerBound, SlotType DEF IInv, TypeOK
    <3> QED
      BY <1>3, <3>2, <3>3 DEF IInv, TypeOK, Bounded, SeqMeaning
  <2> QED
    BY <2>1, <2>2 DEF HonestStep
<1>4. IInv /\ [Next]_vars => [HonestStep]_vars
  BY <1>3
<1> QED
  BY <1>4, Invariance, PTL DEF Spec, HonestFailure

-----------------------------------------------------------------------------
(* Refinement *)

\* The value of a position that is being filled is in its producer's hands.
LEMMA ItemFilled ==
  ASSUME IInv, NEW p \in Producers, Fills(p)
  PROVE  ItemAt(pos[p]) = val[p]
BY DEF ItemAt, Filling, IInv, ClaimUnique

\* Claimed positions hold enqueued values or, at worst, a slot's content.
QueueShape ==
  /\ Queue \in Seq(Values \cup {None})
  /\ Len(Queue) = head_seq - tail_seq
  /\ \A k \in 1..head_seq - tail_seq, i \in Nat :
       i = tail_seq + k - 1 => Queue[k] = ItemAt(i)

\* Queue is the sequence of the values between the counters.
LEMMA QueueType == IInv => QueueShape
<1> SUFFICES ASSUME IInv PROVE QueueShape
  OBVIOUS
<1> DEFINE n == head_seq - tail_seq
<1>1. n \in Nat
  BY DEF IInv, TypeOK, Bounded
<1>2. \A k \in 1..n : ItemAt(tail_seq + k - 1) \in Values \cup {None}
  <2> TAKE k \in 1..n
  <2> DEFINE i == tail_seq + k - 1
  <2>1. i \in Nat
    BY <1>1 DEF IInv, TypeOK
  <2>2. CASE Filling(i)
    BY <2>2, ItemFilled DEF Filling, IInv, TypeOK, Threads
  <2>3. CASE ~Filling(i)
    BY <2>1, <2>3, SlotType DEF ItemAt, IInv, TypeOK
  <2> QED
    BY <2>2, <2>3
<1>3. Queue = [k \in 1..n |-> ItemAt(tail_seq + k - 1)]
  BY DEF Queue
<1> HIDE DEF n
<1>4. Queue \in [1..n -> Values \cup {None}]
  BY <1>2, <1>3
<1>5. Queue \in Seq(Values \cup {None})
  BY <1>1, <1>4, SeqDef
<1>6. Len(Queue) = n
  BY <1>1, <1>4, <1>5, LenProperties
<1> QED
  BY <1>3, <1>5, <1>6 DEF n, QueueShape

\* The same in the next state.
LEMMA ItemFilledNext ==
  ASSUME IInv', NEW p \in Producers, NEW i, Fills(p)', pos'[p] = i
  PROVE  ItemAt(i)' = val'[p]
<1>1. \A r \in Producers : Fills(r)' /\ pos'[r] = i => r = p
  BY DEF IInv, ClaimUnique
<1> QED
  BY <1>1 DEF ItemAt, Filling

\* QueueType in the next state.
LEMMA QueueTypeNext == IInv' => QueueShape'
BY QueueType, PTL

\* A step that changes neither who fills a position, nor that producer's
\* value, nor the slot, leaves the value of the position alone.
LEMMA ItemKept ==
  ASSUME IInv, IInv', NEW i \in Nat,
         \A r \in Producers :
           /\ (Fills(r)' /\ pos'[r] = i) <=> (Fills(r) /\ pos[r] = i)
           /\ Fills(r) /\ pos[r] = i => val'[r] = val[r],
         data'[Slot(i)] = data[Slot(i)]
  PROVE  ItemAt(i)' = ItemAt(i)
<1>1. CASE Filling(i)
  BY <1>1, ItemFilled, ItemFilledNext DEF Filling
<1>2. CASE ~Filling(i)
  BY <1>2 DEF ItemAt, Filling
<1> QED
  BY <1>1, <1>2

\* If both counters stay and so do the values between them, so does Queue.
LEMMA QueueKept ==
  ASSUME UNCHANGED <<head_seq, tail_seq>>, IInv,
         \A i \in tail_seq..head_seq - 1 : ItemAt(i)' = ItemAt(i)
  PROVE  Queue' = Queue
<1>1. \A k \in 1..head_seq - tail_seq : tail_seq + k - 1 \in tail_seq..head_seq - 1
  BY DEF IInv, TypeOK, Bounded
<1> QED
  BY <1>1 DEF Queue

\* Steps that only look, and the hand-over of an emptied slot.
LEMMA QuietStep ==
  ASSUME Size >= 2, IInv, IInv',
         \/ \E p \in Producers :
              \/ \E v \in Values : EnqCall(p, v)
              \/ EnqLoad(p) \/ EnqCheck(p) \/ EnqRetry(p)
         \/ \E c \in Consumers :
              \/ DeqCall(c) \/ DeqLoad(c) \/ DeqCheck(c) \/ DeqRetry(c)
              \/ DeqTake(c) \/ DeqRelease(c)
  PROVE  UNCHANGED <<Queue, Got>>
<1> USE ConstAssumption
<1>1. /\ UNCHANGED <<head_seq, tail_seq, data>>
      /\ \A r \in Producers :
           /\ Fills(r)' <=> Fills(r)
           /\ Fills(r) => pos'[r] = pos[r] /\ val'[r] = val[r]
  BY SlotType DEF EnqCall, EnqLoad, EnqCheck, EnqRetry, DeqCall, DeqLoad,
     DeqCheck, DeqRetry, DeqTake, DeqRelease, Goto, AfterCheck, Fills,
     IInv, TypeOK, Threads
<1>2. Queue' = Queue
  BY <1>1, ItemKept, QueueKept DEF IInv, TypeOK
<1>3. \A c \in Consumers : Got'[c] = Got[c]
  BY <1>1, SlotType DEF Got, EnqCall, EnqLoad, EnqCheck, EnqRetry, DeqCall,
     DeqLoad, DeqCheck, DeqRetry, DeqTake, DeqRelease, Goto, AfterCheck,
     IInv, TypeOK, Threads
<1> QED
  BY <1>2, <1>3 DEF Got

\* A producer moves its value into its own slot: nothing is seen to change.
LEMMA WriteStep ==
  ASSUME Size >= 2, IInv, IInv', NEW p \in Producers, EnqWrite(p)
  PROVE  UNCHANGED <<Queue, Got>>
<1> USE ConstAssumption
<1>1. ASSUME NEW i \in tail_seq..head_seq - 1 PROVE ItemAt(i)' = ItemAt(i)
  <2>1. CASE i = pos[p]
    BY <2>1, ItemFilled, ItemFilledNext
       DEF EnqWrite, Goto, Fills, IInv, TypeOK, Threads
  <2>2. CASE i # pos[p]
    <3>1. /\ i \in Nat /\ pos[p] \in Nat
          /\ i < pos[p] + Size /\ pos[p] < i + Size
      BY DEF EnqWrite, Fills, IInv, TypeOK, Threads, Bounded, ClaimRange
    <3>2. Slot(i) # Slot(pos[p])
      BY <2>2, <3>1, SlotApart
    <3> QED
      BY <2>2, <3>1, <3>2, ItemKept, SlotType
         DEF EnqWrite, Goto, Fills, IInv, TypeOK, Threads
  <2> QED
    BY <2>1, <2>2
<1>2. ASSUME NEW c \in Consumers PROVE Got'[c] = Got[c]
  <2>1. pc[c] = "take" => Slot(pos[c]) # Slot(pos[p])
    BY SlotApart DEF EnqWrite, Fills, Empties, IInv, TypeOK, Threads,
       Bounded, ClaimRange
  <2> QED
    BY <2>1, SlotType DEF Got, EnqWrite, Goto, IInv, TypeOK, Threads
<1> QED
  BY <1>1, <1>2, QueueKept DEF EnqWrite, Got

\* A producer publishes the slot it has written.
LEMMA PublishStep ==
  ASSUME Size >= 2, IInv, IInv', NEW p \in Producers, EnqPublish(p)
  PROVE  UNCHANGED <<Queue, Got>>
<1> USE ConstAssumption
<1>1. ASSUME NEW i \in tail_seq..head_seq - 1 PROVE ItemAt(i)' = ItemAt(i)
  <2>1. CASE i = pos[p]
    <3>1. ItemAt(i) = data[Slot(i)]
      BY <2>1, ItemFilled DEF EnqPublish, Fills, IInv, Written
    <3>2. ~Filling(i)'
      BY <2>1 DEF EnqPublish, Goto, Filling, Fills, IInv, TypeOK, Threads,
         ClaimUnique
    <3> QED
      BY <3>1, <3>2 DEF ItemAt, EnqPublish
  <2>2. CASE i # pos[p]
    BY <2>2, ItemKept DEF EnqPublish, Goto, Fills, IInv, TypeOK, Threads
  <2> QED
    BY <2>1, <2>2
<1>2. ASSUME NEW c \in Consumers PROVE Got'[c] = Got[c]
  BY DEF Got, EnqPublish, Goto, IInv, TypeOK, Threads
<1> QED
  BY <1>1, <1>2, QueueKept DEF EnqPublish, Got

\* A claim of enqueue puts the producer's value at the back.
LEMMA PutStep ==
  ASSUME Size >= 2, IInv, IInv', NEW p \in Producers, EnqClaim(p)
  PROVE  Fifo!Put(val[p])
<1> USE ConstAssumption
<1> DEFINE S == Values \cup {None}
           n == head_seq - tail_seq
<1>1. head_seq' = head_seq + 1 /\ tail_seq' = tail_seq /\ n \in Nat /\ n < Size
  BY DEF EnqClaim, IInv, TypeOK, Bounded
<1>2. ASSUME NEW i \in tail_seq..head_seq - 1 PROVE ItemAt(i)' = ItemAt(i)
  BY <1>1, ItemKept DEF EnqClaim, Goto, Fills, IInv, TypeOK, Threads
<1>3. ASSUME NEW i \in Nat, i = head_seq PROVE ItemAt(i)' = val[p]
  <2>1. Fills(p)' /\ pos'[p] = i /\ val'[p] = val[p]
    BY <1>3 DEF EnqClaim, Goto, Fills, IInv, TypeOK, Threads
  <2> QED
    BY <2>1, ItemFilledNext
<1>4. val[p] \in S
  BY DEF IInv, TypeOK, Threads
<1>5. /\ Queue \in Seq(S) /\ Len(Queue) = n
      /\ \A k \in 1..n, i \in Nat : i = tail_seq + k - 1 => Queue[k] = ItemAt(i)
  BY QueueType DEF QueueShape
<1>6. /\ Queue' \in Seq(S) /\ Len(Queue') = n + 1
      /\ \A k \in 1..n + 1, i \in Nat :
           i = tail_seq + k - 1 => Queue'[k] = ItemAt(i)'
  <2>1. /\ Queue' \in Seq(S) /\ Len(Queue') = head_seq' - tail_seq'
        /\ \A k \in 1..head_seq' - tail_seq', i \in Nat :
             i = tail_seq' + k - 1 => Queue'[k] = ItemAt(i)'
    BY QueueTypeNext DEF QueueShape
  <2> QED
    <3>1. head_seq' - tail_seq' = n + 1
      BY <1>1 DEF IInv, TypeOK
    <3> QED
      BY <1>1, <2>1, <3>1
<1>7. Queue' = Append(Queue, val[p])
  <2>1. /\ Append(Queue, val[p]) \in Seq(S)
        /\ Len(Append(Queue, val[p])) = n + 1
        /\ \A k \in 1..n : Append(Queue, val[p])[k] = Queue[k]
        /\ Append(Queue, val[p])[n + 1] = val[p]
    BY <1>1, <1>4, <1>5, AppendProperties
  <2>2. \A k \in 1..n : Queue'[k] = Queue[k]
    <3> TAKE k \in 1..n
    <3> DEFINE i == tail_seq + k - 1
    <3>1. i \in tail_seq..head_seq - 1 /\ i \in Nat /\ k \in 1..n + 1
      BY <1>1 DEF IInv, TypeOK
    <3>2. Queue[k] = ItemAt(i)
      BY <1>5, <3>1
    <3>3. \A j \in Nat : j = tail_seq + k - 1 => Queue'[k] = ItemAt(j)'
      BY <1>6, <3>1
    <3>4. \A j \in tail_seq..head_seq - 1 : ItemAt(j)' = ItemAt(j)
      BY <1>2
    <3> QED
      BY <3>1, <3>2, <3>3, <3>4
  <2>3. Queue'[n + 1] = val[p]
    <3>1. tail_seq + (n + 1) - 1 = head_seq /\ head_seq \in Nat /\ n + 1 \in 1..n + 1
      BY <1>1 DEF IInv, TypeOK
    <3>2. \A i \in Nat : i = head_seq => Queue'[n + 1] = ItemAt(i)'
      BY <1>6, <3>1
    <3> QED
      BY <1>3, <3>1, <3>2
  <2>4. \A k \in 1..n + 1 : Queue'[k] = Append(Queue, val[p])[k]
    BY <1>1, <2>1, <2>2, <2>3
  <2> QED
    BY <1>6, <2>1, <2>4, SeqEqual
<1>8. Got' = Got
  BY DEF Got, EnqClaim, Goto, IInv, TypeOK, Threads
<1> QED
  BY <1>1, <1>5, <1>7, <1>8 DEF Fifo!Put

\* A claim of dequeue takes the value at the front.
LEMMA GetStep ==
  ASSUME Size >= 2, IInv, IInv', NEW c \in Consumers, DeqClaim(c)
  PROVE  Fifo!Get(c)
<1> USE ConstAssumption
<1> DEFINE S == Values \cup {None}
           n == head_seq - tail_seq
<1>1. /\ head_seq' = head_seq /\ tail_seq' = tail_seq + 1
      /\ n \in Nat /\ n > 0 /\ tail_seq < head_seq
  BY DEF DeqClaim, IInv, TypeOK, Bounded
<1>2. ASSUME NEW i \in tail_seq..head_seq - 1 PROVE ItemAt(i)' = ItemAt(i)
  BY <1>1, ItemKept DEF DeqClaim, Goto, Fills, IInv, TypeOK, Threads
\* The front is published: its slot's number is one more than tail_seq.
<1>3. ItemAt(tail_seq) = data[Slot(pos[c])] /\ pos[c] = tail_seq
  <2>1. ~Filling(tail_seq)
    BY <1>1 DEF DeqClaim, IInv, TypeOK, CasFresh, SeqMeaning
  <2> QED
    BY <2>1 DEF ItemAt, DeqClaim
<1>4. /\ Queue \in Seq(S) /\ Len(Queue) = n
      /\ \A k \in 1..n, i \in Nat : i = tail_seq + k - 1 => Queue[k] = ItemAt(i)
  BY QueueType DEF QueueShape
<1>5. /\ Queue' \in Seq(S) /\ Len(Queue') = n - 1
      /\ \A k \in 1..n - 1, i \in Nat : i = tail_seq + k => Queue'[k] = ItemAt(i)'
  <2>1. /\ Queue' \in Seq(S) /\ Len(Queue') = head_seq' - tail_seq'
        /\ \A k \in 1..head_seq' - tail_seq', i \in Nat :
             i = tail_seq' + k - 1 => Queue'[k] = ItemAt(i)'
    BY QueueTypeNext DEF QueueShape
  <2>2. /\ head_seq' - tail_seq' = n - 1
        /\ \A k \in 1..n - 1 : tail_seq' + k - 1 = tail_seq + k
    BY <1>1 DEF IInv, TypeOK
  <2> QED
    BY <2>1, <2>2
<1>6. Queue # <<>>
  BY <1>1, <1>4, EmptySeq
<1>7. Queue' = Tail(Queue)
  <2>1. /\ Tail(Queue) \in Seq(S) /\ Len(Tail(Queue)) = n - 1
        /\ \A k \in 1..n - 1 : Tail(Queue)[k] = Queue[k + 1]
    BY <1>4, <1>6, HeadTailProperties
  <2>2. \A k \in 1..n - 1 : Queue'[k] = Tail(Queue)[k]
    <3> TAKE k \in 1..n - 1
    <3>1. /\ tail_seq + k \in tail_seq..head_seq - 1 /\ tail_seq + k \in Nat
          /\ k + 1 \in 1..n /\ tail_seq + (k + 1) - 1 = tail_seq + k
      BY <1>1 DEF IInv, TypeOK
    <3>2. Queue[k + 1] = ItemAt(tail_seq + k)
      BY <1>4, <3>1
    <3>3. \A j \in Nat : j = tail_seq + k => Queue'[k] = ItemAt(j)'
      BY <1>5
    <3>4. \A j \in tail_seq..head_seq - 1 : ItemAt(j)' = ItemAt(j)
      BY <1>2
    <3> QED
      BY <2>1, <3>1, <3>2, <3>3, <3>4
  <2> QED
    BY <1>5, <2>1, <2>2, SeqEqual
<1>8. Head(Queue) = data[Slot(pos[c])]
  <2>1. Head(Queue) = Queue[1]
    BY <1>4, <1>6
  <2>2. tail_seq = tail_seq + 1 - 1 /\ 1 \in 1..n /\ tail_seq \in Nat
    BY <1>1 DEF IInv, TypeOK
  <2>3. Queue[1] = ItemAt(tail_seq)
    BY <1>4, <2>2
  <2> QED
    BY <1>3, <2>1, <2>3
<1>9. Got' = [Got EXCEPT ![c] = data[Slot(pos[c])]]
  BY DEF Got, DeqClaim, Goto, IInv, TypeOK, Threads
<1> QED
  BY <1>6, <1>7, <1>8, <1>9 DEF Fifo!Get

\* The ring buffer implements the bounded FIFO queue: values leave in the
\* order in which enqueue claimed their positions, each exactly once and
\* unchanged, and no more than Size of them are inside.
THEOREM ImplementsFifo ==
  ASSUME Size >= 2
  PROVE  Spec => FifoSpec
<1> USE ConstAssumption
<1>1. Init => Fifo!Init
  <2> SUFFICES ASSUME Init PROVE Fifo!Init
    OBVIOUS
  <2>1. Queue \in Seq(Values \cup {None}) /\ Len(Queue) = 0
    BY InitIInv, QueueType DEF Init, QueueShape
  <2>2. Queue = <<>>
    BY <2>1, EmptySeq
  <2>3. Got = [c \in Consumers |-> None]
    BY DEF Init, Got, Threads
  <2> QED
    BY <2>2, <2>3 DEF Fifo!Init
<1>2. ASSUME IInv, IInv', [Next]_vars PROVE [Fifo!Next]_(Fifo!vars)
  <2>1. CASE UNCHANGED vars
    BY <2>1 DEF vars, Fifo!vars, Queue, Got, ItemAt, Filling, Fills
  <2>2. ASSUME NEW p \in Producers, EnqStep(p) \/ \E v \in Values : EnqCall(p, v)
        PROVE  [Fifo!Next]_(Fifo!vars)
    <3>1. CASE EnqClaim(p)
      <4>1. val[p] \in Values
        BY <1>2, <3>1 DEF EnqClaim, IInv, Written
      <4> QED
        BY <1>2, <3>1, <4>1, PutStep DEF Fifo!Next
    <3>2. CASE ~EnqClaim(p)
      BY <1>2, <2>2, <3>2, QuietStep, WriteStep, PublishStep
         DEF EnqStep, Fifo!vars
    <3> QED
      BY <3>1, <3>2
  <2>3. ASSUME NEW c \in Consumers, DeqStep(c) PROVE [Fifo!Next]_(Fifo!vars)
    BY <1>2, <2>3, GetStep, QuietStep DEF DeqStep, Fifo!vars, Fifo!Next
  <2> QED
    BY <1>2, <2>1, <2>2, <2>3 DEF Next
<1> QED
  BY <1>1, <1>2, Invariance, PTL DEF Spec, FifoSpec, Fifo!Spec

=============================================================================
