----------------------------- MODULE Units_proofs -----------------------------
(***************************************************************************)
(* Proofs about the units of MCUnits, for any threads and bounds: the      *)
(* reader-writer locks of sync/, the pipeline of Mutiqueue/main.cpp, the   *)
(* log service of base/, the queues of Mutiqueue/ and the time wheel.      *)
(***************************************************************************)
EXTENDS MCUnits, FiniteSetTheorems, SequenceTheorems, WellFoundedInduction, TLAPS

-----------------------------------------------------------------------------
(* The reader-writer locks *)

\* The threads at a label, counted.
Count(p, l) == Cardinality({t \in Lockers : p[t] = l})

\* The number of threads at a label as one thread moves.
LEMMA Moves ==
  ASSUME NEW L, NEW p \in [Lockers -> L], NEW t \in Lockers, NEW to \in L, NEW l,
         to # p[t]
  PROVE  /\ Count(p, l) \in Nat
         /\ l = to => Count([p EXCEPT ![t] = to], l) = Count(p, l) + 1
         /\ l = p[t] => Count([p EXCEPT ![t] = to], l) = Count(p, l) - 1
         /\ l # to /\ l # p[t] => Count([p EXCEPT ![t] = to], l) = Count(p, l)
<1> DEFINE q == [p EXCEPT ![t] = to]
           A == {u \in Lockers : p[u] = l}
           B == {u \in Lockers : q[u] = l}
<1>1. IsFiniteSet(A) /\ Cardinality(A) \in Nat
  BY LockersAssumption, FS_Subset, FS_CardinalityType
<1>2. Count(p, l) = Cardinality(A) /\ Count(q, l) = Cardinality(B)
  BY DEF Count
<1>3. CASE l = to
  <2>1. B = A \cup {t} /\ t \notin A
    BY <1>3
  <2> HIDE DEF A, B
  <2> QED
    BY <1>1, <1>2, <1>3, <2>1, FS_AddElement
<1>4. CASE l = p[t]
  <2>1. B = A \ {t} /\ t \in A
    BY <1>4
  <2> HIDE DEF A, B
  <2> QED
    BY <1>1, <1>2, <1>4, <2>1, FS_RemoveElement
<1>5. CASE l # to /\ l # p[t]
  <2>1. B = A
    BY <1>5
  <2> HIDE DEF A, B
  <2> QED
    BY <1>1, <1>2, <1>5, <2>1
<1> QED
  BY <1>3, <1>4, <1>5

\* The threads at one label of a group, or at one of the others.
LEMMA Split ==
  ASSUME NEW p, NEW l, NEW g, l \notin g
  PROVE  /\ IsFiniteSet({t \in Lockers : p[t] \in g})
         /\ Cardinality({t \in Lockers : p[t] \in g \cup {l}}) =
              Cardinality({t \in Lockers : p[t] \in g}) + Count(p, l)
<1> DEFINE A == {t \in Lockers : p[t] \in g}
           B == {t \in Lockers : p[t] = l}
           C == {t \in Lockers : p[t] \in g \cup {l}}
<1>1. IsFiniteSet(A) /\ IsFiniteSet(B)
  BY LockersAssumption, FS_Subset
<1>2. C = A \cup B /\ A \cap B = {}
  OBVIOUS
<1>3. Count(p, l) = Cardinality(B)
  BY DEF Count
<1> HIDE DEF A, B, C
<1>4. Cardinality(A) \in Nat /\ Cardinality(B) \in Nat
  BY <1>1, FS_CardinalityType
<1>5. Cardinality(C) = Cardinality(A) + Cardinality(B)
  BY <1>1, <1>2, <1>4, FS_Union, FS_EmptySet
<1> QED
  BY <1>1, <1>3, <1>5 DEF A, C

\* The groups of labels that Exclusion counts, as sums.
LEMMA Groups ==
  ASSUME NEW p
  PROVE  /\ \A l : Count(p, l) \in Nat
         /\ Cardinality({t \in Lockers : p[t] \in {"writing"}}) = Count(p, "writing")
         /\ Cardinality({t \in Lockers : p[t] \in {"reading", "counted"}}) =
              Count(p, "reading") + Count(p, "counted")
         /\ Cardinality({t \in Lockers : p[t] \in {"first", "counted"}}) =
              Count(p, "first") + Count(p, "counted")
         /\ Cardinality({t \in Lockers : p[t] \in {"drain", "writing"}}) =
              Count(p, "drain") + Count(p, "writing")
         /\ Cardinality({t \in Lockers : p[t] \in {"counted", "reading", "writing"}}) =
              Count(p, "counted") + Count(p, "reading") + Count(p, "writing")
         /\ Cardinality({t \in Lockers :
                           p[t] \in {"first", "counted", "check", "sub", "reading"}}) =
              Count(p, "first") + Count(p, "counted") + Count(p, "check")
                + Count(p, "sub") + Count(p, "reading")
         /\ {t \in Lockers : p[t] \in {"writing"}} = {} <=> Count(p, "writing") = 0
         /\ {t \in Lockers : p[t] \in {"reading", "counted"}} = {} <=>
              Count(p, "reading") + Count(p, "counted") = 0
         /\ {t \in Lockers : p[t] \in {"counted", "reading", "writing"}} = {} <=>
              Count(p, "counted") + Count(p, "reading") + Count(p, "writing") = 0
<1> DEFINE N(g) == Cardinality({t \in Lockers : p[t] \in g})
<1>1. \A l : Count(p, l) \in Nat
  <2> SUFFICES ASSUME NEW l PROVE Count(p, l) \in Nat
    OBVIOUS
  <2>1. IsFiniteSet({t \in Lockers : p[t] = l})
    BY LockersAssumption, FS_Subset
  <2> QED
    BY <2>1, FS_CardinalityType DEF Count
<1>2. \A l : N({l}) = Count(p, l)
  <2> SUFFICES ASSUME NEW l PROVE N({l}) = Count(p, l)
    OBVIOUS
  <2>1. {t \in Lockers : p[t] \in {l}} = {t \in Lockers : p[t] = l}
    OBVIOUS
  <2> QED
    BY <2>1 DEF Count
<1>3. \A g, l : l \notin g => N(g \cup {l}) = N(g) + Count(p, l)
  BY Split
<1>4. \A g : {t \in Lockers : p[t] \in g} = {} <=> N(g) = 0
  <2> SUFFICES ASSUME NEW g
               PROVE  {t \in Lockers : p[t] \in g} = {} <=> N(g) = 0
    OBVIOUS
  <2> DEFINE S == {t \in Lockers : p[t] \in g}
  <2>1. IsFiniteSet(S)
    BY LockersAssumption, FS_Subset
  <2> HIDE DEF S
  <2>2. S = {} <=> Cardinality(S) = 0
    BY <2>1, FS_EmptySet
  <2> QED
    BY <2>2 DEF S
<1> HIDE DEF N
<1>5. N({"reading", "counted"}) = Count(p, "reading") + Count(p, "counted")
  <2>1. {"reading", "counted"} = {"reading"} \cup {"counted"}
    OBVIOUS
  <2> QED
    BY <1>2, <1>3, <2>1
<1>6. N({"first", "counted"}) = Count(p, "first") + Count(p, "counted")
  <2>1. {"first", "counted"} = {"first"} \cup {"counted"}
    OBVIOUS
  <2> QED
    BY <1>2, <1>3, <2>1
<1>7. N({"drain", "writing"}) = Count(p, "drain") + Count(p, "writing")
  <2>1. {"drain", "writing"} = {"drain"} \cup {"writing"}
    OBVIOUS
  <2> QED
    BY <1>2, <1>3, <2>1
<1>8. N({"counted", "reading", "writing"}) =
        Count(p, "counted") + Count(p, "reading") + Count(p, "writing")
  <2>1. {"counted", "reading", "writing"} = {"reading", "counted"} \cup {"writing"}
    OBVIOUS
  <2>2. N({"counted", "reading", "writing"}) = N({"reading", "counted"}) + Count(p, "writing")
    BY <1>3, <2>1
  <2> QED
    BY <1>1, <1>5, <2>2
<1>9. N({"first", "counted", "check", "sub", "reading"}) =
        Count(p, "first") + Count(p, "counted") + Count(p, "check")
          + Count(p, "sub") + Count(p, "reading")
  <2>1. {"first", "counted", "check"} = {"first", "counted"} \cup {"check"}
    OBVIOUS
  <2>2. {"first", "counted", "check", "sub"} = {"first", "counted", "check"} \cup {"sub"}
    OBVIOUS
  <2>3. {"first", "counted", "check", "sub", "reading"} =
          {"first", "counted", "check", "sub"} \cup {"reading"}
    OBVIOUS
  <2>4. N({"first", "counted", "check"}) = N({"first", "counted"}) + Count(p, "check")
    BY <1>3, <2>1
  <2>5. N({"first", "counted", "check", "sub"}) =
          N({"first", "counted", "check"}) + Count(p, "sub")
    BY <1>3, <2>2
  <2>6. N({"first", "counted", "check", "sub", "reading"}) =
          N({"first", "counted", "check", "sub"}) + Count(p, "reading")
    BY <1>3, <2>3
  <2> QED
    BY <1>1, <1>6, <2>4, <2>5, <2>6
<1>10. N({"writing"}) = Count(p, "writing")
  BY <1>2
<1>11. {t \in Lockers : p[t] \in {"writing"}} = {} <=> Count(p, "writing") = 0
  BY <1>4, <1>10
<1>12. {t \in Lockers : p[t] \in {"reading", "counted"}} = {} <=>
         Count(p, "reading") + Count(p, "counted") = 0
  BY <1>4, <1>5
<1>13. {t \in Lockers : p[t] \in {"counted", "reading", "writing"}} = {} <=>
         Count(p, "counted") + Count(p, "reading") + Count(p, "writing") = 0
  BY <1>4, <1>8
<1> QED
  BY <1>1, <1>5, <1>6, <1>7, <1>8, <1>9, <1>10, <1>11, <1>12, <1>13 DEF N

\* Exclusion in terms of these numbers: fi threads at "first", co at "counted",
\* and so on.
Sound(k, w, m, r, fi, co, re, wr, ch, su, dr) ==
  /\ wr = 0 \/ (wr = 1 /\ re = 0 /\ co = 0)
  /\ r = fi + co + ch + su + re
  /\ k = "sem" => /\ m \in {0, 1}
                  /\ m + fi + co = 1
                  /\ w = IF co + re + wr = 0 THEN 1 ELSE 0
  /\ k = "spin" => w \in {0, 1} /\ w = dr + wr

\* What one thread's move does to the numbers, action by action.
LEMMA SoundSteps ==
  ASSUME NEW k, NEW w \in Int, NEW m \in Int, NEW r \in Int,
         NEW fi \in Nat, NEW co \in Nat, NEW re \in Nat, NEW wr \in Nat,
         NEW ch \in Nat, NEW su \in Nat, NEW dr \in Nat,
         Sound(k, w, m, r, fi, co, re, wr, ch, su, dr)
  PROVE  /\ k = "sem" /\ w > 0 =>
              Sound(k, w - 1, m, r, fi, co, re, wr + 1, ch, su, dr)
         /\ k = "sem" /\ wr > 0 =>
              Sound(k, w + 1, m, r, fi, co, re, wr - 1, ch, su, dr)
         /\ k = "sem" /\ m > 0 /\ r = 0 =>
              Sound(k, w, m - 1, r + 1, fi + 1, co, re, wr, ch, su, dr)
         /\ k = "sem" /\ m > 0 /\ r # 0 /\ ch = 0 /\ su = 0 =>
              Sound(k, w, m - 1, r + 1, fi, co + 1, re, wr, ch, su, dr)
         /\ k = "sem" /\ w > 0 /\ fi > 0 =>
              Sound(k, w - 1, m, r, fi - 1, co + 1, re, wr, ch, su, dr)
         /\ k = "sem" /\ co > 0 =>
              Sound(k, w, m + 1, r, fi, co - 1, re + 1, wr, ch, su, dr)
         /\ k = "sem" /\ m > 0 /\ re > 0 /\ ch = 0 /\ su = 0 =>
              Sound(k, IF r = 1 THEN w + 1 ELSE w, m, r - 1, fi, co, re - 1, wr, ch, su, dr)
         /\ k = "spin" =>
              Sound(k, w, m, r + 1, fi, co, re, wr, ch + 1, su, dr)
         /\ k = "spin" /\ w = 0 /\ ch > 0 =>
              Sound(k, w, m, r, fi, co, re + 1, wr, ch - 1, su, dr)
         /\ k = "spin" /\ ch > 0 =>
              Sound(k, w, m, r, fi, co, re, wr, ch - 1, su + 1, dr)
         /\ k = "spin" /\ su > 0 =>
              Sound(k, w, m, r - 1, fi, co, re, wr, ch, su - 1, dr)
         /\ k = "spin" /\ re > 0 =>
              Sound(k, w, m, r - 1, fi, co, re - 1, wr, ch, su, dr)
         /\ k = "spin" /\ w = 0 =>
              Sound(k, 1, m, r, fi, co, re, wr, ch, su, dr + 1)
         /\ k = "spin" /\ r = 0 /\ dr > 0 =>
              Sound(k, w, m, r, fi, co, re, wr + 1, ch, su, dr - 1)
         /\ k = "spin" /\ wr > 0 =>
              Sound(k, 0, m, r, fi, co, re, wr - 1, ch, su, dr)
BY DEF Sound

SoundAt(p, k, w, m, r) ==
  Sound(k, w, m, r, Count(p, "first"), Count(p, "counted"), Count(p, "reading"),
        Count(p, "writing"), Count(p, "check"), Count(p, "sub"), Count(p, "drain"))

\* RwLock takes FiniteSets for itself; its cardinality is the one counted with.
LEMMA SameCardinality ==
  ASSUME NEW S
  PROVE  Rw!Cardinality(S) = Cardinality(S)
BY DEF Rw!Cardinality, Cardinality

LEMMA ExclusionCounts ==
  ASSUME mtx \in Int
  PROVE  Rw!Exclusion <=>
           (~failed => SoundAt(wpc, lock, wrt, mtx, readcount))
<1>1. \A l : Count(wpc, l) \in Nat
  BY Groups
<1>2. /\ Rw!Cardinality(Rw!In({"writing"})) = Count(wpc, "writing")
      /\ Rw!In({"writing"}) = {} <=> Count(wpc, "writing") = 0
  BY Groups, SameCardinality DEF Rw!In
<1>3. Rw!In({"reading", "counted"}) = {} <=>
        Count(wpc, "reading") + Count(wpc, "counted") = 0
  BY Groups, SameCardinality DEF Rw!In
<1>4. Rw!Cardinality(Rw!In({"first", "counted"})) =
        Count(wpc, "first") + Count(wpc, "counted")
  BY Groups, SameCardinality DEF Rw!In
<1>5. Rw!Cardinality(Rw!In({"drain", "writing"})) =
        Count(wpc, "drain") + Count(wpc, "writing")
  BY Groups, SameCardinality DEF Rw!In
<1>6. Rw!In({"counted", "reading", "writing"}) = {} <=>
        Count(wpc, "counted") + Count(wpc, "reading") + Count(wpc, "writing") = 0
  BY Groups, SameCardinality DEF Rw!In
<1>7. Rw!Cardinality(Rw!In({"first", "counted", "check", "sub", "reading"})) =
        Count(wpc, "first") + Count(wpc, "counted") + Count(wpc, "check")
          + Count(wpc, "sub") + Count(wpc, "reading")
  BY Groups, SameCardinality DEF Rw!In
<1> QED
  BY <1>1, <1>2, <1>3, <1>4, <1>5, <1>6, <1>7 DEF Rw!Exclusion, SoundAt, Sound

LEMMA ExclusionCountsNext ==
  ASSUME mtx' \in Int
  PROVE  Rw!Exclusion' <=>
           (~failed' => SoundAt(wpc', lock', wrt', mtx', readcount'))
<1>1. \A l : Count(wpc', l) \in Nat
  BY Groups
<1>2. /\ Rw!Cardinality(Rw!In({"writing"})') = Count(wpc', "writing")
      /\ Rw!In({"writing"})' = {} <=> Count(wpc', "writing") = 0
  BY Groups, SameCardinality DEF Rw!In
<1>3. Rw!In({"reading", "counted"})' = {} <=>
        Count(wpc', "reading") + Count(wpc', "counted") = 0
  BY Groups, SameCardinality DEF Rw!In
<1>4. Rw!Cardinality(Rw!In({"first", "counted"})') =
        Count(wpc', "first") + Count(wpc', "counted")
  BY Groups, SameCardinality DEF Rw!In
<1>5. Rw!Cardinality(Rw!In({"drain", "writing"})') =
        Count(wpc', "drain") + Count(wpc', "writing")
  BY Groups, SameCardinality DEF Rw!In
<1>6. Rw!In({"counted", "reading", "writing"})' = {} <=>
        Count(wpc', "counted") + Count(wpc', "reading") + Count(wpc', "writing") = 0
  BY Groups, SameCardinality DEF Rw!In
<1>7. Rw!Cardinality(Rw!In({"first", "counted", "check", "sub", "reading"})') =
        Count(wpc', "first") + Count(wpc', "counted") + Count(wpc', "check")
          + Count(wpc', "sub") + Count(wpc', "reading")
  BY Groups, SameCardinality DEF Rw!In
<1> QED
  BY <1>1, <1>2, <1>3, <1>4, <1>5, <1>6, <1>7 DEF Rw!Exclusion, SoundAt, Sound

\* A step of one thread inside a call keeps the exclusion.
LEMMA LockStepKeeps ==
  ASSUME Rw!TypeOK, Rw!Exclusion, NEW t \in Lockers, Rw!Begin(t) \/ Rw!Continue(t)
  PROVE  Rw!TypeOK' /\ Rw!Exclusion'
<1> DEFINE All == Rw!SemLabels \cup Rw!SpinLabels
<1>1. Rw!TypeOK'
  <2> USE DEF Rw!Goto, Rw!TypeOK, Rw!SemLabels, Rw!SpinLabels
  <2>1. CASE Rw!WriteLock(t)
    BY <2>1 DEF Rw!WriteLock
  <2>2. CASE Rw!ReadLock(t)
    BY <2>2 DEF Rw!ReadLock
  <2>3. CASE Rw!SpinRead(t)
    BY <2>3 DEF Rw!SpinRead
  <2>4. CASE Rw!SpinWrite(t)
    BY <2>4 DEF Rw!SpinWrite
  <2>5. CASE Rw!FirstReader(t)
    BY <2>5 DEF Rw!FirstReader
  <2>6. CASE Rw!ReadLocked(t)
    BY <2>6 DEF Rw!ReadLocked
  <2>7. CASE Rw!ReadUnlock(t)
    BY <2>7 DEF Rw!ReadUnlock
  <2>8. CASE Rw!WriteUnlock(t)
    BY <2>8 DEF Rw!WriteUnlock
  <2>9. CASE Rw!AddReader(t)
    BY <2>9 DEF Rw!AddReader
  <2>10. CASE Rw!CheckWriter(t)
    BY <2>10 DEF Rw!CheckWriter
  <2>11. CASE Rw!SubReader(t)
    BY <2>11 DEF Rw!SubReader
  <2>12. CASE Rw!SpinReadUnlock(t)
    BY <2>12 DEF Rw!SpinReadUnlock
  <2>13. CASE Rw!Drained(t)
    BY <2>13 DEF Rw!Drained
  <2>14. CASE Rw!SpinWriteUnlock(t)
    BY <2>14 DEF Rw!SpinWriteUnlock
  <2> QED
    BY <2>1, <2>2, <2>3, <2>4, <2>5, <2>6, <2>7, <2>8, <2>9, <2>10, <2>11, <2>12, <2>13, <2>14 DEF Rw!Begin, Rw!Continue
<1>2. /\ wpc \in [Lockers -> All]
      /\ wpc'[t] \in All
      /\ wpc' = [wpc EXCEPT ![t] = wpc'[t]]
      /\ wpc'[t] # wpc[t]
  <2> USE DEF Rw!Goto, Rw!TypeOK, Rw!SemLabels, Rw!SpinLabels
  <2>1. CASE Rw!WriteLock(t)
    BY <2>1 DEF Rw!WriteLock
  <2>2. CASE Rw!ReadLock(t)
    BY <2>2 DEF Rw!ReadLock
  <2>3. CASE Rw!SpinRead(t)
    BY <2>3 DEF Rw!SpinRead
  <2>4. CASE Rw!SpinWrite(t)
    BY <2>4 DEF Rw!SpinWrite
  <2>5. CASE Rw!FirstReader(t)
    BY <2>5 DEF Rw!FirstReader
  <2>6. CASE Rw!ReadLocked(t)
    BY <2>6 DEF Rw!ReadLocked
  <2>7. CASE Rw!ReadUnlock(t)
    BY <2>7 DEF Rw!ReadUnlock
  <2>8. CASE Rw!WriteUnlock(t)
    BY <2>8 DEF Rw!WriteUnlock
  <2>9. CASE Rw!AddReader(t)
    BY <2>9 DEF Rw!AddReader
  <2>10. CASE Rw!CheckWriter(t)
    BY <2>10 DEF Rw!CheckWriter
  <2>11. CASE Rw!SubReader(t)
    BY <2>11 DEF Rw!SubReader
  <2>12. CASE Rw!SpinReadUnlock(t)
    BY <2>12 DEF Rw!SpinReadUnlock
  <2>13. CASE Rw!Drained(t)
    BY <2>13 DEF Rw!Drained
  <2>14. CASE Rw!SpinWriteUnlock(t)
    BY <2>14 DEF Rw!SpinWriteUnlock
  <2> QED
    BY <2>1, <2>2, <2>3, <2>4, <2>5, <2>6, <2>7, <2>8, <2>9, <2>10, <2>11, <2>12, <2>13, <2>14 DEF Rw!Begin, Rw!Continue
<1>3. \A l : /\ Count(wpc, l) \in Nat
             /\ l = wpc'[t] => Count(wpc', l) = Count(wpc, l) + 1
             /\ l = wpc[t] => Count(wpc', l) = Count(wpc, l) - 1
             /\ l # wpc'[t] /\ l # wpc[t] => Count(wpc', l) = Count(wpc, l)
  <2> HIDE DEF All
  <2> QED
    BY <1>2, Moves
<1>4. ~failed => SoundAt(wpc, lock, wrt, mtx, readcount)
  BY ExclusionCounts DEF Rw!TypeOK
<1>5. ~failed' => SoundAt(wpc', lock', wrt', mtx', readcount')
  <2> SUFFICES ASSUME ~failed'
               PROVE  SoundAt(wpc', lock', wrt', mtx', readcount')
    OBVIOUS
  <2> DEFINE fi == Count(wpc, "first")
             co == Count(wpc, "counted")
             re == Count(wpc, "reading")
             wr == Count(wpc, "writing")
             ch == Count(wpc, "check")
             su == Count(wpc, "sub")
             dr == Count(wpc, "drain")
             To(l) == IF l = wpc'[t] THEN 1 ELSE IF l = wpc[t] THEN -1 ELSE 0
  <2>15. /\ fi \in Nat /\ co \in Nat /\ re \in Nat /\ wr \in Nat
         /\ ch \in Nat /\ su \in Nat /\ dr \in Nat
    BY Groups
  <2>16. /\ Count(wpc', "first") = fi + To("first")
         /\ Count(wpc', "counted") = co + To("counted")
         /\ Count(wpc', "reading") = re + To("reading")
         /\ Count(wpc', "writing") = wr + To("writing")
         /\ Count(wpc', "check") = ch + To("check")
         /\ Count(wpc', "sub") = su + To("sub")
         /\ Count(wpc', "drain") = dr + To("drain")
    BY <1>2, <1>3
  <2>17. \A l : Count(wpc', l) \in Nat
    BY Groups
  <2>18. wrt \in Int /\ mtx \in Int /\ readcount \in Int
    BY DEF Rw!TypeOK
  <2>19. lock = "sem" => ch = 0 /\ su = 0
    <3>1. lock = "sem" => \A l \in {"check", "sub"} : {u \in Lockers : wpc[u] = l} = {}
      BY DEF Rw!TypeOK, Rw!SemLabels
    <3> QED
      BY <3>1, FS_EmptySet DEF Count
  <2>20. ~failed => Sound(lock, wrt, mtx, readcount, fi, co, re, wr, ch, su, dr)
    BY <1>4 DEF SoundAt
  <2>21. SUFFICES Sound(lock', wrt', mtx', readcount', fi + To("first"),
                        co + To("counted"), re + To("reading"), wr + To("writing"),
                        ch + To("check"), su + To("sub"), dr + To("drain"))
    BY <2>16 DEF SoundAt
  <2>1. CASE Rw!WriteLock(t)
    <3>1. lock = "sem" /\ wpc[t] = "idle" /\ wpc'[t] = "writing" /\ ~failed
      BY <2>1 DEF Rw!WriteLock, Rw!Goto, Rw!TypeOK, Rw!SemLabels, Rw!SpinLabels
    <3>2. /\ To("first") = 0 /\ To("counted") = 0 /\ To("reading") = 0
          /\ To("writing") = 1 /\ To("check") = 0
          /\ To("sub") = 0 /\ To("drain") = 0
      BY <3>1
    <3> HIDE DEF To, fi, co, re, wr, ch, su, dr
    <3> QED
      BY <2>15, <2>18, <2>19, <2>20, <2>1, <3>1, <3>2, SoundSteps DEF Rw!WriteLock
  <2>2. CASE Rw!ReadLock(t)
    <3>1. lock = "sem" /\ wpc[t] = "idle" /\ wpc'[t] = (IF readcount = 0 THEN "first" ELSE "counted") /\ ~failed
      BY <2>2 DEF Rw!ReadLock, Rw!Goto, Rw!TypeOK, Rw!SemLabels, Rw!SpinLabels
    <3> HIDE DEF fi, co, re, wr, ch, su, dr
    <3> QED
      BY <2>15, <2>18, <2>19, <2>20, <2>2, <3>1, SoundSteps DEF Rw!ReadLock
  <2>3. CASE Rw!SpinRead(t)
    <3>1. lock = "spin" /\ wpc[t] = "idle" /\ wpc'[t] = "add" /\ ~failed
      BY <2>3 DEF Rw!SpinRead, Rw!Goto, Rw!TypeOK, Rw!SemLabels, Rw!SpinLabels
    <3>2. /\ To("first") = 0 /\ To("counted") = 0 /\ To("reading") = 0
          /\ To("writing") = 0 /\ To("check") = 0
          /\ To("sub") = 0 /\ To("drain") = 0
      BY <3>1
    <3> HIDE DEF To, fi, co, re, wr, ch, su, dr
    <3> QED
      BY <2>15, <2>18, <2>19, <2>20, <2>3, <3>1, <3>2, SoundSteps DEF Rw!SpinRead
  <2>4. CASE Rw!SpinWrite(t)
    <3>1. lock = "spin" /\ wpc[t] = "idle" /\ wpc'[t] = "drain" /\ ~failed
      BY <2>4 DEF Rw!SpinWrite, Rw!Goto, Rw!TypeOK, Rw!SemLabels, Rw!SpinLabels
    <3>2. /\ To("first") = 0 /\ To("counted") = 0 /\ To("reading") = 0
          /\ To("writing") = 0 /\ To("check") = 0
          /\ To("sub") = 0 /\ To("drain") = 1
      BY <3>1
    <3> HIDE DEF To, fi, co, re, wr, ch, su, dr
    <3> QED
      BY <2>15, <2>18, <2>19, <2>20, <2>4, <3>1, <3>2, SoundSteps DEF Rw!SpinWrite
  <2>5. CASE Rw!FirstReader(t)
    <3>1. lock = "sem" /\ wpc[t] = "first" /\ wpc'[t] = "counted" /\ ~failed
      BY <2>5 DEF Rw!FirstReader, Rw!Goto, Rw!TypeOK, Rw!SemLabels, Rw!SpinLabels
    <3>2. fi > 0
      BY <2>15, <2>16, <2>17, <3>1
    <3>3. /\ To("first") = -1 /\ To("counted") = 1 /\ To("reading") = 0
          /\ To("writing") = 0 /\ To("check") = 0
          /\ To("sub") = 0 /\ To("drain") = 0
      BY <3>1
    <3> HIDE DEF To, fi, co, re, wr, ch, su, dr
    <3> QED
      BY <2>15, <2>18, <2>19, <2>20, <2>5, <3>1, <3>2, <3>3, SoundSteps DEF Rw!FirstReader
  <2>6. CASE Rw!ReadLocked(t)
    <3>1. lock = "sem" /\ wpc[t] = "counted" /\ wpc'[t] = "reading" /\ ~failed
      BY <2>6 DEF Rw!ReadLocked, Rw!Goto, Rw!TypeOK, Rw!SemLabels, Rw!SpinLabels
    <3>2. co > 0
      BY <2>15, <2>16, <2>17, <3>1
    <3>3. /\ To("first") = 0 /\ To("counted") = -1 /\ To("reading") = 1
          /\ To("writing") = 0 /\ To("check") = 0
          /\ To("sub") = 0 /\ To("drain") = 0
      BY <3>1
    <3> HIDE DEF To, fi, co, re, wr, ch, su, dr
    <3> QED
      BY <2>15, <2>18, <2>19, <2>20, <2>6, <3>1, <3>2, <3>3, SoundSteps DEF Rw!ReadLocked
  <2>7. CASE Rw!ReadUnlock(t)
    <3>1. lock = "sem" /\ wpc[t] = "reading" /\ wpc'[t] = "idle" /\ ~failed
      BY <2>7 DEF Rw!ReadUnlock, Rw!Goto, Rw!TypeOK, Rw!SemLabels, Rw!SpinLabels
    <3>2. re > 0
      BY <2>15, <2>16, <2>17, <3>1
    <3>3. /\ To("first") = 0 /\ To("counted") = 0 /\ To("reading") = -1
          /\ To("writing") = 0 /\ To("check") = 0
          /\ To("sub") = 0 /\ To("drain") = 0
      BY <3>1
    <3> HIDE DEF To, fi, co, re, wr, ch, su, dr
    <3> QED
      BY <2>15, <2>18, <2>19, <2>20, <2>7, <3>1, <3>2, <3>3, SoundSteps DEF Rw!ReadUnlock
  <2>8. CASE Rw!WriteUnlock(t)
    <3>1. lock = "sem" /\ wpc[t] = "writing" /\ wpc'[t] = "idle" /\ ~failed
      BY <2>8 DEF Rw!WriteUnlock, Rw!Goto, Rw!TypeOK, Rw!SemLabels, Rw!SpinLabels
    <3>2. wr > 0
      BY <2>15, <2>16, <2>17, <3>1
    <3>3. /\ To("first") = 0 /\ To("counted") = 0 /\ To("reading") = 0
          /\ To("writing") = -1 /\ To("check") = 0
          /\ To("sub") = 0 /\ To("drain") = 0
      BY <3>1
    <3> HIDE DEF To, fi, co, re, wr, ch, su, dr
    <3> QED
      BY <2>15, <2>18, <2>19, <2>20, <2>8, <3>1, <3>2, <3>3, SoundSteps DEF Rw!WriteUnlock
  <2>9. CASE Rw!AddReader(t)
    <3>1. lock = "spin" /\ wpc[t] = "add" /\ wpc'[t] = "check" /\ ~failed
      BY <2>9 DEF Rw!AddReader, Rw!Goto, Rw!TypeOK, Rw!SemLabels, Rw!SpinLabels
    <3>2. /\ To("first") = 0 /\ To("counted") = 0 /\ To("reading") = 0
          /\ To("writing") = 0 /\ To("check") = 1
          /\ To("sub") = 0 /\ To("drain") = 0
      BY <3>1
    <3> HIDE DEF To, fi, co, re, wr, ch, su, dr
    <3> QED
      BY <2>15, <2>18, <2>19, <2>20, <2>9, <3>1, <3>2, SoundSteps DEF Rw!AddReader
  <2>10. CASE Rw!CheckWriter(t)
    <3>1. lock = "spin" /\ wpc[t] = "check" /\ wpc'[t] = (IF wrt = 0 THEN "reading" ELSE "sub") /\ ~failed
      BY <2>10 DEF Rw!CheckWriter, Rw!Goto, Rw!TypeOK, Rw!SemLabels, Rw!SpinLabels
    <3>2. ch > 0
      BY <2>15, <2>16, <2>17, <3>1
    <3> HIDE DEF fi, co, re, wr, ch, su, dr
    <3> QED
      BY <2>15, <2>18, <2>19, <2>20, <2>10, <3>1, <3>2, SoundSteps DEF Rw!CheckWriter
  <2>11. CASE Rw!SubReader(t)
    <3>1. lock = "spin" /\ wpc[t] = "sub" /\ wpc'[t] = "idle" /\ ~failed
      BY <2>11 DEF Rw!SubReader, Rw!Goto, Rw!TypeOK, Rw!SemLabels, Rw!SpinLabels
    <3>2. su > 0
      BY <2>15, <2>16, <2>17, <3>1
    <3>3. /\ To("first") = 0 /\ To("counted") = 0 /\ To("reading") = 0
          /\ To("writing") = 0 /\ To("check") = 0
          /\ To("sub") = -1 /\ To("drain") = 0
      BY <3>1
    <3> HIDE DEF To, fi, co, re, wr, ch, su, dr
    <3> QED
      BY <2>15, <2>18, <2>19, <2>20, <2>11, <3>1, <3>2, <3>3, SoundSteps DEF Rw!SubReader
  <2>12. CASE Rw!SpinReadUnlock(t)
    <3>1. lock = "spin" /\ wpc[t] = "reading" /\ wpc'[t] = "idle" /\ ~failed
      BY <2>12 DEF Rw!SpinReadUnlock, Rw!Goto, Rw!TypeOK, Rw!SemLabels, Rw!SpinLabels
    <3>2. re > 0
      BY <2>15, <2>16, <2>17, <3>1
    <3>3. /\ To("first") = 0 /\ To("counted") = 0 /\ To("reading") = -1
          /\ To("writing") = 0 /\ To("check") = 0
          /\ To("sub") = 0 /\ To("drain") = 0
      BY <3>1
    <3> HIDE DEF To, fi, co, re, wr, ch, su, dr
    <3> QED
      BY <2>15, <2>18, <2>19, <2>20, <2>12, <3>1, <3>2, <3>3, SoundSteps DEF Rw!SpinReadUnlock
  <2>13. CASE Rw!Drained(t)
    <3>1. lock = "spin" /\ wpc[t] = "drain" /\ wpc'[t] = "writing" /\ ~failed
      BY <2>13 DEF Rw!Drained, Rw!Goto, Rw!TypeOK, Rw!SemLabels, Rw!SpinLabels
    <3>2. dr > 0
      BY <2>15, <2>16, <2>17, <3>1
    <3>3. /\ To("first") = 0 /\ To("counted") = 0 /\ To("reading") = 0
          /\ To("writing") = 1 /\ To("check") = 0
          /\ To("sub") = 0 /\ To("drain") = -1
      BY <3>1
    <3> HIDE DEF To, fi, co, re, wr, ch, su, dr
    <3> QED
      BY <2>15, <2>18, <2>19, <2>20, <2>13, <3>1, <3>2, <3>3, SoundSteps DEF Rw!Drained
  <2>14. CASE Rw!SpinWriteUnlock(t)
    <3>1. lock = "spin" /\ wpc[t] = "writing" /\ wpc'[t] = "idle" /\ ~failed
      BY <2>14 DEF Rw!SpinWriteUnlock, Rw!Goto, Rw!TypeOK, Rw!SemLabels, Rw!SpinLabels
    <3>2. wr > 0
      BY <2>15, <2>16, <2>17, <3>1
    <3>3. /\ To("first") = 0 /\ To("counted") = 0 /\ To("reading") = 0
          /\ To("writing") = -1 /\ To("check") = 0
          /\ To("sub") = 0 /\ To("drain") = 0
      BY <3>1
    <3> HIDE DEF To, fi, co, re, wr, ch, su, dr
    <3> QED
      BY <2>15, <2>18, <2>19, <2>20, <2>14, <3>1, <3>2, <3>3, SoundSteps DEF Rw!SpinWriteUnlock
  <2> QED
    BY <2>1, <2>2, <2>3, <2>4, <2>5, <2>6, <2>7, <2>8,
       <2>9, <2>10, <2>11, <2>12, <2>13, <2>14
    DEF Rw!Begin, Rw!Continue
<1> QED
  BY <1>1, <1>5, ExclusionCountsNext DEF Rw!TypeOK

LEMMA LockNextKeeps ==
  ASSUME Rw!TypeOK, Rw!Exclusion, Rw!Next
  PROVE  Rw!TypeOK' /\ Rw!Exclusion'
<1>1. PICK t \in Lockers : Rw!Begin(t) \/ Rw!Continue(t) \/ Rw!FirstReaderFails(t)
  BY DEF Rw!Next
<1>2. CASE Rw!Begin(t) \/ Rw!Continue(t)
  BY <1>2, LockStepKeeps
<1>3. CASE Rw!FirstReaderFails(t)
  BY <1>3 DEF Rw!FirstReaderFails, Rw!Goto, Rw!TypeOK, Rw!Exclusion, Rw!SemLabels,
              Rw!SpinLabels
<1> QED
  BY <1>1, <1>2, <1>3

LEMMA LockInit ==
  ASSUME Rw!Init
  PROVE  Rw!TypeOK /\ Rw!Exclusion
<1>1. Rw!TypeOK
  <2>1. mtx \in Int /\ readcount \in Int
    BY DEF Rw!Init
  <2>4. failed \in BOOLEAN
    BY Zenon DEF Rw!Init
  <2>3. wrt \in Int
    <3>1. wrt = 0 \/ wrt = 1
      BY DEF Rw!Init
    <3> QED
      BY <3>1
  <2>2. wpc \in [Lockers -> IF lock = "sem" THEN Rw!SemLabels ELSE Rw!SpinLabels]
    BY DEF Rw!Init, Rw!SemLabels, Rw!SpinLabels
  <2> QED
    BY <2>1, <2>2, <2>3, <2>4 DEF Rw!Init, Rw!TypeOK
<1>2. \A l : l # "idle" => Count(wpc, l) = 0
  <2>1. \A l : l # "idle" => {t \in Lockers : wpc[t] = l} = {}
    BY DEF Rw!Init
  <2> QED
    BY <2>1, FS_EmptySet DEF Count
<1>3. /\ Count(wpc, "first") = 0 /\ Count(wpc, "counted") = 0
      /\ Count(wpc, "reading") = 0 /\ Count(wpc, "writing") = 0
      /\ Count(wpc, "check") = 0 /\ Count(wpc, "sub") = 0
      /\ Count(wpc, "drain") = 0
  BY <1>2
<1>4. SoundAt(wpc, lock, wrt, mtx, readcount)
  BY <1>3 DEF Rw!Init, SoundAt, Sound
<1> QED
  BY <1>1, <1>4, ExclusionCounts DEF Rw!TypeOK

LEMMA LockSame ==
  ASSUME Rw!TypeOK, Rw!Exclusion, UNCHANGED rwVars
  PROVE  Rw!TypeOK' /\ Rw!Exclusion'
<1>1. Rw!TypeOK'
  BY DEF rwVars, Rw!TypeOK
<1>2. ~failed => SoundAt(wpc, lock, wrt, mtx, readcount)
  BY ExclusionCounts DEF Rw!TypeOK
<1>3. ~failed' => SoundAt(wpc', lock', wrt', mtx', readcount')
  BY <1>2 DEF rwVars
<1> QED
  BY <1>1, <1>3, ExclusionCountsNext DEF Rw!TypeOK

\* The reader-writer locks of rwlock.c and rwlock.hpp exclude a writer from
\* everybody else, and their counters say who is inside, for any finite set of
\* threads; until a sem_wait fails in rwl_readLock.
THEOREM Locks == Spec => []LocksExclude
<1>1. Init => LocksExclude
  BY LockInit DEF Init, LocksExclude
<1>2. LocksExclude /\ [Next]_vars => LocksExclude'
  <2> SUFFICES ASSUME LocksExclude, [Next]_vars PROVE LocksExclude'
    OBVIOUS
  <2>1. CASE RwNext
    BY <2>1, LockNextKeeps DEF RwNext, LocksExclude
  <2>2. CASE UNCHANGED rwVars
    BY <2>2, LockSame DEF LocksExclude
  <2> QED
    BY <2>1, <2>2
    DEF Next, vars, MpmcNext, LinkedNext, RingNext, PipelineNext, ServiceNext, WheelNext
<1> QED
  BY <1>1, <1>2, PTL DEF Spec

-----------------------------------------------------------------------------
(* The pipeline of main.cpp *)

PipeTypeOK ==
  /\ que \in [1..2 -> Seq(Nat)]
  /\ m_exit \in [1..2 -> BOOLEAN]
  /\ item \in [Feeders -> Nat]
  /\ inputs \in Nat
  /\ batch \in Seq(Nat) /\ pushed \in Seq(Nat) /\ printed \in Seq(Nat)

LEMMA AppendBehind ==
  ASSUME NEW s \in Seq(Nat), NEW t \in Seq(Nat), NEW x \in Nat
  PROVE  s \o Append(t, x) = Append(s \o t, x)
OBVIOUS

LEMMA HeadOver ==
  ASSUME NEW s \in Seq(Nat), NEW t \in Seq(Nat), t # <<>>
  PROVE  Append(s, Head(t)) \o Tail(t) = s \o t
OBVIOUS

\* The ways in which a step moves a value along the pipeline.
LEMMA Along ==
  ASSUME NEW p \in Seq(Nat), NEW q \in Seq(Nat), NEW b \in Seq(Nat),
         NEW r \in Seq(Nat)
  PROVE  /\ p \o q \o <<>> \o r = p \o q \o r \o <<>>
         /\ (p \o q) \o <<>> \o b \o r = p \o q \o b \o r
<1> DEFINE v == p \o q
<1>1. v \in Seq(Nat) /\ v \o r \in Seq(Nat)
  BY ConcatProperties
<1> HIDE DEF v
<1>2. v \o <<>> = v /\ (v \o r) \o <<>> = v \o r
  BY <1>1, ConcatEmptySeq
<1> QED
  BY <1>2 DEF v

LEMMA AlongHead ==
  ASSUME NEW p \in Seq(Nat), NEW q \in Seq(Nat), NEW b \in Seq(Nat), b # <<>>
  PROVE  p \o Append(q, Head(b)) \o Tail(b) = p \o q \o b
<1> DEFINE v == p \o q
<1>1. v \in Seq(Nat) /\ Head(b) \in Nat
  BY ConcatProperties, HeadTailProperties
<1>2. p \o Append(q, Head(b)) = Append(v, Head(b))
  BY <1>1, AppendBehind
<1> HIDE DEF v
<1>3. Append(v, Head(b)) \o Tail(b) = v \o b
  BY <1>1, HeadOver
<1> QED
  BY <1>2, <1>3 DEF v

LEMMA PipeInit ==
  ASSUME Pipe!Init
  PROVE  PipeTypeOK /\ InTransit
<1>1. PipeTypeOK
  BY DEF Pipe!Init, PipeTypeOK
<1>2. InTransit
  BY MaxSizeAssumption DEF Pipe!Init, InTransit, Pipe!InTransit
<1> QED
  BY <1>1, <1>2

LEMMA PipeNext ==
  ASSUME PipeTypeOK, InTransit, Pipe!Next
  PROVE  PipeTypeOK' /\ InTransit'
<1>0. /\ que[1] \in Seq(Nat) /\ que[2] \in Seq(Nat) /\ batch \in Seq(Nat)
      /\ printed \in Seq(Nat) /\ pushed \in Seq(Nat)
      /\ printed \o que[2] \o batch \o que[1] = pushed
      /\ \A q \in 1..2 : m_exit[q] \/ Len(que[q]) <= MaxSize
  BY DEF PipeTypeOK, InTransit, Pipe!InTransit
<1>7. PICK p \in Seq(Nat), q \in Seq(Nat), b \in Seq(Nat), r \in Seq(Nat) :
        p = printed /\ q = que[2] /\ b = batch /\ r = que[1]
  BY <1>0
<1>1. ASSUME NEW f \in Feeders, Pipe!Input(f)
      PROVE  PipeTypeOK' /\ InTransit'
  <2>1. PipeTypeOK'
    BY <1>1 DEF Pipe!Input, PipeTypeOK
  <2> QED
    BY <1>1, <2>1 DEF Pipe!Input, InTransit, Pipe!InTransit
<1>2. ASSUME NEW f \in Feeders, Pipe!Feed(f)
      PROVE  PipeTypeOK' /\ InTransit'
  <2>1. CASE Pipe!MustWait(1)
    BY <1>2, <2>1 DEF Pipe!Feed, Pipe!PushOrWait, PipeTypeOK, InTransit, Pipe!InTransit
  <2>2. CASE ~Pipe!MustWait(1)
    <3>1. /\ que' = [que EXCEPT ![1] = Append(que[1], item[f])]
          /\ pushed' = Append(pushed, item[f])
          /\ item' = [item EXCEPT ![f] = 0]
          /\ UNCHANGED <<m_exit, batch, inputs, printed>>
      BY <1>2, <2>2 DEF Pipe!Feed, Pipe!PushOrWait
    <3>2. item[f] \in Nat
      BY DEF PipeTypeOK
    <3>3. PipeTypeOK'
      BY <1>0, <3>1, <3>2, AppendProperties DEF PipeTypeOK
    <3>4. printed' \o que'[2] \o batch' \o que'[1] = pushed'
      <4>1. que'[1] = Append(que[1], item[f]) /\ que'[2] = que[2]
        BY <3>1 DEF PipeTypeOK
      <4>2. PICK x \in Nat : x = item[f]
        BY <3>2
      <4>3. p \o q \o b \o Append(r, x) = Append(p \o q \o b \o r, x)
        <5> DEFINE w == p \o q \o b
        <5>1. w \in Seq(Nat)
          BY ConcatProperties
        <5> HIDE DEF w
        <5>2. w \o Append(r, x) = Append(w \o r, x)
          BY <5>1, AppendBehind
        <5> QED
          BY <5>2 DEF w
      <4>4. p \o q \o b \o r = pushed
        BY <1>0, <1>7
      <4>5. p \o q \o b \o Append(r, x) = pushed'
        BY <3>1, <4>2, <4>3, <4>4
      <4> QED
        BY <1>7, <3>1, <4>1, <4>2, <4>5
    <3>5. \A k \in 1..2 : m_exit'[k] \/ Len(que'[k]) <= MaxSize
      BY <1>0, <2>2, <3>1, MaxSizeAssumption, AppendProperties
      DEF Pipe!MustWait, PipeTypeOK
    <3> QED
      BY <3>3, <3>4, <3>5 DEF InTransit, Pipe!InTransit
  <2> QED
    BY <2>1, <2>2
<1>3. CASE Pipe!CalcMove
  <2>1. /\ batch = <<>> /\ batch' = que[1]
        /\ que' = [que EXCEPT ![1] = <<>>]
        /\ UNCHANGED <<m_exit, item, inputs, pushed, printed>>
    BY <1>3 DEF Pipe!CalcMove
  <2>2. que'[1] = <<>> /\ que'[2] = que[2]
    BY <2>1 DEF PipeTypeOK
  <2>3. PipeTypeOK'
    BY <1>0, <2>1 DEF PipeTypeOK
  <2>4. printed' \o que'[2] \o batch' \o que'[1] = pushed'
    <3>1. p \o q \o <<>> \o r = p \o q \o r \o <<>>
      BY Along
    <3> QED
      BY <1>0, <1>7, <2>1, <2>2, <3>1
  <2>5. \A k \in 1..2 : m_exit'[k] \/ Len(que'[k]) <= MaxSize
    BY <1>0, <2>1, <2>2, MaxSizeAssumption
  <2> QED
    BY <2>3, <2>4, <2>5 DEF InTransit, Pipe!InTransit
<1>4. CASE Pipe!CalcPush
  <2>1. CASE Pipe!MustWait(2)
    BY <1>4, <2>1 DEF Pipe!CalcPush, Pipe!PushOrWait, PipeTypeOK, InTransit, Pipe!InTransit
  <2>2. CASE ~Pipe!MustWait(2)
    <3>1. /\ batch # <<>> /\ batch' = Tail(batch)
          /\ que' = [que EXCEPT ![2] = Append(que[2], Head(batch))]
          /\ UNCHANGED <<m_exit, item, inputs, pushed, printed>>
      BY <1>4, <2>2 DEF Pipe!CalcPush, Pipe!PushOrWait
    <3>2. Head(batch) \in Nat /\ Tail(batch) \in Seq(Nat)
      BY <1>0, <3>1, HeadTailProperties
    <3>3. que'[1] = que[1] /\ que'[2] = Append(que[2], Head(batch))
      BY <3>1 DEF PipeTypeOK
    <3>4. PipeTypeOK'
      BY <1>0, <3>1, <3>2, AppendProperties DEF PipeTypeOK
    <3>5. printed' \o que'[2] \o batch' \o que'[1] = pushed'
      <4>1. b # <<>>
        BY <1>7, <3>1
      <4>2. p \o Append(q, Head(b)) \o Tail(b) = p \o q \o b
        BY <4>1, AlongHead
      <4> QED
        BY <1>0, <1>7, <3>1, <3>3, <4>2
    <3>6. \A k \in 1..2 : m_exit'[k] \/ Len(que'[k]) <= MaxSize
      <4>1. Len(Append(que[2], Head(batch))) = Len(que[2]) + 1
        BY <1>0, <3>2, AppendProperties
      <4>2. Len(que[2]) \in Nat
        BY <1>0
      <4>3. m_exit[2] \/ Len(que[2]) < MaxSize
        BY <2>2, <4>2, MaxSizeAssumption DEF Pipe!MustWait
      <4>4. m_exit'[2] \/ Len(que'[2]) <= MaxSize
        BY <3>1, <3>3, <4>1, <4>2, <4>3, MaxSizeAssumption
      <4>5. m_exit'[1] \/ Len(que'[1]) <= MaxSize
        BY <1>0, <3>1, <3>3
      <4> QED
        BY <4>4, <4>5
    <3> QED
      BY <3>4, <3>5, <3>6 DEF InTransit, Pipe!InTransit
  <2> QED
    BY <2>1, <2>2
<1>5. CASE Pipe!PrintMove
  <2>1. /\ printed' = printed \o que[2]
        /\ que' = [que EXCEPT ![2] = <<>>]
        /\ UNCHANGED <<m_exit, item, batch, inputs, pushed>>
    BY <1>5 DEF Pipe!PrintMove
  <2>2. que'[1] = que[1] /\ que'[2] = <<>>
    BY <2>1 DEF PipeTypeOK
  <2>3. PipeTypeOK'
    BY <1>0, <2>1, ConcatProperties DEF PipeTypeOK
  <2>4. printed' \o que'[2] \o batch' \o que'[1] = pushed'
    <3>1. (p \o q) \o <<>> \o b \o r = p \o q \o b \o r
      BY Along
    <3> QED
      BY <1>0, <1>7, <2>1, <2>2, <3>1
  <2>5. \A k \in 1..2 : m_exit'[k] \/ Len(que'[k]) <= MaxSize
    BY <1>0, <2>1, <2>2, MaxSizeAssumption
  <2> QED
    BY <2>3, <2>4, <2>5 DEF InTransit, Pipe!InTransit
<1>6. ASSUME Pipe!Return \/ \E k \in 1..2 : Pipe!Exit(k)
      PROVE  PipeTypeOK' /\ InTransit'
  BY <1>6 DEF Pipe!Return, Pipe!Exit, PipeTypeOK, InTransit, Pipe!InTransit
<1> QED
  BY <1>1, <1>2, <1>3, <1>4, <1>5, <1>6 DEF Pipe!Next, Pipe!CalcStep

\* What is in the queues of main.cpp's pipeline is neither lost, doubled nor
\* reordered, and no queue outgrows max_size before exit(), for any number of
\* input threads, any max_size and any input.
THEOREM Pipeline == Spec => []InTransit
<1>1. Init => PipeTypeOK /\ InTransit
  BY PipeInit DEF Init
<1>2. PipeTypeOK /\ InTransit /\ [Next]_vars => (PipeTypeOK /\ InTransit)'
  <2> SUFFICES ASSUME PipeTypeOK, InTransit, [Next]_vars
               PROVE  PipeTypeOK' /\ InTransit'
    OBVIOUS
  <2>1. CASE PipelineNext
    BY <2>1, PipeNext DEF PipelineNext
  <2>2. CASE UNCHANGED pipeVars
    BY <2>2 DEF pipeVars, PipeTypeOK, InTransit, Pipe!InTransit
  <2> QED
    BY <2>1, <2>2
    DEF Next, vars, MpmcNext, LinkedNext, RingNext, ServiceNext, RwNext, WheelNext
<1> QED
  BY <1>1, <1>2, PTL DEF Spec

-----------------------------------------------------------------------------
(* The log service *)

ServiceTask ==
  [op : {"line"}, log : Nat, class : Nat \X Nat, line : Nat]
    \cup [op : {"level", "class", "file"}, log : Nat, on : BOOLEAN]

ServiceTypeOK ==
  /\ m_log \in Nat /\ starts \in Nat /\ lines \in Nat
  /\ sets \in Seq(BOOLEAN) /\ gone = {}
  /\ m_flag \in BOOLEAN /\ stopping \in BOOLEAN /\ deaf \in BOOLEAN
  /\ m_tasklist \in Seq(ServiceTask)
  /\ worker \in {"none", "consume", "asleep", "run", "exited"}
  /\ worker = "run" => task \in ServiceTask
  /\ found \in [Clients -> (Nat \X Nat) \cup {<<>>}]

\* A task on the current log_t, with a class name of it.
OnCurrent(x) ==
  x.log = m_log /\ (x.op = "line" => x.class[1] = m_log)

\* Everything that waits is on the current log_t until a task was queued for a
\* worker that had ended, which takes a second start().
ServiceInv ==
  /\ ServiceTypeOK
  /\ m_log # 0 => m_log = starts
  /\ deleted \subseteq 1..starts /\ m_log \notin deleted
  /\ m_log = 0 => worker \in {"none", "exited"}
  /\ worker = "none" => m_log = 0 /\ m_tasklist = <<>>
  /\ worker = "exited" => ~m_flag /\ (deaf \/ m_tasklist = <<>>)
  /\ stopping => m_log # 0 /\ ~m_flag
  /\ ~m_flag => starts > 0 /\ (stopping \/ m_log = 0 \/ starts > 1)
  /\ deaf => starts > 1
  /\ ~deaf => \A k \in 1..Len(m_tasklist) : OnCurrent(m_tasklist[k])
  /\ ~deaf /\ worker = "run" => OnCurrent(task)
  /\ \A c \in Clients : found[c] # <<>> => m_log # 0 /\ ~stopping /\ found[c][1] = m_log
  /\ checked # {} => m_log # 0 /\ ~stopping

\* A line that waits has not been logged, and waits in one task only.
Fresh(x) == x.op = "line" => x.line \in (1..lines) \ DOMAIN done
Differ(x, y) == x.op = "line" /\ y.op = "line" => x.line # y.line

LinesInv ==
  /\ DOMAIN done \subseteq 1..lines
  /\ \A k \in 1..Len(m_tasklist) : Fresh(m_tasklist[k])
  /\ \A j, k \in 1..Len(m_tasklist) : j # k => Differ(m_tasklist[j], m_tasklist[k])
  /\ worker = "run" =>
       Fresh(task) /\ \A k \in 1..Len(m_tasklist) : Differ(task, m_tasklist[k])

\* The file the log_t has open is one of its day, and one that has opened a
\* file finds no file of a later day.
FilesInv ==
  /\ day \in Nat \ {0} /\ last_day \in Nat /\ index \in Nat /\ last_day <= day
  /\ done \in [DOMAIN done -> Nat]
  /\ DOMAIN files \subseteq Nat \X Nat
  /\ files \in [DOMAIN files -> Seq(Nat)]
  /\ \A f \in DOMAIN files : f[1] \in 1..day
  /\ file # <<>> => file \in DOMAIN files /\ file[1] = last_day
  /\ index > 0 => \A f \in DOMAIN files : f[1] <= last_day
  /\ Service!OwnDay /\ Service!OnePlace /\ Service!KeptLines

LEMMA ServiceInit ==
  ASSUME Service!Init
  PROVE  ServiceInv /\ LinesInv /\ FilesInv
<1>1. ServiceTypeOK
  <2>1. m_flag \in BOOLEAN /\ stopping \in BOOLEAN /\ deaf \in BOOLEAN
    BY Zenon DEF Service!Init
  <2>2. sets \in Seq(BOOLEAN) /\ m_tasklist \in Seq(ServiceTask)
    BY DEF Service!Init
  <2> QED  BY <2>1, <2>2 DEF Service!Init, ServiceTypeOK
<1>2. ServiceInv  BY <1>1 DEF Service!Init, ServiceInv
<1>3. /\ DOMAIN files = {} /\ files \in [DOMAIN files -> Seq(Nat)]
      /\ DOMAIN done = {} /\ done \in [DOMAIN done -> Nat]
  BY DEF Service!Init
<1>4. Service!OwnDay /\ Service!OnePlace /\ Service!KeptLines
  BY <1>3 DEF Service!OwnDay, Service!OnePlace, Service!KeptLines
<1>5. LinesInv  BY <1>3 DEF Service!Init, LinesInv
<1> QED  BY <1>2, <1>3, <1>4, <1>5 DEF Service!Init, FilesInv, Service!NoFile

\* task_queue_t::produce, for a task on the current log_t.
LEMMA Producing ==
  ASSUME ServiceInv, NEW x \in ServiceTask, Service!Produce(x), OnCurrent(x),
         m_log # 0, ~stopping, NEW n \in Nat, lines' = n,
         found' \in [Clients -> (Nat \X Nat) \cup {<<>>}],
         \A c \in Clients : found'[c] # <<>> => found'[c] = found[c],
         UNCHANGED <<m_log, starts, deleted, sets, gone, checked, stopping>>
  PROVE  ServiceInv'
<1>1. /\ m_tasklist' = Append(m_tasklist, x)
      /\ worker' = IF worker = "asleep" /\ m_tasklist = <<>> THEN "consume" ELSE worker
      /\ deaf' = (deaf \/ worker = "exited")
      /\ m_flag' = m_flag /\ task' = task
  BY DEF Service!Produce
<1>2. m_tasklist \in Seq(ServiceTask)  BY DEF ServiceInv, ServiceTypeOK
<1>3. /\ m_tasklist' \in Seq(ServiceTask) /\ Len(m_tasklist) \in Nat
      /\ Len(m_tasklist') = Len(m_tasklist) + 1
      /\ \A k \in 1..Len(m_tasklist) : m_tasklist'[k] = m_tasklist[k]
      /\ m_tasklist'[Len(m_tasklist) + 1] = x
  BY <1>1, <1>2
<1>4. deaf' \in BOOLEAN  BY <1>1 DEF ServiceInv, ServiceTypeOK
<1>5. /\ worker' \in {"none", "consume", "asleep", "run", "exited"}
      /\ worker' = "run" <=> worker = "run"
      /\ worker' = "exited" <=> worker = "exited"
      /\ worker' = "none" <=> worker = "none"
  BY <1>1 DEF ServiceInv, ServiceTypeOK
<1>6. ServiceTypeOK'
  BY <1>1, <1>3, <1>4, <1>5 DEF ServiceInv, ServiceTypeOK
<1>7. worker # "none"  BY DEF ServiceInv
<1>8. deaf' => starts' > 1
  BY <1>1 DEF ServiceInv
<1>9. ASSUME ~deaf', NEW k \in 1..Len(m_tasklist')
      PROVE  OnCurrent(m_tasklist[k])'
  <2>1. k \in 1..Len(m_tasklist) \/ k = Len(m_tasklist) + 1  BY <1>3
  <2> QED  BY <1>1, <1>3, <1>9, <2>1 DEF ServiceInv, OnCurrent
<1>10. ~deaf' /\ worker' = "run" => OnCurrent(task)'
  BY <1>1, <1>5 DEF ServiceInv, OnCurrent
<1>11. worker' = "exited" => ~m_flag' /\ (deaf' \/ m_tasklist' = <<>>)
  BY <1>1, <1>5 DEF ServiceInv
<1>12. \A c \in Clients : found'[c] # <<>> => m_log' # 0 /\ ~stopping' /\ found'[c][1] = m_log'
  BY DEF ServiceInv
<1> QED
  BY <1>1, <1>5, <1>6, <1>7, <1>8, <1>9, <1>10, <1>11, <1>12 DEF ServiceInv

LEMMA ServiceSame ==
  ASSUME ServiceInv, UNCHANGED serviceVars
  PROVE  ServiceInv'
BY DEF serviceVars, ServiceInv, ServiceTypeOK, OnCurrent

LEMMA ServiceCalls ==
  ASSUME ServiceInv, Service!Start \/ Service!Stop \/ Service!StopReturns \/ Service!NewDay
  PROVE  ServiceInv'
<1>1. CASE Service!Start
  <2>1. /\ m_log = 0 /\ starts' = starts + 1 /\ m_log' = starts + 1 /\ sets' = <<TRUE>>
        /\ gone' = {} /\ worker' = "consume"
        /\ UNCHANGED <<deleted, m_flag, m_tasklist, task, deaf, checked, found, stopping, lines>>
    BY <1>1 DEF Service!Start, Service!statements
  <2>2. starts \in Nat /\ deleted \subseteq 1..starts
    BY DEF ServiceInv, ServiceTypeOK
  <2>3. ServiceTypeOK'
    <3>1. sets' \in Seq(BOOLEAN)  BY <2>1
    <3> QED  BY <2>1, <2>2, <3>1 DEF ServiceInv, ServiceTypeOK
  <2>4. deleted' \subseteq 1..starts' /\ m_log' \notin deleted'
    BY <2>1, <2>2
  <2>5. ~deaf => m_tasklist = <<>>  BY <2>1 DEF ServiceInv
  <2>6. ~deaf' => \A k \in 1..Len(m_tasklist') : OnCurrent(m_tasklist[k])'
    BY <2>1, <2>5
  <2> QED  BY <2>1, <2>2, <2>3, <2>4, <2>6 DEF ServiceInv
<1>2. CASE Service!Stop
  <2>1. /\ m_log # 0 /\ ~stopping /\ (\A c \in Clients : found[c] = <<>>) /\ checked = {}
        /\ stopping' = TRUE
        /\ m_flag' = FALSE
        /\ worker' = IF worker = "asleep" THEN "consume" ELSE worker
        /\ UNCHANGED <<m_log, starts, deleted, sets, gone, m_tasklist, task, deaf, checked,
                       found, lines>>
    BY <1>2 DEF Service!Stop, Service!logState, Service!statements
  <2>2. m_flag' \in BOOLEAN /\ stopping' \in BOOLEAN  BY <2>1, Zenon
  <2>3. ServiceTypeOK'
    BY <2>1, <2>2 DEF ServiceInv, ServiceTypeOK
  <2>4. starts > 0  BY <2>1 DEF ServiceInv, ServiceTypeOK
  <2> QED  BY <2>1, <2>3, <2>4 DEF ServiceInv, OnCurrent
<1>3. CASE Service!StopReturns
  <2>1. /\ stopping /\ worker = "exited" /\ deleted' = deleted \cup {m_log} /\ m_log' = 0
        /\ stopping' = FALSE
        /\ UNCHANGED <<starts, sets, gone, m_flag, m_tasklist, worker, task, deaf, checked,
                       found, lines>>
    BY <1>3 DEF Service!StopReturns, Service!queueState, Service!statements
  <2>2. stopping' \in BOOLEAN  BY <2>1, Zenon
  <2>3. ServiceTypeOK'
    BY <2>1, <2>2 DEF ServiceInv, ServiceTypeOK
  <2>4. m_log = starts /\ starts # 0 /\ starts \in Nat /\ deleted \subseteq 1..starts
    BY <2>1 DEF ServiceInv, ServiceTypeOK
  <2>5. 0 \notin deleted'
    BY <2>1, <2>4
  <2>6. deleted' \subseteq 1..starts'  BY <2>1, <2>4
  <2>7. ~deaf' => \A k \in 1..Len(m_tasklist') : OnCurrent(m_tasklist[k])'
    <3>1. ~deaf => m_tasklist = <<>>  BY <2>1 DEF ServiceInv
    <3> QED  BY <2>1, <3>1
  <2>8. checked' = {} /\ \A c \in Clients : found'[c] = <<>>  BY <2>1 DEF ServiceInv
  <2>9. ~m_flag' /\ starts' > 0 /\ (deaf' \/ m_tasklist' = <<>>) /\ (deaf' => starts' > 1)
    BY <2>1, <2>4 DEF ServiceInv
  <2> QED  BY <2>1, <2>3, <2>5, <2>6, <2>7, <2>8, <2>9 DEF ServiceInv
<1>4. CASE Service!NewDay
  BY <1>4 DEF Service!NewDay, Service!logState, Service!queueState, Service!statements, ServiceInv,
              ServiceTypeOK, OnCurrent
<1> QED  BY <1>1, <1>2, <1>3, <1>4

LEMMA ServiceLogs ==
  ASSUME ServiceInv, NEW c \in Clients,
         Service!CheckLevel(c) \/ Service!Find(c) \/ Service!Log(c)
  PROVE  ServiceInv'
<1>0. /\ m_log \in Nat /\ sets \in Seq(BOOLEAN) /\ lines \in Nat
      /\ found \in [Clients -> (Nat \X Nat) \cup {<<>>}]
  BY DEF ServiceInv, ServiceTypeOK
<1>1. CASE Service!Find(c)
  <2> DEFINE f == <<m_log, Len(sets)>>
  <2>1. /\ m_log # 0 /\ ~stopping
        /\ found' = found \/ found' = [found EXCEPT ![c] = f]
        /\ UNCHANGED <<m_log, starts, deleted, sets, gone, m_flag, m_tasklist, worker, task,
                       deaf, stopping, lines>>
    BY <1>1 DEF Service!Find, Service!logState, Service!queueState, ServiceInv
  <2>2. f \in Nat \X Nat /\ f[1] = m_log  BY <1>0
  <2> HIDE DEF f
  <2>3. ServiceTypeOK'
    BY <1>0, <2>1, <2>2 DEF ServiceInv, ServiceTypeOK
  <2>4. \A d \in Clients : found'[d] # <<>> => m_log' # 0 /\ ~stopping' /\ found'[d][1] = m_log'
    BY <1>0, <2>1, <2>2 DEF ServiceInv
  <2> QED  BY <2>1, <2>3, <2>4 DEF ServiceInv, OnCurrent
<1>3. CASE Service!CheckLevel(c)
  BY <1>3 DEF Service!CheckLevel, Service!logState, Service!queueState, ServiceInv, ServiceTypeOK,
              OnCurrent
<1>2. CASE Service!Log(c)
  <2> DEFINE x == [op |-> "line", log |-> m_log, class |-> found[c], line |-> lines + 1]
  <2>1. /\ found[c] # <<>> /\ lines' = lines + 1 /\ Service!Produce(x)
        /\ found' = [found EXCEPT ![c] = <<>>]
        /\ UNCHANGED <<m_log, starts, deleted, sets, gone, checked, stopping>>
    BY <1>2 DEF Service!Log, Service!logState
  <2>2. found[c] \in Nat \X Nat /\ m_log # 0 /\ ~stopping /\ found[c][1] = m_log
    BY <1>0, <2>1 DEF ServiceInv
  <2>3. x \in ServiceTask /\ OnCurrent(x)
    BY <1>0, <2>2 DEF ServiceTask, OnCurrent
  <2> HIDE DEF x
  <2>4. /\ found' \in [Clients -> (Nat \X Nat) \cup {<<>>}]
        /\ \A d \in Clients : found'[d] # <<>> => found'[d] = found[d]
    BY <1>0, <2>1
  <2>5. lines + 1 \in Nat  BY <1>0
  <2> QED  BY <2>1, <2>2, <2>3, <2>4, <2>5, Producing
<1> QED  BY <1>1, <1>2, <1>3

LEMMA ServiceMods ==
  ASSUME ServiceInv, NEW op \in {"level", "class", "file"}, NEW on \in BOOLEAN, Service!Mod(op, on)
  PROVE  ServiceInv'
<1> DEFINE x == [op |-> op, log |-> m_log, on |-> on]
<1>1. /\ m_log # 0 /\ ~stopping /\ Service!Produce(x)
      /\ UNCHANGED <<m_log, starts, deleted, sets, gone, checked, found, stopping, lines>>
  BY DEF Service!Mod, Service!logState, Service!statements
<1>2. m_log \in Nat /\ lines \in Nat /\ found \in [Clients -> (Nat \X Nat) \cup {<<>>}]
  BY DEF ServiceInv, ServiceTypeOK
<1>3. x \in ServiceTask  BY <1>2 DEF ServiceTask
<1>4. OnCurrent(x)  BY DEF OnCurrent
<1> HIDE DEF x
<1> QED  BY <1>1, <1>2, <1>3, <1>4, Producing

LEMMA ServiceWorks ==
  ASSUME ServiceInv, Service!Worker
  PROVE  ServiceInv'
<1>1. CASE Service!Consume
  <2>1. /\ worker = "consume"
        /\ IF m_tasklist # <<>>
           THEN worker' = "run" /\ task' = Head(m_tasklist) /\ m_tasklist' = Tail(m_tasklist)
           ELSE worker' = (IF m_flag THEN "asleep" ELSE "exited") /\ task' = task
                /\ m_tasklist' = m_tasklist
        /\ UNCHANGED <<m_log, starts, deleted, sets, gone, m_flag, deaf, checked, found,
                       stopping, lines>>
    BY <1>1 DEF Service!Consume, Service!logState, Service!statements
  <2>2. m_tasklist \in Seq(ServiceTask) /\ m_log # 0
    BY <2>1 DEF ServiceInv, ServiceTypeOK
  <2>3. CASE m_tasklist # <<>>
    <3>1. /\ worker' = "run" /\ task' = m_tasklist[1] /\ m_tasklist' = Tail(m_tasklist)
          /\ task' \in ServiceTask /\ m_tasklist' \in Seq(ServiceTask)
          /\ Len(m_tasklist) \in Nat /\ Len(m_tasklist') = Len(m_tasklist) - 1
          /\ 1 \in 1..Len(m_tasklist)
          /\ \A k \in 1..Len(m_tasklist') : m_tasklist'[k] = m_tasklist[k + 1]
      BY <2>1, <2>2, <2>3
    <3>2. \A k \in 1..Len(m_tasklist') : k + 1 \in 1..Len(m_tasklist)  BY <3>1
    <3>3. ServiceTypeOK'  BY <2>1, <3>1 DEF ServiceInv, ServiceTypeOK
    <3>4. ~deaf' => \A k \in 1..Len(m_tasklist') : OnCurrent(m_tasklist[k])'
      BY <2>1, <3>1, <3>2 DEF ServiceInv, OnCurrent
    <3>5. ~deaf' => OnCurrent(task)'
      BY <2>1, <3>1 DEF ServiceInv, OnCurrent
    <3> QED  BY <2>1, <2>2, <3>1, <3>3, <3>4, <3>5 DEF ServiceInv
  <2>4. CASE m_tasklist = <<>>
    <3>1. worker' = (IF m_flag THEN "asleep" ELSE "exited") /\ task' = task
          /\ m_tasklist' = m_tasklist
      BY <2>1, <2>4
    <3>2. ServiceTypeOK'  BY <2>1, <3>1 DEF ServiceInv, ServiceTypeOK
    <3> QED  BY <2>1, <2>2, <2>4, <3>1, <3>2 DEF ServiceInv, OnCurrent
  <2> QED  BY <2>3, <2>4
<1>2. CASE Service!Run
  <2>1. /\ worker = "run" /\ worker' = "consume"
        /\ UNCHANGED <<m_log, starts, deleted, m_flag, m_tasklist, checked, found, stopping,
                       lines, deaf>>
        /\ Service!RunLevel \/ Service!RunClass \/ Service!RunPrintFile \/ Service!RunLine
    BY <1>2 DEF Service!Run, Service!statements
  <2>2. gone' = gone /\ (sets' = sets \/ (task.op = "class" /\ sets' = Append(sets, task.on)))
    BY <2>1 DEF Service!RunLevel, Service!RunClass, Service!RunPrintFile, Service!RunLine
  <2>3. sets' \in Seq(BOOLEAN)
    <3>1. sets \in Seq(BOOLEAN) /\ task \in ServiceTask
      BY <2>1 DEF ServiceInv, ServiceTypeOK
    <3>2. task.op = "class" => task.on \in BOOLEAN  BY <3>1 DEF ServiceTask
    <3> QED  BY <2>2, <3>1, <3>2
  <2>4. ServiceTypeOK'  BY <2>1, <2>2, <2>3 DEF ServiceInv, ServiceTypeOK
  <2> QED  BY <2>1, <2>4 DEF ServiceInv, OnCurrent
<1> QED  BY <1>1, <1>2 DEF Service!Worker

LEMMA ServiceStep ==
  ASSUME ServiceInv, Service!Next
  PROVE  ServiceInv'
BY ServiceCalls, ServiceLogs, ServiceMods, ServiceWorks DEF Service!Next

\* A task of base/log.cpp runs on a log_t that is there and with a class name
\* that is there, until a second start(), for any clients, changes and starts.
THEOREM LogTasksLive == Spec => []TasksLive
<1>1. Init => ServiceInv
  BY ServiceInit DEF Init
<1>2. ServiceInv /\ [Next]_vars => ServiceInv'
  <2> SUFFICES ASSUME ServiceInv, [Next]_vars PROVE ServiceInv'
    OBVIOUS
  <2>1. CASE ServiceNext  BY <2>1, ServiceStep DEF ServiceNext
  <2>2. CASE UNCHANGED serviceVars  BY <2>2, ServiceSame
  <2> QED
    BY <2>1, <2>2 DEF Next, vars, MpmcNext, LinkedNext, RingNext, PipelineNext, RwNext, WheelNext
<1>3. ServiceInv => TasksLive
  BY DEF ServiceInv, ServiceTypeOK, OnCurrent, TasksLive, Service!TasksLive
<1> QED  BY <1>1, <1>2, <1>3, PTL DEF Spec

\* A set of naturals that is not empty has a least member.
LEMMA LeastOf ==
  ASSUME NEW S \in SUBSET Nat, S # {}
  PROVE  \E m \in S : \A k \in S : m <= k
<1>1. PICK m \in S : \A k \in S : ~(<<k, m>> \in OpToRel(<, Nat))
  BY WFMin, NatLessThanWellFounded
<1>2. ASSUME NEW k \in S PROVE m <= k
  <2>1. ~(k < m)  BY <1>1 DEF OpToRel
  <2> QED  BY <2>1
<1> QED  BY <1>2

\* check_and_create_dir's loop over the names ends.
LEMMA NameFound ==
  ASSUME index \in Nat
  PROVE  /\ Service!FileIndex \in (index + 1)..(index + MaxTry)
         /\ ~Service!Taken(Service!FileIndex)
         /\ \A j \in (index + 1)..(Service!FileIndex - 1) : Service!Taken(j)
<1> DEFINE R == (index + 1)..(index + MaxTry)
           S == {k \in R : ~Service!Taken(k)}
<1>1. MaxTry \in Nat /\ MaxTry > 0  BY MaxTryAssumption
<1>2. index + MaxTry \in S
  <2>1. index + MaxTry \in R /\ ~(index + MaxTry < index + MaxTry)  BY <1>1
  <2> QED  BY <2>1 DEF Service!Taken
<1>3. S \in SUBSET Nat /\ S # {}  BY <1>1, <1>2
<1> HIDE DEF S
<1>4. PICK m \in S : \A k \in S : m <= k  BY <1>3, LeastOf
<1>5. m \in R /\ ~Service!Taken(m)  BY DEF S
<1>6. \A j \in (index + 1)..(m - 1) : Service!Taken(j)
  <2> TAKE j \in (index + 1)..(m - 1)
  <2>1. j \in R /\ ~(m <= j)  BY <1>1, <1>5
  <2>2. j \notin S  BY <1>4, <2>1
  <2> QED  BY <2>1, <2>2 DEF S
<1>7. \E k \in R : ~Service!Taken(k) /\ \A j \in (index + 1)..(k - 1) : Service!Taken(j)
  BY <1>5, <1>6
<1> QED  BY <1>7 DEF Service!FileIndex

\* A step that leaves the tasks and what was logged alone.
LEMMA LinesSame ==
  ASSUME LinesInv, UNCHANGED <<m_tasklist, task, lines, done>>, worker' = "run" => worker = "run"
  PROVE  LinesInv'
BY DEF LinesInv, Fresh, Differ

\* A task is queued; if it has a line, it is the next one.
LEMMA LinesQueued ==
  ASSUME ServiceInv, LinesInv, NEW x \in ServiceTask, Service!Produce(x), done' = done,
         lines' \in Nat, lines <= lines',
         x.op = "line" => lines' = lines + 1 /\ x.line = lines + 1
  PROVE  LinesInv'
<1>1. /\ m_tasklist' = Append(m_tasklist, x) /\ task' = task
      /\ worker' = "run" => worker = "run"
  BY DEF Service!Produce
<1>2. m_tasklist \in Seq(ServiceTask) /\ lines \in Nat  BY DEF ServiceInv, ServiceTypeOK
<1>3. /\ Len(m_tasklist) \in Nat /\ Len(m_tasklist') = Len(m_tasklist) + 1
      /\ \A k \in 1..Len(m_tasklist) : m_tasklist'[k] = m_tasklist[k]
      /\ m_tasklist'[Len(m_tasklist) + 1] = x
  BY <1>1, <1>2
<1>4. /\ \A l \in 1..lines : l \in 1..lines' /\ (x.op = "line" => l # x.line)
      /\ x.op = "line" => x.line \in 1..lines'
  BY <1>2
<1>5. \A k \in 1..Len(m_tasklist') : k \in 1..Len(m_tasklist) \/ k = Len(m_tasklist) + 1
  BY <1>3
<1>6. ASSUME NEW y, Fresh(y) PROVE Fresh(y)' /\ Differ(y, x) /\ Differ(x, y)
  BY <1>4, <1>6 DEF Fresh, Differ
<1>7. Fresh(x)'  BY <1>4 DEF Fresh, LinesInv
<1>8. \A k \in 1..Len(m_tasklist') : Fresh(m_tasklist[k])'
  BY <1>3, <1>5, <1>6, <1>7 DEF LinesInv
<1>9. \A j, k \in 1..Len(m_tasklist') : j # k => Differ(m_tasklist'[j], m_tasklist'[k])
  BY <1>3, <1>5, <1>6 DEF LinesInv
<1>10. worker = "run" =>
         Fresh(task)' /\ \A k \in 1..Len(m_tasklist') : Differ(task, m_tasklist'[k])
  BY <1>1, <1>3, <1>5, <1>6 DEF LinesInv
<1>11. DOMAIN done' \subseteq 1..lines'  BY <1>4 DEF LinesInv
<1> QED  BY <1>1, <1>8, <1>9, <1>10, <1>11 DEF LinesInv, Fresh, Differ

\* The worker takes a task from the list, and logs the line of its task.
LEMMA LinesTaken ==
  ASSUME ServiceInv, LinesInv, Service!Consume
  PROVE  LinesInv'
<1>1. /\ IF m_tasklist # <<>>
         THEN worker' = "run" /\ task' = Head(m_tasklist) /\ m_tasklist' = Tail(m_tasklist)
         ELSE worker' # "run" /\ task' = task /\ m_tasklist' = m_tasklist
      /\ UNCHANGED <<lines, done>>
  BY DEF Service!Consume, Service!fileState
<1>2. m_tasklist \in Seq(ServiceTask)  BY DEF ServiceInv, ServiceTypeOK
<1>3. CASE m_tasklist # <<>>
  <2>1. /\ task' = m_tasklist[1] /\ Len(m_tasklist) \in Nat /\ 1 \in 1..Len(m_tasklist)
        /\ Len(m_tasklist') = Len(m_tasklist) - 1
        /\ \A k \in 1..Len(m_tasklist') : m_tasklist'[k] = m_tasklist[k + 1]
    BY <1>1, <1>2, <1>3
  <2>2. \A k \in 1..Len(m_tasklist') : k \in Int /\ k + 1 \in 1..Len(m_tasklist) /\ k + 1 # 1
    BY <2>1
  <2>3. \A j, k \in 1..Len(m_tasklist') : j # k => j + 1 # k + 1  BY <2>2
  <2>4. \A k \in 1..Len(m_tasklist') : Fresh(m_tasklist[k])'
    BY <1>1, <2>1, <2>2 DEF LinesInv, Fresh
  <2>5. \A j, k \in 1..Len(m_tasklist') : j # k => Differ(m_tasklist'[j], m_tasklist'[k])
    BY <2>1, <2>2, <2>3 DEF LinesInv
  <2>6. Fresh(task)'  BY <1>1, <2>1 DEF LinesInv, Fresh
  <2>7. \A k \in 1..Len(m_tasklist') : Differ(task', m_tasklist'[k])
    BY <2>1, <2>2 DEF LinesInv
  <2> QED  BY <1>1, <2>4, <2>5, <2>6, <2>7 DEF LinesInv, Differ
<1>4. CASE m_tasklist = <<>>
  BY <1>1, <1>4 DEF LinesInv, Fresh, Differ
<1> QED  BY <1>3, <1>4

LEMMA LinesRun ==
  ASSUME LinesInv, Service!Run
  PROVE  LinesInv'
<1>1. worker = "run" /\ worker' = "consume" /\ UNCHANGED <<m_tasklist, lines>>
  BY DEF Service!Run
<1>2. DOMAIN done' = DOMAIN done \/ (task.op = "line" /\ DOMAIN done' = DOMAIN done \cup {task.line})
  BY DEF Service!Run, Service!RunLevel, Service!RunClass, Service!RunPrintFile, Service!RunLine,
         Service!Logged, Service!fileState
<1> QED  BY <1>1, <1>2 DEF LinesInv, Fresh, Differ

LEMMA LinesStep ==
  ASSUME ServiceInv, LinesInv, Service!Next
  PROVE  LinesInv'
<1>0. lines \in Nat /\ m_log \in Nat /\ lines <= lines /\ lines + 1 \in Nat /\ lines <= lines + 1
  BY DEF ServiceInv, ServiceTypeOK
<1>1. CASE Service!Start \/ Service!Stop \/ Service!StopReturns \/ Service!NewDay
  BY <1>1, LinesSame
     DEF Service!Start, Service!Stop, Service!StopReturns, Service!NewDay, Service!fileState,
         Service!queueState
<1>2. ASSUME NEW c \in Clients, Service!CheckLevel(c) \/ Service!Find(c) PROVE LinesInv'
  BY <1>2, LinesSame DEF Service!CheckLevel, Service!Find, Service!fileState, Service!queueState
<1>3. ASSUME NEW c \in Clients, Service!Log(c) PROVE LinesInv'
  <2> DEFINE x == [op |-> "line", log |-> m_log, class |-> found[c], line |-> lines + 1]
  <2>1. found[c] \in Nat \X Nat  BY <1>3 DEF Service!Log, ServiceInv, ServiceTypeOK
  <2>2. x \in ServiceTask /\ x.line = lines + 1  BY <1>0, <2>1 DEF ServiceTask
  <2>3. Service!Produce(x) /\ lines' = lines + 1 /\ done' = done
    BY <1>3 DEF Service!Log, Service!fileState
  <2> HIDE DEF x
  <2> QED  BY <1>0, <2>2, <2>3, LinesQueued
<1>4. ASSUME NEW op \in {"level", "class", "file"}, NEW on \in BOOLEAN, Service!Mod(op, on)
      PROVE  LinesInv'
  <2> DEFINE x == [op |-> op, log |-> m_log, on |-> on]
  <2>1. x \in ServiceTask  BY <1>0 DEF ServiceTask
  <2>2. x.op # "line"  OBVIOUS
  <2>3. Service!Produce(x) /\ lines' = lines /\ done' = done
    BY <1>4 DEF Service!Mod, Service!fileState
  <2> HIDE DEF x
  <2> QED  BY <1>0, <2>1, <2>2, <2>3, LinesQueued
<1> QED  BY <1>1, <1>2, <1>3, <1>4, LinesTaken, LinesRun DEF Service!Next, Service!Worker

\* The files are the same and no line was written.
LEMMA FiledSame ==
  ASSUME FilesInv, files' = files, DOMAIN done \subseteq DOMAIN done',
         \A m \in DOMAIN done : done'[m] = done[m],
         \A m \in DOMAIN done' \ DOMAIN done : done'[m] = 0
  PROVE  (Service!OwnDay /\ Service!OnePlace /\ Service!KeptLines)'
<1>1. Service!OwnDay /\ Service!OnePlace /\ Service!KeptLines  BY DEF FilesInv
<1>2. Service!OwnDay'  BY <1>1 DEF Service!OwnDay
<1>3. Service!OnePlace'  BY <1>1 DEF Service!OnePlace
<1>4. \A m : Service!Filed(m)' <=> Service!Filed(m)  BY DEF Service!Filed
<1>5. \A m \in DOMAIN done : Service!NamesUsed(done[m])' <=> Service!NamesUsed(done[m])
  BY DEF Service!NamesUsed
<1>6. Service!KeptLines'  BY <1>1, <1>4, <1>5 DEF Service!KeptLines
<1> QED  BY <1>2, <1>3, <1>6

LEMMA FilesSame ==
  ASSUME FilesInv, UNCHANGED <<last_day, file, index, files, done>>,
         day' \in Nat, day <= day'
  PROVE  FilesInv'
<1>1. day \in Nat \ {0} /\ last_day \in Nat /\ last_day <= day  BY DEF FilesInv
<1>2. day' \in Nat \ {0} /\ last_day' <= day' /\ \A d \in 1..day : d \in 1..day'
  BY <1>1
<1>3. (Service!OwnDay /\ Service!OnePlace /\ Service!KeptLines)'
  BY FiledSame
<1>4. \A f \in DOMAIN files' : f[1] \in 1..day'
  BY <1>2 DEF FilesInv
<1> QED  BY <1>2, <1>3, <1>4 DEF FilesInv

\* What Logged says of a line that was not logged before.
LEMMA LoggedIs ==
  ASSUME FilesInv, NEW l \in Nat, l \notin DOMAIN done, NEW d \in Nat,
         done' = [m \in DOMAIN done \cup {l} |-> IF m = l THEN d ELSE done[m]]
  PROVE  /\ DOMAIN done' = DOMAIN done \cup {l} /\ done' \in [DOMAIN done' -> Nat]
         /\ done'[l] = d /\ \A m \in DOMAIN done : done'[m] = done[m]
         /\ \A f \in DOMAIN files : \A i \in 1..Len(files[f]) : files[f][i] # l
BY DEF FilesInv, Service!OwnDay

\* A line is not written; the log_t may have taken the day for its own.
LEMMA LineLost ==
  ASSUME FilesInv, NEW l \in Nat, l \notin DOMAIN done,
         done' = [m \in DOMAIN done \cup {l} |-> IF m = l THEN 0 ELSE done[m]],
         files' = files, day' = day,
         \/ last_day' = last_day /\ file' = file /\ index' = index
         \/ last_day' = day /\ file' = <<>> /\ index' \in Nat
  PROVE  FilesInv'
<1>0. 0 \in Nat  OBVIOUS
<1>1. /\ DOMAIN done' = DOMAIN done \cup {l} /\ done' \in [DOMAIN done' -> Nat]
      /\ done'[l] = 0 /\ \A m \in DOMAIN done : done'[m] = done[m]
  BY <1>0, LoggedIs
<1>2. (Service!OwnDay /\ Service!OnePlace /\ Service!KeptLines)'
  BY <1>1, FiledSame
<1>3. day \in Nat \ {0} /\ last_day \in Nat /\ last_day <= day
      /\ \A f \in DOMAIN files : f[1] \in 1..day
  BY DEF FilesInv
<1>4. CASE last_day' = last_day /\ file' = file /\ index' = index
  BY <1>1, <1>2, <1>4 DEF FilesInv
<1>5. CASE last_day' = day /\ file' = <<>> /\ index' \in Nat
  <2>1. \A f \in DOMAIN files : f[1] <= day  BY <1>3
  <2> QED  BY <1>1, <1>2, <1>3, <1>5, <2>1 DEF FilesInv
<1> QED  BY <1>4, <1>5

\* A line goes into the open file.
LEMMA LineKept ==
  ASSUME FilesInv, NEW l \in Nat, l \notin DOMAIN done, file # <<>>, last_day = day,
         done' = [m \in DOMAIN done \cup {l} |-> IF m = l THEN day ELSE done[m]],
         files' = [files EXCEPT ![file] = Append(@, l)],
         UNCHANGED <<last_day, file, index, day>>
  PROVE  FilesInv'
<1>1. /\ day \in Nat \ {0} /\ file \in DOMAIN files /\ file[1] = day
      /\ files \in [DOMAIN files -> Seq(Nat)]
  BY DEF FilesInv
<1>2. /\ DOMAIN done' = DOMAIN done \cup {l} /\ done' \in [DOMAIN done' -> Nat]
      /\ done'[l] = day /\ \A m \in DOMAIN done : done'[m] = done[m]
      /\ \A f \in DOMAIN files : \A i \in 1..Len(files[f]) : files[f][i] # l
  BY <1>1, LoggedIs
<1>3. /\ DOMAIN files' = DOMAIN files
      /\ files' \in [DOMAIN files -> Seq(Nat)]
      /\ files'[file] = Append(files[file], l)
      /\ \A f \in DOMAIN files \ {file} : files'[f] = files[f]
  <2>1. files[file] \in Seq(Nat) /\ Append(files[file], l) \in Seq(Nat)
    BY <1>1
  <2>2. files' = [files EXCEPT ![file] = Append(files[file], l)]  OBVIOUS
  <2> QED  BY <1>1, <2>1, <2>2
<1> DEFINE n == Len(files[file])
<1>4. /\ n \in Nat /\ Len(files'[file]) = n + 1
      /\ \A i \in 1..n : files'[file][i] = files[file][i]
      /\ files'[file][n + 1] = l
  <2>1. files[file] \in Seq(Nat)  BY <1>1
  <2> QED  BY <1>3, <2>1
<1> HIDE DEF n
\* An entry is an old one, or the new one at the end of the open file.
<1>5. ASSUME NEW f \in DOMAIN files', NEW i \in 1..Len(files'[f])
      PROVE  /\ f \in DOMAIN files
             /\ \/ f = file /\ i = n + 1 /\ files'[f][i] = l
                \/ i \in 1..Len(files[f]) /\ files'[f][i] = files[f][i]
  <2>1. f \in DOMAIN files  BY <1>3
  <2>2. CASE f # file  BY <1>3, <2>1, <2>2
  <2>3. CASE f = file
    <3>1. i \in 1..n \/ i = n + 1  BY <1>4, <2>3
    <3> QED  BY <1>4, <2>1, <2>3, <3>1 DEF n
  <2> QED  BY <2>1, <2>2, <2>3
<1>6. ASSUME NEW f \in DOMAIN files, NEW i \in 1..Len(files[f])
      PROVE  i \in 1..Len(files'[f]) /\ files'[f][i] = files[f][i]
  <2>1. CASE f # file  BY <1>3, <2>1
  <2>2. CASE f = file
    <3>1. i \in 1..n  BY <2>2 DEF n
    <3>2. i \in 1..(n + 1)  BY <1>4, <3>1
    <3> QED  BY <1>4, <2>2, <3>1, <3>2
  <2> QED  BY <2>1, <2>2
<1>7. Service!OwnDay'
  <2> SUFFICES ASSUME NEW f \in DOMAIN files', NEW i \in 1..Len(files'[f])
               PROVE  files'[f][i] \in DOMAIN done' /\ done'[files'[f][i]] = f[1]
    BY DEF Service!OwnDay
  <2>1. CASE f = file /\ files'[f][i] = l  BY <1>1, <1>2, <2>1
  <2>2. CASE i \in 1..Len(files[f]) /\ files'[f][i] = files[f][i]
    <3>1. f \in DOMAIN files  BY <1>3
    <3>2. files[f][i] \in DOMAIN done /\ done[files[f][i]] = f[1]
      BY <2>2, <3>1 DEF FilesInv, Service!OwnDay
    <3> QED  BY <1>2, <2>2, <3>2
  <2> QED  BY <1>5, <2>1, <2>2
<1>8. Service!OnePlace'
  <2> SUFFICES ASSUME NEW f \in DOMAIN files', NEW g \in DOMAIN files',
                      NEW i \in 1..Len(files'[f]), NEW j \in 1..Len(files'[g]),
                      files'[f][i] = files'[g][j]
               PROVE  f = g /\ i = j
    BY DEF Service!OnePlace
  <2>1. f \in DOMAIN files /\ g \in DOMAIN files  BY <1>3
  <2>2. CASE files'[f][i] = l
    <3>1. f = file /\ i = n + 1  BY <1>2, <1>5, <2>1, <2>2
    <3>2. g = file /\ j = n + 1  BY <1>2, <1>5, <2>1, <2>2
    <3> QED  BY <3>1, <3>2
  <2>3. CASE files'[f][i] # l
    <3>1. i \in 1..Len(files[f]) /\ files'[f][i] = files[f][i]  BY <1>5, <2>3
    <3>2. j \in 1..Len(files[g]) /\ files'[g][j] = files[g][j]  BY <1>5, <2>3
    <3>3. Service!OnePlace /\ files[f][i] = files[g][j]  BY <3>1, <3>2 DEF FilesInv
    <3> QED  BY <2>1, <3>1, <3>2, <3>3 DEF Service!OnePlace
  <2> QED  BY <2>2, <2>3
<1>9. Service!KeptLines'
  <2> SUFFICES ASSUME NEW m \in DOMAIN done', done'[m] # 0
               PROVE  (Service!Filed(m) \/ Service!NamesUsed(done[m]))'
    BY DEF Service!KeptLines
  <2>1. CASE m = l
    <3>1. file \in DOMAIN files' /\ n + 1 \in 1..Len(files'[file]) /\ files'[file][n + 1] = m
      BY <1>1, <1>3, <1>4, <2>1
    <3> QED  BY <3>1 DEF Service!Filed
  <2>2. CASE m \in DOMAIN done
    <3>1. done[m] # 0 /\ done'[m] = done[m]  BY <1>2, <2>2
    <3>2. Service!Filed(m) \/ Service!NamesUsed(done[m])
      BY <2>2, <3>1 DEF FilesInv, Service!KeptLines
    <3>3. CASE Service!Filed(m)
      <4>1. PICK f \in DOMAIN files : \E i \in 1..Len(files[f]) : files[f][i] = m
        BY <3>3 DEF Service!Filed
      <4>2. PICK i \in 1..Len(files[f]) : files[f][i] = m  BY <4>1
      <4>3. f \in DOMAIN files' /\ i \in 1..Len(files'[f]) /\ files'[f][i] = m
        BY <1>3, <1>6, <4>2
      <4> QED  BY <4>3 DEF Service!Filed
    <3>4. CASE Service!NamesUsed(done[m])
      BY <1>3, <3>1, <3>4 DEF Service!NamesUsed
    <3> QED  BY <3>2, <3>3, <3>4
  <2> QED  BY <1>2, <2>1, <2>2
<1> QED  BY <1>2, <1>3, <1>7, <1>8, <1>9 DEF FilesInv

\* A file of the new day is opened: over none, unless the day's names ran out.
LEMMA LineOpens ==
  ASSUME FilesInv, NEW l \in Nat, l \notin DOMAIN done, last_day # day,
         done' = [m \in DOMAIN done \cup {l} |-> IF m = l THEN day ELSE done[m]],
         NEW f, f = <<day, Service!FileIndex>>, file' = f,
         files' = [g \in DOMAIN files \cup {f} |-> IF g = f THEN <<l>> ELSE files[g]],
         index' = Service!FileIndex, last_day' = day, day' = day
  PROVE  FilesInv'
<1> DEFINE k == Service!FileIndex
           s == <<l>>
<1>1. /\ day \in Nat \ {0} /\ last_day \in Nat /\ last_day <= day /\ index \in Nat
      /\ DOMAIN files \subseteq Nat \X Nat
      /\ files \in [DOMAIN files -> Seq(Nat)]
      /\ \A g \in DOMAIN files : g[1] \in 1..day
      /\ index > 0 => \A g \in DOMAIN files : g[1] <= last_day
  BY DEF FilesInv
<1>2. /\ k \in (index + 1)..(index + MaxTry) /\ ~Service!Taken(k)
      /\ \A j \in (index + 1)..(k - 1) : Service!Taken(j)
  BY <1>1, NameFound
<1> HIDE DEF k
<1>3. MaxTry \in Nat /\ k \in Nat /\ k > 0  BY <1>1, <1>2, MaxTryAssumption
<1>4. f \in Nat \X Nat /\ f[1] = day  BY <1>1, <1>3 DEF k
<1>5. s \in Seq(Nat) /\ Len(s) = 1 /\ s[1] = l
  OBVIOUS
<1>6. /\ DOMAIN files' = DOMAIN files \cup {f}
      /\ files'[f] = s
      /\ \A g \in DOMAIN files \ {f} : files'[g] = files[g]
      /\ files' \in [DOMAIN files \cup {f} -> Seq(Nat)]
  <2> HIDE DEF s
  <2>1. files' = [g \in DOMAIN files \cup {f} |-> IF g = f THEN s ELSE files[g]]  BY DEF s
  <2> QED  BY <1>1, <1>5, <2>1
<1> HIDE DEF s
<1>7. /\ DOMAIN done' = DOMAIN done \cup {l} /\ done' \in [DOMAIN done' -> Nat]
      /\ done'[l] = day /\ \A m \in DOMAIN done : done'[m] = done[m]
      /\ \A g \in DOMAIN files : \A i \in 1..Len(files[g]) : files[g][i] # l
  <2>1. day \in Nat  BY <1>1
  <2> QED  BY <2>1, LoggedIs
\* An entry is the new one, or an old one of another file.
<1>8. ASSUME NEW g \in DOMAIN files', NEW i \in 1..Len(files'[g])
      PROVE  \/ g = f /\ i = 1 /\ files'[g][i] = l
             \/ /\ g # f /\ g \in DOMAIN files /\ i \in 1..Len(files[g])
                /\ files'[g][i] = files[g][i]
  <2>1. CASE g = f
    <3>1. i = 1  BY <1>5, <1>6, <2>1
    <3> QED  BY <1>5, <1>6, <2>1, <3>1
  <2>2. CASE g # f  BY <1>6, <2>2
  <2> QED  BY <2>1, <2>2
<1>9. ASSUME f \in DOMAIN files
      PROVE  \A j \in 1..MaxTry : <<day, j>> \in DOMAIN files
  <2>1. index = 0
    <3>1. ~(f[1] <= last_day)  BY <1>1, <1>4
    <3> QED  BY <1>1, <1>9, <3>1
  <2>2. Service!Exists(k)  BY <1>9 DEF Service!Exists, k
  <2>3. ~(k < index + MaxTry)  BY <1>2, <2>2 DEF Service!Taken
  <2>4. k = MaxTry  BY <1>2, <1>3, <2>1, <2>3
  <2> TAKE j \in 1..MaxTry
  <2>5. j \in (index + 1)..(k - 1) \/ j = k  BY <1>3, <2>1, <2>4
  <2>6. Service!Exists(j)  BY <1>2, <2>2, <2>5 DEF Service!Taken
  <2> QED  BY <2>6 DEF Service!Exists
<1>10. Service!OwnDay'
  <2> SUFFICES ASSUME NEW g \in DOMAIN files', NEW i \in 1..Len(files'[g])
               PROVE  files'[g][i] \in DOMAIN done' /\ done'[files'[g][i]] = g[1]
    BY DEF Service!OwnDay
  <2>1. CASE g = f /\ files'[g][i] = l  BY <1>4, <1>7, <2>1
  <2>2. CASE g \in DOMAIN files /\ i \in 1..Len(files[g]) /\ files'[g][i] = files[g][i]
    <3>1. files[g][i] \in DOMAIN done /\ done[files[g][i]] = g[1]
      BY <2>2 DEF FilesInv, Service!OwnDay
    <3> QED  BY <1>7, <2>2, <3>1
  <2> QED  BY <1>8, <2>1, <2>2
<1>11. Service!OnePlace'
  <2> SUFFICES ASSUME NEW g \in DOMAIN files', NEW h \in DOMAIN files',
                      NEW i \in 1..Len(files'[g]), NEW j \in 1..Len(files'[h]),
                      files'[g][i] = files'[h][j]
               PROVE  g = h /\ i = j
    BY DEF Service!OnePlace
  <2>1. CASE files'[g][i] = l
    <3>1. g = f /\ i = 1  BY <1>7, <1>8, <2>1
    <3>2. h = f /\ j = 1  BY <1>7, <1>8, <2>1
    <3> QED  BY <3>1, <3>2
  <2>2. CASE files'[g][i] # l
    <3>1. g \in DOMAIN files /\ i \in 1..Len(files[g]) /\ files'[g][i] = files[g][i]
      BY <1>8, <2>2
    <3>2. h \in DOMAIN files /\ j \in 1..Len(files[h]) /\ files'[h][j] = files[h][j]
      BY <1>8, <2>2
    <3>3. Service!OnePlace /\ files[g][i] = files[h][j]  BY <3>1, <3>2 DEF FilesInv
    <3> QED  BY <3>1, <3>2, <3>3 DEF Service!OnePlace
  <2> QED  BY <2>1, <2>2
\* A line that was overwritten was one of this day, whose names are all used.
<1>12. Service!KeptLines'
  <2> SUFFICES ASSUME NEW m \in DOMAIN done', done'[m] # 0
               PROVE  (Service!Filed(m) \/ Service!NamesUsed(done[m]))'
    BY DEF Service!KeptLines
  <2>1. CASE m = l
    <3>1. f \in DOMAIN files' /\ 1 \in 1..Len(files'[f]) /\ files'[f][1] = m
      BY <1>5, <1>6, <2>1
    <3> QED  BY <3>1 DEF Service!Filed
  <2>2. CASE m \in DOMAIN done
    <3>1. done[m] # 0 /\ done'[m] = done[m]  BY <1>7, <2>2
    <3>2. Service!Filed(m) \/ Service!NamesUsed(done[m])
      BY <2>2, <3>1 DEF FilesInv, Service!KeptLines
    <3>3. CASE Service!Filed(m)
      <4>1. PICK g \in DOMAIN files : \E i \in 1..Len(files[g]) : files[g][i] = m
        BY <3>3 DEF Service!Filed
      <4>2. PICK i \in 1..Len(files[g]) : files[g][i] = m  BY <4>1
      <4>3. CASE g # f
        <5>1. g \in DOMAIN files' /\ i \in 1..Len(files'[g]) /\ files'[g][i] = m
          BY <1>6, <4>2, <4>3
        <5> QED  BY <5>1 DEF Service!Filed
      <4>4. CASE g = f
        <5>1. done[m] = day  BY <1>4, <4>2, <4>4 DEF FilesInv, Service!OwnDay
        <5>2. \A j \in 1..MaxTry : <<day, j>> \in DOMAIN files'  BY <1>6, <1>9, <4>4
        <5> QED  BY <3>1, <5>1, <5>2 DEF Service!NamesUsed
      <4> QED  BY <4>3, <4>4
    <3>4. CASE Service!NamesUsed(done[m])
      BY <1>6, <3>1, <3>4 DEF Service!NamesUsed
    <3> QED  BY <3>2, <3>3, <3>4
  <2> QED  BY <1>7, <2>1, <2>2
<1>13. \A g \in DOMAIN files' : g[1] \in 1..day' /\ g[1] <= last_day' /\ g \in Nat \X Nat
  <2> SUFFICES ASSUME NEW g \in DOMAIN files' PROVE g[1] \in 1..day /\ g \in Nat \X Nat
    BY <1>1
  <2> QED  BY <1>1, <1>4, <1>6
<1>14. index' \in Nat /\ last_day' \in Nat /\ last_day' <= day' /\ day' \in Nat \ {0}
  BY <1>1, <1>3 DEF k
<1>15. file' \in DOMAIN files' /\ file'[1] = last_day'  BY <1>4, <1>6
<1> QED  BY <1>6, <1>7, <1>10, <1>11, <1>12, <1>13, <1>14, <1>15 DEF FilesInv

LEMMA FilesStep ==
  ASSUME ServiceInv, LinesInv, FilesInv, Service!Next
  PROVE  FilesInv'
<1>0. day \in Nat \ {0} /\ day + 1 \in Nat /\ day <= day + 1 /\ day <= day /\ last_day \in Nat
      /\ last_day <= day /\ index \in Nat
  BY DEF FilesInv
<1>1. CASE Service!Start
  <2>1. /\ last_day' \in {0, last_day} /\ file' = <<>> /\ index' = 0
        /\ UNCHANGED <<files, done, day>>
    BY <1>1 DEF Service!Start, Service!NoFile
  <2>2. last_day' \in Nat /\ last_day' <= day /\ 0 \in Nat  BY <1>0, <2>1
  <2>3. (Service!OwnDay /\ Service!OnePlace /\ Service!KeptLines)'
    BY <2>1, FiledSame
  <2> QED  BY <2>1, <2>2, <2>3 DEF FilesInv
<1>2. CASE Service!Run /\ Service!RunLine
  <2>1. PICK l : l = task.line  OBVIOUS
  <2>2. l \in Nat /\ l \notin DOMAIN done
    <3>1. task \in ServiceTask /\ task.op = "line" /\ worker = "run"
      BY <1>2 DEF ServiceInv, ServiceTypeOK, Service!Run, Service!RunLine
    <3>2. Fresh(task)  BY <3>1 DEF LinesInv
    <3> QED  BY <2>1, <3>1, <3>2 DEF ServiceTask, Fresh
  <2> DEFINE D(d) == [m \in DOMAIN done \cup {l} |-> IF m = l THEN d ELSE done[m]]
             F == <<day, Service!FileIndex>>
  <2>3. day' = day  BY <1>2 DEF Service!Run
  <2>4. \/ /\ last_day = day /\ file # <<>> /\ done' = D(day)
           /\ files' = [files EXCEPT ![file] = Append(@, l)]
           /\ UNCHANGED <<last_day, file, index>>
        \/ done' = D(0) /\ UNCHANGED <<last_day, file, index, files>>
        \/ /\ last_day # day /\ index' = Service!FileIndex /\ last_day' = day
           /\ file' = F /\ done' = D(day)
           /\ files' = [g \in DOMAIN files \cup {file'} |->
                          IF g = file' THEN <<l>> ELSE files[g]]
        \/ /\ index' = Service!FileIndex /\ last_day' = day
           /\ file' = <<>> /\ done' = D(0) /\ files' = files
    BY <1>2, <2>1 DEF Service!RunLine, Service!SameDay, Service!NoFile, Service!Logged
  <2>5. Service!FileIndex \in Nat
    <3>1. Service!FileIndex \in (index + 1)..(index + MaxTry)  BY <1>0, NameFound
    <3> QED  BY <1>0, <3>1, MaxTryAssumption
  <2>6. CASE /\ last_day = day /\ file # <<>> /\ done' = D(day)
             /\ files' = [files EXCEPT ![file] = Append(@, l)]
             /\ UNCHANGED <<last_day, file, index>>
    BY <2>2, <2>3, <2>6, LineKept
  <2>7. CASE done' = D(0) /\ UNCHANGED <<last_day, file, index, files>>
    BY <2>2, <2>3, <2>7, LineLost
  <2>8. CASE /\ last_day # day /\ index' = Service!FileIndex /\ last_day' = day
             /\ file' = F /\ done' = D(day)
             /\ files' = [g \in DOMAIN files \cup {file'} |->
                            IF g = file' THEN <<l>> ELSE files[g]]
    <3>1. PICK f : f = F  OBVIOUS
    <3>2. file' = f
          /\ files' = [g \in DOMAIN files \cup {f} |-> IF g = f THEN <<l>> ELSE files[g]]
      BY <2>8, <3>1
    <3> QED  BY <2>2, <2>3, <2>8, <3>1, <3>2, LineOpens
  <2>9. CASE /\ index' = Service!FileIndex /\ last_day' = day
             /\ file' = <<>> /\ done' = D(0) /\ files' = files
    BY <2>2, <2>3, <2>5, <2>9, LineLost
  <2> QED  BY <2>4, <2>6, <2>7, <2>8, <2>9
<1>3. CASE Service!Run /\ ~Service!RunLine
  <2>1. UNCHANGED <<last_day, file, index, files, done, day>>
    BY <1>3 DEF Service!Run, Service!RunLevel, Service!RunClass, Service!RunPrintFile,
                Service!fileState
  <2> QED  BY <1>0, <2>1, FilesSame
<1>4. CASE Service!NewDay
  BY <1>0, <1>4, FilesSame DEF Service!NewDay, Service!fileState
<1>5. CASE Service!Stop \/ Service!StopReturns \/ Service!Consume
  BY <1>0, <1>5, FilesSame DEF Service!Stop, Service!StopReturns, Service!Consume, Service!fileState
<1>6. ASSUME NEW c \in Clients, Service!CheckLevel(c) \/ Service!Find(c) \/ Service!Log(c)
      PROVE  FilesInv'
  BY <1>0, <1>6, FilesSame DEF Service!CheckLevel, Service!Find, Service!Log, Service!fileState
<1>7. ASSUME NEW op, NEW on, Service!Mod(op, on) PROVE FilesInv'
  BY <1>0, <1>7, FilesSame DEF Service!Mod, Service!fileState
<1> QED  BY <1>1, <1>2, <1>3, <1>4, <1>5, <1>6, <1>7 DEF Service!Next, Service!Worker

\* A line of the log is in a file of the day it was written on, once and in no
\* other file, and no file is opened over it while its day has names left,
\* whatever the days, restarts and failures.
THEOREM LogDayFiles == Spec => []DayFiles
<1>1. Init => ServiceInv /\ LinesInv /\ FilesInv
  BY ServiceInit DEF Init
<1>2. ServiceInv /\ LinesInv /\ FilesInv /\ [Next]_vars => (ServiceInv /\ LinesInv /\ FilesInv)'
  <2> SUFFICES ASSUME ServiceInv, LinesInv, FilesInv, [Next]_vars
               PROVE  ServiceInv' /\ LinesInv' /\ FilesInv'
    OBVIOUS
  <2>1. CASE ServiceNext  BY <2>1, ServiceStep, LinesStep, FilesStep DEF ServiceNext
  <2>2. CASE UNCHANGED serviceVars
    <3>1. day \in Nat /\ day <= day  BY DEF FilesInv
    <3> QED  BY <2>2, <3>1, ServiceSame, LinesSame, FilesSame DEF serviceVars
  <2> QED
    BY <2>1, <2>2 DEF Next, vars, MpmcNext, LinkedNext, RingNext, PipelineNext, RwNext, WheelNext
<1>3. FilesInv => DayFiles  BY DEF FilesInv, DayFiles, Service!DayFiles
<1> QED  BY <1>1, <1>2, <1>3, PTL DEF Spec

-----------------------------------------------------------------------------
(* The linked queues *)

\* The nodes from the dummy on, in the order of the history.
Chain == [i \in 0..Len(queue) |-> IF i = 0 THEN tail ELSE queue[i]]

\* The nodes of producers that have not put them into the queue yet.
InHand == {mine[p] : p \in {r \in Producers : lpc[r] \in {"swap", "append"}}}

LinkedTypeOK ==
  /\ kind \in {"mpsc", "spsc"} /\ made \in 1..MaxNodes
  /\ head \in 1..made /\ tail \in 1..made /\ back \in 0..made
  /\ queue \in Seq(1..made) /\ freed \subseteq 1..made
  /\ next \in [1..MaxNodes -> Nat] /\ ahead \in Nat
  /\ mine \in [Producers -> 0..made] /\ prev \in [Producers -> 0..made]
  /\ lpc \in [Producers -> IF kind = "mpsc" THEN {"idle", "swap", "link"}
                           ELSE {"idle", "append", "move"}]
  /\ cpc \in {"idle", "look", "take", "delete", "gone"} /\ closing \in BOOLEAN

\* A thread's node is its own.
OwnNodes ==
  /\ \A p \in Producers : lpc[p] # "idle" => mine[p] # 0
  /\ \A p, r \in Producers : mine[p] = mine[r] /\ mine[p] # 0 => p = r
  /\ kind = "spsc" => \A p, r \in Producers : mine[p] # 0 /\ mine[r] # 0 => p = r
  /\ \A n \in InHand : next[n] = 0
  /\ \A n \in 1..MaxNodes : n > made => next[n] = 0

\* The nodes are apart: the chain's, the ones in hand, the one about to be
\* deleted and the deleted.
Apart ==
  /\ \A i, j \in 0..Len(queue) : Chain[i] = Chain[j] => i = j
  /\ \A i \in 0..Len(queue) : Chain[i] \notin freed /\ Chain[i] \notin InHand
  /\ \A n \in InHand : n \notin freed
  /\ cpc = "delete" => back # 0 /\ back \notin freed /\ back \notin InHand
                       /\ \A i \in 0..Len(queue) : Chain[i] # back

\* The chain is linked but where a producer is between its two steps.
Links ==
  /\ next[Chain[Len(queue)]] = 0
  /\ \A i \in 0..(Len(queue) - 1) :
       \/ next[Chain[i]] = Chain[i + 1]
       \/ /\ next[Chain[i]] = 0
          /\ \E p \in Producers : lpc[p] = "link" /\ prev[p] = Chain[i] /\ mine[p] = Chain[i + 1]
  /\ \A p \in Producers : lpc[p] = "link" =>
       \E i \in 0..(Len(queue) - 1) :
         prev[p] = Chain[i] /\ mine[p] = Chain[i + 1] /\ next[Chain[i]] = 0

\* _head is the last node, or its producer is about to say so.
HeadLast ==
  /\ (\A p \in Producers : lpc[p] # "move") => head = Chain[Len(queue)]
  /\ \A p \in Producers : lpc[p] = "move" => mine[p] = Chain[Len(queue)]

\* Every node made is somewhere.
Somewhere ==
  \A n \in 1..made : \/ n \in freed
                     \/ \E i \in 0..Len(queue) : n = Chain[i]
                     \/ n \in InHand
                     \/ cpc = "delete" /\ n = back

LinkedInv ==
  /\ LinkedTypeOK
  /\ cpc # "gone" => OwnNodes /\ Apart /\ Links /\ HeadLast /\ Somewhere
  /\ cpc = "take" => Len(queue) > 0 /\ ahead = queue[1] /\ next[tail] = ahead
  /\ closing => \A p \in Producers : lpc[p] = "idle"
  /\ cpc = "gone" => closing /\ freed = 1..made

\* What the invariant says of the use of nodes.
LEMMA LinkedLive ==
  ASSUME LinkedInv
  PROVE  NodesLive
<1> USE DEF LinkedInv, LinkedTypeOK
<1>1. CASE cpc = "gone"
  BY <1>1 DEF NodesLive, Linked!NodesLive
<1>2. CASE cpc # "gone"
  <2>1. Len(queue) \in Nat /\ \A i \in 1..Len(queue) : queue[i] \in 1..made
    OBVIOUS
  <2>2. \A i \in 0..Len(queue) : Chain[i] \notin freed
    BY <1>2 DEF Apart
  <2>3. tail \notin freed
    BY <2>1, <2>2 DEF Chain
  <2>4. (\A p \in Producers : lpc[p] # "move") => head \notin freed
    BY <1>2, <2>1, <2>2 DEF HeadLast
  <2>5. \A p \in Producers : lpc[p] = "link" => prev[p] \notin freed
    BY <1>2, <2>1, <2>2 DEF Links
  <2>6. cpc = "take" => ahead \notin freed
    BY <2>1, <2>2 DEF Chain
  <2>7. 1..made = freed \cup {tail} \cup {queue[i] : i \in 1..Len(queue)}
                    \cup {mine[p] : p \in {r \in Producers : lpc[r] \in {"swap", "append"}}}
                    \cup (IF cpc = "delete" THEN {back} ELSE {})
    <3>1. ASSUME NEW n \in 1..made
          PROVE  n \in freed \cup {tail} \cup {queue[i] : i \in 1..Len(queue)}
                    \cup InHand \cup (IF cpc = "delete" THEN {back} ELSE {})
      BY <1>2, <2>1 DEF Somewhere, Chain
    <3>2. InHand \subseteq 1..made
      BY <1>2 DEF OwnNodes, InHand
    <3>3. cpc = "delete" => back # 0
      BY <1>2 DEF Apart
    <3>4. tail \in 1..made /\ freed \subseteq 1..made /\ back \in 0..made /\ made \in Nat
      OBVIOUS
    <3>5. {queue[i] : i \in 1..Len(queue)} \subseteq 1..made
      BY <2>1
    <3>6. (IF cpc = "delete" THEN {back} ELSE {}) \subseteq 1..made
      BY <3>3, <3>4
    <3> HIDE DEF LinkedInv, LinkedTypeOK
    <3> QED  BY <3>1, <3>2, <3>4, <3>5, <3>6, Zenon DEF InHand
  <2> QED
    BY <1>2, <2>3, <2>4, <2>5, <2>6, <2>7 DEF NodesLive, Linked!NodesLive
<1> QED  BY <1>1, <1>2

LEMMA LinkedInit ==
  ASSUME Linked!Init
  PROVE  LinkedInv
<1> USE DEF Linked!Init
<1>1. LinkedTypeOK
  <2>1. closing \in BOOLEAN  BY Zenon
  <2> QED  BY <2>1, MaxNodesAssumption DEF LinkedTypeOK, Linked!Nodes
<1>2. OwnNodes /\ InHand = {}
  BY DEF OwnNodes, InHand, Linked!Nodes
<1>3. Len(queue) = 0 /\ Chain[0] = 1
  BY DEF Chain
<1>4. Apart /\ Links /\ HeadLast /\ Somewhere
  BY <1>2, <1>3, MaxNodesAssumption DEF Apart, Links, HeadLast, Somewhere, Linked!Nodes
<1> QED  BY <1>1, <1>2, <1>4 DEF LinkedInv

\* The producers' side of the queue.
LEMMA LinkedNew ==
  ASSUME LinkedInv, NEW p \in Producers, Linked!New(p)
  PROVE  LinkedInv'
<1> USE DEF Linked!New, Linked!consumer
<1>1. LinkedTypeOK /\ cpc # "gone" /\ OwnNodes /\ Apart /\ Links /\ HeadLast /\ Somewhere
  BY DEF LinkedInv
<1>2. made + 1 \in 1..MaxNodes /\ 1..made \subseteq 1..(made + 1)
  BY <1>1, MaxNodesAssumption DEF LinkedTypeOK
<1>3. LinkedTypeOK'
  <2>1. queue' \in Seq(1..made')
    BY <1>1, <1>2 DEF LinkedTypeOK
  <2>2. closing' \in BOOLEAN /\ lpc' \in [Producers -> IF kind' = "mpsc" THEN {"idle", "swap", "link"}
                           ELSE {"idle", "append", "move"}]
    BY <1>1 DEF LinkedTypeOK
  <2> QED  BY <1>1, <1>2, <2>1, <2>2 DEF LinkedTypeOK
<1>4. InHand' = InHand \cup {made + 1}
  BY <1>1 DEF InHand, LinkedTypeOK
<1>5. made + 1 \notin InHand /\ \A r \in Producers : mine[r] # made + 1
  BY <1>1 DEF InHand, LinkedTypeOK
<1>6. Chain' = Chain /\ queue' = queue /\ Len(queue) \in Nat
      /\ \A i \in 0..Len(queue) : Chain[i] \in 1..made
  BY <1>1 DEF LinkedTypeOK, Chain
<1>7. OwnNodes'
  <2>1. made + 1 # 0  BY <1>1 DEF LinkedTypeOK
  <2>2. \A r \in Producers : lpc'[r] # "idle" => mine'[r] # 0
    BY <1>1, <2>1 DEF OwnNodes, LinkedTypeOK
  <2>3. \A q, r \in Producers : mine'[q] = mine'[r] /\ mine'[q] # 0 => q = r
    BY <1>1, <1>5 DEF OwnNodes, LinkedTypeOK
  <2>4. kind' = "spsc" => \A q, r \in Producers : mine'[q] # 0 /\ mine'[r] # 0 => q = r
    BY <1>1 DEF OwnNodes, LinkedTypeOK
  <2>5. \A n \in InHand' : next'[n] = 0
    BY <1>1, <1>2, <1>4 DEF OwnNodes, LinkedTypeOK
  <2>6. \A n \in 1..MaxNodes : n > made' => next'[n] = 0
    BY <1>1 DEF OwnNodes, LinkedTypeOK
  <2> QED  BY <2>2, <2>3, <2>4, <2>5, <2>6 DEF OwnNodes
<1>8. Apart'
  <2>1. made \in Nat /\ made + 1 \notin freed /\ back # made + 1
        /\ \A i \in 0..Len(queue) : Chain[i] # made + 1
    BY <1>1, <1>6 DEF LinkedTypeOK
  <2> QED  BY <1>1, <1>4, <1>6, <2>1 DEF Apart
<1>9. Links'
  <2>1. \A r \in Producers : lpc'[r] = "link" <=> lpc[r] = "link"
    BY <1>1 DEF LinkedTypeOK
  <2>2. \A r \in Producers : lpc[r] = "link" => mine'[r] = mine[r]
    BY <1>1 DEF LinkedTypeOK
  <2>3. next' = next /\ prev' = prev
    OBVIOUS
  <2>4. (next[Chain[Len(queue)]] = 0)'
    BY <1>1, <1>6, <2>3 DEF Links
  <2>5. ASSUME NEW i \in 0..(Len(queue) - 1)
        PROVE  \/ next[Chain[i]] = Chain[i + 1]
               \/ /\ next[Chain[i]] = 0
                  /\ \E r \in Producers : lpc'[r] = "link" /\ prev[r] = Chain[i] /\ mine'[r] = Chain[i + 1]
    BY <1>1, <2>1, <2>2 DEF Links
  <2>6. ASSUME NEW r \in Producers, lpc'[r] = "link"
        PROVE  \E i \in 0..(Len(queue) - 1) :
                 prev[r] = Chain[i] /\ mine'[r] = Chain[i + 1] /\ next[Chain[i]] = 0
    BY <1>1, <2>1, <2>2, <2>6 DEF Links
  <2> QED  BY <1>6, <2>3, <2>4, <2>5, <2>6 DEF Links
<1>10. HeadLast'
  <2>1. \A r \in Producers : lpc'[r] = "move" <=> lpc[r] = "move"
    BY <1>1 DEF LinkedTypeOK
  <2>2. \A r \in Producers : lpc[r] = "move" => mine'[r] = mine[r]
    BY <1>1 DEF LinkedTypeOK
  <2> QED  BY <1>1, <1>6, <2>1, <2>2 DEF HeadLast
<1>11. Somewhere'
  <2>1. \A n \in 1..made' : n \in 1..made \/ n = made + 1
    BY <1>1 DEF LinkedTypeOK
  <2> QED  BY <1>1, <1>4, <1>6, <2>1 DEF Somewhere
<1>12. (cpc = "take" => Len(queue) > 0 /\ ahead = queue[1] /\ next[tail] = ahead)'
  BY DEF LinkedInv
<1> QED  BY <1>1, <1>3, <1>7, <1>8, <1>9, <1>10, <1>11, <1>12 DEF LinkedInv

\* A node that is put behind the last one.
LEMMA ChainGrows ==
  ASSUME LinkedTypeOK, NEW n \in 1..made, queue' = Append(queue, n), tail' = tail
  PROVE  /\ queue' \in Seq(1..made) /\ Len(queue') = Len(queue) + 1
         /\ \A i \in 0..Len(queue) : Chain[i] \in 1..made /\ Chain'[i] = Chain[i]
         /\ Chain'[Len(queue) + 1] = n
<1> DEFINE S == 1..made
<1>1. queue \in Seq(S) /\ Len(queue) \in Nat /\ tail \in S /\ n \in S
  BY DEF LinkedTypeOK
<1> HIDE DEF S
<1>2. queue' \in Seq(S) /\ Len(queue') = Len(queue) + 1
      /\ queue'[Len(queue) + 1] = n
      /\ \A i \in 1..Len(queue) : queue[i] \in S /\ queue'[i] = queue[i]
  BY <1>1
<1> QED  BY <1>1, <1>2 DEF Chain, S

LEMMA LinkedSwap ==
  ASSUME LinkedInv, NEW p \in Producers, Linked!Swap(p)
  PROVE  LinkedInv'
<1> USE DEF Linked!Swap, Linked!consumer
<1> DEFINE n == mine[p]
<1>1. LinkedTypeOK /\ cpc # "gone" /\ OwnNodes /\ Apart /\ Links /\ HeadLast /\ Somewhere
      /\ ~closing
  BY DEF LinkedInv
<1>2. n \in InHand /\ n \in 1..made /\ next[n] = 0
  BY <1>1 DEF LinkedTypeOK, OwnNodes, InHand
<1>3. kind = "mpsc" /\ \A r \in Producers : lpc[r] # "move" /\ lpc'[r] # "move"
  BY <1>1 DEF LinkedTypeOK
<1>4. head = Chain[Len(queue)]
  BY <1>1, <1>3 DEF HeadLast
<1>5. /\ queue' \in Seq(1..made) /\ Len(queue') = Len(queue) + 1
      /\ \A i \in 0..Len(queue) : Chain[i] \in 1..made /\ Chain'[i] = Chain[i]
      /\ Chain'[Len(queue) + 1] = n
  BY <1>1, <1>2, ChainGrows
<1>6. LinkedTypeOK'
  <2>1. lpc' \in [Producers -> {"idle", "swap", "link"}] /\ kind' = "mpsc"
    BY <1>1, <1>3 DEF LinkedTypeOK
  <2>2. prev' \in [Producers -> 0..made] /\ head' \in 1..made
    BY <1>1, <1>2 DEF LinkedTypeOK
  <2> QED  BY <1>1, <1>5, <2>1, <2>2 DEF LinkedTypeOK
<1>7. InHand' = InHand \ {n}
  BY <1>1, <1>2 DEF InHand, LinkedTypeOK, OwnNodes
<1>8. OwnNodes'
  BY <1>1, <1>7 DEF OwnNodes, LinkedTypeOK
<1>9. Len(queue) \in Nat
  BY <1>1 DEF LinkedTypeOK
<1> HIDE DEF n
<1>10. Apart'
  <2>1. \A i \in 0..Len(queue) : Chain'[i] # n
    BY <1>1, <1>2, <1>5 DEF Apart
  <2>2. \A i \in 0..(Len(queue) + 1) : i \in 0..Len(queue) \/ i = Len(queue) + 1
    BY <1>9
  <2>3. (\A i, j \in 0..Len(queue) : Chain[i] = Chain[j] => i = j)'
    BY <1>1, <1>5, <2>1, <2>2 DEF Apart
  <2>4. (\A i \in 0..Len(queue) : Chain[i] \notin freed /\ Chain[i] \notin InHand)'
    BY <1>1, <1>2, <1>5, <1>7, <2>2 DEF Apart
  <2>5. (\A m \in InHand : m \notin freed)'
    BY <1>1, <1>7 DEF Apart
  <2>6. (cpc = "delete" => back # 0 /\ back \notin freed /\ back \notin InHand
                       /\ \A i \in 0..Len(queue) : Chain[i] # back)'
    BY <1>1, <1>2, <1>5, <1>7, <2>2 DEF Apart
  <2> QED  BY <2>3, <2>4, <2>5, <2>6 DEF Apart
<1>11. Links'
  <2>1. next' = next /\ mine' = mine
    OBVIOUS
  <2>2. lpc'[p] = "link" /\ prev'[p] = head /\ mine'[p] = n
    BY <1>1 DEF LinkedTypeOK, n
  <2>3. \A r \in Producers \ {p} : lpc'[r] = lpc[r] /\ prev'[r] = prev[r]
    BY <1>1 DEF LinkedTypeOK
  <2>4. lpc[p] # "link"  OBVIOUS
  <2>5. (next[Chain[Len(queue)]] = 0)'
    BY <1>2, <1>5, <2>1
  <2>6. ASSUME NEW i \in 0..(Len(queue') - 1)
        PROVE  \/ next'[Chain'[i]] = Chain'[i + 1]
               \/ /\ next'[Chain'[i]] = 0
                  /\ \E r \in Producers : lpc'[r] = "link" /\ prev'[r] = Chain'[i] /\ mine'[r] = Chain'[i + 1]
    <3>1. CASE i = Len(queue)
      BY <1>1, <1>4, <1>5, <1>9, <2>1, <2>2, <3>1 DEF Links
    <3>2. CASE i # Len(queue)
      <4>1. i \in 0..(Len(queue) - 1) /\ i \in 0..Len(queue) /\ i + 1 \in 0..Len(queue)
        BY <1>5, <1>9, <3>2
      <4> QED  BY <1>1, <1>5, <2>1, <2>3, <2>4, <4>1 DEF Links
    <3> QED  BY <3>1, <3>2
  <2>7. ASSUME NEW r \in Producers, lpc'[r] = "link"
        PROVE  \E i \in 0..(Len(queue') - 1) :
                 prev'[r] = Chain'[i] /\ mine'[r] = Chain'[i + 1] /\ next'[Chain'[i]] = 0
    <3>1. CASE r = p
      <4>1. Len(queue) \in 0..(Len(queue') - 1)  BY <1>5, <1>9
      <4> QED  BY <1>1, <1>4, <1>5, <1>9, <2>1, <2>2, <3>1, <4>1 DEF Links
    <3>2. CASE r # p
      <4>1. PICK i \in 0..(Len(queue) - 1) :
              prev[r] = Chain[i] /\ mine[r] = Chain[i + 1] /\ next[Chain[i]] = 0
        BY <1>1, <2>3, <2>7, <3>2 DEF Links
      <4>2. i \in 0..Len(queue) /\ i + 1 \in 0..Len(queue) /\ i \in 0..(Len(queue') - 1)
        BY <1>5, <1>9
      <4> QED  BY <1>5, <2>1, <2>3, <3>2, <4>1, <4>2
    <3> QED  BY <3>1, <3>2
  <2> QED  BY <2>5, <2>6, <2>7 DEF Links
<1>12. HeadLast'
  BY <1>3, <1>5 DEF HeadLast, n
<1>13. Somewhere'
  <2>1. \A i \in 0..Len(queue) : i \in 0..Len(queue')
    BY <1>5, <1>9
  <2>2. Len(queue) + 1 \in 0..Len(queue')
    BY <1>5, <1>9
  <2> QED  BY <1>1, <1>5, <1>7, <2>1, <2>2 DEF Somewhere
<1>14. (cpc = "take" => Len(queue) > 0 /\ ahead = queue[1] /\ next[tail] = ahead)'
  <2>1. Len(queue) > 0 => 1 \in 0..Len(queue)  BY <1>9
  <2> QED  BY <1>5, <1>9, <2>1 DEF LinkedInv, Chain
<1> QED  BY <1>1, <1>6, <1>8, <1>10, <1>11, <1>12, <1>13, <1>14 DEF LinkedInv

LEMMA LinkedLink ==
  ASSUME LinkedInv, NEW p \in Producers, Linked!Link(p)
  PROVE  LinkedInv'
<1> USE DEF Linked!Link, Linked!consumer
<1>1. LinkedTypeOK /\ cpc # "gone" /\ OwnNodes /\ Apart /\ Links /\ HeadLast /\ Somewhere
      /\ ~closing
  BY DEF LinkedInv
<1>2. PICK i \in 0..(Len(queue) - 1) :
        prev[p] = Chain[i] /\ mine[p] = Chain[i + 1] /\ next[Chain[i]] = 0
  BY <1>1 DEF Links
<1>3. Len(queue) \in Nat /\ i \in 0..Len(queue) /\ i + 1 \in 0..Len(queue)
      /\ Len(queue) \in 0..Len(queue) /\ i # Len(queue)
  BY <1>1 DEF LinkedTypeOK
<1>4. Chain' = Chain /\ \A j \in 0..Len(queue) : Chain[j] \in 1..made
  BY <1>1 DEF LinkedTypeOK, Chain
<1>5. next' = [next EXCEPT ![Chain[i]] = Chain[i + 1]]
      /\ 1..made \subseteq 1..MaxNodes /\ 1..made \subseteq Nat
  BY <1>1, <1>2, MaxNodesAssumption DEF LinkedTypeOK
<1>6. LinkedTypeOK'
  <2>1. next' \in [1..MaxNodes -> Nat]
    BY <1>1, <1>3, <1>4, <1>5 DEF LinkedTypeOK
  <2> QED  BY <1>1, <2>1 DEF LinkedTypeOK
<1>7. InHand' = InHand
  BY <1>1 DEF InHand, LinkedTypeOK
<1>8. \A m \in 1..MaxNodes : m # Chain[i] => next'[m] = next[m]
  BY <1>1, <1>5 DEF LinkedTypeOK
<1>9. next'[Chain[i]] = Chain[i + 1]
  BY <1>1, <1>3, <1>4, <1>5 DEF LinkedTypeOK
<1>10. OwnNodes'
  <2>1. \A m \in InHand : m \in 1..MaxNodes /\ m # Chain[i]
    <3>1. InHand \subseteq 1..made
      BY <1>1 DEF OwnNodes, InHand, LinkedTypeOK
    <3> QED  BY <1>1, <1>3, <1>5, <3>1 DEF Apart
  <2>2. Chain[i] \in 1..made /\ made \in Nat
    BY <1>1, <1>3, <1>4 DEF LinkedTypeOK
  <2>3. (\A m \in InHand : next[m] = 0)'
    BY <1>1, <1>7, <1>8, <2>1 DEF OwnNodes
  <2>4. (\A m \in 1..MaxNodes : m > made => next[m] = 0)'
    BY <1>1, <1>8, <2>2 DEF OwnNodes
  <2>5. (\A r \in Producers : lpc[r] # "idle" => mine[r] # 0)'
    BY <1>1 DEF OwnNodes, LinkedTypeOK
  <2> QED  BY <1>1, <2>3, <2>4, <2>5 DEF OwnNodes
<1>11. Apart'
  BY <1>1, <1>4, <1>7 DEF Apart
<1>12. \A j \in 0..Len(queue) : j # i => next'[Chain[j]] = next[Chain[j]]
  <2>1. \A j \in 0..Len(queue) : Chain[j] \in 1..MaxNodes
    BY <1>4, <1>5
  <2> QED  BY <1>1, <1>3, <1>8, <2>1 DEF Apart
<1>13. Links'
  <2>1. lpc'[p] = "idle" /\ \A r \in Producers \ {p} : lpc'[r] = lpc[r]
    BY <1>1 DEF LinkedTypeOK
  <2>2. mine' = mine /\ prev' = prev /\ queue' = queue
    OBVIOUS
  <2>3. \A j \in 0..(Len(queue) - 1) : j \in 0..Len(queue) /\ j + 1 \in 0..Len(queue)
    BY <1>3
  <2>4. (next[Chain[Len(queue)]] = 0)'
    BY <1>1, <1>3, <1>4, <1>12, <2>2 DEF Links
  <2>5. ASSUME NEW j \in 0..(Len(queue) - 1)
        PROVE  \/ next'[Chain[j]] = Chain[j + 1]
               \/ /\ next'[Chain[j]] = 0
                  /\ \E r \in Producers : lpc'[r] = "link" /\ prev[r] = Chain[j] /\ mine[r] = Chain[j + 1]
    <3>1. CASE j = i
      BY <1>9, <3>1
    <3>2. CASE j # i
      <4>1. next'[Chain[j]] = next[Chain[j]]
        BY <1>12, <2>3, <3>2
      <4>2. prev[p] # Chain[j]
        BY <1>1, <1>2, <1>3, <2>3, <3>2 DEF Apart
      <4> QED  BY <1>1, <2>1, <4>1, <4>2 DEF Links
    <3> QED  BY <3>1, <3>2
  <2>6. ASSUME NEW r \in Producers, lpc'[r] = "link"
        PROVE  \E j \in 0..(Len(queue) - 1) :
                 prev[r] = Chain[j] /\ mine[r] = Chain[j + 1] /\ next'[Chain[j]] = 0
    <3>1. r # p /\ lpc[r] = "link"
      BY <2>1, <2>6
    <3>2. PICK j \in 0..(Len(queue) - 1) :
            prev[r] = Chain[j] /\ mine[r] = Chain[j + 1] /\ next[Chain[j]] = 0
      BY <1>1, <3>1 DEF Links
    <3>3. j # i
      <4>1. mine[p] # 0 /\ mine[r] # mine[p]
        BY <1>1, <3>1 DEF OwnNodes
      <4> QED  BY <1>2, <3>2, <4>1
    <3> QED  BY <1>12, <2>3, <3>2, <3>3
  <2> QED  BY <1>4, <2>2, <2>4, <2>5, <2>6 DEF Links
<1>14. HeadLast'
  <2>1. \A r \in Producers : lpc'[r] = "move" <=> lpc[r] = "move"
    BY <1>1 DEF LinkedTypeOK
  <2> QED  BY <1>1, <1>3, <1>4, <2>1 DEF HeadLast
<1>15. Somewhere'
  BY <1>1, <1>4, <1>7 DEF Somewhere
<1>16. (cpc = "take" => Len(queue) > 0 /\ ahead = queue[1] /\ next[tail] = ahead)'
  <2>1. SUFFICES ASSUME cpc = "take"
                 PROVE  next'[tail] = ahead
    BY DEF LinkedInv
  <2>2. Len(queue) > 0 /\ ahead = queue[1] /\ next[tail] = ahead
    BY <2>1 DEF LinkedInv
  <2>3. ahead # 0 /\ tail \in 1..MaxNodes
    BY <1>1, <1>5, <2>2 DEF LinkedTypeOK
  <2> QED  BY <1>2, <1>8, <2>2, <2>3
<1> QED  BY <1>1, <1>6, <1>10, <1>11, <1>13, <1>14, <1>15, <1>16 DEF LinkedInv

LEMMA LinkedAppend ==
  ASSUME LinkedInv, NEW p \in Producers, Linked!AppendNode(p)
  PROVE  LinkedInv'
<1> USE DEF Linked!AppendNode, Linked!consumer
<1> DEFINE n == mine[p]
<1>1. LinkedTypeOK /\ cpc # "gone" /\ OwnNodes /\ Apart /\ Links /\ HeadLast /\ Somewhere
      /\ ~closing
  BY DEF LinkedInv
<1>2. n \in InHand /\ n \in 1..made /\ next[n] = 0
  BY <1>1 DEF LinkedTypeOK, OwnNodes, InHand
<1>3. kind = "spsc" /\ \A r \in Producers : r # p => lpc[r] = "idle"
  BY <1>1 DEF LinkedTypeOK, OwnNodes
<1>4. head = Chain[Len(queue)]
  BY <1>1, <1>3 DEF HeadLast
<1>5. /\ queue' \in Seq(1..made) /\ Len(queue') = Len(queue) + 1
      /\ \A i \in 0..Len(queue) : Chain[i] \in 1..made /\ Chain'[i] = Chain[i]
      /\ Chain'[Len(queue) + 1] = n
  BY <1>1, <1>2, ChainGrows
<1>6. Len(queue) \in Nat /\ 1..made \subseteq 1..MaxNodes /\ 1..made \subseteq Nat
  BY <1>1, MaxNodesAssumption DEF LinkedTypeOK
<1>7. LinkedTypeOK'
  <2>1. lpc' \in [Producers -> {"idle", "append", "move"}] /\ kind' = "spsc"
    BY <1>1, <1>3 DEF LinkedTypeOK
  <2>2. next' \in [1..MaxNodes -> Nat]
    BY <1>1, <1>2, <1>6 DEF LinkedTypeOK
  <2> QED  BY <1>1, <1>5, <2>1, <2>2 DEF LinkedTypeOK
<1>8. InHand' = {} /\ InHand = {n}
  BY <1>1, <1>2, <1>3 DEF InHand, LinkedTypeOK
<1>9. next'[head] = n /\ \A m \in 1..MaxNodes : m # head => next'[m] = next[m]
  BY <1>1, <1>6 DEF LinkedTypeOK
<1>10. OwnNodes'
  <2>1. head \in 1..made /\ made \in Nat
    BY <1>1 DEF LinkedTypeOK
  <2>2. (\A m \in 1..MaxNodes : m > made => next[m] = 0)'
    BY <1>1, <1>9, <2>1 DEF OwnNodes
  <2>3. (\A r \in Producers : lpc[r] # "idle" => mine[r] # 0)'
    BY <1>1 DEF OwnNodes, LinkedTypeOK
  <2> QED  BY <1>1, <1>8, <2>2, <2>3 DEF OwnNodes
<1> HIDE DEF n
<1>11. \A i \in 0..(Len(queue) + 1) : i \in 0..Len(queue) \/ i = Len(queue) + 1
  BY <1>6
<1>12. Apart'
  <2>1. \A i \in 0..Len(queue) : Chain'[i] # n
    BY <1>1, <1>2, <1>5 DEF Apart
  <2>2. (\A i, j \in 0..Len(queue) : Chain[i] = Chain[j] => i = j)'
    BY <1>1, <1>5, <1>11, <2>1 DEF Apart
  <2>3. (\A i \in 0..Len(queue) : Chain[i] \notin freed /\ Chain[i] \notin InHand)'
    BY <1>1, <1>2, <1>5, <1>8, <1>11 DEF Apart
  <2>4. (cpc = "delete" => back # 0 /\ back \notin freed /\ back \notin InHand
                       /\ \A i \in 0..Len(queue) : Chain[i] # back)'
    BY <1>1, <1>2, <1>5, <1>8, <1>11 DEF Apart
  <2> QED  BY <1>8, <2>2, <2>3, <2>4 DEF Apart
<1>13. Links'
  <2>1. \A r \in Producers : lpc[r] # "link" /\ lpc'[r] # "link"
    BY <1>1, <1>3 DEF LinkedTypeOK
  <2>2. n # head /\ n \in 1..MaxNodes
    BY <1>1, <1>2, <1>4, <1>6 DEF Apart
  <2>3. (next[Chain[Len(queue)]] = 0)'
    BY <1>2, <1>5, <1>9, <2>2
  <2>4. ASSUME NEW i \in 0..(Len(queue') - 1)
        PROVE  next'[Chain'[i]] = Chain'[i + 1]
    <3>1. CASE i = Len(queue)
      <4>1. Chain'[i] = head /\ Chain'[i + 1] = n
        BY <1>4, <1>5, <1>6, <3>1
      <4> QED  BY <1>9, <4>1
    <3>2. CASE i # Len(queue)
      <4>1. i \in 0..(Len(queue) - 1) /\ i \in 0..Len(queue) /\ i + 1 \in 0..Len(queue)
            /\ Len(queue) \in 0..Len(queue)
        BY <1>5, <1>6, <3>2
      <4>2. Chain[i] # head /\ Chain[i] \in 1..MaxNodes
        BY <1>1, <1>4, <1>5, <1>6, <3>2, <4>1 DEF Apart
      <4> QED  BY <1>1, <1>5, <1>9, <2>1, <4>1, <4>2 DEF Links
    <3> QED  BY <3>1, <3>2
  <2> QED  BY <2>1, <2>3, <2>4 DEF Links
<1>14. HeadLast'
  <2>1. lpc'[p] = "move" /\ \A r \in Producers : lpc'[r] = "move" => r = p
    BY <1>1, <1>3 DEF LinkedTypeOK
  <2>2. mine'[p] = Chain'[Len(queue')]
    BY <1>5 DEF n
  <2> QED  BY <2>1, <2>2 DEF HeadLast
<1>15. Somewhere'
  <2>1. \A i \in 0..Len(queue) : i \in 0..Len(queue')
    BY <1>5, <1>6
  <2>2. Len(queue) + 1 \in 0..Len(queue')
    BY <1>5, <1>6
  <2> QED  BY <1>1, <1>5, <1>8, <2>1, <2>2 DEF Somewhere
<1>16. (cpc = "take" => Len(queue) > 0 /\ ahead = queue[1] /\ next[tail] = ahead)'
  <2>1. SUFFICES ASSUME cpc = "take"
                 PROVE  Len(queue') > 0 /\ ahead = queue'[1] /\ next'[tail] = ahead
    OBVIOUS
  <2>2. Len(queue) > 0 /\ ahead = queue[1] /\ next[tail] = ahead
    BY <2>1 DEF LinkedInv
  <2>3. 1 \in 0..Len(queue) /\ 0 \in 0..Len(queue) /\ Chain[0] = tail /\ tail \in 1..made
        /\ Chain[1] = queue[1] /\ Len(queue) \in 0..Len(queue)
    BY <1>1, <1>6, <2>2 DEF Chain, LinkedTypeOK
  <2>4. tail # head
    BY <1>1, <1>4, <2>2, <2>3 DEF Apart
  <2>5. Chain'[1] = queue'[1]
    BY <1>5, <1>6, <2>2 DEF Chain
  <2> QED  BY <1>5, <1>6, <1>9, <2>2, <2>3, <2>4, <2>5
<1> QED  BY <1>1, <1>7, <1>10, <1>12, <1>13, <1>14, <1>15, <1>16 DEF LinkedInv

LEMMA LinkedMove ==
  ASSUME LinkedInv, NEW p \in Producers, Linked!Move(p)
  PROVE  LinkedInv'
<1> USE DEF Linked!Move, Linked!consumer
<1>1. LinkedTypeOK /\ cpc # "gone" /\ OwnNodes /\ Apart /\ Links /\ HeadLast /\ Somewhere
      /\ ~closing
  BY DEF LinkedInv
<1>2. kind = "spsc" /\ mine[p] \in 1..made /\ \A r \in Producers : r # p => lpc[r] = "idle"
  <2>1. mine[p] # 0 /\ mine[p] \in 0..made /\ made \in Nat
    BY <1>1 DEF LinkedTypeOK, OwnNodes
  <2>2. kind = "spsc"
    BY <1>1 DEF LinkedTypeOK
  <2> QED  BY <1>1, <2>1, <2>2 DEF OwnNodes
<1>3. LinkedTypeOK' /\ \A r \in Producers : lpc'[r] = "idle"
  BY <1>1, <1>2 DEF LinkedTypeOK
<1>4. Chain' = Chain /\ queue' = queue
  BY DEF Chain
<1>5. InHand' = {} /\ InHand = {}
  BY <1>2, <1>3 DEF InHand
<1>6. OwnNodes' /\ Apart'
  BY <1>1, <1>3, <1>4, <1>5 DEF OwnNodes, Apart
<1>7. Links'
  <2>1. \A r \in Producers : lpc[r] # "link"  BY <1>2
  <2> QED  BY <1>1, <1>3, <1>4, <2>1 DEF Links
<1>8. HeadLast'
  BY <1>1, <1>3, <1>4 DEF HeadLast
<1>9. Somewhere'
  BY <1>1, <1>4, <1>5 DEF Somewhere
<1> QED  BY <1>1, <1>3, <1>6, <1>7, <1>8, <1>9 DEF LinkedInv

\* The consumer's side.
LEMMA LinkedLook ==
  ASSUME LinkedInv, Linked!Look
  PROVE  LinkedInv'
<1> USE DEF Linked!Look, Linked!producer
<1>1. LinkedTypeOK /\ cpc # "gone" /\ OwnNodes /\ Apart /\ Links /\ HeadLast /\ Somewhere
  BY DEF LinkedInv
<1>2. Chain' = Chain /\ queue' = queue /\ InHand' = InHand
      /\ Len(queue) \in Nat /\ Chain[0] = tail
  BY <1>1 DEF Chain, InHand, LinkedTypeOK
<1>3. \A i \in 1..Len(queue) : Chain[i] = queue[i] /\ queue[i] \in 1..made
  BY <1>1 DEF Chain, LinkedTypeOK
<1>4. next[tail] \in Nat /\ made \in Nat
  <2>1. tail \in 1..MaxNodes
    BY <1>1, MaxNodesAssumption DEF LinkedTypeOK
  <2> QED  BY <1>1, <2>1, MaxNodesAssumption DEF LinkedTypeOK
<1>5. Len(queue) > 0 =>
        \/ next[tail] = queue[1]
        \/ next[tail] = 0 /\ \E p \in Producers : lpc[p] = "link"
  <2>1. SUFFICES ASSUME Len(queue) > 0
                 PROVE  \/ next[tail] = queue[1]
                        \/ next[tail] = 0 /\ \E p \in Producers : lpc[p] = "link"
    OBVIOUS
  <2>2. 0 \in 0..(Len(queue) - 1) /\ Chain[0 + 1] = queue[1]
    BY <1>2, <1>3, <2>1
  <2> QED  BY <1>1, <1>2, <2>2 DEF Links
<1>6. Len(queue) = 0 => next[tail] = 0
  BY <1>1, <1>2 DEF Links
<1>7. CASE next[tail] # 0 \/ ~closing
  <2>1. freed' = freed /\ cpc' \in {"take", "idle"} /\ cpc # "delete"
    BY <1>7
  <2>2. LinkedTypeOK'
    BY <1>1, <1>4, <2>1 DEF LinkedTypeOK
  <2>3. OwnNodes' /\ Apart' /\ Links' /\ HeadLast' /\ Somewhere'
    BY <1>1, <1>2, <2>1 DEF OwnNodes, Apart, Links, HeadLast, Somewhere
  <2>4. cpc' = "take" => Len(queue) > 0 /\ ahead' = queue[1] /\ next[tail] = ahead'
    BY <1>2, <1>5, <1>6, <1>7, <2>1
  <2> QED  BY <1>2, <2>1, <2>2, <2>3, <2>4 DEF LinkedInv
<1>8. CASE next[tail] = 0 /\ closing
  <2>1. \A p \in Producers : lpc[p] = "idle"
    BY <1>8 DEF LinkedInv
  <2>2. Len(queue) = 0
    BY <1>2, <1>3, <1>5, <1>8, <2>1
  <2>3. InHand = {} /\ head = tail
    BY <1>1, <1>2, <2>1, <2>2 DEF InHand, HeadLast
  <2>4. \A n \in 1..made : n \in freed \/ n = tail
    BY <1>1, <1>2, <2>2, <2>3 DEF Somewhere
  <2>5. freed' = 1..made
    BY <1>1, <1>8, <2>3, <2>4 DEF LinkedTypeOK
  <2>6. LinkedTypeOK'
    BY <1>1, <1>4, <1>8, <2>5 DEF LinkedTypeOK
  <2> QED  BY <1>8, <2>1, <2>5, <2>6 DEF LinkedInv
<1> QED  BY <1>7, <1>8

LEMMA LinkedTake ==
  ASSUME LinkedInv, Linked!Take
  PROVE  LinkedInv'
<1> USE DEF Linked!Take, Linked!producer
<1>1. LinkedTypeOK /\ cpc # "gone" /\ OwnNodes /\ Apart /\ Links /\ HeadLast /\ Somewhere
      /\ Len(queue) > 0 /\ ahead = queue[1] /\ next[tail] = ahead
  BY DEF LinkedInv
<1> DEFINE S == 1..made
<1>2. queue \in Seq(S) /\ Len(queue) \in Nat /\ tail \in S
  BY <1>1 DEF LinkedTypeOK
<1> HIDE DEF S
<1>3. queue' \in Seq(S) /\ Len(queue') = Len(queue) - 1 /\ queue[1] \in S
      /\ \A i \in 1..Len(queue') : queue'[i] = queue[i + 1]
  BY <1>1, <1>2
<1>4. Chain[0] = tail /\ \A i \in 0..Len(queue') : Chain'[i] = Chain[i + 1]
  BY <1>1, <1>2, <1>3 DEF Chain
<1>5. LinkedTypeOK'
  BY <1>1, <1>3 DEF LinkedTypeOK, S
<1>6. InHand' = InHand /\ OwnNodes'
  BY <1>1 DEF InHand, OwnNodes
<1>7. \A i \in 0..Len(queue') : i + 1 \in 0..Len(queue)
  BY <1>2, <1>3
<1>8. Apart'
  <2>1. 0 \in 0..Len(queue) /\ \A i \in 0..Len(queue') : i + 1 # 0
    BY <1>2, <1>3
  <2>2. ASSUME NEW i \in 0..Len(queue'), NEW j \in 0..Len(queue'), Chain'[i] = Chain'[j]
        PROVE  i = j
    <3>1. i + 1 = j + 1
      BY <1>1, <1>4, <1>7, <2>2 DEF Apart
    <3> QED  BY <3>1
  <2>3. \A i \in 0..Len(queue') : Chain'[i] \notin freed /\ Chain'[i] \notin InHand /\ Chain'[i] # tail
    BY <1>1, <1>4, <1>7, <2>1 DEF Apart
  <2>4. tail \notin freed /\ tail \notin InHand /\ tail # 0
    BY <1>1, <1>2, <1>4, <2>1 DEF Apart, S
  <2> QED  BY <1>1, <1>6, <2>2, <2>3, <2>4 DEF Apart
<1>9. Links'
  <2>1. (next[Chain[Len(queue)]] = 0)'
    BY <1>1, <1>2, <1>3, <1>4 DEF Links
  <2>2. ASSUME NEW i \in 0..(Len(queue') - 1)
        PROVE  \/ next[Chain'[i]] = Chain'[i + 1]
               \/ /\ next[Chain'[i]] = 0
                  /\ \E r \in Producers : lpc[r] = "link" /\ prev[r] = Chain'[i] /\ mine[r] = Chain'[i + 1]
    <3>1. i + 1 \in 0..(Len(queue) - 1) /\ i \in 0..Len(queue') /\ i + 1 \in 0..Len(queue')
      BY <1>2, <1>3
    <3> QED  BY <1>1, <1>4, <3>1 DEF Links
  <2>3. ASSUME NEW r \in Producers, lpc[r] = "link"
        PROVE  \E i \in 0..(Len(queue') - 1) :
                 prev[r] = Chain'[i] /\ mine[r] = Chain'[i + 1] /\ next[Chain'[i]] = 0
    <3>1. PICK i \in 0..(Len(queue) - 1) :
            prev[r] = Chain[i] /\ mine[r] = Chain[i + 1] /\ next[Chain[i]] = 0
      BY <1>1, <2>3 DEF Links
    <3>2. i # 0
      BY <1>1, <1>3, <1>4, <3>1 DEF S
    <3>3. i - 1 \in 0..(Len(queue') - 1) /\ i - 1 \in 0..Len(queue') /\ i \in 0..Len(queue')
          /\ (i - 1) + 1 = i
      BY <1>2, <1>3, <3>2
    <3>4. Chain'[i - 1] = Chain[i] /\ Chain'[(i - 1) + 1] = Chain[i + 1]
      BY <1>4, <3>3
    <3> QED  BY <3>1, <3>3, <3>4
  <2> QED  BY <2>1, <2>2, <2>3 DEF Links
<1>10. HeadLast'
  <2>1. Chain'[Len(queue')] = Chain[Len(queue)]
    BY <1>2, <1>3, <1>4
  <2> QED  BY <1>1, <2>1 DEF HeadLast
<1>11. Somewhere'
  <2>1. \A i \in 0..Len(queue) : i = 0 \/ (i - 1 \in 0..Len(queue') /\ (i - 1) + 1 = i)
    BY <1>2, <1>3
  <2>2. \A i \in 0..Len(queue) : i = 0 \/ \E j \in 0..Len(queue') : Chain'[j] = Chain[i]
    BY <1>4, <2>1
  <2>3. \A i \in 0..Len(queue) : Chain[i] = tail \/ \E j \in 0..Len(queue') : Chain[i] = Chain'[j]
    BY <1>4, <2>2
  <2>4. cpc' = "delete" /\ back' = tail /\ cpc # "delete" /\ made' = made /\ freed' = freed
    OBVIOUS
  <2> QED  BY <1>1, <1>6, <2>3, <2>4 DEF Somewhere
<1> QED  BY <1>1, <1>5, <1>6, <1>8, <1>9, <1>10, <1>11 DEF LinkedInv

LEMMA LinkedDelete ==
  ASSUME LinkedInv, Linked!Delete
  PROVE  LinkedInv'
<1> USE DEF Linked!Delete, Linked!producer
<1>1. LinkedTypeOK /\ cpc # "gone" /\ OwnNodes /\ Apart /\ Links /\ HeadLast /\ Somewhere
  BY DEF LinkedInv
<1>2. Chain' = Chain /\ queue' = queue /\ InHand' = InHand
  BY DEF Chain, InHand
<1>3. LinkedTypeOK'
  BY <1>1 DEF LinkedTypeOK, Apart
<1>4. OwnNodes' /\ Apart' /\ Links' /\ HeadLast' /\ Somewhere'
  BY <1>1, <1>2 DEF OwnNodes, Apart, Links, HeadLast, Somewhere
<1> QED  BY <1>1, <1>3, <1>4 DEF LinkedInv

\* A dequeue is called, or the destructor.
LEMMA LinkedCall ==
  ASSUME LinkedInv, Linked!Call \/ Linked!Close
  PROVE  LinkedInv'
<1> USE DEF Linked!Call, Linked!Close, Linked!producer
<1>1. LinkedTypeOK /\ cpc # "gone" /\ OwnNodes /\ Apart /\ Links /\ HeadLast /\ Somewhere
  BY DEF LinkedInv
<1>2. Chain' = Chain /\ queue' = queue /\ InHand' = InHand
  BY DEF Chain, InHand
<1>3. closing' \in BOOLEAN
  BY <1>1, Zenon DEF LinkedTypeOK
<1>4. LinkedTypeOK'
  BY <1>1, <1>3 DEF LinkedTypeOK
<1>5. OwnNodes' /\ Apart' /\ Links' /\ HeadLast' /\ Somewhere'
  <2>1. cpc # "delete" /\ cpc' # "delete"
    OBVIOUS
  <2>2. UNCHANGED <<kind, head, next, made, lpc, mine, prev, freed, tail>>
    BY Zenon
  <2> QED  BY <1>1, <1>2, <2>1, <2>2 DEF OwnNodes, Apart, Links, HeadLast, Somewhere
<1> QED  BY <1>1, <1>4, <1>5 DEF LinkedInv

LEMMA LinkedSame ==
  ASSUME LinkedInv, UNCHANGED linkedVars
  PROVE  LinkedInv'
<1>1. Chain' = Chain /\ InHand' = InHand
  BY DEF linkedVars, Chain, InHand
<1> QED
  BY <1>1 DEF LinkedInv, LinkedTypeOK, OwnNodes, Apart, Links, HeadLast, Somewhere, linkedVars

LEMMA LinkedStep ==
  ASSUME LinkedInv, [Next]_vars
  PROVE  LinkedInv'
<1>1. CASE LinkedNext
  BY <1>1, LinkedNew, LinkedSwap, LinkedLink, LinkedAppend, LinkedMove, LinkedLook,
     LinkedTake, LinkedDelete, LinkedCall
  DEF LinkedNext, Linked!Next, Linked!EnqStep, Linked!DeqStep
<1>2. CASE UNCHANGED linkedVars
  BY <1>2, LinkedSame
<1> QED
  BY <1>1, <1>2 DEF Next, vars, MpmcNext, RingNext, PipelineNext, ServiceNext, RwNext, WheelNext

\* No node of a linked queue is used after its delete and none is leaked
\* (mpsc-queue.hpp, spsc-queue.hpp): for any number of producers and nodes.
THEOREM LinkedNodesLive == Spec => []NodesLive
<1>1. Init => LinkedInv
  BY LinkedInit DEF Init
<1>2. LinkedInv /\ [Next]_vars => LinkedInv'
  BY LinkedStep
<1>3. LinkedInv => NodesLive
  BY LinkedLive
<1> QED  BY <1>1, <1>2, <1>3, PTL DEF Spec

-----------------------------------------------------------------------------
(* First in, first out: the linked queues *)

\* The nodes of the chain are different ones, so there is room in the history.
LEMMA LinkedRoom ==
  ASSUME LinkedInv, cpc # "gone"
  PROVE  Len(queue) < MaxNodes
<1>1. Len(queue) \in Nat /\ made \in Nat /\ made <= MaxNodes
  BY MaxNodesAssumption DEF LinkedInv, LinkedTypeOK
<1>2. Chain \in [0..Len(queue) -> 1..made]
  BY DEF LinkedInv, LinkedTypeOK, Chain
<1>3. Chain \in Injection(0..Len(queue), 1..made)
  BY <1>2 DEF LinkedInv, Apart, Injection, IsInjective
<1>4. IsFiniteSet(1..made) /\ Cardinality(1..made) = made
  BY <1>1, FS_Interval
<1>5. Cardinality(0..Len(queue)) = Len(queue) + 1
  BY <1>1, FS_Interval
<1>6. Cardinality(0..Len(queue)) <= Cardinality(1..made)
  BY <1>3, <1>4, FS_Injection
<1> QED  BY <1>1, <1>4, <1>5, <1>6, MaxNodesAssumption

LEMMA LinkedFifo ==
  ASSUME LinkedInv, Linked!Next
  PROVE  Linked!FifoStep
<1>1. ASSUME NEW p \in Producers, Linked!Swap(p) \/ Linked!AppendNode(p)
      PROVE  Linked!Fifo!Put(mine[p]) /\ mine[p] \in Linked!Nodes
  <2>1. cpc # "gone"
    BY <1>1 DEF LinkedInv, Linked!Swap, Linked!AppendNode
  <2>2. Len(queue) < MaxNodes
    BY <2>1, LinkedRoom
  <2>3. queue' = Append(queue, mine[p]) /\ got' = got
    BY <1>1 DEF Linked!Swap, Linked!AppendNode, Linked!consumer
  <2>4. mine[p] \in 1..MaxNodes
    BY <1>1, <2>1, MaxNodesAssumption
    DEF LinkedInv, LinkedTypeOK, OwnNodes, Linked!Swap, Linked!AppendNode
  <2> QED  BY <2>2, <2>3, <2>4 DEF Linked!Fifo!Put, Linked!Nodes
<1>2. ASSUME Linked!Take
      PROVE  Linked!Fifo!Get(0)
  <2>1. Len(queue) > 0 /\ ahead = queue[1] /\ queue \in Seq(1..made)
    BY <1>2 DEF LinkedInv, LinkedTypeOK, Linked!Take
  <2>2. queue # <<>> /\ ahead = Head(queue)
    BY <2>1
  <2> QED  BY <1>2, <2>2 DEF Linked!Take, Linked!Fifo!Get
<1>3. CASE \E p \in Producers : Linked!Swap(p) \/ Linked!AppendNode(p)
  BY <1>1, <1>3 DEF Linked!FifoStep, Linked!Fifo!Next
<1>4. CASE Linked!Take
  BY <1>2, <1>4 DEF Linked!FifoStep, Linked!Fifo!Next
<1>5. CASE UNCHANGED <<queue, got>>
  BY <1>5 DEF Linked!FifoStep
<1> QED
  BY <1>3, <1>4, <1>5
  DEF Linked!Next, Linked!New, Linked!EnqStep, Linked!Link, Linked!Move, Linked!DeqStep,
      Linked!Call, Linked!Look, Linked!Delete, Linked!Close, Linked!consumer

LEMMA LinkedHonest ==
  ASSUME LinkedInv, Linked!Next
  PROVE  Linked!HonestStep
<1>1. SUFFICES ASSUME cpc = "look", cpc' \in {"idle", "gone"}, queue # <<>>
               PROVE  \E p \in Producers : lpc[p] = "link" /\ prev[p] = tail
  BY DEF Linked!HonestStep
<1>2. next[tail] = 0
  BY <1>1
  DEF Linked!Next, Linked!New, Linked!EnqStep, Linked!Swap, Linked!Link, Linked!AppendNode,
      Linked!Move, Linked!DeqStep, Linked!Call, Linked!Look, Linked!Take, Linked!Delete,
      Linked!Close, Linked!consumer
<1>3. Len(queue) \in Nat /\ Len(queue) > 0 /\ queue[1] \in 1..made
  BY <1>1 DEF LinkedInv, LinkedTypeOK
<1>4. 0 \in 0..(Len(queue) - 1) /\ Chain[0] = tail /\ Chain[0 + 1] = queue[1] /\ queue[1] # 0
  BY <1>3 DEF Chain
<1>5. Links
  BY <1>1 DEF LinkedInv
<1> QED  BY <1>2, <1>4, <1>5 DEF Links

-----------------------------------------------------------------------------
(* First in, first out: the ring of one producer and one consumer *)

LEMMA Remainder ==
  ASSUME NEW x \in Int, NEW n \in Nat \ {0}
  PROVE  x % n \in 0..n - 1
OBVIOUS

LEMMA QuotientAndRest ==
  ASSUME NEW x \in Int, NEW n \in Nat \ {0}
  PROVE  \E q \in Int : x = n * q + (x % n)
<1> DEFINE q == x \div n
<1>0. n \in Nat /\ n > 0
  OBVIOUS
<1>1. x = n * q + (x % n) /\ q \in Int
  BY <1>0
<1> HIDE DEF q
<1> QED
  BY <1>1

LEMMA UniqueRest ==
  ASSUME NEW n \in Nat \ {0}, NEW q \in Int, NEW r \in 0..n - 1, NEW x \in Int,
         x = n * q + r
  PROVE  x % n = r
<1> DEFINE d == x % n
<1>1. PICK k \in Int : x = n * k + d
  BY QuotientAndRest
<1>2. d \in 0..n - 1
  BY Remainder
<1> HIDE DEF d
<1>3. d - r = n * (q - k)
  BY <1>1, <1>2
<1>4. q - k = 0
  BY <1>2, <1>3
<1>5. d = r
  BY <1>2, <1>3, <1>4
<1> QED
  BY <1>5 DEF d

\* Two numbers with the same remainder are a multiple apart.
LEMMA SameRest ==
  ASSUME NEW a \in Int, NEW b \in Int, NEW n \in Nat \ {0}, a % n = b % n, a < b
  PROVE  a + n <= b
<1> DEFINE r == a % n
<1>1. PICK j \in Int : a = n * j + r
  BY QuotientAndRest
<1>2. PICK k \in Int : b = n * k + r
  BY QuotientAndRest
<1>3. r \in 0..n - 1
  BY Remainder
<1> HIDE DEF r
<1>4. b - a = n * (k - j)
  BY <1>1, <1>2, <1>3
<1>5. k - j >= 1
  BY <1>4
<1> QED
  BY <1>4, <1>5

LEMMA RestOfRest ==
  ASSUME NEW x \in Int, NEW n \in Nat \ {0}, NEW w \in Nat \ {0}, w % n = 0
  PROVE  (x % w) % n = x % n
<1>1. PICK q \in Int : x = w * q + (x % w)
  BY QuotientAndRest
<1>2. PICK y \in Int : y = x % w
  BY Remainder
<1>3. PICK k \in Int : y = n * k + (y % n)
  BY QuotientAndRest
<1>4. PICK r \in 0..n - 1 : r = y % n
  BY Remainder
<1>5. PICK m \in Int : w = n * m + (w % n)
  <2>1. w \in Int
    OBVIOUS
  <2> QED
    BY <2>1, QuotientAndRest
<1>6. w = n * m
  BY <1>5
<1>7. x = w * q + (n * k + r)
  BY <1>1, <1>2, <1>3, <1>4
<1>8. PICK j \in Int : j = m * q + k
  OBVIOUS
<1>9. x = n * j + r
  <2>1. n * j = n * (m * q) + n * k
    BY <1>8
  <2>2. n * (m * q) = w * q
    BY <1>6
  <2> QED
    BY <1>7, <2>1, <2>2
<1>10. x % n = r
  BY <1>9, UniqueRest
<1> QED
  BY <1>2, <1>4, <1>10

LEMMA Congruent ==
  ASSUME NEW x \in Int, NEW y \in Int, NEW n \in Nat \ {0}, \E q \in Int : x = y + n * q
  PROVE  x % n = y % n
<1>0. PICK q \in Int : x = y + n * q
  OBVIOUS
<1>1. PICK k \in Int : y = n * k + (y % n)
  BY QuotientAndRest
<1>2. PICK r \in 0..n - 1 : r = y % n
  BY Remainder
<1>3. PICK j \in Int : j = k + q
  OBVIOUS
<1>4. x = n * j + r
  BY <1>0, <1>1, <1>2, <1>3
<1>5. x % n = r
  BY <1>4, UniqueRest
<1> QED  BY <1>2, <1>5

\* The distance of two counters that wrap, and the next value of one.
LEMMA Distance ==
  ASSUME NEW w \in Nat \ {0}, NEW h \in 0..w - 1, NEW t \in 0..w - 1
  PROVE  /\ (h - t) % w = IF t <= h THEN h - t ELSE (h - t) + w
         /\ (h + 1) % w = IF h = w - 1 THEN 0 ELSE h + 1
<1>1. ASSUME t <= h PROVE (h - t) % w = h - t
  <2>1. h - t = w * 0 + (h - t) /\ h - t \in 0..w - 1 /\ h - t \in Int  BY <1>1
  <2> QED  BY <2>1, UniqueRest
<1>2. ASSUME ~ (t <= h) PROVE (h - t) % w = (h - t) + w
  <2>1. PICK r \in 0..w - 1 : r = (h - t) + w  BY <1>2
  <2>2. h - t = w * (-1) + r /\ -1 \in Int /\ h - t \in Int  BY <2>1
  <2> QED  BY <2>1, <2>2, UniqueRest
<1>3. ASSUME h = w - 1 PROVE (h + 1) % w = 0
  <2>1. h + 1 = w * 1 + 0 /\ 0 \in 0..w - 1 /\ h + 1 \in Int  BY <1>3
  <2> QED  BY <2>1, UniqueRest
<1>4. ASSUME h # w - 1 PROVE (h + 1) % w = h + 1
  <2>1. h + 1 = w * 0 + (h + 1) /\ h + 1 \in 0..w - 1 /\ h + 1 \in Int  BY <1>4
  <2> QED  BY <2>1, UniqueRest
<1> QED  BY <1>1, <1>2, <1>3, <1>4

\* The values in the ring, one that is being taken included.
Fill == (rhead - rtail) % Wrap

RingInv ==
  /\ rhead \in 0..Wrap - 1 /\ rtail \in 0..Wrap - 1
  /\ buffer \in [0..RingSize - 1 -> Values \cup {None}]
  /\ rpc \in {"idle", "check", "write", "store"} /\ rcpc \in {"idle", "check", "take", "store"}
  /\ rpc # "idle" => rmine \in Values
  /\ Fill <= RingSize - 1
  /\ rpc \in {"write", "store"} => Fill < RingSize - 1
  /\ rpc = "store" => buffer[rhead % RingSize] = rmine
  /\ rcpc \in {"take", "store"} => Fill >= 1

LEMMA RingFits == RingSize <= Wrap
<1>1. 0 = RingSize * 0 + 0 /\ 0 \in 0..RingSize - 1
  BY RingAssumption
<1>2. Wrap \in Int /\ 0 \in Int /\ 0 % RingSize = 0 /\ 0 < Wrap /\ Wrap % RingSize = 0
  BY <1>1, RingAssumption, UniqueRest
<1>3. 0 + RingSize <= Wrap
  BY <1>2, RingAssumption, SameRest
<1> QED  BY <1>3, RingAssumption

LEMMA MaskedRest ==
  ASSUME NEW x \in Int
  PROVE  Ring!Masked(x) = x % RingSize /\ x % RingSize \in 0..RingSize - 1
BY RingAssumption, RestOfRest, Remainder DEF Ring!Masked

LEMMA FillIs ==
  ASSUME rhead \in 0..Wrap - 1, rtail \in 0..Wrap - 1
  PROVE  /\ Fill = IF rtail <= rhead THEN rhead - rtail ELSE (rhead - rtail) + Wrap
         /\ Fill \in 0..Wrap - 1
         /\ (rhead + 1) % Wrap = IF rhead = Wrap - 1 THEN 0 ELSE rhead + 1
         /\ (rtail + 1) % Wrap = IF rtail = Wrap - 1 THEN 0 ELSE rtail + 1
BY RingAssumption, Distance DEF Fill

\* What the two checks compare.
LEMMA Checks ==
  ASSUME RingInv
  PROVE  /\ Ring!Masked(rhead - rtail) = Fill
         /\ Ring!Masked(rtail - (rhead + 1)) = (RingSize - 1) - Fill
<1> DEFINE n == RingSize
<1>1. n \in Nat \ {0} /\ rhead \in Int /\ rtail \in Int /\ Wrap \in Nat \ {0}
  BY RingAssumption DEF RingInv
<1>2. Fill \in 0..n - 1
  BY <1>1, FillIs DEF RingInv
<1>3. Ring!Masked(rhead - rtail) = Fill
  <2>1. Fill % n = Fill
    <3>1. Fill = n * 0 + Fill /\ Fill \in Int /\ 0 \in Int  BY <1>1, <1>2
    <3> HIDE DEF n
    <3> QED  BY <1>1, <1>2, <3>1, UniqueRest
  <2> QED  BY <2>1 DEF Ring!Masked, Fill
<1>4. Ring!Masked(rtail - (rhead + 1)) = (n - 1) - Fill
  <2> DEFINE x == rtail - (rhead + 1)
             y == -1 - Fill
  <2>1. PICK q \in Int : rhead - rtail = Wrap * q + Fill
    <3>1. rhead - rtail \in Int  BY <1>1
    <3> QED  BY <1>1, <3>1, QuotientAndRest DEF Fill
  <2>2. PICK f \in 0..n - 1 : f = Fill
    BY <1>2
  <2>3. x \in Int /\ y \in Int
    BY <1>1, <2>2
  <2>4. PICK k \in Int : x = y + Wrap * k
    <3>1. x = y + Wrap * (-q) /\ -q \in Int
      BY <1>1, <2>1, <2>2
    <3> QED  BY <3>1
  <2>5. Ring!Masked(x) = (y % Wrap) % n
    <3> HIDE DEF x, y
    <3>1. x % Wrap = y % Wrap
      BY <1>1, <2>3, <2>4, Congruent
    <3> QED  BY <3>1 DEF Ring!Masked
  <2>6. (y % Wrap) % n = y % n
    <3> HIDE DEF y
    <3> QED  BY <1>1, <2>3, RingAssumption, RestOfRest
  <2>7. y % n = (n - 1) - Fill
    <3>1. PICK r \in 0..n - 1 : r = (n - 1) - Fill
      BY <1>1, <1>2
    <3>2. PICK j \in Int : y = n * j + r
      <4>1. y = n * (-1) + r /\ -1 \in Int
        BY <1>1, <2>2, <3>1
      <4> QED  BY <4>1
    <3> HIDE DEF y, n
    <3>3. y % n = r
      BY <1>1, <2>3, <3>2, UniqueRest
    <3> QED  BY <3>1, <3>3
  <2> QED  BY <2>5, <2>6, <2>7
<1> QED  BY <1>3, <1>4

LEMMA RingInit ==
  ASSUME Ring!Init
  PROVE  RingInv
<1>1. rhead \in 0..Wrap - 1 /\ rtail \in 0..Wrap - 1 /\ rhead = 0 /\ rtail = 0
  BY RingAssumption DEF Ring!Init
<1>2. Fill = 0
  BY <1>1, FillIs
<1> QED  BY <1>1, <1>2, RingAssumption DEF Ring!Init, Ring!Slots, RingInv

\* How the two stores change the number of values.
LEMMA FillMoves ==
  ASSUME NEW w \in Nat \ {0}, NEW h \in 0..w - 1, NEW t \in 0..w - 1
  PROVE  /\ (h - t) % w < w - 1 => (((h + 1) % w) - t) % w = ((h - t) % w) + 1
         /\ (h - t) % w >= 1 => (h - ((t + 1) % w)) % w = ((h - t) % w) - 1
<1> DEFINE hh == (h + 1) % w
           tt == (t + 1) % w
<1>1. /\ (h - t) % w = IF t <= h THEN h - t ELSE (h - t) + w
      /\ hh = IF h = w - 1 THEN 0 ELSE h + 1
  BY Distance
<1>2. tt = IF t = w - 1 THEN 0 ELSE t + 1
  BY Distance
<1>3. hh \in 0..w - 1 /\ tt \in 0..w - 1
  BY <1>1, <1>2
<1> HIDE DEF hh, tt
<1>4. (hh - t) % w = IF t <= hh THEN hh - t ELSE (hh - t) + w
  BY <1>3, Distance
<1>5. (h - tt) % w = IF tt <= h THEN h - tt ELSE (h - tt) + w
  BY <1>3, Distance
<1>6. (h - t) % w < w - 1 => (hh - t) % w = ((h - t) % w) + 1
  BY <1>1, <1>3, <1>4
<1>7. (h - t) % w >= 1 => (h - tt) % w = ((h - t) % w) - 1
  BY <1>1, <1>2, <1>3, <1>5
<1> QED  BY <1>6, <1>7 DEF hh, tt

LEMMA RingStep ==
  ASSUME RingInv, Ring!Next
  PROVE  RingInv'
<1>1. /\ rhead \in 0..Wrap - 1 /\ rtail \in 0..Wrap - 1 /\ rhead \in Int /\ rtail \in Int
      /\ RingSize \in Nat \ {0} /\ Wrap \in Nat \ {0} /\ Fill \in Nat /\ RingSize <= Wrap
  <2>1. RingSize <= Wrap
    BY RingFits
  <2> QED  BY <2>1, RingAssumption, FillIs DEF RingInv
<1>2. CASE \E v \in Values : Ring!EnqCall(v)
  BY <1>2 DEF RingInv, Fill, Ring!EnqCall
<1>3. CASE Ring!EnqCheck
  <2>1. rpc' = "write" => Fill < RingSize - 1
    BY <1>1, <1>3, Checks DEF Ring!EnqCheck
  <2>2. Fill' = Fill
    BY <1>3 DEF Ring!EnqCheck, Fill
  <2> QED  BY <1>3, <2>1, <2>2 DEF RingInv, Ring!EnqCheck
<1>4. CASE Ring!EnqWrite
  <2>1. rhead % RingSize \in 0..RingSize - 1 /\ Ring!Masked(rhead) = rhead % RingSize
    BY <1>1, MaskedRest
  <2>2. Fill' = Fill
    BY <1>4 DEF Ring!EnqWrite, Fill
  <2> QED  BY <1>4, <2>1, <2>2 DEF RingInv, Ring!EnqWrite
<1>5. CASE Ring!EnqStore
  <2>1. Fill < RingSize - 1 /\ Fill < Wrap - 1
    BY <1>1, <1>5 DEF RingInv, Ring!EnqStore
  <2>2. rhead' = (rhead + 1) % Wrap /\ rtail' = rtail
    BY <1>5 DEF Ring!EnqStore
  <2>3. Fill' = Fill + 1
    BY <1>1, <2>1, <2>2, FillMoves DEF Fill
  <2>4. rhead' \in 0..Wrap - 1
    BY <1>1, <2>2, FillIs
  <2> QED  BY <1>1, <1>5, <2>1, <2>3, <2>4 DEF RingInv, Ring!EnqStore
<1>6. CASE Ring!DeqCall
  BY <1>6 DEF RingInv, Fill, Ring!DeqCall
<1>7. CASE Ring!DeqCheck
  <2>1. rcpc' = "take" => Fill >= 1
    BY <1>7, Checks DEF Ring!DeqCheck
  <2>2. Fill' = Fill
    BY <1>7 DEF Ring!DeqCheck, Fill
  <2> QED  BY <1>7, <2>1, <2>2 DEF RingInv, Ring!DeqCheck
<1>8. CASE Ring!DeqTake
  BY <1>8 DEF RingInv, Fill, Ring!DeqTake
<1>9. CASE Ring!DeqStore
  <2>1. Fill >= 1
    BY <1>9 DEF RingInv, Ring!DeqStore
  <2>2. rtail' = (rtail + 1) % Wrap /\ rhead' = rhead
    BY <1>9 DEF Ring!DeqStore
  <2>3. Fill' = Fill - 1
    BY <1>1, <2>1, <2>2, FillMoves DEF Fill
  <2>4. rtail' \in 0..Wrap - 1
    BY <1>1, <2>2, FillIs
  <2> QED  BY <1>1, <1>9, <2>1, <2>3, <2>4 DEF RingInv, Ring!DeqStore
<1> QED
  BY <1>2, <1>3, <1>4, <1>5, <1>6, <1>7, <1>8, <1>9 DEF Ring!Next

LEMMA RingHonest ==
  ASSUME RingInv, Ring!Next
  PROVE  Ring!HonestStep
<1>1. ASSUME rpc = "check", rpc' = "idle" PROVE Ring!Masked(rhead - rtail) = RingSize - 1
  <2>1. Ring!EnqCheck
    BY <1>1 DEF Ring!Next, Ring!EnqCall, Ring!EnqWrite, Ring!EnqStore, Ring!DeqCall, Ring!DeqCheck,
                Ring!DeqTake, Ring!DeqStore
  <2>2. ~ (Ring!Masked(rtail - (rhead + 1)) >= 1)
    BY <1>1, <2>1 DEF Ring!EnqCheck
  <2>3. Fill \in Nat /\ Fill <= RingSize - 1 /\ RingSize \in Nat
    BY FillIs, RingAssumption DEF RingInv
  <2> QED  BY <2>2, <2>3, Checks
<1>2. ASSUME rcpc = "check", rcpc' = "idle" PROVE rhead = rtail
  <2>1. Ring!DeqCheck
    BY <1>2 DEF Ring!Next, Ring!EnqCall, Ring!EnqCheck, Ring!EnqWrite, Ring!EnqStore, Ring!DeqCall,
                Ring!DeqTake, Ring!DeqStore
  <2>2. ~ (Fill >= 1)
    BY <1>2, <2>1, Checks DEF Ring!DeqCheck
  <2> QED  BY <2>2, FillIs, RingAssumption DEF RingInv
<1> QED  BY <1>1, <1>2 DEF Ring!HonestStep

\* The counter of the oldest value and the number of values that follow it.
LEMMA FirstOf ==
  ASSUME RingInv
  PROVE  /\ Ring!First \in Int
         /\ (rhead - Ring!First) % Wrap = IF rcpc = "store" THEN Fill - 1 ELSE Fill
         /\ (rhead - Ring!First) % Wrap \in Nat
         /\ (rhead - Ring!First) % Wrap <= Fill
         /\ (Ring!First + ((rhead - Ring!First) % Wrap)) % RingSize = rhead % RingSize
<1>1. rhead \in Int /\ rtail \in Int /\ Wrap \in Nat \ {0} /\ RingSize \in Nat \ {0}
  BY RingAssumption DEF RingInv
<1>2. Fill \in 0..Wrap - 1 /\ Fill \in Int
  BY <1>1, FillIs DEF RingInv
<1> DEFINE f == Ring!First
           l == (rhead - f) % Wrap
<1>3. f \in Int /\ rhead - f \in Int
  BY <1>1 DEF Ring!First
<1>4. l = IF rcpc = "store" THEN Fill - 1 ELSE Fill
  <2>1. CASE rcpc = "store"
    <3>1. PICK d \in 0..Wrap - 1 : d = Fill - 1
      BY <1>1, <1>2, <2>1 DEF RingInv
    <3>2. PICK q \in Int : rhead - rtail = Wrap * q + Fill
      <4>1. rhead - rtail \in Int  BY <1>1
      <4> QED  BY <1>1, <4>1, QuotientAndRest DEF Fill
    <3>3. rhead - f = Wrap * q + d
      BY <1>1, <1>2, <2>1, <3>1, <3>2 DEF Ring!First
    <3> HIDE DEF f
    <3>4. (rhead - f) % Wrap = d
      BY <1>1, <1>3, <3>3, UniqueRest
    <3> QED  BY <2>1, <3>1, <3>4
  <2>2. CASE rcpc # "store"
    BY <2>2 DEF Ring!First, Fill
  <2> QED  BY <2>1, <2>2
<1>5. l \in 0..Wrap - 1 /\ l \in Nat
  <2> HIDE DEF f
  <2> QED  BY <1>1, <1>3, Remainder
<1>6. l <= Fill
  <2> HIDE DEF l
  <2> QED  BY <1>2, <1>4
<1>7. (f + l) % RingSize = rhead % RingSize
  <2> HIDE DEF f
  <2>1. PICK q \in Int : rhead - f = Wrap * q + l
    BY <1>1, <1>3, QuotientAndRest
  <2> HIDE DEF l
  <2>2. f + l \in Int
    BY <1>3, <1>5
  <2>3. PICK k \in Int : f + l = rhead + Wrap * k
    <3>1. f + l = rhead + Wrap * (-q) /\ -q \in Int
      BY <1>1, <1>3, <1>5, <2>1
    <3> QED  BY <3>1
  <2>4. (f + l) % Wrap = rhead % Wrap
    BY <1>1, <2>2, <2>3, Congruent
  <2>5. ((f + l) % Wrap) % RingSize = (f + l) % RingSize
    BY <1>1, <2>2, RingAssumption, RestOfRest
  <2>6. (rhead % Wrap) % RingSize = rhead % RingSize
    BY <1>1, RingAssumption, RestOfRest
  <2> QED  BY <2>4, <2>5, <2>6
<1> HIDE DEF l, f
<1> QED  BY <1>3, <1>4, <1>5, <1>6, <1>7 DEF l, f

\* The queue of the ring, as a sequence.
Held == Ring!Queue

HeldIs ==
  /\ Held \in Seq(Values \cup {None})
  /\ Len(Held) = IF rcpc = "store" THEN Fill - 1 ELSE Fill
  /\ \A k \in 1..Len(Held) : Held[k] = buffer[(Ring!First + k - 1) % RingSize]

LEMMA HeldSeq == RingInv => HeldIs
<1> SUFFICES ASSUME RingInv PROVE HeldIs
  OBVIOUS
<1> DEFINE l == (rhead - Ring!First) % Wrap
<1>1. Ring!First \in Int /\ l \in Nat
  BY FirstOf
<1> HIDE DEF l
<1>2. \A k \in 1..l : /\ Ring!Masked(Ring!First + k - 1) = (Ring!First + k - 1) % RingSize
                      /\ (Ring!First + k - 1) % RingSize \in 0..RingSize - 1
  <2> SUFFICES ASSUME NEW k \in 1..l
               PROVE  /\ Ring!Masked(Ring!First + k - 1) = (Ring!First + k - 1) % RingSize
                      /\ (Ring!First + k - 1) % RingSize \in 0..RingSize - 1
    OBVIOUS
  <2>1. Ring!First + k - 1 \in Int
    BY <1>1
  <2> QED  BY <2>1, MaskedRest
<1>3. Held = [k \in 1..l |-> buffer[Ring!Masked(Ring!First + k - 1)]]
  BY DEF Held, Ring!Queue, l
<1>4. \A k \in 1..l : Held[k] = buffer[(Ring!First + k - 1) % RingSize]
                      /\ Held[k] \in Values \cup {None}
  BY <1>2, <1>3 DEF RingInv
<1>5. Held \in Seq(Values \cup {None}) /\ Len(Held) = l
  <2>1. Held \in [1..l -> Values \cup {None}]
    BY <1>3, <1>4
  <2> QED  BY <1>1, <2>1
<1>6. l = IF rcpc = "store" THEN Fill - 1 ELSE Fill
  BY FirstOf DEF l
<1> QED  BY <1>4, <1>5, <1>6 DEF HeldIs

\* The store of _head is the enqueue, the read of the slot the dequeue.
LEMMA RingFifo ==
  ASSUME RingInv, Ring!Next
  PROVE  Ring!FifoStep
<1> DEFINE V == Values \cup {None}
<1>1. RingInv' /\ HeldIs /\ HeldIs'
  <2>1. RingInv'  BY RingStep
  <2>2. RingInv' => HeldIs'  BY HeldSeq, PTL
  <2> QED  BY <2>1, <2>2, HeldSeq
<1>2. /\ Held \in Seq(V) /\ Held' \in Seq(V)
      /\ Len(Held) = IF rcpc = "store" THEN Fill - 1 ELSE Fill
      /\ Len(Held') = IF rcpc' = "store" THEN Fill' - 1 ELSE Fill'
      /\ \A k \in 1..Len(Held) : Held[k] = buffer[(Ring!First + k - 1) % RingSize]
      /\ \A k \in 1..Len(Held') : Held'[k] = buffer'[(Ring!First' + k - 1) % RingSize]
  BY <1>1 DEF HeldIs
<1> HIDE DEF V
<1>3. Len(Held) \in Nat /\ Len(Held') \in Nat
  BY <1>2
<1>4. /\ rhead \in 0..Wrap - 1 /\ rtail \in 0..Wrap - 1 /\ rhead \in Int /\ rtail \in Int
      /\ RingSize \in Nat \ {0} /\ Wrap \in Nat \ {0} /\ Ring!First \in Int
      /\ Fill \in Nat
  BY RingAssumption, FillIs, FirstOf DEF RingInv
<1>5. Ring!EnqStore =>
        Held' = Append(Held, rmine) /\ Len(Held) < RingSize - 1 /\ rmine \in Values /\ rgot' = rgot
  <2> SUFFICES ASSUME Ring!EnqStore
               PROVE  Held' = Append(Held, rmine) /\ Len(Held) < RingSize - 1 /\ rmine \in Values
                      /\ rgot' = rgot
    OBVIOUS
  <2>1. /\ Fill < RingSize - 1 /\ rmine \in Values /\ rgot' = rgot /\ rcpc' = rcpc
        /\ rtail' = rtail /\ rhead' = (rhead + 1) % Wrap /\ buffer' = buffer
        /\ buffer[rhead % RingSize] = rmine
    BY DEF Ring!EnqStore, RingInv
  <2>2. Fill < Wrap - 1
    <3>1. RingSize <= Wrap  BY RingFits
    <3> QED  BY <1>4, <2>1, <3>1
  <2>3. Fill' = Fill + 1
    BY <1>4, <2>1, <2>2, FillMoves DEF Fill
  <2>4. Ring!First' = Ring!First
    BY <2>1 DEF Ring!First
  <2>5. Len(Held') = Len(Held) + 1 /\ Len(Held) < RingSize - 1
    BY <1>2, <1>3, <1>4, <2>1, <2>3
  <2>6. Held'[Len(Held) + 1] = rmine
    <3> DEFINE l == Len(Held)
    <3>1. (Ring!First + l) % RingSize = rhead % RingSize
      BY <1>2, FirstOf
    <3>2. l + 1 \in 1..Len(Held') /\ Ring!First + (l + 1) - 1 = Ring!First + l
      BY <1>3, <1>4, <2>5
    <3> HIDE DEF l
    <3>3. Held'[l + 1] = buffer'[(Ring!First' + (l + 1) - 1) % RingSize]
      BY <1>2, <3>2
    <3> QED  BY <2>1, <2>4, <3>1, <3>2, <3>3 DEF l
  <2>7. \A k \in 1..Len(Held) : Held'[k] = Held[k]
    <3>1. \A k \in 1..Len(Held) : k \in 1..Len(Held')
      BY <1>3, <2>5
    <3> QED  BY <1>2, <2>1, <2>4, <3>1
  <2>8. rmine \in V
    BY <2>1 DEF V
  <2>9. Held' = Append(Held, rmine)
    BY <1>2, <1>3, <2>5, <2>6, <2>7, <2>8
  <2> QED  BY <2>1, <2>5, <2>9
<1>6. Ring!DeqTake =>
        Held # <<>> /\ Held' = Tail(Held) /\ rgot' = Head(Held)
  <2> SUFFICES ASSUME Ring!DeqTake
               PROVE  Held # <<>> /\ Held' = Tail(Held) /\ rgot' = Head(Held)
    OBVIOUS
  <2>1. /\ Fill >= 1 /\ rcpc = "take" /\ rcpc' = "store" /\ Fill' = Fill /\ rtail' = rtail
        /\ buffer' = buffer /\ rgot' = buffer[Ring!Masked(rtail)]
    BY DEF Ring!DeqTake, RingInv, Fill
  <2>2. Ring!First = rtail /\ Ring!First' = rtail + 1
    BY <2>1 DEF Ring!First
  <2>3. Len(Held) >= 1 /\ Len(Held') = Len(Held) - 1
    BY <1>2, <1>4, <2>1
  <2>4. Held[1] = rgot'
    <3>1. 1 \in 1..Len(Held) /\ rtail + 1 - 1 = rtail  BY <1>3, <1>4, <2>3
    <3> QED  BY <1>2, <1>4, <2>1, <2>2, <3>1, MaskedRest
  <2>5. \A k \in 1..Len(Held') : Held'[k] = Held[k + 1]
    <3> SUFFICES ASSUME NEW k \in 1..Len(Held') PROVE Held'[k] = Held[k + 1]
      OBVIOUS
    <3>1. k + 1 \in 1..Len(Held) /\ (rtail + 1) + k - 1 = rtail + (k + 1) - 1
      BY <1>3, <1>4, <2>3
    <3> QED  BY <1>2, <2>1, <2>2, <3>1
  <2> QED  BY <1>2, <1>3, <2>3, <2>4, <2>5
<1>7. Ring!EnqWrite => Held' = Held /\ rgot' = rgot
  <2> SUFFICES ASSUME Ring!EnqWrite PROVE Held' = Held /\ rgot' = rgot
    OBVIOUS
  <2>1. /\ Fill < RingSize - 1 /\ rgot' = rgot /\ rcpc' = rcpc /\ rtail' = rtail /\ rhead' = rhead
        /\ Fill' = Fill /\ buffer' = [buffer EXCEPT ![Ring!Masked(rhead)] = rmine]
    BY DEF Ring!EnqWrite, RingInv, Fill
  <2>2. Ring!First' = Ring!First /\ Len(Held') = Len(Held)
    BY <1>2, <2>1 DEF Ring!First
  <2>3. ASSUME NEW k \in 1..Len(Held) PROVE Held'[k] = Held[k]
    <3> DEFINE a == Ring!First + k - 1
               b == Ring!First + Len(Held)
    <3>1. a \in Int /\ b \in Int /\ a < b /\ Len(Held) <= Fill
      BY <1>2, <1>3, <1>4
    <3>2. b % RingSize = rhead % RingSize
      BY <1>2, FirstOf
    <3>3. ~ (a + RingSize <= b)
      BY <1>3, <1>4, <2>1, <3>1
    <3> HIDE DEF a, b
    <3>4. a % RingSize # rhead % RingSize
      BY <1>4, <3>1, <3>2, <3>3, SameRest
    <3>5. Ring!Masked(rhead) = rhead % RingSize
      BY <1>4, MaskedRest
    <3>6. a % RingSize \in 0..RingSize - 1
      BY <1>4, <3>1, Remainder
    <3>7. buffer'[a % RingSize] = buffer[a % RingSize]
      BY <2>1, <3>4, <3>5, <3>6 DEF RingInv
    <3> QED  BY <1>2, <2>2, <3>7 DEF a
  <2> QED  BY <1>2, <1>3, <2>1, <2>2, <2>3, SeqEqual
<1>8. Ring!DeqStore => Held' = Held /\ rgot' = rgot
  <2> SUFFICES ASSUME Ring!DeqStore PROVE Held' = Held /\ rgot' = rgot
    OBVIOUS
  <2>1. /\ Fill >= 1 /\ rgot' = rgot /\ rcpc = "store" /\ rcpc' = "idle" /\ rhead' = rhead
        /\ rtail' = (rtail + 1) % Wrap /\ buffer' = buffer
    BY DEF Ring!DeqStore, RingInv
  <2>2. Fill' = Fill - 1
    BY <1>4, <2>1, FillMoves DEF Fill
  <2>3. Len(Held') = Len(Held)
    BY <1>2, <2>1, <2>2
  <2>4. Ring!First = rtail + 1 /\ Ring!First' = (rtail + 1) % Wrap
    BY <2>1 DEF Ring!First
  <2>5. ASSUME NEW k \in 1..Len(Held) PROVE Held'[k] = Held[k]
    <3> DEFINE a == Ring!First + k - 1
               b == Ring!First' + k - 1
    <3>1. PICK q \in Int : Ring!First = Wrap * q + Ring!First'
      BY <1>4, <2>4, QuotientAndRest
    <3>2. Ring!First' \in Int
      BY <1>4, <2>4, Remainder
    <3>3. a \in Int /\ b \in Int
      BY <1>4, <3>2
    <3>4. a = b + Wrap * q
      BY <1>4, <3>1, <3>2
    <3> HIDE DEF a, b
    <3>5. a % Wrap = b % Wrap
      BY <1>4, <3>3, <3>4, Congruent
    <3>6. (a % Wrap) % RingSize = a % RingSize
      BY <1>4, <3>3, RingAssumption, RestOfRest
    <3>7. (b % Wrap) % RingSize = b % RingSize
      BY <1>4, <3>3, RingAssumption, RestOfRest
    <3> QED  BY <1>2, <2>1, <2>3, <3>5, <3>6, <3>7 DEF a, b
  <2> QED  BY <1>2, <1>3, <2>1, <2>3, <2>5, SeqEqual
<1>9. ASSUME Ring!EnqCheck \/ Ring!DeqCall \/ Ring!DeqCheck \/ \E v \in Values : Ring!EnqCall(v)
      PROVE  Held' = Held /\ rgot' = rgot
  BY <1>9 DEF Ring!EnqCheck, Ring!DeqCall, Ring!DeqCheck, Ring!EnqCall, Held, Ring!Queue, Ring!First
<1>10. CASE Ring!EnqStore
  <2>1. Ring!Fifo!Put(rmine)
    BY <1>5, <1>10 DEF Ring!Fifo!Put, Held
  <2> QED  BY <1>5, <1>10, <2>1 DEF Ring!FifoStep, Ring!Fifo!Next
<1>11. CASE Ring!DeqTake
  <2>1. Ring!Fifo!Get(0)
    BY <1>6, <1>11 DEF Ring!Fifo!Get, Held
  <2> QED  BY <2>1 DEF Ring!FifoStep, Ring!Fifo!Next
<1>12. CASE Held' = Held /\ rgot' = rgot
  BY <1>12 DEF Ring!FifoStep, Held
<1> QED
  BY <1>7, <1>8, <1>9, <1>10, <1>11, <1>12 DEF Ring!Next

\* A queue that does not run takes no step.
LEMMA RingIdle ==
  ASSUME UNCHANGED ringVars
  PROVE  Ring!FifoStep /\ Ring!HonestStep
<1>1. Ring!Queue' = Ring!Queue
  BY DEF ringVars, Ring!Queue, Ring!First
<1> QED  BY <1>1 DEF ringVars, Ring!FifoStep, Ring!HonestStep

LEMMA LinkedIdle ==
  ASSUME UNCHANGED linkedVars
  PROVE  Linked!FifoStep /\ Linked!HonestStep
BY DEF linkedVars, Linked!FifoStep, Linked!HonestStep

\* The linked queues (mpsc-queue.hpp, spsc-queue.hpp) and the ring
\* (spsc-bounded-queue.hpp) take every step as a bounded first-in first-out
\* queue or leave it as it is, and their calls fail only for the reasons a
\* caller may count on: for any number of producers and nodes, and any ring
\* whose size divides the range of its counters.
THEOREM QueuesFifo == Spec => QueueSteps
<1> DEFINE Inv == LinkedInv /\ RingInv
           Step == Linked!FifoStep /\ Linked!HonestStep /\ Ring!FifoStep /\ Ring!HonestStep
<1>1. Init => Inv
  BY LinkedInit, RingInit DEF Init
<1>2. Inv /\ [Next]_vars => Inv' /\ [Step]_vars
  <2> SUFFICES ASSUME Inv, [Next]_vars PROVE Inv' /\ [Step]_vars
    OBVIOUS
  <2>1. LinkedInv'
    BY LinkedStep
  <2>2. RingInv'
    <3>1. CASE RingNext
      BY <3>1, RingStep DEF RingNext
    <3>2. CASE UNCHANGED ringVars
      BY <3>2 DEF ringVars, RingInv, Fill
    <3> QED
      BY <3>1, <3>2 DEF Next, vars, MpmcNext, LinkedNext, PipelineNext, ServiceNext, RwNext, WheelNext
  <2>3. CASE LinkedNext
    <3>1. Linked!FifoStep /\ Linked!HonestStep
      BY <2>3, LinkedFifo, LinkedHonest DEF LinkedNext
    <3>2. UNCHANGED ringVars
      BY <2>3 DEF LinkedNext
    <3>3. Ring!FifoStep /\ Ring!HonestStep
      BY <3>2, RingIdle
    <3> QED  BY <2>1, <2>2, <3>1, <3>3
  <2>4. CASE RingNext
    <3>1. Ring!FifoStep /\ Ring!HonestStep
      BY <2>4, RingFifo, RingHonest DEF RingNext
    <3>2. UNCHANGED linkedVars
      BY <2>4 DEF RingNext
    <3>3. Linked!FifoStep /\ Linked!HonestStep
      BY <3>2, LinkedIdle
    <3> QED  BY <2>1, <2>2, <3>1, <3>3
  <2>5. CASE UNCHANGED <<linkedVars, ringVars>>
    BY <2>1, <2>2, <2>5, RingIdle, LinkedIdle
  <2> QED
    BY <2>1, <2>2, <2>3, <2>4, <2>5
    DEF Next, vars, MpmcNext, PipelineNext, ServiceNext, RwNext, WheelNext
<1> QED  BY <1>1, <1>2, PTL DEF Spec, QueueSteps

-----------------------------------------------------------------------------
(* The time wheel *)

In(l, t) == \E i \in 1..Len(l) : l[i] = t
Distinct(l) == \A i, j \in 1..Len(l) : l[i] = l[j] => i = j

\* Removing the one place of t.
LEMMA RemovedAt ==
  ASSUME NEW S, NEW l \in Seq(S), NEW t, Distinct(l), NEW i \in 1..Len(l), l[i] = t
  PROVE  Wheel!RemoveFirst(l, t) = SubSeq(l, 1, i - 1) \o SubSeq(l, i + 1, Len(l))
<1> DEFINE I == {k \in 1..Len(l) : l[k] = t}
<1>1. I = {i}
  BY DEF Distinct
<1>2. Wheel!SelectInSeq(l, LAMBDA v : v = t) = IF I # {} THEN Wheel!Min(I) ELSE 0
  BY DEF Wheel!SelectInSeq
<1>3. Wheel!RemoveFirst(l, t) = Wheel!RemoveAt(l, Wheel!SelectInSeq(l, LAMBDA v : v = t))
  BY DEF Wheel!RemoveFirst
<1> HIDE DEF I
<1>4. Wheel!Min(I) = i
  BY <1>1 DEF Wheel!Min
<1> QED  BY <1>1, <1>2, <1>3, <1>4 DEF Wheel!RemoveAt

\* A list without its one place of t has the others, each once.
LEMMA Removed ==
  ASSUME NEW S, NEW l \in Seq(S), NEW t, Distinct(l)
  PROVE  LET r == Wheel!RemoveFirst(l, t)
         IN  r \in Seq(S) /\ Distinct(r) /\ \A u : In(r, u) <=> In(l, u) /\ u # t
<1>1. CASE ~ In(l, t)
  <2>1. Wheel!RemoveFirst(l, t) = l
    BY <1>1 DEF In, Wheel!RemoveFirst
  <2>2. \A u : In(l, u) => u # t
    BY <1>1
  <2> QED  BY <2>1, <2>2
<1>2. CASE In(l, t)
  <2>1. PICK i \in 1..Len(l) : l[i] = t
    BY <1>2 DEF In
  <2> DEFINE n == Len(l)
             a == SubSeq(l, 1, i - 1)
             b == SubSeq(l, i + 1, n)
             r == a \o b
  <2>2. n \in Nat /\ i \in 1..n /\ \A j \in 1..n : l[j] \in S
    OBVIOUS
  <2>3. a \in Seq(S) /\ Len(a) = i - 1 /\ \A j \in 1..(i - 1) : a[j] = l[j]
    <3>1. \A j \in 1..(i - 1) : l[j] \in S  BY <2>2
    <3> QED  BY <2>2, <3>1, SubSeqProperties
  <2>4. b \in Seq(S) /\ Len(b) = n - i /\ \A j \in 1..(n - i) : b[j] = l[i + j]
    <3> DEFINE m == i + 1
    <3>1. (\A j \in m..n : l[j] \in S) /\ m \in Int /\ n \in Int  BY <2>2
    <3>2. (IF m <= n THEN n - m + 1 ELSE 0) = n - i /\ n - m + 1 = n - i
          /\ \A j \in 1..(n - i) : m + j - 1 = i + j
      BY <2>2
    <3>4. b = SubSeq(l, m, n)  OBVIOUS
    <3> HIDE DEF m, n, b
    <3>3. /\ SubSeq(l, m, n) \in Seq(S)
          /\ Len(SubSeq(l, m, n)) = IF m <= n THEN n - m + 1 ELSE 0
          /\ \A j \in 1..(n - m + 1) : SubSeq(l, m, n)[j] = l[m + j - 1]
      BY <3>1, SubSeqProperties
    <3> QED  BY <3>2, <3>3, <3>4
  <2>5. Wheel!RemoveFirst(l, t) = r
    BY <2>1, RemovedAt
  <2> HIDE DEF a, b, n
  <2>6. r \in Seq(S) /\ Len(r) = n - 1 /\ (\A j \in 1..(i - 1) : r[j] = a[j])
        /\ \A j \in i..(n - 1) : r[j] = b[j - (i - 1)]
    <3>1. a \in Seq(S) /\ b \in Seq(S) /\ Len(a) = i - 1 /\ Len(b) = n - i
      BY <2>3, <2>4
    <3>2. r \in Seq(S) /\ Len(r) = Len(a) + Len(b)
          /\ \A j \in 1..(Len(a) + Len(b)) :
               r[j] = IF j <= Len(a) THEN a[j] ELSE b[j - Len(a)]
      BY <3>1, ConcatProperties
    <3> HIDE DEF r
    <3> QED  BY <2>2, <3>1, <3>2
  <2>7. \A j \in i..(n - 1) : r[j] = l[j + 1]
    <3> TAKE j \in i..(n - 1)
    <3>1. j - (i - 1) \in 1..(n - i) /\ i + (j - (i - 1)) = j + 1
      BY <2>2
    <3> QED  BY <2>4, <2>6, <3>1
  <2>8. \A j \in 1..(i - 1) : r[j] = l[j]
    BY <2>3, <2>6
  <2> HIDE DEF r
  <2> DEFINE p(j) == IF j < i THEN j ELSE j + 1
  <2>0. \A j \in 1..(n - 1) : p(j) \in 1..n /\ p(j) # i /\ r[j] = l[p(j)]
    <3> TAKE j \in 1..(n - 1)
    <3>1. CASE j < i
      BY <2>2, <2>8, <3>1
    <3>2. CASE ~ (j < i)
      BY <2>2, <2>7, <3>2
    <3> QED  BY <3>1, <3>2
  <2>9. Distinct(r)
    <3> SUFFICES ASSUME NEW j \in 1..(n - 1), NEW k \in 1..(n - 1), r[j] = r[k]
                 PROVE  j = k
      BY <2>6 DEF Distinct
    <3>1. p(j) = p(k)
      BY <2>0 DEF Distinct, n
    <3> QED  BY <2>2, <3>1
  <2>10. \A u : In(r, u) => In(l, u) /\ u # t
    <3> SUFFICES ASSUME NEW j \in 1..(n - 1)
                 PROVE  In(l, r[j]) /\ r[j] # t
      BY <2>6 DEF In
    <3> HIDE DEF p
    <3> QED  BY <2>0, <2>1 DEF In, Distinct, n
  <2>11. ASSUME NEW u, In(l, u), u # t PROVE In(r, u)
    <3>1. PICK k \in 1..n : l[k] = u
      BY <2>11 DEF In, n
    <3>2. CASE k < i
      BY <2>2, <2>6, <2>8, <3>1, <3>2 DEF In
    <3>3. CASE k > i
      <4>1. k - 1 \in i..(n - 1) /\ (k - 1) + 1 = k /\ k - 1 \in 1..(n - 1)
        BY <2>2, <3>3
      <4>2. r[k - 1] = u
        BY <2>7, <3>1, <4>1
      <4> QED  BY <2>6, <4>1, <4>2 DEF In
    <3> QED  BY <2>1, <2>2, <2>11, <3>1, <3>2, <3>3
  <2> QED  BY <2>5, <2>6, <2>9, <2>10, <2>11
<1> QED  BY <1>1, <1>2

\* A list with one more in front.
LEMMA InFront ==
  ASSUME NEW S, NEW l \in Seq(S), NEW t \in S, Distinct(l), ~ In(l, t)
  PROVE  /\ <<t>> \o l \in Seq(S) /\ Distinct(<<t>> \o l)
         /\ \A u : In(<<t>> \o l, u) <=> In(l, u) \/ u = t
<1> DEFINE n == Len(l)
           r == <<t>> \o l
<1>1. n \in Nat /\ r \in Seq(S) /\ Len(r) = n + 1 /\ r[1] = t
      /\ \A k \in 1..n : r[k + 1] = l[k]
  OBVIOUS
<1>2. \A k \in 1..(n + 1) : k = 1 \/ (k - 1 \in 1..n /\ r[k] = l[k - 1])
  <2> TAKE k \in 1..(n + 1)
  <2>1. k = 1 \/ (k - 1 \in 1..n /\ (k - 1) + 1 = k)
    BY <1>1
  <2> QED  BY <1>1, <2>1
<1> HIDE DEF r
<1>3. Distinct(r)
  <2> SUFFICES ASSUME NEW j \in 1..(n + 1), NEW k \in 1..(n + 1), r[j] = r[k]
               PROVE  j = k
    BY <1>1 DEF Distinct
  <2>1. \A m \in 1..n : l[m] # t
    BY DEF In
  <2>2. CASE j = 1 \/ k = 1
    BY <1>1, <1>2, <2>1, <2>2
  <2>3. CASE j # 1 /\ k # 1
    <3>1. j - 1 \in 1..n /\ k - 1 \in 1..n /\ l[j - 1] = l[k - 1]
      BY <1>2, <2>3
    <3>2. j - 1 = k - 1
      BY <3>1 DEF Distinct
    <3> QED  BY <1>1, <3>2
  <2> QED  BY <2>2, <2>3
<1>4. \A u : In(r, u) => In(l, u) \/ u = t
  BY <1>1, <1>2 DEF In
<1>5. \A u : In(l, u) \/ u = t => In(r, u)
  <2>1. \A k \in 1..n : k + 1 \in 1..(n + 1)  BY <1>1
  <2>2. 1 \in 1..(n + 1)  BY <1>1
  <2> QED  BY <1>1, <2>1, <2>2 DEF In
<1> QED  BY <1>1, <1>3, <1>4, <1>5 DEF r

\* A list without its first.
LEMMA Behind ==
  ASSUME NEW S, NEW l \in Seq(S), Distinct(l), l # <<>>
  PROVE  /\ Head(l) \in S /\ Tail(l) \in Seq(S) /\ Distinct(Tail(l)) /\ In(l, Head(l))
         /\ \A u : In(Tail(l), u) <=> In(l, u) /\ u # Head(l)
<1> DEFINE n == Len(l)
           r == Tail(l)
<1>1. n \in Nat /\ n > 0 /\ r \in Seq(S) /\ Len(r) = n - 1 /\ Head(l) = l[1] /\ l[1] \in S
      /\ \A k \in 1..(n - 1) : r[k] = l[k + 1]
  OBVIOUS
<1>2. \A k \in 1..n : k = 1 \/ (k - 1 \in 1..(n - 1) /\ r[k - 1] = l[k])
  <2> TAKE k \in 1..n
  <2>1. k = 1 \/ (k - 1 \in 1..(n - 1) /\ (k - 1) + 1 = k)
    BY <1>1
  <2> QED  BY <1>1, <2>1
<1> HIDE DEF r
<1>3. \A k \in 1..(n - 1) : k + 1 \in 1..n /\ k + 1 # 1
  BY <1>1
<1>4. Distinct(r)
  BY <1>1, <1>3 DEF Distinct
<1>5. \A u : In(r, u) => In(l, u) /\ u # l[1]
  <2>1. 1 \in 1..n  BY <1>1
  <2> QED  BY <1>1, <1>3, <2>1 DEF In, Distinct
<1>6. \A u : In(l, u) /\ u # l[1] => In(r, u)
  BY <1>1, <1>2 DEF In
<1>7. In(l, l[1])
  BY <1>1 DEF In
<1> QED  BY <1>1, <1>4, <1>5, <1>6, <1>7 DEF r

WheelTypeOK ==
  /\ buckets \in [Wheel!Slots -> Seq(Wheel!Handles)]
  /\ windex \in Wheel!Slots
  /\ steps \in [Wheel!Handles -> Nat]
  /\ slot \in [Wheel!Handles -> Wheel!Slots]
  /\ state \in [Wheel!Handles -> {"new", "live", "freed"}]
  /\ walk \in Seq(Wheel!Handles)
  /\ current \in Wheel!Handles \cup {0}
  /\ ticks \in Nat
  /\ due \in [Wheel!Handles -> Nat]
  /\ fault \in {"none", "outside", "walk", "destroyed"}

\* Each timer is in one place, and bucket->index says which bucket it is in.
Placed ==
  /\ \A s \in Wheel!Slots : Distinct(buckets[s])
  /\ Distinct(walk)
  /\ \A s \in Wheel!Slots, t \in Wheel!Handles : In(buckets[s], t) =>
       state[t] = "live" /\ slot[t] = s /\ t # current /\ ~ In(walk, t)
  /\ \A t \in Wheel!Handles : In(walk, t) => state[t] = "live" /\ t # current
  /\ current # 0 => state[current] = "live"
  /\ \A t \in Wheel!Handles : state[t] = "live" =>
       t = current \/ In(walk, t) \/ In(buckets[slot[t]], t)

\* The distance of a timer's bucket is the time it has left.
Punctual ==
  \A t \in Wheel!Handles : Wheel!Regular(t) =>
    /\ \A s \in Wheel!Slots : In(buckets[s], t) =>
         due[t] = ticks + 1 + ((windex - s) % max_steps)
    /\ t = current \/ In(walk, t) => due[t] = ticks

WheelInv ==
  /\ WheelTypeOK
  /\ fault = "none" => Placed /\ Punctual
  /\ fault = "destroyed" => \A t \in Wheel!Handles : state[t] # "live"
  /\ fault = "outside" =>
       \E t \in Wheel!Handles : state[t] = "live" /\ steps[t] \notin 1..max_steps

LEMMA WheelConsts ==
  /\ max_steps \in Nat \ {0} /\ max_steps > 0
  /\ Wheel!Slots = 0..(max_steps - 1)
  /\ \A t \in Wheel!Handles : t \in Nat /\ t # 0
  /\ Asked \subseteq Nat
BY WheelAssumption DEF Wheel!Slots, Wheel!Handles

\* Where the bucket of a timer lies, n steps ahead of the wheel's index.
LEMMA Ahead ==
  ASSUME NEW w \in Wheel!Slots, NEW n \in 0..max_steps
  PROVE  /\ Wheel!Around(w - n) \in Wheel!Slots
         /\ n < max_steps => (w - Wheel!Around(w - n)) % max_steps = n
<1> USE WheelConsts
<1>1. CASE w - n < 0
  <2>1. Wheel!Around(w - n) = (w - n) + max_steps
    BY <1>1 DEF Wheel!Around
  <2>2. PICK s \in 0..(max_steps - 1) : s = (w - n) + max_steps
    BY <1>1
  <2>3. n < max_steps => s > w /\ (w - s) + max_steps = n
    BY <2>2
  <2>4. (w - s) % max_steps = IF s <= w THEN w - s ELSE (w - s) + max_steps
    BY Distance
  <2> QED  BY <2>1, <2>2, <2>3, <2>4
<1>2. CASE ~ (w - n < 0)
  <2>1. Wheel!Around(w - n) = w - n
    BY <1>2 DEF Wheel!Around
  <2>2. PICK s \in 0..(max_steps - 1) : s = w - n
    BY <1>2
  <2>3. s <= w /\ w - s = n
    BY <2>2
  <2>4. (w - s) % max_steps = IF s <= w THEN w - s ELSE (w - s) + max_steps
    BY Distance
  <2> QED  BY <2>1, <2>2, <2>3, <2>4
<1> QED  BY <1>1, <1>2

\* A step of the wheel takes one off every distance.
LEMMA Nearer ==
  ASSUME NEW w \in Wheel!Slots, NEW s \in Wheel!Slots
  PROVE  LET v == IF w = 0 THEN max_steps - 1 ELSE w - 1
         IN  /\ v \in Wheel!Slots
             /\ (w - s) % max_steps \in Nat /\ (v - s) % max_steps \in Nat
             /\ s = w => (w - s) % max_steps = 0
             /\ s # w => (v - s) % max_steps = ((w - s) % max_steps) - 1
<1> DEFINE v == IF w = 0 THEN max_steps - 1 ELSE w - 1
<1> USE WheelConsts
<1>1. v \in 0..(max_steps - 1)
  OBVIOUS
<1>2. (w - s) % max_steps = IF s <= w THEN w - s ELSE (w - s) + max_steps
  BY Distance
<1> HIDE DEF v
<1>3. (v - s) % max_steps = IF s <= v THEN v - s ELSE (v - s) + max_steps
  BY <1>1, Distance
<1> QED  BY <1>1, <1>2, <1>3 DEF v

\* Link puts the timer into the bucket, or says that there is none.
LEMMA Linking ==
  ASSUME NEW b \in [Wheel!Slots -> Seq(Wheel!Handles)], NEW t \in Wheel!Handles, NEW i,
         slot \in [Wheel!Handles -> Wheel!Slots],
         \A s \in Wheel!Slots : Distinct(b[s]) /\ ~ In(b[s], t),
         Wheel!Link(b, t, i)
  PROVE  \/ /\ i \in Wheel!Slots
            /\ buckets' \in [Wheel!Slots -> Seq(Wheel!Handles)]
            /\ \A s \in Wheel!Slots : Distinct(buckets'[s])
            /\ \A s \in Wheel!Slots : \A u : In(buckets'[s], u) <=> In(b[s], u) \/ (s = i /\ u = t)
            /\ slot' = [slot EXCEPT ![t] = i]
            /\ fault' = fault
         \/ /\ i \notin Wheel!Slots
            /\ fault' = "outside" /\ buckets' = buckets /\ slot' = slot
<1>1. CASE i \in Wheel!Slots
  <2>1. /\ buckets' = [b EXCEPT ![i] = <<t>> \o b[i]]
        /\ slot' = [slot EXCEPT ![t] = i] /\ fault' = fault
    BY <1>1 DEF Wheel!Link
  <2> DEFINE r == <<t>> \o b[i]
  <2>2. /\ r \in Seq(Wheel!Handles) /\ Distinct(r)
        /\ \A u : In(r, u) <=> In(b[i], u) \/ u = t
    BY <1>1, InFront
  <2> HIDE DEF r
  <2>3. buckets' \in [Wheel!Slots -> Seq(Wheel!Handles)]
    BY <2>1, <2>2 DEF r
  <2>4. \A s \in Wheel!Slots : buckets'[s] = IF s = i THEN r ELSE b[s]
    BY <2>1, <2>2 DEF r
  <2> QED  BY <1>1, <2>1, <2>2, <2>3, <2>4
<1>2. CASE i \notin Wheel!Slots
  BY <1>2 DEF Wheel!Link
<1> QED  BY <1>1, <1>2

\* The wheel and the walk without a timer.
LEMMA Unlinking ==
  ASSUME WheelTypeOK, Placed, NEW t \in Wheel!Handles
  PROVE  LET b == Wheel!Unlinked(t)
             r == Wheel!RemoveFirst(walk, t)
         IN  /\ b \in [Wheel!Slots -> Seq(Wheel!Handles)]
             /\ \A s \in Wheel!Slots : Distinct(b[s]) /\ ~ In(b[s], t)
             /\ \A s \in Wheel!Slots, u \in Wheel!Handles : In(b[s], u) <=> In(buckets[s], u) /\ u # t
             /\ r \in Seq(Wheel!Handles) /\ Distinct(r)
             /\ \A u : In(r, u) <=> In(walk, u) /\ u # t
<1> DEFINE b == Wheel!Unlinked(t)
           r == Wheel!RemoveFirst(walk, t)
           l == buckets[slot[t]]
           q == Wheel!RemoveFirst(l, t)
<1>1. slot[t] \in Wheel!Slots /\ l \in Seq(Wheel!Handles) /\ Distinct(l)
      /\ walk \in Seq(Wheel!Handles) /\ Distinct(walk)
  BY DEF WheelTypeOK, Placed
<1>2. /\ q \in Seq(Wheel!Handles) /\ Distinct(q)
      /\ \A u : In(q, u) <=> In(l, u) /\ u # t
  BY <1>1, Removed
<1>3. /\ r \in Seq(Wheel!Handles) /\ Distinct(r)
      /\ \A u : In(r, u) <=> In(walk, u) /\ u # t
  BY <1>1, Removed
<1>4. b = [buckets EXCEPT ![slot[t]] = q]
  BY DEF Wheel!Unlinked
<1> HIDE DEF b, r, q
<1>5. /\ b \in [Wheel!Slots -> Seq(Wheel!Handles)]
      /\ \A s \in Wheel!Slots : b[s] = IF s = slot[t] THEN q ELSE buckets[s]
  BY <1>1, <1>2, <1>4 DEF WheelTypeOK
<1>6. \A s \in Wheel!Slots : s # slot[t] => ~ In(buckets[s], t)
  BY DEF Placed
<1>7. \A s \in Wheel!Slots : Distinct(b[s]) /\ ~ In(b[s], t)
  BY <1>2, <1>5, <1>6 DEF Placed
<1>8. \A s \in Wheel!Slots, u \in Wheel!Handles : In(b[s], u) <=> In(buckets[s], u) /\ u # t
  BY <1>2, <1>5, <1>6
<1> QED  BY <1>3, <1>5, <1>7, <1>8 DEF b, r

LEMMA WheelSubmit ==
  ASSUME WheelInv, fault = "none", NEW t \in Wheel!Handles, NEW n \in Asked, Wheel!Submit(t, n)
  PROVE  WheelInv'
<1> DEFINE i == Wheel!SubmitSlot(n)
<1> USE WheelConsts
<1>1. WheelTypeOK /\ Placed /\ Punctual
  BY DEF WheelInv
<1>2. /\ state[t] = "new" /\ n \in Nat
      /\ state' = [state EXCEPT ![t] = "live"]
      /\ steps' = [steps EXCEPT ![t] = n]
      /\ due' = [due EXCEPT ![t] = ticks + n + 1]
      /\ UNCHANGED <<windex, walk, current, ticks>>
      /\ Wheel!Link(buckets, t, i)
  BY DEF Wheel!Submit
<1>3. i \in Wheel!Slots /\ (n \in 1..(max_steps - 1) => (windex - i) % max_steps = n)
  <2>1. windex \in Wheel!Slots /\ windex + 1 \in Int
    BY <1>1 DEF WheelTypeOK
  <2>2. CASE n > max_steps
    <3>1. i = (windex + 1) % max_steps
      BY <2>2 DEF Wheel!SubmitSlot
    <3> QED  BY <1>2, <2>1, <2>2, <3>1, Remainder
  <2>3. CASE ~ (n > max_steps)
    <3>1. i = Wheel!Around(windex - n) /\ n \in 0..max_steps
      BY <1>2, <2>3 DEF Wheel!SubmitSlot
    <3>2. n \in 1..(max_steps - 1) => n < max_steps
      OBVIOUS
    <3> HIDE DEF i
    <3> QED  BY <2>1, <3>1, <3>2, Ahead
  <2> QED  BY <2>2, <2>3
<1>4. /\ ~ In(walk, t) /\ t # current
      /\ \A s \in Wheel!Slots : Distinct(buckets[s]) /\ ~ In(buckets[s], t)
  BY <1>1, <1>2 DEF Placed
<1> HIDE DEF i
<1>5. /\ buckets' \in [Wheel!Slots -> Seq(Wheel!Handles)]
      /\ \A s \in Wheel!Slots : Distinct(buckets'[s])
      /\ \A s \in Wheel!Slots : \A u : In(buckets'[s], u) <=> In(buckets[s], u) \/ (s = i /\ u = t)
      /\ slot' = [slot EXCEPT ![t] = i]
      /\ fault' = fault
  BY <1>1, <1>2, <1>3, <1>4, Linking DEF WheelTypeOK
<1>6. WheelTypeOK'
  <2>1. due' \in [Wheel!Handles -> Nat]
    <3>1. ticks + n + 1 \in Nat  BY <1>1, <1>2 DEF WheelTypeOK
    <3> QED  BY <1>1, <1>2, <3>1 DEF WheelTypeOK
  <2>2. slot' \in [Wheel!Handles -> Wheel!Slots] /\ steps' \in [Wheel!Handles -> Nat]
        /\ state' \in [Wheel!Handles -> {"new", "live", "freed"}]
    BY <1>1, <1>2, <1>3, <1>5 DEF WheelTypeOK
  <2> QED  BY <1>1, <1>2, <1>5, <2>1, <2>2 DEF WheelTypeOK
<1>7. Placed'
  <2>1. \A u \in Wheel!Handles : /\ state'[u] = IF u = t THEN "live" ELSE state[u]
                                 /\ slot'[u] = IF u = t THEN i ELSE slot[u]
                                 /\ slot[u] \in Wheel!Slots
    BY <1>1, <1>2, <1>5 DEF WheelTypeOK
  <2>2. walk' = walk /\ current' = current /\ current \in Wheel!Handles \cup {0}
    BY <1>1, <1>2 DEF WheelTypeOK
  <2>3. \A s \in Wheel!Slots, u \in Wheel!Handles : In(buckets'[s], u) =>
          state'[u] = "live" /\ slot'[u] = s /\ u # current' /\ ~ In(walk', u)
    <3> TAKE s \in Wheel!Slots, u \in Wheel!Handles
    <3>1. CASE u = t
      BY <1>1, <1>3, <1>4, <1>5, <2>1, <2>2, <3>1
    <3>2. CASE u # t
      BY <1>1, <1>3, <1>4, <1>5, <2>1, <2>2, <3>2 DEF Placed
    <3> QED  BY <3>1, <3>2
  <2>4. \A u \in Wheel!Handles : In(walk', u) => state'[u] = "live" /\ u # current'
    BY <1>1, <1>3, <1>4, <1>5, <2>1, <2>2 DEF Placed
  <2>5. current' # 0 => state'[current'] = "live"
    BY <1>1, <1>3, <1>4, <1>5, <2>1, <2>2 DEF Placed
  <2>6. \A u \in Wheel!Handles : state'[u] = "live" =>
          u = current' \/ In(walk', u) \/ In(buckets'[slot'[u]], u)
    <3> TAKE u \in Wheel!Handles
    <3>1. CASE u = t
      BY <1>1, <1>3, <1>4, <1>5, <2>1, <2>2, <3>1
    <3>2. CASE u # t
      BY <1>1, <1>3, <1>4, <1>5, <2>1, <2>2, <3>2 DEF Placed
    <3> QED  BY <3>1, <3>2
  <2>7. (\A s \in Wheel!Slots : Distinct(buckets'[s])) /\ Distinct(walk')
    BY <1>1, <1>3, <1>4, <1>5, <2>1, <2>2 DEF Placed
  <2> QED  BY <2>3, <2>4, <2>5, <2>6, <2>7 DEF Placed
<1>8. Punctual'
  <2> SUFFICES ASSUME NEW u \in Wheel!Handles, Wheel!Regular(u)'
               PROVE  /\ \A s \in Wheel!Slots : In(buckets'[s], u) =>
                           due'[u] = ticks' + 1 + ((windex' - s) % max_steps)
                      /\ u = current' \/ In(walk', u) => due'[u] = ticks'
    BY DEF Punctual
  <2>1. CASE u = t
    <3>1. steps'[t] = n /\ due'[t] = ticks + n + 1
      BY <1>1, <1>2 DEF WheelTypeOK
    <3>2. n \in 1..(max_steps - 1)
      BY <2>1, <3>1 DEF Wheel!Regular
    <3>3. due'[t] = ticks + 1 + n
      BY <1>1, <1>2, <3>1 DEF WheelTypeOK
    <3> QED  BY <1>2, <1>3, <1>4, <1>5, <2>1, <3>2, <3>3
  <2>2. CASE u # t
    <3>1. due'[u] = due[u] /\ Wheel!Regular(u)
      BY <1>1, <1>2, <2>2 DEF WheelTypeOK, Wheel!Regular
    <3> QED  BY <1>1, <1>2, <1>5, <2>2, <3>1 DEF Punctual
  <2> QED  BY <2>1, <2>2
<1> QED  BY <1>5, <1>6, <1>7, <1>8 DEF WheelInv

LEMMA WheelHeld ==
  ASSUME WheelInv, fault = "none", fault' = "walk",
         UNCHANGED <<buckets, windex, steps, slot, state, walk, current, ticks, due>>
  PROVE  WheelInv'
BY DEF WheelInv, WheelTypeOK

LEMMA WheelCancel ==
  ASSUME WheelInv, fault = "none", NEW t \in Wheel!Handles, Wheel!Cancel(t)
  PROVE  WheelInv'
<1>1. CASE Wheel!Held(t)
  <2>1. fault' = "walk" /\ UNCHANGED <<buckets, windex, steps, slot, state, walk, current, ticks, due>>
    BY <1>1 DEF Wheel!Cancel
  <2> QED  BY <2>1, WheelHeld
<1>2. CASE ~ Wheel!Held(t)
  <2> USE WheelConsts
  <2>1. WheelTypeOK /\ Placed /\ Punctual
    BY DEF WheelInv
  <2>2. /\ buckets' = Wheel!Unlinked(t) /\ walk' = Wheel!RemoveFirst(walk, t)
        /\ state' = [state EXCEPT ![t] = "freed"]
        /\ steps' = [steps EXCEPT ![t] = 0]
        /\ slot' = [slot EXCEPT ![t] = 0]
        /\ due' = [due EXCEPT ![t] = 0]
        /\ UNCHANGED <<fault, windex, current, ticks>>
    BY <1>2 DEF Wheel!Cancel, Wheel!Free
  <2>3. t # current
    BY <1>2 DEF Wheel!Held
  <2>4. /\ buckets' \in [Wheel!Slots -> Seq(Wheel!Handles)]
        /\ \A s \in Wheel!Slots : Distinct(buckets'[s])
        /\ \A s \in Wheel!Slots, u \in Wheel!Handles : In(buckets'[s], u) <=> In(buckets[s], u) /\ u # t
        /\ walk' \in Seq(Wheel!Handles) /\ Distinct(walk')
        /\ \A u : In(walk', u) <=> In(walk, u) /\ u # t
    BY <2>1, <2>2, Unlinking
  <2>5. WheelTypeOK'
    <3>1. slot' \in [Wheel!Handles -> Wheel!Slots] /\ steps' \in [Wheel!Handles -> Nat]
          /\ state' \in [Wheel!Handles -> {"new", "live", "freed"}]
          /\ due' \in [Wheel!Handles -> Nat]
      BY <2>1, <2>2 DEF WheelTypeOK
    <3> QED  BY <2>1, <2>2, <2>4, <3>1 DEF WheelTypeOK
  <2>6. Placed'
    <3>1. \A u \in Wheel!Handles : /\ state'[u] = IF u = t THEN "freed" ELSE state[u]
                                   /\ slot'[u] = IF u = t THEN 0 ELSE slot[u]
                                   /\ slot[u] \in Wheel!Slots
      BY <2>1, <2>2 DEF WheelTypeOK
    <3>2. current' = current /\ current \in Wheel!Handles \cup {0}
      BY <2>1, <2>2 DEF WheelTypeOK
    <3> QED  BY <2>1, <2>3, <2>4, <3>1, <3>2 DEF Placed
  <2>7. Punctual'
    <3> SUFFICES ASSUME NEW u \in Wheel!Handles, Wheel!Regular(u)'
                 PROVE  /\ \A s \in Wheel!Slots : In(buckets'[s], u) =>
                             due'[u] = ticks' + 1 + ((windex' - s) % max_steps)
                        /\ u = current' \/ In(walk', u) => due'[u] = ticks'
      BY DEF Punctual
    <3>1. u # t /\ due'[u] = due[u] /\ Wheel!Regular(u)
      BY <2>1, <2>2 DEF WheelTypeOK, Wheel!Regular
    <3> QED  BY <2>1, <2>2, <2>4, <3>1 DEF Punctual
  <2> QED  BY <2>2, <2>5, <2>6, <2>7 DEF WheelInv
<1> QED  BY <1>1, <1>2

LEMMA WheelRefresh ==
  ASSUME WheelInv, fault = "none", NEW t \in Wheel!Handles, Wheel!Refresh(t)
  PROVE  WheelInv'
<1>1. CASE Wheel!Held(t)
  <2>1. fault' = "walk" /\ UNCHANGED <<buckets, windex, steps, slot, state, walk, current, ticks, due>>
    BY <1>1 DEF Wheel!Refresh
  <2> QED  BY <2>1, WheelHeld
<1>2. CASE ~ Wheel!Held(t)
  <2> DEFINE b == Wheel!Unlinked(t)
             i == Wheel!Around(windex - steps[t])
  <2> USE WheelConsts
  <2>1. WheelTypeOK /\ Placed /\ Punctual
    BY DEF WheelInv
  <2>2. /\ state[t] = "live"
        /\ Wheel!Link(b, t, i) /\ walk' = Wheel!RemoveFirst(walk, t)
        /\ due' = [due EXCEPT ![t] = ticks + steps[t] + 1]
        /\ UNCHANGED <<windex, steps, state, current, ticks>>
    BY <1>2 DEF Wheel!Refresh
  <2>3. t # current
    BY <1>2 DEF Wheel!Held
  <2>4. /\ b \in [Wheel!Slots -> Seq(Wheel!Handles)]
        /\ \A s \in Wheel!Slots : Distinct(b[s]) /\ ~ In(b[s], t)
        /\ \A s \in Wheel!Slots, u \in Wheel!Handles : In(b[s], u) <=> In(buckets[s], u) /\ u # t
        /\ walk' \in Seq(Wheel!Handles) /\ Distinct(walk')
        /\ \A u : In(walk', u) <=> In(walk, u) /\ u # t
    BY <2>1, <2>2, Unlinking
  <2>5. /\ steps[t] \in 1..max_steps => i \in Wheel!Slots
        /\ steps[t] \in 1..(max_steps - 1) => (windex - i) % max_steps = steps[t]
    <3>1. windex \in Wheel!Slots /\ steps[t] \in Nat
      BY <2>1 DEF WheelTypeOK
    <3>2. steps[t] \in 1..max_steps => steps[t] \in 0..max_steps
      BY <3>1
    <3>3. steps[t] \in 1..(max_steps - 1) => steps[t] \in 1..max_steps /\ steps[t] < max_steps
      BY <3>1
    <3> HIDE DEF i
    <3>4. ASSUME steps[t] \in 0..max_steps
          PROVE  i \in Wheel!Slots /\ (steps[t] < max_steps => (windex - i) % max_steps = steps[t])
      BY <3>1, <3>4, Ahead DEF i
    <3> QED  BY <3>2, <3>3, <3>4
  <2> HIDE DEF b, i
  <2>8. due' \in [Wheel!Handles -> Nat]
    <3>1. ticks + steps[t] + 1 \in Nat  BY <2>1 DEF WheelTypeOK
    <3> QED  BY <2>1, <2>2, <3>1 DEF WheelTypeOK
  <2>6. CASE i \notin Wheel!Slots
    <3>1. fault' = "outside" /\ buckets' = buckets /\ slot' = slot
      BY <2>1, <2>2, <2>4, <2>6, Linking DEF WheelTypeOK
    <3>2. WheelTypeOK'
      BY <2>1, <2>2, <2>4, <2>8, <3>1 DEF WheelTypeOK
    <3> QED  BY <2>2, <2>5, <2>6, <3>1, <3>2 DEF WheelInv
  <2>7. CASE i \in Wheel!Slots
    <3>1. /\ buckets' \in [Wheel!Slots -> Seq(Wheel!Handles)]
          /\ \A s \in Wheel!Slots : Distinct(buckets'[s])
          /\ \A s \in Wheel!Slots, u \in Wheel!Handles :
               In(buckets'[s], u) <=> (In(buckets[s], u) /\ u # t) \/ (s = i /\ u = t)
          /\ slot' = [slot EXCEPT ![t] = i]
          /\ fault' = fault
      BY <2>1, <2>2, <2>4, <2>7, Linking DEF WheelTypeOK
    <3>2. WheelTypeOK'
      <4>1. slot' \in [Wheel!Handles -> Wheel!Slots]
        BY <2>1, <2>7, <3>1 DEF WheelTypeOK
      <4> QED  BY <2>1, <2>2, <2>4, <2>8, <3>1, <4>1 DEF WheelTypeOK
    <3>3. Placed'
      <4>1. \A u \in Wheel!Handles : /\ slot'[u] = IF u = t THEN i ELSE slot[u]
                                     /\ slot[u] \in Wheel!Slots
        BY <2>1, <3>1 DEF WheelTypeOK
      <4>2. current' = current /\ state' = state /\ current \in Wheel!Handles \cup {0}
        BY <2>1, <2>2 DEF WheelTypeOK
      <4>3. \A s \in Wheel!Slots, u \in Wheel!Handles : In(buckets'[s], u) =>
              state'[u] = "live" /\ slot'[u] = s /\ u # current' /\ ~ In(walk', u)
        BY <2>1, <2>2, <2>3, <2>4, <2>7, <3>1, <4>1, <4>2 DEF Placed
      <4>4. \A u \in Wheel!Handles : In(walk', u) => state'[u] = "live" /\ u # current'
        BY <2>1, <2>2, <2>3, <2>4, <2>7, <3>1, <4>1, <4>2 DEF Placed
      <4>5. current' # 0 => state'[current'] = "live"
        BY <2>1, <2>2, <2>3, <2>4, <2>7, <3>1, <4>1, <4>2 DEF Placed
      <4>6. \A u \in Wheel!Handles : state'[u] = "live" =>
              u = current' \/ In(walk', u) \/ In(buckets'[slot'[u]], u)
        BY <2>1, <2>2, <2>3, <2>4, <2>7, <3>1, <4>1, <4>2 DEF Placed
      <4>7. (\A s \in Wheel!Slots : Distinct(buckets'[s])) /\ Distinct(walk')
        BY <2>1, <2>2, <2>3, <2>4, <2>7, <3>1, <4>1, <4>2 DEF Placed
      <4> QED  BY <4>3, <4>4, <4>5, <4>6, <4>7 DEF Placed
    <3>4. Punctual'
      <4> SUFFICES ASSUME NEW u \in Wheel!Handles, Wheel!Regular(u)'
                   PROVE  /\ \A s \in Wheel!Slots : In(buckets'[s], u) =>
                               due'[u] = ticks' + 1 + ((windex' - s) % max_steps)
                          /\ u = current' \/ In(walk', u) => due'[u] = ticks'
        BY DEF Punctual
      <4>1. Wheel!Regular(u)
        BY <2>2 DEF Wheel!Regular
      <4>2. CASE u = t
        <5>1. due'[t] = ticks + 1 + steps[t]
          BY <2>1, <2>2 DEF WheelTypeOK
        <5> QED  BY <2>2, <2>3, <2>4, <2>5, <3>1, <4>1, <4>2, <5>1 DEF Wheel!Regular
      <4>3. CASE u # t
        <5>1. due'[u] = due[u]
          BY <2>1, <2>2, <4>3 DEF WheelTypeOK
        <5> QED  BY <2>1, <2>2, <2>4, <3>1, <4>1, <4>3, <5>1 DEF Punctual
      <4> QED  BY <4>2, <4>3
    <3> QED  BY <3>1, <3>2, <3>3, <3>4 DEF WheelInv
  <2> QED  BY <2>6, <2>7
<1> QED  BY <1>1, <1>2

LEMMA WheelMoves ==
  ASSUME WheelInv, fault = "none", Wheel!Step
  PROVE  WheelInv'
<1> USE WheelConsts
<1>1. WheelTypeOK /\ Placed /\ Punctual
  BY DEF WheelInv
<1>2. /\ walk = <<>> /\ current = 0
      /\ ticks' = ticks + 1
      /\ walk' = buckets[windex]
      /\ buckets' = [buckets EXCEPT ![windex] = <<>>]
      /\ windex' = IF windex = 0 THEN max_steps - 1 ELSE windex - 1
      /\ UNCHANGED <<steps, slot, state, current, due, fault>>
  BY DEF Wheel!Step, Wheel!Nobody
<1>3. \A u : ~ In(<<>>, u)
  BY DEF In
<1>4. windex \in Wheel!Slots /\ windex' \in Wheel!Slots
  BY <1>1, <1>2 DEF WheelTypeOK
<1>5. /\ buckets' \in [Wheel!Slots -> Seq(Wheel!Handles)]
      /\ \A s \in Wheel!Slots : buckets'[s] = IF s = windex THEN <<>> ELSE buckets[s]
  BY <1>1, <1>2, <1>4 DEF WheelTypeOK
<1>6. Distinct(<<>>)
  BY DEF Distinct
<1>7. WheelTypeOK'
  BY <1>1, <1>2, <1>4, <1>5 DEF WheelTypeOK
<1>8. Placed'
  <2>1. \A s \in Wheel!Slots : \A u : In(buckets'[s], u) <=> In(buckets[s], u) /\ s # windex
    BY <1>3, <1>5
  <2>2. (\A s \in Wheel!Slots : Distinct(buckets'[s])) /\ Distinct(walk')
    BY <1>1, <1>2, <1>4, <1>5, <1>6 DEF Placed
  <2>3. \A u \in Wheel!Handles : In(walk', u) <=> In(buckets[windex], u)
    BY <1>2
  <2>4. \A u \in Wheel!Handles : ~ In(walk, u) /\ u # current
    BY <1>2, <1>3
  <2>5. \A u \in Wheel!Handles : slot[u] \in Wheel!Slots
    BY <1>1 DEF WheelTypeOK
  <2>6. current' = 0 /\ state' = state /\ slot' = slot
    BY <1>2
  <2>7. \A s \in Wheel!Slots, u \in Wheel!Handles : In(buckets[s], u) =>
          state[u] = "live" /\ slot[u] = s
    BY <1>1 DEF Placed
  <2>8. \A u \in Wheel!Handles : state[u] = "live" => In(buckets[slot[u]], u)
    BY <1>1, <2>4 DEF Placed
  <2>9. \A u \in Wheel!Handles : u # current'
    BY <2>6
  <2>10. \A s \in Wheel!Slots, u \in Wheel!Handles : In(buckets'[s], u) =>
          state'[u] = "live" /\ slot'[u] = s /\ u # current' /\ ~ In(walk', u)
    <3> TAKE s \in Wheel!Slots, u \in Wheel!Handles
    <3>1. HAVE In(buckets'[s], u)
    <3>2. s # windex /\ In(buckets[s], u) /\ slot[u] = s /\ state[u] = "live"
      BY <2>1, <2>7, <3>1
    <3>3. ~ In(buckets[windex], u)
      BY <1>4, <2>7, <3>2
    <3> QED  BY <2>3, <2>6, <2>9, <3>2, <3>3
  <2>11. \A u \in Wheel!Handles : In(walk', u) => state'[u] = "live" /\ u # current'
    BY <1>4, <2>1, <2>2, <2>3, <2>5, <2>6, <2>7, <2>8, <2>9 DEF Placed
  <2>12. current' # 0 => state'[current'] = "live"
    BY <1>4, <2>1, <2>2, <2>3, <2>5, <2>6, <2>7, <2>8, <2>9 DEF Placed
  <2>13. \A u \in Wheel!Handles : state'[u] = "live" =>
          u = current' \/ In(walk', u) \/ In(buckets'[slot'[u]], u)
    BY <1>4, <2>1, <2>2, <2>3, <2>5, <2>6, <2>7, <2>8, <2>9 DEF Placed
  <2>14. (\A s \in Wheel!Slots : Distinct(buckets'[s])) /\ Distinct(walk')
    BY <1>4, <2>1, <2>2, <2>3, <2>5, <2>6, <2>7, <2>8, <2>9 DEF Placed
  <2> QED  BY <2>10, <2>11, <2>12, <2>13, <2>14 DEF Placed
<1>9. Punctual'
  <2> SUFFICES ASSUME NEW u \in Wheel!Handles, Wheel!Regular(u)'
               PROVE  /\ \A s \in Wheel!Slots : In(buckets'[s], u) =>
                           due'[u] = ticks' + 1 + ((windex' - s) % max_steps)
                      /\ u = current' \/ In(walk', u) => due'[u] = ticks'
    BY DEF Punctual
  <2>1. Wheel!Regular(u) /\ due'[u] = due[u] /\ ticks \in Nat
    BY <1>1, <1>2 DEF Wheel!Regular, WheelTypeOK
  <2>2. \A s \in Wheel!Slots : In(buckets[s], u) =>
          due[u] = ticks + 1 + ((windex - s) % max_steps)
    BY <1>1, <2>1 DEF Punctual
  <2>3. ASSUME NEW s \in Wheel!Slots, In(buckets'[s], u)
        PROVE  due'[u] = ticks' + 1 + ((windex' - s) % max_steps)
    <3>1. s # windex /\ In(buckets[s], u)
      BY <1>3, <1>5, <2>3
    <3> DEFINE d == (windex - s) % max_steps
               e == (windex' - s) % max_steps
    <3>2. e = d - 1 /\ d \in Nat
      BY <1>2, <1>4, <3>1, Nearer
    <3>3. due[u] = ticks + 1 + d
      BY <2>2, <3>1
    <3> HIDE DEF d, e
    <3>4. due'[u] = ticks' + 1 + e
      BY <1>2, <2>1, <3>2, <3>3
    <3> QED  BY <3>4 DEF e
  <2>4. In(walk', u) => due'[u] = ticks'
    <3>1. (windex - windex) % max_steps = 0
      BY <1>4, Nearer
    <3> QED  BY <1>2, <1>4, <2>1, <2>2, <3>1
  <2>5. u # current'
    BY <1>2
  <2> QED  BY <2>3, <2>4, <2>5
<1> QED  BY <1>2, <1>7, <1>8, <1>9 DEF WheelInv

LEMMA WheelCalls ==
  ASSUME WheelInv, fault = "none", Wheel!CallNext
  PROVE  WheelInv'
<1> USE WheelConsts
<1>1. WheelTypeOK /\ Placed /\ Punctual
  BY DEF WheelInv
<1>2. /\ walk # <<>> /\ current = 0
      /\ current' = Head(walk) /\ walk' = Tail(walk)
      /\ UNCHANGED <<buckets, windex, steps, slot, state, ticks, due, fault>>
  BY DEF Wheel!CallNext, Wheel!Nobody
<1>3. /\ current' \in Wheel!Handles /\ walk' \in Seq(Wheel!Handles) /\ Distinct(walk')
      /\ In(walk, current')
      /\ \A u : In(walk', u) <=> In(walk, u) /\ u # current'
  BY <1>1, <1>2, Behind DEF WheelTypeOK, Placed
<1>4. WheelTypeOK'
  BY <1>1, <1>2, <1>3 DEF WheelTypeOK
<1>5. Placed'
  BY <1>1, <1>2, <1>3 DEF Placed
<1>6. Punctual'
  BY <1>1, <1>2, <1>3 DEF Punctual, Wheel!Regular
<1> QED  BY <1>2, <1>4, <1>5, <1>6 DEF WheelInv

LEMMA WheelOneShot ==
  ASSUME WheelInv, fault = "none", Wheel!OneShot
  PROVE  WheelInv'
<1> USE WheelConsts
<1>1. WheelTypeOK /\ Placed /\ Punctual
  BY DEF WheelInv
<1>2. PICK t \in Wheel!Handles : t = current
  BY <1>1 DEF Wheel!OneShot, Wheel!Nobody, WheelTypeOK
<1>3. /\ state' = [state EXCEPT ![t] = "freed"]
      /\ steps' = [steps EXCEPT ![t] = 0]
      /\ slot' = [slot EXCEPT ![t] = 0]
      /\ due' = [due EXCEPT ![t] = 0]
      /\ current' = 0
      /\ UNCHANGED <<buckets, windex, walk, ticks, fault>>
  BY <1>2 DEF Wheel!OneShot, Wheel!Free, Wheel!Nobody
<1>4. WheelTypeOK'
  BY <1>1, <1>3 DEF WheelTypeOK
<1>5. Placed'
  BY <1>1, <1>2, <1>3 DEF Placed, WheelTypeOK
<1>6. Punctual'
  <2> SUFFICES ASSUME NEW u \in Wheel!Handles, Wheel!Regular(u)'
               PROVE  /\ \A s \in Wheel!Slots : In(buckets'[s], u) =>
                           due'[u] = ticks' + 1 + ((windex' - s) % max_steps)
                      /\ u = current' \/ In(walk', u) => due'[u] = ticks'
    BY DEF Punctual
  <2>1. u # t /\ due'[u] = due[u] /\ Wheel!Regular(u)
    BY <1>1, <1>3 DEF WheelTypeOK, Wheel!Regular
  <2> QED  BY <1>1, <1>3, <2>1 DEF Punctual
<1> QED  BY <1>3, <1>4, <1>5, <1>6 DEF WheelInv

LEMMA WheelLoop ==
  ASSUME WheelInv, fault = "none", Wheel!Loop
  PROVE  WheelInv'
<1> USE WheelConsts
<1>1. WheelTypeOK /\ Placed /\ Punctual
  BY DEF WheelInv
<1>2. PICK t \in Wheel!Handles : t = current
  BY <1>1 DEF Wheel!Loop, Wheel!Nobody, WheelTypeOK
<1> DEFINE i == Wheel!Around(windex - steps[t] + 1)
<1>3. /\ Wheel!Link(buckets, t, i)
      /\ due' = [due EXCEPT ![t] = ticks + steps[t]]
      /\ current' = 0
      /\ UNCHANGED <<windex, steps, state, walk, ticks>>
  BY <1>2 DEF Wheel!Loop, Wheel!Nobody
<1>4. state[t] = "live" /\ ~ In(walk, t)
      /\ \A s \in Wheel!Slots : Distinct(buckets[s]) /\ ~ In(buckets[s], t)
  BY <1>1, <1>2 DEF Placed
<1>5. steps[t] \in 1..max_steps =>
        /\ i \in Wheel!Slots
        /\ (windex - i) % max_steps = steps[t] - 1
  <2>1. windex \in Wheel!Slots /\ steps[t] \in Nat
    BY <1>1 DEF WheelTypeOK
  <2>2. HAVE steps[t] \in 1..max_steps
  <2>3. PICK n \in 0..max_steps : n = steps[t] - 1
    BY <2>1, <2>2
  <2>4. n < max_steps /\ windex - steps[t] + 1 = windex - n
    BY <2>1, <2>2, <2>3
  <2> QED  BY <2>1, <2>3, <2>4, Ahead
<1> HIDE DEF i
<1>8. due' \in [Wheel!Handles -> Nat]
  <2>1. ticks + steps[t] \in Nat  BY <1>1 DEF WheelTypeOK
  <2> QED  BY <1>1, <1>3, <2>1 DEF WheelTypeOK
<1>6. CASE i \notin Wheel!Slots
  <2>1. fault' = "outside" /\ buckets' = buckets /\ slot' = slot
    BY <1>1, <1>3, <1>4, <1>6, Linking DEF WheelTypeOK
  <2>2. WheelTypeOK'
    BY <1>1, <1>3, <1>8, <2>1 DEF WheelTypeOK
  <2> QED  BY <1>3, <1>4, <1>5, <1>6, <2>1, <2>2 DEF WheelInv
<1>7. CASE i \in Wheel!Slots
  <2>1. /\ buckets' \in [Wheel!Slots -> Seq(Wheel!Handles)]
        /\ \A s \in Wheel!Slots : Distinct(buckets'[s])
        /\ \A s \in Wheel!Slots : \A u : In(buckets'[s], u) <=> In(buckets[s], u) \/ (s = i /\ u = t)
        /\ slot' = [slot EXCEPT ![t] = i]
        /\ fault' = fault
    BY <1>1, <1>3, <1>4, <1>7, Linking DEF WheelTypeOK
  <2>2. WheelTypeOK'
    <3>1. slot' \in [Wheel!Handles -> Wheel!Slots]
      BY <1>1, <1>7, <2>1 DEF WheelTypeOK
    <3> QED  BY <1>1, <1>3, <1>8, <2>1, <3>1 DEF WheelTypeOK
  <2>3. Placed'
    <3>1. \A u \in Wheel!Handles : /\ slot'[u] = IF u = t THEN i ELSE slot[u]
                                   /\ slot[u] \in Wheel!Slots
      BY <1>1, <2>1 DEF WheelTypeOK
    <3>2. current' = 0 /\ state' = state /\ walk' = walk
      BY <1>3
    <3>3. \A s \in Wheel!Slots, u \in Wheel!Handles : In(buckets'[s], u) =>
            state'[u] = "live" /\ slot'[u] = s /\ u # current' /\ ~ In(walk', u)
      BY <1>1, <1>2, <1>4, <1>7, <2>1, <3>1, <3>2 DEF Placed
    <3>4. \A u \in Wheel!Handles : In(walk', u) => state'[u] = "live" /\ u # current'
      BY <1>1, <1>2, <1>4, <1>7, <2>1, <3>1, <3>2 DEF Placed
    <3>5. current' # 0 => state'[current'] = "live"
      BY <1>1, <1>2, <1>4, <1>7, <2>1, <3>1, <3>2 DEF Placed
    <3>6. \A u \in Wheel!Handles : state'[u] = "live" =>
            u = current' \/ In(walk', u) \/ In(buckets'[slot'[u]], u)
      <4> TAKE u \in Wheel!Handles
      <4>1. CASE u = t
        BY <1>1, <1>2, <1>4, <1>7, <2>1, <3>1, <3>2, <4>1
      <4>2. CASE u # t
        BY <1>1, <1>2, <1>4, <1>7, <2>1, <3>1, <3>2, <4>2 DEF Placed
      <4> QED  BY <4>1, <4>2
    <3>7. (\A s \in Wheel!Slots : Distinct(buckets'[s])) /\ Distinct(walk')
      BY <1>1, <1>2, <1>4, <1>7, <2>1, <3>1, <3>2 DEF Placed
    <3> QED  BY <3>3, <3>4, <3>5, <3>6, <3>7 DEF Placed
  <2>4. Punctual'
    <3> SUFFICES ASSUME NEW u \in Wheel!Handles, Wheel!Regular(u)'
                 PROVE  /\ \A s \in Wheel!Slots : In(buckets'[s], u) =>
                             due'[u] = ticks' + 1 + ((windex' - s) % max_steps)
                        /\ u = current' \/ In(walk', u) => due'[u] = ticks'
      BY DEF Punctual
    <3>1. Wheel!Regular(u)
      BY <1>3 DEF Wheel!Regular
    <3>2. CASE u = t
      <4>1. steps[t] \in 1..(max_steps - 1)
        BY <3>1, <3>2 DEF Wheel!Regular
      <4>2. (windex - i) % max_steps = steps[t] - 1
        BY <1>5, <4>1
      <4>3. due'[t] = ticks + 1 + (steps[t] - 1)
        BY <1>1, <1>3, <4>1 DEF WheelTypeOK
      <4> QED  BY <1>3, <1>4, <2>1, <3>2, <4>2, <4>3
    <3>3. CASE u # t
      <4>1. due'[u] = due[u]
        BY <1>1, <1>3, <3>3 DEF WheelTypeOK
      <4> QED  BY <1>1, <1>3, <2>1, <3>1, <3>3, <4>1 DEF Punctual
    <3> QED  BY <3>2, <3>3
  <2> QED  BY <2>1, <2>2, <2>3, <2>4 DEF WheelInv
<1> QED  BY <1>6, <1>7

LEMMA WheelDestroyed ==
  ASSUME WheelInv, fault = "none", Wheel!Destroy
  PROVE  WheelInv'
<1> USE WheelConsts
<1>1. WheelTypeOK /\ Placed
  BY DEF WheelInv
<1>2. /\ walk = <<>> /\ current = 0
      /\ buckets' = [s \in Wheel!Slots |-> <<>>]
      /\ state' = [t \in Wheel!Handles |->
                     IF \E s \in Wheel!Slots : In(buckets[s], t) THEN "freed" ELSE state[t]]
      /\ fault' = "destroyed"
      /\ UNCHANGED <<windex, steps, slot, walk, current, ticks, due>>
  BY DEF Wheel!Destroy, Wheel!Nobody, In
<1>3. WheelTypeOK'
  BY <1>1, <1>2 DEF WheelTypeOK
<1>4. \A t \in Wheel!Handles : ~ In(walk, t) /\ slot[t] \in Wheel!Slots
  BY <1>1, <1>2 DEF In, WheelTypeOK
<1>5. \A t \in Wheel!Handles : state'[t] # "live"
  BY <1>1, <1>2, <1>4 DEF Placed
<1> QED  BY <1>2, <1>3, <1>5 DEF WheelInv

LEMMA WheelInit ==
  ASSUME Wheel!Init
  PROVE  WheelInv
<1> USE WheelConsts DEF Wheel!Init, Wheel!Nobody
<1>1. WheelTypeOK
  BY DEF WheelTypeOK
<1>2. Distinct(<<>>) /\ \A u : ~ In(<<>>, u)
  BY DEF Distinct, In
<1>3. Placed
  BY <1>2 DEF Placed
<1>4. Punctual
  BY <1>2 DEF Punctual, Wheel!Regular
<1> QED  BY <1>1, <1>3, <1>4 DEF WheelInv

LEMMA WheelSame ==
  ASSUME WheelInv, UNCHANGED wheelVars
  PROVE  WheelInv'
BY DEF WheelInv, WheelTypeOK, Placed, Punctual, In, Distinct, Wheel!Regular, wheelVars

LEMMA WheelStep ==
  ASSUME WheelInv, [Next]_vars
  PROVE  WheelInv'
<1>1. CASE Wheel!Next
  BY <1>1, WheelSubmit, WheelCancel, WheelRefresh, WheelMoves, WheelCalls, WheelOneShot,
     WheelLoop, WheelDestroyed DEF Wheel!Next
<1>2. CASE UNCHANGED wheelVars
  BY <1>2, WheelSame
<1> QED
  BY <1>1, <1>2 DEF Next, vars, MpmcNext, LinkedNext, RingNext, PipelineNext, ServiceNext,
     RwNext, WheelNext

LEMMA WheelOnTime ==
  ASSUME WheelInv
  PROVE  OnTime
<1> USE WheelConsts
<1>1. \A l, t : Wheel!Occurs(l, t) # {} <=> In(l, t)
  BY DEF Wheel!Occurs, In
<1>2. \A l, t : Distinct(l) /\ In(l, t) => \E i \in 1..Len(l) : Wheel!Occurs(l, t) = {i}
  <2> SUFFICES ASSUME NEW l, NEW t, Distinct(l), NEW i \in 1..Len(l), l[i] = t
               PROVE  Wheel!Occurs(l, t) = {i}
    BY DEF In
  <2> QED  BY DEF Wheel!Occurs, Distinct
<1>3. CASE fault = "none"
  <2>1. WheelTypeOK /\ Placed /\ Punctual
    BY <1>3 DEF WheelInv
  <2> SUFFICES ASSUME NEW t \in Wheel!Handles
               PROVE
       /\ \A s \in Wheel!Slots : Wheel!Occurs(buckets[s], t) # {} =>
            /\ state[t] = "live" /\ slot[t] = s
            /\ t # current /\ Wheel!Occurs(walk, t) = {}
            /\ \E i \in 1..Len(buckets[s]) : Wheel!Occurs(buckets[s], t) = {i}
            /\ Wheel!Regular(t) => due[t] = ticks + 1 + ((windex - s) % max_steps)
       /\ t = current \/ Wheel!Occurs(walk, t) # {} =>
            state[t] = "live" /\ (Wheel!Regular(t) => due[t] = ticks)
       /\ state[t] = "live" =>
            t = current \/ Wheel!Occurs(walk, t) # {} \/ Wheel!Occurs(buckets[slot[t]], t) # {}
    BY <1>3 DEF OnTime, Wheel!OnTime
  <2>2. ASSUME NEW s \in Wheel!Slots, Wheel!Occurs(buckets[s], t) # {}
        PROVE  /\ state[t] = "live" /\ slot[t] = s
               /\ t # current /\ Wheel!Occurs(walk, t) = {}
               /\ \E i \in 1..Len(buckets[s]) : Wheel!Occurs(buckets[s], t) = {i}
               /\ Wheel!Regular(t) => due[t] = ticks + 1 + ((windex - s) % max_steps)
    BY <1>1, <1>2, <2>1, <2>2 DEF Placed, Punctual
  <2>3. t = current \/ Wheel!Occurs(walk, t) # {} =>
            state[t] = "live" /\ (Wheel!Regular(t) => due[t] = ticks)
    BY <1>1, <2>1 DEF Placed, Punctual
  <2>4. state[t] = "live" =>
          t = current \/ Wheel!Occurs(walk, t) # {} \/ Wheel!Occurs(buckets[slot[t]], t) # {}
    BY <1>1, <2>1 DEF Placed
  <2> QED  BY <2>2, <2>3, <2>4
<1>4. CASE fault # "none"
  BY <1>4 DEF WheelInv, OnTime, Wheel!OnTime
<1> QED  BY <1>3, <1>4

\* A timer is called in the step it was asked for, as far as the wheel reaches,
\* once per turn and never after a cancel (time_wheel.c): for any number of
\* timers and buckets and whatever the callbacks submit, cancel and refresh.
THEOREM WheelCallsOnTime == Spec => []OnTime
<1>1. Init => WheelInv
  BY WheelInit DEF Init
<1>2. WheelInv /\ [Next]_vars => WheelInv'
  BY WheelStep
<1>3. WheelInv => OnTime
  BY WheelOnTime
<1> QED  BY <1>1, <1>2, <1>3, PTL DEF Spec

===============================================================================
