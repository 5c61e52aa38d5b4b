-------------------------------- MODULE RwLock --------------------------------
(***************************************************************************)
(* The reader-writer locks of sync/: rwlock.c, made of two semaphores and  *)
(* a count of readers, and rwlock.hpp, which spins on two counters.        *)
(*                                                                         *)
(* A section between sem_wait(mtx) and sem_post(mtx) is one step where     *)
(* nothing in it can block; otherwise one step per shared access.  A wait  *)
(* on mtx that fails, in rwl_readLock or rwl_readUnlock, changes nothing,  *)
(* like one on wrt in rwl_writeLock: a stuttering step.                    *)
(***************************************************************************)
EXTENDS Integers, FiniteSets

CONSTANT Threads  \* each takes the lock for reading or for writing

VARIABLES
  kind,       \* "sem" for rwlock.c, "spin" for rwlock.hpp
  wrt,        \* semaphore wrt; the counter write of the spinning lock
  mtx,        \* semaphore mtx
  readcount,  \* readcount; the counter read of the spinning lock
  pc,         \* where each thread is
  failed      \* history: a sem_wait on wrt was interrupted in rwl_readLock

vars == <<kind, wrt, mtx, readcount, pc, failed>>

Init ==
  /\ kind \in {"sem", "spin"}
  /\ wrt = (IF kind = "sem" THEN 1 ELSE 0)
  /\ mtx = 1
  /\ readcount = 0
  /\ pc = [t \in Threads |-> "idle"]
  /\ failed = FALSE

Goto(t, from, to) == pc[t] = from /\ pc' = [pc EXCEPT ![t] = to]

-----------------------------------------------------------------------------
(* rwlock.c *)

\* rwl_writeLock; a wait that fails changes nothing.
WriteLock(t) ==
  /\ kind = "sem"
  /\ wrt > 0
  /\ Goto(t, "idle", "writing")
  /\ wrt' = wrt - 1
  /\ UNCHANGED <<kind, mtx, readcount, failed>>

WriteUnlock(t) ==
  /\ kind = "sem"
  /\ Goto(t, "writing", "idle")
  /\ wrt' = wrt + 1
  /\ UNCHANGED <<kind, mtx, readcount, failed>>

\* rwl_readLock takes mtx and counts the reader; the first one waits for the
\* writer, with mtx in its hands.
ReadLock(t) ==
  /\ kind = "sem"
  /\ mtx > 0
  /\ Goto(t, "idle", IF readcount = 0 THEN "first" ELSE "counted")
  /\ mtx' = mtx - 1
  /\ readcount' = readcount + 1
  /\ UNCHANGED <<kind, wrt, failed>>

FirstReader(t) ==
  /\ wrt > 0
  /\ Goto(t, "first", "counted")
  /\ wrt' = wrt - 1
  /\ UNCHANGED <<kind, mtx, readcount, failed>>

\* A signal interrupts the wait: mtx is given back, the count is not.
FirstReaderFails(t) ==
  /\ Goto(t, "first", "idle")
  /\ mtx' = mtx + 1
  /\ failed' = TRUE
  /\ UNCHANGED <<kind, wrt, readcount>>

ReadLocked(t) ==
  /\ Goto(t, "counted", "reading")
  /\ mtx' = mtx + 1
  /\ UNCHANGED <<kind, wrt, readcount, failed>>

\* Faulty variant: every reader that leaves lets a writer in.
ReadUnlockAny(t) ==
  /\ kind = "sem"
  /\ mtx > 0
  /\ Goto(t, "reading", "idle")
  /\ readcount' = readcount - 1
  /\ wrt' = wrt + 1
  /\ UNCHANGED <<kind, mtx, failed>>

\* rwl_readUnlock: the last reader lets the writers in.
ReadUnlock(t) ==
  /\ kind = "sem"
  /\ mtx > 0
  /\ Goto(t, "reading", "idle")
  /\ readcount' = readcount - 1
  /\ wrt' = IF readcount = 1 THEN wrt + 1 ELSE wrt
  /\ UNCHANGED <<kind, mtx, failed>>

-----------------------------------------------------------------------------
(* rwlock.hpp *)

\* rwlock_rlock: no writer is seen,
SpinRead(t) ==
  /\ kind = "spin"
  /\ wrt = 0
  /\ Goto(t, "idle", "add")
  /\ UNCHANGED <<kind, wrt, mtx, readcount, failed>>

\* the reader is counted,
AddReader(t) ==
  /\ Goto(t, "add", "check")
  /\ readcount' = readcount + 1
  /\ UNCHANGED <<kind, wrt, mtx, failed>>

\* Faulty variant: the writer is not looked at again.
CheckWriterNot(t) ==
  /\ Goto(t, "check", "reading")
  /\ UNCHANGED <<kind, wrt, mtx, readcount, failed>>

\* and a writer that has come since makes it go back.
CheckWriter(t) ==
  /\ Goto(t, "check", IF wrt = 0 THEN "reading" ELSE "sub")
  /\ UNCHANGED <<kind, wrt, mtx, readcount, failed>>

SubReader(t) ==
  /\ Goto(t, "sub", "idle")
  /\ readcount' = readcount - 1
  /\ UNCHANGED <<kind, wrt, mtx, failed>>

\* rwlock_runlock
SpinReadUnlock(t) ==
  /\ kind = "spin"
  /\ Goto(t, "reading", "idle")
  /\ readcount' = readcount - 1
  /\ UNCHANGED <<kind, wrt, mtx, failed>>

\* rwlock_wlock: test-and-set of write, then the readers leave.
SpinWrite(t) ==
  /\ kind = "spin"
  /\ wrt = 0
  /\ Goto(t, "idle", "drain")
  /\ wrt' = 1
  /\ UNCHANGED <<kind, mtx, readcount, failed>>

Drained(t) ==
  /\ readcount = 0
  /\ Goto(t, "drain", "writing")
  /\ UNCHANGED <<kind, wrt, mtx, readcount, failed>>

\* rwlock_wunlock
SpinWriteUnlock(t) ==
  /\ kind = "spin"
  /\ Goto(t, "writing", "idle")
  /\ wrt' = 0
  /\ UNCHANGED <<kind, mtx, readcount, failed>>

-----------------------------------------------------------------------------
Begin(t) == WriteLock(t) \/ ReadLock(t) \/ SpinRead(t) \/ SpinWrite(t)

\* What a thread does once it has begun; it gives back what it took.
Continue(t) ==
  \/ FirstReader(t) \/ ReadLocked(t) \/ ReadUnlock(t) \/ WriteUnlock(t)
  \/ AddReader(t) \/ CheckWriter(t) \/ SubReader(t) \/ SpinReadUnlock(t)
  \/ Drained(t) \/ SpinWriteUnlock(t)

Next == \E t \in Threads : Begin(t) \/ Continue(t) \/ FirstReaderFails(t)

-----------------------------------------------------------------------------
(* Properties *)

In(s) == {t \in Threads : pc[t] \in s}

SemLabels == {"idle", "first", "counted", "reading", "writing"}
SpinLabels == {"idle", "add", "check", "sub", "reading", "drain", "writing"}

\* The state is well typed; a thread is in the functions of its lock.
TypeOK ==
  /\ kind \in {"sem", "spin"}
  /\ wrt \in Int /\ mtx \in Int /\ readcount \in Int
  /\ pc \in [Threads -> IF kind = "sem" THEN SemLabels ELSE SpinLabels]
  /\ failed \in BOOLEAN

\* A writer is alone, and the counters say who is inside: mtx is free unless a
\* reader is on its way in, and wrt is free unless someone has the lock.  A
\* sem_wait that fails in rwl_readLock leaves the count one too high, and from
\* then on readers pass a writer.
Exclusion ==
  ~failed =>
    /\ In({"writing"}) # {} =>
         Cardinality(In({"writing"})) = 1 /\ In({"reading", "counted"}) = {}
    /\ readcount = Cardinality(In({"first", "counted", "check", "sub", "reading"}))
    /\ kind = "sem" =>
         /\ mtx \in {0, 1}
         /\ mtx + Cardinality(In({"first", "counted"})) = 1
         /\ wrt = IF In({"counted", "reading", "writing"}) = {} THEN 1 ELSE 0
    /\ kind = "spin" =>
         wrt \in {0, 1} /\ wrt = Cardinality(In({"drain", "writing"}))

\* A writer of the spinning lock that has set write gets in, however often the
\* readers try.
WriterGetsIn == \A t \in Threads : pc[t] = "drain" ~> pc[t] = "writing"

===============================================================================
