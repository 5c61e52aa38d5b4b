------------------------------- MODULE MCUnits ------------------------------
(***************************************************************************)
(* The smaller units of the repository on small instances: the queues of   *)
(* Mutiqueue/, the pipeline of its main.cpp, the log service of base/, the *)
(* reader-writer locks of sync/ and the time wheel of the net library.     *)
(* They share nothing, so a behaviour runs one of them.                    *)
(***************************************************************************)
EXTENDS Integers, Sequences, FiniteSets

CONSTANTS Writers, Consumers, None, Size, MaxSeq,  \* MPMC queue
          Producers, MaxNodes,                     \* linked queues
          Values, RingSize, Wrap,                  \* bounded SPSC queue
          Feeders, MaxSize, MaxInput,              \* pipeline
          Clients, MaxLines, MaxMods, MaxStarts, MaxDays, MaxTry,  \* log service
          Lockers,                                 \* reader-writer locks
          MaxTimers, max_steps, Asked, MaxTicks      \* time wheel

ASSUME LockersAssumption == IsFiniteSet(Lockers)
ASSUME MaxSizeAssumption == MaxSize \in Nat
ASSUME MaxTryAssumption == MaxTry \in Nat \ {0}
ASSUME MaxNodesAssumption == MaxNodes \in Nat \ {0}
ASSUME RingAssumption ==
  RingSize \in Nat \ {0} /\ Wrap \in Nat \ {0} /\ Wrap % RingSize = 0
ASSUME WheelAssumption ==
  max_steps \in Nat \ {0} /\ Asked \subseteq Nat /\ MaxTimers \in Nat

VARIABLES
  unit,  \* the one that runs
  head_seq, tail_seq, seq, data, pc, pos, val,
  kind, head, tail, next, made, freed, lpc, mine, prev, cpc, ahead, back, got,
  queue, closing,
  rhead, rtail, buffer, rpc, rcpc, rmine, rgot,
  que, m_exit, waiting, item, batch, inputs, pushed, printed, over,
  m_log, starts, deleted, level, sets, gone, m_enable_file, last_day, file,
  index, m_flag, m_tasklist, worker, task, checked, found, stopping, day, files,
  lines, mods, done, deaf,
  lock, wrt, mtx, readcount, wpc, failed,
  buckets, windex, steps, slot, state, walk, current, ticks, due, fault

Mpmc == INSTANCE MpmcQueue WITH Producers <- Writers, Values <- Writers
Linked == INSTANCE LinkedQueue WITH pc <- lpc
Ring == INSTANCE SpscRing
          WITH Size <- RingSize, head <- rhead, tail <- rtail,
               pc <- rpc, cpc <- rcpc, mine <- rmine, got <- rgot
Pipe == INSTANCE AddPipeline
Service == INSTANCE LogService
Rw == INSTANCE RwLock WITH Threads <- Lockers, kind <- lock, pc <- wpc
Wheel == INSTANCE TimeWheel

mpmcVars == <<head_seq, tail_seq, seq, data, pc, pos, val>>
linkedVars == <<kind, head, tail, next, made, freed, lpc, mine, prev, cpc, ahead,
                back, got, queue, closing>>
ringVars == <<rhead, rtail, buffer, rpc, rcpc, rmine, rgot>>
pipeVars == <<que, m_exit, waiting, item, batch, inputs, pushed, printed, over>>
serviceVars == <<m_log, starts, deleted, level, sets, gone, m_enable_file,
                 last_day, file, index, m_flag, m_tasklist, worker, task,
                 checked, found, stopping, day, files, lines, mods, done, deaf>>
rwVars == <<lock, wrt, mtx, readcount, wpc, failed>>
wheelVars == <<buckets, windex, steps, slot, state, walk, current, ticks, due,
               fault>>
vars == <<unit, mpmcVars, linkedVars, ringVars, pipeVars, serviceVars, rwVars,
          wheelVars>>

Init ==
  /\ unit \in {"mpmc", "linked", "ring", "pipeline", "service", "rwlock", "wheel"}
  /\ Mpmc!Init /\ Linked!Init /\ Ring!Init /\ Pipe!Init /\ Service!Init
  /\ Rw!Init /\ Wheel!Init
  /\ unit # "linked" => kind = "mpsc"
  /\ unit # "rwlock" => lock = "sem"

MpmcNext ==
  /\ unit = "mpmc"
  /\ Mpmc!Next
  /\ UNCHANGED <<unit, linkedVars, ringVars, pipeVars, serviceVars, rwVars,
                 wheelVars>>

LinkedNext ==
  /\ unit = "linked"
  /\ Linked!Next
  /\ UNCHANGED <<unit, mpmcVars, ringVars, pipeVars, serviceVars, rwVars,
                 wheelVars>>

RingNext ==
  /\ unit = "ring"
  /\ Ring!Next
  /\ UNCHANGED <<unit, mpmcVars, linkedVars, pipeVars, serviceVars, rwVars,
                 wheelVars>>

PipelineNext ==
  /\ unit = "pipeline"
  /\ Pipe!Next
  /\ UNCHANGED <<unit, mpmcVars, linkedVars, ringVars, serviceVars, rwVars,
                 wheelVars>>

ServiceNext ==
  /\ unit = "service"
  /\ Service!Next
  /\ UNCHANGED <<unit, mpmcVars, linkedVars, ringVars, pipeVars, rwVars,
                 wheelVars>>

RwNext ==
  /\ unit = "rwlock"
  /\ Rw!Next
  /\ UNCHANGED <<unit, mpmcVars, linkedVars, ringVars, pipeVars, serviceVars,
                 wheelVars>>

WheelNext ==
  /\ unit = "wheel"
  /\ Wheel!Next
  /\ UNCHANGED <<unit, mpmcVars, linkedVars, ringVars, pipeVars, serviceVars,
                 rwVars>>

Next == MpmcNext \/ LinkedNext \/ RingNext \/ PipelineNext \/ ServiceNext
          \/ RwNext \/ WheelNext

\* Threads inside a call are scheduled, consumers poll, the threads of the
\* pipeline and of the service run, and a consumer's compare-and-swap that is
\* tried again and again succeeds; nobody has to call anything.
Fairness ==
  /\ \A p \in Writers : WF_mpmcVars(unit = "mpmc" /\ Mpmc!EnqStep(p))
  /\ \A c \in Consumers :
       /\ WF_mpmcVars(unit = "mpmc" /\ Mpmc!DeqStep(c))
       /\ SF_mpmcVars(unit = "mpmc" /\ Mpmc!DeqClaim(c))
  /\ \A p \in Producers : WF_linkedVars(unit = "linked" /\ Linked!EnqStep(p))
  /\ WF_linkedVars(unit = "linked" /\ Linked!DeqStep)
  /\ \A f \in Feeders : WF_pipeVars(unit = "pipeline" /\ Pipe!Feed(f))
  /\ WF_pipeVars(unit = "pipeline" /\ Pipe!CalcStep)
  /\ WF_pipeVars(unit = "pipeline" /\ Pipe!PrintMove)
  /\ WF_serviceVars(unit = "service" /\ Service!Worker)
  /\ WF_serviceVars(unit = "service" /\ Service!StopReturns)
  /\ \A t \in Lockers : WF_rwVars(unit = "rwlock" /\ Rw!Continue(t))

Spec == Init /\ [][Next]_vars /\ Fairness

-----------------------------------------------------------------------------
(* Properties; the modules say what their parts mean. *)

\* The linked queues and the single-producer ring are first in, first out, and
\* their calls fail only for the reasons a caller may count on.
QueueSteps ==
  [][/\ Linked!FifoStep /\ Linked!HonestStep
     /\ Ring!FifoStep /\ Ring!HonestStep]_vars

\* No node of a linked queue is used after its delete, and none is leaked.
NodesLive == Linked!NodesLive

\* What is in the pipeline's queues is neither lost, doubled nor reordered.
InTransit == Pipe!InTransit

\* Whatever was handed over is received, from the MPMC queue and the linked
\* queues by their consumers and from the pipeline by the printer, and a writer
\* of the spinning lock that waits for the readers to leave gets in.
Progress ==
  /\ Mpmc!Delivered /\ Linked!Delivered /\ Pipe!Printed
  /\ Rw!WriterGetsIn

\* The log's tasks use neither a deleted log_t nor a deleted class name.
TasksLive == Service!TasksLive

\* The log's lines are in a file of their day, once, and stay there while it
\* has names left.
DayFiles == Service!DayFiles

\* The log's lines are logged before stop() returns, and it does return.
LinesLogged == Service!EveryLineRuns /\ Service!StopEnds

\* The reader-writer locks exclude.
LocksExclude == Rw!TypeOK /\ Rw!Exclusion

\* The wheel calls every timer in the step it is due in.
OnTime == Wheel!OnTime

=============================================================================
