----------------------------- MODULE NanoLogger -----------------------------
(***************************************************************************)
(* log/NanoLog.cpp, class NanoLogger: the life of a logger and the loop of *)
(* its thread, pop(), around whichever buffer it was given.  NanoRing and  *)
(* NanoQueue supply the buffer's push and try_pop, FileWriter the files.   *)
(***************************************************************************)
EXTENDS FileWriter

CONSTANT Producers  \* threads that execute log statements

VARIABLES
  state,   \* m_state
  thread,  \* where pop() is
  logged   \* history: the lines handed to m_file_writer.write, in order

loggerVars == <<state, thread, logged, writerVars>>

LoggerInit ==
  /\ state = "INIT"
  /\ thread = "init"
  /\ logged = <<>>
  /\ WriterInit

LoggerType ==
  /\ state \in {"INIT", "READY", "SHUTDOWN"}
  /\ thread \in {"init", "loop", "pop", "drain", "exit"}
  /\ logged \in Seq(Lines)

\* The constructor's last statement, with the thread already running.
Ready ==
  /\ state = "INIT"
  /\ state' = "READY"
  /\ UNCHANGED <<thread, logged, writerVars>>

\* The destructor up to its join().  Its caller lets no log statement run
\* beside it: idle says that none does.
Shutdown(idle) ==
  /\ state = "READY"
  /\ idle
  /\ state' = "SHUTDOWN"
  /\ UNCHANGED <<thread, logged, writerVars>>

\* while (m_state == INIT) sleep
Awake ==
  /\ thread = "init"
  /\ state # "INIT"
  /\ thread' = "loop"
  /\ UNCHANGED <<state, logged, writerVars>>

\* while (m_state == READY)
Loop ==
  /\ thread = "loop"
  /\ thread' = IF state = "READY" THEN "pop" ELSE "drain"
  /\ UNCHANGED <<state, logged, writerVars>>

\* m_file_writer.write(logline)
Log(line) ==
  /\ logged' = Append(logged, line)
  /\ Write(line)

\* What pop() does with the answer of try_pop: a line is written to the file
\* and the loop goes on; without one it sleeps, or ends while draining.
Got(line) ==
  /\ Log(line)
  /\ thread' = IF thread = "drain" THEN "drain" ELSE "loop"
  /\ UNCHANGED state

GotNothing ==
  /\ thread' = IF thread = "drain" THEN "exit" ELSE "loop"
  /\ UNCHANGED <<state, logged, writerVars>>

-----------------------------------------------------------------------------
\* The files one after the other are what the logger wrote, and each has the
\* size it should have: rolling loses no line and splits none.
FilesComplete == Joined(files) = logged /\ FilesBounded

=============================================================================
