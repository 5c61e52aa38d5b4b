----------------------------- MODULE LogService -----------------------------
(***************************************************************************)
(* base/log.cpp and log.h over base/task_queue_impl.h and thread.cpp: a    *)
(* log statement asks the log_t for its level and class in the caller's    *)
(* thread and hands the rest to a task queue, which one worker thread      *)
(* empties; changes of the configuration go the same way.  The worker also *)
(* keeps the directory and file of the day.                                *)
(*                                                                         *)
(* A section under the queue's mutex is one step.  A log_t is the number   *)
(* of the start() that made it; a class name is the set of classes it      *)
(* points into, <<log_t, number of the set>>.  One class and one level     *)
(* stand for all; printing on the screen is left out.                      *)
(***************************************************************************)
EXTENDS Naturals, Sequences, FiniteSets

CONSTANTS Clients,    \* threads that log
          MaxLines,   \* bound: lines handed to the queue
          MaxMods,    \* bound: changes of the configuration
          MaxStarts,  \* bound: calls of start
          MaxDays,    \* bound: days
          MaxTry      \* 10000: file names tried one after the other

VARIABLES
  m_log,       \* the current log_t, 0 for NULL
  starts,      \* history: log_t objects made
  deleted,     \* log_t objects that were deleted
  level,       \* m_enabled_level has the level
  sets,        \* m_class_set_history: whether each set has the class
  gone,        \* sets that were deleted
  m_enable_file,
  last_day,    \* m_last_create_dir_tm
  file,        \* the file m_file has open, <<>> for none
  index,       \* m_file_name_index
  m_flag,      \* of the task queue
  m_tasklist,  \* of the task queue
  worker,      \* where the worker thread is
  task,        \* the task it runs
  checked,     \* clients that have found their level enabled
  found,       \* the class name each client has found, <<>> for none
  stopping,    \* stop() is in its join
  day,         \* the date
  files,       \* the lines in each file on disk, in their order
  lines,       \* history: lines 1..lines were handed to the queue
  mods,        \* history: changes handed to the queue
  done,        \* history: for each line whose log_content has run the day it was
               \* written to a file on, 0 if it was not to be or found none open
  deaf         \* history: a task was queued although the worker had ended

vars == <<m_log, starts, deleted, level, sets, gone, m_enable_file, last_day,
          file, index, m_flag, m_tasklist, worker, task, checked, found,
          stopping, day, files, lines, mods, done, deaf>>
logState == <<m_log, starts, deleted, level, sets, gone, m_enable_file>>
fileState == <<last_day, file, index, files, done>>
queueState == <<m_flag, m_tasklist, worker, task, deaf>>
statements == <<checked, found>>

NoFile == <<>>
NoTask == [op |-> "none"]

Init ==
  /\ m_log = 0 /\ starts = 0 /\ deleted = {}
  /\ level = FALSE /\ sets = <<>> /\ gone = {} /\ m_enable_file = FALSE
  /\ last_day = 0 /\ file = NoFile /\ index = 0
  /\ m_flag = TRUE /\ m_tasklist = <<>>
  /\ worker = "none" /\ task = NoTask
  /\ checked = {} /\ found = [c \in Clients |-> <<>>]
  /\ stopping = FALSE
  /\ day = 1
  /\ files = [f \in {} |-> <<>>]
  /\ lines = 0 /\ mods = 0
  /\ done = [l \in {} |-> 0]
  /\ deaf = FALSE

-----------------------------------------------------------------------------
(* task_queue_t *)

\* Faulty variant: the worker is woken for the second task, not the first.
ProduceLate(t) ==
  /\ m_tasklist' = Append(m_tasklist, t)
  /\ worker' = IF worker = "asleep" /\ m_tasklist # <<>> THEN "consume" ELSE worker
  /\ deaf' = (deaf \/ worker = "exited")
  /\ UNCHANGED <<m_flag, task>>

\* produce: the condition is signalled when the list was empty.
Produce(t) ==
  /\ m_tasklist' = Append(m_tasklist, t)
  /\ worker' = IF worker = "asleep" /\ m_tasklist = <<>> THEN "consume" ELSE worker
  /\ deaf' = (deaf \/ worker = "exited")
  /\ UNCHANGED <<m_flag, task>>

\* consume, called by run(): a task, the end, or a wait for the condition.
Consume ==
  /\ worker = "consume"
  /\ IF m_tasklist # <<>>
     THEN /\ worker' = "run"
          /\ task' = Head(m_tasklist)
          /\ m_tasklist' = Tail(m_tasklist)
     ELSE /\ worker' = IF m_flag THEN "asleep" ELSE "exited"
          /\ UNCHANGED <<task, m_tasklist>>
  /\ UNCHANGED <<logState, fileState, m_flag, statements, stopping, day, lines, mods, deaf>>

-----------------------------------------------------------------------------
(* log_service_t *)

\* start: a new log_t and a worker.  The memset of m_last_create_dir_tm has
\* its arguments swapped, so the date is what the memory held: no date, or,
\* in the memory of an earlier log_t, the day that one saw last.  Nothing
\* sets the queue's m_flag again.
Start ==
  /\ m_log = 0
  /\ starts < MaxStarts
  /\ starts' = starts + 1
  /\ m_log' = starts + 1
  /\ level' = TRUE
  /\ sets' = <<TRUE>>
  /\ gone' = {}
  /\ m_enable_file' \in BOOLEAN
  /\ last_day' \in {0, last_day}
  /\ file' = NoFile
  /\ index' = 0
  /\ worker' = "consume"
  /\ UNCHANGED <<deleted, files, done, m_flag, m_tasklist, task, deaf,
                 statements, stopping, day, lines, mods>>

\* stop up to its join: close() ends the queue and wakes the worker.  The
\* caller lets no log statement run beside it.
Stop ==
  /\ m_log # 0 /\ ~stopping
  /\ checked = {} /\ \A c \in Clients : found[c] = <<>>
  /\ stopping' = TRUE
  /\ m_flag' = FALSE
  /\ worker' = IF worker = "asleep" THEN "consume" ELSE worker
  /\ UNCHANGED <<logState, fileState, m_tasklist, task, deaf, statements, day,
                 lines, mods>>

\* The worker was joined; ~log_t deletes the sets.
StopReturns ==
  /\ stopping
  /\ worker = "exited"
  /\ deleted' = deleted \cup {m_log}
  /\ m_log' = 0
  /\ stopping' = FALSE
  /\ UNCHANGED <<starts, level, sets, gone, m_enable_file, fileState, queueState,
                 statements, day, lines, mods>>

\* A log statement, first part: is_level_enabled; with the level off the
\* statement ends.
CheckLevel(c) ==
  /\ m_log # 0 /\ ~stopping
  /\ c \notin checked /\ found[c] = <<>>
  /\ lines + Cardinality(checked) + Cardinality({d \in Clients : found[d] # <<>>})
       < MaxLines
  /\ level
  /\ checked' = checked \cup {c}
  /\ UNCHANGED <<logState, fileState, queueState, found, stopping, day, lines, mods>>

\* Second part: find_class_name, in the set the worker has put there last; a
\* class that is not in it ends the statement.
Find(c) ==
  /\ c \in checked
  /\ checked' = checked \ {c}
  /\ found' = IF sets[Len(sets)] THEN [found EXCEPT ![c] = <<m_log, Len(sets)>>]
              ELSE found
  /\ UNCHANGED <<logState, fileState, queueState, stopping, day, lines, mods>>

\* Third part: the task with the class name goes to the queue.
Log(c) ==
  /\ found[c] # <<>>
  /\ lines' = lines + 1
  /\ Produce([op |-> "line", log |-> m_log, class |-> found[c], line |-> lines + 1])
  /\ found' = [found EXCEPT ![c] = <<>>]
  /\ UNCHANGED <<logState, fileState, checked, stopping, day, mods>>

\* log_service_t::mod_level, mod_class, mod_print_file
Mod(op, on) ==
  /\ m_log # 0 /\ ~stopping
  /\ mods < MaxMods
  /\ mods' = mods + 1
  /\ Produce([op |-> op, log |-> m_log, on |-> on])
  /\ UNCHANGED <<logState, fileState, statements, stopping, day, lines>>

-----------------------------------------------------------------------------
(* log_t, run by the worker *)

RunLevel ==
  /\ task.op = "level"
  /\ level' = task.on
  /\ UNCHANGED <<sets, gone, m_enable_file, fileState>>

RunPrintFile ==
  /\ task.op = "file"
  /\ m_enable_file' = task.on
  /\ UNCHANGED <<level, sets, gone, fileState>>

\* Faulty variant: the set that was replaced is deleted.
RunClassDeleting ==
  /\ task.op = "class"
  /\ sets' = Append(sets, task.on)
  /\ gone' = gone \cup {<<m_log, Len(sets)>>}
  /\ UNCHANGED <<level, m_enable_file, fileState>>

\* mod_class: a changed copy of the set; the old one stays in the history.
RunClass ==
  /\ task.op = "class"
  /\ sets' = Append(sets, task.on)
  /\ UNCHANGED <<level, gone, m_enable_file, fileState>>

\* check_and_create_dir: the name tried last, the first that is not on disk
Exists(k) == <<day, k>> \in DOMAIN files
Taken(k) == k < index + MaxTry /\ Exists(k)
FileIndex ==
  CHOOSE k \in index + 1..index + MaxTry :
    ~Taken(k) /\ \A j \in index + 1..k - 1 : Taken(j)

\* Faulty variant: the file of an earlier day is kept.
SameDayEver == last_day # 0

\* time_equal.  m_line_num is never counted, so only a new day opens a file.
SameDay == last_day = day

\* The task's line was written on day d, or not at all.
Logged(d) ==
  done' = [l \in DOMAIN done \cup {task.line} |-> IF l = task.line THEN d ELSE done[l]]

\* log_content with check_and_create_dir.  Without the option nothing goes to
\* the file; a directory that cannot be made costs the line, and a file that
\* cannot be opened every line of the day.
RunLine ==
  /\ task.op = "line"
  /\ \/ /\ m_enable_file /\ SameDay
        /\ file # NoFile
        /\ files' = [files EXCEPT ![file] = Append(@, task.line)]
        /\ Logged(day)
        /\ UNCHANGED <<last_day, file, index>>
     \/ /\ ~m_enable_file \/ ~SameDay \/ file = NoFile
        /\ Logged(0)
        /\ UNCHANGED <<last_day, file, index, files>>
     \/ /\ m_enable_file /\ ~SameDay
        /\ index' = FileIndex
        /\ last_day' = day
        /\ \/ /\ file' = <<day, FileIndex>>
              /\ files' = [f \in DOMAIN files \cup {file'} |->
                             IF f = file' THEN <<task.line>> ELSE files[f]]
              /\ Logged(day)
           \/ /\ file' = NoFile
              /\ Logged(0)
              /\ UNCHANGED files
  /\ UNCHANGED <<level, sets, gone, m_enable_file>>

\* The worker runs its task; one on a deleted log_t is undefined and ends here.
Run ==
  /\ worker = "run"
  /\ task.log \notin deleted
  /\ RunLevel \/ RunClass \/ RunPrintFile \/ RunLine
  /\ worker' = "consume"
  /\ task' = NoTask
  /\ UNCHANGED <<m_log, starts, deleted, m_flag, m_tasklist, statements, stopping,
                 day, lines, mods, deaf>>

NewDay ==
  /\ day < MaxDays
  /\ day' = day + 1
  /\ UNCHANGED <<logState, fileState, queueState, statements, stopping, lines, mods>>

-----------------------------------------------------------------------------
Worker == Consume \/ Run

Next ==
  \/ Start \/ Stop \/ StopReturns \/ NewDay
  \/ \E c \in Clients : CheckLevel(c) \/ Find(c) \/ Log(c)
  \/ \E op \in {"level", "class", "file"}, on \in BOOLEAN : Mod(op, on)
  \/ Worker

-----------------------------------------------------------------------------
(* Properties *)

\* A task runs on a log_t that is there, and the class name it carries points
\* into a set that is there although the classes may have changed since.  A
\* restart breaks the first: the queue stays closed, the new worker ends at
\* the first empty list, and what is queued then is left for the worker of a
\* later log_t.  Nothing else does.
TasksLive ==
  /\ worker = "run" /\ ~deaf =>
       task.log \notin deleted
         /\ (task.op = "line" => task.class[1] \notin deleted /\ task.class \notin gone)
  /\ deaf => starts > 1

\* The lines on disk are in a file of the day they were written on, and each is
\* there once and in one file.  A line that was written stays on disk: no file
\* is opened over one that has lines, unless all the names of that line's own
\* day are used.
Filed(l) == \E f \in DOMAIN files : \E i \in 1..Len(files[f]) : files[f][i] = l
NamesUsed(d) == \A k \in 1..MaxTry : <<d, k>> \in DOMAIN files
OwnDay ==
  \A f \in DOMAIN files : \A i \in 1..Len(files[f]) :
    files[f][i] \in DOMAIN done /\ done[files[f][i]] = f[1]
OnePlace ==
  \A f, g \in DOMAIN files : \A i \in 1..Len(files[f]), j \in 1..Len(files[g]) :
    files[f][i] = files[g][j] => f = g /\ i = j
KeptLines ==
  \A l \in DOMAIN done : done[l] # 0 => Filed(l) \/ NamesUsed(done[l])
DayFiles == OwnDay /\ OnePlace /\ KeptLines

\* A line that was handed to the queue is logged, unless the service was
\* stopped and started again.
EveryLineRuns ==
  \A l \in 1..MaxLines : lines >= l ~> l \in DOMAIN done \/ deaf

\* stop() returns, with every line that was queued before it logged, under the
\* same condition.
StopEnds ==
  /\ stopping ~> ~stopping \/ deaf
  /\ [](m_log = 0 => deaf \/ DOMAIN done = 1..lines)

=============================================================================
