----------------------------- MODULE FileWriter -----------------------------
(***************************************************************************)
(* log/NanoLog.cpp, class FileWriter: lines are appended to numbered files *)
(* and a new file is begun once the current one is larger than the roll    *)
(* size.  Only the number of bytes of a formatted line matters here; the   *)
(* bytes of a mega byte and the width of the unsigned int that holds the   *)
(* roll size are parameters.  NanoLogger calls Write.                      *)
(***************************************************************************)
EXTENDS Integers, Sequences, FiniteSets

CONSTANTS RollMb,    \* log_file_roll_size_mb
          MegaByte,  \* 1024 * 1024
          RollWrap,  \* 2^32: m_log_file_roll_size_bytes is an unsigned int
          MaxLines,  \* bound: log statements executed
          SizeOf     \* the bytes of each line once it is formatted

Lines == 1..MaxLines

ASSUME WriterAssumption ==
  /\ RollMb \in Nat /\ MegaByte \in Nat \ {0} /\ RollWrap \in Nat \ {0}
  /\ MaxLines \in Nat
  /\ SizeOf \in [Lines -> Nat \ {0}]

VARIABLES
  m_bytes_written,
  m_file_number,
  files    \* the lines in each file, by m_file_number

writerVars == <<m_bytes_written, m_file_number, files>>

\* NanoLogger passes max(1, roll size in mega bytes); the product is computed
\* in 32 bits.
m_log_file_roll_size_bytes ==
  ((IF RollMb < 1 THEN 1 ELSE RollMb) * MegaByte) % RollWrap

\* The constructor's roll_file opens the first file.
WriterInit ==
  /\ m_bytes_written = 0
  /\ m_file_number = 1
  /\ files = <<<<>>>>

\* Faulty variant: the new file inherits the old one's count.
WriteNoReset(line) ==
  LET bytes == m_bytes_written + SizeOf[line]
      grown == [files EXCEPT ![m_file_number] = Append(@, line)]
      full  == bytes > m_log_file_roll_size_bytes
  IN  /\ m_bytes_written' = bytes
      /\ m_file_number' = IF full THEN m_file_number + 1 ELSE m_file_number
      /\ files' = IF full THEN Append(grown, <<>>) ELSE grown

\* Faulty variant: the file number is not advanced, the open truncates the
\* file that was just closed.
WriteSameName(line) ==
  LET bytes == m_bytes_written + SizeOf[line]
      full  == bytes > m_log_file_roll_size_bytes
  IN  /\ m_bytes_written' = IF full THEN 0 ELSE bytes
      /\ files' = [files EXCEPT ![m_file_number] =
                     IF full THEN <<>> ELSE Append(@, line)]
      /\ UNCHANGED m_file_number

\* write, with roll_file: close, reset the count, truncate the next file
Write(line) ==
  LET bytes == m_bytes_written + SizeOf[line]
      grown == [files EXCEPT ![m_file_number] = Append(@, line)]
      full  == bytes > m_log_file_roll_size_bytes
  IN  /\ m_bytes_written' = IF full THEN 0 ELSE bytes
      /\ m_file_number' = IF full THEN m_file_number + 1 ELSE m_file_number
      /\ files' = IF full THEN Append(grown, <<>>) ELSE grown

-----------------------------------------------------------------------------
(* Properties *)

\* The bytes of a sequence of lines.
Bytes(s) ==
  LET upto[n \in 0..Len(s)] == IF n = 0 THEN 0 ELSE upto[n - 1] + SizeOf[s[n]]
  IN  upto[Len(s)]

\* The contents of files, one after the other.
Joined(fs) ==
  LET upto[n \in 0..Len(fs)] == IF n = 0 THEN <<>> ELSE upto[n - 1] \o fs[n]
  IN  upto[Len(fs)]

\* "mega bytes after which we roll to next log file": the count is that of the
\* open file, which write leaves at or below the roll size; every other file
\* has more than RollMb mega bytes, and its last line alone took it there.
FilesBounded ==
  /\ m_file_number = Len(files)
  /\ m_bytes_written = Bytes(files[Len(files)])
  /\ m_bytes_written <= m_log_file_roll_size_bytes
  /\ \A i \in 1..Len(files) - 1 :
       /\ Bytes(files[i]) > RollMb * MegaByte
       /\ Bytes(SubSeq(files[i], 1, Len(files[i]) - 1)) <= m_log_file_roll_size_bytes

=============================================================================
