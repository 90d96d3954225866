------------------------------ MODULE LogOutput ------------------------------
(***************************************************************************)
(* The output side of dlogutil -f <file> -r <kbytes> -n <count>            *)
(* (logutil.c, logprint.c): lines are appended to the file, their bytes    *)
(* are counted, and when the count reaches the limit rotate_logs renames   *)
(* the chain file, file.1, ..., file.<count> one step up and reopens the   *)
(* first.  The process can die between any two system calls; one started   *)
(* later, with the same command line, appends to what it finds.            *)
(*                                                                         *)
(* A line is abstracted to the order number of its write, and sizes to a   *)
(* unit of which KB make 1024 bytes.                                       *)
(***************************************************************************)
EXTENDS Naturals, FiniteSets

CONSTANTS
  KB,                 \* units in 1024 bytes
  g_log_rotate_size_kbytes,
  g_max_rotated_logs,
  g_dev_count,        \* number of devices, each with a header when several
  HeaderSize,
  LineSizes,          \* sizes of a formatted line
  MaxLines,           \* bound on the lines written
  MaxCrashes,         \* bound on the deaths of the process
  RenameFaults,       \* rename may fail with an error other than ENOENT
  WriteFaults         \* a write may fail or be partial, an open may fail

ASSUME OutputAssumption ==
  /\ KB \in Nat \ {0} /\ g_log_rotate_size_kbytes \in Nat
  /\ g_max_rotated_logs \in Nat /\ g_dev_count \in Nat
  /\ HeaderSize \in Nat /\ LineSizes \subseteq Nat
  /\ MaxLines \in Nat /\ MaxCrashes \in Nat
  /\ {RenameFaults, WriteFaults} \subseteq BOOLEAN

VARIABLES
  files,              \* 0 is the file itself, i is file.i
  g_out_byte_count,
  pc,                 \* run, rotate, dead
  step,               \* the loop variable i of rotate_logs
  headers,            \* headers this process has written
  nlines,             \* lines that reached a file so far
  crashes,
  unrenamed           \* history: a rename of an existing file has failed

vars == <<files, g_out_byte_count, pc, step, headers, nlines, crashes, unrenamed>>

Chain == 0 .. g_max_rotated_logs
Absent == [present |-> FALSE, lines |-> {}, size |-> 0]
Empty == [present |-> TRUE, lines |-> {}, size |-> 0]
File == [present : BOOLEAN, lines : SUBSET Nat, size : Nat]

(* Slip: O_TRUNC. *)
open_logfileTruncates(f) == Empty

(* open_logfile: O_APPEND | O_CREAT. *)
open_logfile(f) == IF f.present THEN f ELSE Empty

(* The first setup_output, over no file. *)
Init ==
  /\ files = [i \in Chain |-> IF i = 0 THEN Empty ELSE Absent]
  /\ g_out_byte_count = 0
  /\ pc = "run" /\ step = 0
  /\ headers = 0 /\ nlines = 0 /\ crashes = 0 /\ unrenamed = FALSE

-----------------------------------------------------------------------------
(* The header of a device goes to the file and is not counted. *)
maybePrintStart ==
  /\ pc = "run"
  /\ g_dev_count > 1 /\ headers < g_dev_count
  /\ headers' = headers + 1
  /\ files' = [files EXCEPT ![0].size = @ + HeaderSize]
  /\ UNCHANGED <<g_out_byte_count, pc, step, nlines, crashes, unrenamed>>

(* Bytes a write of a line of this size puts into the file. *)
log_print_log_line(size) == IF WriteFaults THEN 0 .. size ELSE {size}

(* Slip: the bytes are counted without the current line. *)
limitReachedBefore(count, bytes) ==
  g_log_rotate_size_kbytes > 0 /\ count \div KB >= g_log_rotate_size_kbytes

(* Slip: the limit is compared with units, not with kilobytes. *)
limitReachedEarly(count, bytes) ==
  g_log_rotate_size_kbytes > 0 /\ count + bytes >= g_log_rotate_size_kbytes

limitReached(count, bytes) ==
  g_log_rotate_size_kbytes > 0 /\ (count + bytes) \div KB >= g_log_rotate_size_kbytes

(* Slip: one file more than the option allows. *)
firstStepBeyond == g_max_rotated_logs + 1

(* The rotation starts with the oldest file name. *)
firstStep == g_max_rotated_logs

(* An entry is printed, or suppressed by the filter (no bytes); then the  *)
(* limit is checked either way.                                           *)
processBuffer(size) ==
  /\ pc = "run"
  /\ nlines < MaxLines
  /\ \E bytes \in {0} \cup log_print_log_line(size) :
       /\ nlines' = IF bytes > 0 THEN nlines + 1 ELSE nlines
       /\ files' = [files EXCEPT
            ![0].size = @ + bytes,
            ![0].lines = IF bytes > 0 THEN @ \cup {nlines + 1} ELSE @]
       /\ g_out_byte_count' = g_out_byte_count + bytes
       /\ IF limitReached(g_out_byte_count, bytes)
            THEN pc' = "rotate" /\ step' = firstStep
            ELSE UNCHANGED <<pc, step>>
  /\ UNCHANGED <<headers, crashes, unrenamed>>

(* Slip: the older name is left behind (link instead of rename). *)
renameCopies ==
  /\ pc = "rotate" /\ step > 0
  /\ files' = IF files[step - 1].present
                THEN [files EXCEPT ![step] = files[step - 1]] ELSE files
  /\ step' = step - 1
  /\ UNCHANGED <<g_out_byte_count, pc, headers, nlines, crashes, unrenamed>>

(* rename file.<step - 1> to file.<step>; a missing file is no error, and *)
(* after any other error the loop goes on.                                *)
rename ==
  /\ pc = "rotate" /\ step > 0
  /\ \/ /\ files[step - 1].present
        /\ files' = [files EXCEPT ![step] = files[step - 1], ![step - 1] = Absent]
        /\ UNCHANGED unrenamed
     \/ /\ RenameFaults /\ files[step - 1].present
        /\ unrenamed' = TRUE
        /\ UNCHANGED files
     \/ /\ ~files[step - 1].present
        /\ UNCHANGED <<files, unrenamed>>
  /\ step' = step - 1
  /\ UNCHANGED <<g_out_byte_count, pc, headers, nlines, crashes>>

reopen ==
  /\ pc = "rotate" /\ step = 0
  /\ files' = [files EXCEPT ![0] = open_logfile(@)]
  /\ g_out_byte_count' = 0
  /\ pc' = "run"
  /\ UNCHANGED <<step, headers, nlines, crashes, unrenamed>>

(* A restarted dlogutil. *)
setup_output ==
  /\ pc = "dead"
  /\ files' = [files EXCEPT ![0] = open_logfile(@)]
  /\ g_out_byte_count' = files[0].size
  /\ headers' = 0
  /\ pc' = "run"
  /\ UNCHANGED <<step, nlines, crashes, unrenamed>>

(* A failing header write, line allocation or reopen ends the process,    *)
(* and so does a signal; all leave the files as they are.                 *)
Die ==
  /\ pc # "dead" /\ crashes < MaxCrashes
  /\ pc' = "dead"
  /\ crashes' = crashes + 1
  /\ UNCHANGED <<files, g_out_byte_count, step, headers, nlines, unrenamed>>

rotate_logs == rename \/ reopen

Next ==
  \/ maybePrintStart
  \/ \E size \in LineSizes : processBuffer(size)
  \/ rotate_logs
  \/ Die
  \/ setup_output

Spec == Init /\ [][Next]_vars

-----------------------------------------------------------------------------
(* Types.  A rotation only touches the file names -n allows. *)
TypeOK ==
  /\ files \in [Chain -> File]
  /\ g_out_byte_count \in Nat
  /\ pc \in {"run", "rotate", "dead"}
  /\ step \in Chain
  /\ headers \in Nat /\ nlines \in Nat /\ crashes \in Nat
  /\ unrenamed \in BOOLEAN

onDisk == UNION {files[i].lines : i \in Chain}

(* Concatenating file.<count>, ..., file.1, file gives the lines in the   *)
(* order they were written, also after deaths in the middle of a rotation *)
(* and failing renames.                                                   *)
FilesOrdered ==
  \A i, j \in Chain : i < j =>
    \A a \in files[i].lines, b \in files[j].lines : b < a

(* While renames succeed, only the oldest lines are given up: what is on  *)
(* disk has no gap, wherever the process died and started again.          *)
OnlyOldestLost ==
  ~unrenamed => \A a \in onDisk : a .. nlines \subseteq onDisk

(* A file is only rotated away once it has reached the limit, whatever    *)
(* fails.                                                                 *)
RotatedFull ==
  \A i \in Chain \ {0} :
    files[i].present => files[i].size >= g_log_rotate_size_kbytes * KB

(* "Rotates the log file every <Kbytes> of output": while renames succeed *)
(* the file exceeds the limit by at most one line and the headers of one  *)
(* process, once more for each time the process died before rotating it.  *)
ActiveFileBounded ==
  (g_log_rotate_size_kbytes > 0 /\ ~unrenamed) =>
    \A longest \in {s \in LineSizes : \A r \in LineSizes : r <= s} :
      files[0].size < g_log_rotate_size_kbytes * KB
                        + (crashes + 1) * (longest + g_dev_count * HeaderSize)
=============================================================================
