----------------------------- MODULE DlogDaemon -----------------------------
(***************************************************************************)
(* The logging service that dlog.sh starts: one dlogutil that reads the    *)
(* devices for ever and appends to a rotated file, composed of DlogReader  *)
(* and LogOutput, with the rings of the devices, which outlive it.  The    *)
(* process can die at any point.  When it is started again its reads begin *)
(* at the oldest entry each ring still holds, and its output goes behind   *)
(* what the file holds.  With Faults a signal interrupts a waiting read,   *)
(* and the write of a line fails or is partial.                            *)
(*                                                                         *)
(* Both components are used through their actions; this module adds what   *)
(* connects them: which entry became which line of which file.             *)
(***************************************************************************)
EXTENDS Integers, Sequences, FiniteSets

CONSTANTS
  DevCount, RingCap, MaxWrites, MaxClock, Shows, Clears,   \* see DlogReader
  KB, g_log_rotate_size_kbytes, g_max_rotated_logs,        \* see LogOutput
  HeaderSize, LineSize, MaxCrashes, RenameFaults,
  Faults         \* signals, and failing and partial writes of a line

ASSUME DaemonAssumption ==
  /\ DevCount \in Nat \ {0} /\ RingCap \in Nat \ {0}
  /\ MaxWrites \in Nat /\ MaxClock \in Nat
  /\ Shows \subseteq BOOLEAN /\ Clears \in BOOLEAN
  /\ KB \in Nat \ {0} /\ g_log_rotate_size_kbytes \in Nat
  /\ g_max_rotated_logs \in Nat /\ MaxCrashes \in Nat
  /\ HeaderSize \in Nat /\ LineSize \in Nat \ {0}
  /\ RenameFaults \in BOOLEAN /\ Faults \in BOOLEAN

VARIABLES
  clock, nwritten, log, queue, printed, queued_lines, sleep, pc, dev, readset,
  out, taken,
  files, g_out_byte_count, opc, step, headers, nlines, crashes, unrenamed,
  ring,          \* per device, the entries in the kernel's buffer
  content,       \* history: the entry behind each line, and the process's number
  interrupted    \* history: a signal cut the latest round of reads short

readerVars == <<clock, nwritten, log, queue, printed, queued_lines, sleep, pc,
                dev, readset, out, taken>>
outputVars == <<files, g_out_byte_count, opc, step, headers, nlines, crashes,
                unrenamed>>
vars == <<readerVars, outputVars, ring, content, interrupted>>

Reader == INSTANCE DlogReader WITH
  g_dev_count <- DevCount, TailLines <- 0, Nonblock <- FALSE,
  ClockSteps <- FALSE

Output == INSTANCE LogOutput WITH
  pc <- opc, g_dev_count <- DevCount, LineSizes <- {LineSize},
  MaxLines <- MaxWrites * (MaxCrashes + 1), WriteFaults <- Faults

Dev == 1 .. DevCount
alive == opc # "dead"

Init ==
  /\ Reader!Init /\ Output!Init
  /\ ring = [d \in Dev |-> <<>>]
  /\ content = <<>>
  /\ interrupted = FALSE

-----------------------------------------------------------------------------
(* The devices. *)

Write(d, show) ==
  /\ Reader!Write(d, show)
  /\ ring' = [ring EXCEPT ![d] =
       (IF Len(ring[d]) < RingCap THEN ring[d] ELSE Tail(ring[d]))
         \o <<[id |-> nwritten + 1, ts |-> clock', show |-> show]>>]
  /\ UNCHANGED <<outputVars, content, interrupted>>

(* dlogutil -c in another process. *)
Clear(d) ==
  /\ Clears /\ ring[d] # <<>>
  /\ ring' = [ring EXCEPT ![d] = <<>>]
  /\ \/ Reader!clear_log(d)
     \/ log[d] = <<>> /\ UNCHANGED readerVars
  /\ UNCHANGED <<outputVars, content, interrupted>>

-----------------------------------------------------------------------------
(* The process: the loop of the reader, and the output it calls. *)

quietStep ==
  /\ opc = "run"
  /\ \/ Reader!PollDevice \/ Reader!SelectReady \/ Reader!SelectWakes
     \/ Reader!SelectTimeout \/ Reader!Read \/ Reader!NotReadable
     \/ Reader!EmitDone \/ Reader!DrainDone
  /\ UNCHANGED <<outputVars, ring, content, interrupted>>

readDone ==
  /\ opc = "run" /\ Reader!ReadDone
  /\ interrupted' = FALSE
  /\ UNCHANGED <<outputVars, ring, content>>

(* A signal while the read waits: the round is abandoned. *)
readInterrupted ==
  /\ opc = "run" /\ Reader!ReadInterrupted
  /\ interrupted' = TRUE
  /\ UNCHANGED <<outputVars, ring, content>>

first == Reader!chooseFirst(queue)
printing == \/ pc = "emit" /\ Reader!mayEmit
            \/ pc = "drain" /\ first # 0
headerDue ==
  Reader!maybePrintStart(first) /\ headers = Cardinality({d \in Dev : printed[d]})

maybePrintStart ==
  /\ printing /\ headerDue
  /\ Output!maybePrintStart
  /\ UNCHANGED <<readerVars, ring, content, interrupted>>

(* printNextEntry: the line is written if the rules let it through, the   *)
(* limit is checked and the entry dequeued.  A write that fails is        *)
(* swallowed: no line, but the entry is dequeued all the same.            *)
printNextEntry ==
  /\ printing /\ ~headerDue
  /\ Reader!Emit \/ Reader!Drain
  /\ LET e == Head(queue[first])
         kind == out'[Len(out')].kind
     IN  /\ Output!processBuffer(LineSize)
         /\ nlines' = IF kind = "print" THEN nlines + 1 ELSE nlines
         /\ content' = IF kind = "print"
              THEN Append(content, [id |-> e.id, ts |-> e.ts, life |-> crashes])
              ELSE content
  /\ UNCHANGED <<ring, interrupted>>

rotate_logs ==
  Output!rotate_logs /\ UNCHANGED <<readerVars, ring, content, interrupted>>

dlogutil ==
  quietStep \/ readDone \/ maybePrintStart \/ printNextEntry \/ rotate_logs

-----------------------------------------------------------------------------
(* Deaths and starts. *)

(* The queues are gone.  A new open starts at the oldest entry of the     *)
(* ring; a reboot leaves no entry.                                        *)
forget(rings) ==
  /\ ring' = rings /\ log' = rings
  /\ queue' = [d \in Dev |-> <<>>]
  /\ printed' = [d \in Dev |-> FALSE]
  /\ queued_lines' = 0 /\ sleep' = FALSE
  /\ pc' = "poll" /\ dev' = 1 /\ readset' = {}
  /\ out' = <<>> /\ taken' = {} /\ interrupted' = FALSE
  /\ UNCHANGED <<clock, nwritten, content>>

(* A kill, and every exit(-1) of the loop: a failed read or allocation,   *)
(* a header that cannot be written (ReadFails, OutputFails).              *)
Die ==
  /\ Output!Die
  /\ forget(ring) \/ forget([d \in Dev |-> <<>>])

setup_output ==
  Output!setup_output /\ UNCHANGED <<readerVars, ring, content, interrupted>>

Next ==
  \/ \E d \in Dev, show \in Shows : Write(d, show)
  \/ \E d \in Dev : Clear(d)
  \/ dlogutil \/ readInterrupted
  \/ Die \/ setup_output

Spec == Init /\ [][Next]_vars

(* The scheduler runs the process while it lives.  Nobody has to write or *)
(* to send a signal, and nobody has to start it again.                    *)
FairSpec == Spec /\ WF_vars(dlogutil)

-----------------------------------------------------------------------------
suffixOf(s, t) == Len(s) <= Len(t) /\ s = SubSeq(t, Len(t) - Len(s) + 1, Len(t))

(* Types.  What is unread is the newest part of the ring, and every line  *)
(* has an entry.                                                          *)
TypeOK ==
  /\ Reader!TypeOK /\ Output!TypeOK
  /\ \A d \in Dev : suffixOf(log[d], ring[d])
  /\ Len(content) = nlines
  /\ interrupted \in BOOLEAN

onDisk == UNION {files[i].lines : i \in DOMAIN files}
written == {content[i].id : i \in {j \in DOMAIN content : content[j].life = crashes}}

failed == {out[i].id : i \in {j \in DOMAIN out : out[j].kind = "error"}}

(* Line a is in front of line b when the files are read oldest first. *)
inFront(a, b) ==
  \E i, j \in DOMAIN files :
    a \in files[i].lines /\ b \in files[j].lines /\ (i > j \/ (i = j /\ a < b))

(* An entry the rules let through and the ring still holds is unread,     *)
(* queued, was written by this process (in whole or in part) or is one    *)
(* whose write the process saw fail, wherever the process before it died, *)
(* whatever that one had written and wherever a signal cut a round short. *)
(* So the swallowed failure of a write is the one way to lose an entry.   *)
RingAccounted ==
  \A d \in Dev : \A i \in DOMAIN ring[d] :
    ring[d][i].show =>
      ring[d][i].id \in
        Reader!unreadIds \cup Reader!queuedIds \cup written \cup failed

(* The lines of one process, read over all the files of the rotation, are *)
(* in timestamp order and none is there twice; only a restart repeats     *)
(* entries.                                                               *)
DiskOrdered ==
  \A a, b \in onDisk :
    (inFront(a, b) /\ content[a].life = content[b].life) =>
      content[a].ts <= content[b].ts /\ content[a].id # content[b].id

(* The read of a device that was flushed after select reported it. *)
waitsForWrite == pc = "read" /\ dev \in readset /\ log[dev] = <<>>

(* select without a timeout, after a signal ended the round that queued   *)
(* an entry before the round could clear sleep.                           *)
leftAsleep ==
  interrupted /\ sleep /\ pc = "poll" /\ dev = DevCount + 1 /\ readset = {}

(* While the process lives, devices and queues are empty again and again: *)
(* no entry stays in them, through rotations and failing writes and       *)
(* although no further write may come to push it out.  Two exceptions: a  *)
(* reader stuck in the read of a flushed device, and one that a signal in *)
(* that read sent back into a select without timeout.                     *)
EntriesSurface ==
  \/ <>[]waitsForWrite
  \/ <>[]leftAsleep
  \/ []<>(~alive \/ Reader!unreadIds \cup Reader!queuedIds = {})
=============================================================================
