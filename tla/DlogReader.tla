----------------------------- MODULE DlogReader -----------------------------
(***************************************************************************)
(* The main loop of dlogutil (logutil.c): read_log_lines polls the log     *)
(* devices with select, reads at most one entry of each ready device per   *)
(* round into a queue per device, and prints queued entries in timestamp   *)
(* order.  Writers (libdlog in other processes) append to the devices, and *)
(* a second dlogutil may clear one (-c), at any point between two steps.   *)
(*                                                                         *)
(* An entry is abstracted to a number (the order of the writes), its       *)
(* timestamp, and whether the filter rules let its line through.           *)
(***************************************************************************)
EXTENDS Integers, Sequences, FiniteSets

CONSTANTS
  DevCount,      \* length of the device list, in list order 1..DevCount
  g_dev_count,   \* what main counted; headers are printed when it exceeds 1
  TailLines,     \* g_tail_lines: the argument of -t, 0 without -t
  Nonblock,      \* g_nonblock: -d or -t was given
  RingCap,       \* entries a device holds before its oldest is overwritten
  MaxWrites,     \* bound on the number of entries written
  MaxClock,      \* bound on the timestamps
  Shows,         \* verdicts of log_should_print_line that occur
  ClockSteps,    \* the wall clock may be set back between two writes
  Clears,        \* another dlogutil may flush a device
  Faults         \* signals, failing reads, failing allocations and writes

Dev == 1 .. DevCount

ASSUME DevicesAssumption == DevCount \in Nat \ {0} /\ g_dev_count \in Nat
ASSUME TailAssumption ==
  TailLines \in Int /\ Nonblock \in BOOLEAN /\ (TailLines # 0 => Nonblock)
ASSUME BoundsAssumption ==
  RingCap \in Nat \ {0} /\ MaxWrites \in Nat /\ MaxClock \in Nat
ASSUME SwitchAssumption ==
  /\ Shows \subseteq BOOLEAN
  /\ {ClockSteps, Clears, Faults} \subseteq BOOLEAN

VARIABLES
  clock,         \* timestamp of the latest write
  nwritten,      \* number of entries written so far, the id of the latest
  log,           \* per device, the entries the reader has not read
  queue,         \* dev->queue, per device
  printed,       \* dev->printed, per device
  queued_lines,  \* the local counter of read_log_lines
  sleep,         \* the local flag: select waits without a timeout
  pc,            \* where the loop stands
  dev,           \* the loop variable dev, DevCount + 1 for NULL
  readset,       \* the devices select reported readable
  out,           \* history: what was done with each dequeued entry, in order
  taken          \* history: ids of the entries read from a device

vars == <<clock, nwritten, log, queue, printed, queued_lines, sleep, pc, dev,
          readset, out, taken>>
devices == <<clock, nwritten, log>>
queues  == <<queue, printed, queued_lines, out, taken>>

Entry == [id : Nat, ts : Nat, show : BOOLEAN]

(* print: a line reached the output; filtered: the rules suppressed it;   *)
(* skip: dropped in front of the last -t lines; error: the write failed.  *)
Kind == {"print", "filtered", "skip", "error"}
Record == [kind : Kind, dev : Dev, id : Nat, ts : Nat, hdr : BOOLEAN]

-----------------------------------------------------------------------------
(* Queues *)

(* Order of two entries: negative, zero or positive. *)
cmp(a, b) == a.ts - b.ts

(* Slip: an entry goes in front of the equal ones. *)
enqueueUnstable(q, e) ==
  LET at == CHOOSE i \in 1 .. Len(q) + 1 :
              /\ \A j \in 1 .. i - 1 : cmp(e, q[j]) > 0
              /\ i <= Len(q) => cmp(e, q[i]) <= 0
  IN  SubSeq(q, 1, at - 1) \o <<e>> \o SubSeq(q, at, Len(q))

enqueue(q, e) ==
  LET at == CHOOSE i \in 1 .. Len(q) + 1 :
              /\ \A j \in 1 .. i - 1 : cmp(e, q[j]) >= 0
              /\ i <= Len(q) => cmp(e, q[i]) < 0
  IN  SubSeq(q, 1, at - 1) \o <<e>> \o SubSeq(q, at, Len(q))

(* Slip: the first device with an entry, whatever its timestamp. *)
chooseFirstInList(q) ==
  LET holders == {d \in Dev : q[d] # <<>>}
  IN  IF holders = {} THEN 0
      ELSE CHOOSE d \in holders : \A x \in holders : d <= x

(* The device whose head is oldest, the first of them in the list; 0 when *)
(* every queue is empty.                                                  *)
chooseFirst(q) ==
  LET holders == {d \in Dev : q[d] # <<>>}
  IN  IF holders = {} THEN 0
      ELSE CHOOSE d \in holders : \A x \in holders :
             IF x < d THEN cmp(Head(q[d]), Head(q[x])) < 0
                      ELSE cmp(Head(q[d]), Head(q[x])) <= 0

(* Slip: a header before every entry. *)
maybePrintStartAlways(d) == g_dev_count > 1

(* Dequeue the head of d's queue, after the header of its first entry.    *)
(* printNextEntry calls maybePrintStart twice, itself and in              *)
(* skipNextEntry; the second call finds printed set and does nothing.     *)
maybePrintStart(d) == ~printed[d] /\ g_dev_count > 1

dequeue(d, kind) ==
  /\ printed' = [printed EXCEPT ![d] = TRUE]
  /\ queue' = [queue EXCEPT ![d] = Tail(queue[d])]
  /\ out' = Append(out, [kind |-> kind, dev |-> d, id |-> Head(queue[d]).id,
                         ts |-> Head(queue[d]).ts, hdr |-> maybePrintStart(d)])
  /\ queued_lines' = queued_lines - 1
  /\ UNCHANGED taken

skipNextEntry(d) == dequeue(d, "skip")

(* A suppressed line writes nothing; a failing write loses the line and   *)
(* the loop goes on.                                                      *)
processBuffer(e) ==
  IF ~e.show THEN {"filtered"}
  ELSE {"print"} \cup (IF Faults THEN {"error"} ELSE {})

(* Slip: a line whose write failed stays in the queue. *)
printNextEntryKeeps(d) ==
  \E kind \in processBuffer(Head(queue[d])) :
    IF kind = "error"
      THEN /\ out' = Append(out, [kind |-> kind, dev |-> d, id |-> Head(queue[d]).id,
                                  ts |-> Head(queue[d]).ts, hdr |-> maybePrintStart(d)])
           /\ UNCHANGED <<queue, printed, queued_lines, taken>>
      ELSE dequeue(d, kind)

(* Slip: the entry behind the printed one is freed with it. *)
printNextEntryDropsNext(d) ==
  \E kind \in processBuffer(Head(queue[d])) :
    /\ printed' = [printed EXCEPT ![d] = TRUE]
    /\ queue' = [queue EXCEPT ![d] = SubSeq(queue[d], 3, Len(queue[d]))]
    /\ out' = Append(out, [kind |-> kind, dev |-> d, id |-> Head(queue[d]).id,
                           ts |-> Head(queue[d]).ts, hdr |-> maybePrintStart(d)])
    /\ queued_lines' = queued_lines - 1
    /\ UNCHANGED taken

printNextEntry(d) ==
  \E kind \in processBuffer(Head(queue[d])) : dequeue(d, kind)

-----------------------------------------------------------------------------
(* The log devices: the kernel's ring buffers. *)

Init ==
  /\ clock = 0 /\ nwritten = 0
  /\ log = [d \in Dev |-> <<>>]
  /\ queue = [d \in Dev |-> <<>>]
  /\ printed = [d \in Dev |-> FALSE]
  /\ queued_lines = 0
  /\ sleep = FALSE
  /\ pc = "poll" /\ dev = 1 /\ readset = {}
  /\ out = <<>> /\ taken = {}

(* A writer appends an entry; a full ring loses its oldest. *)
Write(d, show) ==
  /\ nwritten < MaxWrites
  /\ \E now \in 0 .. MaxClock :
       /\ ClockSteps \/ clock <= now
       /\ clock' = now
       /\ log' = [log EXCEPT ![d] =
                    (IF Len(log[d]) < RingCap THEN log[d] ELSE Tail(log[d]))
                      \o <<[id |-> nwritten + 1, ts |-> now, show |-> show]>>]
  /\ nwritten' = nwritten + 1
  /\ UNCHANGED <<queues, sleep, pc, dev, readset>>

(* dlogutil -c in another process flushes the device. *)
clear_log(d) ==
  /\ Clears
  /\ log[d] # <<>>
  /\ log' = [log EXCEPT ![d] = <<>>]
  /\ UNCHANGED <<clock, nwritten, queues, sleep, pc, dev, readset>>

-----------------------------------------------------------------------------
(* select: the devices are polled one after the other. *)

nextRound == pc' = "poll" /\ dev' = 1 /\ readset' = {}

PollDevice ==
  /\ pc = "poll" /\ dev \in Dev
  /\ readset' = IF log[dev] # <<>> THEN readset \cup {dev} ELSE readset
  /\ dev' = dev + 1
  /\ UNCHANGED <<devices, queues, sleep, pc>>

SelectReady ==
  /\ pc = "poll" /\ dev = DevCount + 1
  /\ readset # {}
  /\ pc' = "read" /\ dev' = 1
  /\ UNCHANGED <<devices, queues, sleep, readset>>

(* A write wakes the sleeping select, which polls again. *)
SelectWakes ==
  /\ pc = "poll" /\ dev = DevCount + 1
  /\ readset = {} /\ \E d \in Dev : log[d] # <<>>
  /\ dev' = 1
  /\ UNCHANGED <<devices, queues, sleep, pc, readset>>

(* The 5 ms pass with nothing readable: result is 0. *)
SelectTimeout ==
  /\ pc = "poll" /\ dev = DevCount + 1
  /\ readset = {} /\ ~sleep
  /\ sleep' = TRUE
  /\ pc' = "drain"
  /\ UNCHANGED <<devices, queues, dev, readset>>

-----------------------------------------------------------------------------
(* One read per ready device.  The devices are opened for blocking reads: *)
(* a read of an empty device waits.                                       *)

(* Slip: the counter follows the readable devices, not the reads. *)
NotReadableCounts ==
  /\ pc = "read" /\ dev \in Dev \ readset
  /\ dev' = dev + 1
  /\ queued_lines' = queued_lines + 1
  /\ UNCHANGED <<devices, queue, printed, out, taken, sleep, pc, readset>>

Read ==
  /\ pc = "read" /\ dev \in readset
  /\ log[dev] # <<>>
  /\ queue' = [queue EXCEPT ![dev] = enqueue(queue[dev], Head(log[dev]))]
  /\ log' = [log EXCEPT ![dev] = Tail(log[dev])]
  /\ taken' = taken \cup {Head(log[dev]).id}
  /\ queued_lines' = queued_lines + 1
  /\ dev' = dev + 1
  /\ UNCHANGED <<clock, nwritten, printed, out, sleep, pc, readset>>

(* Slip: the list is walked two devices at a time. *)
NotReadableTwice ==
  /\ pc = "read" /\ dev \in Dev \ readset
  /\ dev' = dev + 2
  /\ UNCHANGED <<devices, queues, sleep, pc, readset>>

NotReadable ==
  /\ pc = "read" /\ dev \in Dev \ readset
  /\ dev' = dev + 1
  /\ UNCHANGED <<devices, queues, sleep, pc, readset>>

(* EINTR while the read waits: goto next. *)
ReadInterrupted ==
  /\ Faults
  /\ pc = "read" /\ dev \in readset /\ log[dev] = <<>>
  /\ nextRound
  /\ UNCHANGED <<devices, queues, sleep>>

(* malloc fails, the read fails, or it returns 0: exit. *)
ReadFails ==
  /\ Faults
  /\ pc = "read" /\ dev \in readset
  /\ pc' = "failed"
  /\ UNCHANGED <<devices, queues, sleep, dev, readset>>

(* Slip: sleep is left set by an earlier quiet period. *)
ReadDoneAsleep ==
  /\ pc = "read" /\ dev = DevCount + 1
  /\ pc' = "emit"
  /\ UNCHANGED <<devices, queues, sleep, dev, readset>>

ReadDone ==
  /\ pc = "read" /\ dev = DevCount + 1
  /\ sleep' = FALSE
  /\ pc' = "emit"
  /\ UNCHANGED <<devices, queues, dev, readset>>

-----------------------------------------------------------------------------
(* After a round with input: emit what cannot be overtaken any more. *)

(* Slip: the last entry of a queue is emitted too. *)
mayEmitLast ==
  /\ TailLines = 0 \/ queued_lines > TailLines
  /\ chooseFirst(queue) # 0

mayEmit ==
  /\ TailLines = 0 \/ queued_lines > TailLines
  /\ chooseFirst(queue) # 0
  /\ Len(queue[chooseFirst(queue)]) > 1

Emit ==
  /\ pc = "emit" /\ mayEmit
  /\ IF TailLines = 0 THEN printNextEntry(chooseFirst(queue))
                      ELSE skipNextEntry(chooseFirst(queue))
  /\ UNCHANGED <<devices, sleep, pc, dev, readset>>

EmitDone ==
  /\ pc = "emit" /\ ~mayEmit
  /\ nextRound
  /\ UNCHANGED <<devices, queues, sleep>>

(* Slip: off by one in what -t keeps. *)
tailPrintsFewer == TailLines = 0 \/ queued_lines < TailLines

(* After a quiet 5 ms: emit everything. *)
tailPrints == TailLines = 0 \/ queued_lines <= TailLines

Drain ==
  /\ pc = "drain" /\ chooseFirst(queue) # 0
  /\ IF tailPrints THEN printNextEntry(chooseFirst(queue))
                   ELSE skipNextEntry(chooseFirst(queue))
  /\ UNCHANGED <<devices, sleep, pc, dev, readset>>

(* Slip: the loop goes on after a dump. *)
DrainDoneStays ==
  /\ pc = "drain" /\ chooseFirst(queue) = 0
  /\ nextRound
  /\ UNCHANGED <<devices, queues, sleep>>

DrainDone ==
  /\ pc = "drain" /\ chooseFirst(queue) = 0
  /\ IF Nonblock THEN pc' = "exit" /\ UNCHANGED <<dev, readset>> ELSE nextRound
  /\ UNCHANGED <<devices, queues, sleep>>

(* Writing a header fails, or formatting a line runs out of memory: exit. *)
OutputFails ==
  /\ Faults
  /\ \/ pc = "emit" /\ mayEmit
     \/ pc = "drain" /\ chooseFirst(queue) # 0
  /\ LET d == chooseFirst(queue)
         prints == IF pc = "emit" THEN TailLines = 0 ELSE tailPrints
     IN  maybePrintStart(d) \/ (prints /\ Head(queue[d]).show)
  /\ pc' = "failed"
  /\ UNCHANGED <<devices, queues, sleep, dev, readset>>

-----------------------------------------------------------------------------
read_log_lines ==
  \/ PollDevice \/ SelectReady \/ SelectWakes \/ SelectTimeout
  \/ Read \/ NotReadable \/ ReadInterrupted \/ ReadFails \/ ReadDone
  \/ Emit \/ EmitDone \/ Drain \/ DrainDone \/ OutputFails

Next ==
  \/ \E d \in Dev, show \in Shows : Write(d, show)
  \/ \E d \in Dev : clear_log(d)
  \/ read_log_lines

Spec == Init /\ [][Next]_vars

(* The scheduler runs the reader whenever it is not waiting; nobody is    *)
(* obliged to write.                                                      *)
FairSpec == Spec /\ WF_vars(read_log_lines)

-----------------------------------------------------------------------------
(* Properties *)

(* Types.  The walk over the device list never runs past its end, and     *)
(* every entry put aside or dequeued is a well-formed one.                *)
TypeOK ==
  /\ clock \in Nat /\ nwritten \in Nat
  /\ log \in [Dev -> Seq(Entry)]
  /\ queue \in [Dev -> Seq(Entry)]
  /\ printed \in [Dev -> BOOLEAN]
  /\ queued_lines \in Int
  /\ sleep \in BOOLEAN
  /\ pc \in {"poll", "read", "emit", "drain", "exit", "failed"}
  /\ dev \in 1 .. DevCount + 1
  /\ readset \subseteq Dev
  /\ out \in Seq(Record)
  /\ taken \subseteq Nat

queuedIds == UNION {{queue[d][i].id : i \in DOMAIN queue[d]} : d \in Dev}
unreadIds == UNION {{log[d][i].id : i \in DOMAIN log[d]} : d \in Dev}
outIds == {out[i].id : i \in DOMAIN out}

(* While the clock is not set back, entries leave the reader in timestamp *)
(* order over all devices, whatever the writers do between its steps.     *)
OutputSorted ==
  \A i, j \in DOMAIN out : i < j => out[i].ts <= out[j].ts

(* Each device is announced by one header, in front of the first entry    *)
(* dequeued from it, even when that entry is skipped or filtered out.     *)
HeadersLead ==
  \A i \in DOMAIN out :
    out[i].hdr <=> /\ g_dev_count > 1
                   /\ \A j \in 1 .. i - 1 : out[j].dev # out[i].dev

(* Even when the clock is set back, an entry overtakes an earlier one of  *)
(* its own device only when its timestamp is strictly smaller.            *)
SameDeviceOrder ==
  \A i, j \in DOMAIN out :
    (i < j /\ out[i].dev = out[j].dev /\ out[j].id < out[i].id)
      => out[i].ts < out[j].ts

(* Every entry read is in one place, a queue or the output, and in it     *)
(* once: interrupted rounds and failing writes duplicate and drop none.   *)
TakenOnce ==
  /\ taken = queuedIds \cup outIds
  /\ queuedIds \cap outIds = {}
  /\ Cardinality(outIds) = Len(out)
  /\ \A c, d \in Dev : \A i \in 1 .. Len(queue[c]), j \in 1 .. Len(queue[d]) :
       queue[c][i].id = queue[d][j].id => c = d /\ i = j

(* The counter that decides what -t drops is the number of queued entries *)
(* at every step.                                                         *)
QueuedLinesExact == queued_lines = Cardinality(queuedIds)

(* dlogutil -t N ends having dropped everything but the last N entries    *)
(* dequeued, and none of those.                                           *)
TailExact ==
  (pc = "exit" /\ TailLines # 0) =>
    \A i \in DOMAIN out : out[i].kind = "skip" <=> i <= Len(out) - TailLines

(* "Print everything we have and wait for more data": a select without a  *)
(* timeout, with nothing readable, has no queued entry behind it.         *)
SleepsEmptyHanded ==
  (pc = "poll" /\ dev = DevCount + 1 /\ readset = {} /\ sleep) => queuedIds = {}

(* dlogutil -d and -t end: "dump the log and then exit (don't block)".    *)
DumpExits == Nonblock => <>(pc = "exit")

-----------------------------------------------------------------------------
(* The reader implements OrderedLog: the pool of the abstract             *)
(* specification is what the devices and the queues hold together.        *)

Item == [dev : Dev, id : 1 .. MaxWrites, ts : 0 .. MaxClock]
item(d, e) == [dev |-> d, id |-> e.id, ts |-> e.ts]
held(d) == queue[d] \o log[d]
pool == UNION {{item(d, held(d)[i]) : i \in DOMAIN held(d)} : d \in Dev}
shown == [i \in DOMAIN out |->
            [dev |-> out[i].dev, id |-> out[i].id, ts |-> out[i].ts]]

Ordered == INSTANCE OrderedLog WITH pending <- pool, emitted <- shown

(* Every step of the reader, its writers and a clearing dlogutil is a     *)
(* step of OrderedLog: what is dequeued is an oldest of all entries held  *)
(* anywhere, in the unread part of the devices too.                       *)
OldestFirst == Ordered!Spec
=============================================================================
