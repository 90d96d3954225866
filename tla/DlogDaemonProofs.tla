-------------------------- MODULE DlogDaemonProofs --------------------------
(***************************************************************************)
(* Proofs about DlogDaemon, the reader and the output composed, for any    *)
(* devices, ring sizes, limits and number of deaths.  The proofs of the    *)
(* two components are used through instances of their modules: the output  *)
(* takes only steps of LogOutput, and the reader only steps of DlogReader  *)
(* between two deaths.                                                     *)
(***************************************************************************)
EXTENDS DlogDaemon, SequenceTheorems, TLAPS

R == INSTANCE DlogReaderEntries WITH
  g_dev_count <- DevCount, TailLines <- 0, Nonblock <- FALSE,
  ClockSteps <- FALSE

O == INSTANCE LogOutputProofs WITH
  pc <- opc, g_dev_count <- DevCount, LineSizes <- {LineSize},
  MaxLines <- MaxWrites * (MaxCrashes + 1), WriteFaults <- Faults

Line == [id : Nat, ts : Nat, life : Nat]

(* A ring holds distinct entries in the order of their timestamps, and no *)
(* two rings share one: what a reader needs that starts from it.          *)
Rings(r, now, n) ==
  /\ r \in [Dev -> Seq(R!Entry)]
  /\ \A d \in Dev : /\ Len(r[d]) <= RingCap
                    /\ R!Sorted(r[d]) /\ R!Upto(r[d], now)
                    /\ R!Distinct(r[d]) /\ R!Ids(r[d]) \subseteq 1 .. n
  /\ \A c, d \in Dev : c # d => R!Ids(r[c]) \cap R!Ids(r[d]) = {}
RingInv == Rings(ring, clock, nwritten)

(* What is unread is the newest part of the ring. *)
UnreadInRing == \A d \in Dev : suffixOf(log[d], ring[d])

(* A queued entry that the ring still holds is the same entry. *)
Same(r, q) ==
  \A i \in 1 .. Len(r), j \in 1 .. Len(q) : r[i].id = q[j].id => r[i].show = q[j].show
SameVerdict == \A c, d \in Dev : Same(ring[c], queue[d])

(* An entry of the ring to be shown is unread in its own device, queued,  *)
(* written, or one whose write has failed.                                *)
Found(r, ids) == \A i \in 1 .. Len(r) : r[i].show => r[i].id \in ids
queuedNow == UNION {R!Ids(queue[d]) : d \in Dev}
RingFound ==
  \A d \in Dev : Found(ring[d], R!Ids(log[d]) \cup queuedNow \cup written \cup failed)

(* Every line has its entry; the lines of the process that runs come from *)
(* what its reader has put out.                                           *)
LinesLinked ==
  /\ content \in Seq(Line) /\ Len(content) = nlines
  /\ \A a \in 1 .. Len(content) :
       /\ content[a].life <= crashes
       /\ content[a].life = crashes =>
            \E j \in 1 .. Len(out) : out[j].id = content[a].id /\ out[j].ts = content[a].ts

(* The lines of one process are in order and distinct. *)
LinesOrdered ==
  \A a, b \in 1 .. Len(content) :
    (a < b /\ content[a].life = content[b].life) =>
      content[a].ts <= content[b].ts /\ content[a].id # content[b].id

ReaderInv == R!MergeInv /\ R!Apart
LinesInv == LinesLinked /\ LinesOrdered
ServiceInv ==
  /\ ReaderInv /\ O!OutputInv /\ RingInv /\ UnreadInRing
  /\ SameVerdict /\ RingFound /\ LinesInv
  /\ interrupted \in BOOLEAN

-----------------------------------------------------------------------------
(* The output. *)

(* A header, an entry printed or suppressed, a rotation, a death and a    *)
(* start are steps of LogOutput; everything else leaves it alone.         *)
LEMMA OutputSteps == [Next]_vars => [Output!Next]_outputVars
<1> SUFFICES ASSUME [Next]_vars PROVE [Output!Next]_outputVars
  OBVIOUS
<1>1. CASE UNCHANGED vars
  BY <1>1 DEF vars
<1>2. ASSUME NEW d \in Dev, NEW show \in Shows, Write(d, show)
      PROVE  UNCHANGED outputVars
  BY <1>2 DEF Write
<1>3. ASSUME NEW d \in Dev, Clear(d) PROVE UNCHANGED outputVars
  BY <1>3 DEF Clear
<1>4. CASE quietStep \/ readDone \/ readInterrupted
  BY <1>4 DEF quietStep, readDone, readInterrupted
<1>5. CASE printNextEntry
  <2>1. Output!processBuffer(LineSize)
    BY <1>5 DEF printNextEntry
  <2> QED
    BY <2>1 DEF Output!Next
<1>6. CASE maybePrintStart \/ rotate_logs \/ Die \/ setup_output
  BY <1>6 DEF maybePrintStart, rotate_logs, Die, setup_output, Output!Next
<1> QED
  BY <1>1, <1>2, <1>3, <1>4, <1>5, <1>6 DEF Next, dlogutil

(* Whatever the reader does, the output behaves as LogOutput says: every  *)
(* theorem about LogOutput holds of the files of the service.             *)
THEOREM ServiceDrivesOutput == Spec => Output!Spec
<1>1. Init => Output!Init
  BY DEF Init
<1>2. [Next]_vars => [Output!Next]_(Output!vars)
  BY OutputSteps DEF Output!vars, outputVars
<1> QED
  BY <1>1, <1>2, PTL DEF Spec, Output!Spec

(* The module of the proofs instantiates the same specification. *)
LEMMA SameOutput ==
  /\ Output!Init => O!Init
  /\ [Output!Next]_outputVars => [O!Next]_(O!vars)
<1>1. Output!Init => O!Init
  BY DEF Output!Init, O!Init, Output!Chain, O!Chain, Output!Empty, O!Empty,
         Output!Absent, O!Absent
<1>2. Output!maybePrintStart => O!maybePrintStart
  BY DEF Output!maybePrintStart, O!maybePrintStart
<1>3. ASSUME NEW size, Output!processBuffer(size) PROVE O!processBuffer(size)
  BY <1>3 DEF Output!processBuffer, O!processBuffer, Output!log_print_log_line,
     O!log_print_log_line, Output!limitReached, O!limitReached, Output!firstStep,
     O!firstStep
<1>4. Output!rotate_logs => O!rotate_logs
  BY DEF Output!rotate_logs, Output!rename, Output!reopen, Output!open_logfile,
     Output!Absent, Output!Empty, O!rotate_logs, O!rename, O!reopen, O!open_logfile,
     O!Absent, O!Empty
<1>5. Output!Die => O!Die
  BY DEF Output!Die, O!Die
<1>6. Output!setup_output => O!setup_output
  BY DEF Output!setup_output, Output!open_logfile, Output!Empty, O!setup_output,
     O!open_logfile, O!Empty
<1>7. Output!Next => O!Next
  BY <1>2, <1>3, <1>4, <1>5, <1>6 DEF Output!Next, O!Next
<1> QED
  BY <1>1, <1>7 DEF outputVars, O!vars

(* The invariant of the output holds at the start and after every step. *)
LEMMA OutputInductive ==
  /\ Init => O!OutputInv
  /\ O!OutputInv /\ [Next]_vars => O!OutputInv'
<1>1. Init => O!Init
  BY SameOutput DEF Init
<1>2. [Next]_vars => [O!Next]_(O!vars)
  BY OutputSteps, SameOutput
<1>3. MaxWrites * (MaxCrashes + 1) \in Nat
  BY DaemonAssumption
<1>4. O!Init => O!OutputInv
  BY <1>3, DaemonAssumption, O!OutputInvInit
<1>5. O!OutputInv /\ [O!Next]_(O!vars) => O!OutputInv'
  BY <1>3, DaemonAssumption, O!OutputInvStep
<1> QED
  BY <1>1, <1>2, <1>4, <1>5

-----------------------------------------------------------------------------
(* The reader. *)

(* The module of the proofs instantiates the same reader. *)
LEMMA SameWrite ==
  ASSUME NEW d \in Dev, NEW show \in Shows
  PROVE  Reader!Write(d, show) => R!Write(d, show)
BY DEF Reader!Write, R!Write, Reader!queues, R!queues

(* The same for a flush, *)
LEMMA SameClear ==
  ASSUME NEW d \in Dev
  PROVE  Reader!clear_log(d) => R!clear_log(d)
BY DEF Reader!clear_log, R!clear_log, Reader!queues, R!queues

(* the choice of the next entry and the test for emitting it, *)
LEMMA SameFirst ==
  /\ first = R!chooseFirst(queue)
  /\ Reader!mayEmit <=> R!mayEmit
<1>1. \A q : Reader!chooseFirst(q) = R!chooseFirst(q)
  BY DEF Reader!chooseFirst, R!chooseFirst, Reader!cmp, R!cmp, Reader!Dev, R!Dev
<1> QED
  BY <1>1 DEF first, Reader!mayEmit, R!mayEmit

(* a read of a device, *)
LEMMA SameRead == Reader!Read => R!Read
<1>1. \A q, e : Reader!enqueue(q, e) = R!enqueue(q, e)
  BY DEF Reader!enqueue, R!enqueue, Reader!cmp, R!cmp
<1> QED
  BY <1>1 DEF Reader!Read, R!Read

(* the steps of the loop that move no entry, *)
LEMMA SameQuiet ==
  /\ Reader!PollDevice => R!PollDevice
  /\ Reader!SelectReady => R!SelectReady
  /\ Reader!SelectWakes => R!SelectWakes
  /\ Reader!SelectTimeout => R!SelectTimeout
  /\ Reader!NotReadable => R!NotReadable
  /\ Reader!ReadDone => R!ReadDone
  /\ Reader!ReadInterrupted => R!ReadInterrupted
  /\ Reader!EmitDone => R!EmitDone
  /\ Reader!DrainDone => R!DrainDone
BY SameFirst DEF Reader!PollDevice, R!PollDevice, Reader!SelectReady, R!SelectReady,
   Reader!SelectWakes, R!SelectWakes, Reader!SelectTimeout, R!SelectTimeout,
   Reader!NotReadable, R!NotReadable, Reader!ReadDone, R!ReadDone,
   Reader!ReadInterrupted, R!ReadInterrupted, Reader!EmitDone, R!EmitDone, Reader!DrainDone, R!DrainDone, Reader!Dev, R!Dev, Reader!devices,
   R!devices, Reader!queues, R!queues, Reader!nextRound, R!nextRound, first

(* and the two that print one. *)
LEMMA SameEmit ==
  /\ Reader!Emit => R!Emit
  /\ Reader!Drain => R!Drain
<1>1. \A d : Reader!maybePrintStart(d) <=> R!maybePrintStart(d)
  BY DEF Reader!maybePrintStart, R!maybePrintStart
<1>2. ASSUME NEW d, Reader!printNextEntry(d) PROVE R!printNextEntry(d)
  BY <1>2 DEF Reader!printNextEntry, R!printNextEntry, Reader!processBuffer,
     R!processBuffer, Reader!dequeue, R!dequeue, Reader!maybePrintStart,
     R!maybePrintStart
<1> QED
  BY <1>2, SameFirst DEF Reader!Emit, R!Emit, Reader!Drain, R!Drain, Reader!devices,
     R!devices, Reader!tailPrints, R!tailPrints, first

(* Between two deaths the reader takes steps of DlogReader only. *)
LEMMA ReaderSteps ==
  ASSUME [Next]_vars, ~Die
  PROVE  [R!Next]_(R!vars)
<1> SUFFICES R!Next \/ UNCHANGED readerVars
  BY DEF R!vars, readerVars
<1>1. R!Dev = Dev
  BY DEF R!Dev, Dev
<1>2. ASSUME NEW d \in Dev, NEW show \in Shows, Write(d, show) PROVE R!Next
  <2>1. R!Write(d, show) /\ d \in R!Dev
    BY <1>1, <1>2, SameWrite DEF Write
  <2> QED
    BY <2>1, Zenon DEF R!Next
<1>3. ASSUME NEW d \in Dev, Clear(d) PROVE R!Next \/ UNCHANGED readerVars
  <2>1. (R!clear_log(d) /\ d \in R!Dev) \/ UNCHANGED readerVars
    BY <1>1, <1>3, SameClear DEF Clear
  <2> QED
    BY <2>1, Zenon DEF R!Next
<1>4. CASE quietStep \/ readDone \/ readInterrupted
  <2>1. \/ R!PollDevice \/ R!SelectReady \/ R!SelectWakes \/ R!SelectTimeout \/ R!Read
        \/ R!NotReadable \/ R!ReadInterrupted \/ R!ReadDone \/ R!EmitDone \/ R!DrainDone
    BY <1>4, SameQuiet, SameRead, Zenon DEF quietStep, readDone, readInterrupted
  <2> QED
    BY <2>1, Zenon DEF R!Next, R!read_log_lines
<1>5. CASE printNextEntry
  BY <1>5, SameEmit DEF printNextEntry, R!Next, R!read_log_lines
<1>6. CASE maybePrintStart \/ rotate_logs \/ setup_output
  BY <1>6 DEF maybePrintStart, rotate_logs, setup_output
<1>7. CASE UNCHANGED vars
  BY <1>7 DEF vars
<1> QED
  BY <1>2, <1>3, <1>4, <1>5, <1>6, <1>7 DEF Next, dlogutil

(* Its invariants are kept by these steps. *)
LEMMA ReaderKept ==
  ASSUME ReaderInv, [Next]_vars, ~Die
  PROVE  ReaderInv'
<1>1. [R!Next]_(R!vars)
  BY ReaderSteps
<1>2. R!MergeInv'
  BY <1>1, DaemonAssumption, R!MergeInvStep DEF ReaderInv
<1>3. R!Apart'
  BY <1>1, DaemonAssumption, R!ApartStep DEF ReaderInv, R!MergeInv
<1> QED
  BY <1>2, <1>3 DEF ReaderInv

(* Empty rings are good ones: a first start, or a reboot. *)
LEMMA NoRings ==
  ASSUME NEW now, NEW n
  PROVE  Rings([d \in Dev |-> <<>>], now, n)
<1> DEFINE r == [d \in Dev |-> <<>>]
<1>1. r \in [Dev -> Seq(R!Entry)] /\ \A d \in Dev : r[d] = <<>>
  BY EmptySeq
<1> HIDE DEF r
<1>2. \A t : R!Sorted(<<>>) /\ R!Upto(<<>>, t)
  BY EmptySeq DEF R!Sorted, R!Upto
<1>3. R!Ids(<<>>) = {} /\ R!Distinct(<<>>) /\ Len(<<>>) = 0
  BY EmptySeq DEF R!Ids, R!Distinct
<1> QED
  BY <1>1, <1>2, <1>3, DaemonAssumption DEF Rings, r

(* A reader that starts over good rings is in order: it has queued and    *)
(* put out nothing, and no round of select has begun.                     *)
LEMMA RestartInOrder ==
  ASSUME NEW rings, Rings(rings, clock, nwritten), R!TypeOK, forget(rings)
  PROVE  ReaderInv'
<1>1. R!Dev = Dev
  BY DEF R!Dev, Dev
<1>2. /\ log' = rings /\ queue' = [d \in Dev |-> <<>>]
      /\ printed' = [d \in Dev |-> FALSE] /\ queued_lines' = 0 /\ sleep' = FALSE
      /\ pc' = "poll" /\ dev' = 1 /\ readset' = {}
      /\ out' = <<>> /\ taken' = {} /\ clock' = clock /\ nwritten' = nwritten
  BY DEF forget
<1>3. R!TypeOK'
  <2>1. <<>> \in Seq(R!Entry) /\ <<>> \in Seq(R!Record)
    BY EmptySeq
  <2>2. queue' \in [Dev -> Seq(R!Entry)] /\ printed' \in [Dev -> BOOLEAN]
    BY <1>2, <2>1
  <2>3. log' \in [Dev -> Seq(R!Entry)]
    BY <1>2 DEF Rings
  <2>4. dev' \in 1 .. DevCount + 1
    BY <1>2, DaemonAssumption
  <2>5. sleep' \in BOOLEAN /\ taken' \subseteq Nat /\ readset' \subseteq Dev
    BY <1>2
  <2>6. clock' \in Nat /\ nwritten' \in Nat /\ queued_lines' \in Int
        /\ pc' \in {"poll", "read", "emit", "drain", "exit", "failed"}
        /\ out' \in Seq(R!Record)
    BY <1>2, <2>1 DEF R!TypeOK
  <2> QED
    BY <1>1, <2>2, <2>3, <2>4, <2>5, <2>6, Zenon DEF R!TypeOK
<1>4. \A d \in Dev : queue'[d] = <<>>
  BY <1>2
<1>5. \A t : /\ R!Below(<<>>, t) /\ R!Sorted(<<>>) /\ R!Upto(<<>>, t)
             /\ R!Ids(<<>>) = {} /\ R!Distinct(<<>>)
  BY EmptySeq DEF R!Below, R!Sorted, R!Upto, R!Ids, R!Distinct
<1>6. R!InOrder' /\ R!Emitted'
  BY <1>1, <1>2, <1>4, <1>5 DEF R!InOrder, R!Emitted, Rings
<1>7. R!OutputSorted'
  BY <1>2 DEF R!OutputSorted
<1>8. R!Window'
  BY <1>2 DEF R!Window, R!PollWindow
<1>9. R!Apart'
  BY <1>1, <1>2, <1>4, <1>5 DEF R!Apart, Rings
<1> QED
  BY <1>3, <1>6, <1>7, <1>8, <1>9 DEF ReaderInv, R!MergeInv

(* The service starts with such a reader. *)
LEMMA ReaderStarts == Init => ReaderInv
<1>1. Init => R!Init
  BY DEF Init, Reader!Init, R!Init, Reader!Dev, R!Dev
<1> QED
  BY <1>1, DaemonAssumption, R!MergeInvInit, R!ApartInit DEF ReaderInv

-----------------------------------------------------------------------------
(* The rings and what is unread in them. *)

(* Element by element, a suffix is the end of the sequence. *)
LEMMA SuffixElements ==
  ASSUME NEW S, NEW s \in Seq(S), NEW t \in Seq(S)
  PROVE  suffixOf(s, t) <=>
           /\ Len(s) <= Len(t)
           /\ \A i \in 1 .. Len(s) : s[i] = t[Len(t) - Len(s) + i]
<1>1. Len(s) \in Nat /\ Len(t) \in Nat
  BY LenProperties
<1>2. ASSUME Len(s) <= Len(t)
      PROVE  s = SubSeq(t, Len(t) - Len(s) + 1, Len(t))
               <=> \A i \in 1 .. Len(s) : s[i] = t[Len(t) - Len(s) + i]
  <2> DEFINE m == Len(t) - Len(s) + 1
             u == SubSeq(t, m, Len(t))
  <2>1. m \in 1 .. Len(t) + 1 /\ m \in Int /\ Len(t) - m + 1 = Len(s)
    BY <1>1, <1>2
  <2>2. \A i \in m .. Len(t) : t[i] \in S
    BY <1>1, <2>1, ElementOfSeq
  <2>3. /\ u \in Seq(S)
        /\ Len(u) = IF m <= Len(t) THEN Len(t) - m + 1 ELSE 0
        /\ \A i \in 1 .. Len(t) - m + 1 : u[i] = t[m + i - 1]
    BY <1>1, <2>1, <2>2, SubSeqProperties
  <2>4. Len(u) = Len(s) /\ \A i \in 1 .. Len(s) : u[i] = t[Len(t) - Len(s) + i]
    BY <1>1, <2>1, <2>3
  <2> HIDE DEF u
  <2>5. s = u <=> \A i \in 1 .. Len(s) : s[i] = u[i]
    BY <2>3, <2>4, SeqEqual
  <2> QED
    BY <2>4, <2>5 DEF u
<1> QED
  BY <1>2 DEF suffixOf

(* How a suffix follows the changes of both sequences. *)
LEMMA SuffixChanges ==
  ASSUME NEW S, NEW s \in Seq(S), NEW t \in Seq(S), suffixOf(s, t)
  PROVE  /\ s # <<>> => suffixOf(Tail(s), t)
         /\ Len(s) < Len(t) => suffixOf(s, Tail(t))
         /\ Len(s) >= Len(t) => s = t
         /\ \A e \in S : suffixOf(Append(s, e), Append(t, e))
<1>1. /\ Len(s) \in Nat /\ Len(t) \in Nat /\ Len(s) <= Len(t)
      /\ \A i \in 1 .. Len(s) : s[i] = t[Len(t) - Len(s) + i]
  BY LenProperties, SuffixElements
<1>2. ASSUME s # <<>> PROVE suffixOf(Tail(s), t)
  <2>1. /\ Tail(s) \in Seq(S) /\ Len(Tail(s)) = Len(s) - 1 /\ Len(s) # 0
        /\ \A i \in 1 .. Len(s) - 1 : Tail(s)[i] = s[i + 1]
    BY <1>2, HeadTailProperties, EmptySeq
  <2>2. \A i \in 1 .. Len(Tail(s)) : Tail(s)[i] = t[Len(t) - Len(Tail(s)) + i]
    BY <1>1, <2>1
  <2>3. Len(Tail(s)) <= Len(t)
    BY <1>1, <2>1
  <2> QED
    BY <2>1, <2>2, <2>3, SuffixElements, Zenon
<1>3. ASSUME Len(s) < Len(t) PROVE suffixOf(s, Tail(t))
  <2>1. t # <<>>
    BY <1>1, <1>3, EmptySeq
  <2>2. /\ Tail(t) \in Seq(S) /\ Len(Tail(t)) = Len(t) - 1
        /\ \A i \in 1 .. Len(t) - 1 : Tail(t)[i] = t[i + 1]
    BY <2>1, HeadTailProperties
  <2>3. \A i \in 1 .. Len(s) : s[i] = Tail(t)[Len(Tail(t)) - Len(s) + i]
    BY <1>1, <1>3, <2>2
  <2>4. Len(s) <= Len(Tail(t))
    BY <1>1, <1>3, <2>2
  <2> QED
    BY <2>2, <2>3, <2>4, SuffixElements, Zenon
<1>4. ASSUME Len(s) >= Len(t) PROVE s = t
  <2>1. Len(s) = Len(t) /\ \A i \in 1 .. Len(s) : s[i] = t[i]
    BY <1>1, <1>4
  <2> QED
    BY <2>1, SeqEqual
<1>5. ASSUME NEW e \in S PROVE suffixOf(Append(s, e), Append(t, e))
  <2> DEFINE a == Append(s, e)
             b == Append(t, e)
  <2>1. /\ a \in Seq(S) /\ Len(a) = Len(s) + 1 /\ a[Len(s) + 1] = e
        /\ \A i \in 1 .. Len(s) : a[i] = s[i]
    BY AppendProperties
  <2>2. /\ b \in Seq(S) /\ Len(b) = Len(t) + 1 /\ b[Len(t) + 1] = e
        /\ \A i \in 1 .. Len(t) : b[i] = t[i]
    BY AppendProperties
  <2> HIDE DEF a, b
  <2>3. \A i \in 1 .. Len(a) : a[i] = b[Len(b) - Len(a) + i]
    <3>1. \A i \in 1 .. Len(a) : i \in 1 .. Len(s) \/ i = Len(s) + 1
      BY <1>1, <2>1
    <3>2. Len(b) - Len(a) = Len(t) - Len(s)
      BY <1>1, <2>1, <2>2
    <3>3. ASSUME NEW i \in 1 .. Len(s) PROVE a[i] = b[Len(t) - Len(s) + i]
      <4>1. Len(t) - Len(s) + i \in 1 .. Len(t)
        BY <1>1
      <4> QED
        BY <1>1, <2>1, <2>2, <4>1
    <3>4. a[Len(s) + 1] = b[Len(t) - Len(s) + (Len(s) + 1)]
      BY <1>1, <2>1, <2>2
    <3> QED
      BY <3>1, <3>2, <3>3, <3>4
  <2>4. Len(a) <= Len(b)
    BY <1>1, <2>1, <2>2
  <2>5. suffixOf(a, b)
    BY <2>1, <2>2, <2>3, <2>4, SuffixElements, Zenon
  <2> QED
    BY <2>5 DEF a, b
<1> QED
  BY <1>2, <1>3, <1>4, <1>5

(* The empty sequence is a suffix of each, and each of itself. *)
LEMMA SuffixEnds ==
  ASSUME NEW S, NEW t \in Seq(S)
  PROVE  suffixOf(<<>>, t) /\ suffixOf(t, t)
<1>1. <<>> \in Seq(S) /\ Len(<<>>) = 0 /\ Len(t) \in Nat
  BY EmptySeq, LenProperties
<1>2. suffixOf(<<>>, t)
  <2>1. Len(<<>>) <= Len(t) /\ 1 .. Len(<<>>) = {}
    BY <1>1
  <2> QED
    BY <1>1, <2>1, SuffixElements, Zenon
<1>3. suffixOf(t, t)
  BY <1>1, SuffixElements
<1> QED
  BY <1>2, <1>3

(* The numbers of a suffix are numbers of the sequence, and belong to the *)
(* same elements.                                                         *)
LEMMA SuffixIds ==
  ASSUME NEW S, NEW s \in Seq(S), NEW t \in Seq(S), suffixOf(s, t)
  PROVE  /\ R!Ids(s) \subseteq R!Ids(t)
         /\ \A i \in 1 .. Len(s) : \E j \in 1 .. Len(t) : s[i] = t[j]
<1>1. /\ Len(s) \in Nat /\ Len(t) \in Nat /\ Len(s) <= Len(t)
      /\ \A i \in 1 .. Len(s) : s[i] = t[Len(t) - Len(s) + i]
  BY LenProperties, SuffixElements
<1>2. \A i \in 1 .. Len(s) : \E j \in 1 .. Len(t) : s[i] = t[j]
  BY <1>1
<1> QED
  BY <1>2 DEF R!Ids

(* A write appends the same entry e to what the ring keeps, kr, and to    *)
(* what of it is unread, kl; a full ring loses its head, and the unread   *)
(* part only when it is the whole ring.                                   *)
wroteBoth(d, e, kl, kr) ==
  /\ e.id = nwritten + 1 /\ e.ts = clock'
  /\ clock' \in Nat /\ clock <= clock' /\ nwritten' = nwritten + 1
  /\ log'[d] = Append(kl, e) /\ ring'[d] = Append(kr, e)
  /\ \A x \in Dev \ {d} : log'[x] = log[x] /\ ring'[x] = ring[x]
  /\ ring' \in [Dev -> Seq(R!Entry)]
  /\ suffixOf(kl, kr) /\ Len(kr) < RingCap /\ (kl = log[d] \/ kl = kr)
  /\ kr = ring[d] \/ (ring[d] # <<>> /\ kr = Tail(ring[d]))
  /\ UNCHANGED <<queue, out, content, crashes, nlines>>

(* A write does this, in a full ring and in one with room. *)
LEMMA WriteBoth ==
  ASSUME R!TypeOK, RingInv, UnreadInRing, NEW d \in Dev, NEW show \in Shows,
         Write(d, show)
  PROVE  \E e \in R!Entry, kl, kr \in Seq(R!Entry) : wroteBoth(d, e, kl, kr)
<1>1. /\ log \in [Dev -> Seq(R!Entry)] /\ ring \in [Dev -> Seq(R!Entry)]
      /\ Len(ring[d]) <= RingCap /\ suffixOf(log[d], ring[d])
      /\ clock \in Nat /\ nwritten \in Nat /\ RingCap \in Nat \ {0}
  BY DaemonAssumption DEF R!TypeOK, R!Dev, Dev, RingInv, Rings, UnreadInRing
<1>2. PICK now \in 0 .. MaxClock :
        /\ clock <= now /\ clock' = now
        /\ log' = [log EXCEPT ![d] =
                    (IF Len(log[d]) < RingCap THEN log[d] ELSE Tail(log[d]))
                      \o <<[id |-> nwritten + 1, ts |-> now, show |-> show]>>]
  BY DEF Write, Reader!Write
<1> DEFINE e == [id |-> nwritten + 1, ts |-> now, show |-> show]
           kl == IF Len(log[d]) < RingCap THEN log[d] ELSE Tail(log[d])
           kr == IF Len(ring[d]) < RingCap THEN ring[d] ELSE Tail(ring[d])
<1>3. e \in R!Entry /\ e.id = nwritten + 1 /\ e.ts = now /\ now \in Nat
  BY <1>1, DaemonAssumption DEF R!Entry
<1>4. /\ nwritten' = nwritten + 1
      /\ UNCHANGED <<queue, out, content, crashes, nlines>>
      /\ ring' = [ring EXCEPT ![d] = kr \o <<e>>]
  BY <1>2 DEF Write, Reader!Write, Reader!queues, outputVars
<1>5. /\ Len(log[d]) \in Nat /\ Len(ring[d]) \in Nat /\ Len(log[d]) <= Len(ring[d])
      /\ Len(log[d]) >= RingCap => log[d] # <<>>
      /\ Len(ring[d]) >= RingCap => ring[d] # <<>>
  BY <1>1, LenProperties, EmptySeq DEF suffixOf
<1>6. kl \in Seq(R!Entry) /\ kr \in Seq(R!Entry)
  BY <1>1, <1>5, HeadTailProperties
<1>7. Len(kr) < RingCap /\ (kr = ring[d] \/ (ring[d] # <<>> /\ kr = Tail(ring[d])))
  <2>1. CASE Len(ring[d]) < RingCap
    BY <2>1
  <2>2. CASE ~(Len(ring[d]) < RingCap)
    <3>1. ring[d] # <<>> /\ kr = Tail(ring[d])
      BY <1>1, <1>5, <2>2
    <3>2. Len(Tail(ring[d])) = Len(ring[d]) - 1
      BY <1>1, <3>1, HeadTailProperties
    <3>3. Len(ring[d]) - 1 < RingCap
      BY <1>1, <1>5
    <3> HIDE DEF kr
    <3> QED
      BY <3>1, <3>2, <3>3
  <2> QED
    BY <2>1, <2>2
<1>8. suffixOf(kl, kr) /\ (kl = log[d] \/ kl = kr)
  <2>1. CASE Len(log[d]) < RingCap
    <3>1. kl = log[d]
      BY <2>1
    <3>2. CASE Len(ring[d]) < RingCap
      BY <1>1, <3>1, <3>2
    <3>3. CASE ~(Len(ring[d]) < RingCap)
      <4>1. Len(log[d]) < Len(ring[d]) /\ kr = Tail(ring[d])
        BY <1>1, <1>5, <2>1, <3>3
      <4>2. suffixOf(log[d], Tail(ring[d]))
        BY <1>1, <4>1, SuffixChanges
      <4> QED
        BY <3>1, <4>1, <4>2
    <3> QED
      BY <3>2, <3>3
  <2>2. CASE ~(Len(log[d]) < RingCap)
    <3>1. Len(log[d]) >= Len(ring[d])
      BY <1>1, <1>5, <2>2
    <3>2. log[d] = ring[d]
      BY <1>1, <3>1, SuffixChanges
    <3>3. kl = kr
      BY <3>2
    <3> QED
      BY <1>6, <3>3, SuffixEnds
  <2> QED
    BY <2>1, <2>2
<1>9. /\ log' = [log EXCEPT ![d] = kl \o <<e>>]
  BY <1>2
<1> HIDE DEF e, kl, kr
<1>10. kl \o <<e>> = Append(kl, e) /\ kr \o <<e>> = Append(kr, e)
  BY <1>3, <1>6, AppendIsConcat
<1>11. Append(kr, e) \in Seq(R!Entry)
  BY <1>3, <1>6, AppendProperties
<1>12. /\ log'[d] = Append(kl, e) /\ ring'[d] = Append(kr, e)
       /\ \A x \in Dev \ {d} : log'[x] = log[x] /\ ring'[x] = ring[x]
       /\ ring' \in [Dev -> Seq(R!Entry)]
  BY <1>1, <1>4, <1>9, <1>10, <1>11
<1>13. wroteBoth(d, e, kl, kr)
  BY <1>2, <1>3, <1>4, <1>7, <1>8, <1>12 DEF wroteBoth
<1> QED
  BY <1>3, <1>6, <1>13

(* The rings stay good through a write, and the unread part in them. *)
LEMMA WriteRings ==
  ASSUME RingInv, UnreadInRing, R!TypeOK, NEW d \in Dev, NEW e \in R!Entry,
         NEW kl \in Seq(R!Entry), NEW kr \in Seq(R!Entry), wroteBoth(d, e, kl, kr)
  PROVE  RingInv' /\ UnreadInRing'
<1>1. /\ e.id = nwritten + 1 /\ e.ts = clock'
      /\ clock' \in Nat /\ clock <= clock' /\ nwritten' = nwritten + 1
      /\ log'[d] = Append(kl, e) /\ ring'[d] = Append(kr, e)
      /\ \A x \in Dev \ {d} : log'[x] = log[x] /\ ring'[x] = ring[x]
      /\ ring' \in [Dev -> Seq(R!Entry)]
      /\ suffixOf(kl, kr) /\ Len(kr) < RingCap
      /\ kr = ring[d] \/ (ring[d] # <<>> /\ kr = Tail(ring[d]))
  BY DEF wroteBoth
<1>2. /\ clock \in Nat /\ nwritten \in Nat /\ RingCap \in Nat
      /\ \A x \in Dev : ring[x] \in Seq(R!Entry)
  BY DaemonAssumption DEF R!TypeOK, RingInv, Rings
<1>3. /\ R!Sorted(kr) /\ R!Upto(kr, clock) /\ R!Distinct(kr)
      /\ R!Ids(kr) \subseteq R!Ids(ring[d])
  <2>1. /\ R!Sorted(ring[d]) /\ R!Upto(ring[d], clock) /\ R!Distinct(ring[d])
    BY DEF RingInv, Rings
  <2>2. CASE kr = ring[d]
    BY <2>1, <2>2
  <2>3. CASE ring[d] # <<>> /\ kr = Tail(ring[d])
    <3>1. R!Distinct(Tail(ring[d])) /\ R!Ids(Tail(ring[d])) \subseteq R!Ids(ring[d])
      BY <1>2, <2>1, <2>3, DaemonAssumption, R!IdsTail
    <3>2. R!Stamped(ring[d])
      BY <1>2, DaemonAssumption, R!EntriesStamped
    <3>3. R!Sorted(Tail(ring[d])) /\ R!Upto(Tail(ring[d]), clock)
      BY <1>2, <2>1, <2>3, <3>2, DaemonAssumption, R!OrderOfTail
    <3> QED
      BY <2>3, <3>1, <3>3
  <2> QED
    BY <1>1, <2>2, <2>3
<1>4. R!Stamped(kr) /\ e.ts \in Nat /\ Len(kr) \in Nat
  BY <1>1, DaemonAssumption, R!EntriesStamped, LenProperties
<1>5. R!Upto(kr, clock') /\ \A x \in Dev : R!Upto(ring[x], clock')
  <2>1. \A x \in Dev : R!Upto(ring[x], clock) /\ R!Stamped(ring[x])
    BY <1>2, DaemonAssumption, R!EntriesStamped DEF RingInv, Rings
  <2>2. ASSUME NEW s, R!Stamped(s), R!Upto(s, clock) PROVE R!Upto(s, clock')
    BY <1>1, <1>2, <2>2 DEF R!Upto, R!Stamped
  <2> QED
    BY <1>3, <1>4, <2>1, <2>2
<1>6. R!Sorted(ring'[d]) /\ R!Upto(ring'[d], clock')
  <2>1. R!Upto(kr, e.ts) /\ e.ts <= clock'
    BY <1>1, <1>5
  <2>2. R!Sorted(Append(kr, e))
    BY <1>3, <1>4, <2>1, DaemonAssumption, R!SortedAppend
  <2>3. R!Upto(Append(kr, e), clock')
    BY <1>4, <1>5, <2>1, DaemonAssumption, R!SortedAppend
  <2> QED
    BY <1>1, <2>2, <2>3
<1>7. R!Ids(ring[d]) \subseteq 1 .. nwritten
  BY DEF RingInv, Rings
<1>8. /\ R!Ids(ring'[d]) = R!Ids(kr) \cup {nwritten + 1}
      /\ R!Distinct(ring'[d])
  <2>1. e.id \notin R!Ids(kr)
    BY <1>1, <1>2, <1>3, <1>7
  <2> QED
    BY <1>1, <1>3, <2>1, DaemonAssumption, R!IdsAppend
<1>9. Len(ring'[d]) <= RingCap
  <2>1. Len(Append(kr, e)) = Len(kr) + 1
    BY AppendProperties
  <2> QED
    BY <1>1, <1>2, <1>4, <2>1
<1>10. 1 .. nwritten' = 1 .. nwritten \cup {nwritten + 1} /\ nwritten + 1 \notin 1 .. nwritten
  BY <1>1, <1>2
<1>11. RingInv'
  <2>1. \A x \in Dev : /\ Len(ring'[x]) <= RingCap
                       /\ R!Sorted(ring'[x]) /\ R!Upto(ring'[x], clock')
                       /\ R!Distinct(ring'[x]) /\ R!Ids(ring'[x]) \subseteq 1 .. nwritten'
    BY <1>1, <1>3, <1>5, <1>6, <1>7, <1>8, <1>9, <1>10 DEF RingInv, Rings
  <2>2. \A x, y \in Dev : x # y => R!Ids(ring'[x]) \cap R!Ids(ring'[y]) = {}
    <3>1. \A x \in Dev : R!Ids(ring[x]) \subseteq 1 .. nwritten
      BY DEF RingInv, Rings
    <3>2. \A x, y \in Dev : x # y => R!Ids(ring[x]) \cap R!Ids(ring[y]) = {}
      BY DEF RingInv, Rings
    <3>3. \A x \in Dev \ {d} : R!Ids(ring'[x]) = R!Ids(ring[x])
      BY <1>1
    <3>4. \A x \in Dev \ {d} : R!Ids(ring'[d]) \cap R!Ids(ring[x]) = {}
      BY <1>3, <1>8, <1>10, <3>1, <3>2
    <3> QED
      BY <3>2, <3>3, <3>4
  <2> QED
    BY <1>1, <2>1, <2>2 DEF RingInv, Rings
<1>12. UnreadInRing'
  <2>1. suffixOf(log'[d], ring'[d])
    BY <1>1, SuffixChanges
  <2> QED
    BY <1>1, <2>1 DEF UnreadInRing
<1> QED
  BY <1>11, <1>12

-----------------------------------------------------------------------------
(* What a step does to the entries and the lines. *)

(* Ring and unread part are flushed. *)
flushed(d) ==
  /\ log'[d] = <<>> /\ ring'[d] = <<>>
  /\ \A x \in Dev \ {d} : log'[x] = log[x] /\ ring'[x] = ring[x]
  /\ ring' \in [Dev -> Seq(R!Entry)]
  /\ UNCHANGED <<clock, nwritten, queue, out, content, crashes, nlines>>

(* An entry is read. *)
fetched(d) ==
  /\ R!moved(d)
  /\ UNCHANGED <<clock, ring, content, crashes, nlines>>

(* An entry e leaves the queues and becomes a line, unless the rules      *)
(* suppress it or the write fails.                                        *)
emitted(d, kind, e) ==
  /\ R!left(d, kind) /\ e = Head(queue[d])
  /\ e.show => kind \in {"print", "error"}
  /\ IF kind = "print"
       THEN /\ nlines' = nlines + 1
            /\ content' = Append(content, [id |-> e.id, ts |-> e.ts, life |-> crashes])
       ELSE UNCHANGED <<nlines, content>>
  /\ UNCHANGED <<clock, ring, crashes>>

(* A new process starts from the rings as they are, or from empty ones. *)
reborn(rings) ==
  /\ forget(rings) /\ (rings = ring \/ rings = [d \in Dev |-> <<>>])
  /\ crashes' = crashes + 1 /\ UNCHANGED nlines

unmoved ==
  UNCHANGED <<clock, nwritten, log, queue, out, ring, content, crashes, nlines>>

(* Every step of the service is one of these. *)
LEMMA ServiceKinds ==
  ASSUME R!TypeOK, RingInv, UnreadInRing, [Next]_vars
  PROVE  \/ \E d \in Dev, e \in R!Entry, kl, kr \in Seq(R!Entry) :
              wroteBoth(d, e, kl, kr)
         \/ \E d \in Dev : flushed(d)
         \/ \E d \in Dev : fetched(d)
         \/ \E d \in Dev, kind \in R!Kind, e \in R!Entry : emitted(d, kind, e)
         \/ \E rings : reborn(rings) /\ Die
         \/ unmoved
<1>0. R!Dev = Dev /\ Reader!Dev = Dev
  BY DEF R!Dev, Reader!Dev, Dev
<1>1. CASE UNCHANGED vars
  BY <1>1 DEF vars, readerVars, outputVars, unmoved
<1>2. ASSUME NEW d \in Dev, NEW show \in Shows, Write(d, show)
      PROVE  \E e \in R!Entry, kl, kr \in Seq(R!Entry) : wroteBoth(d, e, kl, kr)
  BY <1>2, WriteBoth
<1>3. ASSUME NEW d \in Dev, Clear(d) PROVE flushed(d)
  <2>1. ring \in [Dev -> Seq(R!Entry)] /\ log \in [Dev -> Seq(R!Entry)]
        /\ <<>> \in Seq(R!Entry)
    BY <1>0, EmptySeq DEF RingInv, Rings, R!TypeOK
  <2>2. /\ ring' = [ring EXCEPT ![d] = <<>>]
        /\ UNCHANGED <<content, crashes, nlines>>
    BY <1>3 DEF Clear, outputVars
  <2>3. /\ log'[d] = <<>> /\ \A x \in Dev \ {d} : log'[x] = log[x]
        /\ UNCHANGED <<clock, nwritten, queue, out>>
    BY <1>3, <2>1 DEF Clear, Reader!clear_log, Reader!queues, readerVars
  <2> QED
    BY <2>1, <2>2, <2>3 DEF flushed
<1>4. CASE quietStep /\ Reader!Read
  <2>1. R!Read
    BY <1>4, SameRead
  <2>2. dev \in Dev /\ log[dev] # <<>> /\ Head(log[dev]) \in R!Entry
    BY <1>0, <2>1, HeadTailProperties DEF R!Read, R!TypeOK
  <2>3. R!moved(dev)
    BY <1>0, <2>1, <2>2 DEF R!Read, R!moved, R!TypeOK
  <2>4. UNCHANGED <<clock, ring, content, crashes, nlines>>
    BY <1>4, <2>1 DEF quietStep, R!Read, outputVars
  <2> QED
    BY <2>2, <2>3, <2>4 DEF fetched
<1>5. CASE quietStep /\ ~Reader!Read
  BY <1>5 DEF quietStep, unmoved, outputVars, Reader!PollDevice, Reader!SelectReady,
     Reader!SelectWakes, Reader!SelectTimeout, Reader!NotReadable,
     Reader!EmitDone, Reader!DrainDone, Reader!devices, Reader!queues
<1>11. CASE readDone \/ readInterrupted
  BY <1>11 DEF readDone, readInterrupted, unmoved, outputVars, Reader!ReadDone,
     Reader!ReadInterrupted, Reader!devices, Reader!queues
<1>6. CASE printNextEntry
  <2>1. R!Emit \/ R!Drain
    BY <1>6, SameEmit DEF printNextEntry
  <2>2. PICK d \in Dev, kind \in R!Kind :
          /\ R!left(d, kind)
          /\ kind = "skip" <=> (IF pc = "emit" THEN 0 # 0 ELSE ~R!tailPrints)
          /\ kind = "skip" \/ kind \in R!processBuffer(Head(queue[d]))
    BY <1>0, <2>1, DaemonAssumption, R!DequeueEffect
  <2>3. d = first /\ Head(queue[d]) \in R!Entry
    BY <2>2, SameFirst DEF R!left
  <2>6. Head(queue[d]).show => kind \in {"print", "error"}
    BY <2>2 DEF R!tailPrints, R!processBuffer
  <2>7. out'[Len(out')].kind = kind
    <3> DEFINE r == [kind |-> kind, dev |-> d, id |-> Head(queue[d]).id,
                     ts |-> Head(queue[d]).ts, hdr |-> R!maybePrintStart(d)]
    <3>1. out' = Append(out, r) /\ r.kind = kind
      BY <2>2 DEF R!left
    <3> HIDE DEF r
    <3>2. out \in Seq(R!Record \cup {r}) /\ r \in R!Record \cup {r}
      BY SeqMonotonic DEF R!TypeOK
    <3>3. Len(out') = Len(out) + 1 /\ out'[Len(out) + 1] = r
      BY <3>1, <3>2, AppendProperties
    <3> QED
      BY <3>1, <3>3
  <2>4. clock' = clock
    BY <2>1 DEF R!Emit, R!Drain, R!devices
  <2>5. emitted(d, kind, Head(queue[d]))
    BY <1>6, <2>2, <2>3, <2>4, <2>6, <2>7 DEF printNextEntry, emitted,
       Output!processBuffer
  <2> QED
    BY <2>2, <2>3, <2>5
<1>7. CASE maybePrintStart
  BY <1>7 DEF maybePrintStart, Output!maybePrintStart, unmoved, readerVars
<1>8. CASE rotate_logs
  BY <1>8 DEF rotate_logs, Output!rotate_logs, Output!rename, Output!reopen, unmoved,
     readerVars
<1>9. CASE setup_output
  BY <1>9 DEF setup_output, Output!setup_output, unmoved, readerVars
<1>10. CASE Die
  BY <1>10 DEF Die, Output!Die, reborn
<1> QED
  BY <1>1, <1>2, <1>3, <1>4, <1>5, <1>6, <1>7, <1>8, <1>9, <1>10, <1>11
     DEF Next, dlogutil

(* Good rings, with the unread part at their end, after every step. *)
LEMMA RingsStep ==
  ASSUME ReaderInv, RingInv, UnreadInRing, [Next]_vars
  PROVE  RingInv' /\ UnreadInRing'
<1>0. /\ R!TypeOK /\ R!Dev = Dev
      /\ \A x \in Dev : log[x] \in Seq(R!Entry) /\ ring[x] \in Seq(R!Entry)
  BY DEF ReaderInv, R!MergeInv, R!TypeOK, R!Dev, Dev, RingInv, Rings
<1>1. ASSUME NEW d \in Dev, NEW e \in R!Entry, NEW kl \in Seq(R!Entry),
             NEW kr \in Seq(R!Entry), wroteBoth(d, e, kl, kr)
      PROVE  RingInv' /\ UnreadInRing'
  BY <1>0, <1>1, WriteRings
<1>2. ASSUME NEW d \in Dev, flushed(d) PROVE RingInv' /\ UnreadInRing'
  <2>1. /\ log'[d] = <<>> /\ ring'[d] = <<>> /\ clock' = clock /\ nwritten' = nwritten
        /\ \A x \in Dev \ {d} : log'[x] = log[x] /\ ring'[x] = ring[x]
        /\ ring' \in [Dev -> Seq(R!Entry)]
    BY <1>2 DEF flushed
  <2>2. /\ R!Sorted(<<>>) /\ R!Upto(<<>>, clock)
        /\ R!Ids(<<>>) = {} /\ R!Distinct(<<>>) /\ Len(<<>>) = 0 /\ 0 <= RingCap
    BY EmptySeq, DaemonAssumption DEF R!Sorted, R!Upto, R!Ids, R!Distinct
  <2>3. \A x \in Dev : R!Ids(ring'[x]) \subseteq R!Ids(ring[x])
    BY <2>1, <2>2
  <2>4. RingInv'
    BY <2>1, <2>2, <2>3 DEF RingInv, Rings
  <2>5. suffixOf(<<>>, <<>>)
    BY <2>1, SuffixEnds
  <2> QED
    BY <2>1, <2>4, <2>5 DEF UnreadInRing
<1>3. ASSUME NEW d \in Dev, fetched(d) PROVE RingInv' /\ UnreadInRing'
  <2>1. /\ log[d] # <<>> /\ log'[d] = Tail(log[d])
        /\ \A x \in Dev \ {d} : log'[x] = log[x]
        /\ UNCHANGED <<clock, nwritten, ring>>
    BY <1>0, <1>3 DEF fetched, R!moved
  <2>2. suffixOf(Tail(log[d]), ring[d])
    BY <1>0, <2>1, SuffixChanges DEF UnreadInRing
  <2>3. UnreadInRing'
    BY <2>1, <2>2 DEF UnreadInRing
  <2> QED
    BY <2>1, <2>3 DEF RingInv
<1>4. ASSUME UNCHANGED <<clock, nwritten, log, ring>> PROVE RingInv' /\ UnreadInRing'
  BY <1>4 DEF RingInv, UnreadInRing
<1>5. ASSUME NEW rings, reborn(rings) PROVE RingInv' /\ UnreadInRing'
  <2>1. /\ ring' = rings /\ log' = rings /\ clock' = clock /\ nwritten' = nwritten
        /\ Rings(rings, clock, nwritten)
    BY <1>5, NoRings DEF reborn, forget, RingInv
  <2>2. \A x \in Dev : rings[x] \in Seq(R!Entry)
    BY <2>1 DEF Rings
  <2>3. \A x \in Dev : suffixOf(rings[x], rings[x])
    BY <2>2, SuffixEnds
  <2> QED
    BY <2>1, <2>3 DEF RingInv, UnreadInRing
<1>6. ASSUME NEW d \in Dev, NEW kind, NEW e, emitted(d, kind, e)
      PROVE  UNCHANGED <<clock, nwritten, log, ring>>
  BY <1>6 DEF emitted, R!left
<1>7. unmoved => UNCHANGED <<clock, nwritten, log, ring>>
  BY DEF unmoved
<1> QED
  BY <1>0, <1>1, <1>2, <1>3, <1>4, <1>5, <1>6, <1>7, ServiceKinds

(* What the reader's module assumes of its constants holds for the        *)
(* values the service gives them.                                         *)
LEMMA ReaderConstants ==
  /\ Shows \subseteq BOOLEAN /\ {FALSE, Clears, Faults} \subseteq BOOLEAN
  /\ RingCap \in Nat \ {0} /\ MaxWrites \in Nat /\ MaxClock \in Nat
  /\ 0 \in Int /\ FALSE \in BOOLEAN /\ (0 # 0 => FALSE)
  /\ DevCount \in Nat \ {0} /\ DevCount \in Nat
BY DaemonAssumption

(* A queue holds nothing but what it held and what was put into it. *)
LEMMA EnqueueElements ==
  ASSUME NEW q \in Seq(R!Entry), NEW e \in R!Entry, NEW S,
         \A k \in 1 .. Len(q) : q[k] \in S, e \in S
  PROVE  \A j \in 1 .. Len(R!enqueue(q, e)) : R!enqueue(q, e)[j] \in S
<1> DEFINE r == R!enqueue(q, e)
<1>0. \E at \in 1 .. Len(q) + 1 :
        /\ \A i \in 1 .. at - 1 : R!enqueue(q, e)[i] = q[i] /\ q[i].ts <= e.ts
        /\ R!enqueue(q, e)[at] = e
        /\ \A i \in at .. Len(q) : R!enqueue(q, e)[i + 1] = q[i]
        /\ at <= Len(q) => e.ts < q[at].ts
  BY ReaderConstants, R!EnqueueShape, Zenon
<1>1. PICK at \in 1 .. Len(q) + 1 :
        /\ \A i \in 1 .. at - 1 : r[i] = q[i]
        /\ r[at] = e
        /\ \A i \in at .. Len(q) : r[i + 1] = q[i]
  BY <1>0
<1>2. Len(q) \in Nat /\ Len(r) = Len(q) + 1
  BY DaemonAssumption, R!EnqueueType, LenProperties
<1> HIDE DEF r
<1>3. ASSUME NEW j \in 1 .. Len(r) PROVE r[j] \in S
  <2>1. CASE j < at
    BY <1>1, <1>2, <2>1
  <2>2. CASE j = at
    BY <1>1, <2>2
  <2>3. CASE j > at
    <3>1. j - 1 \in at .. Len(q) /\ j - 1 \in 1 .. Len(q) /\ j - 1 + 1 = j
      BY <1>2, <2>3
    <3>2. r[j - 1 + 1] = q[j - 1]
      BY <1>1, <3>1
    <3> QED
      BY <3>1, <3>2
  <2> QED
    BY <1>2, <2>1, <2>2, <2>3
<1> QED
  BY <1>3 DEF r

(* A dequeue takes the head's number, and no other, out of the queue. *)
LEMMA DequeuedId ==
  ASSUME R!TypeOK, R!Apart, NEW d \in R!Dev, NEW kind \in R!Kind, R!left(d, kind)
  PROVE  /\ Head(queue[d]).id \in R!Ids(queue[d])
         /\ R!Ids(queue'[d]) = R!Ids(queue[d]) \ {Head(queue[d]).id}
<1>1. queue[d] \in Seq(R!Entry) /\ R!Distinct(queue[d])
  BY DEF R!TypeOK, R!Apart
<1>2. queue[d] # <<>> /\ queue'[d] = Tail(queue[d])
  BY DEF R!left
<1>3. \A q \in Seq(R!Entry) : q # <<>> /\ R!Distinct(q) =>
        Head(q).id \in R!Ids(q) /\ R!Ids(Tail(q)) = R!Ids(q) \ {Head(q).id}
  BY DaemonAssumption, R!IdsTail
<1> QED
  BY <1>1, <1>2, <1>3

(* The entry just read is an element of its ring. *)
LEMMA FetchedInRing ==
  ASSUME R!TypeOK, RingInv, UnreadInRing, NEW d \in Dev, log[d] # <<>>
  PROVE  \E k \in 1 .. Len(ring[d]) : ring[d][k] = Head(log[d])
<1>1. log[d] \in Seq(R!Entry) /\ ring[d] \in Seq(R!Entry)
  BY DEF R!TypeOK, R!Dev, Dev, RingInv, Rings
<1>2. Head(log[d]) = log[d][1] /\ 1 \in 1 .. Len(log[d])
  BY <1>1, EmptySeq, HeadTailProperties
<1>3. PICK k \in 1 .. Len(ring[d]) : log[d][1] = ring[d][k]
  BY <1>1, <1>2, SuffixIds DEF UnreadInRing
<1> QED
  BY <1>2, <1>3

(* Same, when one of the sequences changes. *)
LEMMA SameChanges ==
  ASSUME NEW r \in Seq(R!Entry), NEW q \in Seq(R!Entry), Same(r, q)
  PROVE  /\ r # <<>> => Same(Tail(r), q)
         /\ q # <<>> => Same(r, Tail(q))
         /\ Same(<<>>, q) /\ Same(r, <<>>)
         /\ \A e \in R!Entry : e.id \notin R!Ids(q) => Same(Append(r, e), q)
<1>1. Len(r) \in Nat /\ Len(q) \in Nat /\ Len(<<>>) = 0
  BY LenProperties, EmptySeq
<1>2. ASSUME r # <<>> PROVE Same(Tail(r), q)
  <2>1. Len(Tail(r)) = Len(r) - 1 /\ \A i \in 1 .. Len(r) - 1 : Tail(r)[i] = r[i + 1]
    BY <1>2, HeadTailProperties
  <2> QED
    BY <1>1, <2>1 DEF Same
<1>3. ASSUME q # <<>> PROVE Same(r, Tail(q))
  <2>1. Len(Tail(q)) = Len(q) - 1 /\ \A i \in 1 .. Len(q) - 1 : Tail(q)[i] = q[i + 1]
    BY <1>3, HeadTailProperties
  <2> QED
    BY <1>1, <2>1 DEF Same
<1>4. Same(<<>>, q) /\ Same(r, <<>>)
  BY <1>1 DEF Same
<1>5. ASSUME NEW e \in R!Entry, e.id \notin R!Ids(q) PROVE Same(Append(r, e), q)
  <2> DEFINE a == Append(r, e)
  <2>1. /\ Len(a) = Len(r) + 1 /\ a[Len(r) + 1] = e
        /\ \A i \in 1 .. Len(r) : a[i] = r[i]
    BY AppendProperties
  <2> HIDE DEF a
  <2>2. \A j \in 1 .. Len(q) : e.id # q[j].id
    BY <1>5 DEF R!Ids
  <2>3. \A i \in 1 .. Len(a) : i \in 1 .. Len(r) \/ i = Len(r) + 1
    BY <1>1, <2>1
  <2>4. ASSUME NEW i \in 1 .. Len(a), NEW j \in 1 .. Len(q), a[i].id = q[j].id
        PROVE  a[i].show = q[j].show
    <3>1. i \in 1 .. Len(r)
      BY <2>1, <2>2, <2>3, <2>4
    <3>2. a[i] = r[i]
      BY <2>1, <3>1
    <3> QED
      BY <2>4, <3>1, <3>2 DEF Same
  <2>5. Same(a, q)
    BY <2>4 DEF Same
  <2> QED
    BY <2>5 DEF a
<1> QED
  BY <1>2, <1>3, <1>4, <1>5

(* Ring and queues go on telling the same of an entry. *)
LEMMA VerdictStep ==
  ASSUME ReaderInv, RingInv, UnreadInRing, SameVerdict, [Next]_vars
  PROVE  SameVerdict'
<1>0. /\ R!TypeOK /\ R!Dev = Dev /\ nwritten \in Nat
      /\ \A x \in Dev : ring[x] \in Seq(R!Entry) /\ queue[x] \in Seq(R!Entry)
      /\ \A x \in Dev : R!Ids(queue[x]) \subseteq 1 .. nwritten
  BY DEF ReaderInv, R!MergeInv, R!TypeOK, R!Dev, Dev, RingInv, Rings, R!Apart
<1>1. ASSUME NEW d \in Dev, NEW e \in R!Entry, NEW kl \in Seq(R!Entry),
             NEW kr \in Seq(R!Entry), wroteBoth(d, e, kl, kr)
      PROVE  SameVerdict'
  <2>1. /\ e.id = nwritten + 1 /\ ring'[d] = Append(kr, e) /\ queue' = queue
        /\ \A x \in Dev \ {d} : ring'[x] = ring[x]
        /\ kr = ring[d] \/ (ring[d] # <<>> /\ kr = Tail(ring[d]))
    BY <1>1 DEF wroteBoth
  <2>2. \A x \in Dev : e.id \notin R!Ids(queue[x])
    <3>1. nwritten + 1 \notin 1 .. nwritten
      BY <1>0
    <3> QED
      BY <1>0, <2>1, <3>1
  <2>3. \A x \in Dev : Same(kr, queue[x])
    BY <1>0, <2>1, SameChanges DEF SameVerdict
  <2>4. \A x \in Dev : Same(Append(kr, e), queue[x])
    BY <1>0, <2>2, <2>3, SameChanges
  <2> QED
    BY <2>1, <2>4 DEF SameVerdict
<1>2. ASSUME NEW d \in Dev, flushed(d) PROVE SameVerdict'
  <2>1. /\ ring'[d] = <<>> /\ queue' = queue
        /\ \A x \in Dev \ {d} : ring'[x] = ring[x]
    BY <1>2 DEF flushed
  <2>2. \A x \in Dev : Same(<<>>, queue[x])
    BY <1>0, SameChanges DEF SameVerdict
  <2> QED
    BY <2>1, <2>2 DEF SameVerdict
<1>3. ASSUME NEW d \in Dev, fetched(d) PROVE SameVerdict'
  <2> DEFINE h == Head(log[d])
  <2>1. /\ log[d] # <<>> /\ h \in R!Entry /\ ring' = ring
        /\ queue'[d] = R!enqueue(queue[d], h)
        /\ \A x \in Dev \ {d} : queue'[x] = queue[x]
    BY <1>0, <1>3 DEF fetched, R!moved
  <2>2. PICK k \in 1 .. Len(ring[d]) : ring[d][k] = h
    BY <1>0, <2>1, FetchedInRing
  <2> HIDE DEF h
  <2>3. ASSUME NEW c \in Dev, NEW i \in 1 .. Len(ring[c]), ring[c][i].id = h.id
        PROVE  ring[c][i].show = h.show
    <3>1. h.id \in R!Ids(ring[c]) /\ h.id \in R!Ids(ring[d])
      BY <2>2, <2>3 DEF R!Ids
    <3>2. c = d
      BY <3>1 DEF RingInv, Rings
    <3>3. i = k
      BY <2>2, <2>3, <3>2 DEF RingInv, Rings, R!Distinct
    <3> QED
      BY <2>2, <3>2, <3>3
  <2>4. ASSUME NEW c \in Dev PROVE Same(ring[c], queue'[d])
    <3> DEFINE S == {x \in R!Entry : \A i \in 1 .. Len(ring[c]) :
                       ring[c][i].id = x.id => ring[c][i].show = x.show}
    <3>1. h \in S
      BY <2>1, <2>3
    <3>2. \A j \in 1 .. Len(queue[d]) : queue[d][j] \in S
      <4>1. \A j \in 1 .. Len(queue[d]) : queue[d][j] \in R!Entry
        BY <1>0, ElementOfSeq
      <4>2. Same(ring[c], queue[d])
        BY DEF SameVerdict
      <4> QED
        BY <4>1, <4>2 DEF Same
    <3> HIDE DEF S
    <3>3. \A j \in 1 .. Len(queue'[d]) : queue'[d][j] \in S
      BY <1>0, <2>1, <3>1, <3>2, EnqueueElements
    <3> QED
      BY <3>3 DEF S, Same
  <2> QED
    BY <2>1, <2>4 DEF SameVerdict
<1>4. ASSUME NEW d \in Dev, NEW kind, NEW e, emitted(d, kind, e) PROVE SameVerdict'
  <2>1. /\ queue[d] # <<>> /\ queue'[d] = Tail(queue[d]) /\ ring' = ring
        /\ \A x \in Dev \ {d} : queue'[x] = queue[x]
    BY <1>0, <1>4 DEF emitted, R!left
  <2>2. \A x \in Dev : Same(ring[x], Tail(queue[d]))
    BY <1>0, <2>1, SameChanges DEF SameVerdict
  <2> QED
    BY <2>1, <2>2 DEF SameVerdict
<1>5. ASSUME NEW rings, reborn(rings) PROVE SameVerdict'
  <2>1. /\ \A x \in Dev : queue'[x] = <<>>
    BY <1>5 DEF reborn, forget
  <2>2. \A r : Same(r, <<>>)
    BY EmptySeq DEF Same
  <2> QED
    BY <2>1, <2>2 DEF SameVerdict
<1>6. CASE unmoved
  BY <1>6 DEF unmoved, SameVerdict
<1> QED
  BY <1>0, <1>1, <1>2, <1>3, <1>4, <1>5, <1>6, ServiceKinds

(* The numbers of the lines c that process n has written. *)
writtenBy(c, n) == {x \in Nat : \E a \in 1 .. Len(c) : c[a].id = x /\ c[a].life = n}

(* It is the set the specification calls written. *)
LEMMA WrittenIs ==
  ASSUME NEW c \in Seq(Line), NEW n
  PROVE  {c[i].id : i \in {j \in DOMAIN c : c[j].life = n}} = writtenBy(c, n)
<1>1. DOMAIN c = 1 .. Len(c)
  BY LenProperties
<1>2. \A i \in 1 .. Len(c) : c[i] \in Line
  BY ElementOfSeq
<1>3. \A x \in Line : x.id \in Nat
  BY DEF Line
<1> QED
  BY <1>1, <1>2, <1>3 DEF writtenBy

(* A new line adds its number to those of its process. *)
LEMMA WrittenAppend ==
  ASSUME NEW c \in Seq(Line), NEW x \in Line, NEW n
  PROVE  /\ writtenBy(c, n) \subseteq writtenBy(Append(c, x), n)
         /\ x.life = n => x.id \in writtenBy(Append(c, x), n)
<1> DEFINE a == Append(c, x)
<1>1. /\ Len(c) \in Nat /\ Len(a) = Len(c) + 1 /\ a[Len(c) + 1] = x
      /\ \A i \in 1 .. Len(c) : a[i] = c[i]
  BY AppendProperties, LenProperties
<1>2. x.id \in Nat
  BY DEF Line
<1> HIDE DEF a
<1>3. 1 .. Len(c) \subseteq 1 .. Len(a) /\ Len(c) + 1 \in 1 .. Len(a)
  BY <1>1
<1>4. writtenBy(c, n) \subseteq writtenBy(a, n)
  BY <1>1, <1>3 DEF writtenBy
<1>5. x.life = n => x.id \in writtenBy(a, n)
  BY <1>1, <1>2, <1>3 DEF writtenBy
<1> QED
  BY <1>4, <1>5 DEF a

(* A new record of the reader keeps the failed writes, and adds its own   *)
(* if it is one.                                                          *)
LEMMA FailedAppend ==
  ASSUME NEW S, NEW o \in Seq(S), NEW x \in S
  PROVE  LET bad(q) == {q[i].id : i \in {j \in DOMAIN q : q[j].kind = "error"}}
         IN  /\ bad(o) \subseteq bad(Append(o, x))
             /\ x.kind = "error" => x.id \in bad(Append(o, x))
<1> DEFINE a == Append(o, x)
           bad(q) == {q[i].id : i \in {j \in DOMAIN q : q[j].kind = "error"}}
<1>1. /\ Len(o) \in Nat /\ Len(a) = Len(o) + 1 /\ a[Len(o) + 1] = x /\ a \in Seq(S)
      /\ \A i \in 1 .. Len(o) : a[i] = o[i]
  BY AppendProperties, LenProperties
<1> HIDE DEF a
<1>2. DOMAIN o = 1 .. Len(o) /\ DOMAIN a = 1 .. Len(a)
  BY <1>1, LenProperties
<1>3. \A i \in DOMAIN o : i \in DOMAIN a /\ a[i] = o[i]
  BY <1>1, <1>2
<1>4. Len(o) + 1 \in DOMAIN a
  BY <1>1, <1>2
<1>5. bad(o) \subseteq bad(a)
  BY <1>3
<1>6. x.kind = "error" => x.id \in bad(a)
  BY <1>1, <1>4
<1> QED
  BY <1>5, <1>6 DEF a

(* Found, when the ring changes. *)
LEMMA FoundChanges ==
  ASSUME NEW r \in Seq(R!Entry), NEW ids, Found(r, ids)
  PROVE  /\ r # <<>> => Found(Tail(r), ids)
         /\ \A e \in R!Entry : e.id \in ids => Found(Append(r, e), ids)
<1>1. Len(r) \in Nat
  BY LenProperties
<1>2. ASSUME r # <<>> PROVE Found(Tail(r), ids)
  <2>1. Len(Tail(r)) = Len(r) - 1 /\ \A i \in 1 .. Len(r) - 1 : Tail(r)[i] = r[i + 1]
    BY <1>2, HeadTailProperties
  <2> QED
    BY <1>1, <2>1 DEF Found
<1>3. ASSUME NEW e \in R!Entry, e.id \in ids PROVE Found(Append(r, e), ids)
  <2> DEFINE a == Append(r, e)
  <2>1. /\ Len(a) = Len(r) + 1 /\ a[Len(r) + 1] = e
        /\ \A i \in 1 .. Len(r) : a[i] = r[i]
    BY AppendProperties
  <2> HIDE DEF a
  <2>2. \A i \in 1 .. Len(a) : i \in 1 .. Len(r) \/ i = Len(r) + 1
    BY <1>1, <2>1
  <2>3. Found(a, ids)
    BY <1>3, <2>1, <2>2 DEF Found
  <2> QED
    BY <2>3 DEF a
<1> QED
  BY <1>2, <1>3

(* An entry of the ring that is to be shown goes from the unread part to  *)
(* the queues and from there to the lines or the failed writes, and is    *)
(* never in none of them.                                                 *)
LEMMA FoundStep ==
  ASSUME ReaderInv, RingInv, UnreadInRing, SameVerdict, RingFound, LinesLinked,
         O!OutputInv, [Next]_vars
  PROVE  RingFound'
<1> DEFINE place(d) == R!Ids(log[d]) \cup queuedNow \cup written \cup failed
<1>0. /\ R!TypeOK /\ R!Apart /\ R!Dev = Dev /\ content \in Seq(Line) /\ crashes \in Nat
      /\ \A x \in Dev : /\ ring[x] \in Seq(R!Entry) /\ queue[x] \in Seq(R!Entry)
                        /\ log[x] \in Seq(R!Entry)
  BY DEF ReaderInv, R!MergeInv, R!TypeOK, R!Dev, Dev, RingInv, Rings, LinesLinked,
         O!OutputInv, O!TypeOK
<1>1. ASSUME NEW d \in Dev, NEW e \in R!Entry, NEW kl \in Seq(R!Entry),
             NEW kr \in Seq(R!Entry), wroteBoth(d, e, kl, kr)
      PROVE  RingFound'
  <2>1. /\ ring'[d] = Append(kr, e) /\ log'[d] = Append(kl, e)
        /\ UNCHANGED <<queue, out, content, crashes>>
        /\ \A x \in Dev \ {d} : ring'[x] = ring[x] /\ log'[x] = log[x]
        /\ kr = ring[d] \/ (ring[d] # <<>> /\ kr = Tail(ring[d]))
        /\ kl = log[d] \/ kl = kr
    BY <1>1 DEF wroteBoth
  <2>2. queuedNow' = queuedNow /\ written' = written /\ failed' = failed
    BY <2>1 DEF queuedNow, written, failed
  <2>3. R!Ids(log'[d]) = R!Ids(kl) \cup {e.id}
    BY <2>1, DaemonAssumption, R!IdsAppend
  <2>4. Found(kr, R!Ids(log'[d]) \cup queuedNow \cup written \cup failed)
    <3>1. CASE kl = log[d]
      <4>1. Found(kr, place(d))
        BY <1>0, <2>1, FoundChanges DEF RingFound
      <4> QED
        BY <2>3, <3>1, <4>1 DEF Found
    <3>2. CASE kl = kr
      BY <2>3, <3>2 DEF Found, R!Ids
    <3> QED
      BY <2>1, <3>1, <3>2
  <2>5. Found(Append(kr, e), R!Ids(log'[d]) \cup queuedNow \cup written \cup failed)
    BY <2>3, <2>4, FoundChanges
  <2> QED
    BY <2>1, <2>2, <2>5 DEF RingFound
<1>2. ASSUME NEW d \in Dev, flushed(d) PROVE RingFound'
  <2>1. /\ ring'[d] = <<>> /\ UNCHANGED <<queue, out, content, crashes>>
        /\ \A x \in Dev \ {d} : ring'[x] = ring[x] /\ log'[x] = log[x]
    BY <1>2 DEF flushed
  <2>2. queuedNow' = queuedNow /\ written' = written /\ failed' = failed
    BY <2>1 DEF queuedNow, written, failed
  <2>3. \A ids : Found(<<>>, ids)
    BY EmptySeq DEF Found
  <2> QED
    BY <2>1, <2>2, <2>3 DEF RingFound
<1>3. ASSUME NEW d \in Dev, fetched(d) PROVE RingFound'
  <2>1. /\ ring' = ring /\ written' = written /\ failed' = failed
        /\ \A x \in Dev \ {d} : log'[x] = log[x] /\ queue'[x] = queue[x]
    BY <1>0, <1>3 DEF fetched, R!moved, written, failed
  <2>2. /\ R!Ids(log'[d]) = R!Ids(log[d]) \ {Head(log[d]).id}
        /\ R!Ids(queue'[d]) = R!Ids(queue[d]) \cup {Head(log[d]).id}
    <3>1. d \in R!Dev /\ R!moved(d) /\ R!TypeOK /\ R!Apart
      BY <1>0, <1>3 DEF fetched
    <3> HIDE DEF place
    <3> QED
      BY <3>1, DaemonAssumption, R!MovedIds
  <2>3. queuedNow \cup {Head(log[d]).id} \subseteq queuedNow'
    <3>1. \A x \in Dev : R!Ids(queue[x]) \subseteq R!Ids(queue'[x])
      BY <2>1, <2>2
    <3>2. Head(log[d]).id \in R!Ids(queue'[d])
      BY <2>2
    <3>3. queuedNow \subseteq queuedNow'
      BY <3>1, Zenon DEF queuedNow
    <3>4. Head(log[d]).id \in queuedNow'
      BY <3>2, Zenon DEF queuedNow
    <3> QED
      BY <3>3, <3>4
  <2>4. \A x \in Dev :
          place(x) \subseteq R!Ids(log'[x]) \cup queuedNow' \cup written' \cup failed'
    <3>1. \A x \in Dev : R!Ids(log[x]) \subseteq R!Ids(log'[x]) \cup {Head(log[d]).id}
      BY <2>1, <2>2
    <3> QED
      BY <2>1, <2>3, <3>1
  <2> QED
    BY <2>1, <2>4 DEF RingFound, Found
<1>4. ASSUME NEW d \in Dev, NEW kind \in R!Kind, NEW e \in R!Entry, emitted(d, kind, e)
      PROVE  RingFound'
  <2>1. /\ ring' = ring /\ log' = log /\ e = Head(queue[d]) /\ crashes' = crashes
        /\ R!left(d, kind) /\ queue[d] # <<>>
        /\ \A x \in Dev \ {d} : queue'[x] = queue[x]
    BY <1>0, <1>4 DEF emitted, R!left
  <2>2. R!Ids(queue'[d]) = R!Ids(queue[d]) \ {e.id} /\ e.id \in R!Ids(queue[d])
    <3>1. d \in R!Dev /\ R!left(d, kind) /\ R!TypeOK /\ R!Apart
      BY <1>0, <2>1
    <3>2. /\ Head(queue[d]).id \in R!Ids(queue[d])
          /\ R!Ids(queue'[d]) = R!Ids(queue[d]) \ {Head(queue[d]).id}
      BY <3>1, DequeuedId
    <3> QED
      BY <2>1, <3>2
  <2>3. queuedNow \ {e.id} \subseteq queuedNow'
    <3>1. \A x \in Dev : R!Ids(queue[x]) \ {e.id} \subseteq R!Ids(queue'[x])
      BY <2>1, <2>2
    <3>2. ASSUME NEW i \in queuedNow, i # e.id PROVE i \in queuedNow'
      <4>1. PICK x \in Dev : i \in R!Ids(queue[x])
        BY <3>2, Zenon DEF queuedNow
      <4>2. i \in R!Ids(queue'[x])
        BY <3>1, <3>2, <4>1
      <4> QED
        BY <4>2, Zenon DEF queuedNow
    <3> QED
      BY <3>2
  <2>6. failed \subseteq failed' /\ (kind = "error" => e.id \in failed')
    <3> DEFINE x == [kind |-> kind, dev |-> d, id |-> e.id, ts |-> e.ts,
                     hdr |-> R!maybePrintStart(d)]
    <3>1. out' = Append(out, x) /\ x.kind = kind /\ x.id = e.id
      BY <2>1 DEF R!left
    <3> HIDE DEF x
    <3>2. out \in Seq(R!Record \cup {x}) /\ x \in R!Record \cup {x}
      BY <1>0, SeqMonotonic DEF R!TypeOK
    <3> QED
      BY <3>1, <3>2, FailedAppend DEF failed
  <2>4. written \subseteq written' /\ (kind = "print" => e.id \in written')
    <3>1. CASE kind = "print"
      <4> DEFINE x == [id |-> e.id, ts |-> e.ts, life |-> crashes]
      <4>1. content' = Append(content, x)
        BY <1>4, <3>1 DEF emitted
      <4>2. x \in Line /\ x.life = crashes /\ x.id = e.id
        BY <1>0, <1>4 DEF Line, R!Entry
      <4> HIDE DEF x
      <4>3. content' \in Seq(Line)
        BY <1>0, <4>1, <4>2, AppendProperties
      <4>4. written = writtenBy(content, crashes) /\ written' = writtenBy(content', crashes)
        BY <1>0, <2>1, <4>3, WrittenIs DEF written
      <4> QED
        BY <1>0, <4>1, <4>2, <4>4, WrittenAppend
    <3>2. CASE kind # "print"
      BY <1>4, <2>1, <3>2 DEF emitted, written
    <3> QED
      BY <3>1, <3>2
  <2>5. ASSUME NEW c \in Dev, NEW i \in 1 .. Len(ring[c]), ring[c][i].show
        PROVE  ring[c][i].id \in R!Ids(log[c]) \cup queuedNow' \cup written' \cup failed'
    <3>1. ring[c][i].id \in place(c)
      BY <2>5 DEF RingFound, Found
    <3>2. CASE ring[c][i].id = e.id
      <4>1. 1 \in 1 .. Len(queue[d]) /\ e = queue[d][1]
        BY <1>0, <2>1, EmptySeq, HeadTailProperties
      <4>2. e.show = ring[c][i].show
        BY <3>2, <4>1 DEF SameVerdict, Same
      <4>3. kind \in {"print", "error"}
        BY <1>4, <2>5, <4>2 DEF emitted
      <4> QED
        BY <2>4, <2>6, <3>2, <4>3
    <3>3. CASE ring[c][i].id # e.id
      BY <2>3, <2>4, <2>6, <3>1, <3>3
    <3> QED
      BY <3>2, <3>3
  <2> QED
    BY <2>1, <2>5 DEF RingFound, Found
<1>5. ASSUME NEW rings, reborn(rings) PROVE RingFound'
  <2>1. ring' = log'
    BY <1>5 DEF reborn, forget
  <2> QED
    BY <2>1 DEF RingFound, Found, R!Ids
<1>6. CASE unmoved
  <2>1. UNCHANGED <<log, queue, ring, out, content, crashes>>
    BY <1>6 DEF unmoved
  <2>2. queuedNow' = queuedNow /\ written' = written /\ failed' = failed
    BY <2>1 DEF queuedNow, written, failed
  <2> HIDE DEF place
  <2> QED
    BY <2>1, <2>2 DEF RingFound
<1> QED
  BY <1>0, <1>1, <1>2, <1>3, <1>4, <1>5, <1>6, ServiceKinds

-----------------------------------------------------------------------------
(* The lines. *)

(* Each line of the process that runs is one of its reader's, in the      *)
(* order in which the reader put them out, and the lines of the ones      *)
(* before it are not touched any more.                                    *)
LEMMA LinesStep ==
  ASSUME ReaderInv, RingInv, UnreadInRing, LinesInv, O!OutputInv, [Next]_vars,
         ReaderInv'
  PROVE  LinesInv'
<1>0. /\ R!TypeOK /\ R!Dev = Dev /\ content \in Seq(Line) /\ Len(content) = nlines
      /\ crashes \in Nat /\ out \in Seq(R!Record) /\ Len(out) \in Nat
      /\ Len(content) \in Nat /\ \A a \in 1 .. Len(content) : content[a].life \in Nat
  <2>1. \A x \in Line : x.life \in Nat
    BY DEF Line
  <2> QED
    BY <2>1, LenProperties, ElementOfSeq
       DEF ReaderInv, R!MergeInv, R!TypeOK, R!Dev, Dev, LinesInv, LinesLinked,
           O!OutputInv, O!TypeOK
<1>1. ASSUME UNCHANGED <<out, content, crashes, nlines>> PROVE LinesInv'
  BY <1>1 DEF LinesInv, LinesLinked, LinesOrdered
<1>2. ASSUME NEW d \in Dev, NEW kind \in R!Kind, NEW e \in R!Entry, emitted(d, kind, e)
      PROVE  LinesInv'
  <2> DEFINE r == [kind |-> kind, dev |-> d, id |-> e.id, ts |-> e.ts,
                   hdr |-> R!maybePrintStart(d)]
             n == Len(out) + 1
             m == Len(content) + 1
             x == [id |-> e.id, ts |-> e.ts, life |-> crashes]
  <2>1. /\ out' = Append(out, r) /\ out' \in Seq(R!Record) /\ crashes' = crashes
    BY <1>2 DEF emitted, R!left
  <2>2. /\ r.id = e.id /\ r.ts = e.ts
        /\ x.id = e.id /\ x.ts = e.ts /\ x.life = crashes
    OBVIOUS
  <2>3. x \in Line
    BY <1>0, <1>2 DEF Line, R!Entry
  <2> HIDE DEF r, x
  <2>4. /\ Len(out') = n /\ out'[n] = r /\ \A j \in 1 .. Len(out) : out'[j] = out[j]
    <3>1. out \in Seq(R!Record \cup {r}) /\ r \in R!Record \cup {r}
      BY <1>0, SeqMonotonic
    <3> QED
      BY <2>1, <3>1, AppendProperties
  <2>5. n \in 1 .. Len(out') /\ \A j \in 1 .. Len(out) : j \in 1 .. Len(out') /\ j < n
    BY <1>0, <2>4
  <2>6. \A j \in 1 .. Len(out) : out[j].ts <= e.ts /\ out[j].id # e.id
    <3>1. DOMAIN out' = 1 .. Len(out')
      BY <2>1, LenProperties
    <3>2. R!OutputSorted' /\ R!Distinct(out)'
      BY DEF ReaderInv, R!MergeInv, R!Apart
    <3>3. \A j \in 1 .. Len(out) : out'[j].ts <= out'[n].ts
      BY <2>5, <3>1, <3>2 DEF R!OutputSorted
    <3>4. \A j \in 1 .. Len(out) : out'[j].id # out'[n].id
      BY <1>0, <2>5, <3>2 DEF R!Distinct
    <3> QED
      BY <2>2, <2>4, <3>3, <3>4
  <2>7. CASE kind # "print"
    <3>1. content' = content /\ nlines' = nlines
      BY <1>2, <2>7 DEF emitted
    <3>2. LinesLinked'
      BY <2>1, <2>4, <2>5, <3>1 DEF LinesInv, LinesLinked
    <3> QED
      BY <3>1, <3>2 DEF LinesInv, LinesOrdered
  <2>8. CASE kind = "print"
    <3>1. content' = Append(content, x) /\ nlines' = nlines + 1
      BY <1>2, <2>8 DEF emitted, x
    <3>2. /\ content' \in Seq(Line) /\ Len(content') = m /\ content'[m] = x
          /\ \A a \in 1 .. Len(content) : content'[a] = content[a]
      BY <1>0, <2>3, <3>1, AppendProperties
    <3>3. \A a \in 1 .. Len(content') : a \in 1 .. Len(content) \/ a = m
      BY <1>0, <3>2
    <3>4. \A a \in 1 .. Len(content) :
            /\ content[a].life <= crashes
            /\ content[a].life = crashes =>
                 \E j \in 1 .. Len(out) :
                   out[j].id = content[a].id /\ out[j].ts = content[a].ts
      BY DEF LinesInv, LinesLinked
    <3>5. \A a \in 1 .. Len(content') :
            /\ content'[a].life <= crashes'
            /\ content'[a].life = crashes' =>
                 \E j \in 1 .. Len(out') :
                   out'[j].id = content'[a].id /\ out'[j].ts = content'[a].ts
      <4>1. \A a \in 1 .. Len(content) : content'[a].life = crashes' =>
              \E j \in 1 .. Len(out') :
                out'[j].id = content'[a].id /\ out'[j].ts = content'[a].ts
        <5>1. ASSUME NEW a \in 1 .. Len(content), content'[a].life = crashes'
              PROVE  \E j \in 1 .. Len(out') :
                       out'[j].id = content'[a].id /\ out'[j].ts = content'[a].ts
          <6>1. PICK j \in 1 .. Len(out) :
                  out[j].id = content[a].id /\ out[j].ts = content[a].ts
            BY <2>1, <3>2, <3>4, <5>1
          <6>2. /\ j \in 1 .. Len(out') /\ out'[j].id = content'[a].id
                /\ out'[j].ts = content'[a].ts
            BY <2>4, <2>5, <3>2, <6>1
          <6> QED
            BY <6>2
        <5> QED
          BY <5>1
      <4>2. \A a \in 1 .. Len(content) : content'[a].life <= crashes'
        BY <2>1, <3>2, <3>4
      <4>3. content'[m].life <= crashes'
        BY <1>0, <2>1, <2>2, <3>2
      <4>4. out'[n].id = content'[m].id /\ out'[n].ts = content'[m].ts
        BY <2>2, <2>4, <3>2
      <4> QED
        BY <2>5, <3>3, <4>1, <4>2, <4>3, <4>4
    <3>6. LinesLinked'
      BY <1>0, <3>1, <3>2, <3>5 DEF LinesLinked
    <3>7. ASSUME NEW a \in 1 .. Len(content'), NEW b \in 1 .. Len(content'),
                 a < b, content'[a].life = content'[b].life
          PROVE  content'[a].ts <= content'[b].ts /\ content'[a].id # content'[b].id
      <4>1. CASE b \in 1 .. Len(content)
        <5>1. a \in 1 .. Len(content)
          BY <1>0, <3>7, <4>1
        <5> QED
          BY <3>2, <3>7, <4>1, <5>1 DEF LinesInv, LinesOrdered
      <4>2. CASE b = m
        <5>1. a \in 1 .. Len(content)
          BY <1>0, <3>2, <3>7, <4>2
        <5>2. content[a].life = crashes /\ content'[a] = content[a] /\ content'[b] = x
          BY <2>2, <3>2, <3>7, <4>2, <5>1
        <5>3. PICK j \in 1 .. Len(out) :
                out[j].id = content[a].id /\ out[j].ts = content[a].ts
          BY <3>4, <5>1, <5>2
        <5> QED
          BY <2>2, <2>6, <5>2, <5>3
      <4> QED
        BY <3>3, <4>1, <4>2
    <3> QED
      BY <3>6, <3>7 DEF LinesInv, LinesOrdered
  <2> QED
    BY <2>7, <2>8
<1>3. ASSUME NEW rings, reborn(rings) PROVE LinesInv'
  <2>1. content' = content /\ nlines' = nlines /\ crashes' = crashes + 1
    BY <1>3 DEF reborn, forget
  <2>2. \A a \in 1 .. Len(content) :
          content[a].life <= crashes + 1 /\ content[a].life # crashes + 1
    BY <1>0 DEF LinesInv, LinesLinked
  <2>3. LinesLinked'
    BY <1>0, <2>1, <2>2 DEF LinesLinked
  <2> QED
    BY <2>1, <2>3 DEF LinesInv, LinesOrdered
<1>4. ASSUME NEW d \in Dev, NEW e, NEW kl, NEW kr, wroteBoth(d, e, kl, kr)
      PROVE  UNCHANGED <<out, content, crashes, nlines>>
  BY <1>4 DEF wroteBoth
<1>5. ASSUME NEW d \in Dev, flushed(d) \/ fetched(d)
      PROVE  UNCHANGED <<out, content, crashes, nlines>>
  BY <1>5 DEF flushed, fetched, R!moved
<1>6. unmoved => UNCHANGED <<out, content, crashes, nlines>>
  BY DEF unmoved
<1> QED
  BY <1>0, <1>1, <1>2, <1>3, <1>4, <1>5, <1>6, ServiceKinds

-----------------------------------------------------------------------------
(* The service. *)

(* At the start rings, queues and files are empty. *)
LEMMA ServiceStarts == Init => ServiceInv
<1> SUFFICES ASSUME Init PROVE ServiceInv
  OBVIOUS
<1>1. /\ ring = [d \in Dev |-> <<>>] /\ content = <<>>
      /\ \A d \in Dev : ring[d] = <<>> /\ log[d] = <<>> /\ queue[d] = <<>>
      /\ nlines = 0
  BY DEF Init, Reader!Init, Reader!Dev, Dev, Output!Init
<1>2. ReaderInv /\ O!OutputInv
  BY ReaderStarts, OutputInductive
<1>3. RingInv
  BY <1>1, NoRings DEF RingInv
<1>4. UnreadInRing
  BY <1>1, EmptySeq, SuffixEnds DEF UnreadInRing
<1>5. Len(<<>>) = 0 /\ 1 .. 0 = {} /\ <<>> \in Seq(Line)
  BY EmptySeq
<1>6. SameVerdict /\ RingFound
  BY <1>1, <1>5 DEF SameVerdict, Same, RingFound, Found
<1>7. LinesInv
  BY <1>1, <1>5 DEF LinesInv, LinesLinked, LinesOrdered
<1>8. interrupted \in BOOLEAN
  BY DEF Init
<1> QED
  BY <1>2, <1>3, <1>4, <1>6, <1>7, <1>8 DEF ServiceInv

(* Every step of a writer, of the service, of its death and of its start  *)
(* keeps the invariant.                                                   *)
LEMMA ServiceStep == ServiceInv /\ [Next]_vars => ServiceInv'
<1> SUFFICES ASSUME ServiceInv, [Next]_vars PROVE ServiceInv'
  OBVIOUS
<1>1. /\ ReaderInv /\ O!OutputInv /\ RingInv /\ UnreadInRing
      /\ SameVerdict /\ RingFound /\ LinesInv /\ LinesLinked
      /\ interrupted \in BOOLEAN
  BY DEF ServiceInv, LinesInv
<1>2. ReaderInv'
  <2>1. CASE ~Die
    BY <1>1, <2>1, ReaderKept
  <2>2. CASE Die
    <3>1. PICK rings : forget(rings) /\ (rings = ring \/ rings = [d \in Dev |-> <<>>])
      BY <2>2, Zenon DEF Die
    <3>2. Rings(rings, clock, nwritten)
      BY <1>1, <3>1, NoRings DEF RingInv
    <3>3. R!TypeOK
      BY <1>1 DEF ReaderInv, R!MergeInv
    <3> QED
      BY <3>1, <3>2, <3>3, RestartInOrder
  <2> QED
    BY <2>1, <2>2
<1>3. O!OutputInv'
  BY <1>1, OutputInductive
<1>4. RingInv' /\ UnreadInRing'
  BY <1>1, RingsStep
<1>5. SameVerdict'
  BY <1>1, VerdictStep
<1>6. RingFound'
  BY <1>1, FoundStep
<1>7. LinesInv'
  BY <1>1, <1>2, LinesStep
<1>8. interrupted' \in BOOLEAN
  <2>1. UNCHANGED interrupted \/ interrupted' = TRUE \/ interrupted' = FALSE
    BY Zenon DEF Next, dlogutil, vars, Write, Clear, quietStep, readDone,
       readInterrupted, maybePrintStart, printNextEntry, rotate_logs, Die, forget,
       setup_output
  <2> QED
    BY <1>1, <2>1, Zenon
<1> QED
  BY <1>2, <1>3, <1>4, <1>5, <1>6, <1>7, <1>8 DEF ServiceInv

(* The invariant of the service holds in every state. *)
LEMMA ServiceInvariant == Spec => []ServiceInv
BY ServiceStarts, ServiceStep, PTL DEF Spec

(* TypeOK: reader and output keep their types in the composition, what is *)
(* unread is the newest part of the ring through writes, flushes and      *)
(* restarts, and every line has its entry.                                *)
THEOREM ServiceTypeCorrect == Spec => []TypeOK
<1>1. ASSUME ServiceInv PROVE TypeOK
  <2>1. R!TypeOK /\ O!TypeOK
    BY <1>1 DEF ServiceInv, ReaderInv, R!MergeInv, O!OutputInv
  <2>2. Reader!TypeOK
    BY <2>1 DEF Reader!TypeOK, R!TypeOK, Reader!Entry, R!Entry, Reader!Record,
                R!Record, Reader!Dev, R!Dev, Reader!Kind, R!Kind
  <2>3. Output!TypeOK
    BY <2>1 DEF Output!TypeOK, O!TypeOK, Output!Chain, O!Chain, Output!File, O!File
  <2>4. /\ \A d \in Dev : suffixOf(log[d], ring[d])
        /\ Len(content) = nlines /\ interrupted \in BOOLEAN
    BY <1>1 DEF ServiceInv, UnreadInRing, LinesInv, LinesLinked
  <2> QED
    BY <2>2, <2>3, <2>4 DEF TypeOK
<1> QED
  BY <1>1, ServiceInvariant, PTL

(* RingAccounted: an entry the rules let through and a ring still holds   *)
(* is unread, queued, written by the running process or one whose write   *)
(* failed there, with signals that cut a round of reads short, failing    *)
(* and partial writes, and wherever the process before it died: an        *)
(* unclean end of dlogutil loses nothing the kernel still has, and only a *)
(* failed write, which log_print_log_line swallows, gives an entry up.    *)
THEOREM RingEntriesAccounted == Spec => []RingAccounted
<1>1. ASSUME ServiceInv PROVE RingAccounted
  <2>1. RingFound /\ Reader!Dev = Dev /\ R!Dev = Dev
    BY <1>1 DEF ServiceInv, Reader!Dev, R!Dev, Dev
  <2>2. \A d \in Dev : /\ log[d] \in Seq(R!Entry) /\ queue[d] \in Seq(R!Entry)
                       /\ ring[d] \in Seq(R!Entry)
    BY <1>1, <2>1 DEF ServiceInv, ReaderInv, R!MergeInv, R!TypeOK, RingInv, Rings
  <2>3. \A d \in Dev : /\ DOMAIN log[d] = 1 .. Len(log[d])
                       /\ DOMAIN queue[d] = 1 .. Len(queue[d])
                       /\ DOMAIN ring[d] = 1 .. Len(ring[d])
    BY <2>2, LenProperties
  <2>4. \A d \in Dev : R!Ids(log[d]) \subseteq Reader!unreadIds
    <3>1. ASSUME NEW d \in Dev PROVE R!Ids(log[d]) = {log[d][i].id : i \in DOMAIN log[d]}
      BY <2>3 DEF R!Ids
    <3> QED
      BY <2>1, <3>1 DEF Reader!unreadIds
  <2>5. queuedNow \subseteq Reader!queuedIds
    <3>1. ASSUME NEW d \in Dev
          PROVE  R!Ids(queue[d]) = {queue[d][i].id : i \in DOMAIN queue[d]}
      BY <2>3 DEF R!Ids
    <3> QED
      BY <2>1, <3>1 DEF Reader!queuedIds, queuedNow
  <2>6. ASSUME NEW d \in Dev, NEW i \in DOMAIN ring[d], ring[d][i].show
        PROVE  ring[d][i].id \in
                 Reader!unreadIds \cup Reader!queuedIds \cup written \cup failed
    <3>1. ring[d][i].id \in R!Ids(log[d]) \cup queuedNow \cup written \cup failed
      BY <2>1, <2>3, <2>6, Zenon DEF RingFound, Found
    <3> QED
      BY <2>4, <2>5, <3>1
  <2> QED
    BY <2>6 DEF RingAccounted
<1> QED
  BY <1>1, ServiceInvariant, PTL

(* DiskOrdered: the lines of one process, read over all the files of the  *)
(* rotation from the oldest to the active one, are in timestamp order and *)
(* none is there twice, whatever rename failed and wherever a process     *)
(* before it died.                                                        *)
THEOREM DiskStaysOrdered == Spec => []DiskOrdered
<1>1. ASSUME ServiceInv PROVE DiskOrdered
  <2>1. /\ O!TypeOK /\ O!LinesWritten /\ O!FilesOrdered /\ LinesOrdered
        /\ Len(content) = nlines
    BY <1>1 DEF ServiceInv, O!OutputInv, LinesInv, LinesLinked
  <2>2. DOMAIN files = O!Chain /\ nlines \in Nat
    BY <2>1 DEF O!TypeOK
  <2>3. \A i \in O!Chain : files[i].lines \subseteq 1 .. Len(content)
    BY <2>1 DEF O!LinesWritten
  <2>4. ASSUME NEW a, NEW b, inFront(a, b)
        PROVE  a \in 1 .. Len(content) /\ b \in 1 .. Len(content) /\ a < b
    <3>1. PICK i \in O!Chain, j \in O!Chain :
            a \in files[i].lines /\ b \in files[j].lines /\ (i > j \/ (i = j /\ a < b))
      BY <2>2, <2>4 DEF inFront
    <3>2. a \in 1 .. Len(content) /\ b \in 1 .. Len(content)
      BY <2>3, <3>1
    <3>3. CASE i > j
      <4>1. j < i
        BY <3>3, DaemonAssumption DEF O!Chain
      <4> QED
        BY <2>1, <3>1, <3>2, <4>1 DEF O!FilesOrdered
    <3> QED
      BY <3>1, <3>2, <3>3
  <2> QED
    BY <2>1, <2>4 DEF DiskOrdered, LinesOrdered
<1> QED
  BY <1>1, ServiceInvariant, PTL
=============================================================================
