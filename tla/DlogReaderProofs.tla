-------------------------- MODULE DlogReaderProofs --------------------------
(***************************************************************************)
(* Proofs about DlogReader, for any number of devices, any ring size and   *)
(* any number of writes.                                                   *)
(***************************************************************************)
EXTENDS DlogReader, TLAPS, SequenceTheorems, WellFoundedInduction

USE DEF Dev

-----------------------------------------------------------------------------
(* Lemmas about the operators of the model *)

(* A nonempty set of naturals has a least element. *)
LEMMA LeastNatural ==
  ASSUME NEW T, T \subseteq Nat, T # {}
  PROVE  \E x \in T : \A y \in T : x <= y
<1>1. \E x \in T : \A y \in T : ~(<<y, x>> \in OpToRel(<, Nat))
  BY NatLessThanWellFounded, WFMin
<1>2. \A x, y \in Nat : <<y, x>> \notin OpToRel(<, Nat) => x <= y
  BY DEF OpToRel
<1> QED
  BY <1>1, <1>2

(* Inserting an element makes a sequence one longer. *)
LEMMA InsertType ==
  ASSUME NEW S, NEW q \in Seq(S), NEW e \in S, NEW at \in 1 .. Len(q) + 1
  PROVE  /\ SubSeq(q, 1, at - 1) \o <<e>> \o SubSeq(q, at, Len(q)) \in Seq(S)
         /\ Len(SubSeq(q, 1, at - 1) \o <<e>> \o SubSeq(q, at, Len(q))) = Len(q) + 1
<1> DEFINE front == SubSeq(q, 1, at - 1)
           back == SubSeq(q, at, Len(q))
<1>0. Len(q) \in Nat /\ at \in Nat /\ \A i \in 1 .. Len(q) : q[i] \in S
  BY LenProperties, ElementOfSeq
<1>1. front \in Seq(S) /\ Len(front) = at - 1
  BY <1>0, SubSeqProperties
<1>2. back \in Seq(S) /\ Len(back) = Len(q) + 1 - at
  BY <1>0, SubSeqProperties
<1>3. <<e>> \in Seq(S) /\ Len(<<e>>) = 1
  OBVIOUS
<1> HIDE DEF front, back
<1>4. front \o <<e>> \in Seq(S) /\ Len(front \o <<e>>) = at
  BY <1>0, <1>1, <1>3, ConcatProperties
<1>5. /\ front \o <<e>> \o back \in Seq(S)
      /\ Len(front \o <<e>> \o back) = at + Len(back)
  BY <1>2, <1>4, ConcatProperties
<1>6. at + Len(back) = Len(q) + 1
  BY <1>0, <1>2
<1> QED
  BY <1>5, <1>6 DEF front, back

(* The place enqueue looks for exists, so a queue stays a sequence of     *)
(* entries, one longer.                                                   *)
LEMMA EnqueueType ==
  ASSUME NEW q \in Seq(Entry), NEW e \in Entry
  PROVE  enqueue(q, e) \in Seq(Entry) /\ Len(enqueue(q, e)) = Len(q) + 1
<1> DEFINE Fits(i) == /\ \A j \in 1 .. i - 1 : cmp(e, q[j]) >= 0
                      /\ i <= Len(q) => cmp(e, q[i]) < 0
           Later == {i \in 1 .. Len(q) + 1 : i <= Len(q) => cmp(e, q[i]) < 0}
           at == CHOOSE i \in 1 .. Len(q) + 1 : Fits(i)
<1>0. Len(q) \in Nat /\ \A i \in 1 .. Len(q) : q[i] \in Entry
  BY LenProperties, ElementOfSeq
<1>1. \E i \in 1 .. Len(q) + 1 : Fits(i)
  <2>1. Later \subseteq Nat /\ Len(q) + 1 \in Later
    BY <1>0
  <2>2. PICK i \in Later : \A k \in Later : i <= k
    BY <2>1, LeastNatural
  <2>3. \A j \in 1 .. i - 1 : cmp(e, q[j]) >= 0
    <3> TAKE j \in 1 .. i - 1
    <3>1. i \in 1 .. Len(q) + 1 /\ j \in 1 .. Len(q)
      BY <1>0, <2>2
    <3>2. j \notin Later
      BY <1>0, <2>2, <3>1
    <3>3. ~(cmp(e, q[j]) < 0) /\ cmp(e, q[j]) \in Int
      BY <1>0, <3>1, <3>2 DEF cmp, Entry
    <3> QED
      BY <3>3
  <2> QED
    BY <2>2, <2>3
<1>2. at \in 1 .. Len(q) + 1
  BY <1>1
<1> HIDE DEF at, Fits
<1>3. enqueue(q, e) = SubSeq(q, 1, at - 1) \o <<e>> \o SubSeq(q, at, Len(q))
  BY DEF enqueue, at, Fits
<1>4. /\ SubSeq(q, 1, at - 1) \o <<e>> \o SubSeq(q, at, Len(q)) \in Seq(Entry)
      /\ Len(SubSeq(q, 1, at - 1) \o <<e>> \o SubSeq(q, at, Len(q))) = Len(q) + 1
  BY <1>2, InsertType
<1> QED
  BY <1>3, <1>4

(* An entry that is not older than the queue goes to its end. *)
LEMMA EnqueueLatest ==
  ASSUME NEW q \in Seq(Entry), NEW e \in Entry,
         \A i \in 1 .. Len(q) : q[i].ts <= e.ts
  PROVE  enqueue(q, e) = Append(q, e)
<1> DEFINE at == CHOOSE i \in 1 .. Len(q) + 1 :
                   /\ \A j \in 1 .. i - 1 : cmp(e, q[j]) >= 0
                   /\ i <= Len(q) => cmp(e, q[i]) < 0
<1>0. Len(q) \in Nat /\ \A i \in 1 .. Len(q) : q[i] \in Entry
  BY LenProperties, ElementOfSeq
<1>1. \A j \in 1 .. Len(q) : cmp(e, q[j]) >= 0 /\ ~(cmp(e, q[j]) < 0)
  BY <1>0 DEF cmp, Entry
<1>2. at = Len(q) + 1
  BY <1>0, <1>1
<1> HIDE DEF at
<1>3. enqueue(q, e) = SubSeq(q, 1, at - 1) \o <<e>> \o SubSeq(q, at, Len(q))
  BY DEF enqueue, at
<1>4. SubSeq(q, 1, at - 1) = q /\ SubSeq(q, at, Len(q)) = <<>>
  BY <1>0, <1>2, SubSeqFull, SubSeqEmpty
<1>5. q \o <<e>> = Append(q, e) /\ Append(q, e) \in Seq(Entry)
  BY AppendIsConcat, AppendProperties
<1> QED
  BY <1>3, <1>4, <1>5, ConcatEmptySeq

(* chooseFirst answers 0 exactly when every queue is empty, and otherwise *)
(* names a queue whose head is oldest.                                    *)
LEMMA ChooseFirst ==
  ASSUME NEW q \in [Dev -> Seq(Entry)]
  PROVE  /\ chooseFirst(q) = 0 <=> \A d \in Dev : q[d] = <<>>
         /\ chooseFirst(q) # 0 =>
              /\ chooseFirst(q) \in Dev
              /\ q[chooseFirst(q)] # <<>>
              /\ \A d \in Dev : q[d] # <<>> =>
                   Head(q[chooseFirst(q)]).ts <= Head(q[d]).ts
<1> DEFINE holders == {d \in Dev : q[d] # <<>>}
           First(d) == \A x \in holders :
                         IF x < d THEN cmp(Head(q[d]), Head(q[x])) < 0
                                  ELSE cmp(Head(q[d]), Head(q[x])) <= 0
<1>0. \A d \in holders : Head(q[d]) \in Entry /\ Head(q[d]).ts \in Nat
  <2> TAKE d \in holders
  <2>1. q[d] \in Seq(Entry) /\ q[d] # <<>>
    OBVIOUS
  <2>2. Head(q[d]) \in Entry
    BY <2>1, HeadTailProperties
  <2> QED
    BY <2>2 DEF Entry
<1>1. CASE holders = {}
  BY <1>1 DEF chooseFirst
<1>2. CASE holders # {}
  <2> DEFINE stamps == {Head(q[d]).ts : d \in holders}
  <2>1. PICK t \in stamps : \A u \in stamps : t <= u
    <3>1. stamps \subseteq Nat /\ stamps # {}
      BY <1>0, <1>2
    <3> HIDE DEF stamps
    <3> QED
      BY <3>1, LeastNatural
  <2> DEFINE oldest == {d \in holders : Head(q[d]).ts = t}
  <2>2. oldest \subseteq Nat /\ oldest # {}
    <3>1. \E d \in holders : Head(q[d]).ts = t
      BY <2>1
    <3>2. Dev \subseteq Nat
      BY DevicesAssumption
    <3> QED
      BY <3>1, <3>2
  <2>3. PICK d \in oldest : \A x \in oldest : d <= x
    BY <2>2, LeastNatural
  <2>4. d \in holders /\ First(d)
    <3>1. SUFFICES ASSUME NEW x \in holders
                   PROVE  IF x < d THEN cmp(Head(q[d]), Head(q[x])) < 0
                                   ELSE cmp(Head(q[d]), Head(q[x])) <= 0
      BY <2>3
    <3>2. Head(q[x]).ts \in stamps /\ t <= Head(q[x]).ts /\ t \in Nat
      BY <1>0, <2>1
    <3>3. x < d => x \notin oldest
      BY <2>2, <2>3, DevicesAssumption
    <3>4. x < d => Head(q[x]).ts # t
      BY <3>3
    <3> QED
      BY <1>0, <2>3, <3>2, <3>4 DEF cmp
  <2>5. chooseFirst(q) = CHOOSE y \in holders : First(y)
    BY <1>2 DEF chooseFirst
  <2>6. chooseFirst(q) \in holders /\ First(chooseFirst(q))
    BY <2>4, <2>5
  <2>7. \A x \in holders : Head(q[chooseFirst(q)]).ts <= Head(q[x]).ts
    BY <1>0, <2>6 DEF cmp
  <2> QED
    BY <2>6, <2>7, DevicesAssumption
<1> QED
  BY <1>1, <1>2

-----------------------------------------------------------------------------
(* Type correctness *)

(* What the dequeuing operations do to the types. *)
LEMMA DequeueType ==
  ASSUME TypeOK, NEW d \in Dev, queue[d] # <<>>, NEW kind \in Kind,
         dequeue(d, kind)
  PROVE  /\ queue' \in [Dev -> Seq(Entry)] /\ printed' \in [Dev -> BOOLEAN]
         /\ queued_lines' \in Int /\ out' \in Seq(Record) /\ taken' \subseteq Nat
<1> DEFINE r == [kind |-> kind, dev |-> d, id |-> Head(queue[d]).id,
                 ts |-> Head(queue[d]).ts, hdr |-> maybePrintStart(d)]
<1>1. Head(queue[d]) \in Entry /\ Tail(queue[d]) \in Seq(Entry)
  BY HeadTailProperties DEF TypeOK
<1>2. maybePrintStart(d) \in BOOLEAN
  BY DEF maybePrintStart
<1>3. r \in Record
  BY <1>1, <1>2 DEF Record, Entry
<1> HIDE DEF r
<1>4. out' = Append(out, r)
  BY DEF dequeue, r
<1>5. out' \in Seq(Record)
  BY <1>3, <1>4, AppendProperties DEF TypeOK
<1>6. queue' \in [Dev -> Seq(Entry)]
  BY <1>1 DEF dequeue, TypeOK
<1>7. printed' \in [Dev -> BOOLEAN]
  BY DEF dequeue, TypeOK
<1> QED
  BY <1>5, <1>6, <1>7 DEF dequeue, TypeOK

(* Printing and skipping both dequeue, with one of the four outcomes. *)
LEMMA PrintOrSkip ==
  ASSUME TypeOK, NEW d \in Dev, NEW b \in BOOLEAN,
         IF b THEN printNextEntry(d) ELSE skipNextEntry(d)
  PROVE  \E kind \in Kind : dequeue(d, kind)
BY DEF printNextEntry, skipNextEntry, processBuffer, Kind

(* read_log_lines starts in a state of the right type. *)
LEMMA TypeOKInit == Init => TypeOK
<1> SUFFICES ASSUME Init PROVE TypeOK
  OBVIOUS
<1>1. <<>> \in Seq(Entry) /\ <<>> \in Seq(Record)
  BY EmptySeq
<1>2. printed \in [Dev -> BOOLEAN]
  BY DEF Init
<1>3. log \in [Dev -> Seq(Entry)] /\ queue \in [Dev -> Seq(Entry)]
  BY <1>1 DEF Init
<1>4. 1 \in 1 .. DevCount + 1 /\ 0 \in Nat /\ 0 \in Int
  BY DevicesAssumption
<1> QED
  BY <1>1, <1>2, <1>3, <1>4 DEF Init, TypeOK

(* Every step of the writers, a clearing dlogutil and the reader keeps it. *)
LEMMA TypeOKStep == TypeOK /\ [Next]_vars => TypeOK'
<1> SUFFICES ASSUME TypeOK, [Next]_vars PROVE TypeOK'
  OBVIOUS
<1> USE DevicesAssumption
<1>0. 1 \in 1 .. DevCount + 1
  OBVIOUS
<1>1. CASE UNCHANGED vars
  BY <1>1 DEF TypeOK, vars
<1>2. ASSUME NEW d \in Dev, NEW show \in Shows, Write(d, show) PROVE TypeOK'
  <2> PICK now \in 0 .. MaxClock : clock' = now
        /\ log' = [log EXCEPT ![d] =
                    (IF Len(log[d]) < RingCap THEN log[d] ELSE Tail(log[d]))
                      \o <<[id |-> nwritten + 1, ts |-> now, show |-> show]>>]
    BY <1>2 DEF Write
  <2> DEFINE e == [id |-> nwritten + 1, ts |-> now, show |-> show]
             kept == IF Len(log[d]) < RingCap THEN log[d] ELSE Tail(log[d])
  <2>1. e \in Entry /\ now \in Nat
    BY BoundsAssumption, SwitchAssumption DEF Entry, TypeOK
  <2>2. kept \in Seq(Entry)
    <3>1. log[d] \in Seq(Entry)
      BY DEF TypeOK
    <3>2. log[d] = <<>> => Len(log[d]) < RingCap
      BY BoundsAssumption, EmptySeq
    <3> QED
      BY <3>1, <3>2, HeadTailProperties
  <2> HIDE DEF e, kept
  <2>3. kept \o <<e>> \in Seq(Entry)
    BY <2>1, <2>2, ConcatProperties
  <2>4. log' = [log EXCEPT ![d] = kept \o <<e>>]
    BY DEF e, kept
  <2>5. log' \in [Dev -> Seq(Entry)]
    BY <2>3, <2>4 DEF TypeOK
  <2> QED
    BY <1>2, <2>1, <2>5 DEF Write, TypeOK, queues
<1>3. ASSUME NEW d \in Dev, clear_log(d) PROVE TypeOK'
  BY <1>3, EmptySeq DEF clear_log, TypeOK, queues
<1>4. CASE PollDevice
  <2>1. readset' \subseteq Dev /\ dev' \in 1 .. DevCount + 1
    BY <1>4 DEF PollDevice, TypeOK
  <2> QED
    BY <1>4, <2>1 DEF PollDevice, TypeOK, queues, devices
<1>5. CASE SelectReady
  BY <1>5 DEF SelectReady, TypeOK, queues, devices
<1>6. CASE SelectWakes
  BY <1>6 DEF SelectWakes, TypeOK, queues, devices
<1>7. CASE SelectTimeout
  BY <1>7 DEF SelectTimeout, TypeOK, queues, devices
<1>8. CASE Read
  <2>1. dev \in Dev /\ log[dev] \in Seq(Entry) /\ log[dev] # <<>>
    BY <1>8 DEF Read, TypeOK
  <2>2. Head(log[dev]) \in Entry /\ Tail(log[dev]) \in Seq(Entry)
    BY <2>1, HeadTailProperties
  <2>3. enqueue(queue[dev], Head(log[dev])) \in Seq(Entry)
    BY <2>1, <2>2, EnqueueType DEF TypeOK
  <2>4. log' \in [Dev -> Seq(Entry)] /\ queue' \in [Dev -> Seq(Entry)]
    BY <1>8, <2>2, <2>3 DEF Read, TypeOK
  <2>5. taken' \subseteq Nat
    BY <1>8, <2>2 DEF Read, TypeOK, Entry
  <2> QED
    BY <1>8, <2>1, <2>4, <2>5 DEF Read, TypeOK
<1>9. CASE NotReadable
  BY <1>9 DEF NotReadable, TypeOK, queues, devices
<1>10. CASE ReadInterrupted
  <2>1. pc' = "poll" /\ dev' = 1 /\ readset' = {}
    BY <1>10 DEF ReadInterrupted, nextRound
  <2>2. UNCHANGED <<devices, queues, sleep>>
    BY <1>10 DEF ReadInterrupted
  <2> QED
    BY <1>0, <2>1, <2>2 DEF TypeOK, queues, devices
<1>11. CASE ReadFails
  BY <1>11 DEF ReadFails, TypeOK, queues, devices
<1>12. CASE ReadDone
  BY <1>12 DEF ReadDone, TypeOK, queues, devices
<1>13. CASE Emit
  <2> DEFINE d == chooseFirst(queue)
  <2>1. d \in Dev /\ queue[d] # <<>>
    BY <1>13, ChooseFirst DEF Emit, mayEmit, TypeOK
  <2> HIDE DEF d
  <2>2. PICK kind \in Kind : dequeue(d, kind)
    BY <1>13, <2>1, PrintOrSkip DEF Emit, d
  <2>3. UNCHANGED <<devices, sleep, pc, dev, readset>>
    BY <1>13 DEF Emit
  <2> QED
    BY <2>1, <2>2, <2>3, DequeueType DEF TypeOK, devices
<1>14. CASE EmitDone
  BY <1>14 DEF EmitDone, nextRound, TypeOK, queues, devices
<1>15. CASE Drain
  <2> DEFINE d == chooseFirst(queue)
  <2>1. d \in Dev /\ queue[d] # <<>>
    BY <1>15, ChooseFirst DEF Drain, TypeOK
  <2> HIDE DEF d
  <2>2. PICK kind \in Kind : dequeue(d, kind)
    BY <1>15, <2>1, PrintOrSkip DEF Drain, d, tailPrints
  <2>3. UNCHANGED <<devices, sleep, pc, dev, readset>>
    BY <1>15 DEF Drain
  <2> QED
    BY <2>1, <2>2, <2>3, DequeueType DEF TypeOK, devices
<1>16. CASE DrainDone
  <2>1. UNCHANGED <<devices, queues, sleep>>
    BY <1>16 DEF DrainDone
  <2>2. /\ pc' \in {"poll", "exit"}
        /\ dev' \in 1 .. DevCount + 1
        /\ readset' \subseteq Dev
    BY <1>0, <1>16 DEF DrainDone, nextRound, TypeOK
  <2> QED
    BY <2>1, <2>2 DEF TypeOK, queues, devices
<1>17. CASE OutputFails
  BY <1>17 DEF OutputFails, TypeOK, queues, devices
<1> QED
  BY <1>1, <1>2, <1>3, <1>4, <1>5, <1>6, <1>7, <1>8, <1>9, <1>10, <1>11, <1>12,
     <1>13, <1>14, <1>15, <1>16, <1>17 DEF Next, read_log_lines

(* Type correctness, for every number of devices and every option. *)
THEOREM TypeCorrect == Spec => []TypeOK
BY TypeOKInit, TypeOKStep, PTL DEF Spec

-----------------------------------------------------------------------------
(* The order of the output.                                               *)
(*                                                                        *)
(* OutputSorted says nothing of the entries still on their way.  What is  *)
(* inductive is that everything dequeued is at most as young as anything  *)
(* queued or unread (Emitted), that a device's queue followed by its      *)
(* unread entries is sorted (InOrder), and, for entries of one device     *)
(* against the unread ones of another, what the round in progress has     *)
(* established (Window): once a device was polled and found empty, what   *)
(* it holds now was written later than all that was queued at that time,  *)
(* and each queue gains at most its last entry until the emit loop ends.  *)

Sorted(s) == \A i, j \in 1 .. Len(s) : i <= j => s[i].ts <= s[j].ts
Upto(s, now) == \A i \in 1 .. Len(s) : s[i].ts <= now
From(now, s) == \A i \in 1 .. Len(s) : now <= s[i].ts
Below(s, t) == \A i \in 1 .. Len(s), j \in 1 .. Len(t) : s[i].ts <= t[j].ts
ButLastBelow(s, t) ==
  \A i \in 1 .. Len(s), j \in 1 .. Len(t) : i < Len(s) => s[i].ts <= t[j].ts

InOrder ==
  \A d \in Dev : /\ Sorted(queue[d]) /\ Sorted(log[d])
                 /\ Below(queue[d], log[d])
                 /\ Upto(queue[d], clock) /\ Upto(log[d], clock)

Emitted ==
  /\ Upto(out, clock)
  /\ \A d \in Dev : Below(out, queue[d]) /\ Below(out, log[d])

PollWindow == \A a \in Dev, b \in (1 .. dev - 1) \ readset : Below(queue[a], log[b])

ReadWindow ==
  /\ \A a \in Dev, b \in Dev \ readset :
       /\ ButLastBelow(queue[a], log[b])
       /\ ~(a \in readset /\ a < dev) => Below(queue[a], log[b])
  /\ \A a \in readset : a < dev => queue[a] # <<>>

EmitWindow ==
  \A a, b \in Dev : queue[b] = <<>> => ButLastBelow(queue[a], log[b])

DrainWindow == \A a, b \in Dev : Below(queue[a], log[b])

Window ==
  /\ pc = "poll" => PollWindow
  /\ pc = "read" => ReadWindow
  /\ pc = "emit" => EmitWindow
  /\ pc = "drain" => DrainWindow

MergeInv == TypeOK /\ InOrder /\ Emitted /\ OutputSorted /\ Window

-----------------------------------------------------------------------------
(* How the order of sequences survives their changes.  Stamped is a       *)
(* sequence of things with a timestamp: entries or records.               *)

Stamped(s) == Len(s) \in Nat /\ \A i \in 1 .. Len(s) : s[i].ts \in Nat

(* The queues and the devices hold entries with a timestamp. *)
LEMMA EntriesStamped ==
  ASSUME NEW s \in Seq(Entry) PROVE Stamped(s)
<1>1. Len(s) \in Nat /\ \A i \in 1 .. Len(s) : s[i] \in Entry
  BY LenProperties, ElementOfSeq
<1>2. \A e \in Entry : e.ts \in Nat
  BY DEF Entry
<1> QED
  BY <1>1, <1>2 DEF Stamped

(* So does the output. *)
LEMMA RecordsStamped ==
  ASSUME NEW s \in Seq(Record) PROVE Stamped(s)
<1>1. Len(s) \in Nat /\ \A i \in 1 .. Len(s) : s[i] \in Record
  BY LenProperties, ElementOfSeq
<1>2. \A e \in Record : e.ts \in Nat
  BY DEF Record
<1> QED
  BY <1>1, <1>2 DEF Stamped

(* An empty sequence is in any order with another. *)
LEMMA OrderOfEmpty ==
  ASSUME NEW t
  PROVE  /\ Below(<<>>, t) /\ Below(t, <<>>) /\ Sorted(<<>>)
         /\ ButLastBelow(t, <<>>) /\ ButLastBelow(<<>>, t)
         /\ \A now : Upto(<<>>, now)
<1>1. 1 .. Len(<<>>) = {}
  BY EmptySeq
<1> QED
  BY <1>1 DEF Below, Sorted, ButLastBelow, Upto

(* Taking the head away keeps the order: a read, a lapping ring, a dequeue. *)
LEMMA OrderOfTail ==
  ASSUME NEW s \in Seq(Entry), s # <<>>, NEW t, Stamped(t)
  PROVE  /\ Below(s, t) => Below(Tail(s), t)
         /\ Below(t, s) => Below(t, Tail(s))
         /\ ButLastBelow(s, t) => ButLastBelow(Tail(s), t)
         /\ ButLastBelow(t, s) => ButLastBelow(t, Tail(s))
         /\ Sorted(s) => Sorted(Tail(s))
         /\ \A now : Upto(s, now) => Upto(Tail(s), now)
<1>1. Len(s) \in Nat /\ Len(s) # 0
  BY LenProperties, EmptySeq
<1>2. Len(Tail(s)) = Len(s) - 1
  BY HeadTailProperties
<1>3. \A i \in 1 .. Len(s) - 1 : Tail(s)[i] = s[i + 1] /\ i + 1 \in 1 .. Len(s)
  BY <1>1, <1>2, HeadTailProperties
<1>4. Below(s, t) => Below(Tail(s), t)
  BY <1>1, <1>2, <1>3 DEF Below
<1>5. Below(t, s) => Below(t, Tail(s))
  BY <1>1, <1>2, <1>3 DEF Below
<1>6. ButLastBelow(s, t) => ButLastBelow(Tail(s), t)
  BY <1>1, <1>2, <1>3 DEF ButLastBelow
<1>7. ButLastBelow(t, s) => ButLastBelow(t, Tail(s))
  BY <1>1, <1>2, <1>3 DEF ButLastBelow
<1>8. Sorted(s) => Sorted(Tail(s))
  BY <1>1, <1>2, <1>3 DEF Sorted
<1>9. \A now : Upto(s, now) => Upto(Tail(s), now)
  BY <1>1, <1>2, <1>3 DEF Upto
<1> QED
  BY <1>4, <1>5, <1>6, <1>7, <1>8, <1>9

(* Appending e keeps one sequence below another when e fits in between. *)
LEMMA OrderOfAppend ==
  ASSUME NEW S, NEW s \in Seq(S), NEW e \in S, NEW t, Stamped(s), Stamped(t),
         e.ts \in Nat
  PROVE  /\ Below(s, t) /\ From(e.ts, t) => Below(Append(s, e), t)
         /\ Below(t, s) /\ Upto(t, e.ts) => Below(t, Append(s, e))
         /\ Below(s, t) => ButLastBelow(Append(s, e), t)
         /\ ButLastBelow(t, s) /\ Upto(t, e.ts) => ButLastBelow(t, Append(s, e))
<1> DEFINE a == Append(s, e)
<1>1. Len(s) \in Nat /\ Len(a) = Len(s) + 1
  BY AppendProperties, LenProperties
<1>2. \A i \in 1 .. Len(a) :
        \/ i \in 1 .. Len(s) /\ a[i] = s[i]
        \/ i = Len(s) + 1 /\ a[i] = e
  BY <1>1, AppendProperties
<1> HIDE DEF a
<1>3. Below(s, t) /\ From(e.ts, t) => Below(a, t)
  BY <1>1, <1>2 DEF Below, From
<1>4. Below(t, s) /\ Upto(t, e.ts) => Below(t, a)
  BY <1>1, <1>2 DEF Below, Upto
<1>5. Below(s, t) => ButLastBelow(a, t)
  BY <1>1, <1>2 DEF Below, ButLastBelow
<1>6. ButLastBelow(t, s) /\ Upto(t, e.ts) => ButLastBelow(t, a)
  BY <1>1, <1>2 DEF Upto, ButLastBelow
<1> QED
  BY <1>3, <1>4, <1>5, <1>6 DEF a

(* Appending a youngest element keeps a sequence sorted. *)
LEMMA SortedAppend ==
  ASSUME NEW S, NEW s \in Seq(S), NEW e \in S, Stamped(s), e.ts \in Nat
  PROVE  /\ Sorted(s) /\ Upto(s, e.ts) => Sorted(Append(s, e))
         /\ \A now : Upto(s, now) /\ e.ts <= now => Upto(Append(s, e), now)
<1> DEFINE a == Append(s, e)
<1>1. Len(s) \in Nat /\ Len(a) = Len(s) + 1
  BY AppendProperties, LenProperties
<1>2. \A i \in 1 .. Len(a) :
        \/ i \in 1 .. Len(s) /\ a[i] = s[i]
        \/ i = Len(s) + 1 /\ a[i] = e
  BY <1>1, AppendProperties
<1> HIDE DEF a
<1>3. Sorted(s) /\ Upto(s, e.ts) => Sorted(a)
  <2> SUFFICES ASSUME Sorted(s), Upto(s, e.ts),
                      NEW i \in 1 .. Len(a), NEW j \in 1 .. Len(a), i <= j
               PROVE  a[i].ts <= a[j].ts
    BY DEF Sorted
  <2> QED
    BY <1>1, <1>2 DEF Sorted, Upto, Stamped
<1>4. \A now : Upto(s, now) /\ e.ts <= now => Upto(a, now)
  BY <1>1, <1>2 DEF Upto
<1> QED
  BY <1>3, <1>4 DEF a

(* A lower bound may be lowered. *)
LEMMA FromWeakens ==
  ASSUME NEW t \in Nat, NEW u \in Nat, u <= t, NEW s, Stamped(s), From(t, s)
  PROVE  From(u, s)
BY DEF From, Stamped

(* Being below with all elements is being below with all but the last. *)
LEMMA BelowButLast ==
  ASSUME NEW s, NEW t, Below(s, t), Len(s) \in Nat
  PROVE  ButLastBelow(s, t)
BY DEF Below, ButLastBelow

(* The head of a sorted sequence is a least element. *)
LEMMA HeadLeast ==
  ASSUME NEW s \in Seq(Entry), s # <<>>, Sorted(s)
  PROVE  /\ Head(s) = s[1] /\ 1 \in 1 .. Len(s)
         /\ From(Head(s).ts, s)
         /\ From(Head(s).ts, Tail(s))
<1>1. Len(s) \in Nat /\ Len(s) # 0 /\ Head(s) = s[1]
  BY LenProperties, EmptySeq
<1>2. From(Head(s).ts, s)
  BY <1>1 DEF Sorted, From
<1>3. Len(Tail(s)) = Len(s) - 1 /\ \A i \in 1 .. Len(s) - 1 : Tail(s)[i] = s[i + 1]
  BY HeadTailProperties
<1>4. From(Head(s).ts, Tail(s))
  BY <1>1, <1>2, <1>3 DEF From
<1> QED
  BY <1>1, <1>2, <1>4

-----------------------------------------------------------------------------
(* One lemma for each kind of change of the devices, queues and output. *)

(* Types as the ordering lemmas want them. *)
LEMMA AllStamped ==
  ASSUME TypeOK
  PROVE  /\ \A d \in Dev : /\ queue[d] \in Seq(Entry) /\ Stamped(queue[d])
                           /\ log[d] \in Seq(Entry) /\ Stamped(log[d])
         /\ out \in Seq(Record) /\ Stamped(out)
         /\ clock \in Nat
BY EntriesStamped, RecordsStamped DEF TypeOK

(* A write whose timestamp is not below the clock: the new entry is the   *)
(* youngest anywhere.                                                     *)
LEMMA WriteKeepsOrder ==
  ASSUME MergeInv, ~ClockSteps, NEW d \in Dev, NEW show \in Shows, Write(d, show)
  PROVE  InOrder' /\ Emitted' /\ OutputSorted' /\ Window'
<1> PICK now \in 0 .. MaxClock : clock <= now /\ clock' = now
      /\ log' = [log EXCEPT ![d] =
                  (IF Len(log[d]) < RingCap THEN log[d] ELSE Tail(log[d]))
                    \o <<[id |-> nwritten + 1, ts |-> now, show |-> show]>>]
  BY DEF Write
<1> DEFINE e == [id |-> nwritten + 1, ts |-> now, show |-> show]
           kept == IF Len(log[d]) < RingCap THEN log[d] ELSE Tail(log[d])
<1>0. UNCHANGED <<queue, out, pc, dev, readset>>
  BY DEF Write, queues
<1>1. /\ \A x \in Dev : /\ queue[x] \in Seq(Entry) /\ Stamped(queue[x])
                        /\ log[x] \in Seq(Entry) /\ Stamped(log[x])
      /\ out \in Seq(Record) /\ Stamped(out) /\ clock \in Nat /\ now \in Nat
  BY AllStamped, BoundsAssumption DEF MergeInv
<1>2. e \in Entry /\ e.ts = now
  BY BoundsAssumption, SwitchAssumption DEF Entry, MergeInv, TypeOK
<1>3. /\ kept \in Seq(Entry) /\ Stamped(kept)
      /\ kept = log[d] \/ (log[d] # <<>> /\ kept = Tail(log[d]))
  <2>1. log[d] = <<>> => Len(log[d]) < RingCap
    BY BoundsAssumption, EmptySeq
  <2>2. log[d] # <<>> => Tail(log[d]) \in Seq(Entry)
    BY <1>1, HeadTailProperties
  <2> QED
    <3>1. kept = log[d] \/ (log[d] # <<>> /\ kept = Tail(log[d]))
      BY <2>1
    <3> HIDE DEF kept
    <3>2. kept \in Seq(Entry)
      BY <1>1, <2>2, <3>1
    <3> QED
      BY <3>1, <3>2, EntriesStamped
<1> HIDE DEF e, kept
<1>4. log'[d] = Append(kept, e) /\ \A x \in Dev \ {d} : log'[x] = log[x]
  <2>1. log' = [log EXCEPT ![d] = kept \o <<e>>]
    BY DEF e, kept
  <2>2. Append(kept, e) = kept \o <<e>>
    BY <1>2, <1>3, AppendIsConcat
  <2> QED
    BY <2>1, <2>2 DEF MergeInv, TypeOK
<1>5. \A t, u : Stamped(t) /\ Upto(t, clock) => Upto(t, now)
  BY <1>1 DEF Upto, Stamped
<1>6. ASSUME NEW t, Stamped(t), Upto(t, clock)
      PROVE  /\ Below(t, log[d]) => Below(t, log'[d])
             /\ ButLastBelow(t, log[d]) => ButLastBelow(t, log'[d])
  <2>1. /\ Below(t, log[d]) => Below(t, kept)
        /\ ButLastBelow(t, log[d]) => ButLastBelow(t, kept)
    BY <1>1, <1>3, <1>6, OrderOfTail
  <2>2. Upto(t, e.ts)
    BY <1>2, <1>5, <1>6
  <2> QED
    BY <1>1, <1>2, <1>3, <1>4, <1>6, <2>1, <2>2, OrderOfAppend
<1>7. Sorted(log'[d]) /\ Upto(log'[d], now)
  <2>1. Sorted(kept) /\ Upto(kept, clock)
    BY <1>1, <1>3, OrderOfTail DEF MergeInv, InOrder
  <2>2. Upto(kept, now)
    BY <1>3, <1>5, <2>1
  <2> QED
    <3>1. Sorted(kept) /\ Upto(kept, e.ts) /\ e.ts \in Nat /\ e.ts <= now
      BY <1>1, <1>2, <2>1, <2>2
    <3>2. Sorted(Append(kept, e)) /\ Upto(Append(kept, e), now)
      BY <1>2, <1>3, <2>2, <3>1, SortedAppend
    <3> QED
      BY <1>4, <3>2
<1>8. InOrder'
  <2> SUFFICES ASSUME NEW x \in Dev
               PROVE  /\ Sorted(queue[x]) /\ Sorted(log'[x])
                      /\ Below(queue[x], log'[x])
                      /\ Upto(queue[x], now) /\ Upto(log'[x], now)
    BY <1>0 DEF InOrder
  <2>1. /\ Sorted(queue[x]) /\ Sorted(log[x]) /\ Below(queue[x], log[x])
        /\ Upto(queue[x], clock) /\ Upto(log[x], clock)
    BY DEF MergeInv, InOrder
  <2>2. Upto(queue[x], now) /\ Upto(log[x], now)
    BY <1>1, <1>5, <2>1
  <2>3. CASE x = d
    BY <1>1, <1>6, <1>7, <2>1, <2>2, <2>3
  <2>4. CASE x # d
    BY <1>4, <2>1, <2>2, <2>4
  <2> QED
    BY <2>3, <2>4
<1>9. Emitted'
  <2>1. Upto(out, clock) /\ Upto(out, now)
    BY <1>1, <1>5 DEF MergeInv, Emitted
  <2>2. \A x \in Dev : Below(out, log'[x])
    BY <1>1, <1>4, <1>6, <2>1 DEF MergeInv, Emitted
  <2> QED
    BY <1>0, <2>1, <2>2 DEF MergeInv, Emitted
<1>10. OutputSorted'
  BY <1>0 DEF MergeInv, OutputSorted
<1>11. \A a, b \in Dev :
        /\ Below(queue[a], log[b]) => Below(queue[a], log'[b])
        /\ ButLastBelow(queue[a], log[b]) => ButLastBelow(queue[a], log'[b])
  BY <1>1, <1>4, <1>6 DEF MergeInv, InOrder
<1>12. Window'
  <2>1. pc = "poll" => PollWindow'
    <3>1. pc = "poll" => (1 .. dev - 1) \subseteq Dev
      BY DevicesAssumption DEF MergeInv, TypeOK
    <3> QED
      BY <1>0, <1>11, <3>1 DEF MergeInv, Window, PollWindow
  <2>2. pc = "read" => ReadWindow'
    BY <1>0, <1>11 DEF MergeInv, Window, ReadWindow
  <2>3. pc = "emit" => EmitWindow'
    BY <1>0, <1>11 DEF MergeInv, Window, EmitWindow
  <2>4. pc = "drain" => DrainWindow'
    BY <1>0, <1>11 DEF MergeInv, Window, DrainWindow
  <2> QED
    BY <1>0, <2>1, <2>2, <2>3, <2>4 DEF Window
<1> QED
  BY <1>8, <1>9, <1>10, <1>12

(* Clearing a device removes entries and adds none. *)
LEMMA ClearKeepsOrder ==
  ASSUME MergeInv, NEW d \in Dev, clear_log(d)
  PROVE  InOrder' /\ Emitted' /\ OutputSorted' /\ Window'
<1>1. UNCHANGED <<clock, queue, out, pc, dev, readset>>
  BY DEF clear_log, queues
<1>2. log'[d] = <<>> /\ \A x \in Dev \ {d} : log'[x] = log[x]
  BY DEF clear_log, MergeInv, TypeOK
<1>3. \A t, x : x \in Dev =>
        /\ Below(t, log[x]) => Below(t, log'[x])
        /\ ButLastBelow(t, log[x]) => ButLastBelow(t, log'[x])
        /\ Sorted(log[x]) => Sorted(log'[x])
        /\ Upto(log[x], clock) => Upto(log'[x], clock)
  BY <1>2, OrderOfEmpty
<1>4. InOrder' /\ Emitted'
  BY <1>1, <1>3 DEF MergeInv, InOrder, Emitted
<1>5. OutputSorted'
  BY <1>1 DEF MergeInv, OutputSorted
<1>6. Window'
  <2>1. pc = "poll" => PollWindow'
    <3>1. pc = "poll" => (1 .. dev - 1) \subseteq Dev
      BY DevicesAssumption DEF MergeInv, TypeOK
    <3> QED
      BY <1>1, <1>3, <3>1 DEF MergeInv, Window, PollWindow
  <2>2. pc = "read" => ReadWindow'
    BY <1>1, <1>3 DEF MergeInv, Window, ReadWindow
  <2>3. pc = "emit" => EmitWindow'
    BY <1>1, <1>3 DEF MergeInv, Window, EmitWindow
  <2>4. pc = "drain" => DrainWindow'
    BY <1>1, <1>3 DEF MergeInv, Window, DrainWindow
  <2> QED
    BY <1>1, <2>1, <2>2, <2>3, <2>4 DEF Window
<1> QED
  BY <1>4, <1>5, <1>6

(* A read moves the oldest unread entry of a device to the end of its     *)
(* queue; that entry is the last of the queue until the round ends.       *)
LEMMA ReadKeepsOrder ==
  ASSUME MergeInv, Read
  PROVE  InOrder' /\ Emitted' /\ OutputSorted' /\ Window'
<1> DEFINE e == Head(log[dev])
<1>0. UNCHANGED <<clock, out, pc, readset>> /\ dev' = dev + 1 /\ pc = "read"
  BY DEF Read
<1>1. dev \in Dev /\ dev \in readset /\ log[dev] # <<>>
  BY DEF Read, MergeInv, TypeOK
<1>2. /\ \A x \in Dev : /\ queue[x] \in Seq(Entry) /\ Stamped(queue[x])
                        /\ log[x] \in Seq(Entry) /\ Stamped(log[x])
      /\ out \in Seq(Record) /\ Stamped(out) /\ clock \in Nat
  BY AllStamped DEF MergeInv
<1>3. /\ e \in Entry /\ e.ts \in Nat /\ e = log[dev][1] /\ 1 \in 1 .. Len(log[dev])
      /\ From(e.ts, Tail(log[dev]))
      /\ Tail(log[dev]) \in Seq(Entry) /\ Stamped(Tail(log[dev]))
  <2>1. e \in Entry /\ Tail(log[dev]) \in Seq(Entry)
    BY <1>1, <1>2, HeadTailProperties
  <2>2. e.ts \in Nat
    BY <2>1 DEF Entry
  <2>3. Sorted(log[dev])
    BY <1>1 DEF MergeInv, InOrder
  <2> QED
    BY <1>1, <1>2, <2>1, <2>2, <2>3, HeadLeast, EntriesStamped
<1>4. Upto(queue[dev], e.ts) /\ Upto(out, e.ts) /\ e.ts <= clock
  <2>1. Below(queue[dev], log[dev]) /\ Below(out, log[dev]) /\ Upto(log[dev], clock)
    BY <1>1 DEF MergeInv, InOrder, Emitted
  <2> QED
    BY <1>3, <2>1 DEF Below, Upto
<1> HIDE DEF e
<1>5. enqueue(queue[dev], e) = Append(queue[dev], e)
  BY <1>1, <1>2, <1>3, <1>4, EnqueueLatest DEF Upto
<1>6. /\ queue'[dev] = Append(queue[dev], e) /\ log'[dev] = Tail(log[dev])
      /\ \A x \in Dev \ {dev} : queue'[x] = queue[x] /\ log'[x] = log[x]
  BY <1>1, <1>5 DEF Read, MergeInv, TypeOK, e
<1>7. InOrder'
  <2> SUFFICES ASSUME NEW x \in Dev
               PROVE  /\ Sorted(queue'[x]) /\ Sorted(log'[x])
                      /\ Below(queue'[x], log'[x])
                      /\ Upto(queue'[x], clock) /\ Upto(log'[x], clock)
    BY <1>0 DEF InOrder
  <2>1. /\ Sorted(queue[x]) /\ Sorted(log[x]) /\ Below(queue[x], log[x])
        /\ Upto(queue[x], clock) /\ Upto(log[x], clock)
    BY DEF MergeInv, InOrder
  <2>2. CASE x # dev
    BY <1>6, <2>1, <2>2
  <2>3. CASE x = dev
    <3>1. Sorted(Tail(log[dev])) /\ Upto(Tail(log[dev]), clock)
          /\ Below(queue[dev], Tail(log[dev]))
      BY <1>1, <1>2, <2>1, <2>3, OrderOfTail
    <3>2. Sorted(Append(queue[dev], e)) /\ Upto(Append(queue[dev], e), clock)
      BY <1>1, <1>2, <1>3, <1>4, <2>1, <2>3, SortedAppend
    <3>3. Below(Append(queue[dev], e), Tail(log[dev]))
      BY <1>1, <1>2, <1>3, <3>1, OrderOfAppend
    <3> QED
      BY <1>6, <2>3, <3>1, <3>2, <3>3
  <2> QED
    BY <2>2, <2>3
<1>8. Emitted'
  <2>1. Below(out, Append(queue[dev], e))
    BY <1>1, <1>2, <1>3, <1>4, OrderOfAppend DEF MergeInv, Emitted
  <2>2. Below(out, Tail(log[dev]))
    BY <1>1, <1>2, OrderOfTail DEF MergeInv, Emitted
  <2> QED
    BY <1>0, <1>6, <2>1, <2>2 DEF MergeInv, Emitted
<1>9. OutputSorted'
  BY <1>0 DEF MergeInv, OutputSorted
<1>10. Window'
  <2>1. ReadWindow
    BY <1>0 DEF MergeInv, Window
  <2>2. \A b \in Dev \ readset : log'[b] = log[b] /\ b # dev
    BY <1>1, <1>6
  <2>3. \A b \in Dev \ readset : ButLastBelow(Append(queue[dev], e), log[b])
    <3> TAKE b \in Dev \ readset
    <3>1. Below(queue[dev], log[b])
      BY <1>1, <2>1, DevicesAssumption DEF ReadWindow
    <3> QED
      BY <1>1, <1>2, <1>3, <3>1, OrderOfAppend
  <2>4. ASSUME NEW a \in Dev, NEW b \in Dev \ readset
        PROVE  /\ ButLastBelow(queue'[a], log'[b])
               /\ ~(a \in readset /\ a < dev + 1) => Below(queue'[a], log'[b])
    <3>1. CASE a = dev
      <4>1. a \in readset /\ a < dev + 1
        BY <1>1, <3>1, DevicesAssumption
      <4> QED
        BY <1>6, <2>2, <2>3, <3>1, <4>1
    <3>2. CASE a # dev
      BY <1>1, <1>6, <2>1, <2>2, <3>2, DevicesAssumption DEF ReadWindow
    <3> QED
      BY <3>1, <3>2
  <2>5. ASSUME NEW a \in readset, a < dev + 1 PROVE queue'[a] # <<>>
    <3>0. a \in Dev
      BY DEF MergeInv, TypeOK
    <3>1. CASE a = dev
      BY <1>1, <1>2, <1>3, <1>6, <3>1, AppendProperties
    <3>2. CASE a # dev
      BY <1>1, <1>6, <2>1, <2>5, <3>0, <3>2, DevicesAssumption DEF ReadWindow
    <3> QED
      BY <3>1, <3>2
  <2>6. ReadWindow'
    BY <1>0, <2>4, <2>5 DEF ReadWindow
  <2> QED
    BY <1>0, <2>6 DEF Window
<1> QED
  BY <1>7, <1>8, <1>9, <1>10

(* Dequeuing an entry that nothing queued or unread is older than. *)
LEMMA DequeueKeepsOrder ==
  ASSUME MergeInv, NEW d \in Dev, queue[d] # <<>>, NEW kind \in Kind,
         dequeue(d, kind), UNCHANGED devices,
         \A x \in Dev : queue[x] # <<>> => Head(queue[d]).ts <= Head(queue[x]).ts,
         \A x \in Dev : From(Head(queue[d]).ts, log[x])
  PROVE  InOrder' /\ Emitted' /\ OutputSorted'
<1> DEFINE e == Head(queue[d])
           r == [kind |-> kind, dev |-> d, id |-> e.id, ts |-> e.ts,
                 hdr |-> maybePrintStart(d)]
<1>0. UNCHANGED <<clock, log>> /\ out' = Append(out, r)
  BY DEF dequeue, devices
<1>1. /\ \A x \in Dev : /\ queue[x] \in Seq(Entry) /\ Stamped(queue[x])
                        /\ log[x] \in Seq(Entry) /\ Stamped(log[x])
      /\ out \in Seq(Record) /\ Stamped(out) /\ clock \in Nat
  BY AllStamped DEF MergeInv
<1>2. e \in Entry /\ e.ts \in Nat /\ Tail(queue[d]) \in Seq(Entry)
  <2>1. e \in Entry /\ Tail(queue[d]) \in Seq(Entry)
    BY <1>1, HeadTailProperties
  <2> QED
    BY <2>1 DEF Entry
<1>3. r \in Record /\ r.ts = e.ts
  <2>1. maybePrintStart(d) \in BOOLEAN
    BY DEF maybePrintStart
  <2> QED
    BY <1>2, <2>1 DEF Record, Entry
<1>4. queue'[d] = Tail(queue[d]) /\ \A x \in Dev \ {d} : queue'[x] = queue[x]
  BY DEF dequeue, MergeInv, TypeOK
<1>5. Upto(out, e.ts) /\ e.ts <= clock
  <2>1. e = queue[d][1] /\ 1 \in 1 .. Len(queue[d])
    BY <1>1, HeadLeast DEF MergeInv, InOrder
  <2>2. Below(out, queue[d]) /\ Upto(queue[d], clock)
    BY DEF MergeInv, Emitted, InOrder
  <2> QED
    BY <2>1, <2>2 DEF Below, Upto
<1>6. \A x \in Dev : From(e.ts, queue'[x]) /\ Stamped(queue'[x])
  <2> TAKE x \in Dev
  <2>1. CASE x = d
    BY <1>1, <1>2, <1>4, <2>1, HeadLeast, EntriesStamped DEF MergeInv, InOrder
  <2>2. CASE x # d /\ queue[x] = <<>>
    <3>1. 1 .. Len(<<>>) = {}
      BY EmptySeq
    <3> QED
      BY <1>1, <1>4, <2>2, <3>1 DEF From
  <2>3. CASE x # d /\ queue[x] # <<>>
    <3>1. From(Head(queue[x]).ts, queue[x]) /\ Head(queue[x]) \in Entry
      BY <1>1, <2>3, HeadLeast, HeadTailProperties DEF MergeInv, InOrder
    <3>2. Head(queue[x]).ts \in Nat /\ e.ts <= Head(queue[x]).ts
      BY <2>3, <3>1 DEF Entry
    <3> QED
      BY <1>1, <1>2, <1>4, <2>3, <3>1, <3>2, FromWeakens
  <2> QED
    BY <2>1, <2>2, <2>3
<1> HIDE DEF e, r
<1>7. InOrder'
  <2> SUFFICES ASSUME NEW x \in Dev
               PROVE  /\ Sorted(queue'[x]) /\ Sorted(log[x])
                      /\ Below(queue'[x], log[x])
                      /\ Upto(queue'[x], clock) /\ Upto(log[x], clock)
    BY <1>0 DEF InOrder
  <2>1. /\ Sorted(queue[x]) /\ Sorted(log[x]) /\ Below(queue[x], log[x])
        /\ Upto(queue[x], clock) /\ Upto(log[x], clock)
    BY DEF MergeInv, InOrder
  <2>2. CASE x = d
    BY <1>1, <1>4, <2>1, <2>2, OrderOfTail
  <2>3. CASE x # d
    BY <1>4, <2>1, <2>3
  <2> QED
    BY <2>2, <2>3
<1>8. Emitted'
  <2>1. Upto(out', clock)
    <3>1. Upto(out, clock) /\ r.ts \in Nat /\ r.ts <= clock
      BY <1>2, <1>3, <1>5 DEF MergeInv, Emitted
    <3>2. Upto(Append(out, r), clock)
      BY <1>1, <1>3, <3>1, SortedAppend
    <3> QED
      BY <1>0, <3>2
  <2>2. ASSUME NEW x \in Dev PROVE Below(out', queue'[x]) /\ Below(out', log[x])
    <3>1. Below(out, queue'[x]) /\ Below(out, log[x])
      BY <1>1, <1>4, OrderOfTail DEF MergeInv, Emitted
    <3>2. From(r.ts, queue'[x]) /\ From(r.ts, log[x]) /\ r.ts \in Nat
      BY <1>2, <1>3, <1>6 DEF e
    <3> QED
      BY <1>0, <1>1, <1>3, <1>6, <3>1, <3>2, OrderOfAppend
  <2> QED
    BY <1>0, <2>1, <2>2 DEF Emitted
<1>9. OutputSorted'
  <2>1. DOMAIN out = 1 .. Len(out) /\ DOMAIN out' = 1 .. Len(out')
    BY <1>0, <1>1, <1>3, LenProperties, AppendProperties
  <2>2. Sorted(out)
    <3> SUFFICES ASSUME NEW i \in 1 .. Len(out), NEW j \in 1 .. Len(out), i <= j
                 PROVE  out[i].ts <= out[j].ts
      BY DEF Sorted
    <3>1. CASE i = j
      BY <1>1, <3>1 DEF Stamped
    <3>2. CASE i < j
      BY <2>1, <3>2 DEF MergeInv, OutputSorted
    <3> QED
      BY <1>1, <3>1, <3>2, LenProperties
  <2>3. Sorted(out')
    BY <1>0, <1>1, <1>2, <1>3, <1>5, <2>2, SortedAppend
  <2>4. Len(out') \in Nat
    BY <1>0, <1>1, <1>3, LenProperties, AppendProperties
  <2> QED
    BY <2>1, <2>3, <2>4 DEF Sorted, OutputSorted
<1> QED
  BY <1>7, <1>8, <1>9

-----------------------------------------------------------------------------
(* The strengthened invariant holds before the first round. *)
LEMMA MergeInvInit == Init => MergeInv
<1> SUFFICES ASSUME Init PROVE MergeInv
  OBVIOUS
<1>1. TypeOK
  BY TypeOKInit
<1>2. out = <<>> /\ \A d \in Dev : queue[d] = <<>> /\ log[d] = <<>>
  BY DEF Init
<1>3. InOrder /\ Emitted
  BY <1>2, OrderOfEmpty DEF InOrder, Emitted
<1>4. OutputSorted
  BY <1>2 DEF OutputSorted
<1>5. Window
  BY DevicesAssumption DEF Init, Window, PollWindow
<1> QED
  BY <1>1, <1>3, <1>4, <1>5 DEF MergeInv

(* Steps that leave the devices, the queues and the output alone. *)
LEMMA OrderUnchanged ==
  ASSUME MergeInv, UNCHANGED <<clock, log, queue, out>>
  PROVE  InOrder' /\ Emitted' /\ OutputSorted'
BY DEF MergeInv, InOrder, Emitted, OutputSorted

(* It is inductive as long as the clock is not set back. *)
LEMMA MergeInvStep ==
  ASSUME ~ClockSteps
  PROVE  MergeInv /\ [Next]_vars => MergeInv'
<1> SUFFICES ASSUME MergeInv, [Next]_vars PROVE MergeInv'
  OBVIOUS
<1> USE DevicesAssumption
<1>0. TypeOK /\ TypeOK' /\ Window /\ dev \in 1 .. DevCount + 1
  BY TypeOKStep DEF MergeInv, TypeOK
<1> SUFFICES InOrder' /\ Emitted' /\ OutputSorted' /\ Window'
  BY <1>0 DEF MergeInv
<1>1. CASE UNCHANGED vars
  <2>1. InOrder' /\ Emitted' /\ OutputSorted'
    BY <1>1, OrderUnchanged DEF vars
  <2> QED
    BY <1>0, <1>1, <2>1 DEF vars, Window, PollWindow, ReadWindow, EmitWindow, DrainWindow
<1>2. ASSUME NEW d \in Dev, NEW show \in Shows, Write(d, show)
      PROVE  InOrder' /\ Emitted' /\ OutputSorted' /\ Window'
  BY <1>2, WriteKeepsOrder
<1>3. ASSUME NEW d \in Dev, clear_log(d)
      PROVE  InOrder' /\ Emitted' /\ OutputSorted' /\ Window'
  BY <1>3, ClearKeepsOrder
<1>4. CASE PollDevice
  <2>1. InOrder' /\ Emitted' /\ OutputSorted'
    BY <1>4, OrderUnchanged DEF PollDevice, devices, queues
  <2>2. /\ UNCHANGED <<queue, log>> /\ pc = "poll" /\ pc' = "poll"
        /\ dev \in Dev /\ dev' = dev + 1
        /\ readset' = IF log[dev] # <<>> THEN readset \cup {dev} ELSE readset
    BY <1>4 DEF PollDevice, devices, queues
  <2>3. PollWindow'
    <3> SUFFICES ASSUME NEW a \in Dev, NEW b \in (1 .. dev) \ readset'
                 PROVE  Below(queue[a], log[b])
      BY <2>2 DEF PollWindow
    <3>1. CASE b = dev
      BY <2>2, <3>1, OrderOfEmpty
    <3>2. CASE b # dev
      BY <1>0, <2>2, <3>2 DEF Window, PollWindow
    <3> QED
      BY <3>1, <3>2
  <2> QED
    BY <2>1, <2>2, <2>3 DEF Window
<1>5. CASE SelectReady
  <2>1. InOrder' /\ Emitted' /\ OutputSorted'
    BY <1>5, OrderUnchanged DEF SelectReady, devices, queues
  <2>2. /\ UNCHANGED <<queue, log, readset>> /\ pc = "poll" /\ pc' = "read"
        /\ dev = DevCount + 1 /\ dev' = 1
    BY <1>5 DEF SelectReady, devices, queues
  <2>3. \A a \in Dev, b \in Dev \ readset : Below(queue[a], log[b])
    BY <1>0, <2>2 DEF Window, PollWindow
  <2>4. \A a \in Dev, b \in Dev \ readset : ButLastBelow(queue[a], log[b])
    BY <1>0, <2>3, AllStamped, LenProperties, BelowButLast
  <2>5. readset \subseteq Dev /\ \A a \in Dev : ~(a < dev')
    BY <1>0, <2>2 DEF TypeOK
  <2>6. ReadWindow'
    BY <2>2, <2>3, <2>4, <2>5 DEF ReadWindow
  <2> QED
    BY <2>1, <2>2, <2>6 DEF Window
<1>6. CASE SelectWakes
  <2>1. InOrder' /\ Emitted' /\ OutputSorted'
    BY <1>6, OrderUnchanged DEF SelectWakes, devices, queues
  <2>2. pc' = "poll" /\ dev' = 1
    BY <1>6 DEF SelectWakes
  <2> QED
    BY <2>1, <2>2 DEF Window, PollWindow
<1>7. CASE SelectTimeout
  <2>1. InOrder' /\ Emitted' /\ OutputSorted'
    BY <1>7, OrderUnchanged DEF SelectTimeout, devices, queues
  <2>2. /\ UNCHANGED <<queue, log>> /\ pc = "poll" /\ pc' = "drain"
        /\ dev = DevCount + 1 /\ readset = {}
    BY <1>7 DEF SelectTimeout, devices, queues
  <2>3. DrainWindow'
    BY <1>0, <2>2 DEF Window, PollWindow, DrainWindow
  <2> QED
    BY <2>1, <2>2, <2>3 DEF Window
<1>8. CASE Read
  BY <1>8, ReadKeepsOrder
<1>9. CASE NotReadable
  <2>1. InOrder' /\ Emitted' /\ OutputSorted'
    BY <1>9, OrderUnchanged DEF NotReadable, devices, queues
  <2>2. /\ UNCHANGED <<queue, log, readset>> /\ pc = "read" /\ pc' = "read"
        /\ dev \notin readset /\ dev' = dev + 1
    BY <1>9 DEF NotReadable, devices, queues
  <2>3. \A a \in readset : a < dev + 1 => a < dev
    BY <1>0, <2>2 DEF TypeOK
  <2>4. ReadWindow'
    BY <1>0, <2>2, <2>3 DEF Window, ReadWindow
  <2> QED
    BY <2>1, <2>2, <2>4 DEF Window
<1>10. CASE ReadInterrupted
  <2>1. InOrder' /\ Emitted' /\ OutputSorted'
    BY <1>10, OrderUnchanged DEF ReadInterrupted, devices, queues
  <2>2. pc' = "poll" /\ dev' = 1
    BY <1>10 DEF ReadInterrupted, nextRound
  <2> QED
    BY <2>1, <2>2 DEF Window, PollWindow
<1>11. CASE ReadFails
  <2>1. InOrder' /\ Emitted' /\ OutputSorted'
    BY <1>11, OrderUnchanged DEF ReadFails, devices, queues
  <2>2. pc' = "failed"
    BY <1>11 DEF ReadFails
  <2> QED
    BY <2>1, <2>2 DEF Window
<1>12. CASE ReadDone
  <2>1. InOrder' /\ Emitted' /\ OutputSorted'
    BY <1>12, OrderUnchanged DEF ReadDone, devices, queues
  <2>2. /\ UNCHANGED <<queue, log>> /\ pc = "read" /\ pc' = "emit"
        /\ dev = DevCount + 1
    BY <1>12 DEF ReadDone, devices, queues
  <2>3. \A b \in Dev : queue[b] = <<>> => b \notin readset
    BY <1>0, <2>2 DEF Window, ReadWindow
  <2>4. EmitWindow'
    BY <1>0, <2>2, <2>3 DEF Window, ReadWindow, EmitWindow
  <2> QED
    BY <2>1, <2>2, <2>4 DEF Window
<1>13. CASE Emit
  <2> DEFINE d == chooseFirst(queue)
  <2>1. /\ d \in Dev /\ queue[d] # <<>> /\ Len(queue[d]) > 1
        /\ \A x \in Dev : queue[x] # <<>> => Head(queue[d]).ts <= Head(queue[x]).ts
    BY <1>0, <1>13, ChooseFirst DEF Emit, mayEmit, TypeOK
  <2> HIDE DEF d
  <2>2. PICK kind \in Kind : dequeue(d, kind)
    BY <1>0, <1>13, <2>1, PrintOrSkip DEF Emit, d
  <2>3. UNCHANGED devices /\ pc = "emit" /\ pc' = "emit" /\ EmitWindow
    BY <1>0, <1>13 DEF Emit, Window
  <2>4. \A x \in Dev : queue[x] \in Seq(Entry) /\ log[x] \in Seq(Entry)
                        /\ Stamped(log[x])
    BY <1>0, AllStamped
  <2>5. \A x \in Dev : From(Head(queue[d]).ts, log[x])
    <3> TAKE x \in Dev
    <3>1. /\ Sorted(queue[d]) /\ Sorted(queue[x]) /\ Below(queue[x], log[x])
      BY <2>1 DEF MergeInv, InOrder
    <3>2. Head(queue[d]) = queue[d][1] /\ 1 \in 1 .. Len(queue[d])
          /\ Head(queue[d]).ts \in Nat
      BY <2>1, <2>4, <3>1, HeadLeast, EntriesStamped DEF Stamped
    <3>3. CASE queue[x] = <<>>
      BY <2>1, <2>3, <3>2, <3>3 DEF EmitWindow, ButLastBelow, From
    <3>4. CASE queue[x] # <<>>
      <4>1. Head(queue[x]) = queue[x][1] /\ 1 \in 1 .. Len(queue[x])
            /\ Head(queue[x]).ts \in Nat
        BY <2>4, <3>1, <3>4, HeadLeast, EntriesStamped DEF Stamped
      <4> QED
        BY <2>1, <2>4, <3>1, <3>2, <3>4, <4>1 DEF Below, From, Stamped
    <3> QED
      BY <3>3, <3>4
  <2>6. InOrder' /\ Emitted' /\ OutputSorted'
    BY <2>1, <2>2, <2>3, <2>5, DequeueKeepsOrder
  <2>7. /\ queue'[d] = Tail(queue[d]) /\ queue'[d] # <<>>
        /\ \A x \in Dev \ {d} : queue'[x] = queue[x]
        /\ log' = log
    <3>1. queue'[d] = Tail(queue[d]) /\ \A x \in Dev \ {d} : queue'[x] = queue[x]
      BY <1>0, <2>1, <2>2 DEF dequeue, TypeOK
    <3>2. Len(Tail(queue[d])) # 0
      <4>0. queue[d] \in Seq(Entry)
        BY <2>1, <2>4
      <4>1. Len(Tail(queue[d])) = Len(queue[d]) - 1
        BY <2>1, <4>0, HeadTailProperties
      <4>2. Len(queue[d]) \in Nat
        BY <4>0, LenProperties
      <4>3. \A n \in Nat : n > 1 => n - 1 # 0
        OBVIOUS
      <4> QED
        BY <2>1, <4>1, <4>2, <4>3, Zenon
    <3> QED
      BY <2>3, <3>1, <3>2, EmptySeq DEF devices
  <2>8. EmitWindow'
    <3> SUFFICES ASSUME NEW a \in Dev, NEW b \in Dev, queue'[b] = <<>>
                 PROVE  ButLastBelow(queue'[a], log[b])
      BY <2>7 DEF EmitWindow
    <3>1. queue[b] = <<>> /\ ButLastBelow(queue[a], log[b])
      BY <2>3, <2>7 DEF EmitWindow
    <3> QED
      BY <2>1, <2>4, <2>7, <3>1, OrderOfTail
  <2> QED
    BY <2>3, <2>6, <2>8 DEF Window
<1>14. CASE EmitDone
  <2>1. InOrder' /\ Emitted' /\ OutputSorted'
    BY <1>14, OrderUnchanged DEF EmitDone, devices, queues
  <2>2. pc' = "poll" /\ dev' = 1
    BY <1>14 DEF EmitDone, nextRound
  <2> QED
    BY <2>1, <2>2 DEF Window, PollWindow
<1>15. CASE Drain
  <2> DEFINE d == chooseFirst(queue)
  <2>1. /\ d \in Dev /\ queue[d] # <<>>
        /\ \A x \in Dev : queue[x] # <<>> => Head(queue[d]).ts <= Head(queue[x]).ts
    BY <1>0, <1>15, ChooseFirst DEF Drain, TypeOK
  <2> HIDE DEF d
  <2>2. PICK kind \in Kind : dequeue(d, kind)
    BY <1>0, <1>15, <2>1, PrintOrSkip DEF Drain, d, tailPrints
  <2>3. UNCHANGED devices /\ pc = "drain" /\ pc' = "drain" /\ DrainWindow
    BY <1>0, <1>15 DEF Drain, Window
  <2>4. \A x \in Dev : queue[x] \in Seq(Entry) /\ Stamped(log[x])
    BY <1>0, AllStamped
  <2>5. \A x \in Dev : From(Head(queue[d]).ts, log[x])
    <3>1. Sorted(queue[d])
      BY <2>1 DEF MergeInv, InOrder
    <3>2. Head(queue[d]) = queue[d][1] /\ 1 \in 1 .. Len(queue[d])
      BY <2>1, <2>4, <3>1, HeadLeast
    <3> QED
      BY <2>1, <2>3, <3>2 DEF DrainWindow, Below, From
  <2>6. InOrder' /\ Emitted' /\ OutputSorted'
    BY <2>1, <2>2, <2>3, <2>5, DequeueKeepsOrder
  <2>7. /\ queue'[d] = Tail(queue[d]) /\ log' = log
        /\ \A x \in Dev \ {d} : queue'[x] = queue[x]
    BY <1>0, <2>1, <2>2, <2>3 DEF dequeue, TypeOK, devices
  <2>8. DrainWindow'
    <3> SUFFICES ASSUME NEW a \in Dev, NEW b \in Dev
                 PROVE  Below(queue'[a], log[b])
      BY <2>7 DEF DrainWindow
    <3>1. Below(queue[a], log[b])
      BY <2>3 DEF DrainWindow
    <3> QED
      BY <2>1, <2>4, <2>7, <3>1, OrderOfTail
  <2> QED
    BY <2>3, <2>6, <2>8 DEF Window
<1>16. CASE DrainDone
  <2>1. InOrder' /\ Emitted' /\ OutputSorted'
    BY <1>16, OrderUnchanged DEF DrainDone, devices, queues
  <2>2. pc' = "exit" \/ (pc' = "poll" /\ dev' = 1)
    BY <1>16 DEF DrainDone, nextRound
  <2> QED
    BY <2>1, <2>2 DEF Window, PollWindow
<1>17. CASE OutputFails
  <2>1. InOrder' /\ Emitted' /\ OutputSorted'
    BY <1>17, OrderUnchanged DEF OutputFails, devices, queues
  <2>2. pc' = "failed"
    BY <1>17 DEF OutputFails
  <2> QED
    BY <2>1, <2>2 DEF Window
<1> QED
  BY <1>1, <1>2, <1>3, <1>4, <1>5, <1>6, <1>7, <1>8, <1>9, <1>10, <1>11, <1>12,
     <1>13, <1>14, <1>15, <1>16, <1>17 DEF Next, read_log_lines

(* While the clock is not set back, the output of dlogutil is in          *)
(* timestamp order over all devices: for any number of devices, any ring  *)
(* size, any number of concurrent writes, clears, interrupted reads and   *)
(* failing writes, with and without -d and -t.                            *)
THEOREM OutputStaysSorted ==
  ASSUME ~ClockSteps
  PROVE  Spec => []OutputSorted
<1>1. MergeInv /\ [Next]_vars => MergeInv'
  BY MergeInvStep
<1>2. MergeInv => OutputSorted
  BY DEF MergeInv
<1> QED
  BY <1>1, <1>2, MergeInvInit, PTL DEF Spec

=============================================================================
