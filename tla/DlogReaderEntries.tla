-------------------------- MODULE DlogReaderEntries --------------------------
(***************************************************************************)
(* Proofs about what becomes of each entry in DlogReader, for any number   *)
(* of devices, any ring size and any number of writes: where it is, that   *)
(* it is there once, in which order the entries of one device leave, and   *)
(* what -t keeps of them.                                                  *)
(***************************************************************************)
EXTENDS DlogReaderProofs, FiniteSetTheorems

Ids(s) == {s[i].id : i \in 1 .. Len(s)}
Distinct(s) == \A i, j \in 1 .. Len(s) : s[i].id = s[j].id => i = j

(* Every entry has a number of its own, wherever it is: unread in a       *)
(* device, queued, or dequeued.                                           *)
Apart ==
  /\ \A d \in Dev : /\ Distinct(queue[d]) /\ Distinct(log[d])
                    /\ Ids(queue[d]) \subseteq 1 .. nwritten
                    /\ Ids(log[d]) \subseteq 1 .. nwritten
  /\ \A c, d \in Dev : /\ Ids(queue[c]) \cap Ids(log[d]) = {}
                       /\ c # d => /\ Ids(queue[c]) \cap Ids(queue[d]) = {}
                                   /\ Ids(log[c]) \cap Ids(log[d]) = {}
  /\ \A d \in Dev : Ids(queue[d]) \cap Ids(out) = {} /\ Ids(log[d]) \cap Ids(out) = {}
  /\ Distinct(out) /\ Ids(out) \subseteq 1 .. nwritten

(* What was read is queued or dequeued, and counted. *)
Accounted ==
  /\ taken = queuedIds \cup outIds
  /\ IsFiniteSet(outIds) /\ Cardinality(outIds) = Len(out)
  /\ IsFiniteSet(queuedIds) /\ QueuedLinesExact

PlaceInv == TypeOK /\ Apart /\ Accounted

(* The header of a device has been printed once one of its entries has    *)
(* been dequeued, and not before.                                         *)
Announced ==
  \A d \in Dev : printed[d] <=> \E j \in 1 .. Len(out) : out[j].dev = d

(* a, b: a left the device before b, or is in front of it in the queue.   *)
overtakes(a, b) == b.id < a.id => a.ts < b.ts

(* A device d holds its entries l in the order of the writes, behind      *)
(* those already read; its queue q is sorted, and what is in front in it, *)
(* or has left it for the output o, overtook only what has a larger       *)
(* timestamp.                                                             *)
Ascending(l) == \A i, j \in 1 .. Len(l) : i < j => l[i].id < l[j].id
Behind(l, q) == \A i \in 1 .. Len(l), j \in 1 .. Len(q) : q[j].id < l[i].id
BehindOut(d, l, o) ==
  \A i \in 1 .. Len(l), j \in 1 .. Len(o) : o[j].dev = d => o[j].id < l[i].id
Overtaken(q) == \A i, j \in 1 .. Len(q) : i < j => overtakes(q[i], q[j])
OvertakenByOut(d, q, o) ==
  \A i \in 1 .. Len(o), j \in 1 .. Len(q) : o[i].dev = d => overtakes(o[i], q[j])
DeviceOrder(d, l, q, o) ==
  /\ Ascending(l) /\ Behind(l, q) /\ BehindOut(d, l, o)
  /\ Sorted(q) /\ Overtaken(q) /\ OvertakenByOut(d, q, o)

WriteOrder == \A d \in Dev : DeviceOrder(d, log[d], queue[d], out)
OrderInv == WriteOrder /\ SameDeviceOrder

(* What -t has dropped so far: everything dequeued before the devices     *)
(* fell quiet, while the queues held at least the lines to keep; then all *)
(* but those lines.                                                       *)
TailKept ==
  TailLines # 0 =>
    /\ pc \in {"poll", "read", "emit"} =>
         /\ \A i \in 1 .. Len(out) : out[i].kind = "skip"
         /\ Len(out) = 0 \/ queued_lines >= TailLines
    /\ pc \in {"drain", "exit"} =>
         \A i \in 1 .. Len(out) :
           out[i].kind = "skip" <=> i <= Len(out) + queued_lines - TailLines
    /\ pc = "exit" => queued_lines = 0

-----------------------------------------------------------------------------
(* How numbers and sequences go together. *)

(* What enqueue builds: the entry goes behind all that are not younger    *)
(* and in front of the first younger one; nothing else moves.             *)
LEMMA EnqueueShape ==
  ASSUME NEW q \in Seq(Entry), NEW e \in Entry
  PROVE  \E at \in 1 .. Len(q) + 1 :
           /\ \A i \in 1 .. at - 1 : enqueue(q, e)[i] = q[i] /\ q[i].ts <= e.ts
           /\ enqueue(q, e)[at] = e
           /\ \A i \in at .. Len(q) : enqueue(q, e)[i + 1] = q[i]
           /\ at <= Len(q) => e.ts < q[at].ts
<1> DEFINE Fits(i) == /\ \A j \in 1 .. i - 1 : cmp(e, q[j]) >= 0
                      /\ i <= Len(q) => cmp(e, q[i]) < 0
           Later == {i \in 1 .. Len(q) + 1 : i <= Len(q) => cmp(e, q[i]) < 0}
           at == CHOOSE i \in 1 .. Len(q) + 1 : Fits(i)
           front == SubSeq(q, 1, at - 1)
           back == SubSeq(q, at, Len(q))
<1>0. Len(q) \in Nat /\ \A i \in 1 .. Len(q) : q[i] \in Entry /\ q[i].ts \in Nat
  <2>1. Len(q) \in Nat /\ \A i \in 1 .. Len(q) : q[i] \in Entry
    BY LenProperties, ElementOfSeq
  <2>2. \A x \in Entry : x.ts \in Nat
    BY DEF Entry
  <2> QED
    BY <2>1, <2>2
<1>1. e.ts \in Nat
  BY DEF Entry
<1>2. \E i \in 1 .. Len(q) + 1 : Fits(i)
  <2>1. Len(q) + 1 \in Later /\ Later \subseteq Nat
    BY <1>0
  <2>2. PICK i \in Later : \A j \in Later : i <= j
    BY <2>1, LeastNatural
  <2>3. \A j \in 1 .. i - 1 : cmp(e, q[j]) >= 0
    BY <1>0, <1>1, <2>2 DEF cmp
  <2> QED
    BY <2>2, <2>3
<1>3. at \in 1 .. Len(q) + 1 /\ Fits(at)
  BY <1>2
<1>4. enqueue(q, e) = front \o <<e>> \o back
  BY DEF enqueue
<1>5. /\ front \in Seq(Entry) /\ Len(front) = at - 1
      /\ \A i \in 1 .. at - 1 : front[i] = q[i]
  BY <1>0, <1>3, SubSeqProperties
<1>6. /\ back \in Seq(Entry) /\ Len(back) = Len(q) + 1 - at
      /\ \A i \in 1 .. Len(q) + 1 - at : back[i] = q[at + i - 1]
  BY <1>0, <1>3, SubSeqProperties
<1>7. <<e>> \in Seq(Entry) /\ Len(<<e>>) = 1 /\ <<e>>[1] = e
  OBVIOUS
<1> HIDE DEF front, back, at
<1>8. /\ front \o <<e>> \in Seq(Entry) /\ Len(front \o <<e>>) = at
      /\ \A i \in 1 .. at - 1 : (front \o <<e>>)[i] = q[i]
      /\ (front \o <<e>>)[at] = e
  <2> DEFINE one == <<e>>
  <2>1. one \in Seq(Entry) /\ Len(one) = 1 /\ one[1] = e
    BY <1>7
  <2> HIDE DEF one
  <2>2. /\ front \o one \in Seq(Entry) /\ Len(front \o one) = Len(front) + Len(one)
        /\ \A i \in 1 .. Len(front) + Len(one) : (front \o one)[i] =
             IF i <= Len(front) THEN front[i] ELSE one[i - Len(front)]
    BY <1>5, <2>1, ConcatProperties
  <2>3. at \in Nat /\ (at - 1) + 1 = at /\ at - (at - 1) = 1 /\ ~(at <= at - 1)
    BY <1>0, <1>3
  <2>4. at \in 1 .. (at - 1) + 1
    BY <1>0, <1>3
  <2>5. /\ front \o one \in Seq(Entry) /\ Len(front \o one) = at
        /\ \A i \in 1 .. at - 1 : (front \o one)[i] = q[i]
        /\ (front \o one)[at] = e
    BY <1>5, <2>1, <2>2, <2>3, <2>4
  <2> QED
    BY <2>5 DEF one
<1>9. /\ \A i \in 1 .. at : enqueue(q, e)[i] = (front \o <<e>>)[i]
      /\ \A i \in at + 1 .. Len(q) + 1 : enqueue(q, e)[i] = back[i - at]
  <2> DEFINE p == front \o <<e>>
  <2>1. /\ \A i \in 1 .. Len(p) : (p \o back)[i] = p[i]
        /\ \A i \in Len(p) + 1 .. Len(p) + Len(back) : (p \o back)[i] = back[i - Len(p)]
    BY <1>6, <1>8, ConcatProperties
  <2>2. at + Len(back) = Len(q) + 1 /\ Len(p) = at
    BY <1>0, <1>3, <1>6, <1>8
  <2> QED
    BY <1>4, <2>1, <2>2
<1>10. \A i \in at .. Len(q) : enqueue(q, e)[i + 1] = q[i]
  <2> TAKE i \in at .. Len(q)
  <2>1. i + 1 \in at + 1 .. Len(q) + 1 /\ (i + 1) - at \in 1 .. Len(q) + 1 - at
    BY <1>0, <1>3
  <2>2. at + ((i + 1) - at) - 1 = i
    BY <1>0, <1>3
  <2> QED
    BY <1>6, <1>9, <2>1, <2>2
<1>11. \A i \in 1 .. at - 1 : enqueue(q, e)[i] = q[i] /\ q[i].ts <= e.ts
  BY <1>0, <1>1, <1>3, <1>8, <1>9 DEF cmp
<1>12. at <= Len(q) => e.ts < q[at].ts
  BY <1>0, <1>1, <1>3 DEF cmp
<1> QED
  BY <1>3, <1>8, <1>9, <1>10, <1>11, <1>12

(* An empty sequence has no numbers. *)
LEMMA IdsEmpty == Ids(<<>>) = {} /\ Distinct(<<>>)
  BY EmptySeq DEF Ids, Distinct

(* Removing the head removes its number. *)
LEMMA IdsTail ==
  ASSUME NEW s \in Seq(Entry), s # <<>>, Distinct(s)
  PROVE  /\ Head(s) \in Entry /\ Head(s).id \in Ids(s)
         /\ Ids(Tail(s)) = Ids(s) \ {Head(s).id} /\ Distinct(Tail(s))
<1>1. /\ Len(s) \in Nat /\ Len(s) # 0 /\ Head(s) = s[1] /\ Head(s) \in Entry
      /\ Len(Tail(s)) = Len(s) - 1
      /\ \A i \in 1 .. Len(s) - 1 : Tail(s)[i] = s[i + 1]
  BY LenProperties, EmptySeq, HeadTailProperties
<1>2. Head(s).id \in Ids(s)
  BY <1>1 DEF Ids
<1>3. Distinct(Tail(s))
  BY <1>1 DEF Distinct
<1>4. Ids(Tail(s)) \subseteq Ids(s) \ {Head(s).id}
  BY <1>1 DEF Ids, Distinct
<1>5. ASSUME NEW x \in Ids(s) \ {Head(s).id} PROVE x \in Ids(Tail(s))
  <2>1. PICK i \in 1 .. Len(s) : s[i].id = x
    BY DEF Ids
  <2>2. i - 1 \in 1 .. Len(s) - 1 /\ Tail(s)[i - 1] = s[i]
    BY <1>1, <2>1
  <2> QED
    BY <1>1, <2>1, <2>2 DEF Ids
<1> QED
  BY <1>1, <1>2, <1>3, <1>4, <1>5

(* Appending something with a new number adds the number. *)
LEMMA IdsAppend ==
  ASSUME NEW S, NEW s \in Seq(S), NEW e \in S
  PROVE  /\ Ids(Append(s, e)) = Ids(s) \cup {e.id}
         /\ Distinct(s) /\ e.id \notin Ids(s) => Distinct(Append(s, e))
<1> DEFINE a == Append(s, e)
<1>1. Len(s) \in Nat /\ Len(a) = Len(s) + 1 /\ a[Len(s) + 1] = e
      /\ \A i \in 1 .. Len(s) : a[i] = s[i]
  BY AppendProperties, LenProperties
<1> HIDE DEF a
<1>2. Ids(a) = Ids(s) \cup {e.id}
  BY <1>1 DEF Ids
<1>3. Distinct(s) /\ e.id \notin Ids(s) => Distinct(a)
  BY <1>1 DEF Distinct, Ids
<1> QED
  BY <1>2, <1>3 DEF a

(* So does enqueueing it, wherever it goes. *)
LEMMA IdsEnqueue ==
  ASSUME NEW q \in Seq(Entry), NEW e \in Entry
  PROVE  /\ Ids(enqueue(q, e)) = Ids(q) \cup {e.id}
         /\ Distinct(q) /\ e.id \notin Ids(q) => Distinct(enqueue(q, e))
<1> DEFINE r == enqueue(q, e)
<1>1. PICK at \in 1 .. Len(q) + 1 :
        /\ \A i \in 1 .. at - 1 : r[i] = q[i]
        /\ r[at] = e
        /\ \A i \in at .. Len(q) : r[i + 1] = q[i]
  BY EnqueueShape
<1>2. Len(q) \in Nat /\ Len(r) = Len(q) + 1
  BY EnqueueType, LenProperties
<1> HIDE DEF r
<1>3. \A i \in 1 .. Len(r) :
        \/ i < at /\ i \in 1 .. Len(q) /\ r[i] = q[i]
        \/ i = at /\ r[i] = e
        \/ i > at /\ i - 1 \in 1 .. Len(q) /\ r[i] = q[i - 1]
  <2> TAKE i \in 1 .. Len(r)
  <2>1. CASE i > at
    <3>1. i - 1 \in at .. Len(q) /\ (i - 1) + 1 = i
      BY <1>2, <2>1
    <3> QED
      BY <1>1, <1>2, <2>1, <3>1
  <2> QED
    BY <1>1, <1>2, <2>1
<1>4. \A i \in 1 .. Len(q) : \E j \in 1 .. Len(r) : r[j] = q[i]
  BY <1>1, <1>2
<1>5. Ids(r) \subseteq Ids(q) \cup {e.id}
  BY <1>3 DEF Ids
<1>6. Ids(q) \cup {e.id} \subseteq Ids(r)
  BY <1>1, <1>2, <1>4 DEF Ids
<1>7. ASSUME Distinct(q), e.id \notin Ids(q),
             NEW i \in 1 .. Len(r), NEW j \in 1 .. Len(r), r[i].id = r[j].id
      PROVE  i = j
  <2>1. \A k \in 1 .. Len(q) : q[k].id # e.id
    BY <1>7 DEF Ids
  <2>2. i \in Int /\ j \in Int /\ at \in Int
    BY <1>2
  <2>3. \A k, l \in 1 .. Len(q) : q[k].id = q[l].id => k = l
    BY <1>7 DEF Distinct
  <2>4. \/ i < at /\ i \in 1 .. Len(q) /\ r[i] = q[i]
        \/ i = at /\ r[i] = e
        \/ i > at /\ i - 1 \in 1 .. Len(q) /\ r[i] = q[i - 1]
    BY <1>3
  <2>5. \/ j < at /\ j \in 1 .. Len(q) /\ r[j] = q[j]
        \/ j = at /\ r[j] = e
        \/ j > at /\ j - 1 \in 1 .. Len(q) /\ r[j] = q[j - 1]
    BY <1>3
  <2>6. i = at <=> j = at
    BY <1>7, <2>1, <2>2, <2>4, <2>5
  <2>7. CASE i < at /\ j < at
    BY <1>7, <2>2, <2>3, <2>4, <2>5, <2>7
  <2>8. CASE i < at /\ j > at
    <3>1. i = j - 1
      BY <1>7, <2>2, <2>3, <2>4, <2>5, <2>8
    <3> QED
      BY <2>2, <2>8, <3>1
  <2>9. CASE i > at /\ j < at
    <3>1. i - 1 = j
      BY <1>7, <2>2, <2>3, <2>4, <2>5, <2>9
    <3> QED
      BY <2>2, <2>9, <3>1
  <2>10. CASE i > at /\ j > at
    <3>1. i - 1 = j - 1
      BY <1>7, <2>2, <2>3, <2>4, <2>5, <2>10
    <3> QED
      BY <2>2, <3>1
  <2> QED
    BY <2>2, <2>6, <2>7, <2>8, <2>9, <2>10
<1> QED
  BY <1>5, <1>6, <1>7 DEF r, Distinct

-----------------------------------------------------------------------------
(* What the steps do to the entries. *)

(* A write appends an entry with the next number to one device, whose     *)
(* oldest entry may be lost to it.                                        *)
wrote(d, kept, e) ==
  /\ kept \in Seq(Entry) /\ e \in Entry /\ e.id = nwritten + 1
  /\ e.ts \in 0 .. MaxClock /\ nwritten < MaxWrites
  /\ kept = log[d] \/ (log[d] # <<>> /\ kept = Tail(log[d]))
  /\ log'[d] = Append(kept, e) /\ \A x \in Dev \ {d} : log'[x] = log[x]
  /\ nwritten' = nwritten + 1
  /\ UNCHANGED <<queue, printed, queued_lines, out, taken, pc>>

(* The device is left empty. *)
cleared(d) ==
  /\ log'[d] = <<>> /\ \A x \in Dev \ {d} : log'[x] = log[x]
  /\ UNCHANGED <<nwritten, queue, printed, queued_lines, out, taken, pc>>

(* The oldest unread entry of the device moves to its queue. *)
moved(d) ==
  /\ log[d] # <<>> /\ Head(log[d]) \in Entry
  /\ queue'[d] = enqueue(queue[d], Head(log[d]))
  /\ log'[d] = Tail(log[d])
  /\ \A x \in Dev \ {d} : log'[x] = log[x] /\ queue'[x] = queue[x]
  /\ taken' = taken \cup {Head(log[d]).id}
  /\ queued_lines' = queued_lines + 1 /\ pc = "read"
  /\ UNCHANGED <<nwritten, printed, out, pc>>

(* The head of a queue moves to the output. *)
left(d, kind) ==
  /\ d = chooseFirst(queue) /\ queue[d] # <<>> /\ Head(queue[d]) \in Entry
  /\ queue'[d] = Tail(queue[d]) /\ \A x \in Dev \ {d} : queue'[x] = queue[x]
  /\ out' = Append(out, [kind |-> kind, dev |-> d, id |-> Head(queue[d]).id,
                         ts |-> Head(queue[d]).ts, hdr |-> maybePrintStart(d)])
  /\ out' \in Seq(Record)
  /\ printed'[d] /\ \A x \in Dev \ {d} : printed'[x] = printed[x]
  /\ queued_lines' = queued_lines - 1 /\ pc \in {"emit", "drain"}
  /\ UNCHANGED <<nwritten, log, taken, pc>>

still == UNCHANGED <<nwritten, log, queue, printed, queued_lines, out, taken>>

(* A write is such a step. *)
LEMMA WriteEffect ==
  ASSUME TypeOK, NEW d \in Dev, NEW show \in Shows, Write(d, show)
  PROVE  \E kept, e : wrote(d, kept, e)
<1>1. PICK now \in 0 .. MaxClock :
        log' = [log EXCEPT ![d] =
                  (IF Len(log[d]) < RingCap THEN log[d] ELSE Tail(log[d]))
                    \o <<[id |-> nwritten + 1, ts |-> now, show |-> show]>>]
  BY DEF Write
<1> DEFINE e == [id |-> nwritten + 1, ts |-> now, show |-> show]
           kept == IF Len(log[d]) < RingCap THEN log[d] ELSE Tail(log[d])
<1>2. log \in [Dev -> Seq(Entry)] /\ nwritten \in Nat
  BY DEF TypeOK
<1>3. e \in Entry /\ e.id = nwritten + 1 /\ e.ts = now
  BY <1>2, SwitchAssumption, BoundsAssumption DEF Entry
<1>4. /\ kept \in Seq(Entry)
      /\ kept = log[d] \/ (log[d] # <<>> /\ kept = Tail(log[d]))
  <2>1. CASE Len(log[d]) < RingCap
    BY <1>2, <2>1
  <2>2. CASE ~(Len(log[d]) < RingCap)
    <3>1. log[d] # <<>>
      BY <1>2, <2>2, EmptySeq, BoundsAssumption
    <3>2. Tail(log[d]) \in Seq(Entry)
      BY <1>2, <3>1, HeadTailProperties
    <3> QED
      BY <2>2, <3>1, <3>2
  <2> QED
    BY <2>1, <2>2
<1>5. log'[d] = kept \o <<e>> /\ \A x \in Dev \ {d} : log'[x] = log[x]
  BY <1>1, <1>2
<1> HIDE DEF e, kept
<1>6. kept \o <<e>> = Append(kept, e)
  BY <1>3, <1>4, AppendIsConcat
<1>7. nwritten < MaxWrites /\ nwritten' = nwritten + 1
      /\ UNCHANGED <<queue, printed, queued_lines, out, taken, pc>>
  BY DEF Write, queues
<1>8. wrote(d, kept, e)
  BY <1>3, <1>4, <1>5, <1>6, <1>7 DEF wrote
<1> QED
  BY <1>8

(* Every dequeueing step is such a step, of the device whose head is      *)
(* oldest.                                                                *)
LEMMA DequeueEffect ==
  ASSUME TypeOK, Emit \/ Drain
  PROVE  \E d \in Dev, kind \in Kind :
           /\ dequeue(d, kind) /\ left(d, kind)
           /\ kind = "skip" <=> (IF pc = "emit" THEN TailLines # 0 ELSE ~tailPrints)
           /\ kind = "skip" \/ kind \in processBuffer(Head(queue[d]))
<1> DEFINE d == chooseFirst(queue)
           prints == IF pc = "emit" THEN TailLines = 0 ELSE tailPrints
<1>1. d \in Dev /\ queue[d] # <<>>
  BY ChooseFirst DEF Emit, mayEmit, Drain, TypeOK
<1> HIDE DEF d
<1>2. PICK kind \in Kind :
        /\ dequeue(d, kind) /\ (kind = "skip" <=> ~prints)
        /\ kind = "skip" \/ kind \in processBuffer(Head(queue[d]))
  <2>1. IF prints THEN printNextEntry(d) ELSE skipNextEntry(d)
    BY DEF Emit, Drain, d
  <2>2. CASE prints
    <3>1. PICK kind \in processBuffer(Head(queue[d])) : dequeue(d, kind)
      BY <2>1, <2>2 DEF printNextEntry
    <3>2. kind \in Kind /\ kind # "skip"
      BY DEF processBuffer, Kind
    <3> QED
      BY <2>2, <3>1, <3>2
  <2>3. CASE ~prints
    BY <2>1, <2>3 DEF skipNextEntry, Kind
  <2> QED
    BY <2>2, <2>3
<1>3. /\ UNCHANGED <<nwritten, log, taken, pc>> /\ pc \in {"emit", "drain"}
      /\ queued_lines' = queued_lines - 1
  BY <1>2 DEF Emit, Drain, devices, dequeue
<1>4. Head(queue[d]) \in Entry
  BY <1>1, HeadTailProperties DEF TypeOK
<1>5. /\ queue'[d] = Tail(queue[d]) /\ \A x \in Dev \ {d} : queue'[x] = queue[x]
      /\ out' = Append(out, [kind |-> kind, dev |-> d, id |-> Head(queue[d]).id,
                             ts |-> Head(queue[d]).ts, hdr |-> maybePrintStart(d)])
  BY <1>1, <1>2 DEF dequeue, TypeOK
<1>6. printed'[d] /\ \A x \in Dev \ {d} : printed'[x] = printed[x]
  BY <1>1, <1>2 DEF dequeue, TypeOK
<1>7. out' \in Seq(Record)
  BY <1>1, <1>2, DequeueType
<1>8. left(d, kind)
  BY <1>1, <1>3, <1>4, <1>5, <1>6, <1>7 DEF left, d
<1>9. kind = "skip" <=> (IF pc = "emit" THEN TailLines # 0 ELSE ~tailPrints)
  BY <1>2
<1> QED
  BY <1>1, <1>2, <1>8, <1>9

(* Every step of the system is one of the five. *)
LEMMA StepKinds ==
  ASSUME TypeOK, [Next]_vars
  PROVE  \/ \E d \in Dev : \E kept, e : wrote(d, kept, e)
         \/ \E d \in Dev : cleared(d)
         \/ \E d \in Dev : moved(d)
         \/ \E d \in Dev, kind \in Kind : left(d, kind)
         \/ still
<1>1. CASE UNCHANGED vars
  BY <1>1 DEF vars, still
<1>2. ASSUME NEW d \in Dev, NEW show \in Shows, Write(d, show)
      PROVE  \E kept, e : wrote(d, kept, e)
  BY <1>2, WriteEffect
<1>3. ASSUME NEW d \in Dev, clear_log(d) PROVE cleared(d)
  BY <1>3 DEF clear_log, cleared, queues, TypeOK
<1>4. CASE Read
  <2>1. dev \in Dev /\ log[dev] # <<>> /\ Head(log[dev]) \in Entry
    BY <1>4, HeadTailProperties DEF Read, TypeOK
  <2>2. moved(dev)
    BY <1>4, <2>1 DEF Read, moved, TypeOK
  <2> QED
    BY <2>1, <2>2
<1>5. CASE Emit \/ Drain
  BY <1>5, DequeueEffect
<1>6. CASE \/ PollDevice \/ SelectReady \/ SelectWakes \/ SelectTimeout \/ NotReadable
           \/ ReadInterrupted \/ ReadFails \/ ReadDone \/ EmitDone \/ DrainDone
           \/ OutputFails
  BY <1>6 DEF PollDevice, SelectReady, SelectWakes, SelectTimeout, NotReadable,
              ReadInterrupted, ReadFails, ReadDone, EmitDone, DrainDone, OutputFails,
              devices, queues, still
<1> QED
  BY <1>1, <1>2, <1>3, <1>4, <1>5, <1>6 DEF Next, read_log_lines

-----------------------------------------------------------------------------
(* Each entry is in one place. *)

(* The number of a written entry is new, and is in the device's part.     *)
LEMMA WroteIds ==
  ASSUME TypeOK, Apart, NEW d \in Dev, NEW kept, NEW e, wrote(d, kept, e)
  PROVE  /\ Ids(log'[d]) \subseteq Ids(log[d]) \cup {nwritten + 1}
         /\ Distinct(log'[d])
<1>1. kept \in Seq(Entry) /\ e \in Entry /\ e.id = nwritten + 1
      /\ log'[d] = Append(kept, e)
  BY DEF wrote
<1>2. Ids(kept) \subseteq Ids(log[d]) /\ Distinct(kept)
  <2>1. log[d] \in Seq(Entry) /\ Distinct(log[d])
    BY DEF TypeOK, Apart
  <2>2. CASE kept = log[d]
    BY <2>1, <2>2
  <2>3. CASE log[d] # <<>> /\ kept = Tail(log[d])
    BY <2>1, <2>3, IdsTail
  <2> QED
    BY <2>2, <2>3 DEF wrote
<1>3. nwritten + 1 \notin Ids(kept)
  <2>1. Ids(log[d]) \subseteq 1 .. nwritten /\ nwritten \in Nat
    BY DEF Apart, TypeOK
  <2> QED
    BY <1>2, <2>1
<1> QED
  BY <1>1, <1>2, <1>3, IdsAppend

(* A read takes one number from the device's part to the queue's. *)
LEMMA MovedIds ==
  ASSUME TypeOK, Apart, NEW d \in Dev, moved(d)
  PROVE  /\ Head(log[d]).id \in Ids(log[d])
         /\ Ids(log'[d]) = Ids(log[d]) \ {Head(log[d]).id}
         /\ Distinct(log'[d])
         /\ Ids(queue'[d]) = Ids(queue[d]) \cup {Head(log[d]).id}
         /\ Distinct(queue'[d])
<1>1. log[d] \in Seq(Entry) /\ queue[d] \in Seq(Entry)
  BY DEF TypeOK
<1>2. log[d] # <<>> /\ log'[d] = Tail(log[d]) /\ Head(log[d]) \in Entry
      /\ queue'[d] = enqueue(queue[d], Head(log[d]))
  BY DEF moved
<1>3. Distinct(log[d]) /\ Distinct(queue[d]) /\ Ids(queue[d]) \cap Ids(log[d]) = {}
  BY DEF Apart
<1>4. /\ Head(log[d]).id \in Ids(log[d])
      /\ Ids(log'[d]) = Ids(log[d]) \ {Head(log[d]).id} /\ Distinct(log'[d])
  BY <1>1, <1>2, <1>3, IdsTail
<1>5. Head(log[d]).id \notin Ids(queue[d])
  BY <1>3, <1>4
<1> QED
  BY <1>1, <1>2, <1>3, <1>4, <1>5, IdsEnqueue

(* A dequeue takes one number from the queue's to the output's. *)
LEMMA LeftIds ==
  ASSUME TypeOK, Apart, NEW d \in Dev, NEW kind \in Kind, left(d, kind)
  PROVE  /\ Head(queue[d]).id \in Ids(queue[d])
         /\ Ids(queue'[d]) = Ids(queue[d]) \ {Head(queue[d]).id}
         /\ Distinct(queue'[d])
         /\ Ids(out') = Ids(out) \cup {Head(queue[d]).id}
         /\ Distinct(out')
         /\ Len(out') = Len(out) + 1
<1> DEFINE r == [kind |-> kind, dev |-> d, id |-> Head(queue[d]).id,
                 ts |-> Head(queue[d]).ts, hdr |-> maybePrintStart(d)]
<1>1. queue[d] \in Seq(Entry) /\ out \in Seq(Record)
  BY DEF TypeOK
<1>2. queue[d] # <<>> /\ queue'[d] = Tail(queue[d]) /\ out' = Append(out, r)
  BY DEF left
<1>3. Distinct(queue[d]) /\ Distinct(out) /\ Ids(queue[d]) \cap Ids(out) = {}
  BY DEF Apart
<1>4. /\ Head(queue[d]).id \in Ids(queue[d])
      /\ Ids(queue'[d]) = Ids(queue[d]) \ {Head(queue[d]).id} /\ Distinct(queue'[d])
  BY <1>1, <1>2, <1>3, IdsTail
<1>5. r.id = Head(queue[d]).id
  OBVIOUS
<1>6. out \in Seq(Record \cup {r}) /\ r \in Record \cup {r}
  BY <1>1, SeqMonotonic
<1> HIDE DEF r
<1>7. Ids(out') = Ids(out) \cup {r.id} /\ (r.id \notin Ids(out) => Distinct(out'))
  BY <1>2, <1>3, <1>6, IdsAppend
<1>8. Len(out') = Len(out) + 1
  BY <1>2, <1>6, AppendProperties
<1> QED
  BY <1>3, <1>4, <1>5, <1>7, <1>8

(* Nothing is anywhere at the start, so nothing is there twice, *)
LEMMA ApartInit ==
  ASSUME Init PROVE Apart
<1>1. /\ \A d \in Dev : log[d] = <<>> /\ queue[d] = <<>>
      /\ out = <<>>
  BY DEF Init
<1> QED
  BY <1>1, IdsEmpty DEF Apart

(* No step puts an entry in two places. *)
LEMMA ApartStep ==
  ASSUME TypeOK, Apart, [Next]_vars
  PROVE  Apart'
<1>0. /\ \A x \in Dev : Distinct(queue[x]) /\ Distinct(log[x])
      /\ \A x \in Dev : Ids(queue[x]) \subseteq 1 .. nwritten /\ Ids(log[x]) \subseteq 1 .. nwritten
      /\ \A x, y \in Dev : /\ Ids(queue[x]) \cap Ids(log[y]) = {}
                           /\ x # y => /\ Ids(queue[x]) \cap Ids(queue[y]) = {}
                                       /\ Ids(log[x]) \cap Ids(log[y]) = {}
      /\ \A x \in Dev : Ids(queue[x]) \cap Ids(out) = {} /\ Ids(log[x]) \cap Ids(out) = {}
      /\ Ids(out) \subseteq 1 .. nwritten /\ Distinct(out) /\ nwritten \in Nat
  BY DEF Apart, TypeOK
<1>1. ASSUME NEW d \in Dev, NEW kept, NEW e, wrote(d, kept, e) PROVE Apart'
  <2>1. /\ nwritten' = nwritten + 1 /\ queue' = queue /\ out' = out
        /\ \A x \in Dev \ {d} : log'[x] = log[x]
    BY <1>1 DEF wrote
  <2>2. Ids(log'[d]) \subseteq Ids(log[d]) \cup {nwritten + 1} /\ Distinct(log'[d])
    BY <1>1, WroteIds
  <2>3. 1 .. nwritten' = 1 .. nwritten \cup {nwritten + 1} /\ nwritten + 1 \notin 1 .. nwritten
    BY <1>0, <2>1
  <2>4. \A x \in Dev : /\ Distinct(log'[x])
                       /\ Ids(log'[x]) \subseteq Ids(log[x]) \cup {nwritten + 1}
                       /\ x # d => Ids(log'[x]) = Ids(log[x])
    BY <1>0, <2>1, <2>2
  <2>5. \A x \in Dev : nwritten + 1 \notin Ids(queue[x]) /\ nwritten + 1 \notin Ids(log[x])
    BY <1>0, <2>3
  <2>6. nwritten + 1 \notin Ids(out)
    BY <1>0, <2>3
  <2>7. \A x \in Dev : /\ Distinct(queue'[x]) /\ Distinct(log'[x])
                       /\ Ids(queue'[x]) \subseteq 1 .. nwritten'
                       /\ Ids(log'[x]) \subseteq 1 .. nwritten'
    BY <1>0, <2>1, <2>3, <2>4
  <2>8. \A x, y \in Dev : Ids(queue'[x]) \cap Ids(log'[y]) = {}
    BY <1>0, <2>1, <2>4, <2>5
  <2>9. \A x, y \in Dev : x # y => /\ Ids(queue'[x]) \cap Ids(queue'[y]) = {}
                                   /\ Ids(log'[x]) \cap Ids(log'[y]) = {}
    BY <1>0, <2>1, <2>4, <2>5
  <2>10. \A x \in Dev : Ids(queue'[x]) \cap Ids(out') = {} /\ Ids(log'[x]) \cap Ids(out') = {}
    BY <1>0, <2>1, <2>4, <2>6
  <2>11. Distinct(out') /\ Ids(out') \subseteq 1 .. nwritten'
    BY <1>0, <2>1, <2>3
  <2> QED
    BY <2>7, <2>8, <2>9, <2>10, <2>11 DEF Apart
<1>2. ASSUME NEW d \in Dev, cleared(d) PROVE Apart'
  <2>1. \A x \in Dev : \/ log'[x] = log[x]
                       \/ Ids(log'[x]) = {} /\ Distinct(log'[x])
    BY <1>2, IdsEmpty DEF cleared
  <2>2. nwritten' = nwritten /\ queue' = queue /\ out' = out
    BY <1>2 DEF cleared
  <2> QED
    BY <1>0, <2>1, <2>2 DEF Apart
<1>3. ASSUME NEW d \in Dev, moved(d) PROVE Apart'
  <2> DEFINE id == Head(log[d]).id
  <2>1. /\ nwritten' = nwritten /\ out' = out
        /\ \A x \in Dev \ {d} : log'[x] = log[x] /\ queue'[x] = queue[x]
    BY <1>3 DEF moved
  <2>2. /\ id \in Ids(log[d])
        /\ Ids(log'[d]) = Ids(log[d]) \ {id} /\ Distinct(log'[d])
        /\ Ids(queue'[d]) = Ids(queue[d]) \cup {id} /\ Distinct(queue'[d])
    BY <1>3, MovedIds
  <2> HIDE DEF id
  <2>3. \A x \in Dev : /\ Distinct(queue'[x]) /\ Distinct(log'[x])
                       /\ Ids(queue'[x]) \subseteq 1 .. nwritten'
                       /\ Ids(log'[x]) \subseteq 1 .. nwritten'
    BY <1>0, <2>1, <2>2
  <2>4. \A x \in Dev : /\ Ids(log'[x]) \subseteq Ids(log[x]) /\ id \notin Ids(log'[x])
                       /\ Ids(queue'[x]) \subseteq Ids(queue[x]) \cup {id}
                       /\ x # d => Ids(queue'[x]) = Ids(queue[x]) /\ id \notin Ids(queue[x])
    BY <1>0, <2>1, <2>2
  <2>5. \A x, y \in Dev : Ids(queue'[x]) \cap Ids(log'[y]) = {}
    BY <1>0, <2>4
  <2>6. \A x, y \in Dev : x # y => /\ Ids(queue'[x]) \cap Ids(queue'[y]) = {}
                                   /\ Ids(log'[x]) \cap Ids(log'[y]) = {}
    BY <1>0, <2>4
  <2>7. id \notin Ids(out)
    BY <1>0, <2>2
  <2>8. \A x \in Dev : Ids(queue'[x]) \cap Ids(out') = {} /\ Ids(log'[x]) \cap Ids(out') = {}
    BY <1>0, <2>1, <2>4, <2>7
  <2>9. Distinct(out') /\ Ids(out') \subseteq 1 .. nwritten'
    BY <1>0, <2>1
  <2> QED
    BY <2>3, <2>5, <2>6, <2>8, <2>9 DEF Apart
<1>4. ASSUME NEW d \in Dev, NEW kind \in Kind, left(d, kind) PROVE Apart'
  <2> DEFINE id == Head(queue[d]).id
  <2>1. /\ nwritten' = nwritten /\ log' = log
        /\ \A x \in Dev \ {d} : queue'[x] = queue[x]
    BY <1>4 DEF left
  <2>2. /\ id \in Ids(queue[d])
        /\ Ids(queue'[d]) = Ids(queue[d]) \ {id} /\ Distinct(queue'[d])
        /\ Ids(out') = Ids(out) \cup {id} /\ Distinct(out')
    BY <1>4, LeftIds
  <2> HIDE DEF id
  <2>3. \A x \in Dev : /\ Distinct(queue'[x]) /\ Distinct(log'[x])
                       /\ Ids(queue'[x]) \subseteq 1 .. nwritten'
                       /\ Ids(log'[x]) \subseteq 1 .. nwritten'
    BY <1>0, <2>1, <2>2
  <2>4. \A x \in Dev : /\ Ids(queue'[x]) \subseteq Ids(queue[x])
                       /\ id \notin Ids(queue'[x]) /\ id \notin Ids(log'[x])
    BY <1>0, <2>1, <2>2
  <2>5. \A x, y \in Dev : /\ Ids(queue'[x]) \cap Ids(log'[y]) = {}
                          /\ x # y => /\ Ids(queue'[x]) \cap Ids(queue'[y]) = {}
                                      /\ Ids(log'[x]) \cap Ids(log'[y]) = {}
    BY <1>0, <2>1, <2>4
  <2>6. \A x \in Dev : Ids(queue'[x]) \cap Ids(out') = {} /\ Ids(log'[x]) \cap Ids(out') = {}
    BY <1>0, <2>1, <2>2, <2>4
  <2>7. Distinct(out') /\ Ids(out') \subseteq 1 .. nwritten'
    BY <1>0, <2>1, <2>2
  <2> QED
    BY <2>3, <2>5, <2>6, <2>7 DEF Apart
<1>5. CASE still
  BY <1>0, <1>5 DEF still, Apart
<1> QED
  BY <1>1, <1>2, <1>3, <1>4, <1>5, StepKinds

-----------------------------------------------------------------------------
(* Each entry read is accounted for, and counted. *)

(* The numbers of all the queues, queue by queue. *)
LEMMA QueuedNumbers ==
  ASSUME NEW q, \A d \in Dev : q[d] \in Seq(Entry)
  PROVE  \A x : x \in UNION {{q[d][i].id : i \in DOMAIN q[d]} : d \in Dev}
                  <=> \E d \in Dev : x \in Ids(q[d])
<1>1. \A d \in Dev : DOMAIN q[d] = 1 .. Len(q[d])
  BY LenProperties
<1>2. \A d \in Dev : {q[d][i].id : i \in DOMAIN q[d]} = Ids(q[d])
  BY <1>1 DEF Ids
<1> DEFINE part(d) == {q[d][i].id : i \in DOMAIN q[d]}
<1>3. \A d \in Dev : part(d) = Ids(q[d])
  BY <1>2
<1> HIDE DEF part
<1>4. \A x : x \in UNION {part(d) : d \in Dev} <=> \E d \in Dev : x \in Ids(q[d])
  BY <1>3
<1> QED
  BY <1>4 DEF part

(* The numbers of the output. *)
LEMMA OutNumbers ==
  ASSUME NEW o \in Seq(Record)
  PROVE  {o[i].id : i \in DOMAIN o} = Ids(o)
<1>1. DOMAIN o = 1 .. Len(o)
  BY LenProperties
<1> QED
  BY <1>1 DEF Ids

(* and nothing is to be accounted for. *)
LEMMA AccountedInit ==
  ASSUME Init PROVE Accounted
<1>1. /\ \A d \in Dev : queue[d] = <<>> /\ queue[d] \in Seq(Entry)
      /\ out = <<>> /\ out \in Seq(Record) /\ taken = {} /\ queued_lines = 0
  BY DEF Init
<1>2. queuedIds = {}
  BY <1>1, QueuedNumbers, IdsEmpty DEF queuedIds
<1>3. outIds = {}
  BY <1>1, OutNumbers, IdsEmpty DEF outIds
<1>4. Len(out) = 0
  BY <1>1, EmptySeq
<1>5. IsFiniteSet({}) /\ Cardinality({}) = 0
  BY FS_EmptySet
<1> QED
  BY <1>1, <1>2, <1>3, <1>4, <1>5 DEF Accounted, QueuedLinesExact

(* A step moves a number from the devices to the queues, or from the      *)
(* queues to the output, and the counters follow it.                      *)
LEMMA AccountedStep ==
  ASSUME TypeOK, Apart, Accounted, [Next]_vars, TypeOK'
  PROVE  Accounted'
<1>0. /\ taken = queuedIds \cup outIds
      /\ IsFiniteSet(outIds) /\ Cardinality(outIds) = Len(out)
      /\ IsFiniteSet(queuedIds) /\ queued_lines = Cardinality(queuedIds)
  BY DEF Accounted, QueuedLinesExact
<1>1. /\ \A x : x \in queuedIds <=> \E d \in Dev : x \in Ids(queue[d])
      /\ \A x : x \in queuedIds' <=> \E d \in Dev : x \in Ids(queue'[d])
  <2>1. (\A d \in Dev : queue[d] \in Seq(Entry)) /\ (\A d \in Dev : queue'[d] \in Seq(Entry))
    BY DEF TypeOK
  <2> QED
    BY <2>1, QueuedNumbers DEF queuedIds
<1>2. outIds = Ids(out) /\ outIds' = Ids(out')
  BY OutNumbers DEF TypeOK, outIds
<1>3. ASSUME NEW d \in Dev, moved(d) PROVE Accounted'
  <2> DEFINE id == Head(log[d]).id
  <2>1. /\ id \in Ids(log[d]) /\ Ids(queue'[d]) = Ids(queue[d]) \cup {id}
        /\ \A x \in Dev \ {d} : queue'[x] = queue[x]
    BY <1>3, MovedIds DEF moved
  <2>2. taken' = taken \cup {id} /\ queued_lines' = queued_lines + 1 /\ out' = out
    BY <1>3 DEF moved
  <2> HIDE DEF id
  <2>3. queuedIds' = queuedIds \cup {id}
    BY <1>1, <2>1
  <2>4. id \notin queuedIds
    BY <1>1, <2>1 DEF Apart
  <2>5. IsFiniteSet(queuedIds') /\ Cardinality(queuedIds') = Cardinality(queuedIds) + 1
    BY <1>0, <2>3, <2>4, FS_AddElement
  <2>6. outIds' = outIds
    BY <1>2, <2>2
  <2> QED
    BY <1>0, <2>2, <2>3, <2>5, <2>6 DEF Accounted, QueuedLinesExact
<1>4. ASSUME NEW d \in Dev, NEW kind \in Kind, left(d, kind) PROVE Accounted'
  <2> DEFINE id == Head(queue[d]).id
  <2>1. /\ id \in Ids(queue[d]) /\ Ids(queue'[d]) = Ids(queue[d]) \ {id}
        /\ Ids(out') = Ids(out) \cup {id} /\ Len(out') = Len(out) + 1
    BY <1>4, LeftIds
  <2>2. /\ \A x \in Dev \ {d} : queue'[x] = queue[x]
        /\ taken' = taken /\ queued_lines' = queued_lines - 1
    BY <1>4 DEF left
  <2> HIDE DEF id
  <2>3. \A x \in Dev \ {d} : id \notin Ids(queue[x])
    BY <2>1 DEF Apart
  <2>4. queuedIds' = queuedIds \ {id} /\ id \in queuedIds
    BY <1>1, <2>1, <2>2, <2>3
  <2>5. id \notin outIds
    BY <1>2, <2>1 DEF Apart
  <2>6. IsFiniteSet(queuedIds') /\ Cardinality(queuedIds') = Cardinality(queuedIds) - 1
    BY <1>0, <2>4, FS_RemoveElement
  <2>7. outIds' = outIds \cup {id}
    BY <1>2, <2>1
  <2>8. IsFiniteSet(outIds') /\ Cardinality(outIds') = Len(out')
    BY <1>0, <2>1, <2>5, <2>7, FS_AddElement
  <2>9. taken' = queuedIds' \cup outIds'
    BY <1>0, <2>2, <2>4, <2>7
  <2> QED
    BY <1>0, <2>2, <2>6, <2>8, <2>9 DEF Accounted, QueuedLinesExact
<1>5. CASE \/ \E d \in Dev : \E kept, e : wrote(d, kept, e)
           \/ \E d \in Dev : cleared(d)
           \/ still
  <2>1. UNCHANGED <<queue, out, taken, queued_lines>>
    BY <1>5 DEF wrote, cleared, still
  <2> QED
    BY <1>0, <2>1 DEF Accounted, QueuedLinesExact, queuedIds, outIds
<1> QED
  BY <1>3, <1>4, <1>5, StepKinds

(* Entries are apart and accounted for in every state. *)
LEMMA PlaceInvariant == Spec => []PlaceInv
<1>1. Init => PlaceInv
  BY TypeOKInit, ApartInit, AccountedInit DEF PlaceInv
<1>2. PlaceInv /\ [Next]_vars => PlaceInv'
  BY TypeOKStep, ApartStep, AccountedStep DEF PlaceInv
<1> QED
  BY <1>1, <1>2, PTL DEF Spec

(* No entry is read twice, dropped or duplicated between the devices, the *)
(* queues and the output: read, skip_next_entry and print_next_entry move *)
(* each exactly once, whatever is interrupted or fails.                   *)
THEOREM EveryEntryOnce == Spec => []TakenOnce
<1>1. ASSUME PlaceInv PROVE TakenOnce
  <2>1. /\ \A d \in Dev : queue[d] \in Seq(Entry) /\ Distinct(queue[d])
                          /\ Ids(queue[d]) \cap Ids(out) = {}
        /\ \A c, d \in Dev : c # d => Ids(queue[c]) \cap Ids(queue[d]) = {}
        /\ out \in Seq(Record)
    BY <1>1 DEF PlaceInv, TypeOK, Apart
  <2>2. \A x : x \in queuedIds <=> \E d \in Dev : x \in Ids(queue[d])
    BY <2>1, QueuedNumbers DEF queuedIds
  <2>3. outIds = Ids(out)
    BY <2>1, OutNumbers DEF outIds
  <2>4. queuedIds \cap outIds = {}
    BY <2>1, <2>2, <2>3
  <2>5. ASSUME NEW c \in Dev, NEW d \in Dev,
               NEW i \in 1 .. Len(queue[c]), NEW j \in 1 .. Len(queue[d]),
               queue[c][i].id = queue[d][j].id
        PROVE  c = d /\ i = j
    <3>1. queue[c][i].id \in Ids(queue[c]) /\ queue[d][j].id \in Ids(queue[d])
      BY DEF Ids
    <3>2. c = d
      BY <2>1, <2>5, <3>1
    <3> QED
      BY <2>1, <2>5, <3>2 DEF Distinct
  <2>6. taken = queuedIds \cup outIds /\ Cardinality(outIds) = Len(out)
    BY <1>1 DEF PlaceInv, Accounted
  <2> QED
    BY <2>4, <2>5, <2>6 DEF TakenOnce
<1>2. []PlaceInv => []TakenOnce
  BY <1>1, PTL
<1> QED
  BY <1>2, PlaceInvariant, PTL

(* queued_lines, which decides what -t drops, is at every step the number *)
(* of entries in the queues, although it is kept by separate increments   *)
(* and decrements.                                                        *)
THEOREM CounterIsExact == Spec => []QueuedLinesExact
<1>1. PlaceInv => QueuedLinesExact
  BY DEF PlaceInv, Accounted
<1> QED
  BY <1>1, PlaceInvariant, PTL

-----------------------------------------------------------------------------
(* Headers. *)

(* A dequeue adds one record to the output, which says what it dequeued. *)
LEMMA LeftRecord ==
  ASSUME TypeOK, NEW d \in Dev, NEW kind \in Kind, left(d, kind)
  PROVE  /\ Len(out) \in Nat /\ Len(out') = Len(out) + 1
         /\ \A i \in 1 .. Len(out) : out'[i] = out[i]
         /\ out'[Len(out) + 1].dev = d /\ out'[Len(out) + 1].kind = kind
         /\ out'[Len(out) + 1].id = Head(queue[d]).id
         /\ out'[Len(out) + 1].ts = Head(queue[d]).ts
         /\ out'[Len(out) + 1].hdr = maybePrintStart(d)
<1> DEFINE r == [kind |-> kind, dev |-> d, id |-> Head(queue[d]).id,
                 ts |-> Head(queue[d]).ts, hdr |-> maybePrintStart(d)]
<1>1. out \in Seq(Record \cup {r}) /\ r \in Record \cup {r} /\ out' = Append(out, r)
  BY SeqMonotonic DEF TypeOK, left
<1>2. /\ r.dev = d /\ r.kind = kind /\ r.id = Head(queue[d]).id
      /\ r.ts = Head(queue[d]).ts /\ r.hdr = maybePrintStart(d)
  OBVIOUS
<1> HIDE DEF r
<1>3. /\ Len(out) \in Nat /\ Len(out') = Len(out) + 1 /\ out'[Len(out) + 1] = r
      /\ \A i \in 1 .. Len(out) : out'[i] = out[i]
  BY <1>1, AppendProperties, LenProperties
<1> QED
  BY <1>2, <1>3

(* What leaves the output and the headers alone. *)
LEMMA OutputKept ==
  ASSUME TypeOK, [Next]_vars, ~ \E d \in Dev, kind \in Kind : left(d, kind)
  PROVE  out' = out /\ printed' = printed
  BY StepKinds DEF wrote, cleared, moved, still

(* Printing a header and marking the device as announced go together in   *)
(* every step that dequeues.                                              *)
LEMMA HeadersStep ==
  ASSUME TypeOK, Announced, HeadersLead, [Next]_vars
  PROVE  Announced' /\ HeadersLead'
<1>0. /\ DOMAIN out = 1 .. Len(out) /\ Len(out) \in Nat
      /\ \A x \in Dev : printed[x] <=> \E j \in 1 .. Len(out) : out[j].dev = x
      /\ \A i \in 1 .. Len(out) :
           out[i].hdr <=> g_dev_count > 1 /\ \A j \in 1 .. i - 1 : out[j].dev # out[i].dev
  BY LenProperties DEF TypeOK, Announced, HeadersLead
<1>1. ASSUME NEW d \in Dev, NEW kind \in Kind, left(d, kind)
      PROVE  Announced' /\ HeadersLead'
  <2> DEFINE n == Len(out) + 1
  <2>1. /\ Len(out') = n /\ \A i \in 1 .. Len(out) : out'[i] = out[i]
        /\ out'[n].dev = d /\ out'[n].hdr = maybePrintStart(d)
    BY <1>1, LeftRecord
  <2>2. /\ printed'[d] /\ \A x \in Dev \ {d} : printed'[x] = printed[x]
        /\ out' \in Seq(Record)
    BY <1>1 DEF left
  <2>3. DOMAIN out' = 1 .. n /\ 1 .. n = 1 .. Len(out) \cup {n} /\ n - 1 = Len(out) /\ n \in Nat
    BY <1>0, <2>1, <2>2, LenProperties
  <2>4. out'[n].hdr <=> ~printed[d] /\ g_dev_count > 1
    BY <2>1 DEF maybePrintStart
  <2>5. out'[n].hdr <=> g_dev_count > 1 /\ \A j \in 1 .. n - 1 : out'[j].dev # out'[n].dev
    <3>1. (\A j \in 1 .. n - 1 : out'[j].dev # out'[n].dev) <=> ~printed[d]
      BY <1>0, <2>1, <2>3
    <3> QED
      BY <2>4, <3>1
  <2>6. \A i \in 1 .. Len(out) :
          out'[i].hdr <=> g_dev_count > 1 /\ \A j \in 1 .. i - 1 : out'[j].dev # out'[i].dev
    <3> TAKE i \in 1 .. Len(out)
    <3>1. \A j \in 1 .. i - 1 : out'[j] = out[j]
      BY <1>0, <2>1
    <3> QED
      BY <1>0, <2>1, <3>1
  <2> HIDE DEF n
  <2>7. HeadersLead'
    BY <2>3, <2>5, <2>6 DEF HeadersLead
  <2>8. ASSUME NEW x \in Dev
        PROVE  printed'[x] <=> \E j \in 1 .. Len(out') : out'[j].dev = x
    <3>1. CASE x = d
      BY <2>1, <2>2, <2>3, <3>1
    <3>2. CASE x # d
      <4>1. printed'[x] = printed[x]
        BY <2>2, <3>2
      <4>2. (\E j \in 1 .. Len(out') : out'[j].dev = x) <=> \E j \in 1 .. Len(out) : out[j].dev = x
        BY <2>1, <2>3, <3>2
      <4> QED
        BY <1>0, <4>1, <4>2
    <3> QED
      BY <3>1, <3>2
  <2> QED
    BY <2>7, <2>8 DEF Announced
<1>2. CASE ~ \E d \in Dev, kind \in Kind : left(d, kind)
  <2>1. out' = out /\ printed' = printed
    BY <1>2, OutputKept
  <2> QED
    BY <2>1 DEF Announced, HeadersLead
<1> QED
  BY <1>1, <1>2

(* maybe_print_start prints one header per device, in front of the first  *)
(* entry dequeued from it, for any number of devices and any interleaving *)
(* of their queues.                                                       *)
THEOREM OneHeaderPerDevice == Spec => []HeadersLead
<1> DEFINE Inv == TypeOK /\ Announced /\ HeadersLead
<1>1. Init => Inv
  <2> SUFFICES ASSUME Init PROVE Announced /\ HeadersLead
    BY TypeOKInit
  <2>1. out = <<>> /\ \A d \in Dev : ~printed[d]
    BY DEF Init
  <2>2. Len(out) = 0 /\ DOMAIN out = {}
    BY <2>1, EmptySeq
  <2> QED
    BY <2>1, <2>2 DEF Announced, HeadersLead
<1>2. Inv /\ [Next]_vars => Inv'
  BY TypeOKStep, HeadersStep
<1> QED
  BY <1>1, <1>2, PTL DEF Spec

-----------------------------------------------------------------------------
(* The entries of one device. *)

(* What a tail holds. *)
LEMMA TailIndices ==
  ASSUME NEW s \in Seq(Entry), s # <<>>
  PROVE  /\ Len(s) \in Nat /\ Len(Tail(s)) = Len(s) - 1 /\ Tail(s) \in Seq(Entry)
         /\ Len(s) >= 1 /\ Head(s) = s[1]
         /\ \A i \in 1 .. Len(s) - 1 : i + 1 \in 1 .. Len(s) /\ Tail(s)[i] = s[i + 1]
<1>1. Len(s) \in Nat /\ Len(s) # 0
  BY LenProperties, EmptySeq
<1> QED
  BY <1>1, HeadTailProperties

(* The parts that speak of the unread entries survive the loss of the     *)
(* oldest of them.                                                        *)
LEMMA TailBehind ==
  ASSUME NEW d \in Dev, NEW l \in Seq(Entry), l # <<>>, NEW q, NEW o,
         Ascending(l), Behind(l, q), BehindOut(d, l, o)
  PROVE  /\ Ascending(Tail(l)) /\ Behind(Tail(l), q) /\ BehindOut(d, Tail(l), o)
<1>1. /\ Len(l) \in Nat /\ Len(Tail(l)) = Len(l) - 1
      /\ \A i \in 1 .. Len(l) - 1 : i + 1 \in 1 .. Len(l) /\ Tail(l)[i] = l[i + 1]
  BY TailIndices
<1>2. Ascending(Tail(l))
  BY <1>1 DEF Ascending
<1>3. Behind(Tail(l), q)
  BY <1>1 DEF Behind
<1>4. BehindOut(d, Tail(l), o)
  BY <1>1 DEF BehindOut
<1> QED
  BY <1>2, <1>3, <1>4

(* A log's entries are among its own, which a write that drops none of    *)
(* them needs.                                                            *)
LEMMA OwnElements ==
  ASSUME NEW s
  PROVE  \A i \in 1 .. Len(s) : \E j \in 1 .. Len(s) : s[i] = s[j]
OBVIOUS

(* A write keeps the order: the entry is younger than all. *)
LEMMA AppendOrder ==
  ASSUME NEW d \in Dev, NEW l \in Seq(Entry), NEW q \in Seq(Entry), NEW o \in Seq(Record),
         DeviceOrder(d, l, q, o), NEW kept,
         kept = l \/ (l # <<>> /\ kept = Tail(l)),
         NEW e \in Entry, NEW n \in Nat, e.id = n + 1,
         Ids(l) \subseteq 1 .. n, Ids(q) \subseteq 1 .. n, Ids(o) \subseteq 1 .. n
  PROVE  DeviceOrder(d, Append(kept, e), q, o)
<1>1. kept \in Seq(Entry) /\ Ascending(kept) /\ Behind(kept, q) /\ BehindOut(d, kept, o)
      /\ \A i \in 1 .. Len(kept) : \E j \in 1 .. Len(l) : kept[i] = l[j]
  <2>1. CASE kept = l
    <3>1. Ascending(l) /\ Behind(l, q) /\ BehindOut(d, l, o)
      BY DEF DeviceOrder
    <3>2. \A i \in 1 .. Len(l) : \E j \in 1 .. Len(l) : l[i] = l[j]
      BY OwnElements, Zenon
    <3> QED
      BY <2>1, <3>1, <3>2
  <2>2. CASE l # <<>> /\ kept = Tail(l)
    <3>1. /\ Len(l) \in Nat /\ Len(Tail(l)) = Len(l) - 1 /\ Tail(l) \in Seq(Entry)
          /\ \A i \in 1 .. Len(l) - 1 : i + 1 \in 1 .. Len(l) /\ Tail(l)[i] = l[i + 1]
      BY <2>2, TailIndices
    <3>2. Ascending(l) /\ Behind(l, q) /\ BehindOut(d, l, o)
      BY DEF DeviceOrder
    <3>3. Ascending(kept) /\ Behind(kept, q) /\ BehindOut(d, kept, o)
      BY <2>2, <3>2, TailBehind
    <3> QED
      BY <2>2, <3>1, <3>3
  <2> QED
    BY <2>1, <2>2
<1> DEFINE a == Append(kept, e)
<1>2. /\ Len(kept) \in Nat /\ Len(a) = Len(kept) + 1 /\ a[Len(kept) + 1] = e
      /\ \A i \in 1 .. Len(kept) : a[i] = kept[i]
  BY <1>1, AppendProperties, LenProperties
<1> HIDE DEF a
<1>3. 1 .. Len(a) = 1 .. Len(kept) \cup {Len(kept) + 1}
  BY <1>2
<1>4. /\ \A i \in 1 .. Len(kept) : kept[i].id \in Nat /\ kept[i].id < e.id
      /\ \A i \in 1 .. Len(q) : q[i].id < e.id
      /\ \A i \in 1 .. Len(o) : o[i].id < e.id
  <2>1. \A x \in 1 .. n : x \in Nat /\ x < e.id
    OBVIOUS
  <2>2. \A i \in 1 .. Len(l) : l[i].id \in Ids(l)
    BY DEF Ids
  <2>3. \A i \in 1 .. Len(q) : q[i].id \in Ids(q)
    BY DEF Ids
  <2>4. \A i \in 1 .. Len(o) : o[i].id \in Ids(o)
    BY DEF Ids
  <2>5. \A i \in 1 .. Len(kept) : kept[i].id \in Ids(l)
    BY <1>1, <2>2
  <2> QED
    BY <2>1, <2>3, <2>4, <2>5
<1>5. Ascending(a)
  <2> SUFFICES ASSUME NEW i \in 1 .. Len(a), NEW j \in 1 .. Len(a), i < j
               PROVE  a[i].id < a[j].id
    BY DEF Ascending
  <2>1. i \in 1 .. Len(kept) /\ a[i] = kept[i]
    BY <1>2
  <2>2. CASE j \in 1 .. Len(kept)
    <3>1. a[j] = kept[j] /\ kept[i].id < kept[j].id
      BY <1>1, <1>2, <2>1, <2>2 DEF Ascending
    <3> QED
      BY <2>1, <3>1
  <2>3. CASE j = Len(kept) + 1
    BY <1>2, <1>4, <2>1, <2>3
  <2> QED
    BY <1>3, <2>2, <2>3
<1>6. Behind(a, q)
  BY <1>1, <1>2, <1>3, <1>4 DEF Behind
<1>7. BehindOut(d, a, o)
  BY <1>1, <1>2, <1>3, <1>4 DEF BehindOut
<1> QED
  BY <1>5, <1>6, <1>7 DEF DeviceOrder, a

(* Emptying the device keeps it. *)
LEMMA EmptyOrder ==
  ASSUME NEW d \in Dev, NEW l, NEW q, NEW o, DeviceOrder(d, l, q, o)
  PROVE  DeviceOrder(d, <<>>, q, o)
<1> DEFINE none == <<>>
<1>1. Len(none) = 0
  BY EmptySeq
<1> HIDE DEF none
<1>2. Ascending(none) /\ Behind(none, q) /\ BehindOut(d, none, o)
  BY <1>1 DEF Ascending, Behind, BehindOut
<1> QED
  BY <1>2 DEF DeviceOrder, none

(* Reading keeps it: the entry is younger than all that were read, and    *)
(* the entries enqueue puts it in front of have a larger timestamp.       *)
LEMMA EnqueueOrder ==
  ASSUME NEW d \in Dev, NEW l \in Seq(Entry), NEW q \in Seq(Entry), NEW o \in Seq(Record),
         l # <<>>, DeviceOrder(d, l, q, o)
  PROVE  DeviceOrder(d, Tail(l), enqueue(q, Head(l)), o)
<1> DEFINE e == l[1]
           r == enqueue(q, e)
<1>1. /\ Len(l) \in Nat /\ Len(Tail(l)) = Len(l) - 1 /\ Len(l) >= 1 /\ Head(l) = e
      /\ \A i \in 1 .. Len(l) - 1 : i + 1 \in 1 .. Len(l) /\ Tail(l)[i] = l[i + 1]
  BY TailIndices
<1>2. e \in Entry /\ e.ts \in Nat /\ e.id \in Nat
  <2>1. e \in Entry
    BY <1>1, ElementOfSeq
  <2> QED
    BY <2>1 DEF Entry
<1>3. Len(q) \in Nat /\ Len(r) = Len(q) + 1
  BY <1>2, EnqueueType, LenProperties
<1>4. PICK at \in 1 .. Len(q) + 1 :
        /\ \A i \in 1 .. at - 1 : r[i] = q[i] /\ q[i].ts <= e.ts
        /\ r[at] = e
        /\ \A i \in at .. Len(q) : r[i + 1] = q[i]
        /\ at <= Len(q) => e.ts < q[at].ts
  BY <1>2, EnqueueShape
<1>5. \A i \in 1 .. Len(q) : q[i].ts \in Nat /\ q[i].id \in Nat
  <2>1. \A i \in 1 .. Len(q) : q[i] \in Entry
    BY ElementOfSeq
  <2>2. \A x \in Entry : x.ts \in Nat /\ x.id \in Nat
    BY DEF Entry
  <2> QED
    BY <2>1, <2>2
<1>6. \A i \in at .. Len(q) : e.ts < q[i].ts
  <2> TAKE i \in at .. Len(q)
  <2>1. q[at].ts <= q[i].ts /\ e.ts < q[at].ts
    BY <1>3, <1>4 DEF DeviceOrder, Sorted
  <2> QED
    BY <1>2, <1>3, <1>5, <2>1
<1>7. /\ Ascending(l) /\ Behind(l, q) /\ BehindOut(d, l, o)
      /\ Sorted(q) /\ Overtaken(q) /\ OvertakenByOut(d, q, o)
  BY DEF DeviceOrder
<1>8. /\ \A j \in 1 .. Len(q) : q[j].id < e.id
      /\ \A j \in 1 .. Len(o) : o[j].dev = d => o[j].id < e.id
  BY <1>1, <1>7 DEF Behind, BehindOut
<1> HIDE DEF e, r
<1>9. \A i \in 1 .. Len(r) :
        \/ i < at /\ i \in 1 .. Len(q) /\ r[i] = q[i]
        \/ i = at /\ r[i] = e
        \/ i > at /\ i - 1 \in at .. Len(q) /\ i - 1 \in 1 .. Len(q) /\ r[i] = q[i - 1]
  <2> TAKE i \in 1 .. Len(r)
  <2>1. CASE i > at
    <3>1. i - 1 \in at .. Len(q) /\ (i - 1) + 1 = i
      BY <1>3, <2>1
    <3> QED
      BY <1>3, <1>4, <2>1, <3>1
  <2> QED
    BY <1>3, <1>4, <2>1
<1>10. Ascending(Tail(l)) /\ BehindOut(d, Tail(l), o)
  BY <1>7, TailBehind
<1>11. Behind(Tail(l), r)
  <2> SUFFICES ASSUME NEW i \in 1 .. Len(Tail(l)), NEW j \in 1 .. Len(r)
               PROVE  r[j].id < Tail(l)[i].id
    BY DEF Behind
  <2>1. i + 1 \in 1 .. Len(l) /\ Tail(l)[i] = l[i + 1]
    BY <1>1
  <2>2. e.id < l[i + 1].id
    BY <1>1, <1>7, <2>1 DEF Ascending, e
  <2>3. \A k \in 1 .. Len(q) : q[k].id < l[i + 1].id
    BY <1>7, <2>1 DEF Behind
  <2> QED
    BY <1>9, <2>1, <2>2, <2>3
<1>12. ASSUME NEW i \in 1 .. Len(r), NEW j \in 1 .. Len(r), i < j
       PROVE  r[i].ts <= r[j].ts /\ overtakes(r[i], r[j])
  <2>0. i \in Int /\ j \in Int /\ at \in Int
    BY <1>3
  <2>1. CASE i < at /\ j < at
    <3>1. r[i] = q[i] /\ r[j] = q[j] /\ i \in 1 .. Len(q) /\ j \in 1 .. Len(q)
      BY <1>9, <2>0, <2>1
    <3>2. i <= j
      BY <1>12, <2>0
    <3> QED
      BY <1>7, <1>12, <3>1, <3>2 DEF Sorted, Overtaken
  <2>2. CASE i < at /\ j = at
    <3>1. r[i] = q[i] /\ r[j] = e /\ i \in 1 .. at - 1 /\ i \in 1 .. Len(q)
      BY <1>9, <2>0, <2>2
    <3> QED
      BY <1>2, <1>4, <1>5, <1>8, <3>1 DEF overtakes
  <2>3. CASE i < at /\ j > at
    <3>1. r[i] = q[i] /\ r[j] = q[j - 1] /\ i \in 1 .. Len(q) /\ j - 1 \in 1 .. Len(q) /\ i < j - 1
      BY <1>9, <2>0, <2>3
    <3> QED
      BY <1>7, <3>1 DEF Sorted, Overtaken
  <2>4. CASE i = at /\ j > at
    <3>1. r[i] = e /\ r[j] = q[j - 1] /\ j - 1 \in at .. Len(q) /\ j - 1 \in 1 .. Len(q)
      BY <1>9, <2>0, <2>4
    <3> QED
      BY <1>2, <1>5, <1>6, <3>1 DEF overtakes
  <2>5. CASE i > at /\ j > at
    <3>1. r[i] = q[i - 1] /\ r[j] = q[j - 1] /\ i - 1 \in 1 .. Len(q) /\ j - 1 \in 1 .. Len(q)
          /\ i - 1 < j - 1
      BY <1>9, <1>12, <2>0, <2>5
    <3> QED
      BY <1>7, <3>1 DEF Sorted, Overtaken
  <2> QED
    BY <1>12, <2>0, <2>1, <2>2, <2>3, <2>4, <2>5
<1>13. Overtaken(r)
  BY <1>12 DEF Overtaken
<1>14. Sorted(r)
  <2> SUFFICES ASSUME NEW i \in 1 .. Len(r), NEW j \in 1 .. Len(r), i <= j
               PROVE  r[i].ts <= r[j].ts
    BY DEF Sorted
  <2>1. r[i].ts \in Nat
    BY <1>2, <1>5, <1>9
  <2>2. i < j \/ i = j
    BY <1>3
  <2> QED
    BY <1>12, <2>1, <2>2
<1>15. OvertakenByOut(d, r, o)
  <2> SUFFICES ASSUME NEW i \in 1 .. Len(o), NEW j \in 1 .. Len(r), o[i].dev = d
               PROVE  overtakes(o[i], r[j])
    BY DEF OvertakenByOut
  <2>1. o[i].id < e.id /\ o[i].id \in Nat
    <3>1. o[i] \in Record /\ \A x \in Record : x.id \in Nat
      BY ElementOfSeq DEF Record
    <3> QED
      BY <1>8, <3>1
  <2>2. overtakes(o[i], e)
    BY <1>2, <2>1 DEF overtakes
  <2>3. \A k \in 1 .. Len(q) : overtakes(o[i], q[k])
    BY <1>7 DEF OvertakenByOut
  <2> QED
    BY <1>9, <2>2, <2>3
<1> QED
  BY <1>1, <1>10, <1>11, <1>13, <1>14, <1>15 DEF DeviceOrder, r

(* Dequeueing keeps it, for the device and for the others. *)
LEMMA LeaveOrder ==
  ASSUME NEW d \in Dev, NEW c \in Dev, NEW l \in Seq(Entry), NEW q \in Seq(Entry),
         NEW o, NEW p, Len(o) \in Nat, Len(p) = Len(o) + 1,
         \A i \in 1 .. Len(o) : p[i] = o[i],
         DeviceOrder(d, l, q, o), p[Len(o) + 1].dev = c,
         c = d => /\ q # <<>> /\ p[Len(o) + 1].id = Head(q).id
                  /\ p[Len(o) + 1].ts = Head(q).ts
  PROVE  DeviceOrder(d, l, IF c = d THEN Tail(q) ELSE q, p)
<1>1. 1 .. Len(p) = 1 .. Len(o) \cup {Len(o) + 1}
  OBVIOUS
<1>2. /\ Ascending(l) /\ Behind(l, q) /\ BehindOut(d, l, o)
      /\ Sorted(q) /\ Overtaken(q) /\ OvertakenByOut(d, q, o)
  BY DEF DeviceOrder
<1>3. CASE c # d
  <2>1. BehindOut(d, l, p)
    BY <1>1, <1>2, <1>3 DEF BehindOut
  <2>2. OvertakenByOut(d, q, p)
    BY <1>1, <1>2, <1>3 DEF OvertakenByOut
  <2> QED
    BY <1>2, <1>3, <2>1, <2>2 DEF DeviceOrder
<1>4. CASE c = d
  <2>1. /\ Len(q) \in Nat /\ Len(Tail(q)) = Len(q) - 1 /\ Len(q) >= 1 /\ Head(q) = q[1]
        /\ \A i \in 1 .. Len(q) - 1 : i + 1 \in 1 .. Len(q) /\ Tail(q)[i] = q[i + 1]
    BY <1>4, TailIndices
  <2> DEFINE r == p[Len(o) + 1]
  <2>2. r.dev = d /\ r.id = q[1].id /\ r.ts = q[1].ts
    BY <1>4, <2>1
  <2> HIDE DEF r
  <2>3. \A i \in 1 .. Len(p) : (i \in 1 .. Len(o) /\ p[i] = o[i]) \/ p[i] = r
    BY <1>1 DEF r
  <2>4. Behind(l, Tail(q))
    BY <1>2, <2>1 DEF Behind
  <2>5. BehindOut(d, l, p)
    <3> SUFFICES ASSUME NEW i \in 1 .. Len(l), NEW j \in 1 .. Len(p), p[j].dev = d
                 PROVE  p[j].id < l[i].id
      BY DEF BehindOut
    <3>1. r.id < l[i].id
      BY <1>2, <2>1, <2>2 DEF Behind
    <3> QED
      BY <1>2, <2>3, <3>1 DEF BehindOut
  <2>6. Sorted(Tail(q))
    BY <1>2, <2>1 DEF Sorted
  <2>7. Overtaken(Tail(q))
    <3> SUFFICES ASSUME NEW i \in 1 .. Len(q) - 1, NEW j \in 1 .. Len(q) - 1, i < j
                 PROVE  overtakes(q[i + 1], q[j + 1])
      BY <2>1 DEF Overtaken
    <3>1. i + 1 \in 1 .. Len(q) /\ j + 1 \in 1 .. Len(q) /\ i + 1 < j + 1
      BY <2>1
    <3> QED
      BY <1>2, <3>1 DEF Overtaken
  <2>8. OvertakenByOut(d, Tail(q), p)
    <3> SUFFICES ASSUME NEW i \in 1 .. Len(p), NEW j \in 1 .. Len(Tail(q)), p[i].dev = d
                 PROVE  overtakes(p[i], Tail(q)[j])
      BY DEF OvertakenByOut
    <3>1. Tail(q)[j] = q[j + 1] /\ j + 1 \in 1 .. Len(q) /\ 1 \in 1 .. Len(q) /\ 1 < j + 1
      BY <2>1
    <3>2. overtakes(q[1], q[j + 1])
      BY <1>2, <3>1 DEF Overtaken
    <3>3. overtakes(r, q[j + 1])
      BY <2>2, <3>2 DEF overtakes
    <3>4. \A k \in 1 .. Len(o) : o[k].dev = d => overtakes(o[k], q[j + 1])
      BY <1>2, <3>1 DEF OvertakenByOut
    <3> QED
      BY <2>3, <3>1, <3>3, <3>4
  <2> QED
    BY <1>2, <1>4, <2>4, <2>5, <2>6, <2>7, <2>8 DEF DeviceOrder
<1> QED
  BY <1>3, <1>4

(* The empty device, queue and output are in write order. *)
LEMMA OrderInvInit ==
  ASSUME Init PROVE OrderInv
<1>1. /\ \A d \in Dev : log[d] = <<>> /\ queue[d] = <<>>
      /\ out = <<>>
  BY DEF Init
<1>2. Len(out) = 0 /\ DOMAIN out = {} /\ \A d \in Dev : Len(log[d]) = 0 /\ Len(queue[d]) = 0
  BY <1>1, EmptySeq
<1>3. WriteOrder
  BY <1>2 DEF WriteOrder, DeviceOrder, Ascending, Behind, BehindOut, Sorted, Overtaken,
              OvertakenByOut
<1> QED
  BY <1>2, <1>3 DEF OrderInv, SameDeviceOrder

(* Every step keeps the entries of a device in order. *)
LEMMA OrderInvStep ==
  ASSUME TypeOK, Apart, OrderInv, [Next]_vars
  PROVE  OrderInv'
<1>0. /\ \A x \in Dev : /\ DeviceOrder(x, log[x], queue[x], out)
                        /\ log[x] \in Seq(Entry) /\ queue[x] \in Seq(Entry)
                        /\ Ids(log[x]) \subseteq 1 .. nwritten
                        /\ Ids(queue[x]) \subseteq 1 .. nwritten
      /\ Ids(out) \subseteq 1 .. nwritten /\ out \in Seq(Record) /\ nwritten \in Nat
  BY DEF OrderInv, WriteOrder, TypeOK, Apart
<1>1. ASSUME NEW d \in Dev, NEW kept, NEW e, wrote(d, kept, e) PROVE OrderInv'
  <2>1. /\ e \in Entry /\ e.id = nwritten + 1 /\ log'[d] = Append(kept, e)
        /\ kept = log[d] \/ (log[d] # <<>> /\ kept = Tail(log[d]))
        /\ \A x \in Dev \ {d} : log'[x] = log[x]
        /\ queue' = queue /\ out' = out
    BY <1>1 DEF wrote
  <2>2. DeviceOrder(d, log'[d], queue[d], out)
    BY <1>0, <2>1, AppendOrder
  <2>3. \A x \in Dev : DeviceOrder(x, log'[x], queue'[x], out')
    BY <1>0, <2>1, <2>2
  <2> QED
    BY <2>1, <2>3 DEF OrderInv, WriteOrder, SameDeviceOrder
<1>2. ASSUME NEW d \in Dev, cleared(d) PROVE OrderInv'
  <2>1. /\ log'[d] = <<>> /\ \A x \in Dev \ {d} : log'[x] = log[x]
        /\ queue' = queue /\ out' = out
    BY <1>2 DEF cleared
  <2>2. DeviceOrder(d, log'[d], queue[d], out)
    BY <1>0, <2>1, EmptyOrder
  <2>3. \A x \in Dev : DeviceOrder(x, log'[x], queue'[x], out')
    BY <1>0, <2>1, <2>2
  <2> QED
    BY <2>1, <2>3 DEF OrderInv, WriteOrder, SameDeviceOrder
<1>3. ASSUME NEW d \in Dev, moved(d) PROVE OrderInv'
  <2>1. /\ log[d] # <<>> /\ log'[d] = Tail(log[d])
        /\ queue'[d] = enqueue(queue[d], Head(log[d]))
        /\ \A x \in Dev \ {d} : log'[x] = log[x] /\ queue'[x] = queue[x]
        /\ out' = out
    BY <1>3 DEF moved
  <2>2. DeviceOrder(d, log'[d], queue'[d], out)
    BY <1>0, <2>1, EnqueueOrder
  <2>3. \A x \in Dev : DeviceOrder(x, log'[x], queue'[x], out')
    BY <1>0, <2>1, <2>2
  <2> QED
    BY <2>1, <2>3 DEF OrderInv, WriteOrder, SameDeviceOrder
<1>4. ASSUME NEW d \in Dev, NEW kind \in Kind, left(d, kind) PROVE OrderInv'
  <2> DEFINE n == Len(out) + 1
  <2>1. /\ Len(out) \in Nat /\ Len(out') = n
        /\ \A i \in 1 .. Len(out) : out'[i] = out[i]
        /\ out'[n].dev = d /\ out'[n].id = Head(queue[d]).id /\ out'[n].ts = Head(queue[d]).ts
    BY <1>4, LeftRecord
  <2>2. /\ queue[d] # <<>> /\ queue'[d] = Tail(queue[d]) /\ log' = log
        /\ \A x \in Dev \ {d} : queue'[x] = queue[x]
        /\ out' \in Seq(Record)
    BY <1>4 DEF left
  <2>3. ASSUME NEW x \in Dev PROVE DeviceOrder(x, log'[x], queue'[x], out')
    <3>1. DeviceOrder(x, log[x], IF d = x THEN Tail(queue[x]) ELSE queue[x], out')
      BY <1>0, <2>1, <2>2, LeaveOrder
    <3>2. queue'[x] = IF d = x THEN Tail(queue[x]) ELSE queue[x]
      BY <2>2
    <3> QED
      BY <2>2, <3>1, <3>2
  <2>4. SameDeviceOrder'
    <3>1. /\ DOMAIN out' = 1 .. Len(out') /\ DOMAIN out = 1 .. Len(out)
          /\ 1 .. Len(out') = 1 .. Len(out) \cup {n}
      BY <1>0, <2>1, <2>2, LenProperties
    <3>2. Head(queue[d]) = queue[d][1] /\ 1 \in 1 .. Len(queue[d])
      BY <1>0, <2>2, TailIndices
    <3>3. \A i \in 1 .. Len(out) : out[i].dev = d => overtakes(out[i], queue[d][1])
      BY <1>0, <3>2 DEF DeviceOrder, OvertakenByOut
    <3> SUFFICES ASSUME NEW i \in 1 .. Len(out'), NEW j \in 1 .. Len(out'),
                        i < j, out'[i].dev = out'[j].dev, out'[j].id < out'[i].id
                 PROVE  out'[i].ts < out'[j].ts
      BY <3>1 DEF SameDeviceOrder
    <3>4. i \in 1 .. Len(out) /\ out'[i] = out[i]
      BY <2>1
    <3>5. CASE j \in 1 .. Len(out)
      <4>1. out'[j] = out[j]
        BY <2>1, <3>5
      <4> QED
        BY <3>1, <3>4, <3>5, <4>1 DEF OrderInv, SameDeviceOrder
    <3>6. CASE j = n
      <4>1. overtakes(out[i], queue[d][1])
        BY <2>1, <3>3, <3>4, <3>6
      <4> QED
        BY <2>1, <3>2, <3>4, <3>6, <4>1 DEF overtakes
    <3> QED
      BY <3>1, <3>5, <3>6
  <2> QED
    BY <2>3, <2>4 DEF OrderInv, WriteOrder
<1>5. CASE still
  BY <1>5 DEF still, OrderInv, WriteOrder, SameDeviceOrder
<1> QED
  BY <1>1, <1>2, <1>3, <1>4, <1>5, StepKinds

(* The clock may be set back at any write: the entries of one device then *)
(* still leave in the order of the writes, except where the later one has *)
(* a strictly smaller timestamp.  enqueue is stable, for any length.      *)
THEOREM DeviceOrderKept == Spec => []SameDeviceOrder
<1> DEFINE Inv == TypeOK /\ Apart /\ OrderInv
<1>1. Init => Inv
  BY TypeOKInit, ApartInit, OrderInvInit
<1>2. Inv /\ [Next]_vars => Inv'
  BY TypeOKStep, ApartStep, OrderInvStep
<1>3. Inv => SameDeviceOrder
  BY DEF OrderInv
<1> QED
  BY <1>1, <1>2, <1>3, PTL DEF Spec

-----------------------------------------------------------------------------
(* What -t keeps. *)

(* The counter is a natural number, zero when the queues are empty. *)
LEMMA CounterOfEmpty ==
  ASSUME TypeOK, Accounted
  PROVE  /\ queued_lines \in Nat
         /\ chooseFirst(queue) = 0 => queued_lines = 0
<1>1. queued_lines = Cardinality(queuedIds) /\ IsFiniteSet(queuedIds)
  BY DEF Accounted, QueuedLinesExact
<1>2. queued_lines \in Nat
  BY <1>1, FS_CardinalityType
<1>3. ASSUME chooseFirst(queue) = 0 PROVE queued_lines = 0
  <2>1. \A d \in Dev : queue[d] = <<>>
    BY <1>3, ChooseFirst DEF TypeOK
  <2>2. \A d \in Dev : queue[d] \in Seq(Entry)
    BY DEF TypeOK
  <2>3. queuedIds = {}
    BY <2>1, <2>2, QueuedNumbers, IdsEmpty DEF queuedIds
  <2> QED
    BY <1>1, <2>3, FS_EmptySet
<1> QED
  BY <1>2, <1>3

(* Skipping stops when as many entries are queued as -t keeps, and        *)
(* draining drops exactly what is in front of those.                      *)
LEMMA TailStep ==
  ASSUME TypeOK, Accounted, TailKept, [Next]_vars
  PROVE  TailKept'
<1> SUFFICES ASSUME TailLines # 0 PROVE TailKept'
  BY DEF TailKept
<1> DEFINE Skipping(o, n) == /\ \A i \in 1 .. Len(o) : o[i].kind = "skip"
                             /\ Len(o) = 0 \/ n >= TailLines
           Draining(o, n) == \A i \in 1 .. Len(o) :
                               o[i].kind = "skip" <=> i <= Len(o) + n - TailLines
<1>0. /\ TailLines \in Int /\ Nonblock /\ queued_lines \in Nat /\ Len(out) \in Nat
      /\ pc \in {"poll", "read", "emit"} => Skipping(out, queued_lines)
      /\ pc \in {"drain", "exit"} => Draining(out, queued_lines)
      /\ pc = "exit" => queued_lines = 0
  BY TailAssumption, CounterOfEmpty, LenProperties DEF TypeOK, TailKept
<1>1. SUFFICES /\ pc' \in {"poll", "read", "emit"} => Skipping(out', queued_lines')
               /\ pc' \in {"drain", "exit"} => Draining(out', queued_lines')
               /\ pc' = "exit" => queued_lines' = 0
  BY DEF TailKept
<1>2. CASE out' = out /\ queued_lines' = queued_lines /\ pc' = pc
  BY <1>0, <1>2
<1>3. CASE moved(dev) /\ dev \in Dev
  <2>1. out' = out /\ queued_lines' = queued_lines + 1 /\ pc' = pc /\ pc = "read"
    BY <1>3 DEF moved
  <2> QED
    BY <1>0, <2>1
<1>4. CASE Emit \/ Drain
  <2>1. PICK d \in Dev, kind \in Kind :
          /\ left(d, kind)
          /\ kind = "skip" <=> (IF pc = "emit" THEN TailLines # 0 ELSE ~tailPrints)
    BY <1>4, DequeueEffect
  <2>2. /\ Len(out') = Len(out) + 1 /\ \A i \in 1 .. Len(out) : out'[i] = out[i]
        /\ out'[Len(out) + 1].kind = kind
    BY <2>1, LeftRecord
  <2>3. queued_lines' = queued_lines - 1 /\ pc' = pc /\ pc \in {"emit", "drain"}
    BY <2>1 DEF left
  <2>4. 1 .. Len(out') = 1 .. Len(out) \cup {Len(out) + 1}
    BY <1>0, <2>2
  <2>5. CASE pc = "emit"
    <3>1. queued_lines > TailLines
      BY <1>4, <2>5 DEF Emit, Drain, mayEmit
    <3>2. kind = "skip"
      BY <2>1, <2>5
    <3>3. Skipping(out', queued_lines')
      BY <1>0, <2>2, <2>3, <2>4, <2>5, <3>1, <3>2
    <3> QED
      BY <2>3, <2>5, <3>3
  <2>6. CASE pc = "drain"
    <3>1. kind = "skip" <=> queued_lines > TailLines
      BY <1>0, <2>1, <2>6 DEF tailPrints
    <3>2. Len(out') + queued_lines' - TailLines = Len(out) + queued_lines - TailLines
      BY <1>0, <2>2, <2>3
    <3>3. Len(out) + 1 <= Len(out) + queued_lines - TailLines <=> queued_lines > TailLines
      BY <1>0
    <3>4. Draining(out', queued_lines')
      BY <1>0, <2>2, <2>4, <2>6, <3>1, <3>2, <3>3
    <3> QED
      BY <2>3, <2>6, <3>4
  <2> QED
    BY <2>3, <2>5, <2>6
<1>5. CASE SelectTimeout
  <2>1. pc = "poll" /\ pc' = "drain" /\ out' = out /\ queued_lines' = queued_lines
    BY <1>5 DEF SelectTimeout, queues
  <2>2. Draining(out, queued_lines)
    BY <1>0, <2>1
  <2> QED
    BY <2>1, <2>2
<1>6. CASE \/ SelectReady \/ ReadInterrupted \/ ReadFails \/ ReadDone \/ EmitDone
           \/ OutputFails
  <2>1. /\ out' = out /\ queued_lines' = queued_lines
        /\ \/ pc \in {"poll", "read", "emit"} /\ pc' \in {"poll", "read", "emit"}
           \/ pc' = "failed"
    BY <1>6 DEF SelectReady, ReadInterrupted, ReadFails, ReadDone, EmitDone, OutputFails,
                nextRound, queues
  <2> QED
    BY <1>0, <2>1
<1>7. CASE DrainDone
  <2>1. /\ out' = out /\ queued_lines' = queued_lines /\ pc = "drain" /\ pc' = "exit"
        /\ chooseFirst(queue) = 0
    BY <1>0, <1>7 DEF DrainDone, queues
  <2>2. queued_lines = 0
    BY <2>1, CounterOfEmpty
  <2> QED
    BY <1>0, <2>1, <2>2
<1>8. CASE Read
  <2>1. dev \in Dev /\ log[dev] # <<>> /\ Head(log[dev]) \in Entry
    BY <1>8, HeadTailProperties DEF Read, TypeOK
  <2> QED
    BY <1>3, <1>8, <2>1 DEF Read, moved, TypeOK
<1>9. CASE \/ \E d \in Dev, show \in Shows : Write(d, show)
           \/ \E d \in Dev : clear_log(d)
           \/ PollDevice \/ SelectWakes \/ NotReadable \/ UNCHANGED vars
  BY <1>2, <1>9 DEF Write, clear_log, PollDevice, SelectWakes, NotReadable, queues, vars
<1> QED
  BY <1>4, <1>5, <1>6, <1>7, <1>8, <1>9 DEF Next, read_log_lines

(* dlogutil -t N ends having dropped everything but the last N entries    *)
(* dequeued, for any N and however many devices the entries come from:    *)
(* the skipping while input arrives and the skipping of the last drain    *)
(* add up.                                                                *)
THEOREM TailKeepsTheLast == Spec => []TailExact
<1>1. ASSUME Init PROVE TailKept
  <2>1. Len(out) = 0 /\ pc = "poll"
    BY <1>1, EmptySeq DEF Init
  <2> QED
    BY <2>1 DEF TailKept
<1>2. PlaceInv /\ TailKept /\ [Next]_vars => TailKept'
  BY TailStep DEF PlaceInv
<1>3. ASSUME PlaceInv, TailKept PROVE TailExact
  <2> SUFFICES ASSUME pc = "exit", TailLines # 0
               PROVE  \A i \in DOMAIN out : out[i].kind = "skip" <=> i <= Len(out) - TailLines
    BY DEF TailExact
  <2>1. DOMAIN out = 1 .. Len(out) /\ Len(out) \in Nat /\ TailLines \in Int
    BY <1>3, LenProperties, TailAssumption DEF PlaceInv, TypeOK
  <2>2. queued_lines = 0
    BY <1>3 DEF TailKept
  <2>3. \A i \in 1 .. Len(out) :
          out[i].kind = "skip" <=> i <= Len(out) + queued_lines - TailLines
    BY <1>3, Zenon DEF TailKept
  <2>4. Len(out) + queued_lines - TailLines = Len(out) - TailLines
    <3>1. \A n, m, t \in Int : m = 0 => n + m - t = n - t
      OBVIOUS
    <3>2. Len(out) \in Int /\ queued_lines \in Int
      BY <2>1, <2>2
    <3> QED
      BY <2>1, <2>2, <3>1, <3>2
  <2> QED
    BY <2>1, <2>3, <2>4
<1>4. Init /\ []PlaceInv /\ [][Next]_vars => []TailKept
  BY <1>1, <1>2, PTL
<1>5. []PlaceInv /\ []TailKept => []TailExact
  BY <1>3, PTL
<1> QED
  BY <1>4, <1>5, PlaceInvariant, PTL DEF Spec
=============================================================================
