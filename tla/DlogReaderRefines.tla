-------------------------- MODULE DlogReaderRefines --------------------------
(***************************************************************************)
(* Proof that DlogReader implements OrderedLog while the clock is not set  *)
(* back: whatever the number of devices, what the devices and the queues   *)
(* hold together behaves as one pool from which an oldest entry is taken.  *)
(*                                                                         *)
(* A write is a Log of the abstract specification, with the overwritten    *)
(* entry lost; clear_log is a Lose; a read moves an entry from a device to *)
(* its queue and is a stuttering step; each dequeue is an Emit.            *)
(***************************************************************************)
EXTENDS DlogReaderEntries

(* The items that the entries s of device d stand for, and the pool as a  *)
(* function of the queues and the unread entries.                         *)
Items(d, s) == {item(d, s[i]) : i \in 1 .. Len(s)}
Pool(q, l) ==
  UNION {{item(d, (q[d] \o l[d])[i]) : i \in DOMAIN (q[d] \o l[d])} : d \in Dev}

(* The fields of an item. *)
LEMMA ItemFields ==
  ASSUME NEW d, NEW e
  PROVE  item(d, e).dev = d /\ item(d, e).id = e.id /\ item(d, e).ts = e.ts
BY DEF item

(* Items of entries with different numbers differ. *)
LEMMA ItemsOf ==
  ASSUME NEW d, NEW s, NEW x \in Items(d, s)
  PROVE  x.dev = d /\ x.id \in Ids(s)
<1>1. PICK i \in 1 .. Len(s) : x = item(d, s[i])
  BY DEF Items
<1>2. s[i].id \in Ids(s)
  BY DEF Ids
<1> QED
  BY <1>1, <1>2, ItemFields

(* The items of a concatenation. *)
LEMMA ItemsConcat ==
  ASSUME NEW d, NEW q \in Seq(Entry), NEW l \in Seq(Entry)
  PROVE  {item(d, (q \o l)[i]) : i \in DOMAIN (q \o l)} = Items(d, q) \cup Items(d, l)
<1> DEFINE h == q \o l
           n == Len(q)
           m == Len(l)
<1>1. n \in Nat /\ m \in Nat
  BY LenProperties
<1>2. /\ h \in Seq(Entry) /\ Len(h) = n + m
      /\ \A i \in 1 .. n : h[i] = q[i]
      /\ \A i \in n + 1 .. n + m : h[i] = l[i - n]
  BY ConcatProperties
<1>3. DOMAIN h = 1 .. n + m
  BY <1>2, LenProperties
<1>4. Items(d, q) = {item(d, q[i]) : i \in 1 .. n} /\ Items(d, l) = {item(d, l[i]) : i \in 1 .. m}
  BY DEF Items
<1> HIDE DEF h, n, m
<1>5. \A i \in 1 .. n + m :
        \/ i \in 1 .. n /\ h[i] = q[i]
        \/ i - n \in 1 .. m /\ h[i] = l[i - n]
  <2> TAKE i \in 1 .. n + m
  <2>1. i \in 1 .. n \/ (i \in n + 1 .. n + m /\ i - n \in 1 .. m)
    BY <1>1
  <2> QED
    BY <1>2, <2>1
<1>6. \A i \in 1 .. m : n + i \in 1 .. n + m /\ h[n + i] = l[i]
  <2> TAKE i \in 1 .. m
  <2>1. n + i \in n + 1 .. n + m /\ n + i \in 1 .. n + m /\ (n + i) - n = i
    BY <1>1
  <2> QED
    BY <1>2, <2>1
<1>7. \A i \in 1 .. n : i \in 1 .. n + m
  BY <1>1
<1>8. {item(d, h[i]) : i \in 1 .. n + m} = Items(d, q) \cup Items(d, l)
  BY <1>2, <1>4, <1>5, <1>6, <1>7
<1>9. {item(d, h[i]) : i \in DOMAIN h} = Items(d, q) \cup Items(d, l)
  BY <1>3, <1>8
<1> QED
  BY <1>9 DEF h

(* The pool is the items of the queues and of the unread entries. *)
LEMMA PoolMembers ==
  ASSUME NEW q, NEW l, \A d \in Dev : q[d] \in Seq(Entry) /\ l[d] \in Seq(Entry)
  PROVE  \A x : x \in Pool(q, l)
                  <=> \E d \in Dev : x \in Items(d, q[d]) \/ x \in Items(d, l[d])
<1> DEFINE part(d) == {item(d, (q[d] \o l[d])[i]) : i \in DOMAIN (q[d] \o l[d])}
<1>1. \A d \in Dev : part(d) = Items(d, q[d]) \cup Items(d, l[d])
  BY ItemsConcat
<1> HIDE DEF part
<1>2. \A x : x \in UNION {part(d) : d \in Dev}
               <=> \E d \in Dev : x \in Items(d, q[d]) \/ x \in Items(d, l[d])
  BY <1>1
<1> QED
  BY <1>2 DEF part, Pool

(* Removing the head removes its item. *)
LEMMA ItemsTail ==
  ASSUME NEW d, NEW s \in Seq(Entry), s # <<>>, Distinct(s)
  PROVE  /\ item(d, Head(s)) \in Items(d, s)
         /\ Items(d, Tail(s)) = Items(d, s) \ {item(d, Head(s))}
<1>1. /\ Len(s) \in Nat /\ Len(Tail(s)) = Len(s) - 1 /\ Len(s) >= 1 /\ Head(s) = s[1]
      /\ \A i \in 1 .. Len(s) - 1 : i + 1 \in 1 .. Len(s) /\ Tail(s)[i] = s[i + 1]
  BY TailIndices
<1>2. item(d, Head(s)) \in Items(d, s)
  BY <1>1 DEF Items
<1>3. \A i \in 1 .. Len(s) : i # 1 => item(d, s[i]) # item(d, Head(s))
  <2>1. \A i \in 1 .. Len(s) : i # 1 => s[i].id # s[1].id
    BY <1>1 DEF Distinct
  <2> QED
    BY <1>1, <2>1, ItemFields
<1>4. ASSUME NEW x \in Items(d, Tail(s)) PROVE x \in Items(d, s) \ {item(d, Head(s))}
  <2>1. PICK i \in 1 .. Len(s) - 1 : x = item(d, Tail(s)[i])
    BY <1>1 DEF Items
  <2>2. x = item(d, s[i + 1]) /\ i + 1 \in 1 .. Len(s) /\ i + 1 # 1
    BY <1>1, <2>1
  <2> QED
    BY <1>3, <2>2 DEF Items
<1>5. ASSUME NEW x \in Items(d, s) \ {item(d, Head(s))} PROVE x \in Items(d, Tail(s))
  <2>1. PICK i \in 1 .. Len(s) : x = item(d, s[i])
    BY DEF Items
  <2>2. i # 1
    BY <1>1, <2>1
  <2>3. i - 1 \in 1 .. Len(s) - 1 /\ Tail(s)[i - 1] = s[i]
    BY <1>1, <2>2
  <2> QED
    BY <1>1, <2>1, <2>3 DEF Items
<1> QED
  BY <1>2, <1>4, <1>5

(* Appending an entry adds its item. *)
LEMMA ItemsAppend ==
  ASSUME NEW d, NEW s \in Seq(Entry), NEW e \in Entry
  PROVE  Items(d, Append(s, e)) = Items(d, s) \cup {item(d, e)}
<1> DEFINE a == Append(s, e)
<1>1. Len(s) \in Nat /\ Len(a) = Len(s) + 1 /\ a[Len(s) + 1] = e
      /\ \A i \in 1 .. Len(s) : a[i] = s[i]
  BY AppendProperties, LenProperties
<1> HIDE DEF a
<1>2. Items(d, a) = Items(d, s) \cup {item(d, e)}
  BY <1>1 DEF Items
<1> QED
  BY <1>2 DEF a

(* So does enqueueing it, wherever it goes. *)
LEMMA ItemsEnqueue ==
  ASSUME NEW d, NEW q \in Seq(Entry), NEW e \in Entry
  PROVE  Items(d, enqueue(q, e)) = Items(d, q) \cup {item(d, e)}
<1> DEFINE r == enqueue(q, e)
<1>1. PICK at \in 1 .. Len(q) + 1 :
        /\ \A i \in 1 .. at - 1 : r[i] = q[i]
        /\ r[at] = e
        /\ \A i \in at .. Len(q) : r[i + 1] = q[i]
  BY EnqueueShape
<1>2. Len(q) \in Nat /\ Len(r) = Len(q) + 1
  BY EnqueueType, LenProperties
<1> HIDE DEF r
<1>3. \A i \in 1 .. Len(r) : r[i] = e \/ \E j \in 1 .. Len(q) : r[i] = q[j]
  <2> TAKE i \in 1 .. Len(r)
  <2>1. CASE i > at
    <3>1. i - 1 \in at .. Len(q) /\ i - 1 \in 1 .. Len(q) /\ (i - 1) + 1 = i
      BY <1>2, <2>1
    <3>2. r[i] = q[i - 1]
      BY <1>1, <3>1
    <3> QED
      BY <3>1, <3>2
  <2>2. CASE i < at
    BY <1>1, <1>2, <2>2
  <2>3. CASE i = at
    BY <1>1, <2>3
  <2> QED
    BY <1>2, <2>1, <2>2, <2>3
<1>4. \A i \in 1 .. Len(q) : \E j \in 1 .. Len(r) : r[j] = q[i]
  BY <1>1, <1>2
<1>5. at \in 1 .. Len(r)
  BY <1>2
<1>6. Items(d, r) = Items(d, q) \cup {item(d, e)}
  BY <1>1, <1>3, <1>4, <1>5 DEF Items
<1> QED
  BY <1>6 DEF r

-----------------------------------------------------------------------------
(* Each kind of step, as a step of OrderedLog. *)

(* Items of different devices, and of different places of one device, are *)
(* different.                                                             *)
LEMMA ItemsApart ==
  ASSUME TypeOK, Apart, NEW c \in Dev, NEW d \in Dev
  PROVE  /\ Items(c, queue[c]) \cap Items(d, log[d]) = {}
         /\ c # d => /\ Items(c, queue[c]) \cap Items(d, queue[d]) = {}
                     /\ Items(c, log[c]) \cap Items(d, log[d]) = {}
<1>1. Ids(queue[c]) \cap Ids(log[d]) = {}
  BY DEF Apart
<1>2. Items(c, queue[c]) \cap Items(d, log[d]) = {}
  BY <1>1, ItemsOf
<1>3. c # d => /\ Items(c, queue[c]) \cap Items(d, queue[d]) = {}
               /\ Items(c, log[c]) \cap Items(d, log[d]) = {}
  BY ItemsOf
<1> QED
  BY <1>2, <1>3

(* What the pool holds, before and after a step. *)
LEMMA PoolHolds ==
  ASSUME TypeOK, TypeOK'
  PROVE  /\ \A x : x \in pool <=>
              \E d \in Dev : x \in Items(d, queue[d]) \/ x \in Items(d, log[d])
         /\ \A x : x \in pool' <=>
              \E d \in Dev : x \in Items(d, queue'[d]) \/ x \in Items(d, log'[d])
<1>1. \A d \in Dev : queue[d] \in Seq(Entry) /\ log[d] \in Seq(Entry)
  BY DEF TypeOK
<1>2. \A d \in Dev : queue'[d] \in Seq(Entry) /\ log'[d] \in Seq(Entry)
  BY DEF TypeOK
<1>3. pool = Pool(queue, log) /\ pool' = Pool(queue', log')
  BY DEF pool, held, Pool
<1> QED
  BY <1>1, <1>2, <1>3, PoolMembers

(* What has been shown is as long as the output. *)
LEMMA ShownIs ==
  ASSUME NEW o \in Seq(Record)
  PROVE  LET s == [i \in DOMAIN o |-> [dev |-> o[i].dev, id |-> o[i].id, ts |-> o[i].ts]]
         IN  /\ s \in Seq([dev : Dev, id : Nat, ts : Nat])
             /\ Len(s) = Len(o)
             /\ \A i \in 1 .. Len(o) : s[i] = [dev |-> o[i].dev, id |-> o[i].id, ts |-> o[i].ts]
<1> DEFINE f(i) == [dev |-> o[i].dev, id |-> o[i].id, ts |-> o[i].ts]
           s == [i \in 1 .. Len(o) |-> f(i)]
           S == [dev : Dev, id : Nat, ts : Nat]
<1>1. DOMAIN o = 1 .. Len(o) /\ Len(o) \in Nat
  BY LenProperties
<1>2. \A i \in 1 .. Len(o) : f(i) \in S
  <2>1. \A i \in 1 .. Len(o) : o[i] \in Record
    BY ElementOfSeq
  <2>2. \A x \in Record : x.dev \in Dev /\ x.id \in Nat /\ x.ts \in Nat
    BY DEF Record
  <2> QED
    BY <2>1, <2>2
<1> HIDE DEF f, S
<1>3. s \in Seq(S)
  <2>1. s \in [1 .. Len(o) -> S]
    BY <1>2
  <2> QED
    BY <1>1, <2>1, SeqDef
<1>4. Len(s) = Len(o) /\ \A i \in 1 .. Len(o) : s[i] = f(i)
  <2>1. DOMAIN s = 1 .. Len(o)
    OBVIOUS
  <2>2. 1 .. Len(s) = 1 .. Len(o) /\ Len(s) \in Nat
    BY <1>3, <2>1, LenProperties
  <2>3. \A n, m \in Nat : 1 .. n = 1 .. m => n = m
    OBVIOUS
  <2> QED
    BY <1>1, <2>2, <2>3
<1> QED
  BY <1>1, <1>3, <1>4 DEF f, S

(* A write logs a new entry; the one it overwrites, if any, is lost. *)
LEMMA WriteLogs ==
  ASSUME TypeOK, Apart, TypeOK', NEW d \in Dev, NEW kept, NEW e, wrote(d, kept, e)
  PROVE  Ordered!Next
<1> DEFINE x == item(d, e)
           lost == Items(d, log[d]) \ Items(d, kept)
<1>1. /\ kept \in Seq(Entry) /\ e \in Entry /\ e.id = nwritten + 1
      /\ e.ts \in 0 .. MaxClock /\ nwritten < MaxWrites
      /\ kept = log[d] \/ (log[d] # <<>> /\ kept = Tail(log[d]))
      /\ log'[d] = Append(kept, e) /\ \A y \in Dev \ {d} : log'[y] = log[y]
      /\ queue' = queue /\ out' = out
  BY DEF wrote
<1>2. nwritten \in Nat /\ MaxWrites \in Nat /\ log[d] \in Seq(Entry)
  BY BoundsAssumption DEF TypeOK
<1>3. x \in Item
  <2>1. e.id \in 1 .. MaxWrites
    BY <1>1, <1>2
  <2> QED
    BY <1>1, <2>1 DEF Item, item
<1>4. Items(d, kept) \subseteq Items(d, log[d])
  <2>1. CASE kept = log[d]
    BY <2>1
  <2>2. CASE log[d] # <<>> /\ kept = Tail(log[d])
    BY <1>2, <2>2, ItemsTail DEF Apart
  <2> QED
    BY <1>1, <2>1, <2>2
<1>5. Items(d, log'[d]) = Items(d, kept) \cup {x}
  BY <1>1, ItemsAppend
<1>6. \A y \in pool : y.id \in 1 .. nwritten
  <2> TAKE y \in pool
  <2>1. PICK c \in Dev : y \in Items(c, queue[c]) \/ y \in Items(c, log[c])
    BY PoolHolds
  <2>2. y.id \in Ids(queue[c]) \/ y.id \in Ids(log[c])
    BY <2>1, ItemsOf
  <2> QED
    BY <2>2 DEF Apart
<1>7. \A y \in pool : y.id # x.id
  <2>1. x.id = nwritten + 1
    BY <1>1, ItemFields
  <2> QED
    BY <1>2, <1>6, <2>1
<1>8. lost \in SUBSET pool
  BY PoolHolds
<1>9. \A c \in Dev : Items(c, queue[c]) \cap Items(d, log[d]) = {}
  BY ItemsApart
<1>10. \A c \in Dev : c # d => Items(c, log[c]) \cap Items(d, log[d]) = {}
  BY ItemsApart
<1> HIDE DEF x, lost
<1>11. pool' = (pool \ lost) \cup {x}
  <2>1. ASSUME NEW y \in pool' PROVE y \in (pool \ lost) \cup {x}
    <3>1. PICK c \in Dev : y \in Items(c, queue'[c]) \/ y \in Items(c, log'[c])
      BY PoolHolds
    <3>2. CASE y \in Items(c, queue[c])
      BY <1>9, <3>2, PoolHolds DEF lost
    <3>3. CASE c # d /\ y \in Items(c, log[c])
      BY <1>10, <3>3, PoolHolds DEF lost
    <3>4. CASE c = d /\ y \in Items(d, log'[d])
      BY <1>4, <1>5, <3>4, PoolHolds DEF lost
    <3> QED
      BY <1>1, <3>1, <3>2, <3>3, <3>4
  <2>2. ASSUME NEW y \in pool \ lost PROVE y \in pool'
    <3>1. PICK c \in Dev : y \in Items(c, queue[c]) \/ y \in Items(c, log[c])
      BY PoolHolds
    <3>2. CASE y \in Items(c, queue[c])
      BY <1>1, <3>2, PoolHolds
    <3>3. CASE c # d /\ y \in Items(c, log[c])
      BY <1>1, <3>3, PoolHolds
    <3>4. CASE c = d /\ y \in Items(d, log[d])
      <4>1. y \in Items(d, log'[d])
        BY <1>5, <2>2, <3>4 DEF lost
      <4> QED
        BY <4>1, PoolHolds
    <3> QED
      BY <3>1, <3>2, <3>3, <3>4
  <2>3. x \in pool'
    BY <1>5, PoolHolds
  <2> QED
    BY <2>1, <2>2, <2>3
<1>12. shown' = shown
  BY <1>1 DEF shown
<1>13. Ordered!Log(x, lost)
  BY <1>7, <1>11, <1>12 DEF Ordered!Log
<1> QED
  BY <1>3, <1>8, <1>13 DEF Ordered!Next

(* Clearing a device loses its unread entries. *)
LEMMA ClearLoses ==
  ASSUME TypeOK, Apart, TypeOK', NEW d \in Dev, cleared(d)
  PROVE  Ordered!Next
<1> DEFINE lost == Items(d, log[d])
<1>1. /\ log'[d] = <<>> /\ \A y \in Dev \ {d} : log'[y] = log[y]
      /\ queue' = queue /\ out' = out
  BY DEF cleared
<1>2. Items(d, log'[d]) = {}
  <2>1. 1 .. Len(log'[d]) = {}
    BY <1>1, EmptySeq
  <2> QED
    BY <2>1 DEF Items
<1>3. \A c \in Dev : Items(c, queue[c]) \cap Items(d, log[d]) = {}
  BY ItemsApart
<1>4. \A c \in Dev : c # d => Items(c, log[c]) \cap Items(d, log[d]) = {}
  BY ItemsApart
<1>5. \A y : y \in pool' <=> y \in pool /\ y \notin lost
  <2>1. ASSUME NEW y \in pool' PROVE y \in pool /\ y \notin lost
    <3>1. PICK c \in Dev : y \in Items(c, queue'[c]) \/ y \in Items(c, log'[c])
      BY PoolHolds
    <3>2. y \in Items(c, queue[c]) \/ (c # d /\ y \in Items(c, log[c]))
      BY <1>1, <1>2, <3>1
    <3> QED
      BY <1>3, <1>4, <3>2, PoolHolds
  <2>2. ASSUME NEW y \in pool, y \notin lost PROVE y \in pool'
    <3>1. PICK c \in Dev : y \in Items(c, queue[c]) \/ (c # d /\ y \in Items(c, log[c]))
      BY <2>2, PoolHolds
    <3> QED
      BY <1>1, <3>1, PoolHolds
  <2> QED
    BY <2>1, <2>2
<1>6. lost \in SUBSET pool
  BY PoolHolds
<1> HIDE DEF lost
<1>7. pool' = pool \ lost /\ shown' = shown
  BY <1>1, <1>5 DEF shown
<1>8. Ordered!Lose(lost)
  BY <1>7 DEF Ordered!Lose
<1> QED
  BY <1>6, <1>8 DEF Ordered!Next

(* A read moves an entry within the pool. *)
LEMMA ReadStutters ==
  ASSUME TypeOK, Apart, TypeOK', NEW d \in Dev, moved(d)
  PROVE  UNCHANGED Ordered!avars
<1> DEFINE x == item(d, Head(log[d]))
<1>1. /\ log[d] # <<>> /\ Head(log[d]) \in Entry /\ log'[d] = Tail(log[d])
      /\ queue'[d] = enqueue(queue[d], Head(log[d]))
      /\ \A y \in Dev \ {d} : log'[y] = log[y] /\ queue'[y] = queue[y]
      /\ out' = out
  BY DEF moved
<1>2. log[d] \in Seq(Entry) /\ queue[d] \in Seq(Entry) /\ Distinct(log[d])
  BY DEF TypeOK, Apart
<1>3. x \in Items(d, log[d]) /\ Items(d, log'[d]) = Items(d, log[d]) \ {x}
  BY <1>1, <1>2, ItemsTail
<1>4. Items(d, queue'[d]) = Items(d, queue[d]) \cup {x}
  <2> DEFINE e == Head(log[d])
  <2>1. e \in Entry /\ queue'[d] = enqueue(queue[d], e) /\ x = item(d, e)
    BY <1>1
  <2> HIDE DEF e, x
  <2> QED
    BY <1>2, <2>1, ItemsEnqueue
<1> HIDE DEF x
<1>5. \A c \in Dev : Items(c, queue'[c]) \cup Items(c, log'[c])
                       = Items(c, queue[c]) \cup Items(c, log[c])
  BY <1>1, <1>3, <1>4
<1>6. \A y : y \in pool' <=> y \in pool
  <2>1. \A y : y \in pool <=> \E c \in Dev : y \in Items(c, queue[c]) \cup Items(c, log[c])
    BY PoolHolds
  <2>2. \A y : y \in pool' <=> \E c \in Dev : y \in Items(c, queue'[c]) \cup Items(c, log'[c])
    BY PoolHolds
  <2> QED
    BY <1>5, <2>1, <2>2
<1>7. pool' = pool /\ shown' = shown
  BY <1>1, <1>6 DEF shown, pool
<1> QED
  BY <1>7 DEF Ordered!avars

(* What leaves a queue is an oldest of the pool: after the step, what is  *)
(* in the output is not younger than anything held.                       *)
LEMMA DequeueEmits ==
  ASSUME TypeOK, Apart, TypeOK', Emitted', NEW d \in Dev, NEW kind \in Kind, left(d, kind)
  PROVE  Ordered!Next
<1> DEFINE e == Head(queue[d])
           x == item(d, e)
           n == Len(out) + 1
<1>1. /\ queue[d] # <<>> /\ e \in Entry /\ queue'[d] = Tail(queue[d])
      /\ \A y \in Dev \ {d} : queue'[y] = queue[y]
      /\ log' = log
  BY DEF left
<1>2. queue[d] \in Seq(Entry) /\ Distinct(queue[d]) /\ out \in Seq(Record) /\ out' \in Seq(Record)
  BY DEF TypeOK, Apart
<1>3. x \in Items(d, queue[d]) /\ Items(d, queue'[d]) = Items(d, queue[d]) \ {x}
  BY <1>1, <1>2, ItemsTail
<1>4. /\ Len(out) \in Nat /\ Len(out') = n
      /\ \A i \in 1 .. Len(out) : out'[i] = out[i]
      /\ out'[n].dev = d /\ out'[n].id = e.id /\ out'[n].ts = e.ts
  BY LeftRecord
<1>5. x.ts = e.ts /\ x = [dev |-> d, id |-> e.id, ts |-> e.ts] /\ e.ts \in Nat /\ e.id \in Nat
  BY <1>1 DEF item, Entry
<1> HIDE DEF x, e
<1>6. \A c \in Dev : x \notin Items(c, log[c]) /\ (c # d => x \notin Items(c, queue[c]))
  BY <1>3, ItemsApart
<1>7. \A y : y \in pool' <=> y \in pool /\ y # x
  <2>1. ASSUME NEW y \in pool' PROVE y \in pool /\ y # x
    <3>1. PICK c \in Dev : y \in Items(c, queue'[c]) \/ y \in Items(c, log'[c])
      BY PoolHolds
    <3>2. CASE y \in Items(c, log[c])
      BY <1>6, <3>2, PoolHolds
    <3>3. CASE c # d /\ y \in Items(c, queue[c])
      BY <1>6, <3>3, PoolHolds
    <3>4. CASE c = d /\ y \in Items(d, queue'[d])
      BY <1>3, <3>4, PoolHolds
    <3> QED
      BY <1>1, <3>1, <3>2, <3>3, <3>4
  <2>2. ASSUME NEW y \in pool, y # x PROVE y \in pool'
    <3>1. PICK c \in Dev : y \in Items(c, queue[c]) \/ y \in Items(c, log[c])
      BY PoolHolds
    <3>2. y \in Items(c, queue'[c]) \/ y \in Items(c, log'[c])
      BY <1>1, <1>3, <2>2, <3>1
    <3> QED
      BY <3>2, PoolHolds
  <2> QED
    BY <2>1, <2>2
<1>8. x \in pool
  BY <1>3, PoolHolds
<1>9. \A y \in pool' : x.ts <= y.ts
  <2> TAKE y \in pool'
  <2>1. PICK c \in Dev : y \in Items(c, queue'[c]) \/ y \in Items(c, log'[c])
    BY PoolHolds
  <2>2. Below(out', queue'[c]) /\ Below(out', log'[c]) /\ n \in 1 .. Len(out')
    BY <1>4 DEF Emitted
  <2>3. CASE y \in Items(c, queue'[c])
    <3>1. PICK i \in 1 .. Len(queue'[c]) : y = item(c, queue'[c][i])
      BY <2>3 DEF Items
    <3>2. out'[n].ts <= queue'[c][i].ts
      BY <2>2 DEF Below
    <3> QED
      BY <1>4, <1>5, <3>1, <3>2, ItemFields
  <2>4. CASE y \in Items(c, log'[c])
    <3>1. PICK i \in 1 .. Len(log'[c]) : y = item(c, log'[c][i])
      BY <2>4 DEF Items
    <3>2. out'[n].ts <= log'[c][i].ts
      BY <2>2 DEF Below
    <3> QED
      BY <1>4, <1>5, <3>1, <3>2, ItemFields
  <2> QED
    BY <2>1, <2>3, <2>4
<1>10. \A y \in pool : x.ts <= y.ts
  <2>1. x.ts <= x.ts
    BY <1>5
  <2> QED
    BY <1>7, <1>9, <2>1
<1>11. shown' = Append(shown, x)
  <2> DEFINE S == [dev : Dev, id : Nat, ts : Nat]
  <2>1. /\ shown \in Seq(S) /\ Len(shown) = Len(out)
        /\ \A i \in 1 .. Len(out) :
             shown[i] = [dev |-> out[i].dev, id |-> out[i].id, ts |-> out[i].ts]
    BY <1>2, ShownIs DEF shown
  <2>2. /\ shown' \in Seq(S) /\ Len(shown') = Len(out')
        /\ \A i \in 1 .. Len(out') :
             shown'[i] = [dev |-> out'[i].dev, id |-> out'[i].id, ts |-> out'[i].ts]
    BY <1>2, ShownIs DEF shown
  <2>3. x \in S
    BY <1>5
  <2> HIDE DEF S
  <2> DEFINE a == Append(shown, x)
  <2>4. /\ a \in Seq(S) /\ Len(a) = n /\ a[n] = x
        /\ \A i \in 1 .. Len(out) : a[i] = shown[i]
    BY <2>1, <2>3, AppendProperties
  <2>5. 1 .. n = 1 .. Len(out) \cup {n} /\ n \in 1 .. n
    BY <1>4
  <2>6. shown'[n] = x
    BY <1>4, <1>5, <2>2, <2>5
  <2>7. \A i \in 1 .. Len(out) : shown'[i] = shown[i]
    BY <1>4, <2>1, <2>2, <2>5
  <2> HIDE DEF a
  <2>8. \A i \in 1 .. n : shown'[i] = a[i]
    BY <2>4, <2>5, <2>6, <2>7
  <2>9. shown' = a
    BY <1>4, <2>2, <2>4, <2>8, SeqEqual
  <2> QED
    BY <2>9 DEF a
<1>12. Ordered!Emit(x)
  <2>1. pool' = pool \ {x}
    BY <1>7
  <2> QED
    BY <1>10, <1>11, <2>1 DEF Ordered!Emit
<1> QED
  BY <1>8, <1>12 DEF Ordered!Next

(* dlogutil implements the log its user sees.  While the clock is not set *)
(* back, every behaviour of the reader with its writers, its clearing     *)
(* rival, interrupted reads and failing writes is a behaviour of          *)
(* OrderedLog: each entry that leaves is an oldest of all that the        *)
(* devices and the queues hold, for any number of devices.                *)
THEOREM ReaderImplementsOrderedLog ==
  ASSUME ~ClockSteps
  PROVE  Spec => OldestFirst
<1> DEFINE Inv == MergeInv /\ PlaceInv
<1>1. ASSUME Init PROVE Ordered!Init
  <2>1. TypeOK /\ out = <<>> /\ \A d \in Dev : queue[d] = <<>> /\ log[d] = <<>>
    BY <1>1, TypeOKInit DEF Init
  <2>2. 1 .. Len(<<>>) = {}
    BY EmptySeq
  <2>3. \A d \in Dev : Items(d, queue[d]) = {} /\ Items(d, log[d]) = {}
    BY <2>1, <2>2 DEF Items
  <2>4. pool = {}
    <3>1. \A d \in Dev : queue[d] \in Seq(Entry) /\ log[d] \in Seq(Entry)
      BY <2>1 DEF TypeOK
    <3>2. \A x : x \in pool <=> \E d \in Dev : x \in Items(d, queue[d]) \/ x \in Items(d, log[d])
      BY <3>1, PoolMembers DEF pool, held, Pool
    <3> QED
      BY <2>3, <3>2
  <2>5. shown = <<>>
    BY <2>1 DEF shown
  <2> QED
    BY <2>4, <2>5 DEF Ordered!Init
<1>2. Init => Inv
  BY MergeInvInit, TypeOKInit, ApartInit, AccountedInit DEF PlaceInv
<1>3. Inv /\ [Next]_vars => Inv'
  BY MergeInvStep, TypeOKStep, ApartStep, AccountedStep DEF PlaceInv
<1>4. ASSUME Inv, [Next]_vars PROVE [Ordered!Next]_(Ordered!avars)
  <2>1. TypeOK /\ Apart /\ TypeOK' /\ Emitted'
    BY <1>3, <1>4 DEF MergeInv, PlaceInv
  <2>2. CASE still
    BY <2>2 DEF still, Ordered!avars, pool, held, shown
  <2> QED
    BY <1>4, <2>1, <2>2, StepKinds, WriteLogs, ClearLoses, ReadStutters, DequeueEmits
<1> QED
  BY <1>1, <1>2, <1>3, <1>4, PTL DEF Spec, OldestFirst, Ordered!Spec
=============================================================================
