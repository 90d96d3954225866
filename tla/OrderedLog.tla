----------------------------- MODULE OrderedLog -----------------------------
(***************************************************************************)
(* What dlogutil promises its user, without devices, queues or timeouts:   *)
(* there is one pool of entries that were logged and not yet shown, and    *)
(* each entry that leaves the pool for the output is an oldest one.        *)
(* Entries may also vanish unseen: a ring buffer laps, or is cleared.      *)
(***************************************************************************)
EXTENDS Naturals, Sequences

CONSTANT Item          \* the entries: records with at least id and ts

VARIABLES pending,     \* the entries logged and neither shown nor lost
          emitted      \* the entries in the order they reached the output

avars == <<pending, emitted>>

Init == pending = {} /\ emitted = <<>>

(* A new entry is logged; it may push older ones out. *)
Log(e, lost) ==
  /\ \A x \in pending : x.id # e.id
  /\ pending' = (pending \ lost) \cup {e}
  /\ UNCHANGED emitted

(* Entries are dropped without being shown. *)
Lose(lost) ==
  /\ pending' = pending \ lost
  /\ UNCHANGED emitted

(* An oldest entry moves to the output. *)
Emit(e) ==
  /\ \A x \in pending : e.ts <= x.ts
  /\ pending' = pending \ {e}
  /\ emitted' = Append(emitted, e)

Next ==
  \/ \E e \in Item, lost \in SUBSET pending : Log(e, lost)
  \/ \E lost \in SUBSET pending : Lose(lost)
  \/ \E e \in pending : Emit(e)

Spec == Init /\ [][Next]_avars
=============================================================================
