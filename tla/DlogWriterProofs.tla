-------------------------- MODULE DlogWriterProofs --------------------------
(***************************************************************************)
(* Proofs about DlogWriter, for every set of threads and every set of      *)
(* devices: the types and the routing of messages hold in every build; a   *)
(* build with log_init_lock opens each device once, chooses the writer     *)
(* once, and neither loses the message of a thread that went through the   *)
(* initialisation nor judges it by the initial level; with the lock, or    *)
(* with opens that do not fail, the descriptor table behind the kernel     *)
(* writer is complete whenever nobody is initialising.                     *)
(***************************************************************************)
EXTENDS DlogWriter, SequenceTheorems, TLAPS

Threshold == {DLOG_SILENT} \cup EnvLevels

ViewOf(F) ==
  [writer : SUBSET Writer, fds : [LogId -> SUBSET F],
   level : SUBSET Threshold]

(* The loop of __dlog_init stays inside the table, and an id is checked   *)
(* before it indexes it.                                                  *)
IndicesInTable ==
  \A t \in Thread :
    /\ pc[t] = "open" => opening[t] \in LogId
    /\ pc[t] = "writev" => req[t].id \in LogId

(* A descriptor in the slot of id opens that device, or main in the slots *)
(* of system and apps; the one in the register opens main.                *)
belongs(devices, fd, id) ==
  fd = -1 \/ devices[fd] = id
    \/ (devices[fd] = LOG_ID_MAIN /\ id \in {LOG_ID_SYSTEM, LOG_ID_APPS})

DescriptorsBelong ==
  /\ \A id \in LogId :
       /\ belongs(opened, log_fds[id], id)
       /\ \A t \in Thread : \A fd \in view[t].fds[id] : belongs(opened, fd, id)
  /\ \A t \in Thread : belongs(opened, mainFd[t], LOG_ID_MAIN)

-----------------------------------------------------------------------------
(* Numbers that name log ids and fates. *)
LEMMA LogIdNumbers ==
  /\ LogId = {0, 1, 2, 3} /\ LOG_ID_MAIN \in LogId /\ LOG_ID_RADIO \in LogId
  /\ LOG_ID_SYSTEM \in LogId /\ LOG_ID_APPS \in LogId /\ LOG_ID_MAX \notin LogId
  /\ Failed \notin LogId /\ Suppressed \notin LogId /\ Refused \notin LogId
  BY DEF LogId, LOG_ID_MAIN, LOG_ID_RADIO, LOG_ID_SYSTEM, LOG_ID_APPS, LOG_ID_MAX,
         Failed, Suppressed, Refused

(* What the macros request is a request. *)
LEMMA RequestsType == Requests \subseteq Request
<1>1. \A l \in {"V", "D", "I", "W", "E"} : priority[l] \in Nat
  BY DEF priority, DLOG_VERBOSE, DLOG_DEBUG, DLOG_INFO, DLOG_WARN, DLOG_ERROR
<1>2. ASSUME NEW f \in {"LOG", "RLOG", "SLOG", "ALOG"}, NEW p \in Nat
      PROVE  basicMacro(f, p) \in Request
  BY LogIdNumbers DEF basicMacro, LOG, RLOG, SLOG, ALOG, Request
<1>3. [id |-> LOG_ID_MAX, prio |-> DLOG_DEBUG] \in Request
  BY DEF Request, DLOG_DEBUG
<1> QED
  BY <1>1, <1>2, <1>3, WriterAssumption DEF Requests

(* A load by u after a store by t: the new value, or one loaded before. *)
LEMMA SeenBy ==
  ASSUME NEW u, NEW t, NEW old, NEW val
  PROVE  /\ seenBy(u, t, old, val) \subseteq old \cup {val}
         /\ val \in seenBy(u, t, old, val)
         /\ (u = t \/ ~WeakMemory) => seenBy(u, t, old, val) = {val}
  BY DEF seenBy

(* Replacing one part of a view leaves the others. *)
LEMMA WriterChanged ==
  ASSUME NEW F, NEW v \in ViewOf(F), NEW w \in SUBSET Writer,
         NEW x, x = [v EXCEPT !.writer = w]
  PROVE  x \in ViewOf(F) /\ x.writer = w /\ x.fds = v.fds /\ x.level = v.level
  BY DEF ViewOf

(* A view with other descriptors is a view, alike in the rest, *)
LEMMA FdsChanged ==
  ASSUME NEW F, NEW v \in ViewOf(F), NEW s \in [LogId -> SUBSET F],
         NEW x, x = [v EXCEPT !.fds = s]
  PROVE  x \in ViewOf(F) /\ x.writer = v.writer /\ x.fds = s /\ x.level = v.level
  BY DEF ViewOf

(* and so is one with another level. *)
LEMMA LevelChanged ==
  ASSUME NEW F, NEW v \in ViewOf(F), NEW l \in SUBSET Threshold,
         NEW x, x = [v EXCEPT !.level = l]
  PROVE  x \in ViewOf(F) /\ x.writer = v.writer /\ x.fds = v.fds /\ x.level = l
  BY DEF ViewOf

(* Storing a descriptor changes one slot, for everybody. *)
LEMMA StoreFdEffect ==
  ASSUME NEW F, NEW t \in Thread, NEW id \in LogId, NEW fd \in F,
         log_fds \in [LogId -> F], view \in [Thread -> ViewOf(F)],
         storeFd(t, id, fd)
  PROVE  /\ log_fds' \in [LogId -> F] /\ view' \in [Thread -> ViewOf(F)]
         /\ log_fds'[id] = fd
         /\ \A i \in LogId \ {id} : log_fds'[i] = log_fds[i]
         /\ \A u \in Thread :
              /\ view'[u].writer = view[u].writer
              /\ view'[u].level = view[u].level
              /\ view'[u].fds[id] = seenBy(u, t, view[u].fds[id], fd)
              /\ \A i \in LogId \ {id} : view'[u].fds[i] = view[u].fds[i]
<1>1. /\ log_fds' \in [LogId -> F]
      /\ log_fds'[id] = fd
      /\ \A i \in LogId \ {id} : log_fds'[i] = log_fds[i]
  BY DEF storeFd
<1>2. ASSUME NEW u \in Thread
      PROVE  /\ view'[u] \in ViewOf(F)
             /\ view'[u].writer = view[u].writer
             /\ view'[u].level = view[u].level
             /\ view'[u].fds[id] = seenBy(u, t, view[u].fds[id], fd)
             /\ \A i \in LogId \ {id} : view'[u].fds[i] = view[u].fds[i]
  <2>1. view'[u] = [view[u] EXCEPT !.fds[id] = seenBy(u, t, view[u].fds[id], fd)]
    BY DEF storeFd
  <2>2. seenBy(u, t, view[u].fds[id], fd) \in SUBSET F
    BY SeenBy DEF ViewOf
  <2> DEFINE slots == [view[u].fds EXCEPT ![id] = seenBy(u, t, view[u].fds[id], fd)]
  <2>3. view[u] \in ViewOf(F) /\ view[u].fds \in [LogId -> SUBSET F]
    BY DEF ViewOf
  <2>4. /\ slots \in [LogId -> SUBSET F]
        /\ slots[id] = seenBy(u, t, view[u].fds[id], fd)
        /\ \A i \in LogId \ {id} : slots[i] = view[u].fds[i]
    BY <2>2, <2>3
  <2>5. view'[u] = [view[u] EXCEPT !.fds = slots]
    BY <2>1
  <2> HIDE DEF slots
  <2> QED
    BY <2>3, <2>4, <2>5, FdsChanged
<1>3. view' = [u \in Thread |-> view'[u]]
  BY DEF storeFd
<1>4. view' \in [Thread -> ViewOf(F)]
  BY <1>2, <1>3
<1> QED
  BY <1>1, <1>2, <1>4

(* Storing the writer changes nothing else. *)
LEMMA StoreWriterEffect ==
  ASSUME NEW F, NEW t \in Thread, NEW val \in Writer,
         view \in [Thread -> ViewOf(F)], storeWriter(t, val)
  PROVE  /\ view' \in [Thread -> ViewOf(F)] /\ write_to_log' = val
         /\ \A u \in Thread :
              /\ view'[u].writer = seenBy(u, t, view[u].writer, val)
              /\ view'[u].level = view[u].level
              /\ view'[u].fds = view[u].fds
<1>1. ASSUME NEW u \in Thread
      PROVE  /\ view'[u] \in ViewOf(F)
             /\ view'[u].writer = seenBy(u, t, view[u].writer, val)
             /\ view'[u].level = view[u].level
             /\ view'[u].fds = view[u].fds
  <2>1. view'[u] = [view[u] EXCEPT !.writer = seenBy(u, t, view[u].writer, val)]
    BY DEF storeWriter
  <2>2. view[u] \in ViewOf(F)
    OBVIOUS
  <2>3. /\ seenBy(u, t, view[u].writer, val) \in SUBSET Writer
        /\ view[u].fds \in [LogId -> SUBSET F]
        /\ view[u].level \in SUBSET Threshold
    BY <2>2, SeenBy DEF ViewOf
  <2> QED
    BY <2>1, <2>2, <2>3, WriterChanged
<1>2. view' = [u \in Thread |-> view'[u]] /\ write_to_log' = val
  BY DEF storeWriter
<1>3. view' \in [Thread -> ViewOf(F)]
  BY <1>1, <1>2
<1> QED
  BY <1>1, <1>2, <1>3

(* Storing the level changes nothing else. *)
LEMMA StoreLevelEffect ==
  ASSUME NEW F, NEW t \in Thread, NEW val \in EnvLevels,
         view \in [Thread -> ViewOf(F)], storeLevel(t, val)
  PROVE  /\ view' \in [Thread -> ViewOf(F)] /\ g_debug_level' = val
         /\ \A u \in Thread :
              /\ view'[u].writer = view[u].writer /\ view'[u].fds = view[u].fds
              /\ view'[u].level = seenBy(u, t, view[u].level, val)
<1>1. ASSUME NEW u \in Thread
      PROVE  /\ view'[u] \in ViewOf(F)
             /\ view'[u].writer = view[u].writer
             /\ view'[u].fds = view[u].fds
             /\ view'[u].level = seenBy(u, t, view[u].level, val)
  <2>1. view'[u] = [view[u] EXCEPT !.level = seenBy(u, t, view[u].level, val)]
    BY DEF storeLevel
  <2>2. view[u] \in ViewOf(F)
    OBVIOUS
  <2>3. /\ seenBy(u, t, view[u].level, val) \in SUBSET Threshold
        /\ view[u].fds \in [LogId -> SUBSET F] /\ view[u].writer \in SUBSET Writer
    BY <2>2, SeenBy DEF ViewOf, Threshold
  <2> QED
    BY <2>1, <2>2, <2>3, LevelChanged
<1>2. view' = [u \in Thread |-> view'[u]] /\ g_debug_level' = val
  BY DEF storeLevel
<1>3. view' \in [Thread -> ViewOf(F)]
  BY <1>1, <1>2
<1> QED
  BY <1>1, <1>2, <1>3

(* Dispatching narrows what the thread may load of the writer: what it    *)
(* jumps to was loaded, and no published writer is forgotten.             *)
LEMMA DispatchEffect ==
  ASSUME NEW F, NEW t \in Thread, view \in [Thread -> ViewOf(F)],
         pc \in [Thread -> Label], dispatch(t)
  PROVE  /\ view' \in [Thread -> ViewOf(F)]
         /\ pc' \in [Thread -> Label]
         /\ \A u \in Thread \ {t} : view'[u] = view[u] /\ pc'[u] = pc[u]
         /\ view'[t].fds = view[t].fds /\ view'[t].level = view[t].level
         /\ view'[t].writer \subseteq view[t].writer
         /\ \/ /\ "init" \in view[t].writer /\ pc'[t] = "lock"
               /\ view'[t].writer = view[t].writer
            \/ /\ "kernel" \in view[t].writer /\ pc'[t] = "kernel"
               /\ view'[t].writer = view[t].writer \ {"init"}
            \/ /\ "null" \in view[t].writer /\ pc'[t] = "null"
               /\ view'[t].writer = view[t].writer \ {"init"}
<1>1. PICK w \in view[t].writer :
        /\ pc' = [pc EXCEPT ![t] = entry(w)]
        /\ view' = [view EXCEPT ![t].writer = IF w = "init" THEN @ ELSE @ \ {"init"}]
  BY DEF dispatch, goto
<1> DEFINE left == IF w = "init" THEN view[t].writer ELSE view[t].writer \ {"init"}
<1>2. /\ view[t] \in ViewOf(F) /\ w \in {"init", "kernel", "null"}
      /\ left \in SUBSET Writer /\ view[t].fds \in [LogId -> SUBSET F]
      /\ view[t].level \in SUBSET Threshold
  BY DEF ViewOf, Writer
<1>3. view' = [view EXCEPT ![t] = [view[t] EXCEPT !.writer = left]]
  BY <1>1
<1>4. /\ [view[t] EXCEPT !.writer = left] \in ViewOf(F)
      /\ [view[t] EXCEPT !.writer = left].writer = left
      /\ [view[t] EXCEPT !.writer = left].fds = view[t].fds
      /\ [view[t] EXCEPT !.writer = left].level = view[t].level
  BY <1>2, WriterChanged
<1>5. /\ view' \in [Thread -> ViewOf(F)]
      /\ view'[t].writer = left /\ view'[t].fds = view[t].fds
      /\ view'[t].level = view[t].level
      /\ \A u \in Thread \ {t} : view'[u] = view[u]
  BY <1>3, <1>4
<1>6. /\ w = "init" => entry(w) = "lock"
      /\ w = "kernel" => entry(w) = "kernel"
      /\ w = "null" => entry(w) = "null"
  BY DEF entry
<1>7. entry(w) \in Label
  BY <1>2, <1>6 DEF Label
<1>8. pc' \in [Thread -> Label] /\ pc'[t] = entry(w) /\ \A u \in Thread \ {t} : pc'[u] = pc[u]
  BY <1>1, <1>7
<1>9. left \subseteq view[t].writer /\ (w = "init" => left = view[t].writer)
      /\ (w # "init" => left = view[t].writer \ {"init"})
  OBVIOUS
<1> HIDE DEF left
<1> QED
  BY <1>2, <1>5, <1>6, <1>8, <1>9

(* The lock hands the owner the values in memory. *)
LEMMA SynchroniseEffect ==
  ASSUME NEW t \in Thread, write_to_log \in Writer, log_fds \in [LogId -> Fd],
         g_debug_level \in Threshold, view \in [Thread -> ViewOf(Fd)], synchronise(t)
  PROVE  /\ view' \in [Thread -> ViewOf(Fd)]
         /\ \A u \in Thread \ {t} : view'[u] = view[u]
         /\ view'[t].writer = {write_to_log} /\ view'[t].level = {g_debug_level}
         /\ \A i \in LogId : view'[t].fds[i] = {log_fds[i]}
<1> DEFINE slots == [i \in LogId |-> {log_fds[i]}]
           now == [writer |-> {write_to_log}, fds |-> slots, level |-> {g_debug_level}]
<1>1. slots \in [LogId -> SUBSET Fd] /\ \A i \in LogId : slots[i] = {log_fds[i]}
  OBVIOUS
<1>2. view' = [view EXCEPT ![t] = now]
  BY DEF synchronise
<1> HIDE DEF slots
<1>3. /\ now \in ViewOf(Fd) /\ now.writer = {write_to_log} /\ now.fds = slots
      /\ now.level = {g_debug_level}
  BY <1>1 DEF ViewOf
<1> HIDE DEF now
<1> QED
  BY <1>1, <1>2, <1>3

(* The types, with the level in force narrowed to what a load may return. *)
Types ==
  /\ write_to_log \in Writer /\ opened \in Seq(LogId)
  /\ log_fds \in [LogId -> Fd] /\ g_debug_level \in Threshold
  /\ lock \in Thread \cup {NoThread} /\ view \in [Thread -> ViewOf(Fd)]
  /\ pc \in [Thread -> Label] /\ req \in [Thread -> Request]
  /\ ncalls \in [Thread -> 0 .. MaxCalls] /\ mainFd \in [Thread -> Fd]
  /\ opening \in [Thread -> 0 .. LOG_ID_MAX]
  /\ viaInit \in [Thread -> BOOLEAN] /\ done \subseteq Fates

(* The types proved are the ones of TypeOK. *)
LEMMA TypesImplyTypeOK == Types => TypeOK
  BY WriterAssumption DEF Types, TypeOK, ViewOf, Threshold, DLOG_SILENT

(* They hold before the first call. *)
LEMMA TypesInit == Init => Types
<1> SUFFICES ASSUME Init PROVE Types
  OBVIOUS
<1>1. opened \in Seq(LogId) /\ Len(opened) = 0 /\ -1 \in Fd
  BY DEF Init, Fd
<1>2. log_fds \in [LogId -> Fd] /\ mainFd \in [Thread -> Fd]
  BY <1>1 DEF Init
<1> DEFINE slots == [i \in LogId |-> {-1}]
           first == [writer |-> {"init"}, fds |-> slots, level |-> {DLOG_SILENT}]
<1>3. slots \in [LogId -> SUBSET Fd]
  BY <1>1
<1>4. view = [t \in Thread |-> first]
  BY DEF Init
<1> HIDE DEF slots
<1>5. first \in ViewOf(Fd)
  BY <1>3 DEF ViewOf, Writer, Threshold
<1> HIDE DEF first
<1>6. view \in [Thread -> ViewOf(Fd)]
  BY <1>4, <1>5
<1>7. LOG(DLOG_SILENT) \in Request
  BY LogIdNumbers DEF LOG, Request, DLOG_SILENT
<1>8. req \in [Thread -> Request] /\ pc \in [Thread -> Label]
  BY <1>7 DEF Init, Label
<1>9. /\ ncalls \in [Thread -> 0 .. MaxCalls]
      /\ opening \in [Thread -> 0 .. LOG_ID_MAX]
  BY WriterAssumption DEF Init, LOG_ID_MAX
<1>10. viaInit \in [Thread -> BOOLEAN]
  BY Zenon DEF Init
<1> QED
  BY <1>1, <1>2, <1>6, <1>8, <1>9, <1>10 DEF Init, Types, Writer, Threshold

(* A finished call keeps the types when its message went somewhere. *)
LEMMA FinishTypes ==
  ASSUME Types, NEW t \in Thread, NEW fate \in Fate, finish(t, fate)
  PROVE  Types'
<1>1. [thread |-> t, n |-> ncalls[t], req |-> req[t], fate |-> fate,
       viaInit |-> viaInit[t]] \in Fates
  BY WriterAssumption DEF Types, Fates
<1>2. done' \subseteq Fates
  BY <1>1 DEF finish, Types
<1>3. pc' \in [Thread -> Label]
  BY DEF finish, goto, Types, Label
<1> QED
  BY <1>2, <1>3 DEF finish, Types, memory, call, Fd

(* Opening a device leaves the earlier descriptors as they were; the new  *)
(* one, if any, is the next number.                                       *)
LEMMA OpenEffect ==
  ASSUME Types, IndicesInTable, NEW t \in Thread, initOpen(t)
  PROVE  /\ opening[t] \in LogId
         /\ opened' \in Seq(LogId) /\ Fd \subseteq Fd'
         /\ \A fd \in Fd \ {-1} : opened'[fd] = opened[fd]
         /\ log_fds \in [LogId -> Fd'] /\ view \in [Thread -> ViewOf(Fd')]
         /\ mainFd \in [Thread -> Fd']
         /\ \E fd \in Fd' :
              /\ storeFd(t, opening[t], fd)
              /\ \/ /\ fd = -1 /\ opened' = opened
                    /\ opening[t] \notin Present \/ OpenFaults
                 \/ /\ fd = Len(opened) + 1 /\ opened' = Append(opened, opening[t])
                    /\ opened'[fd] = opening[t] /\ opening[t] \in Present
<1>1. opening[t] \in LogId /\ opened \in Seq(LogId)
  BY DEF initOpen, IndicesInTable, Types
<1>2. CASE /\ opening[t] \in Present /\ opened' = Append(opened, opening[t])
           /\ storeFd(t, opening[t], Len(opened) + 1)
  <2>1. /\ opened' \in Seq(LogId) /\ Len(opened') = Len(opened) + 1
        /\ \A i \in 1 .. Len(opened) : opened'[i] = opened[i]
        /\ opened'[Len(opened) + 1] = opening[t] /\ Len(opened) \in Nat
    BY <1>1, <1>2, AppendProperties, LenProperties
  <2>2. Fd \subseteq Fd' /\ Len(opened) + 1 \in Fd'
    BY <2>1 DEF Fd
  <2>3. \A fd \in Fd \ {-1} : opened'[fd] = opened[fd]
    BY <2>1 DEF Fd
  <2>4. /\ log_fds \in [LogId -> Fd'] /\ view \in [Thread -> ViewOf(Fd')]
        /\ mainFd \in [Thread -> Fd']
    BY <2>2 DEF Types, ViewOf
  <2> QED
    BY <1>1, <1>2, <2>1, <2>2, <2>3, <2>4
<1>3. CASE /\ opening[t] \notin Present \/ OpenFaults
           /\ opened' = opened /\ storeFd(t, opening[t], -1)
  <2>1. Fd' = Fd /\ -1 \in Fd
    BY <1>3 DEF Fd
  <2> QED
    BY <1>1, <1>3, <2>1 DEF Types
<1> QED
  BY <1>2, <1>3 DEF initOpen

(* What a finished writev returns: a device, or failure. *)
LEMMA WritevEffect ==
  ASSUME Types, IndicesInTable, NEW t \in Thread, writev(t)
  PROVE  \E fd \in view[t].fds[req[t].id] :
           /\ fd \in Fd /\ req[t].id \in LogId
           /\ \/ fd = -1 /\ finish(t, Failed)
              \/ fd # -1 /\ opened[fd] \in LogId /\ finish(t, opened[fd])
              \/ fd # -1 /\ finish(t, Refused)
<1>1. req[t].id \in LogId
  BY DEF writev, IndicesInTable
<1>2. PICK fd \in view[t].fds[req[t].id] :
        \/ finish(t, IF fd = -1 THEN Failed ELSE opened[fd])
        \/ fd # -1 /\ finish(t, Refused)
  BY DEF writev
<1>3. fd \in Fd
  BY <1>1 DEF Types, ViewOf
<1>4. fd # -1 => opened[fd] \in LogId
  BY <1>3, ElementOfSeq DEF Fd, Types
<1> QED
  BY <1>1, <1>2, <1>3, <1>4

(* The steps of __dlog_init between the level and the unlocking, by what  *)
(* they access: one shared object is loaded and tested, main is loaded    *)
(* into the register, a slot is stored.                                   *)
tests(t) ==
  \/ initTestMain(t) \/ initTestRadio(t)
  \/ loadSlot(t, "system", LOG_ID_SYSTEM, "systemMain", "apps")
  \/ loadSlot(t, "apps", LOG_ID_APPS, "appsMain", "unlock")

loads(t) == loadMain(t, "systemMain", "systemStore") \/ loadMain(t, "appsMain", "appsStore")

sharesSystem(t) == storeSlot(t, "systemStore", LOG_ID_SYSTEM, "apps")
sharesApps(t) == storeSlot(t, "appsStore", LOG_ID_APPS, "unlock")
shares(t) == sharesSystem(t) \/ sharesApps(t)

finishes(t) == write_to_log_null(t) \/ write_to_log_kernel(t) \/ writev(t)

(* Every step of a call is one of these. *)
LEMMA Steps ==
  ASSUME NEW t, dlog_print(t) \/ running(t)
  PROVE  \/ dlog_print(t) \/ redispatch(t) \/ finishes(t)
         \/ initLock(t) \/ initCheck(t) \/ initOpen(t) \/ init_debug_level(t)
         \/ tests(t) \/ loads(t) \/ initPublish(t) \/ shares(t) \/ initUnlock(t)
  BY DEF running, finishes, tests, loads, shares, sharesSystem, sharesApps,
         fallbackSystem, fallbackApps

(* A test changes the place of the thread only. *)
LEMMA TestsEffect ==
  ASSUME NEW t, tests(t)
  PROVE  /\ pc[t] \in {"testMain", "testRadio", "system", "apps"}
         /\ UNCHANGED <<memory, opened, lock, view, call, opening, viaInit, done>>
         /\ \E label \in {"storeNull", "storeKernel", "testRadio", "systemMain", "apps",
                          "appsMain", "unlock"} : pc' = [pc EXCEPT ![t] = label]
  BY DEF tests, initTestMain, initTestRadio, loadSlot, goto

(* A load of main changes the register too. *)
LEMMA LoadsEffect ==
  ASSUME NEW t, loads(t)
  PROVE  /\ pc[t] \in {"systemMain", "appsMain"}
         /\ UNCHANGED <<memory, opened, lock, view, req, ncalls, opening, viaInit, done>>
         /\ \E main \in view[t].fds[LOG_ID_MAIN] : mainFd' = [mainFd EXCEPT ![t] = main]
         /\ pc' = [pc EXCEPT ![t] = IF pc[t] = "systemMain" THEN "systemStore" ELSE "appsStore"]
  BY DEF loads, loadMain, goto

(* A shared descriptor is the one in the register. *)
LEMMA SharesEffect ==
  ASSUME Types, NEW t \in Thread, shares(t)
  PROVE  /\ pc[t] \in {"systemStore", "appsStore"} /\ mainFd[t] \in Fd
         /\ UNCHANGED <<write_to_log, g_debug_level, opened, lock, call, opening, viaInit, done>>
         /\ \E id \in {LOG_ID_SYSTEM, LOG_ID_APPS} :
              id \in LogId /\ storeFd(t, id, mainFd[t])
         /\ \E label \in {"apps", "unlock"} : pc' = [pc EXCEPT ![t] = label]
  BY LogIdNumbers DEF shares, sharesSystem, sharesApps, storeSlot, goto, Types

(* The types hold after every step. *)
LEMMA TypesStep ==
  ASSUME Types, IndicesInTable, [Next]_vars
  PROVE  Types'
<1>0. ASSUME UNCHANGED opened PROVE Fd' = Fd
  BY <1>0 DEF Fd
<1>1. ASSUME NEW t \in Thread, dlog_print(t) PROVE Types'
  <2>1. /\ view' \in [Thread -> ViewOf(Fd)] /\ pc' \in [Thread -> Label]
    BY <1>1, DispatchEffect DEF dlog_print, Types
  <2>2. req' \in [Thread -> Request]
    BY <1>1, RequestsType DEF dlog_print, Types
  <2>3. ncalls' \in [Thread -> 0 .. MaxCalls]
    BY <1>1, WriterAssumption DEF dlog_print, Types
  <2>4. viaInit' \in [Thread -> BOOLEAN]
    BY <1>1, Zenon DEF dlog_print, Types
  <2> QED
    BY <1>0, <1>1, <2>1, <2>2, <2>3, <2>4 DEF dlog_print, Types, memory
<1>2. ASSUME NEW t \in Thread, write_to_log_null(t) PROVE Types'
  BY <1>2, FinishTypes DEF write_to_log_null, Fate
<1>3. ASSUME NEW t \in Thread, write_to_log_kernel(t) PROVE Types'
  <2>1. CASE finish(t, Suppressed) \/ finish(t, Failed)
    BY <2>1, FinishTypes DEF Fate
  <2>2. CASE /\ goto(t, "writev")
             /\ UNCHANGED <<memory, opened, lock, view, call, opening, viaInit, done>>
    <3>1. pc' \in [Thread -> Label]
      BY <2>2 DEF goto, Types, Label
    <3> QED
      BY <1>0, <2>2, <3>1 DEF Types, memory, call
  <2> QED
    BY <1>3, <2>1, <2>2 DEF write_to_log_kernel
<1>4. ASSUME NEW t \in Thread, writev(t) PROVE Types'
  BY <1>4, WritevEffect, FinishTypes DEF Fate
<1>5. ASSUME NEW t \in Thread, initLock(t) PROVE Types'
  <2>1. view' \in [Thread -> ViewOf(Fd)] /\ lock' \in Thread \cup {NoThread}
    <3>1. CASE HavePthreads
      BY <1>5, <3>1, SynchroniseEffect DEF initLock, Types
    <3>2. CASE ~HavePthreads
      BY <1>5, <3>2 DEF initLock, Types
    <3> QED
      BY <3>1, <3>2
  <2>2. viaInit' \in [Thread -> BOOLEAN]
    BY <1>5, Zenon DEF initLock, Types
  <2>3. pc' \in [Thread -> Label]
    BY <1>5 DEF initLock, goto, Types, Label
  <2> QED
    BY <1>0, <1>5, <2>1, <2>2, <2>3 DEF initLock, Types, memory, call
<1>6. ASSUME NEW t \in Thread, initCheck(t) PROVE Types'
  <2>1. pc' \in [Thread -> Label] /\ opening' \in [Thread -> 0 .. LOG_ID_MAX]
    BY <1>6 DEF initCheck, goto, Types, Label, Inside, LOG_ID_MAIN, LOG_ID_MAX
  <2> QED
    BY <1>0, <1>6, <2>1 DEF initCheck, Types, memory, call
<1>7. ASSUME NEW t \in Thread, initOpen(t) PROVE Types'
  <2>1. log_fds' \in [LogId -> Fd'] /\ view' \in [Thread -> ViewOf(Fd')]
    BY <1>7, OpenEffect, StoreFdEffect
  <2>2. opening' \in [Thread -> 0 .. LOG_ID_MAX]
    <3>1. opening[t] + 1 \in 0 .. LOG_ID_MAX
      BY <1>7, OpenEffect, LogIdNumbers DEF LOG_ID_MAX
    <3> QED
      BY <1>7, <3>1 DEF initOpen, Types
  <2>3. pc' \in [Thread -> Label]
    BY <1>7 DEF initOpen, goto, Types, Label, Inside
  <2> QED
    BY <1>7, <2>1, <2>2, <2>3, OpenEffect DEF initOpen, Types, call
<1>8. ASSUME NEW t \in Thread, init_debug_level(t) PROVE Types'
  <2>1. view' \in [Thread -> ViewOf(Fd)] /\ g_debug_level' \in Threshold
    BY <1>8, StoreLevelEffect DEF init_debug_level, Types, Threshold
  <2>2. pc' \in [Thread -> Label]
    BY <1>8 DEF init_debug_level, goto, Types, Label, Inside
  <2> QED
    BY <1>0, <1>8, <2>1, <2>2 DEF init_debug_level, Types, call
<1>9. ASSUME NEW t \in Thread, initPublish(t) PROVE Types'
  <2>1. view' \in [Thread -> ViewOf(Fd)] /\ write_to_log' \in Writer
    <3>1. PICK val \in Writer : storeWriter(t, val)
      BY <1>9 DEF initPublish, Writer
    <3> QED
      BY <3>1, StoreWriterEffect DEF Types
  <2>2. pc' \in [Thread -> Label]
    BY <1>9 DEF initPublish, goto, Types, Label, Inside
  <2> QED
    BY <1>0, <1>9, <2>1, <2>2 DEF initPublish, Types, call
<1>10. ASSUME NEW t \in Thread, tests(t) PROVE Types'
  <2>1. pc' \in [Thread -> Label]
    BY <1>10, TestsEffect DEF Types, Label, Inside
  <2> QED
    BY <1>0, <1>10, <2>1, TestsEffect DEF Types, memory, call
<1>14. ASSUME NEW t \in Thread, loads(t) PROVE Types'
  <2>1. pc' \in [Thread -> Label]
    BY <1>14, LoadsEffect DEF Types, Label, Inside
  <2>2. view[t].fds[LOG_ID_MAIN] \subseteq Fd
    BY LogIdNumbers DEF Types, ViewOf
  <2>3. mainFd' \in [Thread -> Fd]
    <3>1. PICK main \in view[t].fds[LOG_ID_MAIN] : mainFd' = [mainFd EXCEPT ![t] = main]
      BY <1>14, LoadsEffect
    <3>2. mainFd \in [Thread -> Fd] /\ main \in Fd
      BY <2>2 DEF Types
    <3> QED
      BY <3>1, <3>2
  <2> QED
    BY <1>0, <1>14, <2>1, <2>3, LoadsEffect DEF Types, memory
<1>15. ASSUME NEW t \in Thread, shares(t) PROVE Types'
  <2>1. pc' \in [Thread -> Label]
    BY <1>15, SharesEffect DEF Types, Label, Inside
  <2>2. PICK id \in LogId : storeFd(t, id, mainFd[t])
    BY <1>15, SharesEffect
  <2>3. log_fds' \in [LogId -> Fd] /\ view' \in [Thread -> ViewOf(Fd)]
    BY <1>15, <2>2, SharesEffect, StoreFdEffect DEF Types
  <2> QED
    BY <1>0, <1>15, <2>1, <2>3, SharesEffect DEF Types, call
<1>11. ASSUME NEW t \in Thread, initUnlock(t) PROVE Types'
  <2>1. pc' \in [Thread -> Label] /\ lock' \in Thread \cup {NoThread}
    BY <1>11 DEF initUnlock, goto, Types, Label
  <2> QED
    BY <1>0, <1>11, <2>1 DEF initUnlock, Types, memory, call
<1>12. ASSUME NEW t \in Thread, redispatch(t) PROVE Types'
  <2>1. view' \in [Thread -> ViewOf(Fd)] /\ pc' \in [Thread -> Label]
    BY <1>12, DispatchEffect DEF redispatch, Types
  <2> QED
    BY <1>0, <1>12, <2>1 DEF redispatch, Types, memory, call
<1>13. CASE UNCHANGED vars
  BY <1>0, <1>13 DEF vars, Types
<1> QED
  BY <1>1, <1>2, <1>3, <1>4, <1>5, <1>6, <1>7, <1>8, <1>9, <1>10, <1>11, <1>12, <1>13,
     <1>14, <1>15, Steps DEF Next, finishes

(* A step of one thread leaves the local state of the others. *)
LEMMA OthersUntouched ==
  ASSUME Types, NEW t \in Thread, dlog_print(t) \/ running(t), NEW u \in Thread \ {t}
  PROVE  /\ pc'[u] = pc[u] /\ opening'[u] = opening[u] /\ req'[u] = req[u]
         /\ viaInit'[u] = viaInit[u] /\ mainFd'[u] = mainFd[u]
<1> USE DEF Types, goto, memory, call
<1>1. CASE dlog_print(t) \/ redispatch(t)
  BY <1>1 DEF dlog_print, redispatch, dispatch
<1>2. ASSUME NEW fate, finish(t, fate)
      PROVE  /\ pc'[u] = pc[u] /\ opening'[u] = opening[u] /\ req'[u] = req[u]
             /\ viaInit'[u] = viaInit[u] /\ mainFd'[u] = mainFd[u]
  BY <1>2 DEF finish
<1>3. CASE write_to_log_null(t) \/ writev(t)
  BY <1>2, <1>3 DEF write_to_log_null, writev
<1>4. CASE write_to_log_kernel(t)
  BY <1>2, <1>4 DEF write_to_log_kernel
<1>5. CASE initLock(t) \/ initCheck(t)
  BY <1>5 DEF initLock, initCheck
<1>6. CASE initOpen(t) \/ init_debug_level(t)
  BY <1>6 DEF initOpen, init_debug_level
<1>7. CASE initPublish(t) \/ initUnlock(t)
  BY <1>7 DEF initPublish, initUnlock
<1>8. CASE tests(t)
  <2>1. UNCHANGED <<memory, opened, lock, view, call, opening, viaInit, done>>
    BY <1>8, TestsEffect
  <2>2. PICK label : pc' = [pc EXCEPT ![t] = label]
    BY <1>8, TestsEffect
  <2> QED
    BY <2>1, <2>2
<1>9. CASE loads(t)
  <2>1. UNCHANGED <<memory, opened, lock, view, req, ncalls, opening, viaInit, done>>
    BY <1>9, LoadsEffect
  <2>2. PICK label : pc' = [pc EXCEPT ![t] = label]
    BY <1>9, LoadsEffect
  <2>3. PICK main : mainFd' = [mainFd EXCEPT ![t] = main]
    BY <1>9, LoadsEffect
  <2> QED
    BY <2>1, <2>2, <2>3
<1>10. CASE shares(t)
  <2>1. UNCHANGED <<write_to_log, g_debug_level, opened, lock, call, opening, viaInit, done>>
    BY <1>10, SharesEffect
  <2>2. PICK label : pc' = [pc EXCEPT ![t] = label]
    BY <1>10, SharesEffect
  <2> QED
    BY <2>1, <2>2
<1> QED
  BY <1>1, <1>3, <1>4, <1>5, <1>6, <1>7, <1>8, <1>9, <1>10, Steps DEF finishes

(* The indices stay in the table: the loop ends after apps, and writev is *)
(* only reached with a valid id.                                          *)
LEMMA IndicesStep ==
  ASSUME Types, IndicesInTable, [Next]_vars
  PROVE  IndicesInTable'
<1>1. CASE UNCHANGED vars
  BY <1>1 DEF vars, IndicesInTable
<1>2. ASSUME NEW t \in Thread, dlog_print(t) \/ running(t)
      PROVE  IndicesInTable'
  <2> SUFFICES /\ pc'[t] = "open" => opening'[t] \in LogId
               /\ pc'[t] = "writev" => req'[t].id \in LogId
    BY <1>2, OthersUntouched DEF IndicesInTable
  <2> USE DEF Types
  <2>1. CASE dlog_print(t) \/ redispatch(t)
    <3>1. pc'[t] \in {"lock", "kernel", "null"}
      BY <2>1, DispatchEffect DEF dlog_print, redispatch
    <3> QED
      BY <3>1
  <2>2. ASSUME NEW fate, finish(t, fate) PROVE pc'[t] = "idle"
    BY <2>2 DEF finish, goto
  <2>3. CASE write_to_log_null(t) \/ writev(t)
    BY <2>2, <2>3 DEF write_to_log_null, writev
  <2>4. CASE write_to_log_kernel(t)
    <3>1. CASE finish(t, Suppressed) \/ finish(t, Failed)
      BY <2>2, <3>1
    <3>2. CASE ~(req[t].id >= LOG_ID_MAX) /\ goto(t, "writev") /\ req' = req
      <4>1. req[t].id \in LogId
        BY <3>2, LogIdNumbers DEF Request, LOG_ID_MAX
      <4> QED
        BY <3>2, <4>1 DEF goto
    <3> QED
      BY <2>4, <3>1, <3>2 DEF write_to_log_kernel, call
  <2>5. CASE initLock(t) \/ init_debug_level(t) \/ initPublish(t) \/ initUnlock(t)
    BY <2>5 DEF initLock, init_debug_level, initPublish, initUnlock, goto
  <2>6. CASE initCheck(t)
    BY <2>6, LogIdNumbers DEF initCheck, goto
  <2>7. CASE initOpen(t)
    <3>1. opening[t] \in LogId /\ opening'[t] = opening[t] + 1
      BY <2>7, OpenEffect DEF initOpen
    <3>2. pc'[t] = IF opening[t] = LOG_ID_APPS THEN "level" ELSE "open"
      BY <2>7 DEF initOpen, goto
    <3> QED
      BY <3>1, <3>2, LogIdNumbers DEF LOG_ID_APPS
  <2>8. CASE tests(t) \/ loads(t) \/ shares(t)
    BY <2>8, TestsEffect, LoadsEffect, SharesEffect
  <2> QED
    BY <1>2, <2>1, <2>3, <2>4, <2>5, <2>6, <2>7, <2>8, Steps DEF finishes
<1> QED
  BY <1>1, <1>2 DEF Next

WriterInv == Types /\ IndicesInTable

(* Types hold and table indices stay in the table in every state. *)
LEMMA WriterInvariant == Spec => []WriterInv
<1>1. Init => WriterInv
  BY TypesInit DEF WriterInv, IndicesInTable, Init
<1>2. WriterInv /\ [Next]_vars => WriterInv'
  BY TypesStep, IndicesStep DEF WriterInv
<1> QED
  BY <1>1, <1>2, PTL DEF Spec

(* Types, for every number of threads and every build: a load never       *)
(* yields a descriptor that was not opened, and no call leaves the table. *)
THEOREM WriterTypeCorrect == Spec => []TypeOK
<1>1. WriterInv => TypeOK
  BY TypesImplyTypeOK DEF WriterInv
<1> QED
  BY <1>1, WriterInvariant, PTL

-----------------------------------------------------------------------------
(* Routing. *)

(* The new record of a finished call, as a reader of done sees it. *)
LEMMA FinishRecord ==
  ASSUME NEW t, NEW fate, finish(t, fate), NEW c \in done'
  PROVE  \/ c \in done
         \/ c.req = req[t] /\ c.fate = fate /\ c.viaInit = viaInit[t]
  BY DEF finish

storesFd(t) == initOpen(t) \/ shares(t)

(* Only opening and the fallbacks change the table; only the owner of the *)
(* lock sees more of it than before.                                      *)
LEMMA TableUntouched ==
  ASSUME Types, NEW t \in Thread, dlog_print(t) \/ running(t), ~storesFd(t)
  PROVE  /\ opened' = opened /\ log_fds' = log_fds
         /\ \A u \in Thread, id \in LogId :
              \/ view'[u].fds[id] = view[u].fds[id]
              \/ view'[u].fds[id] = {log_fds[id]}
<1> USE DEF Types
<1>1. CASE dlog_print(t) \/ redispatch(t)
  <2>1. \A u \in Thread : view'[u].fds = view[u].fds
    BY <1>1, DispatchEffect DEF dlog_print, redispatch
  <2> QED
    BY <1>1, <2>1 DEF dlog_print, redispatch, memory
<1>2. ASSUME NEW fate, finish(t, fate)
      PROVE  opened' = opened /\ log_fds' = log_fds /\ view' = view
  BY <1>2 DEF finish, memory
<1>3. CASE finishes(t)
  <2>1. opened' = opened /\ log_fds' = log_fds /\ view' = view
    BY <1>2, <1>3 DEF finishes, write_to_log_null, writev, write_to_log_kernel, memory
  <2> QED
    BY <2>1
<1>4. CASE initLock(t)
  <2>1. CASE HavePthreads
    <3>1. synchronise(t)
      BY <1>4, <2>1 DEF initLock
    <3>2. \A u \in Thread \ {t} : view'[u] = view[u]
      BY <3>1, SynchroniseEffect
    <3>3. \A id \in LogId : view'[t].fds[id] = {log_fds[id]}
      BY <3>1, SynchroniseEffect
    <3> QED
      BY <1>4, <3>2, <3>3 DEF initLock, memory
  <2>2. CASE ~HavePthreads
    BY <1>4, <2>2 DEF initLock, memory
  <2> QED
    BY <2>1, <2>2
<1>5. CASE initCheck(t) \/ initUnlock(t)
  BY <1>5 DEF initCheck, initUnlock, memory
<1>6. CASE init_debug_level(t)
  <2>1. \A u \in Thread : view'[u].fds = view[u].fds
    BY <1>6, StoreLevelEffect DEF init_debug_level
  <2> QED
    BY <1>6, <2>1 DEF init_debug_level
<1>7. CASE initPublish(t)
  <2>1. PICK val \in Writer : storeWriter(t, val)
    BY <1>7 DEF initPublish, Writer
  <2>2. \A u \in Thread : view'[u].fds = view[u].fds
    BY <2>1, StoreWriterEffect
  <2> QED
    BY <1>7, <2>2 DEF initPublish
<1>8. CASE tests(t) \/ loads(t)
  BY <1>8, TestsEffect, LoadsEffect DEF memory
<1> QED
  BY <1>1, <1>3, <1>4, <1>5, <1>6, <1>7, <1>8, Steps DEF storesFd

(* A register changes when main is loaded into it. *)
LEMMA RegisterUntouched ==
  ASSUME Types, NEW t \in Thread, dlog_print(t) \/ running(t), ~loads(t)
  PROVE  mainFd' = mainFd
<1> USE DEF call
<1>1. CASE finishes(t)
  BY <1>1 DEF finishes, write_to_log_null, writev, write_to_log_kernel, finish
<1>2. CASE tests(t) \/ shares(t)
  BY <1>2, TestsEffect, SharesEffect
<1> QED
  BY <1>1, <1>2, Steps
     DEF dlog_print, initLock, initCheck, initOpen, init_debug_level, initPublish,
         initUnlock, redispatch

(* Only a call that ends adds to the history. *)
LEMMA HistoryUntouched ==
  ASSUME Types, NEW t \in Thread, dlog_print(t) \/ running(t), ~finishes(t)
  PROVE  done' = done
  BY Steps, TestsEffect, LoadsEffect, SharesEffect
     DEF dlog_print, initLock, initCheck, initOpen, init_debug_level, initPublish,
         initUnlock, redispatch

(* Every step keeps the descriptors in slots they belong to: a fallback   *)
(* copies main's, and opening fills the slot of the device it opens.      *)
LEMMA BelongStep ==
  ASSUME Types, IndicesInTable, DescriptorsBelong, [Next]_vars
  PROVE  DescriptorsBelong'
<1>1. CASE UNCHANGED vars
  BY <1>1 DEF vars, DescriptorsBelong, belongs
<1>2. ASSUME NEW t \in Thread, dlog_print(t) \/ running(t)
      PROVE  DescriptorsBelong'
  <2>1. CASE ~storesFd(t)
    <3>1. /\ opened' = opened /\ log_fds' = log_fds
          /\ \A u \in Thread, id \in LogId :
               \/ view'[u].fds[id] = view[u].fds[id]
               \/ view'[u].fds[id] = {log_fds[id]}
      BY <1>2, <2>1, TableUntouched
    <3>2. \A i \in LogId :
            /\ belongs(opened', log_fds'[i], i)
            /\ \A u \in Thread : \A fd \in view'[u].fds[i] : belongs(opened', fd, i)
      BY <3>1 DEF DescriptorsBelong, belongs
    <3>3. \A u \in Thread : belongs(opened', mainFd'[u], LOG_ID_MAIN)
      <4>1. CASE loads(t)
        <5>1. PICK main \in view[t].fds[LOG_ID_MAIN] : mainFd' = [mainFd EXCEPT ![t] = main]
          BY <4>1, LoadsEffect
        <5>2. belongs(opened', main, LOG_ID_MAIN)
          BY <3>1, LogIdNumbers DEF DescriptorsBelong, belongs
        <5> QED
          BY <3>1, <5>1, <5>2 DEF DescriptorsBelong, Types, belongs
      <4>2. CASE ~loads(t)
        BY <1>2, <3>1, <4>2, RegisterUntouched DEF DescriptorsBelong, belongs
      <4> QED
        BY <4>1, <4>2
    <3> QED
      BY <3>2, <3>3 DEF DescriptorsBelong
  <2>2. ASSUME NEW id \in LogId, NEW fd \in Fd', belongs(opened', fd, id), storeFd(t, id, fd),
               log_fds \in [LogId -> Fd'], view \in [Thread -> ViewOf(Fd')],
               \A f \in Fd \ {-1} : opened'[f] = opened[f], mainFd' = mainFd
        PROVE  DescriptorsBelong'
    <3>1. \A i \in LogId, f \in Fd : belongs(opened, f, i) => belongs(opened', f, i)
      BY <2>2 DEF belongs
    <3>2. \A i \in LogId : log_fds[i] \in Fd /\ \A u \in Thread : view[u].fds[i] \subseteq Fd
      BY DEF Types, ViewOf
    <3>3. \A i \in LogId :
            /\ belongs(opened', log_fds'[i], i)
            /\ \A u \in Thread : view'[u].fds[i] \subseteq view[u].fds[i] \cup {fd}
            /\ i # id => \A u \in Thread : view'[u].fds[i] = view[u].fds[i]
      <4>1. /\ log_fds'[id] = fd
            /\ \A i \in LogId \ {id} : log_fds'[i] = log_fds[i]
            /\ \A u \in Thread :
                 /\ view'[u].fds[id] = seenBy(u, t, view[u].fds[id], fd)
                 /\ \A i \in LogId \ {id} : view'[u].fds[i] = view[u].fds[i]
        BY <2>2, StoreFdEffect
      <4>2. \A u \in Thread : view'[u].fds[id] \subseteq view[u].fds[id] \cup {fd}
        BY <4>1, SeenBy
      <4>3. \A i \in LogId \ {id} : belongs(opened', log_fds'[i], i)
        BY <3>1, <3>2, <4>1 DEF DescriptorsBelong, belongs
      <4>4. belongs(opened', log_fds'[id], id)
        BY <2>2, <4>1 DEF belongs
      <4> QED
        BY <4>1, <4>2, <4>3, <4>4
    <3>4. ASSUME NEW i \in LogId, NEW u \in Thread, NEW f \in view'[u].fds[i]
          PROVE  belongs(opened', f, i)
      <4>1. CASE f \in view[u].fds[i]
        BY <3>1, <3>2, <4>1 DEF DescriptorsBelong
      <4>2. CASE i = id /\ f = fd
        BY <2>2, <4>2 DEF belongs
      <4> QED
        BY <3>3, <4>1, <4>2
    <3>5. \A u \in Thread : belongs(opened', mainFd'[u], LOG_ID_MAIN)
      <4>1. \A u \in Thread : mainFd[u] \in Fd /\ belongs(opened, mainFd[u], LOG_ID_MAIN)
        BY DEF DescriptorsBelong, Types
      <4> QED
        BY <2>2, <3>1, <4>1, LogIdNumbers
    <3> QED
      BY <3>3, <3>4, <3>5 DEF DescriptorsBelong
  <2>3. CASE initOpen(t)
    <3>1. PICK fd \in Fd' :
            /\ storeFd(t, opening[t], fd)
            /\ fd = -1 \/ opened'[fd] = opening[t]
      BY <2>3, OpenEffect
    <3>2. opening[t] \in LogId /\ belongs(opened', fd, opening[t])
      BY <2>3, <3>1, OpenEffect DEF belongs
    <3>3. mainFd' = mainFd
      BY <2>3 DEF initOpen, call
    <3> QED
      BY <2>2, <2>3, <3>1, <3>2, <3>3, OpenEffect
  <2>4. CASE shares(t)
    <3>1. /\ opened' = opened /\ Fd' = Fd /\ mainFd[t] \in Fd /\ mainFd' = mainFd
          /\ \E id \in {LOG_ID_SYSTEM, LOG_ID_APPS} :
               id \in LogId /\ storeFd(t, id, mainFd[t])
      BY <2>4, SharesEffect DEF Fd, call
    <3>2. PICK id \in {LOG_ID_SYSTEM, LOG_ID_APPS} :
            id \in LogId /\ storeFd(t, id, mainFd[t])
      BY <3>1
    <3>3. belongs(opened', mainFd[t], id)
      BY <3>1 DEF DescriptorsBelong, belongs
    <3> QED
      BY <2>2, <3>1, <3>2, <3>3 DEF Types
  <2> QED
    BY <2>1, <2>3, <2>4 DEF storesFd
<1> QED
  BY <1>1, <1>2 DEF Next

(* Every step keeps Routed: a message goes where its descriptor leads. *)
LEMMA RoutedStep ==
  ASSUME Types, IndicesInTable, DescriptorsBelong, Routed, [Next]_vars
  PROVE  Routed'
<1>1. CASE done' = done
  BY <1>1 DEF Routed
<1>2. ASSUME NEW t \in Thread, NEW fate, finish(t, fate), fate \notin LogId
      PROVE  Routed'
  BY <1>2, FinishRecord DEF Routed
<1>3. ASSUME NEW t \in Thread, writev(t) PROVE Routed'
  <2>1. PICK fd \in view[t].fds[req[t].id] :
          /\ fd \in Fd /\ req[t].id \in LogId
          /\ \/ fd = -1 /\ finish(t, Failed)
             \/ fd # -1 /\ opened[fd] \in LogId /\ finish(t, opened[fd])
             \/ fd # -1 /\ finish(t, Refused)
    BY <1>3, WritevEffect
  <2>2. CASE finish(t, Failed) \/ finish(t, Refused)
    BY <1>2, <2>2, LogIdNumbers
  <2>3. CASE fd # -1 /\ finish(t, opened[fd])
    <3>1. belongs(opened, fd, req[t].id)
      BY <2>1 DEF DescriptorsBelong
    <3> QED
      BY <2>3, <3>1, FinishRecord DEF Routed, belongs
  <2> QED
    BY <2>1, <2>2, <2>3
<1>4. ASSUME NEW t \in Thread, write_to_log_null(t) \/ write_to_log_kernel(t)
      PROVE  Routed'
  BY <1>1, <1>2, <1>4, LogIdNumbers DEF write_to_log_null, write_to_log_kernel
<1>5. CASE UNCHANGED vars
  BY <1>1, <1>5 DEF vars
<1> QED
  BY <1>1, <1>3, <1>4, <1>5, HistoryUntouched DEF Next, finishes

(* Even without the lock, with stale loads and however many threads, a    *)
(* message that reaches a device reaches its own one, or main when it is  *)
(* for system or apps; one with an invalid log id reaches none.           *)
THEOREM MessagesRouted == Spec => []Routed
<1>1. Init => DescriptorsBelong /\ Routed
  BY DEF Init, DescriptorsBelong, belongs, Routed
<1>2. WriterInv /\ DescriptorsBelong /\ Routed /\ [Next]_vars
        => (DescriptorsBelong /\ Routed)'
  BY BelongStep, RoutedStep DEF WriterInv
<1> QED
  BY <1>1, <1>2, WriterInvariant, PTL DEF Spec

-----------------------------------------------------------------------------
(* The lock, the table and the choice of the writer. *)

Locked == {"check", "unlock"} \cup Inside

Early == {"open", "level", "testMain", "testRadio", "storeNull", "storeKernel"}
AtSystem == {"system", "systemMain", "systemStore"}
AtApps == {"apps", "appsMain", "appsStore"}

Busy(t) == pc[t] \in Early

(* A thread between lock and unlock owns the lock. *)
Exclusive == HavePthreads => \A t \in Thread : pc[t] \in Locked => lock = t

(* What a thread loads is what memory holds. *)
Coherent(t) ==
  /\ view[t].writer = {write_to_log} /\ view[t].level = {g_debug_level}
  /\ \A i \in LogId : view[t].fds[i] = {log_fds[i]}

(* A thread inside __dlog_init loads what memory holds. *)
InsideCoherent == \A t \in Thread : pc[t] \in Locked => Coherent(t)

(* What a thread found in main and radio on the way to its decision, and  *)
(* what it loaded of main into its register, is still there.              *)
Decided ==
  \A t \in Thread :
    /\ pc[t] \in {"testRadio", "storeKernel"} => log_fds[LOG_ID_MAIN] # -1
    /\ pc[t] = "storeKernel" => log_fds[LOG_ID_RADIO] # -1
    /\ pc[t] \in {"systemStore", "appsStore"} => mainFd[t] = log_fds[LOG_ID_MAIN]

(* While messages go to the kernel, a slot without a descriptor has a     *)
(* thread that has yet to check it or to fill it.                         *)
Repairing ==
  write_to_log = "kernel" =>
    /\ (log_fds[LOG_ID_MAIN] = -1 \/ log_fds[LOG_ID_RADIO] = -1)
         => \E t \in Thread : Busy(t)
    /\ log_fds[LOG_ID_SYSTEM] = -1
         => \E t \in Thread : Busy(t) \/ pc[t] \in AtSystem
    /\ log_fds[LOG_ID_APPS] = -1
         => \E t \in Thread : Busy(t) \/ pc[t] \in AtSystem \cup AtApps

TableInv == Exclusive /\ InsideCoherent /\ Decided /\ Repairing

(* The devices are opened in order, by the one thread that found the      *)
(* initial writer under the lock; behind the publication it is not found. *)
OpenedInOrder ==
  /\ (write_to_log = "init" /\ \A t \in Thread : ~Busy(t)) => opened = <<>>
  /\ \A t \in Thread :
       /\ Busy(t) => write_to_log = "init"
       /\ pc[t] \in AtSystem \cup AtApps \cup {"unlock"} => write_to_log # "init"
       /\ pc[t] = "open" => \A i \in DOMAIN opened : opened[i] < opening[t]

(* The memory of the logger has reached its final value. *)
Settled == write_to_log # "init" /\ \A t \in Thread : ~initialising(t)

(* A thread that has left __dlog_init knows that value. *)
InitLeft ==
  \A t \in Thread :
    (viaInit[t] /\ pc[t] \in {"redispatch", "kernel", "null", "writev"}) =>
      /\ Settled /\ Coherent(t)
      /\ pc[t] \in {"kernel", "writev"} => write_to_log = "kernel"
      /\ pc[t] = "null" => write_to_log = "null"

(* A finished call that came through __dlog_init left a settled memory,   *)
(* and one on its way to writev passed the check of the level in force.   *)
DoneSettled == \A c \in done : c.viaInit => Settled

Judged ==
  \A t \in Thread :
    (viaInit[t] /\ pc[t] = "writev") =>
      ~(req[t].id >= LOG_ID_APPS /\ ~(g_debug_level \in 0 .. req[t].prio))

LockInv ==
  /\ OpenedInOrder /\ OneOpenPerDevice /\ InitLeft /\ InitCallersLogged
  /\ DoneSettled /\ Judged /\ LevelInForce

(* The steps of a thread outside the initialisation, *)
LEMMA OutsideSteps ==
  ASSUME Types, NEW t \in Thread, dlog_print(t) \/ running(t), ~initialising(t)
  PROVE  \/ dlog_print(t) \/ redispatch(t) \/ finishes(t) \/ initLock(t)
         \/ initCheck(t) \/ initUnlock(t)
<1>1. ~tests(t) /\ ~loads(t) /\ ~shares(t)
  BY TestsEffect, LoadsEffect, SharesEffect DEF initialising, Inside
<1>2. ~initOpen(t) /\ ~init_debug_level(t) /\ ~initPublish(t)
  BY DEF initOpen, init_debug_level, initPublish, initialising, Inside
<1> QED
  BY <1>1, <1>2, Steps

(* and those of a thread in it. *)
LEMMA InitialisingSteps ==
  ASSUME NEW t \in Thread, dlog_print(t) \/ running(t), initialising(t)
  PROVE  \/ initOpen(t) \/ init_debug_level(t) \/ tests(t) \/ loads(t)
         \/ initPublish(t) \/ shares(t)
<1>1. /\ ~dlog_print(t) /\ ~redispatch(t) /\ ~finishes(t) /\ ~initLock(t)
      /\ ~initCheck(t) /\ ~initUnlock(t)
  BY DEF initialising, Inside, dlog_print, redispatch, finishes, write_to_log_null,
         write_to_log_kernel, writev, initLock, initCheck, initUnlock
<1> QED
  BY <1>1, Steps

(* A thread that is not initialising changes nothing the others load. *)
LEMMA MemoryUntouched ==
  ASSUME Types, NEW t \in Thread, dlog_print(t) \/ running(t), ~initialising(t)
  PROVE  /\ write_to_log' = write_to_log /\ log_fds' = log_fds /\ opened' = opened
         /\ g_debug_level' = g_debug_level
         /\ \A u \in Thread \ {t} : view'[u] = view[u]
<1> USE DEF Types
<1>1. \/ dlog_print(t) \/ redispatch(t) \/ finishes(t) \/ initLock(t)
      \/ initCheck(t) \/ initUnlock(t)
  BY OutsideSteps
<1>2. CASE dlog_print(t) \/ redispatch(t)
  <2>1. \A u \in Thread \ {t} : view'[u] = view[u]
    BY <1>2, DispatchEffect DEF dlog_print, redispatch
  <2> QED
    BY <1>2, <2>1 DEF dlog_print, redispatch, memory
<1>3. CASE finishes(t)
  BY <1>3 DEF finishes, write_to_log_null, writev, write_to_log_kernel, finish, memory
<1>4. CASE initLock(t)
  <2>1. \A u \in Thread \ {t} : view'[u] = view[u]
    <3>1. CASE HavePthreads
      BY <1>4, <3>1, SynchroniseEffect DEF initLock
    <3>2. CASE ~HavePthreads
      BY <1>4, <3>2 DEF initLock
    <3> QED
      BY <3>1, <3>2
  <2> QED
    BY <1>4, <2>1 DEF initLock, memory
<1>5. CASE initCheck(t) \/ initUnlock(t)
  BY <1>5 DEF initCheck, initUnlock, memory
<1> QED
  BY <1>1, <1>2, <1>3, <1>4, <1>5

(* The thread that stores a descriptor stays in step with memory. *)
LEMMA CoherentFd ==
  ASSUME NEW F, NEW u \in Thread, NEW id \in LogId, NEW fd \in F,
         log_fds \in [LogId -> F], view \in [Thread -> ViewOf(F)],
         storeFd(u, id, fd), write_to_log' = write_to_log,
         g_debug_level' = g_debug_level, Coherent(u)
  PROVE  Coherent(u)'
<1>1. /\ log_fds'[id] = fd
      /\ \A i \in LogId \ {id} : log_fds'[i] = log_fds[i]
      /\ view'[u].writer = view[u].writer /\ view'[u].level = view[u].level
      /\ view'[u].fds[id] = seenBy(u, u, view[u].fds[id], fd)
      /\ \A i \in LogId \ {id} : view'[u].fds[i] = view[u].fds[i]
  BY StoreFdEffect
<1>2. view'[u].fds[id] = {fd}
  BY <1>1, SeenBy
<1> QED
  BY <1>1, <1>2 DEF Coherent

(* The same for the writer. *)
LEMMA CoherentWriter ==
  ASSUME Types, NEW u \in Thread, NEW val \in Writer, storeWriter(u, val),
         log_fds' = log_fds, g_debug_level' = g_debug_level, Coherent(u)
  PROVE  Coherent(u)'
<1>1. /\ write_to_log' = val /\ view'[u].fds = view[u].fds
      /\ view'[u].level = view[u].level
      /\ view'[u].writer = seenBy(u, u, view[u].writer, val)
  BY StoreWriterEffect DEF Types
<1>2. view'[u].writer = {val}
  BY <1>1, SeenBy
<1> QED
  BY <1>1, <1>2 DEF Coherent

(* Dispatching keeps a thread in step with memory, and sends it where     *)
(* memory says.                                                           *)
LEMMA CoherentDispatch ==
  ASSUME Types, NEW t \in Thread, dispatch(t), Coherent(t),
         write_to_log' = write_to_log, log_fds' = log_fds, g_debug_level' = g_debug_level
  PROVE  Coherent(t)' /\ pc'[t] = entry(write_to_log)
<1>1. /\ view'[t].fds = view[t].fds /\ view'[t].level = view[t].level
      /\ \/ /\ "init" \in view[t].writer /\ pc'[t] = "lock"
            /\ view'[t].writer = view[t].writer
         \/ /\ "kernel" \in view[t].writer /\ pc'[t] = "kernel"
            /\ view'[t].writer = view[t].writer \ {"init"}
         \/ /\ "null" \in view[t].writer /\ pc'[t] = "null"
            /\ view'[t].writer = view[t].writer \ {"init"}
  BY DispatchEffect DEF Types
<1>2. view[t].writer = {write_to_log}
  BY DEF Coherent
<1> QED
  BY <1>1, <1>2 DEF Coherent, entry

(* Every step keeps the lock exclusive. *)
LEMMA ExclusiveStep ==
  ASSUME Types, Exclusive, [Next]_vars
  PROVE  Exclusive'
<1>1. CASE UNCHANGED vars
  BY <1>1 DEF vars, Exclusive
<1>2. ASSUME NEW t \in Thread, dlog_print(t) \/ running(t), HavePthreads
      PROVE  \A u \in Thread : pc'[u] \in Locked => lock' = u
  <2>0. \A u \in Thread : u # NoThread
    BY WriterAssumption
  <2>1. \A u \in Thread : pc[u] \in Locked => lock = u
    BY <1>2 DEF Exclusive
  <2>2. \A u \in Thread \ {t} : pc'[u] = pc[u]
    BY <1>2, OthersUntouched
  <2> USE DEF Types, goto
  <2>3. CASE dlog_print(t) \/ redispatch(t)
    <3>1. pc'[t] \in {"lock", "kernel", "null"}
      BY <2>3, DispatchEffect DEF dlog_print, redispatch
    <3>2. lock' = lock
      BY <2>3 DEF dlog_print, redispatch
    <3> QED
      BY <2>1, <2>2, <3>1, <3>2 DEF Locked, Inside
  <2>4. CASE finishes(t)
    <3>1. pc'[t] \in {"idle", "writev"} /\ lock' = lock
      BY <2>4 DEF finishes, write_to_log_null, writev, write_to_log_kernel, finish
    <3> QED
      BY <2>1, <2>2, <3>1 DEF Locked, Inside
  <2>5. CASE initLock(t)
    BY <1>2, <2>0, <2>1, <2>2, <2>5 DEF initLock
  <2>6. CASE initUnlock(t)
    <3>1. pc'[t] = "redispatch" /\ pc[t] \in Locked
      BY <2>6 DEF initUnlock, Locked
    <3> QED
      BY <2>0, <2>1, <2>2, <3>1 DEF Locked, Inside
  <2>7. CASE \/ initCheck(t) \/ initOpen(t) \/ init_debug_level(t) \/ initPublish(t)
             \/ tests(t) \/ loads(t) \/ shares(t)
    <3>1. CASE tests(t) \/ loads(t) \/ shares(t)
      <4>1. pc[t] \in Locked /\ lock' = lock
        BY <3>1, TestsEffect, LoadsEffect, SharesEffect DEF Locked, Inside
      <4> QED
        BY <2>1, <2>2, <4>1
    <3>2. CASE initCheck(t) \/ initOpen(t) \/ init_debug_level(t) \/ initPublish(t)
      <4>1. pc[t] \in Locked /\ lock' = lock
        BY <3>2 DEF initCheck, initOpen, init_debug_level, initPublish, Locked, Inside
      <4> QED
        BY <2>1, <2>2, <4>1
    <3> QED
      BY <2>7, <3>1, <3>2
  <2> QED
    BY <1>2, <2>3, <2>4, <2>5, <2>6, <2>7, Steps
<1> QED
  BY <1>1, <1>2 DEF Next, Exclusive

(* While one thread is inside, no other is. *)
LEMMA OnlyOneInside ==
  ASSUME HavePthreads, Exclusive, NEW t \in Thread, pc[t] \in Locked,
         NEW u \in Thread \ {t}
  PROVE  pc[u] \notin Locked /\ ~Busy(u) /\ ~initialising(u)
  BY DEF Exclusive, Locked, Busy, Early, Inside, initialising

(* Every step keeps the initialising threads in step with memory: under   *)
(* the lock nobody else stores.                                           *)
LEMMA InsideCoherentStep ==
  ASSUME HavePthreads, Types, IndicesInTable, Exclusive, InsideCoherent, [Next]_vars
  PROVE  InsideCoherent'
<1>1. CASE UNCHANGED vars
  BY <1>1 DEF vars, InsideCoherent, Coherent
<1>2. ASSUME NEW t \in Thread, dlog_print(t) \/ running(t),
             NEW u \in Thread, pc'[u] \in Locked
      PROVE  Coherent(u)'
  <2>1. CASE u # t
    <3>1. pc[u] \in Locked /\ Coherent(u)
      BY <1>2, <2>1, OthersUntouched DEF InsideCoherent
    <3>2. ~initialising(t)
      BY <2>1, <3>1, OnlyOneInside
    <3>3. /\ write_to_log' = write_to_log /\ log_fds' = log_fds
          /\ g_debug_level' = g_debug_level /\ view'[u] = view[u]
      BY <1>2, <2>1, <3>2, MemoryUntouched
    <3> QED
      BY <3>1, <3>3 DEF Coherent
  <2>2. CASE u = t /\ ~initialising(t)
    <3>1. /\ write_to_log' = write_to_log /\ log_fds' = log_fds
          /\ g_debug_level' = g_debug_level
      BY <1>2, <2>2, MemoryUntouched
    <3>2. ~dlog_print(t) /\ ~redispatch(t)
      <4>1. ASSUME dlog_print(t) \/ redispatch(t) PROVE pc'[t] \in {"lock", "kernel", "null"}
        BY <4>1, DispatchEffect DEF dlog_print, redispatch, Types
      <4> QED
        BY <1>2, <2>2, <4>1 DEF Locked, Inside
    <3>3. ~finishes(t) /\ ~initUnlock(t)
      <4>1. ASSUME finishes(t) \/ initUnlock(t)
            PROVE  pc'[t] \in {"idle", "writev", "redispatch"}
        BY <4>1 DEF finishes, write_to_log_null, writev, write_to_log_kernel, finish,
                    initUnlock, goto, Types
      <4> QED
        BY <1>2, <2>2, <4>1 DEF Locked, Inside
    <3>4. CASE initLock(t)
      <4>1. synchronise(t)
        BY <3>4 DEF initLock
      <4>2. /\ view'[t].writer = {write_to_log} /\ view'[t].level = {g_debug_level}
            /\ \A i \in LogId : view'[t].fds[i] = {log_fds[i]}
        BY <4>1, SynchroniseEffect DEF Types
      <4> QED
        BY <2>2, <3>1, <4>2 DEF Coherent
    <3>5. CASE initCheck(t)
      <4>1. pc[t] \in Locked /\ view' = view
        BY <3>5 DEF initCheck, Locked
      <4> QED
        BY <2>2, <3>1, <4>1 DEF InsideCoherent, Coherent
    <3> QED
      BY <1>2, <2>2, <3>2, <3>3, <3>4, <3>5, OutsideSteps
  <2>3. CASE u = t /\ initialising(t)
    <3>1. Coherent(t)
      BY <2>3 DEF initialising, Locked, InsideCoherent
    <3>2. CASE initOpen(t)
      <4>1. PICK fd \in Fd' : storeFd(t, opening[t], fd)
        BY <3>2, OpenEffect
      <4>2. /\ opening[t] \in LogId /\ write_to_log' = write_to_log
            /\ g_debug_level' = g_debug_level
            /\ log_fds \in [LogId -> Fd'] /\ view \in [Thread -> ViewOf(Fd')]
        BY <3>2, OpenEffect DEF initOpen
      <4> QED
        BY <2>3, <3>1, <4>1, <4>2, CoherentFd
    <3>3. CASE init_debug_level(t)
      <4>1. CASE EnvSet
        <5>1. PICK level \in EnvLevels : storeLevel(t, level)
          BY <3>3, <4>1 DEF init_debug_level
        <5>2. /\ view'[t].writer = view[t].writer /\ view'[t].fds = view[t].fds
              /\ view'[t].level = seenBy(t, t, view[t].level, level)
              /\ g_debug_level' = level
          BY <5>1, StoreLevelEffect DEF Types
        <5>3. view'[t].level = {g_debug_level'}
          BY <5>2, SeenBy
        <5> QED
          BY <2>3, <3>1, <3>3, <5>2, <5>3 DEF init_debug_level, Coherent
      <4>2. CASE ~EnvSet
        BY <2>3, <3>1, <3>3, <4>2 DEF init_debug_level, Coherent
      <4> QED
        BY <4>1, <4>2
    <3>4. CASE initPublish(t)
      <4>1. PICK val \in Writer : storeWriter(t, val)
        BY <3>4 DEF initPublish, Writer
      <4> QED
        BY <2>3, <3>1, <3>4, <4>1, CoherentWriter DEF initPublish
    <3>5. CASE tests(t) \/ loads(t)
      <4>1. UNCHANGED <<memory, view>>
        BY <3>5, TestsEffect, LoadsEffect
      <4> QED
        BY <2>3, <3>1, <4>1 DEF Coherent, memory
    <3>6. CASE shares(t)
      <4>1. PICK id \in LogId : storeFd(t, id, mainFd[t])
        BY <3>6, SharesEffect
      <4>2. mainFd[t] \in Fd /\ write_to_log' = write_to_log /\ g_debug_level' = g_debug_level
        BY <3>6, SharesEffect
      <4>3. log_fds \in [LogId -> Fd] /\ view \in [Thread -> ViewOf(Fd)]
        BY DEF Types
      <4> QED
        BY <2>3, <3>1, <4>1, <4>2, <4>3, CoherentFd
    <3> QED
      BY <1>2, <2>3, <3>2, <3>3, <3>4, <3>5, <3>6, InitialisingSteps
  <2> QED
    BY <2>1, <2>2, <2>3
<1> QED
  BY <1>1, <1>2 DEF Next, InsideCoherent

(* A slot that is not main keeps main and radio when it is shared. *)
LEMMA SharesSlots ==
  ASSUME Types, NEW t \in Thread, shares(t)
  PROVE  /\ log_fds'[LOG_ID_MAIN] = log_fds[LOG_ID_MAIN]
         /\ log_fds'[LOG_ID_RADIO] = log_fds[LOG_ID_RADIO]
         /\ sharesSystem(t) => /\ log_fds'[LOG_ID_SYSTEM] = mainFd[t]
                               /\ log_fds'[LOG_ID_APPS] = log_fds[LOG_ID_APPS]
                               /\ pc[t] = "systemStore" /\ pc'[t] = "apps"
         /\ sharesApps(t) => /\ log_fds'[LOG_ID_APPS] = mainFd[t]
                             /\ log_fds'[LOG_ID_SYSTEM] = log_fds[LOG_ID_SYSTEM]
                             /\ pc[t] = "appsStore" /\ pc'[t] = "unlock"
<1>1. log_fds \in [LogId -> Fd] /\ pc \in [Thread -> Label]
  BY DEF Types
<1> QED
  BY <1>1, LogIdNumbers
     DEF shares, sharesSystem, sharesApps, storeSlot, storeFd, goto,
         LOG_ID_MAIN, LOG_ID_RADIO, LOG_ID_SYSTEM, LOG_ID_APPS

(* Every step keeps Decided: nobody else is inside to change the table. *)
LEMMA DecidedStep ==
  ASSUME HavePthreads, Types, IndicesInTable, Exclusive, InsideCoherent, Decided, [Next]_vars
  PROVE  Decided'
<1> DEFINE Part(u) ==
      /\ pc[u] \in {"testRadio", "storeKernel"} => log_fds[LOG_ID_MAIN] # -1
      /\ pc[u] = "storeKernel" => log_fds[LOG_ID_RADIO] # -1
      /\ pc[u] \in {"systemStore", "appsStore"} => mainFd[u] = log_fds[LOG_ID_MAIN]
<1>1. CASE UNCHANGED vars
  BY <1>1 DEF vars, Decided
<1>2. ASSUME NEW t \in Thread, dlog_print(t) \/ running(t), NEW u \in Thread
      PROVE  Part(u)'
  <2>1. CASE u # t /\ pc[u] \in Inside
    <3>1. ~initialising(t)
      BY <2>1, OnlyOneInside DEF Locked
    <3>2. log_fds' = log_fds /\ pc'[u] = pc[u] /\ mainFd'[u] = mainFd[u]
      BY <1>2, <2>1, <3>1, MemoryUntouched, OthersUntouched
    <3> QED
      BY <3>2 DEF Decided
  <2>2. CASE u # t /\ pc[u] \notin Inside
    <3>1. pc'[u] \notin Inside
      BY <1>2, <2>2, OthersUntouched
    <3> QED
      BY <3>1 DEF Inside
  <2>3. CASE u = t /\ tests(t)
    <3>1. Coherent(t) /\ log_fds' = log_fds
      BY <2>3, TestsEffect DEF InsideCoherent, Locked, Inside, memory
    <3>2. /\ view[t].fds[LOG_ID_MAIN] = {log_fds[LOG_ID_MAIN]}
          /\ view[t].fds[LOG_ID_RADIO] = {log_fds[LOG_ID_RADIO]}
      BY <3>1, LogIdNumbers DEF Coherent
    <3>3. CASE initTestMain(t)
      BY <2>3, <3>1, <3>2, <3>3 DEF initTestMain, goto, Types
    <3>4. CASE initTestRadio(t)
      BY <2>3, <3>1, <3>2, <3>4 DEF initTestRadio, goto, Types, Decided
    <3>5. CASE \/ loadSlot(t, "system", LOG_ID_SYSTEM, "systemMain", "apps")
               \/ loadSlot(t, "apps", LOG_ID_APPS, "appsMain", "unlock")
      BY <2>3, <3>5 DEF loadSlot, goto, Types
    <3> QED
      BY <2>3, <3>3, <3>4, <3>5 DEF tests
  <2>4. CASE u = t /\ loads(t)
    <3>1. Coherent(t) /\ log_fds' = log_fds /\ pc'[t] \in {"systemStore", "appsStore"}
      BY <2>4, LoadsEffect DEF InsideCoherent, Locked, Inside, memory, Types
    <3>2. view[t].fds[LOG_ID_MAIN] = {log_fds[LOG_ID_MAIN]}
      BY <3>1, LogIdNumbers DEF Coherent
    <3>3. mainFd'[t] = log_fds[LOG_ID_MAIN]
      <4>1. PICK main \in view[t].fds[LOG_ID_MAIN] : mainFd' = [mainFd EXCEPT ![t] = main]
        BY <2>4, LoadsEffect, Zenon
      <4>2. mainFd'[t] = main
        BY <4>1 DEF Types
      <4> QED
        BY <3>2, <4>1, <4>2, Zenon
    <3> QED
      BY <2>4, <3>1, <3>3
  <2>5. CASE u = t /\ ~tests(t) /\ ~loads(t)
    <3>1. pc'[t] \notin {"testRadio", "storeKernel", "systemStore", "appsStore"}
      <4>1. CASE dlog_print(t) \/ redispatch(t)
        BY <4>1, DispatchEffect DEF dlog_print, redispatch, Types
      <4>2. CASE finishes(t)
        BY <4>2 DEF finishes, write_to_log_null, writev, write_to_log_kernel, finish,
                    goto, Types
      <4>3. CASE shares(t)
        BY <4>3, SharesEffect DEF Types
      <4>4. CASE \/ initLock(t) \/ initUnlock(t) \/ initCheck(t) \/ initOpen(t)
                 \/ init_debug_level(t) \/ initPublish(t)
        BY <4>4 DEF initLock, initUnlock, initCheck, initOpen, init_debug_level,
                    initPublish, goto, Types
      <4> QED
        BY <1>2, <2>5, <4>1, <4>2, <4>3, <4>4, Steps
    <3> QED
      BY <2>5, <3>1
  <2> QED
    BY <2>1, <2>2, <2>3, <2>4, <2>5
<1> QED
  BY <1>1, <1>2 DEF Next, Decided

(* Every step keeps Repairing. *)
LEMMA RepairingStep ==
  ASSUME Types, IndicesInTable, InsideCoherent, Decided, Repairing, [Next]_vars
  PROVE  Repairing'
<1>1. CASE UNCHANGED vars
  BY <1>1 DEF vars, Repairing, Busy
<1>2. ASSUME NEW t \in Thread, dlog_print(t) \/ running(t)
      PROVE  Repairing'
  <2>0. \A u \in Thread \ {t} : pc'[u] = pc[u]
    BY <1>2, OthersUntouched
  <2>1. CASE ~initialising(t)
    <3>1. write_to_log' = write_to_log /\ log_fds' = log_fds
      BY <1>2, <2>1, MemoryUntouched
    <3>2. \A u \in Thread : (Busy(u) \/ pc[u] \in AtSystem \cup AtApps) => pc'[u] = pc[u]
      BY <2>0, <2>1 DEF initialising, Busy, Early, AtSystem, AtApps, Inside
    <3> QED
      BY <3>1, <3>2 DEF Repairing, Busy
  <2>2. CASE \/ initOpen(t) \/ init_debug_level(t) \/ initTestMain(t) \/ initTestRadio(t)
    <3>1. pc'[t] \in Early
      BY <2>2 DEF initOpen, init_debug_level, initTestMain, initTestRadio, goto, Types, Early
    <3> QED
      BY <3>1 DEF Repairing, Busy
  <2>3. CASE initPublish(t)
    <3>1. log_fds' = log_fds /\ pc'[t] = "system"
      BY <2>3 DEF initPublish, goto, Types
    <3>2. write_to_log' = "kernel" => pc[t] = "storeKernel"
      BY <2>3 DEF initPublish, storeWriter
    <3>3. write_to_log' = "kernel" => log_fds[LOG_ID_MAIN] # -1 /\ log_fds[LOG_ID_RADIO] # -1
      BY <3>2 DEF Decided
    <3> QED
      BY <3>1, <3>3 DEF Repairing, AtSystem
  <2>4. CASE loadSlot(t, "system", LOG_ID_SYSTEM, "systemMain", "apps")
    <3>1. Coherent(t) /\ pc[t] = "system" /\ write_to_log' = write_to_log /\ log_fds' = log_fds
      BY <2>4 DEF loadSlot, InsideCoherent, Locked, Inside, memory
    <3>2. pc'[t] \in AtSystem \/ (log_fds[LOG_ID_SYSTEM] # -1 /\ pc'[t] = "apps")
      BY <2>4, <3>1, LogIdNumbers DEF loadSlot, goto, Types, Coherent, AtSystem
    <3>3. \A u \in Thread : Busy(u) => pc'[u] = pc[u]
      BY <2>0, <3>1 DEF Busy, Early
    <3>4. \A u \in Thread \ {t} : pc[u] \in AtSystem \cup AtApps => pc'[u] = pc[u]
      BY <2>0
    <3> QED
      BY <3>1, <3>2, <3>3, <3>4 DEF Repairing, Busy, AtSystem, AtApps
  <2>5. CASE loadSlot(t, "apps", LOG_ID_APPS, "appsMain", "unlock")
    <3>1. Coherent(t) /\ pc[t] = "apps" /\ write_to_log' = write_to_log /\ log_fds' = log_fds
      BY <2>5 DEF loadSlot, InsideCoherent, Locked, Inside, memory
    <3>2. pc'[t] \in AtApps \/ log_fds[LOG_ID_APPS] # -1
      BY <2>5, <3>1, LogIdNumbers DEF loadSlot, goto, Types, Coherent, AtApps
    <3>3. \A u \in Thread : (Busy(u) \/ pc[u] \in AtSystem) => pc'[u] = pc[u]
      BY <2>0, <3>1 DEF Busy, Early, AtSystem
    <3>4. \A u \in Thread \ {t} : pc[u] \in AtApps => pc'[u] = pc[u]
      BY <2>0
    <3> QED
      BY <3>1, <3>2, <3>3, <3>4 DEF Repairing, Busy, AtSystem, AtApps
  <2>6. CASE loads(t)
    <3>1. write_to_log' = write_to_log /\ log_fds' = log_fds
      BY <2>6, LoadsEffect DEF memory
    <3>2. /\ pc[t] \in AtSystem => pc'[t] \in AtSystem
          /\ pc[t] \in AtApps => pc'[t] \in AtApps
          /\ ~Busy(t)
      BY <2>6, LoadsEffect DEF Types, AtSystem, AtApps, Busy, Early
    <3> QED
      BY <2>0, <3>1, <3>2 DEF Repairing, Busy
  <2>7. CASE shares(t)
    <3>1. /\ write_to_log' = write_to_log
          /\ log_fds'[LOG_ID_MAIN] = log_fds[LOG_ID_MAIN]
          /\ log_fds'[LOG_ID_RADIO] = log_fds[LOG_ID_RADIO]
          /\ mainFd[t] = log_fds[LOG_ID_MAIN]
      BY <2>7, SharesEffect, SharesSlots DEF Decided
    <3>2. CASE sharesSystem(t)
      <4>1. /\ log_fds'[LOG_ID_SYSTEM] = log_fds[LOG_ID_MAIN]
            /\ log_fds'[LOG_ID_APPS] = log_fds[LOG_ID_APPS]
            /\ pc[t] = "systemStore" /\ pc'[t] = "apps"
        BY <2>7, <3>1, <3>2, SharesSlots
      <4>2. \A u \in Thread : Busy(u) => pc'[u] = pc[u]
        BY <2>0, <4>1 DEF Busy, Early
      <4>3. pc'[t] \in AtApps
        BY <4>1 DEF AtApps
      <4> QED
        BY <3>1, <4>1, <4>2, <4>3 DEF Repairing, Busy
    <3>3. CASE sharesApps(t)
      <4>1. /\ log_fds'[LOG_ID_APPS] = log_fds[LOG_ID_MAIN]
            /\ log_fds'[LOG_ID_SYSTEM] = log_fds[LOG_ID_SYSTEM]
            /\ pc[t] = "appsStore"
        BY <2>7, <3>1, <3>3, SharesSlots
      <4>2. \A u \in Thread : (Busy(u) \/ pc[u] \in AtSystem) => pc'[u] = pc[u]
        BY <2>0, <4>1 DEF Busy, Early, AtSystem
      <4> QED
        BY <3>1, <4>1, <4>2 DEF Repairing, Busy
    <3> QED
      BY <2>7, <3>2, <3>3 DEF shares
  <2>8. CASE initialising(t)
    BY <1>2, <2>2, <2>3, <2>4, <2>5, <2>6, <2>7, <2>8, InitialisingSteps DEF tests
  <2> QED
    BY <2>1, <2>8
<1> QED
  BY <1>1, <1>2 DEF Next

(* With the lock: the owner, what it knows of memory, and the table. *)
LEMMA TableInvariant ==
  ASSUME HavePthreads
  PROVE  Spec => []TableInv
<1>1. Init => TableInv
  BY LogIdNumbers DEF Init, TableInv, Exclusive, InsideCoherent, Decided, Repairing,
                      Locked, Inside
<1>2. WriterInv /\ TableInv /\ [Next]_vars => TableInv'
  BY ExclusiveStep, InsideCoherentStep, DecidedStep, RepairingStep DEF WriterInv, TableInv
<1> QED
  BY <1>1, <1>2, WriterInvariant, PTL DEF Spec

(* A repaired table behind the kernel writer is complete. *)
LEMMA RepairedIsComplete == Repairing => KernelTableComplete
<1> SUFFICES ASSUME Repairing, write_to_log = "kernel", \A t \in Thread : ~initialising(t)
             PROVE  \A i \in LogId : log_fds[i] # -1
  BY DEF KernelTableComplete
<1>1. \A t \in Thread : ~Busy(t) /\ pc[t] \notin AtSystem \cup AtApps
  BY DEF initialising, Busy, Early, AtSystem, AtApps, Inside
<1> QED
  BY <1>1, LogIdNumbers
     DEF Repairing, LOG_ID_MAIN, LOG_ID_RADIO, LOG_ID_SYSTEM, LOG_ID_APPS

-----------------------------------------------------------------------------
(* When opens do not fail at random: the table without the lock. *)

(* The thread has opened id, or found that it cannot. *)
passed(t, id) ==
  \/ pc[t] \in Inside \ {"open"}
  \/ pc[t] = "open" /\ opening[t] > id

(* The thread has yet to test the slot of id, or to store it. *)
mending(t, id) ==
  /\ passed(t, id)
  /\ id = LOG_ID_SYSTEM => pc[t] \notin AtApps

(* A slot has a descriptor, or a thread that will find it without one. *)
Mended(id) ==
  log_fds[id] # -1 \/ \E t \in Thread : mending(t, id) /\ view[t].fds[id] = {-1}

(* Who has opened a device that can be opened, or follows one who has,    *)
(* finds a descriptor; main and radio have none if they cannot be opened. *)
PresentOpen ==
  /\ \A t \in Thread, id \in Present :
       passed(t, id) => log_fds[id] # -1 /\ -1 \notin view[t].fds[id]
  /\ \A id \in Present : write_to_log # "init" => log_fds[id] # -1
  /\ \A id \in {LOG_ID_MAIN, LOG_ID_RADIO} \ Present :
       log_fds[id] = -1 /\ \A t \in Thread : view[t].fds[id] \subseteq {-1}

(* What the place of a thread says about the devices. *)
Found ==
  /\ write_to_log = "kernel" => LOG_ID_MAIN \in Present /\ LOG_ID_RADIO \in Present
  /\ \A t \in Thread :
       /\ pc[t] \in {"testRadio", "storeKernel"} => LOG_ID_MAIN \in Present
       /\ pc[t] = "storeKernel" => LOG_ID_RADIO \in Present
       /\ pc[t] \in {"systemMain", "systemStore"} => LOG_ID_SYSTEM \notin Present
       /\ pc[t] \in {"appsMain", "appsStore"} => LOG_ID_APPS \notin Present
       /\ pc[t] \in {"systemStore", "appsStore"} /\ LOG_ID_MAIN \in Present
            => mainFd[t] # -1
       /\ pc[t] \in AtSystem \cup AtApps => write_to_log # "init"

(* The slots of missing devices, once somebody has been there. *)
MissingMended ==
  LOG_ID_MAIN \in Present =>
    \A id \in {LOG_ID_SYSTEM, LOG_ID_APPS} \ Present :
      (write_to_log # "init" \/ \E t \in Thread : passed(t, id)) => Mended(id)

SteadyInv == PresentOpen /\ Found /\ MissingMended

(* From outside one enters the initialisation by the check of the pointer. *)
LEMMA OutsideStays ==
  ASSUME Types, NEW t \in Thread, dlog_print(t) \/ running(t), ~initialising(t),
         ~initCheck(t)
  PROVE  pc'[t] \notin Inside \cup {"unlock"}
<1>1. CASE dlog_print(t) \/ redispatch(t)
  BY <1>1, DispatchEffect DEF dlog_print, redispatch, Types, Inside
<1>2. CASE finishes(t)
  BY <1>2 DEF finishes, write_to_log_null, writev, write_to_log_kernel, finish, goto,
              Types, Inside
<1>3. CASE initLock(t) \/ initUnlock(t)
  BY <1>3 DEF initLock, initUnlock, goto, Types, Inside
<1> QED
  BY <1>1, <1>2, <1>3, OutsideSteps

(* The step stores the slot of id. *)
storesAt(t, id) ==
  \/ initOpen(t) /\ opening[t] = id
  \/ sharesSystem(t) /\ id = LOG_ID_SYSTEM
  \/ sharesApps(t) /\ id = LOG_ID_APPS

(* Only initPublish stores the writer. *)
LEMMA WriterStored ==
  ASSUME Types, NEW t \in Thread, dlog_print(t) \/ running(t), ~initPublish(t)
  PROVE  write_to_log' = write_to_log
<1>1. CASE ~initialising(t)
  BY <1>1, MemoryUntouched
<1>2. CASE initOpen(t) \/ init_debug_level(t)
  BY <1>2 DEF initOpen, init_debug_level
<1>3. CASE tests(t) \/ loads(t) \/ shares(t)
  BY <1>3, TestsEffect, LoadsEffect, SharesEffect DEF memory
<1> QED
  BY <1>1, <1>2, <1>3, InitialisingSteps

(* A thread passes the opening of a device by making it. *)
LEMMA PassedStep ==
  ASSUME Types, IndicesInTable, NEW t \in Thread, dlog_print(t) \/ running(t),
         NEW u \in Thread, NEW id \in LogId, passed(u, id)'
  PROVE  passed(u, id) \/ (u = t /\ initOpen(t) /\ opening[t] = id)
<1>1. CASE u # t
  <2>1. pc'[u] = pc[u] /\ opening'[u] = opening[u]
    BY <1>1, OthersUntouched
  <2> QED
    BY <2>1 DEF passed
<1>2. CASE u = t /\ initCheck(t)
  <2>1. pc'[t] \in {"open", "unlock"} /\ opening'[t] = LOG_ID_MAIN
    BY <1>2 DEF initCheck, goto, Types
  <2> QED
    BY <1>2, <2>1, LogIdNumbers DEF passed, Inside, LOG_ID_MAIN
<1>3. CASE u = t /\ ~initialising(t) /\ ~initCheck(t)
  <2>1. pc'[t] \notin Inside
    BY <1>3, OutsideStays
  <2> QED
    BY <1>3, <2>1 DEF passed, Inside
<1>4. CASE u = t /\ initOpen(t)
  <2>1. /\ pc[t] = "open" /\ opening[t] \in LogId /\ opening'[t] = opening[t] + 1
        /\ pc'[t] = IF opening[t] = LOG_ID_APPS THEN "level" ELSE "open"
    BY <1>4, OpenEffect DEF initOpen, goto, Types
  <2>2. opening[t] > id \/ opening[t] = id
    BY <1>4, <2>1, LogIdNumbers DEF passed, LOG_ID_APPS
  <2> QED
    BY <1>4, <2>1, <2>2 DEF passed
<1>5. CASE u = t /\ initialising(t) /\ ~initOpen(t)
  <2>1. pc[t] # "open"
    <3>1. CASE init_debug_level(t) \/ initPublish(t)
      BY <3>1 DEF init_debug_level, initPublish
    <3>2. CASE tests(t) \/ loads(t) \/ shares(t)
      BY <3>2, TestsEffect, LoadsEffect, SharesEffect
    <3> QED
      BY <1>5, <3>1, <3>2, InitialisingSteps
  <2> QED
    BY <1>5, <2>1 DEF passed, initialising
<1> QED
  BY <1>1, <1>2, <1>3, <1>4, <1>5

(* What a step that stores no descriptor in a slot leaves there. *)
LEMMA SlotKept ==
  ASSUME Types, IndicesInTable, NEW t \in Thread, dlog_print(t) \/ running(t),
         NEW id \in LogId, ~storesAt(t, id)
  PROVE  /\ log_fds'[id] = log_fds[id]
         /\ \A u \in Thread :
              view'[u].fds[id] = view[u].fds[id] \/ view'[u].fds[id] = {log_fds[id]}
<1>1. CASE ~storesFd(t)
  BY <1>1, TableUntouched
<1>2. CASE initOpen(t)
  <2>1. PICK fd \in Fd' : storeFd(t, opening[t], fd)
    BY <1>2, OpenEffect
  <2>2. /\ opening[t] \in LogId \ {id}
        /\ log_fds \in [LogId -> Fd'] /\ view \in [Thread -> ViewOf(Fd')]
    BY <1>2, OpenEffect DEF storesAt
  <2> QED
    BY <2>1, <2>2, StoreFdEffect
<1>3. CASE shares(t)
  <2>1. PICK slot \in LogId \ {id} : storeFd(t, slot, mainFd[t])
    BY <1>3, LogIdNumbers
       DEF shares, sharesSystem, sharesApps, storeSlot, storesAt
  <2>2. log_fds \in [LogId -> Fd] /\ view \in [Thread -> ViewOf(Fd)] /\ mainFd[t] \in Fd
    BY DEF Types
  <2> QED
    BY <2>1, <2>2, StoreFdEffect
<1> QED
  BY <1>1, <1>2, <1>3 DEF storesFd

(* What a stored slot holds: a descriptor when the device can be opened,  *)
(* none when it is main or radio and cannot, and none right after an open *)
(* that cannot succeed.                                                   *)
LEMMA StoreStep ==
  ASSUME ~OpenFaults, Types, IndicesInTable, Found, NEW t \in Thread,
         NEW id \in LogId, storesAt(t, id)
  PROVE  \E fd :
           /\ id \in Present => fd # -1
           /\ (id \in {LOG_ID_MAIN, LOG_ID_RADIO} \/ initOpen(t)) /\ id \notin Present => fd = -1
           /\ log_fds'[id] = fd /\ view'[t].fds[id] = {fd}
           /\ \A u \in Thread : view'[u].fds[id] \subseteq view[u].fds[id] \cup {fd}
<1>1. CASE initOpen(t) /\ opening[t] = id
  <2>1. PICK fd \in Fd' :
          /\ storeFd(t, id, fd)
          /\ \/ fd = -1 /\ id \notin Present
             \/ fd = Len(opened) + 1 /\ id \in Present
    BY <1>1, OpenEffect
  <2>2. log_fds \in [LogId -> Fd'] /\ view \in [Thread -> ViewOf(Fd')]
    BY <1>1, OpenEffect
  <2>3. /\ log_fds'[id] = fd
        /\ \A u \in Thread : view'[u].fds[id] = seenBy(u, t, view[u].fds[id], fd)
    BY <2>1, <2>2, StoreFdEffect
  <2>4. Len(opened) \in Nat
    BY LenProperties DEF Types
  <2>5. fd = -1 <=> id \notin Present
    BY <2>1, <2>4
  <2>6. /\ view'[t].fds[id] = {fd}
        /\ \A u \in Thread : view'[u].fds[id] \subseteq view[u].fds[id] \cup {fd}
    BY <2>3, SeenBy
  <2> QED
    BY <2>3, <2>5, <2>6
<1>2. CASE (sharesSystem(t) /\ id = LOG_ID_SYSTEM) \/ (sharesApps(t) /\ id = LOG_ID_APPS)
  <2>1. /\ storeFd(t, id, mainFd[t]) /\ mainFd[t] \in Fd
        /\ log_fds \in [LogId -> Fd] /\ view \in [Thread -> ViewOf(Fd)]
    BY <1>2 DEF sharesSystem, sharesApps, storeSlot, Types
  <2>2. id \notin Present /\ id \notin {LOG_ID_MAIN, LOG_ID_RADIO} /\ ~initOpen(t)
    BY <1>2 DEF sharesSystem, sharesApps, storeSlot, initOpen, Found,
                LOG_ID_MAIN, LOG_ID_RADIO, LOG_ID_SYSTEM, LOG_ID_APPS
  <2>3. /\ log_fds'[id] = mainFd[t]
        /\ \A u \in Thread : view'[u].fds[id] = seenBy(u, t, view[u].fds[id], mainFd[t])
    BY <2>1, StoreFdEffect
  <2>4. /\ view'[t].fds[id] = {mainFd[t]}
        /\ \A u \in Thread : view'[u].fds[id] \subseteq view[u].fds[id] \cup {mainFd[t]}
    BY <2>3, SeenBy
  <2> QED
    BY <2>2, <2>3, <2>4
<1> QED
  BY <1>1, <1>2 DEF storesAt

(* No step of anybody stores -1 over the slot of a device that opens, or  *)
(* anything else over main or radio when they do not.                     *)
LEMMA PresentOpenStep ==
  ASSUME ~OpenFaults, Types, IndicesInTable, PresentOpen, Found, [Next]_vars
  PROVE  PresentOpen'
<1>1. CASE UNCHANGED vars
  BY <1>1 DEF vars, PresentOpen, passed
<1>2. ASSUME NEW t \in Thread, dlog_print(t) \/ running(t)
      PROVE  PresentOpen'
  <2>1. ASSUME NEW id \in Present
        PROVE  /\ (log_fds[id] # -1 \/ (initOpen(t) /\ opening[t] = id)) => log_fds'[id] # -1
               /\ \A u \in Thread : passed(u, id)' => log_fds'[id] # -1 /\ -1 \notin view'[u].fds[id]
    <3>0. id \in LogId
      BY WriterAssumption
    <3>1. \A u \in Thread : passed(u, id)' =>
            \/ passed(u, id) /\ log_fds[id] # -1 /\ -1 \notin view[u].fds[id]
            \/ u = t /\ initOpen(t) /\ opening[t] = id
      BY <1>2, <3>0, PassedStep DEF PresentOpen
    <3>2. CASE storesAt(t, id)
      <4>1. PICK fd :
              /\ fd # -1 /\ log_fds'[id] = fd /\ view'[t].fds[id] = {fd}
              /\ \A u \in Thread : view'[u].fds[id] \subseteq view[u].fds[id] \cup {fd}
        BY <1>2, <3>0, <3>2, StoreStep
      <4> QED
        BY <3>1, <4>1
    <3>3. CASE ~storesAt(t, id)
      <4>1. /\ log_fds'[id] = log_fds[id]
            /\ \A u \in Thread :
                 view'[u].fds[id] = view[u].fds[id] \/ view'[u].fds[id] = {log_fds[id]}
        BY <1>2, <3>0, <3>3, SlotKept
      <4> QED
        BY <3>1, <3>3, <4>1 DEF storesAt
    <3> QED
      BY <3>2, <3>3
  <2>2. ASSUME NEW id \in Present, write_to_log' # "init"
        PROVE  log_fds'[id] # -1
    <3>1. CASE initPublish(t)
      <4>1. passed(t, id)
        BY <3>1 DEF initPublish, passed, Inside
      <4> QED
        BY <2>1, <4>1 DEF PresentOpen
    <3>2. CASE ~initPublish(t)
      BY <1>2, <2>1, <2>2, <3>2, WriterStored DEF PresentOpen
    <3> QED
      BY <3>1, <3>2
  <2>3. ASSUME NEW id \in {LOG_ID_MAIN, LOG_ID_RADIO} \ Present
        PROVE  log_fds'[id] = -1 /\ \A u \in Thread : view'[u].fds[id] \subseteq {-1}
    <3>0. id \in LogId /\ log_fds[id] = -1 /\ \A u \in Thread : view[u].fds[id] \subseteq {-1}
      BY LogIdNumbers DEF PresentOpen
    <3>1. CASE storesAt(t, id)
      BY <1>2, <3>0, <3>1, StoreStep
    <3>2. CASE ~storesAt(t, id)
      BY <1>2, <3>0, <3>2, SlotKept
    <3> QED
      BY <3>1, <3>2
  <2> QED
    BY <2>1, <2>2, <2>3 DEF PresentOpen
<1> QED
  BY <1>1, <1>2 DEF Next

(* Every step keeps Found: a thread goes on from a test with what it      *)
(* loaded, and nobody else can make that wrong.                           *)
LEMMA FoundStep ==
  ASSUME Types, IndicesInTable, PresentOpen, Found, [Next]_vars
  PROVE  Found'
<1>1. CASE UNCHANGED vars
  BY <1>1 DEF vars, Found
<1>2. ASSUME NEW t \in Thread, dlog_print(t) \/ running(t)
      PROVE  Found'
  <2> DEFINE Part(u) ==
        /\ pc[u] \in {"testRadio", "storeKernel"} => LOG_ID_MAIN \in Present
        /\ pc[u] = "storeKernel" => LOG_ID_RADIO \in Present
        /\ pc[u] \in {"systemMain", "systemStore"} => LOG_ID_SYSTEM \notin Present
        /\ pc[u] \in {"appsMain", "appsStore"} => LOG_ID_APPS \notin Present
        /\ pc[u] \in {"systemStore", "appsStore"} /\ LOG_ID_MAIN \in Present
             => mainFd[u] # -1
        /\ pc[u] \in AtSystem \cup AtApps => write_to_log # "init"
  <2>1. /\ write_to_log # "init" => write_to_log' # "init"
        /\ write_to_log' = "kernel" => LOG_ID_MAIN \in Present /\ LOG_ID_RADIO \in Present
    <3>1. CASE initPublish(t)
      BY <3>1 DEF initPublish, storeWriter, Found
    <3>2. CASE ~initPublish(t)
      BY <1>2, <3>2, WriterStored DEF Found
    <3> QED
      BY <3>1, <3>2
  <2>2. ASSUME NEW u \in Thread \ {t} PROVE Part(u)'
    <3>1. pc'[u] = pc[u] /\ mainFd'[u] = mainFd[u]
      BY <1>2, OthersUntouched
    <3> QED
      BY <2>1, <3>1 DEF Found
  <2>3. Part(t)'
    <3>0. ASSUME NEW id \in Present, pc[t] \in Inside \ {"open"}
          PROVE  -1 \notin view[t].fds[id]
      BY <3>0 DEF PresentOpen, passed
    <3>1. CASE initTestMain(t)
      <4>1. pc'[t] = "testRadio" => LOG_ID_MAIN \in Present
        BY <3>1 DEF initTestMain, goto, Types, PresentOpen
      <4>2. pc'[t] \in {"storeNull", "testRadio"}
        BY <3>1 DEF initTestMain, goto, Types
      <4> QED
        BY <4>1, <4>2 DEF AtSystem, AtApps
    <3>2. CASE initTestRadio(t)
      <4>1. pc'[t] = "storeKernel" => LOG_ID_RADIO \in Present
        BY <3>2 DEF initTestRadio, goto, Types, PresentOpen
      <4>2. pc'[t] \in {"storeNull", "storeKernel"} /\ LOG_ID_MAIN \in Present
        BY <3>2 DEF initTestRadio, goto, Types, Found
      <4> QED
        BY <4>1, <4>2 DEF AtSystem, AtApps
    <3>3. CASE loadSlot(t, "system", LOG_ID_SYSTEM, "systemMain", "apps")
      <4>1. view[t].fds[LOG_ID_SYSTEM] \subseteq Fd /\ -1 \in Fd /\ \A f \in Fd : f < 0 => f = -1
        BY LogIdNumbers DEF Types, ViewOf, Fd
      <4>2. pc[t] = "system" /\ write_to_log # "init" /\ pc'[t] \in {"systemMain", "apps"}
        BY <3>3 DEF loadSlot, goto, Types, Found, AtSystem
      <4>3. pc'[t] = "systemMain" => -1 \in view[t].fds[LOG_ID_SYSTEM]
        BY <3>3, <4>1 DEF loadSlot, goto, Types
      <4>4. pc'[t] = "systemMain" => LOG_ID_SYSTEM \notin Present
        BY <3>0, <4>2, <4>3 DEF Inside
      <4> QED
        BY <2>1, <4>2, <4>4
    <3>4. CASE loadSlot(t, "apps", LOG_ID_APPS, "appsMain", "unlock")
      <4>1. view[t].fds[LOG_ID_APPS] \subseteq Fd /\ -1 \in Fd /\ \A f \in Fd : f < 0 => f = -1
        BY LogIdNumbers DEF Types, ViewOf, Fd
      <4>2. pc[t] = "apps" /\ write_to_log # "init" /\ pc'[t] \in {"appsMain", "unlock"}
        BY <3>4 DEF loadSlot, goto, Types, Found, AtApps
      <4>3. pc'[t] = "appsMain" => -1 \in view[t].fds[LOG_ID_APPS]
        BY <3>4, <4>1 DEF loadSlot, goto, Types
      <4>4. pc'[t] = "appsMain" => LOG_ID_APPS \notin Present
        BY <3>0, <4>2, <4>3 DEF Inside
      <4> QED
        BY <2>1, <4>2, <4>4
    <3>5. CASE loads(t)
      <4>1. PICK main \in view[t].fds[LOG_ID_MAIN] : mainFd' = [mainFd EXCEPT ![t] = main]
        BY <3>5, LoadsEffect
      <4>2. mainFd'[t] = main
        BY <4>1 DEF Types
      <4>3. LOG_ID_MAIN \in Present => mainFd'[t] # -1
        BY <3>0, <3>5, <4>1, <4>2, LoadsEffect DEF Inside
      <4>4. /\ pc[t] = "systemMain" => pc'[t] = "systemStore"
            /\ pc[t] = "appsMain" => pc'[t] = "appsStore"
            /\ pc[t] \in {"systemMain", "appsMain"}
        BY <3>5, LoadsEffect DEF Types
      <4> QED
        BY <2>1, <4>3, <4>4 DEF Found, AtSystem, AtApps
    <3>6. CASE initPublish(t)
      <4>1. write_to_log' # "init" /\ pc'[t] = "system"
        BY <3>6 DEF initPublish, storeWriter, goto, Types
      <4> QED
        BY <4>1
    <3>7. CASE shares(t)
      <4>1. pc'[t] \in {"apps", "unlock"} /\ write_to_log # "init"
        BY <3>7, SharesEffect DEF Types, Found, AtSystem, AtApps
      <4> QED
        BY <2>1, <4>1
    <3>8. CASE initOpen(t) \/ init_debug_level(t)
      BY <3>8 DEF initOpen, init_debug_level, goto, Types, AtSystem, AtApps
    <3>9. CASE initCheck(t)
      BY <3>9 DEF initCheck, goto, Types, AtSystem, AtApps
    <3>10. CASE ~initialising(t) /\ ~initCheck(t)
      BY <1>2, <3>10, OutsideStays DEF Inside, AtSystem, AtApps
    <3> QED
      BY <1>2, <3>1, <3>2, <3>3, <3>4, <3>5, <3>6, <3>7, <3>8, <3>9, <3>10,
         InitialisingSteps DEF tests
  <2> QED
    BY <2>1, <2>2, <2>3 DEF Found
<1> QED
  BY <1>1, <1>2 DEF Next

(* A thread that will find the slot of id empty goes on to fill it. *)
LEMMA MendingStep ==
  ASSUME Types, IndicesInTable, NEW t \in Thread, dlog_print(t) \/ running(t),
         NEW id \in {LOG_ID_SYSTEM, LOG_ID_APPS}, mending(t, id),
         view[t].fds[id] = {-1}, ~storesAt(t, id)
  PROVE  mending(t, id)'
<1>0. initialising(t) /\ id \in LogId
  BY LogIdNumbers DEF mending, passed, initialising, Inside
<1>1. CASE initOpen(t)
  <2>1. opening[t] > id /\ opening'[t] = opening[t] + 1 /\ opening[t] \in LogId
    BY <1>1, OpenEffect DEF initOpen, Types, mending, passed
  <2>2. pc'[t] \in {"open", "level"}
    BY <1>1 DEF initOpen, goto, Types
  <2>3. opening'[t] > id
    BY <1>0, <2>1, LogIdNumbers
  <2> QED
    BY <2>2, <2>3 DEF mending, passed, Inside, AtApps
<1>2. CASE init_debug_level(t) \/ initPublish(t) \/ initTestMain(t) \/ initTestRadio(t)
  <2>1. pc'[t] \in {"testMain", "testRadio", "storeNull", "storeKernel", "system"}
    BY <1>2 DEF init_debug_level, initPublish, initTestMain, initTestRadio, goto, Types
  <2> QED
    BY <2>1 DEF mending, passed, Inside, AtApps
<1>3. CASE loadSlot(t, "system", LOG_ID_SYSTEM, "systemMain", "apps")
  <2>1. pc'[t] \in {"systemMain", "apps"}
    BY <1>3 DEF loadSlot, goto, Types
  <2>2. id = LOG_ID_SYSTEM => pc'[t] = "systemMain"
    BY <1>3 DEF loadSlot, goto, Types
  <2> QED
    BY <2>1, <2>2 DEF mending, passed, Inside, AtApps
<1>4. CASE loadSlot(t, "apps", LOG_ID_APPS, "appsMain", "unlock")
  <2>1. id = LOG_ID_APPS /\ id # LOG_ID_SYSTEM
    BY <1>4 DEF loadSlot, mending, AtApps, LOG_ID_SYSTEM, LOG_ID_APPS
  <2>2. pc'[t] = "appsMain"
    BY <1>4, <2>1 DEF loadSlot, goto, Types
  <2> QED
    BY <2>1, <2>2 DEF mending, passed, Inside
<1>5. CASE loads(t)
  <2>1. /\ pc[t] = "systemMain" => pc'[t] = "systemStore"
        /\ pc[t] = "appsMain" => pc'[t] = "appsStore"
        /\ pc[t] \in {"systemMain", "appsMain"}
    BY <1>5, LoadsEffect DEF Types
  <2> QED
    BY <2>1 DEF mending, passed, Inside, AtApps
<1>6. CASE sharesSystem(t)
  <2>1. id = LOG_ID_APPS /\ id # LOG_ID_SYSTEM /\ pc'[t] = "apps"
    BY <1>6 DEF sharesSystem, storeSlot, goto, Types, storesAt, LOG_ID_SYSTEM, LOG_ID_APPS
  <2> QED
    BY <2>1 DEF mending, passed, Inside
<1>7. CASE sharesApps(t)
  <2>1. id = LOG_ID_SYSTEM /\ pc[t] = "appsStore"
    BY <1>7 DEF sharesApps, storeSlot, storesAt
  <2> QED
    BY <2>1 DEF mending, AtApps
<1> QED
  BY <1>0, <1>1, <1>2, <1>3, <1>4, <1>5, <1>6, <1>7, InitialisingSteps DEF tests, shares

(* A mended slot stays mended, and opening a missing device mends its     *)
(* slot: the thread that did it will find it empty.                       *)
LEMMA MendedStep ==
  ASSUME ~OpenFaults, Types, IndicesInTable, PresentOpen, Found,
         NEW t \in Thread, dlog_print(t) \/ running(t), LOG_ID_MAIN \in Present,
         NEW id \in {LOG_ID_SYSTEM, LOG_ID_APPS} \ Present,
         Mended(id) \/ (initOpen(t) /\ opening[t] = id)
  PROVE  Mended(id)'
<1>0. id \in LogId
  BY LogIdNumbers
<1>1. CASE initOpen(t) /\ opening[t] = id
  <2>1. view'[t].fds[id] = {-1}
    BY <1>0, <1>1, StoreStep DEF storesAt
  <2>2. opening'[t] = id + 1 /\ pc'[t] \in {"open", "level"}
    BY <1>1 DEF initOpen, goto, Types
  <2>3. id + 1 > id
    BY <1>0, LogIdNumbers
  <2>4. mending(t, id)'
    BY <2>2, <2>3 DEF mending, passed, Inside, AtApps
  <2> QED
    BY <2>1, <2>4 DEF Mended
<1>2. CASE (sharesSystem(t) /\ id = LOG_ID_SYSTEM) \/ (sharesApps(t) /\ id = LOG_ID_APPS)
  <2>1. log_fds'[id] = mainFd[t] /\ pc[t] \in {"systemStore", "appsStore"}
    BY <1>2, SharesSlots DEF shares
  <2>2. mainFd[t] # -1
    BY <2>1 DEF Found
  <2> QED
    BY <2>1, <2>2 DEF Mended
<1>3. CASE ~storesAt(t, id) /\ Mended(id)
  <2>1. /\ log_fds'[id] = log_fds[id]
        /\ \A u \in Thread :
             view'[u].fds[id] = view[u].fds[id] \/ view'[u].fds[id] = {log_fds[id]}
    BY <1>0, <1>3, SlotKept
  <2>2. CASE log_fds[id] # -1
    BY <2>1, <2>2 DEF Mended
  <2>3. CASE log_fds[id] = -1
    <3>1. PICK u \in Thread : mending(u, id) /\ view[u].fds[id] = {-1}
      BY <1>3, <2>3 DEF Mended
    <3>2. view'[u].fds[id] = {-1}
      BY <2>1, <2>3, <3>1
    <3>3. mending(u, id)'
      <4>1. CASE u = t
        BY <1>3, <3>1, <4>1, MendingStep
      <4>2. CASE u # t
        <5>1. pc'[u] = pc[u] /\ opening'[u] = opening[u]
          BY <4>2, OthersUntouched
        <5> QED
          BY <3>1, <5>1 DEF mending, passed
      <4> QED
        BY <4>1, <4>2
    <3> QED
      BY <3>2, <3>3 DEF Mended
  <2> QED
    BY <2>2, <2>3
<1> QED
  BY <1>1, <1>2, <1>3 DEF storesAt

(* Every step keeps the slots of missing devices mended. *)
LEMMA MissingMendedStep ==
  ASSUME ~OpenFaults, Types, IndicesInTable, PresentOpen, Found, MissingMended, [Next]_vars
  PROVE  MissingMended'
<1>1. CASE UNCHANGED vars
  BY <1>1 DEF vars, MissingMended, Mended, mending, passed
<1>2. ASSUME NEW t \in Thread, dlog_print(t) \/ running(t), LOG_ID_MAIN \in Present,
             NEW id \in {LOG_ID_SYSTEM, LOG_ID_APPS} \ Present,
             write_to_log' # "init" \/ \E u \in Thread : passed(u, id)'
      PROVE  Mended(id)'
  <2>0. id \in LogId
    BY LogIdNumbers
  <2>1. CASE initOpen(t) /\ opening[t] = id
    BY <1>2, <2>1, MendedStep
  <2>2. CASE ~(initOpen(t) /\ opening[t] = id)
    <3>1. ASSUME NEW u \in Thread, passed(u, id)' PROVE passed(u, id)
      BY <1>2, <2>0, <2>2, <3>1, PassedStep
    <3>2. ASSUME write_to_log' # "init", write_to_log = "init" PROVE passed(t, id)
      <4>1. initPublish(t)
        BY <1>2, <3>2, WriterStored
      <4> QED
        BY <4>1 DEF initPublish, passed, Inside
    <3>3. write_to_log # "init" \/ \E u \in Thread : passed(u, id)
      BY <1>2, <3>1, <3>2
    <3>4. Mended(id)
      BY <1>2, <3>3 DEF MissingMended
    <3> QED
      BY <1>2, <3>4, MendedStep
  <2> QED
    BY <2>1, <2>2
<1> QED
  BY <1>1, <1>2 DEF Next, MissingMended

(* When a device that opens for one thread opens for all, the invariant   *)
(* holds of every behaviour, with and without the lock.                   *)
LEMMA SteadyInvariant ==
  ASSUME ~OpenFaults
  PROVE  Spec => []SteadyInv
<1>1. Init => SteadyInv
  <2> SUFFICES ASSUME Init PROVE SteadyInv
    OBVIOUS
  <2>1. \A t \in Thread : pc[t] = "idle" /\ \A id \in LogId : view[t].fds[id] = {-1}
    BY DEF Init
  <2>2. write_to_log = "init" /\ \A id \in LogId : log_fds[id] = -1
    BY DEF Init
  <2>3. \A t \in Thread : \A id : ~passed(t, id)
    BY <2>1 DEF passed, Inside
  <2> QED
    BY <2>1, <2>2, <2>3, LogIdNumbers
       DEF SteadyInv, PresentOpen, Found, MissingMended, AtSystem, AtApps
<1>2. WriterInv /\ SteadyInv /\ [Next]_vars => SteadyInv'
  BY PresentOpenStep, FoundStep, MissingMendedStep DEF WriterInv, SteadyInv
<1> QED
  BY <1>1, <1>2, WriterInvariant, PTL DEF Spec

(* With it the table behind the kernel writer is complete. *)
LEMMA SteadyIsComplete == SteadyInv => KernelTableComplete
<1> SUFFICES ASSUME SteadyInv, write_to_log = "kernel", \A t \in Thread : ~initialising(t),
                    NEW id \in LogId
             PROVE  log_fds[id] # -1
  BY DEF KernelTableComplete
<1>1. LOG_ID_MAIN \in Present /\ LOG_ID_RADIO \in Present
  BY DEF SteadyInv, Found
<1>2. CASE id \in Present
  BY <1>2 DEF SteadyInv, PresentOpen
<1>3. CASE id \notin Present
  <2>1. id \in {LOG_ID_SYSTEM, LOG_ID_APPS} \ Present
    BY <1>1, <1>3, LogIdNumbers DEF LOG_ID_MAIN, LOG_ID_RADIO, LOG_ID_SYSTEM, LOG_ID_APPS
  <2>2. Mended(id)
    BY <1>1, <2>1 DEF SteadyInv, MissingMended
  <2> QED
    BY <2>2 DEF Mended, mending, passed, initialising, Inside
<1> QED
  BY <1>2, <1>3

(* The table with the lock, *)
LEMMA CompleteWithLock ==
  ASSUME HavePthreads
  PROVE  Spec => []KernelTableComplete
<1>1. TableInv => KernelTableComplete
  BY RepairedIsComplete DEF TableInv
<1> QED
  BY <1>1, TableInvariant, PTL

(* and without random failures. *)
LEMMA CompleteWithoutFaults ==
  ASSUME ~OpenFaults
  PROVE  Spec => []KernelTableComplete
<1> QED
  BY SteadyIsComplete, SteadyInvariant, PTL

(* When nobody is inside the initialisation and messages go to the        *)
(* kernel, every log id has a descriptor: with the lock for any failing   *)
(* opens, and without it, for any number of racing threads and any stale  *)
(* loads, when a device that opens for one thread opens for all.  Without *)
(* either the code does not give it: a thread that has decided to publish *)
(* the kernel writer can be overtaken by one whose opens fail.            *)
THEOREM KernelTableStaysComplete ==
  ASSUME HavePthreads \/ ~OpenFaults
  PROVE  Spec => []KernelTableComplete
  BY CompleteWithLock, CompleteWithoutFaults

-----------------------------------------------------------------------------
(* With the lock compiled in. *)

(* Every step keeps the devices opened in order and once: the thread that *)
(* opens found the initial writer under the lock, when nothing was open.  *)
LEMMA OpenedInOrderStep ==
  ASSUME HavePthreads, Types, IndicesInTable, Exclusive, InsideCoherent,
         OpenedInOrder, OneOpenPerDevice, [Next]_vars
  PROVE  OpenedInOrder' /\ OneOpenPerDevice'
<1>1. CASE UNCHANGED vars
  BY <1>1 DEF vars, OpenedInOrder, OneOpenPerDevice, Busy
<1>2. ASSUME NEW t \in Thread, dlog_print(t) \/ running(t)
      PROVE  OpenedInOrder' /\ OneOpenPerDevice'
  <2>0. \A u \in Thread \ {t} : pc'[u] = pc[u] /\ opening'[u] = opening[u]
    BY <1>2, OthersUntouched
  <2>1. CASE ~initialising(t)
    <3>1. write_to_log' = write_to_log /\ opened' = opened
      BY <1>2, <2>1, MemoryUntouched
    <3>2. CASE initCheck(t)
      <4>1. view[t].writer = {write_to_log} /\ pc[t] \in Locked
        BY <3>2 DEF initCheck, InsideCoherent, Coherent, Locked
      <4>2. pc'[t] = IF write_to_log = "init" THEN "open" ELSE "unlock"
        BY <3>2, <4>1 DEF initCheck, goto, Types
      <4>3. \A u \in Thread : ~Busy(u)
        BY <2>1, <4>1, OnlyOneInside DEF Busy, Early, Inside, initialising
      <4>4. write_to_log = "init" => opened = <<>>
        BY <4>3 DEF OpenedInOrder
      <4>5. \A u \in Thread \ {t} : pc'[u] \notin Locked
        BY <2>0, <4>1, OnlyOneInside
      <4>6. OpenedInOrder'
        BY <3>1, <4>2, <4>4, <4>5
           DEF OpenedInOrder, Busy, Early, AtSystem, AtApps, Locked, Inside
      <4> QED
        BY <3>1, <4>6 DEF OneOpenPerDevice
    <3>3. CASE ~initCheck(t)
      <4>1. pc'[t] \notin Inside \cup {"unlock"}
        BY <1>2, <2>1, <3>3, OutsideStays
      <4>2. \A u \in Thread : Busy(u)' <=> Busy(u)
        BY <2>0, <2>1, <4>1 DEF Busy, Early, Inside, initialising
      <4>3. OpenedInOrder'
        BY <2>0, <3>1, <4>1, <4>2 DEF OpenedInOrder, AtSystem, AtApps, Inside
      <4> QED
        BY <3>1, <4>3 DEF OneOpenPerDevice
    <3> QED
      BY <3>2, <3>3
  <2>2. CASE initialising(t)
    <3>1. \A u \in Thread \ {t} : pc'[u] \notin Locked
      BY <2>0, <2>2, OnlyOneInside DEF initialising, Locked
    <3>2. CASE initOpen(t)
      <4>1. /\ write_to_log = "init" /\ write_to_log' = write_to_log
            /\ pc'[t] = IF opening[t] = LOG_ID_APPS THEN "level" ELSE "open"
            /\ opening'[t] = opening[t] + 1 /\ opening[t] \in Nat
        BY <3>2 DEF initOpen, goto, Types, OpenedInOrder, Busy, Early
      <4>2. /\ opened \in Seq(LogId) /\ \A i \in DOMAIN opened : opened[i] \in Nat /\ opened[i] < opening[t]
        <5>1. opened \in Seq(LogId) /\ LogId \subseteq Nat
          BY LogIdNumbers DEF Types
        <5>2. \A i \in DOMAIN opened : opened[i] \in LogId
          BY <5>1, ElementOfSeq, LenProperties
        <5>3. \A i \in DOMAIN opened : opened[i] < opening[t]
          BY <3>2 DEF initOpen, OpenedInOrder
        <5> QED
          BY <5>1, <5>2, <5>3
      <4>3. opened' = opened \/ opened' = Append(opened, opening[t])
        BY <3>2, OpenEffect
      <4>4. /\ \A i \in DOMAIN opened' : opened'[i] < opening[t] + 1
            /\ OneOpenPerDevice'
        <5>1. CASE opened' = opened
          BY <4>1, <4>2, <5>1 DEF OneOpenPerDevice
        <5>2. CASE opened' = Append(opened, opening[t])
          <6>1. opening[t] \in LogId
            BY <3>2, OpenEffect
          <6>2. /\ DOMAIN opened' = 1 .. Len(opened) + 1 /\ Len(opened) \in Nat
                /\ DOMAIN opened = 1 .. Len(opened)
                /\ \A i \in 1 .. Len(opened) : opened'[i] = opened[i]
                /\ opened'[Len(opened) + 1] = opening[t]
            BY <4>2, <5>2, <6>1, AppendProperties, LenProperties
          <6>3. \A i \in 1 .. Len(opened) :
                  opened'[i] \in Nat /\ opened'[i] < opening[t]
            BY <4>2, <6>2
          <6>4. \A i \in DOMAIN opened' : i \in 1 .. Len(opened) \/ i = Len(opened) + 1
            BY <6>2
          <6>5. OneOpenPerDevice'
            <7>1. ASSUME NEW i \in DOMAIN opened', NEW j \in DOMAIN opened',
                         opened'[i] = opened'[j]
                  PROVE  i = j
              <8>1. CASE i \in 1 .. Len(opened) /\ j \in 1 .. Len(opened)
                BY <6>2, <7>1, <8>1 DEF OneOpenPerDevice
              <8>2. CASE i = Len(opened) + 1 \/ j = Len(opened) + 1
                BY <4>1, <6>2, <6>3, <6>4, <7>1, <8>2
              <8> QED
                BY <6>4, <8>1, <8>2
            <7> QED
              BY <7>1 DEF OneOpenPerDevice
          <6> QED
            BY <4>1, <6>2, <6>3, <6>4, <6>5
        <5> QED
          BY <4>3, <5>1, <5>2
      <4>5. OpenedInOrder'
        BY <3>1, <4>1, <4>4
           DEF OpenedInOrder, Busy, Early, AtSystem, AtApps, Locked, Inside
      <4> QED
        BY <4>4, <4>5
    <3>3. CASE init_debug_level(t)
      <4>1. /\ write_to_log = "init" /\ write_to_log' = write_to_log
            /\ opened' = opened /\ pc'[t] = "testMain"
        BY <3>3 DEF init_debug_level, goto, Types, OpenedInOrder, Busy, Early
      <4> QED
        BY <3>1, <4>1 DEF OpenedInOrder, OneOpenPerDevice, Busy, Early, AtSystem, AtApps,
                          Locked, Inside
    <3>4. CASE initPublish(t)
      <4>1. write_to_log' # "init" /\ opened' = opened /\ pc'[t] = "system"
        BY <3>4 DEF initPublish, storeWriter, goto, Types
      <4> QED
        BY <3>1, <4>1 DEF OpenedInOrder, OneOpenPerDevice, Busy, Early, AtSystem, AtApps,
                          Locked, Inside
    <3>5. CASE initTestMain(t) \/ initTestRadio(t)
      <4>1. /\ write_to_log = "init" /\ write_to_log' = write_to_log
            /\ opened' = opened /\ pc'[t] \in Early \ {"open"}
        BY <3>5 DEF initTestMain, initTestRadio, memory, goto, Types, OpenedInOrder, Busy, Early
      <4> QED
        BY <3>1, <4>1 DEF OpenedInOrder, OneOpenPerDevice, Busy, Early, AtSystem, AtApps,
                          Locked, Inside
    <3>6. CASE /\ pc[t] \in AtSystem \cup AtApps
               /\ tests(t) \/ loads(t) \/ shares(t)
      <4>1. /\ write_to_log # "init" /\ write_to_log' = write_to_log /\ opened' = opened
        BY <3>6, TestsEffect, LoadsEffect, SharesEffect DEF OpenedInOrder, memory
      <4>2. pc'[t] \in AtSystem \cup AtApps \cup {"unlock"}
        <5>1. CASE tests(t)
          BY <3>6, <5>1 DEF tests, initTestMain, initTestRadio, loadSlot, goto, Types,
                            AtSystem, AtApps
        <5>2. CASE loads(t) \/ shares(t)
          BY <5>2, LoadsEffect, SharesEffect DEF Types, AtSystem, AtApps
        <5> QED
          BY <3>6, <5>1, <5>2
      <4> QED
        BY <3>1, <4>1, <4>2 DEF OpenedInOrder, OneOpenPerDevice, Busy, Early, AtSystem,
                                AtApps, Locked, Inside
    <3>7. CASE tests(t) \/ loads(t) \/ shares(t)
      <4>1. CASE tests(t)
        BY <3>5, <3>6, <4>1 DEF tests, loadSlot, AtSystem, AtApps
      <4>2. CASE loads(t) \/ shares(t)
        BY <3>6, <4>2, LoadsEffect, SharesEffect DEF AtSystem, AtApps
      <4> QED
        BY <3>7, <4>1, <4>2
    <3> QED
      BY <1>2, <2>2, <3>2, <3>3, <3>4, <3>7, InitialisingSteps
  <2> QED
    BY <2>1, <2>2
<1> QED
  BY <1>1, <1>2 DEF Next

(* Once published, the writer is never stored again. *)
LEMMA WriterKept ==
  ASSUME Types, OpenedInOrder, write_to_log # "init", [Next]_vars
  PROVE  write_to_log' = write_to_log
<1>1. CASE UNCHANGED vars
  BY <1>1 DEF vars
<1>2. ASSUME NEW t \in Thread, dlog_print(t) \/ running(t)
      PROVE  write_to_log' = write_to_log
  <2>1. CASE ~initialising(t)
    BY <1>2, <2>1, MemoryUntouched
  <2>2. ~initPublish(t)
    BY DEF initPublish, OpenedInOrder, Busy, Early
  <2>3. CASE initOpen(t) \/ init_debug_level(t)
    BY <2>3 DEF initOpen, init_debug_level
  <2>4. CASE tests(t) \/ loads(t) \/ shares(t)
    BY <2>4, TestsEffect, LoadsEffect, SharesEffect DEF memory
  <2> QED
    BY <1>2, <2>1, <2>2, <2>3, <2>4, InitialisingSteps
<1> QED
  BY <1>1, <1>2 DEF Next

(* A settled memory stays as it is. *)
LEMMA SettledStep ==
  ASSUME HavePthreads, Types, InsideCoherent, Settled,
         NEW t \in Thread, dlog_print(t) \/ running(t)
  PROVE  /\ Settled' /\ write_to_log' = write_to_log /\ log_fds' = log_fds
         /\ g_debug_level' = g_debug_level
         /\ \A u \in Thread \ {t} : view'[u] = view[u]
<1>1. /\ ~initialising(t) /\ write_to_log' = write_to_log /\ log_fds' = log_fds
      /\ g_debug_level' = g_debug_level
      /\ \A u \in Thread \ {t} : view'[u] = view[u]
  BY MemoryUntouched DEF Settled
<1>2. pc'[t] \notin Inside
  <2>1. CASE initCheck(t)
    <3>1. view[t].writer = {write_to_log}
      BY <2>1 DEF initCheck, InsideCoherent, Coherent, Locked
    <3>2. pc'[t] = "unlock"
      BY <2>1, <3>1 DEF initCheck, goto, Types, Settled
    <3> QED
      BY <3>2 DEF Inside
  <2>2. CASE ~initCheck(t)
    BY <1>1, <2>2, OutsideStays
  <2> QED
    BY <2>1, <2>2
<1>3. \A u \in Thread : ~initialising(u)'
  BY <1>2, OthersUntouched DEF Settled, initialising
<1> QED
  BY <1>1, <1>3 DEF Settled

(* Every step keeps InitLeft: a thread unlocks when everything is stored, *)
(* and jumps where memory says.                                           *)
LEMMA InitLeftStep ==
  ASSUME HavePthreads, Types, IndicesInTable, Exclusive, InsideCoherent, OpenedInOrder,
         InitLeft, [Next]_vars
  PROVE  InitLeft'
<1> DEFINE Left == {"redispatch", "kernel", "null", "writev"}
           Knows(u) == /\ Settled /\ Coherent(u)
                       /\ pc[u] \in {"kernel", "writev"} => write_to_log = "kernel"
                       /\ pc[u] = "null" => write_to_log = "null"
<1>1. CASE UNCHANGED vars
  BY <1>1 DEF vars, InitLeft, Settled, Coherent, initialising
<1>2. ASSUME NEW t \in Thread, dlog_print(t) \/ running(t),
             NEW u \in Thread, viaInit'[u], pc'[u] \in Left
      PROVE  Knows(u)'
  <2>1. CASE u # t
    <3>1. viaInit[u] /\ pc'[u] = pc[u]
      BY <1>2, <2>1, OthersUntouched
    <3>2. Knows(u)
      BY <1>2, <3>1 DEF InitLeft
    <3>3. /\ Settled' /\ write_to_log' = write_to_log /\ log_fds' = log_fds
          /\ g_debug_level' = g_debug_level /\ view'[u] = view[u]
      BY <1>2, <2>1, <3>2, SettledStep
    <3> QED
      BY <3>1, <3>2, <3>3 DEF Coherent
  <2>2. CASE u = t /\ dlog_print(t)
    <3>1. ~viaInit'[t]
      BY <2>2 DEF dlog_print, Types
    <3> QED
      BY <1>2, <2>2, <3>1
  <2>3. CASE u = t /\ redispatch(t)
    <3>1. pc[t] = "redispatch" /\ viaInit[t] /\ dispatch(t)
      BY <1>2, <2>3 DEF redispatch
    <3>2. Knows(t)
      BY <3>1 DEF InitLeft
    <3>3. /\ Settled' /\ write_to_log' = write_to_log /\ log_fds' = log_fds
          /\ g_debug_level' = g_debug_level
      BY <1>2, <3>2, SettledStep
    <3>4. Coherent(t)' /\ pc'[t] = entry(write_to_log)
      BY <3>1, <3>2, <3>3, CoherentDispatch
    <3>5. write_to_log \in {"kernel", "null"}
      BY <3>2 DEF Settled, Types, Writer
    <3> QED
      BY <2>3, <3>3, <3>4, <3>5 DEF entry
  <2>4. CASE u = t /\ finishes(t)
    <3>1. pc[t] = "kernel" /\ pc'[t] = "writev" /\ view' = view /\ viaInit' = viaInit
      BY <1>2, <2>4 DEF finishes, write_to_log_null, writev, write_to_log_kernel, finish,
                        goto, Types
    <3>2. Knows(t)
      BY <1>2, <2>4, <3>1 DEF InitLeft
    <3>3. /\ Settled' /\ write_to_log' = write_to_log /\ log_fds' = log_fds
          /\ g_debug_level' = g_debug_level
      BY <1>2, <3>2, SettledStep
    <3> QED
      BY <2>4, <3>1, <3>2, <3>3 DEF Coherent
  <2>5. CASE u = t /\ initUnlock(t)
    <3>1. pc[t] = "unlock" /\ pc'[t] = "redispatch" /\ UNCHANGED memory /\ view' = view
      BY <2>5 DEF initUnlock, goto, Types
    <3>2. write_to_log # "init" /\ Coherent(t)
      BY <3>1 DEF OpenedInOrder, InsideCoherent, Locked
    <3>3. \A v \in Thread \ {t} : ~initialising(v)
      BY <3>1, OnlyOneInside DEF Locked
    <3>4. \A v \in Thread : ~initialising(v)'
      BY <1>2, <3>1, <3>3, OthersUntouched DEF initialising, Inside
    <3> QED
      BY <2>5, <3>1, <3>2, <3>4 DEF Coherent, Settled, memory
  <2>6. CASE /\ u = t
             /\ \/ initLock(t) \/ initCheck(t) \/ initOpen(t) \/ init_debug_level(t)
                \/ initPublish(t) \/ tests(t) \/ loads(t) \/ shares(t)
    <3>1. pc'[t] \notin Left
      <4>1. CASE tests(t) \/ loads(t) \/ shares(t)
        BY <4>1, TestsEffect, LoadsEffect, SharesEffect DEF Types
      <4>2. CASE \/ initLock(t) \/ initCheck(t) \/ initOpen(t) \/ init_debug_level(t)
                 \/ initPublish(t)
        BY <4>2 DEF initLock, initCheck, initOpen, init_debug_level, initPublish, goto, Types
      <4> QED
        BY <2>6, <4>1, <4>2
    <3> QED
      BY <1>2, <2>6, <3>1
  <2> QED
    BY <1>2, <2>1, <2>2, <2>3, <2>4, <2>5, <2>6, Steps
<1> QED
  BY <1>1, <1>2 DEF Next, InitLeft

(* Every step keeps InitCallersLogged: behind the initialisation a call   *)
(* fails only in the null writer, because the table is complete.          *)
LEMMA InitCallersStep ==
  ASSUME Types, IndicesInTable, Repairing, OpenedInOrder, InitLeft,
         InitCallersLogged, [Next]_vars
  PROVE  InitCallersLogged'
<1>1. write_to_log = "null" => write_to_log' = "null"
  BY WriterKept
<1>2. CASE done' = done
  BY <1>1, <1>2 DEF InitCallersLogged
<1>3. ASSUME NEW t \in Thread, NEW fate, finish(t, fate),
             (viaInit[t] /\ fate = Failed /\ req[t].id # LOG_ID_MAX)
               => write_to_log = "null"
      PROVE  InitCallersLogged'
  BY <1>1, <1>3, FinishRecord DEF InitCallersLogged
<1>4. ASSUME NEW t \in Thread, write_to_log_null(t) PROVE InitCallersLogged'
  BY <1>3, <1>4 DEF write_to_log_null, InitLeft
<1>5. ASSUME NEW t \in Thread, write_to_log_kernel(t) PROVE InitCallersLogged'
  <2>1. req[t].id >= LOG_ID_MAX => req[t].id = LOG_ID_MAX
    <3>1. req[t] \in Request
      BY DEF Types
    <3>2. req[t].id \in LogId \cup {LOG_ID_MAX}
      BY <3>1 DEF Request
    <3> QED
      BY <3>2, LogIdNumbers DEF LOG_ID_MAX
  <2>2. Suppressed # Failed
    BY DEF Suppressed, Failed
  <2>3. CASE finish(t, Suppressed)
    BY <1>3, <2>2, <2>3
  <2>4. CASE req[t].id >= LOG_ID_MAX /\ finish(t, Failed)
    BY <1>3, <2>1, <2>4
  <2> QED
    BY <1>2, <1>5, <2>3, <2>4 DEF write_to_log_kernel
<1>6. ASSUME NEW t \in Thread, writev(t) PROVE InitCallersLogged'
  <2>1. PICK fd \in view[t].fds[req[t].id] :
          /\ fd \in Fd /\ req[t].id \in LogId
          /\ \/ fd = -1 /\ finish(t, Failed)
             \/ fd # -1 /\ opened[fd] \in LogId /\ finish(t, opened[fd])
             \/ fd # -1 /\ finish(t, Refused)
    BY <1>6, WritevEffect
  <2>2. ASSUME viaInit[t] PROVE fd # -1
    <3>1. Settled /\ Coherent(t) /\ write_to_log = "kernel"
      BY <1>6, <2>2 DEF writev, InitLeft
    <3>2. \A i \in LogId : log_fds[i] # -1
      BY <3>1, RepairedIsComplete DEF KernelTableComplete, Settled
    <3> QED
      BY <2>1, <3>1, <3>2 DEF Coherent
  <2>3. CASE fd = -1 /\ finish(t, Failed)
    BY <1>3, <2>2, <2>3
  <2>4. CASE opened[fd] \in LogId /\ finish(t, opened[fd])
    <3>1. opened[fd] # Failed
      BY <2>4, LogIdNumbers
    <3> QED
      BY <1>3, <2>4, <3>1
  <2>5. CASE finish(t, Refused)
    <3>1. Refused # Failed
      BY DEF Refused, Failed
    <3> QED
      BY <1>3, <2>5, <3>1
  <2> QED
    BY <2>1, <2>3, <2>4, <2>5
<1>7. CASE UNCHANGED vars
  BY <1>2, <1>7 DEF vars
<1> QED
  BY <1>2, <1>4, <1>5, <1>6, <1>7, HistoryUntouched DEF Next, finishes

(* The level a thread compares with, as LevelInForce states it. *)
LEMMA BelowLevel ==
  ASSUME NEW prio \in Nat, NEW level \in Int
  PROVE  belowLevel(prio, level) <=> ~(level \in 0 .. prio)
  BY DEF belowLevel

(* Every step keeps DoneSettled: the memory was settled when such a call  *)
(* was still under way.                                                   *)
LEMMA DoneSettledStep ==
  ASSUME HavePthreads, Types, InsideCoherent, InitLeft, DoneSettled, [Next]_vars
  PROVE  DoneSettled'
<1>1. CASE UNCHANGED vars
  BY <1>1 DEF vars, DoneSettled, Settled, initialising
<1>2. ASSUME NEW t \in Thread, dlog_print(t) \/ running(t), NEW c \in done', c.viaInit
      PROVE  Settled'
  <2>1. CASE c \in done
    <3>1. Settled
      BY <1>2, <2>1 DEF DoneSettled
    <3> QED
      BY <1>2, <3>1, SettledStep
  <2>2. CASE c \notin done
    <3>1. finishes(t)
      BY <1>2, <2>2, HistoryUntouched
    <3>2. PICK fate : finish(t, fate)
      BY <1>2, <2>2, <3>1
         DEF finishes, write_to_log_null, write_to_log_kernel, writev
    <3>3. c.viaInit = viaInit[t]
      BY <1>2, <2>2, <3>2, FinishRecord
    <3>4. pc[t] \in {"null", "kernel", "writev"}
      BY <3>1 DEF finishes, write_to_log_null, write_to_log_kernel, writev
    <3>5. Settled
      BY <1>2, <3>3, <3>4 DEF InitLeft
    <3> QED
      BY <1>2, <3>5, SettledStep
  <2> QED
    BY <2>1, <2>2
<1> QED
  BY <1>1, <1>2 DEF Next, DoneSettled

(* The level a thread behind the initialisation compares with. *)
LEMMA LevelLoaded ==
  ASSUME Types, InitLeft, NEW t \in Thread, pc[t] = "kernel", NEW level \in view[t].level
  PROVE  /\ belowLevel(req[t].prio, level) <=> ~(level \in 0 .. req[t].prio)
         /\ viaInit[t] => level = g_debug_level
<1>1. req[t] \in Request /\ Threshold \subseteq Int
  BY WriterAssumption DEF Types, Threshold, DLOG_SILENT
<1>2. view[t] \in ViewOf(Fd)
  BY DEF Types
<1>3. req[t].prio \in Nat /\ level \in Int
  BY <1>1, <1>2 DEF Request, ViewOf
<1>4. viaInit[t] => level = g_debug_level
  BY DEF InitLeft, Coherent
<1> QED
  BY <1>3, <1>4, BelowLevel

(* Every step keeps Judged. *)
LEMMA JudgedStep ==
  ASSUME HavePthreads, Types, InsideCoherent, InitLeft, Judged, [Next]_vars
  PROVE  Judged'
<1> DEFINE shown(u) == ~(req[u].id >= LOG_ID_APPS /\ ~(g_debug_level \in 0 .. req[u].prio))
<1>1. CASE UNCHANGED vars
  BY <1>1 DEF vars, Judged
<1>2. ASSUME NEW t \in Thread, dlog_print(t) \/ running(t),
             NEW u \in Thread, viaInit'[u], pc'[u] = "writev"
      PROVE  shown(u)'
  <2>1. CASE u # t
    <3>1. viaInit[u] /\ pc[u] = "writev" /\ req'[u] = req[u]
      BY <1>2, <2>1, OthersUntouched
    <3>2. Settled /\ shown(u)
      BY <3>1 DEF InitLeft, Judged
    <3>3. g_debug_level' = g_debug_level
      BY <1>2, <3>2, SettledStep
    <3> QED
      BY <3>1, <3>2, <3>3
  <2>2. CASE u = t /\ write_to_log_kernel(t)
    <3>1. PICK level \in view[t].level :
            IF req[t].id >= LOG_ID_APPS /\ belowLevel(req[t].prio, level)
              THEN finish(t, Suppressed)
            ELSE IF req[t].id >= LOG_ID_MAX THEN finish(t, Failed)
            ELSE /\ goto(t, "writev")
                 /\ UNCHANGED <<memory, opened, lock, view, call, opening, viaInit, done>>
      BY <2>2 DEF write_to_log_kernel
    <3>2. ~finish(t, Suppressed) /\ ~finish(t, Failed)
      BY <1>2, <2>2 DEF finish, goto, Types
    <3>3. /\ ~(req[t].id >= LOG_ID_APPS /\ belowLevel(req[t].prio, level))
          /\ UNCHANGED <<g_debug_level, req, viaInit>>
      BY <3>1, <3>2 DEF memory, call
    <3>4. /\ belowLevel(req[t].prio, level) <=> ~(level \in 0 .. req[t].prio)
          /\ viaInit[t] => level = g_debug_level
      BY <2>2, <3>1, LevelLoaded DEF write_to_log_kernel
    <3> QED
      BY <1>2, <2>2, <3>3, <3>4
  <2>3. CASE u = t /\ ~write_to_log_kernel(t)
    <3>1. pc'[t] # "writev"
      <4>1. CASE dlog_print(t) \/ redispatch(t)
        BY <4>1, DispatchEffect DEF dlog_print, redispatch, Types
      <4>2. CASE write_to_log_null(t) \/ writev(t)
        BY <4>2 DEF write_to_log_null, writev, finish, goto, Types
      <4>3. CASE tests(t) \/ loads(t) \/ shares(t)
        BY <4>3, TestsEffect, LoadsEffect, SharesEffect DEF Types
      <4>4. CASE \/ initLock(t) \/ initUnlock(t) \/ initCheck(t) \/ initOpen(t)
                 \/ init_debug_level(t) \/ initPublish(t)
        BY <4>4 DEF initLock, initUnlock, initCheck, initOpen, init_debug_level,
                    initPublish, goto, Types
      <4> QED
        BY <1>2, <2>3, <4>1, <4>2, <4>3, <4>4, Steps DEF finishes
    <3> QED
      BY <1>2, <2>3, <3>1
  <2> QED
    BY <2>1, <2>2, <2>3
<1> QED
  BY <1>1, <1>2 DEF Next, Judged

(* Every step keeps LevelInForce: behind the initialisation a thread      *)
(* loads the level that is in memory for good.                            *)
LEMMA LevelStep ==
  ASSUME HavePthreads, Types, IndicesInTable, InsideCoherent, OpenedInOrder, InitLeft,
         DoneSettled, Judged, LevelInForce, [Next]_vars
  PROVE  LevelInForce'
<1> DEFINE judged(c, level) ==
      c.fate = Suppressed <=> c.req.id >= LOG_ID_APPS /\ ~(level \in 0 .. c.req.prio)
<1>1. ASSUME NEW c \in done, c.viaInit, write_to_log' = "kernel"
      PROVE  judged(c, g_debug_level')
  <2>1. Settled
    BY <1>1 DEF DoneSettled
  <2>2. write_to_log' = write_to_log /\ g_debug_level' = g_debug_level
    BY <2>1, SettledStep DEF Next, vars
  <2> QED
    BY <1>1, <2>2 DEF LevelInForce
<1>2. ASSUME NEW t \in Thread, NEW fate, finish(t, fate),
             (viaInit[t] /\ write_to_log = "kernel") =>
               (fate = Suppressed <=>
                  req[t].id >= LOG_ID_APPS /\ ~(g_debug_level \in 0 .. req[t].prio))
      PROVE  LevelInForce'
  <2>1. UNCHANGED <<write_to_log, g_debug_level>>
    BY <1>2 DEF finish, memory
  <2>2. ASSUME NEW c \in done', c.viaInit, write_to_log' = "kernel"
        PROVE  judged(c, g_debug_level')
    <3>1. CASE c \in done
      BY <1>1, <2>2, <3>1
    <3>2. CASE c.req = req[t] /\ c.fate = fate /\ c.viaInit = viaInit[t]
      BY <1>2, <2>1, <2>2, <3>2
    <3> QED
      BY <1>2, <2>2, <3>1, <3>2, FinishRecord
  <2> QED
    BY <2>2 DEF LevelInForce
<1>3. ASSUME NEW t \in Thread, write_to_log_null(t) PROVE LevelInForce'
  <2>1. viaInit[t] => write_to_log # "kernel"
    BY <1>3 DEF write_to_log_null, InitLeft
  <2> QED
    BY <1>2, <1>3, <2>1 DEF write_to_log_null
<1>4. ASSUME NEW t \in Thread, write_to_log_kernel(t) PROVE LevelInForce'
  <2>1. PICK level \in view[t].level :
          IF req[t].id >= LOG_ID_APPS /\ belowLevel(req[t].prio, level)
            THEN finish(t, Suppressed)
          ELSE IF req[t].id >= LOG_ID_MAX THEN finish(t, Failed)
          ELSE done' = done
    BY <1>4 DEF write_to_log_kernel
  <2>2. Suppressed # Failed
    BY DEF Suppressed, Failed
  <2>3. viaInit[t] => level = g_debug_level
    BY <1>4, LevelLoaded DEF write_to_log_kernel
  <2>4. belowLevel(req[t].prio, level) <=> ~(level \in 0 .. req[t].prio)
    BY <1>4, LevelLoaded DEF write_to_log_kernel
  <2>5. CASE finish(t, Suppressed) /\ req[t].id >= LOG_ID_APPS /\ ~(level \in 0 .. req[t].prio)
    BY <1>2, <2>3, <2>5
  <2>6. CASE finish(t, Failed) /\ ~(req[t].id >= LOG_ID_APPS /\ ~(level \in 0 .. req[t].prio))
    BY <1>2, <2>2, <2>3, <2>6
  <2>7. CASE done' = done
    BY <1>1, <2>7 DEF LevelInForce
  <2> QED
    BY <2>1, <2>4, <2>5, <2>6, <2>7
<1>5. ASSUME NEW t \in Thread, writev(t) PROVE LevelInForce'
  <2>1. PICK fate : finish(t, fate) /\ fate # Suppressed
    BY <1>5, WritevEffect, LogIdNumbers DEF Suppressed, Failed, Refused
  <2>2. (viaInit[t] /\ write_to_log = "kernel") =>
          ~(req[t].id >= LOG_ID_APPS /\ ~(g_debug_level \in 0 .. req[t].prio))
    BY <1>5 DEF writev, Judged
  <2> QED
    BY <1>2, <2>1, <2>2
<1>6. CASE UNCHANGED vars
  BY <1>6 DEF vars, LevelInForce
<1>7. CASE done' = done
  BY <1>1, <1>7 DEF LevelInForce
<1> QED
  BY <1>3, <1>4, <1>5, <1>6, <1>7, HistoryUntouched DEF Next, finishes

(* With the lock, the whole invariant holds of every behaviour. *)
LEMMA LockInvariant ==
  ASSUME HavePthreads
  PROVE  Spec => []LockInv
<1>1. Init => LockInv
  BY DEF Init, LockInv, OpenedInOrder, OneOpenPerDevice, InitLeft, InitCallersLogged,
         DoneSettled, Judged, LevelInForce, Busy, Early, AtSystem, AtApps
<1>2. WriterInv /\ TableInv /\ LockInv /\ [Next]_vars => LockInv'
  BY OpenedInOrderStep, InitLeftStep, InitCallersStep, DoneSettledStep, JudgedStep, LevelStep
     DEF WriterInv, TableInv, LockInv
<1>3. Spec => []TableInv
  BY TableInvariant
<1> QED
  BY <1>1, <1>2, <1>3, WriterInvariant, PTL DEF Spec

(* With log_init_lock compiled in, no device is opened twice, for every   *)
(* number of threads whose first calls race.                              *)
THEOREM DevicesOpenedOnce ==
  ASSUME HavePthreads
  PROVE  Spec => []OneOpenPerDevice
<1>1. LockInv => OneOpenPerDevice
  BY DEF LockInv
<1> QED
  BY <1>1, LockInvariant, PTL

(* With log_init_lock compiled in, a thread that went through __dlog_init *)
(* and asked for a valid log fails only in a process without log devices: *)
(* it never meets a half-filled descriptor table.                         *)
THEOREM InitCallersAreLogged ==
  ASSUME HavePthreads
  PROVE  Spec => []InitCallersLogged
<1>1. LockInv => InitCallersLogged
  BY DEF LockInv
<1> QED
  BY <1>1, LockInvariant, PTL

(* With log_init_lock compiled in, a thread that went through __dlog_init *)
(* is judged by the level in force, for every number of threads, every    *)
(* level, negative ones included, and every log id.                       *)
THEOREM LevelIsInForce ==
  ASSUME HavePthreads
  PROVE  Spec => []LevelInForce
<1>1. LockInv => LevelInForce
  BY DEF LockInv
<1> QED
  BY <1>1, LockInvariant, PTL

(* With log_init_lock compiled in, write_to_log is stored once: a process *)
(* that logs never falls silent and a silent one never starts to log.     *)
THEOREM WriterChosenOnce ==
  ASSUME HavePthreads
  PROVE  Spec => DispatchSettles
<1>1. WriterInv /\ LockInv /\ [Next]_vars
        => [write_to_log # "init" => write_to_log' = write_to_log]_vars
  BY WriterKept DEF WriterInv, LockInv
<1> QED
  BY <1>1, WriterInvariant, LockInvariant, PTL DEF Spec, DispatchSettles
=============================================================================
