----------------------------- MODULE DlogWriter -----------------------------
(***************************************************************************)
(* libdlog (log.c and the macros of dlog.h) as the threads of one process  *)
(* run it.  The first call opens the log devices and publishes the writer  *)
(* through the function pointer write_to_log; every call loads that        *)
(* pointer without a lock, and __dlog_init is locked only in a build that  *)
(* defines HAVE_PTHREADS.                                                  *)
(*                                                                         *)
(* The three unsynchronised shared objects (write_to_log, log_fds,         *)
(* g_debug_level) have a memory value and, per thread, the set of values   *)
(* a load by that thread may still return.                                 *)
(***************************************************************************)
EXTENDS Integers, Sequences, FiniteSets

CONSTANTS
  Thread,        \* the threads of the process
  NoThread,      \* the owner of a free lock
  HavePthreads,  \* HAVE_PTHREADS: log_init_lock is compiled in
  WeakMemory,    \* an unsynchronised load may return an older value
  Present,       \* log devices that exist and may be opened
  OpenFaults,    \* opening a present device may fail
  WriteFaults,   \* writing to an open device may fail
  EnvSet,        \* TIZEN_DEBUG_LEVEL is in the environment
  EnvLevels,     \* values it may have under atoi when it is read
  LogNdebug,     \* LOG_NDEBUG, set in release builds
  Families,      \* macro families the threads use
  Levels,        \* macro levels the threads use
  UseMaxId,      \* threads also call __dlog_print with LOG_ID_MAX
  MaxCalls       \* bound on the calls of one thread

(* log_id_t *)
LOG_ID_MAIN == 0
LOG_ID_RADIO == 1
LOG_ID_SYSTEM == 2
LOG_ID_APPS == 3
LOG_ID_MAX == 4
LogId == LOG_ID_MAIN .. LOG_ID_APPS

(* log_priority *)
DLOG_VERBOSE == 2
DLOG_DEBUG == 3
DLOG_INFO == 4
DLOG_WARN == 5
DLOG_ERROR == 6
DLOG_SILENT == 8

ASSUME WriterAssumption ==
  /\ NoThread \notin Thread
  /\ Present \subseteq LogId
  /\ EnvLevels \subseteq Int /\ MaxCalls \in Nat
  /\ {HavePthreads, WeakMemory, OpenFaults, WriteFaults, EnvSet, LogNdebug,
      UseMaxId} \subseteq BOOLEAN
  /\ Families \subseteq {"LOG", "RLOG", "SLOG", "ALOG"}
  /\ Levels \subseteq {"V", "D", "I", "W", "E"}

-----------------------------------------------------------------------------
(* The macros: what a use of <family><level>, or of its _IF form with a   *)
(* true condition, calls.                                                 *)

LOG(prio) == [id |-> LOG_ID_MAIN, prio |-> prio]
RLOG(prio) == [id |-> LOG_ID_RADIO, prio |-> prio]
SLOG(prio) == [id |-> LOG_ID_SYSTEM, prio |-> prio]
ALOG(prio) == [id |-> LOG_ID_APPS, prio |-> prio]

basicMacro(family, prio) ==
  CASE family = "LOG" -> LOG(prio)
    [] family = "RLOG" -> RLOG(prio)
    [] family = "SLOG" -> SLOG(prio)
    [] family = "ALOG" -> ALOG(prio)

priority == [V |-> DLOG_VERBOSE, D |-> DLOG_DEBUG, I |-> DLOG_INFO,
             W |-> DLOG_WARN, E |-> DLOG_ERROR]

(* The verbose macros expand to nothing under LOG_NDEBUG. *)
Requests ==
  {basicMacro(family, priority[level]) :
     family \in Families,
     level \in {l \in Levels : ~(LogNdebug /\ l = "V")}}
  \cup (IF UseMaxId THEN {[id |-> LOG_ID_MAX, prio |-> DLOG_DEBUG]} ELSE {})

Request == [id : LogId \cup {LOG_ID_MAX}, prio : Nat]

-----------------------------------------------------------------------------
VARIABLES
  write_to_log,   \* the function pointer: init, kernel or null
  log_fds,        \* file descriptor per log id, -1 when not open
  g_debug_level,
  opened,         \* external: the device behind each descriptor 1..Len(opened)
  lock,           \* owner of log_init_lock
  view,           \* what each thread may still load of the shared objects
  pc, req, ncalls,
  mainFd,         \* register: descriptor of main a fallback has loaded
  opening,        \* next device __dlog_init opens, per thread
  viaInit,        \* this call entered __dlog_init
  done            \* history: where the message of each finished call went

vars == <<write_to_log, log_fds, g_debug_level, opened, lock, view, pc, req,
          ncalls, mainFd, opening, viaInit, done>>
memory == <<write_to_log, log_fds, g_debug_level>>
call == <<req, ncalls, mainFd>>

(* Where a thread can be.  Inside are the steps of the initialisation, in *)
(* the order of the code; a step makes at most one access to a shared     *)
(* object.                                                                *)
Inside == {"open", "level", "testMain", "testRadio", "storeNull", "storeKernel",
           "system", "systemMain", "systemStore", "apps", "appsMain", "appsStore"}
Label == {"idle", "null", "kernel", "writev", "lock", "check", "unlock",
          "redispatch"} \cup Inside

Writer == {"init", "kernel", "null"}
Fd == {-1} \cup 1 .. Len(opened)

(* Where a message can go: a device, or nowhere because it was below the  *)
(* level (0 is returned), because there was no descriptor or no such log  *)
(* id (-1 is returned), or because an open device refused it (-1 too).    *)
Failed == -1
Suppressed == -2
Refused == -3
Fate == LogId \cup {Failed, Suppressed, Refused}
Fates == [thread : Thread, n : Nat, req : Request, fate : Fate, viaInit : BOOLEAN]

Init ==
  /\ write_to_log = "init"
  /\ log_fds = [i \in LogId |-> -1]
  /\ g_debug_level = DLOG_SILENT
  /\ opened = <<>>
  /\ lock = NoThread
  /\ view = [t \in Thread |-> [writer |-> {"init"}, fds |-> [i \in LogId |-> {-1}],
                               level |-> {DLOG_SILENT}]]
  /\ pc = [t \in Thread |-> "idle"]
  /\ req = [t \in Thread |-> LOG(DLOG_SILENT)]
  /\ ncalls = [t \in Thread |-> 0]
  /\ mainFd = [t \in Thread |-> -1]
  /\ opening = [t \in Thread |-> LOG_ID_MAX]
  /\ viaInit = [t \in Thread |-> FALSE]
  /\ done = {}

(* What the others may load once t has stored val over an object. *)
seenBy(u, t, old, val) == IF u = t \/ ~WeakMemory THEN {val} ELSE old \cup {val}

storeWriter(t, val) ==
  /\ write_to_log' = val
  /\ view' = [u \in Thread |->
       [view[u] EXCEPT !.writer = seenBy(u, t, view[u].writer, val)]]

storeFd(t, id, fd) ==
  /\ log_fds' = [log_fds EXCEPT ![id] = fd]
  /\ view' = [u \in Thread |->
       [view[u] EXCEPT !.fds[id] = seenBy(u, t, view[u].fds[id], fd)]]

storeLevel(t, val) ==
  /\ g_debug_level' = val
  /\ view' = [u \in Thread |->
       [view[u] EXCEPT !.level = seenBy(u, t, view[u].level, val)]]

(* Acquiring the lock orders the thread after every store made under it. *)
synchronise(t) ==
  view' = [view EXCEPT ![t] = [writer |-> {write_to_log},
                               fds |-> [i \in LogId |-> {log_fds[i]}],
                               level |-> {g_debug_level}]]

goto(t, label) == pc' = [pc EXCEPT ![t] = label]

entry(w) == CASE w = "init" -> "lock" [] w = "kernel" -> "kernel" [] w = "null" -> "null"

-----------------------------------------------------------------------------
(* The thread loads write_to_log and jumps to it.  Once it has seen a     *)
(* published writer it does not load the initial one again.               *)
dispatch(t) ==
  \E w \in view[t].writer :
    /\ goto(t, entry(w))
    /\ view' = [view EXCEPT ![t].writer = IF w = "init" THEN @ ELSE @ \ {"init"}]

dlog_print(t) ==
  /\ pc[t] = "idle" /\ ncalls[t] < MaxCalls
  /\ \E r \in Requests : req' = [req EXCEPT ![t] = r]
  /\ ncalls' = [ncalls EXCEPT ![t] = @ + 1]
  /\ viaInit' = [viaInit EXCEPT ![t] = FALSE]
  /\ dispatch(t)
  /\ UNCHANGED <<memory, opened, lock, mainFd, opening, done>>

finish(t, fate) ==
  /\ done' = done \cup {[thread |-> t, n |-> ncalls[t], req |-> req[t],
                         fate |-> fate, viaInit |-> viaInit[t]]}
  /\ goto(t, "idle")
  /\ UNCHANGED <<memory, opened, lock, view, call, opening, viaInit>>

write_to_log_null(t) == pc[t] = "null" /\ finish(t, Failed)

(* Slip: the comparison is a signed one. *)
belowLevelSigned(prio, level) == prio < level

(* prio is unsigned, so a negative level compares as a huge one. *)
belowLevel(prio, level) == level < 0 \/ prio < level

write_to_log_kernel(t) ==
  /\ pc[t] = "kernel"
  /\ \E level \in view[t].level :
       IF req[t].id >= LOG_ID_APPS /\ belowLevel(req[t].prio, level)
         THEN finish(t, Suppressed)
       ELSE IF req[t].id >= LOG_ID_MAX THEN finish(t, Failed)
       ELSE /\ goto(t, "writev")
            /\ UNCHANGED <<memory, opened, lock, view, call, opening, viaInit, done>>

(* The load of the descriptor and the call on it are one step: nothing    *)
(* closes a descriptor.                                                   *)
writev(t) ==
  /\ pc[t] = "writev"
  /\ \E fd \in view[t].fds[req[t].id] :
       \/ finish(t, IF fd = -1 THEN Failed ELSE opened[fd])
       \/ WriteFaults /\ fd # -1 /\ finish(t, Refused)

-----------------------------------------------------------------------------
(* __dlog_init *)

(* Slip: the lock is requested and not waited for (a failed trylock). *)
initLockTry(t) ==
  /\ pc[t] = "lock"
  /\ viaInit' = [viaInit EXCEPT ![t] = TRUE]
  /\ goto(t, "check")
  /\ lock' = IF lock = NoThread THEN t ELSE lock
  /\ UNCHANGED <<memory, opened, view, call, opening, done>>

initLock(t) ==
  /\ pc[t] = "lock"
  /\ viaInit' = [viaInit EXCEPT ![t] = TRUE]
  /\ goto(t, "check")
  /\ IF HavePthreads THEN lock = NoThread /\ lock' = t /\ synchronise(t)
                     ELSE UNCHANGED <<lock, view>>
  /\ UNCHANGED <<memory, opened, call, opening, done>>

(* Slip: the pointer is not checked again under the lock. *)
initCheckNot(t) ==
  /\ pc[t] = "check"
  /\ goto(t, "open")
  /\ opening' = [opening EXCEPT ![t] = LOG_ID_MAIN]
  /\ UNCHANGED <<memory, opened, lock, view, call, viaInit, done>>

initCheck(t) ==
  /\ pc[t] = "check"
  /\ \E w \in view[t].writer : goto(t, IF w = "init" THEN "open" ELSE "unlock")
  /\ opening' = [opening EXCEPT ![t] = LOG_ID_MAIN]
  /\ UNCHANGED <<memory, opened, lock, view, call, viaInit, done>>

(* A new descriptor is known to nobody before it is stored, so that open  *)
(* and store are one step.                                                *)
initOpen(t) ==
  /\ pc[t] = "open"
  /\ LET id == opening[t] IN
       /\ \/ id \in Present /\ opened' = Append(opened, id)
             /\ storeFd(t, id, Len(opened) + 1)
          \/ (id \notin Present \/ OpenFaults) /\ opened' = opened
             /\ storeFd(t, id, -1)
       /\ opening' = [opening EXCEPT ![t] = id + 1]
       /\ goto(t, IF id = LOG_ID_APPS THEN "level" ELSE "open")
  /\ UNCHANGED <<write_to_log, g_debug_level, lock, call, viaInit, done>>

(* Slip: the level is taken one lower. *)
init_debug_levelLow(t) ==
  /\ pc[t] = "level"
  /\ IF EnvSet THEN \E level \in EnvLevels : storeLevel(t, level - 1)
               ELSE UNCHANGED <<g_debug_level, view>>
  /\ goto(t, "testMain")
  /\ UNCHANGED <<write_to_log, log_fds, opened, lock, call, opening, viaInit, done>>

init_debug_level(t) ==
  /\ pc[t] = "level"
  /\ IF EnvSet THEN \E level \in EnvLevels : storeLevel(t, level)
               ELSE UNCHANGED <<g_debug_level, view>>
  /\ goto(t, "testMain")
  /\ UNCHANGED <<write_to_log, log_fds, opened, lock, call, opening, viaInit, done>>

(* The descriptors of main and radio decide on the writer. *)
initTestMain(t) ==
  /\ pc[t] = "testMain"
  /\ \E main \in view[t].fds[LOG_ID_MAIN] :
       goto(t, IF main < 0 THEN "storeNull" ELSE "testRadio")
  /\ UNCHANGED <<memory, opened, lock, view, call, opening, viaInit, done>>

(* Slip: only the main device is checked. *)
initTestRadioNot(t) ==
  /\ pc[t] = "testRadio"
  /\ goto(t, "storeKernel")
  /\ UNCHANGED <<memory, opened, lock, view, call, opening, viaInit, done>>

initTestRadio(t) ==
  /\ pc[t] = "testRadio"
  /\ \E radio \in view[t].fds[LOG_ID_RADIO] :
       goto(t, IF radio < 0 THEN "storeNull" ELSE "storeKernel")
  /\ UNCHANGED <<memory, opened, lock, view, call, opening, viaInit, done>>

initPublish(t) ==
  /\ \/ pc[t] = "storeNull" /\ storeWriter(t, "null")
     \/ pc[t] = "storeKernel" /\ storeWriter(t, "kernel")
  /\ goto(t, "system")
  /\ UNCHANGED <<log_fds, g_debug_level, opened, lock, call, opening, viaInit, done>>

(* A device that did not open shares the descriptor of main: the slot is  *)
(* tested, main is loaded and the slot is stored.                         *)
loadSlot(t, at, id, load, next) ==
  /\ pc[t] = at
  /\ \E fd \in view[t].fds[id] : goto(t, IF fd < 0 THEN load ELSE next)
  /\ UNCHANGED <<memory, opened, lock, view, call, opening, viaInit, done>>

(* Slip: the descriptor of radio is shared. *)
loadRadio(t, at, next) ==
  /\ pc[t] = at
  /\ \E radio \in view[t].fds[LOG_ID_RADIO] :
       mainFd' = [mainFd EXCEPT ![t] = radio]
  /\ goto(t, next)
  /\ UNCHANGED <<memory, opened, lock, view, req, ncalls, opening, viaInit, done>>

loadMain(t, at, next) ==
  /\ pc[t] = at
  /\ \E main \in view[t].fds[LOG_ID_MAIN] : mainFd' = [mainFd EXCEPT ![t] = main]
  /\ goto(t, next)
  /\ UNCHANGED <<memory, opened, lock, view, req, ncalls, opening, viaInit, done>>

storeSlot(t, at, id, next) ==
  /\ pc[t] = at
  /\ storeFd(t, id, mainFd[t])
  /\ goto(t, next)
  /\ UNCHANGED <<write_to_log, g_debug_level, opened, lock, call, opening, viaInit, done>>

(* Slip: a missing system device is left without a descriptor. *)
fallbackSystemNot(t) ==
  /\ pc[t] = "system"
  /\ goto(t, "apps")
  /\ UNCHANGED <<memory, view, opened, lock, call, opening, viaInit, done>>

fallbackSystem(t) ==
  \/ loadSlot(t, "system", LOG_ID_SYSTEM, "systemMain", "apps")
  \/ loadMain(t, "systemMain", "systemStore")
  \/ storeSlot(t, "systemStore", LOG_ID_SYSTEM, "apps")

fallbackApps(t) ==
  \/ loadSlot(t, "apps", LOG_ID_APPS, "appsMain", "unlock")
  \/ loadMain(t, "appsMain", "appsStore")
  \/ storeSlot(t, "appsStore", LOG_ID_APPS, "unlock")

(* Slip: the thread that opened the devices returns without unlocking. *)
initUnlockMissed(t) ==
  /\ pc[t] = "unlock"
  /\ lock' = IF HavePthreads /\ opening[t] # LOG_ID_MAX THEN NoThread ELSE lock
  /\ goto(t, "redispatch")
  /\ UNCHANGED <<memory, opened, view, call, opening, viaInit, done>>

initUnlock(t) ==
  /\ pc[t] = "unlock"
  /\ lock' = IF HavePthreads THEN NoThread ELSE lock
  /\ goto(t, "redispatch")
  /\ UNCHANGED <<memory, opened, view, call, opening, viaInit, done>>

redispatch(t) ==
  /\ pc[t] = "redispatch"
  /\ dispatch(t)
  /\ UNCHANGED <<memory, opened, lock, call, opening, viaInit, done>>

-----------------------------------------------------------------------------
running(t) ==
  \/ write_to_log_null(t) \/ write_to_log_kernel(t) \/ writev(t)
  \/ initLock(t) \/ initCheck(t) \/ initOpen(t) \/ init_debug_level(t)
  \/ initTestMain(t) \/ initTestRadio(t) \/ initPublish(t)
  \/ fallbackSystem(t) \/ fallbackApps(t) \/ initUnlock(t) \/ redispatch(t)

Next == \E t \in Thread : dlog_print(t) \/ running(t)

Spec == Init /\ [][Next]_vars

(* Every thread inside a call is scheduled; nobody is obliged to call. *)
FairSpec == Spec /\ \A t \in Thread : WF_vars(running(t))

-----------------------------------------------------------------------------
(* Types.  A descriptor is -1 or one that was opened, and the level in    *)
(* force is the initial one or that of the environment.                   *)
TypeOK ==
  /\ write_to_log \in Writer
  /\ opened \in Seq(LogId)
  /\ log_fds \in [LogId -> Fd]
  /\ g_debug_level \in Int
  /\ lock \in Thread \cup {NoThread}
  /\ view \in [Thread -> [writer : SUBSET Writer, fds : [LogId -> SUBSET Fd],
                          level : SUBSET ({DLOG_SILENT} \cup EnvLevels)]]
  /\ pc \in [Thread -> Label]
  /\ req \in [Thread -> Request]
  /\ ncalls \in [Thread -> 0 .. MaxCalls]
  /\ mainFd \in [Thread -> Fd]
  /\ opening \in [Thread -> 0 .. LOG_ID_MAX]
  /\ viaInit \in [Thread -> BOOLEAN]
  /\ done \subseteq Fates

(* With the lock compiled in, no device is opened twice, however many     *)
(* threads make their first call together.                                *)
OneOpenPerDevice ==
  \A i, j \in DOMAIN opened : opened[i] = opened[j] => i = j

(* With the lock compiled in, the writer is chosen once: a process that   *)
(* logs does not fall silent later, and a silent one stays silent.        *)
DispatchSettles ==
  [][write_to_log # "init" => write_to_log' = write_to_log]_vars

(* With the lock compiled in, a caller that went through __dlog_init      *)
(* writes through a complete descriptor table.                            *)
InitCallersLogged ==
  \A c \in done :
    (c.viaInit /\ c.fate = Failed /\ c.req.id # LOG_ID_MAX)
      => write_to_log = "null"

(* With the lock compiled in, a caller that went through __dlog_init is   *)
(* judged by the level in force, not by the initial one: its message is   *)
(* suppressed if its log is apps, or an invalid one, and its priority,    *)
(* compared as an unsigned number, is below that level.                   *)
LevelInForce ==
  \A c \in done :
    (c.viaInit /\ write_to_log = "kernel") =>
      (c.fate = Suppressed <=>
         c.req.id >= LOG_ID_APPS /\ ~(g_debug_level \in 0 .. c.req.prio))

initialising(t) == pc[t] \in Inside

(* When no thread is inside the initialisation and messages go to the     *)
(* kernel, every log id has an open descriptor: with the lock compiled in *)
(* even if opens fail; without it, and with stale loads, as long as a     *)
(* device that opens for one thread opens for all.                        *)
KernelTableComplete ==
  (write_to_log = "kernel" /\ \A t \in Thread : ~initialising(t))
    => \A i \in LogId : log_fds[i] # -1

(* Even without the lock and with stale loads, a message that reaches a   *)
(* device reaches its own one, or main when it is for system or apps; one *)
(* with an invalid log id reaches none.                                   *)
Routed ==
  \A c \in done :
    c.fate \in LogId =>
      \/ c.fate = c.req.id
      \/ c.fate = LOG_ID_MAIN /\ c.req.id \in {LOG_ID_SYSTEM, LOG_ID_APPS}

(* A logging call returns. *)
CallsReturn == \A t \in Thread : pc[t] # "idle" ~> pc[t] = "idle"

(* "above of this priority will always be logged": once messages go to    *)
(* the kernel, none of priority INFO or more was dropped.                 *)
InfoLogged ==
  (write_to_log = "kernel") =>
    \A c \in done : c.req.prio >= DLOG_INFO => c.fate \in LogId
=============================================================================
