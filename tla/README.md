# A verification project for dlog

dlog is the logging service of the Tizen platform. Programs link `libdlog`
(`log.c`, `include/dlog.h`), which writes messages to four kernel log devices;
`dlogutil` (`logutil.c`, `logprint.c`) reads the devices, merges them by
timestamp, filters, formats and prints, or writes a rotated file.

This directory holds TLA+ modules that model the parts of dlog which keep state,
TLC configurations that check them on small instances, and proofs checked by
TLAPS. `PROJECT.json` is the index: which definition stands for which source
lines, what each run checks, which mutation each property catches, the findings
and the hazards.

## 1. The system

| part | state | operations | meets the others through |
|---|---|---|---|
| libdlog (`log.c`) | `write_to_log`, `log_fds`, `g_debug_level`, `log_init_lock` | `__dlog_print`, `__dlog_vprint`, `__dlog_init`, `__write_to_log_kernel`, `__write_to_log_null`, `init_debug_level` | threads of the process share the state; `writev` to the devices |
| macros (`dlog.h`) | none | `LOG*`, `RLOG*`, `SLOG*`, `ALOG*`, stripped by `LOG_NDEBUG` | call `__dlog_print` with a log id and a priority |
| kernel log devices (not in the repository) | a ring of entries per device, a read position per reader | append, read one entry, flush, size queries, `select` | written by libdlog, read and flushed by dlogutil |
| read loop (`read_log_lines`) | `dev->queue`, `dev->printed`, `queued_lines`, `sleep` | select, read, `enqueue`, emit, drain, `-d`/`-t` exit | devices on one side, `processBuffer` on the other |
| output (`processBuffer`, `rotate_logs`, `setup_output`) | `g_outfd`, `g_out_byte_count`, the file chain | append a line, write a header, rotate, reopen | called by the read loop; the files outlive the process |
| filter rules (`logprint.c`) | `global_pri`, `filters` | `log_add_filter_rule`, `log_add_filter_string`, `log_should_print_line` | filled by `main`, asked by `processBuffer` |
| option and device set-up (`main`) | option globals, the device list, `g_dev_count` | `getopt` switch, default devices, open, `-c`, `-g` | prepares everything above |
| wire format and formatting (`logprint.c`) | none | `log_process_log_buffer`, `log_format_log_line` | called by `processBuffer` |
| logging service (`dlog.sh`) | the rings and the file chain, which outlive the process | one dlogutil that reads for ever and writes a rotated file | read loop and output together |

What is hard here:

* **Concurrency.** Writers, other dlogutil processes and the reader share the
  devices. `select` looks at one device after the other, and reads follow later,
  so a round sees the devices at different moments; the merge has to be right
  all the same. In libdlog every call loads the function pointer, the level and
  the descriptor without a lock, while the first calls of other threads are
  still storing them.
* **Failure.** Signals interrupt a round in the middle, allocations and writes
  fail, opens fail for some devices and not for others, renames fail, the
  process dies between two renames and is started again.
* **Waiting.** The last entry of each queue is held back and only printed
  after a quiet 5 ms; whether that timeout is used depends on a flag set in an
  earlier round. Reads block although `-d` promises not to.
* **Counting.** `queued_lines`, `g_out_byte_count` and `g_dev_count` are kept by
  hand beside what they count. The length of a message is a difference of
  unsigned lengths, and the buffer of a formatted line is sized by one loop and
  filled by another.

The list of hazards in `PROJECT.json` names the line where each of these bites
and the properties aimed at it.

What makes each part correct:

* read loop: output in timestamp order (`OutputSorted`, `OldestFirst`), stable
  within a device (`SameDeviceOrder`), nothing lost or doubled (`TakenOnce`),
  `-t` exact (`QueuedLinesExact`, `TailExact`), dumps end (`DumpExits`), one
  header per device (`HeadersLead`), no sleep over queued entries
  (`SleepsEmptyHanded`, which fails);
* libdlog: one initialisation (`OneOpenPerDevice`, `DispatchSettles`), complete
  descriptors (`InitCallersLogged`, `KernelTableComplete`), the level of the
  environment (`LevelInForce`), right device (`Routed`), no call hangs
  (`CallsReturn`), nothing from INFO on dropped (`InfoLogged`, which fails);
* output: files in order (`FilesOrdered`), only the oldest given up
  (`OnlyOldestLost`), only full files rotated (`RotatedFull`), bounded size
  (`ActiveFileBounded`);
* filter: the last rule given for a tag wins over earlier ones and over `main`'s own
  (`LastRuleWins`), stored levels are comparable (`LevelsResolved`);
* main: the reader gets what it relies on (`ReaderConfigured`), the header count
  fits the list (`HeadersIffSeveral`), available devices are listed
  (`AvailableListed`, which fails), `-c` clears all or fails (`ClearAllOrFail`);
* formatting: the two passes agree (`LinesMatch`) and stay within the buffer
  (`WithinBuffer`), the text comes out whole (`TextShown`), lengths do not wrap
  (`LengthsSound`);
* service: no entry of a ring is lost, over a restart or otherwise, except by a
  write that fails (`RingAccounted`), the files are in order (`DiskOrdered`),
  nothing is stuck but in two known ways (`EntriesSurface`).

## 2. The modules

### OrderedLog

What dlogutil promises: one pool of entries logged and not yet shown; an entry
that leaves it for the output is an oldest of the pool; entries may also vanish
(a ring laps, a device is flushed). No devices, rounds or timeouts.

### DlogReader

`read_log_lines` and everything it calls, against writers and a clearing
dlogutil.

| model | code |
|---|---|
| `log[d]` | entries of device `d` this reader has not read (kernel) |
| `queue[d]`, `printed[d]` | `dev->queue`, `dev->printed` |
| `queued_lines`, `sleep`, `readset`, `dev` | the locals of `read_log_lines` |
| `pc` | poll (in select), read (the read loop), emit, drain, exit, failed |
| `out`, `taken` | history variables: what happened to each dequeued entry; what was read |

An entry is a number (its place among all writes), a timestamp and the verdict
of the filter. Actions are the places where another process can get in between:
`PollDevice` looks at one device inside `select`; `SelectReady`, `SelectWakes`
and `SelectTimeout` are its three outcomes; `Read` is one turn of the read loop
with `enqueue` and the counter; `ReadInterrupted` is EINTR, which abandons the
round; `ReadDone` enters the branch `result > 0`; `Emit` and `Drain` are one turn
of the two output loops, header, line and dequeuing included; `DrainDone` is the
exit of `-d`. `ReadFails` and `OutputFails` are the exits. `Write` and
`clear_log` belong to other processes. The EAGAIN branch cannot be taken with
the blocking descriptors `main` opens, `log_process_log_buffer` never fails, and
a select that fails with anything but EINTR would mean a bad descriptor; these
are left out. `printNextEntry` calls `maybePrintStart` itself and again in
`skipNextEntry`; the first call sets `printed` and nothing comes between that resets
it, so the two are one evaluation in the model.

Timestamps of a device are taken in the order of the writes (the driver stamps
an entry under the lock it appends under). Over several devices this is assumed
too: an entry appended later does not carry an older stamp, unless `ClockSteps`
lets the wall clock go back.

### DlogWriter

The threads of one process in `log.c`. A step makes at most one access to an
object the threads share: load and jump (`dlog_print`, `redispatch`), the level
check (`write_to_log_kernel`), the descriptor load with `writev`, and in
`__dlog_init` the lock, the check, each of the four opens, the level, the test of
main, the test of radio, the store of the pointer, for each of the two
fallbacks the test of the slot, the load of main into a register (`mainFd`) and
the store of the slot, and the unlock. Two system calls share a step with an
access: `open` with the store of its result, since nobody knows a new descriptor
before it is stored, and `writev` with the load of its descriptor, since nothing
closes one. `OpenFaults` and `WriteFaults` let opens fail and open devices refuse a
message. `HavePthreads` says whether the lock is compiled in;
no build file of the repository defines `HAVE_PTHREADS`, so the build as shipped
is the one without. `WeakMemory` adds what the C standard leaves open for racing
loads: a thread may load an older value of each of the three objects
independently, until it takes the lock or stores the object itself. A thread
that has seen a published writer does not load the initial one again.
Descriptors are numbers of opens, so a second open of the same device is
visible (`opened`), and `fate` records the device a message reached, or that it
was suppressed (0 is returned), failed for want of a descriptor or a valid id,
or was refused (-1 for both).

A definition such as `SLOG` stands for every macro of its family in `dlog.h`, with
the `_IF` forms: they differ in the priority, which is its parameter, and in a
condition, which is whether the thread makes the call at all. That is why one
line of the module is mapped to the whole block of the header. `MCDlogWriter`
only names the levels of the run `writer_lock`, one of which is negative. The level
read from the environment is any of `EnvLevels`, since a program may call `setenv`
before an initialisation.

### LogOutput

The file side of `dlogutil -f -r -n`. `files[i]` is the file with suffix `i`, as the
set of lines in it and its size; the unit is `KB`-th of a kilobyte so that whole
kilobytes and overshoot differ. `rename` is one turn of the loop in
`rotate_logs`, so that `Die` can strike between two of them; `setup_output` is
the next start, which appends to what it finds and counts its size. Headers are
written and not counted, as in `maybePrintStart`; suppressed entries write no
bytes and still check the limit, as in `processBuffer`. A restarted reader is a
new process with new headers.

### LogFilter

The rule list and the global level of `log_format_t`, with the operations on them:
`log_format_new`, `log_add_filter_rule`, `filter_pri_for_tag`,
`log_should_print_line`. It has no specification of its own; `DlogUtilMain`
extends it and says when rules are added. `rules` remembers the rules the
command line gives (`giveRule`): `-s` as `*:s`, and the filterspecs. The `*:d` that `main`
adds when there is no filterspec is not among them, so that `LastRuleWins` can tell
what the user asked for from what `main` decides: with a filterspec the verdict is
that of the last rule given for the tag, or else for `*` (`lastRuleLevel`), with `-s`
like the filterspec `*:s` in front of the others, as the help says. Without a
filterspec it is DEBUG, with or without `-s`, which is not what the help says
(section 5).

### DlogUtilMain

`main`, from the option switch to the call of `read_log_lines`.

| model | code |
|---|---|
| `opts` | the option globals and the locals `is_clear_log`, `getLogSize`, `has_set_log_format` |
| `format` | `g_logformat->format` |
| `devices`, `g_dev_count`, `dev` | the device list (names), its count, the position of the open loop |
| `cleared` | positions whose flush succeeded |
| `node` | external: the permissions of each device file |
| `pc`, `status` | where `main` is, and its exit status |

There is one action per case of the switch (`option_s` ... `option_v`), one for
every way the switch refuses an argument, `endOfOptions` for the default list,
`checkFails` and `setup_output`, the filterspecs one expression at a time, and
the open loop one device at a time with its three failures. `getopt` moves
options in front of the other arguments, so the model takes all options first.
An expression that is refused ends `main` after the ones in front of it took
effect. A later element of the `-b` list may repeat an earlier one.

### LogFormat

One message on its way from `__dlog_print` to the line that is printed: cut by the
buffer of `vsnprintf`, laid out as priority, tag, NUL, message, NUL, cut by the
driver at `LOGGER_ENTRY_MAX_PAYLOAD`, taken apart by `log_process_log_buffer` with
nothing but lengths, and formatted. The text is a sequence of newlines and other
characters; the tag, the prefix and the suffix are widths; the sizes are those of
the source. `sizeBuffer` is the first pass, `copyLine` one turn of the second.
`sizeBufferWrapped` is what happens when the unsigned difference has wrapped
around: nothing is printed, or `malloc` fails and dlogutil exits, or, with
`-v long` and a tag that lost its NUL, memory behind the entry is read
("undefined"). Nothing is claimed of the text in these cases; `LengthsSound` says
they need a tag that alone fills the payload.

### DlogDaemon

The logging service `dlog.sh` starts: one dlogutil without `-d` or `-t` and with `-r`,
`-n` and `-f`. `Reader == INSTANCE DlogReader` and `Output == INSTANCE LogOutput` are used
through their actions: a step of the loop that prints nothing leaves the output
alone (`quietStep`), `readDone` and `readInterrupted` are the two ways a
round of reads ends, `maybePrintStart` writes the header, `printNextEntry` joins
`Emit` or `Drain` with `processBuffer`, and while a rotation runs the loop waits for
it, rename by rename. With `Faults` a signal ends the read that waits at a flushed
device, and the write of a line fails or is partial. As in the code, a failed
write is swallowed: no line, nothing counted, and the entry is dequeued; a
partial write counts as a line. `ReadFails` and `OutputFails` of the reader end the
process and are among the deaths of `Die`. `ring` is what the kernel holds, of which `log` is the unread
end; `content` remembers which entry became which line and which process wrote it,
`interrupted` whether a signal cut the latest round of reads short.
`Die` loses the queues and keeps the rings, or, for a reboot, loses both;
`setup_output` is the next start, which reads from the oldest entry of each ring
and appends to the file.

### The proofs

Each component's theorems are in a module that extends the component's; section 4
says what they show.

| module | about |
|---|---|
| `DlogReaderProofs` | DlogReader: types and timestamp order |
| `DlogReaderEntries` (extends it) | DlogReader: where each entry is, headers, order within a device, `-t` |
| `DlogReaderRefines` (extends that) | DlogReader implements OrderedLog |
| `DlogWriterProofs` | DlogWriter |
| `LogOutputProofs` | LogOutput |
| `DlogUtilMainProofs` | DlogUtilMain and LogFilter |
| `LogFormatProofs` | LogFormat |
| `DlogDaemonProofs` | DlogDaemon, on top of instances of `DlogReaderEntries` and `LogOutputProofs` |

## 3. The runs

All runs of `PROJECT.json` take well under five minutes. `CHECK_DEADLOCK FALSE`
appears everywhere because every system here may stop: writers stop at their
bound (`MaxWrites`, `MaxCalls`, `MaxLines`, `MaxArgs`), a dump exits, a reader without
input sleeps, `main` hands over to the reader, a line is done.

| run | question | bounds and why they are enough |
|---|---|---|
| `reader_order` | does the merge keep timestamp order, the line counter and every entry, whatever happens between the steps | 2 devices, rings of 2, 4 entries, stamps 0..2: enough for a lap, ties, a newer entry read while an older one is missed, and an interrupted round with both queues filled |
| `reader_tail` | `-t 2`: kept lines, one header per device, end of the dump, and order within a device when the clock is set back | rings of 3, 4 entries: a queue of 3 with an insertion in its middle; two entries are dropped, in the emit loop and in the drain loop, so that headers meet skipped and filtered entries; no flush by others |
| `writer_lock` | two threads' first calls with the lock, stale loads, a missing system device, failing opens and failing writes | 2 calls each: a thread initialises, the other one finds it done or uses it half way; the level is WARN, between the priorities used, or negative, which compares as a huge one |
| `writer_nolock` | the same race in the build without the lock, with stale loads, when opens do not fail: is the table complete, and where do messages go | 2 calls each, so that a thread calls again after the other initialised; system and apps are missing, so both fallbacks race too; the level lets invalid ids through to the id check |
| `output_rotation` | order of the files, what is lost and the size of the active file, with failing renames, partial writes and 2 deaths | 2 rotated files, 8 lines, a limit of 2 kilobytes, lines below and above one, 2 headers: the chain fills and laps |
| `main_args` | what every command line leads to | 3 options and expressions, each device absent, existing, readable too or writable too, 2 tags and 5 priority characters: a rule shadowed by another with one for `*`, `-c` with two devices, `-r` with and without `-f` |
| `format_lines` | the two passes of the formatter, and the text that comes out | all texts of up to 5 characters against a message buffer of 5, so that texts are cut; 14 tag lengths around the field width (8), the clamp of prefix and suffix (128) and the payload (4076); `size_t` modulo 2^16, which keeps wrapped lengths apart from real ones |
| `daemon` | the service over rotations, signals, failing and partial writes, a death and a new start: what is lost, the order on disk, and whether every entry leaves the devices and the queues | 2 devices, rings of 2, 3 entries, one rotated file that laps, one death at any point, clears; no entries that the rules hide, which leave the queues like the others and for which `RingAccounted` asks nothing |

Four more runs are expected to fail and document where the code disagrees with
what its documents say (section 5): `reader_dump_clear`, `reader_interrupted`,
`writer_window` and `main_devices`.

Fairness. `reader_tail` and `daemon` assume weak fairness of the reading process as
a whole: the scheduler runs a process that can take a step, and a 5 ms timeout
expires. Nothing is assumed of the writers. The bound on writes makes them
pause in the end, and that matters: a dump whose devices are written every few
milliseconds for ever is never at a quiet 5 ms and does not end. In `daemon` a signal, a death and a new start are possible and not fair:
`EntriesSurface` speaks of a process that stays alive. It names two ways to be
stuck. A reader may wait for ever in the read of a device flushed after select
reported it (`waitsForWrite`): a write or a signal ends that read, and neither has
to come. And if a signal does come while `sleep` is set, the round is abandoned
with `sleep` still set, and the reader waits in a select without timeout over what
the round had queued (`leftAsleep`). Both are real; the run `reader_interrupted` shows
the second as a disagreement. `writer_lock` assumes weak fairness for every thread
inside a call; lock acquisition needs no more, since each thread holds the lock a
bounded number of times.

Every property has a mutant: a slip in the code it is about, defined beside the
definition it replaces and marked "Slip", under which TLC finds the property
violated.

To repeat a run: `tlc -config <run>.cfg <module>`; to repeat the proofs, `tlapm` on
each module of the table at the end of section 2, for instance
`tlapm DlogDaemonProofs.tla`.

## 4. What is proved

Every safety property that a run checks and finds true is also a theorem, and so
are the action property `DispatchSettles` and the refinement `OldestFirst`. The runs
show them on a small instance, the theorems for every value of the constants:
any number of devices, threads, rules, rotated files and deaths, any text, any
bound. The named assumptions on the constants (`DevicesAssumption`,
`WriterAssumption`, `OutputAssumption`, `FormatAssumption`, `DaemonAssumption` and
their like) only give types and exclude zero where the code cannot have it; the
few theorems that assume more say so, and the reason is given below. Each
inductive invariant was checked by TLC on the instance of its run before it was
proved.

### The reader

`DlogReaderProofs`:

* `TypeCorrect`: `Spec => []TypeOK`. The invariant is inductive as it stands. The
  work is in the choices: `enqueue` needs that an insertion point exists
  (`EnqueueType`, by the least index whose entry is younger), `chooseFirst` that
  a first oldest head exists (`ChooseFirst`, by the least timestamp and then
  the least index); both rest on `LeastNatural`.
* `OutputStaysSorted`: `Spec => []OutputSorted`, assuming `~ClockSteps`. This is
  the theorem that matters: the merge is right although the reader sees the
  devices at different moments. `OutputSorted` is not inductive. `MergeInv` adds
  - `InOrder`: queue and unread entries of one device are sorted and follow each
    other, and none is younger than the clock;
  - `Emitted`: everything dequeued is at most as young as anything queued or
    unread;
  - `Window`: what the current round knows of other devices. A device polled and
    found empty holds only entries written since, hence none older than what was
    queued at that moment (`PollWindow`). While the ready devices are read, each
    queue gains one entry at its end, so all but the last entry of each queue
    stay below the unread entries of the devices that were not ready
    (`ReadWindow`). When the reads are done a device with an empty queue was not
    ready, so an entry that is not the last of its queue is safe
    (`EmitWindow`). After a timeout no device was ready and everything queued is
    safe (`DrainWindow`).

  `EmitWindow` is the reason why the code holds back the last entry of a queue,
  and the mutant `mayEmitLast` is what happens otherwise. There is one lemma per
  kind of change (`WriteKeepsOrder`, `ClearKeepsOrder`, `ReadKeepsOrder`,
  `DequeueKeepsOrder`, `OrderUnchanged`), and `MergeInvStep` has one step per
  action.

`DlogReaderEntries`, with the clock set back too:

* `EveryEntryOnce` (`TakenOnce`) and `CounterIsExact` (`QueuedLinesExact`), from
  `PlaceInv`: the numbers of the entries in the devices, the queues and the output
  are distinct and apart (`Apart`), and the counter and the length of the output
  are the cardinalities of the sets of numbers (`Accounted`). The cardinalities
  change by one element per step, so no induction over a queue is needed.
* `OneHeaderPerDevice` (`HeadersLead`), from `Announced`: `printed` is set once an entry
  of the device has been dequeued, and not before.
* `DeviceOrderKept` (`SameDeviceOrder`), from `WriteOrder`: a device holds its entries
  in the order of the writes behind all those already read, and whatever stands
  in front in the queue or has left it overtook only what has a larger timestamp.
  The step that needs it is an insertion in the middle of the queue.
* `TailKeepsTheLast` (`TailExact`), from `TailKept`: before the devices fall quiet
  nothing but skipped entries leaves, and the queues hold at least the lines to
  keep; after it an entry is skipped exactly when more than `-t` follow it.

`DlogReaderRefines`:

* `ReaderImplementsOrderedLog`: `Spec => OldestFirst`, assuming `~ClockSteps`. A write
  is a `Log` that may lose the overwritten entry, `clear_log` a `Lose`, a dequeue an
  `Emit`, everything else a stuttering step; `MergeInv` gives that what is dequeued
  is an oldest of the pool, `Apart` that it leaves the pool.

`~ClockSteps` is the assumption under which a merge by timestamp can be right at
all: with a wall clock that is set back, a later entry carries an older stamp.

### The writer

`DlogWriterProofs`:

* `WriterTypeCorrect` and `MessagesRouted` (`Routed`) hold in every build, with stale
  loads. `DescriptorsBelong` says that a slot, and every value a thread may still
  load from it, opens the device of the slot, or main in the slots of system and
  apps; `IndicesInTable` that an id was checked before it is an index.
* `KernelTableStaysComplete` assumes `HavePthreads \/ ~OpenFaults`: with the lock it
  holds whatever opens fail, and without it, stale loads included, as long as a
  device that opens for one thread opens for all. Without either the code does
  not give it (section 5). There are two arguments. With the lock, `TableInv`: what
  the one thread inside has tested is still so (`Decided`), and an empty slot behind
  the kernel writer has a thread that will still fill it (`Repairing`). Without it,
  `SteadyInv`: a thread that has passed the open of a present device never loads -1
  from its slot again (`PresentOpen`), so every thread's tests at `log.c:114` come out
  alike (`Found`), and the slot of a missing system or apps device that somebody has
  passed is filled or has a thread that will find it empty (`MissingMended`).
* `DevicesOpenedOnce`, `InitCallersAreLogged`, `LevelIsInForce` (`LevelInForce`) and
  `WriterChosenOnce` (the action property `DispatchSettles`) assume `HavePthreads`, the
  build they are about. `LockInv`: under the lock one thread initialises
  (`Exclusive`, `OpenedInOrder`), a thread that has left `__dlog_init` loads the final
  values (`InitLeft`), and so it was judged by the final level (`Judged`).

### The output

`LogOutputProofs`, with deaths, failing renames and partial writes:

* `OutputTypeCorrect`, `ChainStaysOrdered` (`FilesOrdered`), `OnlyFullFilesRotated`
  (`RotatedFull`) and `NoGapOnDisk` (`OnlyOldestLost`) from one invariant, `OutputInv`.
  `Vacated` is the part about a death between two renames: the name a rename moves
  into was vacated by the one before it. `DivisionTest` relates the code's test in
  whole kilobytes to the size.
* `ActiveFileStaysBounded` (`ActiveFileBounded`) assumes `g_max_rotated_logs > 0`: with
  `-n 0` nothing is renamed and the file grows (section 5). `SizeExplained` bounds by
  how much the counter lags behind the file, death by death.

### main and the filter rules

`DlogUtilMainProofs`, for any sequence of options, filterspecs and devices:

* `LastRuleDecides` (`LastRuleWins`) and `StoredLevelsResolved` (`LevelsResolved`) from
  `FilterInv`: while the rules are the given ones, the first entry of the list for a
  tag has the level of the last rule for it (`RulesAgree`); without a filterspec the
  list stays empty and the global level is in the end that of `*:d`. It speaks of the first and the last position by their neighbours, so a
  new rule, which goes to the front of the list, is one step.
* `MainTypeCorrect`, `ReaderStartsConfigured` (`ReaderConfigured`), `HeadersMatchDevices`
  (`HeadersIffSeveral`) and `ClearIsAllOrFail` (`ClearAllOrFail`) from `MainInv`, which
  says what each stage of `main` has established. The first attempt found that the
  type of `g_tail_lines` left out its initial 0; it is now part of `Options`.

### Formatting

`LogFormatProofs`, for every text, tag, format, buffer and range of `size_t`:

* `FormatTypeCorrect` and `LengthsNeverWrap` (`LengthsSound`) from `FormatInv`: when the
  tag fits, the driver keeps at least as much as the lengths promise (`Sent`), and
  the unsigned difference is exact (`Found`).
* `SameLinesTwice` (`LinesMatch`) and `NoOverrun` (`WithinBuffer`) from `PassInv`: the
  lines the first pass counted are the ones shown and those whose ends lie ahead,
  and what is written is a prefix and a suffix per line shown and no more of the
  message than was passed over.
* `EveryLineShown` (`TextShown`), from `Arrived`, which follows the text from the caller
  through both cuts to the message the reader delimits, and `SplitInv`: the second
  pass stands at the beginning of a line, and every line behind it is shown at its
  place. `TextShown` names a line by its beginning, its end and the number of ends up
  to its own; a concatenation of the lines would say less and be a recursion over
  the text.

### The service

`DlogDaemonProofs`, for any number of deaths, at any points:

* `ServiceDrivesOutput`: `Spec => Output!Spec`. The files of the service are those of
  LogOutput, whatever the reader does; so every theorem of `LogOutputProofs` holds of
  them.
* `ServiceTypeCorrect` (`TypeOK`), `RingEntriesAccounted` (`RingAccounted`) and
  `DiskStaysOrdered` (`DiskOrdered`) from `ServiceInv`. The reader takes only steps of
  DlogReader between two deaths (`ReaderSteps`), so `MergeInv` and `Apart` are carried
  over from the instance; a new process starts from rings that are in order
  (`RestartInOrder`), which is what `RingInv` keeps. `UnreadInRing` says that the unread
  part is a suffix of the ring, through laps, flushes and restarts; `SameVerdict`
  that a queued entry and the one in the ring are the same; `RingFound` follows an
  entry from the ring to the queues and from there to the lines or to the failed
  writes; `LinesLinked` and `LinesOrdered`
  take the order of the reader's output over to the lines of its process, and
  `FilesOrdered` of the output takes it over to the files.

### Only model-checked

Liveness: `EntriesSurface`, `DumpExits` and `CallsReturn`, which rest on fairness and are
out of the prover's reach. Nothing else that a passing run checks is without a
theorem. The four runs of section 5 that are expected to fail show a
counterexample and have nothing to prove.

## 5. Where code and documents disagree

Shown by a run:

| run | disagreement |
|---|---|
| `reader_dump_clear` | a flush between select and read blocks `dlogutil -d`; the help at `logutil.c:407` says it does not block |
| `reader_interrupted` | a signal in the read of a flushed device jumps past `sleep = false`, so the next select waits without a timeout over entries queued earlier in the round; the comment at `logutil.c:297` says "print everything we have and wait for more data" |
| `writer_window` | the writer is published before the fallback descriptors are in place, so a message of another thread is lost; the guide (`SLP_Dlog_PG.h:32`) says it is always logged |
| `main_devices` | with system and apps both available the default list loses system, so it is neither read nor cleared by `-c`; comment at `logutil.c:604`, help at `logutil.c:406` |

Visible in the model without a run of their own:

* the emit loop stops at the first device whose oldest entry is its last
  (`mayEmit`), while the comment at `logutil.c:317` says all but the last of each
  list are printed, so the other queues can grow while input keeps coming;
* `-n 0` renames nothing and resets the count (`firstStep`), so the file grows;
  `SLP_Dlog_PG.h:167` says it is rotated, `logutil.c:48` calls 0 unbounded;
* without a filterspec the filter is `*:d` (`noFilterspec`), while the help at
  `logutil.c:425` says `*:I`; and since that rule comes after the one of `-s`, `-s` alone
  has no effect, while the help at `logutil.c:399` says it is like the filterspec `*:s`.
  `LastRuleWins` states both as they are;
* a filterspec of blanks (`blankFilterspec`) keeps the built-in rule away and adds
  none, so nothing is printed;
* the write of a line that fails is swallowed (`logprint.c:576-580`) and the entry
  dequeued (`logutil.c:227-228`): it is lost although the ring still holds it, and
  only a new process reads it again (`failed` in `RingAccounted`);
* the availability check at `logutil.c:600` never asks for `R_OK` (`accessmode`), so a
  device that exists and cannot be read makes a plain `dlogutil` exit
  (`openFails`) although the comment at line 604 wants it left out;
* `log_process_log_buffer` never returns the -1 that its comment at `logprint.c:330`
  promises for an invalid entry; a tag that fills the payload makes the length
  wrap around, and dlogutil exits or prints nothing (`sizeBufferWrapped`), against
  "There is no naming limitation" at `SLP_Dlog_PG.h:50`;
* a message that the driver cut loses one character more than the payload had no
  room for, since the missing NUL is subtracted all the same (`delivered`); an empty
  message prints no line, not even a prefix; with `-v process` and a tag of 123
  characters or more the clamped suffix loses its newline, and with `-v long` the
  header does so from about 90 characters on;
* in the build without the lock and with failing opens `KernelTableComplete` does not
  hold, even without stale loads: a thread passes the test at `log.c:114`, another
  one's open of main fails, which leaves -1 in the slot and publishes the null
  writer, and the first then stores the kernel writer at line 120;
* without `TIZEN_DEBUG_LEVEL` the apps log drops every message the macros send
  (`g_debug_level` starts at `DLOG_SILENT`), against `SLP_Dlog_PG.h:32`;
* a call with `LOG_ID_MAX` meets the level check first and then returns 0, while
  the negative unit test of `__dlog_print` expects an error;
* DEBUG messages are logged in release builds, against `SLP_Dlog_PG.h:28`: only
  the verbose macros depend on `LOG_NDEBUG` (`Requests`).

## 6. What is not modelled, and the plan

Not modelled:

* the text of prefixes, dates and messages (LogFormat has their lengths and
  newlines), ring sizes in bytes and the numbers `-g` prints;
* the help text, and the self test `logprint_run_tests`, a fixed list of
  assertions on the filter rules of which `LastRuleWins` is the general form;
* `log_format_free`, which nothing calls, and the unit tests under `TC/`, which
  exercise single calls; packaging and build files;
* the 32-bit subtraction in `cmp`: stamps are seconds since 1970 in an `int32_t`
  and nanoseconds, and differences of two such non-negative numbers do not
  overflow, so natural numbers are exact until the seconds themselves wrap in
  2038;
* the kernel driver is external and modelled from its use.

The plan, most important first:

1. `DlogReader` with `OrderedLog`, `DlogWriter`, `LogOutput`, `LogFilter`, their runs, and
   `DlogReaderProofs` with type correctness and output order. Done.
2. `DlogUtilMain` on top of `LogFilter`. Done.
3. `LogFormat`, from the caller's text to the printed line. Done.
4. `DlogDaemon`, the composition with rings, files, death and restart. Done. The
   writers' side joins it through `Write` alone: a message that `DlogWriter` lets
   reach a device is one append, whichever thread made it.
5. Proofs of every safety property of the runs, of `DispatchSettles`, and of
   `OldestFirst` as a refinement. Done (section 4).
6. Next: theorems that say more about the composition than its run does. The
   service should be shown to be an OrderedLog between two deaths, which joins
   `ReaderImplementsOrderedLog` with `ReaderSteps`; and an entry that is neither in a
   ring nor written should be shown to have been overwritten, flushed or hidden by
   the rules, the converse of `RingAccounted`. For the writer, the step from
   `KernelTableComplete` to the messages: in a settled process every message above
   the level reaches a device.
