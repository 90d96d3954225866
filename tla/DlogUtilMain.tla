---------------------------- MODULE DlogUtilMain ----------------------------
(***************************************************************************)
(* main of dlogutil (logutil.c), from the option switch to the call of     *)
(* read_log_lines: the options and filterspecs of the command line, the    *)
(* default device list, the output, and the loop that opens the devices    *)
(* and clears or measures them.                                            *)
(*                                                                         *)
(* getopt takes the options from the command line first, wherever they     *)
(* stand, so the model lets them come before the filterspecs.  A number is *)
(* what atoi makes of an argument; -1 stands for one that does not begin   *)
(* with a digit.  /dev/log_<name> is the name.                             *)
(***************************************************************************)
EXTENDS LogFilter, FiniteSets

CONSTANTS
  Names,          \* device names that occur, main, system and apps among them
  Permissions,    \* what a device may allow: subsets of {"F", "R", "W"}
  Numbers,        \* numbers given to -t, -r and -n
  FormatStrings,  \* arguments of -v
  MaxArgs,        \* bound on the options and filter expressions given
  Faults          \* allocations, ioctls and the open of the file may fail

ASSUME MainAssumption ==
  /\ {"main", "system", "apps"} \subseteq Names
  /\ Permissions \subseteq SUBSET {"F", "R", "W"}
  /\ Numbers \subseteq Nat /\ MaxArgs \in Nat /\ Faults \in BOOLEAN

VARIABLES
  node,           \* permissions of each device, {} when it does not exist
  pc,             \* options, check, filters, open, read, or done
  status,         \* how main ended
  opts,           \* the option globals and locals of main
  format,         \* g_logformat->format
  devices,        \* the device list, as names
  g_dev_count,
  dev,            \* position of the open loop in the list
  cleared,        \* positions flushed by -c
  nargs,          \* history: options and filter expressions so far
  nspecs          \* history: filterspec arguments so far

deviceVars == <<devices, g_dev_count, dev, cleared>>
vars == <<node, pc, status, opts, format, deviceVars, nargs, nspecs, filterVars>>

Format == {"off", "brief", "process", "tag", "thread", "raw", "time",
           "threadtime", "long"}
Status == {"running", "0", "-1", "EXIT_FAILURE"}
Argument == Numbers \cup {-1}
Options == [g_nonblock : BOOLEAN, g_tail_lines : Argument \cup {0},
            is_clear_log : BOOLEAN, getLogSize : BOOLEAN, g_output_filename : BOOLEAN,
            g_log_rotate_size_kbytes : Nat, g_max_rotated_logs : Nat,
            has_set_log_format : BOOLEAN]

Init ==
  /\ node \in [Names -> Permissions]
  /\ pc = "options" /\ status = "running"
  /\ opts = [g_nonblock |-> FALSE, g_tail_lines |-> 0, is_clear_log |-> FALSE,
             getLogSize |-> FALSE, g_output_filename |-> FALSE,
             g_log_rotate_size_kbytes |-> 0, g_max_rotated_logs |-> 4,
             has_set_log_format |-> FALSE]
  /\ format = "brief"
  /\ devices = <<>> /\ g_dev_count = 0 /\ dev = 1 /\ cleared = {}
  /\ nargs = 0 /\ nspecs = 0
  /\ log_format_new

ends(s) == pc' = "done" /\ status' = s

-----------------------------------------------------------------------------
(* The option switch: one action per case. *)

argument == nargs < MaxArgs /\ nargs' = nargs + 1
option == pc = "options" /\ argument /\ UNCHANGED <<node, nspecs>>
goesOn == UNCHANGED <<pc, status>>

(* An option that only sets globals. *)
sets(o) ==
  /\ option /\ goesOn
  /\ opts' = o
  /\ UNCHANGED <<format, deviceVars, filterVars>>

option_s ==
  /\ option /\ goesOn
  /\ giveRule([tag |-> "*", char |-> "s"])
  /\ UNCHANGED <<opts, format, deviceVars>>

option_c == sets([opts EXCEPT !.is_clear_log = TRUE])
option_d == sets([opts EXCEPT !.g_nonblock = TRUE])

(* Slip: -t without what it implies. *)
option_tBlocks(n) == sets([opts EXCEPT !.g_tail_lines = n])

option_t(n) == sets([opts EXCEPT !.g_nonblock = TRUE, !.g_tail_lines = n])
option_g == sets([opts EXCEPT !.getLogSize = TRUE])
option_f == sets([opts EXCEPT !.g_output_filename = TRUE])

isdigit(n) == n >= 0
option_r(n) == isdigit(n) /\ sets([opts EXCEPT !.g_log_rotate_size_kbytes = n])
option_n(n) == isdigit(n) /\ sets([opts EXCEPT !.g_max_rotated_logs = n])

(* Slip: only the devices behind the first are counted. *)
option_bCounts(name) ==
  /\ option /\ goesOn
  /\ devices' = Append(devices, name)
  /\ g_dev_count' = IF devices = <<>> THEN g_dev_count ELSE g_dev_count + 1
  /\ UNCHANGED <<opts, format, dev, cleared, filterVars>>

option_b(name) ==
  /\ option /\ goesOn
  /\ devices' = Append(devices, name)
  /\ g_dev_count' = g_dev_count + 1
  /\ UNCHANGED <<opts, format, dev, cleared, filterVars>>

log_format_from_string(s) == IF s \in Format \ {"off"} THEN s ELSE "off"

(* set_log_format leaves the format alone when the string is invalid. *)
set_log_format(s) ==
  /\ log_format_from_string(s) # "off"
  /\ format' = log_format_from_string(s)

option_v(s) ==
  /\ option /\ goesOn
  /\ set_log_format(s)
  /\ opts' = [opts EXCEPT !.has_set_log_format = TRUE]
  /\ UNCHANGED <<deviceVars, filterVars>>

(* An option that is unknown or lacks its argument (-D is accepted by     *)
(* getopt and has no case), a number or a format that is invalid, a       *)
(* malloc of -b that fails.                                               *)
optionRejected ==
  /\ option
  /\ ends("-1")
  /\ UNCHANGED <<opts, format, deviceVars, filterVars>>

(* --test and --help, as the only argument. *)
testOrHelp ==
  /\ pc = "options" /\ nargs = 0
  /\ ends("0")
  /\ UNCHANGED <<node, opts, format, deviceVars, nargs, nspecs, filterVars>>

-----------------------------------------------------------------------------
(* After the options. *)

(* accessmode: the test of O_RDONLY, which is 0, never asks for R_OK. *)
accessmode == IF opts.is_clear_log THEN "W" ELSE "F"
access(name) == accessmode \in node[name]

(* devices->next is assigned for system and assigned again for apps. *)
defaultDevices ==
  <<"main">> \o (IF access("apps") THEN <<"apps">>
                 ELSE IF access("system") THEN <<"system">> ELSE <<>>)

endOfOptions ==
  /\ pc = "options"
  /\ pc' = "check"
  /\ IF devices = <<>>
       THEN /\ devices' = defaultDevices
            /\ g_dev_count' = 1 + Cardinality({n \in {"system", "apps"} : access(n)})
       ELSE UNCHANGED <<devices, g_dev_count>>
  /\ UNCHANGED <<node, status, opts, format, dev, cleared, nargs, nspecs, filterVars>>

rotatesStdout ==
  opts.g_log_rotate_size_kbytes # 0 /\ ~opts.g_output_filename

(* "-r requires -f as well", a malloc of the default list or the open of  *)
(* the output file that fails.                                            *)
checkFails ==
  /\ pc = "check"
  /\ rotatesStdout \/ Faults
  /\ ends("-1")
  /\ UNCHANGED <<node, opts, format, deviceVars, nargs, nspecs, filterVars>>

(* setup_output, then the default format. *)
setup_output ==
  /\ pc = "check" /\ ~rotatesStdout
  /\ pc' = "filters"
  /\ IF opts.has_set_log_format THEN UNCHANGED format ELSE set_log_format("brief")
  /\ UNCHANGED <<node, status, opts, deviceVars, nargs, nspecs, filterVars>>

-----------------------------------------------------------------------------
(* The filterspecs. *)

(* Slip: the built-in rule is added behind filterspecs too. *)
noFilterspecAlways ==
  /\ pc = "filters"
  /\ log_add_filter_rule([tag |-> "*", char |-> "d"])
  /\ pc' = "open"
  /\ UNCHANGED <<node, status, opts, format, deviceVars, nargs, nspecs, rules>>

(* argc == optind: main adds a rule that nobody gave. *)
noFilterspec ==
  /\ pc = "filters" /\ nspecs = 0
  /\ log_add_filter_rule([tag |-> "*", char |-> "d"])
  /\ pc' = "open"
  /\ UNCHANGED <<node, status, opts, format, deviceVars, nargs, nspecs, rules>>

(* One expression of log_add_filter_string; an invalid one ends main,     *)
(* after the ones in front of it took effect.                             *)
filterspec(e) ==
  /\ pc = "filters" /\ argument
  /\ nspecs' = nspecs + 1
  /\ \/ giveRule(e) /\ goesOn
     \/ ~accepted(e) /\ ends("-1") /\ UNCHANGED filterVars
  /\ UNCHANGED <<node, opts, format, deviceVars>>

(* An argument of separators only: no rule, and no built-in one either. *)
blankFilterspec ==
  /\ pc = "filters" /\ argument
  /\ nspecs' = nspecs + 1
  /\ UNCHANGED <<node, pc, status, opts, format, deviceVars, filterVars>>

endOfFilterspecs ==
  /\ pc = "filters" /\ nspecs > 0
  /\ pc' = "open"
  /\ UNCHANGED <<node, status, opts, format, deviceVars, nargs, nspecs, filterVars>>

-----------------------------------------------------------------------------
(* The open loop. *)

mode == IF opts.is_clear_log THEN "W" ELSE "R"
opens(name) == mode \in node[name]

(* open, clear_log with -c, the two size queries with -g: next device. *)
openDevice ==
  /\ pc = "open" /\ dev <= Len(devices)
  /\ opens(devices[dev])
  /\ cleared' = IF opts.is_clear_log THEN cleared \cup {dev} ELSE cleared
  /\ dev' = dev + 1
  /\ UNCHANGED <<node, pc, status, opts, format, devices, g_dev_count, nargs,
                 nspecs, filterVars>>

(* Slip: a device that cannot be opened is passed over. *)
openFailsPasses ==
  /\ pc = "open" /\ dev <= Len(devices)
  /\ ~opens(devices[dev])
  /\ dev' = dev + 1
  /\ UNCHANGED <<node, pc, status, opts, format, devices, g_dev_count, cleared,
                 nargs, nspecs, filterVars>>

openFails ==
  /\ pc = "open" /\ dev <= Len(devices)
  /\ ~opens(devices[dev])
  /\ ends("EXIT_FAILURE")
  /\ UNCHANGED <<node, opts, format, deviceVars, nargs, nspecs, filterVars>>

(* The flush fails, or a size query does, after the flush if both were    *)
(* asked for.                                                             *)
ioctlFails ==
  /\ Faults
  /\ pc = "open" /\ dev <= Len(devices)
  /\ opens(devices[dev])
  /\ \/ opts.is_clear_log /\ UNCHANGED cleared
     \/ /\ opts.getLogSize
        /\ cleared' = IF opts.is_clear_log THEN cleared \cup {dev} ELSE cleared
  /\ ends("EXIT_FAILURE")
  /\ UNCHANGED <<node, opts, format, devices, g_dev_count, dev, nargs, nspecs,
                 filterVars>>

(* -g and -c return 0, anything else reads. *)
devicesOpened ==
  /\ pc = "open" /\ dev > Len(devices)
  /\ IF opts.getLogSize \/ opts.is_clear_log
       THEN ends("0") ELSE pc' = "read" /\ UNCHANGED status
  /\ UNCHANGED <<node, opts, format, deviceVars, nargs, nspecs, filterVars>>

Next ==
  \/ option_s \/ option_c \/ option_d \/ option_g \/ option_f
  \/ \E n \in Argument : option_t(n) \/ option_r(n) \/ option_n(n)
  \/ \E name \in Names : option_b(name)
  \/ \E s \in FormatStrings : option_v(s)
  \/ optionRejected \/ testOrHelp
  \/ endOfOptions \/ checkFails \/ setup_output
  \/ noFilterspec \/ blankFilterspec \/ endOfFilterspecs
  \/ \E e \in Expression : filterspec(e)
  \/ openDevice \/ openFails \/ ioctlFails \/ devicesOpened

Spec == Init /\ [][Next]_vars

-----------------------------------------------------------------------------
(* Types.  Whatever character a rule ends in, the level stored is a       *)
(* log_priority.                                                          *)
TypeOK ==
  /\ node \in [Names -> Permissions]
  /\ pc \in {"options", "check", "filters", "open", "read", "done"}
  /\ status \in Status
  /\ opts \in Options
  /\ format \in Format
  /\ devices \in Seq(Names)
  /\ g_dev_count \in Nat /\ dev \in Nat /\ cleared \subseteq Nat
  /\ nargs \in 0 .. MaxArgs /\ nspecs \in 0 .. MaxArgs
  /\ FilterTypeOK

(* What DlogReader and LogOutput take for granted of the constants they   *)
(* share with main holds when read_log_lines is called: -t implies the    *)
(* exit of -d, there is a device, all of them are open for reading, and a *)
(* rotation has a file to rotate.                                         *)
ReaderConfigured ==
  pc = "read" =>
    /\ opts.g_tail_lines # 0 => opts.g_nonblock
    /\ devices # <<>> /\ dev = Len(devices) + 1
    /\ \A i \in DOMAIN devices : "R" \in node[devices[i]]
    /\ opts.g_log_rotate_size_kbytes > 0 => opts.g_output_filename
    /\ format # "off"

(* Headers separate the devices exactly when several are read, although   *)
(* g_dev_count is counted apart from the list and exceeds its length when *)
(* the default list loses a device.                                       *)
HeadersIffSeveral ==
  pc = "read" => (g_dev_count > 1 <=> Len(devices) > 1)

(* dlogutil -c ends with 0 only after every device of its list was        *)
(* flushed; after a failure the flushed ones are those in front of the    *)
(* one that failed, or that one too; a command line that is refused, or   *)
(* that does not say -c, has flushed nothing.                             *)
ClearAllOrFail ==
  IF opts.is_clear_log
    THEN /\ status = "0" => cleared = DOMAIN devices
         /\ status = "EXIT_FAILURE" => cleared \in {1 .. dev - 1, 1 .. dev}
         /\ status = "-1" => cleared = {}
    ELSE cleared = {}

(* With a filterspec on the command line, the list, its shadowed entries  *)
(* included, and the global level judge a line as the last rule given for *)
(* its tag does, or else the last one for "*", where -s counts as "*:s"   *)
(* in front of the filterspecs.  Without one, main's own "*:d" decides    *)
(* alone, and -s is without effect.                                       *)
LastRuleWins ==
  pc \in {"open", "read"} =>
    \A tag \in Tags, pri \in Priority :
      log_should_print_line(tag, pri) <=>
        pri >= IF nspecs = 0 THEN DLOG_DEBUG ELSE lastRuleLevel(tag)

(* "only add this if it's available" (logutil.c:604): of a dlogutil       *)
(* without options, the system and apps devices that are available are on *)
(* the list.                                                              *)
AvailableListed ==
  (pc = "check" /\ nargs = 0) =>
    \A n \in {"system", "apps"} :
      access(n) => \E i \in DOMAIN devices : devices[i] = n
=============================================================================
