------------------------------ MODULE LogFilter ------------------------------
(***************************************************************************)
(* The filter rules of dlogutil (logprint.c): a global level and a list of *)
(* rules for single tags, filled from filter expressions and asked for     *)
(* every line.  The module owns the state of log_format_t and the          *)
(* operations on it; DlogUtilMain says when main performs them.            *)
(*                                                                         *)
(* A filter expression <tag>[:priority] is abstracted to its tag and the   *)
(* character after the colon, "none" without a colon and "end" when        *)
(* nothing follows it; upper case letters are the lower case ones.         *)
(***************************************************************************)
EXTENDS Integers, Sequences

CONSTANTS
  Tags,         \* tags of rules and of log entries
  Chars         \* priority characters that occur

ASSUME FilterAssumption == Tags \cap {"*", ""} = {}

DLOG_UNKNOWN == 0
DLOG_DEFAULT == 1
DLOG_VERBOSE == 2
DLOG_DEBUG == 3
DLOG_INFO == 4
DLOG_WARN == 5
DLOG_ERROR == 6
DLOG_FATAL == 7
DLOG_SILENT == 8
Priority == DLOG_UNKNOWN .. DLOG_SILENT

Expression == [tag : Tags \cup {"*", ""}, char : Chars \cup {"none"}]
Rule == [tag : Tags, pri : Priority]

VARIABLES
  global_pri,   \* p_format->global_pri
  filters,      \* p_format->filters, the head of the list first
  rules         \* history: the expressions given and accepted so far

filterVars == <<global_pri, filters, rules>>

-----------------------------------------------------------------------------
(* Slip: every digit is taken as it is. *)
filter_char_to_priDigit(c) ==
  CASE c = "i" -> DLOG_INFO
    [] c = "w" -> DLOG_WARN
    [] c = "s" -> DLOG_SILENT
    [] c = "d" -> DLOG_DEBUG
    [] c \in {"*", "1"} -> DLOG_DEFAULT
    [] c = "9" -> 9
    [] OTHER -> DLOG_UNKNOWN

filter_char_to_pri(c) ==
  CASE c \in {"v", "2", "8", "9"} -> DLOG_VERBOSE
    [] c \in {"d", "3"} -> DLOG_DEBUG
    [] c \in {"i", "4"} -> DLOG_INFO
    [] c \in {"w", "5"} -> DLOG_WARN
    [] c \in {"e", "6"} -> DLOG_ERROR
    [] c \in {"f", "7"} -> DLOG_FATAL
    [] c = "s" -> DLOG_SILENT
    [] c \in {"*", "1"} -> DLOG_DEFAULT
    [] OTHER -> DLOG_UNKNOWN

matches(tag) == {i \in DOMAIN filters : filters[i].tag = tag}

(* The first rule of the list for the tag, or the global one. *)
filter_pri_for_tag(tag) ==
  IF matches(tag) = {} THEN global_pri
  ELSE LET first == CHOOSE i \in matches(tag) : \A j \in matches(tag) : i <= j
       IN  IF filters[first].pri = DLOG_DEFAULT THEN global_pri
           ELSE filters[first].pri

log_should_print_line(tag, pri) == pri >= filter_pri_for_tag(tag)

expressionPri(e) ==
  IF e.char = "none" THEN DLOG_DEFAULT ELSE filter_char_to_pri(e.char)

accepted(e) == e.tag # "" /\ expressionPri(e) # DLOG_UNKNOWN

defaulted(pri, default) == IF pri = DLOG_DEFAULT THEN default ELSE pri

(* Slip: a rule goes to the end of the list. *)
addTagRuleLast(e) == Append(filters, [tag |-> e.tag, pri |-> defaulted(expressionPri(e), DLOG_VERBOSE)])

(* Slip: the default level is stored as it is. *)
addTagRuleRaw(e) == <<[tag |-> e.tag, pri |-> expressionPri(e)]>> \o filters

addTagRule(e) ==
  <<[tag |-> e.tag, pri |-> defaulted(expressionPri(e), DLOG_VERBOSE)]>> \o filters

log_add_filter_rule(e) ==
  /\ accepted(e)
  /\ IF e.tag = "*"
       THEN /\ global_pri' = defaulted(expressionPri(e), DLOG_DEBUG)
            /\ UNCHANGED filters
       ELSE /\ filters' = addTagRule(e)
            /\ UNCHANGED global_pri

(* A rule that the command line gives. *)
giveRule(e) == log_add_filter_rule(e) /\ rules' = Append(rules, e)

(* log_format_new: silent until a rule says otherwise. *)
log_format_new == global_pri = DLOG_SILENT /\ filters = <<>> /\ rules = <<>>

-----------------------------------------------------------------------------
(* Types.  Whatever character a rule ends in, the level stored is a       *)
(* log_priority.                                                          *)
FilterTypeOK ==
  /\ global_pri \in Priority
  /\ filters \in Seq(Rule)
  /\ rules \in Seq(Expression \cup {[tag |-> "*", char |-> "s"]})

(* The level the rules given so far ask for, without the list that       *)
(* stores them: the last rule for the tag counts, then the last one for   *)
(* "*"; "*" alone is debug, a tag alone is verbose, and without any rule  *)
(* nothing is printed.                                                    *)
lastFor(tag) ==
  CHOOSE i \in 0 .. Len(rules) :
    /\ i > 0 => rules[i].tag = tag
    /\ \A j \in i + 1 .. Len(rules) : rules[j].tag # tag

ruleLevel(e) ==
  IF e.char \in {"none", "*", "1"}
    THEN IF e.tag = "*" THEN DLOG_DEBUG ELSE DLOG_VERBOSE
    ELSE filter_char_to_pri(e.char)

lastRuleLevel(tag) ==
  IF lastFor(tag) > 0 THEN ruleLevel(rules[lastFor(tag)])
  ELSE IF lastFor("*") > 0 THEN ruleLevel(rules[lastFor("*")])
  ELSE DLOG_SILENT

(* The rules in force have a level that a line can be compared with:      *)
(* neither "default" nor "unknown" is stored, rejected expressions        *)
(* included, so dump_filters and the verdicts never meet them.            *)
LevelsResolved ==
  /\ global_pri >= DLOG_VERBOSE
  /\ \A i \in DOMAIN filters : filters[i].pri >= DLOG_VERBOSE
=============================================================================
