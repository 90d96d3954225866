------------------------- MODULE DlogUtilMainProofs -------------------------
(***************************************************************************)
(* Proofs about main of dlogutil and its filter rules, for any device      *)
(* names and permissions and any number of options and filter expressions  *)
(* in any order: what main hands to the reader, what -c flushes, and which *)
(* rule decides about a line.                                              *)
(***************************************************************************)
EXTENDS DlogUtilMain, FiniteSetTheorems, SequenceTheorems, TLAPS

(* What each stage of main has established: the default list is made when *)
(* the options end, -r without -f is refused before the filterspecs, and  *)
(* -c never reaches the reader.                                           *)
Stages ==
  /\ status = "running" <=> pc # "done"
  /\ nspecs <= nargs
  /\ pc = "options" =>
       /\ g_dev_count = Len(devices)
       /\ nargs = 0 => ~opts.is_clear_log
  /\ pc \in {"check", "filters", "open", "read"} =>
       devices # <<>> /\ (g_dev_count > 1 <=> Len(devices) > 1)
  /\ pc \in {"filters", "open", "read"} => ~rotatesStdout
  /\ pc = "read" => ~opts.is_clear_log

Settings == (opts.g_tail_lines # 0 => opts.g_nonblock) /\ format # "off"

(* The devices in front of the loop variable are open. *)
Opening ==
  /\ pc \in {"options", "check", "filters"} => dev = 1
  /\ pc \in {"open", "read"} =>
       /\ dev \in 1 .. Len(devices) + 1
       /\ \A i \in 1 .. dev - 1 : opens(devices[i])
  /\ pc = "read" => dev = Len(devices) + 1

(* With -c they are flushed too. *)
Clearing ==
  /\ opts.is_clear_log /\ status = "running" => cleared = 1 .. dev - 1
  /\ ClearAllOrFail

(* i is the place of the last rule for the tag, 0 when there is none; k   *)
(* is the place of the first entry of the list for it.                    *)
IsLast(tag, i, r) ==
  /\ i \in 0 .. Len(r)
  /\ i > 0 => r[i].tag = tag
  /\ \A j \in i + 1 .. Len(r) : r[j].tag # tag
IsFirst(tag, k, f) ==
  /\ k \in 1 .. Len(f) /\ f[k].tag = tag
  /\ \A j \in 1 .. k - 1 : f[j].tag # tag

(* The list and the global level answer as the last rules do. *)
TagAgrees(tag, f, r) ==
  \E i \in 0 .. Len(r) :
    /\ IsLast(tag, i, r)
    /\ i = 0 => \A k \in 1 .. Len(f) : f[k].tag # tag
    /\ i > 0 => \E k \in 1 .. Len(f) : IsFirst(tag, k, f) /\ f[k].pri = ruleLevel(r[i])
GlobalAgrees(g, r) ==
  \E i \in 0 .. Len(r) :
    /\ IsLast("*", i, r)
    /\ g = IF i = 0 THEN DLOG_SILENT ELSE ruleLevel(r[i])
RulesAgree ==
  /\ \A tag \in Tags : TagAgrees(tag, filters, rules)
  /\ GlobalAgrees(global_pri, rules)

RuleInv == FilterTypeOK /\ LevelsResolved /\ RulesAgree

(* They do while the rules are those the command line gives; without a    *)
(* filterspec the list stays empty and main's own rule takes over.        *)
BeforeRules == {"options", "check", "filters"}
AfterRules == {"open", "read"}
FilterInv ==
  /\ FilterTypeOK /\ LevelsResolved /\ nspecs \in Nat
  /\ nspecs = 0 => filters = <<>>
  /\ (pc \in BeforeRules \/ (pc \in AfterRules /\ nspecs # 0)) => RulesAgree
  /\ (pc \in AfterRules /\ nspecs = 0) => global_pri = DLOG_DEBUG
MainInv == TypeOK /\ Stages /\ Settings /\ Opening /\ Clearing

-----------------------------------------------------------------------------
(* The filter rules. *)

Given == Expression \cup {[tag |-> "*", char |-> "s"]}

(* Every character gives a log_priority, and only * and 1 the default. *)
LEMMA CharLevel ==
  ASSUME NEW c
  PROVE  /\ filter_char_to_pri(c) \in 0 .. 8
         /\ filter_char_to_pri(c) = 1 <=> c \in {"*", "1"}
<1>1. CASE c \in {"v", "2", "8", "9"}
  <2>1. filter_char_to_pri(c) = 2
    BY <1>1 DEF filter_char_to_pri, DLOG_VERBOSE
  <2> QED
    BY <1>1, <2>1
<1>2. CASE c \in {"d", "3"}
  <2>1. filter_char_to_pri(c) = 3
    BY <1>2 DEF filter_char_to_pri, DLOG_DEBUG
  <2> QED
    BY <1>2, <2>1
<1>3. CASE c \in {"i", "4"}
  <2>1. filter_char_to_pri(c) = 4
    BY <1>3 DEF filter_char_to_pri, DLOG_INFO
  <2> QED
    BY <1>3, <2>1
<1>4. CASE c \in {"w", "5"}
  <2>1. filter_char_to_pri(c) = 5
    BY <1>4 DEF filter_char_to_pri, DLOG_WARN
  <2> QED
    BY <1>4, <2>1
<1>5. CASE c \in {"e", "6"}
  <2>1. filter_char_to_pri(c) = 6
    BY <1>5 DEF filter_char_to_pri, DLOG_ERROR
  <2> QED
    BY <1>5, <2>1
<1>6. CASE c \in {"f", "7"}
  <2>1. filter_char_to_pri(c) = 7
    BY <1>6 DEF filter_char_to_pri, DLOG_FATAL
  <2> QED
    BY <1>6, <2>1
<1>7. CASE c = "s"
  <2>1. filter_char_to_pri(c) = 8
    BY <1>7 DEF filter_char_to_pri, DLOG_SILENT
  <2> QED
    BY <1>7, <2>1
<1>8. CASE c \in {"*", "1"}
  <2>1. filter_char_to_pri(c) = 1
    BY <1>8 DEF filter_char_to_pri, DLOG_DEFAULT
  <2> QED
    BY <1>8, <2>1
<1>9. CASE c \notin {"v", "2", "8", "9", "d", "3", "i", "4", "w", "5", "e", "6", "f", "7",
                     "s", "*", "1"}
  <2>1. filter_char_to_pri(c) = 0
    BY <1>9 DEF filter_char_to_pri, DLOG_UNKNOWN
  <2> QED
    BY <1>9, <2>1
<1> QED
  BY <1>1, <1>2, <1>3, <1>4, <1>5, <1>6, <1>7, <1>8, <1>9

(* An accepted expression stores the level it stands for, which is never  *)
(* "unknown" or "default".                                                *)
LEMMA StoredLevel ==
  ASSUME NEW e, accepted(e)
  PROVE  /\ ruleLevel(e) \in 2 .. 8
         /\ e.tag = "*" => defaulted(expressionPri(e), DLOG_DEBUG) = ruleLevel(e)
         /\ e.tag # "*" => defaulted(expressionPri(e), DLOG_VERBOSE) = ruleLevel(e)
<1>1. expressionPri(e) # 0
  BY DEF accepted, DLOG_UNKNOWN
<1>2. CASE e.char = "none"
  BY <1>2 DEF expressionPri, ruleLevel, defaulted, DLOG_DEFAULT, DLOG_DEBUG, DLOG_VERBOSE
<1>3. CASE e.char # "none" /\ e.char \in {"*", "1"}
  <2>1. expressionPri(e) = 1
    BY <1>3, CharLevel DEF expressionPri
  <2> QED
    BY <1>3, <2>1 DEF ruleLevel, defaulted, DLOG_DEFAULT, DLOG_DEBUG, DLOG_VERBOSE
<1>4. CASE e.char # "none" /\ e.char \notin {"*", "1"}
  <2>1. expressionPri(e) = filter_char_to_pri(e.char) /\ ruleLevel(e) = filter_char_to_pri(e.char)
    BY <1>4 DEF expressionPri, ruleLevel
  <2>2. filter_char_to_pri(e.char) \in 2 .. 8
    BY <1>1, <1>4, <2>1, CharLevel
  <2> QED
    BY <2>1, <2>2 DEF defaulted, DLOG_DEFAULT
<1> QED
  BY <1>2, <1>3, <1>4

(* A rule for another tag leaves the last rule for this one the last; a   *)
(* rule for it becomes the last.                                          *)
LEMMA LastAppended ==
  ASSUME NEW r \in Seq(Given), NEW e \in Given, NEW tag
  PROVE  /\ e.tag = tag => IsLast(tag, Len(r) + 1, Append(r, e))
         /\ Append(r, e)[Len(r) + 1] = e
         /\ \A i \in 0 .. Len(r) :
              /\ e.tag # tag /\ IsLast(tag, i, r) => IsLast(tag, i, Append(r, e))
              /\ i > 0 => Append(r, e)[i] = r[i]
         /\ Len(Append(r, e)) = Len(r) + 1 /\ Len(r) \in Nat
<1> DEFINE a == Append(r, e)
<1>1. /\ Len(r) \in Nat /\ Len(a) = Len(r) + 1 /\ a[Len(r) + 1] = e
      /\ \A i \in 1 .. Len(r) : a[i] = r[i]
  BY AppendProperties, LenProperties
<1> HIDE DEF a
<1>2. e.tag = tag => IsLast(tag, Len(r) + 1, a)
  BY <1>1 DEF IsLast
<1>3. ASSUME NEW i \in 0 .. Len(r), e.tag # tag, IsLast(tag, i, r) PROVE IsLast(tag, i, a)
  <2>1. i \in 0 .. Len(a) /\ (i > 0 => a[i] = r[i] /\ r[i].tag = tag)
    BY <1>1, <1>3 DEF IsLast
  <2>2. \A j \in i + 1 .. Len(a) : (j \in i + 1 .. Len(r) /\ a[j] = r[j]) \/ a[j] = e
    BY <1>1
  <2>3. \A j \in i + 1 .. Len(r) : r[j].tag # tag
    BY <1>3 DEF IsLast
  <2> QED
    BY <1>3, <2>1, <2>2, <2>3 DEF IsLast
<1> QED
  BY <1>1, <1>2, <1>3 DEF a

(* In front of the list goes the first entry for its tag; the others move *)
(* by one.                                                                *)
LEMMA FirstPrepended ==
  ASSUME NEW f \in Seq(Rule), NEW x \in Rule, NEW tag
  PROVE  /\ <<x>> \o f \in Seq(Rule) /\ Len(<<x>> \o f) = Len(f) + 1 /\ Len(f) \in Nat
         /\ (<<x>> \o f)[1] = x
         /\ \A k \in 1 .. Len(f) : (<<x>> \o f)[k + 1] = f[k]
         /\ \A k \in 1 .. Len(f) + 1 : k = 1 \/ (k - 1 \in 1 .. Len(f) /\ (<<x>> \o f)[k] = f[k - 1])
<1> DEFINE one == <<x>>
<1>1. one \in Seq(Rule) /\ Len(one) = 1 /\ one[1] = x
  OBVIOUS
<1> HIDE DEF one
<1>2. /\ one \o f \in Seq(Rule) /\ Len(one \o f) = Len(one) + Len(f)
      /\ \A i \in 1 .. Len(one) + Len(f) :
           (one \o f)[i] = IF i <= Len(one) THEN one[i] ELSE f[i - Len(one)]
  BY <1>1, ConcatProperties
<1>3. Len(f) \in Nat
  BY LenProperties
<1>4. (one \o f)[1] = x
  <2>1. 1 \in 1 .. 1 + Len(f) /\ 1 <= 1
    BY <1>3
  <2> QED
    BY <1>1, <1>2, <2>1
<1>5. \A k \in 1 .. Len(f) : (one \o f)[k + 1] = f[k]
  <2> TAKE k \in 1 .. Len(f)
  <2>1. k + 1 \in 1 .. 1 + Len(f) /\ (k + 1) - 1 = k /\ ~(k + 1 <= 1)
    BY <1>3
  <2> QED
    BY <1>1, <1>2, <2>1
<1>6. \A k \in 1 .. Len(f) + 1 : k = 1 \/ (k - 1 \in 1 .. Len(f) /\ (one \o f)[k] = f[k - 1])
  <2> SUFFICES ASSUME NEW k \in 1 .. Len(f) + 1, k # 1
               PROVE  k - 1 \in 1 .. Len(f) /\ (one \o f)[k] = f[k - 1]
    OBVIOUS
  <2>1. k \in 1 .. 1 + Len(f) /\ k - 1 \in 1 .. Len(f) /\ ~(k <= 1)
    BY <1>3
  <2> QED
    BY <1>1, <1>2, <2>1
<1>7. Len(one \o f) = Len(f) + 1
  BY <1>1, <1>2, <1>3
<1> QED
  BY <1>2, <1>3, <1>4, <1>5, <1>6, <1>7 DEF one

(* A new format has no rule and shows nothing. *)
LEMMA FilterInit ==
  ASSUME log_format_new PROVE RuleInv
<1>1. global_pri = 8 /\ filters = <<>> /\ rules = <<>>
  BY DEF log_format_new, DLOG_SILENT
<1>2. Len(filters) = 0 /\ Len(rules) = 0 /\ DOMAIN filters = {}
  BY <1>1, EmptySeq
<1>3. FilterTypeOK
  BY <1>1 DEF FilterTypeOK, Priority, DLOG_UNKNOWN, DLOG_SILENT
<1>4. LevelsResolved
  BY <1>1, <1>2 DEF LevelsResolved, DLOG_VERBOSE
<1>5. \A tag : IsLast(tag, 0, rules)
  BY <1>2 DEF IsLast
<1>6. 0 \in 0 .. Len(rules)
  BY <1>2
<1>7. RulesAgree
  BY <1>1, <1>2, <1>5, <1>6 DEF RulesAgree, TagAgrees, GlobalAgrees, DLOG_SILENT
<1> QED
  BY <1>3, <1>4, <1>7 DEF RuleInv

(* Adding a rule keeps the types, the levels and the agreement. *)
LEMMA FilterStep ==
  ASSUME RuleInv, NEW e \in Given, giveRule(e)
  PROVE  RuleInv'
<1>0. /\ global_pri \in 0 .. 8 /\ filters \in Seq(Rule) /\ rules \in Seq(Given)
      /\ DOMAIN filters = 1 .. Len(filters)
      /\ global_pri >= 2 /\ \A i \in 1 .. Len(filters) : filters[i].pri >= 2
  <2>1. global_pri \in 0 .. 8 /\ filters \in Seq(Rule) /\ rules \in Seq(Given)
    BY DEF RuleInv, FilterTypeOK, Priority, DLOG_UNKNOWN, DLOG_SILENT, Given
  <2>2. DOMAIN filters = 1 .. Len(filters)
    BY <2>1, LenProperties
  <2> QED
    BY <2>1, <2>2 DEF RuleInv, LevelsResolved, DLOG_VERBOSE
<1>1. accepted(e) /\ rules' = Append(rules, e)
  BY DEF giveRule, log_add_filter_rule
<1>2. ruleLevel(e) \in 2 .. 8
  BY <1>1, StoredLevel
<1>3. rules' \in Seq(Given)
  BY <1>0, <1>1, AppendProperties
<1>4. /\ Len(rules) \in Nat /\ Len(rules') = Len(rules) + 1 /\ rules'[Len(rules) + 1] = e
      /\ \A i \in 1 .. Len(rules) : rules'[i] = rules[i]
  BY <1>0, <1>1, AppendProperties, LenProperties
<1>5. /\ \A tag : e.tag = tag => IsLast(tag, Len(rules) + 1, rules')
      /\ \A tag : \A i \in 0 .. Len(rules) :
           e.tag # tag /\ IsLast(tag, i, rules) => IsLast(tag, i, rules')
  BY <1>0, <1>1, LastAppended
<1>6. \A i \in 0 .. Len(rules) : i \in 0 .. Len(rules')
  BY <1>4
<1>7. CASE e.tag = "*"
  <2>1. global_pri' = ruleLevel(e) /\ filters' = filters
    BY <1>1, <1>7, StoredLevel DEF giveRule, log_add_filter_rule
  <2>2. FilterTypeOK'
    BY <1>0, <1>2, <1>3, <2>1 DEF FilterTypeOK, Priority, DLOG_UNKNOWN, DLOG_SILENT, Given
  <2>3. LevelsResolved'
    BY <1>0, <1>2, <2>1 DEF LevelsResolved, DLOG_VERBOSE
  <2>4. GlobalAgrees(global_pri', rules')
    <3>1. Len(rules) + 1 \in 0 .. Len(rules') /\ Len(rules) + 1 # 0
      BY <1>4
    <3>2. IsLast("*", Len(rules) + 1, rules')
      BY <1>5, <1>7
    <3> QED
      BY <1>4, <2>1, <3>1, <3>2 DEF GlobalAgrees
  <2>5. ASSUME NEW tag \in Tags PROVE TagAgrees(tag, filters', rules')
    <3>1. e.tag # tag
      BY <1>7, FilterAssumption
    <3>2. PICK i \in 0 .. Len(rules) :
            /\ IsLast(tag, i, rules)
            /\ i = 0 => \A k \in 1 .. Len(filters) : filters[k].tag # tag
            /\ i > 0 => \E k \in 1 .. Len(filters) :
                          IsFirst(tag, k, filters) /\ filters[k].pri = ruleLevel(rules[i])
      BY DEF RuleInv, RulesAgree, TagAgrees
    <3>3. IsLast(tag, i, rules') /\ i \in 0 .. Len(rules')
      BY <1>5, <1>6, <3>1, <3>2
    <3>4. i > 0 => rules'[i] = rules[i]
      BY <1>4
    <3> QED
      BY <2>1, <3>2, <3>3, <3>4 DEF TagAgrees
  <2> QED
    BY <2>2, <2>3, <2>4, <2>5 DEF RuleInv, RulesAgree
<1>8. CASE e.tag # "*"
  <2> DEFINE x == [tag |-> e.tag, pri |-> ruleLevel(e)]
             f == <<x>> \o filters
  <2>1. global_pri' = global_pri /\ filters' = f
    BY <1>1, <1>8, StoredLevel DEF giveRule, log_add_filter_rule, addTagRule
  <2>2. e.tag \in Tags
    <3>1. e.tag # ""
      BY <1>1 DEF accepted
    <3>2. e.tag \in Tags \cup {"*", ""}
      <4>1. CASE e \in Expression
        BY <4>1 DEF Expression
      <4>2. CASE e = [tag |-> "*", char |-> "s"]
        BY <4>2
      <4> QED
        BY <4>1, <4>2 DEF Given
    <3> QED
      BY <1>8, <3>1, <3>2
  <2>3. x \in Rule /\ x.tag = e.tag /\ x.pri = ruleLevel(e)
    BY <1>2, <2>2 DEF Rule, Priority, DLOG_UNKNOWN, DLOG_SILENT
  <2> HIDE DEF x
  <2>4. /\ f \in Seq(Rule) /\ Len(f) = Len(filters) + 1 /\ Len(filters) \in Nat /\ f[1] = x
        /\ \A k \in 1 .. Len(filters) : f[k + 1] = filters[k]
        /\ \A k \in 1 .. Len(filters) + 1 :
             k = 1 \/ (k - 1 \in 1 .. Len(filters) /\ f[k] = filters[k - 1])
    BY <1>0, <2>3, FirstPrepended
  <2> HIDE DEF f
  <2>5. FilterTypeOK'
    BY <1>0, <1>3, <2>1, <2>4 DEF FilterTypeOK, Priority, DLOG_UNKNOWN, DLOG_SILENT, Given
  <2>6. LevelsResolved'
    <3>1. DOMAIN f = 1 .. Len(filters) + 1
      BY <2>4, LenProperties
    <3>2. ASSUME NEW k \in 1 .. Len(filters) + 1 PROVE f[k].pri >= 2
      <4>1. f[1].pri >= 2
        BY <1>2, <2>3, <2>4
      <4>2. k = 1 \/ (k - 1 \in 1 .. Len(filters) /\ f[k] = filters[k - 1])
        BY <2>4
      <4> QED
        BY <1>0, <4>1, <4>2
    <3> QED
      BY <1>0, <2>1, <3>1, <3>2 DEF LevelsResolved, DLOG_VERBOSE
  <2>7. GlobalAgrees(global_pri', rules')
    <3>1. PICK i \in 0 .. Len(rules) :
            IsLast("*", i, rules) /\ global_pri = IF i = 0 THEN DLOG_SILENT ELSE ruleLevel(rules[i])
      BY DEF RuleInv, RulesAgree, GlobalAgrees
    <3>2. IsLast("*", i, rules') /\ i \in 0 .. Len(rules')
      BY <1>5, <1>6, <1>8, <3>1
    <3>3. i # 0 => rules'[i] = rules[i]
      BY <1>4
    <3> QED
      BY <2>1, <3>1, <3>2, <3>3 DEF GlobalAgrees
  <2>8. ASSUME NEW tag \in Tags PROVE TagAgrees(tag, filters', rules')
    <3>1. CASE e.tag = tag
      <4> DEFINE i == Len(rules) + 1
      <4>1. i \in 0 .. Len(rules') /\ i # 0 /\ i > 0 /\ IsLast(tag, i, rules') /\ rules'[i] = e
        BY <1>4, <1>5, <3>1
      <4>2. 1 \in 1 .. Len(f) /\ IsFirst(tag, 1, f) /\ f[1].pri = ruleLevel(e)
        BY <2>3, <2>4, <3>1 DEF IsFirst
      <4> HIDE DEF i
      <4> QED
        BY <2>1, <4>1, <4>2 DEF TagAgrees
    <3>2. CASE e.tag # tag
      <4>1. PICK i \in 0 .. Len(rules) :
              /\ IsLast(tag, i, rules)
              /\ i = 0 => \A k \in 1 .. Len(filters) : filters[k].tag # tag
              /\ i > 0 => \E k \in 1 .. Len(filters) :
                            IsFirst(tag, k, filters) /\ filters[k].pri = ruleLevel(rules[i])
        BY DEF RuleInv, RulesAgree, TagAgrees
      <4>2. IsLast(tag, i, rules') /\ i \in 0 .. Len(rules')
        BY <1>5, <1>6, <3>2, <4>1
      <4>3. i = 0 => \A k \in 1 .. Len(f) : f[k].tag # tag
        BY <2>3, <2>4, <3>2, <4>1
      <4>4. ASSUME i > 0
            PROVE  \E k \in 1 .. Len(f) : IsFirst(tag, k, f) /\ f[k].pri = ruleLevel(rules'[i])
        <5>1. PICK k \in 1 .. Len(filters) :
                IsFirst(tag, k, filters) /\ filters[k].pri = ruleLevel(rules[i])
          BY <4>1, <4>4
        <5>2. rules'[i] = rules[i]
          BY <1>4, <4>4
        <5>3. k + 1 \in 1 .. Len(f) /\ f[k + 1] = filters[k]
          BY <2>4
        <5>4. ASSUME NEW j \in 1 .. (k + 1) - 1 PROVE f[j].tag # tag
          <6>1. CASE j = 1
            BY <2>3, <2>4, <3>2, <6>1
          <6>2. CASE j # 1
            <7>1. j \in 1 .. Len(filters) + 1 /\ j - 1 \in 1 .. k - 1
              BY <2>4, <6>2
            <7>2. f[j] = filters[j - 1]
              BY <2>4, <6>2, <7>1
            <7> QED
              BY <5>1, <7>1, <7>2 DEF IsFirst
          <6> QED
            BY <6>1, <6>2
        <5>5. IsFirst(tag, k + 1, f)
          BY <5>1, <5>3, <5>4 DEF IsFirst
        <5> QED
          BY <5>1, <5>2, <5>3, <5>5
      <4> QED
        BY <2>1, <4>2, <4>3, <4>4 DEF TagAgrees
    <3> QED
      BY <3>1, <3>2
  <2> QED
    BY <2>5, <2>6, <2>7, <2>8 DEF RuleInv, RulesAgree
<1> QED
  BY <1>7, <1>8

(* There is one last rule, and lastFor finds it. *)
LEMMA LastFound ==
  ASSUME rules \in Seq(Given), NEW tag, NEW i \in 0 .. Len(rules), IsLast(tag, i, rules)
  PROVE  lastFor(tag) = i
<1>1. Len(rules) \in Nat
  BY LenProperties
<1> DEFINE P(j) == /\ j > 0 => rules[j].tag = tag
                   /\ \A k \in j + 1 .. Len(rules) : rules[k].tag # tag
<1>2. P(i)
  BY DEF IsLast
<1>3. ASSUME NEW j \in 0 .. Len(rules), P(j) PROVE j = i
  <2>1. CASE j < i
    <3>1. i \in j + 1 .. Len(rules) /\ i > 0
      BY <1>1, <2>1
    <3> QED
      BY <1>2, <1>3, <3>1
  <2>2. CASE i < j
    <3>1. j \in i + 1 .. Len(rules) /\ j > 0
      BY <1>1, <2>2
    <3> QED
      BY <1>2, <1>3, <3>1
  <2> QED
    BY <1>1, <2>1, <2>2
<1>4. lastFor(tag) = CHOOSE j \in 0 .. Len(rules) : P(j)
  BY DEF lastFor
<1> HIDE DEF P
<1> QED
  BY <1>2, <1>3, <1>4

(* While the list agrees with the rules, a line is judged by the last one. *)
LEMMA AgreementDecides ==
  ASSUME RuleInv, NEW tag \in Tags
  PROVE  filter_pri_for_tag(tag) = lastRuleLevel(tag)
<1>0. /\ filters \in Seq(Rule) /\ rules \in Seq(Given)
      /\ DOMAIN filters = 1 .. Len(filters) /\ Len(filters) \in Nat
      /\ \A k \in 1 .. Len(filters) : filters[k].pri >= 2
  <2>1. filters \in Seq(Rule) /\ rules \in Seq(Given)
    BY DEF RuleInv, FilterTypeOK, Given
  <2>2. DOMAIN filters = 1 .. Len(filters) /\ Len(filters) \in Nat
    BY <2>1, LenProperties
  <2> QED
    BY <2>1, <2>2 DEF RuleInv, LevelsResolved, DLOG_VERBOSE
<1>1. global_pri = IF lastFor("*") > 0 THEN ruleLevel(rules[lastFor("*")]) ELSE DLOG_SILENT
  <2>1. PICK i \in 0 .. Len(rules) :
          IsLast("*", i, rules) /\ global_pri = IF i = 0 THEN DLOG_SILENT ELSE ruleLevel(rules[i])
    BY DEF RuleInv, RulesAgree, GlobalAgrees
  <2>2. lastFor("*") = i
    BY <1>0, <2>1, LastFound
  <2>3. Len(rules) \in Nat
    BY <1>0, LenProperties
  <2>4. i > 0 <=> i # 0
    BY <2>3
  <2> QED
    BY <2>1, <2>2, <2>4
<1>2. filter_pri_for_tag(tag) = lastRuleLevel(tag)
  <2>1. PICK i \in 0 .. Len(rules) :
          /\ IsLast(tag, i, rules)
          /\ i = 0 => \A k \in 1 .. Len(filters) : filters[k].tag # tag
          /\ i > 0 => \E k \in 1 .. Len(filters) :
                        IsFirst(tag, k, filters) /\ filters[k].pri = ruleLevel(rules[i])
    BY DEF RuleInv, RulesAgree, TagAgrees
  <2>2. lastFor(tag) = i
    BY <1>0, <2>1, LastFound
  <2>3. CASE i = 0
    <3>1. matches(tag) = {}
      BY <1>0, <2>1, <2>3 DEF matches
    <3> QED
      BY <1>1, <2>2, <2>3, <3>1 DEF filter_pri_for_tag, lastRuleLevel
  <2>4. CASE i > 0
    <3>1. PICK k \in 1 .. Len(filters) :
            IsFirst(tag, k, filters) /\ filters[k].pri = ruleLevel(rules[i])
      BY <2>1, <2>4
    <3>2. k \in matches(tag)
      BY <1>0, <3>1 DEF matches, IsFirst
    <3>3. \A j \in matches(tag) : k <= j
      BY <1>0, <3>1 DEF matches, IsFirst
    <3>4. matches(tag) \subseteq Int
      BY <1>0 DEF matches
    <3>5. (CHOOSE m \in matches(tag) : \A j \in matches(tag) : m <= j) = k
      BY <3>2, <3>3, <3>4
    <3>6. filters[k].pri # DLOG_DEFAULT
      BY <1>0 DEF DLOG_DEFAULT
    <3>7. filter_pri_for_tag(tag) = filters[k].pri
      BY <3>2, <3>5, <3>6 DEF filter_pri_for_tag
    <3> QED
      BY <2>2, <2>4, <3>1, <3>7 DEF lastRuleLevel
  <2>5. i = 0 \/ i > 0
    <3>1. Len(rules) \in Nat
      BY <1>0, LenProperties
    <3> QED
      BY <3>1
  <2> QED
    BY <2>3, <2>4, <2>5
<1> QED
  BY <1>2

(* A step that leaves the rules alone and stays on its side of the        *)
(* filterspecs, or ends main, keeps what they say.                        *)
LEMMA FilterKept ==
  ASSUME FilterInv, UNCHANGED <<filterVars, nspecs>>,
         \/ pc' = pc \/ pc' = "done"
         \/ pc \in BeforeRules /\ pc' \in BeforeRules
         \/ pc \in AfterRules /\ pc' \in AfterRules
  PROVE  FilterInv'
<1>1. UNCHANGED <<global_pri, filters, rules, nspecs>>
  BY DEF filterVars
<1>2. (FilterTypeOK /\ LevelsResolved)' /\ (RulesAgree => RulesAgree')
  BY <1>1 DEF FilterInv, FilterTypeOK, LevelsResolved, RulesAgree
<1> QED
  BY <1>1, <1>2 DEF FilterInv, BeforeRules, AfterRules

(* A rule that is given is the last one; main's own replaces -s, and only *)
(* where no filterspec was given.                                         *)
LEMMA FilterNext ==
  ASSUME FilterInv, [Next]_vars
  PROVE  FilterInv'
<1>1. ASSUME NEW e \in Given, giveRule(e), pc \in BeforeRules, pc' = pc,
             nspecs' \in Nat, nspecs' = 0 => nspecs = 0 /\ e.tag = "*"
      PROVE  FilterInv'
  <2>1. RuleInv'
    BY <1>1, FilterStep DEF FilterInv, RuleInv
  <2>2. nspecs' = 0 => filters' = <<>>
    BY <1>1 DEF giveRule, log_add_filter_rule, FilterInv
  <2> QED
    BY <1>1, <2>1, <2>2 DEF FilterInv, RuleInv, BeforeRules, AfterRules
<1>2. nspecs \in Nat
  BY DEF FilterInv
<1>3. CASE option_s
  <2>1. [tag |-> "*", char |-> "s"] \in Given
    BY DEF Given
  <2>2. /\ giveRule([tag |-> "*", char |-> "s"]) /\ pc = "options" /\ pc' = pc
        /\ nspecs' = nspecs
    BY <1>3 DEF option_s, option, goesOn
  <2> QED
    BY <1>1, <1>2, <2>1, <2>2 DEF BeforeRules
<1>4. CASE noFilterspec
  <2>1. /\ global_pri' = DLOG_DEBUG /\ UNCHANGED <<filters, rules, nspecs>>
        /\ nspecs = 0 /\ pc' = "open"
    BY <1>4 DEF noFilterspec, log_add_filter_rule, accepted, expressionPri, defaulted,
                filter_char_to_pri, DLOG_DEBUG, DLOG_DEFAULT, DLOG_UNKNOWN
  <2>2. FilterTypeOK' /\ LevelsResolved'
    BY <2>1 DEF FilterInv, FilterTypeOK, LevelsResolved, Priority, DLOG_UNKNOWN, DLOG_DEBUG,
                DLOG_VERBOSE, DLOG_SILENT
  <2> QED
    BY <2>1, <2>2 DEF FilterInv, BeforeRules, AfterRules
<1>5. ASSUME NEW e \in Expression, filterspec(e) PROVE FilterInv'
  <2>1. pc = "filters" /\ nspecs' = nspecs + 1 /\ nspecs' \in Nat /\ nspecs' # 0
    BY <1>2, <1>5 DEF filterspec
  <2>2. CASE giveRule(e) /\ goesOn
    BY <1>1, <2>1, <2>2 DEF Given, goesOn, BeforeRules
  <2>3. CASE ends("-1") /\ UNCHANGED filterVars
    <3>1. (FilterTypeOK /\ LevelsResolved)'
      BY <2>3 DEF FilterInv, FilterTypeOK, LevelsResolved, filterVars
    <3> QED
      BY <2>1, <2>3, <3>1 DEF ends, FilterInv, BeforeRules, AfterRules
  <2> QED
    BY <1>5, <2>2, <2>3 DEF filterspec
<1>6. CASE \/ option_c \/ option_d \/ option_g \/ option_f
           \/ \E n \in Argument : option_t(n) \/ option_r(n) \/ option_n(n)
           \/ \E name \in Names : option_b(name)
           \/ \E s \in FormatStrings : option_v(s)
  <2>1. pc' = pc /\ UNCHANGED <<filterVars, nspecs>>
    BY <1>6 DEF option_c, option_d, option_g, option_f, option_t, option_r, option_n, sets,
                option_b, option_v, option, goesOn
  <2> QED
    BY <2>1, FilterKept
<1>7. CASE optionRejected \/ testOrHelp \/ checkFails \/ openFails \/ ioctlFails
  <2>1. pc' = "done" /\ UNCHANGED <<filterVars, nspecs>>
    BY <1>7 DEF optionRejected, testOrHelp, checkFails, openFails, ioctlFails, ends, option
  <2> QED
    BY <2>1, FilterKept
<1>8. CASE endOfOptions \/ setup_output \/ openDevice \/ devicesOpened
  <2>1. /\ UNCHANGED <<filterVars, nspecs>>
        /\ \/ pc' = pc \/ pc' = "done"
           \/ pc \in BeforeRules /\ pc' \in BeforeRules
           \/ pc \in AfterRules /\ pc' \in AfterRules
    BY <1>8 DEF endOfOptions, setup_output, openDevice, devicesOpened, ends, BeforeRules,
                AfterRules
  <2> QED
    BY <2>1, FilterKept
<1>9. CASE blankFilterspec \/ endOfFilterspecs
  <2>1. /\ UNCHANGED filterVars /\ pc = "filters" /\ nspecs' \in Nat /\ nspecs' # 0
        /\ pc' \in {"filters", "open"}
    BY <1>2, <1>9 DEF blankFilterspec, endOfFilterspecs
  <2>2. (FilterTypeOK /\ LevelsResolved /\ RulesAgree)'
    BY <2>1 DEF FilterInv, FilterTypeOK, LevelsResolved, RulesAgree, filterVars, BeforeRules
  <2> QED
    BY <2>1, <2>2 DEF FilterInv, BeforeRules, AfterRules
<1>10. CASE UNCHANGED vars
  BY <1>10, FilterKept DEF vars
<1> QED
  BY <1>3, <1>4, <1>5, <1>6, <1>7, <1>8, <1>9, <1>10 DEF Next

(* main starts with no rule and no filterspec. *)
LEMMA FilterStart == Init => FilterInv
  BY FilterInit DEF Init, FilterInv, RuleInv, AfterRules, log_format_new

(* The table of rules is what the rules say, in every state. *)
LEMMA FilterInvariant == Spec => []FilterInv
  BY FilterStart, FilterNext, PTL DEF Spec

(* Whatever rules the command line gives and in whatever order, with a    *)
(* filterspec among them a line of a tag is judged by the last rule given *)
(* for that tag, or the last one for "*", or not shown: new rules go to   *)
(* the front of the list and filter_pri_for_tag stops at the first.       *)
(* Without a filterspec a line is shown from DEBUG on, -s or not.         *)
THEOREM LastRuleDecides == Spec => []LastRuleWins
<1>1. ASSUME FilterInv PROVE LastRuleWins
  <2> SUFFICES ASSUME pc \in AfterRules, NEW tag \in Tags
               PROVE  filter_pri_for_tag(tag) = IF nspecs = 0 THEN DLOG_DEBUG ELSE lastRuleLevel(tag)
    BY DEF LastRuleWins, log_should_print_line, AfterRules
  <2>1. CASE nspecs = 0
    <3>1. matches(tag) = {}
      BY <1>1, <2>1, EmptySeq DEF FilterInv, matches
    <3> QED
      BY <1>1, <2>1, <3>1 DEF filter_pri_for_tag, FilterInv
  <2>2. CASE nspecs # 0
    BY <1>1, <2>2, AgreementDecides DEF FilterInv, RuleInv
  <2> QED
    BY <2>1, <2>2
<1> QED
  BY <1>1, FilterInvariant, PTL

(* No filter expression leaves a level behind that is no level:           *)
(* filter_pri_for_tag and dump_filters meet neither default nor unknown.  *)
THEOREM StoredLevelsResolved == Spec => []LevelsResolved
<1>1. FilterInv => LevelsResolved
  BY DEF FilterInv
<1> QED
  BY <1>1, FilterInvariant, PTL

-----------------------------------------------------------------------------
(* What main hands to the reader. *)

(* An option was taken: still in the option switch, with sound settings. *)
optionTaken ==
  /\ pc = "options" /\ UNCHANGED <<node, pc, status, dev, cleared, nspecs>>
  /\ nargs < MaxArgs /\ nargs' = nargs + 1
  /\ opts' \in Options /\ (opts'.g_tail_lines # 0 => opts'.g_nonblock)
  /\ format' \in Format \ {"off"}
  /\ devices' \in Seq(Names) /\ g_dev_count' = Len(devices')

(* main ended, with its settings as they were. *)
ended ==
  /\ pc # "done" /\ pc' = "done" /\ status' \in {"0", "-1", "EXIT_FAILURE"}
  /\ UNCHANGED <<node, opts, format, devices, g_dev_count, dev>>
  /\ nargs' \in 0 .. MaxArgs /\ nspecs' \in 0 .. MaxArgs /\ nspecs' <= nargs'

(* The options, one by one. *)
LEMMA OptionsTaken ==
  ASSUME TypeOK, Stages, Settings,
         \/ option_s \/ option_c \/ option_d \/ option_g \/ option_f
         \/ \E n \in Argument : option_t(n) \/ option_r(n) \/ option_n(n)
         \/ \E name \in Names : option_b(name)
         \/ \E s \in FormatStrings : option_v(s)
  PROVE  optionTaken
<1>0. /\ opts \in Options /\ (opts.g_tail_lines # 0 => opts.g_nonblock)
      /\ format \in Format \ {"off"} /\ devices \in Seq(Names)
      /\ pc = "options" => g_dev_count = Len(devices)
  BY DEF TypeOK, Stages, Settings
<1>1. ASSUME NEW o \in Options, o.g_tail_lines # 0 => o.g_nonblock, sets(o)
      PROVE  optionTaken
  <2>1. /\ pc = "options" /\ UNCHANGED <<node, pc, status, dev, cleared, nspecs>>
        /\ nargs < MaxArgs /\ nargs' = nargs + 1
        /\ opts' = o /\ UNCHANGED <<format, devices, g_dev_count>>
    BY <1>1 DEF sets, option, argument, goesOn, deviceVars
  <2> QED
    BY <1>0, <1>1, <2>1 DEF optionTaken
<1>2. CASE option_s
  <2>1. /\ pc = "options" /\ UNCHANGED <<node, pc, status, dev, cleared, nspecs>>
        /\ nargs < MaxArgs /\ nargs' = nargs + 1
        /\ UNCHANGED <<opts, format, devices, g_dev_count>>
    BY <1>2 DEF option_s, option, argument, goesOn, deviceVars
  <2> QED
    BY <1>0, <2>1 DEF optionTaken
<1>3. CASE option_c
  <2> DEFINE o == [opts EXCEPT !.is_clear_log = TRUE]
  <2>1. o \in Options /\ o.g_tail_lines = opts.g_tail_lines /\ o.g_nonblock = opts.g_nonblock
    BY <1>0 DEF Options
  <2>2. sets(o)
    BY <1>3 DEF option_c
  <2> HIDE DEF o
  <2> QED
    BY <1>0, <1>1, <2>1, <2>2
<1>4. CASE option_d
  <2> DEFINE o == [opts EXCEPT !.g_nonblock = TRUE]
  <2>1. o \in Options /\ o.g_nonblock = TRUE
    BY <1>0 DEF Options
  <2>2. sets(o)
    BY <1>4 DEF option_d
  <2> HIDE DEF o
  <2> QED
    BY <1>0, <1>1, <2>1, <2>2
<1>5. CASE option_g
  <2> DEFINE o == [opts EXCEPT !.getLogSize = TRUE]
  <2>1. o \in Options /\ o.g_tail_lines = opts.g_tail_lines /\ o.g_nonblock = opts.g_nonblock
    BY <1>0 DEF Options
  <2>2. sets(o)
    BY <1>5 DEF option_g
  <2> HIDE DEF o
  <2> QED
    BY <1>0, <1>1, <2>1, <2>2
<1>6. CASE option_f
  <2> DEFINE o == [opts EXCEPT !.g_output_filename = TRUE]
  <2>1. o \in Options /\ o.g_tail_lines = opts.g_tail_lines /\ o.g_nonblock = opts.g_nonblock
    BY <1>0 DEF Options
  <2>2. sets(o)
    BY <1>6 DEF option_f
  <2> HIDE DEF o
  <2> QED
    BY <1>0, <1>1, <2>1, <2>2
<1>7. ASSUME NEW n \in Argument, option_t(n) PROVE optionTaken
  <2> DEFINE o == [opts EXCEPT !.g_nonblock = TRUE, !.g_tail_lines = n]
  <2>1. o \in Options /\ o.g_nonblock = TRUE
    BY <1>0 DEF Options
  <2>2. sets(o)
    BY <1>7 DEF option_t
  <2> HIDE DEF o
  <2> QED
    BY <1>0, <1>1, <2>1, <2>2
<1>8. ASSUME NEW n \in Argument, option_r(n) PROVE optionTaken
  <2> DEFINE o == [opts EXCEPT !.g_log_rotate_size_kbytes = n]
  <2>0. n \in Nat
    BY <1>8, MainAssumption DEF Argument, option_r, isdigit
  <2>1. o \in Options /\ o.g_tail_lines = opts.g_tail_lines /\ o.g_nonblock = opts.g_nonblock
    BY <1>0, <2>0 DEF Options
  <2>2. sets(o)
    BY <1>8 DEF option_r
  <2> HIDE DEF o
  <2> QED
    BY <1>0, <1>1, <2>1, <2>2
<1>9. ASSUME NEW n \in Argument, option_n(n) PROVE optionTaken
  <2> DEFINE o == [opts EXCEPT !.g_max_rotated_logs = n]
  <2>0. n \in Nat
    BY <1>9, MainAssumption DEF Argument, option_n, isdigit
  <2>1. o \in Options /\ o.g_tail_lines = opts.g_tail_lines /\ o.g_nonblock = opts.g_nonblock
    BY <1>0, <2>0 DEF Options
  <2>2. sets(o)
    BY <1>9 DEF option_n
  <2> HIDE DEF o
  <2> QED
    BY <1>0, <1>1, <2>1, <2>2
<1>10. ASSUME NEW name \in Names, option_b(name) PROVE optionTaken
  <2>1. /\ pc = "options" /\ UNCHANGED <<node, pc, status, dev, cleared, nspecs>>
        /\ nargs < MaxArgs /\ nargs' = nargs + 1
        /\ UNCHANGED <<opts, format>>
        /\ devices' = Append(devices, name) /\ g_dev_count' = g_dev_count + 1
    BY <1>10 DEF option_b, option, argument, goesOn
  <2>2. devices' \in Seq(Names) /\ Len(devices') = Len(devices) + 1
    BY <1>0, <2>1, AppendProperties
  <2> QED
    BY <1>0, <2>1, <2>2 DEF optionTaken
<1>11. ASSUME NEW s \in FormatStrings, option_v(s) PROVE optionTaken
  <2> DEFINE o == [opts EXCEPT !.has_set_log_format = TRUE]
  <2>1. o \in Options /\ o.g_tail_lines = opts.g_tail_lines /\ o.g_nonblock = opts.g_nonblock
    BY <1>0 DEF Options
  <2> HIDE DEF o
  <2>2. /\ pc = "options" /\ UNCHANGED <<node, pc, status, dev, cleared, nspecs>>
        /\ nargs < MaxArgs /\ nargs' = nargs + 1
        /\ opts' = o /\ UNCHANGED <<devices, g_dev_count>>
    BY <1>11 DEF option_v, option, argument, goesOn, deviceVars, o
  <2>3. format' \in Format \ {"off"}
    BY <1>11 DEF option_v, set_log_format, log_format_from_string
  <2> QED
    BY <1>0, <2>1, <2>2, <2>3 DEF optionTaken
<1> QED
  BY <1>2, <1>3, <1>4, <1>5, <1>6, <1>7, <1>8, <1>9, <1>10, <1>11

(* The default list has a second device exactly when the count says so. *)
LEMMA DefaultList ==
  ASSUME TypeOK
  PROVE  LET n == 1 + Cardinality({x \in {"system", "apps"} : access(x)})
         IN  /\ n \in Nat /\ defaultDevices \in Seq(Names) /\ defaultDevices # <<>>
             /\ n > 1 <=> Len(defaultDevices) > 1
<1> DEFINE A == {x \in {"system", "apps"} : access(x)}
           two == IF access("apps") THEN <<"apps">>
                  ELSE IF access("system") THEN <<"system">> ELSE <<>>
           one == <<"main">>
<1>1. IsFiniteSet(A)
  <2>1. IsFiniteSet({"system"}) /\ IsFiniteSet({"apps"})
    BY FS_Singleton
  <2>2. IsFiniteSet({"system"} \cup {"apps"})
    BY <2>1, FS_Union
  <2>3. A \subseteq {"system"} \cup {"apps"}
    OBVIOUS
  <2> QED
    BY <2>2, <2>3, FS_Subset
<1>2. Cardinality(A) \in Nat /\ (Cardinality(A) = 0 <=> A = {})
  BY <1>1, FS_CardinalityType, FS_EmptySet
<1>3. A = {} <=> ~access("apps") /\ ~access("system")
  OBVIOUS
<1>4. one \in Seq(Names) /\ Len(one) = 1
  BY MainAssumption
<1>5. /\ two \in Seq(Names)
      /\ A = {} => Len(two) = 0
      /\ A # {} => Len(two) = 1
  BY <1>3, MainAssumption
<1>6. defaultDevices = one \o two
  BY DEF defaultDevices
<1> HIDE DEF A, one, two
<1>7. one \o two \in Seq(Names) /\ Len(one \o two) = 1 + Len(two)
  BY <1>4, <1>5, ConcatProperties
<1>8. one \o two # <<>>
  BY <1>4, <1>5, <1>7, EmptySeq
<1>9. 1 + Cardinality(A) > 1 <=> A # {}
  BY <1>2
<1>10. Len(one \o two) > 1 <=> A # {}
  BY <1>5, <1>7
<1>11. /\ 1 + Cardinality(A) \in Nat
       /\ defaultDevices \in Seq(Names) /\ defaultDevices # <<>>
       /\ 1 + Cardinality(A) > 1 <=> Len(defaultDevices) > 1
  BY <1>2, <1>6, <1>7, <1>8, <1>9, <1>10
<1> QED
  BY <1>11 DEF A

(* No option is set and no device listed at the start. *)
LEMMA MainInit ==
  ASSUME Init PROVE MainInv
<1>1. /\ node \in [Names -> Permissions] /\ pc = "options" /\ status = "running"
      /\ format = "brief" /\ devices = <<>> /\ g_dev_count = 0 /\ dev = 1 /\ cleared = {}
      /\ nargs = 0 /\ nspecs = 0
      /\ opts = [g_nonblock |-> FALSE, g_tail_lines |-> 0, is_clear_log |-> FALSE,
                 getLogSize |-> FALSE, g_output_filename |-> FALSE,
                 g_log_rotate_size_kbytes |-> 0, g_max_rotated_logs |-> 4,
                 has_set_log_format |-> FALSE]
  BY DEF Init
<1>2. devices \in Seq(Names) /\ Len(devices) = 0
  BY <1>1, EmptySeq
<1>3. opts.g_tail_lines = 0 /\ ~opts.is_clear_log
  BY <1>1
<1>4. opts \in Options
  BY <1>1 DEF Options
<1>5. FilterTypeOK
  BY FilterInit DEF Init, RuleInv
<1>6. TypeOK
  BY <1>1, <1>2, <1>4, <1>5, MainAssumption DEF TypeOK, Format, Status
<1>7. Stages
  BY <1>1, <1>2, <1>3 DEF Stages
<1>8. Settings
  BY <1>1, <1>3 DEF Settings
<1>9. Opening
  BY <1>1 DEF Opening
<1>10. Clearing
  BY <1>1, <1>3 DEF Clearing, ClearAllOrFail
<1> QED
  BY <1>6, <1>7, <1>8, <1>9, <1>10 DEF MainInv

(* An option keeps the invariant: nothing was opened or flushed yet. *)
LEMMA OptionKeeps ==
  ASSUME MainInv, optionTaken, FilterTypeOK'
  PROVE  MainInv'
<1>1. /\ pc = "options" /\ UNCHANGED <<node, pc, status, dev, cleared, nspecs>>
      /\ nargs < MaxArgs /\ nargs' = nargs + 1
      /\ opts' \in Options /\ (opts'.g_tail_lines # 0 => opts'.g_nonblock)
      /\ format' \in Format \ {"off"}
      /\ devices' \in Seq(Names) /\ g_dev_count' = Len(devices')
  BY DEF optionTaken
<1>2. TypeOK /\ status = "running" /\ dev = 1
  BY <1>1 DEF MainInv, Stages, Opening
<1>3. cleared = {}
  <2>1. CASE opts.is_clear_log
    <3>1. cleared = 1 .. dev - 1
      BY <1>2, <2>1 DEF MainInv, Clearing
    <3> QED
      BY <1>2, <3>1
  <2>2. CASE ~opts.is_clear_log
    BY <2>2 DEF MainInv, Clearing, ClearAllOrFail
  <2> QED
    BY <2>1, <2>2
<1>4. nargs' \in 0 .. MaxArgs /\ nargs' # 0 /\ nspecs' <= nargs'
  BY <1>1, <1>2, MainAssumption DEF TypeOK, MainInv, Stages
<1>5. Len(devices') \in Nat
  BY <1>1, LenProperties
<1>6. TypeOK'
  BY <1>1, <1>2, <1>4, <1>5 DEF TypeOK
<1>7. Stages'
  BY <1>1, <1>2, <1>4 DEF Stages
<1>8. Settings'
  BY <1>1 DEF Settings
<1>9. Opening'
  BY <1>1, <1>2 DEF Opening
<1>10. Clearing'
  <2>1. cleared' = {} /\ dev' = 1 /\ status' = "running" /\ 1 .. dev' - 1 = {}
    BY <1>1, <1>2, <1>3
  <2> QED
    BY <2>1 DEF Clearing, ClearAllOrFail
<1> QED
  BY <1>6, <1>7, <1>8, <1>9, <1>10 DEF MainInv

(* Ending main keeps it, if what is flushed fits the status. *)
LEMMA EndKeeps ==
  ASSUME MainInv, ended, FilterTypeOK', cleared' \subseteq Nat, ClearAllOrFail'
  PROVE  MainInv'
<1>1. /\ pc' = "done" /\ status' \in {"0", "-1", "EXIT_FAILURE"}
      /\ UNCHANGED <<node, opts, format, devices, g_dev_count, dev>>
      /\ nargs' \in 0 .. MaxArgs /\ nspecs' \in 0 .. MaxArgs /\ nspecs' <= nargs'
  BY DEF ended
<1>2. TypeOK'
  BY <1>1 DEF MainInv, TypeOK, Status
<1>3. Stages'
  BY <1>1 DEF Stages
<1>4. Settings'
  BY <1>1 DEF MainInv, Settings
<1>5. Opening'
  BY <1>1 DEF Opening
<1>6. Clearing'
  BY <1>1 DEF Clearing
<1> QED
  BY <1>2, <1>3, <1>4, <1>5, <1>6 DEF MainInv

(* What is flushed before the open loop: nothing. *)
LEMMA NothingFlushed ==
  ASSUME MainInv, pc \in {"options", "check", "filters"}
  PROVE  cleared = {} /\ dev = 1 /\ status = "running"
<1>1. status = "running" /\ dev = 1
  BY DEF MainInv, Stages, Opening
<1>2. CASE opts.is_clear_log
  <2>1. cleared = 1 .. dev - 1
    BY <1>1, <1>2 DEF MainInv, Clearing
  <2> QED
    BY <1>1, <2>1
<1>3. CASE ~opts.is_clear_log
  BY <1>1, <1>3 DEF MainInv, Clearing, ClearAllOrFail
<1> QED
  BY <1>1, <1>2, <1>3

(* A command line that is refused ends main before anything is flushed. *)
LEMMA RefusalKeeps ==
  ASSUME MainInv, ended, FilterTypeOK', pc \in {"options", "check", "filters"},
         status' = "-1" \/ (status' = "0" /\ ~opts.is_clear_log), cleared' = cleared
  PROVE  MainInv'
<1>1. cleared' = {} /\ opts' = opts
  BY NothingFlushed DEF ended
<1>2. ClearAllOrFail'
  BY <1>1 DEF ClearAllOrFail
<1> QED
  BY <1>1, <1>2, EndKeeps

(* The steps of main keep it. *)
LEMMA MainStep ==
  ASSUME MainInv, [Next]_vars, FilterTypeOK'
  PROVE  MainInv'
<1>0. /\ TypeOK /\ Stages /\ Settings /\ Opening /\ Clearing
      /\ opts \in Options /\ devices \in Seq(Names) /\ Len(devices) \in Nat
      /\ nargs \in 0 .. MaxArgs /\ nspecs \in 0 .. MaxArgs /\ MaxArgs \in Nat
      /\ dev \in Nat /\ nspecs <= nargs
  BY MainAssumption, LenProperties DEF MainInv, TypeOK, Stages
<1>1. CASE UNCHANGED vars
  <2>1. UNCHANGED <<node, pc, status, opts, format, devices, g_dev_count, dev, cleared, nargs,
                    nspecs>>
    BY <1>1 DEF vars, deviceVars
  <2> QED
    BY <1>0, <2>1 DEF MainInv, TypeOK, Stages, Settings, Opening, Clearing, ClearAllOrFail,
                      rotatesStdout, opens, mode
<1>2. CASE \/ option_s \/ option_c \/ option_d \/ option_g \/ option_f
           \/ \E n \in Argument : option_t(n) \/ option_r(n) \/ option_n(n)
           \/ \E name \in Names : option_b(name)
           \/ \E s \in FormatStrings : option_v(s)
  BY <1>0, <1>2, OptionsTaken, OptionKeeps
<1>3. CASE optionRejected
  <2>1. ended /\ pc = "options" /\ status' = "-1" /\ cleared' = cleared
    BY <1>0, <1>3 DEF optionRejected, option, argument, ends, ended, deviceVars
  <2> QED
    BY <2>1, RefusalKeeps
<1>4. CASE testOrHelp
  <2>1. ended /\ pc = "options" /\ status' = "0" /\ nargs = 0 /\ cleared' = cleared
    BY <1>0, <1>4 DEF testOrHelp, ends, ended, deviceVars
  <2>2. ~opts.is_clear_log
    BY <1>0, <2>1 DEF Stages
  <2> QED
    BY <2>1, <2>2, RefusalKeeps
<1>5. CASE checkFails
  <2>1. ended /\ pc = "check" /\ status' = "-1" /\ cleared' = cleared
    BY <1>0, <1>5 DEF checkFails, ends, ended, deviceVars
  <2> QED
    BY <2>1, RefusalKeeps
<1>6. CASE endOfOptions
  <2>1. /\ pc = "options" /\ pc' = "check"
        /\ UNCHANGED <<node, status, opts, format, dev, cleared, nargs, nspecs>>
    BY <1>6 DEF endOfOptions
  <2>2. /\ devices' \in Seq(Names) /\ g_dev_count' \in Nat
        /\ devices' # <<>> /\ (g_dev_count' > 1 <=> Len(devices') > 1)
    <3>1. CASE devices = <<>>
      <4>1. /\ devices' = defaultDevices
            /\ g_dev_count' = 1 + Cardinality({n \in {"system", "apps"} : access(n)})
        BY <1>6, <3>1 DEF endOfOptions
      <4> QED
        BY <1>0, <4>1, DefaultList
    <3>2. CASE devices # <<>>
      <4>1. devices' = devices /\ g_dev_count' = g_dev_count /\ g_dev_count = Len(devices)
        BY <1>0, <1>6, <2>1, <3>2 DEF endOfOptions, Stages
      <4> QED
        BY <1>0, <3>2, <4>1
    <3> QED
      BY <3>1, <3>2
  <2>3. cleared = {} /\ dev = 1 /\ status = "running"
    BY <2>1, NothingFlushed
  <2>4. TypeOK'
    BY <1>0, <2>1, <2>2 DEF TypeOK
  <2>5. Stages'
    BY <1>0, <2>1, <2>2, <2>3 DEF Stages
  <2>6. Settings' /\ Opening'
    BY <1>0, <2>1, <2>3 DEF Settings, Opening
  <2>7. Clearing'
    <3>1. cleared' = {} /\ status' = "running" /\ 1 .. dev' - 1 = {}
      BY <2>1, <2>3
    <3> QED
      BY <3>1 DEF Clearing, ClearAllOrFail
  <2> QED
    BY <2>4, <2>5, <2>6, <2>7 DEF MainInv
<1>7. ASSUME pc \in {"check", "filters"}, pc' \in {"filters", "open"}, ~rotatesStdout,
             UNCHANGED <<node, status, opts, devices, g_dev_count, dev, cleared>>,
             nargs' \in 0 .. MaxArgs, nspecs' \in 0 .. MaxArgs, nspecs' <= nargs',
             format' \in Format \ {"off"}
      PROVE  MainInv'
  <2>1. cleared = {} /\ dev = 1 /\ status = "running"
    BY <1>7, NothingFlushed
  <2>2. TypeOK'
    BY <1>0, <1>7 DEF TypeOK
  <2>3. Stages'
    <3>1. rotatesStdout' = rotatesStdout
      BY <1>7 DEF rotatesStdout
    <3>2. devices # <<>> /\ (g_dev_count > 1 <=> Len(devices) > 1)
      BY <1>0, <1>7 DEF Stages
    <3> QED
      BY <1>7, <2>1, <3>1, <3>2 DEF Stages
  <2>4. Settings'
    BY <1>0, <1>7 DEF Settings
  <2>5. Opening'
    <3>1. dev' = 1 /\ 1 \in 1 .. Len(devices) + 1 /\ 1 .. dev' - 1 = {}
      BY <1>0, <1>7, <2>1
    <3> QED
      BY <1>7, <3>1 DEF Opening
  <2>6. Clearing'
    <3>1. cleared' = {} /\ status' = "running" /\ 1 .. dev' - 1 = {}
      BY <1>7, <2>1
    <3> QED
      BY <3>1 DEF Clearing, ClearAllOrFail
  <2> QED
    BY <2>2, <2>3, <2>4, <2>5, <2>6 DEF MainInv
<1>8. CASE setup_output
  <2>1. format' \in Format \ {"off"}
    BY <1>0, <1>8 DEF setup_output, set_log_format, log_format_from_string, TypeOK, Settings,
                      Format
  <2> QED
    BY <1>0, <1>7, <1>8, <2>1 DEF setup_output, deviceVars
<1>9. pc = "filters" => ~rotatesStdout
  BY <1>0 DEF Stages
<1>10. format \in Format \ {"off"}
  BY <1>0 DEF TypeOK, Settings
<1>11. CASE noFilterspec \/ endOfFilterspecs \/ blankFilterspec
  <2>1. /\ pc = "filters" /\ pc' \in {"filters", "open"} /\ format' = format
        /\ UNCHANGED <<node, status, opts, devices, g_dev_count, dev, cleared>>
    BY <1>11 DEF noFilterspec, endOfFilterspecs, blankFilterspec, argument, deviceVars
  <2>2. nargs' \in 0 .. MaxArgs /\ nspecs' \in 0 .. MaxArgs /\ nspecs' <= nargs'
    BY <1>0, <1>11 DEF noFilterspec, endOfFilterspecs, blankFilterspec, argument
  <2> QED
    BY <1>7, <1>9, <1>10, <2>1, <2>2
<1>12. ASSUME NEW e \in Expression, filterspec(e) PROVE MainInv'
  <2>1. /\ pc = "filters" /\ format' = format
        /\ UNCHANGED <<node, opts, devices, g_dev_count, dev, cleared>>
        /\ nargs' \in 0 .. MaxArgs /\ nspecs' \in 0 .. MaxArgs /\ nspecs' <= nargs'
    BY <1>0, <1>12 DEF filterspec, argument, deviceVars
  <2>2. CASE goesOn
    BY <1>7, <1>9, <1>10, <2>1, <2>2 DEF goesOn
  <2>3. CASE ends("-1")
    <3>1. ended /\ status' = "-1"
      BY <2>1, <2>3 DEF ends, ended
    <3> QED
      BY <2>1, <3>1, RefusalKeeps
  <2> QED
    BY <1>12, <2>2, <2>3 DEF filterspec
<1>13. ASSUME pc = "open"
       PROVE  /\ status = "running" /\ devices # <<>> /\ ~rotatesStdout
              /\ (g_dev_count > 1 <=> Len(devices) > 1)
              /\ dev \in 1 .. Len(devices) + 1
              /\ \A i \in 1 .. dev - 1 : opens(devices[i])
              /\ opts.is_clear_log => cleared = 1 .. dev - 1
              /\ ~opts.is_clear_log => cleared = {}
              /\ cleared \subseteq Nat
  <2>1. /\ status = "running" /\ devices # <<>> /\ ~rotatesStdout
        /\ (g_dev_count > 1 <=> Len(devices) > 1)
    BY <1>0, <1>13 DEF Stages
  <2>2. dev \in 1 .. Len(devices) + 1 /\ \A i \in 1 .. dev - 1 : opens(devices[i])
    BY <1>0, <1>13 DEF Opening
  <2>3. opts.is_clear_log => cleared = 1 .. dev - 1
    BY <1>0, <2>1 DEF Clearing
  <2>4. ~opts.is_clear_log => cleared = {}
    BY <1>0 DEF Clearing, ClearAllOrFail
  <2> QED
    BY <1>0, <2>1, <2>2, <2>3, <2>4 DEF TypeOK
<1>14. CASE openDevice
  <2>1. /\ pc = "open" /\ pc' = "open" /\ dev <= Len(devices) /\ opens(devices[dev])
        /\ cleared' = IF opts.is_clear_log THEN cleared \cup {dev} ELSE cleared
        /\ dev' = dev + 1
        /\ UNCHANGED <<node, status, opts, format, devices, g_dev_count, nargs, nspecs>>
    BY <1>14 DEF openDevice
  <2>2. dev \in 1 .. Len(devices) + 1 /\ dev' \in 1 .. Len(devices) + 1 /\ dev' - 1 = dev
        /\ 1 .. dev' - 1 = 1 .. dev - 1 \cup {dev}
    BY <1>0, <1>13, <2>1
  <2>3. cleared' \subseteq Nat
    BY <1>0, <1>13, <2>1
  <2>4. TypeOK'
    BY <1>0, <2>1, <2>2, <2>3 DEF TypeOK
  <2>5. rotatesStdout' = rotatesStdout
    BY <2>1 DEF rotatesStdout
  <2>6. Stages'
    BY <1>0, <2>1, <2>5 DEF Stages
  <2>7. Settings'
    BY <1>0, <2>1 DEF Settings
  <2>8. Opening'
    <3>1. \A i \in 1 .. dev' - 1 : opens(devices[i])
      BY <1>13, <2>1, <2>2
    <3>2. \A x : opens(x)' <=> opens(x)
      BY <2>1 DEF opens, mode
    <3> QED
      BY <2>1, <2>2, <3>1, <3>2 DEF Opening
  <2>9. Clearing'
    <3>1. CASE opts.is_clear_log
      <4>1. cleared' = 1 .. dev' - 1 /\ status' = "running" /\ opts' = opts
        BY <1>13, <2>1, <2>2, <3>1
      <4> QED
        BY <3>1, <4>1 DEF Clearing, ClearAllOrFail
    <3>2. CASE ~opts.is_clear_log
      BY <1>13, <2>1, <3>2 DEF Clearing, ClearAllOrFail
    <3> QED
      BY <3>1, <3>2
  <2> QED
    BY <2>4, <2>6, <2>7, <2>8, <2>9 DEF MainInv
<1>15. CASE openFails \/ ioctlFails
  <2>1. /\ pc = "open" /\ pc' = "done" /\ status' = "EXIT_FAILURE"
        /\ UNCHANGED <<node, opts, format, devices, g_dev_count, dev, nargs, nspecs>>
        /\ \/ cleared' = cleared
           \/ cleared' = IF opts.is_clear_log THEN cleared \cup {dev} ELSE cleared
    BY <1>15 DEF openFails, ioctlFails, ends, deviceVars
  <2>2. ended
    BY <1>0, <2>1 DEF ended, Stages
  <2>3. cleared' \subseteq Nat
    BY <1>0, <1>13, <2>1
  <2>4. 1 .. dev = 1 .. dev - 1 \cup {dev}
    BY <1>0, <1>13, <2>1
  <2>5. ClearAllOrFail'
    <3>1. CASE opts.is_clear_log
      <4>1. cleared' \in {1 .. dev - 1, 1 .. dev}
        BY <1>13, <2>1, <2>4, <3>1
      <4> QED
        BY <2>1, <3>1, <4>1 DEF ClearAllOrFail
    <3>2. CASE ~opts.is_clear_log
      BY <1>13, <2>1, <3>2 DEF ClearAllOrFail
    <3> QED
      BY <3>1, <3>2
  <2> QED
    BY <2>2, <2>3, <2>5, EndKeeps
<1>16. CASE devicesOpened
  <2>1. /\ pc = "open" /\ dev > Len(devices)
        /\ UNCHANGED <<node, opts, format, devices, g_dev_count, dev, cleared, nargs, nspecs>>
    BY <1>16 DEF devicesOpened, deviceVars
  <2>2. dev = Len(devices) + 1 /\ dev - 1 = Len(devices)
    BY <1>0, <1>13, <2>1
  <2>3. CASE opts.getLogSize \/ opts.is_clear_log
    <3>1. pc' = "done" /\ status' = "0"
      BY <1>16, <2>3 DEF devicesOpened, ends
    <3>2. ended
      BY <1>0, <2>1, <3>1 DEF ended, Stages
    <3>3. DOMAIN devices = 1 .. dev - 1
      BY <1>0, <2>2, LenProperties
    <3>4. ClearAllOrFail'
      BY <1>13, <2>1, <3>1, <3>3 DEF ClearAllOrFail
    <3>5. cleared' \subseteq Nat
      BY <1>13, <2>1
    <3> QED
      BY <3>2, <3>4, <3>5, EndKeeps
  <2>4. CASE ~(opts.getLogSize \/ opts.is_clear_log)
    <3>1. pc' = "read" /\ status' = status
      BY <1>16, <2>4 DEF devicesOpened
    <3>2. TypeOK'
      BY <1>0, <2>1, <3>1 DEF TypeOK
    <3>3. rotatesStdout' = rotatesStdout
      BY <2>1 DEF rotatesStdout
    <3>4. Stages'
      BY <1>0, <1>13, <2>1, <2>4, <3>1, <3>3 DEF Stages
    <3>5. Settings'
      BY <1>0, <2>1 DEF Settings
    <3>6. Opening'
      <4>1. \A x : opens(x)' <=> opens(x)
        BY <2>1 DEF opens, mode
      <4> QED
        BY <1>13, <2>1, <2>2, <3>1, <4>1 DEF Opening
    <3>7. Clearing'
      BY <1>13, <2>1, <2>4, <3>1 DEF Clearing, ClearAllOrFail
    <3> QED
      BY <3>2, <3>4, <3>5, <3>6, <3>7 DEF MainInv
  <2> QED
    BY <2>3, <2>4
<1> QED
  BY <1>1, <1>2, <1>3, <1>4, <1>5, <1>6, <1>8, <1>11, <1>12, <1>14, <1>15, <1>16 DEF Next

(* Options, devices and rules agree in every state. *)
LEMMA MainInvariant == Spec => [](MainInv /\ FilterInv)
<1>1. Init => MainInv /\ FilterInv
  BY MainInit, FilterStart
<1>2. MainInv /\ FilterInv /\ [Next]_vars => MainInv' /\ FilterInv'
  <2> SUFFICES ASSUME MainInv, FilterInv, [Next]_vars PROVE MainInv' /\ FilterInv'
    OBVIOUS
  <2>1. FilterInv'
    BY FilterNext
  <2>2. FilterTypeOK'
    BY <2>1 DEF FilterInv
  <2> QED
    BY <2>1, <2>2, MainStep
<1> QED
  BY <1>1, <1>2, PTL DEF Spec

(* Type correctness of main and its filter rules, for every command line. *)
THEOREM MainTypeCorrect == Spec => []TypeOK
<1>1. MainInv => TypeOK
  BY DEF MainInv
<1> QED
  BY <1>1, MainInvariant, PTL

(* Whatever options and filter expressions were given, read_log_lines     *)
(* starts with what it takes for granted: with -t it will exit, it has a  *)
(* device, each is open for reading, and a rotation has a file.           *)
THEOREM ReaderStartsConfigured == Spec => []ReaderConfigured
<1>1. ASSUME MainInv PROVE ReaderConfigured
  <2> SUFFICES ASSUME pc = "read" PROVE ReaderConfigured
    BY DEF ReaderConfigured
  <2>1. devices \in Seq(Names) /\ opts \in Options
    BY <1>1 DEF MainInv, TypeOK
  <2>2. /\ opts.g_tail_lines # 0 => opts.g_nonblock
        /\ format # "off"
    BY <1>1 DEF MainInv, Settings
  <2>3. devices # <<>> /\ ~rotatesStdout /\ ~opts.is_clear_log
    BY <1>1 DEF MainInv, Stages
  <2>4. dev = Len(devices) + 1 /\ \A i \in 1 .. dev - 1 : opens(devices[i])
    BY <1>1 DEF MainInv, Opening
  <2>5. DOMAIN devices = 1 .. Len(devices) /\ dev - 1 = Len(devices)
    BY <2>1, <2>4, LenProperties
  <2>6. \A i \in DOMAIN devices : "R" \in node[devices[i]]
    BY <2>3, <2>4, <2>5 DEF opens, mode
  <2>7. opts.g_log_rotate_size_kbytes > 0 => opts.g_output_filename
    BY <2>1, <2>3 DEF rotatesStdout, Options
  <2> QED
    BY <2>2, <2>3, <2>4, <2>6, <2>7 DEF ReaderConfigured
<1>2. MainInv => ReaderConfigured
  BY <1>1
<1> QED
  BY <1>2, MainInvariant, PTL

(* g_dev_count, which turns the headers on, exceeds 1 exactly when        *)
(* several devices are read, although it is not the length of the list.   *)
THEOREM HeadersMatchDevices == Spec => []HeadersIffSeveral
<1>1. MainInv => HeadersIffSeveral
  BY DEF MainInv, Stages, HeadersIffSeveral
<1> QED
  BY <1>1, MainInvariant, PTL

(* -c reports success only when every device of its list was flushed, and *)
(* a refused command line has flushed none.                               *)
THEOREM ClearIsAllOrFail == Spec => []ClearAllOrFail
<1>1. MainInv => ClearAllOrFail
  BY DEF MainInv, Clearing
<1> QED
  BY <1>1, MainInvariant, PTL
=============================================================================
