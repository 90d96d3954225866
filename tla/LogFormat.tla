------------------------------ MODULE LogFormat ------------------------------
(***************************************************************************)
(* One message from __dlog_print to the line dlogutil prints: the payload  *)
(* libdlog writes (log.c), the entry the driver keeps of it (logger.h),    *)
(* log_process_log_buffer, which finds tag and message in it again, and    *)
(* log_format_log_line, which sizes a buffer in one pass over the message  *)
(* and fills it in another (logprint.c).                                   *)
(*                                                                         *)
(* The text is a sequence of newlines "n" and other characters "c"; the    *)
(* tag, whose characters do not matter, is its length, and so are prefix   *)
(* and suffix.  Sizes are the ones of the code, except LOG_BUF_SIZE and    *)
(* the range of size_t, which are parameters.                              *)
(***************************************************************************)
EXTENDS Integers, Sequences, FiniteSets, SequencesExt

CONSTANTS
  LOG_BUF_SIZE,     \* size of the buffer of __dlog_print
  TagLengths,       \* lengths of the tags
  MaxText,          \* bound on the length of the text
  PidWidth,         \* width of a printed pid or tid, at least 5
  SizeRange         \* size_t is computed modulo this

ASSUME FormatAssumption ==
  /\ LOG_BUF_SIZE \in Nat \ {0} /\ MaxText \in Nat /\ TagLengths \subseteq Nat
  /\ PidWidth \in Nat /\ PidWidth >= 5
  /\ SizeRange \in Nat /\ SizeRange > 16384

LOGGER_ENTRY_MAX_LEN == 4 * 1024
sizeof_logger_entry == 20
LOGGER_ENTRY_MAX_PAYLOAD == LOGGER_ENTRY_MAX_LEN - sizeof_logger_entry
sizeof_prefixBuf == 128
defaultBufferSize == 512

Format == {"brief", "process", "tag", "thread", "raw", "time", "threadtime", "long"}
Text == UNION {[1 .. k -> {"c", "n"}] : k \in 0 .. MaxText}

least(a, b) == IF a < b THEN a ELSE b
most(a, b) == IF a < b THEN b ELSE a

VARIABLES
  pc,           \* print, write, process, size, copy, done, exit, undefined
  format,       \* p_format->format
  tag,          \* length of the caller's tag
  text,         \* what the caller's format string expands to
  msg,          \* the buffer of __dlog_print, then what follows the tag's NUL
  len,          \* length of the payload in the ring, buf->len
  tag_len, messageLen,
  numLines, bufferSize,
  pm,           \* position in the message
  p,            \* bytes written to the buffer, the NUL behind them apart
  shown         \* history: the parts of the message written, in order

entryVars == <<tag_len, messageLen>>
bufferVars == <<numLines, bufferSize, pm, p, shown>>
input == <<format, tag, text>>
vars == <<pc, input, msg, len, entryVars, bufferVars>>

Init ==
  /\ pc = "print"
  /\ format \in Format /\ tag \in TagLengths /\ text \in Text
  /\ msg = <<>> /\ len = 0 /\ tag_len = 0 /\ messageLen = 0
  /\ numLines = 0 /\ bufferSize = 0 /\ pm = 1 /\ p = 0 /\ shown = <<>>

-----------------------------------------------------------------------------
(* libdlog and the driver. *)

(* vsnprintf into a buffer of LOG_BUF_SIZE bytes; a null tag is "". *)
dlog_print ==
  /\ pc = "print"
  /\ msg' = SubSeq(text, 1, least(Len(text), LOG_BUF_SIZE - 1))
  /\ pc' = "write"
  /\ UNCHANGED <<input, len, entryVars, bufferVars>>

(* Priority, tag, NUL, message, NUL. *)
payloadLen == 1 + (tag + 1) + (Len(msg) + 1)

(* The driver keeps the first LOGGER_ENTRY_MAX_PAYLOAD bytes, which can   *)
(* cost the NUL of the message, its end, and the tag's.  The reader puts  *)
(* a NUL behind the payload.                                              *)
writev ==
  /\ pc = "write"
  /\ len' = least(payloadLen, LOGGER_ENTRY_MAX_PAYLOAD)
  /\ msg' = SubSeq(msg, 1, most(0, least(Len(msg), len' - tag - 2)))
  /\ pc' = "process"
  /\ UNCHANGED <<input, entryVars, bufferVars>>

-----------------------------------------------------------------------------
(* dlogutil *)

(* Slip: the difference is a signed one. *)
wireMessageLenSigned(t) == len - t - 3

(* Slip: only one of the two NULs is taken off. *)
wireMessageLenLong(t) == (len - t - 2) % SizeRange

(* Priority and two NULs are taken off, in size_t. *)
wireMessageLen(t) == (len - t - 3) % SizeRange

(* strlen stops at the NUL behind the payload when the tag's was cut. *)
log_process_log_buffer ==
  /\ pc = "process"
  /\ tag_len' = least(tag, len - 1)
  /\ messageLen' = wireMessageLen(tag_len')
  /\ pc' = "size"
  /\ UNCHANGED <<input, msg, len, bufferVars>>

isHeaderFooter == format = "long"
padded == most(tag_len, 8)
timeLen == 18   \* "%m-%d %H:%M:%S" and ".%03ld"

prefixWidth ==
  CASE format = "tag"        -> 2 + padded + 2
    [] format = "process"    -> 4 + PidWidth
    [] format = "thread"     -> 5 + 2 * PidWidth
    [] format = "raw"        -> 0
    [] format = "time"       -> timeLen + 3 + padded + 4 + PidWidth
    [] format = "threadtime" -> timeLen + 5 + 2 * PidWidth + padded + 2
    [] format = "long"       -> timeLen + 7 + 2 * PidWidth + padded + 3
    [] format = "brief"      -> 2 + padded + 4 + PidWidth

suffixWidth ==
  CASE format = "process" -> 5 + tag_len
    [] format = "long"    -> 2
    [] OTHER              -> 1

(* snprintf returns the full width and writes what fits. *)
written(width) == least(width, sizeof_prefixBuf - 1)
prefixLen == written(prefixWidth)
suffixLen == written(suffixWidth)

(* The message pointed to has messageLen characters. *)
delimited == messageLen <= Len(msg)
message == SubSeq(msg, 1, least(messageLen, Len(msg)))
newlines == {i \in DOMAIN message : message[i] = "n"}

(* Slip: an unterminated last line is not counted. *)
countLinesTerminated == IF isHeaderFooter THEN 1 ELSE Cardinality(newlines)

(* One pass over the message. *)
countLines ==
  IF isHeaderFooter THEN 1
  ELSE Cardinality(newlines)
         + (IF message # <<>> /\ Last(message) # "n" THEN 1 ELSE 0)

(* Slip: no room for the NUL. *)
sizeNeededBare(lines) == lines * (prefixLen + suffixLen) + messageLen

sizeNeeded(lines) == lines * (prefixLen + suffixLen) + messageLen + 1

(* The buffer of the caller, or one from malloc, which may fail. *)
sizeBuffer ==
  /\ pc = "size" /\ delimited
  /\ numLines' = countLines
  /\ bufferSize' = sizeNeeded(numLines')
  /\ \/ pc' = "copy"
     \/ bufferSize' > defaultBufferSize /\ pc' = "exit"
  /\ UNCHANGED <<input, msg, len, entryVars, pm, p, shown>>

(* The end of the message lies in front of its beginning.  Both loops see *)
(* no line, and when the size wraps to a huge one malloc fails.  With     *)
(* -v long the message is copied up to the next NUL, which follows at     *)
(* once unless the tag lost its own.                                      *)
sizeBufferWrapped ==
  /\ pc = "size" /\ ~delimited
  /\ numLines' = IF isHeaderFooter THEN 1 ELSE 0
  /\ bufferSize' = sizeNeeded(numLines') % SizeRange
  /\ IF isHeaderFooter
       THEN /\ p' = (prefixLen + messageLen + suffixLen) % SizeRange
            /\ shown' = <<message>>
       ELSE UNCHANGED <<p, shown>>
  /\ pc' = CASE bufferSize' > defaultBufferSize -> "exit"
             [] isHeaderFooter /\ tag_len = len - 1 -> "undefined"
             [] OTHER -> "done"
  /\ UNCHANGED <<input, msg, len, entryVars, pm>>

(* The end of the line that begins at pm. *)
lineEnd ==
  CHOOSE e \in pm .. messageLen + 1 :
    /\ e <= messageLen => message[e] = "n"
    /\ \A i \in pm .. e - 1 : message[i] # "n"

(* Slip: empty lines are passed over with the newline in front of them. *)
afterLineBlank ==
  CHOOSE e \in lineEnd .. Len(msg) + 1 :
    /\ e <= Len(msg) => msg[e] # "n"
    /\ \A i \in lineEnd .. e - 1 : msg[i] = "n"

afterLine ==
  IF lineEnd <= Len(msg) /\ msg[lineEnd] = "n" THEN lineEnd + 1 ELSE lineEnd

(* Prefix, line, suffix; a newline is passed over, one behind the end of  *)
(* a message that was cut short too.                                      *)
copyLine ==
  /\ pc = "copy" /\ ~isHeaderFooter /\ pm <= messageLen
  /\ p' = p + prefixLen + (lineEnd - pm) + suffixLen
  /\ shown' = Append(shown, SubSeq(message, pm, lineEnd - 1))
  /\ pm' = afterLine
  /\ UNCHANGED <<pc, input, msg, len, entryVars, numLines, bufferSize>>

(* Header, message, footer. *)
copyLong ==
  /\ pc = "copy" /\ isHeaderFooter /\ shown = <<>>
  /\ p' = prefixLen + messageLen + suffixLen
  /\ shown' = <<message>>
  /\ UNCHANGED <<pc, input, msg, len, entryVars, numLines, bufferSize, pm>>

finish ==
  /\ pc = "copy"
  /\ IF isHeaderFooter THEN shown # <<>> ELSE pm > messageLen
  /\ pc' = "done"
  /\ UNCHANGED <<input, msg, len, entryVars, bufferVars>>

log_format_log_line ==
  sizeBuffer \/ sizeBufferWrapped \/ copyLine \/ copyLong \/ finish

Next == dlog_print \/ writev \/ log_process_log_buffer \/ log_format_log_line

Spec == Init /\ [][Next]_vars

-----------------------------------------------------------------------------
(* Types. *)
TypeOK ==
  /\ pc \in {"print", "write", "process", "size", "copy", "done", "exit", "undefined"}
  /\ format \in Format /\ tag \in Nat
  /\ {text, msg} \subseteq Seq({"c", "n"})
  /\ len \in 0 .. LOGGER_ENTRY_MAX_PAYLOAD
  /\ tag_len \in 0 .. LOGGER_ENTRY_MAX_PAYLOAD /\ messageLen \in 0 .. SizeRange - 1
  /\ numLines \in Nat /\ bufferSize \in Nat /\ pm \in Nat \ {0} /\ p \in Nat
  /\ shown \in Seq(Seq({"c", "n"}))

(* The second pass never writes past the size the first one computed, the *)
(* final NUL included, at any line and in any format, long tags included. *)
WithinBuffer == pc \in {"copy", "done"} /\ delimited => p < bufferSize

(* "The line-end finding here must match the line-end finding in the      *)
(* loop below" (logprint.c:482): both passes see the same lines.          *)
LinesMatch == pc = "done" /\ delimited => Len(shown) = numLines

(* A tag that leaves room for a message in the payload. *)
tagFits == tag + 3 <= LOGGER_ENTRY_MAX_PAYLOAD

(* What libdlog's buffer and the payload have room for. *)
delivered ==
  SubSeq(text, 1, least(least(Len(text), LOG_BUF_SIZE - 1),
                        LOGGER_ENTRY_MAX_PAYLOAD - tag - 3))

(* A line of s ends at a newline, or behind the last character. *)
ends(s) ==
  {i \in DOMAIN s : s[i] = "n"}
    \cup (IF s # <<>> /\ Last(s) # "n" THEN {Len(s) + 1} ELSE {})
isLine(s, b, e) ==
  (b = 1 \/ s[b - 1] = "n") /\ \A i \in b .. e - 1 : s[i] # "n"

(* A line is shown at its place among all of them, which counts the ends  *)
(* up to its own.                                                         *)
place(s, e) == Cardinality({i \in ends(s) : i <= e})

(* The reader finds the message by lengths alone, and prints of it every  *)
(* line, in order and once, whatever was cut off on the way: an empty     *)
(* line for an empty line, and no line at all for an empty message.       *)
TextShown ==
  pc = "done" /\ tagFits =>
    IF isHeaderFooter THEN shown = <<delivered>>
    ELSE /\ Len(shown) = Cardinality(ends(delivered))
         /\ \A e \in ends(delivered) : \A b \in 1 .. e :
              isLine(delivered, b, e) =>
                shown[place(delivered, e)] = SubSeq(delivered, b, e - 1)

(* The lengths the reader computes without a check never wrap around,     *)
(* unless the tag alone fills the payload.                                *)
LengthsSound ==
  pc \in {"size", "copy", "done", "exit", "undefined"} /\ tagFits => delimited
=============================================================================
