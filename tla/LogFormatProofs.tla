--------------------------- MODULE LogFormatProofs ---------------------------
(***************************************************************************)
(* Proofs about LogFormat, for every text, every tag, every format, every  *)
(* size of libdlog's buffer and every range of size_t: the types, that the *)
(* lengths found in the payload are sound, that the two passes of          *)
(* log_format_log_line see the same lines, that the second never writes    *)
(* past the size the first one computed, and that every line of the text   *)
(* is shown.                                                               *)
(***************************************************************************)
EXTENDS LogFormat, FiniteSetTheorems, SequenceTheorems, TLAPS

Char == {"c", "n"}

(* Nothing is in the line buffer before the first pass. *)
Fresh ==
  pc \in {"print", "write", "process", "size"} =>
    pm = 1 /\ p = 0 /\ shown = <<>>

(* What the driver keeps: priority and two more bytes at least, and, when *)
(* the tag fits, all the message the lengths will promise.                *)
Sent ==
  pc \notin {"print", "write"} =>
    /\ len >= 3
    /\ tagFits => len >= tag + 3 /\ len - tag - 3 <= Len(msg)

(* The reader's difference of lengths is exact when the tag fits. *)
Found ==
  (pc \notin {"print", "write", "process"} /\ tagFits) =>
    messageLen = len - tag - 3

(* Only a message with sound lengths is copied line by line. *)
Copyable == pc = "copy" => delimited

FormatInv == TypeOK /\ Fresh /\ Sent /\ Found /\ Copyable

(* The lines of the message that begin at position k or later end at a    *)
(* newline, but for a last one that may have none.                        *)
newlinesFrom(k) == {i \in newlines : i >= k}
openFrom(k) ==
  IF k <= messageLen /\ message[messageLen] # "n" THEN 1 ELSE 0

(* Prefix and suffix, around every line. *)
frame == prefixLen + suffixLen

(* Line by line: what is shown and what is to come are the lines of the   *)
(* first pass, and the buffer holds a frame per line and no more of the   *)
(* message than was passed over.                                          *)
ByLine ==
  /\ numLines = Len(shown) + Cardinality(newlinesFrom(pm)) + openFrom(pm)
  /\ p <= Len(shown) * frame + least(pm - 1, messageLen)
  /\ pc = "done" => pm > messageLen

(* In one piece, between header and footer. *)
InOnePiece ==
  /\ numLines = 1
  /\ shown = <<>> => p = 0 /\ pc = "copy"
  /\ shown # <<>> => Len(shown) = 1 /\ p = frame + messageLen

PassInv ==
  (pc \in {"copy", "done"} /\ delimited) =>
    /\ bufferSize = numLines * frame + messageLen + 1
    /\ IF isHeaderFooter THEN InOnePiece ELSE ByLine

-----------------------------------------------------------------------------
(* The operators. *)

(* Arithmetic of size_t: the result is in range, and exact for what is in *)
(* range.                                                                 *)
LEMMA Modulo ==
  ASSUME NEW a \in Int
  PROVE  /\ a % SizeRange \in 0 .. SizeRange - 1
         /\ a \in 0 .. SizeRange - 1 => a % SizeRange = a
BY FormatAssumption

(* A text is a sequence of characters. *)
LEMMA TextIsSeq == ASSUME NEW t \in Text PROVE t \in Seq(Char)
BY SeqDef, FormatAssumption DEF Text, Char

(* A prefix of a sequence. *)
LEMMA Cut ==
  ASSUME NEW s \in Seq(Char), NEW k \in Nat, k <= Len(s)
  PROVE  /\ SubSeq(s, 1, k) \in Seq(Char)
         /\ Len(SubSeq(s, 1, k)) = k
         /\ \A i \in 1 .. k : SubSeq(s, 1, k)[i] = s[i]
<1>1. \A i \in 1 .. k : s[i] \in Char
  OBVIOUS
<1>2. /\ SubSeq(s, 1, k) \in Seq(Char)
      /\ Len(SubSeq(s, 1, k)) = IF 1 <= k THEN k - 1 + 1 ELSE 0
      /\ \A i \in 1 .. k - 1 + 1 : SubSeq(s, 1, k)[i] = s[1 + i - 1]
  BY <1>1, SubSeqProperties
<1> QED
  BY <1>2

(* Prefix and suffix have a width, in every format. *)
LEMMA Widths ==
  ASSUME TypeOK
  PROVE  prefixLen \in Nat /\ suffixLen \in Nat /\ frame \in Nat
<1>1. padded \in Nat
  BY DEF TypeOK, padded, most
<1>2. prefixWidth \in Nat
  <2>1. /\ {2 + padded + 2, 4 + PidWidth, 5 + 2 * PidWidth, 0} \subseteq Nat
        /\ {timeLen + 3 + padded + 4 + PidWidth,
            timeLen + 5 + 2 * PidWidth + padded + 2,
            timeLen + 7 + 2 * PidWidth + padded + 3,
            2 + padded + 4 + PidWidth} \subseteq Nat
    BY <1>1, FormatAssumption DEF timeLen
  <2>2. format \in Format
    BY DEF TypeOK
  <2> QED
    BY <2>1, <2>2, Zenon DEF prefixWidth, Format
<1>3. suffixWidth \in Nat
  BY DEF TypeOK, suffixWidth, Format
<1> QED
  BY <1>2, <1>3 DEF frame, prefixLen, suffixLen, written, least, sizeof_prefixBuf

(* What the pointers into the payload delimit. *)
LEMMA MessageIs ==
  ASSUME TypeOK
  PROVE  /\ message \in Seq(Char)
         /\ Len(message) = least(messageLen, Len(msg))
         /\ \A i \in 1 .. Len(message) : message[i] = msg[i]
<1> DEFINE k == least(messageLen, Len(msg))
<1>1. msg \in Seq(Char) /\ messageLen \in Nat
  BY DEF TypeOK, Char
<1>2. k \in Nat /\ k <= Len(msg)
  BY <1>1 DEF least
<1> HIDE DEF k
<1>3. /\ SubSeq(msg, 1, k) \in Seq(Char)
      /\ Len(SubSeq(msg, 1, k)) = k
      /\ \A i \in 1 .. k : SubSeq(msg, 1, k)[i] = msg[i]
  BY <1>1, <1>2, Cut
<1>4. message = SubSeq(msg, 1, k)
  BY DEF message, k
<1> QED
  BY <1>3, <1>4 DEF k

(* The first pass counts finitely many newlines. *)
LEMMA NewlinesFinite ==
  ASSUME TypeOK, NEW k
  PROVE  /\ newlines \subseteq 1 .. Len(message)
         /\ IsFiniteSet(newlines)
         /\ IsFiniteSet(newlinesFrom(k))
         /\ Cardinality(newlines) \in Nat
         /\ Cardinality(newlinesFrom(k)) \in Nat
<1>1. message \in Seq(Char) /\ Len(message) \in Nat
  BY MessageIs
<1>2. newlines \subseteq 1 .. Len(message)
  BY <1>1 DEF newlines
<1>3. IsFiniteSet(1 .. Len(message))
  BY <1>1, FS_Interval
<1>4. newlinesFrom(k) \subseteq newlines
  BY DEF newlinesFrom
<1> QED
  BY <1>2, <1>3, <1>4, FS_Subset, FS_CardinalityType

(* The line that begins at pm has an end, at the first newline or at the  *)
(* end of the message.                                                    *)
LEMMA LineEnds ==
  ASSUME TypeOK, delimited, pm <= messageLen
  PROVE  /\ lineEnd \in pm .. messageLen + 1
         /\ lineEnd <= messageLen => message[lineEnd] = "n"
         /\ \A i \in pm .. lineEnd - 1 : message[i] # "n"
<1> DEFINE Ends(e) == /\ e <= messageLen => message[e] = "n"
                      /\ \A i \in pm .. e - 1 : message[i] # "n"
           T == {i \in pm .. messageLen : message[i] = "n"}
<1>1. pm \in Nat /\ messageLen \in Nat
  BY DEF TypeOK
<1>2. \E e \in pm .. messageLen + 1 : Ends(e)
  <2>1. CASE T = {}
    <3>1. Ends(messageLen + 1) /\ messageLen + 1 \in pm .. messageLen + 1
      BY <1>1, <2>1
    <3> QED
      BY <3>1
  <2>2. CASE T # {}
    <3>1. T \subseteq Nat
      BY <1>1
    <3>2. \E x \in T : \A y \in T : ~(<<y, x>> \in OpToRel(<, Nat))
      BY <2>2, <3>1, NatLessThanWellFounded, WFMin
    <3>3. PICK x \in T : \A y \in T : ~(<<y, x>> \in OpToRel(<, Nat))
      BY <3>2
    <3>4. \A u, v \in Nat : <<v, u>> \notin OpToRel(<, Nat) => u <= v
      BY DEF OpToRel
    <3>5. \A y \in T : x <= y
      BY <3>1, <3>3, <3>4
    <3>6. \A i \in pm .. x - 1 : message[i] # "n"
      BY <1>1, <3>5
    <3> QED
      BY <1>1, <3>6
  <2> QED
    BY <2>1, <2>2
<1>3. lineEnd = CHOOSE e \in pm .. messageLen + 1 : Ends(e)
  BY DEF lineEnd
<1> HIDE DEF Ends
<1>4. lineEnd \in pm .. messageLen + 1 /\ Ends(lineEnd)
  BY <1>2, <1>3
<1> QED
  BY <1>4 DEF Ends

-----------------------------------------------------------------------------
(* The types and the lengths. *)

(* A message on its way to the first pass. *)
LEMMA FormatInit == Init => FormatInv
<1> SUFFICES ASSUME Init PROVE FormatInv
  OBVIOUS
<1>1. text \in Seq({"c", "n"})
  BY TextIsSeq DEF Init, Char
<1>2. <<>> \in Seq({"c", "n"}) /\ <<>> \in Seq(Seq({"c", "n"}))
  OBVIOUS
<1>3. TypeOK
  BY <1>1, <1>2, FormatAssumption
     DEF Init, TypeOK, LOGGER_ENTRY_MAX_PAYLOAD, LOGGER_ENTRY_MAX_LEN,
         sizeof_logger_entry
<1> QED
  BY <1>3 DEF Init, FormatInv, Fresh, Sent, Found, Copyable

(* libdlog's buffer cuts the text. *)
LEMMA FormatPrint == FormatInv /\ dlog_print => FormatInv'
<1> SUFFICES ASSUME FormatInv, dlog_print PROVE FormatInv'
  OBVIOUS
<1> DEFINE k == least(Len(text), LOG_BUF_SIZE - 1)
<1>1. text \in Seq(Char) /\ k \in Nat /\ k <= Len(text)
  BY FormatAssumption DEF FormatInv, TypeOK, Char, least
<1>2. msg' = SubSeq(text, 1, k)
  BY DEF dlog_print
<1> HIDE DEF k
<1>3. msg' \in Seq({"c", "n"})
  BY <1>1, <1>2, Cut DEF Char
<1>4. TypeOK'
  BY <1>3 DEF FormatInv, TypeOK, dlog_print, input, entryVars, bufferVars
<1> QED
  BY <1>4
     DEF FormatInv, Fresh, Sent, Found, Copyable, dlog_print, input, entryVars,
         bufferVars

(* A payload of a tag t and a message of m characters, cut to n bytes:    *)
(* with a tag that fits, no less of the message is kept than the lengths  *)
(* promise.                                                               *)
LEMMA PayloadCut ==
  ASSUME NEW t \in Nat, NEW m \in Nat, NEW n, NEW k,
         n = least(1 + (t + 1) + (m + 1), LOGGER_ENTRY_MAX_PAYLOAD),
         k = most(0, least(m, n - t - 2))
  PROVE  /\ n \in 3 .. LOGGER_ENTRY_MAX_PAYLOAD
         /\ k \in Nat /\ k <= m
         /\ t + 3 <= LOGGER_ENTRY_MAX_PAYLOAD => n >= t + 3 /\ n - t - 3 <= k
<1>1. LOGGER_ENTRY_MAX_PAYLOAD = 4076
  BY DEF LOGGER_ENTRY_MAX_PAYLOAD, LOGGER_ENTRY_MAX_LEN, sizeof_logger_entry
<1>2. n = IF t + m + 3 < 4076 THEN t + m + 3 ELSE 4076
  BY <1>1 DEF least
<1> QED
  BY <1>1, <1>2 DEF least, most

(* The driver cuts the payload. *)
LEMMA FormatWrite == FormatInv /\ writev => FormatInv'
<1> SUFFICES ASSUME FormatInv, writev PROVE FormatInv'
  OBVIOUS
<1> DEFINE n == len'
           k == most(0, least(Len(msg), n - tag - 2))
<1>1. msg \in Seq(Char) /\ tag \in Nat /\ Len(msg) \in Nat
  BY DEF FormatInv, TypeOK, Char
<1>2. /\ n = least(1 + (tag + 1) + (Len(msg) + 1), LOGGER_ENTRY_MAX_PAYLOAD)
      /\ msg' = SubSeq(msg, 1, k)
  BY DEF writev, payloadLen
<1>3. k = most(0, least(Len(msg), n - tag - 2))
  OBVIOUS
<1>4. len' = n
  OBVIOUS
<1> HIDE DEF n, k
<1>5. /\ n \in 3 .. LOGGER_ENTRY_MAX_PAYLOAD
      /\ k \in Nat /\ k <= Len(msg)
      /\ tag + 3 <= LOGGER_ENTRY_MAX_PAYLOAD => n >= tag + 3 /\ n - tag - 3 <= k
  BY <1>1, <1>2, <1>3, PayloadCut
<1>6. msg' \in Seq({"c", "n"}) /\ Len(msg') = k
  BY <1>1, <1>2, <1>5, Cut DEF Char
<1>7. n \in Nat /\ n \in 0 .. LOGGER_ENTRY_MAX_PAYLOAD /\ n >= 3
  BY <1>5 DEF LOGGER_ENTRY_MAX_PAYLOAD, LOGGER_ENTRY_MAX_LEN, sizeof_logger_entry
<1>8. TypeOK'
  BY <1>4, <1>6, <1>7
     DEF FormatInv, TypeOK, writev, input, entryVars, bufferVars
<1>9. Sent'
  BY <1>4, <1>5, <1>6, <1>7 DEF Sent, tagFits, writev, input
<1> QED
  BY <1>8, <1>9 DEF FormatInv, Fresh, Found, Copyable, writev, bufferVars

(* The reader's lengths. *)
LEMMA FormatProcess == FormatInv /\ log_process_log_buffer => FormatInv'
<1> SUFFICES ASSUME FormatInv, log_process_log_buffer PROVE FormatInv'
  OBVIOUS
<1>1. tag \in Nat /\ len \in 3 .. 4076
  BY DEF FormatInv, TypeOK, Sent, log_process_log_buffer,
     LOGGER_ENTRY_MAX_PAYLOAD, LOGGER_ENTRY_MAX_LEN, sizeof_logger_entry
<1>2. tag_len' = IF tag < len - 1 THEN tag ELSE len - 1
  BY DEF log_process_log_buffer, least
<1>3. tag_len' \in 0 .. 4076
  BY <1>1, <1>2
<1>4. messageLen' = (len - tag_len' - 3) % SizeRange
  BY DEF log_process_log_buffer, wireMessageLen
<1>5. messageLen' \in 0 .. SizeRange - 1
  BY <1>1, <1>3, <1>4, Modulo
<1>6. TypeOK'
  BY <1>3, <1>5 DEF FormatInv, TypeOK, log_process_log_buffer, input, bufferVars,
     LOGGER_ENTRY_MAX_PAYLOAD, LOGGER_ENTRY_MAX_LEN, sizeof_logger_entry
<1>7. tagFits' <=> tagFits
  BY DEF tagFits, log_process_log_buffer, input
<1>8. ASSUME tagFits PROVE messageLen' = len' - tag' - 3
  <2>1. len >= tag + 3
    BY <1>8 DEF FormatInv, Sent, log_process_log_buffer
  <2>2. tag_len' = tag /\ len - tag - 3 \in 0 .. SizeRange - 1
    BY <1>1, <1>2, <2>1, FormatAssumption
  <2> QED
    BY <1>1, <1>4, <2>2, Modulo DEF log_process_log_buffer, input
<1> QED
  BY <1>6, <1>7, <1>8
     DEF FormatInv, Fresh, Sent, Found, Copyable, log_process_log_buffer, input,
         bufferVars

(* The passes leave the lengths alone. *)
LEMMA LengthsKept ==
  ASSUME FormatInv, TypeOK', UNCHANGED <<input, msg, len, entryVars>>,
         pc \notin {"print", "write", "process"}, Fresh',
         pc' = "copy" => delimited
  PROVE  FormatInv'
<1>1. tagFits' <=> tagFits
  BY DEF tagFits, input
<1>2. delimited' <=> delimited
  BY DEF delimited, entryVars
<1>3. Copyable'
  BY <1>2 DEF Copyable
<1> QED
  BY <1>1, <1>3 DEF FormatInv, Sent, Found, input, entryVars

(* The size the first pass computes, of any number of lines. *)
LEMMA SizeIsNat ==
  ASSUME TypeOK, NEW lines \in Nat
  PROVE  /\ sizeNeeded(lines) \in Nat
         /\ sizeNeeded(lines) = lines * frame + messageLen + 1
<1>1. frame \in Nat /\ messageLen \in Nat
  BY Widths DEF TypeOK
<1>2. lines * frame \in Nat
  BY <1>1
<1> QED
  BY <1>1, <1>2 DEF sizeNeeded, frame

(* The first pass counts at least no line. *)
LEMMA CountIsNat == TypeOK => countLines \in Nat
BY NewlinesFinite DEF countLines

(* The first pass. *)
LEMMA FormatSize == FormatInv /\ sizeBuffer => FormatInv'
<1> SUFFICES ASSUME FormatInv, sizeBuffer PROVE FormatInv'
  OBVIOUS
<1>1. numLines' \in Nat
  BY CountIsNat DEF FormatInv, sizeBuffer
<1>2. bufferSize' \in Nat
  BY <1>1, SizeIsNat DEF FormatInv, sizeBuffer
<1>3. pc' \in {"copy", "exit"}
  BY DEF sizeBuffer
<1>4. TypeOK'
  BY <1>1, <1>2, <1>3 DEF FormatInv, TypeOK, sizeBuffer, input, entryVars
<1>5. Fresh'
  BY <1>3 DEF Fresh
<1> QED
  BY <1>4, <1>5, LengthsKept DEF sizeBuffer

(* The passes over a message whose length wrapped around. *)
LEMMA FormatWrapped == FormatInv /\ sizeBufferWrapped => FormatInv'
<1> SUFFICES ASSUME FormatInv, sizeBufferWrapped PROVE FormatInv'
  OBVIOUS
<1>1. prefixLen \in Nat /\ suffixLen \in Nat /\ messageLen \in Nat /\ TypeOK
  BY Widths DEF FormatInv, TypeOK
<1>2. numLines' \in Nat
  BY DEF sizeBufferWrapped
<1>3. bufferSize' \in Nat
  BY <1>1, <1>2, SizeIsNat, Modulo DEF sizeBufferWrapped
<1>4. p' \in Nat
  <2>1. (prefixLen + messageLen + suffixLen) % SizeRange \in Nat
    BY <1>1, Modulo
  <2> QED
    BY <1>1, <2>1 DEF sizeBufferWrapped, TypeOK
<1>5. shown' \in Seq(Seq({"c", "n"}))
  <2>1. <<message>> \in Seq(Seq({"c", "n"}))
    BY <1>1, MessageIs DEF Char
  <2> QED
    BY <1>1, <2>1 DEF sizeBufferWrapped, TypeOK
<1>6. pc' \in {"exit", "undefined", "done"}
  BY Zenon DEF sizeBufferWrapped
<1>7. UNCHANGED <<input, msg, len, entryVars, pm>> /\ pc = "size"
  BY DEF sizeBufferWrapped
<1>8. TypeOK'
  BY <1>1, <1>2, <1>3, <1>4, <1>5, <1>6, <1>7 DEF TypeOK, input, entryVars
<1>9. Fresh'
  BY <1>6 DEF Fresh
<1> QED
  BY <1>6, <1>7, <1>8, <1>9, LengthsKept

(* A line of the second pass. *)
LEMMA FormatLine == FormatInv /\ copyLine => FormatInv'
<1> SUFFICES ASSUME FormatInv, copyLine PROVE FormatInv'
  OBVIOUS
<1> delimited
  BY DEF FormatInv, Copyable, copyLine
<1>1. /\ prefixLen \in Nat /\ suffixLen \in Nat /\ messageLen \in Nat /\ TypeOK
      /\ pm \in Nat \ {0} /\ p \in Nat
  BY Widths DEF FormatInv, TypeOK
<1>2. lineEnd \in pm .. messageLen + 1
  BY <1>1, LineEnds DEF copyLine
<1>3. pm' \in Nat \ {0}
  BY <1>1, <1>2 DEF copyLine, afterLine
<1>4. p' \in Nat
  BY <1>1, <1>2 DEF copyLine
<1>5. shown' \in Seq(Seq({"c", "n"}))
  <2>1. message \in Seq(Char) /\ Len(message) = messageLen
    BY <1>1, MessageIs DEF delimited, least, TypeOK
  <2>2. pm \in Int /\ lineEnd - 1 \in Int
    BY <1>1, <1>2
  <2>3. \A i \in pm .. lineEnd - 1 : message[i] \in Char
    BY <1>1, <1>2, <2>1
  <2>4. SubSeq(message, pm, lineEnd - 1) \in Seq(Char)
    BY <2>2, <2>3, SubSeqProperties
  <2> QED
    BY <1>1, <2>4 DEF copyLine, TypeOK, Char
<1>6. UNCHANGED <<pc, input, msg, len, entryVars, numLines, bufferSize>>
  BY DEF copyLine
<1>7. TypeOK'
  BY <1>1, <1>3, <1>4, <1>5, <1>6 DEF TypeOK, input, entryVars
<1> QED
  BY <1>6, <1>7, LengthsKept DEF copyLine, Fresh

(* Header, message and footer. *)
LEMMA FormatLong == FormatInv /\ copyLong => FormatInv'
<1> SUFFICES ASSUME FormatInv, copyLong PROVE FormatInv'
  OBVIOUS
<1>1. prefixLen \in Nat /\ suffixLen \in Nat /\ messageLen \in Nat /\ TypeOK
  BY Widths DEF FormatInv, TypeOK
<1>2. <<message>> \in Seq(Seq({"c", "n"}))
  BY <1>1, MessageIs DEF Char
<1>3. p' \in Nat
  BY <1>1 DEF copyLong
<1>4. TypeOK'
  BY <1>1, <1>2, <1>3 DEF TypeOK, copyLong, input, entryVars
<1> QED
  BY <1>4, LengthsKept DEF copyLong, Fresh, FormatInv, Copyable

(* The end of the second pass. *)
LEMMA FormatFinish == FormatInv /\ finish => FormatInv'
<1> SUFFICES ASSUME FormatInv, finish PROVE FormatInv'
  OBVIOUS
<1>1. TypeOK'
  BY DEF FormatInv, TypeOK, finish, input, entryVars, bufferVars
<1> QED
  BY <1>1, LengthsKept DEF finish, Fresh

(* Every step of every part keeps the types and the lengths. *)
LEMMA FormatStep == FormatInv /\ [Next]_vars => FormatInv'
<1> SUFFICES ASSUME FormatInv, [Next]_vars PROVE FormatInv'
  OBVIOUS
<1>1. CASE UNCHANGED vars
  <2>1. TypeOK'
    BY <1>1 DEF FormatInv, TypeOK, vars, input, entryVars, bufferVars
  <2>2. Fresh' /\ Sent' /\ Found' /\ Copyable'
    BY <1>1 DEF FormatInv, Fresh, Sent, Found, Copyable, tagFits, delimited, vars,
                input, entryVars, bufferVars
  <2> QED
    BY <2>1, <2>2 DEF FormatInv
<1>2. CASE Next
  BY <1>2, FormatPrint, FormatWrite, FormatProcess, FormatSize, FormatWrapped,
     FormatLine, FormatLong, FormatFinish
     DEF Next, log_format_log_line
<1> QED
  BY <1>1, <1>2

(* The types and the lengths hold throughout. *)
LEMMA FormatInvariant == Spec => []FormatInv
BY FormatInit, FormatStep, PTL DEF Spec

(* Every variable of the path from __dlog_print to the printed line has   *)
(* its type: no payload exceeds the driver's limit, and no size leaves    *)
(* the range of size_t.                                                   *)
THEOREM FormatTypeCorrect == Spec => []TypeOK
<1>1. FormatInv => TypeOK
  BY DEF FormatInv
<1> QED
  BY <1>1, FormatInvariant, PTL

(* log_process_log_buffer checks nothing, and yet the lengths it computes *)
(* from the payload never wrap around, wherever libdlog and the driver    *)
(* cut the message, as long as the tag leaves room in the payload.        *)
THEOREM LengthsNeverWrap == Spec => []LengthsSound
<1>1. FormatInv => LengthsSound
  BY DEF FormatInv, Sent, Found, LengthsSound, delimited
<1> QED
  BY <1>1, FormatInvariant, PTL

-----------------------------------------------------------------------------
(* The two passes. *)

(* The passes read the same message, between the same prefix and suffix. *)
LEMMA SameMessage ==
  ASSUME UNCHANGED <<input, msg, len, entryVars>>
  PROVE  /\ frame' = frame /\ message' = message /\ newlines' = newlines
         /\ prefixLen' = prefixLen /\ suffixLen' = suffixLen
         /\ (isHeaderFooter' <=> isHeaderFooter) /\ (delimited' <=> delimited)
         /\ messageLen' = messageLen
<1>1. format' = format /\ msg' = msg /\ tag_len' = tag_len /\ messageLen' = messageLen
  BY DEF input, entryVars
<1>2. prefixWidth' = prefixWidth /\ suffixWidth' = suffixWidth
  BY <1>1, Zenon DEF prefixWidth, suffixWidth, padded
<1>3. message' = message
  BY <1>1, Zenon DEF message
<1> QED
  BY <1>1, <1>2, <1>3
     DEF frame, prefixLen, suffixLen, newlines, isHeaderFooter, delimited

(* What the first pass counts is what lies ahead of the second. *)
LEMMA CountedAhead ==
  ASSUME TypeOK, delimited, ~isHeaderFooter
  PROVE  countLines = Cardinality(newlinesFrom(1)) + openFrom(1)
<1>1. message \in Seq(Char) /\ Len(message) = messageLen /\ messageLen \in Nat
  BY MessageIs DEF delimited, least, TypeOK
<1>2. newlines \subseteq 1 .. Len(message)
  BY NewlinesFinite
<1>3. newlinesFrom(1) = newlines
  <2>1. \A i \in newlines : i >= 1
    BY <1>1, <1>2
  <2> QED
    BY <2>1, Zenon DEF newlinesFrom
<1>4. (message # <<>> /\ Last(message) # "n")
        <=> (1 <= messageLen /\ message[messageLen] # "n")
  BY <1>1 DEF Last
<1> QED
  BY <1>3, <1>4 DEF countLines, openFrom

(* A line ahead is behind once it is copied: the newline that ends it is  *)
(* one of those ahead, or it is the last line and has none.               *)
LEMMA OneLineLess ==
  ASSUME TypeOK, delimited, pm <= messageLen
  PROVE  /\ afterLine \in lineEnd .. lineEnd + 1
         /\ Cardinality(newlinesFrom(pm)) + openFrom(pm)
              = 1 + Cardinality(newlinesFrom(afterLine)) + openFrom(afterLine)
<1>1. /\ pm \in Nat \ {0} /\ messageLen \in Nat
      /\ msg \in Seq(Char) /\ messageLen <= Len(msg)
  BY DEF TypeOK, delimited, Char
<1>2. /\ message \in Seq(Char) /\ Len(message) = messageLen
      /\ \A i \in 1 .. messageLen : message[i] = msg[i]
  BY <1>1, MessageIs DEF least
<1>3. /\ lineEnd \in pm .. messageLen + 1
      /\ lineEnd <= messageLen => message[lineEnd] = "n"
      /\ \A i \in pm .. lineEnd - 1 : message[i] # "n"
  BY LineEnds
<1>4. /\ newlines = {i \in 1 .. messageLen : message[i] = "n"}
      /\ \A k : IsFiniteSet(newlinesFrom(k)) /\ Cardinality(newlinesFrom(k)) \in Nat
  <2>1. newlines = {i \in 1 .. messageLen : message[i] = "n"}
    BY <1>2 DEF newlines
  <2>2. \A k : IsFiniteSet(newlinesFrom(k)) /\ Cardinality(newlinesFrom(k)) \in Nat
    BY NewlinesFinite, Zenon
  <2> QED
    BY <2>1, <2>2
<1>5. afterLine \in lineEnd .. lineEnd + 1
  BY <1>1, <1>3 DEF afterLine
<1>6. CASE lineEnd <= messageLen
  <2>1. afterLine = lineEnd + 1
    BY <1>1, <1>2, <1>3, <1>6 DEF afterLine
  <2>2. newlinesFrom(afterLine) = newlinesFrom(pm) \ {lineEnd}
    BY <1>1, <1>3, <1>4, <1>6, <2>1 DEF newlinesFrom
  <2>3. lineEnd \in newlinesFrom(pm)
    BY <1>1, <1>3, <1>4, <1>6 DEF newlinesFrom
  <2>4. Cardinality(newlinesFrom(afterLine)) = Cardinality(newlinesFrom(pm)) - 1
    BY <1>4, <2>2, <2>3, FS_RemoveElement
  <2>5. openFrom(afterLine) = openFrom(pm) /\ openFrom(pm) \in Nat
    BY <1>1, <1>3, <1>6, <2>1 DEF openFrom
  <2> QED
    BY <1>4, <1>5, <2>4, <2>5
<1>7. CASE lineEnd = messageLen + 1
  <2>1. newlinesFrom(pm) = {} /\ newlinesFrom(afterLine) = {}
    BY <1>1, <1>3, <1>4, <1>5, <1>7 DEF newlinesFrom
  <2>2. openFrom(pm) = 1 /\ openFrom(afterLine) = 0
    BY <1>1, <1>3, <1>5, <1>7 DEF openFrom
  <2> QED
    BY <1>5, <2>1, <2>2, FS_EmptySet
<1> QED
  BY <1>1, <1>3, <1>6, <1>7

(* No buffer is filled before the first pass. *)
LEMMA PassInit == Init => PassInv
BY DEF Init, PassInv

(* The first pass sizes the buffer for what the second has ahead. *)
LEMMA PassSize == FormatInv /\ sizeBuffer => PassInv'
<1> SUFFICES ASSUME FormatInv, sizeBuffer, pc' \in {"copy", "done"}, delimited'
             PROVE  /\ bufferSize' = numLines' * frame' + messageLen' + 1
                    /\ isHeaderFooter' => InOnePiece'
                    /\ ~isHeaderFooter' => ByLine'
  BY DEF PassInv
<1>1. /\ pc = "size" /\ delimited /\ pc' = "copy"
      /\ numLines' = countLines /\ bufferSize' = sizeNeeded(numLines')
      /\ UNCHANGED <<input, msg, len, entryVars, pm, p, shown>>
  BY DEF sizeBuffer
<1>2. /\ frame' = frame /\ message' = message /\ newlines' = newlines
      /\ (isHeaderFooter' <=> isHeaderFooter) /\ messageLen' = messageLen
  BY <1>1, SameMessage
<1>3. TypeOK /\ pm = 1 /\ p = 0 /\ shown = <<>> /\ messageLen \in Nat /\ frame \in Nat
  BY <1>1, Widths DEF FormatInv, Fresh, TypeOK
<1>4. countLines \in Nat
  BY <1>3, CountIsNat
<1>5. bufferSize' = numLines' * frame' + messageLen' + 1
  BY <1>1, <1>2, <1>3, <1>4, SizeIsNat
<1>6. ASSUME isHeaderFooter PROVE InOnePiece'
  BY <1>1, <1>3, <1>6 DEF InOnePiece, countLines
<1>7. ASSUME ~isHeaderFooter PROVE ByLine'
  <2>1. countLines = Cardinality(newlinesFrom(1)) + openFrom(1)
    BY <1>1, <1>3, <1>7, CountedAhead
  <2>2. newlinesFrom(pm)' = newlinesFrom(1) /\ openFrom(pm)' = openFrom(1)
    BY <1>1, <1>2, <1>3 DEF newlinesFrom, openFrom
  <2>3. Len(shown') = 0 /\ p' = 0 /\ pm' = 1
    BY <1>1, <1>3
  <2>4. /\ Cardinality(newlinesFrom(1)) \in Nat /\ openFrom(1) \in Nat
        /\ 0 * frame = 0 /\ least(1 - 1, messageLen) = 0
    BY <1>3, NewlinesFinite DEF openFrom, least
  <2> QED
    BY <1>1, <1>2, <1>3, <2>1, <2>2, <2>3, <2>4 DEF ByLine
<1> QED
  BY <1>2, <1>5, <1>6, <1>7

(* A line goes from what is ahead to what is shown, with its frame. *)
LEMMA PassLine == FormatInv /\ PassInv /\ copyLine => PassInv'
<1> SUFFICES ASSUME FormatInv, PassInv, copyLine
             PROVE  /\ bufferSize' = numLines' * frame' + messageLen' + 1
                    /\ ~isHeaderFooter'
                    /\ ByLine'
  BY DEF PassInv
<1>1. /\ pc = "copy" /\ ~isHeaderFooter /\ pm <= messageLen
      /\ p' = p + prefixLen + (lineEnd - pm) + suffixLen
      /\ Len(shown') = Len(shown) + 1 /\ pm' = afterLine
      /\ UNCHANGED <<pc, input, msg, len, entryVars, numLines, bufferSize>>
  BY DEF copyLine, FormatInv, TypeOK
<1>2. TypeOK /\ delimited /\ ByLine /\ bufferSize = numLines * frame + messageLen + 1
  BY <1>1 DEF FormatInv, Copyable, PassInv
<1>3. /\ frame' = frame /\ message' = message /\ newlines' = newlines
      /\ (isHeaderFooter' <=> isHeaderFooter) /\ messageLen' = messageLen
  BY <1>1, SameMessage
<1>4. /\ pm \in Nat \ {0} /\ messageLen \in Nat /\ p \in Nat /\ numLines \in Nat
      /\ Len(shown) \in Nat /\ prefixLen \in Nat /\ suffixLen \in Nat
      /\ frame = prefixLen + suffixLen
  BY <1>2, Widths DEF TypeOK, frame
<1>5. lineEnd \in pm .. messageLen + 1
  BY <1>1, <1>2, LineEnds
<1>6. /\ afterLine \in lineEnd .. lineEnd + 1
      /\ Cardinality(newlinesFrom(pm)) + openFrom(pm)
           = 1 + Cardinality(newlinesFrom(afterLine)) + openFrom(afterLine)
  BY <1>1, <1>2, OneLineLess
<1>7. numLines' = Len(shown') + Cardinality(newlinesFrom(pm)') + openFrom(pm)'
  <2>1. newlinesFrom(pm)' = newlinesFrom(afterLine) /\ openFrom(pm)' = openFrom(afterLine)
    BY <1>1, <1>3 DEF newlinesFrom, openFrom
  <2>2. /\ Cardinality(newlinesFrom(pm)) \in Nat /\ openFrom(pm) \in Nat
        /\ Cardinality(newlinesFrom(afterLine)) \in Nat /\ openFrom(afterLine) \in Nat
    BY <1>2, NewlinesFinite DEF openFrom
  <2>3. numLines = Len(shown) + Cardinality(newlinesFrom(pm)) + openFrom(pm)
    BY <1>2 DEF ByLine
  <2>4. numLines = Len(shown) + 1 + Cardinality(newlinesFrom(afterLine))
                     + openFrom(afterLine)
    BY <1>4, <1>6, <2>2, <2>3
  <2> QED
    BY <1>1, <2>1, <2>4
<1>8. p' <= Len(shown') * frame' + least(pm' - 1, messageLen')
  <2>1. p <= Len(shown) * frame + (pm - 1)
    BY <1>1, <1>2, <1>4 DEF ByLine, least
  <2>2. (Len(shown) + 1) * frame = Len(shown) * frame + frame
    BY <1>4
  <2>3. Len(shown) * frame \in Nat
    BY <1>4
  <2>4. lineEnd - 1 <= least(pm' - 1, messageLen)
    BY <1>1, <1>4, <1>5, <1>6 DEF least
  <2>5. least(pm' - 1, messageLen) \in Int
    BY <1>1, <1>4, <1>5, <1>6 DEF least
  <2>6. p' <= Len(shown) * frame + frame + (lineEnd - 1)
    BY <1>1, <1>4, <1>5, <2>1, <2>3
  <2> QED
    BY <1>1, <1>3, <1>4, <1>5, <2>2, <2>3, <2>4, <2>5, <2>6
<1> QED
  BY <1>1, <1>2, <1>3, <1>7, <1>8 DEF ByLine

(* Header and footer frame the whole message once. *)
LEMMA PassLong == FormatInv /\ PassInv /\ copyLong => PassInv'
<1> SUFFICES ASSUME FormatInv, PassInv, copyLong
             PROVE  /\ bufferSize' = numLines' * frame' + messageLen' + 1
                    /\ isHeaderFooter'
                    /\ InOnePiece'
  BY DEF PassInv
<1>1. /\ pc = "copy" /\ isHeaderFooter
      /\ p' = prefixLen + messageLen + suffixLen /\ shown' = <<message>>
      /\ UNCHANGED <<pc, input, msg, len, entryVars, numLines, bufferSize, pm>>
  BY DEF copyLong
<1>2. InOnePiece /\ bufferSize = numLines * frame + messageLen + 1
  BY <1>1 DEF FormatInv, Copyable, PassInv
<1>3. /\ frame' = frame /\ (isHeaderFooter' <=> isHeaderFooter)
      /\ messageLen' = messageLen
  BY <1>1, SameMessage
<1>4. p' = frame + messageLen
  BY <1>1, Widths DEF FormatInv, TypeOK, frame
<1>5. Len(shown') = 1 /\ shown' # <<>>
  BY <1>1
<1> QED
  BY <1>1, <1>2, <1>3, <1>4, <1>5 DEF InOnePiece

(* The second pass ends with nothing ahead. *)
LEMMA PassFinish == FormatInv /\ PassInv /\ finish => PassInv'
<1> SUFFICES ASSUME FormatInv, PassInv, finish
             PROVE  /\ bufferSize' = numLines' * frame' + messageLen' + 1
                    /\ isHeaderFooter' => InOnePiece'
                    /\ ~isHeaderFooter' => ByLine'
  BY DEF PassInv
<1>1. /\ pc = "copy" /\ pc' = "done"
      /\ IF isHeaderFooter THEN shown # <<>> ELSE pm > messageLen
      /\ UNCHANGED <<input, msg, len, entryVars, bufferVars>>
  BY DEF finish
<1>2. /\ bufferSize = numLines * frame + messageLen + 1
      /\ IF isHeaderFooter THEN InOnePiece ELSE ByLine
  BY <1>1 DEF FormatInv, Copyable, PassInv
<1>3. /\ frame' = frame /\ message' = message /\ newlines' = newlines
      /\ (isHeaderFooter' <=> isHeaderFooter) /\ messageLen' = messageLen
  BY <1>1, SameMessage
<1>4. /\ numLines' = numLines /\ bufferSize' = bufferSize /\ pm' = pm
      /\ p' = p /\ shown' = shown
  BY <1>1 DEF bufferVars
<1>5. ASSUME isHeaderFooter PROVE InOnePiece'
  BY <1>1, <1>2, <1>3, <1>4, <1>5 DEF InOnePiece
<1>6. ASSUME ~isHeaderFooter PROVE ByLine'
  <2>1. newlinesFrom(pm)' = newlinesFrom(pm) /\ openFrom(pm)' = openFrom(pm)
    BY <1>3, <1>4 DEF newlinesFrom, openFrom
  <2> QED
    BY <1>1, <1>2, <1>3, <1>4, <1>6, <2>1 DEF ByLine
<1> QED
  BY <1>2, <1>3, <1>4, <1>5, <1>6

(* The steps that leave no message with sound lengths in the buffer. *)
LEMMA PassElsewhere ==
  ASSUME \/ pc' \notin {"copy", "done"}
         \/ ~delimited'
  PROVE  PassInv'
BY DEF PassInv

(* Every step keeps both passes together. *)
LEMMA PassStep == FormatInv /\ PassInv /\ [Next]_vars => PassInv'
<1> SUFFICES ASSUME FormatInv, PassInv, [Next]_vars PROVE PassInv'
  OBVIOUS
<1>1. CASE UNCHANGED vars
  <2>1. UNCHANGED <<input, msg, len, entryVars>>
    BY <1>1 DEF vars
  <2>2. /\ frame' = frame /\ message' = message /\ newlines' = newlines
        /\ (isHeaderFooter' <=> isHeaderFooter) /\ (delimited' <=> delimited)
        /\ messageLen' = messageLen
    BY <2>1, SameMessage
  <2>3. UNCHANGED <<pc, numLines, bufferSize, pm, p, shown>>
    BY <1>1 DEF vars, bufferVars
  <2>4. newlinesFrom(pm)' = newlinesFrom(pm) /\ openFrom(pm)' = openFrom(pm)
    BY <2>2, <2>3 DEF newlinesFrom, openFrom
  <2>5. (ByLine' <=> ByLine) /\ (InOnePiece' <=> InOnePiece)
    BY <2>2, <2>3, <2>4 DEF ByLine, InOnePiece
  <2> QED
    BY <2>2, <2>3, <2>5 DEF PassInv
<1>2. CASE dlog_print \/ writev \/ log_process_log_buffer
  <2>1. pc' \in {"write", "process", "size"}
    BY <1>2 DEF dlog_print, writev, log_process_log_buffer
  <2> QED
    BY <2>1, PassElsewhere
<1>3. CASE sizeBufferWrapped
  <2>1. ~delimited /\ UNCHANGED <<input, msg, len, entryVars>>
    BY <1>3 DEF sizeBufferWrapped
  <2> QED
    BY <2>1, SameMessage, PassElsewhere
<1> QED
  BY <1>1, <1>2, <1>3, PassSize, PassLine, PassLong, PassFinish
     DEF Next, log_format_log_line

(* Both passes stay together throughout. *)
LEMMA PassInvariant == Spec => [](FormatInv /\ PassInv)
BY FormatInit, FormatStep, PassInit, PassStep, PTL DEF Spec

(* log_format_log_line fills with strcat and strncat a buffer it has      *)
(* sized by counting: in every format, at every line and for every text,  *)
(* prefix, line, suffix and the final NUL fit in the size counted.        *)
THEOREM NoOverrun == Spec => []WithinBuffer
<1>1. FormatInv /\ PassInv => WithinBuffer
  <2> SUFFICES ASSUME FormatInv, PassInv, pc \in {"copy", "done"}, delimited
               PROVE  p < bufferSize
    BY DEF WithinBuffer
  <2>1. /\ frame \in Nat /\ messageLen \in Nat /\ numLines \in Nat /\ p \in Nat
        /\ Len(shown) \in Nat /\ pm \in Nat \ {0} /\ TypeOK
    BY Widths DEF FormatInv, TypeOK
  <2>2. bufferSize = numLines * frame + messageLen + 1
    BY DEF PassInv
  <2>3. numLines * frame \in Nat /\ 1 * frame = frame
    BY <2>1
  <2>4. CASE isHeaderFooter
    <3>1. numLines * frame = frame
      BY <2>3, <2>4 DEF PassInv, InOnePiece
    <3>2. p = 0 \/ p = frame + messageLen
      BY <2>4 DEF PassInv, InOnePiece
    <3> QED
      BY <2>1, <2>2, <3>1, <3>2
  <2>5. CASE ~isHeaderFooter
    <3>1. Cardinality(newlinesFrom(pm)) \in Nat /\ openFrom(pm) \in Nat
      BY <2>1, NewlinesFinite DEF openFrom
    <3>2. Len(shown) <= numLines
      BY <2>1, <2>5, <3>1 DEF PassInv, ByLine
    <3>3. p <= Len(shown) * frame + messageLen
      BY <2>1, <2>5 DEF PassInv, ByLine, least
    <3>4. Len(shown) * frame <= numLines * frame
      <4>1. \A a, b, c \in Nat : a <= b => a * c <= b * c
        OBVIOUS
      <4> QED
        BY <2>1, <3>2, <4>1
    <3>5. Len(shown) * frame \in Nat
      BY <2>1
    <3> QED
      BY <2>1, <2>2, <2>3, <3>3, <3>4, <3>5
  <2> QED
    BY <2>4, <2>5
<1> QED
  BY <1>1, PassInvariant, PTL

(* The two loops of log_format_log_line find the same line ends: as many  *)
(* lines are written as were counted (logprint.c:482).                    *)
THEOREM SameLinesTwice == Spec => []LinesMatch
<1>1. FormatInv /\ PassInv => LinesMatch
  <2> SUFFICES ASSUME FormatInv, PassInv, pc = "done", delimited
               PROVE  Len(shown) = numLines
    BY DEF LinesMatch
  <2>1. /\ messageLen \in Nat /\ Len(shown) \in Nat /\ pm \in Nat \ {0} /\ TypeOK
    BY DEF FormatInv, TypeOK
  <2>2. CASE isHeaderFooter
    BY <2>2 DEF PassInv, InOnePiece
  <2>3. CASE ~isHeaderFooter
    <3>1. pm > messageLen
      BY <2>3 DEF PassInv, ByLine
    <3>2. newlines \subseteq 1 .. messageLen
      <4>1. Len(message) = messageLen
        BY <2>1, MessageIs DEF delimited, least, TypeOK
      <4> QED
        BY <2>1, <4>1, NewlinesFinite
    <3>3. newlinesFrom(pm) = {}
      <4>1. \A i \in newlines : ~(i >= pm)
        BY <2>1, <3>1, <3>2
      <4> QED
        BY <4>1, Zenon DEF newlinesFrom
    <3>4. openFrom(pm) = 0
      BY <2>1, <3>1 DEF openFrom
    <3>5. numLines = Len(shown) + Cardinality(newlinesFrom(pm)) + openFrom(pm)
      BY <2>3 DEF PassInv, ByLine
    <3> QED
      BY <2>1, <3>3, <3>4, <3>5, FS_EmptySet
  <2> QED
    BY <2>2, <2>3
<1> QED
  BY <1>1, PassInvariant, PTL

-----------------------------------------------------------------------------
(* The text. *)

(* What is sent is a beginning of the caller's text; the driver leaves of *)
(* it what the payload has room for.                                      *)
room == least(least(Len(text), LOG_BUF_SIZE - 1), LOGGER_ENTRY_MAX_PAYLOAD - tag - 3)
Arrived ==
  /\ pc # "print" =>
       Len(msg) <= Len(text) /\ \A i \in 1 .. Len(msg) : msg[i] = text[i]
  /\ pc = "write" => Len(msg) = least(Len(text), LOG_BUF_SIZE - 1)
  /\ (pc \notin {"print", "write"} /\ tagFits) => len - tag - 3 = room

(* The ends of the lines that lie behind position k. *)
behind(k) == {e \in ends(message) : e < k \/ k > messageLen}

(* The second pass stands at the beginning of a line, and what is shown   *)
(* are the lines behind it, each at its place.                            *)
ByPlace ==
  /\ pm = 1 \/ pm > messageLen \/ message[pm - 1] = "n"
  /\ Len(shown) = Cardinality(behind(pm))
  /\ \A e \in behind(pm) : \A b \in 1 .. e :
       isLine(message, b, e) =>
         shown[place(message, e)] = SubSeq(message, b, e - 1)

SplitInv ==
  (pc \in {"copy", "done"} /\ delimited) =>
    IF isHeaderFooter THEN shown # <<>> => shown = <<message>> ELSE ByPlace

(* Nothing is sent yet at the start; a cut by libdlog's buffer or by the  *)
(* driver leaves a beginning, and the other steps leave it alone.         *)
LEMMA ArrivedStep ==
  /\ Init => Arrived
  /\ FormatInv /\ Arrived /\ [Next]_vars => Arrived'
<1>1. Init => Arrived
  BY DEF Init, Arrived
<1> SUFFICES ASSUME FormatInv, Arrived, [Next]_vars PROVE Arrived'
  BY <1>1
<1>2. /\ text \in Seq(Char) /\ msg \in Seq(Char) /\ tag \in Nat
      /\ Len(text) \in Nat /\ Len(msg) \in Nat /\ LOG_BUF_SIZE \in Nat \ {0}
      /\ LOGGER_ENTRY_MAX_PAYLOAD \in Nat
  BY FormatAssumption, LenProperties
     DEF FormatInv, TypeOK, Char, LOGGER_ENTRY_MAX_PAYLOAD, LOGGER_ENTRY_MAX_LEN,
         sizeof_logger_entry
<1>3. CASE dlog_print
  <2> DEFINE k == least(Len(text), LOG_BUF_SIZE - 1)
  <2>1. msg' = SubSeq(text, 1, k) /\ pc' = "write" /\ text' = text
    BY <1>3 DEF dlog_print, input
  <2>2. k \in Nat /\ k <= Len(text)
    BY <1>2 DEF least
  <2>3. Len(msg') = k /\ \A i \in 1 .. k : msg'[i] = text[i]
    BY <1>2, <2>1, <2>2, Cut
  <2> QED
    BY <2>1, <2>2, <2>3 DEF Arrived
<1>4. CASE writev
  <2> DEFINE n == len'
             k == most(0, least(Len(msg), n - tag - 2))
  <2>1. /\ pc = "write" /\ msg' = SubSeq(msg, 1, k) /\ pc' = "process"
        /\ text' = text /\ tag' = tag
        /\ n = least(1 + (tag + 1) + (Len(msg) + 1), LOGGER_ENTRY_MAX_PAYLOAD)
    BY <1>4 DEF writev, input, payloadLen
  <2>2. k = most(0, least(Len(msg), n - tag - 2))
    OBVIOUS
  <2>3. len' = n
    OBVIOUS
  <2> HIDE DEF n, k
  <2>4. k \in Nat /\ k <= Len(msg)
    BY <1>2, <2>1, <2>2, PayloadCut
  <2>5. Len(msg') = k /\ \A i \in 1 .. k : msg'[i] = msg[i]
    BY <1>2, <2>1, <2>4, Cut
  <2>6. /\ Len(msg) = least(Len(text), LOG_BUF_SIZE - 1) /\ Len(msg) <= Len(text)
        /\ \A i \in 1 .. Len(msg) : msg[i] = text[i]
    BY <2>1 DEF Arrived
  <2>7. \A i \in 1 .. k : i \in 1 .. Len(msg)
    BY <1>2, <2>4
  <2>8. n - tag - 3 = least(Len(msg), LOGGER_ENTRY_MAX_PAYLOAD - tag - 3)
    BY <1>2, <2>1 DEF least
  <2>9. len' - tag' - 3 = room'
    BY <2>1, <2>3, <2>6, <2>8 DEF room
  <2> QED
    BY <1>2, <2>1, <2>4, <2>5, <2>6, <2>7, <2>9 DEF Arrived
<1>5. ASSUME \/ UNCHANGED vars \/ log_process_log_buffer \/ log_format_log_line
      PROVE  Arrived'
  <2>1. /\ UNCHANGED <<msg, text, tag, len>>
        /\ pc' = pc \/ (pc \notin {"print", "write"} /\ pc' \notin {"print", "write"})
    BY <1>5 DEF vars, log_process_log_buffer, log_format_log_line, sizeBuffer,
       sizeBufferWrapped, copyLine, copyLong, finish, input
  <2> QED
    BY <2>1 DEF Arrived, room, tagFits
<1> QED
  BY <1>3, <1>4, <1>5 DEF Next

(* With a tag that fits, what the reader delimits is what libdlog's       *)
(* buffer and the payload had room for.                                   *)
LEMMA MessageDelivered ==
  ASSUME FormatInv, Arrived, tagFits,
         pc \in {"size", "copy", "done", "exit", "undefined"}
  PROVE  message = delivered
<1>1. /\ text \in Seq(Char) /\ msg \in Seq(Char) /\ messageLen \in Nat /\ TypeOK
      /\ Len(text) \in Nat /\ Len(msg) \in Nat
  BY LenProperties DEF FormatInv, TypeOK, Char
<1>2. messageLen = room /\ messageLen <= Len(msg) /\ Len(msg) <= Len(text)
  BY DEF FormatInv, Found, Sent, Arrived
<1>3. message = SubSeq(msg, 1, messageLen)
  BY <1>1, <1>2 DEF message, least
<1>4. delivered = SubSeq(text, 1, messageLen)
  BY <1>2 DEF delivered, room
<1>5. /\ message \in Seq(Char) /\ Len(message) = messageLen
      /\ \A i \in 1 .. messageLen : message[i] = msg[i]
  BY <1>1, <1>2, <1>3, Cut
<1>6. /\ delivered \in Seq(Char) /\ Len(delivered) = messageLen
      /\ \A i \in 1 .. messageLen : delivered[i] = text[i]
  BY <1>1, <1>2, <1>4, Cut
<1>7. \A i \in 1 .. messageLen : msg[i] = text[i]
  BY <1>1, <1>2 DEF Arrived
<1> QED
  BY <1>5, <1>6, <1>7, SeqEqual

(* The ends of the lines of the message. *)
LEMMA EndsOf ==
  ASSUME TypeOK, delimited
  PROVE  /\ message \in Seq(Char) /\ Len(message) = messageLen /\ messageLen \in Nat
         /\ ends(message) \subseteq 1 .. messageLen + 1
         /\ \A e \in 1 .. messageLen : e \in ends(message) <=> message[e] = "n"
         /\ messageLen + 1 \in ends(message)
              <=> (messageLen > 0 /\ message[messageLen] # "n")
         /\ \A S : S \subseteq ends(message) =>
              IsFiniteSet(S) /\ Cardinality(S) \in Nat
<1>1. message \in Seq(Char) /\ Len(message) = messageLen /\ messageLen \in Nat
  BY MessageIs DEF delimited, least, TypeOK
<1>2. (message # <<>> /\ Last(message) # "n")
        <=> (messageLen > 0 /\ message[messageLen] # "n")
  BY <1>1 DEF Last
<1>3. ends(message)
        = {i \in 1 .. messageLen : message[i] = "n"}
            \cup (IF messageLen > 0 /\ message[messageLen] # "n"
                    THEN {messageLen + 1} ELSE {})
  BY <1>1, <1>2 DEF ends
<1>4. /\ ends(message) \subseteq 1 .. messageLen + 1
      /\ \A e \in 1 .. messageLen : e \in ends(message) <=> message[e] = "n"
      /\ messageLen + 1 \in ends(message)
           <=> (messageLen > 0 /\ message[messageLen] # "n")
  BY <1>1, <1>3
<1>5. IsFiniteSet(1 .. messageLen + 1)
  BY <1>1, FS_Interval
<1>6. ASSUME NEW S, S \subseteq ends(message)
      PROVE  IsFiniteSet(S) /\ Cardinality(S) \in Nat
  BY <1>4, <1>5, <1>6, FS_Subset, FS_CardinalityType
<1> QED
  BY <1>1, <1>4, <1>6

(* The end of the line that begins at pm is the next one: it follows the  *)
(* ones behind, and is behind when the line is copied.                    *)
LEMMA NextEnd ==
  ASSUME TypeOK, delimited, pm <= messageLen
  PROVE  /\ lineEnd \in ends(message) /\ lineEnd \notin behind(pm)
         /\ behind(afterLine) = behind(pm) \cup {lineEnd}
         /\ {i \in ends(message) : i <= lineEnd} = behind(pm) \cup {lineEnd}
<1>1. /\ pm \in Nat \ {0} /\ messageLen \in Nat
      /\ msg \in Seq(Char) /\ messageLen <= Len(msg)
  BY DEF TypeOK, delimited, Char
<1>2. /\ lineEnd \in pm .. messageLen + 1
      /\ lineEnd <= messageLen => message[lineEnd] = "n"
      /\ \A i \in pm .. lineEnd - 1 : message[i] # "n"
  BY LineEnds
<1>3. /\ ends(message) \subseteq 1 .. messageLen + 1
      /\ \A e \in 1 .. messageLen : e \in ends(message) <=> message[e] = "n"
      /\ messageLen + 1 \in ends(message)
           <=> (messageLen > 0 /\ message[messageLen] # "n")
      /\ \A i \in 1 .. messageLen : message[i] = msg[i]
  BY <1>1, EndsOf, MessageIs
<1>4. lineEnd \in ends(message)
  BY <1>1, <1>2, <1>3
<1>5. lineEnd \notin behind(pm)
  BY <1>1, <1>2 DEF behind
<1>6. ASSUME NEW i \in ends(message)
      PROVE  i <= lineEnd <=> (i < pm \/ i = lineEnd)
  BY <1>1, <1>2, <1>3, <1>6
<1>7. afterLine = IF lineEnd <= messageLen THEN lineEnd + 1 ELSE afterLine
  BY <1>1, <1>2, <1>3 DEF afterLine
<1>8. afterLine \in lineEnd .. lineEnd + 1
  BY OneLineLess
<1>9. ASSUME NEW i \in ends(message)
      PROVE  (i < afterLine \/ afterLine > messageLen) <=> i <= lineEnd
  <2>1. i \in 1 .. messageLen + 1
    BY <1>3
  <2>2. CASE lineEnd = messageLen + 1
    BY <1>1, <1>8, <2>1, <2>2
  <2>3. CASE lineEnd = messageLen
    <3>1. i # messageLen + 1
      BY <1>1, <1>2, <1>3, <2>3
    <3> QED
      BY <1>1, <1>7, <2>1, <2>3, <3>1
  <2>4. CASE lineEnd < messageLen
    BY <1>1, <1>2, <1>7, <2>1, <2>4
  <2> QED
    BY <1>1, <1>2, <2>2, <2>3, <2>4
<1>10. ~(pm > messageLen)
  BY <1>1
<1>11. {i \in ends(message) : i <= lineEnd} = behind(pm) \cup {lineEnd}
  BY <1>4, <1>6, <1>10 DEF behind
<1>12. behind(afterLine) = {i \in ends(message) : i <= lineEnd}
  BY <1>9 DEF behind
<1> QED
  BY <1>4, <1>5, <1>11, <1>12

(* Only one line ends there, the one that begins at pm. *)
LEMMA OneBeginning ==
  ASSUME TypeOK, delimited, pm <= messageLen, pm = 1 \/ message[pm - 1] = "n",
         NEW b \in 1 .. lineEnd, isLine(message, b, lineEnd)
  PROVE  b = pm
<1>1. /\ pm \in Nat \ {0} /\ messageLen \in Nat
  BY DEF TypeOK
<1>2. /\ lineEnd \in pm .. messageLen + 1
      /\ \A i \in pm .. lineEnd - 1 : message[i] # "n"
  BY LineEnds
<1>3. ~(b < pm)
  <2> SUFFICES ASSUME b < pm PROVE FALSE
    OBVIOUS
  <2>1. pm - 1 \in b .. lineEnd - 1 /\ pm # 1
    BY <1>1, <1>2
  <2> QED
    BY <2>1 DEF isLine
<1>4. ~(pm < b)
  <2> SUFFICES ASSUME pm < b PROVE FALSE
    OBVIOUS
  <2>1. b - 1 \in pm .. lineEnd - 1 /\ b # 1
    BY <1>1, <1>2
  <2> QED
    BY <1>2, <2>1 DEF isLine
<1> QED
  BY <1>1, <1>3, <1>4

(* Before the first line is copied no line is behind. *)
LEMMA SplitSize == FormatInv /\ sizeBuffer => SplitInv'
<1> SUFFICES ASSUME FormatInv, sizeBuffer, pc' \in {"copy", "done"}
             PROVE  /\ isHeaderFooter' => (shown' # <<>> => shown' = <<message'>>)
                    /\ ~isHeaderFooter' => ByPlace'
  BY DEF SplitInv
<1>1. /\ pc = "size" /\ delimited
      /\ UNCHANGED <<input, msg, len, entryVars, pm, p, shown>>
  BY DEF sizeBuffer
<1>2. TypeOK /\ pm' = 1 /\ shown' = <<>>
  BY <1>1 DEF FormatInv, Fresh
<1>3. message' = message /\ messageLen' = messageLen
  BY <1>1, SameMessage
<1>4. behind(1) = {}
  <2>1. /\ ends(message) \subseteq 1 .. messageLen + 1 /\ messageLen \in Nat
        /\ messageLen + 1 \in ends(message)
             <=> (messageLen > 0 /\ message[messageLen] # "n")
    BY <1>1, <1>2, EndsOf
  <2> QED
    BY <2>1 DEF behind
<1>5. behind(pm)' = {}
  BY <1>2, <1>3, <1>4 DEF behind, ends
<1>6. ByPlace'
  BY <1>2, <1>5, FS_EmptySet DEF ByPlace
<1> QED
  BY <1>2, <1>6

(* A copied line goes to the place of its end. *)
LEMMA SplitLine == FormatInv /\ SplitInv /\ copyLine => SplitInv'
<1> SUFFICES ASSUME FormatInv, SplitInv, copyLine
             PROVE  ~isHeaderFooter' /\ ByPlace'
  BY DEF SplitInv
<1> DEFINE line == SubSeq(message, pm, lineEnd - 1)
           n == Len(shown) + 1
<1>1. /\ pc = "copy" /\ ~isHeaderFooter /\ pm <= messageLen
      /\ shown' = Append(shown, line) /\ pm' = afterLine
      /\ UNCHANGED <<input, msg, len, entryVars>>
  BY DEF copyLine
<1>2. TypeOK /\ delimited /\ ByPlace
  BY <1>1 DEF FormatInv, Copyable, SplitInv
<1>3. /\ message' = message /\ messageLen' = messageLen
      /\ (isHeaderFooter' <=> isHeaderFooter)
  BY <1>1, SameMessage
<1>4. /\ pm \in Nat \ {0} /\ messageLen \in Nat /\ shown \in Seq(Seq(Char))
      /\ Len(shown) \in Nat /\ shown' \in Seq(Seq(Char))
  <2>1. shown' \in Seq(Seq(Char))
    BY FormatLine DEF FormatInv, TypeOK, Char
  <2> QED
    BY <1>2, <2>1, LenProperties DEF TypeOK, Char
<1>5. /\ lineEnd \in pm .. messageLen + 1
      /\ lineEnd <= messageLen => message[lineEnd] = "n"
  BY <1>1, <1>2, LineEnds
<1>6. /\ lineEnd \in ends(message) /\ lineEnd \notin behind(pm)
      /\ behind(afterLine) = behind(pm) \cup {lineEnd}
      /\ {i \in ends(message) : i <= lineEnd} = behind(pm) \cup {lineEnd}
  BY <1>1, <1>2, NextEnd
<1>7. /\ IsFiniteSet(behind(pm)) /\ Cardinality(behind(pm)) = Len(shown)
      /\ Cardinality(behind(pm) \cup {lineEnd}) = n
  <2>1. behind(pm) \subseteq ends(message)
    BY DEF behind
  <2>2. IsFiniteSet(behind(pm)) /\ Cardinality(behind(pm)) = Len(shown)
    BY <1>2, <2>1, EndsOf DEF ByPlace
  <2> QED
    BY <1>6, <2>2, FS_AddElement
<1>8. /\ Len(shown') = n /\ shown'[n] = line
      /\ \A j \in 1 .. Len(shown) : shown'[j] = shown[j]
  <2>1. shown \in Seq(Seq(Char) \cup {line}) /\ line \in Seq(Char) \cup {line}
    BY <1>4, SeqMonotonic
  <2> HIDE DEF line
  <2> QED
    BY <1>1, <2>1, AppendProperties
<1>9. behind(pm)' = behind(pm) \cup {lineEnd}
  BY <1>1, <1>3, <1>6 DEF behind, ends
<1>10. pm' = 1 \/ pm' > messageLen' \/ message'[pm' - 1] = "n"
  <2>1. afterLine \in lineEnd .. lineEnd + 1
    BY <1>1, <1>2, OneLineLess
  <2>2. lineEnd <= messageLen => afterLine = lineEnd + 1
    <3>1. lineEnd <= messageLen => lineEnd <= Len(msg) /\ msg[lineEnd] = message[lineEnd]
      BY <1>2, <1>4, <1>5, MessageIs, EndsOf DEF delimited, TypeOK
    <3> QED
      BY <1>5, <3>1 DEF afterLine
  <2> QED
    BY <1>1, <1>3, <1>4, <1>5, <2>1, <2>2
<1> HIDE DEF line
<1>11. ASSUME NEW e \in behind(pm) \cup {lineEnd}, NEW b \in 1 .. e,
              isLine(message, b, e)
       PROVE  shown'[place(message, e)] = SubSeq(message, b, e - 1)
  <2>1. CASE e = lineEnd
    <3>1. b = pm
      BY <1>1, <1>2, <1>4, <1>11, <2>1, OneBeginning DEF ByPlace
    <3>2. place(message, e) = n
      BY <1>6, <1>7, <2>1 DEF place
    <3> QED
      BY <1>8, <2>1, <3>1, <3>2 DEF line
  <2>2. CASE e \in behind(pm)
    <3>1. shown[place(message, e)] = SubSeq(message, b, e - 1)
      BY <1>2, <1>11, <2>2 DEF ByPlace
    <3>2. place(message, e) \in 1 .. Len(shown)
      <4> DEFINE S == {i \in ends(message) : i <= e}
      <4>1. ends(message) \subseteq 1 .. messageLen + 1
        BY <1>2, EndsOf
      <4>2. e \in ends(message) /\ e < pm
        BY <1>1, <1>4, <2>2 DEF behind
      <4>3. S \subseteq behind(pm) /\ e \in S
        BY <1>4, <4>1, <4>2 DEF behind
      <4> HIDE DEF S
      <4>4. /\ IsFiniteSet(S) /\ Cardinality(S) \in Nat
            /\ Cardinality(S) <= Len(shown) /\ Cardinality(S) # 0
        BY <1>7, <4>3, FS_Subset, FS_CardinalityType, FS_EmptySet
      <4> QED
        BY <1>4, <4>4 DEF place, S
    <3> QED
      BY <1>8, <3>1, <3>2
  <2> QED
    BY <2>1, <2>2
<1>12. Len(shown') = Cardinality(behind(pm)')
  BY <1>7, <1>8, <1>9
<1>13. ByPlace'
  <2>1. \A e \in behind(pm)' : \A b \in 1 .. e :
          isLine(message', b, e) =>
            shown'[place(message', e)] = SubSeq(message', b, e - 1)
    BY <1>3, <1>9, <1>11
  <2> QED
    BY <1>10, <1>12, <2>1 DEF ByPlace, place, isLine, ends
<1> QED
  BY <1>1, <1>3, <1>13

(* Every step keeps what is shown together with the message. *)
LEMMA SplitStep == FormatInv /\ SplitInv /\ [Next]_vars => SplitInv'
<1> SUFFICES ASSUME FormatInv, SplitInv, [Next]_vars PROVE SplitInv'
  OBVIOUS
<1>1. CASE UNCHANGED vars \/ finish
  <2>1. /\ UNCHANGED <<input, msg, len, entryVars, pm, shown>>
        /\ pc' \in {"copy", "done"} => pc \in {"copy", "done"}
    BY <1>1 DEF vars, finish, bufferVars
  <2>2. /\ message' = message /\ messageLen' = messageLen
        /\ (isHeaderFooter' <=> isHeaderFooter) /\ (delimited' <=> delimited)
    BY <2>1, SameMessage
  <2>3. pm' = pm /\ shown' = shown
    BY <2>1
  <2>4. ByPlace' <=> ByPlace
    BY <2>2, <2>3 DEF ByPlace, behind, ends, place, isLine
  <2> QED
    BY <2>1, <2>2, <2>3, <2>4 DEF SplitInv
<1>2. CASE dlog_print \/ writev \/ log_process_log_buffer
  BY <1>2 DEF dlog_print, writev, log_process_log_buffer, SplitInv
<1>3. CASE sizeBufferWrapped
  <2>1. ~delimited /\ UNCHANGED <<input, msg, len, entryVars>>
    BY <1>3 DEF sizeBufferWrapped
  <2> QED
    BY <2>1, SameMessage DEF SplitInv
<1>4. CASE copyLong
  <2>1. /\ isHeaderFooter /\ shown' = <<message>>
        /\ UNCHANGED <<input, msg, len, entryVars>>
    BY <1>4 DEF copyLong
  <2> QED
    BY <2>1, SameMessage DEF SplitInv
<1> QED
  BY <1>1, <1>2, <1>3, <1>4, SplitSize, SplitLine DEF Next, log_format_log_line

(* The text is followed from the caller to the lines. *)
LEMMA TextInvariant == Spec => [](FormatInv /\ PassInv /\ Arrived /\ SplitInv)
<1>1. Init => SplitInv
  BY DEF Init, SplitInv
<1> QED
  BY <1>1, FormatInit, FormatStep, PassInit, PassStep, ArrivedStep, SplitStep, PTL
     DEF Spec

(* TextShown: whatever vsnprintf and the driver cut off, dlogutil prints  *)
(* every line of what they left, each once and at its place, empty lines  *)
(* included, although the reader knows the message by lengths alone.      *)
THEOREM EveryLineShown == Spec => []TextShown
<1>1. FormatInv /\ PassInv /\ Arrived /\ SplitInv => TextShown
  <2> SUFFICES ASSUME FormatInv, PassInv, Arrived, SplitInv, pc = "done", tagFits
               PROVE  /\ isHeaderFooter => shown = <<message>>
                      /\ ~isHeaderFooter =>
                           /\ Len(shown) = Cardinality(ends(message))
                           /\ \A e \in ends(message) : \A b \in 1 .. e :
                                isLine(message, b, e) =>
                                  shown[place(message, e)] = SubSeq(message, b, e - 1)
    <3>1. ASSUME pc = "done", tagFits, FormatInv, Arrived PROVE message = delivered
      BY <3>1, MessageDelivered
    <3> QED
      BY <3>1 DEF TextShown
  <2>1. delimited /\ messageLen \in Nat
    BY DEF FormatInv, TypeOK, Sent, Found, delimited
  <2>2. isHeaderFooter => shown = <<message>>
    BY <2>1 DEF SplitInv, PassInv, InOnePiece
  <2>3. ASSUME ~isHeaderFooter
        PROVE  ByPlace /\ behind(pm) = ends(message)
    <3>1. pm > messageLen /\ ByPlace
      BY <2>1, <2>3 DEF SplitInv, PassInv, ByLine
    <3> QED
      BY <3>1 DEF behind
  <2> QED
    BY <2>2, <2>3 DEF ByPlace
<1> QED
  BY <1>1, TextInvariant, PTL
==============================================================================
