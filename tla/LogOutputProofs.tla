--------------------------- MODULE LogOutputProofs ---------------------------
(***************************************************************************)
(* Proofs about LogOutput, for every limit, every count of rotated files,  *)
(* every number of deaths and failing renames or writes: the types, the    *)
(* order of the lines over the chain of files, that a rotation gives up    *)
(* only the oldest lines and moves only full files, and the bound on the   *)
(* active file.                                                            *)
(***************************************************************************)
EXTENDS LogOutput, TLAPS

limit == g_log_rotate_size_kbytes * KB

(* What is missing is empty, and every line on disk has been written. *)
LinesWritten ==
  \A i \in Chain :
    /\ files[i].lines \subseteq 1 .. nlines
    /\ ~files[i].present => files[i] = Absent

(* A running process has its file open and counts no byte the file does   *)
(* not hold; a rotation only runs over a file that reached the limit.     *)
Counted ==
  /\ pc = "run" => files[0].present /\ g_out_byte_count <= files[0].size
  /\ (pc = "rotate" /\ files[0].present) => files[0].size >= limit

(* While renames succeed, the rotation moves each file into a name that   *)
(* its previous step has vacated.                                         *)
Vacated ==
  (pc = "rotate" /\ ~unrenamed /\ step < g_max_rotated_logs)
    => ~files[step].present

OutputInv ==
  /\ TypeOK /\ LinesWritten /\ Counted /\ Vacated
  /\ FilesOrdered /\ RotatedFull /\ OnlyOldestLost

(* One line of any size and the headers of one process. *)
excess(longest) == longest + g_dev_count * HeaderSize

(* The counter lags behind the file by headers only, and starts over, or  *)
(* from a size that earlier deaths explain.                               *)
SizeExplained(longest) ==
  ~unrenamed =>
    /\ pc = "run" =>
         /\ files[0].size <= g_out_byte_count + headers * HeaderSize
         /\ g_out_byte_count < limit + crashes * excess(longest)
    /\ pc = "rotate" =>
         files[0].size < limit + (crashes + 1) * excess(longest)
    /\ pc = "dead" => files[0].size < limit + crashes * excess(longest)

HeadersBounded == headers <= g_dev_count

Longest == {s \in LineSizes : \A r \in LineSizes : r <= s}

BoundInv ==
  g_log_rotate_size_kbytes > 0 =>
    \A longest \in Longest : HeadersBounded /\ SizeExplained(longest)

-----------------------------------------------------------------------------
(* The rotation test compares whole kilobytes; it is the comparison of    *)
(* the units with the limit.                                              *)
LEMMA DivisionTest ==
  ASSUME NEW n \in Nat, NEW k \in Nat \ {0}, NEW l \in Nat
  PROVE  n \div k >= l <=> n >= l * k
<1> DEFINE q == n \div k
<1>1. q \in Nat /\ k * q <= n /\ n < k * (q + 1)
  OBVIOUS
<1>2. CASE q >= l
  <2>1. l * k <= k * q
    BY <1>1, <1>2
  <2> QED
    BY <1>1, <1>2, <2>1
<1>3. CASE ~(q >= l)
  <2>1. k * (q + 1) <= l * k
    BY <1>1, <1>3
  <2> QED
    BY <1>1, <1>3, <2>1
<1> QED
  BY <1>2, <1>3

(* limitReached of processBuffer, as a comparison with the limit. *)
LEMMA LimitTest ==
  ASSUME NEW count \in Nat, NEW bytes \in Nat
  PROVE  limitReached(count, bytes)
           <=> g_log_rotate_size_kbytes > 0 /\ count + bytes >= limit
  BY DivisionTest, OutputAssumption DEF limitReached, limit

(* A file that is missing or just created is a file. *)
LEMMA FileTypes == Absent \in File /\ Empty \in File
  BY DEF Absent, Empty, File

(* Writing to a file leaves a file: what processBuffer and                *)
(* maybePrintStart do to files[0].                                        *)
LEMMA FileWritten ==
  ASSUME NEW f \in File, NEW s \in Nat, NEW l \in SUBSET Nat
  PROVE  /\ [f EXCEPT !.size = s] \in File
         /\ [[f EXCEPT !.size = s] EXCEPT !.lines = l] \in File
  BY DEF File

(* The types hold initially. *)
LEMMA OutputTypeInit == Init => TypeOK
<1> SUFFICES ASSUME Init PROVE TypeOK
  OBVIOUS
<1>1. files \in [Chain -> File]
  BY FileTypes DEF Init
<1>2. unrenamed \in BOOLEAN
  BY DEF Init
<1>3. step \in Chain
  BY OutputAssumption DEF Init, Chain
<1> QED
  BY <1>1, <1>2, <1>3 DEF Init, TypeOK

(* What a printed or suppressed entry changes, name by name. *)
LEMMA LineEffect ==
  ASSUME TypeOK, NEW size \in LineSizes, processBuffer(size)
  PROVE  \E bytes \in Nat :
           /\ bytes <= size
           /\ nlines' = IF bytes > 0 THEN nlines + 1 ELSE nlines
           /\ files' \in [Chain -> File]
           /\ files'[0].present = files[0].present
           /\ files'[0].size = files[0].size + bytes
           /\ files'[0].lines = IF bytes > 0 THEN files[0].lines \cup {nlines + 1}
                                ELSE files[0].lines
           /\ \A i \in Chain \ {0} : files'[i] = files[i]
           /\ g_out_byte_count' = g_out_byte_count + bytes
           /\ IF limitReached(g_out_byte_count, bytes)
                THEN pc' = "rotate" /\ step' = g_max_rotated_logs
                ELSE pc' = pc /\ step' = step
<1>1. PICK bytes \in {0} \cup log_print_log_line(size) :
        /\ nlines' = IF bytes > 0 THEN nlines + 1 ELSE nlines
        /\ files' = [files EXCEPT
             ![0].size = @ + bytes,
             ![0].lines = IF bytes > 0 THEN @ \cup {nlines + 1} ELSE @]
        /\ g_out_byte_count' = g_out_byte_count + bytes
        /\ IF limitReached(g_out_byte_count, bytes)
             THEN pc' = "rotate" /\ step' = firstStep
             ELSE UNCHANGED <<pc, step>>
  BY DEF processBuffer
<1>2. bytes \in Nat /\ bytes <= size
  BY OutputAssumption DEF log_print_log_line
<1>3. 0 \in Chain /\ files \in [Chain -> File] /\ files[0] \in File /\ nlines \in Nat
  BY OutputAssumption DEF Chain, TypeOK
<1> DEFINE lines == IF bytes > 0 THEN files[0].lines \cup {nlines + 1} ELSE files[0].lines
           after == [[files[0] EXCEPT !.size = files[0].size + bytes] EXCEPT !.lines = lines]
<1>4. lines \in SUBSET Nat /\ files[0].size + bytes \in Nat
  BY <1>2, <1>3 DEF File
<1>5. after \in File
  BY <1>3, <1>4, FileWritten
<1>6. /\ after.present = files[0].present
      /\ after.size = files[0].size + bytes
      /\ after.lines = lines
  BY <1>3 DEF File
<1>7. files' = [files EXCEPT ![0] = after]
  BY <1>1, <1>3 DEF File
<1>8. files'[0] = after /\ files' \in [Chain -> File] /\ \A i \in Chain \ {0} : files'[i] = files[i]
  BY <1>3, <1>5, <1>7
<1> HIDE DEF after
<1> QED
  BY <1>1, <1>2, <1>6, <1>8 DEF firstStep

(* What a device header changes: the size of the active file. *)
LEMMA HeaderEffect ==
  ASSUME TypeOK, maybePrintStart
  PROVE  /\ files' \in [Chain -> File]
         /\ files'[0].present = files[0].present
         /\ files'[0].size = files[0].size + HeaderSize
         /\ files'[0].lines = files[0].lines
         /\ \A i \in Chain \ {0} : files'[i] = files[i]
<1>1. 0 \in Chain /\ files \in [Chain -> File] /\ files[0] \in File /\ HeaderSize \in Nat
  BY OutputAssumption DEF Chain, TypeOK
<1> DEFINE after == [files[0] EXCEPT !.size = files[0].size + HeaderSize]
<1>2. files[0].size + HeaderSize \in Nat
  BY <1>1 DEF File
<1>3. after \in File
  BY <1>1, <1>2, FileWritten
<1>4. /\ after.present = files[0].present
      /\ after.size = files[0].size + HeaderSize
      /\ after.lines = files[0].lines
  BY <1>1 DEF File
<1>5. files' = [files EXCEPT ![0] = after]
  BY <1>1 DEF maybePrintStart, File
<1> HIDE DEF after
<1> QED
  BY <1>1, <1>3, <1>4, <1>5

(* Reopening keeps a file that is there and creates one that is not. *)
LEMMA ReopenEffect ==
  ASSUME TypeOK, LinesWritten, files' = [files EXCEPT ![0] = open_logfile(@)]
  PROVE  /\ files' \in [Chain -> File]
         /\ files'[0].present
         /\ files'[0].size = files[0].size
         /\ files'[0].lines = files[0].lines
         /\ \A i \in Chain \ {0} : files'[i] = files[i]
<1>1. 0 \in Chain /\ files \in [Chain -> File] /\ files[0] \in File
  BY OutputAssumption DEF Chain, TypeOK
<1>2. files'[0] = IF files[0].present THEN files[0] ELSE Empty
  BY <1>1 DEF open_logfile
<1>3. ~files[0].present => files[0] = Absent
  BY <1>1 DEF LinesWritten
<1>4. files'[0].present /\ files'[0].size = files[0].size /\ files'[0].lines = files[0].lines
  BY <1>2, <1>3 DEF Empty, Absent
<1> QED
  BY <1>1, <1>2, <1>4, FileTypes

(* One step of the rotation: a file moves up one name, or stays because   *)
(* it is missing or its rename failed.                                    *)
renamed ==
  /\ files[step - 1].present
  /\ files'[step] = files[step - 1]
  /\ files'[step - 1] = Absent
  /\ \A i \in Chain \ {step, step - 1} : files'[i] = files[i]
  /\ unrenamed' = unrenamed

stayed ==
  /\ files' = files
  /\ \/ unrenamed'
     \/ ~files[step - 1].present /\ unrenamed' = unrenamed

(* A rename moves one file up by one, or leaves the files as they are. *)
LEMMA RenameEffect ==
  ASSUME TypeOK, rename
  PROVE  /\ files' \in [Chain -> File]
         /\ step \in Chain /\ step - 1 \in Chain /\ step \in Nat \ {0}
         /\ renamed \/ stayed
<1>1. /\ files \in [Chain -> File]
      /\ step \in Chain /\ step - 1 \in Chain /\ step \in Nat \ {0}
  BY OutputAssumption DEF Chain, TypeOK, rename
<1>2. CASE files' = [files EXCEPT ![step] = files[step - 1], ![step - 1] = Absent]
           /\ files[step - 1].present /\ unrenamed' = unrenamed
  <2>1. files' \in [Chain -> File]
    BY <1>1, <1>2, FileTypes
  <2>2. renamed
    BY <1>1, <1>2 DEF renamed
  <2> QED
    BY <1>1, <2>1, <2>2
<1>3. CASE stayed
  BY <1>1, <1>3 DEF stayed
<1> QED
  BY <1>2, <1>3 DEF rename, stayed

(* Every step keeps the types: a rotation never names a file that the     *)
(* count does not allow.                                                  *)
LEMMA OutputTypeStep ==
  ASSUME TypeOK, LinesWritten, [Next]_vars
  PROVE  TypeOK'
<1>1. CASE maybePrintStart
  BY <1>1, HeaderEffect DEF maybePrintStart, TypeOK
<1>2. ASSUME NEW size \in LineSizes, processBuffer(size) PROVE TypeOK'
  <2>1. /\ files' \in [Chain -> File]
        /\ nlines' \in Nat /\ g_out_byte_count' \in Nat
        /\ pc' \in {"run", "rotate", "dead"} /\ step' \in Chain
    BY <1>2, LineEffect, OutputAssumption DEF TypeOK, Chain
  <2> QED
    BY <1>2, <2>1 DEF processBuffer, TypeOK
<1>3. CASE rename
  <2>1. unrenamed' \in BOOLEAN
    BY <1>3 DEF rename, TypeOK
  <2> QED
    BY <1>3, <2>1, RenameEffect DEF rename, TypeOK
<1>4. CASE reopen
  BY <1>4, ReopenEffect DEF reopen, TypeOK
<1>5. CASE Die
  BY <1>5 DEF Die, TypeOK
<1>6. CASE setup_output
  <2>1. files[0].size \in Nat
    BY OutputAssumption DEF TypeOK, Chain, File
  <2> QED
    BY <1>6, <2>1, ReopenEffect DEF setup_output, TypeOK
<1>7. CASE UNCHANGED vars
  BY <1>7 DEF vars, TypeOK
<1> QED
  BY <1>1, <1>2, <1>3, <1>4, <1>5, <1>6, <1>7 DEF Next, rotate_logs

(* Every step keeps LinesWritten: only the active file gets new lines,    *)
(* and a name a rotation vacates is left empty.                           *)
LEMMA LinesWrittenStep ==
  ASSUME TypeOK, LinesWritten, Counted, [Next]_vars
  PROVE  LinesWritten'
<1> DEFINE written(f, n) == f.lines \subseteq 1 .. n /\ (~f.present => f = Absent)
<1>0. /\ nlines \in Nat /\ 0 \in Chain
      /\ \A i \in Chain : written(files[i], nlines)
  BY OutputAssumption DEF TypeOK, Chain, LinesWritten
<1> SUFFICES \A i \in Chain : written(files'[i], nlines')
  BY DEF LinesWritten
<1>1. CASE maybePrintStart
  <2>1. written(files'[0], nlines')
    BY <1>0, <1>1, HeaderEffect DEF maybePrintStart, Counted
  <2> QED
    BY <1>0, <1>1, <2>1, HeaderEffect DEF maybePrintStart
<1>2. ASSUME NEW size \in LineSizes, processBuffer(size)
      PROVE  \A i \in Chain : written(files'[i], nlines')
  <2>1. PICK bytes \in Nat :
          /\ nlines' = IF bytes > 0 THEN nlines + 1 ELSE nlines
          /\ files'[0].present = files[0].present
          /\ files'[0].lines = IF bytes > 0 THEN files[0].lines \cup {nlines + 1}
                               ELSE files[0].lines
          /\ \A i \in Chain \ {0} : files'[i] = files[i]
    BY <1>2, LineEffect
  <2>2. 1 .. nlines \subseteq 1 .. nlines'
    BY <1>0, <2>1
  <2>3. files'[0].lines \subseteq 1 .. nlines'
    BY <1>0, <2>1, <2>2
  <2>4. files'[0].present
    BY <1>2, <2>1 DEF processBuffer, Counted
  <2>5. \A i \in Chain \ {0} : written(files'[i], nlines')
    BY <1>0, <2>1, <2>2
  <2> QED
    BY <2>3, <2>4, <2>5
<1>3. CASE rename
  <2>1. nlines' = nlines
    BY <1>3 DEF rename
  <2>2. written(Absent, nlines)
    BY DEF Absent
  <2>3. CASE renamed
    BY <1>0, <1>3, <2>1, <2>2, <2>3, RenameEffect DEF renamed
  <2>4. CASE stayed
    BY <1>0, <2>1, <2>4 DEF stayed
  <2> QED
    BY <1>3, <2>3, <2>4, RenameEffect
<1>4. CASE reopen
  <2>1. written(files'[0], nlines')
    BY <1>0, <1>4, ReopenEffect DEF reopen
  <2> QED
    BY <1>0, <1>4, <2>1, ReopenEffect DEF reopen
<1>5. CASE Die
  BY <1>0, <1>5 DEF Die
<1>6. CASE setup_output
  <2>1. written(files'[0], nlines')
    BY <1>0, <1>6, ReopenEffect DEF setup_output
  <2> QED
    BY <1>0, <1>6, <2>1, ReopenEffect DEF setup_output
<1>7. CASE UNCHANGED vars
  BY <1>0, <1>7 DEF vars
<1> QED
  BY <1>1, <1>2, <1>3, <1>4, <1>5, <1>6, <1>7 DEF Next, rotate_logs

(* Every step keeps Counted: the counter and the file grow together, and  *)
(* the first step of a rotation follows a counter at the limit.           *)
LEMMA CountedStep ==
  ASSUME TypeOK, LinesWritten, Counted, [Next]_vars
  PROVE  Counted'
<1>0. /\ 0 \in Chain /\ files[0].size \in Nat /\ g_out_byte_count \in Nat
      /\ limit \in Nat /\ HeaderSize \in Nat
  BY OutputAssumption DEF TypeOK, Chain, File, limit
<1>1. CASE maybePrintStart
  BY <1>0, <1>1, HeaderEffect DEF maybePrintStart, Counted
<1>2. ASSUME NEW size \in LineSizes, processBuffer(size) PROVE Counted'
  <2>1. PICK bytes \in Nat :
          /\ files'[0].present = files[0].present
          /\ files'[0].size = files[0].size + bytes
          /\ g_out_byte_count' = g_out_byte_count + bytes
          /\ IF limitReached(g_out_byte_count, bytes)
               THEN pc' = "rotate" ELSE pc' = pc
    BY <1>2, LineEffect
  <2>2. limitReached(g_out_byte_count, bytes) => g_out_byte_count + bytes >= limit
    BY <1>0, LimitTest
  <2>3. pc = "run" /\ files[0].present /\ g_out_byte_count <= files[0].size
    BY <1>2 DEF processBuffer, Counted
  <2> QED
    BY <1>0, <2>1, <2>2, <2>3 DEF Counted, limit
<1>3. CASE rename
  <2>1. CASE renamed
    <3>1. files'[0].present => files'[0] = files[0]
      BY <1>0, <1>3, <2>1, RenameEffect DEF renamed, Absent
    <3> QED
      BY <1>3, <3>1 DEF rename, Counted, limit
  <2>2. CASE stayed
    BY <1>3, <2>2 DEF stayed, rename, Counted, limit
  <2> QED
    BY <1>3, <2>1, <2>2, RenameEffect
<1>4. CASE reopen
  BY <1>0, <1>4, ReopenEffect DEF reopen, Counted
<1>5. CASE Die
  BY <1>5 DEF Die, Counted
<1>6. CASE setup_output
  BY <1>0, <1>6, ReopenEffect DEF setup_output, Counted
<1>7. CASE UNCHANGED vars
  BY <1>7 DEF vars, Counted, limit
<1> QED
  BY <1>1, <1>2, <1>3, <1>4, <1>5, <1>6, <1>7 DEF Next, rotate_logs

(* Every step keeps Vacated: a rotation starts at the last name, and the  *)
(* name it has just left is free.                                         *)
LEMMA VacatedStep ==
  ASSUME TypeOK, LinesWritten, Vacated, [Next]_vars
  PROVE  Vacated'
<1>0. g_max_rotated_logs \in Nat /\ step \in Nat
  BY OutputAssumption DEF TypeOK, Chain
<1>1. CASE maybePrintStart
  BY <1>1 DEF maybePrintStart, Vacated
<1>2. ASSUME NEW size \in LineSizes, processBuffer(size) PROVE Vacated'
  <2>1. pc = "run"
    BY <1>2 DEF processBuffer
  <2>2. pc' = "rotate" => step' = g_max_rotated_logs
    BY <1>2, <2>1, LineEffect
  <2> QED
    BY <1>0, <2>2 DEF Vacated
<1>3. CASE rename
  <2>1. step' = step - 1
    BY <1>3 DEF rename
  <2>2. CASE renamed
    BY <2>1, <2>2 DEF renamed, Vacated, Absent
  <2>3. CASE stayed
    BY <2>1, <2>3 DEF stayed, Vacated
  <2> QED
    BY <1>3, <2>2, <2>3, RenameEffect
<1>4. CASE reopen
  BY <1>4 DEF reopen, Vacated
<1>5. CASE Die
  BY <1>5 DEF Die, Vacated
<1>6. CASE setup_output
  BY <1>6 DEF setup_output, Vacated
<1>7. CASE UNCHANGED vars
  BY <1>7 DEF vars, Vacated
<1> QED
  BY <1>1, <1>2, <1>3, <1>4, <1>5, <1>6, <1>7 DEF Next, rotate_logs

(* Every step keeps the order of the lines over the chain: a new line is  *)
(* the last one and goes to the first file, and a rename moves one file   *)
(* past no other that holds a line.                                       *)
LEMMA FilesOrderedStep ==
  ASSUME TypeOK, LinesWritten, FilesOrdered, [Next]_vars
  PROVE  FilesOrdered'
<1>0. /\ nlines \in Nat /\ 0 \in Chain /\ Chain \subseteq Nat
      /\ \A i \in Chain : files[i].lines \subseteq 1 .. nlines
  BY OutputAssumption DEF TypeOK, Chain, LinesWritten
<1>1. ASSUME \A i \in Chain : files'[i].lines = files[i].lines
      PROVE  FilesOrdered'
  BY <1>1 DEF FilesOrdered
<1>2. CASE maybePrintStart
  BY <1>1, <1>2, HeaderEffect
<1>3. ASSUME NEW size \in LineSizes, processBuffer(size) PROVE FilesOrdered'
  <2>1. /\ files'[0].lines \subseteq files[0].lines \cup {nlines + 1}
        /\ \A i \in Chain \ {0} : files'[i].lines = files[i].lines
    BY <1>3, LineEffect
  <2> SUFFICES ASSUME NEW i \in Chain, NEW j \in Chain, i < j,
                      NEW a \in files'[i].lines, NEW b \in files'[j].lines
               PROVE  b < a
    BY DEF FilesOrdered
  <2>2. j # 0 /\ b \in files[j].lines
    BY <1>0, <2>1
  <2>3. CASE a \in files[i].lines
    BY <2>2, <2>3 DEF FilesOrdered
  <2>4. CASE a = nlines + 1
    BY <1>0, <2>2, <2>4
  <2> QED
    BY <2>1, <2>3, <2>4
<1>4. CASE rename
  <2>1. CASE renamed
    <3> DEFINE from(i) == IF i = step THEN step - 1 ELSE i
    <3> SUFFICES ASSUME NEW i \in Chain, NEW j \in Chain, i < j,
                        NEW a \in files'[i].lines, NEW b \in files'[j].lines
                 PROVE  b < a
      BY DEF FilesOrdered
    <3>1. step \in Nat \ {0} /\ step - 1 \in Chain
      BY <1>4, RenameEffect
    <3>2. files'[step - 1].lines = {}
      BY <2>1 DEF renamed, Absent
    <3>3. i # step - 1 /\ j # step - 1
      BY <3>2
    <3>4. a \in files[from(i)].lines /\ b \in files[from(j)].lines
      BY <2>1, <3>3 DEF renamed
    <3>5. from(i) \in Chain /\ from(j) \in Chain /\ from(i) < from(j)
      BY <1>0, <3>1, <3>3
    <3> QED
      BY <3>4, <3>5 DEF FilesOrdered
  <2>2. CASE stayed
    BY <1>1, <2>2 DEF stayed
  <2> QED
    BY <1>4, <2>1, <2>2, RenameEffect
<1>5. CASE reopen \/ setup_output
  BY <1>1, <1>5, ReopenEffect DEF reopen, setup_output
<1>6. CASE Die \/ UNCHANGED vars
  BY <1>1, <1>6 DEF Die, vars
<1> QED
  BY <1>2, <1>3, <1>4, <1>5, <1>6 DEF Next, rotate_logs

(* Every step keeps RotatedFull: what a rotation moves up from the first  *)
(* name has reached the limit, and what it moves further was there.       *)
LEMMA RotatedFullStep ==
  ASSUME TypeOK, LinesWritten, Counted, RotatedFull, [Next]_vars
  PROVE  RotatedFull'
<1> DEFINE full(f) == f.present => f.size >= limit
<1>0. \A i \in Chain \ {0} : full(files[i])
  BY DEF RotatedFull, limit
<1>1. ASSUME \A i \in Chain \ {0} : files'[i] = files[i]
      PROVE  RotatedFull'
  BY <1>1 DEF RotatedFull
<1>2. CASE maybePrintStart
  BY <1>1, <1>2, HeaderEffect
<1>3. ASSUME NEW size \in LineSizes, processBuffer(size) PROVE RotatedFull'
  BY <1>1, <1>3, LineEffect
<1>4. CASE rename
  <2>1. CASE renamed
    <3>1. full(files[step - 1])
      BY <1>0, <1>4, RenameEffect DEF rename, Counted
    <3>2. full(Absent)
      BY DEF Absent
    <3>3. \A i \in Chain \ {0} : full(files'[i])
      BY <1>0, <2>1, <3>1, <3>2 DEF renamed
    <3> QED
      BY <3>3 DEF RotatedFull, limit
  <2>2. CASE stayed
    BY <1>1, <2>2 DEF stayed
  <2> QED
    BY <1>4, <2>1, <2>2, RenameEffect
<1>5. CASE reopen \/ setup_output
  BY <1>1, <1>5, ReopenEffect DEF reopen, setup_output
<1>6. CASE Die \/ UNCHANGED vars
  BY <1>1, <1>6 DEF Die, vars
<1> QED
  BY <1>2, <1>3, <1>4, <1>5, <1>6 DEF Next, rotate_logs

(* Every step keeps OnlyOldestLost: a rename overwrites nothing but the   *)
(* last file, whose lines are older than all the others on disk.          *)
LEMMA OnlyOldestLostStep ==
  ASSUME TypeOK, LinesWritten, Vacated, FilesOrdered, OnlyOldestLost, [Next]_vars
  PROVE  OnlyOldestLost'
<1>0. /\ nlines \in Nat /\ g_max_rotated_logs \in Nat /\ 0 \in Chain
      /\ \A i \in Chain : i \in Nat /\ i <= g_max_rotated_logs
      /\ \A i \in Chain : files[i].lines \subseteq 1 .. nlines
  BY OutputAssumption DEF TypeOK, Chain, LinesWritten
<1>1. ASSUME \A i \in Chain : files'[i].lines = files[i].lines,
             nlines' = nlines, unrenamed' = unrenamed
      PROVE  OnlyOldestLost'
  <2>1. onDisk' = onDisk
    BY <1>1 DEF onDisk
  <2> QED
    BY <1>1, <2>1 DEF OnlyOldestLost
<1>2. CASE maybePrintStart
  BY <1>1, <1>2, HeaderEffect DEF maybePrintStart
<1>3. ASSUME NEW size \in LineSizes, processBuffer(size) PROVE OnlyOldestLost'
  <2>1. PICK bytes \in Nat :
          /\ nlines' = IF bytes > 0 THEN nlines + 1 ELSE nlines
          /\ files'[0].lines = IF bytes > 0 THEN files[0].lines \cup {nlines + 1}
                               ELSE files[0].lines
          /\ \A i \in Chain \ {0} : files'[i] = files[i]
    BY <1>3, LineEffect
  <2>2. unrenamed' = unrenamed
    BY <1>3 DEF processBuffer
  <2>3. CASE bytes = 0
    BY <1>1, <2>1, <2>2, <2>3
  <2>4. CASE bytes > 0
    <3>1. onDisk' = onDisk \cup {nlines + 1} /\ nlines' = nlines + 1
      BY <1>0, <2>1, <2>4 DEF onDisk
    <3> SUFFICES ASSUME ~unrenamed, NEW a \in onDisk', NEW x \in a .. nlines'
                 PROVE  x \in onDisk'
      BY <2>2 DEF OnlyOldestLost
    <3>2. onDisk \subseteq 1 .. nlines
      BY <1>0 DEF onDisk
    <3>3. a \in Nat /\ x \in Nat
      BY <1>0, <3>1, <3>2
    <3>4. CASE x = nlines + 1
      BY <3>1, <3>4
    <3>5. CASE x # nlines + 1
      <4>1. a \in onDisk /\ x \in a .. nlines
        BY <1>0, <3>1, <3>3, <3>5
      <4> QED
        BY <3>1, <4>1 DEF OnlyOldestLost
    <3> QED
      BY <3>4, <3>5
  <2> QED
    BY <2>3, <2>4
<1>4. CASE rename
  <2>1. CASE renamed
    <3>1. nlines' = nlines /\ unrenamed' = unrenamed
      BY <1>4, <2>1 DEF rename, renamed
    <3>2. step \in Chain /\ step - 1 \in Chain
      BY <1>4, RenameEffect
    <3> SUFFICES ASSUME ~unrenamed, NEW a \in onDisk', NEW x \in a .. nlines
                 PROVE  x \in onDisk'
      BY <3>1 DEF OnlyOldestLost
    <3>3. \A y : (\E i \in Chain \ {step} : y \in files[i].lines) => y \in onDisk'
      <4> SUFFICES ASSUME NEW y, NEW i \in Chain \ {step}, y \in files[i].lines
                   PROVE  \E j \in Chain : y \in files'[j].lines
        BY DEF onDisk
      <4> QED
        BY <2>1, <3>2 DEF renamed
    <3>4. PICK i \in Chain \ {step} : a \in files[i].lines
      <4>1. PICK j \in Chain : a \in files'[j].lines
        BY DEF onDisk
      <4>2. j # step - 1
        BY <2>1, <4>1 DEF renamed, Absent
      <4>3. CASE j = step
        BY <1>0, <2>1, <3>2, <4>1, <4>3 DEF renamed
      <4> QED
        BY <2>1, <4>1, <4>2, <4>3 DEF renamed
    <3>5. x \in onDisk
      BY <3>4 DEF OnlyOldestLost, onDisk
    <3>6. x \notin files[step].lines
      <4>1. CASE step < g_max_rotated_logs
        <5>1. files[step] = Absent
          BY <1>4, <3>2, <4>1 DEF rename, Vacated, LinesWritten
        <5> QED
          BY <5>1 DEF Absent
      <4>2. CASE step = g_max_rotated_logs
        <5>1. i < step
          BY <1>0, <4>2
        <5>2. \A b \in files[step].lines : b < a
          BY <3>2, <3>4, <5>1 DEF FilesOrdered
        <5>3. a \in Nat /\ x >= a
          BY <1>0, <3>4
        <5> QED
          BY <1>0, <3>2, <5>2, <5>3
      <4> QED
        BY <1>0, <3>2, <4>1, <4>2
    <3> QED
      BY <3>3, <3>5, <3>6 DEF onDisk
  <2>2. CASE stayed
    <3>1. CASE unrenamed'
      BY <3>1 DEF OnlyOldestLost
    <3>2. CASE unrenamed' = unrenamed
      BY <1>1, <1>4, <2>2, <3>2 DEF stayed, rename
    <3> QED
      BY <2>2, <3>1, <3>2 DEF stayed
  <2> QED
    BY <1>4, <2>1, <2>2, RenameEffect
<1>5. CASE reopen \/ setup_output
  BY <1>1, <1>5, ReopenEffect DEF reopen, setup_output
<1>6. CASE Die \/ UNCHANGED vars
  BY <1>1, <1>6 DEF Die, vars
<1> QED
  BY <1>2, <1>3, <1>4, <1>5, <1>6 DEF Next, rotate_logs

(* The inductive invariant holds initially, *)
LEMMA OutputInvInit == Init => OutputInv
<1> SUFFICES ASSUME Init PROVE OutputInv
  OBVIOUS
<1>1. /\ 0 \in Chain /\ files[0] = Empty
      /\ \A i \in Chain : files[i] = Empty \/ files[i] = Absent
      /\ \A i \in Chain \ {0} : files[i] = Absent
  BY OutputAssumption DEF Init, Chain
<1>2. \A i \in Chain : files[i].lines = {}
  BY <1>1 DEF Empty, Absent
<1>3. TypeOK
  BY OutputTypeInit
<1>4. LinesWritten
  BY <1>1, <1>2 DEF LinesWritten, Empty
<1>5. Counted /\ Vacated
  BY <1>1 DEF Init, Counted, Vacated, Empty
<1>6. FilesOrdered
  BY <1>2 DEF FilesOrdered
<1>7. RotatedFull
  BY <1>1 DEF RotatedFull, Absent
<1>8. OnlyOldestLost
  BY <1>2 DEF OnlyOldestLost, onDisk
<1> QED
  BY <1>3, <1>4, <1>5, <1>6, <1>7, <1>8 DEF OutputInv

(* and every step keeps it. *)
LEMMA OutputInvStep == OutputInv /\ [Next]_vars => OutputInv'
  BY OutputTypeStep, LinesWrittenStep, CountedStep, VacatedStep, FilesOrderedStep,
     RotatedFullStep, OnlyOldestLostStep DEF OutputInv

(* The inductive invariant holds of every behaviour. *)
LEMMA OutputInvariant == Spec => []OutputInv
  BY OutputInvInit, OutputInvStep, PTL DEF Spec

(* Types: a rotation only touches the names -n allows, for every count.   *)
THEOREM OutputTypeCorrect == Spec => []TypeOK
<1>1. OutputInv => TypeOK
  BY DEF OutputInv
<1> QED
  BY <1>1, OutputInvariant, PTL

(* Reading file.<count>, ..., file.1, file gives the lines in the order   *)
(* they were written, through every death inside a rotation, failing      *)
(* rename and partial write.                                              *)
THEOREM ChainStaysOrdered == Spec => []FilesOrdered
<1>1. OutputInv => FilesOrdered
  BY DEF OutputInv
<1> QED
  BY <1>1, OutputInvariant, PTL

(* Only a file that reached the limit is rotated away.                    *)
THEOREM OnlyFullFilesRotated == Spec => []RotatedFull
<1>1. OutputInv => RotatedFull
  BY DEF OutputInv
<1> QED
  BY <1>1, OutputInvariant, PTL

(* While renames succeed the lines on disk have no gap up to the last     *)
(* one written: a rotation gives up the oldest lines only.                *)
THEOREM NoGapOnDisk == Spec => []OnlyOldestLost
<1>1. OutputInv => OnlyOldestLost
  BY DEF OutputInv
<1> QED
  BY <1>1, OutputInvariant, PTL

-----------------------------------------------------------------------------
(* The bound on the active file. *)

(* One more death, or one more header, adds its share. *)
LEMMA OneMore ==
  ASSUME NEW n \in Nat, NEW w \in Nat
  PROVE  /\ n * w \in Nat
         /\ (n + 1) * w = n * w + w
         /\ \A m \in Nat : n <= m => n * w <= m * w
  OBVIOUS

(* Every step keeps SizeExplained when a rotation renames the file: the   *)
(* header is in the file and not in the counter, one line may pass the    *)
(* limit, a death leaves a full file to the next process.                 *)
LEMMA BoundStep ==
  ASSUME g_max_rotated_logs > 0, g_log_rotate_size_kbytes > 0,
         NEW longest \in LineSizes, \A r \in LineSizes : r <= longest,
         OutputInv, HeadersBounded, SizeExplained(longest), [Next]_vars
  PROVE  HeadersBounded' /\ SizeExplained(longest)'
<1> DEFINE S == files[0].size
           C == g_out_byte_count
           W == excess(longest)
           D == g_dev_count * HeaderSize
<1>1. /\ 0 \in Chain /\ S \in Nat /\ C \in Nat /\ headers \in Nat /\ crashes \in Nat
      /\ HeaderSize \in Nat /\ g_dev_count \in Nat /\ longest \in Nat
      /\ LineSizes \subseteq Nat
      /\ unrenamed \in BOOLEAN
  BY OutputAssumption DEF OutputInv, TypeOK, Chain, File
<1>2. limit \in Nat /\ limit > 0
  BY OutputAssumption DEF limit
<1>3. /\ D \in Nat /\ W \in Nat /\ W = longest + D
      /\ headers * HeaderSize \in Nat /\ headers * HeaderSize <= D
      /\ (headers + 1) * HeaderSize = headers * HeaderSize + HeaderSize
      /\ crashes * W \in Nat /\ (crashes + 1) * W = crashes * W + W
  <2>1. D \in Nat /\ W \in Nat /\ W = longest + D
    BY <1>1, OneMore DEF excess
  <2>2. /\ headers * HeaderSize \in Nat /\ headers * HeaderSize <= D
        /\ (headers + 1) * HeaderSize = headers * HeaderSize + HeaderSize
    BY <1>1, OneMore DEF HeadersBounded
  <2>3. crashes * W \in Nat /\ (crashes + 1) * W = crashes * W + W
    BY <1>1, <2>1, OneMore
  <2> QED
    BY <2>1, <2>2, <2>3
<1> HIDE DEF W, D
<1>4. ~unrenamed =>
        /\ pc = "run" => S <= C + headers * HeaderSize /\ C < limit + crashes * W
        /\ pc = "rotate" => S < limit + (crashes + 1) * W
        /\ pc = "dead" => S < limit + crashes * W
  BY DEF SizeExplained, W
<1>5. ASSUME headers' <= g_dev_count,
             ~unrenamed' =>
               /\ pc' = "run" =>
                    /\ files'[0].size <= g_out_byte_count' + headers' * HeaderSize
                    /\ g_out_byte_count' < limit + crashes' * W
               /\ pc' = "rotate" => files'[0].size < limit + (crashes' + 1) * W
               /\ pc' = "dead" => files'[0].size < limit + crashes' * W
      PROVE  HeadersBounded' /\ SizeExplained(longest)'
  BY <1>5 DEF HeadersBounded, SizeExplained, W, excess, limit
<1>6. CASE maybePrintStart
  <2>1. /\ pc = "run" /\ pc' = pc /\ headers' = headers + 1 /\ headers < g_dev_count
        /\ g_out_byte_count' = C /\ crashes' = crashes /\ unrenamed' = unrenamed
        /\ files'[0].size = S + HeaderSize
    BY <1>6, HeaderEffect DEF maybePrintStart, OutputInv
  <2> QED
    BY <1>1, <1>2, <1>3, <1>4, <1>5, <2>1
<1>7. ASSUME NEW size \in LineSizes, processBuffer(size)
      PROVE  HeadersBounded' /\ SizeExplained(longest)'
  <2>1. PICK bytes \in Nat :
          /\ bytes <= size
          /\ files'[0].size = S + bytes
          /\ g_out_byte_count' = C + bytes
          /\ IF limitReached(C, bytes) THEN pc' = "rotate" ELSE pc' = pc
    BY <1>7, LineEffect DEF OutputInv
  <2>2. pc = "run" /\ headers' = headers /\ crashes' = crashes /\ unrenamed' = unrenamed
    BY <1>7 DEF processBuffer
  <2>3. limitReached(C, bytes) <=> C + bytes >= limit
    BY <1>1, <2>1, LimitTest
  <2>4. bytes <= longest
    BY <1>1, <2>1
  <2>5. CASE C + bytes >= limit
    BY <1>1, <1>2, <1>3, <1>4, <1>5, <2>1, <2>2, <2>3, <2>4, <2>5 DEF HeadersBounded
  <2>6. CASE C + bytes < limit
    BY <1>1, <1>2, <1>3, <1>4, <1>5, <2>1, <2>2, <2>3, <2>4, <2>6 DEF HeadersBounded
  <2> QED
    BY <1>1, <1>2, <2>1, <2>5, <2>6
<1>8. CASE rename
  <2>1. /\ pc = "rotate" /\ pc' = pc /\ headers' = headers /\ crashes' = crashes
        /\ step \in Nat \ {0}
    BY <1>8, RenameEffect DEF rename, OutputInv
  <2>2. ~unrenamed' => ~unrenamed
    BY <1>8 DEF rename
  <2>3. files'[0].size = S \/ files'[0].size = 0
    BY <1>1, <1>8, <2>1, RenameEffect DEF renamed, stayed, Absent, OutputInv
  <2> QED
    BY <1>1, <1>2, <1>3, <1>4, <1>5, <2>1, <2>2, <2>3 DEF HeadersBounded
<1>9. CASE reopen
  <2>1. /\ pc = "rotate" /\ step = 0 /\ pc' = "run" /\ headers' = headers
        /\ g_out_byte_count' = 0 /\ crashes' = crashes /\ unrenamed' = unrenamed
    BY <1>9 DEF reopen
  <2>2. ~unrenamed => S = 0
    BY <1>1, <2>1 DEF OutputInv, Vacated, LinesWritten, Absent
  <2>3. files'[0].size = S
    BY <1>9, ReopenEffect DEF reopen, OutputInv
  <2> QED
    BY <1>1, <1>2, <1>3, <1>5, <2>1, <2>2, <2>3 DEF HeadersBounded
<1>10. CASE Die
  <2>1. /\ pc \in {"run", "rotate"} /\ pc' = "dead" /\ headers' = headers
        /\ files' = files /\ crashes' = crashes + 1 /\ unrenamed' = unrenamed
    BY <1>10 DEF Die, OutputInv, TypeOK
  <2> QED
    BY <1>1, <1>2, <1>3, <1>4, <1>5, <2>1 DEF HeadersBounded
<1>11. CASE setup_output
  <2>1. /\ pc = "dead" /\ pc' = "run" /\ headers' = 0
        /\ g_out_byte_count' = S /\ crashes' = crashes /\ unrenamed' = unrenamed
    BY <1>11 DEF setup_output
  <2>2. files'[0].size = S
    BY <1>11, ReopenEffect DEF setup_output, OutputInv
  <2> QED
    BY <1>1, <1>2, <1>3, <1>4, <1>5, <2>1, <2>2
<1>12. CASE UNCHANGED vars
  BY <1>4, <1>5, <1>12 DEF vars, HeadersBounded
<1> QED
  BY <1>6, <1>7, <1>8, <1>9, <1>10, <1>11, <1>12 DEF Next, rotate_logs

(* "Rotates the log file every <Kbytes> of output", for every limit and   *)
(* line size: when at least one rotated file is kept (-n 1 or more) and   *)
(* renames succeed, the active file passes the limit by at most one line  *)
(* and one set of headers, once more per death.                           *)
THEOREM ActiveFileStaysBounded ==
  ASSUME g_max_rotated_logs > 0
  PROVE  Spec => []ActiveFileBounded
<1>1. Init => BoundInv
  <2> SUFFICES ASSUME Init, g_log_rotate_size_kbytes > 0, NEW longest \in Longest
               PROVE  HeadersBounded /\ SizeExplained(longest)
    BY DEF BoundInv
  <2>1. /\ files[0].size = 0 /\ headers = 0 /\ g_out_byte_count = 0
        /\ crashes = 0 /\ pc = "run"
    BY OutputAssumption DEF Init, Chain, Empty
  <2>2. limit \in Nat /\ limit > 0 /\ HeaderSize \in Nat /\ g_dev_count \in Nat
    BY OutputAssumption DEF limit
  <2>3. excess(longest) \in Nat
    BY OutputAssumption DEF excess, Longest
  <2> QED
    BY <2>1, <2>2, <2>3 DEF HeadersBounded, SizeExplained
<1>2. OutputInv /\ BoundInv /\ [Next]_vars => BoundInv'
  BY BoundStep DEF BoundInv, Longest
<1>3. OutputInv /\ BoundInv => ActiveFileBounded
  <2> SUFFICES ASSUME OutputInv, BoundInv, g_log_rotate_size_kbytes > 0,
                      ~unrenamed, NEW longest \in Longest
               PROVE  files[0].size < limit + (crashes + 1) * excess(longest)
    BY DEF ActiveFileBounded, Longest, limit, excess
  <2>1. HeadersBounded /\ SizeExplained(longest)
    BY DEF BoundInv
  <2>2. /\ files[0].size \in Nat /\ g_out_byte_count \in Nat
        /\ headers \in Nat /\ crashes \in Nat /\ pc \in {"run", "rotate", "dead"}
        /\ HeaderSize \in Nat /\ g_dev_count \in Nat /\ longest \in Nat
    BY OutputAssumption DEF OutputInv, TypeOK, Chain, File, Longest
  <2>3. limit \in Nat /\ limit > 0
    BY OutputAssumption DEF limit
  <2>4. excess(longest) \in Nat /\ headers * HeaderSize <= excess(longest)
    BY <2>1, <2>2, OneMore DEF excess, HeadersBounded
  <2>5. /\ crashes * excess(longest) \in Nat
        /\ (crashes + 1) * excess(longest) = crashes * excess(longest) + excess(longest)
    BY <2>2, <2>4, OneMore
  <2>6. headers * HeaderSize \in Nat
    BY <2>2, OneMore
  <2>7. CASE pc = "run"
    BY <2>1, <2>2, <2>3, <2>4, <2>5, <2>6, <2>7 DEF SizeExplained
  <2>8. CASE pc = "rotate"
    BY <2>1, <2>8 DEF SizeExplained
  <2>9. CASE pc = "dead"
    BY <2>1, <2>2, <2>3, <2>4, <2>5, <2>9 DEF SizeExplained
  <2> QED
    BY <2>2, <2>7, <2>8, <2>9
<1> QED
  BY <1>1, <1>2, <1>3, OutputInvariant, PTL DEF Spec
=============================================================================
