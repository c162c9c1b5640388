-------------------------- MODULE CommandLineProofs --------------------------
(***************************************************************************)
(* What a run of the program does to the disk, for every list of words,    *)
(* every configuration file and every set of files: only a run that was    *)
(* accepted touches it, and only the export file; a run that reports       *)
(* success has left the records of every file of the input there, in path  *)
(* order and nothing else, and a failed run a beginning of them.  And what *)
(* a run works with: what the last word for an option says, or else the    *)
(* file, or else the default.                                              *)
(***************************************************************************)
EXTENDS CommandLine, OperatorProofs

(* A configuration that validates has an export this program knows.         *)
LEMMA ValidExport ==
  ASSUME NEW c, Validate(c) = "ok"
  PROVE  c.export_type \in {"none", "ndjson"}
<1> DEFINE rules == Rules(c)
           broken == {k \in DOMAIN rules : rules[k][1]}
<1>1. DOMAIN rules = 1 .. 18
  BY DEF Rules
<1>2. ASSUME NEW k \in 1 .. 18
      PROVE  rules[k][2] # "ok"
  <2>1. /\ rules[1][2] # "ok" /\ rules[2][2] # "ok" /\ rules[3][2] # "ok" /\ rules[4][2] # "ok"
        /\ rules[5][2] # "ok" /\ rules[6][2] # "ok" /\ rules[7][2] # "ok" /\ rules[8][2] # "ok"
        /\ rules[9][2] # "ok" /\ rules[10][2] # "ok" /\ rules[11][2] # "ok" /\ rules[12][2] # "ok"
        /\ rules[13][2] # "ok" /\ rules[14][2] # "ok" /\ rules[15][2] # "ok" /\ rules[16][2] # "ok"
        /\ rules[17][2] # "ok" /\ rules[18][2] # "ok"
    BY DEF Rules
  <2> HIDE DEF rules
  <2> QED
    BY <2>1
<1>3. rules[17][1] <=> (c.export_type \notin {"none", "ndjson"})
  BY DEF Rules
<1> HIDE DEF rules
<1>4. ASSUME broken # {}
      PROVE  FALSE
  <2>1. broken \subseteq Nat
    BY <1>1
  <2>2. PICK m \in broken : \A k \in broken : m <= k
    <3> HIDE DEF broken
    <3> QED
      BY <1>4, <2>1, LeastNatural
  <2>3. Min(broken) \in broken
    <3> HIDE DEF broken
    <3> QED
      BY <2>2 DEF Min
  <2>4. Validate(c) = rules[Min(broken)][2]
    BY <1>4 DEF Validate, rules
  <2> QED
    BY <1>1, <1>2, <2>3, <2>4
<1> QED
  BY <1>1, <1>3, <1>4

(* STRING, written so that the provers know three of its words, and the     *)
(* sequences of tuples of words.                                            *)
Word == STRING \cup {"record", "missing", "torn"}
Lines == Seq(Seq(Word))

CommandShape ==
  /\ before \in [DOMAIN before -> Lines]
  /\ disk \in [DOMAIN before -> Lines]
  /\ \A path \in DOMAIN Below : Below[path] \in Seq(DOMAIN before)
  /\ written \in Lines

(* The disk is touched only behind the opening of a known export file, and  *)
(* nothing but that file.                                                   *)
OnlyExportFileTouched ==
  /\ at \notin {"exporting", "exited"} => disk = before /\ written = <<>>
  /\ at = "opening" => Validate(settings) = "ok"
  /\ at = "exporting" =>
       settings.export_type = "ndjson" /\ settings.export_path \in DOMAIN before
  /\ at = "exited" => disk = before \/ (settings.export_type = "ndjson" /\ exit \in {0, 1})
  /\ \A f \in DOMAIN before : f # settings.export_path => disk[f] = before[f]

AcceptedInv == CommandShape /\ OnlyExportFileTouched

(* What a chunk becomes as a record is again a tuple of words.              *)
LEMMA RecordsType ==
  ASSUME NEW content \in Lines
  PROVE  /\ Records(content) \in Lines
         /\ Len(Records(content)) = Len(content)
<1> DEFINE n == Len(content)
           r == Records(content)
<1>1. n \in Nat /\ DOMAIN content = 1 .. n
  BY DEF Lines
<1>2. ASSUME NEW k \in 1 .. n
      PROVE  Record(content[k]) \in Seq(Word)
  <2>1. content[k] \in Seq(Word)
    BY <1>2 DEF Lines
  <2>2. <<"record">> \in Seq(Word)
    BY DEF Word
  <2> HIDE DEF n
  <2> QED
    BY <2>1, <2>2 DEF Record
<1>3. r = [k \in 1 .. n |-> Record(content[k])]
  BY <1>1 DEF Records
<1> HIDE DEF n, r
<1>4. r \in [1 .. n -> Seq(Word)] /\ DOMAIN r = 1 .. n
  BY <1>2, <1>3
<1>5. r \in Seq(Seq(Word))
  BY <1>1, <1>4, SeqDef
<1>6. Len(r) = n
  BY <1>1, <1>4, <1>5, LenProperties
<1> QED
  BY <1>5, <1>6 DEF Lines, n, r

(* What stands in front of a record on its line are words too.              *)
LEMMA LineType ==
  ASSUME NEW record \in Seq(Word), NEW n \in Nat
  PROVE  Line(n, record) \in Seq(Word)
<1> DEFINE torn == [k \in 1 .. n |-> "torn"]
<1>1. torn \in [1 .. n -> Word]
  BY DEF Word
<1> HIDE DEF torn
<1>2. torn \in Seq(Word)
  BY <1>1, SeqDef
<1>3. torn \o record \in Seq(Word)
  BY <1>2
<1> QED
  BY <1>3 DEF Line, torn

(* A line for each chunk.                                                   *)
LEMMA LinesType ==
  ASSUME NEW content \in Lines, NEW torn \in Torn(Len(content))
  PROVE  /\ LinesOf(content, torn) \in Lines
         /\ Len(LinesOf(content, torn)) = Len(content)
         /\ \A k \in 1 .. Len(content) :
              LinesOf(content, torn)[k] = Line(torn[k], Records(content)[k])
<1> DEFINE n == Len(content)
           r == Records(content)
           w == LinesOf(content, torn)
<1>1. n \in Nat /\ DOMAIN content = 1 .. n
  BY DEF Lines
<1>2. r \in Lines /\ Len(r) = n /\ \A k \in 1 .. n : r[k] = Record(content[k])
  <2>1. r \in Lines /\ Len(r) = n
    BY RecordsType
  <2>2. \A k \in 1 .. n : r[k] = Record(content[k])
    BY <1>1 DEF Records
  <2> QED
    BY <2>1, <2>2
<1>3. w = [k \in 1 .. n |-> Line(torn[k], Record(content[k]))]
  BY <1>1 DEF LinesOf
<1>4. \A k \in 1 .. n : torn[k] \in Nat
  BY DEF Torn
<1> HIDE DEF n, r, w
<1>5. \A k \in 1 .. n : Line(torn[k], Record(content[k])) \in Seq(Word)
  <2> TAKE k \in 1 .. n
  <2>1. r \in [1 .. n -> Seq(Word)]
    BY <1>2, LenProperties DEF Lines
  <2>2. Record(content[k]) \in Seq(Word)
    BY <1>2, <2>1
  <2> QED
    BY <1>4, <2>2, LineType
<1>6. w \in [1 .. n -> Seq(Word)] /\ DOMAIN w = 1 .. n
  BY <1>3, <1>5
<1>7. w \in Seq(Seq(Word))
  BY <1>1, <1>6, SeqDef
<1>8. Len(w) = n
  BY <1>1, <1>6, <1>7, LenProperties
<1>9. \A k \in 1 .. n : w[k] = Line(torn[k], r[k])
  BY <1>2, <1>3
<1> QED
  BY <1>7, <1>8, <1>9 DEF Lines, n, r, w

(* The contents the constants allow are tuples of words of that kind too.   *)
LEMMA ChunksAreLines == Chunks \subseteq Lines
<1>1. Seq(STRING) \subseteq Seq(Word)
  <2> SUFFICES ASSUME NEW s \in Seq(STRING) PROVE s \in Seq(Word)
    OBVIOUS
  <2>1. Len(s) \in Nat /\ s \in [1 .. Len(s) -> STRING]
    BY LenProperties
  <2>2. s \in [1 .. Len(s) -> Word]
    BY <2>1 DEF Word
  <2> QED
    BY <2>1, <2>2, SeqDef
<1> SUFFICES ASSUME NEW s \in Chunks PROVE s \in Lines
  OBVIOUS
<1>2. Len(s) \in Nat /\ s \in [1 .. Len(s) -> Seq(STRING)]
  BY LenProperties DEF Chunks
<1>3. s \in [1 .. Len(s) -> Seq(Word)]
  BY <1>1, <1>2
<1> QED
  BY <1>2, <1>3, SeqDef DEF Lines

(* What is before the opening of the export file leaves the disk alone.     *)
LEMMA EarlySteps ==
  ASSUME Start \/ TakeValue \/ TakeFlag \/ TakePath \/ RefuseWord \/ LoadFile \/ Override
  PROVE  /\ UNCHANGED <<before, disk, pending, written, tail_lost>>
         /\ at \in {"started", "parsing", "overriding"}
         /\ at' \in {"parsing", "overriding", "opening", "exited"}
         /\ at' = "opening" => Validate(settings') = "ok"
<1>1. CASE Start
  BY <1>1 DEF Start, Refuse, Exit, start, output
<1>2. CASE TakeValue \/ TakeFlag \/ TakePath \/ RefuseWord
  BY <1>2 DEF TakeValue, TakeNumber, TakeFlag, TakePath, RefuseWord, Took, Refuse, Exit, start,
              output
<1>3. CASE LoadFile
  BY <1>3 DEF LoadFile, Refuse, Exit, start, output
<1>4. CASE Override
  BY <1>4 DEF Override, Refuse, Exit, start, output
<1> QED
  BY <1>1, <1>2, <1>3, <1>4

(* What is left on the disk are the first of the lines given, the next one  *)
(* perhaps begun.                                                           *)
LEMMA LeftDisk ==
  ASSUME CommandShape, settings.export_path \in DOMAIN before,
         NEW lines \in Lines, NEW begun, Left(lines, begun)
  PROVE  /\ disk' \in [DOMAIN before -> Lines]
         /\ \A f \in DOMAIN before : f # settings.export_path => disk'[f] = disk[f]
         /\ \E n \in 0 .. Len(lines) :
              \/ disk'[settings.export_path] = SubSeq(lines, 1, n)
              \/ disk'[settings.export_path] = Append(SubSeq(lines, 1, n), Piece)
<1> DEFINE t == settings.export_path
<1>1. PICK n \in Len(disk[t]) .. Len(lines) :
        \/ disk' = [disk EXCEPT ![t] = SubSeq(lines, 1, n)]
        \/ disk' = [disk EXCEPT ![t] = Append(SubSeq(lines, 1, n), Piece)]
  BY DEF Left, Flushed
<1>2. /\ n \in 0 .. Len(lines) /\ SubSeq(lines, 1, n) \in Lines
      /\ Append(SubSeq(lines, 1, n), Piece) \in Lines
  <2>1. Len(disk[t]) \in Nat /\ Len(lines) \in Nat
    BY DEF CommandShape, Lines
  <2>2. n \in 0 .. Len(lines)
    BY <2>1
  <2>3. SubSeq(lines, 1, n) \in Lines
    BY <2>1, <2>2 DEF Lines
  <2>4. Piece \in Seq(Word)
    BY DEF Piece, Word
  <2>5. Append(SubSeq(lines, 1, n), Piece) \in Lines
    BY <2>3, <2>4 DEF Lines
  <2> QED
    BY <2>2, <2>3, <2>5
<1>3. disk \in [DOMAIN before -> Lines]
  BY DEF CommandShape
<1> HIDE DEF t
<1> QED
  BY <1>1, <1>2, <1>3 DEF t

(* When the program starts, the disk is as it was and nothing is written.   *)
LEMMA AcceptedInitially == CommandLineInit => AcceptedInv
<1> SUFFICES ASSUME CommandLineInit PROVE AcceptedInv
  OBVIOUS
<1>1. PICK s \in Starts : argv = s.argv /\ document = s.document /\ before = s.disk
  BY DEF CommandLineInit
<1>2. /\ before \in [DOMAIN before -> Lines]
      /\ \A path \in DOMAIN Below : Below[path] \in Seq(DOMAIN before)
  <2>1. before \in [DOMAIN before -> Chunks]
    BY <1>1, CommandLineAssumption
  <2>2. before \in [DOMAIN before -> Lines]
    BY <2>1, ChunksAreLines
  <2> QED
    BY <1>1, <2>2, CommandLineAssumption
<1>3. disk = before /\ written = <<>> /\ at = "started" /\ <<>> \in Lines
  BY DEF CommandLineInit, Lines
<1> QED
  BY <1>2, <1>3 DEF AcceptedInv, CommandShape, OnlyExportFileTouched

(* A file's content is one, there or not.                                   *)
LEMMA ContentType ==
  ASSUME CommandShape, NEW file
  PROVE  Content(file, disk) \in Lines
<1>1. Missing \in Lines
  <2>1. <<"missing">> \in Seq(Word)
    BY DEF Word
  <2> QED
    BY <2>1 DEF Missing, Lines
<1> QED
  BY <1>1 DEF Content, CommandShape

(* The first lines of a file, behind those of the files before it.          *)
LEMMA FirstLinesType ==
  ASSUME CommandShape, NEW n \in 0 .. Len(Content(Head(pending), disk)), WrittenUpTo(n)
  PROVE  written' \in Lines
<1> DEFINE c == Content(Head(pending), disk)
           first == SubSeq(c, 1, n)
<1>1. PICK torn \in Torn(n) : written' = written \o LinesOf(first, torn)
  BY DEF WrittenUpTo
<1>2. c \in Lines /\ n \in 0 .. Len(c)
  BY ContentType
<1> HIDE DEF c
<1>3. first \in Lines /\ Len(first) = n
  BY <1>2 DEF Lines
<1> HIDE DEF first
<1>4. LinesOf(first, torn) \in Lines
  BY <1>3, LinesType
<1> QED
  BY <1>1, <1>4 DEF Lines, CommandShape

(* Every step keeps the disk as it was, or is one of an accepted run and    *)
(* touches the export file only.                                            *)
LEMMA AcceptedStep ==
  ASSUME AcceptedInv, [CommandLineNext]_command_vars
  PROVE  AcceptedInv'
<1> USE DEF AcceptedInv, CommandShape, OnlyExportFileTouched
<1>1. CASE Start \/ TakeValue \/ TakeFlag \/ TakePath \/ RefuseWord \/ LoadFile \/ Override
  <2>1. /\ UNCHANGED <<before, disk, written>>
        /\ disk = before /\ written = <<>> /\ at' # "exporting"
        /\ at' = "opening" => Validate(settings') = "ok"
    BY <1>1, EarlySteps
  <2> QED
    BY <2>1
<1>2. CASE OpenOutput
  <2>1. /\ before' = before /\ settings' = settings /\ written' = written
        /\ disk = before /\ written = <<>>
    BY <1>2 DEF OpenOutput, start, output
  <2>2. CASE disk' = disk /\ at' = "exited"
    BY <2>1, <2>2
  <2>3. CASE /\ settings.export_type # "none" /\ settings.export_path \in DOMAIN disk
             /\ disk' = [disk EXCEPT ![settings.export_path] = <<>>]
             /\ at' = "exporting"
    <3>1. settings.export_type = "ndjson"
      BY <1>2, <2>3, ValidExport DEF OpenOutput
    <3>2. disk' \in [DOMAIN before -> Lines]
      <4>1. <<>> \in Lines
        BY DEF Lines
      <4> QED
        BY <2>3, <4>1
    <3>3. \A f \in DOMAIN before : f # settings.export_path => disk'[f] = before[f]
      BY <2>1, <2>3
    <3> QED
      BY <2>1, <2>3, <3>1, <3>2, <3>3
  <2> QED
    BY <1>2, <2>2, <2>3 DEF OpenOutput, Exit, output
<1>3. ASSUME NEW lines \in Lines, NEW begun, Left(lines, begun), at = "exporting",
             UNCHANGED <<before, settings>>, written' \in Lines,
             at' = "exporting" \/ (at' = "exited" /\ exit' \in {0, 1})
      PROVE  AcceptedInv'
  <2>1. /\ disk' \in [DOMAIN before -> Lines]
        /\ \A f \in DOMAIN before : f # settings.export_path => disk'[f] = disk[f]
    BY <1>3, LeftDisk
  <2> QED
    BY <1>3, <2>1
<1>4. CASE ExportFile
  <2> DEFINE c == Content(Head(pending), disk)
  <2>1. PICK torn \in Torn(Len(c)) : written' = written \o LinesOf(c, torn)
    BY <1>4 DEF ExportFile
  <2>2. c \in Lines
    BY ContentType
  <2> HIDE DEF c
  <2>3. LinesOf(c, torn) \in Lines
    BY <2>2, LinesType
  <2>4. written' \in Lines
    BY <2>1, <2>3 DEF Lines
  <2>5. Left(written', FALSE)
    BY <1>4 DEF ExportFile, Left
  <2> DEFINE w == written'
  <2>6. w \in Lines /\ Left(w, FALSE)
    BY <2>4, <2>5
  <2>7. at = "exporting" /\ at' = "exporting" /\ UNCHANGED <<before, settings>>
    BY <1>4 DEF ExportFile, start
  <2> HIDE DEF w
  <2> QED
    BY <1>3, <2>4, <2>6, <2>7
<1>5. CASE ExportFails
  <2>1. PICK n \in 0 .. Len(Content(Head(pending), disk)) :
          /\ WrittenUpTo(n)
          /\ Left(written', Content(Head(pending), disk) # Missing
                             /\ n < Len(Content(Head(pending), disk)))
    BY <1>5 DEF ExportFails
  <2>2. written' \in Lines
    BY <2>1, FirstLinesType
  <2> DEFINE w == written'
             begun == Content(Head(pending), disk) # Missing
                      /\ n < Len(Content(Head(pending), disk))
  <2>3. w \in Lines /\ Left(w, begun)
    BY <2>1, <2>2
  <2>4. at = "exporting" /\ at' = "exited" /\ exit' = 1 /\ UNCHANGED <<before, settings>>
    BY <1>5 DEF ExportFails, Exit, start
  <2> HIDE DEF w, begun
  <2> QED
    BY <1>3, <2>2, <2>3, <2>4
<1>6. CASE Finish
  BY <1>3, <1>6 DEF Finish, Exit, start
<1>7. CASE Exited \/ UNCHANGED command_vars
  BY <1>7 DEF Exited, command_vars
<1> QED
  BY <1>1, <1>2, <1>4, <1>5, <1>6, <1>7 DEF CommandLineNext

(* Code: main and parse of src/cli/main.cpp.                                *)
THEOREM AcceptedInvariant == CommandLineSpec => []AcceptedInv
<1>1. AcceptedInv /\ [CommandLineNext]_command_vars => AcceptedInv'
  BY AcceptedStep
<1> QED
  BY AcceptedInitially, <1>1, PTL DEF CommandLineSpec

(* A refusal, an abort and a run with nothing to export leave the disk as   *)
(* it was; any other run touches nothing but the export file.               *)
(* Code: lines 211-229 of src/cli/main.cpp.                                 *)
THEOREM OnlyAcceptedWrite == CommandLineSpec => []OnlyAcceptedRunsWrite
<1>1. AcceptedInv => OnlyAcceptedRunsWrite
  BY DEF AcceptedInv, CommandShape, OnlyExportFileTouched, OnlyAcceptedRunsWrite
<1> QED
  BY AcceptedInvariant, <1>1, PTL

-----------------------------------------------------------------------------
(* Beginnings of sequences of records.                                      *)

Begins(s, t) ==
  /\ s \in Lines /\ t \in Lines
  /\ Len(s) <= Len(t)
  /\ \A k \in 1 .. Len(s) : s[k] = t[k]

(* Records put behind others leave those a beginning.                       *)
LEMMA BeginsMore ==
  ASSUME NEW s \in Lines, NEW u \in Lines
  PROVE  s \o u \in Lines /\ Begins(s, s \o u)
<1> DEFINE t == s \o u
<1>1. /\ t \in Lines /\ Len(t) = Len(s) + Len(u)
      /\ \A k \in 1 .. Len(s) : t[k] = s[k]
  BY ConcatProperties DEF Lines
<1>2. Len(s) \in Nat /\ Len(u) \in Nat
  BY DEF Lines
<1> HIDE DEF t
<1>3. Begins(s, t)
  BY <1>1, <1>2 DEF Begins
<1> QED
  BY <1>1, <1>3 DEF t

(* A beginning of a beginning is a beginning.                               *)
LEMMA BeginsFurther ==
  ASSUME NEW s, NEW t, NEW u, Begins(s, t), Begins(t, u)
  PROVE  Begins(s, u)
<1>1. Len(s) \in Nat /\ Len(t) \in Nat /\ Len(u) \in Nat
  BY DEF Begins, Lines
<1> QED
  BY <1>1 DEF Begins

(* The first records of a sequence are a beginning of it.                   *)
LEMMA FirstOnesBegin ==
  ASSUME NEW s \in Lines, NEW n \in 0 .. Len(s)
  PROVE  Begins(SubSeq(s, 1, n), s)
<1> DEFINE t == SubSeq(s, 1, n)
<1>1. Len(s) \in Nat /\ n \in Nat /\ n <= Len(s)
  BY DEF Lines
<1>2. t \in Lines /\ Len(t) = n /\ \A k \in 1 .. n : t[k] = s[k]
  BY <1>1 DEF Lines
<1> HIDE DEF t
<1>3. Begins(t, s)
  BY <1>1, <1>2 DEF Begins
<1> QED
  BY <1>3 DEF t

(* Two tuples put behind the same one: the beginning stays.                 *)
LEMMA BeginsBehind ==
  ASSUME NEW r \in Lines, NEW s, NEW t, Begins(s, t)
  PROVE  Begins(r \o s, r \o t)
<1> DEFINE a == r \o s
           b == r \o t
           l == Len(r)
           m == Len(s)
           n == Len(t)
<1>1. s \in Lines /\ t \in Lines /\ l \in Nat /\ m \in Nat /\ n \in Nat /\ m <= n
  BY DEF Begins, Lines
<1>2. /\ a \in Lines /\ Len(a) = l + m
      /\ \A k \in 1 .. l + m : a[k] = IF k <= l THEN r[k] ELSE s[k - l]
  BY <1>1, ConcatProperties DEF Lines
<1>3. /\ b \in Lines /\ Len(b) = l + n
      /\ \A k \in 1 .. l + n : b[k] = IF k <= l THEN r[k] ELSE t[k - l]
  BY <1>1, ConcatProperties DEF Lines
<1>4. \A j \in 1 .. m : s[j] = t[j]
  BY DEF Begins
<1> HIDE DEF a, b, l, m, n
<1>5. ASSUME NEW k \in 1 .. l + m
      PROVE  a[k] = b[k]
  <2>1. k \in 1 .. l + n
    BY <1>1
  <2>2. CASE k <= l
    BY <1>2, <1>3, <2>1, <2>2
  <2>3. CASE ~ (k <= l)
    <3> DEFINE j == k - l
    <3>1. j \in 1 .. m
      BY <1>1, <2>3
    <3>2. a[k] = s[j] /\ b[k] = t[j]
      BY <1>2, <1>3, <2>1, <2>3
    <3> HIDE DEF j
    <3> QED
      BY <1>4, <3>1, <3>2
  <2> QED
    BY <2>2, <2>3
<1>6. Begins(a, b)
  BY <1>1, <1>2, <1>3, <1>5 DEF Begins
<1> QED
  BY <1>6 DEF a, b

(* Lines that hold the first of some records: so do the first of them.      *)
LEMMA FirstLinesHold ==
  ASSUME NEW lines \in Lines, NEW records, NEW all, NEW attempts,
         HoldAll(lines, records, attempts), Begins(records, all), NEW n \in 0 .. Len(lines)
  PROVE  /\ n \in 0 .. Len(all)
         /\ HoldAll(SubSeq(lines, 1, n), SubSeq(all, 1, n), attempts)
<1> DEFINE a == SubSeq(lines, 1, n)
           b == SubSeq(all, 1, n)
<1>1. /\ records \in Lines /\ all \in Lines /\ Len(lines) = Len(records)
      /\ Len(records) <= Len(all) /\ \A k \in 1 .. Len(records) : records[k] = all[k]
      /\ DOMAIN lines = 1 .. Len(lines)
  BY DEF Begins, HoldAll, Lines
<1>2. Len(lines) \in Nat /\ Len(all) \in Nat /\ n \in Nat /\ n <= Len(lines) /\ n <= Len(all)
  BY <1>1 DEF Lines
<1>3. a \in Lines /\ Len(a) = n /\ \A k \in 1 .. n : a[k] = lines[k]
  BY <1>2 DEF Lines
<1>4. b \in Lines /\ Len(b) = n /\ \A k \in 1 .. n : b[k] = all[k]
  BY <1>1, <1>2 DEF Lines
<1>5. DOMAIN a = 1 .. n
  BY <1>3 DEF Lines
<1> HIDE DEF a, b
<1>6. \A k \in 1 .. n : Holds(lines[k], records[k], attempts) /\ records[k] = all[k]
  BY <1>1, <1>2 DEF HoldAll
<1>7. HoldAll(a, b, attempts)
  BY <1>3, <1>4, <1>5, <1>6 DEF HoldAll
<1> QED
  BY <1>2, <1>7 DEF a, b

(* Lines behind lines hold the records behind the records.                  *)
LEMMA MoreLinesHold ==
  ASSUME NEW a \in Lines, NEW b \in Lines, NEW c \in Lines, NEW d \in Lines, NEW attempts,
         HoldAll(a, b, attempts), HoldAll(c, d, attempts)
  PROVE  HoldAll(a \o c, b \o d, attempts)
<1> DEFINE ac == a \o c
           bd == b \o d
           m == Len(a)
           n == Len(c)
<1>1. /\ m \in Nat /\ n \in Nat /\ Len(b) = m /\ Len(d) = n
      /\ DOMAIN a = 1 .. m /\ DOMAIN c = 1 .. n
  BY DEF Lines, HoldAll
<1>2. /\ ac \in Lines /\ Len(ac) = m + n
      /\ \A k \in 1 .. m + n : ac[k] = IF k <= m THEN a[k] ELSE c[k - m]
  BY <1>1, ConcatProperties DEF Lines
<1>3. /\ bd \in Lines /\ Len(bd) = m + n
      /\ \A k \in 1 .. m + n : bd[k] = IF k <= m THEN b[k] ELSE d[k - m]
  <2>1. /\ bd \in Lines /\ Len(bd) = Len(b) + Len(d)
        /\ \A k \in 1 .. Len(b) + Len(d) : bd[k] = IF k <= Len(b) THEN b[k] ELSE d[k - Len(b)]
    BY ConcatProperties DEF Lines
  <2> HIDE DEF m, n, bd
  <2> QED
    BY <1>1, <2>1
<1>4. DOMAIN ac = 1 .. m + n
  BY <1>2 DEF Lines
<1>5. /\ \A k \in 1 .. m : Holds(a[k], b[k], attempts)
      /\ \A k \in 1 .. n : Holds(c[k], d[k], attempts)
  BY <1>1 DEF HoldAll
<1> HIDE DEF ac, bd, m, n
<1>6. ASSUME NEW k \in 1 .. m + n
      PROVE  Holds(ac[k], bd[k], attempts)
  <2>1. CASE k <= m
    <3>1. k \in 1 .. m /\ ac[k] = a[k] /\ bd[k] = b[k]
      BY <1>1, <1>2, <1>3, <2>1
    <3> QED
      BY <1>5, <3>1
  <2>2. CASE ~ (k <= m)
    <3> DEFINE j == k - m
    <3>1. j \in 1 .. n /\ ac[k] = c[j] /\ bd[k] = d[j]
      BY <1>1, <1>2, <1>3, <2>2
    <3> HIDE DEF j
    <3> QED
      BY <1>5, <3>1
  <2> QED
    BY <2>1, <2>2
<1>7. HoldAll(ac, bd, attempts)
  BY <1>2, <1>3, <1>4, <1>6 DEF HoldAll
<1> QED
  BY <1>7 DEF ac, bd

(* The lines of a content hold its records.                                 *)
LEMMA ContentHolds ==
  ASSUME NEW content \in Lines, NEW torn \in Torn(Len(content))
  PROVE  HoldAll(LinesOf(content, torn), Records(content), settings.max_attempts)
<1> DEFINE n == Len(content)
           r == Records(content)
           w == LinesOf(content, torn)
<1>1. /\ w \in Lines /\ Len(w) = n /\ \A k \in 1 .. n : w[k] = Line(torn[k], r[k])
      /\ r \in Lines /\ Len(r) = n
  BY LinesType, RecordsType
<1>2. \A k \in 1 .. n : torn[k] \in 0 .. settings.max_attempts - 1
  BY DEF Torn
<1>3. DOMAIN w = 1 .. n
  <2> HIDE DEF n, w
  <2> QED
    BY <1>1 DEF Lines
<1> HIDE DEF n, r, w
<1>4. HoldAll(w, r, settings.max_attempts)
  BY <1>1, <1>2, <1>3 DEF HoldAll, Holds
<1> QED
  BY <1>4 DEF r, w

(* The records of the first chunks are the first of the records.            *)
LEMMA FirstRecords ==
  ASSUME NEW content \in Lines, NEW n \in 0 .. Len(content)
  PROVE  Begins(Records(SubSeq(content, 1, n)), Records(content))
<1> DEFINE l == Len(content)
           first == SubSeq(content, 1, n)
           a == Records(first)
           b == Records(content)
<1>1. l \in Nat /\ n \in Nat /\ n <= l /\ DOMAIN content = 1 .. l
  BY DEF Lines
<1>2. first \in Lines /\ Len(first) = n /\ \A k \in 1 .. n : first[k] = content[k]
  BY <1>1 DEF Lines
<1>3. DOMAIN first = 1 .. n
  BY <1>2 DEF Lines
<1> HIDE DEF first
<1>4. a \in Lines /\ Len(a) = n /\ b \in Lines /\ Len(b) = l
  BY <1>2, RecordsType
<1>5. \A k \in 1 .. n : a[k] = Record(first[k]) /\ b[k] = Record(content[k])
  BY <1>1, <1>3 DEF Records
<1> HIDE DEF a, b, l
<1>6. Begins(a, b)
  BY <1>1, <1>2, <1>4, <1>5 DEF Begins
<1> QED
  BY <1>6 DEF a, b, first

-----------------------------------------------------------------------------
(* The files that are there.                                                *)

(* What is kept of a list are elements of the set.                          *)
LEMMA ThoseType ==
  ASSUME NEW list, NEW S, list \in Seq(S), NEW set
  PROVE  Those(list, set) \in Seq(S \cap set)
<1> DEFINE T == S \cap set
           n == Len(list)
           One(k) == IF list[k] \in set THEN <<list[k]>> ELSE <<>>
           seqs == [k \in 1 .. n |-> One(k)]
<1>1. n \in Nat /\ DOMAIN list = 1 .. n /\ \A k \in 1 .. n : list[k] \in S
  OBVIOUS
<1>2. ASSUME NEW k \in 1 .. n
      PROVE  One(k) \in Seq(T)
  <2>1. CASE list[k] \in set
    <3>1. list[k] \in T
      BY <1>1, <2>1
    <3> HIDE DEF T
    <3> QED
      BY <2>1, <3>1
  <2>2. CASE list[k] \notin set
    BY <2>2
  <2> QED
    BY <2>1, <2>2
<1>3. Those(list, set) = FlattenSeq(seqs)
  BY <1>1 DEF Those
<1> HIDE DEF One, n, T
<1>4. seqs \in [1 .. n -> Seq(T)] /\ DOMAIN seqs = 1 .. n
  BY <1>2
<1> HIDE DEF seqs
<1>5. seqs \in Seq(Seq(T))
  BY <1>1, <1>4, SeqDef
<1>6. FlattenSeq(seqs) \in Seq(T)
  <2>1. /\ \A m \in 0 .. Len(seqs) : FlattenSeq(SubSeq(seqs, 1, m)) \in Seq(T)
        /\ FlattenSeq(SubSeq(seqs, 1, Len(seqs))) = FlattenSeq(seqs)
    BY <1>5, FlattenGrows
  <2>2. Len(seqs) \in 0 .. Len(seqs)
    BY <1>5
  <2> QED
    BY <2>1, <2>2
<1> QED
  BY <1>3, <1>6 DEF T

(* Elements of one set are elements of a larger one.                        *)
LEMMA WiderType ==
  ASSUME NEW S, NEW T, S \subseteq T, NEW s \in Seq(S)
  PROVE  s \in Seq(T)
<1>1. Len(s) \in Nat /\ s \in [1 .. Len(s) -> S]
  BY LenProperties
<1>2. s \in [1 .. Len(s) -> T]
  BY <1>1
<1> QED
  BY <1>1, <1>2, SeqDef

(* What is kept of a list are paths of the list whose files are there.      *)
LEMMA PresentType ==
  ASSUME NEW list, NEW S, list \in Seq(S), NEW now
  PROVE  Present(list, now) \in Seq({f \in S : Content(f, now) # Missing})
<1> DEFINE T == {f \in S : Content(f, now) # Missing}
           set == {f \in ToSet(list) : Content(f, now) # Missing}
           U == S \cap set
<1>1. Present(list, now) \in Seq(U)
  BY ThoseType DEF Present
<1>2. U \subseteq T
  OBVIOUS
<1> HIDE DEF T, U
<1> QED
  BY <1>1, <1>2, WiderType DEF T

(* Two disks with the same files of a list there.                           *)
LEMMA PresentAlike ==
  ASSUME NEW list, NEW one, NEW two,
         \A k \in DOMAIN list : Content(list[k], one) = Content(list[k], two)
  PROVE  Present(list, one) = Present(list, two)
<1>1. {f \in ToSet(list) : Content(f, one) # Missing}
        = {f \in ToSet(list) : Content(f, two) # Missing}
  <2>1. \A f \in ToSet(list) : \E k \in DOMAIN list : f = list[k]
    BY DEF ToSet
  <2>2. \A f \in ToSet(list) : Content(f, one) = Content(f, two)
    BY <2>1
  <2> QED
    BY <2>2
<1> QED
  BY <1>1 DEF Present

-----------------------------------------------------------------------------
(* What a run is to write.                                                  *)

Target == settings.export_path
There == Present(Input, before)
Outputs == [k \in DOMAIN There |-> Records(before[There[k]])]
Wanted == FlattenSeq(Outputs)
UpTo(n) == FlattenSeq(SubSeq(Outputs, 1, n))
Inside == Target \in ToSet(Input)

(* An export has written the records of the first files, and has those of   *)
(* the rest to come; a path that is not there ends it.                      *)
OutputSoFar ==
  \E n \in 0 .. Len(There) :
    /\ HoldAll(written, UpTo(n), settings.max_attempts)
    /\ \/ pending = SubSeq(There, n + 1, Len(There))
       \/ /\ pending # <<>> /\ Head(pending) # Target
          /\ Content(Head(pending), before) = Missing

(* What an export leaves is a beginning of it, the last line perhaps cut,   *)
(* and all of it when the end was reached and the tail was not lost.        *)
Begun(lines, all, attempts) ==
  \E n \in 0 .. Len(all) :
    \/ HoldAll(lines, SubSeq(all, 1, n), attempts)
    \/ /\ lines # <<>> /\ lines[Len(lines)] = Piece
       /\ HoldAll(SubSeq(lines, 1, Len(lines) - 1), SubSeq(all, 1, n), attempts)
OutputLeft ==
  IF exit = 0 /\ ~ tail_lost
  THEN HoldAll(disk[Target], Wanted, settings.max_attempts)
  ELSE Begun(disk[Target], Wanted, settings.max_attempts)

OutputInv ==
  /\ AcceptedInv
  /\ at = "exporting" /\ ~ Inside => OutputSoFar
  /\ at = "exited" /\ disk # before /\ ~ Inside => OutputLeft

(* The input is a list of paths, a directory or not.                        *)
LEMMA InputType ==
  ASSUME AcceptedInv
  PROVE  Input \in Seq(ToSet(Input))
<1>1. CASE settings.path \in DOMAIN Below
  <2> DEFINE t == Taken(settings.path)
             S == DOMAIN before \cap t
             n == Len(Input)
  <2>1. Below[settings.path] \in Seq(DOMAIN before)
    BY <1>1 DEF AcceptedInv, CommandShape
  <2>2. Input \in Seq(S)
    BY <1>1, <2>1, ThoseType DEF Input
  <2> HIDE DEF S
  <2>3. n \in Nat /\ Input \in [1 .. n -> S] /\ DOMAIN Input = 1 .. n
    BY <2>2, LenProperties
  <2> HIDE DEF n
  <2>4. Input \in [1 .. n -> ToSet(Input)]
    BY <2>3 DEF ToSet
  <2> QED
    BY <2>3, <2>4, SeqDef
<1>2. CASE settings.path \notin DOMAIN Below
  <2> DEFINE p == settings.path
  <2>1. <<p>> \in Seq({p}) /\ ToSet(<<p>>) = {p}
    BY DEF ToSet
  <2> QED
    BY <1>2, <2>1 DEF Input
<1> QED
  BY <1>1, <1>2

(* The records of one more file go behind those of the files before it, and *)
(* whatever is there so far begins the whole.                               *)
LEMMA OutputGrows ==
  ASSUME AcceptedInv
  PROVE  /\ There \in Seq({f \in ToSet(Input) : Content(f, before) # Missing})
         /\ Len(There) \in Nat
         /\ UpTo(0) = <<>>
         /\ UpTo(Len(There)) = Wanted
         /\ \A m \in 0 .. Len(There) : UpTo(m) \in Lines /\ Begins(UpTo(m), Wanted)
         /\ \A m \in 1 .. Len(There) : UpTo(m) = UpTo(m - 1) \o Records(before[There[m]])
<1> DEFINE T == {f \in ToSet(Input) : Content(f, before) # Missing}
           n == Len(There)
<1>1. There \in Seq(T)
  BY InputType, PresentType DEF There
<1> HIDE DEF T
<1>2. n \in Nat /\ DOMAIN There = 1 .. n /\ \A k \in 1 .. n : There[k] \in T
  <2> HIDE DEF n
  <2>1. n \in Nat /\ There \in [1 .. n -> T]
    BY <1>1, LenProperties DEF n
  <2> QED
    BY <2>1
<1>3. \A f \in T : f \in DOMAIN before /\ before[f] \in Lines
  BY DEF T, Content, AcceptedInv, CommandShape
<1>4. Outputs \in Seq(Lines) /\ Len(Outputs) = n
      /\ \A k \in 1 .. n : Outputs[k] = Records(before[There[k]])
  <2>1. \A k \in 1 .. n : Records(before[There[k]]) \in Lines
    <3> HIDE DEF n
    <3> QED
      BY <1>2, <1>3, RecordsType
  <2>2. Outputs = [k \in 1 .. n |-> Records(before[There[k]])]
    BY <1>2 DEF Outputs
  <2> HIDE DEF n
  <2>3. Outputs \in [1 .. n -> Lines] /\ DOMAIN Outputs = 1 .. n
    BY <2>1, <2>2
  <2>4. Outputs \in Seq(Lines)
    BY <1>2, <2>3, SeqDef
  <2>5. Len(Outputs) = n
    BY <1>2, <2>3, <2>4, LenProperties
  <2> QED
    BY <2>2, <2>4, <2>5
<1> HIDE DEF n
<1>5. /\ UpTo(0) = <<>> /\ UpTo(n) = Wanted
      /\ \A m \in 0 .. n : UpTo(m) \in Lines
      /\ \A m \in 1 .. n : UpTo(m) = UpTo(m - 1) \o Outputs[m]
  <2>1. /\ FlattenSeq(SubSeq(Outputs, 1, 0)) = <<>>
        /\ \A m \in 0 .. n : FlattenSeq(SubSeq(Outputs, 1, m)) \in Lines
        /\ \A m \in 1 .. n : FlattenSeq(SubSeq(Outputs, 1, m))
                               = FlattenSeq(SubSeq(Outputs, 1, m - 1)) \o Outputs[m]
        /\ FlattenSeq(SubSeq(Outputs, 1, n)) = FlattenSeq(Outputs)
    BY <1>4, FlattenGrows DEF Lines
  <2> QED
    BY <2>1 DEF UpTo, Wanted
<1>6. \A m \in 0 .. n : Begins(UpTo(m), Wanted)
  <2> DEFINE S == {m \in 0 .. n : Begins(UpTo(m), Wanted)}
  <2>1. ASSUME NEW m \in 0 .. n, \A j \in m + 1 .. n : j \in S
        PROVE  m \in S
    <3>1. CASE m = n
      <4>1. Begins(Wanted, Wanted)
        <5>1. Wanted \in Lines /\ n \in 0 .. n
          BY <1>2, <1>5
        <5> QED
          BY <5>1 DEF Begins, Lines
      <4> QED
        BY <1>5, <3>1, <4>1
    <3>2. CASE m # n
      <4> DEFINE j == m + 1
      <4>1. j \in m + 1 .. n /\ j \in 1 .. n /\ j - 1 = m
        BY <1>2, <3>2
      <4> HIDE DEF j
      <4>2. UpTo(j) = UpTo(m) \o Outputs[j] /\ Begins(UpTo(j), Wanted)
        BY <1>5, <2>1, <4>1
      <4>3. Outputs[j] \in Lines
        <5>1. Outputs \in [1 .. n -> Lines]
          BY <1>4, LenProperties
        <5> QED
          BY <4>1, <5>1
      <4>4. Begins(UpTo(m), UpTo(j))
        BY <1>5, <4>2, <4>3, BeginsMore
      <4>5. Begins(UpTo(m), Wanted)
        BY <4>2, <4>4, BeginsFurther
      <4> QED
        BY <4>5
    <3> QED
      BY <3>1, <3>2
  <2> HIDE DEF S
  <2>2. \A m \in 0 .. n : m \in S
    <3>1. \A m \in 0 .. n : (\A j \in m + 1 .. n : j \in S) => m \in S
      BY <2>1
    <3> QED
      BY <1>2, <3>1, FromTheEnd
  <2> QED
    BY <2>2 DEF S
<1> QED
  BY <1>1, <1>2, <1>4, <1>5, <1>6 DEF n, T

(* What a run is to write does not change while it writes.                  *)
LEMMA SameGoal ==
  ASSUME UNCHANGED <<before, settings>>
  PROVE  /\ Target' = Target /\ Input' = Input /\ There' = There /\ Wanted' = Wanted
         /\ Inside' <=> Inside
         /\ \A n : UpTo(n)' = UpTo(n)
BY DEF Target, Input, Taken, There, Outputs, Wanted, Inside, UpTo

(* The rest of a list: its first, and what is behind that.                  *)
LEMMA RestOfList ==
  ASSUME NEW S, NEW t \in Seq(S), NEW n \in 0 .. Len(t),
         NEW p, p = SubSeq(t, n + 1, Len(t))
  PROVE  /\ p = <<>> => n = Len(t)
         /\ p # <<>> => /\ n + 1 \in 1 .. Len(t)
                        /\ Head(p) = t[n + 1]
                        /\ Tail(p) = SubSeq(t, n + 2, Len(t))
<1> DEFINE l == Len(t)
<1>1. l \in Nat /\ n \in Nat /\ n <= l
  OBVIOUS
<1>2. p \in Seq(S) /\ Len(p) = l - n /\ \A k \in 1 .. l - n : p[k] = t[n + k]
  <2>1. CASE n = l
    <3>1. p = <<>>
      BY <1>1, <2>1
    <3> QED
      BY <1>1, <2>1, <3>1
  <2>2. CASE n < l
    <3>1. n + 1 \in 1 .. l /\ l \in 1 .. l /\ n + 1 <= l
      BY <1>1, <2>2
    <3>2. /\ p \in Seq(S) /\ Len(p) = l - (n + 1) + 1
          /\ \A k \in 1 .. l - (n + 1) + 1 : p[k] = t[n + 1 + k - 1]
      BY <1>1, <3>1, SubSeqProperties
    <3>3. l - (n + 1) + 1 = l - n /\ \A k \in Int : n + 1 + k - 1 = n + k
      BY <1>1
    <3> HIDE DEF l
    <3>4. \A k \in 1 .. l - n : p[k] = t[n + k]
      BY <3>2, <3>3
    <3> QED
      BY <3>2, <3>3, <3>4
  <2> QED
    BY <1>1, <2>1, <2>2
<1>3. ASSUME p # <<>>
      PROVE  n + 1 \in 1 .. l /\ Head(p) = t[n + 1] /\ Tail(p) = SubSeq(t, n + 2, l)
  <2>1. n < l /\ 1 \in 1 .. l - n
    BY <1>1, <1>2, <1>3
  <2>2. Head(p) = t[n + 1]
    BY <1>2, <1>3, <2>1
  <2> DEFINE a == Tail(p)
             b == SubSeq(t, n + 2, l)
  <2>3. a \in Seq(S) /\ Len(a) = l - n - 1 /\ \A k \in 1 .. l - n - 1 : a[k] = p[k + 1]
    BY <1>1, <1>2, <1>3
  <2>4. b \in Seq(S) /\ Len(b) = l - n - 1 /\ \A k \in 1 .. l - n - 1 : b[k] = t[n + 1 + k]
    <3>1. CASE n + 1 = l
      <4>1. b = <<>> /\ l - n - 1 = 0
        BY <1>1, <3>1
      <4> QED
        BY <4>1
    <3>2. CASE n + 1 # l
      <4>1. n + 2 \in 1 .. l /\ l \in 1 .. l /\ n + 2 <= l
        BY <1>1, <2>1, <3>2
      <4>2. /\ b \in Seq(S) /\ Len(b) = l - (n + 2) + 1
            /\ \A k \in 1 .. l - (n + 2) + 1 : b[k] = t[n + 2 + k - 1]
        BY <1>1, <4>1, SubSeqProperties
      <4>3. l - (n + 2) + 1 = l - n - 1 /\ \A k \in Int : n + 2 + k - 1 = n + 1 + k
        BY <1>1
      <4> HIDE DEF l, b
      <4> QED
        BY <4>2, <4>3
    <3> QED
      BY <3>1, <3>2
  <2> HIDE DEF a, b, l
  <2>5. ASSUME NEW k \in 1 .. l - n - 1
        PROVE  a[k] = b[k]
    <3> DEFINE j == k + 1
               x == n + 1 + k
    <3>1. j \in 1 .. l - n /\ n + j = x
      BY <1>1
    <3>2. a[k] = p[j] /\ b[k] = t[x]
      BY <2>3, <2>4
    <3> HIDE DEF j, x
    <3>3. p[j] = t[n + j]
      BY <1>2, <3>1
    <3> QED
      BY <3>1, <3>2, <3>3
  <2>6. Len(a) = Len(b) /\ \A k \in 1 .. Len(a) : a[k] = b[k]
    BY <2>3, <2>4, <2>5
  <2>7. a = b
    BY <2>3, <2>4, <2>6, SeqEqual
  <2>8. n + 1 \in 1 .. l
    BY <1>1, <2>1
  <2> QED
    BY <2>2, <2>7, <2>8 DEF a, b
<1>4. ASSUME p = <<>>
      PROVE  n = l
  <2>1. Len(p) = 0
    <3>1. Len(<<>>) = 0
      OBVIOUS
    <3> QED
      BY <1>4, <3>1, Zenon
  <2>2. l - n = 0
    BY <1>2, <2>1
  <2> HIDE DEF l
  <2> QED
    BY <1>1, <2>2
<1> QED
  BY <1>3, <1>4

(* A single file that is there.                                             *)
LEMMA PresentSingle ==
  ASSUME NEW p, NEW now, Content(p, now) # Missing
  PROVE  Present(<<p>>, now) = <<p>>
<1> DEFINE q == <<p>>
           seqs == <<q>>
           S == {p}
<1>1. Present(q, now) = FlattenSeq(seqs)
  <2>1. p \in ToSet(q)
    BY DEF ToSet
  <2> DEFINE set == {f \in ToSet(q) : Content(f, now) # Missing}
  <2>2. p \in set
    BY <2>1
  <2> HIDE DEF set
  <2>3. [k \in DOMAIN q |-> IF q[k] \in set THEN <<q[k]>> ELSE <<>>] = seqs
    BY <2>2
  <2>4. Those(q, set) = FlattenSeq(seqs)
    BY <2>3 DEF Those
  <2> QED
    BY <2>4 DEF Present, set
<1>2. q \in Seq(S)
  OBVIOUS
<1> HIDE DEF q, S
<1>4. seqs \in Seq(Seq(S)) /\ Len(seqs) = 1 /\ seqs[1] = q
  BY <1>2
<1> HIDE DEF seqs
<1>5. /\ FlattenSeq(SubSeq(seqs, 1, 0)) = <<>>
      /\ FlattenSeq(SubSeq(seqs, 1, 1)) = FlattenSeq(SubSeq(seqs, 1, 0)) \o seqs[1]
      /\ FlattenSeq(SubSeq(seqs, 1, 1)) = FlattenSeq(seqs)
  <2> DEFINE one == 1
  <2>1. one \in 1 .. Len(seqs) /\ one - 1 = 0 /\ one = Len(seqs)
    BY <1>4
  <2> HIDE DEF one
  <2>2. /\ FlattenSeq(SubSeq(seqs, 1, 0)) = <<>>
        /\ FlattenSeq(SubSeq(seqs, 1, one)) = FlattenSeq(SubSeq(seqs, 1, one - 1)) \o seqs[one]
        /\ FlattenSeq(SubSeq(seqs, 1, Len(seqs))) = FlattenSeq(seqs)
    BY <1>4, <2>1, FlattenGrows
  <2> QED
    BY <2>1, <2>2 DEF one
<1>6. <<>> \o q = q
  BY <1>2
<1> QED
  BY <1>1, <1>4, <1>5, <1>6 DEF q

(* The files of the input are as they were.                                 *)
LEMMA InputUntouched ==
  ASSUME AcceptedInv, NEW f, f # Target
  PROVE  Content(f, disk) = Content(f, before)
BY DEF AcceptedInv, CommandShape, OnlyExportFileTouched, Content, Target

(* An export that is over leaves a beginning of the output, whatever part   *)
(* of the lines reached the disk.                                           *)
LEMMA LeftBegun ==
  ASSUME AcceptedInv, Target \in DOMAIN before, NEW lines \in Lines, NEW records,
         HoldAll(lines, records, settings.max_attempts), Begins(records, Wanted),
         NEW begun, Left(lines, begun)
  PROVE  Begun(disk'[Target], Wanted, settings.max_attempts)
<1> DEFINE attempts == settings.max_attempts
           left == disk'[Target]
<1>1. PICK n \in 0 .. Len(lines) :
        left = SubSeq(lines, 1, n) \/ left = Append(SubSeq(lines, 1, n), Piece)
  BY LeftDisk DEF AcceptedInv, Target
<1>2. n \in 0 .. Len(Wanted) /\ HoldAll(SubSeq(lines, 1, n), SubSeq(Wanted, 1, n), attempts)
  BY FirstLinesHold
<1> HIDE DEF left
<1>3. CASE left = SubSeq(lines, 1, n)
  <2>1. Begun(left, Wanted, attempts)
    BY <1>2, <1>3 DEF Begun
  <2> QED
    BY <2>1 DEF left
<1>4. CASE left = Append(SubSeq(lines, 1, n), Piece)
  <2> DEFINE whole == SubSeq(lines, 1, n)
             l == Len(left)
  <2>1. whole \in Lines /\ Len(whole) = n /\ n \in Nat
    <3>1. Len(lines) \in Nat /\ n \in Nat /\ n <= Len(lines)
      BY DEF Lines
    <3> QED
      BY <3>1 DEF Lines
  <2>2. Piece \in Seq(Word)
    BY DEF Piece, Word
  <2>3. left = Append(whole, Piece)
    BY <1>4
  <2> HIDE DEF whole
  <2>4. /\ left \in Lines /\ l = n + 1 /\ left[l] = Piece
        /\ \A k \in 1 .. n : left[k] = whole[k]
    BY <2>1, <2>2, <2>3 DEF Lines
  <2>5. left # <<>> /\ l - 1 = n
    BY <2>1, <2>4
  <2> HIDE DEF l
  <2>6. SubSeq(left, 1, n) = whole
    <3> DEFINE a == SubSeq(left, 1, n)
    <3>1. a \in Lines /\ Len(a) = n /\ \A k \in 1 .. n : a[k] = left[k]
      BY <2>1, <2>4 DEF Lines, l
    <3> HIDE DEF a
    <3>2. Len(a) = Len(whole) /\ \A k \in 1 .. Len(a) : a[k] = whole[k]
      BY <2>1, <2>4, <3>1
    <3>3. a = whole
      BY <2>1, <3>1, <3>2, SeqEqual DEF Lines
    <3> QED
      BY <3>3 DEF a
  <2>7. HoldAll(SubSeq(left, 1, l - 1), SubSeq(Wanted, 1, n), attempts)
    BY <1>2, <2>5, <2>6 DEF whole
  <2>8. Begun(left, Wanted, attempts)
    BY <1>2, <2>4, <2>5, <2>7 DEF Begun, l
  <2> QED
    BY <2>8 DEF left
<1> QED
  BY <1>1, <1>3, <1>4

(* Nothing is exported when the program starts.                             *)
LEMMA OutputInitially == CommandLineInit => OutputInv
BY AcceptedInitially DEF OutputInv, CommandLineInit

(* The export file is open: nothing is written, and what is to come is what *)
(* is there.                                                                *)
LEMMA OpenOutputStep ==
  ASSUME OutputInv, OpenOutput, AcceptedInv'
  PROVE  OutputInv'
<1>1. AcceptedInv /\ UNCHANGED <<before, settings, written>> /\ disk = before /\ written = <<>>
  BY DEF OutputInv, AcceptedInv, OnlyExportFileTouched, OpenOutput, start, output
<1>2. CASE disk' = disk /\ at' = "exited"
  BY <1>1, <1>2 DEF OutputInv
<1>3. CASE /\ at' = "exporting"
           /\ pending' = IF settings.path \in DOMAIN Below
                         THEN Present(Input, disk') ELSE Input
  <2> SUFFICES ASSUME ~ Inside PROVE OutputSoFar'
    BY <1>1, <1>3, SameGoal DEF OutputInv
  <2> DEFINE n == Len(There)
  <2>1. /\ There \in Seq({f \in ToSet(Input) : Content(f, before) # Missing})
        /\ n \in Nat /\ UpTo(0) = <<>> /\ 0 \in 0 .. n
    BY <1>1, OutputGrows
  <2>2. There = SubSeq(There, 0 + 1, n)
    <3> HIDE DEF n
    <3>1. SubSeq(There, 1, n) = There
      BY <2>1 DEF n
    <3> QED
      BY <3>1
  <2>3. \A f : f # Target => Content(f, disk') = Content(f, before)
    <3>1. /\ DOMAIN disk' = DOMAIN before
          /\ \A f \in DOMAIN before : f # Target => disk'[f] = before[f]
      BY <1>1 DEF AcceptedInv, CommandShape, OnlyExportFileTouched, Target
    <3> QED
      BY <3>1 DEF Content
  <2>4. /\ HoldAll(written', UpTo(0), settings.max_attempts)
        /\ \/ pending' = SubSeq(There, 0 + 1, n)
           \/ /\ pending' # <<>> /\ Head(pending') # Target
              /\ Content(Head(pending'), before) = Missing
    <3>0. HoldAll(written', UpTo(0), settings.max_attempts)
      BY <1>1, <2>1 DEF HoldAll
    <3>1. CASE settings.path \in DOMAIN Below
      <4>1. \A k \in DOMAIN Input : Input[k] # Target
        BY DEF Inside, ToSet
      <4>2. Present(Input, disk') = There
        BY <2>3, <4>1, PresentAlike DEF There
      <4> QED
        BY <1>1, <1>3, <2>1, <2>2, <3>0, <3>1, <4>2
    <3>2. CASE settings.path \notin DOMAIN Below
      <4> DEFINE p == settings.path
      <4>1. Input = <<p>> /\ pending' = <<p>> /\ p # Target
        BY <1>3, <3>2 DEF Input, Inside, ToSet
      <4>2. CASE Content(p, before) # Missing
        <5>1. There = <<p>>
          BY <4>1, <4>2, PresentSingle DEF There
        <5> QED
          BY <1>1, <2>1, <2>2, <3>0, <4>1, <5>1
      <4>3. CASE Content(p, before) = Missing
        BY <1>1, <2>1, <3>0, <4>1, <4>3
      <4> QED
        BY <4>2, <4>3
    <3> QED
      BY <3>1, <3>2
  <2>5. /\ UpTo(0)' = UpTo(0) /\ There' = There /\ Target' = Target
        /\ before' = before /\ settings' = settings
    BY <1>1, SameGoal
  <2> QED
    BY <2>1, <2>4, <2>5 DEF OutputSoFar
<1> QED
  BY <1>2, <1>3 DEF OpenOutput, Exit, output

(* The next file of an export is one of the input's and not the export      *)
(* file: it holds what it held.                                             *)
LEMMA NextFile ==
  ASSUME OutputInv, at = "exporting", ~ Inside, pending # <<>>,
         NEW n \in 0 .. Len(There),
         \/ pending = SubSeq(There, n + 1, Len(There))
         \/ /\ pending # <<>> /\ Head(pending) # Target
            /\ Content(Head(pending), before) = Missing
  PROVE  /\ Content(Head(pending), disk) = Content(Head(pending), before)
         /\ Content(Head(pending), before) # Missing =>
              /\ n + 1 \in 1 .. Len(There)
              /\ before[Head(pending)] \in Lines
              /\ Content(Head(pending), before) = before[Head(pending)]
              /\ Tail(pending) = SubSeq(There, n + 2, Len(There))
              /\ UpTo(n + 1) = UpTo(n) \o Records(before[Head(pending)])
<1>1. AcceptedInv
  BY DEF OutputInv
<1> DEFINE T == {f \in ToSet(Input) : Content(f, before) # Missing}
           l == Len(There)
           j == n + 1
<1>2. /\ There \in Seq(T) /\ l \in Nat
      /\ \A m \in 1 .. l : UpTo(m) = UpTo(m - 1) \o Records(before[There[m]])
  BY <1>1, OutputGrows
<1>3. CASE Content(Head(pending), before) = Missing /\ Head(pending) # Target
  BY <1>1, <1>3, InputUntouched
<1>4. CASE pending = SubSeq(There, n + 1, l)
  <2>1. /\ j \in 1 .. l /\ Head(pending) = There[j]
        /\ Tail(pending) = SubSeq(There, n + 2, l)
    <3> HIDE DEF T
    <3> QED
      BY <1>2, <1>4, RestOfList
  <2>2. There[j] \in T
    <3>1. There \in [1 .. l -> T]
      BY <1>2, LenProperties
    <3> HIDE DEF T, l, j
    <3> QED
      BY <2>1, <3>1
  <2>3. There[j] # Target /\ There[j] \in DOMAIN before
        /\ Content(There[j], before) = before[There[j]] /\ before[There[j]] \in Lines
    <3>1. There[j] \in ToSet(Input) /\ Content(There[j], before) # Missing
      BY <2>2
    <3> QED
      BY <1>1, <3>1 DEF Inside, Content, AcceptedInv, CommandShape
  <2>4. j - 1 = n
    OBVIOUS
  <2> HIDE DEF j, l, T
  <2>5. UpTo(j) = UpTo(n) \o Records(before[There[j]])
    BY <1>2, <2>1, <2>4
  <2>6. Content(Head(pending), disk) = Content(Head(pending), before)
    BY <1>1, <2>1, <2>3, InputUntouched
  <2> QED
    BY <2>1, <2>3, <2>5, <2>6 DEF j, l
<1> QED
  BY <1>3, <1>4

(* A file exported is one more of the files whose records are written.      *)
LEMMA ExportFileStep ==
  ASSUME OutputInv, ExportFile, AcceptedInv'
  PROVE  OutputInv'
<1>1. AcceptedInv /\ UNCHANGED <<before, settings>> /\ at = "exporting" /\ at' = "exporting"
      /\ pending # <<>>
  BY DEF OutputInv, ExportFile, start
<1> SUFFICES ASSUME ~ Inside PROVE OutputSoFar'
  BY <1>1, SameGoal DEF OutputInv
<1>2. PICK n \in 0 .. Len(There) :
        /\ HoldAll(written, UpTo(n), settings.max_attempts)
        /\ \/ pending = SubSeq(There, n + 1, Len(There))
           \/ /\ pending # <<>> /\ Head(pending) # Target
              /\ Content(Head(pending), before) = Missing
  BY <1>1 DEF OutputInv, OutputSoFar
<1> DEFINE j == n + 1
           c == Content(Head(pending), before)
<1>3. c # Missing /\ Content(Head(pending), disk) = c
  BY <1>1, <1>2, NextFile DEF ExportFile
<1>4. /\ j \in 1 .. Len(There) /\ c \in Lines
      /\ Tail(pending) = SubSeq(There, n + 2, Len(There))
      /\ UpTo(j) = UpTo(n) \o Records(c)
  BY <1>1, <1>2, <1>3, NextFile
<1>5. PICK torn \in Torn(Len(c)) : written' = written \o LinesOf(c, torn)
  BY <1>3 DEF ExportFile
<1>6. pending' = SubSeq(There, j + 1, Len(There)) /\ j \in 0 .. Len(There)
  <2>1. j + 1 = n + 2 /\ j \in 0 .. Len(There)
    <3>1. Len(There) \in Nat
      BY <1>1, OutputGrows
    <3> QED
      BY <1>4, <3>1
  <2> HIDE DEF j
  <2> QED
    BY <1>4, <2>1 DEF ExportFile
<1>7. HoldAll(written', UpTo(j), settings.max_attempts)
  <2> HIDE DEF j, c
  <2>1. written \in Lines /\ UpTo(n) \in Lines
    BY <1>1, OutputGrows DEF AcceptedInv, CommandShape
  <2>2. LinesOf(c, torn) \in Lines /\ Records(c) \in Lines
    BY <1>4, LinesType, RecordsType
  <2>3. HoldAll(LinesOf(c, torn), Records(c), settings.max_attempts)
    BY <1>4, ContentHolds
  <2>4. HoldAll(written \o LinesOf(c, torn), UpTo(n) \o Records(c), settings.max_attempts)
    BY <1>2, <2>1, <2>2, <2>3, MoreLinesHold
  <2> QED
    BY <1>4, <1>5, <2>4
<1>8. UpTo(j)' = UpTo(j) /\ There' = There /\ settings' = settings
  <2> HIDE DEF j
  <2>1. \A m : UpTo(m)' = UpTo(m)
    BY <1>1, SameGoal
  <2> QED
    BY <1>1, <2>1, SameGoal
<1> HIDE DEF j
<1> QED
  BY <1>6, <1>7, <1>8 DEF OutputSoFar

(* An export that fails leaves a beginning of the output: the records of    *)
(* the files before, and some of those of the file it failed at.            *)
LEMMA ExportFailsStep ==
  ASSUME OutputInv, ExportFails, AcceptedInv'
  PROVE  OutputInv'
<1>1. AcceptedInv /\ UNCHANGED <<before, settings>> /\ at = "exporting" /\ at' = "exited"
      /\ exit' = 1 /\ pending # <<>> /\ Target \in DOMAIN before
  BY DEF OutputInv, ExportFails, Exit, start, AcceptedInv, OnlyExportFileTouched, Target
<1> SUFFICES ASSUME ~ Inside PROVE OutputLeft'
  BY <1>1, SameGoal DEF OutputInv
<1>2. PICK n \in 0 .. Len(There) :
        /\ HoldAll(written, UpTo(n), settings.max_attempts)
        /\ \/ pending = SubSeq(There, n + 1, Len(There))
           \/ /\ pending # <<>> /\ Head(pending) # Target
              /\ Content(Head(pending), before) = Missing
  BY <1>1 DEF OutputInv, OutputSoFar
<1> DEFINE c == Content(Head(pending), disk)
<1>3. PICK k \in 0 .. Len(c) : WrittenUpTo(k) /\ Left(written', c # Missing /\ k < Len(c))
  BY DEF ExportFails
<1> DEFINE first == SubSeq(c, 1, k)
           records == Records(first)
<1>4. PICK torn \in Torn(k) : written' = written \o LinesOf(first, torn)
  BY <1>3 DEF WrittenUpTo
<1>5. c \in Lines
  BY <1>1, ContentType DEF AcceptedInv
<1>6. first \in Lines /\ Len(first) = k /\ k \in Nat
  <2> HIDE DEF c
  <2>1. Len(c) \in Nat /\ k \in Nat /\ k <= Len(c)
    BY <1>5 DEF Lines
  <2> QED
    BY <1>5, <2>1 DEF Lines
<1>7. /\ written \in Lines /\ UpTo(n) \in Lines /\ Begins(UpTo(n), Wanted)
      /\ Wanted \in Lines
  <2>1. written \in Lines /\ UpTo(n) \in Lines /\ Begins(UpTo(n), Wanted)
    BY <1>1, OutputGrows DEF AcceptedInv, CommandShape
  <2> QED
    BY <2>1 DEF Begins
<1>8. /\ LinesOf(first, torn) \in Lines /\ records \in Lines /\ Len(records) = k
      /\ HoldAll(LinesOf(first, torn), records, settings.max_attempts)
  <2> HIDE DEF first
  <2> QED
    BY <1>6, LinesType, RecordsType, ContentHolds
<1>9. UpTo(n) \o records \in Lines /\ written' \in Lines
      /\ HoldAll(written', UpTo(n) \o records, settings.max_attempts)
  <2> HIDE DEF first, records
  <2>1. HoldAll(written \o LinesOf(first, torn), UpTo(n) \o records, settings.max_attempts)
    BY <1>2, <1>7, <1>8, MoreLinesHold
  <2>2. UpTo(n) \o records \in Lines /\ written \o LinesOf(first, torn) \in Lines
    BY <1>7, <1>8 DEF Lines
  <2> QED
    BY <1>4, <2>1, <2>2
<1>10. Begins(UpTo(n) \o records, Wanted)
  <2>1. CASE k = 0
    <3> HIDE DEF records, first
    <3>1. records = <<>>
      BY <1>8, <2>1 DEF Lines
    <3>2. UpTo(n) \o records = UpTo(n)
      BY <1>7, <3>1 DEF Lines
    <3> QED
      BY <1>7, <3>2
  <2>2. CASE k # 0
    <3> DEFINE j == n + 1
    <3>0. Content(Head(pending), before) = c
      BY <1>1, <1>2, NextFile
    <3>1. /\ j \in 1 .. Len(There)
          /\ UpTo(j) = UpTo(n) \o Records(c)
      <4>1. c # Missing
        BY <1>3, <2>2 DEF WrittenUpTo
      <4> QED
        BY <1>1, <1>2, <3>0, <4>1, NextFile
    <3>2. Begins(UpTo(j), Wanted)
      <4>1. Len(There) \in Nat /\ \A m \in 0 .. Len(There) : Begins(UpTo(m), Wanted)
        BY <1>1, OutputGrows
      <4>2. j \in 0 .. Len(There)
        BY <3>1, <4>1
      <4> HIDE DEF j
      <4> QED
        BY <4>1, <4>2
    <3> HIDE DEF j
    <3>3. Begins(records, Records(c))
      <4> HIDE DEF c
      <4> QED
        BY <1>5, FirstRecords
    <3> HIDE DEF records
    <3>4. Begins(UpTo(n) \o records, UpTo(n) \o Records(c))
      BY <1>7, <3>3, BeginsBehind
    <3> QED
      BY <3>1, <3>2, <3>4, BeginsFurther
  <2> QED
    BY <2>1, <2>2
<1>11. Begun(disk'[Target], Wanted, settings.max_attempts)
  <2> DEFINE w == written'
             r == UpTo(n) \o records
             begun == c # Missing /\ k < Len(c)
  <2>1. /\ w \in Lines /\ Left(w, begun) /\ Begins(r, Wanted)
        /\ HoldAll(w, r, settings.max_attempts)
    BY <1>3, <1>9, <1>10
  <2> HIDE DEF w, r, begun
  <2> QED
    BY <1>1, <2>1, LeftBegun
<1>12. Target' = Target /\ Wanted' = Wanted
  BY <1>1, SameGoal
<1> QED
  BY <1>1, <1>11, <1>12 DEF OutputLeft

(* The end of the list is the end of the output.                            *)
LEMMA FinishStep ==
  ASSUME OutputInv, Finish, AcceptedInv'
  PROVE  OutputInv'
<1>1. AcceptedInv /\ UNCHANGED <<before, settings, written>> /\ at = "exporting"
      /\ at' = "exited" /\ pending = <<>> /\ Left(written, FALSE) /\ Target \in DOMAIN before
      /\ tail_lost' = (disk'[Target] # written)
  BY DEF OutputInv, Finish, Exit, start, AcceptedInv, OnlyExportFileTouched, Target
<1> SUFFICES ASSUME ~ Inside PROVE OutputLeft'
  BY <1>1, SameGoal DEF OutputInv
<1>2. PICK n \in 0 .. Len(There) :
        /\ HoldAll(written, UpTo(n), settings.max_attempts)
        /\ pending = SubSeq(There, n + 1, Len(There))
  BY <1>1 DEF OutputInv, OutputSoFar
<1>3. HoldAll(written, Wanted, settings.max_attempts)
  <2> DEFINE T == {f \in ToSet(Input) : Content(f, before) # Missing}
  <2>1. There \in Seq(T) /\ UpTo(Len(There)) = Wanted
    BY <1>1, OutputGrows
  <2> HIDE DEF T
  <2>2. n = Len(There)
    BY <1>1, <1>2, <2>1, RestOfList
  <2> QED
    BY <1>2, <2>1, <2>2
<1>4. Begun(disk'[Target], Wanted, settings.max_attempts)
  <2>1. written \in Lines
    BY <1>1 DEF AcceptedInv, CommandShape
  <2>2. Begins(Wanted, Wanted)
    <3>1. Len(There) \in Nat /\ Begins(UpTo(Len(There)), Wanted) /\ UpTo(Len(There)) = Wanted
      BY <1>1, OutputGrows
    <3> QED
      BY <3>1
  <2> QED
    BY <1>1, <1>3, <2>1, <2>2, LeftBegun
<1>5. Target' = Target /\ Wanted' = Wanted
  BY <1>1, SameGoal
<1> QED
  BY <1>1, <1>3, <1>4, <1>5 DEF OutputLeft

(* Every step keeps the account of what is written and what is to come.     *)
LEMMA OutputStep ==
  ASSUME OutputInv, [CommandLineNext]_command_vars
  PROVE  OutputInv'
<1>1. AcceptedInv'
  BY AcceptedStep DEF OutputInv
<1>2. CASE Start \/ TakeValue \/ TakeFlag \/ TakePath \/ RefuseWord \/ LoadFile \/ Override
  <2>1. disk' = before' /\ at' # "exporting"
    BY <1>2, EarlySteps DEF OutputInv, AcceptedInv, OnlyExportFileTouched
  <2> QED
    BY <1>1, <2>1 DEF OutputInv
<1>3. CASE OpenOutput \/ ExportFile \/ ExportFails \/ Finish
  BY <1>1, <1>3, OpenOutputStep, ExportFileStep, ExportFailsStep, FinishStep
<1>4. CASE Exited \/ UNCHANGED command_vars
  <2>1. UNCHANGED <<before, settings, disk, at, written, pending, exit, tail_lost>>
    BY <1>4 DEF Exited, command_vars
  <2>2. /\ OutputSoFar' <=> OutputSoFar
        /\ OutputLeft' <=> OutputLeft
        /\ Inside' <=> Inside
    <3>1. /\ Target' = Target /\ There' = There /\ Wanted' = Wanted
          /\ \A n : UpTo(n)' = UpTo(n)
          /\ Inside' <=> Inside
      BY <2>1, SameGoal
    <3> QED
      BY <2>1, <3>1 DEF OutputSoFar, OutputLeft
  <2> QED
    BY <1>1, <2>1, <2>2 DEF OutputInv
<1> QED
  BY <1>2, <1>3, <1>4 DEF CommandLineNext

(* Code: export_streaming of src/directory_pipeline.cpp as main calls it.   *)
THEOREM OutputInvariant == CommandLineSpec => []OutputInv
<1>1. OutputInv /\ [CommandLineNext]_command_vars => OutputInv'
  BY OutputStep
<1> QED
  BY OutputInitially, <1>1, PTL DEF CommandLineSpec

(* A run that says success has left a line for every record of every file   *)
(* that export_streaming takes of the input, in path order and nothing      *)
(* else, unless the tail was lost; a run that failed the first of these     *)
(* lines, the last one perhaps cut.  In front of a record stands only what  *)
(* attempts that were repeated have torn off, nothing when there is one.    *)
(* Code: lines 221-271 of src/cli/main.cpp, lines 271-310 and 379-385 of    *)
(* src/directory_pipeline.cpp and lines 161-176 of                          *)
(* include/fastchunk/ndjson_exporter.h.                                     *)
THEOREM SuccessWroteAll == CommandLineSpec => []SuccessIsTheWholeOutput
<1>1. OutputInv => SuccessIsTheWholeOutput
  BY DEF OutputInv, OutputLeft, Begun, SuccessIsTheWholeOutput, Wanted, Outputs, There, Target,
         Inside
<1> QED
  BY OutputInvariant, <1>1, PTL

-----------------------------------------------------------------------------
(* The words that are options.                                              *)

(* The options whose value is a text, a number, or nothing.                 *)
Texts == {"config", "type", "mode", "invalid_utf8", "export_path", "result_order",
          "record_mode", "record_id_field", "on_malformed_record"}
Numbers == {"max_tokens", "overlap_tokens", "workers"}
Switches == {"recursive", "include_hidden", "json_errors"}

(* No word is an option of two kinds.                                       *)
LEMMA Vocabulary ==
  ASSUME NEW word
  PROVE  /\ word \in DOMAIN ValueOptions =>
              /\ ValueOptions[word] \in Texts \cup Numbers
              /\ word \notin DOMAIN Flags
         /\ word \in DOMAIN Flags => Flags[word] \in Switches
         /\ word \in DOMAIN ValueOptions \cup DOMAIN Flags => word \in Dashed
<1>1. word \in DOMAIN ValueOptions => ValueOptions[word] \in Texts \cup Numbers
  BY DEF ValueOptions, Texts, Numbers
<1>2. word \in DOMAIN ValueOptions => word \notin DOMAIN Flags
  BY DEF ValueOptions, Flags
<1>3. word \in DOMAIN Flags => Flags[word] \in Switches
  BY DEF Flags, Switches
<1> QED
  BY <1>1, <1>2, <1>3, DashedAssumption

(* IsValue is what it says: the words are looked at from the left.          *)
LEMMA IsValueUnfolded ==
  ASSUME argv \in Seq(STRING)
  PROVE  \A i \in 1 .. Len(argv) :
           IsValue[i] <=> (i > 2 /\ argv[i - 1] \in DOMAIN ValueOptions /\ ~ IsValue[i - 1])
<1> DEFINE n == Len(argv)
           base == FALSE
           Takes(p) == p > 2 /\ argv[p - 1] \in DOMAIN ValueOptions
           further == [i \in 0 .. n - 1 |-> i + 1]
           step == [i \in 0 .. n - 1 |-> [v \in BOOLEAN |-> Takes(n - i) /\ ~ v]]
<1>1. n \in Nat
  OBVIOUS
<1> HIDE DEF n
<1>2. /\ \A i \in 0 .. n - 1 : further[i] \in i + 1 .. n
      /\ \A i \in 0 .. n - 1 : further[i] = i + 1
  BY <1>1
<1>3. /\ \A i \in 0 .. n - 1 : \A v \in BOOLEAN : step[i][v] = (Takes(n - i) /\ ~ v)
      /\ \A i \in 0 .. n - 1 : \A v \in BOOLEAN : step[i][v] \in BOOLEAN
  OBVIOUS
<1>4. PICK b \in [0 .. n -> BOOLEAN] :
        b = [i \in 0 .. n |-> IF i = n THEN base ELSE step[i][b[further[i]]]]
  <2> DEFINE V == BOOLEAN
  <2> HIDE DEF step, further, base, V
  <2>1. base \in V /\ \A i \in 0 .. n - 1 : \A v \in V : step[i][v] \in V
    BY <1>3 DEF V, base
  <2>2. Computable(n, V, base, further, step)
    BY <1>1, <1>2, <2>1, BackwardRecursion
  <2> QED
    BY <2>2 DEF V, Computable
<1> DEFINE f == [i \in 1 .. n |-> b[n - i]]
<1>5. ASSUME NEW i \in 1 .. n
      PROVE  f[i] = (i > 2 /\ argv[i - 1] \in DOMAIN ValueOptions /\ ~ f[i - 1])
  <2> DEFINE j == n - i
  <2>1. j \in 0 .. n - 1 /\ j # n /\ j \in 0 .. n /\ n - j = i /\ j + 1 \in 0 .. n
    BY <1>1
  <2> HIDE DEF j
  <2>2. b[j] = (Takes(i) /\ ~ b[j + 1])
    <3>1. b[j] = step[j][b[j + 1]]
      <4> HIDE DEF step, further
      <4> QED
        BY <1>2, <1>4, <2>1
    <3> DEFINE v == b[j + 1]
    <3>2. v \in BOOLEAN
      BY <1>4, <2>1
    <3> HIDE DEF v, step, Takes
    <3>3. step[j][v] = (Takes(n - j) /\ ~ v)
      BY <1>3, <2>1, <3>2
    <3> QED
      BY <2>1, <3>1, <3>3 DEF v
  <2>3. f[i] = b[j]
    BY DEF j
  <2>4. i > 2 => f[i - 1] = b[j + 1]
    <3> SUFFICES ASSUME i > 2 PROVE f[i - 1] = b[j + 1]
      OBVIOUS
    <3>1. i - 1 \in 1 .. n /\ n - (i - 1) = j + 1
      BY <1>1 DEF j
    <3> QED
      BY <3>1
  <2> QED
    BY <2>2, <2>3, <2>4
<1> HIDE DEF f
<1>6. f = [i \in 1 .. n |->
             i > 2 /\ argv[i - 1] \in DOMAIN ValueOptions /\ ~ f[i - 1]]
  <2>1. f = [i \in 1 .. n |-> f[i]]
    BY DEF f
  <2> QED
    BY <1>5, <2>1
<1>7. IsValue = [i \in 1 .. n |->
             i > 2 /\ argv[i - 1] \in DOMAIN ValueOptions /\ ~ IsValue[i - 1]]
  <2> DEFINE R(g) == [i \in 1 .. n |->
                        i > 2 /\ argv[i - 1] \in DOMAIN ValueOptions /\ ~ g[i - 1]]
  <2>1. IsValue = CHOOSE g : g = R(g)
    BY DEF IsValue, n
  <2>2. f = R(f)
    BY <1>6
  <2> HIDE DEF R
  <2>3. \E g : g = R(g)
    BY <2>2
  <2>4. IsValue = R(IsValue)
    BY <2>1, <2>3
  <2> QED
    BY <2>4 DEF R
<1> HIDE DEF n
<1>8. ASSUME NEW i \in 1 .. n
      PROVE  IsValue[i] <=> (i > 2 /\ argv[i - 1] \in DOMAIN ValueOptions /\ ~ IsValue[i - 1])
  BY <1>7
<1> QED
  BY <1>8 DEF n

-----------------------------------------------------------------------------
(* What the heads H give.                                                   *)
TextsGiven(H, g) ==
  \A option \in Texts :
    /\ option \in DOMAIN g <=> (Mentioned(H, option) # {} /\ LastSaid(H, option) # "")
    /\ option \in DOMAIN g => g[option] = LastSaid(H, option)
NumbersGiven(H, g) ==
  \A option \in Numbers :
    /\ option \in DOMAIN g <=> Mentioned(H, option) # {}
    /\ option \in DOMAIN g => g[option] = NumberOf[LastSaid(H, option)]
SwitchesGiven(H, g) ==
  \A option \in Switches :
    /\ option \in DOMAIN g <=> Switched(H, option)
    /\ option \in DOMAIN g => g[option] = TRUE
PathGiven(H, g) ==
  /\ "path" \in DOMAIN g <=> InputWords(H) # {}
  /\ "path" \in DOMAIN g => g["path"] = argv[Max(InputWords(H))]

(* g is what the heads H give, and nothing else.                            *)
GivenBy(H, g) ==
  /\ DOMAIN g \subseteq Texts \cup Numbers \cup Switches \cup {"path"}
  /\ TextsGiven(H, g) /\ NumbersGiven(H, g) /\ SwitchesGiven(H, g) /\ PathGiven(H, g)

(* The kinds of options are disjoint.                                       *)
LEMMA Kinds ==
  /\ \A option \in Texts : option \notin Numbers \cup Switches \cup {"path"}
  /\ \A option \in Numbers : option \notin Switches \cup {"path"}
  /\ "path" \notin Switches
BY DEF Texts, Numbers, Switches

(* The latest head is the greatest.                                         *)
LEMMA MaxOfMore ==
  ASSUME NEW M, NEW i \in Nat, \A m \in M : m \in Nat /\ m < i
  PROVE  Max(M \cup {i}) = i
<1> DEFINE T == M \cup {i}
<1>1. i \in T /\ \A y \in T : i >= y
  OBVIOUS
<1>2. \A x \in T : (\A y \in T : x >= y) => x = i
  <2> SUFFICES ASSUME NEW x \in T, \A y \in T : x >= y PROVE x = i
    OBVIOUS
  <2>1. x >= i /\ x \in Nat
    BY <1>1
  <2>2. i >= x
    BY <1>1
  <2> QED
    BY <2>1, <2>2
<1> HIDE DEF T
<1>3. Max(T) = i
  BY <1>1, <1>2 DEF Max
<1> QED
  BY <1>3 DEF T

(* One more head that is an option with a value.                            *)
LEMMA OneMoreMention ==
  ASSUME NEW H, NEW i \in Nat, \A h \in H : h \in Nat /\ h < i,
         argv[i] \in DOMAIN ValueOptions
  PROVE  /\ \A option : option # ValueOptions[argv[i]] =>
              Mentioned(H \cup {i}, option) = Mentioned(H, option)
         /\ Mentioned(H \cup {i}, ValueOptions[argv[i]]) # {}
         /\ LastSaid(H \cup {i}, ValueOptions[argv[i]]) = argv[i + 1]
         /\ \A option : Switched(H \cup {i}, option) <=> Switched(H, option)
         /\ InputWords(H \cup {i}) = InputWords(H)
<1> DEFINE o == ValueOptions[argv[i]]
           M == Mentioned(H, o)
<1>1. argv[i] \notin DOMAIN Flags /\ argv[i] \in Dashed
  BY Vocabulary
<1>2. Mentioned(H \cup {i}, o) = M \cup {i}
  BY DEF Mentioned
<1>3. Max(M \cup {i}) = i
  <2>1. \A m \in M : m \in Nat /\ m < i
    BY DEF Mentioned
  <2> HIDE DEF M
  <2> QED
    BY <2>1, MaxOfMore
<1>4. \A option : option # o => Mentioned(H \cup {i}, option) = Mentioned(H, option)
  BY DEF Mentioned
<1>5. \A option : Switched(H \cup {i}, option) <=> Switched(H, option)
  BY <1>1 DEF Switched
<1>6. InputWords(H \cup {i}) = InputWords(H)
  BY <1>1 DEF InputWords
<1>7. LastSaid(H \cup {i}, o) = argv[i + 1]
  BY <1>2, <1>3 DEF LastSaid
<1> QED
  BY <1>2, <1>4, <1>5, <1>6, <1>7

(* One more head that is no option with a value.                            *)
LEMMA NoMoreMention ==
  ASSUME NEW H, NEW i \in Nat, argv[i] \notin DOMAIN ValueOptions
  PROVE  \A option : /\ Mentioned(H \cup {i}, option) = Mentioned(H, option)
                     /\ LastSaid(H \cup {i}, option) = LastSaid(H, option)
<1>1. \A option : Mentioned(H \cup {i}, option) = Mentioned(H, option)
  BY DEF Mentioned
<1> QED
  BY <1>1 DEF LastSaid

(* A text for an option, or the empty word, which takes it back.            *)
LEMMA TextTaken ==
  ASSUME NEW H, NEW i \in Nat, \A h \in H : h \in Nat /\ h < i,
         argv[i] \in DOMAIN ValueOptions, ValueOptions[argv[i]] \in Texts,
         GivenBy(H, given)
  PROVE  GivenBy(H \cup {i}, With(ValueOptions[argv[i]], argv[i + 1]))
<1> DEFINE o == ValueOptions[argv[i]]
           word == argv[i + 1]
           K == H \cup {i}
           g == With(o, word)
<1>1. /\ o \in Texts
      /\ \A option : option # o => Mentioned(K, option) = Mentioned(H, option)
      /\ Mentioned(K, o) # {} /\ LastSaid(K, o) = word
      /\ \A option : Switched(K, option) <=> Switched(H, option)
      /\ InputWords(K) = InputWords(H)
  BY OneMoreMention
<1>2. /\ DOMAIN g = IF word = "" THEN DOMAIN given \ {o} ELSE DOMAIN given \cup {o}
      /\ \A option \in DOMAIN g : g[option] = IF option = o THEN word ELSE given[option]
  BY DEF With, Given
<1>3. \A option : option # o => LastSaid(K, option) = LastSaid(H, option)
  BY <1>1 DEF LastSaid
<1> HIDE DEF o, word, K, g
<1>4. TextsGiven(K, g)
  BY <1>1, <1>2, <1>3 DEF GivenBy, TextsGiven
<1>5. NumbersGiven(K, g)
  BY <1>1, <1>2, <1>3, Kinds DEF GivenBy, NumbersGiven
<1>6. SwitchesGiven(K, g)
  BY <1>1, <1>2, Kinds DEF GivenBy, SwitchesGiven
<1>7. PathGiven(K, g)
  BY <1>1, <1>2, Kinds DEF GivenBy, PathGiven
<1>8. DOMAIN g \subseteq Texts \cup Numbers \cup Switches \cup {"path"}
  BY <1>1, <1>2 DEF GivenBy
<1> QED
  BY <1>4, <1>5, <1>6, <1>7, <1>8 DEF GivenBy, g, K, o, word

(* A number for an option.                                                  *)
LEMMA NumberTaken ==
  ASSUME NEW H, NEW i \in Nat, \A h \in H : h \in Nat /\ h < i,
         argv[i] \in DOMAIN ValueOptions, ValueOptions[argv[i]] \in Numbers,
         GivenBy(H, given)
  PROVE  GivenBy(H \cup {i}, Given(ValueOptions[argv[i]], NumberOf[argv[i + 1]]))
<1> DEFINE o == ValueOptions[argv[i]]
           word == argv[i + 1]
           K == H \cup {i}
           g == Given(o, NumberOf[word])
<1>1. /\ o \in Numbers
      /\ \A option : option # o => Mentioned(K, option) = Mentioned(H, option)
      /\ Mentioned(K, o) # {} /\ LastSaid(K, o) = word
      /\ \A option : Switched(K, option) <=> Switched(H, option)
      /\ InputWords(K) = InputWords(H)
  BY OneMoreMention
<1>2. /\ DOMAIN g = DOMAIN given \cup {o}
      /\ \A option \in DOMAIN g :
           g[option] = IF option = o THEN NumberOf[word] ELSE given[option]
  BY DEF Given
<1>3. \A option : option # o => LastSaid(K, option) = LastSaid(H, option)
  BY <1>1 DEF LastSaid
<1> HIDE DEF o, word, K, g
<1>4. TextsGiven(K, g)
  BY <1>1, <1>2, <1>3, Kinds DEF GivenBy, TextsGiven
<1>5. NumbersGiven(K, g)
  BY <1>1, <1>2, <1>3 DEF GivenBy, NumbersGiven
<1>6. SwitchesGiven(K, g)
  BY <1>1, <1>2, Kinds DEF GivenBy, SwitchesGiven
<1>7. PathGiven(K, g)
  BY <1>1, <1>2, Kinds DEF GivenBy, PathGiven
<1>8. DOMAIN g \subseteq Texts \cup Numbers \cup Switches \cup {"path"}
  BY <1>1, <1>2 DEF GivenBy
<1> QED
  BY <1>4, <1>5, <1>6, <1>7, <1>8 DEF GivenBy, g, K, o, word

(* A switch.                                                                *)
LEMMA SwitchTaken ==
  ASSUME NEW H, NEW i \in Nat, argv[i] \in DOMAIN Flags, GivenBy(H, given)
  PROVE  GivenBy(H \cup {i}, Given(Flags[argv[i]], TRUE))
<1> DEFINE o == Flags[argv[i]]
           K == H \cup {i}
           g == Given(o, TRUE)
<1>1. o \in Switches /\ argv[i] \notin DOMAIN ValueOptions /\ argv[i] \in Dashed
  BY Vocabulary
<1>2. \A option : /\ Mentioned(K, option) = Mentioned(H, option)
                  /\ LastSaid(K, option) = LastSaid(H, option)
  BY <1>1, NoMoreMention
<1>3. \A option : Switched(K, option) <=> (option = o \/ Switched(H, option))
  BY DEF Switched
<1>4. InputWords(K) = InputWords(H)
  BY <1>1 DEF InputWords
<1>5. /\ DOMAIN g = DOMAIN given \cup {o}
      /\ \A option \in DOMAIN g : g[option] = IF option = o THEN TRUE ELSE given[option]
  BY DEF Given
<1> HIDE DEF o, K, g
<1>6. TextsGiven(K, g)
  BY <1>1, <1>2, <1>5, Kinds DEF GivenBy, TextsGiven
<1>7. NumbersGiven(K, g)
  BY <1>1, <1>2, <1>5, Kinds DEF GivenBy, NumbersGiven
<1>8. SwitchesGiven(K, g)
  BY <1>1, <1>3, <1>5 DEF GivenBy, SwitchesGiven
<1>9. PathGiven(K, g)
  BY <1>1, <1>4, <1>5, Kinds DEF GivenBy, PathGiven
<1>10. DOMAIN g \subseteq Texts \cup Numbers \cup Switches \cup {"path"}
  BY <1>1, <1>5 DEF GivenBy
<1> QED
  BY <1>6, <1>7, <1>8, <1>9, <1>10 DEF GivenBy, g, K, o

(* The input.                                                               *)
LEMMA PathTaken ==
  ASSUME NEW H, NEW i \in Nat, argv[i] \notin Dashed, "path" \notin DOMAIN given,
         GivenBy(H, given)
  PROVE  GivenBy(H \cup {i}, With("path", argv[i]))
<1> DEFINE word == argv[i]
           K == H \cup {i}
           g == With("path", word)
<1>1. word \notin DOMAIN ValueOptions /\ word \notin DOMAIN Flags
  BY Vocabulary
<1>2. \A option : /\ Mentioned(K, option) = Mentioned(H, option)
                  /\ LastSaid(K, option) = LastSaid(H, option)
  BY <1>1, NoMoreMention
<1>3. \A option : Switched(K, option) <=> Switched(H, option)
  BY <1>1 DEF Switched
<1>4. InputWords(H) = {}
  BY DEF GivenBy, PathGiven
<1>5. InputWords(K) = IF word = "" THEN {} ELSE {i}
  BY <1>4 DEF InputWords
<1>6. /\ DOMAIN g = IF word = "" THEN DOMAIN given ELSE DOMAIN given \cup {"path"}
      /\ \A option \in DOMAIN g : g[option] = IF option = "path" THEN word ELSE given[option]
  BY DEF With, Given
<1>7. Max({i}) = i
  <2>1. {} \cup {i} = {i}
    OBVIOUS
  <2>2. Max({} \cup {i}) = i
    BY MaxOfMore
  <2> QED
    BY <2>1, <2>2
<1>8. argv[i] = word
  OBVIOUS
<1> HIDE DEF word, K, g
<1>9. TextsGiven(K, g)
  BY <1>2, <1>6, Kinds DEF GivenBy, TextsGiven
<1>10. NumbersGiven(K, g)
  BY <1>2, <1>6, Kinds DEF GivenBy, NumbersGiven
<1>11. SwitchesGiven(K, g)
  BY <1>3, <1>6, Kinds DEF GivenBy, SwitchesGiven
<1>12. PathGiven(K, g)
  BY <1>5, <1>6, <1>7, <1>8 DEF PathGiven
<1>13. DOMAIN g \subseteq Texts \cup Numbers \cup Switches \cup {"path"}
  BY <1>6 DEF GivenBy
<1> QED
  BY <1>9, <1>10, <1>11, <1>12, <1>13 DEF GivenBy, g, K, word

-----------------------------------------------------------------------------
(* The parse, and the settings that come of it.                             *)

(* The words before n that are no values.                                   *)
HeadsBefore(n) == {i \in 2 .. n - 1 : ~ IsValue[i]}

Parsed ==
  /\ index \in 2 .. Len(argv) + 1
  /\ index <= Len(argv) => ~ IsValue[index]
  /\ GivenBy(HeadsBefore(index), given)

ConfigurationNamed == "config" \in DOMAIN given
Underneath == IF ConfigurationNamed THEN Over(DefaultConfiguration, document.given)
              ELSE DefaultConfiguration

SettingsInv ==
  /\ argv \in Seq(STRING)
  /\ IsDocument(document)
  /\ at = "started" => given = <<>>
  /\ at \in {"parsing", "overriding"} => Parsed
  /\ at = "overriding" => /\ index = Len(argv) + 1
                          /\ settings = Underneath
                          /\ ConfigurationNamed => FileTaken
  /\ EffectiveSettings

(* A step of the parse goes to the next word that is no value.              *)
LEMMA NextHead ==
  ASSUME argv \in Seq(STRING), Parsed, index <= Len(argv)
  PROVE  /\ index \in Nat /\ \A h \in HeadsBefore(index) : h \in Nat /\ h < index
         /\ argv[index] \notin DOMAIN ValueOptions =>
              /\ index + 1 \in 2 .. Len(argv) + 1
              /\ index + 1 <= Len(argv) => ~ IsValue[index + 1]
              /\ HeadsBefore(index + 1) = HeadsBefore(index) \cup {index}
         /\ argv[index] \in DOMAIN ValueOptions /\ index < Len(argv) =>
              /\ index + 2 \in 2 .. Len(argv) + 1
              /\ index + 2 <= Len(argv) => ~ IsValue[index + 2]
              /\ HeadsBefore(index + 2) = HeadsBefore(index) \cup {index}
<1> DEFINE n == Len(argv)
           one == index + 1
           two == index + 2
<1>1. n \in Nat /\ index \in Nat /\ 2 <= index /\ index <= n /\ ~ IsValue[index]
  BY DEF Parsed
<1>2. \A i \in 1 .. n :
        IsValue[i] <=> (i > 2 /\ argv[i - 1] \in DOMAIN ValueOptions /\ ~ IsValue[i - 1])
  BY IsValueUnfolded
<1>3. /\ one - 1 = index /\ two - 1 = one /\ one > 2 /\ two > 2
      /\ one <= n => one \in 1 .. n
      /\ two <= n => two \in 1 .. n /\ one \in 1 .. n
      /\ one \in 2 .. n + 1
      /\ index < n => two \in 2 .. n + 1 /\ one \in 1 .. n
  BY <1>1
<1>4. /\ 2 .. one - 1 = (2 .. index - 1) \cup {index}
      /\ 2 .. two - 1 = (2 .. index - 1) \cup {index, one}
  BY <1>1
<1> HIDE DEF n, one, two
<1>5. one <= n => (IsValue[one] <=> argv[index] \in DOMAIN ValueOptions)
  BY <1>1, <1>2, <1>3
<1>6. two <= n /\ IsValue[one] => ~ IsValue[two]
  BY <1>2, <1>3
<1>7. HeadsBefore(one) = HeadsBefore(index) \cup {index}
  BY <1>1, <1>4 DEF HeadsBefore
<1>8. index < n /\ argv[index] \in DOMAIN ValueOptions =>
        HeadsBefore(two) = HeadsBefore(index) \cup {index}
  <2> SUFFICES ASSUME index < n, argv[index] \in DOMAIN ValueOptions
               PROVE  HeadsBefore(two) = HeadsBefore(index) \cup {index}
    OBVIOUS
  <2>1. IsValue[one]
    <3>1. one <= n
      BY <1>3
    <3> QED
      BY <1>5, <3>1
  <2> QED
    BY <1>1, <1>4, <2>1 DEF HeadsBefore
<1>9. index < n => one <= n
  BY <1>1 DEF one
<1>10. \A h \in HeadsBefore(index) : h \in Nat /\ h < index
  BY <1>1 DEF HeadsBefore
<1>11. argv[index] \in DOMAIN ValueOptions /\ index < n => (two <= n => ~ IsValue[two])
  BY <1>5, <1>6, <1>9
<1> QED
  BY <1>1, <1>3, <1>5, <1>7, <1>8, <1>10, <1>11 DEF n, one, two

(* A step of the parse that goes on keeps what was parsed.                  *)
LEMMA ParseStep ==
  ASSUME SettingsInv, TakeValue \/ TakeFlag \/ TakePath, at' = "parsing"
  PROVE  Parsed'
<1>1. /\ at = "parsing" /\ index <= Len(argv) /\ Parsed /\ argv \in Seq(STRING)
      /\ argv' = argv
  BY DEF SettingsInv, TakeValue, TakeNumber, TakeFlag, TakePath, Took, start, Exit
<1>2. \A n : HeadsBefore(n)' = HeadsBefore(n)
  BY <1>1 DEF HeadsBefore, IsValue
<1>3. IsValue' = IsValue
  BY <1>1 DEF IsValue
<1>4. \A H, g : GivenBy(H, g)' <=> GivenBy(H, g)
  BY <1>1 DEF GivenBy, TextsGiven, NumbersGiven, SwitchesGiven, PathGiven, LastSaid,
              Mentioned, Switched, InputWords
<1> DEFINE H == HeadsBefore(index)
           word == argv[index]
<1>5. index \in Nat /\ \A h \in H : h \in Nat /\ h < index
  BY <1>1, NextHead
<1>6. GivenBy(H, given)
  BY <1>1 DEF Parsed
<1>7. ASSUME NEW n, index' = n, GivenBy(H \cup {index}, given'),
             n \in 2 .. Len(argv) + 1, n <= Len(argv) => ~ IsValue[n],
             HeadsBefore(n) = H \cup {index}
      PROVE  Parsed'
  <2> HIDE DEF H
  <2>1. GivenBy(HeadsBefore(n), given')
    BY <1>7
  <2> QED
    BY <1>1, <1>2, <1>3, <1>4, <1>7, <2>1 DEF Parsed
<1>8. CASE TakeValue
  <2>1. word \in DOMAIN ValueOptions /\ index < Len(argv) /\ index' = index + 2
    BY <1>8 DEF TakeValue, TakesValue, TakeNumber, Took, Exit
  <2>2. GivenBy(H \cup {index}, given')
    <3>1. CASE ValueOptions[word] \in Numbers
      <4>1. given' = Given(ValueOptions[word], NumberOf[argv[index + 1]])
        BY <1>8, <3>1 DEF TakeValue, TakeNumber, Took, Exit, Numbers
      <4> QED
        BY <1>5, <1>6, <2>1, <3>1, <4>1, NumberTaken
    <3>2. CASE ValueOptions[word] \notin Numbers
      <4>1. given' = With(ValueOptions[word], argv[index + 1])
        BY <1>8, <3>2 DEF TakeValue, Took, Numbers
      <4>2. ValueOptions[word] \in Texts
        BY <2>1, <3>2, Vocabulary
      <4> QED
        BY <1>5, <1>6, <2>1, <4>1, <4>2, TextTaken
    <3> QED
      BY <3>1, <3>2
  <2> QED
    BY <1>1, <1>7, <2>1, <2>2, NextHead
<1>9. CASE TakeFlag
  <2>1. /\ word \in DOMAIN Flags /\ word \notin DOMAIN ValueOptions /\ index' = index + 1
        /\ given' = Given(Flags[word], TRUE)
    BY <1>9, Vocabulary DEF TakeFlag, Took
  <2>2. GivenBy(H \cup {index}, given')
    BY <1>5, <1>6, <2>1, SwitchTaken
  <2> QED
    BY <1>1, <1>7, <2>1, <2>2, NextHead
<1>10. CASE TakePath
  <2>1. /\ word \notin Dashed /\ word \notin DOMAIN ValueOptions /\ index' = index + 1
        /\ given' = With("path", word) /\ "path" \notin DOMAIN given
    BY <1>10, Vocabulary DEF TakePath, Took
  <2>2. GivenBy(H \cup {index}, given')
    BY <1>5, <1>6, <2>1, PathTaken
  <2> QED
    BY <1>1, <1>7, <2>1, <2>2, NextHead
<1> QED
  BY <1>8, <1>9, <1>10

(* A document that is loaded has a reading of each of its sections.         *)
LEMMA LoadedFile ==
  ASSUME IsDocument(document), LoadConfiguration(document).status = "ok"
  PROVE  /\ FileTaken
         /\ LoadConfiguration(document).configuration
              = Over(DefaultConfiguration, document.given)
<1> DEFINE loaded == Over(DefaultConfiguration, document.given)
           failing == {k \in DOMAIN SectionOrder : SectionError(document, k) # "ok"}
           L == LoadConfiguration(document)
<1>1. document.readable
  BY DEF LoadConfiguration
<1>2. 0 \notin document.unknown
  BY <1>1 DEF LoadConfiguration
<1>3. document.schema_version = 1
  BY <1>1, <1>2 DEF LoadConfiguration
<1>4. L = IF failing # {} THEN [status |-> SectionError(document, Min(failing))]
          ELSE IF Validate(loaded) # "ok" THEN [status |-> Validate(loaded)]
          ELSE [status |-> "ok", configuration |-> loaded]
  BY <1>1, <1>2, <1>3 DEF LoadConfiguration
<1>5. DOMAIN SectionOrder = 1 .. 9 /\ Len(SectionOrder) = 9
  BY DEF SectionOrder
<1>6. failing = {}
  <2> SUFFICES ASSUME failing # {} PROVE FALSE
    OBVIOUS
  <2>1. PICK m \in failing : \A k \in failing : m <= k
    <3>1. failing \subseteq Nat
      BY <1>5
    <3> HIDE DEF failing
    <3> QED
      BY <3>1, LeastNatural
  <2>2. Min(failing) \in failing
    <3> HIDE DEF failing
    <3> QED
      BY <2>1 DEF Min
  <2>3. SectionError(document, Min(failing)) # "ok"
    BY <2>2
  <2> HIDE DEF failing
  <2> QED
    BY <1>4, <2>3
<1>7. L.configuration = loaded
  <2> HIDE DEF failing, loaded
  <2>1. Validate(loaded) = "ok"
    BY <1>4, <1>6
  <2> QED
    BY <1>4, <1>6, <2>1
<1>8. \A k \in 1 .. 9 : k \notin document.unknown /\ document.garbled \cap SectionOrder[k] = {}
  BY <1>5, <1>6 DEF SectionError
<1>9. document.unknown = {}
  BY <1>2, <1>5, <1>8 DEF IsDocument
<1>10. ASSUME NEW option \in Scalars
       PROVE  \E k \in 1 .. 9 : option \in SectionOrder[k]
  <2> DEFINE sections == SectionOrder
  <2>1. \E k \in DOMAIN sections : option \in sections[k]
    BY DEF Scalars
  <2> QED
    BY <1>5, <2>1
<1>11. document.garbled = {}
  BY <1>8, <1>10 DEF IsDocument
<1> QED
  BY <1>1, <1>3, <1>7, <1>9, <1>11 DEF FileTaken

-----------------------------------------------------------------------------
(* The settings a run works with.                                           *)

(* Only the options of the vocabulary are mentioned.                        *)
LEMMA OnlyKnownMentioned ==
  ASSUME NEW H, NEW option, option \notin Texts \cup Numbers
  PROVE  Mentioned(H, option) = {}
BY Vocabulary DEF Mentioned

(* Switches that a document gives are Booleans.                             *)
LEMMA UnderneathSwitches ==
  ASSUME IsDocument(document)
  PROVE  Underneath.recursive \in BOOLEAN /\ Underneath.include_hidden \in BOOLEAN
<1>1. "recursive" \in OptionName /\ "include_hidden" \in OptionName
  BY DEF OptionName, DefaultConfiguration
<1>2. DefaultConfiguration.recursive \in BOOLEAN /\ DefaultConfiguration.include_hidden \in BOOLEAN
  BY DEF DefaultConfiguration
<1>3. ASSUME NEW o \in {"recursive", "include_hidden"}
      PROVE  Over(DefaultConfiguration, document.given)[o] \in BOOLEAN
  <2>1. /\ o \in OptionName
        /\ Over(DefaultConfiguration, document.given)[o]
             = IF o \in DOMAIN document.given THEN Meaning(o, document.given[o])
               ELSE DefaultConfiguration[o]
    BY <1>1, <1>3 DEF Over
  <2>2. DefaultConfiguration[o] \in BOOLEAN
    BY <1>2, <1>3
  <2>3. Meaning(o, document.given[o]) = document.given[o]
    BY <1>3 DEF Meaning
  <2>4. o \in DOMAIN document.given => document.given[o] \in BOOLEAN
    BY <1>3 DEF IsDocument
  <2> HIDE DEF Underneath
  <2> QED
    BY <2>1, <2>2, <2>3, <2>4
<1> HIDE DEF Underneath
<1> QED
  BY <1>2, <1>3 DEF Underneath

(* What the words gave, over what is underneath.                            *)
LEMMA OverIsExpected ==
  ASSUME NEW H, GivenBy(H, given), NEW option \in OptionName,
         NEW u, u.recursive \in BOOLEAN, u.include_hidden \in BOOLEAN
  PROVE  Over(u, given)[option] = Expected(option, H, u)
<1> DEFINE e == Expected(option, H, u)
           path == IF InputWords(H) = {} THEN u.path ELSE argv[Max(InputWords(H))]
           switch == u[option] \/ Switched(H, option)
           said == NumberOf[LastSaid(H, option)]
           text == Meaning(option, LastSaid(H, option))
           spoken == LastSaid(H, option) # ""
           mentioned == Mentioned(H, option) # {}
<1>0. e = CASE option = "path" -> path
            [] option \in {"recursive", "include_hidden"} -> switch
            [] option \in Sizes /\ mentioned -> said
            [] option \notin Sizes \cup {"path", "recursive", "include_hidden"}
                 /\ mentioned /\ spoken -> text
            [] OTHER -> u[option]
  BY DEF Expected
<1> HIDE DEF e, path, switch, said, text, spoken, mentioned
<1>1. Over(u, given)[option]
        = IF option \in DOMAIN given THEN Meaning(option, given[option]) ELSE u[option]
  BY DEF Over
<1>3. CASE option = "path"
  <2>1. e = path
    BY <1>0, <1>3 DEF Sizes
  <2>2. Meaning(option, given[option]) = given[option]
    BY <1>3 DEF Meaning
  <2> QED
    BY <1>1, <1>3, <2>1, <2>2 DEF GivenBy, PathGiven, path, e
<1>4. CASE option \in {"recursive", "include_hidden"}
  <2>1. e = switch
    BY <1>0, <1>4 DEF Sizes
  <2>2. Meaning(option, given[option]) = given[option]
    BY <1>4 DEF Meaning
  <2>3. /\ option \in DOMAIN given <=> Switched(H, option)
        /\ option \in DOMAIN given => given[option] = TRUE
    BY <1>4 DEF GivenBy, SwitchesGiven, Switches
  <2>4. u[option] \in BOOLEAN
    BY <1>4
  <2>5. CASE Switched(H, option)
    <3>1. switch = TRUE
      BY <2>5 DEF switch
    <3> QED
      BY <1>1, <2>1, <2>2, <2>3, <2>5, <3>1 DEF e
  <2>6. CASE ~ Switched(H, option)
    <3>1. switch = u[option]
      BY <2>4, <2>6 DEF switch
    <3> QED
      BY <1>1, <2>1, <2>3, <2>6, <3>1 DEF e
  <2> QED
    BY <2>5, <2>6
<1>5. CASE option \in Sizes
  <2>1. option \notin {"path", "recursive", "include_hidden"}
        /\ option \notin Texts \cup Switches \cup {"path"}
    BY <1>5 DEF Sizes, Texts, Switches
  <2>2. e = IF mentioned THEN said ELSE u[option]
    BY <1>0, <1>5, <2>1
  <2>3. Meaning(option, given[option]) = given[option]
    BY <1>5 DEF Meaning, Sizes
  <2>4. CASE option \in Numbers
    BY <1>1, <2>2, <2>3, <2>4 DEF GivenBy, NumbersGiven, e, mentioned, said
  <2>5. CASE option \notin Numbers
    <3>1. Mentioned(H, option) = {}
      BY <2>1, <2>5, OnlyKnownMentioned
    <3>2. option \notin DOMAIN given
      BY <2>1, <2>5 DEF GivenBy
    <3> QED
      BY <1>1, <2>2, <3>1, <3>2 DEF e, mentioned
  <2> QED
    BY <2>4, <2>5
<1>6. CASE option \notin Sizes \cup {"path", "recursive", "include_hidden"}
  <2>1. option \notin Numbers
    BY <1>6 DEF Sizes, Numbers
  <2>2. e = IF mentioned /\ spoken THEN text ELSE u[option]
    BY <1>0, <1>6
  <2>3. CASE option \in Texts
    BY <1>1, <2>2, <2>3 DEF GivenBy, TextsGiven, e, mentioned, spoken, text
  <2>4. CASE option \notin Texts
    <3>1. Mentioned(H, option) = {}
      BY <2>1, <2>4, OnlyKnownMentioned
    <3>2. option \notin Switches
      BY <1>6 DEF Switches, OptionName, DefaultConfiguration
    <3>3. option \notin DOMAIN given
      BY <1>6, <2>1, <2>4, <3>2 DEF GivenBy
    <3> QED
      BY <1>1, <2>2, <3>1, <3>3 DEF e, mentioned
  <2> QED
    BY <2>3, <2>4
<1> QED
  BY <1>3, <1>4, <1>5, <1>6 DEF e

(* It holds at the start.                                                   *)
LEMMA SettingsInitially == CommandLineInit => SettingsInv
<1> SUFFICES ASSUME CommandLineInit PROVE SettingsInv
  OBVIOUS
<1>1. argv \in Seq(STRING) /\ IsDocument(document)
  BY CommandLineAssumption DEF CommandLineInit
<1>2. at = "started" /\ given = <<>>
  BY DEF CommandLineInit
<1> QED
  BY <1>1, <1>2 DEF SettingsInv, EffectiveSettings

(* What the words say does not change while the words and the file are the  *)
(* same.                                                                    *)
LEMMA SameWords ==
  ASSUME UNCHANGED <<argv, document>>
  PROVE  /\ \A option : Expected(option, Heads, FromFile(Heads))'
                        = Expected(option, Heads, FromFile(Heads))
         /\ FileNamed(Heads)' = FileNamed(Heads)
         /\ FileTaken' = FileTaken
<1>1. IsValue' = IsValue
  BY DEF IsValue
<1>2. Heads' = Heads
  BY <1>1 DEF Heads
<1>3. \A H, option : /\ Mentioned(H, option)' = Mentioned(H, option)
                     /\ LastSaid(H, option)' = LastSaid(H, option)
                     /\ Switched(H, option)' = Switched(H, option)
  BY DEF Mentioned, LastSaid, Switched
<1>4. \A H : InputWords(H)' = InputWords(H)
  BY DEF InputWords
<1>5. \A H : FileNamed(H)' = FileNamed(H) /\ FromFile(H)' = FromFile(H)
  BY DEF FileNamed, FromFile, Mentioned, LastSaid
<1>6. \A H, u, option : Expected(option, H, u)' = Expected(option, H, u)
  BY DEF Expected, Mentioned, LastSaid, Switched, InputWords
<1>7. FileTaken' = FileTaken
  BY DEF FileTaken
<1> QED
  BY <1>2, <1>5, <1>6, <1>7

(* The words accepted and the result validated: it is as expected.          *)
LEMMA OverrideStep ==
  ASSUME SettingsInv, Override, at' = "opening"
  PROVE  EffectiveSettings'
<1> DEFINE H == Heads
           base == FromFile(Heads)
           effective == Over(Underneath, given)
<1>1. /\ at = "overriding" /\ Parsed /\ index = Len(argv) + 1 /\ settings = Underneath
      /\ ConfigurationNamed => FileTaken
      /\ IsDocument(document) /\ Len(argv) \in Nat
  BY DEF SettingsInv, Override
<1>2. /\ settings' = effective /\ Validate(effective) = "ok"
      /\ UNCHANGED <<argv, document>>
  BY <1>1 DEF Override, Refuse, Exit, start
<1>3. GivenBy(H, given)
  <2>1. HeadsBefore(Len(argv) + 1) = H
    BY <1>1 DEF HeadsBefore, Heads
  <2> QED
    BY <1>1, <2>1 DEF Parsed
<1>4. FileNamed(H) <=> ConfigurationNamed
  BY <1>3 DEF GivenBy, TextsGiven, Texts, ConfigurationNamed, FileNamed
<1>5. base = Underneath
  BY <1>1, <1>4 DEF Underneath, FileTaken, FromFile
<1>6. \A option \in OptionName : effective[option] = Expected(option, H, base)
  <2> DEFINE u == Underneath
  <2>1. u.recursive \in BOOLEAN /\ u.include_hidden \in BOOLEAN
    BY <1>1, UnderneathSwitches
  <2>2. base = u /\ effective = Over(u, given)
    BY <1>5
  <2> HIDE DEF u, base, effective, H
  <2>3. \A option \in OptionName : Over(u, given)[option] = Expected(option, H, u)
    BY <1>3, <2>1, OverIsExpected
  <2> QED
    BY <2>2, <2>3
<1>7. FileNamed(H) => FileTaken
  BY <1>1, <1>4
<1>8. \A option \in OptionName :
        settings'[option] = Expected(option, Heads, FromFile(Heads))'
  <2> HIDE DEF effective
  <2> QED
    BY <1>2, <1>6, SameWords
<1>9. (FileNamed(Heads) => FileTaken)'
  BY <1>2, <1>7, SameWords
<1>10. Validate(settings)' = "ok"
  BY <1>2
<1> QED
  BY <1>8, <1>9, <1>10 DEF EffectiveSettings

(* Where the settings stay, they stay as said.                              *)
LEMMA SettingsKept ==
  ASSUME EffectiveSettings, at \in {"opening", "exporting"},
         UNCHANGED <<argv, document, settings>>
  PROVE  EffectiveSettings'
<1>1. /\ \A option \in OptionName :
           settings[option] = Expected(option, Heads, FromFile(Heads))
      /\ FileNamed(Heads) => FileTaken
      /\ Validate(settings) = "ok"
  BY DEF EffectiveSettings
<1>2. \A option \in OptionName :
        settings'[option] = Expected(option, Heads, FromFile(Heads))'
  BY <1>1, SameWords
<1>3. (FileNamed(Heads) => FileTaken)'
  BY <1>1, SameWords
<1>4. Validate(settings)' = "ok"
  BY <1>1
<1> QED
  BY <1>2, <1>3, <1>4 DEF EffectiveSettings

(* Each step keeps it.                                                      *)
LEMMA SettingsStep == SettingsInv /\ [CommandLineNext]_command_vars => SettingsInv'
<1> SUFFICES ASSUME SettingsInv, [CommandLineNext]_command_vars PROVE SettingsInv'
  OBVIOUS
<1>0. argv \in Seq(STRING) /\ IsDocument(document)
  BY DEF SettingsInv
<1>1. UNCHANGED <<argv, document>>
  BY DEF CommandLineNext, command_vars, start, Start, TakeValue, TakeNumber, TakeFlag, TakePath,
         Took, RefuseWord, LoadFile, Override, Refuse, OpenOutput, ExportFile, ExportFails,
         Finish, Exited, Exit
<1>2. argv' \in Seq(STRING) /\ IsDocument(document')
  BY <1>0, <1>1
<1>3. ASSUME at' = "exited" PROVE SettingsInv'
  BY <1>2, <1>3 DEF SettingsInv, EffectiveSettings
<1>4. CASE Start
  <2>1. ASSUME Command = "chunk", at' = "parsing", index' = 2, UNCHANGED given, at = "started"
        PROVE  SettingsInv'
    <3>1. Len(argv) \in Nat /\ Len(argv) # 0
      BY <1>0, <2>1 DEF Command
    <3>2. given' = <<>>
      BY <2>1 DEF SettingsInv
    <3>3. index' \in 2 .. Len(argv) + 1
      BY <2>1, <3>1
    <3>4. 2 <= Len(argv) => ~ IsValue[2]
      <4> SUFFICES ASSUME 2 <= Len(argv) PROVE ~ IsValue[2]
        OBVIOUS
      <4>1. 2 \in 1 .. Len(argv)
        BY <3>1
      <4> QED
        BY <1>0, <4>1, IsValueUnfolded
    <3>5. IsValue' = IsValue
      BY <1>1 DEF IsValue
    <3>6. (index <= Len(argv) => ~ IsValue[index])'
      BY <1>1, <2>1, <3>4, <3>5
    <3>7. HeadsBefore(2) = {}
      BY DEF HeadsBefore
    <3>8. HeadsBefore(index)' = {}
      BY <2>1 DEF HeadsBefore
    <3>9. GivenBy({}, <<>>)'
      <4>1. DOMAIN <<>> = {}
        OBVIOUS
      <4>2. \A option : Mentioned({}, option)' = {} /\ ~ Switched({}, option)'
        BY DEF Mentioned, Switched
      <4>3. InputWords({})' = {}
        BY DEF InputWords
      <4> QED
        BY <4>1, <4>2, <4>3 DEF GivenBy, TextsGiven, NumbersGiven, SwitchesGiven, PathGiven
    <3>10. Parsed'
      BY <1>1, <3>2, <3>3, <3>6, <3>8, <3>9 DEF Parsed
    <3> QED
      BY <1>2, <2>1, <3>10 DEF SettingsInv, EffectiveSettings
  <2> QED
    BY <1>3, <1>4, <2>1 DEF Start, Refuse, Exit
<1>5. CASE TakeValue \/ TakeFlag \/ TakePath
  <2>1. at' \in {"parsing", "exited"}
    BY <1>5 DEF TakeValue, TakeNumber, TakeFlag, TakePath, Took, Exit
  <2>2. CASE at' = "parsing"
    <3>1. Parsed'
      BY <1>5, <2>2, ParseStep
    <3> QED
      BY <1>2, <2>2, <3>1 DEF SettingsInv, EffectiveSettings
  <2> QED
    BY <1>3, <2>1, <2>2
<1>6. CASE RefuseWord
  BY <1>3, <1>6 DEF RefuseWord, Refuse, Exit
<1>7. CASE LoadFile
  <2>1. CASE at' # "exited"
    <3> DEFINE loaded == LoadConfiguration(document)
    <3>1. /\ at = "parsing" /\ index > Len(argv) /\ at' = "overriding"
          /\ ConfigurationNamed => loaded.status = "ok"
          /\ settings' = IF ConfigurationNamed THEN loaded.configuration
                         ELSE DefaultConfiguration
          /\ UNCHANGED <<index, given>>
      BY <1>7, <2>1 DEF LoadFile, Refuse, Exit, ConfigurationNamed
    <3>2. Parsed
      BY <3>1 DEF SettingsInv
    <3>3. Parsed'
      <4>1. /\ IsValue' = IsValue
            /\ \A H, g : GivenBy(H, g)' <=> GivenBy(H, g)
        BY <1>1 DEF IsValue, GivenBy, TextsGiven, NumbersGiven, SwitchesGiven, PathGiven,
                    LastSaid, Mentioned, Switched, InputWords
      <4>2. HeadsBefore(index)' = HeadsBefore(index)
        BY <3>1, <4>1 DEF HeadsBefore
      <4> QED
        BY <1>1, <3>1, <3>2, <4>1, <4>2 DEF Parsed
    <3>4. index = Len(argv) + 1
      BY <1>0, <3>1, <3>2 DEF Parsed
    <3>5. ConfigurationNamed =>
            /\ FileTaken
            /\ loaded.configuration = Over(DefaultConfiguration, document.given)
      BY <1>0, <3>1, LoadedFile
    <3> HIDE DEF loaded
    <3>6. settings' = Underneath /\ (ConfigurationNamed => FileTaken)
      BY <3>1, <3>5 DEF Underneath
    <3>7. /\ Underneath' = Underneath /\ FileTaken' = FileTaken
          /\ ConfigurationNamed' = ConfigurationNamed
      BY <1>1, <3>1 DEF Underneath, ConfigurationNamed, FileTaken
    <3>8. index' = Len(argv') + 1
      BY <1>1, <3>1, <3>4
    <3> QED
      BY <1>2, <3>1, <3>3, <3>6, <3>7, <3>8 DEF SettingsInv, EffectiveSettings
  <2> QED
    BY <1>3, <2>1
<1>8. CASE Override
  <2>1. at' \in {"opening", "exited"}
    BY <1>8 DEF Override, Refuse, Exit
  <2>2. CASE at' = "opening"
    <3>1. EffectiveSettings'
      BY <1>8, <2>2, OverrideStep
    <3> QED
      BY <1>2, <2>2, <3>1 DEF SettingsInv
  <2> QED
    BY <1>3, <2>1, <2>2
<1>9. CASE OpenOutput \/ ExportFile
  <2>1. /\ at \in {"opening", "exporting"} /\ at' \in {"exporting", "exited"}
        /\ UNCHANGED settings
    BY <1>9 DEF OpenOutput, ExportFile, Exit
  <2>2. CASE at' = "exporting"
    <3>1. EffectiveSettings'
      BY <1>1, <2>1, SettingsKept DEF SettingsInv
    <3> QED
      BY <1>2, <2>2, <3>1 DEF SettingsInv
  <2> QED
    BY <1>3, <2>1, <2>2
<1>10. CASE ExportFails \/ Finish
  BY <1>3, <1>10 DEF ExportFails, Finish, Exit
<1>11. CASE Exited \/ UNCHANGED command_vars
  <2>1. CASE at = "exited"
    BY <1>3, <1>11, <2>1 DEF Exited, command_vars
  <2>2. CASE at # "exited"
    <3>1. UNCHANGED command_vars
      BY <1>11 DEF Exited
    <3>2. UNCHANGED <<at, index, given, settings>>
      BY <3>1 DEF command_vars
    <3>3. EffectiveSettings'
      <4>1. CASE at \in {"opening", "exporting"}
        BY <1>1, <3>2, <4>1, SettingsKept DEF SettingsInv
      <4>2. CASE at \notin {"opening", "exporting"}
        BY <3>2, <4>2 DEF EffectiveSettings
      <4> QED
        BY <4>1, <4>2
    <3>4. Parsed' <=> Parsed
      <4>1. /\ IsValue' = IsValue
            /\ \A H, g : GivenBy(H, g)' <=> GivenBy(H, g)
        BY <1>1 DEF IsValue, GivenBy, TextsGiven, NumbersGiven, SwitchesGiven, PathGiven,
                    LastSaid, Mentioned, Switched, InputWords
      <4>2. HeadsBefore(index)' = HeadsBefore(index)
        BY <3>2, <4>1 DEF HeadsBefore
      <4> QED
        BY <1>1, <3>2, <4>1, <4>2 DEF Parsed
    <3>5. /\ Underneath' = Underneath /\ FileTaken' = FileTaken
          /\ ConfigurationNamed' = ConfigurationNamed
      BY <1>1, <3>2 DEF Underneath, ConfigurationNamed, FileTaken
    <3> QED
      BY <1>1, <1>2, <3>2, <3>3, <3>4, <3>5 DEF SettingsInv
  <2> QED
    BY <2>1, <2>2
<1> QED
  BY <1>4, <1>5, <1>6, <1>7, <1>8, <1>9, <1>10, <1>11 DEF CommandLineNext

(* What was parsed so far is what the words said so far give, and what was  *)
(* loaded is what the file gives.                                           *)
(* Code: lines 87-211 of src/cli/main.cpp.                                  *)
THEOREM SettingsInvariant == CommandLineSpec => []SettingsInv
<1> QED
  BY SettingsInitially, SettingsStep, PTL DEF CommandLineSpec

(* What a run works with is, option by option, what the last word for it    *)
(* says, or else the file, or else the default; it satisfies every rule,    *)
(* and nothing in the file was passed over.                                 *)
(* Code: lines 87-211 of src/cli/main.cpp and lines 144-324 of              *)
(* src/config.cpp.                                                          *)
THEOREM SettingsAreAsSaid == CommandLineSpec => []EffectiveSettings
<1>1. SettingsInv => EffectiveSettings
  BY DEF SettingsInv
<1> QED
  BY <1>1, SettingsInvariant, PTL

=============================================================================
