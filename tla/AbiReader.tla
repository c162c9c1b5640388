----------------------------- MODULE AbiReader -----------------------------
(***************************************************************************)
(* The reader handle of the C ABI (src/abi/spec_abi.cpp): open_path,       *)
(* open_buffer, close and destroy, over a MmapReader.  One thread uses the *)
(* handle and each call is one step; the handle remembers what calls that  *)
(* failed half way left in it.                                             *)
(*                                                                         *)
(* The file and the caller's buffer keep their contents during a           *)
(* behaviour, and the caller keeps its buffer while the handle is active.  *)
(* Null arguments and unknown enum values are refused before anything is   *)
(* touched and are left out.                                               *)
(***************************************************************************)
EXTENDS MmapReader, NdjsonLines, JsonGrammar

CONSTANT Sources   (* [path, buffer, options]: what a caller may open, and  *)
                   (* the options it may open it with                      *)

ReaderOption ==
  [mode : {"zero_copy", "copy"}, invalid_utf8 : {"error", "replace", "skip"},
   record_mode : {"none", "ndjson"}, record_id_field : Seq(Byte),
   malformed_record : {"error", "skip"}]

ASSUME SourceAssumption ==
  \A s \in Sources :
    s.path \in Seq(Byte) /\ s.buffer \in Seq(Byte) /\ s.options \subseteq ReaderOption

VARIABLES
  source,         (* the contents of the file and of the caller's buffer    *)
  alive,          (* the handle has not been destroyed                      *)
  active,
  buffer,         (* buffer.data                                            *)
  owned_buffer,
  records,
  diagnostics,    (* byte offsets; every one is a malformed_record_skipped  *)
  error,          (* [status, byte_offset], "none" without an error         *)
  input,          (* options                                                *)
  asked           (* what the last open that was not refused opened (history) *)

handle_vars == <<reader, os, source, alive, active, buffer, owned_buffer, records,
                 diagnostics, error, input, asked>>

NoError == [status |-> "none", byte_offset |-> 0]
ErrorAt(status, offset) == [status |-> status, byte_offset |-> offset]
DefaultInput ==
  [mode |-> "zero_copy", invalid_utf8 |-> "error", record_mode |-> "none",
   record_id_field |-> <<>>, malformed_record |-> "error"]

Regions == {"none", "mapping", "copied_buffer", "owned_buffer", "caller"}
Statuses == {"none", "invalid_argument", "invalid_configuration", "file_not_found",
             "io_error", "mapping_failed", "invalid_utf8"}

AbiReaderTypeOK ==
  /\ reader.mapped_data \in Addresses \cup {Null}
  /\ reader.fd \in Descriptors \cup {NoDescriptor}
  /\ reader.copied_buffer \in Seq(Byte)
  /\ os.descriptors \subseteq Descriptors
  /\ DOMAIN os.mappings \subseteq Addresses
  /\ source \in Sources
  /\ alive \in BOOLEAN /\ active \in BOOLEAN
  /\ buffer.region \in Regions /\ buffer.data \in Seq(Byte)
  /\ owned_buffer \in Seq(Byte)
  /\ \A k \in DOMAIN records : records[k].end_byte \in records[k].start_byte + 1 .. Len(buffer.data)
  /\ diagnostics \in Seq(Nat)
  /\ error \in [status : Statuses, byte_offset : Nat]
  /\ input \in source.options \cup {DefaultInput}
  /\ asked \in {"nothing", "path", "buffer"}

AbiReaderInit ==
  /\ ReaderInit
  /\ source \in Sources
  /\ alive = TRUE
  /\ active = FALSE
  /\ buffer = NoView
  /\ owned_buffer = <<>>
  /\ records = <<>>
  /\ diagnostics = <<>>
  /\ error = NoError
  /\ input = DefaultInput
  /\ asked = "nothing"

-----------------------------------------------------------------------------
(* A call that is refused before it changes anything but the error.         *)
RefusedWith(status) ==
  /\ error' = ErrorAt(status, 0)
  /\ UNCHANGED <<reader_vars, active, buffer, owned_buffer, records, diagnostics,
                 input, asked>>

(* The options validate_reader_options refuses.                             *)
Conflicting(options) ==
  options.mode = "zero_copy" /\ options.invalid_utf8 # "error"

Refuse(options) ==
  \/ active /\ RefusedWith("invalid_argument")
  \/ ~ active /\ Conflicting(options) /\ RefusedWith("invalid_configuration")

(* parse_records and the end of both calls.  The diagnostics a call starts  *)
(* with here are empty: open_path copies those of the Result, and the       *)
(* repair's are in the FileBuffer; open_buffer has just cleared them.       *)
Finish(view, options) ==
  /\ buffer' = view
  /\ input' = options
  /\ \E parsed \in IF options.record_mode = "ndjson"
                  THEN {ParseRecords(view.data, options.record_id_field, options.malformed_record)}
                  ELSE {NothingParsed} :
       LET failed == parsed.status # "ok"
       IN /\ records' = IF failed THEN <<>> ELSE parsed.records
          /\ diagnostics' = IF failed THEN <<>> ELSE parsed.skipped
          /\ error' = IF failed THEN ErrorAt(parsed.status, parsed.byte_offset) ELSE NoError
          /\ active' = ~ failed

OpenPath(options) ==
  /\ alive
  /\ \/ Refuse(options)
     \/ /\ ~ active /\ ~ Conflicting(options)
        /\ \E outcome \in Open(Holding, source.path, options) :
             /\ reader' = outcome.state.reader
             /\ os' = outcome.state.os
             /\ \/ /\ outcome.status # "ok"
                   /\ error' = ErrorAt(outcome.status, outcome.byte_offset)
                   /\ UNCHANGED <<active, buffer, records, diagnostics, input>>
                \/ outcome.status = "ok" /\ Finish(outcome.view, options)
        /\ asked' = "path"
        /\ UNCHANGED owned_buffer
  /\ UNCHANGED <<source, alive>>

(* The bytes open_buffer will work on: a repair, a copy, or the caller's.   *)
BufferView(bytes, options) ==
  IF options.mode = "zero_copy" THEN View("caller", bytes)
  ELSE View("owned_buffer",
            IF options.invalid_utf8 = "error" THEN bytes
            ELSE RepairUtf8(bytes, options.invalid_utf8).data)

OpenBuffer(options) ==
  /\ alive
  /\ \/ Refuse(options)
     \/ /\ ~ active /\ ~ Conflicting(options)
        /\ \E view \in {BufferView(source.buffer, options)} :
             /\ owned_buffer' = IF view.region = "owned_buffer" THEN view.data ELSE <<>>
             /\ IF options.invalid_utf8 = "error" /\ ~ Validates(view.data)
                THEN /\ buffer' = NoView
                     /\ error' = ErrorAt("invalid_utf8", ErrorOffset(view.data))
                     /\ UNCHANGED <<active, records, diagnostics, input>>
                ELSE Finish(view, options)
        /\ asked' = "buffer"
        /\ UNCHANGED reader_vars
  /\ UNCHANGED <<source, alive>>

CloseReader ==
  /\ alive
  /\ reader' = Close(Holding).reader
  /\ os' = Close(Holding).os
  /\ buffer' = NoView
  /\ owned_buffer' = <<>>
  /\ diagnostics' = <<>>
  /\ records' = <<>>
  /\ active' = FALSE
  /\ error' = NoError
  /\ UNCHANGED <<source, alive, input, asked>>

(* delete: ~MmapReader closes; the rest of the handle goes with it.         *)
DestroyReader ==
  /\ alive
  /\ alive' = FALSE
  /\ reader' = Close(Holding).reader
  /\ os' = Close(Holding).os
  /\ active' = FALSE
  /\ buffer' = NoView
  /\ owned_buffer' = <<>>
  /\ records' = <<>>
  /\ diagnostics' = <<>>
  /\ error' = NoError
  /\ UNCHANGED <<source, input, asked>>

(* fastchunk_reader_clear_error.                                            *)
ClearError ==
  /\ alive
  /\ error' = NoError
  /\ UNCHANGED <<reader_vars, source, alive, active, buffer, owned_buffer, records,
                 diagnostics, input, asked>>

AbiReaderNext ==
  \/ \E options \in source.options : OpenPath(options) \/ OpenBuffer(options)
  \/ CloseReader
  \/ ClearError
  \/ DestroyReader

AbiReaderSpec == AbiReaderInit /\ [][AbiReaderNext]_handle_vars

-----------------------------------------------------------------------------
(* Nothing of the operating system is lost: what the process holds is what  *)
(* the reader will give back, a descriptor exactly with a mapping, after    *)
(* every sequence of calls and whichever step of an open failed; a          *)
(* destroyed handle holds nothing.                                          *)
(* Code: lines 284-310 and 389-428 of src/io/mmap_reader.cpp.               *)
NothingLeaks ==
  /\ os.descriptors = {reader.fd} \ {NoDescriptor}
  /\ DOMAIN os.mappings = {reader.mapped_data} \ {Null}
  /\ reader.fd = NoDescriptor <=> reader.mapped_data = Null
  /\ ~ alive => os.descriptors = {}

(* The memory the handle's view points into.                                *)
Memory(region) ==
  CASE region = "mapping" -> IF reader.mapped_data = Null THEN <<>>
                             ELSE os.mappings[reader.mapped_data]
    [] region = "copied_buffer" -> reader.copied_buffer
    [] region = "owned_buffer" -> owned_buffer
    [] region = "caller" -> source.buffer
    [] region = "none" -> <<>>

(* An active handle shows, in memory that is still there, the input that    *)
(* was asked for last and succeeded: unchanged and without a stray byte     *)
(* under the error policy, and under the others with each stray byte, and   *)
(* only those, replaced or skipped.  A refusal names the first of them.  A  *)
(* byte is stray when it is neither in a character of UTF-8 nor in one of   *)
(* the forms Tolerated names, which the code lets through under every       *)
(* policy.                                                                  *)
(* Code: lines 254-303 and 333-438 of src/abi/spec_abi.cpp, lines 32-126    *)
(* and 313-386 of src/io/mmap_reader.cpp, and lines 21-117 of               *)
(* include/simd_utf8.h.                                                     *)
ActiveInputFollowsPolicy ==
  /\ active => Memory(buffer.region) = buffer.data
  /\ active =>
       LET bytes == source[asked]
       IN IF input.invalid_utf8 = "error"
          THEN Stray(bytes) = {} /\ buffer.data = bytes
          ELSE /\ buffer.data = RepairOf(bytes, input.invalid_utf8).data
               /\ Validates(buffer.data)
  /\ error.status = "invalid_utf8" =>
       LET stray == Stray(source[asked])
       IN error.byte_offset \in stray /\ \A i \in stray : error.byte_offset <= i

(* What an active handle shows is valid UTF-8, under every policy.          *)
(* Code: validate and the two repairs.  The comment in line 18 of           *)
(* include/simd_utf8.h says "Returns true if the buffer contains valid      *)
(* UTF-8".                                                                  *)
ActiveInputIsUtf8 ==
  active => \A i \in 0 .. Len(buffer.data) - 1 : InCharacter(buffer.data, i)

(* A buffer's lines, by where they start, and what they hold.               *)
Feeds(bytes) == {i \in DOMAIN bytes : bytes[i] = LF}
EndOf(bytes, i) == Min({j \in Feeds(bytes) : j > i} \cup {Len(bytes)})
Content(bytes, i) ==
  LET line == SubSeq(bytes, i + 1, EndOf(bytes, i))
  IN IF IsSuffix(<<CR, LF>>, line) THEN Front(Front(line))
     ELSE IF IsSuffix(<<LF>>, line) THEN Front(line) ELSE line
Lines(bytes) == {i \in {0} \cup Feeds(bytes) : i < Len(bytes) /\ Content(bytes, i) # <<>>}

(* The records of an active NDJSON input and the malformed lines that were  *)
(* skipped are the non-empty lines of the buffer, each once and in order,   *)
(* with its delimiter inside the record's span.  A line is a record exactly *)
(* when the scanner finds an id in it, and that is the record's id.  Under  *)
(* the error policy nothing is skipped, and an open that failed names the   *)
(* first malformed line.                                                    *)
(* Code: lines 217-290 of include/ndjson_parser.h and lines 234-252 of      *)
(* src/abi/spec_abi.cpp.                                                    *)
RecordsFollowLines ==
  LET bytes == buffer.data
      Ids(i) == RecordIds(Content(bytes, i), input.record_id_field)
      malformed == {i \in Lines(bytes) : Ids(i) = {}}
      starts == [k \in DOMAIN records |-> records[k].start_byte]
  IN /\ active /\ input.record_mode = "ndjson" =>
          /\ ToSet(diagnostics) = malformed
          /\ ToSet(starts) = Lines(bytes) \ malformed
          /\ \A k \in DOMAIN records :
               /\ records[k].end_byte = EndOf(bytes, starts[k])
               /\ records[k].text = Content(bytes, starts[k])
               /\ records[k].record_id \in Ids(starts[k])
          /\ \A k \in 1 .. Len(starts) - 1 : starts[k] < starts[k + 1]
          /\ input.malformed_record = "error" => diagnostics = <<>>
     /\ ~ active /\ error.status = "invalid_argument" =>
          malformed # {} /\ error.byte_offset = Min(malformed)

(* The scanner finds an id in a line exactly when the line is one object of *)
(* the dialect with a usable id, and it finds that one.  Of a line that is  *)
(* an object of JSON it finds the id that stands there, unless a literal in *)
(* the line is one of those the dialect refuses.                            *)
(* Code: lines 28-215 of include/ndjson_parser.h.                           *)
LinesAreJudgedByGrammar ==
  input.record_mode = "ndjson" =>
    \A i \in Lines(buffer.data) :
      LET line == Content(buffer.data, i)
          field == input.record_id_field
          ids == RecordIds(line, field)
      IN /\ ids = DialectIds(line, field)
         /\ \A one, other \in ids : one = other
         /\ JsonObjects(line) # {} =>
              ids = IF HasRefusedLiteral(line) THEN {} ELSE IdsOf(JsonObjects(line), field)

=============================================================================
