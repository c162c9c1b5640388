----------------------------- MODULE NdjsonLines -----------------------------
(***************************************************************************)
(* NdjsonParser::parse (include/ndjson_parser.h): a buffer is split into   *)
(* lines, and each line becomes a record, a diagnostic or an error.        *)
(***************************************************************************)
EXTENDS JsonScanner

LF == 10
CR == 13

(* line_end: the first line feed at or after start, or the buffer's size.   *)
LineEnd(bytes, start) ==
  Min({i \in start .. Len(bytes) - 1 : bytes[i + 1] = LF} \cup {Len(bytes)})

(* delimiter_end: where the next line starts.                               *)
DelimiterEnd(bytes, start) ==
  IF LineEnd(bytes, start) = Len(bytes) THEN Len(bytes) ELSE LineEnd(bytes, start) + 1

(* Mutation: the end of the buffer takes a carriage return with it too.     *)
ContentEndEverywhere(bytes, start) ==
  LET end == LineEnd(bytes, start)
  IN IF end > start /\ bytes[end] = CR THEN end - 1 ELSE end

(* content_end: a line feed takes one carriage return with it, the end of   *)
(* the buffer does not.                                                     *)
ContentEnd(bytes, start) ==
  LET end == LineEnd(bytes, start)
  IN IF end # Len(bytes) /\ end > start /\ bytes[end] = CR THEN end - 1 ELSE end

LineText(bytes, start) == SubSeq(bytes, start + 1, ContentEnd(bytes, start))

(* An id made of the record's place in the result is left empty.            *)
Record(bytes, start, id) ==
  [text |-> LineText(bytes, start), record_id |-> id, start_byte |-> start,
   end_byte |-> DelimiterEnd(bytes, start)]

NothingParsed == [status |-> "ok", records |-> <<>>, skipped |-> <<>>, byte_offset |-> 0]

(* What the line at start makes of what the lines after it give: an empty   *)
(* line is ignored, and a malformed one is the error of the call or is      *)
(* skipped with a diagnostic at its offset.                                 *)
Adding(bytes, start, record_id_field, policy, rest) ==
  LET line == LineText(bytes, start)
      ids == RecordIds(line, record_id_field)
  IN IF line = <<>> THEN rest
     ELSE IF ids # {}
     THEN [rest EXCEPT !.records = <<Record(bytes, start, CHOOSE id \in ids : TRUE)>> \o @]
     ELSE IF policy = "error"
     THEN [status |-> "invalid_argument", records |-> <<>>, skipped |-> <<>>,
           byte_offset |-> start]
     ELSE [rest EXCEPT !.skipped = <<start>> \o @]

(* parse, line by line.                                                     *)
ParseRecords(bytes, record_id_field, policy) ==
  LET parse[start \in 0 .. Len(bytes)] ==
        IF start = Len(bytes) THEN NothingParsed
        ELSE Adding(bytes, start, record_id_field, policy, parse[DelimiterEnd(bytes, start)])
  IN parse[0]

=============================================================================
