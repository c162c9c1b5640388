----------------------------- MODULE CommandLine -----------------------------
(***************************************************************************)
(* The fastchunk program (src/cli/main.cpp): its words are parsed one by   *)
(* one, the configuration file is loaded, what the words gave goes over    *)
(* it, the result is validated; then the export file is opened, which      *)
(* empties it, the input's files are exported one after the other, and the *)
(* program exits.                                                          *)
(*                                                                         *)
(* A file's content is the sequence of chunks it is cut into.  The export  *)
(* of one file is a step that succeeds or fails part of the way            *)
(* (DirectoryPipeline and NdjsonExporter say how): a write that failed and *)
(* was repeated leaves its torn beginning in front of the record, on the   *)
(* same line.  Output reaches the disk at any moment, and at the end it    *)
(* may be that its tail cannot be written any more, which nobody looks at. *)
(* The telemetry collector has a model of its own and is left out, and so  *)
(* are the texts printed.                                                  *)
(***************************************************************************)
EXTENDS Configuration, SequencesExt

CONSTANTS
  Starts,         (* the words after the program's name, what the file     *)
                  (* that --config names holds, the contents of the others *)
  Below,          (* by path: the files below it, in path order            *)
  Deeper,         (* by path: those of them that are not directly in it    *)
  Hidden,         (* the paths with a component that begins with a dot     *)
  NumberOf,       (* by word: the number std::stoull reads in it            *)
  Dashed          (* the words that begin with two dashes                   *)

(* A chunk is a tuple of words, a file's content a sequence of chunks.      *)
Chunks == Seq(Seq(STRING))

ASSUME CommandLineAssumption ==
  /\ \A s \in Starts :
       /\ s.argv \in Seq(STRING)
       /\ IsDocument(s.document)
       /\ s.disk \in [DOMAIN s.disk -> Chunks]
       /\ \A path \in DOMAIN Below : Below[path] \in Seq(DOMAIN s.disk)
  /\ DOMAIN Deeper = DOMAIN Below
  /\ \A word \in DOMAIN NumberOf : NumberOf[word] \in Nat

(* The words that are options, and what they are options for.               *)
ValueOptions ==
  [word \in {"--config", "--tokenizer", "--max-tokens", "--overlap-tokens", "--input-mode",
             "--invalid-utf8", "--export", "--workers", "--result-order", "--record-mode",
             "--record-id-field", "--on-malformed-record"} |->
     CASE word = "--config" -> "config"
       [] word = "--tokenizer" -> "type"
       [] word = "--max-tokens" -> "max_tokens"
       [] word = "--overlap-tokens" -> "overlap_tokens"
       [] word = "--input-mode" -> "mode"
       [] word = "--invalid-utf8" -> "invalid_utf8"
       [] word = "--export" -> "export_path"
       [] word = "--workers" -> "workers"
       [] word = "--result-order" -> "result_order"
       [] word = "--record-mode" -> "record_mode"
       [] word = "--record-id-field" -> "record_id_field"
       [] word = "--on-malformed-record" -> "on_malformed_record"]
Flags ==
  [word \in {"--recursive", "--include-hidden", "--json-errors"} |->
     CASE word = "--recursive" -> "recursive"
       [] word = "--include-hidden" -> "include_hidden"
       [] word = "--json-errors" -> "json_errors"]

ASSUME DashedAssumption == DOMAIN ValueOptions \cup DOMAIN Flags \subseteq Dashed

(* A record holds a chunk; the line of a record may begin with what failed  *)
(* attempts to write it have left there.  A piece is a line without its end.*)
Missing == <<<<"missing">>>>   (* the content of a file that is not there  *)
Record(chunk) == <<"record">> \o chunk
Records(content) == [k \in DOMAIN content |-> Record(content[k])]
Line(torn, record) == [k \in 1 .. torn |-> "torn"] \o record
LinesOf(content, torn) == [k \in DOMAIN content |-> Line(torn[k], Record(content[k]))]
Piece == <<"torn">>

Content(path, files) == IF path \in DOMAIN files THEN files[path] ELSE Missing

(* Those of a list that are in a set, and the paths whose files are there.  *)
Those(list, set) ==
  FlattenSeq([k \in DOMAIN list |-> IF list[k] \in set THEN <<list[k]>> ELSE <<>>])
Present(list, files) == Those(list, {f \in ToSet(list) : Content(f, files) # Missing})

VARIABLES
  argv,        (* the words                                                *)
  document,    (* what --config's file holds                               *)
  before,      (* the files when the program was started (history)         *)
  disk,        (* the files now                                            *)
  at,          (* where main is                                            *)
  index,       (* the word parse looks at                                  *)
  given,       (* what the words gave so far, by option                    *)
  settings,    (* the configuration                                        *)
  pending,     (* paths still to export                                    *)
  written,     (* records handed to the output stream                      *)
  exit,        (* the exit code, 134 for an abort                          *)
  report,      (* how the error was printed                                *)
  tail_lost    (* the last records did not reach the disk (history)        *)

command_vars == <<argv, document, before, disk, at, index, given, settings, pending,
                  written, exit, report, tail_lost>>
start == <<argv, document, before>>
output == <<disk, pending, written, tail_lost>>

CommandLineInit ==
  /\ \E s \in Starts : argv = s.argv /\ document = s.document /\ before = s.disk
  /\ disk = before
  /\ at = "started"
  /\ index = 1
  /\ given = <<>>
  /\ settings = DefaultConfiguration
  /\ pending = <<>>
  /\ written = <<>>
  /\ exit = NoValue
  /\ report = "nothing"
  /\ tail_lost = FALSE

-----------------------------------------------------------------------------
Exit(code, how) ==
  /\ at' = "exited"
  /\ exit' = code
  /\ report' = how

(* main looks for --json-errors among all the words, values included; after *)
(* the parse it is the flag that counts.                                    *)
JsonAmongWords == "--json-errors" \in ToSet(argv)
JsonGiven == "json_errors" \in DOMAIN given
Form(json) == IF json THEN "json" ELSE "plain"
Refuse == Exit(2, Form(JsonAmongWords)) /\ UNCHANGED <<start, index, given, settings, output>>

Command == IF argv = <<>> THEN "" ELSE argv[1]

Start ==
  /\ at = "started"
  /\ \/ /\ Command \in {"--help", "--version"}
        /\ Exit(0, "nothing")
        /\ UNCHANGED <<start, index, given, settings, output>>
     \/ /\ Command \notin {"--help", "--version", "chunk"}
        /\ Refuse
     \/ /\ Command = "chunk"
        /\ at' = "parsing"
        /\ index' = 2
        /\ UNCHANGED <<start, given, settings, output, exit, report>>

(* A value for an option takes the place of an earlier one.                 *)
Given(option, value) ==
  [o \in DOMAIN given \cup {option} |-> IF o = option THEN value ELSE given[o]]

(* An empty value counts as none: it takes back what was given before.      *)
With(option, value) ==
  IF value = "" THEN [o \in DOMAIN given \ {option} |-> given[o]]
  ELSE Given(option, value)

Took(words, now) ==
  /\ given' = now
  /\ index' = index + words
  /\ UNCHANGED <<start, at, settings, output, exit, report>>

(* std::stoull throws on a word that is no number, and nobody catches it.   *)
TakeNumber(option, word) ==
  \/ /\ word \in DOMAIN NumberOf
     /\ Took(2, Given(option, NumberOf[word]))
  \/ /\ word \notin DOMAIN NumberOf
     /\ Exit(134, "nothing")
     /\ UNCHANGED <<start, index, given, settings, output>>

TakesValue(word) == word \in DOMAIN ValueOptions /\ index < Len(argv)

TakeValue ==
  /\ at = "parsing" /\ index <= Len(argv)
  /\ TakesValue(argv[index])
  /\ LET option == ValueOptions[argv[index]]
         value == argv[index + 1]
     IN IF option \in {"max_tokens", "overlap_tokens", "workers"}
        THEN TakeNumber(option, value)
        ELSE Took(2, With(option, value))

TakeFlag ==
  /\ at = "parsing" /\ index <= Len(argv)
  /\ argv[index] \in DOMAIN Flags
  /\ Took(1, Given(Flags[argv[index]], TRUE))

(* The first word that belongs to no option is the input; a second one, an  *)
(* option without its value and an unknown option end the parse.            *)
TakePath ==
  /\ at = "parsing" /\ index <= Len(argv)
  /\ argv[index] \notin Dashed
  /\ "path" \notin DOMAIN given
  /\ Took(1, With("path", argv[index]))

RefuseWord ==
  /\ at = "parsing" /\ index <= Len(argv)
  /\ ~ TakesValue(argv[index])
  /\ argv[index] \notin DOMAIN Flags
  /\ argv[index] \in Dashed \/ "path" \in DOMAIN given
  /\ Refuse

-----------------------------------------------------------------------------
(* load_configuration, with a file's own validation; without a file the     *)
(* defaults stay.                                                           *)
LoadFile ==
  /\ at = "parsing" /\ index > Len(argv)
  /\ LET loaded == LoadConfiguration(document)
     IN IF "config" \notin DOMAIN given \/ loaded.status = "ok"
        THEN /\ settings' = IF "config" \in DOMAIN given THEN loaded.configuration
                            ELSE DefaultConfiguration
             /\ at' = "overriding"
             /\ UNCHANGED <<start, index, given, output, exit, report>>
        ELSE Refuse

(* Mutation: the output is opened before it is known to be wanted.          *)
OpenOutputAtOnce ==
  /\ at = "overriding"
  /\ LET effective == Over(settings, given)
         target == effective.export_path
     IN /\ disk' = [f \in DOMAIN disk |-> IF f = target THEN <<>> ELSE disk[f]]
        /\ IF Validate(effective) = "ok"
           THEN settings' = effective /\ at' = "opening" /\ UNCHANGED <<exit, report>>
           ELSE Exit(2, Form(JsonAmongWords)) /\ UNCHANGED settings
  /\ UNCHANGED <<start, index, given, pending, written, tail_lost>>

Override ==
  /\ at = "overriding"
  /\ LET effective == Over(settings, given)
     IN IF Validate(effective) = "ok"
        THEN /\ settings' = effective
             /\ at' = "opening"
             /\ UNCHANGED <<start, index, given, output, exit, report>>
        ELSE Refuse

(* The files below a path that export_streaming takes: hidden ones, by any  *)
(* component of the path, the input's own among them, and those in deeper   *)
(* directories only when they are asked for.  A path that is no directory   *)
(* is the only one, whatever it is called.                                  *)
Taken(path) ==
  {f \in ToSet(Below[path]) :
     /\ settings.include_hidden \/ f \notin Hidden
     /\ settings.recursive \/ f \notin Deeper[path]}
Input ==
  IF settings.path \in DOMAIN Below THEN Those(Below[settings.path], Taken(settings.path))
  ELSE <<settings.path>>

(* std::ofstream: the file is created or emptied.  Then export_streaming    *)
(* collects the files of the input, the export file perhaps among them.     *)
OpenOutput ==
  /\ at = "opening"
  /\ \/ settings.export_type = "none" /\ Exit(0, "nothing") /\ UNCHANGED output
     \/ settings.export_type # "none" /\ Exit(1, "plain") /\ UNCHANGED output
     \/ /\ settings.export_type # "none"
        /\ settings.export_path \in DOMAIN disk
        /\ disk' = [disk EXCEPT ![settings.export_path] = <<>>]
        /\ pending' = IF settings.path \in DOMAIN Below THEN Present(Input, disk') ELSE Input
        /\ at' = "exporting"
        /\ UNCHANGED <<written, tail_lost, exit, report>>
  /\ UNCHANGED <<start, index, given, settings>>

(* A record is tried max_attempts times: all attempts but the last may have *)
(* left something in front of it.                                           *)
Torn(n) == [1 .. n -> 0 .. settings.max_attempts - 1]

(* Some of what was written reaches the disk, whole lines here; in the end  *)
(* it may be cut anywhere, and a line begun but never finished is cut too.  *)
Flushed(lines) ==
  \E n \in Len(disk[settings.export_path]) .. Len(lines) :
    disk' = [disk EXCEPT ![settings.export_path] = SubSeq(lines, 1, n)]
Left(lines, begun) ==
  \/ Flushed(lines)
  \/ \E n \in Len(disk[settings.export_path]) .. Len(lines) :
       /\ n < Len(lines) \/ begun
       /\ disk' = [disk EXCEPT ![settings.export_path] = Append(SubSeq(lines, 1, n), Piece)]

ExportFile ==
  /\ at = "exporting" /\ pending # <<>>
  /\ LET content == Content(Head(pending), disk)
     IN /\ content # Missing
        /\ \E torn \in Torn(Len(content)) : written' = written \o LinesOf(content, torn)
  /\ pending' = Tail(pending)
  /\ Flushed(written')
  /\ UNCHANGED <<start, at, index, given, settings, exit, report, tail_lost>>

(* The first lines of a file, the next one perhaps begun: the file cannot   *)
(* be read or is refused, or a record cannot be written in all attempts.    *)
WrittenUpTo(n) ==
  LET content == Content(Head(pending), disk)
  IN /\ content = Missing => n = 0
     /\ n > 0 => n < Len(content)
     /\ \E torn \in Torn(n) : written' = written \o LinesOf(SubSeq(content, 1, n), torn)

(* Mutation: a file that fails is passed over and the next one exported.    *)
PassOverFile ==
  /\ at = "exporting" /\ pending # <<>>
  /\ \E n \in 0 .. Len(Content(Head(pending), disk)) : WrittenUpTo(n)
  /\ pending' = Tail(pending)
  /\ Flushed(written')
  /\ UNCHANGED <<start, at, index, given, settings, exit, report, tail_lost>>

(* A file that cannot be read, a tokenizer or a limit that refuses it, or a *)
(* record that cannot be written: main prints the error and leaves, and the *)
(* stream's destructor writes what it can.                                  *)
ExportFails ==
  /\ at = "exporting" /\ pending # <<>>
  /\ \E n \in 0 .. Len(Content(Head(pending), disk)) :
       /\ WrittenUpTo(n)
       /\ Left(written', Content(Head(pending), disk) # Missing
                           /\ n < Len(Content(Head(pending), disk)))
  /\ Exit(1, Form(JsonGiven))
  /\ UNCHANGED <<start, index, given, settings, pending, tail_lost>>

(* Every file is exported: the telemetry is shut down and main returns 0;   *)
(* whether the last bytes were written is not looked at.                    *)
Finish ==
  /\ at = "exporting" /\ pending = <<>>
  /\ Exit(0, "nothing")
  /\ Left(written, FALSE)
  /\ tail_lost' = (disk'[settings.export_path] # written)
  /\ UNCHANGED <<start, index, given, settings, pending, written>>

Exited == at = "exited" /\ UNCHANGED command_vars

CommandLineNext ==
  \/ Start \/ TakeValue \/ TakeFlag \/ TakePath \/ RefuseWord \/ LoadFile \/ Override
  \/ OpenOutput \/ ExportFile \/ ExportFails \/ Finish \/ Exited

CommandLineSpec == CommandLineInit /\ [][CommandLineNext]_command_vars

-----------------------------------------------------------------------------
(* Only a run whose words and file were accepted touches the disk, and then *)
(* only the export file: a refusal, an abort and a run that has nothing to  *)
(* export leave all as it was.                                              *)
(* Code: lines 211-229 of src/cli/main.cpp.                                 *)
OnlyAcceptedRunsWrite ==
  /\ at # "exporting" /\ ~ (at = "exited" /\ settings.export_type = "ndjson" /\ exit \in {0, 1})
       => disk = before
  /\ \A f \in DOMAIN disk : disk[f] # before[f] => f = settings.export_path

(* The words that are options, each with its value: a word is a value when  *)
(* the word before it is an option that takes one and is no value itself.   *)
IsValue[i \in 1 .. Len(argv)] ==
  i > 2 /\ argv[i - 1] \in DOMAIN ValueOptions /\ ~ IsValue[i - 1]

(* What the words say: H is the set of the places of words that are no      *)
(* values, their heads.                                                     *)
Heads == {i \in 2 .. Len(argv) : ~ IsValue[i]}
Mentioned(H, option) ==
  {i \in H : argv[i] \in DOMAIN ValueOptions /\ ValueOptions[argv[i]] = option}
LastSaid(H, option) == argv[Max(Mentioned(H, option)) + 1]
Switched(H, option) == \E i \in H : argv[i] \in DOMAIN Flags /\ Flags[argv[i]] = option
InputWords(H) == {i \in H : argv[i] \notin Dashed \cup {""}}

(* The configuration below the words: what the file that they name gives    *)
(* goes over the defaults.                                                  *)
FileNamed(H) == Mentioned(H, "config") # {} /\ LastSaid(H, "config") # ""
FromFile(H) ==
  IF FileNamed(H) /\ document.readable THEN Over(DefaultConfiguration, document.given)
  ELSE DefaultConfiguration
FileTaken ==
  /\ document.readable /\ document.schema_version = 1
  /\ document.garbled = {} /\ document.unknown = {}

Expected(option, H, underneath) ==
  CASE option = "path" ->
         IF InputWords(H) = {} THEN underneath.path ELSE argv[Max(InputWords(H))]
    [] option \in {"recursive", "include_hidden"} -> underneath[option] \/ Switched(H, option)
    [] option \in Sizes /\ Mentioned(H, option) # {} -> NumberOf[LastSaid(H, option)]
    [] option \notin Sizes \cup {"path", "recursive", "include_hidden"}
         /\ Mentioned(H, option) # {} /\ LastSaid(H, option) # "" ->
         Meaning(option, LastSaid(H, option))
    [] OTHER -> underneath[option]

(* What a run works with is, option by option, what the last word for it    *)
(* says, or else the file, or else the default; it satisfies every rule     *)
(* although file and words were looked at one after the other; and nothing  *)
(* in the file was passed over.                                             *)
(* Code: lines 87-211 of src/cli/main.cpp and lines 144-324 of              *)
(* src/config.cpp.                                                          *)
EffectiveSettings ==
  at \in {"opening", "exporting"} =>
    /\ \A option \in OptionName :
         settings[option] = Expected(option, Heads, FromFile(Heads))
    /\ FileNamed(Heads) => FileTaken
    /\ Validate(settings) = "ok"

(* A line holds a record when nothing is on it but the record and, in front *)
(* of it, what attempts that were repeated have left.                       *)
Holds(line, record, attempts) == \E torn \in 0 .. attempts - 1 : line = Line(torn, record)
HoldAll(lines, records, attempts) ==
  /\ Len(lines) = Len(records)
  /\ \A k \in DOMAIN lines : Holds(lines[k], records[k], attempts)

(* When a run says success, the export file has a line for every record of  *)
(* every file of the input, as the files were when the program was started, *)
(* in path order, and nothing else, unless the last bytes were lost on the  *)
(* way to the disk; a failed run leaves the first of these lines, the last  *)
(* one perhaps cut.  The line is the record as it is when a record is tried *)
(* once, as it is by default, and the input is what export_streaming takes: *)
(* nothing at all below a path with a dotted component.  The export file    *)
(* must not be one of the input's files: those it holds are emptied first.  *)
(* Code: lines 221-271 of src/cli/main.cpp, lines 271-310 and 379-385 of    *)
(* src/directory_pipeline.cpp and lines 161-176 of                          *)
(* include/fastchunk/ndjson_exporter.h.                                     *)
SuccessIsTheWholeOutput ==
  LET target == settings.export_path
      lines == disk[target]
      there == Present(Input, before)
      wanted == FlattenSeq([k \in DOMAIN there |-> Records(before[there[k]])])
      attempts == settings.max_attempts
  IN at = "exited" /\ disk # before /\ target \notin ToSet(Input) =>
       IF exit = 0 /\ ~ tail_lost
       THEN HoldAll(lines, wanted, attempts)
       ELSE \E n \in 0 .. Len(wanted) :
              \/ HoldAll(lines, SubSeq(wanted, 1, n), attempts)
              \/ /\ lines # <<>> /\ lines[Len(lines)] = Piece
                 /\ HoldAll(SubSeq(lines, 1, Len(lines) - 1), SubSeq(wanted, 1, n), attempts)

=============================================================================
