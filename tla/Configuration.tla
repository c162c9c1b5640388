---------------------------- MODULE Configuration ----------------------------
(***************************************************************************)
(* Configuration (src/config.cpp): the defaults, the rules of validate,    *)
(* and load_configuration, which reads a YAML document over the defaults   *)
(* and validates the result.                                               *)
(*                                                                         *)
(* A configuration is a record with a field per option that a rule or the  *)
(* command line looks at; the options that are only carried along (limits, *)
(* queue sizes, encodings) have no field, but reading them can fail.  A    *)
(* document, as the YAML library hands it over, says for every option it   *)
(* mentions the scalar written there.                                      *)
(***************************************************************************)
EXTENDS Integers, Sequences, FiniteSetsExt

NoValue == -1    (* std::nullopt, for the sizes                            *)
Garbled == -2    (* a schema_version that is no number                     *)

DefaultConfiguration ==
  [path |-> "", restricted_root |-> "", mode |-> "zero_copy", invalid_utf8 |-> "error",
   recursive |-> FALSE, include_hidden |-> FALSE, record_mode |-> "none",
   record_id_field |-> "", on_malformed_record |-> "error",
   type |-> "whitespace", max_tokens |-> NoValue, overlap_tokens |-> NoValue,
   workers |-> 0, result_order |-> "ordered", affinity_mode |-> "none", cpus |-> {},
   export_type |-> "ndjson", export_path |-> "", on_error |-> "fail_batch",
   max_attempts |-> 1, initial_delay_ms |-> 100, max_delay_ms |-> 5000,
   enabled |-> FALSE, exporter |-> "none", on_failure |-> "warn", endpoint |-> ""]

OptionName == DOMAIN DefaultConfiguration
Sizes == {"max_tokens", "overlap_tokens", "workers", "max_attempts", "initial_delay_ms",
          "max_delay_ms"}

Tokenizers == {"whitespace", "tiktoken", "cl100k_base", "o200k_base", "huggingface", "hf"}

(* The tests of validate in its order, each with the error it gives.        *)
Rules(c) == <<
  <<c.type \notin Tokenizers, "invalid_configuration">>,
  <<c.max_tokens \in {NoValue, 0}, "invalid_configuration">>,
  <<c.overlap_tokens = NoValue, "invalid_configuration">>,
  <<c.overlap_tokens >= c.max_tokens, "invalid_configuration">>,
  <<c.path = "", "invalid_configuration">>,
  <<c.mode = "zero_copy" /\ c.invalid_utf8 # "error", "invalid_configuration">>,
  <<c.result_order \notin {"ordered", "unordered"}, "invalid_configuration">>,
  <<c.affinity_mode \notin {"none", "explicit", "isolated"}, "invalid_configuration">>,
  <<c.affinity_mode = "explicit" /\ c.cpus = {}, "invalid_configuration">>,
  <<c.affinity_mode # "none", "unsupported_option">>,
  <<c.on_error \notin {"fail_batch", "continue"}, "invalid_configuration">>,
  <<c.max_attempts = 0 \/ c.initial_delay_ms > c.max_delay_ms, "invalid_configuration">>,
  <<c.exporter \notin {"none", "otlp", "splunk"}, "unsupported_option">>,
  <<c.on_failure \notin {"warn", "drop"}, "invalid_configuration">>,
  <<c.enabled /\ c.exporter # "none" /\ c.endpoint = "", "invalid_configuration">>,
  <<c.restricted_root # "", "unsupported_option">>,
  <<c.export_type \notin {"none", "ndjson"}, "unsupported_option">>,
  <<c.export_type = "ndjson" /\ c.export_path = "", "invalid_configuration">> >>

(* validate: the first rule that is broken names the error.                 *)
Validate(c) ==
  LET broken == {k \in DOMAIN Rules(c) : Rules(c)[k][1]}
  IN IF broken = {} THEN "ok" ELSE Rules(c)[Min(broken)][2]

(* What a word means for an option: the four enumerations take every word   *)
(* they do not know for their first value, in the file and on the command   *)
(* line alike.                                                              *)
Meaning(option, word) ==
  CASE option = "mode" -> IF word = "copy" THEN word ELSE "zero_copy"
    [] option = "invalid_utf8" -> IF word \in {"replace", "skip"} THEN word ELSE "error"
    [] option = "record_mode" -> IF word = "ndjson" THEN word ELSE "none"
    [] option = "on_malformed_record" -> IF word = "skip" THEN word ELSE "error"
    [] OTHER -> word

(* Words given for some options, over a configuration.                      *)
Over(c, given) ==
  [option \in OptionName |->
     IF option \in DOMAIN given THEN Meaning(option, given[option]) ELSE c[option]]

-----------------------------------------------------------------------------
(* The sections in the order they are read, each with its options; limits,  *)
(* encoding and the like stand for what is only carried along.              *)
SectionOrder == <<
  {"path", "restricted_root", "mode", "invalid_utf8", "recursive", "include_hidden",
   "record_mode", "record_id_field", "on_malformed_record"},
  {"type", "encoding"},
  {"max_tokens", "overlap_tokens", "metadata_collision"},
  {"export_type", "export_path", "on_error"},
  {"max_attempts", "initial_delay_ms", "max_delay_ms"},
  {"workers", "result_order"},
  {"affinity_mode", "cpus", "required"},
  {"limits"},
  {"enabled", "exporter", "on_failure", "endpoint", "queue_size"} >>
Scalars == UNION {SectionOrder[k] : k \in DOMAIN SectionOrder}

(* A document: whether the library can read it, its schema_version, what it *)
(* gives, the options whose scalar is not the text, number or boolean asked *)
(* for, and the sections (0 for the root) that hold a key nobody knows.     *)
Document(readable, version, given, garbled, unknown) ==
  [readable |-> readable, schema_version |-> version, given |-> given, garbled |-> garbled,
   unknown |-> unknown]

IsDocument(document) ==
  /\ document.readable \in BOOLEAN
  /\ document.garbled \subseteq Scalars
  /\ document.unknown \subseteq 0 .. Len(SectionOrder)
  /\ \A option \in DOMAIN document.given \cap {"recursive", "include_hidden"} :
       document.given[option] \in BOOLEAN

(* What ends the reading of one section: an unknown key is looked for       *)
(* before any value is converted.                                           *)
SectionError(document, k) ==
  IF k \in document.unknown THEN "invalid_configuration"
  ELSE IF document.garbled \cap SectionOrder[k] # {}
  THEN "configuration_parse_failed"
  ELSE "ok"

(* Mutation: a document is taken as it is.                                  *)
LoadUnvalidated(document) ==
  IF ~ document.readable THEN [status |-> "configuration_parse_failed"]
  ELSE [status |-> "ok", configuration |-> Over(DefaultConfiguration, document.given)]

(* load_configuration: the first error, or the validated configuration.     *)
LoadConfiguration(document) ==
  LET failing == {k \in DOMAIN SectionOrder : SectionError(document, k) # "ok"}
      loaded == Over(DefaultConfiguration, document.given)
  IN CASE ~ document.readable -> [status |-> "configuration_parse_failed"]
       [] document.readable /\ 0 \in document.unknown -> [status |-> "invalid_configuration"]
       [] document.readable /\ 0 \notin document.unknown
            /\ document.schema_version # 1 ->
            [status |-> IF document.schema_version = Garbled THEN "configuration_parse_failed"
                        ELSE "unsupported_option"]
       [] OTHER ->
            IF failing # {} THEN [status |-> SectionError(document, Min(failing))]
            ELSE IF Validate(loaded) # "ok" THEN [status |-> Validate(loaded)]
            ELSE [status |-> "ok", configuration |-> loaded]

=============================================================================
