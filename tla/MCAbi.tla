-------------------------------- MODULE MCAbi --------------------------------
(* Bounded instances of AbiReader and AbiStream, in one run: a behaviour    *)
(* uses a reader handle, or a chunker with its stream over a reader.        *)
EXTENDS AbiReader, AbiStream, SmallInputs

VARIABLE used   (* which of the two                                         *)

mc_vars == <<used, handle_vars, abi_vars>>

(* Byte sequences around every boundary of the sequence tests: the leads    *)
(* that change the answer, and the continuation bytes next to the limits.   *)
MCLeads == {65, 128, 193, 194, 224, 237, 240, 244, 245, 255}
MCTails == {65, 128, 143, 144, 159, 160, 191}

MCWords ==
  {<<a>> : a \in MCLeads} \cup {<<a, b>> : a \in MCLeads, b \in MCTails}
    \cup {<<a, b, c>> : a \in {224, 237, 240, 244}, b \in MCTails, c \in {65, 128, 194}}
    \cup {<<a, b, 128, d>> : a \in {237, 240, 244, 245}, b \in MCTails, d \in {65, 191}}
    \cup {<<240, b, c, 128>> : b \in {141, 142}, c \in {159, 160, 191}}

(* {"a":value} and {"a":value,"b":value} for values of every kind, with the *)
(* faults the scanner has to tell from them.                                *)
MCLetters == {<<97>>, <<98>>}
MCString(bytes) == <<34>> \o bytes \o <<34>>
MCValues ==
  {MCString(<<>>), MCString(<<120>>), MCString(<<92, 34>>), MCString(<<92, 117, 49, 34, 49, 49>>),
   MCString(<<92, 120>>), MCString(<<125>>), <<49, 32>>, <<49, 120>>, <<45, 49>>,
   <<49, 46, 53, 101, 45, 51>>, <<110, 117, 108, 108>>, <<11>> \o MCString(<<120>>),
   MCString(<<92, 117, 48, 48, 54, 49>>),
   <<91, 49, 44, 123, 125, 93>>, <<91, 49, 125>>, <<123>> \o MCString(<<97>>) \o <<58, 91, 93, 125>>}
MCMember(key, value) == MCString(key) \o <<58>> \o value
MCObjects ==
  {<<123>> \o MCMember(key, v) \o <<32, 125>> : key \in MCLetters, v \in MCValues}
    \cup {<<123>> \o MCMember(<<97>>, v) \o <<44, 32>> \o MCMember(key, MCString(<<121>>)) \o <<125>> :
            key \in MCLetters, v \in MCValues}
    \cup {<<123, 125>>, <<91, 93>>, <<123, 125, 125>>,
          <<123>> \o MCMember(<<97>>, MCString(<<120>>)) \o <<44, 125>>}

(* Blank lines, both line ends, no last one, a record without an id.        *)
MCLine == <<123>> \o MCMember(<<97>>, MCString(<<120>>)) \o <<125>>
MCTexts ==
  {<<>>, <<10>>, <<13, 10>>, <<66, 13>>, MCLine \o <<13, 10>> \o MCLine,
   MCLine \o <<10, 66, 10>> \o MCLine \o <<10>>, <<10>> \o MCLine \o <<13, 10, 66, 13, 10>>,
   MCLine \o <<10, 10>> \o MCLine \o <<13>>, <<123, 125, 10>> \o MCLine \o <<255>>}

MCOption ==
  [mode : {"zero_copy", "copy"}, invalid_utf8 : {"error", "replace", "skip"},
   record_mode : {"none", "ndjson"}, record_id_field : {<<>>, <<97>>},
   malformed_record : {"error", "skip"}]
MCNoRecords ==
  {o \in MCOption : /\ o.record_mode = "none"
                   /\ o.record_id_field = <<>> /\ o.malformed_record = "error"}
MCRecords == {o \in MCOption : o.record_mode = "ndjson"}
MCPlainRecords == {o \in MCRecords : o.mode = "zero_copy" /\ o.invalid_utf8 = "error"}

MCSources ==
  {[path |-> w, buffer |-> w, options |-> MCNoRecords] : w \in MCWords}
    \cup {[path |-> w, buffer |-> w, options |-> MCPlainRecords] : w \in MCObjects}
    \cup {[path |-> f, buffer |-> b, options |-> MCNoRecords \cup MCRecords] :
            f \in {<<66, 13>>, <<>>}, b \in MCTexts}
    \cup {[path |-> f, buffer |-> f, options |-> MCNoRecords \cup MCRecords] : f \in MCTexts}

(* One record of every small shape, and no, two or three records of         *)
(* different lengths, empty ones included (a record can have no token).     *)
MCRecordLists ==
  {<<t>> : t \in MixedTokens(2) \cup {ShortTokens(4)}}
    \cup {<<>>}
    \cup {<<ShortTokens(a), ShortTokens(b)>> : a \in 0 .. 3, b \in 0 .. 3}
    \cup {<<ShortTokens(a), ShortTokens(b), ShortTokens(2)>> : a \in 0 .. 2, b \in 0 .. 1}

MCAbiOptions ==
  {o \in Option : o.max_tokens \in 1 .. 3 /\ o.overlap_tokens < o.max_tokens}

(* The inputs of the part that is not used.                                 *)
IdleSource == CHOOSE s \in Sources : s.path = <<>>
IdleOptions == CHOOSE o \in Options : TRUE

MCInit ==
  /\ used \in {"reader", "stream"}
  /\ AbiReaderInit
  /\ used = "stream" => source = IdleSource
  /\ AbiStreamInit
  /\ used = "reader" => options = IdleOptions /\ vectors = <<>> /\ ~ cancel_token

(* A destroyed handle is not used again.                                    *)
MCFinished == used = "reader" /\ ~ alive /\ UNCHANGED mc_vars

MCNext ==
  \/ used = "reader" /\ AbiReaderNext /\ UNCHANGED <<used, abi_vars>>
  \/ used = "stream" /\ AbiStreamNext /\ UNCHANGED <<used, handle_vars>>
  \/ MCFinished

MCSpec == MCInit /\ [][MCNext]_mc_vars

=============================================================================
