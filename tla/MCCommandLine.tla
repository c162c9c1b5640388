---------------------------- MODULE MCCommandLine ----------------------------
(* Bounded instance of CommandLine.                                         *)
EXTENDS CommandLine, TLC

MCNumberOf == "0" :> 0 @@ "1" :> 1 @@ "2" :> 2
MCDashed == DOMAIN ValueOptions \cup DOMAIN Flags \cup {"--help", "--version", "--unknown"}

(* A run needs an input, two sizes and an export file.  They are given by   *)
(* the file, by the words, by both, or not at all; groups of words are put  *)
(* together in every order of two, behind the ones that complete a run.     *)
MCComplete == <<"chunk", "a", "--max-tokens", "2", "--overlap-tokens", "1", "--export", "out">>
MCGroups ==
  {<<"--config", "f">>, <<"--max-tokens", "1">>, <<"--max-tokens", "many">>,
   <<"--overlap-tokens", "2">>, <<"--overlap-tokens", "0">>, <<"--export", "docs/o">>,
   <<"--export", "">>, <<"--export", "a">>, <<"--input-mode", "copy">>,
   <<"--input-mode", "mapped">>, <<"--invalid-utf8", "skip">>, <<"--recursive">>,
   <<"--tokenizer", "--json-errors">>, <<"--json-errors">>, <<"--workers", "0">>, <<"docs">>, <<".d">>,
   <<"--tokenizer", "hf">>, <<"--result-order", "any">>, <<"--record-mode", "ndjson">>,
   <<"--on-malformed-record", "skip">>, <<"--include-hidden">>, <<"--export">>,
   <<"--record-id-field", "id">>, <<"--unknown">>}

Sizes12 == [max_tokens |-> 2, overlap_tokens |-> 1]
Whole == Sizes12 @@ [path |-> "docs", export_path |-> "out"]

(* Every section once with a broken rule, an unknown key or a bad scalar.   *)
MCDocuments ==
  {Document(TRUE, 1, g, {}, {}) : g \in
     {Whole, Sizes12, <<>>, Whole @@ [mode |-> "copy", invalid_utf8 |-> "replace"],
      [export_type |-> "none"] @@ Whole, [restricted_root |-> "r"] @@ Whole,
      [affinity_mode |-> "explicit", cpus |-> {0}] @@ Whole,
      Whole @@ [enabled |-> TRUE, exporter |-> "otlp"], Whole @@ [max_attempts |-> 0],
      Whole @@ [max_attempts |-> 2], Whole @@ [include_hidden |-> TRUE]}}
    \cup {Document(TRUE, 2, Whole, {}, {}), Document(FALSE, 1, <<>>, {}, {}),
          Document(TRUE, Garbled, Whole, {}, {}), Document(TRUE, 1, Whole, {}, {0}),
          Document(TRUE, 1, Sizes12, {"max_tokens"}, {}),
          Document(TRUE, 1, Whole, {"limits"}, {}), Document(TRUE, 1, Whole, {"queue_size"}, {8}),
          Document(TRUE, 1, Whole, {"encoding"}, {}),
          Document(TRUE, 1, Whole, {"enabled"}, {9})}
NoFile == Document(FALSE, 1, <<>>, {}, {})

(* A directory with a hidden file and a deeper one, and a hidden directory. *)
MCBelow ==
  "docs" :> <<"docs/.h", "docs/b", "docs/c", "docs/o", "docs/sub/d">> @@ ".d" :> <<".d/x">>
MCDeeper == "docs" :> {"docs/sub/d"} @@ ".d" :> {}
MCHidden == {"docs/.h", ".d", ".d/x"}

Disk(a, c) ==
  "a" :> a @@ "out" :> <<<<"old">>>> @@ "docs/b" :> <<<<"b">>>> @@ "docs/c" :> c
    @@ "docs/o" :> Missing @@ "docs/.h" :> <<<<"h">>>> @@ "docs/sub/d" :> <<<<"d">>>>
    @@ ".d/x" :> <<<<"x">>>>
Full == Disk(<<<<"x">>, <<"y">>>>, <<<<"c">>>>)

Starting(words, file, files) == [argv |-> words, document |-> file, disk |-> files]
MCStarts ==
  {Starting(w, NoFile, Full) : w \in
     {<<>>, <<"--help">>, <<"--version">>, <<"chop">>}
       \cup {<<"chunk">> \o g \o h : g \in MCGroups, h \in MCGroups}
       \cup {MCComplete \o g : g \in MCGroups}}
    \cup {Starting(MCComplete \o g \o h, Document(TRUE, 1, Whole, {}, {}), d) :
            g \in MCGroups, h \in MCGroups, d \in {Full, Disk(Missing, Missing)}}
    \cup {Starting(<<"chunk", "--config", "f">> \o g \o h, d, Full) :
            g \in MCGroups, h \in {<<>>, <<"docs">>, <<"--max-tokens", "2">>}, d \in MCDocuments}

=============================================================================
