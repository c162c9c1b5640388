-------------------------- MODULE MCNdjsonExporter --------------------------
(* Bounded instance of NdjsonExporter.                                      *)
EXTENDS NdjsonExporter, SmallInputs

MCExportInputs == MixedTokens(2) \cup {ShortTokens(4)}

MCExportOptions ==
  {o \in Option : o.max_tokens \in 1 .. 2 /\ o.overlap_tokens < o.max_tokens}

(* No retry in two ways, a delay that doubles up to its limit, one that     *)
(* stays, a limit below the delay, and a limit whose double wraps.          *)
MCPolicies ==
  {[max_attempts |-> a[1], initial_delay_ms |-> a[2], max_delay_ms |-> a[3]] :
     a \in {<<0, 0, 0>>, <<1, 0, 0>>, <<4, 1, 3>>, <<3, 2, 0>>, <<3, 5, 2>>, <<4, 3, 9>>}}

=============================================================================
