-------------------------- MODULE MCStatefulObjects --------------------------
(* Bounded instances of the two objects that keep state between their       *)
(* caller's calls, StreamChunker and the iterator of PythonBindings, in one *)
(* run: a behaviour uses one of them.                                       *)
EXTENDS StreamChunker, PythonBindings

VARIABLE used   (* which of the two                                         *)

mc_vars == <<used, chunker_vars, python_vars>>

(* Empty blocks, and words cut by a block's edge.                           *)
MCBlocks == UNION {[1 .. n -> Byte] : n \in 0 .. 3}

MCStreamOptions ==
  {[max_tokens |-> m, overlap_tokens |-> o] : m \in 0 .. 3, o \in 0 .. 1}

(* Up to three windows, each with or without a warning.                     *)
MCInputs == UNION {[1 .. n -> BOOLEAN] : n \in 0 .. 3}

(* The inputs of the object that is not used.                               *)
IdleOptions == CHOOSE o \in Options : TRUE

MCInit ==
  /\ used \in {"chunker", "iterator"}
  /\ ChunkerInit
  /\ used = "iterator" => options = IdleOptions
  /\ PythonInit
  /\ used = "chunker" => warns = <<>> /\ filter = "default"

MCNext ==
  \/ used = "chunker" /\ ChunkerNext /\ UNCHANGED <<used, python_vars>>
  \/ used = "iterator" /\ PythonNext /\ UNCHANGED <<used, chunker_vars>>

MCSpec == MCInit /\ [][MCNext]_mc_vars

=============================================================================
