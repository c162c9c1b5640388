--------------------------- MODULE MCChunker ---------------------------
(* Bounded instance of ChunkBuffer.                                         *)
EXTENDS ChunkBuffer, SmallInputs
=============================================================================
