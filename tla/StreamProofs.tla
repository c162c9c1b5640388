---------------------------- MODULE StreamProofs ----------------------------
(***************************************************************************)
(* What the chunk stream guarantees for every tokenizer output, every pair *)
(* of sizes, every width of the machine integers and every behaviour of    *)
(* the other thread, and what the two loops that pull it to its end make   *)
(* of it: chunk_buffer, which collects the chunks, and NdjsonExporter,     *)
(* which writes them.                                                      *)
(*                                                                         *)
(* The properties are not inductive: which chunk next() makes depends on   *)
(* start_token_idx_ and chunk_index_ alone, so StreamInv ties both to the  *)
(* number of chunks delivered so far.  The invariants of the two loops     *)
(* rest on it and tie what the loop holds to that number.                  *)
(***************************************************************************)
EXTENDS ChunkBuffer, NdjsonExporter, OperatorProofs, FiniteSetTheorems

-----------------------------------------------------------------------------
(* The inductive invariant, part by part.                                   *)

(* Sizes that stream_buffer refuses never reach next().                     *)
OnlyValidSizes == phase \in {"ready", "emitting"} => ValidOption(options)

(* start_token_idx_ is where the next window of the closed form begins, or  *)
(* the end of the input.                                                    *)
AtNextWindow ==
  /\ start_token_idx <= Len(tokens)
  /\ start_token_idx < Len(tokens) =>
       AtWindow(options, tokens, Len(delivered), start_token_idx)

IndexCountsChunks == chunk_index = Len(delivered) % IndexModulus

(* How far the delivered chunks reach.                                      *)
Frontier == IF delivered = <<>> THEN 0 ELSE delivered[Len(delivered)].last

FrontierKnown ==
  /\ Frontier \in Nat
  /\ start_token_idx = Len(tokens) => Frontier = Len(tokens)
  /\ start_token_idx < Len(tokens) /\ delivered # <<>> =>
       Frontier = start_token_idx + options.overlap_tokens

CoveredToFrontier ==
  \A i \in 0 .. Frontier - 1 :
    \E k \in 1 .. Len(delivered) :
      delivered[k].first <= i /\ i < delivered[k].last

ExactOverlap ==
  \A k \in 1 .. Len(delivered) - 1 :
    /\ delivered[k].last - delivered[k + 1].first = options.overlap_tokens
    /\ delivered[k].last < delivered[k + 1].last

ReturnsAreHonest ==
  /\ returned = "end" => start_token_idx = Len(tokens)
  /\ returned = "cancelled" => is_cancelled /\ phase = "ready"

StreamInv ==
  /\ StreamTypeOK
  /\ OnlyValidSizes
  /\ AtNextWindow
  /\ IndexCountsChunks
  /\ DeliveredFollowsReference
  /\ FrontierKnown
  /\ CoveredToFrontier
  /\ ExactOverlap
  /\ ReturnsAreHonest

-----------------------------------------------------------------------------
(* The request and its length, as numbers.                                  *)
LEMMA InputFacts ==
  ASSUME StreamTypeOK
  PROVE  /\ options \in Option
         /\ tokens \in Seq(Token)
         /\ FitsMemory(tokens)
         /\ Len(tokens) \in Nat
         /\ Len(tokens) \in SizeT
<1>1. options \in Option /\ tokens \in Seq(Token) /\ FitsMemory(tokens)
  BY OptionAssumption, InputAssumption DEF StreamTypeOK
<1>2. Len(tokens) \in Nat
  BY <1>1
<1>3. 2 * Len(tokens) <= SizeModulus
  BY <1>1 DEF FitsMemory
<1>4. Len(tokens) < SizeModulus
  BY <1>2, <1>3, ModulusAssumption
<1> QED
  BY <1>1, <1>2, <1>4, ModulusAssumption DEF SizeT

(* A window inside the input is a chunk.                                    *)
LEMMA ChunkAtType ==
  ASSUME NEW ts \in Seq(Token), NEW first \in Nat,
         NEW last \in first + 1 .. Len(ts), NEW i \in ChunkIndex,
         NEW warned \in BOOLEAN
  PROVE  ChunkAt(ts, first, last, i, warned) \in Chunk
<1>1. first + 1 \in 1 .. Len(ts) /\ last \in 1 .. Len(ts) /\ last \in Nat
  OBVIOUS
<1>2. TokenAt(ts, first) \in Token /\ TokenAt(ts, last - 1) \in Token
  BY <1>1 DEF TokenAt
<1>3. /\ TokenAt(ts, first).start_byte \in Nat
      /\ TokenAt(ts, last - 1).end_byte \in Nat
  BY <1>2 DEF Token
<1> QED
  BY <1>1, <1>3 DEF ChunkAt, Chunk

(* A stream that has delivered nothing, opened or not.                      *)
FreshStream ==
  /\ options \in Options /\ tokens \in Inputs
  /\ start_token_idx = 0 /\ chunk_index = 0 /\ delivered = <<>>
  /\ is_cancelled = FALSE /\ cancel_token \in BOOLEAN
  /\ \/ phase = "unopened" /\ returned = "none"
     \/ phase = "ready" /\ returned = "opened" /\ ValidOption(options)

(* A fresh stream stands at window 0.                                       *)
LEMMA StreamInitially == FreshStream => StreamInv
<1> SUFFICES ASSUME FreshStream PROVE StreamInv
  OBVIOUS
<1>1. StreamTypeOK
  <2>1. 0 \in SizeT /\ 0 \in ChunkIndex
    BY ModulusAssumption DEF SizeT, ChunkIndex
  <2>2. delivered \in Seq(Chunk)
    BY DEF FreshStream
  <2> QED
    BY <2>1, <2>2 DEF FreshStream, StreamTypeOK, Phases, Returns
<1>2. Len(delivered) = 0 /\ delivered = <<>>
  BY DEF FreshStream
<1>3. Len(tokens) \in Nat /\ options \in Option
  BY <1>1, InputFacts
<1>4. OnlyValidSizes /\ ReturnsAreHonest
  BY DEF FreshStream, OnlyValidSizes, ReturnsAreHonest
<1>5. AtNextWindow
  <2>1. 0 = 0 * Stride(options)
    BY <1>3 DEF Stride, Option, SizeT
  <2> QED
    BY <1>2, <1>3, <2>1 DEF FreshStream, AtNextWindow, AtWindow
<1>6. IndexCountsChunks
  <2>1. 0 % IndexModulus = 0
    BY ModSmall, ModulusAssumption
  <2> QED
    BY <1>2, <2>1 DEF FreshStream, IndexCountsChunks
<1>7. DeliveredFollowsReference /\ ExactOverlap
  BY <1>2 DEF DeliveredFollowsReference, ExactOverlap
<1>8. FrontierKnown /\ CoveredToFrontier
  BY <1>2, <1>3 DEF FreshStream, FrontierKnown, CoveredToFrontier, Frontier
<1> QED
  BY <1>1, <1>4, <1>5, <1>6, <1>7, <1>8 DEF StreamInv

(* The steps that neither move the stream nor deliver: they leave every     *)
(* part alone except the types and what is said of phase and returned.      *)
LEMMA StationaryStep ==
  ASSUME StreamInv,
         UNCHANGED <<options, tokens, start_token_idx, chunk_index, delivered>>,
         StreamTypeOK', OnlyValidSizes', ReturnsAreHonest'
  PROVE  StreamInv'
BY DEF StreamInv, AtNextWindow, IndexCountsChunks, DeliveredFollowsReference,
       FrontierKnown, Frontier, CoveredToFrontier, ExactOverlap

-----------------------------------------------------------------------------
(* A chunk delivered is the next window of the closed form, and the window  *)
(* reaches further than everything delivered before it.                     *)
LEMMA ChunkStep ==
  ASSUME StreamInv, NextChunk
  PROVE  /\ delivered' = Append(delivered, RefChunk(options, tokens, Len(delivered)))
         /\ RefChunk(options, tokens, Len(delivered)) \in Chunk
         /\ RefChunk(options, tokens, Len(delivered)).first = start_token_idx
         /\ RefChunk(options, tokens, Len(delivered)).last
              = WindowEnd(options, tokens, start_token_idx)
<1> DEFINE k == Len(delivered)
           end == WindowEnd(options, tokens, start_token_idx)
           big == IsOversized(options, tokens, start_token_idx)
           made == ChunkAt(tokens, start_token_idx, end, chunk_index, big)
<1>1. /\ options \in Option /\ ValidOption(options)
      /\ tokens \in Seq(Token) /\ FitsMemory(tokens)
      /\ k \in Nat /\ start_token_idx \in Nat /\ chunk_index \in ChunkIndex
      /\ Len(tokens) \in Nat
  <2>1. start_token_idx \in SizeT /\ chunk_index \in ChunkIndex /\ delivered \in Seq(Chunk)
    BY DEF StreamInv, StreamTypeOK
  <2>2. ValidOption(options)
    BY DEF StreamInv, OnlyValidSizes, NextChunk
  <2> QED
    BY <2>1, <2>2, InputFacts DEF StreamInv, SizeT
<1>2. AtWindow(options, tokens, k, start_token_idx)
  BY DEF StreamInv, AtNextWindow, NextChunk
<1>3. /\ start_token_idx = RefFirst(options, k)
      /\ end = RefLast(options, Len(tokens), k)
      /\ end \in start_token_idx + 1 .. Len(tokens)
  BY <1>1, <1>2, WindowStep
<1>4. big \in BOOLEAN
  BY DEF IsOversized
<1>5. delivered' = Append(delivered, made)
  BY DEF NextChunk, IsOversized
<1>6. made \in Chunk
  BY <1>1, <1>3, <1>4, ChunkAtType
<1>7. chunk_index = k % IndexModulus
  BY DEF StreamInv, IndexCountsChunks
<1>8. made = RefChunk(options, tokens, k)
  BY <1>3, <1>7 DEF RefChunk, IsOversized
<1>9. made.first = start_token_idx /\ made.last = end
  BY DEF ChunkAt
<1> QED
  BY <1>5, <1>6, <1>8, <1>9

(* The position after the window, and its relation to what it reached.      *)
LEMMA AdvanceStep ==
  ASSUME StreamInv, NextChunk
  PROVE  /\ WindowEnd(options, tokens, start_token_idx)
              \in start_token_idx + 1 .. Len(tokens)
         /\ WindowEnd(options, tokens, start_token_idx) = Len(tokens) =>
              start_token_idx' = Len(tokens)
         /\ WindowEnd(options, tokens, start_token_idx) # Len(tokens) =>
              /\ AtWindow(options, tokens, Len(delivered) + 1, start_token_idx')
              /\ WindowEnd(options, tokens, start_token_idx)
                   = start_token_idx' + options.overlap_tokens
              /\ start_token_idx' \in Nat
<1> DEFINE k == Len(delivered)
           end == WindowEnd(options, tokens, start_token_idx)
<1>1. /\ options \in Option /\ ValidOption(options)
      /\ tokens \in Seq(Token) /\ FitsMemory(tokens)
      /\ k \in Nat /\ start_token_idx \in Nat
      /\ Len(tokens) \in Nat
  <2>1. start_token_idx \in SizeT /\ delivered \in Seq(Chunk)
    BY DEF StreamInv, StreamTypeOK
  <2>2. ValidOption(options)
    BY DEF StreamInv, OnlyValidSizes, NextChunk
  <2> QED
    BY <2>1, <2>2, InputFacts DEF StreamInv, SizeT
<1>2. AtWindow(options, tokens, k, start_token_idx)
  BY DEF StreamInv, AtNextWindow, NextChunk
<1>3. start_token_idx' = NextStart(options, tokens, start_token_idx)
  BY DEF NextChunk
<1>4. end \in start_token_idx + 1 .. Len(tokens)
  BY <1>1, <1>2, WindowStep
<1>5. ASSUME end = Len(tokens) PROVE start_token_idx' = Len(tokens)
  BY <1>1, <1>2, <1>3, <1>5, WindowStep
<1>6. ASSUME end # Len(tokens)
      PROVE  /\ AtWindow(options, tokens, k + 1, start_token_idx')
             /\ end = start_token_idx' + options.overlap_tokens
             /\ start_token_idx' \in Nat
  <2>1. /\ end = start_token_idx + options.max_tokens
        /\ start_token_idx' = end - options.overlap_tokens
        /\ AtWindow(options, tokens, k + 1, start_token_idx')
    BY <1>1, <1>2, <1>3, <1>6, WindowStep
  <2>2. /\ options.max_tokens \in Nat /\ options.overlap_tokens \in Nat
        /\ options.overlap_tokens < options.max_tokens
    BY <1>1 DEF Option, ValidOption, SizeT
  <2> HIDE DEF end
  <2> QED
    BY <1>1, <2>1, <2>2
<1> QED
  BY <1>4, <1>5, <1>6

(* A chunk is the next window, and the stream moves to the one after it.    *)
LEMMA NextChunkPreserves ==
  ASSUME StreamInv, NextChunk
  PROVE  StreamInv'
<1> DEFINE k == Len(delivered)
           made == RefChunk(options, tokens, k)
           end == WindowEnd(options, tokens, start_token_idx)
<1>1. /\ options \in Option /\ ValidOption(options)
      /\ tokens \in Seq(Token)
      /\ k \in Nat /\ start_token_idx \in Nat
      /\ delivered \in Seq(Chunk)
      /\ Len(tokens) \in Nat /\ Len(tokens) \in SizeT
      /\ options.overlap_tokens \in Nat /\ options.max_tokens \in Nat
  <2>1. start_token_idx \in SizeT /\ delivered \in Seq(Chunk) /\ StreamTypeOK
    BY DEF StreamInv, StreamTypeOK
  <2>2. ValidOption(options)
    BY DEF StreamInv, OnlyValidSizes, NextChunk
  <2> QED
    BY <2>1, <2>2, InputFacts DEF SizeT, Option
<1>2. UNCHANGED <<options, tokens, is_cancelled, cancel_token>>
  BY DEF NextChunk, arguments
<1>3. /\ delivered' = Append(delivered, made)
      /\ made \in Chunk
      /\ made.first = start_token_idx
      /\ made.last = end
  BY ChunkStep
<1>4. /\ delivered' \in Seq(Chunk)
      /\ Len(delivered') = k + 1
      /\ delivered'[k + 1] = made
      /\ \A j \in 1 .. k : delivered'[j] = delivered[j]
  BY <1>1, <1>3
<1>5. /\ end \in start_token_idx + 1 .. Len(tokens)
      /\ end = Len(tokens) => start_token_idx' = Len(tokens)
      /\ end # Len(tokens) =>
           /\ AtWindow(options, tokens, k + 1, start_token_idx')
           /\ end = start_token_idx' + options.overlap_tokens
           /\ start_token_idx' \in Nat
  BY AdvanceStep
<1>6. start_token_idx < Len(tokens) /\ AtWindow(options, tokens, k, start_token_idx)
  BY DEF StreamInv, AtNextWindow, NextChunk
<1>7. start_token_idx' \in Nat /\ start_token_idx' <= Len(tokens)
  <2>1. CASE end = Len(tokens)
    BY <1>1, <1>5, <2>1
  <2>2. CASE end # Len(tokens)
    <3>1. start_token_idx' < Len(tokens)
      BY <1>5, <2>2 DEF AtWindow
    <3> QED
      BY <1>1, <1>5, <2>2, <3>1
  <2> QED
    BY <2>1, <2>2
<1> HIDE DEF made, end
<1>8. StreamTypeOK'
  <2>1. start_token_idx' \in SizeT
    BY <1>1, <1>7, ModulusAssumption DEF SizeT
  <2>2. chunk_index' \in ChunkIndex
    <3>1. chunk_index \in Nat
      BY ModulusAssumption DEF StreamInv, StreamTypeOK, ChunkIndex
    <3>2. (chunk_index + 1) % IndexModulus \in 0 .. IndexModulus - 1
      BY <3>1, ModulusAssumption
    <3> QED
      BY <3>2 DEF NextChunk, NextIndex, ChunkIndex
  <2> QED
    BY <1>2, <1>4, <2>1, <2>2
    DEF StreamInv, StreamTypeOK, NextChunk, Phases, Returns
<1>9. OnlyValidSizes'
  BY <1>1, <1>2 DEF OnlyValidSizes
<1>10. AtNextWindow'
  BY <1>2, <1>4, <1>5, <1>7 DEF AtNextWindow
<1>11. IndexCountsChunks'
  <2>1. chunk_index' = ((k % IndexModulus) + 1) % IndexModulus
    BY DEF StreamInv, IndexCountsChunks, NextChunk, NextIndex
  <2>2. ((k % IndexModulus) + 1) % IndexModulus = (k + 1) % IndexModulus
    BY <1>1, ModSuccessor, ModulusAssumption
  <2> QED
    BY <1>4, <2>1, <2>2 DEF IndexCountsChunks
<1>12. DeliveredFollowsReference'
  <2> SUFFICES ASSUME NEW j \in 1 .. k + 1
               PROVE  delivered'[j] = RefChunk(options, tokens, j - 1)
    BY <1>2, <1>4 DEF DeliveredFollowsReference
  <2>1. CASE j = k + 1
    BY <1>1, <1>4, <2>1 DEF made
  <2>2. CASE j # k + 1
    BY <1>1, <1>4, <2>2 DEF StreamInv, DeliveredFollowsReference
  <2> QED
    BY <2>1, <2>2
<1>13. Frontier' = end
  BY <1>1, <1>3, <1>4 DEF Frontier
<1>14. FrontierKnown'
  BY <1>1, <1>2, <1>5, <1>7, <1>13 DEF FrontierKnown
<1>15. delivered # <<>> =>
         /\ k > 0
         /\ Frontier = delivered[k].last
         /\ Frontier \in Nat
         /\ Frontier = start_token_idx + options.overlap_tokens
         /\ Frontier < end
  <2> SUFFICES ASSUME delivered # <<>>
               PROVE  /\ k > 0
                      /\ Frontier = delivered[k].last
                      /\ Frontier \in Nat
                      /\ Frontier = start_token_idx + options.overlap_tokens
                      /\ Frontier < end
    OBVIOUS
  <2>1. k > 0
    BY <1>1
  <2>2. /\ Frontier \in Nat
        /\ Frontier = delivered[k].last
        /\ Frontier = start_token_idx + options.overlap_tokens
    BY <1>6 DEF StreamInv, FrontierKnown, Frontier
  <2>3. start_token_idx + options.overlap_tokens < Len(tokens)
    BY <1>6, <2>1 DEF AtWindow
  <2>4. options.overlap_tokens < options.max_tokens
    BY <1>1 DEF ValidOption
  <2>5. end = Len(tokens) \/ end = start_token_idx + options.max_tokens
    BY <1>1, <1>6, WindowStep, InputFacts DEF end, StreamInv
  <2>6. Frontier < end
    BY <1>1, <2>2, <2>3, <2>4, <2>5
  <2> QED
    BY <2>1, <2>2, <2>6
<1>16. CoveredToFrontier'
  <2> SUFFICES ASSUME NEW i \in 0 .. end - 1
               PROVE  \E j \in 1 .. k + 1 :
                        delivered'[j].first <= i /\ i < delivered'[j].last
    BY <1>4, <1>13 DEF CoveredToFrontier
  <2>1. CASE i >= start_token_idx
    BY <1>1, <1>3, <1>4, <1>5, <2>1
  <2>2. CASE i < start_token_idx
    <3>1. delivered # <<>>
      <4> SUFFICES ASSUME delivered = <<>> PROVE FALSE
        OBVIOUS
      <4>1. start_token_idx = 0 * Stride(options)
        BY <1>6 DEF AtWindow
      <4>2. 0 * Stride(options) = 0
        BY <1>1 DEF Stride
      <4> QED
        BY <2>2, <4>1, <4>2
    <3>2. i \in 0 .. Frontier - 1
      BY <1>1, <1>15, <2>2, <3>1
    <3>3. PICK j \in 1 .. k : delivered[j].first <= i /\ i < delivered[j].last
      BY <3>2 DEF StreamInv, CoveredToFrontier
    <3> QED
      BY <1>1, <1>4, <3>3
  <2> QED
    BY <1>1, <2>1, <2>2
<1>17. ExactOverlap'
  <2>0. 1 .. Len(delivered') - 1 = 1 .. k
    BY <1>1, <1>4
  <2> SUFFICES ASSUME NEW j \in 1 .. k
               PROVE  /\ delivered'[j].last - delivered'[j + 1].first
                           = options.overlap_tokens
                      /\ delivered'[j].last < delivered'[j + 1].last
    BY <1>2, <2>0 DEF ExactOverlap
  <2>1. CASE j < k
    <3>1. j \in 1 .. k - 1 /\ j + 1 \in 1 .. k
      BY <1>1, <2>1
    <3> QED
      BY <1>4, <3>1 DEF StreamInv, ExactOverlap
  <2>2. CASE j = k
    <3>1. delivered # <<>>
      BY <1>1, <2>2
    <3>2. delivered'[j] = delivered[k] /\ delivered'[j + 1] = made
      BY <1>4, <2>2
    <3> QED
      BY <1>1, <1>3, <1>15, <3>1, <3>2
  <2> QED
    BY <1>1, <2>1, <2>2
<1>18. ReturnsAreHonest'
  BY DEF NextChunk, ReturnsAreHonest
<1> QED
  BY <1>8, <1>9, <1>10, <1>11, <1>12, <1>14, <1>16, <1>17, <1>18 DEF StreamInv

-----------------------------------------------------------------------------
(* Every step of the stream and of the token's owner keeps the invariant.   *)
LEMMA StreamStep == StreamInv /\ [StreamNext]_stream_vars => StreamInv'
<1> SUFFICES ASSUME StreamInv, [StreamNext]_stream_vars
             PROVE  StreamInv'
  OBVIOUS
<1> USE DEF Phases, Returns, Errors, arguments, position
<1>1. CASE StreamBuffer
  BY <1>1, StationaryStep
  DEF StreamBuffer, Rejected, StreamInv, StreamTypeOK, OnlyValidSizes, ReturnsAreHonest
<1>2. CASE NextCancelled
  BY <1>2, StationaryStep
  DEF NextCancelled, StreamInv, StreamTypeOK, OnlyValidSizes, ReturnsAreHonest
<1>3. CASE BeginNext
  BY <1>3, StationaryStep
  DEF BeginNext, StreamInv, StreamTypeOK, OnlyValidSizes, ReturnsAreHonest
<1>4. CASE NextEnd
  <2>1. start_token_idx' = Len(tokens')
    <3>1. start_token_idx \in Nat /\ Len(tokens) \in Nat
      BY InputFacts DEF StreamInv, StreamTypeOK, SizeT
    <3> QED
      BY <1>4, <3>1 DEF NextEnd, StreamInv, AtNextWindow
  <2> QED
    BY <1>4, <2>1, StationaryStep
    DEF NextEnd, StreamInv, StreamTypeOK, OnlyValidSizes, ReturnsAreHonest
<1>5. CASE NextChunk
  BY <1>5, NextChunkPreserves
<1>6. CASE CancelStream
  BY <1>6, StationaryStep
  DEF CancelStream, StreamInv, StreamTypeOK, OnlyValidSizes, ReturnsAreHonest
<1>7. CASE TokenHolder
  BY <1>7, StationaryStep
  DEF TokenHolder, RequestCancel, ResetToken,
      StreamInv, StreamTypeOK, OnlyValidSizes, ReturnsAreHonest
<1>8. CASE UNCHANGED stream_vars
  BY <1>8, StationaryStep
  DEF stream_vars, StreamInv, StreamTypeOK, OnlyValidSizes, ReturnsAreHonest
<1> QED
  BY <1>1, <1>2, <1>3, <1>4, <1>5, <1>6, <1>7, <1>8 DEF StreamNext, CallNext

(* How many chunks have been delivered when the stream is at its end: as    *)
(* many as the closed form has windows.                                     *)
EndCounted ==
  start_token_idx = Len(tokens) /\ ValidOption(options) =>
    Len(delivered) = WindowCount(options, Len(tokens))

(* A fresh stream has not ended.                                            *)
LEMMA CountedInitially == FreshStream => EndCounted
BY DEF FreshStream, EndCounted, WindowCount

(* The stream passes the end of the tokens with the last window of the      *)
(* closed form.                                                             *)
LEMMA CountedStep ==
  ASSUME StreamInv, EndCounted, [StreamNext]_stream_vars
  PROVE  EndCounted'
<1>1. CASE NextChunk
  <2> DEFINE k == Len(delivered)
             end == WindowEnd(options, tokens, start_token_idx)
  <2>1. /\ options \in Option /\ ValidOption(options)
        /\ tokens \in Seq(Token) /\ FitsMemory(tokens)
        /\ k \in Nat /\ start_token_idx \in Nat /\ Len(tokens) \in Nat
    BY <1>1, InputFacts
       DEF StreamInv, StreamTypeOK, OnlyValidSizes, NextChunk, SizeT
  <2>2. AtWindow(options, tokens, k, start_token_idx)
    BY <1>1 DEF StreamInv, AtNextWindow, NextChunk
  <2>3. UNCHANGED <<options, tokens>> /\ Len(delivered') = k + 1
    BY <1>1, <2>1 DEF NextChunk, arguments, StreamInv, StreamTypeOK
  <2>4. CASE end = Len(tokens)
    BY <2>1, <2>2, <2>3, <2>4, LastWindow DEF EndCounted
  <2>5. CASE end # Len(tokens)
    <3>1. start_token_idx' < Len(tokens) /\ start_token_idx' \in Nat
      BY <1>1, <2>5, AdvanceStep DEF AtWindow
    <3> QED
      BY <2>1, <2>3, <3>1 DEF EndCounted
  <2> QED
    BY <2>4, <2>5
<1>2. CASE UNCHANGED <<options, tokens, start_token_idx, delivered>>
  BY <1>2 DEF EndCounted
<1> QED
  BY <1>1, <1>2
     DEF StreamNext, CallNext, TokenHolder, StreamBuffer, NextCancelled, BeginNext, NextEnd,
         CancelStream, RequestCancel, ResetToken, stream_vars, arguments, position

(* The invariant from which everything below follows: position, index and   *)
(* deliveries of ChunkStreamImpl move together in every reachable state.    *)
THEOREM StreamInvariant == StreamSpec => []StreamInv
<1> QED
  <2>1. StreamInit => StreamInv
    BY StreamInitially DEF StreamInit, FreshStream
  <2> QED
    BY <2>1, StreamStep, PTL DEF StreamSpec

(* Every variable stays in the range of its C++ type.                       *)
THEOREM StreamTypeCorrect == StreamSpec => []StreamTypeOK
<1>1. StreamInv => StreamTypeOK
  BY DEF StreamInv
<1> QED
  BY <1>1, StreamInvariant, PTL

(* The two machine operations of a window: the sum start + max_tokens, and  *)
(* the step back, after which the next window begins max_tokens -           *)
(* overlap_tokens further, without a modulus.                               *)
SumsNeverWrap ==
  phase \in {"ready", "emitting"} /\ start_token_idx < Len(tokens) =>
    /\ (start_token_idx + options.max_tokens) % SizeModulus
         = start_token_idx + options.max_tokens
    /\ WindowEnd(options, tokens, start_token_idx) # Len(tokens) =>
         NextStart(options, tokens, start_token_idx) = start_token_idx + Stride(options)

(* Neither wraps around std::size_t in a reachable state, not even for      *)
(* max_tokens = SIZE_MAX.                                                   *)
THEOREM WindowArithmeticNeverWraps == StreamSpec => []SumsNeverWrap
<1>1. StreamInv => SumsNeverWrap
  <2> SUFFICES ASSUME StreamInv,
                      phase \in {"ready", "emitting"}, start_token_idx < Len(tokens)
               PROVE  /\ (start_token_idx + options.max_tokens) % SizeModulus
                           = start_token_idx + options.max_tokens
                      /\ WindowEnd(options, tokens, start_token_idx) # Len(tokens) =>
                           NextStart(options, tokens, start_token_idx)
                             = start_token_idx + Stride(options)
    BY DEF SumsNeverWrap
  <2>1. /\ options \in Option /\ ValidOption(options)
        /\ tokens \in Seq(Token) /\ FitsMemory(tokens)
        /\ start_token_idx \in Nat /\ Len(delivered) \in Nat
    BY InputAssumption, OptionAssumption, ModulusAssumption
       DEF StreamInv, StreamTypeOK, OnlyValidSizes, SizeT
  <2>2. AtWindow(options, tokens, Len(delivered), start_token_idx)
    BY DEF StreamInv, AtNextWindow
  <2>3. (start_token_idx + options.max_tokens) % SizeModulus
          = start_token_idx + options.max_tokens
    BY <2>1, <2>2, NoWrapAround
  <2>4. ASSUME WindowEnd(options, tokens, start_token_idx) # Len(tokens)
        PROVE  NextStart(options, tokens, start_token_idx) = start_token_idx + Stride(options)
    <3>1. /\ WindowEnd(options, tokens, start_token_idx) = start_token_idx + options.max_tokens
          /\ NextStart(options, tokens, start_token_idx)
               = WindowEnd(options, tokens, start_token_idx) - options.overlap_tokens
      BY <2>1, <2>2, <2>4, WindowStep
    <3> QED
      BY <2>1, <3>1, StrideType
  <2> QED
    BY <2>3, <2>4
<1> QED
  BY <1>1, StreamInvariant, PTL

(* next() delivers a prefix of the closed-form windows, for every input and *)
(* every pair of sizes, whatever the token's owner does.                    *)
THEOREM StreamFollowsReference == StreamSpec => []DeliveredFollowsReference
<1>1. StreamInv => DeliveredFollowsReference
  BY DEF StreamInv
<1> QED
  BY <1>1, StreamInvariant, PTL

(* At end of stream every token has been delivered, with exactly            *)
(* overlap_tokens between neighbours and no chunk inside another.           *)
THEOREM StreamIsComplete == StreamSpec => []EndMeansEverythingDelivered
<1>1. StreamInv => EndMeansEverythingDelivered
  BY DEF StreamInv, ReturnsAreHonest, FrontierKnown, CoveredToFrontier,
         ExactOverlap, EndMeansEverythingDelivered
<1> QED
  BY <1>1, StreamInvariant, PTL

(* A cancellation that next() has reported is final: no chunk and no end of *)
(* stream follows it, even if the token is reset.                           *)
THEOREM StreamCancellationIsFinal == StreamSpec => CancellationIsFinal
<1>1. StreamInv /\ [StreamNext]_stream_vars =>
        (returned = "cancelled" => returned' = "cancelled" /\ delivered' = delivered)
  <2> SUFFICES ASSUME StreamInv, [StreamNext]_stream_vars, returned = "cancelled"
               PROVE  returned' = "cancelled" /\ delivered' = delivered
    OBVIOUS
  <2>1. is_cancelled /\ phase = "ready"
    BY DEF StreamInv, ReturnsAreHonest
  <2> QED
    BY <2>1
    DEF StreamNext, CallNext, TokenHolder, StreamBuffer, NextCancelled, BeginNext,
        NextEnd, NextChunk, CancelStream, RequestCancel, ResetToken, stream_vars
<1> QED
  BY <1>1, StreamInvariant, PTL DEF StreamSpec, CancellationIsFinal

-----------------------------------------------------------------------------
(* chunk_buffer.                                                            *)

(* While the call runs nobody but the token has cancelled it, and results   *)
(* are the chunks delivered, without their diagnostics.                     *)
ResultsFollowDeliveries ==
  Running =>
    /\ ~ is_cancelled
    /\ results = [k \in 1 .. Len(delivered) |-> Plain(delivered[k])]

BufferInv ==
  /\ StreamInv
  /\ EndCounted
  /\ operation = "stream_buffer" => outcome = Contract!Pending
  /\ ResultsFollowDeliveries

(* What chunk_buffer does with the stream are steps of the stream.          *)
LEMMA BufferStepIsStreamStep ==
  ASSUME [BufferNext]_buffer_vars
  PROVE  [StreamNext]_stream_vars
BY DEF BufferNext, CallerThread, StreamCaller, OtherThread, OpenStream, BeginPull,
       PullCancelled, PullEnd, PullChunk, StreamNext, CallNext, buffer_vars, stream_vars

(* Every step of a chunking call keeps its invariant.                       *)
LEMMA BufferStep ==
  ASSUME BufferInv, [BufferNext]_buffer_vars
  PROVE  BufferInv'
<1>1. StreamInv' /\ EndCounted'
  BY BufferStepIsStreamStep, StreamStep, CountedStep DEF BufferInv
<1>2. operation' = operation
  BY DEF BufferNext, CallerThread, StreamCaller, OtherThread, OpenStream, BeginPull,
         PullCancelled, PullEnd, PullChunk, buffer_vars
<1>3. (operation = "stream_buffer" => outcome = Contract!Pending)'
  BY <1>2 DEF BufferInv, BufferNext, CallerThread, StreamCaller, OtherThread, OpenStream,
              BeginPull, PullCancelled, PullEnd, PullChunk, buffer_vars, Running
<1>4. ResultsFollowDeliveries'
  <2> SUFFICES ASSUME Running'
               PROVE  /\ ~ is_cancelled'
                      /\ results' = [k \in 1 .. Len(delivered') |-> Plain(delivered'[k])]
    BY DEF ResultsFollowDeliveries
  <2>1. Running
    BY <1>2 DEF Running, BufferNext, CallerThread, StreamCaller, OtherThread, OpenStream,
                BeginPull, PullCancelled, PullEnd, PullChunk, buffer_vars
  <2>2. ~ is_cancelled /\ results = [k \in 1 .. Len(delivered) |-> Plain(delivered[k])]
    BY <2>1 DEF BufferInv, ResultsFollowDeliveries
  <2>3. CASE PullChunk
    <3>1. /\ delivered \in Seq(Chunk) /\ Len(delivered) \in Nat
          /\ delivered' \in Seq(Chunk)
      BY <1>1 DEF BufferInv, StreamInv, StreamTypeOK
    <3>2. PICK c \in Chunk : delivered' = Append(delivered, c)
      BY <2>3, ChunkStep DEF PullChunk, BufferInv
    <3>3. /\ Len(delivered') = Len(delivered) + 1
          /\ \A k \in 1 .. Len(delivered) : delivered'[k] = delivered[k]
      BY <3>1, <3>2
    <3>4. results' = Append(results, Plain(delivered'[Len(delivered')]))
          /\ is_cancelled' = is_cancelled
      BY <2>3 DEF PullChunk, NextChunk
    <3> DEFINE r == [k \in 1 .. Len(delivered') |-> Plain(delivered'[k])]
    <3>5. results' = r
      <4> DEFINE last == Plain(delivered'[Len(delivered')])
      <4> HIDE DEF last
      <4>1. results' = [k \in 1 .. Len(delivered) + 1 |->
                          IF k = Len(delivered) + 1 THEN last ELSE results[k]]
        BY <2>2, <3>1, <3>4 DEF last
      <4> QED
        BY <2>2, <3>1, <3>3, <4>1 DEF last
    <3> QED
      BY <2>2, <3>4, <3>5
  <2>4. CASE ~ PullChunk
    <3>1. UNCHANGED <<is_cancelled, delivered, results>>
      <4>1. ~ PullCancelled /\ ~ PullEnd
        BY DEF Running, PullCancelled, PullEnd, Contract!Failed, Contract!Succeeded,
               Contract!Pending
      <4>2. ~ StreamCaller
        BY <2>1 DEF StreamCaller, Running
      <4> QED
        BY <2>4, <4>1, <4>2
           DEF BufferNext, CallerThread, OtherThread, OpenStream, BeginPull,
               StreamBuffer, BeginNext, TokenHolder, RequestCancel, ResetToken, buffer_vars
    <3> QED
      BY <2>2, <3>1
  <2> QED
    BY <2>3, <2>4
<1> QED
  BY <1>1, <1>3, <1>4 DEF BufferInv

(* The chunks that chunk_buffer has collected are those its stream gave,    *)
(* and its answer is made of them, through any interleaving with the token. *)
(* Code: lines 146-192 of src/core/chunker.cpp.                             *)
THEOREM BufferInvariant == BufferSpec => []BufferInv
<1>1. BufferInit => BufferInv
  <2> SUFFICES ASSUME BufferInit PROVE BufferInv
    OBVIOUS
  <2>1. FreshStream
    BY DEF BufferInit, StreamInit, FreshStream
  <2>2. StreamInv /\ EndCounted
    BY <2>1, StreamInitially, CountedInitially
  <2>3. ResultsFollowDeliveries
    BY DEF BufferInit, StreamInit, ResultsFollowDeliveries
  <2> QED
    BY <2>2, <2>3 DEF BufferInit, BufferInv
<1> QED
  BY <1>1, BufferStep, PTL DEF BufferSpec

(* The contract's copies of the window's operators are the module's own,    *)
(* so its answer is the closed form.                                        *)
LEMMA ContractAnswer ==
  /\ Contract!ValidOption(options) = ValidOption(options)
  /\ Contract!Answer = [k \in 1 .. WindowCount(options, Len(tokens)) |->
                           Plain(RefChunk(options, tokens, k - 1))]
<1>1. \A o : Contract!ValidOption(o) = ValidOption(o)
  BY DEF Contract!ValidOption, ValidOption
<1>2. \A o : Contract!Stride(o) = Stride(o)
  BY DEF Contract!Stride, Stride
<1>3. \A a, b : Contract!LesserOf(a, b) = LesserOf(a, b)
  BY DEF Contract!LesserOf, LesserOf
<1>4. \A o, n : Contract!WindowCount(o, n) = WindowCount(o, n)
  BY <1>2 DEF Contract!WindowCount, WindowCount
<1>5. \A o, k : Contract!RefFirst(o, k) = RefFirst(o, k)
  BY <1>2 DEF Contract!RefFirst, RefFirst
<1>6. \A o, n, k : Contract!RefLast(o, n, k) = RefLast(o, n, k)
  BY <1>3, <1>5 DEF Contract!RefLast, RefLast
<1>7. \A t, i : Contract!TokenAt(t, i) = TokenAt(t, i)
  BY DEF Contract!TokenAt, TokenAt
<1>8. \A t : Contract!ByteLength(t) = ByteLength(t)
  BY DEF Contract!ByteLength, ByteLength
<1>9. \A k : Contract!RefChunk(options, tokens, k) = RefChunk(options, tokens, k)
  BY <1>5, <1>6, <1>7, <1>8
     DEF Contract!RefChunk, RefChunk, Contract!ChunkAt, ChunkAt
<1>10. \A c : Contract!Plain(c) = Plain(c)
  BY DEF Contract!Plain, Plain
<1> QED
  BY <1>1, <1>4, <1>9, <1>10 DEF Contract!Answer, Contract!AllChunks

(* What the call has collected when the stream ends is the answer.          *)
LEMMA CollectedIsAnswer ==
  ASSUME BufferInv, Running, NextEnd
  PROVE  results = Contract!Answer /\ ValidOption(options)
<1> DEFINE n == WindowCount(options, Len(tokens))
<1>1. ValidOption(options)
  BY DEF BufferInv, StreamInv, OnlyValidSizes, NextEnd
<1>2. Len(delivered) = n
  <2>1. start_token_idx \in Nat /\ Len(tokens) \in Nat
    BY InputFacts DEF BufferInv, StreamInv, StreamTypeOK, SizeT
  <2>2. start_token_idx = Len(tokens)
    BY <2>1 DEF BufferInv, StreamInv, AtNextWindow, NextEnd
  <2> QED
    BY <1>1, <2>2 DEF BufferInv, EndCounted
<1>3. results = [k \in 1 .. n |-> Plain(delivered[k])]
  BY <1>2 DEF BufferInv, ResultsFollowDeliveries
<1>4. \A k \in 1 .. n : delivered[k] = RefChunk(options, tokens, k - 1)
  BY <1>2 DEF BufferInv, StreamInv, DeliveredFollowsReference
<1> HIDE DEF n
<1>5. results = [k \in 1 .. n |-> Plain(RefChunk(options, tokens, k - 1))]
  BY <1>3, <1>4
<1> QED
  BY <1>1, <1>5, ContractAnswer DEF n

(* A step of the call, seen through its arguments, the token and what it    *)
(* has returned, is one of the contract's or leaves all of them alone.      *)
LEMMA BufferStepRefines ==
  ASSUME BufferInv, [BufferNext]_buffer_vars
  PROVE  [Contract!ContractNext]_(Contract!contract_vars)
<1> USE DEF arguments
<1>1. CASE OpenStream
  <2>1. /\ outcome = Contract!Pending /\ StreamBuffer
        /\ UNCHANGED <<options, tokens, cancel_token>>
        /\ outcome' = IF phase' = "rejected" THEN Contract!Failed(returned') ELSE outcome
    BY <1>1 DEF OpenStream, Running, StreamBuffer
  <2>2. CASE phase' = "rejected"
    BY <2>1, <2>2, ContractAnswer
       DEF StreamBuffer, Rejected, Contract!ContractNext, Contract!Refuse, Contract!Return
  <2>3. CASE phase' # "rejected"
    BY <2>1, <2>3 DEF Contract!contract_vars
  <2> QED
    BY <2>2, <2>3
<1>2. CASE PullCancelled
  <2>1. /\ Running /\ UNCHANGED <<options, tokens, cancel_token>>
        /\ is_cancelled \/ cancel_token
        /\ outcome' = Contract!Failed("cancelled")
    BY <1>2 DEF PullCancelled, NextCancelled
  <2>2. cancel_token /\ outcome = Contract!Pending
    BY <2>1 DEF BufferInv, ResultsFollowDeliveries, Running
  <2> QED
    BY <2>1, <2>2 DEF Contract!ContractNext, Contract!Cancelled, Contract!Return
<1>3. CASE PullEnd
  <2>1. /\ Running /\ NextEnd /\ UNCHANGED <<options, tokens, cancel_token>>
        /\ outcome' = Contract!Succeeded(results)
    BY <1>3 DEF PullEnd, NextEnd
  <2>2. results = Contract!Answer /\ Contract!ValidOption(options)
    BY <2>1, CollectedIsAnswer, ContractAnswer
  <2> QED
    BY <2>1, <2>2
       DEF Running, Contract!ContractNext, Contract!Succeed, Contract!Return
<1>4. CASE OtherThread
  <2>1. UNCHANGED <<options, tokens, outcome>> /\ cancel_token' \in BOOLEAN
    BY <1>4 DEF OtherThread, TokenHolder, RequestCancel, ResetToken
  <2> QED
    BY <2>1 DEF Contract!ContractNext, Contract!TokenChanges
<1>5. CASE BeginPull \/ PullChunk \/ StreamCaller \/ UNCHANGED buffer_vars
  <2>1. UNCHANGED <<options, tokens, cancel_token, outcome>>
    BY <1>5 DEF BeginPull, BeginNext, PullChunk, NextChunk, StreamCaller, StreamBuffer,
                CallNext, NextCancelled, NextEnd, CancelStream, buffer_vars
  <2> QED
    BY <2>1 DEF Contract!contract_vars
<1> QED
  BY <1>1, <1>2, <1>3, <1>4, <1>5 DEF BufferNext, CallerThread

(* chunk_buffer returns every window of the closed form in order, or one    *)
(* error and nothing, and reports a cancellation only while the token is    *)
(* set.                                                                     *)
(* Code: the loop of lines 161-192 of src/core/chunker.cpp.                 *)
THEOREM BufferRefinesContract == BufferSpec => BufferImplementsContract
<1>1. BufferInit => Contract!ContractInit
  BY DEF BufferInit, StreamInit, Contract!ContractInit
<1>2. BufferInv /\ [BufferNext]_buffer_vars
        => [Contract!ContractNext]_(Contract!contract_vars)
  BY BufferStepRefines
<1> QED
  BY <1>1, <1>2, BufferInvariant, PTL
     DEF BufferSpec, BufferImplementsContract, Contract!ContractSpec

-----------------------------------------------------------------------------
(* NdjsonExporter.                                                          *)

Line == [chunk : {Plain(RefChunk(options, tokens, k)) : k \in Nat}, whole : BOOLEAN]

ExporterShape ==
  /\ policy \in Policies
  /\ source \in {"stream", "vector"}
  /\ at \in {"loop", "pulling", "writing", "returned"}
  /\ index \in Nat
  /\ attempt \in Nat /\ attempt < Attempts
  /\ delay \in SizeT
  /\ sleeps \in Seq(SizeT)
  /\ output \in Seq(Line)
  /\ ValidOption(options)

(* index is the number of whole lines, and the chunk being written is the   *)
(* one of that number.                                                      *)
IndexCountsLines ==
  /\ WholeLines(Len(output)) = index
  /\ at = "writing" => chunk = Plain(RefChunk(options, tokens, index))
  /\ at \in {"loop", "pulling"} /\ output # <<>> => output[Len(output)].whole

(* A stream has delivered what is written and the chunk in hand; a vector   *)
(* is not exceeded.                                                         *)
IndexFollowsSource ==
  /\ at = "pulling" => source = "stream"
  /\ source = "stream" =>
       /\ at \in {"loop", "pulling"} => Len(delivered) = index
       /\ at = "writing" => Len(delivered) = index + 1
  /\ source = "vector" =>
       /\ index <= WindowCount(options, Len(tokens))
       /\ at = "writing" => index < WindowCount(options, Len(tokens))

(* The limits for which the delays are said to grow within them.            *)
LimitsFit ==
  policy.initial_delay_ms <= policy.max_delay_ms /\ 2 * policy.max_delay_ms < SizeModulus

(* The next delay is within the limit and not below the last one slept for. *)
NextDelayFits ==
  LimitsFit =>
    /\ delay <= policy.max_delay_ms
    /\ sleeps # <<>> => sleeps[Len(sleeps)] <= delay
    /\ Len(sleeps) <= attempt

ExporterInv ==
  /\ StreamInv
  /\ EndCounted
  /\ ExporterShape
  /\ at # "returned" => result = Pending
  /\ IndexCountsLines
  /\ IndexFollowsSource
  /\ OutputFollowsReference
  /\ ResultMatchesOutput
  /\ NextDelayFits
  /\ DelaysGrowWithinLimit

(* The numbers of a retry policy.                                           *)
LEMMA PolicyFacts ==
  ASSUME policy \in Policies
  PROVE  /\ policy.max_attempts \in Nat /\ Attempts \in Nat \ {0}
         /\ policy.initial_delay_ms \in SizeT /\ policy.initial_delay_ms \in Nat
         /\ policy.max_delay_ms \in SizeT /\ policy.max_delay_ms \in Nat
BY PolicyAssumption DEF Attempts, SizeT

(* The lines counted in a prefix of the output are counted in a longer one. *)
LEMMA WholeLinesOfAppended ==
  ASSUME output \in Seq(Line), NEW line \in Line, output' = Append(output, line)
  PROVE  /\ \A n \in 0 .. Len(output) : WholeLines(n)' = WholeLines(n)
         /\ WholeLines(Len(output)) \in Nat
         /\ WholeLines(Len(output))' =
              WholeLines(Len(output)) + (IF line.whole THEN 1 ELSE 0)
<1> DEFINE l == Len(output)
           W == {k \in 1 .. l : output[k].whole}
<1>1. /\ l \in Nat /\ Len(output') = l + 1 /\ output'[l + 1] = line
      /\ \A k \in 1 .. l : output'[k] = output[k]
  OBVIOUS
<1>2. ASSUME NEW n \in 0 .. l
      PROVE  {k \in 1 .. n : output'[k].whole} = {k \in 1 .. n : output[k].whole}
  BY <1>1
<1>3. IsFiniteSet(W) /\ Cardinality(W) \in Nat
  <2>1. IsFiniteSet(1 .. l) /\ W \in SUBSET (1 .. l)
    BY <1>1, FS_Interval
  <2> QED
    BY <2>1, FS_Subset, FS_CardinalityType
<1>4. {k \in 1 .. l + 1 : output'[k].whole} = IF line.whole THEN W \cup {l + 1} ELSE W
  BY <1>1
<1>5. Cardinality(W \cup {l + 1}) = Cardinality(W) + 1
  <2>1. l + 1 \notin W
    BY <1>1
  <2> QED
    BY <1>3, <2>1, FS_AddElement
<1> HIDE DEF W
<1>6. Cardinality({k \in 1 .. l + 1 : output'[k].whole}) =
        Cardinality(W) + (IF line.whole THEN 1 ELSE 0)
  <2>1. CASE line.whole
    BY <1>3, <1>4, <1>5, <2>1
  <2>2. CASE ~ line.whole
    <3>1. {k \in 1 .. l + 1 : output'[k].whole} = W
      BY <1>4, <2>2
    <3>2. Cardinality(W) + 0 = Cardinality(W)
      BY <1>3
    <3> QED
      BY <2>2, <3>1, <3>2
  <2> QED
    BY <2>1, <2>2
<1>7. WholeLines(l) = Cardinality(W)
  BY DEF WholeLines, W
<1>8. WholeLines(Len(output))' = Cardinality({k \in 1 .. l + 1 : output'[k].whole})
  BY <1>1 DEF WholeLines
<1>9. \A n \in 0 .. l : WholeLines(n)' = WholeLines(n)
  BY <1>2 DEF WholeLines
<1> QED
  BY <1>3, <1>6, <1>7, <1>8, <1>9

(* Whatever a write leaves in the output, whole or torn, is the line of the *)
(* chunk whose turn it is.                                                  *)
LEMMA WriteFollowsReference ==
  ASSUME ExporterInv, at = "writing", NEW whole \in BOOLEAN, UNCHANGED <<options, tokens>>,
         output' = Append(output, [chunk |-> chunk, whole |-> whole])
  PROVE  /\ output' \in Seq(Line')
         /\ OutputFollowsReference'
         /\ WholeLines(Len(output))' = index + (IF whole THEN 1 ELSE 0)
         /\ output'[Len(output')].whole = whole
<1> DEFINE l == Len(output)
           line == [chunk |-> chunk, whole |-> whole]
<1>1. /\ output \in Seq(Line) /\ index \in Nat
      /\ WholeLines(l) = index /\ chunk = Plain(RefChunk(options, tokens, index))
  BY DEF ExporterInv, ExporterShape, IndexCountsLines
<1>2. line \in Line /\ line.whole = whole /\ line.chunk = chunk
  BY <1>1 DEF Line
<1> HIDE DEF line
<1>3. /\ l \in Nat /\ Len(output') = l + 1 /\ output'[l + 1] = line
      /\ \A k \in 1 .. l : output'[k] = output[k]
      /\ output' \in Seq(Line)
  BY <1>1, <1>2 DEF line
<1>4. /\ \A n \in 0 .. l : WholeLines(n)' = WholeLines(n)
      /\ WholeLines(Len(output))' = WholeLines(l) + (IF whole THEN 1 ELSE 0)
  BY <1>1, <1>2, WholeLinesOfAppended DEF line
<1>5. Line' = Line
  BY DEF Line
<1>6. OutputFollowsReference'
  <2> SUFFICES ASSUME NEW k \in 1 .. l + 1
               PROVE  output'[k].chunk = Plain(RefChunk(options, tokens, WholeLines(k - 1)'))
    BY <1>3 DEF OutputFollowsReference
  <2>1. k - 1 \in 0 .. l /\ WholeLines(k - 1)' = WholeLines(k - 1)
    BY <1>3, <1>4
  <2>2. CASE k = l + 1
    <3>1. k - 1 = l
      BY <1>3, <2>2
    <3> QED
      BY <1>1, <1>2, <1>3, <2>1, <2>2, <3>1
  <2>3. CASE k # l + 1
    <3>1. k \in 1 .. l
      BY <1>3, <2>3
    <3> QED
      BY <1>3, <2>1, <3>1 DEF ExporterInv, OutputFollowsReference
  <2> QED
    BY <2>2, <2>3
<1> QED
  BY <1>1, <1>2, <1>3, <1>4, <1>5, <1>6

(* What is said of the output depends on the request and the output alone.  *)
LEMMA LinesKept ==
  ASSUME ExporterInv, UNCHANGED <<options, tokens, output>>
  PROVE  /\ output' \in Seq(Line')
         /\ OutputFollowsReference'
         /\ WholeLines(Len(output))' = WholeLines(Len(output))
<1>1. Line' = Line /\ \A n : WholeLines(n)' = WholeLines(n)
  BY DEF Line, WholeLines
<1>2. WholeLines(Len(output))' = WholeLines(Len(output))
  BY DEF WholeLines
<1> QED
  BY <1>1, <1>2 DEF ExporterInv, ExporterShape, OutputFollowsReference

(* What is said of the delays depends on the policy and the retries alone.  *)
LEMMA DelaysKept ==
  ASSUME ExporterInv, UNCHANGED <<policy, attempt, delay, sleeps>>
  PROVE  NextDelayFits' /\ DelaysGrowWithinLimit'
BY DEF ExporterInv, NextDelayFits, DelaysGrowWithinLimit, LimitsFit, Attempts

(* The token changes, or the exporting thread goes on to next().            *)
LEMMA ReadyStep ==
  ASSUME ExporterInv, StreamInv', EndCounted',
         UNCHANGED <<options, tokens, delivered, policy, source, index, chunk, attempt,
                     delay, sleeps, output, result>>,
         \/ at' = at
         \/ at = "loop" /\ at' = "pulling" /\ source = "stream"
  PROVE  ExporterInv'
<1>1. NextDelayFits' /\ DelaysGrowWithinLimit'
  BY DelaysKept
<1>2. /\ output' \in Seq(Line') /\ OutputFollowsReference'
      /\ WholeLines(Len(output))' = WholeLines(Len(output))
  BY LinesKept
<1>3. ExporterShape' /\ (at # "returned" => result = Pending)'
  BY <1>2 DEF ExporterInv, ExporterShape, Attempts
<1>4. IndexCountsLines' /\ IndexFollowsSource' /\ ResultMatchesOutput'
  BY <1>2 DEF ExporterInv, IndexCountsLines, IndexFollowsSource, ResultMatchesOutput
<1> QED
  BY <1>1, <1>2, <1>3, <1>4 DEF ExporterInv

(* The call ends between two chunks.                                        *)
LEMMA ReturnStep ==
  ASSUME ExporterInv, StreamInv', EndCounted',
         UNCHANGED <<options, tokens, policy, source, index, chunk, attempt,
                     delay, sleeps, output>>,
         at \in {"loop", "pulling"}, NEW status, Return(status, 0),
         \/ status = "ok" /\ index = WindowCount(options, Len(tokens))
         \/ status = "cancelled"
  PROVE  ExporterInv'
<1>0. at' = "returned" /\ result'.status = status
  BY DEF Return
<1>1. NextDelayFits' /\ DelaysGrowWithinLimit'
  BY DelaysKept
<1>2. /\ output' \in Seq(Line') /\ OutputFollowsReference'
      /\ WholeLines(Len(output))' = WholeLines(Len(output))
  BY LinesKept
<1>3. ExporterShape'
  BY <1>0, <1>2 DEF ExporterInv, ExporterShape, Attempts
<1>4. IndexCountsLines' /\ IndexFollowsSource' /\ ResultMatchesOutput'
  BY <1>0, <1>2 DEF ExporterInv, IndexCountsLines, IndexFollowsSource, ResultMatchesOutput
<1> QED
  BY <1>0, <1>1, <1>2, <1>3, <1>4 DEF ExporterInv

(* The next chunk is taken, from the stream or from the vector.             *)
LEMMA StartStep ==
  ASSUME ExporterInv, StreamInv', EndCounted',
         UNCHANGED <<options, tokens, policy, source, index, output, result>>,
         at \in {"loop", "pulling"}, StartWriting(Plain(RefChunk(options, tokens, index))),
         source = "stream" => Len(delivered') = index + 1,
         source = "vector" => index < WindowCount(options, Len(tokens))
  PROVE  ExporterInv'
<1>0. /\ at' = "writing" /\ chunk' = Plain(RefChunk(options, tokens, index))
      /\ attempt' = 0 /\ delay' = policy.initial_delay_ms /\ sleeps' = <<>>
  BY DEF StartWriting
<1>1. /\ policy.initial_delay_ms \in SizeT /\ Attempts \in Nat \ {0} /\ Attempts' = Attempts
      /\ policy \in Policies
  BY PolicyFacts DEF ExporterInv, ExporterShape, Attempts
<1>2. /\ output' \in Seq(Line') /\ OutputFollowsReference'
      /\ WholeLines(Len(output))' = WholeLines(Len(output))
  BY LinesKept
<1>3. ExporterShape' /\ (at # "returned" => result = Pending)'
  BY <1>0, <1>1, <1>2 DEF ExporterInv, ExporterShape
<1>4. NextDelayFits' /\ DelaysGrowWithinLimit'
  BY <1>0, <1>1 DEF NextDelayFits, DelaysGrowWithinLimit, LimitsFit
<1>5. IndexCountsLines' /\ IndexFollowsSource'
  BY <1>0, <1>2 DEF ExporterInv, IndexCountsLines, IndexFollowsSource
<1>6. ResultMatchesOutput'
  BY <1>2 DEF ExporterInv, ResultMatchesOutput
<1> QED
  BY <1>2, <1>3, <1>4, <1>5, <1>6 DEF ExporterInv

(* A whole line is that of the next window.                                 *)
LEMMA WriteLineStep ==
  ASSUME ExporterInv, StreamInv', EndCounted', WriteLine
  PROVE  ExporterInv'
<1>0. /\ at = "writing" /\ at' = "loop" /\ index' = index + 1
      /\ UNCHANGED <<options, tokens, delivered, policy, source, attempt, delay, sleeps,
                     result>>
      /\ output' = Append(output, [chunk |-> chunk, whole |-> TRUE])
  BY DEF WriteLine, stream_vars, call, retries
<1>1. NextDelayFits' /\ DelaysGrowWithinLimit'
  BY <1>0, DelaysKept
<1>2. /\ output' \in Seq(Line') /\ OutputFollowsReference'
      /\ WholeLines(Len(output))' = index + 1
      /\ output'[Len(output')].whole
  BY <1>0, WriteFollowsReference
<1>3. index \in Nat /\ Len(tokens) \in Nat /\ options \in Option /\ ValidOption(options)
  BY InputFacts DEF ExporterInv, ExporterShape, StreamInv
<1>4. WindowCount(options, Len(tokens)) \in Nat
  BY <1>3, WindowCountType
<1>5. ExporterShape' /\ (at # "returned" => result = Pending)'
  BY <1>0, <1>2, <1>3 DEF ExporterInv, ExporterShape, Attempts
<1>6. IndexCountsLines'
  BY <1>0, <1>2 DEF IndexCountsLines
<1>7. IndexFollowsSource'
  BY <1>0, <1>3, <1>4 DEF ExporterInv, IndexFollowsSource
<1>8. ResultMatchesOutput'
  BY <1>5, <1>0 DEF ResultMatchesOutput, Pending
<1> QED
  BY <1>1, <1>2, <1>5, <1>6, <1>7, <1>8 DEF ExporterInv

(* A failed write leaves the output as it was or with a torn line of the    *)
(* chunk in hand.                                                           *)
LEMMA TornKeepsLines ==
  ASSUME ExporterInv, at = "writing", NEW torn \in BOOLEAN, Leaves(torn),
         UNCHANGED <<options, tokens>>
  PROVE  /\ output' \in Seq(Line')
         /\ OutputFollowsReference'
         /\ WholeLines(Len(output))' = index
<1>1. index \in Nat /\ WholeLines(Len(output)) = index
  BY DEF ExporterInv, ExporterShape, IndexCountsLines
<1>2. CASE torn
  <2>1. output' = Append(output, [chunk |-> chunk, whole |-> FALSE])
    BY <1>2 DEF Leaves
  <2>2. WholeLines(Len(output))' = index + (IF FALSE THEN 1 ELSE 0)
    BY <2>1, WriteFollowsReference
  <2>3. output' \in Seq(Line') /\ OutputFollowsReference'
    BY <2>1, WriteFollowsReference
  <2> QED
    BY <1>1, <2>2, <2>3
<1>3. CASE ~ torn
  BY <1>1, <1>3, LinesKept DEF Leaves
<1> QED
  BY <1>2, <1>3

(* The delay doubles without wrapping around, so it does not shrink.        *)
LEMMA NextDelayGrows ==
  ASSUME policy \in Policies, delay \in SizeT, LimitsFit, delay <= policy.max_delay_ms
  PROVE  delay <= NextDelay /\ NextDelay <= policy.max_delay_ms
<1>1. /\ policy.max_delay_ms \in Nat /\ delay \in Nat /\ SizeModulus \in Nat \ {0}
      /\ 2 * policy.max_delay_ms < SizeModulus
  BY PolicyFacts, ModulusAssumption DEF LimitsFit, SizeT
<1>2. delay * 2 \in Nat /\ delay * 2 < SizeModulus
  BY <1>1
<1>3. (delay * 2) % SizeModulus = delay * 2
  <2> DEFINE x == delay * 2
  <2> HIDE DEF x
  <2>1. x \in Nat /\ x < SizeModulus
    BY <1>2 DEF x
  <2>2. x % SizeModulus = x
    BY <1>1, <2>1, ModSmall
  <2> QED
    BY <2>2 DEF x
<1> QED
  BY <1>1, <1>2, <1>3 DEF NextDelay, LesserOf

(* A doubled delay stays in its type.                                       *)
LEMMA NextDelayType ==
  ASSUME policy \in Policies, delay \in SizeT
  PROVE  NextDelay \in SizeT
<1>1. (delay * 2) % SizeModulus \in SizeT
  BY ModulusAssumption DEF SizeT
<1> QED
  BY <1>1, PolicyFacts DEF NextDelay, LesserOf

(* A failed write that is repeated leaves at most a torn line.              *)
LEMMA RetryStep ==
  ASSUME ExporterInv, StreamInv', EndCounted', NEW torn \in BOOLEAN, Retry(torn)
  PROVE  ExporterInv'
<1>0. /\ at = "writing" /\ at' = at /\ index' = index /\ chunk' = chunk
      /\ UNCHANGED <<options, tokens, delivered, policy, source, result>>
      /\ Leaves(torn) /\ attempt' = attempt + 1 /\ attempt + 1 < Attempts
  BY DEF Retry, stream_vars, call
<1>1. /\ policy \in Policies /\ attempt \in Nat /\ delay \in SizeT /\ sleeps \in Seq(SizeT)
      /\ Attempts' = Attempts /\ Attempts \in Nat
      /\ delay \in Nat /\ policy.max_delay_ms \in Nat
  BY <1>0, PolicyFacts DEF ExporterInv, ExporterShape, Attempts, SizeT
<1>2. /\ output' \in Seq(Line') /\ OutputFollowsReference'
      /\ WholeLines(Len(output))' = index
  BY <1>0, TornKeepsLines
<1>3. \/ delay # 0 /\ sleeps' = Append(sleeps, delay) /\ delay' = NextDelay
      \/ delay = 0 /\ sleeps' = sleeps /\ delay' = delay
  BY DEF Retry
<1>4. ExporterShape' /\ (at # "returned" => result = Pending)'
  <2>1. delay' \in SizeT /\ sleeps' \in Seq(SizeT)
    BY <1>1, <1>3, NextDelayType
  <2> QED
    BY <1>0, <1>1, <1>2, <2>1 DEF ExporterInv, ExporterShape
<1>5. IndexCountsLines' /\ IndexFollowsSource'
  BY <1>0, <1>2 DEF ExporterInv, IndexCountsLines, IndexFollowsSource
<1>6. ResultMatchesOutput'
  BY <1>0, <1>4 DEF ResultMatchesOutput, Pending
<1>7. NextDelayFits' /\ DelaysGrowWithinLimit'
  <2> SUFFICES ASSUME LimitsFit
               PROVE  /\ delay' <= policy.max_delay_ms
                      /\ sleeps' # <<>> => sleeps'[Len(sleeps')] <= delay'
                      /\ Len(sleeps') <= attempt'
                      /\ \A k \in 1 .. Len(sleeps') : sleeps'[k] <= policy.max_delay_ms
                      /\ \A k \in 1 .. Len(sleeps') - 1 : sleeps'[k] <= sleeps'[k + 1]
                      /\ Len(sleeps') < Attempts
    BY <1>0, <1>1 DEF NextDelayFits, DelaysGrowWithinLimit, LimitsFit
  <2>1. /\ delay <= policy.max_delay_ms
        /\ sleeps # <<>> => sleeps[Len(sleeps)] <= delay
        /\ Len(sleeps) <= attempt /\ Len(sleeps) \in Nat
        /\ \A k \in 1 .. Len(sleeps) : sleeps[k] <= policy.max_delay_ms
        /\ \A k \in 1 .. Len(sleeps) - 1 : sleeps[k] <= sleeps[k + 1]
        /\ Len(sleeps) < Attempts
    BY <1>1 DEF ExporterInv, NextDelayFits, DelaysGrowWithinLimit, LimitsFit
  <2>2. CASE delay # 0 /\ sleeps' = Append(sleeps, delay) /\ delay' = NextDelay
    <3> DEFINE l == Len(sleeps)
    <3>1. delay <= delay' /\ delay' <= policy.max_delay_ms
      BY <1>1, <2>1, <2>2, NextDelayGrows
    <3>2. /\ Len(sleeps') = l + 1 /\ sleeps'[l + 1] = delay
          /\ \A k \in 1 .. l : sleeps'[k] = sleeps[k]
      BY <1>1, <2>2
    <3>3. \A k \in 1 .. l + 1 : sleeps'[k] <= policy.max_delay_ms
      <4> SUFFICES ASSUME NEW k \in 1 .. l + 1 PROVE sleeps'[k] <= policy.max_delay_ms
        OBVIOUS
      <4>1. k = l + 1 \/ k \in 1 .. l
        BY <2>1
      <4> QED
        BY <2>1, <3>2, <4>1
    <3>4. \A k \in 1 .. l : sleeps'[k] <= sleeps'[k + 1]
      <4> SUFFICES ASSUME NEW k \in 1 .. l PROVE sleeps'[k] <= sleeps'[k + 1]
        OBVIOUS
      <4>1. CASE k = l
        <5>1. sleeps # <<>> /\ sleeps'[k] = sleeps[l] /\ sleeps'[k + 1] = delay
          BY <3>2, <4>1
        <5> QED
          BY <2>1, <5>1
      <4>2. CASE k # l
        <5>1. k \in 1 .. l - 1 /\ k + 1 \in 1 .. l
          BY <2>1, <4>2
        <5> QED
          BY <2>1, <3>2, <5>1
      <4> QED
        BY <4>1, <4>2
    <3>5. l + 1 <= attempt' /\ l + 1 < Attempts /\ (l + 1) - 1 = l
      BY <1>0, <1>1, <2>1
    <3>6. sleeps'[Len(sleeps')] <= delay'
      BY <3>1, <3>2
    <3> HIDE DEF l
    <3> QED
      BY <3>1, <3>2, <3>3, <3>4, <3>5, <3>6
  <2>3. CASE delay = 0 /\ sleeps' = sleeps /\ delay' = delay
    BY <1>0, <1>1, <2>1, <2>3
  <2> QED
    BY <1>3, <2>2, <2>3
<1> QED
  BY <1>2, <1>4, <1>5, <1>6, <1>7 DEF ExporterInv

(* The last failed write ends the call with its index.                      *)
LEMMA GiveUpStep ==
  ASSUME ExporterInv, StreamInv', EndCounted', NEW torn \in BOOLEAN, GiveUp(torn)
  PROVE  ExporterInv'
<1>0. /\ at = "writing" /\ at' = "returned" /\ index' = index
      /\ result' = [status |-> "export_failed", record_index |-> index]
      /\ UNCHANGED <<options, tokens, policy, source, attempt, delay, sleeps>>
      /\ Leaves(torn)
  BY DEF GiveUp, Return, stream_vars, call, retries
<1>1. NextDelayFits' /\ DelaysGrowWithinLimit'
  BY <1>0, DelaysKept
<1>2. /\ output' \in Seq(Line') /\ OutputFollowsReference'
      /\ WholeLines(Len(output))' = index
  BY <1>0, TornKeepsLines
<1>3. ExporterShape'
  BY <1>0, <1>2 DEF ExporterInv, ExporterShape, Attempts
<1>4. IndexCountsLines' /\ IndexFollowsSource' /\ ResultMatchesOutput'
  BY <1>0, <1>2 DEF ExporterInv, IndexCountsLines, IndexFollowsSource, ResultMatchesOutput
<1> QED
  BY <1>0, <1>1, <1>2, <1>3, <1>4 DEF ExporterInv

-----------------------------------------------------------------------------
(* What the exporter does with its stream are steps of the stream.          *)
LEMMA ExporterStepIsStreamStep ==
  ASSUME [ExporterNext]_exporter_vars
  PROVE  [StreamNext]_stream_vars
BY DEF ExporterNext, Exporting, ExportStream, ExportChunks, WriteWithRetry, TokenOwner,
       CheckToken, PullBegins, PullFails, PullEnds, PullsChunk, TakeChunk, NoMoreChunks,
       WriteLine, Retry, GiveUp, StreamNext, CallNext, exporter_vars, stream_vars

(* Every step of an export keeps its invariant.                             *)
LEMMA ExporterStep ==
  ASSUME ExporterInv, [ExporterNext]_exporter_vars
  PROVE  ExporterInv'
<1> DEFINE n == WindowCount(options, Len(tokens))
<1> USE DEF arguments, position, stream_vars, call, retries
<1>1. StreamInv' /\ EndCounted'
  BY ExporterStepIsStreamStep, StreamStep, CountedStep DEF ExporterInv
<1>2. /\ Len(Vector) = n
      /\ \A k \in 1 .. n : Vector[k] = RefChunk(options, tokens, k - 1)
  <2>1. n \in Nat
    BY InputFacts, WindowCountType DEF ExporterInv, ExporterShape, StreamInv
  <2> QED
    BY <2>1 DEF Vector, AllChunks
<1>3. index \in Nat /\ n \in Nat
  BY InputFacts, WindowCountType DEF ExporterInv, ExporterShape, StreamInv
<1>4. CASE CheckToken
  <2>1. /\ at = "loop" /\ source = "stream"
        /\ UNCHANGED <<options, tokens, delivered, policy, source, index, chunk, attempt,
                       delay, sleeps, output>>
    BY <1>4 DEF CheckToken
  <2>2. \/ Return("cancelled", 0)
        \/ at' = "pulling" /\ result' = result
    BY <1>4 DEF CheckToken
  <2> QED
    BY <1>1, <2>1, <2>2, ReadyStep, ReturnStep
<1>5. CASE PullBegins
  BY <1>1, <1>5, ReadyStep DEF PullBegins, BeginNext
<1>6. CASE PullFails
  BY <1>1, <1>6, ReturnStep DEF PullFails, NextCancelled
<1>7. CASE PullEnds
  <2>1. /\ at = "pulling" /\ NextEnd /\ Return("ok", 0)
        /\ UNCHANGED <<options, tokens, policy, source, index, chunk, attempt, delay, sleeps,
                       output>>
    BY <1>7 DEF PullEnds, NextEnd
  <2>2. Len(delivered) = n
    <3>1. start_token_idx \in Nat /\ Len(tokens) \in Nat
      BY InputFacts DEF ExporterInv, StreamInv, StreamTypeOK, SizeT
    <3>2. start_token_idx = Len(tokens) /\ ValidOption(options)
      BY <2>1, <3>1 DEF ExporterInv, ExporterShape, StreamInv, AtNextWindow, NextEnd
    <3> QED
      BY <3>2 DEF ExporterInv, EndCounted
  <2>3. Len(delivered) = index
    BY <2>1 DEF ExporterInv, IndexFollowsSource
  <2> QED
    BY <1>1, <2>1, <2>2, <2>3, ReturnStep
<1>8. CASE PullsChunk
  <2>1. /\ at = "pulling" /\ NextChunk /\ StartWriting(Plain(delivered'[Len(delivered')]))
        /\ UNCHANGED <<options, tokens, policy, source, index, output, result>>
    BY <1>8 DEF PullsChunk, NextChunk
  <2>2. source = "stream" /\ Len(delivered) = index
    BY <2>1 DEF ExporterInv, IndexFollowsSource
  <2>3. delivered \in Seq(Chunk)
    BY DEF ExporterInv, StreamInv, StreamTypeOK
  <2>4. /\ delivered' = Append(delivered, RefChunk(options, tokens, index))
        /\ RefChunk(options, tokens, index) \in Chunk
    BY <2>1, <2>2, ChunkStep DEF ExporterInv
  <2>5. Len(delivered') = index + 1 /\ delivered'[Len(delivered')] = RefChunk(options, tokens, index)
    BY <2>2, <2>3, <2>4
  <2> QED
    BY <1>1, <2>1, <2>2, <2>5, StartStep
<1>9. CASE TakeChunk
  <2>1. /\ at = "loop" /\ source = "vector" /\ index < n
        /\ StartWriting(Plain(Vector[index + 1]))
        /\ UNCHANGED <<options, tokens, policy, source, index, output, result>>
    BY <1>2, <1>9 DEF TakeChunk
  <2>2. Vector[index + 1] = RefChunk(options, tokens, index)
    <3>1. index + 1 \in 1 .. n /\ (index + 1) - 1 = index
      BY <1>3, <2>1
    <3> QED
      BY <1>2, <3>1
  <2> QED
    BY <1>1, <2>1, <2>2, StartStep
<1>10. CASE NoMoreChunks
  <2>1. /\ at = "loop" /\ source = "vector" /\ index >= n /\ Return("ok", 0)
        /\ UNCHANGED <<options, tokens, policy, source, index, chunk, attempt, delay, sleeps,
                       output>>
    BY <1>2, <1>10 DEF NoMoreChunks
  <2>2. index = n
    BY <1>3, <2>1 DEF ExporterInv, IndexFollowsSource
  <2> QED
    BY <1>1, <2>1, <2>2, ReturnStep
<1>11. CASE WriteLine
  BY <1>1, <1>11, WriteLineStep
<1>12. CASE \E torn \in BOOLEAN : Retry(torn) \/ GiveUp(torn)
  <2>1. PICK torn \in BOOLEAN : Retry(torn) \/ GiveUp(torn)
    BY <1>12
  <2>2. CASE Retry(torn)
    BY <1>1, <2>2, RetryStep
  <2>3. CASE GiveUp(torn)
    BY <1>1, <2>3, GiveUpStep
  <2> QED
    BY <2>1, <2>2, <2>3
<1>13. CASE TokenOwner \/ UNCHANGED exporter_vars
  BY <1>1, <1>13, ReadyStep
     DEF TokenOwner, TokenHolder, RequestCancel, ResetToken, exporter_vars
<1> QED
  BY <1>4, <1>5, <1>6, <1>7, <1>8, <1>9, <1>10, <1>11, <1>12, <1>13
     DEF ExporterNext, Exporting, ExportStream, ExportChunks, WriteWithRetry

(* An export begins with an empty output and a fresh stream.                *)
LEMMA ExporterInitially == ExporterInit => ExporterInv
<1> SUFFICES ASSUME ExporterInit PROVE ExporterInv
  OBVIOUS
<1>1. FreshStream
  BY DEF ExporterInit, FreshStream
<1>2. StreamInv /\ EndCounted
  BY <1>1, StreamInitially, CountedInitially
<1>3. policy.max_delay_ms \in Nat /\ Attempts \in Nat \ {0}
  BY PolicyFacts DEF ExporterInit
<1>4. ExporterShape
  <2>1. 0 \in SizeT
    BY ModulusAssumption DEF SizeT
  <2> QED
    BY <1>3, <2>1 DEF ExporterInit, ExporterShape
<1>5. WholeLines(Len(output)) = 0
  <2>1. {k \in 1 .. Len(output) : output[k].whole} = {}
    BY DEF ExporterInit
  <2> QED
    BY <2>1, FS_EmptySet DEF WholeLines
<1>6. IndexCountsLines
  BY <1>5 DEF ExporterInit, IndexCountsLines
<1>7. IndexFollowsSource
  <2>1. WindowCount(options, Len(tokens)) \in Nat
    BY <1>2, InputFacts, WindowCountType DEF StreamInv, ExporterInit
  <2> QED
    BY <2>1 DEF ExporterInit, IndexFollowsSource
<1>8. OutputFollowsReference /\ ResultMatchesOutput
  BY DEF ExporterInit, OutputFollowsReference, ResultMatchesOutput, Pending
<1>9. NextDelayFits /\ DelaysGrowWithinLimit
  BY <1>3 DEF ExporterInit, NextDelayFits, DelaysGrowWithinLimit
<1> QED
  BY <1>2, <1>4, <1>6, <1>7, <1>8, <1>9 DEF ExporterInit, ExporterInv

(* Output, index, chunk at hand and stream stay in step through every       *)
(* write, retry and cancellation.                                           *)
(* Code: include/fastchunk/ndjson_exporter.h.                               *)
THEOREM ExporterInvariant == ExporterSpec => []ExporterInv
<1> QED
  BY ExporterInitially, ExporterStep, PTL DEF ExporterSpec

(* The output is the windows of the input in order, each a whole line once, *)
(* and every torn line belongs to the chunk whose whole line comes next,    *)
(* whichever writes fail and wherever the token is set.                     *)
(* Code: lines 27-79 and 161-176 of include/fastchunk/ndjson_exporter.h.    *)
THEOREM ExporterFollowsReference == ExporterSpec => []OutputFollowsReference
<1>1. ExporterInv => OutputFollowsReference
  BY DEF ExporterInv
<1> QED
  BY <1>1, ExporterInvariant, PTL

(* What the call returns says how much it has written, for either of its    *)
(* two sources.                                                             *)
(* Code: lines 33-36, 47-55, 74-78 and 191-206 of                           *)
(* include/fastchunk/ndjson_exporter.h.                                     *)
THEOREM ExporterResultIsHonest == ExporterSpec => []ResultMatchesOutput
<1>1. ExporterInv => ResultMatchesOutput
  BY DEF ExporterInv
<1> QED
  BY <1>1, ExporterInvariant, PTL

(* For every policy that config.cpp accepts and that does not overflow, the *)
(* delays never shrink and never exceed the limit.                          *)
(* Code: lines 163-173 of include/fastchunk/ndjson_exporter.h.              *)
THEOREM ExporterDelaysGrow == ExporterSpec => []DelaysGrowWithinLimit
<1>1. ExporterInv => DelaysGrowWithinLimit
  BY DEF ExporterInv
<1> QED
  BY <1>1, ExporterInvariant, PTL

=============================================================================
