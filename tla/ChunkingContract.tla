-------------------------- MODULE ChunkingContract --------------------------
(***************************************************************************)
(* What a call that turns one buffer into a vector of chunks promises,     *)
(* however it computes it.  A call is made with some options and a         *)
(* tokenizer; it ends once, with every window of the input, or with an     *)
(* error and no chunk at all.  It may report a cancellation only while the *)
(* cancellation token is set.  A thread of the call may fail, which ends   *)
(* it without a chunk.  For the options in Unchecked a call promises       *)
(* nothing about its result.                                               *)
(***************************************************************************)
EXTENDS SlidingWindow

CONSTANTS Inputs, Options, Unchecked

VARIABLES options, tokens, cancel_token, outcome

contract_vars == <<options, tokens, cancel_token, outcome>>

Pending == [status |-> "pending", chunks |-> <<>>]
Failed(error) == [status |-> error, chunks |-> <<>>]
Succeeded(chunks) == [status |-> "ok", chunks |-> chunks]

(* The one correct answer: the windows of the closed form, in order.        *)
Answer ==
  LET all == AllChunks(options, tokens)
  IN [k \in 1 .. WindowCount(options, Len(tokens)) |-> Plain(all[k])]

ContractInit ==
  /\ options \in Options
  /\ tokens \in Inputs
  /\ cancel_token \in BOOLEAN
  /\ outcome = Pending

Return(result) ==
  /\ outcome = Pending
  /\ outcome' = result
  /\ UNCHANGED <<options, tokens, cancel_token>>

Succeed == ValidOption(options) /\ Return(Succeeded(Answer))

Refuse ==
  \/ options.max_tokens = 0 /\ Return(Failed("invalid_argument"))
  \/ /\ options.max_tokens # 0
     /\ options.overlap_tokens >= options.max_tokens
     /\ Return(Failed("invalid_configuration"))
  \/ ValidOption(options) /\ Return(Failed("tokenizer_error"))

ThreadFails == ValidOption(options) /\ Return(Failed("thread_failed"))

Cancelled == cancel_token /\ Return(Failed("cancelled"))

Unspecified ==
  /\ options \in Unchecked
  /\ outcome = Pending
  /\ outcome' # Pending
  /\ UNCHANGED <<options, tokens, cancel_token>>

TokenChanges ==
  /\ cancel_token' \in BOOLEAN
  /\ UNCHANGED <<options, tokens, outcome>>

ContractNext == Succeed \/ Refuse \/ ThreadFails \/ Cancelled \/ Unspecified \/ TokenChanges

ContractSpec == ContractInit /\ [][ContractNext]_contract_vars

=============================================================================
