----------------------------- MODULE MmapReader -----------------------------
(***************************************************************************)
(* MmapReader (src/io/mmap_reader.cpp), POSIX build: open takes a          *)
(* descriptor, a mapping and, in copy mode, a buffer; close gives them     *)
(* back.  Any step of open may fail.  The operating system is external:    *)
(* `os` holds the descriptors and mappings the process has taken for files *)
(* it reads.  A mapping shows the file's bytes; a file that changes while  *)
(* it is mapped is not modelled, nor are the move operations, which        *)
(* nothing in the repository calls.                                        *)
(***************************************************************************)
EXTENDS Utf8, FiniteSets

CONSTANTS Descriptors, Addresses   (* finite pools of positive numbers      *)

ASSUME PoolAssumption == Descriptors \cup Addresses \subseteq Nat \ {0}

VARIABLES
  reader,   (* mapped_data_, fd_, copied_buffer_; mapped_size_ is the size  *)
            (* of what mapped_data_ shows                                   *)
  os        (* descriptors: the open ones; mappings: bytes by address       *)

reader_vars == <<reader, os>>

Null == 0
NoDescriptor == -1
Nothing == [x \in {} |-> <<>>]

ClosedReader == [mapped_data |-> Null, fd |-> NoDescriptor, copied_buffer |-> <<>>]

ReaderInit ==
  /\ reader = ClosedReader
  /\ os = [descriptors |-> {}, mappings |-> Nothing]

Unmap(mappings, address) ==
  [a \in DOMAIN mappings \ {address} |-> mappings[a]]

(* close: the descriptor goes with the mapping; the copy always goes.       *)
Close(state) ==
  IF state.reader.mapped_data = Null
  THEN [state EXCEPT !.reader.copied_buffer = <<>>]
  ELSE [reader |-> ClosedReader,
        os |-> [descriptors |-> state.os.descriptors \ {state.reader.fd},
                mappings |-> Unmap(state.os.mappings, state.reader.mapped_data)]]

Holding == [reader |-> reader, os |-> os]

-----------------------------------------------------------------------------
(* What open can end in, as a set of [state, status, view, byte_offset].  A *)
(* view is a span: the memory it points into and the bytes it shows.        *)

NoView == [region |-> "none", data |-> <<>>]
View(region, data) == [region |-> region, data |-> data]

Failed(state, status) ==
  [state |-> state, status |-> status, view |-> NoView, byte_offset |-> 0]
Opened(state, view) ==
  [state |-> state, status |-> "ok", view |-> view, byte_offset |-> 0]

(* The lowest free number of a pool, as ::open chooses it; which address    *)
(* ::mmap chooses makes no difference here.  None when the pool is used up. *)
Lowest(pool) == {n \in pool : \A m \in pool : n <= m}

(* ::open and ::mmap both succeed.                                          *)
Taking(state, bytes, f, a) ==
  [reader |-> [mapped_data |-> a, fd |-> f, copied_buffer |-> state.reader.copied_buffer],
   os |-> [descriptors |-> state.os.descriptors \cup {f},
           mappings |-> [x \in DOMAIN state.os.mappings \cup {a} |->
                           IF x = a THEN bytes ELSE state.os.mappings[x]]]]
Mapped(state, bytes) ==
  {Taking(state, bytes, f, a) : f \in Lowest(Descriptors \ state.os.descriptors),
                                a \in Lowest(Addresses \ DOMAIN state.os.mappings)}

(* Mutation: the validation error leaves the file open.                     *)
ReadMappedStaysOpen(state, bytes, input) ==
  IF input.invalid_utf8 = "error" /\ ~ Validates(bytes)
  THEN [state |-> [state EXCEPT !.reader = ClosedReader], status |-> "invalid_utf8",
        view |-> NoView, byte_offset |-> ErrorOffset(bytes)]
  ELSE LET copy == IF input.invalid_utf8 = "error" THEN bytes
                   ELSE RepairUtf8Bytes(bytes, input.invalid_utf8).data
       IN IF input.mode = "zero_copy" THEN Opened(state, View("mapping", bytes))
          ELSE Opened([state EXCEPT !.reader.copied_buffer = copy],
                      View("copied_buffer", copy))

(* Both modes once the file is mapped: validate, or repair into the copy.   *)
(* The diagnostics of a repair stay in the FileBuffer.                      *)
ReadMapped(state, bytes, input) ==
  IF input.invalid_utf8 = "error" /\ ~ Validates(bytes)
  THEN [state |-> Close(state), status |-> "invalid_utf8", view |-> NoView,
        byte_offset |-> ErrorOffset(bytes)]
  ELSE LET copy == IF input.invalid_utf8 = "error" THEN bytes
                   ELSE RepairUtf8Bytes(bytes, input.invalid_utf8).data
       IN IF input.mode = "zero_copy" THEN Opened(state, View("mapping", bytes))
          ELSE Opened([state EXCEPT !.reader.copied_buffer = copy],
                      View("copied_buffer", copy))

(* open: the file may be missing, its size unreadable, ::open or ::mmap may *)
(* fail (the descriptor is given back); an empty file is not opened at all. *)
Open(state, bytes, input) ==
  LET closed == Close(state)
  IN IF input.mode = "zero_copy" /\ input.invalid_utf8 # "error"
     THEN {Failed(closed, "invalid_configuration")}
     ELSE {Failed(closed, "file_not_found"), Failed(closed, "io_error")} \cup
          IF bytes = <<>> THEN {Opened(closed, NoView)}
          ELSE {Failed(closed, "mapping_failed")} \cup
               {ReadMapped(m, bytes, input) : m \in Mapped(closed, bytes)}

=============================================================================
