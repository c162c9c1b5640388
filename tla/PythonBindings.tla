--------------------------- MODULE PythonBindings ---------------------------
(***************************************************************************)
(* ChunkStream, the iterator of the Python module, and set_warning_mode    *)
(* (src/bindings/python/fastchunk_py.cpp).  Python threads share one       *)
(* iterator.  The interpreter lock is held in every call, so that a call   *)
(* is one step, except where it runs Python code: warnings.warn, when the  *)
(* warning is shown, and warnings.simplefilter.  Other threads may run     *)
(* there, and so may the code that shows the warning, if it calls the      *)
(* iterator again: a nested call is one of the interleavings.              *)
(*                                                                         *)
(* A window of the input is its number; `warns` says which of them have a  *)
(* diagnostic.  The stream below is that of ChunkStream without a token.   *)
(* The fields of a dict other than chunk_id are copied from memory that    *)
(* stays, and are left out.                                                *)
(***************************************************************************)
EXTENDS Integers, Sequences

CONSTANTS
  Threads,   (* threads of the Python program                              *)
  Inputs     (* for each window whether the chunk has a diagnostic         *)

ASSUME InputAssumption == Inputs \subseteq Seq(BOOLEAN)

Modes == {"default", "ignore", "error"}

VARIABLES
  warns,         (* the input                                              *)
  warning_mode,  (* the module's mode                                      *)
  filter,        (* what Python's first warning filter says                *)
  opened,        (* stream_file has returned the iterator                  *)
  next_window,   (* the window the stream gives next                       *)
  is_cancelled,
  at,            (* where each thread is                                   *)
  window,        (* the window a thread holds while its warning is shown   *)
  overwritten,   (* formatted_chunk_id_ has been assigned since then       *)
  mode,          (* the argument of a thread's set_warning_mode            *)
  answer,        (* what a thread's last stream_file or next gave          *)
  dicts,         (* [thread, window, chunk_id] of each dict, in the order  *)
                 (* they were returned (history)                           *)
  lost           (* windows whose call raised a warning instead (history)  *)

python_vars == <<warns, warning_mode, filter, opened, next_window, is_cancelled, at, window,
                 overwritten, mode, answer, dicts, lost>>
warning_state == <<warning_mode, filter, mode>>
held == <<window, overwritten>>
outcomes == <<dicts, lost>>

Damaged == 0   (* a chunk_id that is no id of the stream                   *)

(* raise_python_error and translate_python_error: the class of an error.    *)
ExceptionOf(code) ==
  IF code = "invalid_configuration" THEN "ConfigurationError"
  ELSE IF code = "invalid_argument" THEN "InputError"
  ELSE IF code \in {"tokenizer_unavailable", "tokenizer_dependency_missing"}
  THEN "DependencyError"
  ELSE IF code \in {"tokenizer_model_not_found", "tokenizer_model_invalid", "tokenizer_failed"}
  THEN "TokenizerError"
  ELSE IF code = "cancelled" THEN "CancellationError"
  ELSE IF code = "unsupported_option" THEN "UnsupportedOptionError"
  ELSE IF code = "invalid_utf8" THEN "InvalidUtf8Error"
  ELSE IF code \in {"file_not_found", "permission_denied", "mapping_failed", "io_error"}
  THEN "FileError"
  ELSE IF code \in {"export_failed", "exporter_dependency_missing",
                    "exporter_configuration_invalid"}
  THEN "ExportError"
  ELSE IF code = "resource_limit_exceeded" THEN "ResourceLimitError"
  ELSE "FastchunkError"

(* What the reader, the tokenizer and stream_buffer, in this order, may     *)
(* refuse.                                                                  *)
OpenErrors ==
  {"file_not_found", "io_error", "mapping_failed", "invalid_utf8"}
    \cup {"tokenizer_unavailable", "tokenizer_dependency_missing", "tokenizer_model_not_found",
          "tokenizer_model_invalid", "tokenizer_failed"}
    \cup {"invalid_argument", "invalid_configuration"}

PythonInit ==
  /\ warns \in Inputs
  /\ warning_mode = "default"
  /\ filter \in Modes
  /\ opened = FALSE
  /\ next_window = 1
  /\ is_cancelled = FALSE
  /\ at = [t \in Threads |-> "idle"]
  /\ window = [t \in Threads |-> 0]
  /\ overwritten = [t \in Threads |-> FALSE]
  /\ mode = [t \in Threads |-> "none"]
  /\ answer = [t \in Threads |-> "nothing"]
  /\ dicts = <<>>
  /\ lost = {}

-----------------------------------------------------------------------------
Answers(t, what) == answer' = [answer EXCEPT ![t] = what]

(* stream_file: an error is raised and the reader goes with the object.     *)
StreamFile(t) ==
  /\ at[t] = "idle" /\ ~ opened
  /\ \/ opened' = TRUE /\ Answers(t, "stream")
     \/ \E code \in OpenErrors : Answers(t, ExceptionOf(code)) /\ UNCHANGED opened
  /\ UNCHANGED <<warns, warning_state, next_window, is_cancelled, at, held, outcomes>>

CanCall(t) == at[t] = "idle" /\ opened

NextCancelled(t) ==
  /\ CanCall(t)
  /\ is_cancelled
  /\ Answers(t, ExceptionOf("cancelled"))
  /\ UNCHANGED <<warns, warning_state, opened, next_window, is_cancelled, at, held, outcomes>>

(* Mutation: an iterator that is used up begins again.                      *)
NextStopsRewinds(t) ==
  /\ CanCall(t)
  /\ ~ is_cancelled
  /\ next_window > Len(warns)
  /\ Answers(t, "StopIteration")
  /\ next_window' = 1
  /\ UNCHANGED <<warns, warning_state, opened, is_cancelled, at, held, outcomes>>

NextStops(t) ==
  /\ CanCall(t)
  /\ ~ is_cancelled
  /\ next_window > Len(warns)
  /\ Answers(t, "StopIteration")
  /\ UNCHANGED <<warns, warning_state, opened, next_window, is_cancelled, at, held, outcomes>>

(* The stream gives its next window and formats its id, over the one a view *)
(* that another call still holds points to.                                 *)
TakesWindow(t) ==
  /\ CanCall(t)
  /\ ~ is_cancelled
  /\ next_window <= Len(warns)
  /\ next_window' = next_window + 1
  /\ overwritten' = [u \in Threads |-> at[u] = "warning"]
  /\ UNCHANGED <<warns, warning_state, opened, is_cancelled>>

Returns(t, w, chunk_id) ==
  /\ dicts' = Append(dicts, [thread |-> t, window |-> w, chunk_id |-> chunk_id])
  /\ Answers(t, "dict")
  /\ UNCHANGED lost

Raises(t, w) ==
  /\ lost' = lost \cup {w}
  /\ Answers(t, "Warning")
  /\ UNCHANGED dicts

Emits(w) == warns[w] /\ warning_mode # "ignore"

(* No Python code runs: there is no diagnostic, the module ignores it, or   *)
(* Python's filter does, or has shown this warning before.                  *)
NextQuiet(t) ==
  /\ TakesWindow(t)
  /\ Emits(next_window) => filter # "error"
  /\ Returns(t, next_window, next_window)
  /\ UNCHANGED <<at, window>>

(* warnings.warn raises: the chunk the stream gave is not returned.         *)
NextRaises(t) ==
  /\ TakesWindow(t)
  /\ Emits(next_window) /\ filter = "error"
  /\ Raises(t, next_window)
  /\ UNCHANGED <<at, window>>

(* Mutation: warnings.warn is called whether or not there is a diagnostic.  *)
NextWarnsAlways(t) ==
  /\ TakesWindow(t)
  /\ warning_mode # "ignore" /\ filter = "default"
  /\ at' = [at EXCEPT ![t] = "warning"]
  /\ window' = [window EXCEPT ![t] = next_window]
  /\ UNCHANGED <<answer, outcomes>>

(* The warning is shown: Python code runs while the view is held.           *)
NextWarns(t) ==
  /\ TakesWindow(t)
  /\ Emits(next_window) /\ filter = "default"
  /\ at' = [at EXCEPT ![t] = "warning"]
  /\ window' = [window EXCEPT ![t] = next_window]
  /\ UNCHANGED <<answer, outcomes>>

(* What the view shows as chunk_id: once the string was assigned again, its *)
(* memory may hold what it held, the new id, or anything.                   *)
ReadableIds(t) ==
  {window[t]} \cup IF overwritten[t] THEN {next_window - 1, Damaged} ELSE {}

Leaves(t) ==
  /\ at' = [at EXCEPT ![t] = "idle"]
  /\ window' = [window EXCEPT ![t] = 0]
  /\ overwritten' = [overwritten EXCEPT ![t] = FALSE]

(* Mutation: the dict is made of what the stream gave last, as if no call   *)
(* could have come between.                                                 *)
WarningShownLast(t) ==
  /\ at[t] = "warning"
  /\ Leaves(t)
  /\ Returns(t, next_window - 1, next_window - 1)
  /\ UNCHANGED <<warns, warning_state, opened, next_window, is_cancelled>>

(* warnings.warn returns: the dict is made from the view.                   *)
WarningShown(t) ==
  /\ at[t] = "warning"
  /\ Leaves(t)
  /\ \E chunk_id \in ReadableIds(t) : Returns(t, window[t], chunk_id)
  /\ UNCHANGED <<warns, warning_state, opened, next_window, is_cancelled>>

(* The program's own showwarning, or an interrupt, raises instead.          *)
WarningInterrupted(t) ==
  /\ at[t] = "warning"
  /\ Leaves(t)
  /\ Raises(t, window[t])
  /\ UNCHANGED <<warns, warning_state, opened, next_window, is_cancelled>>

Next(t) ==
  NextCancelled(t) \/ NextStops(t) \/ NextQuiet(t) \/ NextRaises(t) \/ NextWarns(t)
    \/ WarningShown(t) \/ WarningInterrupted(t)

(* close and __exit__.                                                      *)
CloseStream(t) ==
  /\ CanCall(t)
  /\ is_cancelled' = TRUE
  /\ UNCHANGED <<warns, warning_state, opened, next_window, at, held, answer, outcomes>>

(* set_warning_mode: the module's mode, then Python's filter.               *)
SetWarningMode(t) ==
  /\ at[t] = "idle"
  /\ \E m \in Modes :
       /\ warning_mode' = m
       /\ mode' = [mode EXCEPT ![t] = m]
  /\ at' = [at EXCEPT ![t] = "setting"]
  /\ UNCHANGED <<warns, filter, opened, next_window, is_cancelled, held, answer, outcomes>>

SimpleFilter(t) ==
  /\ at[t] = "setting"
  /\ filter' = mode[t]
  /\ mode' = [mode EXCEPT ![t] = "none"]
  /\ at' = [at EXCEPT ![t] = "idle"]
  /\ UNCHANGED <<warns, warning_mode, opened, next_window, is_cancelled, held, answer, outcomes>>

PythonNext ==
  \E t \in Threads :
    StreamFile(t) \/ Next(t) \/ CloseStream(t) \/ SetWarningMode(t) \/ SimpleFilter(t)

PythonSpec == PythonInit /\ [][PythonNext]_python_vars

-----------------------------------------------------------------------------
Given == {dicts[k].window : k \in DOMAIN dicts}
Warning == {t \in Threads : at[t] = "warning"}
HeldWindows == {window[t] : t \in Warning}

(* Each window the stream gave went to one caller: into one dict, into a    *)
(* raised warning, or into a call whose warning is being shown; never into  *)
(* two, and none disappeared.  Only a chunk with a diagnostic can be lost.  *)
(* Code: lines 264-294 of src/bindings/python/fastchunk_py.cpp.             *)
EachWindowOnce ==
  /\ Given \cup lost \cup HeldWindows = 1 .. next_window - 1
  /\ Given \cap lost = {} /\ Given \cap HeldWindows = {} /\ lost \cap HeldWindows = {}
  /\ \A j, k \in DOMAIN dicts : j # k => dicts[j].window # dicts[k].window
  /\ \A t, u \in Warning : t # u => window[t] # window[u]
  /\ \A w \in lost \cup HeldWindows : warns[w]

(* Only a chunk whose warning was shown can come late or with an id that is *)
(* not its own, and then some call took a later window in the meantime; a   *)
(* thread sees its own chunks in order.                                     *)
(* Code: chunk_id is read in line 276 behind the warning of line 270, from  *)
(* the string that line 73 of src/core/chunker.cpp assigns.                 *)
OnlyWarnedChunksAreOvertaken ==
  \A k \in DOMAIN dicts :
    LET own == dicts[k].window
    IN /\ \A j \in 1 .. k - 1 :
            dicts[j].window > own => warns[own] /\ dicts[j].thread # dicts[k].thread
       /\ dicts[k].chunk_id # own =>
            warns[own] /\ \E w \in Given \cup lost \cup HeldWindows : w > own

(* When one thread was told that the stream has ended or is closed, no      *)
(* thread is given a further window: what still arrives was taken before.   *)
(* Code: lines 267-272 and 297-301.                                         *)
EndIsTheEndForAll ==
  [][is_cancelled \/ (\E t \in Threads : answer[t] \in {"StopIteration", "CancellationError"})
       => next_window' = next_window]_python_vars

=============================================================================
