----------------------------- MODULE ModelPull ------------------------------
(***************************************************************************)
(* start_model_pull: Ollama's streamed pull with its retries, the two      *)
(* files of a llama.cpp model, and the runtimes it cannot pull for.        *)
(***************************************************************************)
EXTENDS Tasks

CONSTANT MaxAttempts   \* attempts of an Ollama pull

ASSUME MaxAttemptsPositive == MaxAttempts \in Nat \ {0}

\* a llama.cpp model with and without a projector file (mmproj)
Runtimes == {"ollama", "gguf", "gguf_mmproj", "lm_studio", "unsupported"}

Files(v) == IF v = "gguf_mmproj" THEN {"main", "mmproj"} ELSE {"main"}

PullTerminal == {"completed", "failed", "cancelled"}

PullQuiet == Fixed /\ UNCHANGED <<cancelled, count, disk>>

\* The match on runtime_kind.  lm_studio is told to use its own page.
Dispatch(c) ==
  /\ kind = "pull" /\ pc[c] = "begun"
  /\ CASE variant[c] = "ollama" ->
            /\ Goto(c, "request") /\ count' = [count EXCEPT ![c] = 1]
            /\ UNCHANGED <<told, result>>
       [] variant[c] = "lm_studio" ->
            EndWith(c, "failed", "error") /\ UNCHANGED count
       [] variant[c] = "unsupported" ->
            Return(c, "error") /\ UNCHANGED <<told, count>>
       [] OTHER ->
            Goto(c, "look_up") /\ UNCHANGED <<told, result, count>>
  /\ Fixed /\ UNCHANGED <<cancelled, disk>>

\* pull_attempt up to the response head
RequestCancelled(c) ==
  /\ pc[c] = "request" /\ c \in cancelled
  /\ Return(c, "cancelled") /\ UNCHANGED told
  /\ PullQuiet

RequestAnswered(c) ==
  /\ pc[c] = "request" /\ c \notin cancelled
  /\ \E p \in {"stream", "transient", "permanent"} : Goto(c, p)
  /\ UNCHANGED <<told, result>> /\ PullQuiet

\* One line of the stream: a status or progress, or one that cannot be read
\* and is skipped.  The select is not biased: lines are read after a cancel too.
StreamLine(c) ==
  /\ pc[c] = "stream"
  /\ Heard(c, "progress")
  /\ Fixed /\ UNCHANGED <<pc, result, count, disk>>

\* status "success": Completed, even to a reader that has gone
StreamSuccess(c) ==
  /\ pc[c] = "stream"
  /\ Heard(c, "completed") /\ Return(c, "ok")
  /\ disk' = disk \cup {<<id[c], "main">>}
  /\ Fixed /\ UNCHANGED count

\* an error line, a broken or an ended stream
StreamBreaks(c) ==
  /\ pc[c] = "stream"
  /\ \E p \in {"transient", "permanent"} : Goto(c, p)
  /\ UNCHANGED <<told, result>> /\ PullQuiet

\* The attempt ends Cancelled: no event goes with it.
StreamCancelled(c) ==
  /\ pc[c] = "stream" /\ c \in cancelled
  /\ Return(c, "cancelled") /\ UNCHANGED told
  /\ PullQuiet

\* no such model, a 4xx; or the last attempt failed
GiveUp(c) ==
  /\ \/ pc[c] = "permanent"
     \/ pc[c] = "transient" /\ count[c] = MaxAttempts
  /\ Heard(c, "failed") /\ Return(c, "error")
  /\ Fixed /\ UNCHANGED <<count, disk>>

Backoff(c) ==
  /\ pc[c] = "transient" /\ count[c] < MaxAttempts
  /\ Heard(c, "retrying") /\ Goto(c, "backoff")
  /\ Fixed /\ UNCHANGED <<result, count, disk>>

BackoffCancelled(c) ==
  /\ pc[c] = "backoff" /\ c \in cancelled
  /\ Heard(c, "cancelled") /\ Return(c, "cancelled")
  /\ Fixed /\ UNCHANGED <<count, disk>>

\* (fault) the attempt is not counted
TryAgainUncounted(c) ==
  /\ pc[c] = "backoff"
  /\ Goto(c, "request")
  /\ Fixed /\ UNCHANGED <<told, result, cancelled, count, disk>>

TryAgain(c) ==
  /\ pc[c] = "backoff"
  /\ Goto(c, "request") /\ count' = [count EXCEPT ![c] = @ + 1]
  /\ Fixed /\ UNCHANGED <<told, result, cancelled, disk>>

\* The catalogue or the data directory: an error of the command, no event.
NotInCatalogue(c) ==
  /\ pc[c] = "look_up"
  /\ Return(c, "error") /\ UNCHANGED told
  /\ PullQuiet

\* pull_llama_model up to the first download: its send ignores a lost reader
PullMain(c) ==
  /\ pc[c] = "look_up"
  /\ told' = Told(c, "progress") /\ Goto(c, "main")
  /\ UNCHANGED result /\ PullQuiet

FileEvent(c) ==
  /\ pc[c] \in {"main", "mmproj"}
  /\ Heard(c, "progress")
  /\ Fixed /\ UNCHANGED <<pc, result, count, disk>>

\* (fault) the second file is forgotten
FileArrivesAlone(c) ==
  /\ pc[c] \in {"main", "mmproj"}
  /\ disk' = disk \cup {<<id[c], pc[c]>>}
  /\ Return(c, "ok") /\ UNCHANGED told
  /\ Fixed /\ UNCHANGED <<cancelled, count>>

\* The main file is renamed into place before the second one is asked for; the
\* token is next looked at by that download.
FileArrives(c) ==
  /\ pc[c] \in {"main", "mmproj"}
  /\ disk' = disk \cup {<<id[c], pc[c]>>}
  /\ IF pc[c] = "main" /\ "mmproj" \in Files(variant[c])
     THEN Goto(c, "mmproj") /\ told' = Told(c, "progress") /\ UNCHANGED result
     ELSE Return(c, "ok") /\ UNCHANGED told
  /\ Fixed /\ UNCHANGED <<cancelled, count>>

\* (fault) the page hears of a cancellation, the caller of an error
PullFailsTwice(c) ==
  /\ pc[c] \in {"look_up", "main", "mmproj"}
  /\ EndWith(c, IF c \in cancelled THEN "cancelled" ELSE "failed", "error")
  /\ PullQuiet

\* Any error of pull_llama_model is told as a cancellation if the token is
\* cancelled by then, whatever the error was.
PullFails(c) ==
  /\ pc[c] \in {"look_up", "main", "mmproj"}
  /\ IF c \in cancelled THEN EndWith(c, "cancelled", "cancelled")
                        ELSE EndWith(c, "failed", "error")
  /\ PullQuiet

PullStep(c) ==
  \/ Dispatch(c) \/ RequestCancelled(c) \/ RequestAnswered(c)
  \/ StreamSuccess(c) \/ StreamBreaks(c) \/ StreamCancelled(c)
  \/ GiveUp(c) \/ Backoff(c) \/ BackoffCancelled(c) \/ TryAgain(c)
  \/ NotInCatalogue(c) \/ PullMain(c) \/ FileArrives(c) \/ PullFails(c)
=============================================================================
