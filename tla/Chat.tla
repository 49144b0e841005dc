-------------------------------- MODULE Chat --------------------------------
(***************************************************************************)
(* The chats of the desktop: a call streams an answer from Ollama, LM      *)
(* Studio, a remote gateway, or the one llama-server the application       *)
(* starts.  That server is in a slot behind a lock; the chat that finds    *)
(* another model in it kills the server, starts its own and holds the lock *)
(* until the new one answers.  A server is named by the chat that spawned  *)
(* it: a chat spawns one at most.                                          *)
(*                                                                         *)
(* The survey of personas uses the same slot and streams: it is, question  *)
(* by question, a call like these, with a token nobody holds and without   *)
(* an eye on its page.                                                     *)
(***************************************************************************)
EXTENDS Naturals, FiniteSets

CONSTANTS Chats,   \* calls of start_chat and start_remote_chat
          Models,  \* model files a llama-server can load
          None

ASSUME NoneIsNoChat == None \notin Chats

VARIABLES runtime,    \* what a chat talks to
          model,      \* the model file a llama chat asks for
          pc,         \* where a call is
          cancelled,  \* chats whose token is cancelled
          open,       \* chats whose channel still has a reader
          told,       \* the last event a page heard
          result,     \* what the call returns
          delta,      \* chats that sent a piece of an answer
          holder,     \* the chat that holds the lock of the slot
          slot,       \* the server in the slot
          alive,      \* servers whose process runs
          endpoint,   \* the server a chat was told to talk to
          exiting     \* the application was asked to exit

chatVars == <<pc, cancelled, told, result, delta>>
serverVars == <<holder, slot, alive, endpoint>>
vars == <<runtime, model, open, exiting, chatVars, serverVars>>

Runtimes == {"ollama", "lmstudio", "remote", "llama", "vllm", "survey"}
Survey(c) == runtime[c] = "survey"
Terminal == {"completed", "aborted", "cancelled", "failed"}

Running(c) == pc[c] \notin {"idle", "done"}
Goto(c, p) == pc' = [pc EXCEPT ![c] = p]

Init ==
  /\ runtime \in [Chats -> Runtimes] /\ model \in [Chats -> Models]
  /\ pc = [c \in Chats |-> "idle"]
  /\ cancelled = {} /\ open = Chats /\ delta = {}
  /\ told = [c \in Chats |-> "none"] /\ result = [c \in Chats |-> "none"]
  /\ holder = None /\ slot = None /\ alive = {}
  /\ endpoint = [c \in Chats |-> None]
  /\ exiting = FALSE

\* Every way out of a call drops the guard that removes its token.
Return(c, r) == Goto(c, "done") /\ result' = [result EXCEPT ![c] = r]

\* Channel::send: without a reader the event is lost.
Told(c, e) == IF c \in open THEN [told EXCEPT ![c] = e] ELSE told

\* The stream says its last event and the call returns the outcome of it.  A
\* survey takes what it has of an answer for the answer, and returns Ok even
\* after Failed.
Ends(c, e) ==
  /\ Return(c, IF e = "aborted" \/ Survey(c) THEN "completed" ELSE e)
  /\ told' = Told(c, IF e = "aborted" /\ Survey(c) THEN "completed" ELSE e)
  /\ UNCHANGED <<runtime, model, open, exiting, cancelled, delta, serverVars>>

-----------------------------------------------------------------------------
\* The call: its token is registered, then the runtime decides.

Start(c) ==
  /\ pc[c] = "idle" /\ ~exiting /\ ~Survey(c)
  /\ Goto(c, IF runtime[c] \in {"llama", "vllm"} THEN "check" ELSE "connect")
  /\ UNCHANGED <<runtime, model, open, exiting, cancelled, told, result, delta, serverVars>>

\* Started and Progress, then a runtime that is llama.cpp, Ollama or none.
SurveyStart(c) ==
  /\ pc[c] = "idle" /\ ~exiting /\ Survey(c)
  /\ \E p \in {"check", "connect"} : Goto(c, p)
  /\ told' = Told(c, "started")
  /\ UNCHANGED <<runtime, model, open, exiting, cancelled, result, delta, serverVars>>

\* A remote endpoint the settings do not know, before there is a token.
UnknownEndpoint(c) ==
  /\ pc[c] = "idle" /\ ~exiting /\ runtime[c] = "remote"
  /\ Return(c, "error")
  /\ UNCHANGED <<runtime, model, open, exiting, cancelled, told, delta, serverVars>>

\* No llama-server configured, model not in the catalogue, its file or its
\* mmproj file missing; or a runtime that has no chat.
Refuse(c) ==
  /\ pc[c] = "check"
  /\ Return(c, "error")
  /\ UNCHANGED <<runtime, model, open, exiting, cancelled, told, delta, serverVars>>

FilesPresent(c) ==
  /\ pc[c] = "check" /\ runtime[c] \in {"llama", "survey"}
  /\ Goto(c, "lock")
  /\ UNCHANGED <<runtime, model, open, exiting, cancelled, told, result, delta, serverVars>>

-----------------------------------------------------------------------------
\* The slot.  The lock is waited for whether or not the chat is cancelled.

Fits(c) == slot # None /\ model[slot] = model[c]

\* The slot holds a server with this model: its address is taken as it is,
\* nobody asks whether the process still runs.
Reuse(c) ==
  /\ pc[c] = "lock" /\ holder = None /\ Fits(c)
  /\ endpoint' = [endpoint EXCEPT ![c] = slot]
  /\ Goto(c, "connect")
  /\ UNCHANGED <<runtime, model, open, exiting, cancelled, told, result, delta, holder, slot, alive>>

\* (fault) the old server is replaced when the new one answers
EvictLater(c) ==
  /\ pc[c] = "lock" /\ holder = None /\ ~Fits(c)
  /\ holder' = c
  /\ Goto(c, "spawn")
  /\ UNCHANGED <<runtime, model, open, exiting, cancelled, told, result, delta, slot, alive, endpoint>>

\* The server with another model is dropped, which kills it, whoever is still
\* reading from it; the lock is kept.
Evict(c) ==
  /\ pc[c] = "lock" /\ holder = None /\ ~Fits(c)
  /\ holder' = c /\ slot' = None
  /\ alive' = alive \ {slot}
  /\ Goto(c, "spawn")
  /\ UNCHANGED <<runtime, model, open, exiting, cancelled, told, result, delta, endpoint>>

\* Binary missing, no port, or the process does not start.
SpawnFails(c) ==
  /\ pc[c] = "spawn"
  /\ holder' = None
  /\ Return(c, "error")
  /\ UNCHANGED <<runtime, model, open, exiting, cancelled, told, delta, slot, alive, endpoint>>

Spawn(c) ==
  /\ pc[c] = "spawn"
  /\ alive' = alive \cup {c}
  /\ Goto(c, "health")
  /\ UNCHANGED <<runtime, model, open, exiting, cancelled, told, result, delta, holder, slot, endpoint>>

\* wait_for_ready: /health is polled until it answers 200; the token is looked
\* at before each request and each pause.
Healthy(c) ==
  /\ pc[c] = "health" /\ c \in alive /\ c \notin cancelled
  /\ Goto(c, "ready")
  /\ UNCHANGED <<runtime, model, open, exiting, cancelled, told, result, delta, serverVars>>

\* A minute went by, or the chat was cancelled: the child is killed, and the
\* last line it complained on stderr becomes the error.
Unhealthy(c) ==
  /\ pc[c] = "health"
  /\ holder' = None
  /\ alive' = alive \ {c}
  /\ Return(c, "error")
  /\ UNCHANGED <<runtime, model, open, exiting, cancelled, told, delta, slot, endpoint>>

\* The server is put into the slot and the lock released.
Publish(c) ==
  /\ pc[c] = "ready"
  /\ slot' = c /\ holder' = None
  /\ endpoint' = [endpoint EXCEPT ![c] = c]
  /\ Goto(c, "connect")
  /\ UNCHANGED <<runtime, model, open, exiting, cancelled, told, result, delta, alive>>

ServerDies(c) ==
  /\ c \in alive
  /\ alive' = alive \ {c}
  /\ UNCHANGED <<runtime, model, open, exiting, chatVars, holder, slot, endpoint>>

-----------------------------------------------------------------------------
\* chat_stream, the same loop in all adapters and in start_remote_chat.

Reachable(c) ==
  runtime[c] = "llama" \/ endpoint[c] # None => endpoint[c] \in alive

ConnectCancelled(c) ==
  pc[c] = "connect" /\ c \in cancelled /\ Ends(c, "cancelled")

ConnectFails(c) ==
  pc[c] = "connect" /\ c \notin cancelled /\ Ends(c, "failed")

\* The client of a remote chat is built once its token is registered.
NoClient(c) ==
  /\ pc[c] = "connect" /\ runtime[c] = "remote"
  /\ Return(c, "error")
  /\ UNCHANGED <<runtime, model, open, exiting, cancelled, told, delta, serverVars>>

Answered(c) ==
  /\ pc[c] = "connect" /\ c \notin cancelled /\ Reachable(c)
  /\ \E p \in {"stream", "body"} : Goto(c, p)
  /\ UNCHANGED <<runtime, model, open, exiting, cancelled, told, result, delta, serverVars>>

\* A status that is no success: its body is read first, and the token is not
\* looked at meanwhile.  The client of a llama-server has no timeout for it.
BodyRead(c) == pc[c] = "body" /\ Ends(c, "failed")

Unbounded(c) == runtime[c] \in {"llama", "survey"}

\* A piece of the answer.  The reader having left cancels the chat's own token;
\* the lines that came along in the same buffer are still worked off.
Delta(c) ==
  /\ pc[c] = "stream" /\ Reachable(c) /\ ~Survey(c)
  /\ delta' = delta \cup {c}
  /\ told' = Told(c, "delta")
  /\ cancelled' = IF c \in open THEN cancelled ELSE cancelled \cup {c}
  /\ UNCHANGED <<runtime, model, open, exiting, pc, result, serverVars>>

\* A survey collects the pieces, and tells nobody of them.
Collect(c) ==
  /\ pc[c] = "stream" /\ Reachable(c) /\ Survey(c)
  /\ delta' = delta \cup {c}
  /\ UNCHANGED <<runtime, model, open, exiting, pc, cancelled, told, result, serverVars>>

Done(c) == pc[c] = "stream" /\ Reachable(c) /\ Ends(c, "completed")

\* Ollama reports an error in a line of the stream.
ErrorLines(c) == runtime[c] = "ollama" \/ (Survey(c) /\ endpoint[c] = None)

ErrorLine(c) == pc[c] = "stream" /\ ErrorLines(c) /\ Ends(c, "failed")

StreamEnds(c) == pc[c] = "stream" /\ Ends(c, "aborted")

\* (fault) a broken stream fails the chat without an event
BreaksSilently(c) ==
  /\ pc[c] = "stream"
  /\ Return(c, "failed")
  /\ UNCHANGED <<runtime, model, open, exiting, told, cancelled, delta, serverVars>>

\* A broken stream (or the client's own timeout) fails a chat that had nothing
\* to show yet, and completes one that had.
StreamBreaks(c) ==
  pc[c] = "stream" /\ Ends(c, IF c \in delta THEN "aborted" ELSE "failed")

\* (fault) the token is only looked at while the page listens
StreamCancelledIfOpen(c) ==
  pc[c] = "stream" /\ c \in cancelled \cap open /\ Ends(c, "cancelled")

StreamCancelled(c) ==
  pc[c] = "stream" /\ c \in cancelled /\ Ends(c, "cancelled")

-----------------------------------------------------------------------------
\* The page and the application.

Registered == {c \in Chats : Running(c) /\ ~Survey(c)}

\* cancel_all_chats
CancelAll ==
  /\ cancelled' = cancelled \cup Registered
  /\ UNCHANGED <<runtime, model, open, exiting, pc, told, result, delta, serverVars>>

CloseChannel(c) ==
  /\ Running(c) /\ c \in open
  /\ open' = open \ {c}
  /\ UNCHANGED <<runtime, model, exiting, chatVars, serverVars>>

\* ExitRequested: chats are cancelled, and the server is dropped if the lock
\* happens to be free.
Exit ==
  /\ ~exiting /\ exiting' = TRUE
  /\ cancelled' = cancelled \cup Registered
  /\ IF holder = None
     THEN slot' = None /\ alive' = alive \ {slot}
     ELSE UNCHANGED <<slot, alive>>
  /\ UNCHANGED <<runtime, model, open, pc, told, result, delta, holder, endpoint>>

\* What a call does by itself.
Work(c) ==
  \/ Refuse(c) \/ FilesPresent(c)
  \/ SpawnFails(c) \/ Spawn(c) \/ Healthy(c) \/ Unhealthy(c) \/ Publish(c)
  \/ ConnectCancelled(c) \/ ConnectFails(c) \/ NoClient(c) \/ StreamCancelled(c)

TakeLock(c) == Reuse(c) \/ Evict(c)

Next ==
  \/ \E c \in Chats :
       \/ Start(c) \/ SurveyStart(c) \/ UnknownEndpoint(c) \/ Work(c) \/ TakeLock(c)
       \/ Answered(c) \/ BodyRead(c) \/ Delta(c) \/ Collect(c) \/ Done(c) \/ ErrorLine(c)
       \/ StreamEnds(c) \/ StreamBreaks(c)
       \/ ServerDies(c) \/ CloseChannel(c)
  \/ CancelAll \/ Exit

\* A call is a future that tokio polls; its wait on /health is bounded by a minute,
\* and that on an error body by the timeout of the client that has one.  tokio's
\* Mutex serves those who wait in order, so whoever waits long enough gets it.
\* Nothing obliges a peer to go on with an answer.
Spec == /\ Init /\ [][Next]_vars
        /\ \A c \in Chats : /\ WF_vars(Work(c)) /\ SF_vars(TakeLock(c))
                            /\ WF_vars(~Unbounded(c) /\ BodyRead(c))

-----------------------------------------------------------------------------
\* However chats for different models, cancellations, crashes and the exit
\* interleave, one llama-server at most runs: the one in the slot, or, while
\* the slot is empty, the one whose chat holds the lock.  Two of them would
\* each keep a model in memory, and one nobody can reach any more.
OneServer ==
  \A c \in alive :
    \/ slot = c
    \/ slot = None /\ holder = c /\ pc[c] \in {"health", "ready"}

\* What a call returns is what its page heard last, if the page still listens;
\* nobody is told a chat was cancelled that nobody cancelled; a call that ends
\* in an error of its own has not begun to answer.  (A survey returns Ok, or ends
\* in such an error.)
LastWordAgrees ==
  \A c \in Chats :
    /\ result[c] = "cancelled" => c \in cancelled
    /\ result[c] = "error" => told[c] \in {"none", "started"} /\ c \notin delta
    /\ told[c] \in Terminal =>
         result[c] = IF told[c] = "aborted" \/ Survey(c) THEN "completed" ELSE told[c]
    /\ result[c] \in Terminal /\ c \in open => told[c] \in Terminal

\* A chat that is cancelled ends, also when it waits for the lock behind another
\* chat that loads its model, and when its page is gone.  Only a llama-server whose
\* error body never ends can keep one, and keeps nobody else.
CancelEnds ==
  \A c \in Chats :
    Running(c) /\ c \in cancelled ~> pc[c] = "done" \/ (Unbounded(c) /\ pc[c] = "body")

=============================================================================
