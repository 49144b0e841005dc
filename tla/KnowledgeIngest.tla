--------------------------- MODULE KnowledgeIngest ---------------------------
(***************************************************************************)
(* Ingesting a folder into the knowledge store of a workspace:             *)
(* KnowledgeRegistry, ingest_path and run_ingest (src-tauri/knowledge.rs)  *)
(* over IngestService and KnowledgeStore (crates/knowledge-stack), with    *)
(* the cascade of set_active_workspace (src-tauri/workspaces.rs).          *)
(*                                                                         *)
(* An ingest can be told to stop in two ways that the code keeps apart: a  *)
(* CancellationToken, which the cascade holds, and an atomic flag, which   *)
(* is what IngestService looks at.  A file is its content.                 *)
(***************************************************************************)
EXTENDS Integers, Sequences, FiniteSets

CONSTANTS
  Workspace,  \* the workspaces of workspaces/index.json
  Known,      \* those that have a row in the table of their store
  Ingest,     \* the ingests started during a behaviour
  Content,    \* the contents a file may have
  Blank,      \* contents that are white space only
  Unreadable, \* contents that are not UTF-8, or longer than 10 MB
  Folder,     \* the files of the folder of each ingest, as collect_files sorts them
  MaxCrashes  \* bound: times the application dies

ASSUME IngestAssumption ==
  /\ Known \subseteq Workspace
  /\ Blank \subseteq Content
  /\ Unreadable \subseteq Content
  /\ Folder \in [Ingest -> Seq(Content)]
  /\ MaxCrashes \in Nat

VARIABLES
  active,    \* the active workspace
  registry,  \* KnowledgeRegistry: per workspace, empty or the ingest under way
  scope,     \* WorkspaceCancellationScope: per workspace, the tokens it holds
  tokens,    \* the ingests whose CancellationToken is cancelled
  flags,     \* the ingests whose atomic flag is set
  pc,        \* where each ingest stands
  of,        \* the workspace of each ingest
  next,      \* the index in its folder each ingest has reached
  outcome,   \* what the service returned to each ingest
  unsent,    \* the ingests with progress the bridge has yet to forward
  window,    \* the only window of the application
  documents, \* per workspace, the contents that have a row in documents
  chunks,    \* per workspace, the contents whose chunks are stored
  stopped,   \* how each ingest was first told to stop (history)
  late,      \* the documents each ingest added since (history)
  crashes

signals == <<tokens, flags>>
progress == <<next, outcome>>
tables == <<documents, chunks>>
history == <<stopped, late>>
vars == <<active, registry, scope, signals, pc, of, progress, unsent, window,
          tables, history, crashes>>

Under == {"starting", "opening", "file", "chunk", "embed", "write", "document",
          "chunks", "drain", "finish"}
UnderWay == {i \in Ingest : pc[i] \in Under}
Outcome == {"done", "failed", "cancelled"}

Init ==
  /\ active \in Workspace
  /\ registry = [w \in Workspace |-> {}]
  /\ scope = [w \in Workspace |-> {}]
  /\ tokens = {} /\ flags = {}
  /\ pc = [i \in Ingest |-> "new"]
  /\ of = [i \in Ingest |-> active]
  /\ next = [i \in Ingest |-> 1]
  /\ outcome = [i \in Ingest |-> "none"]
  /\ unsent = {} /\ window = "open"
  /\ documents = [w \in Workspace |-> {}]
  /\ chunks = [w \in Workspace |-> {}]
  /\ stopped = [i \in Ingest |-> "no"]
  /\ late = [i \in Ingest |-> 0]
  /\ crashes = 0

Goto(i, where) == pc' = [pc EXCEPT ![i] = where]

\* emit_or_cancel: an event for a window that is gone sets both signals.
Emit(i) ==
  /\ tokens' = IF window = "gone" THEN tokens \cup {i} ELSE tokens
  /\ flags' = IF window = "gone" THEN flags \cup {i} ELSE flags

\* The service returns; the progress it sent is still to be drained.
Return(i, o) ==
  /\ Goto(i, "drain")
  /\ outcome' = [outcome EXCEPT ![i] = o]

Stop(i, how) ==
  stopped' = [stopped EXCEPT ![i] = IF i \in UnderWay /\ @ = "no" THEN how ELSE @]

-----------------------------------------------------------------------------
\* The command: one ingest of a workspace at a time, or AlreadyIngesting.
Start(i, w) ==
  /\ pc[i] = "new"
  /\ window = "open"
  /\ registry[w] = {}
  /\ registry' = [registry EXCEPT ![w] = {i}]
  /\ scope' = [scope EXCEPT ![w] = @ \cup {i}]
  /\ of' = [of EXCEPT ![i] = w]
  /\ Goto(i, "starting")
  /\ UNCHANGED <<active, signals, progress, unsent, window, tables, history, crashes>>

\* The embedder is resolved, the task spawned, Started told.
Spawn(i) ==
  /\ pc[i] = "starting"
  /\ Emit(i)
  /\ Goto(i, "opening")
  /\ UNCHANGED <<active, registry, scope, of, progress, unsent, window, tables, history, crashes>>

\* (fault) the early return leaves the entry behind
OpenFailsKeepingEntry(i) ==
  /\ pc[i] = "opening"
  /\ Emit(i)
  /\ outcome' = [outcome EXCEPT ![i] = "failed"]
  /\ Goto(i, "ended")
  /\ UNCHANGED <<active, registry, scope, of, next, unsent, window, tables, history, crashes>>

\* The store cannot be opened: Failed is told, then the entry removed.
OpenFails(i) ==
  /\ pc[i] = "opening"
  /\ Emit(i)
  /\ outcome' = [outcome EXCEPT ![i] = "failed"]
  /\ Goto(i, "finish")
  /\ UNCHANGED <<active, registry, scope, of, next, unsent, window, tables, history, crashes>>

\* The store is open; the service refuses a workspace its table does not have or cannot
\* tell of, and a folder it cannot walk.
Open(i) ==
  /\ pc[i] = "opening"
  /\ \/ of[i] \in Known /\ Goto(i, "file") /\ UNCHANGED outcome
     \/ Return(i, "failed")
  /\ UNCHANGED <<active, registry, scope, signals, of, next, unsent, window, tables,
                 history, crashes>>

\* The top of the loop: the next file is read, unless all are done.
File(i) ==
  /\ pc[i] = "file"
  /\ IF next[i] > Len(Folder[i])
     THEN /\ Return(i, "done")
          /\ unsent' = unsent \cup {i}
          /\ UNCHANGED next
     ELSE IF i \in flags
     THEN /\ Return(i, "cancelled")
          /\ UNCHANGED <<next, unsent>>
     ELSE /\ unsent' = unsent \cup {i}
          /\ IF Folder[i][next[i]] \in Unreadable THEN Return(i, "failed") /\ UNCHANGED next
             ELSE IF Folder[i][next[i]] \in Blank
             THEN /\ next' = [next EXCEPT ![i] = @ + 1]
                  /\ UNCHANGED <<pc, outcome>>
             ELSE Goto(i, "chunk") /\ UNCHANGED progress
  /\ UNCHANGED <<active, registry, scope, signals, of, window, tables, history, crashes>>

\* A stage begins: the flag is looked at, then the progress sent.  Text that is not
\* blank has a chunk at least: the command asks for chunks of one character or more
\* (knowledge.rs:429), and only white space is normalised to nothing.
Stage(i, this, following) ==
  /\ pc[i] = this
  /\ IF i \in flags
     THEN Return(i, "cancelled") /\ UNCHANGED unsent
     ELSE Goto(i, following) /\ unsent' = unsent \cup {i} /\ UNCHANGED outcome
  /\ UNCHANGED <<active, registry, scope, signals, of, next, window, tables, history, crashes>>

Chunking(i) == Stage(i, "chunk", "embed")
Embedding(i) == Stage(i, "embed", "write")
Writing(i) == Stage(i, "write", "document")

\* The embedder, or the database, returns an error.
ServiceFails(i) ==
  /\ pc[i] \in {"write", "document", "chunks"}
  /\ Return(i, "failed")
  /\ UNCHANGED <<active, registry, scope, signals, of, next, unsent, window, tables,
                 history, crashes>>

\* (fault) a document that was there already is not given its chunks
AddDocumentSkippingKnown(i) ==
  /\ pc[i] = "document"
  /\ documents' = [documents EXCEPT ![of[i]] = @ \cup {Folder[i][next[i]]}]
  /\ late' = [late EXCEPT ![i] = IF stopped[i] = "no" THEN @ ELSE @ + 1]
  /\ IF Folder[i][next[i]] \in documents[of[i]]
     THEN Goto(i, "file") /\ next' = [next EXCEPT ![i] = @ + 1]
     ELSE Goto(i, "chunks") /\ UNCHANGED next
  /\ UNCHANGED <<active, registry, scope, signals, of, outcome, unsent, window, chunks,
                 stopped, crashes>>

\* add_document commits a row, unless the workspace has one for this content.
AddDocument(i) ==
  /\ pc[i] = "document"
  /\ documents' = [documents EXCEPT ![of[i]] = @ \cup {Folder[i][next[i]]}]
  /\ late' = [late EXCEPT ![i] = IF stopped[i] = "no" THEN @ ELSE @ + 1]
  /\ Goto(i, "chunks")
  /\ UNCHANGED <<active, registry, scope, signals, of, progress, unsent, window, chunks,
                 stopped, crashes>>

\* add_chunks: one transaction, which ignores the chunks that are there.
AddChunks(i) ==
  /\ pc[i] = "chunks"
  /\ chunks' = [chunks EXCEPT ![of[i]] = @ \cup {Folder[i][next[i]]}]
  /\ next' = [next EXCEPT ![i] = @ + 1]
  /\ Goto(i, "file")
  /\ UNCHANGED <<active, registry, scope, signals, of, outcome, unsent, window, documents,
                 history, crashes>>

\* The bridge forwards what the service sent.
Forward(i) ==
  /\ i \in unsent
  /\ unsent' = unsent \ {i}
  /\ Emit(i)
  /\ UNCHANGED <<active, registry, scope, pc, of, progress, window, tables, history, crashes>>

\* The bridge has ended; the last event is sent.
Tell(i) ==
  /\ pc[i] = "drain"
  /\ i \notin unsent
  /\ Emit(i)
  /\ Goto(i, "finish")
  /\ UNCHANGED <<active, registry, scope, of, progress, unsent, window, tables, history, crashes>>

\* The entry of the workspace is removed.
Finish(i) ==
  /\ pc[i] = "finish"
  /\ registry' = [registry EXCEPT ![of[i]] = {}]
  /\ Goto(i, "ended")
  /\ UNCHANGED <<active, scope, signals, of, progress, unsent, window, tables, history, crashes>>

-----------------------------------------------------------------------------
\* (fault) cancel_ingest forgets the atomic flag
CancelTokenOnly(w) ==
  \E i \in registry[w] :
    /\ tokens' = tokens \cup {i}
    /\ Stop(i, "cancelled")
    /\ UNCHANGED <<active, registry, scope, flags, pc, of, progress, unsent, window, tables,
                   late, crashes>>

\* cancel_ingest sets both signals of the ingest under way, if there is one.
Cancel(w) ==
  \E i \in registry[w] :
    /\ tokens' = tokens \cup {i}
    /\ flags' = flags \cup {i}
    /\ Stop(i, "cancelled")
    /\ UNCHANGED <<active, registry, scope, pc, of, progress, unsent, window, tables, late,
                   crashes>>

\* set_active_workspace: the tokens of the workspace that is left are cancelled.
SwitchWorkspace(w) ==
  /\ w # active
  /\ active' = w
  /\ tokens' = tokens \cup scope[active]
  /\ scope' = [scope EXCEPT ![active] = {}]
  /\ stopped' = [i \in Ingest |->
       IF i \in scope[active] \cap UnderWay /\ stopped[i] = "no" THEN "switched" ELSE stopped[i]]
  /\ UNCHANGED <<registry, flags, pc, of, progress, unsent, window, tables, late, crashes>>

\* The same, the index not being saved: an early return, before the cascade.
SwitchUnsaved(w) ==
  /\ w # active
  /\ active' = w
  /\ UNCHANGED <<registry, scope, signals, pc, of, progress, unsent, window, tables, history,
                 crashes>>

\* The window is window and ExitRequested handled: cancel_all_blocking signals
\* every ingest, unless the registry is locked, and the scope's tokens are
\* cancelled; what runs goes on until the process is gone.
CloseWindow ==
  /\ window = "open"
  /\ window' = "gone"
  /\ \E reached \in {{}, UNION {registry[w] : w \in Workspace}} :
       /\ tokens' = tokens \cup reached \cup UNION {scope[w] : w \in Workspace}
       /\ flags' = flags \cup reached
  /\ scope' = [w \in Workspace |-> {}]
  /\ UNCHANGED <<active, registry, pc, of, progress, unsent, tables, history, crashes>>

\* The application dies and is started again: the tables are what is left.
Crash ==
  /\ crashes < MaxCrashes
  /\ crashes' = crashes + 1
  /\ registry' = [w \in Workspace |-> {}]
  /\ scope' = [w \in Workspace |-> {}]
  /\ pc' = [i \in Ingest |-> IF pc[i] \in Under THEN "ended" ELSE pc[i]]
  /\ outcome' = [i \in Ingest |-> IF pc[i] \in Under THEN "none" ELSE outcome[i]]
  /\ unsent' = {} /\ window' = "open"
  /\ UNCHANGED <<active, signals, of, next, tables, history>>

Step(i) ==
  \/ Spawn(i) \/ OpenFails(i) \/ Open(i) \/ File(i) \/ Chunking(i) \/ Embedding(i)
  \/ Writing(i) \/ ServiceFails(i) \/ AddDocument(i) \/ AddChunks(i) \/ Tell(i) \/ Finish(i)

Next ==
  \/ \E i \in Ingest : Step(i) \/ Forward(i)
  \/ \E i \in Ingest, w \in Workspace : Start(i, w)
  \/ \E w \in Workspace : Cancel(w) \/ SwitchWorkspace(w) \/ SwitchUnsaved(w)
  \/ CloseWindow \/ Crash

Spec == Init /\ [][Next]_vars

\* The runtime polls every task that can go on; nobody is made to start,
\* cancel, switch or close anything.
FairSpec ==
  /\ Spec
  /\ \A i \in Ingest : WF_vars(Step(i)) /\ WF_vars(Forward(i))

-----------------------------------------------------------------------------
TypeOK ==
  /\ active \in Workspace
  /\ registry \in [Workspace -> SUBSET Ingest]
  /\ scope \in [Workspace -> SUBSET Ingest]
  /\ tokens \in SUBSET Ingest
  /\ flags \in SUBSET tokens
  /\ pc \in [Ingest -> Under \cup {"new", "ended"}]
  /\ of \in [Ingest -> Workspace]
  /\ next \in [Ingest -> Nat] /\ \A i \in Ingest : next[i] \in 1..Len(Folder[i]) + 1
  /\ outcome \in [Ingest -> Outcome \cup {"none"}]
  /\ unsent \in SUBSET UnderWay
  /\ window \in {"open", "gone"}
  /\ documents \in [Workspace -> SUBSET Content]
  /\ chunks \in [Workspace -> SUBSET Content]
  /\ stopped \in [Ingest -> {"no", "cancelled", "switched"}]
  /\ late \in [Ingest -> Nat]
  /\ crashes \in 0..MaxCrashes

\* A workspace is refused as busy exactly while one ingest writes to it
\* (knowledge.rs:7-8): no two at once, and no entry that outlives its ingest.
RegistryIsExact ==
  \A w \in Workspace :
    /\ registry[w] = {i \in UnderWay : of[i] = w}
    /\ \A i, j \in registry[w] : i = j

Indexable(i) == {Folder[i][n] : n \in DOMAIN Folder[i]} \ (Blank \cup Unreadable)

\* An ingest that reports Done has left every readable file of the folder in
\* the workspace with its row and its chunks, whatever an earlier ingest that
\* failed, was cancelled or died with the application had left there.
DoneMeansIndexed ==
  \A i \in Ingest :
    outcome[i] = "done" =>
      Indexable(i) \subseteq documents[of[i]] \cap chunks[of[i]]

\* An ingest cancelled by cancel_ingest adds the document it was about to
\* write and no other.
CancelStopsWriting ==
  \A i \in Ingest : stopped[i] = "cancelled" => late[i] <= 1

\* Every ingest ends, and with it the refusal of its workspace: a file that is
\* blank or not readable, a cancelled token or a window that is gone do not hold it.
EveryIngestEnds ==
  \A i \in Ingest : pc[i] \in Under ~> pc[i] = "ended" /\ i \notin registry[of[i]]

=============================================================================
