------------------------------ MODULE FetchFlow ------------------------------
(***************************************************************************)
(* The two downloads that are no installer's: download_embedding_model     *)
(* (a model and its tokenizer, each renamed from a partial file) and       *)
(* download_personas_dataset (the parquet files of one data set).          *)
(* count is the number of the file a call is at.                           *)
(***************************************************************************)
EXTENDS Tasks

FileCount == 2

\* <<id, n>>-th file of an embedding model, <<None, n>> of the personas.
FileOf(c) == <<IF kind = "personas" THEN None ELSE id[c], IF count[c] = 1 THEN "first" ELSE "second">>
AllFiles(i) == {<<i, "first">>, <<i, "second">>}

EmbeddingTerminal == {"done", "failed", "cancelled"}
PersonasTerminal == {"completed", "failed"}

FetchQuiet == Fixed /\ UNCHANGED <<cancelled, count, disk>>

\* The next file, or the last event.
NextFile(c, e, last) ==
  IF count[c] < FileCount
  THEN /\ count' = [count EXCEPT ![c] = @ + 1] /\ Goto(c, e)
       /\ UNCHANGED <<told, result>>
  ELSE EndWith(c, last, "ok") /\ UNCHANGED count

-----------------------------------------------------------------------------
\* download_embedding_model returns at once; its task goes on and tells the page
\* through a bridge, which ends with the page and cancels nothing.

\* No HTTP client.
NoClient(c) ==
  /\ kind = "embedding" /\ pc[c] = "begun"
  /\ EndWith(c, "failed", "error")
  /\ FetchQuiet

\* The model's directory cannot be made: the task ends without an event.
NoDirectory(c) ==
  /\ kind = "embedding" /\ pc[c] = "begun" /\ ~(AllFiles(id[c]) \subseteq disk)
  /\ Return(c, "error") /\ UNCHANGED told
  /\ FetchQuiet

FetchBegins(c) ==
  /\ kind = "embedding" /\ pc[c] = "begun"
  /\ Goto(c, "file") /\ count' = [count EXCEPT ![c] = 1]
  /\ Fixed /\ UNCHANGED <<told, result, cancelled, disk>>

\* A file that is there is taken as it is.
FileThere(c) ==
  /\ kind = "embedding" /\ pc[c] = "file" /\ FileOf(c) \in disk
  /\ NextFile(c, "file", "done")
  /\ Fixed /\ UNCHANGED <<cancelled, disk>>

\* The request, which no token interrupts, then Started.
FileAsked(c) ==
  /\ kind = "embedding" /\ pc[c] = "file" /\ FileOf(c) \notin disk
  /\ Goto(c, "body") /\ told' = Told(c, "started")
  /\ UNCHANGED result /\ FetchQuiet

FileBlock(c) ==
  /\ pc[c] = "body" /\ c \notin cancelled
  /\ told' = Told(c, "progress")
  /\ UNCHANGED <<pc, result>> /\ FetchQuiet

\* biased: the token comes first.  The partial file stays.
FileCancelled(c) ==
  /\ pc[c] = "body" /\ c \in cancelled
  /\ EndWith(c, "cancelled", "cancelled")
  /\ FetchQuiet

FileVerified(c) ==
  /\ pc[c] = "body" /\ c \notin cancelled
  /\ Goto(c, "persist") /\ told' = Told(c, "verifying")
  /\ UNCHANGED result /\ FetchQuiet

\* (fault) the model's own file is enough
PersistOne(c) ==
  /\ pc[c] = "persist"
  /\ disk' = disk \cup {FileOf(c)}
  /\ EndWith(c, "done", "ok")
  /\ Fixed /\ UNCHANGED <<cancelled, count>>

\* atomic_persist, with its retries; a cancelled download goes on to ask for
\* the second file.
Persist(c) ==
  /\ pc[c] = "persist"
  /\ disk' = disk \cup {FileOf(c)}
  /\ NextFile(c, "file", "done")
  /\ Fixed /\ UNCHANGED cancelled

\* Request, status, write, a broken stream, the digest, five failed renames.
FileFails(c) ==
  /\ kind = "embedding" /\ pc[c] \in {"file", "body", "persist"}
  /\ pc[c] = "file" => FileOf(c) \notin disk
  /\ EndWith(c, "failed", "error")
  /\ FetchQuiet

-----------------------------------------------------------------------------
\* download_personas_dataset: no registry, a token nobody else holds, and no digest:
\* two calls that fetch one file at once append to one partial file, and what they mix
\* there is renamed, or resumed by a later call, like any other.
MixedPart(c) == <<None, IF count[c] = 1 THEN "first mixed" ELSE "second mixed">>
SpoiltFile(c) == <<None, IF count[c] = 1 THEN "first spoilt" ELSE "second spoilt">>
Spoilt == {<<None, "first spoilt">>, <<None, "second spoilt">>}

PersonasBegin(c) ==
  /\ kind = "personas" /\ pc[c] = "idle"
  /\ \/ Goto(c, "list") /\ told' = Told(c, "status") /\ UNCHANGED result
     \/ Return(c, "error") /\ UNCHANGED told
  /\ FetchQuiet

\* list_dataset_parquets, then the downloader's client.
PersonasListed(c) ==
  /\ pc[c] = "list"
  /\ \/ /\ Goto(c, "parquet") /\ count' = [count EXCEPT ![c] = 1]
        /\ UNCHANGED <<told, result>>
     \/ EndWith(c, "failed", "error") /\ UNCHANGED count
     \/ Return(c, "error") /\ UNCHANGED <<told, count>>
  /\ Fixed /\ UNCHANGED <<cancelled, disk>>

\* A file of the right size is skipped.
PersonasSkipped(c) ==
  /\ pc[c] = "parquet" /\ FileOf(c) \in disk
  /\ NextFile(c, "parquet", "completed")
  /\ Fixed /\ UNCHANGED <<cancelled, disk>>

PersonasFetch(c) ==
  /\ pc[c] = "parquet"
  /\ Goto(c, "fetching") /\ told' = Told(c, "status")
  /\ disk' = IF \E d \in Calls \ {c} : pc[d] = "fetching" /\ count[d] = count[c]
             THEN disk \cup {MixedPart(c)} ELSE disk
  /\ Fixed /\ UNCHANGED <<result, cancelled, count>>

PersonasProgress(c) ==
  /\ pc[c] = "fetching"
  /\ told' = Told(c, "progress")
  /\ UNCHANGED <<pc, result>> /\ FetchQuiet

PersonasFile(c) ==
  /\ pc[c] = "fetching"
  /\ \E spoilt \in SUBSET {SpoiltFile(c)} :
       /\ spoilt # {} => MixedPart(c) \in disk
       /\ disk' = (disk \ {MixedPart(c), SpoiltFile(c)}) \cup {FileOf(c)} \cup spoilt
  /\ NextFile(c, "parquet", "completed")
  /\ Fixed /\ UNCHANGED cancelled

PersonasFails(c) ==
  /\ pc[c] = "fetching"
  /\ EndWith(c, "failed", "error")
  /\ FetchQuiet

FetchStep(c) ==
  \/ NoClient(c) \/ NoDirectory(c) \/ FetchBegins(c) \/ FileThere(c) \/ FileAsked(c)
  \/ FileCancelled(c) \/ FileVerified(c) \/ Persist(c) \/ FileFails(c)
  \/ PersonasListed(c) \/ PersonasSkipped(c) \/ PersonasFetch(c) \/ PersonasFile(c)
  \/ PersonasFails(c)
=============================================================================
