---------------------------- MODULE DatasetFlow -----------------------------
(***************************************************************************)
(* dataset_import_start: the parquet files of a data set are read row by   *)
(* row, cut into chunks, embedded in batches and written by a task of its  *)
(* own.  All imports of a behaviour choose the same data set, split and    *)
(* sample, so they share its row, until somebody deletes it.  A row is     *)
(* named after the import that added it.  count is the number of batches.  *)
(***************************************************************************)
EXTENDS Tasks, Sequences

BatchNames == <<"batch 1", "batch 2">>
TotalNames == <<"total 0", "total 1", "total 2">>

Row(r) == <<r, "row">>
Batch(r, n) == <<r, BatchNames[n]>>          \* chunks of the row
Total(r, n) == <<r, TotalNames[n + 1]>>      \* what list_datasets says of them
About(c, r) == <<r, "import", c>>            \* import c is about row r

RowOf(c) == CHOOSE r \in Ids : About(c, r) \in disk
Rows == {r \in Ids : Row(r) \in disk}

DatasetTerminal == {"done", "failed", "cancelled"}

DatasetQuiet == Fixed /\ UNCHANGED <<cancelled, count, disk>>

\* No consent, no store, a strategy that cannot be written down.
DatasetRefused(c) ==
  /\ kind = "dataset" /\ pc[c] = "idle"
  /\ Goto(c, "done") /\ result' = [result EXCEPT ![c] = "refused"]
  /\ UNCHANGED told /\ DatasetQuiet

\* add_dataset returns the row there is for this selection, or adds one; then
\* Started, and the command returns the id of the import while its task runs.
\* (The row is looked up before the id is drawn; nothing comes between that
\* would tell the two orders apart.)
DatasetStarted(c) ==
  /\ kind = "dataset" /\ pc[c] = "begun"
  /\ disk' = IF Rows = {} THEN disk \cup {Row(id[c]), Total(id[c], 0), About(c, id[c])}
             ELSE disk \cup {About(c, r) : r \in Rows}
  /\ Goto(c, "resolve") /\ told' = Told(c, "started")
  /\ Fixed /\ UNCHANGED <<result, cancelled, count>>

\* The writer ends when the service does, and puts down how many chunks came
\* to it in this import: over what an earlier one put there, and also when the
\* import was cancelled or failed.  A row that is gone has no total.
Counted(c) ==
  LET r == RowOf(c)
  IN IF Row(r) \in disk
     THEN (disk \ {Total(r, n) : n \in 0 .. Len(BatchNames)}) \cup {Total(r, count[c])}
     ELSE disk

DatasetEnds(c, e, r) ==
  /\ EndWith(c, e, r) /\ disk' = Counted(c)
  /\ Fixed /\ UNCHANGED <<cancelled, count>>

\* The list of parquet files: a status (429 apart), a body of either form, one
\* file at least.
ParquetsResolved(c) ==
  /\ pc[c] = "resolve" /\ c \notin cancelled
  /\ Goto(c, "parquet_url") /\ told' = Told(c, "manifest")
  /\ UNCHANGED result /\ DatasetQuiet

\* HEAD, the footer and its magic, the metadata, the columns asked for.
ParquetOpened(c) ==
  /\ pc[c] = "parquet_url" /\ c \notin cancelled /\ count[c] < Len(BatchNames)
  /\ Goto(c, "rows") /\ told' = Told(c, "downloading")
  /\ UNCHANGED result /\ DatasetQuiet

\* Enough rows make a batch of chunks: it is embedded and written in one
\* transaction, chunks that are there already passed over.  (The writer may lag
\* behind; what was sent to it is written in any case before the import ends.)
Flush(c) ==
  /\ pc[c] = "rows" /\ c \notin cancelled /\ Row(RowOf(c)) \in disk
  /\ disk' = disk \cup {Batch(RowOf(c), count[c] + 1)}
  /\ count' = [count EXCEPT ![c] = @ + 1]
  /\ told' = Told(c, "embedding") /\ Goto(c, "parquet_url")
  /\ Fixed /\ UNCHANGED <<result, cancelled>>

\* The transaction fails, as it must once the row is deleted: the writer is gone.
FlushUnwritten(c) ==
  /\ pc[c] = "rows" /\ c \notin cancelled
  /\ Goto(c, "unwritten") /\ told' = Told(c, "embedding")
  /\ UNCHANGED result /\ DatasetQuiet

\* The service notices when it sends the next chunk, and calls that a
\* cancellation; it may have none left, or fail or be cancelled before.
WriterGone(c) ==
  /\ pc[c] = "unwritten"
  /\ \/ EndWith(c, "cancelled", "cancelled")
     \/ EndWith(c, "failed", "error")
  /\ DatasetQuiet

\* Rows enough, or no more of them: Writing, then Done.
DatasetDone(c) ==
  /\ pc[c] = "parquet_url"
  /\ DatasetEnds(c, "done", "ok")

\* The flag is looked at before the list, each file, each batch of rows and
\* each embedding.
DatasetCancelled(c) ==
  /\ pc[c] \in {"resolve", "parquet_url", "rows"} /\ c \in cancelled
  /\ DatasetEnds(c, "cancelled", "cancelled")

\* No client, a request, a file that is no parquet or lacks a column, a column
\* that is no text, the embedding; the total cannot be written.
DatasetFails(c) ==
  /\ pc[c] \in {"resolve", "parquet_url", "rows"}
  /\ \/ DatasetEnds(c, "failed", "error")
     \/ EndWith(c, "failed", "error") /\ DatasetQuiet

\* delete_dataset: the chunks and the row, in one transaction.
DeleteDataset(r) ==
  /\ kind = "dataset" /\ Row(r) \in disk
  /\ disk' = {x \in disk : x[1] # r \/ x[2] = "import"}
  /\ UNCHANGED <<kind, variant, id, pc, inflight, cancelled, open, told, result, count>>

DatasetStep(c) ==
  \/ DatasetStarted(c) \/ ParquetsResolved(c) \/ ParquetOpened(c) \/ Flush(c)
  \/ FlushUnwritten(c) \/ WriterGone(c) \/ DatasetDone(c) \/ DatasetCancelled(c)
  \/ DatasetFails(c)
=============================================================================
