--------------------------- MODULE CommandsProofs ---------------------------
(***************************************************************************)
(* What holds of the long commands for every set of calls and ids, and of  *)
(* things on disk: the page and the caller hear the same end, a success is *)
(* on disk, an older archive or workspace goes only for the one that       *)
(* replaces it, and every command leads the life of TaskLife.              *)
(*                                                                         *)
(* The proofs rest on two inductive invariants.  Control is about where a  *)
(* call stands, what it has told and returned and who owns an id; Honest   *)
(* ties the stage of a call to what it has put on disk by then.  Each is   *)
(* shown command by command, since a behaviour is about one kind.          *)
(***************************************************************************)
EXTENDS Commands, TLAPS

\* The stages of a call: those every command has, then those of each command.
Ends == {"idle", "returning", "done"}

InstallStages == {"begun", "prepare", "announce", "open_url", "download",
                  "bridge_closed", "spawn", "child", "unpack", "unpacking",
                  "attach", "copy", "post_check", "extract_done", "check_told",
                  "succeeded", "finish"}
RuntimeStages == {"clean", "fetch", "get_zip", "clear_bin", "unzip", "find",
                  "save", "tidy"}
PullStages == {"begun", "request", "stream", "transient", "permanent",
               "backoff", "look_up", "main", "mmproj"}
BenchStages == {"begun", "warm_up", "measure", "report"}
ExportStages == {"begun", "collect", "tmp", "archive", "encrypt", "finalize",
                 "commit"}
ImportStages == {"begun", "verify", "unzip_entry", "decrypt", "conflict",
                 "place", "place_beside"}
EmbeddingStages == {"begun", "file", "body", "persist"}
PersonasStages == {"list", "parquet", "fetching"}
DatasetStages == {"begun", "resolve", "parquet_url", "rows", "unwritten"}
VenvStages == {"probe", "make_venv", "pip"}
ToolStages == {"begun", "launch", "tool", "case", "answer"}

\* The stages of the command this behaviour is about.
Stages == CASE kind = "install" -> InstallStages
            [] kind = "runtime" -> RuntimeStages
            [] kind = "pull" -> PullStages
            [] kind = "bench" -> BenchStages
            [] kind = "export" -> ExportStages
            [] kind = "import" -> ImportStages
            [] kind = "embedding" -> EmbeddingStages
            [] kind = "personas" -> PersonasStages
            [] kind = "dataset" -> DatasetStages
            [] kind = "venv" -> VenvStages
            [] OTHER -> ToolStages

\* What may be told, and what may be returned.
Words == {"none", "started", "extract_starting", "download", "extract_done",
          "post_check", "finished", "failed", "cancelled", "status", "progress",
          "completed", "retrying", "counting", "compressing", "encrypting",
          "finalizing", "verifying", "extracting", "tier", "decrypting", "done",
          "manifest", "downloading", "embedding", "probing", "creating",
          "installing", "log"}
Results == {"none", "ok", "error", "refused", "sink_closed", "cancelled",
            "no build", "error_report"}

\* The types the invariants rest on.
TypeOK ==
  /\ kind \in Kinds
  /\ variant \in [Calls -> VariantsOf(kind)]
  /\ id \in [Calls -> Ids \cup {None}]
  /\ pc \in [Calls -> Ends \cup Stages]
  /\ inflight \in [Ids -> Calls \cup {None}]
  /\ cancelled \subseteq Calls /\ open \subseteq Calls
  /\ told \in [Calls -> Words] /\ result \in [Calls -> Results]
  /\ count \in [Calls -> Nat]

\* A call has nothing to return before it returns; but a report of bench is
\* judged before it is saved.
ResultsComeLast ==
  \A c \in Calls :
    /\ pc[c] \notin {"returning", "done", "report"} => result[c] = "none"
    /\ pc[c] = "report" => result[c] \in {"ok", "error_report"}

\* An id belongs to the call that runs on it, and to no other.
Owners ==
  /\ \A c \in Calls : Registered /\ Running(c) => id[c] \in Ids
  /\ \A i \in Ids, c \in Calls :
       inflight[i] = c <=> Registered /\ Running(c) /\ id[c] = i

\* Jobs that draw their ids draw different ones.
DrawnOnce ==
  DrawsId => \A c, d \in Calls : id[c] = id[d] /\ id[c] \in Ids => c = d

\* The first inductive invariant.
Control == TypeOK /\ ResultsComeLast /\ Owners /\ DrawnOnce

\* told agrees with returned
Agree(e, r) ==
  /\ e = "failed" => r = "error"
  /\ e = "cancelled" => r = "cancelled"
  /\ e \in {"finished", "completed", "done"} => r \in {"ok", "error_report"}

\* What every step of a command does to its call and leaves of the others,
\* whatever it does to the disk.
Moves(c) ==
  /\ pc' = [pc EXCEPT ![c] = pc'[c]] /\ pc'[c] \in Stages \cup {"returning"}
  /\ cancelled' \in {cancelled, cancelled \cup {c}}
  /\ told' = [told EXCEPT ![c] = told'[c]] /\ told'[c] \in Words
  /\ result' = [result EXCEPT ![c] = result'[c]] /\ result'[c] \in Results
  /\ count' = [count EXCEPT ![c] = count'[c]] /\ count'[c] \in Nat
  /\ pc'[c] \notin {"returning", "report"} => result'[c] = "none"
  /\ pc'[c] = "report" => result'[c] \in {"ok", "error_report"}
  /\ \/ told'[c] \notin Terminal(c) \/ told'[c] = told[c]
     \/ pc'[c] = "returning" /\ Agree(told'[c], result'[c])
  /\ Fixed

\* A step of a call at one of its stages.
Works(c) == pc[c] \in Stages /\ Moves(c)

\* The commands without a registry begin by themselves.
Begins(c) ==
  /\ ~Registered /\ pc[c] = "idle" /\ Moves(c)
  /\ pc'[c] \in {"clean", "list", "probe", "returning"}
  /\ result'[c] \in {"none", "error"}
  /\ UNCHANGED <<cancelled, count, disk>>

\* What is none of a call's steps: somebody asks some of the running calls to
\* stop, a page leaves, a data set is deleted.
Aside ==
  /\ UNCHANGED <<kind, variant, id, pc, inflight, told, result, count>>
  /\ open' \subseteq open
  /\ \E S \in SUBSET {c \in Calls : Running(c)} : cancelled' = cancelled \cup S
  /\ disk' = disk \/ \E i \in Ids : DeleteDataset(i)

\* The steps of each command, with the events that come in between.
InstallMove(c) ==
  \/ ManifestRefused(c) \/ Started(c) \/ Prepare(c) \/ AnnounceExtract(c)
  \/ OpenUrl(c) \/ BridgeClosed(c) \/ DownloadFails(c) \/ Downloaded(c)
  \/ Spawn(c) \/ KillChild(c) \/ ChildExits(c) \/ ChildTimesOut(c)
  \/ UnpackRefused(c) \/ UnpackBegins(c) \/ UnpackEntry(c) \/ UnpackFails(c)
  \/ Unpacked(c) \/ Attach(c) \/ Copy(c) \/ PostCheck(c) \/ ExtractDone(c)
  \/ CheckTold(c) \/ Finished(c) \/ DownloadEvent(c)

RuntimeMove(c) ==
  \/ Clean(c) \/ FetchRelease(c) \/ GetZip(c) \/ ClearBin(c) \/ Unzip(c)
  \/ Find(c) \/ Save(c) \/ Tidy(c) \/ RuntimeFails(c)

PullMove(c) ==
  \/ Dispatch(c) \/ RequestCancelled(c) \/ RequestAnswered(c)
  \/ StreamSuccess(c) \/ StreamBreaks(c) \/ StreamCancelled(c) \/ GiveUp(c)
  \/ Backoff(c) \/ BackoffCancelled(c) \/ TryAgain(c) \/ NotInCatalogue(c)
  \/ PullMain(c) \/ FileArrives(c) \/ PullFails(c) \/ StreamLine(c)
  \/ FileEvent(c)

BenchMove(c) ==
  \/ BenchRefused(c) \/ PreflightFails(c) \/ BenchStarted(c) \/ WarmUpEnds(c)
  \/ WarmedUp(c) \/ Measure(c) \/ Measured(c) \/ MeasureDropped(c)
  \/ BenchFinished(c)

ExportMove(c) ==
  \/ PortableRefused(c) \/ ExportRejected(c) \/ ExportStarted(c)
  \/ Collected(c) \/ CreateTmp(c) \/ ArchiveEntry(c) \/ ArchiveFingerprint(c)
  \/ EncryptKeys(c) \/ Finalize(c) \/ Commit(c) \/ ExportFails(c)

ImportMove(c) ==
  \/ PortableRefused(c) \/ ImportStarted(c) \/ Verified(c) \/ UnzipEntry(c)
  \/ ManifestRead(c) \/ DecryptKeys(c) \/ Conflict(c) \/ RemoveFails(c)
  \/ Place(c) \/ CopyFails(c) \/ ImportFails(c)

EmbeddingMove(c) ==
  \/ NoClient(c) \/ NoDirectory(c) \/ FetchBegins(c) \/ FileThere(c)
  \/ FileAsked(c) \/ FileCancelled(c) \/ FileVerified(c) \/ Persist(c)
  \/ FileFails(c) \/ FileBlock(c)

PersonasMove(c) ==
  \/ PersonasListed(c) \/ PersonasSkipped(c) \/ PersonasFetch(c) \/ PersonasFile(c)
  \/ PersonasFails(c) \/ PersonasProgress(c)

DatasetMove(c) ==
  \/ DatasetStarted(c) \/ ParquetsResolved(c) \/ ParquetOpened(c) \/ Flush(c)
  \/ FlushUnwritten(c) \/ WriterGone(c) \/ DatasetDone(c)
  \/ DatasetCancelled(c) \/ DatasetFails(c)

VenvMove(c) ==
  \/ VenvThere(c) \/ SystemPython(c) \/ NoSystemPython(c) \/ VenvMade(c)
  \/ VenvNotMade(c) \/ PipInstalled(c) \/ PipFails(c) \/ PipLine(c)

ToolMove(c) ==
  \/ ToolNotBegun(c) \/ ToolBegins(c) \/ Launched(c) \/ NotLaunched(c)
  \/ ToolDone(c) \/ ToolFails(c) \/ ToolCancelled(c) \/ CaseAsked(c)
  \/ CaseCancelled(c) \/ CaseAnswered(c) \/ CaseFails(c) \/ SuiteDone(c)
  \/ ToolLine(c)

\* A step of the command this behaviour is about.
Own(c) ==
  \/ kind = "install" /\ InstallMove(c)
  \/ kind = "runtime" /\ RuntimeMove(c)
  \/ kind = "pull" /\ PullMove(c)
  \/ kind = "bench" /\ BenchMove(c)
  \/ kind = "export" /\ ExportMove(c)
  \/ kind = "import" /\ ImportMove(c)
  \/ kind = "embedding" /\ EmbeddingMove(c)
  \/ kind = "personas" /\ PersonasMove(c)
  \/ kind = "dataset" /\ DatasetMove(c)
  \/ kind = "venv" /\ VenvMove(c)
  \/ kind = "tool" /\ ToolMove(c)

\* The stage of a call tells which command it is of.
LEMMA StageTells ==
  ASSUME TypeOK, NEW c \in Calls
  PROVE  /\ pc[c] \in InstallStages \ {"begun"} => kind = "install"
         /\ pc[c] \in RuntimeStages => kind = "runtime"
         /\ pc[c] \in PullStages \ {"begun"} => kind = "pull"
         /\ pc[c] \in BenchStages \ {"begun"} => kind = "bench"
         /\ pc[c] \in ExportStages \ {"begun"} => kind = "export"
         /\ pc[c] \in ImportStages \ {"begun"} => kind = "import"
         /\ pc[c] \in EmbeddingStages \ {"begun"} => kind = "embedding"
         /\ pc[c] \in PersonasStages => kind = "personas"
         /\ pc[c] \in DatasetStages \ {"begun"} => kind = "dataset"
         /\ pc[c] \in VenvStages => kind = "venv"
         /\ pc[c] \in ToolStages \ {"begun"} => kind = "tool"
<1> pc[c] \in Ends \cup Stages /\ kind \in Kinds
  BY DEF TypeOK
<1> USE DEF Stages, Ends, Kinds, InstallStages, RuntimeStages, PullStages, BenchStages,
           ExportStages, ImportStages, EmbeddingStages, PersonasStages, DatasetStages,
           VenvStages, ToolStages
<1>1. pc[c] \in InstallStages \ {"begun"} => kind = "install"
  OBVIOUS
<1>2. pc[c] \in RuntimeStages => kind = "runtime"
  OBVIOUS
<1>3. pc[c] \in PullStages \ {"begun"} => kind = "pull"
  OBVIOUS
<1>4. pc[c] \in BenchStages \ {"begun"} => kind = "bench"
  OBVIOUS
<1>5. pc[c] \in ExportStages \ {"begun"} => kind = "export"
  OBVIOUS
<1>6. pc[c] \in ImportStages \ {"begun"} => kind = "import"
  OBVIOUS
<1>7. pc[c] \in EmbeddingStages \ {"begun"} => kind = "embedding"
  OBVIOUS
<1>8. pc[c] \in PersonasStages => kind = "personas"
  OBVIOUS
<1>9. pc[c] \in DatasetStages \ {"begun"} => kind = "dataset"
  OBVIOUS
<1>10. pc[c] \in VenvStages => kind = "venv"
  OBVIOUS
<1>11. pc[c] \in ToolStages \ {"begun"} => kind = "tool"
  OBVIOUS
<1>12. QED
  BY <1>1, <1>2, <1>3, <1>4, <1>5, <1>6, <1>7, <1>8, <1>9, <1>10, <1>11, Zenon

\* One more of a call's entries.
LEMMA OneMore ==
  ASSUME count \in [Calls -> Nat], NEW c \in Calls,
         count' = [count EXCEPT ![c] = @ + 1]
  PROVE  /\ count' = [count EXCEPT ![c] = count'[c]]
         /\ count'[c] = count[c] + 1 /\ count'[c] \in Nat
<1>1. count[c] \in Nat /\ count'[c] = count[c] + 1
  OBVIOUS
<1>2. count' = [count EXCEPT ![c] = count'[c]]
  BY <1>1
<1>3. QED BY <1>1, <1>2

\* Only an install takes these steps.
LEMMA InstallIsInstall ==
  ASSUME TypeOK, NEW c \in Calls, InstallMove(c)
  PROVE  kind = "install"
BY StageTells
DEF InstallStages, InstallMove,
    ManifestRefused, Started, Prepare, AnnounceExtract, OpenUrl,
    BridgeClosed, DownloadFails, Downloaded, Spawn, KillChild, ChildExits,
    ChildTimesOut, UnpackRefused, UnpackBegins, UnpackEntry, UnpackFails,
    Unpacked, Attach, Copy, PostCheck, ExtractDone, CheckTold, Finished,
    DownloadEvent

\* Every step of an install is as Works says.
LEMMA InstallWorks ==
  ASSUME Control, NEW c \in Calls, kind = "install", InstallMove(c)
  PROVE  Works(c)
<1>2. Stages = InstallStages /\ Terminal(c) = InstallTerminal
  BY DEF Stages, Terminal
<1>3. /\ pc \in [Calls -> Ends \cup InstallStages]
      /\ told \in [Calls -> Words] /\ result \in [Calls -> Results]
      /\ count \in [Calls -> Nat] /\ variant[c] \in Methods
  BY <1>2 DEF Control, TypeOK, VariantsOf
<1>4. pc[c] \in InstallStages => result[c] = "none"
  BY DEF Control, ResultsComeLast, InstallStages
<1>5. count[c] \in Nat
  BY <1>3
<1> USE <1>2, <1>3, <1>4, <1>5
    DEF Works, Moves, Fixed, Goto, Return, EndWith, Told, Agree, Words,
        Results, Quiet, EmitOrCancel, Failed, Cancelled, InstallStages,
        InstallTerminal, Methods
<1>6. CASE ManifestRefused(c) BY <1>6 DEF ManifestRefused
<1>7. CASE Started(c)
  <2>1. CASE c \in open BY <1>7, <2>1 DEF Started
  <2>2. CASE c \notin open BY <1>7, <2>2 DEF Started
  <2>3. QED BY <2>1, <2>2
<1>8. CASE Prepare(c) BY <1>8 DEF Prepare
<1>9. CASE AnnounceExtract(c)
  <2>1. CASE c \in open BY <1>9, <2>1 DEF AnnounceExtract
  <2>2. CASE c \notin open BY <1>9, <2>2 DEF AnnounceExtract
  <2>3. QED BY <2>1, <2>2
<1>10. CASE OpenUrl(c) BY <1>10 DEF OpenUrl
<1>11. CASE BridgeClosed(c) BY <1>11 DEF BridgeClosed
<1>12. CASE DownloadFails(c) BY <1>12 DEF DownloadFails
<1>13. CASE Downloaded(c) BY <1>13 DEF Downloaded
<1>14. CASE Spawn(c) BY <1>14 DEF Spawn
<1>15. CASE KillChild(c) BY <1>15 DEF KillChild
<1>16. CASE ChildExits(c) BY <1>16 DEF ChildExits
<1>17. CASE ChildTimesOut(c) BY <1>17 DEF ChildTimesOut
<1>18. CASE UnpackRefused(c) BY <1>18 DEF UnpackRefused
<1>19. CASE UnpackBegins(c) BY <1>19 DEF UnpackBegins
<1>20. CASE UnpackEntry(c)
  <2>1. count' = [count EXCEPT ![c] = @ + 1]
    BY <1>20 DEF UnpackEntry
  <2>2. QED BY <1>20, <2>1, OneMore DEF UnpackEntry
<1>21. CASE UnpackFails(c) BY <1>21 DEF UnpackFails
<1>22. CASE Unpacked(c) BY <1>22 DEF Unpacked
<1>23. CASE Attach(c) BY <1>23 DEF Attach
<1>24. CASE Copy(c) BY <1>24 DEF Copy
<1>25. CASE PostCheck(c) BY <1>25 DEF PostCheck
<1>26. CASE ExtractDone(c)
  <2>1. CASE c \in open BY <1>26, <2>1 DEF ExtractDone
  <2>2. CASE c \notin open BY <1>26, <2>2 DEF ExtractDone
  <2>3. QED BY <2>1, <2>2
<1>27. CASE CheckTold(c)
  <2>1. CASE c \in open BY <1>27, <2>1 DEF CheckTold
  <2>2. CASE c \notin open BY <1>27, <2>2 DEF CheckTold
  <2>3. QED BY <2>1, <2>2
<1>28. CASE Finished(c) BY <1>28 DEF Finished
<1>29. CASE DownloadEvent(c) BY <1>29 DEF DownloadEvent
<1>30. QED
  BY <1>6, <1>7, <1>8, <1>9, <1>10, <1>11, <1>12, <1>13, <1>14, <1>15, <1>16,
     <1>17, <1>18, <1>19, <1>20, <1>21, <1>22, <1>23, <1>24, <1>25, <1>26,
     <1>27, <1>28, <1>29 DEF InstallMove

\* Only fetching a runtime takes these steps.
LEMMA RuntimeIsRuntime ==
  ASSUME TypeOK, NEW c \in Calls, RuntimeMove(c)
  PROVE  kind = "runtime"
BY StageTells
DEF RuntimeStages, RuntimeMove,
    Clean, FetchRelease, GetZip, ClearBin, Unzip, Find, Save, Tidy,
    RuntimeFails

\* Every step of fetching a runtime is as Works says.
LEMMA RuntimeWorks ==
  ASSUME Control, NEW c \in Calls, kind = "runtime", RuntimeMove(c)
  PROVE  Works(c)
<1>2. Stages = RuntimeStages /\ Terminal(c) = {"finished", "completed"}
  BY DEF Stages, Terminal
<1>3. /\ pc \in [Calls -> Ends \cup RuntimeStages]
      /\ told \in [Calls -> Words] /\ result \in [Calls -> Results]
      /\ count \in [Calls -> Nat]
  BY <1>2 DEF Control, TypeOK
<1>4. pc[c] \in RuntimeStages => result[c] = "none"
  BY DEF Control, ResultsComeLast, RuntimeStages
<1>5. count[c] \in Nat
  BY <1>3
<1> USE <1>2, <1>3, <1>4, <1>5
    DEF Works, Moves, Fixed, Goto, Return, EndWith, Told, Agree, Words,
        Results, RuntimeQuiet, Say, RuntimeStages
<1>6. CASE Clean(c) BY <1>6 DEF Clean
<1>7. CASE FetchRelease(c) BY <1>7 DEF FetchRelease
<1>8. CASE GetZip(c) BY <1>8 DEF GetZip
<1>9. CASE ClearBin(c) BY <1>9 DEF ClearBin
<1>10. CASE Unzip(c) BY <1>10 DEF Unzip
<1>11. CASE Find(c) BY <1>11 DEF Find
<1>12. CASE Save(c) BY <1>12 DEF Save
<1>13. CASE Tidy(c) BY <1>13 DEF Tidy
<1>14. CASE RuntimeFails(c) BY <1>14 DEF RuntimeFails
<1>15. QED
  BY <1>6, <1>7, <1>8, <1>9, <1>10, <1>11, <1>12, <1>13, <1>14 DEF RuntimeMove

\* Only a model pull takes these steps.
LEMMA PullIsPull ==
  ASSUME TypeOK, NEW c \in Calls, PullMove(c)
  PROVE  kind = "pull"
BY StageTells
DEF PullStages, PullMove,
    Dispatch, RequestCancelled, RequestAnswered, StreamSuccess, StreamBreaks,
    StreamCancelled, GiveUp, Backoff, BackoffCancelled, TryAgain,
    NotInCatalogue, PullMain, FileArrives, PullFails, StreamLine, FileEvent

\* Every step of a model pull is as Works says.
LEMMA PullWorks ==
  ASSUME Control, NEW c \in Calls, kind = "pull", PullMove(c)
  PROVE  Works(c)
<1>2. Stages = PullStages /\ Terminal(c) = PullTerminal
  BY DEF Stages, Terminal
<1>3. /\ pc \in [Calls -> Ends \cup PullStages]
      /\ told \in [Calls -> Words] /\ result \in [Calls -> Results]
      /\ count \in [Calls -> Nat] /\ variant[c] \in Runtimes
  BY <1>2 DEF Control, TypeOK, VariantsOf
<1>4. pc[c] \in PullStages => result[c] = "none"
  BY DEF Control, ResultsComeLast, PullStages
<1>5. count[c] \in Nat
  BY <1>3
<1> USE <1>2, <1>3, <1>4, <1>5
    DEF Works, Moves, Fixed, Goto, Return, EndWith, Told, Agree, Words,
        Results, PullQuiet, Heard, PullStages, PullTerminal, Runtimes
<1>6. CASE Dispatch(c)
  <2>1. CASE variant[c] = "ollama"
    <3>1. /\ pc[c] = "begun" /\ Goto(c, "request") /\ Fixed
          /\ count' = [count EXCEPT ![c] = 1]
          /\ UNCHANGED <<told, result, cancelled>>
      BY <1>6, <2>1 DEF Dispatch
    <3>2. count' = [count EXCEPT ![c] = count'[c]] /\ count'[c] \in Nat
      BY <3>1
    <3>3. QED BY <3>1, <3>2
  <2>2. CASE variant[c] = "lm_studio" BY <1>6, <2>2 DEF Dispatch
  <2>3. CASE variant[c] = "unsupported" BY <1>6, <2>3 DEF Dispatch
  <2>4. CASE variant[c] \notin {"ollama", "lm_studio", "unsupported"}
    BY <1>6, <2>4 DEF Dispatch
  <2>5. QED BY <2>1, <2>2, <2>3, <2>4
<1>7. CASE RequestCancelled(c) BY <1>7 DEF RequestCancelled
<1>8. CASE RequestAnswered(c) BY <1>8 DEF RequestAnswered
<1>9. CASE StreamSuccess(c) BY <1>9 DEF StreamSuccess
<1>10. CASE StreamBreaks(c) BY <1>10 DEF StreamBreaks
<1>11. CASE StreamCancelled(c) BY <1>11 DEF StreamCancelled
<1>12. CASE GiveUp(c) BY <1>12 DEF GiveUp
<1>13. CASE Backoff(c) BY <1>13 DEF Backoff
<1>14. CASE BackoffCancelled(c) BY <1>14 DEF BackoffCancelled
<1>15. CASE TryAgain(c)
  <2>1. count' = [count EXCEPT ![c] = @ + 1]
    BY <1>15 DEF TryAgain
  <2>2. QED BY <1>15, <2>1, OneMore DEF TryAgain
<1>16. CASE NotInCatalogue(c) BY <1>16 DEF NotInCatalogue
<1>17. CASE PullMain(c) BY <1>17 DEF PullMain
<1>18. CASE FileArrives(c) BY <1>18 DEF FileArrives
<1>19. CASE PullFails(c) BY <1>19 DEF PullFails
<1>20. CASE StreamLine(c) BY <1>20 DEF StreamLine
<1>21. CASE FileEvent(c) BY <1>21 DEF FileEvent
<1>22. QED
  BY <1>6, <1>7, <1>8, <1>9, <1>10, <1>11, <1>12, <1>13, <1>14, <1>15, <1>16,
     <1>17, <1>18, <1>19, <1>20, <1>21 DEF PullMove

\* Only a benchmark takes these steps.
LEMMA BenchIsBench ==
  ASSUME TypeOK, NEW c \in Calls, BenchMove(c)
  PROVE  kind = "bench"
BY StageTells
DEF BenchStages, BenchMove,
    BenchRefused, PreflightFails, BenchStarted, WarmUpEnds, WarmedUp,
    Measure, Measured, MeasureDropped, BenchFinished

\* Every step of a benchmark is as Works says.
LEMMA BenchWorks ==
  ASSUME Control, NEW c \in Calls, kind = "bench", BenchMove(c)
  PROVE  Works(c)
<1>2. Stages = BenchStages /\ Terminal(c) = {"finished", "completed"}
  BY DEF Stages, Terminal
<1>3. /\ pc \in [Calls -> Ends \cup BenchStages]
      /\ told \in [Calls -> Words] /\ result \in [Calls -> Results]
      /\ count \in [Calls -> Nat]
  BY <1>2 DEF Control, TypeOK
<1>4. /\ pc[c] \in BenchStages \ {"report"} => result[c] = "none"
      /\ pc[c] = "report" => result[c] \in {"ok", "error_report"}
  BY DEF Control, ResultsComeLast, BenchStages
<1>5. count[c] \in Nat
  BY <1>3
<1> USE <1>2, <1>3, <1>4, <1>5
    DEF Works, Moves, Fixed, Goto, Return, EndWith, Told, Agree, Words,
        Results, BenchQuiet, Aggregate, BenchStages
<1>6. CASE BenchRefused(c) BY <1>6 DEF BenchRefused
<1>7. CASE PreflightFails(c) BY <1>7 DEF PreflightFails
<1>8. CASE BenchStarted(c) BY <1>8 DEF BenchStarted
<1>9. CASE WarmUpEnds(c) BY <1>9 DEF WarmUpEnds
<1>10. CASE WarmedUp(c) BY <1>10 DEF WarmedUp
<1>11. CASE Measure(c)
  <2>1. count' = [count EXCEPT ![c] = @ + 1]
    BY <1>11 DEF Measure
  <2>2. QED BY <1>11, <2>1, OneMore DEF Measure
<1>12. CASE Measured(c) BY <1>12 DEF Measured
<1>13. CASE MeasureDropped(c) BY <1>13 DEF MeasureDropped
<1>14. CASE BenchFinished(c) BY <1>14 DEF BenchFinished
<1>15. QED
  BY <1>6, <1>7, <1>8, <1>9, <1>10, <1>11, <1>12, <1>13, <1>14 DEF BenchMove

\* Only an export takes these steps.
LEMMA ExportIsExport ==
  ASSUME TypeOK, NEW c \in Calls, ExportMove(c) /\ ~PortableRefused(c)
  PROVE  kind = "export"
BY StageTells
DEF ExportStages, ExportMove,
    ExportRejected, ExportStarted, Collected, CreateTmp, ArchiveEntry,
    ArchiveFingerprint, EncryptKeys, Finalize, Commit, ExportFails

\* Every step of an export is as Works says.
LEMMA ExportWorks ==
  ASSUME Control, NEW c \in Calls, kind = "export", ExportMove(c)
  PROVE  Works(c)
<1>2. Stages = ExportStages /\ Terminal(c) = PortableTerminal
  BY DEF Stages, Terminal
<1>3. /\ pc \in [Calls -> Ends \cup ExportStages]
      /\ told \in [Calls -> Words] /\ result \in [Calls -> Results]
      /\ count \in [Calls -> Nat] /\ variant[c] \in Contents
  BY <1>2 DEF Control, TypeOK, VariantsOf
<1>4. pc[c] \in ExportStages => result[c] = "none"
  BY DEF Control, ResultsComeLast, ExportStages
<1>5. count[c] \in Nat
  BY <1>3
<1> USE <1>2, <1>3, <1>4, <1>5
    DEF Works, Moves, Fixed, Goto, Return, EndWith, Told, Agree, Words,
        Results, PortableQuiet, PortableEnds, Heard, ExportStages,
        PortableTerminal, Contents
<1>6. CASE PortableRefused(c) BY <1>6 DEF PortableRefused
<1>7. CASE ExportRejected(c) BY <1>7 DEF ExportRejected
<1>8. CASE ExportStarted(c) BY <1>8 DEF ExportStarted
<1>9. CASE Collected(c) BY <1>9 DEF Collected
<1>10. CASE CreateTmp(c) BY <1>10 DEF CreateTmp
<1>11. CASE ArchiveEntry(c)
  <2>1. count' = [count EXCEPT ![c] = @ + 1]
    BY <1>11 DEF ArchiveEntry
  <2>2. QED BY <1>11, <2>1, OneMore DEF ArchiveEntry
<1>12. CASE ArchiveFingerprint(c) BY <1>12 DEF ArchiveFingerprint
<1>13. CASE EncryptKeys(c) BY <1>13 DEF EncryptKeys
<1>14. CASE Finalize(c) BY <1>14 DEF Finalize
<1>15. CASE Commit(c) BY <1>15 DEF Commit
<1>16. CASE ExportFails(c) BY <1>16 DEF ExportFails
<1>17. QED
  BY <1>6, <1>7, <1>8, <1>9, <1>10, <1>11, <1>12, <1>13, <1>14, <1>15, <1>16 DEF ExportMove

\* Only an import of an archive takes these steps.
LEMMA ImportIsImport ==
  ASSUME TypeOK, NEW c \in Calls, ImportMove(c) /\ ~PortableRefused(c)
  PROVE  kind = "import"
BY StageTells
DEF ImportStages, ImportMove,
    ImportStarted, Verified, UnzipEntry, ManifestRead, DecryptKeys, Conflict,
    RemoveFails, Place, CopyFails, ImportFails

\* Every step of an import of an archive is as Works says.
LEMMA ImportWorks ==
  ASSUME Control, NEW c \in Calls, kind = "import", ImportMove(c)
  PROVE  Works(c)
<1>2. Stages = ImportStages /\ Terminal(c) = PortableTerminal
  BY DEF Stages, Terminal
<1>3. /\ pc \in [Calls -> Ends \cup ImportStages]
      /\ told \in [Calls -> Words] /\ result \in [Calls -> Results]
      /\ count \in [Calls -> Nat] /\ variant[c] \in Policies
  BY <1>2 DEF Control, TypeOK, VariantsOf
<1>4. pc[c] \in ImportStages => result[c] = "none"
  BY DEF Control, ResultsComeLast, ImportStages
<1>5. count[c] \in Nat
  BY <1>3
<1> USE <1>2, <1>3, <1>4, <1>5
    DEF Works, Moves, Fixed, Goto, Return, EndWith, Told, Agree, Words,
        Results, PortableQuiet, PortableEnds, Heard, ImportStages,
        PortableTerminal, Policies
<1>6. CASE PortableRefused(c) BY <1>6 DEF PortableRefused
<1>7. CASE ImportStarted(c) BY <1>7 DEF ImportStarted
<1>8. CASE Verified(c) BY <1>8 DEF Verified
<1>9. CASE UnzipEntry(c)
  <2>1. count' = [count EXCEPT ![c] = @ + 1]
    BY <1>9 DEF UnzipEntry
  <2>2. QED BY <1>9, <2>1, OneMore DEF UnzipEntry
<1>10. CASE ManifestRead(c) BY <1>10 DEF ManifestRead
<1>11. CASE DecryptKeys(c) BY <1>11 DEF DecryptKeys
<1>12. CASE Conflict(c) BY <1>12 DEF Conflict
<1>13. CASE RemoveFails(c) BY <1>13 DEF RemoveFails
<1>14. CASE Place(c) BY <1>14 DEF Place
<1>15. CASE CopyFails(c) BY <1>15 DEF CopyFails
<1>16. CASE ImportFails(c) BY <1>16 DEF ImportFails
<1>17. QED
  BY <1>6, <1>7, <1>8, <1>9, <1>10, <1>11, <1>12, <1>13, <1>14, <1>15, <1>16 DEF ImportMove

\* Only a download of an embedding model takes these steps.
LEMMA EmbeddingIsEmbedding ==
  ASSUME TypeOK, NEW c \in Calls, EmbeddingMove(c)
  PROVE  kind = "embedding"
BY StageTells
DEF EmbeddingStages, EmbeddingMove,
    NoClient, NoDirectory, FetchBegins, FileThere, FileAsked, FileCancelled,
    FileVerified, Persist, FileFails, FileBlock

\* Every step of a download of an embedding model is as Works says.
LEMMA EmbeddingWorks ==
  ASSUME Control, NEW c \in Calls, kind = "embedding", EmbeddingMove(c)
  PROVE  Works(c)
<1>2. Stages = EmbeddingStages /\ Terminal(c) = EmbeddingTerminal
  BY DEF Stages, Terminal
<1>3. /\ pc \in [Calls -> Ends \cup EmbeddingStages]
      /\ told \in [Calls -> Words] /\ result \in [Calls -> Results]
      /\ count \in [Calls -> Nat]
  BY <1>2 DEF Control, TypeOK
<1>4. pc[c] \in EmbeddingStages => result[c] = "none"
  BY DEF Control, ResultsComeLast, EmbeddingStages
<1>5. count[c] \in Nat
  BY <1>3
<1> USE <1>2, <1>3, <1>4, <1>5
    DEF Works, Moves, Fixed, Goto, Return, EndWith, Told, Agree, Words,
        Results, FetchQuiet, NextFile, EmbeddingStages, EmbeddingTerminal
<1>6. CASE NoClient(c) BY <1>6 DEF NoClient
<1>7. CASE NoDirectory(c) BY <1>7 DEF NoDirectory
<1>8. CASE FetchBegins(c) BY <1>8 DEF FetchBegins
<1>9. CASE FileThere(c)
  <2>1. CASE count[c] < FileCount
    <3>1. count' = [count EXCEPT ![c] = @ + 1]
      BY <1>9, <2>1 DEF FileThere
    <3>2. QED BY <1>9, <2>1, <3>1, OneMore DEF FileThere
  <2>2. CASE ~(count[c] < FileCount) BY <1>9, <2>2 DEF FileThere
  <2>3. QED BY <2>1, <2>2
<1>10. CASE FileAsked(c) BY <1>10 DEF FileAsked
<1>11. CASE FileCancelled(c) BY <1>11 DEF FileCancelled
<1>12. CASE FileVerified(c) BY <1>12 DEF FileVerified
<1>13. CASE Persist(c)
  <2>1. CASE count[c] < FileCount
    <3>1. count' = [count EXCEPT ![c] = @ + 1]
      BY <1>13, <2>1 DEF Persist
    <3>2. QED BY <1>13, <2>1, <3>1, OneMore DEF Persist
  <2>2. CASE ~(count[c] < FileCount) BY <1>13, <2>2 DEF Persist
  <2>3. QED BY <2>1, <2>2
<1>14. CASE FileFails(c) BY <1>14 DEF FileFails
<1>15. CASE FileBlock(c) BY <1>15 DEF FileBlock
<1>16. QED
  BY <1>6, <1>7, <1>8, <1>9, <1>10, <1>11, <1>12, <1>13, <1>14, <1>15 DEF EmbeddingMove

\* Only fetching the personas takes these steps.
LEMMA PersonasIsPersonas ==
  ASSUME TypeOK, NEW c \in Calls, PersonasMove(c)
  PROVE  kind = "personas"
BY StageTells
DEF PersonasStages, PersonasMove,
    PersonasListed, PersonasSkipped, PersonasFetch, PersonasFile, PersonasFails,
    PersonasProgress

\* Every step of fetching the personas is as Works says.
LEMMA PersonasWorks ==
  ASSUME Control, NEW c \in Calls, kind = "personas", PersonasMove(c)
  PROVE  Works(c)
<1>2. Stages = PersonasStages /\ Terminal(c) = PersonasTerminal
  BY DEF Stages, Terminal
<1>3. /\ pc \in [Calls -> Ends \cup PersonasStages]
      /\ told \in [Calls -> Words] /\ result \in [Calls -> Results]
      /\ count \in [Calls -> Nat]
  BY <1>2 DEF Control, TypeOK
<1>4. pc[c] \in PersonasStages => result[c] = "none"
  BY DEF Control, ResultsComeLast, PersonasStages
<1>5. count[c] \in Nat
  BY <1>3
<1> USE <1>2, <1>3, <1>4, <1>5
    DEF Works, Moves, Fixed, Goto, Return, EndWith, Told, Agree, Words,
        Results, FetchQuiet, NextFile, PersonasStages, PersonasTerminal
<1>6. CASE PersonasListed(c)
  <2>1. CASE Goto(c, "parquet")
    <3>1. count' = [count EXCEPT ![c] = 1]
      BY <1>6, <2>1 DEF PersonasListed
    <3>2. count' = [count EXCEPT ![c] = count'[c]] /\ count'[c] \in Nat
      BY <3>1
    <3>3. QED BY <1>6, <2>1, <3>1, <3>2 DEF PersonasListed
  <2>2. CASE EndWith(c, "failed", "error") BY <1>6, <2>2 DEF PersonasListed
  <2>3. CASE Return(c, "error") BY <1>6, <2>3 DEF PersonasListed
  <2>4. QED BY <1>6, <2>1, <2>2, <2>3 DEF PersonasListed
<1>7. CASE PersonasSkipped(c)
  <2>1. CASE count[c] < FileCount
    <3>1. count' = [count EXCEPT ![c] = @ + 1]
      BY <1>7, <2>1 DEF PersonasSkipped
    <3>2. QED BY <1>7, <2>1, <3>1, OneMore DEF PersonasSkipped
  <2>2. CASE ~(count[c] < FileCount) BY <1>7, <2>2 DEF PersonasSkipped
  <2>3. QED BY <2>1, <2>2
<1>8. CASE PersonasFile(c)
  <2>1. CASE count[c] < FileCount
    <3>1. count' = [count EXCEPT ![c] = @ + 1]
      BY <1>8, <2>1 DEF PersonasFile
    <3>2. QED BY <1>8, <2>1, <3>1, OneMore DEF PersonasFile
  <2>2. CASE ~(count[c] < FileCount) BY <1>8, <2>2 DEF PersonasFile
  <2>3. QED BY <2>1, <2>2
<1>9. CASE PersonasFails(c) BY <1>9 DEF PersonasFails
<1>10. CASE PersonasProgress(c) BY <1>10 DEF PersonasProgress
<1>11. CASE PersonasFetch(c) BY <1>11 DEF PersonasFetch
<1>12. QED
  BY <1>6, <1>7, <1>8, <1>9, <1>10, <1>11 DEF PersonasMove

\* Only an import of a data set takes these steps.
LEMMA DatasetIsDataset ==
  ASSUME TypeOK, NEW c \in Calls, DatasetMove(c)
  PROVE  kind = "dataset"
BY StageTells
DEF DatasetStages, DatasetMove,
    DatasetStarted, ParquetsResolved, ParquetOpened, Flush, FlushUnwritten,
    WriterGone, DatasetDone, DatasetCancelled, DatasetFails

\* Every step of an import of a data set is as Works says.
LEMMA DatasetWorks ==
  ASSUME Control, NEW c \in Calls, kind = "dataset", DatasetMove(c)
  PROVE  Works(c)
<1>2. Stages = DatasetStages /\ Terminal(c) = DatasetTerminal
  BY DEF Stages, Terminal
<1>3. /\ pc \in [Calls -> Ends \cup DatasetStages]
      /\ told \in [Calls -> Words] /\ result \in [Calls -> Results]
      /\ count \in [Calls -> Nat]
  BY <1>2 DEF Control, TypeOK
<1>4. pc[c] \in DatasetStages => result[c] = "none"
  BY DEF Control, ResultsComeLast, DatasetStages
<1>5. count[c] \in Nat
  BY <1>3
<1> USE <1>2, <1>3, <1>4, <1>5
    DEF Works, Moves, Fixed, Goto, Return, EndWith, Told, Agree, Words,
        Results, DatasetQuiet, DatasetEnds, DatasetStages, DatasetTerminal
<1>6. CASE DatasetStarted(c) BY <1>6 DEF DatasetStarted
<1>7. CASE ParquetsResolved(c) BY <1>7 DEF ParquetsResolved
<1>8. CASE ParquetOpened(c) BY <1>8 DEF ParquetOpened
<1>9. CASE Flush(c)
  <2>1. count' = [count EXCEPT ![c] = @ + 1]
    BY <1>9 DEF Flush
  <2>2. QED BY <1>9, <2>1, OneMore DEF Flush
<1>10. CASE FlushUnwritten(c) BY <1>10 DEF FlushUnwritten
<1>11. CASE WriterGone(c) BY <1>11 DEF WriterGone
<1>12. CASE DatasetDone(c) BY <1>12 DEF DatasetDone
<1>13. CASE DatasetCancelled(c) BY <1>13 DEF DatasetCancelled
<1>14. CASE DatasetFails(c) BY <1>14 DEF DatasetFails
<1>15. QED
  BY <1>6, <1>7, <1>8, <1>9, <1>10, <1>11, <1>12, <1>13, <1>14 DEF DatasetMove

\* Only making the environment takes these steps.
LEMMA VenvIsVenv ==
  ASSUME TypeOK, NEW c \in Calls, VenvMove(c)
  PROVE  kind = "venv"
BY StageTells
DEF VenvStages, VenvMove,
    VenvThere, SystemPython, NoSystemPython, VenvMade, VenvNotMade,
    PipInstalled, PipFails, PipLine

\* Every step of making the environment is as Works says.
LEMMA VenvWorks ==
  ASSUME Control, NEW c \in Calls, kind = "venv", VenvMove(c)
  PROVE  Works(c)
<1>2. Stages = VenvStages /\ Terminal(c) = VenvTerminal
  BY DEF Stages, Terminal
<1>3. /\ pc \in [Calls -> Ends \cup VenvStages]
      /\ told \in [Calls -> Words] /\ result \in [Calls -> Results]
      /\ count \in [Calls -> Nat]
  BY <1>2 DEF Control, TypeOK
<1>4. pc[c] \in VenvStages => result[c] = "none"
  BY DEF Control, ResultsComeLast, VenvStages
<1>5. count[c] \in Nat
  BY <1>3
<1> USE <1>2, <1>3, <1>4, <1>5
    DEF Works, Moves, Fixed, Goto, Return, EndWith, Told, Agree, Words,
        Results, ToolQuiet, VenvFailed, VenvStages, VenvTerminal
<1>6. CASE VenvThere(c) BY <1>6 DEF VenvThere
<1>7. CASE SystemPython(c) BY <1>7 DEF SystemPython
<1>8. CASE NoSystemPython(c) BY <1>8 DEF NoSystemPython
<1>9. CASE VenvMade(c) BY <1>9 DEF VenvMade
<1>10. CASE VenvNotMade(c) BY <1>10 DEF VenvNotMade
<1>11. CASE PipInstalled(c) BY <1>11 DEF PipInstalled
<1>12. CASE PipFails(c) BY <1>12 DEF PipFails
<1>13. CASE PipLine(c) BY <1>13 DEF PipLine
<1>14. QED
  BY <1>6, <1>7, <1>8, <1>9, <1>10, <1>11, <1>12, <1>13 DEF VenvMove

\* Only running a tool takes these steps.
LEMMA ToolIsTool ==
  ASSUME TypeOK, NEW c \in Calls, ToolMove(c)
  PROVE  kind = "tool"
BY StageTells
DEF ToolStages, ToolMove,
    ToolNotBegun, ToolBegins, Launched, NotLaunched, ToolDone, ToolFails,
    ToolCancelled, CaseAsked, CaseCancelled, CaseAnswered, CaseFails,
    SuiteDone, ToolLine

\* Every step of running a tool is as Works says.
LEMMA ToolWorks ==
  ASSUME Control, NEW c \in Calls, kind = "tool", ToolMove(c)
  PROVE  Works(c)
<1>2. Stages = ToolStages /\ Terminal(c) = ToolTerminal
  BY DEF Stages, Terminal
<1>3. /\ pc \in [Calls -> Ends \cup ToolStages]
      /\ told \in [Calls -> Words] /\ result \in [Calls -> Results]
      /\ count \in [Calls -> Nat] /\ variant[c] \in Tools
  BY <1>2 DEF Control, TypeOK, VariantsOf
<1>4. pc[c] \in ToolStages => result[c] = "none"
  BY DEF Control, ResultsComeLast, ToolStages
<1>5. count[c] \in Nat
  BY <1>3
<1> USE <1>2, <1>3, <1>4, <1>5
    DEF Works, Moves, Fixed, Goto, Return, EndWith, Told, Agree, Words,
        Results, ToolQuiet, ToolFailed, ToolCancelledNow, ToolStages,
        ToolTerminal, Tools
<1>6. CASE ToolNotBegun(c) BY <1>6 DEF ToolNotBegun
<1>7. CASE ToolBegins(c) BY <1>7 DEF ToolBegins
<1>8. CASE Launched(c) BY <1>8 DEF Launched
<1>9. CASE NotLaunched(c) BY <1>9 DEF NotLaunched
<1>10. CASE ToolDone(c) BY <1>10 DEF ToolDone
<1>11. CASE ToolFails(c) BY <1>11 DEF ToolFails
<1>12. CASE ToolCancelled(c) BY <1>12 DEF ToolCancelled
<1>13. CASE CaseAsked(c) BY <1>13 DEF CaseAsked
<1>14. CASE CaseCancelled(c) BY <1>14 DEF CaseCancelled
<1>15. CASE CaseAnswered(c)
  <2>1. count' = [count EXCEPT ![c] = @ + 1]
    BY <1>15 DEF CaseAnswered
  <2>2. QED BY <1>15, <2>1, OneMore DEF CaseAnswered
<1>16. CASE CaseFails(c) BY <1>16 DEF CaseFails
<1>17. CASE SuiteDone(c) BY <1>17 DEF SuiteDone
<1>18. CASE ToolLine(c) BY <1>18 DEF ToolLine
<1>19. QED
  BY <1>6, <1>7, <1>8, <1>9, <1>10, <1>11, <1>12, <1>13, <1>14, <1>15, <1>16,
     <1>17, <1>18 DEF ToolMove


\* A step of a command is one of its own moves, or the drop of its guard.
LEMMA StepWorks ==
  ASSUME Control, NEW c \in Calls, Step(c)
  PROVE  (Own(c) /\ Works(c)) \/ Leave(c)
<1> TypeOK
  BY DEF Control
<1>1. CASE InstallStep(c)
  <2>1. InstallMove(c) BY <1>1 DEF InstallStep, InstallMove
  <2>2. QED BY <2>1, InstallIsInstall, InstallWorks DEF Own
<1>2. CASE PullStep(c)
  <2>1. PullMove(c) BY <1>2 DEF PullStep, PullMove
  <2>2. QED BY <2>1, PullIsPull, PullWorks DEF Own
<1>3. CASE RuntimeStep(c)
  <2>1. RuntimeMove(c) BY <1>3 DEF RuntimeStep, RuntimeMove
  <2>2. QED BY <2>1, RuntimeIsRuntime, RuntimeWorks DEF Own
<1>4. CASE BenchStep(c)
  <2>1. BenchMove(c) BY <1>4 DEF BenchStep, BenchMove
  <2>2. QED BY <2>1, BenchIsBench, BenchWorks DEF Own
<1>5. CASE PortableStep(c)
  <2>1. CASE PortableRefused(c)
    <3>1. kind \in {"export", "import"} /\ ExportMove(c) /\ ImportMove(c)
      BY <2>1 DEF PortableRefused, ExportMove, ImportMove
    <3>2. QED BY <3>1, ExportWorks, ImportWorks DEF Own
  <2>2. CASE ExportStep(c) /\ ~PortableRefused(c)
    <3>1. ExportMove(c) BY <2>2 DEF ExportStep, ExportMove
    <3>2. QED BY <2>2, <3>1, ExportIsExport, ExportWorks DEF Own
  <2>3. CASE ImportStep(c) /\ ~PortableRefused(c)
    <3>1. ImportMove(c) BY <2>3 DEF ImportStep, ImportMove
    <3>2. QED BY <2>3, <3>1, ImportIsImport, ImportWorks DEF Own
  <2>4. QED BY <1>5, <2>1, <2>2, <2>3 DEF PortableStep
<1>6. CASE FetchStep(c)
  <2>1. EmbeddingMove(c) \/ PersonasMove(c)
    BY <1>6 DEF FetchStep, EmbeddingMove, PersonasMove
  <2>2. QED
    BY <2>1, EmbeddingIsEmbedding, EmbeddingWorks, PersonasIsPersonas, PersonasWorks
    DEF Own
<1>7. CASE DatasetStep(c)
  <2>1. DatasetMove(c) BY <1>7 DEF DatasetStep, DatasetMove
  <2>2. QED BY <2>1, DatasetIsDataset, DatasetWorks DEF Own
<1>8. CASE ToolStep(c)
  <2>1. ToolMove(c) \/ VenvMove(c)
    BY <1>8 DEF ToolStep, ToolMove, VenvMove
  <2>2. QED BY <2>1, ToolIsTool, ToolWorks, VenvIsVenv, VenvWorks DEF Own
<1>9. QED
  BY <1>1, <1>2, <1>3, <1>4, <1>5, <1>6, <1>7, <1>8 DEF Step

\* So is what comes in between: output, progress, the blocks of a file.
LEMMA EventWorks ==
  ASSUME Control, NEW c \in Calls,
         \/ DownloadEvent(c) \/ StreamLine(c) \/ FileEvent(c) \/ FileBlock(c)
         \/ PersonasProgress(c) \/ PipLine(c) \/ ToolLine(c)
  PROVE  Own(c) /\ Works(c)
<1> TypeOK
  BY DEF Control
<1>1. CASE DownloadEvent(c)
  BY <1>1, InstallIsInstall, InstallWorks DEF Own, InstallMove
<1>2. CASE StreamLine(c) \/ FileEvent(c)
  BY <1>2, PullIsPull, PullWorks DEF Own, PullMove
<1>3. CASE FileBlock(c)
  BY <1>3, EmbeddingIsEmbedding, EmbeddingWorks DEF Own, EmbeddingMove
<1>4. CASE PersonasProgress(c)
  BY <1>4, PersonasIsPersonas, PersonasWorks DEF Own, PersonasMove
<1>5. CASE PipLine(c)
  BY <1>5, VenvIsVenv, VenvWorks DEF Own, VenvMove
<1>6. CASE ToolLine(c)
  BY <1>6, ToolIsTool, ToolWorks DEF Own, ToolMove
<1>7. QED
  BY <1>1, <1>2, <1>3, <1>4, <1>5, <1>6

\* A command without a registry begins as Begins says.
LEMMA BeginWorks ==
  ASSUME Control, NEW c \in Calls,
         Detect(c) \/ PersonasBegin(c) \/ BootstrapBegin(c)
  PROVE  Begins(c)
<1>1. /\ kind \in {"runtime", "personas", "venv"} /\ pc[c] = "idle" /\ ~Registered
  BY DEF Detect, PersonasBegin, BootstrapBegin, Registered
<1>2. /\ pc \in [Calls -> Ends \cup Stages] /\ result[c] = "none"
      /\ told \in [Calls -> Words] /\ result \in [Calls -> Results]
      /\ count \in [Calls -> Nat]
  BY <1>1 DEF Control, TypeOK, ResultsComeLast
<1>3. count[c] \in Nat /\ told[c] \in Words
  BY <1>2
<1> USE <1>1, <1>2, <1>3
    DEF Begins, Moves, Goto, Return, Told, Fixed, Words, Results, Agree
<1>4. CASE Detect(c)
  BY <1>4 DEF Detect, Say, RuntimeQuiet, Stages, RuntimeStages, Terminal
<1>5. CASE PersonasBegin(c)
  <2>1. kind = "personas"
    BY <1>5 DEF PersonasBegin
  <2>2. QED
    BY <1>5, <2>1
    DEF PersonasBegin, FetchQuiet, Stages, PersonasStages, Terminal, PersonasTerminal
<1>6. CASE BootstrapBegin(c)
  BY <1>6 DEF BootstrapBegin, ToolQuiet, Stages, VenvStages, Terminal, VenvTerminal
<1>7. QED
  BY <1>4, <1>5, <1>6

\* A call that does not begin.
Refused(c) == RefuseId(c) \/ DatasetRefused(c) \/ \E i \in Ids : AlreadyRunning(c, i)

\* Everything that can happen, sorted by what it means for the calls.
LEMMA NextCases ==
  ASSUME Control, [Next]_taskVars
  PROVE  \/ \E c \in Calls :
              \/ (Own(c) /\ Works(c)) \/ Begins(c) \/ Leave(c) \/ Refused(c)
              \/ \E i \in Ids : TryStart(c, i)
         \/ Aside
<1>1. ASSUME NEW c \in Calls, CloseChannel(c) \/ CancelBootstrap(c) PROVE Aside
  <2>1. CASE CloseChannel(c)
    <3>1. cancelled' = cancelled \cup {}
      BY <2>1 DEF CloseChannel
    <3>2. QED
      BY <2>1, <3>1 DEF CloseChannel, Aside
  <2>2. CASE CancelBootstrap(c)
    BY <2>2 DEF CancelBootstrap, Aside
  <2>3. QED BY <1>1, <2>1, <2>2
<1>2. ASSUME NEW i \in Ids, CancelId(i) PROVE Aside
  <2>1. inflight[i] \in Calls /\ Running(inflight[i])
    BY <1>2 DEF CancelId, Control, TypeOK, Owners
  <2>2. QED
    BY <1>2, <2>1 DEF CancelId, Aside
<1>3. ASSUME NEW i \in Ids, DeleteDataset(i) PROVE Aside
  <2>1. cancelled' = cancelled \cup {}
    BY <1>3 DEF DeleteDataset
  <2>2. QED
    BY <1>3, <2>1 DEF DeleteDataset, Aside
<1>4. ASSUME CancelAll PROVE Aside
  <2>1. {c \in Calls : Holds(c)} \subseteq {c \in Calls : Running(c)}
    BY DEF Holds, Control, Owners
  <2>2. QED
    BY <1>4, <2>1 DEF CancelAll, Aside
<1>5. ASSUME UNCHANGED taskVars PROVE Aside
  <2>1. cancelled' = cancelled \cup {}
    BY <1>5 DEF taskVars
  <2>2. QED
    BY <1>5, <2>1 DEF taskVars, Aside
<1>6. QED
  BY <1>1, <1>2, <1>3, <1>4, <1>5, BeginWorks, StepWorks, EventWorks DEF Next, Refused

\* Who owns what, and what a call may have returned so far.
LEMMA ControlCorrect == Spec => []Control
<1>1. Init => Control
  <2> SUFFICES ASSUME Init PROVE Control
    OBVIOUS
  <2>1. TypeOK
    <3>1. /\ pc \in [Calls -> Ends \cup Stages] /\ told \in [Calls -> Words]
          /\ result \in [Calls -> Results] /\ count \in [Calls -> Nat]
      BY DEF Init, TaskInit, Ends, Words, Results
    <3>2. QED BY <3>1 DEF Init, TaskInit, TypeOK
  <2>2. ResultsComeLast
    BY DEF Init, TaskInit, ResultsComeLast
  <2>3. Owners
    BY NoneIsNoCall DEF Init, TaskInit, Owners, Running
  <2>4. DrawnOnce
    BY NoneIsNoCall DEF Init, TaskInit, DrawnOnce
  <2>5. QED BY <2>1, <2>2, <2>3, <2>4 DEF Control
<1>2. Control /\ [Next]_taskVars => Control'
  <2> SUFFICES ASSUME Control, [Next]_taskVars PROVE Control'
    OBVIOUS
  <2> USE DEF Control
  <2>1. ASSUME NEW c \in Calls, Works(c) \/ Begins(c) PROVE Control'
    <3> USE <2>1 DEF Works, Begins, Moves, Fixed
    <3>1. Stages' = Stages /\ Registered' = Registered
      BY DEF Stages, Registered
    <3>2. TypeOK'
      <4>1. pc' \in [Calls -> Ends \cup Stages]
        BY DEF TypeOK, Ends
      <4>2. /\ told' \in [Calls -> Words] /\ result' \in [Calls -> Results]
            /\ count' \in [Calls -> Nat]
        BY DEF TypeOK
      <4>3. cancelled' \subseteq Calls
        BY DEF TypeOK
      <4>4. QED BY <3>1, <4>1, <4>2, <4>3 DEF TypeOK, VariantsOf
    <3>3. ResultsComeLast'
      <4> SUFFICES ASSUME NEW d \in Calls
                   PROVE  /\ pc'[d] \notin {"returning", "done", "report"} => result'[d] = "none"
                          /\ pc'[d] = "report" => result'[d] \in {"ok", "error_report"}
        BY DEF ResultsComeLast
      <4>1. CASE d = c BY <4>1
      <4>2. CASE d # c BY <4>2 DEF TypeOK, ResultsComeLast
      <4>3. QED BY <4>1, <4>2
    <3>4. "idle" \notin Stages \cup {"returning"} /\ "done" \notin Stages \cup {"returning"}
      BY DEF Stages, InstallStages, RuntimeStages, PullStages, BenchStages,
             ExportStages, ImportStages, EmbeddingStages, PersonasStages,
             DatasetStages, VenvStages, ToolStages
    <3>5. \A d \in Calls : Registered => (Running(d)' <=> Running(d))
      BY <3>4 DEF Running, TypeOK
    <3>6. Owners'
      BY <3>1, <3>5 DEF Owners
    <3>7. DrawnOnce'
      BY DEF DrawnOnce, DrawsId
    <3>8. QED BY <3>2, <3>3, <3>6, <3>7
  <2>2. ASSUME NEW c \in Calls, Leave(c) PROVE Control'
    <3> USE <2>2 DEF Leave, Goto
    <3>1. Stages' = Stages /\ Registered' = Registered
      BY DEF Stages, Registered
    <3>2. TypeOK'
      <4>1. pc' \in [Calls -> Ends \cup Stages]
        BY DEF TypeOK, Ends
      <4>2. inflight' \in [Ids -> Calls \cup {None}]
        BY DEF TypeOK
      <4>3. QED BY <3>1, <4>1, <4>2 DEF TypeOK, VariantsOf
    <3>3. ResultsComeLast'
      BY DEF TypeOK, ResultsComeLast
    <3>4. Owners'
      BY <3>1, NoneIsNoCall DEF TypeOK, Owners, Running
    <3>5. DrawnOnce'
      BY DEF DrawnOnce, DrawsId
    <3>6. QED BY <3>2, <3>3, <3>4, <3>5
  <2>3. ASSUME NEW c \in Calls, Refused(c) PROVE Control'
    <3>1. /\ pc[c] = "idle" /\ pc' = [pc EXCEPT ![c] = "done"]
          /\ result' = [result EXCEPT ![c] = "refused"]
          /\ \E i \in Ids \cup {None} : id' = [id EXCEPT ![c] = i]
          /\ DrawsId => id' = id
          /\ UNCHANGED <<kind, variant, inflight, cancelled, open, told, count>>
      <4>1. CASE RefuseId(c)
        <5>1. id' = [id EXCEPT ![c] = id[c]]
          BY <4>1 DEF RefuseId, Quiet, Fixed, TypeOK
        <5>2. id[c] \in Ids \cup {None}
          BY DEF TypeOK
        <5>3. QED BY <4>1, <5>1, <5>2 DEF RefuseId, Quiet, Fixed, Goto
      <4>2. CASE DatasetRefused(c)
        <5>1. id' = [id EXCEPT ![c] = id[c]]
          BY <4>2 DEF DatasetRefused, DatasetQuiet, Fixed, TypeOK
        <5>2. id[c] \in Ids \cup {None}
          BY DEF TypeOK
        <5>3. QED BY <4>2, <5>1, <5>2 DEF DatasetRefused, DatasetQuiet, Fixed, Goto
      <4>3. CASE \E i \in Ids : AlreadyRunning(c, i)
        BY <4>3 DEF AlreadyRunning, Goto
      <4>4. QED BY <2>3, <4>1, <4>2, <4>3 DEF Refused
    <3> USE <3>1
    <3>2. Stages' = Stages /\ Registered' = Registered
      BY DEF Stages, Registered
    <3>3. TypeOK'
      <4>1. pc' \in [Calls -> Ends \cup Stages]
        BY DEF TypeOK, Ends
      <4>2. result' \in [Calls -> Results]
        BY DEF TypeOK, Results
      <4>3. id' \in [Calls -> Ids \cup {None}]
        BY DEF TypeOK
      <4>4. QED BY <3>2, <4>1, <4>2, <4>3 DEF TypeOK, VariantsOf
    <3>4. ResultsComeLast'
      BY DEF TypeOK, ResultsComeLast
    <3>5. Owners'
      BY <3>2 DEF TypeOK, Owners, Running
    <3>6. DrawnOnce'
      BY DEF DrawnOnce, DrawsId
    <3>7. QED BY <3>3, <3>4, <3>5, <3>6
  <2>4. ASSUME NEW c \in Calls, NEW i \in Ids, TryStart(c, i) PROVE Control'
    <3> USE <2>4 DEF TryStart, Goto
    <3>1. Stages' = Stages /\ Registered' = Registered
      BY DEF Stages, Registered
    <3>2. TypeOK'
      <4>1. "begun" \in Stages
        BY DEF TypeOK, Registered, Kinds, Stages, InstallStages, PullStages, BenchStages,
             ExportStages, ImportStages, EmbeddingStages, DatasetStages, ToolStages
      <4>2. pc' \in [Calls -> Ends \cup Stages]
        BY <4>1 DEF TypeOK
      <4>3. id' \in [Calls -> Ids \cup {None}] /\ inflight' \in [Ids -> Calls \cup {None}]
        BY DEF TypeOK
      <4>4. QED BY <3>1, <4>2, <4>3 DEF TypeOK, VariantsOf
    <3>3. ResultsComeLast'
      BY DEF TypeOK, ResultsComeLast
    <3>4. Owners'
      BY <3>1, NoneIsNoCall DEF TypeOK, Owners, Running
    <3>5. DrawnOnce'
      BY DEF TypeOK, DrawnOnce, DrawsId
    <3>6. QED BY <3>2, <3>3, <3>4, <3>5
  <2>5. CASE Aside
    <3>1. Stages' = Stages /\ Registered' = Registered
      BY <2>5 DEF Stages, Registered, Aside
    <3>2. TypeOK'
      BY <2>5, <3>1 DEF Aside, TypeOK, VariantsOf
    <3>3. ResultsComeLast'
      BY <2>5 DEF Aside, ResultsComeLast
    <3>4. Owners'
      BY <2>5, <3>1 DEF Aside, Owners, Running
    <3>5. DrawnOnce'
      BY <2>5 DEF Aside, DrawnOnce, DrawsId
    <3>6. QED BY <3>2, <3>3, <3>4, <3>5
  <2>6. QED
    BY <2>1, <2>2, <2>3, <2>4, <2>5, NextCases
<1>3. QED
  BY <1>1, <1>2, PTL DEF Spec

-----------------------------------------------------------------------------
\* A page and the caller of its command hear the same end.
THEOREM LastWord == Spec => []LastWordAgrees
<1>1. Init => LastWordAgrees
  BY DEF Init, TaskInit, LastWordAgrees, Terminal, InstallTerminal, PullTerminal,
         PortableTerminal, EmbeddingTerminal, PersonasTerminal, DatasetTerminal,
         ToolTerminal, VenvTerminal
<1>2. Control /\ LastWordAgrees /\ [Next]_taskVars => LastWordAgrees'
  <2> SUFFICES ASSUME Control, LastWordAgrees, [Next]_taskVars,
                      NEW d \in Calls, told'[d] \in Terminal(d)'
               PROVE  pc'[d] \in {"returning", "done"} /\ Agree(told'[d], result'[d])
    BY DEF LastWordAgrees, Agree
  <2>1. told[d] \in Terminal(d) =>
          pc[d] \in {"returning", "done"} /\ Agree(told[d], result[d])
    BY DEF LastWordAgrees, Agree
  <2>2. kind' = kind /\ Terminal(d)' = Terminal(d)
    <3>1. kind' = kind
      BY NextCases
      DEF Works, Begins, Moves, Fixed, Leave, Refused, RefuseId, DatasetRefused, Quiet,
          DatasetQuiet, AlreadyRunning, TryStart, Aside
    <3>2. QED BY <3>1 DEF Terminal
  <2>3. ASSUME NEW c \in Calls, Works(c) \/ Begins(c)
        PROVE  pc'[d] \in {"returning", "done"} /\ Agree(told'[d], result'[d])
    <3>1. pc[c] \notin {"returning", "done"}
      BY <2>3
      DEF Works, Begins, Stages, InstallStages, RuntimeStages, PullStages, BenchStages,
          ExportStages, ImportStages, EmbeddingStages, PersonasStages,
          DatasetStages, VenvStages, ToolStages
    <3>2. CASE d = c
      BY <2>1, <2>2, <2>3, <3>1, <3>2 DEF Works, Begins, Moves
    <3>3. CASE d # c
      BY <2>1, <2>2, <2>3, <3>3 DEF Works, Begins, Moves, Control, TypeOK
    <3>4. QED BY <3>2, <3>3
  <2>4. ASSUME NEW c \in Calls, Leave(c)
        PROVE  pc'[d] \in {"returning", "done"} /\ Agree(told'[d], result'[d])
    BY <2>1, <2>2, <2>4 DEF Leave, Goto, Control, TypeOK
  <2>5. ASSUME NEW c \in Calls, Refused(c) \/ \E i \in Ids : TryStart(c, i)
        PROVE  pc'[d] \in {"returning", "done"} /\ Agree(told'[d], result'[d])
    BY <2>1, <2>2, <2>5
    DEF Refused, RefuseId, DatasetRefused, Quiet, DatasetQuiet, Fixed, AlreadyRunning,
        TryStart, Goto, Control, TypeOK
  <2>6. CASE Aside
    BY <2>1, <2>2, <2>6 DEF Aside
  <2>7. QED
    BY <2>3, <2>4, <2>5, <2>6, NextCases
<1>3. QED
  BY <1>1, <1>2, ControlCorrect, PTL DEF Spec

-----------------------------------------------------------------------------
\* The lives are as they were when no call begins or is done.
LEMMA LifeIsKept ==
  ASSUME \A d \in Calls : /\ pc'[d] = "idle" <=> pc[d] = "idle"
                          /\ pc'[d] = "done" <=> pc[d] = "done"
  PROVE  Life' = Life
BY DEF Life

\* A call that goes on lives; one that is done has ended.
LEMMA LifeGoesOn ==
  ASSUME TypeOK, NEW c \in Calls, NEW p, pc' = [pc EXCEPT ![c] = p]
  PROVE  /\ p \notin {"idle", "done"} => Life' = [Life EXCEPT ![c] = "running"]
         /\ p = "done" => Life' = [Life EXCEPT ![c] = "ended"]
BY DEF TypeOK, Life

\* A step of a call is a step of its life, or none; and nobody else's.
THEOREM CommandsImplementTaskLife == Spec => ImplementsTaskLife
<1>1. Init => Abstract!Init
  BY DEF Init, TaskInit, Abstract!Init, Life, Registered
<1>2. Control /\ [Next]_taskVars => [Abstract!Next]_(Abstract!lifeVars)
  <2> SUFFICES ASSUME Control, [Next]_taskVars
               PROVE  [Abstract!Next]_(Abstract!lifeVars)
    OBVIOUS
  <2> TypeOK /\ Owners
    BY DEF Control
  <2>1. ASSUME NEW c \in Calls, Works(c)
        PROVE  [Abstract!Next]_(Abstract!lifeVars)
    <3>1. /\ pc[c] \notin {"idle", "done"} /\ pc'[c] \notin {"idle", "done"}
          /\ pc' = [pc EXCEPT ![c] = pc'[c]]
      BY <2>1
      DEF Works, Moves, Stages, InstallStages, RuntimeStages, PullStages, BenchStages,
          ExportStages, ImportStages, EmbeddingStages, PersonasStages,
          DatasetStages, VenvStages, ToolStages
    <3>2. Life' = Life /\ Life[c] = "running"
      <4>1. \A d \in Calls : /\ pc'[d] = "idle" <=> pc[d] = "idle"
                             /\ pc'[d] = "done" <=> pc[d] = "done"
        BY <3>1 DEF TypeOK
      <4>2. QED BY <3>1, <4>1, LifeIsKept DEF Life
    <3>3. UNCHANGED <<Registered, inflight>>
      BY <2>1 DEF Works, Moves, Fixed, Registered
    <3>4. CASE cancelled' = cancelled
      BY <3>2, <3>3, <3>4 DEF Abstract!lifeVars
    <3>5. CASE cancelled' = cancelled \cup {c}
      <4>1. Abstract!Ask({c})
        BY <3>2, <3>3, <3>5 DEF Abstract!Ask
      <4>2. QED BY <4>1 DEF Abstract!Next
    <3>6. QED BY <2>1, <3>4, <3>5 DEF Works, Moves
  <2>2. ASSUME NEW c \in Calls, Begins(c)
        PROVE  Abstract!Next
    <3>1. Life' = [Life EXCEPT ![c] = "running"] /\ Life[c] = "idle"
      <4>1. pc'[c] \notin {"idle", "done"} /\ pc' = [pc EXCEPT ![c] = pc'[c]]
        BY <2>2
        DEF Begins, Moves, Stages, InstallStages, RuntimeStages, PullStages, BenchStages,
            ExportStages, ImportStages, EmbeddingStages, PersonasStages,
            DatasetStages, VenvStages, ToolStages
      <4>2. QED BY <2>2, <4>1, LifeGoesOn DEF Begins, Life
    <3>2. ~Registered /\ UNCHANGED <<Registered, inflight, cancelled>>
      BY <2>2 DEF Begins, Moves, Fixed, Registered
    <3>3. Abstract!BeginUnregistered(c)
      BY <3>1, <3>2 DEF Abstract!BeginUnregistered
    <3>4. QED BY <3>3 DEF Abstract!Next
  <2>3. ASSUME NEW c \in Calls, Leave(c)
        PROVE  Abstract!Next
    <3>1. Life' = [Life EXCEPT ![c] = "ended"] /\ Life[c] = "running"
      <4>1. pc' = [pc EXCEPT ![c] = "done"]
        BY <2>3 DEF Leave, Goto
      <4>2. QED BY <2>3, <4>1, LifeGoesOn DEF Leave, Life
    <3>2. UNCHANGED <<Registered, cancelled>>
      BY <2>3 DEF Leave, Registered
    <3>3. inflight' = [i \in Ids |-> IF inflight[i] = c THEN None ELSE inflight[i]]
      <4>1. Running(c)
        BY <2>3 DEF Leave, Running
      <4>2. CASE Registered
        BY <2>3, <4>1, <4>2 DEF Leave, Owners, TypeOK
      <4>3. CASE ~Registered
        BY <2>3, <4>3 DEF Leave, Owners, TypeOK
      <4>4. QED BY <4>2, <4>3
    <3>4. Abstract!End(c)
      BY <3>1, <3>2, <3>3 DEF Abstract!End
    <3>5. QED BY <3>4 DEF Abstract!Next
  <2>4. ASSUME NEW c \in Calls, Refused(c)
        PROVE  Abstract!Next
    <3>1. /\ pc[c] = "idle" /\ pc' = [pc EXCEPT ![c] = "done"]
          /\ UNCHANGED <<kind, inflight, cancelled>>
      BY <2>4
      DEF Refused, RefuseId, DatasetRefused, AlreadyRunning, Goto, Quiet, DatasetQuiet, Fixed
    <3>2. Life' = [Life EXCEPT ![c] = "ended"] /\ Life[c] = "idle"
      BY <3>1, LifeGoesOn DEF Life
    <3>3. Abstract!Refuse(c)
      BY <3>1, <3>2 DEF Abstract!Refuse, Registered
    <3>4. QED BY <3>3 DEF Abstract!Next
  <2>5. ASSUME NEW c \in Calls, NEW i \in Ids, TryStart(c, i)
        PROVE  Abstract!Next
    <3>1. Life' = [Life EXCEPT ![c] = "running"] /\ Life[c] = "idle"
      <4>1. pc' = [pc EXCEPT ![c] = pc'[c]] /\ pc'[c] = "begun" /\ pc[c] = "idle"
        BY <2>5 DEF TryStart, Goto, TypeOK
      <4>2. Life' = [Life EXCEPT ![c] = "running"]
        BY <4>1, LifeGoesOn
      <4>3. QED BY <4>1, <4>2 DEF Life
    <3>2. Abstract!Begin(c, i)
      BY <2>5, <3>1 DEF TryStart, Abstract!Begin, Registered
    <3>3. QED BY <3>2 DEF Abstract!Next
  <2>6. ASSUME Aside
        PROVE  Abstract!Next
    <3>1. PICK S \in SUBSET {c \in Calls : Running(c)} : cancelled' = cancelled \cup S
      BY <2>6 DEF Aside
    <3>2. UNCHANGED <<Registered, Life, inflight>>
      BY <2>6 DEF Aside, Registered, Life
    <3>3. S \subseteq {c \in Calls : Life[c] = "running"}
      BY DEF Running, Life
    <3>4. Abstract!Ask(S)
      BY <3>1, <3>2, <3>3 DEF Abstract!Ask
    <3>5. QED BY <3>1, <3>4 DEF Abstract!Next
  <2>7. QED
    BY <2>1, <2>2, <2>3, <2>4, <2>5, <2>6, NextCases
<1>3. QED
  BY <1>1, <1>2, ControlCorrect, PTL DEF Spec, ImplementsTaskLife, Abstract!Spec
-----------------------------------------------------------------------------
(***************************************************************************)
(* Of each command, what is true of a call between its steps so that what  *)
(* it calls a success is one.                                              *)
(***************************************************************************)

\* c is the only call so far.
Alone(c) == \A d \in Calls \ {c} : pc[d] = "idle"

\* Every path to the end of an install but open_url leaves it installed.
InstallHonest(c) ==
  /\ pc[c] = "prepare" => variant[c] # "shell"
  /\ pc[c] \in {"open_url", "succeeded"} => variant[c] = "open_url"
  /\ /\ variant[c] # "open_url"
     /\ \/ pc[c] \in {"post_check", "extract_done", "check_told", "finish"}
        \/ result[c] = "ok"
     => <<id[c], "installed">> \in disk

\* The settings name a binary, or are about to, or somebody is to blame.
RuntimeHonest ==
  Binary \notin disk /\ (Setting \in disk \/ \E c \in Calls : pc[c] = "save") =>
    \E c \in Calls : pc[c] \in {"unzip", "find"} \/ result[c] = "no build"

\* The files of a pull are there from the step that writes them on.
PullHonest(c) ==
  /\ pc[c] \in {"request", "stream", "transient", "permanent", "backoff"}
       => variant[c] = "ollama"
  /\ pc[c] = "mmproj" => variant[c] = "gguf_mmproj" /\ <<id[c], "main">> \in disk
  /\ result[c] = "ok" => \A f \in Files(variant[c]) : <<id[c], f>> \in disk

\* A benchmark that is a success has measured.
BenchHonest(c) == result[c] = "ok" => count[c] > 0

\* A successful export has left a whole archive, or an overlapping one has mixed in.
ExportHonest ==
  (\E c \in Calls : result[c] = "ok") =>
    Whole(None) \in disk \/ \E d \in Calls : pc[d] # "idle" /\ Mixed(d) \in disk

\* Nobody else is there to make a directory of its id, or at the target.
ImportHonest(c) ==
  Alone(c) =>
    /\ pc[c] \notin {"returning", "done"} => \A x \in disk : x[1] \notin Ids
    /\ pc[c] = "place" => At(None) = {}
    /\ result[c] = "ok" => \E p \in Ids \cup {None} : Whole(p) \in disk

\* The first file is there when the second is asked for.
EmbeddingHonest(c) ==
  /\ pc[c] \in {"file", "body", "persist"} => count[c] \in {1, 2}
  /\ pc[c] \in {"file", "body", "persist"} /\ count[c] = 2
       => <<id[c], "first">> \in disk
  /\ result[c] = "ok" => AllFiles(id[c]) \subseteq disk

\* The same for the two files of the personas.
PersonasHonest(c) ==
  /\ pc[c] \in {"parquet", "fetching"} => count[c] \in {1, 2}
  /\ pc[c] \in {"parquet", "fetching"} /\ count[c] = 2 => <<None, "first">> \in disk
  /\ result[c] = "ok" => AllFiles(None) \subseteq disk

\* Nothing is mixed or spoilt but where two calls have begun.
Spoiling == Spoilt \cup {<<None, "first mixed">>, <<None, "second mixed">>}
PersonasMet == Spoiling \cap disk = {} \/ \A c \in Calls : ~Alone(c)

\* A row is named after an import that has begun; there is one at most, and an
\* import is about one.  Its batches so far are there for as long as the row is.
Entered(c) == pc[c] \notin {"idle", "begun"}
\* An import that has its entry in the index, or had it to the end.
Importing(c) == pc[c] \in DatasetStages \ {"begun"} \/ result[c] = "ok"

RowsAreNamed ==
  /\ \A r \in Ids : Row(r) \in disk => \E e \in Calls : id[e] = r /\ Entered(e)
  /\ \A r, s \in Ids : Row(r) \in disk /\ Row(s) \in disk => r = s

ImportsAreAbout ==
  /\ \A c \in Calls, r \in Ids :
       About(c, r) \in disk =>
         Entered(c) /\ \E e \in Calls : id[e] = r /\ Entered(e)
  /\ \A c \in Calls, r, s \in Ids :
       About(c, r) \in disk /\ About(c, s) \in disk => r = s

DatasetHonest(c) ==
  /\ pc[c] \in {"idle", "begun"} => count[c] = 0
  /\ Importing(c) =>
       /\ count[c] <= 2 /\ (pc[c] = "rows" => count[c] < 2)
       /\ \E r \in Ids : About(c, r) \in disk
       /\ \A r \in Ids : About(c, r) \in disk /\ Row(r) \in disk =>
            \A n \in 1 .. count[c] : Batch(r, n) \in disk

\* Only the suite of cases counts; the other tools leave an output.
ToolHonest(c) ==
  /\ pc[c] \in {"launch", "tool"} => variant[c] # "eval"
  /\ pc[c] \in {"case", "answer"} => variant[c] = "eval"
  /\ result[c] = "ok" =>
       IF variant[c] = "eval" THEN count[c] = CaseCount ELSE Output(c) \in disk

\* The interpreter is there before its packages are.
VenvHonest(c) == Alone(c) /\ (pc[c] = "pip" \/ result[c] = "ok") => Python \in disk

\* The second inductive invariant.
Honest ==
  /\ Setting \in disk => kind = "runtime"
  /\ kind = "install" => \A c \in Calls : InstallHonest(c)
  /\ kind = "runtime" => RuntimeHonest
  /\ kind = "pull" => \A c \in Calls : PullHonest(c)
  /\ kind = "bench" => \A c \in Calls : BenchHonest(c)
  /\ kind = "export" => ExportHonest
  /\ kind = "import" => \A c \in Calls : ImportHonest(c)
  /\ kind = "embedding" => \A c \in Calls : EmbeddingHonest(c)
  /\ kind = "personas" => PersonasMet /\ \A c \in Calls : PersonasHonest(c)
  /\ kind = "dataset" => /\ RowsAreNamed /\ ImportsAreAbout
                         /\ \A c \in Calls : DatasetHonest(c)
  /\ kind = "tool" => \A c \in Calls : ToolHonest(c)
  /\ kind = "venv" => \A c \in Calls : VenvHonest(c)

\* A step that keeps what a success rests on, apart from what a command of its
\* kind may do: no setting comes to be, and what was at the target stays.
Neutral ==
  /\ Setting \in disk' => Setting \in disk
  /\ Old \in disk => Old \in disk'

\* A call that a step is not about, or that only begins, is refused or leaves.
Untouched(d) ==
  pc'[d] = pc[d] /\ result'[d] = result[d] /\ id'[d] = id[d] /\ count'[d] = count[d]

\* What a step of another call, or one that is refused, may do to d.
Bystander(d) ==
  \/ Untouched(d)
  \/ /\ pc[d] = "idle" /\ pc'[d] \in {"begun", "clean", "list", "probe", "returning", "done"}
     /\ result'[d] \in {"none", "error", "refused"} /\ count'[d] = count[d]
  \/ /\ pc[d] = "returning" /\ pc'[d] = "done"
     /\ result'[d] = result[d] /\ id'[d] = id[d] /\ count'[d] = count[d]

\* A step of a call leaves the other calls alone.
LEMMA OthersUntouched ==
  ASSUME TypeOK, NEW c \in Calls, Works(c)
  PROVE  \A d \in Calls \ {c} : Untouched(d)
BY DEF TypeOK, Works, Moves, Fixed, Untouched

\* The steps sorted by what they mean for the disk.
LEMMA DiskCases ==
  ASSUME Control, [Next]_taskVars
  PROVE  /\ UNCHANGED <<kind, variant>>
         /\ \/ \E c \in Calls : Own(c) /\ Works(c)
            \/ disk' = disk /\ \A d \in Calls : Bystander(d)
            \/ /\ \E i \in Ids : DeleteDataset(i)
               /\ \A d \in Calls : Untouched(d)
<1> TypeOK /\ ResultsComeLast
  BY DEF Control
<1>1. ASSUME NEW c \in Calls, Begins(c)
      PROVE  /\ UNCHANGED <<kind, variant>>
             /\ disk' = disk /\ \A d \in Calls : Bystander(d)
  BY <1>1 DEF TypeOK, Begins, Moves, Fixed, Bystander, Untouched
<1>2. ASSUME NEW c \in Calls, Leave(c)
      PROVE  /\ UNCHANGED <<kind, variant>>
             /\ disk' = disk /\ \A d \in Calls : Bystander(d)
  BY <1>2 DEF TypeOK, Leave, Goto, Bystander, Untouched
<1>3. ASSUME NEW c \in Calls, Refused(c)
      PROVE  /\ UNCHANGED <<kind, variant>>
             /\ disk' = disk /\ \A d \in Calls : Bystander(d)
  BY <1>3
  DEF TypeOK, Refused, RefuseId, DatasetRefused, AlreadyRunning, Goto, Quiet, DatasetQuiet,
      Fixed, Bystander, Untouched
<1>4. ASSUME NEW c \in Calls, NEW i \in Ids, TryStart(c, i)
      PROVE  /\ UNCHANGED <<kind, variant>>
             /\ disk' = disk /\ \A d \in Calls : Bystander(d)
  BY <1>4 DEF TypeOK, ResultsComeLast, TryStart, Goto, Bystander, Untouched
<1>5. ASSUME Aside
      PROVE  /\ UNCHANGED <<kind, variant>> /\ \A d \in Calls : Untouched(d)
             /\ disk' = disk \/ \E i \in Ids : DeleteDataset(i)
  BY <1>5 DEF Aside, Untouched
<1>6. ASSUME NEW c \in Calls, Works(c)
      PROVE  UNCHANGED <<kind, variant>>
  BY <1>6 DEF Works, Moves, Fixed
<1>7. QED
  BY <1>1, <1>2, <1>3, <1>4, <1>5, <1>6, NextCases DEF Bystander

\* Every step of an install keeps what its success rests on.
LEMMA InstallStaysHonest ==
  ASSUME Control, NEW c \in Calls, kind = "install", InstallMove(c), Works(c),
         \A d \in Calls : InstallHonest(d)
  PROVE  Neutral /\ \A d \in Calls : InstallHonest(d)'
<1>1. /\ pc \in [Calls -> Ends \cup InstallStages] /\ result \in [Calls -> Results]
      /\ variant[c] \in Methods /\ InstallHonest(c)
      /\ pc[c] \in InstallStages => result[c] = "none"
      /\ UNCHANGED <<id, variant>>
  BY DEF Control, TypeOK, ResultsComeLast, VariantsOf, Stages, InstallStages, Works, Moves, Fixed
<1> DEFINE Keeps == \A d \in Calls :
                      <<id[d], "installed">> \in disk => <<id[d], "installed">> \in disk'
<1>2. Neutral /\ Keeps /\ InstallHonest(c)'
  <2> USE <1>1 DEF InstallHonest, Neutral, Old, Setting, Goto, Return, EndWith, Failed, Cancelled,
                   Quiet, Fixed, EmitOrCancel, InstallStages, Methods
  <2>1. CASE \/ ManifestRefused(c) \/ Started(c) \/ AnnounceExtract(c) \/ DownloadFails(c)
             \/ Spawn(c) \/ KillChild(c) \/ ChildTimesOut(c) \/ UnpackRefused(c)
             \/ UnpackBegins(c) \/ UnpackFails(c) \/ DownloadEvent(c)
    BY <2>1
    DEF ManifestRefused, Started, AnnounceExtract, DownloadFails, Spawn, KillChild,
        ChildTimesOut, UnpackRefused, UnpackBegins, UnpackFails, DownloadEvent
  <2>2. CASE Prepare(c) BY <2>2 DEF Prepare, Unpacks
  <2>3. CASE OpenUrl(c) BY <2>3 DEF OpenUrl
  <2>4. CASE BridgeClosed(c) \/ Downloaded(c) BY <2>4 DEF BridgeClosed, Downloaded
  <2>5. CASE ChildExits(c) BY <2>5 DEF ChildExits
  <2>6. CASE UnpackEntry(c) \/ Unpacked(c) BY <2>6 DEF UnpackEntry, Unpacked
  <2>7. CASE Attach(c) BY <2>7 DEF Attach
  <2>8. CASE Copy(c) BY <2>8 DEF Copy
  <2>9. CASE PostCheck(c) \/ ExtractDone(c) \/ CheckTold(c)
    BY <2>9 DEF PostCheck, ExtractDone, CheckTold
  <2>10. CASE Finished(c) BY <2>10 DEF Finished
  <2>11. QED
    BY <2>1, <2>2, <2>3, <2>4, <2>5, <2>6, <2>7, <2>8, <2>9, <2>10 DEF InstallMove
<1>3. ASSUME NEW d \in Calls \ {c} PROVE InstallHonest(d)'
  BY <1>1, <1>2, OthersUntouched DEF Control, Untouched, InstallHonest
<1>4. QED
  BY <1>2, <1>3

\* Every step of fetching a runtime keeps what its success rests on.
LEMMA RuntimeStaysHonest ==
  ASSUME Control, NEW c \in Calls, kind = "runtime", RuntimeMove(c), Works(c),
         RuntimeHonest
  PROVE  (Old \in disk => Old \in disk') /\ RuntimeHonest'
<1>1. /\ pc \in [Calls -> Ends \cup RuntimeStages] /\ result \in [Calls -> Results]
      /\ pc[c] \in RuntimeStages /\ result[c] = "none"
      /\ pc' = [pc EXCEPT ![c] = pc'[c]] /\ result' = [result EXCEPT ![c] = result'[c]]
  BY DEF Control, TypeOK, ResultsComeLast, Stages, RuntimeStages, Works, Moves
<1> USE <1>1 DEF RuntimeHonest, Old, Setting, Binary, Archive, Goto, Return, EndWith,
                 RuntimeQuiet, Fixed, RuntimeStages
<1>2. CASE Clean(c) \/ FetchRelease(c) \/ GetZip(c)
  BY <1>2 DEF Clean, FetchRelease, GetZip
<1>3. CASE ClearBin(c) BY <1>3 DEF ClearBin
<1>4. CASE Unzip(c) BY <1>4 DEF Unzip
<1>5. CASE Find(c) BY <1>5 DEF Find
<1>6. CASE Save(c) BY <1>6 DEF Save
<1>7. CASE Tidy(c) BY <1>7 DEF Tidy
<1>8. CASE RuntimeFails(c) BY <1>8 DEF RuntimeFails
<1>9. QED
  BY <1>2, <1>3, <1>4, <1>5, <1>6, <1>7, <1>8 DEF RuntimeMove

\* Every step of a model pull keeps what its success rests on.
LEMMA PullStaysHonest ==
  ASSUME Control, NEW c \in Calls, kind = "pull", PullMove(c), Works(c),
         \A d \in Calls : PullHonest(d)
  PROVE  Neutral /\ \A d \in Calls : PullHonest(d)'
<1>1. /\ pc \in [Calls -> Ends \cup PullStages] /\ result \in [Calls -> Results]
      /\ variant[c] \in Runtimes /\ PullHonest(c)
      /\ pc[c] \in PullStages => result[c] = "none"
      /\ UNCHANGED <<id, variant>>
  BY DEF Control, TypeOK, ResultsComeLast, VariantsOf, Stages, PullStages, Works, Moves, Fixed
<1> DEFINE Keeps == disk \subseteq disk'
<1>2. Neutral /\ Keeps /\ PullHonest(c)'
  <2> USE <1>1 DEF PullHonest, Neutral, Old, Setting, Goto, Return, EndWith,
                   PullQuiet, Fixed, PullStages, Runtimes, Files
  <2>1. CASE Dispatch(c) BY <2>1 DEF Dispatch
  <2>2. CASE \/ RequestCancelled(c) \/ RequestAnswered(c) \/ StreamBreaks(c)
             \/ StreamCancelled(c) \/ GiveUp(c) \/ Backoff(c) \/ BackoffCancelled(c)
             \/ TryAgain(c) \/ NotInCatalogue(c) \/ StreamLine(c) \/ FileEvent(c)
    BY <2>2
    DEF RequestCancelled, RequestAnswered, StreamBreaks, StreamCancelled, GiveUp, Backoff,
        BackoffCancelled, TryAgain, NotInCatalogue, StreamLine, FileEvent
  <2>3. CASE StreamSuccess(c) BY <2>3 DEF StreamSuccess
  <2>4. CASE PullMain(c) BY <2>4 DEF PullMain
  <2>5. CASE FileArrives(c) BY <2>5 DEF FileArrives
  <2>6. CASE PullFails(c) BY <2>6 DEF PullFails
  <2>7. QED
    BY <2>1, <2>2, <2>3, <2>4, <2>5, <2>6 DEF PullMove
<1>3. ASSUME NEW d \in Calls \ {c} PROVE PullHonest(d)'
  BY <1>1, <1>2, OthersUntouched DEF Control, Untouched, PullHonest, Files
<1>4. QED
  BY <1>2, <1>3

\* Every step of a benchmark keeps what its success rests on.
LEMMA BenchStaysHonest ==
  ASSUME Control, NEW c \in Calls, kind = "bench", BenchMove(c), Works(c),
         \A d \in Calls : BenchHonest(d)
  PROVE  Neutral /\ \A d \in Calls : BenchHonest(d)'
<1>1. /\ pc \in [Calls -> Ends \cup BenchStages] /\ result \in [Calls -> Results]
      /\ count \in [Calls -> Nat] /\ count[c] \in Nat /\ BenchHonest(c)
      /\ pc[c] \in BenchStages \ {"report"} => result[c] = "none"
  BY DEF Control, TypeOK, ResultsComeLast, Stages, BenchStages
<1>2. Neutral /\ BenchHonest(c)'
  <2> USE <1>1 DEF BenchHonest, Neutral, Old, Setting, Goto, Return, EndWith,
                   BenchQuiet, Fixed, BenchStages, Aggregate
  <2>1. CASE \/ BenchRefused(c) \/ PreflightFails(c) \/ BenchStarted(c) \/ WarmUpEnds(c)
             \/ WarmedUp(c) \/ Measure(c) \/ MeasureDropped(c)
    BY <2>1
    DEF BenchRefused, PreflightFails, BenchStarted, WarmUpEnds, WarmedUp, Measure,
        MeasureDropped
  <2>2. CASE Measured(c) BY <2>2 DEF Measured
  <2>3. CASE BenchFinished(c) BY <2>3 DEF BenchFinished, Report, Error
  <2>4. QED
    BY <2>1, <2>2, <2>3 DEF BenchMove
<1>3. ASSUME NEW d \in Calls \ {c} PROVE BenchHonest(d)'
  BY OthersUntouched DEF Control, Untouched, BenchHonest
<1>4. QED
  BY <1>2, <1>3

\* Nothing of an export takes away what is whole, but the archive that replaces it.
LEMMA ExportStaysHonest ==
  ASSUME Control, NEW c \in Calls, kind = "export", ExportMove(c), Works(c), ExportHonest
  PROVE  /\ Setting \in disk' => Setting \in disk
         /\ Old \in disk => Old \in disk' \/ OldIsGivenUp
         /\ ExportHonest'
<1>1. /\ pc \in [Calls -> Ends \cup ExportStages] /\ result \in [Calls -> Results]
      /\ pc[c] \in ExportStages /\ result[c] = "none"
      /\ result' = [result EXCEPT ![c] = result'[c]] /\ UNCHANGED id
  BY DEF Control, TypeOK, ResultsComeLast, Stages, ExportStages, Works, Moves, Fixed
<1> USE <1>1 DEF ExportHonest, Old, Setting, Whole, Part, Tmp, Mixed, Writing, Goto, Return,
                 PortableQuiet, PortableEnds, Fixed, ExportStages
<1>2. CASE \/ PortableRefused(c) \/ ExportRejected(c) \/ ExportStarted(c) \/ Collected(c)
           \/ ArchiveEntry(c) \/ ArchiveFingerprint(c) \/ EncryptKeys(c) \/ Finalize(c)
  BY <1>2
  DEF PortableRefused, ExportRejected, ExportStarted, Collected, ArchiveEntry,
      ArchiveFingerprint, EncryptKeys, Finalize
<1>3. CASE CreateTmp(c) BY <1>3 DEF CreateTmp
<1>4. CASE Commit(c)
  <2>1. OldIsGivenUp
    BY <1>4 DEF Commit, OldIsGivenUp
  <2>2. QED BY <1>4, <2>1 DEF Commit
<1>5. CASE ExportFails(c) BY <1>5 DEF ExportFails
<1>6. QED
  BY <1>2, <1>3, <1>4, <1>5 DEF ExportMove

\* Every step of an import of an archive keeps what its success rests on.
LEMMA ImportStaysHonest ==
  ASSUME Control, NEW c \in Calls, kind = "import", ImportMove(c), Works(c),
         \A d \in Calls : ImportHonest(d)
  PROVE  /\ Setting \in disk' => Setting \in disk
         /\ Old \in disk => Old \in disk' \/ OldIsGivenUp
         /\ \A d \in Calls : ImportHonest(d)'
<1>1. /\ pc \in [Calls -> Ends \cup ImportStages] /\ result \in [Calls -> Results]
      /\ pc[c] \in ImportStages /\ result[c] = "none" /\ id[c] \in Ids
      /\ pc' = [pc EXCEPT ![c] = pc'[c]] /\ pc'[c] # "idle"
      /\ result' = [result EXCEPT ![c] = result'[c]] /\ UNCHANGED <<id, variant>>
  BY DEF Control, TypeOK, ResultsComeLast, Owners, Registered, Running, Stages, ImportStages,
         Works, Moves, Fixed
<1>2. /\ Setting \in disk' => Setting \in disk
      /\ Old \in disk => Old \in disk' \/ OldIsGivenUp
      /\ ImportHonest(c)'
  <2>0. ImportHonest(c) /\ (Alone(c)' <=> Alone(c))
    BY <1>1 DEF Alone
  <2> USE <1>1, <2>0 DEF ImportHonest, Old, Setting, Whole, Part, At, Goto, Return,
                 PortableQuiet, PortableEnds, Fixed, ImportStages
  <2>1. CASE \/ PortableRefused(c) \/ ImportStarted(c) \/ Verified(c) \/ UnzipEntry(c)
             \/ ManifestRead(c) \/ DecryptKeys(c) \/ ImportFails(c)
    BY <2>1
    DEF PortableRefused, ImportStarted, Verified, UnzipEntry, ManifestRead, DecryptKeys,
        ImportFails
  <2>2. CASE Conflict(c)
    <3>1. CASE variant[c] = "overwrite"
      <4>1. OldIsGivenUp
        BY <2>2, <3>1 DEF Conflict, OldIsGivenUp
      <4>2. QED BY <2>2, <3>1, <4>1 DEF Conflict
    <3>2. CASE variant[c] # "overwrite"
      BY <2>2, <3>2 DEF Conflict
    <3>3. QED BY <3>1, <3>2
  <2>3. CASE RemoveFails(c)
    <3>1. OldIsGivenUp
      BY <2>3 DEF RemoveFails, OldIsGivenUp
    <3>2. QED BY <2>3, <3>1 DEF RemoveFails
  <2>4. CASE Place(c)
    <3>1. PICK p \in Places(c) :
            disk' = (disk \ {Whole(p)}) \cup {IF At(p) = {} THEN Whole(p) ELSE Part(p)}
      BY <2>4 DEF Place
    <3>2. pc'[c] = "returning" /\ pc[c] \in {"place", "place_beside"}
      BY <2>4 DEF Place
    <3>3. ASSUME Alone(c)
          PROVE  p \in Ids \cup {None} /\ At(p) = {}
      <4>1. CASE pc[c] = "place"
        BY <3>3, <4>1 DEF Places
      <4>2. CASE pc[c] = "place_beside"
        <5>1. p = id[c]
          BY <3>3, <4>2 DEF Places, Beside, Alone
        <5>2. QED BY <3>3, <4>2, <5>1
      <4>3. QED BY <3>2, <4>1, <4>2
    <3>4. Setting \notin disk => Setting \notin disk'
      BY <3>1
    <3>5. Old \in disk => Old \in disk'
      BY <3>1
    <3>6. Alone(c) => Whole(p) \in disk'
      BY <3>1, <3>3
    <3>7. QED BY <3>2, <3>3, <3>4, <3>5, <3>6
  <2>5. CASE CopyFails(c)
    BY <2>5 DEF CopyFails
  <2>6. QED
    BY <2>1, <2>2, <2>3, <2>4, <2>5 DEF ImportMove
<1>3. ASSUME NEW d \in Calls \ {c} PROVE ImportHonest(d)'
  BY <1>1 DEF ImportHonest, Alone
<1>4. QED
  BY <1>2, <1>3

\* A file is there once its number is passed.
LEMMA NextFileMeans ==
  ASSUME Control, NEW c \in Calls, NEW e, NEW last, NextFile(c, e, last),
         count[c] \in {1, 2}, last # "none"
  PROVE  \/ /\ count[c] = 1 /\ count'[c] = 2 /\ pc'[c] = e /\ result' = result
         \/ /\ count[c] = 2 /\ count' = count /\ pc'[c] = "returning"
            /\ result'[c] = "ok"
<1>1. pc \in [Calls -> Ends \cup Stages] /\ count \in [Calls -> Nat]
      /\ result \in [Calls -> Results]
  BY DEF Control, TypeOK
<1>2. CASE count[c] = 1
  BY <1>1, <1>2 DEF NextFile, FileCount, Goto
<1>3. CASE count[c] = 2
  BY <1>1, <1>3 DEF NextFile, FileCount, EndWith, Return, Goto
<1>4. QED
  BY <1>2, <1>3

\* Every step of a download of an embedding model keeps what its success rests on.
LEMMA EmbeddingStaysHonest ==
  ASSUME Control, NEW c \in Calls, kind = "embedding", EmbeddingMove(c), Works(c),
         \A d \in Calls : EmbeddingHonest(d)
  PROVE  Neutral /\ \A d \in Calls : EmbeddingHonest(d)'
<1>1. /\ pc \in [Calls -> Ends \cup EmbeddingStages] /\ result \in [Calls -> Results]
      /\ count \in [Calls -> Nat] /\ EmbeddingHonest(c)
      /\ pc[c] \in EmbeddingStages /\ result[c] = "none"
      /\ UNCHANGED <<id, kind>>
  BY DEF Control, TypeOK, ResultsComeLast, Stages, EmbeddingStages, Works, Moves, Fixed
<1> DEFINE Keeps == disk \subseteq disk'
<1>2. Neutral /\ Keeps /\ EmbeddingHonest(c)'
  <2> USE <1>1 DEF EmbeddingHonest, Neutral, Old, Setting, Goto, Return, EndWith,
                   FetchQuiet, Fixed, EmbeddingStages, FileOf, AllFiles
  <2>1. CASE \/ NoClient(c) \/ NoDirectory(c) \/ FetchBegins(c) \/ FileAsked(c)
             \/ FileCancelled(c) \/ FileVerified(c) \/ FileFails(c) \/ FileBlock(c)
    BY <2>1
    DEF NoClient, NoDirectory, FetchBegins, FileAsked, FileCancelled, FileVerified,
        FileFails, FileBlock
  <2>2. CASE FileThere(c)
    <3>1. NextFile(c, "file", "done") /\ FileOf(c) \in disk /\ disk' = disk /\ pc[c] = "file"
      BY <2>2 DEF FileThere
    <3>2. QED BY <3>1, NextFileMeans
  <2>3. CASE Persist(c)
    <3>1. NextFile(c, "file", "done") /\ disk' = disk \cup {FileOf(c)} /\ pc[c] = "persist"
      BY <2>3 DEF Persist
    <3>2. QED BY <3>1, NextFileMeans
  <2>4. QED
    BY <2>1, <2>2, <2>3 DEF EmbeddingMove
<1>3. ASSUME NEW d \in Calls \ {c} PROVE EmbeddingHonest(d)'
  BY <1>1, <1>2, OthersUntouched DEF Control, Untouched, EmbeddingHonest, AllFiles
<1>4. QED
  BY <1>2, <1>3

\* Every step of fetching the personas keeps what its success rests on.
LEMMA PersonasStaysHonest ==
  ASSUME Control, NEW c \in Calls, kind = "personas", PersonasMove(c), Works(c),
         PersonasMet, \A d \in Calls : PersonasHonest(d)
  PROVE  Neutral /\ PersonasMet' /\ \A d \in Calls : PersonasHonest(d)'
<1>0. /\ Setting \notin {FileOf(c), SpoiltFile(c)} /\ Old \notin {MixedPart(c), SpoiltFile(c)}
      /\ \A x \in AllFiles(None) : x \notin {MixedPart(c), SpoiltFile(c)}
  <2>1. MixedPart(c)[2] \in {"first mixed", "second mixed"}
    BY DEF MixedPart
  <2>2. SpoiltFile(c)[2] \in {"first spoilt", "second spoilt"}
    BY DEF SpoiltFile
  <2>3. FileOf(c)[2] \in {"first", "second"} /\ \A x \in AllFiles(None) : x[2] \in {"first", "second"}
    BY DEF FileOf, AllFiles
  <2>4. Setting[2] = "llama_server_path" /\ Old[2] = "old"
    BY DEF Setting, Old
  <2>5. QED BY <2>1, <2>2, <2>3, <2>4
<1>1. /\ pc \in [Calls -> Ends \cup PersonasStages] /\ result \in [Calls -> Results]
      /\ count \in [Calls -> Nat] /\ PersonasHonest(c)
      /\ pc[c] \in PersonasStages /\ result[c] = "none"
      /\ UNCHANGED <<id, kind>>
  BY DEF Control, TypeOK, ResultsComeLast, Stages, PersonasStages, Works, Moves, Fixed
<1> DEFINE Keeps == AllFiles(None) \cap disk \subseteq disk'
<1>2. Neutral /\ Keeps /\ PersonasHonest(c)'
  <2> USE <1>1 DEF PersonasHonest, Neutral, Old, Setting, Goto, Return, EndWith,
                   FetchQuiet, Fixed, PersonasStages, FileOf, AllFiles
  <2>1. CASE PersonasListed(c) \/ PersonasFails(c) \/ PersonasProgress(c)
    BY <2>1 DEF PersonasListed, PersonasFails, PersonasProgress
  <2>2. CASE PersonasSkipped(c)
    <3>1. /\ NextFile(c, "parquet", "completed") /\ FileOf(c) \in disk /\ disk' = disk
          /\ pc[c] = "parquet"
      BY <2>2 DEF PersonasSkipped
    <3>2. QED BY <3>1, NextFileMeans
  <2>3. CASE PersonasFile(c)
    <3>1. NextFile(c, "parquet", "completed") /\ pc[c] = "fetching" /\ FileOf(c) \in disk'
      BY <2>3 DEF PersonasFile
    <3>2. PICK spoilt \in SUBSET {SpoiltFile(c)} :
            disk' = (disk \ {MixedPart(c), SpoiltFile(c)}) \cup {FileOf(c)} \cup spoilt
      BY <2>3 DEF PersonasFile
    <3>3. Neutral /\ Keeps
      <4>1. /\ \A x \in disk : x \in disk' \/ x \in {MixedPart(c), SpoiltFile(c)}
            /\ \A x \in disk' : x \in disk \/ x \in {FileOf(c), SpoiltFile(c)}
        BY <3>2
      <4>2. Neutral
        BY <1>0, <4>1
      <4>3. Keeps
        BY <1>0, <4>1
      <4>4. QED BY <4>2, <4>3
    <3>4. count[c] = 1 => <<None, "first">> \in disk'
      BY <3>1
    <3>5. count[c] = 2 => AllFiles(None) \subseteq disk'
      BY <3>1, <3>3
    <3>6. PersonasHonest(c)'
      BY <3>1, <3>4, <3>5, NextFileMeans
    <3>7. QED BY <3>3, <3>6
  <2>4. CASE PersonasFetch(c)
    BY <2>4 DEF PersonasFetch, MixedPart
  <2>5. QED
    BY <2>1, <2>2, <2>3, <2>4 DEF PersonasMove
<1>3. ASSUME NEW d \in Calls \ {c} PROVE PersonasHonest(d)'
  BY <1>1, <1>2, OthersUntouched DEF Control, Untouched, PersonasHonest, AllFiles
<1>4. PersonasMet'
  <2>1. \A d \in Calls : pc[d] # "idle" => pc'[d] # "idle"
    <3>1. pc'[c] # "idle"
      <4>1. pc'[c] \in Stages \cup {"returning"}
        BY DEF Works, Moves
      <4>2. QED BY <4>1 DEF Stages, PersonasStages
    <3>2. QED BY <3>1, OthersUntouched DEF Control, Untouched
  <2>2. CASE \A d \in Calls : ~Alone(d)
    BY <2>1, <2>2 DEF PersonasMet, Alone
  <2>3. CASE Spoiling \cap disk = {}
    <3>1. CASE PersonasFetch(c) /\ \E d \in Calls \ {c} : pc[d] = "fetching"
      BY <1>1, <2>1, <3>1 DEF PersonasMet, Alone, PersonasStages
    <3>2. CASE ~(PersonasFetch(c) /\ \E d \in Calls \ {c} : pc[d] = "fetching")
      <4>1. disk' \subseteq disk \cup {FileOf(c)}
        BY <2>3, <3>2
        DEF PersonasMove, PersonasListed, PersonasSkipped, PersonasFetch, PersonasFile,
            PersonasFails, PersonasProgress, FetchQuiet, MixedPart, Spoiling
      <4>2. FileOf(c) \notin Spoiling
        BY DEF FileOf, Spoiling, Spoilt
      <4>3. QED BY <2>3, <4>1, <4>2 DEF PersonasMet
    <3>3. QED BY <3>1, <3>2
  <2>4. QED BY <2>2, <2>3 DEF PersonasMet
<1>5. QED
  BY <1>2, <1>3, <1>4

\* Every step of running a tool keeps what its success rests on.
LEMMA ToolStaysHonest ==
  ASSUME Control, NEW c \in Calls, kind = "tool", ToolMove(c), Works(c),
         \A d \in Calls : ToolHonest(d)
  PROVE  Neutral /\ \A d \in Calls : ToolHonest(d)'
<1>1. /\ pc \in [Calls -> Ends \cup ToolStages] /\ result \in [Calls -> Results]
      /\ variant[c] \in Tools /\ ToolHonest(c)
      /\ pc[c] \in ToolStages /\ result[c] = "none"
      /\ UNCHANGED <<id, variant>>
  BY DEF Control, TypeOK, ResultsComeLast, VariantsOf, Stages, ToolStages, Works, Moves, Fixed
<1> DEFINE Keeps == \A d \in Calls : Output(d) \in disk => Output(d)' \in disk'
<1>2. Neutral /\ Keeps /\ ToolHonest(c)'
  <2> USE <1>1 DEF ToolHonest, Neutral, Old, Setting, Goto, Return, EndWith, ToolFailed,
                   ToolCancelledNow, ToolQuiet, Fixed, ToolStages, Tools, Output, Yaml,
                   Partial
  <2>1. CASE \/ ToolNotBegun(c) \/ Launched(c) \/ NotLaunched(c) \/ CaseAsked(c)
             \/ CaseCancelled(c) \/ CaseAnswered(c) \/ CaseFails(c) \/ ToolLine(c)
    BY <2>1
    DEF ToolNotBegun, Launched, NotLaunched, CaseAsked, CaseCancelled, CaseAnswered,
        CaseFails, ToolLine
  <2>2. CASE ToolBegins(c) BY <2>2 DEF ToolBegins
  <2>3. CASE ToolDone(c) BY <2>3 DEF ToolDone
  <2>4. CASE ToolFails(c) BY <2>4 DEF ToolFails
  <2>5. CASE ToolCancelled(c) BY <2>5 DEF ToolCancelled
  <2>6. CASE SuiteDone(c) BY <2>6 DEF SuiteDone
  <2>7. QED
    BY <2>1, <2>2, <2>3, <2>4, <2>5, <2>6 DEF ToolMove
<1>3. ASSUME NEW d \in Calls \ {c} PROVE ToolHonest(d)'
  BY <1>1, <1>2, OthersUntouched DEF Control, Untouched, ToolHonest
<1>4. QED
  BY <1>2, <1>3

\* Every step of making the environment keeps what its success rests on.
LEMMA VenvStaysHonest ==
  ASSUME Control, NEW c \in Calls, kind = "venv", VenvMove(c), Works(c),
         \A d \in Calls : VenvHonest(d)
  PROVE  Neutral /\ \A d \in Calls : VenvHonest(d)'
<1>1. /\ pc \in [Calls -> Ends \cup VenvStages] /\ result \in [Calls -> Results]
      /\ pc[c] \in VenvStages /\ result[c] = "none"
      /\ pc' = [pc EXCEPT ![c] = pc'[c]] /\ pc'[c] # "idle"
  BY DEF Control, TypeOK, ResultsComeLast, Stages, VenvStages, Works, Moves
<1>2. Neutral /\ VenvHonest(c)'
  <2>0. VenvHonest(c) /\ (Alone(c)' <=> Alone(c))
    BY <1>1 DEF Alone
  <2> USE <1>1, <2>0 DEF VenvHonest, Neutral, Old, Setting, Goto, Return, EndWith, VenvFailed,
                   ToolQuiet, Fixed, VenvStages, Python, Deps
  <2>1. CASE \/ VenvThere(c) \/ SystemPython(c) \/ NoSystemPython(c) \/ VenvMade(c)
             \/ PipFails(c) \/ PipLine(c)
    BY <2>1
    DEF VenvThere, SystemPython, NoSystemPython, VenvMade, PipFails, PipLine
  <2>2. CASE VenvNotMade(c) BY <2>2 DEF VenvNotMade
  <2>3. CASE PipInstalled(c) BY <2>3 DEF PipInstalled
  <2>4. QED
    BY <2>1, <2>2, <2>3 DEF VenvMove
<1>3. ASSUME NEW d \in Calls \ {c} PROVE VenvHonest(d)'
  BY <1>1 DEF VenvHonest, Alone
<1>4. QED
  BY <1>2, <1>3

\* The row an import is about.
LEMMA RowOfMeans ==
  ASSUME ImportsAreAbout, NEW c \in Calls, NEW r \in Ids, About(c, r) \in disk
  PROVE  RowOf(c) = r
<1>1. RowOf(c) \in Ids /\ About(c, RowOf(c)) \in disk
  BY DEF RowOf
<1>2. QED BY <1>1 DEF ImportsAreAbout

\* The names of what is in the store differ.
KeepsData ==
  /\ \A r \in Ids : /\ Row(r) \in disk' <=> Row(r) \in disk
                    /\ \A n \in 1 .. 2 : Batch(r, n) \in disk => Batch(r, n) \in disk'
                    /\ \A c \in Calls : About(c, r) \in disk' <=> About(c, r) \in disk

\* The names of the batches, which no other thing on disk has.
LEMMA BatchNamesAre == \A n \in 1 .. 2 : BatchNames[n] \in {"batch 1", "batch 2"}
<1>1. BatchNames[1] = "batch 1" /\ BatchNames[2] = "batch 2"
  BY DEF BatchNames
<1>2. \A n \in 1 .. 2 : n = 1 \/ n = 2
  OBVIOUS
<1>3. QED BY <1>1, <1>2

\* Writing the new total keeps rows, batches and imports.
LEMMA CountedKeeps ==
  ASSUME NEW c \in Calls, count[c] \in 0 .. 2, disk' = Counted(c)
  PROVE  KeepsData /\ Neutral
<1>1. CASE Row(RowOf(c)) \notin disk
  BY <1>1 DEF Counted, KeepsData, Neutral
<1>2. CASE Row(RowOf(c)) \in disk
  <2>1. disk' = (disk \ {Total(RowOf(c), n) : n \in 0 .. 2}) \cup {Total(RowOf(c), count[c])}
    BY <1>2 DEF Counted, BatchNames
  <2>2. \A n \in 0 .. 2 : TotalNames[n + 1] \in {"total 0", "total 1", "total 2"}
    <3>1. TotalNames[1] = "total 0" /\ TotalNames[2] = "total 1" /\ TotalNames[3] = "total 2"
      BY DEF TotalNames
    <3>2. \A n \in 0 .. 2 : n + 1 = 1 \/ n + 1 = 2 \/ n + 1 = 3
      OBVIOUS
    <3>3. QED BY <3>1, <3>2
  <2>3. \A n \in 1 .. 2 : BatchNames[n] \in {"batch 1", "batch 2"}
    BY BatchNamesAre
  <2>4. \A r \in Ids : Row(r) \in disk' <=> Row(r) \in disk
    BY <2>1, <2>2 DEF Row, Total
  <2>5. \A r \in Ids, n \in 1 .. 2 : Batch(r, n) \in disk => Batch(r, n) \in disk'
    BY <2>1, <2>2, <2>3 DEF Batch, Total
  <2>6. \A r \in Ids, d \in Calls : About(d, r) \in disk' <=> About(d, r) \in disk
    BY <2>1, <2>2 DEF About, Total
  <2>7. Neutral
    BY <2>1, <2>2 DEF Neutral, Old, Setting, Total
  <2>8. QED BY <2>4, <2>5, <2>6, <2>7 DEF KeepsData
<1>3. QED BY <1>1, <1>2

\* Every step of an import of a data set keeps what its success rests on.
LEMMA DatasetStaysHonest ==
  ASSUME Control, NEW c \in Calls, kind = "dataset", DatasetMove(c), Works(c),
         RowsAreNamed, ImportsAreAbout, \A d \in Calls : DatasetHonest(d)
  PROVE  /\ Neutral /\ RowsAreNamed' /\ ImportsAreAbout'
         /\ \A d \in Calls : DatasetHonest(d)'
<1>1. /\ pc \in [Calls -> Ends \cup DatasetStages] /\ result \in [Calls -> Results]
      /\ count \in [Calls -> Nat] /\ count[c] \in Nat /\ DatasetHonest(c)
      /\ pc[c] \in DatasetStages /\ result[c] = "none" /\ id[c] \in Ids
      /\ pc'[c] \in DatasetStages \cup {"returning"}
      /\ UNCHANGED <<id, kind>>
  BY DEF Control, TypeOK, ResultsComeLast, Owners, Registered, Running, Stages, DatasetStages,
         Works, Moves, Fixed
<1>2. \A d \in Calls \ {c} : Untouched(d)
  BY OthersUntouched DEF Control
<1>3. CASE ~DatasetStarted(c)
  <2>1. KeepsData /\ Neutral /\ pc[c] # "begun" /\ pc'[c] \notin {"idle", "begun"}
                  /\ DatasetHonest(c)'
    <3>1. CASE ParquetsResolved(c) \/ FlushUnwritten(c)
      <4>1. disk' = disk /\ count' = count /\ result' = result
            /\ pc[c] \in {"resolve", "rows"} /\ pc'[c] \in {"parquet_url", "unwritten"}
        BY <1>1, <3>1
        DEF ParquetsResolved, FlushUnwritten, DatasetQuiet, Goto, DatasetStages
      <4>2. KeepsData /\ Neutral
        BY <4>1 DEF KeepsData, Neutral
      <4>3. QED
        BY <1>1, <4>1, <4>2
        DEF DatasetHonest, Importing, DatasetStages, About, Row, Batch
    <3>2. CASE ParquetOpened(c)
      <4>1. /\ disk' = disk /\ count' = count /\ result' = result /\ count[c] < 2
            /\ pc[c] = "parquet_url" /\ pc'[c] = "rows"
        BY <1>1, <3>2 DEF ParquetOpened, DatasetQuiet, Goto, DatasetStages, BatchNames
      <4>2. KeepsData /\ Neutral
        BY <4>1 DEF KeepsData, Neutral
      <4>3. QED
        BY <1>1, <4>1, <4>2
        DEF DatasetHonest, Importing, DatasetStages, About, Row, Batch
    <3>3. CASE Flush(c)
      <4>1. /\ pc[c] = "rows" /\ pc'[c] = "parquet_url" /\ result' = result
            /\ disk' = disk \cup {Batch(RowOf(c), count[c] + 1)}
            /\ count'[c] = count[c] + 1 /\ count[c] < 2 /\ Importing(c)
        BY <1>1, <3>3 DEF Flush, Goto, DatasetStages, DatasetHonest, Importing
      <4>2. count[c] + 1 \in 1 .. 2
        BY <1>1, <4>1
      <4>3. BatchNames[count[c] + 1] \in {"batch 1", "batch 2"}
        BY <4>2, BatchNamesAre
      <4>4. KeepsData /\ Neutral
        BY <4>1, <4>3 DEF KeepsData, Neutral, Row, About, Batch, Old, Setting
      <4>5. PICK r \in Ids : About(c, r) \in disk
        BY <1>1, <4>1 DEF DatasetHonest
      <4>6. RowOf(c) = r
        BY <4>5, RowOfMeans
      <4>7. ASSUME NEW s \in Ids, About(c, s) \in disk', Row(s) \in disk',
                   NEW n \in 1 .. count'[c]
            PROVE  Batch(s, n) \in disk'
        <5>1. About(c, s) \in disk /\ Row(s) \in disk /\ s = r
          BY <4>4, <4>5, <4>7 DEF KeepsData, ImportsAreAbout
        <5>2. CASE n = count[c] + 1
          BY <4>1, <4>6, <5>1, <5>2
        <5>3. CASE n # count[c] + 1
          <6>1. n \in 1 .. count[c]
            BY <1>1, <4>1, <5>3
          <6>2. QED BY <1>1, <4>1, <5>1, <6>1 DEF DatasetHonest
        <5>4. QED BY <5>2, <5>3
      <4>8. About(c, r) \in disk'
        BY <4>4, <4>5 DEF KeepsData
      <4>9. count'[c] <= 2
        BY <1>1, <4>1
      <4>10. DatasetHonest(c)'
        BY <4>1, <4>7, <4>8, <4>9 DEF DatasetHonest, About, Row, Batch
      <4>11. QED BY <4>1, <4>4, <4>10
    <3>4. CASE WriterGone(c) \/ DatasetCancelled(c) \/ DatasetFails(c)
      <4>1. /\ disk' = disk \/ disk' = Counted(c)
            /\ pc[c] \in {"unwritten", "resolve", "parquet_url", "rows"}
            /\ pc'[c] = "returning" /\ result'[c] # "ok"
        BY <1>1, <3>4
        DEF WriterGone, DatasetCancelled, DatasetFails, DatasetEnds, DatasetQuiet, EndWith,
            Return, Goto, DatasetStages
      <4>2. count[c] \in 0 .. 2
        BY <1>1, <4>1 DEF DatasetHonest, Importing, DatasetStages
      <4>3. KeepsData /\ Neutral
        BY <4>1, <4>2, CountedKeeps DEF KeepsData, Neutral
      <4>4. QED
        BY <4>1, <4>3 DEF DatasetHonest, Importing, DatasetStages
    <3>5. CASE DatasetDone(c)
      <4>1. /\ disk' = Counted(c) /\ count' = count /\ pc[c] = "parquet_url"
            /\ pc'[c] = "returning" /\ Importing(c)
        BY <1>1, <3>5
        DEF DatasetDone, DatasetEnds, EndWith, Return, Goto, DatasetStages, Importing
      <4>2. count[c] \in 0 .. 2
        BY <1>1, <4>1 DEF DatasetHonest
      <4>3. KeepsData /\ Neutral
        BY <4>1, <4>2, CountedKeeps
      <4>4. ASSUME NEW s \in Ids, About(c, s) \in disk', Row(s) \in disk',
                   NEW n \in 1 .. count[c]
            PROVE  Batch(s, n) \in disk'
        <5>1. n \in 1 .. 2 /\ Batch(s, n) \in disk
          BY <1>1, <4>1, <4>2, <4>3, <4>4 DEF DatasetHonest, KeepsData
        <5>2. QED BY <4>3, <5>1 DEF KeepsData
      <4>5. \E r \in Ids : About(c, r) \in disk'
        BY <1>1, <4>1, <4>3 DEF DatasetHonest, KeepsData
      <4>6. QED
        BY <4>1, <4>2, <4>3, <4>4, <4>5 DEF DatasetHonest, About, Row, Batch
    <3>6. QED
      BY <1>3, <3>1, <3>2, <3>3, <3>4, <3>5 DEF DatasetMove
  <2>2. \A d \in Calls : Entered(d)' <=> Entered(d)
    BY <1>2, <2>1, <1>1 DEF Entered, Untouched, DatasetStages
  <2>3. RowsAreNamed'
    BY <1>1, <2>1, <2>2 DEF RowsAreNamed, KeepsData
  <2>4. ImportsAreAbout'
    BY <1>1, <2>1, <2>2 DEF ImportsAreAbout, KeepsData
  <2>5. ASSUME NEW d \in Calls \ {c} PROVE DatasetHonest(d)'
    <3>1. /\ pc'[d] = pc[d] /\ result'[d] = result[d] /\ count'[d] = count[d]
          /\ count[d] \in Nat /\ DatasetHonest(d)
      BY <1>1, <1>2 DEF Untouched
    <3>2. Importing(d)' <=> Importing(d)
      BY <3>1 DEF Importing
    <3>3. ASSUME Importing(d), NEW r \in Ids, About(d, r) \in disk', Row(r) \in disk'
          PROVE  \A n \in 1 .. count[d] : Batch(r, n) \in disk'
      <4>1. About(d, r) \in disk /\ Row(r) \in disk
        BY <2>1, <3>3 DEF KeepsData
      <4>2. ASSUME NEW n \in 1 .. count[d] PROVE Batch(r, n) \in disk'
        <5>1. n \in 1 .. 2 /\ Batch(r, n) \in disk
          BY <3>1, <3>3, <4>1 DEF DatasetHonest
        <5>2. QED BY <2>1, <5>1 DEF KeepsData
      <4>3. QED BY <4>2
    <3>4. Importing(d) => \E r \in Ids : About(d, r) \in disk'
      BY <2>1, <3>1 DEF DatasetHonest, KeepsData
    <3>5. QED
      BY <3>1, <3>2, <3>3, <3>4 DEF DatasetHonest, About, Row, Batch
  <2>6. QED BY <2>1, <2>3, <2>4, <2>5
<1>4. CASE DatasetStarted(c)
  <2>1. /\ pc[c] = "begun" /\ pc'[c] = "resolve" /\ count' = count /\ count[c] = 0
        /\ result' = result /\ ~Entered(c)
    BY <1>1, <1>4 DEF DatasetStarted, Goto, Fixed, DatasetStages, DatasetHonest, Entered
  <2>2. /\ Entered(c)' /\ \A d \in Calls \ {c} : Entered(d)' <=> Entered(d)
    BY <1>2, <2>1 DEF Entered, Untouched
  <2>3. \A r \in Ids : About(c, r) \notin disk
    BY <2>1 DEF ImportsAreAbout
  <2>4. \A r \in Ids : Row(r) \in disk => r # id[c]
    BY <2>1 DEF RowsAreNamed, Control, DrawnOnce, DrawsId
  <2>5. \A d \in Calls, r \in Ids : About(d, r) \in disk => r # id[c]
    BY <2>1 DEF ImportsAreAbout, Control, DrawnOnce, DrawsId
  <2>6. PICK r \in Ids :
          /\ Row(r) \in disk'
          /\ \A s \in Ids : About(c, s) \in disk' <=> s = r
          /\ \A d \in Calls \ {c}, s \in Ids : About(d, s) \in disk' <=> About(d, s) \in disk
          /\ \A s \in Ids : Row(s) \in disk' => s = r
          /\ \A s \in Ids : Row(s) \in disk' => s = id[c] \/ Row(s) \in disk
          /\ disk \subseteq disk' /\ Neutral
          /\ \E e \in Calls : id[e] = r /\ Entered(e)'
    <3>1. CASE Rows = {}
      <4>1. disk' = disk \cup {Row(id[c]), Total(id[c], 0), About(c, id[c])}
        BY <1>4, <3>1 DEF DatasetStarted
      <4>2. TotalNames[0 + 1] = "total 0"
        BY DEF TotalNames
      <4>3. \A s \in Ids : Row(s) \notin disk
        BY <3>1 DEF Rows
      <4>4. id[c] \in Ids
        BY <1>1
      <4> WITNESS id[c] \in Ids
      <4>5. QED
        BY <1>1, <2>2, <2>3, <4>1, <4>2, <4>3 DEF Row, Total, About, Neutral, Old, Setting
    <3>2. CASE Rows # {}
      <4>1. disk' = disk \cup {About(c, s) : s \in Rows}
        BY <1>4, <3>2 DEF DatasetStarted
      <4>2. PICK r \in Ids : Row(r) \in disk
        BY <3>2 DEF Rows
      <4>3. Rows = {r}
        BY <4>2 DEF Rows, RowsAreNamed
      <4>4. disk' = disk \cup {About(c, r)}
        BY <4>1, <4>3
      <4>5. \E e \in Calls : id[e] = r /\ Entered(e)'
        BY <2>2, <4>2 DEF RowsAreNamed
      <4> WITNESS r \in Ids
      <4>6. QED
        BY <1>1, <2>3, <4>2, <4>3, <4>4, <4>5
        DEF Row, About, Neutral, Old, Setting, RowsAreNamed
    <3>3. QED BY <3>1, <3>2
  <2>7. RowsAreNamed'
    <3>1. ASSUME NEW s \in Ids, Row(s) \in disk' PROVE \E e \in Calls : id[e] = s /\ Entered(e)'
      BY <2>6, <3>1
    <3>2. QED BY <1>1, <2>6, <3>1 DEF RowsAreNamed, Row, Entered
  <2>8. ImportsAreAbout'
    <3>1. ASSUME NEW d \in Calls, NEW s \in Ids, About(d, s) \in disk'
          PROVE  Entered(d)' /\ \E e \in Calls : id[e] = s /\ Entered(e)'
      <4>1. CASE d = c
        BY <2>2, <2>6, <3>1, <4>1
      <4>2. CASE d # c
        BY <2>2, <2>6, <3>1, <4>2 DEF ImportsAreAbout
      <4>3. QED BY <4>1, <4>2
    <3>2. ASSUME NEW d \in Calls, NEW s \in Ids, NEW u \in Ids,
                 About(d, s) \in disk', About(d, u) \in disk'
          PROVE  s = u
      BY <2>6, <3>2 DEF ImportsAreAbout
    <3>3. QED BY <1>1, <3>1, <3>2 DEF ImportsAreAbout, About, Entered
  <2>9. DatasetHonest(c)'
    <3>1. 1 .. count'[c] = {}
      BY <2>1
    <3>2. QED BY <2>1, <2>6, <3>1 DEF DatasetHonest, About, Row, Batch
  <2>10. ASSUME NEW d \in Calls \ {c} PROVE DatasetHonest(d)'
    <3>1. /\ pc'[d] = pc[d] /\ result'[d] = result[d] /\ count'[d] = count[d]
          /\ DatasetHonest(d)
      BY <1>2 DEF Untouched
    <3>2. \A s \in Ids : About(d, s) \in disk' /\ Row(s) \in disk'
                         => About(d, s) \in disk /\ Row(s) \in disk
      BY <2>5, <2>6
    <3>3. QED
      BY <2>6, <3>1, <3>2 DEF DatasetHonest, Importing, About, Row, Batch
  <2>11. QED BY <2>6, <2>7, <2>8, <2>9, <2>10
<1>5. QED BY <1>3, <1>4

\* Deleting a data set takes its row with the batches, and no other.
LEMMA DeleteStaysHonest ==
  ASSUME NEW i \in Ids, DeleteDataset(i), \A d \in Calls : Untouched(d),
         RowsAreNamed, ImportsAreAbout, \A d \in Calls : DatasetHonest(d)
  PROVE  /\ Neutral /\ RowsAreNamed' /\ ImportsAreAbout'
         /\ \A d \in Calls : DatasetHonest(d)'
<1>1. disk' = {x \in disk : x[1] # i \/ x[2] = "import"} /\ id' = id /\ pc' = pc
  BY DEF DeleteDataset
<1>2. \A s \in Ids : Row(s) \in disk' <=> Row(s) \in disk /\ s # i
  BY <1>1 DEF Row
<1>3. \A d \in Calls, s \in Ids : About(d, s) \in disk' <=> About(d, s) \in disk
  BY <1>1 DEF About
<1>4. \A s \in Ids : s # i => \A n : Batch(s, n) \in disk => Batch(s, n) \in disk'
  BY <1>1 DEF Batch
<1>5. Neutral
  BY <1>1, NoneIsNoCall DEF Neutral, Old, Setting
<1>6. RowsAreNamed'
  BY <1>1, <1>2 DEF RowsAreNamed, Row, Entered
<1>7. ImportsAreAbout'
  BY <1>1, <1>3 DEF ImportsAreAbout, About, Entered
<1>8. ASSUME NEW d \in Calls PROVE DatasetHonest(d)'
  <2>1. /\ pc'[d] = pc[d] /\ result'[d] = result[d] /\ count'[d] = count[d]
        /\ DatasetHonest(d)
    BY DEF Untouched
  <2>2. QED
    BY <1>2, <1>3, <1>4, <2>1 DEF DatasetHonest, Importing, About, Row, Batch
<1>9. QED BY <1>5, <1>6, <1>7, <1>8

\* A step that leaves the disk alone, by calls that begin, are refused or leave.
LEMMA BystandersStayHonest ==
  ASSUME Control, Honest, UNCHANGED <<kind, variant>>, disk' = disk,
         \A d \in Calls : Bystander(d)
  PROVE  Honest'
<1>1. /\ pc \in [Calls -> Ends \cup Stages] /\ result \in [Calls -> Results]
      /\ \A d \in Calls : pc[d] = "idle" => result[d] = "none"
      /\ \A d \in Calls : variant'[d] = variant[d] /\ count'[d] = count[d]
      /\ \A d \in Calls : pc'[d] = "idle" => pc[d] = "idle"
  BY DEF Control, TypeOK, ResultsComeLast, Bystander, Untouched
<1>2. ASSUME kind = "install", NEW d \in Calls PROVE InstallHonest(d)'
  BY <1>1, <1>2 DEF Honest, Bystander, Untouched, InstallHonest
<1>3. ASSUME kind = "runtime" PROVE RuntimeHonest'
  BY <1>1, <1>3 DEF Honest, Bystander, Untouched, RuntimeHonest, Binary, Setting
<1>4. ASSUME kind = "pull", NEW d \in Calls PROVE PullHonest(d)'
  BY <1>1, <1>4 DEF Honest, Bystander, Untouched, PullHonest, Files
<1>5. ASSUME kind = "bench", NEW d \in Calls PROVE BenchHonest(d)'
  BY <1>1, <1>5 DEF Honest, Bystander, Untouched, BenchHonest
<1>6. ASSUME kind = "export" PROVE ExportHonest'
  <2>1. \A d \in Calls : result'[d] = "ok" => result[d] = "ok"
    BY DEF Bystander, Untouched
  <2>2. CASE Whole(None) \in disk
    BY <2>2 DEF ExportHonest, Whole
  <2>3. ASSUME NEW d \in Calls, pc[d] # "idle", Mixed(d) \in disk
        PROVE  ExportHonest'
    <3>1. pc'[d] # "idle" /\ id'[d] = id[d]
      BY <1>1, <2>3 DEF Bystander, Untouched
    <3>2. QED BY <2>3, <3>1 DEF ExportHonest, Mixed
  <2>4. QED BY <1>6, <2>1, <2>2, <2>3 DEF Honest, ExportHonest
<1>7. ASSUME kind = "import", NEW d \in Calls PROVE ImportHonest(d)'
  <2>1. Alone(d)' => Alone(d)
    BY <1>1 DEF Alone
  <2>2. QED
    BY <1>1, <1>7, <2>1 DEF Honest, Bystander, Untouched, ImportHonest, At, Whole
<1>8. ASSUME kind = "embedding", NEW d \in Calls PROVE EmbeddingHonest(d)'
  BY <1>1, <1>8 DEF Honest, Bystander, Untouched, EmbeddingHonest, AllFiles
<1>9. ASSUME kind = "personas" PROVE PersonasMet' /\ \A d \in Calls : PersonasHonest(d)'
  <2>1. \A d \in Calls : PersonasHonest(d)'
    BY <1>1, <1>9 DEF Honest, Bystander, Untouched, PersonasHonest, AllFiles
  <2>2. \A d \in Calls : Alone(d)' => Alone(d)
    BY <1>1 DEF Alone
  <2>3. QED BY <1>9, <2>1, <2>2 DEF Honest, PersonasMet, Spoiling, Spoilt
<1>10. ASSUME kind = "dataset" PROVE RowsAreNamed' /\ ImportsAreAbout'
  <2>1. \A e \in Calls : Entered(e) => Entered(e)' /\ id'[e] = id[e]
    BY DEF Entered, Bystander, Untouched
  <2>2. QED
    BY <1>10, <2>1 DEF Honest, RowsAreNamed, ImportsAreAbout, Row, About
<1>11. ASSUME kind = "dataset", NEW d \in Calls PROVE DatasetHonest(d)'
  <2>1. /\ Importing(d)' => Importing(d) /\ (pc'[d] = "rows" => pc[d] = "rows")
        /\ pc'[d] \in {"idle", "begun"} => pc[d] \in {"idle", "begun"}
    BY DEF Importing, Bystander, Untouched, DatasetStages
  <2>2. QED
    BY <1>1, <1>11, <2>1 DEF Honest, DatasetHonest, About, Row, Batch
<1>12. ASSUME kind = "tool", NEW d \in Calls PROVE ToolHonest(d)'
  BY <1>1, <1>12 DEF Honest, Bystander, Untouched, ToolHonest, Output
<1>13. ASSUME kind = "venv", NEW d \in Calls PROVE VenvHonest(d)'
  <2>1. Alone(d)' => Alone(d)
    BY <1>1 DEF Alone
  <2>2. QED
    BY <1>1, <1>13, <2>1 DEF Honest, Bystander, Untouched, VenvHonest, Python
<1>14. Setting \in disk' => kind = "runtime"
  BY DEF Honest, Setting
<1>15. QED
  BY <1>2, <1>3, <1>4, <1>5, <1>6, <1>7, <1>8, <1>9, <1>10, <1>11, <1>12, <1>13, <1>14
  DEF Honest, Setting

\* A step of a command, whichever it is.
LEMMA WorkStaysHonest ==
  ASSUME Control, Honest, NEW c \in Calls, Own(c), Works(c)
  PROVE  Honest' /\ (Old \in disk => Old \in disk' \/ OldIsGivenUp)
<1>1. kind' = kind
  BY DEF Works, Moves, Fixed
<1>2. CASE kind = "runtime"
  BY <1>1, <1>2, RuntimeStaysHonest DEF Own, Honest, Setting
<1>3. CASE kind # "runtime"
  <2> USE <1>1, <1>3 DEF Own, Honest, Neutral, Setting
  <2>1. CASE kind = "install" BY <2>1, InstallStaysHonest
  <2>2. CASE kind = "pull" BY <2>2, PullStaysHonest
  <2>3. CASE kind = "bench" BY <2>3, BenchStaysHonest
  <2>4. CASE kind = "export" BY <2>4, ExportStaysHonest
  <2>5. CASE kind = "import" BY <2>5, ImportStaysHonest
  <2>6. CASE kind = "embedding" BY <2>6, EmbeddingStaysHonest
  <2>7. CASE kind = "personas" BY <2>7, PersonasStaysHonest
  <2>8. CASE kind = "dataset" BY <2>8, DatasetStaysHonest
  <2>9. CASE kind = "tool" BY <2>9, ToolStaysHonest
  <2>10. CASE kind = "venv" BY <2>10, VenvStaysHonest
  <2>11. QED
    BY <2>1, <2>2, <2>3, <2>4, <2>5, <2>6, <2>7, <2>8, <2>9, <2>10
    DEF Control, TypeOK, Kinds
<1>4. QED BY <1>2, <1>3

\* Every step keeps Honest, and an older thing but for the one that replaces it.
LEMMA HonestStep ==
  ASSUME Control, Honest, [Next]_taskVars
  PROVE  Honest' /\ (Old \in disk => Old \in disk' \/ OldIsGivenUp)
<1>1. ASSUME NEW c \in Calls, Own(c), Works(c)
      PROVE  Honest' /\ (Old \in disk => Old \in disk' \/ OldIsGivenUp)
  BY <1>1, WorkStaysHonest
<1>2. ASSUME disk' = disk, \A d \in Calls : Bystander(d), UNCHANGED <<kind, variant>>
      PROVE  Honest' /\ (Old \in disk => Old \in disk' \/ OldIsGivenUp)
  BY <1>2, BystandersStayHonest DEF Old
<1>3. ASSUME NEW i \in Ids, DeleteDataset(i), \A d \in Calls : Untouched(d)
      PROVE  Honest' /\ (Old \in disk => Old \in disk' \/ OldIsGivenUp)
  <2>1. kind = "dataset" /\ kind' = kind
    BY <1>3 DEF DeleteDataset
  <2>2. QED
    BY <1>3, <2>1, DeleteStaysHonest DEF Honest, Neutral, Setting
<1>4. QED
  BY <1>1, <1>2, <1>3, DiskCases

\* Honest holds in every reachable state.
LEMMA HonestCorrect == Spec => []Honest
<1>1. Init => Honest
  <2> SUFFICES ASSUME Init PROVE Honest
    OBVIOUS
  <2>1. /\ \A c \in Calls : pc[c] = "idle" /\ result[c] = "none" /\ count[c] = 0
        /\ disk \in {{}, {Old}}
    BY DEF Init, TaskInit
  <2>2. Setting \notin disk
    BY <2>1 DEF Setting, Old
  <2>3. \A x \in disk : x[1] \notin Ids
    BY <2>1, NoneIsNoCall DEF Old
  <2>4. \A r \in Ids : Row(r) \notin disk /\ \A c \in Calls : About(c, r) \notin disk
    BY <2>3 DEF Row, About
  <2>5. PersonasMet
    <3>1. (\A x \in disk : x[2] = "old") /\ \A x \in Spoiling : x[2] # "old"
      BY <2>1 DEF Spoiling, Spoilt, Old
    <3>2. QED BY <3>1 DEF PersonasMet
  <2>6. QED
    BY <2>1, <2>2, <2>3, <2>4, <2>5
    DEF Honest, InstallHonest, RuntimeHonest, PullHonest, BenchHonest, ExportHonest,
        ImportHonest, EmbeddingHonest, PersonasHonest, Old,
        RowsAreNamed, ImportsAreAbout, DatasetHonest, Importing, DatasetStages, ToolHonest, VenvHonest
<1>2. Control /\ Honest /\ [Next]_taskVars => Honest'
  BY HonestStep
<1>3. QED
  BY <1>1, <1>2, ControlCorrect, PTL DEF Spec

-----------------------------------------------------------------------------
\* What a command calls a success is on disk, for every set of calls and ids.
THEOREM SuccessReal == Spec => []SuccessIsReal
<1>1. Control /\ Honest => SuccessIsReal
  <2> SUFFICES ASSUME Control, Honest PROVE SuccessIsReal
    OBVIOUS
  <2>1. SettingIsLive
    BY DEF Honest, RuntimeHonest, SettingIsLive
  <2>2. ASSUME NEW c \in Calls, kind = "dataset", result[c] = "ok", Row(RowOf(c)) \in disk,
               NEW n \in 1 .. count[c]
        PROVE  Batch(RowOf(c), n) \in disk
    <3>1. ImportsAreAbout /\ DatasetHonest(c) /\ Importing(c)
      BY <2>2 DEF Honest, Importing
    <3>2. PICK r \in Ids : About(c, r) \in disk
      BY <3>1 DEF DatasetHonest
    <3>3. RowOf(c) = r
      BY <3>1, <3>2, RowOfMeans
    <3>4. QED BY <2>2, <3>1, <3>2, <3>3 DEF DatasetHonest
  <2>3. ASSUME NEW c \in Calls, kind = "install", result[c] = "ok", variant[c] # "open_url"
        PROVE  <<id[c], "installed">> \in disk
    BY <2>3 DEF Honest, InstallHonest
  <2>4. ASSUME NEW c \in Calls, kind = "pull", result[c] = "ok"
        PROVE  \A f \in Files(variant[c]) : <<id[c], f>> \in disk
    BY <2>4 DEF Honest, PullHonest
  <2>5. ASSUME NEW c \in Calls, kind = "import", result[c] = "ok"
        PROVE  \/ \E p \in Ids \cup {None} : Whole(p) \in disk
               \/ \E d \in Calls \ {c} : pc[d] # "idle"
    BY <2>5 DEF Honest, ImportHonest, Alone
  <2>6. ASSUME NEW c \in Calls, kind = "venv", result[c] = "ok"
        PROVE  Python \in disk \/ \E d \in Calls \ {c} : pc[d] # "idle"
    BY <2>6 DEF Honest, VenvHonest, Alone
  <2>7. ASSUME NEW c \in Calls, kind = "personas"
        PROVE  Spoilt \cap disk = {} \/ \E d \in Calls \ {c} : pc[d] # "idle"
    BY <2>7 DEF Honest, PersonasMet, Spoiling, Alone
  <2>8. QED
    BY <2>1, <2>2, <2>3, <2>4, <2>5, <2>6, <2>7
    DEF Honest, SuccessIsReal, BenchHonest, ExportHonest, EmbeddingHonest, PersonasHonest,
        ToolHonest
<1>2. QED
  BY <1>1, ControlCorrect, HonestCorrect, PTL

\* An older archive or workspace goes only for the one that replaces it.
THEOREM OldKept == Spec => OldIsKept
<1>1. Control /\ Honest /\ [Next]_taskVars
        => [(Old \in disk /\ Old \notin disk') => OldIsGivenUp]_taskVars
  BY HonestStep DEF Old
<1>2. QED
  BY <1>1, ControlCorrect, HonestCorrect, PTL DEF Spec, OldIsKept
=============================================================================
