------------------------------ MODULE Commands ------------------------------
(***************************************************************************)
(* The long commands of the desktop over their registries, with the page   *)
(* that cancels or leaves and the application that exits.                  *)
(***************************************************************************)
EXTENDS InstallFlow, ModelPull, BenchFlow, PortableFlow, FetchFlow,
        DatasetFlow, ToolFlow

VariantsOf(k) == CASE k = "install" -> Methods
                   [] k = "pull" -> Runtimes
                   [] k = "export" -> Contents
                   [] k = "import" -> Policies
                   [] k = "tool" -> Tools
                   [] OTHER -> {"any"}

Init == /\ TaskInit
        /\ variant \in [Calls -> VariantsOf(kind)]
        /\ disk \in IF kind \in {"export", "import"} THEN {{}, {Old}} ELSE {{}}

\* What a command does by itself, whatever its page does.
Step(c) == \/ InstallStep(c) \/ PullStep(c) \/ RuntimeStep(c) \/ BenchStep(c)
           \/ PortableStep(c) \/ FetchStep(c) \/ DatasetStep(c) \/ ToolStep(c)
           \/ Leave(c)

Next ==
  \/ \E c \in Calls :
       \/ RefuseId(c) \/ DatasetRefused(c)
       \/ Detect(c) \/ PersonasBegin(c) \/ BootstrapBegin(c)
       \/ \E i \in Ids : AlreadyRunning(c, i) \/ TryStart(c, i)
       \/ Step(c)
       \/ DownloadEvent(c) \/ StreamLine(c) \/ FileEvent(c)
       \/ FileBlock(c) \/ PersonasProgress(c) \/ PipLine(c) \/ ToolLine(c)
       \/ CloseChannel(c) \/ CancelBootstrap(c)
  \/ \E i \in Ids : CancelId(i) \/ DeleteDataset(i)
  \/ CancelAll

\* Each command is a future that tokio polls until it is done.  Downloads,
\* child processes and streams are bounded by timeouts or by their peers.
Spec == Init /\ [][Next]_taskVars /\ \A c \in Calls : WF_taskVars(Step(c))

-----------------------------------------------------------------------------
Terminal(c) == CASE kind = "install" -> InstallTerminal
                 [] kind = "pull" -> PullTerminal
                 [] kind \in {"export", "import"} -> PortableTerminal
                 [] kind = "embedding" -> EmbeddingTerminal
                 [] kind = "personas" -> PersonasTerminal
                 [] kind = "dataset" -> DatasetTerminal
                 [] kind = "tool" -> ToolTerminal
                 [] kind = "venv" -> VenvTerminal
                 [] OTHER -> {"finished", "completed"}

\* A terminal event comes when the command is about to return, and what it
\* returns agrees with it: a page may show either.
LastWordAgrees ==
  \A c \in Calls :
    told[c] \in Terminal(c) =>
      /\ pc[c] \in {"returning", "done"}
      /\ told[c] = "failed" => result[c] = "error"
      /\ told[c] = "cancelled" => result[c] = "cancelled"
      /\ told[c] \in {"finished", "completed", "done"}
           => result[c] \in {"ok", "error_report"}

\* The settings name a llama-server that exists, but while a later call is
\* between the removal of the old build and the new one, or has failed there.
SettingIsLive ==
  Setting \in disk /\ Binary \notin disk =>
    \E c \in Calls : pc[c] \in {"unzip", "find"} \/ result[c] = "no build"

\* What a command calls a success is on disk: the installer ran or the archive
\* was unpacked to its last entry, every file of a model or data set arrived; a
\* report that is no error has samples behind it; an archive, a workspace or a file of
\* the personas is what it should be, unless two exports or two downloads wrote to one
\* temporary file, or two imports met;
\* the chunks of a data set are in the store, unless somebody deleted it; a tool
\* left its output, an environment its python, unless another call met it there;
\* and the settings name a server that exists.
SuccessIsReal ==
  /\ SettingIsLive
  /\ \A c \in Calls :
       /\ kind = "install" /\ result[c] = "ok" /\ variant[c] # "open_url"
            => <<id[c], "installed">> \in disk
       /\ kind = "pull" /\ result[c] = "ok"
            => \A f \in Files(variant[c]) : <<id[c], f>> \in disk
       /\ kind = "bench" /\ result[c] = "ok" => count[c] > 0
       /\ kind = "export" /\ result[c] = "ok"
            => Whole(None) \in disk \/ \E d \in Calls : Mixed(d) \in disk
       /\ kind = "import" /\ result[c] = "ok"
            => \/ \E p \in Ids \cup {None} : Whole(p) \in disk
               \/ \E d \in Calls \ {c} : pc[d] # "idle"
       /\ kind = "embedding" /\ result[c] = "ok" => AllFiles(id[c]) \subseteq disk
       /\ kind = "personas" /\ result[c] = "ok"
            => /\ AllFiles(None) \subseteq disk
               /\ Spoilt \cap disk = {} \/ \E d \in Calls \ {c} : pc[d] # "idle"
       /\ kind = "dataset" /\ result[c] = "ok" /\ Row(RowOf(c)) \in disk
            => \A n \in 1 .. count[c] : Batch(RowOf(c), n) \in disk
       /\ kind = "tool" /\ result[c] = "ok"
            => IF variant[c] = "eval" THEN count[c] = CaseCount ELSE Output(c) \in disk
       /\ kind = "venv" /\ result[c] = "ok"
            => Python \in disk \/ \E d \in Calls \ {c} : pc[d] # "idle"

\* What was at the target is given up only for something: an older archive in the
\* step that puts the finished one in its place, a workspace only for a caller
\* who chose to overwrite it, whatever fails or is cancelled before and after.
OldIsGivenUp ==
  \E c \in Calls :
    \/ kind = "export" /\ result[c] = "none" /\ result'[c] = "ok"
    \/ kind = "import" /\ pc[c] = "conflict" /\ variant[c] = "overwrite"

OldIsKept == [][(Old \in disk /\ Old \notin disk') => OldIsGivenUp]_taskVars

\* A call that was asked to stop ends, whatever it is doing; so does any other.
CallsEnd == \A c \in Calls : Running(c) ~> Ended(c)

Life == [c \in Calls |-> CASE pc[c] = "idle" -> "idle"
                           [] pc[c] = "done" -> "ended"
                           [] OTHER -> "running"]

Abstract == INSTANCE TaskLife WITH
              registered <- Registered, life <- Life, holder <- inflight,
              asked <- cancelled

\* On every path a command can return by, its id is owned by exactly this call from
\* try_start until the guard is dropped: no call is left without its entry (nobody
\* could cancel it), no entry without a call (nobody could start the id again).
ImplementsTaskLife == Abstract!Spec
=============================================================================
