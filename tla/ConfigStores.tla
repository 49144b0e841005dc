---------------------------- MODULE ConfigStores ----------------------------
(***************************************************************************)
(* The small JSON files of the desktop, each replaced by writing a         *)
(* temporary file of one fixed name and renaming it.  They differ in what  *)
(* is locked meanwhile: telemetry and workspaces keep their lock until the *)
(* file is in place, pipelines and the active embedding model let it go    *)
(* before, the settings have none: each command loads the file, changes    *)
(* its own field and saves everything.                                     *)
(*                                                                         *)
(* A behaviour is about one of these stores, chosen in ConfigInit.               *)
(***************************************************************************)
EXTENDS Naturals, FiniteSets

CONSTANTS Writers,  \* calls that change the store
          Items,    \* filters, settings, workspaces, embedding models
          First,    \* the workspace a new installation is seeded with
          None

ASSUME FirstIsItem == First \in Items /\ None \notin Items /\ None \notin Writers

VARIABLES kind,
          mem,      \* what the state object holds
          live,     \* what is in use: the chain in the swap, the environment
          disk,     \* the file and its temporary file
          fd,       \* the file a writer has open, and where it is by now
          mixed,    \* writers whose output another's may overlap
          pc, op, snap,
          holder,   \* the writer that holds the lock, or runs on the main thread
          met,      \* calls that overlapped another call (history)
          crossed,  \* saves that overlapped another save (history)
          spoilt,   \* whether such a save put the file in its place (history)
          stale,    \* what is meant and the file are known to differ (history)
          detached  \* the index could not be read: nothing is saved any more

Kinds == {"pipelines", "settings", "telemetry", "workspaces", "embedding"}
Locked == kind \in {"telemetry", "workspaces"}

diskVars == <<disk, fd, mixed, crossed, spoilt>>
configVars == <<kind, mem, live, diskVars, pc, op, snap, holder, met, stale, detached>>

\* What a file says: the items that are set (filters switched off, settings made,
\* workspaces that exist) and the active one, where the store has one.
Contents == [set : SUBSET Items, active : Items \cup {None}]
Fresh == [set |-> IF kind = "workspaces" THEN {First} ELSE {},
          active |-> IF kind = "workspaces" THEN First ELSE None]
Absent == [is |-> "absent"]
Torn == [is |-> "torn"]  \* a part of a file

-----------------------------------------------------------------------------
\* The commands: a verb and the item it is about.

Verbs == CASE kind \in {"pipelines", "settings", "telemetry"} -> {"add", "drop"}
           [] kind = "workspaces" -> {"add", "drop", "activate", "rename"}
           [] OTHER -> {"activate"}

\* What the command refuses: an unknown id, the last workspace.
Allowed(c, o) ==
  kind = "workspaces" =>
    IF o.verb = "add" THEN o.item \notin c.set
    ELSE o.item \in c.set /\ (o.verb = "drop" => c.set # {o.item})

\* pipelines: the filters that are switched off.
PipelineSet(c, o) == [c EXCEPT !.set = IF o.verb = "drop" THEN @ \cup {o.item} ELSE @ \ {o.item}]

\* settings: a field is set, or cleared.
SettingSet(c, o) == [c EXCEPT !.set = IF o.verb = "add" THEN @ \cup {o.item} ELSE @ \ {o.item}]

\* telemetry: the anonymous id is made with the first consent, and stays.
ConsentSet(c, o) == [c EXCEPT !.set = IF o.verb = "add" THEN Items ELSE @ \ {First}]

\* workspaces: a new one is not made active, a renamed one stays what it is.
Created(c, i) == [c EXCEPT !.set = @ \cup {i}]
Renamed(c, i) == c
Activated(c, i) == [c EXCEPT !.active = i]

\* Another workspace, the one used last, takes over from an active one.
Deleted(c, i) ==
  LET left == c.set \ {i}
  IN {[set |-> left, active |-> a] : a \in IF c.active = i THEN left ELSE {c.active}}

\* knowledge: the embedding model in use.
EmbeddingSet(c, i) == [c EXCEPT !.active = i]

WorkspaceAfter(c, o) ==
  CASE o.verb = "drop" -> Deleted(c, o.item)
    [] o.verb = "add" -> {Created(c, o.item)}
    [] o.verb = "activate" -> {Activated(c, o.item)}
    [] OTHER -> {Renamed(c, o.item)}

\* What may come out of a command.
After(c, o) ==
  CASE kind = "pipelines" -> {PipelineSet(c, o)}
    [] kind = "settings" -> {SettingSet(c, o)}
    [] kind = "telemetry" -> {ConsentSet(c, o)}
    [] kind = "embedding" -> {EmbeddingSet(c, o.item)}
    [] OTHER -> WorkspaceAfter(c, o)

\* A file that is missing or does not parse reads as the defaults.
Loaded == IF disk.file \in Contents THEN disk.file ELSE Fresh

\* The first start: workspaces saves its seed, or works on it without a file.
ConfigInit ==
  /\ kind \in Kinds
  /\ mem = Fresh /\ live = Fresh
  /\ detached \in IF kind = "workspaces" THEN BOOLEAN ELSE {FALSE}
  /\ disk = [file |-> IF kind = "workspaces" /\ ~detached THEN Fresh ELSE Absent,
             tmp |-> Absent]
  /\ fd = [u \in Writers |-> "none"] /\ mixed = {}
  /\ met = {} /\ crossed = {} /\ spoilt = FALSE
  /\ pc = [u \in Writers |-> "idle"]
  /\ op = [u \in Writers |-> None] /\ snap = [u \in Writers |-> Fresh]
  /\ holder = None /\ stale = FALSE

-----------------------------------------------------------------------------
Goto(u, p) == pc' = [pc EXCEPT ![u] = p]

\* A command that has returned forgets what it was about.
Forget(u) ==
  /\ op' = [op EXCEPT ![u] = None]
  /\ snap' = [snap EXCEPT ![u] = Fresh]
  /\ met' = met \ {u}

\* The calls under way, and those of them whose save is.
Busy == {v \in Writers : pc[v] \notin {"idle", "done"}}
Saving == {v \in Writers : pc[v] \in {"fill", "rename"}}

\* A call meets those that are under way when it begins.
Meet(u) == met' = IF Busy = {} THEN met ELSE met \cup Busy \cup {u}
Release(u) == holder' = IF holder = u THEN None ELSE holder

\* The plain commands of the settings run on the main thread, one by one; the
\* path of the llama-server is also set by async commands.
OnMain(o) == kind = "settings" /\ ~(o.item = First /\ o.verb = "add")
Free(o) == (Locked \/ OnMain(o)) => holder = None

\* The memory is changed under the lock, and copied for the file.
Change(u, o) ==
  /\ pc[u] = "idle" /\ kind # "settings" /\ Free(o) /\ Allowed(mem, o)
  /\ \E c \in After(mem, o) :
       mem' = c /\ snap' = [snap EXCEPT ![u] = c]
  /\ op' = [op EXCEPT ![u] = o]
  /\ holder' = IF Locked THEN u ELSE holder
  /\ Goto(u, IF kind = "pipelines" THEN "swap"
             ELSE IF detached THEN "saved" ELSE "create")
  /\ Meet(u)
  /\ UNCHANGED <<kind, live, diskVars, stale, detached>>

\* A settings command loads the whole file first; a read error counts as an
\* empty file.
LoadAndChange(u, o) ==
  /\ pc[u] = "idle" /\ kind = "settings" /\ Free(o)
  /\ \E c \in {Loaded, Fresh} :
       /\ snap' = [snap EXCEPT ![u] = CHOOSE d \in After(c, o) : TRUE]
       /\ stale' = (stale \/ c # Loaded)
  /\ op' = [op EXCEPT ![u] = o]
  /\ holder' = IF OnMain(o) THEN u ELSE holder
  /\ Goto(u, "create")
  /\ Meet(u)
  /\ UNCHANGED <<kind, mem, live, diskVars, detached>>

\* A settings command may not know its endpoint or refuse a path; an embedding
\* model has to be there to be activated.
Refuse(u, o) ==
  /\ pc[u] = "idle" /\ Free(o)
  /\ kind \in {"settings", "embedding"} \/ ~Allowed(mem, o)
  /\ Goto(u, "done")
  /\ UNCHANGED <<kind, mem, live, diskVars, op, snap, holder, met, stale, detached>>

\* chain_swap.store: requests use the chain of this snapshot from now on.
Swap(u) ==
  /\ pc[u] = "swap"
  /\ live' = snap[u]
  /\ Goto(u, "create")
  /\ UNCHANGED <<kind, mem, diskVars, op, snap, holder, met, stale, detached>>

-----------------------------------------------------------------------------
\* fs::write of the temporary file, then the rename.

OnTmp == {v \in Writers : fd[v] = "tmp"}

\* A save crosses those that have begun and not yet renamed the file.
Cross(u) ==
  /\ mixed' = IF OnTmp = {} THEN mixed ELSE mixed \cup OnTmp \cup {u}
  /\ crossed' = IF Saving = {} THEN crossed ELSE crossed \cup Saving \cup {u}

\* (fault) the file itself is opened and written
CreateInPlace(u) ==
  /\ pc[u] = "create"
  /\ disk' = [file |-> Torn, tmp |-> snap[u]]
  /\ fd' = [fd EXCEPT ![u] = "file"]
  /\ Cross(u)
  /\ Goto(u, "fill")
  /\ UNCHANGED <<kind, mem, live, spoilt, op, snap, holder, met, stale, detached>>

Create(u) ==
  /\ pc[u] = "create"
  /\ disk' = [disk EXCEPT !.tmp = Torn]
  /\ fd' = [fd EXCEPT ![u] = "tmp"]
  /\ Cross(u)
  /\ Goto(u, "fill")
  /\ UNCHANGED <<kind, mem, live, spoilt, op, snap, holder, met, stale, detached>>

\* The bytes go to the file that was opened, wherever it was renamed to.
Fill(u) ==
  /\ pc[u] = "fill"
  /\ IF fd[u] \in {"tmp", "file"}
     THEN \E c \in {snap[u]} \cup (IF u \in mixed THEN {Torn} ELSE {}) :
            disk' = [disk EXCEPT ![fd[u]] = c]
     ELSE UNCHANGED disk
  /\ fd' = [fd EXCEPT ![u] = "none"] /\ mixed' = mixed \ {u}
  /\ Goto(u, "rename")
  /\ UNCHANGED <<kind, mem, live, crossed, spoilt, op, snap, holder, met, stale, detached>>

\* Whatever the temporary file holds takes the place of the file.
Rename(u) ==
  /\ pc[u] = "rename" /\ disk.tmp # Absent
  /\ disk' = [file |-> disk.tmp, tmp |-> Absent]
  /\ fd' = [v \in Writers |-> CASE fd[v] = "tmp" -> "file"
                                [] fd[v] = "file" -> "gone"
                                [] OTHER -> fd[v]]
  /\ spoilt' = (u \in crossed) /\ crossed' = crossed \ {u}
  /\ Goto(u, "saved")
  /\ UNCHANGED <<kind, mem, live, mixed, op, snap, holder, met, stale, detached>>

\* The directory, the write or the rename fails: an error, and what was changed
\* before stays; a settings command has only changed its copy.  Workspaces
\* removes a temporary file it could not rename.
SaveFails(u) ==
  /\ pc[u] \in {"create", "fill", "rename"}
  /\ disk' = IF kind = "workspaces" /\ pc[u] = "rename"
             THEN [disk EXCEPT !.tmp = Absent] ELSE disk
  /\ fd' = [fd EXCEPT ![u] = "none"] /\ mixed' = mixed \ {u}
  /\ crossed' = crossed \ {u}
  /\ stale' = (stale \/ kind # "settings" \/ u \in met)
  /\ Release(u) /\ Goto(u, "done") /\ Forget(u)
  /\ UNCHANGED <<kind, mem, live, spoilt, detached>>

\* The command returns; a settings command puts its own field into the
\* environment first.  A call that met none has saved all that is meant, but
\* for a settings command, which saves one field beside what it found.
Saved(u) ==
  /\ pc[u] = "saved"
  /\ live' = IF kind = "settings" THEN CHOOSE c \in After(live, op[u]) : TRUE ELSE live
  /\ stale' = (u \in met \/ (stale /\ kind = "settings"))
  /\ Release(u) /\ Goto(u, "done") /\ Forget(u)
  /\ UNCHANGED <<kind, mem, diskVars, detached>>

\* What the start reads: a file that cannot be read counts as empty.  The
\* desktop does not replace a workspace index that it cannot read or parse: it
\* works on a seed that it never saves.
StartReads ==
  /\ \E readable \in BOOLEAN :
       LET c == IF readable THEN Loaded ELSE Fresh IN
       /\ mem' = c /\ live' = c
       /\ stale' = (c # Loaded)
       /\ detached' = (kind = "workspaces" /\ (~readable \/ disk.file = Torn))
  /\ UNCHANGED <<disk, spoilt>>

\* Where there is no index the seed is saved, or works without a file if it
\* cannot be; the attempt leaves its temporary file, in part, whole or not at all.
StartSeeds ==
  /\ mem' = Fresh /\ live' = Fresh /\ stale' = FALSE
  /\ \/ /\ disk' = [file |-> Fresh, tmp |-> Absent]
        /\ detached' = FALSE /\ spoilt' = FALSE
     \/ /\ \E left \in {disk.tmp, Torn, Fresh, Absent} : disk' = [disk EXCEPT !.tmp = left]
        /\ detached' = TRUE /\ UNCHANGED spoilt

\* The application dies and is started again.
Restart ==
  /\ IF kind = "workspaces" /\ disk.file = Absent THEN StartSeeds ELSE StartReads
  /\ pc' = [u \in Writers |-> IF pc[u] = "idle" THEN "idle" ELSE "done"]
  /\ fd' = [u \in Writers |-> "none"] /\ mixed' = {} /\ holder' = None
  /\ met' = {} /\ crossed' = {}
  /\ op' = [u \in Writers |-> None] /\ snap' = [u \in Writers |-> Fresh]
  /\ UNCHANGED kind

ConfigNext ==
  \/ \E u \in Writers :
       \/ \E v \in Verbs, i \in Items :
            LET o == [verb |-> v, item |-> i]
            IN Change(u, o) \/ LoadAndChange(u, o) \/ Refuse(u, o)
       \/ Swap(u) \/ Create(u) \/ Fill(u) \/ Rename(u) \/ SaveFails(u) \/ Saved(u)
  \/ Restart

-----------------------------------------------------------------------------
\* At any moment the application may die, and finds a file it can read, unless
\* that file was put in its place by a save of a store without a lock while
\* another save of that store was writing the temporary file.
FileIsWhole == disk.file = Torn => ~Locked /\ spoilt

\* A command that returned without an error is in the file: when no call is
\* under way a start would read what is meant, which is what the memory says,
\* and of the settings what is in the environment, but for what saves that were
\* reported to have failed, files that could not be read and calls that overlapped
\* in a store without a lock left behind.  The filters in use are those of the
\* memory.
SavedIsCurrent ==
  Busy = {} /\ ~stale /\ ~detached =>
    /\ Loaded = IF kind = "settings" THEN live ELSE mem
    /\ kind = "pipelines" => live = mem

\* A file that a start finds can be read, and a save that returned without an error
\* is in it.
FilesAgree == FileIsWhole /\ SavedIsCurrent
=============================================================================
