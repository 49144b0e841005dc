---------------------------- MODULE PortableFlow ----------------------------
(***************************************************************************)
(* start_workspace_export and start_workspace_import: the workspace packed *)
(* into an archive that replaces an older one, and an archive unpacked to  *)
(* a staging directory that becomes a workspace.  All exports of a         *)
(* behaviour go to one target path, all imports to one target directory;   *)
(* <<None, x>> is what is there.                                           *)
(***************************************************************************)
EXTENDS Tasks

CONSTANT Packed  \* files of a workspace, entries of an archive

ASSUME PackedPositive == Packed \in Nat \ {0}

PortableTerminal == {"done", "failed"}

\* with or without keys.encrypted; ConflictPolicy
Contents == {"plain", "keys"}
Policies == {"skip", "overwrite", "rename"}

Old == <<None, "old">>        \* what was at the target before
Whole(p) == <<p, "whole">>    \* what a call made, complete
Part(p) == <<p, "part">>      \* a part or a mixture of it

PortableQuiet == Fixed /\ UNCHANGED <<cancelled, count, disk>>

\* Failed, or Done, goes out last, also for a cancelled job.
PortableEnds(c, e, r) == Heard(c, e) /\ Return(c, r) /\ Fixed /\ UNCHANGED count

\* No workspace root, or (import) a target outside of it: no event.
PortableRefused(c) ==
  /\ kind \in {"export", "import"} /\ pc[c] = "begun"
  /\ Return(c, "error") /\ UNCHANGED told
  /\ PortableQuiet

-----------------------------------------------------------------------------
\* export_workspace

Tmp == <<None, "tmp">>               \* the target path with .tmp appended
Writing(c) == <<id[c], "writing">>   \* the call writes to a temporary file
Mixed(c) == <<id[c], "mixed">>       \* while another one did, too

\* Keys without a passphrase, a workspace without manifest.json.
ExportRejected(c) ==
  /\ kind = "export" /\ pc[c] = "begun"
  /\ PortableEnds(c, "failed", "error")
  /\ UNCHANGED disk

ExportStarted(c) ==
  /\ kind = "export" /\ pc[c] = "begun"
  /\ Heard(c, "started") /\ Goto(c, "collect")
  /\ Fixed /\ UNCHANGED <<result, count, disk>>

\* collect_entries, then the token.
Collected(c) ==
  /\ pc[c] = "collect" /\ c \notin cancelled
  /\ Heard(c, "counting") /\ Goto(c, "tmp")
  /\ Fixed /\ UNCHANGED <<result, count, disk>>

Overlapping(c) == {d \in Calls \ {c} : Writing(d) \in disk}

\* File::create truncates what is there: exports to one target share the file.
CreateTmp(c) ==
  /\ pc[c] = "tmp"
  /\ disk' = disk \cup {Tmp, Writing(c)}
               \cup UNION {{Mixed(c), Mixed(d)} : d \in Overlapping(c)}
  /\ Goto(c, "archive")
  /\ Fixed /\ UNCHANGED <<told, result, cancelled, count>>

\* The token is looked at before each entry and each block of it.
ArchiveEntry(c) ==
  /\ pc[c] = "archive" /\ count[c] < Packed /\ c \notin cancelled
  /\ count' = [count EXCEPT ![c] = @ + 1]
  /\ Heard(c, "compressing")
  /\ Fixed /\ UNCHANGED <<pc, result, disk>>

\* fingerprint.source.json; the token is not looked at any more.
ArchiveFingerprint(c) ==
  /\ pc[c] = "archive" /\ count[c] = Packed
  /\ Goto(c, IF variant[c] = "keys" THEN "encrypt" ELSE "finalize")
  /\ UNCHANGED <<told, result>> /\ PortableQuiet

\* wrap_with_passphrase, if there is a keys.db
EncryptKeys(c) ==
  /\ pc[c] = "encrypt"
  /\ Heard(c, "encrypting") /\ Goto(c, "finalize")
  /\ Fixed /\ UNCHANGED <<result, count, disk>>

Finalize(c) ==
  /\ pc[c] = "finalize"
  /\ Heard(c, "finalizing") /\ Goto(c, "commit")
  /\ Fixed /\ UNCHANGED <<result, count, disk>>

\* compute_sha256 and TempArchive::commit: the file of that name, whoever wrote
\* to it last, is renamed over the target.
Commit(c) ==
  /\ pc[c] = "commit" /\ Tmp \in disk
  /\ disk' = (disk \ {Tmp, Writing(c), Old, Whole(None), Part(None)})
               \cup {IF Mixed(c) \in disk THEN Part(None) ELSE Whole(None)}
  /\ PortableEnds(c, "done", "ok")

\* Any error, Cancelled included: TempArchive's Drop removes the file of that
\* name, once the job has one in mind.
ExportFails(c) ==
  /\ pc[c] \in {"collect", "tmp", "archive", "encrypt", "finalize", "commit"}
  /\ \/ pc[c] # "collect" /\ disk' = disk \ {Tmp, Writing(c)}
     \/ pc[c] \in {"collect", "tmp"} /\ UNCHANGED disk
  /\ PortableEnds(c, "failed", "error")

ExportStep(c) ==
  \/ ExportRejected(c) \/ ExportStarted(c) \/ Collected(c) \/ CreateTmp(c)
  \/ ArchiveEntry(c) \/ ArchiveFingerprint(c) \/ EncryptKeys(c) \/ Finalize(c)
  \/ Commit(c) \/ ExportFails(c)

-----------------------------------------------------------------------------
\* import_workspace

ImportStarted(c) ==
  /\ kind = "import" /\ pc[c] = "begun"
  /\ Heard(c, "started") /\ Goto(c, "verify")
  /\ Fixed /\ UNCHANGED <<result, count, disk>>

\* The digest, if one was given; the token; the staging directory.
Verified(c) ==
  /\ pc[c] = "verify" /\ c \notin cancelled
  /\ Heard(c, "verifying") /\ Goto(c, "unzip_entry")
  /\ Fixed /\ UNCHANGED <<result, count, disk>>

\* Into the staging directory, under a name that stays inside of it.
UnzipEntry(c) ==
  /\ pc[c] = "unzip_entry" /\ count[c] < Packed /\ c \notin cancelled
  /\ count' = [count EXCEPT ![c] = @ + 1]
  /\ Heard(c, "extracting")
  /\ Fixed /\ UNCHANGED <<pc, result, disk>>

\* manifest.json, the fingerprint and the repair tier
ManifestRead(c) ==
  /\ pc[c] = "unzip_entry" /\ count[c] = Packed
  /\ Heard(c, "tier")
  /\ \E p \in {"decrypt", "conflict"} : Goto(c, p)
  /\ Fixed /\ UNCHANGED <<result, count, disk>>

DecryptKeys(c) ==
  /\ pc[c] = "decrypt"
  /\ Heard(c, "decrypting") /\ Goto(c, "conflict")
  /\ Fixed /\ UNCHANGED <<result, count, disk>>

At(p) == {x \in disk : x[1] = p}

\* (fault) a directory in the way is removed under each policy but Skip
ConflictAlwaysRemoves(c) ==
  /\ pc[c] = "conflict"
  /\ At(None) = {} \/ variant[c] # "skip"
  /\ Goto(c, "place") /\ disk' = disk \ At(None)
  /\ Fixed /\ UNCHANGED <<told, result, cancelled, count>>

\* resolve_conflict: nothing there (or nothing in it), Overwrite, Rename; Skip
\* is an error.
Conflict(c) ==
  /\ pc[c] = "conflict"
  /\ \/ At(None) = {} /\ Goto(c, "place") /\ UNCHANGED disk
     \/ /\ At(None) # {} /\ variant[c] = "overwrite"
        /\ Goto(c, "place") /\ disk' = disk \ At(None)
     \/ /\ At(None) # {} /\ variant[c] = "rename"
        /\ Goto(c, "place_beside") /\ UNCHANGED disk
  /\ Fixed /\ UNCHANGED <<told, result, cancelled, count>>

\* remove_dir_all gives up half way.
RemoveFails(c) ==
  /\ pc[c] = "conflict" /\ At(None) # {} /\ variant[c] = "overwrite"
  /\ disk' = (disk \ At(None)) \cup {Part(None)}
  /\ PortableEnds(c, "failed", "error")

\* The name beside the target ends in the second it was chosen in: two imports
\* may choose the same.
Beside == {id[d] : d \in {e \in Calls : pc[e] # "idle"}}
Places(c) == IF pc[c] = "place" THEN {None} ELSE Beside

\* Staging is renamed into place, or copied there; into a directory that came
\* to be there meanwhile it is copied, file over file.
Place(c) ==
  /\ pc[c] \in {"place", "place_beside"} /\ c \notin cancelled
  /\ \E p \in Places(c) :
       disk' = (disk \ {Whole(p)}) \cup {IF At(p) = {} THEN Whole(p) ELSE Part(p)}
  /\ PortableEnds(c, "done", "ok")

\* The copy breaks off.
CopyFails(c) ==
  /\ pc[c] \in {"place", "place_beside"} /\ c \notin cancelled
  /\ \E p \in Places(c) : disk' = (disk \ {Whole(p)}) \cup {Part(p)}
  /\ PortableEnds(c, "failed", "error")

\* The digest, the archive, a name that leads out, the manifest, keys without
\* (or with the wrong) passphrase, Skip, Cancelled: staging is dropped.  The
\* token is last looked at after the conflict was resolved.
ImportFails(c) ==
  /\ \/ pc[c] \in {"verify", "unzip_entry", "decrypt"}
     \/ pc[c] = "conflict" /\ At(None) # {} /\ variant[c] # "rename"
     \/ pc[c] \in {"place", "place_beside"}
  /\ PortableEnds(c, "failed", "error")
  /\ UNCHANGED disk

ImportStep(c) ==
  \/ ImportStarted(c) \/ Verified(c) \/ UnzipEntry(c) \/ ManifestRead(c)
  \/ DecryptKeys(c) \/ Conflict(c) \/ RemoveFails(c) \/ Place(c) \/ CopyFails(c)
  \/ ImportFails(c)

PortableStep(c) == PortableRefused(c) \/ ExportStep(c) \/ ImportStep(c)
=============================================================================
