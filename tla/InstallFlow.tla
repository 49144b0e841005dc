---------------------------- MODULE InstallFlow -----------------------------
(***************************************************************************)
(* install_app: the manifest, run_install and ActionExecutor.  The three   *)
(* methods of a manifest that validation lets through, and the one it      *)
(* refuses (shell.curl_pipe_sh).  After it, install_llama_cpp_runtime.     *)
(***************************************************************************)
EXTENDS Tasks

CONSTANT Entries   \* entries of the archive

ASSUME EntriesPositive == Entries \in Nat \ {0}

Methods == {"run", "extract", "dmg", "shell", "open_url"}

\* the two that unpack an archive; a dmg only on macOS
Unpacks(c) == variant[c] \in {"extract", "dmg"}

\* the terminal events: nothing follows them (install_event.rs:8)
InstallTerminal == {"finished", "failed", "cancelled"}

Quiet == Fixed /\ UNCHANGED <<cancelled, count, disk>>

\* emit_or_cancel: a closed channel cancels the call's own token and returns.
EmitOrCancel(c, e, next) ==
  IF c \in open
  THEN /\ told' = Told(c, e) /\ Goto(c, next) /\ UNCHANGED <<cancelled, result>>
  ELSE /\ cancelled' = cancelled \cup {c} /\ Return(c, "sink_closed") /\ UNCHANGED told

\* Err(ActionError::Cancelled) is told as Cancelled, any other error as Failed.
Cancelled(c) == EndWith(c, "cancelled", "cancelled")
\* The code of a failure (InstallRunnerError::code) is left out.
Failed(c) == EndWith(c, "failed", "error")

\* is_valid_app_id comes before the registry, and so does the kind of an
\* embedding model.
RefuseId(c) ==
  /\ kind \in {"install", "embedding"} /\ pc[c] = "idle"
  /\ Goto(c, "done") /\ result' = [result EXCEPT ![c] = "refused"]
  /\ UNCHANGED told /\ Quiet

\* No directory, no file, outside the directory, unreadable, not a manifest,
\* no cache directory; or a manifest that run_install refuses before Started.
ManifestRefused(c) ==
  /\ kind = "install" /\ pc[c] = "begun"
  /\ Return(c, "error")
  /\ UNCHANGED told /\ Quiet

Started(c) ==
  /\ kind = "install" /\ pc[c] = "begun" /\ variant[c] # "shell"
  /\ EmitOrCancel(c, "started", "prepare")
  /\ Fixed /\ UNCHANGED <<count, disk>>

\* ActionExecutor::new: without its HTTP client the call ends untold.
Prepare(c) ==
  /\ pc[c] = "prepare"
  /\ \/ Goto(c, CASE variant[c] = "run" -> "download"
                  [] Unpacks(c) -> "announce"
                  [] OTHER -> "open_url") /\ UNCHANGED result
     \/ Return(c, "error")
  /\ UNCHANGED told /\ Quiet

\* Extract { Starting } goes out before the download that precedes extraction.
AnnounceExtract(c) ==
  /\ pc[c] = "announce"
  /\ EmitOrCancel(c, "extract_starting", "download")
  /\ Fixed /\ UNCHANGED <<count, disk>>

\* run_open_url: the host list, then the browser.
OpenUrl(c) ==
  /\ pc[c] = "open_url"
  /\ \/ Goto(c, "succeeded") /\ UNCHANGED <<told, result>>
     \/ Failed(c)
  /\ Quiet

\* DownloadBridge: a lost reader is remembered and cancels the download.
DownloadEvent(c) ==
  /\ kind = "install" /\ pc[c] = "download"
  /\ IF c \in open
     THEN told' = Told(c, "download") /\ UNCHANGED <<pc, cancelled>>
     ELSE Goto(c, "bridge_closed") /\ cancelled' = cancelled \cup {c} /\ UNCHANGED told
  /\ Fixed /\ UNCHANGED <<result, count, disk>>

\* Whatever the executor makes of it, was_closed() decides.
BridgeClosed(c) ==
  /\ pc[c] = "bridge_closed"
  /\ Return(c, "sink_closed")
  /\ \/ UNCHANGED disk
     \/ disk' = disk \cup {<<id[c], "archive">>}
  /\ Fixed /\ UNCHANGED <<told, cancelled, count>>

\* Name, digest or network: the downloader's errors, its cancellation included,
\* reach run_install as ActionError::Download.
DownloadFails(c) ==
  /\ kind = "install" /\ pc[c] = "download"
  /\ Failed(c)
  /\ Quiet

Downloaded(c) ==
  /\ kind = "install" /\ pc[c] = "download"
  /\ disk' = disk \cup {<<id[c], "archive">>}
  /\ IF c \in cancelled THEN Cancelled(c)
     ELSE /\ Goto(c, IF variant[c] = "run" THEN "spawn" ELSE "unpack")
          /\ UNCHANGED <<told, result>>
  /\ Fixed /\ UNCHANGED <<cancelled, count>>

Spawn(c) ==
  /\ pc[c] = "spawn"
  /\ \/ Goto(c, "child") /\ UNCHANGED <<told, result>>
     \/ Failed(c)
  /\ Quiet

\* The select is biased: an asked call kills its installer, whatever the exit.
KillChild(c) ==
  /\ pc[c] = "child" /\ c \in cancelled
  /\ Cancelled(c)
  /\ Quiet

ChildExits(c) ==
  /\ pc[c] = "child" /\ c \notin cancelled
  /\ \/ \* 0, or one of the manifest's codes: then the check after the install
        /\ disk' = disk \cup {<<id[c], "installed">>}
        /\ Goto(c, "post_check") /\ UNCHANGED <<told, result>>
     \/ \* success that asks for a reboot: no check
        /\ disk' = disk \cup {<<id[c], "installed">>}
        /\ Goto(c, "check_told") /\ UNCHANGED <<told, result>>
     \/ /\ Failed(c)
        /\ UNCHANGED disk
  /\ Fixed /\ UNCHANGED <<cancelled, count>>

ChildTimesOut(c) ==
  /\ pc[c] = "child" /\ c \notin cancelled
  /\ Failed(c)
  /\ Quiet

\* detect_format and target_path_is_safe, then the target directory
UnpackRefused(c) ==
  /\ pc[c] = "unpack"
  /\ Failed(c)
  /\ Quiet

UnpackBegins(c) ==
  /\ pc[c] = "unpack"
  /\ Goto(c, IF variant[c] = "dmg" THEN "attach" ELSE "unpacking")
  /\ UNCHANGED <<told, result>> /\ Quiet

\* The blocking task reads a flag that another task copies from the token: an
\* asked extraction goes on for as long as the flag is late.
UnpackEntry(c) ==
  /\ pc[c] = "unpacking" /\ count[c] < Entries
  /\ count' = [count EXCEPT ![c] = @ + 1]
  /\ disk' = disk \cup {<<id[c], "some entries">>}
  /\ Fixed /\ UNCHANGED <<pc, told, result, cancelled>>

\* ExtractError, Cancelled included; what was written stays.
UnpackFails(c) ==
  /\ pc[c] = "unpacking"
  /\ count[c] < Entries
  /\ Failed(c)
  /\ Quiet

Unpacked(c) ==
  /\ pc[c] = "unpacking" /\ count[c] = Entries
  /\ disk' = disk \cup {<<id[c], "installed">>}
  /\ Goto(c, "post_check")
  /\ Fixed /\ UNCHANGED <<told, result, cancelled, count>>

\* hdiutil attach.  An image that is attached but whose plist cannot be read
\* stays mounted: its guard is made after the plist is read.
Attach(c) ==
  /\ pc[c] = "attach"
  /\ \/ disk' = disk \cup {<<id[c], "mounted">>}
        /\ Goto(c, "copy") /\ UNCHANGED <<told, result>>
     \/ disk' = disk \cup {<<id[c], "mounted">>} /\ Failed(c)
     \/ UNCHANGED disk /\ Failed(c)
  /\ Fixed /\ UNCHANGED <<cancelled, count>>

\* ditto, polled together with the flag; MountGuard detaches on every way out,
\* twice if it must, and gives up if that does not help.
Copy(c) ==
  /\ pc[c] = "copy"
  /\ \E detached \in {{}, {<<id[c], "mounted">>}} :
       \/ disk' = (disk \ detached) \cup {<<id[c], "installed">>}
          /\ Goto(c, "post_check") /\ UNCHANGED <<told, result>>
       \/ disk' = (disk \ detached) \cup {<<id[c], "some entries">>} /\ Failed(c)
  /\ Fixed /\ UNCHANGED <<cancelled, count>>

\* evaluate_post_install_check: none, a method it does not know, a poll until
\* the deadline; cancelled is a failed check, not an end.
PostCheck(c) ==
  /\ pc[c] = "post_check"
  /\ Goto(c, IF Unpacks(c) THEN "extract_done" ELSE "check_told")
  /\ UNCHANGED <<told, result>> /\ Quiet

ExtractDone(c) ==
  /\ pc[c] = "extract_done"
  /\ EmitOrCancel(c, "extract_done", "check_told")
  /\ Fixed /\ UNCHANGED <<count, disk>>

CheckTold(c) ==
  /\ pc[c] \in {"check_told", "succeeded"}
  /\ EmitOrCancel(c, "post_check", "finish")
  /\ Fixed /\ UNCHANGED <<count, disk>>

Finished(c) ==
  /\ pc[c] = "finish"
  /\ IF c \in open
     THEN EndWith(c, "finished", "ok") /\ UNCHANGED cancelled
     ELSE cancelled' = cancelled \cup {c} /\ Return(c, "sink_closed") /\ UNCHANGED told
  /\ Fixed /\ UNCHANGED <<count, disk>>

InstallStep(c) ==
  \/ ManifestRefused(c) \/ Started(c) \/ Prepare(c) \/ AnnounceExtract(c) \/ OpenUrl(c)
  \/ BridgeClosed(c) \/ DownloadFails(c) \/ Downloaded(c)
  \/ Spawn(c) \/ KillChild(c) \/ ChildExits(c) \/ ChildTimesOut(c)
  \/ UnpackRefused(c) \/ UnpackBegins(c) \/ UnpackEntry(c) \/ UnpackFails(c)
  \/ Unpacked(c) \/ Attach(c) \/ Copy(c)
  \/ PostCheck(c) \/ ExtractDone(c) \/ CheckTold(c) \/ Finished(c)

-----------------------------------------------------------------------------
\* install_llama_cpp_runtime: the newest llama.cpp build, unpacked beside the
\* settings that name it.  It has neither a registry nor a token that anybody
\* could cancel, and its calls share one directory.  The pairs in disk carry
\* None for an id.

Archive == <<None, "zip">>
Binary == <<None, "llama-server">>     \* bin/ holds the whole build
Setting == <<None, "llama_server_path">> \* the settings name the binary

RuntimeQuiet == Fixed /\ UNCHANGED <<cancelled, count, result>>

Say(c, e) == told' = Told(c, e)

\* The GPU is probed; then old archives are removed, those of an installation
\* still under way included.
Detect(c) ==
  /\ kind = "runtime" /\ pc[c] = "idle"
  /\ Goto(c, "clean") /\ Say(c, "status")
  /\ UNCHANGED disk /\ RuntimeQuiet

Clean(c) ==
  /\ pc[c] = "clean"
  /\ Goto(c, "fetch") /\ disk' = disk \ {Archive}
  /\ Say(c, "status") /\ RuntimeQuiet

FetchRelease(c) ==
  /\ pc[c] = "fetch"
  /\ Goto(c, "get_zip") /\ Say(c, "status")
  /\ UNCHANGED disk /\ RuntimeQuiet

GetZip(c) ==
  /\ pc[c] = "get_zip"
  /\ Goto(c, "clear_bin") /\ disk' = disk \cup {Archive}
  /\ Say(c, "progress") /\ RuntimeQuiet

\* remove_dir_all(bin): the build in use goes before the new one is unpacked
ClearBin(c) ==
  /\ pc[c] = "clear_bin"
  /\ Goto(c, "unzip") /\ disk' = disk \ {Binary}
  /\ Say(c, "status") /\ RuntimeQuiet

\* An asset may hold no llama-server, or hold it under another name.
Unzip(c) ==
  /\ pc[c] = "unzip" /\ Archive \in disk
  /\ Goto(c, "find")
  /\ \E found \in SUBSET {Binary} : disk' = disk \cup found
  /\ UNCHANGED told /\ RuntimeQuiet

\* find_in_dir, before the settings are touched
Find(c) ==
  /\ pc[c] = "find" /\ Binary \in disk
  /\ Goto(c, "save")
  /\ UNCHANGED <<told, disk>> /\ RuntimeQuiet

Save(c) ==
  /\ pc[c] = "save"
  /\ Goto(c, "tidy") /\ disk' = disk \cup {Setting}
  /\ UNCHANGED told /\ RuntimeQuiet

Tidy(c) ==
  /\ pc[c] = "tidy"
  /\ disk' = disk \ {Archive}
  /\ EndWith(c, "completed", "ok")
  /\ Fixed /\ UNCHANGED <<cancelled, count>>

\* No directory, no release, no asset, the download, the archive (another call may have
\* removed it), no binary in it (or no longer), the settings file: an error of
\* the command.  No event goes with it, and nothing is put back.
RuntimeFails(c) ==
  /\ pc[c] \in {"clean", "fetch", "get_zip", "unzip", "find", "save"}
  /\ Return(c, IF pc[c] \in {"unzip", "find"} THEN "no build" ELSE "error")
  /\ Fixed /\ UNCHANGED <<told, cancelled, count, disk>>

RuntimeStep(c) ==
  \/ Clean(c) \/ FetchRelease(c) \/ GetZip(c) \/ ClearBin(c) \/ Unzip(c)
  \/ Find(c) \/ Save(c) \/ Tidy(c) \/ RuntimeFails(c)
=============================================================================
