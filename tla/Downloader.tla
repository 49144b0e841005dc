----------------------------- MODULE Downloader -----------------------------
(***************************************************************************)
(* The resumable downloader of crates/installer: Downloader::download with *)
(* its retry loop, attempt_download and atomic_persist, for ONE final path *)
(* and its `.partial` file, called again and again by the install and      *)
(* model-pull commands.                                                    *)
(*                                                                         *)
(* A published file is Size chunks; a chunk is named by the version it     *)
(* belongs to, so a byte string is a sequence of versions and the sha256   *)
(* of a string is the string itself.  The server may publish another       *)
(* version between two attempts, ignore Range, answer with an error, or    *)
(* close the connection; the process may be killed at any point.           *)
(***************************************************************************)
EXTENDS Integers, Sequences

CONSTANTS
  FileVersion,    \* versions of the remote file
  Expected,       \* expected_sha256: a version, or NoHash (a placeholder hash)
  NoHash,
  Size,           \* chunks of every version
  MaxRetries,     \* DownloadRequest::max_retries, 5 by default
  EofMayTruncate  \* TRUE: the server sends no Content-Length, so a dropped
                  \* connection looks like the end of the body

ASSUME ConstantsAssumption ==
  /\ Size \in Nat \ {0}
  /\ MaxRetries \in Nat
  /\ NoHash \notin FileVersion
  /\ Expected \in FileVersion \cup {NoHash}
  /\ EofMayTruncate \in BOOLEAN

VARIABLES
  partial,     \* bytes of `<final>.partial`; a missing file is the empty string
  final,       \* the file at final_path: {} when absent, else {its bytes}
  served,      \* version the server publishes now
  phase,       \* where the download task stands
  hasher,      \* bytes fed to the running Sha256
  resumeFrom,  \* length of .partial when the attempt began
  body,        \* bytes of the response not yet received
  retries,     \* retries consumed of this call
  token,       \* the CancellationToken of this call: "live" or "cancelled"
  outcome      \* how the last call ended

taskVars == <<phase, hasher, resumeFrom, body, retries, token>>
downloadVars == <<partial, final, served, taskVars, outcome>>

Bytes == Seq(FileVersion)

Content(v) == [i \in 1..Size |-> v]

\* The errors is_retryable (error.rs:33-47) does not retry, or not any more.
Fatal == {"bad_status", "range_rejected", "http_body", "io", "hash_mismatch",
          "cancelled", "exhausted", "killed"}

Running == {"probe", "request", "stream", "backoff", "verify", "rename"}

DownloadInit ==
  /\ partial = <<>>
  /\ final = {}
  /\ served \in FileVersion
  /\ phase = "idle"
  /\ hasher = <<>>
  /\ resumeFrom = 0
  /\ body = <<>>
  /\ retries = 0
  /\ token = "live"
  /\ outcome = "none"

EndCall(result) ==
  /\ phase' = "idle"
  /\ outcome' = result
  /\ hasher' = <<>>
  /\ resumeFrom' = 0
  /\ body' = <<>>
  /\ retries' = 0
  /\ token' = "live"

\* A caller calls download with a fresh token.
Start ==
  /\ phase = "idle"
  /\ phase' = "probe"
  /\ UNCHANGED <<partial, final, served, hasher, resumeFrom, body, retries, token, outcome>>

\* attempt_download, first half: measure .partial and hash what it holds.
Probe ==
  /\ phase = "probe"
  /\ resumeFrom' = Len(partial)
  /\ hasher' = partial
  /\ phase' = "request"
  /\ UNCHANGED <<partial, final, served, body, retries, token, outcome>>

\* .partial cannot be read for its digest, truncated for a whole body or opened for
\* the chunks; it may have been truncated before it is not opened.
PartialUnusable ==
  /\ \/ phase = "probe" /\ partial # <<>> /\ UNCHANGED partial
     \/ phase = "request" /\ partial' \in {partial, <<>>}
  /\ EndCall("io")
  /\ UNCHANGED <<final, served>>

\* 206: the server continues at resumeFrom with the version it serves now.
RespondPartial ==
  /\ phase = "request"
  /\ resumeFrom \in 1..(Size - 1)
  /\ body' = [i \in 1..(Size - resumeFrom) |-> served]
  /\ phase' = "stream"
  /\ UNCHANGED <<partial, final, served, hasher, resumeFrom, retries, token, outcome>>

\* (fault) the hasher starts again but .partial is not truncated
RespondFullWithoutTruncate ==
  /\ phase = "request"
  /\ body' = Content(served)
  /\ phase' = "stream"
  /\ hasher' = <<>>
  /\ resumeFrom' = 0
  /\ UNCHANGED <<partial, final, served, retries, token, outcome>>

\* 200: a whole body.  If a Range was asked for, .partial is truncated and the
\* hasher starts again.
RespondFull ==
  /\ phase = "request"
  /\ body' = Content(served)
  /\ phase' = "stream"
  /\ partial' = <<>>
  /\ hasher' = <<>>
  /\ resumeFrom' = 0
  /\ UNCHANGED <<final, served, retries, token, outcome>>

\* 416: nothing is left past resumeFrom; BadStatus is returned like any 4xx.
RespondRangeNotSatisfiable ==
  /\ phase = "request"
  /\ resumeFrom >= Size
  /\ EndCall("range_rejected")
  /\ UNCHANGED <<partial, final, served>>

\* Another 4xx, not retryable.
RespondClientError ==
  /\ phase = "request"
  /\ EndCall("bad_status")
  /\ UNCHANGED <<partial, final, served>>

\* A connect failure, a timeout or a 5xx, while waiting for the response or
\* (timeout) in the middle of the body.
TransientError ==
  /\ phase = "request" \/ (phase = "stream" /\ token = "live" /\ body # <<>>)
  /\ phase' = "backoff"
  /\ body' = <<>>
  /\ UNCHANGED <<partial, final, served, hasher, resumeFrom, retries, token, outcome>>

\* One chunk is hashed and appended; the select is biased, so a cancelled call
\* never takes another chunk.
ReceiveChunk ==
  /\ phase = "stream"
  /\ token = "live"
  /\ body # <<>>
  /\ partial' = Append(partial, Head(body))
  /\ hasher' = Append(hasher, Head(body))
  /\ body' = Tail(body)
  /\ UNCHANGED <<phase, final, served, resumeFrom, retries, token, outcome>>

\* The body ends: complete, or cut short where no Content-Length tells.
EndOfBody ==
  /\ phase = "stream"
  /\ token = "live"
  /\ body = <<>> \/ EofMayTruncate
  /\ phase' = "verify"
  /\ body' = <<>>
  /\ UNCHANGED <<partial, final, served, hasher, resumeFrom, retries, token, outcome>>

\* The write handed to the file layer last may not reach .partial.
LastWriteLost ==
  /\ phase = "stream"
  /\ Len(partial) > resumeFrom
  /\ partial' = SubSeq(partial, 1, Len(partial) - 1)

\* The body breaks off (not retryable), or a write to .partial or, after the body,
\* its flush fails.
StreamFails ==
  /\ phase = "stream"
  /\ token = "live"
  /\ \/ body # <<>> /\ EndCall("http_body") /\ UNCHANGED partial
     \/ EndCall("io") /\ (UNCHANGED partial \/ LastWriteLost)
  /\ UNCHANGED <<final, served>>

\* (fault) a cancelled call cleans up after itself
SeeCancelRemovingPartial ==
  /\ phase = "stream"
  /\ token = "cancelled"
  /\ EndCall("cancelled")
  /\ partial' = <<>>
  /\ UNCHANGED <<final, served>>

\* The loop sees the token: .partial is flushed and kept.
SeeCancel ==
  /\ phase = "stream"
  /\ token = "cancelled"
  /\ EndCall("cancelled")
  /\ UNCHANGED <<partial, final, served>>

\* (fault) retries are not counted
RetryForever ==
  /\ phase = "backoff"
  /\ phase' = "probe"
  /\ UNCHANGED <<partial, final, served, hasher, resumeFrom, body, retries, token, outcome>>

\* backon sleeps and calls attempt_download again, or gives the error back.
Retry ==
  /\ phase = "backoff"
  /\ IF retries < MaxRetries
       THEN /\ phase' = "probe"
            /\ retries' = retries + 1
            /\ UNCHANGED <<hasher, resumeFrom, body, token, outcome>>
       ELSE EndCall("exhausted")
  /\ UNCHANGED <<partial, final, served>>

\* A known hash that differs removes .partial and fails.
HashDiffers == Expected # NoHash /\ hasher # Content(Expected)

Verify ==
  /\ phase = "verify"
  /\ IF HashDiffers
       THEN /\ partial' = <<>>
            /\ EndCall("hash_mismatch")
       ELSE /\ phase' = "rename"
            /\ UNCHANGED <<partial, hasher, resumeFrom, body, retries, token, outcome>>
  /\ UNCHANGED <<final, served>>

\* atomic_persist: the rename succeeds, or all five tries fail.
Persist ==
  /\ phase = "rename"
  /\ final' = {partial}
  /\ partial' = <<>>
  /\ EndCall("ok")
  /\ UNCHANGED served

PersistFails ==
  /\ phase = "rename"
  /\ EndCall("io")
  /\ UNCHANGED <<partial, final, served>>

\* The user cancels, the window closes, or the application exits.
Cancel ==
  /\ phase \in Running
  /\ token' = "cancelled"
  /\ UNCHANGED <<partial, final, served, phase, hasher, resumeFrom, body, retries, outcome>>

\* The process dies.
Crash ==
  /\ phase \in Running
  /\ EndCall("killed")
  /\ UNCHANGED partial \/ LastWriteLost
  /\ UNCHANGED <<final, served>>

\* The publisher replaces the remote file.
Republish ==
  /\ \E v \in FileVersion \ {served} : served' = v
  /\ UNCHANGED <<partial, final, taskVars, outcome>>

CallStep ==
  \/ Probe \/ PartialUnusable
  \/ RespondPartial \/ RespondFull \/ RespondRangeNotSatisfiable \/ RespondClientError
  \/ TransientError \/ ReceiveChunk \/ EndOfBody \/ StreamFails \/ SeeCancel
  \/ Retry \/ Verify \/ Persist \/ PersistFails

DownloadNext == Start \/ CallStep \/ Cancel \/ Crash \/ Republish

DownloadSpec == DownloadInit /\ [][DownloadNext]_downloadVars

\* The runtime polls a woken task, and reqwest's 30 minute timeout wakes a
\* stalled one: a running call always takes its next step.
DownloadFairness == WF_downloadVars(CallStep)

DownloadFair == DownloadSpec /\ DownloadFairness

-----------------------------------------------------------------------------
DownloadTypes ==
  /\ partial \in Bytes
  /\ final \in SUBSET Bytes
  /\ served \in FileVersion
  /\ phase \in Running \cup {"idle"}
  /\ hasher \in Bytes
  /\ resumeFrom \in Nat
  /\ body \in Bytes
  /\ retries \in 0..MaxRetries
  /\ token \in {"live", "cancelled"}
  /\ outcome \in Fatal \cup {"none", "ok"}

\* With a known hash, final_path never holds anything but the expected file,
\* whatever is served, resumed, cancelled, retried or interrupted on the way:
\* the digest is computed over the stream, not over the file that is renamed.
FinalIsVerified ==
  Expected # NoHash => final \subseteq {Content(Expected)}

\* The running digest always stands for what .partial holds, also after a
\* resume and after a server that ignored Range (downloader.rs:141-185).
HasherMatchesPartial ==
  phase \in {"request", "stream", "verify", "rename"} => hasher = partial

\* Bytes already downloaded are given up only for a wrong hash, a restart from
\* byte 0, a successful rename or a last write that was lost; a cancelled call
\* and a failed one keep them for the next run (downloader.rs:6).
ProgressIsKept ==
  [][ Len(partial') < Len(partial) =>
        \/ phase = "verify" /\ outcome' = "hash_mismatch"
        \/ phase = "rename" /\ outcome' = "ok"
        \/ phase = "request" /\ (phase' = "stream" \/ outcome' = "io")
        \/ phase = "stream" /\ outcome' \in {"killed", "io"} /\ Len(partial') = Len(partial) - 1 ]_downloadVars

\* Every call ends: retries are bounded, and a cancellation is observed at the
\* latest when the next attempt streams.
CallsEnd == (phase \in Running) ~> (phase = "idle")

=============================================================================
