----------------------------- MODULE UpdateCheck -----------------------------
(***************************************************************************)
(* The checks for an update that a page asks for, one by one: each has a   *)
(* token in UpdaterRegistry, a task that asks the release source, and a    *)
(* channel to the page that asked.  (The poller that asks by itself is in  *)
(* UpdatePoller.)                                                          *)
(***************************************************************************)
EXTENDS Naturals, Sequences

CONSTANT Checks  \* calls of check_for_update

VARIABLES checks,  \* what each check is doing
          closed   \* the checks whose page is gone: nothing can be sent to it

updateVars == <<checks, closed>>

\* What the source may answer: a version that is newer, one that is not, one that
\* is not a version, or no answer that can be used.
Answers == {"newer", "same", "unreadable", "error", "cancelled"}
LastWord == [newer |-> "outdated", same |-> "up_to_date", unreadable |-> "failed",
             error |-> "failed", cancelled |-> "cancelled"]

UpdateInit ==
  /\ checks = [c \in Checks |-> [at |-> "none", listed |-> FALSE, cancelled |-> FALSE,
                                 stopped |-> FALSE, answer |-> "none", told |-> <<>>]]
  /\ closed = {}

\* emit_or_cancel: an event that cannot be sent cancels the check.
Told(c, event, at) ==
  IF c \in closed
  THEN [checks[c] EXCEPT !.at = at, !.cancelled = TRUE]
  ELSE [checks[c] EXCEPT !.at = at, !.told = Append(@, event)]

\* check_for_update: a repository that is not owner/name, or an empty version, is
\* refused; anything else is registered and runs as a task.
CheckForUpdate(c) ==
  /\ checks[c].at = "none"
  /\ \/ checks' = [checks EXCEPT ![c].at = "refused"]
     \/ checks' = [checks EXCEPT ![c].at = "started", ![c].listed = TRUE]
  /\ UNCHANGED closed

\* run_check_once: Started, and an end at once if that cannot be sent or the check
\* was cancelled before.
Started(c) ==
  /\ checks[c].at = "started"
  /\ checks' = [checks EXCEPT ![c] = Told(c, "started", "begun")]
  /\ UNCHANGED closed

Begun(c) ==
  /\ checks[c].at = "begun"
  /\ checks' = [checks EXCEPT ![c] = IF checks[c].cancelled
                                     THEN Told(c, "cancelled", "over")
                                     ELSE [@ EXCEPT !.at = "asking"]]
  /\ UNCHANGED closed

Answered(c) ==
  /\ checks[c].at = "asking" /\ checks[c].answer = "none"
  /\ \E a \in Answers \ {"cancelled"} : checks' = [checks EXCEPT ![c].answer = a]
  /\ UNCHANGED closed

\* The select wakes on the token or the answer and looks at the token first.
Woken(c) ==
  /\ checks[c].at = "asking"
  /\ checks[c].cancelled \/ checks[c].answer # "none"
  /\ checks' = [checks EXCEPT ![c] =
       Told(c, IF @.cancelled THEN "cancelled" ELSE LastWord[@.answer], "over")]
  /\ UNCHANGED closed

\* The task takes the check out of the registry.
TakeOut(c) ==
  /\ checks[c].at = "over"
  /\ checks' = [checks EXCEPT ![c].at = "gone", ![c].listed = FALSE]
  /\ UNCHANGED closed

Stop(S) ==
  checks' = [c \in Checks |->
    IF c \in S
    THEN [checks[c] EXCEPT !.cancelled = @ \/ checks[c].listed, !.stopped = TRUE]
    ELSE checks[c]]

\* (fault) the command cancels what is listed, whichever check it is for
CancelAnyCheck(c) ==
  /\ checks[c].at # "none"
  /\ checks' = [d \in Checks |->
       [checks[d] EXCEPT !.cancelled = @ \/ checks[d].listed, !.stopped = @ \/ d = c]]
  /\ UNCHANGED closed

\* cancel_update_check: nothing happens if the check is not listed.
CancelCheck(c) == checks[c].at # "none" /\ Stop({c}) /\ UNCHANGED closed

\* cancel_all_blocking at the exit: every check, or none when the registry is in use.
CancelChecks ==
  /\ \E c \in Checks : checks[c].listed
  /\ \E S \in {Checks, {}} : Stop(S)
  /\ UNCHANGED closed

ClosePage(c) == c \notin closed /\ closed' = closed \cup {c} /\ UNCHANGED checks

UpdateNext ==
  \/ CancelChecks
  \/ \E c \in Checks :
       \/ CheckForUpdate(c) \/ Started(c) \/ Begun(c) \/ Answered(c) \/ Woken(c)
       \/ TakeOut(c) \/ CancelCheck(c) \/ ClosePage(c)

-----------------------------------------------------------------------------
\* A page that stays hears of its check once that it has started and once how it
\* ended; that it was cancelled only if someone cancelled it, and about the release
\* only what the source said.  A check is listed exactly while it runs, so that the
\* last word is never about a check that can still be cancelled for nothing.
ChecksAreAnswered ==
  \A c \in Checks :
    LET k == checks[c] IN
      /\ k.listed <=> k.at \in {"started", "begun", "asking", "over"}
      /\ c \notin closed =>
           /\ k.at \in {"over", "gone"} => Len(k.told) = 2 /\ k.told[1] = "started"
           /\ k.at = "refused" => k.told = <<>>
      /\ Len(k.told) = 2 =>
           IF k.told[2] = "cancelled" THEN k.stopped
           ELSE k.answer # "none" /\ k.told[2] = LastWord[k.answer]
=============================================================================
