---------------------------- MODULE UpdatePoller ----------------------------
(***************************************************************************)
(* The automatic update poller: the single-slot PollerState of             *)
(* apps/desktop/src-tauri/src/updater.rs and the task each start spawns,   *)
(* which runs Poller::run_with_lifecycle of crates/auto-updater and then   *)
(* clears the slot.                                                        *)
(*                                                                         *)
(* A poller is one call of start_auto_update_poller.  The slot's lock is   *)
(* taken and released within each operation, so that starts, stops and the *)
(* end of a task interleave between them.                                  *)
(***************************************************************************)
EXTENDS Integers, Sequences, FiniteSets

CONSTANTS
  Poller,
  Version,    \* the releases newer than the running application
  UpToDate,   \* the answer that no release is newer
  MaxPolls    \* bound: successful polls of each poller

ASSUME PollerAssumption ==
  /\ UpToDate \notin Version
  /\ MaxPolls \in [Poller -> Nat]

VARIABLES
  slot,       \* PollerState::inner, at most one poller's handle
  task,         \* where each poller's task stands
  cancelled,  \* the pollers whose token is cancelled
  gone,     \* the pollers whose window, hence channel, is gone
  last,       \* Poller::last_notified, empty or one version
  log         \* the successful polls of each poller (history)

pollVars == <<slot, task, cancelled, gone, last, log>>

PollInit ==
  /\ slot = {}
  /\ task = [p \in Poller |-> "new"]
  /\ cancelled = {}
  /\ gone = {}
  /\ last = [p \in Poller |-> {}]
  /\ log = [p \in Poller |-> <<>>]

Live == {p \in Poller : task[p] \in {"top", "polling", "sleeping", "ended"}}

\* PollerState::install found the slot empty; the task is spawned.
Install(p) ==
  /\ task[p] = "new"
  /\ slot = {}
  /\ slot' = {p}
  /\ task' = [task EXCEPT ![p] = "top"]
  /\ UNCHANGED <<cancelled, gone, last, log>>

\* PollerAlreadyRunning.
RefuseStart(p) ==
  /\ task[p] = "new"
  /\ slot # {}
  /\ task' = [task EXCEPT ![p] = "refused"]
  /\ UNCHANGED <<slot, cancelled, gone, last, log>>

\* PollerState::stop takes the handle and cancels its token; it does not wait
\* for the task.
StopPoller ==
  /\ slot # {}
  /\ cancelled' = cancelled \cup slot
  /\ slot' = {}
  /\ UNCHANGED <<task, gone, last, log>>

\* (fault) the loop reads the token in its sleep only
LoopTopUnchecked(p) ==
  /\ task[p] = "top"
  /\ task' = [task EXCEPT ![p] = "polling"]
  /\ UNCHANGED <<slot, cancelled, gone, last, log>>

\* The top of the loop: return if cancelled, else ask the source.
LoopTop(p) ==
  /\ task[p] = "top"
  /\ task' = [task EXCEPT ![p] = IF p \in cancelled THEN "ended" ELSE "polling"]
  /\ UNCHANGED <<slot, cancelled, gone, last, log>>

\* A successful check of p answered `answer`; it is told unless it is
\* up to date or in last_notified, and last_notified becomes `next`.
Polled(p, answer, next) ==
  LET told == answer # UpToDate /\ answer \notin last[p] IN
  /\ last' = [last EXCEPT ![p] = next]
  /\ log' = [log EXCEPT ![p] =
       Append(@, [answer |-> answer, told |-> told, late |-> p \in cancelled])]
  /\ cancelled' = IF told /\ p \in gone THEN cancelled \cup {p} ELSE cancelled
  /\ task' = [task EXCEPT ![p] = "sleeping"]
  /\ UNCHANGED <<slot, gone>>

\* (fault) an up-to-date answer leaves last_notified as it was
PollAnswersKeeping(p) ==
  /\ task[p] = "polling"
  /\ Len(log[p]) < MaxPolls[p]
  /\ \/ Polled(p, UpToDate, last[p])
     \/ \E v \in Version : Polled(p, v, {v})

\* poll_cycle and the callback.  A newer release is told unless it is the one
\* told last; an up-to-date answer forgets that.  If the channel is gone the
\* callback cancels the poller's own token.
PollAnswers(p) ==
  /\ task[p] = "polling"
  /\ Len(log[p]) < MaxPolls[p]
  /\ \/ Polled(p, UpToDate, {})
     \/ \E v \in Version : Polled(p, v, {v})

\* The source fails, its 8 s client timeout included.
PollFails(p) ==
  /\ task[p] = "polling"
  /\ task' = [task EXCEPT ![p] = "sleeping"]
  /\ UNCHANGED <<slot, cancelled, gone, last, log>>

\* select! of the sleep and the token: it is not biased, so an elapsed sleep
\* may win over a cancelled token.
SleepElapses(p) ==
  /\ task[p] = "sleeping"
  /\ task' = [task EXCEPT ![p] = "top"]
  /\ UNCHANGED <<slot, cancelled, gone, last, log>>

SleepCancelled(p) ==
  /\ task[p] = "sleeping"
  /\ p \in cancelled
  /\ task' = [task EXCEPT ![p] = "ended"]
  /\ UNCHANGED <<slot, cancelled, gone, last, log>>

\* (fault) the task ends without clearing the slot
ClearNothing(p) ==
  /\ task[p] = "ended"
  /\ task' = [task EXCEPT ![p] = "done"]
  /\ UNCHANGED <<slot, cancelled, gone, last, log>>

\* PollerState::clear: the slot is emptied, whoever's handle it holds.
Clear(p) ==
  /\ task[p] = "ended"
  /\ slot' = {}
  /\ task' = [task EXCEPT ![p] = "done"]
  /\ UNCHANGED <<cancelled, gone, last, log>>

CloseWindow(p) ==
  /\ p \in Live
  /\ gone' = gone \cup {p}
  /\ UNCHANGED <<slot, task, cancelled, last, log>>

\* What the task does by itself.
TaskStep(p) ==
  \/ LoopTop(p) \/ PollAnswers(p) \/ PollFails(p)
  \/ SleepElapses(p) \/ SleepCancelled(p) \/ Clear(p)

PollerStep(p) == Install(p) \/ RefuseStart(p) \/ TaskStep(p) \/ CloseWindow(p)

PollNext == (\E p \in Poller : PollerStep(p)) \/ StopPoller

PollSpec == PollInit /\ [][PollNext]_pollVars

\* The runtime polls every task that can run, and the source answers or fails
\* within its client timeout.  Nothing is assumed of starts, stops or windows.
PollFairness == \A p \in Poller : WF_pollVars(TaskStep(p))

PollFairSpec == PollSpec /\ PollFairness

-----------------------------------------------------------------------------
PollTypeOK ==
  /\ slot \in SUBSET Poller
  /\ task \in [Poller -> {"new", "refused", "top", "polling", "sleeping", "ended", "done"}]
  /\ cancelled \in SUBSET Poller
  /\ gone \in SUBSET Poller
  /\ last \in [Poller -> {{}} \cup {{v} : v \in Version}]
  /\ \A p \in Poller : Len(log[p]) <= MaxPolls[p]

\* The slot never keeps the handle of a task that is over, so a start is
\* refused only while some task has still to end (updater.rs:239-252, 591).
SlotIsLive == slot \subseteq Live /\ \A p, q \in slot : p = q

\* The user is told of a release exactly when it differs from what the
\* previous successful check found, failed checks in between or not
\* (poller.rs:145-161).
TellsEveryChange ==
  \A p \in Poller : \A i \in 1..Len(log[p]) :
    LET entry == log[p][i] IN
    entry.told <=> /\ entry.answer # UpToDate
                   /\ i > 1 => log[p][i - 1].answer # entry.answer

\* A poller that is stopped, or whose window closes, completes at most the
\* check it is in.
OneLateCheck ==
  \A p \in Poller : \A i \in 1..Len(log[p]) :
    log[p][i].late => i = Len(log[p])

\* A cancelled poller ends.
CancelEnds == \A p \in Poller : (p \in cancelled) ~> (task[p] = "done")

=============================================================================
