------------------------------ MODULE Telemetry ------------------------------
(***************************************************************************)
(* What the desktop reports of itself: the events of TelemetryState, which *)
(* are posted to the endpoint of the environment or kept in a queue of a   *)
(* fixed size, and the panic hook, which writes a crash report and submits *)
(* an event of its own.  The file of the consent is one of ConfigStores.   *)
(***************************************************************************)
EXTENDS Naturals, Sequences, FiniteSets, Keeping

CONSTANTS Events,      \* events of one run of the application, panics included
          QueueCap,    \* 200
          MaxPosts   \* posts of an event: 3

ASSUME QueueAssumption == QueueCap \in Nat \ {0} /\ MaxPosts \in Nat \ {0}

VARIABLES dsn,       \* the endpoint: "none", one that does not parse, or a good one
          enabled,   \* the consent, in memory
          hook,      \* "off", "files" when the hook is set, "full" with telemetry attached
          stage,     \* where each submission is
          attempt,   \* posts of each event so far
          received,  \* posts of each event that reached the endpoint
          queue,     \* EventQueue::inner, oldest first
          enqueued,  \* the events that were enqueued, in that order (history)
          aged       \* events older than a day

telemetryVars == <<dsn, enabled, hook, stage, attempt, received, queue, enqueued, aged>>

InQueue == {queue[i] : i \in DOMAIN queue}
ToStage(e, s) == stage' = [stage EXCEPT ![e] = s]

TelemetryInit ==
  /\ dsn \in {"none", "bad", "good"} /\ enabled \in BOOLEAN
  /\ hook = "off"
  /\ stage = [e \in Events |-> "none"]
  /\ attempt = [e \in Events |-> 0] /\ received = [e \in Events |-> 0]
  /\ queue = <<>> /\ enqueued = <<>> /\ aged = {}

-----------------------------------------------------------------------------
\* install: before the application is built; a second call changes nothing.
InstallHook ==
  /\ hook = "off" /\ hook' = "files"
  /\ UNCHANGED <<dsn, enabled, stage, attempt, received, queue, enqueued, aged>>

\* attach_telemetry, in the setup.
AttachTelemetry ==
  /\ hook = "files" /\ hook' = "full"
  /\ UNCHANGED <<dsn, enabled, stage, attempt, received, queue, enqueued, aged>>

\* handle_panic: the report and the earlier hook first, which may fail and stop
\* nothing; then the event, on a task of its own.  Without telemetry there is none.
Panic(e) ==
  /\ stage[e] = "none" /\ hook # "off"
  /\ ToStage(e, IF hook = "full" THEN "submitted" ELSE "lost")
  /\ UNCHANGED <<dsn, enabled, hook, attempt, received, queue, enqueued, aged>>

\* submit_telemetry_event: a level the page may use and a message that is not blank.
SubmitEvent(e) ==
  /\ stage[e] = "none" /\ hook = "full"
  /\ \/ ToStage(e, "submitted")
     \/ ToStage(e, "refused")
  /\ UNCHANGED <<dsn, enabled, hook, attempt, received, queue, enqueued, aged>>

SetConsent ==
  /\ enabled' = ~enabled
  /\ UNCHANGED <<dsn, hook, stage, attempt, received, queue, enqueued, aged>>

\* submit_event reads the consent once, before anything else.
ReadConsent(e) ==
  /\ stage[e] = "submitted"
  /\ ToStage(e, IF enabled THEN "accepted" ELSE "refused")
  /\ UNCHANGED <<dsn, enabled, hook, attempt, received, queue, enqueued, aged>>

\* evict_expired, then by the endpoint: one that does not parse fails at once.
EvictExpired(e) ==
  /\ stage[e] = "accepted"
  /\ queue' = Kept(queue, Events \ aged)
  /\ ToStage(e, CASE dsn = "none" -> "to_queue"
                  [] dsn = "bad" -> "to_keep"
                  [] OTHER -> "post")
  /\ UNCHANGED <<dsn, enabled, hook, attempt, received, enqueued, aged>>

\* A post succeeds, is refused for good (4xx), or fails: a 5xx, or an answer that
\* does not come in time, whatever the endpoint did with it.
PostSucceeds(e) ==
  /\ stage[e] = "post"
  /\ received' = [received EXCEPT ![e] = @ + 1]
  /\ attempt' = [attempt EXCEPT ![e] = @ + 1]
  /\ ToStage(e, "sent")
  /\ UNCHANGED <<dsn, enabled, hook, queue, enqueued, aged>>

PostRefused(e) ==
  /\ stage[e] = "post"
  /\ attempt' = [attempt EXCEPT ![e] = @ + 1]
  /\ ToStage(e, "to_keep")
  /\ UNCHANGED <<dsn, enabled, hook, received, queue, enqueued, aged>>

\* (fault) the attempts are counted from none
PostFailsOnceMore(e) ==
  /\ stage[e] = "post"
  /\ attempt' = [attempt EXCEPT ![e] = @ + 1]
  /\ \E arrived \in {0, 1} : received' = [received EXCEPT ![e] = @ + arrived]
  /\ ToStage(e, IF attempt[e] < MaxPosts THEN "post" ELSE "to_keep")
  /\ UNCHANGED <<dsn, enabled, hook, queue, enqueued, aged>>

PostFails(e) ==
  /\ stage[e] = "post"
  /\ attempt' = [attempt EXCEPT ![e] = @ + 1]
  /\ \E arrived \in {0, 1} : received' = [received EXCEPT ![e] = @ + arrived]
  /\ ToStage(e, IF attempt[e] + 1 < MaxPosts THEN "post" ELSE "to_keep")
  /\ UNCHANGED <<dsn, enabled, hook, queue, enqueued, aged>>

Enqueued(e, q) ==
  /\ stage[e] \in {"to_queue", "to_keep"}
  /\ queue' = Append(q, e) /\ enqueued' = Append(enqueued, e)
  /\ ToStage(e, IF stage[e] = "to_queue" THEN "queued" ELSE "retained")
  /\ UNCHANGED <<dsn, enabled, hook, attempt, received, aged>>

\* A full queue gives up its oldest event.
Enqueue(e) ==
  Enqueued(e, IF Len(queue) >= QueueCap
              THEN SubSeq(queue, Len(queue) - QueueCap + 2, Len(queue)) ELSE queue)

\* A day goes by; an event carries the time it was made.
GrowOld(e) ==
  /\ stage[e] \notin {"none", "submitted", "refused", "lost"} /\ e \notin aged
  /\ aged' = aged \cup {e}
  /\ UNCHANGED <<dsn, enabled, hook, stage, attempt, received, queue, enqueued>>

TelemetryNext ==
  \/ InstallHook \/ AttachTelemetry \/ SetConsent
  \/ \E e \in Events :
       \/ Panic(e) \/ SubmitEvent(e) \/ ReadConsent(e) \/ EvictExpired(e)
       \/ PostSucceeds(e) \/ PostRefused(e) \/ PostFails(e) \/ Enqueue(e) \/ GrowOld(e)

TelemetrySpec == TelemetryInit /\ [][TelemetryNext]_telemetryVars

-----------------------------------------------------------------------------
\* The queue holds what could not be sent and nothing else: the latest events that
\* were told to be queued or retained, in that order, as many as it has room for,
\* each once, but for those a later submission found to be a day old.  No event
\* is posted more often than it may be; one told as sent has arrived; one that was
\* refused, or that a panic before the setup lost, has left no trace.
EventsAreKept ==
  /\ Len(queue) <= QueueCap
  /\ \A i \in DOMAIN enqueued : i + QueueCap > Len(enqueued) => enqueued[i] \in InQueue \cup aged
  /\ \A i, j \in DOMAIN queue : i < j =>
       \E m, n \in DOMAIN enqueued : m < n /\ enqueued[m] = queue[i] /\ enqueued[n] = queue[j]
  /\ InQueue \subseteq {e \in Events : stage[e] \in {"queued", "retained"}}
  /\ \A e \in Events :
       /\ attempt[e] <= MaxPosts /\ received[e] <= attempt[e]
       /\ stage[e] = "sent" => received[e] > 0
       /\ stage[e] \in {"refused", "lost"} => attempt[e] = 0
       /\ dsn # "good" => received[e] = 0
=============================================================================
