------------------------------ MODULE Gateway -------------------------------
(***************************************************************************)
(* The chat route of crates/core-gateway: POST /v1/chat/completions behind *)
(* the router's timeout and metrics layers, the single-permit semaphore    *)
(* that serialises the GPU, the upstream call and the streamed body that   *)
(* carries the permit until it is dropped.                                 *)
(*                                                                         *)
(* A request is one HTTP exchange.  The future of an exchange can be       *)
(* dropped at every await: by the timeout layer before the response head,  *)
(* by a client that goes away at any time.  Time is counted in ticks of    *)
(* RouterTimeout's unit, per request.                                      *)
(***************************************************************************)
EXTENDS Integers, Sequences, FiniteSets

CONSTANTS
  Request,
  Permits,         \* Semaphore::new(1) in AppState::new
  RouterTimeout,   \* the TimeoutLayer around the whole router, 30 s
  ChatTimeout,     \* the TimeoutLayer around the chat route, 600 s
  RecentCapacity   \* RECENT_REQUESTS_CAPACITY, 50

ASSUME GatewayAssumption ==
  /\ IsFiniteSet(Request)
  /\ Permits \in Nat \ {0}
  /\ RouterTimeout \in Nat \ {0}
  /\ ChatTimeout \in Nat \ {0}
  /\ RecentCapacity \in Nat \ {0}

VARIABLES
  pc,        \* where each exchange stands
  status,    \* the status each exchange ended or is streaming with
  age,       \* ticks since the exchange entered the router
  permits,   \* permits left in the semaphore
  queue,     \* exchanges waiting in acquire_owned, first come first
  recent,    \* GatewayMetrics::recent, a ring of the last records
  recorded   \* every exchange recorded so far (history of `recent`)

vars == <<pc, status, age, permits, queue, recent, recorded>>

\* The stages before the response head, which the timeout layers cover.
AwaitingHead == {"routing", "queued", "sending", "errorBody"}

\* The stages in which the exchange owns a permit.
OwningStage == {"sending", "errorBody", "streaming"}

Holding == {r \in Request : pc[r] \in OwningStage}

\* Both layers wrap the chat future, so the shorter one decides.
Deadline == IF RouterTimeout < ChatTimeout THEN RouterTimeout ELSE ChatTimeout

Init ==
  /\ pc = [r \in Request |-> "new"]
  /\ status = [r \in Request |-> "none"]
  /\ age = [r \in Request |-> 0]
  /\ permits = Permits
  /\ queue = <<>>
  /\ recent = <<>>
  /\ recorded = <<>>

\* The queue once its i-th waiter has left.
QueueWithout(i) ==
  [j \in 1..Len(queue) - 1 |-> queue[IF j < i THEN j ELSE j + 1]]

\* acquire_owned's future is dropped: the waiter leaves its place.
LeaveQueue(r) ==
  \E i \in 1..Len(queue) : queue[i] = r /\ queue' = QueueWithout(i)

\* record_metrics after next.run: the oldest record makes room for a new one.
Record(r) ==
  /\ recorded' = Append(recorded, r)
  /\ recent' = Append(IF Len(recent) >= RecentCapacity THEN Tail(recent) ELSE recent, r)

\* The exchange answers with a whole response and is over.
Answer(r, code) ==
  /\ pc' = [pc EXCEPT ![r] = "over"]
  /\ status' = [status EXCEPT ![r] = code]
  /\ Record(r)

\* An authorised request reaches chat_completions; require_api_key refuses
\* others below the metrics layer.
Arrive(r) ==
  /\ pc[r] = "new"
  /\ \/ /\ pc' = [pc EXCEPT ![r] = "routing"]
        /\ UNCHANGED <<status, recent, recorded>>
     \/ Answer(r, "refused")
  /\ UNCHANGED <<age, permits, queue>>

\* No model in the body, or no adapter that has the model.
NotRouted(r) ==
  /\ pc[r] = "routing"
  /\ \E code \in {"invalid_body", "model_not_found"} : Answer(r, code)
  /\ UNCHANGED <<age, permits, queue>>

\* upstream_for found a route; acquire_owned queues behind those waiting.
Enqueue(r) ==
  /\ pc[r] = "routing"
  /\ pc' = [pc EXCEPT ![r] = "queued"]
  /\ queue' = Append(queue, r)
  /\ UNCHANGED <<status, age, permits, recent, recorded>>

\* (fault) a barging semaphore
GrantAny(r) ==
  /\ pc[r] = "queued"
  /\ permits > 0
  /\ permits' = permits - 1
  /\ LeaveQueue(r)
  /\ pc' = [pc EXCEPT ![r] = "sending"]
  /\ UNCHANGED <<status, age, recent, recorded>>

\* (fault) the queue is left without a permit
GrantUnpaid(r) ==
  /\ pc[r] = "queued"
  /\ queue # <<>> /\ Head(queue) = r
  /\ queue' = Tail(queue)
  /\ pc' = [pc EXCEPT ![r] = "sending"]
  /\ UNCHANGED <<status, age, permits, recent, recorded>>

\* The semaphore is fair: a permit goes to the longest waiting exchange.
Grant(r) ==
  /\ pc[r] = "queued"
  /\ queue # <<>> /\ Head(queue) = r
  /\ permits > 0
  /\ permits' = permits - 1
  /\ queue' = Tail(queue)
  /\ pc' = [pc EXCEPT ![r] = "sending"]
  /\ UNCHANGED <<status, age, recent, recorded>>

\* The upstream cannot be reached: drop(permit), 502.
SendFails(r) ==
  /\ pc[r] = "sending"
  /\ permits' = permits + 1
  /\ Answer(r, "unreachable")
  /\ UNCHANGED <<age, queue>>

\* The upstream answers; an error body is read before the permit is dropped,
\* a success starts the stream that owns the permit.
UpstreamHead(r) ==
  /\ pc[r] = "sending"
  /\ \/ /\ pc' = [pc EXCEPT ![r] = "errorBody"]
        /\ UNCHANGED <<status, recent, recorded>>
     \/ /\ pc' = [pc EXCEPT ![r] = "streaming"]
        /\ status' = [status EXCEPT ![r] = "ok"]
        /\ Record(r)
  /\ UNCHANGED <<age, permits, queue>>

ErrorBodyRead(r) ==
  /\ pc[r] = "errorBody"
  /\ permits' = permits + 1
  /\ Answer(r, "upstream_status")
  /\ UNCHANGED <<age, queue>>

\* The upstream closes the stream and the body is dropped with its permit.
StreamEnds(r) ==
  /\ pc[r] = "streaming"
  /\ pc' = [pc EXCEPT ![r] = "over"]
  /\ permits' = permits + 1
  /\ UNCHANGED <<status, age, queue, recent, recorded>>

\* The exchange's future or body is dropped at an await: a waiter leaves the
\* queue, an owner gives its permit back, and record_metrics, being part of
\* what is dropped, writes nothing.
Abandon(r, code) ==
  /\ pc' = [pc EXCEPT ![r] = "over"]
  /\ status' = [status EXCEPT ![r] = code]
  /\ IF pc[r] = "queued" THEN LeaveQueue(r) ELSE UNCHANGED queue
  /\ permits' = IF pc[r] \in OwningStage THEN permits + 1 ELSE permits
  /\ UNCHANGED <<age, recent, recorded>>

\* (fault) only the upstream call is timed, not the wait before it
TimeoutUpstreamOnly(r) ==
  /\ pc[r] \in {"sending", "errorBody"}
  /\ age[r] >= Deadline
  /\ Abandon(r, "timeout")

\* The nearest timeout layer answers 408.
Timeout(r) ==
  /\ pc[r] \in AwaitingHead
  /\ age[r] >= Deadline
  /\ Abandon(r, "timeout")

\* The client closes its connection.
ClientGone(r) ==
  /\ pc[r] \in AwaitingHead \cup {"streaming"}
  /\ Abandon(r, "gone")

\* Time passes for every exchange still without a response head; a due timer
\* fires before the next tick.
Tick ==
  /\ \E r \in Request : pc[r] \in AwaitingHead
  /\ \A r \in Request : pc[r] \in AwaitingHead => age[r] < Deadline
  /\ age' = [r \in Request |-> IF pc[r] \in AwaitingHead THEN age[r] + 1 ELSE age[r]]
  /\ UNCHANGED <<pc, status, permits, queue, recent, recorded>>

Step(r) ==
  \/ Arrive(r) \/ NotRouted(r) \/ Enqueue(r) \/ Grant(r)
  \/ SendFails(r) \/ UpstreamHead(r) \/ ErrorBodyRead(r) \/ StreamEnds(r)
  \/ Timeout(r) \/ ClientGone(r)

Next == (\E r \in Request : Step(r)) \/ Tick

Spec == Init /\ [][Next]_vars

\* Timers run, and the semaphore wakes the head of its queue.  Nothing is
\* assumed of the upstream or of the clients.
GatewayFairness ==
  /\ WF_vars(Tick)
  /\ \A r \in Request : WF_vars(Timeout(r)) /\ WF_vars(Grant(r))

FairSpec == Spec /\ GatewayFairness

-----------------------------------------------------------------------------
Status == {"none", "ok", "refused", "invalid_body", "model_not_found",
           "unreachable", "upstream_status", "timeout", "gone"}

TypeOK ==
  /\ pc \in [Request -> AwaitingHead \cup {"new", "streaming", "over"}]
  /\ status \in [Request -> Status]
  /\ age \in [Request -> Nat]
  /\ permits \in 0..Permits
  /\ queue \in Seq(Request)
  /\ recent \in Seq(Request)
  /\ recorded \in Seq(Request)

\* No path through the route, dropped futures included, leaks or forges a
\* permit: those left and those owned always make up Permits
\* (routes/chat.rs:43-86).
PermitsConserved == permits + Cardinality(Holding) = Permits

\* The route is a counting semaphore: at most Permits exchanges are between
\* the grant and the end of their body (lib.rs:12).
Sem == INSTANCE Semaphore WITH User <- Request, holders <- Holding

SerialisesUpstream == Sem!Spec

\* Exchanges reach the upstream in the order in which they queued: none is
\* granted while an earlier one still waits.
FirstComeFirstServed ==
  [][ \A i, j \in 1..Len(queue) :
        i < j /\ pc'[queue[j]] = "sending" => pc'[queue[i]] # "queued" ]_vars

\* The ring holds the last RecentCapacity records, in order
\* (usage_log.rs:78-89).
RecentIsLatest ==
  LET n == Len(recorded)
      k == Len(recent)
  IN /\ k = IF n < RecentCapacity THEN n ELSE RecentCapacity
     /\ \A i \in 1..k : recent[i] = recorded[n - k + i]

\* No exchange waits in the queue for ever, even behind a body that never
\* ends: it is granted a permit, times out, or its client leaves.
QueueDrains == \A r \in Request : pc[r] = "queued" ~> pc[r] # "queued"

=============================================================================
