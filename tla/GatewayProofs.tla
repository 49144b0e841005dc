---------------------------- MODULE GatewayProofs ----------------------------
(***************************************************************************)
(* What holds of the gateway for every set of exchanges, keys, callers and *)
(* runtimes.  Of the chat route: no path leaks or forges a permit, the     *)
(* ring keeps the latest records, no exchange overtakes another, and the   *)
(* route implements the counting semaphore.  Of the key store: a           *)
(* revocation is final, and a call is allowed only by a scope that was in  *)
(* force while it was under way.  Of the filters and the runtimes behind   *)
(* the proxy: no personal text gets past a chain that may redact it, the   *)
(* audit log is the latest part of the trail, and a list is fetched once.  *)
(***************************************************************************)
EXTENDS Gateway, KeyManager, Proxy, Recursion, FiniteSetTheorems, SequenceTheorems,
        TLAPS

\* The upper bound of TypeOK on `permits` follows from the count of owners.
Accounts == TypeOK /\ PermitsConserved

\* The owners are finitely many.
LEMMA HoldingFinite == IsFiniteSet(Holding) /\ Cardinality(Holding) \in Nat
  BY GatewayAssumption, FS_Subset, FS_CardinalityType DEF Holding

\* A step of one exchange that neither enters nor leaves the owning stages.
LEMMA OwnersKept ==
  ASSUME Accounts, NEW r \in Request, NEW s,
         pc' = [pc EXCEPT ![r] = s], pc[r] \in OwningStage <=> s \in OwningStage,
         permits' = permits
  PROVE  PermitsConserved' /\ permits' \in 0..Permits
<1>1. Holding' = Holding
  BY DEF Holding, Accounts, TypeOK
<1>2. QED
  BY <1>1 DEF Accounts, TypeOK, PermitsConserved

\* An exchange that becomes an owner pays a permit.
LEMMA OwnerAdded ==
  ASSUME Accounts, NEW r \in Request, NEW s,
         pc' = [pc EXCEPT ![r] = s], pc[r] \notin OwningStage, s \in OwningStage,
         permits > 0, permits' = permits - 1
  PROVE  PermitsConserved' /\ permits' \in 0..Permits
<1>1. Holding' = Holding \cup {r} /\ r \notin Holding
  BY DEF Holding, Accounts, TypeOK
<1>2. Cardinality(Holding') = Cardinality(Holding) + 1
  BY <1>1, HoldingFinite, FS_AddElement
<1>3. QED
  BY <1>2, HoldingFinite, GatewayAssumption DEF Accounts, TypeOK, PermitsConserved

\* An exchange that stops being an owner gives its permit back.
LEMMA OwnerRemoved ==
  ASSUME Accounts, NEW r \in Request, NEW s,
         pc' = [pc EXCEPT ![r] = s], pc[r] \in OwningStage, s \notin OwningStage,
         permits' = permits + 1
  PROVE  PermitsConserved' /\ permits' \in 0..Permits
<1>1. Holding' = Holding \ {r} /\ r \in Holding
  BY DEF Holding, Accounts, TypeOK
<1>2. Cardinality(Holding') = Cardinality(Holding) - 1
  BY <1>1, HoldingFinite, FS_RemoveElement
<1>3. Cardinality(Holding') \in Nat
  BY <1>1, HoldingFinite, FS_RemoveElement, FS_CardinalityType
<1>4. QED
  BY <1>2, <1>3, HoldingFinite, GatewayAssumption DEF Accounts, TypeOK, PermitsConserved

\* A waiter that leaves the queue leaves a queue of exchanges.
LEMMA LeaveQueueType ==
  ASSUME TypeOK, NEW r \in Request, LeaveQueue(r)
  PROVE  queue' \in Seq(Request)
<1>1. PICK i \in 1..Len(queue) : queue' = QueueWithout(i)
  BY DEF LeaveQueue
<1>2. Len(queue) \in Nat /\ \A j \in 1..Len(queue) : queue[j] \in Request
  BY DEF TypeOK
<1>3. QueueWithout(i) \in [1..(Len(queue) - 1) -> Request]
  BY <1>1, <1>2 DEF QueueWithout
<1>4. Len(queue) - 1 \in Nat
  BY <1>1, <1>2
<1>5. QED
  BY <1>1, <1>3, <1>4, SeqDef

\* Every step of an exchange keeps the types of the variables but `permits`.
LEMMA StepType ==
  ASSUME TypeOK, NEW r \in Request, Step(r)
  PROVE  /\ pc' \in [Request -> AwaitingHead \cup {"new", "streaming", "over"}]
         /\ status' \in [Request -> Status]
         /\ age' \in [Request -> Nat]
         /\ queue' \in Seq(Request)
         /\ recent' \in Seq(Request)
         /\ recorded' \in Seq(Request)
<1> USE DEF TypeOK, AwaitingHead, Status
<1>0. ASSUME Record(r) PROVE recent' \in Seq(Request) /\ recorded' \in Seq(Request)
  <2>1. CASE Len(recent) >= RecentCapacity
    BY <1>0, <2>1, GatewayAssumption DEF Record
  <2>2. CASE ~(Len(recent) >= RecentCapacity)
    BY <1>0, <2>2 DEF Record
  <2>3. QED BY <2>1, <2>2
<1>1. CASE Arrive(r) BY <1>0, <1>1 DEF Arrive, Answer
<1>2. CASE NotRouted(r) BY <1>0, <1>2 DEF NotRouted, Answer
<1>3. CASE Enqueue(r) BY <1>3 DEF Enqueue
<1>4. CASE Grant(r) BY <1>4 DEF Grant
<1>5. CASE SendFails(r) BY <1>0, <1>5 DEF SendFails, Answer
<1>6. CASE UpstreamHead(r) BY <1>0, <1>6 DEF UpstreamHead
<1>7. CASE ErrorBodyRead(r) BY <1>0, <1>7 DEF ErrorBodyRead, Answer
<1>8. CASE StreamEnds(r) BY <1>8 DEF StreamEnds
<1>9. CASE Timeout(r) \/ ClientGone(r)
  <2>1. queue' \in Seq(Request)
    BY <1>9, LeaveQueueType DEF Timeout, ClientGone, Abandon
  <2>2. QED BY <1>9, <2>1 DEF Timeout, ClientGone, Abandon
<1>10. QED
  BY <1>1, <1>2, <1>3, <1>4, <1>5, <1>6, <1>7, <1>8, <1>9 DEF Step

\* Every step of an exchange keeps the account of permits.
LEMMA StepAccounts ==
  ASSUME Accounts, NEW r \in Request, Step(r)
  PROVE  PermitsConserved' /\ permits' \in 0..Permits
<1> USE DEF OwningStage, AwaitingHead
<1>1. CASE Arrive(r) BY <1>1, OwnersKept DEF Arrive, Answer
<1>2. CASE NotRouted(r) BY <1>2, OwnersKept DEF NotRouted, Answer
<1>3. CASE Enqueue(r) BY <1>3, OwnersKept DEF Enqueue
<1>4. CASE Grant(r) BY <1>4, OwnerAdded DEF Grant
<1>5. CASE SendFails(r) BY <1>5, OwnerRemoved DEF SendFails, Answer
<1>6. CASE UpstreamHead(r) BY <1>6, OwnersKept DEF UpstreamHead
<1>7. CASE ErrorBodyRead(r) BY <1>7, OwnerRemoved DEF ErrorBodyRead, Answer
<1>8. CASE StreamEnds(r) BY <1>8, OwnerRemoved DEF StreamEnds
<1>9. CASE Timeout(r) \/ ClientGone(r)
  <2>1. CASE pc[r] \in OwningStage
    BY <1>9, <2>1, OwnerRemoved DEF Timeout, ClientGone, Abandon
  <2>2. CASE pc[r] \notin OwningStage
    BY <1>9, <2>2, OwnersKept DEF Timeout, ClientGone, Abandon
  <2>3. QED BY <2>1, <2>2
<1>10. QED
  BY <1>1, <1>2, <1>3, <1>4, <1>5, <1>6, <1>7, <1>8, <1>9 DEF Step

\* The types and the account of permits hold in every reachable state.
LEMMA AccountsCorrect == Spec => []Accounts
<1>1. Init => Accounts
  <2> SUFFICES ASSUME Init PROVE Accounts
    OBVIOUS
  <2>1. Holding = {}
    BY DEF Init, Holding, OwningStage
  <2>2. PermitsConserved
    BY <2>1, FS_EmptySet, GatewayAssumption DEF Init, PermitsConserved
  <2>3. TypeOK
    BY GatewayAssumption DEF Init, TypeOK, AwaitingHead, Status
  <2>4. QED BY <2>2, <2>3 DEF Accounts
<1>2. Accounts /\ [Next]_vars => Accounts'
  <2> SUFFICES ASSUME Accounts, [Next]_vars PROVE Accounts'
    OBVIOUS
  <2>1. ASSUME NEW r \in Request, Step(r) PROVE Accounts'
    BY <2>1, StepType, StepAccounts DEF Accounts, TypeOK
  <2>2. CASE Tick
    <3>1. Holding' = Holding
      BY <2>2 DEF Tick, Holding
    <3>2. QED BY <2>2, <3>1 DEF Tick, Accounts, TypeOK, PermitsConserved
  <2>3. CASE UNCHANGED vars
    <3>1. Holding' = Holding
      BY <2>3 DEF vars, Holding
    <3>2. QED BY <2>3, <3>1 DEF vars, Accounts, TypeOK, PermitsConserved
  <2>4. QED BY <2>1, <2>2, <2>3 DEF Next
<1>3. QED
  BY <1>1, <1>2, PTL DEF Spec

\* The variables keep their types.
THEOREM TypeCorrect == Spec => []TypeOK
<1>1. Accounts => TypeOK
  BY DEF Accounts
<1>2. QED
  BY <1>1, AccountsCorrect, PTL

\* No path through the route leaks or forges a permit, however many permits
\* there are and however many exchanges.
THEOREM NoPermitIsLost == Spec => []PermitsConserved
<1>1. Accounts => PermitsConserved
  BY DEF Accounts
<1>2. QED
  BY <1>1, AccountsCorrect, PTL

-----------------------------------------------------------------------------
\* Writing a record keeps the ring the tail of the history.
LEMMA RecordKeepsLatest ==
  ASSUME TypeOK, RecentIsLatest, NEW r \in Request, Record(r)
  PROVE  RecentIsLatest'
<1> DEFINE n == Len(recorded)
           k == Len(recent)
<1>1. n \in Nat /\ k \in Nat
  BY DEF TypeOK
<1>2. k = IF n < RecentCapacity THEN n ELSE RecentCapacity
  BY DEF RecentIsLatest
<1>3. \A i \in 1..k : recent[i] = recorded[n - k + i]
  BY DEF RecentIsLatest
<1>4. /\ recorded' = Append(recorded, r)
      /\ Len(recorded') = n + 1
      /\ recorded'[n + 1] = r
      /\ \A i \in 1..n : recorded'[i] = recorded[i]
  BY DEF Record, TypeOK
<1>5. CASE k >= RecentCapacity
  <2>1. recent' = Append(Tail(recent), r) /\ k = RecentCapacity /\ n >= k /\ k >= 1
    BY <1>1, <1>2, <1>5, GatewayAssumption DEF Record
  <2>2. Len(recent') = k
    BY <2>1 DEF TypeOK
  <2>3. \A i \in 1..k : recent'[i] = IF i = k THEN r ELSE recent[i + 1]
    BY <2>1 DEF TypeOK
  <2>4. \A i \in 1..k : recent'[i] = recorded'[(n + 1) - k + i]
    <3> SUFFICES ASSUME NEW i \in 1..k PROVE recent'[i] = recorded'[(n + 1) - k + i]
      OBVIOUS
    <3>1. CASE i = k
      <4>1. (n + 1) - k + i = n + 1
        BY <1>1, <3>1
      <4>2. QED BY <2>3, <3>1, <4>1, <1>4
    <3>2. CASE i # k
      <4>1. i + 1 \in 1..k /\ n - k + (i + 1) = (n + 1) - k + i /\ (n + 1) - k + i \in 1..n
        BY <1>1, <2>1, <3>2
      <4>2. recent'[i] = recent[i + 1]
        BY <2>3, <3>2
      <4>3. recent[i + 1] = recorded[n - k + (i + 1)]
        BY <1>3, <4>1
      <4>4. QED BY <1>4, <4>1, <4>2, <4>3
    <3>3. QED BY <3>1, <3>2
  <2>5. ~(n + 1 < RecentCapacity)
    BY <1>1, <2>1, GatewayAssumption
  <2>6. QED BY <1>4, <2>1, <2>2, <2>4, <2>5 DEF RecentIsLatest
<1>6. CASE ~(k >= RecentCapacity)
  <2>1. recent' = Append(recent, r) /\ n = k /\ n < RecentCapacity
    BY <1>1, <1>2, <1>6, GatewayAssumption DEF Record
  <2>2. Len(recent') = k + 1
    BY <2>1 DEF TypeOK
  <2>3. \A i \in 1..(k + 1) : recent'[i] = IF i = k + 1 THEN r ELSE recent[i]
    BY <2>1 DEF TypeOK
  <2>4. \A i \in 1..(k + 1) : recent'[i] = recorded'[(n + 1) - (k + 1) + i]
    <3> SUFFICES ASSUME NEW i \in 1..(k + 1)
                 PROVE  recent'[i] = recorded'[(n + 1) - (k + 1) + i]
      OBVIOUS
    <3>1. (n + 1) - (k + 1) + i = i
      BY <1>1, <2>1
    <3>2. CASE i = k + 1
      BY <1>4, <2>1, <2>3, <3>1, <3>2
    <3>3. CASE i # k + 1
      <4>1. i \in 1..k /\ i \in 1..n /\ n - k + i = i
        BY <1>1, <2>1, <3>3
      <4>2. recent[i] = recorded[i]
        BY <1>3, <4>1
      <4>3. QED BY <1>4, <2>3, <3>1, <3>3, <4>1, <4>2
    <3>4. QED BY <3>2, <3>3
  <2>5. Len(recent') = IF Len(recorded') < RecentCapacity THEN Len(recorded') ELSE RecentCapacity
    BY <1>1, <1>4, <2>1, <2>2, GatewayAssumption
  <2>6. QED BY <1>4, <2>2, <2>4, <2>5 DEF RecentIsLatest
<1>7. QED BY <1>5, <1>6

\* The ring of GET /usage/recent always holds the latest records, in order.
THEOREM RingIsLatest == Spec => []RecentIsLatest
<1>1. Init => RecentIsLatest
  BY GatewayAssumption DEF Init, RecentIsLatest
<1>2. TypeOK /\ RecentIsLatest /\ [Next]_vars => RecentIsLatest'
  <2> SUFFICES ASSUME TypeOK, RecentIsLatest, [Next]_vars PROVE RecentIsLatest'
    OBVIOUS
  <2>1. CASE UNCHANGED <<recent, recorded>>
    BY <2>1 DEF RecentIsLatest
  <2>2. CASE \E r \in Request : Record(r)
    BY <2>2, RecordKeepsLatest
  <2>3. ASSUME NEW r \in Request, Step(r)
        PROVE  UNCHANGED <<recent, recorded>> \/ Record(r)
    BY <2>3 DEF Step, Arrive, NotRouted, Enqueue, Grant, SendFails, UpstreamHead,
                ErrorBodyRead, StreamEnds, Timeout, ClientGone, Abandon, Answer
  <2>4. QED
    BY <2>1, <2>2, <2>3 DEF Next, Tick, vars
<1>3. QED
  BY <1>1, <1>2, TypeCorrect, PTL DEF Spec

-----------------------------------------------------------------------------
\* The queue holds waiting exchanges only, each once.
Discipline ==
  /\ \A i \in 1..Len(queue) : pc[queue[i]] = "queued"
  /\ \A i, j \in 1..Len(queue) : queue[i] = queue[j] => i = j

\* Discipline is kept by every step.
LEMMA DisciplineStep ==
  ASSUME TypeOK, Discipline, [Next]_vars
  PROVE  Discipline'
<1> USE DEF Discipline
<1>0. /\ Len(queue) \in Nat
      /\ \A i \in 1..Len(queue) : queue[i] \in Request
  BY DEF TypeOK
<1>1. CASE UNCHANGED <<queue, pc>>
  BY <1>1
<1>2. ASSUME NEW r \in Request, NEW s, pc' = [pc EXCEPT ![r] = s],
             pc[r] # "queued", UNCHANGED queue
      PROVE  Discipline'
  BY <1>0, <1>2 DEF TypeOK
<1>3. ASSUME NEW r \in Request, Enqueue(r) PROVE Discipline'
  <2>1. /\ Len(queue') = Len(queue) + 1
        /\ \A i \in 1..Len(queue') : queue'[i] = IF i = Len(queue) + 1 THEN r ELSE queue[i]
    BY <1>3 DEF Enqueue, TypeOK
  <2>2. \A i \in 1..Len(queue) : queue[i] # r
    BY <1>3 DEF Enqueue
  <2>3. \A i \in 1..Len(queue) : i \in 1..Len(queue') /\ queue'[i] = queue[i] /\ pc'[queue[i]] = "queued"
    BY <1>0, <1>3, <2>1, <2>2 DEF Enqueue, TypeOK
  <2>4. pc'[r] = "queued" /\ \A i \in 1..Len(queue') : i \in 1..Len(queue) \/ queue'[i] = r
    BY <1>0, <1>3, <2>1 DEF Enqueue, TypeOK
  <2>5. \A i \in 1..Len(queue') : pc'[queue'[i]] = "queued"
    BY <2>3, <2>4
  <2>6. \A i, j \in 1..Len(queue') : queue'[i] = queue'[j] => i = j
    BY <1>0, <2>1, <2>2
  <2>7. QED BY <2>5, <2>6
<1>4. ASSUME NEW r \in Request, Grant(r) PROVE Discipline'
  <2>1. /\ Len(queue') = Len(queue) - 1
        /\ \A i \in 1..Len(queue') : queue'[i] = queue[i + 1]
        /\ queue[1] = r /\ Len(queue) >= 1
    BY <1>4 DEF Grant, TypeOK
  <2>2. \A i \in 1..Len(queue') : i + 1 \in 1..Len(queue) /\ queue'[i] # r
    BY <1>0, <2>1
  <2>3. QED BY <1>0, <1>4, <2>1, <2>2 DEF Grant, TypeOK
<1>5. ASSUME NEW r \in Request, NEW s, pc' = [pc EXCEPT ![r] = s], LeaveQueue(r)
      PROVE  Discipline'
  <2>1. PICK k \in 1..Len(queue) : queue[k] = r /\ queue' = QueueWithout(k)
    BY <1>5 DEF LeaveQueue
  <2>2. /\ Len(queue') = Len(queue) - 1
        /\ \A i \in 1..Len(queue') : queue'[i] = queue[IF i < k THEN i ELSE i + 1]
    BY <1>0, <2>1 DEF QueueWithout
  <2>3. \A i \in 1..Len(queue') : /\ (IF i < k THEN i ELSE i + 1) \in 1..Len(queue)
                                  /\ queue'[i] # r
    BY <1>0, <2>1, <2>2
  <2>4. \A i \in 1..Len(queue') : pc'[queue'[i]] = "queued"
    <3> SUFFICES ASSUME NEW i \in 1..Len(queue') PROVE pc'[queue'[i]] = "queued"
      OBVIOUS
    <3> DEFINE q == queue[IF i < k THEN i ELSE i + 1]
    <3>1. queue'[i] = q /\ q \in Request /\ pc[q] = "queued" /\ q # r
      BY <1>0, <2>2, <2>3
    <3>2. pc'[q] = pc[q]
      BY <1>5, <3>1 DEF TypeOK
    <3>3. QED BY <3>1, <3>2
  <2>5. \A i, j \in 1..Len(queue') : queue'[i] = queue'[j] => i = j
    <3> SUFFICES ASSUME NEW i \in 1..Len(queue'), NEW j \in 1..Len(queue'),
                        queue'[i] = queue'[j]
                 PROVE  i = j
      OBVIOUS
    <3>1. (IF i < k THEN i ELSE i + 1) = (IF j < k THEN j ELSE j + 1)
      BY <2>2, <2>3
    <3>2. QED BY <1>0, <2>2, <3>1
  <2>6. QED BY <2>4, <2>5
<1>6. ASSUME NEW r \in Request, Step(r) PROVE Discipline'
  <2>1. CASE Timeout(r) \/ ClientGone(r)
    BY <1>2, <1>5, <2>1 DEF Timeout, ClientGone, Abandon
  <2>2. CASE Enqueue(r) BY <1>3, <2>2
  <2>3. CASE Grant(r) BY <1>4, <2>3
  <2>4. CASE Arrive(r) \/ NotRouted(r) BY <1>2, <2>4 DEF Arrive, NotRouted, Answer
  <2>5. CASE SendFails(r) \/ UpstreamHead(r) \/ ErrorBodyRead(r) \/ StreamEnds(r)
    BY <1>2, <2>5 DEF SendFails, UpstreamHead, ErrorBodyRead, StreamEnds, Answer
  <2>6. QED BY <1>6, <2>1, <2>2, <2>3, <2>4, <2>5 DEF Step
<1>7. QED BY <1>1, <1>6 DEF Next, Tick, vars

\* Only the head of a queue of distinct waiters is granted a permit.
THEOREM NoOvertaking == Spec => FirstComeFirstServed
<1> DEFINE Fair == \A i, j \in 1..Len(queue) :
                     i < j /\ pc'[queue[j]] = "sending" => pc'[queue[i]] # "queued"
<1>1. Init => Discipline
  BY DEF Init, Discipline
<1>2. TypeOK /\ Discipline /\ [Next]_vars => Discipline'
  BY DisciplineStep
<1>3. TypeOK /\ Discipline /\ [Next]_vars => [Fair]_vars
  <2> SUFFICES ASSUME TypeOK, Discipline, Next,
                      NEW i \in 1..Len(queue), NEW j \in 1..Len(queue),
                      i < j, pc'[queue[j]] = "sending"
               PROVE  FALSE
    BY DEF Discipline, vars
  <2>1. Len(queue) \in Nat /\ queue[j] \in Request /\ pc[queue[j]] = "queued"
    BY DEF TypeOK, Discipline
  <2>2. Head(queue) = queue[1] /\ queue[1] # queue[j]
    BY <2>1 DEF Discipline, TypeOK
  <2>3. ASSUME NEW r \in Request, Step(r) PROVE r = queue[j] /\ Grant(r)
    BY <2>1, <2>3 DEF Step, Arrive, NotRouted, Enqueue, Grant, SendFails, UpstreamHead,
          ErrorBodyRead, StreamEnds, Timeout, ClientGone, Abandon, Answer, TypeOK
  <2>4. ~Tick
    BY <2>1 DEF Tick
  <2>5. QED BY <2>2, <2>3, <2>4 DEF Next, Grant
<1>4. QED
  BY <1>1, <1>2, <1>3, TypeCorrect, PTL DEF Spec, FirstComeFirstServed

-----------------------------------------------------------------------------
\* The cardinality the semaphore counts with is the one the route counts with.
LEMMA SameCardinality == ASSUME NEW S PROVE Sem!Cardinality(S) = Cardinality(S)
  BY DEF Sem!Cardinality, Cardinality

\* Whatever happens to the exchanges, the route takes and gives back permits
\* as a counting semaphore does.
THEOREM ImplementsSemaphore == Spec => SerialisesUpstream
<1>1. Init => Sem!Init
  BY DEF Init, Sem!Init, Holding, OwningStage
<1>2. Accounts /\ [Next]_vars => [Sem!Next]_Holding
  <2> SUFFICES ASSUME Accounts, [Next]_vars PROVE [Sem!Next]_Holding
    OBVIOUS
  <2> USE DEF Accounts, TypeOK, Holding, OwningStage, AwaitingHead
  <2>1. ASSUME NEW r \in Request, NEW s, pc' = [pc EXCEPT ![r] = s],
               pc[r] \in OwningStage <=> s \in OwningStage
        PROVE  UNCHANGED Holding
    BY <2>1
  <2>2. ASSUME NEW r \in Request, NEW s, pc' = [pc EXCEPT ![r] = s],
               s \notin OwningStage
        PROVE  [Sem!Next]_Holding
    <3>1. CASE pc[r] \in OwningStage
      <4>1. r \in Holding /\ Holding' = Holding \ {r}
        BY <2>2, <3>1
      <4>2. QED BY <4>1 DEF Sem!Next, Sem!Release
    <3>2. CASE pc[r] \notin OwningStage
      BY <2>1, <2>2, <3>2
    <3>3. QED BY <3>1, <3>2
  <2>3. ASSUME NEW r \in Request, Grant(r) PROVE Sem!Next
    <3>1. r \notin Holding /\ Holding' = Holding \cup {r}
      BY <2>3 DEF Grant
    <3>2. Cardinality(Holding) < Permits
      BY <2>3, HoldingFinite, GatewayAssumption DEF Grant, PermitsConserved
    <3>3. Sem!Acquire(r)
      BY <3>1, <3>2, SameCardinality DEF Sem!Acquire
    <3>4. QED BY <3>3 DEF Sem!Next
  <2>4. ASSUME NEW r \in Request, Step(r) PROVE [Sem!Next]_Holding
    <3>1. CASE Grant(r) BY <2>3, <3>1
    <3>2. CASE UpstreamHead(r) BY <2>1, <3>2 DEF UpstreamHead
    <3>3. CASE Arrive(r) \/ NotRouted(r) \/ Enqueue(r)
      BY <2>2, <3>3 DEF Arrive, NotRouted, Enqueue, Answer
    <3>4. CASE SendFails(r) \/ ErrorBodyRead(r) \/ StreamEnds(r)
      BY <2>2, <3>4 DEF SendFails, ErrorBodyRead, StreamEnds, Answer
    <3>5. CASE Timeout(r) \/ ClientGone(r)
      BY <2>2, <3>5 DEF Timeout, ClientGone, Abandon
    <3>6. QED BY <2>4, <3>1, <3>2, <3>3, <3>4, <3>5 DEF Step
  <2>5. CASE Tick \/ UNCHANGED vars
    BY <2>5 DEF Tick, vars
  <2>6. QED BY <2>4, <2>5 DEF Next
<1>3. QED
  BY <1>1, <1>2, AccountsCorrect, PTL DEF Spec, SerialisesUpstream, Sem!Spec

-----------------------------------------------------------------------------
\* The types the proofs rest on; those of times are not needed.
KeyTypes ==
  /\ state \in [Key -> {"absent", "active", "revoked", "deleted"}]
  /\ scope \in [Key -> SUBSET Scope]
  /\ revokedAt \in [Key -> SUBSET Nat]
  /\ phase \in [Call -> {"new", "reading", "touching", "done"}]
  /\ asked \in [Call -> Question]
  /\ at \in [Call -> Nat]
  /\ now \in Nat
  /\ read \in [Call -> SUBSET Scope]
  /\ outcome \in [Call -> Outcome]
  /\ inForce \in [Call -> SUBSET Scope]

\* A scope with other pipelines is a scope.
LEMMA PipelinesKeepScope ==
  \A s \in Scope, p \in Pipelines : [s EXCEPT !.enabled_pipelines = p] \in Scope
  BY DEF Scope

\* An edit of a scope keeps the types.
LEMMA RescopeTypes ==
  ASSUME KeyTypes, NEW k \in Key, NEW s \in Scope, Rescope(k, s)
  PROVE  KeyTypes'
<1>1. inForce' \in [Call -> SUBSET Scope]
  <2>1. CASE state[k] = "active" BY <2>1 DEF KeyTypes, Rescope, Enforce
  <2>2. CASE state[k] # "active" BY <2>2 DEF KeyTypes, Rescope
  <2>3. QED BY <2>1, <2>2
<1>2. QED BY <1>1 DEF KeyTypes, Rescope, callVars

\* The types hold in every reachable state.
LEMMA KeyTypesCorrect == KeySpec => []KeyTypes
<1>1. KeyInit => KeyTypes
  BY DEF KeyInit, KeyTypes, Outcome
<1>2. KeyTypes /\ [KeyNext]_keyManagerVars => KeyTypes'
  <2> SUFFICES ASSUME KeyTypes, [KeyNext]_keyManagerVars PROVE KeyTypes'
    OBVIOUS
  <2>1. ASSUME NEW k \in Key, EditKey(k) PROVE KeyTypes'
    <3>1. CASE Issue(k) BY <3>1 DEF Issue, Enforce, KeyTypes, callVars
    <3>2. CASE Revoke(k) BY <3>2 DEF Revoke, KeyTypes, callVars
    <3>3. CASE Delete(k) BY <3>3 DEF Delete, KeyTypes, callVars
    <3>4. CASE UpdateScope(k) BY <3>4, RescopeTypes DEF UpdateScope
    <3>5. CASE UpdatePipelines(k)
      <4>1. PICK s \in scope[k], p \in Pipelines : Rescope(k, [s EXCEPT !.enabled_pipelines = p])
        BY <3>5 DEF UpdatePipelines
      <4>2. s \in Scope
        BY DEF KeyTypes
      <4>3. QED BY <4>1, <4>2, PipelinesKeepScope, RescopeTypes
    <3>6. QED BY <2>1, <3>1, <3>2, <3>3, <3>4, <3>5 DEF EditKey
  <2>2. ASSUME NEW c \in Call, Verify(c) PROVE KeyTypes'
    <3>1. CASE Begin(c)
      <4>1. inForce' \in [Call -> SUBSET Scope]
        BY <3>1 DEF Begin, KeyTypes, Question
      <4>2. QED BY <3>1, <4>1 DEF Begin, KeyTypes, rowVars
    <3>2. CASE ReadRow(c)
      <4>1. \A s : Verdict(s, c) \in Outcome
        BY DEF Verdict, Outcome
      <4>2. ASSUME NEW code \in Outcome, Refuse(c, code)
            PROVE  /\ phase' \in [Call -> {"new", "reading", "touching", "done"}]
                   /\ outcome' \in [Call -> Outcome] /\ read' \in [Call -> SUBSET Scope]
        BY <4>2 DEF Refuse, KeyTypes
      <4>3. ASSUME NEW s \in Scope, Judge(c, s)
            PROVE  /\ phase' \in [Call -> {"new", "reading", "touching", "done"}]
                   /\ outcome' \in [Call -> Outcome] /\ read' \in [Call -> SUBSET Scope]
        <5>1. CASE Verdict(s, c) = "allowed" BY <4>3, <5>1 DEF Judge, KeyTypes
        <5>2. CASE Verdict(s, c) # "allowed" BY <4>1, <4>2, <4>3, <5>2 DEF Judge
        <5>3. QED BY <5>1, <5>2
      <4>4. asked[c].key \in Key
        BY DEF KeyTypes, Question
      <4>5. \/ Refuse(c, "invalid_key")
            \/ \E s \in Scope : Judge(c, s)
        BY <3>2, <4>4 DEF ReadRow, KeyTypes
      <4>6. "invalid_key" \in Outcome
        BY DEF Outcome
      <4>7. QED BY <3>2, <4>2, <4>3, <4>5, <4>6 DEF ReadRow, KeyTypes, rowVars
    <3>3. CASE Touch(c) BY <3>3 DEF Touch, KeyTypes, Outcome
    <3>4. QED BY <2>2, <3>1, <3>2, <3>3 DEF Verify
  <2>3. CASE KeyTick BY <2>3 DEF KeyTick, KeyTypes, rowVars, callVars
  <2>4. CASE UNCHANGED keyManagerVars BY <2>4 DEF keyManagerVars, KeyTypes, rowVars, callVars
  <2>5. QED BY <2>1, <2>2, <2>3, <2>4 DEF KeyNext
<1>3. QED
  BY <1>1, <1>2, PTL DEF KeySpec

-----------------------------------------------------------------------------
\* No operation brings a revoked key back or moves the time of revocation.
THEOREM RevokedForEver == KeySpec => RevocationIsFinal
<1> DEFINE Final == \A k \in Key :
              /\ state[k] = "revoked" =>
                   \/ state'[k] = "revoked" /\ revokedAt'[k] = revokedAt[k]
                   \/ state'[k] = "deleted"
              /\ state[k] = "deleted" => state'[k] = "deleted"
              /\ state[k] # "revoked" /\ state'[k] = "deleted" => state[k] = "deleted"
<1>1. KeyTypes /\ [KeyNext]_keyManagerVars => [Final]_keyManagerVars
  <2> SUFFICES ASSUME KeyTypes, KeyNext PROVE Final
    OBVIOUS
  <2>1. ASSUME NEW k \in Key, EditKey(k) PROVE Final
    <3>1. CASE Issue(k) BY <3>1 DEF Issue, KeyTypes
    <3>2. CASE Revoke(k) BY <3>2 DEF Revoke, KeyTypes
    <3>3. CASE Delete(k) BY <3>3 DEF Delete, KeyTypes
    <3>4. CASE UpdateScope(k) BY <3>4 DEF UpdateScope, Rescope
    <3>5. CASE UpdatePipelines(k) BY <3>5 DEF UpdatePipelines, Rescope
    <3>6. QED BY <2>1, <3>1, <3>2, <3>3, <3>4, <3>5 DEF EditKey
  <2>2. CASE \E c \in Call : Verify(c)
    BY <2>2 DEF Verify, Begin, ReadRow, Touch, rowVars
  <2>3. CASE KeyTick BY <2>3 DEF KeyTick, rowVars
  <2>4. QED BY <2>1, <2>2, <2>3 DEF KeyNext
<1>2. QED
  BY <1>1, KeyTypesCorrect, PTL DEF KeySpec, RevocationIsFinal

-----------------------------------------------------------------------------
\* The scope a verification has accepted was in force during its call.
Accepted(c) == \E s \in inForce[c] : read[c] = {s} /\ Admits(s, c)

\* The inductive invariant: the history holds whatever ReadRow may find, and
\* what it accepted until the call is allowed.
KeyInv ==
  \A c \in Call :
    /\ phase[c] = "reading" /\ state[asked[c].key] = "active" =>
         scope[asked[c].key] \subseteq inForce[c]
    /\ phase[c] = "touching" => Accepted(c)
    /\ outcome[c] = "allowed" => Accepted(c) /\ phase[c] = "done"

\* What is accepted stays accepted while the call's own data are left alone.
LEMMA AcceptedKept ==
  ASSUME NEW c, Accepted(c), inForce[c] \subseteq inForce'[c],
         read'[c] = read[c], at'[c] = at[c], asked'[c] = asked[c]
  PROVE  Accepted(c)'
  BY DEF Accepted, Admits, Expired, OriginOk, EndpointOk

\* An edit records the scope it puts in force with the calls under way.
LEMMA EditKeepsInForce ==
  ASSUME KeyTypes, NEW k \in Key, NEW s, KeyInv,
         scope' = [scope EXCEPT ![k] = {s}], Enforce(k, s), UNCHANGED <<callVars, asked>>,
         \A l \in Key \ {k} : state'[l] = state[l]
  PROVE  KeyInv'
<1> SUFFICES ASSUME NEW c \in Call
             PROVE  /\ phase[c] = "reading" /\ state'[asked[c].key] = "active" =>
                         scope'[asked[c].key] \subseteq inForce'[c]
                    /\ phase[c] = "touching" => Accepted(c)'
                    /\ outcome[c] = "allowed" => Accepted(c)' /\ phase[c] = "done"
  BY DEF KeyInv, callVars
<1>1. inForce[c] \subseteq inForce'[c]
  BY DEF Enforce, KeyTypes
<1>2. Accepted(c) => Accepted(c)'
  BY <1>1, AcceptedKept DEF callVars
<1>3. phase[c] = "reading" /\ state'[asked[c].key] = "active" =>
        scope'[asked[c].key] \subseteq inForce'[c]
  BY DEF KeyTypes, Enforce, KeyInv, Question
<1>4. QED BY <1>2, <1>3 DEF KeyInv

\* A step that puts no other scope in force, and that no call takes part in.
LEMMA QuietKeepsInForce ==
  ASSUME KeyTypes, KeyInv, UNCHANGED <<callVars, asked, inForce>>,
         \A l \in Key : state'[l] = "active" => state[l] = "active" /\ scope'[l] = scope[l]
  PROVE  KeyInv'
<1> SUFFICES ASSUME NEW c \in Call
             PROVE  /\ phase[c] = "reading" /\ state'[asked[c].key] = "active" =>
                         scope'[asked[c].key] \subseteq inForce[c]
                    /\ phase[c] = "touching" => Accepted(c)'
                    /\ outcome[c] = "allowed" => Accepted(c)' /\ phase[c] = "done"
  BY DEF KeyInv, callVars
<1>1. Accepted(c) => Accepted(c)'
  BY AcceptedKept DEF callVars
<1>2. asked[c].key \in Key
  BY DEF KeyTypes, Question
<1>3. QED BY <1>1, <1>2 DEF KeyInv

\* A step of one call that leaves the rows' states and scopes alone.
LEMMA CallKeepsInForce ==
  ASSUME KeyTypes, KeyInv, NEW c \in Call, UNCHANGED <<state, scope, asked>>,
         \A d \in Call \ {c} : /\ phase'[d] = phase[d] /\ outcome'[d] = outcome[d]
                               /\ read'[d] = read[d] /\ at'[d] = at[d]
                               /\ inForce'[d] = inForce[d],
         phase'[c] = "reading" /\ state[asked[c].key] = "active" =>
           scope[asked[c].key] \subseteq inForce'[c],
         phase'[c] = "touching" => Accepted(c)',
         outcome'[c] = "allowed" => Accepted(c)' /\ phase'[c] = "done"
  PROVE  KeyInv'
<1> SUFFICES ASSUME NEW d \in Call
             PROVE  /\ phase'[d] = "reading" /\ state[asked[d].key] = "active" =>
                         scope[asked[d].key] \subseteq inForce'[d]
                    /\ phase'[d] = "touching" => Accepted(d)'
                    /\ outcome'[d] = "allowed" => Accepted(d)' /\ phase'[d] = "done"
  BY DEF KeyInv
<1>1. CASE d = c
  BY <1>1
<1>2. CASE d # c
  <2>1. Accepted(d) => Accepted(d)'
    BY <1>2, AcceptedKept
  <2>2. QED BY <1>2, <2>1 DEF KeyInv
<1>3. QED BY <1>1, <1>2

\* The invariant is kept by the steps of a verification.
LEMMA VerifyKeepsInForce ==
  ASSUME KeyTypes, KeyInv, NEW c \in Call, Verify(c)
  PROVE  KeyInv'
<1>1. CASE Begin(c)
  <2>1. outcome[c] # "allowed"
    BY <1>1 DEF Begin, KeyInv
  <2>2. QED BY <1>1, <2>1, CallKeepsInForce DEF Begin, KeyTypes, rowVars
<1>2. CASE ReadRow(c)
  <2>1. ASSUME NEW code, code # "allowed", Refuse(c, code)
        PROVE  phase'[c] = "done" /\ outcome'[c] # "allowed"
    BY <2>1 DEF Refuse, KeyTypes
  <2>2. ASSUME NEW s \in scope[asked[c].key], state[asked[c].key] = "active", Judge(c, s)
        PROVE  /\ phase'[c] \in {"touching", "done"} /\ outcome'[c] # "allowed"
               /\ phase'[c] = "touching" => Accepted(c)'
    <3>1. CASE Verdict(s, c) = "allowed"
      <4>1. Admits(s, c)
        BY <3>1 DEF Verdict, Admits
      <4>2. s \in inForce[c]
        BY <1>2, <2>2 DEF ReadRow, KeyInv
      <4>3. read'[c] = {s} /\ outcome'[c] = outcome[c] /\ phase'[c] = "touching"
        BY <2>2, <3>1 DEF Judge, KeyTypes
      <4>4. Admits(s, c)'
        BY <1>2, <4>1 DEF ReadRow, Admits, Expired, OriginOk, EndpointOk
      <4>5. outcome[c] # "allowed"
        BY <1>2 DEF ReadRow, KeyInv
      <4>6. QED BY <1>2, <4>2, <4>3, <4>4, <4>5 DEF ReadRow, Accepted
    <3>2. CASE Verdict(s, c) # "allowed"
      BY <2>1, <2>2, <3>2 DEF Judge
    <3>3. QED BY <3>1, <3>2
  <2>3. /\ phase'[c] \in {"touching", "done"} /\ outcome'[c] # "allowed"
        /\ phase'[c] = "touching" => Accepted(c)'
    BY <1>2, <2>1, <2>2 DEF ReadRow
  <2>4. \A d \in Call \ {c} : /\ phase'[d] = phase[d] /\ outcome'[d] = outcome[d]
                              /\ read'[d] = read[d]
    BY <1>2 DEF ReadRow, Judge, Refuse, KeyTypes
  <2>5. QED BY <1>2, <2>3, <2>4, CallKeepsInForce DEF ReadRow, rowVars
<1>3. CASE Touch(c)
  <2>1. Accepted(c)'
    BY <1>3, AcceptedKept DEF Touch, KeyInv
  <2>2. QED BY <1>3, <2>1, CallKeepsInForce DEF Touch, KeyTypes
<1>4. QED BY <1>1, <1>2, <1>3 DEF Verify

\* The inductive invariant holds in every reachable state.
LEMMA IInvCorrect == KeySpec => []KeyInv
<1>1. KeyInit => KeyInv
  BY DEF KeyInit, KeyInv
<1>2. KeyTypes /\ KeyInv /\ [KeyNext]_keyManagerVars => KeyInv'
  <2> SUFFICES ASSUME KeyTypes, KeyInv, [KeyNext]_keyManagerVars PROVE KeyInv'
    OBVIOUS
  <2>1. ASSUME NEW k \in Key, EditKey(k) PROVE KeyInv'
    <3>1. CASE Issue(k) BY <3>1, EditKeepsInForce DEF Issue, KeyTypes
    <3>2. CASE Revoke(k) BY <3>2, QuietKeepsInForce DEF Revoke, KeyTypes
    <3>3. CASE Delete(k) BY <3>3, QuietKeepsInForce DEF Delete, KeyTypes
    <3>4. ASSUME NEW s, Rescope(k, s) PROVE KeyInv'
      <4>1. CASE state[k] = "active"
        BY <3>4, <4>1, EditKeepsInForce DEF Rescope
      <4>2. CASE state[k] # "active"
        BY <3>4, <4>2, QuietKeepsInForce DEF Rescope, KeyTypes
      <4>3. QED BY <4>1, <4>2
    <3>5. CASE UpdateScope(k) \/ UpdatePipelines(k)
      BY <3>4, <3>5 DEF UpdateScope, UpdatePipelines
    <3>6. QED BY <2>1, <3>1, <3>2, <3>3, <3>5 DEF EditKey
  <2>2. ASSUME NEW c \in Call, Verify(c) PROVE KeyInv'
    BY <2>2, VerifyKeepsInForce
  <2>3. CASE KeyTick
    BY <2>3, QuietKeepsInForce DEF KeyTick, rowVars
  <2>4. CASE UNCHANGED keyManagerVars
    BY <2>4, QuietKeepsInForce DEF keyManagerVars, rowVars
  <2>5. QED BY <2>1, <2>2, <2>3, <2>4 DEF KeyNext
<1>3. QED
  BY <1>1, <1>2, KeyTypesCorrect, PTL DEF KeySpec

\* A call is allowed only by a scope its key had, while active, during the call.
THEOREM AllowedInForce == KeySpec => []AllowedWasInForce
<1>1. KeyInv => AllowedWasInForce
  BY DEF KeyInv, Accepted, AllowedWasInForce
<1>2. QED
  BY <1>1, IInvCorrect, PTL

-----------------------------------------------------------------------------
(***************************************************************************)
(* The filters: what a chain leaves of a text.                             *)
(***************************************************************************)
\* The run of a chain: every filter leaves a part of the text before it, and an
\* entry or none.
Runs(text) == [text : SUBSET text, n : Nat]

IsRun(f, n, text) ==
  /\ f[0] = [text |-> text, n |-> 0]
  /\ \A i \in 1..n : \E t \in SUBSET f[i-1].text, k \in {0, 1} :
       f[i] = [text |-> t, n |-> f[i-1].n + k]

\* What a run comes to: a part of the text, without what a filter took out of it.
LEMMA RunComesTo ==
  ASSUME NEW n \in Nat, NEW text, NEW f, IsRun(f, n, text)
  PROVE  /\ f[n].text \subseteq text /\ f[n].n \in Nat
         /\ \A i \in 1..n : f[i-1].text \subseteq text
         /\ \A k \in 1..n : "personal" \notin f[k].text => "personal" \notin f[n].text
<1> DEFINE D == {i \in 0..n : f[i].text \subseteq text /\ f[i].n \in Nat}
<1>1. 0 \in D
  BY DEF IsRun
<1>2. ASSUME NEW i \in 1..n, i - 1 \in D PROVE i \in D
  <2>1. PICK t \in SUBSET f[i-1].text, k \in {0, 1} : f[i] = [text |-> t, n |-> f[i-1].n + k]
    BY DEF IsRun
  <2>2. f[i].text = t /\ f[i].n = f[i-1].n + k
    BY <2>1
  <2>3. QED BY <1>2, <2>2
<1>3. 0..n \subseteq D
  <2> HIDE DEF D
  <2>1. QED BY <1>1, <1>2, Induction
<1>4. ASSUME NEW k \in 1..n, "personal" \notin f[k].text PROVE "personal" \notin f[n].text
  <2> DEFINE P == {i \in 0..n : i >= k => "personal" \notin f[i].text}
  <2>1. 0 \in P
    OBVIOUS
  <2>2. ASSUME NEW i \in 1..n, i - 1 \in P PROVE i \in P
    <3>1. PICK t \in SUBSET f[i-1].text, m \in {0, 1} : f[i] = [text |-> t, n |-> f[i-1].n + m]
      BY DEF IsRun
    <3>2. f[i].text \subseteq f[i-1].text
      BY <3>1
    <3>3. i = k \/ i < k \/ i - 1 >= k
      OBVIOUS
    <3>4. QED BY <1>4, <2>2, <3>2, <3>3
  <2>3. n \in P
    <3>1. 0..n \subseteq P
      <4> HIDE DEF P
      <4>1. QED BY <2>1, <2>2, Induction
    <3>2. QED BY <3>1
  <2>4. QED BY <2>3
<1>5. QED BY <1>3, <1>4

\* A filter leaves a part of the text.
LEMMA TextsShrink ==
  ASSUME NEW p, NEW text
  PROVE  /\ RequestText(p, text) \subseteq text /\ ResponseText(p, text) \subseteq text
         /\ p = "pii-redact" => /\ "personal" \notin RequestText(p, text)
                                /\ "personal" \notin ResponseText(p, text)
<1>1. CASE p = "prompt-sanitize"
  BY <1>1 DEF RequestText, ResponseText, Sanitized, Redacted
<1>2. CASE p = "pii-redact"
  BY <1>2 DEF RequestText, ResponseText, Redacted
<1>3. CASE p # "prompt-sanitize" /\ p # "pii-redact"
  BY <1>3 DEF RequestText, ResponseText
<1>4. QED BY <1>1, <1>2, <1>3

\* What a chain makes of a request.
LEMMA RequestComesTo ==
  ASSUME NEW X, NEW c \in Seq(X), NEW text
  PROVE  LET r == ApplyRequest(c, text)
         IN /\ r.text \subseteq text /\ r.n \in Nat
            /\ "pii-redact" \in ToSet(c) => "personal" \notin r.text
<1> DEFINE N == Len(c)
           next(p, i) == LET t == RequestText(c[i], p.text)
                         IN [text |-> t,
                             n |-> p.n + IF Leaves(c[i], p.text, t) THEN 1 ELSE 0]
           body(h) == [i \in 0..N |-> IF i = 0 THEN [text |-> text, n |-> 0] ELSE next(h[i-1], i)]
           f == CHOOSE h : h = body(h)
           s == [i \in 1..N |-> [p \in Runs(text) |-> next(p, i)]]
           T == Runs(text)
           e == [text |-> text, n |-> 0]
<1>1. N \in Nat /\ DOMAIN c = 1..N
  OBVIOUS
<1>2. ApplyRequest(c, text) = f[N]
  BY DEF ApplyRequest
<1> HIDE DEF N
<1>3. \A i \in 1..N : \A p :
        /\ next(p, i).text = RequestText(c[i], p.text)
        /\ \E k \in {0, 1} : next(p, i) = [text |-> RequestText(c[i], p.text), n |-> p.n + k]
  OBVIOUS
<1> HIDE DEF next
<1>4. \A i \in 1..N, p \in T : next(p, i) \in T
  BY <1>3, TextsShrink DEF Runs
<1>5. e \in T /\ AreSteps(s, N, T)
  BY <1>4 DEF Runs, AreSteps
<1> HIDE DEF T, e, s
<1>6. PICK g : TakesSteps(g, N, T, e, s)
  BY <1>1, <1>5, RecursionIsDefined
<1>7. g = body(g)
  <2>1. g \in [0..N -> T] /\ g[0] = [text |-> text, n |-> 0]
    BY <1>6 DEF TakesSteps, e
  <2>2. ASSUME NEW i \in 1..N PROVE g[i] = next(g[i-1], i)
    <3>1. g[i-1] \in Runs(text)
      BY <1>1, <2>1 DEF T
    <3>2. QED BY <1>6, <3>1 DEF TakesSteps, s
  <2>3. \A i \in 0..N : g[i] = IF i = 0 THEN [text |-> text, n |-> 0] ELSE next(g[i-1], i)
    BY <1>1, <2>1, <2>2
  <2>4. QED BY <2>1, <2>3
<1>8. f = body(f)
  BY <1>7
<1> HIDE DEF f
<1>9. f[0] = [text |-> text, n |-> 0] /\ \A i \in 1..N : f[i] = next(f[i-1], i)
  <2> DEFINE b == body(f)
  <2>1. \A i \in 0..N : b[i] = IF i = 0 THEN [text |-> text, n |-> 0] ELSE next(f[i-1], i)
    OBVIOUS
  <2>2. f = b
    BY <1>8
  <2> HIDE DEF b
  <2>3. QED BY <1>1, <2>1, <2>2
<1>10. IsRun(f, N, text)
  <2>1. ASSUME NEW i \in 1..N
        PROVE  \E t \in SUBSET f[i-1].text, k \in {0, 1} : f[i] = [text |-> t, n |-> f[i-1].n + k]
    <3>1. PICK k \in {0, 1} : f[i] = [text |-> RequestText(c[i], f[i-1].text), n |-> f[i-1].n + k]
      BY <1>3, <1>9
    <3>2. RequestText(c[i], f[i-1].text) \in SUBSET f[i-1].text
      BY TextsShrink
    <3>3. QED BY <3>1, <3>2
  <2>2. QED BY <1>9, <2>1 DEF IsRun
<1>11. ASSUME "pii-redact" \in ToSet(c) PROVE "personal" \notin f[N].text
  <2>1. PICK k \in 1..N : c[k] = "pii-redact"
    BY <1>1, <1>11 DEF ToSet
  <2>2. "personal" \notin f[k].text
    BY <1>3, <1>9, <2>1, TextsShrink
  <2>3. QED BY <1>1, <1>10, <2>1, <2>2, RunComesTo
<1>12. QED BY <1>1, <1>2, <1>10, <1>11, RunComesTo

\* The filters and the order of them.
LEMMA OrderIs ==
  /\ Order \in Seq(ToSet(Order))
  /\ ToSet(Order) = {"prompt-sanitize", "pii-redact", "token-quota", "observability"}
<1>1. /\ DOMAIN Order = 1..4 /\ Order[1] = "prompt-sanitize" /\ Order[2] = "pii-redact"
      /\ Order[3] = "token-quota" /\ Order[4] = "observability"
  BY DEF Order
<1>2. ToSet(Order) = {"prompt-sanitize", "pii-redact", "token-quota", "observability"}
  BY <1>1 DEF ToSet
<1>3. QED BY <1>2 DEF Order

\* An answer meets the filters of its request, but for those that look at
\* requests only.
LEMMA ResponseOrderIs ==
  ASSUME NEW X, NEW c \in Seq(X)
  PROVE  LET o == ResponseOrder(c)
         IN /\ o \in Seq(X)
            /\ "pii-redact" \in ToSet(c) => "pii-redact" \in ToSet(o)
<1> DEFINE s == Kept(c, ToSet(Order) \ RequestOnly)
<1>1. s \in Seq(X) /\ ToSet(s) = ToSet(c) \cap (ToSet(Order) \ RequestOnly)
  BY KeptIs
<1>2. ResponseOrder(c) = Reverse(s)
  BY DEF ResponseOrder
<1> HIDE DEF s
<1>3. Len(s) \in Nat /\ \A i \in 1..Len(s) : Len(s) - i + 1 \in 1..Len(s) /\ s[i] \in X
  BY <1>1
<1>4. /\ Reverse(s) \in Seq(X) /\ DOMAIN Reverse(s) = 1..Len(s)
      /\ \A i \in 1..Len(s) : Reverse(s)[Len(s) - i + 1] = s[i]
  BY <1>3 DEF Reverse
<1>5. ASSUME "pii-redact" \in ToSet(c) PROVE "pii-redact" \in ToSet(Reverse(s))
  <2>1. "pii-redact" \in ToSet(s)
    BY <1>1, <1>5, OrderIs DEF RequestOnly
  <2>2. PICK i \in 1..Len(s) : s[i] = "pii-redact"
    BY <1>1, <2>1 DEF ToSet
  <2>3. QED BY <1>3, <1>4, <2>2 DEF ToSet
<1>6. QED BY <1>2, <1>4, <1>5

\* What a chain makes of a text of an answer.
LEMMA ResponseComesTo ==
  ASSUME NEW X, NEW c \in Seq(X), NEW text
  PROVE  LET r == ApplyResponse(c, text)
         IN /\ r.text \subseteq text /\ r.n \in Nat
            /\ "pii-redact" \in ToSet(c) => "personal" \notin r.text
<1> DEFINE o == ResponseOrder(c)
           N == Len(o)
           next(p, i) == LET t == ResponseText(o[i], p.text)
                         IN [text |-> t,
                             n |-> p.n + IF Leaves(o[i], p.text, t) THEN 1 ELSE 0]
           body(h) == [i \in 0..N |-> IF i = 0 THEN [text |-> text, n |-> 0] ELSE next(h[i-1], i)]
           f == CHOOSE h : h = body(h)
           s == [i \in 1..N |-> [p \in Runs(text) |-> next(p, i)]]
           T == Runs(text)
           e == [text |-> text, n |-> 0]
<1>1. N \in Nat /\ DOMAIN o = 1..N /\ ("pii-redact" \in ToSet(c) => "pii-redact" \in ToSet(o))
  BY ResponseOrderIs
<1>2. ApplyResponse(c, text) = f[N]
  BY DEF ApplyResponse
<1> HIDE DEF N, o
<1>3. \A i \in 1..N : \A p :
        /\ next(p, i).text = ResponseText(o[i], p.text)
        /\ \E k \in {0, 1} : next(p, i) = [text |-> ResponseText(o[i], p.text), n |-> p.n + k]
  OBVIOUS
<1> HIDE DEF next
<1>4. \A i \in 1..N, p \in T : next(p, i) \in T
  BY <1>3, TextsShrink DEF Runs
<1>5. e \in T /\ AreSteps(s, N, T)
  BY <1>4 DEF Runs, AreSteps
<1> HIDE DEF T, e, s
<1>6. PICK g : TakesSteps(g, N, T, e, s)
  BY <1>1, <1>5, RecursionIsDefined
<1>7. g = body(g)
  <2>1. g \in [0..N -> T] /\ g[0] = [text |-> text, n |-> 0]
    BY <1>6 DEF TakesSteps, e
  <2>2. ASSUME NEW i \in 1..N PROVE g[i] = next(g[i-1], i)
    <3>1. g[i-1] \in Runs(text)
      BY <1>1, <2>1 DEF T
    <3>2. QED BY <1>6, <3>1 DEF TakesSteps, s
  <2>3. \A i \in 0..N : g[i] = IF i = 0 THEN [text |-> text, n |-> 0] ELSE next(g[i-1], i)
    BY <1>1, <2>1, <2>2
  <2>4. QED BY <2>1, <2>3
<1>8. f = body(f)
  BY <1>7
<1> HIDE DEF f
<1>9. f[0] = [text |-> text, n |-> 0] /\ \A i \in 1..N : f[i] = next(f[i-1], i)
  <2> DEFINE b == body(f)
  <2>1. \A i \in 0..N : b[i] = IF i = 0 THEN [text |-> text, n |-> 0] ELSE next(f[i-1], i)
    OBVIOUS
  <2>2. f = b
    BY <1>8
  <2> HIDE DEF b
  <2>3. QED BY <1>1, <2>1, <2>2
<1>10. IsRun(f, N, text)
  <2>1. ASSUME NEW i \in 1..N
        PROVE  \E t \in SUBSET f[i-1].text, k \in {0, 1} : f[i] = [text |-> t, n |-> f[i-1].n + k]
    <3>1. PICK k \in {0, 1} : f[i] = [text |-> ResponseText(o[i], f[i-1].text), n |-> f[i-1].n + k]
      BY <1>3, <1>9
    <3>2. ResponseText(o[i], f[i-1].text) \in SUBSET f[i-1].text
      BY TextsShrink
    <3>3. QED BY <3>1, <3>2
  <2>2. QED BY <1>9, <2>1 DEF IsRun
<1>11. ASSUME "pii-redact" \in ToSet(c) PROVE "personal" \notin f[N].text
  <2>1. PICK k \in 1..N : o[k] = "pii-redact"
    BY <1>1, <1>11 DEF ToSet
  <2>2. "personal" \notin f[k].text
    BY <1>3, <1>9, <2>1, TextsShrink
  <2>3. QED BY <1>1, <1>10, <2>1, <2>2, RunComesTo
<1>12. QED BY <1>1, <1>2, <1>10, <1>11, RunComesTo

\* What a chain makes of a frame.
LEMMA FrameComesTo ==
  ASSUME NEW X, NEW c \in Seq(X), NEW f \in Frames
  PROVE  LET o == FilterFrame(c, f)
         IN /\ o.frame \in Frames /\ o.n \in Nat /\ o.frame.is = f.is
            /\ ~o.changed => o.frame = f
            /\ "pii-redact" \in ToSet(c) /\ f.is = "json" => "personal" \notin o.frame.text
<1>1. CASE f.is # "json"
  BY <1>1 DEF FilterFrame
<1>2. CASE f.is = "json"
  <2> DEFINE r == ApplyResponse(c, f.text)
             o == FilterFrame(c, f)
  <2>1. /\ r.text \subseteq f.text /\ r.n \in Nat
        /\ "pii-redact" \in ToSet(c) => "personal" \notin r.text
    BY ResponseComesTo
  <2>2. /\ o.frame = [f EXCEPT !.text = r.text] /\ o.n = r.n
        /\ o.changed <=> r.text # f.text
    BY <1>2 DEF FilterFrame
  <2> HIDE DEF r, o
  <2>3. r.text \in SUBSET Kinds
    BY <2>1 DEF Frames
  <2>4. [f EXCEPT !.text = r.text] \in Frames
    BY <2>3 DEF Frames
  <2>5. /\ [f EXCEPT !.text = r.text].is = f.is /\ [f EXCEPT !.text = r.text].text = r.text
        /\ r.text = f.text => [f EXCEPT !.text = r.text] = f
    BY DEF Frames
  <2>6. QED BY <2>1, <2>2, <2>4, <2>5 DEF o
<1>3. QED BY <1>1, <1>2

\* What a chain makes of the frames of an answer.
LEMMA StreamComesTo ==
  ASSUME NEW X, NEW c \in Seq(X), NEW frames \in Seq(Frames)
  PROVE  LET r == FilterStream(c, frames)
         IN /\ r.frames \in Seq(Frames) /\ r.n \in Nat
            /\ "pii-redact" \in ToSet(c) =>
                 \A i \in DOMAIN r.frames : r.frames[i].is = "json" => "personal" \notin r.frames[i].text
<1> DEFINE N == Len(frames)
           out == [i \in 1..N |-> FilterFrame(c, frames[i])]
           texts == [i \in 1..N |-> out[i].frame]
           kept == Kept(texts, {f \in ToSet(texts) : f.is # "comment"})
           some == \E i \in 1..N : out[i].changed
           body(h) == [i \in 0..N |-> IF i = 0 THEN 0 ELSE h[i-1] + out[i].n]
           total == CHOOSE h : h = body(h)
           s == [i \in 1..N |-> [p \in Nat |-> p + out[i].n]]
           clean(f) == f.is = "json" => "personal" \notin f.text
<1>1. /\ FilterStream(c, frames).frames = IF some THEN kept ELSE frames
      /\ FilterStream(c, frames).n = total[N]
  BY DEF FilterStream
<1>2. N \in Nat /\ DOMAIN frames = 1..N /\ \A i \in 1..N : frames[i] \in Frames
  OBVIOUS
<1> HIDE DEF N
<1>3. \A i \in 1..N :
        /\ out[i].frame \in Frames /\ out[i].n \in Nat
        /\ ~out[i].changed => out[i].frame = frames[i]
        /\ "pii-redact" \in ToSet(c) => clean(out[i].frame)
  BY <1>2, FrameComesTo
<1> HIDE DEF out
<1>4. total[N] \in Nat
  <2>1. \A i \in 1..N, p \in Nat : p + out[i].n \in Nat
    BY <1>3
  <2>2. 0 \in Nat /\ AreSteps(s, N, Nat)
    BY <2>1 DEF AreSteps
  <2> HIDE DEF s
  <2>3. PICK g : TakesSteps(g, N, Nat, 0, s)
    BY <1>2, <2>2, RecursionIsDefined
  <2>4. g = body(g)
    <3>1. g \in [0..N -> Nat] /\ g[0] = 0
      BY <2>3 DEF TakesSteps
    <3>2. \A i \in 1..N : g[i] = g[i-1] + out[i].n
      <4>1. ASSUME NEW i \in 1..N PROVE g[i] = g[i-1] + out[i].n
        <5>1. g[i-1] \in Nat
          BY <1>2, <3>1
        <5>2. QED BY <2>3, <5>1 DEF TakesSteps, s
      <4>2. QED BY <4>1
    <3>3. \A i \in 0..N : g[i] = IF i = 0 THEN 0 ELSE g[i-1] + out[i].n
      BY <1>2, <3>1, <3>2
    <3>4. QED BY <3>1, <3>3
  <2>5. total = body(total)
    BY <2>4
  <2> HIDE DEF total
  <2>6. \A i \in 0..N : total[i] = IF i = 0 THEN 0 ELSE total[i-1] + out[i].n
    <3> DEFINE b == body(total)
    <3>1. \A i \in 0..N : b[i] = IF i = 0 THEN 0 ELSE total[i-1] + out[i].n
      OBVIOUS
    <3>2. total = b
      BY <2>5
    <3> HIDE DEF b
    <3>3. QED BY <3>1, <3>2
  <2> DEFINE D == {i \in 0..N : total[i] \in Nat}
  <2>7. 0 \in D
    BY <1>2, <2>6
  <2>8. ASSUME NEW i \in 1..N, i - 1 \in D PROVE i \in D
    <3>1. i \in 0..N /\ i # 0 /\ total[i-1] \in Nat /\ out[i].n \in Nat
      BY <1>2, <1>3, <2>8
    <3>2. total[i] = total[i-1] + out[i].n
      BY <2>6, <3>1
    <3>3. QED BY <3>1, <3>2
  <2>9. 0..N \subseteq D
    <3> HIDE DEF D
    <3>1. QED BY <1>2, <2>7, <2>8, Induction
  <2>10. QED BY <1>2, <2>9
<1>5. texts \in Seq(Frames) /\ ToSet(texts) = {out[i].frame : i \in 1..N}
  BY <1>2, <1>3 DEF ToSet
<1> HIDE DEF texts
<1>6. kept \in Seq(Frames) /\ ToSet(kept) \subseteq ToSet(texts)
  BY <1>5, KeptIs
<1> HIDE DEF kept
<1>7. ASSUME "pii-redact" \in ToSet(c), NEW i \in DOMAIN kept PROVE clean(kept[i])
  <2>1. kept[i] \in ToSet(texts)
    BY <1>6 DEF ToSet
  <2>2. PICK j \in 1..N : kept[i] = out[j].frame
    BY <1>5, <2>1
  <2>3. QED BY <1>3, <1>7, <2>2
<1>8. ASSUME "pii-redact" \in ToSet(c), ~some, NEW i \in DOMAIN frames PROVE clean(frames[i])
  <2>1. ~out[i].changed /\ i \in 1..N
    BY <1>2, <1>8
  <2>2. QED BY <1>3, <1>8, <2>1
<1>9. QED BY <1>1, <1>4, <1>6, <1>7, <1>8
-----------------------------------------------------------------------------
(***************************************************************************)
(* The trail of the audit entries.                                         *)
(***************************************************************************)
AuditEntries == [req : Requests, n : Nat \ {0}]

\* Of one request, the trail is in order, has no gaps, and goes on to its latest
\* entry.
InOrder(t) ==
  \A i, j \in DOMAIN t : i < j /\ t[i].req = t[j].req => t[i].n < t[j].n

NoGaps(t, l) ==
  \A i, j \in DOMAIN t :
    i < j /\ t[i].req = t[j].req /\ t[i].req \notin l =>
      \A n \in (t[i].n + 1)..(t[j].n - 1) : [req |-> t[i].req, n |-> n] \in ToSet(t)

UpToNow(t, l, r) ==
  \A i \in DOMAIN t :
    r[t[i].req].stage # "done" =>
      /\ t[i].n <= r[t[i].req].entries
      /\ t[i].req \notin l =>
           \A n \in t[i].n..r[t[i].req].entries : [req |-> t[i].req, n |-> n] \in ToSet(t)

Fits(t, l, r) == InOrder(t) /\ NoGaps(t, l) /\ UpToNow(t, l, r)

\* The first entry is forgotten: it was before all others of its request.
LEMMA ForgetsFirst ==
  ASSUME NEW t \in Seq(AuditEntries), NEW u \in Seq(AuditEntries), NEW l, NEW r,
         \A q \in Requests : r[q].entries \in Nat,
         Len(t) = Len(u) + 1, \A i \in 1..Len(u) : u[i] = t[i+1],
         Fits(t, l, r)
  PROVE  Fits(u, l, r)
<1>1. /\ Len(u) \in Nat /\ DOMAIN u = 1..Len(u) /\ DOMAIN t = 1..(Len(u) + 1)
      /\ \A i \in DOMAIN u : i + 1 \in DOMAIN t /\ u[i] = t[i+1] /\ u[i] \in AuditEntries
  OBVIOUS
<1>2. \A i \in DOMAIN t : t[i] \in AuditEntries /\ t[i].n \in Nat
  <2>1. \A i \in DOMAIN t : t[i] \in AuditEntries
    OBVIOUS
  <2>2. QED BY <2>1 DEF AuditEntries
<1>3. InOrder(u)
  <2> SUFFICES ASSUME NEW i \in DOMAIN u, NEW j \in DOMAIN u, i < j, u[i].req = u[j].req
               PROVE  u[i].n < u[j].n
    BY DEF InOrder
  <2>1. i + 1 \in DOMAIN t /\ j + 1 \in DOMAIN t /\ i + 1 < j + 1 /\ u[i] = t[i+1] /\ u[j] = t[j+1]
    BY <1>1
  <2>2. QED BY <2>1 DEF Fits, InOrder
<1>4. ASSUME NEW i \in DOMAIN u, NEW e \in ToSet(t), e.req = u[i].req, e.n >= u[i].n
      PROVE  e \in ToSet(u)
  <2>1. PICK h \in DOMAIN t : t[h] = e
    BY DEF ToSet
  <2>2. h # 1
    BY <1>1, <1>2, <1>4, <2>1 DEF Fits, InOrder
  <2>3. h - 1 \in DOMAIN u /\ u[h-1] = e
    BY <1>1, <2>1, <2>2
  <2>4. QED BY <2>3 DEF ToSet
<1>5. NoGaps(u, l)
  <2> SUFFICES ASSUME NEW i \in DOMAIN u, NEW j \in DOMAIN u, i < j, u[i].req = u[j].req,
                      u[i].req \notin l, NEW n \in (u[i].n + 1)..(u[j].n - 1)
               PROVE  [req |-> u[i].req, n |-> n] \in ToSet(u)
    BY DEF NoGaps
  <2> DEFINE e == [req |-> u[i].req, n |-> n]
  <2>1. e \in ToSet(t)
    <3>1. i + 1 \in DOMAIN t /\ j + 1 \in DOMAIN t /\ i + 1 < j + 1 /\ u[i] = t[i+1] /\ u[j] = t[j+1]
      BY <1>1
    <3>2. QED BY <3>1 DEF Fits, NoGaps
  <2>2. e.req = u[i].req /\ e.n >= u[i].n
    BY <1>1 DEF AuditEntries
  <2>3. QED BY <1>4, <2>1, <2>2
<1>6. UpToNow(u, l, r)
  <2> SUFFICES ASSUME NEW i \in DOMAIN u, r[u[i].req].stage # "done"
               PROVE  /\ u[i].n <= r[u[i].req].entries
                      /\ u[i].req \notin l =>
                           \A n \in u[i].n..r[u[i].req].entries :
                             [req |-> u[i].req, n |-> n] \in ToSet(u)
    BY DEF UpToNow
  <2>1. i + 1 \in DOMAIN t /\ u[i] = t[i+1]
    BY <1>1
  <2>2. /\ u[i].n <= r[u[i].req].entries
        /\ u[i].req \notin l =>
             \A n \in u[i].n..r[u[i].req].entries : [req |-> u[i].req, n |-> n] \in ToSet(t)
    BY <2>1 DEF Fits, UpToNow
  <2>3. ASSUME u[i].req \notin l, NEW n \in u[i].n..r[u[i].req].entries
        PROVE  [req |-> u[i].req, n |-> n] \in ToSet(u)
    <3> DEFINE e == [req |-> u[i].req, n |-> n]
    <3>1. e \in ToSet(t)
      BY <2>2, <2>3
    <3>2. e.req = u[i].req /\ e.n >= u[i].n
      BY <1>1 DEF AuditEntries
    <3>3. QED BY <1>4, <3>1, <3>2
  <2>4. QED BY <2>2, <2>3
<1>7. QED BY <1>3, <1>5, <1>6 DEF Fits

\* A trail with m more entries of a request that had e, and a request that has
\* left k more entries.
MoreEntries(t, u, q, e, m) ==
  /\ Len(u) = Len(t) + m /\ \A i \in 1..Len(t) : u[i] = t[i]
  /\ \A i \in 1..m : u[Len(t) + i] = [req |-> q, n |-> e + i]

HasLeft(r, r2, q, e, k) ==
  /\ r[q].stage # "done" /\ r[q].entries = e
  /\ \A p \in Requests \ {q} : r2[p] = r[p]
  /\ r2[q].stage = "done" \/ r2[q].entries = e + k

\* More entries of one request: as many as there was room for, or it is lost.
LEMMA GoesOn ==
  ASSUME NEW t \in Seq(AuditEntries), NEW u \in Seq(AuditEntries), NEW l, NEW l2,
         NEW r, NEW r2, NEW q \in Requests, NEW e \in Nat, NEW k \in Nat, NEW m \in 0..k,
         \A p \in Requests : r[p].entries \in Nat, HasLeft(r, r2, q, e, k),
         l2 = IF m < k THEN l \cup {q} ELSE l, MoreEntries(t, u, q, e, m), Fits(t, l, r)
  PROVE  Fits(u, l2, r2)
<1> USE DEF HasLeft, MoreEntries
<1> DEFINE N == Len(t)
<1>1. /\ N \in Nat /\ DOMAIN t = 1..N /\ DOMAIN u = 1..(N + m)
      /\ \A i \in 1..N : t[i] = u[i] /\ t[i].req \in Requests /\ t[i].n \in Nat
  <2>1. /\ N \in Nat /\ DOMAIN t = 1..N /\ DOMAIN u = 1..(N + m)
        /\ \A i \in 1..N : t[i] = u[i] /\ t[i] \in AuditEntries
    OBVIOUS
  <2>2. QED BY <2>1 DEF AuditEntries
<1> HIDE DEF N
<1>2. ToSet(t) \subseteq ToSet(u) /\ l \subseteq l2 /\ (q \notin l2 => m = k /\ q \notin l)
  BY <1>1 DEF ToSet
<1>3. \A i \in DOMAIN u : \/ i \in 1..N
                          \/ /\ i > N /\ i - N \in 1..m
                             /\ u[i].req = q /\ u[i].n = e + (i - N)
  <2>1. ASSUME NEW i \in DOMAIN u, i \notin 1..N
        PROVE  i > N /\ i - N \in 1..m /\ u[i].req = q /\ u[i].n = e + (i - N)
    <3>1. i > N /\ i - N \in 1..m /\ i = N + (i - N)
      BY <1>1, <2>1
    <3>2. u[i] = [req |-> q, n |-> e + (i - N)]
      BY <3>1 DEF N
    <3>3. QED BY <3>1, <3>2
  <2>2. QED BY <2>1
<1>4. \A i \in 1..m : [req |-> q, n |-> e + i] \in ToSet(u)
  <2>1. ASSUME NEW i \in 1..m PROVE [req |-> q, n |-> e + i] \in ToSet(u)
    <3>1. N + i \in DOMAIN u /\ u[N + i] = [req |-> q, n |-> e + i]
      BY <1>1 DEF N
    <3>2. QED BY <3>1 DEF ToSet
  <2>2. QED BY <2>1
<1>5. ASSUME NEW n \in Nat, e < n, n <= e + m
      PROVE  [req |-> q, n |-> n] \in ToSet(u)
  <2>1. n - e \in 1..m /\ e + (n - e) = n
    BY <1>5
  <2>2. QED BY <1>4, <2>1
<1>6. ASSUME NEW i \in 1..N, u[i].req = q
      PROVE  /\ u[i].n <= e /\ u[i].n \in Nat
             /\ q \notin l => \A n \in u[i].n..e : [req |-> q, n |-> n] \in ToSet(u)
  BY <1>1, <1>2, <1>6 DEF Fits, UpToNow
<1>7. InOrder(u)
  <2> SUFFICES ASSUME NEW i \in DOMAIN u, NEW j \in DOMAIN u, i < j, u[i].req = u[j].req
               PROVE  u[i].n < u[j].n
    BY DEF InOrder
  <2>1. CASE j \in 1..N
    <3>1. i \in 1..N
      BY <1>1, <2>1
    <3>2. QED BY <1>1, <2>1, <3>1 DEF Fits, InOrder
  <2>2. CASE j \notin 1..N /\ i \in 1..N
    BY <1>3, <1>6, <2>2
  <2>3. CASE j \notin 1..N /\ i \notin 1..N
    BY <1>1, <1>3, <2>3
  <2>4. QED BY <2>1, <2>2, <2>3
<1>8. NoGaps(u, l2)
  <2> SUFFICES ASSUME NEW i \in DOMAIN u, NEW j \in DOMAIN u, i < j, u[i].req = u[j].req,
                      u[i].req \notin l2, NEW n \in (u[i].n + 1)..(u[j].n - 1)
               PROVE  [req |-> u[i].req, n |-> n] \in ToSet(u)
    BY DEF NoGaps
  <2>1. CASE j \in 1..N
    <3>1. i \in 1..N /\ u[i] = t[i] /\ u[j] = t[j] /\ u[i].req \notin l
      BY <1>1, <1>2, <2>1
    <3>2. [req |-> t[i].req, n |-> n] \in ToSet(t)
      BY <1>1, <2>1, <3>1 DEF Fits, NoGaps
    <3>3. QED BY <1>2, <3>1, <3>2
  <2>2. CASE j \notin 1..N
    <3>1. u[i].req = q /\ j - N \in 1..m /\ u[j].n = e + (j - N) /\ q \notin l
      BY <1>2, <1>3, <2>2
    <3>2. u[i].n \in Nat /\ n \in Nat /\ n <= e + m
      <4>1. u[i].n \in Nat
        <5>1. CASE i \in 1..N
          BY <3>1, <5>1, <1>6
        <5>2. CASE i \notin 1..N
          <6>1. i - N \in 1..m /\ u[i].n = e + (i - N)
            BY <1>3, <5>2
          <6>2. QED BY <6>1
        <5>3. QED BY <5>1, <5>2
      <4>2. u[j].n \in Nat /\ u[j].n <= e + m
        BY <3>1
      <4>3. QED BY <4>1, <4>2
    <3>3. CASE n <= e
      <4>1. i \in 1..N
        BY <1>3, <3>1, <3>2, <3>3
      <4>2. n \in u[i].n..e
        BY <3>2, <3>3
      <4>3. QED BY <1>6, <3>1, <4>1, <4>2
    <3>4. CASE n > e
      BY <1>5, <3>1, <3>2, <3>4
    <3>5. QED BY <3>2, <3>3, <3>4
  <2>3. QED BY <2>1, <2>2
<1>9. UpToNow(u, l2, r2)
  <2> SUFFICES ASSUME NEW i \in DOMAIN u, r2[u[i].req].stage # "done"
               PROVE  /\ u[i].n <= r2[u[i].req].entries
                      /\ u[i].req \notin l2 =>
                           \A n \in u[i].n..r2[u[i].req].entries :
                             [req |-> u[i].req, n |-> n] \in ToSet(u)
    BY DEF UpToNow
  <2>1. CASE u[i].req # q
    <3>1. i \in 1..N /\ u[i] = t[i] /\ u[i].req \in Requests /\ r2[u[i].req] = r[u[i].req]
      BY <1>1, <1>3, <2>1
    <3>2. /\ t[i].n <= r[t[i].req].entries
          /\ t[i].req \notin l => \A n \in t[i].n..r[t[i].req].entries :
                                    [req |-> t[i].req, n |-> n] \in ToSet(t)
      BY <1>1, <3>1 DEF Fits, UpToNow
    <3>3. QED BY <1>2, <3>1, <3>2
  <2>2. CASE u[i].req = q
    <3>1. r2[q].entries = e + k
      BY <2>2
    <3>2. u[i].n \in Nat /\ u[i].n <= e + k
      BY <1>3, <1>6, <2>2
    <3>3. ASSUME q \notin l2, NEW n \in u[i].n..(e + k)
          PROVE  [req |-> q, n |-> n] \in ToSet(u)
      <4>1. m = k /\ q \notin l /\ n \in Nat
        BY <1>2, <3>2, <3>3
      <4>2. CASE n <= e
        <5>1. i \in 1..N
          BY <1>3, <3>2, <3>3, <4>2
        <5>2. QED BY <1>6, <2>2, <3>2, <4>1, <4>2, <5>1
      <4>3. CASE n > e
        BY <1>5, <4>1, <4>3
      <4>4. QED BY <4>1, <4>2, <4>3
    <3>4. QED BY <2>2, <3>1, <3>2, <3>3
  <2>3. QED BY <2>1, <2>2
<1>10. QED BY <1>7, <1>8, <1>9 DEF Fits
-----------------------------------------------------------------------------
(***************************************************************************)
(* The provider that finds the runtime of a model.                         *)
(***************************************************************************)
\* The types of what the provider keeps.
ListsOfSome == UNION {[S -> SUBSET Models] : S \in SUBSET Names}

AskStates == [stage : {"idle", "read", "write", "list", "found", "gone"},
              model : Models \cup {Nobody}, lists : ListsOfSome, found : Names \cup {Nobody}]

RuntimeTypes ==
  /\ server \in [Names -> {Nobody} \cup SUBSET Models]
  /\ cache \in [fresh : BOOLEAN, lists : [Names -> SUBSET Models]]
  /\ writer \in Callers \cup {Nobody}
  /\ ask \in [Callers -> AskStates]

\* The one who lists the models has the lock and nobody else lists them, and
\* nobody does while the lists are fresh.
WriterLists ==
  /\ \A c \in Callers : ask[c].stage = "list" => writer = c
  /\ writer # Nobody => ask[writer].stage = "list" /\ ~cache.fresh

FillsAreCounted == fills = IF cache.fresh THEN 1 ELSE 0

RuntimeInv == RuntimeTypes /\ WriterLists /\ FillsAreCounted

\* The names of the runtimes.
LEMMA KnownAre ==
  /\ DOMAIN Known = {1, 2} /\ Known[1] = Ollama /\ Known[2] = LmStudio
  /\ Ollama.name = "ollama" /\ LmStudio.name = "lmstudio"
  /\ Names = {"ollama", "lmstudio"}
<1>1. DOMAIN Known = {1, 2} /\ Known[1] = Ollama /\ Known[2] = LmStudio
  BY DEF Known
<1>2. Ollama.name = "ollama" /\ LmStudio.name = "lmstudio"
  BY DEF Ollama, LmStudio
<1>3. QED BY <1>1, <1>2 DEF Names

\* The runtime of a model is a known one, or none.
LEMMA OwnersAre ==
  ASSUME NEW lists, NEW m PROVE Owner(lists, m) \in Names \cup {Nobody}
<1> DEFINE has == {i \in DOMAIN Known : m \in lists[Known[i].name]}
<1>1. CASE has = {}
  BY <1>1 DEF Owner
<1>2. CASE has # {}
  <2>1. has \subseteq {1, 2}
    BY KnownAre
  <2>2. \E x \in has : \A y \in has : x <= y
    BY <1>2, <2>1
  <2>3. Min(has) \in has
    BY <2>2 DEF Min
  <2>4. Owner(lists, m) = Known[Min(has)].name
    BY <1>2 DEF Owner
  <2>5. QED BY <2>1, <2>3, <2>4, KnownAre
<1>3. QED BY <1>1, <1>2

\* A caller that goes on from one stage to another; the others stay where they are.
LEMMA AskGoesOn ==
  ASSUME RuntimeTypes, NEW c \in Callers, NEW a \in AskStates, ask' = [ask EXCEPT ![c] = a]
  PROVE  /\ ask' \in [Callers -> AskStates] /\ ask'[c] = a
         /\ \A o \in Callers \ {c} : ask'[o] = ask[o]
  BY DEF RuntimeTypes

\* What a caller finds, and what it keeps when it only goes on.
LEMMA AsksAre ==
  ASSUME RuntimeTypes, NEW c \in Callers
  PROVE  /\ NoAsk \in AskStates /\ NoAsk.stage = "idle"
         /\ \A s \in {"write", "list", "gone"} :
              /\ [ask[c] EXCEPT !.stage = s] \in AskStates
              /\ [ask[c] EXCEPT !.stage = s].stage = s
         /\ \A lists : [NoAsk EXCEPT !.stage = "found", !.model = ask[c].model,
                                     !.found = Owner(lists, ask[c].model)] \in AskStates
<1>1. ask[c] \in AskStates
  BY DEF RuntimeTypes
<1>2. [n \in {} |-> {}] \in ListsOfSome
  <2>1. [n \in {} |-> {}] \in [{} -> SUBSET Models] /\ {} \in SUBSET Names
    OBVIOUS
  <2>2. QED BY <2>1 DEF ListsOfSome
<1>3. NoAsk \in AskStates /\ NoAsk.stage = "idle"
  BY <1>2 DEF NoAsk, AskStates
<1>4. QED BY <1>1, <1>3, OwnersAre DEF AskStates

\* The step of a caller that neither takes nor gives up the lock.
LEMMA AskWithoutLock ==
  ASSUME RuntimeInv, NEW c \in Callers, NEW a \in AskStates, ask' = [ask EXCEPT ![c] = a],
         a.stage = "list" <=> ask[c].stage = "list",
         UNCHANGED <<server, cache, writer, fills>>
  PROVE  RuntimeInv'
<1>1. RuntimeTypes'
  BY AskGoesOn DEF RuntimeInv, RuntimeTypes
<1>2. WriterLists'
  BY AskGoesOn DEF RuntimeInv, RuntimeTypes, WriterLists
<1>3. FillsAreCounted'
  BY DEF RuntimeInv, FillsAreCounted
<1>4. QED BY <1>1, <1>2, <1>3 DEF RuntimeInv

\* The next list of the one who lists them.
LEMMA NextListIsOne ==
  ASSUME RuntimeInv, NEW c \in Callers, NextList(c)
  PROVE  RuntimeInv'
<1> DEFINE todo == {i \in DOMAIN Known : Known[i].name \notin DOMAIN ask[c].lists}
           r == Known[Min(todo)]
           more == [n \in DOMAIN ask[c].lists \cup {r.name} |->
                      IF n = r.name THEN ListModels(ReplyOf(n), ModelsOf(n))
                      ELSE ask[c].lists[n]]
           a == [ask[c] EXCEPT !.lists = more]
<1>1. /\ ask[c].stage = "list" /\ todo # {}
      /\ ask' = [ask EXCEPT ![c].lists = more]
      /\ UNCHANGED <<server, cache, writer, fills>>
  BY DEF NextList
<1>2. ask[c] \in AskStates /\ server \in [Names -> {Nobody} \cup SUBSET Models]
  BY DEF RuntimeInv, RuntimeTypes
<1>3. PICK S \in SUBSET Names : ask[c].lists \in [S -> SUBSET Models]
  BY <1>2 DEF AskStates, ListsOfSome
<1>4. r.name \in Names
  <2>1. todo \subseteq {1, 2}
    BY KnownAre
  <2>2. \E x \in todo : \A y \in todo : x <= y
    BY <1>1, <2>1
  <2>3. Min(todo) \in todo
    BY <2>2 DEF Min
  <2>4. QED BY <2>1, <2>3, KnownAre
<1>5. ListModels(ReplyOf(r.name), ModelsOf(r.name)) \in SUBSET Models
  BY <1>2, <1>4 DEF ListModels, ReplyOf, ModelsOf, Ok
<1> HIDE DEF r
<1>6. more \in [S \cup {r.name} -> SUBSET Models]
  BY <1>3, <1>5
<1>7. S \cup {r.name} \in SUBSET Names
  BY <1>4
<1>8. more \in ListsOfSome
  BY <1>6, <1>7 DEF ListsOfSome
<1> HIDE DEF more
<1>9. a \in AskStates /\ a.stage = "list"
  BY <1>1, <1>2, <1>8 DEF AskStates
<1>10. ask' = [ask EXCEPT ![c] = a]
  BY <1>1
<1> HIDE DEF a
<1>11. QED BY <1>1, <1>9, <1>10, AskWithoutLock

\* The runtimes of the beginning have not been asked.
LEMMA RuntimeStarts == RuntimeInit => RuntimeInv
<1> SUFFICES ASSUME RuntimeInit PROVE RuntimeInv
  OBVIOUS
<1>1. [n \in {} |-> {}] \in ListsOfSome
  <2>1. [n \in {} |-> {}] \in [{} -> SUBSET Models] /\ {} \in SUBSET Names
    OBVIOUS
  <2>2. QED BY <2>1 DEF ListsOfSome
<1>2. NoAsk \in AskStates /\ NoAsk.stage = "idle"
  BY <1>1 DEF NoAsk, AskStates
<1>3. RuntimeTypes
  BY <1>2, RuntimeAssumption DEF RuntimeInit, RuntimeTypes, NoLists
<1>4. WriterLists
  BY <1>2 DEF RuntimeInit, WriterLists
<1>5. FillsAreCounted
  BY DEF RuntimeInit, FillsAreCounted, NoLists
<1>6. QED BY <1>3, <1>4, <1>5 DEF RuntimeInv

\* Whatever a caller does about the lists, they are fetched under the lock.
LEMMA AskStepFills ==
  ASSUME RuntimeInv, NEW c \in Callers, AskStep(c)
  PROVE  RuntimeInv'
<1> DEFINE found(lists) == [NoAsk EXCEPT !.stage = "found", !.model = ask[c].model,
                                         !.found = Owner(lists, ask[c].model)]
<1>1. RuntimeTypes /\ ask[c] \in AskStates
  BY DEF RuntimeInv, RuntimeTypes
<1>2. \A lists : /\ found(lists) \in AskStates /\ found(lists).stage = "found"
                 /\ Found(c, lists) = [ask EXCEPT ![c] = found(lists)]
  BY <1>1, AsksAre DEF Found, NoAsk
<1> HIDE DEF found
<1>3. CASE Read(c)
  <2>1. CASE Stale
    <3> DEFINE a == [ask[c] EXCEPT !.stage = "write"]
    <3>1. a \in AskStates /\ a.stage = "write" /\ ask[c].stage = "read"
      BY <1>1, <1>3, AsksAre DEF Read
    <3>2. ask' = [ask EXCEPT ![c] = a] /\ UNCHANGED <<server, cache, writer, fills>>
      BY <1>3, <2>1 DEF Read
    <3> HIDE DEF a
    <3>3. QED BY <3>1, <3>2, AskWithoutLock
  <2>2. CASE ~Stale
    <3> DEFINE a == found(cache.lists)
    <3>1. a \in AskStates /\ a.stage = "found" /\ ask[c].stage = "read"
      BY <1>2, <1>3 DEF Read
    <3>2. ask' = [ask EXCEPT ![c] = a] /\ UNCHANGED <<server, cache, writer, fills>>
      BY <1>2, <1>3, <2>2 DEF Read
    <3> HIDE DEF a
    <3>3. QED BY <3>1, <3>2, AskWithoutLock
  <2>3. QED BY <2>1, <2>2
<1>4. CASE Lock(c)
  <2>1. CASE Stale
    <3> DEFINE a == [ask[c] EXCEPT !.stage = "list"]
    <3>1. a \in AskStates /\ a.stage = "list"
      BY <1>1, AsksAre
    <3>2. /\ ask' = [ask EXCEPT ![c] = a] /\ writer = Nobody /\ writer' = c
          /\ ~cache.fresh /\ UNCHANGED <<server, cache, fills>>
      BY <1>4, <2>1 DEF Lock, Stale
    <3> HIDE DEF a
    <3>3. /\ ask' \in [Callers -> AskStates] /\ ask'[c] = a
          /\ \A o \in Callers \ {c} : ask'[o] = ask[o]
      BY <1>1, <3>1, <3>2, AskGoesOn
    <3>4. RuntimeTypes'
      BY <1>1, <3>2, <3>3 DEF RuntimeTypes
    <3>5. \A o \in Callers : ask[o].stage # "list"
      BY <3>2, RuntimeAssumption DEF RuntimeInv, WriterLists
    <3>6. WriterLists'
      BY <3>1, <3>2, <3>3, <3>5 DEF WriterLists
    <3>7. FillsAreCounted'
      BY <3>2 DEF RuntimeInv, FillsAreCounted
    <3>8. QED BY <3>4, <3>6, <3>7 DEF RuntimeInv
  <2>2. CASE ~Stale
    <3> DEFINE a == found(cache.lists)
    <3>1. a \in AskStates /\ a.stage = "found" /\ ask[c].stage = "write"
      BY <1>2, <1>4 DEF Lock
    <3>2. ask' = [ask EXCEPT ![c] = a] /\ UNCHANGED <<server, cache, writer, fills>>
      BY <1>2, <1>4, <2>2 DEF Lock
    <3> HIDE DEF a
    <3>3. QED BY <3>1, <3>2, AskWithoutLock
  <2>3. QED BY <2>1, <2>2
<1>5. CASE NextList(c)
  BY <1>5, NextListIsOne
<1>6. CASE FillDone(c)
  <2> DEFINE a == found(ask[c].lists)
  <2>1. a \in AskStates /\ a.stage = "found"
    BY <1>2
  <2>2. /\ ask[c].stage = "list" /\ DOMAIN ask[c].lists = Names
        /\ cache' = [fresh |-> TRUE, lists |-> ask[c].lists]
        /\ fills' = fills + 1 /\ writer' = Nobody /\ ask' = [ask EXCEPT ![c] = a]
        /\ server' = server
    BY <1>2, <1>6 DEF FillDone
  <2> HIDE DEF a
  <2>3. /\ ask' \in [Callers -> AskStates] /\ ask'[c] = a
        /\ \A o \in Callers \ {c} : ask'[o] = ask[o]
    BY <1>1, <2>1, <2>2, AskGoesOn
  <2>4. ask[c].lists \in [Names -> SUBSET Models]
    BY <1>1, <2>2 DEF AskStates, ListsOfSome
  <2>5. RuntimeTypes'
    BY <1>1, <2>2, <2>3, <2>4 DEF RuntimeTypes
  <2>6. writer = c /\ ~cache.fresh
    BY <2>2, RuntimeAssumption DEF RuntimeInv, WriterLists
  <2>7. WriterLists'
    BY <2>1, <2>2, <2>3, <2>6 DEF RuntimeInv, WriterLists
  <2>8. FillsAreCounted'
    BY <2>2, <2>6 DEF RuntimeInv, FillsAreCounted
  <2>9. QED BY <2>5, <2>7, <2>8 DEF RuntimeInv
<1>7. QED BY <1>3, <1>4, <1>5, <1>6 DEF AskStep

\* The runtimes of the gateway are asked once for every expiry, whoever is
\* dropped meanwhile.
LEMMA RuntimeStep ==
  ASSUME RuntimeInv, [ProxyNext]_proxyVars
  PROVE  RuntimeInv'
<1>1. RuntimeTypes
  BY DEF RuntimeInv
<1>2. CASE UNCHANGED runtimeVars
  BY <1>2 DEF runtimeVars, RuntimeInv, RuntimeTypes, WriterLists, FillsAreCounted
<1>3. ASSUME NEW q \in Requests, Route(q) PROVE RuntimeInv'
  <2>1. PICK m \in Models : AskFor(q, m)
    BY <1>3 DEF Route
  <2> DEFINE a == [ask[q] EXCEPT !.stage = "read", !.model = m]
  <2>2. q \in Callers
    BY CallersAreRequests
  <2>3. ask[q] \in AskStates /\ ask[q].stage = "idle"
    BY <1>1, <2>1, <2>2 DEF RuntimeTypes, AskFor
  <2>4. a \in AskStates /\ a.stage = "read"
    BY <2>3 DEF AskStates
  <2>5. ask' = [ask EXCEPT ![q] = a] /\ UNCHANGED <<server, cache, writer, fills>>
    BY <2>1 DEF AskFor
  <2> HIDE DEF a
  <2>6. QED BY <2>2, <2>3, <2>4, <2>5, AskWithoutLock
<1>4. ASSUME NEW q \in Requests, NoUpstream(q) \/ Upstream(q) PROVE RuntimeInv'
  <2>1. /\ ask[q].stage = "found" /\ ask' = [ask EXCEPT ![q] = NoAsk]
        /\ UNCHANGED <<server, cache, writer, fills>>
    BY <1>4 DEF NoUpstream, Upstream
  <2>2. NoAsk \in AskStates /\ NoAsk.stage = "idle" /\ q \in Callers
    BY <1>1, AsksAre, CallersAreRequests
  <2>3. QED BY <2>1, <2>2, AskWithoutLock
<1>5. ASSUME NEW q \in Requests, Leave(q) \/ TimesOut(q) PROVE RuntimeInv'
  <2> DEFINE a == [ask[q] EXCEPT !.stage = "gone"]
  <2>1. /\ ask' = [ask EXCEPT ![q] = a] /\ writer' = IF writer = q THEN Nobody ELSE writer
        /\ UNCHANGED <<server, cache, fills>> /\ q \in Callers
    BY <1>5, CallersAreRequests DEF Leave, TimesOut, Drop
  <2>2. a \in AskStates /\ a.stage = "gone"
    BY <1>1, <2>1, AsksAre
  <2> HIDE DEF a
  <2>3. /\ ask' \in [Callers -> AskStates] /\ ask'[q] = a
        /\ \A o \in Callers \ {q} : ask'[o] = ask[o]
    BY <1>1, <2>1, <2>2, AskGoesOn
  <2>4. RuntimeTypes'
    BY <1>1, <2>1, <2>3 DEF RuntimeTypes
  <2>5. WriterLists'
    BY <1>1, <2>1, <2>2, <2>3 DEF RuntimeInv, RuntimeTypes, WriterLists
  <2>6. FillsAreCounted'
    BY <2>1 DEF RuntimeInv, FillsAreCounted
  <2>7. QED BY <2>4, <2>5, <2>6 DEF RuntimeInv
<1>6. ASSUME NEW s \in [Names -> {Nobody} \cup SUBSET Models], server' = s,
             UNCHANGED <<cache, writer, ask, fills>>
      PROVE  RuntimeInv'
  BY <1>6 DEF RuntimeInv, RuntimeTypes, WriterLists, FillsAreCounted
<1>7. ASSUME NEW n \in Restless, UserAct(n) PROVE RuntimeInv'
  <2>1. PICK s \in {Nobody} \cup SUBSET Models : server' = [server EXCEPT ![n] = s]
    BY <1>7 DEF UserAct
  <2>2. [server EXCEPT ![n] = s] \in [Names -> {Nobody} \cup SUBSET Models]
    BY <1>1 DEF RuntimeTypes
  <2>3. QED BY <1>6, <1>7, <2>1, <2>2 DEF UserAct
<1>8. ASSUME NEW r, NEW m \in Models, PullModel(r, m) \/ RemoveModel(r, m)
      PROVE  RuntimeInv'
  <2>1. PICK x \in SUBSET Models :
          /\ Ok(r.name) /\ (server[r.name] \in SUBSET Models =>
                              server' = [server EXCEPT ![r.name] = x])
    <3>1. CASE server[r.name] \in SUBSET Models
      <4>1. server[r.name] \cup {m} \in SUBSET Models /\ server[r.name] \ {m} \in SUBSET Models
        BY <3>1
      <4>2. QED BY <1>8, <4>1 DEF PullModel, RemoveModel
    <3>2. CASE server[r.name] \notin SUBSET Models
      BY <1>8, <3>2 DEF PullModel, RemoveModel
    <3>3. QED BY <3>1, <3>2
  <2>2. CASE r.name \in Names
    <3>1. server[r.name] \in SUBSET Models
      BY <1>1, <2>1, <2>2 DEF RuntimeTypes, Ok
    <3>2. [server EXCEPT ![r.name] = x] \in [Names -> {Nobody} \cup SUBSET Models]
      BY <1>1 DEF RuntimeTypes
    <3>3. QED BY <1>6, <1>8, <2>1, <3>1, <3>2 DEF PullModel, RemoveModel
  <2>3. CASE r.name \notin Names
    <3>1. server' = server
      BY <1>1, <1>8, <2>3 DEF RuntimeTypes, PullModel, RemoveModel
    <3>2. QED BY <1>1, <1>6, <1>8, <3>1 DEF PullModel, RemoveModel, RuntimeTypes
  <2>4. QED BY <2>2, <2>3
<1>9. CASE Expire
  <2>1. /\ cache.fresh /\ cache' = NoLists /\ fills' = 0
        /\ UNCHANGED <<server, writer, ask>>
    BY <1>9 DEF Expire
  <2>2. NoLists \in [fresh : BOOLEAN, lists : [Names -> SUBSET Models]] /\ ~NoLists.fresh
    BY DEF NoLists
  <2>3. QED BY <2>1, <2>2 DEF RuntimeInv, RuntimeTypes, WriterLists, FillsAreCounted
<1>10. ASSUME NEW q \in Requests, AskStep(q) PROVE RuntimeInv'
  BY <1>10, AskStepFills, CallersAreRequests
<1>11. ASSUME NEW q \in Requests, Serve(q) PROVE RuntimeInv'
  <2>1. CASE (FilterStep(q) /\ UNCHANGED runtimeVars) \/ RefuseKey(q)
    BY <1>2, <2>1 DEF RefuseKey
  <2>2. QED BY <1>3, <1>4, <1>10, <1>11, <2>1 DEF Serve
<1>12. CASE UNCHANGED proxyVars
  BY <1>2, <1>12 DEF proxyVars
<1>13. QED
  BY <1>2, <1>5, <1>7, <1>8, <1>9, <1>11, <1>12 DEF ProxyNext
-----------------------------------------------------------------------------
(***************************************************************************)
(* The requests that go through the filters.                               *)
(***************************************************************************)
Policies == KeyPolicies \cup {None}

RequestStates ==
  [stage : {"idle", "reading", "inner", "routing", "collecting", "filtered", "done"},
   chain : Seq(ToSet(Order)), body : Bodies \cup {None}, key : Policies, ext : Policies,
   sent : SUBSET Kinds, answer : Responses \cup {None}, got : Responses \cup {None},
   entries : Nat, unsent : Nat]

\* An answer without personal data in what is JSON of it.
CleanAnswer(a) ==
  a # None /\ a.form \in {"json", "stream"} =>
    \A i \in DOMAIN a.frames : a.frames[i].is = "json" => "personal" \notin a.frames[i].text

\* A request has what its stage says, and lets nothing personal pass.
FitRequest(x) ==
  /\ x.stage = "reading" => x.body \in Bodies
  /\ x.stage \in {"collecting", "filtered"} => x.answer \in Responses
  /\ x.stage # "done" => x.got = None
  /\ x.unsent # 0 => x.stage \in {"inner", "filtered"}
  /\ "pii-redact" \in ToSet(x.chain) =>
       /\ x.stage \notin {"idle", "reading", "done"} => "personal" \notin x.sent
       /\ x.stage = "filtered" => CleanAnswer(x.answer)
       /\ CleanAnswer(x.got)

FilterTypes ==
  /\ chain \in Seq(ToSet(Order))
  /\ req \in [Requests -> RequestStates]
  /\ channel \in Seq(AuditEntries) /\ Len(channel) <= ChannelCap
  /\ log \in Seq(AuditEntries)

FilterInv ==
  /\ FilterTypes
  /\ \A q \in Requests : FitRequest(req[q])
  /\ Fits(Trail, lost, req)

\* A request that has not come.
LEMMA NoRequestIs ==
  NoRequest \in RequestStates /\ FitRequest(NoRequest) /\ NoRequest.stage = "idle"
<1>1. <<>> \in Seq(ToSet(Order)) /\ ToSet(<<>>) = {}
  BY DEF ToSet
<1>2. NoRequest \in RequestStates
  BY <1>1 DEF NoRequest, RequestStates, Policies
<1>3. /\ NoRequest.stage = "idle" /\ NoRequest.chain = <<>> /\ NoRequest.unsent = 0
      /\ NoRequest.got = None
  BY DEF NoRequest
<1>4. FitRequest(NoRequest)
  BY <1>1, <1>3 DEF FitRequest
<1>5. QED BY <1>2, <1>3, <1>4

\* A request goes on without an entry in the trail.
LEMMA RequestGoesOn ==
  ASSUME FilterInv, NEW q \in Requests, NEW x \in RequestStates, FitRequest(x),
         req' = [req EXCEPT ![q] = x], NoAudit,
         x.stage = "done" \/ (Stage(q) # "done" /\ x.entries = req[q].entries)
  PROVE  FilterInv'
<1>1. /\ chain' = chain /\ channel' = channel /\ log' = log /\ lost' = lost
      /\ req' \in [Requests -> RequestStates] /\ req'[q] = x
      /\ \A p \in Requests \ {q} : req'[p] = req[p]
  BY DEF NoAudit, FilterInv, FilterTypes
<1>2. FilterTypes'
  BY <1>1 DEF FilterInv, FilterTypes
<1>3. \A p \in Requests : FitRequest(req'[p])
  BY <1>1 DEF FilterInv
<1>4. Trail' = Trail
  BY <1>1 DEF Trail
<1>5. Trail \in Seq(AuditEntries)
  BY ConcatProperties DEF FilterInv, FilterTypes, Trail
<1> DEFINE t == Trail
<1>6. \A i \in DOMAIN t : t[i].req \in Requests
  <2>1. \A i \in DOMAIN t : t[i] \in AuditEntries
    BY <1>5
  <2>2. QED BY <2>1 DEF AuditEntries
<1>7. Fits(t, lost, req)
  BY DEF FilterInv
<1> HIDE DEF t
<1>8. Fits(t, lost, req')
  BY <1>1, <1>6, <1>7 DEF Fits, UpToNow, Stage
<1>9. Fits(Trail', lost', req')
  BY <1>1, <1>4, <1>8 DEF t
<1>10. QED BY <1>2, <1>3, <1>9 DEF FilterInv

\* What is left of a request when it is over.
LEMMA EndedIs ==
  ASSUME FilterInv, NEW q \in Requests, NEW got \in Responses \cup {None},
         "pii-redact" \in ToSet(req[q].chain) => CleanAnswer(got)
  PROVE  LET x == Ended(q, got)
         IN x \in RequestStates /\ FitRequest(x) /\ x.stage = "done"
<1>1. req[q].chain \in Seq(ToSet(Order))
  BY DEF FilterInv, FilterTypes, RequestStates
<1>2. Ended(q, got) \in RequestStates
  BY <1>1, NoRequestIs DEF Ended, RequestStates
<1>3. /\ Ended(q, got).stage = "done" /\ Ended(q, got).chain = req[q].chain
      /\ Ended(q, got).got = got /\ Ended(q, got).unsent = 0
  BY DEF Ended, NoRequest
<1>4. FitRequest(Ended(q, got))
  BY <1>3 DEF FitRequest
<1>5. QED BY <1>2, <1>3, <1>4

\* An error is an answer, without anything personal.
LEMMA ErrorsAre ==
  /\ Error \in Responses
  /\ \A code \in {"413", "502", "empty"} : Failure(code) \in Responses /\ CleanAnswer(Failure(code))
<1>1. [is |-> "json", text |-> {}] \in Frames
  BY DEF Frames
<1>2. Error \in Responses
  <2>1. <<[is |-> "json", text |-> {}]>> \in Seq(Frames)
    BY <1>1
  <2>2. QED BY <2>1 DEF Error, Responses
<1>3. ASSUME NEW code \in {"413", "502", "empty"}
      PROVE  Failure(code) \in Responses /\ CleanAnswer(Failure(code))
  <2>1. <<>> \in Seq(Frames)
    OBVIOUS
  <2>2. QED BY <2>1 DEF Failure, Responses, CleanAnswer
<1>4. QED BY <1>2, <1>3

\* An answer that is there is filtered.
LEMMA AnsweredIs ==
  ASSUME FilterInv, NEW q \in Requests, Stage(q) \notin {"idle", "reading", "done"},
         NEW a \in Responses
  PROVE  LET x == Answered(q, a)
         IN /\ x \in RequestStates /\ FitRequest(x)
            /\ x.stage = "done" \/ x.entries = req[q].entries
<1> DEFINE r == FilterBody(req[q].chain, a)
           b == [a EXCEPT !.frames = r.frames]
           x == Answered(q, a)
<1>1. req[q] \in RequestStates /\ FitRequest(req[q])
  BY DEF FilterInv, FilterTypes
<1>2. CASE req[q].chain = <<>>
  <2>1. x = Ended(q, a)
    BY <1>2 DEF Answered
  <2>2. "pii-redact" \notin ToSet(req[q].chain)
    BY <1>2 DEF ToSet
  <2>3. QED BY <2>1, <2>2, EndedIs
<1>3. CASE req[q].chain # <<>>
  <2>1. a.frames \in Seq(Frames) /\ req[q].chain \in Seq(ToSet(Order))
    BY <1>1 DEF Responses, RequestStates
  <2>2. /\ r.frames \in Seq(Frames) /\ r.n \in Nat
        /\ "pii-redact" \in ToSet(req[q].chain) /\ a.form \in {"json", "stream"} =>
             \A i \in DOMAIN r.frames : r.frames[i].is = "json" => "personal" \notin r.frames[i].text
    <3>1. CASE a.form \in {"json", "stream"}
      <4>1. r = FilterStream(req[q].chain, a.frames)
        BY <3>1 DEF FilterBody
      <4> HIDE DEF r
      <4>2. QED BY <2>1, <4>1, StreamComesTo
    <3>2. CASE a.form \notin {"json", "stream"}
      <4>1. r = [frames |-> a.frames, n |-> 0]
        BY <3>2 DEF FilterBody
      <4> HIDE DEF r
      <4>2. QED BY <2>1, <3>2, <4>1
    <3>3. QED BY <3>1, <3>2
  <2>3. x = [req[q] EXCEPT !.stage = "filtered", !.answer = b, !.unsent = r.n]
    BY <1>3 DEF Answered
  <2> HIDE DEF r, x
  <2>4. b \in Responses /\ b.form = a.form /\ b.frames = r.frames
    BY <2>2 DEF Responses
  <2> HIDE DEF b
  <2>5. "pii-redact" \in ToSet(req[q].chain) => CleanAnswer(b)
    BY <2>2, <2>4 DEF CleanAnswer
  <2>6. x \in RequestStates /\ x.stage = "filtered" /\ x.answer = b
    BY <1>1, <2>2, <2>3, <2>4 DEF RequestStates
  <2>7. x.entries = req[q].entries /\ x.chain = req[q].chain /\ x.got = req[q].got /\ x.sent = req[q].sent
    BY <1>1, <2>3 DEF RequestStates
  <2>8. FitRequest(x)
    BY <1>1, <2>4, <2>5, <2>6, <2>7 DEF FitRequest, Stage
  <2>9. QED BY <2>6, <2>7, <2>8 DEF x
<1>4. QED BY <1>2, <1>3

\* The routes answer, or the body of an answer has come.
LEMMA ReplyFits ==
  ASSUME FilterInv, NEW q \in Requests, Stage(q) \notin {"idle", "reading", "done"},
         NEW a \in Responses, Reply(q, a)
  PROVE  FilterInv'
<1> DEFINE x == Answered(q, a)
<1>1. req' = [req EXCEPT ![q] = x] /\ NoAudit
  BY DEF Reply
<1>2. /\ x \in RequestStates /\ FitRequest(x)
      /\ x.stage = "done" \/ x.entries = req[q].entries
  BY AnsweredIs
<1> HIDE DEF x
<1>3. QED BY <1>1, <1>2, RequestGoesOn

LEMMA CollectedFits ==
  ASSUME FilterInv, NEW q \in Requests, Collected(q)
  PROVE  FilterInv'
<1>1. req[q].answer \in Responses /\ Stage(q) = "collecting"
  BY DEF FilterInv, FitRequest, Collected, Stage
<1>2. Reply(q, req[q].answer)
  BY DEF Collected, Reply
<1>3. QED BY <1>1, <1>2, ReplyFits

\* A runtime has begun to answer.
LEMMA RelayFits ==
  ASSUME FilterInv, NEW q \in Requests, Stage(q) = "routing",
         NEW a \in Responses, Relay(q, a)
  PROVE  FilterInv'
<1>1. req[q] \in RequestStates /\ FitRequest(req[q])
  BY DEF FilterInv, FilterTypes
<1>2. CASE req[q].chain = <<>>
  <2> DEFINE x == Ended(q, a)
  <2>1. req' = [req EXCEPT ![q] = x] /\ NoAudit
    BY <1>2 DEF Relay, FilterInv, FilterTypes
  <2>2. "pii-redact" \notin ToSet(req[q].chain)
    BY <1>2 DEF ToSet
  <2>3. x \in RequestStates /\ FitRequest(x) /\ x.stage = "done"
    BY <2>2, EndedIs
  <2> HIDE DEF x
  <2>4. QED BY <2>1, <2>3, RequestGoesOn
<1>3. CASE req[q].chain # <<>>
  <2> DEFINE x == [req[q] EXCEPT !.stage = "collecting", !.answer = a]
  <2>1. req' = [req EXCEPT ![q] = x] /\ NoAudit
    BY <1>3 DEF Relay, FilterInv, FilterTypes
  <2>2. x \in RequestStates /\ x.stage = "collecting" /\ x.answer = a
    BY <1>1 DEF RequestStates
  <2>3. /\ x.entries = req[q].entries /\ x.chain = req[q].chain /\ x.got = req[q].got
        /\ x.sent = req[q].sent /\ x.unsent = req[q].unsent
    BY <1>1 DEF RequestStates
  <2> HIDE DEF x
  <2>4. FitRequest(x)
    BY <1>1, <2>2, <2>3 DEF FitRequest, Stage
  <2>5. QED BY <2>1, <2>2, <2>3, <2>4, RequestGoesOn
<1>4. QED BY <1>2, <1>3

\* A request goes on to the key check, and from there to the provider.
LEMMA AuthenticateFits ==
  ASSUME FilterInv, NEW q \in Requests, Authenticate(q)
  PROVE  FilterInv'
<1> DEFINE x == [req[q] EXCEPT !.stage = "routing", !.ext = req[q].key]
<1>1. req[q] \in RequestStates /\ FitRequest(req[q]) /\ req[q].stage = "inner"
  BY DEF FilterInv, FilterTypes, Authenticate, Stage
<1>2. req' = [req EXCEPT ![q] = x] /\ NoAudit
  BY DEF Authenticate, FilterInv, FilterTypes
<1>3. x \in RequestStates /\ x.stage = "routing"
  BY <1>1 DEF RequestStates
<1>4. /\ x.entries = req[q].entries /\ x.chain = req[q].chain /\ x.got = req[q].got
      /\ x.sent = req[q].sent /\ x.unsent = req[q].unsent /\ req[q].unsent = 0
  BY <1>1 DEF RequestStates, Authenticate, AllSent
<1> HIDE DEF x
<1>5. FitRequest(x)
  BY <1>1, <1>3, <1>4 DEF FitRequest
<1>6. QED BY <1>1, <1>2, <1>3, <1>4, <1>5, RequestGoesOn DEF Stage

\* A request comes, with the chain of the moment.
LEMMA EnterFits ==
  ASSUME FilterInv, NEW q \in Requests, NEW b \in Bodies, NEW k \in KeyPolicies, Enter(q, b, k)
  PROVE  FilterInv'
<1> DEFINE x == [req[q] EXCEPT !.stage = "reading", !.chain = chain, !.body = b, !.key = k]
<1>1. req[q] \in RequestStates /\ FitRequest(req[q]) /\ req[q].stage = "idle"
  BY DEF FilterInv, FilterTypes, Enter, Stage
<1>2. req' = [req EXCEPT ![q] = x] /\ NoAudit
  BY DEF Enter
<1>3. x \in RequestStates /\ x.stage = "reading" /\ x.body = b
  <2>1. chain \in Seq(ToSet(Order)) /\ k \in Policies
    BY DEF FilterInv, FilterTypes, Policies
  <2>2. QED BY <1>1, <2>1 DEF RequestStates
<1>4. x.entries = req[q].entries /\ x.got = req[q].got /\ x.unsent = req[q].unsent
  BY <1>1 DEF RequestStates
<1> HIDE DEF x
<1>5. req[q].got = None /\ req[q].unsent = 0
  BY <1>1 DEF FitRequest
<1>6. FitRequest(x)
  BY <1>3, <1>4, <1>5 DEF FitRequest, CleanAnswer
<1>7. QED BY <1>1, <1>2, <1>3, <1>4, <1>6, RequestGoesOn DEF Stage

\* A request ends: it is too large, its answer breaks off or is passed on, or its
\* client is gone.
LEMMA EndFits ==
  ASSUME FilterInv, NEW q \in Requests,
         TooLarge(q) \/ AnswerBreaks(q) \/ ClientLeaves(q) \/ Return(q)
  PROVE  FilterInv'
<1>1. FitRequest(req[q])
  BY DEF FilterInv
<1>2. PICK got \in {Failure("413"), Failure("502"), None, req[q].answer} :
        /\ req' = [req EXCEPT ![q] = Ended(q, got)] /\ NoAudit
        /\ got = req[q].answer => got \in {Failure("413"), Failure("502"), None} \/ Return(q)
  BY DEF TooLarge, AnswerBreaks, ClientLeaves, Return
<1>3. /\ got \in Responses \cup {None}
      /\ "pii-redact" \in ToSet(req[q].chain) => CleanAnswer(got)
  <2>1. CASE got = None
    BY <2>1 DEF CleanAnswer
  <2>2. CASE got \in {Failure("413"), Failure("502")}
    BY <2>2, ErrorsAre
  <2>3. CASE Return(q) /\ got = req[q].answer
    BY <1>1, <2>3 DEF Return, FitRequest, Stage
  <2>4. QED BY <1>2, <2>1, <2>2, <2>3
<1> DEFINE x == Ended(q, got)
<1>4. x \in RequestStates /\ FitRequest(x) /\ x.stage = "done"
  BY <1>3, EndedIs
<1>5. req' = [req EXCEPT ![q] = x]
  BY <1>2
<1> HIDE DEF x
<1>6. QED BY <1>2, <1>4, <1>5, RequestGoesOn

\* A request without filters, or without JSON, goes by.
LEMMA PassByFits ==
  ASSUME FilterInv, NEW q \in Requests, PassBy(q)
  PROVE  FilterInv'
<1> DEFINE x == [req[q] EXCEPT !.stage = "inner", !.chain = <<>>, !.sent = req[q].body.text]
<1>1. req[q] \in RequestStates /\ FitRequest(req[q]) /\ req[q].stage = "reading"
  BY DEF FilterInv, FilterTypes, PassBy, Stage
<1>2. req' = [req EXCEPT ![q] = x] /\ NoAudit
  BY DEF PassBy
<1>3. req[q].body.text \in SUBSET Kinds
  <2>1. req[q].body \in Bodies
    BY <1>1 DEF FitRequest
  <2>2. QED BY <2>1, TextsAreKnown
<1>4. x \in RequestStates /\ x.stage = "inner" /\ x.chain = <<>>
  <2> DEFINE none == <<>>
  <2>1. none \in Seq(ToSet(Order))
    OBVIOUS
  <2> HIDE DEF none
  <2>2. /\ [req[q] EXCEPT !.stage = "inner", !.chain = none, !.sent = req[q].body.text]
             \in RequestStates
        /\ [req[q] EXCEPT !.stage = "inner", !.chain = none, !.sent = req[q].body.text].chain = none
        /\ [req[q] EXCEPT !.stage = "inner", !.chain = none, !.sent = req[q].body.text].stage = "inner"
    BY <1>1, <1>3, <2>1 DEF RequestStates
  <2>3. QED BY <2>2 DEF none
<1>5. x.entries = req[q].entries /\ x.got = req[q].got
  BY <1>1 DEF RequestStates
<1> HIDE DEF x
<1>6. FitRequest(x)
  <2>1. ToSet(<<>>) = {}
    BY DEF ToSet
  <2>2. QED BY <1>1, <1>4, <1>5, <2>1 DEF FitRequest
<1>7. QED BY <1>1, <1>2, <1>4, <1>5, <1>6, RequestGoesOn DEF Stage

\* An entry of a request is put into the channel, if there is room for it.
LEMMA SendFits ==
  ASSUME FilterInv, NEW q \in Requests, SendEntry(q)
  PROVE  FilterInv'
<1> DEFINE e == req[q].entries
           x == [req[q] EXCEPT !.unsent = req[q].unsent - 1, !.entries = e + 1]
           m == IF Len(channel) < ChannelCap THEN 1 ELSE 0
           one == Entry(q, e + 1)
<1>1. req[q] \in RequestStates /\ FitRequest(req[q]) /\ req[q].unsent > 0
  BY DEF FilterInv, FilterTypes, SendEntry
<1>2. /\ req' = [req EXCEPT ![q] = x] /\ UNCHANGED <<enabled, chain, log>>
      /\ channel' = IF m = 1 THEN Append(channel, one) ELSE channel
      /\ lost' = IF m < 1 THEN lost \cup {q} ELSE lost
  <2>1. req' = [req EXCEPT ![q] = x]
    BY DEF SendEntry, FilterInv, FilterTypes
  <2>2. CASE Len(channel) < ChannelCap
    <3>1. m = 1
      BY <2>2
    <3>2. UNCHANGED <<enabled, chain, log>> /\ channel' = Append(channel, one) /\ lost' = lost
      BY <2>2 DEF SendEntry
    <3> HIDE DEF m, one, x
    <3>3. QED BY <2>1, <3>1, <3>2
  <2>3. CASE ~(Len(channel) < ChannelCap)
    <3>1. m = 0
      BY <2>3
    <3>2. UNCHANGED <<enabled, chain, log>> /\ channel' = channel /\ lost' = lost \cup {q}
      BY <2>3 DEF SendEntry
    <3> HIDE DEF m, one, x
    <3>3. QED BY <2>1, <3>1, <3>2
  <2>4. QED BY <2>2, <2>3
<1>3. /\ x \in RequestStates /\ x.entries = e + 1 /\ e \in Nat
      /\ x.stage = req[q].stage /\ x.body = req[q].body /\ x.answer = req[q].answer
      /\ x.got = req[q].got /\ x.chain = req[q].chain /\ x.sent = req[q].sent
  <2>1. req[q].unsent - 1 \in Nat /\ e + 1 \in Nat /\ e \in Nat
    BY <1>1 DEF RequestStates
  <2> HIDE DEF e
  <2>2. QED BY <1>1, <2>1 DEF RequestStates
<1> HIDE DEF x
<1>4. FitRequest(x)
  BY <1>1, <1>3 DEF FitRequest
<1>5. /\ req' \in [Requests -> RequestStates] /\ req'[q] = x
      /\ \A p \in Requests \ {q} : req'[p] = req[p]
      /\ \A p \in Requests : req[p].entries \in Nat
  BY <1>2, <1>3 DEF FilterInv, FilterTypes, RequestStates
<1>6. /\ channel \in Seq(AuditEntries) /\ log \in Seq(AuditEntries) /\ Len(channel) \in Nat
      /\ Len(channel) <= ChannelCap /\ ChannelCap \in Nat
  BY CapsArePositive DEF FilterInv, FilterTypes
<1>7. one = [req |-> q, n |-> e + 1] /\ one \in AuditEntries
  BY <1>3 DEF Entry, AuditEntries
<1> HIDE DEF one, e
<1>8. m \in 0..1 /\ (m = 1 => Len(channel) < ChannelCap)
  OBVIOUS
<1> HIDE DEF m
<1>9. channel' \in Seq(AuditEntries) /\ Len(channel') <= ChannelCap
  BY <1>2, <1>6, <1>7, <1>8, AppendProperties
<1> DEFINE t == Trail
           u == Trail'
<1>10. t = log \o channel /\ u = log \o channel'
  BY <1>2 DEF Trail
<1>11. t \in Seq(AuditEntries) /\ u \in Seq(AuditEntries)
  BY <1>6, <1>9, <1>10, ConcatProperties
<1> HIDE DEF t, u
<1>12. MoreEntries(t, u, q, e, m)
  <2>1. CASE m = 1
    <3>1. u = Append(t, one)
      <4>1. /\ channel \in Seq(AuditEntries) /\ log \in Seq(AuditEntries)
            /\ channel' = Append(channel, one)
        BY <1>2, <1>6, <2>1
      <4>2. QED BY <1>7, <1>10, <4>1
    <3>2. /\ Len(u) = Len(t) + 1 /\ u[Len(t) + 1] = one /\ Len(t) \in Nat
          /\ \A i \in 1..Len(t) : u[i] = t[i]
      BY <1>7, <1>11, <3>1, AppendProperties
    <3>3. QED BY <1>7, <2>1, <3>2 DEF MoreEntries
  <2>2. CASE m = 0
    <3>1. u = t
      BY <1>2, <1>10, <2>2
    <3>2. QED BY <1>11, <2>2, <3>1 DEF MoreEntries
  <2>3. QED BY <1>8, <2>1, <2>2
<1>13. Fits(t, lost, req)
  BY DEF FilterInv, t
<1>14. Fits(u, lost', req')
  <2> DEFINE l2 == lost'
             r2 == req'
  <2>1. l2 = IF m < 1 THEN lost \cup {q} ELSE lost
    BY <1>2
  <2>2. CASE Stage(q) # "done"
    <3>1. HasLeft(req, r2, q, e, 1)
      BY <1>3, <1>5, <2>2 DEF Stage, HasLeft, e
    <3>2. e \in Nat /\ 1 \in Nat
      BY <1>3
    <3> HIDE DEF l2, r2
    <3>3. Fits(u, l2, r2)
      BY <1>5, <1>8, <1>11, <1>12, <1>13, <2>1, <3>1, <3>2, GoesOn
    <3>4. QED BY <3>3 DEF l2, r2
  <2>3. CASE Stage(q) = "done"
    BY <1>1, <2>3 DEF FitRequest, Stage
  <2>4. QED BY <2>2, <2>3
<1>15. FilterTypes'
  BY <1>2, <1>5, <1>6, <1>9 DEF FilterInv, FilterTypes
<1>16. \A p \in Requests : FitRequest(req'[p])
  BY <1>4, <1>5 DEF FilterInv
<1>17. QED BY <1>14, <1>15, <1>16 DEF FilterInv, u

\* The request is filtered.
LEMMA FilterRequestFits ==
  ASSUME FilterInv, NEW q \in Requests, FilterRequest(q)
  PROVE  FilterInv'
<1> DEFINE c == Effective(q)
           r == ApplyRequest(c, req[q].body.text)
           x == [req[q] EXCEPT !.stage = "inner", !.chain = c, !.sent = r.text, !.unsent = r.n]
<1>1. req[q] \in RequestStates /\ FitRequest(req[q]) /\ req[q].stage = "reading"
  BY DEF FilterInv, FilterTypes, FilterRequest, Stage
<1>2. req' = [req EXCEPT ![q] = x] /\ NoAudit
  BY DEF FilterRequest
<1>3. c \in Seq(ToSet(Order))
  <2>1. req[q].chain \in Seq(ToSet(Order))
    BY <1>1 DEF RequestStates
  <2>2. QED BY <2>1, KeptIs DEF Effective, FilterByIds
<1>4. req[q].body.text \in SUBSET Kinds
  <2>1. req[q].body \in Bodies
    BY <1>1 DEF FitRequest
  <2>2. QED BY <2>1, TextsAreKnown
<1> HIDE DEF c
<1>5. /\ r.text \subseteq req[q].body.text /\ r.n \in Nat
      /\ "pii-redact" \in ToSet(c) => "personal" \notin r.text
  BY <1>3, RequestComesTo
<1> HIDE DEF r
<1>6. r.text \in SUBSET Kinds
  BY <1>4, <1>5
<1>7. x \in RequestStates
  BY <1>1, <1>3, <1>5, <1>6 DEF RequestStates
<1>8. /\ x.stage = "inner" /\ x.chain = c /\ x.sent = r.text /\ x.entries = req[q].entries
      /\ x.got = req[q].got
  BY <1>1 DEF RequestStates
<1>9. req[q].got = None
  BY <1>1 DEF FitRequest
<1> HIDE DEF x
<1>10. FitRequest(x)
  BY <1>5, <1>8, <1>9 DEF FitRequest, CleanAnswer
<1>11. Stage(q) # "done"
  BY <1>1 DEF Stage
<1>12. QED BY <1>2, <1>7, <1>8, <1>10, <1>11, RequestGoesOn

\* The task behind the channel takes an entry into the log, which forgets its
\* oldest one when it is full.
LEMMA ReceiveFits ==
  ASSUME FilterInv, ReceiveAudit
  PROVE  FilterInv'
<1>1. /\ channel \in Seq(AuditEntries) /\ log \in Seq(AuditEntries) /\ channel # <<>>
      /\ Len(channel) \in Nat /\ Len(log) \in Nat
      /\ LogCap \in Nat \ {0} /\ Len(channel) <= ChannelCap /\ ChannelCap \in Nat
  BY CapsArePositive DEF FilterInv, FilterTypes, ReceiveAudit
<1>2. /\ log' = Push(log, Head(channel)) /\ channel' = Tail(channel)
      /\ req' = req /\ lost' = lost /\ chain' = chain
  BY DEF ReceiveAudit
<1>3. /\ Head(channel) \in AuditEntries /\ Head(channel) = channel[1]
      /\ channel' \in Seq(AuditEntries) /\ Len(channel') = Len(channel) - 1
      /\ \A i \in 1..Len(channel') : channel'[i] = channel[i+1]
  BY <1>1, <1>2, HeadTailProperties
<1> DEFINE h == Head(channel)
           t == Trail
           u == Trail'
<1>4. t = log \o channel /\ u = log' \o channel'
  BY DEF Trail
<1> HIDE DEF h
<1>5. log' \in Seq(AuditEntries)
  BY <1>1, <1>2, <1>3, HeadTailProperties, AppendProperties DEF Push, h
<1>6. /\ t \in Seq(AuditEntries) /\ u \in Seq(AuditEntries)
      /\ Len(t) = Len(log) + Len(channel) /\ Len(u) = Len(log') + Len(channel')
      /\ \A i \in 1..Len(t) : t[i] = IF i <= Len(log) THEN log[i] ELSE channel[i - Len(log)]
      /\ \A i \in 1..Len(u) : u[i] = IF i <= Len(log') THEN log'[i] ELSE channel'[i - Len(log')]
  BY <1>1, <1>3, <1>4, <1>5, ConcatProperties
<1> HIDE DEF t, u
<1>7. CASE Len(log) >= LogCap
  <2>1. /\ Len(log') = Len(log) /\ log'[Len(log)] = channel[1]
        /\ \A i \in 1..(Len(log) - 1) : log'[i] = log[i+1]
    <3> DEFINE rest == Tail(log)
    <3>1. log # <<>> /\ Len(log) >= 1
      BY <1>1, <1>7
    <3>2. /\ rest \in Seq(AuditEntries) /\ Len(rest) = Len(log) - 1
          /\ \A i \in 1..(Len(log) - 1) : rest[i] = log[i+1]
      BY <1>1, <3>1, HeadTailProperties
    <3>3. log' = Append(rest, channel[1])
      BY <1>2, <1>3, <1>7 DEF Push
    <3> HIDE DEF rest
    <3>4. QED BY <1>1, <1>3, <3>1, <3>2, <3>3, AppendProperties
  <2>2. Len(t) = Len(u) + 1
    BY <1>1, <1>3, <1>6, <2>1
  <2>3. ASSUME NEW i \in 1..Len(u) PROVE u[i] = t[i+1]
    <3>1. i + 1 \in 1..Len(t) /\ Len(log) >= 1
      BY <1>1, <1>6, <1>7, <2>2
    <3>2. CASE i < Len(log)
      BY <1>1, <1>6, <2>1, <3>1, <3>2
    <3>3. CASE i = Len(log)
      BY <1>1, <1>6, <2>1, <3>1, <3>3
    <3>4. CASE i > Len(log)
      <4>1. i - Len(log) \in 1..Len(channel') /\ (i + 1) - Len(log) = (i - Len(log)) + 1
        BY <1>1, <1>3, <1>6, <2>1, <3>4
      <4>2. u[i] = channel'[i - Len(log)] /\ t[i+1] = channel[(i + 1) - Len(log)]
        BY <1>1, <1>6, <2>1, <3>1, <3>4
      <4>3. QED BY <1>3, <4>1, <4>2
    <3>5. QED BY <1>1, <3>2, <3>3, <3>4
  <2>4. \A q \in Requests : req[q].entries \in Nat
    BY DEF FilterInv, FilterTypes, RequestStates
  <2>5. Fits(t, lost, req)
    BY DEF FilterInv, t
  <2>6. Fits(u, lost, req)
    BY <1>6, <2>2, <2>3, <2>4, <2>5, ForgetsFirst
  <2>7. FilterTypes'
    BY <1>1, <1>2, <1>3, <1>5 DEF FilterInv, FilterTypes
  <2>8. QED BY <1>2, <2>6, <2>7 DEF FilterInv, u
<1>8. CASE Len(log) < LogCap
  <2>1. /\ Len(log') = Len(log) + 1 /\ log'[Len(log) + 1] = channel[1]
        /\ \A i \in 1..Len(log) : log'[i] = log[i]
    <3>1. log' = Append(log, channel[1])
      BY <1>1, <1>2, <1>3, <1>8 DEF Push
    <3>2. QED BY <1>1, <1>3, <3>1, AppendProperties
  <2>2. Len(t) = Len(u)
    BY <1>1, <1>3, <1>6, <2>1
  <2>3. ASSUME NEW i \in 1..Len(u) PROVE u[i] = t[i]
    <3>1. CASE i <= Len(log)
      <4>1. i \in 1..Len(t) /\ i \in 1..Len(log) /\ i <= Len(log')
        BY <1>1, <2>1, <2>2, <3>1
      <4>2. u[i] = log'[i] /\ t[i] = log[i]
        BY <1>6, <3>1, <4>1
      <4>3. QED BY <2>1, <4>1, <4>2
    <3>2. CASE i = Len(log) + 1
      <4>1. i \in 1..Len(t) /\ i <= Len(log') /\ ~(i <= Len(log)) /\ i - Len(log) = 1
        BY <1>1, <2>1, <2>2, <3>2
      <4>2. u[i] = log'[i] /\ t[i] = channel[1]
        BY <1>6, <4>1
      <4>3. QED BY <2>1, <3>2, <4>2
    <3>3. CASE i > Len(log) + 1
      <4>1. i - (Len(log) + 1) \in 1..Len(channel') /\ i - Len(log) = (i - (Len(log) + 1)) + 1
        BY <1>1, <1>3, <1>6, <2>1, <3>3
      <4>2. u[i] = channel'[i - (Len(log) + 1)] /\ t[i] = channel[i - Len(log)]
        BY <1>1, <1>6, <2>1, <2>2, <3>3
      <4>3. QED BY <1>3, <4>1, <4>2
    <3>4. QED BY <1>1, <3>1, <3>2, <3>3
  <2>4. u = t
    BY <1>6, <2>2, <2>3, SeqEqual
  <2>5. Fits(u, lost, req)
    BY <2>4 DEF FilterInv, t
  <2>6. FilterTypes'
    BY <1>1, <1>2, <1>3, <1>5 DEF FilterInv, FilterTypes
  <2>7. QED BY <1>2, <2>5, <2>6 DEF FilterInv, u
<1>9. QED BY <1>1, <1>7, <1>8

\* The filters of the beginning have seen nothing.
LEMMA FilterStarts == FilterInit => FilterInv
<1> SUFFICES ASSUME FilterInit PROVE FilterInv
  OBVIOUS
<1>1. Build(enabled) \in Seq(ToSet(Order))
  BY KeptIs, OrderIs DEF Build
<1>2. /\ req = [q \in Requests |-> NoRequest] /\ channel = <<>> /\ log = <<>>
      /\ chain = Build(enabled)
  BY DEF FilterInit
<1>3. FilterTypes
  BY <1>1, <1>2, NoRequestIs, CapsArePositive DEF FilterTypes
<1>4. \A q \in Requests : FitRequest(req[q])
  BY <1>2, NoRequestIs
<1>5. Trail = <<>>
  BY <1>2 DEF Trail
<1>6. Fits(Trail, lost, req)
  BY <1>5 DEF Fits, InOrder, NoGaps, UpToNow
<1>7. QED BY <1>3, <1>4, <1>6 DEF FilterInv

\* The provider is asked for requests that have passed the key check.
AskedWhenRouting ==
  \A q \in Requests : ask[q].stage \in {"read", "write", "list", "found"} => Stage(q) = "routing"

\* A request that is not asked for goes on, and another that is comes out of it.
LEMMA AskedStays ==
  ASSUME AskedWhenRouting, FilterTypes, RuntimeTypes, NEW q \in Requests, NEW x, NEW a,
         req' = [req EXCEPT ![q] = x], ask' = [ask EXCEPT ![q] = a],
         a.stage \in {"read", "write", "list", "found"} => x.stage = "routing"
  PROVE  AskedWhenRouting'
  BY CallersAreRequests DEF AskedWhenRouting, FilterTypes, RuntimeTypes, Stage

\* Every step keeps to that.
LEMMA AskedKept ==
  ASSUME AskedWhenRouting, FilterTypes, RuntimeTypes, [ProxyNext]_proxyVars
  PROVE  AskedWhenRouting'
<1>1. ASSUME NEW q \in Requests
      PROVE  /\ req = [req EXCEPT ![q] = req[q]] /\ ask = [ask EXCEPT ![q] = ask[q]]
             /\ ask[q].stage \in {"read", "write", "list", "found"} => req[q].stage = "routing"
  BY CallersAreRequests DEF FilterTypes, RuntimeTypes, AskedWhenRouting, Stage
<1>2. ASSUME req' = req, ask' = ask PROVE AskedWhenRouting'
  BY <1>2 DEF AskedWhenRouting, Stage
<1>3. ASSUME NEW q \in Requests, NEW x, req' = [req EXCEPT ![q] = x], ask' = ask,
             Stage(q) # "routing"
      PROVE  AskedWhenRouting'
  <2>1. ask' = [ask EXCEPT ![q] = ask[q]]
    BY <1>1, <1>3
  <2>2. ask[q].stage \notin {"read", "write", "list", "found"}
    BY <1>1, <1>3 DEF Stage
  <2>3. QED BY <1>3, <2>1, <2>2, AskedStays
<1>4. ASSUME NEW q \in Requests, NEW a, req' = req, ask' = [ask EXCEPT ![q] = a],
             Stage(q) = "routing" \/ a.stage \notin {"read", "write", "list", "found"}
      PROVE  AskedWhenRouting'
  <2>1. req' = [req EXCEPT ![q] = req[q]]
    BY <1>1, <1>4
  <2>2. QED BY <1>4, <2>1, AskedStays DEF Stage
<1>5. ASSUME NEW q \in Requests, NEW b \in Bodies, NEW k \in KeyPolicies,
             Enter(q, b, k), UNCHANGED runtimeVars
      PROVE  AskedWhenRouting'
  <2>1. PICK x : req' = [req EXCEPT ![q] = x]
    BY <1>5 DEF Enter
  <2>2. QED BY <1>3, <1>5, <2>1 DEF Enter, runtimeVars
<1>6. ASSUME NEW q \in Requests, BodyStep(q) \/ FilterStep(q), UNCHANGED runtimeVars
      PROVE  AskedWhenRouting'
  <2>1. CASE BodyStep(q) \/ Return(q)
    <3>1. Stage(q) \in {"reading", "collecting", "filtered"}
      BY <2>1 DEF BodyStep, TooLarge, PassBy, FilterRequest, AnswerBreaks, Collected, Return
    <3>2. PICK x : req' = [req EXCEPT ![q] = x]
      BY <2>1 DEF BodyStep, TooLarge, PassBy, FilterRequest, AnswerBreaks, Collected, Return
    <3>3. QED BY <1>3, <1>6, <3>1, <3>2 DEF runtimeVars
  <2>2. CASE SendEntry(q)
    <3> DEFINE x == [req[q] EXCEPT !.unsent = req[q].unsent - 1, !.entries = req[q].entries + 1]
    <3>1. req' = [req EXCEPT ![q] = x] /\ ask' = [ask EXCEPT ![q] = ask[q]]
      BY <1>1, <1>6, <2>2 DEF SendEntry, runtimeVars, FilterTypes
    <3>2. x.stage = req[q].stage
      <4>1. req[q] \in RequestStates
        BY DEF FilterTypes
      <4>2. QED BY <4>1 DEF RequestStates
    <3> HIDE DEF x
    <3>3. QED BY <1>1, <3>1, <3>2, AskedStays
  <2>3. QED BY <1>6, <2>1, <2>2 DEF FilterStep
<1>7. ASSUME NEW q \in Requests, RefuseKey(q) PROVE AskedWhenRouting'
  <2>1. PICK x : req' = [req EXCEPT ![q] = x]
    BY <1>7 DEF RefuseKey, Reply
  <2>2. QED BY <1>3, <1>7, <2>1 DEF RefuseKey, runtimeVars
<1>8. ASSUME NEW q \in Requests, Route(q) PROVE AskedWhenRouting'
  <2>1. PICK a : ask' = [ask EXCEPT ![q] = a]
    BY <1>8 DEF Route, AskFor
  <2> DEFINE x == [req[q] EXCEPT !.stage = "routing", !.ext = req[q].key]
  <2>2. req' = [req EXCEPT ![q] = x]
    BY <1>8 DEF Route, Authenticate, FilterTypes
  <2>3. x.stage = "routing"
    <3>1. req[q] \in RequestStates
      BY DEF FilterTypes
    <3>2. QED BY <3>1 DEF RequestStates
  <2> HIDE DEF x
  <2>4. QED BY <2>1, <2>2, <2>3, AskedStays
<1>9. ASSUME NEW q \in Requests, NoUpstream(q) \/ Upstream(q) PROVE AskedWhenRouting'
  <2>1. PICK x : req' = [req EXCEPT ![q] = x]
    BY <1>9 DEF NoUpstream, Upstream, Reply, Relay
  <2>2. ask' = [ask EXCEPT ![q] = NoAsk] /\ NoAsk.stage = "idle"
    BY <1>9 DEF NoUpstream, Upstream, NoAsk
  <2>3. QED BY <2>1, <2>2, AskedStays
<1>10. ASSUME NEW q \in Requests, AskStep(q), UNCHANGED filterVars PROVE AskedWhenRouting'
  <2>1. ask[q].stage \in {"read", "write", "list"}
    BY <1>10 DEF AskStep, Read, Lock, NextList, FillDone
  <2>2. Stage(q) = "routing"
    BY <1>1, <2>1 DEF Stage
  <2>3. PICK a : ask' = [ask EXCEPT ![q] = a]
    BY <1>10 DEF AskStep, Read, Lock, NextList, FillDone, Found
  <2>4. QED BY <1>4, <1>10, <2>2, <2>3 DEF filterVars
<1>11. ASSUME NEW q \in Requests, Leave(q) \/ TimesOut(q) PROVE AskedWhenRouting'
  <2>1. PICK x : req' = [req EXCEPT ![q] = x]
    BY <1>11 DEF Leave, ClientLeaves, TimesOut, Reply
  <2> DEFINE a == [ask[q] EXCEPT !.stage = "gone"]
  <2>2. ask' = [ask EXCEPT ![q] = a]
    BY <1>11 DEF Leave, TimesOut, Drop
  <2>3. a.stage = "gone"
    BY AsksAre, CallersAreRequests
  <2> HIDE DEF a
  <2>4. QED BY <2>1, <2>2, <2>3, AskedStays
<1>12. ASSUME NEW q \in Requests, Serve(q) PROVE AskedWhenRouting'
  BY <1>6, <1>7, <1>8, <1>9, <1>10, <1>12 DEF Serve
<1>13. ASSUME NEW p \in Switches, Toggle(p), UNCHANGED runtimeVars PROVE AskedWhenRouting'
  BY <1>2, <1>13 DEF Toggle, runtimeVars
<1>14. CASE ReceiveAudit /\ UNCHANGED runtimeVars
  BY <1>2, <1>14 DEF ReceiveAudit, runtimeVars
<1>15. ASSUME NEW n \in Restless, UserAct(n), UNCHANGED filterVars PROVE AskedWhenRouting'
  BY <1>2, <1>15 DEF UserAct, filterVars
<1>16. ASSUME NEW r, NEW m \in Models, PullModel(r, m) \/ RemoveModel(r, m), UNCHANGED filterVars
       PROVE  AskedWhenRouting'
  BY <1>2, <1>16 DEF PullModel, RemoveModel, filterVars
<1>17. CASE Expire /\ UNCHANGED filterVars
  BY <1>2, <1>17 DEF Expire, filterVars
<1>18. CASE UNCHANGED proxyVars
  BY <1>2, <1>18 DEF proxyVars, filterVars, runtimeVars
<1>19. QED
  BY <1>5, <1>6, <1>11, <1>12, <1>13, <1>14, <1>15, <1>16, <1>17, <1>18 DEF ProxyNext

\* Every step of the gateway keeps what holds of its filters.
LEMMA FilterKept ==
  ASSUME FilterInv, AskedWhenRouting, [ProxyNext]_proxyVars
  PROVE  FilterInv'
<1>1. CASE UNCHANGED filterVars
  BY <1>1 DEF filterVars, FilterInv, FilterTypes, Trail
<1>2. ASSUME NEW p \in Switches, Toggle(p) PROVE FilterInv'
  <2>1. chain' = Build(enabled') /\ UNCHANGED <<req, channel, log, lost>>
    BY <1>2 DEF Toggle
  <2>2. chain' \in Seq(ToSet(Order))
    BY <2>1, KeptIs, OrderIs DEF Build
  <2>3. QED BY <2>1, <2>2 DEF FilterInv, FilterTypes, Trail
<1>3. ASSUME NEW q \in Requests, Serve(q) PROVE FilterInv'
  <2>1. CASE FilterStep(q)
    BY <2>1, EndFits, SendFits DEF FilterStep
  <2>2. CASE RefuseKey(q)
    BY <2>2, ReplyFits, ErrorsAre DEF RefuseKey
  <2>3. CASE Route(q)
    BY <2>3, AuthenticateFits DEF Route
  <2>4. CASE NoUpstream(q) \/ Upstream(q)
    <3>1. Stage(q) = "routing"
      BY <2>4 DEF NoUpstream, Upstream, AskedWhenRouting
    <3>2. PICK a \in Responses : Reply(q, a) \/ Relay(q, a)
      BY <2>4, ErrorsAre, TextsAreKnown DEF NoUpstream, Upstream
    <3>3. QED BY <3>1, <3>2, ReplyFits, RelayFits
  <2>5. CASE AskStep(q) /\ UNCHANGED filterVars
    BY <1>1, <2>5
  <2>6. QED BY <1>3, <2>1, <2>2, <2>3, <2>4, <2>5 DEF Serve
<1>4. ASSUME NEW q \in Requests, Leave(q) \/ TimesOut(q) \/ BodyStep(q) PROVE FilterInv'
  <2>1. CASE Leave(q)
    BY <2>1, EndFits DEF Leave
  <2>2. CASE TimesOut(q)
    BY <2>2, ReplyFits, ErrorsAre DEF TimesOut
  <2>3. CASE BodyStep(q)
    BY <2>3, EndFits, PassByFits, FilterRequestFits, CollectedFits DEF BodyStep
  <2>4. QED BY <1>4, <2>1, <2>2, <2>3
<1>5. CASE UNCHANGED proxyVars
  BY <1>1, <1>5 DEF proxyVars
<1>6. QED
  BY <1>1, <1>2, <1>3, <1>4, <1>5, EnterFits, ReceiveFits DEF ProxyNext

ProxyInv == RuntimeInv /\ FilterInv /\ AskedWhenRouting

\* The invariant of the gateway as a proxy.
LEMMA ProxyInvCorrect == ProxySpec => []ProxyInv
<1>1. ProxyInit => ProxyInv
  <2> SUFFICES ASSUME ProxyInit PROVE ProxyInv
    OBVIOUS
  <2>1. \A q \in Requests : ask[q].stage = "idle"
    BY CallersAreRequests DEF ProxyInit, RuntimeInit, NoAsk
  <2>2. AskedWhenRouting
    BY <2>1 DEF AskedWhenRouting
  <2>3. QED BY <2>2, RuntimeStarts, FilterStarts DEF ProxyInit, ProxyInv
<1>2. ProxyInv /\ [ProxyNext]_proxyVars => ProxyInv'
  <2> SUFFICES ASSUME ProxyInv, [ProxyNext]_proxyVars PROVE ProxyInv'
    OBVIOUS
  <2>1. RuntimeInv /\ RuntimeTypes /\ FilterInv /\ FilterTypes /\ AskedWhenRouting
    BY DEF ProxyInv, RuntimeInv, FilterInv
  <2>2. QED BY <2>1, RuntimeStep, FilterKept, AskedKept DEF ProxyInv
<1>3. QED BY <1>1, <1>2, PTL DEF ProxySpec

\* The runtimes are asked at most once for every five seconds, however many
\* requests find the cache too old at the same time and whoever is dropped meanwhile.
THEOREM FilledOnce == ProxySpec => []OneFillPerExpiry
<1>1. ProxyInv => OneFillPerExpiry
  BY DEF ProxyInv, RuntimeInv, FillsAreCounted, OneFillPerExpiry
<1>2. QED BY <1>1, ProxyInvCorrect, PTL

\* No personal data passes a filter for them that was on when the request came,
\* in whatever order the filters are and however the switches are moved.
THEOREM NothingPersonal == ProxySpec => []NothingPersonalPasses
<1>1. ProxyInv => NothingPersonalPasses
  BY DEF ProxyInv, FilterInv, FitRequest, CleanAnswer, NothingPersonalPasses, Stage
<1>2. QED BY <1>1, ProxyInvCorrect, PTL

\* What the page shows of a request is in order, and has no gap but for entries
\* there was no room for.
THEOREM TrailComplete == ProxySpec => []AuditTrailIsComplete
<1>1. ProxyInv => AuditTrailIsComplete
  BY DEF ProxyInv, FilterInv, Fits, InOrder, NoGaps, AuditTrailIsComplete
<1>2. QED BY <1>1, ProxyInvCorrect, PTL
=============================================================================
