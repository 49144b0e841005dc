----------------------- MODULE RegistryFetcherProofs ------------------------
(***************************************************************************)
(* What holds of the catalog for every number of mirrors and publications: *)
(* nothing a refresh refused is shown, however refreshes overlap.          *)
(***************************************************************************)
EXTENDS RegistryFetcher, TLAPS

PC == {"idle", "check", "request", "put", "bump", "bundled", "verify",
       "signature", "mark", "swap", "failed"}

\* The types the invariants rest on.
Types ==
  /\ mirror \in [Tier -> Body]
  /\ signature \in [Tier -> Body]
  /\ up \in SUBSET Tier
  /\ rows \in [Tier -> SUBSET Row]
  /\ pc \in [Refresh -> PC]
  /\ tier \in [Refresh -> Tier]
  /\ cached \in [Refresh -> SUBSET Row]
  /\ answer \in [Refresh -> SUBSET Answer]
  /\ status \in [Refresh -> Status]
  /\ catalog \in [body : Body, status : Status]
  /\ signed \in SUBSET Body

\* The rows and answers that the actions build are rows and answers.
LEMMA Built ==
  /\ 0 \in Body
  /\ 1 \in Tier
  /\ \A row \in Row : FromRow(row) \in Answer
  /\ \A row \in Row, age \in Age : [row EXCEPT !.age = age] \in Row
  /\ \A row \in Row : [row EXCEPT !.mark = "verified"] \in Row
  /\ \A a \in Answer : [body |-> a.body, age |-> "fresh", mark |-> "unverified"] \in Row
  /\ \A b \in Body : [body |-> b, from |-> "network", mark |-> "unverified"] \in Answer
  /\ [body |-> 0, from |-> "bundled", mark |-> "verified"] \in Answer
<1>1. 0 \in Body /\ 1 \in Tier
  BY FetcherAssumption DEF Body, Tier
<1>2. QED
  BY <1>1 DEF FromRow, Answer, Row, Age, Mark, Origin

\* The types are kept by every step.
LEMMA TypesCorrect == Spec => []Types
<1>1. Init => Types
  BY Built DEF Init, Types, PC, Status
<1>2. Types /\ [Next]_vars => Types'
  <2> SUFFICES ASSUME Types, [Next]_vars PROVE Types'
    OBVIOUS
  <2> USE DEF Types, publisher
  <2>1. ASSUME NEW r \in Refresh, Step(r) PROVE Types'
    <3>1. CASE Begin(r) BY <3>1 DEF Begin, PC
    <3>2. CASE Check(r)
      <4> DEFINE fresh == {row \in rows[tier[r]] : row.age = "fresh"}
      <4>1. fresh \subseteq Row /\ rows[tier[r]] \ fresh \subseteq Row
        OBVIOUS
      <4>2. {FromRow(row) : row \in fresh} \subseteq Answer
        BY <4>1, Built
      <4>3. answer' = [answer EXCEPT ![r] = {FromRow(row) : row \in fresh}]
            /\ cached' = [cached EXCEPT ![r] = rows[tier[r]] \ fresh]
        BY <3>2 DEF Check
      <4>4. pc' \in [Refresh -> PC]
        BY <3>2 DEF Check, PC
      <4> HIDE DEF fresh
      <4>5. answer' \in [Refresh -> SUBSET Answer] /\ cached' \in [Refresh -> SUBSET Row]
        BY <4>1, <4>2, <4>3
      <4>6. QED BY <3>2, <4>4, <4>5 DEF Check
    <3>3. CASE Receive(r)
      <4>1. CASE mirror[tier[r]] \in Malformed BY <3>3, <4>1 DEF Receive, PC
      <4>2. CASE mirror[tier[r]] \notin Malformed
        BY <3>3, <4>2, Built DEF Receive, PC
      <4>3. QED BY <4>1, <4>2
    <3>4. CASE Put(r)
      <4>1. {[body |-> a.body, age |-> "fresh", mark |-> "unverified"] : a \in answer[r]}
              \subseteq Row
        BY Built
      <4>2. QED BY <3>4, <4>1 DEF Put, PC
    <3>5. CASE NotModified(r)
      <4>1. PICK row \in cached[r] : answer' = [answer EXCEPT ![r] = {FromRow(row)}]
        BY <3>5 DEF NotModified
      <4>2. FromRow(row) \in Answer
        BY Built
      <4>3. QED BY <3>5, <4>1, <4>2 DEF NotModified, PC
    <3>6. CASE Bump(r)
      <4>1. {[row EXCEPT !.age = "fresh"] : row \in rows[tier[r]]} \subseteq Row
        BY Built DEF Age
      <4>2. QED BY <3>6, <4>1 DEF Bump, PC
    <3>7. CASE Unreachable(r)
      <4>1. CASE tier[r] < NetworkTiers
        <5>1. tier[r] + 1 \in Tier
          <6>1. tier[r] \in 1..NetworkTiers
            BY DEF Tier
          <6>2. QED BY <4>1, <6>1, FetcherAssumption DEF Tier
        <5>2. tier' = [tier EXCEPT ![r] = tier[r] + 1] /\ pc' = [pc EXCEPT ![r] = "check"]
          BY <3>7, <4>1 DEF Unreachable
        <5>3. tier' \in [Refresh -> Tier] /\ pc' \in [Refresh -> PC]
          BY <5>1, <5>2 DEF PC
        <5>4. QED BY <3>7, <5>3 DEF Unreachable
      <4>2. CASE ~(tier[r] < NetworkTiers) BY <3>7, <4>2 DEF Unreachable, PC
      <4>3. QED BY <4>1, <4>2
    <3>8. CASE Bundled(r) BY <3>8, Built DEF Bundled, PC
    <3>16. CASE BundledMalformed(r) BY <3>16 DEF BundledMalformed, PC
    <3>9. CASE StaleCache(r)
      <4>1. CASE Freshest = {} BY <3>9, <4>1 DEF StaleCache, PC
      <4>2. CASE Freshest # {}
        <5>1. PICK t \in Freshest :
                /\ tier' = [tier EXCEPT ![r] = t]
                /\ answer' = [answer EXCEPT ![r] = {FromRow(row) : row \in rows[t]}]
                /\ pc' = [pc EXCEPT ![r] = "verify"]
          BY <3>9, <4>2 DEF StaleCache
        <5>2. t \in Tier
          BY DEF Freshest
        <5>3. {FromRow(row) : row \in rows[t]} \subseteq Answer
          BY <5>2, Built
        <5>4. QED BY <3>9, <5>1, <5>2, <5>3 DEF StaleCache, PC
      <4>3. QED BY <4>1, <4>2
    <3>10. CASE Verify(r)
      <4>1. pc' \in [Refresh -> PC] /\ status' \in [Refresh -> Status]
        BY <3>10 DEF Verify, Conclude, PC, Status
      <4>2. QED BY <3>10, <4>1 DEF Verify
    <3>11. CASE FetchSignature(r)
      <4>1. pc' \in [Refresh -> PC] /\ status' \in [Refresh -> Status]
        BY <3>11 DEF FetchSignature, Conclude, PC, Status
      <4>2. signed' \in SUBSET Body
        BY <3>11 DEF FetchSignature, Answer
      <4>3. QED BY <3>11, <4>1, <4>2 DEF FetchSignature
    <3>12. CASE MarkVerified(r)
      <4>1. {[row EXCEPT !.mark = "verified"] : row \in rows[tier[r]]} \subseteq Row
        BY Built
      <4>2. QED BY <3>12, <4>1 DEF MarkVerified, Conclude, PC, Status
    <3>13. CASE Swap(r)
      <4>1. catalog' \in [body : Body, status : Status]
        BY <3>13, Built DEF Swap, ReloadBundled, Answer, Status
      <4>2. QED BY <3>13, <4>1, Built DEF Swap, Return, PC, Status
    <3>14. CASE NotFetched(r)
      <4>1. catalog' \in [body : Body, status : Status]
        BY <3>14, Built DEF NotFetched, ReloadBundled, Status
      <4>2. QED BY <3>14, <4>1, Built DEF NotFetched, Return, PC, Status
    <3>15. QED
      BY <2>1, <3>1, <3>2, <3>3, <3>4, <3>5, <3>6, <3>7, <3>8, <3>9, <3>10, <3>11,
         <3>12, <3>13, <3>14, <3>16 DEF Step
  <2>2. ASSUME NEW t \in Tier, Environment(t) PROVE Types'
    <3>1. CASE Publish(t)
      BY <3>1, FetcherAssumption DEF Publish, Body
    <3>2. CASE Sign(t) BY <3>2 DEF Sign
    <3>3. CASE Outage(t)
      <4>1. up' \in SUBSET Tier BY <3>3 DEF Outage
      <4>2. QED BY <3>3, <4>1 DEF Outage
    <3>4. CASE Ageing(t)
      <4>1. PICK row \in rows[t] : rows' = [rows EXCEPT ![t] =
              {[row EXCEPT !.age = IF row.age = "fresh" THEN "stale" ELSE "dead"]}]
        BY <3>4 DEF Ageing
      <4>2. [row EXCEPT !.age = IF row.age = "fresh" THEN "stale" ELSE "dead"] \in Row
        BY Built DEF Age
      <4>3. QED BY <3>4, <4>1, <4>2 DEF Ageing
    <3>5. QED BY <2>2, <3>1, <3>2, <3>3, <3>4 DEF Environment
  <2>3. CASE UNCHANGED vars BY <2>3 DEF vars
  <2>4. QED BY <2>1, <2>2, <2>3 DEF Next
<1>3. QED
  BY <1>1, <1>2, PTL DEF Spec

-----------------------------------------------------------------------------
\* A tier has one row at most, and a refresh one answer.
Single ==
  /\ \A t \in Tier : \A x, y \in rows[t] : x = y
  /\ \A r \in Refresh : \A a, b \in answer[r] : a = b

\* Nothing a refresh holds, and nothing in the cache, is malformed; what comes
\* from the bundle is the bundled body.
WellFormed ==
  /\ \A t \in Tier : \A row \in rows[t] : row.body \notin Malformed
  /\ \A r \in Refresh : \A row \in cached[r] : row.body \notin Malformed
  /\ \A r \in Refresh : \A a \in answer[r] :
       a.body \notin Malformed /\ (a.from = "bundled" => a.body = 0)

\* Where a refresh is about to swap, its verification has been concluded, and
\* concluded as "bundled" only for the bundled body.
Concluded ==
  \A r \in Refresh : pc[r] = "swap" =>
    /\ status[r] \in {"verified", "failed", "missing", "disabled", "bundled"}
    /\ status[r] = "bundled" => \A a \in answer[r] : a.body = 0

\* Rows and answers are replaced, never added.
LEMMA SingleKept ==
  ASSUME Types, Single, [Next]_vars
  PROVE  Single'
<1> USE DEF Types, Single
<1>1. ASSUME NEW r \in Refresh, Step(r) PROVE Single'
  <2>1. CASE Check(r)
    <3>1. \A a, b \in answer'[r] : a = b
      BY <2>1 DEF Check
    <3>2. QED BY <2>1, <3>1 DEF Check
  <2>2. CASE Put(r)
    <3>1. \A x, y \in rows'[tier[r]] : x = y
      BY <2>2 DEF Put
    <3>2. QED BY <2>2, <3>1 DEF Put
  <2>3. CASE Receive(r) BY <2>3 DEF Receive
  <2>4. CASE NotModified(r)
    <3>1. PICK row \in cached[r] : answer' = [answer EXCEPT ![r] = {FromRow(row)}]
      BY <2>4 DEF NotModified
    <3>2. QED BY <2>4, <3>1 DEF NotModified
  <2>5. CASE Bump(r)
    <3>1. \A x, y \in rows'[tier[r]] : x = y
      BY <2>5 DEF Bump
    <3>2. QED BY <2>5, <3>1 DEF Bump
  <2>6. CASE Bundled(r) BY <2>6 DEF Bundled
  <2>7. CASE StaleCache(r)
    <3>1. CASE Freshest = {} BY <2>7, <3>1 DEF StaleCache
    <3>2. CASE Freshest # {}
      <4>1. PICK t \in Freshest : answer' = [answer EXCEPT ![r] = {FromRow(row) : row \in rows[t]}]
        BY <2>7, <3>2 DEF StaleCache
      <4>2. t \in Tier
        BY DEF Freshest
      <4>3. \A a, b \in answer'[r] : a = b
        BY <4>1, <4>2
      <4>4. QED BY <2>7, <4>1, <4>3 DEF StaleCache
    <3>3. QED BY <3>1, <3>2
  <2>8. CASE MarkVerified(r)
    <3>1. \A x, y \in rows'[tier[r]] : x = y
      BY <2>8 DEF MarkVerified
    <3>2. QED BY <2>8, <3>1 DEF MarkVerified
  <2>9. CASE Begin(r) \/ Unreachable(r) \/ BundledMalformed(r) \/ Verify(r) \/ FetchSignature(r)
    BY <2>9 DEF Begin, Unreachable, BundledMalformed, Verify, FetchSignature
  <2>10. CASE Swap(r) \/ NotFetched(r) BY <2>10 DEF Swap, NotFetched, Return
  <2>11. QED
    BY <1>1, <2>1, <2>2, <2>3, <2>4, <2>5, <2>6, <2>7, <2>8, <2>9, <2>10 DEF Step
<1>2. ASSUME NEW t \in Tier, Environment(t) PROVE Single'
  <2>1. CASE Publish(t) \/ Sign(t) \/ Outage(t)
    BY <2>1 DEF Publish, Sign, Outage
  <2>2. CASE Ageing(t) BY <2>2 DEF Ageing
  <2>3. QED BY <1>2, <2>1, <2>2 DEF Environment
<1>3. CASE UNCHANGED vars BY <1>3 DEF vars
<1>4. QED BY <1>1, <1>2, <1>3 DEF Next

\* No step lets a malformed body in.
LEMMA WellFormedKept ==
  ASSUME Types, WellFormed, [Next]_vars
  PROVE  WellFormed'
<1> USE DEF Types, WellFormed
<1>1. ASSUME NEW r \in Refresh, Step(r) PROVE WellFormed'
  <2>1. CASE Begin(r) BY <2>1 DEF Begin
  <2>2. CASE Check(r)
    <3> DEFINE fresh == {row \in rows[tier[r]] : row.age = "fresh"}
    <3>1. /\ answer' = [answer EXCEPT ![r] = {FromRow(row) : row \in fresh}]
          /\ cached' = [cached EXCEPT ![r] = rows[tier[r]] \ fresh]
          /\ rows' = rows
      BY <2>2 DEF Check
    <3>2. \A row \in fresh : row \in rows[tier[r]]
      OBVIOUS
    <3> HIDE DEF fresh
    <3>3. \A a \in answer'[r] : a.body \notin Malformed /\ a.from # "bundled"
      BY <3>1, <3>2 DEF FromRow
    <3>4. \A row \in cached'[r] : row.body \notin Malformed
      BY <3>1
    <3>5. \A q \in Refresh \ {r} : answer'[q] = answer[q] /\ cached'[q] = cached[q]
      BY <3>1
    <3>6. QED BY <3>1, <3>3, <3>4, <3>5
  <2>3. CASE Receive(r)
    <3>1. CASE mirror[tier[r]] \in Malformed BY <2>3, <3>1 DEF Receive
    <3>2. CASE mirror[tier[r]] \notin Malformed BY <2>3, <3>2 DEF Receive
    <3>3. QED BY <3>1, <3>2
  <2>4. CASE Put(r) BY <2>4 DEF Put
  <2>5. CASE NotModified(r)
    <3>1. PICK row \in cached[r] : answer' = [answer EXCEPT ![r] = {FromRow(row)}]
      BY <2>5 DEF NotModified
    <3>2. \A a \in answer'[r] : a.body \notin Malformed /\ a.from # "bundled"
      BY <3>1 DEF FromRow
    <3>3. QED BY <2>5, <3>1, <3>2 DEF NotModified
  <2>6. CASE Bump(r)
    <3>1. \A row \in rows'[tier[r]] : row.body \notin Malformed
      BY <2>6 DEF Bump, Row
    <3>2. QED BY <2>6, <3>1 DEF Bump
  <2>7. CASE Unreachable(r) BY <2>7 DEF Unreachable
  <2>8. CASE Bundled(r)
    <3>1. 0 \notin Malformed
      BY FetcherAssumption
    <3>2. QED BY <2>8, <3>1 DEF Bundled
  <2>16. CASE BundledMalformed(r) BY <2>16 DEF BundledMalformed
  <2>9. CASE StaleCache(r)
    <3>1. CASE Freshest = {} BY <2>9, <3>1 DEF StaleCache
    <3>2. CASE Freshest # {}
      <4>1. PICK t \in Freshest : answer' = [answer EXCEPT ![r] = {FromRow(row) : row \in rows[t]}]
        BY <2>9, <3>2 DEF StaleCache
      <4>2. t \in Tier
        BY DEF Freshest
      <4>3. \A a \in answer'[r] : a.body \notin Malformed /\ a.from # "bundled"
        BY <4>1, <4>2 DEF FromRow
      <4>4. QED BY <2>9, <4>1, <4>3 DEF StaleCache
    <3>3. QED BY <3>1, <3>2
  <2>10. CASE Verify(r) BY <2>10 DEF Verify
  <2>11. CASE FetchSignature(r) BY <2>11 DEF FetchSignature
  <2>12. CASE MarkVerified(r)
    <3>1. \A row \in rows'[tier[r]] : row.body \notin Malformed
      BY <2>12 DEF MarkVerified, Row
    <3>2. QED BY <2>12, <3>1 DEF MarkVerified
  <2>13. CASE Swap(r) BY <2>13 DEF Swap, Return
  <2>14. CASE NotFetched(r) BY <2>14 DEF NotFetched, Return
  <2>15. QED
    BY <1>1, <2>1, <2>2, <2>3, <2>4, <2>5, <2>6, <2>7, <2>8, <2>9, <2>10, <2>11,
       <2>12, <2>13, <2>14, <2>16 DEF Step
<1>2. ASSUME NEW t \in Tier, Environment(t) PROVE WellFormed'
  <2>1. CASE Publish(t) \/ Sign(t) \/ Outage(t)
    BY <2>1 DEF Publish, Sign, Outage
  <2>2. CASE Ageing(t)
    <3>1. \A row \in rows'[t] : row.body \notin Malformed
      BY <2>2 DEF Ageing, Row
    <3>2. QED BY <2>2, <3>1 DEF Ageing
  <2>3. QED BY <1>2, <2>1, <2>2 DEF Environment
<1>3. CASE UNCHANGED vars BY <1>3 DEF vars
<1>4. QED BY <1>1, <1>2, <1>3 DEF Next

\* A refresh reaches its swap only by concluding.
LEMMA ConcludedKept ==
  ASSUME Types, Single, WellFormed, Concluded, [Next]_vars
  PROVE  Concluded'
<1> USE DEF Types, WellFormed, Concluded, Single
<1>1. ASSUME NEW r \in Refresh, Step(r) PROVE Concluded'
  <2>1. ASSUME NEW q \in Refresh, q # r
        PROVE  pc'[q] = pc[q] /\ status'[q] = status[q] /\ answer'[q] = answer[q]
    BY <1>1, <2>1 DEF Step, Begin, Check, Receive, Put, NotModified, Bump, Unreachable,
       Bundled, BundledMalformed, StaleCache, Verify, FetchSignature, MarkVerified, Swap, NotFetched,
       Conclude, Return
  <2>2. CASE Verify(r)
    <3>1. PICK a \in answer[r] :
            IF a.from = "bundled" THEN Conclude(r, "bundled")
            ELSE IF a.from = "cache" /\ a.mark = "verified" THEN Conclude(r, "verified")
            ELSE IF ~HasKey THEN Conclude(r, "disabled")
            ELSE pc' = [pc EXCEPT ![r] = "signature"] /\ UNCHANGED status
      BY <2>2 DEF Verify
    <3>2. answer' = answer
      BY <2>2 DEF Verify
    <3>3. QED BY <2>1, <3>1, <3>2 DEF Conclude
  <2>3. CASE FetchSignature(r) BY <2>1, <2>3 DEF FetchSignature, Conclude
  <2>4. CASE MarkVerified(r) BY <2>1, <2>4 DEF MarkVerified, Conclude
  <2>5. CASE ~Verify(r) /\ ~FetchSignature(r) /\ ~MarkVerified(r)
    <3>1. pc'[r] # "swap"
      BY <1>1, <2>5 DEF Step, Begin, Check, Receive, Put, NotModified, Bump, Unreachable,
         Bundled, BundledMalformed, StaleCache, Swap, NotFetched, Return
    <3>2. QED BY <2>1, <3>1
  <2>6. QED BY <2>2, <2>3, <2>4, <2>5
<1>2. ASSUME NEW t \in Tier, Environment(t) PROVE Concluded'
  BY <1>2 DEF Environment, Publish, Sign, Outage, Ageing
<1>3. CASE UNCHANGED vars BY <1>3 DEF vars
<1>4. QED BY <1>1, <1>2, <1>3 DEF Next

-----------------------------------------------------------------------------
LEMMA AcceptableStep ==
  ASSUME Types, Single, WellFormed, Concluded, ShownIsAcceptable, [Next]_vars
  PROVE  ShownIsAcceptable'
<1> USE DEF ShownIsAcceptable
<1>1. ReloadBundled => ShownIsAcceptable'
  BY FetcherAssumption DEF ReloadBundled
<1>2. ASSUME NEW r \in Refresh, Swap(r) PROVE ShownIsAcceptable'
  <2>1. PICK a \in answer[r] :
          IF status[r] = "failed" \/ a.body \in NoCatalog THEN ReloadBundled
          ELSE catalog' = [body |-> a.body, status |-> status[r]]
    BY <1>2 DEF Swap
  <2>2. CASE status[r] = "failed" \/ a.body \in NoCatalog
    BY <1>1, <2>1, <2>2
  <2>3. CASE status[r] # "failed" /\ a.body \notin NoCatalog
    <3>1. /\ status[r] \in {"verified", "missing", "disabled", "bundled"}
          /\ status[r] = "bundled" => a.body = 0
      BY <1>2, <2>3 DEF Swap, Concluded
    <3>2. a.body \notin Malformed
      BY DEF WellFormed
    <3>3. QED BY <2>1, <2>3, <3>1, <3>2
  <2>4. QED BY <2>2, <2>3
<1>3. ASSUME NEW r \in Refresh, NotFetched(r) PROVE ShownIsAcceptable'
  BY <1>1, <1>3 DEF NotFetched
<1>4. CASE \A r \in Refresh : ~Swap(r) /\ ~NotFetched(r)
  <2>1. catalog' = catalog
    BY <1>4 DEF Next, Step, Environment, Begin, Check, Receive, Put, NotModified, Bump,
       Unreachable, Bundled, BundledMalformed, StaleCache, Verify, FetchSignature, MarkVerified, Publish,
       Sign, Outage, Ageing, vars
  <2>2. QED BY <2>1
<1>5. QED BY <1>2, <1>3, <1>4

\* The application never shows a catalog that a refresh refused or that is not
\* one, for any number of mirrors and of refreshes that overlap.
THEOREM ShownAcceptable == Spec => []ShownIsAcceptable
<1> DEFINE Inv == Single /\ WellFormed /\ Concluded /\ ShownIsAcceptable
<1>1. Init => Inv
  BY FetcherAssumption DEF Init, Single, WellFormed, Concluded, ShownIsAcceptable
<1>2. Types /\ Inv /\ [Next]_vars => Inv'
  BY SingleKept, WellFormedKept, ConcludedKept, AcceptableStep
<1>3. Inv => ShownIsAcceptable
  OBVIOUS
<1>4. QED
  BY <1>1, <1>2, <1>3, TypesCorrect, PTL DEF Spec

=============================================================================
