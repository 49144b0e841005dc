--------------------------- MODULE RegistryFetcher ---------------------------
(***************************************************************************)
(* The refresh of the model catalog: crates/registry-fetcher (the tiers,   *)
(* the SQLite cache, the conditional requests) under refresh_once and      *)
(* verify_catalog_signature of src-tauri/registry_fetcher.rs, down to the  *)
(* swap of the catalog in memory.                                          *)
(*                                                                         *)
(* Refreshes are started by the scheduler and by refresh_catalog_now and   *)
(* nothing keeps two apart: they interleave at every await, that is, at    *)
(* each access to the cache and at each request.  A body is the number of  *)
(* its publication; a signature is the body it signs.  No refresh reads    *)
(* last_signature_status, the status of the last verification, which the   *)
(* diagnostics show: it is left out.                                       *)
(***************************************************************************)
EXTENDS Integers, FiniteSets

CONSTANTS
  Refresh,     \* the refreshes that may be under way at once
  NetworkTiers,\* mirrors, tried in the order 1, 2, ...
  MaxBody,     \* bound: publications on the first mirror
  MaxMirrored, \* bound: publications on each of the others
  Malformed,   \* the publications that are not JSON
  NoCatalog,   \* those that are, but that swap_from_bundle_body refuses
  HasKey       \* whether the build embeds a public key

ASSUME FetcherAssumption ==
  /\ NetworkTiers \in Nat \ {0}
  /\ MaxBody \in Nat /\ MaxMirrored \in Nat
  /\ Malformed \subseteq Nat \ {0}
  /\ NoCatalog \subseteq Nat \ {0}
  /\ HasKey \in BOOLEAN

Tier == 1..NetworkTiers
Body == Nat   \* 0 is the body bundled with the application

VARIABLES
  mirror,    \* the body each mirror serves
  signature, \* the body each mirror's .minisig signs
  up,        \* the mirrors that can be reached
  rows,      \* manifest_cache, per tier empty or one row
  pc,        \* where each refresh stands
  tier,      \* the tier each refresh is trying, or took its answer from
  cached,    \* the row each refresh read for its tier, empty or one
  answer,    \* what fetch_one returned to each refresh, empty or one
  status,    \* CatalogSignatureStatus of each refresh
  catalog,   \* CatalogState: the body in use and the status it came with (history)
  signed     \* the bodies the verifier has accepted (history)

publisher == <<mirror, signature, up>>
vars == <<publisher, rows, pc, tier, cached, answer, status, catalog, signed>>

\* The age of a row: within the TTL, within the grace of 24 hours, or beyond.
Age == {"fresh", "stale", "dead"}
Mark == {"verified", "unverified"}
Row == [body : Body, age : Age, mark : Mark]
Origin == {"network", "cache", "bundled"}
Answer == [body : Body, from : Origin, mark : Mark]
Status == {"none", "verified", "failed", "missing", "disabled", "bundled"}

Init ==
  /\ mirror = [t \in Tier |-> 0]
  /\ signature = [t \in Tier |-> 0]
  /\ up = Tier
  /\ rows = [t \in Tier |-> {}]
  /\ pc = [r \in Refresh |-> "idle"]
  /\ tier = [r \in Refresh |-> 1]
  /\ cached = [r \in Refresh |-> {}]
  /\ answer = [r \in Refresh |-> {}]
  /\ status = [r \in Refresh |-> "none"]
  /\ catalog = [body |-> 0, status |-> "bundled"]
  /\ signed = {}

-----------------------------------------------------------------------------
\* The publisher uploads a body, then its signature; mirrors come and go.
Publish(t) ==
  /\ mirror[t] < IF t = 1 THEN MaxBody ELSE MaxMirrored
  /\ mirror' = [mirror EXCEPT ![t] = @ + 1]
  /\ UNCHANGED <<signature, up, rows, pc, tier, cached, answer, status, catalog, signed>>

Sign(t) ==
  /\ signature[t] # mirror[t]
  /\ signature' = [signature EXCEPT ![t] = mirror[t]]
  /\ UNCHANGED <<mirror, up, rows, pc, tier, cached, answer, status, catalog, signed>>

Outage(t) ==
  /\ up' = IF t \in up THEN up \ {t} ELSE up \cup {t}
  /\ UNCHANGED <<mirror, signature, rows, pc, tier, cached, answer, status, catalog, signed>>

\* Time passes for a row.
Ageing(t) ==
  /\ \E row \in rows[t] :
       /\ row.age # "dead"
       /\ rows' = [rows EXCEPT ![t] =
            {[row EXCEPT !.age = IF row.age = "fresh" THEN "stale" ELSE "dead"]}]
  /\ UNCHANGED <<publisher, pc, tier, cached, answer, status, catalog, signed>>

-----------------------------------------------------------------------------
\* refresh_once, the scheduler's or the user's.
Begin(r) ==
  /\ pc[r] = "idle"
  /\ pc' = [pc EXCEPT ![r] = "check"]
  /\ UNCHANGED <<publisher, rows, tier, cached, answer, status, catalog, signed>>

\* refresh_once returns: its variables are gone.
Return(r) ==
  /\ pc' = [pc EXCEPT ![r] = "idle"]
  /\ tier' = [tier EXCEPT ![r] = 1]
  /\ cached' = [cached EXCEPT ![r] = {}]
  /\ answer' = [answer EXCEPT ![r] = {}]
  /\ status' = [status EXCEPT ![r] = "none"]

FromRow(row) == [body |-> row.body, from |-> "cache", mark |-> row.mark]

\* try_source reads the row of its tier: a fresh one is the answer.
Check(r) ==
  /\ pc[r] = "check"
  /\ LET fresh == {row \in rows[tier[r]] : row.age = "fresh"} IN
     /\ answer' = [answer EXCEPT ![r] = {FromRow(row) : row \in fresh}]
     /\ cached' = [cached EXCEPT ![r] = rows[tier[r]] \ fresh]
     /\ pc' = [pc EXCEPT ![r] = IF fresh = {} THEN "request" ELSE "verify"]
  /\ UNCHANGED <<publisher, rows, tier, status, catalog, signed>>

\* 200: a body that is not JSON ends the fetch without trying another tier.
Receive(r) ==
  LET t == tier[r] IN
  /\ pc[r] = "request"
  /\ t \in up
  /\ IF mirror[t] \in Malformed
     THEN /\ pc' = [pc EXCEPT ![r] = "failed"]
          /\ UNCHANGED answer
     ELSE /\ pc' = [pc EXCEPT ![r] = "put"]
          /\ answer' = [answer EXCEPT ![r] =
               {[body |-> mirror[t], from |-> "network", mark |-> "unverified"]}]
  /\ cached' = [cached EXCEPT ![r] = {}]
  /\ UNCHANGED <<publisher, rows, tier, status, catalog, signed>>

\* (fault) the row is written as one that has been verified
PutVerified(r) ==
  /\ pc[r] = "put"
  /\ rows' = [rows EXCEPT ![tier[r]] =
       {[body |-> a.body, age |-> "fresh", mark |-> "verified"] : a \in answer[r]}]
  /\ pc' = [pc EXCEPT ![r] = "verify"]
  /\ UNCHANGED <<publisher, tier, cached, answer, status, catalog, signed>>

\* Cache::put replaces the row; it has yet to be verified.
Put(r) ==
  /\ pc[r] = "put"
  /\ rows' = [rows EXCEPT ![tier[r]] =
       {[body |-> a.body, age |-> "fresh", mark |-> "unverified"] : a \in answer[r]}]
  /\ pc' = [pc EXCEPT ![r] = "verify"]
  /\ UNCHANGED <<publisher, tier, cached, answer, status, catalog, signed>>

\* (fault) the request does not say which body the row holds
NotModifiedAnyway(r) ==
  /\ pc[r] = "request"
  /\ tier[r] \in up
  /\ \E row \in cached[r] : answer' = [answer EXCEPT ![r] = {FromRow(row)}]
  /\ pc' = [pc EXCEPT ![r] = "bump"]
  /\ cached' = [cached EXCEPT ![r] = {}]
  /\ UNCHANGED <<publisher, rows, tier, status, catalog, signed>>

\* 304: the answer is the row that was read before the request.
NotModified(r) ==
  /\ pc[r] = "request"
  /\ tier[r] \in up
  /\ \E row \in cached[r] :
       /\ row.body = mirror[tier[r]]
       /\ answer' = [answer EXCEPT ![r] = {FromRow(row)}]
  /\ pc' = [pc EXCEPT ![r] = "bump"]
  /\ cached' = [cached EXCEPT ![r] = {}]
  /\ UNCHANGED <<publisher, rows, tier, status, catalog, signed>>

\* Cache::bump_fetched_at dates the row of the tier, whichever it is by now.
Bump(r) ==
  /\ pc[r] = "bump"
  /\ rows' = [rows EXCEPT ![tier[r]] = {[row EXCEPT !.age = "fresh"] : row \in @}]
  /\ pc' = [pc EXCEPT ![r] = "verify"]
  /\ UNCHANGED <<publisher, tier, cached, answer, status, catalog, signed>>

\* A request fails or times out: the next tier, the bundled one being last.
Unreachable(r) ==
  /\ pc[r] = "request"
  /\ tier[r] \notin up
  /\ IF tier[r] < NetworkTiers
     THEN /\ tier' = [tier EXCEPT ![r] = @ + 1]
          /\ pc' = [pc EXCEPT ![r] = "check"]
     ELSE /\ pc' = [pc EXCEPT ![r] = "bundled"]
          /\ UNCHANGED tier
  /\ UNCHANGED <<publisher, rows, cached, answer, status, catalog, signed>>

\* default_sources ends with the bundled tier: try_bundled finds its file.
Bundled(r) ==
  /\ pc[r] = "bundled"
  /\ answer' = [answer EXCEPT ![r] = {[body |-> 0, from |-> "bundled", mark |-> "verified"]}]
  /\ pc' = [pc EXCEPT ![r] = "verify"]
  /\ UNCHANGED <<publisher, rows, tier, cached, status, catalog, signed>>

\* The bundled file is not JSON, which ends the fetch.
BundledMalformed(r) ==
  /\ pc[r] = "bundled"
  /\ pc' = [pc EXCEPT ![r] = "failed"]
  /\ UNCHANGED <<publisher, rows, tier, cached, answer, status, catalog, signed>>

\* The tiers whose row can answer while offline, and is among the freshest.
Freshest ==
  LET usable == {t \in Tier : \E row \in rows[t] : row.age # "dead"}
      fresh == {t \in usable : \E row \in rows[t] : row.age = "fresh"}
  IN IF fresh # {} THEN fresh ELSE usable

\* try_bundled fails too (no directory, no file, or an unreadable one):
\* try_stale_cache.
StaleCache(r) ==
  /\ pc[r] = "bundled"
  /\ IF Freshest = {}
     THEN /\ pc' = [pc EXCEPT ![r] = "failed"]
          /\ UNCHANGED <<tier, answer>>
     ELSE \E t \in Freshest :
          /\ tier' = [tier EXCEPT ![r] = t]
          /\ answer' = [answer EXCEPT ![r] = {FromRow(row) : row \in rows[t]}]
          /\ pc' = [pc EXCEPT ![r] = "verify"]
  /\ UNCHANGED <<publisher, rows, cached, status, catalog, signed>>

\* verify_catalog_signature ends with s.
Conclude(r, s) ==
  /\ status' = [status EXCEPT ![r] = s]
  /\ pc' = [pc EXCEPT ![r] = "swap"]

\* What needs no signature: the bundled body, and a marked row from the cache.
Verify(r) ==
  /\ pc[r] = "verify"
  /\ \E a \in answer[r] :
       IF a.from = "bundled" THEN Conclude(r, "bundled")
       ELSE IF a.from = "cache" /\ a.mark = "verified" THEN Conclude(r, "verified")
       ELSE IF ~HasKey THEN Conclude(r, "disabled")
       ELSE pc' = [pc EXCEPT ![r] = "signature"] /\ UNCHANGED status
  /\ UNCHANGED <<publisher, rows, tier, cached, answer, catalog, signed>>

\* The .minisig of the answer's tier is fetched and the body checked with it.
FetchSignature(r) ==
  /\ pc[r] = "signature"
  /\ \E a \in answer[r] :
       \/ /\ tier[r] \notin up
          /\ Conclude(r, "missing")
          /\ UNCHANGED signed
       \/ /\ tier[r] \in up
          /\ signature[tier[r]] # a.body
          /\ Conclude(r, "failed")
          /\ UNCHANGED signed
       \/ /\ tier[r] \in up
          /\ signature[tier[r]] = a.body
          /\ signed' = signed \cup {a.body}
          /\ pc' = [pc EXCEPT ![r] = "mark"]
          /\ UNCHANGED status
  /\ UNCHANGED <<publisher, rows, tier, cached, answer, catalog>>

\* Cache::mark_verified marks the row of the tier, whichever it is by now.
MarkVerified(r) ==
  /\ pc[r] = "mark"
  /\ rows' = [rows EXCEPT ![tier[r]] = {[row EXCEPT !.mark = "verified"] : row \in @}]
  /\ Conclude(r, "verified")
  /\ UNCHANGED <<publisher, tier, cached, answer, catalog, signed>>

\* reload_from_bundled, which leaves the catalog alone if it finds none.
ReloadBundled ==
  catalog' = [body |-> 0, status |-> "bundled"] \/ UNCHANGED catalog

\* (fault) a body that failed its verification is shown all the same
SwapAnyway(r) ==
  /\ pc[r] = "swap"
  /\ \E a \in answer[r] : catalog' = [body |-> a.body, status |-> status[r]]
  /\ Return(r)
  /\ UNCHANGED <<publisher, rows, signed>>

\* The end of refresh_once.  A body that was not refused, and that is a
\* catalog, is swapped in; any other was fetched all the same, so the bundled
\* catalog is reloaded.
Swap(r) ==
  /\ pc[r] = "swap"
  /\ \E a \in answer[r] :
       IF status[r] = "failed" \/ a.body \in NoCatalog THEN ReloadBundled
       ELSE catalog' = [body |-> a.body, status |-> status[r]]
  /\ Return(r)
  /\ UNCHANGED <<publisher, rows, signed>>

\* The catalog was not fetched.  If another manifest was, the bundled catalog
\* is reloaded, otherwise nothing changes.
NotFetched(r) ==
  /\ pc[r] = "failed"
  /\ ReloadBundled
  /\ Return(r)
  /\ UNCHANGED <<publisher, rows, signed>>

Step(r) ==
  \/ Begin(r) \/ Check(r) \/ Receive(r) \/ Put(r) \/ NotModified(r) \/ Bump(r)
  \/ Unreachable(r) \/ Bundled(r) \/ BundledMalformed(r) \/ StaleCache(r) \/ Verify(r)
  \/ FetchSignature(r) \/ MarkVerified(r) \/ Swap(r) \/ NotFetched(r)

Environment(t) == Publish(t) \/ Sign(t) \/ Outage(t) \/ Ageing(t)

Next == (\E r \in Refresh : Step(r)) \/ (\E t \in Tier : Environment(t))

Spec == Init /\ [][Next]_vars

\* The scheduler starts refreshes for ever, every request ends (its timeout
\* included), and rows get older.  Nothing is assumed of the mirrors.
FairSpec ==
  /\ Spec
  /\ \A r \in Refresh : WF_vars(Step(r))
  /\ \A t \in Tier : WF_vars(Ageing(t))

-----------------------------------------------------------------------------
TypeOK ==
  /\ mirror \in [Tier -> Body]
  /\ signature \in [Tier -> Body]
  /\ up \in SUBSET Tier
  /\ rows \in [Tier -> SUBSET Row]
  /\ \A t \in Tier : Cardinality(rows[t]) <= 1
  /\ pc \in [Refresh -> {"idle", "check", "request", "put", "bump", "bundled", "verify",
                         "signature", "mark", "swap", "failed"}]
  /\ tier \in [Refresh -> Tier]
  /\ cached \in [Refresh -> SUBSET Row]
  /\ answer \in [Refresh -> SUBSET Answer]
  /\ \A r \in Refresh : pc[r] \in {"put", "bump", "verify", "signature", "mark", "swap"} =>
                          Cardinality(answer[r]) = 1
  /\ status \in [Refresh -> Status]
  /\ catalog \in [body : Body, status : Status \ {"none"}]
  /\ signed \in SUBSET Body

\* What the application shows is the bundled catalog or a body no refresh has
\* refused, and never one that is not a catalog (registry_fetcher.rs:183-208).
ShownIsAcceptable ==
  /\ catalog.body \notin Malformed \cup NoCatalog
  /\ catalog.status \in {"verified", "missing", "disabled", "bundled"}
  /\ catalog.status = "bundled" => catalog.body = 0

\* What the row's marker is for: a catalog that is shown as verified was
\* verified, some refresh has checked that body against a signature
\* (cache.rs:33-35, registry_fetcher.rs:353).  It is not so when refreshes
\* overlap: mark_verified marks the row another refresh has put meanwhile.
VerifiedWasSigned ==
  catalog.status = "verified" => catalog.body \in signed

\* Once the first mirror stays reachable with a well-formed body and its
\* signature, that body is what the application ends up showing, whatever
\* the cache held and wherever the answers before came from.
CatalogCatchesUp ==
  <>[](1 \in up /\ signature[1] = mirror[1] /\ mirror[1] \notin Malformed \cup NoCatalog)
    => <>[](catalog.body = mirror[1])

=============================================================================
