----------------------------- MODULE KeyManager -----------------------------
(***************************************************************************)
(* API keys: crates/key-manager, with the require_api_key middleware of    *)
(* crates/core-gateway as its caller and the commands of keys/commands.rs  *)
(* as its editor.                                                          *)
(*                                                                         *)
(* Every operation on the store holds its mutex, but a verification takes  *)
(* it twice: to read the row, and, after the argon2 check and the scope    *)
(* checks on what it read, to write last_used_at.  Edits fall in between.  *)
(* The prefix index and the hash are abstracted to the key whose secret    *)
(* the caller presents: 24 random characters identify it.                  *)
(***************************************************************************)
EXTENDS Integers, FiniteSets

CONSTANTS
  Key,
  Call,       \* requests that reach require_api_key with a bearer
  Path,
  Origin,
  Pipelines,  \* values of enabled_pipelines
  Expiry,     \* values of expires_at; one beyond MaxTime stands for None
  MaxTime,    \* bound: the clock
  MaxEdits    \* bound: edits of scopes

ASSUME KeyAssumption ==
  /\ Expiry \subseteq Nat
  /\ MaxTime \in Nat
  /\ MaxEdits \in Nat

Scope == [endpoints : SUBSET Path, allowed_origins : SUBSET Origin,
          expires_at : Expiry, enabled_pipelines : Pipelines]

VARIABLES
  now,        \* the wall clock
  state,      \* the state of each key's row
  scope,      \* the scope_json of each row, empty when there is none
  revokedAt,  \* revoked_at, empty or one time
  lastUsed,   \* last_used_at, empty or one time
  phase,         \* where each call's verification stands
  asked,      \* what each call presents: a key, an origin (empty or one), a path
  at,         \* the time each call arrived
  read,       \* the scope each verification read
  outcome,    \* the AuthOutcome of each call
  inForce,    \* the scopes its key had while active during the call (history)
  edits       \* the edits of scopes so far

rowVars == <<state, scope, revokedAt, lastUsed>>
callVars == <<phase, at, read, outcome>>
keyManagerVars == <<now, rowVars, callVars, asked, inForce, edits>>

Question == [key : Key, origin : SUBSET Origin, path : Path]

KeyInit ==
  /\ now = 0
  /\ state = [k \in Key |-> "absent"]
  /\ scope = [k \in Key |-> {}]
  /\ revokedAt = [k \in Key |-> {}]
  /\ lastUsed = [k \in Key |-> {}]
  /\ phase = [c \in Call |-> "new"]
  /\ asked \in [Call -> Question]
  /\ at = [c \in Call |-> 0]
  /\ read = [c \in Call |-> {}]
  /\ outcome = [c \in Call |-> "none"]
  /\ inForce = [c \in Call |-> {}]
  /\ edits = 0

KeyTick ==
  /\ now < MaxTime
  /\ now' = now + 1
  /\ UNCHANGED <<rowVars, callVars, asked, inForce, edits>>

\* The row of k becomes active with scope s, or stays so: every verification
\* of k under way sees s in force.
Enforce(k, s) ==
  inForce' = [c \in Call |->
    IF phase[c] \in {"reading", "touching"} /\ asked[c].key = k
    THEN inForce[c] \cup {s} ELSE inForce[c]]

\* create_api_key.
Issue(k) ==
  /\ state[k] = "absent"
  /\ state' = [state EXCEPT ![k] = "active"]
  /\ \E s \in Scope :
       /\ scope' = [scope EXCEPT ![k] = {s}]
       /\ Enforce(k, s)
  /\ UNCHANGED <<now, revokedAt, lastUsed, callVars, asked, edits>>

\* revoke_api_key: a no-op on a revoked row.
Revoke(k) ==
  /\ state[k] = "active"
  /\ state' = [state EXCEPT ![k] = "revoked"]
  /\ revokedAt' = [revokedAt EXCEPT ![k] = {now}]
  /\ UNCHANGED <<now, scope, lastUsed, callVars, asked, inForce, edits>>

\* delete_api_key refuses a row that is not revoked (NotRevoked).
Delete(k) ==
  /\ state[k] = "revoked"
  /\ state' = [state EXCEPT ![k] = "deleted"]
  /\ revokedAt' = [revokedAt EXCEPT ![k] = {}]
  /\ lastUsed' = [lastUsed EXCEPT ![k] = {}]
  /\ scope' = [scope EXCEPT ![k] = {}]
  /\ UNCHANGED <<now, callVars, asked, inForce, edits>>

Rescope(k, s) ==
  /\ edits < MaxEdits
  /\ edits' = edits + 1
  /\ scope' = [scope EXCEPT ![k] = {s}]
  /\ IF state[k] = "active" THEN Enforce(k, s) ELSE UNCHANGED inForce
  /\ UNCHANGED <<now, state, revokedAt, lastUsed, callVars, asked>>

\* (fault) the edit writes the whole row of a fresh key
UpdateScopeReviving(k) ==
  /\ state[k] \in {"active", "revoked"}
  /\ \E s \in Scope :
       /\ scope' = [scope EXCEPT ![k] = {s}]
       /\ Enforce(k, s)
  /\ state' = [state EXCEPT ![k] = "active"]
  /\ revokedAt' = [revokedAt EXCEPT ![k] = {}]
  /\ UNCHANGED <<now, lastUsed, callVars, asked, edits>>

\* update_api_key_scope replaces the scope of an active or a revoked row.
UpdateScope(k) ==
  /\ state[k] \in {"active", "revoked"}
  /\ \E s \in Scope : Rescope(k, s)

\* update_api_key_pipelines reads the row and writes one field under one lock.
UpdatePipelines(k) ==
  /\ state[k] \in {"active", "revoked"}
  /\ \E s \in scope[k], p \in Pipelines : Rescope(k, [s EXCEPT !.enabled_pipelines = p])

\* require_api_key reads the clock and calls verify.
Begin(c) ==
  /\ phase[c] = "new"
  /\ phase' = [phase EXCEPT ![c] = "reading"]
  /\ at' = [at EXCEPT ![c] = now]
  /\ inForce' = [inForce EXCEPT ![c] =
       IF state[asked[c].key] = "active" THEN scope[asked[c].key] ELSE {}]
  /\ UNCHANGED <<now, rowVars, asked, read, outcome, edits>>

Expired(s, c) == at[c] >= s.expires_at

\* A key with an origin list refuses a call without an origin; a key without
\* one accepts every origin (manager.rs:204), though the comment on the field
\* says that an empty list refuses them all (scope.rs:42).
OriginOk(s, c) ==
  s.allowed_origins = {} \/ asked[c].origin \cap s.allowed_origins # {}

EndpointOk(s, c) == asked[c].path \in s.endpoints

Admits(s, c) == ~Expired(s, c) /\ OriginOk(s, c) /\ EndpointOk(s, c)

\* The first check of verify that fails.
Verdict(s, c) ==
  IF Expired(s, c) THEN "expired"
  ELSE IF ~OriginOk(s, c) THEN "origin_denied"
  ELSE IF ~EndpointOk(s, c) THEN "endpoint_denied" ELSE "allowed"

\* The verification of c ends with a refusal.
Refuse(c, code) ==
  /\ phase' = [phase EXCEPT ![c] = "done"]
  /\ outcome' = [outcome EXCEPT ![c] = code]
  /\ UNCHANGED read

\* The verification of c goes on with the scope s, and gives up the lock.
Judge(c, s) ==
  IF Verdict(s, c) = "allowed"
  THEN /\ phase' = [phase EXCEPT ![c] = "touching"]
       /\ read' = [read EXCEPT ![c] = {s}]
       /\ UNCHANGED outcome
  ELSE Refuse(c, Verdict(s, c))

\* (fault) find_by_prefix forgets AND revoked_at IS NULL
ReadRevokedToo(c) ==
  /\ phase[c] = "reading"
  /\ \/ /\ scope[asked[c].key] = {}
        /\ Refuse(c, "invalid_key")
     \/ \E s \in scope[asked[c].key] : Judge(c, s)
  /\ UNCHANGED <<now, rowVars, at, asked, inForce, edits>>

\* find_by_prefix, which leaves out revoked rows, so that their secret is an
\* unknown one; then the checks, on the row as it was read.
ReadRow(c) ==
  /\ phase[c] = "reading"
  /\ IF state[asked[c].key] # "active"
     THEN Refuse(c, "invalid_key")
     ELSE \E s \in scope[asked[c].key] : Judge(c, s)
  /\ UNCHANGED <<now, rowVars, at, asked, inForce, edits>>

\* touch_last_used, a no-op once the row is deleted; then the call is allowed.
Touch(c) ==
  LET k == asked[c].key IN
  /\ phase[c] = "touching"
  /\ phase' = [phase EXCEPT ![c] = "done"]
  /\ outcome' = [outcome EXCEPT ![c] = "allowed"]
  /\ lastUsed' = IF state[k] \in {"active", "revoked"}
                 THEN [lastUsed EXCEPT ![k] = {at[c]}] ELSE lastUsed
  /\ UNCHANGED <<now, state, scope, revokedAt, at, asked, read, inForce, edits>>

EditKey(k) == Issue(k) \/ Revoke(k) \/ Delete(k) \/ UpdateScope(k) \/ UpdatePipelines(k)

Verify(c) == Begin(c) \/ ReadRow(c) \/ Touch(c)

KeyNext == (\E k \in Key : EditKey(k)) \/ (\E c \in Call : Verify(c)) \/ KeyTick

KeySpec == KeyInit /\ [][KeyNext]_keyManagerVars

-----------------------------------------------------------------------------
Outcome == {"none", "allowed", "invalid_key", "expired", "origin_denied", "endpoint_denied"}

KeyTypeOK ==
  /\ now \in 0..MaxTime
  /\ state \in [Key -> {"absent", "active", "revoked", "deleted"}]
  /\ scope \in [Key -> SUBSET Scope]
  /\ revokedAt \in [Key -> SUBSET (0..MaxTime)]
  /\ lastUsed \in [Key -> SUBSET (0..MaxTime)]
  /\ phase \in [Call -> {"new", "reading", "touching", "done"}]
  /\ asked \in [Call -> Question]
  /\ at \in [Call -> 0..MaxTime]
  /\ read \in [Call -> SUBSET Scope]
  /\ outcome \in [Call -> Outcome]
  /\ inForce \in [Call -> SUBSET Scope]
  /\ \A k \in Key : revokedAt[k] # {} <=> state[k] = "revoked"
  /\ \A k \in Key : scope[k] # {} <=> state[k] \in {"active", "revoked"}
  /\ edits \in 0..MaxEdits

\* A call is allowed only by a scope that its key had, while active, at some
\* moment between the call's arrival and its answer, with that scope's
\* pipelines: edits and revocations that fall within the verification order
\* it before or after them, those that precede it always bind it
\* (manager.rs:173-237).
AllowedWasInForce ==
  \A c \in Call :
    outcome[c] = "allowed" =>
      \E s \in inForce[c] : read[c] = {s} /\ Admits(s, c)

\* Once a key is revoked no operation makes it active again or moves the time
\* it was revoked at, however its scope is edited; only a revoked key is
\* deleted (store.rs:245-312).
RevocationIsFinal ==
  [][ \A k \in Key :
        /\ state[k] = "revoked" =>
             \/ state'[k] = "revoked" /\ revokedAt'[k] = revokedAt[k]
             \/ state'[k] = "deleted"
        /\ state[k] = "deleted" => state'[k] = "deleted"
        /\ state[k] # "revoked" /\ state'[k] = "deleted" => state[k] = "deleted" ]_keyManagerVars

=============================================================================
