---------------------------- MODULE CacheResources ----------------------------
(***************************************************************************)
(* The provider-side cache of one session as the database sees it: rows of *)
(* relay_cache_operations and relay_cache_resources, the affinity columns  *)
(* of relay_sessions, and the functions that change them.  One action per  *)
(* function; a call that returns nothing changes nothing and is no step.   *)
(*                                                                         *)
(* A resource holds a prefix of the session's history.  The scope hash of  *)
(* a resource contains the affinity epoch of the session, so a cache key   *)
(* is a pair <<affinity epoch, prefix version>>.  The idempotency key of a *)
(* create operation is a function of the cache key: one row per key.       *)
(*                                                                         *)
(* Of the request ledger only what the functions read is kept: turn[r] is  *)
(* the reservation of the session and fence[r] the executor whose fence is *)
(* valid while r is open and not dispatched.                               *)
(***************************************************************************)
EXTENDS Integers, FiniteSets

CONSTANTS
  Request,      \* requests of the session
  Executor,     \* fence owners
  Prefix,       \* prefix versions, a set of naturals
  MaxAffinity,  \* bound: affinity epochs
  MaxClaims,    \* bound: how often one operation is claimed
  None,         \* SQL null
  Unsent        \* sealed[r] before the dispatch

Affinity == 1..MaxAffinity
Key      == Affinity \X Prefix

ASSUME CacheAssumption ==
  /\ Prefix \subseteq Nat
  /\ MaxAffinity \in Nat \ {0}
  /\ MaxClaims \in Nat \ {0}
  /\ None \notin Request \cup Executor \cup Key \cup {Unsent}
  /\ Unsent \notin Key

VARIABLES
  turn,       \* the reservation: "new", then "held", then "lost"
  fence,      \* the executor that may dispatch the request
  sealed,     \* Unsent, None (sent without a resource) or the sealed key
  affinity,   \* relay_sessions.affinity_epoch
  evictedBy,  \* relay_sessions.affinity_eviction_request_id
  op,         \* relay_cache_operations.state, "absent" before the row
  opOwner,    \* lease_owner
  opEpoch,    \* lease_epoch
  opLive,     \* lease_expires_at is in the future
  raw,        \* what raw_result holds: "empty", "handle" or "error"
  res,        \* relay_cache_resources.state, "absent" before the row
  life,       \* "fresh", "closing" (inside the safety margin) or "over"
  rotations   \* history: affinity rotations made for each request

requestVars == <<turn, fence, sealed>>
sessionVars == <<affinity, evictedBy, rotations>>
opVars      == <<op, opOwner, opEpoch, opLive, raw>>
resVars     == <<res, life>>
cacheVars   == <<requestVars, sessionVars, opVars, resVars>>

OpState  == {"absent", "leased", "running", "succeeded", "failed", "unknown"}
ResState == {"absent", "ready", "expired", "invalid", "evicted_by_drift"}

CacheTypeOK ==
  /\ turn \in [Request -> {"new", "held", "lost"}]
  /\ fence \in [Request -> Executor \cup {None}]
  /\ sealed \in [Request -> Key \cup {None, Unsent}]
  /\ affinity \in Affinity
  /\ evictedBy \in Request \cup {None}
  /\ op \in [Key -> OpState]
  /\ opOwner \in [Key -> Executor \cup {None}]
  /\ opEpoch \in [Key -> Nat]
  /\ opLive \in [Key -> BOOLEAN]
  /\ raw \in [Key -> {"empty", "handle", "error"}]
  /\ res \in [Key -> ResState]
  /\ life \in [Key -> {"fresh", "closing", "over"}]
  /\ rotations \in [Request -> Nat]

CacheInit ==
  /\ turn = [r \in Request |-> "new"]
  /\ fence = [r \in Request |-> None]
  /\ sealed = [r \in Request |-> Unsent]
  /\ affinity = 1
  /\ evictedBy = None
  /\ op = [k \in Key |-> "absent"]
  /\ opOwner = [k \in Key |-> None]
  /\ opEpoch = [k \in Key |-> 0]
  /\ opLive = [k \in Key |-> FALSE]
  /\ raw = [k \in Key |-> "empty"]
  /\ res = [k \in Key |-> "absent"]
  /\ life = [k \in Key |-> "fresh"]
  /\ rotations = [r \in Request |-> 0]

Usable(k) == res[k] = "ready" /\ life[k] = "fresh"

-----------------------------------------------------------------------------
(* The ledger, seen from here.                                             *)

Reserve(r) ==
  /\ turn[r] = "new"
  /\ \A q \in Request : turn[q] # "held"
  /\ turn' = [turn EXCEPT ![r] = "held"]
  /\ UNCHANGED <<fence, sealed, sessionVars, opVars, resVars>>

\* A claim or a sync fence: the request has a new executor.
Grant(r, x) ==
  /\ turn[r] # "new" /\ sealed[r] = Unsent
  /\ fence' = [fence EXCEPT ![r] = x]
  /\ UNCHANGED <<turn, sealed, sessionVars, opVars, resVars>>

\* The commit, a failure or a cancel.  The fence may outlive the reservation.
Release(r, closing) ==
  /\ turn[r] = "held"
  /\ turn' = [turn EXCEPT ![r] = "lost"]
  /\ fence' = [fence EXCEPT ![r] = IF closing THEN None ELSE @]
  /\ UNCHANGED <<sealed, sessionVars, opVars, resVars>>

-----------------------------------------------------------------------------
(* Create operations.                                                      *)

\* Mutant: an operation whose outcome is not known is claimed again.
ReclaimOperation(k, x) ==
  /\ opEpoch[k] < MaxClaims
  /\ op[k] \in {"absent", "failed"} \/ (op[k] \in {"leased", "running"} /\ ~opLive[k])
  /\ op' = [op EXCEPT ![k] = "leased"]
  /\ opOwner' = [opOwner EXCEPT ![k] = x]
  /\ opEpoch' = [opEpoch EXCEPT ![k] = @ + 1]
  /\ opLive' = [opLive EXCEPT ![k] = TRUE]
  /\ UNCHANGED <<raw, requestVars, sessionVars, resVars>>

\* A live lease of the same owner is given to it again, with its epoch.
ClaimOperation(k, x) ==
  /\ \/ op[k] \in {"absent", "failed"}
     \/ op[k] = "leased" /\ (~opLive[k] \/ opOwner[k] = x)
  /\ LET again == op[k] = "leased" /\ opLive[k] IN
       /\ again \/ opEpoch[k] < MaxClaims
       /\ opEpoch' = [opEpoch EXCEPT ![k] = IF again THEN @ ELSE @ + 1]
  /\ op' = [op EXCEPT ![k] = "leased"]
  /\ opOwner' = [opOwner EXCEPT ![k] = x]
  /\ opLive' = [opLive EXCEPT ![k] = TRUE]
  /\ UNCHANGED <<raw, requestVars, sessionVars, resVars>>

\* A claim of a running operation returns nothing; if its lease ran out, the
\* provider's side effect is unknown from then on.
ClaimRunning(k) ==
  /\ op[k] = "running" /\ ~opLive[k]
  /\ op' = [op EXCEPT ![k] = "unknown"]
  /\ UNCHANGED <<opOwner, opEpoch, opLive, raw, requestVars, sessionVars, resVars>>

OwnsOperation(k, x, e) == opOwner[k] = x /\ opEpoch[k] = e

StartOperation(k, x, e) ==
  /\ OwnsOperation(k, x, e) /\ op[k] = "leased" /\ opLive[k]
  /\ op' = [op EXCEPT ![k] = "running"]
  /\ UNCHANGED <<opOwner, opEpoch, opLive, raw, requestVars, sessionVars, resVars>>

RecordObservation(k, x, e, result) ==
  /\ OwnsOperation(k, x, e) /\ op[k] = "running" /\ opLive[k]
  /\ raw' = [raw EXCEPT ![k] = result]
  /\ UNCHANGED <<op, opOwner, opEpoch, opLive, requestVars, sessionVars, resVars>>

\* Unlike the others it does not look at the lease.
FinishOperation(k, x, e, outcome, result) ==
  /\ OwnsOperation(k, x, e) /\ op[k] \in {"leased", "running"}
  /\ op' = [op EXCEPT ![k] = outcome]
  /\ raw' = [raw EXCEPT ![k] = result]
  /\ opLive' = [opLive EXCEPT ![k] = FALSE]
  /\ UNCHANGED <<opOwner, opEpoch, requestVars, sessionVars, resVars>>

\* Mutant: the operation stays running after its resource was published.
PublishOpen(k, x, e) ==
  /\ OwnsOperation(k, x, e) /\ op[k] = "running" /\ opLive[k]
  /\ res' = [res EXCEPT ![k] = "ready"]
  /\ UNCHANGED <<life, opVars, requestVars, sessionVars>>

PublishResource(k, x, e) ==
  /\ OwnsOperation(k, x, e) /\ op[k] = "running" /\ opLive[k]
  /\ op' = [op EXCEPT ![k] = "succeeded"]
  /\ raw' = [raw EXCEPT ![k] = "handle"]
  /\ opLive' = [opLive EXCEPT ![k] = FALSE]
  /\ res' = [res EXCEPT ![k] = "ready"]
  /\ UNCHANGED <<opOwner, opEpoch, life, requestVars, sessionVars>>

InvalidateResource(k, state) ==
  /\ res[k] = "ready"
  /\ res' = [res EXCEPT ![k] = state]
  /\ UNCHANGED <<life, requestVars, sessionVars, opVars>>

-----------------------------------------------------------------------------
(* Affinity and the seal.                                                  *)

\* Mutant: the rotation does not note for which request it was made.
RotateAnonymously(r, x, a) ==
  /\ sealed[r] = Unsent /\ fence[r] = x /\ turn[r] = "held"
  /\ affinity = a /\ a < MaxAffinity /\ evictedBy # r
  /\ affinity' = a + 1
  /\ rotations' = [rotations EXCEPT ![r] = @ + 1]
  /\ res' = [k \in Key |-> IF res[k] = "ready" THEN "evicted_by_drift" ELSE res[k]]
  /\ UNCHANGED <<evictedBy, life, requestVars, opVars>>

\* a is the epoch in the session row the executor read.
RotateAffinity(r, x, a) ==
  /\ sealed[r] = Unsent /\ fence[r] = x /\ turn[r] = "held"
  /\ affinity = a /\ a < MaxAffinity /\ evictedBy # r
  /\ affinity' = a + 1
  /\ evictedBy' = r
  /\ rotations' = [rotations EXCEPT ![r] = @ + 1]
  /\ res' = [k \in Key |-> IF res[k] = "ready" THEN "evicted_by_drift" ELSE res[k]]
  /\ UNCHANGED <<life, requestVars, opVars>>

\* A seal with a resource pins it; pins are never removed, so the sealed key
\* of a request is its pin.
SealBinding(r, x, k) ==
  /\ sealed[r] = Unsent /\ fence[r] = x
  /\ k \in Key => res[k] = "ready" /\ life[k] # "over"
  /\ sealed' = [sealed EXCEPT ![r] = k]
  /\ UNCHANGED <<turn, fence, sessionVars, opVars, resVars>>

-----------------------------------------------------------------------------
(* Time.                                                                   *)

ExpireOperation(k) ==
  /\ opLive[k]
  /\ opLive' = [opLive EXCEPT ![k] = FALSE]
  /\ UNCHANGED <<op, opOwner, opEpoch, raw, requestVars, sessionVars, resVars>>

AgeResource(k) ==
  /\ res[k] # "absent" /\ life[k] # "over"
  /\ life' = [life EXCEPT ![k] = IF @ = "fresh" THEN "closing" ELSE "over"]
  /\ UNCHANGED <<res, requestVars, sessionVars, opVars>>

-----------------------------------------------------------------------------
OperationStep(k, x) ==
  \/ ClaimOperation(k, x)
  \/ \E e \in 1..MaxClaims :
       \/ StartOperation(k, x, e)
       \/ PublishResource(k, x, e)
       \/ \E result \in {"handle", "error"} :
            \/ RecordObservation(k, x, e, result)
            \/ \E outcome \in {"failed", "unknown"} : FinishOperation(k, x, e, outcome, result)

KeyStep(k) ==
  \/ \E x \in Executor : OperationStep(k, x)
  \/ ClaimRunning(k)
  \/ InvalidateResource(k, "expired") \/ InvalidateResource(k, "invalid")
  \/ ExpireOperation(k)
  \/ AgeResource(k)

RequestStep(r) ==
  \/ Reserve(r)
  \/ \E closing \in BOOLEAN : Release(r, closing)
  \/ \E x \in Executor :
       \/ Grant(r, x)
       \/ RotateAffinity(r, x, affinity)
       \/ \E k \in Key \cup {None} : SealBinding(r, x, k)

CacheNext == (\E k \in Key : KeyStep(k)) \/ (\E r \in Request : RequestStep(r))

CacheSpec == CacheInit /\ [][CacheNext]_cacheVars

-----------------------------------------------------------------------------
(* Safety of the functions, whoever calls them.                            *)

\* A resource row exists exactly for the operations that succeeded, so there is
\* one generation per key and an operation of unknown outcome never yields one.
ResourcesAreCreated == \A k \in Key : res[k] # "absent" <=> op[k] = "succeeded"

\* Each affinity epoch was opened by another request: a request evicts the
\* cache of its session at most once, and the last one that did is recorded.
RotationsAreCounted ==
  /\ \A r \in Request : rotations[r] <= 1
  /\ evictedBy = None <=> affinity = 1
  /\ \A r \in Request : turn[r] = "new" => rotations[r] = 0
===============================================================================
