----------------------------- MODULE StatefulCache -----------------------------
(***************************************************************************)
(* StatefulResourceManager.prepare over the cache tables: executors look a *)
(* resource up, probe it at the provider, reuse it, grow it or create one, *)
(* and seal their request with it.  One step per await; every await may    *)
(* raise and every executor may die (Abort).                               *)
(*                                                                         *)
(* Whether a longer prefix or a new resource pays is a choice here; the    *)
(* rules of that choice are in CacheEconomics.                             *)
(***************************************************************************)
EXTENDS CacheResources

CONSTANT Settings
  \* the plans of a session's requests and the traffic they see: records of
  \*   optional   requests whose plan allows to go on without the cache
  \*   assessed   requests with a unified plan: assessed first, then prepared
  \*   affine     TRUE when the session sends an affinity token
  \*   requests, executors, prefixes   that occur
  \*   runs       bound: preparations started; with MaxClaims at least as
  \*              large no claim is ever refused by its bound
  \*   faults     bound: resources the provider drops early

ASSUME PrepareAssumption ==
  \A s \in Settings :
    /\ s.optional \cup s.assessed \cup s.requests \subseteq Request
    /\ s.executors \subseteq Executor /\ s.prefixes \subseteq Prefix
    /\ s.affine \in BOOLEAN
    /\ s.runs \in 0..MaxClaims
    /\ s.faults \in Nat

VARIABLES
  setting,   \* chosen once
  pc,        \* where each executor is
  at,        \* its request
  seen,      \* the affinity epoch in its copy of the session row
  evictor,   \* affinity_eviction_request_id in that copy
  rotated,   \* rotated_affinity, or the retry after AffinityDriftDetected
  build,     \* FALSE while the assessment runs
  want,      \* the prefix version of its request
  cands,     \* the candidates it listed and has not probed yet
  fall,      \* the resource it falls back to when growth is declined
  tok,       \* its operation epoch
  pick,      \* the key it will seal with, None for a plain request
  made,      \* history: provider resources created for each key
  alive,     \* the provider still has the resource
  runs,      \* preparations started
  faults     \* resources dropped early

prepVars == <<at, seen, evictor, rotated, build, want, cands, fall, tok, pick>>
provVars == <<made, alive>>
bounds   == <<setting, runs, faults>>
allVars  == <<cacheVars, pc, prepVars, provVars, bounds>>

Optional == setting.optional
Assessed == setting.assessed
Affine   == setting.affine

Steps == {"drift", "lookup", "probe", "retry", "decide", "claim", "raced",
          "start", "create", "reject", "unknown", "record", "verify",
          "publish", "seal"}

PrepareTypeOK ==
  /\ pc \in [Executor -> Steps \cup {"idle"}]
  /\ at \in [Executor -> Request \cup {None}]
  /\ seen \in [Executor -> Affinity]
  /\ evictor \in [Executor -> Request \cup {None}]
  /\ rotated \in [Executor -> BOOLEAN]
  /\ build \in [Executor -> BOOLEAN]
  /\ want \in [Executor -> Nat]
  /\ cands \in [Executor -> SUBSET Key]
  /\ fall \in [Executor -> Key \cup {None}]
  /\ tok \in [Executor -> Nat]
  /\ pick \in [Executor -> Key \cup {None}]
  /\ made \in [Key -> Nat]
  /\ alive \in [Key -> BOOLEAN]
  /\ runs \in 0..setting.runs
  /\ faults \in 0..setting.faults

PrepareInit ==
  /\ CacheInit
  /\ setting \in Settings
  /\ pc = [x \in Executor |-> "idle"]
  /\ at = [x \in Executor |-> None]
  /\ seen = [x \in Executor |-> 1]
  /\ evictor = [x \in Executor |-> None]
  /\ rotated = [x \in Executor |-> FALSE]
  /\ build = [x \in Executor |-> FALSE]
  /\ want = [x \in Executor |-> 0]
  /\ cands = [x \in Executor |-> {}]
  /\ fall = [x \in Executor |-> None]
  /\ tok = [x \in Executor |-> 0]
  /\ pick = [x \in Executor |-> None]
  /\ made = [k \in Key |-> 0]
  /\ alive = [k \in Key |-> FALSE]
  /\ runs = 0
  /\ faults = 0

-----------------------------------------------------------------------------
Goto(x, l) == pc' = [pc EXCEPT ![x] = l]

\* The coroutine is over and its locals are gone.
End(x) ==
  /\ Goto(x, "idle")
  /\ at' = [at EXCEPT ![x] = None]
  /\ seen' = [seen EXCEPT ![x] = 1]
  /\ evictor' = [evictor EXCEPT ![x] = None]
  /\ rotated' = [rotated EXCEPT ![x] = FALSE]
  /\ build' = [build EXCEPT ![x] = FALSE]
  /\ want' = [want EXCEPT ![x] = 0]
  /\ cands' = [cands EXCEPT ![x] = {}]
  /\ fall' = [fall EXCEPT ![x] = None]
  /\ tok' = [tok EXCEPT ![x] = 0]
  /\ pick' = [pick EXCEPT ![x] = None]

\* The scope hash leaves the epoch out when no affinity token is sent; then
\* the session never rotates and its epoch stays 1.
Wanted(x) == <<seen[x], want[x]>>

\* find_compatible_cache_resources.
Compatible(x) == {k \in Key : Usable(k) /\ k[1] = seen[x] /\ k[2] <= want[x]}

\* The longest candidate is probed first; those of one epoch differ in length.
Longest(x) == {k \in cands[x] : \A j \in cands[x] : j[2] <= k[2]}

\* Mutant: the preparation that follows an assessment only assesses again.
ChooseAssessing(x, k) ==
  IF build[x]
    THEN /\ pick' = [pick EXCEPT ![x] = k]
         /\ Goto(x, "seal")
         /\ UNCHANGED <<at, seen, evictor, rotated, build, want, cands, fall, tok>>
    ELSE /\ Goto(x, "lookup")
         /\ UNCHANGED <<at, seen, evictor, rotated, build, want, cands, fall, tok, pick>>

\* A resource (or none) was chosen.  An assessment starts over to build it.
Choose(x, k) ==
  IF build[x]
    THEN /\ pick' = [pick EXCEPT ![x] = k]
         /\ Goto(x, "seal")
         /\ UNCHANGED <<at, seen, evictor, rotated, build, want, cands, fall, tok>>
    ELSE /\ build' = [build EXCEPT ![x] = TRUE]
         /\ fall' = [fall EXCEPT ![x] = None]
         /\ Goto(x, "lookup")
         /\ UNCHANGED <<at, seen, evictor, rotated, want, cands, tok, pick>>

\* Economics, thresholds or ineligibility: no resource, and no other attempt.
GoPlain(x) ==
  /\ at[x] \in Optional
  /\ pick' = [pick EXCEPT ![x] = None]
  /\ Goto(x, "seal")
  /\ UNCHANGED <<at, seen, evictor, rotated, build, want, cands, fall, tok>>

\* _prepare_failure: uncached if the plan allows it, otherwise the request
\* fails.  A unified plan never goes on after such a failure.
GiveUp(x) == (at[x] \notin Assessed /\ GoPlain(x)) \/ End(x)

-----------------------------------------------------------------------------
(* Loading and affinity.                                                   *)

LoadSession(x, r, v) ==
  /\ pc[x] = "idle" /\ fence[r] = x
  /\ runs < setting.runs /\ runs' = runs + 1
  /\ at' = [at EXCEPT ![x] = r]
  /\ seen' = [seen EXCEPT ![x] = affinity]
  /\ evictor' = [evictor EXCEPT ![x] = evictedBy]
  /\ want' = [want EXCEPT ![x] = v]
  /\ build' = [build EXCEPT ![x] = r \notin Assessed]
  /\ Goto(x, "drift")
  /\ UNCHANGED <<rotated, cands, fall, tok, pick, cacheVars, provVars, setting, faults>>

\* Recent observations show no drift, or this request rotated already.
KeepAffinity(x) ==
  /\ pc[x] = "drift"
  /\ Goto(x, "lookup")
  /\ UNCHANGED <<prepVars, cacheVars, provVars, bounds>>

\* Mutant: the copy of the session row is not refreshed after the rotation.
RotateUnnoticed(x) ==
  /\ pc[x] \in {"drift", "retry"} /\ Affine
  /\ ~rotated[x] /\ evictor[x] # at[x]
  /\ RotateAffinity(at[x], x, seen[x])
  /\ rotated' = [rotated EXCEPT ![x] = TRUE]
  /\ build' = [build EXCEPT ![x] = at[x] \notin Assessed]
  /\ Goto(x, "lookup")
  /\ UNCHANGED <<at, seen, evictor, want, cands, fall, tok, pick, provVars, bounds>>

\* drift_reason, or AffinityDriftDetected by a probe: once per request.
Rotate(x) ==
  /\ pc[x] \in {"drift", "retry"} /\ Affine
  /\ ~rotated[x] /\ evictor[x] # at[x]
  /\ RotateAffinity(at[x], x, seen[x])
  /\ seen' = [seen EXCEPT ![x] = @ + 1]
  /\ rotated' = [rotated EXCEPT ![x] = TRUE]
  /\ build' = [build EXCEPT ![x] = at[x] \notin Assessed]
  /\ Goto(x, "lookup")
  /\ UNCHANGED <<at, evictor, want, cands, fall, tok, pick, provVars, bounds>>

\* CACHE_AFFINITY_UNSTABLE, or the fence was refused.
AffinityUnstable(x) ==
  /\ pc[x] = "retry"
  /\ End(x)
  /\ UNCHANGED <<cacheVars, provVars, bounds>>

-----------------------------------------------------------------------------
(* Lookup and reuse.                                                       *)

Lookup(x) ==
  /\ pc[x] = "lookup"
  /\ cands' = [cands EXCEPT ![x] = Compatible(x)]
  /\ fall' = [fall EXCEPT ![x] = None]
  /\ Goto(x, "probe")
  /\ UNCHANGED <<at, seen, evictor, rotated, build, want, tok, pick, cacheVars, provVars, bounds>>

Skip(x, k) == cands' = [cands EXCEPT ![x] = @ \ {k}]

\* The provider has the resource and it does not expire soon.
ProbeAlive(x) ==
  \E k \in Longest(x) :
    /\ pc[x] = "probe"
    /\ alive[k] /\ life[k] = "fresh"
    /\ \/ Choose(x, k)
       \/ /\ k[2] < want[x]
          /\ fall' = [fall EXCEPT ![x] = k]
          /\ Goto(x, "decide")
          /\ UNCHANGED <<at, seen, evictor, rotated, build, want, cands, tok, pick>>
    /\ UNCHANGED <<cacheVars, provVars, bounds>>

\* The probe finds it expiring or gone: the row is invalidated, unless somebody
\* did that already.  An affine session does so too when the provider says
\* that the handle is gone (410), or when the row has no time of expiry.
ProbeStale(x) ==
  \E k \in Longest(x) :
    /\ pc[x] = "probe"
    /\ \/ /\ alive[k] /\ life[k] # "fresh"
          /\ InvalidateResource(k, "expired") \/ (res[k] # "ready" /\ UNCHANGED cacheVars)
       \/ /\ ~alive[k]
          /\ InvalidateResource(k, "invalid") \/ (res[k] # "ready" /\ UNCHANGED cacheVars)
    /\ Skip(x, k)
    /\ UNCHANGED <<pc, at, seen, evictor, rotated, build, want, fall, tok, pick, provVars, bounds>>

\* An unexpired handle is inaccessible (403, 404).  The second time nobody catches it.
ProbeDrift(x) ==
  \E k \in Longest(x) :
    /\ pc[x] = "probe"
    /\ Affine /\ ~alive[k] /\ life[k] = "fresh"
    /\ IF rotated[x] \/ evictor[x] = at[x]
         THEN End(x)
         ELSE Goto(x, "retry") /\ UNCHANGED prepVars
    /\ UNCHANGED <<cacheVars, provVars, bounds>>

\* Any other error of the probe or of a measurement.
ProbeFails(x) ==
  /\ pc[x] \in {"probe", "decide"}
  /\ pc[x] = "probe" => cands[x] # {}
  /\ GiveUp(x)
  /\ UNCHANGED <<cacheVars, provVars, bounds>>

NoCandidate(x) ==
  /\ pc[x] = "probe" /\ cands[x] = {}
  /\ Goto(x, "decide")
  /\ UNCHANGED <<prepVars, cacheVars, provVars, bounds>>

\* The cost gate: create, or fall back to the shorter prefix, or do without.
Decide(x) ==
  /\ pc[x] = "decide"
  /\ \/ build[x] /\ Goto(x, "claim") /\ UNCHANGED prepVars
     \/ ~build[x] /\ Choose(x, None)
     \/ fall[x] # None /\ Choose(x, fall[x])
     \/ fall[x] = None /\ (GoPlain(x) \/ End(x))
  /\ UNCHANGED <<cacheVars, provVars, bounds>>

-----------------------------------------------------------------------------
(* Creating a resource.                                                    *)

Claim(x) ==
  /\ pc[x] = "claim"
  /\ ClaimOperation(Wanted(x), x)
  /\ tok' = [tok EXCEPT ![x] = opEpoch'[Wanted(x)]]
  /\ Goto(x, "start")
  /\ UNCHANGED <<at, seen, evictor, rotated, build, want, cands, fall, pick, provVars, bounds>>

ClaimRefused(x) ==
  LET k == Wanted(x) IN
  /\ pc[x] = "claim"
  /\ \/ ClaimRunning(k)
     \/ /\ \/ op[k] \in {"unknown", "succeeded"}
           \/ op[k] = "running" /\ opLive[k]
           \/ op[k] = "leased" /\ opLive[k] /\ opOwner[k] # x
        /\ UNCHANGED cacheVars
  /\ Goto(x, "raced")
  /\ UNCHANGED <<prepVars, provVars, bounds>>

\* Only a resource with the very content may be taken over, without a probe.
ReadAfterRace(x) ==
  /\ pc[x] = "raced"
  /\ IF Wanted(x) \in Compatible(x) THEN Choose(x, Wanted(x)) ELSE GiveUp(x)
  /\ UNCHANGED <<cacheVars, provVars, bounds>>

Start(x) ==
  /\ pc[x] = "start"
  /\ StartOperation(Wanted(x), x, tok[x])
  /\ Goto(x, "create")
  /\ UNCHANGED <<prepVars, provVars, bounds>>

StartRefused(x) ==
  LET k == Wanted(x) IN
  /\ pc[x] = "start"
  /\ ~(OwnsOperation(k, x, tok[x]) /\ op[k] = "leased" /\ opLive[k])
  /\ GiveUp(x)
  /\ UNCHANGED <<cacheVars, provVars, bounds>>

\* 4xx: nothing was created.  Anything else, or no handle in the answer: the
\* provider may or may not have created the resource.
Create(x) ==
  LET k == Wanted(x)
      Created == /\ made' = [made EXCEPT ![k] = @ + 1]
                 /\ alive' = [alive EXCEPT ![k] = TRUE]
  IN
  /\ pc[x] = "create"
  /\ \/ Created /\ Goto(x, "record")
     \/ UNCHANGED provVars /\ Goto(x, "reject")
     \/ (Created \/ UNCHANGED provVars) /\ Goto(x, "unknown")
  /\ UNCHANGED <<prepVars, cacheVars, bounds>>

\* The outcome is recorded, with the handle if one is known.  Both functions
\* may refuse; the first one's refusal or exception is only logged.
Finish(x) ==
  LET k == Wanted(x)
      outcome == IF pc[x] = "reject" THEN "failed" ELSE "unknown"
      result == IF raw[k] = "handle" THEN "handle" ELSE "error"
  IN
  /\ pc[x] \in {"reject", "unknown"}
  /\ \/ FinishOperation(k, x, tok[x], outcome, result)
     \/ /\ ~(OwnsOperation(k, x, tok[x]) /\ op[k] \in {"leased", "running"})
        /\ UNCHANGED cacheVars
  /\ GiveUp(x)
  /\ UNCHANGED <<provVars, bounds>>

Record(x) ==
  /\ pc[x] = "record"
  /\ RecordObservation(Wanted(x), x, tok[x], "handle")
  /\ Goto(x, "verify")
  /\ UNCHANGED <<prepVars, provVars, bounds>>

\* The get by handle; an error leaves the outcome unknown.
Verify(x) ==
  /\ pc[x] = "verify"
  /\ (alive[Wanted(x)] /\ Goto(x, "publish")) \/ Goto(x, "unknown")
  /\ UNCHANGED <<prepVars, cacheVars, provVars, bounds>>

Publish(x) ==
  /\ pc[x] = "publish"
  /\ PublishResource(Wanted(x), x, tok[x])
  /\ Choose(x, Wanted(x))
  /\ UNCHANGED <<provVars, bounds>>

\* CACHE_OPERATION_FENCE_REJECTED and CACHE_BINDING_FENCE_REJECTED are raised.
FenceRejected(x) ==
  LET k == Wanted(x) IN
  /\ pc[x] \in {"record", "publish"}
  /\ ~(OwnsOperation(k, x, tok[x]) /\ op[k] = "running" /\ opLive[k])
  /\ End(x)
  /\ UNCHANGED <<cacheVars, provVars, bounds>>

-----------------------------------------------------------------------------
Seal(x) ==
  /\ pc[x] = "seal"
  /\ SealBinding(at[x], x, pick[x])
  /\ End(x)
  /\ UNCHANGED <<provVars, bounds>>

SealRefused(x) ==
  /\ pc[x] = "seal"
  /\ \/ fence[at[x]] # x \/ sealed[at[x]] # Unsent
     \/ pick[x] # None /\ (res[pick[x]] # "ready" \/ life[pick[x]] = "over")
  /\ End(x)
  /\ UNCHANGED <<cacheVars, provVars, bounds>>

Fault == faults < setting.faults /\ faults' = faults + 1

\* A call of the database raises, or the process dies: the locals are gone and
\* the rows stay as they are.
Abort(x) ==
  /\ pc[x] \in Steps
  /\ End(x)
  /\ UNCHANGED <<cacheVars, provVars, bounds>>

-----------------------------------------------------------------------------
(* The provider and the rest of the system.                                *)

\* A handle stops working early (another upstream, a deletion) or on time.
DropResource(k) ==
  /\ alive[k]
  /\ alive' = [alive EXCEPT ![k] = FALSE]
  /\ IF life[k] = "over" THEN UNCHANGED faults ELSE Fault
  /\ UNCHANGED <<made, setting, runs, pc, prepVars, cacheVars>>

Environment ==
  /\ \/ \E r \in setting.requests :
          \/ Reserve(r)
          \/ \E closing \in BOOLEAN : Release(r, closing)
          \/ \E x \in setting.executors : pc[x] = "idle" /\ Grant(r, x)
     \/ \E k \in Key : ExpireOperation(k) \/ AgeResource(k)
  /\ UNCHANGED <<pc, prepVars, provVars, bounds>>

PrepareStep(x) ==
  \/ KeepAffinity(x) \/ Rotate(x) \/ AffinityUnstable(x)
  \/ Lookup(x) \/ ProbeAlive(x) \/ ProbeStale(x) \/ ProbeDrift(x) \/ ProbeFails(x)
  \/ NoCandidate(x) \/ Decide(x)
  \/ Claim(x) \/ ClaimRefused(x) \/ ReadAfterRace(x)
  \/ Start(x) \/ StartRefused(x) \/ Create(x) \/ Finish(x)
  \/ Record(x) \/ Verify(x) \/ Publish(x) \/ FenceRejected(x)
  \/ Seal(x) \/ SealRefused(x)

PrepareNext ==
  \/ \E x \in Executor :
       \/ \E r \in setting.requests, v \in setting.prefixes : LoadSession(x, r, v)
       \/ PrepareStep(x) \/ Abort(x)
  \/ \E k \in Key : DropResource(k)
  \/ Environment

PrepareSpec == PrepareInit /\ [][PrepareNext]_allVars

FairPrepareSpec == PrepareSpec /\ \A x \in Executor : WF_allVars(PrepareStep(x))

-----------------------------------------------------------------------------
(* Properties.                                                             *)

\* One provider resource per cache key, whoever dies or loses its lease and
\* whatever answers are lost: an operation that may have had its effect is
\* never repeated.
OneCreation == \A k \in Key : made[k] <= 1

\* The types of the tables and of the executors, and one eviction per request.
PrepareSafe == CacheTypeOK /\ PrepareTypeOK /\ RotationsAreCounted

\* A request that holds the session is never sent with a resource of an
\* affinity epoch that was given up, although other executors of the same
\* request, or of an earlier one, may rotate, publish and seal meanwhile.
SealedAffinityIsCurrent ==
  [][\A r \in Request :
       sealed'[r] # sealed[r] /\ sealed'[r] \in Key /\ turn[r] = "held"
         => sealed'[r][1] = affinity]_allVars

\* A preparation ends: rotation and reassessment cannot send it round for ever.
PreparationEnds == \A x \in Executor : pc[x] \in Steps ~> pc[x] \notin Steps
===============================================================================
