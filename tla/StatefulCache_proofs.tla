-------------------------- MODULE StatefulCache_proofs --------------------------
(***************************************************************************)
(* Proofs about the cache tables and the preparation of the cache on them. *)
(* The tables first: whatever executors call their functions, with whatever*)
(* fences and in whatever order.  Then the preparation: for any number of  *)
(* executors, requests, prefixes, rotations and claims, and any faults.    *)
(***************************************************************************)
EXTENDS StatefulCache, TLAPS

USE DEF cacheVars, requestVars, sessionVars, opVars, resVars

-----------------------------------------------------------------------------
(* Types.                                                                  *)

LEMMA CacheInitType == CacheInit => CacheTypeOK
BY CacheAssumption DEF CacheInit, CacheTypeOK, Affinity, Key, OpState, ResState

LEMMA KeyStepType ==
  ASSUME CacheTypeOK, NEW k \in Key, KeyStep(k)
  PROVE  CacheTypeOK'
<1> USE CacheAssumption DEF CacheTypeOK
<1>1. ASSUME NEW x \in Executor, ClaimOperation(k, x) PROVE CacheTypeOK'
  BY <1>1 DEF ClaimOperation, OpState
<1>2. ASSUME NEW x \in Executor, NEW e \in 1..MaxClaims, StartOperation(k, x, e)
      PROVE CacheTypeOK'
  BY <1>2 DEF StartOperation, OpState
<1>3. ASSUME NEW x \in Executor, NEW e \in 1..MaxClaims, PublishResource(k, x, e)
      PROVE CacheTypeOK'
  BY <1>3 DEF PublishResource, OpState, ResState
<1>4. ASSUME NEW x \in Executor, NEW e \in 1..MaxClaims, NEW result \in {"handle", "error"},
             RecordObservation(k, x, e, result)
      PROVE CacheTypeOK'
  BY <1>4 DEF RecordObservation
<1>5. ASSUME NEW x \in Executor, NEW e \in 1..MaxClaims, NEW result \in {"handle", "error"},
             NEW outcome \in {"failed", "unknown"}, FinishOperation(k, x, e, outcome, result)
      PROVE CacheTypeOK'
  BY <1>5 DEF FinishOperation, OpState
<1>6. CASE ClaimRunning(k)
  BY <1>6 DEF ClaimRunning, OpState
<1>7. ASSUME NEW state \in {"expired", "invalid"}, InvalidateResource(k, state)
      PROVE CacheTypeOK'
  BY <1>7 DEF InvalidateResource, ResState
<1>8. CASE ExpireOperation(k)
  BY <1>8 DEF ExpireOperation
<1>9. CASE AgeResource(k)
  BY <1>9 DEF AgeResource
<1>10. ASSUME NEW x \in Executor, OperationStep(k, x) PROVE CacheTypeOK'
  <2> HIDE DEF CacheTypeOK
  <2> QED BY <1>1, <1>2, <1>3, <1>4, <1>5, <1>10 DEF OperationStep
<1> HIDE DEF CacheTypeOK
<1> QED BY <1>6, <1>7, <1>8, <1>9, <1>10 DEF KeyStep

LEMMA RequestStepType ==
  ASSUME CacheTypeOK, NEW r \in Request, RequestStep(r)
  PROVE  CacheTypeOK'
<1> USE CacheAssumption DEF CacheTypeOK
<1>1. CASE Reserve(r)
  BY <1>1 DEF Reserve
<1>2. ASSUME NEW closing \in BOOLEAN, Release(r, closing) PROVE CacheTypeOK'
  BY <1>2 DEF Release
<1>3. ASSUME NEW x \in Executor, Grant(r, x) PROVE CacheTypeOK'
  BY <1>3 DEF Grant
<1>4. ASSUME NEW x \in Executor, RotateAffinity(r, x, affinity) PROVE CacheTypeOK'
  <2>1. affinity' \in Affinity
    BY <1>4 DEF RotateAffinity, Affinity
  <2> QED BY <1>4, <2>1 DEF RotateAffinity, ResState
<1>5. ASSUME NEW x \in Executor, NEW k \in Key \cup {None}, SealBinding(r, x, k)
      PROVE CacheTypeOK'
  BY <1>5 DEF SealBinding
<1> QED BY <1>1, <1>2, <1>3, <1>4, <1>5 DEF RequestStep

LEMMA CacheStepType == CacheTypeOK /\ [CacheNext]_cacheVars => CacheTypeOK'
<1> SUFFICES ASSUME CacheTypeOK, [CacheNext]_cacheVars PROVE CacheTypeOK'
  OBVIOUS
<1>1. CASE UNCHANGED cacheVars
  BY <1>1 DEF CacheTypeOK
<1> QED BY <1>1, KeyStepType, RequestStepType DEF CacheNext

\* Type correctness of the tables and of what is kept of the ledger.
THEOREM CacheTypeCorrect == CacheSpec => []CacheTypeOK
BY CacheInitType, CacheStepType, PTL DEF CacheSpec

-----------------------------------------------------------------------------
(* Resources and operations.                                               *)

LEMMA CreatedInit == CacheInit => ResourcesAreCreated
BY DEF CacheInit, ResourcesAreCreated

\* Only PublishResource makes a resource, and it closes the operation for good:
\* no claim, start, finish or expiry touches an operation that succeeded.
LEMMA CreatedKeyStep ==
  ASSUME CacheTypeOK, ResourcesAreCreated, NEW k \in Key, KeyStep(k)
  PROVE  ResourcesAreCreated'
<1> USE DEF CacheTypeOK, ResourcesAreCreated
<1>1. ASSUME NEW x \in Executor, ClaimOperation(k, x) PROVE ResourcesAreCreated'
  BY <1>1 DEF ClaimOperation
<1>2. ASSUME NEW x \in Executor, NEW e \in 1..MaxClaims, StartOperation(k, x, e)
      PROVE ResourcesAreCreated'
  BY <1>2 DEF StartOperation
<1>3. ASSUME NEW x \in Executor, NEW e \in 1..MaxClaims, PublishResource(k, x, e)
      PROVE ResourcesAreCreated'
  BY <1>3 DEF PublishResource
<1>4. ASSUME NEW x \in Executor, NEW e \in 1..MaxClaims, NEW result \in {"handle", "error"},
             NEW outcome \in {"failed", "unknown"}, FinishOperation(k, x, e, outcome, result)
      PROVE ResourcesAreCreated'
  BY <1>4 DEF FinishOperation
<1>5. CASE ClaimRunning(k)
  BY <1>5 DEF ClaimRunning
<1>6. ASSUME NEW state \in {"expired", "invalid"}, InvalidateResource(k, state)
      PROVE ResourcesAreCreated'
  BY <1>6 DEF InvalidateResource
<1>7. CASE UNCHANGED <<op, res>>
  BY <1>7
<1> QED
  BY <1>1, <1>2, <1>3, <1>4, <1>5, <1>6, <1>7
  DEF KeyStep, OperationStep, RecordObservation, ExpireOperation, AgeResource

LEMMA CreatedStep ==
  CacheTypeOK /\ ResourcesAreCreated /\ [CacheNext]_cacheVars => ResourcesAreCreated'
<1> SUFFICES ASSUME CacheTypeOK, ResourcesAreCreated, [CacheNext]_cacheVars
             PROVE  ResourcesAreCreated'
  OBVIOUS
<1>1. ASSUME NEW r \in Request, NEW x \in Executor, RotateAffinity(r, x, affinity)
      PROVE ResourcesAreCreated'
  BY <1>1 DEF RotateAffinity, ResourcesAreCreated
<1>2. CASE UNCHANGED <<op, res>>
  BY <1>2 DEF ResourcesAreCreated
<1>3. ASSUME NEW r \in Request, RequestStep(r) PROVE ResourcesAreCreated'
  BY <1>1, <1>2, <1>3 DEF RequestStep, Reserve, Release, Grant, SealBinding
<1> QED BY <1>2, <1>3, CreatedKeyStep DEF CacheNext

\* A row in relay_cache_resources stands for an operation that succeeded and
\* the other way round, so an unknown outcome never turns into a resource.
THEOREM ResourcesStandForOperations == CacheSpec => []ResourcesAreCreated
<1> DEFINE Inv == CacheTypeOK /\ ResourcesAreCreated
<1>1. CacheInit => Inv
  BY CacheInitType, CreatedInit
<1>2. Inv /\ [CacheNext]_cacheVars => Inv'
  BY CacheStepType, CreatedStep
<1> QED BY <1>1, <1>2, PTL DEF CacheSpec

-----------------------------------------------------------------------------
(* Rotations.  evictedBy remembers the last request only; a request whose  *)
(* name was overwritten must have lost the session first, and a session    *)
(* has one holder.                                                         *)

OneHolder ==
  \A q, r \in Request : turn[q] = "held" /\ turn[r] = "held" => q = r

Remembered ==
  \A r \in Request : rotations[r] = 0 \/ (rotations[r] = 1 /\ (evictedBy = r \/ turn[r] = "lost"))

RotationInv == CacheTypeOK /\ OneHolder /\ Remembered /\ RotationsAreCounted

LEMMA RotationInit == CacheInit => RotationInv
BY CacheInitType, CacheAssumption
DEF CacheInit, RotationInv, OneHolder, Remembered, RotationsAreCounted

LEMMA RotationRotates ==
  ASSUME RotationInv, NEW r \in Request, NEW x \in Executor, RotateAffinity(r, x, affinity)
  PROVE  OneHolder' /\ Remembered' /\ RotationsAreCounted'
<1> USE CacheAssumption DEF RotationInv, CacheTypeOK
<1>1. rotations[r] = 0
  BY DEF RotateAffinity, Remembered
<1>2. \A q \in Request : q # r => rotations[q] = 0 \/ turn[q] = "lost" \/ evictedBy = q
  BY DEF Remembered
<1>3. \A q \in Request : q # r => turn[q] # "held"
  BY DEF RotateAffinity, OneHolder
<1>4. rotations' = [rotations EXCEPT ![r] = 1]
  BY <1>1 DEF RotateAffinity
<1>5. Remembered'
  BY <1>2, <1>3, <1>4 DEF RotateAffinity, Remembered, RotationsAreCounted
<1>6. RotationsAreCounted'
  <2>1. affinity' # 1 /\ evictedBy' # None
    BY DEF RotateAffinity, Affinity
  <2> QED BY <1>4, <2>1 DEF RotateAffinity, RotationsAreCounted
<1> QED BY <1>5, <1>6 DEF RotateAffinity, OneHolder

LEMMA RotationStep == RotationInv /\ [CacheNext]_cacheVars => RotationInv'
<1> SUFFICES ASSUME RotationInv, [CacheNext]_cacheVars
             PROVE  OneHolder' /\ Remembered' /\ RotationsAreCounted'
  BY CacheStepType DEF RotationInv
<1> USE DEF RotationInv, CacheTypeOK, OneHolder, Remembered, RotationsAreCounted
<1>1. CASE UNCHANGED <<turn, sessionVars>>
  BY <1>1
<1>2. ASSUME NEW r \in Request, Reserve(r)
      PROVE OneHolder' /\ Remembered' /\ RotationsAreCounted'
  BY <1>2 DEF Reserve
<1>3. ASSUME NEW r \in Request, NEW closing \in BOOLEAN, Release(r, closing)
      PROVE OneHolder' /\ Remembered' /\ RotationsAreCounted'
  BY <1>3 DEF Release
<1>4. ASSUME NEW k \in Key, KeyStep(k) PROVE UNCHANGED <<turn, sessionVars>>
  BY <1>4 DEF KeyStep, OperationStep, ClaimOperation, StartOperation, PublishResource,
     RecordObservation, FinishOperation, ClaimRunning, InvalidateResource, ExpireOperation, AgeResource
<1>5. ASSUME NEW r \in Request, RequestStep(r)
      PROVE OneHolder' /\ Remembered' /\ RotationsAreCounted'
  BY <1>1, <1>2, <1>3, <1>5, RotationRotates DEF RequestStep, Grant, SealBinding
<1> QED BY <1>1, <1>4, <1>5 DEF CacheNext

\* However executors overlap, a request evicts the cache of its session at most
\* once, and the session records the last one that did.
THEOREM RotatesAtMostOnce == CacheSpec => []RotationsAreCounted
<1>1. RotationInv => RotationsAreCounted
  BY DEF RotationInv
<1> QED BY <1>1, RotationInit, RotationStep, PTL DEF CacheSpec

-----------------------------------------------------------------------------
(* The preparation.                                                        *)

USE DEF allVars, prepVars, provVars, bounds

-----------------------------------------------------------------------------
(* Types.                                                                  *)

\* The locals of the executors; one at work has a request and a prefix.
LocalOK ==
  /\ pc \in [Executor -> Steps \cup {"idle"}]
  /\ at \in [Executor -> Request \cup {None}]
  /\ seen \in [Executor -> Affinity]
  /\ evictor \in [Executor -> Request \cup {None}]
  /\ rotated \in [Executor -> BOOLEAN]
  /\ build \in [Executor -> BOOLEAN]
  /\ want \in [Executor -> Nat]
  /\ cands \in [Executor -> SUBSET Key]
  /\ fall \in [Executor -> Key \cup {None}]
  /\ tok \in [Executor -> Nat]
  /\ pick \in [Executor -> Key \cup {None}]
  /\ \A x \in Executor : pc[x] \in Steps => at[x] \in Request /\ want[x] \in Prefix

SettingOK == setting \in Settings /\ runs \in 0..setting.runs /\ faults \in 0..setting.faults

ProviderOK == made \in [Key -> Nat] /\ alive \in [Key -> BOOLEAN]

\* An operation was claimed as often as the bound allows, and an owned one was.
EpochBound ==
  \A k \in Key : opEpoch[k] <= MaxClaims /\ (opOwner[k] # None => opEpoch[k] # 0)

PrepareInv == CacheTypeOK /\ LocalOK /\ SettingOK /\ ProviderOK /\ EpochBound

LEMMA PrepareInitInv == PrepareInit => PrepareInv
<1> SUFFICES ASSUME PrepareInit PROVE PrepareInv
  OBVIOUS
<1>1. CacheTypeOK /\ EpochBound
  BY CacheInitType, CacheAssumption DEF PrepareInit, CacheInit, EpochBound
<1>2. LocalOK
  BY CacheAssumption DEF PrepareInit, LocalOK, Affinity, Steps
<1>3. SettingOK /\ ProviderOK
  BY CacheAssumption, PrepareAssumption DEF PrepareInit, SettingOK, ProviderOK
<1> QED BY <1>1, <1>2, <1>3 DEF PrepareInv

\* The ways a step may leave the locals.
LEMMA EndLocal ==
  ASSUME LocalOK, NEW x \in Executor, End(x)
  PROVE  LocalOK'
BY CacheAssumption DEF LocalOK, End, Goto, Affinity, Steps

LEMMA GotoLocal ==
  ASSUME LocalOK, NEW x \in Executor, NEW l \in Steps, Goto(x, l),
         pc[x] \in Steps, UNCHANGED prepVars
  PROVE  LocalOK'
BY DEF LocalOK, Goto

LEMMA ChooseLocal ==
  ASSUME LocalOK, NEW x \in Executor, NEW k \in Key \cup {None}, Choose(x, k),
         pc[x] \in Steps
  PROVE  LocalOK'
<1>1. CASE build[x]
  BY <1>1, CacheAssumption DEF LocalOK, Choose, Goto, Steps
<1>2. CASE ~build[x]
  BY <1>2, CacheAssumption DEF LocalOK, Choose, Goto, Steps
<1> QED BY <1>1, <1>2

LEMMA GiveUpLocal ==
  ASSUME LocalOK, NEW x \in Executor, pc[x] \in Steps, GiveUp(x) \/ GoPlain(x)
  PROVE  LocalOK'
<1>1. CASE End(x)
  BY <1>1, EndLocal
<1>2. CASE GoPlain(x)
  BY <1>2 DEF LocalOK, GoPlain, Goto, Steps
<1> QED BY <1>1, <1>2 DEF GiveUp

\* The key an executor at work is after.
LEMMA WantedKey ==
  ASSUME LocalOK, NEW x \in Executor, pc[x] \in Steps
  PROVE  Wanted(x) \in Key
BY DEF LocalOK, Wanted, Key

LEMMA ClaimType ==
  ASSUME CacheTypeOK, NEW k \in Key, NEW x \in Executor, ClaimOperation(k, x)
  PROVE  CacheTypeOK'
<1> KeyStep(k)
  BY DEF KeyStep, OperationStep
<1> QED BY KeyStepType

-----------------------------------------------------------------------------
(* What each step does to the locals.                                      *)

\* One case per await of prepare.
LEMMA PrepareStepLocal ==
  ASSUME PrepareInv, NEW x \in Executor, PrepareStep(x)
  PROVE  LocalOK'
<1> USE DEF PrepareInv
<1>1. CASE KeepAffinity(x) \/ NoCandidate(x)
  BY <1>1, GotoLocal DEF KeepAffinity, NoCandidate, Steps
<1>2. CASE Rotate(x)
  BY <1>2, CacheAssumption
  DEF Rotate, RotateAffinity, LocalOK, CacheTypeOK, Goto, Steps, Affinity
<1>3. CASE AffinityUnstable(x) \/ FenceRejected(x) \/ Seal(x) \/ SealRefused(x)
  BY <1>3, EndLocal DEF AffinityUnstable, FenceRejected, Seal, SealRefused
<1>4. CASE Lookup(x)
  BY <1>4 DEF Lookup, Compatible, LocalOK, Goto, Steps
<1>5. CASE ProbeAlive(x)
  <2>1. PICK k \in Longest(x) :
          /\ pc[x] = "probe"
          /\ \/ Choose(x, k)
             \/ /\ fall' = [fall EXCEPT ![x] = k]
                /\ Goto(x, "decide")
                /\ UNCHANGED <<at, seen, evictor, rotated, build, want, cands, tok, pick>>
    BY <1>5 DEF ProbeAlive
  <2>2. k \in Key
    BY DEF Longest, LocalOK
  <2>3. CASE Choose(x, k)
    BY <2>1, <2>2, <2>3, ChooseLocal DEF Steps
  <2>4. CASE ~Choose(x, k)
    BY <2>1, <2>2, <2>4 DEF LocalOK, Goto, Steps
  <2> QED BY <2>3, <2>4
<1>6. CASE ProbeStale(x)
  BY <1>6 DEF ProbeStale, Skip, LocalOK
<1>7. CASE ProbeDrift(x)
  <2>1. pc[x] \in Steps /\ (End(x) \/ (Goto(x, "retry") /\ UNCHANGED prepVars))
    BY <1>7 DEF ProbeDrift, Steps
  <2> QED BY <2>1, EndLocal, GotoLocal DEF Steps
<1>8. CASE ProbeFails(x) \/ StartRefused(x) \/ Finish(x)
  <2>1. pc[x] \in Steps /\ GiveUp(x)
    BY <1>8 DEF ProbeFails, StartRefused, Finish, Steps
  <2> QED BY <2>1, GiveUpLocal
<1>9. CASE Decide(x)
  <2>1. pc[x] \in Steps
    BY <1>9 DEF Decide, Steps
  <2>2. fall[x] \in Key \cup {None}
    BY DEF LocalOK
  <2>3. CASE Goto(x, "claim") /\ UNCHANGED prepVars
    BY <2>1, <2>3, GotoLocal DEF Steps
  <2>4. CASE Choose(x, None) \/ Choose(x, fall[x])
    BY <2>1, <2>2, <2>4, ChooseLocal
  <2>5. CASE GoPlain(x) \/ End(x)
    BY <2>1, <2>5, GiveUpLocal, EndLocal
  <2> QED BY <1>9, <2>3, <2>4, <2>5 DEF Decide
<1>10. CASE Claim(x)
  <2>1. opEpoch' \in [Key -> Nat]
    <3>1. Wanted(x) \in Key /\ ClaimOperation(Wanted(x), x)
      BY <1>10, WantedKey DEF Claim, Steps
    <3> QED BY <3>1, ClaimType DEF CacheTypeOK
  <2> QED BY <1>10, <2>1, WantedKey DEF Claim, LocalOK, Goto, Steps
<1>11. CASE ClaimRefused(x) \/ Start(x) \/ Create(x) \/ Record(x) \/ Verify(x)
  <2>1. pc[x] \in Steps /\ UNCHANGED prepVars /\ \E l \in Steps : Goto(x, l)
    BY <1>11 DEF ClaimRefused, Start, Create, Record, Verify, Steps
  <2> QED BY <2>1, GotoLocal
<1>12. CASE ReadAfterRace(x) \/ Publish(x)
  <2>1. pc[x] \in Steps /\ Wanted(x) \in Key
    BY <1>12, WantedKey DEF ReadAfterRace, Publish, Steps
  <2>2. Choose(x, Wanted(x)) \/ GiveUp(x)
    BY <1>12 DEF ReadAfterRace, Publish
  <2> QED BY <2>1, <2>2, ChooseLocal, GiveUpLocal
<1> QED BY <1>1, <1>2, <1>3, <1>4, <1>5, <1>6, <1>7, <1>8, <1>9, <1>10, <1>11, <1>12
        DEF PrepareStep

\* The other steps: loading a session row, an exception or a death, the
\* provider and the clock.
LEMMA PrepareNextLocal ==
  ASSUME PrepareInv, PrepareNext
  PROVE  LocalOK'
<1> USE DEF PrepareInv
<1>1. ASSUME NEW x \in Executor, NEW r \in setting.requests, NEW v \in setting.prefixes,
             LoadSession(x, r, v)
      PROVE  LocalOK'
  <2>1. r \in Request /\ v \in Prefix /\ v \in Nat
    BY PrepareAssumption, CacheAssumption DEF SettingOK
  <2> QED BY <1>1, <2>1 DEF LoadSession, LocalOK, CacheTypeOK, Goto, Steps
<1>2. ASSUME NEW x \in Executor, PrepareStep(x) PROVE LocalOK'
  BY <1>2, PrepareStepLocal
<1>3. ASSUME NEW x \in Executor, Abort(x) PROVE LocalOK'
  BY <1>3, EndLocal DEF Abort
<1>4. CASE UNCHANGED <<pc, prepVars>>
  BY <1>4 DEF LocalOK
<1> QED BY <1>1, <1>2, <1>3, <1>4 DEF PrepareNext, DropResource, Environment

-----------------------------------------------------------------------------
(* The executors only call the functions of the tables.                    *)

LEMMA OwnedEpoch ==
  ASSUME CacheTypeOK, EpochBound, NEW k \in Key, NEW x \in Executor, NEW e,
         OwnsOperation(k, x, e)
  PROVE  e \in 1..MaxClaims
BY CacheAssumption DEF CacheTypeOK, EpochBound, OwnsOperation

\* Every call of an executor is a step of the tables: the keys, the requests
\* and the fences it passes are of their kinds.
LEMMA PrepareStepMaps ==
  ASSUME PrepareInv, NEW x \in Executor, PrepareStep(x)
  PROVE  [CacheNext]_cacheVars
<1> USE DEF PrepareInv
<1>1. pc[x] \in Steps => at[x] \in Request /\ Wanted(x) \in Key
  BY WantedKey DEF LocalOK
<1>2. CASE UNCHANGED cacheVars
  BY <1>2
<1>3. CASE Rotate(x)
  <2>1. at[x] \in Request /\ RotateAffinity(at[x], x, affinity)
    BY <1>1, <1>3 DEF Rotate, RotateAffinity, Steps
  <2> QED BY <2>1 DEF CacheNext, RequestStep
<1>4. CASE ProbeStale(x)
  <2>1. PICK k \in Key : InvalidateResource(k, "expired") \/ InvalidateResource(k, "invalid")
                          \/ UNCHANGED cacheVars
    BY <1>4 DEF ProbeStale, Longest, LocalOK
  <2> QED BY <2>1 DEF CacheNext, KeyStep
<1>5. CASE Claim(x)
  <2>1. Wanted(x) \in Key /\ ClaimOperation(Wanted(x), x)
    BY <1>1, <1>5 DEF Claim, Steps
  <2> QED BY <2>1 DEF CacheNext, KeyStep, OperationStep
<1>6. CASE ClaimRefused(x)
  <2>1. Wanted(x) \in Key /\ (ClaimRunning(Wanted(x)) \/ UNCHANGED cacheVars)
    BY <1>1, <1>6 DEF ClaimRefused, Steps
  <2> QED BY <2>1 DEF CacheNext, KeyStep
<1>7. CASE Start(x)
  <2>1. Wanted(x) \in Key /\ StartOperation(Wanted(x), x, tok[x])
    BY <1>1, <1>7 DEF Start, Steps
  <2>2. tok[x] \in 1..MaxClaims
    BY <2>1, OwnedEpoch DEF StartOperation
  <2> QED BY <2>1, <2>2 DEF CacheNext, KeyStep, OperationStep
<1>8. CASE Record(x)
  <2>1. Wanted(x) \in Key /\ RecordObservation(Wanted(x), x, tok[x], "handle")
    BY <1>1, <1>8 DEF Record, Steps
  <2>2. tok[x] \in 1..MaxClaims
    BY <2>1, OwnedEpoch DEF RecordObservation
  <2> QED BY <2>1, <2>2 DEF CacheNext, KeyStep, OperationStep
<1>9. CASE Publish(x)
  <2>1. Wanted(x) \in Key /\ PublishResource(Wanted(x), x, tok[x])
    BY <1>1, <1>9 DEF Publish, Steps
  <2>2. tok[x] \in 1..MaxClaims
    BY <2>1, OwnedEpoch DEF PublishResource
  <2> QED BY <2>1, <2>2 DEF CacheNext, KeyStep, OperationStep
<1>10. CASE Finish(x) /\ ~UNCHANGED cacheVars
  <2>1. Wanted(x) \in Key
    BY <1>1, <1>10 DEF Finish, Steps
  <2>2. PICK outcome \in {"failed", "unknown"}, result \in {"handle", "error"} :
          FinishOperation(Wanted(x), x, tok[x], outcome, result)
    BY <1>10 DEF Finish
  <2>3. tok[x] \in 1..MaxClaims
    BY <2>1, <2>2, OwnedEpoch DEF FinishOperation
  <2> QED BY <2>1, <2>2, <2>3 DEF CacheNext, KeyStep, OperationStep
<1>11. CASE Seal(x)
  <2>1. at[x] \in Request /\ pick[x] \in Key \cup {None} /\ SealBinding(at[x], x, pick[x])
    BY <1>1, <1>11 DEF Seal, LocalOK, Steps
  <2> QED BY <2>1 DEF CacheNext, RequestStep
<1> QED BY <1>2, <1>3, <1>4, <1>5, <1>6, <1>7, <1>8, <1>9, <1>10, <1>11
        DEF PrepareStep, KeepAffinity, AffinityUnstable, Lookup, ProbeAlive, ProbeDrift,
            ProbeFails, NoCandidate, Decide, ReadAfterRace, StartRefused, Create, Verify,
            FenceRejected, SealRefused

LEMMA PrepareMaps ==
  ASSUME PrepareInv, [PrepareNext]_allVars
  PROVE  [CacheNext]_cacheVars
<1> USE DEF PrepareInv
<1>1. ASSUME NEW x \in Executor, PrepareStep(x) PROVE [CacheNext]_cacheVars
  BY <1>1, PrepareStepMaps
<1>2. CASE Environment
  <2>1. setting.requests \subseteq Request /\ setting.executors \subseteq Executor
    BY PrepareAssumption DEF SettingOK
  <2> QED BY <1>2, <2>1 DEF Environment, CacheNext, KeyStep, RequestStep
<1> QED BY <1>1, <1>2 DEF PrepareNext, LoadSession, Abort, DropResource

-----------------------------------------------------------------------------
(* The invariant, and the tables as the system uses them.                  *)

\* Only a claim counts, and it gives the operation an owner.
LEMMA EpochStep ==
  ASSUME CacheTypeOK, EpochBound, [CacheNext]_cacheVars
  PROVE  EpochBound'
<1> USE CacheAssumption DEF CacheTypeOK
<1>1. CASE UNCHANGED opVars
  BY <1>1 DEF EpochBound
<1>2. ASSUME NEW k \in Key, NEW x \in Executor, ClaimOperation(k, x) PROVE EpochBound'
  BY <1>2 DEF ClaimOperation, EpochBound
<1>3. ASSUME NEW k \in Key, KeyStep(k) PROVE EpochBound'
  <2>1. CASE UNCHANGED <<opOwner, opEpoch>>
    BY <2>1 DEF EpochBound
  <2> QED BY <1>2, <1>3, <2>1
          DEF KeyStep, OperationStep, StartOperation, PublishResource, RecordObservation,
              FinishOperation, ClaimRunning, InvalidateResource, ExpireOperation, AgeResource
<1>4. ASSUME NEW r \in Request, RequestStep(r) PROVE UNCHANGED opVars
  BY <1>4 DEF RequestStep, Reserve, Release, Grant, RotateAffinity, SealBinding
<1> QED BY <1>1, <1>3, <1>4 DEF CacheNext

\* The provider answers for one key at a time.
LEMMA ProviderStep ==
  ASSUME PrepareInv, [PrepareNext]_allVars
  PROVE  ProviderOK'
<1> USE DEF PrepareInv, ProviderOK
<1>1. CASE UNCHANGED provVars
  BY <1>1
<1>2. ASSUME NEW x \in Executor, Create(x) PROVE ProviderOK'
  <2>1. Wanted(x) \in Key
    BY <1>2, WantedKey DEF Create, Steps
  <2>2. CASE UNCHANGED provVars
    BY <2>2
  <2>3. CASE made' = [made EXCEPT ![Wanted(x)] = @ + 1] /\ alive' = [alive EXCEPT ![Wanted(x)] = TRUE]
    BY <2>1, <2>3
  <2> QED BY <1>2, <2>2, <2>3 DEF Create
<1>3. ASSUME NEW k \in Key, DropResource(k) PROVE ProviderOK'
  BY <1>3 DEF DropResource
<1>4. ASSUME NEW x \in Executor, PrepareStep(x), ~Create(x) PROVE UNCHANGED provVars
  BY <1>4 DEF PrepareStep, KeepAffinity, Rotate, AffinityUnstable, Lookup, ProbeAlive,
     ProbeStale, ProbeDrift, ProbeFails, NoCandidate, Decide, Claim, ClaimRefused,
     ReadAfterRace, Start, StartRefused, Finish, Record, Verify, Publish, FenceRejected,
     Seal, SealRefused
<1> QED BY <1>1, <1>2, <1>3, <1>4 DEF PrepareNext, LoadSession, Abort, Environment

LEMMA SettingStep ==
  ASSUME PrepareInv, [PrepareNext]_allVars
  PROVE  SettingOK'
<1> USE PrepareAssumption, CacheAssumption DEF PrepareInv, SettingOK
<1>1. CASE UNCHANGED bounds
  BY <1>1
<1>2. ASSUME NEW x \in Executor, NEW r, NEW v, LoadSession(x, r, v) PROVE SettingOK'
  BY <1>2 DEF LoadSession
<1>3. ASSUME NEW k \in Key, DropResource(k) PROVE SettingOK'
  BY <1>3 DEF DropResource, Fault
<1>4. ASSUME NEW x \in Executor, PrepareStep(x) PROVE UNCHANGED bounds
  BY <1>4 DEF PrepareStep, KeepAffinity, Rotate, AffinityUnstable, Lookup, ProbeAlive,
     ProbeStale, ProbeDrift, ProbeFails, NoCandidate, Decide, Claim, ClaimRefused,
     ReadAfterRace, Start, StartRefused, Create, Finish, Record, Verify, Publish,
     FenceRejected, Seal, SealRefused
<1> QED BY <1>1, <1>2, <1>3, <1>4 DEF PrepareNext, Abort, Environment

LEMMA PrepareInvStep == PrepareInv /\ [PrepareNext]_allVars => PrepareInv'
<1> SUFFICES ASSUME PrepareInv, [PrepareNext]_allVars PROVE PrepareInv'
  OBVIOUS
<1>1. [CacheNext]_cacheVars
  BY PrepareMaps
<1>2. CacheTypeOK'
  BY <1>1, CacheStepType DEF PrepareInv
<1>3. EpochBound'
  BY <1>1, EpochStep DEF PrepareInv
<1>4. LocalOK'
  <2>1. CASE UNCHANGED allVars
    BY <2>1 DEF PrepareInv, LocalOK
  <2> QED BY <2>1, PrepareNextLocal
<1> QED BY <1>2, <1>3, <1>4, ProviderStep, SettingStep DEF PrepareInv

LEMMA PrepareInvariance == PrepareSpec => []PrepareInv
BY PrepareInitInv, PrepareInvStep, PTL DEF PrepareSpec

\* However many executors prepare, whatever fails: what they do to the tables is
\* what the functions allow, so every theorem about the functions holds of them.
THEOREM PreparationsUseFunctions == PrepareSpec => CacheSpec
<1>1. PrepareInit => CacheInit
  BY DEF PrepareInit
<1>2. PrepareInv /\ [PrepareNext]_allVars => [CacheNext]_cacheVars
  BY PrepareMaps
<1> QED BY <1>1, <1>2, PrepareInvariance, PTL DEF PrepareSpec, CacheSpec

\* The tables and the executors keep their types, and a request evicts the
\* cache of its session at most once, whichever of its executors does it.
THEOREM PreparationsAreSafe == PrepareSpec => []PrepareSafe
<1>1. PrepareInv /\ RotationsAreCounted => PrepareSafe
  BY DEF PrepareInv, LocalOK, SettingOK, ProviderOK, PrepareSafe, PrepareTypeOK
<1> QED BY <1>1, PrepareInvariance, PreparationsUseFunctions, RotatesAtMostOnce, PTL

\* No executor leaves a resource row behind without an operation that succeeded.
THEOREM PreparedResourcesAreCreated == PrepareSpec => []ResourcesAreCreated
BY PreparationsUseFunctions, ResourcesStandForOperations, PTL

-----------------------------------------------------------------------------
(* Creations.                                                              *)

Calling == {"create", "reject"}
Maybe   == {"running", "unknown"}

\* A key for which something was created is one nobody may claim again; and
\* from the start of the operation to the answer, nothing was created for its
\* key and nobody else may say how the operation ended.
CreationInv ==
  /\ \A k \in Key : made[k] <= 1 /\ (made[k] = 1 => op[k] \in Maybe \cup {"succeeded"})
  /\ \A x \in Executor :
       pc[x] \in Calling =>
         made[Wanted(x)] = 0 /\ opOwner[Wanted(x)] = x /\ op[Wanted(x)] \in Maybe

LEMMA CreationInit == PrepareInit => CreationInv
BY CacheAssumption DEF PrepareInit, CacheInit, CreationInv, Calling

ExecutorMoves(y) ==
  \/ PrepareStep(y) \/ Abort(y)
  \/ \E r \in setting.requests, v \in setting.prefixes : LoadSession(y, r, v)

\* The step of one executor leaves where the others are and what they want.
LEMMA OthersStay ==
  ASSUME PrepareInv, NEW y \in Executor, ExecutorMoves(y), NEW x \in Executor, x # y
  PROVE  pc'[x] = pc[x] /\ Wanted(x)' = Wanted(x)
<1> USE DEF PrepareInv, LocalOK, Wanted, Goto
<1>1. ASSUME NEW k, Choose(y, k) PROVE pc'[x] = pc[x] /\ Wanted(x)' = Wanted(x)
  BY <1>1 DEF Choose
<1>2. CASE End(y)
  BY <1>2 DEF End
<1>3. CASE GoPlain(y)
  BY <1>3 DEF GoPlain
<1>4. CASE \E l : Goto(y, l) /\ UNCHANGED <<seen, want>>
  BY <1>4
<1>5. CASE UNCHANGED <<pc, seen, want>>
  BY <1>5
<1>6. CASE Rotate(y)
  BY <1>6 DEF Rotate
<1>7. ASSUME NEW r, NEW v, LoadSession(y, r, v) PROVE pc'[x] = pc[x] /\ Wanted(x)' = Wanted(x)
  BY <1>7 DEF LoadSession
<1> HIDE DEF PrepareInv, LocalOK, Wanted, Goto
<1> QED BY <1>1, <1>2, <1>3, <1>4, <1>5, <1>6, <1>7
        DEF ExecutorMoves, PrepareStep, KeepAffinity, AffinityUnstable, Lookup, ProbeAlive,
            ProbeStale, ProbeDrift, ProbeFails, NoCandidate, Decide, Claim, ClaimRefused,
            ReadAfterRace, Start, StartRefused, Create, Finish, Record, Verify, Publish,
            FenceRejected, Seal, SealRefused, Abort, GiveUp

\* Only the start of an operation and the call itself lead into a call.
LEMMA CallsBegin ==
  ASSUME PrepareInv, NEW y \in Executor, ExecutorMoves(y), ~Start(y), ~Create(y)
  PROVE  pc'[y] \notin Calling
<1> USE DEF PrepareInv, LocalOK, Goto, Calling
<1>1. ASSUME NEW k, Choose(y, k) PROVE pc'[y] \notin Calling
  BY <1>1 DEF Choose
<1>2. CASE End(y)
  BY <1>2 DEF End
<1>3. CASE GoPlain(y)
  BY <1>3 DEF GoPlain
<1>4. ASSUME NEW l, l \notin Calling, Goto(y, l) PROVE pc'[y] \notin Calling
  BY <1>4
<1>5. CASE Rotate(y) \/ ProbeStale(y) \/ \E r, v : LoadSession(y, r, v)
  BY <1>5 DEF Rotate, ProbeStale, LoadSession
<1> HIDE DEF PrepareInv, LocalOK, Goto
<1> QED BY <1>1, <1>2, <1>3, <1>4, <1>5
        DEF ExecutorMoves, PrepareStep, KeepAffinity, AffinityUnstable, Lookup, ProbeAlive,
            ProbeDrift, ProbeFails, NoCandidate, Decide, Claim, ClaimRefused,
            ReadAfterRace, StartRefused, Finish, Record, Verify, Publish,
            FenceRejected, Seal, SealRefused, Abort, GiveUp

\* No function takes an operation that may have had its effect out of that
\* state but the call of its owner that knows of no effect.
LEMMA OperationsStay ==
  ASSUME PrepareInv, CreationInv, NEW y \in Executor, ExecutorMoves(y), ~Start(y),
         NEW k \in Key
  PROVE  /\ made[k] = 1 => op'[k] \in Maybe \cup {"succeeded"}
         /\ op[k] \in Maybe /\ opOwner[k] # y => op'[k] \in Maybe /\ opOwner'[k] = opOwner[k]
<1> USE DEF PrepareInv, CacheTypeOK, CreationInv, Maybe
<1>1. CASE UNCHANGED <<op, opOwner>>
  BY <1>1
<1>2. pc[y] \in Steps => Wanted(y) \in Key
  BY WantedKey
<1>3. CASE Claim(y)
  BY <1>2, <1>3 DEF Claim, ClaimOperation, Steps
<1>4. CASE ClaimRefused(y)
  BY <1>2, <1>4 DEF ClaimRefused, ClaimRunning, Steps
<1>5. CASE Publish(y)
  BY <1>2, <1>5 DEF Publish, PublishResource, OwnsOperation, Steps
<1>6. CASE Finish(y) /\ ~UNCHANGED cacheVars
  <2>1. Wanted(y) \in Key /\ pc[y] \in {"reject", "unknown"}
    BY <1>2, <1>6 DEF Finish, Steps
  <2>2. /\ opOwner[Wanted(y)] = y /\ opOwner' = opOwner
        /\ op' = [op EXCEPT ![Wanted(y)] = IF pc[y] = "reject" THEN "failed" ELSE "unknown"]
    BY <1>6 DEF Finish, FinishOperation, OwnsOperation
  <2>3. pc[y] = "reject" => made[Wanted(y)] = 0
    BY DEF Calling
  <2> QED BY <2>1, <2>2, <2>3
<1>7. CASE Rotate(y) \/ ProbeStale(y) \/ Record(y) \/ Seal(y)
  BY <1>1, <1>7 DEF Rotate, RotateAffinity, ProbeStale, InvalidateResource, Record,
     RecordObservation, Seal, SealBinding
<1> HIDE DEF PrepareInv, CacheTypeOK, CreationInv
<1> QED BY <1>1, <1>3, <1>4, <1>5, <1>6, <1>7
        DEF ExecutorMoves, PrepareStep, KeepAffinity, AffinityUnstable, Lookup, ProbeAlive,
            ProbeDrift, ProbeFails, NoCandidate, Decide, ReadAfterRace, StartRefused, Create,
            Finish, Verify, FenceRejected, SealRefused, Abort, LoadSession

LEMMA StartCreates ==
  ASSUME PrepareInv, CreationInv, NEW y \in Executor, Start(y)
  PROVE  CreationInv'
<1> DEFINE k == Wanted(y)
<1>1. k \in Key
  BY WantedKey DEF Start, Steps, PrepareInv
<1>2. op[k] = "leased" /\ opOwner[k] = y /\ opOwner' = opOwner /\ made' = made
  BY DEF Start, StartOperation, OwnsOperation
<1>3. op' = [op EXCEPT ![k] = "running"]
  BY DEF Start, StartOperation
<1>4. \A x \in Executor : Wanted(x)' = Wanted(x) /\ (x # y => pc'[x] = pc[x])
  BY DEF Start, Goto, Wanted, PrepareInv, LocalOK
<1>5. made[k] = 0
  BY <1>1, <1>2 DEF CreationInv, Maybe, PrepareInv, ProviderOK
<1>6. \A x \in Executor : pc[x] \in Calling => Wanted(x) # k
  BY <1>2 DEF CreationInv, Maybe
<1>7. \A x \in Executor : pc[x] \in Calling => Wanted(x) \in Key
  BY WantedKey DEF Calling, Steps, PrepareInv
<1> HIDE DEF k
<1>8. \A j \in Key : op'[j] = IF j = k THEN "running" ELSE op[j]
  BY <1>1, <1>3 DEF PrepareInv, CacheTypeOK
<1>9. \A j \in Key : made'[j] <= 1 /\ (made'[j] = 1 => op'[j] \in Maybe \cup {"succeeded"})
  BY <1>2, <1>5, <1>8 DEF CreationInv
<1>10. ASSUME NEW x \in Executor, pc'[x] \in Calling
       PROVE  made'[Wanted(x)'] = 0 /\ opOwner'[Wanted(x)'] = x /\ op'[Wanted(x)'] \in Maybe
  <2>1. CASE x = y
    BY <1>1, <1>2, <1>4, <1>5, <1>8, <2>1 DEF k, Maybe
  <2>2. CASE x # y
    BY <1>2, <1>4, <1>6, <1>7, <1>8, <1>10, <2>2 DEF CreationInv
  <2> QED BY <2>1, <2>2
<1> QED BY <1>9, <1>10 DEF CreationInv

LEMMA CreateCreatesOnce ==
  ASSUME PrepareInv, CreationInv, NEW y \in Executor, Create(y)
  PROVE  CreationInv'
<1> DEFINE k == Wanted(y)
<1>1. k \in Key /\ pc[y] \in Calling
  BY WantedKey DEF Create, Steps, PrepareInv, Calling
<1>2. made[k] = 0 /\ opOwner[k] = y /\ op[k] \in Maybe
  BY <1>1 DEF CreationInv
<1>3. UNCHANGED <<op, opOwner, seen, want>>
  BY DEF Create
<1>4. \A x \in Executor : Wanted(x)' = Wanted(x) /\ (x # y => pc'[x] = pc[x])
  BY <1>3 DEF Create, Goto, Wanted, PrepareInv, LocalOK
<1>5. made' = made \/ (made' = [made EXCEPT ![k] = @ + 1] /\ pc'[y] \notin Calling)
  BY DEF Create, Goto, Calling, PrepareInv, LocalOK
<1>6. \A x \in Executor : pc[x] \in Calling => Wanted(x) \in Key /\ (x # y => Wanted(x) # k)
  BY <1>2, WantedKey DEF CreationInv, Calling, Steps, PrepareInv
<1> HIDE DEF k
<1>7. made' = made \/ (made' = [made EXCEPT ![k] = 1] /\ pc'[y] \notin Calling)
  BY <1>2, <1>5
<1>8. \A j \in Key : made'[j] = made[j] \/ (j = k /\ made'[j] = 1 /\ pc'[y] \notin Calling)
  BY <1>1, <1>7 DEF PrepareInv, ProviderOK
<1>9. \A j \in Key : made'[j] <= 1 /\ (made'[j] = 1 => op'[j] \in Maybe \cup {"succeeded"})
  BY <1>2, <1>3, <1>8 DEF CreationInv
<1>10. ASSUME NEW x \in Executor, pc'[x] \in Calling
       PROVE  made'[Wanted(x)'] = 0 /\ opOwner'[Wanted(x)'] = x /\ op'[Wanted(x)'] \in Maybe
  <2>1. CASE x = y
    BY <1>1, <1>2, <1>3, <1>4, <1>8, <1>10, <2>1 DEF k
  <2>2. CASE x # y
    BY <1>3, <1>4, <1>6, <1>8, <1>10, <2>2 DEF CreationInv
  <2> QED BY <2>1, <2>2
<1> QED BY <1>9, <1>10 DEF CreationInv

LEMMA CreationStep ==
  ASSUME PrepareInv, CreationInv, [PrepareNext]_allVars
  PROVE  CreationInv'
<1>1. CASE UNCHANGED <<op, opOwner, made, pc, seen, want>>
  BY <1>1 DEF CreationInv, Wanted
<1>2. ASSUME NEW y \in Executor, ExecutorMoves(y), ~Start(y), ~Create(y)
      PROVE  CreationInv'
  <2>1. UNCHANGED made
    BY <1>2 DEF ExecutorMoves, PrepareStep, KeepAffinity, Rotate, AffinityUnstable, Lookup,
       ProbeAlive, ProbeStale, ProbeDrift, ProbeFails, NoCandidate, Decide, Claim,
       ClaimRefused, ReadAfterRace, StartRefused, Finish, Record, Verify, Publish,
       FenceRejected, Seal, SealRefused, Abort, LoadSession
  <2>2. \A k \in Key : made'[k] <= 1 /\ (made'[k] = 1 => op'[k] \in Maybe \cup {"succeeded"})
    BY <1>2, <2>1, OperationsStay DEF CreationInv
  <2>3. ASSUME NEW x \in Executor, pc'[x] \in Calling
        PROVE  made'[Wanted(x)'] = 0 /\ opOwner'[Wanted(x)'] = x /\ op'[Wanted(x)'] \in Maybe
    <3>1. x # y /\ pc[x] \in Calling /\ Wanted(x)' = Wanted(x)
      BY <1>2, <2>3, CallsBegin, OthersStay
    <3>2. Wanted(x) \in Key
      BY <3>1, WantedKey DEF Calling, Steps, PrepareInv
    <3> QED BY <1>2, <2>1, <3>1, <3>2, OperationsStay DEF CreationInv
  <2> QED BY <2>2, <2>3 DEF CreationInv
<1>3. CASE Environment
  BY <1>1, <1>3 DEF Environment, Reserve, Release, Grant, ExpireOperation, AgeResource
<1>4. ASSUME NEW k \in Key, DropResource(k) PROVE CreationInv'
  BY <1>1, <1>4 DEF DropResource
<1> QED BY <1>1, <1>2, <1>3, <1>4, StartCreates, CreateCreatesOnce DEF PrepareNext, ExecutorMoves

\* The provider is asked at most once for a resource of one key, whoever dies,
\* loses its lease or its answer: an operation that may have had its effect
\* stays running, unknown or succeeded for good.
THEOREM CreatedAtMostOnce == PrepareSpec => []OneCreation
<1>1. PrepareInit => PrepareInv /\ CreationInv
  BY PrepareInitInv, CreationInit
<1>2. PrepareInv /\ CreationInv /\ [PrepareNext]_allVars => PrepareInv' /\ CreationInv'
  BY PrepareInvStep, CreationStep
<1>3. CreationInv => OneCreation
  BY DEF CreationInv, OneCreation
<1> QED BY <1>1, <1>2, <1>3, PTL DEF PrepareSpec

-----------------------------------------------------------------------------
(* The affinity epoch of what is sealed.                                   *)

\* What an executor found and what it chose is of the epoch it works in.
Fits(x) ==
  /\ pc[x] \in {"probe", "decide"} =>
       (\A k \in cands[x] : k[1] = seen[x]) /\ (fall[x] # None => fall[x][1] = seen[x])
  /\ pc[x] = "seal" /\ pick[x] # None => pick[x][1] = seen[x]

\* The executor that may dispatch the request which holds the session knows
\* the session's epoch; nobody else can rotate it.
Current(x) ==
  pc[x] \in Steps /\ fence[at[x]] = x /\ turn[at[x]] = "held" => seen[x] = affinity

AffinityInv ==
  /\ OneHolder
  /\ \A r \in Request : fence[r] # None => turn[r] # "new"
  /\ \A x \in Executor : Fits(x) /\ Current(x)

LEMMA AffinityInit == PrepareInit => AffinityInv
BY DEF PrepareInit, CacheInit, AffinityInv, OneHolder, Fits, Current, Steps

\* The step of one executor leaves the others' findings alone.
LEMMA OthersKeep ==
  ASSUME PrepareInv, NEW y \in Executor, ExecutorMoves(y), NEW x \in Executor, x # y
  PROVE  /\ pc'[x] = pc[x] /\ at'[x] = at[x] /\ seen'[x] = seen[x]
         /\ cands'[x] = cands[x] /\ fall'[x] = fall[x] /\ pick'[x] = pick[x]
<1> DEFINE Kept == /\ pc'[x] = pc[x] /\ at'[x] = at[x] /\ seen'[x] = seen[x]
                   /\ cands'[x] = cands[x] /\ fall'[x] = fall[x] /\ pick'[x] = pick[x]
<1> SUFFICES Kept
  OBVIOUS
<1> USE DEF PrepareInv, LocalOK, Goto
<1>1. ASSUME NEW k, Choose(y, k) PROVE Kept
  BY <1>1 DEF Choose
<1>2. CASE End(y)
  BY <1>2 DEF End
<1>3. CASE GoPlain(y)
  BY <1>3 DEF GoPlain
<1>4. CASE \E l : Goto(y, l) /\ UNCHANGED <<at, seen, cands, fall, pick>>
  BY <1>4
<1>5. CASE Rotate(y) \/ Lookup(y) \/ ProbeStale(y) \/ \E r, v : LoadSession(y, r, v)
  BY <1>5 DEF Rotate, Lookup, ProbeStale, Skip, LoadSession
<1>6. CASE \E k : /\ fall' = [fall EXCEPT ![y] = k] /\ Goto(y, "decide")
                  /\ UNCHANGED <<at, seen, cands, pick>>
  BY <1>6
<1> HIDE DEF PrepareInv, LocalOK, Goto, Kept
<1>7. CASE KeepAffinity(y) \/ NoCandidate(y) \/ Claim(y) \/ ClaimRefused(y) \/ Start(y)
           \/ Create(y) \/ Record(y) \/ Verify(y)
  BY <1>4, <1>7 DEF KeepAffinity, NoCandidate, Claim, ClaimRefused, Start, Create, Record, Verify
<1>8. CASE AffinityUnstable(y) \/ ProbeFails(y) \/ StartRefused(y) \/ Finish(y)
           \/ FenceRejected(y) \/ Seal(y) \/ SealRefused(y) \/ Abort(y)
  BY <1>2, <1>3, <1>8 DEF AffinityUnstable, ProbeFails, StartRefused, Finish, FenceRejected,
     Seal, SealRefused, Abort, GiveUp
<1>9. CASE ProbeAlive(y) \/ ProbeDrift(y)
  BY <1>1, <1>2, <1>4, <1>6, <1>9 DEF ProbeAlive, ProbeDrift
<1>10. CASE Decide(y) \/ ReadAfterRace(y) \/ Publish(y)
  BY <1>1, <1>2, <1>3, <1>4, <1>10 DEF Decide, ReadAfterRace, Publish, GiveUp
<1> QED BY <1>5, <1>7, <1>8, <1>9, <1>10 DEF ExecutorMoves, PrepareStep

\* An executor chooses among what it found for its epoch.
LEMMA OwnFits ==
  ASSUME PrepareInv, NEW y \in Executor, ExecutorMoves(y), Fits(y)
  PROVE  Fits(y)'
<1> USE DEF PrepareInv, LocalOK, Goto
<1>1. ASSUME NEW k, Choose(y, k), k # None => k[1] = seen[y] PROVE Fits(y)'
  <2>1. CASE build[y]
    BY <1>1, <2>1 DEF Choose, Fits
  <2>2. CASE ~build[y]
    BY <1>1, <2>2 DEF Choose, Fits
  <2> QED BY <2>1, <2>2
<1>2. CASE End(y)
  BY <1>2 DEF End, Fits
<1>3. CASE GoPlain(y)
  BY <1>3 DEF GoPlain, Fits
<1>4. ASSUME NEW l, l \notin {"probe", "decide", "seal"}, Goto(y, l) PROVE Fits(y)'
  BY <1>4 DEF Fits
<1>5. CASE Lookup(y)
  BY <1>5 DEF Lookup, Compatible, Fits
<1>6. CASE ProbeStale(y)
  BY <1>6 DEF ProbeStale, Skip, Fits
<1>7. CASE NoCandidate(y)
  BY <1>7 DEF NoCandidate, Fits
<1>8. CASE ProbeAlive(y)
  <2>1. PICK k \in Longest(y) :
          /\ pc[y] = "probe"
          /\ \/ Choose(y, k)
             \/ /\ fall' = [fall EXCEPT ![y] = k]
                /\ Goto(y, "decide")
                /\ UNCHANGED <<at, seen, evictor, rotated, build, want, cands, tok, pick>>
    BY <1>8 DEF ProbeAlive
  <2>2. k \in cands[y] /\ k[1] = seen[y]
    BY <2>1 DEF Longest, Fits
  <2>3. CASE ~Choose(y, k)
    BY <2>1, <2>2, <2>3 DEF Fits
  <2> QED BY <1>1, <2>2, <2>3
<1>9. CASE Decide(y)
  <2>1. fall[y] # None => fall[y][1] = seen[y]
    BY <1>9 DEF Decide, Fits
  <2> HIDE DEF PrepareInv, LocalOK, Goto
  <2> QED BY <1>1, <1>2, <1>3, <1>4, <1>9, <2>1 DEF Decide
<1>10. CASE ReadAfterRace(y) \/ Publish(y)
  <2>1. Wanted(y)[1] = seen[y]
    BY DEF Wanted
  <2> HIDE DEF PrepareInv, LocalOK, Goto
  <2> QED BY <1>1, <1>2, <1>3, <1>10, <2>1 DEF ReadAfterRace, Publish, GiveUp
<1>11. CASE Rotate(y) \/ \E r, v : LoadSession(y, r, v)
  BY <1>11 DEF Rotate, LoadSession, Fits
<1> HIDE DEF PrepareInv, LocalOK, Goto
<1>12. CASE KeepAffinity(y) \/ ProbeDrift(y) \/ Claim(y) \/ ClaimRefused(y) \/ Start(y)
            \/ Create(y) \/ Record(y) \/ Verify(y)
  <2>1. End(y) \/ \E l \in Steps \ {"probe", "decide", "seal"} : Goto(y, l)
    BY <1>12 DEF KeepAffinity, ProbeDrift, Claim, ClaimRefused, Start, Create, Record, Verify, Steps
  <2> QED BY <1>2, <1>4, <2>1
<1>13. CASE AffinityUnstable(y) \/ ProbeFails(y) \/ StartRefused(y) \/ Finish(y)
            \/ FenceRejected(y) \/ Seal(y) \/ SealRefused(y) \/ Abort(y)
  BY <1>2, <1>3, <1>13 DEF AffinityUnstable, ProbeFails, StartRefused, Finish, FenceRejected,
     Seal, SealRefused, Abort, GiveUp
<1> QED BY <1>5, <1>6, <1>7, <1>8, <1>9, <1>10, <1>11, <1>12, <1>13
        DEF ExecutorMoves, PrepareStep

\* Executors never touch the reservation or the fence, and only a rotation
\* moves the session to another epoch.
LEMMA SessionMoves ==
  ASSUME NEW y \in Executor, ExecutorMoves(y)
  PROVE  /\ UNCHANGED <<turn, fence>>
         /\ Rotate(y) \/ UNCHANGED affinity
<1>1. CASE UNCHANGED cacheVars
  BY <1>1
<1>2. CASE Rotate(y)
  BY <1>2 DEF Rotate, RotateAffinity
<1>3. CASE ProbeStale(y) \/ Finish(y) \/ Publish(y) \/ Record(y) \/ Start(y)
  BY <1>3 DEF ProbeStale, InvalidateResource, Finish, FinishOperation, Publish, PublishResource,
     Record, RecordObservation, Start, StartOperation
<1>4. CASE Claim(y) \/ ClaimRefused(y) \/ Seal(y)
  BY <1>4 DEF Claim, ClaimOperation, ClaimRefused, ClaimRunning, Seal, SealBinding
<1> QED BY <1>1, <1>2, <1>3, <1>4
        DEF ExecutorMoves, PrepareStep, KeepAffinity, AffinityUnstable, Lookup, ProbeAlive,
            ProbeDrift, ProbeFails, NoCandidate, Decide, ReadAfterRace, StartRefused, Create,
            Verify, FenceRejected, SealRefused, Abort, LoadSession

\* An executor at work stays in its epoch, unless it rotates or stops.
LEMMA EpochMoves ==
  ASSUME PrepareInv, NEW y \in Executor, ExecutorMoves(y), ~Rotate(y)
  PROVE  \/ at'[y] = at[y] /\ seen'[y] = seen[y] /\ pc[y] \in Steps
         \/ pc'[y] = "idle"
         \/ seen'[y] = affinity
<1> DEFINE Moved == (at'[y] = at[y] /\ seen'[y] = seen[y]) \/ pc'[y] = "idle"
<1> USE DEF PrepareInv, LocalOK
<1>1. ASSUME NEW k, Choose(y, k) PROVE Moved
  BY <1>1 DEF Choose
<1>2. ASSUME End(y) PROVE Moved
  BY <1>2 DEF End, Goto
<1>3. ASSUME GoPlain(y) PROVE Moved
  BY <1>3 DEF GoPlain
<1>4. ASSUME UNCHANGED <<at, seen>> PROVE Moved
  BY <1>4
<1>5. CASE \E r, v : LoadSession(y, r, v)
  BY <1>5 DEF LoadSession
<1> HIDE DEF PrepareInv, LocalOK
<1>6. CASE PrepareStep(y) \/ Abort(y)
  <2>1. pc[y] \in Steps
    BY <1>6 DEF PrepareStep, Steps, KeepAffinity, Rotate, AffinityUnstable, Lookup, ProbeAlive,
       ProbeStale, ProbeDrift, ProbeFails, NoCandidate, Decide, Claim, ClaimRefused,
       ReadAfterRace, Start, StartRefused, Create, Finish, Record, Verify, Publish,
       FenceRejected, Seal, SealRefused, Abort
  <2>2. Moved
    <3> HIDE DEF Moved
    <3> QED BY <1>1, <1>2, <1>3, <1>4, <1>6
            DEF PrepareStep, KeepAffinity, AffinityUnstable, Lookup, ProbeAlive,
                ProbeStale, ProbeDrift, ProbeFails, NoCandidate, Decide, Claim, ClaimRefused,
                ReadAfterRace, Start, StartRefused, Create, Finish, Record, Verify, Publish,
                FenceRejected, Seal, SealRefused, Abort, GiveUp
  <2> QED BY <2>1, <2>2
<1> QED BY <1>5, <1>6 DEF ExecutorMoves

\* One request holds the session; a fence is given after its reservation.
LEMMA HolderStep ==
  ASSUME CacheTypeOK, CacheTypeOK', AffinityInv, [CacheNext]_cacheVars
  PROVE  OneHolder' /\ \A r \in Request : fence'[r] # None => turn'[r] # "new"
<1> USE DEF CacheTypeOK, AffinityInv, OneHolder
<1>1. CASE UNCHANGED <<turn, fence>>
  BY <1>1
<1>2. ASSUME NEW r \in Request, Reserve(r) \/ \E closing \in BOOLEAN : Release(r, closing)
      PROVE OneHolder' /\ \A q \in Request : fence'[q] # None => turn'[q] # "new"
  BY <1>2 DEF Reserve, Release
<1>3. ASSUME NEW r \in Request, NEW x \in Executor, Grant(r, x)
      PROVE OneHolder' /\ \A q \in Request : fence'[q] # None => turn'[q] # "new"
  BY <1>3 DEF Grant
<1> HIDE DEF CacheTypeOK, AffinityInv, OneHolder
<1>4. ASSUME NEW k \in Key, KeyStep(k) PROVE UNCHANGED <<turn, fence>>
  BY <1>4 DEF KeyStep, OperationStep, ClaimOperation, StartOperation, PublishResource,
     RecordObservation, FinishOperation, ClaimRunning, InvalidateResource, ExpireOperation,
     AgeResource
<1>5. ASSUME NEW r \in Request, NEW x \in Executor,
             RotateAffinity(r, x, affinity) \/ \E k \in Key \cup {None} : SealBinding(r, x, k)
      PROVE UNCHANGED <<turn, fence>>
  BY <1>5 DEF RotateAffinity, SealBinding
<1> QED BY <1>1, <1>2, <1>3, <1>4, <1>5 DEF CacheNext, RequestStep

\* A rotation leaves no other executor that holds the session behind.
LEMMA CurrentStep ==
  ASSUME PrepareInv, PrepareInv', AffinityInv, NEW y \in Executor, ExecutorMoves(y),
         NEW x \in Executor
  PROVE  Current(x)'
<1> USE DEF PrepareInv, LocalOK, CacheTypeOK
<1>1. UNCHANGED <<turn, fence>>
  BY SessionMoves
<1>2. Current(x)
  BY DEF AffinityInv
<1>3. CASE Rotate(y)
  <2>1. /\ affinity' = affinity + 1 /\ fence[at[y]] = y /\ turn[at[y]] = "held"
        /\ seen[y] = affinity /\ at' = at /\ seen' = [seen EXCEPT ![y] = @ + 1]
        /\ pc[y] \in Steps
    BY <1>3 DEF Rotate, RotateAffinity, Steps
  <2>2. CASE x = y
    BY <2>1, <2>2 DEF Current, Affinity
  <2>3. CASE x # y
    <3>1. pc'[x] = pc[x] /\ at'[x] = at[x]
      BY <2>3, OthersKeep
    <3>2. ASSUME pc[x] \in Steps, fence[at[x]] = x, turn[at[x]] = "held" PROVE FALSE
      <4>1. at[x] = at[y]
        BY <2>1, <3>2 DEF AffinityInv, OneHolder
      <4> QED BY <2>1, <2>3, <3>2, <4>1
    <3> QED BY <1>1, <3>1, <3>2 DEF Current
  <2> QED BY <2>2, <2>3
<1>4. CASE ~Rotate(y)
  <2>1. affinity' = affinity
    BY <1>4, SessionMoves
  <2>2. CASE x = y
    <3>1. \/ at'[y] = at[y] /\ seen'[y] = seen[y] /\ pc[y] \in Steps
          \/ pc'[y] = "idle"
          \/ seen'[y] = affinity
      BY <1>4, EpochMoves
    <3> QED BY <1>1, <1>2, <2>1, <2>2, <3>1 DEF Current, Steps
  <2>3. CASE x # y
    <3>1. pc'[x] = pc[x] /\ at'[x] = at[x] /\ seen'[x] = seen[x]
      BY <2>3, OthersKeep
    <3> QED BY <1>1, <1>2, <2>1, <3>1 DEF Current
  <2> QED BY <2>2, <2>3
<1> QED BY <1>3, <1>4

\* A reservation finds no fence of its request, a grant no executor at work.
LEMMA CurrentGrant ==
  ASSUME PrepareInv, AffinityInv, Environment, NEW x \in Executor
  PROVE  Current(x)'
<1> USE DEF PrepareInv, LocalOK, CacheTypeOK, AffinityInv
<1>1. setting.requests \subseteq Request /\ setting.executors \subseteq Executor
  BY PrepareAssumption DEF SettingOK
<1>2. UNCHANGED <<pc, at, seen>>
  BY DEF Environment
<1>3. CASE UNCHANGED <<turn, fence, affinity>>
  BY <1>2, <1>3 DEF Current
<1>4. ASSUME NEW r \in Request, Reserve(r) PROVE Current(x)'
  BY <1>2, <1>4, CacheAssumption DEF Reserve, Current
<1>5. ASSUME NEW r \in Request, NEW closing \in BOOLEAN, Release(r, closing) PROVE Current(x)'
  BY <1>2, <1>5, CacheAssumption DEF Release, Current
<1>6. ASSUME NEW r \in Request, NEW z \in Executor, pc[z] = "idle", Grant(r, z)
      PROVE Current(x)'
  BY <1>2, <1>6 DEF Grant, Current, Steps
<1> HIDE DEF PrepareInv, LocalOK, CacheTypeOK, AffinityInv
<1>7. ASSUME NEW k \in Key, ExpireOperation(k) \/ AgeResource(k)
      PROVE UNCHANGED <<turn, fence, affinity>>
  BY <1>7 DEF ExpireOperation, AgeResource
<1> QED BY <1>1, <1>3, <1>4, <1>5, <1>6, <1>7 DEF Environment

LEMMA AffinityStep ==
  ASSUME PrepareInv, PrepareInv', AffinityInv, [PrepareNext]_allVars
  PROVE  AffinityInv'
<1>1. OneHolder' /\ \A r \in Request : fence'[r] # None => turn'[r] # "new"
  BY PrepareMaps, HolderStep DEF PrepareInv
<1>2. ASSUME NEW y \in Executor, ExecutorMoves(y), NEW x \in Executor
      PROVE Fits(x)' /\ Current(x)'
  <2>1. Fits(x)
    BY DEF AffinityInv
  <2>2. CASE x = y
    BY <1>2, <2>1, <2>2, OwnFits, CurrentStep
  <2>3. CASE x # y
    <3>1. /\ pc'[x] = pc[x] /\ seen'[x] = seen[x]
          /\ cands'[x] = cands[x] /\ fall'[x] = fall[x] /\ pick'[x] = pick[x]
      BY <1>2, <2>3, OthersKeep
    <3> QED BY <1>2, <2>1, <3>1, CurrentStep DEF Fits
  <2> QED BY <2>2, <2>3
<1>3. ASSUME Environment, NEW x \in Executor PROVE Fits(x)' /\ Current(x)'
  <2>1. Fits(x) /\ UNCHANGED <<pc, prepVars>>
    BY <1>3 DEF AffinityInv, Environment
  <2> QED BY <1>3, <2>1, CurrentGrant DEF Fits
<1>4. ASSUME UNCHANGED allVars \/ \E k \in Key : DropResource(k), NEW x \in Executor
      PROVE Fits(x)' /\ Current(x)'
  <2>1. UNCHANGED <<pc, prepVars, cacheVars>>
    BY <1>4 DEF DropResource
  <2> QED BY <2>1 DEF AffinityInv, Fits, Current
<1> QED BY <1>1, <1>2, <1>3, <1>4 DEF AffinityInv, PrepareNext, ExecutorMoves

\* What is sealed for the holder of the session is of the session's epoch.
LEMMA SealedCurrent ==
  ASSUME PrepareInv, AffinityInv, [PrepareNext]_allVars, NEW r \in Request,
         sealed'[r] # sealed[r], sealed'[r] \in Key, turn[r] = "held"
  PROVE  sealed'[r][1] = affinity
<1> USE DEF PrepareInv
<1>1. ASSUME NEW y \in Executor, Seal(y) PROVE sealed'[r][1] = affinity
  <2>1. /\ sealed' = [sealed EXCEPT ![at[y]] = pick[y]] /\ fence[at[y]] = y /\ pc[y] = "seal"
    BY <1>1 DEF Seal, SealBinding
  <2>2. r = at[y] /\ sealed'[r] = pick[y]
    BY <2>1 DEF CacheTypeOK
  <2>3. pick[y][1] = seen[y] /\ seen[y] = affinity
    BY <2>1, <2>2, CacheAssumption DEF AffinityInv, Fits, Current, Steps
  <2> QED BY <2>2, <2>3
<1>2. ASSUME NEW y \in Executor, ExecutorMoves(y), ~Seal(y) PROVE UNCHANGED sealed
  <2>1. CASE UNCHANGED cacheVars
    BY <2>1
  <2>2. CASE Rotate(y) \/ ProbeStale(y) \/ Finish(y) \/ Publish(y)
    BY <2>2 DEF Rotate, RotateAffinity, ProbeStale, InvalidateResource, Finish,
       FinishOperation, Publish, PublishResource
  <2>3. CASE Claim(y) \/ ClaimRefused(y) \/ Start(y) \/ Record(y)
    BY <2>3 DEF Claim, ClaimOperation, ClaimRefused, ClaimRunning, Start, StartOperation,
       Record, RecordObservation
  <2> QED BY <1>2, <2>1, <2>2, <2>3
          DEF ExecutorMoves, PrepareStep, KeepAffinity, AffinityUnstable, Lookup, ProbeAlive,
              ProbeDrift, ProbeFails, NoCandidate, Decide, ReadAfterRace, StartRefused, Create,
              Verify, FenceRejected, SealRefused, Abort, LoadSession
<1>3. CASE Environment
  BY <1>3 DEF Environment, Reserve, Release, Grant, ExpireOperation, AgeResource
<1> QED BY <1>1, <1>2, <1>3 DEF PrepareNext, ExecutorMoves, DropResource

\* Whoever else prepares the same or an earlier request, and whoever rotates,
\* the resource sealed for the request that holds the session is of the
\* affinity epoch the session is in.
THEOREM SealsAreCurrent == PrepareSpec => SealedAffinityIsCurrent
<1>1. PrepareInv /\ PrepareInv' /\ AffinityInv /\ [PrepareNext]_allVars => AffinityInv'
  BY AffinityStep
<1>2. PrepareInv /\ AffinityInv /\ [PrepareNext]_allVars
        => [\A r \in Request :
              sealed'[r] # sealed[r] /\ sealed'[r] \in Key /\ turn[r] = "held"
                => sealed'[r][1] = affinity]_allVars
  BY SealedCurrent
<1> QED BY <1>1, <1>2, AffinityInit, PrepareInvariance, PTL
        DEF PrepareSpec, SealedAffinityIsCurrent
=================================================================================
