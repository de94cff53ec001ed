------------------------- MODULE RelayExecution_proofs -------------------------
(***************************************************************************)
(* Proofs about the ledger, for every set of sessions, requests and        *)
(* executors and any caller whatever, and that it implements SessionLog;   *)
(* then about the executors, for any number of them: they use the ledger   *)
(* as it is meant to be used, and what is proved about it holds of them.   *)
(***************************************************************************)
EXTENDS RelayExecution, LedgerLog, TLAPS

\* Type correctness: every function of the ledger leaves its rows in their
\* declared vocabulary.
LEMMA LedgerInitType == LedgerInit => TypeOK
BY LedgerAssumption DEF LedgerInit, TypeOK, Status, Dispatch, JobState, Lease

USE DEF ledgerVars, sessionVars, fenceVars, planVars, ghostVars

LEMMA LedgerStepType == TypeOK /\ [LedgerNext]_ledgerVars => TypeOK'
<1> SUFFICES ASSUME TypeOK, [LedgerNext]_ledgerVars PROVE TypeOK'
  OBVIOUS
<1> USE LedgerAssumption DEF TypeOK
<1>1. ASSUME NEW r \in Request, Accept(r, version[SessionOf[r]]) PROVE TypeOK'
  BY <1>1 DEF Accept, Status, JobState
<1>2. ASSUME NEW r \in Request, NEW o \in Owner, AcquireSyncFence(r, o) PROVE TypeOK'
  BY <1>2 DEF AcquireSyncFence, GrantFence, Lease
<1>3. SweptStatus \in [Request -> Status] /\ SweptJob \in [Request -> JobState]
  BY DEF SweptStatus, SweptJob, Status, JobState
<1>4. ASSUME NEW r \in Request, NEW o \in Owner, Claim(r, o) PROVE TypeOK'
  <2>1. status' \in [Request -> Status] /\ job' \in [Request -> JobState]
    BY <1>3, <1>4 DEF Claim, JobState
  <2> QED BY <1>4, <2>1 DEF Claim, GrantFence, Lease
<1>5. ASSUME NEW r \in Request, NEW o \in Owner, StartJob(r, o) PROVE TypeOK'
  BY <1>5 DEF StartJob, JobState
<1>6. ASSUME NEW r \in Request, NEW o \in Owner, NEW e \in 1..MaxEpoch,
             FencedCall(r, o, e)
      PROVE TypeOK'
  <2>1. CASE RenewLease(r, o, e)
    BY <2>1 DEF RenewLease, Lease
  <2>2. ASSUME NEW d \in Digest, FreezeMaterials(r, d, o, e) PROVE TypeOK'
    BY <2>2 DEF FreezeMaterials
  <2>3. ASSUME NEW d \in Digest, InstallBinding(r, d, o, e) PROVE TypeOK'
    BY <2>3 DEF InstallBinding
  <2>4. ASSUME NEW d \in Digest, Seal(r, d, o, e) PROVE TypeOK'
    BY <2>4 DEF Seal, Dispatch
  <2>5. CASE StoreResult(r, o, e)
    BY <2>5 DEF StoreResult, Dispatch
  <2>6. CASE Complete(r, expected[r], o, e)
    BY <2>6 DEF Complete, Commit, Status, Dispatch, JobState
  <2>7. ASSUME NEW release \in BOOLEAN, NEW outcome \in Outcome(release),
               Fail(r, outcome, release, o, e)
        PROVE TypeOK'
    <3>1. outcome \in Status \cap JobState
      BY DEF Outcome, Status, JobState
    <3> QED BY <2>7, <3>1 DEF Fail, ReleaseSession
  <2> QED BY <1>6, <2>1, <2>2, <2>3, <2>4, <2>5, <2>6, <2>7 DEF FencedCall
<1>7. ASSUME NEW r \in Request, MarkRunning(r) PROVE TypeOK'
  BY <1>7 DEF MarkRunning, Status
<1>8. ASSUME NEW r \in Request, Cancel(r) PROVE TypeOK'
  BY <1>8 DEF Cancel, ReleaseSession, Status, JobState
<1>9. ASSUME NEW r \in Request, Reconcile(r) PROVE TypeOK'
  BY <1>9 DEF Reconcile, ReconcileSync, ReconcileJob, Status, JobState
<1>10. ASSUME NEW r \in Request, ExpireLease(r) PROVE TypeOK'
  BY <1>10 DEF ExpireLease, Lease
<1>11. ASSUME NEW r \in Request, BecomeLate(r) PROVE TypeOK'
  BY <1>11 DEF BecomeLate
<1>12. CASE ClaimNothing
  BY <1>3, <1>12 DEF ClaimNothing
<1>13. CASE UNCHANGED ledgerVars
  BY <1>13
<1> QED
  BY <1>1, <1>2, <1>4, <1>5, <1>6, <1>7, <1>8, <1>9, <1>10, <1>11, <1>12, <1>13
  DEF LedgerNext, LedgerStep

THEOREM TypeCorrect == LedgerSpec => []TypeOK
BY LedgerInitType, LedgerStepType, PTL DEF LedgerSpec

-----------------------------------------------------------------------------
(* A row that does not exist yet carries nothing, and a queued job has     *)
(* sent nothing: what Accept and the first Claim rely on.                  *)

FreshRows ==
  \A r \in Request :
    /\ status[r] = "absent" => /\ dispatch[r] = "not_sent"
                              /\ job[r] = "none"
                              /\ epoch[r] = 0
                              /\ \A s \in Session : active[s] # r
    /\ job[r] = "queued" => dispatch[r] = "not_sent"
    /\ job[r] # "none" => r \in Async

LEMMA FreshInit == LedgerInit => FreshRows
BY LedgerAssumption DEF LedgerInit, FreshRows

LEMMA FreshStep == TypeOK /\ FreshRows /\ [LedgerNext]_ledgerVars => FreshRows'
<1> SUFFICES ASSUME TypeOK, FreshRows, [LedgerNext]_ledgerVars PROVE FreshRows'
  OBVIOUS
<1> USE LedgerAssumption DEF TypeOK, FreshRows
<1>1. ASSUME NEW r \in Request, Accept(r, version[SessionOf[r]]) PROVE FreshRows'
  BY <1>1 DEF Accept
<1>2. ASSUME NEW r \in Request, NEW o \in Owner, AcquireSyncFence(r, o) PROVE FreshRows'
  BY <1>2 DEF AcquireSyncFence, GrantFence
<1>3. \A r \in Request :
        /\ SweptStatus[r] = "absent" => status[r] = "absent"
        /\ SweptJob[r] = "queued" => job[r] = "queued"
        /\ SweptJob[r] = "none" <=> job[r] = "none"
  BY DEF SweptStatus, SweptJob, Orphaned, Working
<1>4. ASSUME NEW r \in Request, NEW o \in Owner, Claim(r, o) PROVE FreshRows'
  <2>1. job[r] # "none"
    BY <1>3, <1>4 DEF Claim, Claimable, Working
  <2>2. \A q \in Request : /\ status'[q] = "absent" => status[q] = "absent"
                           /\ job'[q] = "queued" => job[q] = "queued"
                           /\ job'[q] = "none" <=> job[q] = "none"
    <3>1. SweptJob \in [Request -> JobState]
      BY DEF SweptJob, JobState
    <3> QED BY <1>3, <1>4, <2>1, <3>1 DEF Claim
  <2>3. \A q \in Request : q # r => epoch'[q] = epoch[q]
    BY <1>4 DEF Claim, GrantFence
  <2> QED BY <1>4, <2>1, <2>2, <2>3 DEF Claim
<1>5. ASSUME NEW r \in Request, NEW o \in Owner, StartJob(r, o) PROVE FreshRows'
  BY <1>5 DEF StartJob
<1>6. ASSUME NEW r \in Request, NEW o \in Owner, NEW e \in 1..MaxEpoch,
             FencedCall(r, o, e)
      PROVE FreshRows'
  <2>1. CASE UNCHANGED <<status, dispatch, job, epoch, active>>
    BY <2>1
  <2>2. ASSUME NEW d \in Digest, Seal(r, d, o, e) PROVE FreshRows'
    BY <2>2 DEF Seal, HoldsFence, OwnsFence, Working
  <2>3. CASE StoreResult(r, o, e)
    BY <2>3 DEF StoreResult
  <2>4. CASE Complete(r, expected[r], o, e)
    BY <2>4 DEF Complete, Commit
  <2>5. ASSUME NEW release \in BOOLEAN, NEW outcome \in Outcome(release),
               Fail(r, outcome, release, o, e)
        PROVE FreshRows'
    <3>1. outcome \notin {"absent", "none", "queued"}
      BY DEF Outcome
    <3> QED BY <2>5, <3>1 DEF Fail, ReleaseSession
  <2> QED
    BY <1>6, <2>1, <2>2, <2>3, <2>4, <2>5
    DEF FencedCall, RenewLease, FreezeMaterials, InstallBinding
<1>7. ASSUME NEW r \in Request, MarkRunning(r) PROVE FreshRows'
  BY <1>7 DEF MarkRunning
<1>8. ASSUME NEW r \in Request, Cancel(r) PROVE FreshRows'
  BY <1>8 DEF Cancel, ReleaseSession
<1>9. ASSUME NEW r \in Request, Reconcile(r) PROVE FreshRows'
  BY <1>9 DEF Reconcile, ReconcileSync, ReconcileJob, Orphaned, Working
<1>10. CASE ClaimNothing
  BY <1>3, <1>10 DEF ClaimNothing, SweptStatus, SweptJob
<1>11. CASE UNCHANGED <<status, dispatch, job, epoch, active>>
  BY <1>11
<1> QED
  BY <1>1, <1>2, <1>4, <1>5, <1>6, <1>7, <1>8, <1>9, <1>10, <1>11
  DEF LedgerNext, LedgerStep, ExpireLease, BecomeLate

-----------------------------------------------------------------------------
(* Reservations.                                                           *)

LEMMA ReservationInit == LedgerInit => ReservationIsLive
BY DEF LedgerInit, ReservationIsLive

LEMMA ReservationStep ==
  TypeOK /\ FreshRows /\ ReservationIsLive /\ [LedgerNext]_ledgerVars
    => ReservationIsLive'
<1> SUFFICES ASSUME TypeOK, FreshRows, ReservationIsLive, [LedgerNext]_ledgerVars
             PROVE ReservationIsLive'
  OBVIOUS
<1> USE LedgerAssumption DEF TypeOK, ReservationIsLive
<1>1. ASSUME NEW r \in Request, Accept(r, version[SessionOf[r]])
      PROVE ReservationIsLive'
  <2>1. /\ dispatch[r] = "not_sent" /\ dispatch' = dispatch
        /\ status'[r] \in {"queued", "running"}
    BY <1>1 DEF Accept, FreshRows
  <2>2. ASSUME NEW s \in Session, active'[s] # None, active'[s] # r
        PROVE  active'[s] = active[s] /\ status'[active'[s]] = status[active[s]]
    BY <1>1, <2>2 DEF Accept
  <2>3. \A s \in Session : active'[s] = r => s = SessionOf[r]
    BY <1>1 DEF Accept, FreshRows
  <2>4. ASSUME NEW s \in Session, active'[s] # None
        PROVE  /\ SessionOf[active'[s]] = s
               /\ status'[active'[s]] \in {"queued", "running", "indeterminate"}
               /\ dispatch'[active'[s]] # "committed"
    <3>1. CASE active'[s] = r
      BY <2>1, <2>3, <3>1
    <3>2. CASE active'[s] # r
      BY <2>1, <2>2, <2>4, <3>2
    <3> QED BY <3>1, <3>2
  <2> QED BY <2>4
<1>2. \A r \in Request : SweptStatus[r] \in {status[r], "indeterminate"}
  BY DEF SweptStatus
<1>3. ASSUME NEW r \in Request, NEW o \in Owner, Claim(r, o) PROVE ReservationIsLive'
  BY <1>2, <1>3 DEF Claim
<1>4. ASSUME NEW r \in Request, NEW o \in Owner, NEW e \in 1..MaxEpoch,
             FencedCall(r, o, e)
      PROVE ReservationIsLive'
  <2>1. CASE UNCHANGED <<active, status, dispatch>>
    BY <2>1
  <2>2. ASSUME NEW d \in Digest, Seal(r, d, o, e) PROVE ReservationIsLive'
    BY <2>2 DEF Seal
  <2>3. CASE StoreResult(r, o, e)
    BY <2>3 DEF StoreResult
  <2>4. CASE Complete(r, expected[r], o, e)
    BY <2>4 DEF Complete, Commit
  <2>5. ASSUME NEW release \in BOOLEAN, NEW outcome \in Outcome(release),
               Fail(r, outcome, release, o, e)
        PROVE ReservationIsLive'
    BY <2>5 DEF Fail, ReleaseSession, Outcome
  <2> QED
    BY <1>4, <2>1, <2>2, <2>3, <2>4, <2>5
    DEF FencedCall, RenewLease, FreezeMaterials, InstallBinding
<1>5. ASSUME NEW r \in Request, MarkRunning(r) PROVE ReservationIsLive'
  BY <1>5 DEF MarkRunning
<1>6. ASSUME NEW r \in Request, Cancel(r) PROVE ReservationIsLive'
  BY <1>6 DEF Cancel, ReleaseSession
<1>7. ASSUME NEW r \in Request, Reconcile(r) PROVE ReservationIsLive'
  <2>1. /\ UNCHANGED <<active, dispatch>>
        /\ \A q \in Request : status'[q] \in {status[q], "indeterminate"}
    BY <1>7 DEF Reconcile, ReconcileSync, ReconcileJob
  <2> QED BY <2>1
<1>8. CASE ClaimNothing
  BY <1>2, <1>8 DEF ClaimNothing
<1>9. CASE UNCHANGED <<active, status, dispatch>>
  BY <1>9
<1> QED
  BY <1>1, <1>3, <1>4, <1>5, <1>6, <1>7, <1>8, <1>9
  DEF LedgerNext, LedgerStep, AcquireSyncFence, StartJob, ExpireLease, BecomeLate

\* A session is never blocked by a request that is over.
THEOREM ReservationsAreLive == LedgerSpec => []ReservationIsLive
<1> DEFINE Inv == TypeOK /\ FreshRows /\ ReservationIsLive
<1>1. LedgerInit => Inv
  BY LedgerInitType, FreshInit, ReservationInit
<1>2. Inv /\ [LedgerNext]_ledgerVars => Inv'
  BY LedgerStepType, FreshStep, ReservationStep
<1>3. Inv => ReservationIsLive
  OBVIOUS
<1> QED BY <1>1, <1>2, <1>3, PTL DEF LedgerSpec

-----------------------------------------------------------------------------
(* The stored result and the sealed dispatch.                              *)

LEMMA ResultInit == LedgerInit => ResultAnswersDispatch
BY DEF LedgerInit, ResultAnswersDispatch

\* An epoch is granted only before the dispatch or after the result is stored.
LEMMA ResultStep ==
  TypeOK /\ FreshRows /\ ResultAnswersDispatch /\ [LedgerNext]_ledgerVars
    => ResultAnswersDispatch'
<1> SUFFICES ASSUME TypeOK, FreshRows, ResultAnswersDispatch,
                    [LedgerNext]_ledgerVars
             PROVE ResultAnswersDispatch'
  OBVIOUS
<1> USE LedgerAssumption DEF TypeOK, ResultAnswersDispatch
<1>1. ASSUME NEW r \in Request, NEW o \in Owner, AcquireSyncFence(r, o)
      PROVE ResultAnswersDispatch'
  BY <1>1 DEF AcquireSyncFence, GrantFence
<1>2. ASSUME NEW r \in Request, NEW o \in Owner, Claim(r, o)
      PROVE ResultAnswersDispatch'
  <2>1. dispatch[r] # "dispatch_started"
    BY <1>2 DEF Claim, Claimable, FreshRows
  <2> QED BY <1>2, <2>1 DEF Claim, GrantFence
<1>3. ASSUME NEW r \in Request, NEW o \in Owner, NEW e \in 1..MaxEpoch,
             NEW d \in Digest, Seal(r, d, o, e)
      PROVE ResultAnswersDispatch'
  <2>1. epoch[r] = e /\ e # 0
    BY <1>3 DEF Seal, HoldsFence, OwnsFence
  <2> QED BY <1>3, <2>1 DEF Seal
<1>4. ASSUME NEW r \in Request, NEW o \in Owner, NEW e \in 1..MaxEpoch,
             StoreResult(r, o, e)
      PROVE ResultAnswersDispatch'
  BY <1>4 DEF StoreResult, HoldsLiveFence, HoldsFence, OwnsFence
<1>5. ASSUME NEW r \in Request, NEW o \in Owner, NEW e \in 1..MaxEpoch,
             Complete(r, expected[r], o, e)
      PROVE ResultAnswersDispatch'
  BY <1>5 DEF Complete, Commit
<1>6. CASE UNCHANGED <<dispatch, epoch, sealedBy, storedBy>>
  BY <1>6
<1>7. ASSUME NEW r \in Request, NEW o \in Owner, NEW e \in 1..MaxEpoch, FencedCall(r, o, e)
      PROVE ResultAnswersDispatch'
  BY <1>3, <1>4, <1>5, <1>6, <1>7 DEF FencedCall, RenewLease, FreezeMaterials, InstallBinding, Fail
<1>8. ASSUME NEW r \in Request, LedgerStep(r) PROVE ResultAnswersDispatch'
  BY <1>1, <1>2, <1>6, <1>7, <1>8
  DEF LedgerStep, Accept, StartJob, MarkRunning, Cancel, Reconcile, ReconcileSync, ReconcileJob,
      ExpireLease, BecomeLate
<1> QED BY <1>6, <1>8 DEF LedgerNext, ClaimNothing

\* The result that is stored and committed answers the one sealed dispatch.
THEOREM ResultsAnswerDispatch == LedgerSpec => []ResultAnswersDispatch
<1> DEFINE Inv == TypeOK /\ FreshRows /\ ResultAnswersDispatch
<1>1. LedgerInit => Inv
  BY LedgerInitType, FreshInit, ResultInit
<1>2. Inv /\ [LedgerNext]_ledgerVars => Inv'
  BY LedgerStepType, FreshStep, ResultStep
<1>3. Inv => ResultAnswersDispatch
  OBVIOUS
<1> QED BY <1>1, <1>2, <1>3, PTL DEF LedgerSpec

-----------------------------------------------------------------------------
(* The history.                                                            *)

LEMMA HistoryInit == LedgerInit => HistoryIsLinear
BY DEF LedgerInit, HistoryIsLinear

LEMMA LastOrEarlier ==
  ASSUME NEW n \in Nat, NEW j \in 1..(n + 1)
  PROVE  j = n + 1 \/ j \in 1..n
OBVIOUS

\* Committing r appends it once, planned against the turns already there.
LEMMA HistoryCommit ==
  ASSUME TypeOK, HistoryIsLinear, NEW r \in Request, NEW o, NEW e,
         Complete(r, expected[r], o, e)
  PROVE  HistoryIsLinear'
<1> USE LedgerAssumption DEF TypeOK
<1> DEFINE s == SessionOf[r]
           old == commits[s]
<1>1. /\ dispatch[r] = "result_stored"
      /\ dispatch' = [dispatch EXCEPT ![r] = "committed"]
      /\ version[s] = expected[r]
      /\ version' = [version EXCEPT ![s] = IF s \in Ephemeral THEN @ ELSE @ + 1]
      /\ commits' = [commits EXCEPT ![s] = Append(@, r)]
      /\ expected' = expected
  BY DEF Complete, Commit
<1> HIDE DEF old
<1>2. s \in Session /\ old \in Seq(Request) /\ old = commits[s]
  BY DEF old
<1> DEFINE new == Append(old, r)
<1>a. /\ Len(old) \in Nat /\ DOMAIN old = 1..Len(old)
      /\ \A k \in 1..Len(old) : old[k] \in Request
  BY <1>2
<1>b. /\ new \in Seq(Request) /\ Len(new) = Len(old) + 1
      /\ DOMAIN new = 1..(Len(old) + 1)
      /\ new[Len(old) + 1] = r
      /\ \A k \in 1..Len(old) : new[k] = old[k]
  BY <1>2
<1>c. \A j \in 1..(Len(old) + 1) : j = Len(old) + 1 \/ j \in 1..Len(old)
  BY <1>a, LastOrEarlier
<1> HIDE DEF new
<1>3. \A k \in 1..Len(old) : /\ dispatch[old[k]] = "committed"
                             /\ old[k] # r
                             /\ s \notin Ephemeral => expected[old[k]] = k - 1
                             /\ \A j \in 1..Len(old) : old[j] = old[k] => j = k
  BY <1>1, <1>2, <1>a DEF HistoryIsLinear
<1>4. version[s] = IF s \in Ephemeral THEN 0 ELSE Len(old)
  BY <1>2 DEF HistoryIsLinear
<1>5. ASSUME NEW t \in Session, t # s
      PROVE  /\ version'[t] = IF t \in Ephemeral THEN 0 ELSE Len(commits'[t])
             /\ \A k \in DOMAIN commits'[t] :
                  /\ dispatch'[commits'[t][k]] = "committed"
                  /\ t \notin Ephemeral => expected'[commits'[t][k]] = k - 1
                  /\ \A j \in DOMAIN commits'[t] :
                       commits'[t][j] = commits'[t][k] => j = k
  <2>1. commits'[t] = commits[t] /\ version'[t] = version[t]
    BY <1>1, <1>5
  <2>2. \A k \in DOMAIN commits[t] : commits[t][k] \in Request
    BY <1>5
  <2> QED BY <1>1, <1>5, <2>1, <2>2 DEF HistoryIsLinear
<1>6. commits'[s] = new /\ dispatch'[r] = "committed"
  BY <1>1, <1>2 DEF new
<1>7. version'[s] = IF s \in Ephemeral THEN 0 ELSE Len(commits'[s])
  BY <1>1, <1>2, <1>4, <1>6, <1>a, <1>b
<1>8. ASSUME NEW k \in 1..(Len(old) + 1)
      PROVE  /\ dispatch'[new[k]] = "committed"
             /\ s \notin Ephemeral => expected'[new[k]] = k - 1
             /\ \A j \in 1..(Len(old) + 1) :
                  new[j] = new[k] => j = k
  <2>1. CASE k = Len(old) + 1
    <3>1. new[k] = r
      BY <1>b, <2>1
    <3>2. ASSUME NEW j \in 1..(Len(old) + 1), new[j] = r PROVE j = k
      <4>1. CASE j \in 1..Len(old)
        BY <1>3, <1>b, <3>2, <4>1
      <4> QED BY <1>c, <2>1, <4>1
    <3>3. s \notin Ephemeral => expected'[r] = k - 1
      BY <1>1, <1>4, <1>a, <2>1
    <3> QED BY <1>6, <3>1, <3>2, <3>3
  <2>2. CASE k \in 1..Len(old)
    <3>1. new[k] = old[k] /\ old[k] \in Request /\ old[k] # r
      BY <1>3, <1>a, <1>b, <2>2
    <3>2. dispatch'[old[k]] = "committed"
      BY <1>1, <1>3, <2>2, <3>1
    <3>3. s \notin Ephemeral => expected'[old[k]] = k - 1
      BY <1>1, <1>3, <2>2
    <3>4. ASSUME NEW j \in 1..(Len(old) + 1), new[j] = old[k] PROVE j = k
      <4>1. CASE j \in 1..Len(old)
        <5>1. old[j] = old[k]
          BY <1>b, <3>4, <4>1
        <5> QED BY <1>3, <2>2, <4>1, <5>1
      <4>2. CASE j = Len(old) + 1
        BY <1>b, <3>1, <3>4, <4>2
      <4> QED BY <1>c, <4>1, <4>2
    <3> QED BY <3>1, <3>2, <3>3, <3>4
  <2> QED BY <1>c, <2>1, <2>2
<1>9. ASSUME NEW t \in Session
      PROVE  /\ version'[t] = IF t \in Ephemeral THEN 0 ELSE Len(commits'[t])
             /\ \A k \in DOMAIN commits'[t] :
                  /\ dispatch'[commits'[t][k]] = "committed"
                  /\ t \notin Ephemeral => expected'[commits'[t][k]] = k - 1
                  /\ \A j \in DOMAIN commits'[t] :
                       commits'[t][j] = commits'[t][k] => j = k
  <2>1. CASE t = s
    <3>1. DOMAIN commits'[t] = 1..(Len(old) + 1) /\ commits'[t] = new
      BY <1>6, <1>b, <2>1
    <3> QED BY <1>7, <1>8, <2>1, <3>1
  <2> QED BY <1>5, <2>1
<1> QED BY <1>9 DEF HistoryIsLinear

\* No other function touches a committed request or its session's turns.
LEMMA HistoryFrame ==
  ASSUME TypeOK, HistoryIsLinear, UNCHANGED <<version, commits>>,
         \A q \in Request : dispatch[q] = "committed" =>
           dispatch'[q] = "committed" /\ expected'[q] = expected[q]
  PROVE  HistoryIsLinear'
<1>1. \A s \in Session : \A k \in DOMAIN commits[s] : commits[s][k] \in Request
  BY DEF TypeOK
<1> QED BY <1>1 DEF HistoryIsLinear

LEMMA HistoryStep ==
  TypeOK /\ FreshRows /\ HistoryIsLinear /\ [LedgerNext]_ledgerVars
    => HistoryIsLinear'
<1> SUFFICES ASSUME TypeOK, FreshRows, HistoryIsLinear, [LedgerNext]_ledgerVars
             PROVE HistoryIsLinear'
  OBVIOUS
<1> DEFINE Kept == \A q \in Request : dispatch[q] = "committed" =>
                     dispatch'[q] = "committed" /\ expected'[q] = expected[q]
<1>1. ASSUME NEW r \in Request, NEW o \in Owner, NEW e \in 1..MaxEpoch,
             Complete(r, expected[r], o, e)
      PROVE HistoryIsLinear'
  BY <1>1, HistoryCommit
<1>2. ASSUME NEW r \in Request, Accept(r, version[SessionOf[r]])
      PROVE UNCHANGED <<version, commits>> /\ Kept
  BY <1>2 DEF Accept, FreshRows, TypeOK
<1>3. ASSUME NEW r \in Request, NEW o \in Owner, NEW e \in 1..MaxEpoch,
             StoreResult(r, o, e) \/ \E d \in Digest : Seal(r, d, o, e)
      PROVE UNCHANGED <<version, commits>> /\ Kept
  BY <1>3 DEF StoreResult, Seal, TypeOK
<1>4. UNCHANGED <<version, commits, dispatch, expected>> => Kept
  OBVIOUS
<1> HIDE DEF Kept
<1>5. UNCHANGED <<version, commits>> /\ Kept => HistoryIsLinear'
  BY HistoryFrame DEF Kept
<1> QED
  BY <1>1, <1>2, <1>3, <1>4, <1>5
  DEF LedgerNext, LedgerStep, FencedCall, AcquireSyncFence, Claim, StartJob,
      RenewLease, FreezeMaterials, InstallBinding, Fail, MarkRunning, Cancel,
      Reconcile, ReconcileSync, ReconcileJob, ExpireLease, BecomeLate, ClaimNothing

\* The turns of every session form one line, counted by its version.
THEOREM HistoriesAreLinear == LedgerSpec => []HistoryIsLinear
<1> DEFINE Inv == TypeOK /\ FreshRows /\ HistoryIsLinear
<1>1. LedgerInit => Inv
  BY LedgerInitType, FreshInit, HistoryInit
<1>2. Inv /\ [LedgerNext]_ledgerVars => Inv'
  BY LedgerStepType, FreshStep, HistoryStep
<1>3. Inv => HistoryIsLinear
  OBVIOUS
<1> QED BY <1>1, <1>2, <1>3, PTL DEF LedgerSpec

-----------------------------------------------------------------------------
(* Steps that never happen.                                                *)

LEMMA LostStep ==
  ASSUME TypeOK, [LedgerNext]_ledgerVars, NEW r \in Request,
         Accepted(r), ~Reserved(r), dispatch[r] # "committed"
  PROVE  dispatch'[r] # "committed" /\ active'[SessionOf[r]] # r
<1> USE LedgerAssumption DEF TypeOK, Accepted, Reserved
<1>1. ASSUME NEW q \in Request, Accept(q, version[SessionOf[q]])
      PROVE dispatch'[r] # "committed" /\ active'[SessionOf[r]] # r
  BY <1>1 DEF Accept
<1>2. ASSUME NEW q \in Request, NEW o \in Owner, NEW e \in 1..MaxEpoch,
             FencedCall(q, o, e)
      PROVE dispatch'[r] # "committed" /\ active'[SessionOf[r]] # r
  <2>1. CASE UNCHANGED <<active, dispatch>>
    BY <2>1
  <2>2. CASE StoreResult(q, o, e) \/ \E d \in Digest : Seal(q, d, o, e)
    BY <2>2 DEF StoreResult, Seal
  <2>3. CASE Complete(q, expected[q], o, e)
    BY <2>3 DEF Complete, Commit
  <2>4. ASSUME NEW release \in BOOLEAN, NEW outcome \in Outcome(release),
               Fail(q, outcome, release, o, e)
        PROVE dispatch'[r] # "committed" /\ active'[SessionOf[r]] # r
    BY <2>4 DEF Fail, ReleaseSession
  <2> QED
    BY <1>2, <2>1, <2>2, <2>3, <2>4
    DEF FencedCall, RenewLease, FreezeMaterials, InstallBinding
<1>3. ASSUME NEW q \in Request, Cancel(q)
      PROVE dispatch'[r] # "committed" /\ active'[SessionOf[r]] # r
  BY <1>3 DEF Cancel, ReleaseSession
<1>4. CASE UNCHANGED <<active, dispatch>>
  BY <1>4
<1> QED
  BY <1>1, <1>2, <1>3, <1>4
  DEF LedgerNext, LedgerStep, AcquireSyncFence, Claim, StartJob, MarkRunning,
      Reconcile, ReconcileSync, ReconcileJob, ExpireLease, BecomeLate, ClaimNothing

\* A request that lost its reservation never publishes and never gets it back.
THEOREM LostReservationsAreFinal == LedgerSpec => LostReservationIsFinal
<1> DEFINE Step == \A r \in Request :
                     Accepted(r) /\ ~Reserved(r) /\ dispatch[r] # "committed"
                       => dispatch'[r] # "committed" /\ active'[SessionOf[r]] # r
<1>1. TypeOK /\ [LedgerNext]_ledgerVars => [Step]_ledgerVars
  BY LostStep
<1> HIDE DEF Step
<1>2. LedgerSpec => [][Step]_ledgerVars
  BY <1>1, TypeCorrect, PTL DEF LedgerSpec
<1> QED BY <1>2 DEF Step, LostReservationIsFinal

LEMMA FrozenStep ==
  ASSUME TypeOK, [LedgerNext]_ledgerVars, NEW r \in Request,
         dispatch[r] # "not_sent"
  PROVE  /\ materials'[r] = materials[r]
         /\ binding'[r] = binding[r]
         /\ sealedBy'[r] = sealedBy[r]
<1> USE DEF TypeOK
<1>1. ASSUME NEW q \in Request, NEW o \in Owner, NEW e \in 1..MaxEpoch,
             NEW d \in Digest,
             \/ FreezeMaterials(q, d, o, e)
             \/ InstallBinding(q, d, o, e)
             \/ Seal(q, d, o, e)
      PROVE  /\ materials'[r] = materials[r]
             /\ binding'[r] = binding[r]
             /\ sealedBy'[r] = sealedBy[r]
  BY <1>1 DEF FreezeMaterials, InstallBinding, Seal
<1>2. CASE UNCHANGED <<materials, binding, sealedBy>>
  BY <1>2
<1> QED
  BY <1>1, <1>2
  DEF LedgerNext, LedgerStep, FencedCall, Accept, AcquireSyncFence, Claim,
      StartJob, RenewLease, StoreResult, Complete, Commit, Fail, MarkRunning,
      Cancel, Reconcile, ReconcileSync, ReconcileJob, ExpireLease, BecomeLate,
      ClaimNothing

\* What is sent is frozen when the dispatch is sealed.
THEOREM DispatchedPlansAreFrozen == LedgerSpec => DispatchedPlanIsFrozen
<1> DEFINE Step == \A r \in Request :
                     dispatch[r] # "not_sent" =>
                       /\ materials'[r] = materials[r]
                       /\ binding'[r] = binding[r]
                       /\ sealedBy'[r] = sealedBy[r]
<1>1. TypeOK /\ [LedgerNext]_ledgerVars => [Step]_ledgerVars
  BY FrozenStep
<1> HIDE DEF Step
<1>2. LedgerSpec => [][Step]_ledgerVars
  BY <1>1, TypeCorrect, PTL DEF LedgerSpec
<1> QED BY <1>2 DEF Step, DispatchedPlanIsFrozen

-----------------------------------------------------------------------------
(* What no function of the ledger takes back.                              *)

LEMMA MaterialsStay ==
  ASSUME TypeOK, [LedgerNext]_ledgerVars, NEW r \in Request, materials[r] # None
  PROVE  materials'[r] = materials[r]
<1>1. CASE materials' = materials
  BY <1>1
<1>2. ASSUME NEW q \in Request, NEW o \in Owner, NEW e \in 1..MaxEpoch,
             NEW d \in Digest, FreezeMaterials(q, d, o, e)
      PROVE materials'[r] = materials[r]
  BY <1>2 DEF FreezeMaterials, TypeOK
<1> QED
  BY <1>1, <1>2
  DEF LedgerNext, LedgerStep, FencedCall, Accept, AcquireSyncFence, Claim,
      StartJob, RenewLease, InstallBinding, Seal, StoreResult, Complete, Commit,
      Fail, MarkRunning, Cancel, Reconcile, ReconcileSync, ReconcileJob,
      ExpireLease, BecomeLate, ClaimNothing

LEMMA DispatchStays ==
  ASSUME TypeOK, [LedgerNext]_ledgerVars, NEW r \in Request,
         dispatch[r] # "not_sent"
  PROVE  dispatch'[r] # "not_sent"
<1>1. CASE dispatch' = dispatch
  BY <1>1
<1>2. ASSUME NEW q \in Request, NEW o \in Owner, NEW e \in 1..MaxEpoch,
             NEW d \in Digest, Seal(q, d, o, e)
      PROVE dispatch'[r] # "not_sent"
  BY <1>2 DEF Seal, TypeOK
<1>3. ASSUME NEW q \in Request, NEW o \in Owner, NEW e \in 1..MaxEpoch,
             StoreResult(q, o, e)
      PROVE dispatch'[r] # "not_sent"
  BY <1>3 DEF StoreResult, TypeOK
<1>4. ASSUME NEW q \in Request, NEW o \in Owner, NEW e \in 1..MaxEpoch,
             Complete(q, expected[q], o, e)
      PROVE dispatch'[r] # "not_sent"
  BY <1>4 DEF Complete, Commit, TypeOK
<1> QED
  BY <1>1, <1>2, <1>3, <1>4
  DEF LedgerNext, LedgerStep, FencedCall, Accept, AcquireSyncFence, Claim,
      StartJob, RenewLease, FreezeMaterials, InstallBinding, Fail, MarkRunning,
      Cancel, Reconcile, ReconcileSync, ReconcileJob, ExpireLease, BecomeLate,
      ClaimNothing

LEMMA AcceptedStays ==
  ASSUME TypeOK, [LedgerNext]_ledgerVars, NEW r \in Request, Accepted(r)
  PROVE  Accepted(r)'
<1> USE DEF Accepted
<1>1. CASE status' = status
  BY <1>1
<1>2. ASSUME NEW q \in Request,
             Accept(q, version[SessionOf[q]]) \/ MarkRunning(q) \/ Cancel(q)
      PROVE Accepted(r)'
  BY <1>2 DEF Accept, MarkRunning, Cancel, TypeOK
<1>3. CASE status' = SweptStatus
  BY <1>3 DEF SweptStatus
<1>4. ASSUME NEW q \in Request, Reconcile(q) PROVE Accepted(r)'
  BY <1>4 DEF Reconcile, ReconcileSync, ReconcileJob, TypeOK
<1>5. ASSUME NEW q \in Request, NEW o \in Owner, NEW e \in 1..MaxEpoch,
             Complete(q, expected[q], o, e)
      PROVE Accepted(r)'
  BY <1>5 DEF Complete, Commit, TypeOK
<1>6. ASSUME NEW q \in Request, NEW o \in Owner, NEW e \in 1..MaxEpoch,
             NEW release \in BOOLEAN, NEW outcome \in Outcome(release),
             Fail(q, outcome, release, o, e)
      PROVE Accepted(r)'
  BY <1>6 DEF Fail, Outcome, TypeOK
<1> QED
  BY <1>1, <1>2, <1>3, <1>4, <1>5, <1>6
  DEF LedgerNext, LedgerStep, FencedCall, AcquireSyncFence, Claim, StartJob,
      RenewLease, FreezeMaterials, InstallBinding, Seal, StoreResult,
      ExpireLease, BecomeLate, ClaimNothing

\* Only accepting a request reserves a session for it.
LEMMA ReservedBefore ==
  ASSUME TypeOK, [LedgerNext]_ledgerVars, NEW r \in Request, Accepted(r),
         Reserved(r)'
  PROVE  Reserved(r)
<1> USE LedgerAssumption DEF Reserved
<1>1. CASE active' = active
  BY <1>1
<1>2. ASSUME NEW q \in Request, Accept(q, version[SessionOf[q]])
      PROVE Reserved(r)
  BY <1>2 DEF Accept, Accepted, TypeOK
<1>3. ASSUME NEW q \in Request, ReleaseSession(q)
      PROVE Reserved(r)
  BY <1>3 DEF ReleaseSession
<1>4. ASSUME NEW q \in Request, NEW o \in Owner, NEW e \in 1..MaxEpoch,
             Complete(q, expected[q], o, e)
      PROVE Reserved(r)
  BY <1>4 DEF Complete, TypeOK
<1>5. ASSUME NEW q \in Request, NEW o \in Owner, NEW e \in 1..MaxEpoch,
             NEW release \in BOOLEAN, NEW outcome \in Outcome(release),
             Fail(q, outcome, release, o, e)
      PROVE Reserved(r)
  BY <1>1, <1>3, <1>5 DEF Fail
<1> QED
  BY <1>1, <1>2, <1>3, <1>4, <1>5
  DEF LedgerNext, LedgerStep, FencedCall, AcquireSyncFence, Claim, StartJob,
      RenewLease, FreezeMaterials, InstallBinding, Seal, StoreResult, MarkRunning,
      Cancel, Reconcile, ReconcileSync, ReconcileJob, ExpireLease, BecomeLate,
      ClaimNothing

-----------------------------------------------------------------------------
(* The ledger implements SessionLog: each function maps to one step of the *)
(* log or to none.                                                         *)

USE DEF Taken, Sent

\* The rows at the start are an empty log.
LEMMA LogInitMaps == LedgerInit => Log!LogInit
BY DEF LedgerInit, Log!LogInit

\* Most functions change nothing a caller of the session is promised.
LEMMA LogStutters ==
  ASSUME TypeOK, FreshRows, UNCHANGED <<active, commits>>,
         \A r \in Request : (status'[r] = "absent") <=> (status[r] = "absent"),
         \A r \in Request : (dispatch'[r] = "not_sent") <=> (dispatch[r] = "not_sent")
  PROVE  UNCHANGED Log!logVars
BY DEF Log!logVars

\* Only the session a request was submitted to can be released by it, so a
\* release drops the request or changes nothing.
LEMMA ReleaseMaps ==
  ASSUME TypeOK, ReservationIsLive, NEW r \in Request, ReleaseSession(r),
         UNCHANGED <<commits, dispatch>>, Taken' = Taken
  PROVE  [Log!LogNext]_(Log!logVars)
<1> USE LedgerAssumption DEF TypeOK
<1>1. \A s \in Session : active[s] = r => s = SessionOf[r]
  BY DEF ReservationIsLive
<1>2. CASE active[SessionOf[r]] = r
  <2>1. active' = [active EXCEPT ![SessionOf[r]] = None]
    BY <1>1, <1>2 DEF ReleaseSession
  <2>2. Log!Drop(r)
    BY <1>2, <2>1 DEF Log!Drop
  <2> QED BY <2>2 DEF Log!LogNext
<1>3. CASE active[SessionOf[r]] # r
  <2>1. active' = active
    BY <1>1, <1>3 DEF ReleaseSession
  <2> QED BY <2>1 DEF Log!logVars
<1> QED BY <1>2, <1>3

\* A fenced call seals (Send), completes (Answer), fails (Drop) or stutters.
LEMMA FencedCallMaps ==
  ASSUME TypeOK, FreshRows, ReservationIsLive, NEW r \in Request, NEW o \in Owner,
         NEW e \in 1..MaxEpoch, FencedCall(r, o, e)
  PROVE  [Log!LogNext]_(Log!logVars)
<1> USE LedgerAssumption DEF TypeOK, FreshRows
<1>1. CASE UNCHANGED <<active, commits, status, dispatch>>
  BY <1>1, LogStutters
<1>2. ASSUME NEW d \in Digest, Seal(r, d, o, e) PROVE [Log!LogNext]_(Log!logVars)
  <2>1. status[r] # "absent"
    BY <1>2 DEF Seal, HoldsFence, OwnsFence
  <2>2. Sent' = Sent \cup {r} /\ r \notin Sent
    BY <1>2 DEF Seal
  <2>3. Log!Send(r)
    BY <1>2, <2>1, <2>2 DEF Seal, Log!Send
  <2> QED BY <2>3 DEF Log!LogNext
<1>3. CASE StoreResult(r, o, e)
  BY <1>3, LogStutters DEF StoreResult
<1>4. CASE Complete(r, expected[r], o, e)
  <2>1. Taken' = Taken /\ Sent' = Sent /\ r \in Sent
    BY <1>4 DEF Complete, Commit
  <2>2. Log!Answer(r)
    BY <1>4, <2>1 DEF Complete, Commit, Log!Answer
  <2> QED BY <2>2 DEF Log!LogNext
<1>5. ASSUME NEW release \in BOOLEAN, NEW outcome \in Outcome(release),
             Fail(r, outcome, release, o, e)
      PROVE [Log!LogNext]_(Log!logVars)
  <2>1. outcome # "absent"
    BY DEF Outcome
  <2>2. Taken' = Taken
    BY <1>5, <2>1 DEF Fail
  <2>3. CASE release
    BY <1>5, <2>2, <2>3, ReleaseMaps DEF Fail
  <2>4. CASE ~release
    BY <1>5, <2>1, <2>4, LogStutters DEF Fail
  <2> QED BY <2>3, <2>4
<1> QED
  BY <1>1, <1>2, <1>3, <1>4, <1>5
  DEF FencedCall, RenewLease, FreezeMaterials, InstallBinding

\* Every step of the ledger is a step of the log, or none.
LEMMA LogStepMaps ==
  TypeOK /\ FreshRows /\ ReservationIsLive /\ [LedgerNext]_ledgerVars
    => [Log!LogNext]_(Log!logVars)
<1> SUFFICES ASSUME TypeOK, FreshRows, ReservationIsLive, [LedgerNext]_ledgerVars
             PROVE  [Log!LogNext]_(Log!logVars)
  OBVIOUS
<1> USE LedgerAssumption DEF TypeOK, FreshRows
<1>1. ASSUME NEW r \in Request, Accept(r, version[SessionOf[r]])
      PROVE [Log!LogNext]_(Log!logVars)
  <2>1. Taken' = Taken \cup {r} /\ r \notin Taken
    BY <1>1 DEF Accept
  <2>2. Log!Take(r)
    BY <1>1, <2>1 DEF Accept, Log!Take
  <2> QED BY <2>2 DEF Log!LogNext
<1>2. ASSUME NEW r \in Request, NEW o \in Owner, AcquireSyncFence(r, o)
      PROVE [Log!LogNext]_(Log!logVars)
  BY <1>2, LogStutters DEF AcquireSyncFence
<1>3. \A r \in Request : SweptStatus[r] = "absent" <=> status[r] = "absent"
  BY DEF SweptStatus, Orphaned
<1>4. ASSUME NEW r \in Request, NEW o \in Owner, Claim(r, o)
      PROVE [Log!LogNext]_(Log!logVars)
  BY <1>3, <1>4, LogStutters DEF Claim
<1>5. ASSUME NEW r \in Request, NEW o \in Owner, StartJob(r, o)
      PROVE [Log!LogNext]_(Log!logVars)
  BY <1>5, LogStutters DEF StartJob
<1>6. ASSUME NEW r \in Request, NEW o \in Owner, NEW e \in 1..MaxEpoch, FencedCall(r, o, e)
      PROVE [Log!LogNext]_(Log!logVars)
  BY <1>6, FencedCallMaps
<1>7. ASSUME NEW r \in Request, MarkRunning(r) PROVE [Log!LogNext]_(Log!logVars)
  BY <1>7, LogStutters DEF MarkRunning
<1>8. ASSUME NEW r \in Request, Cancel(r) PROVE [Log!LogNext]_(Log!logVars)
  <2>1. Taken' = Taken
    BY <1>8 DEF Cancel
  <2> QED BY <1>8, <2>1, ReleaseMaps DEF Cancel
<1>9. ASSUME NEW r \in Request, Reconcile(r) PROVE [Log!LogNext]_(Log!logVars)
  <2>1. /\ UNCHANGED <<active, commits, dispatch>>
        /\ status[r] # "absent"
        /\ status' = [status EXCEPT ![r] = "indeterminate"]
    BY <1>9 DEF Reconcile, ReconcileSync, ReconcileJob, Orphaned
  <2>2. \A q \in Request : status'[q] = "absent" <=> status[q] = "absent"
    BY <2>1
  <2>3. \A q \in Request : dispatch'[q] = "not_sent" <=> dispatch[q] = "not_sent"
    BY <2>1
  <2> QED BY <2>1, <2>2, <2>3, LogStutters
<1>10. CASE ClaimNothing
  BY <1>3, <1>10, LogStutters DEF ClaimNothing
<1>11. CASE UNCHANGED <<active, commits, status, dispatch>>
  BY <1>11, LogStutters
<1> QED
  BY <1>1, <1>2, <1>4, <1>5, <1>6, <1>7, <1>8, <1>9, <1>10, <1>11
  DEF LedgerNext, LedgerStep, ExpireLease, BecomeLate

\* The ledger implements the log: what a caller is promised of a session holds
\* whatever executors, late ones included, do with the rows.
THEOREM LedgerKeepsLog == LedgerSpec => ImplementsLog
<1> DEFINE Inv == TypeOK /\ FreshRows /\ ReservationIsLive
<1>1. LedgerInit => Inv
  BY LedgerInitType, FreshInit, ReservationInit
<1>2. Inv /\ [LedgerNext]_ledgerVars => Inv'
  BY LedgerStepType, FreshStep, ReservationStep
<1>3. Inv /\ [LedgerNext]_ledgerVars => [Log!LogNext]_(Log!logVars)
  BY LogStepMaps
<1> QED BY <1>1, <1>2, <1>3, LogInitMaps, PTL DEF LedgerSpec, ImplementsLog, Log!LogSpec

-----------------------------------------------------------------------------
(* The executors.                                                          *)

USE DEF localVars, dataVars, execVars, vars

\* An executor at work has a request; past the fence it has an epoch it was
\* given; a binding to seal is one it prepared.
Placed ==
  \A x \in Owner :
    /\ pc[x] \notin Resting => at[x] \in Request
    /\ pc[x] \notin Resting \cup {"fence"} => tok[x] \in 1..MaxEpoch
    /\ pc[x] = "fence" => x \notin Worker
    /\ pc[x] = "seal" => plan[x] \in Digest

LocalTypeOK ==
  /\ pc \in [Owner -> Protected \cup Pickup \cup Reporting \cup Resting \cup {"fence"}]
  /\ at \in [Owner -> Request \cup {None}]
  /\ tok \in [Owner -> Nat]
  /\ row \in [Owner -> Dispatch]
  /\ mats \in [Owner -> Digest \cup {None}]
  /\ plan \in [Owner -> Digest \cup {None}]
  /\ turns \in [Owner -> Seq(Request)]

DataTypeOK ==
  /\ planned \in [Request -> Seq(Request)]
  /\ history \in [Session -> Seq(Request)]
  /\ stored \in [Request -> Seq(Request)]
  /\ calls \in [Request -> Nat]
  /\ faults \in Nat

\* The part of the invariant about executors that the ledger steps need.
ExecInv == TypeOK /\ LocalTypeOK /\ DataTypeOK /\ Placed

LEMMA ExecInvInit == Init => ExecInv
<1> SUFFICES ASSUME Init PROVE ExecInv
  OBVIOUS
<1>1. TypeOK
  BY LedgerInitType DEF Init
<1>2. LocalTypeOK /\ DataTypeOK /\ Placed
  BY ExecutionAssumption DEF Init, LocalTypeOK, DataTypeOK, Placed, Resting, Dispatch
<1> QED BY <1>1, <1>2 DEF ExecInv

-----------------------------------------------------------------------------
(* Refinement: every step is a step of the ledger or leaves it alone.      *)

LEMMA FencedIsLedger ==
  ASSUME NEW r \in Request, NEW o \in Owner, NEW e \in 1..MaxEpoch,
         FencedCall(r, o, e)
  PROVE  LedgerNext
BY DEF LedgerNext, LedgerStep

LEMMA RuntimeMaps ==
  ASSUME ExecInv, NEW x \in Owner, RuntimeStep(x)
  PROVE  [LedgerNext]_ledgerVars
<1> DEFINE r == at[x]
<1>1. CASE LoadContext(x) \/ CallProvider(x) \/ Abort(x)
  BY <1>1 DEF LoadContext, CallProvider, Abort
<1>2. ASSUME pc[x] \in Protected PROVE r \in Request /\ tok[x] \in 1..MaxEpoch
  BY <1>2 DEF ExecInv, Placed, Protected, Runtime, Resting
<1>3. CASE FreezeBindings(x)
  <2>1. UNCHANGED ledgerVars \/ \E m \in Digest : FreezeMaterials(r, m, x, tok[x])
    BY <1>3 DEF FreezeBindings
  <2>2. pc[x] \in Protected
    BY <1>3 DEF FreezeBindings, Protected, Runtime
  <2> QED BY <2>1, <2>2, <1>2, FencedIsLedger DEF FencedCall
<1>4. CASE PrepareBinding(x)
  <2>1. \E h \in Digest : InstallBinding(r, h, x, tok[x])
    BY <1>4 DEF PrepareBinding
  <2>2. pc[x] \in Protected
    BY <1>4 DEF PrepareBinding, Protected, Runtime
  <2> QED BY <2>1, <2>2, <1>2, FencedIsLedger DEF FencedCall
<1>5. CASE SealDispatch(x)
  <2>1. pc[x] \in Protected /\ plan[x] \in Digest /\ Seal(r, plan[x], x, tok[x])
    BY <1>5 DEF SealDispatch, Protected, Runtime, ExecInv, Placed
  <2> QED BY <2>1, <1>2, FencedIsLedger DEF FencedCall
<1>6. CASE StoreAnswer(x)
  <2>1. pc[x] \in Protected /\ StoreResult(r, x, tok[x])
    BY <1>6 DEF StoreAnswer, Protected, Runtime
  <2> QED BY <2>1, <1>2, FencedIsLedger DEF FencedCall
<1>7. CASE CommitTurn(x) \/ RecoverResult(x)
  <2>1. pc[x] \in Protected /\ Complete(r, expected[r], x, tok[x])
    BY <1>7 DEF CommitTurn, RecoverResult, Publish, Protected, Runtime
  <2> QED BY <2>1, <1>2, FencedIsLedger DEF FencedCall
<1> QED BY <1>1, <1>3, <1>4, <1>5, <1>6, <1>7 DEF RuntimeStep

LEMMA ExecutorMaps ==
  ASSUME ExecInv, NEW x \in Owner, ExecutorStep(x)
  PROVE  [LedgerNext]_ledgerVars
<1> DEFINE r == at[x]
<1>0. ASSUME pc[x] \notin Resting PROVE r \in Request
  BY <1>0 DEF ExecInv, Placed
<1>1. CASE RuntimeStep(x)
  BY <1>1, RuntimeMaps
<1>2. CASE AcquireInlineFence(x)
  <2>1. r \in Request /\ AcquireSyncFence(r, x)
    BY <1>0, <1>2 DEF AcquireInlineFence, Resting
  <2> QED BY <2>1 DEF LedgerNext, LedgerStep
<1>3. CASE MarkJob(x)
  <2>1. r \in Request /\ (StartJob(r, x) \/ UNCHANGED ledgerVars)
    BY <1>0, <1>3 DEF MarkJob, Resting
  <2> QED BY <2>1 DEF LedgerNext, LedgerStep
<1>4. CASE MarkRequest(x)
  <2>1. r \in Request /\ MarkRunning(r)
    BY <1>0, <1>4 DEF MarkRequest, Resting
  <2> QED BY <2>1 DEF LedgerNext, LedgerStep
<1>5. CASE Report(x)
  <2>1. \/ Fail(r, "failed", TRUE, x, tok[x])
        \/ Fail(r, "indeterminate", FALSE, x, tok[x])
    BY <1>5 DEF Report
  <2>2. r \in Request /\ tok[x] \in 1..MaxEpoch
    BY <1>5 DEF Report, ExecInv, Placed, Resting
  <2>3. FencedCall(r, x, tok[x])
    BY <2>1 DEF FencedCall, Outcome
  <2> QED BY <2>2, <2>3, FencedIsLedger
<1>6. CASE Heartbeat(x)
  <2>1. r \in Request /\ tok[x] \in 1..MaxEpoch /\ RenewLease(r, x, tok[x])
    <3>1. pc[x] \notin Resting \cup {"fence"} => tok[x] \in 1..MaxEpoch
      BY DEF ExecInv, Placed
    <3>2. pc[x] \notin Resting \cup {"fence"} /\ RenewLease(r, x, tok[x])
      BY <1>6 DEF Heartbeat, ExecInv, Placed
    <3>3. r \in Request
      BY <1>0, <3>2
    <3> QED BY <3>1, <3>2, <3>3
  <2> QED BY <2>1, FencedIsLedger DEF FencedCall
<1>7. ASSUME NEW q \in Request, ClaimJob(x, q) \/ ClaimReplyLost(x, q)
      PROVE LedgerNext
  BY <1>7 DEF ClaimJob, ClaimReplyLost, LedgerNext, LedgerStep
<1>8. CASE PollQueue(x)
  BY <1>8 DEF PollQueue, LedgerNext
<1>9. CASE UNCHANGED ledgerVars
  BY <1>9
<1> QED
  BY <1>1, <1>2, <1>3, <1>4, <1>5, <1>6, <1>7, <1>8, <1>9
  DEF ExecutorStep, Advance, PickupStep, ReportStep, ClaimStep, InlineRefused,
      FetchRow, ReadDispatchState, ReportRefused, StartInline, AbortPickup,
      Timeout, ReportLost, Crash

LEMMA StepMaps == ExecInv /\ [Next]_vars => [LedgerNext]_ledgerVars
<1> SUFFICES ASSUME ExecInv, [Next]_vars PROVE [LedgerNext]_ledgerVars
  OBVIOUS
<1>1. ASSUME NEW r \in Request, ClientStep(r) \/ LeaseRunsOut(r) \/ TimePasses(r)
      PROVE [LedgerNext]_ledgerVars
  <2>1. CASE SubmitRequest(r)
    <3>1. PlannedVersion(r) = version[SessionOf[r]]
      BY <2>1 DEF SubmitRequest, Accept
    <3> QED BY <2>1, <3>1 DEF SubmitRequest, LedgerNext, LedgerStep
  <2>2. CASE ~SubmitRequest(r)
    BY <1>1, <2>2
    DEF ClientStep, PlanRequest, CancelRequest, PollRequest, LeaseRunsOut,
        TimePasses, LedgerNext, LedgerStep
  <2> QED BY <2>1, <2>2
<1> QED BY <1>1, ExecutorMaps DEF Next

-----------------------------------------------------------------------------
(* The invariant about executors is inductive.                             *)

\* An executor that goes on keeps its request and its epoch.
LEMMA MovesOn ==
  ASSUME LocalTypeOK, Placed, NEW x \in Owner, NEW l,
         l \in Protected \cup Pickup \cup Reporting,
         pc[x] \notin Resting \cup {"fence"},
         pc' = [pc EXCEPT ![x] = l],
         UNCHANGED <<at, tok, row, turns>>,
         mats' \in [Owner -> Digest \cup {None}],
         plan' \in [Owner -> Digest \cup {None}],
         \A y \in Owner : y # x => plan'[y] = plan[y],
         l = "seal" => plan'[x] \in Digest
  PROVE  LocalTypeOK' /\ Placed'
BY DEF LocalTypeOK, Placed, Protected, Runtime, Pickup, Reporting, Resting

\* An executor that leaves has no request.
LEMMA Leaves ==
  ASSUME LocalTypeOK, Placed, NEW x \in Owner, NEW l \in Resting, Leave(x, l)
  PROVE  LocalTypeOK' /\ Placed'
BY LedgerAssumption DEF Leave, Goto, LocalTypeOK, Placed, Resting, Dispatch

LEMMA Rests ==
  ASSUME LocalTypeOK, Placed, NEW x \in Owner, Rest(x)
  PROVE  LocalTypeOK' /\ Placed'
BY Leaves DEF Rest, Resting

LEMMA StaysPut ==
  ASSUME LocalTypeOK, Placed, UNCHANGED <<pc, localVars>>
  PROVE  LocalTypeOK' /\ Placed'
BY DEF LocalTypeOK, Placed

LEMMA EpochGranted ==
  ASSUME TypeOK, NEW r \in Request, NEW o \in Owner, GrantFence(r, o)
  PROVE  epoch'[r] \in 1..MaxEpoch
BY LedgerAssumption DEF GrantFence, TypeOK

LEMMA LocalStep == ExecInv /\ [Next]_vars => LocalTypeOK' /\ Placed'
<1> SUFFICES ASSUME ExecInv, [Next]_vars PROVE LocalTypeOK' /\ Placed'
  OBVIOUS
<1> USE DEF ExecInv
<1>1. CASE UNCHANGED <<pc, localVars>>
  BY <1>1, StaysPut
<1>2. ASSUME NEW x \in Owner, RuntimeStep(x) PROVE LocalTypeOK' /\ Placed'
  <2>0. pc[x] \notin Resting \cup {"fence"}
    BY <1>2
    DEF RuntimeStep, LoadContext, FreezeBindings, PrepareBinding, SealDispatch,
        CallProvider, StoreAnswer, CommitTurn, RecoverResult, Abort, Resting,
        Protected, Runtime
  <2> DEFINE Goes(l) ==
        /\ l \in Protected \cup Pickup \cup Reporting
        /\ pc' = [pc EXCEPT ![x] = l]
        /\ UNCHANGED <<at, tok, row, turns>>
        /\ mats' \in [Owner -> Digest \cup {None}]
        /\ plan' \in [Owner -> Digest \cup {None}]
        /\ \A y \in Owner : y # x => plan'[y] = plan[y]
        /\ l = "seal" => plan'[x] \in Digest
  <2>1. ASSUME NEW l, Goes(l) PROVE LocalTypeOK' /\ Placed'
    BY <2>0, <2>1, MovesOn
  <2> USE DEF Protected, Runtime, Pickup, Reporting
  <2>2. CASE LoadContext(x)
    <3>1. history[SessionOf[at[x]]] \in Seq(Request)
      BY <2>0, LedgerAssumption DEF Placed, DataTypeOK
    <3> QED BY <2>0, <2>2, <3>1 DEF LoadContext, Goto, LocalTypeOK, Placed, Resting
  <2>3. CASE FreezeBindings(x)
    <3>1. Goes("bind") \/ Goes("failed")
      BY <2>3 DEF FreezeBindings, Returns, Goto, LocalTypeOK
    <3> QED BY <2>1, <3>1
  <2>4. CASE PrepareBinding(x)
    <3>1. Goes("seal") \/ Goes("failed")
      BY <2>4 DEF PrepareBinding, Returns, Goto, LocalTypeOK
    <3> QED BY <2>1, <3>1
  <2>5. CASE SealDispatch(x) \/ CallProvider(x) \/ StoreAnswer(x) \/ Abort(x)
    <3>1. Goes("call") \/ Goes("store") \/ Goes("commit") \/ Goes("failed")
      BY <2>5 DEF SealDispatch, CallProvider, StoreAnswer, Abort, Returns, Goto, LocalTypeOK
    <3> QED BY <2>1, <3>1
  <2>6. CASE CommitTurn(x) \/ RecoverResult(x)
    <3>1. Rest(x) \/ Goes("failed")
      BY <2>6 DEF CommitTurn, RecoverResult, Publish, Goto, LocalTypeOK
    <3> QED BY <2>1, <3>1, Rests
  <2> QED BY <1>2, <2>2, <2>3, <2>4, <2>5, <2>6 DEF RuntimeStep
<1>3. ASSUME NEW x \in Owner, PickupStep(x) \/ ReportStep(x) \/ Timeout(x)
      PROVE LocalTypeOK' /\ Placed'
  <2>1. CASE AcquireInlineFence(x)
    <3>1. at[x] \in Request
      BY <2>1 DEF AcquireInlineFence, Placed, Resting
    <3>2. epoch'[at[x]] \in 1..MaxEpoch
      BY <2>1, <3>1, EpochGranted DEF AcquireInlineFence, AcquireSyncFence
    <3>3. CASE Leave(x, "done")
      BY <3>3, Leaves DEF Resting
    <3>4. CASE /\ Goto(x, "load")
               /\ tok' = [tok EXCEPT ![x] = epoch'[at[x]]]
               /\ UNCHANGED <<at, row, mats, plan, turns>>
      BY <3>1, <3>2, <3>4 DEF Goto, LocalTypeOK, Placed, Resting, Protected, Runtime
    <3> QED BY <2>1, <3>3, <3>4 DEF AcquireInlineFence
  <2>2. CASE InlineRefused(x)
    BY <2>2, Leaves DEF InlineRefused, Resting
  <2>3. CASE MarkJob(x) \/ MarkRequest(x) \/ ReadDispatchState(x) \/ Timeout(x)
    <3>1. pc[x] \notin Resting \cup {"fence"} /\ UNCHANGED localVars
      BY <2>3 DEF MarkJob, MarkRequest, ReadDispatchState, Timeout, Resting, Runtime
    <3>2. \E l \in {"fetch", "recover", "load", "failed", "unknown", "timeout"} :
            pc' = [pc EXCEPT ![x] = l]
      BY <2>3 DEF MarkJob, MarkRequest, ReadDispatchState, Timeout, Goto
    <3> QED BY <3>1, <3>2, MovesOn DEF LocalTypeOK, Protected, Runtime, Pickup, Reporting
  <2>4. CASE FetchRow(x)
    <3>1. CASE Rest(x)
      BY <3>1, Rests
    <3>2. CASE ~Rest(x)
      <4>1. /\ pc[x] = "fetch"
            /\ pc' = [pc EXCEPT ![x] = "mark"]
            /\ row' = [row EXCEPT ![x] = dispatch[at[x]]]
            /\ mats' = [mats EXCEPT ![x] = materials[at[x]]]
            /\ UNCHANGED <<at, tok, plan, turns>>
        BY <2>4, <3>2 DEF FetchRow, Goto
      <4>2. at[x] \in Request
        BY <4>1 DEF Placed, Resting
      <4> QED BY <4>1, <4>2 DEF LocalTypeOK, Placed, TypeOK, Resting, Pickup
    <3> QED BY <3>1, <3>2
  <2>5. CASE Report(x) \/ ReportRefused(x)
    BY <2>5, Rests DEF Report, ReportRefused
  <2> QED BY <1>3, <2>1, <2>2, <2>3, <2>4, <2>5 DEF PickupStep, ReportStep
<1>4. ASSUME NEW x \in Owner, NEW r \in Request, ClaimJob(x, r)
      PROVE LocalTypeOK' /\ Placed'
  <2>1. epoch'[r] \in 1..MaxEpoch
    BY <1>4, EpochGranted DEF ClaimJob, Claim
  <2> QED BY <1>4, <2>1 DEF ClaimJob, Goto, LocalTypeOK, Placed, Pickup, Resting
<1>5. ASSUME NEW x \in Owner, NEW r \in Request, StartInline(x, r)
      PROVE LocalTypeOK' /\ Placed'
  BY <1>5 DEF StartInline, Inline, Goto, LocalTypeOK, Placed, TypeOK, Resting
<1>6. ASSUME NEW x \in Owner, AbortPickup(x) \/ ReportLost(x) \/ Crash(x)
      PROVE LocalTypeOK' /\ Placed'
  BY <1>6, Rests, Leaves DEF AbortPickup, ReportLost, Crash, Resting
<1> QED
  BY <1>1, <1>2, <1>3, <1>4, <1>5, <1>6
  DEF Next, ExecutorStep, Advance, ClaimStep, ClaimReplyLost, PollQueue, Heartbeat,
      ClientStep, PlanRequest, SubmitRequest, CancelRequest, PollRequest,
      LeaseRunsOut, TimePasses

LEMMA WithTurnType ==
  ASSUME NEW ts \in Seq(Request), NEW r \in Request
  PROVE  WithTurn(ts, r) \in Seq(Request)
BY DEF WithTurn

LEMMA DataStep == ExecInv /\ [Next]_vars => DataTypeOK'
<1> SUFFICES ASSUME ExecInv, [Next]_vars PROVE DataTypeOK'
  OBVIOUS
<1> USE LedgerAssumption DEF ExecInv, DataTypeOK
<1>1. CASE UNCHANGED dataVars /\ (UNCHANGED faults \/ faults' = faults + 1)
  BY <1>1
<1>2. ASSUME NEW r \in Request, PlanRequest(r) PROVE DataTypeOK'
  BY <1>2 DEF PlanRequest
<1>3. ASSUME NEW x \in Owner, CallProvider(x) \/ StoreAnswer(x) PROVE DataTypeOK'
  <2>1. at[x] \in Request /\ turns[x] \in Seq(Request)
    BY <1>3 DEF CallProvider, StoreAnswer, Placed, Resting, LocalTypeOK
  <2>2. WithTurn(turns[x], at[x]) \in Seq(Request)
    BY <2>1, WithTurnType
  <2>3. CASE CallProvider(x)
    BY <2>1, <2>3 DEF CallProvider
  <2>4. CASE StoreAnswer(x)
    <3>1. /\ stored' = [stored EXCEPT ![at[x]] = WithTurn(turns[x], at[x])]
          /\ UNCHANGED <<planned, history, calls, faults>>
      BY <2>4 DEF StoreAnswer
    <3> QED BY <2>2, <3>1
  <2> QED BY <1>3, <2>3, <2>4
<1>4. ASSUME NEW x \in Owner, CommitTurn(x) \/ RecoverResult(x) PROVE DataTypeOK'
  <2>1. at[x] \in Request /\ turns[x] \in Seq(Request)
    BY <1>4 DEF CommitTurn, RecoverResult, Placed, Resting, LocalTypeOK
  <2>2. WithTurn(turns[x], at[x]) \in Seq(Request)
    BY <2>1, WithTurnType
  <2> QED BY <1>4, <2>1, <2>2 DEF CommitTurn, RecoverResult, Publish
<1> QED
  BY <1>1, <1>2, <1>3, <1>4
  DEF Next, ExecutorStep, Advance, RuntimeStep, PickupStep, ReportStep, ClaimStep,
      LoadContext, FreezeBindings, PrepareBinding, SealDispatch, Abort,
      AcquireInlineFence, InlineRefused, MarkJob, FetchRow, MarkRequest,
      ReadDispatchState, Report, ReportRefused, ClaimJob, ClaimReplyLost,
      StartInline, PollQueue, Heartbeat, AbortPickup, Timeout, ReportLost, Crash,
      Fault, ClientStep, SubmitRequest, CancelRequest, PollRequest, LeaseRunsOut,
      TimePasses

LEMMA ExecInvStep == ExecInv /\ [Next]_vars => ExecInv'
<1> SUFFICES ASSUME ExecInv, [Next]_vars PROVE ExecInv'
  OBVIOUS
<1>1. TypeOK'
  BY StepMaps, LedgerStepType DEF ExecInv
<1> QED BY <1>1, LocalStep, DataStep DEF ExecInv

LEMMA ExecInvariance == Spec => []ExecInv
BY ExecInvInit, ExecInvStep, PTL DEF Spec

\* Type correctness of the executors.
THEOREM ExecTypeCorrect == Spec => []ExecTypeOK
<1>1. ExecInv => ExecTypeOK
  BY DEF ExecInv, ExecTypeOK, LocalTypeOK, DataTypeOK
<1> QED BY <1>1, ExecInvariance, PTL

\* The executors use the ledger only through its functions, each with the
\* arguments the ledger allows: what holds of the ledger holds of the system.
THEOREM Refinement == Spec => ImplementsLedger
<1>1. Init => LedgerInit
  BY DEF Init
<1> QED BY <1>1, StepMaps, ExecInvariance, PTL DEF Spec, LedgerSpec, ImplementsLedger

-----------------------------------------------------------------------------
(* What is sent is what was sealed.                                        *)

USE DEF ledgerVars, sessionVars, fenceVars, planVars, ghostVars

\* The step of an executor leaves the others alone.
LEMMA Others ==
  ASSUME LocalTypeOK, NEW x \in Owner, ExecutorStep(x), NEW y \in Owner, y # x
  PROVE  /\ pc'[y] = pc[y] /\ at'[y] = at[y] /\ tok'[y] = tok[y]
         /\ mats'[y] = mats[y] /\ plan'[y] = plan[y] /\ turns'[y] = turns[y]
<1> USE DEF LocalTypeOK, Goto, Returns, Leave, Rest
<1>1. CASE RuntimeStep(x)
  BY <1>1
  DEF RuntimeStep, LoadContext, FreezeBindings, PrepareBinding, SealDispatch,
      CallProvider, StoreAnswer, CommitTurn, RecoverResult, Publish, Abort
<1>2. CASE PickupStep(x) \/ ReportStep(x)
  BY <1>2
  DEF PickupStep, AcquireInlineFence, InlineRefused, MarkJob, FetchRow,
      MarkRequest, ReportStep, ReadDispatchState, Report, ReportRefused
<1>3. CASE ~Advance(x)
  BY <1>3
  DEF ExecutorStep, ClaimStep, ClaimJob, ClaimReplyLost, StartInline, PollQueue,
      Heartbeat, AbortPickup, Timeout, ReportLost, Crash
<1> QED BY <1>1, <1>2, <1>3 DEF Advance

\* What an executor has fetched, frozen and sealed is what the ledger holds.
Sealed(x) ==
  /\ pc[x] \in Resting => mats[x] = None
  /\ mats[x] # None => materials[at[x]] = mats[x]
  /\ pc[x] \in {"bind", "seal", "call", "store"} => mats[x] # None
  /\ pc[x] \in {"call", "store"} =>
       /\ sealedBy[at[x]] = tok[x]
       /\ dispatch[at[x]] # "not_sent"
       /\ binding[at[x]] = plan[x]

Sealing == \A x \in Owner : Sealed(x)

\* The ledger takes nothing of it back.
LEMMA SealedStays ==
  ASSUME ExecInv, [LedgerNext]_ledgerVars, NEW x \in Owner, Sealed(x),
         pc'[x] = pc[x], at'[x] = at[x], tok'[x] = tok[x], mats'[x] = mats[x],
         plan'[x] = plan[x]
  PROVE  Sealed(x)'
<1>1. CASE pc[x] \in Resting
  BY <1>1 DEF Sealed, Resting
<1>2. CASE pc[x] \notin Resting
  <2>1. at[x] \in Request
    BY <1>2 DEF ExecInv, Placed
  <2>2. materials[at[x]] # None => materials'[at[x]] = materials[at[x]]
    BY <2>1, MaterialsStay DEF ExecInv
  <2>3. dispatch[at[x]] # "not_sent" =>
          /\ dispatch'[at[x]] # "not_sent"
          /\ sealedBy'[at[x]] = sealedBy[at[x]]
          /\ binding'[at[x]] = binding[at[x]]
    BY <2>1, DispatchStays, FrozenStep DEF ExecInv
  <2> QED BY <1>2, <2>2, <2>3 DEF Sealed
<1> QED BY <1>1, <1>2

LEMMA SealingInit == Init => Sealing
BY DEF Init, Sealing, Sealed, Resting

\* Moving on elsewhere keeps the materials.
LEMMA SealedMoves ==
  ASSUME ExecInv, [LedgerNext]_ledgerVars, NEW x \in Owner, Sealed(x),
         pc[x] \notin Resting,
         pc'[x] \notin Resting \cup {"call", "store"}, at'[x] = at[x],
         mats'[x] = mats[x],
         pc'[x] \in {"bind", "seal"} => mats[x] # None
  PROVE  Sealed(x)'
<1>1. at[x] \in Request
  BY DEF ExecInv, Placed
<1>2. materials[at[x]] # None => materials'[at[x]] = materials[at[x]]
  BY <1>1, MaterialsStay DEF ExecInv
<1> QED BY <1>2 DEF Sealed

LEMMA SealedLeaves ==
  ASSUME LocalTypeOK, NEW x \in Owner, NEW l \in Resting, Leave(x, l)
  PROVE  Sealed(x)'
BY DEF Leave, Goto, LocalTypeOK, Sealed, Resting

LEMMA SealedRests ==
  ASSUME LocalTypeOK, NEW x \in Owner, Rest(x)
  PROVE  Sealed(x)'
BY SealedLeaves DEF Rest, Resting

LEMMA SealedStep ==
  ASSUME ExecInv, Sealing, NEW x \in Owner, ExecutorStep(x)
  PROVE  Sealed(x)'
<1> USE DEF ExecInv
<1>1. Sealed(x) /\ [LedgerNext]_ledgerVars
  BY ExecutorMaps DEF Sealing
<1>2. pc[x] \notin Resting => at[x] \in Request
  BY DEF Placed
<1> DEFINE Moves(l) == /\ pc[x] \notin Resting
                       /\ Goto(x, l)
                       /\ at'[x] = at[x] /\ mats'[x] = mats[x]
                       /\ l \in {"bind", "seal"} => mats[x] # None
<1>3. ASSUME NEW l, l \notin Resting \cup {"call", "store"}, Moves(l)
      PROVE Sealed(x)'
  BY <1>1, <1>3, SealedMoves DEF Goto, LocalTypeOK
<1>4. CASE LoadContext(x)
  BY <1>3, <1>4 DEF LoadContext, Resting
<1>5. CASE FreezeBindings(x)
  <2>1. CASE mats[x] # None
    BY <1>3, <1>5, <2>1 DEF FreezeBindings, Resting
  <2>2. CASE mats[x] = None
    <3>1. PICK m \in Digest : /\ FreezeMaterials(at[x], m, x, tok[x])
                              /\ mats' = [mats EXCEPT ![x] = m]
      BY <1>5, <2>2 DEF FreezeBindings
    <3>2. /\ pc[x] \notin Resting /\ at' = at /\ pc'[x] \in {"bind", "failed"}
      BY <1>5, <2>2 DEF FreezeBindings, Returns, Goto, LocalTypeOK, Resting
    <3>3. materials'[at[x]] = m /\ mats'[x] = m /\ m # None
      BY <1>2, <3>1, <3>2, LedgerAssumption
      DEF FreezeMaterials, TypeOK, LocalTypeOK
    <3> QED BY <3>2, <3>3 DEF Sealed, Resting
  <2> QED BY <2>1, <2>2
<1>6. CASE PrepareBinding(x)
  BY <1>1, <1>3, <1>6 DEF PrepareBinding, Returns, Resting, Sealed
<1>7. CASE SealDispatch(x)
  <2>1. CASE Goto(x, "failed")
    BY <1>3, <1>7, <2>1 DEF SealDispatch, Resting
  <2>2. CASE Goto(x, "call")
    <3>1. /\ pc[x] = "seal" /\ pc'[x] = "call"
          /\ at' = at /\ tok' = tok /\ mats' = mats /\ plan' = plan
          /\ Seal(at[x], plan[x], x, tok[x])
      BY <1>7, <2>2 DEF SealDispatch, Goto, LocalTypeOK
    <3>2. at[x] \in Request
      BY <1>2, <3>1 DEF Resting
    <3>3. /\ sealedBy'[at[x]] = tok[x] /\ dispatch'[at[x]] # "not_sent"
          /\ binding' = binding /\ binding[at[x]] = plan[x]
          /\ materials' = materials
      BY <3>1, <3>2 DEF Seal, TypeOK
    <3> QED BY <1>1, <3>1, <3>3 DEF Sealed, Resting
  <2> QED BY <1>7, <2>1, <2>2 DEF SealDispatch, Returns
<1>8. CASE CallProvider(x)
  <2>1. CASE Goto(x, "failed")
    BY <1>3, <1>8, <2>1 DEF CallProvider, Resting
  <2>2. CASE Goto(x, "store")
    BY <1>1, <1>8, <2>2 DEF CallProvider, Goto, LocalTypeOK, Sealed, Resting
  <2> QED BY <1>8, <2>1, <2>2 DEF CallProvider, Returns
<1>9. CASE StoreAnswer(x) \/ Abort(x) \/ Timeout(x) \/ ReadDispatchState(x)
  <2>1. Moves("commit") \/ Moves("failed") \/ Moves("timeout") \/ Moves("unknown")
    BY <1>9
    DEF StoreAnswer, Abort, Timeout, ReadDispatchState, Returns, Protected, Runtime, Resting
  <2> QED BY <1>3, <2>1 DEF Resting
<1>10. CASE CommitTurn(x) \/ RecoverResult(x)
  <2>1. Rest(x) \/ Moves("failed")
    BY <1>10 DEF CommitTurn, RecoverResult, Publish, Resting
  <2> QED BY <1>3, <2>1, SealedRests DEF Resting
<1>11. CASE AcquireInlineFence(x)
  <2>1. Leave(x, "done") \/ Moves("load")
    BY <1>11 DEF AcquireInlineFence, Resting
  <2> QED BY <1>3, <2>1, SealedLeaves DEF Resting
<1>12. CASE MarkJob(x) \/ MarkRequest(x)
  <2>1. Moves("fetch") \/ Moves("recover") \/ Moves("load")
    BY <1>12 DEF MarkJob, MarkRequest, Resting
  <2> QED BY <1>3, <2>1 DEF Resting
<1>13. CASE FetchRow(x)
  <2>1. CASE Rest(x)
    BY <2>1, SealedRests
  <2>2. CASE ~Rest(x)
    BY <1>2, <1>13, <2>2
    DEF FetchRow, Goto, LocalTypeOK, Sealed, Resting
  <2> QED BY <2>1, <2>2
<1>14. CASE \E r \in Request : ClaimJob(x, r)
  BY <1>1, <1>14 DEF ClaimJob, Goto, LocalTypeOK, Sealed, Resting
<1>15. CASE \E r \in Request : StartInline(x, r)
  BY <1>15 DEF StartInline, Goto, LocalTypeOK, Sealed, Resting
<1>16. CASE UNCHANGED <<pc, localVars>>
  BY <1>1, <1>16, SealedStays
<1>17. CASE \/ InlineRefused(x) \/ Report(x) \/ ReportRefused(x)
            \/ AbortPickup(x) \/ ReportLost(x) \/ Crash(x)
  BY <1>17, SealedRests, SealedLeaves
  DEF InlineRefused, Report, ReportRefused, AbortPickup, ReportLost, Crash, Resting
<1> QED
  BY <1>4, <1>5, <1>6, <1>7, <1>8, <1>9, <1>10, <1>11, <1>12, <1>13, <1>14, <1>15,
     <1>16, <1>17
  DEF ExecutorStep, Advance, RuntimeStep, PickupStep, ReportStep, ClaimStep,
      ClaimReplyLost, PollQueue, Heartbeat

LEMMA SealingStep == ExecInv /\ Sealing /\ [Next]_vars => Sealing'
<1> SUFFICES ASSUME ExecInv, Sealing, [Next]_vars, NEW y \in Owner
             PROVE Sealed(y)'
  BY DEF Sealing
<1>1. [LedgerNext]_ledgerVars /\ Sealed(y)
  BY StepMaps DEF Sealing
<1>2. ASSUME NEW x \in Owner, ExecutorStep(x) PROVE Sealed(y)'
  <2>1. CASE x = y
    BY <1>2, <2>1, SealedStep
  <2>2. CASE x # y
    BY <1>1, <1>2, <2>2, Others, SealedStays DEF ExecInv
  <2> QED BY <2>1, <2>2
<1>3. CASE UNCHANGED <<pc, localVars>>
  BY <1>1, <1>3, SealedStays
<1> QED
  BY <1>2, <1>3
  DEF Next, ClientStep, PlanRequest, SubmitRequest, CancelRequest, PollRequest,
      LeaseRunsOut, TimePasses

LEMMA SealingInvariance == Spec => []Sealing
BY SealingInit, SealingStep, ExecInvariance, PTL DEF Spec

\* What is sent to the provider, and stored, is what the ledger sealed.
THEOREM CallsAreSealed == Spec => []CallIsSealed
<1>1. Sealing => CallIsSealed
  BY DEF Sealing, Sealed, CallIsSealed
<1> QED BY <1>1, SealingInvariance, PTL

-----------------------------------------------------------------------------
(* The provider is called at most once.                                    *)

\* Nobody called for a request that was not sealed, and the one executor that
\* sealed it is the one that calls.
CallsLeft ==
  /\ \A r \in Request : /\ calls[r] <= 1
                        /\ dispatch[r] = "not_sent" => calls[r] = 0
  /\ \A x \in Owner : pc[x] = "call" => calls[at[x]] = 0
  /\ \A x, y \in Owner : pc[x] = "call" /\ pc[y] = "call" /\ at[x] = at[y] => x = y

LEMMA CallsLeftInit == Init => CallsLeft
BY DEF Init, CallsLeft

\* A step that calls nobody and brings nobody to the call.
LEMMA CallsLeftStays ==
  ASSUME ExecInv, CallsLeft, [LedgerNext]_ledgerVars, calls' = calls,
         \A x \in Owner : pc'[x] = "call" => pc[x] = "call" /\ at'[x] = at[x]
  PROVE  CallsLeft'
<1>1. \A r \in Request : dispatch'[r] = "not_sent" => dispatch[r] = "not_sent"
  BY DispatchStays DEF ExecInv
<1> QED BY <1>1 DEF CallsLeft

LEMMA CallsLeftStep == ExecInv /\ Sealing /\ CallsLeft /\ [Next]_vars => CallsLeft'
<1> SUFFICES ASSUME ExecInv, Sealing, CallsLeft, [Next]_vars PROVE CallsLeft'
  OBVIOUS
<1>0. [LedgerNext]_ledgerVars
  BY StepMaps
<1>1. CASE UNCHANGED <<pc, localVars, calls>>
  BY <1>0, <1>1, CallsLeftStays
<1>2. ASSUME NEW x \in Owner, ExecutorStep(x) PROVE CallsLeft'
  <2>0. \A y \in Owner : y # x => pc'[y] = pc[y] /\ at'[y] = at[y]
    BY <1>2, Others DEF ExecInv
  <2>1. CASE CallProvider(x)
    <3>1. /\ pc[x] = "call" /\ pc'[x] # "call"
          /\ calls' = [calls EXCEPT ![at[x]] = @ + 1]
          /\ at' = at /\ dispatch' = dispatch
      BY <2>1 DEF CallProvider, Returns, Goto, ExecInv, LocalTypeOK
    <3>2. at[x] \in Request /\ calls[at[x]] = 0 /\ dispatch[at[x]] # "not_sent"
      BY <3>1 DEF ExecInv, Placed, Resting, CallsLeft, Sealing, Sealed
    <3>3. calls'[at[x]] = 1 /\ \A r \in Request : r # at[x] => calls'[r] = calls[r]
      BY <3>1, <3>2 DEF ExecInv, DataTypeOK
    <3>4. \A y \in Owner : pc'[y] = "call" => pc[y] = "call" /\ at[y] # at[x]
      BY <2>0, <3>1 DEF CallsLeft
    <3>5. \A y \in Owner : pc'[y] = "call" => at[y] \in Request
      BY <3>4 DEF ExecInv, Placed, Resting
    <3> QED BY <3>1, <3>2, <3>3, <3>4, <3>5 DEF CallsLeft
  <2>2. CASE SealDispatch(x)
    <3>1. /\ pc[x] = "seal" /\ at' = at /\ calls' = calls
          /\ dispatch[at[x]] = "not_sent"
      BY <2>2 DEF SealDispatch, Seal
    <3>2. at[x] \in Request
      BY <3>1 DEF ExecInv, Placed, Resting
    <3>3. calls[at[x]] = 0
      BY <3>1, <3>2 DEF CallsLeft
    <3>4. \A y \in Owner : pc[y] = "call" => at[y] # at[x]
      BY <3>1 DEF Sealing, Sealed
    <3>5. \A y \in Owner : y # x /\ pc'[y] = "call" => pc[y] = "call"
      BY <2>0
    <3>6. \A r \in Request : dispatch'[r] = "not_sent" => dispatch[r] = "not_sent"
      BY <1>0, DispatchStays DEF ExecInv
    <3> QED BY <3>1, <3>3, <3>4, <3>5, <3>6 DEF CallsLeft
  <2>3. CASE ~CallProvider(x) /\ ~SealDispatch(x)
    <3> USE <2>3 DEF ExecInv, LocalTypeOK, Goto, Returns, Leave, Rest
    <3>1. CASE RuntimeStep(x)
      <4>1. calls' = calls /\ (pc'[x] = "call" => pc[x] = "call" /\ at'[x] = at[x])
        BY <3>1
        DEF RuntimeStep, LoadContext, FreezeBindings, PrepareBinding,
            StoreAnswer, CommitTurn, RecoverResult, Publish, Abort
      <4> QED BY <1>0, <2>0, <4>1, CallsLeftStays
    <3>2. CASE PickupStep(x) \/ ReportStep(x)
      <4>1. calls' = calls /\ (pc'[x] = "call" => pc[x] = "call" /\ at'[x] = at[x])
        BY <3>2
        DEF PickupStep, AcquireInlineFence, InlineRefused, MarkJob, FetchRow,
            MarkRequest, ReportStep, ReadDispatchState, Report, ReportRefused
      <4> QED BY <1>0, <2>0, <4>1, CallsLeftStays
    <3>3. CASE ~Advance(x)
      <4>1. calls' = calls /\ (pc'[x] = "call" => pc[x] = "call" /\ at'[x] = at[x])
        BY <1>2, <3>3
        DEF ExecutorStep, ClaimStep, ClaimJob, ClaimReplyLost, StartInline,
            PollQueue, Heartbeat, AbortPickup, Timeout, ReportLost, Crash
      <4> QED BY <1>0, <2>0, <4>1, CallsLeftStays
    <3> QED BY <3>1, <3>2, <3>3 DEF Advance
  <2> QED BY <2>1, <2>2, <2>3
<1> QED
  BY <1>1, <1>2
  DEF Next, ClientStep, PlanRequest, SubmitRequest, CancelRequest, PollRequest,
      LeaseRunsOut, TimePasses

LEMMA CallsLeftInvariance == Spec => []CallsLeft
BY CallsLeftInit, CallsLeftStep, SealingInvariance, ExecInvariance, PTL DEF Spec

\* No request is ever sent to the provider twice.
THEOREM CalledAtMostOnce == Spec => []OneProviderCall
<1>1. CallsLeft => OneProviderCall
  BY DEF CallsLeft, OneProviderCall
<1> QED BY <1>1, CallsLeftInvariance, PTL

-----------------------------------------------------------------------------
(* What an executor works on, and what it has read of the history.         *)

\* Executors only work on requests that were accepted.
Known == \A x \in Owner : at[x] \in Request => Accepted(at[x])

LEMMA KnownInit == Init => Known
BY LedgerAssumption DEF Init, Known

LEMMA AtStep ==
  ASSUME ExecInv, [Next]_vars, NEW x \in Owner
  PROVE  \/ at'[x] \in {at[x], None}
         \/ \E r \in Request : at'[x] = r /\ (ClaimJob(x, r) \/ StartInline(x, r))
<1> USE DEF ExecInv, LocalTypeOK, Goto, Returns, Leave, Rest
<1>1. CASE at' = at
  BY <1>1
<1>2. ASSUME NEW y \in Owner, ExecutorStep(y), y # x PROVE at'[x] = at[x]
  BY <1>2, Others
<1>3. CASE RuntimeStep(x)
  BY <1>3
  DEF RuntimeStep, LoadContext, FreezeBindings, PrepareBinding, SealDispatch,
      CallProvider, StoreAnswer, CommitTurn, RecoverResult, Publish, Abort
<1>4. CASE PickupStep(x) \/ ReportStep(x)
  BY <1>4
  DEF PickupStep, AcquireInlineFence, InlineRefused, MarkJob, FetchRow,
      MarkRequest, ReportStep, ReadDispatchState, Report, ReportRefused
<1>5. CASE ExecutorStep(x) /\ ~Advance(x)
  BY <1>5
  DEF ExecutorStep, ClaimStep, ClaimJob, ClaimReplyLost, StartInline, PollQueue,
      Heartbeat, AbortPickup, Timeout, ReportLost, Crash
<1> QED
  BY <1>1, <1>2, <1>3, <1>4, <1>5
  DEF Next, Advance, ClientStep, PlanRequest, SubmitRequest, CancelRequest,
      PollRequest, LeaseRunsOut, TimePasses

LEMMA KnownStep == ExecInv /\ FreshRows /\ Known /\ [Next]_vars => Known'
<1> SUFFICES ASSUME ExecInv, FreshRows, Known, [Next]_vars, NEW x \in Owner,
                    at'[x] \in Request
             PROVE Accepted(at[x])'
  BY DEF Known
<1>1. \A r \in Request : Accepted(r) => Accepted(r)'
  BY StepMaps, AcceptedStays DEF ExecInv
<1>2. CASE at'[x] = at[x]
  BY <1>1, <1>2 DEF Known, Accepted
<1>3. ASSUME NEW r \in Request, at'[x] = r, ClaimJob(x, r) PROVE Accepted(r)
  BY <1>3 DEF ClaimJob, Claim, Claimable, SweptJob, Working, Accepted, FreshRows,
              ExecInv, TypeOK
<1>4. ASSUME NEW r \in Request, at'[x] = r, StartInline(x, r) PROVE Accepted(r)
  BY <1>4 DEF StartInline
<1>5. CASE at'[x] # at[x]
  <2>1. PICK r \in Request : at'[x] = r /\ (ClaimJob(x, r) \/ StartInline(x, r))
    BY <1>5, AtStep, LedgerAssumption
  <2>2. Accepted(r)'
    BY <1>1, <1>3, <1>4, <2>1
  <2> QED BY <2>1, <2>2 DEF Accepted
<1> QED BY <1>2, <1>5

LEMMA KnownInvariance == Spec => [](ExecInv /\ FreshRows /\ Known)
<1>1. Init => FreshRows /\ Known
  BY FreshInit, KnownInit DEF Init
<1>2. ExecInv /\ FreshRows /\ Known /\ [Next]_vars => (FreshRows /\ Known)'
  BY StepMaps, FreshStep, KnownStep DEF ExecInv
<1> QED BY <1>1, <1>2, ExecInvariance, PTL DEF Spec

-----------------------------------------------------------------------------
(* The history object of a session.                                        *)

Loaded == {"freeze", "bind", "seal", "call", "store", "commit"}

\* An executor keeps the turns it loaded.
LEMMA TurnsStep ==
  ASSUME ExecInv, [Next]_vars, NEW x \in Owner, pc'[x] \in Loaded
  PROVE  /\ at'[x] = at[x]
         /\ \/ pc[x] \in Loaded /\ turns'[x] = turns[x]
            \/ /\ pc[x] = "load"
               /\ turns'[x] = history[SessionOf[at[x]]]
               /\ history' = history
<1> USE DEF ExecInv, LocalTypeOK, Goto, Returns, Leave, Rest, Loaded, Resting
<1>1. CASE UNCHANGED <<pc, localVars>>
  BY <1>1
<1>2. ASSUME NEW y \in Owner, ExecutorStep(y), y # x
      PROVE  pc[x] \in Loaded /\ at'[x] = at[x] /\ turns'[x] = turns[x]
  BY <1>2, Others
<1>3. CASE RuntimeStep(x)
  BY <1>3
  DEF RuntimeStep, LoadContext, FreezeBindings, PrepareBinding, SealDispatch,
      CallProvider, StoreAnswer, CommitTurn, RecoverResult, Publish, Abort
<1>4. CASE PickupStep(x) \/ ReportStep(x)
  BY <1>4
  DEF PickupStep, AcquireInlineFence, InlineRefused, MarkJob, FetchRow,
      MarkRequest, ReportStep, ReadDispatchState, Report, ReportRefused
<1>5. CASE ExecutorStep(x) /\ ~Advance(x)
  BY <1>5
  DEF ExecutorStep, ClaimStep, ClaimJob, ClaimReplyLost, StartInline, PollQueue,
      Heartbeat, AbortPickup, Timeout, ReportLost, Crash
<1> QED
  BY <1>1, <1>2, <1>3, <1>4, <1>5
  DEF Next, Advance, ClientStep, PlanRequest, SubmitRequest, CancelRequest,
      PollRequest, LeaseRunsOut, TimePasses

Writes(x) == StoreAnswer(x) \/ CommitTurn(x) \/ RecoverResult(x)

Quiet ==
  /\ UNCHANGED <<history, commits, stored>>
  /\ \A r \in Request : dispatch'[r] = "result_stored" => dispatch[r] = "result_stored"

\* Only two steps write turns: storing a result and publishing it.
LEMMA QuietStep ==
  ASSUME ExecInv, [Next]_vars, \A x \in Owner : ~Writes(x)
  PROVE  Quiet
<1> USE DEF ExecInv, TypeOK, Quiet
<1>1. CASE UNCHANGED <<history, commits, stored, dispatch>>
  BY <1>1
<1>2. ASSUME NEW x \in Owner, RuntimeStep(x) PROVE Quiet
  <2>1. CASE SealDispatch(x)
    BY <2>1 DEF SealDispatch, Seal
  <2>2. CASE ~SealDispatch(x)
    BY <1>1, <1>2, <2>2
    DEF RuntimeStep, LoadContext, FreezeBindings, FreezeMaterials, PrepareBinding,
        InstallBinding, CallProvider, Abort, Writes
  <2> QED BY <2>1, <2>2
<1>3. ASSUME NEW x \in Owner, PickupStep(x) \/ ReportStep(x)
      PROVE UNCHANGED <<history, commits, stored, dispatch>>
  BY <1>3
  DEF PickupStep, AcquireInlineFence, AcquireSyncFence, InlineRefused, MarkJob,
      StartJob, FetchRow, MarkRequest, MarkRunning, ReportStep, ReadDispatchState,
      Report, Fail, ReportRefused
<1>4. ASSUME NEW x \in Owner, ExecutorStep(x), ~Advance(x)
      PROVE UNCHANGED <<history, commits, stored, dispatch>>
  BY <1>4
  DEF ExecutorStep, ClaimStep, ClaimJob, ClaimReplyLost, Claim, StartInline,
      PollQueue, ClaimNothing, Heartbeat, RenewLease, AbortPickup, Timeout,
      ReportLost, Crash
<1>5. ASSUME NEW r \in Request, ClientStep(r) \/ LeaseRunsOut(r) \/ TimePasses(r)
      PROVE UNCHANGED <<history, commits, stored, dispatch>>
  BY <1>5
  DEF ClientStep, PlanRequest, SubmitRequest, Accept, CancelRequest, Cancel,
      PollRequest, Reconcile, ReconcileSync, ReconcileJob, LeaseRunsOut,
      ExpireLease, TimePasses, BecomeLate
<1> QED BY <1>1, <1>2, <1>3, <1>4, <1>5 DEF Next, Advance

\* While a request holds its session the history stands still: what was loaded,
\* or stored, for it is the current history with its turn.
HistoryRead ==
  /\ \A x \in Owner : pc[x] \in Loaded /\ Reserved(at[x])
                        => turns[x] = history[SessionOf[at[x]]]
  /\ \A r \in Request : Reserved(r) /\ dispatch[r] = "result_stored"
                          => stored[r] = WithTurn(history[SessionOf[r]], r)
  /\ HistoryHoldsCommits

LEMMA HistoryReadInit == Init => HistoryRead
BY DEF Init, LedgerInit, HistoryRead, HistoryHoldsCommits, Loaded

LEMMA PublishKeepsRead ==
  ASSUME ExecInv, Known, HistoryRead, [Next]_vars, NEW x \in Owner, NEW ts,
         Publish(x, ts), at[x] \in Request,
         ts = WithTurn(history[SessionOf[at[x]]], at[x])
  PROVE  HistoryRead'
<1> DEFINE q == at[x]
           s == SessionOf[q]
<1>1. /\ s \in Session
      /\ history' = [history EXCEPT ![s] = ts]
      /\ commits' = [commits EXCEPT ![s] = Append(@, q)]
      /\ active' = [active EXCEPT ![s] = None]
      /\ dispatch' = [dispatch EXCEPT ![q] = "committed"]
      /\ stored' = stored
  BY LedgerAssumption DEF Publish, Complete, Commit
<1>2. /\ history \in [Session -> Seq(Request)] /\ commits \in [Session -> Seq(Request)]
      /\ active \in [Session -> Request \cup {None}]
      /\ dispatch \in [Request -> Dispatch]
  BY DEF ExecInv, TypeOK, DataTypeOK
<1>3. ASSUME NEW t \in Session
      PROVE  history'[t] = IF t \in Ephemeral THEN <<>> ELSE commits'[t]
  <2>1. CASE t # s
    BY <1>1, <1>2, <2>1 DEF HistoryRead, HistoryHoldsCommits
  <2>2. CASE t = s
    <3>1. history[s] = IF s \in Ephemeral THEN <<>> ELSE commits[s]
      BY <1>1 DEF HistoryRead, HistoryHoldsCommits
    <3>2. history'[s] = ts /\ commits'[s] = Append(commits[s], q)
      BY <1>1, <1>2
    <3> QED BY <2>2, <3>1, <3>2 DEF WithTurn
  <2> QED BY <2>1, <2>2
<1>4. ASSUME NEW r \in Request, Reserved(r)'
      PROVE  SessionOf[r] # s /\ history'[SessionOf[r]] = history[SessionOf[r]]
             /\ Reserved(r) /\ r # q
  <2>1. SessionOf[r] \in Session /\ None \notin Request
    BY LedgerAssumption
  <2> QED BY <1>1, <1>2, <1>4, <2>1 DEF Reserved
<1>5. ASSUME NEW y \in Owner, pc'[y] \in Loaded, Reserved(at[y])'
      PROVE  turns'[y] = history'[SessionOf[at'[y]]]
  <2>1. /\ at'[y] = at[y]
        /\ \/ pc[y] \in Loaded /\ turns'[y] = turns[y]
           \/ /\ pc[y] = "load"
              /\ turns'[y] = history[SessionOf[at[y]]]
    BY <1>5, TurnsStep
  <2>2. at[y] \in Request
    BY <2>1 DEF ExecInv, Placed, Resting, Loaded
  <2>3. Reserved(at[y]) /\ history'[SessionOf[at[y]]] = history[SessionOf[at[y]]]
    <3>1. \A r \in Request : active'[SessionOf[r]] = r =>
            Reserved(r) /\ history'[SessionOf[r]] = history[SessionOf[r]]
      BY <1>4 DEF Reserved
    <3>2. active'[SessionOf[at[y]]] = at[y]
      BY <1>5, <2>1 DEF Reserved
    <3> QED BY <2>2, <3>1, <3>2
  <2> QED BY <2>1, <2>3 DEF HistoryRead
<1>6. ASSUME NEW r \in Request, Reserved(r)', dispatch'[r] = "result_stored"
      PROVE  (stored[r] = WithTurn(history[SessionOf[r]], r))'
  BY <1>1, <1>2, <1>4, <1>6 DEF HistoryRead, WithTurn
<1>7. HistoryHoldsCommits'
  BY <1>3 DEF HistoryHoldsCommits
<1> QED BY <1>5, <1>6, <1>7 DEF HistoryRead

\* An executor's copy stays current as long as its session is reserved for it.
LEMMA CopyStays ==
  ASSUME ExecInv, Known, HistoryRead, [Next]_vars, history' = history,
         NEW x \in Owner, pc'[x] \in Loaded, Reserved(at[x])'
  PROVE  turns'[x] = history'[SessionOf[at'[x]]]
<1>1. /\ at'[x] = at[x]
      /\ \/ pc[x] \in Loaded /\ turns'[x] = turns[x]
         \/ pc[x] = "load" /\ turns'[x] = history[SessionOf[at[x]]]
  BY TurnsStep
<1>2. at[x] \in Request
  BY <1>1 DEF ExecInv, Placed, Resting, Loaded
<1>3. \A r \in Request : Accepted(r) /\ active'[SessionOf[r]] = r => Reserved(r)
  BY StepMaps, ReservedBefore DEF ExecInv, Reserved
<1>4. Reserved(at[x])
  BY <1>1, <1>2, <1>3 DEF Known, Reserved
<1> QED BY <1>1, <1>4 DEF HistoryRead

LEMMA HistoryReadStep ==
  ExecInv /\ FreshRows /\ Known /\ HistoryRead /\ [Next]_vars => HistoryRead'
<1> SUFFICES ASSUME ExecInv, FreshRows, Known, HistoryRead, [Next]_vars
             PROVE HistoryRead'
  OBVIOUS
<1>1. CASE \A x \in Owner : ~Writes(x)
  <2>1. Quiet
    BY <1>1, QuietStep
  <2>2. ASSUME NEW r \in Request, Reserved(r)', dispatch'[r] = "result_stored"
        PROVE  (stored[r] = WithTurn(history[SessionOf[r]], r))'
    <3>1. dispatch[r] = "result_stored" /\ Accepted(r)
      BY <2>1, <2>2 DEF Quiet, FreshRows, Accepted
    <3>2. Reserved(r)
      BY <2>2, <3>1, StepMaps, ReservedBefore DEF ExecInv
    <3> QED BY <2>1, <3>1, <3>2 DEF Quiet, HistoryRead, WithTurn
  <2>3. HistoryHoldsCommits'
    BY <2>1 DEF Quiet, HistoryRead, HistoryHoldsCommits
  <2>4. \A x \in Owner : pc'[x] \in Loaded /\ Reserved(at[x])'
                           => turns'[x] = history'[SessionOf[at'[x]]]
    BY <2>1, CopyStays DEF Quiet
  <2> QED BY <2>2, <2>3, <2>4 DEF HistoryRead
<1>2. ASSUME NEW x \in Owner, StoreAnswer(x) PROVE HistoryRead'
  <2>1. /\ pc[x] = "store" /\ history' = history /\ commits' = commits
        /\ active' = active
        /\ dispatch' = [dispatch EXCEPT ![at[x]] = "result_stored"]
        /\ stored' = [stored EXCEPT ![at[x]] = WithTurn(turns[x], at[x])]
    BY <1>2 DEF StoreAnswer, StoreResult
  <2>2. at[x] \in Request
    BY <2>1 DEF ExecInv, Placed, Resting
  <2>3. ASSUME NEW r \in Request, Reserved(r)', dispatch'[r] = "result_stored"
        PROVE  (stored[r] = WithTurn(history[SessionOf[r]], r))'
    <3>1. Reserved(r)
      BY <2>1, <2>3 DEF Reserved
    <3>2. CASE r = at[x]
      <4>1. turns[x] = history[SessionOf[r]]
        BY <2>1, <3>1, <3>2 DEF HistoryRead, Loaded
      <4>2. stored'[r] = WithTurn(turns[x], r)
        BY <2>1, <2>2, <3>2 DEF ExecInv, DataTypeOK
      <4> QED BY <2>1, <4>1, <4>2 DEF WithTurn
    <3>3. CASE r # at[x]
      <4>1. stored'[r] = stored[r] /\ dispatch'[r] = dispatch[r]
        BY <2>1, <2>2, <3>3 DEF ExecInv, DataTypeOK, TypeOK
      <4> QED BY <2>1, <2>3, <3>1, <4>1 DEF HistoryRead, WithTurn
    <3> QED BY <3>2, <3>3
  <2>4. HistoryHoldsCommits'
    BY <2>1 DEF HistoryRead, HistoryHoldsCommits
  <2>5. \A y \in Owner : pc'[y] \in Loaded /\ Reserved(at[y])'
                           => turns'[y] = history'[SessionOf[at'[y]]]
    BY <2>1, CopyStays
  <2> QED BY <2>3, <2>4, <2>5 DEF HistoryRead
<1>3. ASSUME NEW x \in Owner, CommitTurn(x) \/ RecoverResult(x) PROVE HistoryRead'
  <2>1. PICK ts : /\ Publish(x, ts)
                  /\ \/ pc[x] = "commit" /\ ts = WithTurn(turns[x], at[x])
                     \/ pc[x] = "recover" /\ ts = stored[at[x]]
    BY <1>3 DEF CommitTurn, RecoverResult
  <2>2. at[x] \in Request
    BY <2>1 DEF ExecInv, Placed, Resting
  <2>3. Reserved(at[x]) /\ dispatch[at[x]] = "result_stored"
    BY <2>1 DEF Publish, Complete, Reserved
  <2>4. ts = WithTurn(history[SessionOf[at[x]]], at[x])
    BY <2>1, <2>2, <2>3 DEF HistoryRead, Loaded
  <2> QED BY <2>1, <2>2, <2>4, PublishKeepsRead
<1> QED BY <1>1, <1>2, <1>3 DEF Writes

LEMMA HistoryReadInvariance == Spec => []HistoryRead
BY HistoryReadInit, HistoryReadStep, KnownInvariance, PTL DEF Spec

\* The history object of a session holds exactly its committed turns.
THEOREM HistoriesHoldCommits == Spec => []HistoryHoldsCommits
<1>1. HistoryRead => HistoryHoldsCommits
  BY DEF HistoryRead
<1> QED BY <1>1, HistoryReadInvariance, PTL

-----------------------------------------------------------------------------
(* The plan an answer belongs to.                                          *)

Checked == {"seal", "call", "store"}

LEMMA CheckedStep ==
  ASSUME ExecInv, [Next]_vars, NEW x \in Owner, pc'[x] \in Checked
  PROVE  /\ at'[x] = at[x] /\ turns'[x] = turns[x]
         /\ \/ pc[x] \in Checked
            \/ pc[x] = "bind" /\ (at[x] \in Verified => turns[x] = planned[at[x]])
<1> USE DEF ExecInv, LocalTypeOK, Goto, Returns, Leave, Rest, Checked, Resting
<1>1. CASE UNCHANGED <<pc, localVars>>
  BY <1>1
<1>2. ASSUME NEW y \in Owner, ExecutorStep(y), y # x
      PROVE  pc[x] \in Checked /\ at'[x] = at[x] /\ turns'[x] = turns[x]
  BY <1>2, Others
<1>3. CASE RuntimeStep(x)
  BY <1>3
  DEF RuntimeStep, LoadContext, FreezeBindings, PrepareBinding, SealDispatch,
      CallProvider, StoreAnswer, CommitTurn, RecoverResult, Publish, Abort
<1>4. CASE PickupStep(x) \/ ReportStep(x)
  BY <1>4
  DEF PickupStep, AcquireInlineFence, InlineRefused, MarkJob, FetchRow,
      MarkRequest, ReportStep, ReadDispatchState, Report, ReportRefused
<1>5. CASE ExecutorStep(x) /\ ~Advance(x)
  BY <1>5
  DEF ExecutorStep, ClaimStep, ClaimJob, ClaimReplyLost, StartInline, PollQueue,
      Heartbeat, AbortPickup, Timeout, ReportLost, Crash
<1> QED
  BY <1>1, <1>2, <1>3, <1>4, <1>5
  DEF Next, Advance, ClientStep, PlanRequest, SubmitRequest, CancelRequest,
      PollRequest, LeaseRunsOut, TimePasses

\* A request is planned only before it is accepted.
LEMMA PlannedStays ==
  ASSUME ExecInv, [Next]_vars, NEW r \in Request, Accepted(r)
  PROVE  planned'[r] = planned[r]
<1>1. CASE planned' = planned
  BY <1>1
<1>2. ASSUME NEW q \in Request, PlanRequest(q) PROVE planned'[r] = planned[r]
  BY <1>2 DEF PlanRequest, Accepted, ExecInv, DataTypeOK
<1>3. ASSUME NEW x \in Owner, RuntimeStep(x) PROVE planned' = planned
  BY <1>3
  DEF RuntimeStep, LoadContext, FreezeBindings, PrepareBinding, SealDispatch,
      CallProvider, StoreAnswer, CommitTurn, RecoverResult, Publish, Abort
<1>4. ASSUME NEW x \in Owner, PickupStep(x) \/ ReportStep(x) PROVE planned' = planned
  BY <1>4
  DEF PickupStep, AcquireInlineFence, InlineRefused, MarkJob, FetchRow,
      MarkRequest, ReportStep, ReadDispatchState, Report, ReportRefused
<1>5. ASSUME NEW x \in Owner, ExecutorStep(x), ~Advance(x) PROVE planned' = planned
  BY <1>5
  DEF ExecutorStep, ClaimStep, ClaimJob, ClaimReplyLost, StartInline, PollQueue,
      Heartbeat, AbortPickup, Timeout, ReportLost, Crash
<1>6. ASSUME NEW q \in Request,
             SubmitRequest(q) \/ CancelRequest(q) \/ PollRequest(q)
               \/ LeaseRunsOut(q) \/ TimePasses(q)
      PROVE planned' = planned
  BY <1>6 DEF SubmitRequest, CancelRequest, PollRequest, LeaseRunsOut, TimePasses
<1> QED
  BY <1>1, <1>2, <1>3, <1>4, <1>5, <1>6 DEF Next, Advance, ClientStep

PlanRead ==
  /\ \A x \in Owner : pc[x] \in Checked /\ at[x] \in Verified
                        => turns[x] = planned[at[x]]
  /\ StoredExtendsPlan

LEMMA PlanReadInit == Init => PlanRead
BY ExecutionAssumption DEF Init, LedgerInit, PlanRead, StoredExtendsPlan, Checked

LEMMA PlanReadStep ==
  ExecInv /\ FreshRows /\ Known /\ PlanRead /\ [Next]_vars => PlanRead'
<1> SUFFICES ASSUME ExecInv, FreshRows, Known, PlanRead, [Next]_vars
             PROVE PlanRead'
  OBVIOUS
<1>1. ASSUME NEW x \in Owner, pc'[x] \in Checked, at'[x] \in Verified
      PROVE  turns'[x] = planned'[at'[x]]
  <2>1. /\ at'[x] = at[x] /\ turns'[x] = turns[x]
        /\ \/ pc[x] \in Checked
           \/ pc[x] = "bind" /\ (at[x] \in Verified => turns[x] = planned[at[x]])
    BY <1>1, CheckedStep
  <2>2. at[x] \in Request /\ Accepted(at[x])
    BY <2>1 DEF ExecInv, Placed, Resting, Checked, Known
  <2>3. planned'[at[x]] = planned[at[x]]
    BY <2>2, PlannedStays
  <2> QED BY <1>1, <2>1, <2>3 DEF PlanRead
<1>2. ASSUME NEW r \in Verified, dispatch[r] = "result_stored", stored'[r] = stored[r]
      PROVE  (stored[r] = WithTurn(planned[r], r))'
  <2>1. r \in Request /\ Accepted(r)
    BY <1>2, ExecutionAssumption DEF FreshRows, Accepted
  <2>2. planned'[r] = planned[r]
    BY <2>1, PlannedStays
  <2> QED BY <1>2, <2>2 DEF PlanRead, StoredExtendsPlan, WithTurn
<1>3. ASSUME NEW r \in Verified, dispatch'[r] = "result_stored"
      PROVE  (stored[r] = WithTurn(planned[r], r))'
  <2>1. CASE \A x \in Owner : ~Writes(x)
    BY <1>2, <1>3, <2>1, QuietStep, ExecutionAssumption DEF Quiet
  <2>2. ASSUME NEW x \in Owner, StoreAnswer(x)
        PROVE  (stored[r] = WithTurn(planned[r], r))'
    <3>1. /\ pc[x] = "store"
          /\ planned' = planned
          /\ dispatch' = [dispatch EXCEPT ![at[x]] = "result_stored"]
          /\ stored' = [stored EXCEPT ![at[x]] = WithTurn(turns[x], at[x])]
      BY <2>2 DEF StoreAnswer, StoreResult
    <3>2. at[x] \in Request /\ r \in Request
      BY <3>1, ExecutionAssumption DEF ExecInv, Placed, Resting
    <3>3. CASE r = at[x]
      <4>1. turns[x] = planned[r]
        BY <3>1, <3>3 DEF PlanRead, Checked
      <4>2. stored'[r] = WithTurn(turns[x], r)
        BY <3>1, <3>2, <3>3 DEF ExecInv, DataTypeOK
      <4> QED BY <3>1, <4>1, <4>2 DEF WithTurn
    <3>4. CASE r # at[x]
      <4>1. stored'[r] = stored[r] /\ dispatch'[r] = dispatch[r]
        BY <3>1, <3>2, <3>4 DEF ExecInv, DataTypeOK, TypeOK
      <4> QED BY <1>2, <1>3, <4>1
    <3> QED BY <3>3, <3>4
  <2>3. ASSUME NEW x \in Owner, CommitTurn(x) \/ RecoverResult(x)
        PROVE  (stored[r] = WithTurn(planned[r], r))'
    <3>1. /\ stored' = stored
          /\ dispatch' = [dispatch EXCEPT ![at[x]] = "committed"]
      BY <2>3 DEF CommitTurn, RecoverResult, Publish, Complete, Commit
    <3>2. dispatch[r] = "result_stored"
      BY <1>3, <3>1, ExecutionAssumption DEF ExecInv, TypeOK
    <3> QED BY <1>2, <3>1, <3>2
  <2> QED BY <2>1, <2>2, <2>3 DEF Writes
<1>4. StoredExtendsPlan'
  BY <1>3 DEF StoredExtendsPlan
<1> QED BY <1>1, <1>4 DEF PlanRead

LEMMA PlanReadInvariance == Spec => []PlanRead
BY PlanReadInit, PlanReadStep, KnownInvariance, PTL DEF Spec

\* A stored answer extends the history its request was planned with.
THEOREM AnswersExtendPlans == Spec => []StoredExtendsPlan
<1>1. PlanRead => StoredExtendsPlan
  BY DEF PlanRead
<1> QED BY <1>1, PlanReadInvariance, PTL

===============================================================================
