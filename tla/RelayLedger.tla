----------------------------- MODULE RelayLedger -----------------------------
(***************************************************************************)
(* The Session / Request / Job ledger: the rows of relay_sessions,         *)
(* relay_requests, relay_jobs and relay_request_cache_bindings, and the    *)
(* PostgreSQL functions that change them.  Every function is one           *)
(* transaction that locks the rows it reads, so it is one action here; a   *)
(* call that returns false or raises changes nothing and is no step.       *)
(*                                                                         *)
(* Next lets any caller use any function with any fence.  What holds here  *)
(* holds whatever the executors do; RelayExecution adds the executors.     *)
(*                                                                         *)
(* A job belongs to exactly one asynchronous request, so it is keyed by    *)
(* that request.  relay_jobs.(lease_owner, lease_epoch, lease_expires_at)  *)
(* of an asynchronous request and relay_requests.(request_executor_id,     *)
(* request_executor_epoch, request_executor_lease_expires_at) of a         *)
(* synchronous one play the same part: both are (owner, epoch, lease).     *)
(***************************************************************************)
EXTENDS Integers, Sequences, FiniteSets

CONSTANTS
  Session,    \* rows of relay_sessions
  Request,    \* every request that may be submitted, each with its own key
  Async,      \* those with execution.mode = "async"
  SessionOf,  \* the session each request is submitted to
  Ephemeral,  \* sessions whose history_mode is ephemeral_turn
  Owner,      \* executor identities: worker ids and "sync:<uuid>" ids
  Digest,     \* values of a material snapshot or of a binding_hash
  None,       \* SQL null
  MaxEpoch    \* bound: how often one request may be claimed

ASSUME LedgerAssumption ==
  /\ Async \subseteq Request
  /\ SessionOf \in [Request -> Session]
  /\ Ephemeral \subseteq Session
  /\ None \notin Request \cup Owner \cup Digest
  /\ MaxEpoch \in Nat

VARIABLES
  active,    \* relay_sessions.active_request_id
  version,   \* relay_sessions.history_version
  status,    \* relay_requests.status, "absent" before the row exists
  dispatch,  \* relay_requests.provider_dispatch_state
  expected,  \* relay_requests.expected_history_version
  materials, \* relay_requests.material_binding_snapshot
  binding,   \* binding_hash of the request's relay_request_cache_bindings row
  job,       \* relay_jobs.status, "none" when the request has no job
  owner,     \* fence owner
  epoch,     \* fence epoch
  lease,     \* fence lease: "none", "live" (not yet expired) or "expired"
  late,      \* async: job past expires_at; sync: started_at past the deadline
  sealedBy,  \* history: the epoch that sealed the dispatch, 0 before
  storedBy,  \* history: the epoch that stored the provider result, 0 before
  commits    \* history: the requests committed to each session, in order

sessionVars == <<active, version, commits>>
fenceVars   == <<owner, epoch, lease>>
planVars    == <<expected, materials, binding>>
ghostVars   == <<sealedBy, storedBy>>
ledgerVars  == <<active, version, commits, status, dispatch, expected,
                 materials, binding, job, owner, epoch, lease, late,
                 sealedBy, storedBy>>

Status   == {"absent", "queued", "running", "succeeded", "failed",
             "cancelled", "indeterminate"}
Closed   == {"succeeded", "failed", "cancelled", "indeterminate"}
Dispatch == {"not_sent", "dispatch_started", "result_stored", "committed"}
JobState == {"none", "queued", "leased", "running", "succeeded", "failed",
             "cancelled", "indeterminate"}
Working  == {"leased", "running"}
Lease    == {"none", "live", "expired"}

TypeOK ==
  /\ active \in [Session -> Request \cup {None}]
  /\ version \in [Session -> Nat]
  /\ status \in [Request -> Status]
  /\ dispatch \in [Request -> Dispatch]
  /\ expected \in [Request -> Nat]
  /\ materials \in [Request -> Digest \cup {None}]
  /\ binding \in [Request -> Digest \cup {None}]
  /\ job \in [Request -> JobState]
  /\ owner \in [Request -> Owner \cup {None}]
  /\ epoch \in [Request -> Nat]
  /\ lease \in [Request -> Lease]
  /\ late \in [Request -> BOOLEAN]
  /\ sealedBy \in [Request -> Nat]
  /\ storedBy \in [Request -> Nat]
  /\ commits \in [Session -> Seq(Request)]

LedgerInit ==
  /\ active = [s \in Session |-> None]
  /\ version = [s \in Session |-> 0]
  /\ status = [r \in Request |-> "absent"]
  /\ dispatch = [r \in Request |-> "not_sent"]
  /\ expected = [r \in Request |-> 0]
  /\ materials = [r \in Request |-> None]
  /\ binding = [r \in Request |-> None]
  /\ job = [r \in Request |-> "none"]
  /\ owner = [r \in Request |-> None]
  /\ epoch = [r \in Request |-> 0]
  /\ lease = [r \in Request |-> "none"]
  /\ late = [r \in Request |-> FALSE]
  /\ sealedBy = [r \in Request |-> 0]
  /\ storedBy = [r \in Request |-> 0]
  /\ commits = [s \in Session |-> <<>>]

Accepted(r) == status[r] # "absent"
Reserved(r) == active[SessionOf[r]] = r

-----------------------------------------------------------------------------
(* Fences.                                                                 *)

OwnsFence(r, o, e) == owner[r] = o /\ epoch[r] = e

\* The fence of the pre-dispatch functions.  A job's lease time is not read.
HoldsFence(r, o, e) ==
  /\ OwnsFence(r, o, e)
  /\ IF r \in Async THEN job[r] \in Working ELSE lease[r] = "live"

\* The fence of store_relay_result_v66 and complete_relay_request_v66.
HoldsLiveFence(r, o, e) == HoldsFence(r, o, e) /\ lease[r] = "live"

GrantFence(r, o) ==
  /\ epoch[r] < MaxEpoch
  /\ owner' = [owner EXCEPT ![r] = o]
  /\ epoch' = [epoch EXCEPT ![r] = @ + 1]
  /\ lease' = [lease EXCEPT ![r] = "live"]

-----------------------------------------------------------------------------
(* Admission.                                                              *)

\* v is the history version the API read when it planned the request.
Accept(r, v) ==
  LET s == SessionOf[r] IN
  /\ status[r] = "absent"
  /\ active[s] = None
  /\ version[s] = v
  /\ active' = [active EXCEPT ![s] = r]
  /\ status' = [status EXCEPT ![r] = IF r \in Async THEN "queued" ELSE "running"]
  /\ expected' = [expected EXCEPT ![r] = version[s]]
  /\ job' = [job EXCEPT ![r] = IF r \in Async THEN "queued" ELSE "none"]
  /\ UNCHANGED <<version, commits, dispatch, materials, binding, fenceVars,
                 late, ghostVars>>

AcquireSyncFence(r, o) ==
  /\ r \notin Async
  /\ status[r] = "running"
  /\ dispatch[r] = "not_sent"
  /\ owner[r] \in {None, o} \/ lease[r] = "expired"
  /\ GrantFence(r, o)
  /\ UNCHANGED <<sessionVars, status, dispatch, planVars, job, late, ghostVars>>

-----------------------------------------------------------------------------
(* Job queue.  A claim first closes what a dead worker left behind.        *)

Orphaned(r) ==
  /\ job[r] \in Working
  /\ lease[r] = "expired"
  /\ dispatch[r] = "dispatch_started"

SweptStatus ==
  [r \in Request |-> IF Orphaned(r) THEN "indeterminate" ELSE status[r]]

SweptJob ==
  [r \in Request |->
     IF /\ job[r] \in Working
        /\ lease[r] = "expired"
        /\ SweptStatus[r] = "indeterminate"
     THEN "indeterminate" ELSE job[r]]

\* Mutant: the dispatch state is not looked at.
ClaimableDispatched(r) ==
  /\ ~late[r]
  /\ \/ job[r] = "queued"
     \/ job[r] \in Working /\ lease[r] = "expired"

\* Mutant: stored results are not picked up again.
ClaimableUnsent(r) ==
  /\ ~late[r]
  /\ \/ job[r] = "queued"
     \/ /\ SweptJob[r] \in Working
        /\ lease[r] = "expired"
        /\ dispatch[r] = "not_sent"

Claimable(r) ==
  /\ ~late[r]
  /\ \/ job[r] = "queued"
     \/ /\ SweptJob[r] \in Working
        /\ lease[r] = "expired"
        /\ dispatch[r] \in {"not_sent", "result_stored"}

Claim(r, o) ==
  /\ Claimable(r)
  /\ GrantFence(r, o)
  /\ status' = SweptStatus
  /\ job' = [SweptJob EXCEPT ![r] = "leased"]
  /\ UNCHANGED <<sessionVars, dispatch, planVars, late, ghostVars>>

\* A claim that returns no row: nothing is claimable, or SKIP LOCKED passed
\* over the candidates.
ClaimNothing ==
  /\ status' = SweptStatus
  /\ job' = SweptJob
  /\ UNCHANGED <<sessionVars, dispatch, planVars, fenceVars, late, ghostVars>>

RenewLease(r, o, e) ==
  /\ OwnsFence(r, o, e)
  /\ job[r] \in Working
  /\ lease' = [lease EXCEPT ![r] = "live"]
  /\ UNCHANGED <<sessionVars, status, dispatch, planVars, job, owner, epoch,
                 late, ghostVars>>

\* update_job(status = running), filtered by job id and lease_owner only.
StartJob(r, o) ==
  /\ job[r] # "none"
  /\ owner[r] = o
  /\ job' = [job EXCEPT ![r] = "running"]
  /\ UNCHANGED <<sessionVars, status, dispatch, planVars, fenceVars, late, ghostVars>>

\* update_request(status = running), filtered by the request id only.
MarkRunning(r) ==
  /\ epoch[r] > 0 /\ r \in Async
  /\ status' = [status EXCEPT ![r] = "running"]
  /\ UNCHANGED <<sessionVars, dispatch, planVars, job, fenceVars, late, ghostVars>>

-----------------------------------------------------------------------------
(* From the frozen bindings to the single dispatch.                        *)

\* Mutant: the snapshot is written with update_request, by the id only.
WriteMaterials(r, m, o, e) ==
  /\ epoch[r] > 0
  /\ materials' = [materials EXCEPT ![r] = m]
  /\ UNCHANGED <<sessionVars, status, dispatch, expected, binding, job,
                 fenceVars, late, ghostVars>>

FreezeMaterials(r, m, o, e) ==
  /\ dispatch[r] = "not_sent"
  /\ HoldsFence(r, o, e)
  /\ materials[r] \in {None, m}
  /\ materials' = [materials EXCEPT ![r] = m]
  /\ UNCHANGED <<sessionVars, status, dispatch, expected, binding, job,
                 fenceVars, late, ghostVars>>

\* INSERT ... ON CONFLICT DO NOTHING: the first binding of a request stays.
InstallBinding(r, h, o, e) ==
  /\ dispatch[r] = "not_sent"
  /\ status[r] \notin Closed
  /\ HoldsFence(r, o, e)
  /\ binding' = [binding EXCEPT ![r] = IF @ = None THEN h ELSE @]
  /\ UNCHANGED <<sessionVars, status, dispatch, expected, materials, job,
                 fenceVars, late, ghostVars>>

Seal(r, h, o, e) ==
  /\ dispatch[r] = "not_sent"
  /\ status[r] \notin Closed
  /\ binding[r] = h
  /\ HoldsFence(r, o, e)
  /\ dispatch' = [dispatch EXCEPT ![r] = "dispatch_started"]
  /\ sealedBy' = [sealedBy EXCEPT ![r] = e]
  /\ UNCHANGED <<sessionVars, status, planVars, job, fenceVars, late, storedBy>>

-----------------------------------------------------------------------------
(* Outcomes.                                                               *)

StoreResult(r, o, e) ==
  /\ dispatch[r] = "dispatch_started"
  /\ status[r] \notin Closed
  /\ HoldsLiveFence(r, o, e)
  /\ dispatch' = [dispatch EXCEPT ![r] = "result_stored"]
  /\ storedBy' = [storedBy EXCEPT ![r] = e]
  /\ UNCHANGED <<sessionVars, status, planVars, job, fenceVars, late, sealedBy>>

\* What the function writes once the session row was updated.
Commit(r) ==
  LET s == SessionOf[r] IN
  /\ commits' = [commits EXCEPT ![s] = Append(@, r)]
  /\ status' = [status EXCEPT ![r] = "succeeded"]
  /\ dispatch' = [dispatch EXCEPT ![r] = "committed"]
  /\ job' = [job EXCEPT ![r] = IF r \in Async THEN "succeeded" ELSE @]
  /\ UNCHANGED <<planVars, fenceVars, late, ghostVars>>

\* Mutant: "if not found then return false" after the session UPDATE is missing.
CompleteAnyway(r, v, o, e) ==
  LET s == SessionOf[r] IN
  /\ dispatch[r] = "result_stored"
  /\ status[r] \notin Closed
  /\ HoldsLiveFence(r, o, e)
  /\ IF active[s] = r /\ version[s] = v
       THEN /\ active' = [active EXCEPT ![s] = None]
            /\ version' = [version EXCEPT ![s] = IF s \in Ephemeral THEN @ ELSE @ + 1]
       ELSE UNCHANGED <<active, version>>
  /\ Commit(r)

\* v is the expected_history_version of the row the executor read.
Complete(r, v, o, e) ==
  LET s == SessionOf[r] IN
  /\ dispatch[r] = "result_stored"
  /\ status[r] \notin Closed
  /\ HoldsLiveFence(r, o, e)
  /\ active[s] = r
  /\ version[s] = v
  /\ active' = [active EXCEPT ![s] = None]
  /\ version' = [version EXCEPT ![s] = IF s \in Ephemeral THEN @ ELSE @ + 1]
  /\ Commit(r)

ReleaseSession(r) ==
  active' = [s \in Session |-> IF active[s] = r THEN None ELSE active[s]]

\* fail_relay_request_v3: neither the job status nor the lease is looked at.
Fail(r, outcome, release, o, e) ==
  /\ status[r] \notin {"absent", "succeeded", "cancelled"}
  /\ OwnsFence(r, o, e)
  /\ status' = [status EXCEPT ![r] = outcome]
  /\ job' = [job EXCEPT ![r] = IF r \in Async THEN outcome ELSE @]
  /\ IF release THEN ReleaseSession(r) ELSE UNCHANGED active
  /\ UNCHANGED <<version, commits, dispatch, planVars, fenceVars, late, ghostVars>>

\* Mutant: the session keeps its active request.
CancelKeepingSession(r) ==
  /\ status[r] \notin {"absent", "succeeded", "failed", "cancelled"}
  /\ status' = [status EXCEPT ![r] = "cancelled"]
  /\ job' = [job EXCEPT ![r] =
               IF @ \in {"none", "succeeded", "failed"} THEN @ ELSE "cancelled"]
  /\ UNCHANGED <<sessionVars, dispatch, planVars, fenceVars, late, ghostVars>>

Cancel(r) ==
  /\ status[r] \notin {"absent", "succeeded", "failed", "cancelled"}
  /\ status' = [status EXCEPT ![r] = "cancelled"]
  /\ job' = [job EXCEPT ![r] =
               IF @ \in {"none", "succeeded", "failed"} THEN @ ELSE "cancelled"]
  /\ ReleaseSession(r)
  /\ UNCHANGED <<version, commits, dispatch, planVars, fenceVars, late, ghostVars>>

ReconcileSync(r) ==
  /\ r \notin Async
  /\ status[r] = "running"
  /\ dispatch[r] = "dispatch_started"
  /\ late[r]
  /\ status' = [status EXCEPT ![r] = "indeterminate"]
  /\ UNCHANGED <<sessionVars, dispatch, planVars, job, fenceVars, late, ghostVars>>

ReconcileJob(r) ==
  /\ Orphaned(r)
  /\ status' = [status EXCEPT ![r] = "indeterminate"]
  /\ job' = [job EXCEPT ![r] = "indeterminate"]
  /\ UNCHANGED <<sessionVars, dispatch, planVars, fenceVars, late, ghostVars>>

\* Mutant: only requests with a job are reconciled.
ReconcileJobOnly(r) == ReconcileJob(r)

\* reconcile_relay_request, called by every GET of a request.
Reconcile(r) == ReconcileSync(r) \/ ReconcileJob(r)

-----------------------------------------------------------------------------
(* Time.  A sync fence is granted for the deadline plus 30 seconds, so it  *)
(* expires only after the request's own deadline.                          *)

ExpireLease(r) ==
  /\ lease[r] = "live"
  /\ r \in Async \/ late[r]
  /\ lease' = [lease EXCEPT ![r] = "expired"]
  /\ UNCHANGED <<sessionVars, status, dispatch, planVars, job, owner, epoch,
                 late, ghostVars>>

BecomeLate(r) ==
  /\ Accepted(r)
  /\ ~late[r]
  /\ late' = [late EXCEPT ![r] = TRUE]
  /\ UNCHANGED <<sessionVars, status, dispatch, planVars, job, fenceVars, ghostVars>>

-----------------------------------------------------------------------------
Outcome(release) == IF release THEN {"failed"} ELSE {"indeterminate"}

FencedCall(r, o, e) ==
  \/ RenewLease(r, o, e)
  \/ \E d \in Digest : \/ FreezeMaterials(r, d, o, e)
                       \/ InstallBinding(r, d, o, e)
                       \/ Seal(r, d, o, e)
  \/ StoreResult(r, o, e)
  \/ Complete(r, expected[r], o, e)
  \/ \E release \in BOOLEAN :
       \E outcome \in Outcome(release) : Fail(r, outcome, release, o, e)

LedgerStep(r) ==
  \/ Accept(r, version[SessionOf[r]])
  \/ \E o \in Owner : \/ AcquireSyncFence(r, o)
                      \/ Claim(r, o)
                      \/ StartJob(r, o)
                      \/ \E e \in 1..MaxEpoch : FencedCall(r, o, e)
  \/ MarkRunning(r)
  \/ Cancel(r)
  \/ Reconcile(r)
  \/ ExpireLease(r)
  \/ BecomeLate(r)

LedgerNext == ClaimNothing \/ \E r \in Request : LedgerStep(r)

LedgerSpec == LedgerInit /\ [][LedgerNext]_ledgerVars

-----------------------------------------------------------------------------
(* Safety.                                                                 *)

\* A session is never blocked by a request that is over: its holder was
\* submitted to it, is queued, running or of unknown outcome, and has not
\* published its turn.
ReservationIsLive ==
  \A s \in Session :
    active[s] # None =>
      /\ SessionOf[active[s]] = s
      /\ status[active[s]] \in {"queued", "running", "indeterminate"}
      /\ dispatch[active[s]] # "committed"

\* The turns of a session form one line: the k-th turn of a cumulative session
\* was planned against exactly the k-1 turns before it, the version counts
\* them, and no request is published twice.
HistoryIsLinear ==
  \A s \in Session :
    /\ version[s] = IF s \in Ephemeral THEN 0 ELSE Len(commits[s])
    /\ \A k \in DOMAIN commits[s] :
         /\ dispatch[commits[s][k]] = "committed"
         /\ s \notin Ephemeral => expected[commits[s][k]] = k - 1
         /\ \A j \in DOMAIN commits[s] : commits[s][j] = commits[s][k] => j = k

\* The provider result that is stored, and later committed, is the answer to
\* the one dispatch that was sealed: no other fence can slip in between.
ResultAnswersDispatch ==
  \A r \in Request :
    /\ sealedBy[r] = 0 <=> dispatch[r] = "not_sent"
    /\ dispatch[r] = "dispatch_started" => sealedBy[r] = epoch[r]
    /\ dispatch[r] \in {"result_stored", "committed"} => storedBy[r] = sealedBy[r]

\* A request that lost its reservation, by a cancel or a failure, never gets it
\* back and never publishes a turn, whatever a late executor still does.
LostReservationIsFinal ==
  [][\A r \in Request :
       Accepted(r) /\ ~Reserved(r) /\ dispatch[r] # "committed"
         => dispatch'[r] # "committed" /\ active'[SessionOf[r]] # r]_ledgerVars

\* After the seal nothing about what is sent changes: the materials and the
\* binding of a dispatched request are frozen.
DispatchedPlanIsFrozen ==
  [][\A r \in Request :
       dispatch[r] # "not_sent" =>
         /\ materials'[r] = materials[r]
         /\ binding'[r] = binding[r]
         /\ sealedBy'[r] = sealedBy[r]]_ledgerVars

-----------------------------------------------------------------------------
(* What a comment promises and the functions do not keep (see the          *)
(* findings).                                                              *)

\* "Unknown provider execution remains indeterminate and the Session stays
\* reserved until the caller explicitly reconciles/cancels it."
\* (sql/003_relay_v2_session_request_material.sql:560)
UnknownStaysReserved ==
  [][\A r \in Request :
       status[r] = "indeterminate" /\ Reserved(r) /\ active'[SessionOf[r]] # r
         => status'[r] = "cancelled"]_ledgerVars
=============================================================================
