---------------------------- MODULE RelayExecution ----------------------------
(***************************************************************************)
(* The executors over the ledger: async workers (RelayWorker +             *)
(* QueueExecutor), inline executors of synchronous requests                *)
(* (InlineExecutor) and the SharedExecutionRuntime both of them run, with  *)
(* the API's planning, submission, cancel and polling beside them.         *)
(*                                                                         *)
(* An executor is a process with a program counter; each of its steps is   *)
(* one await that touches the database or the provider.  Any await of the  *)
(* runtime may raise: a refused call (false), a lost connection before the *)
(* call (Abort) and a lost reply after it (the "failed" branch of a step)  *)
(* all end in the executor's except clause.                                *)
(***************************************************************************)
EXTENDS RelayLedger

CONSTANTS
  Worker,     \* the owners that are workers; the others are inline executors
  Verified,   \* requests with cache_upgrade version 3: history checked against plan
  Mortal,     \* the executors that may crash (a restart is another owner)
  Punctual,   \* TRUE: heartbeats keep the lease of every live executor
  MaxFaults   \* bound: crashes, lost failure reports, aborted pickups

Inline == Owner \ Worker

ASSUME ExecutionAssumption ==
  /\ Worker \subseteq Owner
  /\ Verified \subseteq Request
  /\ Mortal \subseteq Owner
  /\ Punctual \in BOOLEAN
  /\ MaxFaults \in Nat

VARIABLES
  pc,       \* where each executor is
  at,       \* the request it works on, None when idle
  tok,      \* the fence epoch it was given
  row,      \* provider_dispatch_state in the row it read
  mats,     \* the material snapshot it uses
  plan,     \* the binding_hash it prepared
  turns,    \* the conversation history it loaded
  planned,  \* the history the API read when it planned each request
  history,  \* the turns in each session's history object
  stored,   \* the turns in each request's provisional history object
  calls,    \* history: provider calls made for each request
  faults    \* faults so far

localVars == <<at, tok, row, mats, plan, turns>>
dataVars  == <<planned, history, stored, calls>>
execVars  == <<pc, localVars, dataVars, faults>>
vars      == <<ledgerVars, execVars>>

Runtime   == {"load", "freeze", "bind", "seal", "call", "store", "commit"}
Protected == Runtime \cup {"recover"}
Pickup    == {"claimed", "fetch", "mark"}
Reporting == {"timeout", "failed", "unknown"}
Resting   == {"idle", "done", "dead"}

ExecTypeOK ==
  /\ TypeOK
  /\ pc \in [Owner -> Protected \cup Pickup \cup Reporting \cup Resting \cup {"fence"}]
  /\ at \in [Owner -> Request \cup {None}]
  /\ tok \in [Owner -> Nat]
  /\ row \in [Owner -> Dispatch]
  /\ mats \in [Owner -> Digest \cup {None}]
  /\ plan \in [Owner -> Digest \cup {None}]
  /\ turns \in [Owner -> Seq(Request)]
  /\ planned \in [Request -> Seq(Request)]
  /\ history \in [Session -> Seq(Request)]
  /\ stored \in [Request -> Seq(Request)]
  /\ calls \in [Request -> Nat]
  /\ faults \in Nat

Init ==
  /\ LedgerInit
  /\ pc = [x \in Owner |-> "idle"]
  /\ at = [x \in Owner |-> None]
  /\ tok = [x \in Owner |-> 0]
  /\ row = [x \in Owner |-> "not_sent"]
  /\ mats = [x \in Owner |-> None]
  /\ plan = [x \in Owner |-> None]
  /\ turns = [x \in Owner |-> <<>>]
  /\ planned = [r \in Request |-> <<>>]
  /\ history = [s \in Session |-> <<>>]
  /\ stored = [r \in Request |-> <<>>]
  /\ calls = [r \in Request |-> 0]
  /\ faults = 0

-----------------------------------------------------------------------------
(* Helpers.                                                                *)

Goto(x, l) == pc' = [pc EXCEPT ![x] = l]

\* The step succeeds, or was carried out but its reply never arrived.
Returns(x, l) == Goto(x, l) \/ Goto(x, "failed")

\* The coroutine ends and its locals are gone.
Leave(x, l) ==
  /\ Goto(x, l)
  /\ at' = [at EXCEPT ![x] = None]
  /\ tok' = [tok EXCEPT ![x] = 0]
  /\ row' = [row EXCEPT ![x] = "not_sent"]
  /\ mats' = [mats EXCEPT ![x] = None]
  /\ plan' = [plan EXCEPT ![x] = None]
  /\ turns' = [turns EXCEPT ![x] = <<>>]

Rest(x) == Leave(x, IF x \in Worker THEN "idle" ELSE "done")

Fault == faults < MaxFaults /\ faults' = faults + 1

WithTurn(ts, r) == IF SessionOf[r] \in Ephemeral THEN <<>> ELSE Append(ts, r)

-----------------------------------------------------------------------------
(* The API.                                                                *)

\* create_request reads the session row and its history and plans with them.
PlanRequest(r) ==
  /\ status[r] = "absent"
  /\ planned' = [planned EXCEPT ![r] = history[SessionOf[r]]]
  /\ UNCHANGED <<ledgerVars, pc, localVars, history, stored, calls, faults>>

PlannedVersion(r) ==
  IF SessionOf[r] \in Ephemeral THEN 0 ELSE Len(planned[r])

\* A refused submission (busy session, changed version) is no step.
SubmitRequest(r) ==
  /\ Accept(r, PlannedVersion(r))
  /\ UNCHANGED execVars

CancelRequest(r) == Cancel(r) /\ UNCHANGED execVars
PollRequest(r) == Reconcile(r) /\ UNCHANGED execVars

\* The handler that got the row of a synchronous request runs it inline.  A
\* concurrent duplicate that looked for the key before the row existed gets
\* the same row back from the accept function and runs it too.
StartInline(x, r) ==
  /\ x \in Inline
  /\ pc[x] = "idle"
  /\ r \notin Async /\ Accepted(r)
  /\ Goto(x, "fence")
  /\ at' = [at EXCEPT ![x] = r]
  /\ mats' = [mats EXCEPT ![x] = materials[r]]
  /\ UNCHANGED <<ledgerVars, tok, row, plan, turns, dataVars, faults>>

AcquireInlineFence(x) ==
  /\ pc[x] = "fence"
  /\ AcquireSyncFence(at[x], x)
  /\ \/ /\ Goto(x, "load")
        /\ tok' = [tok EXCEPT ![x] = epoch'[at[x]]]
        /\ UNCHANGED <<at, row, mats, plan, turns>>
     \/ Leave(x, "done")
  /\ UNCHANGED <<dataVars, faults>>

\* No fence: another executor owns the request, or the call raised.
InlineRefused(x) ==
  /\ pc[x] = "fence"
  /\ Leave(x, "done")
  /\ UNCHANGED <<ledgerVars, dataVars, faults>>

-----------------------------------------------------------------------------
(* Worker pickup: claim, mark the job, read the row, mark the request.     *)

ClaimJob(x, r) ==
  /\ x \in Worker
  /\ pc[x] = "idle"
  /\ Claim(r, x)
  /\ Goto(x, "claimed")
  /\ at' = [at EXCEPT ![x] = r]
  /\ tok' = [tok EXCEPT ![x] = epoch'[r]]
  /\ UNCHANGED <<row, mats, plan, turns, dataVars, faults>>

ClaimReplyLost(x, r) ==
  /\ x \in Worker
  /\ pc[x] = "idle"
  /\ Claim(r, x)
  /\ Fault
  /\ UNCHANGED <<pc, localVars, dataVars>>

PollQueue(x) ==
  /\ x \in Worker
  /\ pc[x] = "idle"
  /\ ClaimNothing
  /\ UNCHANGED execVars

MarkJob(x) ==
  /\ pc[x] = "claimed"
  /\ \/ StartJob(at[x], x)
     \/ owner[at[x]] # x /\ UNCHANGED ledgerVars
  /\ Goto(x, "fetch")
  /\ UNCHANGED <<localVars, dataVars, faults>>

\* Mutant: the executor keeps the wrong column of the row.
FetchStatus(x) ==
  /\ pc[x] = "fetch"
  /\ IF status[at[x]] = "cancelled"
       THEN Rest(x)
       ELSE /\ Goto(x, "mark")
            /\ row' = [row EXCEPT ![x] = status[at[x]]]
            /\ mats' = [mats EXCEPT ![x] = materials[at[x]]]
            /\ UNCHANGED <<at, tok, plan, turns>>
  /\ UNCHANGED <<ledgerVars, dataVars, faults>>

FetchRow(x) ==
  /\ pc[x] = "fetch"
  /\ IF status[at[x]] = "cancelled"
       THEN Rest(x)
       ELSE /\ Goto(x, "mark")
            /\ row' = [row EXCEPT ![x] = dispatch[at[x]]]
            /\ mats' = [mats EXCEPT ![x] = materials[at[x]]]
            /\ UNCHANGED <<at, tok, plan, turns>>
  /\ UNCHANGED <<ledgerVars, dataVars, faults>>

MarkRequest(x) ==
  /\ pc[x] = "mark"
  /\ MarkRunning(at[x])
  /\ Goto(x, IF row[x] = "result_stored" THEN "recover" ELSE "load")
  /\ UNCHANGED <<localVars, dataVars, faults>>

\* An exception before the try block of QueueExecutor reaches the worker loop.
AbortPickup(x) ==
  /\ pc[x] \in Pickup
  /\ Fault
  /\ Rest(x)
  /\ UNCHANGED <<ledgerVars, dataVars>>

Heartbeat(x) ==
  /\ x \in Worker
  /\ pc[x] \notin Resting \cup {"claimed"}
  /\ RenewLease(at[x], x, tok[x])
  /\ UNCHANGED execVars

-----------------------------------------------------------------------------
(* SharedExecutionRuntime.execute, the v3 path.                            *)

LoadContext(x) ==
  /\ pc[x] = "load"
  /\ turns' = [turns EXCEPT ![x] = history[SessionOf[at[x]]]]
  /\ Goto(x, "freeze")
  /\ UNCHANGED <<ledgerVars, at, tok, row, mats, plan, dataVars, faults>>

\* Mutant: a snapshot found in the row is computed anew.
FreezeAgain(x) ==
  /\ pc[x] = "freeze"
  /\ \E m \in Digest :
       /\ \/ mats[x] # None /\ UNCHANGED ledgerVars
          \/ mats[x] = None /\ FreezeMaterials(at[x], m, x, tok[x])
       /\ mats' = [mats EXCEPT ![x] = m]
  /\ Returns(x, "bind")
  /\ UNCHANGED <<at, tok, row, plan, turns, dataVars, faults>>

\* A snapshot found in the row is used as it is; a new one must be installed.
FreezeBindings(x) ==
  /\ pc[x] = "freeze"
  /\ \/ mats[x] # None /\ UNCHANGED <<ledgerVars, mats>> /\ Goto(x, "bind")
     \/ /\ mats[x] = None
        /\ \E m \in Digest :
             /\ FreezeMaterials(at[x], m, x, tok[x])
             /\ mats' = [mats EXCEPT ![x] = m]
        /\ Returns(x, "bind")
  /\ UNCHANGED <<at, tok, row, plan, turns, dataVars, faults>>

\* Mutant: the history is not compared with the plan.
PrepareUnverified(x) ==
  /\ pc[x] = "bind"
  /\ \E h \in Digest :
       /\ InstallBinding(at[x], h, x, tok[x])
       /\ plan' = [plan EXCEPT ![x] = h]
  /\ Returns(x, "seal")
  /\ UNCHANGED <<at, tok, row, mats, turns, dataVars, faults>>

\* HISTORY_INTEGRITY_MISMATCH unless the history is the one that was planned.
PrepareBinding(x) ==
  /\ pc[x] = "bind"
  /\ at[x] \in Verified => turns[x] = planned[at[x]]
  /\ \E h \in Digest :
       /\ InstallBinding(at[x], h, x, tok[x])
       /\ plan' = [plan EXCEPT ![x] = h]
  /\ Returns(x, "seal")
  /\ UNCHANGED <<at, tok, row, mats, turns, dataVars, faults>>

SealDispatch(x) ==
  /\ pc[x] = "seal"
  /\ Seal(at[x], plan[x], x, tok[x])
  /\ Returns(x, "call")
  /\ UNCHANGED <<localVars, dataVars, faults>>

\* Mutant: a lost answer is asked for again.
CallWithRetry(x) ==
  /\ pc[x] = "call"
  /\ calls' = [calls EXCEPT ![at[x]] = @ + 1]
  /\ Returns(x, "store") \/ Goto(x, "call")
  /\ UNCHANGED <<ledgerVars, localVars, planned, history, stored, faults>>

\* The provider receives the call; its answer comes, or an exception.
CallProvider(x) ==
  /\ pc[x] = "call"
  /\ calls' = [calls EXCEPT ![at[x]] = @ + 1]
  /\ Returns(x, "store")
  /\ UNCHANGED <<ledgerVars, localVars, planned, history, stored, faults>>

StoreAnswer(x) ==
  /\ pc[x] = "store"
  /\ StoreResult(at[x], x, tok[x])
  /\ stored' = [stored EXCEPT ![at[x]] = WithTurn(turns[x], at[x])]
  /\ Returns(x, "commit")
  /\ UNCHANGED <<localVars, planned, history, calls, faults>>

Publish(x, ts) ==
  /\ Complete(at[x], expected[at[x]], x, tok[x])
  /\ history' = [history EXCEPT ![SessionOf[at[x]]] = ts]
  /\ \/ Rest(x)
     \/ Goto(x, "failed") /\ UNCHANGED localVars
  /\ UNCHANGED <<planned, stored, calls, faults>>

CommitTurn(x) == pc[x] = "commit" /\ Publish(x, WithTurn(turns[x], at[x]))

\* Mutant: the recovery builds the history from the locals of this executor.
RecoverFromLocals(x) == pc[x] = "recover" /\ Publish(x, WithTurn(turns[x], at[x]))

\* A row read as result_stored is committed without another provider call.
RecoverResult(x) == pc[x] = "recover" /\ Publish(x, stored[at[x]])

-----------------------------------------------------------------------------
(* Exceptions, timeouts, crashes.                                          *)

Abort(x) ==
  /\ pc[x] \in Protected
  /\ Goto(x, "failed")
  /\ UNCHANGED <<ledgerVars, localVars, dataVars, faults>>

\* wait_for cancels the runtime at sync_request_deadline_seconds (of a request
\* that is then past its deadline) or at worker_max_runtime_seconds.
Timeout(x) ==
  /\ pc[x] \in Runtime
  /\ x \in Inline => late[at[x]]
  /\ Goto(x, "timeout")
  /\ UNCHANGED <<ledgerVars, localVars, dataVars, faults>>

ReadDispatchState(x) ==
  /\ pc[x] = "timeout"
  /\ Goto(x, IF dispatch[at[x]] = "not_sent" THEN "failed" ELSE "unknown")
  /\ UNCHANGED <<ledgerVars, localVars, dataVars, faults>>

\* Mutant: the request row is updated without the fenced function.
ReportDirectly(x) ==
  /\ pc[x] = "failed"
  /\ status' = [status EXCEPT ![at[x]] = "failed"]
  /\ UNCHANGED <<sessionVars, dispatch, planVars, job, fenceVars, late, ghostVars>>
  /\ Rest(x)
  /\ UNCHANGED <<dataVars, faults>>

Report(x) ==
  /\ \/ pc[x] = "failed" /\ Fail(at[x], "failed", TRUE, x, tok[x])
     \/ pc[x] = "unknown" /\ Fail(at[x], "indeterminate", FALSE, x, tok[x])
  /\ Rest(x)
  /\ UNCHANGED <<dataVars, faults>>

\* fail_relay_request_v3 returns false.
ReportRefused(x) ==
  /\ pc[x] \in {"failed", "unknown"}
  /\ \/ status[at[x]] \in {"succeeded", "cancelled"}
     \/ ~OwnsFence(at[x], x, tok[x])
  /\ Rest(x)
  /\ UNCHANGED <<ledgerVars, dataVars, faults>>

\* Recording the error, or the call itself, raises out of the executor.
ReportLost(x) ==
  /\ pc[x] \in Reporting
  /\ Fault
  /\ Rest(x)
  /\ UNCHANGED <<ledgerVars, dataVars>>

Crash(x) ==
  /\ x \in Mortal
  /\ pc[x] \notin {"done", "dead"}
  /\ Fault
  /\ Leave(x, "dead")
  /\ UNCHANGED <<ledgerVars, dataVars>>

-----------------------------------------------------------------------------
(* Time.                                                                   *)

InHands(r) == \E x \in Owner : pc[x] \notin Resting /\ at[x] = r /\ tok[x] = epoch[r]

LeaseRunsOut(r) ==
  /\ Punctual => ~InHands(r)
  /\ ExpireLease(r)
  /\ UNCHANGED execVars

TimePasses(r) == BecomeLate(r) /\ UNCHANGED execVars

-----------------------------------------------------------------------------
RuntimeStep(x) ==
  \/ LoadContext(x) \/ FreezeBindings(x) \/ PrepareBinding(x) \/ SealDispatch(x)
  \/ CallProvider(x) \/ StoreAnswer(x) \/ CommitTurn(x) \/ RecoverResult(x)
  \/ Abort(x)

PickupStep(x) ==
  \/ AcquireInlineFence(x) \/ InlineRefused(x)
  \/ MarkJob(x) \/ FetchRow(x) \/ MarkRequest(x)

ReportStep(x) == ReadDispatchState(x) \/ Report(x) \/ ReportRefused(x)

\* What an executor does of itself, without faults.
Advance(x) == RuntimeStep(x) \/ PickupStep(x) \/ ReportStep(x)

ClaimStep(x) == \E r \in Request : ClaimJob(x, r)

ExecutorStep(x) ==
  \/ Advance(x)
  \/ ClaimStep(x)
  \/ \E r \in Request : ClaimReplyLost(x, r) \/ StartInline(x, r)
  \/ PollQueue(x)
  \/ Heartbeat(x)
  \/ AbortPickup(x)
  \/ Timeout(x)
  \/ ReportLost(x)
  \/ Crash(x)

ClientStep(r) ==
  \/ PlanRequest(r)
  \/ SubmitRequest(r)
  \/ CancelRequest(r)
  \/ PollRequest(r)

Next ==
  \/ \E x \in Owner : ExecutorStep(x)
  \/ \E r \in Request : ClientStep(r) \/ LeaseRunsOut(r) \/ TimePasses(r)

Spec == Init /\ [][Next]_vars

\* Coroutines run on; workers keep polling; a client polls a request it waits
\* for; leases and sync deadlines run out.  A job's TTL (7 days) may stay away.
Fairness ==
  /\ \A x \in Owner : WF_vars(Advance(x)) /\ WF_vars(ClaimStep(x)) /\ WF_vars(PollQueue(x))
  /\ \A r \in Request : WF_vars(PollRequest(r)) /\ WF_vars(LeaseRunsOut(r))
  /\ \A r \in Request \ Async : WF_vars(TimePasses(r))

FairSpec == Spec /\ Fairness

-----------------------------------------------------------------------------
(* Safety.                                                                 *)

\* The provider is called at most once for a request, whatever crashes, lease
\* losses, retries of the claim or duplicate submissions happen.
OneProviderCall == \A r \in Request : calls[r] <= 1

\* What an executor sends is what the ledger froze: it holds the sealed epoch
\* and the material snapshot and binding recorded with the request.
CallIsSealed ==
  \A x \in Owner : pc[x] \in {"call", "store"} =>
    /\ sealedBy[at[x]] = tok[x]
    /\ dispatch[at[x]] # "not_sent"
    /\ materials[at[x]] = mats[x]
    /\ binding[at[x]] = plan[x]

\* No turn is lost or invented: the history object of a session holds exactly
\* the committed turns, in commit order, although every executor rewrites it
\* as a whole from the copy it loaded earlier.
HistoryHoldsCommits ==
  \A s \in Session : history[s] = IF s \in Ephemeral THEN <<>> ELSE commits[s]

\* A stored result extends the very history its request was planned with, even
\* when the request lost its session and other turns were published meanwhile.
StoredExtendsPlan ==
  \A r \in Verified : dispatch[r] = "result_stored" =>
    stored[r] = WithTurn(planned[r], r)

\* Executors use the ledger only through its functions.
ImplementsLedger == LedgerSpec

-----------------------------------------------------------------------------
(* Liveness.                                                               *)

\* Indeterminate is an outcome too: the provider may or may not have run.
Settled(r) == status[r] \in Closed

\* An asynchronous request does not hold its session for ever without an
\* outcome, although workers crash or lose their claim and their failure
\* reports, unless its job outlives its TTL.  (A request that was cancelled while
\* a worker picked it up may stay "running": MarkRequest reopens it.  It no
\* longer holds the session.)
AsyncSettles ==
  \A r \in Async :
    Accepted(r) /\ Reserved(r) ~> Settled(r) \/ ~Reserved(r) \/ late[r]

\* A synchronous request whose dispatch was sealed and whose result was not
\* stored is settled even if the API process died, because a poll past the
\* deadline closes it.
SyncDispatchSettles ==
  \A r \in Request \ Async :
    status[r] = "running" /\ dispatch[r] = "dispatch_started"
      ~> Settled(r) \/ dispatch[r] = "result_stored"

-----------------------------------------------------------------------------
(* What a comment promises and the code does not keep (see the findings).  *)

\* "Query-time reconciliation closes the sync-process-crash window even if no
\* Worker is involved." (sql/003_relay_v2_session_request_material.sql:559)
SyncRequestSettles ==
  \A r \in Request \ Async : status[r] = "running" ~> status[r] # "running"
===============================================================================
