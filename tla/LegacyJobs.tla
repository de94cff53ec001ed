---------------------------- MODULE LegacyJobs ----------------------------
(***************************************************************************)
(* The first generation of the queue: POST /v1/jobs and cancel in          *)
(* src/app/api.py, the worker in src/app/compatibility/legacy_worker.py,   *)
(* the functions of src/sql/001 and the claim of src/sql/003.              *)
(*                                                                         *)
(* A legacy job has no request row, no seal and no epoch that its writes   *)
(* are checked against: update_job is filtered by the name of the lease's  *)
(* owner alone, and the history commit is not fenced at all, only compared *)
(* with the history version the API read when the job was submitted.       *)
(*                                                                         *)
(* The history is an object in the store, under a path made of the version *)
(* the job was submitted at and of the job's id: every execution of a job  *)
(* writes the same object, before its commit is tried and whatever becomes *)
(* of it.  A turn is known by its job; which execution's answer it holds   *)
(* is left open.                                                           *)
(*                                                                         *)
(* A worker process that dies never comes back under its name; another one *)
(* takes its job over when the lease has lapsed.                           *)
(***************************************************************************)
EXTENDS Naturals, Sequences, SequencesExt, FiniteSets

CONSTANTS
  Submits,      \* calls of POST /v1/jobs; a call's job has its name
  Cancels,      \* calls of POST /v1/jobs/{id}/cancel
  Keys,         \* Idempotency-Keys
  Workers,
  Kept,         \* the session a call may continue
  MaxAttempts,  \* claims of one job
  MaxFaults,    \* lost replies, timeouts, failed calls and crashes
  Nothing       \* null

ASSUME BoundAssumption == MaxAttempts \in Nat /\ MaxFaults \in Nat

VARIABLES
  job,      \* the relay_jobs rows
  version,  \* relay_sessions.history_version
  head,     \* relay_sessions.history_object_path: the job that wrote it
  stored,   \* the turns of the history object of each job
  commits,  \* the jobs whose commit was let through, to state properties
  pc, call, \* where an API call is, and what it works on
  at,       \* where a worker is
  task,     \* the job it holds
  path,     \* the path it read in the session row, while it loads the object
  base,     \* the history it loaded
  faults

vars == <<job, version, head, stored, commits, pc, call, at, task, path, base, faults>>

Sessions == Submits \cup {Kept}
Modes    == {"new_session", "continue_session", "stateless"}
Closed   == {"succeeded", "failed", "cancelled"}
Working  == {"leased", "running"}
Rows     == {j \in Submits : job[j] # Nothing}

\* relay_jobs: what a row holds.
Job ==
  [key : Keys, session : Sessions \cup {Nothing}, expected : Nat,
   status : Closed \cup Working \cup {"queued"}, owner : Workers \cup {Nothing},
   lapsed : BOOLEAN, attempts : 0..MaxAttempts]

ASSUME NullAssumption == Nothing \notin Job \cup Workers \cup Submits

\* The turns a continuation of session s is shown.
History(s) == IF head[s] = Nothing THEN <<>> ELSE stored[head[s]]

Init ==
  /\ job = [j \in Submits |-> Nothing]
  /\ version = [s \in Sessions |-> 0]
  /\ head = [s \in Sessions |-> Nothing]
  /\ stored = [j \in Submits |-> <<>>]
  /\ commits = [s \in Sessions |-> <<>>]
  /\ pc = [c \in Submits \cup Cancels |-> "start"]
  /\ call = [c \in Submits \cup Cancels |-> Nothing]
  /\ at = [w \in Workers |-> "idle"]
  /\ task = [w \in Workers |-> Nothing]
  /\ path = [w \in Workers |-> Nothing]
  /\ base = [w \in Workers |-> <<>>]
  /\ faults = 0

Fault == faults < MaxFaults /\ faults' = faults + 1

-----------------------------------------------------------------------------
(* The API.                                                                *)

api == <<pc, call>>
worker == <<at, task, path, base>>
sessions == <<version, head, commits>>
histories == <<sessions, stored>>

RowsOf(k) == {j \in Rows : job[j].key = k}

Goto(c, l, x) ==
  /\ pc' = [pc EXCEPT ![c] = l]
  /\ call' = [call EXCEPT ![c] = x]

\* find_job_by_idempotency: a row of the key is the answer, whatever the
\* call asked for; otherwise the session's version goes into the snapshot.
SubmitFind(c) ==
  \E k \in Keys, m \in Modes :
    /\ pc[c] = "start"
    /\ IF RowsOf(k) # {} THEN Goto(c, "answered", CHOOSE j \in RowsOf(k) : TRUE)
       ELSE Goto(c, "insert",
              [key |-> k,
               session |-> CASE m = "new_session" -> c
                             [] m = "continue_session" -> Kept
                             [] m = "stateless" -> Nothing,
               expected |-> IF m = "continue_session" THEN version[Kept] ELSE 0])
    /\ UNCHANGED <<job, histories, worker, faults>>

\* The unique index on (tenant_id, idempotency_key).
KeyUnused(k) == RowsOf(k) = {}

\* The insert of a key that was taken meanwhile fails, and the row that took
\* it is the answer.
SubmitInsert(c) ==
  /\ pc[c] = "insert"
  /\ LET a == call[c] IN
       IF KeyUnused(a.key)
       THEN /\ job' = [job EXCEPT ![c] =
                 [key |-> a.key, session |-> a.session, expected |-> a.expected,
                  status |-> "queued", owner |-> Nothing, lapsed |-> FALSE,
                  attempts |-> 0]]
            /\ Goto(c, "answered", c)
       ELSE Goto(c, "answered", CHOOSE j \in RowsOf(a.key) : TRUE) /\ UNCHANGED job
  /\ UNCHANGED <<histories, worker, faults>>

\* cancel_job reads the status, and then writes over whatever it became.
CancelRead(c) ==
  \E j \in Rows :
    /\ pc[c] = "start"
    /\ Goto(c, IF job[j].status \in Closed THEN "answered" ELSE "write", j)
    /\ UNCHANGED <<job, histories, worker, faults>>

CancelWrite(c) ==
  /\ pc[c] = "write"
  /\ job' = [job EXCEPT ![call[c]].status = "cancelled"]
  /\ Goto(c, "answered", call[c])
  /\ UNCHANGED <<histories, worker, faults>>

-----------------------------------------------------------------------------
(* The queue functions.                                                    *)

\* Mutant: only queued jobs are claimed.
ClaimableOnce(j) == job[j].status = "queued" /\ job[j].attempts < MaxAttempts

\* A lapsed lease of a job without a request row is claimed like new work.
Claimable(j) ==
  /\ job[j].status = "queued" \/ (job[j].status \in Working /\ job[j].lapsed)
  /\ job[j].attempts < MaxAttempts

ClaimRow(j, w) ==
  job' = [job EXCEPT ![j].status = "leased", ![j].owner = w,
                     ![j].lapsed = FALSE, ![j].attempts = @ + 1]

Claim(w) ==
  \E j \in Rows :
    /\ at[w] = "idle"
    /\ Claimable(j)
    /\ ClaimRow(j, w)
    /\ at' = [at EXCEPT ![w] = "check"]
    /\ task' = [task EXCEPT ![w] = j]
    /\ UNCHANGED <<histories, api, path, base, faults>>

\* The reply of a claim is lost: the worker goes on polling.
ClaimLost(w) ==
  \E j \in Rows :
    /\ at[w] = "idle"
    /\ Claimable(j)
    /\ ClaimRow(j, w)
    /\ Fault
    /\ UNCHANGED <<histories, api, worker>>

\* lease_expires_at passes: the heartbeat stopped, or comes late.
Lapse(j) ==
  /\ j \in Rows
  /\ job[j].status \in Working
  /\ ~job[j].lapsed
  /\ job' = [job EXCEPT ![j].lapsed = TRUE]
  /\ UNCHANGED <<histories, api, worker, faults>>

Owns(w) == task[w] # Nothing /\ job[task[w]].owner = w

\* renew_relay_job_lease: a lapsed lease that nobody took is renewed too.
Heartbeat(w) ==
  /\ at[w] \notin {"idle", "dead", "check", "mark"}
  /\ Owns(w)
  /\ job[task[w]].status \in Working
  /\ job[task[w]].lapsed
  /\ job' = [job EXCEPT ![task[w]].lapsed = FALSE]
  /\ UNCHANGED <<histories, api, worker, faults>>

-----------------------------------------------------------------------------
(* The worker.                                                             *)

Step(w, l) == at' = [at EXCEPT ![w] = l] /\ UNCHANGED <<task, path, base>>

\* The job is let go of, and with it what was read for it.
Leave(w, l) ==
  /\ at' = [at EXCEPT ![w] = l]
  /\ task' = [task EXCEPT ![w] = Nothing]
  /\ path' = [path EXCEPT ![w] = Nothing]
  /\ base' = [base EXCEPT ![w] = <<>>]

Stop(w) == Leave(w, "idle")

Cancelled(w) == job[task[w]].status = "cancelled"

\* update_job of the worker's job, filtered by lease_owner and nothing else.
Write(w, status) ==
  IF Owns(w) THEN job' = [job EXCEPT ![task[w]].status = status]
  ELSE UNCHANGED job

\* get_job: a cancelled job is dropped.
Reread(w, here, next) ==
  /\ at[w] = here
  /\ IF Cancelled(w) THEN Stop(w) ELSE Step(w, next)
  /\ UNCHANGED <<job, histories, api, faults>>

CheckCancelled(w) == Reread(w, "check", "mark")

MarkRunning(w) ==
  /\ at[w] = "mark"
  /\ Write(w, "running")
  /\ IF Owns(w) THEN Step(w, "read") ELSE Stop(w)
  /\ UNCHANGED <<histories, api, faults>>

SessionOf(w) == job[task[w]].session

\* _execute_job reads the session row; without a history there is nothing
\* to load.
ReadSession(w) ==
  /\ at[w] = "read"
  /\ IF SessionOf(w) = Nothing \/ head[SessionOf(w)] = Nothing THEN Step(w, "call")
     ELSE /\ path' = [path EXCEPT ![w] = head[SessionOf(w)]]
          /\ at' = [at EXCEPT ![w] = "load"]
          /\ UNCHANGED <<task, base>>
  /\ UNCHANGED <<job, histories, api, faults>>

\* The object is loaded later, and may have been written again since.
LoadHistory(w) ==
  /\ at[w] = "load"
  /\ base' = [base EXCEPT ![w] = stored[path[w]]]
  /\ path' = [path EXCEPT ![w] = Nothing]
  /\ at' = [at EXCEPT ![w] = "call"]
  /\ UNCHANGED <<job, histories, api, task, faults>>

\* The signed URLs of the session's material are about to expire.
MaterialExpiring(w) ==
  /\ at[w] = "read"
  /\ SessionOf(w) # Nothing
  /\ Step(w, "fail")
  /\ Fault
  /\ UNCHANGED <<job, histories, api>>

CallProvider(w) ==
  /\ at[w] = "call"
  /\ Step(w, "called")
  /\ UNCHANGED <<job, histories, api, faults>>

CheckAfterUpstream(w) ==
  Reread(w, "called", IF SessionOf(w) = Nothing THEN "settle" ELSE "put")

\* storage_put of the new history, over whatever an earlier execution of the
\* job left there.
StoreHistory(w) ==
  /\ at[w] = "put"
  /\ stored' = [stored EXCEPT ![task[w]] = Append(base[w], task[w])]
  /\ Step(w, "commit")
  /\ UNCHANGED <<job, sessions, api, faults>>

\* Mutants: the commit does not compare versions; it compares with the
\* version of the session row the worker read.
CommitsAnyway(w) == TRUE
CommitsOnRead(w) == version[SessionOf(w)] = Len(base[w])

CommitsOnSnapshot(w) == version[SessionOf(w)] = job[task[w]].expected

\* commit_relay_session_history: the session names the job's object.
CommitHistory(w) ==
  /\ at[w] = "commit"
  /\ IF CommitsOnSnapshot(w)
     THEN /\ version' = [version EXCEPT ![SessionOf(w)] = @ + 1]
          /\ head' = [head EXCEPT ![SessionOf(w)] = task[w]]
          /\ commits' = [commits EXCEPT ![SessionOf(w)] = Append(@, task[w])]
          /\ Step(w, "settle")
     ELSE Step(w, "fail") /\ UNCHANGED sessions
  /\ UNCHANGED <<job, stored, api, faults>>

CheckBeforeCommit(w) == Reread(w, "settle", "publish")

Publish(w) ==
  /\ at[w] = "publish"
  /\ Write(w, "succeeded")
  /\ Stop(w)
  /\ UNCHANGED <<histories, api, faults>>

\* The success is written and its reply is lost: an error like any other.
PublishLost(w) ==
  /\ at[w] = "publish"
  /\ Write(w, "succeeded")
  /\ \E l \in {"store_error", "handle"} : Step(w, l)
  /\ Fault
  /\ UNCHANGED <<histories, api>>

Executing == {"read", "load", "call", "called", "put", "commit", "settle", "publish",
              "fail", "write_failure"}

\* An await of _execute_job raises, or worker_max_runtime_seconds are over:
\* errors of the provider and of Supabase are stored without a look at the
\* row, for the others _fail_job looks at it.  A lost reply is a step that is
\* carried out and an error at the next.
ExecutionFails(w) ==
  /\ at[w] \in Executing
  /\ \E l \in {"store_error", "handle"} : Step(w, l)
  /\ Fault
  /\ UNCHANGED <<job, histories, api>>

\* _fail_job looks at the row, then writes.
CheckBeforeFail(w) ==
  \/ Reread(w, "fail", "write_failure")
  \/ Reread(w, "handle", "handle_write")

WriteFailure(w) ==
  /\ at[w] \in {"write_failure", "handle_write", "store_error"}
  /\ Write(w, "failed")
  /\ Stop(w)
  /\ UNCHANGED <<histories, api, faults>>

\* An error outside _execute_job ends in the log of run_forever: the row
\* stays as it is, or as the lost call wrote it.
Escapes(w) ==
  /\ at[w] \in {"check", "mark", "handle", "handle_write", "store_error"}
  /\ \/ UNCHANGED job
     \/ at[w] = "mark" /\ Write(w, "running")
  /\ Stop(w)
  /\ Fault
  /\ UNCHANGED <<histories, api>>

\* One worker is left.
Crash(w) ==
  /\ at[w] # "dead"
  /\ \E v \in Workers \ {w} : at[v] # "dead"
  /\ Leave(w, "dead")
  /\ Fault
  /\ UNCHANGED <<job, histories, api>>

-----------------------------------------------------------------------------

Execute(w) ==
  \/ CheckCancelled(w) \/ MarkRunning(w) \/ ReadSession(w) \/ LoadHistory(w)
  \/ CallProvider(w) \/ CheckAfterUpstream(w) \/ StoreHistory(w) \/ CommitHistory(w)
  \/ CheckBeforeCommit(w) \/ Publish(w) \/ CheckBeforeFail(w) \/ WriteFailure(w)

Next ==
  \/ \E c \in Submits : SubmitFind(c) \/ SubmitInsert(c)
  \/ \E c \in Cancels : CancelRead(c) \/ CancelWrite(c)
  \/ \E w \in Workers :
       \/ Claim(w) \/ ClaimLost(w) \/ Heartbeat(w) \/ Execute(w)
       \/ MaterialExpiring(w) \/ PublishLost(w) \/ ExecutionFails(w)
       \/ Escapes(w) \/ Crash(w)
  \/ \E j \in Submits : Lapse(j)

Spec == Init /\ [][Next]_vars

\* A running process keeps polling and goes on with what it awaits; a lease
\* that is not renewed lapses; a started call of the API is answered.
Fairness ==
  /\ \A c \in Submits : WF_vars(SubmitInsert(c))
  /\ \A c \in Cancels : WF_vars(CancelWrite(c))
  /\ \A w \in Workers : WF_vars(Claim(w)) /\ WF_vars(Execute(w))
  /\ \A j \in Submits : WF_vars(Lapse(j))

FairSpec == Spec /\ Fairness

-----------------------------------------------------------------------------
(* Properties.                                                             *)

\* The types of the variables.
LegacyTypeOK ==
  /\ job \in [Submits -> Job \cup {Nothing}]
  /\ \A j \in Rows : job[j].status \in Working => job[j].owner # Nothing
  /\ version \in [Sessions -> Nat]
  /\ head \in [Sessions -> Submits \cup {Nothing}]
  /\ stored \in [Submits -> Seq(Submits)]
  /\ commits \in [Sessions -> Seq(Submits)]
  /\ task \in [Workers -> Submits \cup {Nothing}]
  /\ faults \in 0..MaxFaults

\* In history h the turn of i is read before any turn of j.
Before(h, i, j) == \E p \in DOMAIN h : h[p] = i /\ \A q \in 1..p : h[q] # j

\* h holds the turns of the jobs of l, in their order.  A job may come a
\* second time: an execution that follows the job's own commit reads the
\* object with its turn and appends it again.
Tells(h, l) ==
  /\ {h[p] : p \in DOMAIN h} = {l[p] : p \in DOMAIN l}
  /\ \A a, b \in DOMAIN l : a < b => Before(h, l[a], l[b])

\* The history object is rewritten as a whole from a copy read before the
\* provider call, by any worker that believes it holds the job, and the
\* object the session names may be written again by a second execution of
\* its job before the commit of that execution is refused.  No turn that a
\* continuation could read ever leaves the history or changes places with
\* another all the same (sql/001: a continuation cannot silently overwrite
\* history generated from an older version).
NoTurnIsLost ==
  [][\A s \in Sessions :
       /\ \A p \in DOMAIN History(s) : Contains(History(s)', History(s)[p])
       /\ \A i, j \in Submits : Before(History(s), i, j) => Before(History(s)', i, j)]_<<head, stored>>

\* A session's version counts the commits that were let through, no job of
\* them twice, and the object it names tells the jobs of just these commits:
\* what a refused execution left in the store is never the history.
HistoryTellsCommits ==
  \A s \in Sessions :
    /\ version[s] = Len(commits[s])
    /\ \A a, b \in DOMAIN commits[s] : commits[s][a] = commits[s][b] => a = b
    /\ Tells(History(s), commits[s])

\* A job of a session that was reported a success has its turn there.
SuccessIsInHistory ==
  \A j \in Rows :
    job[j].status = "succeeded" /\ job[j].session # Nothing
      => Contains(History(job[j].session), j)

\* Two calls of one key never have a job each, and are answered with one.
OneJobPerKey ==
  /\ \A i, j \in Rows : job[i].key = job[j].key => i = j
  /\ \A c \in Submits : pc[c] = "answered" => call[c] \in Rows

Settled(j) ==
  j \in Rows /\ (job[j].status \in Closed \/ job[j].attempts = MaxAttempts)

\* Every job comes to an outcome and stays there, through crashes, lapsed
\* leases, lost replies and cancels, as long as claims are left to it.
JobsSettle == \A j \in Submits : [](j \in Rows => <>[]Settled(j))

\* The state properties of the jobs together: their types, histories that
\* tell what was committed, successes that are there, and one job per key.
LegacySafe ==
  /\ LegacyTypeOK
  /\ HistoryTellsCommits
  /\ SuccessIsInHistory
  /\ OneJobPerKey
=============================================================================
