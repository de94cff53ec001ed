------------------------------ MODULE WorkerWake ------------------------------
(***************************************************************************)
(* When the worker sleeps and what wakes it.  The API process sends a wake *)
(* signal at the start and at the end of each request it serves, at most   *)
(* one per Interval; the worker polls the queue for Grace after the last   *)
(* signal it received and then makes no network call until the next one.   *)
(*                                                                         *)
(* Time is relative: every clock is what is left of a period, and Tick     *)
(* lets one unit pass for all of them.  Rpc and Send bound how long a call *)
(* of the database and a delivery may take; steps without an await take no *)
(* time.  Of a job only its queue state and its lease are kept.            *)
(***************************************************************************)
EXTENDS Integers, FiniteSets

CONSTANTS
  Request,   \* requests served by the API process
  Settings,  \* the clocks of a deployment and what may go wrong: records of
             \*   requests  those that come
             \*   grace     worker_api_activity_grace_seconds
             \*   interval  worker_wake_min_interval_seconds
             \*   poll      worker_poll_seconds
             \*   lease     job_lease_seconds
             \*   rpc       bound: the longest call of the database
             \*   send      bound: the longest delivery of one attempt
             \*   most      bounds: attempts of the notifier that are lost,
             \*             requests that raised an exception, crashes of the
             \*             worker, its calls that end in errors, stops by
             \*             SIGTERM or SIGINT, deaths of the control server
  None       \* no job

Fault == {"lost", "raised", "crashes", "errors", "stops", "deaths"}

ASSUME WakeAssumption ==
  /\ None \notin Request
  /\ \A s \in Settings :
       /\ s.requests \subseteq Request
       /\ {s.grace, s.interval, s.poll, s.lease, s.rpc, s.send} \subseteq Nat \ {0}
       /\ s.most \in [Fault -> Nat]

VARIABLES
  setting,   \* chosen once
  req,       \* "new", "open", then "done"
  job,       \* "none", "queued", "leased" or "finished"
  lease,     \* what is left of the lease
  quiet,     \* what is left of the interval in which the notifier is silent
  signal,    \* number of attempts a signal has left, by the request's end
  age,       \* time left for the attempt under way
  pc,        \* where run_forever is
  left,      \* time left for the call or the wait it is in
  got,       \* the job the call or the loop holds, None if there is none
  active,    \* what is left of _active_until
  follow,    \* _follow_api_enabled
  event,     \* _wake_requested
  stopping,  \* stop_requested
  control,   \* the control server runs
  faults     \* what went wrong so far

apiVars    == <<setting, req, quiet, signal, age>>
jobVars    == <<job, lease>>
workerVars == <<pc, left, got>>
flagVars   == <<active, follow, event, stopping, control>>
vars       == <<apiVars, jobVars, workerVars, flagVars, faults>>

Signal == Request \X {"start", "complete"}

Grace    == setting.grace
Interval == setting.interval
Poll     == setting.poll
Lease    == setting.lease
Rpc      == setting.rpc
Send     == setting.send

Count(f) == /\ faults[f] < setting.most[f]
            /\ faults' = [faults EXCEPT ![f] = @ + 1]

WakeTypeOK ==
  /\ req \in [Request -> {"new", "open", "done"}]
  /\ job \in [Request -> {"none", "queued", "leased", "finished"}]
  /\ lease \in [Request -> 0..Lease]
  /\ quiet \in 0..Interval
  /\ signal \in [Signal -> 0..2]
  /\ age \in [Signal -> 0..Send]
  /\ pc \in {"ask", "claim", "empty", "guard", "sleepy", "poll", "asleep", "busy",
           "down", "drained"}
  /\ left \in Nat
  /\ got \in Request \cup {None}
  /\ active \in 0..Grace
  /\ follow \in BOOLEAN /\ event \in BOOLEAN /\ stopping \in BOOLEAN /\ control \in BOOLEAN

Init ==
  /\ setting \in Settings
  /\ req = [r \in Request |-> "new"]
  /\ job = [r \in Request |-> "none"]
  /\ lease = [r \in Request |-> 0]
  /\ quiet = 0
  /\ signal = [s \in Signal |-> 0]
  /\ age = [s \in Signal |-> 0]
  /\ pc = "ask" /\ left = 0 /\ got = None
  /\ active = Grace
  /\ follow = TRUE /\ event = FALSE /\ stopping = FALSE /\ control = TRUE
  /\ faults = [f \in Fault |-> 0]

-----------------------------------------------------------------------------
(* The API process.                                                        *)

\* WorkerWakeNotifier.notify: debounced; _send makes two attempts.
Notify(s) ==
  IF quiet > 0
    THEN UNCHANGED <<quiet, signal, age>>
    ELSE /\ quiet' = Interval
         /\ signal' = [signal EXCEPT ![s] = 2]
         /\ age' = [age EXCEPT ![s] = Send]

StartRequest(r) ==
  /\ req[r] = "new" /\ r \in setting.requests
  /\ req' = [req EXCEPT ![r] = "open"]
  /\ Notify(<<r, "start">>)
  /\ UNCHANGED <<setting, jobVars, workerVars, flagVars, faults>>

\* accept_relay_request inserts the job.
Enqueue(r) ==
  /\ req[r] = "open" /\ job[r] = "none"
  /\ job' = [job EXCEPT ![r] = "queued"]
  /\ UNCHANGED <<lease, apiVars, workerVars, flagVars, faults>>

\* Mutant: the middleware signals at the start of a request only.
CompleteSilently(r) ==
  /\ req[r] = "open"
  /\ req' = [req EXCEPT ![r] = "done"]
  /\ UNCHANGED <<setting, quiet, signal, age, jobVars, workerVars, flagVars, faults>>

CompleteRequest(r) ==
  /\ req[r] = "open"
  /\ req' = [req EXCEPT ![r] = "done"]
  /\ Notify(<<r, "complete">>)
  /\ UNCHANGED <<setting, jobVars, workerVars, flagVars, faults>>

\* The handler raises, for instance when the reply of the accept is lost: the
\* middleware raises again before its second signal.
RaiseRequest(r) ==
  /\ req[r] = "open" /\ Count("raised")
  /\ req' = [req EXCEPT ![r] = "done"]
  /\ UNCHANGED <<setting, quiet, signal, age, jobVars, workerVars, flagVars>>

\* POST /wake reaches the control server: note_api_activity.
Deliver(s) ==
  /\ signal[s] > 0 /\ control /\ pc \notin {"down", "drained"}
  /\ signal' = [signal EXCEPT ![s] = 0]
  /\ age' = [age EXCEPT ![s] = 0]
  /\ IF follow THEN active' = Grace /\ event' = TRUE ELSE UNCHANGED <<active, event>>
  /\ UNCHANGED <<setting, req, quiet, jobVars, workerVars, follow, stopping, control, faults>>

\* An attempt fails, because the service is down or for reasons of its own.  A
\* rejection that is not retried, of a wrong token say, is left out.
AttemptFails(s) ==
  /\ signal[s] > 0
  /\ IF control /\ pc \notin {"down", "drained"} THEN Count("lost") ELSE UNCHANGED faults
  /\ signal' = [signal EXCEPT ![s] = @ - 1]
  /\ age' = [age EXCEPT ![s] = IF signal[s] = 2 THEN Send ELSE 0]
  /\ UNCHANGED <<setting, req, quiet, jobVars, workerVars, flagVars>>

-----------------------------------------------------------------------------
(* The loop of the worker.                                                 *)

Drowsy == follow /\ active = 0

Wait(t) == pc' = "poll" /\ left' = t /\ got' = None

\* Mutant: the loop does not look at the stop event.
AskAgain ==
  /\ pc = "ask"
  /\ pc' = "claim" /\ left' = Rpc
  /\ got' = None
  /\ UNCHANGED <<apiVars, jobVars, flagVars, faults>>

Ask ==
  /\ pc = "ask"
  /\ IF stopping THEN pc' = "drained" /\ left' = 0 ELSE pc' = "claim" /\ left' = Rpc
  /\ got' = None
  /\ UNCHANGED <<apiVars, jobVars, flagVars, faults>>

Claimable(r) == job[r] = "queued" \/ (job[r] = "leased" /\ lease[r] = 0)

\* The database runs the claim; its reply is on the way.
ClaimJob(r) ==
  /\ pc = "claim" /\ got = None /\ Claimable(r)
  /\ job' = [job EXCEPT ![r] = "leased"]
  /\ lease' = [lease EXCEPT ![r] = Lease]
  /\ got' = r
  /\ UNCHANGED <<pc, left, apiVars, flagVars, faults>>

\* The reply says that there is nothing to claim; it may be late.
ClaimNothing ==
  /\ pc = "claim" /\ got = None
  /\ \A r \in Request : ~Claimable(r)
  /\ pc' = "empty"
  /\ UNCHANGED <<left, got, apiVars, jobVars, flagVars, faults>>

\* The reply arrives.  The poll is cut short by the end of the active window.
LoopOn ==
  /\ pc = "empty"
  /\ IF Drowsy
       THEN pc' = "guard" /\ left' = Rpc
       ELSE pc' = "poll" /\ left' = IF follow /\ active < Poll THEN active ELSE Poll
  /\ UNCHANGED <<got, apiVars, jobVars, flagVars, faults>>

TakeJob ==
  /\ pc = "claim" /\ got # None
  /\ pc' = "busy" /\ left' = 0
  /\ UNCHANGED <<got, apiVars, jobVars, flagVars, faults>>

\* Mutant: the worker goes to sleep without looking at the leases.
GuardOwn ==
  /\ pc = "guard"
  /\ pc' = "sleepy" /\ left' = 0
  /\ UNCHANGED <<got, apiVars, jobVars, flagVars, faults>>

\* _has_unfinished_pool_job, then another poll or _wait_quiescent.
Guard ==
  /\ pc = "guard"
  /\ IF \E r \in Request : job[r] = "leased"
       THEN Wait(Poll)
       ELSE pc' = "sleepy" /\ UNCHANGED <<left, got>>
  /\ UNCHANGED <<apiVars, jobVars, flagVars, faults>>

\* _wait_quiescent up to its wait: no await between the clear and the check.
FallAsleep ==
  /\ pc = "sleepy"
  /\ event' = FALSE
  /\ pc' = IF Drowsy THEN "asleep" ELSE "ask"
  /\ left' = 0
  /\ UNCHANGED <<got, apiVars, jobVars, active, follow, stopping, control, faults>>

Awake ==
  /\ pc = "asleep" /\ (event \/ stopping)
  /\ pc' = "ask"
  /\ UNCHANGED <<left, got, apiVars, jobVars, flagVars, faults>>

EndWait ==
  /\ pc = "poll" /\ (left = 0 \/ stopping)
  /\ pc' = "ask" /\ left' = 0
  /\ UNCHANGED <<got, apiVars, jobVars, flagVars, faults>>

FinishJob ==
  /\ pc = "busy"
  /\ job' = [job EXCEPT ![got] = "finished"]
  /\ pc' = "ask" /\ got' = None
  /\ UNCHANGED <<lease, left, apiVars, flagVars, faults>>

\* A call raises, before or after the database ran it.
CallRaises ==
  /\ pc \in {"claim", "empty", "guard", "sleepy", "busy"} /\ Count("errors")
  /\ Wait(Poll)
  /\ UNCHANGED <<apiVars, jobVars, flagVars>>

-----------------------------------------------------------------------------
(* Signals, the control server, crashes.                                   *)

RequestStop ==
  /\ ~stopping /\ pc \notin {"down", "drained"} /\ Count("stops")
  /\ stopping' = TRUE /\ event' = TRUE /\ control' = FALSE
  /\ UNCHANGED <<apiVars, jobVars, workerVars, active, follow>>

\* The control server dies: disable_api_follow.  _active_until is infinite.
DisableFollow ==
  /\ control /\ ~stopping /\ pc \notin {"down", "drained"} /\ Count("deaths")
  /\ control' = FALSE
  /\ follow' = FALSE /\ active' = Grace /\ event' = TRUE
  /\ UNCHANGED <<apiVars, jobVars, workerVars, stopping>>

Crash ==
  /\ pc \notin {"down", "drained"} /\ Count("crashes")
  /\ pc' = "down" /\ left' = 0 /\ got' = None
  /\ UNCHANGED <<apiVars, jobVars, flagVars>>

\* A new process starts in the active state.
Restart ==
  /\ pc = "down"
  /\ pc' = "ask"
  /\ active' = Grace /\ follow' = TRUE /\ event' = FALSE
  /\ stopping' = FALSE /\ control' = TRUE
  /\ UNCHANGED <<left, got, apiVars, jobVars, faults>>

-----------------------------------------------------------------------------
Less(n) == IF n > 0 THEN n - 1 ELSE 0

\* Nothing is overdue: a reply, a delivery, a step of the loop.  A job that is
\* held by the loop has its lease renewed by the heartbeat.
Tick ==
  /\ pc \notin {"ask"}
  /\ pc \in {"claim", "empty", "guard", "sleepy", "poll"} => left > 0
  /\ pc = "poll" => ~stopping
  /\ pc = "asleep" => ~event /\ ~stopping
  /\ \A s \in Signal : signal[s] > 0 => age[s] > 0
  /\ left' = Less(left)
  /\ quiet' = Less(quiet)
  /\ age' = [s \in Signal |-> Less(age[s])]
  /\ active' = IF follow THEN Less(active) ELSE active
  /\ lease' = [r \in Request |-> IF pc = "busy" /\ got = r THEN lease[r] ELSE Less(lease[r])]
  /\ UNCHANGED <<setting, req, signal, job, pc, got, follow, event, stopping, control, faults>>

WorkerStep ==
  \/ Ask \/ (\E r \in Request : ClaimJob(r)) \/ ClaimNothing \/ LoopOn \/ TakeJob
  \/ Guard \/ FallAsleep \/ Awake \/ EndWait \/ FinishJob

Next ==
  \/ \E r \in Request :
       StartRequest(r) \/ Enqueue(r) \/ CompleteRequest(r) \/ RaiseRequest(r)
  \/ \E s \in Signal : Deliver(s) \/ AttemptFails(s)
  \/ WorkerStep \/ CallRaises
  \/ RequestStop \/ DisableFollow \/ Crash \/ Restart
  \/ Tick

Spec == Init /\ [][Next]_vars

\* The event loop runs every ready task, requests end, deliveries arrive or
\* fail, the platform restarts a dead worker, and time passes.
FairSpec ==
  /\ Spec
  /\ WF_vars(WorkerStep) /\ WF_vars(Restart) /\ WF_vars(Tick)
  /\ \A r \in Request : WF_vars(CompleteRequest(r))
  /\ \A s \in Signal : WF_vars(Deliver(s) \/ AttemptFails(s))

-----------------------------------------------------------------------------
\* A worker that sleeps leaves no queued job behind, unless a request or a
\* delivery that will wake it is still under way: provided the active window
\* outlasts the notifier's silence and a call of the database together, which
\* nothing enforces, and until a handler raises (api.py:308).
NoStrandedJob ==
  Grace >= Interval + Rpc /\ faults["raised"] = 0
    /\ pc = "asleep" /\ ~event /\ ~stopping /\ (\E r \in Request : job[r] = "queued")
    => \/ \E r \in Request : req[r] = "open"
       \/ \E s \in Signal : signal[s] > 0

\* The worker never sleeps over a lease that could need recovery, its own or
\* that of the process it replaced.
SleepIsDrained == pc = "asleep" => \A r \in Request : job[r] # "leased"

\* Without the control server nothing could wake the worker, so it is awake.
DeafIsAwake == pc = "asleep" /\ ~control => event \/ stopping

\* The types of the loop, and when it may sleep.
WakeSafe == WakeTypeOK /\ SleepIsDrained /\ DeafIsAwake

\* A stop ends the loop in whatever state it is.
StopDrains == stopping ~> pc \in {"drained", "down"}
===============================================================================
