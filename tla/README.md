# Model Relay: TLA+ models, model checking and proofs

Model Relay accepts *requests* to language-model providers, executes each of
them at most once, keeps the conversation history of every *session*, and pays
for provider caches only where that is worth it. PostgreSQL (through Supabase
RPCs) is the only thing its processes share: API replicas, workers and inline
executors coordinate through rows, leases and fencing epochs. This directory
models that coordination and the decisions around it, checks both with TLC on
small instances and proves the core's safety with TLAPS for every instance.

## 1. The system

| Component | State it keeps | Operations | What makes it correct |
|---|---|---|---|
| Request ledger (`sql/003`, `005`-`007`, `009`, `app/v2_repository.py`) | session row (`active_request_id`, `history_version`, `history_object_id`), request row (`status`, `provider_dispatch_state`, frozen plan), job row (`status`, lease), binding row | accept, claim, renew, acquire fence, freeze, install, seal, store, complete, fail, cancel, reconcile | one reservation per session, linear history, one sealed dispatch, a result that answers it |
| Async worker and queue executor (`app/worker.py`, `app/execution/queue_executor.py`) | the claimed job, its epoch, the row it read | claim, mark, execute, recover, heartbeat, report | no second provider call after a hand-over, every job settled |
| Inline executor (`app/execution/inline_executor.py`) | a fresh executor id and its epoch | acquire fence, execute under a deadline, report | duplicates of a submission never both dispatch |
| Shared runtime (`app/core/execution_runtime.py`) | loaded history, material snapshot, cache binding, answer | load, freeze, prepare the cache, install, seal, call, store, complete | sends exactly what was frozen, extends exactly what was planned |
| Request API v2 (`app/api_v2/router.py`, `app/routing/gemini_supply_group.py`) | none of its own; the row it read | open a session, look the key up, materialise the route, plan, accept, poll, cancel, start inline | idempotent replay, one route per session, the plan belongs to the accepted version |
| Materials (`app/materials/`) | material rows, provider bindings, fallback rows, stored objects | upload, bind, refresh, project, clean up | bytes behind every URL in use, nothing declared lost that is not |
| Provider adapters (`app/providers/`) | none; what a request sends is a function of the session | plan the payload, cut prefixes, send | every form of a payload says the same |
| Cache control (`app/cache/stateful.py`, `orchestrator.py`, SQL of 006-009) | operations, resources, pins, the affinity epoch of the session | look up, probe, claim, create, observe, publish, invalidate, rotate, seal | one creation per key, no resource of a given-up epoch, every preparation ends |
| Cache planning (`app/cache/planner.py`, `intent_resolver.py`, `economics.py`) | the frozen plan and, per session, the evidence of uses | screen, plan, assess, arbitrate, evaluate | a demanded mechanism is kept or refused, budgets are hard, promises pay |
| Worker wake and quiescence (`app/worker.py`, `app/api.py`) | wake event, activity window, debounce clock, leases | notify, deliver, poll, sleep, stop | a queued job is not left behind a sleeping worker |
| Routing and control plane (`app/routing/`, `app/control_plane.py`, `app/governance/`) | workbook, registry, candidates, approvals, releases, connections | edit, compile, approve, publish, start, resolve, run a frozen route | only what was reviewed runs, in the reviewed order |
| Legacy v1 jobs (`app/api.py`, `app/compatibility/`, `app/repository.py`) | job rows, session history | submit, cancel, claim, run, commit, settle | no turn lost, no commit twice and no other job's turn, although nothing is fenced |
| Fusion (`app/fusion_runtime.py`) | corpora, manifests, texts, material rows, artifacts | ingest, run a model stage | artifacts of one corpus, whole save unread originals, numbered densely |
| Structured output, model options, storage, HTTP, logging, security | none | convert, validate, call | see section 5 |

How they interact. The API opens a session on a route that the control plane
resolved from a published release. For a request it reads the session and its
history, materialises the route of the first request, plans the cache, and calls
*accept*, which reserves the session. An asynchronous request gets a job row that
a worker claims; a synchronous one is executed in the handler. Both run the
shared runtime: it freezes the materials (which may place or replace provider
files), prepares the cache (which may create a provider resource), and moves
`provider_dispatch_state` along `not_sent` -> `dispatch_started` ->
`result_stored` -> `committed` through fenced functions. Polling a request
reconciles it. The start and the end of each API request send the worker a
debounced signal. All calls are HTTP RPCs without retries: any of them may fail
before or after it was carried out.

The hard behaviour is what happens between those calls: leases that run out under
a live worker, processes that die, lost replies, cancels, duplicate submissions,
late executors that report an outcome nobody waits for, rows read before many
awaits and used after them, and facts (a resource, a price, a connection, a
release) that change between a decision and its use.

## 2. Modules

| Module | Models | Composed with |
|---|---|---|
| `RelayLedger` | every v3 function of the ledger as one atomic action, open to any caller with any fence, current or stale | |
| `SessionLog` | the abstract specification: what a caller of a session is promised | |
| `LedgerLog` | the rows of the ledger as a `SessionLog` | `RelayLedger` implements `SessionLog` |
| `RelayExecution` | workers, inline executors, runtime, API and time over the ledger: one step per await, with failures between and inside the steps | EXTENDS `RelayLedger` and implements it |
| `RequestAdmission` | opening a session and everything a request goes through up to its acceptance, as overlapping handlers | ends where `RelayLedger!Accept` begins |
| `MaterialBindings` | upload, placement, expiry and cleanup of one material by racing requests | |
| `PhysicalPlan` | what Gemini requests of layouts 8 and 9 send, turn by turn | |
| `CacheResources` | every cache function of the database that changes rows, open to any caller | |
| `StatefulCache` | executors that prepare the cache of their request, one step per await | EXTENDS `CacheResources`, calls its functions |
| `CachePlanning` | screen, plan, assessment, arbitration, preparation and fallbacks of a request | |
| `CacheEconomics` | what a session pays over its turns under each of the four evaluators | |
| `WorkerWake` | notifier, control server, the worker's loop and clocks | |
| `RouteGovernance` | workbook, review, release, start-up, resolution, supply groups, frozen routes | |
| `LegacyJobs` | the v1 queue with its unfenced commit | |
| `FusionCorpus` | ingestion and model stages over the objects and rows of a corpus | |
| `MC*` | instances for TLC | |
| `RelayExecution_proofs`, `StatefulCache_proofs`, `CacheDecisions_proofs`, `RequestAdmission_proofs`, `LegacyJobs_proofs`, `WorkerWake_proofs`, `MaterialBindings_proofs`, `PhysicalPlan_proofs` | theorems (section 4) | |

An MC module gives the constants values. Where an instance has several
independent questions, a variable that is chosen once says which: `scene`
(`MCExecution`), `deployment` (`RequestAdmission`), `setting` (`StatefulCache`,
`WorkerWake`, `RouteGovernance`), `mat.case` and `contract` (`MCMaterials`),
`policy` and `plan` (`MCPlanning`), and `part` where two components that share no
state are checked side by side. A behaviour belongs to one of them, so the
state spaces add up and never multiply.

Each module keeps one type invariant. An invariant called `...Safe` is the
conjunction of that type invariant with named parts; every part has a comment
that says which code it is about.

Operators whose comment starts with "Mutant" are broken variants of the
definition that follows them. Nothing uses them; replacing a definition with its
variant must break a property, which shows that the property depends on that
piece of code.

**RelayLedger.** A job belongs to one asynchronous request, so it is keyed by the
request. The fence columns of a job (`lease_owner`, `lease_epoch`,
`lease_expires_at`) and those of a synchronous request (`request_executor_*`) are
one triple `owner`, `epoch`, `lease`. A call that returns false or raises changes
nothing and is therefore no step. `lease` is `none`, `live` or `expired`;
`ExpireLease` is the clock. `late` is the job's TTL or the request's deadline.
The fences differ between the functions and the model keeps that: the functions
before the dispatch do not read the lease time of a job (`HoldsFence`), storing
and completing do (`HoldsLiveFence`), failing reads neither the lease nor the job
status (`OwnsFence`). `sealedBy`, `storedBy` and `commits` are history variables.

**SessionLog** has five actions: a request is taken once by a free session, sent
once, answered while it holds the session or dropped. The refinement mapping is
`opened <-` requests with a row, `pending <- active`, `sent <-` requests past
`not_sent`, `turns <- commits`.

**RelayExecution.** Each executor has a program counter `pc`. For a worker:
`idle` -> `claimed` -> `fetch` -> `mark` -> (`load` -> `freeze` -> `bind` ->
`seal` -> `call` -> `store` -> `commit`, or `recover`), then `failed`, `timeout`
or `unknown` when something raised. For an inline executor: `idle` -> `fence` ->
`load` and on. `Returns(x, l)` is a call whose reply may be lost; `Abort` is an
exception before the call; `Timeout` is `asyncio.wait_for`. `FetchRow` and
`LoadContext` copy rows and objects that may be stale when they are used.
A restarted process is another owner, so `Crash` needs no restart action. Objects
in storage are written once under a path that names the request, so they are
values: `stored` is what the provisional history object of a request holds,
`history` what the object named by the session row holds. `Verified` are the
requests whose plan the runtime compares with the loaded history (cache upgrade
version 3 and not the legacy Grok mode).

**RequestAdmission.** `pc[c]` is where a handler stands: an opener inserts a
session, a caller looks its key up (`find`), plans on the row `seen[c]` it read
(`plan`) and calls the accept function (`accept`), which alone runs under the row
lock. `intent` is the canonical public intent; what a v3 accept compares instead
is a hash that holds the cache plan (`inventory`). A first request of a `pending`
session materialises one of the protocols of the supply group; the accept
function pins it.

**MaterialBindings.** One material, so one row of each table: `mat`, `fb` (the
fallback row), `bindings` and `rows`; `stored` are the objects whose bytes exist.
An upload and the freezers (`resolve`, the three placements `url`, `files` and
Files-first, and the other providers' Files API) touch these one statement at a
time. Expiry, failed provider calls, failed deletions and crashes are actions. How a
request places the material goes by the layout of its session, so sessions of one
conversation may mix Files-first with the newer placements. `overlapped` remembers
whether two requests were ever open at once.

**PhysicalPlan.** Contents are sequences of parts; a hash is the value it is a
hash of. Each accepted request is planned against the committed history; the
payload is sent whole, with an implicit prefix or behind a resource, chosen
freely among what the code declares compatible.

**CacheResources, StatefulCache.** A cache key is a pair of affinity epoch and
prefix version, since the scope hash of a resource contains the epoch; one
operation row and one resource row per key. Of the request ledger only the
reservation and the fence that the functions read are kept. `StatefulCache` is
`StatefulResourceManager.prepare`: list, probe, drift and rotation, claim, start,
create at the provider, observe, verify, publish, seal, with `Abort` in every
await. `made` counts what the provider was asked to create.

**CachePlanning, CacheEconomics.** The first treats costs as facts of the request
(`world`), the second computes them; between them they are the two halves of
`economics.py` and its callers. In `CacheEconomics` rates are integers, ratios are
tenths and time is in units of the TTL; `spent` and `plain` are what the session
paid with and would have paid without resources, `due` the reads the creations
still owe.

**WorkerWake.** Every clock is what is left of its period; `Tick` is one unit for
all of them and waits for steps that take no time. `Rpc` and `Send` bound calls
and deliveries.

**RouteGovernance.** A candidate records the workbook, registry and build it was
compiled from; a release is a candidate that was signed. A process of some build
loads a release (`Start`), sessions copy the entry that `Resolve` selected and
the group that `resolve_supply_group` built, and `Execute` is the check before a
frozen route is run, possibly by another build. A list of entries is a function of
their ranks. An opening that meets an adapter of another protocol than its entry
(`Miswired`) raises and leaves nothing behind, so it is not a step.

**LegacyJobs, FusionCorpus.** `at[w]` follows `_execute_job`; the owner's name is
all that `update_job` checks and the commit is only compared with the version the
API read. The history of a session is the object its row names (`head`), and `stored`
holds the object of each job: its path is made of the version the job was submitted
at and of the job's id, so every execution of a job writes the same object. The
object is written (`StoreHistory`, `legacy_worker.py:226`) before the commit is tried
(`CommitHistory`, line 227), and stays written when the commit is refused. A turn is
its job; which execution's answer it holds is not told apart. Corpus objects are
functions of the corpus id, so executions of one id write over each other too. The
text of a `Referenced` material is fetched from its original object; a fetch that
fails is swallowed and stores an empty text (`StoreText`, `fusion_runtime.py:456`).

## 3. What TLC checks

| Run | Instance | Properties |
|---|---|---|
| `execution` | five scenes: a hand-over between two workers, a worker against an inline executor, a reopened request while the conversation moves on, duplicate submissions, an ephemeral session | `ExecTypeOK`, `ReservationIsLive`, `HistoryIsLinear`, `ResultAnswersDispatch`, `OneProviderCall`, `CallIsSealed`, `HistoryHoldsCommits`, `StoredExtendsPlan`, `DispatchedPlanIsFrozen`, `ImplementsLog`, `ImplementsLedger` |
| `execution_settles` | one job with a worker that stays and one that may crash; one synchronous request whose executors may all die | `AsyncSettles`, `SyncDispatchSettles` |
| `admission` | four deployments: three callers and two keys on a fresh session, on an ephemeral one, on one of the v2 contract; two openers and a caller | `AdmissionSafe`, `RetryIsNoConflict`, `RunsOnThePin`, `PlannedOnTheHistory` |
| `materials` | two racing requests per placement, Files-first alone, overlapping, and mixed with the others; five contracts of the physical plan | `BindingSafe`, `SignedUrlServes`, `PlanSafe`, `WireSaysTheSame`, `ImplicitPrefixGrows` |
| `cache` | four settings: a race to create, rotation by two executors, by two requests, and a unified plan | `PrepareSafe`, `ResourcesAreCreated`, `OneCreation`, `SealedAffinityIsCurrent`, `PreparationEnds` |
| `planning` | every plan of three protocols in both formats; four turns under every evaluator and policy | `PlanningSafe`, `CreationIsJustified`, `ForecastsPay`, `SpendingIsFounded` |
| `wake` | two requests and a lost delivery; one request and one fault of each kind | `WakeSafe`, `NoStrandedJob`, `StopDrains` |
| `governance` | four deployments: managed model, group in the workbook, two candidates under review, the built-in plane; two builds | `GovernanceSafe`, `DeclaredOrder` |
| `legacy` | two submits, two workers, one fault; two ingests and two stages over two materials, one of them only referenced | `LegacySafe`, `NoTurnIsLost`, `CorpusSafe` |
| `legacy_settles` | one job with a cancel, two workers, two faults | `JobsSettle` |
| `unknown_released`, `sync_crash` | one request and one executor | `UnknownStaysReserved`, `SyncRequestSettles` (violated) |

`ImplementsLedger` and `ImplementsLog` are the refinements: every behaviour of the
executors is a behaviour of the open ledger, and that is one of the session log,
so what is checked or proved of them holds of the system.

`StoredExtendsPlan` needs three executors to be interesting: while a session is
reserved its history stands still, so only a request that was cancelled and then
reopened by a stale worker's status update can load a history that moved on. The
runtime's comparison with the plan is what stops it.

**Bounds.** *Executions*: `MaxEpoch` bounds the claims of one request; two are
enough for a stale and a current executor, which is where every property of the
fences could break. `MaxFaults` bounds crashes, lost reports, lost claim replies
and aborted pickups; lost replies of the runtime's own calls, exceptions and
timeouts are unbounded. In the liveness run `MaxEpoch` exceeds the claims the
faults allow, so the bound never stops the system. Two digests distinguish the
plan that was frozen from another one. In each scene `first` fixes which of two
alike workers claims first, and of two alike inline executors `i1` starts first.
*Admission*: three calls with two keys give a retry, a rival and one more to move
the session on between the reads of the other two; a call runs once. *Materials*:
two requests suffice for each pair of placements to interleave statement by
statement; three to four binding generations let a placement be replaced by one
that itself expires; four objects are the upload, its projection and one
re-projection by either request. Three turns and two resources let a resource be
older than the last turn but one. *Cache*: three claims of an operation, three
affinity epochs (a rotation by each of two requests), two prefixes for growth.
`MaxClaims` is at least the number of preparations, so no claim is refused by the
bound. *Planning*: the space of plans is the code's; only the number of turns
(four) bounds the costs, which is enough to create, forecast from two uses, grow
and be paid back. *Wake*: clocks of two to four units, in each the order of
their lengths that the configuration has. *Governance*: one model, one session at
a time, two candidates under review. *Legacy*: two attempts for safety, three for
liveness with two faults.

**Fairness.** *Executions*: `Advance`, a coroutine that can take a step takes it
(asyncio schedules it, RPCs have timeouts); `ClaimStep`, `PollQueue`, the worker
loop polls for ever; `PollRequest`, the client of an unsettled request polls it;
`LeaseRunsOut`, and `TimePasses` for synchronous requests, clocks advance. A
job's TTL is seven days and gets no fairness: otherwise the `late` disjunct of
`AsyncSettles` would hold by itself. `Punctual` says that the heartbeat, every 30
seconds for a lease of 120, keeps the lease of a running executor; only the
liveness run assumes it. *Cache*: a preparing executor takes its next step; its
aborts, faults and rivals are not fair. *Wake*: the loop, the supervisor's restart,
the clock, the end of a handler and the end of a delivery. *Legacy*: the two
statements of an API call, claims, executions and lapsing leases. No fault and no
client decision is fair anywhere.

Two runs refute what a comment of the code says:

* `unknown_released`: `fail_relay_request_v3` accepts an indeterminate request. The
  dispatch is sealed, the lease runs out, a poll closes the request as
  indeterminate, the worker comes back, its store is refused and it reports
  `failed` with `release_session`. The unknown outcome is gone and the session is
  open, although the provider may have answered.
* `sync_crash`: a synchronous request whose process died before the seal or after
  the store is closed by no poll, and a retry with its key returns the row as it is.

Because of these two and of the ones below, some properties are stated for less
than a reader may expect. Each was met as a counterexample of a wider property:

* A worker that lost its lease turns `succeeded` into `running`, where it stays:
  the status update before the try block of the queue executor
  (`queue_executor.py:50`) is filtered by the request id only. Likewise a
  request cancelled during pickup may stay `running` without a session;
  `AsyncSettles` therefore speaks of requests that hold their session.
* `NoStrandedJob` holds when the active window outlasts the notifier's silence and
  one database call together, no handler raised and no two attempts of one signal
  were lost. Nothing enforces the first
  (the defaults are 5 s and 2 s, but a database call may take the 60 s of
  `config.py:148`), so the second signal that `api.py:308` relies on can be
  dropped by the debounce while a slow claim outlives the window. A request whose
  handler raises sends no second signal at all.
* `FailureKeepsBytes` and `LostMeansLost` promise something of Files-first only when
  every session of the conversation places Files first and no two requests ever
  overlapped (`Undisturbed`). When two place the material at once and one upload
  fails, the other's cleanup (`binding_resolver.py:990`) deletes the object that the
  frozen URL points to, against the docstring at line 810. And when one request finds
  no binding, and another then uploads, binds and drops the fallback row (lines
  984-996), the first finds no bytes either and marks a material with a live binding
  as lost (lines 838-845). Neither is possible without Files first, where both
  properties are checked and proved with requests that overlap; that a material
  admission accepts is backed (`ReadyIsBacked`) holds of every placement and overlap.
* `InheritsInstructions` excepts a call that read the session before its first
  acceptance: `router.py:1195` takes the instructions of the row it read, and an
  ephemeral commit moves no version, so nothing makes it plan again
  (RELEASE_NOTES_6.6.0.md:25 promises inheritance without that exception).
* `RetryIsNoConflict` does not hold of sessions of the v3 contract, which the run
  leaves out: `sql/005_relay_cache_control.sql:199` compares a hash that holds the
  cache plan and the history version (RELEASE_NOTES_6.8.0.md:38).
* A cancel that lands after `legacy_worker.py:193` has looked does not keep the
  turn out of the history, although line 192 says it must not be there.
* A legacy job that runs a second time after its commit fails with
  `SESSION_CONFLICT` because its own turn moved the version
  (`legacy_worker.py:234`), but before that it writes over the object the session
  names (line 226, an upsert): with its turn a second time when it read the session
  after the commit, with its own answer in place of the committed one when it read
  it before. So no property says that a turn is in the history once, or that a
  committed answer stays; `HistoryTellsCommits` and `NoTurnIsLost` speak of the jobs
  in the order in which they first appear.
* Two ingests of one corpus id and different content that both look first replace
  each other (`fusion_runtime.py:554`), although line 75 calls the hash immutable;
  `CorpusSafe` is checked for one content, which the retry of a job has.
* A ready corpus may lack the text of a referenced material: a failed read of the
  original is swallowed (`fusion_runtime.py:461`) and the corpus is marked ready and
  reused. A second ingestion that overlaps the first may even replace a text by an
  empty one after the corpus was ready. `ReadyIsWhole` promises the manifest, the
  material rows, the texts that were submitted, and of the others nothing but that
  they are the right ones or empty.
* In mode on with a frozen creation budget, a token count that fails fails the
  request although its implicit prefix was authorised (`stateful.py:355` against
  RELEASE_NOTES_6.8.0.md:21).
* In mode on with the mechanism left to the relay, a resource that expires between
  assessment and preparation lets the request run uncached (`orchestrator.py:292`
  against README.md:143), so `UncachedIsAuthorised` allows the refusals whose
  reason the code counts as safe.
* `DeclaredOrder` allows a lower row of the first able row's supply group: a group
  with both protocols pins its native supply whatever the ranks
  (`gemini_supply_group.py:121`), past a row of another group in between.
* `NoNeedlessRefusal` excuses a rejected sibling of a supply group that forbids
  going on, whatever its rank (`gemini_supply_group.py:117`); `route_resolver.py:389`
  speaks of lower ranks only.

## 4. What is proved

`RelayExecution_proofs` begins with the ledger, for all sets of sessions, requests,
owners and digests, any number of epochs, and any caller, from `LedgerAssumption` only:

| Theorem | States |
|---|---|
| `TypeCorrect` | `LedgerSpec => []TypeOK` |
| `ReservationsAreLive` | `LedgerSpec => []ReservationIsLive` |
| `ResultsAnswerDispatch` | `LedgerSpec => []ResultAnswersDispatch` |
| `HistoriesAreLinear` | `LedgerSpec => []HistoryIsLinear` |
| `LostReservationsAreFinal` | `LedgerSpec => LostReservationIsFinal` |
| `DispatchedPlansAreFrozen` | `LedgerSpec => DispatchedPlanIsFrozen` |
| `LedgerKeepsLog` | `LedgerSpec => ImplementsLog` |

The invariants are not inductive alone. `FreshRows` strengthens them: a row that
was not inserted yet is blank and no session points to it (without that, *accept*
could reserve a session for a request that already committed), and a queued job
has sent nothing (without that, claiming a queued job could raise the epoch of a
started dispatch and its result would be stored under another epoch than the one
that sealed it). `LedgerStepType` and `FreshStep` have one case per function; the
other step lemmas treat the functions that write the columns they speak of and
dispose of the rest as stuttering on those columns. `HistoryCommit` is the only
argument about sequences: the compare-and-set on `history_version` makes the
appended request's `expected_history_version` equal to the length of the line.
The two action properties need only `TypeOK`.

`LedgerKeepsLog` is the refinement of `SessionLog`: under the same invariants every
function maps to one step of `SessionLog` or to a stutter. The
case that needs `ReservationIsLive` is a release: only the session a request was
submitted to can be freed by it, so freeing is `Drop` and nothing else.

The executors, for any number of workers and inline executors, any
faults and any timing, from `LedgerAssumption` and `ExecutionAssumption` only:

| Theorem | States |
|---|---|
| `ExecTypeCorrect` | `Spec => []ExecTypeOK` |
| `Refinement` | `Spec => ImplementsLedger`, that is `Spec => LedgerSpec` |
| `CallsAreSealed` | `Spec => []CallIsSealed` |
| `CalledAtMostOnce` | `Spec => []OneProviderCall` |
| `HistoriesHoldCommits` | `Spec => []HistoryHoldsCommits` |
| `AnswersExtendPlans` | `Spec => []StoredExtendsPlan` |

Refinement needs that an executor calls the ledger with arguments the ledger
allows, so its invariant `ExecInv` adds `Placed` to the types: an executor at work
has a request, past the fence it has an epoch it was given, and a binding to seal
is one it prepared. `StepMaps` then maps every step. `Others` says that the step of
one executor leaves the locals of the others alone; what each of them believes can
then only be invalidated by the ledger, and five lemmas about the ledger
(`MaterialsStay`, `DispatchStays`, `FrozenStep`, `AcceptedStays`, `ReservedBefore`)
say what the ledger never takes back. On these stand

* `Sealing`: what an executor fetched, froze and sealed is what the ledger holds;
* `CallsLeft`: a request that is not sealed was not called for, an executor about
  to call has not called yet, and no two of them are about to call for the same
  request;
* `Known`: executors work on accepted requests only (with `FreshRows`, since a
  claim could otherwise pick up a row that does not exist);
* `HistoryRead`: while a request holds its session, what was loaded or stored for
  it is the session's current history with its turn. It is conditional on the
  reservation, because an executor that lost it may hold an outdated copy for ever;
  the commit requires the reservation, so that copy is never published;
* `PlanRead`: past the comparison the loaded history is the planned one.

`StatefulCache_proofs`, of the functions alone, for any number of requests, executors,
prefixes, affinity epochs and claims, and any caller, from `CacheAssumption` only:

| Theorem | States |
|---|---|
| `CacheTypeCorrect` | `CacheSpec => []CacheTypeOK` |
| `ResourcesStandForOperations` | `CacheSpec => []ResourcesAreCreated` |
| `RotatesAtMostOnce` | `CacheSpec => []RotationsAreCounted` |

The session row remembers only the last request that rotated its affinity. That
one rotation per request follows all the same is because the reservation goes from
"held" to "lost" and never back: `RotationInv` says that whoever rotated and is not
the recorded one has lost the session.

and of the preparations, for any number of executors, requests, prefixes and
rotations, any settings and any faults, from `CacheAssumption` and
`PrepareAssumption` only:

| Theorem | States |
|---|---|
| `PreparationsUseFunctions` | `PrepareSpec => CacheSpec` |
| `PreparationsAreSafe` | `PrepareSpec => []PrepareSafe` |
| `PreparedResourcesAreCreated` | `PrepareSpec => []ResourcesAreCreated` |
| `CreatedAtMostOnce` | `PrepareSpec => []OneCreation` |
| `SealsAreCurrent` | `PrepareSpec => SealedAffinityIsCurrent` |

* `PrepareInv` adds to the types that an executor at work has a request and a prefix
  and that the epoch of an owned operation is within the bound; with it every call
  of an executor is a call of a function with arguments of their kinds, which is the
  first theorem, and the theorems about the functions carry over.
* `CreationInv` is about the time between the start of an operation and the answer
  of the provider: the executor inside the call owns the operation and nothing was
  created for its key yet, and a key something was created for has an operation that
  is running, unknown or succeeded. None of these states can be claimed again, so
  the call that could create a second resource never begins.
* `AffinityInv` says what an executor knows of the epoch: candidates, fallback and
  choice are of the epoch it works in (`Fits`), and that is the session's epoch as
  long as its fence is valid and its request holds the session (`Current`). A
  rotation needs both of these itself, and one request holds the session, so nobody
  else can rotate under it. An executor that lost the fence or the session may be in
  an old epoch, which is why the property speaks of the holder only.

`CacheDecisions_proofs`, for any subset of the protocols and formats and any policies,
growths, pauses and number of turns, from `ProtocolAssumption`, `CostAssumption` and
`PolicyAssumption` (rates, margins and forecasts are not negative and a hit rate is at
most 1, which `_nonnegative` and its callers see to; no relation between the rates of
reading, writing and input is assumed):

| Theorem | States |
|---|---|
| `PlansAreKept` | `PlanningSpec => []PlanningSafe` |
| `CreationsAreJustified` | `PlanningSpec => CreationIsJustified` |
| `PromisesPay` | `CostSpec => []ForecastsPay` |
| `CreationsAreFounded` | `CostSpec => SpendingIsFounded` |

* `PlanningInv` has three parts. `Fits` is what a frozen plan guarantees whoever executes
  it: a forced mechanism is the only track. `Known` is what the running executor may
  hold of a track: a track that was declined, without leave to go on uncached, was
  declined on `Grounds` or its assessment failed, and the latter in a unified plan only.
  `StageOK` carries the facts of one step to the next: above all `Justified`, what the
  gate saw, from the gate to the call of the provider. Every preparation answers with
  an `Answer`, so each action is one of four ways to use it (`GoKeeps`, `UseKeeps`,
  `UncachedKeeps`, `FailKeeps`).
* `DebtIsDue` is the invariant behind `ForecastsPay`: what the session has paid more
  than without resources is at most what the reads still due save, at the size of the
  present resource. A creation raises both sides, and the evaluator that allowed it
  asked for exactly that inequality against a rate that is no larger
  (`OtherIsBounded`); where an older resource is replaced, the old debt is paid by the
  same reads as the new one since each read now saves more (`DebtsAdd`). A read lowers
  both sides by the same amount (`ReadPays`). With nothing due the debt is gone.

`RequestAdmission_proofs`, for any number of calls, keys, intents and openings, from
`DeploymentAssumption` and `NullAssumption` (null is none of the rows and names):

| Theorem | States |
|---|---|
| `CallsAreAnsweredTheirOwn` | `Spec => []AdmissionSafe` |
| `OneRouteServesAll` | `Spec => []RunsOnThePin` |
| `PlansOnTheHistory` | `Spec => []PlannedOnTheHistory` |
| `RetriesAreNoConflict` | `Spec => [](Contract # "v3" => RetryIsNoConflict)` |

A handler decides on the row it read, and the accept function on the row it locks.
The two are related by `Later`: of what a copy shows, the body, mode and materials
stay, a pin once set stays with its route, a first request stays with its
instructions, the version only grows, and the history up to a version never changes
(`StoreStep` says so of every step). `SeenInv` keeps that relation for every call,
`PlanInv` that a plan is the one its copy leads to, `RowInv` that an accepted row runs
on the session's route and carries the hash of its own intent, and `SessionInv` that
a session is pinned before its first row exists. A v66 pin may change the route of a
pending session only because of that last part: there is no row yet whose route
would be left behind. The last theorem excludes the v3 contract for the reason
given in section 3: its accept function compares a hash that holds the cache plan.

`LegacyJobs_proofs`, for any number of workers, jobs, claims and faults, from
`BoundAssumption` and `NullAssumption` only:

| Theorem | States |
|---|---|
| `TurnsAreKept` | `Spec => NoTurnIsLost` |
| `CommitsAreOnce` | `Spec => []HistoryTellsCommits` |
| `LegacyJobsAreSafe` | `Spec => []LegacySafe` |

and of Fusion, for any number of executions, contents, materials and artifact types,
from `MaterialsAssumption` only:

| Theorem | States |
|---|---|
| `ArtifactsAreNumbered` | `CorpusSpec => []VersionsAreDense` |
| `CorporaAreSafe` | `CorpusSpec => [](OneContent => CorpusSafe)` |

The commit of a legacy job carries no fence, so a worker that lost its lease commits
like any other, and the object the session names may be written again by executions
whose commit will be refused. `commits` records the commits that were let through.
`LogInv` says that the job of a commit stands at the place its submit read as the
version, so no job has two places, and that the session names the object of the last
one; `SnapshotInv` that the version a job was submitted on is never ahead. `StoredInv`
is what saves the history: every execution of a job, accepted or not, leaves in the
job's object a history read after the job's snapshot with the job behind it, so it
tells the commits up to some place that is not before the snapshot (`ToldFrom`), and
appending the job tells them up to the job's own place (`TellsNext`) or, when it was
read past that place, once more a job that is there (`TellsRepeat`). So whichever
execution wrote the object last, it tells the commits (`HistoryTells`); and since
commits are only added, a later history tells what an earlier one did (`NothingLost`).

What an object or a row of a corpus holds is never taken back to nothing, so what an
execution has written when it goes on stays written whoever writes over it: each phase
knows what stands behind it (`CorpusInv`), and the row, which is written last, follows
its objects. That two executions write the same is the hypothesis `OneContent`; without
it the two replace each other, as section 3 says. An artifact's number is computed
before it is inserted, but it is never beyond the next one, so if nobody took it, it is
the next one.

`WorkerWake_proofs`, for any number of requests, all clocks and all bounds on the
faults, from `WakeAssumption` only:

| Theorem | States |
|---|---|
| `WorkerSleepsSafely` | `Spec => []WakeSafe` |
| `NoJobIsStranded` | `Spec => [](setting.most["lost"] <= 1 => NoStrandedJob)` |

The second is an argument about time. Every clock is what is left of a period, so
clocks can be compared without a global time. `HeardInv`: when the notifier is silent
and no signal is certain to arrive still, one was heard so recently that the active
window exceeds what is left of the silence by at least `Grace - Interval`.
A request that ends in silence therefore finds a window longer than one call of the
database, and `AwakeInv` carries it to the decision: while a job waits, a worker in
one of its last calls before sleep has more window left than call. A signal is
*certain* (`Pending`) when it has two attempts left, or one and the loss has already
happened; two losses in a row would leave nothing, hence the hypothesis. A crash
clears nothing of this, because the new process starts with a whole window.

`MaterialBindings_proofs` is about what a request finds in place, its material and its
route. The material, for any number of freezers, binding generations, objects and
faults, from `CaseAssumption` only:

| Theorem | States |
|---|---|
| `BytesAreKept` | `BindingSpec => [](BindingTypeOK /\ RelayKeepsBytes)` |
| `SignedUrlsServe` | `BindingSpec => []SignedUrlServes` |
| `MaterialsAreServed` | `BindingSpec => []BindingSafe` |

`Kinds` are the types, with the generations a freezer may hold where it stands, and
`UploadOK` says what the upload has written so far; no request is admitted before it is
over (`UploadAlone`). What serves a request has a different reason for each placement, so
the invariant has three parts, one for each kind of case, and each is a predicate of the
tables and one of a freezer's place and locals (`...Lane`) that the steps of the others
must leave true:

* `OtherNow` (no Gemini): the copy is written once and never removed; without a copy
  there is at most the one row of the upload, so a freezer that finds it expired and
  gives up has seen every row.
* `KeptNow` (Gemini without Files first; with it, only until the first row exists): the
  fallback row names the newest object, and the only object ever deleted is the first,
  by a freezer that found its name or type unfit (`~Plain`). `Good` is what may be
  signed: an object that exists and is not that one. Nothing takes `Good` back
  (`KeptLaneStays`), so a freezer that replaces the object does not harm one that is
  about to sign, freeze or infer with another.
* `FirstNow` (Gemini, Files first, `Undisturbed`): one freezer is open at a time
  (`OneOpen`); while it makes a row every earlier row is dead and of an earlier
  generation, and from the moment it cleans the copy up no live row is a URL. With two
  open both are false, which is what section 3 says of Files-first requests that overlap.

A Files-first behaviour leaves the second part when its first row appears and the third
when it is no longer undisturbed; rows are never deleted and what overlapped has
overlapped, so neither is entered again (`SubjectsStay`). What `BindingSafe` says of all
behaviours, that a material admission accepts is backed, follows from the second part
before the first row and from that row after it.

The route, for any workbooks, builds, wiring, accounts, conditions and requests, from
`GovernanceAssumption` and `BuiltinAssumption` only:

| Theorem | States |
|---|---|
| `RoutesAreReviewed` | `Spec => []GovernanceSafe` |
| `DeclaredOrderIsKept` | `Spec => []DeclaredOrder` |

What is at stake happens in one step, the opening; the invariant only carries what that
step decides on. `Compiled` says of every candidate that it is what the compiler makes
of the workbook, registry and build it names, and that these passed the compiler's
checks; `Process`, that a process runs a published candidate of its own build. With
`EntryOfRow`, each entry of a reserved name is then the certified supply of its row, and
`RowOfRoute` finds the row of a route again, since two enabled rows never share a
connection. Ranks are natural numbers (`FirstRank`), so an opening that resolves has a
first able entry, below no entry that forbids (`ResolvedMeansAble`), and `GroupChoice`
says which of its siblings `resolve_supply_group` may answer instead. A frozen wire
follows from `Miswired`: who opens a session has compared every entry it could use with
its adapter, and who runs it compares again.

`PhysicalPlan_proofs` is about what is sent, for any contracts, materials, sizes and
priorities, any requests and any number of turns and resources, from
`ContractAssumption` and `MaterialAssumption` only:

| Theorem | States |
|---|---|
| `PlansAreSafe` | `PlanSpec => []PlanSafe` |
| `WiresSayTheSame` | `PlanSpec => []WireSaysTheSame` |
| `ImplicitPrefixesGrow` | `PlanSpec => []ImplicitPrefixGrows` |

`PlanSafe` is the conjunction of `PlanTypeOK`, `ExplicitMessageIsWhole`,
`ResourceHoldsNoTurnFile`, `ResourceStaysCompatible`, `NoLateRefusal` and
`SelectionFitsBudget`.
All three follow from `PlanInv` (`PlansAreFounded`), which says where things come from:

* `HistoryOK`: a turn is the files of some list of materials at the indexes its
  occurrences name, then a text, then an answer (`TurnOf`);
* `ResourcesOK`: for every resource there is a request it is `Founded` on, whose head,
  name and prefix at the resource's version are the resource's still. Later turns do
  not change a prefix (`PrefixStays`), and requests with one head have the same prefixes
  (`HeadDecides`), so a resource stays a candidate for whoever has its head;
* `PriorOK`, `WireOK`: the last implicit payload and what was sent are the `Retold`
  conversation of a request: base, entries of all turns, its question.

That a payload says the same is then algebra. Taking files out of a conversation
distributes over its turns (`WithoutOfConcat`); out of one turn, the full and the
projected form leave the same (`SpokenWithout`), by induction all of them do
(`OriginalsAreRetold`), and a moved file is at one place of base and question
(`RetoldHoldsOnce`). An implicit payload begins the next one because the question of a
committed turn, with its files taken out, is the first message of its entry. The budget
is an induction over the candidates: what was used is the bytes of what was selected
(`KeptAlong`), which needs that `Bytes` adds up (`BytesOfOneMore`).

The recursive functions of this module (`Picked`, `Bytes`, `Admission`, and the folds
behind `FlattenSeq`) are each shown to have their values before they are opened
(`Recursion`, `SumExists`, `FlowExists`). Where the induction theorems of the library
take an operator that the provers cannot instantiate, the proofs take the set of the
counterexamples and its least member instead (`NumbersFrom0`, `SequencesFromEmpty`).
`SelectSeq` and `SortSeq` take an operator too; the model says the same with `Elements`
over a set of indexes and with `First`, the candidate that precedes all others.

Only model-checked: the liveness properties `AsyncSettles`, `SyncDispatchSettles`,
`JobsSettle`, `StopDrains` and `PreparationEnds`, which rest on fairness and so on
`ENABLED`. Every safety and action property of a passing run is a theorem, two of
them under a hypothesis the instances of the run satisfy and this section names: at most
one lost delivery (`NoJobIsStranded`) and one content per corpus id (`CorporaAreSafe`).

## 5. Not modelled

* Functions of the database are atomic: they lock the rows they read. One exception
  is known: `claim_relay_job_v2` locks only the job row, so under READ COMMITTED a
  seal that commits while the claim waits is not seen by its dispatch condition.
* The v2 protocol of executions (unfenced `update_request` transitions) and the
  inline executor's historical path; TTLs of v1 jobs; the session row that the
  losing submit of one key leaves behind.
* `release_cache_pins_v3` and the audit rows: binding attempts, cache affinity
  events, wire logs.
* Payloads of layouts 2 to 7, of ephemeral sessions, of history written by another
  provider, and of the OpenAI-compatible adapter; the session's instruction slot,
  which nothing writes; DOCX text projections and the fetch of a source URL.
* Structured output, model options, context plans and fingerprints: conversions
  without state. `CallProvider` is what the executors see of an adapter.
* The cells of the workbook and their validation, the built-in contracts (data), the
  legacy catalog JSON.
* Prompts of Fusion stages and the normalisation of their output; the second copy of a
  corpus text, `full-text.txt`, which nothing reads back.
* Payloads, errors and object contents are abstracted to the identity of turns,
  contents and digests.

`StatefulCache` uses the functions of `CacheResources`; that it changes their rows in
no other way is the theorem `PreparationsUseFunctions`. `RelayExecution`
treats the preparation of the cache as one step that succeeds or raises, and
`StatefulCache` treats the reservation and the fence as the rows its functions read;
the two meet at the seal.

## 6. Plan

1. `RelayLedger`, `RelayExecution`, `SessionLog` and the proofs about them (done).
2. `RequestAdmission`, `MaterialBindings`, `PhysicalPlan`, `CacheResources`,
   `StatefulCache`, `CachePlanning`, `CacheEconomics`, `WorkerWake`,
   `RouteGovernance`, `LegacyJobs`, `FusionCorpus` (modelled and checked).
3. Proofs: `StatefulCache` on top of `CacheResources`, `RequestAdmission`,
   `LegacyJobs`, `WorkerWake`, `CachePlanning`, `CacheEconomics`, `MaterialBindings`,
   `FusionCorpus`, `RouteGovernance`, `PhysicalPlan` (done).
4. Code that has no model yet: the v2 transitions and the row versions of
   `claim_relay_job_v2`.
