--------------------------- MODULE CachePlanning ---------------------------
(***************************************************************************)
(* How a request comes to its cache mechanism: the resolver screens what   *)
(* the supply and the profile offer (src/app/cache/intent_resolver.py), a  *)
(* plan is frozen with the request (planner.py), and any executor that     *)
(* takes the request later assesses the planned tracks, arbitrates and     *)
(* prepares one (orchestrator.py, stateful.py, watchdog.py).               *)
(*                                                                         *)
(* There are two formats.  A unified plan freezes every eligible track and *)
(* arbitrates on facts; a dual plan, that of sessions whose upgrade is of  *)
(* a version below 4, freezes one mechanism and at most one fallback.      *)
(*                                                                         *)
(* Between planning, assessment and preparation the resource of the        *)
(* session may appear and vanish, measurements fail, and the executor die. *)
(* What a creation costs is decided in CacheEconomics and is a fact here,  *)
(* and so is whether an older prefix is to grow; the steps of a creation   *)
(* at the tables are those of StatefulCache.  Left out: token estimates,   *)
(* which the context plan never carries, and plans without an upgrade.     *)
(***************************************************************************)
EXTENDS Naturals, FiniteSets

CONSTANTS
  Protocols,  \* subset of {"gemini", "claude", "chat"}
  Formats     \* subset of {"unified", "dual"}

ASSUME ProtocolAssumption ==
  /\ Protocols \subseteq {"gemini", "claude", "chat"}
  /\ Formats \subseteq {"unified", "dual"}

VARIABLES
  plan,      \* the frozen plan
  world,     \* facts of this request that planning did not know
  resource,  \* a compatible cache resource is usable
  lost,      \* the outcome of a create call is unknown
  created,   \* this request has created the resource
  pc,        \* "new" | "assess" | "select" | "create" | "fallback" | "done"
  facts,     \* what the running executor has found out about each mechanism
  outcome

planningVars == <<plan, world, resource, lost, created, pc, facts, outcome>>

All == {"stateful", "breakpoint", "implicit"}

Mechanisms(protocol) ==
  CASE protocol = "gemini" -> {"stateful", "implicit"}
    [] protocol = "claude" -> {"breakpoint", "implicit"}
    [] protocol = "chat"   -> {"implicit"}

-----------------------------------------------------------------------------
(* CacheIntentResolver.resolve.                                            *)

\* What a supply and a profile may say of a mechanism.  threshold is
\* "provider" when the provider enforces it; guard is final_threshold_guard.
Offer == {[admission |-> a, threshold |-> "provider", minimum |-> FALSE, guard |-> FALSE] :
            a \in {"absent", "trial"}}
         \cup [admission : {"certified"}, threshold : {"provider", "measured"},
               minimum : BOOLEAN, guard : BOOLEAN]

Ask == [format : Formats, protocol : Protocols, mode : {"off", "auto", "on"},
        preference : {"auto", "implicit", "stateful"},
        uncached : BOOLEAN,       \* auto_prepare_failure = uncached_same_context
        denied : BOOLEAN,         \* deny, or auto_disabled
        prefixEmpty : BOOLEAN,    \* no stable segment
        upgrade : 1..2,           \* of a session with dual plans: version 1, or later
        controlledFirst : BOOLEAN, \* the policy's preference, or the evidence
        watchdog : BOOLEAN, composite : BOOLEAN]

\* A provider-managed trial exists for the implicit prefix of Gemini in auto
\* mode and gives no right to force it.
Admitted(a, o, m) ==
  \/ o[m].admission = "certified"
  \/ /\ a.mode = "auto" /\ a.protocol = "gemini"
     /\ m = "implicit" /\ o[m].admission = "trial"

\* The watchdog of chat completions measures at run time, and guards itself.
Watched(a, m) == a.protocol = "chat" /\ m = "implicit" /\ a.watchdog

\* The threshold of an implicit prefix of Gemini is never known beforehand.
Uncertain(a, o, m) ==
  \/ Watched(a, m)
  \/ /\ o[m].admission # "trial"
     /\ (o[m].threshold = "measured" \/ (a.protocol = "gemini" /\ m = "implicit"))

\* Uncertainty needs a guard at run time, and the guard of an implicit prefix
\* of Gemini a minimum to compare with.
Eligible(a, o, m) ==
  /\ ~a.prefixEmpty
  /\ (Uncertain(a, o, m) /\ ~Watched(a, m)) =>
       o[m].guard /\ ((a.protocol = "gemini" /\ m = "implicit") => o[m].minimum)

\* Since version 2 a dual plan of Gemini in auto mode puts the resource first;
\* before it the evidence decided.
ControlledFirst(a) ==
  \/ a.controlledFirst
  \/ /\ a.format = "dual" /\ a.upgrade > 1
     /\ a.protocol = "gemini" /\ a.mode = "auto" /\ a.preference = "auto"

\* The candidates stand in the order stateful, breakpoint, implicit, or with
\* the implicit prefix first.  No protocol has two of the others.
Leading(first, S) ==
  IF "implicit" \in S /\ (~first \/ S = {"implicit"}) THEN "implicit"
  ELSE CHOOSE m \in S : m # "implicit"

\* In a dual plan a preference that is not soft leaves nothing else.
Considered(a, C) ==
  LET soft == a.mode = "auto" /\ a.preference = "stateful" /\ "implicit" \in C
  IN IF a.format = "dual" /\ a.preference # "auto" /\ ~soft THEN {a.preference} ELSE C

Plan(a, status, tracks, trial, minimum, alternative) ==
  [mode |-> a.mode, preference |-> a.preference, format |-> a.format,
   protocol |-> a.protocol, watchdog |-> a.watchdog,
   uncached |-> a.mode = "auto" /\ a.uncached,
   status |-> status, trial |-> trial,
   tracks |-> tracks,            \* frozen, in the order first tells
   first |-> ControlledFirst(a),
   minimum |-> minimum,          \* of the resource, known to the relay
   alternative |-> alternative,  \* an implicit prefix is admitted beside it
   compatibility |->
     CASE a.protocol = "gemini" -> "exclusive"
       [] a.protocol = "claude" /\ a.composite /\ "breakpoint" \in tracks -> "layered"
       [] OTHER -> "policy"]

NoCache(a) == Plan(a, "none", {}, FALSE, FALSE, FALSE)
Refuse(a)  == Plan(a, "refused", {}, FALSE, FALSE, FALSE)

\* What cannot be had fails a request that demands it.
Unless(a) == IF a.mode = "on" THEN Refuse(a) ELSE NoCache(a)

\* build_unified_plan: a preference for the implicit prefix, or any forced
\* one, excludes the others.
Constrained(a, m) ==
  (a.preference = "implicit" \/ (a.mode = "on" /\ a.preference # "auto")) => m = a.preference

\* freeze_dual_track_plan: one mechanism, and the implicit prefix as the
\* fallback of a resource that is not forced.
DualTracks(a, eligible) ==
  LET lead == Leading(ControlledFirst(a), eligible)
  IN IF /\ lead = "stateful" /\ "implicit" \in eligible
        /\ a.mode = "auto" \/ a.preference = "auto"
     THEN {"stateful", "implicit"} ELSE {lead}

Resolve(a, o) ==
  LET C == {m \in Mechanisms(a.protocol) : Admitted(a, o, m)}
      eligible == {m \in Considered(a, C) : Eligible(a, o, m)}
      forced == a.mode = "on" /\ a.preference # "auto"
      tracks == IF a.format = "unified" THEN {m \in eligible : Constrained(a, m)}
                ELSE DualTracks(a, eligible)
  IN IF a.mode = "off"
     THEN IF a.preference = "auto" THEN NoCache(a) ELSE Refuse(a)
     ELSE IF C = {} \/ a.denied \/ a.preference \notin C \cup {"auto"}
     THEN Unless(a)
     ELSE IF eligible = {} \/ (forced /\ a.preference \notin eligible)
     THEN IF a.prefixEmpty THEN NoCache(a) ELSE Unless(a)
     ELSE IF tracks = {}
     THEN NoCache(a)
     ELSE Plan(a, "planned", tracks,
               "implicit" \in tracks /\ o["implicit"].admission = "trial",
               "stateful" \in tracks /\ o["stateful"].minimum,
               "implicit" \in C)

-----------------------------------------------------------------------------
(* Preparing a mechanism.                                                  *)

\* "short": below the minimum.  "empty": nothing can be cached.  "layout":
\* the physical layout does not allow it.  "cost": too dear, or its cost is
\* unknown in auto mode.  "unmeasured": an assessment failed.  "unsafe": a
\* probe, a claim or a create call went wrong.  "unpriced": the cost under a
\* budget is unknown and a cache was demanded.
Safe     == {"short", "empty", "layout", "cost"}
Failures == {"unmeasured"}

Reasons == Safe \cup Failures \cup {"unsafe", "unpriced", "selected", "unknown"}

Results == [ok : BOOLEAN, raised : BOOLEAN, reason : Reasons,
            action : {"none", "use", "reuse", "create"}, verdict : {"none", "yes", "no"}]

Ready(action, verdict) == [ok |-> TRUE, raised |-> FALSE, reason |-> "selected",
                           action |-> action, verdict |-> verdict]
Refused(raised, reason) == [ok |-> FALSE, raised |-> raised, reason |-> reason,
                            action |-> "none", verdict |-> "none"]
Declined(reason) == Refused(FALSE, reason)
Raised(reason)   == Refused(TRUE, reason)
Unknown == Declined("unknown")

\* _prepare_failure: only a request that may run uncached goes on.
PrepareFailure(reason) == IF plan.uncached THEN Declined(reason) ELSE Raised(reason)

\* _prepare_implicit_binding.  Gemini and the watchdog measure; a trial leaves
\* the threshold to the provider.
ImplicitResults ==
  IF plan.protocol = "gemini" /\ ~world.projected
  THEN {PrepareFailure("layout")}
  ELSE IF plan.trial \/ plan.protocol = "claude" \/ (plan.protocol = "chat" /\ ~plan.watchdog)
  THEN {Ready("use", "none")}
  ELSE {PrepareFailure("unmeasured"),
        IF world.long THEN Ready("use", "none") ELSE Declined("short")}

\* prepare_breakpoint_binding
BreakpointResults == {IF world.layout = "ok" THEN Ready("use", "none") ELSE Declined("empty")}

\* A unified plan drops the alternative that turned out not to be eligible.
Alternative == IF plan.format = "unified" THEN facts["implicit"].ok ELSE plan.alternative

\* Mutant: the evaluator is always told that there is no implicit prefix.
EconomicalAlone == world.beats # "nothing"

\* A creation that pays against an implicit prefix pays against no cache too.
Economical == world.beats = "implicit" \/ (world.beats = "plain" /\ ~Alternative)

\* The creation gate: a budget binds in every mode, economy in auto mode.
Allows == (plan.mode = "on" \/ Economical) /\ world.cap # "over"

\* Without a usable resource, up to the claim of an operation.
GateResults ==
  IF plan.mode = "on" /\ world.cap = "none"
  THEN {Ready("create", "none")}
  ELSE {IF plan.mode = "auto" THEN Declined("cost") ELSE Raised("unpriced"),
        IF plan.minimum /\ ~world.long THEN Declined("short")
        ELSE Ready("create", IF Allows THEN "yes" ELSE "no")}

\* StatefulResourceManager.prepare: cacheability, lookup with a probe, gate.
StatefulResults ==
  CASE world.layout = "empty"  -> {Declined("empty")}
    [] world.layout = "unsafe" -> {IF plan.mode = "on" /\ plan.preference = "stateful"
                                   THEN Raised("layout") ELSE PrepareFailure("layout")}
    [] world.layout = "ok" /\ resource  -> {Ready("reuse", "none"), PrepareFailure("unsafe")}
    [] world.layout = "ok" /\ ~resource -> GateResults

\* Outside an assessment a refused creation is a refusal.
Executed(r) ==
  IF r.verdict # "no" THEN r
  ELSE IF plan.mode = "on" THEN Raised("cost") ELSE Declined("cost")

-----------------------------------------------------------------------------
Tracks == plan.tracks

IsReady(m) ==
  /\ facts[m].ok
  /\ facts[m].action = "create" =>
       facts[m].verdict # "no" /\ (plan.mode = "auto" => facts[m].verdict = "yes")

\* arbitrate_unified_plan: the tracks used together.
Selected ==
  LET ready == {m \in Tracks : IsReady(m)} IN
  IF ready = {} THEN {}
  ELSE IF plan.compatibility = "layered" /\ ready = {"breakpoint", "implicit"} THEN ready
  ELSE IF plan.compatibility = "exclusive" /\ ready = {"stateful", "implicit"}
  THEN IF facts["stateful"].action = "reuse" \/ facts["stateful"].verdict = "yes"
       THEN {"stateful"} ELSE {"implicit"}
  ELSE {Leading(plan.first, ready)}

\* Mutant: a failed assessment is a refusal like any other.
FailsOnBudget ==
  /\ Selected = {} /\ plan.mode = "on"
  /\ \E m \in Tracks : facts[m].action = "create" /\ facts[m].verdict = "no"

\* No track is left, and the request may not go on without one.
ArbitrationFails ==
  /\ Selected = {}
  /\ \/ /\ plan.mode = "on"
        /\ \E m \in Tracks : facts[m].action = "create" /\ facts[m].verdict = "no"
     \/ /\ plan.mode = "on" \/ ~plan.uncached
        /\ \E m \in Tracks : facts[m].reason \in Failures

-----------------------------------------------------------------------------
Undecided == [kind |-> "none", mechs |-> {}, reason |-> "none"]

Bind(mechs)  == outcome' = [kind |-> "bound", mechs |-> mechs, reason |-> "selected"] /\ pc' = "done"
Fail(reason) == outcome' = [kind |-> "failed", mechs |-> {}, reason |-> reason] /\ pc' = "done"
Go(next)     == pc' = next /\ UNCHANGED outcome

Learn(m, r) == facts' = [facts EXCEPT ![m] = r]

PlanningInit ==
  /\ plan = [status |-> "awaited", format |-> "none", tracks |-> {}]
  /\ world = [layout |-> "unknown"]
  /\ resource = FALSE /\ lost = FALSE /\ created = FALSE
  /\ pc = "new" /\ facts = [m \in All |-> Unknown] /\ outcome = Undecided

\* The request is accepted with its plan; one that is refused is no request.
Accept ==
  /\ pc = "new"
  /\ \E a \in Ask, o \in [All -> Offer] :
       /\ \A m \in All \ Mechanisms(a.protocol) : o[m].admission = "absent"
       /\ plan' = Resolve(a, o)
  /\ IF plan'.status = "planned" THEN Go("plan")
     ELSE IF plan'.status = "none" THEN Bind({})
     ELSE Fail("refused")
  /\ UNCHANGED <<world, resource, lost, created, facts>>

\* The history and the materials are bound, and an executor begins.
Begin ==
  /\ pc = "plan"
  /\ world' \in [layout : {"ok", "empty", "unsafe"}, long : BOOLEAN, projected : BOOLEAN,
                 cap : {"none", "kept", "over"}, beats : {"nothing", "plain", "implicit"}]
  /\ Go("assess")
  /\ UNCHANGED <<plan, resource, lost, created, facts>>

\* _prepare_unified: an assessment that failed leaves the track out, any other
\* error fails the request.
Assess(m, results) ==
  /\ pc = "assess" /\ plan.format = "unified"
  /\ m \in Tracks /\ facts[m] = Unknown
  /\ \E r \in results :
       IF (r.raised /\ r.reason \notin Failures) \/ r.reason = "unsafe"
       THEN Fail(r.reason) /\ UNCHANGED facts
       ELSE Learn(m, [r EXCEPT !.raised = FALSE]) /\ Go("assess")
  /\ UNCHANGED <<plan, world, resource, lost, created>>

AssessImplicit == Assess("implicit", ImplicitResults)
AssessBreakpoint ==
  ("implicit" \in Tracks => facts["implicit"] # Unknown) /\ Assess("breakpoint", BreakpointResults)

\* stateful_adapter_unavailable is an answer of the assessment only: the
\* adapters of a process do not change.
AssessStateful ==
  /\ "implicit" \in Tracks => facts["implicit"] # Unknown
  /\ Assess("stateful", StatefulResults \cup {PrepareFailure("unmeasured")})

Arbitrate ==
  /\ pc = "assess" /\ plan.format = "unified"
  /\ \A m \in Tracks : facts[m] # Unknown
  /\ IF ArbitrationFails THEN Fail("no_branch")
     ELSE IF Selected = {"stateful"} THEN Go("select")
     ELSE Bind(Selected)
  /\ UNCHANGED <<plan, world, resource, lost, created, facts>>

\* What becomes of a request whose resource came out as r.
After(r) ==
  IF r.ok THEN Bind({"stateful"}) /\ UNCHANGED facts
  ELSE /\ Learn("stateful", [r EXCEPT !.raised = FALSE])
       /\ IF plan.format = "unified"
          THEN IF \/ r.reason \notin Safe
                  \/ r.raised /\ plan.mode = "on" /\ plan.preference # "auto" /\ r.reason # "short"
               THEN Fail(r.reason) ELSE Go("assess")
          ELSE IF r.raised THEN Fail(r.reason)
          ELSE IF Tracks = {"stateful", "implicit"} /\ (r.reason = "empty" \/ (plan.mode = "auto" /\ r.reason = "cost"))
          THEN Go("fallback") ELSE Bind({})

\* The selected resource, or the first mechanism of a dual plan.
PrepareStateful ==
  /\ \/ pc = "select"
     \/ pc = "assess" /\ plan.format = "dual" /\ Leading(plan.first, Tracks) = "stateful"
  /\ \E r \in StatefulResults :
       IF Executed(r).action = "create" THEN Go("create") /\ UNCHANGED facts
                                        ELSE After(Executed(r))
  /\ UNCHANGED <<plan, world, resource, lost, created>>

\* The claim is refused while the outcome of an earlier call is unknown, but a
\* resource that has appeared meanwhile is used.
CreateStateful ==
  /\ pc = "create"
  /\ \/ /\ lost
        /\ After(IF resource THEN Ready("reuse", "none") ELSE PrepareFailure("unsafe"))
        /\ UNCHANGED <<resource, lost, created>>
     \/ /\ ~lost /\ world.long
        /\ created' = TRUE /\ resource' = TRUE /\ UNCHANGED lost
        /\ After(Ready("reuse", "none"))
     \/ /\ ~lost /\ ~world.long
        /\ After(Declined("short")) /\ UNCHANGED <<resource, lost, created>>
     \/ /\ ~lost
        /\ lost' \in BOOLEAN /\ UNCHANGED <<resource, created>>
        /\ After(PrepareFailure("unsafe"))
  /\ UNCHANGED <<plan, world>>

\* The other mechanisms of a dual plan: its first one, or its fallback.
PrepareOther ==
  /\ \E m \in {"implicit", "breakpoint"} :
       /\ \/ pc = "assess" /\ plan.format = "dual" /\ Leading(plan.first, Tracks) = m
          \/ pc = "fallback" /\ m = "implicit"
       /\ \E r \in IF m = "implicit" THEN ImplicitResults ELSE BreakpointResults :
            /\ Learn(m, [r EXCEPT !.raised = FALSE])
            /\ IF r.raised THEN Fail(r.reason) ELSE Bind(IF r.ok THEN {m} ELSE {})
  /\ UNCHANGED <<plan, world, resource, lost, created>>

\* The executor dies and another takes over the frozen plan.  A create call
\* under way may or may not have arrived.
Restart ==
  /\ pc \in {"assess", "select", "create", "fallback"}
  /\ facts # [m \in All |-> Unknown] \/ pc # "assess"
  /\ facts' = [m \in All |-> Unknown] /\ Go("assess")
  /\ lost' \in (IF pc = "create" THEN {lost, TRUE} ELSE {lost})
  /\ UNCHANGED <<plan, world, resource, created>>

\* Another request of the session creates the resource, or it expires.
Elsewhere == /\ pc \in {"assess", "select", "create"}
          /\ resource' = ~resource
          /\ UNCHANGED <<plan, world, lost, created, pc, facts, outcome>>

RequestIsDone == pc = "done" /\ UNCHANGED planningVars

PlanningNext ==
  \/ Accept \/ Begin \/ AssessImplicit \/ AssessBreakpoint \/ AssessStateful
  \/ Arbitrate \/ PrepareStateful \/ CreateStateful \/ PrepareOther
  \/ Restart \/ Elsewhere \/ RequestIsDone

PlanningSpec == PlanningInit /\ [][PlanningNext]_planningVars

-----------------------------------------------------------------------------
(* Properties.                                                             *)

Planned == plan.status = "planned"
TooLittle == {"short", "empty"}
Uncached == outcome.kind = "bound" /\ outcome.mechs = {} /\ Planned

\* The type invariant; two mechanisms go together only in layers.
PlanningTypeOK ==
  /\ resource \in BOOLEAN /\ lost \in BOOLEAN /\ created \in BOOLEAN
  /\ pc \in {"new", "plan", "assess", "select", "create", "fallback", "done"}
  /\ facts \in [All -> Results]
  /\ outcome.kind \in {"none", "bound", "failed"} /\ outcome.mechs \subseteq All
  /\ Cardinality(outcome.mechs) > 1 => plan.compatibility = "layered"

\* A mechanism the caller forces is used or none is: neither the screen, nor
\* the arbitration, nor a fallback puts another one in its place.
ForcedIsKept ==
  Planned /\ plan.mode = "on" /\ plan.preference # "auto" => outcome.mechs \subseteq {plan.preference}

\* A request that was to be cached runs without one only on known grounds:
\* with the policy's leave, or when each track that was looked at was declined
\* for a safe reason, which for a forced mechanism is that there is too little
\* to cache.  A unified plan looks at every track; a dual plan need not come to
\* its fallback (orchestrator.py:137 lets a resource that is empty or does not pay
\* lead to it, and one found too short not).
UncachedIsAuthorised ==
  Uncached /\ ~plan.uncached =>
    \A m \in Tracks :
      \/ facts[m].reason \in (IF plan.mode = "on" /\ plan.preference # "auto"
                              THEN TooLittle ELSE Safe)
      \/ plan.format = "dual" /\ facts[m] = Unknown
      \/ plan.mode = "auto" /\ facts[m].verdict = "no"

\* A resource is created within the budget whatever the mode, and in auto mode
\* only if it pays against the implicit prefix this executor could have used.
CreationIsJustified ==
  [][created' # created =>
       /\ world.cap # "over"
       /\ plan.mode = "auto" =>
            \/ world.beats = "implicit"
            \/ world.beats = "plain" /\ ~facts["implicit"].ok]_planningVars

\* An implicit prefix is not used beside a resource found usable.
ReuseIsPreferred ==
  outcome.mechs = {"implicit"} => facts["stateful"].action # "reuse"

\* The state properties of a planned request together: its types, the forced
\* mechanism kept, uncached runs on known grounds, and no resource left unused.
PlanningSafe ==
  /\ PlanningTypeOK
  /\ ForcedIsKept
  /\ UncachedIsAuthorised
  /\ ReuseIsPreferred
=============================================================================
