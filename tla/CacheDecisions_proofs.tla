------------------------ MODULE CacheDecisions_proofs ------------------------
(***************************************************************************)
(* Proofs about how a request comes to its cache mechanism, for every      *)
(* policy, offer, protocol, fact and fault, and about what a session pays  *)
(* for its resources, for every policy, growth of the prefix, pause and    *)
(* number of turns.                                                        *)
(***************************************************************************)
EXTENDS CachePlanning, CacheEconomics, TLAPS, FiniteSetTheorems

-----------------------------------------------------------------------------
(* The plan.                                                               *)

Forced == plan.mode = "on" /\ plan.preference # "auto"

\* What a frozen plan guarantees its executors.
Fits(p) ==
  /\ p.mode \in {"auto", "on"} /\ p.format \in {"unified", "dual"}
  /\ p.uncached => p.mode = "auto"
  /\ p.protocol \in {"gemini", "claude", "chat"}
  /\ p.tracks # {} /\ p.tracks \subseteq Mechanisms(p.protocol)
  /\ p.mode = "on" /\ p.preference # "auto" => p.tracks \subseteq {p.preference}
  /\ p.protocol = "gemini" <=> p.compatibility = "exclusive"

\* The mechanism that leads is one of the candidates.
LEMMA LeadingIsOne ==
  ASSUME NEW S, S \subseteq All, S # {}, NEW ahead
  PROVE  Leading(ahead, S) \in S
<1>1. CASE "implicit" \in S /\ (~ahead \/ S = {"implicit"})
  BY <1>1 DEF Leading
<1>2. CASE ~("implicit" \in S /\ (~ahead \/ S = {"implicit"}))
  <2>1. \E m \in S : m # "implicit"
    BY <1>2
  <2> QED BY <1>2, <2>1 DEF Leading
<1> QED BY <1>1, <1>2

\* No protocol has a mechanism of its own making.
LEMMA MechanismsOfAll ==
  \A p \in {"gemini", "claude", "chat"} : Mechanisms(p) \subseteq All
BY DEF Mechanisms, All

\* A plan frozen with eligible tracks fits.
LEMMA PlanFits ==
  ASSUME NEW a \in Ask, NEW S, S # {}, S \subseteq Mechanisms(a.protocol), a.mode # "off",
         a.mode = "on" /\ a.preference # "auto" => S \subseteq {a.preference},
         NEW t, NEW m, NEW i
  PROVE  Fits(Plan(a, "planned", S, t, m, i))
<1>1. a.protocol \in {"gemini", "claude", "chat"} /\ a.format \in {"unified", "dual"} /\ a.mode \in {"auto", "on"}
  BY ProtocolAssumption DEF Ask
<1> QED BY <1>1 DEF Fits, Plan

\* The resolver freezes a plan that fits, or none.
LEMMA ResolveFits ==
  ASSUME NEW a \in Ask, NEW o \in [All -> Offer]
  PROVE  /\ Resolve(a, o).status \in {"planned", "none", "refused"}
         /\ Resolve(a, o).status = "planned" => Fits(Resolve(a, o))
<1> DEFINE C == {m \in Mechanisms(a.protocol) : Admitted(a, o, m)}
           eligible == {m \in Considered(a, C) : Eligible(a, o, m)}
           forced == a.mode = "on" /\ a.preference # "auto"
           tracks == IF a.format = "unified" THEN {m \in eligible : Constrained(a, m)}
                     ELSE DualTracks(a, eligible)
           planned == Plan(a, "planned", tracks,
                           "implicit" \in tracks /\ o["implicit"].admission = "trial",
                           "stateful" \in tracks /\ o["stateful"].minimum,
                           "implicit" \in C)
<1>1. \A t, m, i : NoCache(a).status = "none" /\ Refuse(a).status = "refused" /\ Unless(a).status \in {"none", "refused"}
  BY DEF NoCache, Refuse, Unless, Plan
<1>2. planned.status = "planned"
  BY DEF Plan
<1>3. \/ Resolve(a, o) \in {NoCache(a), Refuse(a), Unless(a)}
      \/ /\ Resolve(a, o) = planned
         /\ a.mode # "off" /\ a.preference \in C \cup {"auto"}
         /\ eligible # {} /\ (forced => a.preference \in eligible) /\ tracks # {}
  BY Zenon DEF Resolve
<1>4. ASSUME a.mode # "off", a.preference \in C \cup {"auto"}, eligible # {}, tracks # {}
      PROVE  Fits(planned)
  <2>1. a.protocol \in {"gemini", "claude", "chat"}
    BY ProtocolAssumption DEF Ask
  <2>2. C \subseteq Mechanisms(a.protocol) /\ C \subseteq All
    BY <2>1, MechanismsOfAll
  <2>3. eligible \subseteq C
    BY <1>4 DEF Considered
  <2>4. tracks \subseteq eligible
    <3>1. Leading(ControlledFirst(a), eligible) \in eligible
      BY <1>4, <2>2, <2>3, LeadingIsOne
    <3> QED BY <3>1 DEF DualTracks
  <2>5. forced => tracks \subseteq {a.preference}
    <3>1. a.format = "unified" /\ forced => tracks \subseteq {a.preference}
      BY DEF Constrained
    <3>2. a.format = "dual" /\ forced => eligible \subseteq {a.preference}
      BY DEF Considered
    <3>3. a.format \in {"unified", "dual"}
      BY ProtocolAssumption DEF Ask
    <3> QED BY <2>4, <3>1, <3>2, <3>3
  <2> HIDE DEF tracks, C, eligible
  <2> QED BY <1>4, <2>2, <2>3, <2>4, <2>5, PlanFits
<1> HIDE DEF planned
<1> QED BY <1>1, <1>2, <1>3, <1>4

-----------------------------------------------------------------------------
(* The invariant.                                                          *)

Worlds == [layout : {"ok", "empty", "unsafe"}, long : BOOLEAN, projected : BOOLEAN,
           cap : {"none", "kept", "over"}, beats : {"nothing", "plain", "implicit"}]

\* The grounds on which a request may go on uncached without the policy's leave.
Grounds == IF Forced THEN TooLittle ELSE Safe

\* What every way to prepare a mechanism answers.
Answer(r) ==
  /\ r \in Results /\ r.reason # "unknown"
  /\ ~r.ok => r.action = "none" /\ r.verdict = "none"
  /\ r.action = "create" /\ plan.mode = "auto" => r.verdict \in {"yes", "no"}
  /\ ~r.ok /\ ~r.raised /\ ~plan.uncached => r.reason \in Grounds

\* An assessment of a unified plan may also have failed.
KnownGrounds == IF plan.format = "unified" THEN Grounds \cup Failures ELSE Grounds

\* What an executor knows of a planned track.  A dual plan never learns of a
\* resource that is usable, it uses it.
Known(m, r) ==
  /\ m \in Tracks /\ r \in Results
  /\ ~r.ok => r.action = "none" /\ r.verdict = "none"
  /\ r.action = "create" /\ plan.mode = "auto" => r.verdict \in {"yes", "no"}
  /\ ~r.ok /\ ~plan.uncached => r.reason \in KnownGrounds
  /\ plan.format = "dual" /\ m = "stateful" => ~r.ok

FactsOK ==
  /\ facts \in [All -> Results]
  /\ outcome.kind # "failed" => \A m \in All : facts[m] = Unknown \/ Known(m, facts[m])

\* What was checked before a claim, and holds until the provider is called.
Justified ==
  /\ world.cap # "over"
  /\ plan.mode = "auto" =>
       \/ world.beats = "implicit"
       \/ world.beats = "plain" /\ ~facts["implicit"].ok

Working == {"assess", "select", "create", "fallback"}

StageOK ==
  /\ pc \in Working \cup {"new", "plan", "done"}
  /\ pc = "new" => plan.status = "awaited" /\ plan.tracks = {}
  /\ pc = "done" => plan.status # "awaited"
  /\ plan.status \in {"awaited", "planned", "none", "refused"}
  /\ pc \in Working \cup {"plan"} => Planned
  /\ Planned => Fits(plan)
  /\ pc \in Working => world \in Worlds
  /\ pc \in {"select", "create"} => "stateful" \in Tracks
  /\ pc = "fallback" => Tracks = {"stateful", "implicit"} /\ plan.format = "dual"
  /\ pc = "create" => Justified
  /\ pc \in {"new", "plan"} => facts = [m \in All |-> Unknown]
  /\ pc # "done" => outcome = Undecided
  /\ pc # "done" /\ plan.format = "dual" =>
       facts["implicit"] = Unknown /\ facts["breakpoint"] = Unknown

\* What is done is one planned mechanism, the layers together, or none.
OutcomeOK ==
  /\ outcome.kind \in {"none", "bound", "failed"}
  /\ \/ outcome.mechs = {}
     \/ Planned /\ \E m \in Tracks : outcome.mechs = {m}
     \/ Planned /\ outcome.mechs \subseteq Tracks /\ plan.compatibility = "layered"
        /\ outcome.mechs = {"breakpoint", "implicit"}

PlanningInv ==
  /\ resource \in BOOLEAN /\ lost \in BOOLEAN /\ created \in BOOLEAN
  /\ FactsOK /\ StageOK /\ OutcomeOK
  /\ UncachedIsAuthorised /\ ReuseIsPreferred

USE DEF Refused

LEMMA UnknownIsResult == Unknown \in Results
BY DEF Unknown, Declined, Results, Reasons

LEMMA PlanningInitInv == PlanningInit => PlanningInv
<1> SUFFICES ASSUME PlanningInit PROVE PlanningInv
  OBVIOUS
<1>1. resource \in BOOLEAN /\ lost \in BOOLEAN /\ created \in BOOLEAN
  BY Zenon DEF PlanningInit
<1>2. FactsOK
  BY UnknownIsResult DEF PlanningInit, FactsOK, Undecided
<1>3. StageOK
  BY DEF PlanningInit, StageOK, Planned, Working, All
<1>4. OutcomeOK /\ UncachedIsAuthorised /\ ReuseIsPreferred
  BY DEF PlanningInit, OutcomeOK, UncachedIsAuthorised, Uncached, ReuseIsPreferred, Undecided, All, Unknown, Declined
<1> QED BY <1>1, <1>2, <1>3, <1>4 DEF PlanningInv

-----------------------------------------------------------------------------
(* Answers.                                                                *)

\* Every refusal and every readiness a preparation ends with is an answer.
LEMMA SimpleAnswers ==
  /\ \A v \in {"yes", "no"} : Answer(Ready("create", v))
  /\ Answer(Ready("use", "none")) /\ Answer(Ready("reuse", "none"))
  /\ plan.mode = "on" => Answer(Ready("create", "none"))
  /\ Answer(Declined("short")) /\ Answer(Declined("empty"))
  /\ plan.mode = "auto" => Answer(Declined("cost"))
  /\ \A reason \in {"cost", "unpriced", "layout", "unmeasured", "unsafe"} :
       /\ Answer(Raised(reason))
       /\ Answer(PrepareFailure(reason))
<1> USE DEF Answer, Results, Reasons, Safe, Failures
<1>1. \A v \in {"yes", "no"} : Answer(Ready("create", v))
  BY DEF Ready
<1>2. Answer(Ready("use", "none")) /\ Answer(Ready("reuse", "none"))
  BY DEF Ready
<1>3. plan.mode = "on" => Answer(Ready("create", "none"))
  BY DEF Ready
<1>4. Answer(Declined("short")) /\ Answer(Declined("empty"))
  BY DEF Declined, Grounds, Safe, TooLittle
<1>5. plan.mode = "auto" => Answer(Declined("cost"))
  BY DEF Declined, Grounds, Forced, Safe
<1>6. ASSUME NEW reason \in {"cost", "unpriced", "layout", "unmeasured", "unsafe"}
      PROVE  Answer(Raised(reason)) /\ Answer(PrepareFailure(reason))
  <2>2. Answer(Raised(reason))
    BY DEF Raised
  <2>3. plan.uncached => Answer(Declined(reason))
    BY DEF Declined
  <2> QED BY <2>2, <2>3 DEF PrepareFailure
<1> QED BY <1>1, <1>2, <1>3, <1>4, <1>5, <1>6

\* So is what each mechanism answers, an assessed or executed resource included.
LEMMA ImplicitAnswers == \A r \in ImplicitResults : Answer(r)
BY SimpleAnswers DEF ImplicitResults

LEMMA BreakpointAnswers == \A r \in BreakpointResults : Answer(r)
BY SimpleAnswers DEF BreakpointResults

LEMMA GateAnswers == plan.mode \in {"auto", "on"} => \A r \in GateResults : Answer(r)
BY SimpleAnswers DEF GateResults

LEMMA StatefulAnswers ==
  ASSUME plan.mode \in {"auto", "on"}, world \in Worlds, resource \in BOOLEAN
  PROVE  \A r \in StatefulResults : Answer(r) /\ Answer(Executed(r))
<1>1. \A r \in StatefulResults : Answer(r)
  <2>1. world.layout \in {"ok", "empty", "unsafe"}
    BY DEF Worlds
  <2> QED BY <2>1, SimpleAnswers, GateAnswers DEF StatefulResults
<1>2. \A r : Answer(r) => Answer(Executed(r))
  BY SimpleAnswers DEF Executed
<1> QED BY <1>1, <1>2

\* A creation that goes ahead is within the budget and pays.
LEMMA CreationsPay ==
  ASSUME Planned, Fits(plan), world \in Worlds, resource \in BOOLEAN, FactsOK,
         plan.format = "dual" => facts["implicit"] = Unknown,
         NEW r \in StatefulResults, Executed(r).action = "create"
  PROVE  Justified
<1>1. r.verdict # "no" /\ r.action = "create"
  BY DEF Executed, Declined, Raised
<1>2. r \in GateResults
  BY <1>1 DEF StatefulResults, Worlds, Declined, Raised, PrepareFailure, Ready
<1>3. CASE plan.mode = "on" /\ world.cap = "none"
  BY <1>3 DEF Justified
<1>4. CASE ~(plan.mode = "on" /\ world.cap = "none")
  <2>1. Allows
    BY <1>1, <1>2, <1>4 DEF GateResults, Declined, Raised, Ready
  <2>2. plan.format = "dual" => ~facts["implicit"].ok
    BY DEF Unknown, Declined
  <2>3. ~Alternative => ~facts["implicit"].ok
    BY <2>2 DEF Alternative, Fits
  <2> QED BY <2>1, <2>3 DEF Allows, Economical, Justified
<1> QED BY <1>3, <1>4

-----------------------------------------------------------------------------
(* The steps.                                                              *)

\* What depends on the plan alone does not change with it.
LEMMA PlanFixed ==
  ASSUME plan' = plan
  PROVE  /\ Planned' = Planned /\ Tracks' = Tracks /\ Grounds' = Grounds
         /\ \A m, r : Known(m, r)' <=> Known(m, r)
BY DEF Planned, Tracks, Grounds, KnownGrounds, Forced, Known

\* An answer that does not end the request is known from then on.
LEMMA AnswerIsKnown ==
  ASSUME NEW m, m \in Tracks, NEW r, Answer(r), ~r.ok \/ plan.format # "dual" \/ m # "stateful",
         r.raised => r.reason \in KnownGrounds
  PROVE  Known(m, [r EXCEPT !.raised = FALSE])
<1> DEFINE q == [r EXCEPT !.raised = FALSE]
<1>1. r \in Results
  BY DEF Answer
<1>2. /\ q \in Results /\ q.ok = r.ok /\ q.reason = r.reason /\ q.action = r.action /\ q.verdict = r.verdict
  BY <1>1 DEF Results
<1> HIDE DEF q
<1>3. Known(m, q)
  BY <1>2 DEF Answer, Known, KnownGrounds
<1> QED BY <1>3 DEF q

\* Learning of one mechanism forgets nothing of the others.
LEMMA LearnKeeps ==
  ASSUME FactsOK, outcome.kind # "failed", plan' = plan, NEW m \in All, NEW r, Known(m, r), Learn(m, r)
  PROVE  FactsOK'
<1>1. r \in Results
  BY DEF Known
<1>2. facts' \in [All -> Results] /\ facts'[m] = r /\ \A n \in All \ {m} : facts'[n] = facts[n]
  BY <1>1 DEF FactsOK, Learn
<1>3. \A n \in All : facts'[n] = Unknown \/ Known(n, facts'[n])
  BY <1>2 DEF FactsOK
<1>4. \A n \in All : facts'[n] = Unknown \/ Known(n, facts[n])'
  BY <1>3 DEF Known, Tracks, Grounds, KnownGrounds, Forced
<1> QED BY <1>2, <1>4 DEF FactsOK, Unknown, Declined

LEMMA FactsStay == FactsOK /\ outcome.kind # "failed" /\ plan' = plan /\ facts' = facts => FactsOK'
BY DEF FactsOK, Known, Tracks, Grounds, KnownGrounds, Forced, Unknown, Declined

\* Before the end there is no outcome.
LEMMA NoOutcome == outcome = Undecided => OutcomeOK /\ UncachedIsAuthorised /\ ReuseIsPreferred
BY DEF Undecided, OutcomeOK, UncachedIsAuthorised, Uncached, ReuseIsPreferred

Bits == resource \in BOOLEAN /\ lost \in BOOLEAN /\ created \in BOOLEAN

\* Going on: the next stage has its own obligations.
LEMMA GoKeeps ==
  ASSUME PlanningInv, pc # "done", plan' = plan, Bits', FactsOK', outcome' = outcome, StageOK', pc' # "done"
  PROVE  PlanningInv'
<1>1. outcome = Undecided
  BY DEF PlanningInv, StageOK
<1>2. (outcome = Undecided)'
  BY <1>1 DEF Undecided
<1> QED BY <1>2, NoOutcome, PTL DEF PlanningInv, Bits

\* A request that is done has no further obligations than its outcome.
LEMMA EndKeeps ==
  ASSUME PlanningInv, Planned, plan' = plan, Bits', FactsOK', pc' = "done",
         OutcomeOK', UncachedIsAuthorised', ReuseIsPreferred'
  PROVE  PlanningInv'
<1>1. StageOK'
  BY PlanFixed DEF PlanningInv, StageOK, Working, Planned, Fits
<1> QED BY <1>1 DEF PlanningInv, Bits

\* A failed request is bound to nothing.
LEMMA FailKeeps ==
  ASSUME PlanningInv, Planned, plan' = plan, Bits', facts' \in [All -> Results],
         NEW reason, Fail(reason)
  PROVE  PlanningInv'
<1>1. outcome'.kind = "failed" /\ outcome'.mechs = {} /\ pc' = "done"
  BY DEF Fail
<1>2. OutcomeOK' /\ UncachedIsAuthorised' /\ ReuseIsPreferred'
  BY <1>1 DEF OutcomeOK, UncachedIsAuthorised, Uncached, ReuseIsPreferred
<1>3. FactsOK'
  BY <1>1 DEF FactsOK
<1> QED BY <1>1, <1>2, <1>3, EndKeeps

\* A planned track is used.
LEMMA UseKeeps ==
  ASSUME PlanningInv, Planned, plan' = plan, Bits', FactsOK', NEW m \in Tracks, Bind({m}),
         m = "implicit" => facts'["stateful"].action # "reuse"
  PROVE  PlanningInv'
<1>1. outcome'.kind = "bound" /\ outcome'.mechs = {m} /\ pc' = "done"
  BY DEF Bind
<1>2. OutcomeOK'
  BY <1>1, PlanFixed DEF OutcomeOK
<1>3. UncachedIsAuthorised' /\ ReuseIsPreferred'
  BY <1>1 DEF UncachedIsAuthorised, Uncached, ReuseIsPreferred
<1> QED BY <1>1, <1>2, <1>3, EndKeeps

\* The request goes on uncached, with every track declined on good grounds.
LEMMA UncachedKeeps ==
  ASSUME PlanningInv, Planned, plan' = plan, Bits', FactsOK', Bind({}),
         ~plan.uncached => \A m \in Tracks :
           \/ facts'[m].reason \in Grounds
           \/ plan.format = "dual" /\ facts'[m] = Unknown
           \/ plan.mode = "auto" /\ facts'[m].verdict = "no"
  PROVE  PlanningInv'
<1>1. outcome'.kind = "bound" /\ outcome'.mechs = {} /\ pc' = "done"
  BY DEF Bind
<1>2. OutcomeOK'
  BY <1>1 DEF OutcomeOK
<1>3. UncachedIsAuthorised'
  BY PlanFixed DEF UncachedIsAuthorised, Grounds, Forced, Unknown, Declined
<1>4. ReuseIsPreferred'
  BY <1>1 DEF ReuseIsPreferred
<1> QED BY <1>1, <1>2, <1>3, <1>4, EndKeeps

\* What becomes of a request whose resource came out as r.
LEMMA AfterKeeps ==
  ASSUME PlanningInv, pc \in {"assess", "select", "create"}, "stateful" \in Tracks,
         NEW r, Answer(r), After(r), plan' = plan, world' = world, Bits'
  PROVE  PlanningInv'
<1> USE DEF PlanningInv
<1>1. Planned /\ Fits(plan) /\ outcome.kind # "failed" /\ outcome = Undecided /\ r \in Results /\ "stateful" \in All
  BY DEF StageOK, Working, Undecided, Answer, All
<1>2. CASE r.ok
  <2>1. Bind({"stateful"}) /\ facts' = facts
    BY <1>2 DEF After
  <2>2. FactsOK'
    BY <1>1, <2>1, FactsStay
  <2> QED BY <1>1, <2>1, <2>2, UseKeeps
<1>3. CASE ~r.ok
  <2> DEFINE q == [r EXCEPT !.raised = FALSE]
  <2>1. q \in Results /\ q.reason = r.reason /\ q.ok = r.ok
    BY <1>1 DEF Results
  <2>2. Learn("stateful", q)
    BY <1>3 DEF After
  <2> HIDE DEF q
  <2>3. facts' \in [All -> Results] /\ facts'["stateful"] = q
    BY <1>1, <2>1, <2>2 DEF Learn, FactsOK
  <2>4. CASE Fail(r.reason)
    BY <1>1, <2>3, <2>4, FailKeeps
  <2>5. CASE plan.format = "unified" /\ Go("assess")
              /\ r.reason \in Safe
              /\ ~(r.raised /\ plan.mode = "on" /\ plan.preference # "auto" /\ r.reason # "short")
    <3>1. r.raised => r.reason \in KnownGrounds
      BY <2>5 DEF Grounds, KnownGrounds, Forced, TooLittle
    <3>2. FactsOK'
      BY <1>1, <1>3, <2>2, <3>1, AnswerIsKnown, LearnKeeps DEF q
    <3>3. StageOK'
      BY <1>1, <2>5, PlanFixed DEF StageOK, Go, Working, Planned, Fits
    <3> QED BY <2>5, <3>2, <3>3, GoKeeps DEF Go
  <2>6. CASE plan.format = "dual" /\ ~r.raised
    <3>1. FactsOK'
      BY <1>1, <1>3, <2>2, <2>6, AnswerIsKnown, LearnKeeps DEF q
    <3>2. CASE Go("fallback") /\ Tracks = {"stateful", "implicit"}
      <4>1. facts'["implicit"] = Unknown /\ facts'["breakpoint"] = Unknown
        BY <2>2, <2>6 DEF Learn, StageOK, FactsOK, All
      <4>2. StageOK'
        BY <1>1, <2>6, <3>2, <4>1, PlanFixed DEF StageOK, Go, Working, Planned, Fits, Unknown, Declined
      <4> QED BY <3>1, <3>2, <4>2, GoKeeps DEF Go
    <3>3. CASE Bind({})
      <4>1. ~plan.uncached => r.reason \in Grounds
        BY <1>3, <2>6 DEF Answer
      <4>2. \A m \in Tracks \ {"stateful"} : facts'[m] = Unknown
        BY <1>1, <2>2, <2>6 DEF Learn, StageOK, FactsOK, All, Fits, Mechanisms, Tracks
      <4> QED BY <1>1, <2>1, <2>3, <2>6, <3>1, <3>3, <4>1, <4>2, UncachedKeeps
    <3> QED BY <1>3, <2>6, <3>2, <3>3 DEF After
  <2> QED BY <1>1, <1>3, <2>4, <2>5, <2>6 DEF After, Fits
<1> QED BY <1>1, <1>2, <1>3 DEF Results

\* A request is accepted with the plan the resolver froze.
LEMMA AcceptKeeps == ASSUME PlanningInv, Accept PROVE PlanningInv'
<1> USE DEF PlanningInv
<1>1. PICK a \in Ask, o \in [All -> Offer] : plan' = Resolve(a, o)
  BY DEF Accept
<1>2. plan'.status \in {"planned", "none", "refused"} /\ (plan'.status = "planned" => Fits(plan'))
  BY <1>1, ResolveFits
<1>3. Bits' /\ outcome = Undecided /\ facts = [m \in All |-> Unknown] /\ facts' = facts
  BY DEF Bits, Accept, StageOK
<1>4. FactsOK'
  BY <1>3, UnknownIsResult DEF FactsOK, Unknown, Declined
<1>5. CASE plan'.status = "planned"
  <2>1. outcome' = Undecided /\ pc' = "plan"
    BY <1>3, <1>5 DEF Accept, Go
  <2>2. StageOK'
    BY <1>2, <1>3, <1>5, <2>1 DEF StageOK, Working, Planned, Fits, Undecided, Unknown, Declined, All
  <2>3. (outcome = Undecided)'
    BY <2>1 DEF Undecided
  <2>4. OutcomeOK' /\ UncachedIsAuthorised' /\ ReuseIsPreferred'
    BY <2>3, NoOutcome, PTL
  <2> QED BY <1>3, <1>4, <2>2, <2>4 DEF Bits
<1>6. CASE plan'.status # "planned"
  <2>1. pc' = "done" /\ outcome'.kind \in {"bound", "failed"} /\ outcome'.mechs = {}
    BY <1>2, <1>6 DEF Accept, Bind, Fail
  <2>2. StageOK'
    BY <1>2, <1>6, <2>1 DEF StageOK, Working, Planned
  <2>3. OutcomeOK' /\ UncachedIsAuthorised' /\ ReuseIsPreferred'
    BY <1>6, <2>1 DEF OutcomeOK, UncachedIsAuthorised, Uncached, Planned, ReuseIsPreferred
  <2> QED BY <1>3, <1>4, <2>2, <2>3 DEF Bits
<1> QED BY <1>5, <1>6

LEMMA BeginKeeps == ASSUME PlanningInv, Begin PROVE PlanningInv'
<1> USE DEF PlanningInv
<1>1. outcome = Undecided /\ outcome.kind # "failed" /\ Bits'
  BY DEF Begin, StageOK, Undecided, Bits
<1>2. FactsOK'
  BY <1>1, FactsStay DEF Begin
<1>3. StageOK'
  BY PlanFixed DEF Begin, Go, StageOK, Working, Worlds, Planned, Fits
<1> QED BY <1>1, <1>2, <1>3, GoKeeps DEF Begin, Go

\* An assessment learns of one track or fails the request.
LEMMA AssessKeeps ==
  ASSUME PlanningInv, NEW m, m \in All, NEW results, \A r \in results : Answer(r), Assess(m, results)
  PROVE  PlanningInv'
<1> USE DEF PlanningInv
<1>1. Planned /\ plan.format = "unified" /\ m \in Tracks /\ pc = "assess" /\ plan' = plan
      /\ outcome = Undecided /\ outcome.kind # "failed" /\ Bits'
  BY DEF Assess, StageOK, Working, Bits, Undecided
<1>2. PICK r \in results :
        IF (r.raised /\ r.reason \notin Failures) \/ r.reason = "unsafe"
        THEN Fail(r.reason) /\ UNCHANGED facts
        ELSE Learn(m, [r EXCEPT !.raised = FALSE]) /\ Go("assess")
  BY DEF Assess
<1>3. CASE Fail(r.reason) /\ UNCHANGED facts
  BY <1>1, <1>3, FailKeeps DEF FactsOK
<1>4. CASE /\ r.raised => r.reason \in Failures
           /\ Learn(m, [r EXCEPT !.raised = FALSE]) /\ Go("assess")
  <2>1. FactsOK'
    BY <1>1, <1>4, AnswerIsKnown, LearnKeeps DEF KnownGrounds
  <2>2. StageOK'
    BY <1>1, <1>4, PlanFixed DEF StageOK, Go, Working, Planned, Fits, Assess
  <2> QED BY <1>1, <1>4, <2>1, <2>2, GoKeeps DEF Go
<1> QED BY <1>2, <1>3, <1>4

\* What arbitration selects: a ready track, or both layers, and a resource
\* found usable before an implicit prefix.
LEMMA SelectionIsReady ==
  ASSUME PlanningInv, pc = "assess", plan.format = "unified", Selected # {}
  PROVE  /\ \/ \E m \in Tracks : Selected = {m}
            \/ plan.compatibility = "layered" /\ Selected = {"breakpoint", "implicit"} /\ Selected \subseteq Tracks
         /\ Selected = {"implicit"} => facts["stateful"].action # "reuse"
<1> USE DEF PlanningInv
<1> DEFINE ready == {m \in Tracks : IsReady(m)}
<1>1. Fits(plan) /\ ready # {} /\ ready \subseteq Tracks /\ ready \subseteq All
  BY MechanismsOfAll DEF StageOK, Working, Selected, Fits, Tracks
<1>2. Leading(plan.first, ready) \in ready
  BY <1>1, LeadingIsOne
<1>3. \/ \E m \in Tracks : Selected = {m}
      \/ plan.compatibility = "layered" /\ Selected = {"breakpoint", "implicit"} /\ Selected \subseteq Tracks
  BY <1>1, <1>2 DEF Selected
<1>4. ASSUME facts["stateful"].action = "reuse" PROVE Selected # {"implicit"}
  <2>1. Known("stateful", facts["stateful"])
    BY <1>4 DEF FactsOK, StageOK, Undecided, Unknown, Declined, All
  <2>2. "stateful" \in ready
    BY <1>4, <2>1 DEF Known, IsReady
  <2>3. plan.protocol = "gemini" /\ plan.compatibility = "exclusive" /\ Tracks \subseteq {"stateful", "implicit"}
    BY <1>1, <2>1 DEF Fits, Mechanisms, Known, Tracks
  <2>4. CASE "implicit" \in ready
    <3>1. ready = {"stateful", "implicit"}
      BY <1>1, <2>2, <2>3, <2>4
    <3> QED BY <1>4, <2>3, <3>1 DEF Selected
  <2>5. CASE "implicit" \notin ready
    BY <1>1, <1>2, <2>2, <2>3, <2>5 DEF Selected
  <2> QED BY <2>4, <2>5
<1> QED BY <1>3, <1>4

\* Arbitration fails the request, selects, or finds every track declined.
LEMMA NothingIsReady ==
  ASSUME PlanningInv, pc = "assess", plan.format = "unified", \A m \in Tracks : facts[m] # Unknown,
         Selected = {}, ~ArbitrationFails, ~plan.uncached, NEW m \in Tracks
  PROVE  facts[m].reason \in Grounds \/ (plan.mode = "auto" /\ facts[m].verdict = "no")
<1> USE DEF PlanningInv
<1>1. Fits(plan) /\ Tracks \subseteq All
  BY MechanismsOfAll DEF StageOK, Working, Fits, Tracks
<1>2. \A n \in Tracks : Leading(plan.first, {k \in Tracks : IsReady(k)}) \in {k \in Tracks : IsReady(k)} \/ ~IsReady(n)
  BY <1>1, LeadingIsOne
<1>3. ~IsReady(m)
  BY <1>2 DEF Selected
<1>4. Known(m, facts[m])
  BY <1>1 DEF FactsOK, StageOK, Undecided
<1>5. CASE ~facts[m].ok
  BY <1>4, <1>5 DEF Known, KnownGrounds, ArbitrationFails
<1>6. CASE facts[m].action = "create" /\ (facts[m].verdict = "no" \/ (plan.mode = "auto" /\ facts[m].verdict # "yes"))
  BY <1>1, <1>4, <1>6 DEF Known, ArbitrationFails, Fits
<1> QED BY <1>3, <1>5, <1>6 DEF IsReady

LEMMA ArbitrateKeeps == ASSUME PlanningInv, Arbitrate PROVE PlanningInv'
<1> USE DEF PlanningInv
<1>1. /\ Planned /\ plan' = plan /\ facts' = facts /\ world' = world /\ Bits'
      /\ outcome = Undecided /\ outcome.kind # "failed" /\ pc = "assess"
  BY DEF Arbitrate, StageOK, Working, Bits, Undecided
<1>2. FactsOK'
  BY <1>1, FactsStay
<1>3. CASE ArbitrationFails
  BY <1>1, <1>3, FailKeeps DEF Arbitrate, FactsOK
<1>4. CASE ~ArbitrationFails /\ Selected = {"stateful"}
  <2>1. "stateful" \in Tracks
    BY <1>1, <1>4, SelectionIsReady DEF Arbitrate
  <2>2. Go("select")
    BY <1>4 DEF Arbitrate
  <2>3. StageOK'
    BY <1>1, <2>1, <2>2, PlanFixed DEF StageOK, Go, Working, Planned, Fits, Arbitrate
  <2> QED BY <1>1, <1>2, <2>2, <2>3, GoKeeps DEF Go
<1>5. CASE ~ArbitrationFails /\ Selected # {"stateful"}
  <2>1. Bind(Selected) /\ plan.format = "unified" /\ \A m \in Tracks : facts[m] # Unknown
    BY <1>5 DEF Arbitrate
  <2>2. CASE Selected = {}
    <3>1. ~plan.uncached => \A m \in Tracks : facts[m].reason \in Grounds \/ (plan.mode = "auto" /\ facts[m].verdict = "no")
      BY <1>1, <1>5, <2>1, <2>2, NothingIsReady
    <3> QED BY <1>1, <1>2, <2>1, <2>2, <3>1, UncachedKeeps
  <2>3. ASSUME NEW m \in Tracks, Selected = {m} PROVE PlanningInv'
    BY <1>1, <1>2, <2>1, <2>3, SelectionIsReady, UseKeeps
  <2>4. CASE plan.compatibility = "layered" /\ Selected = {"breakpoint", "implicit"} /\ Selected \subseteq Tracks
    <3>1. pc' = "done" /\ outcome'.kind = "bound" /\ outcome'.mechs = {"breakpoint", "implicit"}
      BY <2>1, <2>4 DEF Bind
    <3>2. OutcomeOK'
      BY <1>1, <2>4, <3>1, PlanFixed DEF OutcomeOK
    <3>3. UncachedIsAuthorised' /\ ReuseIsPreferred'
      BY <3>1 DEF UncachedIsAuthorised, Uncached, ReuseIsPreferred
    <3> QED BY <1>1, <1>2, <3>1, <3>2, <3>3, EndKeeps
  <2> QED BY <1>1, <2>1, <2>2, <2>3, <2>4, SelectionIsReady
<1> QED BY <1>3, <1>4, <1>5

\* The gate is passed with the facts that will stand when the provider is called.
LEMMA PrepareStatefulKeeps == ASSUME PlanningInv, PrepareStateful PROVE PlanningInv'
<1> USE DEF PlanningInv
<1>1. pc \in {"assess", "select"} /\ plan' = plan /\ world' = world /\ Bits' /\ created' = created
  BY DEF PrepareStateful, Bits
<1>2. Planned /\ Fits(plan) /\ world \in Worlds /\ outcome = Undecided /\ outcome.kind # "failed"
  BY <1>1 DEF StageOK, Working, Undecided
<1>3. "stateful" \in Tracks
  <2>1. CASE pc = "select"
    BY <2>1 DEF StageOK
  <2>2. CASE Leading(plan.first, Tracks) = "stateful"
    BY <1>2, <2>2, LeadingIsOne, MechanismsOfAll DEF Fits, Tracks
  <2> QED BY <2>1, <2>2 DEF PrepareStateful
<1>4. PICK r \in StatefulResults :
        IF Executed(r).action = "create" THEN Go("create") /\ UNCHANGED facts ELSE After(Executed(r))
  BY DEF PrepareStateful
<1>5. Answer(Executed(r))
  BY <1>2, StatefulAnswers DEF Fits
<1>6. CASE Executed(r).action = "create"
  <2>1. Justified
    BY <1>1, <1>2, <1>6, CreationsPay DEF StageOK
  <2>2. Go("create") /\ facts' = facts
    BY <1>4, <1>6
  <2>3. FactsOK' /\ Justified'
    BY <1>1, <1>2, <2>1, <2>2, FactsStay DEF Justified
  <2>4. StageOK'
    BY <1>1, <1>2, <1>3, <2>2, <2>3, PlanFixed DEF StageOK, Go, Working, Planned, Fits, Unknown, Declined
  <2> QED BY <1>1, <2>2, <2>3, <2>4, GoKeeps DEF Go
<1>7. CASE Executed(r).action # "create"
  BY <1>1, <1>3, <1>4, <1>5, <1>7, AfterKeeps
<1> QED BY <1>6, <1>7

\* However the create call ends, the request goes on with a known answer.
LEMMA CreateStatefulKeeps == ASSUME PlanningInv, CreateStateful PROVE PlanningInv'
<1> USE DEF PlanningInv
<1>1. pc = "create" /\ plan' = plan /\ world' = world /\ "stateful" \in Tracks
  BY DEF CreateStateful, StageOK
<1>2. Bits'
  <2>1. created' \in BOOLEAN
    BY Zenon DEF CreateStateful
  <2>2. resource' \in BOOLEAN
    BY Zenon DEF CreateStateful
  <2>3. lost' \in BOOLEAN
    BY Zenon DEF CreateStateful
  <2> QED BY <2>1, <2>2, <2>3 DEF Bits
<1>3. \E r : Answer(r) /\ After(r)
  BY SimpleAnswers DEF CreateStateful
<1> QED BY <1>1, <1>2, <1>3, AfterKeeps

\* The fallback of a dual plan knows why its first mechanism was declined.
LEMMA PrepareOtherKeeps == ASSUME PlanningInv, PrepareOther PROVE PlanningInv'
<1> USE DEF PlanningInv
<1>1. PICK m \in {"implicit", "breakpoint"} :
        /\ \/ pc = "assess" /\ plan.format = "dual" /\ Leading(plan.first, Tracks) = m
           \/ pc = "fallback" /\ m = "implicit"
        /\ \E r \in IF m = "implicit" THEN ImplicitResults ELSE BreakpointResults :
             /\ Learn(m, [r EXCEPT !.raised = FALSE])
             /\ IF r.raised THEN Fail(r.reason) ELSE Bind(IF r.ok THEN {m} ELSE {})
  BY DEF PrepareOther
<1>2. PICK r : /\ Answer(r) /\ Learn(m, [r EXCEPT !.raised = FALSE])
               /\ IF r.raised THEN Fail(r.reason) ELSE Bind(IF r.ok THEN {m} ELSE {})
  BY <1>1, ImplicitAnswers, BreakpointAnswers
<1>3. /\ pc \in Working /\ plan.format = "dual" /\ Planned /\ Fits(plan) /\ plan' = plan /\ Bits'
      /\ outcome.kind # "failed" /\ m \in All
  BY <1>1 DEF StageOK, Working, Undecided, PrepareOther, Bits, All
<1>4. m \in Tracks
  <2>1. CASE Leading(plan.first, Tracks) = m
    BY <1>3, <2>1, LeadingIsOne, MechanismsOfAll DEF Fits, Tracks
  <2>2. CASE pc = "fallback" /\ m = "implicit"
    BY <2>2 DEF StageOK
  <2> QED BY <1>1, <2>1, <2>2
<1> DEFINE q == [r EXCEPT !.raised = FALSE]
<1>5. r \in Results /\ q \in Results /\ q.ok = r.ok /\ q.reason = r.reason
  BY <1>2 DEF Answer, Results
<1> HIDE DEF q
<1>6. facts' \in [All -> Results] /\ facts'[m] = q /\ \A n \in All \ {m} : facts'[n] = facts[n]
  BY <1>2, <1>3, <1>5 DEF Learn, FactsOK, q
<1>7. CASE r.raised
  BY <1>2, <1>3, <1>6, <1>7, FailKeeps
<1>8. CASE ~r.raised
  <2>1. FactsOK'
    BY <1>2, <1>3, <1>4, <1>8, AnswerIsKnown, LearnKeeps
  <2>2. CASE r.ok
    <3>1. facts'["stateful"].action # "reuse"
      BY <1>1, <1>3, <1>6 DEF FactsOK, Known, Unknown, Declined, All
    <3> QED BY <1>2, <1>3, <1>4, <1>8, <2>1, <2>2, <3>1, UseKeeps
  <2>3. CASE ~r.ok
    <3>1. ~plan.uncached => facts'[m].reason \in Grounds
      BY <1>2, <1>5, <1>6, <1>8, <2>3 DEF Answer
    <3>2. ASSUME NEW n \in Tracks, n # m, ~plan.uncached
          PROVE  facts'[n].reason \in Grounds \/ facts'[n] = Unknown
      <4>1. n \in All /\ facts'[n] = facts[n] /\ (facts[n] = Unknown \/ Known(n, facts[n]))
        BY <1>3, <1>6, <3>2, MechanismsOfAll DEF FactsOK, Fits, Tracks
      <4>2. n # "stateful" => facts[n] = Unknown
        BY <1>3, <4>1 DEF StageOK, All, Working
      <4> QED BY <1>3, <3>2, <4>1, <4>2 DEF Known, KnownGrounds
    <3> QED BY <1>2, <1>3, <1>8, <2>1, <2>3, <3>1, <3>2, UncachedKeeps
  <2> QED BY <1>5, <2>2, <2>3 DEF Results
<1> QED BY <1>5, <1>7, <1>8 DEF Results

\* Another executor takes over: what the first knew is forgotten.
LEMMA RestartKeeps == ASSUME PlanningInv, Restart PROVE PlanningInv'
<1> USE DEF PlanningInv
<1>1. /\ pc \in Working /\ plan' = plan /\ world' = world /\ pc' = "assess"
      /\ facts' = [m \in All |-> Unknown] /\ outcome' = outcome
  BY DEF Restart, Working, Go
<1>2. Bits'
  <2>1. lost' \in BOOLEAN
    BY Zenon DEF Restart
  <2> QED BY <2>1 DEF Bits, Restart
<1>3. FactsOK'
  BY <1>1, UnknownIsResult DEF FactsOK
<1>4. StageOK'
  BY <1>1, PlanFixed DEF StageOK, Working, Planned, Fits, All
<1> QED BY <1>1, <1>2, <1>3, <1>4, GoKeeps DEF Working

\* What happens to the resource elsewhere changes no fact of this executor.
LEMMA ElsewhereKeeps == ASSUME PlanningInv, Elsewhere PROVE PlanningInv'
<1> USE DEF PlanningInv
<1>1. /\ pc \in Working /\ plan' = plan /\ world' = world /\ pc' = pc /\ facts' = facts /\ outcome' = outcome
      /\ outcome.kind # "failed"
  BY DEF Elsewhere, Working, StageOK, Undecided
<1>2. Bits'
  <2>1. resource' \in BOOLEAN
    BY Zenon DEF Elsewhere
  <2> QED BY <2>1 DEF Bits, Elsewhere
<1>3. FactsOK'
  BY <1>1, FactsStay
<1>4. StageOK'
  BY <1>1, PlanFixed DEF StageOK, Working, Planned, Fits, Justified
<1> QED BY <1>1, <1>2, <1>3, <1>4, GoKeeps DEF Working

LEMMA StutterKeeps == ASSUME PlanningInv, UNCHANGED planningVars PROVE PlanningInv'
<1> USE DEF PlanningInv, planningVars
<1>1. Bits'
  BY DEF Bits
<1>2. FactsOK'
  BY PlanFixed DEF FactsOK, Unknown, Declined
<1>3. StageOK'
  BY PlanFixed DEF StageOK, Working, Planned, Fits, Justified, Undecided, Unknown, Declined
<1>4. OutcomeOK' /\ UncachedIsAuthorised' /\ ReuseIsPreferred'
  BY PlanFixed DEF OutcomeOK, UncachedIsAuthorised, Uncached, Planned, ReuseIsPreferred, Unknown, Declined
<1> QED BY <1>1, <1>2, <1>3, <1>4 DEF Bits

LEMMA PlanningStep == PlanningInv /\ [PlanningNext]_planningVars => PlanningInv'
<1> SUFFICES ASSUME PlanningInv, [PlanningNext]_planningVars PROVE PlanningInv'
  OBVIOUS
<1>1. CASE AssessImplicit
  BY <1>1, ImplicitAnswers, AssessKeeps DEF AssessImplicit, All
<1>2. CASE AssessBreakpoint
  BY <1>2, BreakpointAnswers, AssessKeeps DEF AssessBreakpoint, All
<1>3. CASE AssessStateful
  <2>1. plan.mode \in {"auto", "on"} /\ world \in Worlds /\ resource \in BOOLEAN
    BY <1>3 DEF PlanningInv, AssessStateful, Assess, StageOK, Working, Fits
  <2>2. \A r \in StatefulResults \cup {PrepareFailure("unmeasured")} : Answer(r)
    BY <2>1, StatefulAnswers, SimpleAnswers
  <2> QED BY <1>3, <2>2, AssessKeeps DEF AssessStateful, All
<1> QED
  BY <1>1, <1>2, <1>3, AcceptKeeps, BeginKeeps, ArbitrateKeeps, PrepareStatefulKeeps, CreateStatefulKeeps,
     PrepareOtherKeeps, RestartKeeps, ElsewhereKeeps, StutterKeeps DEF PlanningNext, RequestIsDone

-----------------------------------------------------------------------------
(* The theorems.                                                           *)

\* What is done together has at most one member, or is layered.
LEMMA TogetherInLayers == PlanningInv => PlanningTypeOK
<1> SUFFICES ASSUME PlanningInv PROVE PlanningTypeOK
  OBVIOUS
<1> USE DEF PlanningInv
<1>1. outcome.mechs \subseteq All
  BY MechanismsOfAll DEF OutcomeOK, StageOK, Fits, Tracks
<1>2. Cardinality(outcome.mechs) > 1 => plan.compatibility = "layered"
  <2>1. CASE outcome.mechs = {}
    BY <2>1, FS_EmptySet
  <2>2. ASSUME NEW m \in Tracks, outcome.mechs = {m} PROVE Cardinality(outcome.mechs) = 1
    BY <2>2, FS_Singleton
  <2> QED BY <2>1, <2>2 DEF OutcomeOK
<1> QED BY <1>1, <1>2 DEF PlanningTypeOK, FactsOK, StageOK, OutcomeOK, Working

\* A forced mechanism is the only track, so nothing else is used.
LEMMA PlannedIsKept == PlanningInv => ForcedIsKept
BY DEF PlanningInv, OutcomeOK, StageOK, Fits, ForcedIsKept, Tracks

\* For every policy, offer, protocol and order of events: forced mechanism
\* kept, uncached only on known grounds, no usable resource passed over.
THEOREM PlansAreKept == PlanningSpec => []PlanningSafe
<1>1. PlanningInv => PlanningSafe
  BY TogetherInLayers, PlannedIsKept DEF PlanningInv, PlanningSafe
<1> QED BY <1>1, PlanningInitInv, PlanningStep, PTL DEF PlanningSpec

\* The provider is called only after the gate has allowed the creation, and
\* nothing the gate looked at changes before the call.
THEOREM CreationsAreJustified == PlanningSpec => CreationIsJustified
<1>1. ASSUME PlanningInv, PlanningNext, created' # created PROVE Justified
  <2>1. CreateStateful
    BY <1>1 DEF PlanningNext, Accept, Begin, AssessImplicit, AssessBreakpoint, AssessStateful, Assess, Arbitrate,
       PrepareStateful, PrepareOther, Restart, Elsewhere, RequestIsDone, planningVars
  <2> QED BY <1>1, <2>1 DEF PlanningInv, CreateStateful, StageOK
<1>2. PlanningInv /\ [PlanningNext]_planningVars =>
        [created' # created =>
           /\ world.cap # "over"
           /\ plan.mode = "auto" =>
                \/ world.beats = "implicit"
                \/ world.beats = "plain" /\ ~facts["implicit"].ok]_planningVars
  BY <1>1 DEF Justified
<1> QED BY <1>2, PlanningInitInv, PlanningStep, PTL DEF PlanningSpec, CreationIsJustified

-----------------------------------------------------------------------------
(* What a session pays.                                                    *)

(* Arithmetic.                                                             *)

LEMMA LargerNat ==
  ASSUME NEW a \in Int, NEW b \in Int
  PROVE  Larger(a, b) \in Int /\ a <= Larger(a, b) /\ b <= Larger(a, b)
BY DEF Larger

LEMMA ProductNat == \A a, b \in Nat : a * b \in Nat
OBVIOUS

LEMMA ProductGrows ==
  ASSUME NEW a \in Int, NEW b \in Int, NEW c \in Nat, a <= b
  PROVE  a * c <= b * c
<1>1. PICK d \in Nat : b = a + d
  <2>1. b - a \in Nat /\ b = a + (b - a)
    OBVIOUS
  <2> QED BY <2>1
<1>2. b * c = a * c + d * c
  BY <1>1
<1>3. d * c \in Nat /\ a * c \in Int /\ b * c \in Int
  BY ProductNat
<1> QED BY <1>2, <1>3

LEMMA PositiveFactor ==
  ASSUME NEW a \in Int, NEW b \in Nat, a * b > 0
  PROVE  a > 0 /\ b > 0
<1>1. b # 0
  OBVIOUS
<1>2. CASE a <= 0
  <2>1. a * b <= 0 * b
    BY <1>2, ProductGrows
  <2> QED BY <2>1
<1> QED BY <1>1, <1>2

\* What an evaluator asks of r reads of s tokens at x saved by a token of each.
Gains(cost, m, r, s, x, w) ==
  /\ cost \in Nat /\ m \in Nat /\ r \in Int /\ s \in Nat /\ x \in Int /\ w \in Int
  /\ x > 0 => x <= 10 * w
  /\ r * s * Larger(0, x) > cost * (10 + m)

\* A gain above the cost with its margin is one of positive reads on a
\* positive difference of rates, and the cost is at most what the reads save.
LEMMA GainCovers ==
  ASSUME NEW cost, NEW m, NEW r, NEW s, NEW x, NEW w, Gains(cost, m, r, s, x, w)
  PROVE  w > 0 /\ r > 0 /\ s > 0 /\ cost <= r * s * w
<1> USE DEF Gains
<1> DEFINE g == r * s
<1>1. Larger(0, x) \in Nat /\ g \in Int
  BY DEF Larger
<1>2. cost * m \in Nat /\ cost * (10 + m) = cost * 10 + cost * m
  BY ProductNat
<1>3. g * Larger(0, x) > 0
  BY <1>1, <1>2
<1> HIDE DEF g
<1>4. g > 0 /\ Larger(0, x) > 0
  BY <1>1, <1>3, PositiveFactor
<1>5. x > 0 /\ Larger(0, x) = x
  BY <1>4 DEF Larger
<1>6. r > 0 /\ s > 0
  <2>1. r * s > 0
    BY <1>4 DEF g
  <2> QED BY <2>1, PositiveFactor
<1>7. w > 0
  BY <1>5
<1>8. x * g <= (10 * w) * g
  BY <1>1, <1>4, <1>5, ProductGrows
<1>9. cost * 10 <= (g * w) * 10
  <2>1. x * g = g * x /\ (10 * w) * g = (g * w) * 10
    BY <1>1
  <2>2. g * x > cost * (10 + m)
    BY <1>5 DEF g
  <2> QED BY <1>1, <1>2, <1>8, <2>1, <2>2
<1>10. cost <= g * w
  BY <1>1, <1>9
<1> QED BY <1>6, <1>7, <1>10 DEF g

\* One more read from t tokens pays down one promised read.
LEMMA ReadPays ==
  ASSUME NEW debt \in Int, NEW due_ \in Nat, NEW t \in Nat, NEW w \in Nat,
         debt <= due_ * t * w
  PROVE  debt - t * w <= (IF due_ > 0 THEN due_ - 1 ELSE 0) * t * w
<1>1. t * w \in Nat /\ due_ * t * w = due_ * (t * w)
  BY ProductNat
<1>2. CASE due_ > 0
  <2>1. (due_ - 1) * t * w = due_ * (t * w) - t * w
    BY <1>2
  <2> QED BY <1>1, <1>2, <2>1
<1>3. CASE due_ = 0
  BY <1>1, <1>3
<1> QED BY <1>2, <1>3

\* A debt that due_ reads of u tokens pay, and a creation that r reads of the
\* difference to t pay, where p reads were promised.
Owes(debt, cost, due_, r, p, u, t, w) ==
  /\ debt \in Int /\ cost \in Nat /\ due_ \in Nat /\ r \in Nat /\ p \in Int
  /\ u \in Nat /\ t \in Nat /\ w \in Nat /\ u <= t /\ r <= p
  /\ debt <= due_ * u * w /\ cost <= r * (t - u) * w

\* The debt on an older resource of u tokens and a creation that r reads of
\* the difference pay for are both paid by the larger number of reads of t.
LEMMA DebtsAdd ==
  ASSUME NEW debt, NEW cost, NEW due_, NEW r, NEW p, NEW u, NEW t, NEW w,
         Owes(debt, cost, due_, r, p, u, t, w)
  PROVE  debt + cost <= Larger(due_, p) * t * w
<1> USE DEF Owes
<1> DEFINE M == Larger(due_, p)
<1>1. M \in Nat /\ due_ <= M /\ r <= M
  BY DEF Larger
<1> HIDE DEF M
<1>2. u * w \in Nat /\ (t - u) * w \in Nat
  BY ProductNat
<1>3. due_ * (u * w) <= M * (u * w)
  BY <1>1, <1>2, ProductGrows
<1>4. r * ((t - u) * w) <= M * ((t - u) * w)
  BY <1>1, <1>2, ProductGrows
<1>5. M * t * w = M * (u * w) + M * ((t - u) * w)
  BY <1>1
<1>6. due_ * u * w = due_ * (u * w) /\ r * (t - u) * w = r * ((t - u) * w)
  OBVIOUS
<1>7. M * (u * w) \in Int /\ M * ((t - u) * w) \in Int
  BY <1>1, <1>2
<1>8. debt + cost <= M * (u * w) + M * ((t - u) * w)
  BY <1>1, <1>2, <1>3, <1>4, <1>6, <1>7
<1> QED BY <1>5, <1>8 DEF M

-----------------------------------------------------------------------------
(* The invariant.                                                          *)

USE CostAssumption, PolicyAssumption DEF costVars, Rate, Share

\* What a read from the resource saves on a token.
Save == Rates.input - Rates.read

CostTypeOK ==
  /\ policy \in Policies /\ broken \in BOOLEAN
  /\ turns \in Nat /\ now \in Nat /\ size \in Nat /\ snapshot \in Nat /\ expires \in Nat
  /\ uses \in Nat /\ first \in Nat /\ last \in Nat /\ due \in Nat
  /\ spent \in Int /\ plain \in Int
  /\ snapshot <= size /\ first <= last /\ last <= now

\* What the session has paid too much is what the reads still due will save;
\* and only where reads save something is there a resource.
DebtIsDue ==
  policy.auto =>
    /\ snapshot > 0 => Save >= 0
    /\ ~broken => /\ snapshot = 0 => due = 0
                  /\ spent - plain <= due * snapshot * Save

CostInv == CostTypeOK /\ DebtIsDue

-----------------------------------------------------------------------------
(* The operators.                                                          *)

LEMMA RatesAreRates ==
  ASSUME policy \in Policies
  PROVE  /\ Rates \in [input : Nat, read : Nat, write : Nat, storage : Nat]
         /\ Save \in Int
<1>1. Rates \in [input : Nat, read : Nat, write : Nat, storage : Nat]
  <2>1. CASE policy.kind = "relative"
    BY <2>1 DEF Rates
  <2>2. CASE policy.kind # "relative" /\ policy.prices = Nothing
    BY <2>2 DEF Rates
  <2>3. CASE policy.kind = "current" /\ policy.prices # Nothing
    <3>1. Rates = [policy.prices EXCEPT !.storage = 0]
      BY <2>3 DEF Rates
    <3>2. policy.prices \in [input : Nat, read : Nat, write : Nat, storage : Nat]
      BY <2>3
    <3> QED BY <3>1, <3>2
  <2>4. CASE policy.kind \notin {"relative", "current"} /\ policy.prices # Nothing
    BY <2>4 DEF Rates
  <2> QED BY <2>1, <2>2, <2>3, <2>4
<1> QED BY <1>1 DEF Save

LEMMA CostNat == policy \in Policies /\ size \in Nat => Cost(size) \in Nat
<1> SUFFICES ASSUME policy \in Policies, size \in Nat PROVE Cost(size) \in Nat
  OBVIOUS
<1>1. Rates.write \in Nat /\ Rates.storage \in Nat
  BY RatesAreRates
<1>2. size * Rates.write \in Nat /\ size * TTL * Rates.storage \in Nat
  BY <1>1, ProductNat
<1> QED BY <1>2 DEF Cost

LEMMA QuotientNat == \A a \in Nat, b \in Nat \ {0} : a \div b \in Nat
OBVIOUS

\* The forecast of uses is a number of uses.
LEMMA ForecastNat == CostTypeOK => Forecast(now) \in Nat
<1> SUFFICES ASSUME CostTypeOK PROVE Forecast(now) \in Nat
  OBVIOUS
<1> USE DEF CostTypeOK
<1>1. CASE policy.expected # Nothing
  BY <1>1 DEF Forecast
<1>2. CASE policy.expected = Nothing /\ policy.auto
  <2>1. CASE uses < policy.minimumUses \/ last = first \/ now - last > TTL
    BY <1>2, <2>1 DEF Forecast
  <2>2. CASE ~(uses < policy.minimumUses \/ last = first \/ now - last > TTL)
    <3> DEFINE q == ((uses - 1) * TTL * policy.confidence) \div ((last - first) * 10)
    <3>1. uses - 1 \in Nat /\ (last - first) * 10 \in Nat \ {0}
      BY <2>2
    <3>2. (uses - 1) * TTL * policy.confidence \in Nat
      BY <3>1, ProductNat
    <3>3. q \in Nat
      BY <3>1, <3>2, QuotientNat
    <3>4. Forecast(now) = Smaller(policy.maximum, q)
      BY <1>2, <2>2 DEF Forecast
    <3> QED BY <3>3, <3>4 DEF Smaller
  <2> QED BY <2>1, <2>2
<1>3. CASE policy.expected = Nothing /\ ~policy.auto
  <2>1. uses >= 3 => (uses - 1) \div 2 \in Nat
    BY QuotientNat
  <2> QED BY <1>3, <2>1 DEF Forecast, Smaller
<1> QED BY <1>1, <1>2, <1>3

LEMMA ReadsNat == CostTypeOK => Reads(now) \in Nat /\ 1 + Forecast(now) <= Reads(now)
BY ForecastNat DEF Reads, Larger

\* Whatever stands against the resource, it costs at most the input rate, or
\* reading the resource saves nothing against it.
LEMMA OtherIsBounded ==
  ASSUME policy \in Policies, NEW base \in Nat, NEW cold \in BOOLEAN, cold => policy.cold # Nothing
  PROVE  /\ OtherRate(base, cold) \in Int
         /\ OtherRate(base, cold) - 10 * Rates.read > 0 =>
              OtherRate(base, cold) - 10 * Rates.read <= 10 * Save
<1> DEFINE hit == IF Hit(cold) = Nothing THEN (IF policy.kind = "first" THEN 10 ELSE 0) ELSE Hit(cold)
<1>1. hit \in 0..10
  <2>1. Hit(cold) \in Share
    BY DEF Hit
  <2> QED BY <2>1
<1>2. Rates.input \in Nat /\ Rates.read \in Nat
  BY RatesAreRates
<1>3. OtherRate(base, cold) = IF Against(base) THEN 10 * Rates.input - hit * Save ELSE 10 * Rates.input
  BY DEF OtherRate, Save
<1> HIDE DEF hit
<1>4. Save \in Int /\ hit * Save \in Int
  BY <1>1, RatesAreRates
<1>5. CASE ~Against(base)
  BY <1>2, <1>3, <1>5 DEF Save
<1>6. CASE Against(base) /\ Save >= 0
  <2>1. hit * Save \in Nat
    BY <1>1, <1>4, <1>6, ProductNat
  <2> QED BY <1>2, <1>3, <1>6, <2>1 DEF Save
<1>7. CASE Against(base) /\ Save < 0
  <2>1. 0 - Save \in Nat
    BY <1>4, <1>7
  <2>2. hit * (0 - Save) <= 10 * (0 - Save)
    BY <1>1, <2>1, ProductGrows
  <2>3. hit * (0 - Save) = 0 - hit * Save
    BY <1>1, <1>4
  <2> QED BY <1>2, <1>3, <1>4, <1>7, <2>2, <2>3 DEF Save
<1> QED BY <1>4, <1>5, <1>6, <1>7

-----------------------------------------------------------------------------
(* The steps.                                                              *)

LEMMA CostInitInv == CostInit => CostInv
<1> SUFFICES ASSUME CostInit PROVE CostInv
  OBVIOUS
<1>1. CostTypeOK
  <2>1. broken \in BOOLEAN
    BY Zenon DEF CostInit
  <2> QED BY <2>1 DEF CostInit, CostTypeOK
<1>2. due * snapshot * Save = 0
  BY RatesAreRates DEF CostInit
<1> QED BY <1>1, <1>2 DEF CostInit, CostInv, DebtIsDue

\* The policy is fixed, and with it the rates.
LEMMA Fixed == policy' = policy => Rates' = Rates /\ Save' = Save
BY DEF Rates, Save

\* A turn read from the resource pays what it costs and one read of the debt.
LEMMA ReadKeeps ==
  ASSUME CostTypeOK, NEW covered \in Nat, NEW creation \in Nat, NEW promised \in Nat,
         Read(covered, creation, promised), covered > 0, Save >= 0,
         spent - plain + creation <= Larger(due, promised) * covered * Save
  PROVE  due' \in Nat /\ spent' - plain' <= due' * covered * Save
<1> USE DEF CostTypeOK
<1> DEFINE M == Larger(due, promised)
<1>1. M \in Nat
  BY DEF Larger
<1>2. due' = IF M > 0 THEN M - 1 ELSE 0
  BY <1>1 DEF Read
<1>3. Rates.input \in Nat /\ Rates.read \in Nat /\ Save \in Nat
  BY RatesAreRates
<1>4. /\ covered * Rates.read \in Int /\ covered * Rates.input \in Int
      /\ size * Rates.input \in Int /\ covered * Save \in Int
  BY <1>3
<1>5. /\ (size - covered) * Rates.input = size * Rates.input - covered * Rates.input
      /\ covered * Save = covered * Rates.input - covered * Rates.read
  BY <1>3 DEF Save
<1>6. spent' - plain' = (spent - plain + creation) - covered * Save
  BY <1>4, <1>5 DEF Read
<1> DEFINE debt == spent - plain + creation
<1>7. debt \in Int /\ debt <= M * covered * Save
  OBVIOUS
<1> HIDE DEF M, debt
<1>8. debt - covered * Save <= (IF M > 0 THEN M - 1 ELSE 0) * covered * Save
  BY ONLY <1>1, <1>3, <1>7, covered \in Nat, ReadPays
<1>9. spent' - plain' <= due' * covered * Save
  BY <1>2, <1>6, <1>8 DEF debt
<1> QED BY <1>1, <1>2, <1>9

\* A turn paid in full adds the same to both sums.
LEMMA FullTurnKeeps ==
  ASSUME CostTypeOK, Read(0, 0, 0)
  PROVE  due' = due /\ spent' - plain' = spent - plain /\ spent' \in Int /\ plain' \in Int
<1>1. Rates.input \in Nat /\ Rates.read \in Nat
  BY RatesAreRates DEF CostTypeOK
<1>2. size * Rates.input \in Nat /\ 0 * Rates.read = 0 /\ size - 0 = size
  BY <1>1, ProductNat DEF CostTypeOK
<1>3. spent' = spent + size * Rates.input /\ plain' = plain + size * Rates.input /\ due' = due
  BY <1>2 DEF Read, CostTypeOK
<1> QED BY <1>2, <1>3 DEF CostTypeOK

LEMMA ReadTypes ==
  ASSUME CostTypeOK, NEW covered \in Nat, NEW creation \in Nat, NEW promised \in Nat,
         Read(covered, creation, promised), snapshot' \in Nat, expires' \in Nat, snapshot' <= size
  PROVE  CostTypeOK'
<1> USE DEF CostTypeOK
<1>1. Rates.input \in Nat /\ Rates.read \in Nat
  BY RatesAreRates
<1>2. /\ covered * Rates.read \in Int /\ (size - covered) * Rates.input \in Int
      /\ size * Rates.input \in Int
  BY <1>1
<1>3. spent' \in Int /\ plain' \in Int
  BY <1>2 DEF Read
<1>4. due' \in Nat
  BY DEF Read, Larger
<1> QED BY <1>3, <1>4 DEF Read

\* A turn read from the resource as it stands.
LEMMA ReuseKeeps ==
  ASSUME CostInv, snapshot > 0, Keep, Read(snapshot, 0, 0)
  PROVE  CostInv'
<1> USE DEF CostInv, CostTypeOK
<1>1. CostTypeOK'
  BY ReadTypes DEF Keep
<1>2. policy' = policy /\ broken' = broken /\ snapshot' = snapshot /\ Save' = Save
  BY Fixed DEF Read, Keep
<1>3. ASSUME policy.auto, ~broken PROVE spent' - plain' <= due' * snapshot * Save
  <2>1. Larger(due, 0) = due /\ spent - plain + 0 = spent - plain
    BY DEF Larger
  <2> QED BY <1>3, <2>1, ReadKeeps DEF DebtIsDue
<1>4. DebtIsDue'
  BY <1>2, <1>3 DEF DebtIsDue
<1> QED BY <1>1, <1>4

LEMMA LeaveKeeps ==
  ASSUME CostInv, Leave
  PROVE  CostInv'
<1> USE DEF CostInv
<1>1. CASE policy.auto
  <2>1. Read(0, 0, 0) /\ Keep
    BY <1>1 DEF Leave
  <2>2. snapshot' \in Nat /\ expires' \in Nat /\ snapshot' <= size
    BY <2>1 DEF Keep, CostTypeOK
  <2>3. CostTypeOK'
    BY <2>1, <2>2, ReadTypes
  <2>4. policy' = policy /\ broken' = broken /\ snapshot' = snapshot /\ Save' = Save
    BY <2>1, Fixed DEF Read, Keep
  <2>5. due' = due /\ spent' - plain' = spent - plain
    BY <2>1, FullTurnKeeps
  <2>6. DebtIsDue'
    BY <2>4, <2>5 DEF DebtIsDue
  <2> QED BY <2>6, <2>3
<1>2. CASE ~policy.auto
  BY <1>2 DEF Leave, Keep, CostTypeOK, DebtIsDue
<1> QED BY <1>1, <1>2

\* An evaluator that allows a creation promises reads that save its cost: of
\* the whole prefix, or of what it adds to an older resource.
LEMMA AllowedIsCovered ==
  ASSUME CostTypeOK, policy.auto, NEW base \in Nat, base <= size, NEW r \in Nat, NEW cold \in BOOLEAN,
         cold => policy.cold # Nothing, policy.kind = "first" => base = 0,
         Allowed(size, base, FALSE, r, cold)
  PROVE  Save > 0 /\ base < size /\ Cost(size) <= r * (size - base) * Save
<1> USE DEF CostTypeOK
<1> DEFINE x == OtherRate(base, cold) - 10 * Rates.read
           d == size - base
<1>1. policy.kind = "relative" \/ policy.prices # Nothing
  BY DEF Allowed
<1>2. Gain(size, base, r, cold) > Cost(size) * (10 + policy.margin)
  BY <1>1 DEF Allowed
<1>3. Gain(size, base, r, cold) = r * d * Larger(0, x)
  BY DEF Gain
<1>4. x \in Int /\ (x > 0 => x <= 10 * Save)
  BY OtherIsBounded, RatesAreRates
<1>5. Cost(size) \in Nat /\ Save \in Int /\ d \in Nat /\ policy.margin \in Nat
  BY CostNat, RatesAreRates
<1> HIDE DEF x, d
<1>6. r * d * Larger(0, x) > Cost(size) * (10 + policy.margin)
  BY <1>2, <1>3
<1>7. Gains(Cost(size), policy.margin, r, d, x, Save)
  BY <1>4, <1>5, <1>6 DEF Gains
<1>8. Save > 0 /\ d > 0 /\ Cost(size) <= r * d * Save
  BY ONLY <1>7, GainCovers
<1> QED BY <1>8 DEF d

\* The same of the growth rule of "first", which has its own evaluator.
LEMMA FirstGrowthIsCovered ==
  ASSUME CostTypeOK, policy.kind = "first", Grows(size, snapshot, Forecast(now))
  PROVE  Save > 0 /\ Cost(size) <= Forecast(now) * (size - snapshot) * Save
<1> USE DEF CostTypeOK
<1> DEFINE F == Forecast(now)
           d == size - snapshot
<1>1. F \in Nat /\ d \in Nat /\ Cost(size) \in Nat /\ Save \in Int /\ policy.margin \in Nat
  BY ForecastNat, CostNat, RatesAreRates
<1>2. F * d * Save * 10 > Cost(size) * (10 + policy.margin)
  BY DEF Grows, Save
<1> HIDE DEF F, d
<1>3. F * d * (Save * 10) > Cost(size) * (10 + policy.margin)
  <2>1. F * d * (Save * 10) = F * d * Save * 10
    BY <1>1
  <2> QED BY <1>2, <2>1
<1>4. F * d * Larger(0, Save * 10) > Cost(size) * (10 + policy.margin)
  <2>1. CASE Save * 10 >= 0
    <3>1. Larger(0, Save * 10) = Save * 10
      BY <1>1, <2>1 DEF Larger
    <3> QED BY <1>3, <3>1
  <2>2. CASE Save * 10 < 0
    <3>1. F * d \in Nat /\ 0 - Save * 10 \in Nat
      BY <1>1, <2>2, ProductNat
    <3>2. F * d * (0 - Save * 10) \in Nat /\ F * d * (0 - Save * 10) = 0 - F * d * (Save * 10)
      BY <1>1, <3>1, ProductNat
    <3>3. Cost(size) * (10 + policy.margin) \in Nat
      BY <1>1, ProductNat
    <3> QED BY <1>1, <1>3, <3>1, <3>2, <3>3
  <2> QED BY <1>1, <2>1, <2>2
<1> DEFINE x == Save * 10
<1>5. Gains(Cost(size), policy.margin, F, d, x, Save)
  BY <1>1, <1>4 DEF Gains
<1>6. Save > 0 /\ Cost(size) <= F * d * Save
  BY ONLY <1>5, GainCovers
<1> QED BY <1>6 DEF F, d

\* A creation that r of the promised reads pay for.
LEMMA CreationKeeps ==
  ASSUME CostInv, policy.auto, NEW r \in Nat, r <= Reads(now), Save > 0, size > 0,
         Cost(size) <= r * (size - snapshot) * Save,
         snapshot' = size, expires' = now + TTL, Read(size, Cost(size), Reads(now))
  PROVE  CostInv'
<1> USE DEF CostInv
<1>1. /\ Cost(size) \in Nat /\ Reads(now) \in Nat /\ Save \in Nat /\ size \in Nat
      /\ snapshot \in Nat /\ snapshot <= size /\ due \in Nat /\ spent - plain \in Int
  BY CostNat, ReadsNat, RatesAreRates DEF CostTypeOK
<1>2. CostTypeOK'
  BY <1>1, ReadTypes DEF CostTypeOK
<1>3. policy' = policy /\ broken' = broken /\ Save' = Save
  BY Fixed DEF Read
<1>4. ASSUME ~broken PROVE spent' - plain' <= due' * size * Save
  <2> DEFINE debt == spent - plain
  <2>1. debt <= due * snapshot * Save /\ debt \in Int
    BY <1>1, <1>4 DEF DebtIsDue
  <2> HIDE DEF debt
  <2>2. Owes(debt, Cost(size), due, r, Reads(now), snapshot, size, Save)
    BY <1>1, <2>1 DEF Owes
  <2>3. debt + Cost(size) <= Larger(due, Reads(now)) * size * Save
    BY ONLY <2>2, DebtsAdd
  <2>4. spent - plain + Cost(size) <= Larger(due, Reads(now)) * size * Save
    BY <2>3 DEF debt
  <2>5. /\ CostTypeOK /\ Read(size, Cost(size), Reads(now)) /\ Save >= 0 /\ size > 0
        /\ size \in Nat /\ Cost(size) \in Nat /\ Reads(now) \in Nat
    BY <1>1
  <2> QED BY ONLY <2>4, <2>5, ReadKeeps
<1>5. DebtIsDue'
  BY <1>1, <1>3, <1>4 DEF DebtIsDue
<1> QED BY <1>2, <1>5

\* The bounded trial is made without prices: nothing counts on either side.
LEMMA TrialKeeps ==
  ASSUME CostInv, snapshot = 0, Trial(size),
         snapshot' = size, expires' = now + TTL, Read(size, Cost(size), Reads(now))
  PROVE  CostInv'
<1> USE DEF CostInv
<1>1. Rates = [input |-> 0, read |-> 0, write |-> 0, storage |-> 0]
  BY DEF Trial, Cold, Rates
<1>2. Cost(size) \in Nat /\ Reads(now) \in Nat
  BY CostNat, ReadsNat DEF CostTypeOK
<1>3. CostTypeOK'
  BY <1>2, ReadTypes DEF CostTypeOK
<1>4. Save = 0 /\ Cost(size) = 0
  BY <1>1 DEF Save, Cost, CostTypeOK
<1>5. policy' = policy /\ broken' = broken /\ Save' = 0
  BY <1>4, Fixed DEF Read
<1>6. spent' - plain' = spent - plain
  <2>1. size * 0 = 0 /\ (size - size) * 0 = 0
    BY DEF CostTypeOK
  <2> QED BY <1>1, <1>4, <2>1 DEF Read, CostTypeOK
<1>7. due * snapshot * Save = 0 /\ due' * snapshot' * 0 = 0
  BY <1>3, <1>4 DEF CostTypeOK
<1>8. size = 0 => due' = due
  BY DEF Read
<1> QED BY <1>3, <1>5, <1>6, <1>7, <1>8 DEF DebtIsDue

\* A session that is not in auto mode is only counted.
LEMMA ForcedKeeps ==
  ASSUME CostInv, ~policy.auto,
         snapshot' = size, expires' = now + TTL, Read(size, Cost(size), Reads(now))
  PROVE  CostInv'
<1>1. Cost(size) \in Nat /\ Reads(now) \in Nat
  BY CostNat, ReadsNat DEF CostInv, CostTypeOK
<1>2. CostTypeOK'
  BY <1>1, ReadTypes DEF CostInv, CostTypeOK
<1> QED BY <1>2 DEF CostInv, DebtIsDue, Read

\* The first resource of a session, or the first after one that expired.
LEMMA CreateKeeps ==
  ASSUME CostInv, snapshot = 0, GateAllows(size, 0, Reads(now)), Create("create", 0)
  PROVE  CostInv'
<1>1. snapshot' = size /\ expires' = now + TTL /\ Read(size, Cost(size), Reads(now))
  BY DEF Create
<1>2. CASE ~policy.auto
  BY <1>1, <1>2, ForcedKeeps
<1>3. CASE Trial(size)
  BY <1>1, <1>3, TrialKeeps
<1>4. ASSUME policy.auto, ~Trial(size) PROVE CostInv'
  <2> DEFINE cold == Cold(now)
  <2>1. Allowed(size, 0, FALSE, Reads(now), cold) /\ cold \in BOOLEAN /\ (cold => policy.cold # Nothing)
    BY <1>4 DEF GateAllows, Gated, Cold
  <2> HIDE DEF cold
  <2>2. CostTypeOK /\ 0 \in Nat /\ 0 <= size /\ Reads(now) \in Nat /\ size \in Nat
    BY ReadsNat DEF CostInv, CostTypeOK
  <2>3. Save > 0 /\ 0 < size /\ Cost(size) <= Reads(now) * (size - 0) * Save
    BY <1>4, <2>1, <2>2, AllowedIsCovered
  <2>4. Cost(size) <= Reads(now) * (size - snapshot) * Save
    BY <2>3
  <2> QED BY <1>1, <1>4, <2>2, <2>3, <2>4, CreationKeeps
<1> QED BY <1>2, <1>3, <1>4

\* A longer resource in place of the usable one.
LEMMA GrowKeeps ==
  ASSUME CostInv, snapshot > 0, Grows(size, snapshot, Forecast(now)),
         GateAllows(size, snapshot, 1 + Forecast(now)), Create("grow", snapshot)
  PROVE  CostInv'
<1>1. snapshot' = size /\ expires' = now + TTL /\ Read(size, Cost(size), Reads(now))
  BY DEF Create
<1>2. /\ CostTypeOK /\ Forecast(now) \in Nat /\ 1 + Forecast(now) \in Nat
      /\ Forecast(now) <= Reads(now) /\ 1 + Forecast(now) <= Reads(now)
      /\ snapshot \in Nat /\ snapshot < size /\ snapshot <= size /\ size > 0
  BY ForecastNat, ReadsNat DEF CostInv, CostTypeOK, Grows
<1>3. CASE ~policy.auto
  BY <1>1, <1>3, ForcedKeeps
<1>4. CASE policy.auto /\ policy.kind = "first"
  BY <1>1, <1>2, <1>4, FirstGrowthIsCovered, CreationKeeps
<1>5. CASE policy.auto /\ policy.kind # "first"
  <2> DEFINE r == 1 + Forecast(now)
             cold == snapshot = 0 /\ Cold(now)
  <2>1. snapshot # 0
    BY <1>2
  <2>2. Allowed(size, snapshot, FALSE, r, cold)
    BY <1>5, <2>1, Zenon DEF GateAllows, Gated
  <2>3. r \in Nat /\ r <= Reads(now) /\ cold \in BOOLEAN /\ ~cold
    BY <1>2
  <2> HIDE DEF r, cold
  <2>4. Save > 0 /\ Cost(size) <= r * (size - snapshot) * Save
    BY <1>2, <1>5, <2>2, <2>3, AllowedIsCovered
  <2> QED BY <1>1, <1>2, <1>5, <2>3, <2>4, CreationKeeps
<1> QED BY <1>3, <1>4, <1>5

LEMMA ArriveKeeps ==
  ASSUME CostInv, Arrive
  PROVE  CostInv'
<1> USE DEF CostInv
<1>1. PICK d \in Deltas, g \in Gaps :
         /\ size' = size + d /\ now' = now + g
         /\ IF snapshot > 0 /\ now' >= expires
            THEN snapshot' = 0 /\ broken' = (broken \/ due > 0)
            ELSE UNCHANGED <<snapshot, broken>>
  BY DEF Arrive
<1>2. d \in Nat /\ g \in Nat
  OBVIOUS
<1>3. broken' \in BOOLEAN
  BY <1>1, Zenon DEF CostTypeOK
<1>4. CostTypeOK'
  BY <1>1, <1>2, <1>3 DEF CostTypeOK, Arrive
<1>5. Save' = Save /\ UNCHANGED <<policy, spent, plain, due>>
  BY Fixed DEF Arrive
<1>6. CASE UNCHANGED <<snapshot, broken>>
  BY <1>4, <1>5, <1>6 DEF DebtIsDue
<1>7. CASE snapshot' = 0 /\ broken' = (broken \/ due > 0)
  <2>1. due = 0 => due * snapshot * Save = 0 /\ due * 0 * Save = 0
    BY RatesAreRates DEF CostTypeOK
  <2>2. ~broken' => ~broken /\ ~(due > 0)
    BY <1>7, Zenon
  <2> QED BY <1>4, <1>5, <1>7, <2>1, <2>2 DEF DebtIsDue, CostTypeOK
<1> QED BY <1>1, <1>6, <1>7

LEMMA CostStep == CostInv /\ [CostNext]_costVars => CostInv'
<1> SUFFICES ASSUME CostInv, [CostNext]_costVars PROVE CostInv'
  OBVIOUS
<1>1. CASE Arrive
  BY <1>1, ArriveKeeps
<1>2. CASE ReuseOrGrow
  BY <1>2, ReuseKeeps, GrowKeeps, LeaveKeeps DEF ReuseOrGrow
<1>3. CASE Unmeasured
  BY <1>3, ReuseKeeps, LeaveKeeps DEF Unmeasured
<1>4. CASE CreateOrLeave
  BY <1>4, CreateKeeps, LeaveKeeps DEF CreateOrLeave
<1>5. CASE UNCHANGED costVars
  <2>1. Save' = Save
    BY <1>5, Fixed
  <2> QED BY <1>5, <2>1 DEF CostInv, CostTypeOK, DebtIsDue
<1> QED BY <1>1, <1>2, <1>3, <1>4, <1>5 DEF CostNext, SessionIsOver

-----------------------------------------------------------------------------
(* The theorems.                                                           *)

\* A session in auto mode whose resources were read as often as promised has
\* not paid more than it would have without any, for every policy, prefix and
\* pause: of any evaluator, over any number of creations and growths.
THEOREM PromisesPay == CostSpec => []ForecastsPay
<1>1. CostInv => ForecastsPay
  <2> SUFFICES ASSUME CostInv, policy.auto, ~broken, due = 0 PROVE spent <= plain
    BY DEF ForecastsPay
  <2>1. due * snapshot * Save = 0
    BY RatesAreRates DEF CostInv, CostTypeOK
  <2> QED BY <2>1 DEF CostInv, CostTypeOK, DebtIsDue
<1> QED BY <1>1, CostInitInv, CostStep, PTL DEF CostSpec

\* What the creation gate has seen when it lets a creation pass.
LEMMA GateIsFounded ==
  ASSUME NEW base \in Nat, NEW r, GateAllows(size, base, r)
  PROVE  /\ policy.cap # Nothing => policy.prices # Nothing /\ Charge(size) <= policy.cap
         /\ policy.auto =>
              \/ policy.prices = Nothing /\ policy.cap = Nothing /\ uses = 0
                 /\ policy.cold # Nothing /\ size <= policy.cold.limit
              \/ /\ policy.kind = "relative" \/ policy.prices # Nothing
                 /\ (policy.implicit = "certified" /\ base = 0 /\ policy.kind # "first") =>
                      \/ policy.hit # Nothing
                      \/ uses = 0 /\ policy.cold # Nothing /\ policy.cold.hit # Nothing
<1> DEFINE cold == base = 0 /\ Cold(now)
<1>1. CASE ~Gated
  BY <1>1 DEF Gated
<1>2. CASE base = 0 /\ Trial(size)
  BY <1>2 DEF Trial, Cold
<1>3. CASE Allowed(size, base, ~policy.auto, r, cold)
  <2>1. policy.cap # Nothing => policy.prices # Nothing /\ Charge(size) <= policy.cap
    BY <1>3 DEF Allowed, WithinCap
  <2>2. policy.auto => (policy.kind = "relative" \/ policy.prices # Nothing) /\ ~Unverified(base, cold)
    BY <1>3 DEF Allowed
  <2>3. policy.implicit = "certified" /\ base = 0 /\ policy.kind # "first" /\ ~Unverified(base, cold)
          => Hit(cold) # Nothing
    BY DEF Unverified, Against
  <2>4. Hit(cold) # Nothing =>
          policy.hit # Nothing \/ (cold /\ policy.cold.hit # Nothing)
    BY DEF Hit
  <2>5. cold => uses = 0 /\ policy.cold # Nothing
    BY DEF Cold
  <2> QED BY <2>1, <2>2, <2>3, <2>4, <2>5
<1> QED BY <1>1, <1>2, <1>3 DEF GateAllows

\* A budget binds every creation, growth included, and no unknown price or
\* hit rate authorises one of the relay's own accord, whatever governance
\* froze and whatever the session looks like by then.
THEOREM CreationsAreFounded == CostSpec => SpendingIsFounded
<1> DEFINE Founded ==
      Creates =>
        /\ policy.cap # Nothing => policy.prices # Nothing /\ Charge(size) <= policy.cap
        /\ policy.auto =>
             \/ policy.prices = Nothing /\ policy.cap = Nothing /\ uses = 0
                /\ policy.cold # Nothing /\ size <= policy.cold.limit
             \/ /\ policy.kind = "relative" \/ policy.prices # Nothing
                /\ (policy.implicit = "certified" /\ how' = "create" /\ policy.kind # "first") =>
                     \/ policy.hit # Nothing
                     \/ uses = 0 /\ policy.cold # Nothing /\ policy.cold.hit # Nothing
<1>1. CostInv /\ [CostNext]_costVars => [Founded]_costVars
  <2> SUFFICES ASSUME CostInv, CostNext, Creates PROVE Founded
    OBVIOUS
  <2> USE DEF Creates
  <2>1. \/ CreateOrLeave /\ how' = "create" /\ GateAllows(size, 0, Reads(now))
        \/ ReuseOrGrow /\ how' = "grow" /\ GateAllows(size, snapshot, 1 + Forecast(now))
    BY DEF CostNext, Arrive, ReuseOrGrow, Unmeasured, CreateOrLeave, Create, Leave, SessionIsOver
  <2>2. CASE CreateOrLeave /\ how' = "create" /\ GateAllows(size, 0, Reads(now))
    <3>1. 0 \in Nat
      OBVIOUS
    <3> QED BY ONLY <2>2, <3>1, GateIsFounded
  <2>3. CASE ReuseOrGrow /\ how' = "grow" /\ GateAllows(size, snapshot, 1 + Forecast(now))
    <3>1. snapshot \in Nat /\ how' # "create"
      BY <2>3 DEF CostInv, CostTypeOK
    <3> QED BY ONLY <2>3, <3>1, GateIsFounded
  <2> QED BY <2>1, <2>2, <2>3
<1>2. CostSpec => [][Founded]_costVars
  BY <1>1, CostInitInv, CostStep, PTL DEF CostSpec
<1> QED BY <1>2 DEF SpendingIsFounded
=============================================================================
