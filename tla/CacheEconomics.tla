--------------------------- MODULE CacheEconomics ---------------------------
(***************************************************************************)
(* What a session pays for its cache resources over several turns: the     *)
(* forecast of uses and the evaluators of src/app/cache/economics.py, the  *)
(* creation gate and the growth rules of src/app/cache/stateful.py.        *)
(*                                                                         *)
(* Each generation of the relay froze its own evaluator into its requests: *)
(* "first" (resolver/4), "current" (resolver/5), "relative" (resolver/6),  *)
(* "snapshot" (upgraded sessions).  All four are still evaluated.          *)
(*                                                                         *)
(* Rates are integers per token, margins, ratios and hit rates are tenths, *)
(* time is counted in units of the TTL; the arithmetic of the code is      *)
(* multiplied by ten instead of divided.  The minimum increment of growth  *)
(* and the one of a roll are one number here.                              *)
(***************************************************************************)
EXTENDS Integers

CONSTANTS
  Policies,  \* what governance may have frozen, see Policy
  Deltas,    \* how much a turn adds to the prefix
  Gaps,      \* how long after the last turn it comes
  MaxTurns,  \* bound on the turns of the session
  TTL,
  Nothing

ASSUME CostAssumption ==
  /\ MaxTurns \in Nat \ {0} /\ TTL \in Nat \ {0}
  /\ Deltas \subseteq Nat /\ Gaps \subseteq Nat

\* What the evaluators are given: _nonnegative refuses a negative rate, margin
\* or forecast, a hit rate is one of 0 to 1, and a minimum of observations
\* below 2 is replaced.
Rate  == Nat \cup {Nothing}
Share == 0..10 \cup {Nothing}

ASSUME PolicyAssumption ==
  \A p \in Policies :
    /\ p.prices # Nothing => p.prices \in [input : Nat, read : Nat, write : Nat, storage : Nat]
    /\ p.margin \in Nat /\ p.hit \in Share /\ p.expected \in Rate
    /\ p.cold # Nothing => p.cold.hit \in Share
    /\ p.minimumUses \in Nat \ {0, 1} /\ p.maximum \in Nat /\ p.confidence \in Nat

VARIABLES
  policy, turns, now,
  size,      \* tokens of the stable prefix
  snapshot,  \* tokens of the resource, 0 if there is none
  expires,
  uses, first, last,  \* the evidence of earlier uses
  spent,     \* creations and input so far
  plain,     \* the same input without a resource
  due,       \* reads until every creation has had the reads it was promised
  broken,    \* a resource expired before that
  how        \* what the last turn did

costVars == <<policy, turns, now, size, snapshot, expires, uses, first, last,
          spent, plain, due, broken, how>>

-----------------------------------------------------------------------------
Larger(a, b)  == IF a > b THEN a ELSE b
Smaller(a, b) == IF a < b THEN a ELSE b

Live(t) == snapshot > 0 /\ t < expires

\* estimate_ttl_bounded_future_reuses in auto mode, estimate_future_reuses
\* otherwise.
Forecast(t) ==
  IF policy.expected # Nothing THEN policy.expected
  ELSE IF policy.auto
  THEN IF uses < policy.minimumUses \/ last = first \/ t - last > TTL THEN 0
       ELSE Smaller(policy.maximum,
                    ((uses - 1) * TTL * policy.confidence) \div ((last - first) * 10))
  ELSE IF policy.optIn /\ uses >= 3 THEN Smaller(policy.maximum, (uses - 1) \div 2) ELSE 0

\* A stable large material of a session without uses counts on one more stage.
Cold(t) == policy.kind = "snapshot" /\ policy.cold # Nothing /\ uses = 0 /\ ~Live(t)

Reads(t) == 1 + (IF Cold(t) THEN Larger(1, Forecast(t)) ELSE Forecast(t))

\* The units an evaluator compares in: relative units are fixed, and storage
\* is no part of the objective of "current" and "relative".
Rates ==
  CASE policy.kind = "relative" -> [input |-> 10, read |-> 1, write |-> 10, storage |-> 0]
    [] policy.kind # "relative" /\ policy.prices = Nothing
         -> [input |-> 0, read |-> 0, write |-> 0, storage |-> 0]
    [] policy.kind = "current" /\ policy.prices # Nothing
         -> [policy.prices EXCEPT !.storage = 0]
    [] OTHER -> policy.prices

Cost(t) == t * Rates.write + t * TTL * Rates.storage

\* What the provider charges for a creation, storage included.
Charge(t) ==
  t * (IF policy.kind = "relative" THEN policy.prices.input ELSE policy.prices.write)
    + t * TTL * policy.prices.storage

WithinCap(t) ==
  policy.cap # Nothing => policy.prices # Nothing /\ Charge(t) <= policy.cap

\* The measured hit rate of the implicit prefix; a cold start may bring one.
Hit(cold) ==
  IF policy.hit # Nothing THEN policy.hit
  ELSE IF cold THEN policy.cold.hit ELSE Nothing

\* An implicit prefix stands against a first resource, not against growth of
\* one; the older evaluators do not know trials.
Against(base) ==
  CASE policy.kind = "snapshot" -> policy.implicit # "none" /\ base = 0
    [] policy.kind = "relative" -> policy.implicit # "none"
    [] OTHER -> policy.implicit = "certified"

\* Mutant: what was not measured is taken to miss.
AssumedMissing(base, cold) == FALSE

\* An implicit prefix whose hits nobody measured is preferred to speculation.
Unverified(base, cold) ==
  Against(base) /\ Hit(cold) = Nothing /\ policy.kind # "first"

\* Ten times the rate paid for a token without the resource; "first" takes an
\* unmeasured implicit prefix to hit always.
OtherRate(base, cold) ==
  LET unknown == IF policy.kind = "first" THEN 10 ELSE 0
      hit     == IF Hit(cold) = Nothing THEN unknown ELSE Hit(cold)
  IN IF Against(base) THEN 10 * Rates.input - hit * (Rates.input - Rates.read)
                      ELSE 10 * Rates.input

\* Mutant: growth is credited with the whole prefix.
GainOfWhole(t, base, reads, cold) ==
  reads * t * Larger(0, OtherRate(base, cold) - 10 * Rates.read)

\* Ten times what the reads save.  "first" knows nothing of an older resource.
Gain(t, base, reads, cold) ==
  reads * (IF policy.kind = "first" THEN t ELSE t - base)
        * Larger(0, OtherRate(base, cold) - 10 * Rates.read)

\* evaluate_new_resource, evaluate_current_read_resource,
\* evaluate_relative_cache_strategy and evaluate_v65_snapshot_cost.
Allowed(t, base, forced, reads, cold) ==
  IF policy.kind # "relative" /\ policy.prices = Nothing
  THEN forced /\ policy.cap = Nothing
  ELSE /\ WithinCap(t)
       /\ \/ forced
          \/ /\ ~Unverified(base, cold)
             /\ Gain(t, base, reads, cold) > Cost(t) * (10 + policy.margin)

-----------------------------------------------------------------------------
(* StatefulResourceManager.                                                *)

Gated == policy.auto \/ policy.cap # Nothing

\* A bounded trial without prices, on the first use only.
Trial(t) == Cold(now) /\ t <= policy.cold.limit /\ policy.prices = Nothing /\ policy.cap = Nothing

GateAllows(t, base, reads) ==
  ~Gated \/ (base = 0 /\ Trial(t)) \/ Allowed(t, base, ~policy.auto, reads, base = 0 /\ Cold(now))

\* Growth waits for a share of the old prefix, or for the cap on what is not
\* cached, and for the minimum increment.
RollMinimum(old) ==
  LET share == (old * policy.alpha + 9) \div 10 IN
  IF policy.uncachedCap # Nothing
  THEN Larger(policy.minimumDelta, Smaller(share, policy.uncachedCap))
  ELSE Larger(policy.minimumDelta, share)

\* _evaluate_prefix_growth for "first", _evaluate_prefix_growth_current_read
\* for the others; neither is forced by the mode.
Grows(t, old, future) ==
  /\ policy.growth /\ t > old
  /\ IF policy.kind = "first"
     THEN /\ policy.prices # Nothing /\ future > 0 /\ t - old >= policy.minimumDelta
          /\ future * (t - old) * (Rates.input - Rates.read) * 10 > Cost(t) * (10 + policy.margin)
     ELSE t - old >= RollMinimum(old) /\ Allowed(t, old, FALSE, 1 + future, FALSE)

-----------------------------------------------------------------------------
CostInit ==
  /\ policy \in Policies
  /\ turns = 0 /\ now = 0 /\ size = 0 /\ snapshot = 0 /\ expires = 0
  /\ uses = 0 /\ first = 0 /\ last = 0 /\ spent = 0 /\ plain = 0
  /\ due = 0 /\ broken = FALSE /\ how = "none"

\* The turn is read from the resource as far as it reaches.
Read(covered, creation, promised) ==
  /\ spent' = spent + creation + covered * Rates.read + (size - covered) * Rates.input
  /\ plain' = plain + size * Rates.input
  /\ due' = IF covered = 0 THEN due ELSE Larger(due, promised) - (IF Larger(due, promised) > 0 THEN 1 ELSE 0)
  /\ uses' = uses + 1 /\ last' = now
  /\ first' = IF uses = 0 THEN now ELSE first
  /\ turns' = turns + 1
  /\ UNCHANGED <<policy, now, size, broken>>

Keep == UNCHANGED <<snapshot, expires>>

\* Without a resource the turn is paid in full; a forced one fails.
Leave ==
  /\ Keep
  /\ IF policy.auto THEN how' = "left" /\ Read(0, 0, 0)
     ELSE /\ how' = "failed" /\ turns' = turns + 1
          /\ UNCHANGED <<policy, now, size, uses, first, last, spent, plain, due, broken>>

\* A turn comes; what an expired resource still owed is lost.
Arrive ==
  /\ how # "arrived" /\ turns < MaxTurns
  /\ \E d \in Deltas, g \in Gaps :
       /\ size' = size + d /\ now' = now + g
       /\ IF snapshot > 0 /\ now' >= expires
          THEN snapshot' = 0 /\ broken' = (broken \/ due > 0)
          ELSE UNCHANGED <<snapshot, broken>>
  /\ how' = "arrived"
  /\ UNCHANGED <<policy, turns, expires, uses, first, last, spent, plain, due>>

\* Creating, with the promise the decision counted on.
Create(name, base) ==
  /\ snapshot' = size /\ expires' = now + TTL /\ how' = name
  /\ Read(size, Cost(size), Reads(now))

\* A usable resource: grow it, or read from it.  Under a unified plan growth
\* that the gate then refuses leaves the track, otherwise the resource is used.
ReuseOrGrow ==
  /\ how = "arrived" /\ snapshot > 0
  /\ \/ /\ ~Grows(size, snapshot, Forecast(now)) /\ how' = "reuse" /\ Keep /\ Read(snapshot, 0, 0)
     \/ /\ Grows(size, snapshot, Forecast(now))
        /\ GateAllows(size, snapshot, 1 + Forecast(now)) /\ Create("grow", snapshot)
     \/ /\ Grows(size, snapshot, Forecast(now))
        /\ ~GateAllows(size, snapshot, 1 + Forecast(now))
        /\ IF policy.auto /\ ~policy.unified THEN how' = "reuse" /\ Keep /\ Read(snapshot, 0, 0)
                                             ELSE Leave

\* The target could not be measured: the old resource serves.
Unmeasured ==
  /\ how = "arrived"
  /\ \/ snapshot > 0 /\ how' = "reuse" /\ Keep /\ Read(snapshot, 0, 0)
     \/ snapshot = 0 /\ Gated /\ Leave

CreateOrLeave ==
  /\ how = "arrived" /\ snapshot = 0
  /\ \/ GateAllows(size, 0, Reads(now)) /\ Create("create", 0)
     \/ ~GateAllows(size, 0, Reads(now)) /\ Leave

SessionIsOver == turns = MaxTurns /\ UNCHANGED costVars

CostNext == Arrive \/ ReuseOrGrow \/ Unmeasured \/ CreateOrLeave \/ SessionIsOver

CostSpec == CostInit /\ [][CostNext]_costVars

-----------------------------------------------------------------------------
(* Properties.                                                             *)

Creates == how' \in {"create", "grow"} /\ how = "arrived"

\* The budget for a new resource binds in every mode, for growth as well; and
\* what is unknown authorises no creation of the relay's own accord: not
\* without prices, except for the bounded trial, and not against an implicit
\* prefix nobody measured.
SpendingIsFounded ==
  [][Creates =>
       /\ policy.cap # Nothing => policy.prices # Nothing /\ Charge(size) <= policy.cap
       /\ policy.auto =>
            \/ policy.prices = Nothing /\ policy.cap = Nothing /\ uses = 0
               /\ policy.cold # Nothing /\ size <= policy.cold.limit
            \/ /\ policy.kind = "relative" \/ policy.prices # Nothing
               /\ (policy.implicit = "certified" /\ how' = "create" /\ policy.kind # "first") =>
                    \/ policy.hit # Nothing
                    \/ uses = 0 /\ policy.cold # Nothing /\ policy.cold.hit # Nothing]_costVars

\* If every resource is read as often as its creation counted on, the session
\* has not paid more than without any, however often it grew.
ForecastsPay ==
  (policy.auto /\ ~broken /\ due = 0 /\ how # "arrived") => spent <= plain

=============================================================================
