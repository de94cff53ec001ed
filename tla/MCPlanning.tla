----------------------------- MODULE MCPlanning -----------------------------
(***************************************************************************)
(* Instances for TLC of what decides about a cache: the plan of a request  *)
(* and its execution (CachePlanning), and what the resources of a session  *)
(* cost over its turns (CacheEconomics).  The two share no state; a        *)
(* behaviour belongs to one of them and leaves the other where it began.   *)
(***************************************************************************)
EXTENDS CachePlanning, CacheEconomics

VARIABLE part

-----------------------------------------------------------------------------
(* Policies of CacheEconomics.                                             *)

Dear  == [input |-> 10, read |-> 1, write |-> 12, storage |-> 1]
Cheap == [input |-> 10, read |-> 2, write |-> 4, storage |-> 0]

Base ==
  [kind : {"snapshot"}, auto : {TRUE}, unified : {TRUE}, prices : {Cheap, Dear},
   cap : {Nothing}, margin : {0, 2}, hit : {Nothing, 0, 5}, implicit : {"none", "certified"},
   cold : {Nothing}, expected : {Nothing, 1}, minimumUses : {2}, maximum : {3},
   confidence : {10}, optIn : {FALSE}, growth : {TRUE}, alpha : {5},
   uncachedCap : {Nothing, 6}, minimumDelta : {2}]

\* Each evaluator at its best: what was promised is kept or not.
Pays ==
  Base \cup {[p EXCEPT !.kind = k, !.unified = FALSE] :
               p \in {b \in Base : b.uncachedCap = Nothing}, k \in {"first", "current", "relative"}}

\* Budgets, unknown prices and hit rates, cold starts and demands.
Unknowns ==
  {[p EXCEPT !.kind = k, !.unified = (k = "snapshot"), !.auto = a, !.prices = r, !.cap = c, !.cold = f,
             !.implicit = i, !.optIn = TRUE] :
     p \in {b \in Base : b.margin = 0 /\ b.uncachedCap = Nothing /\ b.implicit = "none" /\ b.prices = Cheap},
     k \in {"first", "current", "relative", "snapshot"}, a \in BOOLEAN, r \in {Nothing, Cheap},
     c \in {Nothing, 40}, f \in {Nothing, [limit |-> 6, hit |-> Nothing], [limit |-> 6, hit |-> 2]},
     i \in {"none", "certified", "trial"}}

MCPolicies == Pays \cup Unknowns

Steps  == {2, 8}
Pauses == {1, 3}

-----------------------------------------------------------------------------
MCInit ==
  /\ part \in {"plan", "costs"}
  /\ PlanningInit
  /\ CostInit
  /\ part = "plan" => policy = CHOOSE p \in Policies : TRUE

MCNext ==
  \/ part = "plan" /\ PlanningNext /\ UNCHANGED <<part, costVars>>
  \/ part = "costs" /\ CostNext /\ UNCHANGED <<part, planningVars>>

MCSpec == MCInit /\ [][MCNext]_<<part, planningVars, costVars>>
=============================================================================
