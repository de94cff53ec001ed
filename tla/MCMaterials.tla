----------------------------- MODULE MCMaterials -----------------------------
(***************************************************************************)
(* Instances for TLC of what happens to the files of a session: where they *)
(* are kept (MaterialBindings) and what requests say with them             *)
(* (PhysicalPlan).  The two share no state; a behaviour belongs to one of  *)
(* them and leaves the other where it began.                               *)
(***************************************************************************)
EXTENDS MaterialBindings, PhysicalPlan, TLC

CONSTANTS
  e1, e2, e3,  \* executors
  s1, s2, x    \* two materials of the session and one of a request

VARIABLE part

-----------------------------------------------------------------------------
(* Cases of MaterialBindings.                                              *)

Case(provider, strategies, plain, users, most) ==
  [provider |-> provider, strategies |-> strategies, plain |-> plain,
   users |-> users, generations |-> most, requests |-> most]

MCCases ==
  { \* Two requests, each behind a signed URL or a Files upload.
    Case("gemini", {"url", "files"}, FALSE, {e1, e2}, 3),
    \* Another Files API, and none.
    Case("native", {}, TRUE, {e1, e2}, 4),
    Case("none", {}, TRUE, {e1, e2}, 4),
    \* Files first, one executor, and two whose requests overlap.
    Case("gemini", {"primary"}, FALSE, {e3}, 4),
    Case("gemini", {"primary"}, FALSE, {e1, e2}, 3),
    \* Files first next to sessions of the newer layouts.
    Case("gemini", {"url", "files", "primary"}, FALSE, {e1, e2}, 2) }

-----------------------------------------------------------------------------
(* Contracts of PhysicalPlan.                                              *)

MCPriority == <<s2, s1, x>>
MCSize     == [m \in {s1, s2, x} |-> IF m = s1 THEN 2 ELSE 1]

Asking(attach, fallbacks, instrs, tools, blanks, stales) ==
  [attach : attach, fallback : fallbacks, instr : instrs, tools : tools,
   blank : blanks, stale : stales]

AnyInstr == {None, "i"}
AnyTools == {None, "t"}
Kept     == {{s1, s2, x}, {s2}}  \* s1 may lose its bytes

Turns ==
  [layout |-> 9, conversation |-> TRUE, upgraded |-> FALSE, stripTools |-> FALSE,
   manifest |-> <<s1, s2>>,
   asks |-> Asking({<<>>, <<x>>}, Kept, {None}, {None}, {FALSE}, {FALSE}),
   density |-> FALSE, limit |-> 4, wireCap |-> 20, turns |-> 3, resources |-> 2]

\* The history may move between the acceptance and the plan.
Stale ==
  [Turns EXCEPT !.asks = Asking({<<>>, <<x>>}, {{s1, s2}}, {None}, {None}, {FALSE}, BOOLEAN),
                !.turns = 2, !.resources = 1]

ManyHeads ==
  [Turns EXCEPT !.upgraded = TRUE, !.stripTools = TRUE, !.density = TRUE,
                !.asks = Asking({<<>>}, {{s1, s2}}, AnyInstr, AnyTools, {FALSE}, {FALSE})
                           \cup Asking({<<>>}, {{s1, s2}}, {None}, {None}, {TRUE}, {FALSE}),
                !.limit = 3, !.wireCap = 5, !.turns = 2, !.resources = 1]

Layout8 ==
  [Turns EXCEPT !.layout = 8, !.limit = 3, !.resources = 1,
                !.asks = Asking({<<>>, <<x>>, <<s1, x>>}, Kept, AnyInstr, {None}, {FALSE}, {FALSE})]

Explicit ==
  [ManyHeads EXCEPT !.conversation = FALSE, !.manifest = <<>>, !.density = FALSE,
                !.asks = Asking({<<>>, <<x>>, <<s1, x>>}, Kept, AnyInstr, AnyTools, BOOLEAN, {FALSE}),
                !.limit = 4, !.wireCap = 20, !.turns = 3]

MCContracts == {Turns, Stale, ManyHeads, Layout8, Explicit}

-----------------------------------------------------------------------------
MCInit ==
  /\ part \in {"bindings", "plan"}
  /\ BindingInit
  /\ PlanInit
  /\ part = "plan"     => mat.case = CHOOSE c \in Cases : TRUE
  /\ part = "bindings" => contract = CHOOSE c \in Contracts : TRUE

MCNext ==
  \/ part = "bindings" /\ BindingNext /\ UNCHANGED <<part, planVars>>
  \/ part = "plan" /\ PlanNext /\ UNCHANGED <<part, bindingVars>>

MCSpec == MCInit /\ [][MCNext]_<<part, bindingVars, planVars>>

Symmetry == Permutations({e1, e2})
=============================================================================
