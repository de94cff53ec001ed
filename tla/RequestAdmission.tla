------------------------- MODULE RequestAdmission -------------------------
(***************************************************************************)
(* POST /sessions and POST /sessions/{id}/requests up to the acceptance of *)
(* a request (src/app/api_v2/router.py, src/app/routing/                   *)
(* gemini_supply_group.py, and the accept functions of src/sql/003, 005    *)
(* and 009).                                                               *)
(*                                                                         *)
(* A handler awaits between reading the session row, looking its key up,   *)
(* planning, and calling the accept function, so any number of handlers    *)
(* of one session overlap: each plans on the row IT read.  Only the accept *)
(* function runs under the session row's lock.  One handler that dies, or  *)
(* whose answer is lost, leaves what it committed: a behaviour that simply *)
(* never schedules it again.  A client's retry is another call with the    *)
(* same key.                                                               *)
(*                                                                         *)
(* What a request runs through after its acceptance is RelayLedger and     *)
(* RelayExecution; here a request just ends (Settle).                      *)
(***************************************************************************)
EXTENDS Naturals, Sequences

CONSTANTS
  Deployments,  \* the sessions and clients of a behaviour: records of
                \*   openers   calls of POST /sessions, all with one Idempotency-Key
                \*   callers   calls of POST .../requests
                \*   keys      their Idempotency-Keys
                \*   openings  the bodies of POST /sessions
                \*   intents   the public intents of the calls
                \*   supply    the protocols qualified for the supply group
                \*   contract  of the session: v66, or an older row's v3, v2
  Nothing       \* null

Protocol == {"gemini_native", "chat_completions"}
Hint     == {"auto", "multimodal_or_long_doc", "pure_text_qa"}
Mode     == {"cumulative", "ephemeral_turn"}

ASSUME DeploymentAssumption ==
  \A d \in Deployments :
    /\ d.supply \subseteq Protocol /\ d.supply # {}
    /\ d.contract \in {"v66", "v3", "v2"}
    /\ d.openers \cap d.callers = {}
    /\ d.contract # "v66" => d.openers = {}
    /\ \A o \in d.openings : o.hint \in Hint /\ o.mode \in Mode /\ o.materials \in BOOLEAN
    /\ \A i \in d.intents : i.material \in BOOLEAN /\ i.on \in BOOLEAN /\ i.fits \subseteq Protocol

\* What a call may be answered.
Code == {"session", "row", "error", "refused", "IDEMPOTENCY_CONFLICT",
         "ROUTE_CAPABILITY_UNAVAILABLE", "MATERIAL_NOT_USABLE",
         "SESSION_BUSY", "ROUTE_PIN_CONFLICT", "HISTORY_VERSION_CHANGED"}

\* The rows of relay_sessions and relay_requests.
Said(d) == {i.says : i \in d.intents} \cup {Nothing}

SessionRow(d) ==
  [state : {"open", "expired"}, body : d.openings, pin : {"pending", "pinned"},
   route : Protocol, mode : Mode, materials : BOOLEAN, version : Nat,
   active : d.keys \cup {Nothing}, first : d.keys \cup {Nothing}, frozen : Said(d)]

Hash(d) ==
  [intent : d.intents, route : Protocol, says : Said(d), version : Nat,
   cache : {"cold", "warm"}]

RequestRow(d) ==
  [intent : d.intents, hash : Hash(d), route : Protocol, says : Said(d),
   turns : Seq(d.keys), state : {"open", "succeeded", "failed"}]

ASSUME NullAssumption ==
  /\ Nothing \notin Protocol \cup Code
  /\ \A d \in Deployments : Nothing \notin d.keys \cup SessionRow(d) \cup RequestRow(d)

VARIABLES
  deployment, \* chosen once
  session,    \* the relay_sessions row
  row,        \* relay_requests: Idempotency-Key -> row
  log,        \* the keys whose turns the session's history holds, in order
  inventory,  \* what the cache inventory tells a planner
  pc,         \* where a call is
  key, ask,   \* its Idempotency-Key and intent (an opener's body)
  seen,       \* the session row it read
  plan,       \* what it planned
  answer      \* what it answered

vars == <<deployment, session, row, log, inventory, pc, key, ask, seen, plan, answer>>

Openers  == deployment.openers
Callers  == deployment.callers
Keys     == deployment.keys
Openings == deployment.openings
Intents  == deployment.intents
Supply   == deployment.supply
Contract == deployment.contract

Calls == Openers \cup Callers

-----------------------------------------------------------------------------
(* Opening a session.                                                      *)

NeedsNative(o) == o.materials \/ o.hint = "multimodal_or_long_doc"

\* resolve_supply_group: the route, and whether the first request may
\* still replace it.
Unroutable(o) == NeedsNative(o) /\ "gemini_native" \notin Supply

OpeningRoute(o) ==
  LET preferred == IF ~NeedsNative(o) /\ o.hint = "pure_text_qa"
                   THEN "chat_completions" ELSE "gemini_native"
  IN  IF preferred \in Supply THEN preferred
      ELSE CHOOSE p \in Supply : TRUE

OpeningPin(o) ==
  IF Contract = "v66" /\ o.hint = "auto" /\ ~o.materials /\ Supply = Protocol
  THEN "pending" ELSE "pinned"

Opened(o) ==
  [state |-> "open", body |-> o, pin |-> OpeningPin(o),
   route |-> OpeningRoute(o), mode |-> o.mode, materials |-> o.materials,
   version |-> 0, active |-> Nothing, first |-> Nothing, frozen |-> Nothing]

Init ==
  /\ deployment \in Deployments
  /\ IF Openers = {}
     THEN \E o \in Openings : ~Unroutable(o) /\ session = Opened(o)
     ELSE session = Nothing
  /\ row = [k \in Keys |-> Nothing]
  /\ log = <<>>
  /\ inventory = "cold"
  /\ pc = [c \in Calls |-> "start"]
  /\ key = [c \in Calls |-> Nothing]
  /\ ask = [c \in Calls |-> Nothing]
  /\ seen = [c \in Calls |-> Nothing]
  /\ plan = [c \in Calls |-> Nothing]
  /\ answer = [c \in Calls |-> Nothing]

Answer(c, code) ==
  /\ pc' = [pc EXCEPT ![c] = "answered"]
  /\ answer' = [answer EXCEPT ![c] = code]

AnswerTo(body) ==
  IF session.body = body THEN "session" ELSE "IDEMPOTENCY_CONFLICT"

\* find_session_by_idempotency: a session of the key is answered, or is a
\* conflict; otherwise the route is resolved before the row is inserted.
OpenFind(c) ==
  \E o \in Openings :
    /\ pc[c] = "start"
    /\ ask' = [ask EXCEPT ![c] = o]
    /\ IF session # Nothing THEN Answer(c, AnswerTo(o))
       ELSE IF Unroutable(o) THEN Answer(c, "ROUTE_CAPABILITY_UNAVAILABLE")
       ELSE pc' = [pc EXCEPT ![c] = "insert"] /\ UNCHANGED answer
    /\ UNCHANGED <<deployment, session, row, log, inventory, key, seen, plan>>

\* The unique index on (tenant_id, idempotency_key) refuses a second row.
OpenInsert(c) ==
  /\ pc[c] = "insert"
  /\ IF session = Nothing
     THEN session' = Opened(ask[c]) /\ Answer(c, "session")
     ELSE Answer(c, "error") /\ UNCHANGED session
  /\ UNCHANGED <<deployment, row, log, inventory, key, ask, seen, plan>>

-----------------------------------------------------------------------------
(* A call of POST .../requests.                                            *)

Load(c) ==
  /\ pc[c] = "start"
  /\ session # Nothing
  /\ \E k \in Keys, i \in Intents :
       /\ key' = [key EXCEPT ![c] = k]
       /\ ask' = [ask EXCEPT ![c] = i]
  /\ seen' = [seen EXCEPT ![c] = session]
  /\ pc' = [pc EXCEPT ![c] = "find"]
  /\ UNCHANGED <<deployment, session, row, log, inventory, plan, answer>>

\* Mutant: a row of the key is answered whatever was asked.
ReplayUnchecked(r, i) == "row"

\* The answer to a call whose key already has a row: caller_intent_hash.
Replay(r, i) == IF r.intent = i THEN "row" ELSE "IDEMPOTENCY_CONFLICT"

\* find_request_by_idempotency.  Rows of a v2 session carry the identity
\* relay-request/2.2 and are compared after planning.
FindPrior(c) ==
  /\ pc[c] = "find"
  /\ LET r == row[key[c]] IN
       IF r # Nothing /\ Contract # "v2" THEN Answer(c, Replay(r, ask[c]))
       ELSE pc' = [pc EXCEPT ![c] = "plan"] /\ UNCHANGED answer
  /\ UNCHANGED <<deployment, session, row, log, inventory, key, ask, seen, plan>>

-----------------------------------------------------------------------------
(* The route the call plans on (materialize_supply_group).                 *)

PreferredProtocol(s, i) ==
  LET native == s.materials \/ i.material
                \/ (i.on /\ s.mode # "ephemeral_turn")
      chat   == s.mode = "ephemeral_turn" \/ i.says # Nothing
  IN  IF ~native /\ chat THEN "chat_completions" ELSE "gemini_native"

\* A pinned session keeps its route.  A pending one takes the preferred
\* protocol, and the native one after chat, if the options fit it.
MaterialisedRoute(s, i) ==
  IF s.pin = "pinned" THEN s.route ELSE
  LET p == PreferredProtocol(s, i) IN
  IF p \in i.fits THEN p
  ELSE IF p = "chat_completions" /\ "gemini_native" \in i.fits
       THEN "gemini_native" ELSE Nothing

\* Mutant: the materials' modality is not compared with the contract.
RefusesOptionsOnly(s, i, p) == p \notin i.fits

\* _validate_materials_for_route (the chat contract takes text only) and
\* resolve_model_options on the route's contract.
Refuses(s, i, p) ==
  \/ (s.materials \/ i.material) /\ p = "chat_completions"
  \/ p \notin i.fits

EffectiveInstructions(s, i) ==
  IF i.says = Nothing /\ Contract = "v66" /\ s.mode = "ephemeral_turn"
  THEN s.frozen ELSE i.says

\* The turns the plan is built on are those of the history object the row
\* named, whose number is the row's version; an ephemeral turn reads none.
PlannedTurns(c) ==
  IF seen[c].mode = "ephemeral_turn" THEN <<>>
  ELSE SubSeq(log, 1, seen[c].version)

\* request_identity: a v2.2 snapshot holds no history and no cache plan.
RequestHash(c, p, says) ==
  [intent |-> ask[c], route |-> p, says |-> says,
   version |-> IF Contract = "v2" THEN 0 ELSE seen[c].version,
   cache |-> IF Contract = "v2" THEN "cold" ELSE inventory]

Planned(c, p) ==
  LET says == EffectiveInstructions(seen[c], ask[c]) IN
  [route |-> p, says |-> says, version |-> seen[c].version,
   turns |-> PlannedTurns(c), hash |-> RequestHash(c, p, says)]

\* Everything between the lookup and the accept call, its reads included:
\* a material may have become unusable, an object store may refuse.
Plan(c) ==
  /\ pc[c] = "plan"
  /\ LET p == MaterialisedRoute(seen[c], ask[c]) IN
       IF p = Nothing THEN Answer(c, "ROUTE_CAPABILITY_UNAVAILABLE") /\ UNCHANGED plan
       ELSE \/ /\ Refuses(seen[c], ask[c], p)
               /\ Answer(c, "refused")
               /\ UNCHANGED plan
            \/ /\ ask[c].material \/ seen[c].materials
               /\ Answer(c, "MATERIAL_NOT_USABLE")
               /\ UNCHANGED plan
            \/ /\ ~Refuses(seen[c], ask[c], p)
               /\ plan' = [plan EXCEPT ![c] = Planned(c, p)]
               /\ pc' = [pc EXCEPT ![c] = "accept"]
               /\ UNCHANGED answer
  /\ UNCHANGED <<deployment, session, row, log, inventory, key, ask, seen>>

-----------------------------------------------------------------------------
(* The accept functions, under FOR UPDATE of the session row.              *)

PriorOf(c) == row[key[c]]

\* Mutant: the request hash is compared in every contract.
ReplayByHash(c) ==
  IF PriorOf(c).hash = plan[c].hash THEN "row" ELSE "IDEMPOTENCY_CONFLICT"

\* A row of the key is returned or is a conflict: 009 compares the caller's
\* intent, 005 and 003 compare the request hash (and create_request itself
\* does so in a v2 session).
AcceptPrior(c) ==
  LET r == PriorOf(c) IN
  IF Contract = "v66" THEN Replay(r, ask[c])
  ELSE IF r.hash = plan[c].hash THEN "row" ELSE "IDEMPOTENCY_CONFLICT"

\* 009: a pinned session takes only its own route.
PinConflict(c) ==
  /\ Contract = "v66"
  /\ session.pin = "pinned"
  /\ session.route # plan[c].route

\* Mutant: 005 without the comparison of the history version.
HistoryNeverMoved(c) == FALSE

\* 003 has no such comparison: it stores the version it finds.
HistoryMoved(c) == Contract # "v2" /\ session.version # plan[c].version

Refusal(c) ==
  IF session.state = "expired" THEN "error"
  ELSE IF PriorOf(c) # Nothing THEN AcceptPrior(c)
  ELSE IF session.active # Nothing THEN "SESSION_BUSY"
  ELSE IF PinConflict(c) THEN "ROUTE_PIN_CONFLICT"
  ELSE IF HistoryMoved(c) THEN "HISTORY_VERSION_CHANGED"
  ELSE Nothing

AcceptedSession(c) ==
  LET s == [session EXCEPT !.active = key[c]]
      f == [s EXCEPT !.pin = "pinned", !.route = plan[c].route]
  IN  IF Contract # "v66" THEN s
      ELSE IF session.first # Nothing THEN f
      ELSE [f EXCEPT !.first = key[c], !.frozen = plan[c].says]

Accept(c) ==
  /\ pc[c] = "accept"
  /\ IF Refusal(c) # Nothing
     THEN Answer(c, Refusal(c)) /\ UNCHANGED <<session, row>>
     ELSE /\ session' = AcceptedSession(c)
          /\ row' = [row EXCEPT ![key[c]] =
                       [intent |-> ask[c], hash |-> plan[c].hash,
                        route |-> plan[c].route, says |-> plan[c].says,
                        turns |-> plan[c].turns, state |-> "open"]]
          /\ Answer(c, "row")
  /\ UNCHANGED <<deployment, log, inventory, key, ask, seen, plan>>

-----------------------------------------------------------------------------
(* The request that is open ends.                                          *)

Extended(s) == [s EXCEPT !.active = Nothing, !.version = @ + 1]

Settle ==
  LET k == session.active IN
  /\ session # Nothing
  /\ k # Nothing
  /\ \/ /\ row' = [row EXCEPT ![k].state = "succeeded"]
        /\ IF session.mode = "ephemeral_turn"
           THEN session' = [session EXCEPT !.active = Nothing] /\ UNCHANGED log
           ELSE session' = Extended(session) /\ log' = Append(log, k)
     \/ /\ row' = [row EXCEPT ![k].state = "failed"]
        /\ session' = [session EXCEPT !.active = Nothing]
        /\ UNCHANGED log
  /\ UNCHANGED <<deployment, inventory, pc, key, ask, seen, plan, answer>>

\* A resource becomes ready: auto plans of the same intent now differ.
WarmInventory ==
  /\ inventory = "cold"
  /\ inventory' = "warm"
  /\ UNCHANGED <<deployment, session, row, log, pc, key, ask, seen, plan, answer>>

\* expires_at passes.  Only the accept functions look at it.
Expire ==
  /\ session # Nothing
  /\ session.state = "open"
  /\ session' = [session EXCEPT !.state = "expired"]
  /\ UNCHANGED <<deployment, row, log, inventory, pc, key, ask, seen, plan, answer>>

Next ==
  \/ \E c \in Openers : OpenFind(c) \/ OpenInsert(c)
  \/ \E c \in Callers : Load(c) \/ FindPrior(c) \/ Plan(c) \/ Accept(c)
  \/ Settle
  \/ WarmInventory
  \/ Expire

Spec == Init /\ [][Next]_vars

-----------------------------------------------------------------------------
(* Properties.                                                             *)

\* The types of the variables.
AdmissionTypeOK ==
  /\ deployment \in Deployments
  /\ session \in SessionRow(deployment) \cup {Nothing}
  /\ session # Nothing => session.version = Len(log)
  /\ row \in [Keys -> RequestRow(deployment) \cup {Nothing}]
  /\ log \in Seq(Keys)
  /\ inventory \in {"cold", "warm"}
  /\ pc \in [Calls -> {"start", "insert", "find", "plan", "accept", "answered"}]
  /\ key \in [Calls -> Keys \cup {Nothing}]
  /\ answer \in [Calls -> Code \cup {Nothing}]

\* A call is answered with a request, or a session, only if that is the one
\* it asked for: two calls that share a key and not an intent never get the
\* same row, however they overlap (create_request's lookup and the accept
\* function's own).
AnswersOwnIntent ==
  /\ \A c \in Callers : answer[c] = "row" =>
       row[key[c]] # Nothing /\ row[key[c]].intent = ask[c]
  /\ \A c \in Openers : answer[c] = "session" => session.body = ask[c]

\* A retry of the very same intent is never told that its key belongs to a
\* different request, whatever was planned in between.  (Not so under the v3
\* contract, whose accept function compares a hash that holds the cache plan.)
RetryIsNoConflict ==
  \A c \in Callers :
    answer[c] = "IDEMPOTENCY_CONFLICT" => row[key[c]].intent # ask[c]

\* Every accepted request runs on the session's one route, and that route
\* can serve it: its options fit, and no material goes to the text-only
\* protocol, though the first request chose the route for itself alone.
RunsOnThePin ==
  \A k \in Keys : row[k] # Nothing =>
    /\ row[k].route = session.route
    /\ row[k].route \in row[k].intent.fits
    /\ session.materials \/ row[k].intent.material
         => row[k].route = "gemini_native"

\* The request that is open was planned on exactly the turns the session
\* holds, and those do not move until it ends.  (A v2 request is accepted on
\* whatever version the session has by then.)
PlannedOnTheHistory ==
  session # Nothing /\ Contract # "v2" =>
    LET k == session.active IN
    k # Nothing /\ session.mode = "cumulative" => row[k].turns = log

\* Only a call that read the session before its pin can be told of a pin
\* conflict: reloading the session, as the answer says, cures it.
ReloadCuresPinConflict ==
  \A c \in Callers :
    answer[c] = "ROUTE_PIN_CONFLICT" => seen[c].pin = "pending"

\* A call of an ephemeral session that gives no instructions and read the
\* session after its first acceptance plans with the instructions frozen then,
\* whatever is accepted while it plans.  One that read it before keeps none.
InheritsInstructions ==
  \A c \in Callers :
    /\ plan[c] # Nothing
    /\ session.mode = "ephemeral_turn"
    /\ seen[c].first # Nothing
    /\ ask[c].says = Nothing
    => plan[c].says = session.frozen

\* The state properties of this part together: its types, answers that are
\* those of the caller's intent, conflicts a reload cures, and instructions
\* that later calls inherit.
AdmissionSafe ==
  /\ AdmissionTypeOK
  /\ AnswersOwnIntent
  /\ ReloadCuresPinConflict
  /\ InheritsInstructions
=============================================================================
