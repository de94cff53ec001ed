------------------------ MODULE RequestAdmission_proofs ------------------------
(***************************************************************************)
(* Proofs about the admission of requests: for any number of calls, keys,  *)
(* intents and deployments.                                                *)
(***************************************************************************)
EXTENDS RequestAdmission, TLAPS

USE DEF vars

-----------------------------------------------------------------------------
(* Types.                                                                  *)

\* The locals of the calls.  A caller at work has a key, an intent and a copy
\* of the session row; an opener has a body.
LocalsOK ==
  /\ ask = [c \in Calls |-> ask[c]]
  /\ seen = [c \in Calls |-> seen[c]]
  /\ plan = [c \in Calls |-> plan[c]]
  /\ \A c \in Callers : pc[c] # "start" =>
       /\ session # Nothing
       /\ key[c] \in Keys /\ ask[c] \in Intents
       /\ seen[c] \in SessionRow(deployment) /\ seen[c].version <= Len(log)
  /\ \A c \in Openers : pc[c] \in {"insert", "answered"} => ask[c] \in Openings
  /\ \A c \in Callers : pc[c] # "insert"
  /\ \A c \in Openers : pc[c] \in {"start", "insert", "answered"}
  /\ \A c \in Calls : pc[c] # "answered" => answer[c] = Nothing

\* Before the session there is nothing.
BlankOK == session = Nothing => log = <<>> /\ \A k \in Keys : row[k] = Nothing

\* The active request has a row.
ActiveOK == session # Nothing /\ session.active # Nothing => row[session.active] # Nothing

\* A plan is one for the session.
PlanOK ==
  \A c \in Callers : pc[c] = "accept" =>
    /\ plan[c].route \in Protocol
    /\ plan[c].says \in Said(deployment)
    /\ plan[c].turns \in Seq(Keys)
    /\ plan[c].hash \in Hash(deployment)

TypeInv == AdmissionTypeOK /\ LocalsOK /\ BlankOK /\ ActiveOK /\ PlanOK

LEMMA Deployed ==
  ASSUME deployment \in Deployments
  PROVE  /\ Supply \subseteq Protocol /\ Supply # {}
         /\ Openers \cap Callers = {}
         /\ Contract \in {"v66", "v3", "v2"}
         /\ \A o \in Openings : o.hint \in Hint /\ o.mode \in Mode /\ o.materials \in BOOLEAN
         /\ \A i \in Intents : i.material \in BOOLEAN /\ i.on \in BOOLEAN /\ i.fits \subseteq Protocol
         /\ Nothing \notin Keys /\ Nothing \notin SessionRow(deployment)
         /\ Nothing \notin RequestRow(deployment) /\ Nothing \notin Protocol /\ Nothing \notin Code
BY DeploymentAssumption, NullAssumption
   DEF Supply, Openers, Callers, Contract, Openings, Intents, Keys

LEMMA Fixed ==
  ASSUME [Next]_vars
  PROVE  /\ deployment' = deployment /\ Keys' = Keys /\ Callers' = Callers /\ Openers' = Openers
         /\ Calls' = Calls /\ Intents' = Intents /\ Openings' = Openings
         /\ Contract' = Contract /\ Supply' = Supply
         /\ SessionRow(deployment)' = SessionRow(deployment)
         /\ RequestRow(deployment)' = RequestRow(deployment)
         /\ Hash(deployment)' = Hash(deployment) /\ Said(deployment)' = Said(deployment)
<1>1. deployment' = deployment
  BY DEF Next, OpenFind, OpenInsert, Load, FindPrior, Plan, Accept, Settle, WarmInventory, Expire
<1> QED BY <1>1 DEF Keys, Callers, Openers, Calls, Intents, Openings, Contract, Supply

LEMMA OpenedRow ==
  ASSUME deployment \in Deployments, NEW o \in Openings
  PROVE  /\ Opened(o) \in SessionRow(deployment)
         /\ Opened(o).pin = OpeningPin(o) /\ Opened(o).body = o /\ Opened(o).version = 0
         /\ Opened(o).first = Nothing /\ Opened(o).active = Nothing
<1>1. OpeningRoute(o) \in Protocol
  BY Deployed DEF OpeningRoute, Protocol
<1>2. OpeningPin(o) \in {"pending", "pinned"}
  BY DEF OpeningPin
<1>3. o.mode \in Mode /\ o.materials \in BOOLEAN
  BY Deployed
<1> QED BY <1>1, <1>2, <1>3 DEF Opened, SessionRow, Said, Openings

LEMMA TypeInit == Init => TypeInv
<1> SUFFICES ASSUME Init PROVE TypeInv
  OBVIOUS
<1>1. deployment \in Deployments
  BY DEF Init
<1>2. session \in SessionRow(deployment) \cup {Nothing}
      /\ (session # Nothing => session.version = 0 /\ session.active = Nothing)
  BY <1>1, OpenedRow DEF Init
<1>3. AdmissionTypeOK
  BY <1>1, <1>2 DEF Init, AdmissionTypeOK
<1>4. LocalsOK /\ BlankOK /\ ActiveOK /\ PlanOK
  BY <1>2 DEF Init, LocalsOK, BlankOK, ActiveOK, PlanOK, Calls
<1> QED BY <1>3, <1>4 DEF TypeInv

-----------------------------------------------------------------------------
(* The steps keep the types.                                               *)

\* What an action leaves of the types when it answers or moves one call only.
LEMMA AnswerType ==
  ASSUME TypeInv, NEW c \in Calls, NEW code \in Code, Answer(c, code)
  PROVE  /\ pc' \in [Calls -> {"start", "insert", "find", "plan", "accept", "answered"}]
         /\ answer' \in [Calls -> Code \cup {Nothing}]
         /\ pc'[c] = "answered" /\ answer'[c] = code
         /\ \A b \in Calls \ {c} : pc'[b] = pc[b] /\ answer'[b] = answer[b]
BY DEF TypeInv, AdmissionTypeOK, Answer

LEMMA MoveType ==
  ASSUME TypeInv, NEW c \in Calls, NEW l \in {"insert", "find", "plan", "accept"},
         pc' = [pc EXCEPT ![c] = l], UNCHANGED answer
  PROVE  /\ pc' \in [Calls -> {"start", "insert", "find", "plan", "accept", "answered"}]
         /\ answer' \in [Calls -> Code \cup {Nothing}]
         /\ pc'[c] = l
         /\ \A b \in Calls \ {c} : pc'[b] = pc[b] /\ answer'[b] = answer[b]
BY DEF TypeInv, AdmissionTypeOK

\* One call c moves on; its key, intent, copy and plan are what they were or
\* are given.
CallActs(c) ==
  /\ pc' \in [Calls -> {"start", "insert", "find", "plan", "accept", "answered"}]
  /\ answer' \in [Calls -> Code \cup {Nothing}]
  /\ pc'[c] # "answered" => answer'[c] = Nothing
  /\ \A b \in Calls \ {c} :
       /\ pc'[b] = pc[b] /\ answer'[b] = answer[b]
       /\ key'[b] = key[b] /\ ask'[b] = ask[b] /\ seen'[b] = seen[b] /\ plan'[b] = plan[b]
  /\ key' = [b \in Calls |-> key'[b]]
  /\ ask' = [b \in Calls |-> ask'[b]]
  /\ seen' = [b \in Calls |-> seen'[b]]
  /\ plan' = [b \in Calls |-> plan'[b]]

LEMMA OpenFindActs ==
  ASSUME TypeInv, [Next]_vars, NEW c \in Openers, OpenFind(c)
  PROVE  /\ CallActs(c)
         /\ pc'[c] \in {"insert", "answered"} /\ ask'[c] \in Openings
         /\ key'[c] = key[c] /\ seen'[c] = seen[c] /\ plan'[c] = plan[c]
         /\ answer'[c] = "session" => session # Nothing /\ session.body = ask'[c]
<1> USE DEF TypeInv, AdmissionTypeOK, LocalsOK
<1>1. c \in Calls
  BY DEF Calls
<1>2. PICK o \in Openings :
        /\ pc[c] = "start"
        /\ ask' = [ask EXCEPT ![c] = o]
        /\ IF session # Nothing THEN Answer(c, AnswerTo(o))
           ELSE IF Unroutable(o) THEN Answer(c, "ROUTE_CAPABILITY_UNAVAILABLE")
           ELSE pc' = [pc EXCEPT ![c] = "insert"] /\ UNCHANGED answer
        /\ UNCHANGED <<deployment, session, row, log, inventory, key, seen, plan>>
  BY DEF OpenFind
<1>3. /\ ask' = [b \in Calls |-> ask'[b]] /\ ask'[c] = o
      /\ \A b \in Calls \ {c} : ask'[b] = ask[b]
  BY <1>1, <1>2
<1>4. CASE session # Nothing
  <2>1. AnswerTo(o) \in Code /\ (AnswerTo(o) = "session" => session.body = o)
    BY DEF AnswerTo, Code
  <2>2. Answer(c, AnswerTo(o))
    BY <1>2, <1>4
  <2> HIDE DEF TypeInv, AdmissionTypeOK, LocalsOK
  <2>3. /\ pc' \in [Calls -> {"start", "insert", "find", "plan", "accept", "answered"}]
        /\ answer' \in [Calls -> Code \cup {Nothing}]
        /\ pc'[c] = "answered" /\ answer'[c] = AnswerTo(o)
        /\ \A b \in Calls \ {c} : pc'[b] = pc[b] /\ answer'[b] = answer[b]
    BY <1>1, <2>1, <2>2, AnswerType
  <2> QED BY <1>1, <1>2, <1>3, <1>4, <2>1, <2>3 DEF CallActs, TypeInv, AdmissionTypeOK, LocalsOK
<1>5. CASE session = Nothing /\ Unroutable(o)
  <2> HIDE DEF TypeInv, AdmissionTypeOK, LocalsOK
  <2>1. /\ pc' \in [Calls -> {"start", "insert", "find", "plan", "accept", "answered"}]
        /\ answer' \in [Calls -> Code \cup {Nothing}]
        /\ pc'[c] = "answered" /\ answer'[c] = "ROUTE_CAPABILITY_UNAVAILABLE"
        /\ \A b \in Calls \ {c} : pc'[b] = pc[b] /\ answer'[b] = answer[b]
    BY <1>1, <1>2, <1>5, AnswerType DEF Code
  <2> QED BY <1>1, <1>2, <1>3, <1>5, <2>1 DEF CallActs, TypeInv, AdmissionTypeOK, LocalsOK
<1>6. CASE session = Nothing /\ ~Unroutable(o)
  <2>1. /\ pc' \in [Calls -> {"start", "insert", "find", "plan", "accept", "answered"}]
        /\ answer' \in [Calls -> Code \cup {Nothing}]
        /\ pc'[c] = "insert" /\ answer'[c] = Nothing
        /\ \A b \in Calls \ {c} : pc'[b] = pc[b] /\ answer'[b] = answer[b]
    BY <1>1, <1>2, <1>6
  <2>2. Nothing # "session"
    BY Deployed DEF Code
  <2> QED BY <1>1, <1>2, <1>3, <1>6, <2>1, <2>2 DEF CallActs
<1> QED BY <1>4, <1>5, <1>6

LEMMA OpenInsertActs ==
  ASSUME TypeInv, NEW c \in Openers, OpenInsert(c)
  PROVE  /\ CallActs(c) /\ pc'[c] = "answered"
         /\ key'[c] = key[c] /\ ask'[c] = ask[c] /\ seen'[c] = seen[c] /\ plan'[c] = plan[c]
         /\ ask[c] \in Openings
         /\ \/ session = Nothing /\ session' = Opened(ask[c])
            \/ session # Nothing /\ session' = session /\ answer'[c] = "error"
<1>1. c \in Calls /\ ask[c] \in Openings
  BY DEF Calls, TypeInv, LocalsOK, OpenInsert
<1>2. PICK code \in {"session", "error"} :
        /\ Answer(c, code)
        /\ \/ session = Nothing /\ session' = Opened(ask[c])
           \/ session # Nothing /\ session' = session /\ code = "error"
  BY DEF OpenInsert
<1>3. /\ pc' \in [Calls -> {"start", "insert", "find", "plan", "accept", "answered"}]
      /\ answer' \in [Calls -> Code \cup {Nothing}]
      /\ pc'[c] = "answered" /\ answer'[c] = code
      /\ \A b \in Calls \ {c} : pc'[b] = pc[b] /\ answer'[b] = answer[b]
  BY <1>1, <1>2, AnswerType DEF Code
<1>4. UNCHANGED <<key, ask, seen, plan>>
  BY DEF OpenInsert
<1> QED BY <1>1, <1>2, <1>3, <1>4 DEF CallActs, TypeInv, AdmissionTypeOK, LocalsOK

LEMMA LoadActs ==
  ASSUME TypeInv, NEW c \in Callers, Load(c)
  PROVE  /\ CallActs(c) /\ pc'[c] = "find" /\ answer'[c] = Nothing
         /\ key'[c] \in Keys /\ ask'[c] \in Intents /\ seen'[c] = session /\ plan'[c] = plan[c]
         /\ pc[c] = "start" /\ session # Nothing
<1>1. c \in Calls
  BY DEF Calls
<1>2. /\ pc' = [pc EXCEPT ![c] = "find"] /\ UNCHANGED <<plan, answer>>
      /\ pc[c] = "start" /\ session # Nothing
      /\ seen' = [seen EXCEPT ![c] = session]
  BY DEF Load
<1>3. PICK k \in Keys, i \in Intents : /\ key' = [key EXCEPT ![c] = k]
                                       /\ ask' = [ask EXCEPT ![c] = i]
  BY DEF Load
<1> QED BY <1>1, <1>2, <1>3 DEF CallActs, TypeInv, AdmissionTypeOK, LocalsOK

LEMMA FindPriorActs ==
  ASSUME TypeInv, NEW c \in Callers, FindPrior(c)
  PROVE  /\ CallActs(c) /\ pc[c] = "find"
         /\ key'[c] = key[c] /\ ask'[c] = ask[c] /\ seen'[c] = seen[c] /\ plan'[c] = plan[c]
         /\ \/ pc'[c] = "plan" /\ answer'[c] = Nothing
            \/ /\ pc'[c] = "answered" /\ row[key[c]] # Nothing
               /\ answer'[c] = Replay(row[key[c]], ask[c])
<1>1. c \in Calls /\ pc[c] = "find"
  BY DEF Calls, FindPrior
<1>2. UNCHANGED <<key, ask, seen, plan>>
  BY DEF FindPrior
<1>3. CASE row[key[c]] # Nothing /\ Answer(c, Replay(row[key[c]], ask[c]))
  <2>1. Replay(row[key[c]], ask[c]) \in Code
    BY DEF Replay, Code
  <2>2. /\ pc' \in [Calls -> {"start", "insert", "find", "plan", "accept", "answered"}]
        /\ answer' \in [Calls -> Code \cup {Nothing}]
        /\ pc'[c] = "answered" /\ answer'[c] = Replay(row[key[c]], ask[c])
        /\ \A b \in Calls \ {c} : pc'[b] = pc[b] /\ answer'[b] = answer[b]
    BY <1>1, <1>3, <2>1, AnswerType
  <2> QED BY <1>1, <1>2, <1>3, <2>2 DEF CallActs, TypeInv, AdmissionTypeOK, LocalsOK
<1>4. CASE pc' = [pc EXCEPT ![c] = "plan"] /\ UNCHANGED answer
  BY <1>1, <1>2, <1>4 DEF CallActs, TypeInv, AdmissionTypeOK, LocalsOK
<1> QED BY <1>3, <1>4 DEF FindPrior

\* A plan that was made.
PlanMade(c) ==
  \E p \in Protocol :
    /\ p = MaterialisedRoute(seen[c], ask[c])
    /\ ~Refuses(seen[c], ask[c], p)
    /\ plan'[c] = Planned(c, p)

LEMMA RouteType ==
  ASSUME NEW s \in SessionRow(deployment), NEW i
  PROVE  MaterialisedRoute(s, i) \in Protocol \cup {Nothing}
BY DEF MaterialisedRoute, PreferredProtocol, SessionRow, Protocol

LEMMA PlanActs ==
  ASSUME TypeInv, NEW c \in Callers, Plan(c)
  PROVE  /\ CallActs(c) /\ pc[c] = "plan"
         /\ key'[c] = key[c] /\ ask'[c] = ask[c] /\ seen'[c] = seen[c]
         /\ \/ /\ pc'[c] = "answered" /\ plan'[c] = plan[c]
               /\ answer'[c] \in {"ROUTE_CAPABILITY_UNAVAILABLE", "refused", "MATERIAL_NOT_USABLE"}
            \/ pc'[c] = "accept" /\ answer'[c] = Nothing /\ PlanMade(c)
<1>1. c \in Calls /\ pc[c] = "plan" /\ UNCHANGED <<key, ask, seen>>
  BY DEF Calls, Plan
<1>2. MaterialisedRoute(seen[c], ask[c]) \in Protocol \cup {Nothing}
  BY <1>1, RouteType DEF TypeInv, LocalsOK
<1>3. ASSUME NEW code \in {"ROUTE_CAPABILITY_UNAVAILABLE", "refused", "MATERIAL_NOT_USABLE"},
             Answer(c, code), UNCHANGED plan
      PROVE  CallActs(c) /\ pc'[c] = "answered" /\ plan'[c] = plan[c] /\ answer'[c] = code
  <2>1. /\ pc' \in [Calls -> {"start", "insert", "find", "plan", "accept", "answered"}]
        /\ answer' \in [Calls -> Code \cup {Nothing}]
        /\ pc'[c] = "answered" /\ answer'[c] = code
        /\ \A b \in Calls \ {c} : pc'[b] = pc[b] /\ answer'[b] = answer[b]
    BY <1>1, <1>3, AnswerType DEF Code
  <2> QED BY <1>1, <1>3, <2>1 DEF CallActs, TypeInv, AdmissionTypeOK, LocalsOK
<1>4. ASSUME NEW p \in Protocol, p = MaterialisedRoute(seen[c], ask[c]),
             ~Refuses(seen[c], ask[c], p), plan' = [plan EXCEPT ![c] = Planned(c, p)],
             pc' = [pc EXCEPT ![c] = "accept"], UNCHANGED answer
      PROVE  CallActs(c) /\ pc'[c] = "accept" /\ answer'[c] = Nothing /\ PlanMade(c)
  <2>1. plan'[c] = Planned(c, p) /\ plan' = [b \in Calls |-> plan'[b]]
        /\ \A b \in Calls \ {c} : plan'[b] = plan[b]
    BY <1>1, <1>4 DEF TypeInv, LocalsOK
  <2>2. PlanMade(c)
    BY <1>4, <2>1 DEF PlanMade
  <2>3. /\ pc' \in [Calls -> {"start", "insert", "find", "plan", "accept", "answered"}]
        /\ answer' \in [Calls -> Code \cup {Nothing}]
        /\ pc'[c] = "accept"
        /\ \A b \in Calls \ {c} : pc'[b] = pc[b] /\ answer'[b] = answer[b]
    BY <1>1, <1>4, MoveType
  <2>4. answer'[c] = Nothing
    BY <1>1, <1>4 DEF TypeInv, LocalsOK
  <2> QED BY <1>1, <2>1, <2>2, <2>3, <2>4 DEF CallActs, TypeInv, AdmissionTypeOK, LocalsOK
<1> QED BY <1>1, <1>2, <1>3, <1>4 DEF Plan

\* A plan is of the copy its caller read.
LEMMA PlanMadeFits ==
  ASSUME TypeInv, NEW c \in Callers, pc[c] = "plan", PlanMade(c)
  PROVE  /\ plan'[c].route = MaterialisedRoute(seen[c], ask[c])
         /\ plan'[c].route \in Protocol
         /\ ~Refuses(seen[c], ask[c], plan'[c].route)
         /\ plan'[c].says = EffectiveInstructions(seen[c], ask[c])
         /\ plan'[c].says \in Said(deployment)
         /\ plan'[c].version = seen[c].version
         /\ plan'[c].turns = PlannedTurns(c)
         /\ plan'[c].turns \in Seq(Keys)
         /\ plan'[c].hash = RequestHash(c, plan'[c].route, plan'[c].says)
         /\ plan'[c].hash \in Hash(deployment)
<1>1. PICK p \in Protocol : /\ p = MaterialisedRoute(seen[c], ask[c])
                            /\ ~Refuses(seen[c], ask[c], p)
                            /\ plan'[c] = Planned(c, p)
  BY DEF PlanMade
<1>2. /\ seen[c] \in SessionRow(deployment) /\ ask[c] \in Intents
      /\ seen[c].version \in Nat /\ seen[c].version <= Len(log)
      /\ log \in Seq(Keys) /\ inventory \in {"cold", "warm"}
  BY DEF TypeInv, AdmissionTypeOK, LocalsOK, SessionRow
<1>3. EffectiveInstructions(seen[c], ask[c]) \in Said(deployment)
  BY <1>2 DEF EffectiveInstructions, Said, Intents, SessionRow
<1>4. PlannedTurns(c) \in Seq(Keys)
  BY <1>2 DEF PlannedTurns
<1>5. /\ plan'[c].route = p
      /\ plan'[c].says = EffectiveInstructions(seen[c], ask[c])
      /\ plan'[c].version = seen[c].version
      /\ plan'[c].turns = PlannedTurns(c)
      /\ plan'[c].hash = RequestHash(c, p, EffectiveInstructions(seen[c], ask[c]))
  BY <1>1 DEF Planned
<1>6. RequestHash(c, p, EffectiveInstructions(seen[c], ask[c])) \in Hash(deployment)
  BY <1>2, <1>3 DEF RequestHash, Hash, Intents
<1> QED BY <1>1, <1>3, <1>4, <1>5, <1>6

\* The order of the checks in the accept functions.
LEMMA RefusalCases ==
  ASSUME TypeInv, NEW c
  PROVE  /\ Refusal(c) \in Code \cup {Nothing}
         /\ Refusal(c) = Nothing =>
              PriorOf(c) = Nothing /\ session.active = Nothing /\ ~PinConflict(c) /\ ~HistoryMoved(c)
         /\ Refusal(c) \in {"row", "IDEMPOTENCY_CONFLICT"} =>
              PriorOf(c) # Nothing /\ Refusal(c) = AcceptPrior(c)
         /\ Refusal(c) = "ROUTE_PIN_CONFLICT" => PinConflict(c)
         /\ Refusal(c) # "session"
<1>1. Nothing \notin Code
  BY Deployed DEF TypeInv, AdmissionTypeOK
<1>2. AcceptPrior(c) \in {"row", "IDEMPOTENCY_CONFLICT"}
  BY DEF AcceptPrior, Replay
<1> HIDE DEF AcceptPrior
<1> QED BY <1>1, <1>2 DEF Refusal, Code

LEMMA AcceptedFields ==
  ASSUME TypeInv, NEW c \in Callers, pc[c] = "accept"
  PROVE  LET s == AcceptedSession(c) IN
         /\ s \in SessionRow(deployment)
         /\ s.body = session.body /\ s.mode = session.mode /\ s.materials = session.materials
         /\ s.version = session.version /\ s.active = key[c]
         /\ Contract # "v66" => s.pin = session.pin /\ s.route = session.route /\ s.first = session.first
         /\ Contract = "v66" => s.pin = "pinned" /\ s.route = plan[c].route /\ s.first # Nothing
         /\ session.first # Nothing \/ Contract # "v66" => s.first = session.first /\ s.frozen = session.frozen
<1>1. /\ session \in SessionRow(deployment) /\ key[c] \in Keys
      /\ plan[c].route \in Protocol /\ plan[c].says \in Said(deployment)
  BY DEF TypeInv, AdmissionTypeOK, LocalsOK, PlanOK
<1>2. key[c] \in deployment.keys /\ key[c] # Nothing
  BY <1>1, Deployed DEF TypeInv, AdmissionTypeOK, Keys
<1>3. CASE Contract # "v66"
  <2>1. AcceptedSession(c) = [session EXCEPT !.active = key[c]]
    BY <1>3 DEF AcceptedSession
  <2> QED BY <1>1, <1>2, <1>3, <2>1 DEF SessionRow
<1>4. CASE Contract = "v66" /\ session.first # Nothing
  <2>1. AcceptedSession(c) = [session EXCEPT !.active = key[c], !.pin = "pinned", !.route = plan[c].route]
    BY <1>1, <1>4 DEF AcceptedSession, SessionRow
  <2> QED BY <1>1, <1>2, <1>4, <2>1 DEF SessionRow
<1>5. CASE Contract = "v66" /\ session.first = Nothing
  <2>1. AcceptedSession(c) = [session EXCEPT !.active = key[c], !.pin = "pinned", !.route = plan[c].route,
                                             !.first = key[c], !.frozen = plan[c].says]
    BY <1>1, <1>5 DEF AcceptedSession, SessionRow
  <2> QED BY <1>1, <1>2, <1>5, <2>1 DEF SessionRow
<1> QED BY <1>3, <1>4, <1>5

\* The row of an accepted request.
AcceptedRequest(c) ==
  [intent |-> ask[c], hash |-> plan[c].hash, route |-> plan[c].route, says |-> plan[c].says,
   turns |-> plan[c].turns, state |-> "open"]

LEMMA AcceptActs ==
  ASSUME TypeInv, NEW c \in Callers, Accept(c)
  PROVE  /\ CallActs(c) /\ pc[c] = "accept" /\ pc'[c] = "answered"
         /\ key'[c] = key[c] /\ ask'[c] = ask[c] /\ seen'[c] = seen[c] /\ plan'[c] = plan[c]
         /\ \/ /\ answer'[c] = Refusal(c) /\ Refusal(c) # Nothing
               /\ UNCHANGED <<session, row>>
            \/ /\ answer'[c] = "row" /\ session' = AcceptedSession(c)
               /\ row' = [row EXCEPT ![key[c]] = AcceptedRequest(c)]
               /\ PriorOf(c) = Nothing /\ session.active = Nothing
               /\ ~PinConflict(c) /\ ~HistoryMoved(c)
<1>1. c \in Calls /\ pc[c] = "accept" /\ UNCHANGED <<key, ask, seen, plan>>
  BY DEF Calls, Accept
<1>2. PICK code \in Code :
        /\ Answer(c, code)
        /\ \/ /\ code = Refusal(c) /\ Refusal(c) # Nothing
              /\ UNCHANGED <<session, row>>
           \/ /\ code = "row" /\ session' = AcceptedSession(c)
              /\ row' = [row EXCEPT ![key[c]] = AcceptedRequest(c)]
              /\ Refusal(c) = Nothing
  <2>1. CASE Refusal(c) # Nothing
    <3>1. Refusal(c) \in Code
      BY <2>1, RefusalCases
    <3> QED BY <2>1, <3>1 DEF Accept
  <2>2. CASE Refusal(c) = Nothing
    <3>1. "row" \in Code
      BY DEF Code
    <3> QED BY <2>2, <3>1 DEF Accept, AcceptedRequest
  <2> QED BY <2>1, <2>2
<1>3. /\ pc' \in [Calls -> {"start", "insert", "find", "plan", "accept", "answered"}]
      /\ answer' \in [Calls -> Code \cup {Nothing}]
      /\ pc'[c] = "answered" /\ answer'[c] = code
      /\ \A b \in Calls \ {c} : pc'[b] = pc[b] /\ answer'[b] = answer[b]
  BY <1>1, <1>2, AnswerType
<1>4. CallActs(c)
  BY <1>1, <1>3 DEF CallActs, TypeInv, AdmissionTypeOK, LocalsOK
<1> QED BY <1>1, <1>2, <1>3, <1>4, RefusalCases
\* What a later state of a session row keeps of an earlier one.
Later(s, t) ==
  /\ t.body = s.body /\ t.mode = s.mode /\ t.materials = s.materials
  /\ s.version <= t.version
  /\ s.pin = "pinned" => t.pin = "pinned" /\ t.route = s.route
  /\ s.first # Nothing => t.first = s.first /\ t.frozen = s.frozen

\* What a request's row keeps.
SameRequest(r, t) ==
  /\ t # Nothing
  /\ t.intent = r.intent /\ t.hash = r.hash /\ t.route = r.route
  /\ t.says = r.says /\ t.turns = r.turns

\* What a step may do to the tables.
StoreStep ==
  /\ session' \in SessionRow(deployment) \cup {Nothing}
  /\ session' # Nothing => session'.version = Len(log')
  /\ session # Nothing => session' # Nothing /\ Later(session, session')
  /\ row' \in [Keys -> RequestRow(deployment) \cup {Nothing}]
  /\ \A k \in Keys : row[k] # Nothing => SameRequest(row[k], row'[k])
  /\ log' \in Seq(Keys)
  /\ Len(log) <= Len(log')
  /\ \A v \in 0..Len(log) : SubSeq(log', 1, v) = SubSeq(log, 1, v)
  /\ session' = Nothing => log' = <<>> /\ \A k \in Keys : row'[k] = Nothing
  /\ session' # Nothing /\ session'.active # Nothing => row'[session'.active] # Nothing

LEMMA StoreStays ==
  ASSUME TypeInv, UNCHANGED <<session, row, log>>
  PROVE  StoreStep
BY DEF TypeInv, AdmissionTypeOK, BlankOK, ActiveOK, StoreStep, Later, SameRequest, SessionRow

LEMMA StoreOpens ==
  ASSUME TypeInv, NEW o \in Openings, session = Nothing, session' = Opened(o), UNCHANGED <<row, log>>
  PROVE  StoreStep
<1>1. deployment \in Deployments /\ Nothing \notin SessionRow(deployment)
  BY Deployed DEF TypeInv, AdmissionTypeOK
<1>2. log = <<>> /\ \A k \in Keys : row[k] = Nothing
  BY DEF TypeInv, BlankOK
<1>3. session' \in SessionRow(deployment) /\ session'.version = 0 /\ session'.active = Nothing
  BY <1>1, OpenedRow
<1> QED BY <1>1, <1>2, <1>3 DEF StoreStep, TypeInv, AdmissionTypeOK

LEMMA StoreExpires ==
  ASSUME TypeInv, Expire
  PROVE  StoreStep
<1>1. /\ session \in SessionRow(deployment) /\ session # Nothing
      /\ session' = [session EXCEPT !.state = "expired"] /\ UNCHANGED <<row, log>>
  BY DEF Expire, TypeInv, AdmissionTypeOK
<1>2. /\ session' \in SessionRow(deployment)
      /\ session'.version = session.version /\ session'.active = session.active
      /\ Later(session, session')
  BY <1>1 DEF SessionRow, Later
<1>3. session' # Nothing
  BY <1>2, Deployed DEF TypeInv, AdmissionTypeOK
<1> QED BY <1>1, <1>2, <1>3 DEF StoreStep, SameRequest, TypeInv, AdmissionTypeOK, ActiveOK, BlankOK

LEMMA StoreAccepts ==
  ASSUME TypeInv, NEW c \in Callers, pc[c] = "accept",
         session' = AcceptedSession(c), row' = [row EXCEPT ![key[c]] = AcceptedRequest(c)],
         PriorOf(c) = Nothing, ~PinConflict(c), UNCHANGED log
  PROVE  StoreStep /\ row'[key[c]] = AcceptedRequest(c)
         /\ \A k \in Keys \ {key[c]} : row'[k] = row[k]
<1>1. /\ session # Nothing /\ session \in SessionRow(deployment) /\ key[c] \in Keys
      /\ ask[c] \in Intents /\ plan[c].route \in Protocol /\ plan[c].says \in Said(deployment)
      /\ plan[c].turns \in Seq(Keys) /\ plan[c].hash \in Hash(deployment)
  BY DEF TypeInv, AdmissionTypeOK, LocalsOK, PlanOK
<1>2. AcceptedRequest(c) \in RequestRow(deployment)
  BY <1>1 DEF AcceptedRequest, RequestRow, Keys, Intents
<1>3. AcceptedRequest(c) # Nothing /\ Nothing \notin SessionRow(deployment)
  BY <1>2, Deployed DEF TypeInv, AdmissionTypeOK
<1>4. /\ row' \in [Keys -> RequestRow(deployment) \cup {Nothing}]
      /\ row'[key[c]] = AcceptedRequest(c)
      /\ \A k \in Keys \ {key[c]} : row'[k] = row[k]
  BY <1>1, <1>2 DEF TypeInv, AdmissionTypeOK
<1>5. /\ session' \in SessionRow(deployment)
      /\ session'.version = session.version /\ session'.active = key[c]
      /\ session'.body = session.body /\ session'.mode = session.mode /\ session'.materials = session.materials
      /\ Contract # "v66" => session'.pin = session.pin /\ session'.route = session.route
      /\ Contract = "v66" => session'.pin = "pinned" /\ session'.route = plan[c].route
      /\ session.first # Nothing \/ Contract # "v66"
           => session'.first = session.first /\ session'.frozen = session.frozen
  BY AcceptedFields
<1>6. Contract = "v66" /\ session.pin = "pinned" => session.route = plan[c].route
  BY DEF PinConflict
<1>7. Later(session, session')
  BY <1>1, <1>5, <1>6 DEF Later, SessionRow
<1>8. \A k \in Keys : row[k] # Nothing => SameRequest(row[k], row'[k])
  BY <1>4 DEF SameRequest, PriorOf
<1> QED BY <1>1, <1>3, <1>4, <1>5, <1>7, <1>8 DEF StoreStep, TypeInv, AdmissionTypeOK

LEMMA SettleActs ==
  ASSUME TypeInv, Settle
  PROVE  /\ StoreStep
         /\ session # Nothing /\ session'.active = Nothing
         /\ session'.body = session.body /\ session'.pin = session.pin /\ session'.route = session.route
         /\ session'.mode = session.mode /\ session'.materials = session.materials
         /\ session'.first = session.first /\ session'.frozen = session.frozen
         /\ \A k \in Keys : row'[k] # Nothing => row[k] # Nothing
<1> DEFINE k == session.active
<1>1. /\ session # Nothing /\ session \in SessionRow(deployment) /\ k # Nothing
      /\ k \in Keys /\ row[k] \in RequestRow(deployment) /\ log \in Seq(Keys)
      /\ session.version = Len(log) /\ row \in [Keys -> RequestRow(deployment) \cup {Nothing}]
      /\ Nothing \notin SessionRow(deployment) /\ Nothing \notin RequestRow(deployment)
  <2>1. session # Nothing /\ k # Nothing /\ session \in SessionRow(deployment)
    BY DEF Settle, TypeInv, AdmissionTypeOK
  <2>2. k \in Keys
    BY <2>1 DEF SessionRow, Keys
  <2>3. row[k] # Nothing
    BY <2>1 DEF TypeInv, ActiveOK
  <2> QED BY <2>1, <2>2, <2>3, Deployed DEF TypeInv, AdmissionTypeOK
<1>2. PICK e \in {"succeeded", "failed"} : row' = [row EXCEPT ![k].state = e]
  BY DEF Settle
<1>3. \/ session' = [session EXCEPT !.active = Nothing] /\ log' = log
      \/ session' = Extended(session) /\ log' = Append(log, k)
  BY DEF Settle
<1>4. row' = [row EXCEPT ![k] = [row[k] EXCEPT !.state = e]]
  BY <1>1, <1>2
<1>5. /\ [row[k] EXCEPT !.state = e] \in RequestRow(deployment)
      /\ SameRequest(row[k], [row[k] EXCEPT !.state = e])
  BY <1>1 DEF RequestRow, SameRequest
<1>6. /\ row' \in [Keys -> RequestRow(deployment) \cup {Nothing}]
      /\ \A j \in Keys : row[j] # Nothing => SameRequest(row[j], row'[j])
      /\ \A j \in Keys : row'[j] # Nothing => row[j] # Nothing
  BY <1>1, <1>4, <1>5 DEF SameRequest
<1>7. /\ session' \in SessionRow(deployment) /\ session'.active = Nothing
      /\ session'.body = session.body /\ session'.pin = session.pin /\ session'.route = session.route
      /\ session'.mode = session.mode /\ session'.materials = session.materials
      /\ session'.first = session.first /\ session'.frozen = session.frozen
      /\ session'.version = Len(log') /\ session.version <= session'.version
      /\ log' \in Seq(Keys) /\ Len(log) <= Len(log')
      /\ \A v \in 0..Len(log) : SubSeq(log', 1, v) = SubSeq(log, 1, v)
  <2>1. CASE session' = [session EXCEPT !.active = Nothing] /\ log' = log
    BY <1>1, <2>1 DEF SessionRow
  <2>2. CASE session' = Extended(session) /\ log' = Append(log, k)
    <3>1. /\ log' \in Seq(Keys) /\ Len(log') = Len(log) + 1
          /\ \A i \in 1..Len(log) : log'[i] = log[i]
      BY <1>1, <2>2
    <3>2. \A v \in 0..Len(log) : SubSeq(log', 1, v) = SubSeq(log, 1, v)
      BY <1>1, <3>1
    <3>3. session' = [session EXCEPT !.active = Nothing, !.version = session.version + 1]
      BY <2>2 DEF Extended
    <3>4. /\ session' \in SessionRow(deployment) /\ session'.active = Nothing
          /\ session'.body = session.body /\ session'.pin = session.pin /\ session'.route = session.route
          /\ session'.mode = session.mode /\ session'.materials = session.materials
          /\ session'.first = session.first /\ session'.frozen = session.frozen
          /\ session'.version = session.version + 1
      <4>1. PICK n \in Nat : n = session.version + 1
        BY <1>1
      <4>2. session' = [session EXCEPT !.active = Nothing, !.version = n]
        BY <3>3, <4>1, Zenon
      <4> QED BY <1>1, <4>1, <4>2 DEF SessionRow
    <3> QED BY <1>1, <3>1, <3>2, <3>4
  <2> QED BY <1>3, <2>1, <2>2
<1>8. Later(session, session')
  BY <1>7 DEF Later
<1> QED BY <1>1, <1>6, <1>7, <1>8 DEF StoreStep

LEMMA StoreSteps == ASSUME TypeInv, [Next]_vars PROVE StoreStep
<1>1. CASE \E c \in Openers : OpenFind(c)
  BY <1>1, StoreStays DEF OpenFind
<1>2. ASSUME NEW c \in Openers, OpenInsert(c) PROVE StoreStep
  <2>1. UNCHANGED <<row, log>>
    BY <1>2 DEF OpenInsert
  <2> QED BY <1>2, <2>1, OpenInsertActs, StoreOpens, StoreStays
<1>3. CASE \E c \in Callers : Load(c) \/ FindPrior(c) \/ Plan(c)
  BY <1>3, StoreStays DEF Load, FindPrior, Plan
<1>4. ASSUME NEW c \in Callers, Accept(c) PROVE StoreStep
  <2>1. UNCHANGED log
    BY <1>4 DEF Accept
  <2> QED BY <1>4, <2>1, AcceptActs, StoreAccepts, StoreStays
<1>5. CASE WarmInventory \/ UNCHANGED vars
  BY <1>5, StoreStays DEF WarmInventory
<1> QED BY <1>1, <1>2, <1>3, <1>4, <1>5, SettleActs, StoreExpires DEF Next
\* The types of one call's locals.
LocalsOf(c) ==
  /\ c \in Callers =>
       /\ pc[c] # "insert"
       /\ pc[c] # "start" =>
            /\ session # Nothing
            /\ key[c] \in Keys /\ ask[c] \in Intents
            /\ seen[c] \in SessionRow(deployment) /\ seen[c].version <= Len(log)
       /\ pc[c] = "accept" =>
            /\ plan[c].route \in Protocol /\ plan[c].says \in Said(deployment)
            /\ plan[c].turns \in Seq(Keys) /\ plan[c].hash \in Hash(deployment)
  /\ c \in Openers =>
       /\ pc[c] \in {"start", "insert", "answered"}
       /\ pc[c] \in {"insert", "answered"} => ask[c] \in Openings
  /\ pc[c] # "answered" => answer[c] = Nothing

LEMMA LocalsParts ==
  (\A c \in Calls : LocalsOf(c)) /\ ask = [c \in Calls |-> ask[c]] /\ seen = [c \in Calls |-> seen[c]]
    /\ plan = [c \in Calls |-> plan[c]]
  <=> LocalsOK /\ PlanOK
BY DEF LocalsOf, LocalsOK, PlanOK, Calls

\* A call that does not move keeps its own.
Still(b) ==
  /\ pc'[b] = pc[b] /\ answer'[b] = answer[b]
  /\ key'[b] = key[b] /\ ask'[b] = ask[b] /\ seen'[b] = seen[b] /\ plan'[b] = plan[b]

LEMMA LocalsKept ==
  ASSUME TypeInv, [Next]_vars, NEW b \in Calls, Still(b)
  PROVE  LocalsOf(b)'
<1>1. LocalsOf(b)
  BY LocalsParts DEF TypeInv
<1>2. (session # Nothing => session' # Nothing) /\ Len(log) <= Len(log') /\ Len(log) \in Nat /\ Len(log') \in Nat
  BY StoreSteps DEF StoreStep, TypeInv, AdmissionTypeOK
<1>3. b \in Callers /\ pc[b] # "start" => seen[b].version \in Nat
  BY <1>1 DEF LocalsOf, SessionRow
<1> QED BY <1>1, <1>2, <1>3, Fixed DEF LocalsOf, Still

\* What the call that moves has then.
LEMMA CallerMoves ==
  ASSUME TypeInv, [Next]_vars, NEW c \in Callers, Load(c) \/ FindPrior(c) \/ Plan(c) \/ Accept(c)
  PROVE  CallActs(c) /\ LocalsOf(c)'
<1>1. LocalsOf(c) /\ c \notin Openers /\ c \in Calls
  BY LocalsParts, Deployed DEF TypeInv, AdmissionTypeOK, Calls
<1>2. (session # Nothing => session' # Nothing) /\ Len(log) <= Len(log') /\ Len(log) \in Nat /\ Len(log') \in Nat
  BY StoreSteps DEF StoreStep, TypeInv, AdmissionTypeOK
<1>3. CASE Load(c)
  <2>1. session \in SessionRow(deployment) /\ session.version = Len(log)
    BY <1>3, LoadActs DEF TypeInv, AdmissionTypeOK
  <2> QED BY <1>1, <1>2, <1>3, <2>1, LoadActs, Fixed DEF LocalsOf
<1>4. CASE FindPrior(c) \/ Accept(c)
  <2>1. pc[c] # "start" => seen[c].version \in Nat
    BY <1>1 DEF LocalsOf, SessionRow
  <2> QED BY <1>1, <1>2, <1>4, <2>1, FindPriorActs, AcceptActs, Fixed DEF LocalsOf, CallActs
<1>5. CASE Plan(c)
  <2>1. pc[c] # "start" => seen[c].version \in Nat
    BY <1>1 DEF LocalsOf, SessionRow
  <2>2. CASE pc'[c] = "accept"
    <3>1. PlanMade(c) /\ answer'[c] = Nothing
      BY <1>5, <2>2, PlanActs
    <3> QED BY <1>1, <1>2, <1>5, <2>1, <2>2, <3>1, PlanActs, PlanMadeFits, Fixed DEF LocalsOf
  <2>3. CASE pc'[c] = "answered"
    BY <1>1, <1>2, <1>5, <2>1, <2>3, PlanActs, Fixed DEF LocalsOf
  <2> QED BY <1>5, <2>2, <2>3, PlanActs
<1> QED BY <1>3, <1>4, <1>5

LEMMA OpenerMoves ==
  ASSUME TypeInv, [Next]_vars, NEW c \in Openers, OpenFind(c) \/ OpenInsert(c)
  PROVE  CallActs(c) /\ LocalsOf(c)'
<1>1. LocalsOf(c) /\ c \notin Callers /\ c \in Calls
  BY LocalsParts, Deployed DEF TypeInv, AdmissionTypeOK, Calls
<1> QED BY <1>1, OpenFindActs, OpenInsertActs, Fixed DEF LocalsOf, CallActs

LEMMA OthersMove ==
  ASSUME TypeInv, Settle \/ WarmInventory \/ Expire \/ UNCHANGED vars, NEW b
  PROVE  Still(b) /\ UNCHANGED <<pc, key, ask, seen, plan, answer>>
BY DEF Settle, WarmInventory, Expire, Still

\* Every step moves one call, or none.
LEMMA OneMoves ==
  ASSUME TypeInv, [Next]_vars
  PROVE  \/ \E c \in Calls :
              /\ c \in Openers => OpenFind(c) \/ OpenInsert(c)
              /\ c \in Callers => Load(c) \/ FindPrior(c) \/ Plan(c) \/ Accept(c)
              /\ CallActs(c) /\ \A b \in Calls \ {c} : Still(b)
         \/ UNCHANGED <<pc, key, ask, seen, plan, answer>> /\ \A b \in Calls : Still(b)
<1>1. Openers \cap Callers = {} /\ Openers \subseteq Calls /\ Callers \subseteq Calls
  BY Deployed DEF TypeInv, AdmissionTypeOK, Calls
<1>2. ASSUME NEW c \in Calls, CallActs(c) PROVE \A b \in Calls \ {c} : Still(b)
  BY <1>2 DEF CallActs, Still
<1>3. ASSUME NEW c \in Openers, OpenFind(c) \/ OpenInsert(c)
      PROVE  c \in Calls /\ c \notin Callers /\ CallActs(c)
  BY <1>1, <1>3, OpenerMoves
<1>4. ASSUME NEW c \in Callers, Load(c) \/ FindPrior(c) \/ Plan(c) \/ Accept(c)
      PROVE  c \in Calls /\ c \notin Openers /\ CallActs(c)
  BY <1>1, <1>4, CallerMoves
<1>5. CASE Settle \/ WarmInventory \/ Expire \/ UNCHANGED vars
  BY <1>5, OthersMove
<1> QED BY <1>2, <1>3, <1>4, <1>5 DEF Next

LEMMA TypeStep == TypeInv /\ [Next]_vars => TypeInv'
<1> SUFFICES ASSUME TypeInv, [Next]_vars PROVE TypeInv'
  OBVIOUS
<1>1. StoreStep
  BY StoreSteps
<1>2. inventory' \in {"cold", "warm"}
  BY DEF TypeInv, AdmissionTypeOK, Next, OpenFind, OpenInsert, Load, FindPrior, Plan, Accept,
         Settle, WarmInventory, Expire
<1>3. /\ pc' \in [Calls -> {"start", "insert", "find", "plan", "accept", "answered"}]
      /\ answer' \in [Calls -> Code \cup {Nothing}]
      /\ key' \in [Calls -> Keys \cup {Nothing}]
      /\ ask' = [c \in Calls |-> ask'[c]] /\ seen' = [c \in Calls |-> seen'[c]]
      /\ plan' = [c \in Calls |-> plan'[c]]
      /\ \A b \in Calls : LocalsOf(b)'
  <2>1. CASE UNCHANGED <<pc, key, ask, seen, plan, answer>> /\ \A b \in Calls : Still(b)
    BY <2>1, LocalsKept DEF TypeInv, AdmissionTypeOK, LocalsOK
  <2>2. ASSUME NEW c \in Calls, CallActs(c), \A b \in Calls \ {c} : Still(b),
               c \in Openers => OpenFind(c) \/ OpenInsert(c),
               c \in Callers => Load(c) \/ FindPrior(c) \/ Plan(c) \/ Accept(c)
        PROVE  /\ pc' \in [Calls -> {"start", "insert", "find", "plan", "accept", "answered"}]
               /\ answer' \in [Calls -> Code \cup {Nothing}]
               /\ key' \in [Calls -> Keys \cup {Nothing}]
               /\ ask' = [b \in Calls |-> ask'[b]] /\ seen' = [b \in Calls |-> seen'[b]]
               /\ plan' = [b \in Calls |-> plan'[b]]
               /\ \A b \in Calls : LocalsOf(b)'
    <3>1. LocalsOf(c)'
      BY <2>2, CallerMoves, OpenerMoves DEF Calls
    <3>2. \A b \in Calls \ {c} : LocalsOf(b)'
      BY <2>2, LocalsKept
    <3>3. key'[c] \in Keys \cup {Nothing}
      <4>1. key[c] \in Keys \cup {Nothing}
        BY <2>2 DEF TypeInv, AdmissionTypeOK
      <4> QED BY <2>2, <4>1, OpenFindActs, OpenInsertActs, LoadActs, FindPriorActs, PlanActs, AcceptActs DEF Calls
    <3>4. key' \in [Calls -> Keys \cup {Nothing}]
      BY <2>2, <3>3 DEF TypeInv, AdmissionTypeOK, CallActs
    <3> QED BY <2>2, <3>1, <3>2, <3>4 DEF CallActs
  <2> QED BY <2>1, <2>2, OneMoves
<1>4. LocalsOK' /\ PlanOK'
  <2>1. /\ \A c \in Calls' : LocalsOf(c)'
        /\ ask' = [c \in Calls' |-> ask'[c]] /\ seen' = [c \in Calls' |-> seen'[c]]
        /\ plan' = [c \in Calls' |-> plan'[c]]
    BY <1>3, Fixed
  <2> QED BY <2>1, Fixed DEF LocalsOf, LocalsOK, PlanOK, Calls
<1>5. AdmissionTypeOK'
  BY <1>1, <1>2, <1>3, Fixed DEF AdmissionTypeOK, StoreStep, TypeInv
<1>6. BlankOK' /\ ActiveOK'
  BY <1>1, Fixed DEF BlankOK, ActiveOK, StoreStep
<1> QED BY <1>4, <1>5, <1>6 DEF TypeInv
-----------------------------------------------------------------------------
(* The invariant.                                                          *)

\* The session is pinned before its first row, and only v66 opens it
\* otherwise; the active request was planned on the turns it holds.
SessionInv ==
  session # Nothing =>
    /\ session.pin = "pending" =>
         Contract = "v66" /\ session.first = Nothing /\ \A k \in Keys : row[k] = Nothing
    /\ Contract # "v66" => session.first = Nothing
    /\ Contract # "v2" /\ session.mode = "cumulative" /\ session.active # Nothing =>
         row[session.active].turns = log

\* The hash of a v2.2 identity is a function of the intent and the route.
V2Hash(i, p) == [intent |-> i, route |-> p, says |-> i.says, version |-> 0, cache |-> "cold"]

\* A request's row: it runs on the session's route, which serves it, and its
\* hash is one of its own intent.
RowInv(k) ==
  row[k] # Nothing =>
    /\ row[k].route = session.route
    /\ row[k].route \in row[k].intent.fits
    /\ session.materials \/ row[k].intent.material => row[k].route = "gemini_native"
    /\ row[k].hash.intent = row[k].intent
    /\ Contract = "v2" => row[k].hash = V2Hash(row[k].intent, session.route)

HasPlan(c) == plan[c] # Nothing \/ pc[c] = "accept"

\* A plan is made of the copy its caller read, on the turns that copy names.
PlanInv(c) ==
  HasPlan(c) =>
    /\ pc[c] \in {"accept", "answered"}
    /\ plan[c].route = MaterialisedRoute(seen[c], ask[c])
    /\ plan[c].route \in Protocol
    /\ ~Refuses(seen[c], ask[c], plan[c].route)
    /\ plan[c].says = EffectiveInstructions(seen[c], ask[c])
    /\ plan[c].version = seen[c].version
    /\ seen[c].mode # "ephemeral_turn" => plan[c].turns = SubSeq(log, 1, seen[c].version)
    /\ plan[c].hash.intent = ask[c]
    /\ Contract = "v2" => plan[c].hash = V2Hash(ask[c], plan[c].route)

\* The copy a caller read is an earlier state of the session row.
SeenInv(c) ==
  pc[c] # "start" =>
    /\ Later(seen[c], session)
    /\ seen[c].pin = "pending" => Contract = "v66"

AnswerInv(c) ==
  /\ answer[c] = "row" => row[key[c]] # Nothing /\ row[key[c]].intent = ask[c]
  /\ answer[c] = "IDEMPOTENCY_CONFLICT" /\ Contract # "v3" =>
       row[key[c]] # Nothing /\ row[key[c]].intent # ask[c]
  /\ answer[c] = "ROUTE_PIN_CONFLICT" => seen[c].pin = "pending"

CallerInv(c) == PlanInv(c) /\ SeenInv(c) /\ AnswerInv(c)

OpenerInv(c) == answer[c] = "session" => session # Nothing /\ session.body = ask[c]

AdmissionInv ==
  /\ TypeInv
  /\ SessionInv
  /\ \A k \in Keys : RowInv(k)
  /\ \A c \in Callers : CallerInv(c)
  /\ \A c \in Openers : OpenerInv(c)

LEMMA InvInit == Init => AdmissionInv
<1> SUFFICES ASSUME Init PROVE AdmissionInv
  OBVIOUS
<1>1. TypeInv /\ deployment \in Deployments
  BY TypeInit DEF Init
<1>2. /\ \A k \in Keys : row[k] = Nothing
      /\ \A c \in Calls : pc[c] = "start" /\ plan[c] = Nothing /\ answer[c] = Nothing
      /\ Nothing \notin Code
  BY <1>1, Deployed DEF Init
<1>3. SessionInv
  <2>1. CASE session = Nothing
    BY <2>1 DEF SessionInv
  <2>2. CASE \E o \in Openings : session = Opened(o)
    BY <1>1, <1>2, <2>2, OpenedRow DEF SessionInv, OpeningPin
  <2> QED BY <2>1, <2>2 DEF Init
<1>4. \A c \in Calls : answer[c] \notin {"row", "IDEMPOTENCY_CONFLICT", "ROUTE_PIN_CONFLICT", "session"}
  BY <1>2 DEF Code
<1>5. \A c \in Callers : CallerInv(c)
  BY <1>2, <1>4 DEF CallerInv, PlanInv, SeenInv, AnswerInv, HasPlan, Calls
<1>6. \A c \in Openers : OpenerInv(c)
  BY <1>4 DEF OpenerInv, Calls
<1> QED BY <1>1, <1>2, <1>3, <1>5, <1>6 DEF AdmissionInv, RowInv

-----------------------------------------------------------------------------
(* The tables keep it.                                                     *)

LEMMA LaterAgain ==
  ASSUME NEW s \in SessionRow(deployment), NEW t \in SessionRow(deployment),
         NEW u \in SessionRow(deployment), Later(s, t), Later(t, u)
  PROVE  Later(s, u)
BY DEF Later, SessionRow

TableInv == SessionInv /\ \A k \in Keys : RowInv(k)

\* A step that ends the active request, or keeps it and the history.
LEMMA TableKept ==
  ASSUME AdmissionInv, [Next]_vars, session # Nothing,
         session'.pin = session.pin, session'.route = session.route,
         session'.mode = session.mode, session'.materials = session.materials,
         session'.first = session.first,
         session'.active = Nothing \/ (session'.active = session.active /\ log' = log),
         \A k \in Keys : row'[k] # Nothing => row[k] # Nothing
  PROVE  TableInv'
<1>1. \A k \in Keys : row[k] # Nothing => SameRequest(row[k], row'[k])
  BY StoreSteps DEF StoreStep, AdmissionInv
<1>2. SessionInv /\ \A k \in Keys : RowInv(k)
  BY DEF AdmissionInv
<1>3. session.active # Nothing => session.active \in Keys /\ row[session.active] # Nothing
  BY DEF AdmissionInv, TypeInv, AdmissionTypeOK, ActiveOK, SessionRow, Keys
<1>4. SessionInv'
  BY <1>1, <1>2, <1>3, Fixed DEF SessionInv, SameRequest
<1>5. ASSUME NEW k \in Keys PROVE RowInv(k)'
  BY <1>1, <1>2, <1>5, Fixed DEF RowInv, SameRequest, V2Hash
<1> QED BY <1>4, <1>5, Fixed DEF TableInv

LEMMA TableOpens ==
  ASSUME AdmissionInv, [Next]_vars, NEW o \in Openings, session = Nothing,
         session' = Opened(o), UNCHANGED <<row, log>>
  PROVE  TableInv'
<1>1. \A k \in Keys : row'[k] = Nothing
  BY DEF AdmissionInv, TypeInv, BlankOK
<1>2. session'.pin = OpeningPin(o) /\ session'.first = Nothing /\ session'.active = Nothing
  BY OpenedRow DEF AdmissionInv, TypeInv, AdmissionTypeOK
<1> QED BY <1>1, <1>2, Fixed DEF TableInv, SessionInv, RowInv, OpeningPin

\* What a plan says of the request it becomes.
LEMMA PlanServes ==
  ASSUME AdmissionInv, NEW c \in Callers, pc[c] = "accept"
  PROVE  /\ Later(seen[c], session)
         /\ session.pin = "pinned" /\ seen[c].pin = "pinned" => plan[c].route = session.route
         /\ Contract # "v66" => plan[c].route = session.route
         /\ plan[c].route \in ask[c].fits
         /\ session.materials \/ ask[c].material => plan[c].route = "gemini_native"
         /\ plan[c].hash.intent = ask[c]
         /\ Contract = "v2" => plan[c].hash = V2Hash(ask[c], session.route)
<1>1. /\ PlanInv(c) /\ SeenInv(c) /\ HasPlan(c)
  BY DEF AdmissionInv, CallerInv, HasPlan
<1>2. Later(seen[c], session) /\ seen[c].materials = session.materials
  BY <1>1 DEF SeenInv, Later
<1>3. seen[c].pin \in {"pending", "pinned"}
  BY DEF AdmissionInv, TypeInv, LocalsOK, SessionRow
<1>4. seen[c].pin = "pinned" => plan[c].route = session.route
  BY <1>1, <1>2 DEF PlanInv, MaterialisedRoute, Later
<1>5. Contract # "v66" => seen[c].pin = "pinned"
  BY <1>1, <1>3 DEF SeenInv
<1>6. plan[c].route \in ask[c].fits
      /\ (session.materials \/ ask[c].material => plan[c].route = "gemini_native")
  BY <1>1, <1>2 DEF PlanInv, Refuses, Protocol
<1> QED BY <1>1, <1>2, <1>4, <1>5, <1>6 DEF PlanInv

LEMMA TableAccepts ==
  ASSUME AdmissionInv, [Next]_vars, NEW c \in Callers, pc[c] = "accept",
         session' = AcceptedSession(c), row' = [row EXCEPT ![key[c]] = AcceptedRequest(c)],
         PriorOf(c) = Nothing, ~PinConflict(c), ~HistoryMoved(c), UNCHANGED log
  PROVE  TableInv'
<1>1. /\ TypeInv /\ SessionInv /\ (\A k \in Keys : RowInv(k)) /\ key[c] \in Keys
      /\ session # Nothing /\ session \in SessionRow(deployment) /\ log \in Seq(Keys)
      /\ session.version = Len(log)
  BY DEF AdmissionInv, TypeInv, LocalsOK, AdmissionTypeOK
<1>2. /\ row'[key[c]] = AcceptedRequest(c)
      /\ \A k \in Keys \ {key[c]} : row'[k] = row[k]
  BY <1>1, StoreAccepts
<1>3. /\ session'.mode = session.mode /\ session'.materials = session.materials
      /\ session'.active = key[c]
      /\ Contract # "v66" => session'.pin = session.pin /\ session'.route = session.route /\ session'.first = session.first
      /\ Contract = "v66" => session'.pin = "pinned" /\ session'.route = plan[c].route
  BY <1>1, AcceptedFields
<1>4. session'.route = plan[c].route
  BY <1>3, PlanServes
<1>5. ASSUME NEW k \in Keys, row[k] # Nothing PROVE session'.route = session.route
  <2>1. session.pin = "pinned"
    BY <1>1, <1>5 DEF SessionInv, SessionRow
  <2> QED BY <1>3, <1>4, <2>1 DEF PinConflict
<1>6. ASSUME NEW k \in Keys PROVE RowInv(k)'
  <2>1. CASE k = key[c]
    <3>1. row'[k] = AcceptedRequest(c)
      BY <1>2, <2>1
    <3>2. /\ row'[k].route = plan[c].route /\ row'[k].intent = ask[c] /\ row'[k].hash = plan[c].hash
      BY <3>1 DEF AcceptedRequest
    <3>3. Contract = "v2" => session'.route = session.route
      BY <1>3
    <3> QED BY <1>3, <1>4, <3>2, <3>3, PlanServes, Fixed DEF RowInv, V2Hash
  <2>2. CASE k # key[c]
    <3>1. row'[k] = row[k]
      BY <1>2, <2>2
    <3> QED BY <1>1, <1>3, <1>5, <3>1, Fixed DEF RowInv, V2Hash
  <2> QED BY <2>1, <2>2
<1>7. SessionInv'
  <2>1. session'.pin = "pending" => session.pin = "pending" /\ Contract # "v66"
    BY <1>3
  <2>2. Contract # "v2" /\ session'.mode = "cumulative" => row'[session'.active].turns = log'
    <3> SUFFICES ASSUME Contract # "v2", session.mode = "cumulative"
                 PROVE  row'[key[c]].turns = log
      BY <1>3
    <3>1. PlanInv(c) /\ HasPlan(c) /\ Later(seen[c], session)
      BY PlanServes DEF AdmissionInv, CallerInv, HasPlan
    <3>2. seen[c].version = session.version /\ seen[c].mode = "cumulative"
      BY <3>1 DEF HistoryMoved, PlanInv, Later
    <3>3. plan[c].turns = SubSeq(log, 1, Len(log))
      BY <1>1, <3>1, <3>2 DEF PlanInv
    <3>4. SubSeq(log, 1, Len(log)) = log
      BY <1>1
    <3>5. row'[key[c]].turns = plan[c].turns
      BY <1>2 DEF AcceptedRequest
    <3> QED BY <3>3, <3>4, <3>5
  <2> QED BY <1>1, <1>3, <2>1, <2>2, Fixed DEF SessionInv
<1> QED BY <1>6, <1>7, Fixed DEF TableInv

LEMMA TableStep == AdmissionInv /\ [Next]_vars => TableInv'
<1> SUFFICES ASSUME AdmissionInv, [Next]_vars PROVE TableInv'
  OBVIOUS
<1>1. TypeInv
  BY DEF AdmissionInv
<1>2. ASSUME UNCHANGED <<session, row, log>> PROVE TableInv'
  <2>1. CASE session = Nothing
    <3>1. \A k \in Keys : row'[k] = Nothing
      BY <1>1, <1>2, <2>1 DEF TypeInv, BlankOK
    <3> QED BY <1>2, <2>1, <3>1, Fixed DEF TableInv, SessionInv, RowInv
  <2>2. CASE session # Nothing
    BY <1>2, <2>2, TableKept
  <2> QED BY <2>1, <2>2
<1>3. ASSUME NEW c \in Openers, OpenInsert(c) PROVE TableInv'
  <2>1. UNCHANGED <<row, log>>
    BY <1>3 DEF OpenInsert
  <2> QED BY <1>1, <1>2, <1>3, <2>1, OpenInsertActs, TableOpens
<1>4. ASSUME NEW c \in Callers, Accept(c) PROVE TableInv'
  <2>1. UNCHANGED log
    BY <1>4 DEF Accept
  <2> QED BY <1>1, <1>2, <1>4, <2>1, AcceptActs, TableAccepts
<1>5. CASE Settle
  BY <1>1, <1>5, SettleActs, TableKept
<1>6. CASE Expire
  <2>1. /\ session # Nothing /\ session \in SessionRow(deployment)
        /\ session' = [session EXCEPT !.state = "expired"] /\ UNCHANGED <<row, log>>
    BY <1>1, <1>6 DEF Expire, TypeInv, AdmissionTypeOK
  <2>2. /\ session'.pin = session.pin /\ session'.route = session.route
        /\ session'.mode = session.mode /\ session'.materials = session.materials
        /\ session'.first = session.first /\ session'.active = session.active
    BY <2>1 DEF SessionRow
  <2> QED BY <2>1, <2>2, TableKept
<1>7. ASSUME NEW c, OpenFind(c) \/ Load(c) \/ FindPrior(c) \/ Plan(c) PROVE TableInv'
  <2>1. UNCHANGED <<session, row, log>>
    BY <1>7 DEF OpenFind, Load, FindPrior, Plan
  <2> QED BY <1>2, <2>1
<1>8. CASE WarmInventory \/ UNCHANGED vars
  BY <1>2, <1>8 DEF WarmInventory
<1> QED BY <1>3, <1>4, <1>5, <1>6, <1>7, <1>8 DEF Next
-----------------------------------------------------------------------------
(* The calls keep it.                                                      *)

\* The copy of a caller that does not read, in the next state.
LEMMA SeenKept ==
  ASSUME AdmissionInv, [Next]_vars, NEW c \in Callers, pc[c] # "start", seen'[c] = seen[c]
  PROVE  SeenInv(c)'
<1>1. /\ Later(seen[c], session) /\ (seen[c].pin = "pending" => Contract = "v66")
      /\ session # Nothing /\ seen[c] \in SessionRow(deployment)
      /\ session \in SessionRow(deployment)
  BY DEF AdmissionInv, CallerInv, SeenInv, TypeInv, LocalsOK, AdmissionTypeOK
<1>2. Later(session, session') /\ session' \in SessionRow(deployment)
  BY <1>1, StoreSteps DEF StoreStep, AdmissionInv
<1>3. Later(seen[c], session')
  BY <1>1, <1>2, LaterAgain
<1>4. Later(seen[c], session)' <=> Later(seen'[c], session')
  BY DEF Later
<1> QED BY <1>1, <1>3, <1>4, Fixed DEF SeenInv

\* A plan stays the one that was made: the turns it was made on are still
\* where they were.
LEMMA PlanKept ==
  ASSUME AdmissionInv, [Next]_vars, NEW c \in Callers, HasPlan(c), pc'[c] \in {"accept", "answered"},
         plan'[c] = plan[c], seen'[c] = seen[c], ask'[c] = ask[c]
  PROVE  PlanInv(c)'
<1>1. PlanInv(c) /\ pc[c] # "start"
  BY DEF AdmissionInv, CallerInv, PlanInv
<1>2. /\ seen[c] \in SessionRow(deployment) /\ seen[c].version \in Nat /\ seen[c].version <= Len(log)
      /\ log \in Seq(Keys)
  BY <1>1 DEF AdmissionInv, TypeInv, LocalsOK, AdmissionTypeOK, SessionRow
<1>3. seen[c].version \in 0..Len(log)
  BY <1>2
<1>4. SubSeq(log', 1, seen[c].version) = SubSeq(log, 1, seen[c].version)
  BY <1>3, StoreSteps DEF StoreStep, AdmissionInv
<1>5. /\ MaterialisedRoute(seen[c], ask[c])' = MaterialisedRoute(seen[c], ask[c])
      /\ EffectiveInstructions(seen[c], ask[c])' = EffectiveInstructions(seen[c], ask[c])
      /\ Refuses(seen[c], ask[c], plan[c].route)' = Refuses(seen[c], ask[c], plan[c].route)
      /\ V2Hash(ask[c], plan[c].route)' = V2Hash(ask[c], plan[c].route)
  BY Fixed DEF MaterialisedRoute, PreferredProtocol, EffectiveInstructions, Refuses, V2Hash
<1> QED BY <1>1, <1>4, <1>5, Fixed DEF PlanInv

\* An answered row stays the row of the caller's intent.
LEMMA AnswerKept ==
  ASSUME AdmissionInv, [Next]_vars, NEW c \in Callers, AnswerInv(c), key[c] \in Keys,
         answer'[c] = answer[c], key'[c] = key[c], seen'[c] = seen[c], ask'[c] = ask[c]
  PROVE  AnswerInv(c)'
<1>1. row[key[c]] # Nothing => SameRequest(row[key[c]], row'[key[c]])
  BY StoreSteps DEF StoreStep, AdmissionInv
<1> QED BY <1>1, Fixed DEF AnswerInv, SameRequest

LEMMA NoAnswer ==
  ASSUME TypeInv, NEW c, answer'[c] \in {Nothing, "refused", "MATERIAL_NOT_USABLE", "ROUTE_CAPABILITY_UNAVAILABLE"}
  PROVE  AnswerInv(c)'
<1>1. Nothing \notin Code
  BY Deployed DEF TypeInv, AdmissionTypeOK
<1> QED BY <1>1 DEF AnswerInv, Code

LEMMA CallerStays ==
  ASSUME AdmissionInv, [Next]_vars, NEW c \in Callers, Still(c)
  PROVE  CallerInv(c)'
<1>1. CallerInv(c) /\ TypeInv /\ c \in Calls
  BY DEF AdmissionInv, Calls
<1>2. PlanInv(c)'
  <2>1. CASE HasPlan(c)
    <3>1. pc'[c] \in {"accept", "answered"}
      BY <1>1, <2>1 DEF CallerInv, PlanInv, Still
    <3> QED BY <2>1, <3>1, PlanKept DEF Still
  <2>2. CASE ~HasPlan(c)
    BY <2>2 DEF HasPlan, PlanInv, Still
  <2> QED BY <2>1, <2>2
<1>3. SeenInv(c)'
  <2>1. CASE pc[c] # "start"
    BY <2>1, SeenKept DEF Still
  <2>2. CASE pc[c] = "start"
    BY <2>2 DEF SeenInv, Still
  <2> QED BY <2>1, <2>2
<1>4. AnswerInv(c)'
  <2>1. CASE pc[c] # "start"
    <3>1. key[c] \in Keys
      BY <1>1, <2>1 DEF TypeInv, LocalsOK
    <3> QED BY <1>1, <3>1, AnswerKept DEF CallerInv, Still
  <2>2. CASE pc[c] = "start"
    <3>1. answer'[c] = Nothing
      BY <1>1, <2>2 DEF TypeInv, LocalsOK, Still
    <3> QED BY <1>1, <3>1, NoAnswer
  <2> QED BY <2>1, <2>2
<1> QED BY <1>2, <1>3, <1>4 DEF CallerInv

LEMMA CallerLoads ==
  ASSUME AdmissionInv, [Next]_vars, NEW c \in Callers, Load(c)
  PROVE  CallerInv(c)'
<1>1. TypeInv /\ CallerInv(c) /\ SessionInv
  BY DEF AdmissionInv
<1>2. /\ pc'[c] = "find" /\ answer'[c] = Nothing /\ seen'[c] = session /\ plan'[c] = plan[c]
      /\ pc[c] = "start" /\ session # Nothing
  BY <1>1, LoadActs
<1>3. plan[c] = Nothing
  BY <1>1, <1>2 DEF CallerInv, PlanInv, HasPlan
<1>4. PlanInv(c)'
  BY <1>2, <1>3 DEF PlanInv, HasPlan
<1>5. session' = session /\ session \in SessionRow(deployment)
  BY <1>1, <1>2 DEF Load, TypeInv, AdmissionTypeOK
<1>6. SeenInv(c)'
  <2>1. Later(session, session)
    BY <1>5 DEF Later, SessionRow
  <2>2. Later(seen[c], session)' <=> Later(seen'[c], session')
    BY DEF Later
  <2>3. Later(seen[c], session)'
    BY <1>2, <1>5, <2>1, <2>2
  <2> QED BY <1>1, <1>2, <2>3, Fixed DEF SeenInv, SessionInv
<1>7. AnswerInv(c)'
  BY <1>1, <1>2, NoAnswer
<1> QED BY <1>4, <1>6, <1>7 DEF CallerInv

LEMMA CallerFinds ==
  ASSUME AdmissionInv, [Next]_vars, NEW c \in Callers, FindPrior(c)
  PROVE  CallerInv(c)'
<1>1. TypeInv /\ CallerInv(c)
  BY DEF AdmissionInv
<1>2. /\ pc[c] = "find" /\ key'[c] = key[c] /\ ask'[c] = ask[c] /\ seen'[c] = seen[c]
      /\ plan'[c] = plan[c] /\ pc'[c] # "accept"
      /\ \/ answer'[c] = Nothing
         \/ row[key[c]] # Nothing /\ answer'[c] = Replay(row[key[c]], ask[c])
  BY <1>1, FindPriorActs
<1>3. plan[c] = Nothing
  BY <1>1, <1>2 DEF CallerInv, PlanInv, HasPlan
<1>4. PlanInv(c)'
  BY <1>2, <1>3 DEF PlanInv, HasPlan
<1>5. SeenInv(c)'
  BY <1>2, SeenKept
<1>6. AnswerInv(c)'
  <2>1. CASE answer'[c] = Nothing
    BY <1>1, <2>1, NoAnswer
  <2>2. CASE row[key[c]] # Nothing /\ answer'[c] = Replay(row[key[c]], ask[c])
    <3>1. row' = row
      BY DEF FindPrior
    <3> QED BY <1>2, <2>2, <3>1 DEF AnswerInv, Replay
  <2> QED BY <1>2, <2>1, <2>2
<1> QED BY <1>4, <1>5, <1>6 DEF CallerInv

LEMMA CallerPlans ==
  ASSUME AdmissionInv, [Next]_vars, NEW c \in Callers, Plan(c)
  PROVE  CallerInv(c)'
<1>1. TypeInv /\ CallerInv(c)
  BY DEF AdmissionInv
<1>2. /\ pc[c] = "plan" /\ key'[c] = key[c] /\ ask'[c] = ask[c] /\ seen'[c] = seen[c]
  BY <1>1, PlanActs
<1>3. plan[c] = Nothing
  BY <1>1, <1>2 DEF CallerInv, PlanInv, HasPlan
<1>4. SeenInv(c)'
  BY <1>2, SeenKept
<1>5. CASE /\ pc'[c] = "answered" /\ plan'[c] = plan[c]
           /\ answer'[c] \in {"ROUTE_CAPABILITY_UNAVAILABLE", "refused", "MATERIAL_NOT_USABLE"}
  <2>1. AnswerInv(c)'
    BY <1>1, <1>5, NoAnswer
  <2>2. PlanInv(c)'
    BY <1>3, <1>5 DEF PlanInv, HasPlan
  <2> QED BY <1>4, <2>1, <2>2 DEF CallerInv
<1>6. CASE pc'[c] = "accept" /\ answer'[c] = Nothing /\ PlanMade(c)
  <2>1. AnswerInv(c)'
    BY <1>1, <1>6, NoAnswer
  <2>2. /\ plan'[c].route = MaterialisedRoute(seen[c], ask[c])
        /\ plan'[c].route \in Protocol
        /\ ~Refuses(seen[c], ask[c], plan'[c].route)
        /\ plan'[c].says = EffectiveInstructions(seen[c], ask[c])
        /\ plan'[c].version = seen[c].version
        /\ plan'[c].turns = PlannedTurns(c)
        /\ plan'[c].hash = RequestHash(c, plan'[c].route, plan'[c].says)
    BY <1>1, <1>2, <1>6, PlanMadeFits
  <2>3. log' = log
    BY DEF Plan
  <2>4. seen[c].mode # "ephemeral_turn" => plan'[c].turns = SubSeq(log', 1, seen[c].version)
    BY <2>2, <2>3 DEF PlannedTurns
  <2>5. plan'[c].hash.intent = ask[c]
        /\ (Contract = "v2" => plan'[c].hash = V2Hash(ask[c], plan'[c].route))
    BY <2>2 DEF RequestHash, V2Hash, EffectiveInstructions
  <2>6. PlanInv(c)'
    BY <1>2, <1>6, <2>2, <2>4, <2>5, Fixed
       DEF PlanInv, MaterialisedRoute, PreferredProtocol, EffectiveInstructions, Refuses, V2Hash
  <2> QED BY <1>4, <2>1, <2>6 DEF CallerInv
<1> QED BY <1>1, <1>5, <1>6, PlanActs

\* What the accept functions answer of an earlier row.
LEMMA PriorAnswers ==
  ASSUME AdmissionInv, NEW c \in Callers, pc[c] = "accept", PriorOf(c) # Nothing
  PROVE  /\ AcceptPrior(c) = "row" => row[key[c]].intent = ask[c]
         /\ AcceptPrior(c) = "IDEMPOTENCY_CONFLICT" /\ Contract # "v3" => row[key[c]].intent # ask[c]
<1>1. key[c] \in Keys /\ RowInv(key[c]) /\ row[key[c]] # Nothing /\ Contract \in {"v66", "v3", "v2"}
  BY Deployed DEF AdmissionInv, TypeInv, LocalsOK, AdmissionTypeOK, PriorOf
<1>2. /\ row[key[c]].hash.intent = row[key[c]].intent
      /\ plan[c].hash.intent = ask[c]
      /\ Contract = "v2" => /\ row[key[c]].hash = V2Hash(row[key[c]].intent, session.route)
                            /\ plan[c].hash = V2Hash(ask[c], session.route)
  BY <1>1, PlanServes DEF RowInv
<1>3. CASE Contract = "v66"
  BY <1>3 DEF AcceptPrior, Replay, PriorOf
<1>4. CASE Contract # "v66"
  <2>1. AcceptPrior(c) = IF row[key[c]].hash = plan[c].hash THEN "row" ELSE "IDEMPOTENCY_CONFLICT"
    BY <1>4 DEF AcceptPrior, PriorOf
  <2>2. AcceptPrior(c) = "row" => row[key[c]].hash = plan[c].hash
    BY <2>1
  <2>3. AcceptPrior(c) = "IDEMPOTENCY_CONFLICT" => row[key[c]].hash # plan[c].hash
    BY <2>1
  <2> QED BY <1>1, <1>2, <1>4, <2>2, <2>3
<1> QED BY <1>3, <1>4

LEMMA CallerAccepts ==
  ASSUME AdmissionInv, [Next]_vars, NEW c \in Callers, Accept(c)
  PROVE  CallerInv(c)'
<1>1. TypeInv /\ CallerInv(c)
  BY DEF AdmissionInv
<1>2. /\ pc[c] = "accept" /\ pc'[c] = "answered"
      /\ key'[c] = key[c] /\ ask'[c] = ask[c] /\ seen'[c] = seen[c] /\ plan'[c] = plan[c]
  BY <1>1, AcceptActs
<1>3. SeenInv(c)' /\ PlanInv(c)'
  BY <1>2, SeenKept, PlanKept DEF HasPlan
<1>4. key[c] \in Keys /\ Nothing \notin Code /\ Nothing \notin RequestRow(deployment)
  BY <1>1, <1>2, Deployed DEF TypeInv, LocalsOK, AdmissionTypeOK
<1>5. CASE answer'[c] = Refusal(c) /\ Refusal(c) # Nothing /\ UNCHANGED <<session, row>>
  <2>1. Refusal(c) \in {"row", "IDEMPOTENCY_CONFLICT"} => PriorOf(c) # Nothing /\ Refusal(c) = AcceptPrior(c)
    BY <1>1, RefusalCases
  <2>2. Refusal(c) = "ROUTE_PIN_CONFLICT" => seen[c].pin = "pending"
    <3> SUFFICES ASSUME Refusal(c) = "ROUTE_PIN_CONFLICT" PROVE seen[c].pin = "pending"
      OBVIOUS
    <3>1. session.pin = "pinned" /\ session.route # plan[c].route
      BY <1>1, RefusalCases DEF PinConflict
    <3>2. seen[c].pin # "pinned"
      BY <1>2, <3>1, PlanServes
    <3>3. seen[c].pin \in {"pending", "pinned"}
      BY <1>1, <1>2 DEF TypeInv, LocalsOK, SessionRow
    <3> QED BY <3>2, <3>3
  <2>3. /\ Refusal(c) = "row" => row[key[c]] # Nothing /\ row[key[c]].intent = ask[c]
        /\ Refusal(c) = "IDEMPOTENCY_CONFLICT" /\ Contract # "v3" =>
             row[key[c]] # Nothing /\ row[key[c]].intent # ask[c]
    BY <1>2, <2>1, PriorAnswers DEF PriorOf
  <2>4. AnswerInv(c)'
    BY <1>2, <1>5, <2>2, <2>3, Fixed DEF AnswerInv
  <2> QED BY <1>3, <2>4 DEF CallerInv
<1>6. CASE /\ answer'[c] = "row" /\ session' = AcceptedSession(c)
           /\ row' = [row EXCEPT ![key[c]] = AcceptedRequest(c)]
           /\ PriorOf(c) = Nothing /\ ~PinConflict(c)
  <2>1. StoreStep /\ row'[key[c]] = AcceptedRequest(c)
    <3>1. UNCHANGED log
      BY DEF Accept
    <3> QED BY <1>1, <1>2, <1>6, <3>1, StoreAccepts
  <2>2. row'[key[c]] # Nothing
    <3>1. session # Nothing /\ key[c] # Nothing /\ session'.active = key[c]
      BY <1>1, <1>2, <1>4, <1>6, AcceptedFields, Deployed DEF TypeInv, LocalsOK, AdmissionTypeOK
    <3> QED BY <2>1, <3>1 DEF StoreStep
  <2>3. row'[key[c]].intent = ask[c]
    BY <2>1 DEF AcceptedRequest
  <2>4. AnswerInv(c)'
    BY <1>2, <1>6, <2>2, <2>3 DEF AnswerInv
  <2> QED BY <1>3, <2>4 DEF CallerInv
<1> QED BY <1>1, <1>5, <1>6, AcceptActs

LEMMA OpenerStep ==
  ASSUME AdmissionInv, [Next]_vars, NEW c \in Openers
  PROVE  OpenerInv(c)'
<1>1. TypeInv /\ OpenerInv(c) /\ c \in Calls /\ Nothing \notin Code
  BY Deployed DEF AdmissionInv, TypeInv, AdmissionTypeOK, Calls
<1>2. session # Nothing => session' # Nothing /\ session'.body = session.body
  BY <1>1, StoreSteps DEF StoreStep, Later
<1>3. CASE Still(c)
  BY <1>1, <1>2, <1>3 DEF OpenerInv, Still
<1>4. CASE OpenFind(c)
  BY <1>1, <1>2, <1>4, OpenFindActs DEF OpenerInv
<1>5. CASE OpenInsert(c)
  <2>1. CASE session = Nothing /\ session' = Opened(ask[c]) /\ ask[c] \in Openings
    <3>1. session' \in SessionRow(deployment) /\ session'.body = ask[c]
      BY <1>1, <2>1, OpenedRow DEF TypeInv, AdmissionTypeOK
    <3>2. session' # Nothing
      BY <1>1, <3>1, Deployed DEF TypeInv, AdmissionTypeOK
    <3> QED BY <1>1, <1>5, <3>1, <3>2, OpenInsertActs DEF OpenerInv
  <2>2. CASE answer'[c] = "error"
    BY <2>2 DEF OpenerInv
  <2> QED BY <1>1, <1>5, <2>1, <2>2, OpenInsertActs
<1> QED BY <1>1, <1>3, <1>4, <1>5, OneMoves

LEMMA CallerStep ==
  ASSUME AdmissionInv, [Next]_vars, NEW c \in Callers
  PROVE  CallerInv(c)'
<1>1. TypeInv /\ c \in Calls
  BY DEF AdmissionInv, Calls
<1> QED BY <1>1, OneMoves, CallerStays, CallerLoads, CallerFinds, CallerPlans, CallerAccepts

LEMMA InvStep == AdmissionInv /\ [Next]_vars => AdmissionInv'
<1> SUFFICES ASSUME AdmissionInv, [Next]_vars PROVE AdmissionInv'
  OBVIOUS
<1>1. TypeInv'
  BY TypeStep DEF AdmissionInv
<1>2. SessionInv' /\ \A k \in Keys' : RowInv(k)'
  BY TableStep DEF TableInv
<1>3. \A c \in Callers' : CallerInv(c)'
  BY CallerStep, Fixed
<1>4. \A c \in Openers' : OpenerInv(c)'
  BY OpenerStep, Fixed
<1> QED BY <1>1, <1>2, <1>3, <1>4 DEF AdmissionInv

LEMMA InvAlways == Spec => []AdmissionInv
BY InvInit, InvStep, PTL DEF Spec

-----------------------------------------------------------------------------
(* The theorems.                                                           *)

\* A call with a plan has a copy that is an earlier state of the session, and
\* a copy with a first request has its instructions.
LEMMA Inherits == AdmissionInv => InheritsInstructions
<1> SUFFICES ASSUME AdmissionInv, NEW c \in Callers, plan[c] # Nothing,
                    session.mode = "ephemeral_turn", seen[c].first # Nothing, ask[c].says = Nothing
             PROVE  plan[c].says = session.frozen
  BY DEF InheritsInstructions
<1>1. HasPlan(c) /\ PlanInv(c) /\ SeenInv(c) /\ SessionInv
  BY DEF AdmissionInv, CallerInv, HasPlan
<1>2. pc[c] # "start" /\ session # Nothing
  BY <1>1 DEF PlanInv, AdmissionInv, TypeInv, LocalsOK
<1>3. /\ seen[c].mode = session.mode
      /\ session.first = seen[c].first /\ session.frozen = seen[c].frozen
  BY <1>1, <1>2 DEF SeenInv, Later
<1>4. Contract = "v66"
  BY <1>1, <1>2, <1>3 DEF SessionInv
<1> QED BY <1>1, <1>3, <1>4 DEF PlanInv, EffectiveInstructions

\* Whatever overlaps, a call is answered with the request or session it asked
\* for, a pin conflict is cured by a reload, and later calls of an ephemeral
\* session inherit its instructions.
THEOREM CallsAreAnsweredTheirOwn == Spec => []AdmissionSafe
<1>1. AdmissionInv => AdmissionTypeOK
  BY DEF AdmissionInv, TypeInv
<1>2. AdmissionInv => AnswersOwnIntent
  BY DEF AdmissionInv, CallerInv, AnswerInv, OpenerInv, AnswersOwnIntent
<1>3. AdmissionInv => ReloadCuresPinConflict
  BY DEF AdmissionInv, CallerInv, AnswerInv, ReloadCuresPinConflict
<1>4. AdmissionInv => AdmissionSafe
  BY <1>1, <1>2, <1>3, Inherits DEF AdmissionSafe
<1> QED BY <1>4, InvAlways, PTL

\* Every accepted request runs on the session's one route, which serves it.
THEOREM OneRouteServesAll == Spec => []RunsOnThePin
<1>1. AdmissionInv => RunsOnThePin
  BY DEF AdmissionInv, RowInv, RunsOnThePin
<1> QED BY <1>1, InvAlways, PTL

\* The request that is open was planned on the turns the session holds.
THEOREM PlansOnTheHistory == Spec => []PlannedOnTheHistory
<1>1. AdmissionInv => PlannedOnTheHistory
  BY DEF AdmissionInv, SessionInv, PlannedOnTheHistory
<1> QED BY <1>1, InvAlways, PTL

\* Outside the v3 contract a retry of the same intent is no conflict.
THEOREM RetriesAreNoConflict == Spec => [](Contract # "v3" => RetryIsNoConflict)
<1>1. AdmissionInv => (Contract # "v3" => RetryIsNoConflict)
  BY DEF AdmissionInv, CallerInv, AnswerInv, RetryIsNoConflict
<1> QED BY <1>1, InvAlways, PTL
=============================================================================
