-------------------------- MODULE RouteGovernance --------------------------
(***************************************************************************)
(* From the operator's workbook to the route of a session: the compiler    *)
(* and the approval of src/app/governance, the start-up of a control plane *)
(* (src/app/control_plane.py), the candidates of src/app/routing and the   *)
(* check a worker makes before it runs a frozen route.                     *)
(*                                                                         *)
(* One model on one deployment.  The workbook has rows for this deployment *)
(* ("here") and for others; the built-in supplies of one build of the code *)
(* belong to the deployment it runs on, and the hash of a build stands for *)
(* both.  What the first request does to a pending route is                *)
(* RequestAdmission.                                                       *)
(***************************************************************************)
EXTENDS Naturals, FiniteSets, FiniteSetsExt

CONSTANTS
  Builds,     \* builds of the code
  Builtin,    \* Builtin[b]: the supplies of the model without a release, by rank
  Wire,       \* Wire[b][c]: the protocol of the adapter a build has for c
  Account,    \* Account[c]: the account behind a connection
  Settings,   \* what a deployment may see: see Setting
  MaxSessions,
  Nothing

Condition == {"ok", "no_files", "disabled", "unconfigured", "unregistered"}
Intent    == {"unpublished", "published", "suspended"}
Protocols == {"responses", "chat_completions", "claude_messages", "gemini_native", "moonshot_chat"}
Fields    == {"id", "conn", "channel", "protocol", "group", "caps", "files", "reject", "managed"}

\* The workbook's declarations of the model (sheets), which supplies are
\* registered and certified (registries), what a process finds its connections
\* to be (conditions), what an opener asks for (requests), and a bound on
\* compiled candidates (files).  Ranks are numbers, with gaps or without.
ASSUME GovernanceAssumption ==
  /\ MaxSessions \in Nat
  /\ \A t \in Settings :
       /\ t.files \in Nat
       /\ \A s \in t.sheets : s.intent \in Intent /\ DOMAIN s.rows \subseteq Nat
       /\ \A k \in t.conditions : \A c \in DOMAIN k : k[c] \in Condition

\* Only a release makes a supply a managed one.
ASSUME BuiltinAssumption ==
  \A b \in Builds :
    /\ DOMAIN Builtin[b] \subseteq Nat
    /\ \A i \in DOMAIN Builtin[b] :
         /\ DOMAIN Builtin[b][i] = Fields
         /\ Builtin[b][i].protocol \in Protocols
         /\ Builtin[b][i].managed = FALSE

VARIABLES
  setting,   \* the deployment's possibilities; never changes
  sheet,     \* the workbook as it is now
  registry,  \* the registry as it is now
  candidates,\* compiled review candidates
  signed,    \* the candidates somebody approved
  released,  \* published snapshots
  build,     \* the build of the running process
  running,   \* the snapshot it loaded, or the built-in plane
  conn,      \* its connections
  sessions,  \* opened sessions
  refused,   \* the last refusal of this process
  ran        \* the last execution

vars == <<setting, sheet, registry, candidates, signed, released, build, running, conn,
          sessions, refused, ran>>

-----------------------------------------------------------------------------
(* The workbook.                                                           *)

Enabled(s) == {i \in DOMAIN s.rows : s.rows[i].on}
Here(s)    == {i \in DOMAIN s.rows : s.rows[i].env = "here"}

Supplies(b)    == {Builtin[b][i] : i \in DOMAIN Builtin[b]}
Supply(b, row) == CHOOSE e \in Supplies(b) : e.id = row.offering

\* An unpublished model or a suspended one may not enable a route; an enabled
\* one needs a certified registration of a supply of this very deployment,
\* with what the model declares, and a connection of its own.
Compiles(s, b, reg) ==
  /\ Enabled(s) # {} => s.intent = "published"
  /\ \A i \in Enabled(s) :
       /\ s.rows[i].env = "here" /\ s.rows[i].offering \in reg
       /\ \E e \in Supplies(b) : e.id = s.rows[i].offering /\ s.needs \subseteq e.caps
  /\ \A i, j \in Enabled(s) :
       Supply(b, s.rows[i]).conn = Supply(b, s.rows[j]).conn => i = j

\* A declared model holds its name here, enabled or not.
Reserves(s) == s.intent # "unpublished" /\ Here(s) # {}

\* The offerings of the snapshot, by rank.
Managed(s, b) ==
  [i \in Enabled(s) |->
     [Supply(b, s.rows[i]) EXCEPT !.managed = TRUE, !.reject = s.rows[i].reject]]

\* build_candidate.  "sheet" and "registry" are what was compiled.
Candidate(s, b, reg) ==
  [sheet |-> s, registry |-> reg, base |-> b, reserves |-> Reserves(s), offerings |-> Managed(s, b)]

-----------------------------------------------------------------------------
(* Resolution.                                                             *)

\* RouteCatalog.candidates: a reserved name is served by its release only.
Catalog ==
  IF running # Nothing /\ running.reserves THEN running.offerings ELSE Builtin[build]

Reason(e, q) ==
  CASE q.channels # {} /\ e.channel \notin q.channels -> "channel_not_allowed"
    [] ~(q.needs \subseteq e.caps)                    -> "capability_requirement_not_met"
    [] conn[e.conn] = "disabled"                      -> "connection_disabled"
    [] conn[e.conn] = "unconfigured"                  -> "connection_not_configured"
    [] conn[e.conn] = "unregistered"                  -> "adapter_not_registered"
    [] conn[e.conn] = "no_files" /\ e.files           -> "file_adapter_not_registered"
    [] OTHER -> "none"

Eligible(e, q) == Reason(e, q) = "none"

Able(list, q) == {i \in DOMAIN list : Eligible(list[i], q)}

\* A rejected entry may forbid what ranks below it.
Forbids(list, q) ==
  \E i \in DOMAIN list \ Able(list, q) : list[i].reject /\ \A j \in Able(list, q) : i < j

\* _assert_adapter_contract: an entry that gets as far as its adapter and finds
\* one of another protocol is an error of the build, whichever entry would win.
Miswired(list, q) ==
  \E i \in DOMAIN list : /\ Reason(list[i], q) \in {"none", "file_adapter_not_registered"}
                         /\ Wire[build][list[i].conn] # list[i].protocol

\* _no_eligible_candidate_error: the caller is at fault if every entry says
\* so, otherwise the first entry speaks.
NoCandidate(list, q) ==
  LET caller == {"channel_not_allowed", "capability_requirement_not_met"}
      blame  == [connection_disabled |-> "ROUTE_CONNECTION_DISABLED",
                 connection_not_configured |-> "ROUTE_CONNECTION_NOT_CONFIGURED",
                 adapter_not_registered |-> "ROUTE_ADAPTER_NOT_REGISTERED",
                 file_adapter_not_registered |-> "ROUTE_FILE_ADAPTER_NOT_REGISTERED"]
      reason == Reason(list[Min(DOMAIN list)], q)
  IN IF (\A i \in DOMAIN list : Reason(list[i], q) \in caller) \/ reason \in caller
     THEN "ROUTE_CAPABILITY_UNAVAILABLE" ELSE blame[reason]

\* Mutant: it finds the first eligible entry and looks no further.
ResolveFirst(list, q) ==
  IF DOMAIN list = {} THEN "ROUTE_MODEL_UNSUPPORTED"
  ELSE IF Able(list, q) = {} THEN NoCandidate(list, q) ELSE "resolved"

\* RouteResolver.resolve: "resolved" is the first able entry.
Resolve(list, q) ==
  IF DOMAIN list = {} THEN "ROUTE_MODEL_UNSUPPORTED"
  ELSE IF Forbids(list, q) THEN "ROUTE_FALLBACK_FORBIDDEN"
  ELSE IF Able(list, q) = {} THEN NoCandidate(list, q)
  ELSE "resolved"

\* The entries of one supply group behind the same channel and account.
Siblings(list, e) ==
  {i \in DOMAIN list : /\ list[i].group = e.group /\ list[i].channel = e.channel
                       /\ list[i].protocol \in {"gemini_native", "chat_completions"}
                       /\ Account[list[i].conn] = Account[e.conn]}

\* resolve_supply_group: the route to pin, or both for the first request.
GroupRoute(list, q) ==
  LET e      == list[Min(Able(list, q))]
      all    == Siblings(list, e)
      group  == all \cap Able(list, q)
      native == {i \in group : list[i].protocol = "gemini_native"}
      chat   == {i \in group : list[i].protocol = "chat_completions"}
      pin(p) == list[Min(p)]
      answer(code, r, g) == [code |-> code, route |-> r, group |-> g]
  IN IF e.group = Nothing THEN answer("resolved", e, {})
     ELSE IF \E i \in all \ Able(list, q) : list[i].reject
     THEN answer("refused", e, {})
     ELSE IF q.hint = "native"
     THEN IF native = {} THEN answer("ROUTE_CAPABILITY_UNAVAILABLE", e, {})
                         ELSE answer("resolved", pin(native), {})
     ELSE IF q.hint = "text" \/ native = {} \/ chat = {}
     THEN answer("resolved",
                 IF q.hint = "text" /\ chat # {} THEN pin(chat)
                 ELSE IF native # {} THEN pin(native) ELSE IF chat # {} THEN pin(chat) ELSE e, {})
     ELSE answer("resolved", pin(native), {list[i] : i \in group})

-----------------------------------------------------------------------------
Init ==
  /\ setting \in Settings
  /\ sheet \in setting.sheets /\ registry \in setting.registries
  /\ build \in Builds /\ conn \in setting.conditions
  /\ candidates = {} /\ signed = {} /\ released = {}
  /\ running = Nothing /\ sessions = {} /\ refused = Nothing /\ ran = Nothing

\* The workbook and the registry are edited at any time.
Edit ==
  /\ sheet' \in setting.sheets /\ registry' \in setting.registries
  /\ UNCHANGED <<setting, candidates, signed, released, build, running, conn,
                 sessions, refused, ran>>

\* The compiler runs with the settings and the build of some checkout.
Compile ==
  /\ \E b \in Builds :
       /\ Compiles(sheet, b, registry)
       /\ candidates' = candidates \cup {Candidate(sheet, b, registry)}
       /\ Cardinality(candidates') <= setting.files
  /\ UNCHANGED <<setting, sheet, registry, signed, released, build, running, conn, sessions, refused, ran>>

\* An approver signs the digest of a candidate.
SignOff ==
  /\ \E c \in candidates : signed' = signed \cup {c}
  /\ UNCHANGED <<setting, sheet, registry, candidates, released, build, running, conn, sessions, refused, ran>>

\* Mutant: any approval will do.
ApprovedBy(c, a) == TRUE

Approved(c, a) == a = c

\* approve_candidate: the approval is of these contents.
Publish ==
  /\ \E c \in candidates, a \in signed : Approved(c, a) /\ released' = released \cup {c}
  /\ UNCHANGED <<setting, sheet, registry, candidates, signed, build, running, conn, sessions, refused, ran>>

\* from_settings: only a published snapshot, compiled against this build.
Loads(f, b) == f \in released /\ f.base = b

\* A start with a build, a snapshot and connections; a snapshot that does not
\* load is a failed start.
Start ==
  /\ \E b \in Builds, f \in candidates \cup {Nothing} :
       /\ f # Nothing => Loads(f, b)
       /\ build' = b /\ running' = f
  /\ conn' \in setting.conditions /\ refused' = Nothing
  /\ UNCHANGED <<setting, sheet, registry, candidates, signed, released, sessions, ran>>

Open ==
  \E q \in setting.requests :
    LET code  == Resolve(Catalog, q)
        found == GroupRoute(Catalog, q)
    IN /\ Cardinality(sessions) < MaxSessions
       /\ ~Miswired(Catalog, q)
       /\ IF code = "resolved" /\ found.code = "resolved"
          THEN /\ sessions' = sessions \cup
                    {[route |-> found.route, group |-> found.group, ask |-> q,
                      release |-> running, build |-> build, conn |-> conn]}
               /\ refused' = Nothing
          ELSE /\ refused' = [code |-> IF code = "resolved" THEN found.code ELSE code,
                              list |-> Catalog, ask |-> q]
               /\ UNCHANGED sessions
       /\ UNCHANGED <<setting, sheet, registry, candidates, signed, released, build, running, conn, ran>>

\* _assert_frozen_route: a worker of the current build runs a frozen route
\* with the adapter it has for the connection.
Runs(s) ==
  conn[s.route.conn] # "unregistered" /\ Wire[build][s.route.conn] = s.route.protocol

Execute ==
  /\ \E s \in sessions :
       ran' = IF Runs(s) THEN [session |-> s, wire |-> Wire[build][s.route.conn]] ELSE Nothing
  /\ UNCHANGED <<setting, sheet, registry, candidates, signed, released, build, running, conn, sessions, refused>>

Next == Edit \/ Compile \/ SignOff \/ Publish \/ Start \/ Open \/ Execute

Spec == Init /\ [][Next]_vars

-----------------------------------------------------------------------------
(* Properties.                                                             *)

\* The type invariant.
GovernanceTypeOK ==
  /\ setting \in Settings /\ sheet \in setting.sheets /\ registry \in setting.registries
  /\ conn \in setting.conditions /\ build \in Builds
  /\ released \subseteq candidates /\ signed \subseteq candidates
  /\ running \in released \cup {Nothing}
  /\ \A s \in sessions : s.route.protocol \in Protocols

\* The row of the reviewed workbook a session runs on.
RowOf(s) ==
  CHOOSE i \in Enabled(s.release.sheet) : s.release.sheet.rows[i].offering = s.route.id

\* What a process serves was signed as it is, compiled from a workbook whose
\* enabled rows were all certified, against the build that serves it.
ApprovedRuns ==
  running # Nothing =>
    /\ running \in signed /\ running.base = build
    /\ \A i \in Enabled(running.sheet) : running.sheet.rows[i].offering \in running.registry

\* A model the release declares here, suspended ones included, is never
\* served by the built-in supplies.
ReservedName ==
  \A s \in sessions :
    (s.release # Nothing /\ s.release.sheet.intent # "unpublished" /\ Here(s.release.sheet) # {}) =>
      s.route.managed /\ s.release.sheet.intent = "published"

\* The supply of a row, and whether it could serve the session when it opened.
SupplyOf(s, i) == Supply(s.release.base, s.release.sheet.rows[i])

Served(s, e) ==
  /\ s.ask.channels = {} \/ e.channel \in s.ask.channels
  /\ s.ask.needs \subseteq e.caps
  /\ s.conn[e.conn] \notin {"disabled", "unconfigured", "unregistered"}
                          \cup (IF e.files THEN {"no_files"} ELSE {})

\* A session of a managed model has the first enabled row of the reviewed
\* workbook that was able to serve it, or another one of that row's supply
\* group on the same channel and account, and no row above the first able
\* one forbade going on.
DeclaredOrder ==
  \A s \in sessions :
    s.route.managed =>
      \E i \in Enabled(s.release.sheet) :
        LET e == SupplyOf(s, i) IN
        /\ Served(s, e)
        /\ \A j \in Enabled(s.release.sheet) :
             j < i => ~s.release.sheet.rows[j].reject /\ ~Served(s, SupplyOf(s, j))
        /\ \/ i = RowOf(s)
           \/ /\ e.group # Nothing /\ e.group = s.route.group /\ e.channel = s.route.channel
              /\ Account[e.conn] = Account[s.route.conn]
              /\ i < RowOf(s) /\ Served(s, SupplyOf(s, RowOf(s)))

\* A session is turned away only if no supply can serve it, or an entry that
\* cannot forbids it: one above all that can, or one of the group of such a
\* supply.  Native-only callers need a native supply.
NoNeedlessRefusal ==
  (refused # Nothing /\ refused.ask.hint # "native") =>
    LET list == refused.list
        blocks(j, i) ==
          /\ list[j].reject /\ ~Eligible(list[j], refused.ask)
          /\ \/ j < i
             \/ /\ list[j].group # Nothing
                /\ \E k \in DOMAIN list : k <= i /\ list[k].group = list[j].group
    IN \A i \in DOMAIN list :
         Eligible(list[i], refused.ask) => \E j \in DOMAIN list : blocks(j, i)

\* The supplies the first request may choose from share the account of the
\* route, each was able to serve the caller, and both protocols are there.
GroupIsOneAccount ==
  \A s \in sessions :
    s.group # {} =>
      /\ s.route \in s.group
      /\ {e.protocol : e \in s.group} = {"gemini_native", "chat_completions"}
      /\ \A e \in s.group : /\ Account[e.conn] = Account[s.route.conn]
                            /\ s.ask.needs \subseteq e.caps
                            /\ s.conn[e.conn] \notin {"disabled", "unconfigured", "unregistered"}

\* Whatever build and release a worker has by then, it runs a session over
\* the wire its connection had in the build the session was opened under.
FrozenWire ==
  ran # Nothing => ran.wire = Wire[ran.session.build][ran.session.route.conn]

\* The state properties of this part together: its types, nothing served that
\* was not reviewed, names kept, no refusal without a reason, one account per
\* group, and the wire a session was opened on.
GovernanceSafe ==
  /\ GovernanceTypeOK
  /\ ApprovedRuns
  /\ ReservedName
  /\ NoNeedlessRefusal
  /\ GroupIsOneAccount
  /\ FrozenWire
=============================================================================
