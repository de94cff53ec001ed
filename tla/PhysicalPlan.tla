----------------------------- MODULE PhysicalPlan -----------------------------
(***************************************************************************)
(* What a Gemini session sends: the physical plan of a request              *)
(* (src/app/providers/gemini_physical.py), the choice of the materials the *)
(* cached prefix holds (src/app/materials/), and the payload the adapter   *)
(* builds from both (src/app/providers/gemini_native.py), turn by turn.    *)
(*                                                                         *)
(* A Content is a role and a sequence of parts; a part is a material, a    *)
(* text or an answer.  A material is the same part whether it travels as   *)
(* inline bytes or as a file reference.  A hash is the value it is a hash  *)
(* of.  The instruction slot of a session is never written, so the only    *)
(* instruction is the request's.                                           *)
(*                                                                         *)
(* Whether a resource is worth creating or reusing is CacheEconomics and   *)
(* StatefulCache; here any resource the plan is compatible with may be     *)
(* used, created or dropped at any time.                                   *)
(***************************************************************************)
EXTENDS Naturals, Sequences, FiniteSets, SequencesExt, FiniteSetsExt

CONSTANTS
  Contracts,  \* sessions and their requests: records of
              \*   layout        the projection frozen at session creation, 8 or 9
              \*   conversation  context_policy is "conversation", else "explicit"
              \*   upgraded      cache_upgrade.version >= 2: a v6.6 session
              \*   stripTools    the contract's enable_payload_stripping
              \*   manifest      the materials of a conversation's session, in order
              \*   asks          the requests a client may send
              \*   density       material_budget is set: select by priority
              \*   limit         inline_limit_bytes
              \*   wireCap       GEMINI_CACHE_CREATE_MAX_REQUEST_BYTES, in parts
              \*   turns         bound: committed turns
              \*   resources     bound: cached resources
  Size,       \* bytes of each material
  Priority,   \* the materials by cache priority (or by id), best first
  None        \* null

ASSUME ContractAssumption ==
  \A c \in Contracts :
    /\ c.layout \in {8, 9}
    /\ {c.conversation, c.stripTools, c.density, c.upgraded} \subseteq BOOLEAN
    /\ c.layout = 8 => ~c.upgraded
    /\ c.limit \in Nat \ {0}
    /\ c.turns \in Nat
    /\ ~c.conversation => c.manifest = <<>>
    /\ c.manifest \in Seq(ToSet(Priority)) /\ IsInjective(c.manifest)
    /\ \A a \in c.asks : /\ a.attach \in Seq(ToSet(Priority)) /\ IsInjective(a.attach)
                         /\ a.blank \in BOOLEAN
                         /\ a.stale \in BOOLEAN /\ (c.upgraded => ~a.stale)

ASSUME MaterialAssumption ==
  /\ Priority \in Seq(ToSet(Priority)) /\ IsInjective(Priority)
  /\ Size \in [ToSet(Priority) -> Nat]

VARIABLES
  contract,   \* of the session, chosen once
  history,    \* the committed turns: user content, occurrences, answer
  ask,        \* the request being executed
  resources,  \* its CachedContent resources; head is a history field
  wire,       \* what was sent for it
  prior       \* history: the last implicit payload and the turn it asked for

planVars == <<contract, history, ask, resources, wire, prior>>

Layout       == contract.layout
Conversation == contract.conversation
Upgraded     == contract.upgraded
Manifest     == contract.manifest
Density      == contract.density
Limit        == contract.limit

-----------------------------------------------------------------------------
(* Contents.                                                               *)

FilePart(m) == [kind |-> "file", of |-> m]
Text(n, b)  == [kind |-> "text", of |-> n, blank |-> b]
Files(s)    == [i \in DOMAIN s |-> FilePart(s[i])]

UserContent(parts) == [role |-> "user", parts |-> parts]
ModelContent(n)    == [role |-> "model", parts |-> <<[kind |-> "answer", of |-> n]>>]

\* The elements of s at the indexes I, in order; Picked counts up to each index.
Picked(s, I) ==
  LET p[i \in 0..Len(s)] ==
        IF i = 0 THEN <<>> ELSE IF i \in I THEN Append(p[i - 1], s[i]) ELSE p[i - 1]
  IN p

Elements(s, I) == Picked(s, I)[Len(s)]

Within(s, S)  == Elements(s, {i \in DOMAIN s : s[i] \in S})
Outside(s, S) == Elements(s, {i \in DOMAIN s : s[i] \notin S})

\* The parts of all contents.
Weight(contents) == FoldLeft(LAMBDA n, c : n + Len(c.parts), 0, contents)

-----------------------------------------------------------------------------
(* Which materials the cached prefix holds.                                *)

\* The runtime's effective ids: the manifest, then what the request adds.
EffectiveIds(c, a) == c.manifest \o Outside(a.attach, ToSet(c.manifest))

MaterialIds(a) == EffectiveIds(contract, a)

Rank(m) == CHOOSE i \in DOMAIN Priority : Priority[i] = m

Bytes(S) ==
  LET sum[i \in 0..Len(Priority)] ==
        IF i = 0 THEN 0
        ELSE sum[i - 1] + (IF Priority[i] \in S THEN Size[Priority[i]] ELSE 0)
  IN sum[Len(Priority)]

\* The candidate that is looked at first.
Precedes(c, x, y) ==
  \/ (c.density \/ Size[x] = Size[y]) /\ Rank(x) <= Rank(y)
  \/ ~c.density /\ Size[x] < Size[y]

First(c, S) == CHOOSE m \in S : \A x \in S : Precedes(c, m, x)

\* The budget may be filled by priority, but not by size.
StaysInBudget(c, bytes) == IF c.density THEN bytes <= c.limit ELSE bytes < c.limit

\* A candidate that does not fit is passed over, a smaller one may follow.
TakeIfFits(c, s) ==
  LET m    == First(c, s.left)
      fits == StaysInBudget(c, s.used + Size[m])
  IN [left |-> s.left \ {m},
      in   |-> IF fits THEN s.in \cup {m} ELSE s.in,
      used |-> IF fits THEN s.used + Size[m] ELSE s.used]

\* The selection after each candidate.
Admission(c) ==
  LET s[k \in 0..Len(c.manifest)] ==
        IF k = 0 THEN [left |-> ToSet(c.manifest), in |-> {}, used |-> 0]
        ELSE TakeIfFits(c, s[k - 1])
  IN s

\* plan_gemini_cache_materials, in manifest order.  Without a material budget
\* everything is selected while all materials of the request are below the
\* limit, the request's own included.
SelectedOf(c, a) ==
  IF ~c.density /\ Bytes(ToSet(EffectiveIds(c, a))) < c.limit
    THEN c.manifest ELSE Within(c.manifest, Admission(c)[Len(c.manifest)].in)

\* prepare_gemini_cache_projection: what has no bytes in Relay's storage is
\* not cached.  A request without conversation has no candidates: its files
\* share one content with its text.
Offered(c, a) ==
  IF c.conversation THEN Within(SelectedOf(c, a), a.fallback) ELSE <<>>

\* The plan of layout 9 looks at that once more.
CacheIds(a) == IF Layout = 9 /\ ~Conversation THEN <<>> ELSE Offered(contract, a)

Cached(a) == ToSet(CacheIds(a))

-----------------------------------------------------------------------------
(* History.                                                                *)

\* _current_material_occurrences: where each material is in the full content.
Occurrences(a) ==
  LET ids == MaterialIds(a) IN [i \in DOMAIN ids |-> [index |-> i, of |-> ids[i]]]

\* project_current_user_content.
CurrentUser(ids, a) == UserContent(Files(ids) \o <<Text(Len(history) + 1, a.blank)>>)

FullUser(a) == CurrentUser(MaterialIds(a), a)

UncachedUser(a) == CurrentUser(Outside(MaterialIds(a), Cached(a)), a)

\* The history entry of the adapter: the content as the client sent it.
Turn(a) == [user |-> FullUser(a).parts, occurrences |-> Occurrences(a),
            answer |-> Len(history) + 1]

FileIndexes(t) == {i \in DOMAIN t.user : t.user[i].kind = "file"}
Known(t)       == {o.index : o \in ToSet(t.occurrences)} \cap DOMAIN t.user

\* Mutant: the rules of the two layouts swapped.
MovedOther(a) == IF Layout = 9 THEN ToSet(Manifest) ELSE Cached(a)

\* What is taken out of a turn.  In layout 8 every material of the session:
\* what the prefix does not hold is sent once more with the request.
Moved(a) == IF Layout = 9 THEN Cached(a) ELSE ToSet(Manifest)

Removed(c, t, moved) ==
  {o.index : o \in {p \in ToSet(t.occurrences) :
                      /\ p.of \in moved /\ p.index \in DOMAIN t.user
                      /\ c.layout = 9 => p.index \in FileIndexes(t)}}

\* A turn that lost every part of its user content keeps its answer.
ProjectedTurn(c, t, moved) ==
  LET kept == Elements(t.user, DOMAIN t.user \ Removed(c, t, moved))
  IN (IF kept = <<>> THEN <<>> ELSE <<UserContent(kept)>>) \o <<ModelContent(t.answer)>>

\* The occurrences of the turn account for its parts.
Accounted(c, t) ==
  /\ \A o \in ToSet(t.occurrences) :
       o.index \in (IF c.layout = 9 THEN FileIndexes(t) ELSE DOMAIN t.user)
  /\ c.manifest # <<>> => FileIndexes(t) \subseteq Known(t)

ProjectionSafe == \A i \in DOMAIN history : Accounted(contract, history[i])

\* A turn may enter a cached prefix: every file in it is in the prefix already.
TurnSafe(c, t, moved) ==
  /\ Accounted(c, t)
  /\ FileIndexes(t) \subseteq Known(t)
  /\ FileIndexes(t) \subseteq Removed(c, t, moved)

\* safe_prefix_version: the turns before the first unsafe one; none when the
\* request was accepted at another version of the history.
SafeVersion(a) ==
  IF a.stale \/ Layout = 8 THEN 0
  ELSE LET moved == Moved(a)
       IN Max({n \in 0..Len(history) : \A i \in 1..n : TurnSafe(contract, history[i], moved)})

Entries(a, from, to) ==
  LET moved == Moved(a)
  IN FlattenSeq([i \in 1..(to + 1 - from) |-> ProjectedTurn(contract, history[from + i - 1], moved)])

-----------------------------------------------------------------------------
(* The plan.                                                               *)

BaseContents(a) == IF CacheIds(a) = <<>> THEN <<>> ELSE <<UserContent(Files(CacheIds(a)))>>

CachesTools == Layout = 9 /\ Upgraded /\ contract.stripTools

\* _candidate_prefix.
Prefix(a, v) ==
  [contents |-> BaseContents(a) \o Entries(a, 1, v),
   instr    |-> a.instr,
   tools    |-> IF CachesTools THEN a.tools ELSE None]

\* The contents sent after the prefix.
Suffix(a, v) == Entries(a, v + 1, Len(history)) \o <<UncachedUser(a)>>

\* Mutant: identified with the history at the time of the request.
NameOfHistory(a, v) == <<CacheIds(a), a.instr, v, Prefix(a, v), Len(history)>>

\* The content fingerprint.  In layout 8 there is no history in it.
Name(a, v) == IF Layout = 9 THEN <<CacheIds(a), a.instr, v, Prefix(a, v)>>
              ELSE <<CacheIds(a), a.instr>>

Fits(a, v) ==
  LET p == Prefix(a, v)
  IN Weight(p.contents) + (IF p.tools = None THEN 0 ELSE 1) <= contract.wireCap

\* The versions a resource may have: with contents, up to the first that is
\* too large.
Candidates(a) ==
  IF Layout = 9
    THEN {v \in 0..SafeVersion(a) :
            /\ Prefix(a, v).contents # <<>>
            /\ \A w \in 0..v : Prefix(a, w).contents = <<>> \/ Fits(a, w)}
    ELSE {v \in {0} : BaseContents(a) # <<>>}

TailText(a) == ~a.blank

\* Tools that the prefix cannot hold would be lost with it.
Cacheable(a) ==
  /\ Candidates(a) # {}
  /\ ProjectionSafe
  /\ Layout = 9 => a.tools = None \/ CachesTools
  /\ Upgraded => TailText(a)

FullPayload(a) ==
  [contents |-> FlattenSeq([i \in DOMAIN history |->
                  <<UserContent(history[i].user), ModelContent(history[i].answer)>>])
                \o <<FullUser(a)>>,
   instr    |-> a.instr,
   tools    |-> IF Upgraded THEN a.tools ELSE None]

\* Only layout 9 has an implicit prefix.
ImplicitEligible(a) ==
  /\ Layout = 9
  /\ ProjectionSafe
  /\ Prefix(a, SafeVersion(a)).contents # <<>> \/ a.instr # None

ImplicitPayload(a) ==
  [contents |-> Prefix(a, SafeVersion(a)).contents \o Suffix(a, SafeVersion(a)),
   instr    |-> a.instr,
   tools    |-> IF Upgraded THEN a.tools ELSE None]

-----------------------------------------------------------------------------
(* The executor and the adapter.                                           *)

PlanInit ==
  /\ contract \in Contracts
  /\ history = <<>>
  /\ ask = None
  /\ resources = {}
  /\ wire = None
  /\ prior = None

\* What two requests share when they may share a prefix.
HeadOf(a) == <<CacheIds(a), a.instr, a.tools>>

Planned == ask # None /\ wire = None

Begin(a) ==
  /\ ask = None
  /\ ask' = a
  /\ UNCHANGED <<contract, history, resources, wire, prior>>

\* caches.create with the longest prefix that fits.
Create ==
  /\ Planned
  /\ Cacheable(ask)
  /\ LET v == Max(Candidates(ask))
         r == [name |-> Name(ask, v), version |-> v, prefix |-> Prefix(ask, v),
               head |-> HeadOf(ask)]
     IN resources' = resources \cup {r}
  /\ Cardinality(resources') <= contract.resources
  /\ UNCHANGED <<contract, history, ask, wire, prior>>

\* The resource expires or is deleted.
Drop(r) ==
  /\ resources' = resources \ {r}
  /\ UNCHANGED <<contract, history, ask, wire, prior>>

\* compatible_prefix_fingerprints has the resource at its version.
Compatible(r) ==
  /\ Cacheable(ask)
  /\ r.version \in Candidates(ask)
  /\ r.name = Name(ask, r.version)

\* After the dispatch was sealed the adapter looks at the tail once more.
TailReserved == Upgraded => TailText(ask)

Payload(how, p) ==
  [how |-> how, contents |-> p.contents, instr |-> p.instr, tools |-> p.tools]

\* The resource supplies the instruction and the tools, the payload none.
SendCached(r) ==
  /\ Planned
  /\ Compatible(r)
  /\ wire' = IF TailReserved
               THEN Payload("cached", [r.prefix EXCEPT !.contents = @ \o Suffix(ask, r.version)])
               ELSE [how |-> "refused"]
  /\ UNCHANGED <<contract, history, ask, resources, prior>>

SendImplicit ==
  /\ Planned
  /\ ImplicitEligible(ask)
  /\ wire' = Payload("implicit", ImplicitPayload(ask))
  /\ prior' = [contents |-> wire'.contents, head |-> HeadOf(ask),
               turn |-> Len(history) + 1, committed |-> FALSE]
  /\ UNCHANGED <<contract, history, ask, resources>>

SendFull ==
  /\ Planned
  /\ wire' = Payload("full", FullPayload(ask))
  /\ UNCHANGED <<contract, history, ask, resources, prior>>

\* The turn is committed; a request without conversation leaves no turn.
Commit ==
  /\ ask # None /\ wire # None /\ wire.how # "refused"
  /\ Len(history) < contract.turns
  /\ history' = IF Conversation THEN Append(history, Turn(ask)) ELSE history
  /\ prior' = IF wire.how = "implicit" THEN [prior EXCEPT !.committed = Conversation] ELSE prior
  /\ ask' = None
  /\ wire' = None
  /\ UNCHANGED <<contract, resources>>

\* The request fails, or is cancelled, at any point.
Fail ==
  /\ ask # None
  /\ ask' = None
  /\ wire' = None
  /\ UNCHANGED <<contract, history, resources, prior>>

PlanNext ==
  \/ \E a \in contract.asks : Begin(a)
  \/ Create
  \/ \E r \in resources : Drop(r) \/ SendCached(r)
  \/ SendImplicit
  \/ SendFull
  \/ Commit
  \/ Fail

PlanSpec == PlanInit /\ [][PlanNext]_planVars
-----------------------------------------------------------------------------
(* Properties.                                                             *)

Heads == {"cached", "implicit", "full"}

\* Types: a turn has one occurrence for each file of its user content, and a
\* resource stands for a version that was committed.
PlanTypeOK ==
  /\ Len(history) <= contract.turns
  /\ \A i \in DOMAIN history :
       Len(history[i].occurrences) = Cardinality(FileIndexes(history[i]))
  /\ ask \in contract.asks \cup {None}
  /\ \A r \in resources : r.version \in 0..Len(history)
  /\ wire # None => ask # None /\ wire.how \in Heads \cup {"refused"}

\* The parts without the files of ms, and the contents that are left.
Bare(parts, ms) ==
  Elements(parts, {j \in DOMAIN parts : parts[j].kind # "file" \/ parts[j].of \notin ms})

Without(contents, ms) ==
  LET left == [i \in DOMAIN contents |->
                 [contents[i] EXCEPT !.parts = Bare(@, ms)]]
  IN Elements(left, {i \in DOMAIN left : left[i].parts # <<>>})

\* Where in the contents the file of m is.
Places(contents, m) ==
  {p \in UNION {{i} \X DOMAIN contents[i].parts : i \in DOMAIN contents} :
     contents[p[1]].parts[p[2]] = FilePart(m)}

Times(contents, m) == Cardinality(Places(contents, m))

\* The files that are sent once, whatever the history holds.
Once(a) == IF Layout = 9 THEN Cached(a) ELSE ToSet(Manifest)

\* A cached or implicit payload, with what its resource holds, says what the
\* full payload says (README.md:197): the same texts and answers in the same
\* order under the same instruction and tools, every file of a request in its
\* place, and each file moved to the front (in layout 8: each of the
\* session's files) exactly once.
WireSaysTheSame ==
  wire # None /\ wire.how \in {"cached", "implicit"} =>
    LET full == FullPayload(ask)
        once == Once(ask)
    IN /\ wire.instr = full.instr
       /\ wire.tools = full.tools
       /\ Without(wire.contents, once) = Without(full.contents, once)
       /\ \A m \in once : Times(wire.contents, m) = 1

\* Without a conversation the message is sent as the client wrote it, its
\* files and its text in one content (README.md:198).
ExplicitMessageIsWhole ==
  ~Conversation /\ wire # None => wire.contents = FullPayload(ask).contents

\* A resource holds no file of a committed turn: only the session's files
\* selected for the cache, once and at its front (gemini_physical.py:1022).
ResourceHoldsNoTurnFile ==
  \A r \in resources :
    \A i \in DOMAIN r.prefix.contents : \A j \in DOMAIN r.prefix.contents[i].parts :
      LET p == r.prefix.contents[i].parts[j] IN
        p.kind = "file" => i = 1 /\ p.of \in ToSet(Manifest) /\ Times(r.prefix.contents, p.of) = 1

\* A resource stays usable as the session grows: whatever was committed since,
\* a request with the materials, the instruction and the tools it was created
\* for is compatible with it at its version.
ResourceStaysCompatible ==
  Planned /\ ~ask.stale /\ Cacheable(ask) =>
    \A r \in resources : r.head = HeadOf(ask) => Compatible(r)

\* What the provider may keep of one implicit payload is the beginning of the
\* next one with the same cached files, instruction and tools: all of it once
\* its turn is committed, all but its question otherwise.
ImplicitPrefixGrows ==
  Planned /\ prior # None /\ ImplicitEligible(ask)
    /\ prior.head = HeadOf(ask) =>
      IsPrefix(IF prior.committed THEN prior.contents ELSE Front(prior.contents),
               ImplicitPayload(ask).contents)

\* The adapter refuses no resource that the plan declared compatible: by then
\* the dispatch is sealed and the request can only fail.
NoLateRefusal == wire # None => wire.how # "refused"

\* The selected files stay below inline_limit_bytes; a material budget may be
\* used up (gemini_cache_projection.py:80, cache_selector.py:36).
SelectionFitsBudget ==
  ask # None => StaysInBudget(contract, Bytes(ToSet(SelectedOf(contract, ask))))

\* The state properties of the plans together: their types, resources that
\* stay usable and hold the session's files only, messages sent whole, budgets
\* kept, and no plan that the adapter refuses.
PlanSafe ==
  /\ PlanTypeOK
  /\ ExplicitMessageIsWhole
  /\ ResourceHoldsNoTurnFile
  /\ ResourceStaysCompatible
  /\ NoLateRefusal
  /\ SelectionFitsBudget
=============================================================================
