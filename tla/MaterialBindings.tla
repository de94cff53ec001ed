-------------------------- MODULE MaterialBindings --------------------------
(***************************************************************************)
(* One material of a conversation: its upload, the copy of its bytes that  *)
(* Relay keeps, the rows that bind it to a provider, and the requests that *)
(* freeze one of these rows before they infer.  Requests of one session    *)
(* run one at a time, but several sessions of a conversation share its     *)
(* materials, and nothing locks a material: every freezer below reads and  *)
(* writes the four tables one statement at a time.                         *)
(*                                                                         *)
(* Bytes are an object number; object 1 is what the upload stored.  A      *)
(* material is Plain when the name and type it was uploaded with are those *)
(* Gemini takes, so that no renamed copy of the object has to be made.     *)
(***************************************************************************)
EXTENDS Naturals, FiniteSets, FiniteSetsExt

CONSTANTS
    Freezers,       \* executors that resolve the material for a request
    Cases,          \* what a behaviour is about: records of
                    \*   provider     "gemini", "native" (another Files API) or
                    \*                "none" (no adapter)
                    \*   strategies   how Gemini requests place the material,
                    \*                by the layout of their session: "url" and
                    \*                "files", or "primary" (Files first)
                    \*   plain        BOOLEAN, see above
                    \*   users        the executors whose requests use it
                    \*   generations  bound: binding generations, of which the upload makes one
                    \*   requests     bound: requests that use the material
    MaxObjects,     \* bound: objects ever stored
    MaxFaults       \* bound: crashes and failed deletions

ASSUME CaseAssumption ==
    /\ {MaxObjects, MaxFaults} \subseteq Nat
    /\ \A c \in Cases : /\ c.provider \in {"gemini", "native", "none"}
                        /\ c.strategies \subseteq {"url", "files", "primary"}
                        /\ c.plain \in BOOLEAN
                        /\ c.users \subseteq Freezers
                        /\ c.generations \in Nat \ {0} /\ c.requests \in Nat

VARIABLES
    mat,        \* the relay_materials row, and the case, chosen once
    fb,         \* material_fallback_objects: the object it names, 0 when no row
    stored,     \* objects whose bytes are in the object store
    rows,       \* relay_objects rows
    bindings,   \* provider_material_bindings of the connection and account
    ingress,    \* where the upload stands
    pc, loc,    \* where each freezer stands, and its local variables
    puts, requests, faults,
    overlapped  \* whether two requests were ever open at once, to state properties

bindingVars == <<mat, fb, stored, rows, bindings, ingress, pc, loc, puts, requests, faults,
                 overlapped>>

Objects == 1..MaxObjects
NoBinding == [rep |-> "none", gen |-> 0, live |-> FALSE, obj |-> 0, failed |-> FALSE]
Url(gen, obj, failed) == [rep |-> "url", gen |-> gen, live |-> TRUE, obj |-> obj, failed |-> failed]
File(gen) == [rep |-> "file", gen |-> gen, live |-> TRUE, obj |-> 0, failed |-> FALSE]
Fresh == [strategy |-> "generic", gen |-> 0, binding |-> NoBinding, src |-> 0, failed |-> FALSE]

Gone == {"failed", "reupload_required"}
Unfinished == {"none", "receiving", "binding"}

BindingInit ==
    /\ \E c \in Cases :
           mat = [case |-> c, provider |-> c.provider, status |-> "none", object |-> 0,
                  gen |-> 0, keep |-> FALSE, bridge |-> FALSE]
    /\ fb = 0 /\ stored = {} /\ rows = {} /\ bindings = {}
    /\ ingress = "start"
    /\ pc = [e \in Freezers |-> "idle"] /\ loc = [e \in Freezers |-> Fresh]
    /\ puts = 0 /\ requests = 0 /\ faults = 0 /\ overlapped = FALSE

-----------------------------------------------------------------------------
(***************************************************************************)
(* Storage.  A new object is reachable by nobody before the fallback row   *)
(* names it, so storing it, its relay_objects row and the fallback row are *)
(* one step.                                                               *)
(***************************************************************************)
Store(n) ==
    /\ n = puts + 1 /\ n \in Objects
    /\ puts' = n /\ stored' = stored \union {n} /\ rows' = rows \union {n} /\ fb' = n

Upsert(b) == bindings' = {x \in bindings : <<x.rep, x.gen>> # <<b.rep, b.gen>>} \union {b}

\* order=generation.desc, limit 1: of two rows of one generation, either.
Latest == IF bindings = {} THEN {NoBinding}
          ELSE {b \in bindings : \A x \in bindings : x.gen <= b.gen}

Plain == mat.case.plain

\* Mutant: the upload's own name and type are asked of every later copy too.
ProjectedAsUploaded(o) == Plain /\ o \in rows

Projected(o) == (Plain \/ o > 1) /\ o \in rows

-----------------------------------------------------------------------------
(***************************************************************************)
(* Upload: MaterialIngressService.create.                                  *)
(***************************************************************************)
FreezersUnchanged == UNCHANGED <<pc, loc, requests, faults, overlapped>>

CreateMaterial ==
    /\ ingress = "start"
    /\ \E keep, bridge \in BOOLEAN :
           mat' = [mat EXCEPT !.status = IF mat.provider = "none" THEN "receiving" ELSE "binding",
                              !.keep = keep, !.bridge = bridge]
    /\ ingress' = IF mat.provider = "native" THEN "upload" ELSE "stage"
    /\ UNCHANGED <<fb, stored, rows, bindings, puts>> /\ FreezersUnchanged

\* No adapter, or Gemini: the bytes are staged in Relay and placed by requests.
Stage ==
    /\ ingress = "stage" /\ Store(1) /\ ingress' = "staged"
    /\ UNCHANGED <<mat, bindings>> /\ FreezersUnchanged

Staged ==
    /\ ingress = "staged" /\ ingress' = "done"
    /\ mat' = [mat EXCEPT !.status = "ready", !.object = fb]
    /\ UNCHANGED <<fb, stored, rows, bindings, puts>> /\ FreezersUnchanged

\* adapter.prepare: the error decides whether the bytes may be kept instead.
PrepareUpload ==
    /\ ingress = "upload"
    /\ \E outcome \in {"ok", "unavailable", "rejected"} :
           IF outcome = "ok"
           THEN /\ Upsert(File(1))
                /\ ingress' = IF mat.keep THEN "keep" ELSE "bound"
           ELSE /\ UNCHANGED bindings
                /\ ingress' = IF outcome = "unavailable" /\ mat.bridge THEN "rescue" ELSE "lost"
    /\ UNCHANGED <<mat, fb, stored, rows, puts>> /\ FreezersUnchanged

KeepBytes ==
    /\ ingress \in {"keep", "rescue"} /\ Store(1)
    /\ ingress' = IF ingress = "keep" THEN "bound" ELSE "rescued"
    /\ UNCHANGED <<mat, bindings>> /\ FreezersUnchanged

FinishUpload ==
    /\ ingress \in {"bound", "rescued", "lost"} /\ ingress' = "done"
    /\ mat' = CASE ingress = "bound" -> [mat EXCEPT !.status = "ready_provider", !.object = fb, !.gen = 1]
                [] ingress = "rescued" -> [mat EXCEPT !.status = "fallback_stored", !.object = fb]
                [] ingress = "lost" -> [mat EXCEPT !.status = "failed"]
    /\ UNCHANGED <<fb, stored, rows, bindings, puts>> /\ FreezersUnchanged

\* The process dies, or storing raises: the idempotent retry of the upload
\* finds the row that was created and returns it as it is.
UploadDies ==
    /\ ingress \notin {"start", "done"} /\ faults < MaxFaults
    /\ faults' = faults + 1 /\ ingress' = "done"
    /\ UNCHANGED <<mat, fb, stored, rows, bindings, pc, loc, puts, requests, overlapped>>

Ingress == CreateMaterial \/ Stage \/ Staged \/ PrepareUpload \/ KeepBytes
           \/ FinishUpload \/ UploadDies

-----------------------------------------------------------------------------
(***************************************************************************)
(* Freezing: BindingResolver.freeze_for_request, one action per statement. *)
(***************************************************************************)
TablesUnchanged == UNCHANGED <<mat, fb, stored, rows, bindings, ingress, puts, requests, faults,
                               overlapped>>
Others == UNCHANGED <<ingress, requests, faults, overlapped>>

Goto(e, l) == pc' = [pc EXCEPT ![e] = l]
Keep(e, r) == loc' = [loc EXCEPT ![e] = r]
At(e, l) == pc[e] = l
L(e) == loc[e]

\* The binding that inference will use, or the end of a request that raised.
Freeze(e, b) == Goto(e, "inferring") /\ Keep(e, [L(e) EXCEPT !.binding = b])
Raise(e) == Goto(e, "idle") /\ Keep(e, Fresh)

\* The layout of the session and the bytes of the whole request decide.
Placements == IF mat.provider = "gemini" THEN mat.case.strategies ELSE {"generic"}

\* Admission refuses a material that is not usable yet or no longer.
Admit(e) ==
    /\ At(e, "idle") /\ e \in mat.case.users /\ requests < mat.case.requests
    /\ mat.status \notin Gone \union Unfinished
    /\ requests' = requests + 1
    /\ overlapped' = (overlapped \/ \E f \in Freezers : pc[f] # "idle")
    /\ \E s \in Placements : Keep(e, [Fresh EXCEPT !.strategy = s])
    /\ Goto(e, "admitted")
    /\ UNCHANGED <<mat, fb, stored, rows, bindings, ingress, puts, faults>>

ReadMaterial(e) ==
    /\ At(e, "admitted")
    /\ IF mat.status \in Gone THEN Raise(e)
       ELSE Goto(e, "find") /\ Keep(e, [L(e) EXCEPT !.gen = mat.gen])
    /\ TablesUnchanged

\* What a strategy may use as it stands.
Reusable(strategy, b) ==
    /\ b.live
    /\ CASE strategy = "url" -> b.rep = "url"
         [] strategy \in {"files", "primary"} -> b.rep = "file" \/ b.failed
         [] strategy = "generic" -> TRUE

\* A connection without a file adapter takes the Relay bytes themselves.
FindBinding(e) ==
    /\ At(e, "find")
    /\ \E b \in Latest :
           IF mat.provider # "none" /\ Reusable(L(e).strategy, b)
           THEN IF L(e).strategy = "primary" /\ b.rep = "file"
                THEN Goto(e, "obsolete") /\ Keep(e, [L(e) EXCEPT !.binding = b])
                ELSE Freeze(e, b)
           ELSE /\ Goto(e, "fallback")
                /\ Keep(e, [L(e) EXCEPT !.binding = b,
                                        !.gen = (IF b.gen > 0 THEN b.gen ELSE L(e).gen) + 1])
    /\ TablesUnchanged

GetFallback(e) ==
    /\ At(e, "fallback") /\ L(e).gen <= mat.case.generations
    /\ CASE fb = 0 /\ mat.provider = "none" -> Raise(e)
         [] fb = 0 /\ mat.provider # "none" -> Goto(e, "giveup") /\ UNCHANGED loc
         [] fb # 0 /\ mat.provider = "none" -> Freeze(e, Url(1, fb, FALSE))
         [] fb # 0 /\ mat.provider # "none" ->
              /\ Goto(e, IF L(e).strategy = "url" THEN "match" ELSE "read")
              /\ Keep(e, [L(e) EXCEPT !.src = fb])
    /\ TablesUnchanged

GiveUp(e) ==
    /\ At(e, "giveup") /\ Raise(e)
    /\ mat' = [mat EXCEPT !.status = "reupload_required"]
    /\ Others /\ UNCHANGED <<fb, stored, rows, bindings, puts>>

ReadBytes(e) ==
    /\ At(e, "read")
    /\ IF L(e).src \in stored THEN Goto(e, "prepare") /\ UNCHANGED loc ELSE Raise(e)
    /\ TablesUnchanged

\* adapter.prepare: upload and wait until the file is active.
Prepare(e) ==
    /\ At(e, "prepare")
    /\ \/ Goto(e, "bind") /\ Keep(e, [L(e) EXCEPT !.binding = File(L(e).gen)])
       \/ IF L(e).strategy = "generic" THEN Raise(e)
          ELSE Goto(e, "match") /\ Keep(e, [L(e) EXCEPT !.failed = TRUE])
    /\ TablesUnchanged

\* _gemini_external_projection_matches, and the read that precedes a new copy.
Match(e) ==
    /\ At(e, "match")
    /\ CASE Projected(L(e).src) -> Goto(e, "sign") /\ UNCHANGED loc
         [] ~Projected(L(e).src) /\ L(e).src \in stored -> Goto(e, "copy") /\ UNCHANGED loc
         [] OTHER -> Raise(e)
    /\ TablesUnchanged

\* The replaced object is kept in binding.obj until it is deleted.
Copy(e) ==
    /\ At(e, "copy") /\ Store(puts + 1)
    /\ Goto(e, "repoint")
    /\ Keep(e, [L(e) EXCEPT !.src = puts', !.binding.obj = L(e).src])
    /\ Others /\ UNCHANGED <<mat, bindings>>

Repoint(e) ==
    /\ At(e, "repoint") /\ Goto(e, "replaced") /\ UNCHANGED loc
    /\ mat' = [mat EXCEPT !.object = L(e).src]
    /\ Others /\ UNCHANGED <<fb, stored, rows, bindings, puts>>

\* delete_object_only: the foreign key keeps a row the fallback row names; a
\* deletion that fails is logged and leaves the object.
DeleteReplaced(e) ==
    /\ At(e, "replaced") /\ Goto(e, "sign") /\ UNCHANGED loc
    /\ \/ /\ stored' = stored \ {L(e).binding.obj}
          /\ rows' = rows \ ({L(e).binding.obj} \ {fb})
          /\ UNCHANGED faults
       \/ faults < MaxFaults /\ faults' = faults + 1 /\ UNCHANGED <<stored, rows>>
    /\ UNCHANGED <<mat, fb, bindings, ingress, puts, requests, overlapped>>

\* The store may refuse to sign a key it does not hold.
Sign(e) ==
    /\ At(e, "sign")
    /\ \/ Goto(e, "bind") /\ Keep(e, [L(e) EXCEPT !.binding = Url(L(e).gen, L(e).src, L(e).failed)])
       \/ L(e).src \notin stored /\ Raise(e)
    /\ TablesUnchanged

Bind(e) ==
    /\ At(e, "bind") /\ Upsert(L(e).binding)
    /\ Goto(e, "record") /\ UNCHANGED loc
    /\ Others /\ UNCHANGED <<mat, fb, stored, rows, puts>>

\* Mutant: every path removes the Relay copy.
RecordThenClean(e) ==
    /\ At(e, "record")
    /\ mat' = [mat EXCEPT !.status = "ready_provider", !.gen = L(e).gen]
    /\ IF L(e).binding.rep = "file" THEN Goto(e, "obsolete") /\ UNCHANGED loc
       ELSE Freeze(e, L(e).binding)
    /\ Others /\ UNCHANGED <<fb, stored, rows, bindings, puts>>

\* The closing update_material.  Only the Files-first path then removes the
\* Relay copy; the others keep it.
Record(e) ==
    /\ At(e, "record")
    /\ mat' = [mat EXCEPT !.status = "ready_provider", !.gen = L(e).gen,
                          !.object = IF L(e).strategy = "primary" /\ L(e).failed THEN L(e).src ELSE @]
    /\ IF L(e).strategy = "primary" /\ L(e).binding.rep = "file"
       THEN Goto(e, "obsolete") /\ UNCHANGED loc
       ELSE Freeze(e, L(e).binding)
    /\ Others /\ UNCHANGED <<fb, stored, rows, bindings, puts>>

(***************************************************************************)
(* _cleanup_gemini_supabase_copy: whatever fails, the request goes on.     *)
(***************************************************************************)
Obsolete(e) ==
    /\ At(e, "obsolete")
    /\ IF fb = 0 THEN mat' = [mat EXCEPT !.object = 0] /\ Freeze(e, L(e).binding)
       ELSE UNCHANGED mat /\ Goto(e, "dropBytes") /\ Keep(e, [L(e) EXCEPT !.src = fb])
    /\ Others /\ UNCHANGED <<fb, stored, rows, bindings, puts>>

DropBytes(e) ==
    /\ At(e, "dropBytes") /\ stored' = stored \ {L(e).src}
    /\ Goto(e, "dropColumn") /\ UNCHANGED loc
    /\ Others /\ UNCHANGED <<mat, fb, rows, bindings, puts>>

DropColumn(e) ==
    /\ At(e, "dropColumn") /\ mat' = [mat EXCEPT !.object = 0]
    /\ Goto(e, "dropFallback") /\ UNCHANGED loc
    /\ Others /\ UNCHANGED <<fb, stored, rows, bindings, puts>>

\* Deleted by material: the row of a copy made meanwhile goes as well.
DropFallback(e) ==
    /\ At(e, "dropFallback") /\ fb' = 0
    /\ Goto(e, "dropRow") /\ UNCHANGED loc
    /\ Others /\ UNCHANGED <<mat, stored, rows, bindings, puts>>

DropRow(e) ==
    /\ At(e, "dropRow") /\ rows' = rows \ ({L(e).src} \ {fb})
    /\ mat' = [mat EXCEPT !.object = 0]
    /\ Freeze(e, L(e).binding)
    /\ Others /\ UNCHANGED <<fb, stored, bindings, puts>>

CleanupFails(e) ==
    /\ pc[e] \in {"dropBytes", "dropColumn", "dropFallback", "dropRow"}
    /\ faults < MaxFaults /\ faults' = faults + 1
    /\ Freeze(e, L(e).binding)
    /\ UNCHANGED <<mat, fb, stored, rows, bindings, ingress, puts, requests, overlapped>>

-----------------------------------------------------------------------------
Infer(e) == At(e, "inferring") /\ Raise(e) /\ TablesUnchanged

\* The process of an executor dies; its request is run again by another.
Crash(e) ==
    /\ pc[e] # "idle" /\ faults < MaxFaults
    /\ faults' = faults + 1 /\ Raise(e)
    /\ UNCHANGED <<mat, fb, stored, rows, bindings, ingress, puts, requests, overlapped>>

\* expires_at of a provider file, or of a signed URL, passes.
Expire ==
    /\ \E b \in bindings : b.live /\ bindings' = (bindings \ {b}) \union {[b EXCEPT !.live = FALSE]}
    /\ UNCHANGED <<mat, fb, stored, rows, ingress, pc, loc, puts, requests, faults, overlapped>>

Step(e) ==
    \/ Admit(e) \/ ReadMaterial(e) \/ FindBinding(e) \/ GetFallback(e) \/ GiveUp(e)
    \/ ReadBytes(e) \/ Prepare(e) \/ Match(e) \/ Copy(e) \/ Repoint(e)
    \/ DeleteReplaced(e) \/ Sign(e) \/ Bind(e) \/ Record(e)
    \/ Obsolete(e) \/ DropBytes(e) \/ DropColumn(e) \/ DropFallback(e) \/ DropRow(e)
    \/ CleanupFails(e) \/ Infer(e) \/ Crash(e)

BindingNext == Ingress \/ Expire \/ \E e \in Freezers : Step(e)

BindingSpec == BindingInit /\ [][BindingNext]_bindingVars

-----------------------------------------------------------------------------
(***************************************************************************)
(* Properties.                                                             *)
(***************************************************************************)
Bindings == [rep : {"none", "url", "file"}, gen : 0..mat.case.generations + 1, live : BOOLEAN,
             obj : 0..MaxObjects, failed : BOOLEAN]

\* The tables and the locals of the freezers have their types.
BindingTypeOK ==
    /\ mat.status \in Gone \union Unfinished \union {"ready", "ready_provider", "fallback_stored"}
    /\ mat.object \in 0..MaxObjects /\ mat.gen \in 0..mat.case.generations
    /\ fb \in 0..MaxObjects /\ stored \subseteq Objects /\ rows \subseteq Objects
    /\ bindings \subseteq Bindings
    /\ \A b, c \in bindings : b.rep = c.rep /\ b.gen = c.gen => b = c
    /\ \A e \in Freezers : loc[e].binding \in Bindings /\ loc[e].src \in 0..MaxObjects

InUse == bindings \union {loc[e].binding : e \in {f \in Freezers : pc[f] = "inferring"}}

\* Only the Files-first path ever gives the bytes in Relay up.
FilesFirst == "primary" \in mat.case.strategies

\* The bytes behind every signed URL that a request infers with, or that a
\* later request will reuse, are in the object store, whichever requests
\* re-project the material, upload it or crash meanwhile.
SignedUrlServes == ~FilesFirst => \A b \in InUse : b.rep = "url" => b.obj \in stored

\* "Files is an inference transport, not durability": once uploaded, a Gemini
\* material can be placed again by any later request, since the fallback row
\* names bytes that exist, and the material row names none that do not.
RelayKeepsBytes ==
    mat.provider = "gemini" /\ ~FilesFirst /\ mat.status \notin Unfinished =>
        /\ fb \in stored \intersect rows
        /\ mat.object \in stored

\* Files first takes the bytes away behind the back of requests that have read
\* the rows already, and of sessions that place the material otherwise.
Undisturbed == FilesFirst => mat.case.strategies = {"primary"} /\ ~overlapped

\* A material is declared lost only when nothing of it is left: no bytes in
\* Relay and no provider row that is still usable.  With Files first this is
\* promised to requests that do not overlap: another request may bind the
\* material and drop the fallback row between the two reads of this one.
LostMeansLost ==
    Undisturbed /\ mat.status = "reupload_required" => fb = 0 /\ ~\E b \in bindings : b.live

\* A material that admission accepts can be served, or was served by a row
\* that has expired since: the upload never announces it before its bytes or
\* its binding are recorded, even if it dies in between.
ReadyIsBacked ==
    mat.status \notin Gone \union Unfinished => fb \in stored \/ bindings # {}

\* The docstring of the Files-first path: a Files failure is frozen as a
\* signed URL "and the same bytes remain available", unless a request that
\* overlapped had its upload through and removes them.
FailureKeepsBytes == Undisturbed => \A b \in bindings : b.failed /\ b.live => b.obj \in stored

\* The state properties of the bindings together: their types, bytes that are
\* there when a row promises them, and no material given up too early.
BindingSafe ==
    /\ BindingTypeOK
    /\ RelayKeepsBytes
    /\ LostMeansLost
    /\ ReadyIsBacked
    /\ FailureKeepsBytes
=============================================================================
