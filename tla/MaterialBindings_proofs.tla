------------------------ MODULE MaterialBindings_proofs ------------------------
(***************************************************************************)
(* Proofs about what a request finds in place: its material, for any       *)
(* number of requests that race for it, binding generations, objects and   *)
(* faults, and (last part) its route, for any workbooks, builds, wiring    *)
(* and conditions of the connections.                                      *)
(***************************************************************************)
EXTENDS MaterialBindings, RouteGovernance, TLAPS, WellFoundedInduction, FiniteSetTheorems

USE DEF Gone, Unfinished

-----------------------------------------------------------------------------
(* Kinds.                                                                  *)

Most == mat.case.generations

Statuses == Gone \union Unfinished \union {"ready", "ready_provider", "fallback_stored"}

Stations == {"start", "stage", "staged", "upload", "keep", "rescue", "bound", "rescued", "lost", "done"}

\* The freezer has taken a generation for the binding it makes.
Making == {"giveup", "read", "prepare", "match", "copy", "repoint", "replaced", "sign", "bind", "record"}
Cleaning == {"obsolete", "dropBytes", "dropColumn", "dropFallback", "dropRow"}
Labels == Making \union Cleaning \union {"idle", "admitted", "find", "fallback", "inferring"}

Row == [rep : {"none", "url", "file"}, gen : Nat, live : BOOLEAN, obj : 0..MaxObjects, failed : BOOLEAN]

Local == [strategy : {"generic", "url", "files", "primary"}, gen : Nat, binding : Row,
          src : 0..MaxObjects, failed : BOOLEAN]

MatOK ==
    /\ mat \in [case : Cases, provider : {"gemini", "native", "none"}, status : Statuses,
                object : 0..MaxObjects, gen : Nat, keep : BOOLEAN, bridge : BOOLEAN]
    /\ mat.provider = mat.case.provider /\ mat.gen <= Most

StoreOK ==
    /\ puts \in Nat /\ puts <= MaxObjects
    /\ fb \in Nat /\ fb <= puts
    /\ stored \subseteq 1..puts /\ rows \subseteq 1..puts
    /\ ingress \in Stations

\* One row per representation and generation.
RowsOK ==
    /\ bindings \subseteq Row
    /\ \A b \in bindings : b.gen <= Most
    /\ \A b, c \in bindings : b.rep = c.rep /\ b.gen = c.gen => b = c

LocalOK(e) ==
    /\ pc[e] \in Labels /\ loc[e] \in Local
    /\ loc[e].src <= puts
    /\ loc[e].gen <= Most + 1 /\ loc[e].binding.gen <= Most
    /\ pc[e] \in Making => loc[e].gen <= Most
    /\ pc[e] \in {"admitted", "find"} => loc[e].gen <= Most
    /\ pc[e] # "idle" => e \in mat.case.users /\ mat.status \notin Unfinished
    /\ pc[e] # "idle" => loc[e].strategy \in Placements

LocalsOK ==
    /\ pc \in [Freezers -> Labels] /\ loc \in [Freezers -> Local]
    /\ \A e \in Freezers : LocalOK(e)

Kinds == MatOK /\ StoreOK /\ RowsOK /\ LocalsOK

\* The parameters of the case that the material is about.
LEMMA CaseKinds ==
    MatOK => /\ Most \in Nat \ {0} /\ mat.case.strategies \subseteq {"url", "files", "primary"}
             /\ mat.case.plain \in BOOLEAN /\ mat.case.users \subseteq Freezers
             /\ Placements \subseteq {"generic", "url", "files", "primary"}
             /\ MaxObjects \in Nat
BY CaseAssumption DEF MatOK, Most, Placements

Writes(t, o, g) == mat' = [mat EXCEPT !.status = t, !.object = o, !.gen = g]

\* Every update of the material row keeps its kind and its case.
LEMMA MatWritten ==
  ASSUME MatOK, NEW t \in Statuses, NEW o \in 0..MaxObjects, NEW g \in Nat, g <= Most, Writes(t, o, g)
  PROVE  /\ MatOK' /\ mat'.case = mat.case /\ mat'.provider = mat.provider
         /\ mat'.status = t /\ mat'.object = o /\ mat'.gen = g
BY DEF MatOK, Most, Writes

LEMMA MatForms ==
  ASSUME MatOK, NEW t, NEW o
  PROVE  /\ [mat EXCEPT !.status = t] = [mat EXCEPT !.status = t, !.object = mat.object, !.gen = mat.gen]
         /\ [mat EXCEPT !.object = o] = [mat EXCEPT !.status = mat.status, !.object = o, !.gen = mat.gen]
         /\ [mat EXCEPT !.status = t, !.object = o] = [mat EXCEPT !.status = t, !.object = o, !.gen = mat.gen]
BY DEF MatOK

LEMMA RowKinds ==
    /\ NoBinding \in Row /\ File(1) \in Row
    /\ \A g \in Nat : File(g) \in Row
    /\ \A g \in Nat, o \in 0..MaxObjects, f \in BOOLEAN : Url(g, o, f) \in Row
BY CaseAssumption DEF NoBinding, File, Url, Row

LEMMA KindsInit == BindingInit => Kinds
<1> SUFFICES ASSUME BindingInit PROVE Kinds
  OBVIOUS
<1>1. MatOK
  BY CaseAssumption DEF BindingInit, MatOK, Statuses, Most
<1>2. StoreOK /\ RowsOK
  BY CaseAssumption DEF BindingInit, StoreOK, RowsOK, Stations
<1>3. Fresh \in Local
  BY RowKinds, CaseAssumption DEF Fresh, Local
<1>4. LocalsOK
  BY <1>1, <1>3, CaseKinds DEF BindingInit, LocalsOK, LocalOK, Labels, Fresh, NoBinding
<1> QED BY <1>1, <1>2, <1>4 DEF Kinds

-----------------------------------------------------------------------------
(* The upload.                                                             *)

FreshStore == puts = 0 /\ fb = 0 /\ stored = {} /\ rows = {}
FirstStore == puts = 1 /\ fb = 1 /\ stored = {1} /\ rows = {1}
OneFile == \E b \in bindings : bindings = {b} /\ b.rep = "file"

\* No request is admitted before the upload is over; where it stands tells
\* what it has written.
UploadOK ==
    /\ ingress # "done" => mat.status \in Unfinished
    /\ ingress \in {"start", "stage", "upload", "rescue", "lost"} => FreshStore /\ bindings = {}
    /\ ingress \in {"staged", "rescued"} => FirstStore /\ bindings = {}
    /\ ingress = "keep" => FreshStore /\ OneFile
    /\ ingress = "bound" => (FreshStore \/ FirstStore) /\ OneFile
    /\ ingress \in {"stage", "staged"} => mat.provider # "native"
    /\ ingress \in {"upload", "keep", "rescue", "rescued", "bound", "lost"} => mat.provider = "native"

LEMMA UploadInit == BindingInit => UploadOK
BY DEF BindingInit, UploadOK, FreshStore

\* Nothing runs while the upload does.
LEMMA UploadAlone == Kinds /\ UploadOK /\ ingress # "done" => \A e \in Freezers : pc[e] = "idle"
BY DEF Kinds, UploadOK, LocalsOK, LocalOK

\* What the upload leaves alone, and what it may have done to the store.
LEMMA IdleLocals ==
  ASSUME Kinds, UploadOK, ingress # "done", MatOK', StoreOK', FreezersUnchanged \/ (pc' = pc /\ loc' = loc),
         mat'.case = mat.case, puts <= puts'
  PROVE  LocalsOK'
<1>1. \A e \in Freezers : pc[e] = "idle" /\ pc'[e] = "idle" /\ loc'[e] = loc[e]
  BY UploadAlone DEF FreezersUnchanged
<1>2. pc' = pc /\ loc' = loc
  BY DEF FreezersUnchanged
<1>3. \A e \in Freezers : LocalOK(e)'
  BY <1>1, CaseKinds DEF Kinds, LocalsOK, LocalOK, Most, Making, StoreOK, Local
<1> QED BY <1>2, <1>3 DEF Kinds, LocalsOK

LEMMA IngressKinds ==
  ASSUME Kinds, UploadOK, Ingress
  PROVE  Kinds' /\ UploadOK'
<1> USE DEF UploadOK
<1>1. Most \in Nat \ {0} /\ MaxObjects \in Nat /\ MatOK /\ StoreOK /\ RowsOK
  BY CaseKinds DEF Kinds
<1>2. CASE CreateMaterial
  <2>1. PICK keep \in BOOLEAN, bridge \in BOOLEAN :
          mat' = [mat EXCEPT !.status = IF mat.provider = "none" THEN "receiving" ELSE "binding",
                             !.keep = keep, !.bridge = bridge]
    BY <1>2 DEF CreateMaterial
  <2>2. MatOK' /\ mat'.case = mat.case /\ mat'.provider = mat.provider /\ mat'.status \in Unfinished
    BY <1>1, <2>1 DEF MatOK, Most, Statuses
  <2>3. StoreOK' /\ RowsOK'
    BY <1>1, <1>2, <2>2 DEF CreateMaterial, StoreOK, RowsOK, Stations, Most
  <2>4. UploadOK'
    BY <1>1, <1>2, <2>2 DEF CreateMaterial, FreshStore
  <2> QED BY <1>1, <1>2, <2>2, <2>3, <2>4, IdleLocals DEF CreateMaterial, Kinds, StoreOK
<1>3. CASE Stage
  <2>1. MatOK' /\ StoreOK' /\ RowsOK'
    BY <1>1, <1>3 DEF Stage, Store, MatOK, StoreOK, RowsOK, Objects, Stations, Most
  <2>2. UploadOK'
    BY <1>1, <1>3 DEF Stage, Store, FreshStore, FirstStore
  <2> QED BY <1>1, <1>3, <2>1, <2>2, IdleLocals DEF Stage, Store, Kinds, StoreOK
<1>4. CASE Staged
  <2>1. MatOK' /\ mat'.case = mat.case
    <3>1. fb \in 0..MaxObjects
      BY <1>1 DEF StoreOK
    <3> QED BY <1>1, <1>4, <3>1 DEF Staged, MatOK, Most, Statuses
  <2>3. StoreOK' /\ RowsOK'
    BY <1>1, <1>4, <2>1 DEF Staged, StoreOK, RowsOK, Stations, Most
  <2>2. UploadOK'
    BY <1>1, <1>4 DEF Staged
  <2> QED BY <1>1, <1>4, <2>1, <2>2, <2>3, IdleLocals DEF Staged, Kinds, StoreOK
<1>5. CASE PrepareUpload
  <2>1. MatOK' /\ StoreOK'
    BY <1>1, <1>5 DEF PrepareUpload, MatOK, StoreOK, Stations, Most
  <2>2. (bindings' = {} \/ bindings' = {File(1)}) /\ bindings = {}
    BY <1>5 DEF PrepareUpload, Upsert
  <2>3. RowsOK'
    <3>1. File(1) \in Row /\ File(1).gen = 1 /\ Most' = Most
      BY <1>5, RowKinds DEF File, PrepareUpload, Most
    <3> QED BY <1>1, <2>2, <3>1 DEF RowsOK
  <2>4. UploadOK'
    BY <1>1, <1>5, <2>2 DEF PrepareUpload, Upsert, File, FreshStore, FirstStore, OneFile
  <2> QED BY <1>1, <1>5, <2>1, <2>3, <2>4, IdleLocals DEF PrepareUpload, Kinds, StoreOK
<1>6. CASE KeepBytes
  <2>1. MatOK' /\ StoreOK' /\ RowsOK'
    BY <1>1, <1>6 DEF KeepBytes, Store, MatOK, StoreOK, RowsOK, Objects, Stations, Most
  <2>2. UploadOK'
    BY <1>1, <1>6 DEF KeepBytes, Store, FreshStore, FirstStore, OneFile
  <2> QED BY <1>1, <1>6, <2>1, <2>2, IdleLocals DEF KeepBytes, Store, Kinds, StoreOK
<1>7. CASE FinishUpload
  <2>1. MatOK' /\ mat'.case = mat.case
    <3>1. fb \in 0..MaxObjects
      BY <1>1 DEF StoreOK
    <3>4. \/ mat' = [mat EXCEPT !.status = "ready_provider", !.object = fb, !.gen = 1]
          \/ mat' = [mat EXCEPT !.status = "fallback_stored", !.object = fb]
          \/ mat' = [mat EXCEPT !.status = "failed"]
      BY <1>7 DEF FinishUpload
    <3>2. \E t \in Statuses, o \in {fb, mat.object}, g \in {1, mat.gen} : Writes(t, o, g)
      <4>1. /\ [mat EXCEPT !.status = "failed"] = [mat EXCEPT !.status = "failed", !.object = mat.object, !.gen = mat.gen]
            /\ [mat EXCEPT !.status = "fallback_stored", !.object = fb]
                 = [mat EXCEPT !.status = "fallback_stored", !.object = fb, !.gen = mat.gen]
        BY <1>1, MatForms
      <4>2. {"ready_provider", "fallback_stored", "failed"} \subseteq Statuses
        BY DEF Statuses
      <4>3. \/ Writes("ready_provider", fb, 1) \/ Writes("fallback_stored", fb, mat.gen)
            \/ Writes("failed", mat.object, mat.gen)
        BY <3>4, <4>1, Zenon DEF Writes
      <4> QED BY <4>2, <4>3
    <3>3. \A o \in {fb, mat.object}, g \in {1, mat.gen} : o \in 0..MaxObjects /\ g \in Nat /\ g <= Most
      BY <1>1, <3>1 DEF MatOK
    <3> QED BY <1>1, <3>2, <3>3, MatWritten
  <2>2. StoreOK' /\ RowsOK'
    BY <1>1, <1>7, <2>1 DEF FinishUpload, StoreOK, RowsOK, Stations, Most
  <2>3. UploadOK'
    BY <1>7 DEF FinishUpload
  <2> QED BY <1>1, <1>7, <2>1, <2>2, <2>3, IdleLocals DEF FinishUpload, Kinds, StoreOK
<1>8. CASE UploadDies
  <2>1. MatOK' /\ StoreOK' /\ RowsOK'
    BY <1>1, <1>8 DEF UploadDies, MatOK, StoreOK, RowsOK, Stations, Most
  <2>2. UploadOK'
    BY <1>8 DEF UploadDies
  <2> QED BY <1>1, <1>8, <2>1, <2>2, IdleLocals DEF UploadDies, Kinds, StoreOK
<1> QED BY <1>2, <1>3, <1>4, <1>5, <1>6, <1>7, <1>8 DEF Ingress
-----------------------------------------------------------------------------
(* The freezers.                                                           *)

\* A step leaves the tables in their kinds and takes nothing back.
Onward ==
    /\ MatOK' /\ StoreOK' /\ puts <= puts'
    /\ mat'.case = mat.case /\ mat'.provider = mat.provider
    /\ mat.status \notin Unfinished => mat'.status \notin Unfinished

\* Freezer e goes to l with the locals r, which are fit for it.
Proceeds(e, l, r) ==
    /\ Goto(e, l) /\ Keep(e, r) /\ l \in Labels /\ r \in Local
    /\ r.src <= puts' /\ r.gen <= Most + 1 /\ r.binding.gen <= Most
    /\ l \in Making \union {"admitted", "find"} => r.gen <= Most
    /\ l # "idle" => e \in mat.case.users /\ mat.status \notin Unfinished /\ r.strategy \in Placements

\* A freezer that goes on with new locals, while the others stay.
LEMMA Moves ==
  ASSUME Kinds, NEW e \in Freezers, NEW l, NEW r, Proceeds(e, l, r), Onward
  PROVE  /\ LocalsOK' /\ pc'[e] = l /\ loc'[e] = r
         /\ \A f \in Freezers \ {e} : pc'[f] = pc[f] /\ loc'[f] = loc[f]
<1> USE DEF Kinds, LocalsOK, Proceeds, Onward
<1>1. /\ pc' \in [Freezers -> Labels] /\ loc' \in [Freezers -> Local] /\ pc'[e] = l /\ loc'[e] = r
      /\ \A f \in Freezers \ {e} : pc'[f] = pc[f] /\ loc'[f] = loc[f]
  BY DEF Goto, Keep
<1>2. LocalOK(e)'
  BY <1>1 DEF LocalOK, Most, Placements
<1>3. ASSUME NEW f \in Freezers \ {e} PROVE LocalOK(f)'
  <2>1. LocalOK(f) /\ pc'[f] = pc[f] /\ loc'[f] = loc[f]
    BY <1>1
  <2>2. loc[f].src \in Nat /\ puts \in Nat /\ puts' \in Nat
    BY <2>1, CaseKinds DEF LocalOK, Local, StoreOK
  <2> QED BY <2>1, <2>2 DEF LocalOK, Most, Placements
<1> QED BY <1>1, <1>2, <1>3

LEMMA Same == ASSUME LocalsOK, NEW e \in Freezers, UNCHANGED loc PROVE Keep(e, L(e))
BY DEF Keep, L, LocalsOK

\* What is left alone by most steps.
LEMMA TablesStay ==
  ASSUME Kinds, UNCHANGED <<mat, fb, stored, rows, bindings, ingress, puts>>
  PROVE  Onward /\ RowsOK' /\ mat' = mat /\ puts \in Nat /\ puts' = puts /\ Most \in Nat
BY CaseKinds DEF Kinds, MatOK, StoreOK, RowsOK, Most, Onward

LEMMA StepOfUser ==
  ASSUME Kinds, NEW e \in Freezers, pc[e] # "idle"
  PROVE  /\ e \in mat.case.users /\ mat.status \notin Unfinished /\ L(e) \in Local /\ L(e).binding \in Row
         /\ L(e).strategy \in Placements /\ L(e).src \in Nat /\ L(e).src <= puts /\ L(e).gen \in Nat
         /\ L(e).gen <= Most + 1 /\ L(e).binding.gen <= Most
         /\ pc[e] \in Making \union {"admitted", "find"} => L(e).gen <= Most
BY DEF Kinds, LocalsOK, LocalOK, L, Local

LEMMA RaiseKinds ==
  ASSUME Kinds, NEW e \in Freezers, Raise(e), Onward
  PROVE  LocalsOK' /\ pc'[e] = "idle" /\ \A f \in Freezers \ {e} : pc'[f] = pc[f] /\ loc'[f] = loc[f]
<1>1. Fresh \in Local /\ Fresh.src = 0 /\ Fresh.gen = 0 /\ Fresh.binding.gen = 0 /\ "idle" \in Labels
  BY RowKinds, CaseKinds DEF Fresh, Local, NoBinding, Labels, Kinds
<1>2. Most \in Nat /\ puts' \in Nat /\ "idle" \notin Making \union {"admitted", "find"}
  BY CaseKinds DEF Kinds, StoreOK, Making, Onward
<1>3. Proceeds(e, "idle", Fresh)
  BY <1>1, <1>2 DEF Proceeds, Raise
<1> QED BY <1>3, Moves

\* The forms in which a freezer changes its locals.
LEMMA LocalForms ==
  ASSUME NEW r \in Local, NEW b \in Row, NEW g \in Nat, NEW n \in 0..MaxObjects
  PROVE  /\ [r EXCEPT !.binding = b] \in Local
         /\ [r EXCEPT !.gen = g] \in Local
         /\ [r EXCEPT !.src = n] \in Local
         /\ [r EXCEPT !.failed = TRUE] \in Local
         /\ [r EXCEPT !.binding = b, !.gen = g] \in Local
         /\ [r EXCEPT !.src = n, !.binding.obj = r.src] \in Local
BY DEF Local, Row

LEMMA LatestKinds == Kinds => \A b \in Latest : b \in Row /\ b.gen <= Most
<1> SUFFICES ASSUME Kinds, NEW b \in Latest PROVE b \in Row /\ b.gen <= Most
  OBVIOUS
<1>1. b = NoBinding \/ b \in bindings
  BY DEF Latest
<1>2. NoBinding \in Row /\ NoBinding.gen = 0 /\ Most \in Nat
  BY RowKinds, CaseKinds DEF NoBinding, Kinds
<1> QED BY <1>1, <1>2 DEF Kinds, RowsOK

LEMMA StatusStays ==
  ASSUME Kinds, UploadOK, NEW e \in Freezers, pc[e] # "idle" \/ Admit(e), ingress' = ingress,
         mat'.status \notin Unfinished
  PROVE  UploadOK'
BY DEF UploadOK, Kinds, LocalsOK, LocalOK, Admit

LEMMA AdmitKinds == ASSUME Kinds, NEW e \in Freezers, Admit(e) PROVE Kinds'
<1>1. Onward /\ RowsOK' /\ puts \in Nat /\ puts' = puts /\ Most \in Nat
  BY TablesStay DEF Admit
<1>2. PICK s \in Placements : Keep(e, [Fresh EXCEPT !.strategy = s])
  BY DEF Admit
<1>3. Fresh \in Local /\ s \in {"generic", "url", "files", "primary"}
  BY RowKinds, CaseKinds DEF Fresh, Local, Kinds
<1> DEFINE r == [Fresh EXCEPT !.strategy = s]
<1>4. r \in Local /\ r.src = 0 /\ r.gen = 0 /\ r.binding.gen = 0 /\ r.strategy = s
  BY <1>3 DEF Local, Fresh, NoBinding
<1>5. Keep(e, r)
  BY <1>2
<1> HIDE DEF r
<1>6. Proceeds(e, "admitted", r)
  BY <1>1, <1>4, <1>5 DEF Proceeds, Admit, Labels
<1> QED BY <1>1, <1>6, Moves DEF Kinds, Onward

\* A step of a freezer that changes where it stands and its locals to r, with
\* the strategy it was admitted with.
LEMMA GoesOn ==
  ASSUME Kinds, NEW e \in Freezers, pc[e] # "idle", Onward, RowsOK', NEW l, l \in Labels, NEW r, r \in Local,
         Goto(e, l), Keep(e, r), r.strategy = L(e).strategy,
         r.src = L(e).src \/ r.src <= puts',
         r.gen <= Most + 1, r.binding.gen <= Most, l \in Making \union {"admitted", "find"} => r.gen <= Most
  PROVE  Kinds'
<1>1. r.src <= puts'
  BY StepOfUser DEF Kinds, StoreOK, Onward
<1>2. Proceeds(e, l, r)
  BY <1>1, StepOfUser DEF Proceeds
<1> QED BY <1>2, Moves DEF Kinds, Onward

LEMMA ReadMaterialKinds == ASSUME Kinds, NEW e \in Freezers, ReadMaterial(e) PROVE Kinds'
<1>1. Onward /\ RowsOK' /\ pc[e] = "admitted" /\ Most \in Nat
  BY TablesStay DEF ReadMaterial, At, TablesUnchanged
<1>2. CASE Raise(e)
  BY <1>1, <1>2, RaiseKinds DEF Kinds, Onward
<1>3. CASE Goto(e, "find") /\ Keep(e, [L(e) EXCEPT !.gen = mat.gen])
  <2> DEFINE r == [L(e) EXCEPT !.gen = mat.gen]
  <2>1. L(e) \in Local /\ mat.gen \in Nat /\ mat.gen <= Most
    BY <1>1, StepOfUser DEF Kinds, MatOK
  <2>2. /\ r \in Local /\ r.src = L(e).src /\ r.gen = mat.gen /\ r.binding = L(e).binding
        /\ r.strategy = L(e).strategy
    BY <2>1, LocalForms DEF Local
  <2>3. Keep(e, r)
    BY <1>3
  <2> HIDE DEF r
  <2>4. "find" \in Labels /\ r.gen <= Most + 1 /\ r.binding.gen <= Most
    BY <1>1, <2>1, <2>2, StepOfUser DEF Labels
  <2> QED BY <1>1, <1>3, <2>1, <2>2, <2>3, <2>4, GoesOn
<1> QED BY <1>2, <1>3 DEF ReadMaterial

LEMMA FreezeKinds ==
  ASSUME Kinds, NEW e \in Freezers, pc[e] # "idle", NEW b \in Row, b.gen <= Most, Freeze(e, b), Onward, RowsOK'
  PROVE  Kinds'
<1> DEFINE r == [L(e) EXCEPT !.binding = b]
<1>1. L(e) \in Local /\ L(e).gen <= Most + 1
  BY StepOfUser
<1>2. /\ r \in Local /\ r.src = L(e).src /\ r.gen = L(e).gen /\ r.binding = b
      /\ r.strategy = L(e).strategy
  BY <1>1, LocalForms DEF Local
<1>3. Keep(e, r) /\ Goto(e, "inferring")
  BY DEF Freeze
<1> HIDE DEF r
<1>4. "inferring" \in Labels /\ "inferring" \notin Making \union {"admitted", "find"}
  BY DEF Labels, Making
<1> QED BY <1>1, <1>2, <1>3, <1>4, GoesOn

LEMMA FindBindingKinds == ASSUME Kinds, NEW e \in Freezers, FindBinding(e) PROVE Kinds'
<1>1. Onward /\ RowsOK' /\ pc[e] = "find" /\ Most \in Nat
  BY TablesStay DEF FindBinding, At, TablesUnchanged
<1>2. PICK b \in Latest :
        \/ Goto(e, "obsolete") /\ Keep(e, [L(e) EXCEPT !.binding = b])
        \/ Freeze(e, b)
        \/ /\ Goto(e, "fallback")
           /\ Keep(e, [L(e) EXCEPT !.binding = b, !.gen = (IF b.gen > 0 THEN b.gen ELSE L(e).gen) + 1])
  BY DEF FindBinding
<1>3. b \in Row /\ b.gen <= Most /\ b.gen \in Nat /\ L(e) \in Local /\ L(e).gen \in Nat /\ L(e).gen <= Most
  BY <1>1, LatestKinds, StepOfUser DEF Row
<1>4. {"obsolete", "fallback"} \subseteq Labels /\ "obsolete" \notin Making /\ "fallback" \notin Making
  BY DEF Labels, Making, Cleaning
<1>5. CASE Freeze(e, b)
  BY <1>1, <1>3, <1>5, FreezeKinds
<1>6. CASE Goto(e, "obsolete") /\ Keep(e, [L(e) EXCEPT !.binding = b])
  <2> DEFINE r == [L(e) EXCEPT !.binding = b]
  <2>1. /\ r \in Local /\ r.src = L(e).src /\ r.gen = L(e).gen /\ r.binding = b
        /\ r.strategy = L(e).strategy
    BY <1>3, LocalForms DEF Local
  <2>2. Keep(e, r)
    BY <1>6
  <2> HIDE DEF r
  <2>3. r.gen <= Most + 1
    BY <1>1, <1>3, <2>1
  <2> QED BY <1>1, <1>3, <1>4, <1>6, <2>1, <2>2, <2>3, GoesOn
<1>7. ASSUME Goto(e, "fallback"),
             Keep(e, [L(e) EXCEPT !.binding = b, !.gen = (IF b.gen > 0 THEN b.gen ELSE L(e).gen) + 1])
      PROVE  Kinds'
  <2> DEFINE g == (IF b.gen > 0 THEN b.gen ELSE L(e).gen) + 1
             r == [L(e) EXCEPT !.binding = b, !.gen = g]
  <2>1. g \in Nat /\ g <= Most + 1
    BY <1>1, <1>3
  <2>2. Keep(e, r)
    BY <1>7
  <2> HIDE DEF g
  <2>3. /\ r \in Local /\ r.src = L(e).src /\ r.gen = g /\ r.binding = b /\ r.strategy = L(e).strategy
    BY <1>3, <2>1, LocalForms DEF Local
  <2> HIDE DEF r
  <2> QED BY <1>1, <1>3, <1>4, <1>7, <2>1, <2>2, <2>3, GoesOn
<1> QED BY <1>2, <1>5, <1>6, <1>7
\* A step that only changes where the freezer stands.
LEMMA WalksOn ==
  ASSUME Kinds, NEW e \in Freezers, pc[e] # "idle", Onward, RowsOK', NEW l, l \in Labels,
         Goto(e, l), loc' = loc, l \in Making \union {"admitted", "find"} => L(e).gen <= Most
  PROVE  Kinds'
<1>1. Keep(e, L(e))
  BY Same DEF Kinds
<1> QED BY <1>1, StepOfUser, GoesOn

LEMMA RaisedKinds ==
  ASSUME Kinds, NEW e \in Freezers, Raise(e), Onward, RowsOK'
  PROVE  Kinds'
BY RaiseKinds DEF Kinds, Onward

\* A step that writes the material row or takes bytes and rows away.
LEMMA WritesOn ==
  ASSUME Kinds, NEW t \in Statuses \ Unfinished, NEW o \in 0..MaxObjects, NEW g \in Nat, g <= Most, Writes(t, o, g),
         stored' \subseteq stored, rows' \subseteq rows, fb' \in {0, fb}, puts' = puts, ingress' = ingress,
         bindings' = bindings
  PROVE  Onward /\ RowsOK' /\ mat'.status \notin Unfinished
<1>1. MatOK' /\ mat'.case = mat.case /\ mat'.provider = mat.provider /\ mat'.status = t
  BY MatWritten DEF Kinds
<1>2. StoreOK' /\ puts <= puts'
  BY DEF Kinds, StoreOK
<1>3. RowsOK'
  BY <1>1 DEF Kinds, RowsOK, Most
<1> QED BY <1>1, <1>2, <1>3 DEF Onward

LEMMA RepointsOn ==
  ASSUME Kinds, mat.status \notin Unfinished, NEW o \in 0..MaxObjects, mat' = [mat EXCEPT !.object = o],
         stored' \subseteq stored, rows' \subseteq rows, fb' \in {0, fb}, puts' = puts, ingress' = ingress,
         bindings' = bindings
  PROVE  Onward /\ RowsOK' /\ mat'.status = mat.status /\ mat'.object = o
<1>1. Writes(mat.status, o, mat.gen)
  BY MatForms DEF Writes, Kinds
<1>2. mat.status \in Statuses \ Unfinished /\ mat.gen \in Nat /\ mat.gen <= Most
  BY DEF Kinds, MatOK
<1> QED BY <1>1, <1>2, WritesOn, MatWritten DEF Kinds

LEMMA StaysOn ==
  ASSUME Kinds, mat' = mat, stored' \subseteq stored, rows' \subseteq rows, fb' \in {0, fb}, puts' = puts,
         ingress' = ingress, bindings' = bindings
  PROVE  Onward /\ RowsOK'
BY DEF Kinds, MatOK, StoreOK, RowsOK, Most, Onward

LEMMA GetFallbackKinds == ASSUME Kinds, NEW e \in Freezers, GetFallback(e) PROVE Kinds'
<1>1. Onward /\ RowsOK' /\ pc[e] = "fallback" /\ Most \in Nat /\ puts' = puts /\ L(e).gen <= Most
  BY TablesStay DEF GetFallback, At, TablesUnchanged, Most
<1>2. fb \in 0..MaxObjects /\ fb <= puts /\ L(e) \in Local
  BY <1>1, StepOfUser, CaseKinds DEF Kinds, StoreOK
<1>3. CASE Raise(e)
  BY <1>1, <1>3, RaisedKinds
<1>4. CASE Goto(e, "giveup") /\ UNCHANGED loc
  BY <1>1, <1>4, WalksOn DEF Labels, Making
<1>5. CASE Freeze(e, Url(1, fb, FALSE))
  <2>1. Url(1, fb, FALSE) \in Row
    BY <1>2, RowKinds
  <2>2. Url(1, fb, FALSE).gen = 1 /\ 1 <= Most
    BY CaseKinds DEF Url, Kinds
  <2> QED BY <1>1, <1>5, <2>1, <2>2, FreezeKinds
<1>6. ASSUME NEW l \in {"match", "read"}, Goto(e, l), Keep(e, [L(e) EXCEPT !.src = fb]) PROVE Kinds'
  <2> DEFINE r == [L(e) EXCEPT !.src = fb]
  <2>1. /\ r \in Local /\ r.src = fb /\ r.gen = L(e).gen /\ r.binding = L(e).binding
        /\ r.strategy = L(e).strategy
    BY <1>2, LocalForms DEF Local
  <2>2. Keep(e, r) /\ l \in Labels
    BY <1>6 DEF Labels, Making
  <2> HIDE DEF r
  <2>3. r.gen <= Most + 1 /\ r.gen <= Most /\ r.binding.gen <= Most /\ r.src <= puts'
    BY <1>1, <1>2, <2>1, StepOfUser
  <2> QED BY <1>1, <1>6, <2>1, <2>2, <2>3, GoesOn
<1> QED BY <1>3, <1>4, <1>5, <1>6 DEF GetFallback

LEMMA GiveUpKinds == ASSUME Kinds, NEW e \in Freezers, GiveUp(e) PROVE Kinds' /\ mat'.status \notin Unfinished
<1>1. Writes("reupload_required", mat.object, mat.gen)
  BY MatForms DEF GiveUp, Writes, Kinds
<1>2. "reupload_required" \in Statuses \ Unfinished /\ mat.gen \in Nat /\ mat.gen <= Most /\ mat.object \in 0..MaxObjects
  BY DEF Statuses, Kinds, MatOK
<1>3. Onward /\ RowsOK' /\ mat'.status \notin Unfinished
  BY <1>1, <1>2, WritesOn DEF GiveUp, Others
<1> QED BY <1>3, RaisedKinds DEF GiveUp

LEMMA ReadBytesKinds == ASSUME Kinds, NEW e \in Freezers, ReadBytes(e) PROVE Kinds'
<1>1. Onward /\ RowsOK' /\ pc[e] = "read" /\ pc[e] \in Making /\ "prepare" \in Labels
  BY TablesStay DEF ReadBytes, At, TablesUnchanged, Making, Labels
<1> QED BY <1>1, WalksOn, RaisedKinds, StepOfUser DEF ReadBytes

LEMMA PrepareKinds == ASSUME Kinds, NEW e \in Freezers, Prepare(e) PROVE Kinds'
<1>1. Onward /\ RowsOK' /\ pc[e] = "prepare" /\ pc[e] \in Making /\ {"bind", "match"} \subseteq Labels /\ Most \in Nat
  BY TablesStay DEF Prepare, At, TablesUnchanged, Making, Labels
<1>2. L(e) \in Local /\ L(e).gen \in Nat /\ L(e).gen <= Most /\ L(e).gen <= Most + 1 /\ L(e).binding.gen <= Most
  BY <1>1, StepOfUser
<1>3. CASE Raise(e)
  BY <1>1, <1>3, RaisedKinds
<1>4. CASE Goto(e, "bind") /\ Keep(e, [L(e) EXCEPT !.binding = File(L(e).gen)])
  <2> DEFINE r == [L(e) EXCEPT !.binding = File(L(e).gen)]
  <2>1. File(L(e).gen) \in Row /\ File(L(e).gen).gen = L(e).gen
    BY <1>2, RowKinds DEF File
  <2>2. /\ r \in Local /\ r.src = L(e).src /\ r.gen = L(e).gen /\ r.binding = File(L(e).gen)
        /\ r.strategy = L(e).strategy
    BY <1>2, <2>1, LocalForms DEF Local
  <2>3. Keep(e, r)
    BY <1>4
  <2> HIDE DEF r
  <2> QED BY <1>1, <1>2, <1>4, <2>1, <2>2, <2>3, GoesOn
<1>5. CASE Goto(e, "match") /\ Keep(e, [L(e) EXCEPT !.failed = TRUE])
  <2> DEFINE r == [L(e) EXCEPT !.failed = TRUE]
  <2>1. /\ r \in Local /\ r.src = L(e).src /\ r.gen = L(e).gen /\ r.binding = L(e).binding
        /\ r.strategy = L(e).strategy
    BY <1>2, LocalForms DEF Local
  <2>2. Keep(e, r)
    BY <1>5
  <2> HIDE DEF r
  <2> QED BY <1>1, <1>2, <1>5, <2>1, <2>2, GoesOn
<1> QED BY <1>3, <1>4, <1>5 DEF Prepare

LEMMA MatchKinds == ASSUME Kinds, NEW e \in Freezers, Match(e) PROVE Kinds'
<1>1. Onward /\ RowsOK' /\ pc[e] = "match" /\ pc[e] \in Making /\ {"sign", "copy"} \subseteq Labels
  BY TablesStay DEF Match, At, TablesUnchanged, Making, Labels
<1> QED BY <1>1, WalksOn, RaisedKinds, StepOfUser DEF Match

LEMMA CopyKinds == ASSUME Kinds, NEW e \in Freezers, Copy(e) PROVE Kinds'
<1>1. /\ pc[e] = "copy" /\ pc[e] \in Making /\ "repoint" \in Labels /\ Most \in Nat
      /\ puts \in Nat /\ MaxObjects \in Nat /\ puts' = puts + 1 /\ puts' <= MaxObjects /\ mat' = mat
  BY CaseKinds DEF Copy, At, Making, Labels, Kinds, StoreOK, Store, Objects, Others
<1>2. StoreOK'
  BY <1>1 DEF Copy, Store, Others, Kinds, StoreOK, Objects
<1>3. Onward /\ RowsOK'
  BY <1>1, <1>2 DEF Onward, Copy, Others, Kinds, MatOK, RowsOK, Most
<1>4. L(e) \in Local /\ L(e).gen <= Most /\ L(e).gen <= Most + 1 /\ L(e).binding.gen <= Most /\ puts' \in 0..MaxObjects
      /\ L(e).binding \in Row /\ L(e).src \in 0..MaxObjects
  BY <1>1, StepOfUser DEF Local
<1> DEFINE r == [L(e) EXCEPT !.src = puts', !.binding.obj = L(e).src]
<1>5. r \in Local
  BY <1>4, LocalForms
<1>6. r.src = puts' /\ r.gen = L(e).gen /\ r.binding.gen = L(e).binding.gen /\ r.strategy = L(e).strategy
  BY <1>4 DEF Local, Row
<1>7. Keep(e, r) /\ Goto(e, "repoint")
  BY DEF Copy
<1> HIDE DEF r
<1> QED BY <1>1, <1>3, <1>4, <1>5, <1>6, <1>7, GoesOn

LEMMA RepointKinds == ASSUME Kinds, NEW e \in Freezers, Repoint(e) PROVE Kinds' /\ mat'.status = mat.status
<1>1. pc[e] = "repoint" /\ pc[e] \in Making /\ "replaced" \in Labels
  BY DEF Repoint, At, Making, Labels
<1>2. L(e).src \in 0..MaxObjects /\ mat.status \notin Unfinished
  BY <1>1, StepOfUser DEF Local
<1>3. Onward /\ RowsOK' /\ mat'.status = mat.status
  BY <1>2, RepointsOn DEF Repoint, Others
<1> QED BY <1>1, <1>3, WalksOn, StepOfUser DEF Repoint

LEMMA DeleteReplacedKinds == ASSUME Kinds, NEW e \in Freezers, DeleteReplaced(e) PROVE Kinds'
<1>1. pc[e] = "replaced" /\ pc[e] \in Making /\ "sign" \in Labels
  BY DEF DeleteReplaced, At, Making, Labels
<1>2. Onward /\ RowsOK'
  BY StaysOn DEF DeleteReplaced
<1> QED BY <1>1, <1>2, WalksOn, StepOfUser DEF DeleteReplaced

LEMMA SignKinds == ASSUME Kinds, NEW e \in Freezers, Sign(e) PROVE Kinds'
<1>1. Onward /\ RowsOK' /\ pc[e] = "sign" /\ pc[e] \in Making /\ "bind" \in Labels /\ Most \in Nat
  BY TablesStay DEF Sign, At, TablesUnchanged, Making, Labels
<1>2. CASE Raise(e)
  BY <1>1, <1>2, RaisedKinds
<1> DEFINE b == Url(L(e).gen, L(e).src, L(e).failed)
           r == [L(e) EXCEPT !.binding = b]
<1>3. CASE Goto(e, "bind") /\ Keep(e, r)
  <2>1. /\ L(e) \in Local /\ L(e).gen \in Nat /\ L(e).src \in 0..MaxObjects /\ L(e).failed \in BOOLEAN
        /\ L(e).gen <= Most /\ L(e).gen <= Most + 1
    BY <1>1, StepOfUser DEF Local
  <2>2. b \in Row /\ b.gen = L(e).gen
    BY <2>1, RowKinds DEF Url
  <2> HIDE DEF b
  <2>3. r \in Local /\ r.src = L(e).src /\ r.gen = L(e).gen /\ r.binding = b /\ r.strategy = L(e).strategy
    BY <2>1, <2>2, LocalForms DEF Local
  <2> HIDE DEF r
  <2> QED BY <1>1, <1>3, <2>1, <2>2, <2>3, GoesOn
<1> QED BY <1>2, <1>3 DEF Sign

\* A row takes the place of the one of its representation and generation.
LEMMA UpsertRows ==
  ASSUME Kinds, NEW b \in Row, b.gen <= Most, Upsert(b), mat'.case = mat.case
  PROVE  /\ RowsOK' /\ b \in bindings'
         /\ \A x \in bindings' : x = b \/ x \in bindings
         /\ \A x \in bindings : x \in bindings' \/ (x.rep = b.rep /\ x.gen = b.gen)
<1>1. \A x : x \in bindings' <=> x = b \/ (x \in bindings /\ ~(x.rep = b.rep /\ x.gen = b.gen))
  BY DEF Upsert
<1> QED BY <1>1 DEF Kinds, RowsOK, Most

LEMMA BindKinds == ASSUME Kinds, NEW e \in Freezers, Bind(e) PROVE Kinds'
<1>1. pc[e] = "bind" /\ pc[e] \in Making /\ "record" \in Labels
  BY DEF Bind, At, Making, Labels
<1>2. Onward
  BY CaseKinds DEF Bind, Others, Kinds, MatOK, StoreOK, Most, Onward
<1>3. RowsOK'
  BY <1>1, StepOfUser, UpsertRows DEF Bind
<1> QED BY <1>1, <1>2, <1>3, WalksOn, StepOfUser DEF Bind

LEMMA RecordKinds == ASSUME Kinds, NEW e \in Freezers, Record(e) PROVE Kinds' /\ mat'.status \notin Unfinished
<1>1. pc[e] = "record" /\ pc[e] \in Making /\ "obsolete" \in Labels /\ "obsolete" \notin Making
  BY DEF Record, At, Making, Labels, Cleaning
<1>2. /\ L(e).gen \in Nat /\ L(e).gen <= Most /\ L(e).src \in 0..MaxObjects /\ L(e).binding \in Row
      /\ L(e).binding.gen <= Most /\ mat.object \in 0..MaxObjects
  BY <1>1, StepOfUser DEF Local, Kinds, MatOK
<1> DEFINE o == IF L(e).strategy = "primary" /\ L(e).failed THEN L(e).src ELSE mat.object
<1>3. Writes("ready_provider", o, L(e).gen)
  BY DEF Record, Writes, Kinds, MatOK
<1>4. o \in 0..MaxObjects /\ "ready_provider" \in Statuses \ Unfinished
  BY <1>2 DEF Statuses
<1> HIDE DEF o
<1>5. Onward /\ RowsOK' /\ mat'.status \notin Unfinished
  BY <1>2, <1>3, <1>4, WritesOn DEF Record, Others
<1> QED BY <1>1, <1>2, <1>5, WalksOn, FreezeKinds DEF Record

LEMMA ObsoleteKinds == ASSUME Kinds, NEW e \in Freezers, Obsolete(e) PROVE Kinds' /\ mat'.status = mat.status
<1>1. /\ pc[e] = "obsolete" /\ {"dropBytes", "obsolete"} \subseteq Labels
      /\ {"dropBytes", "obsolete"} \intersect (Making \union {"admitted", "find"}) = {}
  BY DEF Obsolete, At, Making, Labels, Cleaning
<1>2. /\ L(e) \in Local /\ L(e).gen \in Nat /\ L(e).gen <= Most + 1 /\ L(e).binding \in Row /\ L(e).binding.gen <= Most
      /\ mat.status \notin Unfinished
  BY <1>1, StepOfUser
<1>3. fb \in 0..MaxObjects /\ fb <= puts /\ 0 \in 0..MaxObjects
  BY CaseKinds DEF Kinds, StoreOK
<1>4. CASE fb = 0
  <2>1. Onward /\ RowsOK' /\ mat'.status = mat.status
    BY <1>2, <1>3, <1>4, RepointsOn DEF Obsolete, Others
  <2> QED BY <1>1, <1>2, <1>4, <2>1, FreezeKinds DEF Obsolete
<1>5. CASE fb # 0
  <2>1. Onward /\ RowsOK' /\ mat' = mat /\ puts' = puts
    BY <1>5, StaysOn DEF Obsolete, Others
  <2> DEFINE r == [L(e) EXCEPT !.src = fb]
  <2>2. /\ r \in Local /\ r.src = fb /\ r.gen = L(e).gen /\ r.binding = L(e).binding
        /\ r.strategy = L(e).strategy
    BY <1>2, <1>3, LocalForms DEF Local
  <2>3. Keep(e, r) /\ Goto(e, "dropBytes")
    BY <1>5 DEF Obsolete
  <2> HIDE DEF r
  <2>4. Kinds'
    BY <1>1, <1>2, <1>3, <2>1, <2>2, <2>3, GoesOn
  <2> QED BY <2>1, <2>4
<1> QED BY <1>4, <1>5

LEMMA DropBytesKinds == ASSUME Kinds, NEW e \in Freezers, DropBytes(e) PROVE Kinds'
<1>1. pc[e] = "dropBytes" /\ "dropColumn" \in Labels \ (Making \union {"admitted", "find"})
  BY DEF DropBytes, At, Making, Labels, Cleaning
<1>2. Onward /\ RowsOK'
  BY StaysOn DEF DropBytes, Others
<1> QED BY <1>1, <1>2, WalksOn DEF DropBytes

LEMMA DropColumnKinds == ASSUME Kinds, NEW e \in Freezers, DropColumn(e) PROVE Kinds' /\ mat'.status = mat.status
<1>1. pc[e] = "dropColumn" /\ "dropFallback" \in Labels \ (Making \union {"admitted", "find"})
  BY DEF DropColumn, At, Making, Labels, Cleaning
<1>2. Onward /\ RowsOK' /\ mat'.status = mat.status
  BY <1>1, CaseKinds, StepOfUser, RepointsOn DEF DropColumn, Others, Kinds
<1> QED BY <1>1, <1>2, WalksOn DEF DropColumn

LEMMA DropFallbackKinds == ASSUME Kinds, NEW e \in Freezers, DropFallback(e) PROVE Kinds'
<1>1. pc[e] = "dropFallback" /\ "dropRow" \in Labels \ (Making \union {"admitted", "find"})
  BY DEF DropFallback, At, Making, Labels, Cleaning
<1>2. Onward /\ RowsOK'
  BY StaysOn DEF DropFallback, Others
<1> QED BY <1>1, <1>2, WalksOn DEF DropFallback

LEMMA DropRowKinds == ASSUME Kinds, NEW e \in Freezers, DropRow(e) PROVE Kinds' /\ mat'.status = mat.status
<1>1. pc[e] = "dropRow" /\ L(e).binding \in Row /\ L(e).binding.gen <= Most /\ mat.status \notin Unfinished
  BY StepOfUser DEF DropRow, At
<1>2. Onward /\ RowsOK' /\ mat'.status = mat.status
  BY <1>1, CaseKinds, RepointsOn DEF DropRow, Others, Kinds
<1> QED BY <1>1, <1>2, FreezeKinds DEF DropRow

LEMMA CleanupFailsKinds == ASSUME Kinds, NEW e \in Freezers, CleanupFails(e) PROVE Kinds'
<1>1. pc[e] # "idle" /\ L(e).binding \in Row /\ L(e).binding.gen <= Most
  BY StepOfUser DEF CleanupFails
<1>2. Onward /\ RowsOK'
  BY StaysOn DEF CleanupFails
<1> QED BY <1>1, <1>2, FreezeKinds DEF CleanupFails

LEMMA EndKinds == ASSUME Kinds, NEW e \in Freezers, Infer(e) \/ Crash(e) PROVE Kinds'
<1>1. Onward /\ RowsOK'
  BY StaysOn DEF Infer, Crash, TablesUnchanged
<1> QED BY <1>1, RaisedKinds DEF Infer, Crash

LEMMA ExpireKinds == ASSUME Kinds, Expire PROVE Kinds'
<1>1. PICK b \in bindings : b.live /\ bindings' = (bindings \ {b}) \union {[b EXCEPT !.live = FALSE]}
  BY DEF Expire
<1> DEFINE c == [b EXCEPT !.live = FALSE]
<1>2. b \in Row /\ b.gen <= Most
  BY DEF Kinds, RowsOK
<1>3. c \in Row /\ c.gen = b.gen /\ c.rep = b.rep
  BY <1>2 DEF Row
<1>4. \A x : x \in bindings' <=> (x \in bindings /\ x # b) \/ x = c
  BY <1>1
<1> HIDE DEF c
<1>5. RowsOK'
  <2>1. mat' = mat
    BY DEF Expire
  <2> QED BY <1>2, <1>3, <1>4, <2>1 DEF Kinds, RowsOK, Most
<1>6. MatOK' /\ StoreOK' /\ LocalsOK'
  BY DEF Expire, Kinds, MatOK, StoreOK, LocalsOK, LocalOK, Most, Placements
<1> QED BY <1>5, <1>6 DEF Kinds

\* The statuses that a freezer writes are those of an upload that is over.
LEMMA StepKinds ==
  ASSUME Kinds, UploadOK, NEW e \in Freezers, Step(e)
  PROVE  Kinds' /\ UploadOK'
<1>1. Kinds' /\ (mat'.status = mat.status \/ mat'.status \notin Unfinished)
  <2>1. CASE Admit(e) \/ ReadMaterial(e) \/ FindBinding(e) \/ GetFallback(e) \/ GiveUp(e) \/ ReadBytes(e) \/ Prepare(e)
    BY <2>1, AdmitKinds, ReadMaterialKinds, FindBindingKinds, GetFallbackKinds, GiveUpKinds, ReadBytesKinds,
       PrepareKinds DEF Admit, ReadMaterial, FindBinding, GetFallback, ReadBytes, Prepare, TablesUnchanged
  <2>2. CASE Match(e) \/ Copy(e) \/ Repoint(e) \/ DeleteReplaced(e) \/ Sign(e) \/ Bind(e) \/ Record(e)
    BY <2>2, MatchKinds, CopyKinds, RepointKinds, DeleteReplacedKinds, SignKinds, BindKinds, RecordKinds
       DEF Match, Copy, DeleteReplaced, Sign, Bind, TablesUnchanged
  <2>3. CASE Obsolete(e) \/ DropBytes(e) \/ DropColumn(e) \/ DropFallback(e) \/ DropRow(e) \/ CleanupFails(e)
    BY <2>3, ObsoleteKinds, DropBytesKinds, DropColumnKinds, DropFallbackKinds, DropRowKinds, CleanupFailsKinds
       DEF DropBytes, DropFallback, CleanupFails
  <2>4. CASE Infer(e) \/ Crash(e)
    BY <2>4, EndKinds DEF Infer, Crash, TablesUnchanged
  <2> QED BY <2>1, <2>2, <2>3, <2>4 DEF Step
<1>2. pc[e] # "idle" \/ Admit(e)
  BY DEF Step, At, ReadMaterial, FindBinding, GetFallback, GiveUp, ReadBytes, Prepare, Match, Copy, Repoint,
         DeleteReplaced, Sign, Bind, Record, Obsolete, DropBytes, DropColumn, DropFallback, DropRow,
         CleanupFails, Infer, Crash
<1>3. mat.status \notin Unfinished
  BY <1>2, StepOfUser DEF Admit
<1>4. ingress' = ingress
  BY DEF Step, Others, TablesUnchanged, Admit, ReadMaterial, FindBinding, GetFallback, GiveUp, ReadBytes, Prepare,
         Match, Copy, Repoint, DeleteReplaced, Sign, Bind, Record, Obsolete, DropBytes, DropColumn, DropFallback,
         DropRow, CleanupFails, Infer, Crash
<1> QED BY <1>1, <1>2, <1>3, <1>4, StatusStays

LEMMA BindingNextKinds ==
  ASSUME Kinds, UploadOK, [BindingNext]_bindingVars
  PROVE  Kinds' /\ UploadOK'
<1>1. CASE Expire
  <2>1. PICK b \in bindings : bindings' = (bindings \ {b}) \union {[b EXCEPT !.live = FALSE]}
    BY <1>1 DEF Expire
  <2>2. b \in Row
    BY DEF Kinds, RowsOK
  <2>3. OneFile => OneFile'
    <3>1. [b EXCEPT !.live = FALSE].rep = b.rep
      BY <2>2 DEF Row
    <3>2. ASSUME OneFile PROVE bindings' = {[b EXCEPT !.live = FALSE]} /\ b.rep = "file"
      BY <2>1, <3>2 DEF OneFile
    <3> QED BY <3>1, <3>2 DEF OneFile
  <2>4. UploadOK'
    BY <1>1, <2>3 DEF Expire, UploadOK, FreshStore, FirstStore
  <2> QED BY <1>1, <2>4, ExpireKinds
<1>2. CASE UNCHANGED bindingVars
  BY <1>2 DEF bindingVars, Kinds, MatOK, StoreOK, RowsOK, LocalsOK, LocalOK, Most, Placements, UploadOK, FreshStore,
              FirstStore, OneFile
<1> QED BY <1>1, <1>2, IngressKinds, StepKinds DEF BindingNext

-----------------------------------------------------------------------------
(* What serves a request.                                                  *)

Settled == mat.status \notin Gone \union Unfinished
NoneLive == \A b \in bindings : ~b.live

\* Where a freezer stands after a step of it.
LEMMA Moved ==
  ASSUME Kinds, NEW e \in Freezers, NEW l, NEW r, Goto(e, l), Keep(e, r)
  PROVE  /\ pc'[e] = l /\ loc'[e] = r
         /\ \A f \in Freezers \ {e} : pc'[f] = pc[f] /\ loc'[f] = loc[f]
BY DEF Goto, Keep, Kinds, LocalsOK

\* An expired row is otherwise the row it was.
Aged(b, c) == b.rep = c.rep /\ b.gen = c.gen /\ b.obj = c.obj /\ b.failed = c.failed /\ (c.live => b.live)

LEMMA Expires ==
  ASSUME Kinds, Expire
  PROVE  /\ \A c \in bindings' : \E b \in bindings : Aged(b, c)
         /\ bindings # {} /\ bindings' # {}
<1>1. PICK b \in bindings : b.live /\ bindings' = (bindings \ {b}) \union {[b EXCEPT !.live = FALSE]}
  BY DEF Expire
<1>2. b \in Row
  BY DEF Kinds, RowsOK
<1>3. Aged(b, [b EXCEPT !.live = FALSE]) /\ \A c \in bindings : Aged(c, c)
  BY <1>2 DEF Row, Aged
<1> QED BY <1>1, <1>3

-----------------------------------------------------------------------------
(* Without Gemini the copy in Relay is written once and never removed; the *)
(* only rows are those of files, and without a copy there is one at most.  *)

OtherTables ==
    /\ fb # 0 => fb \in stored
    /\ \A b \in bindings : b.rep = "file" /\ ~b.failed
    /\ mat.provider = "none" => bindings = {}
    /\ fb = 0 => \A b, c \in bindings : b = c
    /\ mat.status = "reupload_required" => fb = 0 /\ NoneLive
    /\ Settled => fb # 0 \/ bindings # {}

\* A freezer at l with the locals r.
OtherLane(l, r) ==
    /\ l \in {"idle", "admitted", "find", "fallback", "giveup", "read", "prepare", "bind", "record", "inferring"}
    /\ l \in {"giveup", "read", "prepare", "bind", "record"} => mat.provider # "none"
    /\ l \in {"read", "prepare", "bind", "record"} => fb # 0
    /\ l \in {"bind", "record"} => r.binding.rep = "file" /\ ~r.binding.failed
    /\ l = "giveup" => fb = 0
    /\ l \in {"fallback", "giveup"} /\ fb = 0 => NoneLive
    /\ l = "inferring" /\ r.binding.rep = "url" => r.binding.obj = fb /\ fb # 0

OtherNow == OtherTables /\ \A e \in Freezers : OtherLane(pc[e], loc[e])

\* The others do not notice a step that keeps the copy and revives no row.
OtherSteady == fb' = fb /\ mat'.provider = mat.provider /\ (fb = 0 /\ NoneLive => NoneLive')

LEMMA OtherMoves ==
  ASSUME Kinds, OtherNow, NEW e \in Freezers, NEW l, NEW r, Goto(e, l), Keep(e, r),
         OtherTables', OtherSteady, OtherLane(l, r)'
  PROVE  OtherNow'
<1>1. ASSUME NEW f \in Freezers PROVE OtherLane(pc[f], loc[f])'
  <2>1. CASE f = e
    BY <2>1, Moved
  <2>2. CASE f # e
    <3>1. pc'[f] = pc[f] /\ loc'[f] = loc[f] /\ OtherLane(pc[f], loc[f])
      BY <2>2, Moved DEF OtherNow
    <3> QED BY <3>1 DEF OtherLane, OtherSteady
  <2> QED BY <2>1, <2>2
<1> QED BY <1>1 DEF OtherNow

\* A step of a freezer that only reads.
LEMMA OtherReads ==
  ASSUME Kinds, OtherNow, UNCHANGED <<mat, fb, stored, bindings>>,
         NEW e \in Freezers, NEW l, NEW r, Goto(e, l), Keep(e, r), OtherLane(l, r)
  PROVE  OtherNow'
<1>1. OtherTables' /\ OtherSteady /\ OtherLane(l, r)'
  BY DEF OtherNow, OtherTables, OtherSteady, OtherLane, Settled, NoneLive
<1> QED BY <1>1, OtherMoves

LEMMA OtherRaises ==
  ASSUME Kinds, OtherNow, UNCHANGED <<mat, fb, stored, bindings>>, NEW e \in Freezers, Raise(e)
  PROVE  OtherNow'
BY OtherReads DEF Raise, OtherLane

LEMMA OtherStep ==
  ASSUME Kinds, mat.provider # "gemini", OtherNow, NEW e \in Freezers, Step(e)
  PROVE  OtherNow'
<1>1. OtherTables /\ OtherLane(pc[e], loc[e]) /\ mat.provider \in {"native", "none"}
  BY DEF OtherNow, Kinds, MatOK
<1>2. /\ pc[e] # "idle" => L(e) \in Local /\ L(e).strategy = "generic" /\ L(e).binding \in Row
      /\ \A b \in Latest : b = NoBinding \/ b \in bindings
  BY <1>1, StepOfUser DEF Placements, Latest
<1>3. CASE Admit(e)
  <2>1. PICK s : Keep(e, [Fresh EXCEPT !.strategy = s])
    BY <1>3 DEF Admit
  <2>2. OtherLane("admitted", [Fresh EXCEPT !.strategy = s])
    BY DEF OtherLane
  <2> QED BY <1>3, <2>1, <2>2, OtherReads DEF Admit
<1>4. CASE ReadMaterial(e)
  <2>1. OtherLane("find", [L(e) EXCEPT !.gen = mat.gen])
    BY DEF OtherLane
  <2> QED BY <1>4, <2>1, OtherReads, OtherRaises DEF ReadMaterial, TablesUnchanged
<1>5. CASE FindBinding(e)
  <2>1. PICK b \in Latest :
          IF mat.provider # "none" /\ Reusable(L(e).strategy, b) THEN Freeze(e, b)
          ELSE /\ Goto(e, "fallback")
               /\ Keep(e, [L(e) EXCEPT !.binding = b, !.gen = (IF b.gen > 0 THEN b.gen ELSE L(e).gen) + 1])
    BY <1>2, <1>5 DEF FindBinding, At
  <2>2. CASE mat.provider # "none" /\ Reusable(L(e).strategy, b)
    <3>1. b.rep # "url" /\ L(e) \in Local
      BY <1>1, <1>2, <1>5, <2>2 DEF Reusable, NoBinding, OtherTables, FindBinding, At
    <3>2. [L(e) EXCEPT !.binding = b].binding = b
      BY <3>1 DEF Local
    <3>3. OtherLane("inferring", [L(e) EXCEPT !.binding = b])
      BY <3>1, <3>2 DEF OtherLane
    <3> QED BY <1>5, <2>1, <2>2, <3>3, OtherReads DEF FindBinding, TablesUnchanged, Freeze
  <2>3. CASE ~(mat.provider # "none" /\ Reusable(L(e).strategy, b))
    <3>1. ASSUME fb = 0 PROVE NoneLive
      <4>1. CASE mat.provider = "none"
        BY <1>1, <4>1 DEF OtherTables, NoneLive
      <4>2. CASE bindings # {} /\ ~b.live
        BY <1>1, <2>1, <3>1, <4>2 DEF OtherTables, NoneLive, Latest
      <4>3. mat.provider # "none" => ~b.live
        BY <1>2, <1>5, <2>3 DEF Reusable, FindBinding, At
      <4> QED BY <4>1, <4>2, <4>3 DEF NoneLive
    <3> DEFINE r == [L(e) EXCEPT !.binding = b, !.gen = (IF b.gen > 0 THEN b.gen ELSE L(e).gen) + 1]
    <3>2. Keep(e, r) /\ Goto(e, "fallback")
      BY <2>1, <2>3
    <3> HIDE DEF r
    <3>3. OtherLane("fallback", r)
      BY <3>1 DEF OtherLane
    <3> QED BY <1>5, <3>2, <3>3, OtherReads DEF FindBinding, TablesUnchanged
  <2> QED BY <2>2, <2>3
<1>6. CASE GetFallback(e)
  <2>1. /\ L(e) \in Local /\ L(e).strategy = "generic" /\ pc[e] = "fallback" /\ fb \in Nat
        /\ UNCHANGED <<mat, fb, stored, bindings>>
    BY <1>2, <1>6 DEF GetFallback, At, Kinds, StoreOK, TablesUnchanged
  <2>2. CASE Raise(e)
    BY <2>1, <2>2, OtherRaises
  <2>3. CASE fb = 0 /\ mat.provider # "none"
    <3>1. OtherLane("giveup", L(e)) /\ Keep(e, L(e)) /\ Goto(e, "giveup")
      BY <1>1, <1>6, <2>1, <2>3, Same DEF OtherLane, GetFallback, Kinds
    <3> QED BY <2>1, <3>1, OtherReads
  <2>4. CASE fb # 0 /\ mat.provider = "none"
    <3>1. [L(e) EXCEPT !.binding = Url(1, fb, FALSE)].binding = Url(1, fb, FALSE)
      BY <2>1 DEF Local
    <3>2. OtherLane("inferring", [L(e) EXCEPT !.binding = Url(1, fb, FALSE)])
      BY <2>4, <3>1 DEF OtherLane, Url
    <3> QED BY <1>6, <2>1, <2>4, <3>2, OtherReads DEF GetFallback, Freeze
  <2>5. CASE fb # 0 /\ mat.provider # "none"
    <3>1. OtherLane("read", [L(e) EXCEPT !.src = fb])
      BY <2>5 DEF OtherLane
    <3> QED BY <1>6, <2>1, <2>5, <3>1, OtherReads DEF GetFallback
  <2> QED BY <1>6, <2>2, <2>3, <2>4, <2>5 DEF GetFallback
<1>7. CASE GiveUp(e)
  <2>1. /\ pc[e] = "giveup" /\ fb = 0 /\ NoneLive /\ mat' = [mat EXCEPT !.status = "reupload_required"]
        /\ UNCHANGED <<fb, stored, bindings>> /\ Raise(e)
    BY <1>1, <1>7 DEF OtherLane, GiveUp, At
  <2>2. mat'.status = "reupload_required" /\ mat'.provider = mat.provider
    BY <2>1 DEF Kinds, MatOK
  <2>3. OtherTables' /\ OtherSteady /\ OtherLane("idle", Fresh)'
    BY <1>1, <2>1, <2>2 DEF OtherTables, OtherSteady, OtherLane, NoneLive, Settled
  <2> QED BY <2>1, <2>3, OtherMoves DEF Raise
<1>8. CASE ReadBytes(e)
  <2>1. OtherLane("prepare", L(e)) /\ UNCHANGED <<mat, fb, stored, bindings>>
    BY <1>1, <1>8 DEF OtherLane, ReadBytes, At, TablesUnchanged
  <2> QED BY <1>8, <2>1, OtherReads, OtherRaises, Same DEF ReadBytes, Kinds
<1>9. CASE Prepare(e)
  <2>1. /\ L(e) \in Local /\ L(e).strategy = "generic" /\ pc[e] = "prepare"
        /\ UNCHANGED <<mat, fb, stored, bindings>>
    BY <1>2, <1>9 DEF Prepare, At, TablesUnchanged
  <2>2. [L(e) EXCEPT !.binding = File(L(e).gen)].binding = File(L(e).gen)
    BY <2>1 DEF Local
  <2>3. OtherLane("bind", [L(e) EXCEPT !.binding = File(L(e).gen)])
    BY <1>1, <2>1, <2>2 DEF OtherLane, File
  <2> QED BY <1>9, <2>1, <2>3, OtherReads, OtherRaises DEF Prepare
<1>10. CASE Bind(e)
  <2>1. /\ pc[e] = "bind" /\ L(e) = loc[e] /\ L(e).binding \in Row /\ L(e).binding.gen <= Most /\ mat' = mat
        /\ fb' = fb /\ stored' = stored
    BY <1>10, StepOfUser DEF Bind, At, L
  <2>2. mat.provider # "none" /\ fb # 0 /\ L(e).binding.rep = "file" /\ ~L(e).binding.failed
    BY <1>1, <2>1 DEF OtherLane
  <2>3. \A x \in bindings' : x = L(e).binding \/ x \in bindings
    BY <1>10, <2>1, UpsertRows DEF Bind
  <2>4. OtherTables' /\ OtherSteady
    BY <1>1, <2>1, <2>2, <2>3 DEF OtherTables, OtherSteady, Settled
  <2>5. PICK r : r = L(e)
    OBVIOUS
  <2>6. OtherLane("record", r)'
    BY <2>1, <2>2, <2>5 DEF OtherLane
  <2>7. Goto(e, "record") /\ Keep(e, r)
    BY <1>10, <2>5, Same DEF Bind, Kinds
  <2> QED BY <2>4, <2>6, <2>7, OtherMoves
<1>11. CASE Record(e)
  <2>1. /\ pc[e] = "record" /\ L(e) = loc[e] /\ L(e) \in Local /\ L(e).strategy = "generic"
        /\ UNCHANGED <<fb, stored, bindings>> /\ Freeze(e, L(e).binding)
    BY <1>2, <1>11 DEF Record, At, L
  <2>2. fb # 0 /\ L(e).binding.rep = "file"
    BY <1>1, <2>1 DEF OtherLane
  <2>3. mat'.status = "ready_provider" /\ mat'.provider = mat.provider
    BY <1>11 DEF Record, Kinds, MatOK
  <2>4. PICK r : r = [L(e) EXCEPT !.binding = L(e).binding]
    OBVIOUS
  <2>5. r.binding.rep = "file"
    BY <2>1, <2>2, <2>4 DEF Local
  <2>6. OtherTables' /\ OtherSteady /\ OtherLane("inferring", r)'
    BY <1>1, <2>1, <2>2, <2>3, <2>5 DEF OtherTables, OtherSteady, OtherLane, Settled, NoneLive
  <2>7. Goto(e, "inferring") /\ Keep(e, r)
    BY <2>1, <2>4 DEF Freeze
  <2> QED BY <2>6, <2>7, OtherMoves
<1>12. CASE Infer(e) \/ Crash(e)
  BY <1>12, OtherRaises DEF Infer, Crash, TablesUnchanged
<1>13. CASE \/ Match(e) \/ Copy(e) \/ Repoint(e) \/ DeleteReplaced(e) \/ Sign(e) \/ Obsolete(e) \/ DropBytes(e)
            \/ DropColumn(e) \/ DropFallback(e) \/ DropRow(e) \/ CleanupFails(e)
  BY <1>1, <1>13 DEF OtherLane, At, Match, Copy, Repoint, DeleteReplaced, Sign, Obsolete, DropBytes, DropColumn,
                     DropFallback, DropRow, CleanupFails
<1> QED BY <1>3, <1>4, <1>5, <1>6, <1>7, <1>8, <1>9, <1>10, <1>11, <1>12, <1>13 DEF Step

LEMMA OtherExpires ==
  ASSUME Kinds, OtherNow, Expire
  PROVE  OtherNow'
<1>1. PICK b \in bindings : bindings' = (bindings \ {b}) \union {[b EXCEPT !.live = FALSE]}
  BY DEF Expire
<1>2. UNCHANGED <<mat, fb, stored, pc, loc>>
  BY DEF Expire
<1>3. NoneLive => NoneLive'
  BY Expires DEF NoneLive, Aged
<1>4. (\A x, y \in bindings : x = y) => \A x, y \in bindings' : x = y
  BY <1>1
<1>5. OtherTables'
  BY <1>2, <1>3, <1>4, Expires DEF OtherNow, OtherTables, Aged, Settled
<1>6. \A e \in Freezers : OtherLane(pc[e], loc[e])'
  BY <1>2, <1>3 DEF OtherNow, OtherLane
<1> QED BY <1>2, <1>5, <1>6 DEF OtherNow

LEMMA OtherIngress ==
  ASSUME Kinds, UploadOK, Kinds', mat.provider # "gemini", OtherNow, Ingress
  PROVE  OtherNow'
<1>1. \A e \in Freezers : pc[e] = "idle"
  BY UploadAlone DEF Ingress, CreateMaterial, Stage, Staged, PrepareUpload, KeepBytes, FinishUpload, UploadDies
<1>2. pc' = pc
  BY DEF Ingress, CreateMaterial, Stage, Staged, PrepareUpload, KeepBytes, FinishUpload, UploadDies, FreezersUnchanged
<1>3. \A e \in Freezers : OtherLane(pc[e], loc[e])'
  BY <1>1, <1>2 DEF OtherLane
<1>4. OtherTables'
  <2>1. mat \in [case : Cases, provider : {"gemini", "native", "none"}, status : Statuses,
                 object : 0..MaxObjects, gen : Nat, keep : BOOLEAN, bridge : BOOLEAN] /\ OtherTables
    BY DEF Kinds, MatOK, OtherNow
  <2>2. CASE CreateMaterial
    <3>1. mat'.status \in Unfinished /\ mat'.provider = mat.provider
      BY <2>1, <2>2 DEF CreateMaterial
    <3> QED BY <2>1, <2>2, <3>1 DEF CreateMaterial, OtherTables, Settled, NoneLive
  <2>3. CASE Stage \/ KeepBytes
    <3>1. mat' = mat /\ fb' = 1 /\ 1 \in stored' /\ bindings' = bindings /\ mat.status \in Unfinished
      BY <2>3 DEF Stage, KeepBytes, Store, UploadOK
    <3> QED BY <2>1, <3>1 DEF OtherTables, Settled, NoneLive
  <2>4. CASE Staged
    <3>1. /\ mat'.status = "ready" /\ mat'.provider = mat.provider /\ fb = 1
          /\ UNCHANGED <<fb, stored, bindings>>
      BY <2>1, <2>4 DEF Staged, UploadOK, FirstStore
    <3> QED BY <2>1, <3>1 DEF OtherTables, Settled, NoneLive
  <2>5. CASE PrepareUpload
    <3>1. bindings' = {} \/ bindings' = {File(1)}
      BY <2>5 DEF PrepareUpload, Upsert, UploadOK
    <3>2. UNCHANGED <<mat, fb, stored>> /\ mat.status \in Unfinished /\ mat.provider = "native"
      BY <2>5 DEF PrepareUpload, UploadOK
    <3>3. \A b \in bindings' : b = File(1)
      BY <3>1
    <3>4. File(1).rep = "file" /\ ~File(1).failed
      BY DEF File
    <3> QED BY <2>1, <3>2, <3>3, <3>4 DEF OtherTables, Settled
  <2>6. CASE FinishUpload
    <3>1. UNCHANGED <<fb, stored, bindings>>
      BY <2>6 DEF FinishUpload
    <3>2. \/ ingress = "bound" /\ mat' = [mat EXCEPT !.status = "ready_provider", !.object = fb, !.gen = 1]
          \/ ingress = "rescued" /\ mat' = [mat EXCEPT !.status = "fallback_stored", !.object = fb]
          \/ ingress = "lost" /\ mat' = [mat EXCEPT !.status = "failed"]
      BY <2>6 DEF FinishUpload
    <3>3. /\ mat'.provider = mat.provider
          /\ \/ ingress = "bound" /\ mat'.status = "ready_provider"
             \/ ingress = "rescued" /\ mat'.status = "fallback_stored"
             \/ mat'.status = "failed"
      BY <2>1, <3>2
    <3>4. (ingress = "bound" => bindings # {}) /\ (ingress = "rescued" => fb = 1)
      BY DEF UploadOK, OneFile, FirstStore
    <3> QED BY <2>1, <3>1, <3>3, <3>4 DEF OtherTables, Settled, NoneLive
  <2>7. CASE UploadDies
    BY <2>1, <2>7 DEF UploadDies, OtherTables, Settled, NoneLive
  <2> QED BY <2>2, <2>3, <2>4, <2>5, <2>6, <2>7 DEF Ingress
<1> QED BY <1>3, <1>4 DEF OtherNow

-----------------------------------------------------------------------------
(* Gemini, without the Files-first strategy or before anything was bound:  *)
(* the copy is only replaced, and the only object ever removed is the      *)
(* first, when its name was not one that Gemini takes.  No row promises    *)
(* that object, whatever the others do.                                    *)

Good(o) == o \in Nat /\ 1 <= o /\ o <= puts /\ (o > 1 \/ Plain)

KeptTables ==
    /\ fb = puts /\ stored = rows
    /\ \A o \in 1..puts : o > 1 \/ Plain \/ puts = 1 => o \in stored
    /\ mat.status \notin Unfinished => puts >= 1 /\ mat.object \in stored
    /\ \A b \in bindings : /\ b.rep \in {"url", "file"} /\ (b.failed => b.rep = "url")
                           /\ b.rep = "url" => Good(b.obj)
    /\ mat.status # "reupload_required"

KeptLane(l, r) ==
    /\ l \notin Cleaning \union {"giveup"}
    /\ l \in {"read", "prepare", "match", "copy", "repoint", "replaced", "sign"} => r.src \in 1..puts
    /\ l = "copy" => r.src = 1 /\ ~Plain
    /\ l \in {"repoint", "replaced"} => r.binding.obj = 1 /\ ~Plain /\ r.src > 1
    /\ l = "replaced" => mat.object > 1
    /\ l = "sign" => Good(r.src)
    /\ l \in {"bind", "record"} => r.binding.rep \in {"url", "file"} /\ (r.binding.failed => r.binding.rep = "url")
    /\ l \in {"bind", "record", "inferring"} /\ r.binding.rep = "url" => Good(r.binding.obj)
    /\ l = "record" => bindings # {}

KeptNow == KeptTables /\ \A e \in Freezers : KeptLane(pc[e], loc[e])

KeptSteady ==
    /\ puts \in Nat /\ puts' \in Nat /\ puts <= puts' /\ mat'.case = mat.case
    /\ mat.object > 1 => mat'.object > 1
    /\ bindings # {} => bindings' # {}

LEMMA GoodStays ==
  ASSUME puts \in Nat, puts' \in Nat, puts <= puts', mat'.case = mat.case, NEW o, Good(o)
  PROVE  Good(o)'
BY DEF Good, Plain

LEMMA KeptLaneStays ==
  ASSUME KeptSteady, NEW l, NEW r, KeptLane(l, r)
  PROVE  KeptLane(l, r)'
<1>1. Good(r.src) => Good(r.src)'
  BY GoodStays DEF KeptSteady
<1>2. Good(r.binding.obj) => Good(r.binding.obj)'
  BY GoodStays DEF KeptSteady
<1>3. Plain' = Plain /\ (r.src \in 1..puts => r.src \in 1..puts')
  BY DEF KeptSteady, Plain
<1> QED BY <1>1, <1>2, <1>3 DEF KeptLane, KeptSteady

LEMMA KeptMoves ==
  ASSUME Kinds, KeptNow, NEW e \in Freezers, NEW l, NEW r, Goto(e, l), Keep(e, r),
         KeptTables', KeptSteady, KeptLane(l, r)'
  PROVE  KeptNow'
<1>1. ASSUME NEW f \in Freezers PROVE KeptLane(pc[f], loc[f])'
  <2>1. CASE f = e
    BY <2>1, Moved
  <2>2. CASE f # e
    <3>1. PICK m, q : m = pc[f] /\ q = loc[f]
      OBVIOUS
    <3>2. pc'[f] = m /\ loc'[f] = q /\ KeptLane(m, q)
      BY <2>2, <3>1, Moved DEF KeptNow
    <3>3. KeptLane(m, q)'
      BY <3>2, KeptLaneStays
    <3> QED BY <3>2, <3>3
  <2> QED BY <2>1, <2>2
<1> QED BY <1>1 DEF KeptNow

\* What a step of a freezer that only reads leaves alone.
Untouched == UNCHANGED <<mat, fb, stored, rows, bindings, puts>>

LEMMA KeptReads ==
  ASSUME Kinds, KeptNow, Untouched, NEW e \in Freezers, NEW l, NEW r, Goto(e, l), Keep(e, r), KeptLane(l, r)
  PROVE  KeptNow'
<1>1. KeptTables' /\ KeptSteady
  BY DEF Untouched, KeptNow, KeptTables, KeptSteady, Good, Plain, Kinds, StoreOK
<1>2. KeptLane(l, r)'
  BY <1>1, KeptLaneStays
<1> QED BY <1>1, <1>2, KeptMoves

LEMMA KeptRaises ==
  ASSUME Kinds, KeptNow, Untouched, NEW e \in Freezers, Raise(e)
  PROVE  KeptNow'
<1>1. KeptLane("idle", Fresh)
  BY DEF KeptLane, Cleaning
<1> QED BY <1>1, KeptReads DEF Raise

\* The store and the rows of a step that only writes the material row.
LEMMA KeptWrites ==
  ASSUME Kinds, KeptTables, UNCHANGED <<fb, stored, rows, bindings, puts>>, mat'.case = mat.case,
         mat'.status # "reupload_required", mat.status \notin Unfinished, mat'.object \in stored
  PROVE  KeptTables'
BY DEF KeptTables, Good, Plain

KeptSubject == mat.provider = "gemini" /\ (FilesFirst => bindings = {})

LEMMA KeptFacts ==
  ASSUME Kinds, KeptSubject, KeptNow, NEW e \in Freezers, pc[e] # "idle"
  PROVE  /\ L(e) = loc[e] /\ L(e) \in Local /\ KeptLane(pc[e], L(e))
         /\ L(e).strategy \in {"url", "files", "primary"} /\ (L(e).strategy = "primary" => bindings = {})
         /\ L(e).binding \in Row /\ L(e).src \in Nat /\ L(e).gen \in Nat
         /\ KeptTables /\ puts \in Nat /\ puts >= 1 /\ mat.status \notin Unfinished
         /\ mat.object \in stored /\ stored \subseteq 1..puts
<1>1. /\ L(e).strategy \in {"url", "files", "primary"}
      /\ L(e).strategy = "primary" => bindings = {}
  BY StepOfUser, CaseKinds DEF KeptSubject, FilesFirst, Placements, Kinds
<1> QED BY <1>1, StepOfUser DEF L, Kinds, StoreOK, KeptNow, KeptTables

\* The steps that read, and choose what is to be done.
LEMMA KeptReadStep ==
  ASSUME Kinds, KeptSubject, KeptNow, NEW e \in Freezers,
         \/ Admit(e) \/ ReadMaterial(e) \/ FindBinding(e) \/ GetFallback(e) \/ ReadBytes(e) \/ Prepare(e)
         \/ Match(e) \/ Sign(e) \/ Infer(e) \/ Crash(e)
  PROVE  KeptNow'
<1>1. Untouched
  BY DEF Untouched, TablesUnchanged, Admit, ReadMaterial, FindBinding, GetFallback, ReadBytes, Prepare, Match, Sign,
         Infer, Crash
<1>2. CASE Raise(e)
  BY <1>1, <1>2, KeptRaises
<1>3. CASE Admit(e)
  <2>1. PICK s : Keep(e, [Fresh EXCEPT !.strategy = s])
    BY <1>3 DEF Admit
  <2>2. KeptLane("admitted", [Fresh EXCEPT !.strategy = s])
    BY DEF KeptLane, Cleaning
  <2> QED BY <1>1, <1>3, <2>1, <2>2, KeptReads DEF Admit
<1>4. CASE ReadMaterial(e) /\ ~Raise(e)
  <2>1. KeptLane("find", [L(e) EXCEPT !.gen = mat.gen])
    BY DEF KeptLane, Cleaning
  <2> QED BY <1>1, <1>4, <2>1, KeptReads DEF ReadMaterial
<1>5. CASE FindBinding(e)
  <2>1. L(e) \in Local /\ L(e).strategy \in {"url", "files", "primary"} /\ KeptTables
        /\ (L(e).strategy = "primary" => bindings = {})
    BY <1>5, KeptFacts DEF FindBinding, At
  <2>5. L(e).strategy = "primary" => \A b \in Latest : ~Reusable(L(e).strategy, b)
    BY <2>1 DEF Latest, NoBinding, Reusable
  <2>2. PICK b \in Latest :
          \/ Reusable(L(e).strategy, b) /\ Freeze(e, b)
          \/ /\ Goto(e, "fallback")
             /\ Keep(e, [L(e) EXCEPT !.binding = b, !.gen = (IF b.gen > 0 THEN b.gen ELSE L(e).gen) + 1])
    BY <1>5, <2>1, <2>5 DEF FindBinding
  <2>3. CASE Reusable(L(e).strategy, b) /\ Freeze(e, b)
    <3>1. b.rep = "url" => Good(b.obj)
      BY <2>1, <2>2, <2>3 DEF Reusable, KeptTables, Latest, NoBinding
    <3>2. PICK r : r = [L(e) EXCEPT !.binding = b]
      OBVIOUS
    <3>3. r.binding = b
      BY <2>1, <3>2 DEF Local
    <3>4. KeptLane("inferring", r)
      BY <3>1, <3>3 DEF KeptLane, Cleaning
    <3> QED BY <1>1, <2>3, <3>2, <3>4, KeptReads DEF Freeze
  <2>4. ASSUME Goto(e, "fallback"),
               Keep(e, [L(e) EXCEPT !.binding = b, !.gen = (IF b.gen > 0 THEN b.gen ELSE L(e).gen) + 1])
        PROVE  KeptNow'
    <3>1. PICK r : Keep(e, r)
      BY <2>4
    <3>2. KeptLane("fallback", r)
      BY DEF KeptLane, Cleaning
    <3> QED BY <1>1, <2>4, <3>1, <3>2, KeptReads
  <2> QED BY <2>2, <2>3, <2>4
<1>6. CASE GetFallback(e)
  <2>1. L(e) \in Local /\ fb = puts /\ puts \in Nat /\ puts >= 1
    BY <1>6, KeptFacts DEF GetFallback, At, KeptTables
  <2>6. fb # 0 /\ mat.provider # "none"
    BY <2>1 DEF KeptSubject
  <2>7. Goto(e, IF L(e).strategy = "url" THEN "match" ELSE "read") /\ Keep(e, [L(e) EXCEPT !.src = fb])
    BY <1>6, <2>6 DEF GetFallback
  <2>2. PICK l \in {"match", "read"} : Goto(e, l) /\ Keep(e, [L(e) EXCEPT !.src = fb])
    BY <2>7
  <2>3. PICK r : r = [L(e) EXCEPT !.src = fb]
    OBVIOUS
  <2>4. r.src \in 1..puts
    BY <2>1, <2>3 DEF Local
  <2>5. KeptLane(l, r)
    BY <2>4 DEF KeptLane, Cleaning
  <2> QED BY <1>1, <2>2, <2>3, <2>5, KeptReads
<1>7. CASE ReadBytes(e) /\ ~Raise(e)
  <2>1. KeptLane("read", L(e)) /\ Goto(e, "prepare") /\ Keep(e, L(e))
    BY <1>7, KeptFacts, Same DEF ReadBytes, At, Kinds
  <2>2. KeptLane("prepare", L(e))
    BY <2>1 DEF KeptLane, Cleaning
  <2> QED BY <1>1, <2>1, <2>2, KeptReads
<1>8. CASE Prepare(e) /\ ~Raise(e)
  <2>1. L(e) \in Local /\ L(e).strategy # "generic" /\ KeptLane("prepare", L(e))
    BY <1>8, KeptFacts DEF Prepare, At
  <2>2. CASE Goto(e, "bind") /\ Keep(e, [L(e) EXCEPT !.binding = File(L(e).gen)])
    <3>1. PICK r : r = [L(e) EXCEPT !.binding = File(L(e).gen)]
      OBVIOUS
    <3>2. r.binding.rep = "file" /\ ~r.binding.failed
      BY <2>1, <3>1 DEF Local, File
    <3>3. KeptLane("bind", r)
      BY <3>2 DEF KeptLane, Cleaning
    <3> QED BY <1>1, <2>2, <3>1, <3>3, KeptReads
  <2>3. CASE Goto(e, "match") /\ Keep(e, [L(e) EXCEPT !.failed = TRUE])
    <3>1. PICK r : r = [L(e) EXCEPT !.failed = TRUE]
      OBVIOUS
    <3>2. r.src = L(e).src
      BY <2>1, <3>1 DEF Local
    <3>3. KeptLane("match", r)
      BY <2>1, <3>2 DEF KeptLane, Cleaning
    <3> QED BY <1>1, <2>3, <3>1, <3>3, KeptReads
  <2> QED BY <1>8, <2>1, <2>2, <2>3 DEF Prepare
<1>9. CASE Match(e) /\ ~Raise(e)
  <2>1. KeptLane("match", L(e)) /\ L(e).src \in Nat /\ Keep(e, L(e)) /\ KeptTables /\ puts \in Nat
    BY <1>9, KeptFacts, Same DEF Match, At, Kinds
  <2>2. CASE Projected(L(e).src)
    <3>1. KeptLane("sign", L(e))
      BY <2>1, <2>2 DEF KeptLane, Projected, Good, Cleaning
    <3> QED BY <1>1, <1>9, <2>1, <2>2, <3>1, KeptReads DEF Match
  <2>3. CASE ~Projected(L(e).src)
    <3>1. L(e).src \in stored /\ Goto(e, "copy")
      BY <1>9, <2>3 DEF Match
    <3>2. KeptLane("copy", L(e))
      BY <2>1, <2>3, <3>1 DEF KeptLane, KeptTables, Projected, Cleaning
    <3> QED BY <1>1, <2>1, <3>1, <3>2, KeptReads
  <2> QED BY <2>2, <2>3
<1>10. CASE Sign(e) /\ ~Raise(e)
  <2>1. L(e) \in Local /\ Good(L(e).src)
    BY <1>10, KeptFacts DEF Sign, At, KeptLane
  <2>2. PICK r : r = [L(e) EXCEPT !.binding = Url(L(e).gen, L(e).src, L(e).failed)]
    OBVIOUS
  <2>3. r.binding.rep = "url" /\ r.binding.obj = L(e).src
    BY <2>1, <2>2 DEF Local, Url
  <2>4. KeptLane("bind", r)
    BY <2>1, <2>3 DEF KeptLane, Cleaning
  <2> QED BY <1>1, <1>10, <2>2, <2>4, KeptReads DEF Sign
<1> QED BY <1>2, <1>3, <1>4, <1>5, <1>6, <1>7, <1>8, <1>9, <1>10 DEF Infer, Crash

\* The steps that write.
LEMMA KeptCopy == ASSUME Kinds, Kinds', KeptSubject, KeptNow, NEW e \in Freezers, Copy(e) PROVE KeptNow'
<1>1. /\ L(e) \in Local /\ L(e).src = 1 /\ ~Plain /\ KeptTables /\ puts \in Nat /\ puts >= 1 /\ pc[e] = "copy"
      /\ L(e).binding \in Row
  BY KeptFacts DEF Copy, At, KeptLane
<1>2. /\ puts' = puts + 1 /\ stored' = stored \union {puts + 1} /\ rows' = rows \union {puts + 1} /\ fb' = puts + 1
      /\ UNCHANGED <<mat, bindings>>
  BY DEF Copy, Store
<1>3. \A b \in bindings : b.rep = "url" => Good(b.obj)'
  BY <1>1, <1>2, GoodStays DEF KeptTables
<1>4. KeptTables'
  BY <1>1, <1>2, <1>3 DEF KeptTables, Plain
<1>5. KeptSteady
  BY <1>1, <1>2 DEF KeptSteady
<1>6. PICK r : r = [L(e) EXCEPT !.src = puts', !.binding.obj = L(e).src]
  OBVIOUS
<1>7. r.src = puts + 1 /\ r.binding.obj = 1
  BY <1>1, <1>2, <1>6 DEF Local, Row
<1>8. KeptLane("repoint", r)'
  BY <1>1, <1>2, <1>7 DEF KeptLane, Cleaning, Plain
<1> QED BY <1>4, <1>5, <1>6, <1>8, KeptMoves DEF Copy

LEMMA KeptRepoint == ASSUME Kinds, KeptSubject, KeptNow, NEW e \in Freezers, Repoint(e) PROVE KeptNow'
<1>1. /\ L(e).src > 1 /\ L(e).src \in 1..puts /\ ~Plain /\ KeptTables /\ L(e).binding.obj = 1
      /\ mat.status \notin Unfinished /\ puts \in Nat
  BY KeptFacts DEF Repoint, At, KeptLane
<1>2. /\ UNCHANGED <<fb, stored, rows, bindings, puts>> /\ Goto(e, "replaced") /\ Keep(e, L(e))
      /\ mat' = [mat EXCEPT !.object = L(e).src]
  BY Same DEF Repoint, Kinds
<1>3. mat'.case = mat.case /\ mat'.status = mat.status /\ mat'.object = L(e).src
  BY <1>2 DEF Kinds, MatOK
<1>4. L(e).src \in stored
  BY <1>1 DEF KeptTables
<1>5. KeptTables'
  BY <1>1, <1>2, <1>3, <1>4, KeptWrites DEF KeptTables
<1>6. KeptSteady
  BY <1>1, <1>2, <1>3 DEF KeptSteady
<1>7. PICK r : r = L(e)
  OBVIOUS
<1>8. KeptLane("replaced", r)'
  BY <1>1, <1>2, <1>3, <1>7 DEF KeptLane, Cleaning, Plain
<1> QED BY <1>2, <1>5, <1>6, <1>7, <1>8, KeptMoves

LEMMA KeptDelete == ASSUME Kinds, KeptSubject, KeptNow, NEW e \in Freezers, DeleteReplaced(e) PROVE KeptNow'
<1>1. /\ L(e).src > 1 /\ L(e).src \in 1..puts /\ ~Plain /\ KeptTables /\ L(e).binding.obj = 1
      /\ mat.status \notin Unfinished /\ puts \in Nat /\ mat.object > 1 /\ mat.object \in stored /\ stored \subseteq 1..puts
  BY KeptFacts DEF DeleteReplaced, At, KeptLane
<1>2. /\ UNCHANGED <<mat, fb, bindings, puts>> /\ Goto(e, "sign") /\ Keep(e, L(e))
      /\ \/ stored' = stored \ {1} /\ rows' = rows \ ({1} \ {fb})
         \/ UNCHANGED <<stored, rows>>
  BY <1>1, Same DEF DeleteReplaced, Kinds
<1>3. KeptTables'
  <2>1. \A o \in 1..puts : o > 1 => o \in stored'
    BY <1>1, <1>2 DEF KeptTables
  <2>4. puts > 1 /\ stored = rows /\ fb = puts
    BY <1>1 DEF KeptTables
  <2>2. stored' = rows' /\ mat.object \in stored' /\ puts > 1
    BY <1>1, <1>2, <2>4
  <2>3. \A b \in bindings : b.rep = "url" => Good(b.obj)'
    BY <1>1, <1>2, GoodStays DEF KeptTables
  <2> QED BY <1>1, <1>2, <2>1, <2>2, <2>3 DEF KeptTables, Plain
<1>4. KeptSteady
  BY <1>1, <1>2 DEF KeptSteady
<1>5. PICK r : r = L(e)
  OBVIOUS
<1>6. KeptLane("sign", r)'
  BY <1>1, <1>2, <1>5 DEF KeptLane, Cleaning, Plain, Good
<1> QED BY <1>2, <1>3, <1>4, <1>5, <1>6, KeptMoves

LEMMA KeptBind == ASSUME Kinds, KeptSubject, KeptNow, NEW e \in Freezers, Bind(e) PROVE KeptNow'
<1>1. /\ KeptLane("bind", L(e)) /\ KeptTables /\ puts \in Nat /\ L(e).binding \in Row /\ L(e).binding.gen <= Most
  BY KeptFacts, StepOfUser DEF Bind, At
<1>2. UNCHANGED <<mat, fb, stored, rows, puts>> /\ Goto(e, "record") /\ Keep(e, L(e))
  BY Same DEF Bind, Kinds
<1>3. L(e).binding \in bindings' /\ \A x \in bindings' : x = L(e).binding \/ x \in bindings
  BY <1>1, <1>2, UpsertRows DEF Bind
<1>4. /\ L(e).binding.rep \in {"url", "file"} /\ (L(e).binding.failed => L(e).binding.rep = "url")
      /\ L(e).binding.rep = "url" => Good(L(e).binding.obj)
  BY <1>1 DEF KeptLane
<1>5. \A x \in bindings' : /\ x.rep \in {"url", "file"} /\ (x.failed => x.rep = "url")
                           /\ x.rep = "url" => Good(x.obj)
  BY <1>1, <1>3, <1>4 DEF KeptTables
<1>6. KeptTables'
  BY <1>1, <1>2, <1>5 DEF KeptTables, Good, Plain
<1>7. KeptSteady
  BY <1>1, <1>2, <1>3 DEF KeptSteady
<1>8. PICK r : r = L(e)
  OBVIOUS
<1>9. KeptLane("bind", r)'
  BY <1>1, <1>7, <1>8, KeptLaneStays
<1>10. KeptLane("record", r)'
  BY <1>3, <1>9 DEF KeptLane, Cleaning
<1> QED BY <1>2, <1>6, <1>7, <1>8, <1>10, KeptMoves

LEMMA KeptRecord == ASSUME Kinds, KeptSubject, KeptNow, NEW e \in Freezers, Record(e) PROVE KeptNow'
<1>1. /\ KeptLane("record", L(e)) /\ KeptTables /\ puts \in Nat /\ L(e) \in Local /\ L(e).strategy # "primary"
      /\ mat.status \notin Unfinished /\ mat.object \in stored
  BY KeptFacts DEF Record, At, KeptLane
<1>2. /\ UNCHANGED <<fb, stored, rows, bindings, puts>> /\ Freeze(e, L(e).binding)
      /\ mat' = [mat EXCEPT !.status = "ready_provider", !.gen = L(e).gen, !.object = mat.object]
  BY <1>1 DEF Record
<1>3. mat'.case = mat.case /\ mat'.status = "ready_provider" /\ mat'.object = mat.object
  BY <1>2 DEF Kinds, MatOK
<1>4. KeptTables' /\ KeptSteady
  BY <1>1, <1>2, <1>3, KeptWrites DEF KeptSteady
<1>5. PICK r : r = [L(e) EXCEPT !.binding = L(e).binding]
  OBVIOUS
<1>6. r.binding = L(e).binding
  BY <1>1, <1>5 DEF Local
<1>7. KeptLane("inferring", r)
  BY <1>1, <1>6 DEF KeptLane, Cleaning
<1> QED BY <1>2, <1>4, <1>5, <1>7, KeptLaneStays, KeptMoves DEF Freeze

LEMMA KeptStep ==
  ASSUME Kinds, Kinds', KeptSubject, KeptNow, NEW e \in Freezers, Step(e)
  PROVE  KeptNow'
<1>1. ~(GiveUp(e) \/ Obsolete(e) \/ DropBytes(e) \/ DropColumn(e) \/ DropFallback(e) \/ DropRow(e) \/ CleanupFails(e))
  BY DEF KeptNow, KeptLane, Cleaning, At, GiveUp, Obsolete, DropBytes, DropColumn, DropFallback, DropRow, CleanupFails
<1> QED BY <1>1, KeptReadStep, KeptCopy, KeptRepoint, KeptDelete, KeptBind, KeptRecord DEF Step

LEMMA KeptExpires ==
  ASSUME Kinds, KeptNow, Expire
  PROVE  KeptNow'
<1>1. UNCHANGED <<mat, fb, stored, rows, pc, loc, puts>>
  BY DEF Expire
<1>2. KeptTables'
  BY <1>1, Expires DEF KeptNow, KeptTables, Aged, Good, Plain
<1>3. bindings' # {}
  BY DEF Expire
<1>4. \A e \in Freezers : KeptLane(pc[e], loc[e])'
  BY <1>1, <1>3 DEF KeptNow, KeptLane, Good, Plain
<1> QED BY <1>2, <1>4 DEF KeptNow

LEMMA KeptIngress ==
  ASSUME Kinds, UploadOK, KeptSubject, KeptNow, Ingress
  PROVE  KeptNow'
<1>1. \A e \in Freezers : pc[e] = "idle"
  BY UploadAlone DEF Ingress, CreateMaterial, Stage, Staged, PrepareUpload, KeepBytes, FinishUpload, UploadDies
<1>2. pc' = pc
  BY DEF Ingress, CreateMaterial, Stage, Staged, PrepareUpload, KeepBytes, FinishUpload, UploadDies, FreezersUnchanged
<1>3. \A e \in Freezers : KeptLane(pc[e], loc[e])'
  BY <1>1, <1>2 DEF KeptLane, Cleaning
<1>4. KeptTables'
  <2>1. /\ mat \in [case : Cases, provider : {"gemini", "native", "none"}, status : Statuses,
                    object : 0..MaxObjects, gen : Nat, keep : BOOLEAN, bridge : BOOLEAN]
        /\ KeptTables /\ mat.provider = "gemini"
    BY DEF Kinds, MatOK, KeptNow, KeptSubject
  <2>2. CASE CreateMaterial
    <3>1. mat'.status = "binding" /\ mat'.case = mat.case
      BY <2>1, <2>2 DEF CreateMaterial
    <3> QED BY <2>1, <2>2, <3>1 DEF CreateMaterial, KeptTables, Good, Plain
  <2>3. CASE Stage
    <3>1. /\ UNCHANGED <<mat, bindings>> /\ mat.status \in Unfinished /\ bindings = {}
          /\ puts' = 1 /\ fb' = 1 /\ stored' = {1} /\ rows' = {1}
      BY <2>3 DEF Stage, Store, UploadOK, FreshStore
    <3> QED BY <2>1, <3>1 DEF KeptTables
  <2>4. CASE Staged
    <3>1. UNCHANGED <<fb, stored, rows, bindings, puts>> /\ FirstStore /\ bindings = {}
      BY <2>4 DEF Staged, UploadOK
    <3>2. mat'.status = "ready" /\ mat'.case = mat.case /\ mat'.object = fb
      BY <2>1, <2>4 DEF Staged
    <3> QED BY <2>1, <3>1, <3>2 DEF KeptTables, FirstStore, Plain
  <2>5. CASE UploadDies
    BY <2>1, <2>5 DEF UploadDies, KeptTables, Good, Plain
  <2>6. ~(PrepareUpload \/ KeepBytes \/ FinishUpload)
    BY <2>1 DEF UploadOK, PrepareUpload, KeepBytes, FinishUpload
  <2> QED BY <2>2, <2>3, <2>4, <2>5, <2>6 DEF Ingress
<1> QED BY <1>3, <1>4 DEF KeptNow

-----------------------------------------------------------------------------
(* Gemini with Files first alone, as long as no two requests overlapped:   *)
(* the copy in Relay is given up only under a live file, and a row that is *)
(* tried for follows the end of every earlier one.                         *)

FirstSubject == mat.provider = "gemini" /\ FilesFirst /\ Undisturbed

OneOpen == \A e, f \in Freezers : pc[e] # "idle" /\ pc[f] # "idle" => e = f

Trying == {"fallback", "giveup", "read", "prepare", "match", "copy", "repoint", "replaced", "sign", "bind"}

FirstTables ==
    /\ \A b \in bindings : /\ b.rep \in {"url", "file"} /\ (b.failed <=> b.rep = "url")
                           /\ b.failed /\ b.live => b.obj \in stored
    /\ \A b, c \in bindings : (b.gen = c.gen => b = c) /\ (b.live => c.gen <= b.gen)
    /\ mat.status = "reupload_required" => fb = 0 /\ NoneLive
    /\ Settled => fb \in stored \/ bindings # {}

NoUrlLive == \A b \in bindings : b.live => b.rep = "file"

FirstLane(l, r) ==
    /\ l # "idle" => Settled
    /\ l \in Trying => \A b \in bindings : ~b.live /\ b.gen < r.gen
    /\ l = "giveup" => fb = 0
    /\ l \in {"read", "prepare", "match", "copy", "repoint", "replaced"} => r.src = fb /\ fb # 0
    /\ l \in {"prepare", "match", "copy", "repoint", "replaced", "sign"} => r.src \in stored
    /\ l \in {"match", "copy", "repoint", "replaced", "sign"} => r.failed
    /\ l \in {"repoint", "replaced"} => r.binding.obj # r.src
    /\ l = "bind" => /\ r.binding.gen = r.gen /\ r.binding.live /\ r.binding.rep \in {"url", "file"}
                     /\ r.binding.failed <=> r.binding.rep = "url"
                     /\ r.binding.failed => r.binding.obj \in stored
    /\ l \in Cleaning \union {"record"} => bindings # {}
    /\ l \in Cleaning \/ (l = "record" /\ r.binding.rep = "file") => NoUrlLive

FirstNow == FirstTables /\ OneOpen /\ \A e \in Freezers : FirstLane(pc[e], loc[e])

LEMMA FirstMoves ==
  ASSUME Kinds, FirstNow, NEW e \in Freezers, pc[e] # "idle" \/ \A f \in Freezers : pc[f] = "idle",
         NEW l, NEW r, Goto(e, l), Keep(e, r), FirstTables', FirstLane(l, r)'
  PROVE  FirstNow'
<1>1. ASSUME NEW f \in Freezers, f # e PROVE pc'[f] = "idle"
  <2>1. pc[f] = "idle"
    BY <1>1 DEF FirstNow, OneOpen
  <2> QED BY <1>1, <2>1, Moved
<1>2. ASSUME NEW f \in Freezers PROVE FirstLane(pc[f], loc[f])'
  <2>1. CASE f = e
    BY <2>1, Moved
  <2>2. CASE f # e
    BY <1>1, <2>2 DEF FirstLane, Trying, Cleaning
  <2> QED BY <2>1, <2>2
<1>3. OneOpen'
  BY <1>1 DEF OneOpen
<1> QED BY <1>2, <1>3 DEF FirstNow

LEMMA FirstReads ==
  ASSUME Kinds, FirstSubject, FirstNow, Untouched, NEW e \in Freezers,
         pc[e] # "idle" \/ \A f \in Freezers : pc[f] = "idle",
         NEW l, NEW r, Goto(e, l), Keep(e, r), FirstLane(l, r)
  PROVE  FirstNow'
<1>1. FirstTables'
  BY DEF Untouched, FirstNow, FirstTables, Settled, NoneLive
<1>2. FirstLane(l, r)'
  BY DEF Untouched, FirstLane, Settled, NoUrlLive
<1> QED BY <1>1, <1>2, FirstMoves

LEMMA FirstRaises ==
  ASSUME Kinds, FirstSubject, FirstNow, Untouched, NEW e \in Freezers, pc[e] # "idle", Raise(e)
  PROVE  FirstNow'
<1>1. FirstLane("idle", Fresh)
  BY DEF FirstLane, Trying, Cleaning
<1> QED BY <1>1, FirstReads DEF Raise

LEMMA FirstFacts ==
  ASSUME Kinds, FirstSubject, FirstNow, NEW e \in Freezers, pc[e] # "idle"
  PROVE  /\ L(e) = loc[e] /\ L(e) \in Local /\ L(e).strategy = "primary" /\ FirstLane(pc[e], L(e))
         /\ L(e).binding \in Row /\ L(e).src \in Nat /\ L(e).gen \in Nat /\ L(e).binding.gen <= Most
         /\ FirstTables /\ Settled /\ puts \in Nat /\ stored \subseteq 1..puts /\ fb \in Nat /\ fb <= puts
         /\ mat.provider = "gemini"
<1>1. L(e).strategy = "primary"
  BY StepOfUser, CaseKinds DEF FirstSubject, Undisturbed, Placements, Kinds
<1>2. FirstLane(pc[e], L(e)) /\ FirstTables
  BY DEF FirstNow, L
<1> QED BY <1>1, <1>2, StepOfUser DEF L, Kinds, StoreOK, FirstLane, FirstSubject

\* A freezer that freezes what it has, the tables being as they were.
LEMMA FirstFreezes ==
  ASSUME Kinds, FirstNow, NEW e \in Freezers, pc[e] # "idle", NEW b, Freeze(e, b), FirstTables', Settled'
  PROVE  FirstNow'
<1>1. PICK r : r = [L(e) EXCEPT !.binding = b]
  OBVIOUS
<1>2. FirstLane("inferring", r)'
  BY DEF FirstLane, Trying, Cleaning
<1> QED BY <1>1, <1>2, FirstMoves DEF Freeze

LEMMA FirstFinds == ASSUME Kinds, FirstSubject, FirstNow, NEW e \in Freezers, FindBinding(e) PROVE FirstNow'
<1>1. Untouched /\ pc[e] = "find"
  BY DEF Untouched, FindBinding, TablesUnchanged, At
<1>2. L(e) \in Local /\ L(e).strategy = "primary" /\ FirstTables /\ Settled /\ mat.provider # "none" /\ L(e).gen \in Nat
  BY <1>1, FirstFacts
<1>3. \A c \in bindings : c.gen \in Nat
  BY DEF Kinds, RowsOK, Row
<1>4. PICK b \in Latest :
         IF Reusable("primary", b)
         THEN IF b.rep = "file"
              THEN Goto(e, "obsolete") /\ Keep(e, [L(e) EXCEPT !.binding = b])
              ELSE Freeze(e, b)
         ELSE /\ Goto(e, "fallback")
              /\ Keep(e, [L(e) EXCEPT !.binding = b, !.gen = (IF b.gen > 0 THEN b.gen ELSE L(e).gen) + 1])
  BY <1>2 DEF FindBinding
<1>5. \/ b = NoBinding /\ bindings = {}
      \/ b \in bindings /\ \A x \in bindings : x.gen <= b.gen
  BY DEF Latest
<1>6. CASE Reusable("primary", b) /\ b.rep # "file"
  <2>1. FirstTables' /\ Settled'
    BY <1>1, <1>2 DEF Untouched, FirstTables, Settled, NoneLive
  <2> QED BY <1>1, <1>4, <1>6, <2>1, FirstFreezes
<1>7. CASE Reusable("primary", b) /\ b.rep = "file"
  <2>1. b \in bindings /\ b.live /\ b.rep = "file"
    BY <1>5, <1>7 DEF Reusable, NoBinding
  <2>2. NoUrlLive
    BY <1>2, <1>3, <1>5, <2>1 DEF FirstTables, NoUrlLive
  <2>3. PICK r : r = [L(e) EXCEPT !.binding = b]
    OBVIOUS
  <2>4. FirstLane("obsolete", r)
    BY <1>2, <2>1, <2>2 DEF FirstLane, Trying, Cleaning
  <2> QED BY <1>1, <1>4, <1>7, <2>3, <2>4, FirstReads
<1>8. CASE ~Reusable("primary", b)
  <2>1. b \in bindings => ~b.live
    BY <1>2, <1>8 DEF Reusable, FirstTables
  <2>2. NoneLive
    BY <1>2, <1>3, <1>5, <2>1 DEF FirstTables, NoneLive
  <2>3. PICK g : g = (IF b.gen > 0 THEN b.gen ELSE L(e).gen) + 1
    OBVIOUS
  <2>4. PICK r : r = [L(e) EXCEPT !.binding = b, !.gen = g]
    OBVIOUS
  <2>5. r.gen = g
    BY <1>2, <2>4 DEF Local
  <2>6. \A c \in bindings : c.gen < g
    BY <1>2, <1>3, <1>5, <2>3
  <2>7. FirstLane("fallback", r)
    BY <1>2, <2>2, <2>5, <2>6 DEF FirstLane, Trying, Cleaning, NoneLive
  <2> QED BY <1>1, <1>4, <1>8, <2>3, <2>4, <2>7, FirstReads
<1> QED BY <1>6, <1>7, <1>8

\* The other steps that read, and choose what is to be done.
LEMMA FirstReadStep ==
  ASSUME Kinds, FirstSubject, FirstSubject', FirstNow, NEW e \in Freezers,
         \/ Admit(e) \/ ReadMaterial(e) \/ GetFallback(e) \/ ReadBytes(e) \/ Prepare(e)
         \/ Match(e) \/ Sign(e) \/ Infer(e) \/ Crash(e)
  PROVE  FirstNow'
<1>1. Untouched
  BY DEF Untouched, TablesUnchanged, Admit, ReadMaterial, GetFallback, ReadBytes, Prepare, Match, Sign, Infer, Crash
<1>2. CASE Raise(e) /\ pc[e] # "idle"
  BY <1>1, <1>2, FirstRaises
<1>3. CASE Admit(e)
  <2>1. PICK s : Keep(e, [Fresh EXCEPT !.strategy = s])
    BY <1>3 DEF Admit
  <2>2. FirstLane("admitted", [Fresh EXCEPT !.strategy = s])
    BY <1>3 DEF FirstLane, Trying, Cleaning, Admit, Settled
  <2>3. \A f \in Freezers : pc[f] = "idle"
    BY <1>3 DEF Admit, FirstSubject, Undisturbed
  <2> QED BY <1>1, <1>3, <2>1, <2>2, <2>3, FirstReads DEF Admit
<1>4. CASE ReadMaterial(e) /\ ~Raise(e)
  <2>1. pc[e] # "idle" /\ Settled
    BY <1>4, FirstFacts DEF ReadMaterial, At
  <2>2. FirstLane("find", [L(e) EXCEPT !.gen = mat.gen])
    BY <2>1 DEF FirstLane, Trying, Cleaning
  <2> QED BY <1>1, <1>4, <2>1, <2>2, FirstReads DEF ReadMaterial
<1>5. CASE GetFallback(e)
  <2>1. /\ pc[e] # "idle" /\ L(e) \in Local /\ FirstLane("fallback", L(e)) /\ Settled /\ mat.provider = "gemini"
        /\ L(e).strategy = "primary"
    BY <1>5, FirstFacts DEF GetFallback, At
  <2>2. CASE fb = 0
    <3>1. FirstLane("giveup", L(e)) /\ Keep(e, L(e))
      BY <2>1, <2>2, <1>5, Same DEF FirstLane, Trying, Cleaning, GetFallback, Kinds
    <3> QED BY <1>1, <1>5, <2>1, <2>2, <3>1, FirstReads DEF GetFallback
  <2>3. CASE fb # 0
    <3>1. Goto(e, "read") /\ Keep(e, [L(e) EXCEPT !.src = fb])
      BY <1>5, <2>1, <2>3 DEF GetFallback
    <3>2. PICK r : r = [L(e) EXCEPT !.src = fb]
      OBVIOUS
    <3>3. r.src = fb /\ r.gen = L(e).gen
      BY <2>1, <3>2 DEF Local
    <3>4. FirstLane("read", r)
      BY <2>1, <2>3, <3>3 DEF FirstLane, Trying, Cleaning
    <3> QED BY <1>1, <2>1, <3>1, <3>2, <3>4, FirstReads
  <2> QED BY <2>2, <2>3
<1>6. CASE ReadBytes(e) /\ ~Raise(e)
  <2>1. pc[e] # "idle" /\ FirstLane("read", L(e)) /\ Goto(e, "prepare") /\ Keep(e, L(e)) /\ L(e).src \in stored
    BY <1>6, FirstFacts, Same DEF ReadBytes, At, Kinds
  <2>2. FirstLane("prepare", L(e))
    BY <2>1 DEF FirstLane, Trying, Cleaning
  <2> QED BY <1>1, <2>1, <2>2, FirstReads
<1>7. CASE Prepare(e) /\ ~Raise(e)
  <2>1. pc[e] # "idle" /\ L(e) \in Local /\ L(e).strategy # "generic" /\ FirstLane("prepare", L(e))
    BY <1>7, FirstFacts DEF Prepare, At
  <2>2. CASE Goto(e, "bind") /\ Keep(e, [L(e) EXCEPT !.binding = File(L(e).gen)])
    <3>1. PICK r : r = [L(e) EXCEPT !.binding = File(L(e).gen)]
      OBVIOUS
    <3>2. /\ r.binding.rep = "file" /\ ~r.binding.failed /\ r.binding.gen = L(e).gen /\ r.binding.live
          /\ r.gen = L(e).gen
      BY <2>1, <3>1 DEF Local, File
    <3>3. FirstLane("bind", r)
      BY <2>1, <3>2 DEF FirstLane, Trying, Cleaning
    <3> QED BY <1>1, <2>1, <2>2, <3>1, <3>3, FirstReads
  <2>3. CASE Goto(e, "match") /\ Keep(e, [L(e) EXCEPT !.failed = TRUE])
    <3>1. PICK r : r = [L(e) EXCEPT !.failed = TRUE]
      OBVIOUS
    <3>2. r.src = L(e).src /\ r.gen = L(e).gen /\ r.failed
      BY <2>1, <3>1 DEF Local
    <3>3. FirstLane("match", r)
      BY <2>1, <3>2 DEF FirstLane, Trying, Cleaning
    <3> QED BY <1>1, <2>1, <2>3, <3>1, <3>3, FirstReads
  <2> QED BY <1>7, <2>1, <2>2, <2>3 DEF Prepare
<1>8. CASE Match(e) /\ ~Raise(e)
  <2>1. pc[e] # "idle" /\ FirstLane("match", L(e)) /\ Keep(e, L(e))
    BY <1>8, FirstFacts, Same DEF Match, At, Kinds
  <2>2. PICK l \in {"sign", "copy"} : Goto(e, l)
    BY <1>8 DEF Match
  <2>3. FirstLane(l, L(e))
    BY <2>1 DEF FirstLane, Trying, Cleaning
  <2> QED BY <1>1, <2>1, <2>2, <2>3, FirstReads
<1>9. CASE Sign(e) /\ ~Raise(e)
  <2>1. pc[e] # "idle" /\ L(e) \in Local /\ FirstLane("sign", L(e))
    BY <1>9, FirstFacts DEF Sign, At
  <2>2. PICK r : r = [L(e) EXCEPT !.binding = Url(L(e).gen, L(e).src, L(e).failed)]
    OBVIOUS
  <2>3. /\ r.binding.rep = "url" /\ r.binding.obj = L(e).src /\ r.binding.live /\ r.binding.gen = L(e).gen
        /\ r.binding.failed = L(e).failed /\ r.gen = L(e).gen
    BY <2>1, <2>2 DEF Local, Url
  <2>4. FirstLane("bind", r)
    BY <2>1, <2>3 DEF FirstLane, Trying, Cleaning
  <2> QED BY <1>1, <1>9, <2>1, <2>2, <2>4, FirstReads DEF Sign
<1> QED BY <1>2, <1>3, <1>4, <1>5, <1>6, <1>7, <1>8, <1>9
        DEF Infer, Crash, ReadMaterial, ReadBytes, Prepare, Match, Sign, At

\* The steps that write.
LEMMA FirstGivesUp == ASSUME Kinds, FirstSubject, FirstNow, NEW e \in Freezers, GiveUp(e) PROVE FirstNow'
<1>1. pc[e] # "idle" /\ FirstLane("giveup", L(e)) /\ FirstTables
  BY FirstFacts DEF GiveUp, At
<1>2. mat'.status = "reupload_required" /\ UNCHANGED <<fb, stored, bindings>>
  BY DEF GiveUp, Kinds, MatOK
<1>3. FirstTables'
  BY <1>1, <1>2 DEF FirstTables, FirstLane, NoneLive, Settled, Trying
<1>4. FirstLane("idle", Fresh)'
  BY DEF FirstLane, Trying, Cleaning
<1> QED BY <1>1, <1>3, <1>4, FirstMoves DEF GiveUp, Raise

LEMMA FirstCopies == ASSUME Kinds, FirstSubject, FirstNow, NEW e \in Freezers, Copy(e) PROVE FirstNow'
<1>1. /\ pc[e] # "idle" /\ FirstLane("copy", L(e)) /\ FirstTables /\ L(e) \in Local /\ L(e).binding \in Row
      /\ puts \in Nat /\ fb <= puts /\ fb \in Nat /\ Settled
  BY FirstFacts DEF Copy, At
<1>2. /\ puts' = puts + 1 /\ stored' = stored \union {puts + 1} /\ fb' = puts + 1
      /\ UNCHANGED <<mat, bindings>>
  BY DEF Copy, Store
<1>3. PICK r : r = [L(e) EXCEPT !.src = puts', !.binding.obj = L(e).src]
  OBVIOUS
<1>4. r.src = puts + 1 /\ r.binding.obj = L(e).src /\ r.failed = L(e).failed /\ r.gen = L(e).gen
  BY <1>1, <1>2, <1>3 DEF Local, Row
<1>5. FirstTables'
  BY <1>1, <1>2 DEF FirstTables, Settled
<1>6. FirstLane("repoint", r)'
  BY <1>1, <1>2, <1>4 DEF FirstLane, Trying, Cleaning, Settled
<1> QED BY <1>1, <1>3, <1>5, <1>6, FirstMoves DEF Copy

\* A new column of the material row, its status being what it was.
LEMMA FirstRepoints ==
  ASSUME Kinds, FirstTables, Settled, NEW o, mat' = [mat EXCEPT !.object = o], UNCHANGED <<fb, stored, bindings>>
  PROVE  FirstTables' /\ Settled'
<1>1. mat'.status = mat.status
  BY DEF Kinds, MatOK
<1> QED BY <1>1 DEF FirstTables, Settled, NoneLive

LEMMA FirstReplaces ==
  ASSUME Kinds, FirstSubject, FirstNow, NEW e \in Freezers, Repoint(e) \/ DeleteReplaced(e)
  PROVE  FirstNow'
<1>1. pc[e] # "idle" /\ FirstLane(pc[e], L(e)) /\ FirstTables /\ Settled /\ Keep(e, L(e))
  BY FirstFacts, Same DEF Repoint, DeleteReplaced, At, Kinds
<1>2. PICK r : r = L(e)
  OBVIOUS
<1>3. CASE Repoint(e)
  <2>1. pc[e] = "repoint" /\ UNCHANGED <<fb, stored, bindings>> /\ Goto(e, "replaced")
    BY <1>3 DEF Repoint, At
  <2>2. FirstTables' /\ Settled'
    BY <1>1, <1>3, FirstRepoints DEF Repoint
  <2>3. FirstLane("replaced", r)'
    BY <1>1, <1>2, <2>1, <2>2 DEF FirstLane, Trying, Cleaning
  <2> QED BY <1>1, <1>2, <2>1, <2>2, <2>3, FirstMoves
<1>4. CASE DeleteReplaced(e)
  <2>1. pc[e] = "replaced" /\ UNCHANGED <<mat, fb, bindings>> /\ Goto(e, "sign")
        /\ (stored' = stored \ {L(e).binding.obj} \/ stored' = stored)
    BY <1>4 DEF DeleteReplaced, At
  <2>2. /\ L(e).src = fb /\ L(e).src \in stored /\ L(e).binding.obj # L(e).src /\ NoneLive /\ L(e).failed
        /\ \A b \in bindings : b.gen < L(e).gen
    BY <1>1, <2>1 DEF FirstLane, NoneLive, Trying
  <2>3. FirstTables'
    BY <1>1, <2>1, <2>2 DEF FirstTables, Settled, NoneLive
  <2>4. FirstLane("sign", r)'
    BY <1>1, <1>2, <2>1, <2>2 DEF FirstLane, Trying, Cleaning, Settled, NoneLive
  <2> QED BY <1>1, <1>2, <2>1, <2>3, <2>4, FirstMoves
<1> QED BY <1>3, <1>4

LEMMA FirstBinds == ASSUME Kinds, FirstSubject, FirstNow, NEW e \in Freezers, Bind(e) PROVE FirstNow'
<1>1. /\ pc[e] # "idle" /\ FirstLane("bind", L(e)) /\ FirstTables /\ Settled /\ L(e).binding \in Row
      /\ L(e).binding.gen <= Most /\ L(e).gen \in Nat
  BY FirstFacts DEF Bind, At
<1>2. UNCHANGED <<mat, fb, stored>> /\ Goto(e, "record") /\ Keep(e, L(e))
  BY Same DEF Bind, Kinds
<1>3. L(e).binding \in bindings' /\ \A x \in bindings' : x = L(e).binding \/ x \in bindings
  BY <1>1, <1>2, UpsertRows DEF Bind
<1>4. PICK r : r = L(e)
  OBVIOUS
<1>5. /\ r.binding.live /\ r.binding.rep \in {"url", "file"} /\ (r.binding.failed <=> r.binding.rep = "url")
      /\ r.binding.failed => r.binding.obj \in stored
  BY <1>1, <1>4 DEF FirstLane
<1>6. \A x \in bindings : ~x.live /\ x.gen < r.binding.gen /\ x.gen \in Nat
  BY <1>1, <1>4 DEF FirstLane, Trying, Kinds, RowsOK, Row
<1>7. r.binding \in bindings' /\ r.binding.gen \in Nat /\ \A x \in bindings' : x = r.binding \/ x \in bindings
  BY <1>1, <1>3, <1>4 DEF Row
<1>8. FirstTables'
  <2>1. \A b \in bindings' : /\ b.rep \in {"url", "file"} /\ (b.failed <=> b.rep = "url")
                             /\ b.failed /\ b.live => b.obj \in stored'
    BY <1>1, <1>2, <1>5, <1>7 DEF FirstTables
  <2>2. \A b, c \in bindings' : (b.gen = c.gen => b = c) /\ (b.live => c.gen <= b.gen)
    BY <1>1, <1>6, <1>7 DEF FirstTables
  <2> QED BY <1>1, <1>2, <1>7, <2>1, <2>2 DEF FirstTables, Settled
<1>9. FirstLane("record", r)'
  <2>1. r.binding.rep = "file" => NoUrlLive'
    BY <1>6, <1>7 DEF NoUrlLive
  <2> QED BY <1>1, <1>2, <1>7, <2>1 DEF FirstLane, Trying, Cleaning, Settled
<1> QED BY <1>1, <1>2, <1>4, <1>8, <1>9, FirstMoves

LEMMA FirstRecords == ASSUME Kinds, FirstSubject, FirstNow, NEW e \in Freezers, Record(e) PROVE FirstNow'
<1>1. pc[e] # "idle" /\ FirstLane("record", L(e)) /\ FirstTables
  BY FirstFacts DEF Record, At
<1>2. UNCHANGED <<fb, stored, bindings>> /\ mat'.status = "ready_provider"
  BY DEF Record, Kinds, MatOK
<1>3. FirstTables' /\ Settled'
  BY <1>1, <1>2 DEF FirstTables, FirstLane, Settled, NoneLive
<1>4. CASE Freeze(e, L(e).binding)
  BY <1>1, <1>3, <1>4, FirstFreezes
<1>5. CASE ~Freeze(e, L(e).binding)
  <2>1. L(e).binding.rep = "file" /\ Goto(e, "obsolete") /\ Keep(e, L(e))
    BY <1>5, Same DEF Record, Kinds
  <2>2. PICK r : r = L(e)
    OBVIOUS
  <2>3. FirstLane("obsolete", r)'
    BY <1>1, <1>2, <1>3, <2>1 DEF FirstLane, Trying, Cleaning, NoUrlLive
  <2> QED BY <1>1, <1>3, <2>1, <2>2, <2>3, FirstMoves
<1> QED BY <1>4, <1>5

\* While the copy is cleaned up a file is live, or has been.
LEMMA FirstCleans ==
  ASSUME Kinds, FirstSubject, FirstNow, NEW e \in Freezers,
         \/ Obsolete(e) \/ DropBytes(e) \/ DropColumn(e) \/ DropFallback(e) \/ DropRow(e) \/ CleanupFails(e)
  PROVE  FirstNow'
<1>1. /\ pc[e] # "idle" /\ pc[e] \in Cleaning /\ FirstLane(pc[e], L(e)) /\ FirstTables /\ Settled
  BY FirstFacts DEF Obsolete, DropBytes, DropColumn, DropFallback, DropRow, CleanupFails, At, Cleaning
<1>2. bindings # {} /\ NoUrlLive /\ bindings' = bindings
  BY <1>1 DEF FirstLane, Obsolete, DropBytes, DropColumn, DropFallback, DropRow, CleanupFails
<1>3. mat'.status = mat.status
  BY DEF Kinds, MatOK, Obsolete, DropBytes, DropColumn, DropFallback, DropRow, CleanupFails
<1>4. FirstTables' /\ Settled'
  BY <1>1, <1>2, <1>3 DEF FirstTables, Settled, NoneLive, NoUrlLive
<1>5. CASE Freeze(e, L(e).binding)
  BY <1>1, <1>4, <1>5, FirstFreezes
<1>6. CASE ~Freeze(e, L(e).binding)
  <2>1. PICK l \in Cleaning, r \in {L(e), [L(e) EXCEPT !.src = fb]} : Goto(e, l) /\ Keep(e, r)
    BY <1>6, Same DEF Obsolete, DropBytes, DropColumn, DropFallback, DropRow, CleanupFails, Cleaning, Kinds
  <2>2. FirstLane(l, r)'
    BY <1>2, <1>4 DEF FirstLane, Trying, Cleaning, NoUrlLive
  <2> QED BY <1>1, <1>4, <2>1, <2>2, FirstMoves
<1> QED BY <1>5, <1>6

LEMMA FirstStep ==
  ASSUME Kinds, FirstSubject, FirstSubject', FirstNow, NEW e \in Freezers, Step(e)
  PROVE  FirstNow'
BY FirstFinds, FirstReadStep, FirstGivesUp, FirstCopies, FirstReplaces, FirstBinds, FirstRecords, FirstCleans DEF Step

LEMMA FirstExpires ==
  ASSUME Kinds, FirstNow, Expire
  PROVE  FirstNow'
<1>1. UNCHANGED <<mat, fb, stored, pc, loc>>
  BY DEF Expire
<1>2. PICK b \in bindings : bindings' = (bindings \ {b}) \union {[b EXCEPT !.live = FALSE]}
  BY DEF Expire
<1>3. PICK d : d = [b EXCEPT !.live = FALSE]
  OBVIOUS
<1>4. d.rep = b.rep /\ d.gen = b.gen /\ d.failed = b.failed /\ ~d.live
  BY <1>3 DEF Kinds, RowsOK, Row
<1>5. \A x : x \in bindings' <=> (x \in bindings /\ x # b) \/ x = d
  BY <1>2, <1>3
<1>6. FirstTables'
  <2>1. \A x \in bindings' : /\ x.rep \in {"url", "file"} /\ (x.failed <=> x.rep = "url")
                             /\ x.failed /\ x.live => x.obj \in stored
    BY <1>4, <1>5 DEF FirstNow, FirstTables
  <2>2. \A x, y \in bindings' : (x.gen = y.gen => x = y) /\ (x.live => y.gen <= x.gen)
    BY <1>4, <1>5 DEF FirstNow, FirstTables
  <2>3. NoneLive => NoneLive'
    BY <1>4, <1>5 DEF NoneLive
  <2> QED BY <1>1, <1>5, <2>1, <2>2, <2>3 DEF FirstNow, FirstTables, Settled
<1>7. \A e \in Freezers : FirstLane(pc[e], loc[e])'
  BY <1>1, <1>4, <1>5 DEF FirstNow, FirstLane, Settled, NoUrlLive
<1> QED BY <1>1, <1>6, <1>7 DEF FirstNow, OneOpen

LEMMA FirstIngress ==
  ASSUME Kinds, UploadOK, FirstSubject, FirstNow, Ingress
  PROVE  FirstNow'
<1>1. \A e \in Freezers : pc[e] = "idle"
  BY UploadAlone DEF Ingress, CreateMaterial, Stage, Staged, PrepareUpload, KeepBytes, FinishUpload, UploadDies
<1>2. pc' = pc
  BY DEF Ingress, CreateMaterial, Stage, Staged, PrepareUpload, KeepBytes, FinishUpload, UploadDies, FreezersUnchanged
<1>3. \A e \in Freezers : FirstLane(pc[e], loc[e])'
  BY <1>1, <1>2 DEF FirstLane, Cleaning, Trying
<1>4. FirstTables'
  <2>1. /\ mat \in [case : Cases, provider : {"gemini", "native", "none"}, status : Statuses,
                    object : 0..MaxObjects, gen : Nat, keep : BOOLEAN, bridge : BOOLEAN]
        /\ FirstTables /\ mat.provider = "gemini"
    BY DEF Kinds, MatOK, FirstNow, FirstSubject
  <2>2. CASE CreateMaterial
    <3>1. mat'.status = "binding"
      BY <2>1, <2>2 DEF CreateMaterial
    <3> QED BY <2>1, <2>2, <3>1 DEF CreateMaterial, FirstTables, Settled
  <2>3. CASE Stage
    <3>1. UNCHANGED <<mat, bindings>> /\ mat.status \in Unfinished /\ bindings = {}
      BY <2>3 DEF Stage, UploadOK
    <3> QED BY <2>1, <3>1 DEF FirstTables, Settled
  <2>4. CASE Staged
    <3>1. UNCHANGED <<fb, stored, bindings>> /\ FirstStore /\ bindings = {}
      BY <2>4 DEF Staged, UploadOK
    <3>2. mat'.status = "ready"
      BY <2>1, <2>4 DEF Staged
    <3> QED BY <2>1, <3>1, <3>2 DEF FirstTables, FirstStore
  <2>5. CASE UploadDies
    BY <2>1, <2>5 DEF UploadDies, FirstTables, Settled, NoneLive
  <2>6. ~(PrepareUpload \/ KeepBytes \/ FinishUpload)
    BY <2>1 DEF UploadOK, PrepareUpload, KeepBytes, FinishUpload
  <2> QED BY <2>2, <2>3, <2>4, <2>5, <2>6 DEF Ingress
<1> QED BY <1>1, <1>2, <1>3, <1>4 DEF FirstNow, OneOpen

-----------------------------------------------------------------------------
(* The invariant, and what follows from it.                                *)

Inv ==
    /\ Kinds /\ UploadOK
    /\ mat.provider # "gemini" => OtherNow
    /\ KeptSubject => KeptNow
    /\ FirstSubject => FirstNow

LEMMA InvInit == BindingInit => Inv
<1> SUFFICES ASSUME BindingInit PROVE Inv
  OBVIOUS
<1>1. Kinds /\ UploadOK
  BY KindsInit, UploadInit
<1>2. mat.status = "none"
  BY DEF BindingInit
<1>3. OtherNow
  BY <1>2 DEF BindingInit, OtherNow, OtherTables, OtherLane, Settled
<1>4. KeptNow
  BY <1>2 DEF BindingInit, KeptNow, KeptTables, KeptLane, Cleaning
<1>5. FirstNow
  BY <1>2 DEF BindingInit, FirstNow, OneOpen, FirstTables, FirstLane, Settled, Trying, Cleaning
<1> QED BY <1>1, <1>3, <1>4, <1>5 DEF Inv

\* Nothing changes what a behaviour is about.
LEMMA CaseStays ==
  ASSUME Kinds, [BindingNext]_bindingVars
  PROVE  mat'.case = mat.case /\ mat'.provider = mat.provider
<1>1. mat \in [case : Cases, provider : {"gemini", "native", "none"}, status : Statuses,
               object : 0..MaxObjects, gen : Nat, keep : BOOLEAN, bridge : BOOLEAN]
  BY DEF Kinds, MatOK
<1>2. CASE Ingress
  BY <1>1, <1>2 DEF Ingress, CreateMaterial, Stage, Staged, PrepareUpload, KeepBytes, FinishUpload, UploadDies
<1>3. ASSUME NEW e \in Freezers, Step(e) PROVE mat'.case = mat.case /\ mat'.provider = mat.provider
  <2>1. CASE GiveUp(e) \/ Repoint(e) \/ Record(e) \/ Obsolete(e) \/ DropColumn(e) \/ DropRow(e)
    BY <1>1, <2>1 DEF GiveUp, Repoint, Record, Obsolete, DropColumn, DropRow
  <2>2. CASE mat' = mat
    BY <2>2
  <2> QED BY <1>3, <2>1, <2>2
          DEF Step, TablesUnchanged, Admit, ReadMaterial, FindBinding, GetFallback, ReadBytes, Prepare, Match, Copy,
              DeleteReplaced, Sign, Bind, DropBytes, DropFallback, CleanupFails, Infer, Crash
<1>4. CASE Expire \/ UNCHANGED bindingVars
  BY <1>4 DEF Expire, bindingVars
<1> QED BY <1>2, <1>3, <1>4 DEF BindingNext

\* Rows are never deleted, and what overlapped has overlapped.
LEMMA SubjectsStay ==
  ASSUME Kinds, [BindingNext]_bindingVars
  PROVE  (KeptSubject' => KeptSubject) /\ (FirstSubject' => FirstSubject)
<1>1. mat'.case = mat.case /\ mat'.provider = mat.provider
  BY CaseStays
<1>2. bindings # {} => bindings' # {}
  <2>1. CASE Ingress
    BY <2>1 DEF Ingress, CreateMaterial, Stage, Staged, PrepareUpload, KeepBytes, FinishUpload, UploadDies, Upsert
  <2>2. ASSUME NEW e \in Freezers, Step(e) PROVE bindings # {} => bindings' # {}
    <3>1. CASE Bind(e)
      BY <3>1 DEF Bind, Upsert
    <3>2. CASE bindings' = bindings
      BY <3>2
    <3> QED BY <2>2, <3>1, <3>2
            DEF Step, TablesUnchanged, Admit, ReadMaterial, FindBinding, GetFallback, GiveUp, ReadBytes, Prepare,
                Match, Copy, Repoint, DeleteReplaced, Sign, Record, Obsolete, DropBytes, DropColumn, DropFallback,
                DropRow, CleanupFails, Infer, Crash
  <2>3. CASE Expire \/ UNCHANGED bindingVars
    BY <2>3 DEF Expire, bindingVars
  <2> QED BY <2>1, <2>2, <2>3 DEF BindingNext
<1>3. overlapped => overlapped'
  <2>1. CASE Ingress
    BY <2>1 DEF Ingress, CreateMaterial, Stage, Staged, PrepareUpload, KeepBytes, FinishUpload, UploadDies,
       FreezersUnchanged
  <2>2. ASSUME NEW e \in Freezers, Step(e) PROVE overlapped => overlapped'
    BY <2>2 DEF Step, TablesUnchanged, Others, Admit, ReadMaterial, FindBinding, GetFallback, GiveUp, ReadBytes,
       Prepare, Match, Copy, Repoint, DeleteReplaced, Sign, Bind, Record, Obsolete, DropBytes, DropColumn,
       DropFallback, DropRow, CleanupFails, Infer, Crash
  <2>3. CASE Expire \/ UNCHANGED bindingVars
    BY <2>3 DEF Expire, bindingVars
  <2> QED BY <2>1, <2>2, <2>3 DEF BindingNext
<1> QED BY <1>1, <1>2, <1>3 DEF KeptSubject, FirstSubject, FilesFirst, Undisturbed

LEMMA InvStep == Inv /\ [BindingNext]_bindingVars => Inv'
<1> SUFFICES ASSUME Inv, [BindingNext]_bindingVars PROVE Inv'
  OBVIOUS
<1>1. Kinds /\ UploadOK /\ Kinds' /\ UploadOK'
  BY BindingNextKinds DEF Inv
<1>2. mat'.case = mat.case /\ mat'.provider = mat.provider
  BY <1>1, CaseStays
<1>3. (KeptSubject' => KeptSubject) /\ (FirstSubject' => FirstSubject)
  BY <1>1, SubjectsStay
<1>4. ASSUME mat.provider # "gemini" PROVE OtherNow'
  <2>1. CASE UNCHANGED bindingVars
    BY <1>4, <2>1 DEF Inv, bindingVars, OtherNow, OtherTables, OtherLane, Settled, NoneLive
  <2> QED BY <1>1, <1>4, <2>1, OtherStep, OtherExpires, OtherIngress DEF Inv, BindingNext
<1>5. ASSUME KeptSubject' PROVE KeptNow'
  <2>1. CASE UNCHANGED bindingVars
    BY <1>3, <1>5, <2>1 DEF Inv, bindingVars, KeptNow, KeptTables, KeptLane, Good, Plain
  <2> QED BY <1>1, <1>3, <1>5, <2>1, KeptStep, KeptExpires, KeptIngress DEF Inv, BindingNext
<1>6. ASSUME FirstSubject' PROVE FirstNow'
  <2>1. CASE UNCHANGED bindingVars
    BY <1>3, <1>6, <2>1 DEF Inv, bindingVars, FirstNow, OneOpen, FirstTables, FirstLane, Settled, NoneLive, NoUrlLive
  <2> QED BY <1>1, <1>3, <1>6, <2>1, FirstStep, FirstExpires, FirstIngress DEF Inv, BindingNext
<1> QED BY <1>1, <1>2, <1>4, <1>5, <1>6 DEF Inv

LEMMA InvAlways == BindingSpec => []Inv
BY InvInit, InvStep, PTL DEF BindingSpec

LEMMA TypesFollow == Inv => BindingTypeOK
<1> SUFFICES ASSUME Inv PROVE BindingTypeOK
  OBVIOUS
<1>1. Kinds /\ Most \in Nat /\ MaxObjects \in Nat
  BY CaseKinds DEF Inv, Kinds
<1>2. \A b \in Row : b.gen <= Most => b \in Bindings
  BY <1>1 DEF Row, Bindings, Most
<1>3. \A e \in Freezers : loc[e].binding \in Bindings /\ loc[e].src \in 0..MaxObjects
  BY <1>1, <1>2 DEF Kinds, LocalsOK, LocalOK, Local
<1>4. fb \in 0..MaxObjects /\ stored \subseteq Objects /\ rows \subseteq Objects
  BY <1>1 DEF Kinds, StoreOK, Objects
<1>5. mat.status \in Statuses /\ mat.object \in 0..MaxObjects /\ mat.gen \in 0..Most
  BY <1>1 DEF Kinds, MatOK
<1> QED BY <1>1, <1>2, <1>3, <1>4, <1>5 DEF BindingTypeOK, Kinds, RowsOK, Statuses, Most

LEMMA CopyFollows == Inv => RelayKeepsBytes
BY DEF Inv, KeptSubject, KeptNow, KeptTables, RelayKeepsBytes, Kinds, StoreOK

LEMMA SafetyFollows == Inv => BindingSafe
<1> SUFFICES ASSUME Inv PROVE BindingSafe
  OBVIOUS
<1>1. CASE mat.provider # "gemini"
  <2>1. OtherTables
    BY <1>1 DEF Inv, OtherNow
  <2>2. LostMeansLost /\ ReadyIsBacked /\ FailureKeepsBytes
    BY <2>1 DEF OtherTables, LostMeansLost, ReadyIsBacked, FailureKeepsBytes, Settled, NoneLive
  <2> QED BY <2>2, TypesFollow, CopyFollows DEF BindingSafe
<1>2. CASE KeptSubject
  <2>1. KeptTables /\ puts \in Nat
    BY <1>2 DEF Inv, KeptNow, Kinds, StoreOK
  <2>2. LostMeansLost /\ FailureKeepsBytes
    BY <2>1 DEF KeptTables, Good, LostMeansLost, FailureKeepsBytes
  <2>3. ReadyIsBacked
    BY <1>2, <2>1 DEF KeptTables, ReadyIsBacked, Kinds, StoreOK, Inv
  <2> QED BY <2>2, <2>3, TypesFollow, CopyFollows DEF BindingSafe
<1>3. CASE FirstSubject
  <2>1. FirstTables
    BY <1>3 DEF Inv, FirstNow
  <2>2. LostMeansLost /\ ReadyIsBacked /\ FailureKeepsBytes
    BY <2>1 DEF FirstTables, LostMeansLost, ReadyIsBacked, FailureKeepsBytes, Settled, NoneLive
  <2> QED BY <2>2, TypesFollow, CopyFollows DEF BindingSafe
<1>4. CASE ~Undisturbed /\ bindings # {}
  <2>1. LostMeansLost /\ ReadyIsBacked /\ FailureKeepsBytes
    BY <1>4 DEF LostMeansLost, ReadyIsBacked, FailureKeepsBytes
  <2> QED BY <2>1, TypesFollow, CopyFollows DEF BindingSafe
<1> QED BY <1>1, <1>2, <1>3, <1>4 DEF KeptSubject, FirstSubject

LEMMA UrlsFollow == Inv => SignedUrlServes
<1> SUFFICES ASSUME Inv, ~FilesFirst, NEW b \in InUse, b.rep = "url" PROVE b.obj \in stored
  BY DEF SignedUrlServes
<1>1. b \in bindings \/ \E e \in Freezers : pc[e] = "inferring" /\ b = loc[e].binding
  BY DEF InUse
<1>2. CASE mat.provider # "gemini"
  BY <1>1, <1>2 DEF Inv, OtherNow, OtherTables, OtherLane
<1>3. CASE KeptSubject
  <2>1. Good(b.obj)
    BY <1>1, <1>3 DEF Inv, KeptNow, KeptTables, KeptLane
  <2> QED BY <1>3, <2>1 DEF Inv, KeptNow, KeptTables, Good, Kinds, StoreOK
<1> QED BY <1>2, <1>3 DEF KeptSubject

\* Whatever requests race for the material, the tables keep their kinds, and
\* the bytes of an uploaded Gemini material stay in the object store, under
\* the fallback row and the material row alike, unless it is placed Files
\* first (_ensure_gemini_split_request_binding, _ensure_gemini_external_projection).
THEOREM BytesAreKept == BindingSpec => [](BindingTypeOK /\ RelayKeepsBytes)
BY InvAlways, TypesFollow, CopyFollows, PTL

\* Without Files first the bytes behind every signed URL that a request
\* infers with, or that a later one may reuse, are in the object store: the
\* only object that is ever deleted is one that no URL was signed for.
THEOREM SignedUrlsServe == BindingSpec => []SignedUrlServes
BY InvAlways, UrlsFollow, PTL

\* Every usable material is backed, whatever overlaps.  None is given up while
\* a row of it is live or its bytes are in Relay, and a Files failure keeps
\* the bytes it promises: for any requests at any time, and for those that
\* never overlapped when materials are placed Files first.
THEOREM MaterialsAreServed == BindingSpec => []BindingSafe
BY InvAlways, SafetyFollows, PTL

-----------------------------------------------------------------------------
(* Governance.  Ranks are numbers, so a list that has an able entry has a  *)
(* first one, and resolution is about that one.                            *)

LEMMA FirstRank ==
  ASSUME NEW R, R \subseteq Nat, R # {}
  PROVE  Min(R) \in R /\ \A i \in R : Min(R) <= i
<1> DEFINE T == {0..n : n \in R}
<1>1. T \subseteq FiniteSubsetsOf(Nat)
  <2> SUFFICES ASSUME NEW n \in R PROVE 0..n \subseteq Nat /\ IsFiniteSet(0..n)
    BY DEF FiniteSubsetsOf
  <2> QED BY FS_Interval
<1>2. PICK S \in T : \A U \in T : ~(<<U, S>> \in StrictSubsetOrdering(Nat))
  <2>1. IsWellFoundedOn(StrictSubsetOrdering(Nat), FiniteSubsetsOf(Nat))
    BY FS_StrictSubsetOrderingWellFounded
  <2>2. T # {}
    OBVIOUS
  <2> HIDE DEF T
  <2> QED BY <1>1, <2>1, <2>2, WFMin
<1>3. PICK n \in R : S = 0..n
  OBVIOUS
<1>4. ASSUME NEW m \in R, m < n PROVE FALSE
  <2>1. 0..m \subseteq 0..n /\ n \notin 0..m /\ n \in 0..n
    BY <1>4
  <2>2. <<0..m, S>> \in StrictSubsetOrdering(Nat)
    BY <1>3, <2>1 DEF StrictSubsetOrdering
  <2> QED BY <1>2, <2>2
<1>5. \A m \in R : n <= m
  BY <1>4
<1> QED BY <1>5 DEF Min

LEMMA ResolvedMeansAble ==
  ASSUME NEW list, NEW q, DOMAIN list \subseteq Nat, Resolve(list, q) = "resolved"
  PROVE  Able(list, q) # {} /\ ~Forbids(list, q)
<1>1. DOMAIN list # {} /\ ~Forbids(list, q)
  BY DEF Resolve
<1>2. ASSUME Able(list, q) = {} PROVE FALSE
  <2> DEFINE e == list[Min(DOMAIN list)]
  <2>1. Min(DOMAIN list) \in DOMAIN list
    BY <1>1, FirstRank
  <2>2. Reason(e, q) # "none"
    BY <1>2, <2>1 DEF Able, Eligible
  <2>3. NoCandidate(list, q) = "resolved"
    BY <1>1, <1>2 DEF Resolve
  <2>4. Reason(e, q) \in {"channel_not_allowed", "capability_requirement_not_met",
                          "connection_disabled", "connection_not_configured",
                          "adapter_not_registered", "file_adapter_not_registered"}
    BY <2>2 DEF Reason
  <2> QED BY <2>3, <2>4 DEF NoCandidate
<1> QED BY <1>1, <1>2

LEMMA RefusedMeansUnable ==
  ASSUME NEW list, NEW q, Resolve(list, q) # "resolved"
  PROVE  Forbids(list, q) \/ Able(list, q) = {}
BY DEF Resolve, Able

\* What resolve_supply_group answers.
LEMMA GroupChoice ==
  ASSUME NEW list, NEW q, DOMAIN list \subseteq Nat, Able(list, q) # {},
         NEW g, g = GroupRoute(list, q), g.code = "resolved"
  PROVE  LET n == Min(Able(list, q)) IN
         /\ \E k \in Able(list, q) :
              /\ g.route = list[k]
              /\ k = n \/ (list[n].group # Nothing /\ k \in Siblings(list, list[n]))
         /\ g.group # {} =>
              /\ g.route \in g.group
              /\ {x.protocol : x \in g.group} = {"gemini_native", "chat_completions"}
              /\ \A x \in g.group :
                   \E k \in Able(list, q) \cap Siblings(list, list[n]) : x = list[k]
<1> DEFINE n == Min(Able(list, q))
           e == list[n]
           all == Siblings(list, e)
           group == all \cap Able(list, q)
           native == {i \in group : list[i].protocol = "gemini_native"}
           chat == {i \in group : list[i].protocol = "chat_completions"}
<1>0. n \in Able(list, q)
  BY FirstRank DEF Able
<1>1. /\ native # {} => Min(native) \in native
      /\ chat # {} => Min(chat) \in chat
  <2>1. native \subseteq Nat /\ chat \subseteq Nat
    BY DEF Able
  <2> QED BY <2>1, FirstRank
<1>2. \A i \in group : list[i].protocol \in {"gemini_native", "chat_completions"}
  BY DEF Siblings
<1>3. \/ g = [code |-> "resolved", route |-> e, group |-> {}]
      \/ /\ e.group # Nothing
         /\ \/ native # {} /\ g = [code |-> "resolved", route |-> list[Min(native)], group |-> {}]
            \/ chat # {} /\ g = [code |-> "resolved", route |-> list[Min(chat)], group |-> {}]
            \/ /\ native # {} /\ chat # {}
               /\ g = [code |-> "resolved", route |-> list[Min(native)],
                       group |-> {list[i] : i \in group}]
  BY DEF GroupRoute
<1> HIDE DEF n
<1>4. \E k \in Able(list, q) :
        /\ g.route = list[k]
        /\ k = n \/ (list[n].group # Nothing /\ k \in Siblings(list, list[n]))
  BY <1>0, <1>1, <1>3
<1>5. ASSUME g.group # {}
      PROVE  /\ g.route \in g.group
             /\ {x.protocol : x \in g.group} = {"gemini_native", "chat_completions"}
             /\ \A x \in g.group :
                  \E k \in Able(list, q) \cap Siblings(list, list[n]) : x = list[k]
  <2>1. /\ native # {} /\ chat # {}
        /\ g.route = list[Min(native)]
        /\ g.group = {list[i] : i \in group}
    BY <1>3, <1>5
  <2>2. \A x \in g.group : x.protocol \in {"gemini_native", "chat_completions"}
    BY <1>2, <2>1
  <2>3. list[Min(native)].protocol = "gemini_native" /\ list[Min(native)] \in g.group
    BY <1>1, <2>1
  <2>4. list[Min(chat)].protocol = "chat_completions" /\ list[Min(chat)] \in g.group
    BY <1>1, <2>1
  <2>5. {x.protocol : x \in g.group} = {"gemini_native", "chat_completions"}
    BY <2>2, <2>3, <2>4
  <2> QED BY <2>1, <2>3, <2>5
<1> QED BY <1>4, <1>5 DEF n

\* And when it turns a caller away that did not insist on a native supply.
LEMMA GroupRefusal ==
  ASSUME NEW list, NEW q, NEW g, g = GroupRoute(list, q), g.code # "resolved",
         q.hint # "native"
  PROVE  LET e == list[Min(Able(list, q))] IN
         /\ e.group # Nothing
         /\ \E j \in Siblings(list, e) \ Able(list, q) : list[j].reject
BY DEF GroupRoute

-----------------------------------------------------------------------------
(* What a process serves.                                                  *)

Deployed == setting \in Settings /\ conn \in setting.conditions /\ build \in Builds

Workbook == sheet \in setting.sheets /\ registry \in setting.registries

\* A candidate is what was compiled, and what was compiled was in order.
Compiled(c) ==
  /\ c = Candidate(c.sheet, c.base, c.registry)
  /\ Compiles(c.sheet, c.base, c.registry)
  /\ c.base \in Builds /\ c.sheet \in setting.sheets

Review ==
  /\ \A c \in candidates : Compiled(c)
  /\ released \subseteq signed /\ signed \subseteq candidates

Process == running \in released \cup {Nothing} /\ (running # Nothing => running.base = build)

\* The entries resolution is run over.
Listed(list) ==
  /\ DOMAIN list \subseteq Nat
  /\ \A i \in DOMAIN list : list[i].protocol \in Protocols

LEMMA RowIsCertified ==
  ASSUME NEW s, NEW b, NEW reg, Compiles(s, b, reg), NEW i \in Enabled(s)
  PROVE  /\ Supply(b, s.rows[i]) \in Supplies(b)
         /\ Supply(b, s.rows[i]).id = s.rows[i].offering
         /\ s.rows[i].offering \in reg
         /\ s.intent = "published"
BY DEF Compiles, Supply

\* A managed entry is the supply of its row, with the policy of the row.
EntryOf(m, e, r) ==
  /\ m.id = r.offering
  /\ m.conn = e.conn /\ m.channel = e.channel /\ m.protocol = e.protocol
  /\ m.group = e.group /\ m.caps = e.caps /\ m.files = e.files
  /\ m.managed = TRUE /\ m.reject = r.reject
  /\ m.protocol \in Protocols

LEMMA ManagedEntry ==
  ASSUME NEW s, NEW b \in Builds, NEW reg, Compiles(s, b, reg), NEW i \in Enabled(s)
  PROVE  EntryOf(Managed(s, b)[i], Supply(b, s.rows[i]), s.rows[i])
<1> DEFINE e == Supply(b, s.rows[i])
           m == Managed(s, b)[i]
<1>1. e \in Supplies(b) /\ e.id = s.rows[i].offering
  BY RowIsCertified
<1>2. m = [e EXCEPT !.managed = TRUE, !.reject = s.rows[i].reject]
  BY DEF Managed
<1> HIDE DEF e, m
<1>3. DOMAIN e = Fields /\ e.protocol \in Protocols
  BY <1>1, BuiltinAssumption DEF Supplies
<1>4. EntryOf(m, e, s.rows[i])
  BY <1>1, <1>2, <1>3 DEF Fields, EntryOf
<1> QED BY <1>4 DEF e, m

LEMMA RanksOfSheet ==
  ASSUME Deployed, NEW s \in setting.sheets
  PROVE  Enabled(s) \subseteq Nat
BY GovernanceAssumption DEF Deployed, Enabled

LEMMA RunningIsCompiled ==
  ASSUME Review, Process, running # Nothing
  PROVE  /\ Compiled(running) /\ running \in signed /\ running.base = build
         /\ running.offerings = Managed(running.sheet, build)
         /\ running.reserves = Reserves(running.sheet)
BY DEF Review, Process, Compiled, Candidate

LEMMA CatalogIsListed ==
  ASSUME Deployed, Review, Process
  PROVE  Listed(Catalog)
<1>1. CASE running # Nothing /\ running.reserves
  <2>1. /\ Compiles(running.sheet, build, running.registry)
        /\ running.sheet \in setting.sheets
        /\ Catalog = Managed(running.sheet, build)
    BY <1>1, RunningIsCompiled DEF Catalog, Compiled
  <2>2. DOMAIN Catalog = Enabled(running.sheet)
    BY <2>1 DEF Managed
  <2>3. DOMAIN Catalog \subseteq Nat
    BY <2>1, <2>2, RanksOfSheet
  <2>4. ASSUME NEW i \in DOMAIN Catalog PROVE Catalog[i].protocol \in Protocols
    <3>1. i \in Enabled(running.sheet) /\ build \in Builds
      BY <2>2 DEF Deployed
    <3> QED BY <2>1, <3>1, ManagedEntry DEF EntryOf
  <2> QED BY <2>3, <2>4 DEF Listed
<1>2. CASE ~(running # Nothing /\ running.reserves)
  BY <1>2, BuiltinAssumption DEF Catalog, Listed, Deployed
<1> QED BY <1>1, <1>2

-----------------------------------------------------------------------------
(* What an opened session keeps.                                           *)

NameKept(s) ==
  (s.release # Nothing /\ s.release.sheet.intent # "unpublished" /\ Here(s.release.sheet) # {}) =>
    s.route.managed /\ s.release.sheet.intent = "published"

OrderKept(s) ==
  s.route.managed =>
    \E i \in Enabled(s.release.sheet) :
      LET e == SupplyOf(s, i) IN
      /\ Served(s, e)
      /\ \A j \in Enabled(s.release.sheet) :
           j < i => ~s.release.sheet.rows[j].reject /\ ~Served(s, SupplyOf(s, j))
      /\ \/ i = RowOf(s)
         \/ /\ e.group # Nothing /\ e.group = s.route.group /\ e.channel = s.route.channel
            /\ Account[e.conn] = Account[s.route.conn]
            /\ i < RowOf(s) /\ Served(s, SupplyOf(s, RowOf(s)))

GroupKept(s) ==
  s.group # {} =>
    /\ s.route \in s.group
    /\ {e.protocol : e \in s.group} = {"gemini_native", "chat_completions"}
    /\ \A e \in s.group : /\ Account[e.conn] = Account[s.route.conn]
                          /\ s.ask.needs \subseteq e.caps
                          /\ s.conn[e.conn] \notin {"disabled", "unconfigured", "unregistered"}

WireKept(s) == s.route.protocol \in Protocols /\ s.route.protocol = Wire[s.build][s.route.conn]

SessionKept(s) == NameKept(s) /\ OrderKept(s) /\ GroupKept(s) /\ WireKept(s)

\* An entry is eligible exactly if it could serve the caller.
LEMMA EligibleMeansServed ==
  ASSUME NEW e, NEW s, s.conn = conn
  PROVE  Eligible(e, s.ask) <=> Served(s, e)
BY DEF Eligible, Reason, Served

-----------------------------------------------------------------------------
(* An opened session.                                                      *)

Opened(s, q) ==
  /\ ~Miswired(Catalog, q) /\ Resolve(Catalog, q) = "resolved"
  /\ GroupRoute(Catalog, q).code = "resolved"
  /\ s = [route |-> GroupRoute(Catalog, q).route, group |-> GroupRoute(Catalog, q).group,
          ask |-> q, release |-> running, build |-> build, conn |-> conn]

\* The rank of the route, and of the first able entry.
Chosen(s, k) ==
  /\ k \in Able(Catalog, s.ask) /\ s.route = Catalog[k]
  /\ \/ k = Min(Able(Catalog, s.ask))
     \/ /\ Catalog[Min(Able(Catalog, s.ask))].group # Nothing
        /\ k \in Siblings(Catalog, Catalog[Min(Able(Catalog, s.ask))])

First(n, q) == n \in Able(Catalog, q) /\ \A i \in Able(Catalog, q) : n <= i

LEMMA OpenedRank ==
  ASSUME Deployed, Review, Process, NEW q, NEW s, Opened(s, q)
  PROVE  /\ First(Min(Able(Catalog, q)), q)
         /\ \E k : Chosen(s, k)
         /\ s.ask = q /\ s.release = running /\ s.build = build /\ s.conn = conn
         /\ DOMAIN Catalog \subseteq Nat
<1>1. DOMAIN Catalog \subseteq Nat
  BY CatalogIsListed DEF Listed
<1>2. Able(Catalog, q) # {} /\ Able(Catalog, q) \subseteq Nat
  BY <1>1, ResolvedMeansAble DEF Opened, Able
<1>3. First(Min(Able(Catalog, q)), q)
  BY <1>2, FirstRank DEF First
<1> DEFINE g == GroupRoute(Catalog, q)
<1>4. s.ask = q /\ s.release = running /\ s.build = build /\ s.conn = conn
      /\ s.route = g.route /\ g.code = "resolved"
  BY DEF Opened
<1> HIDE DEF g
<1>5. g = GroupRoute(Catalog, q)
  BY DEF g
<1>6. \E k \in Able(Catalog, q) :
        /\ g.route = Catalog[k]
        /\ \/ k = Min(Able(Catalog, q))
           \/ /\ Catalog[Min(Able(Catalog, q))].group # Nothing
              /\ k \in Siblings(Catalog, Catalog[Min(Able(Catalog, q))])
  BY <1>1, <1>2, <1>4, <1>5, GroupChoice
<1>7. \E k : Chosen(s, k)
  BY <1>4, <1>6 DEF Chosen
<1> QED BY <1>1, <1>3, <1>4, <1>7

\* It runs over the wire its connection has in this build.
LEMMA OpenedWire ==
  ASSUME Deployed, Review, Process, NEW q, NEW s, Opened(s, q)
  PROVE  WireKept(s)
<1>1. PICK k : Chosen(s, k)
  BY OpenedRank
<1>2. k \in DOMAIN Catalog /\ Reason(Catalog[k], q) = "none" /\ s.route = Catalog[k]
  BY <1>1, OpenedRank DEF Chosen, Able, Eligible
<1>3. Wire[build][Catalog[k].conn] = Catalog[k].protocol
  BY <1>2 DEF Opened, Miswired
<1>4. Catalog[k].protocol \in Protocols
  BY <1>2, CatalogIsListed DEF Listed
<1> QED BY <1>2, <1>3, <1>4, OpenedRank DEF WireKept

\* Its group is of one account and was able to serve the caller.
LEMMA OpenedGroup ==
  ASSUME Deployed, Review, Process, NEW q, NEW s, Opened(s, q)
  PROVE  GroupKept(s)
<1> SUFFICES ASSUME s.group # {} PROVE GroupKept(s)
  BY DEF GroupKept
<1> DEFINE n == Min(Able(Catalog, q))
           g == GroupRoute(Catalog, q)
<1>1. s.ask = q /\ s.conn = conn /\ s.route = g.route /\ s.group = g.group /\ g.code = "resolved"
  BY DEF Opened
<1>2. DOMAIN Catalog \subseteq Nat /\ Able(Catalog, q) # {}
  BY OpenedRank DEF First
<1> HIDE DEF g
<1>3. g = GroupRoute(Catalog, q)
  BY DEF g
<1>4. /\ g.route \in g.group
      /\ {x.protocol : x \in g.group} = {"gemini_native", "chat_completions"}
      /\ \A x \in g.group :
           \E k \in Able(Catalog, q) \cap Siblings(Catalog, Catalog[n]) : x = Catalog[k]
  BY <1>1, <1>2, <1>3, GroupChoice
<1>5. ASSUME NEW x \in g.group
      PROVE  Account[x.conn] = Account[Catalog[n].conn] /\ Served(s, x)
  <2>1. PICK k \in Able(Catalog, q) \cap Siblings(Catalog, Catalog[n]) : x = Catalog[k]
    BY <1>4
  <2>2. Account[x.conn] = Account[Catalog[n].conn]
    BY <2>1 DEF Siblings
  <2>3. Eligible(x, s.ask)
    BY <1>1, <2>1 DEF Able
  <2> QED BY <1>1, <2>2, <2>3, EligibleMeansServed
<1>6. \A x \in g.group : Account[x.conn] = Account[s.route.conn]
  BY <1>1, <1>4, <1>5
<1>7. \A x \in g.group : s.ask.needs \subseteq x.caps
                         /\ s.conn[x.conn] \notin {"disabled", "unconfigured", "unregistered"}
  BY <1>5 DEF Served
<1> QED BY <1>1, <1>4, <1>6, <1>7 DEF GroupKept

\* The entries of a reserved name are those of the release.
LEMMA OpenedManaged ==
  ASSUME Deployed, Review, Process, NEW q, NEW s, Opened(s, q),
         running # Nothing, running.reserves
  PROVE  /\ Compiles(s.release.sheet, s.release.base, s.release.registry)
         /\ s.release.base \in Builds /\ s.release.sheet \in setting.sheets
         /\ Catalog = Managed(s.release.sheet, s.release.base)
         /\ DOMAIN Catalog = Enabled(s.release.sheet)
<1>1. /\ Compiled(running) /\ running.base = build
      /\ running.offerings = Managed(running.sheet, build)
  BY RunningIsCompiled
<1>2. s.release = running /\ Catalog = running.offerings
  BY OpenedRank DEF Catalog
<1> QED BY <1>1, <1>2 DEF Compiled, Managed

LEMMA OpenedName ==
  ASSUME Deployed, Review, Process, NEW q, NEW s, Opened(s, q)
  PROVE  NameKept(s)
<1> SUFFICES ASSUME running # Nothing, running.sheet.intent # "unpublished",
                    Here(running.sheet) # {}
             PROVE  s.route.managed /\ running.sheet.intent = "published"
  BY OpenedRank DEF NameKept
<1>1. running.reserves
  BY RunningIsCompiled DEF Reserves
<1>2. PICK k : Chosen(s, k)
  BY OpenedRank
<1>3. s.release = running
  BY OpenedRank
<1>4. k \in Enabled(running.sheet) /\ s.route = Managed(running.sheet, running.base)[k]
  BY <1>1, <1>2, <1>3, OpenedManaged DEF Chosen, Able
<1>5. Compiles(running.sheet, running.base, running.registry) /\ running.base \in Builds
  BY <1>1, <1>3, OpenedManaged
<1>6. s.route.managed = TRUE
  <2>1. EntryOf(Managed(running.sheet, running.base)[k],
                Supply(running.base, running.sheet.rows[k]), running.sheet.rows[k])
    BY <1>4, <1>5, ManagedEntry
  <2> QED BY <1>4, <2>1 DEF EntryOf
<1>7. running.sheet.intent = "published"
  BY <1>4, <1>5, RowIsCertified
<1> QED BY <1>6, <1>7

\* Each entry is the supply of its row: it can serve the session when the
\* supply can, and has the policy of the row.
LEMMA EntryOfRow ==
  ASSUME Deployed, Review, Process, NEW q, NEW s, Opened(s, q),
         running # Nothing, running.reserves, NEW i \in Enabled(s.release.sheet)
  PROVE  /\ i \in DOMAIN Catalog
         /\ Catalog[i].id = s.release.sheet.rows[i].offering
         /\ Catalog[i].conn = SupplyOf(s, i).conn /\ Catalog[i].channel = SupplyOf(s, i).channel
         /\ Catalog[i].group = SupplyOf(s, i).group
         /\ Catalog[i].reject = s.release.sheet.rows[i].reject
         /\ i \in Able(Catalog, q) <=> Served(s, SupplyOf(s, i))
<1>1. /\ Compiles(s.release.sheet, s.release.base, s.release.registry)
      /\ s.release.base \in Builds
      /\ Catalog = Managed(s.release.sheet, s.release.base)
      /\ i \in DOMAIN Catalog
  BY OpenedManaged
<1> DEFINE e == SupplyOf(s, i)
           m == Catalog[i]
<1>2. e = Supply(s.release.base, s.release.sheet.rows[i])
  BY DEF SupplyOf
<1> HIDE DEF e
<1>3. m = Managed(s.release.sheet, s.release.base)[i]
  BY <1>1
<1> HIDE DEF m
<1>4. EntryOf(m, e, s.release.sheet.rows[i])
  BY <1>1, <1>2, <1>3, ManagedEntry
<1>5. /\ m.id = s.release.sheet.rows[i].offering
      /\ m.conn = e.conn /\ m.channel = e.channel /\ m.group = e.group /\ m.caps = e.caps
      /\ m.files = e.files /\ m.reject = s.release.sheet.rows[i].reject
  BY <1>4 DEF EntryOf
<1>6. Served(s, m) <=> Served(s, e)
  BY <1>5 DEF Served
<1>7. Eligible(m, q) <=> Served(s, m)
  BY EligibleMeansServed, OpenedRank
<1>8. i \in Able(Catalog, q) <=> Served(s, e)
  BY <1>1, <1>6, <1>7 DEF Able, m
<1> QED BY <1>1, <1>5, <1>8 DEF e, m

\* Two enabled rows of one offering are one row.
LEMMA RowOfRoute ==
  ASSUME Deployed, Review, Process, NEW q, NEW s, Opened(s, q),
         running # Nothing, running.reserves, NEW k, Chosen(s, k)
  PROVE  k \in Enabled(s.release.sheet) /\ RowOf(s) = k
<1>1. Compiles(s.release.sheet, s.release.base, s.release.registry)
      /\ k \in Enabled(s.release.sheet) /\ s.route = Catalog[k]
  BY OpenedManaged DEF Chosen, Able
<1>2. s.release.sheet.rows[k].offering = s.route.id
  BY <1>1, EntryOfRow
<1>3. ASSUME NEW i \in Enabled(s.release.sheet), s.release.sheet.rows[i].offering = s.route.id
      PROVE  i = k
  <2>1. Supply(s.release.base, s.release.sheet.rows[i])
          = Supply(s.release.base, s.release.sheet.rows[k])
    BY <1>2, <1>3 DEF Supply
  <2> QED BY <1>1, <2>1 DEF Compiles
<1> QED BY <1>1, <1>2, <1>3 DEF RowOf

LEMMA OpenedOrder ==
  ASSUME Deployed, Review, Process, NEW q, NEW s, Opened(s, q)
  PROVE  OrderKept(s)
<1> SUFFICES ASSUME s.route.managed PROVE OrderKept(s)
  BY DEF OrderKept
<1>1. PICK k : Chosen(s, k)
  BY OpenedRank
<1>2. running # Nothing /\ running.reserves
  <2> SUFFICES ASSUME ~(running # Nothing /\ running.reserves) PROVE FALSE
    OBVIOUS
  <2>1. Catalog = Builtin[build] /\ k \in DOMAIN Catalog
    BY <1>1 DEF Catalog, Chosen, Able
  <2> QED BY <1>1, <2>1, BuiltinAssumption DEF Deployed, Chosen
<1> DEFINE n == Min(Able(Catalog, q))
<1>3. First(n, q) /\ DOMAIN Catalog = Enabled(s.release.sheet) /\ DOMAIN Catalog \subseteq Nat
      /\ s.ask = q
  BY <1>2, OpenedRank, OpenedManaged
<1>4. n \in Enabled(s.release.sheet) /\ n \in Nat
  BY <1>3 DEF First, Able
<1>5. k \in Able(Catalog, q) /\ k \in Nat /\ n <= k /\ RowOf(s) = k /\ k \in Enabled(s.release.sheet)
  BY <1>1, <1>2, <1>3, RowOfRoute DEF First, Chosen
<1>6. Served(s, SupplyOf(s, n)) /\ Served(s, SupplyOf(s, RowOf(s)))
  BY <1>2, <1>3, <1>4, <1>5, EntryOfRow DEF First
<1>7. ASSUME NEW j \in Enabled(s.release.sheet), j < n
      PROVE  ~s.release.sheet.rows[j].reject /\ ~Served(s, SupplyOf(s, j))
  <2>1. j \in Nat
    BY <1>3
  <2>2. \A i \in Able(Catalog, q) : i \in Nat /\ j < i
    BY <1>3, <1>4, <1>7, <2>1 DEF First, Able
  <2>3. j \in DOMAIN Catalog \ Able(Catalog, q)
    BY <1>3, <2>1, <2>2
  <2>4. ~Catalog[j].reject
    BY <2>2, <2>3, OpenedRank, ResolvedMeansAble DEF Opened, Forbids
  <2> QED BY <1>2, <2>3, <2>4, EntryOfRow
<1>8. \/ n = RowOf(s)
      \/ LET e == SupplyOf(s, n) IN
         /\ e.group # Nothing /\ e.group = s.route.group /\ e.channel = s.route.channel
         /\ Account[e.conn] = Account[s.route.conn]
         /\ n < RowOf(s)
  <2> SUFFICES ASSUME k # n
               PROVE  LET e == SupplyOf(s, n) IN
                      /\ e.group # Nothing /\ e.group = s.route.group
                      /\ e.channel = s.route.channel
                      /\ Account[e.conn] = Account[s.route.conn]
                      /\ n < RowOf(s)
    BY <1>5
  <2>1. /\ Catalog[n].group # Nothing /\ k \in Siblings(Catalog, Catalog[n])
        /\ s.route = Catalog[k]
    BY <1>1, <1>3 DEF Chosen
  <2>2. /\ s.route.group = Catalog[n].group /\ s.route.channel = Catalog[n].channel
        /\ Account[s.route.conn] = Account[Catalog[n].conn]
    BY <2>1 DEF Siblings
  <2>3. /\ Catalog[n].conn = SupplyOf(s, n).conn /\ Catalog[n].channel = SupplyOf(s, n).channel
        /\ Catalog[n].group = SupplyOf(s, n).group
    BY <1>2, <1>4, EntryOfRow
  <2>4. n < k
    BY <1>4, <1>5
  <2> QED BY <1>5, <2>1, <2>2, <2>3, <2>4
<1> HIDE DEF n
<1> QED BY <1>4, <1>6, <1>7, <1>8 DEF OrderKept

LEMMA OpenedKeeps ==
  ASSUME Deployed, Review, Process, NEW q, NEW s, Opened(s, q)
  PROVE  SessionKept(s)
BY OpenedWire, OpenedGroup, OpenedName, OpenedOrder DEF SessionKept

-----------------------------------------------------------------------------
(* A caller that is turned away.                                           *)

Turned(r, q) == r.ask = q /\ r.list = Catalog
                /\ (Resolve(Catalog, q) # "resolved" \/ GroupRoute(Catalog, q).code # "resolved")

Reasoned(r) ==
  r.ask.hint # "native" =>
    LET blocks(j, i) ==
          /\ r.list[j].reject /\ ~Eligible(r.list[j], r.ask)
          /\ \/ j < i
             \/ /\ r.list[j].group # Nothing
                /\ \E k \in DOMAIN r.list : k <= i /\ r.list[k].group = r.list[j].group
    IN \A i \in DOMAIN r.list :
         Eligible(r.list[i], r.ask) => \E j \in DOMAIN r.list : blocks(j, i)

LEMMA TurnedForAReason ==
  ASSUME Deployed, Review, Process, NEW q, NEW r, Turned(r, q)
  PROVE  Reasoned(r)
<1> SUFFICES ASSUME q.hint # "native", NEW i \in Able(Catalog, q)
             PROVE  \E j \in DOMAIN Catalog :
                      /\ Catalog[j].reject /\ j \notin Able(Catalog, q)
                      /\ \/ j < i
                         \/ /\ Catalog[j].group # Nothing
                            /\ \E k \in DOMAIN Catalog : k <= i /\ Catalog[k].group = Catalog[j].group
  BY DEF Turned, Reasoned, Able
<1>1. CASE Resolve(Catalog, q) # "resolved"
  BY <1>1, RefusedMeansUnable DEF Forbids
<1>2. CASE GroupRoute(Catalog, q).code # "resolved"
  <2> DEFINE n == Min(Able(Catalog, q))
             g == GroupRoute(Catalog, q)
  <2>1. n \in Able(Catalog, q) /\ n <= i
    <3>1. Able(Catalog, q) \subseteq Nat /\ Able(Catalog, q) # {}
      BY CatalogIsListed DEF Able, Listed
    <3> QED BY <3>1, FirstRank
  <2>2. /\ Catalog[n].group # Nothing
        /\ \E j \in Siblings(Catalog, Catalog[n]) \ Able(Catalog, q) : Catalog[j].reject
    BY <1>2, GroupRefusal
  <2>3. PICK j \in Siblings(Catalog, Catalog[n]) \ Able(Catalog, q) : Catalog[j].reject
    BY <2>2
  <2>4. j \in DOMAIN Catalog /\ Catalog[j].group = Catalog[n].group /\ n \in DOMAIN Catalog
    BY <2>1 DEF Siblings, Able
  <2> QED BY <2>1, <2>2, <2>3, <2>4
<1> QED BY <1>1, <1>2 DEF Turned

-----------------------------------------------------------------------------
(* The invariant.                                                          *)

Answers ==
  /\ \A s \in sessions : SessionKept(s)
  /\ refused # Nothing => Reasoned(refused)
  /\ ran # Nothing => ran.wire = Wire[ran.session.build][ran.session.route.conn]

GovernanceInv == Deployed /\ Workbook /\ Review /\ Process /\ Answers

LEMMA GovernanceInit == Init => GovernanceInv
BY DEF Init, GovernanceInv, Deployed, Workbook, Review, Process, Answers

\* What the review leaves alone, and what a process does.
LEMMA ReasonStays ==
  ASSUME NEW r, Reasoned(r), conn' = conn
  PROVE  Reasoned(r)'
<1>1. \A e : Eligible(e, r.ask)' <=> Eligible(e, r.ask)
  BY DEF Eligible, Reason
<1> QED BY <1>1 DEF Reasoned

LEMMA EditStep == ASSUME GovernanceInv, Edit PROVE GovernanceInv'
<1>1. (Deployed /\ Workbook)'
  BY DEF GovernanceInv, Deployed, Workbook, Edit
<1>2. (Review /\ Process)'
  BY DEF GovernanceInv, Review, Process, Edit, Compiled
<1>3. Answers'
  <2>1. refused # Nothing => Reasoned(refused)'
    BY ReasonStays DEF GovernanceInv, Answers, Edit
  <2> QED BY <2>1 DEF GovernanceInv, Answers, Edit
<1> QED BY <1>1, <1>2, <1>3 DEF GovernanceInv

LEMMA AnswersStay ==
  ASSUME Answers, UNCHANGED <<sessions, refused, ran, conn>>
  PROVE  Answers'
<1>1. refused # Nothing => Reasoned(refused)'
  BY ReasonStays DEF Answers
<1> QED BY <1>1 DEF Answers

LEMMA CompileStep == ASSUME GovernanceInv, Compile PROVE GovernanceInv'
<1> PICK b \in Builds : /\ Compiles(sheet, b, registry)
                        /\ candidates' = candidates \cup {Candidate(sheet, b, registry)}
  BY DEF Compile
<1>1. Compiled(Candidate(sheet, b, registry))
  BY DEF Compiled, Candidate, GovernanceInv, Workbook
<1>2. (Deployed /\ Workbook /\ Process)'
  BY DEF GovernanceInv, Deployed, Workbook, Process, Compile
<1>3. Review'
  BY <1>1 DEF GovernanceInv, Review, Compile, Compiled
<1>4. Answers'
  BY AnswersStay DEF GovernanceInv, Compile
<1> QED BY <1>2, <1>3, <1>4 DEF GovernanceInv

LEMMA SignOffStep == ASSUME GovernanceInv, SignOff PROVE GovernanceInv'
<1>1. (Deployed /\ Workbook /\ Process)'
  BY DEF GovernanceInv, Deployed, Workbook, Process, SignOff
<1>2. Review'
  BY DEF GovernanceInv, Review, SignOff, Compiled
<1>3. Answers'
  BY AnswersStay DEF GovernanceInv, SignOff
<1> QED BY <1>1, <1>2, <1>3 DEF GovernanceInv

LEMMA PublishStep == ASSUME GovernanceInv, Publish PROVE GovernanceInv'
<1>1. (Deployed /\ Workbook /\ Process)'
  BY DEF GovernanceInv, Deployed, Workbook, Process, Publish
<1>2. Review'
  BY DEF GovernanceInv, Review, Publish, Approved, Compiled
<1>3. Answers'
  BY AnswersStay DEF GovernanceInv, Publish
<1> QED BY <1>1, <1>2, <1>3 DEF GovernanceInv

LEMMA StartStep == ASSUME GovernanceInv, Start PROVE GovernanceInv'
<1>1. (Deployed /\ Workbook)'
  BY DEF GovernanceInv, Deployed, Workbook, Start
<1>2. Process'
  BY DEF GovernanceInv, Process, Start, Loads
<1>3. Review'
  BY DEF GovernanceInv, Review, Start, Compiled
<1>4. Answers'
  BY DEF GovernanceInv, Answers, Start
<1> QED BY <1>1, <1>2, <1>3, <1>4 DEF GovernanceInv

LEMMA OpenStep == ASSUME GovernanceInv, Open PROVE GovernanceInv'
<1>1. (Deployed /\ Workbook /\ Review /\ Process)'
  BY DEF GovernanceInv, Deployed, Workbook, Review, Process, Open, Compiled
<1>2. PICK q \in setting.requests :
        \/ /\ refused' = Nothing
           /\ \E s : Opened(s, q) /\ sessions' = sessions \cup {s}
        \/ sessions' = sessions /\ Turned(refused', q)
  <2>1. PICK q \in setting.requests :
          /\ ~Miswired(Catalog, q)
          /\ IF Resolve(Catalog, q) = "resolved" /\ GroupRoute(Catalog, q).code = "resolved"
             THEN /\ sessions' = sessions \cup
                       {[route |-> GroupRoute(Catalog, q).route,
                         group |-> GroupRoute(Catalog, q).group, ask |-> q,
                         release |-> running, build |-> build, conn |-> conn]}
                  /\ refused' = Nothing
             ELSE /\ refused' = [code |-> IF Resolve(Catalog, q) = "resolved"
                                          THEN GroupRoute(Catalog, q).code
                                          ELSE Resolve(Catalog, q),
                                 list |-> Catalog, ask |-> q]
                  /\ UNCHANGED sessions
    BY DEF Open
  <2>2. CASE Resolve(Catalog, q) = "resolved" /\ GroupRoute(Catalog, q).code = "resolved"
    <3>1. PICK s : s = [route |-> GroupRoute(Catalog, q).route,
                        group |-> GroupRoute(Catalog, q).group, ask |-> q,
                        release |-> running, build |-> build, conn |-> conn]
      OBVIOUS
    <3>2. Opened(s, q)
      BY <2>1, <2>2, <3>1 DEF Opened
    <3>3. refused' = Nothing /\ sessions' = sessions \cup {s}
      BY <2>1, <2>2, <3>1
    <3> QED BY <3>2, <3>3
  <2>3. CASE ~(Resolve(Catalog, q) = "resolved" /\ GroupRoute(Catalog, q).code = "resolved")
    <3>1. /\ sessions' = sessions
          /\ refused' = [code |-> IF Resolve(Catalog, q) = "resolved"
                                  THEN GroupRoute(Catalog, q).code
                                  ELSE Resolve(Catalog, q),
                         list |-> Catalog, ask |-> q]
      BY <2>1, <2>3
    <3>2. refused'.list = Catalog /\ refused'.ask = q
      BY <3>1
    <3> QED BY <2>3, <3>1, <3>2 DEF Turned
  <2> QED BY <2>2, <2>3
<1>3. conn' = conn /\ ran' = ran
  BY DEF Open
<1>4. CASE \E s : Opened(s, q) /\ sessions' = sessions \cup {s} /\ refused' = Nothing
  <2>1. PICK s : Opened(s, q) /\ sessions' = sessions \cup {s}
    BY <1>4
  <2>2. \A t \in sessions' : SessionKept(t)
    <3>1. SessionKept(s)
      BY <2>1, OpenedKeeps DEF GovernanceInv
    <3> QED BY <2>1, <3>1 DEF GovernanceInv, Answers
  <2> QED BY <1>1, <1>3, <1>4, <2>2 DEF GovernanceInv, Answers, SessionKept, NameKept, OrderKept,
             GroupKept, WireKept
<1>5. CASE sessions' = sessions /\ Turned(refused', q)
  <2>1. PICK r : r = refused'
    OBVIOUS
  <2>2. Reasoned(r)
    BY <1>5, <2>1, TurnedForAReason DEF GovernanceInv
  <2>3. Reasoned(r)'
    BY <1>3, <2>2, ReasonStays
  <2>4. Reasoned(refused)'
    BY <2>1, <2>3 DEF Reasoned
  <2> QED BY <1>1, <1>3, <1>5, <2>4 DEF GovernanceInv, Answers
<1> QED BY <1>1, <1>2, <1>4, <1>5 DEF GovernanceInv

LEMMA ExecuteStep == ASSUME GovernanceInv, Execute PROVE GovernanceInv'
<1>1. (Deployed /\ Workbook /\ Review /\ Process)'
  BY DEF GovernanceInv, Deployed, Workbook, Review, Process, Execute, Compiled
<1>2. PICK s \in sessions :
        ran' = IF Runs(s) THEN [session |-> s, wire |-> Wire[build][s.route.conn]] ELSE Nothing
  BY DEF Execute
<1>3. ran' # Nothing => ran'.wire = Wire[ran'.session.build][ran'.session.route.conn]
  BY <1>2 DEF GovernanceInv, Answers, SessionKept, WireKept, Runs
<1>4. refused # Nothing => Reasoned(refused)'
  BY ReasonStays DEF GovernanceInv, Answers, Execute
<1>5. Answers'
  BY <1>3, <1>4 DEF GovernanceInv, Answers, Execute
<1> QED BY <1>1, <1>5 DEF GovernanceInv

LEMMA GovernanceStays == ASSUME GovernanceInv, UNCHANGED vars PROVE GovernanceInv'
<1>1. (Deployed /\ Workbook /\ Review /\ Process)'
  BY DEF GovernanceInv, Deployed, Workbook, Review, Process, vars, Compiled
<1>2. Answers'
  BY AnswersStay DEF GovernanceInv, vars
<1> QED BY <1>1, <1>2 DEF GovernanceInv

LEMMA GovernanceInvAlways == Spec => []GovernanceInv
<1>1. ASSUME GovernanceInv, [Next]_vars PROVE GovernanceInv'
  <2>1. CASE Edit BY <1>1, <2>1, EditStep
  <2>2. CASE Compile BY <1>1, <2>2, CompileStep
  <2>3. CASE SignOff BY <1>1, <2>3, SignOffStep
  <2>4. CASE Publish BY <1>1, <2>4, PublishStep
  <2>5. CASE Start BY <1>1, <2>5, StartStep
  <2>6. CASE Open BY <1>1, <2>6, OpenStep
  <2>7. CASE Execute BY <1>1, <2>7, ExecuteStep
  <2>8. CASE UNCHANGED vars BY <1>1, <2>8, GovernanceStays
  <2> QED BY <1>1, <2>1, <2>2, <2>3, <2>4, <2>5, <2>6, <2>7, <2>8 DEF Next
<1> QED BY <1>1, GovernanceInit, PTL DEF Spec

\* Whatever the workbook, the registry, the builds and the connections do: a
\* process serves what was approved, a declared name is not served by the
\* built-in supplies, a refusal has a reason, a supply group is of one account,
\* and a session runs on the wire it was opened on.
THEOREM RoutesAreReviewed == Spec => []GovernanceSafe
<1>1. GovernanceInv => GovernanceSafe
  <2> SUFFICES ASSUME GovernanceInv PROVE GovernanceSafe
    OBVIOUS
  <2>1. GovernanceTypeOK
    BY DEF GovernanceInv, Deployed, Workbook, Review, Process, Answers, SessionKept, WireKept,
           GovernanceTypeOK
  <2>2. ApprovedRuns
    <3> SUFFICES ASSUME running # Nothing
                 PROVE  /\ running \in signed /\ running.base = build
                        /\ \A i \in Enabled(running.sheet) :
                             running.sheet.rows[i].offering \in running.registry
      BY DEF ApprovedRuns
    <3>1. Compiled(running) /\ running \in signed /\ running.base = build
      BY RunningIsCompiled DEF GovernanceInv
    <3> QED BY <3>1 DEF Compiled, Compiles
  <2>3. ReservedName /\ GroupIsOneAccount
    BY DEF GovernanceInv, Answers, SessionKept, NameKept, GroupKept, ReservedName,
           GroupIsOneAccount
  <2>4. NoNeedlessRefusal /\ FrozenWire
    BY DEF GovernanceInv, Answers, Reasoned, NoNeedlessRefusal, FrozenWire
  <2> QED BY <2>1, <2>2, <2>3, <2>4 DEF GovernanceSafe
<1> QED BY <1>1, GovernanceInvAlways, PTL

\* A session of a managed model is served in the order of the workbook it was
\* opened under: by the first row able to, or within that row's supply group.
THEOREM DeclaredOrderIsKept == Spec => []DeclaredOrder
<1>1. GovernanceInv => DeclaredOrder
  BY DEF GovernanceInv, Answers, SessionKept, OrderKept, DeclaredOrder
<1> QED BY <1>1, GovernanceInvAlways, PTL
=============================================================================
