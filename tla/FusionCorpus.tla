--------------------------- MODULE FusionCorpus ---------------------------
(***************************************************************************)
(* The Fusion jobs of the legacy queue (src/app/fusion_runtime.py): the    *)
(* ingestion of a corpus and the model stages that read it and store       *)
(* numbered artifacts, over the tables of src/sql/002 and the object store.*)
(*                                                                         *)
(* The paths of the objects are functions of the corpus id alone, and the  *)
(* rows are upserted, so two executions of one corpus id write over each   *)
(* other: two executions of one job whose lease lapsed, or two jobs.  An   *)
(* execution that dies just stops; its next attempt is an execution of its *)
(* own.                                                                    *)
(***************************************************************************)
EXTENDS Naturals, FiniteSets, FiniteSetsExt

CONSTANTS
  Ingests, Stages,  \* executions of ingest jobs and of model stages
  Payloads,         \* contents of the corpus; a content is its own hash
  Types,            \* artifact types
  Materials,        \* a number: materials 1..Materials of each content
  Referenced,       \* those given by original_object_path, without their text
  Absent            \* null

ASSUME MaterialsAssumption == Materials \in Nat \ {0} /\ Referenced \subseteq 1..Materials

VARIABLES
  corpus,     \* the fusion_corpora row
  manifest,   \* the manifest object
  texts,      \* the source_text of the projection objects, by material
  materials,  \* the fusion_materials rows, by material
  artifacts,  \* the fusion_artifacts rows
  phase, todo,   \* where an execution is, and the material it is at
  payload,    \* what an ingest stores
  view        \* what a stage has read, and the version it will write

corpusVars == <<corpus, manifest, texts, materials, artifacts, phase, todo, payload, view>>

Slots == 1..Materials
NoText == "no text"
Open(e) == phase[e] \notin {"done", "failed"}

CorpusInit ==
  /\ corpus = Absent
  /\ manifest = Absent
  /\ texts = [m \in Slots |-> Absent]
  /\ materials = [m \in Slots |-> Absent]
  /\ artifacts = {}
  /\ phase = [e \in Ingests \cup Stages |-> "start"]
  /\ todo = [e \in Ingests \cup Stages |-> 1]
  /\ payload \in [Ingests -> Payloads]
  /\ view = [s \in Stages |-> Absent]

Enter(e, l) == phase' = [phase EXCEPT ![e] = l] /\ todo' = [todo EXCEPT ![e] = 1]

\* One pass over the materials, then on to l.
Each(e, l) ==
  IF todo[e] < Materials
  THEN todo' = [todo EXCEPT ![e] = @ + 1] /\ UNCHANGED phase
  ELSE Enter(e, l)

-----------------------------------------------------------------------------
(* _ingest_corpus.                                                         *)

\* Mutant: the row is registered before its objects.
RegisterFirst(i) ==
  /\ phase[i] = "start"
  /\ Enter(i, "texts")
  /\ corpus' = [hash |-> payload[i], status |-> "building"]
  /\ UNCHANGED <<manifest, texts, materials, artifacts, payload, view>>

\* A ready corpus of the same hash is reused, one of another hash refused.
LookForCorpus(i) ==
  /\ phase[i] = "start"
  /\ Enter(i, IF corpus = Absent THEN "texts"
             ELSE IF corpus.hash # payload[i] THEN "failed"
             ELSE IF corpus.status = "ready" THEN "done"
             ELSE "texts")
  /\ UNCHANGED <<corpus, manifest, texts, materials, artifacts, payload, view>>

\* A text that is only referenced is read from its original object.  When
\* that fails an empty text is stored, and the ingestion goes on.
SourceTexts(i, m) == {payload[i]} \cup (IF m \in Referenced THEN {NoText} ELSE {})

StoreText(i) ==
  \E t \in SourceTexts(i, todo[i]) :
    /\ phase[i] = "texts"
    /\ texts' = [texts EXCEPT ![todo[i]] = t]
    /\ Each(i, "manifest")
    /\ UNCHANGED <<corpus, manifest, materials, artifacts, payload, view>>

StoreManifest(i) ==
  /\ phase[i] = "manifest"
  /\ manifest' = payload[i]
  /\ Enter(i, "row")
  /\ UNCHANGED <<corpus, texts, materials, artifacts, payload, view>>

\* create_fusion_corpus is an upsert: whatever row is there is replaced.
UpsertCorpus(i) ==
  /\ phase[i] = "row"
  /\ corpus' = [hash |-> payload[i], status |-> "building"]
  /\ Enter(i, "materials")
  /\ UNCHANGED <<manifest, texts, materials, artifacts, payload, view>>

UpsertMaterial(i) ==
  /\ phase[i] = "materials"
  /\ materials' = [materials EXCEPT ![todo[i]] = payload[i]]
  /\ Each(i, "ready")
  /\ UNCHANGED <<corpus, manifest, texts, artifacts, payload, view>>

MarkReady(i) ==
  /\ phase[i] = "ready"
  /\ corpus' = [corpus EXCEPT !.status = "ready"]
  /\ Enter(i, "done")
  /\ UNCHANGED <<manifest, texts, materials, artifacts, payload, view>>

-----------------------------------------------------------------------------
(* _execute_model_stage.                                                   *)

\* The row is enough, in whatever status.
LookUpCorpus(s) ==
  \E t \in Types :
    /\ phase[s] = "start"
    /\ IF corpus = Absent THEN Enter(s, "failed") /\ UNCHANGED view
       ELSE /\ Enter(s, "read_manifest")
            /\ view' = [view EXCEPT ![s] =
                 [type |-> t, hash |-> corpus.hash, manifest |-> Absent,
                  texts |-> [m \in Slots |-> Absent], version |-> 0]]
    /\ UNCHANGED <<corpus, manifest, texts, materials, artifacts, payload>>

\* The parent artifacts the payload names are read next: one that is missing
\* fails the stage, which Fail stands for.
ReadManifest(s) ==
  /\ phase[s] = "read_manifest"
  /\ view' = [view EXCEPT ![s].manifest = manifest]
  /\ Enter(s, "read_texts")
  /\ UNCHANGED <<corpus, manifest, texts, materials, artifacts, payload>>

\* _build_material_prefix: a text that is empty or cannot be read is left out.
ReadText(s) ==
  \E t \in {texts[todo[s]], NoText} :
    /\ phase[s] = "read_texts"
    /\ view' = [view EXCEPT ![s].texts[todo[s]] = t]
    /\ Each(s, "call")
    /\ UNCHANGED <<corpus, manifest, texts, materials, artifacts, payload>>

\* next_fusion_artifact_version
NextVersion(t) == Max({a.version : a \in {b \in artifacts : b.type = t}} \cup {0}) + 1

\* The provider answers, the output is checked, and the version chosen; or
\* the stage fails.
CallModel(s) ==
  /\ phase[s] = "call"
  /\ \/ /\ view' = [view EXCEPT ![s].version = NextVersion(view[s].type)]
        /\ Enter(s, "insert")
     \/ Enter(s, "failed") /\ UNCHANGED view
  /\ UNCHANGED <<corpus, manifest, texts, materials, artifacts, payload>>

\* unique (fusion_corpus_id, artifact_type, artifact_version)
VersionTaken(t, v) == \E a \in artifacts : a.type = t /\ a.version = v

InsertArtifact(s) ==
  /\ phase[s] = "insert"
  /\ LET v == view[s] IN
       IF VersionTaken(v.type, v.version)
       THEN Enter(s, "failed") /\ UNCHANGED artifacts
       ELSE /\ artifacts' = artifacts \cup
                 {[type |-> v.type, version |-> v.version, of |-> s,
                   hash |-> v.hash, manifest |-> v.manifest,
                   texts |-> v.texts]}
            /\ Enter(s, "done")
  /\ UNCHANGED <<corpus, manifest, texts, materials, payload, view>>

\* An execution dies, or one of its calls fails.
Fail(e) ==
  /\ Open(e)
  /\ Enter(e, "failed")
  /\ UNCHANGED <<corpus, manifest, texts, materials, artifacts, payload, view>>

CorpusNext ==
  \/ \E i \in Ingests :
       \/ LookForCorpus(i) \/ StoreText(i) \/ StoreManifest(i)
       \/ UpsertCorpus(i) \/ UpsertMaterial(i) \/ MarkReady(i)
  \/ \E s \in Stages :
       \/ LookUpCorpus(s) \/ ReadManifest(s) \/ ReadText(s)
       \/ CallModel(s) \/ InsertArtifact(s)
  \/ \E e \in Ingests \cup Stages : Fail(e)

CorpusSpec == CorpusInit /\ [][CorpusNext]_corpusVars

-----------------------------------------------------------------------------
(* Properties.                                                             *)

\* Every artifact was made from the content of the hash it records: no stage
\* reads a manifest or a text that is not there yet, though the corpus row
\* is used in any status and the corpus may be being built, or built again,
\* while the stage reads.  A text may be missing from what the model was
\* shown: the code leaves out what it cannot read and what is empty.
ArtifactsAreOfOneCorpus ==
  \A a \in artifacts :
    /\ a.manifest = a.hash
    /\ \A m \in Slots : a.texts[m] \in {a.hash, NoText}

\* A ready corpus is as whole as the code makes it: its manifest and its
\* material rows are those of its hash, and so are its texts, save those of
\* referenced materials, which are empty when an ingestion, this one or a
\* later one that overlaps it, could not read the original.
ReadyIsWhole ==
  corpus # Absent =>
    (corpus.status = "ready" =>
       /\ manifest = corpus.hash
       /\ \A m \in Slots :
            /\ materials[m] = corpus.hash
            /\ texts[m] = corpus.hash \/ (m \in Referenced /\ texts[m] = NoText))

\* The artifacts of a type are numbered 1, 2, 3, ..., each number once,
\* though two stages may compute the same next number.
VersionsAreDense ==
  \A t \in Types :
    LET as == {a \in artifacts : a.type = t} IN
    {a.version : a \in as} = 1..Cardinality(as)

\* The state properties of corpora and artifacts together.
CorpusSafe ==
  /\ ArtifactsAreOfOneCorpus
  /\ ReadyIsWhole
  /\ VersionsAreDense
=============================================================================
