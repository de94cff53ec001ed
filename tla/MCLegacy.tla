------------------------------ MODULE MCLegacy ------------------------------
(***************************************************************************)
(* Instances for TLC of the first generation of the API: its jobs          *)
(* (LegacyJobs), and the corpora that Fusion jobs build and read           *)
(* (FusionCorpus).  The two share no state here; a behaviour belongs to    *)
(* one of them and leaves the other where it began.                        *)
(***************************************************************************)
EXTENDS LegacyJobs, FusionCorpus, TLC

CONSTANT Parts  \* of "jobs", "corpus"

VARIABLE part

MCInit ==
  /\ part \in Parts
  /\ Init
  /\ CorpusInit

MCNext ==
  \/ part = "jobs" /\ Next /\ UNCHANGED <<part, corpusVars>>
  \/ part = "corpus" /\ CorpusNext /\ UNCHANGED <<part, vars>>

MCSpec == MCInit /\ [][MCNext]_<<part, vars, corpusVars>>

MCFairSpec == MCSpec /\ Fairness

Symmetry ==
  Permutations(Workers) \cup Permutations(Keys) \cup Permutations(Stages)
=============================================================================
