----------------------------- MODULE MCExecution -----------------------------
(***************************************************************************)
(* Instances of RelayExecution for TLC.  Requests and executors are model  *)
(* values; a scene says which of them take part, how many faults happen    *)
(* and how many outcomes a planner has, so one run checks several small    *)
(* instances.                                                              *)
(***************************************************************************)
EXTENDS RelayExecution, LedgerLog

CONSTANTS s1, s2, a1, b1, b2, e1, w1, w2, i1, i2, h1, h2, Scenes

VARIABLE scene

\* e1 is of a session of ephemeral turns, the others of one conversation.
Sessions == [r \in {a1, b1, b2, e1} |-> IF r = e1 THEN s2 ELSE s1]

MCInit == Init /\ scene \in Scenes

MCNext ==
  /\ UNCHANGED scene
  /\ \/ \E x \in scene.owners : ExecutorStep(x)
     \/ \E r \in scene.requests : ClientStep(r) \/ LeaseRunsOut(r)
     \/ \E r \in scene.late : TimePasses(r)
  /\ faults' <= scene.faults
  /\ epoch'[a1] = 1 => owner'[a1] \in scene.first
  /\ pc'[i1] = "idle" => pc'[i2] = "idle"
  /\ \A x \in scene.owners : {mats'[x], plan'[x]} \subseteq scene.digests \cup {None}

MCSpec == MCInit /\ [][MCNext]_<<vars, scene>>

FairMCSpec == MCSpec /\ Fairness

Scene(rs, xs, ds, n) ==
  [requests |-> rs, late |-> rs, owners |-> xs, first |-> {w1}, digests |-> ds, faults |-> n]

\* When workers are alike, the first to claim the job is w1; inline executors
\* are alike, and i1 starts first.

\* Two workers hand one job over through a crash, a lost reply or an expired
\* lease, each with a plan of its own.
Handover == Scene({a1}, {w1, w2}, {h1, h2}, 1)

\* A worker and an inline executor compete for one conversation.
Rivals == Scene({a1, b1}, {w1, i1}, {h1}, 1)

\* A request is cancelled and reopened between two workers while an inline
\* executor moves the conversation on.
Replanned == [Scene({a1, b1}, {w1, w2, i1}, {h1}, 0) EXCEPT !.late = {}]

\* Two synchronous requests, and duplicates that make both executors run one.
Duplicates == Scene({b1, b2}, {i1, i2}, {h1}, 1)

\* A turn of an ephemeral session, planned differently by two executors.
EphemeralTurn == Scene({e1}, {i1, i2}, {h1, h2}, 1)

Safety == {Handover, Rivals, Replanned, Duplicates, EphemeralTurn}

\* One request, its executors and two faults; only w2 may crash.
Settling == {[Scene({a1}, {w1, w2}, {h1}, 2) EXCEPT !.first = {w1, w2}],
             Scene({b1}, {i1, i2}, {h1}, 2)}

Lone == {Scene({a1}, {w1}, {h1}, 0)}
Deserted == {Scene({b1}, {i1}, {h1}, 1)}
==============================================================================
