---------------------------- MODULE MCAdmission ----------------------------
(* Instances of RequestAdmission for TLC.                                  *)
EXTENDS RequestAdmission, TLC

CONSTANTS o1, o2, c0, c1, c2, c3, k0, k1, k2

Ask(m, s, on, f) == [material |-> m, says |-> s, on |-> on, fits |-> f]
Body(h, m, mode) == [hint |-> h, materials |-> m, mode |-> mode]

\* A system instruction, a material, and options only one protocol takes.
RouteIntents ==
  {Ask(FALSE, "p1", FALSE, Protocol), Ask(TRUE, Nothing, FALSE, Protocol),
   Ask(FALSE, "p1", FALSE, {"gemini_native"})}
TurnIntents ==
  {Ask(FALSE, Nothing, FALSE, Protocol), Ask(FALSE, "p1", FALSE, Protocol)}

AllOpenings == {Body(h, m, "cumulative") : h \in Hint, m \in BOOLEAN}
AutoOpenings == {Body("auto", FALSE, mode) : mode \in Mode}
PlainOpening == {Body("auto", FALSE, "cumulative")}
EphemeralOpening == {Body("auto", FALSE, "ephemeral_turn")}

Deployment(os, cs, ks, bodies, asks, supply, contract) ==
  [openers |-> os, callers |-> cs, keys |-> ks, openings |-> bodies,
   intents |-> asks, supply |-> supply, contract |-> contract]

MCDeployments ==
  { \* Three calls of two keys decide the route of a session.
    Deployment({}, {c1, c2, c3}, {k1, k2}, AutoOpenings, RouteIntents, Protocol, "v66"),
    \* Turns with and without instructions of an ephemeral session.
    Deployment({}, {c1, c2, c3}, {k1, k2}, EphemeralOpening, TurnIntents, Protocol, "v66"),
    \* Two calls open the session, a third uses it.
    Deployment({o1, o2}, {c0}, {k0}, AllOpenings, TurnIntents, Protocol, "v66"),
    \* A session of the oldest contract.
    Deployment({}, {c1, c2, c3}, {k1, k2}, PlainOpening, TurnIntents, {"gemini_native"}, "v2") }

\* The calls and keys that share their deployments are alike.
CallerSymmetry == Permutations({c1, c2, c3}) \cup Permutations({k1, k2})
=============================================================================
