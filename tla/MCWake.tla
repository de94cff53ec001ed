-------------------------------- MODULE MCWake --------------------------------
(***************************************************************************)
(* Instances of the worker's sleep and wake for TLC.                       *)
(***************************************************************************)
EXTENDS WorkerWake, TLC

CONSTANTS r1, r2

Nothing == [f \in Fault |-> 0]

\* Two requests, and a delivery that may be lost.
Race ==
  [requests |-> {r1, r2}, grace |-> 4, interval |-> 2, poll |-> 2, lease |-> 3,
   rpc |-> 1, send |-> 1, most |-> [Nothing EXCEPT !["lost"] = 1]]

\* One request, and one fault of each kind.
Faults ==
  [requests |-> {r1}, grace |-> 2, interval |-> 1, poll |-> 1, lease |-> 3,
   rpc |-> 1, send |-> 1, most |-> [f \in Fault |-> 1]]

MCSettings == {Race, Faults}
===============================================================================
