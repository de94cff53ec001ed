-------------------------------- MODULE MCCache --------------------------------
(***************************************************************************)
(* Instances of the cache tables and of the preparation for TLC.           *)
(***************************************************************************)
EXTENDS StatefulCache, TLC

CONSTANTS
  r1, r2,  \* requests
  x, y     \* executors

Setting(requests, executors, prefixes, optional, assessed, affine, most, drops) ==
  [requests |-> requests, executors |-> executors, prefixes |-> prefixes,
   optional |-> optional, assessed |-> assessed, affine |-> affine,
   runs |-> most, faults |-> drops]

MCSettings ==
  { \* Two executors race to create one resource: leases run out, calls raise,
    \* processes die.
    Setting({r1}, {x, y}, {1}, {r1}, {}, FALSE, 3, 0),
    \* Two executors of one request rotate the affinity, publish and seal.
    Setting({r1}, {x, y}, {1}, {}, {}, TRUE, 2, 0),
    \* Two requests take turns in the session; each may rotate its affinity.
    Setting({r1, r2}, {x}, {1}, {}, {}, TRUE, 2, 0),
    \* A unified plan: assessed, then built, over two prefixes and a rotation.
    Setting({r1}, {x}, {1, 2}, {r1}, {r1}, TRUE, 2, 1) }
===============================================================================
