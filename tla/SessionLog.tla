----------------------------- MODULE SessionLog -----------------------------
(***************************************************************************)
(* What the relay promises the caller of a session, with no executors,     *)
(* fences, leases or jobs: a session takes one request at a time, sends it *)
(* to the provider at most once, and either appends its turn or gives the  *)
(* session back, after which the request is over for good.                 *)
(***************************************************************************)
EXTENDS Sequences

CONSTANTS Session, Request, SessionOf, None

VARIABLES
  opened,   \* the requests ever taken
  pending,  \* the request a session is held by
  sent,     \* the requests sent to the provider
  turns     \* the turns of a session

logVars == <<opened, pending, sent, turns>>

LogInit ==
  /\ opened = {} /\ sent = {}
  /\ pending = [s \in Session |-> None]
  /\ turns = [s \in Session |-> <<>>]

\* A request is taken once, by a session nobody holds.
Take(r) ==
  /\ r \notin opened /\ pending[SessionOf[r]] = None
  /\ opened' = opened \cup {r}
  /\ pending' = [pending EXCEPT ![SessionOf[r]] = r]
  /\ UNCHANGED <<sent, turns>>

\* It is sent once.  An executor that was overtaken may still send a request
\* the caller cancelled.
Send(r) ==
  /\ r \in opened \ sent
  /\ sent' = sent \cup {r}
  /\ UNCHANGED <<opened, pending, turns>>

\* The turn appears while the session is held, and frees it.
Answer(r) ==
  /\ pending[SessionOf[r]] = r /\ r \in sent
  /\ turns' = [turns EXCEPT ![SessionOf[r]] = Append(@, r)]
  /\ pending' = [pending EXCEPT ![SessionOf[r]] = None]
  /\ UNCHANGED <<opened, sent>>

\* The session is given back without a turn.
Drop(r) ==
  /\ pending[SessionOf[r]] = r
  /\ pending' = [pending EXCEPT ![SessionOf[r]] = None]
  /\ UNCHANGED <<opened, sent, turns>>

LogNext == \E r \in Request : Take(r) \/ Send(r) \/ Answer(r) \/ Drop(r)

LogSpec == LogInit /\ [][LogNext]_logVars
=============================================================================
