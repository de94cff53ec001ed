------------------------------ MODULE LedgerLog ------------------------------
(***************************************************************************)
(* The rows of the ledger as a SessionLog.                                 *)
(***************************************************************************)
EXTENDS RelayLedger

\* The requests that have a row, and those whose dispatch was sealed.
Taken == {r \in Request : status[r] # "absent"}
Sent  == {r \in Request : dispatch[r] # "not_sent"}

Log == INSTANCE SessionLog WITH
         opened <- Taken, pending <- active, sent <- Sent, turns <- commits

\* Whatever the executors do, in whatever order and with whatever fences, the
\* rows tell a caller what SessionLog promises: one request at a time, sent
\* once, answered while it holds the session or never.
ImplementsLog == Log!LogSpec
=============================================================================
