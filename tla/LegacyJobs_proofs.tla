--------------------------- MODULE LegacyJobs_proofs ---------------------------
(***************************************************************************)
(* Proofs about the first generation of the queue, for any number of       *)
(* calls, keys, workers, claims and faults, and about the Fusion jobs that *)
(* run on it, for any number of executions, payloads and materials.        *)
(***************************************************************************)
EXTENDS LegacyJobs, FusionCorpus, FiniteSetTheorems, TLAPS

USE DEF vars, api, worker, sessions, histories

-----------------------------------------------------------------------------
(* Types.                                                                  *)

Ends == {"fail", "write_failure", "handle", "handle_write", "store_error"}
AtWork == {"check", "mark", "read", "load", "call", "called", "put", "commit", "settle",
           "publish"} \cup Ends

\* What a submit that found no row is going to insert.
Requests == [key : Keys, session : Sessions \cup {Nothing}, expected : Nat]

Places ==
  /\ pc \in [Submits \cup Cancels -> {"start", "insert", "write", "answered"}]
  /\ call \in [Submits \cup Cancels -> Requests \cup Submits \cup {Nothing}]
  /\ at \in [Workers -> AtWork \cup {"idle", "dead"}]
  /\ path \in [Workers -> Submits \cup {Nothing}]
  /\ base \in [Workers -> Seq(Submits)]
  /\ \A c \in Submits \cup Cancels : pc[c] = "insert" => call[c] \in Requests
  /\ \A c \in Submits \cup Cancels : pc[c] \in {"write", "answered"} => call[c] \in Rows
  /\ \A c \in Submits : pc[c] \in {"start", "insert"} => c \notin Rows
  /\ \A w \in Workers : at[w] \in AtWork => task[w] \in Rows
  /\ \A w \in Workers : at[w] = "load" => path[w] # Nothing

TypeInv == LegacyTypeOK /\ Places

LEMMA RowIsJob ==
  ASSUME LegacyTypeOK, NEW j \in Rows
  PROVE  j \in Submits /\ job[j] \in Job /\ job[j] # Nothing
BY DEF LegacyTypeOK, Rows

LEMMA TypeInit == Init => TypeInv
<1> SUFFICES ASSUME Init PROVE TypeInv
  OBVIOUS
<1>1. Rows = {}
  BY DEF Init, Rows
<1>2. LegacyTypeOK
  BY <1>1, BoundAssumption DEF Init, LegacyTypeOK
<1>3. Places
  BY <1>1 DEF Init, Places, AtWork, Ends
<1> QED BY <1>2, <1>3 DEF TypeInv

-----------------------------------------------------------------------------
(* Rows.                                                                   *)

\* One row is written, and stays the row it is.
Rewritten(j) ==
  /\ job'[j] \in Job
  /\ job' = [job EXCEPT ![j] = job'[j]]
  /\ job'[j].key = job[j].key
  /\ job'[j].session = job[j].session
  /\ job'[j].expected = job[j].expected
  /\ job'[j].status \in Working => job'[j].owner # Nothing

\* The insert of a submit.
Inserted(c) ==
  /\ pc[c] = "insert" /\ pc'[c] = "answered" /\ c \notin Rows
  /\ KeyUnused(call[c].key)
  /\ job'[c] \in Job
  /\ job' = [job EXCEPT ![c] = job'[c]]
  /\ job'[c].key = call[c].key
  /\ job'[c].session = call[c].session
  /\ job'[c].expected = call[c].expected
  /\ job'[c].status = "queued"

LEMMA InsertedStep ==
  ASSUME TypeInv, NEW c \in Submits, SubmitInsert(c)
  PROVE  Inserted(c) \/ UNCHANGED job
<1> USE DEF TypeInv, LegacyTypeOK, Places, Job, Requests
<1>1. CASE KeyUnused(call[c].key)
  <2>1. job' = [job EXCEPT ![c] =
                 [key |-> call[c].key, session |-> call[c].session,
                  expected |-> call[c].expected,
                  status |-> "queued", owner |-> Nothing, lapsed |-> FALSE,
                  attempts |-> 0]]
    BY <1>1 DEF SubmitInsert
  <2>2. call[c] \in Requests /\ pc[c] = "insert" /\ c \notin Rows
    BY DEF SubmitInsert
  <2>3. pc'[c] = "answered"
    BY <1>1 DEF SubmitInsert, Goto
  <2> QED BY <1>1, <2>1, <2>2, <2>3, BoundAssumption DEF Inserted
<1>2. CASE ~KeyUnused(call[c].key)
  BY <1>2 DEF SubmitInsert
<1> QED BY <1>1, <1>2

LEMMA ClaimRowWrites ==
  ASSUME TypeInv, NEW j \in Rows, NEW w \in Workers, Claimable(j), ClaimRow(j, w)
  PROVE  Rewritten(j) /\ job'[j].status # "succeeded"
<1>1. j \in Submits /\ job[j] \in Job
  BY RowIsJob DEF TypeInv
<1> DEFINE row == [job[j] EXCEPT !.status = "leased", !.owner = w, !.lapsed = FALSE,
                                !.attempts = @ + 1]
<1>2. job' = [job EXCEPT ![j] = row]
  BY <1>1 DEF TypeInv, LegacyTypeOK, ClaimRow
<1>3. row \in Job /\ row.owner # Nothing
  <2>1. job[j].attempts + 1 \in 0..MaxAttempts
    BY <1>1, BoundAssumption DEF Claimable, Job
  <2> QED BY <1>1, <2>1, NullAssumption DEF Job, Working
<1>4. /\ row.key = job[j].key /\ row.session = job[j].session
      /\ row.expected = job[j].expected /\ row.status = "leased"
  BY <1>1 DEF Job
<1>5. job'[j] = row
  BY <1>1, <1>2 DEF TypeInv, LegacyTypeOK
<1> HIDE DEF row
<1> QED BY <1>2, <1>3, <1>4, <1>5 DEF Rewritten

LEMMA WriteWrites ==
  ASSUME TypeInv, NEW w \in Workers, NEW status \in {"running", "succeeded", "failed"},
         Write(w, status), task[w] \in Rows
  PROVE  (Rewritten(task[w]) /\ job'[task[w]].status = status) \/ UNCHANGED job
<1>1. task[w] \in Submits /\ job[task[w]] \in Job
  BY RowIsJob DEF TypeInv
<1> DEFINE j == task[w]
           row == [job[j] EXCEPT !.status = status]
<1>2. CASE Owns(w)
  <2>1. job' = [job EXCEPT ![j] = row]
    BY <1>1, <1>2 DEF TypeInv, LegacyTypeOK, Write
  <2>2. row \in Job /\ row.owner # Nothing
    BY <1>1, <1>2, NullAssumption DEF Owns, Job, Working, Closed
  <2>3. /\ row.key = job[j].key /\ row.session = job[j].session
        /\ row.expected = job[j].expected /\ row.status = status
    BY <1>1 DEF Job
  <2>4. job'[j] = row
    BY <1>1, <2>1 DEF TypeInv, LegacyTypeOK
  <2> HIDE DEF row
  <2> QED BY <2>1, <2>2, <2>3, <2>4 DEF Rewritten
<1>3. CASE ~Owns(w)
  BY <1>3 DEF Write
<1> QED BY <1>2, <1>3

LEMMA CancelWrites ==
  ASSUME TypeInv, NEW c \in Cancels, CancelWrite(c)
  PROVE  Rewritten(call[c]) /\ job'[call[c]].status = "cancelled" /\ call[c] \in Rows
<1>1. call[c] \in Rows
  BY DEF TypeInv, Places, CancelWrite
<1>2. call[c] \in Submits /\ job[call[c]] \in Job
  BY <1>1, RowIsJob DEF TypeInv
<1> QED BY <1>1, <1>2 DEF TypeInv, LegacyTypeOK, CancelWrite, Rewritten, Job, Working, Closed

LEMMA LeaseWrites ==
  ASSUME TypeInv, NEW j \in Rows, NEW b \in BOOLEAN, job' = [job EXCEPT ![j].lapsed = b],
         job[j].status \in Working
  PROVE  Rewritten(j) /\ job'[j].status # "succeeded"
<1>1. j \in Submits /\ job[j] \in Job
  BY RowIsJob DEF TypeInv
<1> QED BY <1>1 DEF TypeInv, LegacyTypeOK, Rewritten, Job, Working

\* Every step writes one row, inserts one, or none.  Only a worker that is
\* about to publish its job makes it a success.
LEMMA RowStep ==
  ASSUME TypeInv, [Next]_vars
  PROVE  \/ UNCHANGED job
         \/ \E c \in Submits : Inserted(c)
         \/ \E j \in Rows :
              /\ Rewritten(j)
              /\ job'[j].status = "succeeded" =>
                   \E w \in Workers : at[w] = "publish" /\ task[w] = j
<1> DEFINE Written ==
      \E j \in Rows :
        /\ Rewritten(j)
        /\ job'[j].status = "succeeded" =>
             \E w \in Workers : at[w] = "publish" /\ task[w] = j
<1>1. ASSUME NEW c \in Submits, SubmitInsert(c) PROVE UNCHANGED job \/ Inserted(c)
  BY <1>1, InsertedStep
<1>2. ASSUME NEW c \in Cancels, CancelWrite(c) PROVE Written
  BY <1>2, CancelWrites
<1>3. ASSUME NEW w \in Workers, Claim(w) \/ ClaimLost(w) PROVE Written
  BY <1>3, ClaimRowWrites DEF Claim, ClaimLost
<1>4. ASSUME NEW w \in Workers, Heartbeat(w) PROVE Written
  <2>1. task[w] \in Rows
    BY <1>4 DEF Heartbeat, TypeInv, Places, AtWork, Ends
  <2>2. job' = [job EXCEPT ![task[w]].lapsed = FALSE] /\ job[task[w]].status \in Working
    BY <1>4 DEF Heartbeat
  <2>3. Rewritten(task[w]) /\ job'[task[w]].status # "succeeded"
    BY <2>1, <2>2, LeaseWrites
  <2> QED BY <2>1, <2>3
<1>5. ASSUME NEW j \in Submits, Lapse(j) PROVE Written
  BY <1>5, LeaseWrites DEF Lapse
<1>6. ASSUME NEW w \in Workers,
             \/ MarkRunning(w) \/ Publish(w) \/ PublishLost(w) \/ WriteFailure(w) \/ Escapes(w)
      PROVE UNCHANGED job \/ Written
  <2>1. task[w] \in Rows
    BY <1>6 DEF MarkRunning, Publish, PublishLost, WriteFailure, Escapes, TypeInv, Places,
       AtWork, Ends
  <2>2. CASE MarkRunning(w) \/ Escapes(w)
    BY <2>1, <2>2, WriteWrites DEF MarkRunning, Escapes
  <2>3. CASE Publish(w) \/ PublishLost(w)
    BY <2>1, <2>3, WriteWrites DEF Publish, PublishLost
  <2>4. CASE WriteFailure(w)
    BY <2>1, <2>4, WriteWrites DEF WriteFailure
  <2> QED BY <1>6, <2>2, <2>3, <2>4
<1> HIDE DEF Written
<1>7. CASE UNCHANGED vars
  BY <1>7
<1>8. ASSUME Next PROVE UNCHANGED job \/ (\E c \in Submits : Inserted(c)) \/ Written
  <2>1. ASSUME NEW c \in Submits, SubmitFind(c) PROVE UNCHANGED job
    BY <2>1 DEF SubmitFind
  <2>2. ASSUME NEW c \in Cancels, CancelRead(c) PROVE UNCHANGED job
    BY <2>2 DEF CancelRead
  <2>3. ASSUME NEW w \in Workers,
               \/ CheckCancelled(w) \/ ReadSession(w) \/ LoadHistory(w) \/ CallProvider(w)
               \/ CheckAfterUpstream(w) \/ StoreHistory(w) \/ CommitHistory(w)
               \/ CheckBeforeCommit(w) \/ CheckBeforeFail(w) \/ MaterialExpiring(w)
               \/ ExecutionFails(w) \/ Crash(w)
        PROVE UNCHANGED job
    BY <2>3 DEF CheckCancelled, Reread, ReadSession, LoadHistory, CallProvider,
       CheckAfterUpstream, StoreHistory, CommitHistory, CheckBeforeCommit, CheckBeforeFail,
       MaterialExpiring, ExecutionFails, Crash
  <2> QED BY <1>1, <1>2, <1>3, <1>4, <1>5, <1>6, <1>8, <2>1, <2>2, <2>3 DEF Next, Execute
<1> QED BY <1>7, <1>8 DEF Written

\* Rows stay, with their key, their session and their snapshot.
LEMMA RowsStay ==
  ASSUME TypeInv, [Next]_vars, NEW j \in Rows
  PROVE  /\ j \in Rows'
         /\ job'[j].key = job[j].key
         /\ job'[j].session = job[j].session
         /\ job'[j].expected = job[j].expected
<1>1. j \in Submits /\ job[j] # Nothing
  BY DEF Rows
<1>2. ASSUME NEW c \in Submits, Inserted(c)
      PROVE job'[j] = job[j]
  BY <1>1, <1>2 DEF Inserted, TypeInv, LegacyTypeOK
<1>3. ASSUME NEW i \in Rows, Rewritten(i)
      PROVE /\ job'[j] # Nothing
            /\ job'[j].key = job[j].key
            /\ job'[j].session = job[j].session
            /\ job'[j].expected = job[j].expected
  <2>1. i \in Submits
    BY RowIsJob DEF TypeInv
  <2>2. CASE i = j
    BY <1>1, <1>3, <2>2, NullAssumption DEF Rewritten
  <2>3. CASE i # j
    BY <1>1, <1>3, <2>1, <2>3 DEF Rewritten, TypeInv, LegacyTypeOK
  <2> QED BY <2>2, <2>3
<1> QED BY <1>1, <1>2, <1>3, RowStep DEF Rows

-----------------------------------------------------------------------------
(* Workers, calls and histories.                                           *)

\* The commit of w, for the snapshot of its job.
Committed(w) ==
  LET s == SessionOf(w) IN
  /\ at[w] = "commit"
  /\ version[s] = job[task[w]].expected
  /\ version' = [version EXCEPT ![s] = @ + 1]
  /\ head' = [head EXCEPT ![s] = task[w]]
  /\ commits' = [commits EXCEPT ![s] = Append(@, task[w])]
  /\ stored' = stored

\* The object of w's job is written, from what w read.
Put(w) ==
  /\ at[w] = "put"
  /\ stored' = [stored EXCEPT ![task[w]] = Append(base[w], task[w])]
  /\ UNCHANGED sessions

LEMMA SessionStep ==
  ASSUME [Next]_vars
  PROVE  UNCHANGED histories \/ \E w \in Workers : Committed(w) \/ Put(w)
<1>1. ASSUME NEW w \in Workers, CommitHistory(w) \/ StoreHistory(w)
      PROVE UNCHANGED histories \/ Committed(w) \/ Put(w)
  BY <1>1 DEF CommitHistory, StoreHistory, CommitsOnSnapshot, Committed, Put
<1>2. ASSUME NEW c, SubmitFind(c) \/ SubmitInsert(c) \/ CancelRead(c) \/ CancelWrite(c)
      PROVE UNCHANGED histories
  BY <1>2 DEF SubmitFind, SubmitInsert, CancelRead, CancelWrite
<1>3. ASSUME NEW w \in Workers,
             \/ Claim(w) \/ ClaimLost(w) \/ Heartbeat(w) \/ CheckCancelled(w)
             \/ MarkRunning(w) \/ ReadSession(w) \/ LoadHistory(w) \/ CallProvider(w)
             \/ CheckAfterUpstream(w) \/ CheckBeforeCommit(w) \/ Publish(w)
             \/ CheckBeforeFail(w) \/ WriteFailure(w) \/ MaterialExpiring(w)
             \/ PublishLost(w) \/ ExecutionFails(w) \/ Escapes(w) \/ Crash(w)
      PROVE UNCHANGED histories
  BY <1>3 DEF Claim, ClaimLost, Heartbeat, CheckCancelled, Reread, MarkRunning, ReadSession,
     LoadHistory, CallProvider, CheckAfterUpstream, CheckBeforeCommit, Publish,
     CheckBeforeFail, WriteFailure, MaterialExpiring, PublishLost, ExecutionFails, Escapes,
     Crash
<1>4. ASSUME NEW j \in Submits, Lapse(j) PROVE UNCHANGED histories
  BY <1>4 DEF Lapse
<1> QED BY <1>1, <1>2, <1>3, <1>4 DEF Next, Execute

\* What a worker goes on to without reading anything.
Onward(w, l) ==
  \/ l \in Ends
  \/ at[w] = "check" /\ l = "mark"
  \/ at[w] = "mark" /\ l = "read"
  \/ at[w] = "read" /\ l = "call" /\ (SessionOf(w) = Nothing \/ head[SessionOf(w)] = Nothing)
  \/ at[w] = "call" /\ l = "called"
  \/ at[w] = "called" /\ l = "settle" /\ SessionOf(w) = Nothing
  \/ at[w] = "called" /\ l = "put" /\ SessionOf(w) # Nothing
  \/ at[w] = "put" /\ l = "commit" /\ Put(w)
  \/ at[w] = "commit" /\ l = "settle" /\ Committed(w)
  \/ at[w] = "settle" /\ l = "publish"

\* What a worker may do between two states.
Moves(w) ==
  \/ at'[w] = at[w] /\ task'[w] = task[w] /\ path'[w] = path[w] /\ base'[w] = base[w]
  \/ at'[w] \in {"idle", "dead"} /\ task'[w] = Nothing /\ path'[w] = Nothing /\ base'[w] = <<>>
  \/ /\ at[w] = "idle" /\ at'[w] = "check" /\ task'[w] \in Rows
     /\ path'[w] = path[w] /\ base'[w] = base[w]
  \/ /\ at[w] = "read" /\ at'[w] = "load" /\ task'[w] = task[w] /\ base'[w] = base[w]
     /\ SessionOf(w) # Nothing /\ head[SessionOf(w)] # Nothing /\ path'[w] = head[SessionOf(w)]
  \/ /\ at[w] = "load" /\ at'[w] = "call" /\ task'[w] = task[w]
     /\ path'[w] = Nothing /\ base'[w] = stored[path[w]]
  \/ /\ at[w] \in AtWork /\ task'[w] = task[w] /\ path'[w] = path[w] /\ base'[w] = base[w]
     /\ Onward(w, at'[w])

LEMMA MovesAlone ==
  ASSUME TypeInv, NEW w \in Workers, NEW v \in Workers, v # w,
         NEW l, NEW t, NEW p, NEW b,
         at' = [at EXCEPT ![w] = l] \/ at' = at,
         task' = [task EXCEPT ![w] = t] \/ task' = task,
         path' = [path EXCEPT ![w] = p] \/ path' = path,
         base' = [base EXCEPT ![w] = b] \/ base' = base
  PROVE  Moves(v)
BY DEF TypeInv, LegacyTypeOK, Places, Moves

\* A step of worker w.
WorkerActs(w) ==
  \/ Claim(w) \/ ClaimLost(w) \/ Heartbeat(w) \/ Execute(w)
  \/ MaterialExpiring(w) \/ PublishLost(w) \/ ExecutionFails(w)
  \/ Escapes(w) \/ Crash(w)

LEMMA LeaveMoves ==
  ASSUME TypeInv, NEW w \in Workers, NEW l \in {"idle", "dead"}, Leave(w, l), NEW v \in Workers
  PROVE  Moves(v)
<1>1. CASE v = w
  BY <1>1 DEF Leave, Moves, TypeInv, LegacyTypeOK, Places
<1>2. CASE v # w
  BY <1>2, MovesAlone DEF Leave
<1> QED BY <1>1, <1>2

LEMMA StepMoves ==
  ASSUME TypeInv, NEW w \in Workers, NEW l, Step(w, l), at[w] \in AtWork, Onward(w, l),
         NEW v \in Workers
  PROVE  Moves(v)
<1>1. CASE v = w
  BY <1>1 DEF Step, Moves, TypeInv, LegacyTypeOK, Places
<1>2. CASE v # w
  BY <1>2, MovesAlone DEF Step
<1> QED BY <1>1, <1>2

LEMMA WorkerMoves ==
  ASSUME TypeInv, NEW w \in Workers, WorkerActs(w), NEW v \in Workers
  PROVE  Moves(v)
<1>1. CASE UNCHANGED worker
  BY <1>1 DEF Moves
<1>2. CASE Stop(w) \/ Leave(w, "dead")
  BY <1>2, LeaveMoves DEF Stop
<1>3. CASE Claim(w)
  <2>1. CASE v = w
    BY <1>3, <2>1 DEF Claim, Moves, Rows, TypeInv, LegacyTypeOK, Places
  <2>2. CASE v # w
    BY <1>3, <2>2, MovesAlone DEF Claim
  <2> QED BY <2>1, <2>2
<1>4. CASE ReadSession(w) /\ ~(SessionOf(w) = Nothing \/ head[SessionOf(w)] = Nothing)
  <2>1. CASE v = w
    BY <1>4, <2>1 DEF ReadSession, Moves, TypeInv, LegacyTypeOK, Places
  <2>2. CASE v # w
    BY <1>4, <2>2, MovesAlone DEF ReadSession
  <2> QED BY <2>1, <2>2
<1>5. CASE LoadHistory(w)
  <2>1. CASE v = w
    BY <1>5, <2>1 DEF LoadHistory, Moves, TypeInv, LegacyTypeOK, Places
  <2>2. CASE v # w
    BY <1>5, <2>2, MovesAlone DEF LoadHistory
  <2> QED BY <2>1, <2>2
<1>6. ASSUME NEW l, Step(w, l), at[w] \in AtWork, Onward(w, l) PROVE Moves(v)
  BY <1>6, StepMoves
<1>7. CASE \/ CheckCancelled(w) \/ MarkRunning(w) \/ CallProvider(w)
           \/ CheckAfterUpstream(w) \/ CheckBeforeCommit(w)
  BY <1>2, <1>6, <1>7 DEF CheckCancelled, MarkRunning, CallProvider, CheckAfterUpstream,
     CheckBeforeCommit, Reread, AtWork, Onward
<1>8. CASE \/ CheckBeforeFail(w) \/ MaterialExpiring(w) \/ PublishLost(w) \/ ExecutionFails(w)
  BY <1>2, <1>6, <1>8 DEF CheckBeforeFail, MaterialExpiring, PublishLost, ExecutionFails,
     Reread, AtWork, Ends, Onward, Executing
<1>9. CASE ReadSession(w) /\ (SessionOf(w) = Nothing \/ head[SessionOf(w)] = Nothing)
  BY <1>6, <1>9 DEF ReadSession, AtWork, Onward
<1>10. CASE StoreHistory(w)
  BY <1>6, <1>10 DEF StoreHistory, Put, AtWork, Onward
<1>11. CASE CommitHistory(w)
  <2>1. CASE CommitsOnSnapshot(w)
    <3>1. Committed(w) /\ at[w] = "commit" /\ Step(w, "settle")
      BY <1>11, <2>1 DEF CommitHistory, CommitsOnSnapshot, Committed
    <3> QED BY <1>6, <3>1 DEF AtWork, Onward
  <2>2. CASE ~CommitsOnSnapshot(w)
    <3>1. at[w] = "commit" /\ Step(w, "fail")
      BY <1>11, <2>2 DEF CommitHistory
    <3> QED BY <1>6, <3>1 DEF AtWork, Ends, Onward
  <2> QED BY <2>1, <2>2
<1> QED BY <1>1, <1>2, <1>3, <1>4, <1>5, <1>7, <1>8, <1>9, <1>10, <1>11
        DEF WorkerActs, Execute, ClaimLost, Heartbeat, Publish, WriteFailure, Escapes, Crash

LEMMA WorkerStep ==
  ASSUME TypeInv, [Next]_vars, NEW v \in Workers
  PROVE  Moves(v)
<1>1. CASE UNCHANGED worker
  BY <1>1 DEF Moves
<1>2. ASSUME NEW c, SubmitFind(c) \/ SubmitInsert(c) \/ CancelRead(c) \/ CancelWrite(c)
      PROVE UNCHANGED worker
  BY <1>2 DEF SubmitFind, SubmitInsert, CancelRead, CancelWrite
<1>3. ASSUME NEW j, Lapse(j) PROVE UNCHANGED worker
  BY <1>3 DEF Lapse
<1> QED BY <1>1, <1>2, <1>3, WorkerMoves DEF Next, WorkerActs

\* What a call of the API may do between two states.
CallMoves(c) ==
  \/ pc'[c] = pc[c] /\ call'[c] = call[c]
  \/ /\ pc[c] = "start" /\ pc'[c] = "insert" /\ call'[c] \in Requests
     /\ call'[c].session # Nothing => call'[c].expected <= version[call'[c].session]
  \/ pc'[c] \in {"write", "answered"} /\ call'[c] \in Rows'

LEMMA GotoAlone ==
  ASSUME TypeInv, NEW c \in Submits \cup Cancels, NEW l, NEW x, Goto(c, l, x),
         NEW d \in Submits \cup Cancels
  PROVE  IF d = c THEN pc'[d] = l /\ call'[d] = x ELSE pc'[d] = pc[d] /\ call'[d] = call[d]
BY DEF TypeInv, Places, Goto

LEMMA FindMoves ==
  ASSUME TypeInv, NEW c \in Submits, SubmitFind(c), NEW d \in Submits \cup Cancels
  PROVE  CallMoves(d)
<1>1. Rows' = Rows
  BY DEF SubmitFind, Rows
<1>2. PICK k \in Keys, m \in Modes :
        /\ pc[c] = "start"
        /\ IF RowsOf(k) # {} THEN Goto(c, "answered", CHOOSE j \in RowsOf(k) : TRUE)
           ELSE Goto(c, "insert",
                  [key |-> k,
                   session |-> CASE m = "new_session" -> c
                                 [] m = "continue_session" -> Kept
                                 [] m = "stateless" -> Nothing,
                   expected |-> IF m = "continue_session" THEN version[Kept] ELSE 0])
  BY DEF SubmitFind
<1>3. CASE RowsOf(k) # {}
  <2>1. PICK x \in Rows : Goto(c, "answered", x)
    BY <1>2, <1>3 DEF RowsOf
  <2> QED BY <1>1, <2>1, GotoAlone DEF CallMoves
<1>4. CASE RowsOf(k) = {}
  <2>1. PICK x : /\ Goto(c, "insert", x)
                 /\ x = [key |-> k,
                         session |-> CASE m = "new_session" -> c
                                       [] m = "continue_session" -> Kept
                                       [] m = "stateless" -> Nothing,
                         expected |-> IF m = "continue_session" THEN version[Kept] ELSE 0]
    BY <1>2, <1>4
  <2>2. version[Kept] \in Nat /\ version[c] \in Nat
    BY DEF TypeInv, LegacyTypeOK, Sessions
  <2>3. /\ x \in Requests
        /\ x.session # Nothing => x.expected <= version[x.session]
    BY <2>1, <2>2 DEF Requests, Modes, Sessions
  <2>4. pc[c] = "start" /\ Goto(c, "insert", x)
    BY <1>2, <2>1
  <2> QED BY <2>3, <2>4, GotoAlone DEF CallMoves
<1> QED BY <1>3, <1>4

LEMMA InsertMoves ==
  ASSUME TypeInv, [Next]_vars, NEW c \in Submits, SubmitInsert(c), NEW d \in Submits \cup Cancels
  PROVE  CallMoves(d)
<1>1. PICK x : Goto(c, "answered", x) /\ x \in Rows'
  <2>1. CASE KeyUnused(call[c].key)
    <3>1. job'[c] = [key |-> call[c].key, session |-> call[c].session,
                     expected |-> call[c].expected,
                     status |-> "queued", owner |-> Nothing, lapsed |-> FALSE,
                     attempts |-> 0]
      BY <2>1 DEF SubmitInsert, TypeInv, LegacyTypeOK
    <3>2. call[c] \in Requests
      BY DEF SubmitInsert, TypeInv, Places
    <3>3. job'[c] \in Job
      BY <3>1, <3>2, BoundAssumption DEF Requests, Job
    <3>4. c \in Rows'
      BY <3>3, NullAssumption DEF Rows
    <3> QED BY <2>1, <3>4 DEF SubmitInsert
  <2>2. CASE ~KeyUnused(call[c].key)
    <3>1. PICK x \in Rows : Goto(c, "answered", x)
      BY <2>2 DEF SubmitInsert, KeyUnused, RowsOf
    <3> QED BY <3>1, RowsStay
  <2> QED BY <2>1, <2>2
<1> QED BY <1>1, GotoAlone DEF CallMoves

LEMMA CancelMoves ==
  ASSUME TypeInv, [Next]_vars, NEW c \in Cancels, CancelRead(c) \/ CancelWrite(c),
         NEW d \in Submits \cup Cancels
  PROVE  CallMoves(d)
<1>1. PICK l \in {"write", "answered"}, x \in Rows : Goto(c, l, x)
  BY DEF CancelRead, CancelWrite, TypeInv, Places
<1> QED BY <1>1, GotoAlone, RowsStay DEF CallMoves

\* A worker leaves the calls of the API alone, and counts its faults.
LEMMA WorkerKeeps ==
  ASSUME NEW w \in Workers, WorkerActs(w)
  PROVE  UNCHANGED api /\ (UNCHANGED faults \/ Fault)
<1>1. CASE Claim(w) \/ ClaimLost(w) \/ Heartbeat(w) \/ Crash(w) \/ Escapes(w)
  BY <1>1 DEF Claim, ClaimLost, Heartbeat, Crash, Escapes
<1>2. CASE CheckCancelled(w) \/ MarkRunning(w) \/ ReadSession(w) \/ LoadHistory(w) \/ CallProvider(w)
  BY <1>2 DEF CheckCancelled, Reread, MarkRunning, ReadSession, LoadHistory, CallProvider
<1>3. CASE CheckAfterUpstream(w) \/ StoreHistory(w) \/ CommitHistory(w) \/ CheckBeforeCommit(w)
  BY <1>3 DEF CheckAfterUpstream, Reread, StoreHistory, CommitHistory, CheckBeforeCommit
<1>4. CASE \/ Publish(w) \/ PublishLost(w) \/ CheckBeforeFail(w) \/ WriteFailure(w)
           \/ MaterialExpiring(w) \/ ExecutionFails(w)
  BY <1>4 DEF Publish, PublishLost, CheckBeforeFail, Reread, WriteFailure, MaterialExpiring,
     ExecutionFails
<1> QED BY <1>1, <1>2, <1>3, <1>4 DEF WorkerActs, Execute

LEMMA CallStep ==
  ASSUME TypeInv, [Next]_vars, NEW d \in Submits \cup Cancels
  PROVE  CallMoves(d)
<1>1. CASE UNCHANGED api
  BY <1>1 DEF CallMoves
<1>2. ASSUME NEW j, Lapse(j) PROVE UNCHANGED api
  BY <1>2 DEF Lapse
<1> QED BY <1>1, <1>2, WorkerKeeps, FindMoves, InsertMoves, CancelMoves DEF Next, WorkerActs

LEMMA FaultStep ==
  ASSUME TypeInv, [Next]_vars
  PROVE  faults' \in 0..MaxFaults
<1>1. CASE UNCHANGED faults \/ Fault
  BY <1>1, BoundAssumption DEF Fault, TypeInv, LegacyTypeOK
<1>2. ASSUME NEW c, SubmitFind(c) \/ SubmitInsert(c) \/ CancelRead(c) \/ CancelWrite(c)
      PROVE UNCHANGED faults
  BY <1>2 DEF SubmitFind, SubmitInsert, CancelRead, CancelWrite
<1>3. ASSUME NEW j, Lapse(j) PROVE UNCHANGED faults
  BY <1>3 DEF Lapse
<1> QED BY <1>1, <1>2, <1>3, WorkerKeeps DEF Next, WorkerActs

-----------------------------------------------------------------------------
(* Types, step.                                                            *)

\* The locals stay functions of the workers and of the calls.
LEMMA ShapeStep ==
  ASSUME TypeInv, [Next]_vars
  PROVE  /\ at' = [w \in Workers |-> at'[w]]
         /\ task' = [w \in Workers |-> task'[w]]
         /\ path' = [w \in Workers |-> path'[w]]
         /\ base' = [w \in Workers |-> base'[w]]
         /\ pc' = [c \in Submits \cup Cancels |-> pc'[c]]
         /\ call' = [c \in Submits \cup Cancels |-> call'[c]]
<1> DEFINE WorkerShape == /\ at' = [w \in Workers |-> at'[w]]
                          /\ task' = [w \in Workers |-> task'[w]]
                          /\ path' = [w \in Workers |-> path'[w]]
                          /\ base' = [w \in Workers |-> base'[w]]
           CallShape == /\ pc' = [c \in Submits \cup Cancels |-> pc'[c]]
                        /\ call' = [c \in Submits \cup Cancels |-> call'[c]]
<1> USE DEF TypeInv, LegacyTypeOK, Places
<1>1. ASSUME UNCHANGED worker PROVE WorkerShape
  BY <1>1
<1>2. ASSUME UNCHANGED api PROVE CallShape
  BY <1>2
<1>3. ASSUME NEW w, NEW l, Leave(w, l) \/ Step(w, l) PROVE WorkerShape
  BY <1>3 DEF Leave, Step
<1>4. ASSUME NEW w, Claim(w) \/ LoadHistory(w) PROVE WorkerShape
  BY <1>4 DEF Claim, LoadHistory
<1>5. ASSUME NEW w, ReadSession(w) PROVE WorkerShape
  <2>1. CASE SessionOf(w) = Nothing \/ head[SessionOf(w)] = Nothing
    BY <1>3, <1>5, <2>1 DEF ReadSession
  <2>2. CASE ~(SessionOf(w) = Nothing \/ head[SessionOf(w)] = Nothing)
    BY <1>5, <2>2 DEF ReadSession
  <2> QED BY <2>1, <2>2
<1>6. ASSUME NEW c, NEW l, NEW x, Goto(c, l, x) PROVE CallShape
  <2>1. /\ pc = [d \in Submits \cup Cancels |-> pc[d]]
        /\ call = [d \in Submits \cup Cancels |-> call[d]]
    OBVIOUS
  <2> HIDE DEF TypeInv
  <2> QED BY <1>6, <2>1 DEF Goto
<1> HIDE DEF TypeInv, LegacyTypeOK, Places, WorkerShape, CallShape
<1>7. ASSUME NEW w \in Workers, WorkerActs(w) PROVE WorkerShape
  <2>1. CASE Claim(w) \/ ClaimLost(w) \/ Heartbeat(w) \/ ReadSession(w) \/ LoadHistory(w)
    BY <1>1, <1>4, <1>5, <2>1 DEF ClaimLost, Heartbeat
  <2>2. CASE CheckCancelled(w) \/ MarkRunning(w) \/ CallProvider(w) \/ CheckAfterUpstream(w)
    BY <1>3, <2>2 DEF CheckCancelled, Reread, MarkRunning, CallProvider, CheckAfterUpstream,
       Stop
  <2>3. CASE \/ StoreHistory(w) \/ CommitHistory(w) \/ CheckBeforeCommit(w) \/ Publish(w)
             \/ CheckBeforeFail(w) \/ WriteFailure(w)
    BY <1>3, <2>3 DEF StoreHistory, CommitHistory, CheckBeforeCommit, Reread, Publish,
       CheckBeforeFail, WriteFailure, Stop
  <2>4. CASE MaterialExpiring(w) \/ PublishLost(w) \/ ExecutionFails(w) \/ Escapes(w) \/ Crash(w)
    BY <1>3, <2>4 DEF MaterialExpiring, PublishLost, ExecutionFails, Escapes, Crash, Stop
  <2> QED BY <1>7, <2>1, <2>2, <2>3, <2>4 DEF WorkerActs, Execute
<1>8. ASSUME NEW c, SubmitFind(c) \/ SubmitInsert(c) \/ CancelRead(c) \/ CancelWrite(c)
      PROVE CallShape /\ UNCHANGED worker
  BY <1>6, <1>8 DEF SubmitFind, SubmitInsert, CancelRead, CancelWrite
<1>9. ASSUME NEW j, Lapse(j) PROVE UNCHANGED <<api, worker>>
  BY <1>9 DEF Lapse
<1>10. WorkerShape /\ CallShape
  BY <1>1, <1>2, <1>7, <1>8, <1>9, WorkerKeeps DEF Next, WorkerActs
<1> QED BY <1>10 DEF WorkerShape, CallShape

\* The session rows and the objects stay of their types.
LEMMA TablesStep ==
  ASSUME TypeInv, [Next]_vars
  PROVE  /\ version' \in [Sessions -> Nat]
         /\ head' \in [Sessions -> Submits \cup {Nothing}]
         /\ stored' \in [Submits -> Seq(Submits)]
         /\ commits' \in [Sessions -> Seq(Submits)]
<1> USE DEF TypeInv, LegacyTypeOK
<1>1. ASSUME NEW w \in Workers, at[w] \in {"put", "commit"}
      PROVE task[w] \in Submits /\ base[w] \in Seq(Submits)
  BY <1>1 DEF Places, AtWork, Rows
<1>2. ASSUME NEW w \in Workers, Put(w)
      PROVE stored' \in [Submits -> Seq(Submits)] /\ UNCHANGED sessions
  <2>1. Append(base[w], task[w]) \in Seq(Submits)
    BY <1>1, <1>2 DEF Put
  <2> QED BY <1>2, <2>1 DEF Put
<1>3. ASSUME NEW w \in Workers, Committed(w)
      PROVE  /\ version' \in [Sessions -> Nat]
             /\ head' \in [Sessions -> Submits \cup {Nothing}]
             /\ commits' \in [Sessions -> Seq(Submits)]
             /\ stored' = stored
  <2>1. PICK s : /\ version' = [version EXCEPT ![s] = @ + 1]
                 /\ head' = [head EXCEPT ![s] = task[w]]
                 /\ commits' = [commits EXCEPT ![s] = Append(@, task[w])]
                 /\ stored' = stored
    BY <1>3 DEF Committed
  <2>2. task[w] \in Submits
    BY <1>1, <1>3 DEF Committed
  <2>3. CASE s \in Sessions
    <3>1. version[s] + 1 \in Nat /\ Append(commits[s], task[w]) \in Seq(Submits)
      BY <2>2, <2>3
    <3> QED BY <2>1, <2>2, <3>1
  <2>4. CASE s \notin Sessions
    <3>1. version' = version /\ head' = head /\ commits' = commits
      BY <2>1, <2>4
    <3> QED BY <2>1, <3>1
  <2> QED BY <2>3, <2>4
<1> QED BY <1>2, <1>3, SessionStep

LEMMA TypeStep ==
  ASSUME TypeInv, [Next]_vars
  PROVE  TypeInv'
<1>1. job' \in [Submits -> Job \cup {Nothing}]
      /\ \A j \in Rows' : job'[j].status \in Working => job'[j].owner # Nothing
  <2> USE DEF TypeInv, LegacyTypeOK
  <2>1. CASE UNCHANGED job
    BY <2>1 DEF Rows
  <2>2. ASSUME NEW c \in Submits, Inserted(c) PROVE <1>1!1 /\ <1>1!2
    BY <2>2 DEF Inserted, Rows, Working
  <2>3. ASSUME NEW j \in Rows, Rewritten(j) PROVE <1>1!1 /\ <1>1!2
    BY <2>3 DEF Rewritten, Rows
  <2> HIDE DEF TypeInv, LegacyTypeOK
  <2> QED BY <2>1, <2>2, <2>3, RowStep
<1>3. /\ at' \in [Workers -> AtWork \cup {"idle", "dead"}]
      /\ task' \in [Workers -> Submits \cup {Nothing}]
      /\ path' \in [Workers -> Submits \cup {Nothing}]
      /\ base' \in [Workers -> Seq(Submits)]
      /\ \A w \in Workers : at'[w] \in AtWork => task'[w] \in Rows'
      /\ \A w \in Workers : at'[w] = "load" => path'[w] # Nothing
  <2>1. ASSUME NEW w \in Workers
        PROVE /\ at'[w] \in AtWork \cup {"idle", "dead"}
              /\ task'[w] \in Submits \cup {Nothing}
              /\ path'[w] \in Submits \cup {Nothing}
              /\ base'[w] \in Seq(Submits)
              /\ at'[w] \in AtWork => task'[w] \in Rows
              /\ at'[w] = "load" => path'[w] # Nothing
    <3>1. Moves(w)
      BY WorkerStep
    <3>2. /\ at[w] \in AtWork \cup {"idle", "dead"} /\ task[w] \in Submits \cup {Nothing}
          /\ path[w] \in Submits \cup {Nothing}
          /\ base[w] \in Seq(Submits)
          /\ at[w] \in AtWork => task[w] \in Rows
          /\ at[w] = "load" => path[w] # Nothing
      BY DEF TypeInv, LegacyTypeOK, Places
    <3>3. task[w] \in Rows /\ SessionOf(w) # Nothing => head[SessionOf(w)] \in Submits \cup {Nothing}
      BY RowIsJob DEF TypeInv, LegacyTypeOK, SessionOf, Job
    <3>4. path[w] # Nothing => stored[path[w]] \in Seq(Submits)
      BY <3>2 DEF TypeInv, LegacyTypeOK
    <3>5. <<>> \in Seq(Submits) /\ \A j \in Rows : j \in Submits
      BY DEF Rows
    <3>6. base'[w] \in Seq(Submits)
      BY <3>1, <3>2, <3>4, <3>5 DEF Moves
    <3>7. task'[w] \in Submits \cup {Nothing} /\ path'[w] \in Submits \cup {Nothing}
      BY <3>1, <3>2, <3>3, <3>5 DEF Moves, AtWork
    <3>8. at'[w] \in AtWork \cup {"idle", "dead"}
      BY <3>1, <3>2 DEF Moves, AtWork, Onward
    <3>9. at'[w] \in AtWork => task'[w] \in Rows
      BY <3>1, <3>2 DEF Moves, AtWork, Ends
    <3>10. at'[w] = "load" => path'[w] # Nothing
      BY <3>1, <3>2 DEF Moves, Onward, Ends
    <3> QED BY <3>6, <3>7, <3>8, <3>9, <3>10
  <2>2. \A j \in Rows : j \in Rows'
    BY RowsStay
  <2> QED BY <2>1, <2>2, ShapeStep
<1>4. /\ pc' \in [Submits \cup Cancels -> {"start", "insert", "write", "answered"}]
      /\ call' \in [Submits \cup Cancels -> Requests \cup Submits \cup {Nothing}]
      /\ \A c \in Submits \cup Cancels : pc'[c] = "insert" => call'[c] \in Requests
      /\ \A c \in Submits \cup Cancels : pc'[c] \in {"write", "answered"} => call'[c] \in Rows'
  <2>1. ASSUME NEW c \in Submits \cup Cancels
        PROVE /\ pc'[c] \in {"start", "insert", "write", "answered"}
              /\ call'[c] \in Requests \cup Submits \cup {Nothing}
              /\ pc'[c] = "insert" => call'[c] \in Requests
              /\ pc'[c] \in {"write", "answered"} => call'[c] \in Rows'
    <3>1. CallMoves(c)
      BY CallStep
    <3>2. Rows' \subseteq Submits /\ \A j \in Rows : j \in Rows'
      BY RowsStay DEF Rows
    <3> QED BY <3>1, <3>2 DEF CallMoves, TypeInv, Places
  <2> QED BY <2>1, ShapeStep
<1>5. ASSUME NEW c \in Submits, pc'[c] \in {"start", "insert"}, c \in Rows' PROVE FALSE
  <2>1. CallMoves(c) /\ pc[c] \in {"start", "insert"} /\ c \notin Rows
    BY <1>5, CallStep DEF CallMoves, TypeInv, Places
  <2>2. job'[c] # job[c]
    BY <1>5, <2>1 DEF Rows
  <2>3. ASSUME NEW i \in Submits, Inserted(i) PROVE FALSE
    BY <1>5, <2>2, <2>3 DEF Inserted, TypeInv, LegacyTypeOK
  <2>4. ASSUME NEW i \in Rows, Rewritten(i) PROVE FALSE
    BY <2>1, <2>2, <2>4 DEF Rewritten, TypeInv, LegacyTypeOK
  <2> QED BY <2>2, <2>3, <2>4, RowStep
<1> QED BY <1>1, <1>3, <1>4, <1>5, TablesStep, FaultStep DEF TypeInv, LegacyTypeOK, Places

-----------------------------------------------------------------------------
(* Histories as sequences.  h tells the first n places of c when it holds  *)
(* the jobs of these places and no others, and shows them in their order.  *)

TellsTo(h, c, n) ==
  /\ \A p \in DOMAIN h : \E a \in 1..n : h[p] = c[a]
  /\ \A a \in 1..n : \E p \in DOMAIN h : h[p] = c[a]
  /\ \A a, k \in 1..n : a < k => Before(h, c[a], c[k])

Distinct(c) == \A a, k \in 1..Len(c) : c[a] = c[k] => a = k

LEMMA TellsAll ==
  ASSUME NEW S, NEW h \in Seq(S), NEW c \in Seq(S), TellsTo(h, c, Len(c))
  PROVE  Tells(h, c)
<1>1. DOMAIN c = 1..Len(c)
  OBVIOUS
<1>2. {h[p] : p \in DOMAIN h} = {c[p] : p \in DOMAIN c}
  BY <1>1 DEF TellsTo
<1> QED BY <1>1, <1>2 DEF TellsTo, Tells

LEMMA AppendFacts ==
  ASSUME NEW S, NEW h \in Seq(S), NEW e \in S
  PROVE  /\ Append(h, e) \in Seq(S)
         /\ DOMAIN h = 1..Len(h) /\ Len(h) \in Nat
         /\ DOMAIN Append(h, e) = 1..(Len(h) + 1) /\ Len(Append(h, e)) = Len(h) + 1
         /\ \A p \in 1..Len(h) : Append(h, e)[p] = h[p]
         /\ Append(h, e)[Len(h) + 1] = e
         /\ \A p \in 1..(Len(h) + 1) : p \in 1..Len(h) \/ p = Len(h) + 1
         /\ \A p \in 1..Len(h) : p \in 1..(Len(h) + 1)
         /\ Append(h, e) # <<>>
OBVIOUS

LEMMA BeforeAppend ==
  ASSUME NEW S, NEW h \in Seq(S), NEW e \in S, NEW i, NEW j, Before(h, i, j)
  PROVE  Before(Append(h, e), i, j)
<1>1. PICK p \in DOMAIN h : h[p] = i /\ \A q \in 1..p : h[q] # j
  BY DEF Before
<1>2. p \in 1..Len(h) /\ \A q \in 1..p : q \in 1..Len(h)
  OBVIOUS
<1> QED BY <1>1, <1>2, AppendFacts DEF Before

\* A job whose turn is told already is appended once more.
LEMMA TellsRepeat ==
  ASSUME NEW S, NEW h \in Seq(S), NEW c \in Seq(S), NEW e \in S, NEW n \in Nat, n <= Len(c),
         TellsTo(h, c, n), NEW k \in 1..n, e = c[k]
  PROVE  TellsTo(Append(h, e), c, n)
<1>0. /\ DOMAIN h = 1..Len(h) /\ DOMAIN Append(h, e) = 1..(Len(h) + 1) /\ Len(h) \in Nat
      /\ \A p \in 1..Len(h) : Append(h, e)[p] = h[p]
      /\ Append(h, e)[Len(h) + 1] = e
      /\ \A p \in 1..(Len(h) + 1) : p \in 1..Len(h) \/ p = Len(h) + 1
      /\ \A p \in 1..Len(h) : p \in 1..(Len(h) + 1)
  BY AppendFacts
<1>1. ASSUME NEW p \in DOMAIN Append(h, e) PROVE \E a \in 1..n : Append(h, e)[p] = c[a]
  <2>1. CASE p \in 1..Len(h)
    <3>1. PICK a \in 1..n : h[p] = c[a]
      BY <1>0, <2>1 DEF TellsTo
    <3> QED BY <1>0, <2>1, <3>1
  <2>2. CASE p = Len(h) + 1
    BY <1>0, <2>2
  <2> QED BY <1>0, <2>1, <2>2
<1>2. ASSUME NEW a \in 1..n PROVE \E p \in DOMAIN Append(h, e) : Append(h, e)[p] = c[a]
  <2>1. PICK p \in DOMAIN h : h[p] = c[a]
    BY DEF TellsTo
  <2> QED BY <1>0, <2>1
<1>3. \A a, m \in 1..n : a < m => Before(Append(h, e), c[a], c[m])
  BY BeforeAppend DEF TellsTo
<1> QED BY <1>1, <1>2, <1>3 DEF TellsTo

\* The next job is appended.
LEMMA TellsNext ==
  ASSUME NEW S, NEW h \in Seq(S), NEW c \in Seq(S), NEW e \in S, NEW n \in Nat, n + 1 <= Len(c),
         TellsTo(h, c, n), Distinct(c), e = c[n + 1]
  PROVE  TellsTo(Append(h, e), c, n + 1)
<1>0. /\ DOMAIN h = 1..Len(h) /\ DOMAIN Append(h, e) = 1..(Len(h) + 1) /\ Len(h) \in Nat
      /\ \A p \in 1..Len(h) : Append(h, e)[p] = h[p]
      /\ Append(h, e)[Len(h) + 1] = e
      /\ \A p \in 1..(Len(h) + 1) : p \in 1..Len(h) \/ p = Len(h) + 1
      /\ \A p \in 1..Len(h) : p \in 1..(Len(h) + 1)
  BY AppendFacts
<1>1. /\ \A a \in 1..(n + 1) : a \in 1..n \/ a = n + 1
      /\ \A a \in 1..n : a \in 1..(n + 1) /\ a \in 1..Len(c) /\ a # n + 1
      /\ n + 1 \in 1..(n + 1) /\ n + 1 \in 1..Len(c)
  OBVIOUS
<1>2. ASSUME NEW p \in DOMAIN Append(h, e)
      PROVE  \E a \in 1..(n + 1) : Append(h, e)[p] = c[a]
  <2>1. CASE p \in 1..Len(h)
    <3>1. PICK a \in 1..n : h[p] = c[a]
      BY <1>0, <2>1 DEF TellsTo
    <3> QED BY <1>0, <1>1, <2>1, <3>1
  <2>2. CASE p = Len(h) + 1
    BY <1>0, <1>1, <2>2
  <2> QED BY <1>0, <2>1, <2>2
<1>3. \A a \in 1..(n + 1) : \E p \in DOMAIN Append(h, e) : Append(h, e)[p] = c[a]
  <2>1. ASSUME NEW a \in 1..n PROVE \E p \in DOMAIN Append(h, e) : Append(h, e)[p] = c[a]
    <3>1. PICK p \in DOMAIN h : h[p] = c[a]
      BY <2>1 DEF TellsTo
    <3> QED BY <1>0, <3>1
  <2>2. \E p \in DOMAIN Append(h, e) : Append(h, e)[p] = c[n + 1]
    <3>1. Len(h) + 1 \in DOMAIN Append(h, e) /\ Append(h, e)[Len(h) + 1] = e
      BY <1>0
    <3> QED BY <3>1
  <2> QED BY <1>1, <2>1, <2>2
<1>4. ASSUME NEW a \in 1..n PROVE Before(Append(h, e), c[a], c[n + 1])
  <2>1. PICK p \in DOMAIN h : h[p] = c[a]
    BY <1>4 DEF TellsTo
  <2>2. ASSUME NEW q \in 1..p PROVE Append(h, e)[q] # c[n + 1]
    <3>1. q \in DOMAIN h /\ Append(h, e)[q] = h[q]
      BY <1>0, <2>1, <2>2
    <3>2. PICK m \in 1..n : h[q] = c[m]
      BY <3>1 DEF TellsTo
    <3> QED BY <1>1, <3>1, <3>2 DEF Distinct
  <2>3. p \in DOMAIN Append(h, e) /\ Append(h, e)[p] = c[a]
    BY <1>0, <2>1
  <2> QED BY <2>2, <2>3 DEF Before
<1>5. \A a, m \in 1..(n + 1) : a < m => Before(Append(h, e), c[a], c[m])
  <2>1. ASSUME NEW a \in 1..(n + 1), NEW m \in 1..(n + 1), a < m
        PROVE  Before(Append(h, e), c[a], c[m])
    <3>1. a \in 1..n
      BY <2>1
    <3>2. CASE m = n + 1
      BY <1>4, <3>1, <3>2
    <3>3. CASE m \in 1..n
      BY <2>1, <3>1, <3>3, BeforeAppend DEF TellsTo
    <3> QED BY <1>1, <3>2, <3>3
  <2> QED BY <2>1
<1> QED BY <1>2, <1>3, <1>5 DEF TellsTo

\* c is the beginning of d.
Begins(c, d) == Len(c) <= Len(d) /\ \A a \in 1..Len(c) : d[a] = c[a]

LEMMA TellsLonger ==
  ASSUME NEW S, NEW h \in Seq(S), NEW c \in Seq(S), NEW d \in Seq(S), Begins(c, d),
         NEW n \in Nat, n <= Len(c), TellsTo(h, c, n)
  PROVE  TellsTo(h, d, n)
<1>1. \A a \in 1..n : d[a] = c[a]
  BY DEF Begins
<1> QED BY <1>1 DEF TellsTo

\* A history that tells more has every turn of one that tells less, and has
\* them in their places.
LEMMA NothingLost ==
  ASSUME NEW S, NEW h \in Seq(S), NEW g \in Seq(S), NEW c \in Seq(S), NEW d \in Seq(S),
         Begins(c, d), Distinct(d), TellsTo(h, c, Len(c)), TellsTo(g, d, Len(d))
  PROVE  /\ \A p \in DOMAIN h : Contains(g, h[p])
         /\ \A i, j : Before(h, i, j) => Before(g, i, j)
<1>1. \A a \in 1..Len(c) : a \in 1..Len(d) /\ d[a] = c[a]
  BY DEF Begins
<1>2. ASSUME NEW p \in DOMAIN h PROVE \E a \in 1..Len(c) : h[p] = c[a] /\ h[p] = d[a]
  BY <1>1 DEF TellsTo
<1>3. ASSUME NEW p \in DOMAIN h PROVE Contains(g, h[p])
  <2>1. PICK a \in 1..Len(d) : h[p] = d[a]
    BY <1>1, <1>2
  <2>2. PICK q \in DOMAIN g : g[q] = d[a]
    BY DEF TellsTo
  <2> QED BY <2>1, <2>2 DEF Contains
<1>4. ASSUME NEW i, NEW j, Before(h, i, j) PROVE Before(g, i, j)
  <2>1. PICK p \in DOMAIN h : h[p] = i /\ \A q \in 1..p : h[q] # j
    BY <1>4 DEF Before
  <2>2. PICK a \in 1..Len(c) : i = c[a] /\ i = d[a]
    BY <1>2, <2>1
  <2>3. CASE \E b \in 1..Len(d) : j = d[b]
    <3>1. PICK b \in 1..Len(d) : j = d[b]
      BY <2>3
    <3>2. CASE a < b
      BY <1>1, <2>2, <3>1, <3>2 DEF TellsTo
    <3>3. CASE a = b
      BY <2>1, <2>2, <3>1, <3>3
    <3>4. CASE b < a
      <4>1. b \in 1..Len(c) /\ j = c[b]
        BY <1>1, <2>2, <3>1, <3>4
      <4>2. Before(h, j, i)
        BY <2>2, <3>4, <4>1 DEF TellsTo
      <4>3. PICK r \in DOMAIN h : h[r] = j /\ \A q \in 1..r : h[q] # i
        BY <4>2 DEF Before
      <4>4. r \in 1..p \/ p \in 1..r
        BY <2>1, <4>3
      <4> QED BY <2>1, <4>3, <4>4
    <3> QED BY <3>2, <3>3, <3>4
  <2>4. CASE ~\E b \in 1..Len(d) : j = d[b]
    <3>1. PICK q \in DOMAIN g : g[q] = i
      BY <1>1, <2>2 DEF TellsTo
    <3>2. \A r \in 1..q : r \in DOMAIN g
      BY <3>1
    <3>3. \A r \in 1..q : g[r] # j
      BY <2>4, <3>2 DEF TellsTo
    <3> QED BY <3>1, <3>3 DEF Before
  <2> QED BY <2>3, <2>4
<1> QED BY <1>3, <1>4

-----------------------------------------------------------------------------
(* Histories.                                                              *)

\* A commit stands where its submit expected it: at the version it read.
\* The session names the last one, and its object is there.
LogInv ==
  \A s \in Sessions :
    /\ version[s] = Len(commits[s])
    /\ version[s] = 0 => head[s] = Nothing
    /\ version[s] # 0 => head[s] = commits[s][version[s]]
    /\ \A i \in 1..Len(commits[s]) :
         /\ commits[s][i] \in Rows
         /\ job[commits[s][i]].session = s
         /\ job[commits[s][i]].expected = i - 1
         /\ stored[commits[s][i]] # <<>>

\* Versions that were read are not ahead of the session.
SnapshotInv ==
  /\ \A j \in Rows :
       job[j].session # Nothing => job[j].expected <= version[job[j].session]
  /\ \A c \in Submits \cup Cancels :
       pc[c] = "insert" /\ call[c].session # Nothing
         => call[c].expected <= version[call[c].session]

\* h tells the commits of s, as far as place e at the least.
ToldFrom(h, s, e) ==
  \E n \in Nat : e <= n /\ n <= Len(commits[s]) /\ TellsTo(h, commits[s], n)

\* An object holds its own job behind a history that was read after the
\* snapshot of the job, whichever execution wrote it.
StoredInv ==
  \A j \in Submits : stored[j] # <<>> =>
    /\ j \in Rows /\ job[j].session # Nothing
    /\ \E h \in Seq(Submits) :
         stored[j] = Append(h, j) /\ ToldFrom(h, job[j].session, job[j].expected)

\* What a worker reads tells the commits at least up to its job's snapshot;
\* past the commit its job is among them.
ReadInv(w) ==
  /\ at[w] \in {"idle", "check", "mark", "read"} => base[w] = <<>>
  /\ at[w] \in {"load", "put", "commit"} => SessionOf(w) # Nothing
  /\ at[w] = "load" =>
       \E k \in 1..Len(commits[SessionOf(w)]) :
         path[w] = commits[SessionOf(w)][k] /\ job[task[w]].expected <= k
  /\ at[w] \in {"call", "called", "put"} /\ SessionOf(w) # Nothing
       => ToldFrom(base[w], SessionOf(w), job[task[w]].expected)
  /\ at[w] = "commit" => stored[task[w]] # <<>>
  /\ at[w] \in {"settle", "publish"} /\ SessionOf(w) # Nothing
       => Contains(commits[SessionOf(w)], task[w])

PublishedInv ==
  \A j \in Rows :
    job[j].status = "succeeded" /\ job[j].session # Nothing
      => Contains(commits[job[j].session], j)

LegacyInv ==
  /\ TypeInv
  /\ LogInv
  /\ SnapshotInv
  /\ StoredInv
  /\ \A w \in Workers : ReadInv(w)
  /\ PublishedInv

LEMMA LegacyInit == Init => LegacyInv
<1> SUFFICES ASSUME Init PROVE LegacyInv
  OBVIOUS
<1>1. TypeInv
  BY TypeInit
<1>2. LogInv /\ SnapshotInv /\ StoredInv /\ PublishedInv
  BY DEF Init, LogInv, SnapshotInv, StoredInv, PublishedInv, Rows
<1>3. \A w \in Workers : ReadInv(w)
  BY DEF Init, ReadInv
<1> QED BY <1>1, <1>2, <1>3 DEF LegacyInv

LEMMA SessionTypes ==
  ASSUME LegacyInv, NEW s \in Sessions
  PROVE  /\ commits[s] \in Seq(Submits) /\ version[s] \in Nat /\ version[s] = Len(commits[s])
         /\ Distinct(commits[s])
<1>1. commits[s] \in Seq(Submits) /\ version[s] \in Nat /\ version[s] = Len(commits[s])
  BY DEF LegacyInv, TypeInv, LegacyTypeOK, LogInv
<1>2. ASSUME NEW a \in 1..Len(commits[s]), NEW k \in 1..Len(commits[s]),
             commits[s][a] = commits[s][k]
      PROVE  a = k
  <2>1. job[commits[s][a]].expected = a - 1 /\ job[commits[s][k]].expected = k - 1
    BY DEF LegacyInv, LogInv
  <2>2. a - 1 = k - 1
    BY <1>2, <2>1
  <2> QED BY <2>2
<1> QED BY <1>1, <1>2 DEF Distinct

\* The session of a worker's job.
LEMMA JobOfWorker ==
  ASSUME LegacyInv, NEW w \in Workers, at[w] \in AtWork
  PROVE  /\ task[w] \in Rows /\ task[w] \in Submits /\ job[task[w]].expected \in Nat
         /\ base[w] \in Seq(Submits)
         /\ SessionOf(w) # Nothing => SessionOf(w) \in Sessions
<1>1. task[w] \in Rows /\ base[w] \in Seq(Submits)
  BY DEF LegacyInv, TypeInv, Places
<1> QED BY <1>1, RowIsJob DEF LegacyInv, TypeInv, SessionOf, Job

\* What a step does to one session.
Appended(w, s) ==
  /\ at[w] = "commit" /\ SessionOf(w) = s /\ task[w] \in Rows
  /\ job[task[w]].expected = Len(commits[s])
  /\ stored[task[w]] # <<>>
  /\ commits'[s] = Append(commits[s], task[w])
  /\ version'[s] = version[s] + 1
  /\ head'[s] = task[w]

LEMMA CommitStep ==
  ASSUME LegacyInv, [Next]_vars, NEW s \in Sessions
  PROVE  \/ commits'[s] = commits[s] /\ version'[s] = version[s] /\ head'[s] = head[s]
         \/ \E w \in Workers : Appended(w, s)
<1>1. ASSUME NEW w \in Workers, Committed(w)
      PROVE  \/ commits'[s] = commits[s] /\ version'[s] = version[s] /\ head'[s] = head[s]
             \/ Appended(w, s)
  <2>1. /\ task[w] \in Rows /\ SessionOf(w) # Nothing /\ stored[task[w]] # <<>>
    BY <1>1, JobOfWorker DEF Committed, LegacyInv, ReadInv, AtWork
  <2>2. CASE SessionOf(w) = s
    <3>1. job[task[w]].expected = Len(commits[s]) /\ at[w] = "commit"
      BY <1>1, <2>2, SessionTypes DEF Committed
    <3>2. /\ commits'[s] = Append(commits[s], task[w]) /\ version'[s] = version[s] + 1
          /\ head'[s] = task[w]
      BY <1>1, <2>2 DEF Committed, LegacyInv, TypeInv, LegacyTypeOK
    <3> QED BY <2>1, <2>2, <3>1, <3>2 DEF Appended
  <2>3. CASE SessionOf(w) # s
    BY <1>1, <2>3 DEF Committed, LegacyInv, TypeInv, LegacyTypeOK
  <2> QED BY <2>2, <2>3
<1>2. CASE UNCHANGED sessions
  BY <1>2
<1> QED BY <1>1, <1>2, SessionStep DEF Put

LEMMA CommitsGrow ==
  ASSUME LegacyInv, [Next]_vars, NEW s \in Sessions
  PROVE  /\ commits[s] \in Seq(Submits) /\ commits'[s] \in Seq(Submits)
         /\ Begins(commits[s], commits'[s])
         /\ version[s] \in Nat /\ version'[s] \in Nat /\ version[s] <= version'[s]
         /\ \A e : Contains(commits[s], e) => Contains(commits'[s], e)
<1>1. /\ commits[s] \in Seq(Submits) /\ commits'[s] \in Seq(Submits)
      /\ version[s] \in Nat /\ version'[s] \in Nat
  BY TypeStep DEF LegacyInv, TypeInv, LegacyTypeOK
<1>2. Begins(commits[s], commits'[s]) /\ version[s] <= version'[s]
  <2>1. CASE commits'[s] = commits[s] /\ version'[s] = version[s] /\ head'[s] = head[s]
    BY <1>1, <2>1 DEF Begins
  <2>2. ASSUME NEW w \in Workers, Appended(w, s)
        PROVE Begins(commits[s], commits'[s]) /\ version[s] <= version'[s]
    <3>1. task[w] \in Submits /\ commits'[s] = Append(commits[s], task[w])
      BY <2>2 DEF Appended, Rows
    <3>2. Begins(commits[s], commits'[s])
      BY <1>1, <3>1, AppendFacts DEF Begins
    <3> QED BY <1>1, <2>2, <3>2 DEF Appended
  <2> QED BY <2>1, <2>2, CommitStep
<1>3. \A e : Contains(commits[s], e) => Contains(commits'[s], e)
  BY <1>1, <1>2 DEF Contains, Begins
<1> QED BY <1>1, <1>2, <1>3

\* What was told stays told.
LEMMA ToldStays ==
  ASSUME LegacyInv, [Next]_vars, NEW s \in Sessions, NEW h \in Seq(Submits), NEW e \in Nat,
         ToldFrom(h, s, e)
  PROVE  ToldFrom(h, s, e)'
<1>1. PICK n \in Nat : e <= n /\ n <= Len(commits[s]) /\ TellsTo(h, commits[s], n)
  BY DEF ToldFrom
<1>2. /\ commits[s] \in Seq(Submits) /\ commits'[s] \in Seq(Submits)
      /\ Begins(commits[s], commits'[s])
  BY CommitsGrow
<1>3. PICK c \in Seq(Submits), d \in Seq(Submits) : c = commits[s] /\ d = commits'[s]
  BY <1>2
<1>4. TellsTo(h, d, n)
  BY <1>1, <1>2, <1>3, TellsLonger
<1>5. n <= Len(d)
  BY <1>1, <1>2, <1>3 DEF Begins
<1>6. n <= Len(commits'[s]) /\ TellsTo(h, commits'[s], n)
  BY <1>3, <1>4, <1>5
<1> QED BY <1>1, <1>6 DEF ToldFrom

\* The object of a commit tells the commits up to its own at the least.
LEMMA CommittedTells ==
  ASSUME LegacyInv, NEW s \in Sessions, NEW k \in 1..Len(commits[s])
  PROVE  /\ stored[commits[s][k]] \in Seq(Submits)
         /\ ToldFrom(stored[commits[s][k]], s, k)
<1>1. PICK c \in Seq(Submits) : c = commits[s] /\ Distinct(c)
  BY SessionTypes
<1>2. PICK j \in Submits : j = c[k]
  BY <1>1
<1>3. /\ j \in Rows /\ job[j].session = s /\ job[j].expected = k - 1 /\ stored[j] # <<>>
      /\ stored[j] \in Seq(Submits)
  BY <1>1, <1>2 DEF LegacyInv, LogInv, TypeInv, LegacyTypeOK
<1>4. PICK h \in Seq(Submits) : stored[j] = Append(h, j) /\ ToldFrom(h, s, k - 1)
  BY <1>2, <1>3 DEF LegacyInv, StoredInv
<1>5. PICK n \in Nat : k - 1 <= n /\ n <= Len(c) /\ TellsTo(h, c, n)
  BY <1>1, <1>4 DEF ToldFrom
<1>6. k \in Nat /\ k <= Len(c) /\ 1 <= k
  BY <1>1
<1>7. CASE k <= n
  <2>1. k \in 1..n
    BY <1>6, <1>7
  <2>2. TellsTo(Append(h, j), c, n)
    BY <1>2, <1>5, <2>1, TellsRepeat
  <2> QED BY <1>1, <1>2, <1>3, <1>4, <1>5, <1>7, <2>2 DEF ToldFrom
<1>8. CASE ~(k <= n)
  <2>1. k = n + 1
    BY <1>5, <1>6, <1>8
  <2>2. TellsTo(Append(h, j), c, n + 1)
    BY <1>1, <1>2, <1>5, <1>6, <2>1, TellsNext
  <2>3. k \in Nat /\ k <= Len(commits[s]) /\ TellsTo(stored[j], commits[s], k)
    BY <1>1, <1>4, <1>6, <2>1, <2>2
  <2> QED BY <1>1, <1>2, <1>3, <1>6, <2>3 DEF ToldFrom
<1> QED BY <1>7, <1>8

\* What a step does to one object.
LEMMA ObjectStep ==
  ASSUME LegacyInv, [Next]_vars, NEW j \in Submits
  PROVE  \/ stored'[j] = stored[j]
         \/ \E w \in Workers : Put(w) /\ task[w] = j /\ stored'[j] = Append(base[w], j)
<1>1. ASSUME NEW w \in Workers, Put(w)
      PROVE  \/ stored'[j] = stored[j]
             \/ Put(w) /\ task[w] = j /\ stored'[j] = Append(base[w], j)
  BY <1>1 DEF Put, LegacyInv, TypeInv, LegacyTypeOK
<1> QED BY <1>1, SessionStep DEF Committed

LEMMA ObjectsStay ==
  ASSUME LegacyInv, [Next]_vars, NEW j \in Submits, stored[j] # <<>>
  PROVE  stored'[j] # <<>>
<1>1. ASSUME NEW w \in Workers, Put(w) PROVE Append(base[w], j) # <<>>
  BY <1>1, JobOfWorker, AppendFacts DEF Put, AtWork
<1> QED BY <1>1, ObjectStep

LEMMA LogStep ==
  ASSUME LegacyInv, [Next]_vars
  PROVE  LogInv'
<1> SUFFICES ASSUME NEW s \in Sessions
             PROVE  /\ version'[s] = Len(commits'[s])
                    /\ version'[s] = 0 => head'[s] = Nothing
                    /\ version'[s] # 0 => head'[s] = commits'[s][version'[s]]
                    /\ \A i \in 1..Len(commits'[s]) :
                         /\ commits'[s][i] \in Rows'
                         /\ job'[commits'[s][i]].session = s
                         /\ job'[commits'[s][i]].expected = i - 1
                         /\ stored'[commits'[s][i]] # <<>>
  BY DEF LogInv
<1>1. /\ version[s] = Len(commits[s]) /\ commits[s] \in Seq(Submits)
      /\ version[s] = 0 => head[s] = Nothing
      /\ version[s] # 0 => head[s] = commits[s][version[s]]
      /\ \A i \in 1..Len(commits[s]) :
           /\ commits[s][i] \in Rows
           /\ job[commits[s][i]].session = s
           /\ job[commits[s][i]].expected = i - 1
           /\ stored[commits[s][i]] # <<>>
  BY SessionTypes DEF LegacyInv, LogInv
<1>2. \A j \in Rows : /\ j \in Rows' /\ job'[j].session = job[j].session
                      /\ job'[j].expected = job[j].expected
  BY RowsStay DEF LegacyInv
<1>3. \A j \in Rows : stored[j] # <<>> => stored'[j] # <<>>
  BY ObjectsStay DEF Rows
<1>4. CASE commits'[s] = commits[s] /\ version'[s] = version[s] /\ head'[s] = head[s]
  BY <1>1, <1>2, <1>3, <1>4
<1>5. ASSUME NEW w \in Workers, Appended(w, s)
      PROVE  /\ version'[s] = Len(commits'[s])
             /\ version'[s] = 0 => head'[s] = Nothing
             /\ version'[s] # 0 => head'[s] = commits'[s][version'[s]]
             /\ \A i \in 1..Len(commits'[s]) :
                  /\ commits'[s][i] \in Rows'
                  /\ job'[commits'[s][i]].session = s
                  /\ job'[commits'[s][i]].expected = i - 1
                  /\ stored'[commits'[s][i]] # <<>>
  <2>1. PICK c \in Seq(Submits), j \in Submits : c = commits[s] /\ j = task[w]
    BY <1>1, <1>5 DEF Appended, Rows
  <2>2. /\ commits'[s] = Append(c, j) /\ j \in Rows
        /\ job[j].session = s /\ job[j].expected = Len(c) /\ stored[j] # <<>>
        /\ version'[s] = Len(c) + 1 /\ head'[s] = j
    BY <1>1, <1>5, <2>1 DEF Appended, SessionOf
  <2>3. /\ Len(Append(c, j)) = Len(c) + 1 /\ Len(c) \in Nat
        /\ \A i \in 1..Len(c) : Append(c, j)[i] = c[i]
        /\ Append(c, j)[Len(c) + 1] = j
        /\ \A i \in 1..(Len(c) + 1) : i \in 1..Len(c) \/ i = Len(c) + 1
    BY AppendFacts
  <2>4. ASSUME NEW i \in 1..(Len(c) + 1)
        PROVE  /\ Append(c, j)[i] \in Rows
               /\ job[Append(c, j)[i]].session = s
               /\ job[Append(c, j)[i]].expected = i - 1
               /\ stored[Append(c, j)[i]] # <<>>
    <3>1. CASE i \in 1..Len(c)
      BY <1>1, <2>1, <2>3, <3>1
    <3>2. CASE i = Len(c) + 1
      <4>1. Append(c, j)[i] = j /\ Len(c) = i - 1
        BY <2>3, <3>2
      <4> QED BY <2>2, <4>1
    <3> QED BY <2>3, <3>1, <3>2
  <2>5. \A i \in 1..Len(commits'[s]) :
          /\ commits'[s][i] \in Rows'
          /\ job'[commits'[s][i]].session = s
          /\ job'[commits'[s][i]].expected = i - 1
          /\ stored'[commits'[s][i]] # <<>>
    BY <1>2, <1>3, <2>2, <2>3, <2>4
  <2> QED BY <2>2, <2>3, <2>5
<1> QED BY <1>4, <1>5, CommitStep

LEMMA SnapshotStep ==
  ASSUME LegacyInv, [Next]_vars
  PROVE  SnapshotInv'
<1>0. TypeInv
  BY DEF LegacyInv
<1>1. \A s \in Sessions : version[s] \in Nat /\ version'[s] \in Nat /\ version[s] <= version'[s]
  BY CommitsGrow
<1>2. ASSUME NEW j \in Rows', job'[j].session # Nothing
      PROVE  job'[j].expected <= version'[job'[j].session]
  <2>1. CASE j \in Rows
    <3>1. /\ job'[j].session = job[j].session /\ job'[j].expected = job[j].expected
          /\ job[j].session \in Sessions /\ job[j].expected \in Nat
          /\ job[j].expected <= version[job[j].session]
      BY <1>0, <1>2, <2>1, RowsStay, RowIsJob DEF TypeInv, Job, LegacyInv, SnapshotInv
    <3> QED BY <1>1, <3>1
  <2>2. CASE j \notin Rows
    <3>1. j \in Submits /\ job'[j] # job[j]
      BY <1>2, <2>2 DEF Rows
    <3>2. Inserted(j)
      <4>1. ASSUME NEW c \in Submits, Inserted(c) PROVE c = j
        BY <1>0, <3>1, <4>1 DEF Inserted, TypeInv, LegacyTypeOK
      <4>2. ASSUME NEW i \in Rows, Rewritten(i) PROVE FALSE
        BY <1>0, <2>2, <3>1, <4>2 DEF Rewritten, TypeInv, LegacyTypeOK
      <4> QED BY <1>0, <3>1, <4>1, <4>2, RowStep
    <3>3. call[j] \in Requests
      BY <1>0, <3>1, <3>2 DEF Inserted, TypeInv, Places
    <3>4. /\ job'[j].session = call[j].session /\ job'[j].expected = call[j].expected
          /\ call[j].session \in Sessions /\ call[j].expected \in Nat
          /\ call[j].expected <= version[call[j].session]
      BY <1>2, <3>1, <3>2, <3>3 DEF Inserted, Requests, LegacyInv, SnapshotInv
    <3> QED BY <1>1, <3>4
  <2> QED BY <2>1, <2>2
<1>3. ASSUME NEW c \in Submits \cup Cancels, pc'[c] = "insert", call'[c].session # Nothing
      PROVE  call'[c].expected <= version'[call'[c].session]
  <2>1. CallMoves(c) /\ call'[c] \in Requests
    BY <1>0, <1>3, CallStep, TypeStep DEF TypeInv, Places
  <2>2. call'[c].expected <= version[call'[c].session]
    BY <1>3, <2>1 DEF CallMoves, LegacyInv, SnapshotInv
  <2> QED BY <1>1, <1>3, <2>1, <2>2 DEF Requests
<1> QED BY <1>2, <1>3 DEF SnapshotInv

LEMMA StoredStep ==
  ASSUME LegacyInv, [Next]_vars
  PROVE  StoredInv'
<1> SUFFICES ASSUME NEW j \in Submits, stored'[j] # <<>>
             PROVE  /\ j \in Rows' /\ job'[j].session # Nothing
                    /\ \E h \in Seq(Submits) :
                         stored'[j] = Append(h, j) /\ ToldFrom(h, job[j].session, job[j].expected)'
  BY DEF StoredInv
<1>1. ASSUME NEW h \in Seq(Submits), j \in Rows, job[j].session # Nothing,
             stored'[j] = Append(h, j), ToldFrom(h, job[j].session, job[j].expected)
      PROVE  /\ j \in Rows' /\ job'[j].session # Nothing
             /\ stored'[j] = Append(h, j) /\ ToldFrom(h, job[j].session, job[j].expected)'
  <2>1. /\ j \in Rows' /\ job'[j].session = job[j].session /\ job'[j].expected = job[j].expected
        /\ job[j].session \in Sessions /\ job[j].expected \in Nat
    BY <1>1, RowsStay, RowIsJob DEF LegacyInv, TypeInv, Job
  <2>2. PICK s \in Sessions, e \in Nat : s = job[j].session /\ e = job[j].expected
    BY <2>1
  <2>3. ToldFrom(h, s, e)'
    BY <1>1, <2>2, ToldStays
  <2>4. job'[j].session = s /\ job'[j].expected = e
    BY <2>1, <2>2
  <2> QED BY <1>1, <2>1, <2>3, <2>4
<1>2. CASE stored'[j] = stored[j]
  <2>1. j \in Rows /\ job[j].session # Nothing
    BY <1>2 DEF LegacyInv, StoredInv
  <2>2. PICK h \in Seq(Submits) :
          stored[j] = Append(h, j) /\ ToldFrom(h, job[j].session, job[j].expected)
    BY <1>2 DEF LegacyInv, StoredInv
  <2> QED BY <1>1, <1>2, <2>1, <2>2
<1>3. ASSUME NEW w \in Workers, Put(w), task[w] = j, stored'[j] = Append(base[w], j)
      PROVE  /\ j \in Rows' /\ job'[j].session # Nothing
             /\ stored'[j] = Append(base[w], j)
             /\ base[w] \in Seq(Submits)
             /\ ToldFrom(base[w], job[j].session, job[j].expected)
  <2>1. j \in Rows /\ base[w] \in Seq(Submits)
    BY <1>3, JobOfWorker DEF Put, AtWork
  <2>2. job[j].session # Nothing /\ ToldFrom(base[w], job[j].session, job[j].expected)
    BY <1>3 DEF Put, LegacyInv, ReadInv, SessionOf
  <2>3. j \in Rows' /\ job'[j].session = job[j].session
    BY <2>1, RowsStay DEF LegacyInv
  <2> QED BY <1>3, <2>1, <2>2, <2>3
<1>4. ASSUME NEW w \in Workers, Put(w), task[w] = j, stored'[j] = Append(base[w], j)
      PROVE  /\ j \in Rows' /\ job'[j].session # Nothing
             /\ \E h \in Seq(Submits) :
                  stored'[j] = Append(h, j) /\ ToldFrom(h, job[j].session, job[j].expected)'
  <2>1. PICK h \in Seq(Submits) : h = base[w]
    BY <1>3, <1>4
  <2>2. j \in Rows /\ job[j].session # Nothing
    BY <1>4, JobOfWorker DEF Put, AtWork, LegacyInv, ReadInv, SessionOf
  <2> QED BY <1>1, <1>3, <1>4, <2>1, <2>2
<1> QED BY <1>2, <1>4, ObjectStep

LEMMA ReadStep ==
  ASSUME LegacyInv, [Next]_vars, NEW w \in Workers
  PROVE  ReadInv(w)'
<1>0. TypeInv /\ ReadInv(w) /\ Moves(w)
  BY WorkerStep DEF LegacyInv
<1>1. CASE at'[w] \in {"idle", "dead"} /\ task'[w] = Nothing /\ path'[w] = Nothing /\ base'[w] = <<>>
  BY <1>1 DEF ReadInv
<1>2. CASE /\ at[w] = "idle" /\ at'[w] = "check" /\ task'[w] \in Rows
           /\ path'[w] = path[w] /\ base'[w] = base[w]
  BY <1>0, <1>2 DEF ReadInv
<1>3. CASE task'[w] = task[w] /\ at[w] \in AtWork
  <2>1. PICK t \in Rows, s \in Sessions \cup {Nothing}, e \in Nat, b \in Seq(Submits) :
          /\ t = task[w] /\ s = SessionOf(w) /\ e = job[t].expected /\ b = base[w]
          /\ t \in Submits /\ (s # Nothing => s \in Sessions)
    BY <1>3, JobOfWorker
  <2>2. task'[w] = t /\ SessionOf(w)' = s /\ job'[t].expected = e
    BY <1>0, <1>3, <2>1, RowsStay DEF SessionOf
  <2>3. ASSUME s # Nothing
        PROVE  /\ commits[s] \in Seq(Submits) /\ commits'[s] \in Seq(Submits)
               /\ Begins(commits[s], commits'[s]) /\ s \in Sessions
               /\ \A x : Contains(commits[s], x) => Contains(commits'[s], x)
               /\ \A h \in Seq(Submits) : ToldFrom(h, s, e) => ToldFrom(h, s, e)'
    BY <2>1, <2>3, CommitsGrow, ToldStays
  <2>4. stored[t] # <<>> => stored'[t] # <<>>
    BY <2>1, ObjectsStay
  <2>5. at[w] \in {"load", "put", "commit"} => s # Nothing
    BY <1>0, <2>1 DEF ReadInv
  <2>6. at[w] \in {"check", "mark", "read"} => b = <<>>
    BY <1>0, <2>1 DEF ReadInv
  <2>7. at[w] \in {"call", "called", "put"} /\ s # Nothing => ToldFrom(b, s, e)'
    BY <1>0, <2>1, <2>3 DEF ReadInv
  <2>8. at[w] = "load" => \E k \in 1..Len(commits[s]) : path[w] = commits[s][k] /\ e <= k
    BY <1>0, <2>1 DEF ReadInv
  <2>9. at[w] = "commit" => stored'[t] # <<>>
    BY <1>0, <2>1, <2>4 DEF ReadInv
  <2>10. at[w] \in {"settle", "publish"} /\ s # Nothing => Contains(commits'[s], t)
    BY <1>0, <2>1, <2>3 DEF ReadInv
  <2>11. CASE at'[w] = at[w] /\ path'[w] = path[w] /\ base'[w] = base[w]
    <3>1. at[w] = "load" => \E k \in 1..Len(commits'[s]) : path'[w] = commits'[s][k] /\ e <= k
      <4>1. SUFFICES ASSUME at[w] = "load"
                     PROVE \E k \in 1..Len(commits'[s]) : path'[w] = commits'[s][k] /\ e <= k
        OBVIOUS
      <4>2. PICK k \in 1..Len(commits[s]) : path[w] = commits[s][k] /\ e <= k
        BY <2>8, <4>1
      <4>3. k \in 1..Len(commits'[s]) /\ commits'[s][k] = commits[s][k]
        BY <2>3, <2>5, <4>1, <4>2 DEF Begins
      <4> QED BY <2>11, <4>2, <4>3
    <3> QED BY <1>3, <2>1, <2>2, <2>5, <2>6, <2>7, <2>9, <2>10, <2>11, <3>1 DEF ReadInv, AtWork, Ends
  <2>12. CASE at[w] = "read" /\ at'[w] = "load" /\ base'[w] = base[w]
              /\ SessionOf(w) # Nothing /\ head[SessionOf(w)] # Nothing /\ path'[w] = head[SessionOf(w)]
    <3>1. s # Nothing /\ s \in Sessions /\ path'[w] = head[s] /\ head[s] # Nothing
      BY <2>1, <2>12
    <3>2. /\ version[s] = Len(commits[s]) /\ version[s] \in Nat
          /\ version[s] # 0 /\ head[s] = commits[s][version[s]] /\ e <= version[s]
      BY <2>1, <3>1, SessionTypes DEF LegacyInv, LogInv, SnapshotInv, SessionOf
    <3>3. PICK k \in 1..Len(commits[s]) : k = version[s]
      BY <3>2
    <3>4. k \in 1..Len(commits'[s]) /\ path'[w] = commits'[s][k] /\ e <= k
      BY <2>3, <3>1, <3>2, <3>3 DEF Begins
    <3> QED BY <2>2, <2>12, <3>1, <3>4 DEF ReadInv
  <2>13. CASE at[w] = "load" /\ at'[w] = "call" /\ path'[w] = Nothing /\ base'[w] = stored[path[w]]
    <3>1. s # Nothing /\ s \in Sessions
      BY <2>1, <2>5, <2>13
    <3>2. PICK k \in 1..Len(commits[s]) : path[w] = commits[s][k] /\ e <= k
      BY <2>8, <2>13
    <3>3. PICK h \in Seq(Submits) : h = base'[w] /\ ToldFrom(h, s, k)
      BY <2>13, <3>1, <3>2, CommittedTells
    <3>4. ToldFrom(h, s, e)
      BY <3>2, <3>3 DEF ToldFrom
    <3>5. ToldFrom(h, s, e)'
      BY <2>3, <3>1, <3>4
    <3> QED BY <2>2, <2>13, <3>1, <3>3, <3>5 DEF ReadInv
  <2>14. CASE path'[w] = path[w] /\ base'[w] = base[w] /\ Onward(w, at'[w])
    <3>1. CASE at'[w] \in Ends
      BY <3>1 DEF ReadInv, Ends
    <3>2. CASE at[w] \in {"check", "mark"} /\ at'[w] \in {"mark", "read"}
      BY <2>1, <2>6, <2>14, <3>2 DEF ReadInv
    <3>3. CASE at[w] = "read" /\ at'[w] = "call" /\ (s = Nothing \/ head[s] = Nothing)
      <4>1. ASSUME s # Nothing PROVE ToldFrom(b, s, e)'
        <5>1. /\ version[s] = Len(commits[s]) /\ version[s] \in Nat /\ s \in Sessions
              /\ e <= version[s] /\ b = <<>>
          BY <2>1, <2>6, <3>3, <4>1, SessionTypes DEF LegacyInv, SnapshotInv, SessionOf
        <5>2. version[s] # 0 => head[s] = commits[s][version[s]] /\ commits[s][version[s]] \in Rows
          BY <5>1 DEF LegacyInv, LogInv
        <5>3. Nothing \notin Rows
          BY NullAssumption DEF Rows
        <5>4. version[s] = 0 /\ e = 0
          BY <2>1, <3>3, <4>1, <5>1, <5>2, <5>3
        <5>5. TellsTo(b, commits[s], 0)
          BY <5>1 DEF TellsTo
        <5>6. ToldFrom(b, s, e)
          BY <5>1, <5>4, <5>5 DEF ToldFrom
        <5> QED BY <2>3, <4>1, <5>6
      <4> QED BY <2>1, <2>2, <2>14, <3>3, <4>1 DEF ReadInv
    <3>4. CASE at[w] \in {"call", "called"} /\ at'[w] \in {"called", "put"} /\ (at'[w] = "put" => s # Nothing)
      BY <2>1, <2>2, <2>7, <2>14, <3>4 DEF ReadInv
    <3>5. CASE at[w] = "called" /\ at'[w] = "settle" /\ s = Nothing
      BY <2>2, <3>5 DEF ReadInv
    <3>6. CASE at[w] = "put" /\ at'[w] = "commit" /\ Put(w)
      <4>1. stored'[t] = Append(b, t)
        BY <1>0, <2>1, <3>6 DEF Put, TypeInv, LegacyTypeOK
      <4>2. stored'[t] # <<>>
        BY <2>1, <4>1, AppendFacts
      <4> QED BY <2>2, <2>5, <3>6, <4>2 DEF ReadInv
    <3>7. CASE at[w] = "commit" /\ at'[w] = "settle" /\ Committed(w)
      <4>1. s # Nothing /\ s \in Sessions
        BY <2>1, <2>5, <3>7
      <4>2. commits'[s] = Append(commits[s], t)
        BY <1>0, <2>1, <3>7, <4>1 DEF Committed, TypeInv, LegacyTypeOK
      <4>3. Contains(commits'[s], t)
        <5>1. PICK c \in Seq(Submits) : c = commits[s]
          BY <2>3, <4>1
        <5>2. Len(c) + 1 \in 1..Len(Append(c, t)) /\ Append(c, t)[Len(c) + 1] = t
          BY <2>1
        <5> QED BY <4>2, <5>1, <5>2 DEF Contains
      <4> QED BY <2>2, <3>7, <4>3 DEF ReadInv
    <3>8. CASE at[w] = "settle" /\ at'[w] = "publish"
      BY <2>2, <2>10, <3>8 DEF ReadInv
    <3> QED BY <2>1, <2>14, <3>1, <3>2, <3>3, <3>4, <3>5, <3>6, <3>7, <3>8 DEF Onward
  <2> QED BY <1>0, <1>1, <1>2, <1>3, <2>11, <2>12, <2>13, <2>14 DEF Moves
<1>4. CASE at'[w] = at[w] /\ at[w] \notin AtWork /\ base'[w] = base[w]
  BY <1>0, <1>4 DEF ReadInv, AtWork
<1> QED BY <1>0, <1>1, <1>2, <1>3, <1>4 DEF Moves, AtWork

LEMMA PublishedStep ==
  ASSUME LegacyInv, [Next]_vars
  PROVE  PublishedInv'
<1> SUFFICES ASSUME NEW j \in Rows', job'[j].status = "succeeded", job'[j].session # Nothing
             PROVE  Contains(commits'[job'[j].session], j)
  BY DEF PublishedInv
<1>0. TypeInv
  BY DEF LegacyInv
<1>1. ASSUME j \in Rows
      PROVE  /\ job'[j].session = job[j].session /\ job[j].session \in Sessions
             /\ Contains(commits[job[j].session], j) => Contains(commits'[job[j].session], j)
  <2>1. job'[j].session = job[j].session /\ job[j].session \in Sessions
    BY <1>0, <1>1, RowsStay, RowIsJob DEF TypeInv, Job
  <2> QED BY <2>1, CommitsGrow
<1>2. CASE UNCHANGED job
  BY <1>1, <1>2 DEF LegacyInv, PublishedInv, Rows
<1>3. ASSUME NEW c \in Submits, Inserted(c) PROVE j # c /\ job'[j] = job[j]
  BY <1>0, <1>3 DEF Inserted, TypeInv, LegacyTypeOK, Rows
<1>4. ASSUME NEW i \in Rows, Rewritten(i), i # j PROVE job'[j] = job[j]
  BY <1>0, <1>4 DEF Rewritten, TypeInv, LegacyTypeOK, Rows
<1>5. CASE job'[j] = job[j]
  BY <1>1, <1>5 DEF LegacyInv, PublishedInv, Rows
<1>6. ASSUME j \in Rows, NEW w \in Workers, at[w] = "publish", task[w] = j
      PROVE  Contains(commits'[job'[j].session], j)
  <2>1. SessionOf(w) = job[j].session /\ job[j].session # Nothing
    BY <1>1, <1>6 DEF SessionOf
  <2>2. Contains(commits[job[j].session], j)
    BY <1>6, <2>1 DEF LegacyInv, ReadInv
  <2> QED BY <1>1, <1>6, <2>2
<1> QED BY <1>0, <1>2, <1>3, <1>4, <1>5, <1>6, RowStep

LEMMA LegacyStep == LegacyInv /\ [Next]_vars => LegacyInv'
<1> SUFFICES ASSUME LegacyInv, [Next]_vars PROVE LegacyInv'
  OBVIOUS
<1>1. TypeInv'
  BY TypeStep DEF LegacyInv
<1> QED BY <1>1, LogStep, SnapshotStep, StoredStep, ReadStep, PublishedStep DEF LegacyInv

LEMMA LegacyInvariance == Spec => []LegacyInv
BY LegacyInit, LegacyStep, PTL DEF Spec

\* The history of a session tells all of its commits.
LEMMA HistoryTells ==
  ASSUME LegacyInv, NEW s \in Sessions
  PROVE  /\ History(s) \in Seq(Submits)
         /\ TellsTo(History(s), commits[s], Len(commits[s]))
<1>1. commits[s] \in Seq(Submits) /\ version[s] \in Nat /\ version[s] = Len(commits[s])
  BY SessionTypes
<1>2. CASE version[s] = 0
  <2>1. History(s) = <<>>
    BY <1>2 DEF LegacyInv, LogInv, History
  <2> QED BY <1>1, <1>2, <2>1 DEF TellsTo
<1>3. CASE version[s] # 0
  <2>1. PICK k \in 1..Len(commits[s]) : k = Len(commits[s])
    BY <1>1, <1>3
  <2>2. head[s] = commits[s][k] /\ commits[s][k] \in Rows
    BY <1>1, <1>3, <2>1 DEF LegacyInv, LogInv
  <2>3. History(s) = stored[commits[s][k]]
    BY <2>2, NullAssumption DEF History, Rows
  <2>4. History(s) \in Seq(Submits) /\ ToldFrom(History(s), s, k)
    BY <2>3, CommittedTells
  <2>5. PICK n \in Nat : k <= n /\ n <= Len(commits[s]) /\ TellsTo(History(s), commits[s], n)
    BY <2>4 DEF ToldFrom
  <2>6. n = Len(commits[s])
    BY <1>1, <2>1, <2>5
  <2> QED BY <2>4, <2>5, <2>6
<1> QED BY <1>2, <1>3

LEMMA KeyStep ==
  ASSUME LegacyInv, OneJobPerKey, [Next]_vars
  PROVE  OneJobPerKey'
<1>0. TypeInv /\ TypeInv'
  BY TypeStep DEF LegacyInv
<1>1. ASSUME NEW c \in Submits, pc'[c] = "answered" PROVE call'[c] \in Rows'
  BY <1>0, <1>1 DEF TypeInv, Places
<1>2. ASSUME NEW i \in Rows', NEW j \in Rows', job'[i].key = job'[j].key PROVE i = j
  <2>1. \A x, y \in Rows : job[x].key = job[y].key => x = y
    BY DEF OneJobPerKey
  <2>2. \A x \in Rows : job'[x].key = job[x].key
    BY <1>0, RowsStay
  <2>3. CASE i \in Rows /\ j \in Rows
    BY <1>2, <2>1, <2>2, <2>3
  <2>4. ASSUME NEW x \in Rows', x \notin Rows
        PROVE  Inserted(x) /\ \A y \in Rows' : y \in Rows \/ y = x
    <3>1. x \in Submits /\ job'[x] # job[x]
      BY <2>4 DEF Rows
    <3>2. ASSUME NEW c \in Submits, Inserted(c)
          PROVE  c = x /\ \A y \in Rows' : y \in Rows \/ y = x
      BY <1>0, <3>1, <3>2 DEF Inserted, TypeInv, LegacyTypeOK, Rows
    <3>3. ASSUME NEW c \in Rows, Rewritten(c) PROVE FALSE
      BY <1>0, <2>4, <3>1, <3>3 DEF Rewritten, TypeInv, LegacyTypeOK
    <3> QED BY <1>0, <3>1, <3>2, <3>3, RowStep
  <2>5. ASSUME NEW x \in Rows', x \notin Rows, NEW y \in Rows, job'[x].key = job'[y].key
        PROVE  FALSE
    <3>1. KeyUnused(call[x].key) /\ job'[x].key = call[x].key
      BY <2>4, <2>5 DEF Inserted
    <3>2. job[y].key = call[x].key
      BY <2>2, <2>5, <3>1
    <3> QED BY <2>5, <3>1, <3>2 DEF KeyUnused, RowsOf
  <2> QED BY <1>2, <2>3, <2>4, <2>5
<1> QED BY <1>1, <1>2 DEF OneJobPerKey

-----------------------------------------------------------------------------
(* Theorems.                                                               *)

\* The history of every session tells what was committed to it.
Told(h, c) == Distinct(c) /\ TellsTo(h, c, Len(c))

SessionsTold ==
  \A s \in Sessions : \E h, c \in Seq(Submits) :
    h = History(s) /\ c = commits[s] /\ Told(h, c)

LEMMA SessionsAreTold == LegacyInv => SessionsTold
<1> SUFFICES ASSUME LegacyInv, NEW s \in Sessions
             PROVE  \E h, c \in Seq(Submits) : h = History(s) /\ c = commits[s] /\ Told(h, c)
  BY DEF SessionsTold
<1> QED BY SessionTypes, HistoryTells DEF Told

\* No turn that a continuation could read leaves the history or changes
\* places with another, however stale the copies of the workers are and
\* though the very object the session names may be written again by a second
\* execution of its job: an execution appends to a history that it read
\* after its job's snapshot, and only the commit of a history that was still
\* the whole one is let through (legacy_worker.py:226, sql/001).
THEOREM TurnsAreKept == Spec => NoTurnIsLost
<1>1. LegacyInv /\ SessionsTold /\ SessionsTold' /\ [Next]_vars =>
        [\A s \in Sessions :
           /\ \A p \in DOMAIN History(s) : Contains(History(s)', History(s)[p])
           /\ \A i, j \in Submits : Before(History(s), i, j) => Before(History(s)', i, j)]_<<head, stored>>
  <2> SUFFICES ASSUME LegacyInv, SessionsTold, SessionsTold', [Next]_vars, NEW s \in Sessions
               PROVE  /\ \A p \in DOMAIN History(s) : Contains(History(s)', History(s)[p])
                      /\ \A i, j \in Submits : Before(History(s), i, j) => Before(History(s)', i, j)
    OBVIOUS
  <2>1. PICK h \in Seq(Submits), c \in Seq(Submits) :
          h = History(s) /\ c = commits[s] /\ Told(h, c)
    BY DEF SessionsTold
  <2>2. PICK g \in Seq(Submits), d \in Seq(Submits) :
          g = History(s)' /\ d = commits'[s] /\ Told(g, d)
    BY DEF SessionsTold
  <2>3. Begins(c, d)
    BY <2>1, <2>2, CommitsGrow
  <2>4. /\ \A p \in DOMAIN h : Contains(g, h[p])
        /\ \A i, j : Before(h, i, j) => Before(g, i, j)
    BY <2>1, <2>2, <2>3, NothingLost DEF Told
  <2> QED BY <2>1, <2>2, <2>4
<1> QED BY <1>1, LegacyInvariance, SessionsAreTold, PTL DEF Spec, NoTurnIsLost

LEMMA CommitsAreTold == LegacyInv => HistoryTellsCommits
<1> SUFFICES ASSUME LegacyInv, NEW s \in Sessions
             PROVE  /\ version[s] = Len(commits[s])
                    /\ \A a, b \in DOMAIN commits[s] : commits[s][a] = commits[s][b] => a = b
                    /\ Tells(History(s), commits[s])
  BY DEF HistoryTellsCommits
<1>1. /\ commits[s] \in Seq(Submits) /\ version[s] = Len(commits[s]) /\ Distinct(commits[s])
  BY SessionTypes
<1>2. Tells(History(s), commits[s])
  BY <1>1, HistoryTells, TellsAll
<1> QED BY <1>1, <1>2 DEF Distinct

LEMMA SuccessIsTold == LegacyInv => SuccessIsInHistory
<1> SUFFICES ASSUME LegacyInv, NEW j \in Rows, job[j].status = "succeeded", job[j].session # Nothing
             PROVE  Contains(History(job[j].session), j)
  BY DEF SuccessIsInHistory
<1>1. PICK s \in Sessions : s = job[j].session
  BY RowIsJob DEF LegacyInv, TypeInv, Job
<1>2. PICK k \in 1..Len(commits[s]) : commits[s][k] = j
  BY <1>1 DEF LegacyInv, PublishedInv, Contains
<1>3. History(s) \in Seq(Submits) /\ TellsTo(History(s), commits[s], Len(commits[s]))
  BY HistoryTells
<1>4. PICK p \in DOMAIN History(s) : History(s)[p] = j
  BY <1>2, <1>3 DEF TellsTo
<1> QED BY <1>1, <1>3, <1>4 DEF Contains

\* A job may run twice, and its worker go on after the lease was lost: its
\* commit is let through once, and the object the session names tells the
\* jobs of the commits and of no refused execution, in their order.
THEOREM CommitsAreOnce == Spec => []HistoryTellsCommits
BY LegacyInvariance, CommitsAreTold, PTL

\* The jobs of the first generation: their types, histories that tell the
\* commits, successes that are in the history, and one job per
\* Idempotency-Key.
THEOREM LegacyJobsAreSafe == Spec => []LegacySafe
<1>1. Init => OneJobPerKey
  BY DEF Init, OneJobPerKey, Rows
<1>2. LegacyInv /\ OneJobPerKey /\ [Next]_vars => OneJobPerKey'
  BY KeyStep
<1>3. LegacyInv /\ OneJobPerKey => LegacySafe
  BY CommitsAreTold, SuccessIsTold DEF LegacyInv, TypeInv, LegacySafe
<1> QED BY <1>1, <1>2, <1>3, LegacyInvariance, PTL DEF Spec

-----------------------------------------------------------------------------
(* Fusion.  What an object or a row holds is never taken back to nothing,  *)
(* so what an execution has written stays written whoever writes over it.  *)

StoringPhases == {"texts", "manifest", "row", "materials", "ready"}
ReadingPhases == {"read_manifest", "read_texts", "call", "insert"}
Phases == StoringPhases \union ReadingPhases \union {"start", "done", "failed"}

Reading == [type : Types, hash : Payloads, manifest : Payloads \union {Absent},
            texts : [Slots -> Payloads \union {Absent, NoText}], version : Nat]

CorpusRow == [hash : Payloads, status : {"building", "ready"}]

CorpusKinds ==
  /\ phase \in [Ingests \union Stages -> Phases] /\ todo \in [Ingests \union Stages -> Slots]
  /\ payload \in [Ingests -> Payloads] /\ view \in [Stages -> Reading \union {Absent}]
  /\ \A s \in Stages : phase[s] \in ReadingPhases => view[s] \in Reading
  /\ corpus \in CorpusRow \union {Absent} /\ manifest \in Payloads \union {Absent}
  /\ texts \in [Slots -> Payloads \union {Absent, NoText}] /\ materials \in [Slots -> Payloads \union {Absent}]
  /\ IsFiniteSet(artifacts) /\ \A a \in artifacts : a.type \in Types /\ a.version \in Nat

\* Before the corpus row there are its objects; a row that is ready has all
\* of its materials.
TextsOf(m) == Payloads \union (IF m \in Referenced THEN {NoText} ELSE {})
Stored == manifest \in Payloads /\ \A m \in Slots : texts[m] \in TextsOf(m)
Readable(t) == t \in Payloads \union {NoText}

CorpusTables ==
  /\ corpus # Absent => Stored
  /\ corpus # Absent /\ corpus.status = "ready" => \A m \in Slots : materials[m] \in Payloads
  /\ \A a \in artifacts : a.hash \in Payloads /\ a.manifest \in Payloads /\ \A m \in Slots : Readable(a.texts[m])

\* An ingest in phase l that is at material k.
IngestLane(l, k) ==
  /\ l = "texts" => \A m \in Slots : m < k => texts[m] \in TextsOf(m)
  /\ l \in {"manifest", "row"} => \A m \in Slots : texts[m] \in TextsOf(m)
  /\ l = "row" => manifest \in Payloads
  /\ l \in {"materials", "ready"} => corpus \in CorpusRow /\ Stored
  /\ l = "materials" => \A m \in Slots : m < k => materials[m] \in Payloads
  /\ l = "ready" => \A m \in Slots : materials[m] \in Payloads

ArtifactsOf(t) == {a \in artifacts : a.type = t}
Count(t) == Cardinality(ArtifactsOf(t))

\* A stage in phase l that is at material k and has read v.  The number it
\* computed may be taken by now, but it is not beyond the next one.
StageLane(l, k, v) ==
  /\ l \in ReadingPhases => Stored
  /\ l \in {"read_texts", "call", "insert"} => v.manifest \in Payloads
  /\ l = "read_texts" => \A m \in Slots : m < k => Readable(v.texts[m])
  /\ l \in {"call", "insert"} => \A m \in Slots : Readable(v.texts[m])
  /\ l = "insert" => v.version >= 1 /\ v.version <= Count(v.type) + 1

Numbered == \A t \in Types : {a.version : a \in ArtifactsOf(t)} = 1..Count(t)

CorpusInv ==
  /\ CorpusKinds /\ CorpusTables /\ Numbered
  /\ \A i \in Ingests : IngestLane(phase[i], todo[i])
  /\ \A s \in Stages : StageLane(phase[s], todo[s], view[s])

LEMMA Counts == CorpusKinds => \A t : IsFiniteSet(ArtifactsOf(t)) /\ Count(t) \in Nat
BY FS_Subset, FS_CardinalityType DEF CorpusKinds, ArtifactsOf, Count

LEMMA SlotFacts == Materials \in Nat \ {0} /\ 1 \in Slots /\ \A k \in Slots : k \in Nat /\ k <= Materials /\ 1 <= k
BY MaterialsAssumption DEF Slots

LEMMA CorpusInvInit == CorpusInit => CorpusInv
<1> SUFFICES ASSUME CorpusInit PROVE CorpusInv
  OBVIOUS
<1>1. artifacts = {} /\ IsFiniteSet(artifacts) /\ corpus = Absent
  BY FS_EmptySet DEF CorpusInit
<1>2. CorpusKinds /\ CorpusTables
  BY <1>1, SlotFacts DEF CorpusInit, CorpusKinds, CorpusTables, Phases, ReadingPhases
<1>3. \A t : ArtifactsOf(t) = {} /\ Count(t) = 0
  BY <1>1, FS_EmptySet DEF ArtifactsOf, Count
<1>4. Numbered
  BY <1>3 DEF Numbered
<1>5. (\A i \in Ingests : IngestLane(phase[i], todo[i])) /\ \A s \in Stages : StageLane(phase[s], todo[s], view[s])
  BY DEF CorpusInit, IngestLane, StageLane, ReadingPhases
<1> QED BY <1>2, <1>4, <1>5 DEF CorpusInv

\* What every step leaves standing.
Standing ==
  /\ manifest \in Payloads => manifest' \in Payloads
  /\ \A m \in Slots : texts[m] \in TextsOf(m) => texts'[m] \in TextsOf(m)
  /\ \A m \in Slots : materials[m] \in Payloads => materials'[m] \in Payloads
  /\ corpus \in CorpusRow => corpus' \in CorpusRow
  /\ \A t : Count(t) \in Nat /\ Count(t)' \in Nat /\ Count(t) <= Count(t)'

LEMMA IngestStands ==
  ASSUME Standing, NEW l, NEW k, IngestLane(l, k)
  PROVE  IngestLane(l, k)'
BY DEF Standing, IngestLane, Stored

LEMMA StageStands ==
  ASSUME Standing, NEW l, NEW k, NEW v, l \in ReadingPhases => v \in Reading, StageLane(l, k, v)
  PROVE  StageLane(l, k, v)'
<1>1. Stored => Stored'
  BY DEF Standing, Stored
<1>2. l = "insert" => v.version \in Nat /\ v.version <= Count(v.type) + 1
  BY DEF StageLane, Reading, ReadingPhases
<1>3. l = "insert" => v.version <= Count(v.type)' + 1
  BY <1>2 DEF Standing
<1> QED BY <1>1, <1>3 DEF StageLane, Readable

\* The others are where they were.
Alone(e) ==
  /\ \A f \in (Ingests \union Stages) \ {e} : phase'[f] = phase[f] /\ todo'[f] = todo[f]
  /\ \A f \in Stages \ {e} : view'[f] = view[f]

LEMMA LanesStand ==
  ASSUME CorpusInv, Standing, NEW e \in Ingests \union Stages, Alone(e),
         NEW l, NEW k, phase'[e] = l, todo'[e] = k,
         e \in Ingests => IngestLane(l, k)',
         NEW v, e \in Stages => view'[e] = v /\ StageLane(l, k, v)'
  PROVE  /\ \A i \in Ingests : IngestLane(phase[i], todo[i])'
         /\ \A s \in Stages : StageLane(phase[s], todo[s], view[s])'
<1>1. ASSUME NEW i \in Ingests PROVE IngestLane(phase[i], todo[i])'
  <2>1. CASE i = e
    BY <2>1
  <2>2. CASE i # e
    <3>1. PICK m, q : m = phase[i] /\ q = todo[i]
      OBVIOUS
    <3>2. phase'[i] = m /\ todo'[i] = q /\ IngestLane(m, q)
      BY <2>2, <3>1 DEF Alone, CorpusInv
    <3>3. IngestLane(m, q)'
      BY <3>2, IngestStands
    <3> QED BY <3>2, <3>3
  <2> QED BY <2>1, <2>2
<1>2. ASSUME NEW s \in Stages PROVE StageLane(phase[s], todo[s], view[s])'
  <2>1. CASE s = e
    BY <2>1
  <2>2. CASE s # e
    <3>1. PICK m, q, w : m = phase[s] /\ q = todo[s] /\ w = view[s]
      OBVIOUS
    <3>2. phase'[s] = m /\ todo'[s] = q /\ view'[s] = w /\ StageLane(m, q, w)
      BY <2>2, <3>1 DEF Alone, CorpusInv
    <3>3. m \in ReadingPhases => w \in Reading
      BY <3>1 DEF CorpusInv, CorpusKinds
    <3>4. StageLane(m, q, w)'
      BY <3>2, <3>3, StageStands
    <3> QED BY <3>2, <3>4
  <2> QED BY <2>1, <2>2
<1> QED BY <1>1, <1>2

\* An execution goes to phase l and material k.
Goes(e, l, k) ==
  /\ phase' = [phase EXCEPT ![e] = l] /\ todo' = [todo EXCEPT ![e] = k]
  /\ l \in Phases /\ k \in Slots

LEMMA EnterGoes ==
  ASSUME CorpusKinds, NEW e \in Ingests \union Stages, NEW l \in Phases, Enter(e, l)
  PROVE  Goes(e, l, 1)
BY SlotFacts DEF Enter, Goes

LEMMA EachGoes ==
  ASSUME CorpusKinds, NEW e \in Ingests \union Stages, NEW l \in Phases, Each(e, l), phase[e] \in Phases
  PROVE  \/ todo[e] < Materials /\ Goes(e, phase[e], todo[e] + 1)
         \/ (\A m \in Slots : m <= todo[e]) /\ Goes(e, l, 1)
<1>1. CASE todo[e] < Materials
  <2>1. todo[e] + 1 \in Slots /\ phase' = [phase EXCEPT ![e] = phase[e]]
    BY <1>1, SlotFacts DEF Each, CorpusKinds, Slots
  <2> QED BY <1>1, <2>1 DEF Each, Goes
<1>2. CASE ~(todo[e] < Materials)
  <2>1. \A m \in Slots : m <= todo[e]
    BY <1>2, SlotFacts DEF CorpusKinds
  <2> QED BY <1>2, <2>1, EnterGoes DEF Each
<1> QED BY <1>1, <1>2

LEMMA Gone ==
  ASSUME CorpusKinds, NEW e \in Ingests \union Stages, NEW l, NEW k, Goes(e, l, k)
  PROVE  /\ phase' \in [Ingests \union Stages -> Phases] /\ todo' \in [Ingests \union Stages -> Slots]
         /\ phase'[e] = l /\ todo'[e] = k
         /\ \A f \in (Ingests \union Stages) \ {e} : phase'[f] = phase[f] /\ todo'[f] = todo[f]
BY DEF Goes, CorpusKinds

\* An ingest: the artifacts and what the stages read stay as they are.
LEMMA IngestGoes ==
  ASSUME CorpusInv, NEW i \in Ingests, NEW l, NEW k, Goes(i, l, k), l \notin ReadingPhases,
         UNCHANGED <<artifacts, payload, view>>, IngestLane(l, k)',
         corpus' \in CorpusRow \union {Absent}, manifest' \in Payloads \union {Absent},
         texts' \in [Slots -> Payloads \union {Absent, NoText}], materials' \in [Slots -> Payloads \union {Absent}],
         manifest \in Payloads => manifest' \in Payloads,
         \A m \in Slots : texts[m] \in TextsOf(m) => texts'[m] \in TextsOf(m),
         \A m \in Slots : materials[m] \in Payloads => materials'[m] \in Payloads,
         corpus \in CorpusRow => corpus' \in CorpusRow,
         corpus' # Absent => Stored',
         corpus' # Absent /\ corpus'.status = "ready" => \A m \in Slots : materials'[m] \in Payloads
  PROVE  CorpusInv'
<1>1. CorpusKinds /\ CorpusTables /\ Numbered
  BY DEF CorpusInv
<1>2. Standing
  <2>1. \A t : Count(t)' = Count(t)
    BY DEF Count, ArtifactsOf
  <2> QED BY <1>1, <2>1, Counts DEF Standing
<1>3. CorpusKinds'
  <2>1. \A s \in Stages : phase'[s] \in ReadingPhases => view'[s] \in Reading
    BY <1>1, Gone DEF CorpusKinds
  <2> QED BY <1>1, <2>1, Gone DEF CorpusKinds
<1>4. CorpusTables' /\ Numbered'
  BY <1>1 DEF CorpusTables, Numbered, Count, ArtifactsOf
<1>5. Alone(i)
  BY <1>1, Gone DEF Alone
<1>6. PICK v : v = view[i]
  OBVIOUS
<1>7. StageLane(l, k, v)'
  BY DEF StageLane, ReadingPhases
<1>8. phase'[i] = l /\ todo'[i] = k /\ view'[i] = v
  BY <1>1, <1>6, Gone
<1> QED BY <1>2, <1>3, <1>4, <1>5, <1>7, <1>8, LanesStand DEF CorpusInv

LEMMA IngestSteps ==
  ASSUME CorpusInv, NEW i \in Ingests,
         \/ LookForCorpus(i) \/ StoreText(i) \/ StoreManifest(i)
         \/ UpsertCorpus(i) \/ UpsertMaterial(i) \/ MarkReady(i)
  PROVE  CorpusInv'
<1>1. /\ CorpusKinds /\ CorpusTables /\ payload[i] \in Payloads /\ i \in Ingests \union Stages
      /\ todo[i] \in Slots /\ IngestLane(phase[i], todo[i]) /\ phase[i] \in Phases
  BY DEF CorpusInv, CorpusKinds
<1>2. {"texts", "manifest", "row", "materials", "ready", "done", "failed"} \subseteq Phases \ ReadingPhases
  BY DEF Phases, ReadingPhases, StoringPhases
<1>3. CASE LookForCorpus(i)
  <2>1. PICK l \in {"texts", "failed", "done"} : Goes(i, l, 1)
    BY <1>1, <1>2, <1>3, EnterGoes DEF LookForCorpus
  <2>2. IngestLane(l, 1)'
    BY SlotFacts DEF IngestLane
  <2>3. Stored => Stored'
    BY <1>3 DEF LookForCorpus, Stored
  <2> QED BY <1>1, <1>2, <1>3, <2>1, <2>2, <2>3, IngestGoes DEF LookForCorpus, CorpusKinds, CorpusTables
<1>4. CASE StoreText(i)
  <2>1. PICK t \in TextsOf(todo[i]) :
          /\ texts' = [texts EXCEPT ![todo[i]] = t] /\ phase[i] = "texts" /\ Each(i, "manifest")
          /\ UNCHANGED <<corpus, manifest, materials, artifacts, payload, view>>
    BY <1>1, <1>4 DEF StoreText, SourceTexts, TextsOf
  <2>2. /\ texts' \in [Slots -> Payloads \union {Absent, NoText}] /\ texts'[todo[i]] \in TextsOf(todo[i])
        /\ \A m \in Slots : texts[m] \in TextsOf(m) => texts'[m] \in TextsOf(m)
    <3>1. TextsOf(todo[i]) \subseteq Payloads \union {Absent, NoText}
      BY DEF TextsOf
    <3> QED BY <1>1, <2>1, <3>1 DEF CorpusKinds
  <2>3. \A m \in Slots : m <= todo[i] => texts'[m] \in TextsOf(m)
    BY <1>1, <2>1, <2>2, SlotFacts DEF IngestLane
  <2>4. Stored => Stored'
    BY <2>1, <2>2 DEF Stored
  <2>5. \A m \in Slots : m < todo[i] + 1 => m <= todo[i]
    BY <1>1, SlotFacts
  <2>6. PICK k : k = todo[i] + 1
    OBVIOUS
  <2>7. IngestLane("texts", k)'
    BY <2>3, <2>5, <2>6 DEF IngestLane
  <2>8. (\A m \in Slots : m <= todo[i]) => IngestLane("manifest", 1)'
    BY <2>3 DEF IngestLane
  <2>9. \/ Goes(i, "texts", k)
        \/ (\A m \in Slots : m <= todo[i]) /\ Goes(i, "manifest", 1)
    BY <1>1, <1>2, <2>1, <2>6, EachGoes
  <2> QED BY <1>1, <1>2, <2>1, <2>2, <2>4, <2>7, <2>8, <2>9, IngestGoes DEF CorpusKinds, CorpusTables
<1>5. CASE StoreManifest(i)
  <2>1. /\ manifest' = payload[i] /\ phase[i] = "manifest" /\ Goes(i, "row", 1)
        /\ UNCHANGED <<corpus, texts, materials, artifacts, payload, view>>
    BY <1>1, <1>2, <1>5, EnterGoes DEF StoreManifest
  <2>2. IngestLane("row", 1)' /\ (Stored => Stored')
    BY <1>1, <2>1 DEF IngestLane, Stored
  <2> QED BY <1>1, <1>2, <2>1, <2>2, IngestGoes DEF CorpusKinds, CorpusTables
<1>6. CASE UpsertCorpus(i)
  <2>1. /\ corpus' = [hash |-> payload[i], status |-> "building"] /\ phase[i] = "row" /\ Goes(i, "materials", 1)
        /\ UNCHANGED <<manifest, texts, materials, artifacts, payload, view>>
    BY <1>1, <1>2, <1>6, EnterGoes DEF UpsertCorpus
  <2>2. corpus' \in CorpusRow /\ corpus'.status # "ready"
    BY <1>1, <2>1 DEF CorpusRow
  <2>3. Stored'
    BY <1>1, <2>1 DEF IngestLane, Stored
  <2>4. IngestLane("materials", 1)'
    BY <2>2, <2>3, SlotFacts DEF IngestLane
  <2> QED BY <1>1, <1>2, <2>1, <2>2, <2>3, <2>4, IngestGoes DEF CorpusKinds
<1>7. CASE UpsertMaterial(i)
  <2>1. /\ materials' = [materials EXCEPT ![todo[i]] = payload[i]] /\ phase[i] = "materials" /\ Each(i, "ready")
        /\ UNCHANGED <<corpus, manifest, texts, artifacts, payload, view>>
    BY <1>7 DEF UpsertMaterial
  <2>2. /\ materials' \in [Slots -> Payloads \union {Absent}] /\ materials'[todo[i]] \in Payloads
        /\ \A m \in Slots : materials[m] \in Payloads => materials'[m] \in Payloads
    BY <1>1, <2>1 DEF CorpusKinds
  <2>3. \A m \in Slots : m <= todo[i] => materials'[m] \in Payloads
    BY <1>1, <2>1, <2>2, SlotFacts DEF IngestLane
  <2>4. corpus \in CorpusRow /\ Stored /\ Stored'
    BY <1>1, <2>1 DEF IngestLane, Stored
  <2>5. \A m \in Slots : m < todo[i] + 1 => m <= todo[i]
    BY <1>1, SlotFacts
  <2>6. PICK k : k = todo[i] + 1
    OBVIOUS
  <2>7. IngestLane("materials", k)'
    BY <2>1, <2>3, <2>4, <2>5, <2>6 DEF IngestLane
  <2>8. (\A m \in Slots : m <= todo[i]) => IngestLane("ready", 1)'
    BY <2>1, <2>3, <2>4 DEF IngestLane
  <2>9. \/ Goes(i, "materials", k)
        \/ (\A m \in Slots : m <= todo[i]) /\ Goes(i, "ready", 1)
    BY <1>1, <1>2, <2>1, <2>6, EachGoes
  <2> QED BY <1>1, <1>2, <2>1, <2>2, <2>4, <2>7, <2>8, <2>9, IngestGoes DEF CorpusKinds, CorpusTables
<1>8. CASE MarkReady(i)
  <2>1. /\ corpus' = [corpus EXCEPT !.status = "ready"] /\ phase[i] = "ready" /\ Goes(i, "done", 1)
        /\ UNCHANGED <<manifest, texts, materials, artifacts, payload, view>>
    BY <1>1, <1>2, <1>8, EnterGoes DEF MarkReady
  <2>2. corpus \in CorpusRow /\ Stored /\ \A m \in Slots : materials[m] \in Payloads
    BY <1>1, <2>1 DEF IngestLane
  <2>3. corpus' \in CorpusRow
    BY <2>1, <2>2 DEF CorpusRow
  <2>4. Stored'
    BY <2>1, <2>2 DEF Stored
  <2>5. IngestLane("done", 1)'
    BY DEF IngestLane
  <2> QED BY <1>1, <1>2, <2>1, <2>2, <2>3, <2>4, <2>5, IngestGoes DEF CorpusKinds
<1> QED BY <1>3, <1>4, <1>5, <1>6, <1>7, <1>8

\* A stage, up to its insert: only what it has read changes.
LEMMA StageGoes ==
  ASSUME CorpusInv, NEW s \in Stages, NEW l, NEW k, Goes(s, l, k), l \notin StoringPhases,
         UNCHANGED <<corpus, manifest, texts, materials, artifacts, payload>>,
         NEW v, view' = [view EXCEPT ![s] = v], v \in Reading \union {Absent},
         l \in ReadingPhases => v \in Reading, StageLane(l, k, v)
  PROVE  CorpusInv'
<1>1. CorpusKinds /\ CorpusTables /\ Numbered
  BY DEF CorpusInv
<1>2. Standing
  <2>1. \A t : Count(t)' = Count(t)
    BY DEF Count, ArtifactsOf
  <2> QED BY <1>1, <2>1, Counts DEF Standing
<1>3. view'[s] = v /\ \A f \in Stages \ {s} : view'[f] = view[f]
  BY <1>1 DEF CorpusKinds
<1>4. CorpusKinds'
  <2>1. view' \in [Stages -> Reading \union {Absent}]
    BY <1>1 DEF CorpusKinds
  <2>2. \A f \in Stages : phase'[f] \in ReadingPhases => view'[f] \in Reading
    BY <1>1, <1>3, Gone DEF CorpusKinds
  <2> QED BY <1>1, <2>1, <2>2, Gone DEF CorpusKinds
<1>5. CorpusTables' /\ Numbered'
  BY <1>1 DEF CorpusTables, Numbered, Count, ArtifactsOf, Stored
<1>6. Alone(s)
  BY <1>1, <1>3, Gone DEF Alone
<1>7. IngestLane(l, k)'
  BY DEF IngestLane, StoringPhases
<1>8. StageLane(l, k, v)'
  BY <1>2, StageStands
<1>9. phase'[s] = l /\ todo'[s] = k
  BY <1>1, Gone
<1> QED BY <1>2, <1>3, <1>4, <1>5, <1>6, <1>7, <1>8, <1>9, LanesStand DEF CorpusInv

LEMMA StageFails ==
  ASSUME CorpusInv, NEW e \in Ingests \union Stages, Enter(e, "failed"),
         UNCHANGED <<corpus, manifest, texts, materials, artifacts, payload, view>>
  PROVE  CorpusInv'
<1>1. CorpusKinds /\ "failed" \in Phases \ (ReadingPhases \union StoringPhases)
  BY DEF CorpusInv, Phases, ReadingPhases, StoringPhases
<1>2. Goes(e, "failed", 1)
  BY <1>1, EnterGoes
<1>3. CASE e \in Ingests
  <2>1. IngestLane("failed", 1)'
    BY DEF IngestLane
  <2>2. CorpusTables' /\ CorpusTables
    BY DEF CorpusInv, CorpusTables, Stored
  <2> QED BY <1>1, <1>2, <1>3, <2>1, <2>2, IngestGoes DEF CorpusKinds, CorpusTables
<1>4. CASE e \in Stages
  <2>1. view' = [view EXCEPT ![e] = view[e]] /\ view[e] \in Reading \union {Absent}
    BY <1>1, <1>4 DEF CorpusKinds
  <2>2. StageLane("failed", 1, view[e])
    BY DEF StageLane, ReadingPhases
  <2> QED BY <1>1, <1>2, <1>4, <2>1, <2>2, StageGoes
<1> QED BY <1>3, <1>4

\* The next number of a type is one more than its artifacts.
LEMMA NextIsCount ==
  ASSUME CorpusKinds, Numbered, NEW t \in Types
  PROVE  NextVersion(t) = Count(t) + 1
<1>1. Count(t) \in Nat
  BY Counts
<1> DEFINE S == {a.version : a \in {b \in artifacts : b.type = t}} \union {0}
<1>2. {a.version : a \in {b \in artifacts : b.type = t}} = 1..Count(t)
  BY DEF Numbered, ArtifactsOf
<1>3. S = 0..Count(t)
  BY <1>1, <1>2
<1> HIDE DEF S
<1>4. Count(t) \in S /\ \A y \in S : Count(t) >= y
  BY <1>1, <1>3
<1>5. \A x \in S : (\A y \in S : x >= y) => x = Count(t)
  BY <1>1, <1>3, <1>4
<1>6. Max(S) = Count(t)
  BY <1>4, <1>5 DEF Max
<1> QED BY <1>6 DEF NextVersion, S

LEMMA StageSteps ==
  ASSUME CorpusInv, NEW s \in Stages, LookUpCorpus(s) \/ ReadManifest(s) \/ ReadText(s) \/ CallModel(s)
  PROVE  CorpusInv'
<1>1. /\ CorpusKinds /\ CorpusTables /\ Numbered /\ s \in Ingests \union Stages /\ phase[s] \in Phases
      /\ StageLane(phase[s], todo[s], view[s]) /\ todo[s] \in Slots
      /\ phase[s] \in ReadingPhases => view[s] \in Reading
  BY DEF CorpusInv, CorpusKinds
<1>2. {"read_manifest", "read_texts", "call", "insert", "failed"} \subseteq Phases \ StoringPhases
  BY DEF Phases, ReadingPhases, StoringPhases
<1>3. CASE Enter(s, "failed") /\ UNCHANGED view
  BY <1>1, <1>3, StageFails DEF LookUpCorpus, ReadManifest, ReadText, CallModel
<1>4. CASE LookUpCorpus(s) /\ ~(Enter(s, "failed") /\ UNCHANGED view)
  <2>1. PICK t \in Types : 
          view' = [view EXCEPT ![s] = [type |-> t, hash |-> corpus.hash, manifest |-> Absent,
                                       texts |-> [m \in Slots |-> Absent], version |-> 0]]
    BY <1>4 DEF LookUpCorpus
  <2>2. corpus # Absent /\ Goes(s, "read_manifest", 1)
    BY <1>1, <1>2, <1>4, EnterGoes DEF LookUpCorpus
  <2>3. PICK v : v = [type |-> t, hash |-> corpus.hash, manifest |-> Absent,
                      texts |-> [m \in Slots |-> Absent], version |-> 0]
    OBVIOUS
  <2>4. corpus.hash \in Payloads /\ Stored
    BY <1>1, <2>2 DEF CorpusKinds, CorpusRow, CorpusTables
  <2>5. v \in Reading
    BY <2>3, <2>4 DEF Reading
  <2>6. StageLane("read_manifest", 1, v)
    BY <2>4 DEF StageLane
  <2> QED BY <1>2, <1>4, <2>1, <2>2, <2>3, <2>5, <2>6, StageGoes DEF LookUpCorpus
<1>5. CASE ReadManifest(s)
  <2>1. phase[s] = "read_manifest" /\ Goes(s, "read_texts", 1)
    BY <1>1, <1>2, <1>5, EnterGoes DEF ReadManifest
  <2>2. view[s] \in Reading /\ Stored
    BY <1>1, <2>1 DEF StageLane, ReadingPhases
  <2>3. PICK v : v = [view[s] EXCEPT !.manifest = manifest]
    OBVIOUS
  <2>4. v \in Reading /\ v.manifest = manifest
    BY <1>1, <2>2, <2>3 DEF Reading, CorpusKinds
  <2>5. view' = [view EXCEPT ![s] = v]
    BY <1>5, <2>3 DEF ReadManifest
  <2>6. StageLane("read_texts", 1, v)
    BY <2>2, <2>4, SlotFacts DEF StageLane, Stored
  <2> QED BY <1>2, <1>5, <2>1, <2>4, <2>5, <2>6, StageGoes DEF ReadManifest
<1>6. CASE ReadText(s)
  <2>1. PICK t \in {texts[todo[s]], NoText} : view' = [view EXCEPT ![s].texts[todo[s]] = t]
    BY <1>6 DEF ReadText
  <2>2. phase[s] = "read_texts" /\ Each(s, "call")
    BY <1>6 DEF ReadText
  <2>3. view[s] \in Reading /\ Stored /\ view[s].manifest \in Payloads
    BY <1>1, <2>2 DEF StageLane, ReadingPhases
  <2>4. t \in Payloads \union {Absent, NoText} /\ Readable(t)
    BY <1>1, <2>1, <2>3 DEF Stored, Readable, CorpusKinds, TextsOf
  <2>5. PICK v : v = [view[s] EXCEPT !.texts[todo[s]] = t]
    OBVIOUS
  <2>6. /\ v \in Reading /\ v.manifest = view[s].manifest
        /\ \A m \in Slots : v.texts[m] = IF m = todo[s] THEN t ELSE view[s].texts[m]
    BY <1>1, <2>3, <2>4, <2>5 DEF Reading
  <2>7. view' = [view EXCEPT ![s] = v]
    BY <2>1, <2>5
  <2>8. \A m \in Slots : m <= todo[s] => Readable(v.texts[m])
    BY <1>1, <2>2, <2>4, <2>6, SlotFacts DEF StageLane
  <2>9. PICK k : k = todo[s] + 1
    OBVIOUS
  <2>10. StageLane("read_texts", k, v)
    <3>1. \A m \in Slots : m < k => m <= todo[s]
      BY <1>1, <2>9, SlotFacts
    <3> QED BY <2>3, <2>6, <2>8, <3>1 DEF StageLane
  <2>11. (\A m \in Slots : m <= todo[s]) => StageLane("call", 1, v)
    BY <2>3, <2>6, <2>8 DEF StageLane
  <2>12. \/ Goes(s, "read_texts", k)
         \/ (\A m \in Slots : m <= todo[s]) /\ Goes(s, "call", 1)
    BY <1>1, <1>2, <2>2, <2>9, EachGoes
  <2> QED BY <1>2, <1>6, <2>6, <2>7, <2>10, <2>11, <2>12, StageGoes DEF ReadText
<1>7. CASE CallModel(s) /\ ~(Enter(s, "failed") /\ UNCHANGED view)
  <2>1. phase[s] = "call" /\ view' = [view EXCEPT ![s].version = NextVersion(view[s].type)] /\ Goes(s, "insert", 1)
    BY <1>1, <1>2, <1>7, EnterGoes DEF CallModel
  <2>2. view[s] \in Reading /\ view[s].type \in Types
    BY <1>1, <2>1 DEF StageLane, ReadingPhases, Reading
  <2>3. PICK n : n = NextVersion(view[s].type)
    OBVIOUS
  <2>4. n = Count(view[s].type) + 1 /\ Count(view[s].type) \in Nat
    BY <1>1, <2>2, <2>3, NextIsCount, Counts
  <2>5. PICK v : v = [view[s] EXCEPT !.version = n]
    OBVIOUS
  <2>6. /\ v \in Reading /\ v.version = n /\ v.type = view[s].type /\ v.manifest = view[s].manifest
        /\ v.texts = view[s].texts
    BY <2>2, <2>4, <2>5 DEF Reading
  <2>7. StageLane("insert", 1, v)
    BY <1>1, <2>1, <2>4, <2>6 DEF StageLane, ReadingPhases
  <2>8. view' = [view EXCEPT ![s] = v]
    BY <2>1, <2>3, <2>5
  <2> QED BY <1>2, <1>7, <2>1, <2>6, <2>7, <2>8, StageGoes DEF CallModel
<1> QED BY <1>3, <1>4, <1>5, <1>6, <1>7

\* A number that is not taken and not beyond the next one is the next one.
LEMMA InsertSteps ==
  ASSUME CorpusInv, NEW s \in Stages, InsertArtifact(s)
  PROVE  CorpusInv'
<1>1. /\ CorpusKinds /\ CorpusTables /\ Numbered /\ s \in Ingests \union Stages /\ phase[s] = "insert"
      /\ StageLane("insert", todo[s], view[s]) /\ view[s] \in Reading
      /\ UNCHANGED <<corpus, manifest, texts, materials, payload, view>>
  BY DEF CorpusInv, CorpusKinds, InsertArtifact, ReadingPhases
<1>2. CASE VersionTaken(view[s].type, view[s].version)
  BY <1>1, <1>2, StageFails DEF InsertArtifact
<1>3. CASE ~VersionTaken(view[s].type, view[s].version)
  <2>1. PICK a : a = [type |-> view[s].type, version |-> view[s].version, of |-> s, hash |-> view[s].hash,
                      manifest |-> view[s].manifest, texts |-> view[s].texts]
    OBVIOUS
  <2>2. artifacts' = artifacts \union {a} /\ Enter(s, "done")
    BY <1>1, <1>3, <2>1 DEF InsertArtifact
  <2>3. PICK t \in Types, n \in Nat : t = view[s].type /\ n = view[s].version
    BY <1>1 DEF Reading
  <2>4. a.type = t /\ a.version = n /\ n >= 1 /\ n <= Count(t) + 1 /\ Count(t) \in Nat /\ a \notin artifacts
    BY <1>1, <1>3, <2>1, <2>3, Counts DEF StageLane, VersionTaken
  <2>5. n = Count(t) + 1
    <3>1. n \notin {b.version : b \in ArtifactsOf(t)}
      BY <1>3, <2>3 DEF VersionTaken, ArtifactsOf
    <3>2. n \notin 1..Count(t)
      BY <1>1, <3>1 DEF Numbered
    <3> QED BY <2>4, <3>2
  <2>6. ArtifactsOf(t)' = ArtifactsOf(t) \union {a} /\ a \notin ArtifactsOf(t)
    BY <2>2, <2>4 DEF ArtifactsOf
  <2>7. Count(t)' = Count(t) + 1
    BY <1>1, <2>6, Counts, FS_AddElement DEF Count
  <2>8. \A u : u # t => ArtifactsOf(u)' = ArtifactsOf(u) /\ Count(u)' = Count(u)
    BY <2>2, <2>4 DEF ArtifactsOf, Count
  <2>9. Numbered'
    <3>1. ASSUME NEW u \in Types PROVE {b.version : b \in ArtifactsOf(u)'} = 1..Count(u)'
      <4>1. CASE u = t
        <5>1. {b.version : b \in ArtifactsOf(t)'} = {b.version : b \in ArtifactsOf(t)} \union {n}
          BY <2>4, <2>6
        <5>2. {b.version : b \in ArtifactsOf(t)} = 1..Count(t)
          BY <1>1 DEF Numbered
        <5>3. 1..Count(t) \union {Count(t) + 1} = 1..(Count(t) + 1)
          BY <2>4
        <5> QED BY <2>5, <2>7, <4>1, <5>1, <5>2, <5>3
      <4>2. CASE u # t
        BY <1>1, <2>8, <4>2 DEF Numbered
      <4> QED BY <4>1, <4>2
    <3> QED BY <3>1 DEF Numbered
  <2>10. Standing
    <3>1. \A u : Count(u) \in Nat /\ Count(u)' \in Nat /\ Count(u) <= Count(u)'
      BY <1>1, <2>4, <2>7, <2>8, Counts
    <3> QED BY <1>1, <3>1 DEF Standing
  <2>11. Goes(s, "done", 1)
    BY <1>1, <2>2, EnterGoes DEF Phases
  <2>12. CorpusKinds'
    <3>1. IsFiniteSet(artifacts') /\ \A b \in artifacts' : b.type \in Types /\ b.version \in Nat
      BY <1>1, <2>2, <2>3, <2>4, FS_AddElement DEF CorpusKinds
    <3>2. \A f \in Stages : phase'[f] \in ReadingPhases => view'[f] \in Reading
      BY <1>1, <2>11, Gone DEF CorpusKinds, ReadingPhases
    <3> QED BY <1>1, <2>11, <3>1, <3>2, Gone DEF CorpusKinds
  <2>13. CorpusTables'
    <3>1. a.hash \in Payloads /\ a.manifest \in Payloads /\ \A m \in Slots : Readable(a.texts[m])
      BY <1>1, <2>1 DEF StageLane, Reading
    <3> QED BY <1>1, <2>2, <3>1 DEF CorpusTables, Stored
  <2>14. Alone(s)
    BY <1>1, <2>11, Gone DEF Alone
  <2>15. PICK v : v = view[s]
    OBVIOUS
  <2>16. IngestLane("done", 1)' /\ StageLane("done", 1, v)'
    BY DEF IngestLane, StageLane, ReadingPhases
  <2>17. phase'[s] = "done" /\ todo'[s] = 1 /\ view'[s] = v
    BY <1>1, <2>11, <2>15, Gone
  <2> QED BY <2>9, <2>10, <2>12, <2>13, <2>14, <2>16, <2>17, LanesStand DEF CorpusInv
<1> QED BY <1>2, <1>3

LEMMA CorpusInvStep == CorpusInv /\ [CorpusNext]_corpusVars => CorpusInv'
<1> SUFFICES ASSUME CorpusInv, [CorpusNext]_corpusVars PROVE CorpusInv'
  OBVIOUS
<1>1. CASE UNCHANGED corpusVars
  BY <1>1 DEF corpusVars, CorpusInv, CorpusKinds, CorpusTables, Stored, Numbered, Count, ArtifactsOf, IngestLane,
              StageLane
<1>2. ASSUME NEW e \in Ingests \union Stages, Fail(e) PROVE CorpusInv'
  BY <1>2, StageFails DEF Fail
<1> QED BY <1>1, <1>2, IngestSteps, StageSteps, InsertSteps DEF CorpusNext

LEMMA CorpusInvAlways == CorpusSpec => []CorpusInv
BY CorpusInvInit, CorpusInvStep, PTL DEF CorpusSpec

\* Executions of one corpus id store one content, as all runs of one job do.
OneContent == \A p, q \in Payloads : p = q

\* The artifacts of a type are numbered without gaps and repetitions, however
\* many stages compute the same next number (next_fusion_artifact_version and
\* the unique index on the versions).
THEOREM ArtifactsAreNumbered == CorpusSpec => []VersionsAreDense
<1>1. CorpusInv => VersionsAreDense
  BY DEF CorpusInv, Numbered, ArtifactsOf, Count, VersionsAreDense
<1> QED BY <1>1, CorpusInvAlways, PTL

\* As long as every execution of a corpus id stores the same content, a ready
\* corpus is whole and every artifact was made from the content it names, for
\* any number of ingests and stages that overlap or die (_ingest_corpus,
\* _execute_model_stage).
THEOREM CorporaAreSafe == CorpusSpec => [](OneContent => CorpusSafe)
<1>1. CorpusInv /\ OneContent => CorpusSafe
  <2> SUFFICES ASSUME CorpusInv, OneContent PROVE CorpusSafe
    OBVIOUS
  <2>1. ArtifactsAreOfOneCorpus
    BY DEF CorpusInv, CorpusTables, OneContent, ArtifactsAreOfOneCorpus, Readable
  <2>2. ReadyIsWhole
    <3> SUFFICES ASSUME corpus # Absent, corpus.status = "ready", NEW m \in Slots
                 PROVE  /\ manifest = corpus.hash /\ materials[m] = corpus.hash
                        /\ texts[m] = corpus.hash \/ (m \in Referenced /\ texts[m] = NoText)
      BY SlotFacts DEF ReadyIsWhole
    <3>1. corpus.hash \in Payloads /\ manifest \in Payloads /\ materials[m] \in Payloads
      BY DEF CorpusInv, CorpusTables, CorpusKinds, CorpusRow, Stored
    <3>2. texts[m] \in Payloads \/ (m \in Referenced /\ texts[m] = NoText)
      BY DEF CorpusInv, CorpusTables, Stored, TextsOf
    <3> QED BY <3>1, <3>2 DEF OneContent
  <2>3. VersionsAreDense
    BY DEF CorpusInv, Numbered, ArtifactsOf, Count, VersionsAreDense
  <2> QED BY <2>1, <2>2, <2>3 DEF CorpusSafe
<1> QED BY <1>1, CorpusInvAlways, PTL
=============================================================================
