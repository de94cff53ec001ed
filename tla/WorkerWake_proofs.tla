-------------------------- MODULE WorkerWake_proofs --------------------------
(***************************************************************************)
(* Proofs about the sleeping worker: for any number of requests, any clocks *)
(* and any faults, at most one lost delivery for the last theorem.         *)
(***************************************************************************)
EXTENDS WorkerWake, TLAPS

USE DEF apiVars, jobVars, workerVars, flagVars

-----------------------------------------------------------------------------
(* Types, and the time a call may take.                                    *)

TypeInv ==
  /\ WakeTypeOK
  /\ setting \in Settings
  /\ faults \in [Fault -> Nat]
  /\ \A f \in Fault : faults[f] <= setting.most[f]
  /\ pc \in {"claim", "empty", "guard", "sleepy"} => left <= Rpc

LEMMA Clocks ==
  ASSUME setting \in Settings
  PROVE  /\ Grace \in Nat /\ Grace > 0 /\ Interval \in Nat /\ Interval > 0
         /\ Poll \in Nat /\ Poll > 0 /\ Lease \in Nat /\ Rpc \in Nat /\ Rpc > 0 /\ Send \in Nat
         /\ \A f \in Fault : setting.most[f] \in Nat
         /\ None \notin Request
<1>1. PICK s \in Settings : s = setting
  OBVIOUS
<1>2. /\ {s.grace, s.interval, s.poll, s.lease, s.rpc, s.send} \subseteq Nat \ {0}
      /\ s.most \in [Fault -> Nat] /\ None \notin Request
  BY <1>1, WakeAssumption
<1> QED BY <1>1, <1>2 DEF Grace, Interval, Poll, Lease, Rpc, Send

LEMMA Counts ==
  ASSUME TypeInv, NEW f \in Fault, Count(f)
  PROVE  /\ faults' \in [Fault -> Nat]
         /\ \A g \in Fault : faults'[g] <= setting.most[g]
         /\ faults'[f] = faults[f] + 1 /\ faults[f] < setting.most[f]
         /\ \A g \in Fault \ {f} : faults'[g] = faults[g]
BY Clocks DEF TypeInv, Count

LEMMA SettingStays == [Next]_vars => setting' = setting
BY DEF vars, Next, WorkerStep, StartRequest, Enqueue, CompleteRequest, RaiseRequest, Notify, Deliver,
       AttemptFails, Ask, ClaimJob, ClaimNothing, LoopOn, TakeJob, Guard, FallAsleep, Awake,
       EndWait, FinishJob, CallRaises, RequestStop, DisableFollow, Crash, Restart, Tick

LEMMA TypeInit == Init => TypeInv
<1> SUFFICES ASSUME Init PROVE TypeInv
  OBVIOUS
<1>1. setting \in Settings
  BY DEF Init
<1>2. follow \in BOOLEAN /\ event \in BOOLEAN /\ stopping \in BOOLEAN /\ control \in BOOLEAN
  BY DEF Init
<1> QED BY <1>1, <1>2, Clocks DEF Init, TypeInv, WakeTypeOK, Fault

\* The clocks and names of a step are those of the state before.
LEMMA ClocksStay ==
  ASSUME [Next]_vars
  PROVE  /\ setting' = setting /\ Grace' = Grace /\ Interval' = Interval /\ Poll' = Poll
         /\ Lease' = Lease /\ Rpc' = Rpc /\ Send' = Send
BY SettingStays DEF Grace, Interval, Poll, Lease, Rpc, Send

LEMMA NotifyType ==
  ASSUME TypeInv, NEW s \in Signal, Notify(s)
  PROVE  /\ quiet' \in 0..Interval /\ signal' \in [Signal -> 0..2] /\ age' \in [Signal -> 0..Send]
         /\ \/ quiet > 0 /\ quiet' = quiet /\ signal' = signal
            \/ quiet = 0 /\ signal'[s] = 2
BY Clocks DEF TypeInv, WakeTypeOK, Notify

LEMMA TypeStep == TypeInv /\ [Next]_vars => TypeInv'
<1> SUFFICES ASSUME TypeInv, [Next]_vars PROVE TypeInv'
  OBVIOUS
<1> USE DEF TypeInv, WakeTypeOK
<1>1. /\ Grace \in Nat /\ Interval \in Nat /\ Poll \in Nat /\ Lease \in Nat
      /\ Rpc \in Nat /\ Rpc > 0 /\ Send \in Nat /\ Poll > 0
  BY Clocks
<1>2. /\ setting' = setting /\ Grace' = Grace /\ Interval' = Interval
      /\ Lease' = Lease /\ Rpc' = Rpc /\ Send' = Send
  BY ClocksStay
<1>3. ASSUME NEW r \in Request, StartRequest(r) \/ CompleteRequest(r) PROVE TypeInv'
  <2>1. PICK s \in Signal : Notify(s)
    BY <1>3 DEF StartRequest, CompleteRequest, Signal
  <2>2. quiet' \in 0..Interval /\ signal' \in [Signal -> 0..2] /\ age' \in [Signal -> 0..Send]
    BY <2>1, NotifyType
  <2> QED BY <1>2, <1>3, <2>2 DEF StartRequest, CompleteRequest
<1>4. ASSUME NEW r \in Request, Enqueue(r) PROVE TypeInv'
  BY <1>2, <1>4 DEF Enqueue
<1>5. ASSUME NEW r \in Request, RaiseRequest(r) PROVE TypeInv'
  <2>1. faults' \in [Fault -> Nat] /\ \A g \in Fault : faults'[g] <= setting.most[g]
    BY <1>5, Counts DEF RaiseRequest, Fault
  <2> QED BY <1>2, <1>5, <2>1 DEF RaiseRequest
<1>6. ASSUME NEW s \in Signal, Deliver(s) PROVE TypeInv'
  <2>1. follow' \in BOOLEAN /\ event' \in BOOLEAN /\ stopping' \in BOOLEAN /\ control' \in BOOLEAN
    BY <1>6, Zenon DEF Deliver
  <2> QED BY <1>1, <1>2, <1>6, <2>1 DEF Deliver
<1>7. ASSUME NEW s \in Signal, AttemptFails(s) PROVE TypeInv'
  <2>1. faults' \in [Fault -> Nat] /\ \A g \in Fault : faults'[g] <= setting.most[g]
    <3>1. CASE Count("lost")
      BY <3>1, Counts DEF Fault
    <3>2. CASE UNCHANGED faults
      BY <3>2
    <3> QED BY <1>7, <3>1, <3>2 DEF AttemptFails
  <2>2. signal' \in [Signal -> 0..2] /\ age' \in [Signal -> 0..Send]
    BY <1>1, <1>7 DEF AttemptFails
  <2> QED BY <1>2, <1>7, <2>1, <2>2 DEF AttemptFails
<1>8. CASE Ask \/ ClaimNothing \/ TakeJob \/ Awake \/ EndWait
  BY <1>1, <1>2, <1>8 DEF Ask, ClaimNothing, TakeJob, Awake, EndWait
<1>9. ASSUME NEW r \in Request, ClaimJob(r) PROVE TypeInv'
  BY <1>1, <1>2, <1>9 DEF ClaimJob
<1>10. CASE LoopOn
  BY <1>1, <1>2, <1>10 DEF LoopOn
<1>11. CASE Guard \/ FallAsleep
  <2>1. follow' \in BOOLEAN /\ event' \in BOOLEAN /\ stopping' \in BOOLEAN /\ control' \in BOOLEAN
    BY <1>11, Zenon DEF Guard, FallAsleep
  <2> QED BY <1>1, <1>2, <1>11, <2>1 DEF Guard, FallAsleep, Wait
<1>12. CASE FinishJob
  BY <1>1, <1>2, <1>12 DEF FinishJob
<1>13. CASE CallRaises \/ Crash
  <2>1. faults' \in [Fault -> Nat] /\ \A g \in Fault : faults'[g] <= setting.most[g]
    BY <1>13, Counts DEF CallRaises, Crash, Fault
  <2> QED BY <1>1, <1>2, <1>13, <2>1 DEF CallRaises, Crash, Wait
<1>14. CASE RequestStop \/ DisableFollow
  <2>1. faults' \in [Fault -> Nat] /\ \A g \in Fault : faults'[g] <= setting.most[g]
    BY <1>14, Counts DEF RequestStop, DisableFollow, Fault
  <2>2. follow' \in BOOLEAN /\ event' \in BOOLEAN /\ stopping' \in BOOLEAN /\ control' \in BOOLEAN
    BY <1>14, Zenon DEF RequestStop, DisableFollow
  <2> QED BY <1>1, <1>2, <1>14, <2>1, <2>2 DEF RequestStop, DisableFollow
<1>15. CASE Restart
  <2>1. follow' \in BOOLEAN /\ event' \in BOOLEAN /\ stopping' \in BOOLEAN /\ control' \in BOOLEAN
    BY <1>15, Zenon DEF Restart
  <2> QED BY <1>1, <1>2, <1>15, <2>1 DEF Restart
<1>16. CASE Tick
  <2>1. /\ left' \in Nat /\ left' <= left /\ quiet' \in 0..Interval /\ active' \in 0..Grace
    BY <1>1, <1>16 DEF Tick, Less
  <2>2. age' \in [Signal -> 0..Send] /\ lease' \in [Request -> 0..Lease]
    BY <1>1, <1>16 DEF Tick, Less
  <2> QED BY <1>1, <1>2, <1>16, <2>1, <2>2 DEF Tick
<1>17. CASE UNCHANGED vars
  BY <1>2, <1>17 DEF vars
<1> QED BY <1>3, <1>4, <1>5, <1>6, <1>7, <1>8, <1>9, <1>10, <1>11, <1>12, <1>13, <1>14, <1>15,
           <1>16, <1>17 DEF Next, WorkerStep

-----------------------------------------------------------------------------
(* When the worker sleeps.                                                 *)

SleepInv ==
  /\ pc \in {"sleepy", "asleep"} => \A r \in Request : job[r] # "leased"
  /\ ~control => stopping \/ ~follow
  /\ pc = "asleep" => event \/ (follow /\ active = 0)

LEMMA SleepInit == Init => SleepInv
BY DEF Init, SleepInv

LEMMA SleepStep == TypeInv /\ SleepInv /\ [Next]_vars => SleepInv'
<1> SUFFICES ASSUME TypeInv, SleepInv, [Next]_vars PROVE SleepInv'
  OBVIOUS
<1>1. ASSUME NEW r \in Request, StartRequest(r) \/ Enqueue(r) \/ CompleteRequest(r) \/ RaiseRequest(r)
      PROVE  SleepInv'
  <2>1. UNCHANGED workerVars /\ UNCHANGED flagVars
    BY <1>1 DEF StartRequest, Enqueue, CompleteRequest, RaiseRequest
  <2>2. \A q \in Request : job'[q] = "leased" => job[q] = "leased"
    BY <1>1 DEF StartRequest, Enqueue, CompleteRequest, RaiseRequest, TypeInv, WakeTypeOK
  <2> QED BY <2>1, <2>2 DEF SleepInv
<1>2. ASSUME NEW s \in Signal, Deliver(s) PROVE SleepInv'
  BY <1>2 DEF Deliver, SleepInv
<1>3. ASSUME NEW s \in Signal, AttemptFails(s) PROVE SleepInv'
  BY <1>3 DEF AttemptFails, SleepInv
<1>4. CASE Ask \/ ClaimNothing \/ LoopOn \/ TakeJob \/ Awake \/ EndWait
  BY <1>4 DEF Ask, ClaimNothing, LoopOn, TakeJob, Awake, EndWait, SleepInv
<1>5. CASE (\E r \in Request : ClaimJob(r)) \/ FinishJob
  BY <1>5 DEF ClaimJob, FinishJob, SleepInv
<1>6. CASE Guard \/ FallAsleep
  BY <1>6 DEF Guard, FallAsleep, Wait, Drowsy, SleepInv
<1>7. CASE CallRaises \/ Crash \/ RequestStop \/ DisableFollow \/ Restart
  BY <1>7 DEF CallRaises, Crash, RequestStop, DisableFollow, Restart, Wait, SleepInv
<1>8. CASE Tick
  BY <1>8 DEF Tick, Less, SleepInv
<1>9. CASE UNCHANGED vars
  BY <1>9 DEF vars, SleepInv
<1> QED BY <1>1, <1>2, <1>3, <1>4, <1>5, <1>6, <1>7, <1>8, <1>9 DEF Next, WorkerStep

\* The loop keeps its types, never sleeps over a lease, and is awake without
\* a control server.
THEOREM WorkerSleepsSafely == Spec => []WakeSafe
<1>1. Init => TypeInv /\ SleepInv
  BY TypeInit, SleepInit
<1>2. TypeInv /\ SleepInv /\ [Next]_vars => (TypeInv /\ SleepInv)'
  BY TypeStep, SleepStep
<1>3. TypeInv /\ SleepInv => WakeSafe
  BY DEF TypeInv, SleepInv, WakeSafe, SleepIsDrained, DeafIsAwake
<1> QED BY <1>1, <1>2, <1>3, PTL DEF Spec

-----------------------------------------------------------------------------
(* Nothing is left behind.                                                 *)

\* The deployments and behaviours NoStrandedJob speaks of, while the worker
\* can hear.
Hears ==
  /\ setting.most["lost"] <= 1
  /\ Grace >= Interval + Rpc
  /\ faults["raised"] = 0
  /\ follow /\ ~stopping
  /\ pc \notin {"down", "drained"}

\* A signal that will be heard: it can be lost no more.
Pending ==
  \E s \in Signal : signal[s] = 2 \/ (signal[s] = 1 /\ faults["lost"] >= 1)

Waiting ==
  /\ \A r \in Request : req[r] # "open"
  /\ \E r \in Request : job[r] = "queued"

\* The notifier is silent only so soon after a signal was heard that the
\* active window outlasts its silence.
HeardInv == Hears /\ ~Pending /\ quiet > 0 => active >= Grace - Interval + quiet

\* A worker that is about to decide on sleep while a job waits will find that
\* its active window is open when the calls it makes have returned.
AwakeInv ==
  Hears /\ ~Pending /\ Waiting =>
    /\ pc \in {"empty", "guard", "sleepy"} => active > left
    /\ pc = "asleep" => event

WakeInv == TypeInv /\ SleepInv /\ HeardInv /\ AwakeInv

LEMMA WakeInit == Init => WakeInv
<1>1. Init => HeardInv /\ AwakeInv
  BY DEF Init, HeardInv, AwakeInv
<1> QED BY <1>1, TypeInit, SleepInit DEF WakeInv

\* A signal that is sent is pending; one that is not sent finds the window of
\* an earlier one open.
LEMMA HeardNotify ==
  ASSUME WakeInv, NEW s \in Signal, Notify(s), setting' = setting, UNCHANGED faults,
         UNCHANGED workerVars, UNCHANGED flagVars
  PROVE  /\ HeardInv'
         /\ ~Pending' => ~Pending /\ quiet > 0
         /\ Hears' => Hears
<1>1. \/ quiet > 0 /\ quiet' = quiet /\ signal' = signal
      \/ quiet = 0 /\ signal'[s] = 2
  BY NotifyType DEF WakeInv
<1>2. Hears' => Hears
  BY DEF Hears, Grace, Interval, Rpc
<1>3. CASE quiet > 0 /\ quiet' = quiet /\ signal' = signal
  <2>1. Pending' <=> Pending
    BY <1>3 DEF Pending
  <2>2. HeardInv'
    BY <1>2, <1>3, <2>1 DEF WakeInv, HeardInv, Grace, Interval
  <2> QED BY <1>2, <1>3, <2>1, <2>2
<1>4. CASE quiet = 0 /\ signal'[s] = 2
  <2>1. Pending'
    BY <1>4 DEF Pending
  <2> QED BY <1>2, <2>1 DEF HeardInv
<1> QED BY <1>1, <1>3, <1>4

LEMMA WakeStarts ==
  ASSUME WakeInv, [Next]_vars, NEW r \in Request, StartRequest(r)
  PROVE  HeardInv' /\ AwakeInv'
<1>1. req'[r] = "open"
  BY DEF StartRequest, WakeInv, TypeInv, WakeTypeOK
<1>2. Notify(<<r, "start">>) /\ <<r, "start">> \in Signal
  BY DEF StartRequest, Signal
<1>3. HeardInv'
  BY <1>2, HeardNotify DEF StartRequest
<1> QED BY <1>1, <1>3 DEF AwakeInv, Waiting

LEMMA WakeCompletes ==
  ASSUME WakeInv, [Next]_vars, NEW r \in Request, CompleteRequest(r)
  PROVE  HeardInv' /\ AwakeInv'
<1>1. Notify(<<r, "complete">>) /\ <<r, "complete">> \in Signal
  BY DEF CompleteRequest, Signal
<1>2. /\ setting' = setting /\ UNCHANGED faults /\ UNCHANGED workerVars /\ UNCHANGED flagVars
  BY DEF CompleteRequest
<1>3. HeardInv' /\ (~Pending' => ~Pending /\ quiet > 0) /\ (Hears' => Hears)
  BY <1>1, <1>2, HeardNotify
<1>4. ASSUME Hears', ~Pending' PROVE active' > left' \/ pc' \notin {"empty", "guard", "sleepy"}
  <2>1. Hears /\ ~Pending /\ quiet > 0
    BY <1>3, <1>4
  <2>2. /\ Grace \in Nat /\ Interval \in Nat /\ Rpc \in Nat /\ active \in Nat /\ quiet \in Nat /\ left \in Nat
        /\ pc \in {"empty", "guard", "sleepy"} => left <= Rpc
    BY Clocks DEF WakeInv, TypeInv, WakeTypeOK
  <2>3. active >= Grace - Interval + quiet /\ Grace >= Interval + Rpc
    BY <2>1 DEF WakeInv, HeardInv, Hears
  <2> QED BY <1>2, <2>1, <2>2, <2>3
<1>5. ASSUME Hears', ~Pending', pc' = "asleep" PROVE event'
  <2>1. Hears /\ ~Pending /\ quiet > 0 /\ pc = "asleep"
    BY <1>2, <1>3, <1>5
  <2>2. /\ Grace \in Nat /\ Interval \in Nat /\ Rpc \in Nat /\ active \in Nat /\ quiet \in Nat
    BY Clocks DEF WakeInv, TypeInv, WakeTypeOK
  <2>3. active >= Grace - Interval + quiet /\ Grace >= Interval + Rpc
    BY <2>1 DEF WakeInv, HeardInv, Hears
  <2>4. active # 0
    BY <2>1, <2>2, <2>3
  <2>5. event
    BY <2>1, <2>4 DEF WakeInv, SleepInv
  <2> QED BY <1>2, <2>5
<1> QED BY <1>3, <1>4, <1>5 DEF AwakeInv

LEMMA WakeDelivers ==
  ASSUME WakeInv, [Next]_vars, NEW s \in Signal, Deliver(s)
  PROVE  HeardInv' /\ AwakeInv'
<1>1. /\ Grace \in Nat /\ Interval \in Nat /\ Interval > 0 /\ Rpc \in Nat /\ quiet \in 0..Interval /\ left \in Nat
      /\ pc \in {"empty", "guard", "sleepy"} => left <= Rpc
  BY Clocks DEF WakeInv, TypeInv, WakeTypeOK
<1>2. UNCHANGED <<setting, quiet, pc, left, follow, stopping, faults>>
  BY DEF Deliver
<1>3. Hears' => active' = Grace /\ event' /\ Grace >= Interval + Rpc
  BY <1>2 DEF Deliver, Hears, Grace, Interval, Rpc
<1>4. Grace' = Grace /\ Interval' = Interval
  BY ClocksStay
<1>5. HeardInv'
  BY <1>1, <1>2, <1>3, <1>4 DEF HeardInv
<1>6. AwakeInv'
  BY <1>1, <1>2, <1>3 DEF AwakeInv
<1> QED BY <1>5, <1>6

\* The one delivery that may be lost leaves the signals it does not touch, or
\* its own second attempt, certain to arrive.
LEMMA WakeFails ==
  ASSUME WakeInv, [Next]_vars, NEW s \in Signal, AttemptFails(s)
  PROVE  HeardInv' /\ AwakeInv'
<1>1. /\ UNCHANGED <<setting, req, quiet, jobVars, workerVars, flagVars>>
      /\ signal' = [signal EXCEPT ![s] = @ - 1] /\ signal[s] > 0
      /\ IF control /\ pc \notin {"down", "drained"} THEN Count("lost") ELSE UNCHANGED faults
  BY DEF AttemptFails
<1>2. SUFFICES ASSUME Hears' PROVE Hears /\ (~Pending' => ~Pending)
  BY <1>1, ClocksStay DEF WakeInv, HeardInv, AwakeInv, Waiting, Hears
<1>3. control /\ pc \notin {"down", "drained"}
  BY <1>1, <1>2 DEF Hears, WakeInv, SleepInv
<1>4. /\ faults \in [Fault -> Nat] /\ faults'["lost"] = faults["lost"] + 1
      /\ faults["lost"] < setting.most["lost"] /\ faults'["raised"] = faults["raised"]
      /\ setting.most["lost"] \in Nat
  BY <1>1, <1>3, Counts, Clocks DEF WakeInv, TypeInv, Fault
<1>5. Hears
  BY <1>1, <1>2, <1>4, ClocksStay DEF Hears
<1>6. faults["lost"] = 0 /\ faults'["lost"] = 1
  BY <1>4, <1>5 DEF Hears, Fault
<1>7. signal \in [Signal -> 0..2]
  BY DEF WakeInv, TypeInv, WakeTypeOK
<1>8. Pending => Pending'
  <2> SUFFICES ASSUME NEW t \in Signal, signal[t] = 2 PROVE Pending'
    BY <1>6 DEF Pending
  <2>1. CASE t = s
    <3>1. signal'[s] = 1
      BY <1>1, <1>7, <2>1
    <3> QED BY <1>6, <3>1 DEF Pending
  <2>2. CASE t # s
    <3>1. signal'[t] = 2
      BY <1>1, <1>7, <2>2
    <3> QED BY <3>1 DEF Pending
  <2> QED BY <2>1, <2>2
<1> QED BY <1>5, <1>8

\* A step of the loop that does not decide on sleep: no signal, no window and
\* no request moves.
LEMMA WakeLoops ==
  ASSUME WakeInv, [Next]_vars, UNCHANGED apiVars, UNCHANGED active, Hears' => Hears,
         faults' = faults \/ (\E f \in Fault \ {"lost"} : Count(f)),
         \A r \in Request : job'[r] = "queued" => job[r] = "queued",
         \/ pc' \notin {"empty", "guard", "sleepy", "asleep"}
         \/ pc' \in {"guard", "sleepy"} /\ pc \in {"guard", "sleepy"} /\ left' = left
         \/ UNCHANGED <<pc, left, event>>
  PROVE  HeardInv' /\ AwakeInv'
<1>1. faults'["lost"] = faults["lost"]
  BY Counts DEF WakeInv, Fault
<1>2. Pending' <=> Pending
  BY <1>1 DEF Pending
<1>3. Grace' = Grace /\ Interval' = Interval
  BY ClocksStay
<1>4. HeardInv'
  BY <1>2, <1>3 DEF WakeInv, HeardInv
<1>5. Waiting' => Waiting
  BY DEF Waiting
<1> QED BY <1>2, <1>4, <1>5 DEF WakeInv, AwakeInv

\* An empty reply says that no job waits; a worker whose window is open does
\* not go on to the guard.
LEMMA WakeDecides ==
  ASSUME WakeInv, [Next]_vars, ClaimNothing \/ LoopOn \/ FallAsleep
  PROVE  HeardInv' /\ AwakeInv'
<1>1. /\ UNCHANGED <<apiVars, jobVars, active, follow, stopping, faults>>
      /\ pc \notin {"down", "drained"}
  BY DEF ClaimNothing, LoopOn, FallAsleep
<1>2. /\ Grace' = Grace /\ Interval' = Interval /\ Rpc' = Rpc /\ (Pending' <=> Pending)
      /\ (Hears' => Hears) /\ (Waiting' <=> Waiting)
  BY <1>1, ClocksStay DEF Pending, Hears, Waiting
<1>3. HeardInv'
  BY <1>1, <1>2 DEF WakeInv, HeardInv
<1>4. CASE ClaimNothing
  <2>1. ~Waiting
    BY <1>4 DEF ClaimNothing, Claimable, Waiting
  <2> QED BY <1>2, <1>3, <2>1 DEF AwakeInv
<1>5. CASE LoopOn \/ FallAsleep
  <2>1. left \in Nat /\ active \in Nat
    BY DEF WakeInv, TypeInv, WakeTypeOK
  <2>2. Hears /\ ~Pending /\ Waiting => active > 0
    BY <1>5, <2>1 DEF LoopOn, FallAsleep, WakeInv, AwakeInv
  <2>3. active > 0 => pc' \in {"poll", "ask"}
    BY <1>5, <2>1 DEF LoopOn, FallAsleep, Drowsy
  <2> QED BY <1>2, <1>3, <2>2, <2>3 DEF AwakeInv
<1> QED BY <1>3, <1>4, <1>5

LEMMA WakeRestarts ==
  ASSUME WakeInv, [Next]_vars, Restart
  PROVE  HeardInv' /\ AwakeInv'
<1>1. /\ Grace \in Nat /\ Interval \in Nat /\ quiet \in 0..Interval /\ quiet' = quiet
      /\ active' = Grace /\ pc' = "ask"
  BY Clocks DEF Restart, WakeInv, TypeInv, WakeTypeOK
<1>2. Grace' = Grace /\ Interval' = Interval
  BY ClocksStay
<1> QED BY <1>1, <1>2 DEF HeardInv, AwakeInv

\* Time: the window, the silence and the calls run down together.
LEMMA WakeTicks ==
  ASSUME WakeInv, [Next]_vars, Tick
  PROVE  HeardInv' /\ AwakeInv'
<1>1. /\ UNCHANGED <<setting, req, signal, job, pc, follow, event, stopping, faults>>
      /\ pc \in {"claim", "empty", "guard", "sleepy", "poll"} => left > 0
      /\ left' = Less(left) /\ quiet' = Less(quiet)
      /\ active' = IF follow THEN Less(active) ELSE active
  BY DEF Tick
<1>2. /\ Grace' = Grace /\ Interval' = Interval /\ Rpc' = Rpc
      /\ (Pending' <=> Pending) /\ (Hears' <=> Hears) /\ (Waiting' <=> Waiting)
  BY <1>1, ClocksStay DEF Pending, Hears, Waiting
<1>3. /\ Grace \in Nat /\ Interval \in Nat /\ Rpc \in Nat /\ Rpc > 0
      /\ quiet \in Nat /\ left \in Nat /\ active \in Nat
  BY Clocks DEF WakeInv, TypeInv, WakeTypeOK
<1>4. HeardInv'
  <2> SUFFICES ASSUME Hears, ~Pending, quiet' > 0 PROVE active' >= Grace - Interval + quiet'
    BY <1>2 DEF HeardInv
  <2>1. quiet > 0 /\ quiet' = quiet - 1
    BY <1>1, <1>3 DEF Less
  <2>2. active >= Grace - Interval + quiet /\ Grace >= Interval + Rpc /\ follow
    BY <2>1 DEF WakeInv, HeardInv, Hears
  <2>3. active' = active - 1
    BY <1>1, <1>3, <2>1, <2>2 DEF Less
  <2> QED BY <1>3, <2>1, <2>2, <2>3
<1>5. AwakeInv'
  <2> SUFFICES ASSUME Hears, ~Pending, Waiting
               PROVE  /\ pc \in {"empty", "guard", "sleepy"} => active' > left'
                      /\ pc = "asleep" => event
    BY <1>1, <1>2 DEF AwakeInv
  <2>1. /\ pc \in {"empty", "guard", "sleepy"} => active > left
        /\ pc = "asleep" => event
    BY DEF WakeInv, AwakeInv
  <2> QED BY <1>1, <1>3, <2>1 DEF Less
<1> QED BY <1>4, <1>5

LEMMA WakeStep == WakeInv /\ [Next]_vars => WakeInv'
<1> SUFFICES ASSUME WakeInv, [Next]_vars PROVE HeardInv' /\ AwakeInv'
  BY TypeStep, SleepStep DEF WakeInv
<1>1. ASSUME NEW r \in Request, Enqueue(r) PROVE HeardInv' /\ AwakeInv'
  <2>1. UNCHANGED <<apiVars, workerVars, flagVars, faults>> /\ req[r] = "open"
    BY <1>1 DEF Enqueue
  <2>2. ~Waiting' /\ (Pending' <=> Pending) /\ (Hears' <=> Hears)
    BY <2>1, ClocksStay DEF Waiting, Pending, Hears
  <2> QED BY <2>1, <2>2, ClocksStay DEF WakeInv, HeardInv, AwakeInv
<1>2. ASSUME NEW r \in Request, RaiseRequest(r) PROVE HeardInv' /\ AwakeInv'
  <2>1. faults'["raised"] = faults["raised"] + 1 /\ faults["raised"] \in Nat
    BY <1>2, Counts DEF RaiseRequest, WakeInv, TypeInv, Fault
  <2>2. ~Hears'
    BY <2>1 DEF Hears
  <2> QED BY <2>2 DEF HeardInv, AwakeInv
<1>3. CASE Ask \/ TakeJob \/ Awake \/ EndWait \/ (\E r \in Request : ClaimJob(r)) \/ FinishJob
  <2>1. /\ UNCHANGED apiVars /\ UNCHANGED active /\ faults' = faults
        /\ UNCHANGED <<follow, stopping>> /\ pc \notin {"down", "drained"}
    BY <1>3 DEF Ask, TakeJob, Awake, EndWait, ClaimJob, FinishJob
  <2>2. pc' \notin {"empty", "guard", "sleepy", "asleep"}
    BY <1>3 DEF Ask, TakeJob, Awake, EndWait, ClaimJob, FinishJob
  <2>3. \A q \in Request : job'[q] = "queued" => job[q] = "queued"
    BY <1>3 DEF Ask, TakeJob, Awake, EndWait, ClaimJob, FinishJob, WakeInv, TypeInv, WakeTypeOK
  <2>4. Hears' => Hears
    BY <2>1, ClocksStay DEF Hears
  <2> QED BY <2>1, <2>2, <2>3, <2>4, WakeLoops
<1>4. CASE Guard
  <2>1. /\ UNCHANGED <<apiVars, jobVars, flagVars, faults>> /\ pc = "guard"
        /\ pc' = "poll" \/ (pc' = "sleepy" /\ left' = left)
    BY <1>4 DEF Guard, Wait
  <2>2. Hears' => Hears
    BY <2>1, ClocksStay DEF Hears
  <2> QED BY <2>1, <2>2, WakeLoops
<1>5. CASE CallRaises \/ Crash
  <2>1. /\ UNCHANGED <<apiVars, jobVars, flagVars>> /\ pc \notin {"down", "drained"}
        /\ pc' \in {"poll", "down"} /\ (\E f \in {"errors", "crashes"} : Count(f))
    BY <1>5 DEF CallRaises, Crash, Wait
  <2>2. faults'["lost"] = faults["lost"] /\ faults'["raised"] = faults["raised"]
    BY <2>1, Counts DEF Fault, WakeInv
  <2>3. Hears' => Hears
    BY <2>1, <2>2, ClocksStay DEF Hears
  <2> QED BY <2>1, <2>3, WakeLoops DEF Fault
<1>6. CASE RequestStop \/ DisableFollow
  <2>1. ~Hears'
    BY <1>6, Zenon DEF RequestStop, DisableFollow, Hears
  <2> QED BY <2>1 DEF HeardInv, AwakeInv
<1>7. CASE UNCHANGED vars
  <2>1. UNCHANGED <<apiVars, jobVars, workerVars, flagVars, faults>>
    BY <1>7 DEF vars
  <2>2. Hears' => Hears
    BY <2>1, ClocksStay DEF Hears
  <2> QED BY <2>1, <2>2, WakeLoops
<1> QED BY <1>1, <1>2, <1>3, <1>4, <1>5, <1>6, <1>7, WakeStarts, WakeCompletes, WakeDelivers,
           WakeFails, WakeDecides, WakeRestarts, WakeTicks DEF Next, WorkerStep

\* Where at most one delivery is lost, a sleeping worker leaves no job behind:
\* for any clocks in which the active window outlasts the notifier's silence
\* and one call of the database.
THEOREM NoJobIsStranded == Spec => [](setting.most["lost"] <= 1 => NoStrandedJob)
<1>1. ASSUME WakeInv, setting.most["lost"] <= 1 PROVE NoStrandedJob
  <2> SUFFICES ASSUME Grace >= Interval + Rpc, faults["raised"] = 0, pc = "asleep", ~event, ~stopping,
                      \E r \in Request : job[r] = "queued",
                      \A r \in Request : req[r] # "open"
               PROVE  \E s \in Signal : signal[s] > 0
    BY DEF NoStrandedJob
  <2>1. Waiting
    BY DEF Waiting
  <2>2. follow
    BY <1>1 DEF WakeInv, SleepInv
  <2>3. Hears
    BY <1>1, <2>2 DEF Hears
  <2>4. Pending
    BY <1>1, <2>1, <2>3 DEF WakeInv, AwakeInv
  <2> QED BY <2>4 DEF Pending
<1>2. WakeInv => (setting.most["lost"] <= 1 => NoStrandedJob)
  BY <1>1
<1> QED BY <1>2, WakeInit, WakeStep, PTL DEF Spec
=============================================================================
