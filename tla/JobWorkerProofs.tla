--------------------------- MODULE JobWorkerProofs ---------------------------
(***************************************************************************)
(* Proofs about JobWorker for every set of jobs and workers, every lease,  *)
(* work time, attempt limit and number of mishaps.                         *)
(***************************************************************************)
EXTENDS JobWorker, TLAPS

\* What a worker with a job in hand knows of it.  The last two conjuncts
\* tie the attempt in its hand to the counter of the row.
InHand(w) ==
    /\ pc[w] \in {"claiming", "work", "complete"} => task[w].job \in Job
    /\ pc[w] = "claiming" => /\ state[task[w].job] = "queued"
                             /\ rowLock[task[w].job] = w
    /\ pc[w] = "work" => task[w].beatIn >= 1
    /\ Busy(w) => task[w].attempt \in 1..attempt[task[w].job]
    /\ Busy(w) /\ Owned(w, task[w].job)
         => task[w].attempt = attempt[task[w].job]

\* A worker in step with the clock owns its row, with more of the lease left
\* than one heartbeat period can consume.
InTime(w) ==
    Busy(w) /\ ~task[w].slow =>
        /\ Owned(w, task[w].job)
        /\ left[task[w].job] >= Lease - Beat
        /\ pc[w] = "work" /\ ~task[w].beatDue
             => left[task[w].job] >= Lease - Beat + task[w].beatIn

\* Where the history of executed attempts stands.
Executed(w) == pc[w] = "complete" => task[w].attempt \in effects[task[w].job]

IInv ==
    /\ TypeOK
    /\ \A w \in Worker : InHand(w) /\ InTime(w) /\ Executed(w)
    /\ OneWorkerPerAttempt
    /\ DoneByLatestAttempt
    /\ LeaseIffRunning

-----------------------------------------------------------------------------

\* The heartbeat period is positive and shorter than the lease.
LEMMA BeatBounds == Beat \in Nat /\ 1 <= Beat /\ Beat < Lease /\ Lease \in Nat
  BY JobTableAssumption, JobWorkerAssumption DEF Beat

LEMMA NoTaskType == NoTask \in Task
  BY JobWorkerAssumption, BeatBounds DEF NoTask, Task

THEOREM InitIInv == Init => IInv
  <1> SUFFICES ASSUME Init PROVE IInv
    OBVIOUS
  <1>1. TypeOK
    BY NoTaskType, JobTableAssumption, JobWorkerAssumption
    DEF Init, TableInit, TypeOK, TableTypeOK, State, PC
  <1>2. QED
    BY <1>1, JobTableAssumption DEF Init, TableInit, IInv, InHand, InTime, Executed, Busy,
       OneWorkerPerAttempt, DoneByLatestAttempt, LeaseIffRunning

-----------------------------------------------------------------------------
(* Types *)

\* The timers of a task may be set independently.
LEMMA TaskTimers ==
  ASSUME NEW t \in Task, NEW a \in 0..Beat, NEW b \in BOOLEAN, NEW c \in 0..Work
  PROVE  [t EXCEPT !.beatIn = a, !.beatDue = b, !.workLeft = c] \in Task
  BY DEF Task

\* A tick keeps a task a task; a heartbeat falls due when its period is over.
LEMMA TickTaskType ==
  ASSUME NEW t \in Task, t.beatIn >= 1
  PROVE  /\ TickTask(t) \in Task
         /\ TickTask(t).beatIn >= 1
         /\ TickTask(t).job = t.job
         /\ TickTask(t).attempt = t.attempt
         /\ TickTask(t).slow = t.slow
         /\ ~TickTask(t).beatDue => /\ ~t.beatDue
                                    /\ TickTask(t).beatIn = t.beatIn - 1
  <1> DEFINE a == IF t.beatIn = 1 THEN Beat ELSE t.beatIn - 1
             b == t.beatDue \/ t.beatIn = 1
             c == IF t.workLeft = 0 THEN 0 ELSE t.workLeft - 1
             u == [t EXCEPT !.beatIn = a, !.beatDue = b, !.workLeft = c]
  <1>1. a \in 0..Beat /\ b \in BOOLEAN /\ c \in 0..Work
    BY BeatBounds, JobWorkerAssumption DEF Task
  <1>2. TickTask(t) = u
    BY DEF TickTask
  <1> HIDE DEF a, b, c
  <1>3. u \in Task
    BY <1>1, Zenon, TaskTimers
  <1>4. u.beatIn = a /\ u.beatDue = b
    BY Zenon DEF Task
  <1>5. u.job = t.job /\ u.attempt = t.attempt /\ u.slow = t.slow
    BY DEF Task
  <1>6. a >= 1 /\ (~b => ~t.beatDue /\ a = t.beatIn - 1)
    BY BeatBounds DEF a, b, Task
  <1>7. QED
    BY <1>1, <1>2, <1>3, <1>4, <1>5, <1>6

\* The two fields that change on their own keep a task a task.
LEMMA TaskFlags ==
  ASSUME NEW t \in Task
  PROVE  [t EXCEPT !.beatDue = FALSE] \in Task /\ [t EXCEPT !.slow = TRUE] \in Task
  BY DEF Task

\* Type correctness is inductive together with what a busy worker holds.
LEMMA TypeStep == ASSUME IInv, [Next]_vars PROVE TypeOK'
  <1> USE JobTableAssumption, JobWorkerAssumption, BeatBounds, NoTaskType
  <1>1. TypeOK /\ \A w \in Worker : InHand(w)
    BY DEF IInv
  <1>2. ASSUME NEW w \in Worker, BeginClaim(w) PROVE TypeOK'
    BY <1>1, <1>2 DEF BeginClaim, LockNext, Goto, Claimable, TypeOK, TableTypeOK, Task, PC
  <1>3. ASSUME NEW w \in Worker, ClaimAnswered(w) PROVE TypeOK'
    <2> DEFINE j == task[w].job
               t == [job |-> j, attempt |-> attempt[j] + 1, beatIn |-> Beat,
                     beatDue |-> FALSE, workLeft |-> Work, slow |-> FALSE]
    <2>1. j \in Job /\ attempt[j] + 1 \in Nat
      BY <1>1, <1>3 DEF ClaimAnswered, InHand, TypeOK, TableTypeOK
    <2>2. t \in Task
      BY <2>1 DEF Task
    <2>3. task' = [task EXCEPT ![w] = t]
      BY <1>3 DEF ClaimAnswered
    <2>4. task' \in [Worker -> Task]
      BY <1>1, <2>2, <2>3 DEF TypeOK
    <2>5. TableTypeOK'
      BY <1>1, <1>3, <2>1 DEF ClaimAnswered, ClaimRow, TypeOK, TableTypeOK, State
    <2>6. QED
      BY <1>1, <1>3, <2>4, <2>5 DEF ClaimAnswered, Goto, TypeOK, PC
  <1>4. ASSUME NEW w \in Worker, ClaimError(w) PROVE TypeOK'
    <2>1. task[w].job \in Job
      BY <1>1, <1>4 DEF ClaimError, InHand
    <2>2. TableTypeOK'
      BY <1>1, <1>4, <2>1 DEF ClaimError, ClaimRow, UnlockRow, TypeOK, TableTypeOK, State
    <2>3. faults' \in 0..MaxFaults
      <3>1. (faults' = faults) \/ (faults > 0 /\ faults' = faults - 1)
        <4>1. IF draining[w] THEN UNCHANGED faults ELSE Mishap
          BY <1>4 DEF ClaimError
        <4>2. QED
          BY <4>1 DEF Mishap
      <3>2. QED
        BY <1>1, <3>1 DEF TypeOK
    <2>4. QED
      BY <1>1, <1>4, <2>2, <2>3 DEF ClaimError, Drop, Goto, TypeOK, PC
  <1>5. ASSUME NEW w \in Worker, ClaimEmpty(w) \/ WakeUp(w) \/ Listen(w) \/ HearNotify(w)
                  \/ WaitTimeout(w) \/ WaitError(w) \/ ExitLoop(w) \/ Stop(w) \/ Restart(w)
        PROVE TypeOK'
    <2>1. UNCHANGED <<tableVars, task, effects>>
      BY <1>5 DEF ClaimEmpty, WakeUp, Listen, HearNotify, WaitTimeout, WaitError, ExitLoop,
         Stop, Restart, LeaveWait
    <2>2. pc' \in [Worker -> PC]
      BY <1>1, <1>5 DEF ClaimEmpty, WakeUp, Listen, HearNotify, WaitTimeout, WaitError,
         ExitLoop, Stop, Restart, LeaveWait, Goto, TypeOK, PC
    <2>3. draining' \in [Worker -> BOOLEAN] /\ notified' \in [Worker -> BOOLEAN]
      BY <1>1, <1>5 DEF ClaimEmpty, WakeUp, Listen, HearNotify, WaitTimeout, WaitError,
         ExitLoop, Stop, Restart, LeaveWait, TypeOK
    <2>4. faults' \in 0..MaxFaults
      BY <1>1, <1>5 DEF ClaimEmpty, WakeUp, Listen, HearNotify, WaitTimeout, WaitError,
         ExitLoop, Stop, Restart, Mishap, TypeOK
    <2>5. QED
      BY <1>1, <2>1, <2>2, <2>3, <2>4 DEF tableVars, TypeOK, TableTypeOK
  <1>6. ASSUME NEW w \in Worker, Heartbeat(w) \/ HeartbeatError(w) PROVE TypeOK'
    <2>1. task[w].job \in Job
      BY <1>1, <1>6 DEF Heartbeat, HeartbeatError, InHand
    <2>2. TableTypeOK'
      BY <1>1, <1>6, <2>1
      DEF Heartbeat, HeartbeatError, HeartbeatRow, tableVars, TypeOK, TableTypeOK
    <2>3. task' \in [Worker -> Task]
      <3>1. \/ task' = [task EXCEPT ![w].beatDue = FALSE]
            \/ task' = [task EXCEPT ![w] = NoTask]
        BY <1>6 DEF Heartbeat, HeartbeatError, Drop
      <3>2. [task[w] EXCEPT !.beatDue = FALSE] \in Task
        BY <1>1, TaskFlags DEF TypeOK
      <3>3. QED
        BY <1>1, <3>1, <3>2 DEF TypeOK
    <2>4. QED
      BY <1>1, <1>6, <2>2, <2>3
      DEF Heartbeat, HeartbeatError, Drop, Goto, Mishap, TypeOK, PC
  <1>7. ASSUME NEW w \in Worker, WorkDone(w) PROVE TypeOK'
    <2>1. task[w].job \in Job /\ task[w].attempt \in Nat
      BY <1>1, <1>7 DEF WorkDone, InHand, TypeOK, Task
    <2>2. QED
      BY <1>1, <1>7, <2>1 DEF WorkDone, Goto, tableVars, TypeOK, TableTypeOK, PC
  <1>8. ASSUME NEW w \in Worker, Complete(w) \/ CompleteError(w) \/ JobFails(w) PROVE TypeOK'
    <2>1. TableTypeOK'
      BY <1>1, <1>8 DEF Complete, CompleteError, JobFails, CompleteRow, FailRow, EndLease,
         tableVars, TypeOK, TableTypeOK, State
    <2>2. task' \in [Worker -> Task] /\ pc' \in [Worker -> PC]
      BY <1>1, <1>8 DEF Complete, CompleteError, JobFails, Drop, Goto, TypeOK, PC
    <2>3. notified' \in [Worker -> BOOLEAN]
      BY <1>1, <1>8 DEF Complete, CompleteError, JobFails, Notify, TypeOK
    <2>4. QED
      BY <1>1, <1>8, <2>1, <2>2, <2>3 DEF Complete, CompleteError, JobFails, Mishap, TypeOK
  <1>9. ASSUME NEW j \in Job, Enqueue(j) PROVE TypeOK'
    <2>1. notified' \in [Worker -> BOOLEAN]
      BY <1>1, <1>9 DEF Enqueue, Notify, TypeOK
    <2>2. QED
      BY <1>1, <1>9, <2>1 DEF Enqueue, InsertRow, TypeOK, TableTypeOK, State
  <1>10. ASSUME Reclaim PROVE TypeOK'
    <2>1. TableTypeOK'
      BY <1>1, <1>10 DEF Reclaim, ReclaimRows, EndLease, TypeOK, TableTypeOK, State
    <2>2. notified' \in [Worker -> BOOLEAN]
      BY <1>1, <1>10 DEF Reclaim, Notify, TypeOK
    <2>3. QED
      BY <1>1, <1>10, <2>1, <2>2 DEF Reclaim, TypeOK
  <1>11. ASSUME Tick PROVE TypeOK'
    <2>1. \A w \in Worker : pc[w] = "work" => TickTask(task[w]) \in Task
      BY <1>1, TickTaskType DEF InHand, TypeOK
    <2>2. task' \in [Worker -> Task]
      BY <1>1, <1>11, <2>1 DEF Tick, TypeOK
    <2>3. left' \in [Job -> -1..Lease]
      BY <1>1, <1>11 DEF Tick, TypeOK, TableTypeOK
    <2>4. QED
      BY <1>1, <1>11, <2>2, <2>3 DEF Tick, TypeOK, TableTypeOK
  <1>12. ASSUME NEW w \in Worker, FallBehind(w) PROVE TypeOK'
    <2>1. task' \in [Worker -> Task]
      BY <1>1, <1>12, TaskFlags DEF FallBehind, TypeOK
    <2>2. QED
      BY <1>1, <1>12, <2>1 DEF FallBehind, Mishap, tableVars, TypeOK, TableTypeOK
  <1>13. ASSUME NEW w \in Worker, Crash(w) PROVE TypeOK'
    BY <1>1, <1>13 DEF Crash, UnlockRow, Drop, Goto, Mishap, tableVars, TypeOK, TableTypeOK, PC
  <1>14. CASE UNCHANGED vars
    BY <1>1, <1>14 DEF vars, tableVars, procVars, TypeOK, TableTypeOK
  <1>15. QED
    BY <1>2, <1>3, <1>4, <1>5, <1>6, <1>7, <1>8, <1>9, <1>10, <1>11, <1>12, <1>13, <1>14
    DEF Next, Step, Untimed, BodyEnds, Trouble

-----------------------------------------------------------------------------
(* Steps that leave most of the state alone *)

\* v goes on with what it has in hand, or has nothing in hand any more.
HandKept(v) == pc'[v] = pc[v] /\ task'[v] = task[v]
HandEmpty(v) == pc'[v] \notin {"claiming", "work", "complete"}

\* No row changes; workers keep what they have in hand or let it go.
LEMMA IdleStep ==
  ASSUME IInv, TypeOK', UNCHANGED <<tableVars, effects>>,
         \A v \in Worker : HandKept(v) \/ HandEmpty(v)
  PROVE  IInv'
  BY DEF IInv, tableVars, HandKept, HandEmpty, InHand, InTime, Executed, Busy, Owned,
         OneWorkerPerAttempt, DoneByLatestAttempt, LeaseIffRunning

\* Some running rows end their lease: complete, fail, reclaim.  None of them
\* may be the row of a punctual worker that goes on with it.
LEMMA EndLeaseStep ==
  ASSUME IInv, TypeOK', UNCHANGED effects,
         \A v \in Worker : HandKept(v) \/ HandEmpty(v),
         NEW S \in SUBSET Job, NEW newState \in {"queued", "done", "failed"},
         EndLease(S, newState),
         \A j \in S : /\ state[j] = "running"
                      /\ newState = "done" => attempt[j] \in effects[j],
         \A v \in Worker : HandKept(v) /\ Busy(v) /\ ~task[v].slow => task[v].job \notin S
  PROVE  IInv'
  <1> USE DEF EndLease, HandKept, HandEmpty, Busy, Owned
  <1>1. \A v \in Worker : InHand(v)'
    BY DEF IInv, InHand
  <1>2. \A v \in Worker : InTime(v)'
    BY DEF IInv, InTime, InHand
  <1>3. \A v \in Worker : Executed(v)'
    BY DEF IInv, Executed
  <1>4. OneWorkerPerAttempt'
    BY DEF IInv, OneWorkerPerAttempt
  <1>5. DoneByLatestAttempt' /\ LeaseIffRunning'
    BY JobTableAssumption DEF IInv, DoneByLatestAttempt, LeaseIffRunning
  <1>6. QED
    BY <1>1, <1>2, <1>3, <1>4, <1>5 DEF IInv

\* Under IInv a punctual worker owns its row, and no other worker does.
LEMMA PunctualOwns ==
  ASSUME IInv, NEW v \in Worker, Busy(v), ~task[v].slow
  PROVE  /\ task[v].job \in Job
         /\ Owned(v, task[v].job)
         /\ ~Expired(task[v].job)
         /\ \A w \in Worker : Owned(w, task[v].job) => w = v
  BY BeatBounds DEF IInv, InHand, InTime, Busy, Owned, Expired, TypeOK, TableTypeOK

-----------------------------------------------------------------------------
(* One lemma per action that changes rows or hands *)

LEMMA BeginClaimStep == ASSUME IInv, TypeOK', NEW w \in Worker, BeginClaim(w) PROVE IInv'
  <1>1. PICK j \in Job : LockNext(w, j) /\ task' = [task EXCEPT ![w].job = j]
    BY DEF BeginClaim
  <1>2. /\ pc[w] = "loop" /\ pc' = [pc EXCEPT ![w] = "claiming"]
        /\ task'[w].job = j
        /\ \A v \in Worker : v # w => HandKept(v)
    BY <1>1 DEF BeginClaim, Goto, HandKept, IInv, TypeOK, Task
  <1>3. /\ rowLock[j] = NoWorker /\ state[j] = "queued"
        /\ rowLock' = [rowLock EXCEPT ![j] = w]
        /\ UNCHANGED <<state, attempt, leasedBy, left, effects>>
    BY <1>1 DEF BeginClaim, LockNext, Claimable
  <1>4. \A v \in Worker : InHand(v)' /\ InTime(v)' /\ Executed(v)'
    BY <1>2, <1>3, JobTableAssumption
    DEF IInv, TypeOK, TableTypeOK, HandKept, InHand, InTime, Executed, Busy, Owned
  <1>5. OneWorkerPerAttempt' /\ DoneByLatestAttempt' /\ LeaseIffRunning'
    BY <1>2, <1>3
    DEF IInv, TypeOK, HandKept, Busy, OneWorkerPerAttempt, DoneByLatestAttempt, LeaseIffRunning
  <1>6. QED
    BY <1>4, <1>5 DEF IInv

\* The row a claim has locked becomes running; nobody else is affected.
LEMMA ClaimRowStep ==
  ASSUME IInv, TypeOK', UNCHANGED effects, NEW w \in Worker, NEW j \in Job,
         pc[w] = "claiming", task[w].job = j, ClaimRow(w, j),
         \A v \in Worker : v # w => HandKept(v),
         \/ HandEmpty(w)
         \/ /\ pc'[w] = "work" /\ task'[w].job = j
            /\ task'[w].attempt = attempt[j] + 1
            /\ task'[w].beatIn = Beat
  PROVE  IInv'
  <1> USE BeatBounds, JobTableAssumption
  <1>1. /\ state[j] = "queued" /\ rowLock[j] = w /\ attempt[j] \in Nat
        /\ \A v \in Worker : pc[v] = "claiming" /\ task[v].job = j => v = w
    BY DEF IInv, InHand, TypeOK, TableTypeOK
  <1>2. /\ state'[j] = "running" /\ attempt'[j] = attempt[j] + 1 /\ leasedBy'[j] = w
        /\ left'[j] = Lease /\ rowLock'[j] = NoWorker
        /\ \A k \in Job : k # j => /\ state'[k] = state[k] /\ attempt'[k] = attempt[k]
                                   /\ leasedBy'[k] = leasedBy[k] /\ left'[k] = left[k]
                                   /\ rowLock'[k] = rowLock[k]
    BY DEF ClaimRow, IInv, TypeOK, TableTypeOK
  <1>3. \A v \in Worker : v # w => InHand(v)'
    <2> TAKE v \in Worker
    <2> HAVE v # w
    <2>1. InHand(v) /\ HandKept(v)
      BY DEF IInv
    <2>2. task[v].attempt \in Nat
      BY DEF IInv, TypeOK, Task
    <2>3. CASE task[v].job = j
      BY <1>1, <1>2, <2>1, <2>2, <2>3 DEF InHand, HandKept, Busy, Owned
    <2>4. CASE task[v].job # j
      BY <1>2, <2>1, <2>4 DEF InHand, HandKept, Busy, Owned
    <2>5. QED
      BY <2>3, <2>4
  <1>4. InHand(w)'
    BY <1>1, <1>2 DEF HandEmpty, InHand, Busy
  <1>5. \A v \in Worker : InTime(v)'
    <2>1. ASSUME NEW v \in Worker, v # w, Busy(v), ~task[v].slow PROVE task[v].job # j
      BY <1>1, <2>1, PunctualOwns DEF Owned
    <2>2. ASSUME NEW v \in Worker, v # w PROVE InTime(v)'
      BY <1>2, <2>1, <2>2 DEF IInv, InTime, InHand, HandKept, Busy, Owned
    <2>3. InTime(w)'
      BY <1>2 DEF HandEmpty, InTime, Busy, Owned
    <2>4. QED
      BY <2>2, <2>3
  <1>6. \A v \in Worker : Executed(v)'
    BY DEF IInv, Executed, HandKept, HandEmpty
  <1>7. OneWorkerPerAttempt'
    BY <1>1, <1>2 DEF IInv, TypeOK, Task, InHand, OneWorkerPerAttempt, HandKept, HandEmpty, Busy
  <1>8. DoneByLatestAttempt' /\ LeaseIffRunning'
    BY <1>1, <1>2 DEF IInv, DoneByLatestAttempt, LeaseIffRunning
  <1>9. QED
    BY <1>3, <1>4, <1>5, <1>6, <1>7, <1>8 DEF IInv

\* A heartbeat that finds its row renews the lease of that row only.
LEMMA HeartbeatRowStep ==
  ASSUME IInv, TypeOK', UNCHANGED effects, NEW w \in Worker, NEW j \in Job,
         pc[w] = "work", task[w].job = j, HeartbeatRow(w, j),
         \A v \in Worker : v # w => HandKept(v),
         \/ HandEmpty(w)
         \/ Owned(w, j) /\ pc'[w] = "work"
            /\ task'[w] = [task[w] EXCEPT !.beatDue = FALSE]
  PROVE  IInv'
  <1> USE BeatBounds, JobTableAssumption
  <1>1. /\ UNCHANGED <<state, attempt, leasedBy, rowLock>>
        /\ \A k \in Job : left'[k] = left[k] \/ (k = j /\ Owned(w, j) /\ left'[k] = Lease)
    BY DEF HeartbeatRow, IInv, TypeOK, TableTypeOK
  <1>2. \/ HandEmpty(w)
        \/ /\ pc'[w] = "work" /\ left'[j] = Lease /\ Owned(w, j)
           /\ task'[w].job = j /\ task'[w].attempt = task[w].attempt
           /\ task'[w].beatIn = task[w].beatIn /\ task'[w].slow = task[w].slow
    BY DEF HeartbeatRow, IInv, TypeOK, TableTypeOK, Task
  <1>3. \A v \in Worker : InHand(v)'
    BY <1>1, <1>2 DEF IInv, InHand, HandKept, HandEmpty, Busy, Owned
  <1>4. \A v \in Worker : v # w => InTime(v)'
    BY <1>1, PunctualOwns
    DEF IInv, TypeOK, TableTypeOK, Task, InHand, InTime, HandKept, Busy, Owned
  <1>5. InTime(w)'
    BY <1>1, <1>2 DEF IInv, TypeOK, Task, InTime, HandEmpty, Busy, Owned
  <1>6. (\A v \in Worker : Executed(v)') /\ OneWorkerPerAttempt'
    BY <1>1, <1>2
    DEF IInv, Executed, OneWorkerPerAttempt, HandKept, HandEmpty, Busy
  <1>7. DoneByLatestAttempt' /\ LeaseIffRunning'
    BY <1>1 DEF IInv, DoneByLatestAttempt, LeaseIffRunning
  <1>8. QED
    BY <1>3, <1>4, <1>5, <1>6, <1>7 DEF IInv

LEMMA WorkDoneStep == ASSUME IInv, TypeOK', NEW w \in Worker, WorkDone(w) PROVE IInv'
  <1>1. /\ UNCHANGED <<tableVars, task>>
        /\ pc[w] = "work" /\ pc' = [pc EXCEPT ![w] = "complete"]
        /\ task[w].job \in Job
        /\ effects' = [effects EXCEPT ![task[w].job] = @ \cup {task[w].attempt}]
    BY DEF WorkDone, Goto, IInv, InHand
  <1>2. /\ \A j \in Job : effects[j] \subseteq effects'[j]
        /\ task[w].attempt \in effects'[task[w].job]
    BY <1>1 DEF IInv, TypeOK
  <1>3. \A v \in Worker : InHand(v)' /\ InTime(v)'
    BY <1>1 DEF IInv, TypeOK, InHand, InTime, Busy, Owned, tableVars
  <1>4. \A v \in Worker : Executed(v)'
    BY <1>1, <1>2 DEF IInv, TypeOK, InHand, Executed
  <1>5. OneWorkerPerAttempt' /\ DoneByLatestAttempt' /\ LeaseIffRunning'
    BY <1>1, <1>2 DEF IInv, TypeOK, TableTypeOK, Busy, OneWorkerPerAttempt,
       DoneByLatestAttempt, LeaseIffRunning, tableVars
  <1>6. QED
    BY <1>3, <1>4, <1>5 DEF IInv

LEMMA EnqueueStep == ASSUME IInv, TypeOK', NEW j \in Job, Enqueue(j) PROVE IInv'
  <1>1. /\ state[j] = "absent" /\ state' = [state EXCEPT ![j] = "queued"]
        /\ UNCHANGED <<attempt, leasedBy, left, rowLock, pc, task, effects>>
    BY DEF Enqueue, InsertRow
  <1>2. QED
    BY <1>1 DEF IInv, TypeOK, TableTypeOK, InHand, InTime, Executed, Busy, Owned,
       OneWorkerPerAttempt, DoneByLatestAttempt, LeaseIffRunning

LEMMA TickStep == ASSUME IInv, TypeOK', Tick PROVE IInv'
  <1> USE BeatBounds
  <1>1. /\ UNCHANGED <<state, attempt, leasedBy, rowLock, pc, effects>>
        /\ \A j \in Job : state[j] = "running" /\ left[j] >= 0 => left'[j] = left[j] - 1
        /\ \A w \in Worker : pc[w] # "work" => task'[w] = task[w]
        /\ \A w \in Worker : pc[w] = "work" => task'[w] = TickTask(task[w])
    BY DEF Tick, IInv, TypeOK
  <1>2. \A w \in Worker :
          /\ task'[w].job = task[w].job /\ task'[w].attempt = task[w].attempt
          /\ task'[w].slow = task[w].slow
          /\ pc[w] = "work" => /\ task'[w].beatIn >= 1
                               /\ ~task'[w].beatDue => /\ ~task[w].beatDue
                                                       /\ task'[w].beatIn = task[w].beatIn - 1
    BY <1>1, TickTaskType DEF IInv, TypeOK, InHand
  <1>3. \A w \in Worker : InHand(w)' /\ Executed(w)'
    BY <1>1, <1>2 DEF IInv, InHand, Executed, Busy, Owned
  <1>4. \A w \in Worker : InTime(w)'
    <2> SUFFICES ASSUME NEW w \in Worker, Busy(w)', ~task'[w].slow PROVE InTime(w)'
      BY DEF InTime
    <2> DEFINE j == task[w].job
    <2>1. Busy(w) /\ ~task[w].slow
      BY <1>1, <1>2 DEF Busy
    <2>2. pc[w] = "work" /\ ~task[w].beatDue
      BY <2>1 DEF Tick, KeepsUp, Busy
    <2>3. /\ j \in Job /\ Owned(w, j) /\ left[j] \in Int /\ task[w].beatIn \in Int
          /\ task[w].beatIn >= 1 /\ left[j] >= Lease - Beat + task[w].beatIn
      BY <2>1, <2>2 DEF IInv, TypeOK, TableTypeOK, Task, InHand, InTime
    <2>4. left'[j] = left[j] - 1
      BY <1>1, <2>3 DEF Owned
    <2>5. QED
      BY <1>1, <1>2, <2>2, <2>3, <2>4 DEF InTime, Owned
  <1>5. OneWorkerPerAttempt' /\ DoneByLatestAttempt' /\ LeaseIffRunning'
    BY <1>1, <1>2 DEF IInv, Busy, OneWorkerPerAttempt, DoneByLatestAttempt, LeaseIffRunning
  <1>6. QED
    BY <1>3, <1>4, <1>5 DEF IInv

LEMMA FallBehindStep == ASSUME IInv, TypeOK', NEW w \in Worker, FallBehind(w) PROVE IInv'
  <1>1. /\ UNCHANGED <<tableVars, pc, effects>>
        /\ task' = [task EXCEPT ![w].slow = TRUE]
    BY DEF FallBehind
  <1>2. /\ \A v \in Worker : /\ task'[v].job = task[v].job /\ task'[v].attempt = task[v].attempt
                             /\ task'[v].beatIn = task[v].beatIn
        /\ \A v \in Worker : v # w => task'[v] = task[v]
        /\ task'[w].slow
    BY <1>1 DEF IInv, TypeOK, Task
  <1>3. \A v \in Worker : InHand(v)' /\ InTime(v)' /\ Executed(v)'
    BY <1>1, <1>2 DEF IInv, InHand, InTime, Executed, Busy, Owned, tableVars
  <1>4. OneWorkerPerAttempt' /\ DoneByLatestAttempt' /\ LeaseIffRunning'
    BY <1>1, <1>2
    DEF IInv, Busy, OneWorkerPerAttempt, DoneByLatestAttempt, LeaseIffRunning, tableVars
  <1>5. QED
    BY <1>3, <1>4 DEF IInv

\* Giving the row lock back keeps everything: nobody else claims that row.
LEMMA UnlockStep ==
  ASSUME IInv, TypeOK', UNCHANGED effects, NEW w \in Worker,
         pc[w] = "claiming", UnlockRow(task[w].job), HandEmpty(w),
         \A v \in Worker : v # w => HandKept(v)
  PROVE  IInv'
  <1>1. \A v \in Worker : pc[v] = "claiming" /\ v # w => task[v].job # task[w].job
    BY DEF IInv, InHand
  <1>2. \A v \in Worker : InHand(v)' /\ InTime(v)' /\ Executed(v)'
    BY <1>1 DEF UnlockRow, IInv, TypeOK, TableTypeOK, HandKept, HandEmpty, InHand, InTime,
       Executed, Busy, Owned
  <1>3. OneWorkerPerAttempt' /\ DoneByLatestAttempt' /\ LeaseIffRunning'
    BY DEF UnlockRow, IInv, HandKept, HandEmpty, Busy, OneWorkerPerAttempt,
       DoneByLatestAttempt, LeaseIffRunning
  <1>4. QED
    BY <1>2, <1>3 DEF IInv

-----------------------------------------------------------------------------
(* The invariant is inductive *)

THEOREM NextIInv == ASSUME IInv, [Next]_vars PROVE IInv'
  <1>0. TypeOK'
    BY TypeStep
  <1>1. ASSUME NEW w \in Worker, ClaimAnswered(w) PROVE IInv'
    <2>1. /\ task[w].job \in Job /\ pc[w] = "claiming" /\ pc'[w] = "work"
          /\ ClaimRow(w, task[w].job) /\ UNCHANGED effects
          /\ task'[w].job = task[w].job /\ task'[w].attempt = attempt[task[w].job] + 1
          /\ task'[w].beatIn = Beat
          /\ \A v \in Worker : v # w => HandKept(v)
      BY <1>1 DEF ClaimAnswered, Goto, HandKept, IInv, InHand, TypeOK
    <2>2. QED
      BY <1>0, <2>1, ClaimRowStep
  <1>2. ASSUME NEW w \in Worker, ClaimError(w) PROVE IInv'
    <2>1. /\ task[w].job \in Job /\ pc[w] = "claiming" /\ HandEmpty(w) /\ UNCHANGED effects
          /\ ClaimRow(w, task[w].job) \/ UnlockRow(task[w].job)
          /\ \A v \in Worker : v # w => HandKept(v)
      BY <1>2 DEF ClaimError, Drop, Goto, HandKept, HandEmpty, IInv, InHand, TypeOK
    <2>2. QED
      BY <1>0, <2>1, ClaimRowStep, UnlockStep
  <1>3. ASSUME NEW w \in Worker,
               ClaimEmpty(w) \/ WakeUp(w) \/ Listen(w) \/ HearNotify(w) \/ WaitTimeout(w)
               \/ WaitError(w) \/ ExitLoop(w) \/ Stop(w) \/ Restart(w)
        PROVE IInv'
    <2>1. UNCHANGED <<tableVars, task, effects>>
      BY <1>3 DEF ClaimEmpty, WakeUp, Listen, HearNotify, WaitTimeout, WaitError, ExitLoop,
         Stop, Restart, LeaveWait
    <2>2. pc' = pc \/ \E l \in {"connect", "sleeping", "listening", "loop", "down"} : Goto(w, l)
      BY <1>3 DEF ClaimEmpty, WakeUp, Listen, HearNotify, WaitTimeout, WaitError, ExitLoop,
         Stop, Restart, LeaveWait
    <2>3. \A v \in Worker : HandKept(v) \/ HandEmpty(v)
      BY <2>1, <2>2 DEF Goto, HandKept, HandEmpty, IInv, TypeOK
    <2>4. QED
      BY <1>0, <2>1, <2>3, IdleStep
  <1>4. ASSUME NEW w \in Worker, Heartbeat(w) \/ HeartbeatError(w) PROVE IInv'
    <2>1. /\ task[w].job \in Job /\ pc[w] = "work" /\ UNCHANGED effects
          /\ \A v \in Worker : v # w => HandKept(v)
      BY <1>4 DEF Heartbeat, HeartbeatError, Drop, Goto, HandKept, IInv, InHand, TypeOK
    <2>2. \/ HandEmpty(w)
          \/ /\ Owned(w, task[w].job) /\ pc'[w] = "work"
             /\ task'[w] = [task[w] EXCEPT !.beatDue = FALSE]
      BY <1>4 DEF Heartbeat, HeartbeatError, Drop, Goto, HandEmpty, IInv, TypeOK
    <2>3. CASE HeartbeatRow(w, task[w].job)
      BY <1>0, <2>1, <2>2, <2>3, HeartbeatRowStep
    <2>4. CASE HeartbeatError(w) /\ UNCHANGED tableVars
      <3>1. HandEmpty(w)
        BY <2>4 DEF HeartbeatError, Drop, Goto, HandEmpty, IInv, TypeOK
      <3>2. QED
        BY <1>0, <2>1, <2>4, <3>1, IdleStep
    <2>5. QED
      BY <1>4, <2>3, <2>4 DEF Heartbeat, HeartbeatError
  <1>5. ASSUME NEW w \in Worker, Complete(w) \/ CompleteError(w) \/ JobFails(w) PROVE IInv'
    <2> DEFINE j == task[w].job
               S == IF Owned(w, j) THEN {j} ELSE {}
    <2>1. /\ j \in Job /\ Busy(w) /\ HandEmpty(w) /\ UNCHANGED effects
          /\ \A v \in Worker : v # w => HandKept(v)
      BY <1>5 DEF Complete, CompleteError, JobFails, Drop, Goto, HandKept, HandEmpty, Busy,
         IInv, InHand, TypeOK
    <2>2. \A i \in S : i = j /\ Owned(w, j) /\ state[i] = "running"
      BY DEF Owned
    <2>3. \A v \in Worker : HandKept(v) /\ Busy(v) /\ ~task[v].slow => task[v].job \notin S
      BY <2>1, <2>2, PunctualOwns DEF HandKept, HandEmpty, Busy
    <2>4. CASE CompleteRow(w, j) /\ pc[w] = "complete"
      <3>1. EndLease(S, "done")
        BY <2>4 DEF CompleteRow
      <3>2. \A i \in S : attempt[i] \in effects[i]
        BY <2>1, <2>2, <2>4 DEF IInv, InHand, Executed, Busy
      <3>3. S \in SUBSET Job
        BY <2>1
      <3> HIDE DEF S
      <3>4. QED
        BY <1>0, <2>1, <2>2, <2>3, <3>1, <3>2, <3>3, EndLeaseStep
    <2>5. CASE FailRow(w, j)
      <3>1. \/ EndLease(S, "failed")
            \/ EndLease(S, "queued")
        BY <2>5 DEF FailRow
      <3>2. S \in SUBSET Job
        BY <2>1
      <3> HIDE DEF S
      <3>3. QED
        BY <1>0, <2>1, <2>2, <2>3, <3>1, <3>2, EndLeaseStep
    <2>6. CASE UNCHANGED tableVars
      BY <1>0, <2>1, <2>6, IdleStep
    <2>7. QED
      BY <1>5, <2>4, <2>5, <2>6 DEF Complete, CompleteError, JobFails
  <1>6. ASSUME Reclaim PROVE IInv'
    <2> DEFINE S == {j \in Job : Expired(j)}
    <2>1. EndLease(S, "queued") /\ UNCHANGED effects /\ \A v \in Worker : HandKept(v)
      BY <1>6 DEF Reclaim, ReclaimRows, HandKept
    <2>2. S \in SUBSET Job /\ \A j \in S : state[j] = "running" /\ Expired(j)
      BY DEF Expired
    <2>3. \A v \in Worker : Busy(v) /\ ~task[v].slow => task[v].job \notin S
      BY PunctualOwns
    <2> HIDE DEF S
    <2>4. QED
      BY <1>0, <2>1, <2>2, <2>3, EndLeaseStep
  <1>7. ASSUME NEW w \in Worker, Crash(w) PROVE IInv'
    <2>1. /\ UNCHANGED effects /\ HandEmpty(w)
          /\ \A v \in Worker : v # w => HandKept(v)
      BY <1>7 DEF Crash, Drop, Goto, HandKept, HandEmpty, IInv, TypeOK
    <2>2. CASE pc[w] = "claiming"
      BY <1>0, <1>7, <2>1, <2>2, UnlockStep DEF Crash
    <2>3. CASE pc[w] # "claiming"
      BY <1>0, <1>7, <2>1, <2>3, IdleStep DEF Crash
    <2>4. QED
      BY <2>2, <2>3
  <1>8. CASE UNCHANGED vars
    BY <1>0, <1>8, IdleStep DEF vars, procVars, HandKept
  <1>9. QED
    BY <1>0, <1>1, <1>2, <1>3, <1>4, <1>5, <1>6, <1>7, <1>8, BeginClaimStep, WorkDoneStep,
       EnqueueStep, TickStep, FallBehindStep
    DEF Next, Step, Untimed, BodyEnds, Trouble

LEMMA Invariance == Spec => []IInv
  BY InitIInv, NextIInv, PTL DEF Spec

\* Type correctness of the queue and its workers.
THEOREM Typing == Spec => []TypeOK
  BY Invariance, PTL DEF IInv

\* No attempt is ever in two hands.
THEOREM AttemptsAreExclusive == Spec => []OneWorkerPerAttempt
  BY Invariance, PTL DEF IInv

\* The fence: what a row records as done is its latest attempt, executed.
THEOREM FencedCompletion == Spec => []DoneByLatestAttempt
  BY Invariance, PTL DEF IInv

\* The table's CHECK constraint on the lease columns is never hit.
THEOREM LeaseCheckHolds == Spec => []LeaseIffRunning
  BY Invariance, PTL DEF IInv

\* A worker in step with the clock keeps its lease, for every lease of at
\* least three ticks and every work time, draining or not.
THEOREM PunctualWorkersKeepLease == Spec => []PunctualKeepsLease
  <1>1. IInv => PunctualKeepsLease
    BY PunctualOwns DEF PunctualKeepsLease
  <1>2. QED
    BY <1>1, Invariance, PTL

-----------------------------------------------------------------------------
(* The queue implements its promise: every step is a step of JobPromise, or *)
(* changes nothing that JobPromise speaks of.                               *)

LEMMA ReturnOrFinish ==
  ASSUME IInv, NEW S \in SUBSET Job, EndLease(S, "queued"), UNCHANGED effects,
         \A j \in S : state[j] = "running"
  PROVE  [Promise!Next]_(Promise!pvars)
  <1>1. /\ state' = [j \in Job |-> IF j \in S THEN "queued" ELSE state[j]]
        /\ UNCHANGED <<attempt, effects>>
    BY DEF EndLease
  <1>2. CASE S = {}
    <2>1. state' = state
      BY <1>1, <1>2 DEF IInv, TypeOK, TableTypeOK
    <2>2. QED
      BY <1>1, <2>1 DEF Promise!pvars
  <1>3. CASE S # {}
    BY <1>1, <1>3 DEF Promise!Next, Promise!Return
  <1>4. QED
    BY <1>2, <1>3

\* The one-row forms of EndLease that finish a job or give it up.
LEMMA EndLeaseOne ==
  ASSUME IInv, NEW j \in Job, NEW newState \in {"done", "failed"}, EndLease({j}, newState)
  PROVE  state' = [state EXCEPT ![j] = newState] /\ attempt' = attempt
  BY DEF EndLease, IInv, TypeOK, TableTypeOK

LEMMA StepImplementsPromise ==
  ASSUME IInv, [Next]_vars PROVE [Promise!Next]_(Promise!pvars)
  <1> USE DEF Promise!pvars
  <1>1. ASSUME NEW w \in Worker, NEW j \in Job, ClaimRow(w, j), state[j] = "queued",
               UNCHANGED effects
        PROVE Promise!Next
    BY <1>1 DEF ClaimRow, Promise!Next, Promise!Start
  <1>2. ASSUME NEW w \in Worker, Complete(w) \/ CompleteError(w)
        PROVE [Promise!Next]_(Promise!pvars)
    <2> DEFINE j == task[w].job
    <2>1. /\ j \in Job /\ UNCHANGED effects
          /\ Owned(w, j) => state[j] = "running" /\ attempt[j] \in effects[j]
      BY <1>2 DEF Complete, CompleteError, IInv, InHand, Executed, Busy, Owned
    <2>2. CASE CompleteRow(w, j) /\ Owned(w, j)
      <3>1. state' = [state EXCEPT ![j] = "done"] /\ attempt' = attempt
        BY <2>1, <2>2, EndLeaseOne DEF CompleteRow
      <3>2. Promise!Finish(j)
        BY <2>1, <2>2, <3>1 DEF Promise!Finish
      <3>3. QED
        BY <2>1, <3>2 DEF Promise!Next
    <2>3. CASE CompleteRow(w, j) /\ ~Owned(w, j)
      BY <2>1, <2>3 DEF CompleteRow, EndLease, IInv, TypeOK, TableTypeOK
    <2>4. CASE UNCHANGED tableVars
      BY <2>1, <2>4 DEF tableVars
    <2>5. QED
      BY <1>2, <2>2, <2>3, <2>4 DEF Complete, CompleteError
  <1>3. ASSUME NEW w \in Worker, JobFails(w) PROVE [Promise!Next]_(Promise!pvars)
    <2> DEFINE j == task[w].job
               S == IF Owned(w, j) THEN {j} ELSE {}
    <2>1. j \in Job /\ FailRow(w, j) /\ UNCHANGED effects /\ S \in SUBSET Job
      BY <1>3 DEF JobFails, IInv, InHand
    <2>2. \A i \in S : state[i] = "running"
      BY DEF Owned
    <2>3. CASE Owned(w, j) /\ attempt[j] >= MaxAttempts
      <3>1. state' = [state EXCEPT ![j] = "failed"] /\ attempt' = attempt
        BY <2>1, <2>3, EndLeaseOne DEF FailRow
      <3>2. Promise!GiveUp(j)
        BY <2>1, <2>3, <3>1 DEF Promise!GiveUp, Owned
      <3>3. QED
        BY <2>1, <3>2 DEF Promise!Next
    <2>4. CASE ~Owned(w, j)
      BY <2>1, <2>4 DEF FailRow, EndLease, IInv, TypeOK, TableTypeOK
    <2>5. CASE ~(attempt[j] >= MaxAttempts)
      <3>1. EndLease(S, "queued")
        BY <2>1, <2>5 DEF FailRow
      <3> HIDE DEF S
      <3>2. QED
        BY <2>1, <2>2, <3>1, ReturnOrFinish
    <2>6. QED
      BY <2>3, <2>4, <2>5
  <1>4. ASSUME Reclaim PROVE [Promise!Next]_(Promise!pvars)
    BY <1>4, ReturnOrFinish DEF Reclaim, ReclaimRows, Expired
  <1>5. ASSUME NEW w \in Worker, WorkDone(w) PROVE Promise!Next
    <2>1. task[w].job \in Job /\ task[w].attempt \in 1..attempt[task[w].job]
      BY <1>5 DEF WorkDone, IInv, InHand, Busy
    <2>2. Promise!RunBody(task[w].job, task[w].attempt)
      BY <1>5, <2>1 DEF WorkDone, tableVars, Promise!RunBody
    <2>3. QED
      BY <2>1, <2>2 DEF Promise!Next
  <1>6. ASSUME NEW j \in Job, Enqueue(j) PROVE Promise!Next
    BY <1>6 DEF Enqueue, InsertRow, Promise!Next, Promise!Submit
  <1>7. ASSUME NEW w \in Worker, ClaimAnswered(w) \/ ClaimError(w)
        PROVE [Promise!Next]_(Promise!pvars)
    <2>1. /\ task[w].job \in Job /\ state[task[w].job] = "queued" /\ UNCHANGED effects
          /\ ClaimRow(w, task[w].job) \/ UnlockRow(task[w].job)
      BY <1>7 DEF ClaimAnswered, ClaimError, IInv, InHand
    <2>2. QED
      BY <1>1, <2>1 DEF UnlockRow
  <1>8. ASSUME NEW w \in Worker,
               BeginClaim(w) \/ ClaimEmpty(w) \/ WakeUp(w) \/ Listen(w) \/ HearNotify(w)
               \/ WaitTimeout(w) \/ WaitError(w) \/ ExitLoop(w) \/ Heartbeat(w)
               \/ HeartbeatError(w) \/ FallBehind(w) \/ Stop(w) \/ Crash(w) \/ Restart(w)
        PROVE UNCHANGED <<state, attempt, effects>>
    BY <1>8 DEF BeginClaim, LockNext, ClaimEmpty, WakeUp, Listen, HearNotify, WaitTimeout,
       WaitError, ExitLoop, Heartbeat, HeartbeatError, HeartbeatRow, FallBehind, Stop, Crash,
       UnlockRow, Restart, LeaveWait, tableVars
  <1>9. CASE Tick \/ UNCHANGED vars
    BY <1>9 DEF Tick, vars, tableVars
  <1>10. QED
    BY <1>2, <1>3, <1>4, <1>5, <1>6, <1>7, <1>8, <1>9 DEF Next, Step, Untimed, BodyEnds, Trouble

\* At-least-once execution with exactly one recorded outcome, as JobPromise
\* states it, for every number of jobs, workers and mishaps.
THEOREM QueueKeepsPromise == Spec => PromiseSpec
  <1>1. Init => Promise!Init
    BY DEF Init, TableInit, Promise!Init
  <1>2. IInv /\ [Next]_vars => [Promise!Next]_(Promise!pvars)
    BY StepImplementsPromise
  <1>3. QED
    BY <1>1, <1>2, Invariance, PTL DEF Spec, PromiseSpec, Promise!Spec
=============================================================================
