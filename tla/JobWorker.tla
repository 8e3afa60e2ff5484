----------------------------- MODULE JobWorker -----------------------------
(***************************************************************************)
(* The worker processes of architecture/background-jobs/worker over the    *)
(* job table: the loop of main.go (claim, work under heartbeats, complete),*)
(* the wait of listen.go, the separate `-reclaim` runs, and what can       *)
(* happen to a process: it crashes, is told to stop, falls behind the      *)
(* clock, or loses the answer of a statement.                              *)
(***************************************************************************)
EXTENDS JobTable

CONSTANTS NoJob,      \* no job in hand
          Work,       \* the flag -work: how many ticks a job body takes
          Listening,  \* the workers started with -mode listen
          Failing,    \* the jobs whose handler reports errors through Fail
          MaxFaults   \* bound: how many mishaps a behaviour has in all

\* The heartbeat period, lease/3.
Beat == Lease \div 3

ASSUME JobWorkerAssumption ==
    /\ NoJob \notin Job
    /\ Lease >= 3
    /\ Work \in Nat
    /\ Listening \subseteq Worker
    /\ Failing \subseteq Job
    /\ MaxFaults \in Nat

VARIABLES pc,        \* where each worker process is
          task,      \* what it has in hand while it claims, works, completes
          draining,  \* its context is done: SIGTERM, or the -for deadline
          notified,  \* a NOTIFY has reached its listening connection
          faults,    \* how many mishaps may still happen
          effects    \* history: the attempts of a job whose body has ended

procVars == <<pc, task, draining, notified>>
vars == <<tableVars, procVars, faults, effects>>

\* loop: top of the loop of run(); claiming: the claim holds its row lock;
\* sleeping: the poll pause; connect, listening: inside WaitForJob; work:
\* inside doWork; complete: about to run Complete; down: no process.
PC == {"down", "loop", "claiming", "sleeping", "connect", "listening",
       "work", "complete"}

\* beatDue: a tick is waiting in the ticker's channel.  slow: during this
\* task the process has fallen behind the clock (a pause, a stalled node).
Task == [job : Job \cup {NoJob}, attempt : Nat, beatIn : 0..Beat,
         beatDue : BOOLEAN, workLeft : 0..Work, slow : BOOLEAN]

NoTask == [job |-> NoJob, attempt |-> 0, beatIn |-> 0, beatDue |-> FALSE,
           workLeft |-> 0, slow |-> FALSE]

TypeOK ==
    /\ TableTypeOK
    /\ pc \in [Worker -> PC]
    /\ task \in [Worker -> Task]
    /\ draining \in [Worker -> BOOLEAN]
    /\ notified \in [Worker -> BOOLEAN]
    /\ faults \in 0..MaxFaults
    /\ effects \in [Job -> SUBSET Nat]

Init ==
    /\ TableInit
    /\ pc = [w \in Worker |-> "loop"]
    /\ task = [w \in Worker |-> NoTask]
    /\ draining = [w \in Worker |-> FALSE]
    /\ notified = [w \in Worker |-> FALSE]
    /\ faults = MaxFaults
    /\ effects = [j \in Job |-> {}]

Goto(w, l) == pc' = [pc EXCEPT ![w] = l]

\* The process leaves what it was doing, at label l, with nothing in hand.
Drop(w, l) == Goto(w, l) /\ task' = [task EXCEPT ![w] = NoTask]

Mishap == faults > 0 /\ faults' = faults - 1

\* Variant for a mutation check: the trigger on INSERT only.
NotifyInsertsOnly ==
    notified' = [w \in Worker |->
        \/ notified[w]
        \/ /\ pc[w] = "listening"
           /\ \E j \in Job : state'[j] = "queued" /\ state[j] = "absent"]

\* The triggers of sql/01-schema.sql: a row that becomes queued, by an
\* insert or by an update, notifies every connection that has run LISTEN.
Notify ==
    notified' = [w \in Worker |->
        \/ notified[w]
        \/ /\ pc[w] = "listening"
           /\ \E j \in Job : state'[j] = "queued" /\ state[j] # "queued"]
-----------------------------------------------------------------------------
(* The claim and the two ways to wait for work *)

BeginClaim(w) ==
    /\ pc[w] = "loop" /\ ~draining[w]
    /\ \E j \in Job :
         /\ LockNext(w, j)
         /\ task' = [task EXCEPT ![w].job = j]
    /\ Goto(w, "claiming")
    /\ UNCHANGED <<draining, notified, faults, effects>>

\* The claim commits, its answer arrives and doWork arms its two timers.
ClaimAnswered(w) ==
    LET j == task[w].job IN
    /\ pc[w] = "claiming"
    /\ ClaimRow(w, j)
    /\ task' = [task EXCEPT ![w] =
                  [job |-> j, attempt |-> attempt[j] + 1, beatIn |-> Beat,
                   beatDue |-> FALSE, workLeft |-> Work, slow |-> FALSE]]
    /\ Goto(w, "work")
    /\ UNCHANGED <<draining, notified, faults, effects>>

\* Claim returns an error, because its context is done or the connection
\* failed; the statement may have committed all the same.  run() ends.
ClaimError(w) ==
    LET j == task[w].job IN
    /\ pc[w] = "claiming"
    /\ ClaimRow(w, j) \/ UnlockRow(j)
    /\ IF draining[w] THEN UNCHANGED faults ELSE Mishap
    /\ Drop(w, "down")
    /\ UNCHANGED <<draining, notified, effects>>

ClaimEmpty(w) ==
    /\ pc[w] = "loop" /\ ~draining[w]
    /\ Claimable = {}
    /\ Goto(w, IF w \in Listening THEN "connect" ELSE "sleeping")
    /\ UNCHANGED <<tableVars, task, draining, notified, faults, effects>>

WakeUp(w) ==
    /\ pc[w] = "sleeping"
    /\ Goto(w, "loop")
    /\ UNCHANGED <<tableVars, task, draining, notified, faults, effects>>

\* WaitForJob opens a new connection and runs LISTEN on it: what was
\* notified before this moment is not delivered.
Listen(w) ==
    /\ pc[w] = "connect"
    /\ Goto(w, "listening")
    /\ UNCHANGED <<tableVars, task, draining, notified, faults, effects>>

LeaveWait(w, l) ==
    /\ Goto(w, l)
    /\ notified' = [notified EXCEPT ![w] = FALSE]
    /\ UNCHANGED <<tableVars, task, draining, effects>>

HearNotify(w) ==
    /\ pc[w] = "listening" /\ notified[w]
    /\ LeaveWait(w, "loop")
    /\ UNCHANGED faults

\* Variant for a mutation check: the wait ends with the worker's context only.
WaitTimeoutWhenDone(w) ==
    /\ pc[w] = "listening" /\ draining[w]
    /\ LeaveWait(w, "loop")
    /\ UNCHANGED faults

\* The 2 s safety net of WaitForJob.
WaitTimeout(w) ==
    /\ pc[w] = "listening"
    /\ LeaveWait(w, "loop")
    /\ UNCHANGED faults

\* WaitForJob fails: the worker goes round its loop when its own context is
\* done, and ends when it is not.
WaitError(w) ==
    /\ pc[w] \in {"connect", "listening"}
    /\ \/ draining[w] /\ LeaveWait(w, "loop") /\ UNCHANGED faults
       \/ ~draining[w] /\ LeaveWait(w, "down") /\ Mishap

ExitLoop(w) ==
    /\ pc[w] = "loop" /\ draining[w]
    /\ Goto(w, "down")
    /\ UNCHANGED <<tableVars, task, draining, notified, faults, effects>>
-----------------------------------------------------------------------------
(* doWork and what follows it *)

\* Variant for a mutation check: SIGTERM makes doWork sleep out the rest of
\* the work without heartbeats, as its comment warns against.
HeartbeatUnlessDraining(w) ==
    LET j == task[w].job IN
    /\ pc[w] = "work" /\ task[w].beatDue
    /\ IF draining[w] THEN UNCHANGED tableVars ELSE HeartbeatRow(w, j)
    /\ IF Owned(w, j) \/ draining[w]
       THEN task' = [task EXCEPT ![w].beatDue = FALSE] /\ UNCHANGED pc
       ELSE Drop(w, "loop")
    /\ UNCHANGED <<draining, notified, faults, effects>>

\* case <-tick.C.  A worker that no longer owns the row abandons the job.
\* SIGTERM makes no difference here.
Heartbeat(w) ==
    LET j == task[w].job IN
    /\ pc[w] = "work" /\ task[w].beatDue
    /\ HeartbeatRow(w, j)
    /\ IF Owned(w, j)
       THEN task' = [task EXCEPT ![w].beatDue = FALSE] /\ UNCHANGED pc
       ELSE Drop(w, "loop")
    /\ UNCHANGED <<draining, notified, faults, effects>>

\* The heartbeat's answer is an error, whether it was applied or not: the
\* job is abandoned, still running under this worker's name.
HeartbeatError(w) ==
    /\ pc[w] = "work" /\ task[w].beatDue
    /\ HeartbeatRow(w, task[w].job) \/ UNCHANGED tableVars
    /\ Mishap
    /\ Drop(w, "loop")
    /\ UNCHANGED <<draining, notified, effects>>

\* case <-deadline: the body has run to its end.
WorkDone(w) ==
    LET j == task[w].job IN
    /\ pc[w] = "work" /\ task[w].workLeft = 0
    /\ effects' = [effects EXCEPT ![j] = @ \cup {task[w].attempt}]
    /\ Goto(w, "complete")
    /\ UNCHANGED <<tableVars, task, draining, notified, faults>>

Complete(w) ==
    /\ pc[w] = "complete"
    /\ CompleteRow(w, task[w].job)
    /\ Drop(w, "loop")
    /\ UNCHANGED <<draining, notified, faults, effects>>

\* Complete answers with an error, whether it was applied or not; run() ends.
CompleteError(w) ==
    /\ pc[w] = "complete"
    /\ CompleteRow(w, task[w].job) \/ UNCHANGED tableVars
    /\ Mishap
    /\ Drop(w, "down")
    /\ UNCHANGED <<draining, notified, effects>>

\* A handler whose body ends in an error hands the job back through Fail.
\* The loop of main.go, whose bodies never fail, has no such handler: with
\* Failing = {} this is that program, otherwise it is one that uses Fail.
JobFails(w) ==
    /\ pc[w] = "work" /\ task[w].workLeft = 0
    /\ task[w].job \in Failing
    /\ FailRow(w, task[w].job)
    /\ Drop(w, "loop")
    /\ Notify
    /\ UNCHANGED <<draining, faults, effects>>
-----------------------------------------------------------------------------
(* Producers, the reclaim runs, the clock and the mishaps *)

Enqueue(j) ==
    /\ InsertRow(j)
    /\ Notify
    /\ UNCHANGED <<pc, task, draining, faults, effects>>

Reclaim ==
    /\ ReclaimRows
    /\ Notify
    /\ UNCHANGED <<pc, task, draining, faults, effects>>

\* A process that keeps up with the clock serves a due timer, and completes,
\* within the tick.
KeepsUp(w) ==
    \/ task[w].slow
    \/ pc[w] = "work" /\ ~task[w].beatDue /\ task[w].workLeft > 0
    \/ pc[w] \notin {"work", "complete"}

TickTask(t) ==
    [t EXCEPT !.beatIn = IF t.beatIn = 1 THEN Beat ELSE t.beatIn - 1,
              !.beatDue = t.beatDue \/ t.beatIn = 1,
              !.workLeft = IF t.workLeft = 0 THEN 0 ELSE t.workLeft - 1]

Tick ==
    /\ \A w \in Worker : KeepsUp(w)
    /\ left' = [j \in Job |-> IF state[j] = "running" /\ left[j] >= 0
                              THEN left[j] - 1 ELSE left[j]]
    /\ task' = [w \in Worker |-> IF pc[w] = "work" THEN TickTask(task[w])
                                 ELSE task[w]]
    /\ UNCHANGED <<state, attempt, leasedBy, rowLock, pc, draining, notified,
                   faults, effects>>

FallBehind(w) ==
    /\ pc[w] \in {"work", "complete"} /\ ~task[w].slow
    /\ task' = [task EXCEPT ![w].slow = TRUE]
    /\ Mishap
    /\ UNCHANGED <<tableVars, pc, draining, notified, effects>>

Stop(w) ==
    /\ pc[w] # "down" /\ ~draining[w]
    /\ draining' = [draining EXCEPT ![w] = TRUE]
    /\ Mishap
    /\ UNCHANGED <<tableVars, pc, task, notified, effects>>

\* The server rolls back the claim of a connection that has gone away.
Crash(w) ==
    /\ pc[w] # "down"
    /\ IF pc[w] = "claiming" THEN UnlockRow(task[w].job)
                             ELSE UNCHANGED tableVars
    /\ Drop(w, "down")
    /\ notified' = [notified EXCEPT ![w] = FALSE]
    /\ Mishap
    /\ UNCHANGED <<draining, effects>>

Restart(w) ==
    /\ pc[w] = "down"
    /\ Goto(w, "loop")
    /\ draining' = [draining EXCEPT ![w] = FALSE]
    /\ UNCHANGED <<tableVars, task, notified, faults, effects>>
-----------------------------------------------------------------------------

\* What a live process does when nothing goes wrong; Untimed leaves out the two
\* steps that only the passage of time brings about.
Untimed(w) ==
    \/ BeginClaim(w) \/ ClaimAnswered(w) \/ ClaimEmpty(w)
    \/ Listen(w) \/ HearNotify(w) \/ ExitLoop(w)
    \/ Heartbeat(w) \/ Complete(w)

Step(w) == Untimed(w) \/ WakeUp(w) \/ WaitTimeout(w)

BodyEnds(w) == WorkDone(w) \/ JobFails(w)

Trouble(w) ==
    \/ ClaimError(w) \/ WaitError(w) \/ HeartbeatError(w)
    \/ CompleteError(w) \/ FallBehind(w) \/ Stop(w) \/ Crash(w)

Next ==
    \/ \E w \in Worker : Step(w) \/ BodyEnds(w) \/ Trouble(w) \/ Restart(w)
    \/ \E j \in Job : Enqueue(j)
    \/ Reclaim
    \/ Tick

Spec == Init /\ [][Next]_vars

\* Time passes, live processes run, processes that ended are started again
\* and someone keeps running `worker -reclaim`.  Mishaps are never owed, and
\* the timers of an idle worker (the poll interval, the timeout of WaitForJob)
\* only by the hypothesis of a property, as they hide what else should wake it.
FairSpec ==
    /\ Spec
    /\ WF_vars(Tick) /\ WF_vars(Reclaim)
    /\ \A w \in Worker : /\ WF_vars(Untimed(w)) /\ WF_vars(BodyEnds(w))
                         /\ WF_vars(Restart(w))
-----------------------------------------------------------------------------
(* Properties *)

\* Busy(w): w is executing the body of its job, or has just executed it.
Busy(w) == pc[w] \in {"work", "complete"}

\* No attempt of a job is ever in two hands: SKIP LOCKED in the claim, and
\* the attempt counter it advances, give every execution a number of its own.
OneWorkerPerAttempt ==
    \A v, w \in Worker :
        Busy(v) /\ Busy(w) /\ v # w /\ task[v].job = task[w].job
            => task[v].attempt # task[w].attempt

\* A worker that keeps up with the clock owns its job until it has completed
\* it, however long the work is against the lease and also while it drains
\* after SIGTERM: lease/3 and the heartbeats of doWork suffice.
PunctualKeepsLease ==
    \A w \in Worker : Busy(w) /\ ~task[w].slow => Owned(w, task[w].job)

\* The completion a row records is that of its latest attempt: a worker that
\* lost its lease cannot finish the job in the name of the attempt that
\* replaced its own (the fence leased_by = $2 of complete).
DoneByLatestAttempt ==
    \A j \in Job : state[j] = "done" => attempt[j] \in effects[j]

\* The schema's jobs_lease_chk never rejects a statement of queue.go.
LeaseIffRunning ==
    \A j \in Job : state[j] = "running" <=> leasedBy[j] # NoWorker

\* No wake-up is lost: a worker does not sleep on over a job that was queued
\* after its LISTEN, and a job that was queued when a worker has been notified
\* is claimed, all without a timer, though the claimer before it crashed, the
\* lease ran out and it was a reclaim that queued the job once more.  (Without
\* jobs_notify_requeue LISTEN would silently become polling:
\* sql/01-schema.sql, lines 58-62.)
WokenByNotify ==
    \A w \in Listening, j \in Job :
        /\ pc[w] = "listening" /\ state[j] # "queued"
             ~> pc[w] # "listening" \/ []<>(state[j] # "queued")
        /\ pc[w] = "listening" /\ notified[w] /\ state[j] = "queued"
             ~> state[j] # "queued"

TimeoutsRun == \A w \in Listening : WF_vars(WaitTimeout(w))
PollersRun == \A w \in Worker \ Listening : WF_vars(WakeUp(w))

\* A job that was queued does not stay queued or running for ever, though
\* workers crash, stop and lag, and though what is queued before LISTEN notifies
\* nobody.  Either timer is enough: the timeout of WaitForJob where no poller
\* wakes up, and the poll interval where no timeout strikes.  (The instance has
\* a worker of each kind.)
EventuallySettled ==
    TimeoutsRun \/ PollersRun
        => \A j \in Job : state[j] = "queued" ~> state[j] \in {"done", "failed"}

\* The queue keeps its promise: see JobPromise.
Promise == INSTANCE JobPromise WITH
               status <- state, tries <- attempt, executed <- effects
PromiseSpec == Promise!Spec
=============================================================================
