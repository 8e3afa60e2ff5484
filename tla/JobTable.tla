------------------------------ MODULE JobTable ------------------------------
(***************************************************************************)
(* The PostgreSQL table of architecture/background-jobs and the SQL        *)
(* statements of worker/queue.go that change it.  A statement is atomic at *)
(* its commit, except the claim: its subquery locks a row first (FOR       *)
(* UPDATE SKIP LOCKED) and the update commits in a step of its own.        *)
(*                                                                         *)
(* Time is counted in ticks.  left[j] is how many ticks remain until       *)
(* leased_until; -1 stands for every leased_until < now().                 *)
(***************************************************************************)
EXTENDS Integers

CONSTANTS Job,          \* the ids of the rows
          Worker,       \* the worker identities written to leased_by
          NoWorker,     \* SQL NULL in leased_by; no holder of a row lock
          Lease,        \* the lease, in ticks
          MaxAttempts   \* the column max_attempts

ASSUME JobTableAssumption ==
    /\ Job \subseteq Nat
    /\ NoWorker \notin Worker
    /\ Lease \in Nat \ {0}
    /\ MaxAttempts \in Nat \ {0}

VARIABLES state,     \* "absent" until inserted, then the column state
          attempt,
          leasedBy,
          left,      \* meaningful for a running row, 0 otherwise
          rowLock    \* the worker whose open claim holds the row lock

tableVars == <<state, attempt, leasedBy, left, rowLock>>

State == {"absent", "queued", "running", "done", "failed"}

TableTypeOK ==
    /\ state \in [Job -> State]
    /\ attempt \in [Job -> Nat]
    /\ leasedBy \in [Job -> Worker \cup {NoWorker}]
    /\ left \in [Job -> -1..Lease]
    /\ rowLock \in [Job -> Worker \cup {NoWorker}]

TableInit ==
    /\ state = [j \in Job |-> "absent"]
    /\ attempt = [j \in Job |-> 0]
    /\ leasedBy = [j \in Job |-> NoWorker]
    /\ left = [j \in Job |-> 0]
    /\ rowLock = [j \in Job |-> NoWorker]

-----------------------------------------------------------------------------

\* WHERE leased_by = $2 AND state = 'running': the fence of heartbeat,
\* complete and fail.
Owned(w, j) == state[j] = "running" /\ leasedBy[j] = w

\* Variant for a mutation check: the subquery without FOR UPDATE.
ClaimableUnlocked == {j \in Job : state[j] = "queued"}

\* What the claim's subquery can return: queued and not locked by a claim.
Claimable == {j \in Job : state[j] = "queued" /\ rowLock[j] = NoWorker}

Expired(j) == state[j] = "running" /\ left[j] < 0

InsertRow(j) ==
    /\ state[j] = "absent"
    /\ state' = [state EXCEPT ![j] = "queued"]
    /\ UNCHANGED <<attempt, leasedBy, left, rowLock>>

\* SELECT ... ORDER BY run_at, id FOR UPDATE SKIP LOCKED LIMIT 1.
LockNext(w, j) ==
    /\ j \in Claimable
    /\ \A k \in Claimable : j <= k
    /\ rowLock' = [rowLock EXCEPT ![j] = w]
    /\ UNCHANGED <<state, attempt, leasedBy, left>>

\* The claim's transaction rolls back.
UnlockRow(j) ==
    /\ rowLock' = [rowLock EXCEPT ![j] = NoWorker]
    /\ UNCHANGED <<state, attempt, leasedBy, left>>

\* Variant for a mutation check: attempt is left to Fail to count.
ClaimRowUncounted(w, j) ==
    /\ state' = [state EXCEPT ![j] = "running"]
    /\ leasedBy' = [leasedBy EXCEPT ![j] = w]
    /\ left' = [left EXCEPT ![j] = Lease]
    /\ rowLock' = [rowLock EXCEPT ![j] = NoWorker]
    /\ UNCHANGED attempt

ClaimRow(w, j) ==
    /\ state' = [state EXCEPT ![j] = "running"]
    /\ attempt' = [attempt EXCEPT ![j] = @ + 1]
    /\ leasedBy' = [leasedBy EXCEPT ![j] = w]
    /\ left' = [left EXCEPT ![j] = Lease]
    /\ rowLock' = [rowLock EXCEPT ![j] = NoWorker]

HeartbeatRow(w, j) ==
    /\ left' = IF Owned(w, j) THEN [left EXCEPT ![j] = Lease] ELSE left
    /\ UNCHANGED <<state, attempt, leasedBy, rowLock>>

\* A row leaves "running": the lease columns become NULL.
EndLease(S, newState) ==
    /\ state' = [j \in Job |-> IF j \in S THEN newState ELSE state[j]]
    /\ leasedBy' = [j \in Job |-> IF j \in S THEN NoWorker ELSE leasedBy[j]]
    /\ left' = [j \in Job |-> IF j \in S THEN 0 ELSE left[j]]
    /\ UNCHANGED <<attempt, rowLock>>

\* Variant for a mutation check: complete without AND leased_by = $2.
CompleteRowUnfenced(w, j) == EndLease(IF state[j] = "running" THEN {j} ELSE {}, "done")

CompleteRow(w, j) == EndLease(IF Owned(w, j) THEN {j} ELSE {}, "done")

FailRow(w, j) ==
    EndLease(IF Owned(w, j) THEN {j} ELSE {},
             IF attempt[j] >= MaxAttempts THEN "failed" ELSE "queued")

\* Variant for a mutation check: a reclaim that sets a state the schema does
\* not know.
ReclaimRowsToExpired ==
    LET S == {j \in Job : Expired(j)} IN S # {} /\ EndLease(S, "expired")

ReclaimRows ==
    LET S == {j \in Job : Expired(j)}
    IN  S # {} /\ EndLease(S, "queued")
=============================================================================
