----------------------------- MODULE JobPromise -----------------------------
(***************************************************************************)
(* What the job queue promises, with the leases, clocks, row locks and     *)
(* worker processes left out.  A job is started any number of times; each  *)
(* start is an attempt with a number of its own; the body of any attempt   *)
(* already started may run to its end at any moment, even twice at once    *)
(* with another attempt's (at-least-once execution); but the job is        *)
(* recorded as done only for its latest attempt, only after the body of    *)
(* that attempt has run to its end, and it is given up only when its       *)
(* attempts are used up.                                                   *)
(***************************************************************************)
EXTENDS Integers

CONSTANTS Job, MaxAttempts

VARIABLES status, tries, executed

pvars == <<status, tries, executed>>

Init ==
    /\ status = [j \in Job |-> "absent"]
    /\ tries = [j \in Job |-> 0]
    /\ executed = [j \in Job |-> {}]

Submit(j) ==
    /\ status[j] = "absent"
    /\ status' = [status EXCEPT ![j] = "queued"]
    /\ UNCHANGED <<tries, executed>>

Start(j) ==
    /\ status[j] = "queued"
    /\ status' = [status EXCEPT ![j] = "running"]
    /\ tries' = [tries EXCEPT ![j] = @ + 1]
    /\ UNCHANGED executed

RunBody(j, a) ==
    /\ a \in 1..tries[j]
    /\ executed' = [executed EXCEPT ![j] = @ \cup {a}]
    /\ UNCHANGED <<status, tries>>

Finish(j) ==
    /\ status[j] = "running"
    /\ tries[j] \in executed[j]
    /\ status' = [status EXCEPT ![j] = "done"]
    /\ UNCHANGED <<tries, executed>>

GiveUp(j) ==
    /\ status[j] = "running"
    /\ tries[j] >= MaxAttempts
    /\ status' = [status EXCEPT ![j] = "failed"]
    /\ UNCHANGED <<tries, executed>>

\* Some running jobs go back to the queue.
Return(S) ==
    /\ S # {}
    /\ \A j \in S : status[j] = "running"
    /\ status' = [j \in Job |-> IF j \in S THEN "queued" ELSE status[j]]
    /\ UNCHANGED <<tries, executed>>

Next ==
    \/ \E j \in Job :
         \/ Submit(j) \/ Start(j) \/ Finish(j) \/ GiveUp(j)
         \/ \E a \in 1..tries[j] : RunBody(j, a)
    \/ \E S \in SUBSET Job : Return(S)

Spec == Init /\ [][Next]_pvars
=============================================================================
