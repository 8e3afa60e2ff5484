-------------------------- MODULE AdaptiveLimiter --------------------------
(***************************************************************************)
(* The AIMD concurrency limiter of architecture/resilience/backpressure:   *)
(* goroutines that take and give back slots, a FIFO queue of waiters woken *)
(* by closing their channels, and cancellation, which races with waking.   *)
(* A section under the mutex is one step; what happens outside it (the     *)
(* select on ready and ctx.Done, and taking the mutex again) is its own.   *)
(*                                                                         *)
(* limit is a float64 in the code; here it counts units of 1/Unit, and a   *)
(* multiplicative decrease is rounded down to a whole unit.                *)
(***************************************************************************)
EXTENDS Integers, SequencesExt

CONSTANTS Caller,    \* the goroutines that use the limiter
          Lower, Upper, Initial,  \* Config.Min, Max and Initial, in slots
          Unit,      \* units of the limit in one slot
          Increase,  \* Config.Increase, in units
          DecNum, DecDen  \* Config.Decrease is DecNum / DecDen

\* What Config.normalize establishes.
ASSUME LimiterAssumption ==
    /\ Lower \in Nat \ {0} /\ Initial \in Nat /\ Upper \in Nat
    /\ Lower <= Initial /\ Initial <= Upper
    /\ Unit \in Nat \ {0} /\ Increase \in Nat \ {0}
    /\ DecNum \in Nat \ {0} /\ DecDen \in Nat /\ DecNum < DecDen

VARIABLES limit,
          inFlight,
          waiters,    \* the callers in the list l.waiters, first in front
          ready,      \* callers whose channel is closed and not yet consumed
          pc,         \* where each caller is
          cancelled   \* callers waiting with a ctx that is done

vars == <<limit, inFlight, waiters, ready, pc, cancelled>>

\* waiting: at the select of Acquire; leaving: it has seen ctx.Done and is
\* about to take the mutex; running: Acquire has returned nil.
PC == {"idle", "waiting", "leaving", "running"}

TypeOK ==
    /\ limit \in (Lower * Unit)..(Upper * Unit)
    /\ inFlight \in Nat
    /\ waiters \in Seq(Caller)
    /\ ready \in SUBSET Caller
    /\ pc \in [Caller -> PC]
    /\ cancelled \in SUBSET Caller

Init ==
    /\ limit = Initial * Unit
    /\ inFlight = 0
    /\ waiters = <<>>
    /\ ready = {}
    /\ pc = [c \in Caller |-> "idle"]
    /\ cancelled = {}

Goto(c, l) == pc' = [pc EXCEPT ![c] = l]

\* int(l.limit).
Slots(lim) == lim \div Unit

Clamp(lim) == IF lim < Lower * Unit THEN Lower * Unit
              ELSE IF lim > Upper * Unit THEN Upper * Unit ELSE lim

\* updateLimitLocked.
NextLimit(slow) ==
    Clamp(IF slow THEN (limit * DecNum) \div DecDen ELSE limit + Increase)

\* How many waiters there is room for.
Room(lim, busy, queue) ==
    LET free == Slots(lim) - busy
    IN  IF free <= 0 THEN 0 ELSE IF free < Len(queue) THEN free ELSE Len(queue)

\* Variants for mutation checks: one waiter per release; the list from its back.
WakeOne(lim, busy, queue, woken) ==
    LET n == IF Room(lim, busy, queue) = 0 THEN 0 ELSE 1
    IN  /\ waiters' = SubSeq(queue, n + 1, Len(queue))
        /\ inFlight' = busy + n
        /\ ready' = woken \cup {queue[i] : i \in 1..n}
WakeLast(lim, busy, queue, woken) ==
    LET rest == Len(queue) - Room(lim, busy, queue)
    IN  /\ waiters' = SubSeq(queue, 1, rest)
        /\ inFlight' = busy + Len(queue) - rest
        /\ ready' = woken \cup {queue[i] : i \in (rest + 1)..Len(queue)}

\* wakeLocked, from a state with limit lim, busy slots taken and queue
\* waiting: each waiter woken is given its slot on the spot.
Wake(lim, busy, queue, woken) ==
    LET n == Room(lim, busy, queue)
    IN  /\ waiters' = SubSeq(queue, n + 1, Len(queue))
        /\ inFlight' = busy + n
        /\ ready' = woken \cup {queue[i] : i \in 1..n}
-----------------------------------------------------------------------------

\* Acquire with a ctx that is done already returns its error and changes
\* nothing; otherwise there are two ways through the first section.
AcquireFast(c) ==
    /\ pc[c] = "idle"
    /\ waiters = <<>> /\ inFlight < Slots(limit)
    /\ inFlight' = inFlight + 1
    /\ Goto(c, "running")
    /\ UNCHANGED <<limit, waiters, ready, cancelled>>

AcquireQueued(c) ==
    /\ pc[c] = "idle"
    /\ waiters # <<>> \/ inFlight >= Slots(limit)
    /\ waiters' = Append(waiters, c)
    /\ Goto(c, "waiting")
    /\ UNCHANGED <<limit, inFlight, ready, cancelled>>

\* case <-w.ready: the slot is already counted for this caller.
AcquireGranted(c) ==
    /\ pc[c] = "waiting" /\ c \in ready
    /\ ready' = ready \ {c}
    /\ Goto(c, "running")
    /\ cancelled' = cancelled \ {c}
    /\ UNCHANGED <<limit, inFlight, waiters>>

\* case <-ctx.Done().  When both are ready, select may choose either.
SeeDone(c) ==
    /\ pc[c] = "waiting" /\ c \in cancelled
    /\ Goto(c, "leaving")
    /\ UNCHANGED <<limit, inFlight, waiters, ready, cancelled>>

\* Variant for a mutation check: the race of waking and cancelling ignored.
AcquireCancelledBlindly(c) ==
    /\ pc[c] = "leaving"
    /\ waiters' = Remove(waiters, c)
    /\ ready' = ready \ {c}
    /\ UNCHANGED <<inFlight, limit>>
    /\ Goto(c, "idle")
    /\ cancelled' = cancelled \ {c}

\* Variant for a mutation check: the slot is returned, nobody is woken.
AcquireCancelledQuietly(c) ==
    /\ pc[c] = "leaving"
    /\ waiters' = Remove(waiters, c)
    /\ ready' = ready \ {c}
    /\ inFlight' = IF c \in ready THEN inFlight - 1 ELSE inFlight
    /\ Goto(c, "idle")
    /\ cancelled' = cancelled \ {c}
    /\ UNCHANGED limit

\* The cancelled caller, under the mutex: it gives back a slot that has
\* reached it meanwhile, or leaves the list.  Its next call has a new ctx.
AcquireCancelled(c) ==
    /\ pc[c] = "leaving"
    /\ \/ c \in ready /\ Wake(limit, inFlight - 1, waiters, ready \ {c})
       \/ /\ c \notin ready
          /\ \E i \in 1..Len(waiters) :
                 waiters[i] = c /\ waiters' = RemoveAt(waiters, i)
          /\ UNCHANGED <<inFlight, ready>>
    /\ Goto(c, "idle")
    /\ cancelled' = cancelled \ {c}
    /\ UNCHANGED limit

\* Release with a latency sample above the threshold, or not.
Release(c) ==
    /\ pc[c] = "running"
    /\ \E slow \in BOOLEAN :
         /\ limit' = NextLimit(slow)
         /\ Wake(limit', inFlight - 1, waiters, ready)
    /\ Goto(c, "idle")
    /\ UNCHANGED cancelled

\* The ctx of a waiting caller is done.
Cancel(c) ==
    /\ pc[c] = "waiting" /\ c \notin cancelled
    /\ cancelled' = cancelled \cup {c}
    /\ UNCHANGED <<limit, inFlight, waiters, ready, pc>>

Leave(c) == AcquireGranted(c) \/ SeeDone(c) \/ AcquireCancelled(c)

Next == \E c \in Caller :
    \/ AcquireFast(c) \/ AcquireQueued(c) \/ Leave(c)
    \/ Release(c) \/ Cancel(c)

Spec == Init /\ [][Next]_vars

\* Goroutines that can run do, and whoever holds a slot gives it back.
FairSpec ==
    Spec /\ \A c \in Caller : WF_vars(Leave(c)) /\ WF_vars(Release(c))
-----------------------------------------------------------------------------
(* Properties *)

Waiting == ToSet(waiters)

\* Who has a slot: the running, and those woken who do not know it yet, even
\* when they are on their way out with ctx.Err().
Holders == {c \in Caller : pc[c] = "running"} \cup ready

\* inFlight counts the holders: no slot leaks, and none is returned twice,
\* when a cancellation meets a wake-up.
SlotsAccounted == inFlight = Cardinality(Holders)

\* No caller waits while there is a free slot: a caller that gives up with a
\* slot in hand, and a limit that grows by several slots, wake all they can.
NoIdleSlot == waiters # <<>> => inFlight >= Slots(limit)

\* First come, first served: whoever gets a slot, at once or after waiting,
\* leaves nobody behind in the queue who was there before.
NoOvertaking ==
    [][\A i \in 1..Len(waiters), c \in Holders' \ Holders :
         (\A k \in 1..i : waiters[k] # c) => waiters[i] \notin Waiting']_vars

\* Every wait ends, with a slot or with ctx.Err(), however often others give
\* up and whatever the latencies do to the limit.
EveryWaitEnds ==
    \A c \in Caller : pc[c] = "waiting" ~> pc[c] \in {"running", "idle"}
=============================================================================
