--------------------------- MODULE ClickPublisher ---------------------------
(***************************************************************************)
(* The click publisher of capstone/shortlinks in its asynchronous mode:    *)
(* HTTP handlers that put clicks into a bounded channel, one goroutine     *)
(* that publishes them to the broker, and Close, which shuts the channel   *)
(* while handlers may still be at it and drains it within a deadline.      *)
(*                                                                         *)
(* mu is a Go RWMutex: a writer that waits for it keeps new readers out.   *)
(***************************************************************************)
EXTENDS Naturals, FiniteSetsExt

CONSTANTS Handler,
          Buffer,    \* capacity of the channel
          MaxClicks  \* bound: how many clicks there are in all

ASSUME PublisherAssumption ==
    /\ IsFiniteSet(Handler)
    /\ Buffer \in Nat \ {0} /\ MaxClicks \in Nat

VARIABLES pc,         \* where each handler is in ClickErr
          queue,      \* how many clicks are in the channel
          chClosed,   \* close(p.queue) has been executed
          closed,     \* the flag p.closed
          loop,       \* where the publishing goroutine is
          closer,     \* where Close is
          aborted,    \* p.base is cancelled
          clickCount, \* how many clicks there have been
          Published, Dropped, Failed, Unsent, Late  \* the counters

counters == <<Published, Dropped, Failed, Unsent, Late>>
publisherVars == <<pc, queue, chClosed, closed, loop, closer, aborted, clickCount,
                   counters>>

\* arrived: about to take the read lock; locked: holds it; sending: has seen
\* that closed is not set.
HandlerPC == {"idle", "arrived", "locked", "sending"}

\* got: a click received, before p.base.Err(); publishing: in publish.
LoopPC == {"receive", "got", "publishing", "ended"}

\* locking: waits for the write lock; locked: holds it, closed is set; drain:
\* waits for the loop or the deadline; waitDone: after the abort.
CloserPC == {"open", "locking", "locked", "drain", "waitDone", "returned"}

PublisherTypeOK ==
    /\ pc \in [Handler -> HandlerPC]
    /\ queue \in 0..Buffer
    /\ chClosed \in BOOLEAN /\ closed \in BOOLEAN
    /\ loop \in LoopPC
    /\ closer \in CloserPC
    /\ aborted \in BOOLEAN
    /\ clickCount \in 0..MaxClicks
    /\ \A n \in {Published, Dropped, Failed, Unsent, Late} : n \in 0..MaxClicks

PublisherInit ==
    /\ pc = [h \in Handler |-> "idle"]
    /\ queue = 0 /\ chClosed = FALSE /\ closed = FALSE
    /\ loop = "receive" /\ closer = "open" /\ aborted = FALSE
    /\ clickCount = 0
    /\ Published = 0 /\ Dropped = 0 /\ Failed = 0 /\ Unsent = 0 /\ Late = 0

MoveTo(h, l) == pc' = [pc EXCEPT ![h] = l]
-----------------------------------------------------------------------------
(* ClickErr *)

\* A request; http.Server may still be running it when Close is called.
NewClick(h) ==
    /\ pc[h] = "idle" /\ clickCount < MaxClicks
    /\ clickCount' = clickCount + 1
    /\ MoveTo(h, "arrived")
    /\ UNCHANGED <<queue, chClosed, closed, loop, closer, aborted, counters>>

RLock(h) ==
    /\ pc[h] = "arrived"
    /\ closer \notin {"locking", "locked"}
    /\ MoveTo(h, "locked")
    /\ UNCHANGED <<queue, chClosed, closed, loop, closer, aborted, clickCount, counters>>

\* Variant for a mutation check: a click that comes too late is not counted.
CheckClosedSilently(h) ==
    /\ pc[h] = "locked"
    /\ MoveTo(h, IF closed THEN "idle" ELSE "sending")
    /\ UNCHANGED <<queue, chClosed, closed, loop, closer, aborted, clickCount, counters>>

\* if p.closed: the click is late, and the lock is released.
CheckClosed(h) ==
    /\ pc[h] = "locked"
    /\ Late' = IF closed THEN Late + 1 ELSE Late
    /\ MoveTo(h, IF closed THEN "idle" ELSE "sending")
    /\ UNCHANGED <<queue, chClosed, closed, loop, closer, aborted, clickCount,
                   Published, Dropped, Failed, Unsent>>

\* The select, and p.mu.RUnlock(): into the buffer, or dropped when it is full.
Send(h) ==
    /\ pc[h] = "sending"
    /\ IF queue < Buffer THEN queue' = queue + 1 /\ UNCHANGED Dropped
                         ELSE Dropped' = Dropped + 1 /\ UNCHANGED queue
    /\ MoveTo(h, "idle")
    /\ UNCHANGED <<chClosed, closed, loop, closer, aborted, clickCount,
                   Published, Failed, Unsent, Late>>
-----------------------------------------------------------------------------
(* loop *)

Receive ==
    /\ loop = "receive"
    /\ IF queue > 0 THEN queue' = queue - 1 /\ loop' = "got"
                    ELSE chClosed /\ loop' = "ended" /\ UNCHANGED queue
    /\ UNCHANGED <<pc, chClosed, closed, closer, aborted, clickCount, counters>>

\* if p.base.Err() != nil: counted, not published.
CheckBase ==
    /\ loop = "got"
    /\ loop' = IF aborted THEN "receive" ELSE "publishing"
    /\ Unsent' = IF aborted THEN Unsent + 1 ELSE Unsent
    /\ UNCHANGED <<pc, queue, chClosed, closed, closer, aborted, clickCount,
                   Published, Dropped, Failed, Late>>

\* publish returns: the broker has acknowledged, or it has not within
\* p.Timeout, or p.base was cancelled.
Publish ==
    /\ loop = "publishing" /\ loop' = "receive"
    /\ \/ Published' = Published + 1 /\ UNCHANGED Failed
       \/ Failed' = Failed + 1 /\ UNCHANGED Published
    /\ UNCHANGED <<pc, queue, chClosed, closed, closer, aborted, clickCount,
                   Dropped, Unsent, Late>>
-----------------------------------------------------------------------------
(* Close *)

CloseBegins ==
    /\ closer = "open" /\ closer' = "locking"
    /\ UNCHANGED <<pc, queue, chClosed, closed, loop, aborted, clickCount, counters>>

\* Variant for a mutation check: the mutex is not taken.
CloseLocksNothing ==
    /\ closer = "locking"
    /\ closed' = TRUE /\ closer' = "locked"
    /\ UNCHANGED <<pc, queue, chClosed, loop, aborted, clickCount, counters>>

\* p.mu.Lock() once no handler holds it, and p.closed = true.
CloseLocks ==
    /\ closer = "locking"
    /\ \A h \in Handler : pc[h] \notin {"locked", "sending"}
    /\ closed' = TRUE /\ closer' = "locked"
    /\ UNCHANGED <<pc, queue, chClosed, loop, aborted, clickCount, counters>>

\* Variant for a mutation check: the channel stays open.
CloseQueueForgotten ==
    /\ closer = "locked" /\ closer' = "drain"
    /\ UNCHANGED <<pc, queue, chClosed, closed, loop, aborted, clickCount, counters>>

\* close(p.queue) and p.mu.Unlock().
CloseQueue ==
    /\ closer = "locked"
    /\ chClosed' = TRUE /\ closer' = "drain"
    /\ UNCHANGED <<pc, queue, closed, loop, aborted, clickCount, counters>>

\* case <-ctx.Done(): the deadline, whether the loop is done or not.
Deadline ==
    /\ closer = "drain"
    /\ aborted' = TRUE /\ closer' = "waitDone"
    /\ UNCHANGED <<pc, queue, chClosed, closed, loop, clickCount, counters>>

\* <-done: wg.Wait() has returned; Close answers Unsent.
CloseReturns ==
    /\ closer \in {"drain", "waitDone"} /\ loop = "ended"
    /\ closer' = "returned"
    /\ UNCHANGED <<pc, queue, chClosed, closed, loop, aborted, clickCount, counters>>

ClickErr(h) == RLock(h) \/ CheckClosed(h) \/ Send(h)
Loop == Receive \/ CheckBase \/ Publish
Close == CloseLocks \/ CloseQueue \/ Deadline \/ CloseReturns

PublisherNext ==
    \/ \E h \in Handler : NewClick(h) \/ ClickErr(h)
    \/ Loop
    \/ CloseBegins \/ Close

PublisherSpec == PublisherInit /\ [][PublisherNext]_publisherVars

\* Goroutines run, publish returns within p.Timeout and ctx has a deadline.
\* Nothing obliges requests to come or the service to stop.
PublisherFairSpec ==
    /\ PublisherSpec
    /\ WF_publisherVars(Loop) /\ WF_publisherVars(Close)
    /\ \A h \in Handler : WF_publisherVars(ClickErr(h))
-----------------------------------------------------------------------------
(* Properties *)

InHand == Cardinality({h \in Handler : pc[h] # "idle"})
Sent == Published + Failed

\* No click vanishes and none is counted twice: every one is on its way, in
\* the buffer, being published, or in exactly one counter.
EveryClickCounted ==
    clickCount = InHand + queue + (IF loop \in {"got", "publishing"} THEN 1 ELSE 0)
               + Sent + Dropped + Unsent + Late

\* No handler is at the send when the channel is closed: a send on a closed
\* channel panics, in a select with a default branch too.
NoSendOnClosed == \A h \in Handler : pc[h] = "sending" => ~chClosed

\* A shutdown ends, with every broker outcome and handlers still at work.
ShutdownEnds == closer = "locking" ~> closer = "returned"
=============================================================================
