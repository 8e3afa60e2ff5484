------------------------------- MODULE Breaker -------------------------------
(***************************************************************************)
(* The circuit breaker of architecture/resilience/patterns and the request *)
(* handler of cmd/cascade that uses it: a request takes a worker, asks     *)
(* AllowAt, calls the dependency and hands the outcome to Record, or       *)
(* answers with the fallback.  Both read the clock before they wait for    *)
(* the breaker's mutex, so the time they bring may be old.  The dependency *)
(* is external: it goes down and comes back.                               *)
(***************************************************************************)
EXTENDS Naturals, FiniteSets

CONSTANTS Request,       \* the requests at one time
          PoolSize,      \* workers
          FailThreshold, \* New
          OpenFor,
          HalfOpenMax,
          MaxLag,        \* bound: how old the time is that a caller brings
          MaxOutages     \* bound: how often the dependency goes down

ASSUME BreakerAssumption ==
    /\ IsFiniteSet(Request)
    /\ PoolSize \in Nat \ {0} /\ FailThreshold \in Nat \ {0}
    /\ HalfOpenMax \in Nat \ {0}
    /\ OpenFor \in Nat /\ MaxLag \in Nat /\ MaxOutages \in Nat

VARIABLES state,
          fails,
          age,      \* the time since openedAt, as far as it matters
          halfOpen,
          halfOK,
          request,  \* where each request is
          up,       \* the dependency answers
          outages,
          probes    \* history: calls admitted since the breaker became half-open

breakerVars == <<state, fails, age, halfOpen, halfOK>>
circuitVars == <<breakerVars, request, up, outages, probes>>

MaxAge == OpenFor + MaxLag

BreakerTypeOK ==
    /\ state \in {"Closed", "Open", "HalfOpen"}
    /\ fails \in 0..(FailThreshold - 1)
    /\ age \in 0..MaxAge
    /\ halfOpen \in 0..HalfOpenMax /\ halfOK \in 0..HalfOpenMax
    /\ request \in [Request -> {"none", "accepted", "calling", "ok", "failed"}]
    /\ up \in BOOLEAN /\ outages \in 0..MaxOutages
    /\ probes \subseteq Request

BreakerInit ==
    /\ state = "Closed" /\ fails = 0 /\ age = 0 /\ halfOpen = 0 /\ halfOK = 0
    /\ request = [r \in Request |-> "none"]
    /\ up = TRUE /\ outages = 0 /\ probes = {}

Proceed(r, l) == request' = [request EXCEPT ![r] = l]
-----------------------------------------------------------------------------
(* AllowAt *)

\* now.Sub(openedAt) >= openFor, for a now that is up to MaxLag old.
PauseIsOver(lag) == age >= OpenFor + lag

\* Variant for a mutation check: halfOpen keeps its count of the last time.
BecomeHalfOpenKeepingCount(r, lag) ==
    /\ state = "Open" /\ PauseIsOver(lag)
    /\ state' = "HalfOpen"
    /\ halfOpen' = IF halfOpen = 0 THEN 1 ELSE halfOpen
    /\ halfOK' = 0
    /\ probes' = {r}
    /\ UNCHANGED <<fails, age>>

BecomeHalfOpen(r, lag) ==
    /\ state = "Open" /\ PauseIsOver(lag)
    /\ state' = "HalfOpen" /\ halfOpen' = 1 /\ halfOK' = 0
    /\ probes' = {r}
    /\ UNCHANGED <<fails, age>>

AdmitProbe(r) ==
    /\ state = "HalfOpen" /\ halfOpen < HalfOpenMax
    /\ halfOpen' = halfOpen + 1
    /\ probes' = probes \cup {r}
    /\ UNCHANGED <<state, fails, age, halfOK>>

Admit == state = "Closed" /\ UNCHANGED <<breakerVars, probes>>

Refused(lag) == \/ state = "Open" /\ ~PauseIsOver(lag)
                \/ state = "HalfOpen" /\ halfOpen >= HalfOpenMax
-----------------------------------------------------------------------------
(* Record *)

\* trip(now), where now is lag old.
trip(lag) == state' = "Open" /\ age' = lag /\ fails' = 0 /\ UNCHANGED <<halfOpen, halfOK>>

reset == state' = "Closed" /\ fails' = 0 /\ halfOpen' = 0 /\ halfOK' = 0 /\ UNCHANGED age

RecordClosed(success, lag) ==
    /\ state = "Closed"
    /\ \/ success /\ fails' = 0 /\ UNCHANGED <<state, age, halfOpen, halfOK>>
       \/ /\ ~success /\ fails + 1 < FailThreshold
          /\ fails' = fails + 1 /\ UNCHANGED <<state, age, halfOpen, halfOK>>
       \/ ~success /\ fails + 1 >= FailThreshold /\ trip(lag)

\* Variant for a mutation check: more than halfOpenMax successes are wanted.
RecordHalfOpenOneMore(success, lag) ==
    /\ state = "HalfOpen"
    /\ \/ ~success /\ trip(lag)
       \/ /\ success /\ halfOK < HalfOpenMax
          /\ halfOK' = halfOK + 1 /\ UNCHANGED <<state, fails, age, halfOpen>>
       \/ success /\ halfOK >= HalfOpenMax /\ reset

\* The outcome of a call admitted earlier counts like that of a probe.
RecordHalfOpen(success, lag) ==
    /\ state = "HalfOpen"
    /\ \/ ~success /\ trip(lag)
       \/ /\ success /\ halfOK + 1 < HalfOpenMax
          /\ halfOK' = halfOK + 1 /\ UNCHANGED <<state, fails, age, halfOpen>>
       \/ success /\ halfOK + 1 >= HalfOpenMax /\ reset

RecordOpen == state = "Open" /\ UNCHANGED breakerVars
-----------------------------------------------------------------------------
(* The handler of cmd/cascade; a request that finds no worker is rejected *)

Accept(r) ==
    /\ request[r] = "none"
    /\ Cardinality({q \in Request : request[q] # "none"}) < PoolSize
    /\ Proceed(r, "accepted")
    /\ UNCHANGED <<breakerVars, up, outages, probes>>

Call(r) ==
    /\ request[r] = "accepted"
    /\ \/ Admit \/ AdmitProbe(r)
       \/ \E lag \in 0..MaxLag : BecomeHalfOpen(r, lag)
    /\ Proceed(r, "calling")
    /\ UNCHANGED <<up, outages>>

Fallback(r) ==
    /\ request[r] = "accepted"
    /\ \E lag \in 0..MaxLag : Refused(lag)
    /\ Proceed(r, "none")
    /\ UNCHANGED <<breakerVars, up, outages, probes>>

\* The dependency answers, or the call fails after depLatency.
Answer(r) ==
    /\ request[r] = "calling"
    /\ Proceed(r, IF up THEN "ok" ELSE "failed")
    /\ UNCHANGED <<breakerVars, up, outages, probes>>

Record(r) ==
    LET success == request[r] = "ok" IN
    /\ request[r] \in {"ok", "failed"}
    /\ \/ RecordOpen
       \/ \E lag \in 0..MaxLag : RecordClosed(success, lag) \/ RecordHalfOpen(success, lag)
    /\ probes' = IF state' = "HalfOpen" THEN probes \ {r} ELSE {}
    /\ Proceed(r, "none")
    /\ UNCHANGED <<up, outages>>

TimePasses ==
    /\ state = "Open" /\ age < MaxAge
    /\ age' = age + 1
    /\ UNCHANGED <<state, fails, halfOpen, halfOK, request, up, outages, probes>>

GoDown == /\ up /\ outages < MaxOutages
          /\ up' = FALSE /\ outages' = outages + 1
          /\ UNCHANGED <<breakerVars, request, probes>>

ComeBack == ~up /\ up' = TRUE /\ UNCHANGED <<breakerVars, request, outages, probes>>
-----------------------------------------------------------------------------
handle(r) == Accept(r) \/ Call(r) \/ Fallback(r) \/ Answer(r) \/ Record(r)

BreakerNext ==
    \/ \E r \in Request : handle(r)
    \/ TimePasses \/ GoDown \/ ComeBack

BreakerSpec == BreakerInit /\ [][BreakerNext]_circuitVars

\* Every request is handled to its end, time passes, and requests keep coming:
\* one that found no worker is followed by another.
BreakerFairSpec ==
    /\ BreakerSpec
    /\ \A r \in Request : WF_circuitVars(handle(r))
    /\ WF_circuitVars(TimePasses)
-----------------------------------------------------------------------------
(* Properties *)

\* A place of the half-open breaker is either accounted for by a success or held
\* by a call of this half-open time: none is left to one admitted before a trip,
\* whose outcome Record may have ignored, and the probes that are wanted for
\* closing can still be admitted.  (AllowAt, halfOpen = 1; Record, Open.)
NoLostProbe ==
    state = "HalfOpen" =>
        /\ halfOpen \in 1..HalfOpenMax
        /\ halfOpen <= halfOK + Cardinality(probes)

\* Once the dependency is back for good the breaker closes, and stays closed.
Recovers == <>[]up => <>[](state = "Closed")
=============================================================================
