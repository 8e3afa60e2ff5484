-------------------------- MODULE AnalyticsPromise --------------------------
(***************************************************************************)
(* What the short links service promises its analytics, without replicas,  *)
(* brokers or redeliveries: every link that exists is seen in the end,     *)
(* every click that was published is counted in the end, and counted once. *)
(***************************************************************************)
EXTENDS Naturals

CONSTANTS Code, Click

VARIABLES links,     \* the codes of the links that exist
          seen,      \* the links the analytics knows
          published, \* the clicks the broker has taken
          counted,   \* the clicks that are in the aggregate
          clicks     \* the aggregate

vars == <<links, seen, published, counted, clicks>>

Init == /\ links = {} /\ seen = {} /\ published = {} /\ counted = {}
        /\ clicks = 0

Create(code) ==
    /\ code \notin links
    /\ links' = links \cup {code}
    /\ UNCHANGED <<seen, published, counted, clicks>>

See(code) ==
    /\ code \in links \ seen
    /\ seen' = seen \cup {code}
    /\ UNCHANGED <<links, published, counted, clicks>>

Publish(k) ==
    /\ k \notin published
    /\ published' = published \cup {k}
    /\ UNCHANGED <<links, seen, counted, clicks>>

Count(k) ==
    /\ k \in published \ counted
    /\ counted' = counted \cup {k}
    /\ clicks' = clicks + 1
    /\ UNCHANGED <<links, seen, published>>

Next == \/ \E code \in Code : Create(code) \/ See(code)
        \/ \E k \in Click : Publish(k) \/ Count(k)

Safe == Init /\ [][Next]_vars

Spec == /\ Safe
        /\ \A code \in Code : WF_vars(See(code))
        /\ \A k \in Click : WF_vars(Count(k))
=============================================================================
