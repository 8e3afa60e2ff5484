---------------------------- MODULE BoundedQueue ----------------------------
(***************************************************************************)
(* The bounded queue of architecture/resilience/backpressure under its     *)
(* four overflow policies: a buffered channel, several producers inside    *)
(* Offer, consumers inside Take.  Each channel operation is one step, each *)
(* counter is bumped in a step after the operation it counts, and the loop *)
(* of DropOldest looks at the channel afresh every time.                   *)
(*                                                                         *)
(* An element is the number of the Offer that brought it.                  *)
(***************************************************************************)
EXTENDS Naturals, SequencesExt

CONSTANTS Producer,
          Capacity,
          MaxOffers  \* bound: how many calls of Offer there are in all

\* New panics on a capacity below 1.
ASSUME BoundedQueueAssumption == Capacity \in Nat \ {0} /\ MaxOffers \in Nat

Policy == {"Block", "DropNewest", "DropOldest", "Reject"}

VARIABLES policy,    \* fixed when the queue is made
          ch,        \* what is in the channel
          place,     \* where each producer is in Offer
          item,      \* the element it brings
          offers,    \* how many calls of Offer have begun
          accepted, dropped,  \* the two counters
          taken,     \* history: the elements consumers got
          evicted,   \* history: the elements pushed out by DropOldest
          refused    \* history: the elements Offer turned down

queueVars == <<policy, ch, place, item, offers, accepted, dropped,
               taken, evicted, refused>>
history == <<taken, evicted, refused>>

\* send: at `q.ch <- item`; evict: the send found no room, at `<-q.ch`;
\* entered, pushed, turned: at the Add of an accepted, an evicted and a
\* refused element.
Place == {"idle", "send", "evict", "entered", "pushed", "turned"}

QueueTypeOK ==
    /\ policy \in Policy
    /\ ch \in Seq(1..MaxOffers) /\ Len(ch) <= Capacity
    /\ place \in [Producer -> Place]
    /\ item \in [Producer -> 0..MaxOffers]
    /\ offers \in 0..MaxOffers
    /\ accepted \in 0..MaxOffers /\ dropped \in 0..MaxOffers
    /\ taken \subseteq 1..MaxOffers
    /\ evicted \subseteq 1..MaxOffers
    /\ refused \subseteq 1..MaxOffers

QueueInit ==
    /\ policy \in Policy
    /\ ch = <<>>
    /\ place = [p \in Producer |-> "idle"]
    /\ item = [p \in Producer |-> 0]
    /\ offers = 0
    /\ accepted = 0 /\ dropped = 0
    /\ taken = {} /\ evicted = {} /\ refused = {}

MoveTo(p, l) == place' = [place EXCEPT ![p] = l]
Full == Len(ch) = Capacity

Offer(p) ==
    /\ place[p] = "idle" /\ offers < MaxOffers
    /\ offers' = offers + 1
    /\ item' = [item EXCEPT ![p] = offers']
    /\ MoveTo(p, "send")
    /\ UNCHANGED <<policy, ch, accepted, dropped, history>>

Send(p) ==
    /\ place[p] = "send" /\ ~Full
    /\ ch' = Append(ch, item[p])
    /\ MoveTo(p, "entered")
    /\ UNCHANGED <<policy, item, offers, accepted, dropped, history>>

\* The default branch of DropNewest and Reject; ctx.Done of Block, which
\* select may choose although there is room.
TurnDown(p) ==
    /\ place[p] = "send"
    /\ \/ policy \in {"DropNewest", "Reject"} /\ Full
       \/ policy = "Block"
    /\ refused' = refused \cup {item[p]}
    /\ MoveTo(p, "turned")
    /\ UNCHANGED <<policy, ch, item, offers, accepted, dropped, taken, evicted>>

\* DropOldest: the send finds no room ...
SendFails(p) ==
    /\ place[p] = "send" /\ policy = "DropOldest" /\ Full
    /\ MoveTo(p, "evict")
    /\ UNCHANGED <<policy, ch, item, offers, accepted, dropped, history>>

\* Variants for mutation checks: the new element is sent in place of the old
\* one without being counted; the loop waits for a consumer to make room.
EvictNothing(p) ==
    /\ place[p] = "evict"
    /\ MoveTo(p, "send")
    /\ UNCHANGED <<policy, ch, item, offers, accepted, dropped, history>>
EvictAndLeave(p) ==
    /\ place[p] = "evict"
    /\ IF ch = <<>>
       THEN MoveTo(p, "send") /\ UNCHANGED <<ch, evicted>>
       ELSE /\ ch' = Append(Tail(ch), item[p])
            /\ evicted' = evicted \cup {Head(ch)}
            /\ MoveTo(p, "pushed")
    /\ UNCHANGED <<policy, item, offers, accepted, dropped, taken, refused>>

\* ... and what is oldest now is pushed out, unless the channel is empty.
Evict(p) ==
    /\ place[p] = "evict"
    /\ IF ch = <<>>
       THEN MoveTo(p, "send") /\ UNCHANGED <<ch, evicted>>
       ELSE /\ ch' = Tail(ch)
            /\ evicted' = evicted \cup {Head(ch)}
            /\ MoveTo(p, "pushed")
    /\ UNCHANGED <<policy, item, offers, accepted, dropped, taken, refused>>

\* q.accepted.Add(1) or q.dropped.Add(1); Offer returns, except after an
\* eviction, when it goes round its loop.
Count(p) ==
    /\ place[p] \in {"entered", "pushed", "turned"}
    /\ IF place[p] = "entered" THEN accepted' = accepted + 1 /\ UNCHANGED dropped
                               ELSE dropped' = dropped + 1 /\ UNCHANGED accepted
    /\ MoveTo(p, IF place[p] = "pushed" THEN "send" ELSE "idle")
    /\ UNCHANGED <<policy, ch, item, offers, history>>

\* Take and TryTake.
Take ==
    /\ ch # <<>>
    /\ ch' = Tail(ch)
    /\ taken' = taken \cup {Head(ch)}
    /\ UNCHANGED <<policy, place, item, offers, accepted, dropped, evicted, refused>>

Step(p) == Send(p) \/ TurnDown(p) \/ SendFails(p) \/ Evict(p) \/ Count(p)

QueueNext == Take \/ \E p \in Producer : Offer(p) \/ Step(p)

QueueSpec == QueueInit /\ [][QueueNext]_queueVars

\* Producers run; consumers owe nothing.
QueueFairSpec == QueueSpec /\ \A p \in Producer : WF_queueVars(Step(p))
-----------------------------------------------------------------------------
(* Properties *)

At(S) == Cardinality({p \in Producer : place[p] \in S})

\* The counters miss no element and count none twice: what was accepted is
\* taken, evicted or in the queue, what was dropped was evicted or turned
\* down, but for the elements whose Add is still to come.
CountersBalance ==
    /\ accepted + At({"entered"})
         = Len(ch) + Cardinality(taken) + Cardinality(evicted)
    /\ dropped + At({"pushed", "turned"})
         = Cardinality(evicted) + Cardinality(refused)

\* Only Block makes a producer depend on the consumers: under the other
\* policies every Offer returns though nobody takes anything.
OfferReturns ==
    \A p \in Producer :
        policy # "Block" /\ place[p] # "idle" ~> place[p] = "idle"
=============================================================================
