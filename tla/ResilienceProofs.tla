-------------------------- MODULE ResilienceProofs --------------------------
(***************************************************************************)
(* Proofs about three parts of architecture/resilience that stand each on  *)
(* its own: AdaptiveLimiter, for any set of callers, any limits and any    *)
(* rates of increase and decrease; Breaker, for every number of requests   *)
(* and workers, every threshold, pause and number of probes, and clocks of *)
(* any lag; BoundedQueue, for any producers, capacity and number of calls. *)
(***************************************************************************)
EXTENDS AdaptiveLimiter, Breaker, BoundedQueue,
        FiniteSetTheorems, FunctionTheorems, SequenceTheorems, TLAPS

(* The adaptive limiter *)

Queued == {"waiting", "leaving"}

\* A caller is in the list at most once, and not with its channel closed;
\* whoever is in the list, or has been woken, is still inside Acquire.
InLine ==
    /\ \A i, j \in 1..Len(waiters) : waiters[i] = waiters[j] => i = j
    /\ \A i \in 1..Len(waiters) :
         pc[waiters[i]] \in Queued /\ waiters[i] \notin ready
    /\ \A c \in ready : pc[c] \in Queued

\* Only finitely many callers have come so far.
Finite == IsFiniteSet(Holders)

IInv == TypeOK /\ InLine /\ Finite /\ SlotsAccounted /\ NoIdleSlot
-----------------------------------------------------------------------------
(* Lemmas about the operators *)

LEMMA ClampInRange ==
    ASSUME NEW lim \in Int PROVE Clamp(lim) \in (Lower * Unit)..(Upper * Unit)
<1> USE LimiterAssumption DEF LimiterAssumption
<1>1. Lower * Unit \in Int /\ Upper * Unit \in Int
  OBVIOUS
<1>2. Lower * Unit <= Upper * Unit
  <2>1. \A a, b, u \in Nat : a <= b => a * u <= b * u
    OBVIOUS
  <2> QED
    BY <2>1
<1> QED
  BY <1>1, <1>2 DEF Clamp

LEMMA NextLimitInRange ==
    ASSUME TypeOK, NEW slow \in BOOLEAN
    PROVE  NextLimit(slow) \in (Lower * Unit)..(Upper * Unit)
<1> USE LimiterAssumption DEF LimiterAssumption
<1>1. limit \in Int
  BY DEF TypeOK
<1>2. (limit * DecNum) \div DecDen \in Int /\ limit + Increase \in Int
  BY <1>1
<1> QED
  BY <1>2, ClampInRange DEF NextLimit

LEMMA SlotsType == ASSUME NEW lim \in Int PROVE Slots(lim) \in Int
  BY LimiterAssumption DEF LimiterAssumption, Slots

Foremost(queue, n) == {queue[i] : i \in 1..n}

\* The first n of a sequence without repetitions are n.
LEMMA FirstCounted ==
    ASSUME NEW S, NEW queue \in Seq(S), NEW n \in 0..Len(queue),
           \A i, j \in 1..Len(queue) : queue[i] = queue[j] => i = j
    PROVE  /\ IsFiniteSet(Foremost(queue, n))
           /\ Cardinality(Foremost(queue, n)) = n
<1> DEFINE T == {queue[i] : i \in 1..n}
           f == [i \in 1..n |-> queue[i]]
<1>1. f \in Bijection(1..n, T)
  <2>1. f \in [1..n -> T]
    OBVIOUS
  <2>2. \A i, j \in 1..n : f[i] = f[j] => i = j
    OBVIOUS
  <2>3. \A t \in T : \E i \in 1..n : f[i] = t
    OBVIOUS
  <2> QED
    BY <2>1, <2>2, <2>3 DEF Bijection, Injection, Surjection, IsInjective
<1>2. ExistsBijection(1..n, T)
  BY <1>1 DEF ExistsBijection
<1>3. IsFiniteSet(1..n) /\ Cardinality(1..n) = n
  BY FS_Interval
<1> QED
  BY <1>2, <1>3, FS_Bijection DEF Foremost

\* What Wake does: the first n go, and are given their slots; nobody is left
\* while there is room.
LEMMA WakeProperties ==
    ASSUME NEW lim \in Int, NEW busy \in Int, NEW queue \in Seq(Caller),
           NEW woken, Wake(lim, busy, queue, woken)
    PROVE  /\ waiters' \in Seq(Caller)
           /\ \E n \in 0..Len(queue) :
                /\ inFlight' = busy + n
                /\ ready' = woken \cup Foremost(queue, n)
                /\ Len(waiters') = Len(queue) - n
                /\ \A i \in 1..Len(waiters') : waiters'[i] = queue[n + i]
                /\ waiters' # <<>> => inFlight' >= Slots(lim)
<1> DEFINE n == Room(lim, busy, queue)
<1>1. Len(queue) \in Nat /\ Slots(lim) \in Int
  BY SlotsType
<1>2. n \in 0..Len(queue) /\ (n < Len(queue) => busy + n >= Slots(lim))
  BY <1>1 DEF Room
<1>3. /\ inFlight' = busy + n
      /\ ready' = woken \cup Foremost(queue, n)
      /\ waiters' = SubSeq(queue, n + 1, Len(queue))
  BY DEF Wake, Foremost
<1> HIDE DEF n
<1>4. \A i \in (n + 1)..Len(queue) : queue[i] \in Caller
  BY <1>1, <1>2
<1>5. n + 1 \in Int /\ Len(queue) \in Int
  BY <1>1, <1>2
<1>6. /\ waiters' \in Seq(Caller)
      /\ Len(waiters') = IF n + 1 <= Len(queue) THEN Len(queue) - (n + 1) + 1 ELSE 0
      /\ \A i \in 1..(Len(queue) - (n + 1) + 1) : waiters'[i] = queue[(n + 1) + i - 1]
  BY <1>3, <1>4, <1>5, SubSeqProperties
<1>7. Len(waiters') = Len(queue) - n
  BY <1>1, <1>2, <1>6
<1>8. \A i \in 1..Len(waiters') : waiters'[i] = queue[n + i]
  <2> SUFFICES ASSUME NEW i \in 1..Len(waiters') PROVE waiters'[i] = queue[n + i]
    OBVIOUS
  <2>1. i \in 1..(Len(queue) - (n + 1) + 1) /\ (n + 1) + i - 1 = n + i
    BY <1>1, <1>2, <1>7
  <2> QED
    BY <1>6, <2>1
<1>9. waiters' # <<>> => inFlight' >= Slots(lim)
  <2>1. waiters' # <<>> => Len(waiters') # 0
    BY <1>6, EmptySeq
  <2> QED
    BY <1>1, <1>2, <1>3, <1>7, <2>1
<1> QED
  BY <1>2, <1>3, <1>6, <1>7, <1>8, <1>9
-----------------------------------------------------------------------------
(* The invariant *)

LEMMA Initially == Init => IInv
<1> SUFFICES ASSUME Init PROVE IInv
  OBVIOUS
<1> USE LimiterAssumption DEF LimiterAssumption
<1>1. limit \in (Lower * Unit)..(Upper * Unit)
  <2>1. \A a, b, u \in Nat : a <= b => a * u <= b * u
    OBVIOUS
  <2>2. Lower * Unit <= Initial * Unit /\ Initial * Unit <= Upper * Unit
    BY <2>1
  <2>3. Lower * Unit \in Int /\ Initial * Unit \in Int /\ Upper * Unit \in Int
    OBVIOUS
  <2> QED
    BY <2>2, <2>3 DEF Init
<1>2. TypeOK
  BY <1>1, EmptySeq DEF Init, TypeOK, PC
<1>3. Len(waiters) = 0
  BY EmptySeq DEF Init
<1>4. InLine
  BY <1>3 DEF Init, InLine
<1>5. Holders = {}
  BY DEF Init, Holders
<1>6. Finite /\ SlotsAccounted
  BY <1>5, FS_EmptySet DEF Init, Finite, SlotsAccounted
<1>7. NoIdleSlot
  BY DEF Init, NoIdleSlot
<1> QED
  BY <1>2, <1>4, <1>6, <1>7 DEF IInv

\* A holder gives its slot back, and Wake hands on what there is.
LEMMA GivenBack ==
    ASSUME IInv, NEW c \in Holders, NEW lim \in (Lower * Unit)..(Upper * Unit),
           limit' = lim, Wake(lim, inFlight - 1, waiters, ready \ {c}),
           Goto(c, "idle"), cancelled' \in SUBSET Caller
    PROVE  IInv'
<1> USE DEF IInv
<1>1. lim \in Int /\ inFlight \in Nat /\ waiters \in Seq(Caller) /\ c \in Caller
  BY LimiterAssumption DEF LimiterAssumption, TypeOK, Holders
<1>2. waiters' \in Seq(Caller)
  BY <1>1, WakeProperties
<1>3. PICK n \in 0..Len(waiters) :
        /\ inFlight' = inFlight - 1 + n
        /\ ready' = (ready \ {c}) \cup Foremost(waiters, n)
        /\ Len(waiters') = Len(waiters) - n
        /\ \A i \in 1..Len(waiters') : waiters'[i] = waiters[n + i]
        /\ waiters' # <<>> => inFlight' >= Slots(lim)
  <2> inFlight - 1 \in Int
    BY <1>1
  <2> QED
    BY <1>1, WakeProperties
<1> DEFINE T == Foremost(waiters, n)
<1>4. IsFiniteSet(T) /\ Cardinality(T) = n
  BY <1>1, FirstCounted DEF InLine
<1>5. T \subseteq Caller /\ \A d \in T : pc[d] \in Queued /\ d \notin ready
  BY <1>1 DEF InLine, Foremost
<1>6. pc' \in [Caller -> PC] /\ \A d \in Caller : pc'[d] = IF d = c THEN "idle" ELSE pc[d]
  BY <1>1 DEF Goto, TypeOK, PC
<1>7. Holders' = (Holders \ {c}) \cup T
  <2>1. c \notin T
    BY <1>5 DEF Holders, Queued
  <2>2. {d \in Caller : pc'[d] = "running"} = {d \in Caller : pc[d] = "running"} \ {c}
    BY <1>6
  <2>3. Holders' = {d \in Caller : pc'[d] = "running"} \cup ready'
    BY DEF Holders
  <2> QED
    BY <1>3, <2>1, <2>2, <2>3 DEF Holders
<1>8. (Holders \ {c}) \cap T = {}
  BY <1>5 DEF Holders, Queued
<1>9. IsFiniteSet(Holders \ {c}) /\ Cardinality(Holders \ {c}) = inFlight - 1
  BY FS_RemoveElement DEF Finite, SlotsAccounted
<1>10. IsFiniteSet(Holders') /\ Cardinality(Holders') = inFlight - 1 + n
  <2> HIDE DEF T
  <2>1. Cardinality({}) = 0
    BY FS_EmptySet
  <2>2. /\ IsFiniteSet((Holders \ {c}) \cup T)
        /\ Cardinality((Holders \ {c}) \cup T)
             = Cardinality(Holders \ {c}) + Cardinality(T) - Cardinality((Holders \ {c}) \cap T)
    BY <1>4, <1>9, FS_Union
  <2>3. Cardinality((Holders \ {c}) \cup T) = inFlight - 1 + n
    <3> DEFINE A == Cardinality(Holders \ {c})
               B == Cardinality(T)
               D == Cardinality((Holders \ {c}) \cap T)
    <3>1. A = inFlight - 1 /\ B = n /\ D = 0
      BY <1>4, <1>8, <1>9, <2>1
    <3>2. Cardinality((Holders \ {c}) \cup T) = A + B - D
      BY <2>2
    <3> HIDE DEF A, B, D
    <3> QED
      BY <1>1, <3>1, <3>2
  <2> QED
    BY <1>7, <2>2, <2>3
<1>11. Finite' /\ SlotsAccounted'
  BY <1>3, <1>10 DEF Finite, SlotsAccounted
<1>12. inFlight' \in Nat
  BY <1>3, <1>10, FS_CardinalityType
<1>13. TypeOK'
  BY <1>2, <1>3, <1>5, <1>6, <1>12 DEF TypeOK
<1>14. InLine'
  <2>1. \A i \in 1..Len(waiters') : n + i \in 1..Len(waiters) /\ n + i \notin 1..n
    BY <1>3
  <2>2. \A i, j \in 1..Len(waiters') : waiters'[i] = waiters'[j] => i = j
    BY <1>3, <2>1 DEF InLine
  <2>3. \A i \in 1..Len(waiters') : waiters'[i] \notin ready'
    <3> SUFFICES ASSUME NEW i \in 1..Len(waiters') PROVE waiters'[i] \notin ready'
      OBVIOUS
    <3>1. waiters'[i] = waiters[n + i] /\ waiters[n + i] \notin ready
      BY <1>3, <2>1 DEF InLine
    <3>2. \A k \in 1..n : waiters[k] # waiters[n + i]
      BY <2>1 DEF InLine
    <3>3. waiters[n + i] \notin Foremost(waiters, n)
      BY <3>2 DEF Foremost
    <3> QED
      BY <1>3, <3>1, <3>3
  <2>4. \A i \in 1..Len(waiters') : pc'[waiters'[i]] \in Queued
    <3> SUFFICES ASSUME NEW i \in 1..Len(waiters') PROVE pc'[waiters'[i]] \in Queued
      OBVIOUS
    <3>1. /\ waiters'[i] = waiters[n + i] /\ pc[waiters[n + i]] \in Queued
          /\ waiters[n + i] \notin ready /\ waiters[n + i] \in Caller
      BY <1>1, <1>3, <2>1 DEF InLine
    <3>2. waiters[n + i] # c
      BY <3>1 DEF Holders, Queued
    <3> QED
      BY <1>6, <3>1, <3>2
  <2>5. \A d \in ready' : pc'[d] \in Queued
    <3> SUFFICES ASSUME NEW d \in ready' PROVE pc'[d] \in Queued
      OBVIOUS
    <3>1. d \in Caller /\ d # c /\ pc[d] \in Queued
      BY <1>3, <1>5 DEF InLine, TypeOK, Holders, Queued
    <3> QED
      BY <1>6, <3>1
  <2> QED
    BY <2>2, <2>3, <2>4, <2>5 DEF InLine
<1>15. NoIdleSlot'
  BY <1>3 DEF NoIdleSlot
<1> QED
  BY <1>11, <1>13, <1>14, <1>15

\* Holders whose membership does not change keep the balance.
LEMMA SameHolders ==
    ASSUME Finite, SlotsAccounted, Holders' = Holders, inFlight' = inFlight
    PROVE  Finite' /\ SlotsAccounted'
  BY DEF Finite, SlotsAccounted

LEMMA FastPath ==
    ASSUME IInv, NEW c \in Caller, AcquireFast(c) PROVE IInv'
<1> USE DEF IInv, AcquireFast, Goto
<1>1. TypeOK'
  BY DEF TypeOK, PC
<1>2. Len(waiters) = 0 /\ waiters' = waiters
  BY EmptySeq
<1>3. InLine'
  <2>1. c \notin ready
    BY DEF InLine, Queued
  <2> QED
    BY <1>2, <2>1 DEF InLine, TypeOK, Queued
<1>4. Holders' = Holders \cup {c} /\ c \notin Holders
  BY DEF Holders, InLine, TypeOK, Queued
<1>5. Finite' /\ SlotsAccounted'
  <2>1. IsFiniteSet(Holders \cup {c}) /\ Cardinality(Holders \cup {c}) = Cardinality(Holders) + 1
    BY <1>4, FS_AddElement DEF Finite
  <2> QED
    BY <1>4, <2>1 DEF Finite, SlotsAccounted
<1>6. NoIdleSlot'
  BY DEF NoIdleSlot
<1> QED
  BY <1>1, <1>3, <1>5, <1>6

LEMMA QueueUp ==
    ASSUME IInv, NEW c \in Caller, AcquireQueued(c) PROVE IInv'
<1> USE DEF IInv, AcquireQueued, Goto
<1>1. /\ waiters' \in Seq(Caller)
      /\ Len(waiters') = Len(waiters) + 1
      /\ \A i \in 1..Len(waiters') :
           waiters'[i] = IF i <= Len(waiters) THEN waiters[i] ELSE c
  BY AppendProperties DEF TypeOK
<1>2. TypeOK'
  BY <1>1 DEF TypeOK, PC
<1>3. InLine'
  <2>1. \A i \in 1..Len(waiters) : waiters[i] # c /\ waiters[i] \in Caller
    BY DEF InLine, Queued, TypeOK
  <2>2. c \notin ready
    BY DEF InLine, Queued
  <2>3. \A i, j \in 1..Len(waiters') : waiters'[i] = waiters'[j] => i = j
    BY <1>1, <2>1 DEF InLine, TypeOK
  <2>4. \A i \in 1..Len(waiters') : pc'[waiters'[i]] \in Queued /\ waiters'[i] \notin ready'
    BY <1>1, <2>1, <2>2 DEF InLine, TypeOK, Queued
  <2>5. \A d \in ready' : pc'[d] \in Queued
    BY DEF InLine, TypeOK, Queued
  <2> QED
    BY <2>3, <2>4, <2>5 DEF InLine
<1>4. Holders' = Holders
  BY DEF Holders, TypeOK
<1>5. NoIdleSlot'
  <2>1. inFlight' >= Slots(limit')
    <3>1. inFlight \in Int /\ Slots(limit) \in Int
      BY SlotsType, LimiterAssumption DEF TypeOK, LimiterAssumption
    <3> QED
      BY <3>1 DEF NoIdleSlot, Slots
  <2> QED
    BY <2>1 DEF NoIdleSlot
<1> QED
  BY <1>2, <1>3, <1>4, <1>5, SameHolders

LEMMA Granted ==
    ASSUME IInv, NEW c \in Caller, AcquireGranted(c) PROVE IInv'
<1> USE DEF IInv, AcquireGranted, Goto
<1>1. TypeOK'
  BY DEF TypeOK, PC
<1>2. InLine'
  <2>1. \A i \in 1..Len(waiters) : waiters[i] # c /\ waiters[i] \in Caller
    BY DEF InLine, TypeOK
  <2> QED
    BY <2>1 DEF InLine, TypeOK, Queued
<1>3. Holders' = Holders
  BY DEF Holders, TypeOK
<1>4. NoIdleSlot'
  BY DEF NoIdleSlot, Slots
<1> QED
  BY <1>1, <1>2, <1>3, <1>4, SameHolders

LEMMA SeesDone ==
    ASSUME IInv, NEW c \in Caller, SeeDone(c) PROVE IInv'
<1> USE DEF IInv, SeeDone, Goto
<1>1. TypeOK'
  BY DEF TypeOK, PC
<1>2. InLine'
  BY DEF InLine, TypeOK, Queued
<1>3. Holders' = Holders
  BY DEF Holders, TypeOK
<1>4. NoIdleSlot'
  BY DEF NoIdleSlot, Slots
<1> QED
  BY <1>1, <1>2, <1>3, <1>4, SameHolders

\* What RemoveAt takes out of the middle of the list.
LEMMA RemoveAtProperties ==
    ASSUME NEW S, NEW s \in Seq(S), NEW k \in 1..Len(s)
    PROVE  /\ RemoveAt(s, k) \in Seq(S)
           /\ Len(RemoveAt(s, k)) = Len(s) - 1
           /\ \A i \in 1..(Len(s) - 1) :
                RemoveAt(s, k)[i] = IF i < k THEN s[i] ELSE s[i + 1]
<1> DEFINE front == SubSeq(s, 1, k - 1)
           back == SubSeq(s, k + 1, Len(s))
<1>1. /\ \A i \in 1..(k - 1) : s[i] \in S
      /\ \A i \in (k + 1)..Len(s) : s[i] \in S
      /\ k - 1 \in Int /\ k + 1 \in Int /\ Len(s) \in Int
  OBVIOUS
<1>2. /\ front \in Seq(S)
      /\ Len(front) = k - 1
      /\ \A i \in 1..(k - 1) : front[i] = s[i]
  <2>1. /\ front \in Seq(S)
        /\ Len(front) = IF 1 <= k - 1 THEN (k - 1) - 1 + 1 ELSE 0
        /\ \A i \in 1..((k - 1) - 1 + 1) : front[i] = s[1 + i - 1]
    BY <1>1, SubSeqProperties
  <2> QED
    BY <2>1
<1>3. /\ back \in Seq(S)
      /\ Len(back) = Len(s) - k
      /\ \A i \in 1..(Len(s) - k) : back[i] = s[k + i]
  <2>1. /\ back \in Seq(S)
        /\ Len(back) = IF k + 1 <= Len(s) THEN Len(s) - (k + 1) + 1 ELSE 0
        /\ \A i \in 1..(Len(s) - (k + 1) + 1) : back[i] = s[(k + 1) + i - 1]
    BY <1>1, SubSeqProperties
  <2> QED
    BY <2>1
<1> HIDE DEF front, back
<1>4. /\ front \o back \in Seq(S)
      /\ Len(front \o back) = Len(front) + Len(back)
      /\ \A i \in 1..(Len(front) + Len(back)) :
           (front \o back)[i] = IF i <= Len(front) THEN front[i] ELSE back[i - Len(front)]
  BY <1>2, <1>3, ConcatProperties
<1>5. \A i \in 1..(Len(s) - 1) : (front \o back)[i] = IF i < k THEN s[i] ELSE s[i + 1]
  <2> SUFFICES ASSUME NEW i \in 1..(Len(s) - 1)
               PROVE  (front \o back)[i] = IF i < k THEN s[i] ELSE s[i + 1]
    OBVIOUS
  <2>1. CASE i < k
    <3>1. i \in 1..(k - 1) /\ i <= Len(front) /\ i \in 1..(Len(front) + Len(back))
      BY <1>2, <1>3, <2>1
    <3> QED
      BY <1>2, <1>4, <2>1, <3>1
  <2>2. CASE ~(i < k)
    <3>1. i - (k - 1) \in 1..(Len(s) - k) /\ k + (i - (k - 1)) = i + 1
      BY <2>2
    <3>2. i \in 1..(Len(front) + Len(back)) /\ ~(i <= Len(front))
      BY <1>2, <1>3, <2>2
    <3>3. (front \o back)[i] = back[i - (k - 1)]
      BY <1>2, <1>4, <3>2
    <3> QED
      <4>1. back[i - (k - 1)] = s[k + (i - (k - 1))]
        BY <1>3, <3>1
      <4>2. (front \o back)[i] = s[i + 1]
        BY <3>1, <3>3, <4>1
      <4> QED
        BY <2>2, <4>2
  <2> QED
    BY <2>1, <2>2
<1>6. Len(front \o back) = Len(s) - 1
  BY <1>2, <1>3, <1>4
<1> QED
  BY <1>4, <1>5, <1>6 DEF RemoveAt, front, back

LEMMA CancelledInLine ==
    ASSUME IInv, NEW c \in Caller, pc[c] = "leaving", c \notin ready,
           NEW k \in 1..Len(waiters), waiters[k] = c,
           waiters' = RemoveAt(waiters, k), cancelled' = cancelled \ {c},
           Goto(c, "idle"), UNCHANGED <<limit, inFlight, ready>>
    PROVE  IInv'
<1> USE DEF IInv, Goto
<1>1. /\ waiters' \in Seq(Caller)
      /\ Len(waiters') = Len(waiters) - 1
      /\ \A i \in 1..Len(waiters') :
           waiters'[i] = IF i < k THEN waiters[i] ELSE waiters[i + 1]
  BY RemoveAtProperties DEF TypeOK
<1>2. TypeOK'
  BY <1>1 DEF TypeOK, PC
<1>3. InLine'
  <2>1. Len(waiters) \in Nat
    BY DEF TypeOK
  <2>2. \A i, j \in 1..Len(waiters') : waiters'[i] = waiters'[j] => i = j
    BY <1>1, <2>1 DEF InLine
  <2>3. \A i \in 1..Len(waiters') :
          \E j \in 1..Len(waiters) \ {k} : waiters'[i] = waiters[j]
    <3> SUFFICES ASSUME NEW i \in 1..Len(waiters')
                 PROVE  \E j \in 1..Len(waiters) \ {k} : waiters'[i] = waiters[j]
      OBVIOUS
    <3>1. CASE i < k
      <4>1. i \in 1..Len(waiters) \ {k} /\ waiters'[i] = waiters[i]
        BY <1>1, <2>1, <3>1
      <4> QED
        BY <4>1
    <3>2. CASE i >= k
      <4>1. i + 1 \in 1..Len(waiters) \ {k} /\ waiters'[i] = waiters[i + 1]
        BY <1>1, <2>1, <3>2
      <4> QED
        BY <4>1
    <3> QED
      BY <3>1, <3>2
  <2>4. \A i \in 1..Len(waiters') : pc'[waiters'[i]] \in Queued /\ waiters'[i] \notin ready'
    <3>1. \A j \in 1..Len(waiters) \ {k} :
            /\ waiters[j] # c /\ waiters[j] \in Caller
            /\ pc[waiters[j]] \in Queued /\ waiters[j] \notin ready
      BY DEF InLine, TypeOK
    <3> QED
      BY <2>3, <3>1 DEF TypeOK
  <2>5. \A d \in ready' : pc'[d] \in Queued
    BY DEF InLine, TypeOK
  <2> QED
    BY <2>2, <2>4, <2>5 DEF InLine
<1>4. Holders' = Holders
  BY DEF Holders, TypeOK
<1>5. NoIdleSlot'
  <2>1. waiters # <<>>
    BY EmptySeq
  <2> QED
    BY <2>1 DEF NoIdleSlot, Slots
<1> QED
  BY <1>2, <1>3, <1>4, <1>5, SameHolders

LEMMA Inductive == IInv /\ [Next]_vars => IInv'
<1> SUFFICES ASSUME IInv, [Next]_vars PROVE IInv'
  OBVIOUS
<1>1. ASSUME NEW c \in Caller, AcquireCancelled(c) PROVE IInv'
  <2>1. CASE c \in ready
    BY <1>1, <2>1, GivenBack DEF AcquireCancelled, Holders, IInv, TypeOK
  <2>2. CASE c \notin ready
    BY <1>1, <2>2, CancelledInLine DEF AcquireCancelled
  <2> QED
    BY <2>1, <2>2
<1>2. ASSUME NEW c \in Caller, Release(c) PROVE IInv'
  <2>1. c \in Holders /\ ready \ {c} = ready
    BY <1>2 DEF Release, Holders, IInv, InLine, Queued
  <2>2. PICK slow \in BOOLEAN :
          limit' = NextLimit(slow) /\ Wake(limit', inFlight - 1, waiters, ready)
    BY <1>2 DEF Release
  <2>3. limit' \in (Lower * Unit)..(Upper * Unit)
    BY <2>2, NextLimitInRange DEF IInv
  <2>4. Goto(c, "idle") /\ cancelled' \in SUBSET Caller
    BY <1>2 DEF Release, IInv, TypeOK
  <2> QED
    BY <2>1, <2>2, <2>3, <2>4, GivenBack
<1>3. ASSUME NEW c \in Caller, Cancel(c) PROVE IInv'
  BY <1>3, SameHolders DEF Cancel, IInv, TypeOK, InLine, Holders, NoIdleSlot, Slots
<1>4. CASE UNCHANGED vars
  BY <1>4, SameHolders DEF vars, IInv, TypeOK, InLine, Holders, NoIdleSlot, Slots
<1> QED
  BY <1>1, <1>2, <1>3, <1>4, FastPath, QueueUp, Granted, SeesDone DEF Next, Leave

LEMMA Invariance == Spec => []IInv
  BY Initially, Inductive, PTL DEF Spec
-----------------------------------------------------------------------------
(* The theorems *)

\* The limit stays between Min and Max whatever the latencies are.
THEOREM LimiterTyping == Spec => []TypeOK
<1> IInv => TypeOK
  BY DEF IInv
<1> QED
  BY Invariance, PTL

\* No slot leaks and none is returned twice when waking and cancelling meet.
THEOREM SlotsAreAccountedFor == Spec => []SlotsAccounted
<1> IInv => SlotsAccounted
  BY DEF IInv
<1> QED
  BY Invariance, PTL

\* Whoever frees a slot or raises the limit wakes all there is room for.
THEOREM NobodyWaitsForNothing == Spec => []NoIdleSlot
<1> IInv => NoIdleSlot
  BY DEF IInv
<1> QED
  BY Invariance, PTL

\* Whoever gets a slot leaves nobody behind who was in the list before.
THEOREM FirstComeFirstServed == Spec => NoOvertaking
<1> DEFINE Fair == \A i \in 1..Len(waiters), c \in Holders' \ Holders :
                     (\A k \in 1..i : waiters[k] # c) => waiters[i] \notin Waiting'
<1>1. IInv /\ [Next]_vars => Fair
  <2> SUFFICES ASSUME IInv, [Next]_vars,
                      NEW i \in 1..Len(waiters), NEW c \in Holders' \ Holders,
                      \A k \in 1..i : waiters[k] # c
               PROVE  waiters[i] \notin Waiting'
    BY Zenon DEF Fair
  <2> USE DEF IInv
  <2>1. ASSUME NEW d \in Holders, NEW lim \in Int,
               Wake(lim, inFlight - 1, waiters, ready \ {d}), Goto(d, "idle")
        PROVE  waiters[i] \notin Waiting'
    <3>1. inFlight - 1 \in Int /\ waiters \in Seq(Caller)
      BY DEF TypeOK
    <3>2. PICK n \in 0..Len(waiters) :
            /\ inFlight' = inFlight - 1 + n
            /\ ready' = (ready \ {d}) \cup Foremost(waiters, n)
            /\ Len(waiters') = Len(waiters) - n
            /\ \A j \in 1..Len(waiters') : waiters'[j] = waiters[n + j]
            /\ waiters' # <<>> => inFlight' >= Slots(lim)
      BY <2>1, <3>1, WakeProperties
    <3>3. waiters' \in Seq(Caller)
      BY <2>1, <3>1, WakeProperties
    <3>4. c \in Foremost(waiters, n)
      BY <2>1, <3>2 DEF Holders, Goto, TypeOK
    <3>5. PICK m \in 1..n : waiters[m] = c
      BY <3>4 DEF Foremost
    <3>6. i < m
      BY <3>5
    <3>7. \A j \in 1..Len(waiters') : waiters'[j] # waiters[i]
      <4> SUFFICES ASSUME NEW j \in 1..Len(waiters') PROVE waiters'[j] # waiters[i]
        OBVIOUS
      <4>1. n + j \in 1..Len(waiters) /\ n + j # i
        BY <3>2, <3>5, <3>6
      <4> QED
        BY <3>2, <4>1 DEF InLine
    <3> QED
      BY <3>3, <3>7 DEF Waiting, ToSet
  <2>2. ASSUME NEW d \in Caller, Release(d) PROVE waiters[i] \notin Waiting'
    <3>1. d \in Holders /\ ready \ {d} = ready
      BY <2>2 DEF Release, Holders, InLine, Queued
    <3>2. PICK slow \in BOOLEAN :
            limit' = NextLimit(slow) /\ Wake(limit', inFlight - 1, waiters, ready)
      BY <2>2 DEF Release
    <3>3. limit' \in (Lower * Unit)..(Upper * Unit)
      BY <3>2, NextLimitInRange
    <3>4. limit' \in Int
      BY <3>3, LimiterAssumption DEF LimiterAssumption
    <3> QED
      BY <2>1, <2>2, <3>1, <3>2, <3>4 DEF Release
  <2>3. ASSUME NEW d \in Caller, AcquireCancelled(d) PROVE waiters[i] \notin Waiting'
    <3>1. CASE d \in ready
      <4>1. limit \in Int
        BY LimiterAssumption DEF LimiterAssumption, TypeOK
      <4> QED
        BY <2>1, <2>3, <3>1, <4>1 DEF AcquireCancelled, Holders
    <3>2. CASE d \notin ready
      <4>1. Holders' = Holders
        BY <2>3, <3>2 DEF AcquireCancelled, Holders, Goto, TypeOK
      <4> QED
        BY <4>1
    <3> QED
      BY <3>1, <3>2
  <2>4. ASSUME NEW d \in Caller, AcquireFast(d) PROVE waiters[i] \notin Waiting'
    BY <2>4, EmptySeq DEF AcquireFast
  <2>5. ASSUME NEW d \in Caller,
               AcquireQueued(d) \/ AcquireGranted(d) \/ SeeDone(d) \/ Cancel(d)
        PROVE  Holders' = Holders
    BY <2>5 DEF AcquireQueued, AcquireGranted, SeeDone, Cancel, Holders, Goto, TypeOK
  <2>6. CASE UNCHANGED vars
    BY <2>6 DEF vars, Holders
  <2> QED
    BY <2>2, <2>3, <2>4, <2>5, <2>6 DEF Next, Leave
<1>2. IInv /\ [Next]_vars => [Fair]_vars
  BY <1>1
<1> QED
  BY <1>2, Invariance, PTL DEF Spec, NoOvertaking, Fair
-----------------------------------------------------------------------------
(* The circuit breaker *)

\* Typing needs no strengthening: each branch of AllowAt and Record keeps its
\* counter below the limit it has just compared it with.
THEOREM BreakerTyping == BreakerSpec => []BreakerTypeOK
<1> USE BreakerAssumption DEF BreakerAssumption
<1>1. BreakerInit => BreakerTypeOK
  BY DEF BreakerInit, BreakerTypeOK, MaxAge
<1>2. BreakerTypeOK /\ [BreakerNext]_circuitVars => BreakerTypeOK'
  <2> SUFFICES ASSUME BreakerTypeOK, [BreakerNext]_circuitVars PROVE BreakerTypeOK'
    OBVIOUS
  <2> USE DEF BreakerTypeOK, MaxAge, Proceed, breakerVars
  <2>1. ASSUME NEW r \in Request, handle(r) PROVE BreakerTypeOK'
    <3>1. CASE Accept(r)
      BY <3>1 DEF Accept
    <3>2. CASE Call(r)
      BY <3>2 DEF Call, Admit, AdmitProbe, BecomeHalfOpen
    <3>3. CASE Fallback(r)
      BY <3>3 DEF Fallback
    <3>4. CASE Answer(r)
      BY <3>4 DEF Answer
    <3>5. CASE Record(r)
      <4>1. probes' \subseteq Request /\ request' \in [Request -> {"none", "accepted", "calling", "ok", "failed"}]
        BY <3>5 DEF Record
      <4>2. CASE RecordOpen
        BY <3>5, <4>1, <4>2 DEF Record, RecordOpen
      <4>3. ASSUME NEW lag \in 0..MaxLag, NEW success \in BOOLEAN, RecordClosed(success, lag)
            PROVE  BreakerTypeOK'
        BY <3>5, <4>1, <4>3 DEF Record, RecordClosed, trip
      <4>4. ASSUME NEW lag \in 0..MaxLag, NEW success \in BOOLEAN, RecordHalfOpen(success, lag)
            PROVE  BreakerTypeOK'
        BY <3>5, <4>1, <4>4 DEF Record, RecordHalfOpen, trip, reset
      <4> QED
        BY <3>5, <4>2, <4>3, <4>4 DEF Record
    <3> QED
      BY <2>1, <3>1, <3>2, <3>3, <3>4, <3>5 DEF handle
  <2>2. CASE TimePasses
    BY <2>2 DEF TimePasses
  <2>3. CASE GoDown
    <3>1. outages \in Nat /\ outages < MaxOutages /\ outages' = outages + 1
      BY <2>3 DEF GoDown
    <3>2. outages' \in 0..MaxOutages
      BY <3>1
    <3>3. up' \in BOOLEAN
      BY <2>3, ZenonT(30) DEF GoDown
    <3> QED
      BY <2>3, <3>2, <3>3, ZenonT(30) DEF GoDown
  <2>4. CASE ComeBack
    BY <2>4 DEF ComeBack
  <2>5. CASE UNCHANGED circuitVars
    BY <2>5 DEF circuitVars
  <2> QED
    BY <2>1, <2>2, <2>3, <2>4, <2>5 DEF BreakerNext
<1> QED
  BY <1>1, <1>2, PTL DEF BreakerSpec

\* A call that ends makes the set of probes smaller by at most one, a call that
\* is admitted as a probe and was none makes it larger by one.
LEMMA ProbesCount ==
    ASSUME NEW S, IsFiniteSet(S), NEW r
    PROVE  /\ Cardinality(S) \in Nat
           /\ Cardinality(S \ {r}) >= Cardinality(S) - 1
           /\ r \notin S => Cardinality(S \cup {r}) = Cardinality(S) + 1
           /\ Cardinality({r}) = 1
<1>1. Cardinality(S) \in Nat
  BY FS_CardinalityType
<1>2. Cardinality(S \ {r}) >= Cardinality(S) - 1
  <2>1. CASE r \in S
    <3>1. Cardinality(S \ {r}) = Cardinality(S) - 1
      BY <2>1, FS_RemoveElement
    <3> QED
      BY <1>1, <3>1
  <2>2. CASE r \notin S
    <3>1. S \ {r} = S
      BY <2>2
    <3> QED
      BY <1>1, <3>1
  <2> QED
    BY <2>1, <2>2
<1>3. r \notin S => Cardinality(S \cup {r}) = Cardinality(S) + 1
  BY FS_AddElement
<1>4. Cardinality({r}) = 1
  BY FS_Singleton
<1> QED
  BY <1>1, <1>2, <1>3, <1>4

\* A request that has not called yet, or has ended, is no probe.
ProbesInFlight == \A r \in probes : request[r] \in {"calling", "ok", "failed"}

BreakerInv == ProbesInFlight /\ NoLostProbe

\* NoLostProbe is inductive once a request that is about to call is known not to
\* be counted already: then AdmitProbe adds one to both sides, BecomeHalfOpen
\* starts both at one, and a success moves one from the probes to halfOK.
THEOREM ProbesAccountedFor == BreakerSpec => []NoLostProbe
<1> USE BreakerAssumption DEF BreakerAssumption
<1>1. BreakerInit => BreakerInv
  BY DEF BreakerInit, BreakerInv, ProbesInFlight, NoLostProbe
<1>2. BreakerTypeOK /\ BreakerTypeOK' /\ BreakerInv /\ [BreakerNext]_circuitVars => BreakerInv'
  <2> SUFFICES ASSUME BreakerTypeOK, BreakerTypeOK', BreakerInv, [BreakerNext]_circuitVars PROVE BreakerInv'
    OBVIOUS
  <2>0. IsFiniteSet(probes)
    BY FS_Subset DEF BreakerTypeOK
  <2>1. ASSUME NEW r \in Request, handle(r) PROVE BreakerInv'
    <3>1. CASE Accept(r)
      <4>1. r \notin probes
        BY <3>1 DEF Accept, BreakerInv, ProbesInFlight
      <4> QED
        BY <3>1, <4>1 DEF Accept, Proceed, breakerVars, BreakerInv, ProbesInFlight, NoLostProbe, BreakerTypeOK
    <3>2. CASE Call(r)
      <4>1. request[r] = "accepted" /\ r \notin probes
        BY <3>2 DEF Call, BreakerInv, ProbesInFlight
      <4>2. ProbesInFlight'
        BY <3>2, <4>1 DEF Call, Proceed, Admit, AdmitProbe, BecomeHalfOpen, BreakerInv,
                          ProbesInFlight, BreakerTypeOK
      <4>3. CASE Admit
        BY <4>2, <4>3 DEF Admit, BreakerInv, NoLostProbe, breakerVars
      <4>4. CASE AdmitProbe(r)
        <5>1. Cardinality(probes') = Cardinality(probes) + 1
          BY <2>0, <4>1, <4>4, ProbesCount DEF AdmitProbe
        <5>2. Cardinality(probes) \in Nat
          BY <2>0, ProbesCount
        <5> QED
          BY <4>2, <4>4, <5>1, <5>2 DEF AdmitProbe, BreakerInv, NoLostProbe, BreakerTypeOK
      <4>5. ASSUME NEW lag \in 0..MaxLag, BecomeHalfOpen(r, lag) PROVE BreakerInv'
        <5>1. Cardinality(probes') = 1
          BY <4>5, <2>0, ProbesCount DEF BecomeHalfOpen
        <5> QED
          BY <4>2, <4>5, <5>1 DEF BecomeHalfOpen, BreakerInv, NoLostProbe
      <4> QED
        BY <3>2, <4>3, <4>4, <4>5 DEF Call
    <3>3. CASE Fallback(r)
      <4>1. r \notin probes
        BY <3>3 DEF Fallback, BreakerInv, ProbesInFlight
      <4> QED
        BY <3>3, <4>1 DEF Fallback, Proceed, breakerVars, BreakerInv, ProbesInFlight, NoLostProbe, BreakerTypeOK
    <3>4. CASE Answer(r)
      BY <3>4 DEF Answer, Proceed, breakerVars, BreakerInv, ProbesInFlight, NoLostProbe, BreakerTypeOK
    <3>5. CASE Record(r)
      <4>1. ProbesInFlight'
        BY <3>5 DEF Record, Proceed, BreakerInv, ProbesInFlight, BreakerTypeOK
      <4>2. ASSUME state' = "HalfOpen" PROVE NoLostProbe'
        <5>1. /\ state = "HalfOpen" /\ halfOpen' = halfOpen
              /\ halfOK' = halfOK + 1 /\ probes' = probes \ {r}
          BY <3>5, <4>2 DEF Record, RecordOpen, RecordClosed, RecordHalfOpen, trip, reset,
                            breakerVars
        <5>2. /\ Cardinality(probes') \in Nat /\ Cardinality(probes) \in Nat
              /\ Cardinality(probes') >= Cardinality(probes) - 1
          <6>1. IsFiniteSet(probes \ {r})
            BY <2>0, FS_RemoveElement
          <6> QED
            BY <2>0, <5>1, <6>1, ProbesCount
        <5> QED
          BY <5>1, <5>2 DEF BreakerInv, NoLostProbe, BreakerTypeOK
      <4> QED
        BY <4>1, <4>2 DEF BreakerInv, NoLostProbe
    <3> QED
      BY <2>1, <3>1, <3>2, <3>3, <3>4, <3>5 DEF handle
  <2>2. CASE TimePasses
    BY <2>2 DEF TimePasses, BreakerInv, ProbesInFlight, NoLostProbe
  <2>3. CASE GoDown
    BY <2>3 DEF GoDown, BreakerInv, ProbesInFlight, NoLostProbe, breakerVars
  <2>4. CASE ComeBack
    BY <2>4 DEF ComeBack, BreakerInv, ProbesInFlight, NoLostProbe, breakerVars
  <2>5. CASE UNCHANGED circuitVars
    BY <2>5 DEF circuitVars, BreakerInv, ProbesInFlight, NoLostProbe, breakerVars
  <2> QED
    BY <2>1, <2>2, <2>3, <2>4, <2>5 DEF BreakerNext
<1>3. BreakerInv => NoLostProbe
  BY DEF BreakerInv
<1> QED
  BY <1>1, <1>2, <1>3, BreakerTyping, PTL DEF BreakerSpec
-----------------------------------------------------------------------------
(* The bounded queue *)

Elements(s) == {s[i] : i \in DOMAIN s}
Distinct(s) == \A i, j \in DOMAIN s : i # j => s[i] # s[j]

\* A new element at the end.
LEMMA Appended ==
    ASSUME NEW s \in Seq(Nat), NEW e \in Nat
    PROVE  /\ Append(s, e) \in Seq(Nat) /\ Len(Append(s, e)) = Len(s) + 1
           /\ Elements(Append(s, e)) = Elements(s) \cup {e}
           /\ Distinct(s) /\ e \notin Elements(s) => Distinct(Append(s, e))
<1>1. /\ DOMAIN s = 1..Len(s) /\ DOMAIN Append(s, e) = 1..(Len(s) + 1) /\ Len(s) \in Nat
      /\ \A i \in 1..Len(s) : Append(s, e)[i] = s[i]
      /\ Append(s, e)[Len(s) + 1] = e
      /\ Append(s, e) \in Seq(Nat) /\ Len(Append(s, e)) = Len(s) + 1
  OBVIOUS
<1>2. Elements(Append(s, e)) = Elements(s) \cup {e}
  BY <1>1 DEF Elements
<1>3. ASSUME Distinct(s), e \notin Elements(s) PROVE Distinct(Append(s, e))
  BY <1>1, <1>3 DEF Distinct, Elements
<1> QED
  BY <1>1, <1>2, <1>3

\* The first element leaves.
LEMMA HeadLeaves ==
    ASSUME NEW s \in Seq(Nat), s # << >>, Distinct(s)
    PROVE  /\ Tail(s) \in Seq(Nat) /\ Len(Tail(s)) = Len(s) - 1 /\ Distinct(Tail(s))
           /\ Head(s) \in Elements(s) /\ Elements(Tail(s)) = Elements(s) \ {Head(s)}
<1>1. /\ DOMAIN s = 1..Len(s) /\ DOMAIN Tail(s) = 1..(Len(s) - 1) /\ Len(s) \in Nat \ {0}
      /\ \A i \in 1..(Len(s) - 1) : Tail(s)[i] = s[i + 1]
      /\ Head(s) = s[1] /\ Tail(s) \in Seq(Nat) /\ Len(Tail(s)) = Len(s) - 1
  OBVIOUS
<1>2. Distinct(Tail(s))
  <2> SUFFICES ASSUME NEW i \in 1..(Len(s) - 1), NEW j \in 1..(Len(s) - 1), i # j
               PROVE  s[i + 1] # s[j + 1]
    BY <1>1 DEF Distinct
  <2> QED
    BY <1>1 DEF Distinct
<1>3. Head(s) \in Elements(s)
  BY <1>1 DEF Elements
<1>4. \A i \in 1..(Len(s) - 1) : Tail(s)[i] \in Elements(s) \ {Head(s)}
  <2> SUFFICES ASSUME NEW i \in 1..(Len(s) - 1) PROVE s[i + 1] \in Elements(s) \ {s[1]}
    BY <1>1
  <2> QED
    BY <1>1 DEF Distinct, Elements
<1>5. ASSUME NEW i \in 1..Len(s), s[i] # Head(s) PROVE s[i] \in Elements(Tail(s))
  <2>1. i - 1 \in 1..(Len(s) - 1) /\ Tail(s)[i - 1] = s[i]
    BY <1>1, <1>5
  <2> QED
    BY <1>1, <2>1 DEF Elements
<1>6. Elements(Tail(s)) \subseteq Elements(s) \ {Head(s)}
  BY <1>1, <1>4 DEF Elements
<1>7. Elements(s) \ {Head(s)} \subseteq Elements(Tail(s))
  BY <1>1, <1>5 DEF Elements
<1> QED
  BY <1>1, <1>2, <1>3, <1>6, <1>7

Carrying == {"send", "evict", "pushed"}
Gone == taken \cup evicted \cup refused

QueueTypes ==
    /\ policy \in Policy
    /\ offers \in Nat /\ accepted \in Nat /\ dropped \in Nat
    /\ ch \in Seq(Nat) /\ Elements(ch) \subseteq 1..offers
    /\ place \in [Producer -> Place] /\ item \in [Producer -> 0..offers]
    /\ taken \subseteq 1..offers /\ evicted \subseteq 1..offers /\ refused \subseteq 1..offers
    /\ IsFiniteSet({p \in Producer : place[p] # "idle"})

\* An element is in one place: with the producer that brings it, in the channel
\* or among those that are gone.
OnePlace ==
    /\ \A p, q \in Producer :
           p # q /\ place[p] \in Carrying /\ place[q] \in Carrying => item[p] # item[q]
    /\ \A p \in Producer : place[p] \in Carrying =>
           item[p] \in 1..offers /\ item[p] \notin Elements(ch) \cup Gone
    /\ Elements(ch) \cap Gone = {}
    /\ Distinct(ch) /\ Cardinality(Elements(ch)) = Len(ch)
    /\ taken \cap evicted = {} /\ evicted \cap refused = {}

Counted == {"entered"}
Discarded == {"pushed", "turned"}

Balance ==
    /\ accepted + At(Counted) = Len(ch) + Cardinality(taken) + Cardinality(evicted)
    /\ dropped + At(Discarded) = Cardinality(evicted) + Cardinality(refused)

QueueInv == QueueTypes /\ OnePlace /\ Balance

\* What a producer's move does to the number of producers at some places.
LEMMA Moves ==
    ASSUME QueueTypes, NEW p \in Producer, NEW l \in Place, place' = [place EXCEPT ![p] = l],
           NEW S \in SUBSET Place, "idle" \notin S
    PROVE  /\ At(S) \in Nat
           /\ At(S)' = At(S) + (IF l \in S THEN 1 ELSE 0)
                                         - (IF place[p] \in S THEN 1 ELSE 0)
           /\ IsFiniteSet({q \in Producer : place'[q] # "idle"})
<1> DEFINE A == {q \in Producer : place[q] \in S}
           B == {q \in Producer : place[q] # "idle"}
           C == {q \in Producer : place'[q] \in S}
           D == {q \in Producer : place'[q] # "idle"}
<1>1. place \in [Producer -> Place] /\ IsFiniteSet(B) /\ A \in SUBSET B
  BY DEF QueueTypes
<1>2. place'[p] = l /\ \A q \in Producer \ {p} : place'[q] = place[q]
  BY <1>1
<1>3. IsFiniteSet(A)
  BY <1>1, FS_Subset
<1>4. C = (IF l \in S THEN A \cup {p} ELSE A \ {p})
  BY <1>2
<1>5. At(S) = Cardinality(A) /\ At(S)' = Cardinality(C)
  BY DEF At
<1>6. p \in A <=> place[p] \in S
  OBVIOUS
<1>7. D \in SUBSET (B \cup {p})
  BY <1>2
<1>8. IsFiniteSet(B \cup {p}) /\ Cardinality(A) \in Nat
  BY <1>1, <1>3, FS_AddElement, FS_CardinalityType
<1>9. IsFiniteSet(D)
  BY <1>7, <1>8, FS_Subset
<1> HIDE DEF A, C
<1>10. Cardinality(C) = Cardinality(A) + (IF l \in S THEN 1 ELSE 0) - (IF place[p] \in S THEN 1 ELSE 0)
  <2>1. CASE l \in S
    <3>1. Cardinality(A \cup {p}) = IF p \in A THEN Cardinality(A) ELSE Cardinality(A) + 1
      BY <1>3, FS_AddElement
    <3> QED
      BY <1>4, <1>6, <1>8, <2>1, <3>1
  <2>2. CASE l \notin S
    <3>1. Cardinality(A \ {p}) = IF p \in A THEN Cardinality(A) - 1 ELSE Cardinality(A)
      BY <1>3, FS_RemoveElement
    <3> QED
      BY <1>4, <1>6, <1>8, <2>2, <3>1
  <2> QED
    BY <2>1, <2>2
<1> QED
  BY <1>5, <1>8, <1>9, <1>10

\* The history sets and the channel are finite.
LEMMA Sizes ==
    ASSUME QueueTypes
    PROVE  /\ IsFiniteSet(Elements(ch)) /\ IsFiniteSet(taken) /\ IsFiniteSet(evicted)
           /\ IsFiniteSet(refused)
           /\ Cardinality(taken) \in Nat /\ Cardinality(evicted) \in Nat
           /\ Cardinality(refused) \in Nat /\ Len(ch) \in Nat
<1>1. IsFiniteSet(1..offers)
  BY FS_Interval DEF QueueTypes
<1>2. Elements(ch) \in SUBSET (1..offers) /\ taken \in SUBSET (1..offers)
      /\ evicted \in SUBSET (1..offers) /\ refused \in SUBSET (1..offers)
  BY DEF QueueTypes
<1>3. /\ IsFiniteSet(Elements(ch)) /\ IsFiniteSet(taken) /\ IsFiniteSet(evicted)
      /\ IsFiniteSet(refused)
  BY <1>1, <1>2, FS_Subset
<1>4. Len(ch) \in Nat
  BY DEF QueueTypes
<1> QED
  BY <1>3, <1>4, FS_CardinalityType

LEMMA QueueInitially == QueueInit => QueueInv
<1> SUFFICES ASSUME QueueInit PROVE QueueInv
  OBVIOUS
<1>1. Elements(<< >>) = {} /\ Distinct(<< >>) /\ Len(<< >>) = 0 /\ << >> \in Seq(Nat)
  BY DEF Elements, Distinct
<1>2. \A p \in Producer : place[p] = "idle"
  BY DEF QueueInit
<1>3. {p \in Producer : place[p] # "idle"} = {}
  BY <1>2
<1>4. QueueTypes
  <2>1. IsFiniteSet({p \in Producer : place[p] # "idle"})
    BY <1>3, FS_EmptySet
  <2> QED
    BY <1>1, <2>1 DEF QueueInit, QueueTypes, Place
<1>5. OnePlace
  BY <1>1, <1>2, FS_EmptySet DEF QueueInit, OnePlace, Carrying, Gone
<1>6. Balance
  <2>1. At(Counted) = 0 /\ At(Discarded) = 0
    <3>1. /\ {p \in Producer : place[p] \in Counted} = {}
          /\ {p \in Producer : place[p] \in Discarded} = {}
      BY <1>2 DEF Counted, Discarded
    <3> QED
      BY <3>1, FS_EmptySet DEF At
  <2> QED
    BY <1>1, <2>1, FS_EmptySet DEF QueueInit, Balance
<1> QED
  BY <1>4, <1>5, <1>6 DEF QueueInv

LEMMA Move ==
    ASSUME QueueTypes, NEW p \in Producer, NEW l \in Place, MoveTo(p, l)
    PROVE  /\ place' \in [Producer -> Place]
           /\ place'[p] = l /\ \A q \in Producer : q # p => place'[q] = place[q]
           /\ IsFiniteSet({q \in Producer : place'[q] # "idle"})
           /\ At(Counted) \in Nat /\ At(Discarded) \in Nat
           /\ l \notin Counted /\ place[p] \notin Counted
                  => At(Counted)' = At(Counted)
           /\ l \in Counted /\ place[p] \notin Counted
                  => At(Counted)' = At(Counted) + 1
           /\ l \notin Counted /\ place[p] \in Counted
                  => At(Counted)' = At(Counted) - 1
           /\ l \notin Discarded /\ place[p] \notin Discarded
                  => At(Discarded)' = At(Discarded)
           /\ l \in Discarded /\ place[p] \notin Discarded
                  => At(Discarded)' = At(Discarded) + 1
           /\ l \notin Discarded /\ place[p] \in Discarded
                  => At(Discarded)' = At(Discarded) - 1
<1>1. place' = [place EXCEPT ![p] = l] /\ place \in [Producer -> Place]
  BY DEF MoveTo, QueueTypes
<1>2. /\ Counted \in SUBSET Place /\ "idle" \notin Counted
      /\ Discarded \in SUBSET Place /\ "idle" \notin Discarded
  BY DEF Counted, Discarded, Place
<1>3. /\ place' \in [Producer -> Place]
      /\ place'[p] = l /\ \A q \in Producer : q # p => place'[q] = place[q]
  BY <1>1
<1>4. /\ At(Counted) \in Nat
      /\ At(Counted)' = At(Counted) + (IF l \in Counted THEN 1 ELSE 0)
                                               - (IF place[p] \in Counted THEN 1 ELSE 0)
      /\ IsFiniteSet({q \in Producer : place'[q] # "idle"})
  BY <1>1, <1>2, Moves
<1>5. /\ At(Discarded) \in Nat
      /\ At(Discarded)' = At(Discarded) + (IF l \in Discarded THEN 1 ELSE 0)
                                                   - (IF place[p] \in Discarded THEN 1 ELSE 0)
  BY <1>1, <1>2, Moves
<1> QED
  BY <1>3, <1>4, <1>5

LEMMA OfferStep == ASSUME QueueInv, NEW p \in Producer, Offer(p) PROVE QueueInv'
<1>1. /\ place[p] = "idle" /\ offers' = offers + 1 /\ item' = [item EXCEPT ![p] = offers']
      /\ MoveTo(p, "send") /\ policy' = policy /\ ch' = ch /\ accepted' = accepted
      /\ dropped' = dropped /\ taken' = taken /\ evicted' = evicted /\ refused' = refused
  BY DEF Offer, history
<1>2. QueueTypes /\ OnePlace /\ Balance
  BY DEF QueueInv
<1>3. /\ place' \in [Producer -> Place] /\ IsFiniteSet({q \in Producer : place'[q] # "idle"})
      /\ place'[p] = "send" /\ \A q \in Producer : q # p => place'[q] = place[q]
      /\ At(Counted) \in Nat /\ At(Discarded) \in Nat
      /\ At(Counted)' = At(Counted) /\ At(Discarded)' = At(Discarded)
  <2>1. "send" \in Place
    BY DEF Place
  <2> QED
    <3>1. "send" \notin Counted \cup Discarded /\ place[p] \notin Counted \cup Discarded
      BY <1>1 DEF Counted, Discarded
    <3> QED
      BY <1>1, <1>2, <2>1, <3>1, Move
<1>4. offers \in Nat /\ item \in [Producer -> 0..offers] /\ offers' \in Nat
  BY <1>1, <1>2 DEF QueueTypes
<1>5. /\ item' \in [Producer -> 0..offers'] /\ item'[p] = offers'
      /\ \A q \in Producer : q # p => item'[q] = item[q]
  BY <1>1, <1>4
<1>6. 1..offers \subseteq 1..offers' /\ offers' \in 1..offers' /\ offers' \notin 1..offers
  BY <1>1, <1>4
<1>7. QueueTypes'
  BY <1>1, <1>2, <1>3, <1>4, <1>5, <1>6 DEF QueueTypes
<1>8. OnePlace'
  <2>1. /\ Elements(ch) \subseteq 1..offers /\ Gone \subseteq 1..offers
        /\ \A q \in Producer : place[q] \in Carrying => item[q] \in 1..offers
    BY <1>2 DEF QueueTypes, OnePlace, Gone
  <2>2. Gone' = Gone
    BY <1>1 DEF Gone
  <2>3. ASSUME NEW q \in Producer, NEW r \in Producer, q # r,
               place'[q] \in Carrying, place'[r] \in Carrying
        PROVE  item'[q] # item'[r]
    <3>1. CASE q = p
      BY <1>3, <1>5, <1>6, <2>1, <2>3, <3>1
    <3>2. CASE r = p
      BY <1>3, <1>5, <1>6, <2>1, <2>3, <3>2
    <3>3. CASE q # p /\ r # p
      BY <1>2, <1>3, <1>5, <2>3, <3>3 DEF OnePlace
    <3> QED
      BY <3>1, <3>2, <3>3
  <2>4. ASSUME NEW q \in Producer, place'[q] \in Carrying
        PROVE  item'[q] \in 1..offers' /\ item'[q] \notin Elements(ch) \cup Gone
    <3>1. CASE q = p
      BY <1>5, <1>6, <2>1, <3>1
    <3>2. CASE q # p
      BY <1>2, <1>3, <1>5, <1>6, <2>4, <3>2 DEF OnePlace
    <3> QED
      BY <3>1, <3>2
  <2> QED
    BY <1>1, <1>2, <2>2, <2>3, <2>4 DEF OnePlace
<1>9. Balance'
  BY <1>1, <1>2, <1>3 DEF Balance
<1> QED
  BY <1>7, <1>8, <1>9 DEF QueueInv

LEMMA SendStep == ASSUME QueueInv, NEW p \in Producer, Send(p) PROVE QueueInv'
<1> DEFINE e == item[p]
<1>1. /\ place[p] = "send" /\ ch' = Append(ch, e) /\ MoveTo(p, "entered")
      /\ policy' = policy /\ item' = item /\ offers' = offers /\ accepted' = accepted
      /\ dropped' = dropped /\ taken' = taken /\ evicted' = evicted /\ refused' = refused
  BY DEF Send, history
<1>2. QueueTypes /\ OnePlace /\ Balance
  BY DEF QueueInv
<1>3. /\ place' \in [Producer -> Place] /\ IsFiniteSet({q \in Producer : place'[q] # "idle"})
      /\ place'[p] = "entered" /\ \A q \in Producer : q # p => place'[q] = place[q]
      /\ At(Counted) \in Nat
      /\ At(Counted)' = At(Counted) + 1 /\ At(Discarded)' = At(Discarded)
  <2>1. "entered" \in Place
    BY DEF Place
  <2> QED
    <3>1. /\ "entered" \in Counted \ Discarded /\ place[p] \notin Counted \cup Discarded
      BY <1>1 DEF Counted, Discarded
    <3> QED
      BY <1>1, <1>2, <2>1, <3>1, Move
<1>4. e \in 1..offers /\ e \notin Elements(ch) \cup Gone /\ e \in Nat
  BY <1>1, <1>2 DEF QueueTypes, OnePlace, Carrying
<1>5. /\ ch' \in Seq(Nat) /\ Len(ch') = Len(ch) + 1 /\ Elements(ch') = Elements(ch) \cup {e}
      /\ Distinct(ch')
  BY <1>1, <1>2, <1>4, Appended DEF QueueTypes, OnePlace
<1> HIDE DEF e
<1>6. QueueTypes'
  BY <1>1, <1>2, <1>3, <1>4, <1>5 DEF QueueTypes
<1>7. OnePlace'
  <2>1. Gone' = Gone /\ e \notin Gone
    BY <1>1, <1>4 DEF Gone
  <2>2. \A q \in Producer : place'[q] \in Carrying => q # p /\ place[q] \in Carrying
    BY <1>3 DEF Carrying
  <2>3. ASSUME NEW q \in Producer, place'[q] \in Carrying
        PROVE  item[q] \in 1..offers /\ item[q] \notin Elements(ch) \cup {e} \cup Gone
    BY <1>1, <1>2, <2>2, <2>3 DEF OnePlace, Carrying, e
  <2>4. Cardinality(Elements(ch')) = Len(ch')
    <3>1. Cardinality(Elements(ch) \cup {e}) = Cardinality(Elements(ch)) + 1
      BY <1>2, <1>4, Sizes, FS_AddElement
    <3> QED
      BY <1>2, <1>5, <3>1 DEF OnePlace
  <2>5. \A q, r \in Producer : q # r /\ place'[q] \in Carrying /\ place'[r] \in Carrying
                                 => item'[q] # item'[r]
    BY <1>1, <1>2, <2>2 DEF OnePlace
  <2>6. Elements(ch') \cap Gone = {}
    BY <1>2, <1>5, <2>1 DEF OnePlace
  <2>7. taken' \cap evicted' = {} /\ evicted' \cap refused' = {}
    BY <1>1, <1>2 DEF OnePlace
  <2> QED
    BY <1>1, <1>5, <2>1, <2>3, <2>4, <2>5, <2>6, <2>7 DEF OnePlace
<1>8. Balance'
  <2>1. /\ accepted \in Nat /\ Len(ch) \in Nat /\ Cardinality(taken) \in Nat
        /\ Cardinality(evicted) \in Nat
    BY <1>2, Sizes DEF QueueTypes
  <2>2. accepted + At(Counted) + 1 = Len(ch) + 1 + Cardinality(taken) + Cardinality(evicted)
    BY <1>2, <1>3, <2>1 DEF Balance
  <2>3. Len(ch') = Len(ch) + 1 /\ accepted + (At(Counted) + 1) = accepted + At(Counted) + 1
    BY <1>3, <1>5, <2>1
  <2> QED
    BY <1>1, <1>2, <1>3, <2>2, <2>3 DEF Balance
<1> QED
  BY <1>6, <1>7, <1>8 DEF QueueInv

\* A producer goes from one place where it holds its element to another.
LEMMA StillCarried ==
    ASSUME QueueInv, NEW p \in Producer, place[p] \in {"send", "evict"},
           NEW l \in {"send", "evict"}, MoveTo(p, l),
           UNCHANGED <<policy, ch, item, offers, accepted, dropped, taken, evicted, refused>>
    PROVE  QueueInv'
<1>1. QueueTypes /\ OnePlace /\ Balance
  BY DEF QueueInv
<1>2. /\ place' \in [Producer -> Place] /\ IsFiniteSet({q \in Producer : place'[q] # "idle"})
      /\ place'[p] = l /\ \A q \in Producer : q # p => place'[q] = place[q]
      /\ At(Counted)' = At(Counted) /\ At(Discarded)' = At(Discarded)
  <2>1. /\ l \in Place /\ l \notin Counted \cup Discarded
        /\ place[p] \notin Counted \cup Discarded
    BY DEF Place, Counted, Discarded
  <2> QED
    BY <1>1, <2>1, Move
<1>3. \A q \in Producer : place'[q] \in Carrying <=> place[q] \in Carrying
  BY <1>2 DEF Carrying
<1>4. QueueTypes'
  BY <1>1, <1>2 DEF QueueTypes
<1>5. OnePlace'
  BY <1>1, <1>3 DEF OnePlace, Gone
<1>6. Balance'
  BY <1>1, <1>2 DEF Balance
<1> QED
  BY <1>4, <1>5, <1>6 DEF QueueInv

LEMMA TurnDownStep == ASSUME QueueInv, NEW p \in Producer, TurnDown(p) PROVE QueueInv'
<1> DEFINE e == item[p]
<1>1. /\ place[p] = "send" /\ refused' = refused \cup {e} /\ MoveTo(p, "turned")
      /\ policy' = policy /\ ch' = ch /\ item' = item /\ offers' = offers
      /\ accepted' = accepted /\ dropped' = dropped /\ taken' = taken /\ evicted' = evicted
  BY DEF TurnDown
<1>2. QueueTypes /\ OnePlace /\ Balance
  BY DEF QueueInv
<1>3. /\ place' \in [Producer -> Place] /\ IsFiniteSet({q \in Producer : place'[q] # "idle"})
      /\ place'[p] = "turned" /\ \A q \in Producer : q # p => place'[q] = place[q]
      /\ At(Discarded) \in Nat
      /\ At(Counted)' = At(Counted) /\ At(Discarded)' = At(Discarded) + 1
  <2>1. "turned" \in Place
    BY DEF Place
  <2>2. "turned" \in Discarded \ Counted /\ place[p] \notin Counted \cup Discarded
    BY <1>1 DEF Counted, Discarded
  <2> QED
    BY <1>1, <1>2, <2>1, <2>2, Move
<1>4. e \in 1..offers /\ e \notin Elements(ch) \cup Gone
  BY <1>1, <1>2 DEF OnePlace, Carrying
<1>5. QueueTypes'
  BY <1>1, <1>2, <1>3, <1>4 DEF QueueTypes
<1>6. OnePlace'
  <2>1. Gone' = Gone \cup {e}
    BY <1>1 DEF Gone
  <2>2. \A q \in Producer : place'[q] \in Carrying => q # p /\ place[q] \in Carrying
    BY <1>3 DEF Carrying
  <2>3. \A q \in Producer : place'[q] \in Carrying => item[q] # e
    BY <1>1, <1>2, <2>2 DEF OnePlace, Carrying
  <2>4. e \notin evicted
    BY <1>4 DEF Gone
  <2> HIDE DEF e
  <2>5. evicted' \cap refused' = {}
    BY <1>1, <1>2, <2>4 DEF OnePlace
  <2>6. Elements(ch') \cap Gone' = {}
    BY <1>1, <1>2, <1>4, <2>1 DEF OnePlace
  <2>7. \A q \in Producer : place'[q] \in Carrying =>
                           item'[q] \in 1..offers' /\ item'[q] \notin Elements(ch') \cup Gone'
    BY <1>1, <1>2, <2>1, <2>2, <2>3 DEF OnePlace
  <2> QED
    BY <1>1, <1>2, <2>2, <2>5, <2>6, <2>7 DEF OnePlace
<1>7. Balance'
  <2>1. dropped \in Nat /\ Cardinality(refused) \in Nat /\ Cardinality(evicted) \in Nat
    BY <1>2, Sizes DEF QueueTypes
  <2>2. Cardinality(refused') = Cardinality(refused) + 1
    BY <1>1, <1>2, <1>4, Sizes, FS_AddElement DEF Gone
  <2>3. dropped + (At(Discarded) + 1) = Cardinality(evicted) + (Cardinality(refused) + 1)
    BY <1>2, <1>3, <2>1 DEF Balance
  <2> QED
    BY <1>1, <1>2, <1>3, <2>2, <2>3 DEF Balance
<1> QED
  BY <1>5, <1>6, <1>7 DEF QueueInv

\* The oldest element leaves the channel.
LEMMA OldestLeaves ==
    ASSUME QueueTypes, OnePlace, ch # << >>, ch' = Tail(ch)
    PROVE  /\ Head(ch) \in 1..offers /\ Head(ch) \in Elements(ch) /\ Head(ch) \notin Gone
           /\ ch' \in Seq(Nat) /\ Distinct(ch') /\ Elements(ch') = Elements(ch) \ {Head(ch)}
           /\ Len(ch) \in Nat /\ Len(ch') = Len(ch) - 1 /\ Cardinality(Elements(ch')) = Len(ch')
<1>1. /\ ch' \in Seq(Nat) /\ Len(ch') = Len(ch) - 1 /\ Distinct(ch')
      /\ Head(ch) \in Elements(ch) /\ Elements(ch') = Elements(ch) \ {Head(ch)}
  BY HeadLeaves DEF QueueTypes, OnePlace
<1>2. Head(ch) \in 1..offers /\ Head(ch) \notin Gone
  BY <1>1 DEF QueueTypes, OnePlace
<1>3. Cardinality(Elements(ch) \ {Head(ch)}) = Cardinality(Elements(ch)) - 1
  BY <1>1, Sizes, FS_RemoveElement
<1>4. Cardinality(Elements(ch)) = Len(ch) /\ Len(ch) \in Nat
  BY Sizes DEF OnePlace
<1> QED
  BY <1>1, <1>2, <1>3, <1>4

LEMMA EvictStep == ASSUME QueueInv, NEW p \in Producer, Evict(p) PROVE QueueInv'
<1>1. CASE ch = << >>
  BY <1>1, StillCarried DEF Evict
<1>2. CASE ch # << >>
  <2> DEFINE h == Head(ch)
  <2>1. /\ place[p] = "evict" /\ ch' = Tail(ch) /\ evicted' = evicted \cup {h}
        /\ MoveTo(p, "pushed") /\ policy' = policy /\ item' = item /\ offers' = offers
        /\ accepted' = accepted /\ dropped' = dropped /\ taken' = taken /\ refused' = refused
    BY <1>2 DEF Evict
  <2>2. QueueTypes /\ OnePlace /\ Balance
    BY DEF QueueInv
  <2>3. /\ place' \in [Producer -> Place]
        /\ IsFiniteSet({q \in Producer : place'[q] # "idle"})
        /\ place'[p] = "pushed" /\ \A q \in Producer : q # p => place'[q] = place[q]
        /\ At(Counted) \in Nat /\ At(Discarded) \in Nat
        /\ At(Counted)' = At(Counted)
        /\ At(Discarded)' = At(Discarded) + 1
    <3>1. "pushed" \in Place
      BY DEF Place
    <3>2. "pushed" \in Discarded \ Counted /\ place[p] \notin Counted \cup Discarded
      BY <2>1 DEF Counted, Discarded
    <3> QED
      BY <2>1, <2>2, <3>1, <3>2, Move
  <2>4. /\ h \in 1..offers /\ h \in Elements(ch) /\ h \notin Gone
        /\ ch' \in Seq(Nat) /\ Distinct(ch') /\ Elements(ch') = Elements(ch) \ {h}
        /\ Len(ch) \in Nat /\ Len(ch') = Len(ch) - 1 /\ Cardinality(Elements(ch')) = Len(ch')
    BY <1>2, <2>1, <2>2, OldestLeaves
  <2> HIDE DEF h
  <2>5. QueueTypes'
    BY <2>1, <2>2, <2>3, <2>4 DEF QueueTypes
  <2>6. OnePlace'
    <3>1. Gone' = Gone \cup {h} /\ Elements(ch') \cup Gone' = Elements(ch) \cup Gone
      BY <2>1, <2>4 DEF Gone
    <3>2. \A q \in Producer : place'[q] \in Carrying <=> place[q] \in Carrying
      BY <2>1, <2>3 DEF Carrying
    <3>3. Elements(ch') \cap Gone' = {}
      BY <2>2, <2>4, <3>1 DEF OnePlace
    <3>4. taken' \cap evicted' = {} /\ evicted' \cap refused' = {}
      BY <2>1, <2>2, <2>4 DEF OnePlace, Gone
    <3> QED
      BY <2>1, <2>2, <2>4, <3>1, <3>2, <3>3, <3>4 DEF OnePlace
  <2>7. Balance'
    <3>1. /\ accepted \in Nat /\ dropped \in Nat /\ Cardinality(taken) \in Nat
          /\ Cardinality(refused) \in Nat /\ Cardinality(evicted) \in Nat
      BY <2>2, Sizes DEF QueueTypes
    <3>2. Cardinality(evicted') = Cardinality(evicted) + 1
      BY <2>1, <2>2, <2>4, Sizes, FS_AddElement DEF Gone
    <3>3. dropped + (At(Discarded) + 1) = (Cardinality(evicted) + 1) + Cardinality(refused)
      <4>1. dropped + At(Discarded) = Cardinality(evicted) + Cardinality(refused)
        BY <2>2 DEF Balance
      <4> QED
        BY <2>3, <3>1, <4>1
    <3>4. accepted + At(Counted) = (Len(ch) - 1) + Cardinality(taken) + (Cardinality(evicted) + 1)
      <4>1. accepted + At(Counted) = Len(ch) + Cardinality(taken) + Cardinality(evicted)
        BY <2>2 DEF Balance
      <4> QED
        BY <2>3, <2>4, <3>1, <4>1
    <3> QED
      BY <2>1, <2>3, <2>4, <3>2, <3>3, <3>4 DEF Balance
  <2> QED
    BY <2>5, <2>6, <2>7 DEF QueueInv
<1> QED
  BY <1>1, <1>2

LEMMA TakeStep == ASSUME QueueInv, Take PROVE QueueInv'
<1> DEFINE h == Head(ch)
<1>1. /\ ch # << >> /\ ch' = Tail(ch) /\ taken' = taken \cup {h} /\ policy' = policy
      /\ place' = place /\ item' = item /\ offers' = offers /\ accepted' = accepted
      /\ dropped' = dropped /\ evicted' = evicted /\ refused' = refused
  BY DEF Take
<1>2. QueueTypes /\ OnePlace /\ Balance
  BY DEF QueueInv
<1>3. /\ h \in 1..offers /\ h \in Elements(ch) /\ h \notin Gone
      /\ ch' \in Seq(Nat) /\ Distinct(ch') /\ Elements(ch') = Elements(ch) \ {h}
      /\ Len(ch) \in Nat /\ Len(ch') = Len(ch) - 1 /\ Cardinality(Elements(ch')) = Len(ch')
  BY <1>1, <1>2, OldestLeaves
<1> HIDE DEF h
<1>4. QueueTypes'
  BY <1>1, <1>2, <1>3 DEF QueueTypes
<1>5. OnePlace'
  <2>1. Gone' = Gone \cup {h} /\ Elements(ch') \cup Gone' = Elements(ch) \cup Gone
    BY <1>1, <1>3 DEF Gone
  <2>2. Elements(ch') \cap Gone' = {}
    BY <1>2, <1>3, <2>1 DEF OnePlace
  <2>3. taken' \cap evicted' = {} /\ evicted' \cap refused' = {}
    BY <1>1, <1>2, <1>3 DEF OnePlace, Gone
  <2> QED
    BY <1>1, <1>2, <1>3, <2>1, <2>2, <2>3 DEF OnePlace
<1>6. Balance'
  <2>1. accepted \in Nat /\ Cardinality(taken) \in Nat /\ Cardinality(evicted) \in Nat
    BY <1>2, Sizes DEF QueueTypes
  <2>2. Cardinality(taken') = Cardinality(taken) + 1
    BY <1>1, <1>2, <1>3, Sizes, FS_AddElement DEF Gone
  <2>3. At(Counted)' = At(Counted) /\ At(Discarded)' = At(Discarded)
    BY <1>1 DEF At
  <2>4. accepted + At(Counted) = (Len(ch) - 1) + (Cardinality(taken) + 1) + Cardinality(evicted)
    BY <1>2, <1>3, <2>1 DEF Balance
  <2> QED
    BY <1>1, <1>2, <1>3, <2>2, <2>3, <2>4 DEF Balance
<1> QED
  BY <1>4, <1>5, <1>6 DEF QueueInv

LEMMA CountStep == ASSUME QueueInv, NEW p \in Producer, Count(p) PROVE QueueInv'
<1> DEFINE l == IF place[p] = "pushed" THEN "send" ELSE "idle"
<1>1. /\ place[p] \in {"entered", "pushed", "turned"} /\ MoveTo(p, l)
      /\ policy' = policy /\ ch' = ch /\ item' = item /\ offers' = offers
      /\ taken' = taken /\ evicted' = evicted /\ refused' = refused
      /\ \/ place[p] = "entered" /\ accepted' = accepted + 1 /\ dropped' = dropped
         \/ place[p] # "entered" /\ accepted' = accepted /\ dropped' = dropped + 1
  BY DEF Count, history
<1>2. QueueTypes /\ OnePlace /\ Balance
  BY DEF QueueInv
<1>3. l \in Place /\ l \notin Counted \cup Discarded
  BY DEF Place, Counted, Discarded
<1> HIDE DEF l
<1>4. /\ place' \in [Producer -> Place] /\ IsFiniteSet({q \in Producer : place'[q] # "idle"})
      /\ place'[p] = l /\ \A q \in Producer : q # p => place'[q] = place[q]
      /\ At(Counted) \in Nat /\ At(Discarded) \in Nat
  BY <1>1, <1>2, <1>3, Move
<1>5. accepted \in Nat /\ dropped \in Nat
  BY <1>2 DEF QueueTypes
<1>6. /\ accepted' + At(Counted)' = accepted + At(Counted)
      /\ dropped' + At(Discarded)' = dropped + At(Discarded)
      /\ accepted' \in Nat /\ dropped' \in Nat
  <2>1. CASE place[p] = "entered"
    <3>1. place[p] \in Counted \ Discarded
      BY <2>1 DEF Counted, Discarded
    <3>2. /\ At(Counted)' = At(Counted) - 1
          /\ At(Discarded)' = At(Discarded)
      BY <1>1, <1>2, <1>3, <3>1, Move
    <3> QED
      BY <1>1, <1>4, <1>5, <2>1, <3>2
  <2>2. CASE place[p] # "entered"
    <3>1. place[p] \in Discarded \ Counted
      BY <1>1, <2>2 DEF Counted, Discarded
    <3>2. /\ At(Counted)' = At(Counted)
          /\ At(Discarded)' = At(Discarded) - 1
      BY <1>1, <1>2, <1>3, <3>1, Move
    <3> QED
      BY <1>1, <1>4, <1>5, <2>2, <3>2
  <2> QED
    BY <2>1, <2>2
<1>7. QueueTypes'
  BY <1>1, <1>2, <1>4, <1>6 DEF QueueTypes
<1>8. OnePlace'
  <2>1. \A q \in Producer : place'[q] \in Carrying => place[q] \in Carrying
    BY <1>1, <1>4 DEF Carrying, l
  <2> QED
    BY <1>1, <1>2, <2>1 DEF OnePlace, Gone
<1>9. Balance'
  BY <1>1, <1>2, <1>6 DEF Balance
<1> QED
  BY <1>7, <1>8, <1>9 DEF QueueInv

LEMMA QueueStep == QueueInv /\ [QueueNext]_queueVars => QueueInv'
<1> SUFFICES ASSUME QueueInv, [QueueNext]_queueVars PROVE QueueInv'
  OBVIOUS
<1>1. CASE Take
  BY <1>1, TakeStep
<1>2. ASSUME NEW p \in Producer, Offer(p) \/ Step(p) PROVE QueueInv'
  <2>1. CASE Offer(p)
    BY <2>1, OfferStep
  <2>2. CASE Send(p)
    BY <2>2, SendStep
  <2>3. CASE TurnDown(p)
    BY <2>3, TurnDownStep
  <2>4. CASE SendFails(p)
    BY <2>4, StillCarried DEF SendFails, history
  <2>5. CASE Evict(p)
    BY <2>5, EvictStep
  <2>6. CASE Count(p)
    BY <2>6, CountStep
  <2> QED
    BY <1>2, <2>1, <2>2, <2>3, <2>4, <2>5, <2>6 DEF Step
<1>3. CASE UNCHANGED queueVars
  <2>1. /\ policy' = policy /\ ch' = ch /\ place' = place /\ item' = item /\ offers' = offers
        /\ accepted' = accepted /\ dropped' = dropped /\ taken' = taken
        /\ evicted' = evicted /\ refused' = refused
    BY <1>3 DEF queueVars
  <2> QED
    BY <2>1 DEF QueueInv, QueueTypes, OnePlace, Gone, Balance, At
<1> QED
  BY <1>1, <1>2, <1>3 DEF QueueNext

LEMMA QueueInvariance == QueueSpec => []QueueInv
BY QueueInitially, QueueStep, PTL DEF QueueSpec

\* The counters miss no element and count none twice, whatever the policy, the
\* capacity, the number of producers and of calls, at every moment of every run.
THEOREM CountersAddUp == QueueSpec => []CountersBalance
<1>1. QueueInv => CountersBalance
  BY DEF QueueInv, Balance, Counted, Discarded, CountersBalance
<1> QED
  BY <1>1, QueueInvariance, PTL

\* Neither the channel nor the number of calls outgrows its bound.
Bounded == Len(ch) <= Capacity /\ offers <= MaxOffers

LEMMA DisjointUnion ==
    ASSUME NEW S, NEW T, IsFiniteSet(S), IsFiniteSet(T), S \cap T = {}
    PROVE  /\ IsFiniteSet(S \cup T)
           /\ Cardinality(S \cup T) = Cardinality(S) + Cardinality(T)
<1>1. /\ IsFiniteSet(S \cup T)
      /\ Cardinality(S \cup T) = Cardinality(S) + Cardinality(T) - Cardinality(S \cap T)
  BY FS_Union
<1>2. Cardinality(S) \in Nat /\ Cardinality(T) \in Nat /\ Cardinality(S \cap T) = 0
  BY FS_CardinalityType, FS_EmptySet
<1> QED
  BY <1>1, <1>2

\* Each counter is bounded by the number of calls of Offer: no element is
\* counted twice by one of them.
LEMMA CountersBounded ==
    ASSUME QueueInv PROVE accepted <= offers /\ dropped <= offers
<1>1. QueueTypes /\ OnePlace /\ Balance
  BY DEF QueueInv
<1>2. /\ IsFiniteSet(Elements(ch)) /\ IsFiniteSet(taken) /\ IsFiniteSet(evicted)
      /\ IsFiniteSet(refused) /\ Cardinality(taken) \in Nat /\ Cardinality(evicted) \in Nat
      /\ Cardinality(refused) \in Nat /\ Len(ch) \in Nat
  BY <1>1, Sizes
<1>3. IsFiniteSet(1..offers) /\ Cardinality(1..offers) = offers
  BY <1>1, FS_Interval DEF QueueTypes
<1>4. At(Counted) \in Nat /\ At(Discarded) \in Nat
  <2>1. /\ {p \in Producer : place[p] \in Counted} \in SUBSET {p \in Producer : place[p] # "idle"}
        /\ {p \in Producer : place[p] \in Discarded} \in SUBSET {p \in Producer : place[p] # "idle"}
    BY DEF Counted, Discarded
  <2>2. /\ IsFiniteSet({p \in Producer : place[p] \in Counted})
        /\ IsFiniteSet({p \in Producer : place[p] \in Discarded})
    BY <1>1, <2>1, FS_Subset DEF QueueTypes
  <2> QED
    BY <2>2, FS_CardinalityType DEF At
<1>5. Cardinality(taken \cup evicted) = Cardinality(taken) + Cardinality(evicted)
      /\ IsFiniteSet(taken \cup evicted)
  <2>1. taken \cap evicted = {}
    BY <1>1 DEF OnePlace
  <2> QED
    BY <1>2, <2>1, DisjointUnion
<1>6. Cardinality(Elements(ch) \cup (taken \cup evicted))
        = Len(ch) + Cardinality(taken) + Cardinality(evicted)
  <2>1. Elements(ch) \cap (taken \cup evicted) = {} /\ Cardinality(Elements(ch)) = Len(ch)
    BY <1>1 DEF OnePlace, Gone
  <2>2. Cardinality(Elements(ch) \cup (taken \cup evicted))
           = Cardinality(Elements(ch)) + Cardinality(taken \cup evicted)
    BY <1>2, <1>5, <2>1, DisjointUnion
  <2> QED
    BY <1>2, <1>5, <2>1, <2>2
<1>7. Cardinality(evicted \cup refused) = Cardinality(evicted) + Cardinality(refused)
  <2>1. evicted \cap refused = {}
    BY <1>1 DEF OnePlace
  <2> QED
    BY <1>2, <2>1, DisjointUnion
<1>8. /\ Cardinality(Elements(ch) \cup (taken \cup evicted)) <= offers
      /\ Cardinality(evicted \cup refused) <= offers
  <2>1. /\ Elements(ch) \cup (taken \cup evicted) \in SUBSET (1..offers)
        /\ evicted \cup refused \in SUBSET (1..offers)
    BY <1>1 DEF QueueTypes
  <2>2. \A S \in SUBSET (1..offers) : Cardinality(S) <= offers
    BY <1>3, FS_Subset
  <2> QED
    BY <2>1, <2>2
<1>9. accepted \in Nat /\ dropped \in Nat /\ offers \in Nat
  BY <1>1 DEF QueueTypes
<1> QED
  BY <1>1, <1>2, <1>4, <1>6, <1>7, <1>8, <1>9 DEF Balance

\* The state has its types: the channel never holds more than its capacity.
THEOREM QueueTyping ==
    QueueSpec => []QueueTypeOK
<1> USE BoundedQueueAssumption DEF BoundedQueueAssumption
<1>1. QueueInit => Bounded
  BY DEF QueueInit, Bounded
<1>2. QueueInv /\ Bounded /\ [QueueNext]_queueVars => Bounded'
  <2> SUFFICES ASSUME QueueInv, Bounded, [QueueNext]_queueVars PROVE Bounded'
    OBVIOUS
  <2>1. QueueTypes /\ OnePlace /\ ch \in Seq(Nat) /\ Len(ch) \in Nat /\ offers \in Nat
    BY DEF QueueInv, QueueTypes
  <2>2. CASE ch # << >> /\ ch' = Tail(ch) /\ offers' = offers
    BY <2>1, <2>2, OldestLeaves DEF Bounded
  <2>3. ASSUME NEW p \in Producer, Send(p) PROVE Bounded'
    <3>1. Len(ch) # Capacity /\ ch' = Append(ch, item[p]) /\ offers' = offers
      BY <2>3 DEF Send, Full
    <3>2. Len(ch') = Len(ch) + 1
      BY <2>1, <3>1
    <3> QED
      BY <2>1, <3>1, <3>2 DEF Bounded
  <2>4. ASSUME NEW p \in Producer, Offer(p) PROVE Bounded'
    BY <2>1, <2>4 DEF Offer, Bounded
  <2>5. CASE ch' = ch /\ offers' = offers
    BY <2>5 DEF Bounded
  <2> QED
    BY <2>2, <2>3, <2>4, <2>5
       DEF QueueNext, Step, Take, TurnDown, SendFails, Evict,
           Count, queueVars, history
<1>3. QueueInv /\ Bounded => QueueTypeOK
  <2> SUFFICES ASSUME QueueInv, Bounded PROVE QueueTypeOK
    OBVIOUS
  <2>1. QueueTypes /\ offers \in Nat /\ accepted <= offers /\ dropped <= offers
    BY CountersBounded DEF QueueInv, QueueTypes
  <2>2. 1..offers \subseteq 1..MaxOffers /\ 0..offers \subseteq 0..MaxOffers
    BY <2>1 DEF Bounded
  <2>3. ch \in Seq(1..MaxOffers)
    <3>1. ch \in Seq(Nat) /\ \A i \in DOMAIN ch : ch[i] \in 1..MaxOffers
      BY <2>1, <2>2 DEF QueueTypes, Elements
    <3> QED
      BY <3>1
  <2>4. item \in [Producer -> 0..MaxOffers]
    BY <2>1, <2>2 DEF QueueTypes
  <2>5. accepted \in 0..MaxOffers /\ dropped \in 0..MaxOffers /\ offers \in 0..MaxOffers
    BY <2>1 DEF QueueTypes, Bounded
  <2> QED
    BY <2>1, <2>2, <2>3, <2>4, <2>5 DEF QueueTypeOK, QueueTypes, Bounded
<1> QED
  BY <1>1, <1>2, <1>3, QueueInvariance, PTL DEF QueueSpec
=============================================================================
