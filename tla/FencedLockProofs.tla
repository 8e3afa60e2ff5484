-------------------------- MODULE FencedLockProofs --------------------------
(***************************************************************************)
(* Theorems about FencedLock for any number of clients, any initial value  *)
(* of the fence key and any number of acquisitions.                        *)
(*                                                                         *)
(* The argument: as long as nobody but the script touches the fence key,   *)
(* the token of an acquisition is its id plus an offset that never changes *)
(* once the lock has been granted.  Leases and the resource see only       *)
(* tokens; the offset turns every comparison of tokens into one of ids.    *)
(***************************************************************************)
EXTENDS FencedLock, TLAPS

\* What the script has granted lies behind granted, and a counter that has
\* served once serves for ever.
Granted ==
    /\ granted > 0 => counter # Garbage /\ counter > 0
    /\ lock <= granted
    /\ value <= granted
    /\ \A c \in Client : lease[c].id <= granted

\* A token is its id plus the offset counter - granted.
ByOffset ==
    /\ \A c \in Client :
         lease[c].id > 0 => lease[c].token = lease[c].id + (counter - granted)
    /\ value > 0 => maxToken = value + (counter - granted)
    /\ value = 0 => maxToken = 0

\* A client without a lease holds the zero Lease.
WholeLeases == \A c \in Client : lease[c] # NoLease => lease[c].id > 0

IInv == TypeOK /\ Granted /\ ByOffset /\ WholeLeases

LEMMA InitIInv == Init => IInv
<1> USE FencedLockAssumption
<1>1. Init => TypeOK
  BY DEF Init, TypeOK, NoLease, Id
<1>2. Init => Granted /\ ByOffset /\ WholeLeases
  BY DEF Init, Granted, ByOffset, WholeLeases, NoLease
<1> QED BY <1>1, <1>2 DEF IInv

\* The lease part of a step in which client c gives up or gets nothing.
LEMMA NoLeaseStep ==
    ASSUME IInv, NEW c \in Client, NEW a \in {"none", "held", "busy", "error"},
           Answer(c, a, NoLease), lock' \in {lock, 0},
           UNCHANGED <<ttl, counter, granted, maxToken, value>>,
           releases' \in SUBSET Id
    PROVE  IInv'
<1>1. lease' = [lease EXCEPT ![c] = NoLease]
  BY DEF Answer
<1>2. NoLease \in [id : Id \cup {0}, token : Nat]
  BY DEF NoLease
<1>3. TypeOK'
  BY <1>1, <1>2 DEF IInv, TypeOK, Answer
<1>4. \A d \in Client : lease'[d] = lease[d] \/ lease'[d] = NoLease
  BY <1>1 DEF IInv, TypeOK
<1>5. NoLease.id = 0 /\ granted \in Nat
  BY FencedLockAssumption DEF NoLease, IInv, TypeOK
<1>6. Granted'
  BY <1>4, <1>5 DEF IInv, Granted
<1>7. ByOffset'
  BY <1>4, <1>5 DEF IInv, ByOffset
<1>8. WholeLeases'
  BY <1>4 DEF IInv, WholeLeases
<1> QED BY <1>3, <1>6, <1>7, <1>8 DEF IInv

\* The script grants the lock, and the client gets the lease or, when the
\* answer is lost, nothing.
LEMMA GrantStep ==
    ASSUME IInv, NEW c \in Client, NEW a \in {"none", "held", "busy", "error"},
           NEW l \in {NoLease, [id |-> granted + 1, token |-> Incr(counter)]},
           granted < MaxGrants, ScriptGrants, Answer(c, a, l),
           UNCHANGED <<releases, maxToken, value>>
    PROVE  IInv'
<1>1. /\ counter \in Int /\ counter # Garbage /\ counter + 1 > 0
      /\ Incr(counter) = counter + 1
  BY DEF ScriptGrants, Usable, Incr, IInv, TypeOK
<1>2. /\ granted \in Nat /\ granted + 1 \in Id /\ MaxGrants \in Nat
      /\ counter' = counter + 1 /\ granted' = granted + 1 /\ lock' = granted'
      /\ counter' # Garbage
  BY <1>1, FencedLockAssumption DEF ScriptGrants, IInv, TypeOK, Id
<1>3. l \in [id : Id \cup {0}, token : Nat]
  BY <1>1, <1>2 DEF NoLease
<1>4. lease' = [lease EXCEPT ![c] = l]
  BY DEF Answer
<1>5. TypeOK'
  BY <1>1, <1>2, <1>3, <1>4, FencedLockAssumption
     DEF IInv, TypeOK, Answer, ScriptGrants
<1>6. \A d \in Client : lease'[d] = lease[d] \/ lease'[d] = l
  BY <1>4 DEF IInv, TypeOK
<1>7. /\ l.id = 0 \/ (l.id = granted' /\ l.token = counter')
      /\ l # NoLease => l.id > 0
  BY <1>1, <1>2 DEF NoLease
<1>8. /\ value \in Nat /\ lock \in Nat /\ maxToken \in Nat
      /\ \A d \in Client : lease[d].id \in Nat /\ lease[d].token \in Nat
  BY DEF IInv, TypeOK, Id
<1>9. Granted'
  BY <1>1, <1>2, <1>6, <1>7, <1>8 DEF IInv, Granted
<1>10. ByOffset'
  BY <1>1, <1>2, <1>6, <1>7, <1>8 DEF IInv, ByOffset
<1>11. WholeLeases'
  BY <1>6, <1>7 DEF IInv, WholeLeases
<1> QED BY <1>5, <1>9, <1>10, <1>11 DEF IInv

\* A refusal leaves the counter as it was: DECR takes the INCR back.
LEMMA RefusalRestores ==
    ASSUME TypeOK, ScriptRefuses PROVE counter' = counter
<1>1. CASE counter = Garbage
  BY <1>1 DEF ScriptRefuses, Incr, Decr
<1>2. CASE counter # Garbage
  <2>1. counter \in Int /\ counter + 1 \in Int /\ counter + 1 # Garbage
    BY <1>2, FencedLockAssumption DEF TypeOK
  <2> QED BY <1>2, <2>1 DEF ScriptRefuses, Incr, Decr
<1> QED BY <1>1, <1>2

LEMMA NextIInv == ASSUME IInv, [Next]_vars PROVE IInv'
<1> USE FencedLockAssumption
<1>1. CASE UNCHANGED vars
  BY <1>1 DEF vars, IInv, TypeOK, Granted, ByOffset, WholeLeases
<1>2. ASSUME NEW c \in Client, Acquire(c) PROVE IInv'
  <2>1. CASE ScriptGrants /\ Answer(c, "held", [id |-> granted + 1, token |-> Incr(counter)])
    BY <1>2, <2>1, GrantStep DEF Acquire
  <2>2. CASE ScriptRefuses /\ Answer(c, "error", NoLease)
    BY <1>2, <2>2, RefusalRestores, NoLeaseStep
       DEF Acquire, ScriptRefuses, IInv, TypeOK
  <2>3. CASE ScriptFindsBusy /\ Answer(c, "busy", NoLease)
    BY <1>2, <2>3, NoLeaseStep DEF Acquire, ScriptFindsBusy, IInv, TypeOK
  <2> QED BY <1>2, <2>1, <2>2, <2>3 DEF Acquire
<1>3. ASSUME NEW c \in Client, AcquireUnanswered(c) PROVE IInv'
  BY <1>3, GrantStep DEF AcquireUnanswered
<1>4. ASSUME NEW c \in Client, Release(c) PROVE IInv'
  <2>1. lease[c].id \in Id
    BY <1>4 DEF Release, IInv, WholeLeases, TypeOK, Id
  <2> QED BY <1>4, <2>1, NoLeaseStep DEF Release, IInv, TypeOK
<1>5. ASSUME NEW c \in Client, Crash(c) PROVE IInv'
  BY <1>5, NoLeaseStep DEF Crash, IInv, TypeOK
<1>6. ASSUME NEW c \in Client, Write(c) PROVE IInv'
  <2>1. lease[c].id \in Id /\ lease[c].id > 0 /\ lease[c].token \in Nat
    BY <1>6 DEF Write, IInv, WholeLeases, TypeOK, Id
  <2>2. TypeOK'
    BY <1>6, <2>1 DEF Write, IInv, TypeOK
  <2>3. Granted' /\ ByOffset' /\ WholeLeases'
    BY <1>6, <2>1 DEF Write, IInv, Granted, ByOffset, WholeLeases
  <2> QED BY <2>2, <2>3 DEF IInv
<1>7. ASSUME NEW i \in Id, Unlock(i) PROVE IInv'
  <2>1. lock' \in {lock, 0} /\ releases' \in SUBSET Id
    BY <1>7 DEF Unlock, IInv, TypeOK
  <2> QED BY <1>7, <2>1 DEF Unlock, IInv, TypeOK, Granted, ByOffset, WholeLeases
<1>8. CASE Tick
  BY <1>8 DEF Tick, IInv, TypeOK, Granted, ByOffset, WholeLeases
<1>9. CASE Expire
  BY <1>9 DEF Expire, IInv, TypeOK, Granted, ByOffset, WholeLeases
<1> QED BY <1>1, <1>2, <1>3, <1>4, <1>5, <1>6, <1>7, <1>8, <1>9 DEF Next

LEMMA Invariance == Spec => []IInv
<1>1. IInv /\ [Next]_vars => IInv'
  BY NextIInv
<1> QED BY InitIInv, <1>1, PTL DEF Spec

\* Tokens handed to clients are natural numbers whatever the fence key held
\* at first, and every variable stays in its type.
THEOREM Typing == Spec => []TypeOK
<1>1. IInv => TypeOK
  BY DEF IInv
<1> QED BY Invariance, <1>1, PTL

\* The script hands out tokens in the order in which it grants the lock.
THEOREM TokensAreOrdered == Spec => []TokensFollowGrants
<1>1. IInv => TokensFollowGrants
  <2> SUFFICES ASSUME IInv, NEW c \in Client, NEW d \in Client,
                      0 < lease[c].id, lease[c].id < lease[d].id
               PROVE  lease[c].token < lease[d].token
    BY DEF TokensFollowGrants
  <2>1. /\ lease[c].id \in Nat /\ lease[d].id \in Nat /\ granted \in Nat
        /\ counter \in Int
    BY FencedLockAssumption DEF IInv, TypeOK, Id, Granted
  <2> QED BY <2>1 DEF IInv, ByOffset
<1> QED BY Invariance, <1>1, PTL

\* Fencing: with tokens from the script and the check in Write, the data of a
\* later owner is never overwritten by an earlier one.
THEOREM Fencing == Spec => NoStaleOverwrite
<1>1. IInv /\ [Next]_vars => (value' >= value \/ UNCHANGED vars)
  <2> SUFFICES ASSUME IInv, Next PROVE value' >= value
    OBVIOUS
  <2>1. value \in Nat /\ granted \in Nat /\ maxToken \in Nat
    BY FencedLockAssumption DEF IInv, TypeOK, Id
  <2>2. ASSUME NEW c \in Client, Write(c) PROVE value' >= value
    <3>1. /\ lease[c].id \in Nat /\ lease[c].id > 0 /\ lease[c].token \in Nat
          /\ granted > 0
      BY <2>1, <2>2 DEF Write, IInv, WholeLeases, TypeOK, Id, Granted
    <3>2. counter \in Int
      BY <3>1, FencedLockAssumption DEF IInv, TypeOK, Granted
    <3> QED BY <2>1, <2>2, <3>1, <3>2 DEF Write, IInv, ByOffset
  <2>3. \/ \E c \in Client : Write(c)
        \/ value' = value
    BY DEF Next, Acquire, AcquireUnanswered, Release, Crash, Unlock, Tick, Expire
  <2> QED BY <2>1, <2>2, <2>3
<1>2. IInv /\ [Next]_vars => [value' >= value]_vars
  BY <1>1
<1> QED BY Invariance, <1>2, PTL DEF Spec, NoStaleOverwrite

\* A key with time left goes away only by a release of the very acquisition
\* that set it: luaUnlock compares the owner.
THEOREM LateReleaseIsHarmless == Spec => HolderKeepsLock
<1>1. Next => (lock # 0 /\ lock' # lock => ttl = 0 \/ lock \in releases)
  BY DEF Next, Acquire, AcquireUnanswered, ScriptGrants, ScriptRefuses,
         ScriptFindsBusy, Release, Crash, Write, Unlock, Tick, Expire
<1> QED BY <1>1, PTL DEF Spec, HolderKeepsLock

\* A counter that is damaged from the start never grants the lock.
THEOREM DamageIsNotHealed == Spec => DamagedCounterStays
<1> DEFINE Damaged == ~Usable /\ lock = 0
<1>1. Init /\ ~Usable => Damaged
  BY DEF Init
<1>2. TypeOK /\ Damaged /\ [Next]_vars => Damaged'
  <2> SUFFICES ASSUME TypeOK, Damaged, [Next]_vars PROVE Damaged'
    OBVIOUS
  <2>1. ASSUME NEW c \in Client, Acquire(c) PROVE Damaged'
    <3>1. CASE ScriptRefuses
      BY <3>1, RefusalRestores DEF ScriptRefuses, Usable
    <3>2. CASE ScriptFindsBusy
      BY <3>2 DEF ScriptFindsBusy
    <3> QED BY <2>1, <3>1, <3>2 DEF Acquire, ScriptGrants
  <2>2. ASSUME NEW c \in Client, AcquireUnanswered(c) PROVE Damaged'
    BY <2>2 DEF AcquireUnanswered, ScriptGrants
  <2>3. ASSUME NEW c \in Client, Release(c) \/ Crash(c) \/ Write(c) PROVE Damaged'
    BY <2>3 DEF Release, Crash, Write, Usable
  <2>4. ASSUME NEW i \in Id, Unlock(i) PROVE Damaged'
    BY <2>4 DEF Unlock, Usable
  <2>5. CASE Tick \/ Expire \/ UNCHANGED vars
    BY <2>5 DEF Tick, Expire, vars, Usable
  <2> QED BY <2>1, <2>2, <2>3, <2>4, <2>5 DEF Next
<1> HIDE DEF Damaged
<1>3. Spec => (~Usable => []Damaged)
  BY <1>1, <1>2, Typing, PTL DEF Spec
<1> QED BY <1>3, PTL DEF DamagedCounterStays, Damaged
=============================================================================
