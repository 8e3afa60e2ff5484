----------------------------- MODULE FencedLock -----------------------------
(***************************************************************************)
(* The Redis lock of architecture/resilience/locking: luaAcquireWithToken, *)
(* luaUnlock and the key's TTL (redislock.go), and the resource that its   *)
(* tokens protect (fence.go).  A client sleeps by taking no step: it may   *)
(* write or release long after its lock has expired.                       *)
(*                                                                         *)
(* The random id of an acquisition matters only by being unique; ids are   *)
(* named 1, 2, ... in the order in which the lock is granted.              *)
(***************************************************************************)
EXTENDS Integers

CONSTANTS Client,
          Counters,  \* what the fence key may hold when the lock is first used
          Garbage,   \* a value of the fence key that INCR cannot parse
          TTL,       \* the lock's time to live, in ticks
          MaxGrants  \* bound: how many times the lock is granted

ASSUME FencedLockAssumption ==
    /\ Counters \subseteq Int \cup {Garbage}
    /\ Garbage \notin Int
    /\ TTL \in Nat
    /\ MaxGrants \in Nat

VARIABLES lock,      \* the id under {resource}:lock, 0 when there is no key
          ttl,       \* ticks until the key expires, -1 if it has no expiry
          counter,   \* the value under {resource}:fence
          granted,   \* how many acquisitions there have been
          lease,     \* the Lease a client holds, valid or not
          answer,    \* what the client's last acquisition returned
          releases,  \* ids whose unlock is on its way to Redis
          maxToken,  \* FencedResource.maxToken
          value      \* FencedResource.value: the acquisition that wrote it

vars == <<lock, ttl, counter, granted, lease, answer, releases, maxToken, value>>

Id == 1..MaxGrants
NoLease == [id |-> 0, token |-> 0]

TypeOK ==
    /\ lock \in Id \cup {0}
    /\ ttl \in -1..TTL
    /\ counter \in Int \cup {Garbage}
    /\ granted \in 0..MaxGrants
    /\ lease \in [Client -> [id : Id \cup {0}, token : Nat]]
    /\ answer \in [Client -> {"none", "held", "busy", "error"}]
    /\ releases \in SUBSET Id
    /\ maxToken \in Nat
    /\ value \in Id \cup {0}

Init ==
    /\ lock = 0 /\ ttl = 0
    /\ counter \in Counters
    /\ granted = 0
    /\ lease = [c \in Client |-> NoLease]
    /\ answer = [c \in Client |-> "none"]
    /\ releases = {}
    /\ maxToken = 0 /\ value = 0
-----------------------------------------------------------------------------
(* luaAcquireWithToken: the ways through the script *)

\* Redis' INCR and DECR; on a value they cannot handle (not a number, or at
\* the end of the 64-bit range) they fail and change nothing.
Incr(n) == IF n = Garbage THEN Garbage ELSE n + 1
Decr(n) == IF n = Garbage THEN Garbage ELSE n - 1

\* Variant for a mutation check: only an error of INCR is looked at.
UsableUnlessError == counter # Garbage

\* INCR would succeed and yield a positive token.
Usable == counter # Garbage /\ Incr(counter) > 0

\* Variants for mutation checks: a key without PX, and a token that is
\* computed but not written back.
ScriptGrantsForever ==
    /\ lock = 0 /\ Usable
    /\ lock' = granted + 1
    /\ ttl' = -1
    /\ counter' = Incr(counter)
    /\ granted' = granted + 1
ScriptGrantsUncounted ==
    /\ lock = 0 /\ Usable
    /\ lock' = granted + 1
    /\ ttl' = TTL
    /\ granted' = granted + 1
    /\ UNCHANGED counter

\* SET NX PX succeeds and INCR yields a positive token.
ScriptGrants ==
    /\ lock = 0 /\ Usable
    /\ lock' = granted + 1
    /\ ttl' = TTL
    /\ counter' = Incr(counter)
    /\ granted' = granted + 1

\* SET succeeds, INCR fails or yields a token that is not positive: the
\* script takes its own INCR back, deletes the key it has just set and
\* replies with an error.
ScriptRefuses ==
    /\ lock = 0 /\ ~Usable
    /\ counter' = Decr(Incr(counter))
    /\ UNCHANGED <<lock, ttl, granted>>

ScriptFindsBusy ==
    /\ lock # 0
    /\ UNCHANGED <<lock, ttl, counter, granted>>

Answer(c, a, l) ==
    /\ answer' = [answer EXCEPT ![c] = a]
    /\ lease' = [lease EXCEPT ![c] = l]

\* Acquire: a fresh id, the script, and its answer.
Acquire(c) ==
    /\ lease[c] = NoLease /\ granted < MaxGrants
    /\ \/ ScriptGrants /\ Answer(c, "held", [id |-> granted + 1, token |-> Incr(counter)])
       \/ ScriptRefuses /\ Answer(c, "error", NoLease)
       \/ ScriptFindsBusy /\ Answer(c, "busy", NoLease)
    /\ UNCHANGED <<releases, maxToken, value>>

\* The script runs but its answer is lost: the call returns the error, or the
\* library runs the script again and finds the key it has just set.
AcquireUnanswered(c) ==
    /\ lease[c] = NoLease /\ granted < MaxGrants
    /\ ScriptGrants
    /\ \E a \in {"error", "busy"} : Answer(c, a, NoLease)
    /\ UNCHANGED <<releases, maxToken, value>>
-----------------------------------------------------------------------------

Tick ==
    /\ lock # 0 /\ ttl > 0
    /\ ttl' = ttl - 1
    /\ UNCHANGED <<lock, counter, granted, lease, answer, releases, maxToken, value>>

\* The key reaches its TTL; the holder is not told.
Expire ==
    /\ lock # 0 /\ ttl = 0
    /\ lock' = 0
    /\ UNCHANGED <<ttl, counter, granted, lease, answer, releases, maxToken, value>>

\* Release: the client is done with its lease and sends the unlock.
Release(c) ==
    /\ lease[c] # NoLease
    /\ releases' = releases \cup {lease[c].id}
    /\ Answer(c, "none", NoLease)
    /\ UNCHANGED <<lock, ttl, counter, granted, maxToken, value>>

\* Variant for a mutation check: DEL without comparing the owner.
UnlockAny(i) ==
    /\ i \in releases
    /\ lock' = 0
    /\ releases' \in {releases, releases \ {i}}
    /\ UNCHANGED <<ttl, counter, granted, lease, answer, maxToken, value>>

\* luaUnlock reaches Redis, late or more than once.
Unlock(i) ==
    /\ i \in releases
    /\ lock' = IF lock = i THEN 0 ELSE lock
    /\ releases' \in {releases, releases \ {i}}
    /\ UNCHANGED <<ttl, counter, granted, lease, answer, maxToken, value>>

\* The client dies: nobody will release its lock.
Crash(c) ==
    /\ lease[c] # NoLease
    /\ Answer(c, "none", NoLease)
    /\ UNCHANGED <<lock, ttl, counter, granted, releases, maxToken, value>>

\* Variant for a mutation check: without the comparison.
WriteUnchecked(c) ==
    /\ lease[c] # NoLease
    /\ maxToken' = lease[c].token
    /\ value' = lease[c].id
    /\ UNCHANGED <<lock, ttl, counter, granted, lease, answer, releases>>

\* FencedResource.Write of a client that believes it holds the lock; a token
\* below maxToken is answered with ErrStaleToken.
Write(c) ==
    /\ lease[c] # NoLease
    /\ lease[c].token >= maxToken
    /\ maxToken' = lease[c].token
    /\ value' = lease[c].id
    /\ UNCHANGED <<lock, ttl, counter, granted, lease, answer, releases>>

Next ==
    \/ \E c \in Client :
         Acquire(c) \/ AcquireUnanswered(c) \/ Release(c) \/ Crash(c) \/ Write(c)
    \/ \E i \in Id : Unlock(i)
    \/ Tick
    \/ Expire

Spec == Init /\ [][Next]_vars

\* Only Redis' own clock is owed: clients may sleep or die for ever.
FairSpec == Spec /\ WF_vars(Tick) /\ WF_vars(Expire)
-----------------------------------------------------------------------------
(* Properties *)

\* Leases in the hands of clients carry tokens in the order in which the
\* lock was granted, though their holders may be long asleep.
TokensFollowGrants ==
    \A c, d \in Client :
        0 < lease[c].id /\ lease[c].id < lease[d].id
            => lease[c].token < lease[d].token

\* The data of a later owner is never overwritten by an earlier one that
\* wakes up: value goes forward in the order of grants.
NoStaleOverwrite == [][value' >= value]_vars

\* A key that has time left disappears only by the release of the
\* acquisition that set it, never by a late release of an earlier one.
HolderKeepsLock ==
    [][lock # 0 /\ lock' # lock => ttl = 0 \/ lock \in releases]_vars

\* A damaged counter is never "ticked" back into use by the attempts it
\* refuses, and none of them leaves a lock behind for others to wait on.
DamagedCounterStays == ~Usable => [](~Usable /\ lock = 0)

\* No lock outlives its holder for ever.
LockIsFreed == \A i \in Id : lock = i ~> lock # i
=============================================================================
