---------------------------- MODULE EtcdElection ----------------------------
(***************************************************************************)
(* The etcd leader election of architecture/resilience/locking/etcdlock.go *)
(* with the resource of fence.go.  A candidate's key lives as long as its  *)
(* session; the leader is the live key with the smallest create revision.  *)
(* A deposed leader is not told, and sleeps by taking no step.             *)
(***************************************************************************)
EXTENDS Naturals, FiniteSetsExt

CONSTANTS Candidate,
          MaxRevision  \* bound: the revision etcd may reach

VARIABLES revision,  \* etcd's revision
          key,       \* create revision of the candidate's key, 0 when gone
          term,      \* create revision of the key it campaigned with, 0 when idle
          elected,   \* Campaign has returned nil for that key
          token,     \* what FencingToken returned to it, 0 when not asked yet
          maxToken,  \* FencedResource.maxToken
          value      \* FencedResource.value: the term of the candidate that wrote

vars == <<revision, key, term, elected, token, maxToken, value>>

Init ==
    /\ revision = 1
    /\ key = [c \in Candidate |-> 0]
    /\ term = [c \in Candidate |-> 0]
    /\ elected = [c \in Candidate |-> FALSE]
    /\ token = [c \in Candidate |-> 0]
    /\ maxToken = 0 /\ value = 0

Live == {key[c] : c \in Candidate} \ {0}

\* NewEtcdLeader and the first half of Campaign: a session, and a key under it.
StartCampaign(c) ==
    /\ term[c] = 0 /\ revision < MaxRevision
    /\ revision' = revision + 1
    /\ key' = [key EXCEPT ![c] = revision + 1]
    /\ term' = [term EXCEPT ![c] = revision + 1]
    /\ UNCHANGED <<elected, token, maxToken, value>>

\* Campaign returns once no older key is left.
Campaign(c) ==
    /\ term[c] # 0 /\ ~elected[c]
    /\ \A r \in Live : r >= term[c]
    /\ elected' = [elected EXCEPT ![c] = TRUE]
    /\ UNCHANGED <<revision, key, term, token, maxToken, value>>

\* The create revision of whoever leads when etcd answers.
FencingToken(c) ==
    /\ elected[c] /\ Live # {}
    /\ token' = [token EXCEPT ![c] = Min(Live)]
    /\ UNCHANGED <<revision, key, term, elected, maxToken, value>>

\* The lease runs out: the key disappears, and with it the leadership.
SessionExpires(c) ==
    /\ key[c] # 0 /\ revision < MaxRevision
    /\ revision' = revision + 1
    /\ key' = [key EXCEPT ![c] = 0]
    /\ UNCHANGED <<term, elected, token, maxToken, value>>

\* Resign, or Close: the key is deleted and the candidate knows it.
Resign(c) ==
    /\ term[c] # 0
    /\ key' = [key EXCEPT ![c] = 0]
    /\ revision' = IF key[c] = 0 THEN revision ELSE revision + 1
    /\ revision' <= MaxRevision
    /\ term' = [term EXCEPT ![c] = 0]
    /\ elected' = [elected EXCEPT ![c] = FALSE]
    /\ token' = [token EXCEPT ![c] = 0]
    /\ UNCHANGED <<maxToken, value>>

\* FencedResource.Write by a candidate that believes it leads.
Write(c) ==
    /\ elected[c] /\ token[c] # 0
    /\ token[c] >= maxToken
    /\ maxToken' = token[c]
    /\ value' = term[c]
    /\ UNCHANGED <<revision, key, term, elected, token>>

Next == \E c \in Candidate :
    \/ StartCampaign(c) \/ Campaign(c) \/ FencingToken(c)
    \/ SessionExpires(c) \/ Resign(c) \/ Write(c)

Spec == Init /\ [][Next]_vars
-----------------------------------------------------------------------------

\* What the comments on EtcdLeader and on the package promise of this token:
\* the late write of a leader that slept through its own replacement does not
\* overwrite the data of the leader after it.
NoStaleOverwrite == [][value' >= value]_vars
=============================================================================
