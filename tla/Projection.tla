----------------------------- MODULE Projection -----------------------------
(***************************************************************************)
(* The CQRS example of architecture/cqrs: writers that append events to    *)
(* the table order_events, projectors that apply the log to orders_read    *)
(* and move their checkpoint in the same transaction, and the blue-green   *)
(* rebuild, which replays the log into orders_read_v2 and swaps the two    *)
(* tables.  Everything is PostgreSQL at READ COMMITTED: each statement     *)
(* sees what is committed when it starts.                                  *)
(*                                                                         *)
(* A sequence number is drawn when an INSERT runs and becomes visible when *)
(* it commits; between the two other writers may draw and commit theirs.   *)
(* Amounts and users are left out: they never change after "created".      *)
(***************************************************************************)
EXTENDS Naturals, FiniteSetsExt

CONSTANTS Writer, Order,
          Projector,   \* who calls projectOnce: the projector, waiting readers
          Rebuilder,   \* who calls rebuildReadModel
          Nobody,
          MaxSeq,      \* bound: how many sequence numbers are drawn
          MaxRebuilds, \* bound: how many rebuilds are begun
          MaxFaults    \* bound: how many transactions fail by themselves

ASSUME ProjectionAssumption ==
    /\ Rebuilder \notin Projector
    /\ Nobody \notin Projector \cup {Rebuilder}
    /\ MaxSeq \in Nat /\ MaxRebuilds \in Nat /\ MaxFaults \in Nat

VARIABLES seq,       \* the sequence of order_events.seq: the last number drawn
          log,       \* the committed events
          pending,   \* the events each writer has inserted and not committed
          table,     \* the status of each order in the two tables
          ckpt,      \* projection_checkpoint.last_seq of the two tables
          rowLock,   \* who holds the row of projection_checkpoint
          pc,        \* where each process is in applyLog or the rebuild
          batch,     \* what it has read from the log
          writing,   \* the projectors whose transaction has written orders_read
          rebuilds, faults,
          late       \* history: the orders with an event that became visible after
                     \* one with a greater number

vars == <<seq, log, pending, table, ckpt, rowLock, pc, batch, writing,
          rebuilds, faults, late>>

Table == {"orders_read", "orders_read_v2"}
Process == Projector \cup {Rebuilder}
Event == [seq : 1..MaxSeq, order : Order, type : {"created", "paid"}]
Status == {"none", "new", "paid"}

\* locked: holds its checkpoint row; read: has the batch; applied: only the
\* commit is missing.  Of the rebuild: replay: v2 is empty; switch: v2 is
\* filled; renamed: orders_read is locked exclusively, the row is awaited.
PC == {"idle", "locked", "read", "applied", "replay", "switch", "renamed"}

TypeOK ==
    /\ seq \in 0..MaxSeq
    /\ log \in SUBSET Event
    /\ pending \in [Writer -> SUBSET Event]
    /\ table \in [Table -> [Order -> Status]]
    /\ ckpt \in [Table -> 0..MaxSeq]
    /\ rowLock \in [Table -> Process \cup {Nobody}]
    /\ pc \in [Process -> PC]
    /\ batch \in [Process -> SUBSET Event]
    /\ writing \in SUBSET Projector
    /\ rebuilds \in 0..MaxRebuilds
    /\ faults \in 0..MaxFaults
    /\ late \in SUBSET Order

EmptyTable == [o \in Order |-> "none"]

Init ==
    /\ seq = 0 /\ log = {} /\ pending = [w \in Writer |-> {}]
    /\ table = [t \in Table |-> EmptyTable]
    /\ ckpt = [t \in Table |-> 0]
    /\ rowLock = [t \in Table |-> Nobody]
    /\ pc = [p \in Process |-> "idle"]
    /\ batch = [p \in Process |-> {}]
    /\ writing = {}
    /\ rebuilds = MaxRebuilds /\ faults = MaxFaults /\ late = {}

Goto(p, l) == pc' = [pc EXCEPT ![p] = l]
Has(S, o, t) == \E e \in S : e.order = o /\ e.type = t
-----------------------------------------------------------------------------
(* Commands: one INSERT each, in a transaction of its own *)

Insert(w, o, type) ==
    /\ pending[w] = {} /\ seq < MaxSeq
    /\ seq' = seq + 1
    /\ pending' = [pending EXCEPT ![w] = {[seq |-> seq', order |-> o, type |-> type]}]
    /\ UNCHANGED <<log, late, table, ckpt, rowLock, pc, batch, writing, rebuilds, faults>>

\* An order number of its own comes from order_id_seq.
createOrder(w, o) ==
    /\ ~Has(log \cup UNION {pending[v] : v \in Writer}, o, "created")
    /\ Insert(w, o, "created")

\* The SELECT of the user finds the committed "created" event.
payOrder(w, o) == Has(log, o, "created") /\ Insert(w, o, "paid")

CommitInsert(w) ==
    /\ pending[w] # {}
    /\ log' = log \cup pending[w]
    /\ late' = late \cup {o \in Order : \E e \in pending[w], f \in log :
                                e.order = o /\ e.seq < f.seq}
    /\ pending' = [pending EXCEPT ![w] = {}]
    /\ UNCHANGED <<seq, table, ckpt, rowLock, pc, batch, writing, rebuilds, faults>>

\* The insert fails; its number is not drawn again.
RollbackInsert(w) ==
    /\ pending[w] # {} /\ faults > 0
    /\ faults' = faults - 1
    /\ pending' = [pending EXCEPT ![w] = {}]
    /\ UNCHANGED <<seq, log, late, table, ckpt, rowLock, pc, batch, writing, rebuilds>>
-----------------------------------------------------------------------------
(* applyLog *)

Target(p) == IF p = Rebuilder THEN "orders_read_v2" ELSE "orders_read"

\* Variant for a mutation check: SELECT last_seq without FOR UPDATE.
LockCheckpointNot(p) ==
    /\ pc[p] = IF p = Rebuilder THEN "replay" ELSE "idle"
    /\ Goto(p, "locked")
    /\ UNCHANGED <<seq, log, late, pending, table, ckpt, rowLock, batch, writing,
                   rebuilds, faults>>

\* SELECT last_seq ... FOR UPDATE.
LockCheckpoint(p) ==
    /\ pc[p] = IF p = Rebuilder THEN "replay" ELSE "idle"
    /\ rowLock[Target(p)] = Nobody
    /\ rowLock' = [rowLock EXCEPT ![Target(p)] = p]
    /\ Goto(p, "locked")
    /\ UNCHANGED <<seq, log, late, pending, table, ckpt, batch, writing, rebuilds,
                   faults>>

\* SELECT ... WHERE seq > last_seq.
ReadLog(p) ==
    /\ pc[p] = "locked"
    /\ batch' = [batch EXCEPT ![p] = {e \in log : e.seq > ckpt[Target(p)]}]
    /\ Goto(p, "read")
    /\ UNCHANGED <<seq, log, late, pending, table, ckpt, rowLock, writing, rebuilds,
                   faults>>

\* The first INSERT or UPDATE waits while a rebuild holds orders_read; an
\* empty batch does not touch the table.
Write(p) ==
    /\ pc[p] = "read"
    /\ IF batch[p] = {} \/ p = Rebuilder THEN UNCHANGED writing
       ELSE pc[Rebuilder] # "renamed" /\ writing' = writing \cup {p}
    /\ Goto(p, "applied")
    /\ UNCHANGED <<seq, log, late, pending, table, ckpt, rowLock, batch, rebuilds,
                   faults>>

\* The events of S applied to a table in the order of their numbers: the
\* UPSERT of "created" sets the status anew, the UPDATE of "paid" finds a row
\* or changes nothing.
Applied(tab, S) ==
    [o \in Order |->
        IF Has(S, o, "created") THEN IF Has(S, o, "paid") THEN "paid" ELSE "new"
        ELSE IF tab[o] # "none" /\ Has(S, o, "paid") THEN "paid" ELSE tab[o]]

Last(S, from) == IF S = {} THEN from ELSE Max({e.seq : e \in S})

Release(p) == rowLock' = [t \in Table |-> IF rowLock[t] = p THEN Nobody ELSE rowLock[t]]

\* What a transaction's end leaves behind in its process, whatever its outcome.
EndTransaction(p, l) ==
    /\ Release(p)
    /\ writing' = writing \ {p}
    /\ batch' = [batch EXCEPT ![p] = {}]
    /\ Goto(p, l)

\* Variant for a mutation check: the position is recorded in a transaction of
\* its own, after reading the log once more.
CommitBatchToTail(p) ==
    LET t == Target(p) IN
    /\ pc[p] = "applied"
    /\ table' = [table EXCEPT ![t] = Applied(@, batch[p])]
    /\ ckpt' = [ckpt EXCEPT ![t] = Last(log, @)]
    /\ EndTransaction(p, IF p = Rebuilder THEN "switch" ELSE "idle")
    /\ UNCHANGED <<seq, log, late, pending, rebuilds, faults>>

\* Table and checkpoint change in one COMMIT.
CommitBatch(p) ==
    LET t == Target(p) IN
    /\ pc[p] = "applied"
    /\ table' = [table EXCEPT ![t] = Applied(@, batch[p])]
    /\ ckpt' = [ckpt EXCEPT ![t] = Last(batch[p], @)]
    /\ EndTransaction(p, IF p = Rebuilder THEN "switch" ELSE "idle")
    /\ UNCHANGED <<seq, log, late, pending, rebuilds, faults>>

\* Variant for a mutation check: no deferred Rollback, the transaction stays open.
FailLeavingOpen(p) ==
    /\ pc[p] # "idle" /\ faults > 0
    /\ faults' = faults - 1
    /\ Goto(p, "idle")
    /\ UNCHANGED <<seq, log, late, pending, table, ckpt, rowLock, batch, writing,
                   rebuilds>>

\* A statement or the commit fails, or the process dies: all is rolled back
\* and the call returns an error.
Fail(p) ==
    /\ pc[p] # "idle" /\ faults > 0
    /\ faults' = faults - 1
    /\ EndTransaction(p, "idle")
    /\ UNCHANGED <<seq, log, late, pending, table, ckpt, rebuilds>>
-----------------------------------------------------------------------------
(* rebuildReadModel *)

CreateV2 ==
    /\ pc[Rebuilder] = "idle" /\ rebuilds > 0
    /\ rebuilds' = rebuilds - 1
    /\ table' = [table EXCEPT !["orders_read_v2"] = EmptyTable]
    /\ ckpt' = [ckpt EXCEPT !["orders_read_v2"] = 0]
    /\ Goto(Rebuilder, "replay")
    /\ UNCHANGED <<seq, log, late, pending, rowLock, batch, writing, faults>>

\* ALTER TABLE orders_read RENAME needs the table for itself.
Rename ==
    /\ pc[Rebuilder] = "switch"
    /\ writing = {}
    /\ Goto(Rebuilder, "renamed")
    /\ UNCHANGED <<seq, log, late, pending, table, ckpt, rowLock, batch, writing,
                   rebuilds, faults>>

\* The UPDATE of the checkpoint gets its row, and the switch commits: tables
\* and positions change places at once; v2 and its row are gone.
Switch ==
    /\ pc[Rebuilder] = "renamed"
    /\ rowLock["orders_read"] = Nobody
    /\ table' = [t \in Table |-> IF t = "orders_read" THEN table["orders_read_v2"]
                                 ELSE EmptyTable]
    /\ ckpt' = [t \in Table |-> IF t = "orders_read" THEN ckpt["orders_read_v2"] ELSE 0]
    /\ Goto(Rebuilder, "idle")
    /\ UNCHANGED <<seq, log, late, pending, rowLock, batch, writing, rebuilds, faults>>

\* The rebuild has the table and waits for the row, a projector has the row
\* and waits for the table: the server aborts one of them.
BreakDeadlock(p) ==
    /\ pc[Rebuilder] = "renamed"
    /\ rowLock["orders_read"] = p /\ p \in Projector
    /\ pc[p] = "read" /\ batch[p] # {}
    /\ \E victim \in {p, Rebuilder} : EndTransaction(victim, "idle")
    /\ UNCHANGED <<seq, log, late, pending, table, ckpt, rebuilds, faults>>

applyLog(p) ==
    \/ LockCheckpoint(p) \/ ReadLog(p) \/ Write(p) \/ CommitBatch(p)
    \/ BreakDeadlock(p)
Rebuild == CreateV2 \/ Rename \/ Switch

Next ==
    \/ \E w \in Writer :
         \/ \E o \in Order : createOrder(w, o) \/ payOrder(w, o)
         \/ CommitInsert(w) \/ RollbackInsert(w)
    \/ \E p \in Process : applyLog(p) \/ Fail(p)
    \/ Rebuild

Spec == Init /\ [][Next]_vars

\* projectOnce is called again and again, by someone each time; a rebuild
\* that was begun goes on.
FairSpec ==
    /\ Spec
    /\ \A p \in Process : SF_vars(applyLog(p))
    /\ SF_vars(Rename) /\ SF_vars(Switch)
-----------------------------------------------------------------------------
(* Properties *)

\* The state of the orders according to a set of events.
FoldOf(S) ==
    [o \in Order |-> IF Has(S, o, "paid") THEN "paid"
                     ELSE IF Has(S, o, "created") THEN "new" ELSE "none"]

UpTo(n) == {e \in log : e.seq <= n}

\* Each table shows the log up to its own checkpoint, no more and no less:
\* what waitForProjection relies on when it compares a token with the
\* checkpoint.  Concurrent projectors, failures and switches included.
ReadModelIsFold == \A t \in Table : table[t] = FoldOf(UpTo(ckpt[t]))

\* With several writers an event that becomes visible late is passed over, but
\* the damage is confined to its order: every other one is shown as the log up to
\* the checkpoint has it, whatever projectors, failures and switches do.
PunctualOrdersAreShown ==
    \A t \in Table, o \in Order \ late : table[t][o] = FoldOf(UpTo(ckpt[t]))[o]

\* Readers lose what they have seen to the switch of a rebuild only.
OnlySwitchGoesBack ==
    [][ckpt'["orders_read"] < ckpt["orders_read"]
         => pc[Rebuilder] = "renamed" /\ pc'[Rebuilder] = "idle"]_vars

\* What the checkpoint lacks of the log it reaches in the end, though
\* transactions fail, deadlock and are overtaken by rebuilds: after the last
\* event of a log projectionLag returns to 0.  With PunctualOrdersAreShown, what
\* it has passed is also applied, but for the orders in `late`.
EventsAreProjected ==
    (\E e \in log : e.seq > ckpt["orders_read"])
        ~> (\A e \in log : e.seq <= ckpt["orders_read"])
=============================================================================
