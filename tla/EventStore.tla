----------------------------- MODULE EventStore -----------------------------
(***************************************************************************)
(* The event store of architecture/event-sourcing-deep over PostgreSQL:    *)
(* commands that append to a stream at the version they have read, the     *)
(* projector that follows the log with a cursor of transaction numbers     *)
(* below the watermark pg_snapshot_xmin, and the blue-green rebuild that   *)
(* replays the log into a second table and swaps the two.                  *)
(*                                                                         *)
(* global_pos matters only between rows of one transaction, where it grows *)
(* with the version, so the version stands for it.  Every stream has the   *)
(* same history (registered, filled, consumed from litre by litre), so a   *)
(* row of a table is the version it has reached.                           *)
(***************************************************************************)
EXTENDS Naturals, FiniteSets

CONSTANTS Writer,   \* goroutines that execute commands
          Stream,
          Copy,     \* runs of the projector of balances; a rebuild stops them all
          Shadow,   \* the rebuild's own projector
          Full,     \* litres a tank is filled with
          Limit,    \* ProjectBatchInto: rows of one batch
          MaxXid,   \* bound: transactions that append
          MaxFaults \* bound: rebuilds, and projectors that fail

ASSUME EventStoreAssumption ==
    /\ Shadow \notin Copy /\ Stream # {}
    /\ Full \in Nat \ {0} /\ Limit \in Nat \ {0} /\ MaxXid \in Nat /\ MaxFaults \in Nat

VARIABLES nextXid, \* the number the next transaction that writes will draw
          events,  \* the rows of events that are committed
          writer,  \* where each writer is in AppendEvents
          writing, \* FALSE: the writers beside the rebuild have finished
          cursor,  \* the table checkpoints
          table,   \* balances and balances_shadow: the version of each row
          proc,    \* where each projector is in ProjectBatchInto
          rebuild, \* where runRebuildBlueGreen is
          faults

vars == <<nextXid, events, writer, writing, cursor, table, proc, rebuild, faults>>

Process == Copy \cup {Shadow}
Table == {"balances", "balances_shadow"}
Rows == [Stream -> Nat]
Cursor == [xid : Nat, pos : Nat]
Event == [stream : Stream, version : Nat \ {0}, xid : Nat \ {0}]

WriterState == [pc : {"idle", "begin", "insert"}, stream : Stream, base : Nat,
                count : Nat, done : Nat, xid : Nat]
ProcState == [pc : {"idle", "marked", "locked", "applying"}, mark : Nat, xid : Nat,
              batch : SUBSET Event, at : Cursor, rows : Rows]

TypeOK ==
    /\ nextXid \in Nat \ {0}
    /\ events \subseteq Event
    /\ writer \in [Writer -> WriterState]
    /\ writing \in BOOLEAN
    /\ cursor \in [Table -> Cursor]
    /\ table \in [Table -> Rows]
    /\ proc \in [Process -> ProcState]
    /\ rebuild \in {"none", "drain", "empty", "stop"}
    /\ faults \in Nat

NoRows == [s \in Stream |-> 0]
Start == [xid |-> 0, pos |-> 0]
WriterIdle == [pc |-> "idle", stream |-> CHOOSE s \in Stream : TRUE, base |-> 0,
               count |-> 0, done |-> 0, xid |-> 0]
ProcIdle == [pc |-> "idle", mark |-> 0, xid |-> 0, batch |-> {}, at |-> Start,
             rows |-> NoRows]

Init ==
    /\ nextXid = 1 /\ events = {} /\ writing = TRUE
    /\ writer = [w \in Writer |-> WriterIdle]
    /\ cursor = [t \in Table |-> Start] /\ table = [t \in Table |-> NoRows]
    /\ proc = [p \in Process |-> ProcIdle]
    /\ rebuild = "none" /\ faults = MaxFaults

Fault == faults > 0 /\ faults' = faults - 1

\* The order of the log: by transaction, and within it as written.
After(e, c) == e.xid > c.xid \/ (e.xid = c.xid /\ e.version > c.pos)
Position(e) == [xid |-> e.xid, pos |-> e.version]
Before(d, e) == After(e, Position(d))

InStream(s) == {e \in events : e.stream = s}

\* LoadStream returns version v: that of the last row.
Version(s, v) == /\ v = 0 \/ \E e \in InStream(s) : e.version = v
                 /\ \A e \in InStream(s) : e.version <= v

\* The fold of a stream of that length.
Liters(version) == IF version < 2 THEN 0 ELSE Full - (version - 2)
-----------------------------------------------------------------------------
(* Commands: LoadStream, Decide, AppendEvents *)

Begin(w, s, base, count) ==
    /\ writer[w].pc = "idle" /\ writing
    /\ nextXid + Cardinality({v \in Writer : writer[v].pc = "begin"}) <= MaxXid
    /\ writer' = [writer EXCEPT ![w] = [pc |-> "begin", stream |-> s, base |-> base,
                                        count |-> count, done |-> 0, xid |-> 0]]
    /\ UNCHANGED <<nextXid, events, writing, cursor, table, proc, rebuild, faults>>

\* runPostgresAppend registers its streams and fills them, unseen.
Register(w, s) == Begin(w, s, 0, 2)

\* oneCommandPostgres: Decide lets no tank be overdrawn.
Consume(w, s) ==
    \E v \in {0} \cup {e.version : e \in InStream(s)} :
        Version(s, v) /\ Liters(v) >= 1 /\ Begin(w, s, v, 1)

\* The first INSERT draws the number; it may wait after that.
Draw(w) ==
    /\ writer[w].pc = "begin"
    /\ writer' = [writer EXCEPT ![w].pc = "insert", ![w].xid = nextXid]
    /\ nextXid' = nextXid + 1
    /\ UNCHANGED <<events, writing, cursor, table, proc, rebuild, faults>>

\* The version of the row that w inserts next.
NextVersion(w) == writer[w].base + writer[w].done + 1

\* Another open transaction has inserted the same primary key.
Waits(w) ==
    \E v \in Writer \ {w} :
        /\ writer[v].pc = "insert" /\ writer[v].stream = writer[w].stream
        /\ NextVersion(w) \in (writer[v].base + 1)..(writer[v].base + writer[v].done)

Taken(w) == \E e \in InStream(writer[w].stream) : e.version = NextVersion(w)

\* Variant for a mutation check: a table without its primary key.
InsertAnyway(w) ==
    /\ writer[w].pc = "insert" /\ writer[w].done < writer[w].count
    /\ writer' = [writer EXCEPT ![w].done = @ + 1]
    /\ UNCHANGED <<nextXid, events, writing, cursor, table, proc, rebuild, faults>>

Insert(w) ==
    /\ writer[w].pc = "insert" /\ writer[w].done < writer[w].count
    /\ ~Waits(w) /\ ~Taken(w)
    /\ writer' = [writer EXCEPT ![w].done = @ + 1]
    /\ UNCHANGED <<nextXid, events, writing, cursor, table, proc, rebuild, faults>>

\* 23505: ErrVersionConflict, and all of the command is rolled back.
Conflict(w) ==
    /\ writer[w].pc = "insert" /\ writer[w].done < writer[w].count
    /\ ~Waits(w) /\ Taken(w)
    /\ writer' = [writer EXCEPT ![w] = WriterIdle]
    /\ UNCHANGED <<nextXid, events, writing, cursor, table, proc, rebuild, faults>>

\* The rows that w has inserted.
Inserted(w) ==
    {[stream |-> writer[w].stream, version |-> v, xid |-> writer[w].xid] :
         v \in (writer[w].base + 1)..(writer[w].base + writer[w].done)}

\* Whether the answer arrives changes nothing.
Commit(w) ==
    /\ writer[w].pc = "insert" /\ writer[w].done = writer[w].count
    /\ events' = events \cup Inserted(w)
    /\ writer' = [writer EXCEPT ![w] = WriterIdle]
    /\ UNCHANGED <<nextXid, writing, cursor, table, proc, rebuild, faults>>

\* The deadline of the command, a lost connection, the death of the process.
Rollback(w) ==
    /\ writer[w].pc # "idle"
    /\ writer' = [writer EXCEPT ![w] = WriterIdle]
    /\ UNCHANGED <<nextXid, events, writing, cursor, table, proc, rebuild, faults>>
-----------------------------------------------------------------------------
(* ProjectBatchInto *)

TableOf(p) == IF p = Shadow THEN "balances_shadow" ELSE "balances"

\* The shadow's projector is called by drainLoop; the others stop for the swap.
May(p) == IF p = Shadow THEN rebuild = "drain" ELSE rebuild # "stop"

\* A projector's transaction draws a number too.  Nothing is compared with it
\* but the numbers of events, so that of the next writer stands for it.
Open == {writer[w].xid : w \in {v \in Writer : writer[v].pc = "insert"}}
        \cup {proc[p].xid : p \in {q \in Process : proc[q].pc \in {"locked", "applying"}}}

\* Variant for a mutation check: events are read as soon as they are visible.
NoWatermark(n) == n = nextXid

\* pg_snapshot_xmin is n: the least number that is still open.
Watermark(n) == n \in Open \cup {nextXid} /\ \A k \in Open : n <= k

TakeWatermark(p) == \E n \in Open \cup {nextXid} :
    /\ proc[p].pc = "idle" /\ May(p) /\ Watermark(n)
    /\ proc' = [proc EXCEPT ![p].pc = "marked", ![p].mark = n]
    /\ UNCHANGED <<nextXid, events, writer, writing, cursor, table, rebuild, faults>>

\* The upsert of the checkpoint locks its row.
LockCheckpoint(p) ==
    /\ proc[p].pc = "marked"
    /\ \A q \in Process : TableOf(q) = TableOf(p) => proc[q].pc \in {"idle", "marked"}
    /\ proc' = [proc EXCEPT ![p].pc = "locked", ![p].xid = nextXid,
                            ![p].at = cursor[TableOf(p)], ![p].rows = table[TableOf(p)]]
    /\ UNCHANGED <<nextXid, events, writer, writing, cursor, table, rebuild, faults>>

Finished(p) == {e \in events : After(e, proc[p].at) /\ e.xid < proc[p].mark}

\* ORDER BY xid, global_pos LIMIT Limit.
Batch(p) ==
    {e \in Finished(p) : Cardinality({d \in Finished(p) : Before(d, e)}) < Limit}

ReadBatch(p) ==
    /\ proc[p].pc = "locked" /\ Batch(p) # {}
    /\ proc' = [proc EXCEPT ![p].pc = "applying", ![p].batch = Batch(p)]
    /\ UNCHANGED <<nextXid, events, writer, writing, cursor, table, rebuild, faults>>

\* Variant for a mutation check: return 0, nil without the end of the transaction.
NothingToDoLeavingOpen(p) ==
    /\ proc[p].pc = "locked" /\ Batch(p) = {}
    /\ rebuild' = IF p = Shadow THEN "empty" ELSE rebuild
    /\ UNCHANGED <<nextXid, events, writer, writing, cursor, table, proc, faults>>

NothingToDo(p) ==
    /\ proc[p].pc = "locked" /\ Batch(p) = {}
    /\ proc' = [proc EXCEPT ![p] = ProcIdle]
    /\ rebuild' = IF p = Shadow THEN "empty" ELSE rebuild
    /\ UNCHANGED <<nextXid, events, writer, writing, cursor, table, faults>>

First(batch) == {e \in batch : \A d \in batch : d = e \/ Before(e, d)}

\* The row of e has no gap before e.
Applies(p, e) == proc[p].rows[e.stream] + 1 >= e.version

\* One turn of the loop over the batch, inside the transaction; a row that has
\* the version is left as it is.
Apply(p) == \E e \in First(proc[p].batch) :
    /\ proc[p].pc = "applying" /\ Applies(p, e)
    /\ proc' = [proc EXCEPT
           ![p].batch = @ \ {e}, ![p].at = Position(e),
           ![p].rows = IF @[e.stream] >= e.version THEN @
                       ELSE [@ EXCEPT ![e.stream] = e.version]]
    /\ UNCHANGED <<nextXid, events, writer, writing, cursor, table, rebuild, faults>>

\* Rows and checkpoint in one transaction.
CommitBatch(p) ==
    /\ proc[p].pc = "applying" /\ proc[p].batch = {}
    /\ table' = [table EXCEPT ![TableOf(p)] = proc[p].rows]
    /\ cursor' = [cursor EXCEPT ![TableOf(p)] = proc[p].at]
    /\ proc' = [proc EXCEPT ![p] = ProcIdle]
    /\ UNCHANGED <<nextXid, events, writer, writing, rebuild, faults>>

\* An error of any statement: rolled back, and the process ends.  For the
\* shadow's projector that is RebuildDies.
Fail(p) ==
    /\ p # Shadow /\ proc[p].pc # "idle" /\ Fault
    /\ proc' = [proc EXCEPT ![p] = ProcIdle]
    /\ UNCHANGED <<nextXid, events, writer, writing, cursor, table, rebuild>>
-----------------------------------------------------------------------------
(* runRebuildBlueGreen *)

\* TRUNCATE, DELETE of the checkpoint, and writers of its own.
StartRebuild ==
    /\ rebuild = "none" /\ proc[Shadow].pc = "idle" /\ events # {} /\ Fault
    /\ table' = [table EXCEPT !["balances_shadow"] = NoRows]
    /\ cursor' = [cursor EXCEPT !["balances_shadow"] = Start]
    /\ rebuild' = "drain" /\ writing' = TRUE
    /\ UNCHANGED <<nextXid, events, writer, proc>>

\* writerDone is closed.
StopWriting ==
    /\ rebuild # "none" /\ writing
    /\ \A w \in Writer : writer[w].pc = "idle"
    /\ writing' = FALSE
    /\ UNCHANGED <<nextXid, events, writer, cursor, table, proc, rebuild, faults>>

\* After an empty batch the loop ends if writerDone is closed by now, though the
\* last events may have come after the batch was read.
LeaveDrain ==
    /\ rebuild = "empty"
    /\ rebuild' = IF writing THEN "drain" ELSE "stop"
    /\ UNCHANGED <<nextXid, events, writer, writing, cursor, table, proc, faults>>

\* Variant for a mutation check: the checkpoint stays where it was.
SwapTablesOnly ==
    /\ rebuild = "stop" /\ \A p \in Process : proc[p].pc = "idle"
    /\ table' = [t \in Table |-> IF t = "balances" THEN table["balances_shadow"]
                                 ELSE table["balances"]]
    /\ rebuild' = "none"
    /\ UNCHANGED <<nextXid, events, writer, writing, cursor, proc, faults>>

\* swapBlueGreen, after the projector of balances has stopped (onlineWG.Wait).
Swap ==
    /\ rebuild = "stop" /\ \A p \in Process : proc[p].pc = "idle"
    /\ table' = [t \in Table |-> IF t = "balances" THEN table["balances_shadow"]
                                 ELSE table["balances"]]
    /\ cursor' = [cursor EXCEPT !["balances"] = cursor["balances_shadow"]]
    /\ rebuild' = "none"
    /\ UNCHANGED <<nextXid, events, writer, writing, proc, faults>>

\* The process of the rebuild ends, or a statement of it fails.
RebuildDies ==
    /\ rebuild # "none"
    /\ proc' = [proc EXCEPT ![Shadow] = ProcIdle]
    /\ rebuild' = "none"
    /\ UNCHANGED <<nextXid, events, writer, writing, cursor, table, faults>>
-----------------------------------------------------------------------------
AppendEvents(w) == Draw(w) \/ Insert(w) \/ Conflict(w) \/ Commit(w)
ProjectBatchInto(p) == \/ TakeWatermark(p) \/ LockCheckpoint(p) \/ ReadBatch(p)
                       \/ NothingToDo(p) \/ Apply(p) \/ CommitBatch(p)

Next ==
    \/ \E w \in Writer : \/ \E s \in Stream : Register(w, s) \/ Consume(w, s)
                         \/ AppendEvents(w) \/ Rollback(w)
    \/ \E p \in Process : ProjectBatchInto(p) \/ Fail(p)
    \/ StartRebuild \/ StopWriting \/ LeaveDrain \/ Swap \/ RebuildDies

Spec == Init /\ [][Next]_vars

\* Transactions end, the projector is called again and again, and a rebuild that
\* has stopped it goes on.  Nobody has to write.
FairSpec ==
    /\ Spec
    /\ \A w \in Writer : WF_vars(AppendEvents(w))
    /\ \A p \in Process : WF_vars(ProjectBatchInto(p))
    /\ WF_vars(LeaveDrain) /\ WF_vars(Swap)
-----------------------------------------------------------------------------
(* Properties *)

\* A table holds the events up to its checkpoint and no others, whatever commits
\* late: no transaction that is open can still put one behind the checkpoint,
\* and a swap brings table and checkpoint together.  (ProjectBatchInto's cursor
\* and watermark; swapBlueGreen.)
ReadModelIsFold ==
    \A t \in IF rebuild = "none" THEN {"balances"} ELSE Table :
        /\ \A e \in events : e.version <= table[t][e.stream] <=> ~After(e, cursor[t])
        /\ \A w \in Writer : writer[w].xid # 0 => writer[w].xid > cursor[t].xid

\* The projector never stops for a gap: the order of transactions is the order
\* of versions in every stream, as commands draw their number after they have
\* read.
NoVersionGap ==
    \A p \in Process : \A e \in First(proc[p].batch) : Applies(p, e)

\* The versions of a stream are numbered without gap or repetition, and no tank
\* is overdrawn, with any number of commands decided at the same time.
StreamIsHistory ==
    \A s \in Stream :
        /\ \A e \in InStream(s) : e.version <= Full + 2
        /\ \A e \in InStream(s) : e.version > 1 =>
               \E d \in InStream(s) : d.version + 1 = e.version
        /\ \A d, e \in InStream(s) : d.version = e.version => d = e

\* When the commands stop, balances gets every event that was committed and
\* keeps it, across failures and rebuilds.
EventsAreProjected ==
    <>[](\A w \in Writer : writer[w].pc = "idle")
        => <>[](\A e \in events : e.version <= table["balances"][e.stream])
=============================================================================
