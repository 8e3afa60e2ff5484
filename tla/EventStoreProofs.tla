-------------------------- MODULE EventStoreProofs --------------------------
(***************************************************************************)
(* Proofs about EventStore, for any number of writers, streams and runs of *)
(* the projector, any batch size and any history.                          *)
(***************************************************************************)
EXTENDS EventStore, FiniteSetTheorems, TLAPS

\* Stream s has all of the versions 1..n among the events E.
Backed(E, s, n) == \A v \in 1..n : \E d \in E : d.stream = s /\ d.version = v

\* Positions in the log identify events, and the order of the log is the order
\* of versions in every stream.
LogOrder(E) ==
    \A d, e \in E :
        /\ d.stream = e.stream /\ d.version = e.version => d = e
        /\ d.xid = e.xid => d.stream = e.stream
        /\ d.stream = e.stream /\ d.version < e.version => d.xid <= e.xid

Log ==
    /\ IsFiniteSet(events) /\ LogOrder(events)
    /\ \A e \in events : /\ e.xid < nextXid /\ e.version <= Full + 2
                         /\ Backed(events, e.stream, e.version)

\* Versions that a command builds on exist.
Prepared(r) ==
    r.pc # "idle" => /\ Backed(events, r.stream, r.base)
                     /\ r.count \in {1, 2} /\ r.base + r.count <= Full + 2
                     /\ r.done <= r.count

\* Its number is younger than they are, and nobody has what it has inserted.
Fresh(r) ==
    r.pc = "insert" =>
        /\ 0 < r.xid /\ r.xid < nextXid
        /\ \A e \in events :
             /\ e.xid # r.xid
             /\ e.stream = r.stream =>
                  /\ e.version <= r.base => e.xid < r.xid
                  /\ e.version \notin (r.base + 1)..(r.base + r.done)

Writing(r) == /\ Prepared(r) /\ Fresh(r)
              /\ r.pc # "insert" => r.xid = 0 /\ r.done = 0

\* Open transactions differ in their numbers and in the keys they hold.
Apart(q, r) ==
    q.pc = "insert" /\ r.pc = "insert" =>
        /\ q.xid # r.xid
        /\ q.stream = r.stream =>
             \A k \in (q.base + 1)..(q.base + q.done) :
                 k \notin (r.base + 1)..(r.base + r.done)

Writers == /\ \A w \in Writer : Writing(writer[w])
           /\ \A v, w \in Writer : v # w => Apart(writer[v], writer[w])

\* No transaction with a number below n is open or still to come.
Settled(n) ==
    /\ n <= nextXid
    /\ \A w \in Writer : writer[w].pc = "insert" => n <= writer[w].xid

\* Rows are the events up to a cursor, and nothing more can come behind it.
Shown(rows, c) ==
    /\ Settled(c.xid + 1)
    /\ \A s \in Stream : Backed(events, s, rows[s])
    /\ \A e \in events : e.version <= rows[e.stream] <=> ~After(e, c)

Tables ==
    /\ Shown(table["balances"], cursor["balances"])
    /\ rebuild # "none" => Shown(table["balances_shadow"], cursor["balances_shadow"])

\* The batch is what comes next in the log.
Upcoming(r) ==
    /\ \A e \in r.batch : e \in events /\ After(e, r.at) /\ e.xid < r.mark
    /\ \A e \in r.batch, d \in events : After(d, r.at) /\ Before(d, e) => d \in r.batch

Projecting(r) ==
    /\ r.pc # "idle" => Settled(r.mark)
    /\ r.pc \in {"locked", "applying"} => Shown(r.rows, r.at) /\ r.xid <= nextXid
    /\ r.pc = "applying" => Upcoming(r)
    /\ r.pc # "applying" => r.batch = {}

Projectors == \A p \in Process : Projecting(proc[p])

ShadowRuns == proc[Shadow].pc # "idle" => rebuild = "drain"

IInv == TypeOK /\ Log /\ Writers /\ Tables /\ Projectors /\ ShadowRuns
-----------------------------------------------------------------------------
(* The order of the log, and least and greatest numbers *)

USE EventStoreAssumption DEF EventStoreAssumption

LEMMA BeforeIsOrder ==
    ASSUME NEW c \in Cursor, NEW d \in Event, NEW e \in Event, NEW f \in Event
    PROVE  /\ ~Before(e, e)
           /\ Before(d, e) => ~Before(e, d)
           /\ Before(d, e) /\ Before(e, f) => Before(d, f)
           /\ After(d, c) /\ Before(d, e) => After(e, c)
           /\ Position(e) \in Cursor
BY DEF Before, After, Position, Event, Cursor

LEMMA LogIsTotal ==
    ASSUME TypeOK, Log, NEW d \in events, NEW e \in events
    PROVE  d = e \/ Before(d, e) \/ Before(e, d)
BY DEF TypeOK, Log, LogOrder, Before, After, Position, Event

LEMMA VersionIsThere ==
    ASSUME TypeOK, Log, NEW s \in Stream, NEW v, Version(s, v)
    PROVE  v \in Nat /\ Backed(events, s, v)
<1>1. CASE v = 0
  BY <1>1 DEF Backed
<1>2. CASE \E e \in InStream(s) : e.version = v
  BY <1>2 DEF Log, InStream, TypeOK, Event
<1> QED
  BY <1>1, <1>2 DEF Version

LEMMA WatermarkIsSettled ==
    ASSUME TypeOK, Writers, Projectors, NEW n, Watermark(n)
    PROVE  n \in Nat /\ Settled(n)
<1>1. \A w \in Writer : writer[w].pc = "insert" =>
          writer[w].xid \in Open /\ writer[w].xid \in Nat /\ writer[w].xid <= nextXid
  BY DEF TypeOK, WriterState, Writers, Writing, Fresh, Open
<1>2. \A p \in Process : proc[p].pc \in {"locked", "applying"} =>
          proc[p].xid \in Nat /\ proc[p].xid <= nextXid
  BY DEF TypeOK, ProcState, Projectors, Projecting
<1>3. \A k \in Open : k \in Nat /\ k <= nextXid
  BY <1>1, <1>2 DEF Open
<1> QED
  BY <1>1, <1>3 DEF Watermark, Settled, TypeOK
-----------------------------------------------------------------------------
(* What holds of a cursor or a batch goes on holding while the log grows *)

\* What a step may do to the log and to the open transactions.
LogMoves ==
    /\ \A n \in Nat : Settled(n) => Settled(n)'
    /\ events \subseteq events'
    /\ \A e \in events' \ events :
         /\ \E w \in Writer : writer[w].pc = "insert" /\ e.xid = writer[w].xid
         /\ \A d \in events : d.stream = e.stream => d.version # e.version

LEMMA ShownStays ==
    ASSUME TypeOK, TypeOK', LogMoves, NEW rows \in Rows, NEW c \in Cursor, Shown(rows, c)
    PROVE  Shown(rows, c)'
<1>1. Settled(c.xid + 1)'
  <2>1. c.xid + 1 \in Nat
    BY DEF Cursor
  <2> QED
    BY <2>1 DEF Shown, LogMoves
<1>2. \A s \in Stream : Backed(events', s, rows[s])
  BY DEF Shown, LogMoves, Backed
<1>3. ASSUME NEW e \in events', e \notin events
      PROVE  After(e, c) /\ ~(e.version <= rows[e.stream])
  <2>1. PICK w \in Writer : writer[w].pc = "insert" /\ e.xid = writer[w].xid
    BY <1>3 DEF LogMoves
  <2>2. c.xid + 1 <= e.xid
    BY <2>1 DEF Shown, Settled
  <2>3. e \in Event /\ e.xid \in Nat /\ c.xid \in Nat /\ e.stream \in Stream
        /\ e.version \in Nat \ {0} /\ rows[e.stream] \in Nat
    BY DEF TypeOK, Event, Cursor, Rows
  <2>4. After(e, c)
    BY <2>2, <2>3 DEF After
  <2>5. ASSUME e.version <= rows[e.stream] PROVE FALSE
    <3>1. PICK d \in events : d.stream = e.stream /\ d.version = e.version
      BY <2>3, <2>5 DEF Shown, Backed
    <3> QED
      BY <1>3, <3>1 DEF LogMoves
  <2> QED
    BY <2>4, <2>5
<1>4. \A e \in events' : e.version <= rows[e.stream] <=> ~After(e, c)
  BY <1>3 DEF Shown
<1> QED
  BY <1>1, <1>2, <1>4 DEF Shown

LEMMA UpcomingStays ==
    ASSUME TypeOK, TypeOK', LogMoves, NEW r \in ProcState, Settled(r.mark), Upcoming(r)
    PROVE  Upcoming(r)'
<1>1. \A e \in r.batch : e \in events' /\ After(e, r.at) /\ e.xid < r.mark
  BY DEF Upcoming, LogMoves
<1>2. ASSUME NEW e \in r.batch, NEW d \in events', d \notin events, Before(d, e)
      PROVE  FALSE
  <2>1. PICK w \in Writer : writer[w].pc = "insert" /\ d.xid = writer[w].xid
    BY <1>2 DEF LogMoves
  <2>2. r.mark <= d.xid
    BY <2>1 DEF Settled
  <2>3. e.xid < r.mark /\ d.xid \in Nat /\ e.xid \in Nat /\ r.mark \in Nat
    BY DEF Upcoming, TypeOK, Event, ProcState
  <2> QED
    BY <1>2, <2>2, <2>3 DEF Before, After, Position
<1>3. ASSUME NEW e \in r.batch, NEW d \in events', After(d, r.at), Before(d, e)
      PROVE  d \in r.batch
  BY <1>2, <1>3 DEF Upcoming
<1> QED
  BY <1>1, <1>3 DEF Upcoming

LEMMA ProjectingStays ==
    ASSUME TypeOK, TypeOK', LogMoves, nextXid <= nextXid', NEW r \in ProcState, Projecting(r)
    PROVE  Projecting(r)'
<1>0. r.rows \in Rows /\ r.at \in Cursor /\ r.mark \in Nat /\ r.xid \in Nat
  BY DEF ProcState
<1>1. r.pc # "idle" => Settled(r.mark)'
  BY <1>0 DEF Projecting, LogMoves
<1>2. r.pc \in {"locked", "applying"} => Shown(r.rows, r.at)' /\ r.xid <= nextXid'
  BY <1>0, ShownStays DEF Projecting, TypeOK
<1>3. r.pc = "applying" => Upcoming(r)'
  BY UpcomingStays DEF Projecting
<1> QED
  BY <1>1, <1>2, <1>3 DEF Projecting
-----------------------------------------------------------------------------
(* Commands *)

\* A step that changes one writer and no event.
LEMMA OneWriter ==
    ASSUME TypeOK, TypeOK', Log, Writers, NEW w \in Writer,
           events' = events, nextXid <= nextXid',
           \A v \in Writer \ {w} : writer'[v] = writer[v],
           Writing(writer[w])',
           \A v \in Writer \ {w} : Apart(writer[v], writer'[w])
    PROVE  Log' /\ Writers'
<1>1. Log'
  <2>1. \A e \in events : e.xid \in Nat
    BY DEF TypeOK, Event
  <2>2. nextXid \in Nat /\ nextXid' \in Nat
    BY DEF TypeOK
  <2> QED
    BY <2>1, <2>2 DEF Log
<1>2. ASSUME NEW v \in Writer \ {w} PROVE Writing(writer[v])'
  <2>1. Writing(writer[v]) /\ writer'[v] = writer[v] /\ writer[v].xid \in Nat
    BY DEF Writers, TypeOK, WriterState
  <2> QED
    BY <2>1 DEF Writing, Prepared, Fresh, TypeOK
<1>3. ASSUME NEW v \in Writer, NEW u \in Writer, v # u
      PROVE  Apart(writer'[v], writer'[u])
  <2>1. CASE v = w
    BY <1>3, <2>1 DEF Apart
  <2>2. CASE u = w
    BY <1>3, <2>2
  <2>3. CASE v # w /\ u # w
    BY <1>3, <2>3 DEF Writers
  <2> QED
    BY <2>1, <2>2, <2>3
<1> QED
  BY <1>1, <1>2, <1>3 DEF Writers

LEMMA LogStands ==
    ASSUME TypeOK, TypeOK', UNCHANGED <<nextXid, events>>, NEW w \in Writer,
           \A v \in Writer \ {w} : writer'[v] = writer[v],
           writer'[w].pc = "insert" =>
               writer[w].pc = "insert" /\ writer'[w].xid = writer[w].xid
    PROVE  LogMoves
BY DEF LogMoves, Settled

LEMMA BeginKeeps ==
    ASSUME TypeOK, TypeOK', Log, Writers, NEW w \in Writer, NEW s \in Stream,
           Register(w, s) \/ Consume(w, s)
    PROVE  Log' /\ Writers' /\ LogMoves
<1>1. PICK v \in Nat, n \in {1, 2} :
          Begin(w, s, v, n) /\ Backed(events, s, v) /\ v + n <= Full + 2
  <2>1. CASE Register(w, s)
    <3>1. Backed(events, s, 0)
      BY DEF Backed
    <3> QED
      BY <2>1, <3>1 DEF Register
  <2>2. CASE Consume(w, s)
    <3>1. PICK v : Version(s, v) /\ Liters(v) >= 1 /\ Begin(w, s, v, 1)
      BY <2>2 DEF Consume
    <3>2. v \in Nat /\ Backed(events, s, v)
      BY <3>1, VersionIsThere
    <3>3. v + 1 <= Full + 2
      BY <3>1, <3>2 DEF Liters
    <3> QED
      BY <3>1, <3>2, <3>3
  <2> QED
    BY <2>1, <2>2
<1> DEFINE R == [pc |-> "begin", stream |-> s, base |-> v, count |-> n,
                 done |-> 0, xid |-> 0]
<1>2. /\ writer'[w] = R /\ \A u \in Writer \ {w} : writer'[u] = writer[u]
      /\ events' = events /\ nextXid' = nextXid
  BY <1>1 DEF Begin, TypeOK
<1>3. Writing(writer[w])'
  BY <1>1, <1>2 DEF Writing, Prepared, Fresh
<1>4. \A u \in Writer \ {w} : Apart(writer[u], writer'[w])
  BY <1>2 DEF Apart
<1>5. LogMoves
  BY <1>2, LogStands
<1>6. nextXid <= nextXid'
  BY <1>2 DEF TypeOK
<1> QED
  BY <1>2, <1>3, <1>4, <1>5, <1>6, OneWriter

LEMMA DrawKeeps ==
    ASSUME TypeOK, TypeOK', Log, Writers, NEW w \in Writer, Draw(w)
    PROVE  Log' /\ Writers' /\ LogMoves
<1>1. /\ writer[w].pc = "begin" /\ writer'[w].pc = "insert" /\ writer'[w].xid = nextXid
      /\ writer'[w].stream = writer[w].stream /\ writer'[w].base = writer[w].base
      /\ writer'[w].count = writer[w].count /\ writer'[w].done = writer[w].done
      /\ \A u \in Writer \ {w} : writer'[u] = writer[u]
      /\ events' = events /\ nextXid' = nextXid + 1
  BY DEF Draw, TypeOK, WriterState
<1>2. Writing(writer[w]) /\ writer[w].done = 0 /\ writer[w].base \in Nat
  BY <1>1 DEF Writers, Writing, TypeOK, WriterState
<1>3. nextXid \in Nat \ {0} /\ nextXid <= nextXid'
  BY <1>1 DEF TypeOK
<1>4. Fresh(writer[w])'
  <2>1. \A e \in events : e.xid # nextXid /\ e.xid < nextXid /\ e.version \in Nat
    BY DEF Log, TypeOK, Event
  <2> QED
    BY <1>1, <1>2, <1>3, <2>1 DEF Fresh
<1>5. Writing(writer[w])'
  BY <1>1, <1>2, <1>4 DEF Writing, Prepared
<1>6. ASSUME NEW u \in Writer \ {w} PROVE Apart(writer[u], writer'[w])
  <2>1. writer[u].pc = "insert" => writer[u].xid < nextXid /\ writer[u].xid \in Nat
    BY DEF Writers, Writing, Fresh, TypeOK, WriterState
  <2> QED
    BY <1>1, <1>2, <1>3, <2>1 DEF Apart
<1>7. LogMoves
  <2>1. ASSUME NEW n \in Nat, Settled(n) PROVE Settled(n)'
    BY <1>1, <1>3, <2>1 DEF Settled
  <2> QED
    BY <1>1, <2>1 DEF LogMoves
<1> QED
  BY <1>1, <1>3, <1>5, <1>6, <1>7, OneWriter

LEMMA InsertKeeps ==
    ASSUME TypeOK, TypeOK', Log, Writers, NEW w \in Writer, Insert(w)
    PROVE  Log' /\ Writers' /\ LogMoves
<1>1. /\ writer[w].pc = "insert" /\ writer'[w].pc = "insert" /\ writer'[w].xid = writer[w].xid
      /\ writer'[w].stream = writer[w].stream /\ writer'[w].base = writer[w].base
      /\ writer'[w].count = writer[w].count /\ writer'[w].done = writer[w].done + 1
      /\ \A u \in Writer \ {w} : writer'[u] = writer[u]
      /\ events' = events /\ nextXid' = nextXid /\ writer[w].done < writer[w].count
  BY DEF Insert, TypeOK, WriterState
<1>2. Writing(writer[w]) /\ writer[w].done \in Nat /\ writer[w].base \in Nat
      /\ writer[w].count \in Nat /\ writer[w].stream \in Stream
  BY <1>1 DEF Writers, Writing, TypeOK, WriterState
<1>3. ~Waits(w) /\ ~Taken(w) /\ nextXid <= nextXid'
  BY <1>1 DEF Insert, TypeOK
<1>4. \A k \in (writer[w].base + 1)..(writer[w].base + writer'[w].done) :
          k \in (writer[w].base + 1)..(writer[w].base + writer[w].done) \/ k = NextVersion(w)
  BY <1>1, <1>2 DEF NextVersion
<1>5. Fresh(writer[w])'
  <2>1. \A e \in events : e.stream = writer[w].stream => e.version # NextVersion(w)
    BY <1>3 DEF Taken, InStream
  <2> QED
    BY <1>1, <1>2, <1>4, <2>1 DEF Writing, Fresh
<1>6. Writing(writer[w])'
  BY <1>1, <1>2, <1>5 DEF Writing, Prepared
<1>7. ASSUME NEW u \in Writer \ {w} PROVE Apart(writer[u], writer'[w])
  <2>1. Apart(writer[u], writer[w])
    BY DEF Writers
  <2>2. writer[u].pc = "insert" /\ writer[u].stream = writer[w].stream =>
            NextVersion(w) \notin (writer[u].base + 1)..(writer[u].base + writer[u].done)
    BY <1>3 DEF Waits
  <2> QED
    BY <1>1, <1>4, <2>1, <2>2 DEF Apart
<1>8. LogMoves
  BY <1>1, LogStands
<1> QED
  BY <1>1, <1>3, <1>6, <1>7, <1>8, OneWriter

LEMMA GiveUpKeeps ==
    ASSUME TypeOK, TypeOK', Log, Writers, NEW w \in Writer, Conflict(w) \/ Rollback(w)
    PROVE  Log' /\ Writers' /\ LogMoves
<1>1. /\ writer'[w] = WriterIdle /\ \A u \in Writer \ {w} : writer'[u] = writer[u]
      /\ events' = events /\ nextXid' = nextXid /\ nextXid <= nextXid'
  BY DEF Conflict, Rollback, TypeOK
<1>2. Writing(writer[w])'
  BY <1>1 DEF Writing, Prepared, Fresh, WriterIdle
<1>3. \A u \in Writer \ {w} : Apart(writer[u], writer'[w])
  BY <1>1 DEF Apart, WriterIdle
<1>4. LogMoves
  BY <1>1, LogStands DEF WriterIdle
<1> QED
  BY <1>1, <1>2, <1>3, <1>4, OneWriter

LEMMA CommitKeeps ==
    ASSUME TypeOK, TypeOK', Log, Writers, NEW w \in Writer, Commit(w)
    PROVE  Log' /\ Writers' /\ LogMoves
<1> DEFINE r == writer[w]
           Keys == (r.base + 1)..(r.base + r.done)
<1>1. /\ r.pc = "insert" /\ r.done = r.count /\ events' = events \cup Inserted(w)
      /\ writer'[w] = WriterIdle /\ \A u \in Writer \ {w} : writer'[u] = writer[u]
      /\ nextXid' = nextXid /\ nextXid \in Nat
  BY DEF Commit, TypeOK
<1>2. /\ r.stream \in Stream /\ r.base \in Nat /\ r.xid \in Nat /\ r.done \in {1, 2}
      /\ r.base + r.done <= Full + 2 /\ Writing(r) /\ Fresh(r) /\ Backed(events, r.stream, r.base)
  BY <1>1 DEF Writers, Writing, Prepared, TypeOK, WriterState
<1>3. \A e \in events : e.stream \in Stream /\ e.version \in Nat \ {0} /\ e.xid \in Nat
  BY DEF TypeOK, Event
<1>4. \A e \in Inserted(w) : e.stream = r.stream /\ e.xid = r.xid /\ e.version \in Keys
  BY DEF Inserted
<1>5. ASSUME NEW k \in Keys PROVE \E e \in Inserted(w) : e.stream = r.stream /\ e.version = k
  <2>1. [stream |-> r.stream, version |-> k, xid |-> r.xid] \in Inserted(w)
    BY DEF Inserted
  <2> QED
    BY <2>1
<1>6. \A d, e \in Inserted(w) : d.version = e.version => d = e
  BY DEF Inserted
<1>7. \A d \in events, e \in Inserted(w) :
          /\ d.xid # e.xid
          /\ d.stream = e.stream => d.version \notin Keys /\ (d.version <= r.base => d.xid < e.xid)
  BY <1>1, <1>2, <1>4 DEF Fresh
<1>8. \A k \in Keys : k \in Nat /\ r.base < k /\ r.base + 1 <= k /\ k <= Full + 2
  BY <1>2
<1>9. Keys # {} /\ r.base + 1 \in Keys
  BY <1>2
<1>a. \A d \in events : d.stream = r.stream => d.version <= r.base
  <2>1. SUFFICES ASSUME NEW d \in events, d.stream = r.stream, r.base < d.version
                 PROVE  FALSE
    BY <1>2, <1>3
  <2>2. r.base + 1 \in 1..d.version
    BY <1>2, <1>3, <2>1
  <2>3. \E f \in events : f.stream = r.stream /\ f.version = r.base + 1
    BY <2>1, <2>2 DEF Log, Backed
  <2> QED
    BY <1>4, <1>5, <1>7, <1>9, <2>3
<1> HIDE DEF Keys
<1>b. LogOrder(events')
  <2>1. SUFFICES ASSUME NEW d \in events', NEW e \in events'
                 PROVE  /\ d.stream = e.stream /\ d.version = e.version => d = e
                        /\ d.xid = e.xid => d.stream = e.stream
                        /\ d.stream = e.stream /\ d.version < e.version => d.xid <= e.xid
    BY DEF LogOrder
  <2>2. CASE d \in events /\ e \in events
    BY <2>2 DEF Log, LogOrder
  <2>3. CASE d \in events /\ e \in Inserted(w)
    BY <1>2, <1>3, <1>4, <1>7, <1>a, <2>3
  <2>4. CASE d \in Inserted(w) /\ e \in events
    BY <1>2, <1>3, <1>4, <1>7, <1>8, <1>a, <2>4
  <2>5. CASE d \in Inserted(w) /\ e \in Inserted(w)
    BY <1>2, <1>4, <1>6, <2>5
  <2> QED
    BY <1>1, <2>1, <2>2, <2>3, <2>4, <2>5
<1>c. IsFiniteSet(events')
  <2> DEFINE Row(k) == [stream |-> r.stream, version |-> k, xid |-> r.xid]
  <2>1. Inserted(w) \subseteq {Row(r.base + 1), Row(r.base + 2)}
    BY <1>2 DEF Inserted
  <2>2. IsFiniteSet({Row(r.base + 1), Row(r.base + 2)})
    <3>1. IsFiniteSet({Row(r.base + 1)}) /\ IsFiniteSet({Row(r.base + 2)})
      BY FS_Singleton
    <3>2. IsFiniteSet({Row(r.base + 1)} \cup {Row(r.base + 2)})
      BY <3>1, FS_Union
    <3>3. {Row(r.base + 1), Row(r.base + 2)} = {Row(r.base + 1)} \cup {Row(r.base + 2)}
      OBVIOUS
    <3> QED
      BY <3>2, <3>3
  <2>3. IsFiniteSet(Inserted(w))
    BY <2>1, <2>2, FS_Subset
  <2> QED
    BY <1>1, <2>3, FS_Union DEF Log
<1>d. \A s \in Stream, n \in Nat : Backed(events, s, n) => Backed(events', s, n)
  BY <1>1 DEF Backed
<1>e. ASSUME NEW e \in events'
      PROVE  e.xid < nextXid' /\ e.version <= Full + 2 /\ Backed(events', e.stream, e.version)
  <2>1. CASE e \in events
    BY <1>1, <1>3, <1>d, <2>1 DEF Log
  <2>2. CASE e \in Inserted(w)
    <3>1. e.xid < nextXid' /\ e.version <= Full + 2 /\ e.stream = r.stream /\ e.version \in Keys
      BY <1>1, <1>2, <1>4, <1>8, <2>2 DEF Fresh
    <3>2. ASSUME NEW k \in 1..e.version
          PROVE  \E d \in events' : d.stream = r.stream /\ d.version = k
      <4>1. CASE k <= r.base
        BY <1>1, <1>2, <1>8, <3>1, <4>1 DEF Backed
      <4>2. CASE r.base < k
        <5>1. k \in Keys
          BY <1>2, <3>1, <4>2 DEF Keys
        <5> QED
          BY <1>1, <1>5, <5>1
      <4> QED
        BY <1>2, <1>8, <3>1, <4>1, <4>2
    <3> QED
      BY <3>1, <3>2 DEF Backed
  <2> QED
    BY <1>1, <2>1, <2>2
<1>f. Log'
  BY <1>b, <1>c, <1>e DEF Log
<1>g. ASSUME NEW u \in Writer \ {w} PROVE Writing(writer[u])'
  <2>1. /\ writer'[u] = writer[u] /\ Writing(writer[u]) /\ Apart(writer[u], r)
        /\ writer[u].base \in Nat /\ writer[u].done \in Nat /\ writer[u].stream \in Stream
    BY <1>1 DEF Writers, TypeOK, WriterState
  <2>2. Prepared(writer[u])'
    BY <1>d, <2>1 DEF Writing, Prepared
  <2>3. CASE writer[u].pc = "insert"
    <3>1. Backed(events, writer[u].stream, writer[u].base) /\ Fresh(writer[u])
      BY <2>1, <2>3 DEF Writing, Prepared
    <3>2. ASSUME NEW e \in Inserted(w)
          PROVE  /\ e.xid # writer[u].xid
                 /\ e.stream = writer[u].stream =>
                      /\ ~(e.version <= writer[u].base)
                      /\ e.version \notin (writer[u].base + 1)..(writer[u].base + writer[u].done)
      <4>1. e.xid # writer[u].xid
        BY <1>1, <1>4, <2>1, <2>3 DEF Apart
      <4>2. ASSUME e.stream = writer[u].stream, e.version <= writer[u].base PROVE FALSE
        <5>1. e.version \in 1..writer[u].base
          BY <1>2, <1>4, <1>8, <2>1, <4>2
        <5>2. \E d \in events : d.stream = e.stream /\ d.version = e.version
          BY <3>1, <4>2, <5>1 DEF Backed
        <5> QED
          BY <1>4, <1>7, <5>2
      <4>3. e.stream = writer[u].stream =>
                e.version \notin (writer[u].base + 1)..(writer[u].base + writer[u].done)
        BY <1>1, <1>4, <2>1, <2>3 DEF Apart, Keys
      <4> QED
        BY <4>1, <4>2, <4>3
    <3>3. Fresh(writer[u])'
      BY <1>1, <2>1, <3>1, <3>2 DEF Fresh
    <3> QED
      BY <2>1, <2>2, <2>3, <3>3 DEF Writing
  <2>4. CASE writer[u].pc # "insert"
    BY <2>1, <2>2, <2>4 DEF Writing, Fresh
  <2> QED
    BY <2>3, <2>4
<1>h. Writing(writer[w])'
  BY <1>1 DEF Writing, Prepared, Fresh, WriterIdle
<1>i. \A u, v \in Writer : u # v => Apart(writer'[u], writer'[v])
  BY <1>1 DEF Writers, Apart, WriterIdle
<1>j. Writers'
  BY <1>g, <1>h, <1>i DEF Writers
<1>k. LogMoves
  <2>1. \A n \in Nat : Settled(n) => Settled(n)'
    BY <1>1 DEF Settled, WriterIdle
  <2> QED
    BY <1>1, <1>4, <1>7, <2>1 DEF LogMoves
<1> QED
  BY <1>f, <1>j, <1>k
-----------------------------------------------------------------------------
(* Projectors and the rebuild *)

\* The batch is a beginning of what is to come.
LEMMA BatchIsBeginning ==
    ASSUME TypeOK, Log, NEW p \in Process
    PROVE  /\ Batch(p) \subseteq Finished(p)
           /\ \A e \in Batch(p), d \in Finished(p) : Before(d, e) => d \in Batch(p)
<1>1. Batch(p) \subseteq Finished(p)
  BY DEF Batch
<1>2. ASSUME NEW e \in Batch(p), NEW d \in Finished(p), Before(d, e)
      PROVE  d \in Batch(p)
  <2> DEFINE D == {c \in Finished(p) : Before(c, d)}
             E == {c \in Finished(p) : Before(c, e)}
  <2>1. D \subseteq E
    <3>1. \A c \in Finished(p) : c \in Event
      BY DEF Finished, TypeOK
    <3>2. e \in Event
      BY <3>1 DEF Batch
    <3>3. Start \in Cursor
      BY DEF Start, Cursor
    <3> QED
      BY <1>2, <3>1, <3>2, <3>3, BeforeIsOrder
  <2>2. IsFiniteSet(D) /\ IsFiniteSet(E)
    BY FS_Subset DEF Finished, Log
  <2>3. Cardinality(D) <= Cardinality(E) /\ Cardinality(D) \in Nat /\ Cardinality(E) \in Nat
    BY <2>1, <2>2, FS_Subset, FS_CardinalityType
  <2>4. Cardinality(E) < Limit
    BY DEF Batch
  <2>5. Cardinality(D) < Limit
    <3> HIDE DEF D, E
    <3> QED
      BY <2>3, <2>4
  <2> QED
    BY <2>5 DEF Batch
<1> QED
  BY <1>1, <1>2

\* The first event of a batch follows what its row shows.
LEMMA FirstApplies ==
    ASSUME TypeOK, Log, NEW p \in Process, Projecting(proc[p]),
           NEW e \in First(proc[p].batch)
    PROVE  Applies(p, e) /\ proc[p].rows[e.stream] < e.version
<1> DEFINE r == proc[p]
<1>1. r.pc = "applying" /\ e \in r.batch /\ Upcoming(r) /\ Shown(r.rows, r.at)
  BY DEF Projecting, First
<1>2. /\ e \in events /\ e \in Event /\ After(e, r.at) /\ e.xid < r.mark
      /\ r.at \in Cursor /\ r.rows \in Rows /\ r.mark \in Nat
  BY <1>1 DEF Upcoming, TypeOK, ProcState
<1>3. e.stream \in Stream /\ e.version \in Nat \ {0} /\ r.rows[e.stream] \in Nat
  BY <1>2 DEF Event, Rows
<1>4. r.rows[e.stream] < e.version
  BY <1>1, <1>2, <1>3 DEF Shown
<1>5. ASSUME r.rows[e.stream] + 1 < e.version PROVE FALSE
  <2>1. e.version - 1 \in 1..e.version /\ e.version - 1 \in Nat
    BY <1>3, <1>5
  <2>2. PICK d \in events : d.stream = e.stream /\ d.version = e.version - 1
    BY <1>2, <2>1 DEF Log, Backed
  <2>3. d \in Event /\ d.xid <= e.xid
    BY <1>2, <1>3, <2>2 DEF TypeOK, Log, LogOrder
  <2>4. Before(d, e)
    BY <1>2, <1>3, <2>2, <2>3 DEF Before, After, Position, Event
  <2>5. After(d, r.at)
    BY <1>1, <1>3, <1>5, <2>2 DEF Shown
  <2>6. d \in r.batch
    BY <1>1, <2>4, <2>5 DEF Upcoming
  <2>7. d = e \/ Before(e, d)
    BY <2>6 DEF First
  <2> QED
    BY <1>2, <1>3, <2>2, <2>3, <2>4, <2>7, BeforeIsOrder
<1> QED
  BY <1>3, <1>4, <1>5 DEF Applies
-----------------------------------------------------------------------------
(* Types *)

LEMMA Constants ==
    /\ WriterIdle \in WriterState
    /\ ProcIdle \in ProcState /\ Start \in Cursor /\ NoRows \in Rows
    /\ Shadow \in Process /\ "balances" \in Table /\ "balances_shadow" \in Table
<1>1. (CHOOSE s \in Stream : TRUE) \in Stream
  OBVIOUS
<1>2. WriterIdle \in WriterState
  BY <1>1 DEF WriterIdle, WriterState
<1>3. Start \in Cursor /\ NoRows \in Rows
  BY DEF Start, Cursor, NoRows, Rows
<1>4. ProcIdle \in ProcState
  BY <1>3 DEF ProcIdle, ProcState
<1> QED
  BY <1>2, <1>3, <1>4 DEF Process, Table

LEMMA TypesOfCommands ==
    ASSUME TypeOK, Log, Writers, NEW w \in Writer,
           \/ \E s \in Stream : Register(w, s) \/ Consume(w, s)
           \/ AppendEvents(w) \/ Rollback(w)
    PROVE  TypeOK'
<1>1. ASSUME NEW s \in Stream, NEW v \in Nat, NEW n \in Nat, Begin(w, s, v, n)
      PROVE  TypeOK'
  BY <1>1 DEF Begin, TypeOK, WriterState
<1>2. ASSUME NEW s \in Stream, Register(w, s) \/ Consume(w, s) PROVE TypeOK'
  BY <1>1, <1>2, VersionIsThere DEF Register, Consume
<1>3. CASE Draw(w)
  <2>1. writer[w] \in WriterState /\ nextXid \in Nat \ {0}
    BY DEF TypeOK
  <2>2. [writer[w] EXCEPT !.pc = "insert", !.xid = nextXid] \in WriterState
    BY <2>1 DEF WriterState
  <2> QED
    BY <1>3, <2>1, <2>2 DEF Draw, TypeOK
<1>4. CASE Insert(w)
  <2>1. [writer[w] EXCEPT !.done = @ + 1] \in WriterState
    BY DEF TypeOK, WriterState
  <2> QED
    BY <1>4, <2>1 DEF Insert, TypeOK
<1>5. CASE Conflict(w) \/ Rollback(w)
  BY <1>5, Constants DEF Conflict, Rollback, TypeOK
<1>6. CASE Commit(w)
  <2>1. writer[w] \in WriterState /\ writer[w].xid # 0
    BY <1>6 DEF Commit, TypeOK, WriterState, Writers, Writing, Fresh
  <2>2. Inserted(w) \subseteq Event
    BY <2>1 DEF Inserted, WriterState, Event
  <2> QED
    BY <1>6, <2>2, Constants DEF Commit, TypeOK
<1> QED
  BY <1>2, <1>3, <1>4, <1>5, <1>6 DEF AppendEvents

LEMMA TypesOfProjectors ==
    ASSUME TypeOK, Writers, Projectors, NEW p \in Process, ProjectBatchInto(p) \/ Fail(p)
    PROVE  TypeOK'
<1>0. proc[p] \in ProcState /\ TableOf(p) \in Table
  BY DEF TypeOK, TableOf, Table
<1>1. CASE TakeWatermark(p)
  <2>1. PICK n \in Open \cup {nextXid} :
            Watermark(n) /\ proc' = [proc EXCEPT ![p].pc = "marked", ![p].mark = n]
    BY <1>1 DEF TakeWatermark
  <2>2. n \in Nat
    BY <2>1, WatermarkIsSettled
  <2>3. [proc[p] EXCEPT !.pc = "marked", !.mark = n] \in ProcState
    BY <1>0, <2>2 DEF ProcState
  <2> QED
    BY <1>1, <2>1, <2>3 DEF TakeWatermark, TypeOK
<1>2. CASE LockCheckpoint(p)
  <2>1. [proc[p] EXCEPT !.pc = "locked", !.xid = nextXid, !.at = cursor[TableOf(p)],
                        !.rows = table[TableOf(p)]] \in ProcState
    BY <1>0 DEF ProcState, TypeOK
  <2> QED
    BY <1>2, <2>1 DEF LockCheckpoint, TypeOK
<1>3. CASE ReadBatch(p)
  <2>1. Batch(p) \subseteq Event
    BY DEF Batch, Finished, TypeOK
  <2>2. [proc[p] EXCEPT !.pc = "applying", !.batch = Batch(p)] \in ProcState
    BY <1>0, <2>1 DEF ProcState
  <2> QED
    BY <1>3, <2>2 DEF ReadBatch, TypeOK
<1>4. CASE NothingToDo(p)
  BY <1>4, Constants DEF NothingToDo, TypeOK
<1>5. CASE Apply(p)
  <2> DEFINE NewRows(e) == IF proc[p].rows[e.stream] >= e.version THEN proc[p].rows
                           ELSE [proc[p].rows EXCEPT ![e.stream] = e.version]
  <2>1. PICK e \in First(proc[p].batch) :
            proc' = [proc EXCEPT ![p].batch = @ \ {e}, ![p].at = Position(e),
                         ![p].rows = IF @[e.stream] >= e.version THEN @
                                     ELSE [@ EXCEPT ![e.stream] = e.version]]
    BY <1>5 DEF Apply
  <2>2. e \in Event
    BY <1>0, <2>1 DEF First, ProcState
  <2>3. Position(e) \in Cursor /\ NewRows(e) \in Rows
    BY <1>0, <2>2 DEF Position, Cursor, Event, ProcState, Rows
  <2>4. proc' = [proc EXCEPT ![p] = [proc[p] EXCEPT !.batch = @ \ {e}, !.at = Position(e),
                                                   !.rows = NewRows(e)]]
    BY <2>1 DEF TypeOK
  <2>5. [proc[p] EXCEPT !.batch = @ \ {e}, !.at = Position(e), !.rows = NewRows(e)] \in ProcState
    <3> HIDE DEF NewRows
    <3> QED
      BY <1>0, <2>3 DEF ProcState
  <2> QED
    BY <1>5, <2>4, <2>5 DEF Apply, TypeOK
<1>6. CASE CommitBatch(p)
  <2>1. proc[p].rows \in Rows /\ proc[p].at \in Cursor
    BY <1>0 DEF ProcState
  <2> QED
    BY <1>6, <2>1, Constants DEF CommitBatch, TypeOK
<1>7. CASE Fail(p)
  BY <1>7, Constants DEF Fail, Fault, TypeOK
<1> QED
  BY <1>1, <1>2, <1>3, <1>4, <1>5, <1>6, <1>7 DEF ProjectBatchInto

LEMMA TypesOfRebuild ==
    ASSUME TypeOK, StartRebuild \/ StopWriting \/ LeaveDrain \/ Swap \/ RebuildDies
    PROVE  TypeOK'
<1>1. CASE StartRebuild
  BY <1>1, Constants DEF StartRebuild, Fault, TypeOK
<1>2. CASE StopWriting
  BY <1>2 DEF StopWriting, TypeOK
<1>3. CASE LeaveDrain
  BY <1>3 DEF LeaveDrain, TypeOK
<1>4. CASE Swap
  BY <1>4, Constants DEF Swap, TypeOK
<1>5. CASE RebuildDies
  BY <1>5, Constants DEF RebuildDies, TypeOK
<1> QED
  BY <1>1, <1>2, <1>3, <1>4, <1>5
-----------------------------------------------------------------------------
(* The steps of a projector *)

LEMMA LogUntouched ==
    ASSUME TypeOK, Log, Writers, UNCHANGED <<nextXid, events, writer>>
    PROVE  Log' /\ Writers' /\ LogMoves /\ nextXid <= nextXid'
<1>1. Log'
  BY DEF Log
<1>2. Writers'
  BY DEF Writers, Writing, Prepared, Fresh
<1>3. LogMoves
  BY DEF LogMoves, Settled
<1> QED
  BY <1>1, <1>2, <1>3 DEF TypeOK

LEMMA TablesStay ==
    ASSUME TypeOK, TypeOK', LogMoves, Tables, UNCHANGED <<table, cursor>>,
           rebuild' # "none" => rebuild # "none"
    PROVE  Tables'
BY Constants, ShownStays DEF Tables, TypeOK

LEMMA OneProjector ==
    ASSUME TypeOK, TypeOK', LogMoves, nextXid <= nextXid', Projectors, NEW p \in Process,
           \A q \in Process \ {p} : proc'[q] = proc[q], Projecting(proc[p])'
    PROVE  Projectors'
BY ProjectingStays DEF Projectors, TypeOK

\* What the steps that leave a projector's table alone have in common.
LEMMA InBatch ==
    ASSUME IInv, TypeOK', NEW p \in Process,
           UNCHANGED <<nextXid, events, writer, table, cursor>>,
           \A q \in Process \ {p} : proc'[q] = proc[q], Projecting(proc[p])',
           rebuild' # "none" => rebuild # "none", ShadowRuns'
    PROVE  IInv'
<1>1. Log' /\ Writers' /\ LogMoves /\ nextXid <= nextXid'
  BY LogUntouched DEF IInv
<1>2. Tables'
  BY <1>1, TablesStay DEF IInv
<1>3. Projectors'
  BY <1>1, OneProjector DEF IInv
<1> QED
  BY <1>1, <1>2, <1>3 DEF IInv

LEMMA TakeWatermarkKeeps ==
    ASSUME IInv, TypeOK', NEW p \in Process, TakeWatermark(p)
    PROVE  IInv'
<1>1. PICK n \in Open \cup {nextXid} :
          Watermark(n) /\ proc' = [proc EXCEPT ![p].pc = "marked", ![p].mark = n]
  BY DEF TakeWatermark
<1>2. n \in Nat /\ Settled(n)
  BY <1>1, WatermarkIsSettled DEF IInv
<1>3. /\ UNCHANGED <<nextXid, events, writer, table, cursor, rebuild>>
      /\ proc[p].pc = "idle" /\ May(p)
      /\ proc'[p].pc = "marked" /\ proc'[p].mark = n /\ proc'[p].batch = proc[p].batch
      /\ \A q \in Process \ {p} : proc'[q] = proc[q]
  BY <1>1 DEF TakeWatermark, IInv, TypeOK, ProcState
<1>4. Settled(n)'
  BY <1>2, <1>3 DEF Settled
<1>5. Projecting(proc[p])'
  BY <1>3, <1>4 DEF Projecting, IInv, Projectors
<1>6. ShadowRuns'
  BY <1>3, Constants DEF ShadowRuns, May, IInv
<1> QED
  BY <1>3, <1>5, <1>6, InBatch

LEMMA LockCheckpointKeeps ==
    ASSUME IInv, TypeOK', NEW p \in Process, LockCheckpoint(p)
    PROVE  IInv'
<1>1. /\ UNCHANGED <<nextXid, events, writer, table, cursor, rebuild>>
      /\ proc[p].pc = "marked"
      /\ proc'[p].pc = "locked" /\ proc'[p].mark = proc[p].mark /\ proc'[p].xid = nextXid
      /\ proc'[p].batch = proc[p].batch
      /\ proc'[p].at = cursor[TableOf(p)] /\ proc'[p].rows = table[TableOf(p)]
      /\ \A q \in Process \ {p} : proc'[q] = proc[q]
  BY DEF LockCheckpoint, IInv, TypeOK, ProcState
<1>2. Projecting(proc[p])
  BY DEF IInv, Projectors
<1>3. Shown(table[TableOf(p)], cursor[TableOf(p)])
  BY <1>1 DEF TableOf, IInv, Tables, ShadowRuns
<1>4. Shown(proc[p].rows, proc[p].at)'
  BY <1>1, <1>3 DEF Shown, Settled
<1>5. Settled(proc[p].mark)'
  BY <1>1, <1>2 DEF Projecting, Settled
<1>6. Projecting(proc[p])'
  BY <1>1, <1>2, <1>4, <1>5 DEF Projecting, IInv, TypeOK
<1>7. ShadowRuns'
  BY <1>1, Constants DEF ShadowRuns, IInv
<1> QED
  BY <1>1, <1>6, <1>7, InBatch

LEMMA ReadBatchKeeps ==
    ASSUME IInv, TypeOK', NEW p \in Process, ReadBatch(p)
    PROVE  IInv'
<1>1. /\ UNCHANGED <<nextXid, events, writer, table, cursor, rebuild>>
      /\ proc[p].pc = "locked"
      /\ proc'[p].pc = "applying" /\ proc'[p].mark = proc[p].mark /\ proc'[p].xid = proc[p].xid
      /\ proc'[p].batch = Batch(p)
      /\ proc'[p].at = proc[p].at /\ proc'[p].rows = proc[p].rows
      /\ \A q \in Process \ {p} : proc'[q] = proc[q]
  BY DEF ReadBatch, IInv, TypeOK, ProcState
<1>2. Projecting(proc[p])
  BY DEF IInv, Projectors
<1>3. Upcoming(proc[p])'
  <2>1. /\ Batch(p) \subseteq Finished(p)
        /\ \A e \in Batch(p), d \in Finished(p) : Before(d, e) => d \in Batch(p)
    BY BatchIsBeginning DEF IInv
  <2>2. \A e \in Batch(p) : e \in events /\ After(e, proc[p].at) /\ e.xid < proc[p].mark
    BY <2>1 DEF Finished
  <2>3. ASSUME NEW e \in Batch(p), NEW d \in events, After(d, proc[p].at), Before(d, e)
        PROVE  d \in Batch(p)
    <3>1. d.xid < proc[p].mark
      <4>1. d \in Event /\ e \in Event /\ proc[p].mark \in Nat
        BY <2>2 DEF IInv, TypeOK, ProcState
      <4>2. d.xid <= e.xid
        BY <2>3, <4>1 DEF Before, After, Position, Event
      <4> QED
        BY <2>2, <4>1, <4>2 DEF Event
    <3> QED
      BY <2>1, <2>3, <3>1 DEF Finished
  <2> QED
    BY <1>1, <2>2, <2>3 DEF Upcoming
<1>4. Settled(proc[p].mark)' /\ Shown(proc[p].rows, proc[p].at)'
  BY <1>1, <1>2 DEF Projecting, Shown, Settled
<1>5. Projecting(proc[p])'
  BY <1>1, <1>2, <1>3, <1>4 DEF Projecting
<1>6. ShadowRuns'
  BY <1>1, Constants DEF ShadowRuns, IInv
<1> QED
  BY <1>1, <1>5, <1>6, InBatch

LEMMA NothingToDoKeeps ==
    ASSUME IInv, TypeOK', NEW p \in Process, NothingToDo(p) \/ Fail(p)
    PROVE  IInv'
<1>1. /\ UNCHANGED <<nextXid, events, writer, table, cursor>>
      /\ proc'[p] = ProcIdle /\ \A q \in Process \ {p} : proc'[q] = proc[q]
      /\ proc[p].pc # "idle"
      /\ rebuild' = rebuild \/ (p = Shadow /\ rebuild' = "empty")
  BY DEF NothingToDo, Fail, IInv, TypeOK
<1>2. Projecting(proc[p])'
  BY <1>1 DEF Projecting, ProcIdle
<1>3. ShadowRuns' /\ (rebuild' # "none" => rebuild # "none")
  BY <1>1, Constants DEF ShadowRuns, IInv, ProcIdle
<1> QED
  BY <1>1, <1>2, <1>3, InBatch

LEMMA ApplyKeeps ==
    ASSUME IInv, TypeOK', NEW p \in Process, Apply(p)
    PROVE  IInv'
<1> DEFINE r == proc[p]
<1>1. PICK e \in First(r.batch) :
          /\ r.pc = "applying"
          /\ proc' = [proc EXCEPT ![p].batch = @ \ {e}, ![p].at = Position(e),
                         ![p].rows = IF @[e.stream] >= e.version THEN @
                                     ELSE [@ EXCEPT ![e.stream] = e.version]]
          /\ UNCHANGED <<nextXid, events, writer, table, cursor, rebuild>>
  BY DEF Apply
<1>2. Projecting(r) /\ Upcoming(r) /\ Shown(r.rows, r.at) /\ r \in ProcState
  BY <1>1 DEF IInv, Projectors, Projecting, TypeOK
<1>3. e \in r.batch /\ e \in events /\ e \in Event /\ After(e, r.at) /\ e.xid < r.mark
      /\ r.batch \subseteq events
  BY <1>2 DEF First, Upcoming, IInv, TypeOK
<1>4. r.rows[e.stream] + 1 = e.version
  <2>1. Applies(p, e) /\ r.rows[e.stream] < e.version
    BY <1>2, FirstApplies DEF IInv
  <2>2. r.rows[e.stream] \in Nat /\ e.version \in Nat
    BY <1>2, <1>3 DEF ProcState, Rows, Event
  <2> QED
    BY <2>1, <2>2 DEF Applies
<1> DEFINE rows == [r.rows EXCEPT ![e.stream] = e.version]
<1>5. /\ proc'[p].pc = "applying" /\ proc'[p].mark = r.mark /\ proc'[p].xid = r.xid
      /\ proc'[p].batch = r.batch \ {e} /\ proc'[p].at = Position(e) /\ proc'[p].rows = rows
      /\ \A q \in Process \ {p} : proc'[q] = proc[q]
  <2>1. ~(r.rows[e.stream] >= e.version)
    BY <1>2, <1>3, <1>4 DEF ProcState, Rows, Event
  <2> QED
    BY <1>1, <2>1 DEF IInv, TypeOK, ProcState
<1>6. rows \in Rows /\ Position(e) \in Cursor /\ r.at \in Cursor /\ r.mark \in Nat
      /\ r.rows \in Rows
  BY <1>2, <1>3 DEF Rows, Position, Cursor, Event, ProcState
<1>7. ASSUME NEW f \in events
      PROVE  f.version <= rows[f.stream] <=> ~Before(e, f)
  <2>1. f \in Event /\ f.stream \in Stream /\ e.stream \in Stream /\ f.version \in Nat
        /\ e.version \in Nat /\ r.rows[f.stream] \in Nat
    BY <1>3, <1>6 DEF IInv, TypeOK, Event, Rows
  <2>2. rows[f.stream] = IF f.stream = e.stream THEN e.version ELSE r.rows[f.stream]
    BY <1>6, <2>1 DEF Rows
  <2>3. f.version <= r.rows[f.stream] <=> ~After(f, r.at)
    BY <1>2 DEF Shown
  <2>4. CASE f = e
    BY <1>3, <1>6, <2>1, <2>2, <2>4, BeforeIsOrder
  <2>5. CASE ~After(f, r.at)
    <3>1. f.version <= rows[f.stream]
      BY <1>4, <2>1, <2>2, <2>3, <2>5
    <3>2. ~Before(e, f)
      BY <1>3, <1>6, <2>1, <2>5, BeforeIsOrder
    <3> QED
      BY <3>1, <3>2
  <2>6. CASE f # e /\ After(f, r.at)
    <3>1. Before(e, f)
      <4>1. CASE Before(f, e)
        <5>1. f \in r.batch
          BY <1>2, <1>3, <2>6, <4>1 DEF Upcoming
        <5>2. f = e \/ Before(e, f)
          BY <5>1 DEF First
        <5> QED
          BY <2>6, <5>2
      <4>2. CASE ~Before(f, e)
        BY <1>3, <2>6, <4>2, LogIsTotal DEF IInv
      <4> QED
        BY <4>1, <4>2
    <3>2. r.rows[f.stream] < f.version
      BY <2>1, <2>3, <2>6
    <3>3. f.stream = e.stream => f.version # e.version
      BY <1>3, <2>6 DEF IInv, Log, LogOrder
    <3>4. ~(f.version <= rows[f.stream])
      BY <1>4, <2>1, <2>2, <3>2, <3>3
    <3> QED
      BY <3>1, <3>4
  <2> QED
    BY <2>4, <2>5, <2>6
<1>8. Shown(rows, Position(e))
  <2>1. Settled(Position(e).xid + 1)
    <3>1. Settled(r.mark) /\ Position(e).xid + 1 <= r.mark /\ Position(e).xid \in Nat
      BY <1>1, <1>2, <1>3, <1>6 DEF Projecting, Position, Event
    <3>2. nextXid \in Nat /\ \A w \in Writer : writer[w].xid \in Nat
      BY DEF IInv, TypeOK, WriterState
    <3> QED
      BY <1>6, <3>1, <3>2 DEF Settled
  <2>2. \A s \in Stream : Backed(events, s, rows[s])
    BY <1>2, <1>3, <1>6 DEF Shown, IInv, Log, Rows
  <2>3. \A f \in events : f.version <= rows[f.stream] <=> ~After(f, Position(e))
    BY <1>7 DEF Before
  <2> QED
    BY <2>1, <2>2, <2>3 DEF Shown
<1>9. Upcoming(proc[p])'
  <2>1. ASSUME NEW f \in r.batch \ {e}
        PROVE  f \in events /\ After(f, Position(e)) /\ f.xid < r.mark
    BY <1>2, <1>1, <2>1 DEF First, Before, Upcoming
  <2>2. ASSUME NEW f \in r.batch \ {e}, NEW d \in events, After(d, Position(e)), Before(d, f)
        PROVE  d \in r.batch \ {e}
    <3>1. d \in Event /\ f \in Event
      BY <1>3 DEF IInv, TypeOK
    <3>2. Before(e, d)
      BY <2>2 DEF Before
    <3>3. After(d, r.at) /\ d # e
      BY <1>3, <1>6, <3>1, <3>2, BeforeIsOrder
    <3> QED
      BY <1>2, <2>2, <3>3 DEF Upcoming
  <2> QED
    BY <1>1, <1>5, <2>1, <2>2 DEF Upcoming
<1>a. Settled(proc[p].mark)' /\ Shown(proc[p].rows, proc[p].at)'
  <2>1. Settled(r.mark)
    BY <1>1, <1>2 DEF Projecting
  <2> HIDE DEF rows
  <2> QED
    BY <1>1, <1>5, <1>8, <2>1 DEF Shown, Settled
<1>b. Projecting(proc[p])'
  BY <1>1, <1>2, <1>5, <1>9, <1>a DEF Projecting
<1>c. ShadowRuns'
  BY <1>1, <1>5, Constants DEF ShadowRuns, IInv
<1>d. rebuild' # "none" => rebuild # "none"
  BY <1>1
<1> QED
  BY <1>1, <1>5, <1>b, <1>c, <1>d, InBatch

LEMMA CommitBatchKeeps ==
    ASSUME IInv, TypeOK', NEW p \in Process, CommitBatch(p)
    PROVE  IInv'
<1>1. /\ UNCHANGED <<nextXid, events, writer, rebuild>> /\ proc[p].pc = "applying"
      /\ proc'[p] = ProcIdle /\ \A q \in Process \ {p} : proc'[q] = proc[q]
      /\ table' = [table EXCEPT ![TableOf(p)] = proc[p].rows]
      /\ cursor' = [cursor EXCEPT ![TableOf(p)] = proc[p].at]
  BY DEF CommitBatch, IInv, TypeOK
<1>2. Log' /\ Writers' /\ LogMoves /\ nextXid <= nextXid'
  BY <1>1, LogUntouched DEF IInv
<1>3. Shown(proc[p].rows, proc[p].at) /\ TableOf(p) \in Table
  BY <1>1 DEF IInv, Projectors, Projecting, TableOf, Table
<1>4. \A t \in Table : Shown(table[t], cursor[t]) \/ t = TableOf(p) => Shown(table'[t], cursor'[t])
  BY <1>1, <1>3 DEF IInv, TypeOK
<1>5. \A t \in Table : Shown(table'[t], cursor'[t]) => Shown(table[t], cursor[t])'
  BY <1>1 DEF Shown, Settled
<1>6. Tables'
  BY <1>1, <1>4, <1>5, Constants DEF IInv, Tables
<1>7. Projecting(proc[p])'
  BY <1>1 DEF Projecting, ProcIdle
<1>8. Projectors'
  BY <1>1, <1>2, <1>7, OneProjector DEF IInv
<1>9. ShadowRuns'
  BY <1>1, Constants DEF ShadowRuns, IInv, ProcIdle
<1> QED
  BY <1>2, <1>6, <1>8, <1>9 DEF IInv

LEMMA WriterKeeps ==
    ASSUME IInv, NEW w \in Writer,
           \/ \E s \in Stream : Register(w, s) \/ Consume(w, s)
           \/ AppendEvents(w) \/ Rollback(w)
    PROVE  IInv'
<1>1. TypeOK'
  BY TypesOfCommands DEF IInv
<1>2. Log' /\ Writers' /\ LogMoves
  BY <1>1, BeginKeeps, DrawKeeps, InsertKeeps, GiveUpKeeps, CommitKeeps DEF IInv, AppendEvents
<1>3. /\ UNCHANGED <<cursor, table, proc, rebuild>>
      /\ nextXid' = nextXid \/ nextXid' = nextXid + 1
  BY DEF AppendEvents, Register, Consume, Begin, Draw, Insert, Conflict, Commit, Rollback
<1>4. nextXid <= nextXid'
  BY <1>3 DEF IInv, TypeOK
<1>5. Tables'
  BY <1>1, <1>2, <1>3, TablesStay DEF IInv
<1>6. Projectors'
  BY <1>1, <1>2, <1>3, <1>4, ProjectingStays DEF IInv, Projectors, TypeOK
<1> QED
  BY <1>1, <1>2, <1>3, <1>5, <1>6 DEF IInv, ShadowRuns

LEMMA ProjectorKeeps ==
    ASSUME IInv, NEW p \in Process, ProjectBatchInto(p) \/ Fail(p)
    PROVE  IInv'
<1>1. TypeOK'
  BY TypesOfProjectors DEF IInv
<1> QED
  BY <1>1, TakeWatermarkKeeps, LockCheckpointKeeps, ReadBatchKeeps, NothingToDoKeeps,
     ApplyKeeps, CommitBatchKeeps DEF ProjectBatchInto

LEMMA RebuildKeeps ==
    ASSUME IInv, StartRebuild \/ StopWriting \/ LeaveDrain \/ Swap \/ RebuildDies
    PROVE  IInv'
<1>1. TypeOK'
  BY TypesOfRebuild DEF IInv
<1>2. UNCHANGED <<nextXid, events, writer>>
  BY DEF StartRebuild, StopWriting, LeaveDrain, Swap, RebuildDies
<1>3. Log' /\ Writers' /\ LogMoves /\ nextXid <= nextXid'
  BY <1>2, LogUntouched DEF IInv
<1>4. \A t \in Table : Shown(table'[t], cursor'[t]) => Shown(table[t], cursor[t])'
  BY <1>2 DEF Shown, Settled
<1>5. Projectors'
  <2>1. \A p \in Process : proc'[p] = proc[p] \/ proc'[p] = ProcIdle
    BY DEF StartRebuild, StopWriting, LeaveDrain, Swap, RebuildDies, IInv, TypeOK
  <2>2. Projecting(ProcIdle)
    BY DEF Projecting, ProcIdle
  <2>3. \A p \in Process : Projecting(proc'[p]) /\ proc'[p] \in ProcState
    BY <2>1, <2>2, Constants DEF IInv, Projectors, TypeOK
  <2>4. \A r \in ProcState : Projecting(r) => Projecting(r)'
    BY <1>1, <1>3, ProjectingStays DEF IInv
  <2> QED
    BY <1>1, <2>3, <2>4 DEF Projectors, Projecting, TypeOK
<1>6. Tables'
  <2>1. CASE StartRebuild
    <3>1. Shown(NoRows, Start)
      <4>1. Settled(1)
        BY DEF Settled, IInv, TypeOK, Writers, Writing, Fresh, WriterState
      <4>2. \A s \in Stream : Backed(events, s, NoRows[s])
        BY DEF Backed, NoRows
      <4>3. \A e \in events : e.version <= NoRows[e.stream] <=> ~After(e, Start)
        BY DEF IInv, TypeOK, Event, NoRows, After, Start
      <4> QED
        BY <4>1, <4>2, <4>3 DEF Shown, Start
    <3>2. /\ table'["balances"] = table["balances"] /\ cursor'["balances"] = cursor["balances"]
          /\ table'["balances_shadow"] = NoRows /\ cursor'["balances_shadow"] = Start
      BY <2>1, Constants DEF StartRebuild, IInv, TypeOK
    <3> QED
      BY <1>4, <3>1, <3>2, Constants DEF IInv, Tables
  <2>2. CASE Swap
    <3>1. /\ table'["balances"] = table["balances_shadow"]
          /\ cursor'["balances"] = cursor["balances_shadow"]
          /\ rebuild' = "none" /\ rebuild = "stop"
      BY <2>2, Constants DEF Swap, IInv, TypeOK
    <3> QED
      BY <1>4, <3>1, Constants DEF IInv, Tables
  <2>3. CASE StopWriting \/ LeaveDrain \/ RebuildDies
    BY <1>4, <2>3, Constants DEF StopWriting, LeaveDrain, RebuildDies, IInv, Tables
  <2> QED
    BY <2>1, <2>2, <2>3
<1>7. ShadowRuns'
  BY Constants DEF StartRebuild, StopWriting, LeaveDrain, Swap, RebuildDies, ShadowRuns, IInv,
                   TypeOK, ProcIdle
<1> QED
  BY <1>1, <1>3, <1>5, <1>6, <1>7 DEF IInv
-----------------------------------------------------------------------------
(* Theorems *)

LEMMA Initially == Init => IInv
<1> SUFFICES ASSUME Init PROVE IInv
  OBVIOUS
<1>1. TypeOK
  BY Constants DEF Init, TypeOK
<1>2. Log
  BY FS_EmptySet DEF Init, Log, LogOrder
<1>3. Writers
  BY DEF Init, Writers, Writing, Prepared, Fresh, Apart, WriterIdle
<1>4. Shown(NoRows, Start)
  BY DEF Init, Shown, Settled, WriterIdle, Start, NoRows, Backed
<1>5. Tables /\ Projectors /\ ShadowRuns
  BY <1>4, Constants DEF Init, Tables, Projectors, Projecting, ShadowRuns, ProcIdle
<1> QED
  BY <1>1, <1>2, <1>3, <1>5 DEF IInv

LEMMA Inductive == IInv /\ [Next]_vars => IInv'
<1> SUFFICES ASSUME IInv, [Next]_vars PROVE IInv'
  OBVIOUS
<1>1. CASE Next
  BY <1>1, WriterKeeps, ProjectorKeeps, RebuildKeeps DEF Next
<1>2. CASE UNCHANGED vars
  <2>1. TypeOK' /\ ShadowRuns'
    BY <1>2 DEF vars, IInv, TypeOK, ShadowRuns
  <2>2. Log' /\ Writers' /\ LogMoves /\ nextXid <= nextXid'
    BY <1>2, LogUntouched DEF vars, IInv
  <2>3. Tables'
    BY <1>2, <2>1, <2>2, TablesStay DEF vars, IInv
  <2>4. Projectors'
    BY <1>2, <2>1, <2>2, ProjectingStays DEF vars, IInv, Projectors, TypeOK
  <2> QED
    BY <2>1, <2>2, <2>3, <2>4 DEF IInv
<1> QED
  BY <1>1, <1>2

LEMMA Invariance == Spec => []IInv
BY Initially, Inductive, PTL DEF Spec

\* Rows, cursors and transactions keep their types.
THEOREM Typing == Spec => []TypeOK
<1>1. IInv => TypeOK
  BY DEF IInv
<1> QED
  BY <1>1, Invariance, PTL

\* Each table is the fold of the log up to its cursor, for any number of writers
\* and projectors, whenever transactions commit and whenever a rebuild swaps the
\* tables (AppendEvents, ProjectBatchInto, swapBlueGreen).
THEOREM TablesFollowTheLog == Spec => []ReadModelIsFold
<1>1. IInv => ReadModelIsFold
  <2> SUFFICES ASSUME IInv, NEW t \in IF rebuild = "none" THEN {"balances"} ELSE Table
               PROVE  /\ \A e \in events : e.version <= table[t][e.stream] <=> ~After(e, cursor[t])
                      /\ \A w \in Writer : writer[w].xid # 0 => writer[w].xid > cursor[t].xid
    BY DEF ReadModelIsFold
  <2>1. Shown(table[t], cursor[t]) /\ cursor[t].xid \in Nat
    BY DEF IInv, Tables, Table, TypeOK, Cursor
  <2>2. \A w \in Writer : writer[w].xid \in Nat /\ (writer[w].xid # 0 => writer[w].pc = "insert")
    BY DEF IInv, Writers, Writing, TypeOK, WriterState
  <2> QED
    BY <2>1, <2>2 DEF Shown, Settled
<1> QED
  BY <1>1, Invariance, PTL

\* The projector meets no gap between a row and the next event of its stream
\* (the guard of the UPDATE in ProjectBatchInto).
THEOREM ProjectorMeetsNoGap == Spec => []NoVersionGap
<1>1. IInv => NoVersionGap
  BY FirstApplies DEF IInv, Projectors, NoVersionGap
<1> QED
  BY <1>1, Invariance, PTL

\* Concurrent commands leave a history without gaps or repetitions in which no
\* tank is overdrawn (the primary key of events, Decide).
THEOREM HistoryIsSound == Spec => []StreamIsHistory
<1>1. IInv => StreamIsHistory
  <2> SUFFICES ASSUME IInv, NEW s \in Stream
               PROVE  /\ \A e \in InStream(s) : e.version <= Full + 2
                      /\ \A e \in InStream(s) : e.version > 1 =>
                             \E d \in InStream(s) : d.version + 1 = e.version
                      /\ \A d, e \in InStream(s) : d.version = e.version => d = e
    BY DEF StreamIsHistory
  <2>1. ASSUME NEW e \in InStream(s), e.version > 1
        PROVE  \E d \in InStream(s) : d.version + 1 = e.version
    <3>1. e \in events /\ e.version \in Nat /\ e.stream = s
      BY DEF InStream, IInv, TypeOK, Event
    <3>2. e.version - 1 \in 1..e.version
      BY <2>1, <3>1
    <3>3. PICK d \in events : d.stream = s /\ d.version = e.version - 1
      BY <3>1, <3>2 DEF IInv, Log, Backed
    <3> QED
      BY <3>1, <3>3 DEF InStream
  <2> QED
    BY <2>1 DEF InStream, IInv, Log, LogOrder
<1> QED
  BY <1>1, Invariance, PTL
=============================================================================
