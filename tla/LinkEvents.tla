----------------------------- MODULE LinkEvents -----------------------------
(***************************************************************************)
(* The way of an event through capstone/shortlinks.  The Go service writes *)
(* a link and its outbox row in one transaction; the relay of each replica *)
(* publishes the rows that are not marked, one by one, and marks them; the *)
(* broker drops a repeated Msg-Id while its window lasts, and delivers     *)
(* again what is not acknowledged in time; the Java consumers enter each   *)
(* event once into PostgreSQL and acknowledge after the commit.  Clicks    *)
(* come from ClickPublisher, whose loop hands each to the broker once.     *)
(*                                                                         *)
(* EVENT_MODE is outbox; "direct" is the variant that loses events.        *)
(***************************************************************************)
EXTENDS Naturals, FiniteSets

CONSTANTS Request,   \* calls of links.Service.Create
          Code,      \* the codes NewCode may draw
          Click,     \* the clicks, by their Msg-Id
          Relay,     \* one in each replica of the service
          Consumer,  \* the replicas of the analytics consumer
          None,
          Attempts,  \* Create: how many codes it tries
          Limit,     \* Run: rows of one batch
          MaxFaults  \* bound: how many steps fail

ASSUME LinkEventsAssumption ==
    /\ IsFiniteSet(Request)
    /\ None \notin Code
    /\ Click \cap Nat = {} /\ Click \cap Code = {}
    /\ Attempts \in Nat \ {0} /\ Limit \in Nat \ {0} /\ MaxFaults \in Nat

VARIABLES req,      \* where each request is in Create
          lastId,   \* the sequence of outbox.id
          links,    \* the codes in the table links
          outbox,   \* the code in each row of outbox; None: no such row
          marked,   \* the rows whose published_at is set
          relay,    \* where each relay is in OutboxBatch
          stream,   \* the messages stored: <<m, i>> is the i-th copy of m
          window,   \* the Msg-Ids the broker remembers
          acked,
          consumer, \* where each consumer is with its message
          seen,     \* the table seen_links
          counted,  \* the table processed_events
          clicks,   \* the sum of clicks_by_minute
          faults

dbVars == <<links, outbox, marked>>
brokerVars == <<stream, window, acked>>
analyticsVars == <<seen, counted, clicks>>
vars == <<req, lastId, dbVars, relay, brokerVars, consumer, analyticsVars, faults>>

Id == 1..Cardinality(Request)  \* a request draws at most one
Message == Id \cup Click
Copy == Message \X (Nat \ {0})

RequestState == [pc : {"new", "open", "done"}, code : Code \cup {None},
                 id : Id \cup {0}, tries : 0..(Attempts - 1)]

TypeOK ==
    /\ req \in [Request -> RequestState]
    /\ lastId \in Id \cup {0}
    /\ links \subseteq Code
    /\ outbox \in [Id -> Code \cup {None}]
    /\ marked \subseteq Id
    /\ relay \in [Relay -> [pc : {"idle", "publish", "mark"}, todo : SUBSET Id]]
    /\ stream \subseteq Copy /\ acked \subseteq stream
    /\ window \subseteq Message
    /\ consumer \in [Consumer -> [pc : {"idle", "got", "executed", "committed"},
                                  msg : stream \cup {None}, inserted : BOOLEAN]]
    /\ seen \subseteq Code /\ counted \subseteq Click /\ clicks \in Nat
    /\ faults \in 0..MaxFaults

ReqDone == [pc |-> "done", code |-> None, id |-> 0, tries |-> 0]
RelayIdle == [pc |-> "idle", todo |-> {}]
ConsumerIdle == [pc |-> "idle", msg |-> None, inserted |-> FALSE]

Init ==
    /\ req = [q \in Request |-> [pc |-> "new", code |-> None, id |-> 0, tries |-> 0]]
    /\ lastId = 0 /\ links = {} /\ outbox = [n \in Id |-> None] /\ marked = {}
    /\ relay = [r \in Relay |-> RelayIdle]
    /\ stream = {} /\ window = {} /\ acked = {}
    /\ consumer = [c \in Consumer |-> ConsumerIdle]
    /\ seen = {} /\ counted = {} /\ clicks = 0
    /\ faults = MaxFaults

Fault == faults > 0 /\ faults' = faults - 1
-----------------------------------------------------------------------------
(* Service.Create and Postgres.create *)

\* The INSERT of a code that another open transaction holds waits for it.
Held(code) == \E q \in Request : req[q].pc = "open" /\ req[q].code = code

\* 23505: the transaction is rolled back; after the last attempt the caller
\* gets ErrCodeTaken.
CodeTaken(q, code) ==
    /\ req[q].pc = "new" /\ ~Held(code) /\ code \in links
    /\ \/ req[q].tries + 1 = Attempts /\ req' = [req EXCEPT ![q] = ReqDone]
       \/ req[q].tries + 1 < Attempts /\ req' = [req EXCEPT ![q].tries = @ + 1]
    /\ UNCHANGED <<lastId, dbVars, relay, brokerVars, consumer, analyticsVars, faults>>

\* Both INSERTs of the transaction; the second draws the row's number.
Insert(q, code) ==
    /\ req[q].pc = "new" /\ ~Held(code) /\ code \notin links
    /\ lastId' = lastId + 1
    /\ req' = [req EXCEPT ![q].pc = "open", ![q].code = code, ![q].id = lastId']
    /\ UNCHANGED <<dbVars, relay, brokerVars, consumer, analyticsVars, faults>>

\* Link and row appear at once; whether the answer arrives changes nothing.
CommitCreate(q) ==
    /\ req[q].pc = "open"
    /\ links' = links \cup {req[q].code}
    /\ outbox' = [outbox EXCEPT ![req[q].id] = req[q].code]
    /\ req' = [req EXCEPT ![q] = ReqDone]
    /\ UNCHANGED <<lastId, marked, relay, brokerVars, consumer, analyticsVars, faults>>

\* A statement or the commit fails, or the process dies: all is rolled back.
FailCreate(q) ==
    /\ req[q].pc = "open" /\ Fault
    /\ req' = [req EXCEPT ![q] = ReqDone]
    /\ UNCHANGED <<lastId, dbVars, relay, brokerVars, consumer, analyticsVars>>
-----------------------------------------------------------------------------
(* The broker: JetStream stream SHORTLINKS, consumer "analytics" *)

Copies(m) == {d \in stream : d[1] = m}

\* The stream after a publication of m.
Stored(m) == IF m \in window THEN stream
             ELSE stream \cup {<<m, Cardinality(Copies(m)) + 1>>}

\* Publisher.publish of a click reaches the broker.
PublishClick(k) ==
    /\ Copies(k) = {}
    /\ stream' = Stored(k)
    /\ window' = window \cup {k}
    /\ UNCHANGED <<req, lastId, dbVars, relay, acked, consumer,
                   analyticsVars, faults>>
-----------------------------------------------------------------------------
(* Relay.Run and Postgres.OutboxBatch *)

\* Variant for a mutation check: WHERE id > the last id that is marked.
UnpublishedAfterLast ==
    {n \in Id : outbox[n] # None /\ \A k \in marked : n > k}

Unpublished == {n \in Id : outbox[n] # None} \ marked

\* ORDER BY id LIMIT Limit.
Batch == {n \in Unpublished : Cardinality({k \in Unpublished : k < n}) < Limit}

Goto(r, l, todo) ==
    relay' = [relay EXCEPT ![r] = IF todo = {} THEN RelayIdle
                                  ELSE [pc |-> l, todo |-> todo]]

\* The duplicate window of a row's message is over; it matters while the row may
\* be published again.
Forget(n) ==
    /\ n \in window
    /\ n \in Unpublished \/ \E r \in Relay : n \in relay[r].todo
    /\ window' = window \ {n}
    /\ UNCHANGED <<req, lastId, dbVars, relay, stream, acked, consumer,
                   analyticsVars, faults>>

SelectBatch(r) ==
    /\ relay[r].pc = "idle" /\ Batch # {}
    /\ Goto(r, "publish", Batch)
    /\ UNCHANGED <<req, lastId, dbVars, brokerVars, consumer, analyticsVars, faults>>

First(todo) == {n \in todo : \A k \in todo : n <= k}

PublishRow(r) == \E n \in First(relay[r].todo) :
    /\ relay[r].pc = "publish"
    /\ stream' = Stored(n)
    /\ window' = window \cup {n}
    /\ Goto(r, "mark", relay[r].todo)
    /\ UNCHANGED <<req, lastId, dbVars, acked, consumer, analyticsVars, faults>>

MarkRow(r) == \E n \in First(relay[r].todo) :
    /\ relay[r].pc = "mark"
    /\ marked' = marked \cup {n}
    /\ Goto(r, "publish", relay[r].todo \ {n})
    /\ UNCHANGED <<req, lastId, links, outbox, brokerVars, consumer, analyticsVars, faults>>

\* The publication or the UPDATE reports an error, having had its effect or
\* not, or the process dies: the rest of the batch is left to the next tick.
RelayFails(r) == \E n \in First(relay[r].todo) :
    /\ relay[r].pc # "idle" /\ Fault
    /\ \/ UNCHANGED <<stream, window, marked>>
       \/ /\ relay[r].pc = "publish"
          /\ stream' = Stored(n) /\ window' = window \cup {n}
          /\ UNCHANGED marked
       \/ /\ relay[r].pc = "mark"
          /\ marked' = marked \cup {n}
          /\ UNCHANGED <<stream, window>>
    /\ Goto(r, "idle", {})
    /\ UNCHANGED <<req, lastId, links, outbox, acked, consumer, analyticsVars>>
-----------------------------------------------------------------------------
(* The consumer's callback and its method handle *)

\* What is not acknowledged is delivered, and delivered again when ACK_WAIT has
\* passed or the delay of a nak, to any consumer, the last one still at it.
Deliver(c, d) ==
    /\ consumer[c].pc = "idle"
    /\ d \in stream \ acked
    /\ consumer' = [consumer EXCEPT ![c] = [pc |-> "got", msg |-> d, inserted |-> FALSE]]
    /\ UNCHANGED <<req, lastId, dbVars, relay, brokerVars, analyticsVars, faults>>

IsLink(m) == m \in Id

\* The key of a message's INSERT ... ON CONFLICT DO NOTHING and its table.
Key(m) == IF IsLink(m) THEN outbox[m] ELSE m
Entered(m) == IF IsLink(m) THEN outbox[m] \in seen ELSE m \in counted

\* Another transaction has inserted the key and is open: the INSERT waits.
Waits(c) ==
    \E d \in Consumer \ {c} :
        /\ consumer[d].pc = "executed" /\ consumer[d].inserted
        /\ Key(consumer[d].msg[1]) = Key(consumer[c].msg[1])

\* Variant for a mutation check: SELECT first, and INSERT what was not found.
ExecuteUnlocked(c) ==
    /\ consumer[c].pc = "got"
    /\ consumer' = [consumer EXCEPT ![c] = [pc |-> "executed", msg |-> @.msg,
                                            inserted |-> ~Entered(@.msg[1])]]
    /\ UNCHANGED <<req, lastId, dbVars, relay, brokerVars, analyticsVars, faults>>

\* The statements of the transaction; inserted is executeUpdate() == 1.
Execute(c) ==
    /\ consumer[c].pc = "got" /\ ~Waits(c)
    /\ consumer' = [consumer EXCEPT ![c] = [pc |-> "executed", msg |-> @.msg,
                                            inserted |-> ~Entered(@.msg[1])]]
    /\ UNCHANGED <<req, lastId, dbVars, relay, brokerVars, analyticsVars, faults>>

\* What the commit makes visible.
Effect(c) ==
    LET m == consumer[c].msg[1] IN
    IF ~consumer[c].inserted THEN UNCHANGED analyticsVars
    ELSE IF IsLink(m) THEN seen' = seen \cup {outbox[m]} /\ UNCHANGED <<counted, clicks>>
    ELSE counted' = counted \cup {m} /\ clicks' = clicks + 1 /\ UNCHANGED seen

Commit(c) ==
    /\ consumer[c].pc = "executed"
    /\ Effect(c)
    /\ consumer' = [consumer EXCEPT ![c].pc = "committed"]
    /\ UNCHANGED <<req, lastId, dbVars, relay, brokerVars, faults>>

\* Variant for a mutation check: m.ack() comes before handle.
AckFirst(c) ==
    /\ consumer[c].pc \in {"got", "committed"}
    /\ acked' = acked \cup {consumer[c].msg}
    /\ consumer' = [consumer EXCEPT ![c] = IF @.pc = "got" THEN @ ELSE ConsumerIdle]
    /\ UNCHANGED <<req, lastId, dbVars, relay, stream, window, analyticsVars, faults>>

Ack(c) ==
    /\ consumer[c].pc = "committed"
    /\ acked' = acked \cup {consumer[c].msg}
    /\ consumer' = [consumer EXCEPT ![c] = ConsumerIdle]
    /\ UNCHANGED <<req, lastId, dbVars, relay, stream, window, analyticsVars, faults>>

\* handle or ack throws, and nakWithDelay asks for the message again, or the
\* process halts; a commit under way may have happened.  The rest is rolled back.
HandleFails(c) ==
    /\ consumer[c].pc # "idle" /\ Fault
    /\ \/ UNCHANGED analyticsVars
       \/ consumer[c].pc = "executed" /\ Effect(c)
    /\ consumer' = [consumer EXCEPT ![c] = ConsumerIdle]
    /\ UNCHANGED <<req, lastId, dbVars, relay, brokerVars>>
-----------------------------------------------------------------------------
OutboxBatch(r) == SelectBatch(r) \/ PublishRow(r) \/ MarkRow(r)
handle(c) == Execute(c) \/ Commit(c) \/ Ack(c)
Consume(c) == handle(c) \/ \E d \in stream : Deliver(c, d)

Next ==
    \/ \E q \in Request :
         \/ \E code \in Code : CodeTaken(q, code) \/ Insert(q, code)
         \/ CommitCreate(q) \/ FailCreate(q)
    \/ \E r \in Relay : OutboxBatch(r) \/ RelayFails(r)
    \/ \E k \in Click : PublishClick(k)
    \/ \E n \in Id : Forget(n)
    \/ \E c \in Consumer : Consume(c) \/ HandleFails(c)

Spec == Init /\ [][Next]_vars

\* Run ticks for ever, the consumers pull for ever, ACK_WAIT passes (main.go,
\* 102; Main.java, 83).
FairSpec ==
    /\ Spec
    /\ \A r \in Relay : WF_vars(OutboxBatch(r))
    /\ \A c \in Consumer : WF_vars(Consume(c))
-----------------------------------------------------------------------------
(* Properties *)

\* However often relays, broker and consumers repeat themselves, the aggregate
\* is the number of different clicks that were entered (consumer, handle).
CountedOnce == clicks = Cardinality(counted)

\* The message m waits in the stream.
InStream(m) == \E d \in stream \ acked : d[1] = m

\* Nothing is lost on the way: a link that exists is seen, or a copy of its
\* message waits, or its row waits for a relay; a click the broker has taken
\* is counted or waits.  (Row and link in one transaction, mark after
\* publication, acknowledgement after commit.)
NothingVanishes ==
    /\ \A code \in links \ seen :
         \E n \in Id : outbox[n] = code /\ (n \notin marked \/ InStream(n))
    /\ \A d \in stream : d[1] \in Click \ counted => InStream(d[1])

\* To its clients the whole of it is AnalyticsPromise: links and clicks are
\* taken in once each and none is left out.
Promise == INSTANCE AnalyticsPromise WITH published <- {d[1] : d \in stream} \cap Click
PromiseSpec == Promise!Spec
=============================================================================
