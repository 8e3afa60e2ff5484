-------------------------- MODULE ShortlinksProofs --------------------------
(***************************************************************************)
(* Proofs about the two models of capstone/shortlinks: LinkEvents, for any *)
(* number of requests, codes, clicks, relays, consumers and faults;        *)
(* ClickPublisher, for any number of handlers and clicks and any capacity  *)
(* of the channel.                                                         *)
(***************************************************************************)
EXTENDS LinkEvents, ClickPublisher, FiniteSetTheorems, TLAPS

(* The events of links and clicks *)

\* The message m has been stored.
IsStored(m) == \E d \in stream : d[1] = m

Finite == IsFiniteSet(stream) /\ IsFiniteSet(counted)

\* Each number is drawn by a request of its own.
Drawn == lastId <= Cardinality({q \in Request : req[q].pc # "new"})

\* An open transaction holds a code and a number that no table and no other
\* open transaction has.
OpenRequests ==
    \A q \in Request : req[q].pc = "open" =>
        /\ req[q].code \in Code \ links
        /\ req[q].id \in Id /\ req[q].id <= lastId /\ outbox[req[q].id] = None
        /\ \A p \in Request \ {q} : req[p].pc = "open" =>
               req[p].code # req[q].code /\ req[p].id # req[q].id

FreshRows == \A n \in Id : n > lastId => outbox[n] = None

\* Rows and links come in pairs.
RowsAndLinks ==
    /\ \A n \in Id : outbox[n] # None => outbox[n] \in links
    /\ \A code \in links : \E n \in Id : outbox[n] = code

RelayRows ==
    \A r \in Relay : \A n \in relay[r].todo :
        /\ outbox[n] # None
        /\ relay[r].pc = "mark" /\ n \in First(relay[r].todo) => IsStored(n)

\* What is marked, or remembered by the broker, was published; what was
\* published has its row.
StreamRows ==
    /\ \A n \in marked : IsStored(n)
    /\ \A m \in window : IsStored(m)
    /\ \A n \in Id : IsStored(n) => outbox[n] # None

\* What executeUpdate() told a consumer stays true until it commits, and what is
\* acknowledged was entered.
Knows(c) ==
    /\ consumer[c].pc # "idle" => consumer[c].msg \in stream
    /\ consumer[c].pc = "executed" =>
         (consumer[c].inserted <=> ~Entered(consumer[c].msg[1]))
    /\ consumer[c].pc = "committed" => Entered(consumer[c].msg[1])

ConsumerKnows ==
    /\ \A c \in Consumer : Knows(c)
    /\ \A d \in acked : Entered(d[1])

Inserting(c) == consumer[c].pc = "executed" /\ consumer[c].inserted

\* No two open transactions have inserted the same key.
OneInsert ==
    \A c, d \in Consumer : c # d /\ Inserting(c) /\ Inserting(d) =>
        Key(consumer[c].msg[1]) # Key(consumer[d].msg[1])

IInv == /\ TypeOK /\ Finite /\ Drawn /\ OpenRequests /\ FreshRows /\ RowsAndLinks
        /\ RelayRows /\ StreamRows /\ ConsumerKnows /\ OneInsert /\ CountedOnce
-----------------------------------------------------------------------------
(* What a step keeps by leaving it alone *)

LEMMA KeepsTables ==
    ASSUME Drawn, OpenRequests, FreshRows, RowsAndLinks,
           UNCHANGED <<req, lastId, links, outbox>>
    PROVE  Drawn' /\ OpenRequests' /\ FreshRows' /\ RowsAndLinks'
<1>1. Drawn'
  BY DEF Drawn
<1>2. OpenRequests'
  BY DEF OpenRequests
<1>3. FreshRows' /\ RowsAndLinks'
  BY DEF FreshRows, RowsAndLinks
<1> QED
  BY <1>1, <1>2, <1>3

LEMMA KeepsRelays ==
    ASSUME RelayRows, UNCHANGED <<relay, outbox>>, stream \subseteq stream'
    PROVE  RelayRows'
BY DEF RelayRows, IsStored, First

LEMMA KeepsConsumers ==
    ASSUME ConsumerKnows, OneInsert, stream \subseteq stream',
           UNCHANGED <<consumer, acked, seen, counted, outbox>>
    PROVE  ConsumerKnows' /\ OneInsert'
<1>1. ConsumerKnows'
  BY DEF ConsumerKnows, Knows, Entered, IsLink
<1>2. OneInsert'
  BY DEF OneInsert, Inserting, Key, IsLink
<1> QED
  BY <1>1, <1>2

\* The next number is free.
LEMMA NumberLeft ==
    ASSUME TypeOK, Drawn, NEW q \in Request, req[q].pc = "new"
    PROVE  lastId + 1 \in Id
<1> DEFINE D == {p \in Request : req[p].pc # "new"}
<1>1. IsFiniteSet(Request) /\ IsFiniteSet(D)
  BY LinkEventsAssumption, FS_Subset DEF LinkEventsAssumption
<1>2. D \subseteq Request \ {q}
  OBVIOUS
<1>3. IsFiniteSet(Request \ {q}) /\ Cardinality(Request \ {q}) = Cardinality(Request) - 1
  BY <1>1, FS_RemoveElement
<1>4. Cardinality(D) <= Cardinality(Request \ {q})
  BY <1>2, <1>3, FS_Subset
<1>5. Cardinality(D) \in Nat /\ Cardinality(Request) \in Nat
  BY <1>1, FS_CardinalityType
<1>6. lastId <= Cardinality(D)
  BY DEF Drawn
<1>7. lastId \in Nat
  BY <1>5 DEF TypeOK, Id
<1> HIDE DEF D
<1> QED
  BY <1>3, <1>4, <1>5, <1>6, <1>7 DEF Id

\* The number of requests that have drawn does not fall when none becomes new.
LEMMA DrawnGrows ==
    ASSUME TypeOK, NEW q \in Request, NEW v, v.pc # "new",
           req' = [req EXCEPT ![q] = v]
    PROVE  LET D == {p \in Request : req[p].pc # "new"} IN
           /\ Cardinality(D') \in Nat /\ Cardinality(D) \in Nat
           /\ Cardinality(D) <= Cardinality(D')
           /\ req[q].pc = "new" => Cardinality(D') = Cardinality(D) + 1
<1> DEFINE D == {p \in Request : req[p].pc # "new"}
           E == {p \in Request : req'[p].pc # "new"}
<1>1. IsFiniteSet(D) /\ IsFiniteSet(E)
  BY LinkEventsAssumption, FS_Subset DEF LinkEventsAssumption
<1>2. E = D \cup {q}
  BY DEF TypeOK
<1>3. Cardinality(E) \in Nat /\ Cardinality(D) \in Nat
  BY <1>1, FS_CardinalityType
<1>4. req[q].pc = "new" => q \notin D
  OBVIOUS
<1>5. Cardinality(E) = IF q \in D THEN Cardinality(D) ELSE Cardinality(D) + 1
  <2> HIDE DEF D, E
  <2> QED
    BY <1>1, <1>2, FS_AddElement
<1>6. /\ Cardinality(D) <= Cardinality(E)
      /\ req[q].pc = "new" => Cardinality(E) = Cardinality(D) + 1
  <2> HIDE DEF D, E
  <2> QED
    BY <1>3, <1>4, <1>5
<1> QED
  BY <1>3, <1>6
-----------------------------------------------------------------------------
(* Requests *)

LEMMA Opened ==
    ASSUME NEW q \in Request, NEW f \in [Request -> RequestState],
           NEW code \in Code, NEW i \in Id
    PROVE  [f EXCEPT ![q].pc = "open", ![q].code = code, ![q].id = i]
              \in [Request -> RequestState]
BY DEF RequestState

\* An action of a request that leaves the tables alone keeps what is said of
\* relays, broker and consumers.
LEMMA KeepsDownstream ==
    ASSUME IInv, UNCHANGED <<links, outbox, marked, relay, brokerVars, consumer, analyticsVars>>
    PROVE  /\ Finite' /\ RowsAndLinks' /\ RelayRows' /\ StreamRows' /\ ConsumerKnows'
           /\ OneInsert' /\ CountedOnce'
<1>1. Finite' /\ RowsAndLinks' /\ CountedOnce' /\ StreamRows'
  BY DEF IInv, Finite, RowsAndLinks, CountedOnce, StreamRows, IsStored, brokerVars, analyticsVars
<1>2. RelayRows' /\ ConsumerKnows' /\ OneInsert'
  BY KeepsRelays, KeepsConsumers DEF IInv, brokerVars, analyticsVars
<1> QED
  BY <1>1, <1>2

LEMMA CodeTakenStep ==
    ASSUME IInv, NEW q \in Request, NEW code \in Code, CodeTaken(q, code)
    PROVE  IInv'
<1> USE DEF dbVars, brokerVars, analyticsVars
<1>2. PICK v \in RequestState : req' = [req EXCEPT ![q] = v] /\ v.pc \in {"new", "done"}
  <2>1. req[q] \in RequestState /\ req[q].pc = "new"
    BY DEF IInv, TypeOK, CodeTaken
  <2>2. CASE req[q].tries + 1 = Attempts
    <3>1. ReqDone \in RequestState /\ ReqDone.pc = "done"
      BY LinkEventsAssumption DEF ReqDone, RequestState, LinkEventsAssumption
    <3>2. req' = [req EXCEPT ![q] = ReqDone]
      BY <2>1, <2>2, LinkEventsAssumption DEF CodeTaken, RequestState, LinkEventsAssumption
    <3> QED
      BY <3>1, <3>2
  <2>3. CASE req[q].tries + 1 # Attempts
    <3>1. req[q].tries + 1 \in 0..(Attempts - 1)
      BY <2>1, <2>3, LinkEventsAssumption DEF RequestState, LinkEventsAssumption
    <3>2. req' = [req EXCEPT ![q].tries = req[q].tries + 1]
      BY <2>3 DEF CodeTaken
    <3> DEFINE v == [pc |-> req[q].pc, code |-> req[q].code, id |-> req[q].id,
                     tries |-> req[q].tries + 1]
    <3>3. v \in RequestState /\ v.pc = "new"
      BY <2>1, <3>1 DEF RequestState
    <3>4. [req[q] EXCEPT !.tries = req[q].tries + 1] = v
      BY <2>1 DEF RequestState
    <3>5. req' = [req EXCEPT ![q] = v]
      BY <3>2, <3>4
    <3> QED
      BY <3>3, <3>5
  <2> QED
    BY <2>2, <2>3
<1>1. TypeOK'
  BY <1>2 DEF IInv, TypeOK, CodeTaken
<1>3. Drawn'
  <2>1. req[q].pc = "new"
    BY DEF CodeTaken
  <2>2. CASE v.pc = "done"
    <3>1. Cardinality({p \in Request : req[p].pc # "new"})
            <= Cardinality({p \in Request : req'[p].pc # "new"})
      BY <1>2, <2>2, DrawnGrows DEF IInv
    <3>2. /\ Cardinality({p \in Request : req[p].pc # "new"}) \in Nat
          /\ Cardinality({p \in Request : req'[p].pc # "new"}) \in Nat
      BY <1>2, <2>2, DrawnGrows DEF IInv
    <3>3. lastId' = lastId /\ lastId \in Nat
      BY LinkEventsAssumption, FS_CardinalityType
         DEF CodeTaken, IInv, TypeOK, Id, LinkEventsAssumption
    <3>4. lastId <= Cardinality({p \in Request : req[p].pc # "new"})
      BY DEF IInv, Drawn
    <3> QED
      BY <3>1, <3>2, <3>3, <3>4 DEF Drawn
  <2>3. CASE v.pc = "new"
    <3>1. {p \in Request : req'[p].pc # "new"} = {p \in Request : req[p].pc # "new"}
      BY <1>2, <2>1, <2>3 DEF IInv, TypeOK
    <3> QED
      BY <3>1 DEF CodeTaken, IInv, Drawn
  <2> QED
    BY <1>2, <2>2, <2>3
<1>4. OpenRequests' /\ FreshRows'
  BY <1>2 DEF CodeTaken, IInv, TypeOK, OpenRequests, FreshRows
<1>5. /\ Finite' /\ RowsAndLinks' /\ RelayRows' /\ StreamRows' /\ ConsumerKnows'
      /\ OneInsert' /\ CountedOnce'
  BY KeepsDownstream DEF CodeTaken
<1> QED
  BY <1>1, <1>3, <1>4, <1>5 DEF IInv

LEMMA InsertStep ==
    ASSUME IInv, NEW q \in Request, NEW code \in Code, Insert(q, code)
    PROVE  IInv'
<1> USE DEF dbVars, brokerVars, analyticsVars
<1>1. lastId + 1 \in Id /\ lastId \in Nat
  <2>1. lastId + 1 \in Id
    BY NumberLeft DEF IInv, Insert
  <2> QED
    BY <2>1 DEF IInv, TypeOK, Id
<1>2. /\ lastId' = lastId + 1
      /\ req'[q].pc = "open" /\ req'[q].code = code /\ req'[q].id = lastId + 1
      /\ \A p \in Request \ {q} : req'[p] = req[p]
      /\ req[q].pc = "new" /\ UNCHANGED <<outbox, links>>
  BY DEF Insert, IInv, TypeOK
<1>3. TypeOK'
  <2>1. req' \in [Request -> RequestState]
    <3>1. req' = [req EXCEPT ![q].pc = "open", ![q].code = code, ![q].id = lastId + 1]
      BY DEF Insert
    <3> QED
      BY <1>1, <3>1, Opened DEF IInv, TypeOK
  <2> QED
    BY <1>1, <2>1 DEF IInv, TypeOK, Insert
<1>4. Drawn'
  <2>1. PICK v : v.pc # "new" /\ req' = [req EXCEPT ![q] = v]
    BY <1>2, <1>3 DEF IInv, TypeOK
  <2>2. /\ Cardinality({p \in Request : req[p].pc # "new"}) \in Nat
        /\ Cardinality({p \in Request : req'[p].pc # "new"})
             = Cardinality({p \in Request : req[p].pc # "new"}) + 1
    BY <1>2, <2>1, DrawnGrows DEF IInv
  <2>3. lastId <= Cardinality({p \in Request : req[p].pc # "new"})
    BY DEF IInv, Drawn
  <2> QED
    BY <1>1, <1>2, <2>2, <2>3 DEF Drawn
<1>5. OpenRequests'
  <2> SUFFICES ASSUME NEW p \in Request, req'[p].pc = "open"
               PROVE  /\ req'[p].code \in Code \ links'
                      /\ req'[p].id \in Id /\ req'[p].id <= lastId' /\ outbox'[req'[p].id] = None
                      /\ \A u \in Request \ {p} : req'[u].pc = "open" =>
                           req'[u].code # req'[p].code /\ req'[u].id # req'[p].id
    BY DEF OpenRequests
  <2>1. \A u \in Request \ {q} : req[u].pc = "open" =>
          /\ req[u].code \in Code \ links /\ req[u].code # code
          /\ req[u].id \in Id /\ req[u].id <= lastId /\ req[u].id < lastId + 1
          /\ outbox[req[u].id] = None
    BY <1>1 DEF IInv, OpenRequests, Insert, Held, Id
  <2>2. code \notin links /\ outbox[lastId + 1] = None
    BY <1>1 DEF Insert, IInv, FreshRows
  <2>3. CASE p = q
    BY <1>1, <1>2, <2>1, <2>2, <2>3
  <2>4. CASE p # q
    BY <1>1, <1>2, <2>1, <2>2, <2>4 DEF IInv, OpenRequests, Id
  <2> QED
    BY <2>3, <2>4
<1>6. FreshRows'
  BY <1>1, <1>2 DEF IInv, FreshRows, Id
<1>7. /\ Finite' /\ RowsAndLinks' /\ RelayRows' /\ StreamRows' /\ ConsumerKnows'
      /\ OneInsert' /\ CountedOnce'
  BY KeepsDownstream DEF Insert
<1> QED
  BY <1>3, <1>4, <1>5, <1>6, <1>7 DEF IInv

\* A request that is done has drawn what it will draw.
LEMMA DoneDrawn ==
    ASSUME TypeOK, Drawn, NEW q \in Request, req' = [req EXCEPT ![q] = ReqDone],
           lastId' = lastId
    PROVE  Drawn' /\ req' \in [Request -> RequestState]
<1>1. ReqDone \in RequestState /\ ReqDone.pc # "new"
  BY LinkEventsAssumption DEF ReqDone, RequestState, LinkEventsAssumption
<1>2. /\ Cardinality({p \in Request : req[p].pc # "new"}) \in Nat
      /\ Cardinality({p \in Request : req'[p].pc # "new"}) \in Nat
      /\ Cardinality({p \in Request : req[p].pc # "new"})
           <= Cardinality({p \in Request : req'[p].pc # "new"})
  BY <1>1, DrawnGrows
<1>3. lastId <= Cardinality({p \in Request : req[p].pc # "new"})
  BY DEF Drawn
<1>4. lastId \in Nat
  BY LinkEventsAssumption, FS_CardinalityType DEF TypeOK, Id, LinkEventsAssumption
<1> QED
  BY <1>1, <1>2, <1>3, <1>4 DEF Drawn, TypeOK

LEMMA CommitCreateStep ==
    ASSUME IInv, NEW q \in Request, CommitCreate(q)
    PROVE  IInv'
<1> USE DEF brokerVars, analyticsVars
<1> DEFINE n == req[q].id
           code == req[q].code
<1>1. /\ n \in Id /\ n <= lastId /\ outbox[n] = None
      /\ code \in Code \ links /\ code # None
      /\ \A p \in Request \ {q} : req[p].pc = "open" => req[p].code # code /\ req[p].id # n
  BY LinkEventsAssumption DEF IInv, OpenRequests, CommitCreate, LinkEventsAssumption
<1>2. /\ links' = links \cup {code} /\ outbox' = [outbox EXCEPT ![n] = code]
      /\ lastId' = lastId /\ req' = [req EXCEPT ![q] = ReqDone]
      /\ UNCHANGED <<marked, relay, stream, window, acked, consumer, seen, counted, clicks, faults>>
  BY DEF CommitCreate
<1>3. /\ outbox'[n] = code
      /\ \A k \in Id : k # n => outbox'[k] = outbox[k]
      /\ \A k \in Id : outbox[k] # None => k # n /\ outbox'[k] = outbox[k]
      /\ \A p \in Request : req'[p].pc = "open" => p # q /\ req'[p] = req[p]
  BY <1>1, <1>2 DEF IInv, TypeOK, ReqDone
<1> HIDE DEF n, code
<1>4. TypeOK' /\ Drawn'
  <2>1. Drawn' /\ req' \in [Request -> RequestState]
    BY <1>2, DoneDrawn DEF IInv
  <2> QED
    BY <1>1, <1>2, <2>1 DEF IInv, TypeOK
<1>5. OpenRequests'
  BY <1>1, <1>2, <1>3 DEF IInv, OpenRequests
<1>6. FreshRows'
  <2>1. \A k \in Id : k > lastId => k # n
    BY <1>1 DEF Id, IInv, TypeOK
  <2> QED
    BY <1>2, <1>3, <2>1 DEF IInv, FreshRows
<1>7. RowsAndLinks'
  <2>1. \A k \in Id : outbox'[k] # None => outbox'[k] \in links'
    <3> SUFFICES ASSUME NEW k \in Id, outbox'[k] # None PROVE outbox'[k] \in links'
      OBVIOUS
    <3>1. CASE k = n
      BY <1>2, <1>3, <3>1
    <3>2. CASE k # n
      BY <1>2, <1>3, <3>2 DEF IInv, RowsAndLinks
    <3> QED
      BY <3>1, <3>2
  <2>2. ASSUME NEW e \in links' PROVE \E k \in Id : outbox'[k] = e
    <3>1. CASE e = code
      BY <1>1, <1>3, <3>1
    <3>2. CASE e \in links
      <4>1. PICK k \in Id : outbox[k] = e
        BY <3>2 DEF IInv, RowsAndLinks
      <4>2. e # None
        BY <3>2, LinkEventsAssumption DEF IInv, TypeOK, LinkEventsAssumption
      <4> QED
        BY <1>3, <4>1, <4>2
    <3> QED
      BY <1>2, <2>2, <3>1, <3>2
  <2> QED
    BY <2>1, <2>2 DEF RowsAndLinks
<1>8. RelayRows'
  <2>1. \A r \in Relay : relay[r].todo \subseteq Id
    BY DEF IInv, TypeOK
  <2> QED
    BY <1>2, <1>3, <2>1 DEF IInv, RelayRows, IsStored, First
<1>9. StreamRows'
  BY <1>2, <1>3 DEF IInv, StreamRows, IsStored
<1>10. \A d \in stream : /\ Entered(d[1])' <=> Entered(d[1])
                         /\ Key(d[1])' = Key(d[1])
  <2> SUFFICES ASSUME NEW d \in stream
               PROVE  (Entered(d[1])' <=> Entered(d[1])) /\ Key(d[1])' = Key(d[1])
    OBVIOUS
  <2>1. CASE d[1] \in Id
    <3>1. outbox'[d[1]] = outbox[d[1]]
      BY <1>3, <2>1 DEF IInv, StreamRows, IsStored
    <3> QED
      BY <1>2, <2>1, <3>1 DEF Entered, Key, IsLink
  <2>2. CASE d[1] \notin Id
    BY <1>2, <2>2 DEF Entered, Key, IsLink
  <2> QED
    BY <2>1, <2>2
<1>11. ConsumerKnows'
  <2>1. acked \subseteq stream
    BY DEF IInv, TypeOK
  <2> QED
    BY <1>2, <1>10, <2>1 DEF IInv, ConsumerKnows, Knows
<1>12. OneInsert'
  <2>1. \A c \in Consumer : Inserting(c) => consumer[c].msg \in stream
    BY DEF IInv, ConsumerKnows, Knows, Inserting
  <2>2. \A c \in Consumer : Inserting(c)' <=> Inserting(c)
    BY <1>2 DEF Inserting
  <2> QED
    BY <1>2, <1>10, <2>1, <2>2 DEF IInv, OneInsert
<1>13. Finite' /\ CountedOnce'
  BY <1>2 DEF IInv, Finite, CountedOnce
<1> QED
  BY <1>4, <1>5, <1>6, <1>7, <1>8, <1>9, <1>11, <1>12, <1>13 DEF IInv

LEMMA FailCreateStep ==
    ASSUME IInv, NEW q \in Request, FailCreate(q)
    PROVE  IInv'
<1> USE DEF dbVars, brokerVars, analyticsVars
<1>1. /\ req' = [req EXCEPT ![q] = ReqDone] /\ lastId' = lastId
      /\ UNCHANGED <<links, outbox>>
  BY DEF FailCreate
<1>2. Drawn' /\ req' \in [Request -> RequestState]
  BY <1>1, DoneDrawn DEF IInv
<1>3. faults' \in 0..MaxFaults
  BY LinkEventsAssumption DEF IInv, TypeOK, FailCreate, Fault, LinkEventsAssumption
<1>4. TypeOK'
  BY <1>2, <1>3 DEF IInv, TypeOK, FailCreate
<1>5. \A p \in Request : req'[p].pc = "open" => p # q /\ req'[p] = req[p]
  BY <1>1 DEF IInv, TypeOK, ReqDone
<1>6. OpenRequests' /\ FreshRows'
  BY <1>1, <1>5 DEF IInv, OpenRequests, FreshRows
<1>7. /\ Finite' /\ RowsAndLinks' /\ RelayRows' /\ StreamRows' /\ ConsumerKnows'
      /\ OneInsert' /\ CountedOnce'
  BY KeepsDownstream DEF FailCreate
<1> QED
  BY <1>2, <1>4, <1>6, <1>7 DEF IInv
-----------------------------------------------------------------------------
(* Broker and relays *)

\* A publication adds one copy at most, and then there is one.
LEMMA Publication ==
    ASSUME IInv, NEW m \in Message
    PROVE  /\ stream \subseteq Stored(m) /\ Stored(m) \subseteq Copy
           /\ IsFiniteSet(Stored(m))
           /\ \E d \in Stored(m) : d[1] = m
           /\ \A d \in Stored(m) : d \in stream \/ d[1] = m
<1>1. stream \subseteq Copy /\ IsFiniteSet(stream)
  BY DEF IInv, TypeOK, Finite
<1>2. CASE m \in window
  BY <1>1, <1>2 DEF Stored, IInv, StreamRows, IsStored
<1>3. CASE m \notin window
  <2> DEFINE new == <<m, Cardinality(Copies(m)) + 1>>
  <2>1. Cardinality(Copies(m)) \in Nat
    BY <1>1, FS_Subset, FS_CardinalityType DEF Copies
  <2>2. new \in Copy /\ new[1] = m
    BY <2>1 DEF Copy
  <2>3. Stored(m) = stream \cup {new}
    BY <1>3 DEF Stored
  <2> HIDE DEF new
  <2>4. IsFiniteSet(stream \cup {new})
    BY <1>1, FS_AddElement
  <2> QED
    BY <1>1, <2>2, <2>3, <2>4
<1> QED
  BY <1>2, <1>3

\* The part of the invariant that a publication of m touches.
LEMMA KeepsPublished ==
    ASSUME IInv, NEW m \in Message, m \in Id => outbox[m] # None,
           stream' = Stored(m), window' = window \cup {m},
           UNCHANGED <<outbox, marked, consumer, acked, seen, counted, clicks>>
    PROVE  /\ stream \subseteq stream' /\ Finite' /\ StreamRows' /\ ConsumerKnows'
           /\ OneInsert' /\ CountedOnce'
<1>1. /\ stream \subseteq stream' /\ IsFiniteSet(stream')
      /\ \E d \in stream' : d[1] = m
      /\ \A d \in stream' : d \in stream \/ d[1] = m
  BY Publication
<1>2. Finite' /\ CountedOnce'
  BY <1>1 DEF IInv, Finite, CountedOnce
<1>3. StreamRows'
  BY <1>1 DEF IInv, StreamRows, IsStored
<1>4. ConsumerKnows' /\ OneInsert'
  BY <1>1, KeepsConsumers DEF IInv
<1> QED
  BY <1>1, <1>2, <1>3, <1>4

LEMMA PublishClickStep ==
    ASSUME IInv, NEW k \in Click, PublishClick(k)
    PROVE  IInv'
<1> USE DEF dbVars, analyticsVars
<1>1. k \in Message /\ k \notin Id
  BY LinkEventsAssumption DEF Message, Id, LinkEventsAssumption
<1>2. /\ stream \subseteq stream' /\ Finite' /\ StreamRows' /\ ConsumerKnows'
      /\ OneInsert' /\ CountedOnce'
  BY <1>1, KeepsPublished DEF PublishClick
<1>3. TypeOK'
  <2>1. stream' \subseteq Copy /\ stream \subseteq stream'
    BY <1>1, Publication DEF PublishClick
  <2>2. window' \subseteq Message
    BY <1>1 DEF PublishClick, IInv, TypeOK
  <2> QED
    BY <2>1, <2>2 DEF PublishClick, IInv, TypeOK
<1>4. Drawn' /\ OpenRequests' /\ FreshRows' /\ RowsAndLinks'
  BY KeepsTables DEF PublishClick, IInv
<1>5. RelayRows'
  BY <1>2, KeepsRelays DEF PublishClick, IInv
<1> QED
  BY <1>2, <1>3, <1>4, <1>5 DEF IInv

LEMMA ForgetStep ==
    ASSUME IInv, NEW n \in Id, Forget(n)
    PROVE  IInv'
<1> USE DEF dbVars, analyticsVars
<1>1. TypeOK'
  BY DEF IInv, TypeOK, Forget
<1>2. Drawn' /\ OpenRequests' /\ FreshRows' /\ RowsAndLinks'
  BY KeepsTables DEF Forget, IInv
<1>3. RelayRows' /\ ConsumerKnows' /\ OneInsert'
  BY KeepsRelays, KeepsConsumers DEF Forget, IInv
<1>4. Finite' /\ StreamRows' /\ CountedOnce'
  BY DEF Forget, IInv, Finite, StreamRows, IsStored, CountedOnce
<1> QED
  BY <1>1, <1>2, <1>3, <1>4 DEF IInv

LEMMA RelayGoes ==
    ASSUME TypeOK, NEW r \in Relay, NEW l \in {"idle", "publish", "mark"},
           NEW todo \in SUBSET Id, Goto(r, l, todo)
    PROVE  /\ relay' \in [Relay -> [pc : {"idle", "publish", "mark"}, todo : SUBSET Id]]
           /\ relay'[r].todo = todo /\ (todo # {} => relay'[r].pc = l)
           /\ \A p \in Relay \ {r} : relay'[p] = relay[p]
<1>1. CASE todo = {}
  BY <1>1 DEF Goto, RelayIdle, TypeOK
<1>2. CASE todo # {}
  BY <1>2 DEF Goto, TypeOK
<1> QED
  BY <1>1, <1>2

\* The relay r goes on with rows that exist; what it is about to mark is in the
\* stream.
LEMMA KeepsRelayRows ==
    ASSUME IInv, NEW r \in Relay, NEW l \in {"idle", "publish", "mark"},
           NEW todo \in SUBSET Id, Goto(r, l, todo), stream \subseteq stream',
           outbox' = outbox, \A n \in todo : outbox[n] # None,
           l = "mark" => \A n \in First(todo) : IsStored(n)'
    PROVE  RelayRows'
<1>1. /\ relay'[r].todo = todo /\ (todo # {} => relay'[r].pc = l)
      /\ \A p \in Relay \ {r} : relay'[p] = relay[p]
  BY RelayGoes DEF IInv
<1> SUFFICES ASSUME NEW p \in Relay, NEW n \in relay'[p].todo
             PROVE  /\ outbox'[n] # None
                    /\ relay'[p].pc = "mark" /\ n \in First(relay'[p].todo) => IsStored(n)'
  BY DEF RelayRows, First
<1>2. CASE p = r
  BY <1>1, <1>2
<1>3. CASE p # r
  BY <1>1, <1>3 DEF IInv, RelayRows, IsStored
<1> QED
  BY <1>2, <1>3

LEMMA SelectBatchStep ==
    ASSUME IInv, NEW r \in Relay, SelectBatch(r)
    PROVE  IInv'
<1> USE DEF dbVars, brokerVars, analyticsVars
<1>1. Batch \in SUBSET Id /\ \A n \in Batch : outbox[n] # None
  BY DEF Batch, Unpublished
<1>2. TypeOK'
  <2>1. relay' \in [Relay -> [pc : {"idle", "publish", "mark"}, todo : SUBSET Id]]
    BY <1>1, RelayGoes DEF IInv, SelectBatch
  <2> QED
    BY <2>1 DEF IInv, TypeOK, SelectBatch
<1>3. Drawn' /\ OpenRequests' /\ FreshRows' /\ RowsAndLinks'
  BY KeepsTables DEF SelectBatch, IInv
<1>4. RelayRows'
  BY <1>1, KeepsRelayRows DEF SelectBatch
<1>5. ConsumerKnows' /\ OneInsert'
  BY KeepsConsumers DEF SelectBatch, IInv
<1>6. Finite' /\ StreamRows' /\ CountedOnce'
  BY DEF SelectBatch, IInv, Finite, StreamRows, IsStored, CountedOnce
<1> QED
  BY <1>2, <1>3, <1>4, <1>5, <1>6 DEF IInv

LEMMA PublishRowStep ==
    ASSUME IInv, NEW r \in Relay, PublishRow(r)
    PROVE  IInv'
<1> USE DEF dbVars, analyticsVars
<1>1. PICK n \in First(relay[r].todo) :
        /\ stream' = Stored(n) /\ window' = window \cup {n}
        /\ Goto(r, "mark", relay[r].todo)
  BY DEF PublishRow
<1>2. UNCHANGED <<req, lastId, dbVars, acked, consumer, analyticsVars, faults>>
  BY DEF PublishRow
<1>3. relay[r].todo \in SUBSET Id /\ \A k \in relay[r].todo : k \in Id /\ outbox[k] # None
  BY DEF IInv, TypeOK, RelayRows
<1>4. n \in relay[r].todo /\ n \in Id /\ n \in Message
  BY <1>3 DEF First, Message
<1>5. /\ stream \subseteq stream' /\ Finite' /\ StreamRows' /\ ConsumerKnows'
      /\ OneInsert' /\ CountedOnce'
  BY <1>1, <1>2, <1>3, <1>4, KeepsPublished
<1>6. TypeOK'
  <2>1. stream' \subseteq Copy
    BY <1>1, <1>4, Publication
  <2>2. relay' \in [Relay -> [pc : {"idle", "publish", "mark"}, todo : SUBSET Id]]
    BY <1>1, <1>3, RelayGoes DEF IInv
  <2>3. window' \subseteq Message
    BY <1>1, <1>4 DEF IInv, TypeOK
  <2> QED
    BY <1>2, <1>5, <2>1, <2>2, <2>3 DEF IInv, TypeOK
<1>7. Drawn' /\ OpenRequests' /\ FreshRows' /\ RowsAndLinks'
  BY <1>2, KeepsTables DEF IInv
<1>8. RelayRows'
  <2>1. IsStored(n)'
    BY <1>1, <1>4, Publication DEF IsStored
  <2>2. \A k \in First(relay[r].todo) : k = n
    BY <1>1, <1>3 DEF First, Id
  <2> QED
    BY <1>1, <1>2, <1>3, <1>5, <2>1, <2>2, KeepsRelayRows
<1> QED
  BY <1>5, <1>6, <1>7, <1>8 DEF IInv

LEMMA MarkRowStep ==
    ASSUME IInv, NEW r \in Relay, MarkRow(r)
    PROVE  IInv'
<1> USE DEF brokerVars, analyticsVars
<1>1. PICK n \in First(relay[r].todo) :
        /\ marked' = marked \cup {n} /\ Goto(r, "publish", relay[r].todo \ {n})
  BY DEF MarkRow
<1>2. relay[r].pc = "mark"
      /\ UNCHANGED <<req, lastId, links, outbox, brokerVars, consumer, analyticsVars, faults>>
  BY DEF MarkRow
<1>3. /\ relay[r].todo \in SUBSET Id /\ \A k \in relay[r].todo : k \in Id /\ outbox[k] # None
      /\ IsStored(n) /\ n \in Id
  BY <1>1, <1>2 DEF IInv, TypeOK, RelayRows, First
<1>4. TypeOK'
  <2>1. relay' \in [Relay -> [pc : {"idle", "publish", "mark"}, todo : SUBSET Id]]
    BY <1>1, <1>3, RelayGoes DEF IInv
  <2> QED
    BY <1>1, <1>2, <1>3, <2>1 DEF IInv, TypeOK
<1>5. Drawn' /\ OpenRequests' /\ FreshRows' /\ RowsAndLinks'
  BY <1>2, KeepsTables DEF IInv
<1>6. RelayRows'
  BY <1>1, <1>2, <1>3, KeepsRelayRows
<1>7. StreamRows'
  BY <1>1, <1>2, <1>3 DEF IInv, StreamRows, IsStored
<1>8. ConsumerKnows' /\ OneInsert' /\ Finite' /\ CountedOnce'
  BY <1>2, KeepsConsumers DEF IInv, Finite, CountedOnce
<1> QED
  BY <1>4, <1>5, <1>6, <1>7, <1>8 DEF IInv

LEMMA RelayFailsStep ==
    ASSUME IInv, NEW r \in Relay, RelayFails(r)
    PROVE  IInv'
<1> USE DEF analyticsVars
<1>1. PICK n \in First(relay[r].todo) :
        \/ UNCHANGED <<stream, window, marked>>
        \/ stream' = Stored(n) /\ window' = window \cup {n} /\ UNCHANGED marked
        \/ relay[r].pc = "mark" /\ marked' = marked \cup {n} /\ UNCHANGED <<stream, window>>
  BY DEF RelayFails
<1>2. /\ Goto(r, "idle", {})
      /\ UNCHANGED <<req, lastId, links, outbox, acked, consumer, analyticsVars>>
  BY DEF RelayFails
<1>3. n \in relay[r].todo /\ n \in Id /\ n \in Message /\ outbox[n] # None
      /\ (relay[r].pc = "mark" => IsStored(n))
  BY DEF IInv, TypeOK, RelayRows, First, Message
<1>4. /\ stream \subseteq stream' /\ Finite' /\ StreamRows' /\ ConsumerKnows'
      /\ OneInsert' /\ CountedOnce' /\ stream' \subseteq Copy
      /\ window' \subseteq Message /\ marked' \subseteq Id
  <2>1. CASE UNCHANGED <<stream, window, marked>>
    BY <1>2, <2>1, KeepsConsumers
       DEF IInv, TypeOK, Finite, StreamRows, IsStored, CountedOnce
  <2>2. CASE stream' = Stored(n) /\ window' = window \cup {n} /\ UNCHANGED marked
    BY <1>2, <1>3, <2>2, KeepsPublished, Publication DEF IInv, TypeOK
  <2>3. CASE /\ relay[r].pc = "mark" /\ marked' = marked \cup {n}
             /\ UNCHANGED <<stream, window>>
    <3>1. StreamRows'
      BY <1>2, <1>3, <2>3 DEF IInv, StreamRows, IsStored
    <3> QED
      BY <1>2, <1>3, <2>3, <3>1, KeepsConsumers DEF IInv, TypeOK, Finite, CountedOnce
  <2> QED
    BY <1>1, <2>1, <2>2, <2>3
<1>5. TypeOK'
  <2>1. relay' \in [Relay -> [pc : {"idle", "publish", "mark"}, todo : SUBSET Id]]
    BY <1>2, RelayGoes DEF IInv
  <2>2. faults' \in 0..MaxFaults
    BY LinkEventsAssumption DEF IInv, TypeOK, RelayFails, Fault, LinkEventsAssumption
  <2> QED
    BY <1>2, <1>4, <2>1, <2>2 DEF IInv, TypeOK
<1>6. Drawn' /\ OpenRequests' /\ FreshRows' /\ RowsAndLinks'
  BY <1>2, KeepsTables DEF IInv
<1>7. RelayRows'
  BY <1>2, <1>4, KeepsRelayRows
<1> QED
  BY <1>4, <1>5, <1>6, <1>7 DEF IInv
-----------------------------------------------------------------------------
(* Consumers *)

ConsumerStates == [pc : {"idle", "got", "executed", "committed"},
                   msg : stream \cup {None}, inserted : BOOLEAN]

\* What is said of consumers follows from what each of them knows.
LEMMA KnowingConsumers ==
    ASSUME IInv, NEW c \in Consumer, \A d \in Consumer \ {c} : consumer'[d] = consumer[d],
           UNCHANGED <<stream, outbox>>,
           \A m \in Message : Entered(m) => Entered(m)',
           \A m \in Message : Entered(m)' =>
               Entered(m) \/ (Inserting(c) /\ Key(m) = Key(consumer[c].msg[1])),
           \A d \in acked' \ acked : Entered(d[1])',
           Knows(c)'
    PROVE  ConsumerKnows'
<1>1. \A d \in stream : d[1] \in Message
  BY DEF IInv, TypeOK, Copy
<1>2. \A d \in Consumer : consumer[d].inserted \in BOOLEAN
  BY DEF IInv, TypeOK
<1>3. ASSUME NEW d \in Consumer \ {c} PROVE Knows(d)'
  <2>1. Knows(d)
    BY DEF IInv, ConsumerKnows
  <2>2. consumer'[d] = consumer[d] /\ stream' = stream
    OBVIOUS
  <2>3. consumer[d].pc # "idle" => consumer[d].msg[1] \in Message
    BY <1>1, <2>1 DEF Knows
  <2> USE DEF Knows
  <2>4. CASE consumer[d].pc = "executed" /\ consumer[d].inserted
    <3> DEFINE k == consumer[d].msg[1]
    <3>1. ~Entered(k) /\ k \in Message
      BY <2>1, <2>3, <2>4
    <3>2. Inserting(c) => Key(k) # Key(consumer[c].msg[1])
      BY <2>4 DEF IInv, OneInsert, Inserting
    <3>3. ASSUME NEW m \in Message, m = k PROVE ~Entered(m)'
      BY <3>1, <3>2, <3>3
    <3>4. (~Entered(consumer[d].msg[1]))'
      BY <2>2, <3>1, <3>3 DEF Entered, IsLink
    <3> QED
      BY <2>1, <2>2, <2>4, <3>4
  <2>5. CASE consumer[d].pc = "executed" /\ ~consumer[d].inserted
    BY <2>1, <2>2, <2>3, <2>5
  <2>6. CASE consumer[d].pc # "executed"
    BY <2>1, <2>2, <2>3, <2>6
  <2> QED
    BY <2>4, <2>5, <2>6
<1>4. ASSUME NEW d \in acked' PROVE Entered(d[1])'
  BY <1>1 DEF IInv, TypeOK, ConsumerKnows
<1> QED
  BY <1>3, <1>4 DEF ConsumerKnows

\* Two transactions have inserted the same key only if c is one of them.
LEMMA InsertingConsumers ==
    ASSUME IInv, NEW c \in Consumer, \A d \in Consumer \ {c} : consumer'[d] = consumer[d],
           outbox' = outbox,
           \A d \in Consumer \ {c} : Inserting(c)' /\ Inserting(d) =>
               Key(consumer[d].msg[1]) # Key(consumer'[c].msg[1])
    PROVE  OneInsert'
<1>1. \A m : Key(m)' = Key(m)
  BY DEF Key, IsLink
<1>2. \A d \in Consumer \ {c} : Inserting(d)' <=> Inserting(d)
  BY DEF Inserting
<1> QED
  BY <1>1, <1>2 DEF IInv, OneInsert

\* A step of a consumer leaves the tables, the relays and the broker's window
\* alone.
LEMMA KeepsUpstream ==
    ASSUME IInv, UNCHANGED <<req, lastId, dbVars, relay, stream, window>>
    PROVE  /\ Drawn' /\ OpenRequests' /\ FreshRows' /\ RowsAndLinks'
           /\ RelayRows' /\ StreamRows' /\ IsFiniteSet(stream')
<1>1. Drawn' /\ OpenRequests' /\ FreshRows' /\ RowsAndLinks'
  BY KeepsTables DEF IInv, dbVars
<1>2. RelayRows'
  BY KeepsRelays DEF IInv, dbVars
<1>3. StreamRows' /\ IsFiniteSet(stream')
  BY DEF IInv, StreamRows, IsStored, Finite, dbVars
<1> QED
  BY <1>1, <1>2, <1>3

LEMMA DeliverStep ==
    ASSUME IInv, NEW c \in Consumer, NEW d \in stream, Deliver(c, d)
    PROVE  IInv'
<1> USE DEF brokerVars, analyticsVars
<1>1. /\ consumer'[c] = [pc |-> "got", msg |-> d, inserted |-> FALSE]
      /\ \A p \in Consumer \ {c} : consumer'[p] = consumer[p]
      /\ consumer' \in [Consumer -> ConsumerStates]
  BY DEF Deliver, IInv, TypeOK, ConsumerStates
<1>2. TypeOK'
  <2>1. UNCHANGED <<req, lastId, dbVars, relay, brokerVars, analyticsVars, faults>>
    BY DEF Deliver
  <2> QED
    BY <1>1, <2>1 DEF IInv, TypeOK, ConsumerStates, dbVars
<1>3. \A m : Entered(m)' <=> Entered(m)
  BY DEF Deliver, dbVars, Entered, IsLink
<1>5. ConsumerKnows'
  <2>1. Knows(c)'
    BY <1>1 DEF Knows, Deliver
  <2> QED
    BY <1>1, <1>3, <2>1, KnowingConsumers DEF Deliver, dbVars
<1>6. OneInsert'
  BY <1>1, InsertingConsumers DEF Deliver, dbVars, Inserting
<1>7. Finite' /\ CountedOnce' /\ Drawn' /\ OpenRequests' /\ FreshRows' /\ RowsAndLinks'
      /\ RelayRows' /\ StreamRows'
  BY KeepsUpstream DEF Deliver, IInv, Finite, CountedOnce
<1> QED
  BY <1>2, <1>5, <1>6, <1>7 DEF IInv

LEMMA ExecuteStep ==
    ASSUME IInv, NEW c \in Consumer, Execute(c)
    PROVE  IInv'
<1> USE DEF brokerVars, analyticsVars
<1> DEFINE m == consumer[c].msg[1]
<1>1. /\ consumer'[c].pc = "executed" /\ consumer'[c].msg = consumer[c].msg
      /\ consumer'[c].inserted = ~Entered(m)
      /\ \A p \in Consumer \ {c} : consumer'[p] = consumer[p]
      /\ consumer' \in [Consumer -> ConsumerStates]
  BY DEF Execute, IInv, TypeOK, ConsumerStates
<1>2. TypeOK'
  <2>1. UNCHANGED <<req, lastId, dbVars, relay, brokerVars, analyticsVars, faults>>
    BY DEF Execute
  <2> QED
    BY <1>1, <2>1 DEF IInv, TypeOK, ConsumerStates, dbVars
<1>3. \A k : Entered(k)' <=> Entered(k)
  BY DEF Execute, dbVars, Entered, IsLink
<1>5. consumer[c].msg \in stream
  BY DEF IInv, ConsumerKnows, Knows, Execute
<1>6. ConsumerKnows'
  <2>1. Knows(c)'
    <3>1. consumer'[c].inserted <=> ~Entered(m)'
      BY <1>1, <1>3
    <3> QED
      BY <1>1, <1>5, <3>1 DEF Knows, Execute
  <2> QED
    BY <1>1, <1>3, <2>1, KnowingConsumers DEF Execute, dbVars
<1>7. OneInsert'
  <2>1. \A d \in Consumer \ {c} : Inserting(d) => Key(consumer[d].msg[1]) # Key(m)
    BY DEF Execute, Waits, Inserting
  <2> QED
    BY <1>1, <2>1, InsertingConsumers DEF Execute, dbVars
<1>8. Finite' /\ CountedOnce' /\ Drawn' /\ OpenRequests' /\ FreshRows' /\ RowsAndLinks'
      /\ RelayRows' /\ StreamRows'
  BY KeepsUpstream DEF Execute, IInv, Finite, CountedOnce
<1> QED
  BY <1>2, <1>6, <1>7, <1>8 DEF IInv

\* A commit enters the key of its message, and no other, if this consumer
\* inserted it.
LEMMA EffectCounts ==
    ASSUME IInv, NEW c \in Consumer, consumer[c].pc = "executed", Effect(c),
           outbox' = outbox, NEW m, m = consumer[c].msg[1]
    PROVE  /\ Entered(m)'
           /\ \A k \in Message : Entered(k) => Entered(k)'
           /\ \A k \in Message : Entered(k)' => Entered(k) \/ (Inserting(c) /\ Key(k) = Key(m))
           /\ seen' \subseteq Code /\ counted' \subseteq Click /\ clicks' \in Nat
           /\ IsFiniteSet(counted') /\ CountedOnce'
<1> USE DEF analyticsVars
<1>1. /\ consumer[c].msg \in stream /\ m \in Message
      /\ consumer[c].inserted <=> ~Entered(m)
  BY DEF IInv, TypeOK, ConsumerKnows, Knows, Copy
<1>2. CASE ~consumer[c].inserted
  <2>1. UNCHANGED analyticsVars
    BY <1>2 DEF Effect
  <2>2. \A k : Entered(k)' <=> Entered(k)
    BY <2>1 DEF Entered, IsLink
  <2>3. seen' \subseteq Code /\ counted' \subseteq Click /\ clicks' \in Nat
    BY <2>1 DEF IInv, TypeOK
  <2> QED
    BY <1>1, <1>2, <2>1, <2>2, <2>3 DEF IInv, Finite, CountedOnce
<1>3. CASE consumer[c].inserted
  <2>1. CASE m \in Id
    <3>1. seen' = seen \cup {outbox[m]} /\ counted' = counted /\ clicks' = clicks
      BY <1>3, <2>1 DEF Effect, IsLink
    <3>2. outbox[m] \in Code
      BY <1>1, <2>1 DEF IInv, TypeOK, StreamRows, IsStored
    <3>3. \A k \in Message : Entered(k)' => Entered(k) \/ Key(k) = Key(m)
      BY <2>1, <3>1 DEF Entered, Key, IsLink
    <3>4. Entered(m)' /\ \A k \in Message : Entered(k) => Entered(k)'
      BY <2>1, <3>1 DEF Entered, IsLink
    <3>5. seen' \subseteq Code /\ counted' \subseteq Click /\ clicks' \in Nat
      BY <3>1, <3>2 DEF IInv, TypeOK
    <3> QED
      BY <1>3, <3>1, <3>3, <3>4, <3>5 DEF IInv, Finite, CountedOnce, Inserting
  <2>2. CASE m \notin Id
    <3>1. counted' = counted \cup {m} /\ clicks' = clicks + 1 /\ seen' = seen
      BY <1>3, <2>2 DEF Effect, IsLink
    <3>2. m \in Click /\ m \notin counted
      BY <1>1, <1>3, <2>2 DEF Message, Entered, IsLink
    <3>3. \A k \in Message : Entered(k)' => Entered(k) \/ Key(k) = Key(m)
      BY <2>2, <3>1 DEF Entered, Key, IsLink
    <3>4. Entered(m)' /\ \A k \in Message : Entered(k) => Entered(k)'
      BY <2>2, <3>1 DEF Entered, IsLink
    <3>5. seen' \subseteq Code /\ counted' \subseteq Click /\ clicks' \in Nat
      BY <3>1, <3>2 DEF IInv, TypeOK
    <3>6. IsFiniteSet(counted') /\ Cardinality(counted') = Cardinality(counted) + 1
      BY <3>1, <3>2, FS_AddElement DEF IInv, Finite
    <3>7. CountedOnce'
      BY <3>1, <3>6 DEF IInv, CountedOnce
    <3> QED
      BY <1>3, <3>3, <3>4, <3>5, <3>6, <3>7 DEF Inserting
  <2> QED
    BY <2>1, <2>2
<1> QED
  BY <1>1, <1>2, <1>3 DEF IInv, TypeOK

LEMMA CommitStep ==
    ASSUME IInv, NEW c \in Consumer, Commit(c)
    PROVE  IInv'
<1>1. /\ consumer[c].pc = "executed" /\ Effect(c)
      /\ UNCHANGED <<req, lastId, dbVars, relay, brokerVars, faults>>
  BY DEF Commit
<1>2. outbox' = outbox /\ stream' = stream /\ acked' = acked
  BY <1>1 DEF dbVars, brokerVars
<1>3. /\ consumer'[c].pc = "committed" /\ consumer'[c].msg = consumer[c].msg
      /\ \A p \in Consumer \ {c} : consumer'[p] = consumer[p]
      /\ consumer' \in [Consumer -> ConsumerStates]
  BY DEF Commit, IInv, TypeOK, ConsumerStates
<1>4. /\ \A m : m = consumer[c].msg[1] => Entered(m)'
      /\ \A m \in Message : Entered(m) => Entered(m)'
      /\ \A m \in Message : Entered(m)' =>
            Entered(m) \/ (Inserting(c) /\ Key(m) = Key(consumer[c].msg[1]))
      /\ seen' \subseteq Code /\ counted' \subseteq Click /\ clicks' \in Nat
      /\ IsFiniteSet(counted') /\ CountedOnce'
  BY <1>1, <1>2, EffectCounts
<1>5. TypeOK'
  BY <1>1, <1>3, <1>4 DEF IInv, TypeOK, ConsumerStates, dbVars, brokerVars
<1>6. ConsumerKnows'
  <2>1. Knows(c)'
    <3>1. consumer[c].msg \in stream
      BY <1>1 DEF IInv, ConsumerKnows, Knows
    <3> QED
      BY <1>2, <1>3, <1>4, <3>1 DEF Knows
  <2> QED
    BY <1>2, <1>3, <1>4, <2>1, KnowingConsumers
<1>7. OneInsert'
  BY <1>2, <1>3, InsertingConsumers DEF Inserting
<1>8. Finite' /\ Drawn' /\ OpenRequests' /\ FreshRows' /\ RowsAndLinks'
      /\ RelayRows' /\ StreamRows'
  BY <1>1, <1>4, KeepsUpstream DEF Finite, brokerVars
<1> QED
  BY <1>4, <1>5, <1>6, <1>7, <1>8 DEF IInv

LEMMA AckStep ==
    ASSUME IInv, NEW c \in Consumer, Ack(c)
    PROVE  IInv'
<1> USE DEF analyticsVars
<1>1. /\ consumer[c].pc = "committed" /\ acked' = acked \cup {consumer[c].msg}
      /\ UNCHANGED <<req, lastId, dbVars, relay, stream, window, analyticsVars, faults>>
  BY DEF Ack
<1>2. /\ consumer'[c].pc = "idle" /\ \A p \in Consumer \ {c} : consumer'[p] = consumer[p]
      /\ consumer' \in [Consumer -> ConsumerStates]
  BY DEF Ack, ConsumerIdle, IInv, TypeOK, ConsumerStates
<1>3. \A m : Entered(m)' <=> Entered(m)
  BY <1>1 DEF dbVars, Entered, IsLink
<1>4. consumer[c].msg \in stream /\ Entered(consumer[c].msg[1])
  BY <1>1 DEF IInv, ConsumerKnows, Knows
<1>5. TypeOK'
  BY <1>1, <1>2, <1>4 DEF IInv, TypeOK, ConsumerStates, dbVars
<1>6. ConsumerKnows'
  <2>1. Knows(c)'
    BY <1>2 DEF Knows
  <2>2. \A d \in acked' \ acked : Entered(d[1])'
    BY <1>1, <1>3, <1>4
  <2> QED
    BY <1>1, <1>2, <1>3, <2>1, <2>2, KnowingConsumers DEF dbVars
<1>7. OneInsert'
  BY <1>1, <1>2, InsertingConsumers DEF Inserting, dbVars
<1>8. Finite' /\ CountedOnce' /\ Drawn' /\ OpenRequests' /\ FreshRows' /\ RowsAndLinks'
      /\ RelayRows' /\ StreamRows'
  BY <1>1, KeepsUpstream DEF IInv, Finite, CountedOnce
<1> QED
  BY <1>5, <1>6, <1>7, <1>8 DEF IInv

LEMMA HandleFailsStep ==
    ASSUME IInv, NEW c \in Consumer, HandleFails(c)
    PROVE  IInv'
<1> USE DEF analyticsVars
<1>1. UNCHANGED <<req, lastId, dbVars, relay, brokerVars>>
  BY DEF HandleFails
<1>2. outbox' = outbox /\ stream' = stream /\ acked' = acked /\ window' = window
  BY <1>1 DEF dbVars, brokerVars
<1>3. /\ consumer'[c].pc = "idle" /\ \A p \in Consumer \ {c} : consumer'[p] = consumer[p]
      /\ consumer' \in [Consumer -> ConsumerStates]
  BY <1>2 DEF HandleFails, ConsumerIdle, IInv, TypeOK, ConsumerStates
<1>4. /\ \A m \in Message : Entered(m) => Entered(m)'
      /\ \A m \in Message : Entered(m)' =>
            Entered(m) \/ (Inserting(c) /\ Key(m) = Key(consumer[c].msg[1]))
      /\ seen' \subseteq Code /\ counted' \subseteq Click /\ clicks' \in Nat
      /\ IsFiniteSet(counted') /\ CountedOnce'
  <2>1. CASE UNCHANGED analyticsVars
    <3>1. \A m : Entered(m)' <=> Entered(m)
      BY <1>2, <2>1 DEF Entered, IsLink
    <3>2. seen' \subseteq Code /\ counted' \subseteq Click /\ clicks' \in Nat
      BY <2>1 DEF IInv, TypeOK
    <3> QED
      BY <2>1, <3>1, <3>2 DEF IInv, Finite, CountedOnce
  <2>2. CASE consumer[c].pc = "executed" /\ Effect(c)
    BY <1>2, <2>2, EffectCounts
  <2> QED
    BY <2>1, <2>2 DEF HandleFails
<1>5. TypeOK'
  <2>1. faults' \in 0..MaxFaults
    BY LinkEventsAssumption DEF IInv, TypeOK, HandleFails, Fault, LinkEventsAssumption
  <2> QED
    BY <1>1, <1>2, <1>3, <1>4, <2>1 DEF IInv, TypeOK, ConsumerStates, dbVars
<1>6. ConsumerKnows'
  <2>1. Knows(c)'
    BY <1>3 DEF Knows
  <2> QED
    BY <1>2, <1>3, <1>4, <2>1, KnowingConsumers
<1>7. OneInsert'
  BY <1>2, <1>3, InsertingConsumers DEF Inserting
<1>8. Finite' /\ Drawn' /\ OpenRequests' /\ FreshRows' /\ RowsAndLinks'
      /\ RelayRows' /\ StreamRows'
  BY <1>1, <1>2, <1>4, KeepsUpstream DEF Finite
<1> QED
  BY <1>4, <1>5, <1>6, <1>7, <1>8 DEF IInv
-----------------------------------------------------------------------------
(* The theorems *)

LEMMA InitIInv == Init => IInv
<1> SUFFICES ASSUME Init PROVE IInv
  OBVIOUS
<1> USE LinkEventsAssumption DEF Init, LinkEventsAssumption
<1>1. Cardinality(Request) \in Nat
  BY FS_CardinalityType
<1>2. TypeOK
  BY DEF TypeOK, RequestState, RelayIdle, ConsumerIdle
<1>3. Finite /\ CountedOnce
  BY FS_EmptySet DEF Finite, CountedOnce
<1>4. Drawn
  <2>1. Cardinality({q \in Request : req[q].pc # "new"}) \in Nat
    BY FS_Subset, FS_CardinalityType
  <2> QED
    BY <2>1 DEF Drawn
<1>5. OpenRequests /\ FreshRows /\ RowsAndLinks /\ StreamRows
  BY DEF OpenRequests, FreshRows, RowsAndLinks, StreamRows, IsStored
<1>6. RelayRows
  BY DEF RelayRows, RelayIdle
<1>7. ConsumerKnows /\ OneInsert
  BY DEF ConsumerKnows, Knows, OneInsert, Inserting, ConsumerIdle
<1> QED
  BY <1>2, <1>3, <1>4, <1>5, <1>6, <1>7 DEF IInv

LEMMA NextIInv == IInv /\ [Next]_vars => IInv'
<1> SUFFICES ASSUME IInv, [Next]_vars PROVE IInv'
  OBVIOUS
<1>1. CASE \E q \in Request : \/ \E code \in Code : CodeTaken(q, code) \/ Insert(q, code)
                              \/ CommitCreate(q) \/ FailCreate(q)
  BY <1>1, CodeTakenStep, InsertStep, CommitCreateStep, FailCreateStep
<1>2. CASE \E r \in Relay : OutboxBatch(r) \/ RelayFails(r)
  BY <1>2, SelectBatchStep, PublishRowStep, MarkRowStep, RelayFailsStep DEF OutboxBatch
<1>3. CASE \E k \in Click : PublishClick(k)
  BY <1>3, PublishClickStep
<1>4. CASE \E n \in Id : Forget(n)
  BY <1>4, ForgetStep
<1>5. CASE \E c \in Consumer : Consume(c) \/ HandleFails(c)
  BY <1>5, DeliverStep, ExecuteStep, CommitStep, AckStep, HandleFailsStep DEF Consume, handle
<1>6. CASE UNCHANGED vars
  <2> USE <1>6 DEF vars, dbVars, brokerVars, analyticsVars
  <2>1. TypeOK'
    BY DEF IInv, TypeOK
  <2>2. Drawn' /\ OpenRequests' /\ FreshRows' /\ RowsAndLinks'
    BY KeepsTables DEF IInv
  <2>3. /\ Finite' /\ RelayRows' /\ StreamRows' /\ ConsumerKnows'
        /\ OneInsert' /\ CountedOnce'
    BY KeepsDownstream
  <2> QED
    BY <2>1, <2>2, <2>3 DEF IInv
<1> QED
  BY <1>1, <1>2, <1>3, <1>4, <1>5, <1>6 DEF Next

LEMMA Invariance == Spec => []IInv
BY InitIInv, NextIInv, PTL DEF Spec

\* The aggregate is the number of different clicks that were entered, whatever
\* is published, delivered or tried twice: a consumer adds one only when its
\* INSERT took the key, and no two open transactions hold the same key.
THEOREM ClicksCountedOnce == Spec => []CountedOnce
<1>1. IInv => CountedOnce
  BY DEF IInv
<1> QED
  BY <1>1, Invariance, PTL

\* No event is lost between the tables of the service and those of the
\* analytics: a link comes with its row, a row is marked after it is in the
\* stream, and a message is acknowledged after what it says was entered.
THEOREM NothingIsLost == Spec => []NothingVanishes
<1>1. ASSUME IInv PROVE NothingVanishes
  <2>1. ASSUME NEW code \in links \ seen
        PROVE  \E n \in Id : outbox[n] = code /\ (n \notin marked \/ InStream(n))
    <3>1. PICK n \in Id : outbox[n] = code
      BY <1>1, <2>1 DEF IInv, RowsAndLinks
    <3>2. ASSUME n \in marked PROVE InStream(n)
      <4>1. PICK d \in stream : d[1] = n
        BY <1>1, <3>2 DEF IInv, StreamRows, IsStored
      <4>2. d \notin acked
        BY <1>1, <2>1, <3>1, <4>1 DEF IInv, ConsumerKnows, Entered, IsLink
      <4> QED
        BY <4>1, <4>2 DEF InStream
    <3> QED
      BY <3>1, <3>2
  <2>2. ASSUME NEW d \in stream, d[1] \in Click \ counted PROVE InStream(d[1])
    <3>1. d[1] \notin Id
      BY <2>2, LinkEventsAssumption DEF LinkEventsAssumption, Id
    <3>2. d \notin acked
      BY <1>1, <2>2, <3>1 DEF IInv, ConsumerKnows, Entered, IsLink
    <3> QED
      BY <3>2 DEF InStream
  <2> QED
    BY <2>1, <2>2 DEF NothingVanishes
<1> QED
  BY <1>1, Invariance, PTL

published == {d[1] : d \in stream} \cap Click

\* The commit of a consumer is a step of the promise or of nobody's concern.
LEMMA EffectKeepsPromise ==
    ASSUME IInv, NEW c \in Consumer, consumer[c].pc = "executed", Effect(c),
           UNCHANGED <<links, outbox, stream>>
    PROVE  [Promise!Next]_Promise!vars
<1> DEFINE m == consumer[c].msg[1]
<1> USE DEF analyticsVars
<1>0. published' = published
  BY DEF published
<1>1. /\ consumer[c].msg \in stream /\ m \in Message
      /\ consumer[c].inserted <=> ~Entered(m)
  BY DEF IInv, TypeOK, ConsumerKnows, Knows, Copy
<1>2. CASE ~consumer[c].inserted
  BY <1>2 DEF Effect, Promise!vars
<1>3. CASE consumer[c].inserted /\ m \in Id
  <2>1. outbox[m] \in links /\ outbox[m] \in Code
    BY <1>1, <1>3 DEF IInv, TypeOK, RowsAndLinks, StreamRows, IsStored
  <2>2. outbox[m] \notin seen
    BY <1>1, <1>3 DEF Entered, IsLink
  <2>3. Promise!See(outbox[m])
    BY <1>3, <2>1, <2>2 DEF Promise!See, Effect, IsLink
  <2> QED
    BY <2>1, <2>3 DEF Promise!Next
<1>4. CASE consumer[c].inserted /\ m \notin Id
  <2>1. m \in Click /\ m \notin counted
    BY <1>1, <1>4 DEF Message, Entered, IsLink
  <2>2. m \in published
    BY <1>1, <2>1 DEF published
  <2>3. Promise!Count(m)
    BY <1>4, <2>1, <2>2 DEF Promise!Count, Effect, IsLink, published
  <2> QED
    BY <2>1, <2>3 DEF Promise!Next
<1> QED
  BY <1>1, <1>2, <1>3, <1>4

\* What a stored message adds to the published clicks.
LEMMA StoredClicks ==
    ASSUME IInv, NEW m \in Message, stream' = Stored(m)
    PROVE  published' = published \cup ({m} \cap Click)
BY Publication DEF published

LEMMA NextKeepsPromise == IInv /\ [Next]_vars => [Promise!Next]_Promise!vars
<1> SUFFICES ASSUME IInv, [Next]_vars PROVE [Promise!Next]_Promise!vars
  OBVIOUS
<1> USE DEF dbVars, brokerVars, analyticsVars
<1>1. ASSUME UNCHANGED <<links, seen, counted, clicks>>, published' = published
      PROVE  [Promise!Next]_Promise!vars
  BY <1>1 DEF Promise!vars, published
<1>2. ASSUME NEW q \in Request, CommitCreate(q) PROVE [Promise!Next]_Promise!vars
  <2>1. req[q].code \in Code \ links
    BY <1>2 DEF IInv, OpenRequests, CommitCreate
  <2>2. Promise!Create(req[q].code)
    BY <1>2, <2>1 DEF Promise!Create, CommitCreate
  <2> QED
    BY <2>1, <2>2 DEF Promise!Next
<1>3. ASSUME NEW q \in Request,
             FailCreate(q) \/ \E code \in Code : CodeTaken(q, code) \/ Insert(q, code)
      PROVE  [Promise!Next]_Promise!vars
  BY <1>1, <1>3 DEF FailCreate, CodeTaken, Insert, published
<1>4. ASSUME NEW r \in Relay, OutboxBatch(r) \/ RelayFails(r)
      PROVE  [Promise!Next]_Promise!vars
  <2>1. UNCHANGED <<links, seen, counted, clicks>>
    BY <1>4 DEF OutboxBatch, SelectBatch, PublishRow, MarkRow, RelayFails
  <2>2. \/ stream' = stream
        \/ \E n \in First(relay[r].todo) : stream' = Stored(n)
    BY <1>4 DEF OutboxBatch, SelectBatch, PublishRow, MarkRow, RelayFails
  <2>3. ASSUME NEW n \in First(relay[r].todo), stream' = Stored(n)
        PROVE  published' = published
    <3>1. n \in Message /\ n \notin Click
      BY LinkEventsAssumption
         DEF IInv, TypeOK, First, Message, Id, LinkEventsAssumption
    <3> QED
      BY <2>3, <3>1, StoredClicks
  <2>4. published' = published
    BY <2>2, <2>3 DEF published
  <2> QED
    BY <1>1, <2>1, <2>4
<1>5. ASSUME NEW k \in Click, PublishClick(k) PROVE [Promise!Next]_Promise!vars
  <2>1. published' = published \cup {k}
    BY <1>5, StoredClicks DEF PublishClick, Message
  <2>2. k \notin published
    BY <1>5 DEF PublishClick, Copies, published
  <2>3. Promise!Publish(k)
    BY <1>5, <2>1, <2>2 DEF Promise!Publish, PublishClick, published
  <2> QED
    BY <2>3 DEF Promise!Next
<1>6. ASSUME NEW n \in Id, Forget(n) PROVE [Promise!Next]_Promise!vars
  BY <1>1, <1>6 DEF Forget, published
<1>7. ASSUME NEW c \in Consumer, Consume(c) \/ HandleFails(c)
      PROVE  [Promise!Next]_Promise!vars
  <2>1. UNCHANGED <<links, outbox, stream>>
    BY <1>7 DEF Consume, handle, Deliver, Execute, Commit, Ack, HandleFails
  <2>2. CASE consumer[c].pc = "executed" /\ Effect(c)
    BY <2>1, <2>2, EffectKeepsPromise
  <2>3. CASE ~(consumer[c].pc = "executed" /\ Effect(c))
    <3>1. UNCHANGED <<seen, counted, clicks>>
      BY <1>7, <2>3 DEF Consume, handle, Deliver, Execute, Commit, Ack, HandleFails
    <3> QED
      BY <1>1, <2>1, <3>1 DEF published
  <2> QED
    BY <2>2, <2>3
<1>8. CASE UNCHANGED vars
  BY <1>1, <1>8 DEF vars, published
<1> QED
  BY <1>2, <1>3, <1>4, <1>5, <1>6, <1>7, <1>8 DEF Next

\* LinkEvents implements what AnalyticsPromise allows: a link is seen at most
\* once and only if it exists, a click counts at most once and only if the
\* broker has taken it; every other step, retries and deaths included, changes
\* nothing a reader of the analytics can see.
THEOREM ImplementsPromise == Spec => Promise!Safe
<1>1. Init => Promise!Init
  BY DEF Init, Promise!Init
<1>2. IInv /\ [Next]_vars => [Promise!Next]_Promise!vars
  BY NextKeepsPromise
<1> QED
  BY <1>1, <1>2, Invariance, PTL DEF Spec, Promise!Safe
-----------------------------------------------------------------------------
(* The click publisher *)

\* Close has taken the write lock before closed is set, and sets it before it
\* closes the channel; a handler that finds closed set goes no further.
Closing ==
    /\ chClosed => closed
    /\ closer \in {"locked", "drain", "waitDone", "returned"} => closed
    /\ closed => \A h \in Handler : pc[h] # "sending"

\* The counters are bounded by the clicks there have been because none of
\* them counts a click that another one has counted: the type of the counters
\* rests on EveryClickCounted.
PublisherInv == PublisherTypeOK /\ Closing /\ EveryClickCounted

Busy == {h \in Handler : pc[h] # "idle"}
-----------------------------------------------------------------------------
(* How many clicks are in the hands of handlers *)

LEMMA InHandIsNat == ASSUME PublisherTypeOK PROVE InHand \in Nat
<1> IsFiniteSet(Busy)
  BY PublisherAssumption, FS_Subset DEF PublisherAssumption, Busy
<1> QED
  BY FS_CardinalityType DEF InHand, Busy

\* A request that arrives adds one.
LEMMA Arrives ==
    ASSUME PublisherTypeOK, NEW h \in Handler, pc[h] = "idle",
           NEW l \in HandlerPC \ {"idle"}, MoveTo(h, l)
    PROVE  InHand' = InHand + 1
<1>1. IsFiniteSet(Busy)
  BY PublisherAssumption, FS_Subset DEF PublisherAssumption, Busy
<1>2. Busy' = Busy \cup {h} /\ h \notin Busy
  BY DEF PublisherTypeOK, Busy, MoveTo
<1> QED
  BY <1>1, <1>2, FS_AddElement DEF InHand, Busy

\* A handler that returns takes one away.
LEMMA Returns ==
    ASSUME PublisherTypeOK, NEW h \in Handler, pc[h] # "idle", MoveTo(h, "idle")
    PROVE  InHand' \in Nat /\ InHand = InHand' + 1
<1>1. IsFiniteSet(Busy)
  BY PublisherAssumption, FS_Subset DEF PublisherAssumption, Busy
<1>2. Busy' = Busy \ {h} /\ Busy = Busy' \cup {h} /\ h \notin Busy'
  BY DEF PublisherTypeOK, Busy, MoveTo
<1>3. IsFiniteSet(Busy')
  BY <1>1, <1>2, FS_RemoveElement
<1> QED
  BY <1>2, <1>3, FS_AddElement, FS_CardinalityType DEF InHand, Busy

\* Any other step of a handler keeps the number.
LEMMA GoesOn ==
    ASSUME PublisherTypeOK, NEW h \in Handler, pc[h] # "idle",
           NEW l \in HandlerPC \ {"idle"}, MoveTo(h, l)
    PROVE  InHand' = InHand
<1>1. Busy' = Busy
  BY DEF PublisherTypeOK, Busy, MoveTo
<1> QED
  BY <1>1 DEF InHand, Busy

LEMMA StaysPut == ASSUME UNCHANGED pc PROVE InHand' = InHand
  BY DEF InHand
-----------------------------------------------------------------------------
(* The invariant of the publisher *)

LEMMA PublisherInitially == PublisherInit => PublisherInv
<1> SUFFICES ASSUME PublisherInit PROVE PublisherInv
  OBVIOUS
<1> USE PublisherAssumption DEF PublisherAssumption
<1>1. PublisherTypeOK
  <2>1. pc \in [Handler -> HandlerPC] /\ loop \in LoopPC /\ closer \in CloserPC
    BY DEF PublisherInit, HandlerPC, LoopPC, CloserPC
  <2>2. queue \in 0..Buffer /\ clickCount \in 0..MaxClicks
    BY DEF PublisherInit
  <2> QED
    BY <2>1, <2>2 DEF PublisherInit, PublisherTypeOK
<1>2. Closing
  BY DEF PublisherInit, Closing
<1>3. {h \in Handler : pc[h] # "idle"} = {}
  BY DEF PublisherInit
<1>4. InHand = 0
  BY <1>3, FS_EmptySet DEF InHand
<1>5. EveryClickCounted
  BY <1>4 DEF PublisherInit, EveryClickCounted, Sent
<1> QED
  BY <1>1, <1>2, <1>5 DEF PublisherInv

\* A click that is counted in one place more is counted in one place less.
LEMMA Balanced ==
    ASSUME PublisherInv, [PublisherNext]_publisherVars PROVE EveryClickCounted' /\ InHand' \in Nat
<1> USE PublisherAssumption DEF PublisherAssumption
<1> USE DEF PublisherInv, PublisherTypeOK, EveryClickCounted, Sent, HandlerPC, LoopPC, counters
<1>0. InHand \in Nat
  BY InHandIsNat
<1> SUFFICES EveryClickCounted' /\ InHand' \in Nat
  OBVIOUS
<1> HIDE DEF InHand
<1>1. ASSUME NEW h \in Handler, NewClick(h) PROVE EveryClickCounted' /\ InHand' \in Nat
  <2>1. InHand' = InHand + 1
    BY <1>1, Arrives DEF NewClick
  <2> QED
    BY <1>0, <1>1, <2>1 DEF NewClick
<1>2. ASSUME NEW h \in Handler, RLock(h) PROVE EveryClickCounted' /\ InHand' \in Nat
  <2>1. InHand' = InHand
    BY <1>2, GoesOn DEF RLock
  <2> QED
    BY <1>0, <1>2, <2>1 DEF RLock
<1>3. ASSUME NEW h \in Handler, CheckClosed(h) PROVE EveryClickCounted' /\ InHand' \in Nat
  <2>1. CASE closed
    <3>1. InHand' \in Nat /\ InHand = InHand' + 1
      BY <1>3, <2>1, Returns DEF CheckClosed
    <3> QED
      BY <1>0, <1>3, <2>1, <3>1 DEF CheckClosed
  <2>2. CASE ~closed
    <3>1. InHand' = InHand
      BY <1>3, <2>2, GoesOn DEF CheckClosed
    <3> QED
      BY <1>0, <1>3, <2>2, <3>1 DEF CheckClosed
  <2> QED
    BY <2>1, <2>2
<1>4. ASSUME NEW h \in Handler, Send(h) PROVE EveryClickCounted' /\ InHand' \in Nat
  <2>1. InHand' \in Nat /\ InHand = InHand' + 1
    BY <1>4, Returns DEF Send
  <2> QED
    BY <1>0, <1>4, <2>1 DEF Send
<1>5. CASE Loop
  <2>1. InHand' = InHand
    BY <1>5, StaysPut DEF Loop, Receive, CheckBase, Publish
  <2>2. CASE Receive
    BY <1>0, <2>1, <2>2 DEF Receive
  <2>3. CASE CheckBase
    BY <1>0, <2>1, <2>3 DEF CheckBase
  <2>4. CASE Publish
    BY <1>0, <2>1, <2>4 DEF Publish
  <2> QED
    BY <1>5, <2>2, <2>3, <2>4 DEF Loop
<1>6. CASE CloseBegins \/ Close \/ UNCHANGED publisherVars
  <2>1. UNCHANGED <<pc, queue, loop, clickCount, counters>>
    BY <1>6 DEF CloseBegins, Close, CloseLocks, CloseQueue, Deadline,
                CloseReturns, publisherVars
  <2> QED
    BY <1>0, <2>1, StaysPut
<1> QED
  BY <1>1, <1>2, <1>3, <1>4, <1>5, <1>6 DEF PublisherNext, ClickErr

\* Types, the balance of the clicks taken for granted.
LEMMA Typed ==
    ASSUME PublisherInv, [PublisherNext]_publisherVars, EveryClickCounted', InHand' \in Nat PROVE PublisherTypeOK'
<1> USE PublisherAssumption DEF PublisherAssumption
<1> USE DEF PublisherInv, PublisherTypeOK, HandlerPC, LoopPC, CloserPC, counters, MoveTo
<1>1. queue' \in 0..Buffer /\ clickCount' \in 0..MaxClicks
  BY DEF PublisherNext, NewClick, ClickErr, RLock, CheckClosed, Send, Loop, Receive,
         CheckBase, Publish, CloseBegins, Close, CloseLocks, CloseQueue,
         Deadline, CloseReturns, publisherVars
<1>2. /\ pc' \in [Handler -> HandlerPC]
      /\ loop' \in LoopPC
      /\ closer' \in CloserPC
  <2>1. pc' \in [Handler -> HandlerPC]
    BY DEF PublisherNext, NewClick, ClickErr, RLock, CheckClosed, Send, Loop, Receive,
           CheckBase, Publish, CloseBegins, Close, CloseLocks, CloseQueue,
           Deadline, CloseReturns, publisherVars
  <2>2. loop' \in LoopPC
    BY DEF PublisherNext, NewClick, ClickErr, RLock, CheckClosed, Send, Loop, Receive,
           CheckBase, Publish, CloseBegins, Close, CloseLocks, CloseQueue,
           Deadline, CloseReturns, publisherVars
  <2>3. closer' \in CloserPC
    BY DEF PublisherNext, NewClick, ClickErr, RLock, CheckClosed, Send, Loop, Receive,
           CheckBase, Publish, CloseBegins, Close, CloseLocks, CloseQueue,
           Deadline, CloseReturns, publisherVars
  <2> QED
    BY <2>1, <2>2, <2>3
<1>3. chClosed' \in BOOLEAN /\ closed' \in BOOLEAN /\ aborted' \in BOOLEAN
  <2>1. /\ chClosed' \in {chClosed, TRUE}
        /\ closed' \in {closed, TRUE}
        /\ aborted' \in {aborted, TRUE}
    BY DEF PublisherNext, NewClick, ClickErr, RLock, CheckClosed, Send, Loop, Receive,
           CheckBase, Publish, CloseBegins, Close, CloseLocks, CloseQueue,
           Deadline, CloseReturns, publisherVars
  <2> QED
    BY <2>1
<1>4. /\ Published' \in Nat /\ Dropped' \in Nat /\ Failed' \in Nat
      /\ Unsent' \in Nat /\ Late' \in Nat
  BY DEF PublisherNext, NewClick, ClickErr, RLock, CheckClosed, Send, Loop, Receive,
         CheckBase, Publish, CloseBegins, Close, CloseLocks, CloseQueue,
         Deadline, CloseReturns, publisherVars
<1>5. Published' + Failed' + Dropped' + Unsent' + Late' <= clickCount'
  BY <1>1, <1>4 DEF EveryClickCounted, Sent
<1> HIDE PublisherAssumption DEF PublisherInv, PublisherTypeOK, HandlerPC, LoopPC, CloserPC
<1>6. \A n \in {Published', Dropped', Failed', Unsent', Late'} : n \in 0..MaxClicks
  <2>1. clickCount' \in Nat /\ clickCount' <= MaxClicks
    BY <1>1
  <2>2. MaxClicks \in Nat
    BY PublisherAssumption
  <2>3. PICK a \in Nat, b \in Nat, c \in Nat, d \in Nat, f \in Nat, sum \in Nat :
            /\ Published' = a /\ Failed' = b /\ Dropped' = c
            /\ Unsent' = d /\ Late' = f /\ clickCount' = sum
    BY <1>4, <2>1
  <2>4. a + b + c + d + f <= sum
    BY <1>5, <2>3
  <2>5. /\ a <= sum /\ b <= sum /\ c <= sum /\ d <= sum /\ f <= sum
    BY <2>4
  <2> QED
    BY <2>1, <2>2, <2>3, <2>5
<1> QED
  BY <1>1, <1>2, <1>3, <1>6 DEF PublisherTypeOK

LEMMA StillClosing == ASSUME PublisherInv, [PublisherNext]_publisherVars PROVE Closing'
<1> USE DEF PublisherInv, PublisherTypeOK, Closing, MoveTo, HandlerPC
<1>1. ASSUME NEW h \in Handler, NewClick(h) \/ ClickErr(h) PROVE Closing'
  BY <1>1 DEF NewClick, ClickErr, RLock, CheckClosed, Send
<1>2. CASE Loop
  BY <1>2 DEF Loop, Receive, CheckBase, Publish
<1>3. CASE CloseBegins \/ Close
  BY <1>3 DEF CloseBegins, Close, CloseLocks, CloseQueue, Deadline, CloseReturns
<1>4. CASE UNCHANGED publisherVars
  BY <1>4 DEF publisherVars
<1> QED
  BY <1>1, <1>2, <1>3, <1>4 DEF PublisherNext

LEMMA PublisherStep == PublisherInv /\ [PublisherNext]_publisherVars => PublisherInv'
  BY Balanced, Typed, StillClosing DEF PublisherInv

LEMMA PublisherInvariance == PublisherSpec => []PublisherInv
  BY PublisherInitially, PublisherStep, PTL DEF PublisherSpec
-----------------------------------------------------------------------------
(* The theorems about the publisher *)

\* Counters and buffer keep their types, for any number of handlers.
THEOREM PublisherTyping == PublisherSpec => []PublisherTypeOK
<1> PublisherInv => PublisherTypeOK
  BY DEF PublisherInv
<1> QED
  BY PublisherInvariance, PTL

\* No click vanishes between ClickErr, the loop and Close, and none is counted
\* twice, whatever the capacity and whenever the shutdown comes.
THEOREM ClicksAreAccountedFor == PublisherSpec => []EveryClickCounted
<1> PublisherInv => EveryClickCounted
  BY DEF PublisherInv
<1> QED
  BY PublisherInvariance, PTL

\* Close never closes the channel under a handler that is about to send.
THEOREM CloseWaitsForSenders == PublisherSpec => []NoSendOnClosed
<1> PublisherInv => NoSendOnClosed
  BY DEF PublisherInv, Closing, NoSendOnClosed
<1> QED
  BY PublisherInvariance, PTL
=============================================================================
