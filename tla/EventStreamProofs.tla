-------------------------- MODULE EventStreamProofs --------------------------
(***************************************************************************)
(* Proofs about EventStream, for any clients, queue length, number of      *)
(* events and failures, under each of the three queue policies.            *)
(***************************************************************************)
EXTENDS EventStream, TLAPS

(* Sequences as sets of events in an order *)

Elements(s) == {s[i] : i \in DOMAIN s}
Ascending(s) == \A i, j \in DOMAIN s : i < j => s[i] < s[j]
Before(S, T) == \A x \in S, y \in T : x < y

LEMMA EventsAreNumbers == MaxEvent \in Nat /\ Event \subseteq Nat \ {0}
BY EventStreamAssumption DEF EventStreamAssumption, Event

LEMMA EmptySequence == Elements(<< >>) = {} /\ Ascending(<< >>)
BY DEF Elements, Ascending

LEMMA ElementsType == ASSUME NEW s \in Seq(Event) PROVE Elements(s) \subseteq Event
BY DEF Elements

\* An event that comes after all others is appended in order.
LEMMA Appended ==
    ASSUME NEW s \in Seq(Event), NEW e \in Event
    PROVE  /\ Elements(Append(s, e)) = Elements(s) \cup {e}
           /\ Ascending(s) /\ Before(Elements(s), {e}) => Ascending(Append(s, e))
<1>1. /\ DOMAIN s = 1..Len(s) /\ DOMAIN Append(s, e) = 1..(Len(s) + 1) /\ Len(s) \in Nat
      /\ \A i \in 1..Len(s) : Append(s, e)[i] = s[i]
      /\ Append(s, e)[Len(s) + 1] = e
  OBVIOUS
<1>2. Elements(Append(s, e)) = Elements(s) \cup {e}
  BY <1>1 DEF Elements
<1>3. Ascending(s) /\ Before(Elements(s), {e}) => Ascending(Append(s, e))
  <2> SUFFICES ASSUME Ascending(s), Before(Elements(s), {e}) PROVE Ascending(Append(s, e))
    OBVIOUS
  <2> QED
    BY <1>1 DEF Ascending, Before, Elements
<1> QED
  BY <1>2, <1>3, Zenon

\* Two sequences, the second behind the first, are in order together.
LEMMA Concatenated ==
    ASSUME NEW s \in Seq(Event), NEW t \in Seq(Event)
    PROVE  /\ s \o t \in Seq(Event)
           /\ Elements(s \o t) = Elements(s) \cup Elements(t)
           /\ Ascending(s) /\ Ascending(t) /\ Before(Elements(s), Elements(t))
              => Ascending(s \o t)
<1>1. /\ Len(s) \in Nat /\ Len(t) \in Nat /\ s \o t \in Seq(Event)
      /\ DOMAIN s = 1..Len(s) /\ DOMAIN t = 1..Len(t)
      /\ DOMAIN (s \o t) = 1..(Len(s) + Len(t))
      /\ \A i \in 1..Len(s) : (s \o t)[i] = s[i]
      /\ \A i \in (Len(s) + 1)..(Len(s) + Len(t)) : (s \o t)[i] = t[i - Len(s)]
  OBVIOUS
<1> DEFINE u == s \o t
<1>2. /\ DOMAIN u = 1..(Len(s) + Len(t))
      /\ \A i \in 1..Len(s) : u[i] = s[i]
      /\ \A i \in (Len(s) + 1)..(Len(s) + Len(t)) : u[i] = t[i - Len(s)]
  BY <1>1
<1> HIDE DEF u
<1>3. Elements(u) = Elements(s) \cup Elements(t)
  <2>1. Elements(u) \subseteq Elements(s) \cup Elements(t)
    <3>1. ASSUME NEW i \in 1..(Len(s) + Len(t)) PROVE u[i] \in Elements(s) \cup Elements(t)
      <4>1. CASE i <= Len(s)
        BY <1>1, <1>2, <4>1 DEF Elements
      <4>2. CASE Len(s) < i
        <5>1. u[i] = t[i - Len(s)] /\ i - Len(s) \in 1..Len(t)
          BY <1>1, <1>2, <4>2
        <5> QED
          BY <1>1, <5>1 DEF Elements
      <4> QED
        BY <1>1, <4>1, <4>2
    <3> QED
      BY <1>2, <3>1 DEF Elements
  <2>2. Elements(s) \subseteq Elements(u)
    BY <1>1, <1>2 DEF Elements
  <2>3. Elements(t) \subseteq Elements(u)
    <3>1. ASSUME NEW i \in 1..Len(t) PROVE t[i] \in Elements(u)
      <4>1. Len(s) + i \in (Len(s) + 1)..(Len(s) + Len(t)) /\ (Len(s) + i) - Len(s) = i
        BY <1>1
      <4>2. u[Len(s) + i] = t[i] /\ Len(s) + i \in DOMAIN u
        BY <1>1, <1>2, <4>1
      <4> QED
        BY <4>2 DEF Elements
    <3> QED
      BY <1>1, <3>1 DEF Elements
  <2> QED
    BY <2>1, <2>2, <2>3
<1>4. ASSUME Ascending(s), Ascending(t), Before(Elements(s), Elements(t))
      PROVE  Ascending(u)
  <2> SUFFICES ASSUME NEW i \in DOMAIN u, NEW j \in DOMAIN u, i < j PROVE u[i] < u[j]
    BY DEF Ascending
  <2>1. CASE j <= Len(s)
    BY <1>1, <1>2, <1>4, <2>1 DEF Ascending
  <2>2. CASE i <= Len(s) /\ Len(s) < j
    <3>1. /\ u[i] = s[i] /\ i \in DOMAIN s
          /\ u[j] = t[j - Len(s)] /\ j - Len(s) \in DOMAIN t
      BY <1>1, <1>2, <2>2
    <3> QED
      BY <1>4, <3>1 DEF Before, Elements
  <2>3. CASE Len(s) < i
    <3>1. /\ u[i] = t[i - Len(s)] /\ i - Len(s) \in DOMAIN t
          /\ u[j] = t[j - Len(s)] /\ j - Len(s) \in DOMAIN t
          /\ i - Len(s) < j - Len(s)
      BY <1>1, <1>2, <2>3
    <3> QED
      BY <1>4, <3>1 DEF Ascending
  <2> QED
    BY <1>1, <1>2, <2>1, <2>2, <2>3
<1> QED
  BY <1>1, <1>3, <1>4 DEF u

\* The head of an ascending sequence comes before its tail.
LEMMA TailProperties ==
    ASSUME NEW s \in Seq(Event), s # << >>
    PROVE  /\ Head(s) \in Event /\ Tail(s) \in Seq(Event)
           /\ Elements(s) = {Head(s)} \cup Elements(Tail(s))
           /\ Ascending(s) => Ascending(Tail(s)) /\ Before({Head(s)}, Elements(Tail(s)))
<1>1. /\ DOMAIN s = 1..Len(s) /\ DOMAIN Tail(s) = 1..(Len(s) - 1) /\ Len(s) \in Nat \ {0}
      /\ \A i \in 1..(Len(s) - 1) : Tail(s)[i] = s[i + 1]
      /\ Head(s) = s[1] /\ Head(s) \in Event /\ Tail(s) \in Seq(Event)
  OBVIOUS
<1>2. Elements(s) \subseteq {Head(s)} \cup Elements(Tail(s))
  <2>1. ASSUME NEW i \in 1..Len(s) PROVE s[i] \in {Head(s)} \cup Elements(Tail(s))
    <3>1. CASE i = 1
      BY <1>1, <3>1
    <3>2. CASE i # 1
      <4>1. i - 1 \in 1..(Len(s) - 1) /\ Tail(s)[i - 1] = s[i]
        BY <1>1, <3>2
      <4> QED
        BY <1>1, <4>1 DEF Elements
    <3> QED
      BY <3>1, <3>2
  <2> QED
    BY <1>1, <2>1 DEF Elements
<1>3. {Head(s)} \cup Elements(Tail(s)) \subseteq Elements(s)
  BY <1>1 DEF Elements
<1>4. ASSUME Ascending(s) PROVE Ascending(Tail(s)) /\ Before({Head(s)}, Elements(Tail(s)))
  BY <1>1, <1>4 DEF Ascending, Before, Elements
<1> QED
  BY <1>1, <1>2, <1>3, <1>4

\* What ReadHistory sends: the events after the cursor, in their order.
LEMMA HistoryProperties ==
    ASSUME NEW k \in 0..MaxEvent, NEW n \in 0..MaxEvent, k <= n
    PROVE  LET s == << >> \o [i \in 1..(n - k) |-> k + i]
           IN  s \in Seq(Event) /\ Ascending(s) /\ Elements(s) = (k + 1)..n
<1> DEFINE h == [i \in 1..(n - k) |-> k + i]
           s == << >> \o h
<1>0. n - k \in Nat /\ \A i \in 1..(n - k) : k + i \in Event
  BY EventsAreNumbers DEF Event
<1>1. h \in Seq(Event) /\ Len(h) = n - k
  BY <1>0
<1>2. s \in Seq(Event) /\ Len(s) = n - k /\ \A i \in 1..(n - k) : s[i] = h[i]
  BY <1>0, <1>1
<1>3. DOMAIN s = 1..(n - k) /\ \A i \in 1..(n - k) : s[i] = k + i
  BY <1>0, <1>1, <1>2
<1> HIDE DEF s, h
<1>4. Ascending(s)
  BY <1>0, <1>3 DEF Ascending
<1>5. Elements(s) = (k + 1)..n
  <2>1. \A x \in (k + 1)..n : x - k \in 1..(n - k) /\ k + (x - k) = x
    BY <1>0
  <2>2. (k + 1)..n \subseteq Elements(s)
    BY <1>3, <2>1 DEF Elements
  <2>3. \A i \in 1..(n - k) : k + i \in (k + 1)..n
    BY <1>0
  <2> QED
    BY <1>3, <2>2, <2>3 DEF Elements
<1> QED
  BY <1>2, <1>4, <1>5 DEF s, h
-----------------------------------------------------------------------------
(* Types *)

LEMMA CursorType ==
    ASSUME NEW c \in Client, got[c] \subseteq Event,
           got[c] = {} \/ \E e \in got[c] : \A f \in got[c] : f <= e
    PROVE  /\ Cursor(c) \in 0..MaxEvent
           /\ got[c] = {} => Cursor(c) = 0
           /\ got[c] # {} => Cursor(c) \in got[c]
           /\ \A f \in got[c] : f <= Cursor(c)
<1>1. CASE got[c] = {}
  BY <1>1, EventsAreNumbers DEF Cursor
<1>2. CASE got[c] # {}
  <2>1. Cursor(c) \in got[c] /\ \A f \in got[c] : f <= Cursor(c)
    BY <1>2 DEF Cursor
  <2> QED
    BY <1>2, <2>1, EventsAreNumbers DEF Event
<1> QED
  BY <1>1, <1>2

\* What a client has received has a last event.
HasLast(c) == got[c] = {} \/ \E e \in got[c] : \A f \in got[c] : f <= e

ConnType == [pc : {"off", "history", "stream", "ended"}, sent : 0..MaxEvent,
             batch : Seq(Event), held : Nat]
SubType == [items : Seq(Event), done : BOOLEAN, closed : BOOLEAN]

\* The events in the parts of a client's connection.
Batch(c) == Elements(conn[c].batch)
Queued(c) == Elements(sub[c].items)
Ahead(c) == Batch(c) \cup Queued(c)
Sent(c) == got[c] \cup Elements(wire[c])
Upstream(c) == conn[c].pc \in {"history", "stream"}

\* A delivery under way is of the last event that was read, to connected
\* clients; before the reader knows its place nothing is on its way.
Reader ==
    /\ reader.last <= top
    /\ reader.pc # "idle" => ~ reader.known
    /\ out.targets # {} => reader.known /\ out.event = reader.last /\ out.event # 0
    /\ \A c \in out.targets : Upstream(c)
    /\ ~ reader.known => \A c \in Client : Ahead(c) = {}

\* What an end of the connection leaves behind.
Leftovers(c) ==
    /\ conn[c].pc = "off" => wire[c] = << >> /\ Queued(c) = {}
    /\ conn[c].pc = "history" => wire[c] = << >> /\ got[c] # {}
    /\ conn[c].pc # "stream" => Batch(c) = {}

\* What a client has received comes before what is on the wire, and the handler
\* remembers the last of both.
Received(c) ==
    /\ Ascending(wire[c]) /\ Before(got[c], Elements(wire[c]))
    /\ \A e \in Sent(c) : e <= top
    /\ Upstream(c) => /\ conn[c].sent <= top
                      /\ \A e \in Sent(c) : e <= conn[c].sent
                      /\ Sent(c) = {} \/ conn[c].sent \in Sent(c)

\* What is ahead is in order and ends before the event that is being delivered.
InLine(c) ==
    /\ Ascending(conn[c].batch) /\ Ascending(sub[c].items)
    /\ Before(Batch(c), Queued(c))
    /\ \A e \in Ahead(c) : e <= reader.last /\ (c \in out.targets => e < out.event)

\* Nothing is left out between two events that were sent.
NoHole(c) ==
    \A d, f \in Sent(c) : \A e \in Event :
        d < e /\ e <= f => e \in Sent(c) \cup missed[c]

\* Nothing is left out ahead of a streaming handler: up to the last event in its
\* queue, and up to what the reader has read as long as the queue is open.
NoHoleAhead(c) ==
    conn[c].pc = "stream" =>
        \A d \in Sent(c) \cup Ahead(c) : \A e \in Event :
            d < e /\ conn[c].sent < e =>
                /\ \A f \in Ahead(c) : e <= f => e \in Ahead(c) \cup missed[c]
                /\ /\ ~ sub[c].done /\ e <= reader.last
                   /\ reader.known \/ reader.pc = "read"
                   => \/ e \in Ahead(c) \cup missed[c]
                      \/ c \in out.targets /\ e = out.event

Connection(c) ==
    HasLast(c) /\ Leftovers(c) /\ Received(c) /\ InLine(c) /\ NoHole(c) /\ NoHoleAhead(c)

IInv == TypeOK /\ Reader /\ \A c \in Client : Connection(c)

\* Only what concerns a client concerns its invariant.
LEMMA OthersKeepTheirs ==
    ASSUME NEW c \in Client, Connection(c), top \in Nat, top' \in Nat, top <= top',
           got[c] \subseteq Nat, Elements(wire[c]) \subseteq Nat,
           conn'[c] = conn[c], sub'[c] = sub[c], wire'[c] = wire[c], got'[c] = got[c],
           conn[c].sent \in Nat,
           missed[c] \subseteq missed'[c], reader' = reader, out'.event = out.event,
           c \in out'.targets <=> c \in out.targets
    PROVE  Connection(c)'
<1> USE DEF Batch, Queued, Ahead, Sent, Upstream
<1>1. HasLast(c)' /\ Leftovers(c)' /\ InLine(c)'
  BY DEF Connection, HasLast, Leftovers, InLine
<1>2. Received(c)'
  BY DEF Connection, Received
<1>3. NoHole(c)'
  BY DEF Connection, NoHole
<1>4. NoHoleAhead(c)'
  BY DEF Connection, NoHoleAhead
<1> QED
  BY <1>1, <1>2, <1>3, <1>4 DEF Connection

\* The values of one client.
LEMMA ClientTypes ==
    ASSUME TypeOK, NEW c \in Client
    PROVE  /\ conn[c] \in ConnType /\ sub[c] \in SubType /\ wire[c] \in Seq(Event)
           /\ got[c] \subseteq Event /\ missed[c] \subseteq Event
           /\ Batch(c) \subseteq Event /\ Queued(c) \subseteq Event
           /\ Ahead(c) \subseteq Event /\ Sent(c) \subseteq Event
           /\ Event \subseteq Nat \ {0} /\ conn[c].sent \in Nat
           /\ top \in Nat /\ reader.last \in Nat /\ out.event \in Nat
<1>1. /\ conn[c] \in ConnType /\ sub[c] \in SubType /\ wire[c] \in Seq(Event)
      /\ got[c] \subseteq Event /\ missed[c] \subseteq Event
  BY DEF TypeOK, ConnType, SubType
<1>2. conn[c].batch \in Seq(Event) /\ sub[c].items \in Seq(Event) /\ conn[c].sent \in 0..MaxEvent
  BY <1>1 DEF ConnType, SubType
<1>3. /\ Batch(c) \subseteq Event /\ Queued(c) \subseteq Event
      /\ Elements(wire[c]) \subseteq Event
  BY <1>1, <1>2, ElementsType DEF Batch, Queued
<1>4. top \in Nat /\ reader.last \in Nat /\ out.event \in Nat
  BY EventsAreNumbers DEF TypeOK
<1> QED
  BY <1>1, <1>2, <1>3, <1>4, EventsAreNumbers DEF Ahead, Sent

-----------------------------------------------------------------------------
(* The journal and its reader *)

\* A step that does not read leaves the reader's place what it was.
LEMMA ReaderKept ==
    ASSUME TypeOK, Reader, reader' = reader, top' \in Nat, top <= top',
           out'.event = out.event, out'.targets \subseteq out.targets,
           \A c \in out'.targets : Upstream(c)',
           ~ reader.known => \A c \in Client : Ahead(c)' = {}
    PROVE  Reader'
<1>1. reader.last \in Nat /\ top \in Nat
  BY EventsAreNumbers DEF TypeOK
<1>2. reader'.last <= top'
  BY <1>1 DEF Reader
<1>3. out'.targets # {} => reader.known /\ out'.event = reader.last /\ out'.event # 0
  BY DEF Reader
<1>4. reader.pc # "idle" => ~ reader.known
  BY DEF Reader
<1> QED
  BY <1>2, <1>3, <1>4 DEF Reader

LEMMA PublishStep == ASSUME IInv, Publish PROVE IInv'
<1>1. top' = top + 1 /\ top \in Nat /\ top' \in 0..MaxEvent
  BY EventsAreNumbers DEF Publish, IInv, TypeOK
<1>2. TypeOK'
  BY <1>1 DEF Publish, IInv, TypeOK, connVars
<1>3. Reader'
  <2>1. conn' = conn /\ sub' = sub /\ reader' = reader /\ out' = out
    BY DEF Publish, connVars
  <2>2. \A c \in Client : (Upstream(c)' <=> Upstream(c)) /\ Ahead(c)' = Ahead(c)
    BY <2>1 DEF Upstream, Ahead, Batch, Queued
  <2>3. TypeOK /\ Reader /\ out.targets \subseteq Client
    BY DEF IInv, TypeOK
  <2>4. \A c \in out'.targets : Upstream(c)'
    BY <2>1, <2>2, <2>3 DEF Reader
  <2>5. ~ reader.known => \A c \in Client : Ahead(c)' = {}
    BY <2>2, <2>3 DEF Reader
  <2> QED
    BY <1>1, <2>1, <2>3, <2>4, <2>5, ReaderKept
<1>4. ASSUME NEW c \in Client PROVE Connection(c)'
  <2>1. Connection(c) /\ got[c] \subseteq Nat /\ Elements(wire[c]) \subseteq Nat /\ conn[c].sent \in Nat
    BY ClientTypes DEF IInv, Sent
  <2> QED
    BY <1>1, <2>1, OthersKeepTheirs DEF Publish, connVars
<1> QED
  BY <1>2, <1>3, <1>4 DEF IInv

\* While the reader does not know its place a jump leaves no hole: who streams
\* has nothing ahead, and what is jumped over is counted.
LEMMA JumpStep ==
    ASSUME IInv, ~ reader.known, JumpTo(top),
           conn' = conn, sub' = sub, wire' = wire, got' = got, top' = top, out' = out,
           reader'.last = top
    PROVE  \A c \in Client : Connection(c)' /\ missed'[c] \subseteq Event
<1> SUFFICES ASSUME NEW c \in Client PROVE Connection(c)' /\ missed'[c] \subseteq Event
  OBVIOUS
<1> USE DEF Batch, Queued, Ahead, Sent, Upstream
<1>1. /\ Ahead(c) = {} /\ c \notin out.targets /\ missed[c] \subseteq missed'[c]
      /\ missed'[c] \subseteq Event
  BY ClientTypes DEF IInv, Reader, JumpTo
<1>2. conn[c].pc = "stream" => \A e \in Event : conn[c].sent < e /\ e <= top => e \in missed'[c]
  BY DEF JumpTo
<1>3. Connection(c)
  BY DEF IInv
<1>4. HasLast(c)' /\ Leftovers(c)' /\ InLine(c)'
  BY <1>1, <1>3 DEF Connection, HasLast, Leftovers, InLine
<1>5. Received(c)'
  BY <1>3 DEF Connection, Received
<1>6. NoHole(c)'
  BY <1>1, <1>3 DEF Connection, NoHole
<1>7. NoHoleAhead(c)'
  <2>1. Ahead(c)' = {} /\ conn' = conn /\ reader'.last = top
    BY <1>1
  <2>2. ASSUME conn'[c].pc = "stream", NEW e \in Event, conn'[c].sent < e, e <= reader'.last
        PROVE  e \in missed'[c]
    BY <1>2, <2>1, <2>2
  <2> HIDE DEF Ahead, Sent
  <2> QED
    BY <2>1, <2>2, Zenon DEF NoHoleAhead
<1> QED
  BY <1>1, <1>4, <1>5, <1>6, <1>7 DEF Connection

\* A reader that asks for its place anew, or starts from the beginning, promises nothing.
LEMMA LostPlaceStep ==
    ASSUME IInv, ~ reader.known,
           conn' = conn, sub' = sub, wire' = wire, got' = got, top' = top, out' = out,
           missed' = missed,
           (~ reader'.known /\ reader'.pc # "read") \/ reader'.last = 0
    PROVE  \A c \in Client : Connection(c)'
<1> SUFFICES ASSUME NEW c \in Client PROVE Connection(c)'
  OBVIOUS
<1> USE DEF Batch, Queued, Ahead, Sent, Upstream
<1>1. Ahead(c) = {} /\ c \notin out.targets
  BY DEF IInv, Reader
<1>2. Connection(c)
  BY DEF IInv
<1>3. HasLast(c)' /\ Leftovers(c)' /\ InLine(c)'
  BY <1>1, <1>2 DEF Connection, HasLast, Leftovers, InLine
<1>4. Received(c)'
  BY <1>2 DEF Connection, Received
<1>5. NoHole(c)'
  BY <1>2 DEF Connection, NoHole
<1>6. NoHoleAhead(c)'
  <2>1. Ahead(c)' = {}
    BY <1>1
  <2>2. ASSUME NEW e \in Event, e <= reader'.last PROVE ~ reader'.known /\ reader'.pc # "read"
    BY <2>2, EventsAreNumbers
  <2> HIDE DEF Ahead, Sent
  <2> QED
    BY <2>1, <2>2, Zenon DEF NoHoleAhead
<1> QED
  BY <1>3, <1>4, <1>5, <1>6 DEF Connection

ReaderType == [pc : {"idle", "read", "info"}, known : BOOLEAN, last : 0..MaxEvent]

LEMMA ReadNewStep == ASSUME IInv, ReadNew PROVE IInv'
<1>1. /\ ~ reader.known /\ JumpTo(top) /\ top' = top /\ out' = out /\ policy' = policy
      /\ faults' = faults /\ conn' = conn /\ sub' = sub /\ wire' = wire /\ got' = got
  BY DEF ReadNew, connVars
<1>2. reader \in ReaderType /\ top \in 0..MaxEvent
  BY DEF IInv, TypeOK, ReaderType
<1>3. reader' \in ReaderType /\ ~ reader'.known /\ reader'.last = top
  BY <1>1, <1>2 DEF ReadNew, ReaderType
<1>4. \A c \in Client : Connection(c)' /\ missed'[c] \subseteq Event
  BY <1>1, <1>3, JumpStep
<1>5. missed' \in [Client -> SUBSET Event]
  BY <1>1, <1>4 DEF JumpTo
<1>6. TypeOK'
  BY <1>1, <1>3, <1>5 DEF IInv, TypeOK, ReaderType
<1>7. Reader'
  <2>1. \A c \in Client : Ahead(c)' = Ahead(c)
    BY <1>1 DEF Ahead, Batch, Queued
  <2> QED
    BY <1>1, <1>2, <1>3, <2>1, EventsAreNumbers DEF IInv, Reader
<1> QED
  BY <1>4, <1>6, <1>7 DEF IInv

LEMMA ReadInfoStep == ASSUME IInv, ReadInfo PROVE IInv'
<1>1. /\ ~ reader.known /\ JumpTo(top) /\ top' = top /\ out' = out /\ policy' = policy
      /\ faults' = faults /\ conn' = conn /\ sub' = sub /\ wire' = wire /\ got' = got
  BY DEF ReadInfo, connVars, IInv, Reader
<1>2. reader' \in ReaderType /\ reader'.known /\ reader'.last = top /\ reader'.pc = "idle"
  BY DEF ReadInfo, ReaderType, IInv, TypeOK
<1>4. \A c \in Client : Connection(c)' /\ missed'[c] \subseteq Event
  BY <1>1, <1>2, JumpStep
<1>5. missed' \in [Client -> SUBSET Event]
  BY <1>1, <1>4 DEF JumpTo
<1>6. TypeOK'
  BY <1>1, <1>2, <1>5 DEF IInv, TypeOK, ReaderType
<1>7. Reader'
  <2>1. out.targets = {} /\ top \in Nat
    BY <1>1, EventsAreNumbers DEF IInv, Reader, TypeOK
  <2> QED
    BY <1>1, <1>2, <2>1 DEF Reader
<1> QED
  BY <1>4, <1>6, <1>7 DEF IInv

LEMMA ReadTimesOutStep == ASSUME IInv, ReadTimesOut PROVE IInv'
<1>1. /\ ~ reader.known /\ top' = top /\ out' = out /\ policy' = policy /\ faults' = faults
      /\ conn' = conn /\ sub' = sub /\ wire' = wire /\ got' = got /\ missed' = missed
  BY DEF ReadTimesOut, connVars, IInv, Reader
<1>2. reader \in ReaderType
  BY DEF IInv, TypeOK, ReaderType
<1>3. reader' \in ReaderType /\ ~ reader'.known /\ reader'.pc = "info" /\ reader'.last = reader.last
  BY <1>1, <1>2 DEF ReadTimesOut, ReaderType
<1>4. \A c \in Client : Connection(c)'
  BY <1>1, <1>3, LostPlaceStep
<1>5. TypeOK'
  BY <1>1, <1>3 DEF IInv, TypeOK, ReaderType
<1>6. Reader'
  <2>1. \A c \in Client : Ahead(c)' = Ahead(c)
    BY <1>1 DEF Ahead, Batch, Queued
  <2> QED
    BY <1>1, <1>3, <2>1 DEF IInv, Reader
<1> QED
  BY <1>4, <1>5, <1>6 DEF IInv

LEMMA ReadFailsStep == ASSUME IInv, ReadFails PROVE IInv'
<1>1. /\ ~ reader.known /\ top' = top /\ out' = out /\ policy' = policy
      /\ conn' = conn /\ sub' = sub /\ wire' = wire /\ got' = got /\ missed' = missed
  BY DEF ReadFails, connVars, IInv, Reader
<1>2. /\ reader' \in ReaderType /\ reader'.pc = "idle" /\ reader'.last = 0
      /\ faults' \in 0..MaxFaults
  <2>1. faults' \in 0..MaxFaults
    BY EventStreamAssumption DEF ReadFails, Fault, IInv, TypeOK, EventStreamAssumption
  <2>2. \/ reader' = [pc |-> "idle", known |-> FALSE, last |-> 0]
        \/ reader' = [pc |-> "idle", known |-> TRUE, last |-> 0]
    BY DEF ReadFails, NewReader
  <2>3. 0 \in 0..MaxEvent
    BY EventsAreNumbers
  <2>4. \A b \in BOOLEAN : [pc |-> "idle", known |-> b, last |-> 0] \in ReaderType
    BY <2>3 DEF ReaderType
  <2>5. reader'.pc = "idle" /\ reader'.last = 0
    BY <2>2
  <2> QED
    BY <2>1, <2>2, <2>4, <2>5
<1>3. \A c \in Client : Connection(c)'
  BY <1>1, <1>2, LostPlaceStep
<1>4. TypeOK'
  BY <1>1, <1>2 DEF IInv, TypeOK, ReaderType
<1>5. Reader'
  <2>1. \A c \in Client : Ahead(c)' = {}
    BY <1>1 DEF Ahead, Batch, Queued, IInv, Reader
  <2>2. out.targets = {} /\ top \in Nat
    BY <1>1, EventsAreNumbers DEF IInv, Reader, TypeOK
  <2> QED
    BY <1>1, <1>2, <2>1, <2>2 DEF Reader
<1> QED
  BY <1>3, <1>4, <1>5 DEF IInv

\* The next event goes to whoever is connected, after all that is in its queue.
LEMMA ReadNextStep == ASSUME IInv, ReadNext PROVE IInv'
<1> DEFINE n == reader.last + 1
<1>1. /\ out.targets = {} /\ (reader.known \/ reader.pc = "read")
      /\ top' = top /\ policy' = policy /\ faults' = faults
      /\ conn' = conn /\ sub' = sub /\ wire' = wire /\ got' = got /\ missed' = missed
  BY DEF ReadNext, connVars
<1>2. /\ reader.last \in Nat /\ top \in 0..MaxEvent /\ n <= top /\ n \in Event
  BY EventsAreNumbers DEF ReadNext, IInv, TypeOK, Event
<1>3. /\ reader'.pc = "idle" /\ reader'.known /\ reader'.last = n /\ reader' \in ReaderType
      /\ out'.event = n /\ out'.targets = {c \in Client : Upstream(c)}
      /\ out' \in [event : 0..MaxEvent, targets : SUBSET Client]
  <2>1. reader' = [pc |-> "idle", known |-> TRUE, last |-> n]
    BY DEF ReadNext
  <2>2. n \in 0..MaxEvent
    BY <1>2, EventsAreNumbers
  <2>3. out' = [event |-> n, targets |-> {c \in Client : Upstream(c)}]
    BY <2>1 DEF ReadNext, Upstream
  <2> QED
    BY <2>1, <2>2, <2>3 DEF ReaderType
<1>4. TypeOK'
  BY <1>1, <1>3 DEF IInv, TypeOK, ReaderType
<1>5. Reader'
  BY <1>1, <1>2, <1>3 DEF Reader, Upstream
<1>6. ASSUME NEW c \in Client PROVE Connection(c)'
  <2>1. Connection(c) /\ Ahead(c) \subseteq Nat /\ c \notin out.targets
    <3>1. TypeOK /\ Connection(c)
      BY DEF IInv
    <3> QED
      BY <1>1, <3>1, ClientTypes
  <2> USE DEF Batch, Queued, Ahead, Sent, Upstream
  <2>2. HasLast(c)' /\ Leftovers(c)'
    BY <1>1, <2>1 DEF Connection, HasLast, Leftovers
  <2>3. InLine(c)'
    <3>1. \A e \in Ahead(c) : e <= reader'.last /\ e < out'.event
      BY <1>2, <1>3, <2>1 DEF Connection, InLine
    <3> QED
      BY <1>1, <2>1, <3>1 DEF Connection, InLine
  <2>4. Received(c)'
    BY <1>1, <2>1 DEF Connection, Received
  <2>5. NoHole(c)'
    BY <1>1, <2>1 DEF Connection, NoHole
  <2>6. NoHoleAhead(c)'
    <3>1. ASSUME conn[c].pc = "stream", NEW d \in Sent(c) \cup Ahead(c), NEW e \in Event,
                 d < e, conn[c].sent < e
          PROVE  /\ \A f \in Ahead(c) : e <= f => e \in Ahead(c) \cup missed[c]
                 /\ ~ sub[c].done /\ e <= n => e \in Ahead(c) \cup missed[c] \/ e = n
      <4>1. e <= n => e = n \/ e <= reader.last
        BY <1>2, EventsAreNumbers
      <4> QED
        BY <1>1, <2>1, <3>1, <4>1 DEF Connection, NoHoleAhead
    <3>2. conn[c].pc = "stream" => c \in out'.targets
      BY <1>3
    <3>3. Ahead(c)' = Ahead(c) /\ Sent(c)' = Sent(c)
      BY <1>1
    <3> HIDE DEF Ahead, Sent, Batch, Queued
    <3> QED
      BY <1>1, <1>3, <3>1, <3>2, <3>3 DEF NoHoleAhead
  <2> QED
    BY <2>2, <2>3, <2>4, <2>5, <2>6 DEF Connection
<1> QED
  BY <1>4, <1>5, <1>6 DEF IInv

-----------------------------------------------------------------------------
(* The hub and the handlers *)

\* A step of one client's connection.
LEMMA OneClient ==
    ASSUME IInv, NEW c \in Client, TypeOK', Connection(c)',
           top' = top, reader' = reader, out'.event = out.event,
           out'.targets = out.targets \/ out'.targets = out.targets \ {c},
           c \in out'.targets => Upstream(c)',
           ~ reader.known => Ahead(c)' = {},
           \A k \in Client \ {c} : /\ conn'[k] = conn[k] /\ sub'[k] = sub[k]
                                   /\ wire'[k] = wire[k] /\ got'[k] = got[k]
                                   /\ missed'[k] = missed[k]
    PROVE  IInv'
<1>1. TypeOK /\ Reader /\ top \in Nat /\ \A k \in Client : Connection(k)
  <2>1. TypeOK /\ Reader /\ \A k \in Client : Connection(k)
    BY DEF IInv
  <2>2. top \in Nat
    BY <2>1, EventsAreNumbers DEF TypeOK
  <2> QED
    BY <2>1, <2>2
<1>2. Reader'
  <2>1. ASSUME NEW k \in out'.targets PROVE Upstream(k)'
    <3>1. CASE k = c
      BY <2>1, <3>1
    <3>2. CASE k # c
      <4>1. k \in out.targets /\ k \in Client
        BY <1>1, <2>1 DEF TypeOK
      <4> QED
        BY <1>1, <3>2, <4>1 DEF Reader, Upstream
    <3> QED
      BY <3>1, <3>2
  <2>2. ASSUME ~ reader.known, NEW k \in Client PROVE Ahead(k)' = {}
    <3>1. CASE k = c
      BY <2>2, <3>1
    <3>2. CASE k # c
      BY <1>1, <2>2, <3>2 DEF Reader, Ahead, Batch, Queued
    <3> QED
      BY <3>1, <3>2
  <2>3. out'.targets \subseteq out.targets
    OBVIOUS
  <2> QED
    BY <1>1, <2>1, <2>2, <2>3, ReaderKept
<1>3. ASSUME NEW k \in Client, k # c PROVE Connection(k)'
  <2>1. got[k] \subseteq Nat /\ Elements(wire[k]) \subseteq Nat /\ conn[k].sent \in Nat
    BY <1>1, ClientTypes DEF Sent
  <2> QED
    BY <1>1, <1>3, <2>1, OthersKeepTheirs
<1> QED
  BY <1>2, <1>3 DEF IInv

\* A queue that has taken the event that is delivered, or that is closed.
LEMMA PushStep == ASSUME IInv, NEW c \in Client, Push(c) PROVE IInv'
<1> DEFINE e == out.event
<1>1. /\ c \in out.targets /\ out' = [out EXCEPT !.targets = @ \ {c}]
      /\ policy' = policy /\ top' = top /\ reader' = reader /\ conn' = conn /\ wire' = wire
      /\ got' = got /\ faults' = faults
  BY DEF Push
<1>2. TypeOK /\ Reader /\ Connection(c)
  BY DEF IInv
<1>3. /\ out \in [event : 0..MaxEvent, targets : SUBSET Client]
      /\ out'.event = e /\ out'.targets = out.targets \ {c}
      /\ out' \in [event : 0..MaxEvent, targets : SUBSET Client]
  BY <1>1, <1>2 DEF TypeOK
<1>4. /\ reader.known /\ e = reader.last /\ e \in Event /\ Upstream(c)
      /\ \A x \in Ahead(c) : x < e
  BY <1>1, <1>2, <1>3, EventsAreNumbers DEF Reader, Connection, InLine, Event
<1>5. /\ sub[c] \in SubType /\ sub[c].items \in Seq(Event) /\ sub \in [Client -> SubType]
      /\ Ahead(c) \subseteq Event /\ Event \subseteq Nat /\ conn[c].sent \in Nat
      /\ missed \in [Client -> SUBSET Event]
  BY <1>2, ClientTypes DEF TypeOK, SubType
<1>6. \/ /\ sub[c].done /\ sub' = sub /\ missed' = missed
      \/ /\ ~ sub[c].done /\ sub' = [sub EXCEPT ![c].items = Append(@, e)] /\ missed' = missed
      \/ /\ ~ sub[c].done /\ sub[c].items # << >>
         /\ sub' = [sub EXCEPT ![c].items = Append(Tail(@), e)]
         /\ missed' = [missed EXCEPT ![c] = @ \cup {Head(sub[c].items)}]
      \/ /\ sub' = [sub EXCEPT ![c].done = TRUE, ![c].closed = TRUE] /\ missed' = missed
  <2>1. Full(c) => sub[c].items # << >>
    BY EventStreamAssumption DEF Full, EventStreamAssumption
  <2> QED
    BY <2>1 DEF Push
<1>7. /\ Batch(c)' = Batch(c) /\ Sent(c)' = Sent(c) /\ missed[c] \subseteq missed'[c]
      /\ c \notin out'.targets
  BY <1>1, <1>3, <1>5, <1>6 DEF Batch, Sent
\* Nothing is lost by the queue that is not counted.
<1>8. /\ sub' \in [Client -> SubType] /\ missed' \in [Client -> SUBSET Event]
      /\ Ascending(sub'[c].items) /\ Queued(c)' \subseteq Queued(c) \cup {e}
      /\ Queued(c) \cup missed[c] \subseteq Queued(c)' \cup missed'[c]
      /\ e \in Queued(c)' \/ sub'[c].done
      /\ sub[c].done => sub'[c].done /\ Queued(c)' = Queued(c)
  <2>1. CASE sub[c].done /\ sub' = sub /\ missed' = missed
    BY <1>2, <1>5, <2>1 DEF Connection, InLine, Queued
  <2>2. CASE /\ ~ sub[c].done /\ missed' = missed
             /\ sub' = [sub EXCEPT ![c].items = Append(@, e)]
    <3>1. sub'[c] = [sub[c] EXCEPT !.items = Append(@, e)]
      BY <1>5, <2>2
    <3>2. Append(sub[c].items, e) \in Seq(Event)
      BY <1>4, <1>5
    <3>3. sub'[c] \in SubType /\ sub'[c].items = Append(sub[c].items, e) /\ sub'[c].done = sub[c].done
      BY <1>5, <3>1, <3>2 DEF SubType
    <3>4. Ascending(sub[c].items) /\ Before(Elements(sub[c].items), {e})
      BY <1>2, <1>4 DEF Connection, InLine, Before, Ahead, Queued
    <3>5. Ascending(sub'[c].items) /\ Queued(c)' = Queued(c) \cup {e}
      BY <1>4, <1>5, <3>3, <3>4, Appended DEF Queued
    <3>6. sub' \in [Client -> SubType]
      BY <1>5, <2>2, <3>1, <3>3
    <3> QED
      BY <1>5, <2>2, <3>3, <3>5, <3>6 DEF SubType
  <2>3. CASE /\ ~ sub[c].done /\ sub[c].items # << >>
             /\ sub' = [sub EXCEPT ![c].items = Append(Tail(@), e)]
             /\ missed' = [missed EXCEPT ![c] = @ \cup {Head(sub[c].items)}]
    <3> DEFINE t == Tail(sub[c].items)
    <3>1. /\ t \in Seq(Event) /\ Elements(sub[c].items) = {Head(sub[c].items)} \cup Elements(t)
          /\ Ascending(t) /\ Head(sub[c].items) \in Event
      BY <1>2, <1>5, <2>3, TailProperties DEF Connection, InLine
    <3>2. sub'[c] = [sub[c] EXCEPT !.items = Append(t, e)]
      BY <1>5, <2>3
    <3> HIDE DEF t
    <3>3. Append(t, e) \in Seq(Event)
      BY <1>4, <3>1
    <3>4. sub'[c] \in SubType /\ sub'[c].items = Append(t, e) /\ sub'[c].done = sub[c].done
      BY <1>5, <3>2, <3>3 DEF SubType
    <3>5. Before(Elements(t), {e})
      BY <1>2, <1>4, <3>1 DEF Before, Ahead, Queued
    <3>6. Ascending(sub'[c].items) /\ Queued(c)' = Elements(t) \cup {e}
      BY <1>4, <3>1, <3>4, <3>5, Appended DEF Queued
    <3>7. sub' \in [Client -> SubType]
      BY <1>5, <2>3, <3>2, <3>4
    <3>8. /\ missed' \in [Client -> SUBSET Event]
          /\ missed'[c] = missed[c] \cup {Head(sub[c].items)}
      BY <1>5, <2>3, <3>1
    <3> QED
      BY <1>5, <2>3, <3>1, <3>4, <3>6, <3>7, <3>8 DEF Queued, SubType
  <2>4. CASE sub' = [sub EXCEPT ![c].done = TRUE, ![c].closed = TRUE] /\ missed' = missed
    <3>1. sub'[c] = [sub[c] EXCEPT !.done = TRUE, !.closed = TRUE]
      BY <1>5, <2>4
    <3>2. sub'[c] \in SubType /\ sub'[c].items = sub[c].items /\ sub'[c].done
      BY <1>5, <3>1 DEF SubType
    <3>3. sub' \in [Client -> SubType]
      BY <1>5, <2>4, <3>1, <3>2
    <3> QED
      BY <1>2, <1>5, <2>4, <3>2, <3>3 DEF Connection, InLine, Queued
  <2> QED
    BY <1>6, <2>1, <2>2, <2>3, <2>4
<1>9. /\ Ahead(c)' \subseteq Ahead(c) \cup {e}
      /\ Ahead(c) \cup missed[c] \subseteq Ahead(c)' \cup missed'[c]
      /\ e \in Ahead(c)' \/ sub'[c].done
      /\ sub[c].done => Ahead(c)' = Ahead(c)
      /\ \A x \in Ahead(c)' : x \in Nat /\ x <= reader.last
  <2>1. /\ Ahead(c)' \subseteq Ahead(c) \cup {e}
        /\ Ahead(c) \cup missed[c] \subseteq Ahead(c)' \cup missed'[c]
        /\ e \in Ahead(c)' \/ sub'[c].done
        /\ sub[c].done => Ahead(c)' = Ahead(c)
    BY <1>7, <1>8, Zenon DEF Ahead
  <2>2. ASSUME NEW x \in Ahead(c) \cup {e} PROVE x \in Nat /\ x <= reader.last
    <3>1. x \in Nat /\ e \in Nat /\ reader.last = e
      BY <1>4, <1>5
    <3>2. x < e \/ x = e
      BY <1>4
    <3> QED
      BY <3>1, <3>2
  <2>3. \A x \in Ahead(c)' : x \in Nat /\ x <= reader.last
    BY <2>1, <2>2, Zenon
  <2> QED
    BY <2>1, <2>3
<1>10. TypeOK'
  BY <1>1, <1>2, <1>3, <1>8 DEF TypeOK, SubType
<1>11. Connection(c)'
  <2>1. HasLast(c)' /\ Leftovers(c)' /\ Received(c)' /\ NoHole(c)'
    <3>1. Upstream(c)' /\ conn'[c].pc # "off"
      BY <1>1, <1>4 DEF Upstream
    <3>2. HasLast(c)' /\ Leftovers(c)'
      BY <1>1, <1>2, <1>7, <3>1 DEF Connection, HasLast, Leftovers
    <3>3. Received(c)'
      BY <1>1, <1>2, <1>7 DEF Connection, Received, Upstream
    <3>4. NoHole(c)'
      BY <1>2, <1>7 DEF Connection, NoHole
    <3> QED
      BY <3>2, <3>3, <3>4
  <2>2. InLine(c)'
    <3>1. Before(Batch(c), Queued(c) \cup {e})
      BY <1>2, <1>4 DEF Connection, InLine, Before, Ahead
    <3>2. Before(Batch(c), Queued(c)')
      BY <1>8, <3>1 DEF Before
    <3> QED
      BY <1>1, <1>2, <1>7, <1>8, <1>9, <3>2 DEF Connection, InLine
  <2>3. NoHoleAhead(c)'
    <3> SUFFICES ASSUME conn[c].pc = "stream", NEW d \in Sent(c) \cup Ahead(c)',
                        NEW x \in Event, d < x, conn[c].sent < x
                 PROVE  /\ \A f \in Ahead(c)' : x <= f => x \in Ahead(c)' \cup missed'[c]
                        /\ ~ sub'[c].done /\ x <= reader.last => x \in Ahead(c)' \cup missed'[c]
      BY <1>1, <1>7 DEF NoHoleAhead
    <3>1. CASE d = e
      <4>1. ~ (x <= reader.last) /\ \A f \in Ahead(c)' : ~ (x <= f)
        <5>1. x \in Nat /\ e \in Nat /\ e < x /\ reader.last = e
          BY <1>4, <3>1, EventsAreNumbers
        <5> HIDE DEF e
        <5> QED
          BY <1>9, <5>1
      <4> QED
        BY <4>1
    <3>2. CASE d # e
      <4>1. d \in Sent(c) \cup Ahead(c)
        BY <1>9, <3>2
      <4>2. /\ \A f \in Ahead(c) : x <= f => x \in Ahead(c) \cup missed[c]
            /\ ~ sub[c].done /\ x <= reader.last => x \in Ahead(c) \cup missed[c] \/ x = e
        BY <1>2, <1>4, <4>1 DEF Connection, NoHoleAhead
      <4>3. ~ sub'[c].done /\ x <= reader.last => x \in Ahead(c)' \cup missed'[c]
        BY <1>8, <1>9, <4>2
      <4>4. ASSUME NEW f \in Ahead(c)', x <= f PROVE x \in Ahead(c)' \cup missed'[c]
        <5>1. CASE f \in Ahead(c)
          BY <1>9, <4>2, <4>4, <5>1
        <5>2. CASE f \notin Ahead(c)
          <6>1. ~ sub[c].done /\ f = e
            BY <1>9, <5>2
          <6>2. x \in Ahead(c) \cup missed[c] \/ x = e
            BY <1>4, <4>2, <4>4, <6>1
          <6> QED
            BY <1>9, <6>1, <6>2
        <5> QED
          BY <5>1, <5>2
      <4> QED
        BY <4>3, <4>4
    <3> QED
      BY <3>1, <3>2
  <2> QED
    BY <2>1, <2>2, <2>3 DEF Connection
<1>12. \A k \in Client \ {c} : sub'[k] = sub[k] /\ missed'[k] = missed[k]
  BY <1>5, <1>6
<1> QED
  BY <1>1, <1>3, <1>4, <1>7, <1>10, <1>11, <1>12, OneClient

\* A new handler starts behind what the client has.
LEMMA ConnectStep == ASSUME IInv, NEW c \in Client, Connect(c) PROVE IInv'
<1> DEFINE p == IF got[c] = {} THEN "stream" ELSE "history"
           new == [pc |-> p, sent |-> Cursor(c), batch |-> << >>, held |-> 0]
<1>1. /\ conn[c].pc \in {"off", "ended"} /\ wire[c] = << >>
      /\ conn' = [conn EXCEPT ![c] = new] /\ sub' = [sub EXCEPT ![c] = newSubscriber]
      /\ policy' = policy /\ top' = top /\ reader' = reader /\ out' = out /\ wire' = wire
      /\ got' = got /\ missed' = missed /\ faults' = faults
  BY DEF Connect
<1>2. TypeOK /\ Reader /\ Connection(c) /\ c \notin out.targets
  BY <1>1 DEF IInv, Reader, Upstream
<1>3. /\ got[c] \subseteq Event /\ Event \subseteq Nat /\ top \in Nat
      /\ conn \in [Client -> ConnType] /\ sub \in [Client -> SubType]
  BY <1>2, ClientTypes DEF TypeOK, ConnType, SubType
<1>4. /\ Cursor(c) \in 0..MaxEvent /\ (got[c] = {} => Cursor(c) = 0)
      /\ (got[c] # {} => Cursor(c) \in got[c]) /\ \A f \in got[c] : f <= Cursor(c)
  BY <1>2, <1>3, CursorType DEF Connection, HasLast
<1>5. << >> \in Seq(Event)
  OBVIOUS
<1>6. new \in ConnType /\ newSubscriber \in SubType
  BY <1>4, <1>5 DEF ConnType, SubType, newSubscriber
<1>7. /\ conn'[c].pc = p /\ conn'[c].sent = Cursor(c) /\ conn'[c].batch = << >>
      /\ sub'[c].items = << >>
  BY <1>1, <1>3 DEF newSubscriber
<1>8. conn' \in [Client -> ConnType] /\ sub' \in [Client -> SubType]
  BY <1>1, <1>3, <1>6
<1>9. TypeOK'
  BY <1>1, <1>2, <1>8 DEF TypeOK, ConnType, SubType
<1>10. Elements(wire[c]) = {} /\ Batch(c)' = {} /\ Queued(c)' = {} /\ Ahead(c)' = {}
  BY <1>1, <1>7, EmptySequence DEF Batch, Queued, Ahead
<1>11. Sent(c)' = got[c] /\ Sent(c) = got[c]
  BY <1>1, <1>10 DEF Sent
<1>12. Upstream(c)'
  BY <1>7 DEF Upstream
<1>13. Connection(c)'
  <2>1. HasLast(c)' /\ Leftovers(c)'
    BY <1>1, <1>2, <1>7, <1>10 DEF Connection, HasLast, Leftovers
  <2>2. Received(c)'
    <3>1. /\ Ascending(wire[c]) /\ Before(got[c], Elements(wire[c]))
          /\ \A e \in got[c] : e <= top
      BY <1>2, <1>11 DEF Connection, Received
    <3>2. Cursor(c) <= top
      BY <1>3, <1>4, <3>1
    <3> QED
      BY <1>1, <1>4, <1>7, <1>11, <3>1, <3>2 DEF Received
  <2>3. InLine(c)'
    BY <1>7, <1>10, EmptySequence DEF InLine, Before
  <2>4. NoHole(c)'
    BY <1>1, <1>2, <1>11 DEF Connection, NoHole
  <2>5. NoHoleAhead(c)'
    BY <1>7, <1>10, <1>11 DEF NoHoleAhead
  <2> QED
    BY <2>1, <2>2, <2>3, <2>4, <2>5 DEF Connection
<1>14. \A k \in Client \ {c} : conn'[k] = conn[k] /\ sub'[k] = sub[k]
  BY <1>1, <1>3
<1> HIDE DEF new, p
<1> QED
  BY <1>1, <1>9, <1>10, <1>12, <1>13, <1>14, OneClient

\* The history fills the hole between what the client has and what the reader
\* hands out.
LEMMA ReadHistoryStep == ASSUME IInv, NEW c \in Client, ReadHistory(c) PROVE IInv'
<1> DEFINE k == conn[c].sent
           h == << >> \o [i \in 1..(top - k) |-> k + i]
<1>1. TypeOK /\ Reader /\ Connection(c) /\ conn[c].pc = "history"
  BY DEF IInv, ReadHistory
<1>2. /\ wire[c] = << >> /\ got[c] # {} /\ k <= top /\ Elements(wire[c]) = {}
      /\ Sent(c) = got[c]
  BY <1>1, EmptySequence DEF Connection, Leftovers, Received, Upstream, Sent
<1>3. /\ wire' = [wire EXCEPT ![c] = h]
      /\ conn' = [conn EXCEPT ![c].pc = "stream", ![c].sent = top]
      /\ policy' = policy /\ top' = top /\ reader' = reader /\ out' = out /\ sub' = sub
      /\ got' = got /\ missed' = missed /\ faults' = faults
  BY <1>2 DEF ReadHistory
<1>4. /\ conn \in [Client -> ConnType] /\ wire \in [Client -> Seq(Event)]
      /\ conn[c] \in ConnType /\ top \in 0..MaxEvent /\ reader.last \in Nat
      /\ Ahead(c) \subseteq Event /\ got[c] \subseteq Event
  BY <1>1, ClientTypes DEF TypeOK, ConnType
<1>5. k \in 0..MaxEvent /\ k \in Nat /\ top \in Nat
  BY <1>4, EventsAreNumbers DEF ConnType
<1>6. h \in Seq(Event) /\ Ascending(h) /\ Elements(h) = (k + 1)..top
  BY <1>2, <1>4, <1>5, HistoryProperties
<1> HIDE DEF h
<1>7. conn'[c] = [conn[c] EXCEPT !.pc = "stream", !.sent = top] /\ wire'[c] = h
  BY <1>3, <1>4
<1>8. /\ conn'[c] \in ConnType /\ conn'[c].pc = "stream" /\ conn'[c].sent = top
      /\ conn'[c].batch = conn[c].batch
  BY <1>4, <1>7 DEF ConnType
<1>9. conn' \in [Client -> ConnType] /\ wire' \in [Client -> Seq(Event)]
  BY <1>3, <1>4, <1>6, <1>7, <1>8
<1>10. TypeOK'
  BY <1>1, <1>3, <1>9 DEF TypeOK, ConnType
<1>11. Ahead(c)' = Ahead(c) /\ Queued(c)' = Queued(c) /\ Batch(c)' = Batch(c)
  BY <1>3, <1>8 DEF Ahead, Batch, Queued
<1>12. Sent(c)' = got[c] \cup (k + 1)..top
  BY <1>3, <1>6, <1>7 DEF Sent
<1>13. k \in got[c] /\ \A e \in got[c] : e <= k /\ e \in Nat
  <2>1. \A e \in got[c] : e \in Nat
    BY <1>4, EventsAreNumbers
  <2> QED
    BY <1>1, <1>2, <2>1 DEF Connection, Received, Upstream
<1>14. Connection(c)'
  <2>1. HasLast(c)' /\ Leftovers(c)'
    BY <1>1, <1>3, <1>8 DEF Connection, HasLast, Leftovers
  <2>2. Received(c)'
    <3>1. Before(got[c], (k + 1)..top)
      BY <1>5, <1>13 DEF Before
    <3>2. \A e \in got[c] \cup (k + 1)..top : e <= top
      BY <1>2, <1>5, <1>13
    <3>3. top \in got[c] \cup (k + 1)..top
      BY <1>2, <1>5, <1>13
    <3> QED
      BY <1>3, <1>5, <1>6, <1>7, <1>8, <1>12, <3>1, <3>2, <3>3 DEF Received
  <2>3. InLine(c)'
    BY <1>1, <1>3, <1>8, <1>11 DEF Connection, InLine
  <2>4. NoHole(c)'
    <3> SUFFICES ASSUME NEW d \in got[c] \cup (k + 1)..top, NEW f \in got[c] \cup (k + 1)..top,
                        NEW e \in Event, d < e, e <= f
                 PROVE  e \in got[c] \cup (k + 1)..top \cup missed[c]
      BY <1>3, <1>12 DEF NoHole
    <3>1. e \in Nat /\ f <= top /\ f \in Nat /\ d \in Nat
      BY <1>2, <1>5, <1>13, EventsAreNumbers
    <3>2. CASE e <= k
      <4>1. d \in got[c]
        BY <1>5, <3>1, <3>2
      <4> QED
        BY <1>1, <1>2, <1>13, <3>2, <4>1 DEF Connection, NoHole
    <3>3. CASE ~ (e <= k)
      BY <1>5, <3>1, <3>3
    <3> QED
      BY <3>2, <3>3
  <2>5. NoHoleAhead(c)'
    <3> SUFFICES ASSUME NEW e \in Event, top < e
                 PROVE  /\ \A f \in Ahead(c) : ~ (e <= f)
                        /\ ~ (e <= reader.last)
      BY <1>3, <1>8, <1>11 DEF NoHoleAhead
    <3>1. e \in Nat /\ Ahead(c) \subseteq Nat
      BY <1>4, EventsAreNumbers
    <3>2. \A f \in Ahead(c) : f <= reader.last
      BY <1>1 DEF Connection, InLine
    <3>3. reader.last <= top
      BY <1>1 DEF Reader
    <3> QED
      BY <1>4, <1>5, <3>1, <3>2, <3>3
  <2> QED
    BY <2>1, <2>2, <2>3, <2>4, <2>5 DEF Connection
<1>15. \A i \in Client \ {c} : conn'[i] = conn[i] /\ wire'[i] = wire[i]
  BY <1>3, <1>4
<1>16. Upstream(c)' /\ (~ reader.known => Ahead(c)' = {})
  BY <1>1, <1>8, <1>11 DEF Upstream, Reader
<1> HIDE DEF k
<1> QED
  BY <1>3, <1>10, <1>14, <1>15, <1>16, OneClient

LEMMA FaultStep == ASSUME TypeOK, Fault PROVE faults' \in 0..MaxFaults
BY EventStreamAssumption DEF Fault, TypeOK, EventStreamAssumption

\* What the connection carried is lost; what the client has got stays without a hole.
LEMMA ConnectionLost ==
    ASSUME NEW c \in Client, TypeOK, Connection(c), conn'[c] = Off, sub'[c] = newSubscriber,
           wire'[c] = << >>, got' = got, missed' = missed, top' = top
    PROVE  Connection(c)' /\ Ahead(c)' = {} /\ ~ Upstream(c)'
<1>1. got[c] \subseteq Event /\ Event \subseteq Nat /\ Sent(c) \subseteq Event
  BY ClientTypes
<1>2. conn'[c].pc = "off" /\ conn'[c].batch = << >> /\ sub'[c].items = << >>
  BY DEF Off, newSubscriber
<1>3. Batch(c)' = {} /\ Queued(c)' = {} /\ Ahead(c)' = {} /\ Elements(wire'[c]) = {}
  BY <1>2, EmptySequence DEF Batch, Queued, Ahead
<1>4. ~ Upstream(c)' /\ Sent(c)' = got[c]
  BY <1>2, <1>3 DEF Upstream, Sent
<1>5. HasLast(c)' /\ Leftovers(c)'
  BY <1>2, <1>3 DEF Connection, HasLast, Leftovers
<1>6. Received(c)'
  BY <1>3, <1>4, EmptySequence DEF Connection, Received, Before, Sent
<1>7. InLine(c)'
  BY <1>2, <1>3, EmptySequence DEF InLine, Before
<1>8. NoHole(c)'
  <2> SUFFICES ASSUME NEW d \in got[c], NEW f \in got[c], NEW e \in Event, d < e, e <= f
               PROVE  e \in got[c] \cup missed[c]
    BY <1>4 DEF NoHole
  <2>1. e \in got[c] \cup Elements(wire[c]) \cup missed[c]
    BY DEF Connection, NoHole, Sent
  <2>2. e \notin Elements(wire[c])
    BY <1>1 DEF Connection, Received, Before
  <2> QED
    BY <2>1, <2>2
<1>9. NoHoleAhead(c)'
  BY <1>2 DEF NoHoleAhead
<1> QED
  BY <1>3, <1>4, <1>5, <1>6, <1>7, <1>8, <1>9 DEF Connection

LEMMA FreshTypes == Off \in ConnType /\ newSubscriber \in SubType /\ << >> \in Seq(Event)
<1>1. << >> \in Seq(Event) /\ 0 \in 0..MaxEvent
  BY EventsAreNumbers
<1> QED
  BY <1>1 DEF Off, newSubscriber, ConnType, SubType

LEMMA DisconnectedStep ==
    ASSUME IInv, NEW c \in Client, Fault, Disconnected(c),
           UNCHANGED <<policy, top, reader, got, missed>>
    PROVE  IInv'
<1>1. TypeOK /\ Connection(c)
  BY DEF IInv
<1>2. /\ conn \in [Client -> ConnType] /\ sub \in [Client -> SubType]
      /\ wire \in [Client -> Seq(Event)] /\ out \in [event : 0..MaxEvent, targets : SUBSET Client]
  BY <1>1 DEF TypeOK, ConnType, SubType
<1>3. /\ conn' \in [Client -> ConnType] /\ sub' \in [Client -> SubType]
      /\ wire' \in [Client -> Seq(Event)]
      /\ conn'[c] = Off /\ sub'[c] = newSubscriber /\ wire'[c] = << >>
      /\ \A k \in Client \ {c} : conn'[k] = conn[k] /\ sub'[k] = sub[k] /\ wire'[k] = wire[k]
  BY <1>2, FreshTypes DEF Disconnected
<1>4. /\ out'.event = out.event /\ out'.targets = out.targets \ {c}
      /\ out' \in [event : 0..MaxEvent, targets : SUBSET Client]
  BY <1>2 DEF Disconnected
<1>5. TypeOK'
  BY <1>1, <1>3, <1>4, FaultStep DEF TypeOK, ConnType, SubType
<1>6. Connection(c)' /\ Ahead(c)' = {}
  BY <1>1, <1>3, ConnectionLost
<1> QED
  BY <1>3, <1>4, <1>5, <1>6, OneClient

LEMMA RestartStep == ASSUME IInv, Restart PROVE IInv'
<1>1. TypeOK
  BY DEF IInv
<1>2. \A c \in Client : conn'[c] = Off /\ sub'[c] = newSubscriber /\ wire'[c] = << >>
  BY DEF Restart
<1>3. \A c \in Client : Connection(c)' /\ Ahead(c)' = {}
  BY <1>1, <1>2, ConnectionLost DEF IInv, Restart
<1>4. /\ conn' \in [Client -> ConnType] /\ sub' \in [Client -> SubType]
      /\ wire' \in [Client -> Seq(Event)]
  BY FreshTypes DEF Restart
<1>5. /\ 0 \in 0..MaxEvent /\ reader' = [pc |-> "idle", known |-> FALSE, last |-> 0]
      /\ out' = [event |-> 0, targets |-> {}]
  BY EventsAreNumbers DEF Restart, NewReader, Nothing
<1>6. TypeOK'
  <2>1. reader' \in ReaderType /\ out' \in [event : 0..MaxEvent, targets : SUBSET Client]
    BY <1>5 DEF ReaderType
  <2> QED
    BY <1>1, <1>4, <2>1, FaultStep DEF Restart, TypeOK, ReaderType, ConnType, SubType
<1>7. Reader'
  <2>1. top' \in Nat
    BY <1>6, EventsAreNumbers DEF TypeOK
  <2>2. reader'.last = 0 /\ reader'.pc = "idle" /\ out'.targets = {}
    BY <1>5
  <2> QED
    BY <1>3, <2>1, <2>2 DEF Reader
<1> QED
  BY <1>3, <1>6, <1>7 DEF IInv

\* What was in the queue follows what is not yet sent.
LEMMA NextStep == ASSUME IInv, NEW c \in Client, next(c) PROVE IInv'
<1> DEFINE b == conn[c].batch
           q == sub[c].items
           n == IF b = << >> THEN 0 ELSE Len(q)
<1>1. TypeOK /\ Reader /\ Connection(c)
  BY DEF IInv
<1>2. /\ conn \in [Client -> ConnType] /\ sub \in [Client -> SubType]
      /\ conn[c] \in ConnType /\ sub[c] \in SubType
      /\ b \in Seq(Event) /\ q \in Seq(Event) /\ n \in Nat
  BY <1>1 DEF TypeOK, ConnType, SubType
<1>3. /\ conn[c].pc = "stream"
      /\ conn' = [conn EXCEPT ![c].batch = b \o q, ![c].held = n]
      /\ sub' = [sub EXCEPT ![c].items = << >>]
      /\ policy' = policy /\ top' = top /\ reader' = reader /\ out' = out /\ wire' = wire
      /\ got' = got /\ missed' = missed /\ faults' = faults
  BY DEF next
<1>4. /\ Ascending(b) /\ Ascending(q) /\ Before(Elements(b), Elements(q))
      /\ Batch(c) = Elements(b) /\ Queued(c) = Elements(q)
  BY <1>1 DEF Connection, InLine, Batch, Queued
<1> HIDE DEF b, q, n
<1> DEFINE t == b \o q
<1>5. t \in Seq(Event) /\ Ascending(t) /\ Elements(t) = Ahead(c)
  BY <1>2, <1>4, Concatenated DEF Ahead
<1>6. /\ conn'[c] = [conn[c] EXCEPT !.batch = t, !.held = n]
      /\ sub'[c] = [sub[c] EXCEPT !.items = << >>]
      /\ \A k \in Client \ {c} : conn'[k] = conn[k] /\ sub'[k] = sub[k]
  BY <1>2, <1>3
<1> HIDE DEF t
<1>7. /\ conn'[c] \in ConnType /\ conn'[c].pc = conn[c].pc /\ conn'[c].sent = conn[c].sent
      /\ conn'[c].batch = t
  BY <1>2, <1>5, <1>6 DEF ConnType
<1>8. sub'[c] \in SubType /\ sub'[c].items = << >> /\ sub'[c].done = sub[c].done
  <2>1. << >> \in Seq(Event)
    OBVIOUS
  <2> QED
    BY <1>2, <1>6, <2>1 DEF SubType
<1>9. TypeOK'
  <2>1. conn' \in [Client -> ConnType] /\ sub' \in [Client -> SubType]
    BY <1>2, <1>3, <1>6, <1>7, <1>8
  <2> QED
    BY <1>1, <1>3, <2>1 DEF TypeOK, ConnType, SubType
<1>10. Batch(c)' = Ahead(c) /\ Queued(c)' = {} /\ Ahead(c)' = Ahead(c)
  BY <1>5, <1>7, <1>8, EmptySequence DEF Batch, Queued, Ahead
<1>11. Sent(c)' = Sent(c) /\ (Upstream(c)' <=> Upstream(c)) /\ Upstream(c)
  BY <1>3, <1>7 DEF Sent, Upstream
<1>12. Connection(c)'
  <2>1. HasLast(c)' /\ Leftovers(c)'
    BY <1>1, <1>3, <1>7 DEF Connection, HasLast, Leftovers
  <2>2. Received(c)'
    BY <1>1, <1>3, <1>7, <1>11 DEF Connection, Received
  <2>3. InLine(c)'
    BY <1>1, <1>3, <1>5, <1>7, <1>8, <1>10, EmptySequence DEF Connection, InLine, Before
  <2>4. NoHole(c)'
    BY <1>1, <1>3, <1>11 DEF Connection, NoHole
  <2>5. NoHoleAhead(c)'
    BY <1>1, <1>3, <1>7, <1>8, <1>10, <1>11 DEF Connection, NoHoleAhead
  <2> QED
    BY <2>1, <2>2, <2>3, <2>4, <2>5 DEF Connection
<1> QED
  BY <1>1, <1>3, <1>6, <1>9, <1>10, <1>11, <1>12, OneClient DEF Reader

\* A handler that returns.
LEMMA EndStreamStep == ASSUME IInv, NEW c \in Client, EndStream(c) PROVE IInv'
<1>1. TypeOK /\ Reader /\ Connection(c)
  BY DEF IInv
<1>2. /\ conn \in [Client -> ConnType] /\ conn[c] \in ConnType
      /\ out \in [event : 0..MaxEvent, targets : SUBSET Client]
  BY <1>1 DEF TypeOK, ConnType
<1>3. /\ conn[c].batch = << >> /\ conn' = [conn EXCEPT ![c].pc = "ended"]
      /\ out' = [out EXCEPT !.targets = @ \ {c}] /\ sub' = sub
      /\ policy' = policy /\ top' = top /\ reader' = reader /\ wire' = wire
      /\ got' = got /\ missed' = missed /\ faults' = faults
  BY DEF EndStream
<1>4. /\ conn'[c] = [conn[c] EXCEPT !.pc = "ended"]
      /\ \A k \in Client \ {c} : conn'[k] = conn[k]
      /\ out'.event = out.event /\ out'.targets = out.targets \ {c}
      /\ out' \in [event : 0..MaxEvent, targets : SUBSET Client]
  BY <1>2, <1>3
<1>5. conn'[c] \in ConnType /\ conn'[c].pc = "ended" /\ conn'[c].batch = conn[c].batch
  BY <1>2, <1>4 DEF ConnType
<1>6. TypeOK'
  <2>1. conn' \in [Client -> ConnType]
    BY <1>2, <1>3, <1>4, <1>5
  <2> QED
    BY <1>1, <1>3, <1>4, <2>1 DEF TypeOK, ConnType
<1>7. /\ Batch(c)' = Batch(c) /\ Batch(c) = {} /\ Queued(c)' = Queued(c) /\ Ahead(c)' = Ahead(c)
      /\ Sent(c)' = Sent(c) /\ ~ Upstream(c)'
  BY <1>3, <1>5, EmptySequence DEF Batch, Queued, Ahead, Sent, Upstream
<1>8. Connection(c)'
  <2>1. HasLast(c)' /\ Leftovers(c)' /\ NoHoleAhead(c)'
    BY <1>1, <1>3, <1>5, <1>7 DEF Connection, HasLast, Leftovers, NoHoleAhead
  <2>2. Received(c)' /\ NoHole(c)'
    BY <1>1, <1>3, <1>7 DEF Connection, Received, NoHole
  <2>3. InLine(c)'
    BY <1>1, <1>3, <1>4, <1>5, <1>7 DEF Connection, InLine
  <2> QED
    BY <2>1, <2>2, <2>3 DEF Connection
<1> QED
  BY <1>1, <1>3, <1>4, <1>6, <1>7, <1>8, OneClient DEF Reader

\* The first event of what is ahead is sent next, unless the client has it.
LEMMA SendStep == ASSUME IInv, NEW c \in Client, Send(c) PROVE IInv'
<1> DEFINE b == conn[c].batch
           h == Head(b)
           s == conn[c].sent
<1>1. TypeOK /\ Reader /\ Connection(c) /\ conn[c].pc = "stream" /\ b # << >>
  BY DEF IInv, Send
<1>2. /\ conn \in [Client -> ConnType] /\ wire \in [Client -> Seq(Event)]
      /\ conn[c] \in ConnType /\ wire[c] \in Seq(Event)
  BY <1>1 DEF TypeOK, ConnType
<1>3. b \in Seq(Event) /\ s \in 0..MaxEvent
  BY <1>2 DEF ConnType
<1>4. /\ h \in Event /\ Tail(b) \in Seq(Event) /\ Batch(c) = {h} \cup Elements(Tail(b))
      /\ Ascending(Tail(b)) /\ Before({h}, Elements(Tail(b)))
  BY <1>1, <1>3, TailProperties DEF Connection, InLine, Batch
<1>5. /\ Sent(c) \subseteq Nat /\ Ahead(c) \subseteq Nat /\ Event \subseteq Nat /\ s \in Nat /\ h \in Nat
      /\ top \in Nat /\ reader.last \in Nat
  <2>1. Sent(c) \subseteq Event /\ Ahead(c) \subseteq Event /\ Event \subseteq Nat \ {0}
    BY <1>1, ClientTypes
  <2>2. top \in Nat /\ reader.last \in Nat /\ s \in Nat
    BY <1>1, ClientTypes
  <2> QED
    BY <1>4, <2>1, <2>2
<1>6. /\ policy' = policy /\ top' = top /\ reader' = reader /\ out' = out /\ sub' = sub
      /\ got' = got /\ missed' = missed /\ faults' = faults
      /\ wire' = IF h <= s THEN wire ELSE [wire EXCEPT ![c] = Append(@, h)]
      /\ conn' = [conn EXCEPT ![c].batch = Tail(@), ![c].held = HeldAfter(c),
                              ![c].sent = IF h <= @ THEN @ ELSE h]
  BY DEF Send
<1> DEFINE t == IF h <= s THEN s ELSE h
<1>0. HeldAfter(c) \in Nat
  BY <1>2 DEF HeldAfter, ConnType
<1> HIDE DEF b, h, s
<1>7. /\ conn'[c] \in ConnType /\ conn'[c].pc = "stream" /\ conn'[c].sent = t
      /\ conn'[c].batch = Tail(b) /\ conn' \in [Client -> ConnType]
      /\ \A k \in Client \ {c} : conn'[k] = conn[k]
  <2>1. t \in 0..MaxEvent
    BY <1>3, <1>4, EventsAreNumbers DEF Event
  <2>2. conn'[c] = [conn[c] EXCEPT !.batch = Tail(b), !.held = HeldAfter(c), !.sent = t]
    BY <1>2, <1>6 DEF b, s
  <2>3. /\ conn'[c] \in ConnType /\ conn'[c].pc = "stream" /\ conn'[c].sent = t
        /\ conn'[c].batch = Tail(b)
    BY <1>1, <1>2, <1>4, <1>0, <2>1, <2>2 DEF ConnType
  <2> QED
    BY <1>2, <1>6, <2>3
<1>8. /\ Batch(c)' = Elements(Tail(b)) /\ Queued(c)' = Queued(c)
      /\ Ahead(c) = {h} \cup Ahead(c)' /\ Before({h}, Ahead(c)')
  <2>1. Batch(c)' = Elements(Tail(b)) /\ Queued(c)' = Queued(c)
    BY <1>6, <1>7 DEF Batch, Queued
  <2>2. Before({h}, Queued(c))
    BY <1>1, <1>4 DEF Connection, InLine, Before
  <2> QED
    BY <1>4, <2>1, <2>2 DEF Ahead, Before
<1>9. /\ Ascending(wire[c]) /\ Before(got[c], Elements(wire[c]))
      /\ \A e \in Sent(c) : e <= s /\ e <= top
      /\ s <= top /\ (Sent(c) = {} \/ s \in Sent(c))
      /\ h <= reader.last /\ reader.last <= top /\ h <= top
  <2>1. h \in Ahead(c)
    BY <1>8
  <2>2. h <= reader.last /\ reader.last <= top
    BY <1>1, <2>1 DEF Connection, InLine, Reader
  <2>3. h <= top
    BY <1>5, <2>2
  <2> QED
    BY <1>1, <2>2, <2>3 DEF Connection, Received, Upstream, s
<1>10. /\ wire' \in [Client -> Seq(Event)] /\ \A k \in Client \ {c} : wire'[k] = wire[k]
       /\ Ascending(wire'[c]) /\ Before(got[c], Elements(wire'[c]))
       /\ Sent(c)' = IF h <= s THEN Sent(c) ELSE Sent(c) \cup {h}
  <2>1. CASE h <= s
    BY <1>2, <1>6, <1>9, <2>1 DEF Sent
  <2>2. CASE ~ (h <= s)
    <3>1. wire'[c] = Append(wire[c], h) /\ wire' = [wire EXCEPT ![c] = Append(@, h)]
      BY <1>2, <1>6, <2>2
    <3>2. Before(Sent(c), {h})
      BY <1>5, <1>9, <2>2 DEF Before
    <3>3. Before(got[c], {h}) /\ Before(Elements(wire[c]), {h})
      BY <3>2 DEF Before, Sent
    <3>4. Ascending(wire'[c]) /\ Elements(wire'[c]) = Elements(wire[c]) \cup {h}
      BY <1>2, <1>4, <1>9, <3>1, <3>3, Appended
    <3>5. Append(wire[c], h) \in Seq(Event)
      BY <1>2, <1>4
    <3>6. wire' \in [Client -> Seq(Event)] /\ \A k \in Client \ {c} : wire'[k] = wire[k]
      BY <1>2, <3>1, <3>5
    <3>7. Before(got[c], Elements(wire'[c]))
      BY <1>9, <3>3, <3>4 DEF Before
    <3>8. Sent(c)' = Sent(c) \cup {h}
      BY <1>6, <3>4 DEF Sent
    <3> QED
      BY <2>2, <3>4, <3>6, <3>7, <3>8
  <2> QED
    BY <2>1, <2>2
<1>11. TypeOK'
  BY <1>1, <1>6, <1>7, <1>10 DEF TypeOK, ConnType
<1>12. /\ \A d \in Sent(c) \cup Ahead(c) : \A e \in Event : d < e /\ s < e =>
             /\ \A f \in Ahead(c) : e <= f => e \in Ahead(c) \cup missed[c]
             /\ /\ ~ sub[c].done /\ e <= reader.last
                /\ reader.known \/ reader.pc = "read"
                => \/ e \in Ahead(c) \cup missed[c]
                   \/ c \in out.targets /\ e = out.event
       /\ \A d, f \in Sent(c) : \A e \in Event : d < e /\ e <= f => e \in Sent(c) \cup missed[c]
  BY <1>1 DEF Connection, NoHoleAhead, NoHole, s
<1>13. Connection(c)'
  <2>1. HasLast(c)' /\ Leftovers(c)'
    BY <1>1, <1>6, <1>7 DEF Connection, HasLast, Leftovers
  <2>2. Received(c)'
    <3>1. t <= top
      BY <1>5, <1>9
    <3>2. \A e \in Sent(c)' : e <= t /\ e <= top
      BY <1>5, <1>9, <1>10
    <3>3. Sent(c)' = {} \/ t \in Sent(c)'
      BY <1>9, <1>10
    <3> QED
      BY <1>6, <1>7, <1>10, <3>1, <3>2, <3>3 DEF Received
  <2>3. InLine(c)'
    <3>1. Before(Elements(Tail(b)), Queued(c))
      BY <1>1, <1>4 DEF Connection, InLine, Before
    <3> QED
      BY <1>1, <1>4, <1>6, <1>7, <1>8, <3>1 DEF Connection, InLine
  <2>4. NoHole(c)'
    <3> SUFFICES ASSUME NEW d \in Sent(c)', NEW f \in Sent(c)', NEW e \in Event, d < e, e <= f
                 PROVE  e \in Sent(c)' \cup missed[c]
      BY <1>6 DEF NoHole
    <3>1. CASE h <= s
      BY <1>10, <1>12, <3>1
    <3>2. CASE ~ (h <= s)
      <4>1. Sent(c)' = Sent(c) \cup {h} /\ d \in Nat /\ e \in Nat /\ f \in Nat /\ e <= h
        <5>1. Sent(c)' = Sent(c) \cup {h}
          BY <1>10, <3>2
        <5>2. d \in Nat /\ e \in Nat /\ f \in Nat
          BY <1>5, <5>1
        <5>3. f <= s \/ f = h
          BY <1>9, <5>1
        <5> QED
          BY <1>5, <3>2, <5>1, <5>2, <5>3
      <4>2. d \in Sent(c)
        BY <4>1
      <4>3. CASE e <= s
        BY <1>9, <1>12, <4>1, <4>2, <4>3
      <4>4. CASE ~ (e <= s)
        <5>1. e \in Ahead(c) \cup missed[c]
          BY <1>5, <1>8, <1>12, <4>1, <4>2, <4>4
        <5>2. e \in Ahead(c)' => h < e
          BY <1>8 DEF Before
        <5> QED
          BY <1>5, <1>8, <4>1, <5>1, <5>2
      <4> QED
        BY <4>3, <4>4
    <3> QED
      BY <3>1, <3>2
  <2>5. NoHoleAhead(c)'
    <3> SUFFICES ASSUME NEW d \in Sent(c)' \cup Ahead(c)', NEW e \in Event, d < e, t < e
                 PROVE  /\ \A f \in Ahead(c)' : e <= f => e \in Ahead(c)' \cup missed[c]
                        /\ /\ ~ sub[c].done /\ e <= reader.last
                           /\ reader.known \/ reader.pc = "read"
                           => \/ e \in Ahead(c)' \cup missed[c]
                              \/ c \in out.targets /\ e = out.event
      <4>1. /\ conn'[c].sent = t /\ sub' = sub /\ out' = out /\ reader' = reader
            /\ missed' = missed
        BY <1>6, <1>7
      <4> QED
        BY <4>1, Zenon DEF NoHoleAhead
    <3>1. d \in Sent(c) \cup Ahead(c)
      BY <1>8, <1>10
    <3>2. s < e /\ e # h
      BY <1>5
    <3>3. \A f \in Ahead(c)' : f \in Ahead(c)
      BY <1>8
    <3>4. e \in Ahead(c) \cup missed[c] => e \in Ahead(c)' \cup missed[c]
      BY <1>8, <3>2
    <3> QED
      BY <1>12, <3>1, <3>2, <3>3, <3>4
  <2> QED
    BY <2>1, <2>2, <2>3, <2>4, <2>5 DEF Connection
<1>14. Upstream(c)' /\ (~ reader.known => Ahead(c)' = {})
  BY <1>1, <1>7, <1>8 DEF Upstream, Reader
<1> HIDE DEF t
<1> QED
  BY <1>6, <1>7, <1>10, <1>11, <1>13, <1>14, OneClient

\* The first event on the wire becomes the client's last.
LEMMA ReceiveStep == ASSUME IInv, NEW c \in Client, Receive(c) PROVE IInv'
<1> DEFINE h == Head(wire[c])
           t == Tail(wire[c])
<1>1. TypeOK /\ Reader /\ Connection(c) /\ wire[c] # << >>
  BY DEF IInv, Receive
<1>2. /\ wire \in [Client -> Seq(Event)] /\ got \in [Client -> SUBSET Event]
      /\ Sent(c) \subseteq Event /\ Event \subseteq Nat /\ got[c] \subseteq Event
  BY <1>1, ClientTypes DEF TypeOK
<1>3. Ascending(wire[c]) /\ Before(got[c], Elements(wire[c]))
  BY <1>1 DEF Connection, Received
<1>4. /\ h \in Event /\ t \in Seq(Event) /\ Elements(wire[c]) = {h} \cup Elements(t)
      /\ Ascending(t) /\ Before({h}, Elements(t))
  BY <1>1, <1>2, <1>3, TailProperties
<1>5. /\ wire' = [wire EXCEPT ![c] = t] /\ got' = [got EXCEPT ![c] = @ \cup {h}]
      /\ policy' = policy /\ top' = top /\ reader' = reader /\ out' = out /\ conn' = conn
      /\ sub' = sub /\ missed' = missed /\ faults' = faults
  BY DEF Receive
<1> HIDE DEF h, t
<1>6. /\ wire'[c] = t /\ got'[c] = got[c] \cup {h}
      /\ wire' \in [Client -> Seq(Event)] /\ got' \in [Client -> SUBSET Event]
      /\ \A k \in Client \ {c} : wire'[k] = wire[k] /\ got'[k] = got[k]
  BY <1>2, <1>4, <1>5
<1>7. TypeOK'
  BY <1>1, <1>5, <1>6 DEF TypeOK
<1>8. /\ Sent(c)' = Sent(c) /\ Ahead(c)' = Ahead(c) /\ Batch(c)' = Batch(c)
      /\ Queued(c)' = Queued(c) /\ (Upstream(c)' <=> Upstream(c))
  BY <1>4, <1>5, <1>6 DEF Sent, Ahead, Batch, Queued, Upstream
<1>9. Connection(c)'
  <2>1. HasLast(c)'
    <3>1. \A f \in got[c] \cup {h} : f <= h
      <4>1. h \in Elements(wire[c]) /\ h \in Nat
        BY <1>2, <1>4
      <4>2. \A f \in got[c] : f < h /\ f \in Nat
        BY <1>2, <1>3, <4>1 DEF Before
      <4> QED
        BY <4>1, <4>2
    <3> QED
      BY <1>6, <3>1 DEF HasLast
  <2>2. Leftovers(c)'
    BY <1>1, <1>5, <1>6, <1>8 DEF Connection, Leftovers
  <2>3. Received(c)'
    <3>1. Before(got[c] \cup {h}, Elements(t))
      BY <1>3, <1>4 DEF Before
    <3> QED
      BY <1>1, <1>4, <1>5, <1>6, <1>8, <3>1 DEF Connection, Received
  <2>4. InLine(c)' /\ NoHole(c)'
    BY <1>1, <1>5, <1>8 DEF Connection, InLine, NoHole
  <2>5. NoHoleAhead(c)'
    BY <1>1, <1>5, <1>8 DEF Connection, NoHoleAhead
  <2> QED
    BY <2>1, <2>2, <2>3, <2>4, <2>5 DEF Connection
<1>10. c \in out'.targets => Upstream(c)'
  BY <1>1, <1>5, <1>8 DEF Reader
<1>11. ~ reader.known => Ahead(c)' = {}
  BY <1>1, <1>8 DEF Reader
<1> QED
  BY <1>5, <1>6, <1>7, <1>9, <1>10, <1>11, OneClient
-----------------------------------------------------------------------------
(* The whole *)

LEMMA Initially == ASSUME Init PROVE IInv
<1>1. << >> \in Seq(Event) /\ 0 \in 0..MaxEvent /\ MaxFaults \in 0..MaxFaults
  BY EventsAreNumbers, EventStreamAssumption DEF EventStreamAssumption
<1>2. TypeOK
  <2>1. reader \in ReaderType /\ out \in [event : 0..MaxEvent, targets : SUBSET Client]
    BY <1>1 DEF Init, NewReader, Nothing, ReaderType
  <2>2. conn \in [Client -> ConnType] /\ sub \in [Client -> SubType]
    BY FreshTypes DEF Init
  <2>3. /\ wire \in [Client -> Seq(Event)] /\ got \in [Client -> SUBSET Event]
        /\ missed \in [Client -> SUBSET Event]
    BY <1>1 DEF Init
  <2> QED
    BY <1>1, <2>1, <2>2, <2>3 DEF Init, TypeOK, ReaderType, ConnType, SubType
<1>3. ASSUME NEW c \in Client PROVE Connection(c) /\ Ahead(c) = {}
  <2>1. /\ conn[c].pc = "off" /\ conn[c].batch = << >> /\ sub[c].items = << >>
        /\ wire[c] = << >> /\ got[c] = {}
    BY DEF Init, Off, newSubscriber
  <2>2. /\ Batch(c) = {} /\ Queued(c) = {} /\ Ahead(c) = {} /\ Sent(c) = {} /\ ~ Upstream(c)
        /\ Elements(wire[c]) = {}
    BY <2>1, EmptySequence DEF Batch, Queued, Ahead, Sent, Upstream
  <2> QED
    BY <2>1, <2>2, EmptySequence
       DEF Connection, HasLast, Leftovers, Received, InLine, NoHole, NoHoleAhead, Before
<1>4. Reader
  <2>1. /\ reader.last = 0 /\ reader.pc = "idle" /\ out.targets = {} /\ top = 0
    BY DEF Init, NewReader, Nothing
  <2> QED
    BY <1>3, <2>1 DEF Reader
<1> QED
  BY <1>2, <1>3, <1>4 DEF IInv

LEMMA Stuttering == ASSUME IInv, UNCHANGED vars PROVE IInv'
<1>1. /\ policy' = policy /\ top' = top /\ reader' = reader /\ out' = out /\ conn' = conn
      /\ sub' = sub /\ wire' = wire /\ got' = got /\ missed' = missed /\ faults' = faults
  BY DEF vars, connVars
<1>2. TypeOK' /\ Reader'
  BY <1>1 DEF IInv, TypeOK, Reader, Upstream, Ahead, Batch, Queued
<1>3. ASSUME NEW c \in Client PROVE Connection(c)'
  BY <1>1 DEF IInv, Connection, HasLast, Leftovers, Received, InLine, NoHole, NoHoleAhead,
              Upstream, Ahead, Batch, Queued, Sent
<1> QED
  BY <1>2, <1>3 DEF IInv

LEMMA Step == IInv /\ [Next]_vars => IInv'
<1> SUFFICES ASSUME IInv, [Next]_vars PROVE IInv'
  OBVIOUS
<1>1. CASE Publish
  BY <1>1, PublishStep
<1>2. CASE Run
  BY <1>2, ReadNewStep, ReadNextStep, ReadTimesOutStep, ReadInfoStep DEF Run
<1>3. CASE ReadFails
  BY <1>3, ReadFailsStep
<1>4. CASE Restart
  BY <1>4, RestartStep
<1>5. ASSUME NEW c \in Client,
             Push(c) \/ Connect(c) \/ handleSSE(c) \/ Receive(c) \/ HistoryFails(c) \/ Break(c)
      PROVE  IInv'
  <2>1. CASE Push(c)
    BY <2>1, PushStep
  <2>2. CASE Connect(c)
    BY <2>2, ConnectStep
  <2>3. CASE handleSSE(c)
    BY <2>3, ReadHistoryStep, NextStep, SendStep, EndStreamStep DEF handleSSE
  <2>4. CASE Receive(c)
    BY <2>4, ReceiveStep
  <2>5. CASE HistoryFails(c) \/ Break(c)
    BY <2>5, DisconnectedStep DEF HistoryFails, Break
  <2> QED
    BY <1>5, <2>1, <2>2, <2>3, <2>4, <2>5
<1>6. CASE UNCHANGED vars
  BY <1>6, Stuttering
<1> QED
  BY <1>1, <1>2, <1>3, <1>4, <1>5, <1>6 DEF Next

LEMMA Inductive == Spec => []IInv
<1>1. Init => IInv
  BY Initially
<1> QED
  BY <1>1, Step, PTL DEF Spec

\* The state has its types.
THEOREM Typing == Spec => []TypeOK
<1>1. IInv => TypeOK
  BY DEF IInv
<1> QED
  BY <1>1, Inductive, PTL

\* However history and queue overlap, whatever fails and whenever the journal is
\* read anew, no client receives an event twice or after a later one.
THEOREM ClientsReadInOrder == Spec => []InOrderOnce
<1>1. ASSUME IInv PROVE InOrderOnce
  <2> SUFFICES ASSUME NEW c \in Client,
                      NEW i \in DOMAIN (<<Cursor(c)>> \o wire[c]),
                      NEW j \in DOMAIN (<<Cursor(c)>> \o wire[c]), i < j
               PROVE  (<<Cursor(c)>> \o wire[c])[i] < (<<Cursor(c)>> \o wire[c])[j]
    BY DEF InOrderOnce
  <2> DEFINE w == wire[c]
             k == Cursor(c)
  <2>1. TypeOK /\ Connection(c)
    BY <1>1 DEF IInv
  <2>2. w \in Seq(Event) /\ got[c] \subseteq Event /\ Event \subseteq Nat \ {0}
    BY <2>1, ClientTypes
  <2>3. Ascending(w) /\ Before(got[c], Elements(w))
    BY <2>1 DEF Connection, Received
  <2>4. k \in 0..MaxEvent /\ (got[c] = {} => k = 0) /\ (got[c] # {} => k \in got[c])
    BY <2>1, <2>2, CursorType DEF Connection, HasLast
  <2> HIDE DEF w, k
  <2>5. k \in Nat /\ \A x \in Elements(w) : k < x
    <3>1. k \in Nat
      BY <2>4, EventsAreNumbers
    <3>2. \A x \in Elements(w) : x \in Nat \ {0}
      BY <2>2, ElementsType
    <3> QED
      BY <2>3, <2>4, <3>1, <3>2 DEF Before
  <2>6. /\ Len(w) \in Nat /\ DOMAIN w = 1..Len(w) /\ DOMAIN (<<k>> \o w) = 1..(Len(w) + 1)
        /\ (<<k>> \o w)[1] = k
        /\ \A n \in 2..(Len(w) + 1) : (<<k>> \o w)[n] = w[n - 1]
    BY <2>2, <2>5
  <2>7. i \in 1..(Len(w) + 1) /\ j \in 1..(Len(w) + 1)
    BY <2>6 DEF w, k
  <2>8. (<<k>> \o w)[j] = w[j - 1] /\ j - 1 \in DOMAIN w
    BY <2>6, <2>7
  <2>9. (<<k>> \o w)[i] < (<<k>> \o w)[j]
    <3>1. CASE i = 1
      BY <2>5, <2>6, <2>8, <3>1 DEF Elements
    <3>2. CASE i # 1
      <4>1. (<<k>> \o w)[i] = w[i - 1] /\ i - 1 \in DOMAIN w /\ i - 1 < j - 1
        BY <2>6, <2>7, <3>2
      <4> QED
        BY <2>3, <2>8, <4>1 DEF Ascending
    <3> QED
      BY <3>1, <3>2
  <2> QED
    BY <2>9 DEF w, k
<1> QED
  BY <1>1, Inductive, PTL

\* A client's cursor passes no event it has not received, but for those a full
\* queue dropped or the reader jumped over.
THEOREM NothingIsSkipped == Spec => []NoSilentGap
<1>1. ASSUME IInv PROVE NoSilentGap
  <2> SUFFICES ASSUME NEW c \in Client, NEW e \in Event, NEW d \in got[c], d < e, e <= Cursor(c)
               PROVE  e \in got[c] \cup missed[c]
    BY DEF NoSilentGap
  <2>1. TypeOK /\ Connection(c)
    BY <1>1 DEF IInv
  <2>2. got[c] \subseteq Event /\ Event \subseteq Nat
    BY <2>1, ClientTypes
  <2>3. Cursor(c) \in got[c]
    BY <2>1, <2>2, CursorType DEF Connection, HasLast
  <2>4. e \in got[c] \cup Elements(wire[c]) \cup missed[c]
    BY <2>1, <2>3 DEF Connection, NoHole, Sent
  <2>5. e \in Elements(wire[c]) => Cursor(c) < e
    BY <2>1, <2>3 DEF Connection, Received, Before
  <2> QED
    BY <2>2, <2>3, <2>4, <2>5
<1> QED
  BY <1>1, Inductive, PTL
=============================================================================
