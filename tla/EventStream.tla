----------------------------- MODULE EventStream -----------------------------
(***************************************************************************)
(* The event stream of architecture/realtime: server-go over the bus       *)
(* redis-streams, one topic, one instance.  The reader of the bus hands    *)
(* each entry of the journal to the queues of the connected clients; the   *)
(* handler of /sse sends a client the history after its Last-Event-ID and  *)
(* then what its queue brings.  The browser's side (reconnection with the  *)
(* number of the last event) and the journal are external.                 *)
(*                                                                         *)
(* The injections RT_SUBSCRIBE_LATE and RT_HISTORY_BARRIER are off.        *)
(***************************************************************************)
EXTENDS Naturals, Sequences, SequencesExt

CONSTANTS Client,
          QueueLen,  \* RT_QUEUE_LEN
          MaxEvent,  \* bound: events published
          MaxFaults  \* bound: connections, reads and processes that fail

ASSUME EventStreamAssumption ==
    /\ QueueLen \in Nat \ {0} /\ MaxEvent \in Nat /\ MaxFaults \in Nat

VARIABLES policy, \* RT_QUEUE
          top,    \* the journal holds the events 1..top
          reader, \* Run: what last[topic] is; known is FALSE for "$"
          out,    \* Hub.deliver under way: the event and who has yet to get it
          conn,   \* the handler of each client's connection
          sub,    \* the Subscriber of that connection
          wire,   \* sent and not yet received
          got,    \* the events a client has received
          missed, \* those the service has left out, knowing it or not
          faults

connVars == <<conn, sub, wire, got>>
vars == <<policy, top, reader, out, connVars, missed, faults>>

Event == 1..MaxEvent
Policy == {"unbounded", "drop-oldest", "disconnect"}

TypeOK ==
    /\ policy \in Policy
    /\ top \in 0..MaxEvent
    /\ reader \in [pc : {"idle", "read", "info"}, known : BOOLEAN, last : 0..MaxEvent]
    /\ out \in [event : 0..MaxEvent, targets : SUBSET Client]
    /\ conn \in [Client -> [pc : {"off", "history", "stream", "ended"},
                            sent : 0..MaxEvent, batch : Seq(Event), held : Nat]]
    /\ sub \in [Client -> [items : Seq(Event), done : BOOLEAN, closed : BOOLEAN]]
    /\ wire \in [Client -> Seq(Event)]
    /\ got \in [Client -> SUBSET Event] /\ missed \in [Client -> SUBSET Event]
    /\ faults \in 0..MaxFaults

Off == [pc |-> "off", sent |-> 0, batch |-> << >>, held |-> 0]
newSubscriber == [items |-> << >>, done |-> FALSE, closed |-> FALSE]
NewReader == [pc |-> "idle", known |-> FALSE, last |-> 0]
Nothing == [event |-> 0, targets |-> {}]

Init ==
    /\ policy \in Policy
    /\ top = 0 /\ reader = NewReader /\ out = Nothing
    /\ conn = [c \in Client |-> Off] /\ sub = [c \in Client |-> newSubscriber]
    /\ wire = [c \in Client |-> << >>]
    /\ got = [c \in Client |-> {}] /\ missed = [c \in Client |-> {}]
    /\ faults = MaxFaults

Fault == faults > 0 /\ faults' = faults - 1

\* The number of the last event, as a client remembers it; 0: none yet.
Cursor(c) == IF got[c] = {} THEN 0 ELSE CHOOSE e \in got[c] : \A f \in got[c] : f <= e
-----------------------------------------------------------------------------
(* The journal and its reader: Publish, Run, Hub.deliver *)

\* XADD under the publisher's number, by this instance or another.
Publish ==
    /\ top < MaxEvent
    /\ top' = top + 1
    /\ UNCHANGED <<policy, reader, out, connVars, missed, faults>>

\* The reader starts after the event n: clients past their history will not get
\* what came before through their queue.
JumpTo(n) ==
    missed' = [c \in Client |-> IF conn[c].pc # "stream" THEN missed[c]
                                ELSE missed[c] \cup {e \in Event : conn[c].sent < e /\ e <= n}]

\* XREAD with "$": what is added after this call.
ReadNew ==
    /\ reader.pc = "idle" /\ ~reader.known
    /\ reader' = [reader EXCEPT !.pc = "read", !.last = top]
    /\ JumpTo(top)
    /\ UNCHANGED <<policy, top, out, connVars, faults>>

\* The next entry, and the subscribers of this moment.
ReadNext ==
    /\ out.targets = {}
    /\ reader.known \/ reader.pc = "read"
    /\ reader.last < top
    /\ reader' = [pc |-> "idle", known |-> TRUE, last |-> reader.last + 1]
    /\ out' = [event |-> reader'.last,
               targets |-> {c \in Client : conn[c].pc \in {"history", "stream"}}]
    /\ UNCHANGED <<policy, top, connVars, missed, faults>>

\* The first read ends without an entry; XINFO is asked where the journal ends.
ReadTimesOut ==
    /\ reader.pc = "read" /\ reader.last = top
    /\ reader' = [reader EXCEPT !.pc = "info"]
    /\ UNCHANGED <<policy, top, out, connVars, missed, faults>>

\* LastGeneratedID: entries added since the read ended are jumped over.
ReadInfo ==
    /\ reader.pc = "info"
    /\ reader' = [pc |-> "idle", known |-> TRUE, last |-> top]
    /\ JumpTo(top)
    /\ UNCHANGED <<policy, top, out, connVars, faults>>

\* XREAD fails, and "$" stays; XINFO fails, and the journal is read anew.
ReadFails ==
    /\ Fault
    /\ \/ reader.pc = "read" /\ reader' = NewReader
       \/ reader.pc = "info" /\ reader' = [pc |-> "idle", known |-> TRUE, last |-> 0]
    /\ UNCHANGED <<policy, top, out, connVars, missed>>

Full(c) == policy # "unbounded" /\ Len(sub[c].items) >= QueueLen

\* Variant for a mutation check: a full queue refuses events, the connection
\* stays open.
PushWithoutClose(c) ==
    /\ c \in out.targets
    /\ out' = [out EXCEPT !.targets = @ \ {c}]
    /\ sub' = IF sub[c].done \/ Full(c) THEN [sub EXCEPT ![c].done = TRUE]
              ELSE [sub EXCEPT ![c].items = Append(@, out.event)]
    /\ UNCHANGED <<policy, top, reader, conn, wire, got, missed, faults>>

Push(c) ==
    /\ c \in out.targets
    /\ out' = [out EXCEPT !.targets = @ \ {c}]
    /\ \/ /\ sub[c].done
          /\ UNCHANGED <<sub, missed>>
       \/ /\ ~sub[c].done /\ ~Full(c)
          /\ sub' = [sub EXCEPT ![c].items = Append(@, out.event)]
          /\ UNCHANGED missed
       \/ /\ ~sub[c].done /\ Full(c) /\ policy = "drop-oldest"
          /\ sub' = [sub EXCEPT ![c].items = Append(Tail(@), out.event)]
          /\ missed' = [missed EXCEPT ![c] = @ \cup {Head(sub[c].items)}]
       \/ /\ ~sub[c].done /\ Full(c) /\ policy = "disconnect"
          /\ sub' = [sub EXCEPT ![c].done = TRUE, ![c].closed = TRUE]
          /\ UNCHANGED missed
    /\ UNCHANGED <<policy, top, reader, conn, wire, got, faults>>
-----------------------------------------------------------------------------
(* handleSSE *)

\* Subscription comes first, then the history; a client without Last-Event-ID
\* gets no history.
Connect(c) ==
    /\ conn[c].pc \in {"off", "ended"} /\ wire[c] = << >>
    /\ conn' = [conn EXCEPT ![c] = [pc |-> IF got[c] = {} THEN "stream" ELSE "history",
                                    sent |-> Cursor(c), batch |-> << >>, held |-> 0]]
    /\ sub' = [sub EXCEPT ![c] = newSubscriber]
    /\ UNCHANGED <<policy, top, reader, out, wire, got, missed, faults>>

ReadHistory(c) ==
    /\ conn[c].pc = "history"
    /\ wire' = [wire EXCEPT ![c] = @ \o [i \in 1..(top - conn[c].sent) |-> conn[c].sent + i]]
    /\ conn' = [conn EXCEPT ![c].pc = "stream", ![c].sent = top]
    /\ UNCHANGED <<policy, top, reader, out, sub, got, missed, faults>>

\* The connection is gone with what it carried; a push under way finds a
\* Subscriber nobody reads.
Disconnected(c) ==
    /\ conn' = [conn EXCEPT ![c] = Off]
    /\ sub' = [sub EXCEPT ![c] = newSubscriber]
    /\ wire' = [wire EXCEPT ![c] = << >>]
    /\ out' = [out EXCEPT !.targets = @ \ {c}]

\* Variant for a mutation check: the stream goes on without its history.
StreamAnyway(c) ==
    /\ conn[c].pc = "history" /\ Fault
    /\ conn' = [conn EXCEPT ![c].pc = "stream"]
    /\ UNCHANGED <<policy, top, reader, out, sub, wire, got, missed>>

\* The history cannot be read: 503.
HistoryFails(c) ==
    /\ conn[c].pc = "history" /\ Fault
    /\ Disconnected(c)
    /\ UNCHANGED <<policy, top, reader, got, missed>>

\* Subscriber.next empties the queue for the handler.  Its goroutine reads ahead:
\* while the handler sends one batch it holds the next, the last held events.
next(c) ==
    LET batch == conn[c].batch  items == sub[c].items IN
    /\ conn[c].pc = "stream" /\ conn[c].held = 0 /\ items # << >>
    /\ conn' = [conn EXCEPT ![c].batch = batch \o items,
                            ![c].held = IF batch = << >> THEN 0 ELSE Len(items)]
    /\ sub' = [sub EXCEPT ![c].items = << >>]
    /\ UNCHANGED <<policy, top, reader, out, wire, got, missed, faults>>

\* When the handler is done with its batch the goroutine hands over the next.
HeldAfter(c) == IF Len(Tail(conn[c].batch)) = conn[c].held THEN 0 ELSE conn[c].held

\* Variant for a mutation check: nothing sent from the history is left out.
SendAll(c) ==
    /\ conn[c].pc = "stream" /\ conn[c].batch # << >>
    /\ wire' = [wire EXCEPT ![c] = Append(@, Head(conn[c].batch))]
    /\ conn' = [conn EXCEPT ![c].batch = Tail(@), ![c].held = HeldAfter(c),
                            ![c].sent = Head(conn[c].batch)]
    /\ UNCHANGED <<policy, top, reader, out, sub, got, missed, faults>>

\* The handler sends the next event of the batch, unless the client has it by
\* its number.
Send(c) ==
    LET e == Head(conn[c].batch) IN
    /\ conn[c].pc = "stream" /\ conn[c].batch # << >>
    /\ conn' = [conn EXCEPT ![c].batch = Tail(@), ![c].held = HeldAfter(c),
                            ![c].sent = IF e <= @ THEN @ ELSE e]
    /\ wire' = IF e <= conn[c].sent THEN wire ELSE [wire EXCEPT ![c] = Append(@, e)]
    /\ UNCHANGED <<policy, top, reader, out, sub, got, missed, faults>>

\* next returns nil and the handler returns.  One that has waited on an empty
\* queue may take the closing before the signal, and leaves what came between.
EndStream(c) ==
    /\ conn[c].pc = "stream" /\ conn[c].batch = << >> /\ sub[c].closed
    /\ conn' = [conn EXCEPT ![c].pc = "ended"]
    /\ out' = [out EXCEPT !.targets = @ \ {c}]
    /\ UNCHANGED <<policy, top, reader, sub, wire, got, missed, faults>>

Receive(c) ==
    /\ wire[c] # << >>
    /\ got' = [got EXCEPT ![c] = @ \cup {Head(wire[c])}]
    /\ wire' = [wire EXCEPT ![c] = Tail(@)]
    /\ UNCHANGED <<policy, top, reader, out, conn, sub, missed, faults>>

Break(c) ==
    /\ conn[c].pc # "off" /\ Fault
    /\ Disconnected(c)
    /\ UNCHANGED <<policy, top, reader, got, missed>>

\* The process dies and is started anew.
Restart ==
    /\ Fault
    /\ reader' = NewReader /\ out' = Nothing
    /\ conn' = [c \in Client |-> Off] /\ sub' = [c \in Client |-> newSubscriber]
    /\ wire' = [c \in Client |-> << >>]
    /\ UNCHANGED <<policy, top, got, missed>>
-----------------------------------------------------------------------------
Run == ReadNew \/ ReadNext \/ ReadTimesOut \/ ReadInfo
handleSSE(c) == ReadHistory(c) \/ next(c) \/ Send(c) \/ EndStream(c)

Next ==
    \/ Publish \/ Run \/ ReadFails \/ Restart
    \/ \E c \in Client :
         \/ Push(c) \/ Connect(c) \/ handleSSE(c) \/ Receive(c)
         \/ HistoryFails(c) \/ Break(c)

Spec == Init /\ [][Next]_vars

\* Run reads for ever and deliver ends; a handler goes on; a client reads what
\* arrives and comes back.  Nobody has to publish.
FairSpec ==
    /\ Spec
    /\ WF_vars(Run)
    /\ \A c \in Client : /\ WF_vars(Push(c)) /\ WF_vars(handleSSE(c))
                         /\ WF_vars(Receive(c)) /\ WF_vars(Connect(c))
-----------------------------------------------------------------------------
(* Properties *)

\* A client receives no event twice and none after a later one, although the
\* history and the queue overlap, its connection breaks and the journal may be
\* read anew.  (handleSSE: e.ID <= sent, over a reader that keeps the order.)
InOrderOnce ==
    \A c \in Client : 
        LET seq == <<Cursor(c)>> \o wire[c] IN
        \A i, j \in DOMAIN seq : i < j => seq[i] < seq[j]

\* A client's cursor never moves past an event it has not received, unless a
\* full queue dropped it or the bus reader jumped over it at its start; the
\* seam between history and queue, a 503, an overflow that disconnects, a break
\* and a restart leave no hole.
NoSilentGap ==
    \A c \in Client : \A e \in Event :
        (\E d \in got[c] : d < e) /\ e <= Cursor(c) => e \in got[c] \cup missed[c]

\* A client that has a cursor gets every later event, or what came after it.
EventArrives ==
    \A c \in Client : \A e \in Event :
        (got[c] # {} /\ e <= top) ~> (e <= Cursor(c) \/ e \in missed[c])
=============================================================================
