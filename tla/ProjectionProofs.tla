-------------------------- MODULE ProjectionProofs --------------------------
(***************************************************************************)
(* Proofs about Projection, for any orders, writers, projectors and        *)
(* bounds.  An order whose events became visible in the order of their     *)
(* numbers is shown as it is; with one writer that is every order.         *)
(***************************************************************************)
EXTENDS Projection, WellFoundedInduction, TLAPS

(* Greatest elements *)

Less == {ss \in Nat \X Nat : ss[1] < ss[2]}

\* Every nonempty set of natural numbers has a least element.
LEMMA LeastElement ==
    ASSUME NEW T, T \subseteq Nat, T # {}
    PROVE  \E x \in T : \A y \in T : x <= y
<1>1. IsWellFoundedOn(Less, Nat)
  BY NatLessThanWellFounded DEF Less, OpToRel
<1>2. PICK x \in T : \A y \in T : ~ (<<y, x>> \in Less)
  BY <1>1, WFMin
<1>3. \A y \in T : ~ (y < x)
  BY <1>2 DEF Less
<1> QED
  BY <1>3

\* Max is what it is meant to be for a set of bounded numbers.
LEMMA MaxProperties ==
    ASSUME NEW n \in Nat, NEW S, S \subseteq 0..n, S # {}
    PROVE  Max(S) \in S /\ \A y \in S : y <= Max(S)
<1> DEFINE T == {n - y : y \in S}
<1>1. T \subseteq Nat /\ T # {}
  <2>1. \A y \in S : n - y \in Nat
    OBVIOUS
  <2> QED
    BY <2>1
<1>2. PICK x \in T : \A y \in T : x <= y
  BY <1>1, LeastElement
<1>3. PICK m \in S : x = n - m
  BY <1>2
<1>4. \A y \in S : m >= y
  <2> TAKE y \in S
  <2>1. n - y \in T
    OBVIOUS
  <2>2. x <= n - y
    BY <1>2, <2>1
  <2> QED
    BY <1>3, <2>2
<1>5. \E z \in S : \A y \in S : z >= y
  BY <1>4
<1>6. Max(S) \in S /\ \A y \in S : Max(S) >= y
  BY <1>5 DEF Max
<1> QED
  BY <1>6
-----------------------------------------------------------------------------
(* Types *)

\* The position recorded for a batch is that of one of its events, the last one.
LEMMA LastProperties ==
    ASSUME NEW S, S \subseteq Event, NEW from \in 0..MaxSeq
    PROVE  /\ Last(S, from) \in 0..MaxSeq
           /\ S = {} => Last(S, from) = from
           /\ S # {} => \E e \in S : e.seq = Last(S, from)
           /\ \A e \in S : e.seq <= Last(S, from)
<1>1. CASE S = {}
  BY <1>1 DEF Last
<1>2. CASE S # {}
  <2> DEFINE N == {e.seq : e \in S}
  <2>1. N \subseteq 0..MaxSeq /\ N # {}
    BY <1>2 DEF Event
  <2>2. MaxSeq \in Nat
    BY ProjectionAssumption DEF ProjectionAssumption
  <2>3. Max(N) \in N /\ \A y \in N : y <= Max(N)
    BY <2>1, <2>2, MaxProperties
  <2>4. Last(S, from) = Max(N)
    BY <1>2 DEF Last
  <2> HIDE DEF N
  <2>5. Last(S, from) \in 0..MaxSeq
    BY <2>1, <2>3, <2>4
  <2>6. \E e \in S : e.seq = Last(S, from)
    BY <2>3, <2>4 DEF N
  <2>7. \A e \in S : e.seq <= Last(S, from)
    BY <2>3, <2>4 DEF N
  <2> QED
    BY <1>2, <2>5, <2>6, <2>7
<1> QED
  BY <1>1, <1>2

LEMMA AppliedType ==
    ASSUME NEW tab \in [Order -> Status], NEW S
    PROVE  Applied(tab, S) \in [Order -> Status]
BY DEF Applied, Status

LEMMA TargetType == ASSUME NEW p \in Process PROVE Target(p) \in Table
BY DEF Target, Table

\* Types hold for any number of writers and processes.
THEOREM Typing == Spec => []TypeOK
<1> USE ProjectionAssumption DEF ProjectionAssumption
<1>1. Init => TypeOK
  BY DEF Init, TypeOK, EmptyTable, Status, PC, Table, Process
<1>2. TypeOK /\ [Next]_vars => TypeOK'
  <2> SUFFICES ASSUME TypeOK, [Next]_vars PROVE TypeOK'
    OBVIOUS
  <2> USE DEF TypeOK
  <2>1. ASSUME NEW w \in Writer, NEW o \in Order, NEW type \in {"created", "paid"},
               Insert(w, o, type)
        PROVE  TypeOK'
    <3>1. seq' \in 1..MaxSeq
      BY <2>1 DEF Insert
    <3>2. [seq |-> seq', order |-> o, type |-> type] \in Event
      BY <3>1 DEF Event
    <3> QED
      BY <2>1, <3>1, <3>2 DEF Insert
  <2>2. ASSUME NEW w \in Writer, CommitInsert(w) PROVE TypeOK'
    BY <2>2 DEF CommitInsert
  <2>3. ASSUME NEW w \in Writer, RollbackInsert(w) PROVE TypeOK'
    BY <2>3 DEF RollbackInsert
  <2>4. ASSUME NEW p \in Process, NEW l \in PC, EndTransaction(p, l)
        PROVE  /\ rowLock' \in [Table -> Process \cup {Nobody}]
               /\ writing' \in SUBSET Projector
               /\ batch' \in [Process -> SUBSET Event]
               /\ pc' \in [Process -> PC]
    BY <2>4 DEF EndTransaction, Release, Goto
  <2>5. ASSUME NEW p \in Process, LockCheckpoint(p) PROVE TypeOK'
    <3>1. Target(p) \in Table
      BY TargetType
    <3> QED
      BY <2>5, <3>1 DEF LockCheckpoint, Goto, PC
  <2>6. ASSUME NEW p \in Process, ReadLog(p) PROVE TypeOK'
    <3>1. {e \in log : e.seq > ckpt[Target(p)]} \in SUBSET Event
      OBVIOUS
    <3> QED
      BY <2>6, <3>1 DEF ReadLog, Goto, PC
  <2>7. ASSUME NEW p \in Process, Write(p) PROVE TypeOK'
    BY <2>7 DEF Write, Goto, PC, Process
  <2>8. ASSUME NEW p \in Process, CommitBatch(p) PROVE TypeOK'
    <3> DEFINE t == Target(p)
    <3>1. t \in Table
      BY TargetType
    <3>2. Applied(table[t], batch[p]) \in [Order -> Status]
      BY <3>1, AppliedType
    <3>3. Last(batch[p], ckpt[t]) \in 0..MaxSeq
      BY <3>1, LastProperties
    <3>4. EndTransaction(p, IF p = Rebuilder THEN "switch" ELSE "idle")
      BY <2>8 DEF CommitBatch
    <3>5. (IF p = Rebuilder THEN "switch" ELSE "idle") \in PC
      BY DEF PC
    <3> HIDE DEF t
    <3>6. table' = [table EXCEPT ![t] = Applied(table[t], batch[p])]
          /\ ckpt' = [ckpt EXCEPT ![t] = Last(batch[p], ckpt[t])]
      BY <2>8 DEF CommitBatch, t
    <3>7. table' \in [Table -> [Order -> Status]] /\ ckpt' \in [Table -> 0..MaxSeq]
      BY <3>1, <3>2, <3>3, <3>6
    <3>8. /\ rowLock' \in [Table -> Process \cup {Nobody}] /\ writing' \in SUBSET Projector
          /\ batch' \in [Process -> SUBSET Event] /\ pc' \in [Process -> PC]
      BY <2>4, <3>4, <3>5
    <3> QED
      BY <2>8, <3>7, <3>8 DEF CommitBatch
  <2>9. ASSUME NEW p \in Process, BreakDeadlock(p) PROVE TypeOK'
    <3>1. PICK victim \in {p, Rebuilder} : EndTransaction(victim, "idle")
      BY <2>9 DEF BreakDeadlock
    <3>2. victim \in Process /\ "idle" \in PC
      BY DEF Process, PC
    <3> QED
      BY <2>4, <2>9, <3>1, <3>2 DEF BreakDeadlock
  <2>10. ASSUME NEW p \in Process, Fail(p) PROVE TypeOK'
    BY <2>4, <2>10 DEF Fail, PC
  <2>11. CASE CreateV2
    <3>1. EmptyTable \in [Order -> Status] /\ rebuilds' \in 0..MaxRebuilds
      BY <2>11 DEF EmptyTable, Status, CreateV2
    <3>2. pc' \in [Process -> PC]
      BY <2>11 DEF CreateV2, Goto, PC, Process
    <3>3. table' \in [Table -> [Order -> Status]] /\ ckpt' \in [Table -> 0..MaxSeq]
      BY <2>11, <3>1 DEF CreateV2, Table
    <3> QED
      BY <2>11, <3>1, <3>2, <3>3 DEF CreateV2
  <2>12. CASE Rename
    BY <2>12 DEF Rename, Goto, PC
  <2>13. CASE Switch
    <3>1. table["orders_read_v2"] \in [Order -> Status] /\ ckpt["orders_read_v2"] \in 0..MaxSeq
      BY DEF Table
    <3>2. EmptyTable \in [Order -> Status] /\ 0 \in 0..MaxSeq
      BY DEF EmptyTable, Status
    <3>3. table' \in [Table -> [Order -> Status]]
      BY <2>13, <3>1, <3>2 DEF Switch
    <3>4. ckpt' \in [Table -> 0..MaxSeq]
      BY <2>13, <3>1, <3>2 DEF Switch
    <3> QED
      BY <2>13, <3>3, <3>4 DEF Switch, Goto, PC
  <2>14. CASE UNCHANGED vars
    BY <2>14 DEF vars
  <2> QED
    BY <2>1, <2>2, <2>3, <2>5, <2>6, <2>7, <2>8, <2>9, <2>10, <2>11, <2>12, <2>13, <2>14
       DEF Next, createOrder, payOrder, applyLog, Rebuild
<1> QED
  BY <1>1, <1>2, PTL DEF Spec
-----------------------------------------------------------------------------
(* Locks and batches *)

InTransaction(p) == pc[p] \in {"locked", "read", "applied"}

\* Whoever is in applyLog holds the row of its checkpoint, so nobody else does.
Locks == \A p \in Process : InTransaction(p) => rowLock[Target(p)] = p

\* What a process has read is committed and lies after the position it read.
Batches ==
    \A p \in Process : pc[p] \in {"read", "applied"} =>
        \A e \in batch[p] : e \in log /\ e.seq > ckpt[Target(p)]

\* A transaction's end takes its process out of applyLog and touches nobody else's lock.
LEMMA EndTransactionProperties ==
    ASSUME TypeOK, Locks, NEW p \in Process, NEW l \in {"idle", "switch"},
           EndTransaction(p, l)
    PROVE  /\ Locks'
           /\ ~ InTransaction(p)'
           /\ \A q \in Process \ {p} : pc'[q] = pc[q] /\ batch'[q] = batch[q]
<1>1. pc' = [pc EXCEPT ![p] = l] /\ batch' = [batch EXCEPT ![p] = {}]
  BY DEF EndTransaction, Goto
<1>2. pc'[p] = l /\ \A q \in Process \ {p} : pc'[q] = pc[q] /\ batch'[q] = batch[q]
  BY <1>1 DEF TypeOK
<1>3. ASSUME NEW q \in Process, InTransaction(q)' PROVE rowLock'[Target(q)] = q
  <2>1. q # p /\ InTransaction(q)
    BY <1>2, <1>3 DEF InTransaction
  <2>2. rowLock[Target(q)] = q
    BY <2>1 DEF Locks
  <2> QED
    BY <2>1, <2>2, TargetType DEF EndTransaction, Release
<1> QED
  BY <1>2, <1>3 DEF Locks, InTransaction, Target

\* Two processes in applyLog have different targets.
LEMMA OneTransactionPerTable ==
    ASSUME Locks, NEW p \in Process, NEW q \in Process,
           InTransaction(p), InTransaction(q), Target(p) = Target(q)
    PROVE  p = q
BY DEF Locks

LEMMA LocksStep == ASSUME TypeOK, Locks, [Next]_vars PROVE Locks'
<1> USE ProjectionAssumption DEF ProjectionAssumption
<1>1. ASSUME NEW w \in Writer, NEW o \in Order, createOrder(w, o) \/ payOrder(w, o)
      PROVE  Locks'
  BY <1>1 DEF createOrder, payOrder, Insert, Locks, InTransaction, Target
<1>2. ASSUME NEW w \in Writer, CommitInsert(w) \/ RollbackInsert(w) PROVE Locks'
  BY <1>2 DEF CommitInsert, RollbackInsert, Locks, InTransaction, Target
<1>3. ASSUME NEW p \in Process, LockCheckpoint(p) PROVE Locks'
  <2>1. Target(p) \in Table /\ rowLock[Target(p)] = Nobody /\ Nobody \notin Process
    BY <1>3, TargetType DEF LockCheckpoint, Process
  <2>2. rowLock' = [rowLock EXCEPT ![Target(p)] = p] /\ pc' = [pc EXCEPT ![p] = "locked"]
    BY <1>3 DEF LockCheckpoint, Goto
  <2>3. ASSUME NEW q \in Process, InTransaction(q)' PROVE rowLock'[Target(q)] = q
    <3>1. CASE q = p
      BY <2>1, <2>2, <3>1 DEF TypeOK
    <3>2. CASE q # p
      <4>1. InTransaction(q)
        BY <2>2, <2>3, <3>2 DEF InTransaction, TypeOK
      <4>2. rowLock[Target(q)] = q
        BY <4>1 DEF Locks
      <4>3. Target(q) # Target(p)
        BY <2>1, <4>2
      <4> QED
        BY <2>1, <2>2, <4>2, <4>3, TargetType DEF TypeOK
    <3> QED
      BY <3>1, <3>2
  <2> QED
    BY <2>3 DEF Locks, InTransaction, Target
<1>4. ASSUME NEW p \in Process, ReadLog(p) \/ Write(p) PROVE Locks'
  <2>1. InTransaction(p) /\ rowLock' = rowLock
        /\ \A q \in Process \ {p} : pc'[q] = pc[q]
    BY <1>4 DEF ReadLog, Write, Goto, InTransaction, TypeOK
  <2> QED
    BY <2>1 DEF Locks, InTransaction, Target
<1>5. ASSUME NEW p \in Process, CommitBatch(p) PROVE Locks'
  BY <1>5, EndTransactionProperties DEF CommitBatch
<1>6. ASSUME NEW p \in Process, BreakDeadlock(p) PROVE Locks'
  BY <1>6, EndTransactionProperties DEF BreakDeadlock, Process
<1>7. ASSUME NEW p \in Process, Fail(p) PROVE Locks'
  BY <1>7, EndTransactionProperties DEF Fail
<1>8. CASE Rebuild
  <2>1. rowLock' = rowLock /\ ~ InTransaction(Rebuilder)'
        /\ \A q \in Process \ {Rebuilder} : pc'[q] = pc[q]
    BY <1>8 DEF Rebuild, CreateV2, Rename, Switch, Goto, InTransaction, TypeOK, Process
  <2> QED
    BY <2>1 DEF Locks, InTransaction, Target
<1>9. CASE UNCHANGED vars
  BY <1>9 DEF vars, Locks, InTransaction, Target
<1> QED
  BY <1>1, <1>2, <1>3, <1>4, <1>5, <1>6, <1>7, <1>8, <1>9 DEF Next, applyLog

\* While a process has a batch in hand, nobody else changes the batch or the
\* position that it is to follow.
LEMMA BatchInHand ==
    ASSUME TypeOK, Locks, [Next]_vars,
           NEW q \in Process, pc'[q] \in {"read", "applied"}, ~ ReadLog(q)
    PROVE  /\ pc[q] \in {"read", "applied"} /\ batch'[q] = batch[q]
           /\ ckpt'[Target(q)] = ckpt[Target(q)]
<1> USE ProjectionAssumption DEF ProjectionAssumption
<1> DEFINE Same == pc[q] \in {"read", "applied"} /\ batch'[q] = batch[q]
           Goal == Same /\ ckpt'[Target(q)] = ckpt[Target(q)]
<1>1. ASSUME NEW w \in Writer, NEW o \in Order, createOrder(w, o) \/ payOrder(w, o)
      PROVE  Goal
  BY <1>1 DEF createOrder, payOrder, Insert
<1>2. ASSUME NEW w \in Writer, CommitInsert(w) \/ RollbackInsert(w) PROVE Goal
  BY <1>2 DEF CommitInsert, RollbackInsert
<1>3. ASSUME NEW p \in Process, LockCheckpoint(p) \/ Write(p) PROVE Goal
  BY <1>3 DEF LockCheckpoint, Write, Goto, TypeOK
<1>4. ASSUME NEW p \in Process, ReadLog(p) PROVE Goal
  <2>1. p # q
    BY <1>4
  <2> QED
    BY <1>4, <2>1 DEF ReadLog, Goto, TypeOK
<1>5. ASSUME NEW p \in Process, NEW l \in {"idle", "switch"}, EndTransaction(p, l)
      PROVE  q # p /\ Same
  BY <1>5, EndTransactionProperties DEF InTransaction
<1>6. ASSUME NEW p \in Process, CommitBatch(p) PROVE Goal
  <2>1. InTransaction(p) /\ InTransaction(q) /\ q # p /\ Same
        /\ ckpt' = [ckpt EXCEPT ![Target(p)] = Last(batch[p], ckpt[Target(p)])]
    BY <1>5, <1>6 DEF CommitBatch, InTransaction
  <2>2. Target(q) # Target(p)
    BY <2>1, OneTransactionPerTable
  <2> QED
    BY <2>1, <2>2, TargetType DEF TypeOK
<1>7. ASSUME NEW p \in Process, BreakDeadlock(p) \/ Fail(p) PROVE Goal
  BY <1>5, <1>7 DEF BreakDeadlock, Fail, Process
<1>8. CASE Rebuild
  <2>1. q # Rebuilder /\ Same
    BY <1>8 DEF Rebuild, CreateV2, Rename, Switch, Goto, TypeOK, Process
  <2>2. Target(q) = "orders_read" /\ rowLock["orders_read"] # Nobody
    BY <2>1 DEF Locks, Target, Process, InTransaction
  <2> QED
    BY <1>8, <2>1, <2>2 DEF Rebuild, CreateV2, Rename, Switch, TypeOK, Table
<1>9. CASE UNCHANGED vars
  BY <1>9 DEF vars
<1> QED
  BY <1>1, <1>2, <1>3, <1>4, <1>6, <1>7, <1>8, <1>9 DEF Next, applyLog

\* The log only grows.
LEMMA LogGrows == ASSUME [Next]_vars PROVE log \subseteq log'
BY DEF Next, createOrder, payOrder, Insert, CommitInsert, RollbackInsert, applyLog,
       LockCheckpoint, ReadLog, Write, CommitBatch, BreakDeadlock, Fail,
       Rebuild, CreateV2, Rename, Switch, vars

LEMMA BatchesStep == ASSUME TypeOK, Locks, Batches, [Next]_vars PROVE Batches'
<1>1. ASSUME NEW q \in Process, pc'[q] \in {"read", "applied"}, NEW e \in batch'[q]
      PROVE  e \in log' /\ e.seq > ckpt'[Target(q)]
  <2>1. CASE ReadLog(q)
    BY <1>1, <2>1 DEF ReadLog, TypeOK
  <2>2. CASE ~ ReadLog(q)
    BY <1>1, <2>2, BatchInHand, LogGrows DEF Batches
  <2> QED
    BY <2>1, <2>2
<1> QED
  BY <1>1 DEF Batches, Target

LEMMA LockedBatches == Spec => [](Locks /\ Batches)
<1>1. Init => Locks /\ Batches
  BY DEF Init, Locks, Batches, InTransaction
<1>2. TypeOK /\ Locks /\ Batches /\ [Next]_vars => Locks' /\ Batches'
  BY LocksStep, BatchesStep
<1> QED
  BY <1>1, <1>2, Typing, PTL DEF Spec

\* No concurrent projector, failure or deadlock takes from the readers of
\* orders_read what they have seen: its position goes back with the switch of
\* a rebuild only.  (FOR UPDATE in applyLog, one COMMIT for table and position.)
THEOREM PositionGoesForward == Spec => OnlySwitchGoesBack
<1> DEFINE Step == ckpt'["orders_read"] < ckpt["orders_read"]
                     => pc[Rebuilder] = "renamed" /\ pc'[Rebuilder] = "idle"
<1>1. TypeOK /\ Batches /\ [Next]_vars => [Step]_vars
  <2> SUFFICES ASSUME TypeOK, Batches, Next, ckpt'["orders_read"] < ckpt["orders_read"]
               PROVE  pc[Rebuilder] = "renamed" /\ pc'[Rebuilder] = "idle"
    OBVIOUS
  <2>1. ckpt["orders_read"] \in Nat
    BY DEF TypeOK, Table
  <2>2. ckpt' # ckpt
    BY <2>1
  <2>3. ASSUME NEW p \in Process, CommitBatch(p) PROVE FALSE
    <3>1. Target(p) \in Table /\ ckpt[Target(p)] \in 0..MaxSeq /\ batch[p] \subseteq Event
      BY TargetType DEF TypeOK
    <3>2. ckpt' = [ckpt EXCEPT ![Target(p)] = Last(batch[p], ckpt[Target(p)])]
      BY <2>3 DEF CommitBatch
    <3>3. Target(p) = "orders_read"
      BY <2>1, <3>2 DEF TypeOK, Table
    <3>4. Last(batch[p], ckpt[Target(p)]) < ckpt[Target(p)]
      BY <3>1, <3>2, <3>3 DEF TypeOK
    <3>5. batch[p] # {}
      BY <3>1, <3>4, LastProperties, <2>1, <3>3
    <3>6. PICK e \in batch[p] : e.seq = Last(batch[p], ckpt[Target(p)])
      BY <3>1, <3>5, LastProperties
    <3>7. e.seq > ckpt[Target(p)]
      BY <2>3, <3>6 DEF CommitBatch, Batches
    <3>8. e.seq \in Nat
      BY <3>1, <3>6 DEF Event
    <3> QED
      BY <2>1, <3>3, <3>4, <3>6, <3>7, <3>8
  <2>4. CASE CreateV2
    BY <2>1, <2>4 DEF CreateV2, TypeOK, Table
  <2>5. CASE Switch
    BY <2>5 DEF Switch, Goto, TypeOK, Process
  <2> QED
    BY <2>2, <2>3, <2>4, <2>5 DEF Next, createOrder, payOrder, Insert, CommitInsert,
       RollbackInsert, applyLog, LockCheckpoint, ReadLog, Write, BreakDeadlock, Fail,
       Rebuild, Rename
<1>2. Spec => [][Step]_vars
  BY <1>1, Typing, LockedBatches, PTL DEF Spec
<1> QED
  BY <1>2 DEF OnlySwitchGoesBack
-----------------------------------------------------------------------------
(* The read model *)

Known == log \cup UNION {pending[w] : w \in Writer}

\* Numbers are drawn upwards, once each, and a position is that of an event.
Numbers ==
    /\ \A e \in Known : e.seq <= seq
    /\ \A e, f \in Known : e.seq = f.seq => e = f
    /\ \A t \in Table : ckpt[t] = 0 \/ \E e \in log : e.seq = ckpt[t]

\* An order is created once, and paid after that.
Orders ==
    /\ \A e, f \in Known : e.type = "created" /\ f.type = "created" /\ e.order = f.order => e = f
    /\ \A e \in Known : e.type = "paid" =>
         \E f \in log : f.type = "created" /\ f.order = e.order /\ f.seq < e.seq

\* What was read and what has come since in time: nothing lies between.
BatchIsPrefix ==
    \A p \in Process : pc[p] \in {"read", "applied"} =>
        \A e \in log : e.order \notin late /\ e.seq > ckpt[Target(p)] =>
            e \in batch[p] \/ \A f \in batch[p] : f.seq < e.seq

\* What a command does to the events that are known.
LEMMA CommandSteps ==
    ASSUME TypeOK, NEW w \in Writer
    PROVE  /\ \A o \in Order, type \in {"created", "paid"} : Insert(w, o, type) =>
                /\ log' = log /\ seq' = seq + 1
                /\ Known' = Known \cup {[seq |-> seq + 1, order |-> o, type |-> type]}
           /\ CommitInsert(w) => log \subseteq log' /\ Known' = Known /\ seq' = seq
           /\ RollbackInsert(w) => log' = log /\ Known' \subseteq Known /\ seq' = seq
<1>1. ASSUME NEW o \in Order, NEW type \in {"created", "paid"}, Insert(w, o, type)
      PROVE  /\ log' = log /\ seq' = seq + 1
             /\ Known' = Known \cup {[seq |-> seq + 1, order |-> o, type |-> type]}
  <2> DEFINE e == [seq |-> seq + 1, order |-> o, type |-> type]
  <2>1. pending' = [pending EXCEPT ![w] = {e}] /\ pending[w] = {} /\ log' = log /\ seq' = seq + 1
    BY <1>1 DEF Insert
  <2> HIDE DEF e
  <2>2. \A v \in Writer : pending'[v] = IF v = w THEN {e} ELSE pending[v]
    BY <2>1 DEF TypeOK
  <2>3. \A x : x \in Known' <=> x \in Known \/ x = e
    BY <2>1, <2>2 DEF Known
  <2>4. Known' = Known \cup {e}
    BY <2>3
  <2> QED
    BY <2>1, <2>4 DEF e
<1>2. ASSUME CommitInsert(w) PROVE log \subseteq log' /\ Known' = Known /\ seq' = seq
  <2>1. /\ pending' = [pending EXCEPT ![w] = {}] /\ log' = log \cup pending[w] /\ seq' = seq
    BY <1>2 DEF CommitInsert
  <2>2. \A v \in Writer : pending'[v] = IF v = w THEN {} ELSE pending[v]
    BY <2>1 DEF TypeOK
  <2>3. \A x : x \in Known' <=> x \in Known
    BY <2>1, <2>2 DEF Known
  <2> QED
    BY <2>1, <2>3
<1>3. ASSUME RollbackInsert(w) PROVE log' = log /\ Known' \subseteq Known /\ seq' = seq
  <2>1. /\ pending' = [pending EXCEPT ![w] = {}] /\ log' = log /\ seq' = seq
    BY <1>3 DEF RollbackInsert
  <2>2. \A v \in Writer : pending'[v] \subseteq pending[v]
    BY <2>1 DEF TypeOK
  <2> QED
    BY <2>1, <2>2 DEF Known
<1> QED
  BY <1>1, <1>2, <1>3

LEMMA KnownEvents == ASSUME TypeOK PROVE Known \subseteq Event
BY DEF Known, TypeOK

\* The steps of applyLog and of a rebuild leave the events alone.
LEMMA LogUnchanged ==
    ASSUME [Next]_vars,
           ~ \E w \in Writer : \/ \E o \in Order : createOrder(w, o) \/ payOrder(w, o)
                              \/ CommitInsert(w) \/ RollbackInsert(w)
    PROVE  log' = log /\ seq' = seq /\ Known' = Known
BY DEF Next, applyLog, LockCheckpoint, ReadLog, Write, CommitBatch, BreakDeadlock, Fail,
       Rebuild, CreateV2, Rename, Switch, vars, Known

LEMMA OrdersStep == ASSUME TypeOK, Numbers, Orders, [Next]_vars PROVE Orders'
<1>1. ASSUME NEW w \in Writer, NEW o \in Order, createOrder(w, o) PROVE Orders'
  <2> DEFINE e == [seq |-> seq + 1, order |-> o, type |-> "created"]
  <2>1. log' = log /\ Known' = Known \cup {e}
    BY <1>1, CommandSteps DEF createOrder
  <2>2. \A f \in Known : ~ (f.order = o /\ f.type = "created")
    BY <1>1 DEF createOrder, Has, Known
  <2> QED
    BY <2>1, <2>2 DEF Orders
<1>2. ASSUME NEW w \in Writer, NEW o \in Order, payOrder(w, o) PROVE Orders'
  <2> DEFINE e == [seq |-> seq + 1, order |-> o, type |-> "paid"]
  <2>1. log' = log /\ Known' = Known \cup {e}
    BY <1>2, CommandSteps DEF payOrder
  <2>2. PICK f \in log : f.order = o /\ f.type = "created"
    BY <1>2 DEF payOrder, Has
  <2>3. f.seq <= seq /\ f.seq \in Nat /\ seq \in Nat
    BY <2>2 DEF Numbers, Known, TypeOK, Event
  <2>4. f.seq < e.seq
    BY <2>3
  <2> QED
    BY <2>1, <2>2, <2>4 DEF Orders
<1>3. ASSUME NEW w \in Writer, CommitInsert(w) PROVE Orders'
  <2>1. log \subseteq log' /\ Known' = Known
    BY <1>3, CommandSteps
  <2> QED
    BY <2>1 DEF Orders
<1>4. ASSUME NEW w \in Writer, RollbackInsert(w) PROVE Orders'
  <2>1. log' = log /\ Known' \subseteq Known
    BY <1>4, CommandSteps
  <2> QED
    BY <2>1 DEF Orders
<1>5. CASE log' = log /\ Known' = Known
  BY <1>5 DEF Orders
<1> QED
  BY <1>1, <1>2, <1>3, <1>4, <1>5, LogUnchanged

LEMMA NumbersStep == ASSUME TypeOK, Batches, Numbers, [Next]_vars PROVE Numbers'
<1>1. ASSUME NEW w \in Writer, NEW o \in Order, createOrder(w, o) \/ payOrder(w, o)
      PROVE  Numbers'
  <2>1. PICK type \in {"created", "paid"} : Insert(w, o, type)
    BY <1>1 DEF createOrder, payOrder
  <2>2. /\ log' = log /\ seq' = seq + 1 /\ ckpt' = ckpt
        /\ Known' = Known \cup {[seq |-> seq + 1, order |-> o, type |-> type]}
    BY <2>1, CommandSteps DEF Insert
  <2>3. seq \in Nat /\ \A e \in Known : e.seq \in Nat
    BY KnownEvents DEF TypeOK, Event
  <2> QED
    BY <2>2, <2>3 DEF Numbers
<1>2. ASSUME NEW w \in Writer, CommitInsert(w) \/ RollbackInsert(w) PROVE Numbers'
  <2>1. log \subseteq log' /\ Known' \subseteq Known /\ seq' = seq /\ ckpt' = ckpt
    BY <1>2, CommandSteps DEF CommitInsert, RollbackInsert
  <2> QED
    BY <2>1 DEF Numbers
<1>3. ASSUME log' = log, seq' = seq, Known' = Known,
             \A t \in Table : \/ ckpt'[t] = 0
                             \/ \E u \in Table : ckpt'[t] = ckpt[u]
                             \/ \E e \in log : e.seq = ckpt'[t]
      PROVE  Numbers'
  BY <1>3 DEF Numbers
<1>4. ASSUME NEW p \in Process, CommitBatch(p), log' = log, seq' = seq, Known' = Known
      PROVE  Numbers'
  <2>1. Target(p) \in Table /\ ckpt[Target(p)] \in 0..MaxSeq /\ batch[p] \subseteq Event
    BY TargetType DEF TypeOK
  <2>2. ckpt' = [ckpt EXCEPT ![Target(p)] = Last(batch[p], ckpt[Target(p)])]
    BY <1>4 DEF CommitBatch
  <2>3. batch[p] \subseteq log
    BY <1>4 DEF CommitBatch, Batches
  <2>4. \/ Last(batch[p], ckpt[Target(p)]) = ckpt[Target(p)]
        \/ \E e \in log : e.seq = Last(batch[p], ckpt[Target(p)])
    BY <2>1, <2>3, LastProperties
  <2> QED
    BY <1>3, <1>4, <2>1, <2>2, <2>4 DEF TypeOK
<1>5. CASE Rebuild
  <2>1. log' = log /\ seq' = seq /\ Known' = Known
    BY <1>5 DEF Rebuild, CreateV2, Rename, Switch, Known
  <2>2. \A t \in Table : ckpt'[t] = 0 \/ \E u \in Table : ckpt'[t] = ckpt[u]
    BY <1>5 DEF Rebuild, CreateV2, Rename, Switch, Table, TypeOK
  <2> QED
    BY <1>3, <2>1, <2>2
<1>6. CASE ckpt' = ckpt /\ log' = log /\ seq' = seq /\ Known' = Known
  BY <1>6 DEF Numbers
<1> QED
  BY <1>1, <1>2, <1>4, <1>5, <1>6, LogUnchanged
     DEF Next, applyLog, LockCheckpoint, ReadLog, Write, BreakDeadlock, Fail, vars

LEMMA Histories == Spec => [](Numbers /\ Orders)
<1>1. Init => Numbers /\ Orders
  BY DEF Init, Numbers, Orders, Known
<1>2. TypeOK /\ Batches /\ Numbers /\ Orders /\ [Next]_vars => Numbers' /\ Orders'
  BY NumbersStep, OrdersStep
<1> QED
  BY <1>1, <1>2, Typing, LockedBatches, PTL DEF Spec

\* An order is late for ever; an event of one that is not is younger, when it
\* becomes visible, than all that was visible before.
LEMMA CommitsInTime ==
    ASSUME TypeOK, Numbers, [Next]_vars
    PROVE  /\ late \subseteq late'
           /\ \A e \in log' \ log : e.order \notin late' => \A f \in log : f.seq < e.seq
<1>1. ASSUME NEW w \in Writer, CommitInsert(w),
             NEW e \in log', e \notin log, e.order \notin late', NEW f \in log
      PROVE  f.seq < e.seq
  <2>1. e \in pending[w] /\ e \in Event /\ f \in Event
    BY <1>1 DEF CommitInsert, TypeOK
  <2>2. ~ (e.seq < f.seq)
    BY <1>1, <2>1 DEF CommitInsert, Event
  <2>3. e \in Known /\ f \in Known /\ e # f
    BY <1>1, <2>1 DEF Known
  <2>4. e.seq # f.seq
    BY <2>3 DEF Numbers
  <2> QED
    BY <2>1, <2>2, <2>4 DEF Event
<1>2. ASSUME NEW w \in Writer, CommitInsert(w) PROVE late \subseteq late'
  BY <1>2 DEF CommitInsert
<1>3. CASE log' = log /\ late' = late
  BY <1>3
<1> QED
  BY <1>1, <1>2, <1>3
     DEF Next, createOrder, payOrder, Insert, RollbackInsert, applyLog, LockCheckpoint,
         ReadLog, Write, CommitBatch, BreakDeadlock, Fail, Rebuild, CreateV2, Rename,
         Switch, vars

LEMMA BatchIsPrefixStep ==
    ASSUME TypeOK, Locks, Batches, Numbers, BatchIsPrefix, [Next]_vars
    PROVE  BatchIsPrefix'
<1>1. ASSUME NEW q \in Process, pc'[q] \in {"read", "applied"}, NEW e \in log',
             e.order \notin late', e.seq > ckpt'[Target(q)], e \notin batch'[q], NEW f \in batch'[q]
      PROVE  f.seq < e.seq
  <2>1. CASE ReadLog(q)
    BY <1>1, <2>1 DEF ReadLog, TypeOK
  <2>2. CASE ~ ReadLog(q)
    <3>1. /\ pc[q] \in {"read", "applied"} /\ batch'[q] = batch[q]
          /\ ckpt'[Target(q)] = ckpt[Target(q)]
      BY <1>1, <2>2, BatchInHand
    <3>2. CASE e \in log
      BY <1>1, <3>1, <3>2, CommitsInTime DEF BatchIsPrefix
    <3>3. CASE e \notin log
      BY <1>1, <3>1, <3>3, CommitsInTime DEF Batches
    <3> QED
      BY <3>2, <3>3
  <2> QED
    BY <2>1, <2>2
<1> QED
  BY <1>1 DEF BatchIsPrefix, Target

\* Applying a batch to what shows an order as it was before gives what shows it
\* with the batch: it is not created in the batch when it is paid before, and not
\* paid in it without having a row.
LEMMA AppliedFold ==
    ASSUME TypeOK, Orders, NEW n \in Nat, NEW m \in Nat, n <= m, NEW S \in SUBSET log,
           \A e \in S : e.seq > n,
           NEW o \in Order,
           \A e \in log : e.order = o => (e.seq <= m <=> e.seq <= n \/ e \in S),
           NEW tab, tab[o] = FoldOf(UpTo(n))[o]
    PROVE  Applied(tab, S)[o] = FoldOf(UpTo(m))[o]
<1> DEFINE A == UpTo(n)
<1>1. log \subseteq Known /\ A \subseteq log /\ \A e \in log : e.seq \in Nat
  BY DEF UpTo, Known, TypeOK, Event
<1>2. ASSUME Has(S, o, "created") PROVE ~ Has(A, o, "paid")
  <2> SUFFICES ASSUME Has(A, o, "paid") PROVE FALSE
    OBVIOUS
  <2>1. PICK c \in S : c.order = o /\ c.type = "created"
    BY <1>2 DEF Has
  <2>2. PICK e \in A : e.order = o /\ e.type = "paid"
    BY DEF Has
  <2>3. PICK f \in log : f.type = "created" /\ f.order = o /\ f.seq < e.seq
    BY <1>1, <2>2 DEF Orders
  <2>4. f = c
    BY <1>1, <2>1, <2>3 DEF Orders
  <2>5. c.seq > n /\ e.seq <= n /\ c.seq < e.seq /\ e.seq \in Nat /\ c.seq \in Nat
    BY <1>1, <2>1, <2>2, <2>3, <2>4 DEF UpTo
  <2> QED
    BY <2>5
<1>3. ASSUME Has(S, o, "paid"), ~ Has(S, o, "created") PROVE Has(A, o, "created")
  <2>1. PICK e \in S : e.order = o /\ e.type = "paid"
    BY <1>3 DEF Has
  <2>2. PICK f \in log : f.type = "created" /\ f.order = o /\ f.seq < e.seq
    BY <1>1, <2>1 DEF Orders
  <2>3. e.seq <= m /\ e.seq \in Nat /\ f.seq \in Nat
    BY <1>1, <2>1, <2>2
  <2>4. f.seq <= n \/ f \in S
    BY <2>2, <2>3
  <2> QED
    BY <1>3, <2>2, <2>4 DEF Has, UpTo
<1>4. \A t \in {"created", "paid"} : Has(UpTo(m), o, t) <=> Has(A, o, t) \/ Has(S, o, t)
  BY DEF Has, UpTo
<1> HIDE DEF A
<1>5. tab[o] = FoldOf(A)[o]
  BY DEF A
<1> QED
  BY <1>2, <1>3, <1>4, <1>5 DEF Applied, FoldOf

LEMMA PunctualStep ==
    ASSUME TypeOK, TypeOK', Batches, BatchIsPrefix, Numbers, Orders,
           PunctualOrdersAreShown, [Next]_vars
    PROVE  PunctualOrdersAreShown'
<1>1. ASSUME NEW w \in Writer, CommitInsert(w) PROVE PunctualOrdersAreShown'
  <2>1. table' = table /\ ckpt' = ckpt /\ log \subseteq log'
    BY <1>1, LogGrows DEF CommitInsert
  <2>2. ASSUME NEW t \in Table, NEW e \in log', e \notin log, e.order \notin late'
        PROVE  ~ (e.seq <= ckpt[t])
    <3>1. e.seq \in Nat \ {0} /\ ckpt[t] \in Nat
      BY DEF TypeOK, Event
    <3>2. CASE ckpt[t] = 0
      BY <3>1, <3>2
    <3>3. ASSUME NEW f \in log, f.seq = ckpt[t] PROVE ~ (e.seq <= ckpt[t])
      BY <2>2, <3>1, <3>3, CommitsInTime
    <3> QED
      BY <3>2, <3>3 DEF Numbers
  <2>3. ASSUME NEW t \in Table, NEW o \in Order, o \notin late'
        PROVE  table'[t][o] = FoldOf(UpTo(ckpt[t]))'[o]
    <3>1. \A e \in log' : e.order = o =>
             (e \in UpTo(ckpt[t])' <=> e \in UpTo(ckpt[t]))
      BY <2>1, <2>2, <2>3 DEF UpTo
    <3>2. \A type \in {"created", "paid"} :
             Has(UpTo(ckpt[t]), o, type)' <=> Has(UpTo(ckpt[t]), o, type)
      BY <2>1, <3>1 DEF Has, UpTo
    <3>3. FoldOf(UpTo(ckpt[t]))'[o] = FoldOf(UpTo(ckpt[t]))[o]
      BY <3>2 DEF FoldOf
    <3>4. o \notin late
      BY <2>3, CommitsInTime
    <3> QED
      BY <2>1, <3>3, <3>4 DEF PunctualOrdersAreShown
  <2> QED
    BY <2>3 DEF PunctualOrdersAreShown
<1>2. ASSUME NEW p \in Process, CommitBatch(p) PROVE PunctualOrdersAreShown'
  <2> DEFINE t == Target(p)
             n == ckpt[t]
             m == Last(batch[p], n)
  <2>1. t \in Table /\ n \in 0..MaxSeq /\ batch[p] \subseteq Event
        /\ log' = log /\ late' = late
    BY <1>2, TargetType DEF CommitBatch, TypeOK
  <2>2. table' = [table EXCEPT ![t] = Applied(table[t], batch[p])]
        /\ ckpt' = [ckpt EXCEPT ![t] = m]
    BY <1>2 DEF CommitBatch
  <2>3. batch[p] \in SUBSET log /\ \A e \in batch[p] : e.seq > n
    BY <1>2 DEF CommitBatch, Batches
  <2>4. /\ m \in 0..MaxSeq
        /\ batch[p] = {} => m = n
        /\ batch[p] # {} => \E e \in batch[p] : e.seq = m
        /\ \A e \in batch[p] : e.seq <= m
    BY <2>1, LastProperties
  <2>5. \A e \in log : e.seq \in Nat
    BY DEF TypeOK, Event
  <2>6. \A e \in log : e.order \notin late /\ e.seq > n =>
            e \in batch[p] \/ \A f \in batch[p] : f.seq < e.seq
    BY <1>2 DEF CommitBatch, BatchIsPrefix
  <2>7. table[t] \in [Order -> Status]
    BY <2>1 DEF TypeOK
  <2> HIDE DEF n, m
  <2>8. n \in Nat /\ m \in Nat /\ n <= m
    BY <2>1, <2>3, <2>4, <2>5
  <2>9. ASSUME NEW o \in Order, o \notin late
        PROVE  Applied(table[t], batch[p])[o] = FoldOf(UpTo(m))[o]
    <3>1. \A e \in log : e.order = o => (e.seq <= m <=> e.seq <= n \/ e \in batch[p])
      BY <2>3, <2>4, <2>5, <2>6, <2>8, <2>9
    <3>2. table[t][o] = FoldOf(UpTo(n))[o]
      BY <2>1, <2>9 DEF PunctualOrdersAreShown, n
    <3> QED
      BY <2>3, <2>8, <3>1, <3>2, AppliedFold
  <2>10. ASSUME NEW u \in Table, NEW o \in Order, o \notin late
         PROVE  table'[u][o] = FoldOf(UpTo(ckpt'[u]))[o]
    <3>1. CASE u = t
      BY <2>1, <2>2, <2>9, <2>10, <3>1 DEF TypeOK
    <3>2. CASE u # t
      <4>1. table'[u] = table[u] /\ ckpt'[u] = ckpt[u]
        BY <2>2, <3>2 DEF TypeOK
      <4> QED
        BY <2>10, <4>1 DEF PunctualOrdersAreShown
    <3> QED
      BY <3>1, <3>2
  <2> QED
    BY <2>1, <2>10 DEF PunctualOrdersAreShown, UpTo, FoldOf
<1>3. ASSUME log' = log, late' = late,
             \A t \in Table : \/ ckpt'[t] = 0 /\ table'[t] = EmptyTable
                             \/ \E u \in Table : ckpt'[t] = ckpt[u] /\ table'[t] = table[u]
      PROVE  PunctualOrdersAreShown'
  <2>1. FoldOf(UpTo(0)) = EmptyTable
    <3>1. UpTo(0) = {}
      BY DEF UpTo, TypeOK, Event
    <3> QED
      BY <3>1 DEF FoldOf, EmptyTable, Has
  <2>2. \A t \in Table, o \in Order \ late : table'[t][o] = FoldOf(UpTo(ckpt'[t]))[o]
    BY <1>3, <2>1 DEF PunctualOrdersAreShown
  <2> QED
    BY <1>3, <2>2 DEF PunctualOrdersAreShown, UpTo, FoldOf
<1>4. CASE Rebuild
  BY <1>3, <1>4 DEF Rebuild, CreateV2, Rename, Switch, Table, TypeOK
<1>5. CASE table' = table /\ ckpt' = ckpt /\ log' = log /\ late' = late
  BY <1>3, <1>5
<1> QED
  BY <1>1, <1>2, <1>4, <1>5
     DEF Next, createOrder, payOrder, Insert, RollbackInsert, applyLog, LockCheckpoint,
         ReadLog, Write, BreakDeadlock, Fail, vars

\* With any number of writers, a late commit harms no order but its own: every
\* other one is shown as the log up to the table's position has it, through
\* concurrent projectors, failures, deadlocks and rebuilds.  (applyLog takes
\* seq > last_seq and never comes back to a number that was late.)
THEOREM LateCommitsAreConfined == Spec => []PunctualOrdersAreShown
<1> DEFINE Inv == BatchIsPrefix /\ PunctualOrdersAreShown
<1>1. Init => Inv
  <2> SUFFICES ASSUME Init PROVE Inv
    OBVIOUS
  <2>1. BatchIsPrefix
    BY DEF Init, BatchIsPrefix
  <2>2. \A t \in Table : UpTo(ckpt[t]) = {} /\ table[t] = EmptyTable
    BY DEF Init, UpTo
  <2>3. FoldOf({}) = EmptyTable
    BY DEF FoldOf, EmptyTable, Has
  <2> QED
    BY <2>1, <2>2, <2>3 DEF PunctualOrdersAreShown
<1>2. TypeOK /\ TypeOK' /\ Locks /\ Batches /\ Numbers /\ Orders /\ Inv
        /\ [Next]_vars => Inv'
  BY BatchIsPrefixStep, PunctualStep
<1>3. Inv => PunctualOrdersAreShown
  OBVIOUS
<1> QED
  BY <1>1, <1>2, <1>3, Typing, LockedBatches, Histories, PTL DEF Spec

OneWriter == \A v, w \in Writer : v = w

\* What one writer has inserted is younger than all that is visible.
Youngest == \A w \in Writer : \A e \in pending[w], f \in log : f.seq < e.seq

\* One writer, as main.go runs it, commits in the order of its numbers: no order
\* is ever late, and the read model is the fold of the log.
THEOREM ReadModelOfOneWriter == ASSUME OneWriter PROVE Spec => []ReadModelIsFold
<1> DEFINE Inv == Youngest /\ late = {}
<1>1. Init => Inv
  BY DEF Init, Youngest
<1>2. TypeOK /\ Numbers /\ Inv /\ [Next]_vars => Inv'
  <2> SUFFICES ASSUME TypeOK, Numbers, Youngest, late = {}, [Next]_vars PROVE Inv'
    OBVIOUS
  <2>1. ASSUME NEW w \in Writer, NEW o \in Order, createOrder(w, o) \/ payOrder(w, o)
        PROVE  Inv'
    <3>1. PICK type \in {"created", "paid"} : Insert(w, o, type)
      BY <2>1 DEF createOrder, payOrder
    <3>2. log' = log /\ late' = late
          /\ \A v \in Writer : pending'[v] = {[seq |-> seq + 1, order |-> o, type |-> type]}
      BY <3>1, OneWriter DEF Insert, TypeOK, OneWriter
    <3>3. \A f \in log : f.seq <= seq /\ f.seq \in Nat /\ seq \in Nat
      BY DEF Numbers, Known, TypeOK, Event
    <3> QED
      BY <3>2, <3>3 DEF Youngest
  <2>2. ASSUME NEW w \in Writer, CommitInsert(w) PROVE Inv'
    <3>1. \A v \in Writer : pending'[v] = {}
      BY <2>2, OneWriter DEF CommitInsert, TypeOK, OneWriter
    <3>2. \A e \in pending[w], f \in log : e \in Event /\ f \in Event /\ f.seq < e.seq
      BY DEF Youngest, TypeOK
    <3>3. late' = {}
      BY <2>2, <3>2 DEF CommitInsert, Event
    <3> QED
      BY <3>1, <3>3 DEF Youngest
  <2>3. ASSUME NEW w \in Writer, RollbackInsert(w) PROVE Inv'
    BY <2>3 DEF RollbackInsert, Youngest, TypeOK
  <2>4. CASE pending' = pending /\ log' = log /\ late' = late
    BY <2>4 DEF Youngest
  <2> QED
    BY <2>1, <2>2, <2>3, <2>4
       DEF Next, applyLog, LockCheckpoint, ReadLog, Write, CommitBatch, BreakDeadlock, Fail,
           Rebuild, CreateV2, Rename, Switch, vars
<1>3. TypeOK /\ Inv /\ PunctualOrdersAreShown => ReadModelIsFold
  <2> SUFFICES ASSUME TypeOK, late = {}, PunctualOrdersAreShown, NEW t \in Table
               PROVE  table[t] = FoldOf(UpTo(ckpt[t]))
    BY DEF ReadModelIsFold
  <2>1. \A o \in Order : table[t][o] = FoldOf(UpTo(ckpt[t]))[o]
    BY DEF PunctualOrdersAreShown
  <2>2. table[t] \in [Order -> Status]
    BY DEF TypeOK
  <2> QED
    BY <2>1, <2>2 DEF FoldOf
<1> QED
  BY <1>1, <1>2, <1>3, LateCommitsAreConfined, Typing, Histories, PTL DEF Spec
=============================================================================
