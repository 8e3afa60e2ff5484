-------------------------- MODULE OrderSagaProofs --------------------------
(***************************************************************************)
(* Proofs about OrderSaga, for any number of attempts of an activity, any  *)
(* of which may take effect late, and a cancellation at any time.          *)
(***************************************************************************)
EXTENDS OrderSaga, SequenceTheorems, TLAPS

\* The three parts of a saga: before the pivot, on the way back, and from the
\* pivot on, where there is no way back.
Early == {"OpenOrder", "ChargePayment", "ReserveStock"}
Back == {"UnreserveStock", "RefundPayment", "Cancel", "cancelled"}
Final == {"ShipOrder", "NotifyCustomer", "Confirm", "confirmed", "failed"}

StoreTypeOK ==
    /\ status \in {"", "PENDING", "CONFIRMED", "CANCELLED"}
    /\ shipped \in BOOLEAN
    /\ applied \subseteq {"charge", "refund", "reserve", "unreserve"}
    /\ paid \in -1..1 /\ reserved \in 0..1
    /\ compLog \in Seq({"payment", "reserve"})

\* EffectsOnce in its three parts: money, stock, and the log without repetition.
Money == paid = (IF "charge" \in applied THEN 1 ELSE 0) - (IF "refund" \in applied THEN 1 ELSE 0)
Stock == /\ reserved <= IF "reserve" \in applied THEN 1 ELSE 0
         /\ reserved >= (IF "reserve" \in applied THEN 1 ELSE 0)
                          - (IF "unreserve" \in applied THEN 1 ELSE 0)


\* What the log of compensations shows has its idempotency key.
Logged ==
    \A i \in 1..Len(compLog) :
        /\ compLog[i] = "payment" => "refund" \in applied
        /\ compLog[i] = "reserve" => "unreserve" \in applied

\* An attempt that is still to take effect belongs to the part of the saga
\* the workflow is in, or to the part before the pivot.
Parts ==
    /\ step \in Early =>
         /\ late \subseteq Early /\ compLog = <<>>
         /\ ~shipped /\ status # "CONFIRMED"
    /\ step \in Back =>
         /\ late \subseteq Early \cup Back
         /\ ~shipped /\ status # "CONFIRMED"
    /\ step \in Final => late \subseteq Early \cup Final /\ compLog = <<>>

\* The workflow goes on only after a charge, and a reservation, succeeded.
Secured ==
    /\ step = "ReserveStock" => "charge" \in applied
    /\ \/ step \in {"ShipOrder", "NotifyCustomer", "Confirm", "confirmed"}
       \/ "Confirm" \in late \/ status = "CONFIRMED"
       => {"charge", "reserve"} \subseteq applied

IInv == TypeOK /\ EffectsOnce /\ Logged /\ Parts /\ Secured
-----------------------------------------------------------------------------
(* What an attempt does to the store, whenever it gets to do it *)

LEMMA Logs ==
    ASSUME NEW entry \in {"payment", "reserve"}, NEW key,
           key = IF entry = "payment" THEN "refund" ELSE "unreserve",
           compLog \in Seq({"payment", "reserve"}), Logged, IsInjective(compLog),
           key \notin applied, applied' = applied \cup {key},
           compLog' = Append(compLog, entry)
    PROVE  /\ compLog' \in Seq({"payment", "reserve"})
           /\ Logged' /\ IsInjective(compLog)'
<1>1. /\ compLog' \in Seq({"payment", "reserve"})
      /\ Len(compLog') = Len(compLog) + 1
      /\ \A i \in 1..Len(compLog) : compLog'[i] = compLog[i]
      /\ compLog'[Len(compLog) + 1] = entry
  BY AppendProperties
<1>2. Len(compLog) \in Nat /\ DOMAIN compLog = 1..Len(compLog)
      /\ DOMAIN compLog' = 1..Len(compLog')
  BY <1>1, LenProperties
<1>3. Logged'
  <2> SUFFICES ASSUME NEW i \in 1..Len(compLog')
               PROVE  /\ compLog'[i] = "payment" => "refund" \in applied'
                      /\ compLog'[i] = "reserve" => "unreserve" \in applied'
    BY DEF Logged
  <2>1. i \in 1..Len(compLog) \/ i = Len(compLog) + 1
    BY <1>1, <1>2
  <2> QED
    BY <1>1, <2>1 DEF Logged
<1>4. \A i \in 1..Len(compLog) : compLog[i] # entry
  BY DEF Logged
<1>5. IsInjective(compLog)'
  <2> SUFFICES ASSUME NEW i \in 1..Len(compLog'), NEW j \in 1..Len(compLog'),
                      compLog'[i] = compLog'[j]
               PROVE  i = j
    BY <1>2 DEF IsInjective
  <2>1. /\ i \in 1..Len(compLog) \/ i = Len(compLog) + 1
        /\ j \in 1..Len(compLog) \/ j = Len(compLog) + 1
    BY <1>1, <1>2
  <2> QED
    BY <1>1, <1>2, <1>4, <2>1 DEF IsInjective
<1> QED
  BY <1>1, <1>3, <1>5

LEMMA EffectsInParts == EffectsOnce <=> Money /\ Stock /\ IsInjective(compLog)
  BY DEF EffectsOnce, Money, Stock

\* The first effect under a key moves its number once.
LEMMA FirstCharge ==
    ASSUME Money, "charge" \notin applied, paid' = paid + 1,
           applied' = applied \cup {"charge"}
    PROVE  Money' /\ paid' \in -1..1
<1>1. CASE "refund" \in applied
  BY <1>1 DEF Money
<1>2. CASE "refund" \notin applied
  BY <1>2 DEF Money
<1> QED
  BY <1>1, <1>2

LEMMA FirstRefund ==
    ASSUME Money, "refund" \notin applied, paid' = paid - 1,
           applied' = applied \cup {"refund"}
    PROVE  Money' /\ paid' \in -1..1
<1>1. CASE "charge" \in applied
  BY <1>1 DEF Money
<1>2. CASE "charge" \notin applied
  BY <1>2 DEF Money
<1> QED
  BY <1>1, <1>2

LEMMA FirstReserve ==
    ASSUME Stock, reserved \in 0..1, "reserve" \notin applied, reserved' = reserved + 1,
           applied' = applied \cup {"reserve"}
    PROVE  Stock' /\ reserved' \in 0..1
<1>1. CASE "unreserve" \in applied
  BY <1>1 DEF Stock
<1>2. CASE "unreserve" \notin applied
  BY <1>2 DEF Stock
<1> QED
  BY <1>1, <1>2

LEMMA FirstUnreserve ==
    ASSUME Stock, reserved \in 0..1, "unreserve" \notin applied,
           reserved' = IF "reserve" \in applied THEN reserved - 1 ELSE reserved,
           applied' = applied \cup {"unreserve"}
    PROVE  Stock' /\ reserved' \in 0..1
<1>1. CASE "reserve" \in applied
  BY <1>1 DEF Stock
<1>2. CASE "reserve" \notin applied
  BY <1>2 DEF Stock
<1> QED
  BY <1>1, <1>2
Store == StoreTypeOK /\ Money /\ Stock /\ IsInjective(compLog) /\ Logged

\* Effects stay single, in whatever order and however often attempts come.
LEMMA PerformOnce ==
    ASSUME NEW a \in Activity, Store, Perform(a) PROVE Store'
<1> USE DEF Store
<1>1. CASE openOrder
  BY <1>1 DEF openOrder, Logged, StoreTypeOK, Money, Stock
<1>2. CASE charge
  <2>1. Logged' /\ Stock' /\ UNCHANGED <<compLog, reserved>>
    BY <1>2 DEF charge, Logged, Stock
  <2>2. Money' /\ paid' \in -1..1
    <3>1. CASE "charge" \in applied
      <4>1. applied' = applied /\ paid' = paid
        BY <1>2, <3>1 DEF charge
      <4> QED
        BY <4>1 DEF Money, StoreTypeOK
    <3>2. CASE "charge" \notin applied
      <4>1. applied' = applied \cup {"charge"} /\ paid' = paid + 1
        BY <1>2, <3>2 DEF charge
      <4> QED
        BY <3>2, <4>1, FirstCharge
    <3> QED
      BY <3>1, <3>2
  <2>3. StoreTypeOK'
    BY <1>2, <2>1, <2>2 DEF charge, StoreTypeOK
  <2> QED
    BY <2>1, <2>2, <2>3
<1>3. CASE refund
  <2>1. Stock'
    BY <1>3 DEF refund, Stock
  <2>2. CASE "refund" \in applied
    <3>1. UNCHANGED storeVars
      BY <1>3, <2>2 DEF refund, storeVars
    <3> QED
      BY <3>1 DEF storeVars, StoreTypeOK, Money, Stock, Logged
  <2>3. CASE "refund" \notin applied
    <3>1. /\ applied' = applied \cup {"refund"} /\ paid' = paid - 1
          /\ compLog' = Append(compLog, "payment")
      BY <1>3, <2>3 DEF refund
    <3>2. Money' /\ paid' \in -1..1
      BY <2>3, <3>1, FirstRefund
    <3>3. compLog' \in Seq({"payment", "reserve"}) /\ Logged' /\ IsInjective(compLog)'
      BY <2>3, <3>1, Logs DEF StoreTypeOK
    <3>4. StoreTypeOK'
      BY <1>3, <3>2, <3>3 DEF refund, StoreTypeOK
    <3> QED
      BY <2>1, <3>2, <3>3, <3>4
  <2> QED
    BY <2>2, <2>3
<1>4. CASE reserve
  <2>1. Logged' /\ Money' /\ UNCHANGED <<compLog, paid>>
    BY <1>4 DEF reserve, Logged, Money
  <2>2. Stock' /\ reserved' \in 0..1
    <3>1. CASE "reserve" \in applied
      <4>1. applied' = applied /\ reserved' = reserved
        BY <1>4, <3>1 DEF reserve
      <4> QED
        BY <4>1 DEF Stock, StoreTypeOK
    <3>2. CASE "reserve" \notin applied
      <4>1. applied' = applied \cup {"reserve"} /\ reserved' = reserved + 1
        BY <1>4, <3>2 DEF reserve
      <4> QED
        BY <3>2, <4>1, FirstReserve DEF StoreTypeOK
    <3> QED
      BY <3>1, <3>2
  <2>3. StoreTypeOK'
    BY <1>4, <2>1, <2>2 DEF reserve, StoreTypeOK
  <2> QED
    BY <2>1, <2>2, <2>3
<1>5. CASE unreserve
  <2>1. Money'
    BY <1>5 DEF unreserve, Money
  <2>2. CASE "unreserve" \in applied
    <3>1. UNCHANGED storeVars
      BY <1>5, <2>2 DEF unreserve, storeVars
    <3> QED
      BY <3>1 DEF storeVars, StoreTypeOK, Money, Stock, Logged
  <2>3. CASE "unreserve" \notin applied
    <3>1. /\ applied' = applied \cup {"unreserve"}
          /\ reserved' = IF "reserve" \in applied THEN reserved - 1 ELSE reserved
          /\ compLog' = Append(compLog, "reserve")
      BY <1>5, <2>3 DEF unreserve
    <3>2. Stock' /\ reserved' \in 0..1
      BY <2>3, <3>1, FirstUnreserve DEF StoreTypeOK
    <3>3. compLog' \in Seq({"payment", "reserve"}) /\ Logged' /\ IsInjective(compLog)'
      BY <2>3, <3>1, Logs DEF StoreTypeOK
    <3>4. StoreTypeOK'
      BY <1>5, <3>2, <3>3 DEF unreserve, StoreTypeOK
    <3> QED
      BY <2>1, <3>2, <3>3, <3>4
  <2> QED
    BY <2>2, <2>3
<1>6. CASE ship
  BY <1>6 DEF ship, Logged, StoreTypeOK, Money, Stock
<1>7. ASSUME NEW s \in {"CONFIRMED", "CANCELLED"}, setStatus(s) PROVE Store'
  BY <1>7 DEF setStatus, Logged, StoreTypeOK, Money, Stock
<1>8. CASE UNCHANGED storeVars
  BY <1>8 DEF storeVars, Logged, StoreTypeOK, Money, Stock
<1> QED
  BY <1>1, <1>2, <1>3, <1>4, <1>5, <1>6, <1>7, <1>8 DEF Perform

\* What each attempt cannot do, and what it leaves behind.
LEMMA PerformInPart ==
    ASSUME NEW a \in Activity, StoreTypeOK, Perform(a)
    PROVE  /\ a \notin Back => compLog' = compLog
           /\ a \notin Final => (shipped' => shipped)
           /\ a # "Confirm" /\ status' = "CONFIRMED" => status = "CONFIRMED"
           /\ applied \subseteq applied'
           /\ a = "ChargePayment" => "charge" \in applied'
           /\ a = "ReserveStock" => "reserve" \in applied'
<1> USE DEF Perform, Back, Final, StoreTypeOK, openOrder, charge, refund, reserve,
            unreserve, ship, setStatus, storeVars
<1>1. a \notin Back => compLog' = compLog
  OBVIOUS
<1>2. a \notin Final => (shipped' => shipped)
  OBVIOUS
<1>3. a # "Confirm" /\ status' = "CONFIRMED" => status = "CONFIRMED"
  OBVIOUS
<1>4. /\ applied \subseteq applied'
      /\ a = "ChargePayment" => "charge" \in applied'
      /\ a = "ReserveStock" => "reserve" \in applied'
  OBVIOUS
<1> QED
  BY <1>1, <1>2, <1>3, <1>4
-----------------------------------------------------------------------------
(* Where the workflow goes *)

\* An attempt of the awaited activity ended somehow: it may have taken effect
\* or may do so yet, and only an activity that has lets the workflow go on.
Ended(a) ==
    /\ step = a
    /\ late' \subseteq late \cup {a}
    /\ Perform(a) \/ UNCHANGED storeVars
    /\ step' \in {a, AfterError[a]} \/ (step' = AfterSuccess[a] /\ Perform(a))

LEMMA EndedType ==
    ASSUME NEW a \in Activity, Ended(a) PROVE step' \in Activity \cup End
  BY DEF Ended, AfterError, AfterSuccess, Activity, Forward, Compensation, End

LEMMA ErrorStaysInPart ==
    ASSUME NEW a \in Activity
    PROVE  /\ a \in Early => AfterError[a] \in Back \cup {"failed"}
           /\ a \in Back => AfterError[a] \in Back
           /\ a \in Final => AfterError[a] \in {"Confirm", "failed"}
           /\ AfterError[a] = "Confirm" => a = "NotifyCustomer"
  BY DEF Activity, Forward, Compensation, Early, Back, Final, AfterError

LEMMA SuccessStaysInPart ==
    ASSUME NEW a \in Activity
    PROVE  /\ a \in Early => AfterSuccess[a] \in Early \cup {"ShipOrder"}
           /\ a \in Back => AfterSuccess[a] \in Back
           /\ a \in Final => AfterSuccess[a] \in Final
           /\ AfterSuccess[a] = "ReserveStock" => a = "ChargePayment"
           /\ AfterSuccess[a] = "ShipOrder" => a = "ReserveStock"
           /\ AfterSuccess[a] \in {"NotifyCustomer", "Confirm", "confirmed"} =>
                a \in {"ShipOrder", "NotifyCustomer", "Confirm"}
  BY DEF Activity, Forward, Compensation, Early, Back, Final, AfterSuccess

LEMMA PartsAreDisjoint ==
    /\ Early \cap Back = {} /\ Early \cap Final = {} /\ Back \cap Final = {}
    /\ Activity \cup End = Early \cup Back \cup Final
  BY DEF Early, Back, Final, Activity, Forward, Compensation, End

\* What the store looks like after an attempt that took effect, or did not.
LEMMA EffectInPart ==
    ASSUME NEW a \in Activity, StoreTypeOK, Perform(a) \/ UNCHANGED storeVars
    PROVE  /\ a \notin Back => compLog' = compLog
           /\ a \notin Final => (shipped' => shipped)
           /\ a # "Confirm" /\ status' = "CONFIRMED" => status = "CONFIRMED"
           /\ applied \subseteq applied'
<1>1. CASE Perform(a)
  BY <1>1, PerformInPart
<1>2. CASE UNCHANGED storeVars
  BY <1>2 DEF storeVars
<1> QED
  BY <1>1, <1>2

LEMMA PartsAfter ==
    ASSUME NEW a \in Activity, StoreTypeOK, Parts, Ended(a) PROVE Parts'
<1>1. /\ a \notin Back => compLog' = compLog
      /\ a \notin Final => (shipped' => shipped)
      /\ a # "Confirm" /\ status' = "CONFIRMED" => status = "CONFIRMED"
  BY EffectInPart DEF Ended
<1>2. /\ step = a /\ late' \subseteq late \cup {a}
      /\ step' = a \/ step' = AfterError[a] \/ step' = AfterSuccess[a]
  BY DEF Ended
<1>3. "Confirm" \notin Early \cup Back
  BY DEF Early, Back
<1>4. CASE a \in Early
  <2>1. step' \in Early \cup Back \cup {"ShipOrder", "failed"}
    BY <1>2, <1>4, ErrorStaysInPart, SuccessStaysInPart
  <2>2. /\ late' \subseteq Early /\ compLog' = <<>>
        /\ ~shipped' /\ status' # "CONFIRMED"
    BY <1>1, <1>2, <1>3, <1>4, PartsAreDisjoint DEF Parts
  <2> QED
    BY <2>1, <2>2, PartsAreDisjoint DEF Parts
<1>5. CASE a \in Back
  <2>1. step' \in Back
    BY <1>2, <1>5, ErrorStaysInPart, SuccessStaysInPart
  <2>2. late' \subseteq Early \cup Back /\ ~shipped' /\ status' # "CONFIRMED"
    BY <1>1, <1>2, <1>3, <1>5, PartsAreDisjoint DEF Parts
  <2> QED
    BY <2>1, <2>2, PartsAreDisjoint DEF Parts
<1>6. CASE a \in Final
  <2>1. step' \in Final
    <3> "Confirm" \in Final /\ "failed" \in Final
      BY DEF Final
    <3> QED
      BY <1>2, <1>6, ErrorStaysInPart, SuccessStaysInPart
  <2>2. late' \subseteq Early \cup Final /\ compLog' = <<>>
    BY <1>1, <1>2, <1>6, PartsAreDisjoint DEF Parts
  <2> QED
    BY <2>1, <2>2, PartsAreDisjoint DEF Parts
<1> QED
  BY <1>4, <1>5, <1>6, PartsAreDisjoint

LEMMA SecuredAfter ==
    ASSUME NEW a \in Activity, StoreTypeOK, Secured, Ended(a) PROVE Secured'
<1>1. /\ a # "Confirm" /\ status' = "CONFIRMED" => status = "CONFIRMED"
      /\ applied \subseteq applied'
  BY EffectInPart DEF Ended
<1>2. step = a /\ late' \subseteq late \cup {a}
  BY DEF Ended
<1>3. step' = "ReserveStock" => "charge" \in applied'
  <2>1. AfterError[a] # "ReserveStock"
    BY DEF AfterError, Activity, Forward, Compensation
  <2>2. CASE step' = a
    BY <1>1, <1>2, <2>2 DEF Secured
  <2>3. CASE step' = AfterSuccess[a] /\ Perform(a)
    BY <2>3, SuccessStaysInPart, PerformInPart
  <2> QED
    BY <2>1, <2>2, <2>3 DEF Ended
<1>4. "Confirm" \in late' \/ status' = "CONFIRMED" => {"charge", "reserve"} \subseteq applied'
  BY <1>1, <1>2 DEF Secured
<1>5. step' \in {"ShipOrder", "NotifyCustomer", "Confirm", "confirmed"}
        => {"charge", "reserve"} \subseteq applied'
  <2>1. CASE step' = a
    BY <1>1, <1>2, <2>1 DEF Secured
  <2>2. CASE step' = AfterError[a]
    <3>1. AfterError[a] \notin {"ShipOrder", "NotifyCustomer", "confirmed"}
      BY DEF AfterError, Activity, Forward, Compensation
    <3> QED
      BY <1>1, <1>2, <2>2, <3>1, ErrorStaysInPart DEF Secured
  <2>3. CASE step' = AfterSuccess[a] /\ Perform(a)
    <3>1. CASE a = "ReserveStock"
      BY <1>1, <1>2, <2>3, <3>1, PerformInPart DEF Secured
    <3>2. CASE a # "ReserveStock"
      BY <1>1, <1>2, <2>3, <3>2, SuccessStaysInPart DEF Secured
    <3> QED
      BY <3>1, <3>2
  <2> QED
    BY <2>1, <2>2, <2>3 DEF Ended
<1> QED
  BY <1>3, <1>4, <1>5 DEF Secured
-----------------------------------------------------------------------------
(* The invariant *)

LEMMA InvariantInParts ==
    IInv <=> /\ Store /\ Parts /\ Secured
             /\ step \in Activity \cup End /\ attempt \in 1..MaximumAttempts
             /\ cancelled \in BOOLEAN /\ late \subseteq Activity
             /\ failReserve \in BOOLEAN
  BY EffectsInParts DEF IInv, TypeOK, Store, StoreTypeOK

LEMMA Assembled ==
    ASSUME Store', Parts', Secured', step' \in Activity \cup End,
           attempt' \in 1..MaximumAttempts, cancelled' \in BOOLEAN,
           late' \subseteq Activity, failReserve' \in BOOLEAN
    PROVE  IInv'
<1>1. EffectsOnce'
  BY DEF Store, EffectsOnce, Money, Stock
<1> QED
  BY <1>1 DEF IInv, TypeOK, Store, StoreTypeOK

LEMMA Initially == Init => IInv
<1> SUFFICES ASSUME Init PROVE IInv
  OBVIOUS
<1>1. compLog \in Seq({"payment", "reserve"}) /\ Len(compLog) = 0 /\ DOMAIN compLog = {}
  <2>1. compLog = <<>>
    BY DEF Init
  <2>2. compLog \in Seq({"payment", "reserve"}) /\ Len(compLog) = 0
    BY <2>1, EmptySeq
  <2> QED
    BY <2>2, LenProperties
<1>2. StoreTypeOK /\ Money /\ Stock
  <2>1. paid = 0 /\ reserved = 0 /\ applied = {}
    BY DEF Init
  <2>2. Money /\ Stock
    BY <2>1 DEF Money, Stock
  <2>3. paid \in -1..1 /\ reserved \in 0..1
    BY <2>1
  <2>4. shipped \in BOOLEAN /\ status = ""
    BY DEF Init
  <2> QED
    BY <1>1, <2>1, <2>2, <2>3, <2>4 DEF StoreTypeOK
<1>3. IsInjective(compLog) /\ Logged
  BY <1>1 DEF IsInjective, Logged
<1>4. step = "OpenOrder" /\ late = {} /\ step \notin Back /\ step \notin Final
  BY DEF Init, Back, Final
<1>5. Parts /\ Secured
  BY <1>4 DEF Init, Parts, Secured
<1>6. step \in Activity \cup End /\ attempt \in 1..MaximumAttempts
  <2>1. step \in Activity /\ attempt = 1
    BY DEF Init, Activity, Forward
  <2> QED
    BY <2>1, SagaAssumption DEF SagaAssumption
<1> QED
  BY <1>2, <1>3, <1>5, <1>6, InvariantInParts DEF Store, Init

\* What is left of the invariant once a step of an activity has ended.
LEMMA KeptByEnding ==
    ASSUME IInv, NEW a \in Activity, Ended(a), attempt' \in 1..MaximumAttempts,
           cancelled' \in BOOLEAN, UNCHANGED failReserve
    PROVE  IInv'
<1>1. Store'
  <2>1. CASE Perform(a)
    BY <2>1, PerformOnce, InvariantInParts
  <2>2. CASE UNCHANGED storeVars
    BY <2>2, InvariantInParts DEF storeVars, Store, StoreTypeOK, Money, Stock, Logged
  <2> QED
    BY <2>1, <2>2 DEF Ended
<1>2. Parts' /\ Secured'
  BY PartsAfter, SecuredAfter, InvariantInParts DEF Store
<1>3. step' \in Activity \cup End
  BY EndedType
<1>4. late' \subseteq Activity
  BY InvariantInParts DEF Ended
<1> QED
  BY <1>1, <1>2, <1>3, <1>4, InvariantInParts, Assembled

LEMMA RetryEnds ==
    ASSUME NEW a, step = a, attempt \in 1..MaximumAttempts, Retry(a)
    PROVE  step' \in {a, AfterError[a]} /\ attempt' \in 1..MaximumAttempts
  BY SagaAssumption DEF SagaAssumption, Retry, Goto

LEMMA KeptByAttempt ==
    ASSUME IInv, NEW a \in Activity, Attempt(a) PROVE IInv'
<1> 1 \in 1..MaximumAttempts
  BY SagaAssumption DEF SagaAssumption
<1>1. attempt \in 1..MaximumAttempts /\ cancelled \in BOOLEAN
  BY InvariantInParts
<1>2. CASE Succeed(a)
  BY <1>1, <1>2, KeptByEnding DEF Succeed, Scheduled, Goto, Ended
<1>3. CASE Reject(a)
  BY <1>1, <1>3, KeptByEnding DEF Reject, Scheduled, Goto, Ended
<1>4. CASE FailAfterEffect(a)
  BY <1>1, <1>4, RetryEnds, KeptByEnding DEF FailAfterEffect, Scheduled, Ended
<1>5. CASE FailBeforeEffect(a)
  BY <1>1, <1>5, RetryEnds, KeptByEnding DEF FailBeforeEffect, Scheduled, Ended
<1>6. CASE SkipCancelled(a)
  BY <1>1, <1>6, KeptByEnding DEF SkipCancelled, Goto, Ended
<1> QED
  BY <1>2, <1>3, <1>4, <1>5, <1>6 DEF Attempt

LEMMA KeptByLateEffect ==
    ASSUME IInv, NEW a \in Activity, TakeEffectLate(a) PROVE IInv'
<1>1. /\ a \in late /\ Perform(a) /\ late' \subseteq late
      /\ UNCHANGED <<step, attempt, cancelled, failReserve>>
  BY DEF TakeEffectLate
<1>2. Store' /\ StoreTypeOK
  BY <1>1, PerformOnce, InvariantInParts DEF Store
<1>3. /\ a \notin Back => compLog' = compLog
      /\ a \notin Final => (shipped' => shipped)
      /\ a # "Confirm" /\ status' = "CONFIRMED" => status = "CONFIRMED"
      /\ applied \subseteq applied'
  BY <1>1, <1>2, PerformInPart
<1>4. "Confirm" \in Final
  BY DEF Final
<1>5. Parts'
  BY <1>1, <1>3, <1>4, PartsAreDisjoint, InvariantInParts DEF Parts
<1>6. Secured'
  BY <1>1, <1>3, InvariantInParts DEF Secured
<1> QED
  BY <1>1, <1>2, <1>5, <1>6, InvariantInParts, Assembled

LEMMA KeptByCancel ==
    ASSUME IInv, CancelWorkflow PROVE IInv'
<1> 1 \in 1..MaximumAttempts
  BY SagaAssumption DEF SagaAssumption
<1>1. CASE step \in Activity \ Compensation
  BY <1>1, KeptByEnding DEF CancelWorkflow, Goto, Ended
<1>2. CASE step \notin Activity \ Compensation
  <2>1. cancelled' = TRUE /\ UNCHANGED <<step, attempt, late, failReserve, storeVars>>
    BY <1>2 DEF CancelWorkflow
  <2>2. Store' /\ Parts' /\ Secured'
    BY <2>1, InvariantInParts DEF storeVars, Store, StoreTypeOK, Money, Stock,
                                  Logged, Parts, Secured
  <2> QED
    BY <2>1, <2>2, InvariantInParts, Assembled
<1> QED
  BY <1>1, <1>2

LEMMA Inductive == IInv /\ [Next]_vars => IInv'
<1> SUFFICES ASSUME IInv, [Next]_vars PROVE IInv'
  OBVIOUS
<1>1. CASE UNCHANGED vars
  <2>1. Store' /\ Parts' /\ Secured'
    BY <1>1, InvariantInParts DEF vars, storeVars, Store, StoreTypeOK, Money, Stock,
                                  Logged, Parts, Secured
  <2> QED
    BY <1>1, <2>1, InvariantInParts, Assembled DEF vars
<1> QED
  BY <1>1, KeptByAttempt, KeptByLateEffect, KeptByCancel DEF Next

LEMMA Invariance == Spec => []IInv
  BY Initially, Inductive, PTL DEF Spec
-----------------------------------------------------------------------------
(* The theorems *)

\* Money and stock stay within one order, for any number of attempts.
THEOREM Typing == Spec => []TypeOK
<1> IInv => TypeOK
  BY DEF IInv
<1> QED
  BY Invariance, PTL

\* Retries, late attempts and cancellation never apply an effect twice.
THEOREM EffectsAreSingle == Spec => []EffectsOnce
<1> IInv => EffectsOnce
  BY DEF IInv
<1> QED
  BY Invariance, PTL

\* Once an attempt to ship can have taken effect, nothing is compensated.
THEOREM NoWayBackFromThePivot == Spec => []PivotIsFinal
<1> IInv => PivotIsFinal
  BY PartsAreDisjoint DEF IInv, TypeOK, Parts, PivotIsFinal
<1> QED
  BY Invariance, PTL

\* The workflow confirms what was charged and reserved, and nothing else.
THEOREM ConfirmedOrdersArePaid == Spec => []ConfirmedMeansPaid
<1> IInv => ConfirmedMeansPaid
  BY PartsAreDisjoint DEF IInv, TypeOK, Parts, Secured, ConfirmedMeansPaid
<1> QED
  BY Invariance, PTL
=============================================================================
