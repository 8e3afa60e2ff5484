----------------------------- MODULE OrderSaga -----------------------------
(***************************************************************************)
(* The order saga of architecture/saga: the workflow OrderSaga, which      *)
(* calls one activity after the other, and the store its activities work   *)
(* on.  Temporal retries an attempt that fails; an attempt may fail before *)
(* or after its effect, and one that has timed out may take effect much    *)
(* later, when the workflow has long gone on.  Orders do not interact, so  *)
(* there is one.  Money is counted in Amounts and stock in Qtys.           *)
(***************************************************************************)
EXTENDS Integers, SequencesExt

CONSTANT MaximumAttempts  \* of the RetryPolicy

ASSUME SagaAssumption == MaximumAttempts \in Nat \ {0}

VARIABLES step,      \* the activity the workflow awaits, or how it ended
          attempt,   \* the number of the attempt under way
          cancelled, \* the workflow has been asked to cancel
          late,      \* activities of which an attempt is still to take effect
          failReserve,  \* OrderInput.FailReserve
          status, shipped,  \* the order's record
          applied,   \* the idempotency keys of the order
          paid,      \* what has been taken from the account, net
          reserved,
          compLog

storeVars == <<status, shipped, applied, paid, reserved, compLog>>
vars == <<step, attempt, cancelled, late, failReserve, storeVars>>

Forward == {"OpenOrder", "ChargePayment", "ReserveStock", "ShipOrder",
            "NotifyCustomer", "Confirm"}
Compensation == {"UnreserveStock", "RefundPayment"}
Activity == Forward \cup Compensation \cup {"Cancel"}
End == {"confirmed", "cancelled", "failed"}

TypeOK ==
    /\ step \in Activity \cup End
    /\ attempt \in 1..MaximumAttempts
    /\ cancelled \in BOOLEAN
    /\ late \subseteq Activity
    /\ failReserve \in BOOLEAN
    /\ status \in {"", "PENDING", "CONFIRMED", "CANCELLED"}
    /\ shipped \in BOOLEAN
    /\ applied \subseteq {"charge", "refund", "reserve", "unreserve"}
    /\ paid \in -1..1 /\ reserved \in 0..1
    /\ compLog \in Seq({"payment", "reserve"})

Init ==
    /\ step = "OpenOrder" /\ attempt = 1
    /\ cancelled = FALSE /\ late = {}
    /\ failReserve \in BOOLEAN
    /\ status = "" /\ shipped = FALSE
    /\ applied = {} /\ paid = 0 /\ reserved = 0
    /\ compLog = <<>>
-----------------------------------------------------------------------------
(* The store: what an attempt does, whenever it gets to do it *)

\* The record is written anew, whatever was there.
openOrder ==
    /\ status' = "PENDING" /\ shipped' = FALSE
    /\ UNCHANGED <<applied, paid, reserved, compLog>>

\* Variant for a mutation check: no idempotency key.
chargeKeyless ==
    /\ paid' = paid + 1
    /\ applied' = applied \cup {"charge"}
    /\ UNCHANGED <<status, shipped, reserved, compLog>>

charge ==
    /\ paid' = IF "charge" \in applied THEN paid ELSE paid + 1
    /\ applied' = applied \cup {"charge"}
    /\ UNCHANGED <<status, shipped, reserved, compLog>>

\* Unlike unreserve, it does not ask whether there is anything to undo.
refund ==
    /\ IF "refund" \in applied THEN UNCHANGED <<paid, compLog>>
       ELSE paid' = paid - 1 /\ compLog' = Append(compLog, "payment")
    /\ applied' = applied \cup {"refund"}
    /\ UNCHANGED <<status, shipped, reserved>>

reserve ==
    /\ reserved' = IF "reserve" \in applied THEN reserved ELSE reserved + 1
    /\ applied' = applied \cup {"reserve"}
    /\ UNCHANGED <<status, shipped, paid, compLog>>

unreserve ==
    /\ IF "unreserve" \in applied THEN UNCHANGED <<reserved, compLog>>
       ELSE /\ reserved' = IF "reserve" \in applied THEN reserved - 1 ELSE reserved
            /\ compLog' = Append(compLog, "reserve")
    /\ applied' = applied \cup {"unreserve"}
    /\ UNCHANGED <<status, shipped, paid>>

\* Updates of an order that does not exist are ignored.
ship ==
    /\ shipped' = (shipped \/ status # "")
    /\ UNCHANGED <<status, applied, paid, reserved, compLog>>

setStatus(s) ==
    /\ status' = IF status = "" THEN "" ELSE s
    /\ UNCHANGED <<shipped, applied, paid, reserved, compLog>>

Perform(a) ==
    \/ a = "OpenOrder" /\ openOrder
    \/ a = "ChargePayment" /\ charge
    \/ a = "RefundPayment" /\ refund
    \/ a = "ReserveStock" /\ reserve
    \/ a = "UnreserveStock" /\ unreserve
    \/ a = "ShipOrder" /\ ship
    \/ a = "NotifyCustomer" /\ UNCHANGED storeVars
    \/ a = "Confirm" /\ setStatus("CONFIRMED")
    \/ a = "Cancel" /\ setStatus("CANCELLED")
-----------------------------------------------------------------------------
(* The workflow *)

AfterSuccess ==
    [OpenOrder |-> "ChargePayment", ChargePayment |-> "ReserveStock",
     ReserveStock |-> "ShipOrder", ShipOrder |-> "NotifyCustomer",
     NotifyCustomer |-> "Confirm", Confirm |-> "confirmed",
     UnreserveStock |-> "RefundPayment", RefundPayment |-> "Cancel",
     Cancel |-> "cancelled"]

\* Variants for mutation checks: the pivot rolled back, and a failed close
\* rolled back.
AfterErrorPivotUndone ==
    [OpenOrder |-> "failed", ChargePayment |-> "RefundPayment",
     ReserveStock |-> "UnreserveStock", ShipOrder |-> "UnreserveStock",
     NotifyCustomer |-> "Confirm", Confirm |-> "failed",
     UnreserveStock |-> "RefundPayment", RefundPayment |-> "Cancel",
     Cancel |-> "cancelled"]
AfterErrorCloseUndone ==
    [OpenOrder |-> "failed", ChargePayment |-> "RefundPayment",
     ReserveStock |-> "UnreserveStock", ShipOrder |-> "failed",
     NotifyCustomer |-> "Confirm", Confirm |-> "UnreserveStock",
     UnreserveStock |-> "RefundPayment", RefundPayment |-> "Cancel",
     Cancel |-> "cancelled"]

\* The compensations registered before the failed step, in reverse, and the
\* close; no way back from ShipOrder on; errors of compensations and of the
\* cancelling close are passed over.
AfterError ==
    [OpenOrder |-> "failed", ChargePayment |-> "RefundPayment",
     ReserveStock |-> "UnreserveStock", ShipOrder |-> "failed",
     NotifyCustomer |-> "Confirm", Confirm |-> "failed",
     UnreserveStock |-> "RefundPayment", RefundPayment |-> "Cancel",
     Cancel |-> "cancelled"]

Goto(s) == step' = s /\ attempt' = 1

\* The disconnected context of compensate.
Disconnected(a) == a \in Compensation

\* The activity may run: its context is not cancelled.
Scheduled(a) == step = a /\ (~cancelled \/ Disconnected(a))

Rejects(a) == a = "ReserveStock" /\ failReserve

Succeed(a) ==
    /\ Scheduled(a) /\ ~Rejects(a)
    /\ Perform(a)
    /\ Goto(AfterSuccess[a])
    /\ UNCHANGED <<cancelled, late, failReserve>>

\* FailReserve: the effect is applied, then the error is not retryable.
Reject(a) ==
    /\ Scheduled(a) /\ Rejects(a)
    /\ Perform(a)
    /\ Goto(AfterError[a])
    /\ UNCHANGED <<cancelled, late, failReserve>>

\* Variant for a mutation check: MaximumAttempts left at 0, no limit.
RetryForEver(a) == UNCHANGED <<step, attempt>>

Retry(a) ==
    IF attempt < MaximumAttempts
    THEN attempt' = attempt + 1 /\ UNCHANGED step
    ELSE Goto(AfterError[a])

\* The attempt takes effect but Temporal does not learn of it.
FailAfterEffect(a) ==
    /\ Scheduled(a)
    /\ Perform(a)
    /\ Retry(a)
    /\ UNCHANGED <<cancelled, late, failReserve>>

\* The attempt is lost, or times out and takes effect later.
FailBeforeEffect(a) ==
    /\ Scheduled(a)
    /\ late' \in {late, late \cup {a}}
    /\ Retry(a)
    /\ UNCHANGED <<cancelled, failReserve, storeVars>>

\* A timed-out attempt gets to its effect; there may be more of its kind.
TakeEffectLate(a) ==
    /\ a \in late
    /\ Perform(a)
    /\ late' \in {late, late \ {a}}
    /\ UNCHANGED <<step, attempt, cancelled, failReserve>>

\* The workflow is cancelled from outside.  An activity awaited on the
\* workflow's own context is abandoned where it stands.
CancelWorkflow ==
    /\ step \notin End /\ ~cancelled
    /\ cancelled' = TRUE
    /\ IF step \in Activity \ Compensation
       THEN Goto(AfterError[step]) /\ late' \in {late, late \cup {step}}
       ELSE UNCHANGED <<step, attempt, late>>
    /\ UNCHANGED <<failReserve, storeVars>>

\* On a cancelled context ExecuteActivity answers with an error at once.
SkipCancelled(a) ==
    /\ step = a /\ cancelled /\ ~Disconnected(a)
    /\ Goto(AfterError[a])
    /\ UNCHANGED <<cancelled, late, failReserve, storeVars>>

Attempt(a) ==
    \/ Succeed(a) \/ Reject(a) \/ FailAfterEffect(a) \/ FailBeforeEffect(a)
    \/ SkipCancelled(a)

Next ==
    \/ \E a \in Activity : Attempt(a) \/ TakeEffectLate(a)
    \/ CancelWorkflow

Spec == Init /\ [][Next]_vars

\* Temporal ends every attempt: by its answer, or after StartToCloseTimeout.
FairSpec == Spec /\ WF_vars(\E a \in Activity : Attempt(a))
-----------------------------------------------------------------------------
(* Properties *)

\* Whatever is retried or comes late, money moves at most once in each
\* direction, stock never leaves twice, and each compensation is logged once.
EffectsOnce ==
    LET one(k) == IF k \in applied THEN 1 ELSE 0 IN
    /\ paid = one("charge") - one("refund")
    /\ reserved <= one("reserve")
    /\ reserved >= one("reserve") - one("unreserve")
    /\ IsInjective(compLog)

\* The pivot: nothing is compensated once an attempt to ship may have been
\* made, not even when the workflow does not know whether it succeeded.
PivotIsFinal == shipped => compLog = <<>>

\* A confirmed order has been paid and reserved, and is never compensated.
ConfirmedMeansPaid ==
    status = "CONFIRMED" =>
        /\ {"charge", "reserve"} \subseteq applied
        /\ compLog = <<>>

\* The workflow comes to an end.
SagaEnds == <>(step \in End)
=============================================================================
