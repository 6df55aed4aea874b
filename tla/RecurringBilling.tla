-------------------------- MODULE RecurringBilling --------------------------
(***************************************************************************)
(* runMonthlySubscriptionBilling of payments.service.ts, as the cron and   *)
(* the manual endpoint run it.  A run reads its targets once and works     *)
(* through those copies one by one; every await is a step of its own, so   *)
(* requests and other runs come in between.  Only recordBillingFailure and *)
(* completeCanceledSubscription are transactions.                          *)
(***************************************************************************)
EXTENDS BillingStore

BatchPc == {"idle", "pick", "charge", "charged", "renew", "renewSave", "failed",
            "record", "recordSave", "complete", "completeSave"}

Target == [id : SubId, row : SubRow]

Run ==
    [pc : BatchPc, todo : SUBSET Target, sub : SubId \cup {NoId}, snap : SubRow,
     row : SubRow, payment : PaymentId \cup {NoId}, paidAt : Nat]

IdleRun ==
    [pc |-> "idle", todo |-> {}, sub |-> NoId, snap |-> NoSub, row |-> NoSub,
     payment |-> NoId, paidAt |-> 0]

AtRun(b, pc) == batch[b].pc = pc

(* On to the next target, forgetting the last one.                         *)
NextTarget(b) ==
    batch' = [batch EXCEPT ![b] = [IdleRun EXCEPT !.pc = "pick", !.todo = batch[b].todo]]

(* The targets are worked through by period end, ties in any order.        *)
Earliest(todo) == {t \in todo : \A o \in todo : t.row.periodEnd <= o.row.periodEnd}

(* A run starts even if an earlier one is still going.                     *)
StartRun(b) ==
    /\ AtRun(b, "idle")
    /\ BillingTargets # {}
    /\ batch' = [batch EXCEPT ![b] = [IdleRun EXCEPT !.pc = "pick", !.todo = BillingTargets]]
    /\ UNCHANGED <<tables, captured, now, req, crashes>>

EndRun(b) ==
    /\ AtRun(b, "pick") /\ batch[b].todo = {}
    /\ batch' = [batch EXCEPT ![b] = IdleRun]
    /\ UNCHANGED <<tables, captured, now, req, crashes>>

(* A target whose copy is cancel-reserved is completed, not charged.       *)
PickCanceled(b) ==
    /\ AtRun(b, "pick")
    /\ \E t \in Earliest(batch[b].todo) :
         /\ t.row.isCanceled
         /\ batch' = [batch EXCEPT ![b].pc = "complete", ![b].todo = @ \ {t},
                                   ![b].sub = t.id, ![b].snap = t.row]
    /\ UNCHANGED <<tables, captured, now, req, crashes>>

(* Any other target: the default method is looked up and a READY payment   *)
(* inserted.                                                               *)
PickCharge(b) ==
    /\ AtRun(b, "pick")
    /\ \E t \in Earliest(batch[b].todo), p \in Fresh(payments) :
       \E m \in IF DefaultMethods(t.row.user) = {} THEN {NoId} ELSE DefaultMethods(t.row.user) :
         /\ ~t.row.isCanceled
         /\ payments' = [payments EXCEPT ![p] =
                           ReadyPayment(t.row.user, t.id, m, ProPlanAmount)]
         /\ batch' = [batch EXCEPT ![b].pc = "charge", ![b].todo = @ \ {t}, ![b].sub = t.id,
                                   ![b].snap = t.row, ![b].payment = p]
    /\ UNCHANGED <<plan, withdrawn, methods, subs, captured, now, req, crashes>>

-----------------------------------------------------------------------------
(* The charge *)

Charge(b) ==
    /\ AtRun(b, "charge")
    /\ payments[batch[b].payment].method # NoId
    /\ captured' = [captured EXCEPT ![batch[b].payment] = TRUE]
    /\ batch' = [batch EXCEPT ![b].pc = "charged", ![b].paidAt = now]
    /\ UNCHANGED <<tables, now, req, crashes>>

(* The provider captures and its answer is lost: an error to the caller.   *)
ChargeAnswerLost(b) ==
    /\ AtRun(b, "charge")
    /\ payments[batch[b].payment].method # NoId
    /\ captured' = [captured EXCEPT ![batch[b].payment] = TRUE]
    /\ batch' = [batch EXCEPT ![b].pc = "failed"]
    /\ UNCHANGED <<tables, now, req, crashes>>

(* No default method, a key that does not decrypt, or a refusal.           *)
ChargeRefused(b) ==
    /\ AtRun(b, "charge")
    /\ batch' = [batch EXCEPT ![b].pc = "failed"]
    /\ UNCHANGED <<tables, captured, now, req, crashes>>

MarkApproved(b) ==
    /\ AtRun(b, "charged")
    /\ payments' = [payments EXCEPT ![batch[b].payment].status = "APPROVED",
                                    ![batch[b].payment].tid = TRUE,
                                    ![batch[b].payment].approvedAt = batch[b].paidAt]
    /\ batch' = [batch EXCEPT ![b].pc = "renew"]
    /\ UNCHANGED <<plan, withdrawn, methods, subs, captured, now, req, crashes>>

(* An exception after the charge is caught by the same catch as a refusal. *)
BookkeepingFails(b) ==
    /\ batch[b].pc \in {"charged", "renew", "renewSave"}
    /\ batch' = [batch EXCEPT ![b].pc = "failed"]
    /\ UNCHANGED <<tables, captured, now, req, crashes>>

(* The find inside updateSubscription, for the three callers of it.        *)
LoadRow(b) ==
    /\ batch[b].pc \in {"renew", "record", "complete"}
    /\ batch' = [batch EXCEPT ![b].row = subs[batch[b].sub],
                              ![b].pc = CASE @ = "renew"    -> "renewSave"
                                          [] @ = "record"   -> "recordSave"
                                          [] @ = "complete" -> "completeSave"]
    /\ UNCHANGED <<tables, captured, now, req, crashes>>

(* getRenewalBaseDate: the later of the period's end and the payment.      *)
Mut_RenewalBase(snap, paidAt) == snap.periodEnd
RenewalBase(snap, paidAt) == IF snap.periodEnd > paidAt THEN snap.periodEnd ELSE paidAt

Mut_Renewed(row, snap, paidAt) ==
    [row EXCEPT !.status = "ACTIVE", !.periodEnd = RenewalBase(row, paidAt) + Month]
Renewed(row, snap, paidAt) ==
    [row EXCEPT !.status = "ACTIVE", !.periodEnd = RenewalBase(snap, paidAt) + Month,
                !.isCanceled = FALSE, !.failed = 0]

SaveRenewal(b) ==
    /\ AtRun(b, "renewSave")
    /\ subs' = [subs EXCEPT ![batch[b].sub] =
                  Renewed(batch[b].row, batch[b].snap, batch[b].paidAt)]
    /\ NextTarget(b)
    /\ UNCHANGED <<plan, withdrawn, payments, methods, captured, now, req, crashes>>

-----------------------------------------------------------------------------
(* A failed charge *)

MarkFailed(b) ==
    /\ AtRun(b, "failed")
    /\ payments' = [payments EXCEPT ![batch[b].payment].status = "FAILED"]
    /\ batch' = [batch EXCEPT ![b].pc = "record"]
    /\ UNCHANGED <<plan, withdrawn, methods, subs, captured, now, req, crashes>>

(* recordBillingFailure counts from the run's copy of the subscription.    *)
Mut_FailedAttempts(b) == batch[b].snap.failed + 2
FailedAttempts(b) == batch[b].snap.failed + 1

SaveFailure(b) ==
    /\ AtRun(b, "recordSave")
    /\ FailedAttempts(b) < MaxFailures
    /\ subs' = [subs EXCEPT ![batch[b].sub] =
                  [batch[b].row EXCEPT !.failed = FailedAttempts(b)]]
    /\ NextTarget(b)
    /\ UNCHANGED <<plan, withdrawn, payments, methods, captured, now, req, crashes>>

Expire(b) ==
    /\ AtRun(b, "recordSave")
    /\ FailedAttempts(b) >= MaxFailures
    /\ ~withdrawn[batch[b].snap.user]
    /\ subs' = [subs EXCEPT ![batch[b].sub] =
                  [batch[b].row EXCEPT !.status = "EXPIRED", !.failed = FailedAttempts(b)]]
    /\ plan' = [plan EXCEPT ![batch[b].snap.user] = "FREE"]
    /\ NextTarget(b)
    /\ UNCHANGED <<withdrawn, payments, methods, captured, now, req, crashes>>

-----------------------------------------------------------------------------
(* A cancellation that was reserved *)

Complete(b) ==
    /\ AtRun(b, "completeSave")
    /\ ~withdrawn[batch[b].snap.user]
    /\ subs' = [subs EXCEPT ![batch[b].sub] =
                  [batch[b].row EXCEPT !.status = "CANCELED", !.isCanceled = FALSE]]
    /\ plan' = [plan EXCEPT ![batch[b].snap.user] = "FREE"]
    /\ NextTarget(b)
    /\ UNCHANGED <<withdrawn, payments, methods, captured, now, req, crashes>>

(* The downgrade of a withdrawn user throws: the transaction rolls back    *)
(* and the exception ends the whole run.                                   *)
Mut_AbortRun(b) ==
    /\ AtRun(b, "recordSave") /\ FailedAttempts(b) >= MaxFailures
    /\ withdrawn[batch[b].snap.user]
    /\ subs' = [subs EXCEPT ![batch[b].sub] = [batch[b].row EXCEPT !.status = "EXPIRED"]]
    /\ batch' = [batch EXCEPT ![b] = IdleRun]
    /\ UNCHANGED <<plan, withdrawn, payments, methods, captured, now, req, crashes>>
AbortRun(b) ==
    /\ \/ AtRun(b, "completeSave")
       \/ AtRun(b, "recordSave") /\ FailedAttempts(b) >= MaxFailures
    /\ withdrawn[batch[b].snap.user]
    /\ batch' = [batch EXCEPT ![b] = IdleRun]
    /\ UNCHANGED <<tables, captured, now, req, crashes>>

-----------------------------------------------------------------------------
RunStep(b) ==
    \/ EndRun(b) \/ PickCanceled(b) \/ PickCharge(b)
    \/ Charge(b) \/ ChargeAnswerLost(b) \/ ChargeRefused(b)
    \/ MarkApproved(b) \/ BookkeepingFails(b) \/ LoadRow(b) \/ SaveRenewal(b)
    \/ MarkFailed(b) \/ SaveFailure(b) \/ Expire(b)
    \/ Complete(b) \/ AbortRun(b)

=============================================================================
