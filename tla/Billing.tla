------------------------------ MODULE Billing -------------------------------
(***************************************************************************)
(* The billing of DocuMate PRO: checkout requests, subscription requests   *)
(* and monthly billing runs over the same tables, with a clock and with    *)
(* restarts of the server.                                                 *)
(***************************************************************************)
EXTENDS Checkout, RecurringBilling

(* A user in Subscribed has completed one checkout at time 0: slot says    *)
(* which ids his rows got.                                                 *)
Taken(slot, i) == \E u \in Subscribed : slot[u] = i
Holder(slot, i) == CHOOSE u \in Subscribed : slot[u] = i

PaidPayment(u, i) ==
    [user |-> u, sub |-> i, method |-> i, status |-> "APPROVED", amount |-> ProPlanAmount,
     tid |-> TRUE, approvedAt |-> 0]
PaidMethod(u) == [user |-> u, status |-> "STORED", isDefault |-> TRUE]

InitTables(slot) ==
    /\ \A u, v \in Subscribed : slot[u] = slot[v] => u = v
    /\ payments = [i \in PaymentId |->
         IF Taken(slot, i) THEN PaidPayment(Holder(slot, i), i) ELSE NoPayment]
    /\ methods = [i \in MethodId |->
         IF Taken(slot, i) THEN PaidMethod(Holder(slot, i)) ELSE NoMethod]
    /\ subs = [i \in SubId |->
         IF Taken(slot, i) THEN NewSub(Holder(slot, i), Month) ELSE NoSub]
    /\ captured = [i \in PaymentId |-> Taken(slot, i)]

Init ==
    /\ \E slot \in [Subscribed -> 1..Cardinality(Subscribed)] : InitTables(slot)
    /\ plan = [u \in Users |-> IF u \in Subscribed THEN "PRO" ELSE "FREE"]
    /\ withdrawn = [u \in Users |-> FALSE]
    /\ now = 0
    /\ req = [r \in Requests |-> IdleRequest]
    /\ batch = [b \in Batches |-> IdleRun]
    /\ crashes = 0

Tick ==
    /\ now < Horizon
    /\ now' = now + 1
    /\ UNCHANGED <<tables, captured, req, batch, crashes>>

(* Everything in progress is lost, open transactions included.             *)
Restart ==
    /\ crashes < MaxCrashes
    /\ crashes' = crashes + 1
    /\ req' = [r \in Requests |-> IdleRequest]
    /\ batch' = [b \in Batches |-> IdleRun]
    /\ UNCHANGED <<tables, captured, now>>

Next ==
    \/ \E r \in Requests : RequestStep(r)
    \/ \E u \in Users : Withdraw(u)
    \/ \E b \in Batches : StartRun(b) \/ RunStep(b)
    \/ Tick
    \/ Restart

Spec == Init /\ [][Next]_vars

(* The cron starts a run every night and node runs it to its end; users,   *)
(* restarts and the clock owe nothing.                                     *)
FairSpec ==
    Spec /\ \A b \in Batches : WF_vars(StartRun(b)) /\ WF_vars(RunStep(b))

-----------------------------------------------------------------------------
(* Invariants *)

TypeOK ==
    /\ plan \in [Users -> {"FREE", "PRO"}]
    /\ withdrawn \in [Users -> BOOLEAN]
    /\ payments \in [PaymentId -> PaymentRow]
    /\ methods \in [MethodId -> MethodRow]
    /\ subs \in [SubId -> SubRow]
    /\ captured \in [PaymentId -> BOOLEAN]
    /\ now \in Nat
    /\ req \in [Requests -> Request]
    /\ batch \in [Batches -> Run]
    /\ crashes \in Nat

(* A payment that reads APPROVED was captured by the provider, and it      *)
(* names a payment method and a subscription of the user who paid: neither *)
(* a rollback, a restart nor a stale save of the row leaves an approval    *)
(* without the money or without what it bought.                            *)
ApprovedIsBacked ==
    \A p \in PaymentId : payments[p].status = "APPROVED" =>
        /\ captured[p]
        /\ payments[p].method # NoId
        /\ methods[payments[p].method].user = payments[p].user
        /\ payments[p].sub # NoId
        /\ subs[payments[p].sub].user = payments[p].user

(* Whoever has a subscription has a default payment method, however        *)
(* approvals and changes of method overlap: setDefault and                 *)
(* deleteOtherPaymentMethods never leave the billing run without one.      *)
SubscriberHasDefaultMethod ==
    \A s \in SubId : subs[s].status # "NONE" => DefaultMethods(subs[s].user) # {}

(* Charges of subscription s that failed.                                  *)
FailedCharges(s) ==
    {p \in PaymentId : /\ payments[p].sub = s /\ payments[p].amount = ProPlanAmount
                       /\ payments[p].status = "FAILED"}

(* A subscription expires only after MAX_BILLING_FAILURE_COUNT recorded    *)
(* failed charges of it: overlapping runs and stale copies may lose counts *)
(* but never add one.                                                      *)
ExpiredOnlyAfterMaxFailures ==
    \A s \in SubId : subs[s].status = "EXPIRED" => Cardinality(FailedCharges(s)) >= MaxFailures

(* A user is PRO only after the provider captured a PRO fee from him.      *)
ProWasPaid ==
    \A u \in Users : plan[u] = "PRO" =>
        \E p \in PaymentId : /\ payments[p].user = u /\ captured[p]
                             /\ payments[p].amount = ProPlanAmount

(* Nobody is entitled beyond one period from now, whatever number of       *)
(* approvals and runs were captured: renewals and activations do not add   *)
(* up.                                                                     *)
PeriodBounded == \A s \in SubId : subs[s].periodEnd <= now + Month

-----------------------------------------------------------------------------
(* Action properties *)

(* After this step user u has a subscription that is over.                 *)
Ends(u) ==
    \E s \in SubId : subs'[s].user = u /\ subs'[s].status \in {"EXPIRED", "CANCELED"}

(* A caller is about to save a copy of subscription s that it read when    *)
(* this had expired, although another save has revived it since.           *)
CopiesExpiry(s) ==
    \/ \E r \in Requests :
         At(r, "subSave") /\ req[r].sub = s /\ req[r].subRow.status = "EXPIRED"
    \/ \E b \in Batches :
         /\ AtRun(b, "recordSave") /\ FailedAttempts(b) < MaxFailures
         /\ batch[b].sub = s /\ batch[b].row.status = "EXPIRED"

(* completeCanceledSubscription and recordBillingFailure are transactions: *)
(* a user goes from PRO to FREE only when a subscription of his is over    *)
(* with that step, and a subscription expires only together with the       *)
(* downgrade, even when that of a withdrawn user throws.  The exception is *)
(* a stale save of the whole row, which may write an old expiry again.     *)
DowngradeIsAtomic ==
    [][/\ \A u \in Users : plan[u] = "PRO" /\ plan'[u] = "FREE" => Ends(u)
       /\ \A s \in SubId :
            subs[s].status # "EXPIRED" /\ subs'[s].status = "EXPIRED"
              => plan'[subs[s].user] = "FREE" \/ CopiesExpiry(s)]_vars

(* Payments of subscription s that are approved and whose period is not    *)
(* over.                                                                   *)
PaidAhead(s) ==
    {p \in PaymentId : /\ payments[p].sub = s /\ payments[p].status = "APPROVED"
                       /\ payments[p].amount = ProPlanAmount
                       /\ payments[p].approvedAt + Month > now}

(* A billing run never charges a subscription that an approved payment     *)
(* still covers, late and repeated runs, refused and lost charges and      *)
(* cancellations included.  It holds of one run at a time that no restart  *)
(* has cut off, without checkouts by hand and cancellations taken back;    *)
(* the README says how each of these breaks it.                            *)
NoSecondChargeInPaidPeriod ==
    [][\A p \in PaymentId :
         crashes = 0 /\ payments[p].amount = ProPlanAmount /\ ~captured[p] /\ captured'[p]
           => PaidAhead(payments[p].sub) = {}]_vars

(* "MAX_BILLING_FAILURE_COUNT consecutive failures ended the subscription" *)
(* says the result of a run (recordAndDescribeBillingFailure): the last    *)
(* MaxFailures charges of an expired subscription all failed.              *)
ExpiredAfterConsecutiveFailures ==
    \A s \in SubId : subs[s].status = "EXPIRED" =>
        LET fees == {p \in PaymentId : payments[p].sub = s /\ payments[p].amount = ProPlanAmount}
        IN \A p \in fees : Cardinality({q \in fees : q > p}) < MaxFailures
                             => payments[p].status = "FAILED"

-----------------------------------------------------------------------------
(* Liveness *)

(* A due subscription does not stay due: it is renewed, completed or       *)
(* expired by the nightly runs, failing charges, lost answers and restarts *)
(* included, unless a user has withdrawn (whose downgrade ends every run)  *)
(* or the bound on payments is reached.                                    *)
DueIsSettled ==
    \A s \in SubId :
        s \in DueSubs ~> \/ s \notin DueSubs
                         \/ \E u \in Users : withdrawn[u]
                         \/ Fresh(payments) = {}
=============================================================================
