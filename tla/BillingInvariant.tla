-------------------------- MODULE BillingInvariant --------------------------
(***************************************************************************)
(* The inductive invariants of Billing: what the rows refer to, and what   *)
(* the requests and runs in progress know about the rows they work on.     *)
(* PaidInv, PeriodInv and FailInv each hold together with IInv, and        *)
(* ChargeInv if there is one run and no request revives a subscription.    *)
(***************************************************************************)
EXTENDS Billing

(* Row i of subscriptions exists and belongs to u; likewise of methods.    *)
IsSubOf(s, u) == s \in SubId /\ subs[s].status # "NONE" /\ subs[s].user = u
IsMethodOf(m, u) == m \in MethodId /\ methods[m].status # "NONE" /\ methods[m].user = u
IsPaymentOf(p, u) == p \in PaymentId /\ payments[p].status # "NONE" /\ payments[p].user = u

(* Rows that exist belong to users, and a payment, or a copy of one,       *)
(* refers to rows of the user who pays.                                    *)
GoodPayment(row) ==
    /\ row.status # "NONE"
    /\ row.user \in Users
    /\ row.sub # NoId => IsSubOf(row.sub, row.user)
    /\ row.method # NoId => IsMethodOf(row.method, row.user)

RowsOK ==
    /\ \A p \in PaymentId : payments[p].status # "NONE" => GoodPayment(payments[p])
    /\ \A s \in SubId : subs[s].status # "NONE" => subs[s].user \in Users
    /\ \A m \in MethodId : methods[m].status # "NONE" => methods[m].user \in Users

(* What the request in slot r relies on, by the await it has reached.      *)
Approving == {"provider", "approved", "load", "commit"}
RequestOK(r) ==
    LET q == req[r] IN
    /\ q.payment \in PaymentId => payments[q.payment].status # "NONE"
    /\ q.pc \in {"ready", "resultLoad", "resultSave"} => q.payment \in PaymentId
    /\ q.pc \in Approving => IsPaymentOf(q.payment, q.user) /\ q.user \in Users
    /\ q.pc \in Approving \ {"provider"} => captured[q.payment]
    /\ q.pc \in Approving => q.op \in {"approve", "approveChange"}
    /\ q.pc \in Approving /\ q.op = "approveChange" => IsSubOf(q.sub, q.user)
    /\ q.pc = "load" => q.op = "approve" /\ IsSubOf(q.sub, q.user)
    /\ q.pc = "commit" /\ q.op = "approve" /\ q.sub # NoId =>
         IsSubOf(q.sub, q.user) /\ q.subRow.user = q.user
    /\ q.pc = "resultSave" =>
         GoodPayment(q.payRow) /\ q.payRow.user = payments[q.payment].user
    /\ q.pc \in {"subLoad", "subSave"} => q.op \in SubscriptionOps /\ IsSubOf(q.sub, q.user)
    /\ q.pc = "subSave" => q.subRow.user = q.user /\ q.subRow.status # "NONE"
    /\ \A m \in q.seen : IsMethodOf(m, q.user)

(* No request works on the payment of a run: no redirect can name it,      *)
(* because it gets its tid and its approval at once.                       *)
Private(p) == ~Approvable(p) /\ \A r \in Requests : req[r].payment # p

(* What the run in slot b relies on.                                       *)
Working == BatchPc \ {"idle", "pick"}
Charging == {"charge", "charged", "renew", "renewSave", "failed", "record", "recordSave"}
Paid == {"charged", "renew", "renewSave"}
RunOK(b) ==
    LET x == batch[b] IN
    /\ \A t \in x.todo : IsSubOf(t.id, t.row.user)
    /\ x.pc \in Working => IsSubOf(x.sub, x.snap.user)
    /\ x.pc \in Charging => IsPaymentOf(x.payment, x.snap.user) /\ payments[x.payment].sub # NoId
    /\ x.pc \in Paid => captured[x.payment] /\ payments[x.payment].method # NoId
    /\ x.pc \in {"renewSave", "recordSave", "completeSave"} =>
         x.row.user = x.snap.user /\ x.row.status # "NONE"
    /\ x.pc \in Charging => Private(x.payment)

ApprovedPaid ==
    \A p \in PaymentId : payments[p].status = "APPROVED" =>
        captured[p] /\ payments[p].method # NoId /\ payments[p].sub # NoId

Consistent ==
    /\ RowsOK
    /\ \A r \in Requests : RequestOK(r)
    /\ \A b \in Batches : RunOK(b)
    /\ ApprovedPaid
    /\ SubscriberHasDefaultMethod

IInv == TypeOK /\ Consistent

-----------------------------------------------------------------------------
(* What has been paid *)

(* The provider has captured a PRO fee of u.                               *)
HasPaid(u) ==
    \E p \in PaymentId :
        IsPaymentOf(p, u) /\ captured[p] /\ payments[p].amount = ProPlanAmount

(* A checkout is of the PRO fee, and no copy of a payment has another      *)
(* amount than the row that it will be saved over.                         *)
RequestPays(r) ==
    LET q == req[r] IN
    /\ q.pc \in Approving /\ q.op = "approve" =>
         payments[q.payment].amount = ProPlanAmount
    /\ q.pc = "resultSave" => q.payRow.amount = payments[q.payment].amount

PaidInv ==
    /\ \A u \in Users : plan[u] = "PRO" => HasPaid(u)
    /\ \A r \in Requests : RequestPays(r)

-----------------------------------------------------------------------------
(* Periods *)

(* At time n, what request q or run x may still write ends a month from    *)
(* now at most: a run renews from a period that was over when it started.  *)
RequestPeriods(q, n) ==
    q.startedAt <= n /\ q.paidAt <= n /\ q.subRow.periodEnd <= n + Month
RunPeriods(x, n) ==
    /\ x.paidAt <= n /\ x.snap.periodEnd <= n /\ x.row.periodEnd <= n + Month
    /\ \A t \in x.todo : t.row.periodEnd <= n

PeriodInv ==
    /\ PeriodBounded
    /\ \A r \in Requests : RequestPeriods(req[r], now)
    /\ \A b \in Batches : RunPeriods(batch[b], now)

-----------------------------------------------------------------------------
(* Failed charges *)

(* The failed charges of s that no request can change any more, and for    *)
(* every subscription their number, with and without that of payment p.    *)
Settled(s) == {p \in FailedCharges(s) : \A r \in Requests : req[r].payment # p}
Losses == [s \in SubId |-> Cardinality(Settled(s))]
LossesBut == [s \in SubId |-> [p \in PaymentId |-> Cardinality(Settled(s) \ {p})]]

(* Every failure that a row counts is one of n charges, and a copy is as   *)
(* good as the row: stale saves lose counts but never add one.             *)
Counted(row, n) == row.failed <= n /\ (row.status = "EXPIRED" => MaxFailures <= n)

RequestBacked(q, losses) ==
    (q.pc = "subSave" \/ (q.pc = "commit" /\ q.op = "approve" /\ q.sub # NoId))
      => Counted(q.subRow, losses[q.sub])

RunBacked(x, losses, but, pays) ==
    /\ \A t \in x.todo : t.row.failed <= losses[t.id]
    /\ x.pc \in {"renewSave", "recordSave", "completeSave"} => Counted(x.row, losses[x.sub])
    /\ x.pc \in Charging =>
         /\ x.snap.failed <= but[x.sub][x.payment]
         /\ pays[x.payment].sub = x.sub
         /\ pays[x.payment].amount = ProPlanAmount
    /\ x.pc \in {"charge", "charged"} => pays[x.payment].status = "READY"
    /\ x.pc \in {"record", "recordSave"} => pays[x.payment].status = "FAILED"

(* Every run works on a payment of its own.                                *)
OwnPayments ==
    \A b, c \in Batches :
        b # c /\ batch[b].pc \in Charging /\ batch[c].pc \in Charging =>
            batch[b].payment # batch[c].payment

FailInv ==
    /\ \A s \in SubId : Counted(subs[s], Losses[s])
    /\ \A r \in Requests : RequestBacked(req[r], Losses)
    /\ \A b \in Batches : RunBacked(batch[b], Losses, LossesBut, payments)
    /\ OwnPayments

-----------------------------------------------------------------------------
(* Charges of one run at a time *)

(* The approved fees of s, and that all their periods but that of payment  *)
(* p are over at time n.                                                   *)
Approvals(s) ==
    {p \in PaymentId : /\ payments[p].sub = s /\ payments[p].status = "APPROVED"
                       /\ payments[p].amount = ProPlanAmount}
OverBy(s, p, n) == \A a \in Approvals(s) \ {p} : payments[a].approvedAt + Month <= n

(* A row of s that a run would charge is not due before they are.          *)
Covers(row, s, p) ==
    row.status = "ACTIVE" /\ ~row.isCanceled => OverBy(s, p, row.periodEnd)

(* The payment that a run may have got approved and not renewed for yet.   *)
Unrenewed(x) == IF x.pc \in Charging THEN x.payment ELSE NoId

RequestCharges(q) ==
    /\ q.pc # "idle" => q.op \in Ops
    /\ q.op = "approveChange" /\ q.pc \in Approving =>
         payments[q.payment].amount = MethodChangeAmount

RunCharges(x) ==
    /\ \A t \in x.todo :
         /\ t.id # x.sub /\ \A o \in x.todo : o.id = t.id => o = t
         /\ ~t.row.isCanceled => OverBy(t.id, NoId, now)
    /\ x.pc = "charge" => OverBy(x.sub, NoId, now)
    /\ x.pc \in Paid => \A a \in Approvals(x.sub) : payments[a].approvedAt <= x.paidAt
    /\ x.pc = "recordSave" => Covers(x.row, x.sub, x.payment)

ChargeInv ==
    /\ \A r \in Requests : RequestCharges(req[r])
    /\ \A p \in PaymentId : payments[p].status = "APPROVED" => payments[p].approvedAt <= now
    /\ crashes = 0 => \A b \in Batches :
         RunCharges(batch[b]) /\ \A s \in SubId : Covers(subs[s], s, Unrenewed(batch[b]))

-----------------------------------------------------------------------------
(* What every step leaves of the rows that exist.                          *)

SubsKept == \A s \in SubId : subs[s].status # "NONE" =>
              subs'[s].status # "NONE" /\ subs'[s].user = subs[s].user
MethodsKept == \A m \in MethodId : methods[m].status # "NONE" =>
                 methods'[m].status # "NONE" /\ methods'[m].user = methods[m].user
PaymentsKept == \A p \in PaymentId :
    /\ payments[p].status # "NONE" =>
         payments'[p].status # "NONE" /\ payments'[p].user = payments[p].user
    /\ captured[p] => captured'[p]
RowsKept == SubsKept /\ MethodsKept /\ PaymentsKept
=============================================================================
