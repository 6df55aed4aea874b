------------------------------ MODULE Checkout ------------------------------
(***************************************************************************)
(* The requests of payments.service.ts (KakaoPay checkout, change of       *)
(* payment method, the cancel and fail redirects), of                      *)
(* subscriptions.service.ts (cancel, undo) and the withdrawal of a user.   *)
(* A request is a record whose pc says which await it has reached.         *)
(*                                                                         *)
(* approveKakaoPayment and approveKakaoMethodChange run in a transaction:  *)
(* what they write appears at once, in the commit step, and a throw, a     *)
(* database error or a restart before it leaves the tables alone.  What    *)
(* the provider has captured by then stays captured.                       *)
(*                                                                         *)
(* The approval redirect of a payment goes to the endpoint that its ready  *)
(* call registered: amount 0 to the change of method, the other to the     *)
(* subscription.                                                           *)
(***************************************************************************)
EXTENDS BillingStore

RequestPc == {"idle", "ready", "provider", "approved", "load", "commit", "resultLoad",
              "resultSave", "subLoad", "subSave"}

Request ==
    [op : AllOps \cup {"none"}, pc : RequestPc, user : Users \cup {NoUser},
     payment : PaymentId \cup {NoId}, sub : SubId \cup {NoId},
     payRow : PaymentRow, subRow : SubRow, seen : SUBSET MethodId,
     paidAt : Nat, startedAt : Nat]

IdleRequest ==
    [op |-> "none", pc |-> "idle", user |-> NoUser, payment |-> NoId, sub |-> NoId,
     payRow |-> NoPayment, subRow |-> NoSub, seen |-> {},
     paidAt |-> 0, startedAt |-> 0]

Idle(r) == req[r].pc = "idle"
At(r, pc) == req[r].pc = pc
Finish(r) == req' = [req EXCEPT ![r] = IdleRequest]

-----------------------------------------------------------------------------
(* POST /payments/kakao/ready and .../method-change/ready                  *)

(* The READY row is inserted before the provider is asked.  A change of    *)
(* method needs an active subscription and refers to it.                   *)
InsertReady(r, op, u, s, amount) ==
    /\ op \in Ops /\ Idle(r) /\ ~withdrawn[u]
    /\ \E p \in Fresh(payments) :
         /\ payments' = [payments EXCEPT ![p] = ReadyPayment(u, s, NoId, amount)]
         /\ req' = [req EXCEPT ![r] = [IdleRequest EXCEPT !.op = op, !.pc = "ready",
                                                          !.user = u, !.payment = p]]
    /\ UNCHANGED <<plan, withdrawn, methods, subs, captured, now, batch, crashes>>

Ready(r, u) == InsertReady(r, "ready", u, NoId, ProPlanAmount)

ReadyMethodChange(r, u) ==
    \E s \in ActiveSubs(u) : InsertReady(r, "readyChange", u, s, MethodChangeAmount)

(* The provider answers with a tid and a redirect URL, or it does not.     *)
ReadyAnswered(r) ==
    /\ At(r, "ready")
    /\ payments' = [payments EXCEPT ![req[r].payment].tid = TRUE]
    /\ Finish(r)
    /\ UNCHANGED <<plan, withdrawn, methods, subs, captured, now, batch, crashes>>

ReadyRefused(r) ==
    /\ At(r, "ready")
    /\ payments' = [payments EXCEPT ![req[r].payment].status = "FAILED"]
    /\ Finish(r)
    /\ UNCHANGED <<plan, withdrawn, methods, subs, captured, now, batch, crashes>>

-----------------------------------------------------------------------------
(* GET /payments/kakao/approve and .../method-change/approve               *)

(* The guards of both handlers; the request has no session of a user.      *)
Approvable(p) == payments[p].status = "READY" /\ payments[p].tid

StartApproval(r, op, p) ==
    /\ op \in Ops /\ Idle(r) /\ Approvable(p)
    /\ req' = [req EXCEPT ![r] = [IdleRequest EXCEPT !.op = op, !.pc = "provider",
                                  !.user = payments[p].user, !.payment = p,
                                  !.sub = payments[p].sub]]
    /\ UNCHANGED <<tables, captured, now, batch, crashes>>

Approve(r, p) ==
    /\ payments[p].amount # MethodChangeAmount
    /\ StartApproval(r, "approve", p)

ApproveMethodChange(r, p) ==
    /\ payments[p].amount = MethodChangeAmount
    /\ payments[p].sub # NoId
    /\ StartApproval(r, "approveChange", p)

(* The provider accepts a tid once.                                        *)
ProviderApproves(r) ==
    /\ At(r, "provider")
    /\ ~captured[req[r].payment]
    /\ captured' = [captured EXCEPT ![req[r].payment] = TRUE]
    /\ req' = [req EXCEPT ![r].pc = "approved", ![r].paidAt = now]
    /\ UNCHANGED <<tables, now, batch, crashes>>

(* It refuses, or its answer is lost after it captured.  The handler       *)
(* writes FAILED and throws, so its transaction rolls the FAILED back.     *)
Mut_ProviderRefuses(r) ==
    /\ At(r, "provider")
    /\ req' = [req EXCEPT ![r].pc = "approved", ![r].paidAt = now]
    /\ UNCHANGED <<tables, captured, now, batch, crashes>>
ProviderRefuses(r) ==
    /\ At(r, "provider")
    /\ Finish(r)
    /\ UNCHANGED <<tables, captured, now, batch, crashes>>

ProviderAnswerLost(r) ==
    /\ At(r, "provider")
    /\ ~captured[req[r].payment]
    /\ captured' = [captured EXCEPT ![req[r].payment] = TRUE]
    /\ Finish(r)
    /\ UNCHANGED <<tables, now, batch, crashes>>

(* createMethod and setDefault see the stored methods;                     *)
(* activateMonthlyProSubscription looks for an active subscription.        *)
FindActive(r) ==
    /\ At(r, "approved") /\ req[r].op = "approve"
    /\ LET found == ActiveSubs(req[r].user) IN
         \E s \in IF found = {} THEN {NoId} ELSE found :
            req' = [req EXCEPT ![r].pc = IF s = NoId THEN "commit" ELSE "load",
                               ![r].sub = s, ![r].startedAt = now,
                               ![r].seen = StoredMethods(req[r].user)]
    /\ UNCHANGED <<tables, captured, now, batch, crashes>>

SeeMethods(r) ==
    /\ At(r, "approved") /\ req[r].op = "approveChange"
    /\ req' = [req EXCEPT ![r].pc = "commit", ![r].seen = StoredMethods(req[r].user)]
    /\ UNCHANGED <<tables, captured, now, batch, crashes>>

(* The find inside updateSubscription.                                     *)
LoadActive(r) ==
    /\ At(r, "load")
    /\ req' = [req EXCEPT ![r].pc = "commit", ![r].subRow = subs[req[r].sub]]
    /\ UNCHANGED <<tables, captured, now, batch, crashes>>

(* The columns that activation writes on an existing subscription.         *)
Mut_Activated(row, start) == [row EXCEPT !.status = "ACTIVE", !.periodEnd = @ + Month]
Activated(row, start) ==
    [row EXCEPT !.status = "ACTIVE", !.periodEnd = start + Month, !.isCanceled = FALSE]

ApprovedPayment(p, s, m, paidAt) ==
    [payments EXCEPT ![p].sub = s, ![p].method = m, ![p].status = "APPROVED",
                     ![p].approvedAt = paidAt]

(* updatePlanAndStorageQuota throws for a withdrawn user.                  *)
CommitApproval(r) ==
    LET u == req[r].user
        start == req[r].startedAt IN
    /\ At(r, "commit") /\ req[r].op = "approve"
    /\ ~withdrawn[u]
    /\ \E m \in Fresh(methods) :
       \E s \in IF req[r].sub = NoId THEN Fresh(subs) ELSE {req[r].sub} :
         /\ methods' = WithDefault(u, m, req[r].seen)
         /\ subs' = [subs EXCEPT ![s] = IF req[r].sub = NoId THEN NewSub(u, start + Month)
                                        ELSE Activated(req[r].subRow, start)]
         /\ plan' = [plan EXCEPT ![u] = "PRO"]
         /\ payments' = ApprovedPayment(req[r].payment, s, m, req[r].paidAt)
    /\ Finish(r)
    /\ UNCHANGED <<withdrawn, captured, now, batch, crashes>>

CommitMethodChange(r) ==
    LET u == req[r].user IN
    /\ At(r, "commit") /\ req[r].op = "approveChange"
    /\ \E m \in Fresh(methods) :
         /\ methods' = WithOnly(u, m, req[r].seen)
         /\ payments' = ApprovedPayment(req[r].payment, req[r].sub, m, req[r].paidAt)
    /\ Finish(r)
    /\ UNCHANGED <<plan, withdrawn, subs, captured, now, batch, crashes>>

(* A statement of the transaction fails, or the user has withdrawn.        *)
RollBackApproval(r) ==
    /\ req[r].pc \in {"approved", "load", "commit"}
    /\ Finish(r)
    /\ UNCHANGED <<tables, captured, now, batch, crashes>>

-----------------------------------------------------------------------------
(* GET /payments/kakao/cancel and .../fail: a check and an update outside  *)
(* any transaction.                                                        *)

(* The browser knows these URLs only from the answer of the ready call;    *)
(* the handlers themselves check the status alone.                         *)
Redirectable(p) == payments[p].tid

ResultStatus(op) == IF op = "cancel" THEN "CANCELED" ELSE "FAILED"

CheckResult(r, op, p) ==
    /\ op \in Ops \cap {"cancel", "fail"} /\ Idle(r) /\ Redirectable(p)
    /\ payments[p].status = "READY"
    /\ req' = [req EXCEPT ![r] = [IdleRequest EXCEPT !.op = op, !.pc = "resultLoad",
                                                     !.payment = p]]
    /\ UNCHANGED <<tables, captured, now, batch, crashes>>

LoadResult(r) ==
    /\ At(r, "resultLoad")
    /\ req' = [req EXCEPT ![r].pc = "resultSave", ![r].payRow = payments[req[r].payment]]
    /\ UNCHANGED <<tables, captured, now, batch, crashes>>

SaveResult(r) ==
    /\ At(r, "resultSave")
    /\ payments' = [payments EXCEPT ![req[r].payment] =
                      [req[r].payRow EXCEPT !.status = ResultStatus(req[r].op)]]
    /\ Finish(r)
    /\ UNCHANGED <<plan, withdrawn, methods, subs, captured, now, batch, crashes>>

-----------------------------------------------------------------------------
(* PATCH /subscriptions/me/cancel and .../undo                             *)

SubscriptionOps == {"cancelAtEnd", "cancelNow", "undoCancel"}

FindSubscription(r, op, u) ==
    /\ op \in Ops \cap SubscriptionOps /\ Idle(r) /\ ~withdrawn[u]
    /\ \E s \in ActiveSubs(u) :
         req' = [req EXCEPT ![r] = [IdleRequest EXCEPT !.op = op, !.pc = "subLoad",
                                                       !.user = u, !.sub = s]]
    /\ UNCHANGED <<tables, captured, now, batch, crashes>>

LoadSubscription(r) ==
    /\ At(r, "subLoad")
    /\ req' = [req EXCEPT ![r].pc = "subSave", ![r].subRow = subs[req[r].sub]]
    /\ UNCHANGED <<tables, captured, now, batch, crashes>>

(* An immediate cancellation ends the subscription; the plan of the user   *)
(* is not touched.                                                         *)
Mut_Edited(op, row) == [row EXCEPT !.status = "CANCELLED"]
Edited(op, row) ==
    CASE op = "cancelAtEnd" -> [row EXCEPT !.isCanceled = TRUE]
      [] op = "cancelNow"   -> [row EXCEPT !.status = "CANCELED", !.isCanceled = FALSE]
      [] op = "undoCancel"  -> [row EXCEPT !.isCanceled = FALSE]

SaveSubscription(r) ==
    /\ At(r, "subSave")
    /\ subs' = [subs EXCEPT ![req[r].sub] = Edited(req[r].op, req[r].subRow)]
    /\ Finish(r)
    /\ UNCHANGED <<plan, withdrawn, payments, methods, captured, now, batch, crashes>>

(* DELETE /users: a soft delete that leaves the billing tables alone.      *)
Withdraw(u) ==
    /\ "withdraw" \in Ops /\ ~withdrawn[u]
    /\ withdrawn' = [withdrawn EXCEPT ![u] = TRUE]
    /\ UNCHANGED <<plan, payments, methods, subs, captured, now, req, batch, crashes>>

-----------------------------------------------------------------------------
RequestStep(r) ==
    \/ \E u \in Users : Ready(r, u) \/ ReadyMethodChange(r, u)
    \/ ReadyAnswered(r) \/ ReadyRefused(r)
    \/ \E p \in PaymentId : Approve(r, p) \/ ApproveMethodChange(r, p)
    \/ ProviderApproves(r) \/ ProviderRefuses(r) \/ ProviderAnswerLost(r)
    \/ FindActive(r) \/ SeeMethods(r) \/ LoadActive(r)
    \/ CommitApproval(r) \/ CommitMethodChange(r) \/ RollBackApproval(r)
    \/ \E op \in {"cancel", "fail"}, p \in PaymentId : CheckResult(r, op, p)
    \/ LoadResult(r) \/ SaveResult(r)
    \/ \E op \in SubscriptionOps, u \in Users : FindSubscription(r, op, u)
    \/ LoadSubscription(r) \/ SaveSubscription(r)

=============================================================================
