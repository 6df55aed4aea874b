--------------------------- MODULE BillingProofs ----------------------------
(***************************************************************************)
(* Proofs about Billing, for every number of users, requests, runs, rows,  *)
(* restarts and clock values.                                              *)
(*                                                                         *)
(*   Every step keeps the types, given the inductive invariant: the types  *)
(*   alone are not inductive, because what a request saves is a row only   *)
(*   by what RequestOK says of the request.                                *)
(*   IInv is inductive and implies the type invariant, ApprovedIsBacked    *)
(*   and SubscriberHasDefaultMethod.  No step removes a row or changes its *)
(*   owner (RowsKept), so what a request or a run knows about a row stays  *)
(*   true until it saves the row; and what it saves is a copy with the     *)
(*   same owner.                                                           *)
(*   PeriodInv extends it and gives PeriodBounded: every copy of a row is  *)
(*   bounded like the row, so a stale save puts back a bounded period.     *)
(*   PaidInv gives ProWasPaid: an approval is for one's own payment, and   *)
(*   only approvals make a user PRO.                                       *)
(*   FailInv gives ExpiredOnlyAfterMaxFailures and DowngradeIsAtomic: a    *)
(*   row and each copy of it count no more attempts than charges of the    *)
(*   subscription have been lost or refused for good (Losses).             *)
(***************************************************************************)
EXTENDS BillingInvariant, FiniteSetTheorems, TLAPS

-----------------------------------------------------------------------------
(* The ids and rows that actions build are well typed.                     *)

LEMMA IdsAreNatural == PaymentId \subseteq Nat /\ SubId \subseteq Nat /\ MethodId \subseteq Nat
BY DEF PaymentId, SubId, MethodId

LEMMA EmptyRows ==
    NoPayment \in PaymentRow /\ NoMethod \in MethodRow /\ NoSub \in SubRow
BY DEF NoPayment, NoMethod, NoSub, PaymentRow, MethodRow, SubRow, NoId,
       MethodChangeAmount, ProPlanAmount

LEMMA ReadyPaymentType ==
    ASSUME NEW u \in Users \cup {NoUser}, NEW s \in SubId \cup {NoId}, NEW m \in MethodId \cup {NoId},
           NEW a \in {MethodChangeAmount, ProPlanAmount}
    PROVE  ReadyPayment(u, s, m, a) \in PaymentRow
BY DEF ReadyPayment, PaymentRow

LEMMA NewSubType ==
    ASSUME NEW u \in Users \cup {NoUser}, NEW end \in Nat
    PROVE  NewSub(u, end) \in SubRow
BY DEF NewSub, SubRow

LEMMA IdleTypes == IdleRequest \in Request /\ IdleRun \in Run
BY EmptyRows DEF IdleRequest, IdleRun, Request, Run, RequestPc, BatchPc, NoId

LEMMA FreshIds ==
    ASSUME NEW table, NEW S, DOMAIN table = S
    PROVE  Fresh(table) \subseteq S
BY DEF Fresh

-----------------------------------------------------------------------------

LEMMA SlotsAreIds ==
    ASSUME NEW slot \in [Subscribed -> 1..Cardinality(Subscribed)], NEW u \in Subscribed
    PROVE  slot[u] \in PaymentId /\ slot[u] \in SubId /\ slot[u] \in MethodId
<1>1. Cardinality(Subscribed) \in Nat
  BY BillingAssumption, FS_Subset, FS_CardinalityType
<1> QED
  BY <1>1, BillingAssumption DEF PaymentId, SubId, MethodId

LEMMA HolderIsSubscribed ==
    ASSUME NEW slot, NEW i, Taken(slot, i)
    PROVE  Holder(slot, i) \in Subscribed /\ slot[Holder(slot, i)] = i
BY DEF Taken, Holder

LEMMA InitTypeOK == Init => TypeOK
<1> SUFFICES ASSUME Init PROVE TypeOK
  OBVIOUS
<1> USE BillingAssumption, EmptyRows, IdleTypes
<1>1. PICK slot \in [Subscribed -> 1..Cardinality(Subscribed)] : InitTables(slot)
  BY DEF Init
<1>2. payments \in [PaymentId -> PaymentRow]
  <2> SUFFICES ASSUME NEW i \in PaymentId, Taken(slot, i)
               PROVE  PaidPayment(Holder(slot, i), i) \in PaymentRow
    BY <1>1 DEF InitTables
  <2> QED
    BY HolderIsSubscribed, SlotsAreIds DEF PaidPayment, PaymentRow
<1>3. methods \in [MethodId -> MethodRow]
  BY <1>1, HolderIsSubscribed DEF InitTables, PaidMethod, MethodRow
<1>4. subs \in [SubId -> SubRow]
  BY <1>1, HolderIsSubscribed, NewSubType DEF InitTables
<1>5. captured \in [PaymentId -> BOOLEAN]
  BY <1>1 DEF InitTables, Taken
<1> QED
  BY <1>2, <1>3, <1>4, <1>5 DEF Init, TypeOK

-----------------------------------------------------------------------------
(* What a request step writes.                                             *)

LEMMA FinishType ==
    ASSUME req \in [Requests -> Request], NEW r \in Requests, Finish(r)
    PROVE  req' \in [Requests -> Request]
BY IdleTypes DEF Finish

LEMMA InsertReadyTypeOK ==
    ASSUME TypeOK, NEW r \in Requests, NEW op \in AllOps, NEW u \in Users,
           NEW s \in SubId \cup {NoId}, NEW a \in {MethodChangeAmount, ProPlanAmount},
           InsertReady(r, op, u, s, a)
    PROVE  TypeOK'
<1>1. PICK p \in Fresh(payments) :
        /\ payments' = [payments EXCEPT ![p] = ReadyPayment(u, s, NoId, a)]
        /\ req' = [req EXCEPT ![r] = [IdleRequest EXCEPT !.op = op, !.pc = "ready",
                                                         !.user = u, !.payment = p]]
  BY DEF InsertReady
<1>2. p \in PaymentId
  BY FreshIds DEF TypeOK
<1>3. payments' \in [PaymentId -> PaymentRow]
  BY <1>1, ReadyPaymentType DEF TypeOK
<1>4. [IdleRequest EXCEPT !.op = op, !.pc = "ready", !.user = u, !.payment = p] \in Request
  BY <1>2, IdleTypes DEF Request, RequestPc
<1> QED
  BY <1>1, <1>3, <1>4 DEF TypeOK, InsertReady

LEMMA StartApprovalTypeOK ==
    ASSUME TypeOK, NEW r \in Requests, NEW op \in AllOps, NEW p \in PaymentId,
           StartApproval(r, op, p)
    PROVE  TypeOK'
<1>1. [IdleRequest EXCEPT !.op = op, !.pc = "provider", !.user = payments[p].user,
                          !.payment = p, !.sub = payments[p].sub] \in Request
  BY IdleTypes DEF TypeOK, Request, RequestPc, PaymentRow
<1> QED
  BY <1>1 DEF TypeOK, StartApproval, tables

LEMMA ProviderTypeOK ==
    ASSUME TypeOK, NEW r \in Requests,
           ProviderApproves(r) \/ ProviderRefuses(r) \/ ProviderAnswerLost(r)
    PROVE  TypeOK'
<1>1. CASE ProviderApproves(r)
  <2>1. [req[r] EXCEPT !.pc = "approved", !.paidAt = now] \in Request
    BY DEF TypeOK, Request, RequestPc
  <2> QED
    BY <1>1, <2>1 DEF TypeOK, ProviderApproves, tables
<1>2. CASE ProviderRefuses(r)
  BY <1>2, FinishType DEF TypeOK, ProviderRefuses, tables
<1>3. CASE ProviderAnswerLost(r)
  BY <1>3, FinishType DEF TypeOK, ProviderAnswerLost, tables
<1> QED
  BY <1>1, <1>2, <1>3

LEMMA MethodsTyped ==
    ASSUME TypeOK, NEW u \in Users \cup {NoUser}, NEW m \in MethodId,
           NEW seen \in SUBSET MethodId
    PROVE  /\ WithDefault(u, m, seen) \in [MethodId -> MethodRow]
           /\ WithOnly(u, m, seen) \in [MethodId -> MethodRow]
<1>1. \A i \in MethodId : /\ [methods[i] EXCEPT !.isDefault = FALSE] \in MethodRow
                          /\ [methods[i] EXCEPT !.isDefault = FALSE, !.status = "DELETED"]
                               \in MethodRow
  BY DEF TypeOK, MethodRow
<1>2. [user |-> u, status |-> "STORED", isDefault |-> TRUE] \in MethodRow
  BY DEF MethodRow
<1>3. WithDefault(u, m, seen) \in [MethodId -> MethodRow]
  BY <1>1, <1>2 DEF WithDefault, TypeOK
<1>4. WithOnly(u, m, seen) \in [MethodId -> MethodRow]
  BY <1>1, <1>3 DEF WithOnly
<1> QED
  BY <1>3, <1>4

LEMMA ApprovedPaymentType ==
    ASSUME TypeOK, NEW p \in PaymentId, NEW s \in SubId \cup {NoId}, NEW m \in MethodId,
           NEW t \in Nat
    PROVE  ApprovedPayment(p, s, m, t) \in [PaymentId -> PaymentRow]
<1>1. [payments[p] EXCEPT !.sub = s, !.method = m, !.status = "APPROVED", !.approvedAt = t]
        \in PaymentRow
  BY DEF TypeOK, PaymentRow
<1>2. ApprovedPayment(p, s, m, t) =
        [payments EXCEPT ![p] = [payments[p] EXCEPT !.sub = s, !.method = m,
                                   !.status = "APPROVED", !.approvedAt = t]]
  BY DEF ApprovedPayment, TypeOK
<1> QED
  BY <1>1, <1>2 DEF TypeOK

-----------------------------------------------------------------------------
(* The remaining request steps.                                            *)

LEMMA ReadyTypeOK ==
    ASSUME TypeOK, NEW r \in Requests, RequestOK(r), ReadyAnswered(r) \/ ReadyRefused(r)
    PROVE  TypeOK'
<1>1. req[r].payment \in PaymentId
  BY DEF RequestOK, ReadyAnswered, ReadyRefused, At
<1>2. payments' \in [PaymentId -> PaymentRow]
  <2>0. payments[req[r].payment] \in PaymentRow
    BY <1>1 DEF TypeOK
  <2>1. [payments[req[r].payment] EXCEPT !.tid = TRUE] \in PaymentRow
    BY <2>0 DEF PaymentRow
  <2>2. [payments[req[r].payment] EXCEPT !.status = "FAILED"] \in PaymentRow
    BY <2>0 DEF PaymentRow
  <2> QED
    BY <1>1, <2>1, <2>2 DEF TypeOK, ReadyAnswered, ReadyRefused
<1> QED
  BY <1>2, FinishType DEF TypeOK, ReadyAnswered, ReadyRefused

LEMMA PrepareCommitTypeOK ==
    ASSUME TypeOK, NEW r \in Requests, RequestOK(r),
           FindActive(r) \/ SeeMethods(r) \/ LoadActive(r) \/ RollBackApproval(r)
    PROVE  TypeOK'
<1>0. req[r] \in Request /\ now \in Nat
  BY DEF TypeOK
<1>1. CASE FindActive(r)
  <2>1. PICK s \in SubId \cup {NoId} :
          req' = [req EXCEPT ![r].pc = IF s = NoId THEN "commit" ELSE "load", ![r].sub = s,
                             ![r].startedAt = now, ![r].seen = StoredMethods(req[r].user)]
    BY <1>1 DEF FindActive, ActiveSubs
  <2>2. StoredMethods(req[r].user) \subseteq MethodId
    BY DEF StoredMethods
  <2>3. [req[r] EXCEPT !.pc = IF s = NoId THEN "commit" ELSE "load", !.sub = s,
                       !.startedAt = now, !.seen = StoredMethods(req[r].user)] \in Request
    BY <1>0, <2>2 DEF Request, RequestPc
  <2>4. req' \in [Requests -> Request]
    BY <2>1, <2>3 DEF TypeOK
  <2> QED
    BY <1>1, <2>4 DEF TypeOK, FindActive, tables
<1>2. CASE SeeMethods(r)
  <2>1. StoredMethods(req[r].user) \subseteq MethodId
    BY DEF StoredMethods
  <2>2. [req[r] EXCEPT !.pc = "commit", !.seen = StoredMethods(req[r].user)] \in Request
    BY <1>0, <2>1 DEF Request, RequestPc
  <2> QED
    BY <1>2, <2>2 DEF TypeOK, SeeMethods, tables
<1>3. CASE LoadActive(r)
  <2>1. [req[r] EXCEPT !.pc = "commit", !.subRow = subs[req[r].sub]] \in Request
    <3>1. subs[req[r].sub] \in SubRow
      BY <1>3 DEF TypeOK, RequestOK, LoadActive, At, IsSubOf
    <3> QED
      BY <1>0, <3>1 DEF Request, RequestPc
  <2> QED
    BY <1>3, <2>1 DEF TypeOK, LoadActive, tables
<1>4. CASE RollBackApproval(r)
  BY <1>4, FinishType DEF TypeOK, RollBackApproval, tables
<1> QED
  BY <1>1, <1>2, <1>3, <1>4

LEMMA CommitApprovalTypeOK ==
    ASSUME TypeOK, NEW r \in Requests, RequestOK(r), CommitApproval(r)
    PROVE  TypeOK'
<1> DEFINE u == req[r].user
           start == req[r].startedAt
<1>1. u \in Users /\ req[r].payment \in PaymentId
  BY DEF CommitApproval, RequestOK, Approving, At, IsPaymentOf
<1>2. /\ start \in Nat /\ req[r].paidAt \in Nat /\ req[r].seen \subseteq MethodId
      /\ req[r].subRow \in SubRow /\ req[r].sub \in SubId \cup {NoId}
  BY DEF TypeOK, Request
<1>3. PICK m \in Fresh(methods),
           s \in IF req[r].sub = NoId THEN Fresh(subs) ELSE {req[r].sub} :
        /\ methods' = WithDefault(u, m, req[r].seen)
        /\ subs' = [subs EXCEPT ![s] = IF req[r].sub = NoId THEN NewSub(u, start + Month)
                                       ELSE Activated(req[r].subRow, start)]
        /\ plan' = [plan EXCEPT ![u] = "PRO"]
        /\ payments' = ApprovedPayment(req[r].payment, s, m, req[r].paidAt)
  BY DEF CommitApproval
<1>4. m \in MethodId /\ s \in SubId
  BY <1>2, <1>3, FreshIds DEF TypeOK
<1>5. methods' \in [MethodId -> MethodRow]
  BY <1>1, <1>2, <1>3, <1>4, MethodsTyped
<1>6. subs' \in [SubId -> SubRow]
  <2>1. NewSub(u, start + Month) \in SubRow
    BY <1>1, <1>2, NewSubType, BillingAssumption
  <2>2. Activated(req[r].subRow, start) \in SubRow
    <3>1. start + Month \in Nat
      BY <1>2, BillingAssumption
    <3> QED
      BY <1>2, <3>1 DEF Activated, SubRow
  <2> QED
    BY <1>3, <1>4, <2>1, <2>2 DEF TypeOK
<1>7. payments' \in [PaymentId -> PaymentRow]
  BY <1>1, <1>2, <1>3, <1>4, ApprovedPaymentType
<1>8. plan' \in [Users -> {"FREE", "PRO"}]
  BY <1>3 DEF TypeOK
<1>9. req' \in [Requests -> Request]
  BY FinishType DEF TypeOK, CommitApproval
<1> QED
  BY <1>5, <1>6, <1>7, <1>8, <1>9 DEF TypeOK, CommitApproval

LEMMA CommitMethodChangeTypeOK ==
    ASSUME TypeOK, NEW r \in Requests, RequestOK(r), CommitMethodChange(r)
    PROVE  TypeOK'
<1> DEFINE u == req[r].user
<1>1. u \in Users /\ req[r].payment \in PaymentId
  BY DEF CommitMethodChange, RequestOK, Approving, At, IsPaymentOf
<1>2. req[r].paidAt \in Nat /\ req[r].seen \subseteq MethodId /\ req[r].sub \in SubId \cup {NoId}
  BY DEF TypeOK, Request
<1>3. PICK m \in Fresh(methods) :
        /\ methods' = WithOnly(u, m, req[r].seen)
        /\ payments' = ApprovedPayment(req[r].payment, req[r].sub, m, req[r].paidAt)
  BY DEF CommitMethodChange
<1>4. m \in MethodId
  BY <1>3, FreshIds DEF TypeOK
<1>5. methods' \in [MethodId -> MethodRow]
  BY <1>1, <1>2, <1>3, <1>4, MethodsTyped
<1>6. payments' \in [PaymentId -> PaymentRow]
  BY <1>1, <1>2, <1>3, <1>4, ApprovedPaymentType
<1>7. req' \in [Requests -> Request]
  BY FinishType DEF TypeOK, CommitMethodChange
<1> QED
  BY <1>5, <1>6, <1>7 DEF TypeOK, CommitMethodChange

LEMMA ResultTypeOK ==
    ASSUME TypeOK, NEW r \in Requests, RequestOK(r),
           \/ \E op \in {"cancel", "fail"}, p \in PaymentId : CheckResult(r, op, p)
           \/ LoadResult(r) \/ SaveResult(r)
    PROVE  TypeOK'
<1>0. req[r] \in Request
  BY DEF TypeOK
<1>1. ASSUME NEW op \in {"cancel", "fail"}, NEW p \in PaymentId, CheckResult(r, op, p)
      PROVE  TypeOK'
  <2>1. [IdleRequest EXCEPT !.op = op, !.pc = "resultLoad", !.payment = p] \in Request
    BY IdleTypes DEF Request, RequestPc, AllOps
  <2> QED
    BY <1>1, <2>1 DEF TypeOK, CheckResult, tables
<1>2. CASE LoadResult(r)
  <2>1. [req[r] EXCEPT !.pc = "resultSave", !.payRow = payments[req[r].payment]] \in Request
    <3>1. payments[req[r].payment] \in PaymentRow
      BY <1>2 DEF TypeOK, RequestOK, LoadResult, At
    <3> QED
      BY <1>0, <3>1 DEF Request, RequestPc
  <2> QED
    BY <1>2, <2>1 DEF TypeOK, LoadResult, tables
<1>3. CASE SaveResult(r)
  <2>1. [req[r].payRow EXCEPT !.status = ResultStatus(req[r].op)] \in PaymentRow
    <3>1. req[r].payRow \in PaymentRow
      BY <1>0 DEF Request
    <3> QED
      BY <3>1 DEF PaymentRow, ResultStatus
  <2> QED
    BY <1>3, <2>1, FinishType DEF TypeOK, SaveResult
<1> QED
  BY <1>1, <1>2, <1>3

LEMMA SubscriptionTypeOK ==
    ASSUME TypeOK, NEW r \in Requests, RequestOK(r),
           \/ \E op \in SubscriptionOps, u \in Users : FindSubscription(r, op, u)
           \/ LoadSubscription(r) \/ SaveSubscription(r)
    PROVE  TypeOK'
<1>0. req[r] \in Request
  BY DEF TypeOK
<1>1. ASSUME NEW op \in SubscriptionOps, NEW u \in Users, FindSubscription(r, op, u)
      PROVE  TypeOK'
  <2>1. PICK s \in SubId :
          req' = [req EXCEPT ![r] = [IdleRequest EXCEPT !.op = op, !.pc = "subLoad",
                                                        !.user = u, !.sub = s]]
    BY <1>1 DEF FindSubscription, ActiveSubs
  <2>2. [IdleRequest EXCEPT !.op = op, !.pc = "subLoad", !.user = u, !.sub = s] \in Request
    BY IdleTypes DEF Request, RequestPc, AllOps, SubscriptionOps
  <2> QED
    BY <1>1, <2>1, <2>2 DEF TypeOK, FindSubscription, tables
<1>2. CASE LoadSubscription(r)
  <2>1. [req[r] EXCEPT !.pc = "subSave", !.subRow = subs[req[r].sub]] \in Request
    <3>1. subs[req[r].sub] \in SubRow
      BY <1>2 DEF TypeOK, RequestOK, LoadSubscription, At, IsSubOf
    <3> QED
      BY <1>0, <3>1 DEF Request, RequestPc
  <2> QED
    BY <1>2, <2>1 DEF TypeOK, LoadSubscription, tables
<1>3. CASE SaveSubscription(r)
  <2>1. req[r].op \in SubscriptionOps /\ req[r].subRow \in SubRow
    BY <1>3 DEF TypeOK, Request, RequestOK, SaveSubscription, At
  <2>2. Edited(req[r].op, req[r].subRow) \in SubRow
    BY <2>1 DEF Edited, SubRow, SubscriptionOps
  <2> QED
    BY <1>3, <2>2, FinishType DEF TypeOK, SaveSubscription
<1> QED
  BY <1>1, <1>2, <1>3

LEMMA RequestTypeOK ==
    ASSUME TypeOK, NEW r \in Requests, RequestOK(r), RequestStep(r)
    PROVE  TypeOK'
<1>1. ASSUME NEW u \in Users, Ready(r, u) \/ ReadyMethodChange(r, u)
      PROVE  TypeOK'
  <2>1. {"ready", "readyChange"} \subseteq AllOps
    BY DEF AllOps
  <2>2. CASE Ready(r, u)
    BY <2>1, <2>2, InsertReadyTypeOK DEF Ready
  <2>3. CASE ReadyMethodChange(r, u)
    BY <2>1, <2>3, InsertReadyTypeOK DEF ReadyMethodChange, ActiveSubs
  <2> QED
    BY <1>1, <2>2, <2>3
<1>2. ASSUME NEW p \in PaymentId, Approve(r, p) \/ ApproveMethodChange(r, p)
      PROVE  TypeOK'
  <2>1. {"approve", "approveChange"} \subseteq AllOps
    BY DEF AllOps
  <2> QED
    BY <1>2, <2>1, StartApprovalTypeOK DEF Approve, ApproveMethodChange
<1> QED
  BY <1>1, <1>2, ReadyTypeOK, ProviderTypeOK, PrepareCommitTypeOK, CommitApprovalTypeOK,
     CommitMethodChangeTypeOK, ResultTypeOK, SubscriptionTypeOK DEF RequestStep

-----------------------------------------------------------------------------
(* What a billing run writes.                                              *)

LEMMA NextTargetType ==
    ASSUME batch \in [Batches -> Run], NEW b \in Batches, NextTarget(b)
    PROVE  batch' \in [Batches -> Run]
<1>1. [IdleRun EXCEPT !.pc = "pick", !.todo = batch[b].todo] \in Run
  BY IdleTypes DEF Run, BatchPc
<1> QED
  BY <1>1 DEF NextTarget

LEMMA RunProgressTypeOK ==
    ASSUME TypeOK, NEW b \in Batches, RunOK(b),
           \/ StartRun(b) \/ EndRun(b) \/ PickCanceled(b)
           \/ Charge(b) \/ ChargeAnswerLost(b) \/ ChargeRefused(b)
           \/ BookkeepingFails(b) \/ LoadRow(b) \/ AbortRun(b)
    PROVE  TypeOK'
<1>0. batch[b] \in Run /\ now \in Nat
  BY DEF TypeOK
<1>1. CASE StartRun(b)
  <2>1. BillingTargets \subseteq Target
    BY DEF TypeOK, BillingTargets, DueSubs, Target
  <2>2. [IdleRun EXCEPT !.pc = "pick", !.todo = BillingTargets] \in Run
    BY <2>1, IdleTypes DEF Run, BatchPc
  <2> QED
    BY <1>1, <2>2 DEF TypeOK, StartRun, tables
<1>2. CASE EndRun(b)
  BY <1>2, IdleTypes DEF TypeOK, EndRun, tables
<1>3. CASE PickCanceled(b)
  <2>1. PICK t \in Earliest(batch[b].todo) :
          batch' = [batch EXCEPT ![b].pc = "complete", ![b].todo = @ \ {t},
                                 ![b].sub = t.id, ![b].snap = t.row]
    BY <1>3 DEF PickCanceled
  <2>2. t.id \in SubId /\ t.row \in SubRow
    BY <1>0, <2>1 DEF Earliest, Run, Target
  <2>3. [batch[b] EXCEPT !.pc = "complete", !.todo = @ \ {t}, !.sub = t.id, !.snap = t.row]
          \in Run
    BY <1>0, <2>2 DEF Run, BatchPc
  <2> QED
    BY <1>3, <2>1, <2>3 DEF TypeOK, PickCanceled, tables
<1>4. CASE Charge(b) \/ ChargeAnswerLost(b)
  <2>1. [batch[b] EXCEPT !.pc = "charged", !.paidAt = now] \in Run
    BY <1>0 DEF Run, BatchPc
  <2>2. [batch[b] EXCEPT !.pc = "failed"] \in Run
    BY <1>0 DEF Run, BatchPc
  <2>3. batch' \in [Batches -> Run]
    BY <1>4, <2>1, <2>2 DEF TypeOK, Charge, ChargeAnswerLost
  <2> QED
    BY <1>4, <2>3 DEF TypeOK, Charge, ChargeAnswerLost, tables
<1>5. CASE ChargeRefused(b) \/ BookkeepingFails(b)
  <2>1. [batch[b] EXCEPT !.pc = "failed"] \in Run
    BY <1>0 DEF Run, BatchPc
  <2>2. batch' \in [Batches -> Run]
    BY <1>5, <2>1 DEF TypeOK, ChargeRefused, BookkeepingFails
  <2> QED
    BY <1>5, <2>2 DEF TypeOK, ChargeRefused, BookkeepingFails, tables
<1>6. CASE LoadRow(b)
  <2>1. subs[batch[b].sub] \in SubRow
    BY <1>6 DEF TypeOK, RunOK, LoadRow, IsSubOf, Working, BatchPc
  <2>2. PICK pc \in BatchPc :
          batch' = [batch EXCEPT ![b] = [batch[b] EXCEPT !.row = subs[batch[b].sub], !.pc = pc]]
    BY <1>0, <1>6 DEF LoadRow, BatchPc, Run
  <2>3. [batch[b] EXCEPT !.row = subs[batch[b].sub], !.pc = pc] \in Run
    BY <1>0, <2>1, <2>2 DEF Run
  <2> QED
    BY <1>6, <2>2, <2>3 DEF TypeOK, LoadRow, tables
<1>7. CASE AbortRun(b)
  BY <1>7, IdleTypes DEF TypeOK, AbortRun, tables
<1> QED
  BY <1>1, <1>2, <1>3, <1>4, <1>5, <1>6, <1>7

LEMMA RunPaymentTypeOK ==
    ASSUME TypeOK, NEW b \in Batches, RunOK(b),
           PickCharge(b) \/ MarkApproved(b) \/ MarkFailed(b)
    PROVE  TypeOK'
<1>0. batch[b] \in Run
  BY DEF TypeOK
<1>1. CASE PickCharge(b)
  <2>1. PICK t \in Earliest(batch[b].todo), p \in Fresh(payments), m \in MethodId \cup {NoId} :
          /\ payments' = [payments EXCEPT ![p] = ReadyPayment(t.row.user, t.id, m, ProPlanAmount)]
          /\ batch' = [batch EXCEPT ![b].pc = "charge", ![b].todo = @ \ {t}, ![b].sub = t.id,
                                    ![b].snap = t.row, ![b].payment = p]
    BY <1>1 DEF PickCharge, DefaultMethods, StoredMethods
  <2>2. t.id \in SubId /\ t.row \in SubRow
    BY <1>0, <2>1 DEF Earliest, Run, Target
  <2>3. t.row.user \in Users \cup {NoUser} /\ p \in PaymentId
    BY <2>1, <2>2, FreshIds DEF TypeOK, SubRow
  <2>4. payments' \in [PaymentId -> PaymentRow]
    BY <2>1, <2>2, <2>3, ReadyPaymentType DEF TypeOK
  <2>5. [batch[b] EXCEPT !.pc = "charge", !.todo = @ \ {t}, !.sub = t.id, !.snap = t.row,
                         !.payment = p] \in Run
    BY <1>0, <2>2, <2>3 DEF Run, BatchPc
  <2> QED
    BY <1>1, <2>1, <2>4, <2>5 DEF TypeOK, PickCharge
<1>2. CASE MarkApproved(b) \/ MarkFailed(b)
  <2>1. batch[b].payment \in PaymentId
    BY <1>2 DEF RunOK, MarkApproved, MarkFailed, AtRun, Charging, IsPaymentOf
  <2>2. payments[batch[b].payment] \in PaymentRow /\ batch[b].paidAt \in Nat
    BY <1>0, <2>1 DEF TypeOK, Run
  <2>3. [payments[batch[b].payment] EXCEPT !.status = "APPROVED", !.tid = TRUE,
                                           !.approvedAt = batch[b].paidAt] \in PaymentRow
    BY <2>2 DEF PaymentRow
  <2>4. [payments[batch[b].payment] EXCEPT !.status = "FAILED"] \in PaymentRow
    BY <2>2 DEF PaymentRow
  <2>5. payments' \in [PaymentId -> PaymentRow]
    BY <1>2, <2>1, <2>3, <2>4 DEF TypeOK, MarkApproved, MarkFailed
  <2>6. [batch[b] EXCEPT !.pc = "renew"] \in Run /\ [batch[b] EXCEPT !.pc = "record"] \in Run
    BY <1>0 DEF Run, BatchPc
  <2>7. batch' \in [Batches -> Run]
    BY <1>2, <2>6 DEF TypeOK, MarkApproved, MarkFailed
  <2> QED
    BY <1>2, <2>5, <2>7 DEF TypeOK, MarkApproved, MarkFailed
<1> QED
  BY <1>1, <1>2

LEMMA RunSaveTypeOK ==
    ASSUME TypeOK, NEW b \in Batches, RunOK(b),
           SaveRenewal(b) \/ SaveFailure(b) \/ Expire(b) \/ Complete(b)
    PROVE  TypeOK'
<1>0. batch[b] \in Run
  BY DEF TypeOK
<1>1. /\ batch[b].row \in SubRow /\ batch[b].snap \in SubRow
      /\ batch[b].paidAt \in Nat /\ FailedAttempts(b) \in Nat
  BY <1>0 DEF Run, SubRow, FailedAttempts
<1>2. Renewed(batch[b].row, batch[b].snap, batch[b].paidAt) \in SubRow
  <2>1. RenewalBase(batch[b].snap, batch[b].paidAt) + Month \in Nat
    BY <1>1, BillingAssumption DEF RenewalBase, SubRow
  <2> QED
    BY <1>1, <2>1 DEF Renewed, SubRow
<1>3. /\ [batch[b].row EXCEPT !.failed = FailedAttempts(b)] \in SubRow
      /\ [batch[b].row EXCEPT !.status = "EXPIRED", !.failed = FailedAttempts(b)] \in SubRow
      /\ [batch[b].row EXCEPT !.status = "CANCELED", !.isCanceled = FALSE] \in SubRow
  BY <1>1 DEF SubRow
<1>4. subs' \in [SubId -> SubRow]
  BY <1>2, <1>3 DEF TypeOK, SaveRenewal, SaveFailure, Expire, Complete
<1>5. plan' \in [Users -> {"FREE", "PRO"}]
  BY DEF TypeOK, SaveRenewal, SaveFailure, Expire, Complete
<1>6. batch' \in [Batches -> Run]
  BY NextTargetType DEF TypeOK, SaveRenewal, SaveFailure, Expire, Complete
<1> QED
  BY <1>4, <1>5, <1>6 DEF TypeOK, SaveRenewal, SaveFailure, Expire, Complete

LEMMA NextTypeOK == IInv /\ [Next]_vars => TypeOK'
<1> SUFFICES ASSUME IInv, [Next]_vars PROVE TypeOK'
  OBVIOUS
<1>1. TypeOK /\ (\A r \in Requests : RequestOK(r)) /\ (\A b \in Batches : RunOK(b))
  BY DEF IInv, Consistent
<1>2. ASSUME NEW r \in Requests, RequestStep(r) PROVE TypeOK'
  BY <1>1, <1>2, RequestTypeOK
<1>3. ASSUME NEW u \in Users, Withdraw(u) PROVE TypeOK'
  BY <1>1, <1>3 DEF TypeOK, Withdraw
<1>4. ASSUME NEW b \in Batches, StartRun(b) \/ RunStep(b) PROVE TypeOK'
  BY <1>1, <1>4, RunProgressTypeOK, RunPaymentTypeOK, RunSaveTypeOK DEF RunStep
<1>5. CASE Tick
  BY <1>1, <1>5 DEF TypeOK, Tick, tables
<1>6. CASE Restart
  BY <1>1, <1>6, IdleTypes DEF TypeOK, Restart, tables
<1>7. CASE UNCHANGED vars
  BY <1>1, <1>7 DEF TypeOK, vars
<1> QED
  BY <1>2, <1>3, <1>4, <1>5, <1>6, <1>7 DEF Next

-----------------------------------------------------------------------------
(* The inductive invariant                                                 *)

LEMMA NoIdIsNoRow == NoId \notin PaymentId /\ NoId \notin SubId /\ NoId \notin MethodId
BY DEF NoId, PaymentId, SubId, MethodId

(* What holds of rows that exist goes on holding.                          *)
LEMMA RefsKept ==
    ASSUME RowsKept
    PROVE  /\ \A s, u : IsSubOf(s, u) => IsSubOf(s, u)'
           /\ \A m, u : IsMethodOf(m, u) => IsMethodOf(m, u)'
           /\ \A p, u : IsPaymentOf(p, u) => IsPaymentOf(p, u)'
           /\ \A row : GoodPayment(row) => GoodPayment(row)'
<1>1. \A s, u : IsSubOf(s, u) => IsSubOf(s, u)'
  BY DEF RowsKept, SubsKept, IsSubOf
<1>2. \A m, u : IsMethodOf(m, u) => IsMethodOf(m, u)'
  BY DEF RowsKept, MethodsKept, IsMethodOf
<1>3. \A p, u : IsPaymentOf(p, u) => IsPaymentOf(p, u)'
  BY DEF RowsKept, PaymentsKept, IsPaymentOf
<1>4. \A row : GoodPayment(row) => GoodPayment(row)'
  BY <1>1, <1>2 DEF GoodPayment
<1> QED
  BY <1>1, <1>2, <1>3, <1>4

(* A request that does not move keeps what it relies on.                   *)
LEMMA WaitingRequest ==
    ASSUME RowsKept, NEW q \in Requests, RequestOK(q), req'[q] = req[q]
    PROVE  RequestOK(q)'
<1> DEFINE x == req[q]
<1>1. x.payment \in PaymentId /\ payments[x.payment].status # "NONE" =>
        /\ payments'[x.payment].status # "NONE"
        /\ payments'[x.payment].user = payments[x.payment].user
  BY DEF RowsKept, PaymentsKept
<1>2. x.payment \in PaymentId /\ captured[x.payment] => captured'[x.payment]
  BY DEF RowsKept, PaymentsKept
<1> QED
  BY <1>1, <1>2, RefsKept DEF RequestOK, IsPaymentOf, Approving

(* A run that does not move keeps what it relies on, unless its payment    *)
(* is touched.                                                             *)
LEMMA WaitingRun ==
    ASSUME RowsKept, NEW b \in Batches, RunOK(b), batch'[b] = batch[b],
           batch[b].pc \in Charging =>
             /\ payments'[batch[b].payment].sub = payments[batch[b].payment].sub
             /\ payments'[batch[b].payment].method = payments[batch[b].payment].method
             /\ Private(batch[b].payment)'
    PROVE  RunOK(b)'
<1> DEFINE x == batch[b]
<1>1. x.payment \in PaymentId /\ captured[x.payment] => captured'[x.payment]
  BY DEF RowsKept, PaymentsKept
<1>2. x.pc \in Paid => x.pc \in Charging
  BY DEF Paid, Charging
<1>3. x.pc \in Charging => Private(x.payment)'
  OBVIOUS
<1> QED
  BY <1>1, <1>2, <1>3, RefsKept DEF RunOK, IsPaymentOf

(* Steps that write no table.                                              *)
LEMMA QuietStep ==
    ASSUME IInv, UNCHANGED tables, \A p \in PaymentId : captured[p] => captured'[p]
    PROVE  RowsKept /\ RowsOK' /\ ApprovedPaid' /\ SubscriberHasDefaultMethod'
<1>1. RowsKept
  BY DEF tables, RowsKept, SubsKept, MethodsKept, PaymentsKept
<1>2. RowsOK'
  BY DEF IInv, Consistent, RowsOK, GoodPayment, IsSubOf, IsMethodOf, tables
<1>3. ApprovedPaid'
  BY DEF IInv, Consistent, ApprovedPaid, tables
<1>4. SubscriberHasDefaultMethod'
  BY DEF IInv, Consistent, SubscriberHasDefaultMethod, DefaultMethods, StoredMethods, tables
<1> QED
  BY <1>1, <1>2, <1>3, <1>4

-----------------------------------------------------------------------------
(* How the step of one caller leaves the other callers.                    *)

LEMMA OtherRequests ==
    ASSUME IInv, RowsKept, NEW r \in Requests, RequestOK(r)',
           \A q \in Requests \ {r} : req'[q] = req[q]
    PROVE  \A q \in Requests : RequestOK(q)'
BY WaitingRequest DEF IInv, Consistent

LEMMA AllRunsWait ==
    ASSUME IInv, RowsKept, NEW r \in Requests, UNCHANGED batch,
           \A q \in Requests \ {r} : req'[q] = req[q],
           \/ req'[r].payment \in {NoId, req[r].payment}
           \/ payments[req'[r].payment].status = "NONE"
           \/ Approvable(req'[r].payment),
           \A p \in PaymentId : payments[p].status # "NONE" /\ p # req[r].payment
                                  => payments'[p] = payments[p]
    PROVE  \A b \in Batches : RunOK(b)'
<1> SUFFICES ASSUME NEW b \in Batches PROVE RunOK(b)'
  OBVIOUS
<1> DEFINE p == batch[b].payment
<1>1. RunOK(b)
  BY DEF IInv, Consistent
<1>2. ASSUME batch[b].pc \in Charging
      PROVE  payments'[p] = payments[p] /\ Private(p)'
  <2>1. p \in PaymentId /\ payments[p].status # "NONE" /\ Private(p)
    BY <1>1, <1>2 DEF RunOK, IsPaymentOf
  <2>2. payments'[p] = payments[p]
    BY <2>1 DEF Private
  <2>3. \A q \in Requests : req'[q].payment # p
    BY <2>1, NoIdIsNoRow DEF Private
  <2> QED
    BY <2>1, <2>2, <2>3 DEF Private, Approvable
<1> QED
  BY <1>1, <1>2, WaitingRun

(* After a run step the requests still wait, as do the other runs.         *)
LEMMA OtherCallers ==
    ASSUME IInv, RowsKept, NEW b \in Batches, RunOK(b)', UNCHANGED req,
           \A c \in Batches \ {b} : batch'[c] = batch[c],
           \A p \in PaymentId : payments[p].status # "NONE" =>
             /\ payments'[p].sub = payments[p].sub
             /\ payments'[p].method = payments[p].method
             /\ Approvable(p)' => Approvable(p)
    PROVE  (\A q \in Requests : RequestOK(q)') /\ \A c \in Batches : RunOK(c)'
<1>1. \A q \in Requests : RequestOK(q)'
  BY WaitingRequest DEF IInv, Consistent
<1>2. ASSUME NEW c \in Batches \ {b} PROVE RunOK(c)'
  <2> DEFINE p == batch[c].payment
  <2>1. RunOK(c)
    BY DEF IInv, Consistent
  <2>2. ASSUME batch[c].pc \in Charging
        PROVE  payments'[p].sub = payments[p].sub /\ payments'[p].method = payments[p].method
               /\ Private(p)'
    <3>1. p \in PaymentId /\ payments[p].status # "NONE" /\ Private(p)
      BY <2>1, <2>2 DEF RunOK, IsPaymentOf
    <3> QED
      BY <3>1 DEF Private
  <2> QED
    BY <2>1, <2>2, WaitingRun
<1> QED
  BY <1>1, <1>2

-----------------------------------------------------------------------------
(* Request steps that write no table: what the request now relies on.      *)

LEMMA StartedRequest ==
    ASSUME IInv, NEW r \in Requests, UNCHANGED tables,
           \/ \E p \in PaymentId : Approve(r, p) \/ ApproveMethodChange(r, p)
           \/ \E op \in {"cancel", "fail"}, p \in PaymentId : CheckResult(r, op, p)
           \/ \E op \in SubscriptionOps, u \in Users : FindSubscription(r, op, u)
    PROVE  /\ RequestOK(r)'
           /\ req'[r].payment = NoId \/ Approvable(req'[r].payment)
<1>1. req \in [Requests -> Request] /\ RowsOK
  BY DEF IInv, Consistent, TypeOK
<1>2. ASSUME NEW p \in PaymentId, Approve(r, p) \/ ApproveMethodChange(r, p)
      PROVE  RequestOK(r)' /\ Approvable(req'[r].payment)
  <2>1. PICK op \in {"approve", "approveChange"} :
          /\ req'[r] = [IdleRequest EXCEPT !.op = op, !.pc = "provider",
                          !.user = payments[p].user, !.payment = p, !.sub = payments[p].sub]
          /\ op = "approveChange" => payments[p].sub # NoId
    BY <1>1, <1>2 DEF Approve, ApproveMethodChange, StartApproval
  <2>2. /\ req'[r].op = op /\ req'[r].pc = "provider" /\ req'[r].user = payments[p].user
        /\ req'[r].payment = p /\ req'[r].sub = payments[p].sub /\ req'[r].seen = {}
    BY <2>1 DEF IdleRequest
  <2>3. payments[p].status = "READY" /\ Approvable(p) /\ GoodPayment(payments[p])
    BY <1>1, <1>2 DEF Approve, ApproveMethodChange, StartApproval, Approvable, RowsOK
  <2> QED
    BY <2>1, <2>2, <2>3
    DEF RequestOK, Approving, GoodPayment, IsPaymentOf, IsSubOf, tables
<1>3. ASSUME NEW op \in {"cancel", "fail"}, NEW p \in PaymentId, CheckResult(r, op, p)
      PROVE  RequestOK(r)' /\ Approvable(req'[r].payment)
  <2>1. /\ req'[r].pc = "resultLoad" /\ req'[r].payment = p /\ req'[r].seen = {}
        /\ Approvable(p)
    BY <1>1, <1>3 DEF CheckResult, Redirectable, IdleRequest, Approvable
  <2> QED
    BY <2>1 DEF RequestOK, Approving, Approvable, tables
<1>4. ASSUME NEW op \in SubscriptionOps, NEW u \in Users, FindSubscription(r, op, u)
      PROVE  RequestOK(r)' /\ req'[r].payment = NoId
  <2>1. PICK s \in ActiveSubs(u) :
          req'[r] = [IdleRequest EXCEPT !.op = op, !.pc = "subLoad", !.user = u, !.sub = s]
    BY <1>1, <1>4 DEF FindSubscription
  <2>2. /\ req'[r].op = op /\ req'[r].pc = "subLoad" /\ req'[r].user = u /\ req'[r].sub = s
        /\ req'[r].payment = NoId /\ req'[r].seen = {} /\ IsSubOf(s, u)
    BY <2>1 DEF IdleRequest, ActiveSubs, IsSubOf
  <2> QED
    BY <2>2, NoIdIsNoRow DEF RequestOK, Approving, IsSubOf, tables
<1> QED
  BY <1>2, <1>3, <1>4

LEMMA AdvancedRequest ==
    ASSUME IInv, NEW r \in Requests, UNCHANGED tables,
           \/ ProviderApproves(r) \/ FindActive(r) \/ SeeMethods(r) \/ LoadActive(r)
           \/ LoadResult(r) \/ LoadSubscription(r)
    PROVE  RequestOK(r)' /\ req'[r].payment = req[r].payment
<1>1. req \in [Requests -> Request] /\ RowsOK /\ RequestOK(r) /\ req[r] \in Request
  BY DEF IInv, Consistent, TypeOK
<1>2. CASE ProviderApproves(r)
  <2>1. /\ req'[r] = [req[r] EXCEPT !.pc = "approved", !.paidAt = now]
        /\ req[r].pc = "provider"
    BY <1>1, <1>2 DEF ProviderApproves, At
  <2>2. /\ req'[r].op = req[r].op /\ req'[r].pc = "approved" /\ req'[r].user = req[r].user
        /\ req'[r].payment = req[r].payment /\ req'[r].sub = req[r].sub
        /\ req'[r].seen = req[r].seen
    BY <1>1, <2>1 DEF Request
  <2>3. req[r].payment \in PaymentId /\ captured'[req[r].payment]
    BY <1>1, <1>2, <2>1 DEF ProviderApproves, RequestOK, Approving, IsPaymentOf, IInv, Consistent, TypeOK
  <2> QED
    BY <1>1, <2>1, <2>2, <2>3
    DEF RequestOK, Approving, IsPaymentOf, IsSubOf, IsMethodOf, tables
<1>3. CASE FindActive(r)
  <2>1. PICK s \in ActiveSubs(req[r].user) \cup {NoId} :
          req' = [req EXCEPT ![r].pc = IF s = NoId THEN "commit" ELSE "load", ![r].sub = s,
                             ![r].startedAt = now, ![r].seen = StoredMethods(req[r].user)]
    BY <1>3, Zenon DEF FindActive
  <2>2. /\ req'[r].op = req[r].op /\ req'[r].pc = (IF s = NoId THEN "commit" ELSE "load")
        /\ req'[r].user = req[r].user /\ req'[r].payment = req[r].payment
        /\ req'[r].sub = s /\ req'[r].seen = StoredMethods(req[r].user)
    BY <1>1, <2>1 DEF Request
  <2>3. req[r].pc = "approved" /\ req[r].op = "approve" /\ captured' = captured
    BY <1>3 DEF FindActive, At
  <2>4. s # NoId => IsSubOf(s, req[r].user)
    BY <2>1 DEF ActiveSubs, IsSubOf
  <2>5. \A m \in StoredMethods(req[r].user) : IsMethodOf(m, req[r].user)
    BY DEF StoredMethods, IsMethodOf
  <2> QED
    BY <1>1, <2>2, <2>3, <2>4, <2>5
    DEF RequestOK, Approving, IsPaymentOf, IsSubOf, IsMethodOf, tables
<1>4. CASE SeeMethods(r)
  <2>1. /\ req'[r].op = req[r].op /\ req'[r].pc = "commit" /\ req'[r].user = req[r].user
        /\ req'[r].payment = req[r].payment /\ req'[r].sub = req[r].sub
        /\ req'[r].seen = StoredMethods(req[r].user)
    BY <1>1, <1>4 DEF SeeMethods, Request
  <2>2. req[r].pc = "approved" /\ req[r].op = "approveChange" /\ captured' = captured
    BY <1>4 DEF SeeMethods, At
  <2>3. \A m \in StoredMethods(req[r].user) : IsMethodOf(m, req[r].user)
    BY DEF StoredMethods, IsMethodOf
  <2> QED
    BY <1>1, <2>1, <2>2, <2>3
    DEF RequestOK, Approving, IsPaymentOf, IsSubOf, IsMethodOf, tables
<1>5. CASE LoadActive(r)
  <2>1. /\ req'[r].op = req[r].op /\ req'[r].pc = "commit" /\ req'[r].user = req[r].user
        /\ req'[r].payment = req[r].payment /\ req'[r].sub = req[r].sub
        /\ req'[r].seen = req[r].seen /\ req'[r].subRow = subs[req[r].sub]
    BY <1>1, <1>5 DEF LoadActive, Request
  <2>2. req[r].pc = "load" /\ captured' = captured
    BY <1>5 DEF LoadActive, At
  <2> QED
    BY <1>1, <2>1, <2>2
    DEF RequestOK, Approving, IsPaymentOf, IsSubOf, IsMethodOf, tables
<1>6. CASE LoadResult(r)
  <2>1. /\ req'[r].pc = "resultSave" /\ req'[r].user = req[r].user
        /\ req'[r].payment = req[r].payment
        /\ req'[r].seen = req[r].seen /\ req'[r].payRow = payments[req[r].payment]
    BY <1>1, <1>6 DEF LoadResult, Request
  <2>2. req[r].pc = "resultLoad"
    BY <1>6 DEF LoadResult, At
  <2>3. GoodPayment(payments[req[r].payment])
    BY <1>1, <2>2 DEF RequestOK, RowsOK
  <2> QED
    BY <1>1, <2>1, <2>2, <2>3
    DEF RequestOK, Approving, GoodPayment, IsSubOf, IsMethodOf, tables
<1>7. CASE LoadSubscription(r)
  <2>1. /\ req'[r].op = req[r].op /\ req'[r].pc = "subSave" /\ req'[r].user = req[r].user
        /\ req'[r].payment = req[r].payment /\ req'[r].sub = req[r].sub
        /\ req'[r].seen = req[r].seen /\ req'[r].subRow = subs[req[r].sub]
    BY <1>1, <1>7 DEF LoadSubscription, Request
  <2>2. req[r].pc = "subLoad"
    BY <1>7 DEF LoadSubscription, At
  <2> QED
    BY <1>1, <2>1, <2>2 DEF RequestOK, Approving, IsSubOf, IsMethodOf, tables
<1> QED
  BY <1>2, <1>3, <1>4, <1>5, <1>6, <1>7

LEMMA FinishedRequest ==
    ASSUME req \in [Requests -> Request], NEW r \in Requests, Finish(r)
    PROVE  /\ RequestOK(r)' /\ req'[r].payment = NoId
           /\ \A q \in Requests \ {r} : req'[q] = req[q]
<1>1. req'[r] = IdleRequest
  BY DEF Finish
<1>2. req'[r].pc = "idle" /\ req'[r].payment = NoId /\ req'[r].seen = {}
  BY <1>1 DEF IdleRequest
<1> QED
  BY <1>2, NoIdIsNoRow DEF RequestOK, Approving, Finish

-----------------------------------------------------------------------------
(* Steps that write one row.                                               *)

TablesOK == RowsKept /\ RowsOK' /\ ApprovedPaid' /\ SubscriberHasDefaultMethod'

LEMMA OnePaymentWritten ==
    ASSUME IInv, NEW p \in PaymentId, NEW row, GoodPayment(row),
           payments' = [payments EXCEPT ![p] = row], UNCHANGED <<methods, subs>>,
           \A q \in PaymentId : captured[q] => captured'[q],
           payments[p].status # "NONE" => row.user = payments[p].user,
           row.status = "APPROVED" => captured[p] /\ row.method # NoId /\ row.sub # NoId
    PROVE  TablesOK
<1>1. /\ payments'[p] = row
      /\ \A q \in PaymentId \ {p} : payments'[q] = payments[q]
  BY DEF IInv, TypeOK
<1>2. RowsKept
  BY <1>1 DEF RowsKept, SubsKept, MethodsKept, PaymentsKept, GoodPayment
<1>3. ASSUME NEW q \in PaymentId, payments'[q].status # "NONE"
      PROVE  GoodPayment(payments[q])'
  <2>1. PICK copy : payments'[q] = copy /\ GoodPayment(copy)
    BY <1>1, <1>3 DEF IInv, Consistent, RowsOK
  <2>2. GoodPayment(copy)'
    BY <1>2, <2>1, RefsKept
  <2> QED
    BY <2>1, <2>2 DEF GoodPayment
<1>4. RowsOK'
  BY <1>3 DEF IInv, Consistent, RowsOK
<1>5. ApprovedPaid'
  BY <1>1 DEF IInv, Consistent, ApprovedPaid
<1>6. SubscriberHasDefaultMethod'
  BY DEF IInv, Consistent, SubscriberHasDefaultMethod, DefaultMethods, StoredMethods
<1> QED
  BY <1>2, <1>4, <1>5, <1>6 DEF TablesOK

LEMMA OneSubWritten ==
    ASSUME IInv, NEW s \in SubId, NEW row, subs' = [subs EXCEPT ![s] = row],
           UNCHANGED <<payments, methods, captured>>,
           subs[s].status # "NONE", row.status # "NONE", row.user = subs[s].user
    PROVE  TablesOK
<1>1. /\ subs'[s] = row
      /\ \A t \in SubId \ {s} : subs'[t] = subs[t]
  BY DEF IInv, TypeOK
<1>2. RowsKept
  BY <1>1 DEF RowsKept, SubsKept, MethodsKept, PaymentsKept
<1>3. RowsOK'
  BY <1>1, <1>2, RefsKept DEF IInv, Consistent, RowsOK
<1>4. ApprovedPaid'
  BY DEF IInv, Consistent, ApprovedPaid
<1>5. SubscriberHasDefaultMethod'
  BY <1>1 DEF IInv, Consistent, SubscriberHasDefaultMethod, DefaultMethods, StoredMethods
<1> QED
  BY <1>2, <1>3, <1>4, <1>5 DEF TablesOK

-----------------------------------------------------------------------------
(* Request steps, one lemma for those that write the same tables.          *)

LEMMA QuietRequestStep ==
    ASSUME IInv, NEW r \in Requests,
           \/ \E p \in PaymentId : Approve(r, p) \/ ApproveMethodChange(r, p)
           \/ \E op \in {"cancel", "fail"}, p \in PaymentId : CheckResult(r, op, p)
           \/ \E op \in SubscriptionOps, u \in Users : FindSubscription(r, op, u)
           \/ ProviderApproves(r) \/ ProviderRefuses(r) \/ ProviderAnswerLost(r)
           \/ FindActive(r) \/ SeeMethods(r) \/ LoadActive(r) \/ RollBackApproval(r)
           \/ LoadResult(r) \/ LoadSubscription(r)
    PROVE  Consistent'
<1>1. /\ UNCHANGED tables /\ UNCHANGED batch
      /\ \A q \in Requests \ {r} : req'[q] = req[q]
  BY DEF Approve, ApproveMethodChange, StartApproval, CheckResult, FindSubscription,
         ProviderApproves, ProviderRefuses, ProviderAnswerLost, FindActive, SeeMethods,
         LoadActive, RollBackApproval, LoadResult, LoadSubscription, Finish, IInv, TypeOK
<1>2. \A p \in PaymentId : captured[p] => captured'[p]
  BY DEF Approve, ApproveMethodChange, StartApproval, CheckResult, FindSubscription,
         ProviderApproves, ProviderRefuses, ProviderAnswerLost, FindActive, SeeMethods,
         LoadActive, RollBackApproval, LoadResult, LoadSubscription, IInv, TypeOK
<1>3. /\ RequestOK(r)'
      /\ req'[r].payment \in {NoId, req[r].payment} \/ Approvable(req'[r].payment)
  <2>1. CASE ProviderRefuses(r) \/ ProviderAnswerLost(r) \/ RollBackApproval(r)
    <3>1. Finish(r)
      BY <2>1 DEF ProviderRefuses, ProviderAnswerLost, RollBackApproval
    <3> QED
      BY <3>1, FinishedRequest DEF IInv, TypeOK
  <2>2. CASE \/ ProviderApproves(r) \/ FindActive(r) \/ SeeMethods(r) \/ LoadActive(r)
             \/ LoadResult(r) \/ LoadSubscription(r)
    BY <1>1, <2>2, AdvancedRequest
  <2> QED
    BY <1>1, <2>1, <2>2, StartedRequest
<1>4. RowsKept /\ RowsOK' /\ ApprovedPaid' /\ SubscriberHasDefaultMethod'
  BY <1>1, <1>2, QuietStep
<1>5. \A q \in Requests : RequestOK(q)'
  BY <1>1, <1>3, <1>4, OtherRequests
<1>6. \A b \in Batches : RunOK(b)'
  BY <1>1, <1>3, <1>4, AllRunsWait DEF tables
<1> QED
  BY <1>4, <1>5, <1>6 DEF Consistent

LEMMA InsertReadyStep ==
    ASSUME IInv, NEW r \in Requests, NEW op, NEW u \in Users, NEW s, NEW a,
           s = NoId \/ IsSubOf(s, u), InsertReady(r, op, u, s, a)
    PROVE  Consistent'
<1>1. PICK p \in Fresh(payments) :
        /\ payments' = [payments EXCEPT ![p] = ReadyPayment(u, s, NoId, a)]
        /\ req' = [req EXCEPT ![r] = [IdleRequest EXCEPT !.op = op, !.pc = "ready",
                                                         !.user = u, !.payment = p]]
  BY DEF InsertReady
<1>2. p \in PaymentId /\ payments[p].status = "NONE"
  BY FreshIds DEF IInv, TypeOK, Fresh
<1>3. GoodPayment(ReadyPayment(u, s, NoId, a)) /\ ReadyPayment(u, s, NoId, a).status = "READY"
  BY DEF GoodPayment, ReadyPayment
<1>4. UNCHANGED <<methods, subs, captured, batch>>
  BY DEF InsertReady
<1>5. TablesOK
  BY <1>1, <1>2, <1>3, <1>4, OnePaymentWritten
<1>6. /\ req'[r].pc = "ready" /\ req'[r].payment = p /\ req'[r].seen = {}
      /\ \A q \in Requests \ {r} : req'[q] = req[q]
  BY <1>1 DEF IdleRequest, IInv, TypeOK
<1>7. payments'[p].status = "READY"
  BY <1>1, <1>2, <1>3 DEF IInv, TypeOK
<1>8. RequestOK(r)'
  BY <1>2, <1>6, <1>7 DEF RequestOK, Approving
<1>9. \A q \in Requests : RequestOK(q)'
  BY <1>5, <1>6, <1>8, OtherRequests DEF TablesOK
<1>10. \A q \in PaymentId : payments[q].status # "NONE" => payments'[q] = payments[q]
  BY <1>1, <1>2 DEF IInv, TypeOK
<1>11. \A b \in Batches : RunOK(b)'
  BY <1>2, <1>4, <1>5, <1>6, <1>10, AllRunsWait DEF TablesOK
<1> QED
  BY <1>5, <1>9, <1>11 DEF Consistent, TablesOK

(* A request that ends by writing its own payment, with what it read.      *)
LEMMA PaymentRequestStep ==
    ASSUME IInv, NEW r \in Requests, ReadyAnswered(r) \/ ReadyRefused(r) \/ SaveResult(r)
    PROVE  Consistent'
<1> DEFINE p == req[r].payment
<1>1. /\ p \in PaymentId /\ payments[p].status # "NONE"
      /\ RequestOK(r) /\ RowsOK /\ ApprovedPaid
  BY DEF IInv, Consistent, RequestOK, ReadyAnswered, ReadyRefused, SaveResult, At
<1>2. payments[p] \in PaymentRow /\ req[r].payRow \in PaymentRow /\ GoodPayment(payments[p])
  BY <1>1 DEF IInv, TypeOK, Request, RowsOK
<1>3. /\ Finish(r) /\ UNCHANGED <<methods, subs, captured, batch>>
  BY DEF ReadyAnswered, ReadyRefused, SaveResult
<1>4. PICK row :
        /\ payments' = [payments EXCEPT ![p] = row]
        /\ GoodPayment(row) /\ row.user = payments[p].user
        /\ row.status = "APPROVED" => captured[p] /\ row.method # NoId /\ row.sub # NoId
  <2>1. CASE ReadyAnswered(r)
    <3> DEFINE row == [payments[p] EXCEPT !.tid = TRUE]
    <3>1. /\ row.status = payments[p].status /\ row.user = payments[p].user
          /\ row.sub = payments[p].sub /\ row.method = payments[p].method
      BY <1>2 DEF PaymentRow
    <3>2. payments' = [payments EXCEPT ![p] = row]
      BY <2>1 DEF ReadyAnswered
    <3> QED
      BY <1>1, <1>2, <3>1, <3>2 DEF GoodPayment, ApprovedPaid
  <2>2. CASE ReadyRefused(r)
    <3> DEFINE row == [payments[p] EXCEPT !.status = "FAILED"]
    <3>1. /\ row.status = "FAILED" /\ row.user = payments[p].user
          /\ row.sub = payments[p].sub /\ row.method = payments[p].method
      BY <1>2 DEF PaymentRow
    <3>2. payments' = [payments EXCEPT ![p] = row]
      BY <2>2 DEF ReadyRefused
    <3> QED
      BY <1>1, <1>2, <3>1, <3>2 DEF GoodPayment
  <2>3. CASE SaveResult(r)
    <3> DEFINE row == [req[r].payRow EXCEPT !.status = ResultStatus(req[r].op)]
    <3>1. /\ row.status \in {"CANCELED", "FAILED"} /\ row.user = req[r].payRow.user
          /\ row.sub = req[r].payRow.sub /\ row.method = req[r].payRow.method
      BY <1>2 DEF PaymentRow, ResultStatus
    <3>2. payments' = [payments EXCEPT ![p] = row]
      BY <2>3 DEF SaveResult
    <3>3. GoodPayment(req[r].payRow) /\ req[r].payRow.user = payments[p].user
      BY <1>1, <2>3 DEF RequestOK, SaveResult, At
    <3> QED
      BY <1>1, <3>1, <3>2, <3>3 DEF GoodPayment
  <2> QED
    BY <2>1, <2>2, <2>3
<1>5. TablesOK
  BY <1>1, <1>3, <1>4, OnePaymentWritten
<1>6. /\ RequestOK(r)' /\ req'[r].payment = NoId
      /\ \A q \in Requests \ {r} : req'[q] = req[q]
  BY <1>3, FinishedRequest DEF IInv, TypeOK
<1>7. \A q \in Requests : RequestOK(q)'
  BY <1>5, <1>6, OtherRequests DEF TablesOK
<1>8. \A q \in PaymentId : q # p => payments'[q] = payments[q]
  BY <1>1, <1>4 DEF IInv, TypeOK
<1>9. \A b \in Batches : RunOK(b)'
  BY <1>3, <1>5, <1>6, <1>8, AllRunsWait DEF TablesOK
<1> QED
  BY <1>5, <1>7, <1>9 DEF Consistent, TablesOK

LEMMA SaveSubscriptionStep ==
    ASSUME IInv, NEW r \in Requests, SaveSubscription(r)
    PROVE  Consistent'
<1> DEFINE s == req[r].sub
           row == Edited(req[r].op, req[r].subRow)
<1>1. /\ IsSubOf(s, req[r].user) /\ req[r].op \in SubscriptionOps
      /\ req[r].subRow.user = req[r].user /\ req[r].subRow.status # "NONE"
      /\ req[r].subRow \in SubRow
  BY DEF IInv, Consistent, RequestOK, SaveSubscription, At, TypeOK, Request
<1>2. row.user = req[r].user /\ row.status # "NONE"
  BY <1>1 DEF Edited, SubRow, SubscriptionOps
<1>3. /\ subs' = [subs EXCEPT ![s] = row] /\ Finish(r)
      /\ UNCHANGED <<payments, methods, captured, batch>>
  BY DEF SaveSubscription
<1>4. TablesOK
  BY <1>1, <1>2, <1>3, OneSubWritten DEF IsSubOf
<1>5. /\ RequestOK(r)' /\ req'[r].payment = NoId
      /\ \A q \in Requests \ {r} : req'[q] = req[q]
  BY <1>3, FinishedRequest DEF IInv, TypeOK
<1>6. \A q \in Requests : RequestOK(q)'
  BY <1>4, <1>5, OtherRequests DEF TablesOK
<1>7. \A b \in Batches : RunOK(b)'
  BY <1>3, <1>4, <1>5, AllRunsWait DEF TablesOK
<1> QED
  BY <1>4, <1>6, <1>7 DEF Consistent, TablesOK

-----------------------------------------------------------------------------
(* The two commits.                                                        *)

(* A new default method of u is stored, and the methods of other users are *)
(* left alone, because the transaction only saw methods of u.              *)
LEMMA NewDefault ==
    ASSUME IInv, NEW u \in Users, NEW m \in Fresh(methods), NEW seen,
           \A i \in seen : IsMethodOf(i, u),
           methods' = WithDefault(u, m, seen) \/ methods' = WithOnly(u, m, seen)
    PROVE  /\ MethodsKept /\ IsMethodOf(m, u)' /\ m \in DefaultMethods(u)'
           /\ \A v \in Users \ {u} : DefaultMethods(v) \subseteq DefaultMethods(v)'
           /\ \A i \in MethodId : methods'[i].status # "NONE" => methods'[i].user \in Users
<1>1. m \in MethodId /\ methods[m].status = "NONE"
  BY FreshIds DEF IInv, TypeOK, Fresh
<1>2. methods'[m] = [user |-> u, status |-> "STORED", isDefault |-> TRUE]
  BY <1>1 DEF WithDefault, WithOnly
<1>3. \A i \in MethodId : methods[i] \in MethodRow
  BY DEF IInv, TypeOK
<1>4. \A i \in MethodId \ {m} :
        /\ i \notin seen => methods'[i] = methods[i]
        /\ methods'[i].user = methods[i].user
        /\ methods[i].status # "NONE" <=> methods'[i].status # "NONE"
  <2> SUFFICES ASSUME NEW i \in MethodId \ {m}
               PROVE  /\ i \notin seen => methods'[i] = methods[i]
                      /\ methods'[i].user = methods[i].user
                      /\ methods[i].status # "NONE" <=> methods'[i].status # "NONE"
    OBVIOUS
  <2>1. i \notin seen => methods'[i] = methods[i]
    BY DEF WithDefault, WithOnly
  <2>2. CASE i \in seen
    <3>1. \/ methods'[i] = [methods[i] EXCEPT !.isDefault = FALSE]
          \/ methods'[i] = [methods[i] EXCEPT !.isDefault = FALSE, !.status = "DELETED"]
      BY <2>2 DEF WithDefault, WithOnly
    <3>2. methods[i].status # "NONE"
      BY <2>2 DEF IsMethodOf
    <3> QED
      BY <1>3, <2>2, <3>1, <3>2 DEF MethodRow
  <2> QED
    BY <2>1, <2>2
<1>5. MethodsKept
  BY <1>1, <1>4 DEF MethodsKept
<1>6. IsMethodOf(m, u)' /\ m \in DefaultMethods(u)'
  BY <1>1, <1>2 DEF IsMethodOf, DefaultMethods, StoredMethods
<1>7. ASSUME NEW v \in Users \ {u}, NEW i \in DefaultMethods(v)
      PROVE  i \in DefaultMethods(v)'
  <2>1. i \in MethodId /\ methods[i].user = v /\ methods[i].status = "STORED" /\ methods[i].isDefault
    BY <1>7 DEF DefaultMethods, StoredMethods
  <2>2. i # m /\ i \notin seen
    BY <1>1, <2>1 DEF IsMethodOf
  <2>3. methods'[i] = methods[i]
    BY <1>4, <2>1, <2>2
  <2> QED
    BY <2>1, <2>3 DEF DefaultMethods, StoredMethods
<1>8. \A i \in MethodId : methods'[i].status # "NONE" => methods'[i].user \in Users
  BY <1>2, <1>4 DEF IInv, Consistent, RowsOK
<1> QED
  BY <1>5, <1>6, <1>7, <1>8

(* What both commits do to the tables and to the other callers.            *)
LEMMA CommitStep ==
    ASSUME IInv, NEW r \in Requests, NEW u \in Users, NEW p \in PaymentId,
           NEW s \in SubId, NEW m \in Fresh(methods), NEW t,
           p = req[r].payment, IsPaymentOf(p, u), captured[p],
           \A i \in req[r].seen : IsMethodOf(i, u),
           methods' = WithDefault(u, m, req[r].seen) \/ methods' = WithOnly(u, m, req[r].seen),
           payments' = ApprovedPayment(p, s, m, t),
           \A i \in SubId \ {s} : subs'[i] = subs[i],
           subs[s].status # "NONE" => subs[s].user = u,
           subs'[s].status # "NONE" /\ subs'[s].user = u,
           Finish(r), UNCHANGED <<captured, batch>>
    PROVE  Consistent'
<1>1. /\ MethodsKept /\ IsMethodOf(m, u)' /\ m \in DefaultMethods(u)'
      /\ \A v \in Users \ {u} : DefaultMethods(v) \subseteq DefaultMethods(v)'
      /\ \A i \in MethodId : methods'[i].status # "NONE" => methods'[i].user \in Users
  BY NewDefault, Zenon
<1>2. payments[p] \in PaymentRow /\ DOMAIN payments = PaymentId
  BY DEF IInv, TypeOK
<1>3. /\ payments'[p].user = u /\ payments'[p].sub = s /\ payments'[p].method = m
      /\ payments'[p].status = "APPROVED"
      /\ \A q \in PaymentId \ {p} : payments'[q] = payments[q]
  BY <1>2 DEF ApprovedPayment, PaymentRow, IsPaymentOf
<1>4. SubsKept /\ PaymentsKept
  BY <1>3 DEF SubsKept, PaymentsKept, IsPaymentOf
<1>5. RowsKept
  BY <1>1, <1>4 DEF RowsKept
<1>6. IsSubOf(s, u)'
  BY DEF IsSubOf
<1>7. GoodPayment(payments[p])'
  BY <1>1, <1>3, <1>6 DEF GoodPayment
<1>8. ASSUME NEW q \in PaymentId \ {p}, payments'[q].status # "NONE"
      PROVE  GoodPayment(payments[q])'
  <2>1. PICK copy : payments'[q] = copy /\ GoodPayment(copy)
    BY <1>3, <1>8 DEF IInv, Consistent, RowsOK
  <2>2. GoodPayment(copy)'
    BY <1>5, <2>1, RefsKept
  <2> QED
    BY <2>1, <2>2 DEF GoodPayment
<1>9. RowsOK'
  BY <1>1, <1>7, <1>8 DEF IInv, Consistent, RowsOK
<1>10. ApprovedPaid'
  BY <1>1, <1>3, NoIdIsNoRow DEF IInv, Consistent, ApprovedPaid, IsMethodOf
<1>11. SubscriberHasDefaultMethod'
  <2> SUFFICES ASSUME NEW i \in SubId, subs'[i].status # "NONE"
               PROVE  DefaultMethods(subs[i].user)' # {}
    BY DEF SubscriberHasDefaultMethod
  <2>1. CASE subs'[i].user = u
    <3>1. m \in DefaultMethods(subs[i].user)'
      BY <1>1, <2>1 DEF DefaultMethods, StoredMethods
    <3> QED
      BY <3>1
  <2>2. CASE subs'[i].user # u
    <3>1. subs'[i] = subs[i] /\ subs[i].status # "NONE" /\ subs[i].user \in Users \ {u}
      BY <2>2 DEF IInv, Consistent, RowsOK
    <3>2. DefaultMethods(subs[i].user) # {}
      BY <3>1 DEF IInv, Consistent, SubscriberHasDefaultMethod
    <3>3. PICK k \in DefaultMethods(subs[i].user) : TRUE
      BY <3>2
    <3>4. k \in DefaultMethods(subs[i].user)'
      <4> DEFINE v == subs[i].user
      <4>1. PICK w \in Users \ {u} : w = v /\ w = subs'[i].user
        BY <3>1
      <4>2. k \in DefaultMethods(w)'
        BY <1>1, <3>3, <4>1
      <4> QED
        BY <4>1, <4>2 DEF DefaultMethods, StoredMethods
    <3> QED
      BY <3>4
  <2> QED
    BY <2>1, <2>2
<1>12. /\ RequestOK(r)' /\ req'[r].payment = NoId
       /\ \A q \in Requests \ {r} : req'[q] = req[q]
  BY FinishedRequest DEF IInv, TypeOK
<1>13. \A q \in Requests : RequestOK(q)'
  BY <1>5, <1>12, OtherRequests
<1>14. \A b \in Batches : RunOK(b)'
  BY <1>3, <1>5, <1>12, AllRunsWait
<1> QED
  BY <1>9, <1>10, <1>11, <1>13, <1>14 DEF Consistent

LEMMA ApprovalCommits ==
    ASSUME IInv, NEW r \in Requests, CommitApproval(r) \/ CommitMethodChange(r)
    PROVE  Consistent'
<1> DEFINE u == req[r].user
           p == req[r].payment
<1>1. req[r].pc = "commit" /\ RequestOK(r)
  BY DEF CommitApproval, CommitMethodChange, At, IInv, Consistent
<1>2. /\ u \in Users /\ p \in PaymentId /\ IsPaymentOf(p, u) /\ captured[p]
      /\ \A i \in req[r].seen : IsMethodOf(i, u)
      /\ req[r].op = "approveChange" => IsSubOf(req[r].sub, u)
      /\ req[r].op = "approve" /\ req[r].sub # NoId =>
           IsSubOf(req[r].sub, u) /\ req[r].subRow.user = u
  BY <1>1 DEF RequestOK, Approving, IsPaymentOf
<1>3. CASE CommitApproval(r)
  <2> DEFINE row == IF req[r].sub = NoId THEN NewSub(u, req[r].startedAt + Month)
                    ELSE Activated(req[r].subRow, req[r].startedAt)
  <2>1. PICK m \in Fresh(methods), s \in IF req[r].sub = NoId THEN Fresh(subs) ELSE {req[r].sub} :
          /\ methods' = WithDefault(u, m, req[r].seen)
          /\ subs' = [subs EXCEPT ![s] = row]
          /\ payments' = ApprovedPayment(p, s, m, req[r].paidAt)
    BY <1>3 DEF CommitApproval
  <2>2. req[r].op = "approve" /\ Finish(r) /\ UNCHANGED <<captured, batch>>
    BY <1>3 DEF CommitApproval
  <2>3. s \in SubId /\ (subs[s].status # "NONE" => subs[s].user = u)
    <3>1. CASE req[r].sub = NoId
      BY <2>1, <3>1, FreshIds DEF Fresh, IInv, TypeOK
    <3>2. CASE req[r].sub # NoId
      BY <1>2, <2>1, <2>2, <3>2 DEF IsSubOf
    <3> QED
      BY <3>1, <3>2
  <2>4. row.status # "NONE" /\ row.user = u
    <3>1. NewSub(u, req[r].startedAt + Month).status = "ACTIVE"
          /\ NewSub(u, req[r].startedAt + Month).user = u
      BY DEF NewSub
    <3>2. req[r].subRow \in SubRow
      BY DEF IInv, TypeOK, Request
    <3>3. Activated(req[r].subRow, req[r].startedAt).status = "ACTIVE"
          /\ Activated(req[r].subRow, req[r].startedAt).user = req[r].subRow.user
      BY <3>2 DEF Activated, SubRow
    <3> QED
      BY <1>2, <2>2, <3>1, <3>3
  <2>5. subs'[s] = row /\ \A i \in SubId \ {s} : subs'[i] = subs[i]
    BY <2>1, <2>3 DEF IInv, TypeOK
  <2> QED
    BY <1>2, <2>1, <2>2, <2>3, <2>4, <2>5, CommitStep
<1>4. CASE CommitMethodChange(r)
  <2>1. PICK m \in Fresh(methods) :
          /\ methods' = WithOnly(u, m, req[r].seen)
          /\ payments' = ApprovedPayment(p, req[r].sub, m, req[r].paidAt)
    BY <1>4 DEF CommitMethodChange
  <2>2. /\ req[r].op = "approveChange" /\ Finish(r) /\ UNCHANGED <<subs, captured, batch>>
        /\ IsSubOf(req[r].sub, u)
    BY <1>2, <1>4 DEF CommitMethodChange
  <2> QED
    BY <1>2, <2>1, <2>2, CommitStep DEF IsSubOf
<1> QED
  BY <1>3, <1>4

-----------------------------------------------------------------------------
(* Steps of a billing run that write no table.                             *)

LEMMA QuietRunStep ==
    ASSUME IInv, NEW b \in Batches,
           \/ StartRun(b) \/ EndRun(b) \/ PickCanceled(b)
           \/ Charge(b) \/ ChargeAnswerLost(b) \/ ChargeRefused(b)
           \/ BookkeepingFails(b) \/ LoadRow(b) \/ AbortRun(b)
    PROVE  Consistent'
<1> DEFINE x == batch[b]
<1>1. /\ UNCHANGED tables /\ UNCHANGED req
      /\ \A c \in Batches \ {b} : batch'[c] = batch[c]
  BY DEF StartRun, EndRun, PickCanceled, Charge, ChargeAnswerLost, ChargeRefused,
         BookkeepingFails, LoadRow, AbortRun, IInv, TypeOK
<1>2. \A p \in PaymentId : captured[p] => captured'[p]
  BY DEF StartRun, EndRun, PickCanceled, Charge, ChargeAnswerLost, ChargeRefused,
         BookkeepingFails, LoadRow, AbortRun, IInv, TypeOK
<1>3. RowsKept /\ RowsOK' /\ ApprovedPaid' /\ SubscriberHasDefaultMethod'
  BY <1>1, <1>2, QuietStep
<1>4. /\ RunOK(b) /\ x \in Run /\ batch \in [Batches -> Run] /\ RowsOK
      /\ subs \in [SubId -> SubRow] /\ captured \in [PaymentId -> BOOLEAN]
  BY DEF IInv, Consistent, TypeOK
<1>5. RunOK(b)'
  <2>1. CASE StartRun(b)
    <3>1. batch'[b].pc = "pick" /\ batch'[b].todo = BillingTargets
      BY <1>4, <2>1 DEF StartRun, IdleRun
    <3>2. \A t \in BillingTargets : IsSubOf(t.id, t.row.user)
      BY DEF BillingTargets, DueSubs, IsSubOf
    <3> QED
      BY <1>1, <3>1, <3>2 DEF RunOK, Working, Charging, Paid, IsSubOf, tables
  <2>2. CASE EndRun(b) \/ AbortRun(b)
    <3>1. batch'[b].pc = "idle" /\ batch'[b].todo = {}
      BY <1>4, <2>2 DEF EndRun, AbortRun, IdleRun
    <3> QED
      BY <3>1 DEF RunOK, Working, Charging, Paid
  <2>3. CASE PickCanceled(b)
    <3>1. PICK t \in Earliest(x.todo) :
            batch' = [batch EXCEPT ![b].pc = "complete", ![b].todo = @ \ {t},
                                   ![b].sub = t.id, ![b].snap = t.row]
      BY <2>3 DEF PickCanceled
    <3>2. /\ batch'[b].pc = "complete" /\ batch'[b].todo = x.todo \ {t}
          /\ batch'[b].sub = t.id /\ batch'[b].snap = t.row
      BY <1>4, <3>1 DEF Run
    <3>3. IsSubOf(t.id, t.row.user)
      BY <1>4, <3>1 DEF RunOK, Earliest
    <3> QED
      BY <1>1, <1>4, <3>2, <3>3 DEF RunOK, Working, Charging, Paid, IsSubOf, tables
  <2>4. CASE Charge(b) \/ ChargeAnswerLost(b)
    <3>1. /\ batch'[b].pc \in {"charged", "failed"} /\ batch'[b].todo = x.todo
          /\ batch'[b].sub = x.sub /\ batch'[b].snap = x.snap
          /\ batch'[b].payment = x.payment
      BY <1>4, <2>4 DEF Charge, ChargeAnswerLost, Run
    <3>2. x.pc = "charge" /\ payments[x.payment].method # NoId
      BY <2>4 DEF Charge, ChargeAnswerLost, AtRun
    <3>3. x.payment \in PaymentId /\ captured'[x.payment]
      BY <1>4, <2>4, <3>2 DEF Charge, ChargeAnswerLost, RunOK, Charging, IsPaymentOf
    <3> QED
      BY <1>1, <1>4, <3>1, <3>2, <3>3
      DEF RunOK, Working, BatchPc, Charging, Paid, IsSubOf, IsPaymentOf, Private, Approvable,
          tables
  <2>5. CASE ChargeRefused(b) \/ BookkeepingFails(b)
    <3>1. /\ batch'[b].pc = "failed" /\ batch'[b].todo = x.todo
          /\ batch'[b].sub = x.sub /\ batch'[b].snap = x.snap
          /\ batch'[b].payment = x.payment
      BY <1>4, <2>5 DEF ChargeRefused, BookkeepingFails, Run
    <3>2. x.pc \in {"charge", "charged", "renew", "renewSave"}
      BY <2>5 DEF ChargeRefused, BookkeepingFails, AtRun
    <3> QED
      BY <1>1, <1>4, <3>1, <3>2
      DEF RunOK, Working, BatchPc, Charging, Paid, IsSubOf, IsPaymentOf, Private, Approvable,
          tables
  <2>6. CASE LoadRow(b)
    <3>1. /\ \/ x.pc = "renew" /\ batch'[b].pc = "renewSave"
             \/ x.pc = "record" /\ batch'[b].pc = "recordSave"
             \/ x.pc = "complete" /\ batch'[b].pc = "completeSave"
          /\ batch'[b].todo = x.todo /\ batch'[b].sub = x.sub /\ batch'[b].snap = x.snap
          /\ batch'[b].payment = x.payment /\ batch'[b].row = subs[x.sub]
      BY <1>4, <2>6 DEF LoadRow, Run
    <3>2. IsSubOf(x.sub, x.snap.user)
      BY <1>4, <3>1 DEF RunOK, Working, BatchPc
    <3> QED
      BY <1>1, <1>2, <1>4, <3>1, <3>2
      DEF RunOK, Working, BatchPc, Charging, Paid, IsSubOf, IsPaymentOf, Private, Approvable,
          tables
  <2> QED
    BY <2>1, <2>2, <2>3, <2>4, <2>5, <2>6
<1>6. (\A q \in Requests : RequestOK(q)') /\ \A c \in Batches : RunOK(c)'
  BY <1>1, <1>3, <1>5, OtherCallers DEF tables, Approvable
<1> QED
  BY <1>3, <1>6 DEF Consistent

-----------------------------------------------------------------------------
(* Steps of a run that write a payment.                                    *)

LEMMA PickChargeStep ==
    ASSUME IInv, NEW b \in Batches, PickCharge(b)
    PROVE  Consistent'
<1> DEFINE x == batch[b]
<1>1. /\ RunOK(b) /\ x \in Run /\ batch \in [Batches -> Run]
      /\ payments \in [PaymentId -> PaymentRow] /\ RowsOK
      /\ \A q \in Requests : RequestOK(q) /\ req[q] \in Request
  BY DEF IInv, Consistent, TypeOK
<1>2. PICK t \in Earliest(x.todo), p \in Fresh(payments), m \in MethodId \cup {NoId} :
        /\ m # NoId => m \in DefaultMethods(t.row.user)
        /\ payments' = [payments EXCEPT ![p] = ReadyPayment(t.row.user, t.id, m, ProPlanAmount)]
        /\ batch' = [batch EXCEPT ![b].pc = "charge", ![b].todo = @ \ {t}, ![b].sub = t.id,
                                  ![b].snap = t.row, ![b].payment = p]
  BY DEF PickCharge, DefaultMethods, StoredMethods
<1> DEFINE row == ReadyPayment(t.row.user, t.id, m, ProPlanAmount)
<1>3. p \in PaymentId /\ payments[p].status = "NONE"
  BY <1>1, <1>2, FreshIds DEF Fresh
<1>4. IsSubOf(t.id, t.row.user)
  BY <1>1, <1>2 DEF RunOK, Earliest
<1>5. GoodPayment(row) /\ row.status = "READY" /\ row.user = t.row.user /\ row.sub = t.id
      /\ row.tid = FALSE
  BY <1>1, <1>2, <1>4
  DEF ReadyPayment, GoodPayment, IsSubOf, IsMethodOf, DefaultMethods, StoredMethods, RowsOK
<1>6. UNCHANGED <<methods, subs, captured, req>>
  BY DEF PickCharge
<1>7. TablesOK
  BY <1>2, <1>3, <1>5, <1>6, OnePaymentWritten
<1>8. payments'[p] = row /\ \A q \in PaymentId \ {p} : payments'[q] = payments[q]
  BY <1>1, <1>2, <1>3
<1>9. \A q \in Requests : req[q].payment # p
  BY <1>1, <1>3 DEF RequestOK
<1>10. /\ batch'[b].pc = "charge" /\ batch'[b].todo = x.todo \ {t} /\ batch'[b].sub = t.id
       /\ batch'[b].snap = t.row /\ batch'[b].payment = p
       /\ \A c \in Batches \ {b} : batch'[c] = batch[c]
  BY <1>1, <1>2 DEF Run
<1>11. RunOK(b)'
  <2>1. \A k \in batch'[b].todo : IsSubOf(k.id, k.row.user)'
    BY <1>1, <1>7, <1>10, RefsKept DEF RunOK, TablesOK
  <2>2. IsSubOf(t.id, t.row.user)'
    BY <1>4, <1>7, RefsKept DEF TablesOK
  <2>3. Private(p)'
    BY <1>5, <1>6, <1>8, <1>9 DEF Private, Approvable
  <2>4. IsPaymentOf(p, t.row.user)' /\ payments'[p].sub # NoId
    BY <1>3, <1>4, <1>5, <1>8, NoIdIsNoRow DEF IsPaymentOf, IsSubOf
  <2> QED
    BY <1>10, <2>1, <2>2, <2>3, <2>4 DEF RunOK, Working, Charging, Paid, IsSubOf, IsPaymentOf
<1>12. \A q \in PaymentId : payments[q].status # "NONE" => payments'[q] = payments[q]
  BY <1>3, <1>8
<1>13. (\A q \in Requests : RequestOK(q)') /\ \A c \in Batches : RunOK(c)'
  BY <1>6, <1>7, <1>10, <1>11, <1>12, OtherCallers DEF TablesOK, Approvable
<1> QED
  BY <1>7, <1>13 DEF Consistent, TablesOK

LEMMA MarkPaymentStep ==
    ASSUME IInv, NEW b \in Batches, MarkApproved(b) \/ MarkFailed(b)
    PROVE  Consistent'
<1> DEFINE x == batch[b]
           p == batch[b].payment
<1>1. /\ RunOK(b) /\ x \in Run /\ batch \in [Batches -> Run]
      /\ payments \in [PaymentId -> PaymentRow] /\ RowsOK
  BY DEF IInv, Consistent, TypeOK
<1>2. /\ IsPaymentOf(p, x.snap.user) /\ payments[p].sub # NoId /\ Private(p)
      /\ IsSubOf(x.sub, x.snap.user)
  BY <1>1 DEF RunOK, MarkApproved, MarkFailed, AtRun, Charging, Working, BatchPc
<1>3. p \in PaymentId /\ payments[p] \in PaymentRow /\ GoodPayment(payments[p])
  BY <1>1, <1>2 DEF IsPaymentOf, RowsOK
<1>4. /\ UNCHANGED <<methods, subs, captured, req>>
      /\ \A c \in Batches \ {b} : batch'[c] = batch[c]
      /\ batch'[b].pc \in {"renew", "record"} /\ batch'[b].todo = x.todo
      /\ batch'[b].sub = x.sub /\ batch'[b].snap = x.snap /\ batch'[b].payment = p
  <2>1. PICK pc \in {"renew", "record"} : batch' = [batch EXCEPT ![b].pc = pc]
    BY DEF MarkApproved, MarkFailed
  <2>2. UNCHANGED <<methods, subs, captured, req>>
    BY DEF MarkApproved, MarkFailed
  <2>3. /\ batch'[b] = [x EXCEPT !.pc = pc]
        /\ \A c \in Batches \ {b} : batch'[c] = batch[c]
    BY <1>1, <2>1
  <2>4. /\ batch'[b].pc = pc /\ batch'[b].todo = x.todo
        /\ batch'[b].sub = x.sub /\ batch'[b].snap = x.snap /\ batch'[b].payment = p
    BY <1>1, <2>3 DEF Run
  <2> QED
    BY <2>1, <2>2, <2>3, <2>4
<1>5. batch'[b].pc = "renew" => captured[p] /\ payments[p].method # NoId
  <2>1. CASE x.pc = "charged"
    BY <1>1, <2>1 DEF RunOK, Paid
  <2>2. CASE MarkFailed(b)
    <3>1. batch'[b] = [x EXCEPT !.pc = "record"]
      BY <1>1, <2>2 DEF MarkFailed
    <3> QED
      BY <1>1, <3>1 DEF Run
  <2> QED
    BY <2>1, <2>2 DEF MarkApproved, AtRun
<1>6. PICK row :
        /\ payments' = [payments EXCEPT ![p] = row]
        /\ row.user = payments[p].user /\ row.sub = payments[p].sub
        /\ row.method = payments[p].method /\ row.status \in {"APPROVED", "FAILED"}
        /\ row.status = "APPROVED" => captured[p] /\ row.method # NoId
  <2>1. CASE MarkApproved(b)
    <3> DEFINE row == [payments[p] EXCEPT !.status = "APPROVED", !.tid = TRUE,
                                          !.approvedAt = x.paidAt]
    <3>1. payments' = [payments EXCEPT ![p] = row]
      BY <1>1, <1>3, <2>1 DEF MarkApproved
    <3>2. captured[p] /\ payments[p].method # NoId
      BY <1>1, <2>1 DEF MarkApproved, AtRun, RunOK, Paid
    <3>3. /\ row.user = payments[p].user /\ row.sub = payments[p].sub
          /\ row.method = payments[p].method /\ row.status = "APPROVED"
      BY <1>3 DEF PaymentRow
    <3> QED
      BY <3>1, <3>2, <3>3, Zenon
  <2>2. CASE MarkFailed(b)
    <3> DEFINE row == [payments[p] EXCEPT !.status = "FAILED"]
    <3>1. payments' = [payments EXCEPT ![p] = row]
      BY <2>2 DEF MarkFailed
    <3>2. /\ row.user = payments[p].user /\ row.sub = payments[p].sub
          /\ row.method = payments[p].method /\ row.status = "FAILED"
      BY <1>3 DEF PaymentRow
    <3> QED
      BY <3>1, <3>2
  <2> QED
    BY <2>1, <2>2
<1>7. GoodPayment(row)
  BY <1>3, <1>6 DEF GoodPayment
<1>8. TablesOK
  BY <1>2, <1>3, <1>4, <1>6, <1>7, OnePaymentWritten
<1>9. payments'[p] = row /\ \A q \in PaymentId \ {p} : payments'[q] = payments[q]
  BY <1>1, <1>3, <1>6
<1>10. \A q \in PaymentId : payments[q].status # "NONE" =>
         /\ payments'[q].sub = payments[q].sub
         /\ payments'[q].method = payments[q].method
         /\ Approvable(q)' => Approvable(q)
  BY <1>6, <1>9 DEF Approvable
<1>11. RunOK(b)'
  <2>1. \A k \in batch'[b].todo : IsSubOf(k.id, k.row.user)'
    BY <1>1, <1>4, <1>8, RefsKept DEF RunOK, TablesOK
  <2>2. IsSubOf(x.sub, x.snap.user)' /\ IsPaymentOf(p, x.snap.user)'
    BY <1>2, <1>4, <1>8, RefsKept DEF TablesOK, IsSubOf, IsPaymentOf
  <2>3. Private(p)'
    BY <1>2, <1>4, <1>6, <1>9 DEF Private, Approvable
  <2> QED
    BY <1>2, <1>4, <1>5, <1>6, <1>9, <2>1, <2>2, <2>3
    DEF RunOK, Working, Charging, Paid, IsSubOf, IsPaymentOf
<1>12. (\A q \in Requests : RequestOK(q)') /\ \A c \in Batches : RunOK(c)'
  BY <1>4, <1>8, <1>10, <1>11, OtherCallers DEF TablesOK
<1> QED
  BY <1>8, <1>12 DEF Consistent, TablesOK

-----------------------------------------------------------------------------
(* Steps of a run that save a subscription.                                *)

LEMMA SaveRowStep ==
    ASSUME IInv, NEW b \in Batches,
           SaveRenewal(b) \/ SaveFailure(b) \/ Expire(b) \/ Complete(b)
    PROVE  Consistent'
<1> DEFINE x == batch[b]
           s == batch[b].sub
<1>1. /\ RunOK(b) /\ x \in Run /\ batch \in [Batches -> Run] /\ x.row \in SubRow
  BY DEF IInv, Consistent, TypeOK, Run
<1>2. /\ IsSubOf(s, x.snap.user) /\ x.row.user = x.snap.user /\ x.row.status # "NONE"
  BY <1>1 DEF RunOK, SaveRenewal, SaveFailure, Expire, Complete, AtRun, Working, BatchPc
<1>3. PICK row : /\ subs' = [subs EXCEPT ![s] = row]
                 /\ row.user = x.row.user /\ row.status # "NONE"
  <2>1. CASE SaveRenewal(b)
    <3> DEFINE row == Renewed(x.row, x.snap, x.paidAt)
    <3>1. row.user = x.row.user /\ row.status = "ACTIVE"
      BY <1>1 DEF Renewed, SubRow
    <3> QED
      BY <2>1, <3>1 DEF SaveRenewal
  <2>2. CASE SaveFailure(b)
    <3> DEFINE row == [x.row EXCEPT !.failed = FailedAttempts(b)]
    <3>1. row.user = x.row.user /\ row.status = x.row.status
      BY <1>1 DEF SubRow
    <3> QED
      BY <1>2, <2>2, <3>1 DEF SaveFailure
  <2>3. CASE Expire(b)
    <3> DEFINE row == [x.row EXCEPT !.status = "EXPIRED", !.failed = FailedAttempts(b)]
    <3>1. row.user = x.row.user /\ row.status = "EXPIRED"
      BY <1>1 DEF SubRow
    <3> QED
      BY <2>3, <3>1 DEF Expire
  <2>4. CASE Complete(b)
    <3> DEFINE row == [x.row EXCEPT !.status = "CANCELED", !.isCanceled = FALSE]
    <3>1. row.user = x.row.user /\ row.status = "CANCELED"
      BY <1>1 DEF SubRow
    <3> QED
      BY <2>4, <3>1 DEF Complete
  <2> QED
    BY <2>1, <2>2, <2>3, <2>4
<1>4. NextTarget(b) /\ UNCHANGED <<payments, methods, captured, req>>
  BY DEF SaveRenewal, SaveFailure, Expire, Complete
<1>5. TablesOK
  BY <1>2, <1>3, <1>4, OneSubWritten DEF IsSubOf
<1>6. /\ batch'[b].pc = "pick" /\ batch'[b].todo = x.todo
      /\ \A c \in Batches \ {b} : batch'[c] = batch[c]
  BY <1>1, <1>4 DEF NextTarget, IdleRun
<1>7. RunOK(b)'
  <2>1. \A k \in batch'[b].todo : IsSubOf(k.id, k.row.user)'
    BY <1>1, <1>5, <1>6, RefsKept DEF RunOK, TablesOK
  <2> QED
    BY <1>6, <2>1 DEF RunOK, Working, Charging, Paid
<1>8. (\A q \in Requests : RequestOK(q)') /\ \A c \in Batches : RunOK(c)'
  BY <1>4, <1>5, <1>6, <1>7, OtherCallers DEF TablesOK, Approvable
<1> QED
  BY <1>5, <1>8 DEF Consistent, TablesOK

-----------------------------------------------------------------------------
(* Induction.                                                              *)

LEMMA InitIInv == Init => IInv
<1> SUFFICES ASSUME Init PROVE IInv
  OBVIOUS
<1> USE BillingAssumption
<1>1. TypeOK
  BY InitTypeOK
<1>2. PICK slot \in [Subscribed -> 1..Cardinality(Subscribed)] : InitTables(slot)
  BY DEF Init
<1>3. ASSUME NEW i, Taken(slot, i)
      PROVE  /\ IsSubOf(i, Holder(slot, i)) /\ IsMethodOf(i, Holder(slot, i))
             /\ i \in DefaultMethods(Holder(slot, i)) /\ Holder(slot, i) \in Users
  <2>1. Holder(slot, i) \in Subscribed /\ i \in SubId /\ i \in MethodId
    BY <1>3, HolderIsSubscribed, SlotsAreIds
  <2>2. subs[i] = NewSub(Holder(slot, i), Month) /\ methods[i] = PaidMethod(Holder(slot, i))
    BY <1>2, <1>3, <2>1 DEF InitTables
  <2> QED
    BY <2>1, <2>2
    DEF IsSubOf, IsMethodOf, DefaultMethods, StoredMethods, NewSub, PaidMethod
<1>4. ASSUME NEW p \in PaymentId, payments[p].status # "NONE"
      PROVE  GoodPayment(payments[p]) /\ captured[p] /\ payments[p].method # NoId
             /\ payments[p].sub # NoId
  <2>1. Taken(slot, p) /\ payments[p] = PaidPayment(Holder(slot, p), p) /\ captured[p]
    BY <1>2, <1>4 DEF InitTables, NoPayment
  <2>2. PICK u \in Users : u = Holder(slot, p) /\ IsSubOf(p, u) /\ IsMethodOf(p, u)
    BY <1>3, <2>1
  <2>3. payments[p] = PaidPayment(u, p)
    BY <2>1, <2>2
  <2>4. /\ payments[p].user = u /\ payments[p].sub = p /\ payments[p].method = p
        /\ payments[p].status = "APPROVED"
    BY <2>3 DEF PaidPayment
  <2> QED
    BY <2>1, <2>2, <2>4, NoIdIsNoRow DEF GoodPayment
<1>5. ASSUME NEW s \in SubId, subs[s].status # "NONE"
      PROVE  subs[s].user \in Users /\ DefaultMethods(subs[s].user) # {}
  <2>1. Taken(slot, s) /\ subs[s] = NewSub(Holder(slot, s), Month)
    BY <1>2, <1>5 DEF InitTables, NoSub
  <2>2. subs[s].user = Holder(slot, s)
    BY <2>1 DEF NewSub
  <2> QED
    BY <1>3, <2>1, <2>2
<1>6. ASSUME NEW m \in MethodId, methods[m].status # "NONE"
      PROVE  methods[m].user \in Users
  <2>1. Taken(slot, m) /\ methods[m] = PaidMethod(Holder(slot, m))
    BY <1>2, <1>6 DEF InitTables, NoMethod
  <2>2. methods[m].user = Holder(slot, m)
    BY <2>1 DEF PaidMethod
  <2> QED
    BY <1>3, <2>1, <2>2
<1>7. RowsOK
  BY <1>4, <1>5, <1>6 DEF RowsOK
<1>8. ApprovedPaid
  BY <1>4 DEF ApprovedPaid
<1>9. SubscriberHasDefaultMethod
  BY <1>5 DEF SubscriberHasDefaultMethod
<1>10. \A r \in Requests : RequestOK(r)
  <2>1. \A r \in Requests : req[r].pc = "idle" /\ req[r].payment = NoId /\ req[r].seen = {}
    BY DEF Init, IdleRequest
  <2> QED
    BY <2>1, NoIdIsNoRow DEF RequestOK, Approving
<1>11. \A b \in Batches : RunOK(b)
  <2>1. \A b \in Batches : batch[b].pc = "idle" /\ batch[b].todo = {}
    BY DEF Init, IdleRun
  <2> QED
    BY <2>1 DEF RunOK, Working, Charging, Paid
<1> QED
  BY <1>1, <1>7, <1>8, <1>9, <1>10, <1>11 DEF IInv, Consistent

LEMMA RequestConsistent ==
    ASSUME IInv, NEW r \in Requests, RequestStep(r)
    PROVE  Consistent'
<1>1. ASSUME NEW u \in Users, Ready(r, u) \/ ReadyMethodChange(r, u)
      PROVE  Consistent'
  <2>1. CASE Ready(r, u)
    BY <2>1, InsertReadyStep DEF Ready
  <2>2. CASE ReadyMethodChange(r, u)
    <3>1. PICK s \in ActiveSubs(u) : InsertReady(r, "readyChange", u, s, MethodChangeAmount)
      BY <2>2 DEF ReadyMethodChange
    <3>2. IsSubOf(s, u)
      BY DEF ActiveSubs, IsSubOf
    <3> QED
      BY <3>1, <3>2, InsertReadyStep
  <2> QED
    BY <1>1, <2>1, <2>2
<1> QED
  BY <1>1, QuietRequestStep, PaymentRequestStep, SaveSubscriptionStep, ApprovalCommits
  DEF RequestStep

(* A withdrawal and a tick of the clock leave everything that IInv is      *)
(* about; a restart leaves the tables.                                     *)
LEMMA EnvironmentConsistent ==
    ASSUME IInv, (\E u \in Users : Withdraw(u)) \/ Tick \/ Restart \/ UNCHANGED vars
    PROVE  Consistent'
<1>1. CASE (\E u \in Users : Withdraw(u)) \/ Tick \/ UNCHANGED vars
  <2>1. UNCHANGED <<payments, methods, subs, captured, req, batch>>
    BY <1>1 DEF Withdraw, Tick, vars, tables
  <2>2. RowsKept
    BY <2>1 DEF RowsKept, SubsKept, MethodsKept, PaymentsKept
  <2>3. RowsOK'
    BY <2>1 DEF IInv, Consistent, RowsOK, GoodPayment, IsSubOf, IsMethodOf
  <2>4. ApprovedPaid' /\ SubscriberHasDefaultMethod'
    BY <2>1
    DEF IInv, Consistent, ApprovedPaid, SubscriberHasDefaultMethod, DefaultMethods, StoredMethods
  <2>5. \A r \in Requests : RequestOK(r)'
    BY <2>1, <2>2, WaitingRequest DEF IInv, Consistent
  <2>6. \A b \in Batches : RunOK(b)'
    BY <2>1, <2>2, WaitingRun DEF IInv, Consistent, RunOK, Private, Approvable
  <2> QED
    BY <2>3, <2>4, <2>5, <2>6 DEF Consistent
<1>2. CASE Restart
  <2>1. RowsOK' /\ ApprovedPaid' /\ SubscriberHasDefaultMethod'
    BY <1>2, QuietStep DEF Restart
  <2>2. \A r \in Requests : req'[r].pc = "idle" /\ req'[r].payment = NoId /\ req'[r].seen = {}
    BY <1>2 DEF Restart, IdleRequest
  <2>3. \A r \in Requests : RequestOK(r)'
    BY <2>2, NoIdIsNoRow DEF RequestOK, Approving
  <2>4. \A b \in Batches : batch'[b].pc = "idle" /\ batch'[b].todo = {}
    BY <1>2 DEF Restart, IdleRun
  <2>5. \A b \in Batches : RunOK(b)'
    BY <2>4 DEF RunOK, Working, Charging, Paid
  <2> QED
    BY <2>1, <2>3, <2>5 DEF Consistent
<1> QED
  BY <1>1, <1>2

LEMMA NextIInv == IInv /\ [Next]_vars => IInv'
<1> SUFFICES ASSUME IInv, [Next]_vars PROVE IInv'
  OBVIOUS
<1>1. TypeOK'
  BY NextTypeOK
<1>2. ASSUME NEW r \in Requests, RequestStep(r) PROVE Consistent'
  BY <1>2, RequestConsistent
<1>3. ASSUME NEW b \in Batches, StartRun(b) \/ RunStep(b) PROVE Consistent'
  BY <1>3, QuietRunStep, PickChargeStep, MarkPaymentStep, SaveRowStep DEF RunStep
<1>4. Consistent'
  BY <1>2, <1>3, EnvironmentConsistent DEF Next
<1> QED
  BY <1>1, <1>4 DEF IInv

(* The inductive invariant holds throughout every behaviour.               *)
THEOREM InductiveInvariant == Spec => []IInv
BY InitIInv, NextIInv, PTL DEF Spec

(* The tables, requests and runs keep their types: in particular no save   *)
(* of a loaded entity ever writes something that is not a row.             *)
THEOREM TypeCorrect == Spec => []TypeOK
<1>1. IInv => TypeOK
  BY DEF IInv
<1> QED
  BY <1>1, InductiveInvariant, PTL

(* No interleaving of redirects, billing runs, rollbacks and restarts      *)
(* leaves an APPROVED payment that the provider did not capture or that    *)
(* names somebody else's payment method or subscription                    *)
(* (approveKakaoPayment, approveKakaoMethodChange, billMonthlySubscription)*)
THEOREM ApprovalsAreBacked == Spec => []ApprovedIsBacked
<1>1. IInv => ApprovedIsBacked
  <2> SUFFICES ASSUME IInv, NEW p \in PaymentId, payments[p].status = "APPROVED"
               PROVE  /\ captured[p]
                      /\ payments[p].method # NoId
                      /\ methods[payments[p].method].user = payments[p].user
                      /\ payments[p].sub # NoId
                      /\ subs[payments[p].sub].user = payments[p].user
    BY DEF ApprovedIsBacked
  <2>1. captured[p] /\ payments[p].method # NoId /\ payments[p].sub # NoId
    BY DEF IInv, Consistent, ApprovedPaid
  <2>2. GoodPayment(payments[p])
    BY DEF IInv, Consistent, RowsOK
  <2> QED
    BY <2>1, <2>2 DEF GoodPayment, IsSubOf, IsMethodOf
<1> QED
  BY <1>1, InductiveInvariant, PTL

(* However many approvals and changes of method of one user overlap, a     *)
(* billing run finds a default payment method for every subscription       *)
(* (setDefault, deleteOtherPaymentMethods).                                *)
THEOREM SubscribersKeepDefault == Spec => []SubscriberHasDefaultMethod
<1>1. IInv => SubscriberHasDefaultMethod
  BY DEF IInv, Consistent
<1> QED
  BY <1>1, InductiveInvariant, PTL

-----------------------------------------------------------------------------
(* Whose variables a step moves.                                           *)

LEMMA RequestMoves ==
    ASSUME IInv, NEW r \in Requests, RequestStep(r)
    PROVE  /\ \A q \in Requests \ {r} : req'[q] = req[q]
           /\ UNCHANGED <<batch, now>>
BY DEF RequestStep, Ready, ReadyMethodChange, InsertReady, ReadyAnswered, ReadyRefused,
       Approve, ApproveMethodChange, StartApproval, ProviderApproves, ProviderRefuses,
       ProviderAnswerLost, FindActive, SeeMethods, LoadActive, CommitApproval,
       CommitMethodChange, RollBackApproval, CheckResult, LoadResult, SaveResult,
       FindSubscription, LoadSubscription, SaveSubscription, Finish, IInv, TypeOK

LEMMA RunMoves ==
    ASSUME IInv, NEW b \in Batches, StartRun(b) \/ RunStep(b)
    PROVE  /\ \A c \in Batches \ {b} : batch'[c] = batch[c]
           /\ UNCHANGED <<req, now>>
BY DEF RunStep, StartRun, EndRun, PickCanceled, PickCharge, Charge, ChargeAnswerLost,
       ChargeRefused, MarkApproved, BookkeepingFails, LoadRow, SaveRenewal, MarkFailed,
       SaveFailure, Expire, Complete, AbortRun, NextTarget, IInv, TypeOK

-----------------------------------------------------------------------------
(* Periods: PeriodInv is inductive.                                        *)

LEMMA IdlePeriods ==
    ASSUME NEW n \in Nat
    PROVE  RequestPeriods(IdleRequest, n) /\ RunPeriods(IdleRun, n)
BY BillingAssumption DEF RequestPeriods, RunPeriods, IdleRequest, IdleRun, NoSub

(* A request that begins or ends holds no copy and no time.                *)
Blank(q) == q.startedAt = 0 /\ q.paidAt = 0 /\ q.subRow = NoSub

LEMMA BlankRequest ==
    ASSUME req \in [Requests -> Request], NEW r \in Requests,
           \/ \E u \in Users : Ready(r, u) \/ ReadyMethodChange(r, u)
           \/ \E p \in PaymentId : Approve(r, p) \/ ApproveMethodChange(r, p)
           \/ \E op \in {"cancel", "fail"}, p \in PaymentId : CheckResult(r, op, p)
           \/ \E op \in SubscriptionOps, u \in Users : FindSubscription(r, op, u)
           \/ Finish(r)
    PROVE  Blank(req'[r])
<1>1. ASSUME NEW op, NEW u, NEW s, NEW a, InsertReady(r, op, u, s, a)
      PROVE  Blank(req'[r])
  <2>1. PICK p : req' = [req EXCEPT ![r] = [IdleRequest EXCEPT !.op = op, !.pc = "ready",
                                                               !.user = u, !.payment = p]]
    BY <1>1 DEF InsertReady
  <2> QED
    BY <2>1 DEF Blank, IdleRequest
<1>2. ASSUME NEW op, NEW p, StartApproval(r, op, p)
      PROVE  Blank(req'[r])
  BY <1>2 DEF StartApproval, Blank, IdleRequest
<1>3. ASSUME NEW op, NEW p, CheckResult(r, op, p)
      PROVE  Blank(req'[r])
  BY <1>3 DEF CheckResult, Blank, IdleRequest
<1>4. ASSUME NEW op, NEW u, FindSubscription(r, op, u)
      PROVE  Blank(req'[r])
  <2>1. PICK s : req' = [req EXCEPT ![r] = [IdleRequest EXCEPT !.op = op, !.pc = "subLoad",
                                                               !.user = u, !.sub = s]]
    BY <1>4 DEF FindSubscription
  <2> QED
    BY <2>1 DEF Blank, IdleRequest
<1>5. CASE Finish(r)
  BY <1>5 DEF Finish, Blank, IdleRequest
<1> QED
  BY <1>1, <1>2, <1>3, <1>4, <1>5
  DEF Ready, ReadyMethodChange, Approve, ApproveMethodChange

(* What a request holds ends a month from now at most, and so does what it *)
(* saves.                                                                  *)
LEMMA RequestPeriod ==
    ASSUME IInv, PeriodInv, NEW r \in Requests, RequestStep(r)
    PROVE  RequestPeriods(req'[r], now) /\ \A s \in SubId : subs'[s].periodEnd <= now + Month
<1> DEFINE q == req[r]
<1>1. /\ req \in [Requests -> Request] /\ q \in Request /\ now \in Nat
      /\ subs \in [SubId -> SubRow] /\ q.subRow \in SubRow /\ Month \in Nat
      /\ q.startedAt \in Nat
  BY BillingAssumption DEF IInv, TypeOK, Request
<1>2. RequestPeriods(q, now) /\ RequestOK(r) /\ \A s \in SubId : subs[s].periodEnd <= now + Month
  BY DEF PeriodInv, PeriodBounded, IInv, Consistent
<1>3. ASSUME Blank(req'[r])
      PROVE  RequestPeriods(req'[r], now)
  BY <1>1, <1>3 DEF Blank, RequestPeriods, NoSub
<1>4. CASE ProviderApproves(r) \/ SeeMethods(r) \/ LoadResult(r)
  <2>1. /\ req'[r].startedAt = q.startedAt /\ req'[r].subRow = q.subRow
        /\ req'[r].paidAt \in {q.paidAt, now} /\ subs' = subs
    BY <1>1, <1>4 DEF ProviderApproves, SeeMethods, LoadResult, tables, Request
  <2> QED
    BY <1>1, <1>2, <2>1 DEF RequestPeriods
<1>5. CASE FindActive(r)
  <2>1. PICK s : req' = [req EXCEPT ![r].pc = IF s = NoId THEN "commit" ELSE "load", ![r].sub = s,
                           ![r].startedAt = now, ![r].seen = StoredMethods(req[r].user)]
    BY <1>5, Zenon DEF FindActive
  <2>2. /\ req'[r].startedAt = now /\ req'[r].subRow = q.subRow /\ req'[r].paidAt = q.paidAt
    BY <1>1, <2>1 DEF Request
  <2>3. subs' = subs
    BY <1>5 DEF FindActive, tables
  <2> QED
    BY <1>1, <1>2, <2>2, <2>3 DEF RequestPeriods
<1>6. CASE LoadActive(r) \/ LoadSubscription(r)
  <2>1. /\ req'[r].startedAt = q.startedAt /\ req'[r].subRow = subs[q.sub]
        /\ req'[r].paidAt = q.paidAt /\ subs' = subs
    BY <1>1, <1>6 DEF LoadActive, LoadSubscription, tables, Request
  <2>2. q.sub \in SubId
    BY <1>2, <1>6 DEF LoadActive, LoadSubscription, At, RequestOK, IsSubOf
  <2> QED
    BY <1>1, <1>2, <2>1, <2>2 DEF RequestPeriods
<1>7. CASE CommitApproval(r)
  <2> DEFINE row == IF q.sub = NoId THEN NewSub(q.user, q.startedAt + Month)
                    ELSE Activated(q.subRow, q.startedAt)
  <2>1. PICK s : subs' = [subs EXCEPT ![s] = row]
    BY <1>7 DEF CommitApproval
  <2>2. row.periodEnd = q.startedAt + Month
    BY <1>1 DEF NewSub, Activated, SubRow
  <2>3. q.startedAt + Month <= now + Month
    BY <1>1, <1>2 DEF RequestPeriods
  <2> HIDE DEF row
  <2>4. \A i \in SubId : subs'[i] \in {subs[i], row}
    BY <1>1, <2>1
  <2>5. Finish(r)
    BY <1>7 DEF CommitApproval
  <2> QED
    BY <1>1, <1>2, <1>3, <2>2, <2>3, <2>4, <2>5, BlankRequest
<1>8. CASE SaveSubscription(r)
  <2> DEFINE row == Edited(q.op, q.subRow)
  <2>1. subs' = [subs EXCEPT ![q.sub] = row] /\ q.op \in SubscriptionOps
    BY <1>2, <1>8 DEF SaveSubscription, At, RequestOK
  <2>2. row.periodEnd = q.subRow.periodEnd
    BY <1>1, <2>1 DEF Edited, SubRow, SubscriptionOps
  <2> HIDE DEF row
  <2>3. \A i \in SubId : subs'[i] \in {subs[i], row}
    BY <1>1, <2>1
  <2>4. row.periodEnd <= now + Month
    BY <1>2, <2>2 DEF RequestPeriods
  <2>5. Finish(r)
    BY <1>8 DEF SaveSubscription
  <2> QED
    BY <1>1, <1>2, <1>3, <2>3, <2>4, <2>5, BlankRequest
<1>9. CASE \/ ReadyAnswered(r) \/ ReadyRefused(r) \/ ProviderRefuses(r)
           \/ ProviderAnswerLost(r) \/ RollBackApproval(r) \/ SaveResult(r)
           \/ CommitMethodChange(r)
  <2>1. Finish(r) /\ subs' = subs
    BY <1>9
    DEF ReadyAnswered, ReadyRefused, ProviderRefuses, ProviderAnswerLost, RollBackApproval,
        SaveResult, CommitMethodChange, tables
  <2> QED
    BY <1>1, <1>2, <1>3, <2>1, BlankRequest
<1>10. CASE \/ \E u \in Users : Ready(r, u) \/ ReadyMethodChange(r, u)
            \/ \E p \in PaymentId : Approve(r, p) \/ ApproveMethodChange(r, p)
            \/ \E op \in {"cancel", "fail"}, p \in PaymentId : CheckResult(r, op, p)
            \/ \E op \in SubscriptionOps, u \in Users : FindSubscription(r, op, u)
  <2>1. subs' = subs
    BY <1>10
    DEF Ready, ReadyMethodChange, InsertReady, Approve, ApproveMethodChange, StartApproval,
        CheckResult, FindSubscription, tables
  <2> QED
    BY <1>1, <1>2, <1>3, <1>10, <2>1, BlankRequest
<1> QED
  BY <1>4, <1>5, <1>6, <1>7, <1>8, <1>9, <1>10 DEF RequestStep

(* Likewise for a run, whose targets were due when it read them.           *)
LEMMA RunPeriod ==
    ASSUME IInv, PeriodInv, NEW b \in Batches, StartRun(b) \/ RunStep(b)
    PROVE  RunPeriods(batch'[b], now) /\ \A s \in SubId : subs'[s].periodEnd <= now + Month
<1> DEFINE x == batch[b]
<1>1. /\ batch \in [Batches -> Run] /\ x \in Run /\ now \in Nat
      /\ subs \in [SubId -> SubRow] /\ x.row \in SubRow /\ x.snap \in SubRow /\ Month \in Nat
      /\ x.paidAt \in Nat /\ x.todo \subseteq Target
  BY BillingAssumption DEF IInv, TypeOK, Run
<1>2. RunPeriods(x, now) /\ RunOK(b) /\ \A s \in SubId : subs[s].periodEnd <= now + Month
  BY DEF PeriodInv, PeriodBounded, IInv, Consistent
<1>3. ASSUME NextTarget(b) PROVE RunPeriods(batch'[b], now)
  <2>1. /\ batch'[b].paidAt = 0 /\ batch'[b].snap = NoSub /\ batch'[b].row = NoSub
        /\ batch'[b].todo = x.todo
    BY <1>1, <1>3 DEF NextTarget, IdleRun
  <2> QED
    BY <1>1, <1>2, <2>1 DEF RunPeriods, NoSub
<1>4. ASSUME NEW row, subs' = [subs EXCEPT ![x.sub] = row], row.periodEnd <= now + Month
      PROVE  \A s \in SubId : subs'[s].periodEnd <= now + Month
  <2>1. \A s \in SubId : subs'[s] \in {subs[s], row}
    BY <1>1, <1>4
  <2> QED
    BY <1>2, <1>4, <2>1
<1>5. CASE StartRun(b)
  <2>1. /\ batch'[b].paidAt = 0 /\ batch'[b].snap = NoSub /\ batch'[b].row = NoSub
        /\ batch'[b].todo = BillingTargets /\ subs' = subs
    BY <1>1, <1>5 DEF StartRun, IdleRun, tables
  <2>2. \A t \in BillingTargets : t.row.periodEnd <= now
    BY DEF BillingTargets, DueSubs
  <2> QED
    BY <1>1, <1>2, <2>1, <2>2 DEF RunPeriods, NoSub
<1>6. CASE EndRun(b) \/ AbortRun(b)
  <2>1. batch'[b] = IdleRun /\ subs' = subs
    BY <1>1, <1>6 DEF EndRun, AbortRun, tables
  <2> QED
    BY <1>1, <1>2, <2>1, IdlePeriods
<1>7. CASE PickCanceled(b)
  <2>1. PICK t \in x.todo :
          batch' = [batch EXCEPT ![b].pc = "complete", ![b].todo = @ \ {t},
                                 ![b].sub = t.id, ![b].snap = t.row]
    BY <1>7 DEF PickCanceled, Earliest
  <2>2. /\ batch'[b].paidAt = x.paidAt /\ batch'[b].snap = t.row /\ batch'[b].row = x.row
        /\ batch'[b].todo \subseteq x.todo
    BY <1>1, <2>1 DEF Run
  <2>3. subs' = subs
    BY <1>7 DEF PickCanceled, tables
  <2> QED
    BY <1>2, <2>1, <2>2, <2>3 DEF RunPeriods
<1>8. CASE PickCharge(b)
  <2>1. PICK t \in x.todo, p \in Fresh(payments) :
          batch' = [batch EXCEPT ![b].pc = "charge", ![b].todo = @ \ {t}, ![b].sub = t.id,
                                 ![b].snap = t.row, ![b].payment = p]
    BY <1>8 DEF PickCharge, Earliest
  <2>2. /\ batch'[b].paidAt = x.paidAt /\ batch'[b].snap = t.row /\ batch'[b].row = x.row
        /\ batch'[b].todo \subseteq x.todo
    BY <1>1, <2>1 DEF Run
  <2>3. subs' = subs
    BY <1>8 DEF PickCharge
  <2> QED
    BY <1>2, <2>1, <2>2, <2>3 DEF RunPeriods
<1>9. CASE \/ Charge(b) \/ ChargeAnswerLost(b) \/ ChargeRefused(b)
           \/ MarkApproved(b) \/ BookkeepingFails(b) \/ MarkFailed(b)
  <2>1. /\ batch'[b].paidAt \in {x.paidAt, now} /\ batch'[b].snap = x.snap
        /\ batch'[b].row = x.row /\ batch'[b].todo = x.todo
    BY <1>1, <1>9
    DEF Charge, ChargeAnswerLost, ChargeRefused, MarkApproved, BookkeepingFails, MarkFailed, Run
  <2>2. subs' = subs
    BY <1>9
    DEF Charge, ChargeAnswerLost, ChargeRefused, MarkApproved, BookkeepingFails, MarkFailed,
        tables
  <2> QED
    BY <1>1, <1>2, <2>1, <2>2 DEF RunPeriods
<1>10. CASE LoadRow(b)
  <2>1. /\ batch'[b].paidAt = x.paidAt /\ batch'[b].snap = x.snap
        /\ batch'[b].row = subs[x.sub] /\ batch'[b].todo = x.todo /\ subs' = subs
    BY <1>1, <1>10 DEF LoadRow, tables, Run
  <2>2. x.sub \in SubId
    BY <1>2, <1>10 DEF LoadRow, RunOK, Working, BatchPc, IsSubOf
  <2> QED
    BY <1>2, <2>1, <2>2 DEF RunPeriods
<1>11. CASE SaveRenewal(b)
  <2> DEFINE row == Renewed(x.row, x.snap, x.paidAt)
  <2>1. subs' = [subs EXCEPT ![x.sub] = row] /\ NextTarget(b)
    BY <1>11 DEF SaveRenewal
  <2>2. row.periodEnd = RenewalBase(x.snap, x.paidAt) + Month
    BY <1>1 DEF Renewed, SubRow
  <2>3. RenewalBase(x.snap, x.paidAt) <= now /\ RenewalBase(x.snap, x.paidAt) \in Nat
    BY <1>1, <1>2 DEF RenewalBase, RunPeriods, SubRow
  <2> HIDE DEF row
  <2>4. row.periodEnd <= now + Month
    BY <1>1, <2>2, <2>3
  <2> QED
    BY <1>3, <1>4, <2>1, <2>4
<1>12. CASE SaveFailure(b) \/ Expire(b) \/ Complete(b)
  <2>1. PICK row : subs' = [subs EXCEPT ![x.sub] = row] /\ row.periodEnd = x.row.periodEnd
    <3>1. CASE SaveFailure(b)
      <4> DEFINE row == [x.row EXCEPT !.failed = FailedAttempts(b)]
      <4>1. row.periodEnd = x.row.periodEnd
        BY <1>1 DEF SubRow
      <4> QED
        BY <3>1, <4>1 DEF SaveFailure
    <3>2. CASE Expire(b)
      <4> DEFINE row == [x.row EXCEPT !.status = "EXPIRED", !.failed = FailedAttempts(b)]
      <4>1. row.periodEnd = x.row.periodEnd
        BY <1>1 DEF SubRow
      <4> QED
        BY <3>2, <4>1 DEF Expire
    <3>3. CASE Complete(b)
      <4> DEFINE row == [x.row EXCEPT !.status = "CANCELED", !.isCanceled = FALSE]
      <4>1. row.periodEnd = x.row.periodEnd
        BY <1>1 DEF SubRow
      <4> QED
        BY <3>3, <4>1 DEF Complete
    <3> QED
      BY <1>12, <3>1, <3>2, <3>3
  <2>2. NextTarget(b)
    BY <1>12 DEF SaveFailure, Expire, Complete
  <2>3. row.periodEnd <= now + Month
    BY <1>2, <2>1 DEF RunPeriods
  <2> QED
    BY <1>3, <1>4, <2>1, <2>2, <2>3
<1> QED
  BY <1>5, <1>6, <1>7, <1>8, <1>9, <1>10, <1>11, <1>12 DEF RunStep

LEMMA PeriodNext == IInv /\ PeriodInv /\ [Next]_vars => PeriodInv'
<1> SUFFICES ASSUME IInv, PeriodInv, [Next]_vars PROVE PeriodInv'
  OBVIOUS
<1>1. ASSUME NEW r \in Requests, RequestStep(r) PROVE PeriodInv'
  BY <1>1, RequestPeriod, RequestMoves DEF PeriodInv, PeriodBounded
<1>2. ASSUME NEW b \in Batches, StartRun(b) \/ RunStep(b) PROVE PeriodInv'
  BY <1>2, RunPeriod, RunMoves DEF PeriodInv, PeriodBounded
<1>3. CASE (\E u \in Users : Withdraw(u)) \/ UNCHANGED vars
  <2>1. UNCHANGED <<subs, req, batch, now>>
    BY <1>3 DEF Withdraw, vars
  <2> QED
    BY <2>1 DEF PeriodInv, PeriodBounded
<1>4. CASE Tick
  <2>1. now' = now + 1 /\ UNCHANGED <<subs, req, batch>>
    BY <1>4 DEF Tick, tables
  <2>2. /\ now \in Nat /\ Month \in Nat /\ subs \in [SubId -> SubRow]
        /\ req \in [Requests -> Request] /\ batch \in [Batches -> Run]
    BY BillingAssumption DEF IInv, TypeOK
  <2>3. ASSUME NEW q \in Request, RequestPeriods(q, now)
        PROVE  RequestPeriods(q, now + 1)
    BY <2>2, <2>3 DEF RequestPeriods, Request, SubRow
  <2>4. ASSUME NEW x \in Run, RunPeriods(x, now)
        PROVE  RunPeriods(x, now + 1)
    <3>1. x.paidAt \in Nat /\ x.snap.periodEnd \in Nat /\ x.row.periodEnd \in Nat
      BY DEF Run, SubRow
    <3>2. \A t \in x.todo : t.row.periodEnd \in Nat
      BY DEF Run, Target, SubRow
    <3> QED
      BY <2>2, <2>4, <3>1, <3>2 DEF RunPeriods
  <2>5. PeriodBounded'
    BY <2>1, <2>2 DEF PeriodInv, PeriodBounded, SubRow
  <2> QED
    BY <2>1, <2>2, <2>3, <2>4, <2>5 DEF PeriodInv
<1>5. CASE Restart
  <2>1. /\ UNCHANGED <<subs, now>> /\ now \in Nat
        /\ \A r \in Requests : req'[r] = IdleRequest
        /\ \A b \in Batches : batch'[b] = IdleRun
    BY <1>5 DEF Restart, tables, IInv, TypeOK
  <2> QED
    BY <2>1, IdlePeriods DEF PeriodInv, PeriodBounded
<1> QED
  BY <1>1, <1>2, <1>3, <1>4, <1>5 DEF Next

LEMMA PeriodInit == Init => PeriodInv
<1> SUFFICES ASSUME Init PROVE PeriodInv
  OBVIOUS
<1>1. Month \in Nat /\ now = 0
  BY BillingAssumption DEF Init
<1>2. \A s \in SubId : subs[s].periodEnd \in {0, Month}
  BY DEF Init, InitTables, NewSub, NoSub
<1>3. PeriodBounded
  BY <1>1, <1>2 DEF PeriodBounded
<1> QED
  BY <1>1, <1>3, IdlePeriods DEF Init, PeriodInv

(* Nobody is entitled beyond one period from now: neither overlapping runs *)
(* nor an activation besides a renewal add periods up                      *)
(* (activateMonthlyProSubscription, getRenewalBaseDate).                   *)
THEOREM PeriodsAreBounded == Spec => []PeriodBounded
<1>1. Spec => []PeriodInv
  BY InductiveInvariant, PeriodInit, PeriodNext, PTL DEF Spec
<1>2. PeriodInv => PeriodBounded
  BY DEF PeriodInv
<1> QED
  BY <1>1, <1>2, PTL

-----------------------------------------------------------------------------
(* What steps write in payments.                                           *)

(* The owner and the amount of a payment are for ever, and a request       *)
(* writes no payment but its own.                                          *)
LEMMA RequestPayments ==
    ASSUME IInv, PaidInv, NEW r \in Requests, RequestStep(r), NEW p \in PaymentId
    PROVE  /\ payments[p].status # "NONE" =>
                /\ payments'[p].user = payments[p].user
                /\ payments'[p].amount = payments[p].amount
                /\ payments'[p].status # "NONE"
                /\ p # req[r].payment => payments'[p] = payments[p]
           /\ captured[p] => captured'[p]
<1>1. /\ payments \in [PaymentId -> PaymentRow] /\ captured \in [PaymentId -> BOOLEAN]
      /\ RequestOK(r) /\ RequestPays(r) /\ req[r].payRow \in PaymentRow /\ RowsOK
  BY DEF IInv, Consistent, TypeOK, PaidInv, Request
<1>2. captured[p] => captured'[p]
  BY <1>1
  DEF RequestStep, Ready, ReadyMethodChange, InsertReady, ReadyAnswered, ReadyRefused,
      Approve, ApproveMethodChange, StartApproval, ProviderApproves, ProviderRefuses,
      ProviderAnswerLost, FindActive, SeeMethods, LoadActive, CommitApproval,
      CommitMethodChange, RollBackApproval, CheckResult, LoadResult, SaveResult,
      FindSubscription, LoadSubscription, SaveSubscription
<1>3. ASSUME NEW op, NEW u, NEW s, NEW a, InsertReady(r, op, u, s, a),
             payments[p].status # "NONE"
      PROVE  payments'[p] = payments[p]
  <2>1. PICK i \in Fresh(payments) :
          payments' = [payments EXCEPT ![i] = ReadyPayment(u, s, NoId, a)]
    BY <1>3 DEF InsertReady
  <2>2. payments[i].status = "NONE"
    BY DEF Fresh
  <2> QED
    BY <1>1, <1>3, <2>1, <2>2
<1>4. ASSUME NEW row \in PaymentRow, payments' = [payments EXCEPT ![req[r].payment] = row],
             row.user = payments[req[r].payment].user,
             row.amount = payments[req[r].payment].amount, row.status # "NONE",
             payments[p].status # "NONE"
      PROVE  /\ payments'[p].user = payments[p].user
             /\ payments'[p].amount = payments[p].amount
             /\ payments'[p].status # "NONE"
             /\ p # req[r].payment => payments'[p] = payments[p]
  BY <1>1, <1>4
<1>5. CASE payments' = payments
  BY <1>2, <1>5
<1>6. CASE ReadyAnswered(r)
  <2> DEFINE row == [payments[req[r].payment] EXCEPT !.tid = TRUE]
  <2>1. req[r].payment \in PaymentId /\ payments[req[r].payment].status # "NONE"
    BY <1>1, <1>6 DEF ReadyAnswered, At, RequestOK
  <2>2. /\ row \in PaymentRow /\ row.user = payments[req[r].payment].user
        /\ row.amount = payments[req[r].payment].amount
        /\ row.status = payments[req[r].payment].status
    BY <1>1, <2>1 DEF PaymentRow
  <2>3. payments' = [payments EXCEPT ![req[r].payment] = row]
    BY <1>1, <1>6, <2>1 DEF ReadyAnswered
  <2> HIDE DEF row
  <2> QED
    BY <1>2, <1>4, <2>1, <2>2, <2>3
<1>7. CASE ReadyRefused(r)
  <2> DEFINE row == [payments[req[r].payment] EXCEPT !.status = "FAILED"]
  <2>1. req[r].payment \in PaymentId /\ payments[req[r].payment].status # "NONE"
    BY <1>1, <1>7 DEF ReadyRefused, At, RequestOK
  <2>2. /\ row \in PaymentRow /\ row.user = payments[req[r].payment].user
        /\ row.amount = payments[req[r].payment].amount /\ row.status = "FAILED"
    BY <1>1, <2>1 DEF PaymentRow
  <2>3. payments' = [payments EXCEPT ![req[r].payment] = row]
    BY <1>1, <1>7, <2>1 DEF ReadyRefused
  <2> HIDE DEF row
  <2> QED
    BY <1>2, <1>4, <2>2, <2>3
<1>8. CASE SaveResult(r)
  <2> DEFINE row == [req[r].payRow EXCEPT !.status = ResultStatus(req[r].op)]
  <2>1. /\ req[r].payRow.user = payments[req[r].payment].user
        /\ req[r].payRow.amount = payments[req[r].payment].amount
    BY <1>1, <1>8 DEF SaveResult, At, RequestOK, RequestPays
  <2>2. ResultStatus(req[r].op) \in {"CANCELED", "FAILED"}
    BY DEF ResultStatus
  <2>3. /\ row \in PaymentRow /\ row.user = req[r].payRow.user
        /\ row.amount = req[r].payRow.amount /\ row.status \in {"CANCELED", "FAILED"}
    BY <1>1, <2>2 DEF PaymentRow
  <2>4. payments' = [payments EXCEPT ![req[r].payment] = row]
    BY <1>8 DEF SaveResult
  <2> HIDE DEF row
  <2> QED
    BY <1>2, <1>4, <2>1, <2>3, <2>4
<1>9. CASE CommitApproval(r) \/ CommitMethodChange(r)
  <2>1. PICK s, m, t : payments' = ApprovedPayment(req[r].payment, s, m, t)
    BY <1>9 DEF CommitApproval, CommitMethodChange
  <2>2. req[r].payment \in PaymentId
    BY <1>1, <1>9 DEF CommitApproval, CommitMethodChange, At, RequestOK, Approving, IsPaymentOf
  <2> QED
    BY <1>1, <1>2, <2>1, <2>2 DEF ApprovedPayment, PaymentRow
<1>10. CASE \E u \in Users : Ready(r, u) \/ ReadyMethodChange(r, u)
  BY <1>2, <1>3, <1>10 DEF Ready, ReadyMethodChange
<1>11. \/ payments' = payments
       \/ ReadyAnswered(r) \/ ReadyRefused(r) \/ SaveResult(r)
       \/ CommitApproval(r) \/ CommitMethodChange(r)
       \/ \E u \in Users : Ready(r, u) \/ ReadyMethodChange(r, u)
  BY DEF RequestStep, Approve, ApproveMethodChange, StartApproval, ProviderApproves,
         ProviderRefuses, ProviderAnswerLost, FindActive, SeeMethods, LoadActive,
         RollBackApproval, CheckResult, LoadResult, FindSubscription, LoadSubscription,
         SaveSubscription, tables
<1> QED
  BY <1>5, <1>6, <1>7, <1>8, <1>9, <1>10, <1>11

(* Nor does a run, which does not change what its payment is for either.   *)
LEMMA RunPayments ==
    ASSUME IInv, NEW b \in Batches, StartRun(b) \/ RunStep(b), NEW p \in PaymentId
    PROVE  /\ payments[p].status # "NONE" =>
                /\ payments'[p].user = payments[p].user
                /\ payments'[p].amount = payments[p].amount
                /\ payments'[p].sub = payments[p].sub
                /\ payments'[p].status # "NONE"
                /\ \/ p = batch[b].payment /\ (MarkApproved(b) \/ MarkFailed(b))
                   \/ payments'[p] = payments[p]
           /\ captured[p] => captured'[p]
<1>1. /\ payments \in [PaymentId -> PaymentRow] /\ captured \in [PaymentId -> BOOLEAN]
      /\ RunOK(b)
  BY DEF IInv, Consistent, TypeOK
<1>2. captured[p] => captured'[p]
  BY <1>1
  DEF RunStep, StartRun, EndRun, PickCanceled, PickCharge, Charge, ChargeAnswerLost,
      ChargeRefused, MarkApproved, BookkeepingFails, LoadRow, SaveRenewal, MarkFailed,
      SaveFailure, Expire, Complete, AbortRun, tables
<1>3. CASE PickCharge(b)
  <2>1. PICK i \in Fresh(payments) : \E row : payments' = [payments EXCEPT ![i] = row]
    BY <1>3 DEF PickCharge
  <2>2. payments[i].status = "NONE"
    BY DEF Fresh
  <2> QED
    BY <1>1, <1>2, <2>1, <2>2
<1>4. CASE MarkApproved(b)
  BY <1>1, <1>2, <1>4 DEF MarkApproved, PaymentRow
<1>5. CASE MarkFailed(b)
  BY <1>1, <1>2, <1>5 DEF MarkFailed, PaymentRow
<1>6. CASE payments' = payments
  BY <1>2, <1>6
<1>7. payments' = payments \/ PickCharge(b) \/ MarkApproved(b) \/ MarkFailed(b)
  BY DEF RunStep, StartRun, EndRun, PickCanceled, Charge, ChargeAnswerLost, ChargeRefused,
         BookkeepingFails, LoadRow, SaveRenewal, SaveFailure, Expire, Complete, AbortRun, tables
<1> QED
  BY <1>3, <1>4, <1>5, <1>6, <1>7

-----------------------------------------------------------------------------
(* Who has paid: PaidInv is inductive.                                     *)

(* What was paid stays paid, and whoever waits keeps what it knows.        *)
LEMMA PaymentsRemain ==
    ASSUME IInv, PaidInv,
           \A p \in PaymentId :
             /\ payments[p].status # "NONE" =>
                  /\ payments'[p].user = payments[p].user
                  /\ payments'[p].amount = payments[p].amount
                  /\ payments'[p].status # "NONE"
             /\ captured[p] => captured'[p]
    PROVE  /\ \A u \in Users : HasPaid(u) => HasPaid(u)'
           /\ \A r \in Requests : req'[r] = req[r] => RequestPays(r)'
<1>1. \A u \in Users : HasPaid(u) => HasPaid(u)'
  BY DEF HasPaid, IsPaymentOf
<1>2. ASSUME NEW r \in Requests, req'[r] = req[r]
      PROVE  RequestPays(r)'
  <2>1. RequestOK(r) /\ RequestPays(r)
    BY DEF IInv, Consistent, PaidInv
  <2>2. req[r].pc \in Approving \cup {"resultSave"} =>
          req[r].payment \in PaymentId /\ payments[req[r].payment].status # "NONE"
    BY <2>1 DEF RequestOK, Approving, IsPaymentOf
  <2> QED
    BY <1>2, <2>1, <2>2 DEF RequestPays
<1> QED
  BY <1>1, <1>2

LEMMA RequestPaysNext ==
    ASSUME IInv, PaidInv, NEW r \in Requests, RequestStep(r)
    PROVE  RequestPays(r)'
<1> DEFINE q == req[r]
<1>1. /\ req \in [Requests -> Request] /\ q \in Request /\ RequestOK(r) /\ RequestPays(r)
      /\ payments \in [PaymentId -> PaymentRow]
  BY DEF IInv, Consistent, TypeOK, PaidInv
<1>2. ASSUME req'[r].pc \notin Approving \cup {"resultSave"}
      PROVE  RequestPays(r)'
  BY <1>2 DEF RequestPays
<1>3. ASSUME Finish(r) PROVE RequestPays(r)'
  BY <1>1, <1>2, <1>3 DEF Finish, IdleRequest, Approving
<1>4. ASSUME NEW op, NEW u, NEW s, NEW a, InsertReady(r, op, u, s, a)
      PROVE  RequestPays(r)'
  <2>1. PICK p : req' = [req EXCEPT ![r] = [IdleRequest EXCEPT !.op = op, !.pc = "ready",
                                                               !.user = u, !.payment = p]]
    BY <1>4 DEF InsertReady
  <2>2. req'[r].pc = "ready"
    BY <1>1, <2>1 DEF IdleRequest
  <2> QED
    BY <1>2, <2>2 DEF Approving
<1>5. ASSUME NEW p \in PaymentId, Approve(r, p)
      PROVE  RequestPays(r)'
  <2>1. /\ req'[r].pc = "provider" /\ req'[r].payment = p /\ payments' = payments
    BY <1>1, <1>5 DEF Approve, StartApproval, IdleRequest, tables
  <2>2. payments[p].amount = ProPlanAmount
    BY <1>1, <1>5 DEF Approve, PaymentRow
  <2> QED
    BY <2>1, <2>2 DEF RequestPays
<1>6. ASSUME NEW p \in PaymentId, ApproveMethodChange(r, p)
      PROVE  RequestPays(r)'
  <2>1. req'[r].pc = "provider" /\ req'[r].op = "approveChange"
    BY <1>1, <1>6 DEF ApproveMethodChange, StartApproval, IdleRequest
  <2> QED
    BY <2>1 DEF RequestPays
<1>7. ASSUME NEW op, NEW p, CheckResult(r, op, p)
      PROVE  RequestPays(r)'
  <2>1. req'[r].pc = "resultLoad"
    BY <1>1, <1>7 DEF CheckResult, IdleRequest
  <2> QED
    BY <1>2, <2>1 DEF Approving
<1>8. ASSUME NEW op, NEW u, FindSubscription(r, op, u)
      PROVE  RequestPays(r)'
  <2>1. PICK s : req' = [req EXCEPT ![r] = [IdleRequest EXCEPT !.op = op, !.pc = "subLoad",
                                                               !.user = u, !.sub = s]]
    BY <1>8 DEF FindSubscription
  <2>2. req'[r].pc = "subLoad"
    BY <1>1, <2>1 DEF IdleRequest
  <2> QED
    BY <1>2, <2>2 DEF Approving
<1>9. CASE ProviderApproves(r) \/ SeeMethods(r) \/ LoadActive(r)
  <2>1. /\ q.pc \in Approving /\ req'[r].op = q.op /\ req'[r].payment = q.payment
        /\ req'[r].pc \in Approving /\ payments' = payments
    BY <1>1, <1>9 DEF ProviderApproves, SeeMethods, LoadActive, At, tables, Request, Approving
  <2> QED
    BY <1>1, <2>1 DEF RequestPays, Approving
<1>10. CASE FindActive(r)
  <2>1. PICK s : req' = [req EXCEPT ![r].pc = IF s = NoId THEN "commit" ELSE "load", ![r].sub = s,
                           ![r].startedAt = now, ![r].seen = StoredMethods(req[r].user)]
    BY <1>10, Zenon DEF FindActive
  <2>2. /\ req'[r].op = q.op /\ req'[r].payment = q.payment
        /\ req'[r].pc \in {"commit", "load"}
    BY <1>1, <2>1 DEF Request
  <2>3. q.pc \in Approving /\ payments' = payments
    BY <1>10 DEF FindActive, At, tables, Approving
  <2> QED
    BY <1>1, <2>2, <2>3 DEF RequestPays, Approving
<1>11. CASE LoadResult(r)
  <2>1. /\ req'[r].pc = "resultSave" /\ req'[r].payment = q.payment
        /\ req'[r].payRow = payments[q.payment] /\ payments' = payments
    BY <1>1, <1>11 DEF LoadResult, tables, Request
  <2> QED
    BY <2>1 DEF RequestPays, Approving
<1>12. CASE LoadSubscription(r)
  <2>1. req'[r].pc = "subSave"
    BY <1>1, <1>12 DEF LoadSubscription, Request
  <2> QED
    BY <1>2, <2>1 DEF Approving
<1> QED
  BY <1>3, <1>4, <1>5, <1>6, <1>7, <1>8, <1>9, <1>10, <1>11, <1>12
  DEF RequestStep, Ready, ReadyMethodChange, ReadyAnswered, ReadyRefused, ProviderRefuses,
      ProviderAnswerLost, CommitApproval, CommitMethodChange, RollBackApproval, SaveResult,
      SaveSubscription

LEMMA PaidNext == IInv /\ PaidInv /\ [Next]_vars => PaidInv'
<1> SUFFICES ASSUME IInv, PaidInv, [Next]_vars PROVE PaidInv'
  OBVIOUS
<1>1. ASSUME NEW r \in Requests, RequestStep(r) PROVE PaidInv'
  <2>1. /\ \A u \in Users : HasPaid(u) => HasPaid(u)'
        /\ \A q \in Requests : RequestPays(q)'
    BY <1>1, RequestPayments, PaymentsRemain, RequestMoves, RequestPaysNext
  <2>2. ASSUME NEW u \in Users, plan'[u] = "PRO"
        PROVE  HasPaid(u)
    <3>1. CASE CommitApproval(r) /\ u = req[r].user
      <4>1. RequestOK(r) /\ RequestPays(r)
        BY DEF IInv, Consistent, PaidInv
      <4>2. /\ IsPaymentOf(req[r].payment, u) /\ captured[req[r].payment]
            /\ payments[req[r].payment].amount = ProPlanAmount
        BY <3>1, <4>1 DEF CommitApproval, At, RequestOK, RequestPays, Approving
      <4> QED
        BY <4>2 DEF HasPaid, IsPaymentOf
    <3>2. CASE CommitApproval(r) /\ u # req[r].user
      <4>1. plan'[u] = plan[u]
        BY <3>2 DEF CommitApproval, IInv, TypeOK
      <4> QED
        BY <2>2, <4>1 DEF PaidInv
    <3>3. CASE ~CommitApproval(r)
      <4>1. plan' = plan
        BY <1>1, <3>3
        DEF RequestStep, Ready, ReadyMethodChange, InsertReady, ReadyAnswered, ReadyRefused,
            Approve, ApproveMethodChange, StartApproval, ProviderApproves, ProviderRefuses,
            ProviderAnswerLost, FindActive, SeeMethods, LoadActive, CommitMethodChange,
            RollBackApproval, CheckResult, LoadResult, SaveResult, FindSubscription,
            LoadSubscription, SaveSubscription, tables
      <4> QED
        BY <2>2, <4>1 DEF PaidInv
    <3> QED
      BY <3>1, <3>2, <3>3
  <2> QED
    BY <2>1, <2>2 DEF PaidInv
<1>2. ASSUME NEW b \in Batches, StartRun(b) \/ RunStep(b) PROVE PaidInv'
  <2>1. /\ \A u \in Users : HasPaid(u) => HasPaid(u)'
        /\ \A q \in Requests : RequestPays(q)'
    BY <1>2, RunPayments, PaymentsRemain, RunMoves
  <2>2. ASSUME NEW u \in Users, plan'[u] = "PRO"
        PROVE  plan[u] = "PRO"
    <3>1. plan \in [Users -> {"FREE", "PRO"}]
      BY DEF IInv, TypeOK
    <3>2. CASE Expire(b)
      BY <2>2, <3>1, <3>2 DEF Expire
    <3>3. CASE Complete(b)
      BY <2>2, <3>1, <3>3 DEF Complete
    <3>4. CASE ~Expire(b) /\ ~Complete(b)
      BY <1>2, <2>2, <3>4
      DEF RunStep, StartRun, EndRun, PickCanceled, PickCharge, Charge, ChargeAnswerLost,
          ChargeRefused, MarkApproved, BookkeepingFails, LoadRow, SaveRenewal, MarkFailed,
          SaveFailure, AbortRun, tables
    <3> QED
      BY <3>2, <3>3, <3>4
  <2> QED
    BY <2>1, <2>2 DEF PaidInv
<1>3. CASE (\E u \in Users : Withdraw(u)) \/ Tick \/ UNCHANGED vars
  <2>1. UNCHANGED <<plan, payments, captured, req>>
    BY <1>3 DEF Withdraw, Tick, vars, tables
  <2> QED
    BY <2>1, PaymentsRemain DEF PaidInv
<1>4. CASE Restart
  <2>1. UNCHANGED <<plan, payments, captured>> /\ \A r \in Requests : req'[r].pc = "idle"
    BY <1>4 DEF Restart, tables, IdleRequest
  <2> QED
    BY <2>1, PaymentsRemain DEF PaidInv, RequestPays, Approving
<1> QED
  BY <1>1, <1>2, <1>3, <1>4 DEF Next

LEMMA PaidInit == Init => PaidInv
<1> SUFFICES ASSUME Init PROVE PaidInv
  OBVIOUS
<1>1. PICK slot \in [Subscribed -> 1..Cardinality(Subscribed)] : InitTables(slot)
  BY DEF Init
<1>2. ASSUME NEW u \in Users, plan[u] = "PRO"
      PROVE  HasPaid(u)
  <2>1. u \in Subscribed
    BY <1>2 DEF Init
  <2> DEFINE p == slot[u]
  <2>2. p \in PaymentId /\ Taken(slot, p)
    BY <2>1, SlotsAreIds DEF Taken
  <2>3. Holder(slot, p) = u
    BY <1>1, <2>1, <2>2, HolderIsSubscribed DEF InitTables
  <2>4. payments[p] = PaidPayment(u, p) /\ captured[p]
    BY <1>1, <2>2, <2>3 DEF InitTables
  <2> QED
    BY <2>2, <2>4 DEF HasPaid, IsPaymentOf, PaidPayment
<1>3. \A r \in Requests : RequestPays(r)
  BY DEF Init, IdleRequest, RequestPays, Approving
<1> QED
  BY <1>2, <1>3 DEF PaidInv

(* Nobody is PRO without a captured PRO fee of his own, whatever becomes   *)
(* of the approval, its transaction and the redirects beside it            *)
(* (approveKakaoPayment, updateKakaoResultPayment).                        *)
THEOREM ProIsPaid == Spec => []ProWasPaid
<1>1. Spec => []PaidInv
  BY InductiveInvariant, PaidInit, PaidNext, PTL DEF Spec
<1>2. PaidInv => ProWasPaid
  BY DEF PaidInv, ProWasPaid, HasPaid, IsPaymentOf
<1> QED
  BY <1>1, <1>2, PTL

-----------------------------------------------------------------------------
(* Failed charges: FailInv is inductive.                                   *)

LEMMA PaymentsAreFew ==
    ASSUME NEW S, S \subseteq PaymentId
    PROVE  IsFiniteSet(S) /\ Cardinality(S) \in Nat
<1>1. IsFiniteSet(PaymentId)
  BY BillingAssumption, FS_Interval DEF PaymentId
<1>2. IsFiniteSet(S)
  BY <1>1, FS_Subset
<1> QED
  BY <1>2, FS_CardinalityType

LEMMA MoreIsMore ==
    ASSUME NEW S, NEW T, T \subseteq PaymentId, S \subseteq T
    PROVE  Cardinality(S) <= Cardinality(T)
<1>1. IsFiniteSet(T)
  BY PaymentsAreFew
<1> QED
  BY <1>1, FS_Subset

LEMMA SettledArePayments == \A s : Settled(s) \subseteq PaymentId
BY DEF Settled, FailedCharges

LEMMA LossesTyped ==
    /\ Losses \in [SubId -> Nat]
    /\ LossesBut \in [SubId -> [PaymentId -> Nat]]
<1>1. \A s \in SubId : Cardinality(Settled(s)) \in Nat
  BY SettledArePayments, PaymentsAreFew
<1>2. \A s \in SubId, p \in PaymentId : Cardinality(Settled(s) \ {p}) \in Nat
  <2> SUFFICES ASSUME NEW s \in SubId, NEW p \in PaymentId
               PROVE  Cardinality(Settled(s) \ {p}) \in Nat
    OBVIOUS
  <2>1. Settled(s) \ {p} \subseteq PaymentId
    BY SettledArePayments
  <2> QED
    BY <2>1, PaymentsAreFew
<1> QED
  BY <1>1, <1>2 DEF Losses, LossesBut

(* Losses after a step in which no settled charge is lost.                 *)
LEMMA LossesGrow ==
    ASSUME \A s \in SubId : Settled(s) \subseteq Settled(s)'
    PROVE  /\ Losses \in [SubId -> Nat] /\ Losses' \in [SubId -> Nat]
           /\ LossesBut \in [SubId -> [PaymentId -> Nat]]
           /\ LossesBut' \in [SubId -> [PaymentId -> Nat]]
           /\ \A s \in SubId : Losses[s] <= Losses'[s]
           /\ \A s \in SubId, p \in PaymentId : LossesBut[s][p] <= LossesBut'[s][p]
<1>1. \A s : Settled(s)' \subseteq PaymentId
  BY DEF Settled, FailedCharges
<1>2. ASSUME NEW s \in SubId
      PROVE  /\ Cardinality(Settled(s)') \in Nat
             /\ Cardinality(Settled(s)) <= Cardinality(Settled(s)')
  BY <1>1, PaymentsAreFew, MoreIsMore
<1>3. ASSUME NEW s \in SubId, NEW p \in PaymentId
      PROVE  /\ Cardinality(Settled(s)' \ {p}) \in Nat
             /\ Cardinality(Settled(s) \ {p}) <= Cardinality(Settled(s)' \ {p})
  <2> DEFINE S == Settled(s) \ {p}
             T == Settled(s)' \ {p}
  <2>1. T \subseteq PaymentId /\ S \subseteq T
    BY <1>1
  <2> HIDE DEF S, T
  <2>2. Cardinality(T) \in Nat /\ Cardinality(S) <= Cardinality(T)
    BY <2>1, PaymentsAreFew, MoreIsMore
  <2> QED
    BY <2>2 DEF S, T
<1>4. Losses' \in [SubId -> Nat] /\ \A s \in SubId : Losses[s] <= Losses'[s]
  BY <1>2 DEF Losses
<1>5. /\ LossesBut' \in [SubId -> [PaymentId -> Nat]]
      /\ \A s \in SubId, p \in PaymentId : LossesBut[s][p] <= LossesBut'[s][p]
  BY <1>3 DEF LossesBut
<1> QED
  BY <1>4, <1>5, LossesTyped

LEMMA StillCounted ==
    ASSUME NEW row \in SubRow, NEW n \in Nat, NEW m \in Nat, n <= m, Counted(row, n)
    PROVE  Counted(row, m)
BY BillingAssumption DEF Counted, SubRow

LEMMA NoSubCounted == \A n \in Nat : Counted(NoSub, n)
BY DEF Counted, NoSub

(* Which payment a request comes to work on.                               *)
LEMMA RequestPoints ==
    ASSUME IInv, NEW r \in Requests, RequestStep(r)
    PROVE  \/ req'[r].payment \in {NoId, req[r].payment}
           \/ payments[req'[r].payment].status \in {"NONE", "READY"}
<1>1. req \in [Requests -> Request] /\ req[r] \in Request
  BY DEF IInv, TypeOK
<1>2. ASSUME NEW op, NEW u, NEW s, NEW a, InsertReady(r, op, u, s, a)
      PROVE  payments[req'[r].payment].status = "NONE"
  <2>1. PICK p \in Fresh(payments) :
          req' = [req EXCEPT ![r] = [IdleRequest EXCEPT !.op = op, !.pc = "ready",
                                                        !.user = u, !.payment = p]]
    BY <1>2 DEF InsertReady
  <2>2. req'[r].payment = p
    BY <1>1, <2>1 DEF IdleRequest
  <2> QED
    BY <2>2 DEF Fresh
<1>3. ASSUME NEW op, NEW p, StartApproval(r, op, p)
      PROVE  payments[req'[r].payment].status = "READY"
  <2>1. req'[r].payment = p /\ Approvable(p)
    BY <1>1, <1>3 DEF StartApproval, IdleRequest
  <2> QED
    BY <2>1 DEF Approvable
<1>4. ASSUME NEW op, NEW p, CheckResult(r, op, p)
      PROVE  payments[req'[r].payment].status = "READY"
  BY <1>1, <1>4 DEF CheckResult, IdleRequest
<1>5. ASSUME NEW op, NEW u, FindSubscription(r, op, u)
      PROVE  req'[r].payment = NoId
  <2>1. PICK s : req' = [req EXCEPT ![r] = [IdleRequest EXCEPT !.op = op, !.pc = "subLoad",
                                                               !.user = u, !.sub = s]]
    BY <1>5 DEF FindSubscription
  <2> QED
    BY <1>1, <2>1 DEF IdleRequest
<1>6. CASE Finish(r)
  BY <1>1, <1>6 DEF Finish, IdleRequest
<1>7. CASE \/ ProviderApproves(r) \/ FindActive(r) \/ SeeMethods(r) \/ LoadActive(r)
           \/ LoadResult(r) \/ LoadSubscription(r)
  <2>1. UNCHANGED tables
    BY <1>7
    DEF ProviderApproves, FindActive, SeeMethods, LoadActive, LoadResult, LoadSubscription
  <2> QED
    BY <1>7, <2>1, AdvancedRequest
<1> QED
  BY <1>2, <1>3, <1>4, <1>5, <1>6, <1>7
  DEF RequestStep, Ready, ReadyMethodChange, ReadyAnswered, ReadyRefused, Approve,
      ApproveMethodChange, ProviderRefuses, ProviderAnswerLost, CommitApproval,
      CommitMethodChange, RollBackApproval, SaveResult, SaveSubscription

(* A failed charge that no request works on stays what it is.              *)
LEMMA SettledStay ==
    ASSUME IInv, PaidInv, FailInv, [Next]_vars
    PROVE  \A s \in SubId : Settled(s) \subseteq Settled(s)'
<1> SUFFICES ASSUME NEW s \in SubId, NEW p \in Settled(s)
             PROVE  p \in Settled(s)'
  OBVIOUS
<1>1. /\ p \in PaymentId /\ payments[p].sub = s /\ payments[p].amount = ProPlanAmount
      /\ payments[p].status = "FAILED" /\ \A r \in Requests : req[r].payment # p
  BY DEF Settled, FailedCharges
<1>2. ASSUME payments'[p] = payments[p], \A r \in Requests : req'[r].payment # p
      PROVE  p \in Settled(s)'
  BY <1>1, <1>2 DEF Settled, FailedCharges
<1>3. ASSUME NEW r \in Requests, RequestStep(r) PROVE p \in Settled(s)'
  <2>1. payments'[p] = payments[p]
    BY <1>1, <1>3, RequestPayments
  <2>2. req'[r].payment # p
    BY <1>1, <1>3, RequestPoints, NoIdIsNoRow
  <2>3. \A q \in Requests : req'[q].payment # p
    BY <1>1, <1>3, <2>2, RequestMoves
  <2> QED
    BY <1>2, <2>1, <2>3
<1>4. ASSUME NEW b \in Batches, StartRun(b) \/ RunStep(b) PROVE p \in Settled(s)'
  <2>1. req' = req
    BY <1>4, RunMoves
  <2>2. CASE payments'[p] = payments[p]
    BY <1>1, <1>2, <2>1, <2>2
  <2>3. CASE p = batch[b].payment /\ MarkFailed(b)
    <3>1. /\ payments'[p].sub = payments[p].sub /\ payments'[p].amount = payments[p].amount
      BY <1>1, <1>4, RunPayments
    <3>2. payments'[p].status = "FAILED"
      BY <1>1, <2>3 DEF MarkFailed, IInv, TypeOK, PaymentRow
    <3> QED
      BY <1>1, <2>1, <3>1, <3>2 DEF Settled, FailedCharges
  <2>4. ~(p = batch[b].payment /\ MarkApproved(b))
    BY <1>1 DEF MarkApproved, AtRun, FailInv, RunBacked
  <2> QED
    BY <1>1, <1>4, <2>2, <2>3, <2>4, RunPayments
<1>5. CASE (\E u \in Users : Withdraw(u)) \/ Tick \/ UNCHANGED vars
  <2>1. UNCHANGED <<payments, req>>
    BY <1>5 DEF Withdraw, Tick, vars, tables
  <2> QED
    BY <1>1, <1>2, <2>1
<1>6. CASE Restart
  <2>1. payments' = payments /\ \A r \in Requests : req'[r].payment = NoId
    BY <1>6 DEF Restart, tables, IdleRequest
  <2> QED
    BY <1>1, <1>2, <2>1, NoIdIsNoRow
<1> QED
  BY <1>3, <1>4, <1>5, <1>6 DEF Next

(* A request or a run that does not move.                                  *)
LEMMA WaitingBacked ==
    ASSUME IInv, FailInv, \A s \in SubId : Settled(s) \subseteq Settled(s)'
    PROVE  /\ \A s \in SubId : subs'[s] = subs[s] => Counted(subs'[s], Losses'[s])
           /\ \A r \in Requests : req'[r] = req[r] => RequestBacked(req'[r], Losses')
           /\ \A b \in Batches :
                /\ batch'[b] = batch[b]
                /\ batch[b].pc \in Charging =>
                     payments'[batch[b].payment] = payments[batch[b].payment]
                => RunBacked(batch'[b], Losses', LossesBut', payments')
<1>1. /\ Losses \in [SubId -> Nat] /\ Losses' \in [SubId -> Nat]
      /\ LossesBut \in [SubId -> [PaymentId -> Nat]]
      /\ LossesBut' \in [SubId -> [PaymentId -> Nat]]
      /\ \A s \in SubId : Losses[s] <= Losses'[s]
      /\ \A s \in SubId, p \in PaymentId : LossesBut[s][p] <= LossesBut'[s][p]
  BY LossesGrow
<1>2. /\ subs \in [SubId -> SubRow] /\ req \in [Requests -> Request]
      /\ batch \in [Batches -> Run]
  BY DEF IInv, TypeOK
<1>3. ASSUME NEW s \in SubId, NEW row \in SubRow, Counted(row, Losses[s])
      PROVE  Counted(row, Losses'[s])
  BY <1>1, <1>3, StillCounted
<1>4. \A s \in SubId : subs'[s] = subs[s] => Counted(subs'[s], Losses'[s])
  BY <1>2, <1>3 DEF FailInv
<1>5. ASSUME NEW r \in Requests, req'[r] = req[r]
      PROVE  RequestBacked(req'[r], Losses')
  <2>1. req[r].sub \in SubId \cup {NoId} /\ req[r].subRow \in SubRow
    BY <1>2 DEF Request
  <2>2. req[r].pc = "subSave" => req[r].sub \in SubId
    BY DEF IInv, Consistent, RequestOK, IsSubOf
  <2>3. RequestBacked(req[r], Losses)
    BY DEF FailInv
  <2>4. ASSUME \/ req[r].pc = "commit" /\ req[r].op = "approve" /\ req[r].sub # NoId
               \/ req[r].pc = "subSave"
        PROVE  Counted(req[r].subRow, Losses'[req[r].sub])
    <3>1. req[r].sub \in SubId /\ Counted(req[r].subRow, Losses[req[r].sub])
      BY <2>1, <2>2, <2>3, <2>4 DEF RequestBacked
    <3> QED
      BY <1>3, <2>1, <3>1
  <2> QED
    BY <1>5, <2>4 DEF RequestBacked
<1>6. ASSUME NEW b \in Batches, batch'[b] = batch[b],
             batch[b].pc \in Charging =>
               payments'[batch[b].payment] = payments[batch[b].payment]
      PROVE  RunBacked(batch'[b], Losses', LossesBut', payments')
  <2> DEFINE x == batch[b]
  <2>1. /\ RunOK(b) /\ RunBacked(x, Losses, LossesBut, payments)
        /\ x.row \in SubRow /\ x.snap.failed \in Nat /\ x.todo \subseteq Target
    BY <1>2 DEF IInv, Consistent, FailInv, Run, SubRow
  <2>2. x.pc \in Working => x.sub \in SubId
    BY <2>1 DEF RunOK, IsSubOf
  <2>3. x.pc \in Charging => x.payment \in PaymentId /\ x.sub \in SubId
    BY <2>1, <2>2 DEF RunOK, IsPaymentOf, Charging, Working, BatchPc
  <2>4. \A t \in x.todo : t.row.failed <= Losses'[t.id]
    <3> SUFFICES ASSUME NEW t \in x.todo PROVE t.row.failed <= Losses'[t.id]
      OBVIOUS
    <3>1. t.id \in SubId /\ t.row.failed \in Nat
      BY <2>1 DEF Target, SubRow
    <3>2. t.row.failed <= Losses[t.id]
      BY <2>1 DEF RunBacked
    <3> QED
      BY <1>1, <3>1, <3>2
  <2>5. x.pc \in {"renewSave", "recordSave", "completeSave"} => Counted(x.row, Losses'[x.sub])
    BY <1>3, <2>1, <2>2 DEF RunBacked, Working, BatchPc
  <2>6. x.pc \in Charging => x.snap.failed <= LossesBut'[x.sub][x.payment]
    <3> SUFFICES ASSUME x.pc \in Charging PROVE x.snap.failed <= LossesBut'[x.sub][x.payment]
      OBVIOUS
    <3>1. x.snap.failed <= LossesBut[x.sub][x.payment]
      BY <2>1 DEF RunBacked
    <3> QED
      BY <1>1, <2>1, <2>3, <3>1
  <2>7. x.pc \in {"charge", "charged", "record", "recordSave"} => x.pc \in Charging
    BY DEF Charging
  <2> QED
    BY <1>6, <2>1, <2>4, <2>5, <2>6, <2>7 DEF RunBacked
<1> QED
  BY <1>4, <1>5, <1>6

(* What a request holds and saves counts no charge too many.               *)
LEMMA RequestCounts ==
    ASSUME IInv, FailInv, \A s \in SubId : Settled(s) \subseteq Settled(s)',
           NEW r \in Requests, RequestStep(r)
    PROVE  /\ RequestBacked(req'[r], Losses')
           /\ \A s \in SubId : Counted(subs'[s], Losses'[s])
<1> DEFINE q == req[r]
<1>1. /\ req \in [Requests -> Request] /\ q \in Request /\ subs \in [SubId -> SubRow]
      /\ q.subRow \in SubRow /\ RequestOK(r) /\ RequestBacked(q, Losses)
      /\ q.sub \in SubId \cup {NoId}
  BY DEF IInv, TypeOK, Consistent, FailInv, Request
<1>2. /\ Losses \in [SubId -> Nat] /\ Losses' \in [SubId -> Nat]
      /\ \A s \in SubId : Losses[s] <= Losses'[s]
  BY LossesGrow
<1>3. ASSUME NEW s \in SubId, NEW row \in SubRow, Counted(row, Losses[s])
      PROVE  Counted(row, Losses'[s])
  BY <1>2, <1>3, StillCounted
<1>4. ASSUME NEW s \in SubId, subs'[s] = subs[s]
      PROVE  Counted(subs'[s], Losses'[s])
  BY <1>4, WaitingBacked
<1>5. ASSUME Finish(r) PROVE RequestBacked(req'[r], Losses')
  BY <1>1, <1>5 DEF Finish, IdleRequest, RequestBacked
<1>6. CASE ProviderApproves(r) \/ FindActive(r) \/ LoadActive(r) \/ LoadResult(r)
  <2>1. subs' = subs
    BY <1>6 DEF ProviderApproves, FindActive, LoadActive, LoadResult, tables
  <2>2. CASE ProviderApproves(r) \/ LoadResult(r)
    <3>1. req'[r].pc \in {"approved", "resultSave"}
      BY <1>1, <2>2 DEF ProviderApproves, LoadResult, Request
    <3> QED
      BY <1>4, <2>1, <3>1 DEF RequestBacked
  <2>3. CASE FindActive(r)
    <3>1. PICK s : req' = [req EXCEPT ![r].pc = IF s = NoId THEN "commit" ELSE "load",
                             ![r].sub = s, ![r].startedAt = now,
                             ![r].seen = StoredMethods(req[r].user)]
      BY <2>3, Zenon DEF FindActive
    <3>2. req'[r].pc = (IF s = NoId THEN "commit" ELSE "load") /\ req'[r].sub = s
      BY <1>1, <3>1 DEF Request
    <3> QED
      BY <1>4, <2>1, <3>2 DEF RequestBacked
  <2>4. CASE LoadActive(r)
    <3>1. /\ req'[r].sub = q.sub /\ req'[r].subRow = subs[q.sub]
      BY <1>1, <2>4 DEF LoadActive, Request
    <3>2. q.sub \in SubId
      BY <1>1, <2>4 DEF LoadActive, At, RequestOK, IsSubOf
    <3> QED
      BY <1>4, <2>1, <3>1, <3>2 DEF RequestBacked
  <2> QED
    BY <1>6, <2>2, <2>3, <2>4
<1>7. CASE SeeMethods(r)
  <2>1. req'[r].pc = "commit" /\ req'[r].op = "approveChange" /\ subs' = subs
    BY <1>1, <1>7 DEF SeeMethods, tables, Request
  <2> QED
    BY <1>4, <2>1 DEF RequestBacked
<1>8. CASE LoadSubscription(r)
  <2>1. /\ req'[r].sub = q.sub /\ req'[r].subRow = subs[q.sub] /\ subs' = subs
    BY <1>1, <1>8 DEF LoadSubscription, tables, Request
  <2>2. q.sub \in SubId
    BY <1>1, <1>8 DEF LoadSubscription, At, RequestOK, IsSubOf
  <2> QED
    BY <1>4, <2>1, <2>2 DEF RequestBacked
<1>9. CASE CommitApproval(r)
  <2> DEFINE row == IF q.sub = NoId THEN NewSub(q.user, q.startedAt + Month)
                    ELSE Activated(q.subRow, q.startedAt)
  <2>1. PICK s \in IF q.sub = NoId THEN Fresh(subs) ELSE {q.sub} :
          subs' = [subs EXCEPT ![s] = row]
    BY <1>9 DEF CommitApproval
  <2>2. s \in SubId /\ Finish(r) /\ row \in SubRow
    <3>1. s \in SubId
      BY <1>1, <2>1, FreshIds
    <3>2. TypeOK'
      BY NextTypeOK DEF Next
    <3>3. subs'[s] = row
      BY <1>1, <2>1, <3>1
    <3> QED
      BY <1>9, <3>1, <3>2, <3>3 DEF CommitApproval, TypeOK
  <2>3. Counted(row, Losses[s])
    <3>1. CASE q.sub = NoId
      <4>1. row.failed = 0 /\ row.status = "ACTIVE"
        BY <3>1 DEF NewSub
      <4> QED
        BY <1>2, <2>2, <4>1 DEF Counted
    <3>2. CASE q.sub # NoId
      <4>1. row.failed = q.subRow.failed /\ row.status = "ACTIVE"
        BY <1>1, <3>2 DEF Activated, SubRow
      <4>2. Counted(q.subRow, Losses[s])
        BY <1>1, <1>9, <2>1, <3>2 DEF CommitApproval, At, RequestBacked
      <4> QED
        BY <4>1, <4>2 DEF Counted
    <3> QED
      BY <3>1, <3>2
  <2> HIDE DEF row
  <2>4. subs'[s] = row /\ \A i \in SubId : i # s => subs'[i] = subs[i]
    BY <1>1, <2>1, <2>2
  <2> QED
    BY <1>3, <1>4, <1>5, <2>2, <2>3, <2>4
<1>10. CASE SaveSubscription(r)
  <2> DEFINE row == Edited(q.op, q.subRow)
  <2>1. /\ subs' = [subs EXCEPT ![q.sub] = row] /\ q.op \in SubscriptionOps
        /\ q.sub \in SubId /\ Counted(q.subRow, Losses[q.sub]) /\ Finish(r)
    BY <1>1, <1>10 DEF SaveSubscription, At, RequestOK, RequestBacked, IsSubOf
  <2>2. /\ row.failed = q.subRow.failed /\ row \in SubRow
        /\ row.status \in {q.subRow.status, "CANCELED"}
    BY <1>1, <2>1 DEF Edited, SubRow, SubscriptionOps
  <2> HIDE DEF row
  <2>3. Counted(row, Losses[q.sub])
    BY <2>1, <2>2 DEF Counted
  <2>4. subs'[q.sub] = row /\ \A i \in SubId : i # q.sub => subs'[i] = subs[i]
    BY <1>1, <2>1
  <2> QED
    BY <1>1, <1>3, <1>4, <1>5, <2>1, <2>2, <2>3, <2>4
<1>11. CASE \/ ReadyAnswered(r) \/ ReadyRefused(r) \/ ProviderRefuses(r)
            \/ ProviderAnswerLost(r) \/ RollBackApproval(r) \/ SaveResult(r)
            \/ CommitMethodChange(r)
  <2>1. Finish(r) /\ subs' = subs
    BY <1>11
    DEF ReadyAnswered, ReadyRefused, ProviderRefuses, ProviderAnswerLost, RollBackApproval,
        SaveResult, CommitMethodChange, tables
  <2> QED
    BY <1>4, <1>5, <2>1
<1>12. CASE \/ \E u \in Users : Ready(r, u) \/ ReadyMethodChange(r, u)
            \/ \E p \in PaymentId : Approve(r, p) \/ ApproveMethodChange(r, p)
            \/ \E op \in {"cancel", "fail"}, p \in PaymentId : CheckResult(r, op, p)
            \/ \E op \in SubscriptionOps, u \in Users : FindSubscription(r, op, u)
  <2>1. subs' = subs
    BY <1>12
    DEF Ready, ReadyMethodChange, InsertReady, Approve, ApproveMethodChange, StartApproval,
        CheckResult, FindSubscription, tables
  <2>2. req'[r].pc \notin {"commit", "subSave"}
    <3>1. ASSUME NEW op, NEW u, NEW s, NEW a, InsertReady(r, op, u, s, a)
          PROVE  req'[r].pc = "ready"
      <4>1. PICK p : req' = [req EXCEPT ![r] = [IdleRequest EXCEPT !.op = op, !.pc = "ready",
                                                                   !.user = u, !.payment = p]]
        BY <3>1 DEF InsertReady
      <4> QED
        BY <1>1, <4>1 DEF IdleRequest
    <3>2. ASSUME NEW op, NEW p, StartApproval(r, op, p)
          PROVE  req'[r].pc = "provider"
      BY <1>1, <3>2 DEF StartApproval, IdleRequest
    <3>3. ASSUME NEW op, NEW p, CheckResult(r, op, p)
          PROVE  req'[r].pc = "resultLoad"
      BY <1>1, <3>3 DEF CheckResult, IdleRequest
    <3>4. ASSUME NEW op, NEW u, FindSubscription(r, op, u)
          PROVE  req'[r].pc = "subLoad"
      <4>1. PICK s : req' = [req EXCEPT ![r] = [IdleRequest EXCEPT !.op = op, !.pc = "subLoad",
                                                                   !.user = u, !.sub = s]]
        BY <3>4 DEF FindSubscription
      <4> QED
        BY <1>1, <4>1 DEF IdleRequest
    <3> QED
      BY <1>12, <3>1, <3>2, <3>3, <3>4
      DEF Ready, ReadyMethodChange, Approve, ApproveMethodChange
  <2> QED
    BY <1>4, <2>1, <2>2 DEF RequestBacked
<1> QED
  BY <1>6, <1>7, <1>8, <1>9, <1>10, <1>11, <1>12 DEF RequestStep

(* The charge that a run records as failed is not among those that the     *)
(* run's copy counts.                                                      *)
LEMMA OneMoreLoss ==
    ASSUME IInv, FailInv, NEW b \in Batches, AtRun(b, "recordSave")
    PROVE  /\ batch[b].sub \in SubId
           /\ FailedAttempts(b) \in Nat /\ FailedAttempts(b) <= Losses[batch[b].sub]
<1> DEFINE x == batch[b]
           s == x.sub
           p == x.payment
<1>1. /\ RunOK(b) /\ RunBacked(x, Losses, LossesBut, payments) /\ x.snap.failed \in Nat
      /\ x.pc = "recordSave"
  BY DEF IInv, Consistent, FailInv, TypeOK, Run, SubRow, AtRun
<1>2. s \in SubId /\ p \in PaymentId /\ Private(p)
  BY <1>1 DEF RunOK, IsSubOf, IsPaymentOf, Working, Charging, BatchPc
<1>3. /\ payments[p].sub = s /\ payments[p].amount = ProPlanAmount
      /\ payments[p].status = "FAILED" /\ x.snap.failed <= LossesBut[s][p]
  BY <1>1 DEF RunBacked, Charging
<1> HIDE DEF x, s, p
<1>4. p \in Settled(s)
  BY <1>2, <1>3 DEF Settled, FailedCharges, Private
<1>5. IsFiniteSet(Settled(s)) /\ Cardinality(Settled(s)) \in Nat
  BY SettledArePayments, PaymentsAreFew
<1>6. Cardinality(Settled(s) \ {p}) = Cardinality(Settled(s)) - 1
  BY <1>4, <1>5, FS_RemoveElement
<1>7. Losses[s] = Cardinality(Settled(s)) /\ LossesBut[s][p] = Cardinality(Settled(s) \ {p})
  BY <1>2 DEF Losses, LossesBut
<1> QED
  BY <1>1, <1>2, <1>3, <1>5, <1>6, <1>7 DEF FailedAttempts, x, s

LEMMA RunCounts ==
    ASSUME IInv, PaidInv, FailInv, \A s \in SubId : Settled(s) \subseteq Settled(s)',
           NEW b \in Batches, StartRun(b) \/ RunStep(b)
    PROVE  /\ RunBacked(batch'[b], Losses', LossesBut', payments')
           /\ \A s \in SubId : Counted(subs'[s], Losses'[s])
<1> DEFINE x == batch[b]
<1>1. /\ batch \in [Batches -> Run] /\ x \in Run /\ subs \in [SubId -> SubRow]
      /\ x.row \in SubRow /\ x.snap \in SubRow /\ x.todo \subseteq Target
      /\ RunOK(b) /\ RunBacked(x, Losses, LossesBut, payments)
      /\ payments \in [PaymentId -> PaymentRow]
  BY DEF IInv, TypeOK, Consistent, FailInv, Run
<1>2. /\ Losses \in [SubId -> Nat] /\ Losses' \in [SubId -> Nat]
      /\ LossesBut \in [SubId -> [PaymentId -> Nat]]
      /\ LossesBut' \in [SubId -> [PaymentId -> Nat]]
      /\ \A s \in SubId : Losses[s] <= Losses'[s]
      /\ \A s \in SubId, p \in PaymentId : LossesBut[s][p] <= LossesBut'[s][p]
  BY LossesGrow
<1>3. ASSUME NEW s \in SubId, NEW row \in SubRow, Counted(row, Losses[s])
      PROVE  Counted(row, Losses'[s])
  BY <1>2, <1>3, StillCounted
<1>4. ASSUME subs' = subs
      PROVE  \A s \in SubId : Counted(subs'[s], Losses'[s])
  BY <1>4, WaitingBacked
<1>5. ASSUME NEW row \in SubRow, subs' = [subs EXCEPT ![x.sub] = row], x.sub \in SubId,
             Counted(row, Losses[x.sub])
      PROVE  \A s \in SubId : Counted(subs'[s], Losses'[s])
  <2>1. subs'[x.sub] = row /\ \A s \in SubId : s # x.sub => subs'[s] = subs[s]
    BY <1>1, <1>5
  <2> QED
    BY <1>3, <1>5, <2>1, WaitingBacked
<1>6. \A t \in x.todo : t.row.failed <= Losses'[t.id]
  <2> SUFFICES ASSUME NEW t \in x.todo PROVE t.row.failed <= Losses'[t.id]
    OBVIOUS
  <2>1. t.id \in SubId /\ t.row.failed \in Nat
    BY <1>1 DEF Target, SubRow
  <2>2. t.row.failed <= Losses[t.id]
    BY <1>1 DEF RunBacked
  <2> QED
    BY <1>2, <2>1, <2>2
<1>7. ASSUME batch'[b].todo \subseteq x.todo, batch'[b].pc \in {"pick", "complete"}
      PROVE  RunBacked(batch'[b], Losses', LossesBut', payments')
  BY <1>6, <1>7 DEF RunBacked, Charging
<1>8. ASSUME NextTarget(b)
      PROVE  RunBacked(batch'[b], Losses', LossesBut', payments')
  <2>1. batch'[b].todo = x.todo /\ batch'[b].pc = "pick"
    BY <1>1, <1>8 DEF NextTarget, IdleRun
  <2> QED
    BY <1>7, <2>1
(* The run goes on with the charge that it is at.                          *)
<1>9. ASSUME x.pc \in Charging, batch'[b].pc \in Charging, batch'[b].todo = x.todo,
             batch'[b].sub = x.sub, batch'[b].payment = x.payment, batch'[b].snap = x.snap
      PROVE  /\ \A t \in batch'[b].todo : t.row.failed <= Losses'[t.id]
             /\ batch'[b].snap.failed <= LossesBut'[batch'[b].sub][batch'[b].payment]
             /\ payments'[batch'[b].payment].sub = batch'[b].sub
             /\ payments'[batch'[b].payment].amount = ProPlanAmount
             /\ x.payment \in PaymentId /\ x.sub \in SubId
  <2>1. /\ x.sub \in SubId /\ x.payment \in PaymentId
        /\ payments[x.payment].status # "NONE"
    BY <1>1, <1>9 DEF RunOK, IsSubOf, IsPaymentOf, Working, Charging, BatchPc
  <2>2. /\ x.snap.failed <= LossesBut[x.sub][x.payment]
        /\ payments[x.payment].sub = x.sub /\ payments[x.payment].amount = ProPlanAmount
    BY <1>1, <1>9 DEF RunBacked
  <2>3. x.snap.failed \in Nat
    BY <1>1 DEF SubRow
  <2>4. x.snap.failed <= LossesBut'[x.sub][x.payment]
    BY <1>2, <2>1, <2>2, <2>3
  <2>5. /\ payments'[x.payment].sub = x.sub /\ payments'[x.payment].amount = ProPlanAmount
    BY <2>1, <2>2, RunPayments
  <2> QED
    BY <1>6, <1>9, <2>1, <2>4, <2>5
<1>10. CASE StartRun(b)
  <2>1. /\ batch'[b].todo = BillingTargets /\ batch'[b].pc = "pick" /\ subs' = subs
    BY <1>1, <1>10 DEF StartRun, IdleRun, tables
  <2>2. \A t \in BillingTargets : t.row.failed <= Losses'[t.id]
    <3> SUFFICES ASSUME NEW s \in SubId PROVE subs[s].failed <= Losses'[s]
      BY DEF BillingTargets, DueSubs
    <3>1. Counted(subs[s], Losses[s]) /\ subs[s] \in SubRow
      BY <1>1 DEF FailInv
    <3> QED
      BY <1>3, <3>1 DEF Counted
  <2> QED
    BY <1>4, <2>1, <2>2 DEF RunBacked, Charging
<1>11. CASE EndRun(b) \/ AbortRun(b)
  <2>1. batch'[b] = IdleRun /\ subs' = subs
    BY <1>1, <1>11 DEF EndRun, AbortRun, tables
  <2> QED
    BY <1>4, <2>1 DEF RunBacked, Charging, IdleRun
<1>12. CASE PickCanceled(b)
  <2>1. PICK t \in x.todo :
          batch' = [batch EXCEPT ![b].pc = "complete", ![b].todo = @ \ {t},
                                 ![b].sub = t.id, ![b].snap = t.row]
    BY <1>12 DEF PickCanceled, Earliest
  <2>2. batch'[b].pc = "complete" /\ batch'[b].todo \subseteq x.todo
    BY <1>1, <2>1 DEF Run
  <2>3. subs' = subs
    BY <1>12 DEF PickCanceled, tables
  <2> QED
    BY <1>4, <1>7, <2>2, <2>3
<1>13. CASE PickCharge(b)
  <2>1. PICK t \in x.todo, p \in Fresh(payments) :
          /\ \E m : payments' = [payments EXCEPT ![p] =
                                   ReadyPayment(t.row.user, t.id, m, ProPlanAmount)]
          /\ batch' = [batch EXCEPT ![b].pc = "charge", ![b].todo = @ \ {t}, ![b].sub = t.id,
                                    ![b].snap = t.row, ![b].payment = p]
    BY <1>13 DEF PickCharge, Earliest
  <2>2. /\ batch'[b].pc = "charge" /\ batch'[b].snap = t.row /\ batch'[b].sub = t.id
        /\ batch'[b].payment = p /\ batch'[b].todo \subseteq x.todo
    BY <1>1, <2>1 DEF Run
  <2>3. p \in PaymentId /\ payments[p].status = "NONE"
    BY <1>1, FreshIds DEF Fresh
  <2>4. /\ payments'[p].sub = t.id /\ payments'[p].amount = ProPlanAmount
        /\ payments'[p].status = "READY"
    BY <1>1, <2>1, <2>3 DEF ReadyPayment
  <2>5. t.id \in SubId /\ t.row.failed \in Nat
    BY <1>1 DEF Target, SubRow
  <2>6. t.row.failed <= Losses[t.id]
    BY <1>1 DEF RunBacked
  <2>7. p \notin Settled(t.id)
    BY <2>3 DEF Settled, FailedCharges
  <2>8. LossesBut[t.id][p] = Losses[t.id]
    <3>1. Settled(t.id) \ {p} = Settled(t.id)
      BY <2>7
    <3> QED
      BY <2>3, <2>5, <3>1 DEF Losses, LossesBut
  <2>9. t.row.failed <= LossesBut'[t.id][p]
    BY <1>2, <2>3, <2>5, <2>6, <2>8
  <2>10. subs' = subs
    BY <1>13 DEF PickCharge
  <2> QED
    BY <1>4, <1>6, <2>2, <2>4, <2>9, <2>10 DEF RunBacked
<1>14. CASE Charge(b) \/ ChargeAnswerLost(b) \/ ChargeRefused(b) \/ BookkeepingFails(b)
  <2>1. /\ batch'[b].pc \in {"charged", "failed"} /\ x.pc \in Charging
        /\ batch'[b].pc = "charged" => x.pc = "charge"
        /\ batch'[b].todo = x.todo /\ batch'[b].sub = x.sub
        /\ batch'[b].payment = x.payment /\ batch'[b].snap = x.snap
    BY <1>1, <1>14
    DEF Charge, ChargeAnswerLost, ChargeRefused, BookkeepingFails, AtRun, Charging, Run
  <2>2. payments' = payments /\ subs' = subs
    BY <1>14 DEF Charge, ChargeAnswerLost, ChargeRefused, BookkeepingFails, tables
  <2>3. batch'[b].pc \in Charging
    BY <2>1 DEF Charging
  <2> QED
    BY <1>1, <1>4, <1>9, <2>1, <2>2, <2>3 DEF RunBacked
<1>15. CASE MarkApproved(b)
  <2>1. /\ batch'[b].pc = "renew" /\ x.pc \in Charging
        /\ batch'[b].todo = x.todo /\ batch'[b].sub = x.sub
        /\ batch'[b].payment = x.payment /\ batch'[b].snap = x.snap
    BY <1>1, <1>15 DEF MarkApproved, AtRun, Charging, Run
  <2>2. subs' = subs /\ batch'[b].pc \in Charging
    BY <1>15, <2>1 DEF MarkApproved, Charging
  <2> QED
    BY <1>4, <1>9, <2>1, <2>2 DEF RunBacked
<1>16. CASE MarkFailed(b)
  <2>1. /\ batch'[b].pc = "record" /\ x.pc \in Charging
        /\ batch'[b].todo = x.todo /\ batch'[b].sub = x.sub
        /\ batch'[b].payment = x.payment /\ batch'[b].snap = x.snap
    BY <1>1, <1>16 DEF MarkFailed, AtRun, Charging, Run
  <2>2. subs' = subs /\ batch'[b].pc \in Charging
    BY <1>16, <2>1 DEF MarkFailed, Charging
  <2>3. x.payment \in PaymentId
    BY <1>9, <2>1, <2>2
  <2>4. payments'[x.payment].status = "FAILED"
    BY <1>1, <1>16, <2>3 DEF MarkFailed, PaymentRow
  <2> QED
    BY <1>4, <1>9, <2>1, <2>2, <2>4 DEF RunBacked
<1>17. CASE LoadRow(b)
  <2>1. /\ batch'[b].todo = x.todo /\ batch'[b].sub = x.sub
        /\ batch'[b].payment = x.payment /\ batch'[b].snap = x.snap
        /\ batch'[b].row = subs[x.sub]
    BY <1>1, <1>17 DEF LoadRow, Run
  <2>2. \/ x.pc = "renew" /\ batch'[b].pc = "renewSave"
        \/ x.pc = "record" /\ batch'[b].pc = "recordSave"
        \/ x.pc = "complete" /\ batch'[b].pc = "completeSave"
    BY <1>1, <1>17 DEF LoadRow, Run
  <2>3. subs' = subs /\ payments' = payments
    BY <1>17 DEF LoadRow, tables
  <2>4. x.sub \in SubId
    BY <1>1, <2>2 DEF RunOK, IsSubOf, Working, BatchPc
  <2>5. Counted(batch'[b].row, Losses'[batch'[b].sub])
    BY <1>4, <2>1, <2>3, <2>4
  <2>6. CASE x.pc = "complete"
    BY <1>4, <1>6, <2>1, <2>2, <2>3, <2>5, <2>6 DEF RunBacked, Charging
  <2>7. CASE x.pc \in {"renew", "record"}
    <3>1. x.pc \in Charging /\ batch'[b].pc \in Charging
      BY <2>2, <2>7 DEF Charging
    <3>2. x.pc = "record" => payments[x.payment].status = "FAILED"
      BY <1>1 DEF RunBacked
    <3> QED
      BY <1>4, <1>9, <2>1, <2>2, <2>3, <2>5, <2>7, <3>1, <3>2 DEF RunBacked
  <2> QED
    BY <2>2, <2>6, <2>7
<1>18. CASE SaveRenewal(b)
  <2> DEFINE row == Renewed(x.row, x.snap, x.paidAt)
  <2>1. subs' = [subs EXCEPT ![x.sub] = row] /\ NextTarget(b) /\ x.sub \in SubId
    BY <1>1, <1>18 DEF SaveRenewal, AtRun, RunOK, IsSubOf, Working, BatchPc
  <2>2. row.failed = 0 /\ row.status = "ACTIVE"
    BY <1>1 DEF Renewed, SubRow
  <2>3. row \in SubRow
    <3>1. TypeOK'
      BY NextTypeOK DEF Next
    <3>2. subs'[x.sub] = row
      BY <1>1, <2>1
    <3> QED
      BY <2>1, <3>1, <3>2 DEF TypeOK
  <2> HIDE DEF row
  <2>4. Counted(row, Losses[x.sub])
    BY <1>2, <2>1, <2>2 DEF Counted
  <2> QED
    BY <1>5, <1>8, <2>1, <2>3, <2>4
<1>19. CASE SaveFailure(b) \/ Expire(b) \/ Complete(b)
  <2>1. /\ Counted(x.row, Losses[x.sub]) /\ x.sub \in SubId /\ NextTarget(b)
    BY <1>1, <1>19
    DEF SaveFailure, Expire, Complete, AtRun, RunOK, IsSubOf, Working, BatchPc, RunBacked
  <2>2. PICK row \in SubRow : subs' = [subs EXCEPT ![x.sub] = row] /\ Counted(row, Losses[x.sub])
    <3>1. CASE SaveFailure(b)
      <4> DEFINE row == [x.row EXCEPT !.failed = FailedAttempts(b)]
      <4>1. FailedAttempts(b) \in Nat /\ FailedAttempts(b) <= Losses[x.sub]
        BY <3>1, OneMoreLoss DEF SaveFailure
      <4>2. row \in SubRow /\ row.failed = FailedAttempts(b) /\ row.status = x.row.status
        BY <1>1, <4>1 DEF SubRow
      <4>3. Counted(row, Losses[x.sub])
        BY <2>1, <4>1, <4>2 DEF Counted
      <4> QED
        BY <3>1, <4>2, <4>3 DEF SaveFailure
    <3>2. CASE Expire(b)
      <4> DEFINE row == [x.row EXCEPT !.status = "EXPIRED", !.failed = FailedAttempts(b)]
      <4>1. FailedAttempts(b) \in Nat /\ FailedAttempts(b) <= Losses[x.sub]
        BY <3>2, OneMoreLoss DEF Expire
      <4>2. row \in SubRow /\ row.failed = FailedAttempts(b)
        BY <1>1, <4>1 DEF SubRow
      <4>3. MaxFailures <= Losses[x.sub]
        BY <1>2, <2>1, <3>2, <4>1, BillingAssumption DEF Expire
      <4>4. Counted(row, Losses[x.sub])
        BY <4>1, <4>2, <4>3 DEF Counted
      <4> QED
        BY <3>2, <4>2, <4>4 DEF Expire
    <3>3. CASE Complete(b)
      <4> DEFINE row == [x.row EXCEPT !.status = "CANCELED", !.isCanceled = FALSE]
      <4>1. row \in SubRow /\ row.failed = x.row.failed /\ row.status = "CANCELED"
        BY <1>1 DEF SubRow
      <4>2. Counted(row, Losses[x.sub])
        BY <2>1, <4>1 DEF Counted
      <4> QED
        BY <3>3, <4>1, <4>2 DEF Complete
    <3> QED
      BY <1>19, <3>1, <3>2, <3>3
  <2> QED
    BY <1>5, <1>8, <2>1, <2>2
<1> QED
  BY <1>10, <1>11, <1>12, <1>13, <1>14, <1>15, <1>16, <1>17, <1>18, <1>19 DEF RunStep

(* A run takes a payment that nobody has had.                              *)
LEMMA PaymentsStayOwn ==
    ASSUME IInv, FailInv, NEW b \in Batches, StartRun(b) \/ RunStep(b)
    PROVE  OwnPayments'
<1>1. /\ batch \in [Batches -> Run] /\ \A c \in Batches \ {b} : batch'[c] = batch[c]
      /\ payments \in [PaymentId -> PaymentRow]
  BY RunMoves DEF IInv, TypeOK
<1>2. ASSUME NEW c \in Batches \ {b}, batch[c].pc \in Charging
      PROVE  payments[batch[c].payment].status # "NONE"
  BY <1>2 DEF IInv, Consistent, RunOK, IsPaymentOf
<1>3. CASE PickCharge(b)
  <2>1. PICK t \in batch[b].todo, p \in Fresh(payments) :
          batch' = [batch EXCEPT ![b].pc = "charge", ![b].todo = @ \ {t}, ![b].sub = t.id,
                                 ![b].snap = t.row, ![b].payment = p]
    BY <1>3 DEF PickCharge, Earliest
  <2>2. batch'[b].payment = p /\ payments[p].status = "NONE"
    BY <1>1, <2>1 DEF Run, Fresh
  <2> QED
    BY <1>1, <1>2, <2>2 DEF FailInv, OwnPayments
<1>4. CASE ~PickCharge(b)
  <2>1. batch'[b].pc \in Charging =>
          batch[b].pc \in Charging /\ batch'[b].payment = batch[b].payment
    <3>1. CASE StartRun(b) \/ EndRun(b) \/ AbortRun(b)
      <4>1. CASE StartRun(b)
        <5>1. batch'[b] = [IdleRun EXCEPT !.pc = "pick", !.todo = BillingTargets]
          BY <1>1, <4>1 DEF StartRun
        <5>2. batch'[b].pc = "pick"
          BY <5>1 DEF IdleRun
        <5> QED
          BY <5>2 DEF Charging
      <4>2. CASE EndRun(b) \/ AbortRun(b)
        <5>1. batch'[b] = IdleRun
          BY <1>1, <4>2 DEF EndRun, AbortRun
        <5> QED
          BY <5>1 DEF IdleRun, Charging
      <4> QED
        BY <3>1, <4>1, <4>2
    <3>2. CASE PickCanceled(b)
      <4>1. batch'[b].pc = "complete"
        BY <1>1, <3>2 DEF PickCanceled, Run
      <4> QED
        BY <4>1 DEF Charging
    <3>3. CASE NextTarget(b)
      BY <1>1, <3>3 DEF NextTarget, IdleRun, Charging
    <3>4. CASE \/ Charge(b) \/ ChargeAnswerLost(b) \/ ChargeRefused(b)
               \/ MarkApproved(b) \/ BookkeepingFails(b) \/ MarkFailed(b)
      <4>1. batch[b].pc \in Charging
        BY <3>4
        DEF Charge, ChargeAnswerLost, ChargeRefused, MarkApproved, BookkeepingFails,
            MarkFailed, AtRun, Charging
      <4>2. batch'[b].payment = batch[b].payment
        BY <1>1, <3>4
        DEF Charge, ChargeAnswerLost, ChargeRefused, MarkApproved, BookkeepingFails,
            MarkFailed, Run
      <4> QED
        BY <4>1, <4>2
    <3>5. CASE LoadRow(b)
      BY <1>1, <3>5 DEF LoadRow, Run, Charging
    <3> QED
      BY <1>4, <3>1, <3>2, <3>3, <3>4, <3>5
      DEF RunStep, SaveRenewal, SaveFailure, Expire, Complete
  <2> QED
    BY <1>1, <2>1 DEF FailInv, OwnPayments
<1> QED
  BY <1>3, <1>4

LEMMA FailNext == IInv /\ PaidInv /\ FailInv /\ [Next]_vars => FailInv'
<1> SUFFICES ASSUME IInv, PaidInv, FailInv, [Next]_vars PROVE FailInv'
  OBVIOUS
<1>1. \A s \in SubId : Settled(s) \subseteq Settled(s)'
  BY SettledStay
<1>2. \A b \in Batches : batch[b].pc \in Charging =>
        /\ batch[b].payment \in PaymentId /\ payments[batch[b].payment].status # "NONE"
        /\ \A r \in Requests : req[r].payment # batch[b].payment
  BY DEF IInv, Consistent, RunOK, IsPaymentOf, Private
<1>3. ASSUME NEW r \in Requests, RequestStep(r) PROVE FailInv'
  <2>1. \A b \in Batches : RunBacked(batch'[b], Losses', LossesBut', payments')
    <3>1. \A b \in Batches : batch[b].pc \in Charging =>
            payments'[batch[b].payment] = payments[batch[b].payment]
      BY <1>2, <1>3, RequestPayments
    <3> QED
      BY <1>1, <1>3, <3>1, RequestMoves, WaitingBacked
  <2>2. /\ \A q \in Requests : RequestBacked(req'[q], Losses')
        /\ \A s \in SubId : Counted(subs'[s], Losses'[s])
    BY <1>1, <1>3, RequestMoves, RequestCounts, WaitingBacked
  <2>3. OwnPayments'
    BY <1>3, RequestMoves DEF FailInv, OwnPayments
  <2> QED
    BY <2>1, <2>2, <2>3 DEF FailInv
<1>4. ASSUME NEW b \in Batches, StartRun(b) \/ RunStep(b) PROVE FailInv'
  <2>1. \A c \in Batches \ {b} : RunBacked(batch'[c], Losses', LossesBut', payments')
    <3> SUFFICES ASSUME NEW c \in Batches \ {b}
                 PROVE  RunBacked(batch'[c], Losses', LossesBut', payments')
      OBVIOUS
    <3>1. ASSUME batch[c].pc \in Charging
          PROVE  payments'[batch[c].payment] = payments[batch[c].payment]
      <4>1. ~(MarkApproved(b) /\ batch[c].payment = batch[b].payment)
            /\ ~(MarkFailed(b) /\ batch[c].payment = batch[b].payment)
        BY <3>1 DEF MarkApproved, MarkFailed, AtRun, FailInv, OwnPayments, Charging
      <4> QED
        BY <1>2, <1>4, <3>1, <4>1, RunPayments
    <3> QED
      BY <1>1, <1>4, <3>1, RunMoves, WaitingBacked
  <2>2. /\ RunBacked(batch'[b], Losses', LossesBut', payments')
        /\ \A s \in SubId : Counted(subs'[s], Losses'[s])
    BY <1>1, <1>4, RunCounts
  <2>3. \A q \in Requests : RequestBacked(req'[q], Losses')
    BY <1>1, <1>4, RunMoves, WaitingBacked
  <2> QED
    BY <1>4, <2>1, <2>2, <2>3, PaymentsStayOwn DEF FailInv
<1>5. CASE (\E u \in Users : Withdraw(u)) \/ Tick \/ UNCHANGED vars
  <2>1. UNCHANGED <<subs, payments, req, batch>>
    BY <1>5 DEF Withdraw, Tick, vars, tables
  <2> QED
    BY <1>1, <2>1, WaitingBacked DEF FailInv, OwnPayments
<1>6. CASE Restart
  <2>1. /\ subs' = subs /\ \A r \in Requests : req'[r].pc = "idle"
        /\ \A b \in Batches : batch'[b].pc = "idle" /\ batch'[b].todo = {}
    BY <1>6 DEF Restart, tables, IdleRequest, IdleRun
  <2> QED
    BY <1>1, <2>1, WaitingBacked DEF FailInv, OwnPayments, RequestBacked, RunBacked, Charging
<1> QED
  BY <1>3, <1>4, <1>5, <1>6 DEF Next

LEMMA FailInit == Init => FailInv
<1> SUFFICES ASSUME Init PROVE FailInv
  OBVIOUS
<1>1. \A s \in SubId : subs[s].failed = 0 /\ subs[s].status # "EXPIRED"
  BY DEF Init, InitTables, NewSub, NoSub
<1>2. \A s \in SubId : Counted(subs[s], Losses[s])
  BY <1>1, LossesTyped DEF Counted
<1> QED
  BY <1>2
  DEF Init, FailInv, OwnPayments, RequestBacked, RunBacked, Charging, IdleRequest, IdleRun

(* An expired subscription has lost MAX_BILLING_FAILURE_COUNT charges,     *)
(* whichever copies the runs and requests that wrote it had               *)
(* (recordBillingFailure, updateSubscription).                             *)
THEOREM ExpiryIsDeserved == Spec => []ExpiredOnlyAfterMaxFailures
<1>1. Spec => [](PaidInv /\ FailInv)
  <2>1. PaidInv /\ FailInv /\ IInv /\ [Next]_vars => (PaidInv /\ FailInv)'
    BY PaidNext, FailNext
  <2> QED
    BY <2>1, InductiveInvariant, PaidInit, FailInit, PTL DEF Spec
<1>2. FailInv => ExpiredOnlyAfterMaxFailures
  <2> SUFFICES ASSUME FailInv, NEW s \in SubId, subs[s].status = "EXPIRED"
               PROVE  Cardinality(FailedCharges(s)) >= MaxFailures
    BY DEF ExpiredOnlyAfterMaxFailures
  <2>1. MaxFailures <= Losses[s]
    BY DEF FailInv, Counted
  <2>2. /\ Settled(s) \subseteq FailedCharges(s) /\ FailedCharges(s) \subseteq PaymentId
        /\ Losses[s] = Cardinality(Settled(s))
    BY DEF Settled, FailedCharges, Losses
  <2>3. /\ Cardinality(Settled(s)) <= Cardinality(FailedCharges(s))
        /\ Cardinality(Settled(s)) \in Nat /\ Cardinality(FailedCharges(s)) \in Nat
    BY <2>2, MoreIsMore, PaymentsAreFew
  <2> QED
    BY <2>1, <2>2, <2>3, BillingAssumption
<1> QED
  BY <1>1, <1>2, PTL

-----------------------------------------------------------------------------
(* Steps that end a subscription.                                          *)

(* PRO ends with a subscription, and a subscription that expires ends PRO: *)
(* the two writes of completeCanceledSubscription and recordBillingFailure *)
(* come together or not at all, for any number of overlapping runs.        *)
THEOREM DowngradesAreAtomic == Spec => DowngradeIsAtomic
<1> DEFINE Atomic ==
      /\ \A u \in Users : plan[u] = "PRO" /\ plan'[u] = "FREE" => Ends(u)
      /\ \A s \in SubId :
           subs[s].status # "EXPIRED" /\ subs'[s].status = "EXPIRED"
             => plan'[subs[s].user] = "FREE" \/ CopiesExpiry(s)
<1>1. ASSUME IInv, [Next]_vars PROVE [Atomic]_vars
  <2>0. /\ plan \in [Users -> {"FREE", "PRO"}] /\ subs \in [SubId -> SubRow]
        /\ batch \in [Batches -> Run] /\ req \in [Requests -> Request]
    BY <1>1 DEF IInv, TypeOK
  <2>1. ASSUME plan' = plan, \A s \in SubId : subs'[s].status = "EXPIRED" =>
                               subs[s].status = "EXPIRED" \/ CopiesExpiry(s)
        PROVE  Atomic
    BY <2>0, <2>1
  <2>2. ASSUME NEW b \in Batches, Expire(b) PROVE Atomic
    <3> DEFINE x == batch[b]
               row == [x.row EXCEPT !.status = "EXPIRED", !.failed = FailedAttempts(b)]
    <3>1. /\ IsSubOf(x.sub, x.snap.user) /\ x.row.user = x.snap.user /\ x.row \in SubRow
          /\ x.snap.user \in Users
      BY <1>1, <2>0, <2>2
      DEF IInv, Consistent, RunOK, RowsOK, Expire, AtRun, Working, BatchPc, IsSubOf, Run
    <3>2. row.status = "EXPIRED" /\ row.user = x.snap.user
      BY <3>1 DEF SubRow
    <3>3. subs' = [subs EXCEPT ![x.sub] = row] /\ plan' = [plan EXCEPT ![x.snap.user] = "FREE"]
      BY <2>2 DEF Expire
    <3> HIDE DEF row
    <3>4. /\ x.sub \in SubId /\ subs'[x.sub] = row /\ subs[x.sub].user = x.snap.user
          /\ \A s \in SubId : s # x.sub => subs'[s] = subs[s]
      BY <2>0, <3>1, <3>3 DEF IsSubOf
    <3>5. plan'[x.snap.user] = "FREE" /\ \A u \in Users : u # x.snap.user => plan'[u] = plan[u]
      BY <2>0, <3>1, <3>3
    <3>6. Ends(x.snap.user)
      BY <3>2, <3>4 DEF Ends
    <3> QED
      BY <3>4, <3>5, <3>6
  <2>3. ASSUME NEW b \in Batches, Complete(b) PROVE Atomic
    <3> DEFINE x == batch[b]
               row == [x.row EXCEPT !.status = "CANCELED", !.isCanceled = FALSE]
    <3>1. /\ IsSubOf(x.sub, x.snap.user) /\ x.row.user = x.snap.user /\ x.row \in SubRow
          /\ x.snap.user \in Users
      BY <1>1, <2>0, <2>3
      DEF IInv, Consistent, RunOK, RowsOK, Complete, AtRun, Working, BatchPc, IsSubOf, Run
    <3>2. row.status = "CANCELED" /\ row.user = x.snap.user
      BY <3>1 DEF SubRow
    <3>3. subs' = [subs EXCEPT ![x.sub] = row] /\ plan' = [plan EXCEPT ![x.snap.user] = "FREE"]
      BY <2>3 DEF Complete
    <3> HIDE DEF row
    <3>4. /\ x.sub \in SubId /\ subs'[x.sub] = row
          /\ \A s \in SubId : s # x.sub => subs'[s] = subs[s]
      BY <2>0, <3>1, <3>3 DEF IsSubOf
    <3>5. \A u \in Users : u # x.snap.user => plan'[u] = plan[u]
      BY <2>0, <3>1, <3>3
    <3>6. Ends(x.snap.user)
      BY <3>2, <3>4 DEF Ends
    <3> QED
      BY <3>2, <3>4, <3>5, <3>6
  <2>4. ASSUME NEW b \in Batches, SaveFailure(b) PROVE Atomic
    <3> DEFINE x == batch[b]
               row == [x.row EXCEPT !.failed = FailedAttempts(b)]
    <3>1. /\ x.row \in SubRow /\ x.pc = "recordSave" /\ FailedAttempts(b) < MaxFailures
          /\ subs' = [subs EXCEPT ![x.sub] = row] /\ plan' = plan
      BY <2>0, <2>4 DEF SaveFailure, AtRun, Run
    <3>2. row.status = x.row.status
      BY <3>1 DEF SubRow
    <3> HIDE DEF row
    <3>3. \A s \in SubId : subs'[s] = subs[s] \/ (s = x.sub /\ subs'[s] = row)
      BY <2>0, <3>1
    <3>4. x.row.status = "EXPIRED" => CopiesExpiry(x.sub)
      BY <3>1 DEF CopiesExpiry, AtRun
    <3> QED
      BY <2>1, <3>1, <3>2, <3>3, <3>4
  <2>5. ASSUME NEW b \in Batches, SaveRenewal(b) PROVE Atomic
    <3> DEFINE row == Renewed(batch[b].row, batch[b].snap, batch[b].paidAt)
    <3>1. subs' = [subs EXCEPT ![batch[b].sub] = row] /\ plan' = plan /\ batch[b].row \in SubRow
      BY <2>0, <2>5 DEF SaveRenewal, Run
    <3>2. row.status = "ACTIVE"
      BY <3>1 DEF Renewed, SubRow
    <3> HIDE DEF row
    <3>3. \A s \in SubId : subs'[s] \in {subs[s], row}
      BY <2>0, <3>1
    <3> QED
      BY <2>1, <3>1, <3>2, <3>3
  <2>6. ASSUME NEW r \in Requests, SaveSubscription(r) PROVE Atomic
    <3> DEFINE q == req[r]
               row == Edited(q.op, q.subRow)
    <3>1. /\ subs' = [subs EXCEPT ![q.sub] = row] /\ plan' = plan /\ q.subRow \in SubRow
          /\ q.op \in SubscriptionOps /\ q.pc = "subSave"
      BY <1>1, <2>0, <2>6 DEF SaveSubscription, At, IInv, Consistent, RequestOK, Request
    <3>2. row.status \in {q.subRow.status, "CANCELED"}
      BY <3>1 DEF Edited, SubRow, SubscriptionOps
    <3> HIDE DEF row
    <3>3. \A s \in SubId : subs'[s] = subs[s] \/ (s = q.sub /\ subs'[s] = row)
      BY <2>0, <3>1
    <3>4. q.subRow.status = "EXPIRED" => CopiesExpiry(q.sub)
      BY <3>1 DEF CopiesExpiry, At
    <3> QED
      BY <2>1, <3>1, <3>2, <3>3, <3>4
  <2>7. ASSUME NEW r \in Requests, CommitApproval(r) PROVE Atomic
    <3> DEFINE q == req[r]
               row == IF q.sub = NoId THEN NewSub(q.user, q.startedAt + Month)
                      ELSE Activated(q.subRow, q.startedAt)
    <3>1. PICK s : subs' = [subs EXCEPT ![s] = row]
      BY <2>7 DEF CommitApproval
    <3>2. plan' = [plan EXCEPT ![q.user] = "PRO"] /\ q.subRow \in SubRow
      BY <2>0, <2>7 DEF CommitApproval, Request
    <3>3. row.status = "ACTIVE"
      BY <3>2 DEF NewSub, Activated, SubRow
    <3> HIDE DEF row
    <3>4. \A i \in SubId : subs'[i] \in {subs[i], row}
      BY <2>0, <3>1
    <3>5. \A u \in Users : plan'[u] \in {plan[u], "PRO"}
      BY <2>0, <3>2
    <3> QED
      BY <3>3, <3>4, <3>5
  <2>8. CASE UNCHANGED <<plan, subs>>
    BY <2>1, <2>8
  <2>9. \/ UNCHANGED <<plan, subs>>
        \/ \E r \in Requests : SaveSubscription(r) \/ CommitApproval(r)
        \/ \E b \in Batches : SaveRenewal(b) \/ SaveFailure(b) \/ Expire(b) \/ Complete(b)
    <3>1. ASSUME NEW r \in Requests, RequestStep(r)
          PROVE  UNCHANGED <<plan, subs>> \/ SaveSubscription(r) \/ CommitApproval(r)
      BY <3>1
      DEF RequestStep, Ready, ReadyMethodChange, InsertReady, ReadyAnswered, ReadyRefused,
          Approve, ApproveMethodChange, StartApproval, ProviderApproves, ProviderRefuses,
          ProviderAnswerLost, FindActive, SeeMethods, LoadActive, CommitMethodChange,
          RollBackApproval, CheckResult, LoadResult, SaveResult, FindSubscription,
          LoadSubscription, tables
    <3>2. ASSUME NEW b \in Batches, StartRun(b) \/ RunStep(b)
          PROVE  \/ UNCHANGED <<plan, subs>>
                 \/ SaveRenewal(b) \/ SaveFailure(b) \/ Expire(b) \/ Complete(b)
      BY <3>2
      DEF RunStep, StartRun, EndRun, PickCanceled, PickCharge, Charge, ChargeAnswerLost,
          ChargeRefused, MarkApproved, BookkeepingFails, LoadRow, MarkFailed, AbortRun, tables
    <3>3. CASE (\E u \in Users : Withdraw(u)) \/ Tick \/ Restart \/ UNCHANGED vars
      BY <3>3 DEF Withdraw, Tick, Restart, vars, tables
    <3> QED
      BY <1>1, <3>1, <3>2, <3>3 DEF Next
  <2> QED
    BY <2>2, <2>3, <2>4, <2>5, <2>6, <2>7, <2>8, <2>9
<1>2. Spec => [][Atomic]_vars
  <2>1. IInv /\ [Next]_vars => [Atomic]_vars
    BY <1>1
  <2> QED
    BY <2>1, InductiveInvariant, PTL DEF Spec
<1> QED
  BY <1>2 DEF DowngradeIsAtomic

-----------------------------------------------------------------------------
(* Charges of one run at a time: ChargeInv is inductive, if no request     *)
(* revives a subscription that a run has picked.                           *)

NoRevivals == {"approve", "undoCancel"} \cap Ops = {}

(* No fee becomes approved in this step, and none changes otherwise.       *)
NoNewApproval ==
    \A s \in SubId : \A a \in Approvals(s)' :
        a \in Approvals(s) /\ payments'[a].approvedAt = payments[a].approvedAt

(* What was over stays over, and a row still covers what it covered.       *)
LEMMA OverStays ==
    ASSUME IInv, NoNewApproval, NEW s \in SubId, NEW p, NEW n \in Nat, NEW m \in Nat, n <= m,
           OverBy(s, p, n)
    PROVE  OverBy(s, p, m)'
<1>1. ASSUME NEW a \in Approvals(s)' \ {p}
      PROVE  payments'[a].approvedAt + Month <= m
  <2>1. a \in Approvals(s) \ {p} /\ payments'[a].approvedAt = payments[a].approvedAt
    BY <1>1 DEF NoNewApproval
  <2>2. payments[a].approvedAt \in Nat /\ Month \in Nat
    BY <2>1, BillingAssumption DEF IInv, TypeOK, Approvals, PaymentRow
  <2> QED
    BY <2>1, <2>2 DEF OverBy
<1> QED
  BY <1>1 DEF OverBy

LEMMA CoverStays ==
    ASSUME IInv, NoNewApproval, NEW s \in SubId, NEW p, NEW row \in SubRow, Covers(row, s, p)
    PROVE  Covers(row, s, p)'
<1>1. row.periodEnd \in Nat
  BY DEF SubRow
<1>2. CASE row.status = "ACTIVE" /\ ~row.isCanceled
  <2>1. OverBy(s, p, row.periodEnd)
    BY <1>2 DEF Covers
  <2>2. OverBy(s, p, row.periodEnd)'
    BY <1>1, <2>1, OverStays
  <2> QED
    BY <2>2 DEF Covers
<1>3. CASE ~(row.status = "ACTIVE" /\ ~row.isCanceled)
  BY <1>3 DEF Covers
<1> QED
  BY <1>2, <1>3

(* So a run that does not move stays as it is, whatever requests and time  *)
(* do.                                                                     *)
LEMMA RunStillCharges ==
    ASSUME IInv, NoNewApproval, now' \in Nat, now' >= now, NEW b \in Batches,
           batch'[b] = batch[b], RunCharges(batch[b])
    PROVE  RunCharges(batch[b])'
<1> DEFINE x == batch[b]
<1>1. /\ x \in Run /\ now \in Nat /\ \A t \in x.todo : t.id \in SubId
      /\ x.sub \in SubId \cup {NoId} /\ x.row \in SubRow /\ x.paidAt \in Nat
      /\ x.pc \in {"charge", "recordSave"} \cup Paid => x.sub \in SubId
  BY DEF IInv, Consistent, TypeOK, Run, Target, RunOK, IsSubOf, Working, Paid, BatchPc
<1>2. \A t \in x.todo : ~t.row.isCanceled => OverBy(t.id, NoId, now)'
  BY <1>1, OverStays DEF RunCharges
<1>3. x.pc = "charge" => OverBy(x.sub, NoId, now)'
  BY <1>1, OverStays DEF RunCharges
<1>4. x.pc \in Paid => \A a \in Approvals(x.sub)' : payments'[a].approvedAt <= x.paidAt
  BY <1>1 DEF RunCharges, NoNewApproval
<1>5. x.pc = "recordSave" => Covers(x.row, x.sub, x.payment)'
  BY <1>1, CoverStays DEF RunCharges
<1>6. \A t \in x.todo : t.id # x.sub /\ \A o \in x.todo : o.id = t.id => o = t
  BY DEF RunCharges
<1> QED
  BY <1>2, <1>3, <1>4, <1>5, <1>6 DEF RunCharges

-----------------------------------------------------------------------------
(* Requests *)

LEMMA RequestChargesNext ==
    ASSUME IInv, PaidInv, ChargeInv, NEW r \in Requests, RequestStep(r)
    PROVE  RequestCharges(req[r])'
<1> DEFINE q == req[r]
<1>1. /\ req \in [Requests -> Request] /\ q \in Request /\ RequestOK(r) /\ RequestCharges(q)
      /\ payments \in [PaymentId -> PaymentRow]
  BY DEF IInv, Consistent, TypeOK, ChargeInv
<1>2. ASSUME req'[r].op \in Ops, req'[r].pc \notin Approving PROVE RequestCharges(req[r])'
  BY <1>2 DEF RequestCharges
<1>3. ASSUME Finish(r) PROVE RequestCharges(req[r])'
  BY <1>1, <1>3 DEF Finish, IdleRequest, Approving, RequestCharges
<1>4. ASSUME NEW op, NEW u, NEW s, NEW a, InsertReady(r, op, u, s, a)
      PROVE  RequestCharges(req[r])'
  <2>1. PICK p : req' = [req EXCEPT ![r] = [IdleRequest EXCEPT !.op = op, !.pc = "ready",
                                                               !.user = u, !.payment = p]]
    BY <1>4 DEF InsertReady
  <2>2. req'[r].pc = "ready" /\ req'[r].op = op /\ op \in Ops
    BY <1>1, <1>4, <2>1 DEF IdleRequest, InsertReady
  <2> QED
    BY <1>2, <2>2 DEF Approving
<1>5. ASSUME NEW p \in PaymentId, Approve(r, p)
      PROVE  RequestCharges(req[r])'
  <2>1. req'[r].pc = "provider" /\ req'[r].op = "approve" /\ "approve" \in Ops
    BY <1>1, <1>5 DEF Approve, StartApproval, IdleRequest
  <2> QED
    BY <2>1 DEF RequestCharges
<1>6. ASSUME NEW p \in PaymentId, ApproveMethodChange(r, p)
      PROVE  RequestCharges(req[r])'
  <2>1. /\ req'[r].pc = "provider" /\ req'[r].op = "approveChange" /\ req'[r].payment = p
        /\ "approveChange" \in Ops /\ payments' = payments
        /\ payments[p].amount = MethodChangeAmount
    BY <1>1, <1>6 DEF ApproveMethodChange, StartApproval, IdleRequest, tables
  <2> QED
    BY <2>1 DEF RequestCharges
<1>7. ASSUME NEW op, NEW p, CheckResult(r, op, p)
      PROVE  RequestCharges(req[r])'
  <2>1. req'[r].pc = "resultLoad" /\ req'[r].op = op /\ op \in Ops
    BY <1>1, <1>7 DEF CheckResult, IdleRequest
  <2> QED
    BY <1>2, <2>1 DEF Approving
<1>8. ASSUME NEW op, NEW u, FindSubscription(r, op, u)
      PROVE  RequestCharges(req[r])'
  <2>1. PICK s : req' = [req EXCEPT ![r] = [IdleRequest EXCEPT !.op = op, !.pc = "subLoad",
                                                               !.user = u, !.sub = s]]
    BY <1>8 DEF FindSubscription
  <2>2. req'[r].pc = "subLoad" /\ req'[r].op = op /\ op \in Ops
    BY <1>1, <1>8, <2>1 DEF IdleRequest, FindSubscription
  <2> QED
    BY <1>2, <2>2 DEF Approving
<1>9. ASSUME q.pc \in Approving, req'[r].op = q.op, req'[r].payment = q.payment,
             payments' = payments
      PROVE  RequestCharges(req[r])'
  BY <1>1, <1>9 DEF RequestCharges, Approving
<1>10. CASE ProviderApproves(r) \/ SeeMethods(r) \/ LoadActive(r)
  <2>1. /\ q.pc \in Approving /\ req'[r].op = q.op /\ req'[r].payment = q.payment
        /\ payments' = payments
    BY <1>1, <1>10 DEF ProviderApproves, SeeMethods, LoadActive, At, tables, Request, Approving
  <2> QED
    BY <1>9, <2>1
<1>11. CASE FindActive(r)
  <2>1. PICK s : req' = [req EXCEPT ![r].pc = IF s = NoId THEN "commit" ELSE "load", ![r].sub = s,
                           ![r].startedAt = now, ![r].seen = StoredMethods(req[r].user)]
    BY <1>11, Zenon DEF FindActive
  <2>2. req'[r].op = q.op /\ req'[r].payment = q.payment
    BY <1>1, <2>1 DEF Request
  <2>3. q.pc \in Approving /\ payments' = payments
    BY <1>11 DEF FindActive, At, tables, Approving
  <2> QED
    BY <1>9, <2>2, <2>3
<1>12. CASE LoadResult(r) \/ LoadSubscription(r)
  <2>1. /\ req'[r].pc \in {"resultSave", "subSave"} /\ req'[r].op = q.op
        /\ q.pc \in {"resultLoad", "subLoad"}
    BY <1>1, <1>12 DEF LoadResult, LoadSubscription, At, Request
  <2> QED
    BY <1>1, <1>2, <2>1 DEF RequestCharges, Approving
<1> QED
  BY <1>3, <1>4, <1>5, <1>6, <1>7, <1>8, <1>10, <1>11, <1>12
  DEF RequestStep, Ready, ReadyMethodChange, ReadyAnswered, ReadyRefused, ProviderRefuses,
      ProviderAnswerLost, CommitApproval, CommitMethodChange, RollBackApproval, SaveResult,
      SaveSubscription

(* An approval of a request is a change of method: no request captures a   *)
(* fee, approves one, or makes a subscription due again.                   *)
LEMMA NoFees ==
    ASSUME IInv, ChargeInv, NoRevivals, NEW r \in Requests, req[r].pc \in Approving
    PROVE  /\ req[r].op = "approveChange" /\ req[r].payment \in PaymentId
           /\ payments[req[r].payment].amount = MethodChangeAmount
<1>1. RequestOK(r) /\ RequestCharges(req[r])
  BY DEF IInv, Consistent, ChargeInv
<1> QED
  BY <1>1 DEF RequestOK, RequestCharges, Approving, NoRevivals, IsPaymentOf

LEMMA RequestApprovesNoFee ==
    ASSUME IInv, PaidInv, PeriodInv, ChargeInv, NoRevivals, NEW r \in Requests,
           RequestStep(r), NEW p \in PaymentId, payments'[p].status = "APPROVED"
    PROVE  /\ payments'[p].approvedAt <= now
           /\ \/ payments'[p].amount = MethodChangeAmount
              \/ /\ payments[p].status = "APPROVED"
                 /\ payments'[p].amount = payments[p].amount
                 /\ payments'[p].sub = payments[p].sub
                 /\ payments'[p].approvedAt = payments[p].approvedAt
<1> DEFINE q == req[r]
<1>1. /\ payments \in [PaymentId -> PaymentRow] /\ RequestOK(r) /\ q \in Request
      /\ payments[p].status = "APPROVED" => payments[p].approvedAt <= now
  BY DEF IInv, Consistent, TypeOK, ChargeInv
<1>2. ASSUME payments'[p] = payments[p]
      PROVE  payments[p].status = "APPROVED" /\ payments'[p].approvedAt <= now
  BY <1>1, <1>2
<1>3. CASE payments[p].status = "NONE"
  <2>1. p = q.payment \/ payments'[p] = payments[p] \/ payments'[p].status = "READY"
    <3>1. ASSUME NEW op, NEW u, NEW s, NEW a, InsertReady(r, op, u, s, a)
          PROVE  payments'[p] = payments[p] \/ payments'[p].status = "READY"
      BY <1>1, <3>1 DEF InsertReady, ReadyPayment
    <3> QED
      BY <1>1, <3>1
      DEF RequestStep, Ready, ReadyMethodChange, ReadyAnswered, ReadyRefused,
          Approve, ApproveMethodChange, StartApproval, ProviderApproves, ProviderRefuses,
          ProviderAnswerLost, FindActive, SeeMethods, LoadActive, CommitApproval,
          CommitMethodChange, ApprovedPayment, RollBackApproval, CheckResult, LoadResult,
          SaveResult, FindSubscription, LoadSubscription, SaveSubscription, tables
  <2>2. p # q.payment
    BY <1>1, <1>3 DEF RequestOK
  <2> QED
    BY <1>2, <1>3, <2>1, <2>2
<1>4. CASE payments[p].status # "NONE" /\ p # q.payment
  BY <1>2, <1>4, RequestPayments
<1>5. CASE payments[p].status # "NONE" /\ p = q.payment
  <2>1. CASE ReadyAnswered(r)
    <3>1. payments'[p] = [payments[p] EXCEPT !.tid = TRUE]
      BY <1>1, <1>5, <2>1 DEF ReadyAnswered
    <3> QED
      BY <1>1, <3>1 DEF PaymentRow
  <2>2. CASE ReadyRefused(r)
    BY <1>1, <1>5, <2>2 DEF ReadyRefused, PaymentRow
  <2>3. CASE SaveResult(r)
    <3>1. payments'[p] = [q.payRow EXCEPT !.status = ResultStatus(q.op)]
      BY <1>1, <1>5, <2>3 DEF SaveResult
    <3>2. q.payRow \in PaymentRow
      BY <1>1 DEF Request
    <3> QED
      BY <3>1, <3>2 DEF PaymentRow, ResultStatus
  <2>4. CASE CommitApproval(r)
    BY <2>4, NoFees DEF CommitApproval, At, Approving
  <2>5. CASE CommitMethodChange(r)
    <3>1. payments[p].amount = MethodChangeAmount /\ q.paidAt <= now
      BY <1>5, <2>5, NoFees DEF CommitMethodChange, At, Approving, PeriodInv, RequestPeriods
    <3>2. PICK m \in Fresh(methods) : payments' = ApprovedPayment(p, q.sub, m, q.paidAt)
      BY <1>5, <2>5 DEF CommitMethodChange
    <3>3. payments'[p].approvedAt = q.paidAt /\ payments'[p].amount = payments[p].amount
      BY <1>1, <3>2 DEF ApprovedPayment, PaymentRow
    <3> QED
      BY <3>1, <3>3
  <2>6. CASE payments'[p] = payments[p]
    BY <1>2, <2>6
  <2>7. ASSUME NEW op, NEW u, NEW s, NEW a, InsertReady(r, op, u, s, a)
        PROVE  payments'[p] = payments[p]
    <3>1. PICK i \in Fresh(payments) :
            payments' = [payments EXCEPT ![i] = ReadyPayment(u, s, NoId, a)]
      BY <2>7 DEF InsertReady
    <3> QED
      BY <1>1, <1>5, <3>1 DEF Fresh
  <2> QED
    BY <2>1, <2>2, <2>3, <2>4, <2>5, <2>6, <2>7
    DEF RequestStep, Ready, ReadyMethodChange, Approve, ApproveMethodChange, StartApproval,
        ProviderApproves, ProviderRefuses, ProviderAnswerLost, FindActive, SeeMethods,
        LoadActive, RollBackApproval, CheckResult, LoadResult, FindSubscription,
        LoadSubscription, SaveSubscription, tables
<1> QED
  BY <1>3, <1>4, <1>5

LEMMA RequestKeepsSubs ==
    ASSUME IInv, ChargeInv, NoRevivals, NEW r \in Requests, RequestStep(r), NEW s \in SubId
    PROVE  subs'[s] = subs[s] \/ ~(subs'[s].status = "ACTIVE" /\ ~subs'[s].isCanceled)
<1> DEFINE q == req[r]
<1>1. /\ subs \in [SubId -> SubRow] /\ q.subRow \in SubRow /\ RequestOK(r) /\ RequestCharges(q)
  BY DEF IInv, Consistent, TypeOK, ChargeInv, Request
<1>2. CASE SaveSubscription(r)
  <2>1. q.op \in {"cancelAtEnd", "cancelNow"}
    BY <1>1, <1>2
    DEF SaveSubscription, At, RequestOK, RequestCharges, SubscriptionOps, NoRevivals
  <2>2. /\ Edited(q.op, q.subRow) \in SubRow
        /\ ~(Edited(q.op, q.subRow).status = "ACTIVE" /\ ~Edited(q.op, q.subRow).isCanceled)
    BY <1>1, <2>1 DEF Edited, SubRow
  <2>3. subs' = [subs EXCEPT ![q.sub] = Edited(q.op, q.subRow)]
    BY <1>2 DEF SaveSubscription
  <2> QED
    BY <1>1, <2>2, <2>3
<1>3. CASE CommitApproval(r)
  BY <1>3, NoFees DEF CommitApproval, At, Approving
<1>4. CASE ~SaveSubscription(r) /\ ~CommitApproval(r)
  BY <1>4
  DEF RequestStep, Ready, ReadyMethodChange, InsertReady, ReadyAnswered, ReadyRefused,
      Approve, ApproveMethodChange, StartApproval, ProviderApproves, ProviderRefuses,
      ProviderAnswerLost, FindActive, SeeMethods, LoadActive, CommitMethodChange,
      RollBackApproval, CheckResult, LoadResult, SaveResult, FindSubscription,
      LoadSubscription, tables
<1> QED
  BY <1>2, <1>3, <1>4

LEMMA RequestKeepsCharges ==
    ASSUME IInv, IInv', PaidInv, PeriodInv, ChargeInv, NoRevivals, NEW r \in Requests,
           RequestStep(r)
    PROVE  ChargeInv'
<1>1. /\ UNCHANGED <<batch, now>> /\ \A q \in Requests \ {r} : req'[q] = req[q]
      /\ now \in Nat /\ subs \in [SubId -> SubRow] /\ payments' \in [PaymentId -> PaymentRow]
  BY RequestMoves DEF IInv, TypeOK
<1>2. crashes' = crashes
  BY DEF RequestStep, Ready, ReadyMethodChange, InsertReady, ReadyAnswered, ReadyRefused,
         Approve, ApproveMethodChange, StartApproval, ProviderApproves, ProviderRefuses,
         ProviderAnswerLost, FindActive, SeeMethods, LoadActive, CommitApproval,
         CommitMethodChange, RollBackApproval, CheckResult, LoadResult, SaveResult,
         FindSubscription, LoadSubscription, SaveSubscription
<1>3. NoNewApproval
  <2> SUFFICES ASSUME NEW s \in SubId, NEW a \in Approvals(s)'
               PROVE  a \in Approvals(s) /\ payments'[a].approvedAt = payments[a].approvedAt
    BY DEF NoNewApproval
  <2>1. /\ a \in PaymentId /\ payments'[a].status = "APPROVED" /\ payments'[a].sub = s
        /\ payments'[a].amount = ProPlanAmount
    BY DEF Approvals
  <2>2. MethodChangeAmount # ProPlanAmount
    BY DEF MethodChangeAmount, ProPlanAmount
  <2> QED
    BY <2>1, <2>2, RequestApprovesNoFee DEF Approvals
<1>4. \A p \in PaymentId :
        payments'[p].status = "APPROVED" => payments'[p].approvedAt <= now'
  BY <1>1, RequestApprovesNoFee
<1>5. ASSUME NEW q \in Requests PROVE RequestCharges(req[q])'
  <2>1. CASE q = r
    BY <2>1, RequestChargesNext
  <2>2. CASE q # r
    <3>1. req'[q] = req[q] /\ RequestCharges(req[q]) /\ RequestOK(q)
      BY <1>1, <2>2 DEF ChargeInv, IInv, Consistent
    <3>2. req[q].pc \in Approving =>
            payments'[req[q].payment].amount = payments[req[q].payment].amount
      BY <3>1, RequestPayments DEF RequestOK, IsPaymentOf
    <3> QED
      BY <3>1, <3>2 DEF RequestCharges
  <2> QED
    BY <2>1, <2>2
<1>6. ASSUME crashes' = 0, NEW b \in Batches
      PROVE  RunCharges(batch[b])' /\ \A s \in SubId : Covers(subs[s], s, Unrenewed(batch[b]))'
  <2>1. RunCharges(batch[b]) /\ \A s \in SubId : Covers(subs[s], s, Unrenewed(batch[b]))
    BY <1>2, <1>6 DEF ChargeInv
  <2>2. RunCharges(batch[b])'
    BY <1>1, <1>3, <2>1, RunStillCharges
  <2>3. ASSUME NEW s \in SubId PROVE Covers(subs[s], s, Unrenewed(batch[b]))'
    <3>1. CASE subs'[s] = subs[s]
      <4>1. Covers(subs[s], s, Unrenewed(batch[b])) /\ subs[s] \in SubRow
        BY <1>1, <2>1
      <4>2. Unrenewed(batch[b])' = Unrenewed(batch[b])
        BY <1>1 DEF Unrenewed
      <4>3. OverBy(s, Unrenewed(batch[b]), subs[s].periodEnd)
              => OverBy(s, Unrenewed(batch[b]), subs[s].periodEnd)'
        <5>1. subs[s].periodEnd \in Nat /\ subs'[s].periodEnd = subs[s].periodEnd
          BY <3>1, <4>1 DEF SubRow
        <5>2. ASSUME NEW p, OverBy(s, p, subs[s].periodEnd)
              PROVE  \A a \in Approvals(s)' \ {p} :
                        payments'[a].approvedAt + Month <= subs[s].periodEnd
          BY <1>3, <5>2 DEF NoNewApproval, OverBy
        <5> QED
          BY <4>2, <5>1, <5>2 DEF OverBy
      <4> QED
        BY <3>1, <4>1, <4>3 DEF Covers
    <3>2. CASE ~(subs'[s].status = "ACTIVE" /\ ~subs'[s].isCanceled)
      BY <3>2 DEF Covers
    <3> QED
      BY <3>1, <3>2, RequestKeepsSubs
  <2> QED
    BY <2>2, <2>3
<1> QED
  BY <1>4, <1>5, <1>6 DEF ChargeInv

-----------------------------------------------------------------------------
(* Runs *)

(* A run gets no payment approved but its own, which is a fee for the      *)
(* subscription that it works on.                                          *)
LEMMA RunApproves ==
    ASSUME IInv, PeriodInv, FailInv, ChargeInv, NEW b \in Batches, StartRun(b) \/ RunStep(b)
    PROVE  /\ \A s \in SubId : \A a \in Approvals(s)' :
                \/ a \in Approvals(s) /\ payments'[a].approvedAt = payments[a].approvedAt
                \/ /\ MarkApproved(b) /\ a = batch[b].payment /\ s = batch[b].sub
                   /\ payments'[a].approvedAt = batch[b].paidAt
           /\ \A p \in PaymentId : payments'[p].status = "APPROVED" =>
                payments'[p].approvedAt <= now
<1> DEFINE x == batch[b]
<1>1. /\ payments \in [PaymentId -> PaymentRow] /\ x.paidAt <= now /\ x \in Run
      /\ RunOK(b) /\ RunBacked(x, Losses, LossesBut, payments)
      /\ \A p \in PaymentId : payments[p].status = "APPROVED" => payments[p].approvedAt <= now
  BY DEF IInv, Consistent, TypeOK, PeriodInv, RunPeriods, FailInv, ChargeInv
<1>2. CASE MarkApproved(b)
  <2>1. /\ x.payment \in PaymentId /\ payments[x.payment].sub = x.sub
        /\ payments' = [payments EXCEPT ![x.payment].status = "APPROVED",
                                        ![x.payment].tid = TRUE,
                                        ![x.payment].approvedAt = x.paidAt]
    BY <1>1, <1>2
    DEF MarkApproved, AtRun, RunOK, RunBacked, Charging, IsPaymentOf
  <2>2. /\ payments'[x.payment].approvedAt = x.paidAt /\ payments'[x.payment].sub = x.sub
        /\ \A p \in PaymentId \ {x.payment} : payments'[p] = payments[p]
    BY <1>1, <2>1 DEF PaymentRow
  <2> HIDE DEF x
  <2>3. x = batch[b]
    BY DEF x
  <2> QED
    BY <1>1, <1>2, <2>2, <2>3 DEF Approvals
<1>3. CASE ~MarkApproved(b)
  <2>1. ASSUME NEW p \in PaymentId, payments'[p].status = "APPROVED"
        PROVE  payments'[p] = payments[p]
    <3>1. CASE MarkFailed(b)
      <4>1. x.payment \in PaymentId
        BY <1>1, <3>1 DEF MarkFailed, AtRun, RunOK, Charging, IsPaymentOf
      <4>2. payments'[x.payment].status = "FAILED"
        BY <1>1, <3>1, <4>1 DEF MarkFailed, PaymentRow
      <4> QED
        BY <2>1, <3>1, <4>1, <4>2 DEF MarkFailed
    <3>2. CASE PickCharge(b)
      <4>1. PICK i \in Fresh(payments), u \in {t.row.user : t \in x.todo},
                 s \in {t.id : t \in x.todo} :
              \E m : payments' = [payments EXCEPT ![i] = ReadyPayment(u, s, m, ProPlanAmount)]
        BY <3>2 DEF PickCharge, Earliest
      <4> QED
        BY <1>1, <2>1, <4>1 DEF ReadyPayment
    <3>3. CASE ~MarkFailed(b) /\ ~PickCharge(b)
      BY <1>3, <3>3
      DEF RunStep, StartRun, EndRun, PickCanceled, Charge, ChargeAnswerLost, ChargeRefused,
          BookkeepingFails, LoadRow, SaveRenewal, SaveFailure, Expire, Complete, AbortRun,
          tables
    <3> QED
      BY <3>1, <3>2, <3>3
  <2> QED
    BY <1>1, <1>3, <2>1 DEF Approvals
<1> QED
  BY <1>2, <1>3

(* A row that the step leaves alone covers what it covered, as long as the *)
(* run does not leave an approved payment behind without renewing for it.  *)
LEMMA CoveredAgain ==
    ASSUME IInv, NEW b \in Batches, NEW s \in SubId, subs'[s] = subs[s],
           Covers(subs[s], s, Unrenewed(batch[b])),
           \A a \in Approvals(s)' : a # Unrenewed(batch'[b]) =>
              /\ a \in Approvals(s) /\ a # Unrenewed(batch[b])
              /\ payments'[a].approvedAt = payments[a].approvedAt
    PROVE  Covers(subs[s], s, Unrenewed(batch[b]))'
<1>1. Unrenewed(batch[b])' = Unrenewed(batch'[b])
  BY DEF Unrenewed
<1>2. subs[s].status = "ACTIVE" /\ ~subs[s].isCanceled =>
        \A a \in Approvals(s)' \ {Unrenewed(batch'[b])} :
           payments'[a].approvedAt + Month <= subs[s].periodEnd
  BY DEF Covers, OverBy
<1> QED
  BY <1>1, <1>2 DEF Covers, OverBy

(* A step of a run leaves its list, takes a target from it, or forgets     *)
(* what it has picked.                                                     *)
LEMMA RunPicks ==
    ASSUME IInv, NEW b \in Batches, RunStep(b)
    PROVE  \/ batch'[b].todo = batch[b].todo /\ batch'[b].sub = batch[b].sub
           \/ batch'[b].todo \in {batch[b].todo, {}} /\ batch'[b].sub = NoId
           \/ \E t \in batch[b].todo :
                batch'[b].todo = batch[b].todo \ {t} /\ batch'[b].sub = t.id
<1> DEFINE x == batch[b]
<1>1. batch \in [Batches -> Run] /\ x \in Run
  BY DEF IInv, TypeOK
<1>2. ASSUME NextTarget(b)
      PROVE  batch'[b].todo = x.todo /\ batch'[b].sub = NoId
  BY <1>1, <1>2 DEF NextTarget, IdleRun
<1>3. CASE EndRun(b) \/ AbortRun(b)
  BY <1>1, <1>3 DEF EndRun, AbortRun, IdleRun
<1>4. CASE PickCanceled(b)
  <2>1. PICK t \in x.todo :
          batch' = [batch EXCEPT ![b].pc = "complete", ![b].todo = @ \ {t},
                                 ![b].sub = t.id, ![b].snap = t.row]
    BY <1>4 DEF PickCanceled, Earliest
  <2>2. batch'[b].todo = x.todo \ {t} /\ batch'[b].sub = t.id
    BY <1>1, <2>1 DEF Run
  <2> QED
    BY <2>2
<1>5. CASE PickCharge(b)
  <2>1. PICK t \in x.todo, p \in Fresh(payments) :
          batch' = [batch EXCEPT ![b].pc = "charge", ![b].todo = @ \ {t}, ![b].sub = t.id,
                                 ![b].snap = t.row, ![b].payment = p]
    BY <1>5 DEF PickCharge, Earliest
  <2>2. batch'[b].todo = x.todo \ {t} /\ batch'[b].sub = t.id
    BY <1>1, <2>1 DEF Run
  <2> QED
    BY <2>2
<1>6. CASE \/ Charge(b) \/ ChargeAnswerLost(b) \/ ChargeRefused(b) \/ MarkApproved(b)
           \/ BookkeepingFails(b) \/ MarkFailed(b)
  BY <1>1, <1>6
  DEF Charge, ChargeAnswerLost, ChargeRefused, MarkApproved, BookkeepingFails, MarkFailed, Run
<1>7. CASE LoadRow(b)
  BY <1>1, <1>7 DEF LoadRow, Run
<1> QED
  BY <1>2, <1>3, <1>4, <1>5, <1>6, <1>7
  DEF RunStep, SaveRenewal, SaveFailure, Expire, Complete

(* What a run has picked it has taken off its list.                        *)
LEMMA TodoCharges ==
    ASSUME IInv, PeriodInv, FailInv, ChargeInv, crashes = 0, NEW b \in Batches,
           StartRun(b) \/ RunStep(b), NEW t \in batch'[b].todo
    PROVE  /\ t.id # batch'[b].sub
           /\ \A o \in batch'[b].todo : o.id = t.id => o = t
           /\ ~t.row.isCanceled => OverBy(t.id, NoId, now)'
<1> DEFINE x == batch[b]
<1>1. /\ batch \in [Batches -> Run] /\ x \in Run /\ RunCharges(x) /\ now' = now
      /\ \A s \in SubId : Covers(subs[s], s, Unrenewed(x))
      /\ now \in Nat /\ subs \in [SubId -> SubRow] /\ NoId \notin SubId
  BY RunMoves, NoIdIsNoRow DEF IInv, TypeOK, ChargeInv
<1>2. CASE StartRun(b)
  <2>1. /\ x.pc = "idle" /\ payments' = payments /\ subs' = subs
        /\ batch'[b].todo = BillingTargets /\ batch'[b].sub = NoId
    BY <1>1, <1>2 DEF StartRun, AtRun, tables, IdleRun
  <2>2. /\ t.id \in SubId /\ t.row = subs[t.id] /\ t.row.status = "ACTIVE"
        /\ t.row.periodEnd <= now
    BY <2>1 DEF BillingTargets, DueSubs
  <2>3. \A o \in BillingTargets : o.id = t.id => o = t
    BY <2>1 DEF BillingTargets
  <2>4. ~t.row.isCanceled => OverBy(t.id, NoId, now)
    <3>1. Covers(subs[t.id], t.id, NoId)
      BY <1>1, <2>1, <2>2 DEF Unrenewed, Charging
    <3>2. \A a \in Approvals(t.id) : payments[a].approvedAt + Month \in Nat
      BY BillingAssumption DEF IInv, TypeOK, PaymentRow, Approvals
    <3>3. t.row.periodEnd \in Nat
      BY <1>1, <2>2 DEF SubRow
    <3> QED
      BY <1>1, <2>2, <3>1, <3>2, <3>3 DEF Covers, OverBy
  <2>5. OverBy(t.id, NoId, now)' <=> OverBy(t.id, NoId, now)
    BY <1>1, <2>1 DEF OverBy, Approvals
  <2> QED
    BY <1>1, <2>1, <2>2, <2>3, <2>4, <2>5
<1>3. CASE RunStep(b)
  <2>1. t \in x.todo /\ \A o \in batch'[b].todo : o \in x.todo
    BY <1>3, RunPicks
  <2>2. /\ t.id \in SubId /\ t.id # x.sub /\ \A o \in x.todo : o.id = t.id => o = t
        /\ ~t.row.isCanceled => OverBy(t.id, NoId, now)
    BY <1>1, <2>1 DEF RunCharges, Run, Target
  <2>3. t.id # batch'[b].sub
    BY <1>1, <1>3, <2>1, <2>2, RunPicks
  <2>4. \A a \in Approvals(t.id)' :
          a \in Approvals(t.id) /\ payments'[a].approvedAt = payments[a].approvedAt
    BY <1>3, <2>2, RunApproves
  <2>5. ~t.row.isCanceled => OverBy(t.id, NoId, now)'
    BY <1>1, <2>2, <2>4 DEF OverBy
  <2> QED
    BY <2>1, <2>2, <2>3, <2>5
<1> QED
  BY <1>2, <1>3

(* When a run charges a subscription, every fee for it is over; when it    *)
(* has charged, none was approved later; and when it saves a failure, the  *)
(* row that it loaded covers them all.                                     *)
LEMMA RunChargesNext ==
    ASSUME IInv, PeriodInv, FailInv, ChargeInv, crashes = 0, NEW b \in Batches,
           StartRun(b) \/ RunStep(b)
    PROVE  RunCharges(batch[b])'
<1> DEFINE x == batch[b]
<1>1. /\ batch \in [Batches -> Run] /\ x \in Run /\ RunCharges(x) /\ now' = now
      /\ \A s \in SubId : Covers(subs[s], s, Unrenewed(x))
      /\ now \in Nat /\ NoId \notin SubId /\ RunOK(b)
      /\ \A p \in PaymentId : payments[p].status = "APPROVED" => payments[p].approvedAt <= now
  BY RunMoves, NoIdIsNoRow DEF IInv, Consistent, TypeOK, ChargeInv
<1>2. ASSUME batch'[b].pc = "charge" => OverBy(batch[b].sub, NoId, now)',
             batch'[b].pc \in Paid => \A a \in Approvals(batch[b].sub)' :
                                         payments'[a].approvedAt <= batch'[b].paidAt,
             batch'[b].pc = "recordSave" => Covers(batch[b].row, batch[b].sub, batch[b].payment)'
      PROVE  RunCharges(batch[b])'
  <2>1. \A t \in batch'[b].todo :
          /\ t.id # batch'[b].sub /\ \A o \in batch'[b].todo : o.id = t.id => o = t
          /\ ~t.row.isCanceled => OverBy(t.id, NoId, now)'
    BY TodoCharges
  <2> QED
    BY <1>2, <2>1 DEF RunCharges
<1>3. ASSUME batch'[b].pc \notin {"charge", "recordSave"} \cup Paid
      PROVE  RunCharges(batch[b])'
  BY <1>2, <1>3
<1>4. ASSUME NextTarget(b) PROVE RunCharges(batch[b])'
  <2>1. batch'[b].pc = "pick"
    BY <1>1, <1>4 DEF NextTarget, IdleRun
  <2> QED
    BY <1>3, <2>1 DEF Paid
<1>5. CASE EndRun(b) \/ AbortRun(b) \/ StartRun(b)
  <2>1. ASSUME EndRun(b) \/ AbortRun(b) PROVE batch'[b].pc = "idle"
    <3>1. batch' = [batch EXCEPT ![b] = IdleRun]
      BY <2>1 DEF EndRun, AbortRun
    <3> QED
      BY <1>1, <3>1 DEF IdleRun
  <2>2. ASSUME StartRun(b) PROVE batch'[b].pc = "pick"
    <3>1. \E todo : batch' = [batch EXCEPT ![b] = [IdleRun EXCEPT !.pc = "pick", !.todo = todo]]
      BY <2>2 DEF StartRun
    <3> QED
      BY <1>1, <3>1 DEF IdleRun
  <2> QED
    BY <1>3, <1>5, <2>1, <2>2 DEF Paid
<1>6. CASE PickCanceled(b)
  <2>1. PICK t \in x.todo :
          batch' = [batch EXCEPT ![b].pc = "complete", ![b].todo = @ \ {t},
                                 ![b].sub = t.id, ![b].snap = t.row]
    BY <1>6 DEF PickCanceled, Earliest
  <2>2. batch'[b].pc = "complete"
    BY <1>1, <2>1 DEF Run
  <2> QED
    BY <1>3, <2>2 DEF Paid
<1>7. CASE PickCharge(b)
  <2>1. PICK t \in x.todo, p \in Fresh(payments) :
          /\ batch' = [batch EXCEPT ![b].pc = "charge", ![b].todo = @ \ {t}, ![b].sub = t.id,
                                    ![b].snap = t.row, ![b].payment = p]
          /\ ~t.row.isCanceled
    BY <1>7 DEF PickCharge, Earliest
  <2>2. batch'[b].pc = "charge" /\ batch'[b].sub = t.id /\ t.id \in SubId
    BY <1>1, <2>1 DEF Run, Target
  <2>3. OverBy(t.id, NoId, now)
    BY <1>1, <2>1 DEF RunCharges
  <2>4. ~MarkApproved(b)
    BY <1>7 DEF PickCharge, MarkApproved, AtRun
  <2>5. \A a \in Approvals(t.id)' :
          a \in Approvals(t.id) /\ payments'[a].approvedAt = payments[a].approvedAt
    BY <2>2, <2>4, RunApproves
  <2>6. \A a \in Approvals(t.id)' \ {NoId} : payments'[a].approvedAt + Month <= now
    BY <2>3, <2>5 DEF OverBy
  <2>7. OverBy(batch[b].sub, NoId, now)'
    BY <1>1, <2>2, <2>6 DEF OverBy
  <2> QED
    BY <1>2, <2>2, <2>7 DEF Paid
<1>8. CASE Charge(b)
  <2>1. batch'[b].pc = "charged" /\ batch'[b].paidAt = now /\ payments' = payments
    BY <1>1, <1>8 DEF Charge, Run, tables
  <2>2. \A a \in Approvals(batch[b].sub)' : payments'[a].approvedAt <= now
    BY <1>1, <2>1 DEF Approvals
  <2> QED
    BY <1>2, <2>1, <2>2 DEF Paid
<1>9. CASE ChargeAnswerLost(b) \/ ChargeRefused(b) \/ BookkeepingFails(b) \/ MarkFailed(b)
  <2>1. batch'[b].pc \in {"failed", "record"}
    BY <1>1, <1>9 DEF ChargeAnswerLost, ChargeRefused, BookkeepingFails, MarkFailed, Run
  <2> QED
    BY <1>3, <2>1 DEF Paid
<1>10. CASE MarkApproved(b)
  <2>1. /\ batch'[b].pc = "renew" /\ batch'[b].paidAt = x.paidAt /\ batch'[b].sub = x.sub
        /\ x.pc = "charged"
    BY <1>1, <1>10 DEF MarkApproved, AtRun, Run
  <2>2. x.sub \in SubId /\ \A a \in Approvals(x.sub) : payments[a].approvedAt <= x.paidAt
    BY <1>1, <2>1 DEF RunCharges, Paid, RunOK, Working, IsSubOf, BatchPc
  <2>3. x.paidAt <= x.paidAt
    BY <1>1 DEF Run
  <2>4. ASSUME NEW s \in SubId, s = x.sub, NEW a \in Approvals(s)'
        PROVE  payments'[a].approvedAt <= x.paidAt
    BY <2>2, <2>3, <2>4, RunApproves
  <2>5. \A a \in Approvals(batch[b].sub)' : payments'[a].approvedAt <= x.paidAt
    BY <2>1, <2>2, <2>4 DEF Approvals
  <2> QED
    BY <1>2, <2>1, <2>5
<1>11. CASE LoadRow(b)
  <2>1. /\ x.pc = "renew" => batch'[b].pc = "renewSave"
        /\ x.pc = "record" => batch'[b].pc = "recordSave"
        /\ x.pc = "complete" => batch'[b].pc = "completeSave"
        /\ x.pc \in {"renew", "record", "complete"}
    BY <1>1, <1>11 DEF LoadRow, Run
  <2>2. /\ batch'[b].row = subs[x.sub] /\ batch'[b].sub = x.sub
        /\ batch'[b].payment = x.payment /\ batch'[b].paidAt = x.paidAt /\ payments' = payments
    BY <1>1, <1>11 DEF LoadRow, Run, tables
  <2>3. CASE x.pc = "renew"
    <3>1. \A a \in Approvals(x.sub) : payments[a].approvedAt <= x.paidAt
      BY <1>1, <2>3 DEF RunCharges, Paid
    <3>2. \A a \in Approvals(batch[b].sub)' : payments'[a].approvedAt <= x.paidAt
      BY <2>2, <3>1 DEF Approvals
    <3> QED
      BY <1>2, <2>1, <2>2, <2>3, <3>2
  <2>4. CASE x.pc = "record"
    <3>1. Covers(subs[x.sub], x.sub, x.payment)
      <4>1. x.sub \in SubId /\ Unrenewed(x) = x.payment
        BY <1>1, <2>4 DEF RunOK, Working, IsSubOf, BatchPc, Unrenewed, Charging
      <4> QED
        BY <1>1, <4>1
    <3>2. Covers(batch[b].row, batch[b].sub, batch[b].payment)'
      BY <2>2, <3>1 DEF Covers, OverBy, Approvals
    <3> QED
      BY <1>2, <2>1, <2>4, <3>2 DEF Paid
  <2>5. CASE x.pc = "complete"
    BY <1>3, <2>1, <2>5 DEF Paid
  <2> QED
    BY <2>1, <2>3, <2>4, <2>5
<1> QED
  BY <1>4, <1>5, <1>6, <1>7, <1>8, <1>9, <1>10, <1>11
  DEF RunStep, SaveRenewal, SaveFailure, Expire, Complete

(* A run that is done with an approved payment has renewed for it.         *)
LEMMA RunRenews ==
    ASSUME IInv, PeriodInv, FailInv, ChargeInv, NEW b \in Batches, StartRun(b) \/ RunStep(b),
           NEW s \in SubId, ~(SaveRenewal(b) /\ s = batch[b].sub),
           NEW a \in Approvals(s)', a # Unrenewed(batch'[b])
    PROVE  /\ a \in Approvals(s) /\ a # Unrenewed(batch[b])
           /\ payments'[a].approvedAt = payments[a].approvedAt
<1> DEFINE x == batch[b]
<1>1. /\ batch \in [Batches -> Run] /\ x \in Run /\ RunOK(b) /\ NoId \notin SubId
      /\ RunBacked(x, Losses, LossesBut, payments) /\ NoId \notin PaymentId
  BY NoIdIsNoRow DEF IInv, Consistent, TypeOK, FailInv
<1>2. a \in PaymentId
  BY DEF Approvals
<1>3. ASSUME x.pc \in Charging, batch'[b].pc \in Charging, batch'[b].payment = x.payment
      PROVE  Unrenewed(batch'[b]) = x.payment /\ Unrenewed(x) = x.payment
  BY <1>3 DEF Unrenewed
<1>4. CASE MarkApproved(b)
  <2>1. /\ x.pc \in Charging /\ batch'[b].pc \in Charging /\ batch'[b].payment = x.payment
    BY <1>1, <1>4 DEF MarkApproved, AtRun, Run, Charging
  <2> QED
    BY <1>3, <2>1, RunApproves
<1>5. CASE ~MarkApproved(b)
  <2>1. a \in Approvals(s) /\ payments'[a].approvedAt = payments[a].approvedAt
    BY <1>5, RunApproves
  <2>2. CASE x.pc \notin Charging
    BY <1>1, <1>2, <2>1, <2>2 DEF Unrenewed
  <2>3. ASSUME x.pc \in Charging, x.pc \notin {"renewSave", "recordSave"}
        PROVE  batch'[b].pc \in Charging /\ batch'[b].payment = x.payment
    <3>1. CASE LoadRow(b)
      BY <1>1, <2>3, <3>1 DEF LoadRow, Run, Charging
    <3>2. CASE \/ Charge(b) \/ ChargeAnswerLost(b) \/ ChargeRefused(b) \/ MarkApproved(b)
               \/ BookkeepingFails(b) \/ MarkFailed(b)
      BY <1>1, <3>2
      DEF Charge, ChargeAnswerLost, ChargeRefused, MarkApproved, BookkeepingFails,
          MarkFailed, Run, Charging
    <3> QED
      BY <2>3, <3>1, <3>2
      DEF RunStep, StartRun, EndRun, PickCanceled, PickCharge, SaveRenewal, SaveFailure,
          Expire, Complete, AbortRun, AtRun, Charging
  <2>4. CASE x.pc \in Charging /\ x.pc \notin {"renewSave", "recordSave"}
    BY <1>3, <2>1, <2>3, <2>4
  <2>5. CASE x.pc = "recordSave"
    <3>1. payments[x.payment].status = "FAILED" /\ Unrenewed(x) = x.payment
      BY <1>1, <2>5 DEF RunBacked, Unrenewed, Charging
    <3> QED
      BY <2>1, <3>1 DEF Approvals
  <2>6. CASE x.pc = "renewSave"
    <3>1. payments[x.payment].sub = x.sub /\ Unrenewed(x) = x.payment
      BY <1>1, <2>6 DEF RunBacked, Unrenewed, Charging
    <3>2. CASE BookkeepingFails(b)
      <4>1. batch'[b].pc \in Charging /\ batch'[b].payment = x.payment
        BY <1>1, <3>2 DEF BookkeepingFails, Run, Charging
      <4> QED
        BY <1>3, <2>1, <2>6, <4>1 DEF Charging
    <3>3. CASE SaveRenewal(b)
      BY <2>1, <3>1, <3>3 DEF Approvals
    <3> QED
      BY <2>6, <3>2, <3>3
      DEF RunStep, StartRun, EndRun, PickCanceled, PickCharge, Charge, ChargeAnswerLost,
          ChargeRefused, MarkApproved, LoadRow, MarkFailed, SaveFailure,
          Expire, Complete, AbortRun, AtRun
  <2> QED
    BY <2>2, <2>4, <2>5, <2>6
<1> QED
  BY <1>4, <1>5

(* What a run saves covers every approved fee: a renewal ends a month      *)
(* after the last of them, and a failure keeps the end that was loaded.    *)
LEMMA RunCovers ==
    ASSUME IInv, PeriodInv, FailInv, ChargeInv, crashes = 0, NEW b \in Batches,
           StartRun(b) \/ RunStep(b), NEW s \in SubId
    PROVE  Covers(subs[s], s, Unrenewed(batch[b]))'
<1> DEFINE x == batch[b]
<1>1. /\ batch \in [Batches -> Run] /\ x \in Run /\ RunCharges(x) /\ NoId \notin PaymentId
      /\ Covers(subs[s], s, Unrenewed(x)) /\ subs \in [SubId -> SubRow]
      /\ RunBacked(x, Losses, LossesBut, payments) /\ payments \in [PaymentId -> PaymentRow]
      /\ x.row \in SubRow /\ x.snap \in SubRow /\ x.paidAt \in Nat /\ Month \in Nat
  BY NoIdIsNoRow, BillingAssumption DEF IInv, TypeOK, FailInv, ChargeInv, Run
<1>2. ASSUME NextTarget(b) PROVE Unrenewed(batch[b])' = NoId
  <2>1. batch'[b].pc = "pick"
    BY <1>1, <1>2 DEF NextTarget, IdleRun
  <2> QED
    BY <2>1 DEF Unrenewed, Charging
<1>3. CASE SaveRenewal(b) /\ s = x.sub
  <2>1. /\ subs'[s] = Renewed(x.row, x.snap, x.paidAt) /\ payments' = payments
        /\ x.pc = "renewSave"
    BY <1>1, <1>3 DEF SaveRenewal, AtRun
  <2>2. /\ subs'[s].periodEnd = RenewalBase(x.snap, x.paidAt) + Month
        /\ RenewalBase(x.snap, x.paidAt) \in Nat /\ x.paidAt <= RenewalBase(x.snap, x.paidAt)
    BY <1>1, <2>1 DEF Renewed, RenewalBase, SubRow
  <2>3. \A a \in Approvals(s) : payments[a].approvedAt <= x.paidAt /\ payments[a].approvedAt \in Nat
    BY <1>1, <1>3, <2>1 DEF RunCharges, Paid, Approvals, PaymentRow
  <2>4. \A a \in Approvals(s) : payments[a].approvedAt + Month <= subs'[s].periodEnd
    BY <1>1, <2>2, <2>3
  <2> QED
    BY <2>1, <2>4 DEF Covers, OverBy, Approvals
<1>4. CASE SaveFailure(b) /\ s = x.sub
  <2>1. /\ subs'[s] = [x.row EXCEPT !.failed = FailedAttempts(b)] /\ payments' = payments
        /\ x.pc = "recordSave" /\ NextTarget(b)
    BY <1>1, <1>4 DEF SaveFailure, AtRun
  <2>2. /\ subs'[s].status = x.row.status /\ subs'[s].isCanceled = x.row.isCanceled
        /\ subs'[s].periodEnd = x.row.periodEnd
    BY <1>1, <2>1 DEF SubRow
  <2>3. Covers(x.row, s, x.payment) /\ x.payment \notin Approvals(s)
    BY <1>1, <1>4, <2>1 DEF RunCharges, RunBacked, Approvals
  <2>4. Covers(x.row, s, NoId)
    BY <2>3 DEF Covers, OverBy
  <2>5. Unrenewed(batch[b])' = NoId
    BY <1>2, <2>1
  <2> QED
    BY <2>1, <2>2, <2>4, <2>5 DEF Covers, OverBy, Approvals
<1>5. CASE (Expire(b) \/ Complete(b)) /\ s = x.sub
  <2>1. \/ subs'[s] = [x.row EXCEPT !.status = "EXPIRED", !.failed = FailedAttempts(b)]
        \/ subs'[s] = [x.row EXCEPT !.status = "CANCELED", !.isCanceled = FALSE]
    BY <1>1, <1>5 DEF Expire, Complete
  <2>2. subs'[s].status \in {"EXPIRED", "CANCELED"}
    BY <1>1, <2>1 DEF SubRow
  <2> QED
    BY <2>2 DEF Covers
<1>6. CASE ~(s = x.sub /\ (SaveRenewal(b) \/ SaveFailure(b) \/ Expire(b) \/ Complete(b)))
  <2>1. subs'[s] = subs[s]
    BY <1>1, <1>6
    DEF RunStep, StartRun, EndRun, PickCanceled, PickCharge, Charge, ChargeAnswerLost,
        ChargeRefused, MarkApproved, BookkeepingFails, LoadRow, SaveRenewal, MarkFailed,
        SaveFailure, Expire, Complete, AbortRun, tables
  <2> QED
    BY <1>1, <1>6, <2>1, RunRenews, CoveredAgain
<1> QED
  BY <1>3, <1>4, <1>5, <1>6

LEMMA RunKeepsCharges ==
    ASSUME IInv, IInv', PeriodInv, FailInv, ChargeInv, NEW b \in Batches, Batches = {b},
           StartRun(b) \/ RunStep(b)
    PROVE  ChargeInv'
<1>1. /\ UNCHANGED <<req, now>> /\ crashes' = crashes
      /\ \A p \in PaymentId : payments'[p].status = "APPROVED" => payments'[p].approvedAt <= now
  BY RunMoves, RunApproves
  DEF RunStep, StartRun, EndRun, PickCanceled, PickCharge, Charge, ChargeAnswerLost,
      ChargeRefused, MarkApproved, BookkeepingFails, LoadRow, SaveRenewal, MarkFailed,
      SaveFailure, Expire, Complete, AbortRun
<1>2. ASSUME NEW r \in Requests PROVE RequestCharges(req[r])'
  <2>1. RequestCharges(req[r]) /\ RequestOK(r)
    BY DEF ChargeInv, IInv, Consistent
  <2>2. req[r].pc \in Approving =>
          payments'[req[r].payment].amount = payments[req[r].payment].amount
    BY <2>1, RunPayments DEF RequestOK, IsPaymentOf
  <2> QED
    BY <1>1, <2>1, <2>2 DEF RequestCharges
<1>3. ASSUME crashes' = 0, NEW c \in Batches
      PROVE  RunCharges(batch[c])' /\ \A s \in SubId : Covers(subs[s], s, Unrenewed(batch[c]))'
  <2>1. crashes = 0 /\ c = b
    BY <1>1, <1>3
  <2>2. RunCharges(batch[b])'
    BY <2>1, RunChargesNext
  <2>3. \A s \in SubId : Covers(subs[s], s, Unrenewed(batch[b]))'
    BY <2>1, RunCovers
  <2> QED
    BY <2>1, <2>2, <2>3
<1> QED
  BY <1>1, <1>2, <1>3 DEF ChargeInv

-----------------------------------------------------------------------------
(* ChargeInv is inductive.                                                 *)

(* Time and a withdrawal leave the rows and the callers alone.             *)
LEMMA WaitingCharges ==
    ASSUME IInv, ChargeInv, now' \in Nat, now' >= now,
           UNCHANGED <<payments, subs, req, batch, crashes>>
    PROVE  ChargeInv'
<1>1. /\ now \in Nat /\ payments \in [PaymentId -> PaymentRow] /\ subs \in [SubId -> SubRow]
  BY DEF IInv, TypeOK
<1>2. NoNewApproval
  BY DEF NoNewApproval, Approvals
<1>3. \A p \in PaymentId : payments'[p].status = "APPROVED" => payments'[p].approvedAt <= now'
  BY <1>1 DEF ChargeInv, PaymentRow
<1>4. \A r \in Requests : RequestCharges(req[r])'
  BY DEF ChargeInv, RequestCharges
<1>5. ASSUME crashes' = 0, NEW b \in Batches
      PROVE  RunCharges(batch[b])' /\ \A s \in SubId : Covers(subs[s], s, Unrenewed(batch[b]))'
  <2>1. RunCharges(batch[b]) /\ \A s \in SubId : Covers(subs[s], s, Unrenewed(batch[b]))
    BY <1>5 DEF ChargeInv
  <2>2. RunCharges(batch[b])'
    BY <1>2, <2>1, RunStillCharges
  <2>3. \A s \in SubId : Covers(subs[s], s, Unrenewed(batch[b]))'
    BY <2>1 DEF Covers, OverBy, Approvals, Unrenewed
  <2> QED
    BY <2>2, <2>3
<1> QED
  BY <1>3, <1>4, <1>5 DEF ChargeInv

LEMMA ChargeNext ==
    ASSUME IInv, IInv', PaidInv, PeriodInv, FailInv, ChargeInv, [Next]_vars,
           NoRevivals, NEW b \in Batches, Batches = {b}
    PROVE  ChargeInv'
<1>1. ASSUME NEW r \in Requests, RequestStep(r) PROVE ChargeInv'
  BY <1>1, RequestKeepsCharges
<1>2. ASSUME StartRun(b) \/ RunStep(b) PROVE ChargeInv'
  BY <1>2, RunKeepsCharges
<1>3. CASE (\E u \in Users : Withdraw(u)) \/ Tick \/ UNCHANGED vars
  <2>1. /\ now' \in {now, now + 1} /\ now \in Nat
        /\ UNCHANGED <<payments, subs, req, batch, crashes>>
    BY <1>3 DEF Withdraw, Tick, vars, tables, IInv, TypeOK
  <2>2. now' \in Nat /\ now' >= now
    BY <2>1
  <2> QED
    BY <2>1, <2>2, WaitingCharges
<1>4. CASE Restart
  <2>1. /\ crashes' # 0 /\ UNCHANGED <<payments, now>>
        /\ \A r \in Requests : req'[r] = IdleRequest
    BY <1>4 DEF Restart, tables, IInv, TypeOK
  <2> QED
    BY <2>1 DEF ChargeInv, RequestCharges, IdleRequest, Approving
<1> QED
  BY <1>1, <1>2, <1>3, <1>4 DEF Next

LEMMA ChargeInit == Init => ChargeInv
<1> SUFFICES ASSUME Init PROVE ChargeInv
  OBVIOUS
<1>1. /\ now = 0 /\ Month \in Nat /\ \A r \in Requests : req[r] = IdleRequest
      /\ \A b \in Batches : batch[b] = IdleRun
  BY BillingAssumption DEF Init
<1>2. \A p \in PaymentId : payments[p].status = "APPROVED" => payments[p].approvedAt = 0
  BY DEF Init, InitTables, PaidPayment, NoPayment
<1>3. \A s \in SubId : subs[s].status = "ACTIVE" => subs[s].periodEnd = Month
  BY DEF Init, InitTables, NewSub, NoSub
<1>4. ASSUME NEW s \in SubId PROVE Covers(subs[s], s, NoId)
  BY <1>1, <1>2, <1>3 DEF Covers, OverBy, Approvals
<1>5. ASSUME NEW b \in Batches PROVE RunCharges(batch[b]) /\ Unrenewed(batch[b]) = NoId
  BY <1>1 DEF RunCharges, IdleRun, Paid, Unrenewed, Charging
<1>6. \A r \in Requests : RequestCharges(req[r])
  BY <1>1 DEF RequestCharges, IdleRequest, Approving
<1> QED
  BY <1>1, <1>2, <1>4, <1>5, <1>6 DEF ChargeInv

(* A billing run charges no subscription that is paid ahead, as long as it *)
(* is the only one, no restart has cut it off, and nobody checks out by    *)
(* hand or takes a cancellation back: the check for due subscriptions,     *)
(* getRenewalBaseDate and the whole-row saves of updateSubscription allow  *)
(* for refused and lost charges, cancellations and withdrawals meanwhile.  *)
THEOREM NoDoubleCharge ==
    ASSUME NEW b \in Batches, Batches = {b}, NoRevivals
    PROVE  Spec => NoSecondChargeInPaidPeriod
<1> DEFINE Single ==
      \A p \in PaymentId :
         crashes = 0 /\ payments[p].amount = ProPlanAmount /\ ~captured[p] /\ captured'[p]
           => PaidAhead(payments[p].sub) = {}
<1>1. ASSUME IInv, FailInv, ChargeInv, [Next]_vars PROVE [Single]_vars
  <2> SUFFICES ASSUME NEW p \in PaymentId, crashes = 0, payments[p].amount = ProPlanAmount,
                      ~captured[p], captured'[p]
               PROVE  PaidAhead(payments[p].sub) = {}
    OBVIOUS
  <2>0. /\ captured \in [PaymentId -> BOOLEAN] /\ payments \in [PaymentId -> PaymentRow]
        /\ now \in Nat /\ Month \in Nat /\ NoId \notin PaymentId
    BY <1>1, NoIdIsNoRow, BillingAssumption DEF IInv, TypeOK
  <2>1. ASSUME NEW r \in Requests, ProviderApproves(r) \/ ProviderAnswerLost(r) PROVE FALSE
    <3>1. req[r].pc = "provider" /\ p = req[r].payment
      BY <2>0, <2>1 DEF ProviderApproves, ProviderAnswerLost, At
    <3>2. payments[p].amount = MethodChangeAmount
      BY <1>1, <3>1, NoFees DEF Approving
    <3> QED
      BY <3>2 DEF MethodChangeAmount, ProPlanAmount
  <2>2. CASE Charge(b) \/ ChargeAnswerLost(b)
    <3>1. batch[b].pc = "charge" /\ p = batch[b].payment
      BY <2>0, <2>2 DEF Charge, ChargeAnswerLost, AtRun
    <3>2. payments[p].sub = batch[b].sub /\ OverBy(batch[b].sub, NoId, now)
      BY <1>1, <3>1 DEF FailInv, RunBacked, ChargeInv, RunCharges, Charging
    <3>3. \A a \in Approvals(payments[p].sub) :
            payments[a].approvedAt + Month <= now /\ payments[a].approvedAt \in Nat
      BY <2>0, <3>2 DEF OverBy, Approvals, PaymentRow
    <3>4. PaidAhead(payments[p].sub) \subseteq Approvals(payments[p].sub)
      BY DEF PaidAhead, Approvals
    <3>5. ASSUME NEW a \in PaidAhead(payments[p].sub) PROVE FALSE
      <4>1. payments[a].approvedAt + Month > now
        BY <3>5 DEF PaidAhead
      <4> QED
        BY <2>0, <3>3, <3>4, <4>1
    <3> QED
      BY <3>5
  <2>3. \/ \E r \in Requests : ProviderApproves(r) \/ ProviderAnswerLost(r)
        \/ Charge(b) \/ ChargeAnswerLost(b)
    <3>1. ASSUME NEW r \in Requests, RequestStep(r), captured' # captured
          PROVE  ProviderApproves(r) \/ ProviderAnswerLost(r)
      BY <3>1
      DEF RequestStep, Ready, ReadyMethodChange, InsertReady, ReadyAnswered, ReadyRefused,
          Approve, ApproveMethodChange, StartApproval, ProviderRefuses, FindActive,
          SeeMethods, LoadActive, CommitApproval, CommitMethodChange, RollBackApproval,
          CheckResult, LoadResult, SaveResult, FindSubscription, LoadSubscription,
          SaveSubscription
    <3>2. ASSUME StartRun(b) \/ RunStep(b), captured' # captured
          PROVE  Charge(b) \/ ChargeAnswerLost(b)
      BY <3>2
      DEF RunStep, StartRun, EndRun, PickCanceled, PickCharge, ChargeRefused, MarkApproved,
          BookkeepingFails, LoadRow, SaveRenewal, MarkFailed, SaveFailure, Expire, Complete,
          AbortRun
    <3>3. captured' # captured
      OBVIOUS
    <3> QED
      BY <1>1, <3>1, <3>2, <3>3 DEF Next, Withdraw, Tick, Restart, vars
  <2> QED
    BY <2>1, <2>2, <2>3
<1>2. Spec => [](PaidInv /\ PeriodInv /\ FailInv /\ ChargeInv)
  <2>1. ASSUME IInv, IInv', PaidInv, PeriodInv, FailInv, ChargeInv, [Next]_vars
        PROVE  PaidInv' /\ PeriodInv' /\ FailInv' /\ ChargeInv'
    BY <2>1, PaidNext, PeriodNext, FailNext, ChargeNext
  <2> QED
    BY <2>1, InductiveInvariant, PaidInit, PeriodInit, FailInit, ChargeInit, PTL DEF Spec
<1>3. Spec => [][Single]_vars
  BY <1>1, <1>2, InductiveInvariant, PTL DEF Spec
<1> QED
  BY <1>3 DEF NoSecondChargeInPaidPeriod

=============================================================================
