---------------------------- MODULE BillingStore ----------------------------
(***************************************************************************)
(* The tables that the billing services share, and what the repositories   *)
(* do to them: payments, payment_methods, subscriptions, and the two       *)
(* columns of users that billing reads and writes.  Also the clock, the    *)
(* ledger of the payment provider, and the two kinds of callers: HTTP      *)
(* requests in progress and billing runs in progress.                      *)
(*                                                                         *)
(* A table is a function from row ids to rows; a row whose status is       *)
(* "NONE" has not been inserted.  Ids grow in the order of created_at.     *)
(*                                                                         *)
(* updateSubscription and updatePayment are a find followed by a save of   *)
(* the entity that was found.  save writes every column that differs from  *)
(* the stored row, so the stored row becomes the copy that was found plus  *)
(* the columns of the dto, whatever happened to it in between.  Callers    *)
(* therefore load a row in one step and save it in a later one.            *)
(***************************************************************************)
EXTENDS Naturals, FiniteSets

CONSTANTS
    Users,          \* user ids
    NoUser,         \* the user of a row that does not exist
    Requests,       \* slots for HTTP requests that are in progress together
    Batches,        \* slots for billing runs: the cron's, the manual endpoint's
    Ops,            \* the requests that users make in this instance
    Subscribed,     \* users that start with a paid subscription
    MaxPayments,    \* bound: rows in payments
    MaxSubs,        \* bound: rows in subscriptions
    MaxMethods,     \* bound: rows in payment_methods
    MaxCrashes,     \* bound: restarts of the server
    Horizon,        \* bound: the last value of the clock
    Month,          \* clock units in a billing period
    MaxFailures     \* MAX_BILLING_FAILURE_COUNT

AllOps == {"ready", "readyChange", "approve", "approveChange", "cancel", "fail",
           "cancelAtEnd", "cancelNow", "undoCancel", "withdraw"}

ASSUME BillingAssumption ==
    /\ NoUser \notin Users
    /\ Ops \subseteq AllOps
    /\ Subscribed \subseteq Users
    /\ IsFiniteSet(Users)
    /\ MaxPayments \in Nat /\ MaxSubs \in Nat /\ MaxMethods \in Nat
    /\ MaxCrashes \in Nat /\ Horizon \in Nat
    /\ \A n \in {MaxPayments, MaxSubs, MaxMethods} : Cardinality(Subscribed) <= n
    /\ Month \in Nat \ {0}
    /\ MaxFailures \in Nat \ {0}

NoId == 0
PaymentId == 1..MaxPayments
SubId == 1..MaxSubs
MethodId == 1..MaxMethods

ProPlanAmount == 3900            \* PRO_PLAN_AMOUNT
MethodChangeAmount == 0          \* KAKAOPAY_METHOD_CHANGE_AMOUNT

VARIABLES
    plan,        \* plan[u]: users.plan
    withdrawn,   \* withdrawn[u]: users.is_deleted
    payments,    \* the payments table
    methods,     \* the payment_methods table
    subs,        \* the subscriptions table
    captured,    \* captured[p]: the provider has taken the amount of payment p
    now,         \* the clock
    req,         \* req[r]: the request in slot r
    batch,       \* batch[b]: the billing run in slot b
    crashes      \* restarts so far

tables == <<plan, withdrawn, payments, methods, subs>>
vars == <<plan, withdrawn, payments, methods, subs, captured, now, req, batch, crashes>>

-----------------------------------------------------------------------------
(* Rows *)

PaymentRow ==
    [user : Users \cup {NoUser}, sub : SubId \cup {NoId}, method : MethodId \cup {NoId},
     status : {"NONE", "READY", "APPROVED", "CANCELED", "FAILED"},
     amount : {MethodChangeAmount, ProPlanAmount}, tid : BOOLEAN, approvedAt : Nat]

MethodRow ==
    [user : Users \cup {NoUser}, status : {"NONE", "STORED", "DELETED"}, isDefault : BOOLEAN]

SubRow ==
    [user : Users \cup {NoUser}, status : {"NONE", "ACTIVE", "CANCELED", "EXPIRED"},
     periodEnd : Nat, isCanceled : BOOLEAN, failed : Nat]

NoPayment == [user |-> NoUser, sub |-> NoId, method |-> NoId, status |-> "NONE",
              amount |-> MethodChangeAmount, tid |-> FALSE, approvedAt |-> 0]
NoMethod == [user |-> NoUser, status |-> "NONE", isDefault |-> FALSE]
NoSub == [user |-> NoUser, status |-> "NONE", periodEnd |-> 0, isCanceled |-> FALSE,
          failed |-> 0]

(* A freshly inserted READY payment, and a subscription as it is created.  *)
ReadyPayment(u, s, m, amount) ==
    [user |-> u, sub |-> s, method |-> m, status |-> "READY", amount |-> amount,
     tid |-> FALSE, approvedAt |-> 0]
NewSub(u, end) ==
    [user |-> u, status |-> "ACTIVE", periodEnd |-> end, isCanceled |-> FALSE, failed |-> 0]

(* The id that the next insert into a table of n rows gets: the first one  *)
(* that was never used.                                                    *)
Fresh(table) ==
    {i \in DOMAIN table : /\ table[i].status = "NONE"
                          /\ \A j \in DOMAIN table : j < i => table[j].status # "NONE"}

-----------------------------------------------------------------------------
(* Queries of the repositories *)

(* findActiveByUserId: any one of them.                                    *)
ActiveSubs(u) == {s \in SubId : subs[s].user = u /\ subs[s].status = "ACTIVE"}

(* findByUserId of the payment methods, and findDefaultByUserId.           *)
StoredMethods(u) == {m \in MethodId : methods[m].user = u /\ methods[m].status = "STORED"}
DefaultMethods(u) == {m \in StoredMethods(u) : methods[m].isDefault}

(* findMonthlyBillingTargets: copies of the rows that are due.             *)
DueSubs == {s \in SubId : subs[s].status = "ACTIVE" /\ subs[s].periodEnd <= now}
Mut_BillingTargets == {[id |-> s, row |-> subs[s]] : s \in {d \in DueSubs : subs[d].failed = 0}}
BillingTargets == {[id |-> s, row |-> subs[s]] : s \in DueSubs}

(* createMethod, setDefault and, for a change of method, the deletion of   *)
(* the others, as the transaction commits them: its UPDATE and DELETE      *)
(* reach the rows that were visible to it (seen), never a row that another *)
(* transaction inserts meanwhile.                                          *)
WithDefault(u, new, seen) ==
    [m \in MethodId |->
        IF m = new THEN [user |-> u, status |-> "STORED", isDefault |-> TRUE]
        ELSE IF m \in seen THEN [methods[m] EXCEPT !.isDefault = FALSE]
        ELSE methods[m]]
Mut_WithOnly(u, new, seen) == [WithDefault(u, new, seen) EXCEPT ![new].isDefault = FALSE]
WithOnly(u, new, seen) ==
    [m \in MethodId |->
        IF m \in seen /\ m # new
        THEN [methods[m] EXCEPT !.isDefault = FALSE, !.status = "DELETED"]
        ELSE WithDefault(u, new, seen)[m]]

=============================================================================
