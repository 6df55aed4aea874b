------------------------------ MODULE CardJobs ------------------------------
(***************************************************************************)
(* Recommendations of cards: the request (cards.service.ts), the worker of *)
(* the card server with its slots, the ranking, and the replacement of the *)
(* user's rows.  The sentences of the language model are left out: a call  *)
(* that fails falls back to a fixed one.                                   *)
(***************************************************************************)
EXTENDS LibraryStore, FiniteSetsExt, SequencesExt

CONSTANTS
    Categories, NoCategory,   \* spend_categories
    CategoryName,             \* CategoryName[k]: its name, which is the tag of benefits
    Fee,                      \* Fee[c]: cards.annual_fee, or NoFee
    BenefitTags,              \* BenefitTags[c]: the categories of cards.benefits
    RecentDates               \* the dates within RECENT_DAYS

NoFee == -1

ASSUME CardAssumption ==
    /\ NoCategory \notin Categories /\ IsFiniteSet(Categories) /\ IsFiniteSet(Cards)
    /\ Fee \in [Cards -> Nat \cup {NoFee}]

SumOf(f) == MapThenSumSet(LAMBDA x : f[x], DOMAIN f)
Total(bills) == SumOf([c \in bills |-> receipt[c].bill.amount])

(* sum_amount_by_category: receipts without category do not count.         *)
SpentOn(k) ==
    Total({c \in KeptReceipts : /\ receipt[c].bill.category = k
                                /\ receipt[c].bill.date \in RecentDates})
Totals == [k \in Categories |-> SpentOn(k)]
NoTotals == [k \in Categories |-> 0]

-----------------------------------------------------------------------------
(* The ranking *)

(* _score_card: what was spent on categories with a benefit.  The code     *)
(* divides by the total, which is the same for all cards.                  *)
Score(c, totals) ==
    MapThenSumSet(LAMBDA k : totals[k], {k \in Categories : CategoryName[k] \in BenefitTags[c]})

(* _fee_key: a card without fee comes last (10^12, more than TLC counts).   *)
FeeKey(c) == IF Fee[c] = NoFee THEN 10^6 ELSE Fee[c]

Mut_Before(a, b, score) == FeeKey(a) < FeeKey(b)
Before(a, b, score) ==
    \/ score[a] > score[b]
    \/ score[a] = score[b] /\ FeeKey(a) < FeeKey(b)

MinOf(a, b) == IF a < b THEN a ELSE b

(* The elements of S, sorted by a set of pairs; those of which none is     *)
(* before the other come in one order of the many that are possible.       *)
First(S, before) == CHOOSE x \in S : \A y \in S : <<y, x>> \notin before
InOrder(S, before) ==
    MapThenFoldSet(LAMBDA x, rest : <<x>> \o rest, <<>>, LAMBDA x : x,
                   LAMBDA s : First(s, before), S)

(* The first RECOMMEND_TOP_N of the sorted cards.                          *)
Ranked(totals) ==
    LET score == [c \in Cards |-> Score(c, totals)]
    IN  InOrder(Cards, {p \in Cards \X Cards : Before(p[1], p[2], score)})
Top(totals) ==
    LET ranked == Ranked(totals)
    IN  {ranked[i] : i \in 1..MinOf(TopN, Cardinality(Cards))}

-----------------------------------------------------------------------------
(* The request *)

(* existsByUserId                                                          *)
StartRequestAi(r) ==
    /\ Begins(r, "requestAi") /\ KeptReceipts # {}
    /\ req' = [req EXCEPT ![r] = [IdleRequest EXCEPT !.op = "requestAi", !.pc = "push"]]
    /\ UNCHANGED <<documents, unlocking, receipts, used, cards, scenario, faults>>

(* RPUSH, also when a job of the user waits or runs.                       *)
Mut_PushJob(r) ==
    /\ At(r, "push")
    /\ queued' = IF \E t \in Threads : thread[t].pc # "idle" THEN queued ELSE queued + 1
    /\ requestedAt' = writes
    /\ req' = Finished(r)
    /\ UNCHANGED <<documents, unlocking, receipts, used, reco, thread, servedAt, jobsDone,
                   scenario, asked, faults>>
PushJob(r) ==
    /\ At(r, "push")
    /\ queued' = queued + 1
    /\ requestedAt' = writes
    /\ req' = Finished(r)
    /\ UNCHANGED <<documents, unlocking, receipts, used, reco, thread, servedAt, jobsDone,
                   scenario, asked, faults>>

-----------------------------------------------------------------------------
(* The worker *)

RecoRow == [card : Cards, job : Nat]
Thread ==
    [pc : {"idle", "totals", "rank", "delete", "insert"}, job : Nat, seen : Nat,
     totals : [Categories -> Nat], top : SUBSET Cards, old : SUBSET RecoRow]
IdleThread ==
    [pc |-> "idle", job |-> 0, seen |-> 0, totals |-> NoTotals, top |-> {}, old |-> {}]

AtThread(t, pc) == thread[t].pc = pc

(* A slot is free, BLPOP returns a job.                                    *)
Pop(t) ==
    /\ t \in scenario.threads /\ AtThread(t, "idle") /\ queued > 0
    /\ queued' = queued - 1
    /\ jobsDone' = jobsDone + 1
    /\ thread' = [thread EXCEPT ![t] = [IdleThread EXCEPT !.pc = "totals", !.job = jobsDone + 1]]
    /\ UNCHANGED <<documents, unlocking, receipts, used, reco, requestedAt, servedAt, req,
                   scenario, asked, faults>>

ReadTotals(t) ==
    /\ AtThread(t, "totals")
    /\ thread' = [thread EXCEPT ![t].pc = "rank", ![t].totals = Totals, ![t].seen = writes]
    /\ UNCHANGED <<documents, unlocking, receipts, used, queued, reco, requestedAt, servedAt,
                   jobsDone, req, scenario, asked, faults>>

(* Categories and cards are read, the reasons written.                     *)
Rank(t) ==
    /\ AtThread(t, "rank")
    /\ thread' = [thread EXCEPT ![t].pc = "delete", ![t].top = Top(thread[t].totals)]
    /\ UNCHANGED <<documents, unlocking, receipts, used, queued, reco, requestedAt, servedAt,
                   jobsDone, req, scenario, asked, faults>>

(* replace_recommendations: the DELETE sees the rows committed by now ...  *)
DeleteRows(t) ==
    /\ AtThread(t, "delete")
    /\ thread' = [thread EXCEPT ![t].pc = "insert", ![t].old = reco]
    /\ UNCHANGED <<documents, unlocking, receipts, used, queued, reco, requestedAt, servedAt,
                   jobsDone, req, scenario, asked, faults>>

NewRows(t) == {[card |-> c, job |-> thread[t].job] : c \in thread[t].top}

(* ... and takes effect, with the INSERTs, when the transaction commits.   *)
Mut_KeptRows(t) == reco
KeptRows(t) == reco \ thread[t].old
CommitRows(t) ==
    /\ AtThread(t, "insert")
    /\ reco' = KeptRows(t) \cup NewRows(t)
    /\ servedAt' = thread[t].seen
    /\ thread' = [thread EXCEPT ![t] = IdleThread]
    /\ UNCHANGED <<documents, unlocking, receipts, used, queued, requestedAt, jobsDone, req,
                   scenario, asked, faults>>

(* _handle logs an exception; a killed worker loses the job as well.       *)
JobFails(t) ==
    /\ ~AtThread(t, "idle") /\ faults < MaxFaults
    /\ faults' = faults + 1
    /\ thread' = [thread EXCEPT ![t] = IdleThread]
    /\ UNCHANGED <<documents, unlocking, receipts, used, queued, reco, requestedAt, servedAt,
                   jobsDone, req, scenario, asked>>

ThreadStep(t) ==
    Pop(t) \/ ReadTotals(t) \/ Rank(t) \/ DeleteRows(t) \/ CommitRows(t)
=============================================================================
