---------------------------- MODULE ReportProofs ----------------------------
(***************************************************************************)
(* What Library computes from the receipts of a user: the ranking of the   *)
(* cards, the reports and the pages of the list, for any receipts.         *)
(***************************************************************************)
EXTENDS LibraryProofs, FoldLemmas

-----------------------------------------------------------------------------
(* What the receipts say *)

LEMMA InitBills ==
    ASSUME Init
    PROVE  BillInv
<1>1. /\ req = [r \in Requests |-> IdleRequest] /\ scenario \in Scenarios
      /\ receipt \in scenario.given
  BY DEF Init
<1>2. receipt \in [Receipts -> ReceiptRow] /\ GivenReceipts(receipt)
  BY <1>1, LibraryAssumption
<1>3. ASSUME NEW c \in KeptReceipts
      PROVE  receipt[c].bill \in Bills
  <2>1. c \in Receipts /\ receipt[c].state = "LIVE"
    BY DEF KeptReceipts, Kept
  <2>2. receipt[c].bill \in Bills \cup {NoBill} /\ receipt[c].bill # NoBill
    BY <1>2, <2>1 DEF ReceiptRow, GivenReceipts
  <2> QED
    BY <2>2
<1>4. \A r \in Requests : req[r].op = "none"
  BY <1>1 DEF IdleRequest
<1> QED
  BY <1>3, <1>4 DEF BillInv

(* What a request of the receipts goes on to hold.                         *)
HoldsBill(q) == q.op \in {"add", "change"} => q.bill \in Bills

LEMMA ReceiptBills ==
    ASSUME TypeInv, BillInv, NEW r \in Requests, ReceiptRequest(r) \/ ReceiptStep(r)
    PROVE  \E q : req' = [req EXCEPT ![r] = q] /\ HoldsBill(q)
<1>0. /\ req \in [Requests -> Request] /\ req[r] \in Request /\ HoldsBill(req[r])
      /\ scenario.bills \subseteq Bills
  BY LibraryAssumption DEF TypeInv, TablesOK, BillInv, HoldsBill
<1>1. HoldsBill(IdleRequest)
  BY DEF HoldsBill, IdleRequest
<1>2. CASE StartAdd(r)
  <2>1. PICK bill \in scenario.bills, image \in BOOLEAN :
           req' = [req EXCEPT ![r] =
             [IdleRequest EXCEPT !.op = "add", !.pc = IF image THEN "put" ELSE "insert",
                                 !.bill = bill]]
    BY <1>2 DEF StartAdd
  <2>2. PICK q : q = [IdleRequest EXCEPT !.op = "add", !.pc = IF image THEN "put" ELSE "insert",
                                         !.bill = bill]
    OBVIOUS
  <2>3. HoldsBill(q)
    BY <1>0, <2>2 DEF HoldsBill, IdleRequest
  <2> QED
    BY <2>1, <2>2, <2>3
<1>3. CASE StartChange(r)
  <2>1. PICK c \in Receipts, bill \in scenario.bills, image \in BOOLEAN :
           req' = [req EXCEPT ![r] =
              [IdleRequest EXCEPT !.op = "change", !.pc = IF image THEN "put" ELSE "load",
                                  !.receipt = c, !.bill = bill,
                                  !.old = IF image THEN receipt[c].image ELSE NoImage]]
    BY <1>3 DEF StartChange
  <2>2. PICK q : q = [IdleRequest EXCEPT !.op = "change", !.pc = IF image THEN "put" ELSE "load",
                                  !.receipt = c, !.bill = bill,
                                  !.old = IF image THEN receipt[c].image ELSE NoImage]
    OBVIOUS
  <2>3. HoldsBill(q)
    BY <1>0, <2>2 DEF HoldsBill, IdleRequest
  <2> QED
    BY <2>1, <2>2, <2>3
<1>4. CASE StartRemove(r)
  <2>1. PICK c \in Receipts :
           req' = [req EXCEPT ![r] =
              [IdleRequest EXCEPT !.op = "remove", !.pc = "drop", !.receipt = c,
                                  !.old = receipt[c].image]]
    BY <1>4 DEF StartRemove
  <2>2. PICK q : q = [IdleRequest EXCEPT !.op = "remove", !.pc = "drop", !.receipt = c,
                                  !.old = receipt[c].image]
    OBVIOUS
  <2>3. HoldsBill(q)
    BY <2>2 DEF HoldsBill, IdleRequest
  <2> QED
    BY <2>1, <2>2, <2>3
<1>5. ASSUME NEW pc, req' = Moved(r, pc)
      PROVE  \E q : req' = [req EXCEPT ![r] = q] /\ HoldsBill(q)
  <2>1. PICK q : q = [req[r] EXCEPT !.pc = pc]
    OBVIOUS
  <2>2. req' = [req EXCEPT ![r] = q] /\ q.op = req[r].op /\ q.bill = req[r].bill
    BY <1>0, <1>5, <2>1 DEF Moved, Request
  <2> QED
    BY <1>0, <2>2 DEF HoldsBill
<1>6. req' = Finished(r) => \E q : req' = [req EXCEPT ![r] = q] /\ HoldsBill(q)
  BY <1>1 DEF Finished
<1>7. CASE PutImage(r)
  <2>1. PICK i : req' = [req EXCEPT ![r].new = i, ![r].pc = "addUsage"]
    BY <1>7 DEF PutImage
  <2>2. PICK q : q = [req[r] EXCEPT !.new = i, !.pc = "addUsage"]
    OBVIOUS
  <2>3. req' = [req EXCEPT ![r] = q] /\ q.op = req[r].op /\ q.bill = req[r].bill
    BY <1>0, <2>1, <2>2 DEF Request
  <2> QED
    BY <1>0, <2>3 DEF HoldsBill
<1>8. CASE LoadReceipt(r) /\ Kept(req[r].receipt)
  <2>1. req' = [req EXCEPT ![r].copy = receipt[req[r].receipt], ![r].pc = "save"]
    BY <1>8 DEF LoadReceipt
  <2>2. PICK q : q = [req[r] EXCEPT !.copy = receipt[req[r].receipt], !.pc = "save"]
    OBVIOUS
  <2>3. req' = [req EXCEPT ![r] = q] /\ q.op = req[r].op /\ q.bill = req[r].bill
    BY <1>0, <2>1, <2>2 DEF Request
  <2> QED
    BY <1>0, <2>3 DEF HoldsBill
<1>9. CASE \/ AddUsage(r) \/ AddUsageFails(r) \/ InsertReceipt(r)
           \/ LoadReceipt(r) /\ ~Kept(req[r].receipt)
           \/ SaveReceipt(r) \/ DropReceipt(r) \/ Subtract(r) \/ DeleteImage(r)
           \/ DeleteImageFails(r)
  <2>1. req' = Finished(r) \/ \E pc : req' = Moved(r, pc)
    BY <1>9 DEF AddUsage, AddUsageFails, InsertReceipt, LoadReceipt, SaveReceipt, DropReceipt,
                Subtract, DeleteImage, DeleteImageFails, AfterUpload, AfterWrite
  <2> QED
    BY <1>5, <1>6, <2>1
<1> QED
  BY <1>2, <1>3, <1>4, <1>7, <1>8, <1>9 DEF ReceiptRequest, ReceiptStep

LEMMA ReceiptRows ==
    ASSUME TypeInv, BillInv, NEW r \in Requests, ReceiptRequest(r) \/ ReceiptStep(r)
    PROVE  \A c \in KeptReceipts' : receipt'[c].bill \in Bills
<1>0. receipt \in [Receipts -> ReceiptRow] /\ RequestHeld(req[r])
  BY DEF TypeInv, TablesOK
<1>1. CASE receipt' = receipt
  BY <1>1 DEF BillInv, KeptReceipts, Kept
<1>2. ASSUME NEW c \in Receipts, NEW i, receipt' = [receipt EXCEPT ![c] = NewReceipt(req[r].bill, i)],
             req[r].op \in {"add", "change"}
      PROVE  \A e \in KeptReceipts' : receipt'[e].bill \in Bills
  <2>1. NewReceipt(req[r].bill, i).bill \in Bills
    BY <1>2 DEF NewReceipt, BillInv
  <2>2. receipt'[c] = NewReceipt(req[r].bill, i) /\ \A e \in Receipts \ {c} : receipt'[e] = receipt[e]
    BY <1>0, <1>2
  <2> QED
    BY <2>1, <2>2 DEF BillInv, KeptReceipts, Kept
<1>3. CASE InsertReceipt(r)
  <2>1. req[r].op = "add"
    BY <1>0, <1>3 DEF InsertReceipt, At, RequestHeld, ReceiptHeld
  <2> QED
    BY <1>2, <1>3, <2>1 DEF InsertReceipt
<1>4. CASE SaveReceipt(r)
  <2>1. req[r].op = "change" /\ req[r].receipt \in Receipts
    BY <1>4, SavedRow
  <2> QED
    BY <1>2, <1>4, <2>1 DEF SaveReceipt
<1>5. CASE DropReceipt(r)
  <2>1. receipt' = [receipt EXCEPT ![req[r].receipt].state = "GONE"]
    BY <1>5 DEF DropReceipt
  <2>2. \A e \in Receipts :
           receipt'[e].bill = receipt[e].bill /\ (Kept(e)' => Kept(e))
    BY <1>0, <2>1 DEF ReceiptRow, Kept
  <2> QED
    BY <2>2 DEF BillInv, KeptReceipts
<1> QED
  BY <1>1, <1>3, <1>4, <1>5 DEF ReceiptRequest, StartAdd, StartChange, StartRemove,
     ReceiptStep, PutImage, AddUsage, AddUsageFails, LoadReceipt, Subtract, DeleteImage,
     DeleteImageFails, receipts

LEMMA NextKeepsBills ==
    ASSUME TypeInv, BillInv, [Next]_vars
    PROVE  BillInv'
<1>0. req \in [Requests -> Request]
  BY DEF TypeInv, TablesOK
<1>1. ASSUME NEW r \in Requests, NEW q, req' = [req EXCEPT ![r] = q], HoldsBill(q)
      PROVE  \A s \in Requests : req'[s].op \in {"add", "change"} => req'[s].bill \in Bills
  <2>1. req'[r] = q /\ \A s \in Requests \ {r} : req'[s] = req[s]
    BY <1>0, <1>1
  <2> QED
    BY <1>1, <2>1 DEF HoldsBill, BillInv
<1>2. CASE UNCHANGED <<req, receipt>>
  BY <1>2 DEF BillInv, KeptReceipts, Kept
<1>3. ASSUME NEW r \in Requests, ReceiptRequest(r) \/ ReceiptStep(r)
      PROVE  BillInv'
  BY <1>1, <1>3, ReceiptBills, ReceiptRows DEF BillInv
<1>4. ASSUME NEW r \in Requests, DocumentAction(r)
      PROVE  BillInv'
  <2>1. receipt' = receipt
    BY <1>4 DEF DocumentAction, DocumentRequest, CreateDocument, GetDocuments, GetDocument,
         Download, StartLock, StartEdit, StartDelete, StartTag, DocumentStep, InsertFile,
         WriteActivity, ForeignKeyFails, PinIsWrong, PinIsRight, Unlock, LoadForLock,
         SaveDocument, DropDocument, FindOrCreateTag, CheckTag, AddTag, RemoveTag,
         StartRequestAi, PushJob, Abort, receipts
  <2>2. CASE UNCHANGED req
    BY <1>2, <2>1, <2>2
  <2>3. ASSUME NEW q, DocumentSlot(r, q)
        PROVE  BillInv'
    <3>1. HoldsBill(q)
      BY <2>3 DEF DocumentSlot, HoldsBill, ReceiptOps
    <3>2. \A s \in Requests : req'[s].op \in {"add", "change"} => req'[s].bill \in Bills
      BY <1>1, <2>3, <3>1 DEF DocumentSlot
    <3> QED
      BY <2>1, <3>2 DEF BillInv, KeptReceipts, Kept
  <2> QED
    BY <1>4, <2>2, <2>3, DocumentSlots
<1> QED
  BY <1>2, <1>3, <1>4, SlotsStep

-----------------------------------------------------------------------------
(* Totals *)

Amounts == [c \in Receipts |-> receipt[c].bill.amount]

LEMMA SumOfIs == ASSUME NEW f PROVE SumOf(f) = Sum(f, DOMAIN f)
BY DEF SumOf, Sum

LEMMA ReceiptsCount ==
    ASSUME BillInv, NEW bills \in SUBSET KeptReceipts
    PROVE  /\ IsFiniteSet(bills) /\ Total(bills) = Sum(Amounts, bills)
           /\ \A c \in bills : Amounts[c] \in Nat /\ Amounts[c] \in Int
           /\ Total(bills) \in Nat
<1>1. bills \in SUBSET Receipts /\ \A c \in bills : receipt[c].bill \in Bills
  BY DEF KeptReceipts, BillInv
<1>2. IsFiniteSet(bills)
  BY <1>1, LibraryAssumption, FS_Subset
<1>3. \A c \in bills : Amounts[c] \in Nat /\ Amounts[c] \in Int /\ Amounts[c] = receipt[c].bill.amount
  BY <1>1, ReportAssumption DEF Amounts
<1>4. PICK f : f = [c \in bills |-> receipt[c].bill.amount]
  OBVIOUS
<1>5. Total(bills) = Sum(f, bills)
  BY <1>4, SumOfIs DEF Total
<1>6. \A c \in bills : f[c] = Amounts[c]
  BY <1>3, <1>4
<1>7. Sum(f, bills) = Sum(Amounts, bills)
  BY <1>2, <1>6, SumSame
<1>8. Sum(Amounts, bills) \in Nat
  BY <1>2, <1>3, SumType
<1> QED
  BY <1>2, <1>3, <1>5, <1>7, <1>8

LEMMA TotalsTyped == BillInv => Totals \in [Categories -> Nat]
<1>1. ASSUME BillInv, NEW k \in Categories
      PROVE  SpentOn(k) \in Nat
  <2>1. PICK bills : bills = {c \in KeptReceipts : /\ receipt[c].bill.category = k
                                                   /\ receipt[c].bill.date \in RecentDates}
    OBVIOUS
  <2>2. bills \in SUBSET KeptReceipts
    BY <2>1
  <2> QED
    BY <1>1, <2>1, <2>2, ReceiptsCount DEF SpentOn
<1> QED
  BY <1>1 DEF Totals

-----------------------------------------------------------------------------
(* The ranking *)

LEMMA ScoreTyped ==
    ASSUME NEW totals \in [Categories -> Nat], NEW c
    PROVE  Score(c, totals) \in Nat
<1> DEFINE K == {k \in Categories : CategoryName[k] \in BenefitTags[c]}
<1>1. IsFiniteSet(K) /\ \A k \in K : totals[k] \in Nat
  BY CardAssumption, FS_Subset
<1>2. Score(c, totals) = Sum(totals, K)
  BY DEF Score, Sum
<1> HIDE DEF K
<1> QED
  BY <1>1, <1>2, SumType

LEMMA FeeKeyTyped == \A c \in Cards : FeeKey(c) \in Nat
<1>1. 10^6 \in Nat
  OBVIOUS
<1> QED
  BY <1>1, CardAssumption DEF FeeKey, NoFee

(* The pairs of cards that sorting puts in this order.                     *)
Better(totals) ==
    {p \in Cards \X Cards : Before(p[1], p[2], [c \in Cards |-> Score(c, totals)])}

LEMMA BetterIs ==
    ASSUME NEW totals, NEW a \in Cards, NEW b \in Cards
    PROVE  <<a, b>> \in Better(totals) <=>
              \/ Score(a, totals) > Score(b, totals)
              \/ Score(a, totals) = Score(b, totals) /\ FeeKey(a) < FeeKey(b)
BY DEF Better, Before

LEMMA RankedSorts ==
    ASSUME NEW totals \in [Categories -> Nat]
    PROVE  Sorts(Ranked(totals), Cards, Better(totals))
<1>1. Order(Better(totals), Cards)
  <2>1. ASSUME NEW x \in Cards, NEW y \in Cards, NEW z \in Cards
        PROVE  /\ <<x, y>> \in Better(totals) => <<y, x>> \notin Better(totals)
               /\ <<x, y>> \notin Better(totals) /\ <<y, z>> \notin Better(totals) =>
                     <<x, z>> \notin Better(totals)
    <3>1. /\ Score(x, totals) \in Nat /\ Score(y, totals) \in Nat /\ Score(z, totals) \in Nat
          /\ FeeKey(x) \in Nat /\ FeeKey(y) \in Nat /\ FeeKey(z) \in Nat
      BY ScoreTyped, FeeKeyTyped
    <3> QED
      BY <3>1, BetterIs
  <2> QED
    BY <2>1 DEF Order
<1>2. Ranked(totals) = InOrder(Cards, Better(totals))
  BY DEF Ranked, Better
<1> QED
  BY <1>1, <1>2, CardAssumption, InOrderSorts

LEMMA TopIsBest ==
    ASSUME NEW totals \in [Categories -> Nat]
    PROVE  /\ Top(totals) \in SUBSET Cards
           /\ \A a \in Top(totals), b \in Cards \ Top(totals) :
                 LET x == Score(a, totals)  y == Score(b, totals)
                 IN  x > y \/ (x = y /\ FeeKey(a) <= FeeKey(b))
<1> DEFINE n == Cardinality(Cards)
           m == MinOf(TopN, n)
<1>1. PICK ranked : ranked = Ranked(totals)
  OBVIOUS
<1>2. Sorts(ranked, Cards, Better(totals))
  BY <1>1, RankedSorts
<1>3. n \in Nat /\ m \in Nat /\ m <= n
  BY CardAssumption, LibraryAssumption, FS_CardinalityType DEF MinOf
<1>4. Top(totals) = {ranked[i] : i \in 1..m}
  BY <1>1 DEF Top
<1>5. /\ ranked \in [1..n -> Cards]
      /\ \A x \in Cards : \E i \in 1..n : ranked[i] = x
      /\ \A i, j \in 1..n : i < j => <<ranked[j], ranked[i]>> \notin Better(totals)
  BY <1>2 DEF Sorts
<1> HIDE DEF n, m
<1>6. Top(totals) \in SUBSET Cards
  BY <1>3, <1>4, <1>5
<1>7. ASSUME NEW a \in Top(totals), NEW b \in Cards \ Top(totals)
      PROVE  LET x == Score(a, totals)  y == Score(b, totals)
             IN  x > y \/ (x = y /\ FeeKey(a) <= FeeKey(b))
  <2>1. PICK i \in 1..m : a = ranked[i]
    BY <1>4
  <2>2. PICK j \in 1..n : b = ranked[j]
    BY <1>5
  <2>3. i \in 1..n /\ i < j
    <3>1. j \notin 1..m
      BY <1>4, <2>2
    <3> QED
      BY <1>3, <3>1
  <2>4. <<b, a>> \notin Better(totals)
    BY <1>5, <2>1, <2>2, <2>3
  <2>5. a \in Cards /\ b \in Cards
    BY <1>6
  <2>6. /\ Score(a, totals) \in Nat /\ Score(b, totals) \in Nat
        /\ FeeKey(a) \in Nat /\ FeeKey(b) \in Nat
    BY <2>5, ScoreTyped, FeeKeyTyped
  <2> QED
    BY <2>4, <2>5, <2>6, BetterIs
<1> QED
  BY <1>6, <1>7

-----------------------------------------------------------------------------
(* The jobs of the card server *)

LEMMA InitRanks ==
    ASSUME Init
    PROVE  RankInv
<1>1. reco = {} /\ servedAt = 0 /\ thread = [t \in Threads |-> IdleThread]
  BY DEF Init
<1>2. IdleThread \in Thread /\ IdleThread.pc = "idle"
  BY DEF IdleThread, Thread, NoTotals
<1> QED
  BY <1>1, <1>2 DEF RankInv, JobsOK

LEMMA ThreadRanks ==
    ASSUME RankInv, NEW t \in Threads, NEW p \in Thread,
           p.pc \in {"delete", "insert"} => p.top = Top(p.totals),
           thread' = [thread EXCEPT ![t] = p],
           reco' \subseteq RecoRow, servedAt' \in Nat
    PROVE  RankInv'
<1>1. thread \in [Threads -> Thread]
  BY DEF RankInv, JobsOK
<1>2. /\ thread' \in [Threads -> Thread]
      /\ thread'[t] = p /\ \A u \in Threads \ {t} : thread'[u] = thread[u]
  BY <1>1
<1>3. JobsOK'
  BY <1>2 DEF JobsOK
<1> QED
  BY <1>2, <1>3 DEF RankInv

LEMMA ThreadsKeepRanks ==
    ASSUME TypeInv, BillInv, RankInv, NEW t \in Threads, ThreadStep(t) \/ JobFails(t)
    PROVE  RankInv'
<1>1. /\ thread[t] \in Thread /\ thread \in [Threads -> Thread]
      /\ reco \subseteq RecoRow /\ servedAt \in Nat
      /\ jobsDone \in Nat /\ writes \in Nat
      /\ thread[t].pc \in {"delete", "insert"} => thread[t].top = Top(thread[t].totals)
  BY DEF RankInv, JobsOK, TypeInv, TablesOK
<1>2. IdleThread \in Thread /\ IdleThread.pc = "idle"
  BY DEF IdleThread, Thread, NoTotals
<1>3. CASE Pop(t)
  <2>1. PICK p : p = [IdleThread EXCEPT !.pc = "totals", !.job = jobsDone + 1]
    OBVIOUS
  <2>2. p \in Thread /\ p.pc = "totals"
    <3>1. jobsDone + 1 \in Nat
      BY <1>1
    <3> QED
      BY <1>2, <2>1, <3>1 DEF Thread, IdleThread
  <2>3. thread' = [thread EXCEPT ![t] = p] /\ reco' = reco /\ servedAt' = servedAt
    BY <1>3, <2>1 DEF Pop
  <2> QED
    BY <1>1, <2>2, <2>3, ThreadRanks
<1>4. CASE ReadTotals(t)
  <2>1. PICK p : p = [thread[t] EXCEPT !.pc = "rank", !.totals = Totals, !.seen = writes]
    OBVIOUS
  <2>2. p \in Thread /\ p.pc = "rank"
    BY <1>1, <2>1, TotalsTyped DEF Thread
  <2>3. thread' = [thread EXCEPT ![t] = p] /\ reco' = reco /\ servedAt' = servedAt
    BY <1>1, <1>4, <2>1 DEF ReadTotals
  <2> QED
    BY <1>1, <2>2, <2>3, ThreadRanks
<1>5. CASE Rank(t)
  <2>1. PICK p : p = [thread[t] EXCEPT !.pc = "delete", !.top = Top(thread[t].totals)]
    OBVIOUS
  <2>2. thread[t].totals \in [Categories -> Nat]
    BY <1>1 DEF Thread
  <2>3. Top(thread[t].totals) \in SUBSET Cards
    BY <2>2, TopIsBest
  <2>4. p \in Thread /\ p.top = Top(thread[t].totals) /\ p.totals = thread[t].totals
    BY <1>1, <2>1, <2>3 DEF Thread
  <2>5. thread' = [thread EXCEPT ![t] = p] /\ reco' = reco /\ servedAt' = servedAt
    BY <1>1, <1>5, <2>1 DEF Rank
  <2> QED
    BY <1>1, <2>4, <2>5, ThreadRanks
<1>6. CASE DeleteRows(t)
  <2>1. PICK p : p = [thread[t] EXCEPT !.pc = "insert", !.old = reco]
    OBVIOUS
  <2>2. p \in Thread /\ p.top = thread[t].top /\ p.totals = thread[t].totals
    BY <1>1, <2>1 DEF Thread
  <2>3. thread[t].pc = "delete"
    BY <1>6 DEF DeleteRows, AtThread
  <2>4. thread' = [thread EXCEPT ![t] = p] /\ reco' = reco /\ servedAt' = servedAt
    BY <1>1, <1>6, <2>1 DEF DeleteRows
  <2> QED
    BY <1>1, <2>2, <2>3, <2>4, ThreadRanks
<1>7. CASE CommitRows(t)
  <2>1. NewRows(t) \subseteq RecoRow
    BY <1>1 DEF NewRows, RecoRow, Thread
  <2>2. reco' \subseteq RecoRow
    BY <1>1, <1>7, <2>1 DEF CommitRows, KeptRows
  <2>3. servedAt' \in Nat
    BY <1>1, <1>7 DEF CommitRows, Thread
  <2>4. thread' = [thread EXCEPT ![t] = IdleThread]
    BY <1>7 DEF CommitRows
  <2> QED
    BY <1>2, <2>2, <2>3, <2>4, ThreadRanks
<1>8. CASE JobFails(t)
  <2>1. thread' = [thread EXCEPT ![t] = IdleThread] /\ reco' = reco /\ servedAt' = servedAt
    BY <1>8 DEF JobFails
  <2> QED
    BY <1>1, <1>2, <2>1, ThreadRanks
<1> QED
  BY <1>3, <1>4, <1>5, <1>6, <1>7, <1>8 DEF ThreadStep

LEMMA NextKeepsRanks ==
    ASSUME TypeInv, BillInv, RankInv, [Next]_vars
    PROVE  RankInv'
<1>1. ASSUME NEW t \in Threads, ThreadStep(t) \/ JobFails(t)
      PROVE  RankInv'
  BY <1>1, ThreadsKeepRanks
<1>2. CASE UNCHANGED <<reco, thread, servedAt>>
  BY <1>2 DEF RankInv, JobsOK
<1>3. ASSUME NEW r \in Requests, ReceiptRequest(r) \/ ReceiptStep(r)
      PROVE  UNCHANGED <<reco, thread, servedAt>>
  BY <1>3 DEF ReceiptRequest, StartAdd, StartChange, StartRemove, ReceiptStep, PutImage,
       AddUsage, AddUsageFails, InsertReceipt, LoadReceipt, SaveReceipt, DropReceipt,
       Subtract, DeleteImage, DeleteImageFails, cards
<1>4. ASSUME NEW r \in Requests, DocumentRequest(r) \/ DocumentStep(r)
      PROVE  UNCHANGED <<reco, thread, servedAt>>
  BY <1>4 DEF DocumentRequest, CreateDocument, GetDocuments, GetDocument,
       Download, StartLock, StartEdit, StartDelete, StartTag, DocumentStep, InsertFile,
       WriteActivity, ForeignKeyFails, PinIsWrong, PinIsRight, Unlock, LoadForLock,
       SaveDocument, DropDocument, FindOrCreateTag, CheckTag, AddTag, RemoveTag, cards
<1>5. ASSUME NEW r \in Requests, StartRequestAi(r) \/ PushJob(r) \/ Abort(r)
      PROVE  UNCHANGED <<reco, thread, servedAt>>
  BY <1>5 DEF StartRequestAi, PushJob, Abort, cards
<1>6. ASSUME NEW d \in Docs, ExpireToken(d)
      PROVE  UNCHANGED <<reco, thread, servedAt>>
  BY <1>6 DEF ExpireToken, cards
<1>7. CASE UNCHANGED vars
  BY <1>2, <1>7 DEF vars, cards
<1>8. CASE Next
  BY Zenon, <1>1, <1>2, <1>3, <1>4, <1>5, <1>6, <1>8 DEF Next
<1> QED
  BY <1>7, <1>8

(* The tables and what the worker of the card server holds and writes keep *)
(* their types: an amount that is summed up is a number, and what is put   *)
(* in the order of the scores are cards.                                   *)
THEOREM LibraryTypeCorrect == Spec => []TypeOK
<1>1. Init => TypeInv /\ BillInv /\ RankInv
  BY InitTyped, InitBills, InitRanks
<1>2. TypeInv /\ BillInv /\ RankInv /\ [Next]_vars => (TypeInv /\ BillInv /\ RankInv)'
  BY NextTyped, NextKeepsBills, NextKeepsRanks
<1>3. TypeInv /\ RankInv => TypeOK
  BY DEF TypeInv, RankInv, TypeOK
<1> QED
  BY <1>1, <1>2, <1>3, PTL DEF Spec

(* A user has the recommendations of no more jobs than there are threads,  *)
(* and those of a job are the best cards for the amounts that it has read  *)
(* (generate_recommendations): no other has a higher score, or as high a   *)
(* score and a lower fee.                                                  *)
THEOREM RecommendationsAreBounded == Spec => []RecommendationsBounded
<1> DEFINE IInv == TypeInv /\ BillInv /\ RankInv /\ JobInv
<1>1. Init => IInv
  BY InitTyped, InitBills, InitRanks, InitJobs
<1>2. IInv /\ [Next]_vars => IInv'
  BY NextTyped, NextKeepsBills, NextKeepsRanks, NextKeepsJobs
<1>3. IInv => RecommendationsBounded
  <2> SUFFICES ASSUME IInv PROVE RecommendationsBounded
    OBVIOUS
  <2>1. JobsBounded
    BY JobsAreBounded
  <2>2. ASSUME NEW t \in {u \in Threads : AtThread(u, "insert")},
               NEW a \in thread[t].top, NEW b \in Cards \ thread[t].top
        PROVE  LET x == Score(a, thread[t].totals)  y == Score(b, thread[t].totals)
               IN  x > y \/ (x = y /\ FeeKey(a) <= FeeKey(b))
    <3>1. thread[t].totals \in [Categories -> Nat] /\ thread[t].top = Top(thread[t].totals)
      BY DEF RankInv, JobsOK, Thread, AtThread
    <3> QED
      BY <3>1, TopIsBest
  <2> QED
    BY <2>1, <2>2 DEF RecommendationsBounded
<1> HIDE DEF IInv
<1> QED
  BY <1>1, <1>2, <1>3, PTL DEF Spec

-----------------------------------------------------------------------------
(* The reports *)

LEMMA BillSays ==
    ASSUME BillInv, NEW c \in KeptReceipts
    PROVE  LET b == receipt[c].bill
           IN  /\ b \in Bills /\ b.amount \in Nat /\ b.store \in Stores
               /\ b.category \in Categories \cup {NoCategory}
               /\ b.date.year \in Nat /\ b.date.month \in 1..12
               /\ b.date.day \in 1..LastDay(b.date.year, b.date.month)
<1>1. PICK b : b = receipt[c].bill
  OBVIOUS
<1>2. b \in Bills
  BY <1>1 DEF BillInv
<1>3. /\ b.amount \in Nat /\ b.store \in Stores
      /\ b.category \in Categories \cup {NoCategory}
      /\ b.date.year \in Nat /\ b.date.month \in 1..12 /\ b.date.day \in 1..31
      /\ b.date.month \in {4, 6, 9, 11} => b.date.day # 31
      /\ b.date.month = 2 => b.date.day \in 1..28 \/ (b.date.day = 29 /\ LeapYear(b.date.year))
  BY <1>2, ReportAssumption
<1>4. b.date.day \in 1..LastDay(b.date.year, b.date.month)
  BY <1>3 DEF LastDay
<1> QED
  BY <1>1, <1>2, <1>3, <1>4

LEMMA IntervalFinite == \A a, b \in Int : IsFiniteSet(a..b)
<1> SUFFICES ASSUME NEW a \in Int, NEW b \in Int PROVE IsFiniteSet(a..b)
  OBVIOUS
<1> QED
  BY FS_Interval

LEMMA LastDayTyped ==
    ASSUME NEW y, NEW m
    PROVE  LastDay(y, m) \in Nat
BY DEF LastDay

(* Receipts that are put in groups by a key add up as the groups do.       *)
LEMMA GroupsAddUp ==
    ASSUME BillInv, NEW bills \in SUBSET KeptReceipts, NEW K, IsFiniteSet(K),
           NEW key, \A c \in bills : key[c] \in K,
           NEW f, DOMAIN f = K, \A k \in K : f[k] = Total({c \in bills : key[c] = k})
    PROVE  SumOf(f) = Total(bills)
<1>1. /\ IsFiniteSet(bills) /\ Total(bills) = Sum(Amounts, bills)
      /\ \A c \in bills : Amounts[c] \in Int
  BY ReceiptsCount
<1>2. ASSUME NEW k \in K
      PROVE  f[k] = Sum(Amounts, {c \in bills : key[c] = k})
  <2>1. {c \in bills : key[c] = k} \in SUBSET KeptReceipts
    OBVIOUS
  <2> QED
    BY <2>1, ReceiptsCount
<1>3. Sum(f, K) = Sum(Amounts, bills)
  BY <1>1, <1>2, SumGroups
<1> QED
  BY <1>1, <1>3, SumOfIs

LEMMA MonthsAddUp ==
    ASSUME BillInv, NEW y
    PROVE  SumOf(MonthlySpend(y)) = Total(In(y))
<1>1. In(y) \in SUBSET KeptReceipts
  BY DEF In
<1>2. PICK key : key = [c \in In(y) |-> Date(c).month]
  OBVIOUS
<1>3. \A c \in In(y) : key[c] \in 1..12
  BY <1>1, <1>2, BillSays DEF Date
<1>4. PICK K : K = 1..12
  OBVIOUS
<1>5. IsFiniteSet(K)
  <2>1. PICK n : n = 12
    OBVIOUS
  <2>2. n \in Int /\ K = 1..n
    BY <1>4, <2>1
  <2> QED
    BY <2>2, IntervalFinite
<1>6. PICK f : f = MonthlySpend(y)
  OBVIOUS
<1>7. DOMAIN f = K /\ \A m \in K : f[m] = Total({c \in In(y) : key[c] = m})
  <2>1. ASSUME NEW m \in 1..12
        PROVE  InMonth(y, m) = {c \in In(y) : key[c] = m}
    BY <1>2 DEF InMonth
  <2>2. DOMAIN f = K /\ \A m \in K : f[m] = Total(InMonth(y, m))
    BY <1>4, <1>6 DEF MonthlySpend
  <2> QED
    BY <1>4, <2>1, <2>2
<1> QED
  <2>1. \A c \in In(y) : key[c] \in K
    BY <1>3, <1>4
  <2> QED
    BY <1>1, <1>6, <1>7, <1>5, <2>1, GroupsAddUp

LEMMA DaysAddUp ==
    ASSUME BillInv, NEW y, NEW m
    PROVE  SumOf(DailySpend(y, m)) = Total(InMonth(y, m))
<1>1. InMonth(y, m) \in SUBSET KeptReceipts
  BY DEF InMonth, In
<1>2. PICK key : key = [c \in InMonth(y, m) |-> Date(c).day]
  OBVIOUS
<1>3. PICK K : K = 1..LastDay(y, m)
  OBVIOUS
<1>4. IsFiniteSet(K)
  BY <1>3, LastDayTyped, IntervalFinite
<1>5. ASSUME NEW c \in InMonth(y, m)
      PROVE  key[c] \in K
  <2>1. Date(c).year = y /\ Date(c).month = m
    BY DEF InMonth, In
  <2>2. Date(c).day \in 1..LastDay(Date(c).year, Date(c).month)
    BY <1>1, BillSays DEF Date
  <2>3. Date(c).day \in K
    BY <1>3, <2>1, <2>2
  <2> QED
    BY <1>2, <2>3
<1>6. PICK f : f = DailySpend(y, m)
  OBVIOUS
<1>7. DOMAIN f = K /\ \A d \in K : f[d] = Total({c \in InMonth(y, m) : key[c] = d})
  <2>1. ASSUME NEW d
        PROVE  {c \in InMonth(y, m) : Date(c).day = d} = {c \in InMonth(y, m) : key[c] = d}
    BY <1>2
  <2>2. DOMAIN f = K /\ \A d \in K : f[d] = Total({c \in InMonth(y, m) : Date(c).day = d})
    BY <1>3, <1>6 DEF DailySpend
  <2> QED
    BY <2>1, <2>2
<1> QED
  BY <1>1, <1>4, <1>5, <1>6, <1>7, GroupsAddUp

LEMMA WeekdayTyped ==
    ASSUME BillInv, NEW c \in KeptReceipts
    PROVE  Weekday(Date(c)) \in 0..6
<1>1. PICK d : d = Date(c)
  OBVIOUS
<1>2. d.year \in Nat /\ d.month \in 1..12 /\ d.day \in Nat
  <2>1. d.day \in 1..LastDay(d.year, d.month)
    BY <1>1, BillSays DEF Date
  <2> QED
    BY <1>1, <2>1, BillSays, LastDayTyped DEF Date
<1>3. DayOfYear(d) \in Nat
  <2>1. PICK f : f = [m \in 1..(d.month - 1) |-> LastDay(d.year, m)]
    OBVIOUS
  <2>2. DOMAIN f = 1..(d.month - 1) /\ \A m \in DOMAIN f : f[m] \in Nat
    BY <2>1, LastDayTyped
  <2>3. IsFiniteSet(DOMAIN f)
    <3>1. d.month - 1 \in Int
      BY <1>2
    <3> QED
      BY <2>2, <3>1, IntervalFinite
  <2>4. Sum(f, DOMAIN f) \in Nat
    BY <2>2, <2>3, SumType
  <2>5. SumOf(f) \in Nat
    BY <2>4, SumOfIs
  <2> QED
    BY <1>2, <2>1, <2>5 DEF DayOfYear
<1>4. DaysBefore(d.year) \in Int
  BY <1>2 DEF DaysBefore
<1>5. DaysBefore(d.year) + DayOfYear(d) \in Int
  BY <1>3, <1>4
<1>6. \A n \in Int : n % 7 \in 0..6
  OBVIOUS
<1>7. Weekday(d) \in 0..6
  BY <1>5, <1>6 DEF Weekday
<1> QED
  BY <1>1, <1>7

LEMMA WeekdaysAddUp ==
    ASSUME BillInv, NEW y
    PROVE  SumOf(WeekdaySummary(y)) = Total(In(y))
<1>1. In(y) \in SUBSET KeptReceipts
  BY DEF In
<1>2. PICK key : key = [c \in In(y) |-> Weekday(Date(c))]
  OBVIOUS
<1>3. \A c \in In(y) : key[c] \in 0..6
  BY <1>1, <1>2, WeekdayTyped
<1>4. PICK K : K = 0..6
  OBVIOUS
<1>5. IsFiniteSet(K)
  <2>1. PICK n : n = 6
    OBVIOUS
  <2>2. n \in Int /\ K = 0..n
    BY <1>4, <2>1
  <2> QED
    BY <2>2, IntervalFinite
<1>6. PICK f : f = WeekdaySummary(y)
  OBVIOUS
<1>7. DOMAIN f = K /\ \A w \in K : f[w] = Total({c \in In(y) : key[c] = w})
  <2>1. ASSUME NEW w
        PROVE  {c \in In(y) : Weekday(Date(c)) = w} = {c \in In(y) : key[c] = w}
    BY <1>2
  <2>2. DOMAIN f = K /\ \A w \in K : f[w] = Total({c \in In(y) : Weekday(Date(c)) = w})
    BY <1>4, <1>6 DEF WeekdaySummary
  <2> QED
    BY <1>4, <2>1, <2>2
<1> QED
  <2>1. \A c \in In(y) : key[c] \in K
    BY <1>3, <1>4
  <2> QED
    BY <1>1, <1>6, <1>7, <1>5, <2>1, GroupsAddUp

LEMMA GroupsFinite ==
    ASSUME BillInv, NEW y
    PROVE  IsFiniteSet(GroupsIn(y))
<1>1. \A c \in In(y) : receipt[c].bill.category \in Categories \cup {NoCategory}
  BY BillSays DEF In
<1>2. GroupsIn(y) \in SUBSET (Categories \cup {NoCategory})
  BY <1>1 DEF GroupsIn
<1>3. IsFiniteSet(Categories \cup {NoCategory})
  BY CardAssumption, FS_AddElement
<1> QED
  BY <1>2, <1>3, FS_Subset

LEMMA CategoriesAddUp ==
    ASSUME BillInv, NEW y
    PROVE  SumOf(CategorySummary(y)) = Total(In(y))
<1>1. In(y) \in SUBSET KeptReceipts
  BY DEF In
<1>2. PICK key : key = [c \in In(y) |-> receipt[c].bill.category]
  OBVIOUS
<1>3. \A c \in In(y) : key[c] \in GroupsIn(y)
  BY <1>2 DEF GroupsIn
<1>4. PICK f : f = CategorySummary(y)
  OBVIOUS
<1>5. DOMAIN f = GroupsIn(y) /\ \A k \in GroupsIn(y) : f[k] = Total({c \in In(y) : key[c] = k})
  <2>1. ASSUME NEW k
        PROVE  {c \in In(y) : receipt[c].bill.category = k} = {c \in In(y) : key[c] = k}
    BY <1>2
  <2>2. /\ DOMAIN f = GroupsIn(y)
        /\ \A k \in GroupsIn(y) : f[k] = Total({c \in In(y) : receipt[c].bill.category = k})
    BY <1>4 DEF CategorySummary
  <2> QED
    BY <2>1, <2>2
<1> QED
  BY <1>1, <1>3, <1>4, <1>5, GroupsFinite, GroupsAddUp

LEMMA StoresAddUp ==
    ASSUME BillInv, NEW y
    PROVE  LET stores == TopStores(y, Cardinality(Stores))
           IN  SumOf([i \in DOMAIN stores |-> StoreTotal(y, stores[i])]) = Total(In(y))
<1>1. In(y) \in SUBSET KeptReceipts
  BY DEF In
<1>2. PICK visited : visited = {receipt[c].bill.store : c \in In(y)}
  OBVIOUS
<1>3. PICK R : R = {p \in visited \X visited : StoreTotal(y, p[1]) > StoreTotal(y, p[2])}
  OBVIOUS
<1>4. PICK n : n = Cardinality(visited)
  OBVIOUS
<1>5. /\ visited \in SUBSET Stores /\ IsFiniteSet(visited) /\ n \in Nat
      /\ MinOf(Cardinality(Stores), n) = n
  <2>1. visited \in SUBSET Stores
    BY <1>1, <1>2, BillSays
  <2>2. IsFiniteSet(visited) /\ n <= Cardinality(Stores)
    BY <1>4, <2>1, ReportAssumption, FS_Subset
  <2>3. n \in Nat /\ Cardinality(Stores) \in Nat
    BY <1>4, <2>2, ReportAssumption, FS_CardinalityType
  <2> QED
    BY <2>1, <2>2, <2>3 DEF MinOf
<1>6. Order(R, visited)
  <2>1. ASSUME NEW s
        PROVE  StoreTotal(y, s) \in Nat
    <3>1. {c \in In(y) : receipt[c].bill.store = s} \in SUBSET KeptReceipts
      BY <1>1
    <3> QED
      BY <3>1, ReceiptsCount DEF StoreTotal
  <2> QED
    BY <1>3, <2>1 DEF Order
<1>7. PICK list : list = InOrder(visited, R)
  OBVIOUS
<1>8. /\ list \in [1..n -> visited]
      /\ \A s \in visited : \E i \in 1..n : list[i] = s
      /\ \A i, j \in 1..n : i < j => list[i] # list[j]
  <2>1. Sorts(list, visited, R)
    BY <1>5, <1>6, <1>7, InOrderSorts
  <2> QED
    BY <1>4, <2>1 DEF Sorts
<1>9. TopStores(y, Cardinality(Stores)) = list
  <2>1. TopStores(y, Cardinality(Stores)) = SubSeq(list, 1, n)
    BY <1>2, <1>3, <1>4, <1>5, <1>7 DEF TopStores
  <2>2. list \in Seq(visited) /\ Len(list) = n
    BY <1>5, <1>8
  <2>3. SubSeq(list, 1, n) = list
    BY <1>5, <2>2
  <2> QED
    BY <2>1, <2>3
<1>10. PICK key : key = [c \in In(y) |-> CHOOSE i \in 1..n : list[i] = receipt[c].bill.store]
  OBVIOUS
<1>11. ASSUME NEW c \in In(y)
       PROVE  key[c] \in 1..n /\ list[key[c]] = receipt[c].bill.store
  <2>1. receipt[c].bill.store \in visited
    BY <1>2
  <2>2. \E i \in 1..n : list[i] = receipt[c].bill.store
    BY <1>8, <2>1
  <2> QED
    BY <1>10, <2>2
<1>12. ASSUME NEW i \in 1..n
       PROVE  {c \in In(y) : receipt[c].bill.store = list[i]} = {c \in In(y) : key[c] = i}
  <2>1. ASSUME NEW c \in In(y), receipt[c].bill.store = list[i]
        PROVE  key[c] = i
    <3>1. key[c] \in 1..n /\ list[key[c]] = list[i]
      BY <1>11, <2>1
    <3>2. ~(key[c] < i) /\ ~(i < key[c])
      BY <1>8, <3>1
    <3> QED
      BY <1>5, <3>1, <3>2
  <2> QED
    BY <1>11, <2>1
<1>13. PICK f : f = [i \in DOMAIN list |-> StoreTotal(y, list[i])]
  OBVIOUS
<1>14. DOMAIN f = 1..n /\ \A i \in 1..n : f[i] = Total({c \in In(y) : key[c] = i})
  <2>1. DOMAIN f = 1..n /\ \A i \in 1..n : f[i] = StoreTotal(y, list[i])
    BY <1>8, <1>13
  <2>2. \A i \in 1..n :
           StoreTotal(y, list[i]) = Total({c \in In(y) : receipt[c].bill.store = list[i]})
    BY DEF StoreTotal
  <2> QED
    BY <1>12, <2>1, <2>2
<1>15. SumOf(f) = Total(In(y))
  <2>1. PICK K : K = 1..n
    OBVIOUS
  <2>2. IsFiniteSet(K)
    BY <1>5, <2>1, IntervalFinite
  <2>3. /\ \A c \in In(y) : key[c] \in K
        /\ DOMAIN f = K /\ \A k \in K : f[k] = Total({c \in In(y) : key[c] = k})
    BY <1>11, <1>14, <2>1
  <2> QED
    BY <1>1, <2>2, <2>3, GroupsAddUp
<1> QED
  BY <1>9, <1>13, <1>15

LEMMA Cancel ==
    ASSUME NEW w \in Nat \ {0}, NEW u \in Int, NEW v \in Int, w * u <= w * v
    PROVE  u <= v
<1>1. u > v => u >= v + 1
  OBVIOUS
<1>2. u >= v + 1 => w * u >= w * (v + 1)
  OBVIOUS
<1>3. w * (v + 1) = w * v + w
  OBVIOUS
<1>4. w * u \in Int /\ w * v \in Int
  OBVIOUS
<1> QED
  BY <1>1, <1>2, <1>3, <1>4

(* A percentage is off by at most half of a tenth.                         *)
LEMMA PercentageRounds ==
    ASSUME NEW a \in Nat, NEW w \in Nat, w > 0
    PROVE  Percentage(a, w) \in Nat /\ Rounds(Percentage(a, w), a, w, 1)
<1>1. PICK x : x = 2000 * a + w
  OBVIOUS
<1>2. PICK d : d = 2 * w
  OBVIOUS
<1>3. x \in Nat /\ d \in Nat /\ d > 0
  BY <1>1, <1>2
<1>4. PICK q : q = x \div d
  OBVIOUS
<1>5. q \in Nat /\ d * q <= x /\ x < d * q + d
  BY <1>3, <1>4
<1>6. Percentage(a, w) = q
  BY <1>1, <1>2, <1>4 DEF Percentage
<1>7. d * q = 2 * (w * q) /\ w * q \in Nat
  BY <1>2, <1>5
<1>8. Rounds(q, a, w, 1)
  BY <1>1, <1>2, <1>5, <1>7 DEF Rounds
<1> QED
  BY <1>5, <1>6, <1>8

LEMMA PercentagesAddUp ==
    ASSUME BillInv, NEW y, Total(In(y)) > 0
    PROVE  LET percent == SumOf([k \in GroupsIn(y) |->
                                    Percentage(CategorySummary(y)[k], Total(In(y)))])
           IN  /\ 2 * percent <= 2000 + Cardinality(GroupsIn(y))
               /\ 2 * percent >= 2000 - Cardinality(GroupsIn(y))
<1>1. In(y) \in SUBSET KeptReceipts
  BY DEF In
<1>2. PICK K : K = GroupsIn(y)
  OBVIOUS
<1>3. PICK n : n = Cardinality(K)
  OBVIOUS
<1>4. IsFiniteSet(K) /\ n \in Nat
  BY <1>2, <1>3, GroupsFinite, FS_CardinalityType
<1>5. PICK w : w = Total(In(y))
  OBVIOUS
<1>6. w \in Nat /\ w > 0
  BY <1>1, <1>5, ReceiptsCount
<1>7. PICK a : a = CategorySummary(y)
  OBVIOUS
<1>8. PICK p : p = [k \in K |-> Percentage(a[k], w)]
  OBVIOUS
<1>9. DOMAIN a = K /\ Sum(a, K) = w
  <2>1. DOMAIN a = K
    BY <1>2, <1>7 DEF CategorySummary
  <2>2. SumOf(a) = w
    BY <1>5, <1>7, CategoriesAddUp
  <2> QED
    BY <2>1, <2>2, SumOfIs
<1>10. ASSUME NEW k \in K
       PROVE  a[k] \in Nat /\ p[k] \in Nat /\ Rounds(p[k], a[k], w, 1)
  <2>1. {c \in In(y) : receipt[c].bill.category = k} \in SUBSET KeptReceipts
    BY <1>1
  <2>2. a[k] \in Nat
    BY <1>2, <1>7, <2>1, ReceiptsCount DEF CategorySummary
  <2>3. p[k] = Percentage(a[k], w)
    BY <1>8
  <2> QED
    BY <1>6, <2>2, <2>3, PercentageRounds
<1>11. PICK s : s = Sum(p, K)
  OBVIOUS
<1>12. Rounds(s, w, w, n)
  BY <1>3, <1>4, <1>6, <1>9, <1>10, <1>11, SumShares
<1>13. s \in Nat
  BY <1>4, <1>10, <1>11, SumType
<1>14. s = SumOf(p)
  BY <1>8, <1>11, SumOfIs
<1>15. 2 * s <= 2000 + n /\ 2 * s >= 2000 - n
  <2>1. w * (2 * s) <= w * (2000 + n) /\ w * (2 * s) >= w * (2000 - n)
    BY <1>4, <1>6, <1>12, <1>13 DEF Rounds
  <2>2. w \in Nat \ {0}
    BY <1>6
  <2>3. 2 * s \in Int /\ 2000 + n \in Int /\ 2000 - n \in Int
    BY <1>4, <1>13
  <2> QED
    BY <2>1, <2>2, <2>3, Cancel
<1> QED
  BY <1>2, <1>3, <1>5, <1>7, <1>8, <1>14, <1>15

(* The reports of a year agree (reports.service.ts): months, days,         *)
(* weekdays, categories and stores each add up to what was spent, and the  *)
(* rounded percentages to a hundred but for half of a tenth for each of    *)
(* them.  Every receipt has one month, day, weekday, category and store;   *)
(* the calendar must leave no day out.                                     *)
THEOREM ReportsAreConsistent == Spec => []ReportsAgree
<1>1. Init => TypeInv /\ BillInv
  BY InitTyped, InitBills
<1>2. TypeInv /\ BillInv /\ [Next]_vars => (TypeInv /\ BillInv)'
  BY NextTyped, NextKeepsBills
<1>3. TypeInv /\ BillInv => ReportsAgree
  <2> SUFFICES ASSUME BillInv PROVE ReportsAgree
    OBVIOUS
  <2>1. ASSUME NEW y, NEW m \in 1..12
        PROVE  /\ SumOf(DailySpend(y, m)) = MonthlySpend(y)[m]
               /\ ThisMonthSummary(y, m) = MonthlySpend(y)[m]
    <3>1. MonthlySpend(y)[m] = Total(InMonth(y, m))
      BY DEF MonthlySpend
    <3> QED
      BY <3>1, DaysAddUp DEF ThisMonthSummary
  <2>2. ASSUME NEW y \in {z \in Years : In(z) # {}}
        PROVE  LET total == Total(In(y))
                   stores == TopStores(y, Cardinality(Stores))
                   percent == SumOf([k \in GroupsIn(y) |->
                                        Percentage(CategorySummary(y)[k], total)])
               IN  /\ SumOf(MonthlySpend(y)) = total
                   /\ \A m \in 1..12 : /\ SumOf(DailySpend(y, m)) = MonthlySpend(y)[m]
                                       /\ ThisMonthSummary(y, m) = MonthlySpend(y)[m]
                   /\ SumOf(WeekdaySummary(y)) = total
                   /\ SumOf(CategorySummary(y)) = total
                   /\ SumOf([i \in DOMAIN stores |-> StoreTotal(y, stores[i])]) = total
                   /\ total > 0 => /\ 2 * percent <= 2000 + Cardinality(GroupsIn(y))
                                   /\ 2 * percent >= 2000 - Cardinality(GroupsIn(y))
    <3>1. /\ SumOf(MonthlySpend(y)) = Total(In(y)) /\ SumOf(WeekdaySummary(y)) = Total(In(y))
          /\ SumOf(CategorySummary(y)) = Total(In(y))
      BY MonthsAddUp, WeekdaysAddUp, CategoriesAddUp
    <3>2. LET stores == TopStores(y, Cardinality(Stores))
          IN  SumOf([i \in DOMAIN stores |-> StoreTotal(y, stores[i])]) = Total(In(y))
      BY Zenon, StoresAddUp
    <3>3. ASSUME Total(In(y)) > 0
          PROVE  LET percent == SumOf([k \in GroupsIn(y) |->
                                    Percentage(CategorySummary(y)[k], Total(In(y)))])
                 IN  /\ 2 * percent <= 2000 + Cardinality(GroupsIn(y))
                     /\ 2 * percent >= 2000 - Cardinality(GroupsIn(y))
      BY <3>3, PercentagesAddUp
    <3>4. /\ \A m \in 1..12 : /\ SumOf(DailySpend(y, m)) = MonthlySpend(y)[m]
                              /\ ThisMonthSummary(y, m) = MonthlySpend(y)[m]
      BY Zenon, <2>1
    <3> QED
      BY <3>1, <3>2, <3>3, <3>4
  <2> QED
    BY Zenon, <2>2 DEF ReportsAgree
<1> QED
  BY <1>1, <1>2, <1>3, PTL DEF Spec

-----------------------------------------------------------------------------
(* The pages *)

(* The rows up to the end of page k.                                       *)
Upto(k, size, n) == MinOf(k * size, n)

LEMMA SortedSorts ==
    ASSUME BillInv, NEW query, NEW sort
    PROVE  LET rows == Sorted(query, sort)
           IN  /\ rows \in Seq(Found(query))
               /\ ToSet(rows) = Found(query)
<1>1. PICK found : found = Found(query)
  OBVIOUS
<1>2. PICK R : R = {p \in found \X found : SortBefore(sort, p[1], p[2])}
  OBVIOUS
<1>3. found \in SUBSET KeptReceipts
  BY <1>1 DEF Found
<1>4. IsFiniteSet(found)
  BY <1>3, ReceiptsCount
<1>5. Order(R, found)
  <2>1. \A c \in found : receipt[c].bill.amount \in Nat
    BY <1>3, BillSays
  <2>2. CASE sort = "amountAsc"
    <3>1. \A a, b \in found :
             <<a, b>> \in R <=> receipt[a].bill.amount < receipt[b].bill.amount
      BY <1>2, <2>2 DEF SortBefore
    <3>2. ASSUME NEW x \in found, NEW y \in found, NEW z \in found
          PROVE  /\ <<x, y>> \in R => <<y, x>> \notin R
                 /\ <<x, y>> \notin R /\ <<y, z>> \notin R => <<x, z>> \notin R
      <4>1. /\ receipt[x].bill.amount \in Nat /\ receipt[y].bill.amount \in Nat
            /\ receipt[z].bill.amount \in Nat
        BY <2>1
      <4> QED
        BY <3>1, <4>1
    <3> QED
      BY <3>2 DEF Order
  <2>3. CASE sort # "amountAsc"
    <3>1. \A a, b \in found :
             <<a, b>> \in R <=> receipt[a].bill.amount > receipt[b].bill.amount
      BY <1>2, <2>3 DEF SortBefore
    <3>2. ASSUME NEW x \in found, NEW y \in found, NEW z \in found
          PROVE  /\ <<x, y>> \in R => <<y, x>> \notin R
                 /\ <<x, y>> \notin R /\ <<y, z>> \notin R => <<x, z>> \notin R
      <4>1. /\ receipt[x].bill.amount \in Nat /\ receipt[y].bill.amount \in Nat
            /\ receipt[z].bill.amount \in Nat
        BY <2>1
      <4> QED
        BY <3>1, <4>1
    <3> QED
      BY <3>2 DEF Order
  <2> QED
    BY <2>2, <2>3
<1>6. PICK rows : rows = InOrder(found, R)
  OBVIOUS
<1>7. Sorts(rows, found, R)
  BY <1>4, <1>5, <1>6, InOrderSorts
<1>8. PICK n : n = Cardinality(found)
  OBVIOUS
<1>9. /\ rows \in [1..n -> found] /\ n \in Nat
      /\ \A x \in found : \E i \in 1..n : rows[i] = x
  BY <1>4, <1>7, <1>8, FS_CardinalityType DEF Sorts
<1>10. rows \in Seq(found) /\ DOMAIN rows = 1..n
  BY <1>9
<1>11. ToSet(rows) = found
  BY <1>9, <1>10 DEF ToSet
<1>12. rows = Sorted(query, sort)
  BY <1>1, <1>2, <1>6 DEF Sorted
<1> QED
  BY <1>1, <1>10, <1>11, <1>12

(* A page holds the rows after those of the page before it, up to its end. *)
LEMMA PageIs ==
    ASSUME NEW S, NEW rows \in Seq(S), NEW size \in Nat \ {0}, NEW k \in Nat \ {0}
    PROVE  LET a == Upto(k - 1, size, Len(rows))
               b == Upto(k, size, Len(rows))
           IN  /\ a \in Nat /\ b \in Nat /\ a <= b
               /\ Page(rows, k, size) \in Seq(S)
               /\ Len(Page(rows, k, size)) = b - a
               /\ \A i \in 1..(b - a) : Page(rows, k, size)[i] = rows[a + i]
<1> DEFINE n == Len(rows)
           a == Upto(k - 1, size, n)
           b == Upto(k, size, n)
           from == (k - 1) * size + 1
           to == MinOf(from + size - 1, n)
<1>1. n \in Nat
  OBVIOUS
<1>2. /\ a \in Nat /\ b \in Nat /\ a <= b /\ b <= n
      /\ from \in Nat \ {0} /\ to = b
      /\ from <= to => a = from - 1
      /\ from > to => a = b
  <2>1. PICK u : u = (k - 1) * size
    OBVIOUS
  <2>2. u \in Nat /\ k * size = u + size
    BY <2>1
  <2>3. /\ a = IF u < n THEN u ELSE n
        /\ b = IF u + size < n THEN u + size ELSE n
        /\ from = u + 1
        /\ to = IF u + 1 + size - 1 < n THEN u + 1 + size - 1 ELSE n
    BY <2>1, <2>2 DEF Upto, MinOf
  <2> HIDE DEF n, a, b, from, to
  <2> QED
    BY <1>1, <2>2, <2>3
<1>3. Page(rows, k, size) = SubSeq(rows, from, to)
  BY DEF Page, Skipped
<1> HIDE DEF n, a, b, from, to
<1>4. PICK page : page = SubSeq(rows, from, to)
  OBVIOUS
<1>5. CASE from <= to
  <2>1. 1 <= from /\ to <= n /\ from \in Int /\ to \in Int /\ n = Len(rows)
    BY <1>1, <1>2 DEF n
  <2>2. page \in Seq(S) /\ Len(page) = to - from + 1
        /\ \A i \in 1..(to - from + 1) : page[i] = rows[from + i - 1]
    BY <1>4, <1>5, <2>1
  <2>3. to - from + 1 = b - a /\ \A i \in 1..(b - a) : from + i - 1 = a + i
    BY <1>2, <1>5
  <2>4. /\ page \in Seq(S) /\ Len(page) = b - a
        /\ \A i \in 1..(b - a) : page[i] = rows[a + i]
    BY <2>2, <2>3
  <2> QED
    BY <1>2, <1>3, <1>4, <2>4 DEF a, b, n
<1>6. CASE from > to
  <2>1. page = <<>> /\ b - a = 0
    BY <1>2, <1>4, <1>6
  <2> QED
    BY <1>2, <1>3, <1>4, <2>1 DEF a, b, n
<1> QED
  BY <1>2, <1>5, <1>6

LEMMA PagesEnd ==
    ASSUME NEW n \in Nat, NEW size \in Nat \ {0}
    PROVE  /\ TotalPages(n, size) \in Nat
           /\ Upto(0, size, n) = 0 /\ Upto(TotalPages(n, size), size, n) = n
           /\ \A k \in Nat : Upto(k, size, n) \in Nat
           /\ \A k \in Nat : n > k * size <=> Upto(k, size, n) < Upto(k + 1, size, n)
           /\ \A i \in 1..n : \E k \in 1..TotalPages(n, size) :
                 Upto(k - 1, size, n) < i /\ i <= Upto(k, size, n)
<1>1. ASSUME NEW i \in Nat, NEW k, k = (i + size - 1) \div size
      PROVE  /\ k \in Nat /\ size * k \in Nat
             /\ size * k >= i /\ size * (k - 1) < i /\ size * (k - 1) = size * k - size
  <2>1. PICK x : x = i + size - 1
    OBVIOUS
  <2>2. k = x \div size /\ x \in Nat
    BY <1>1, <2>1
  <2>3. k \in Nat /\ size * k <= x /\ x < size * k + size
    BY <2>2
  <2>4. size * (k - 1) = size * k - size /\ size * k \in Nat
    BY <2>3
  <2> QED
    BY <2>1, <2>3, <2>4
<1>2. PICK p : p = TotalPages(n, size)
  OBVIOUS
<1>3. p \in Nat /\ size * p \in Nat /\ size * p >= n
  <2>1. CASE n = 0
    BY <1>2, <2>1 DEF TotalPages
  <2>2. CASE n # 0
    <3>1. p = (n + size - 1) \div size
      BY <1>2, <2>2 DEF TotalPages
    <3> QED
      BY <1>1, <3>1
  <2> QED
    BY <2>1, <2>2
<1>4. ASSUME NEW k \in Int
      PROVE  /\ size * k \in Int /\ size * (k + 1) = size * k + size
             /\ Upto(k, size, n) = IF size * k < n THEN size * k ELSE n
  <2>1. size * k \in Int /\ size * (k + 1) = size * k + size /\ k * size = size * k
    OBVIOUS
  <2> QED
    BY <2>1 DEF Upto, MinOf
<1>5. Upto(0, size, n) = 0 /\ Upto(p, size, n) = n
  <2>1. size * 0 = 0
    OBVIOUS
  <2> QED
    BY <1>3, <1>4, <2>1
<1>6. ASSUME NEW k \in Nat
      PROVE  /\ Upto(k, size, n) \in Nat
             /\ n > k * size <=> Upto(k, size, n) < Upto(k + 1, size, n)
  <2>1. PICK u : u = size * k
    OBVIOUS
  <2>2. u \in Nat /\ k * size = u
    BY <2>1
  <2>3. Upto(k, size, n) = IF u < n THEN u ELSE n
    BY <1>4, <2>1
  <2>4. Upto(k + 1, size, n) = IF u + size < n THEN u + size ELSE n
    BY <1>4, <2>1
  <2> QED
    BY <2>2, <2>3, <2>4
<1>7. ASSUME NEW i \in 1..n
      PROVE  \E k \in 1..p : Upto(k - 1, size, n) < i /\ i <= Upto(k, size, n)
  <2>1. PICK k : k = (i + size - 1) \div size
    OBVIOUS
  <2>2. i \in Nat /\ 1 <= i /\ i <= n
    OBVIOUS
  <2>3. /\ k \in Nat /\ size * k \in Nat
        /\ size * k >= i /\ size * (k - 1) < i /\ size * (k - 1) = size * k - size
    BY <1>1, <2>1, <2>2
  <2>4. k \in 1..p
    <3>1. k # 0
      <4>1. size * 0 = 0
        OBVIOUS
      <4> QED
        BY <2>2, <2>3, <4>1
    <3>2. k - 1 < p
      <4>1. size * (k - 1) < size * p
        BY <1>3, <2>2, <2>3
      <4>2. k - 1 \in Int /\ p \in Int /\ size * p \in Int /\ size * (k - 1) \in Int
        BY <1>3, <2>3
      <4>3. p <= k - 1 => size * p <= size * (k - 1)
        BY <4>2
      <4> QED
        BY <4>1, <4>2, <4>3
    <3> QED
      BY <1>3, <2>3, <3>1, <3>2
  <2>5. Upto(k - 1, size, n) < i
    <3>1. k - 1 \in Int
      BY <2>3
    <3>2. Upto(k - 1, size, n) = IF size * (k - 1) < n THEN size * (k - 1) ELSE n
      BY <1>4, <3>1
    <3> QED
      BY <2>2, <2>3, <3>2
  <2>6. i <= Upto(k, size, n)
    <3>1. Upto(k, size, n) = IF size * k < n THEN size * k ELSE n
      BY <1>4, <2>3
    <3> QED
      BY <2>2, <2>3, <3>1
  <2> QED
    BY Zenon, <2>4, <2>5, <2>6
<1> QED
  BY <1>2, <1>3, <1>5, <1>6, <1>7

LEMMA PagesHold ==
    ASSUME NEW S, NEW rows \in Seq(S), NEW size \in Nat \ {0}
    PROVE  LET pages == 1..TotalPages(Len(rows), size)
           IN  /\ SumOf([k \in pages |-> Len(Page(rows, k, size))]) = Len(rows)
               /\ UNION {ToSet(Page(rows, k, size)) : k \in pages} = ToSet(rows)
               /\ \A k \in pages :
                     HasNext(Len(rows), k, size) <=> Page(rows, k + 1, size) # <<>>
<1>1. PICK n : n = Len(rows)
  OBVIOUS
<1>2. PICK p : p = TotalPages(n, size)
  OBVIOUS
<1>3. PICK h : h = [k \in Nat |-> Upto(k, size, n)]
  OBVIOUS
<1>4. n \in Nat /\ p \in Nat
  <2>1. n \in Nat
    BY <1>1
  <2> QED
    BY <1>2, <2>1, PagesEnd
<1>5. /\ Upto(0, size, n) = 0 /\ Upto(p, size, n) = n
      /\ \A k \in Nat : Upto(k, size, n) \in Nat
      /\ \A k \in Nat : n > k * size <=> Upto(k, size, n) < Upto(k + 1, size, n)
      /\ \A i \in 1..n : \E k \in 1..p :
            Upto(k - 1, size, n) < i /\ i <= Upto(k, size, n)
  BY <1>2, <1>4, PagesEnd
<1>6. \A k \in Nat : h[k] = Upto(k, size, n) /\ h[k] \in Nat /\ h[k] <= n
  <2>1. ASSUME NEW k \in Nat
        PROVE  k * size \in Nat
    OBVIOUS
  <2> QED
    BY <1>3, <1>4, <1>5, <2>1 DEF Upto, MinOf
<1>7. h[0] = 0 /\ h[p] = n
  <2>1. 0 \in Nat
    OBVIOUS
  <2> QED
    BY Zenon, <1>5, <1>6, <1>4, <2>1
<1>8. \A k \in 1..p : k \in Nat \ {0} /\ k \in Nat /\ k - 1 \in Nat
  BY <1>4
<1>9. ASSUME NEW i \in 1..n
      PROVE  \E k \in 1..p : h[k - 1] < i /\ i <= h[k]
  <2>1. PICK k \in 1..p : Upto(k - 1, size, n) < i /\ i <= Upto(k, size, n)
    BY Zenon, <1>5
  <2>2. h[k] = Upto(k, size, n) /\ h[k - 1] = Upto(k - 1, size, n)
    BY Zenon, <1>6, <1>8
  <2> QED
    BY Zenon, <2>1, <2>2
<1>10. PICK page : page = [k \in Nat \ {0} |-> Page(rows, k, size)]
  OBVIOUS
<1>11. ASSUME NEW k \in Nat \ {0}
       PROVE  /\ page[k] = Page(rows, k, size)
              /\ page[k] \in Seq(S) /\ Len(page[k]) = h[k] - h[k - 1]
              /\ \A i \in 1..(h[k] - h[k - 1]) : page[k][i] = rows[h[k - 1] + i]
  <2>1. k - 1 \in Nat /\ k \in Nat
    OBVIOUS
  <2>2. h[k] = Upto(k, size, Len(rows)) /\ h[k - 1] = Upto(k - 1, size, Len(rows))
    BY <1>1, <1>6, <2>1
  <2>3. page[k] = Page(rows, k, size)
    BY <1>10
  <2>4. /\ Page(rows, k, size) \in Seq(S)
        /\ Len(Page(rows, k, size)) = h[k] - h[k - 1]
        /\ \A i \in 1..(h[k] - h[k - 1]) : Page(rows, k, size)[i] = rows[h[k - 1] + i]
    <3>1. LET a == Upto(k - 1, size, Len(rows))
              b == Upto(k, size, Len(rows))
          IN  /\ Page(rows, k, size) \in Seq(S)
              /\ Len(Page(rows, k, size)) = b - a
              /\ \A i \in 1..(b - a) : Page(rows, k, size)[i] = rows[a + i]
      BY PageIs
    <3> QED
      BY <2>2, <3>1
  <2> QED
    BY <2>3, <2>4
<1>12. SumOf([k \in 1..p |-> Len(Page(rows, k, size))]) = n
  <2>1. PICK f : f = [k \in 1..p |-> Len(Page(rows, k, size))]
    OBVIOUS
  <2>2. ASSUME NEW k \in 1..p
        PROVE  f[k] \in Int /\ h[k] = h[k - 1] + f[k]
    <3>1. f[k] = h[k] - h[k - 1]
      BY <1>8, <1>11, <2>1
    <3>2. h[k] \in Int /\ h[k - 1] \in Int
      BY <1>6, <1>8
    <3> QED
      BY <3>1, <3>2
  <2>3. Sum(f, 1..p) = h[p]
    <3>1. p \in Nat /\ h[0] = 0
      BY <1>4, <1>7
    <3> QED
      BY Zenon, <2>2, <3>1, SumTo
  <2>4. DOMAIN f = 1..p
    BY <2>1
  <2> QED
    BY <1>7, <2>1, <2>3, <2>4, SumOfIs
<1>13. \A x : x \in ToSet(rows) <=> \E i \in 1..n : x = rows[i]
  BY <1>1 DEF ToSet
<1>14. ASSUME NEW k \in 1..p, NEW x
       PROVE  x \in ToSet(Page(rows, k, size)) <=>
                 \E i \in 1..(h[k] - h[k - 1]) : x = rows[h[k - 1] + i]
  <2>1. /\ page[k] = Page(rows, k, size)
        /\ page[k] \in Seq(S) /\ Len(page[k]) = h[k] - h[k - 1]
        /\ \A i \in 1..(h[k] - h[k - 1]) : page[k][i] = rows[h[k - 1] + i]
    BY Zenon, <1>8, <1>11
  <2>2. DOMAIN page[k] = 1..(h[k] - h[k - 1])
    BY <2>1
  <2>3. x \in ToSet(page[k]) <=> \E i \in DOMAIN page[k] : x = page[k][i]
    BY DEF ToSet
  <2> QED
    BY <2>1, <2>2, <2>3
<1>15. UNION {ToSet(Page(rows, k, size)) : k \in 1..p} = ToSet(rows)
  <2>1. ASSUME NEW k \in 1..p, NEW x \in ToSet(Page(rows, k, size))
        PROVE  x \in ToSet(rows)
    <3>1. PICK i \in 1..(h[k] - h[k - 1]) : x = rows[h[k - 1] + i]
      BY <1>14
    <3>2. h[k] \in Nat /\ h[k - 1] \in Nat /\ h[k] <= n /\ n \in Nat
      BY <1>4, <1>6, <1>8
    <3>3. h[k - 1] + i \in 1..n
      BY <3>2
    <3> QED
      BY <1>13, <3>1, <3>3
  <2>2. ASSUME NEW x \in ToSet(rows)
        PROVE  \E k \in 1..p : x \in ToSet(Page(rows, k, size))
    <3>1. PICK i \in 1..n : x = rows[i]
      BY <1>13
    <3>2. PICK k \in 1..p : h[k - 1] < i /\ i <= h[k]
      BY <1>9
    <3>3. h[k] \in Nat /\ h[k - 1] \in Nat /\ i \in Int
      <4>1. i \in Int
        BY <1>4
      <4> QED
        BY Zenon, <1>6, <1>8, <4>1
    <3>4. i - h[k - 1] \in 1..(h[k] - h[k - 1]) /\ h[k - 1] + (i - h[k - 1]) = i
      BY <3>2, <3>3
    <3>5. x \in ToSet(Page(rows, k, size))
      BY <1>14, <3>1, <3>4
    <3> QED
      BY <3>5
  <2> QED
    BY <2>1, <2>2
<1>16. ASSUME NEW k \in 1..p
       PROVE  HasNext(n, k, size) <=> Page(rows, k + 1, size) # <<>>
  <2>1. k \in Nat /\ k + 1 \in Nat \ {0} /\ (k + 1) - 1 = k /\ k + 1 \in Nat
    BY <1>8
  <2>2. h[k] \in Nat /\ h[k + 1] \in Nat
    BY <1>6, <2>1
  <2>3. HasNext(n, k, size) <=> h[k] < h[k + 1]
    <3>1. n > k * size <=> Upto(k, size, n) < Upto(k + 1, size, n)
      BY Zenon, <1>5, <2>1
    <3>2. h[k] = Upto(k, size, n) /\ h[k + 1] = Upto(k + 1, size, n)
      BY <1>6, <2>1
    <3> QED
      BY <3>1, <3>2 DEF HasNext
  <2>4. page[k + 1] \in Seq(S) /\ Len(page[k + 1]) = h[k + 1] - h[k]
    BY <1>11, <2>1
  <2>5. page[k + 1] # <<>> <=> Len(page[k + 1]) > 0
    BY <2>2, <2>4
  <2>6. page[k + 1] = Page(rows, k + 1, size)
    BY <1>11, <2>1
  <2> QED
    BY <2>2, <2>3, <2>4, <2>5, <2>6
<1> QED
  BY <1>1, <1>2, <1>12, <1>15, <1>16

(* The pages of a list of receipts (findList, getReceiptList) have every   *)
(* receipt that was asked for exactly once, and another page follows just  *)
(* when it is said to.                                                     *)
THEOREM PagesAreComplete == Spec => []PagesAgree
<1>1. Init => TypeInv /\ BillInv
  BY InitTyped, InitBills
<1>2. TypeInv /\ BillInv /\ [Next]_vars => (TypeInv /\ BillInv)'
  BY NextTyped, NextKeepsBills
<1>3. TypeInv /\ BillInv => PagesAgree
  <2> SUFFICES ASSUME BillInv PROVE PagesAgree
    OBVIOUS
  <2>1. ASSUME NEW query, NEW sort, NEW size \in Nat \ {0}
        PROVE  LET rows == Sorted(query, sort)
                   pages == 1..TotalPages(Len(rows), size)
               IN  /\ SumOf([n \in pages |-> Len(Page(rows, n, size))]) = Len(rows)
                   /\ UNION {ToSet(Page(rows, n, size)) : n \in pages} = Found(query)
                   /\ \A n \in pages :
                         HasNext(Len(rows), n, size) <=> Page(rows, n + 1, size) # <<>>
    <3>1. PICK rows : rows = Sorted(query, sort)
      OBVIOUS
    <3>2. rows \in Seq(Found(query)) /\ ToSet(rows) = Found(query)
      BY <3>1, SortedSorts
    <3>3. LET pages == 1..TotalPages(Len(rows), size)
          IN  /\ SumOf([n \in pages |-> Len(Page(rows, n, size))]) = Len(rows)
              /\ UNION {ToSet(Page(rows, n, size)) : n \in pages} = ToSet(rows)
              /\ \A n \in pages :
                    HasNext(Len(rows), n, size) <=> Page(rows, n + 1, size) # <<>>
      BY <3>2, PagesHold
    <3> QED
      BY <3>1, <3>2, <3>3
  <2> QED
    BY <2>1, ReportAssumption DEF PagesAgree
<1> QED
  BY <1>1, <1>2, <1>3, PTL DEF Spec

=============================================================================
