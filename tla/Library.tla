------------------------------ MODULE Library -------------------------------
(***************************************************************************)
(* The documents and receipts of a user, the recommendations made from the *)
(* receipts and the queries over them, with failing calls.  A behaviour    *)
(* uses the operations, slots and threads of one scenario.                 *)
(***************************************************************************)
EXTENDS Documents, Receipts, Reports

(* One document, which may be locked and may have files and a tag, and     *)
(* some receipts.                                                          *)
Init ==
    /\ scenario \in Scenarios
    /\ \E locked \in BOOLEAN, n \in Names, first \in Docs :
         /\ first = CHOOSE d \in Docs : TRUE
         /\ n = CHOOSE m \in Names : TRUE
         /\ doc = [d \in Docs |-> IF d = first THEN [NewDoc(1) EXCEPT !.locked = locked]
                                                ELSE NoDocRow]
         /\ docFile = {first} \X Pages
         /\ tag = {n} /\ docTag = {<<first, n>>}
    /\ cookie = NoDoc /\ proven = {} /\ view = {}
    /\ receipt \in scenario.given
    /\ uploaded = {receipt[c].image : c \in Receipts} \ {NoImage}
    /\ s3 = uploaded
    /\ used = 1 + Cardinality(uploaded)
    /\ queued = 0 /\ reco = {} /\ thread = [t \in Threads |-> IdleThread]
    /\ req = [r \in Requests |-> IdleRequest]
    /\ asked = 0 /\ faults = 0
    /\ raced = {} /\ writes = 0 /\ requestedAt = 0 /\ servedAt = 0 /\ jobsDone = 0

(* An awaited call throws, or the API server restarts.                     *)
Abort(r) ==
    /\ ~Idle(r) /\ faults < MaxFaults
    /\ faults' = faults + 1
    /\ req' = Finished(r)
    /\ UNCHANGED <<documents, unlocking, receipts, used, cards, scenario, asked>>

Next ==
    \/ \E r \in Requests : DocumentRequest(r) \/ DocumentStep(r)
    \/ \E r \in Requests : ReceiptRequest(r) \/ ReceiptStep(r)
    \/ \E r \in Requests : StartRequestAi(r) \/ PushJob(r) \/ Abort(r)
    \/ \E t \in Threads : ThreadStep(t) \/ JobFails(t)
    \/ \E d \in Docs : ExpireToken(d)

Spec == Init /\ [][Next]_vars

(* The worker goes on with its jobs, and takes the next one that waits.    *)
FairSpec == Spec /\ \A t \in Threads : WF_vars(ThreadStep(t))

-----------------------------------------------------------------------------
(* Invariants *)

(* Tables keep their types and their foreign keys: files and tags belong   *)
(* to documents that exist, however creations and taggings overlap a       *)
(* deletion, and also after a save has brought a deleted document back.    *)
TablesOK ==
    /\ doc \in [Docs -> DocRow]
    /\ docFile \subseteq Docs \X Pages
    /\ tag \subseteq Names /\ docTag \subseteq Docs \X tag
    /\ \A x \in docFile \cup docTag : Exists(x[1])
    /\ cookie \in Docs \cup {NoDoc} /\ proven \subseteq Docs
    /\ view \subseteq [doc : Docs, whole : BOOLEAN, locked : BOOLEAN]
    /\ receipt \in [Receipts -> ReceiptRow]
    /\ s3 \subseteq uploaded /\ uploaded \subseteq Images
    /\ used \in Nat /\ queued \in Nat
    /\ req \in [Requests -> Request]
    /\ scenario \in Scenarios
    /\ asked \in Nat /\ faults \in Nat
    /\ raced \subseteq Receipts
    /\ writes \in Nat /\ requestedAt \in Nat /\ jobsDone \in Nat

(* The jobs of the card server and what they leave.                        *)
JobsOK ==
    /\ thread \in [Threads -> Thread]
    /\ reco \subseteq RecoRow
    /\ servedAt \in Nat

TypeOK == TablesOK /\ JobsOK

(* The image of a receipt that is kept is in the bucket: replacements,     *)
(* removals and failures may leave images that nobody refers to, never a   *)
(* receipt without its image.  The exception are receipts that an edit     *)
(* without image wrote back over a replacement or a removal.               *)
ReceiptImageStored ==
    \A c \in KeptReceipts \ raced : receipt[c].image # NoImage => receipt[c].image \in s3

(* The bytes of the documents, as their clients gave them.                 *)
DocumentBytes == Cardinality({d \in Docs : Exists(d) /\ doc[d].bytes = 1})
Alone == Cardinality(scenario.slots) = 1
Quiet == \A r \in Requests : Idle(r)

(* The usage of a user is never above what is stored for him, but for      *)
(* subtractions that failed.  When requests come one at a time and nothing *)
(* fails, it is what his documents and receipts add up to (the bytes of a  *)
(* document that the client itself created are never added).               *)
UsageAccounts ==
    /\ used <= Cardinality(s3) + DocumentBytes + faults
    /\ Alone /\ Quiet /\ faults = 0 /\ "create" \notin scenario.ops =>
           used = DocumentBytes
                    + Cardinality({c \in KeptReceipts : receipt[c].image # NoImage})

(* A user has the recommendations of as many jobs as there are threads,    *)
(* which is one unless LLM_CONCURRENCY is raised ...                       *)
JobsBounded == Cardinality({x.job : x \in reco}) <= Cardinality(scenario.threads)

(* ... and no card that is left out of a ranking is better than one that   *)
(* is in.                                                                  *)
RecommendationsBounded ==
    /\ JobsBounded
    /\ \A t \in {u \in Threads : AtThread(u, "insert")} :
          \A a \in thread[t].top, b \in Cards \ thread[t].top :
             LET x == Score(a, thread[t].totals)  y == Score(b, thread[t].totals)
             IN  x > y \/ (x = y /\ FeeKey(a) <= FeeKey(b))

(* The reports of a year add up to the same amount, by month, day, weekday,*)
(* category and store, and percentages to a hundred but for their rounding.*)
ReportsAgree ==
    Quiet => \A y \in {z \in Years : In(z) # {}} :
        LET total == Total(In(y))
            stores == TopStores(y, Cardinality(Stores))
            percent == SumOf([k \in GroupsIn(y) |-> Percentage(CategorySummary(y)[k], total)])
        IN  /\ SumOf(MonthlySpend(y)) = total
            /\ \A m \in 1..12 : /\ SumOf(DailySpend(y, m)) = MonthlySpend(y)[m]
                                /\ ThisMonthSummary(y, m) = MonthlySpend(y)[m]
            /\ SumOf(WeekdaySummary(y)) = total
            /\ SumOf(CategorySummary(y)) = total
            /\ SumOf([i \in DOMAIN stores |-> StoreTotal(y, stores[i])]) = total
            /\ total > 0 => /\ 2 * percent <= 2000 + Cardinality(GroupsIn(y))
                            /\ 2 * percent >= 2000 - Cardinality(GroupsIn(y))

(* The pages of a list hold every receipt that was asked for exactly once, *)
(* and a page says that another follows just when one does.                *)
PagesAgree ==
    Quiet => \A query \in Queries, sort \in {"amountAsc", "amountDesc"} :
        LET rows == Sorted(query, sort)
            pages(size) == 1..TotalPages(Len(rows), size)
        IN  \A size \in PageSizes :
              /\ SumOf([n \in pages(size) |-> Len(Page(rows, n, size))]) = Len(rows)
              /\ UNION {ToSet(Page(rows, n, size)) : n \in pages(size)} = Found(query)
              /\ \A n \in pages(size) :
                    HasNext(Len(rows), n, size) <=> Page(rows, n + 1, size) # <<>>

-----------------------------------------------------------------------------
(* Action and temporal properties *)

(* The content of a locked document is shown only when the PIN was entered *)
(* for that document within the life of a token, whatever other documents  *)
(* were unlocked, and whoever locked or unlocked it meanwhile.             *)
ShownWhenUnlocked ==
    [][\A a \in view' \ view : a.locked /\ a.whole => a.doc \in proven]_vars

(* A request for recommendations is followed by recommendations that have  *)
(* seen every receipt written before it, also when it came while a job was *)
(* running.  It holds of one thread, and while no job is lost.             *)
RequestIsServed ==
    Cardinality(scenario.threads) = 1 =>
        \A n \in 1..3 : requestedAt >= n ~> servedAt >= n \/ faults > 0

-----------------------------------------------------------------------------
(* A statement of the documentation that the code does not keep *)

(* "It is impossible to change the lock alone without verification"        *)
(* (updateLock): whether a document is locked changes only when a request  *)
(* that has verified the PIN saves it.                                     *)
LockChangesByLockRequest ==
    [][\A d \in Docs : Exists(d) /\ Exists(d)' /\ doc[d].locked # doc'[d].locked =>
           \E r \in Requests : At(r, "save") /\ Op(r, "lock") /\ req[r].doc = d]_vars
=============================================================================
