---------------------------- MODULE LibraryStore ----------------------------
(***************************************************************************)
(* What the handlers of documents, receipts and card recommendations share *)
(* about one user: his documents with their files and tags, his receipts   *)
(* and their images, users.storage_used_bytes, the Redis list card:queue,  *)
(* card_recommendations, and the requests and threads in progress.         *)
(*                                                                         *)
(* Requests for what belongs to others fail the ownership check before     *)
(* they write, so they are left out.  Images have size one.                *)
(***************************************************************************)
EXTENDS Integers, FiniteSets

CONSTANTS
    Docs, NoDoc,
    Pages,               \* page numbers of the files of a document
    Names, NoName,       \* names of tags
    Receipts, NoReceipt,
    Images, NoImage,     \* uploads of images of receipts
    Bills, NoBill,       \* what a receipt says: amount, category, date, store
    Requests,            \* slots for HTTP requests
    Threads,             \* slots of the card server's pool
    Cards,               \* the table cards
    TopN,                \* RECOMMEND_TOP_N
    Scenarios,           \* operations, slots, threads, number of requests, bills, and the
                         \* receipts that may exist at the beginning of a behaviour
    MaxFaults            \* bound: calls that throw

DocumentOps ==
    {"create", "list", "read", "download", "unlock", "edit", "favorite", "lock",
     "deleteDoc", "addTag", "removeTag"}
ReceiptOps == {"add", "change", "remove"}
CardOps == {"requestAi"}
AllOps == DocumentOps \cup ReceiptOps \cup CardOps

VARIABLES
    doc,         \* doc[d]: the row of documents
    docFile,     \* document_files: pairs of a document and a page
    tag,         \* tags: the names that the user has used
    docTag,      \* document_tags: pairs of a document and a name
    cookie,      \* the document of the live token in X-Document-Unlock-Token
    receipt,     \* receipt[c]: the row of receipts
    uploaded,    \* the images whose key was taken
    s3,          \* the images in the bucket
    used,        \* users.storage_used_bytes
    queued,      \* the length of card:queue
    reco,        \* card_recommendations
    req,         \* req[r]: the request in slot r
    thread,      \* thread[t]: the job in thread t
    scenario,    \* what this behaviour uses
    asked,       \* requests so far
    faults,      \* failures so far
    proven,      \* documents for which the PIN was entered within the token's life
    view,        \* what the last reading request answered
    raced,       \* receipts that an edit without image saved while not alone
    writes,      \* writes to receipts so far
    requestedAt, \* how many of them preceded the last request for recommendations
    servedAt,    \* how many the recommendations of the last job have seen
    jobsDone     \* jobs that were popped so far

documents == <<doc, docFile, tag, docTag>>
unlocking == <<cookie, proven, view>>
receipts == <<receipt, uploaded, s3, raced, writes>>
cards == <<queued, reco, thread, requestedAt, servedAt, jobsDone>>
vars == <<documents, unlocking, receipts, used, cards, req, scenario, asked, faults>>

-----------------------------------------------------------------------------
(* Rows *)

RowState == {"NONE", "LIVE", "GONE"}
DocRow ==
    [state : RowState, title : BOOLEAN, favorite : BOOLEAN, locked : BOOLEAN, bytes : 0..1]
NoDocRow ==
    [state |-> "NONE", title |-> FALSE, favorite |-> FALSE, locked |-> FALSE, bytes |-> 0]
NewDoc(bytes) == [NoDocRow EXCEPT !.state = "LIVE", !.bytes = bytes]

ReceiptRow ==
    [state : RowState, bill : Bills \cup {NoBill}, image : Images \cup {NoImage}]
NoReceiptRow == [state |-> "NONE", bill |-> NoBill, image |-> NoImage]
NewReceipt(bill, image) == [state |-> "LIVE", bill |-> bill, image |-> image]

(* Receipts that are kept say something, only they come with an image, and *)
(* every upload took a key of its own.                                     *)
GivenReceipts(g) ==
    \A c, e \in Receipts :
       /\ g[c].state = "LIVE" => g[c].bill # NoBill
       /\ g[c].image # NoImage => g[c].state = "LIVE" /\ (g[e].image = g[c].image => e = c)

ASSUME LibraryAssumption ==
    /\ NoDoc \notin Docs /\ NoName \notin Names /\ NoReceipt \notin Receipts
    /\ NoImage \notin Images /\ NoBill \notin Bills
    /\ IsFiniteSet(Docs) /\ IsFiniteSet(Receipts) /\ IsFiniteSet(Images)
    /\ IsFiniteSet(Requests) /\ IsFiniteSet(Threads)
    /\ Pages \subseteq Nat \ {0} /\ TopN \in Nat /\ MaxFaults \in Nat
    /\ \A s \in Scenarios :
         /\ s.ops \subseteq AllOps /\ s.slots \subseteq Requests
         /\ s.threads \subseteq Threads /\ s.max \in Nat
         /\ s.given \subseteq [Receipts -> ReceiptRow] /\ s.bills \subseteq Bills
         /\ \A g \in s.given : GivenReceipts(g)

-----------------------------------------------------------------------------
(* Requests *)

RequestPc ==
    {"idle", "file", "activity", "pin", "load", "save", "drop", "tag", "exists", "addTag",
     "removeTag", "put", "addUsage", "insert", "subtract", "unlink", "push"}

Request ==
    [op : AllOps \cup {"none"}, pc : RequestPc, doc : Docs \cup {NoDoc}, row : DocRow,
     value : BOOLEAN, pages : SUBSET Pages, name : Names \cup {NoName},
     receipt : Receipts \cup {NoReceipt}, copy : ReceiptRow, bill : Bills \cup {NoBill},
     new : Images \cup {NoImage}, old : Images \cup {NoImage}]

IdleRequest ==
    [op |-> "none", pc |-> "idle", doc |-> NoDoc, row |-> NoDocRow, value |-> FALSE,
     pages |-> {}, name |-> NoName, receipt |-> NoReceipt, copy |-> NoReceiptRow,
     bill |-> NoBill, new |-> NoImage, old |-> NoImage]

At(r, pc) == req[r].pc = pc
Op(r, op) == req[r].op = op
Idle(r) == At(r, "idle")
Finished(r) == [req EXCEPT ![r] = IdleRequest]
Moved(r, pc) == [req EXCEPT ![r].pc = pc]

(* A slot of this scenario takes a request of it.                          *)
Begins(r, op) ==
    /\ Idle(r) /\ r \in scenario.slots /\ op \in scenario.ops /\ asked < scenario.max
    /\ asked' = asked + 1

Exists(d) == doc[d].state = "LIVE"
Kept(c) == receipt[c].state = "LIVE"
KeptReceipts == {c \in Receipts : Kept(c)}

(* GREATEST(0, storage_used_bytes - bytes)                                 *)
Mut_UsedLess(bytes) == used - bytes
UsedLess(bytes) == IF used > bytes THEN used - bytes ELSE 0
=============================================================================
