-------------------------- MODULE LibraryInvariant --------------------------
(***************************************************************************)
(* The inductive invariant of Library: what a request holds at each of its *)
(* awaits, which receipt an image was made for, and which images in the    *)
(* bucket the usage counts; what the jobs of the card server hold.         *)
(***************************************************************************)
EXTENDS Library

-----------------------------------------------------------------------------
(* Requests *)

SavesDocument(q) == q.pc = "save" /\ q.op \in {"edit", "favorite", "lock"}
DropsDocument(q) == q.pc = "drop" /\ q.op = "deleteDoc"

DocumentHeld(q) ==
    /\ q.pc \in {"file", "activity", "pin", "tag", "exists", "addTag", "removeTag"} =>
         q.op \in DocumentOps
    /\ q.pc \in {"file", "pin", "tag", "exists", "addTag"} => q.doc \in Docs
    /\ q.pc = "pin" => q.op \in {"unlock", "lock"}
    /\ q.op = "lock" \/ SavesDocument(q) \/ DropsDocument(q) => q.doc \in Docs
    /\ SavesDocument(q) => q.row.state = "LIVE"
    /\ q.pc \in {"tag", "exists", "addTag"} => q.name \in Names

(* The request has an image in the bucket that no receipt has yet.         *)
HasImage(q) == q.pc \in {"addUsage", "insert", "load", "save"} /\ q.new # NoImage

ReceiptHeld(q) ==
    /\ q.pc \in {"put", "addUsage"} => q.op \in {"add", "change"}
    /\ q.pc = "put" => q.new = NoImage
    /\ q.pc = "addUsage" => q.new # NoImage
    /\ q.pc = "insert" => q.op = "add"
    /\ q.pc \in {"load", "save"} => q.op \in {"lock", "edit", "favorite", "change"}
    /\ q.pc = "drop" => q.op \in {"deleteDoc", "remove"}
    /\ q.pc \in {"subtract", "unlink"} => q.op \in {"change", "remove"} /\ q.old # NoImage
    /\ q.op \in {"change", "remove"} => q.receipt \in Receipts
    /\ q.op = "change" /\ q.pc \in {"load", "save"} /\ q.new = NoImage => q.old = NoImage
    /\ q.op = "change" /\ q.pc = "save" => q.copy.state = "LIVE"
    /\ q.op \notin {"change", "remove"} => q.old = NoImage /\ q.copy = NoReceiptRow
    /\ q.op \notin {"add", "change"} => q.new = NoImage

RequestHeld(q) == DocumentHeld(q) /\ ReceiptHeld(q)

(* The tables that a request has seen are still as it saw them: tags are   *)
(* never deleted, and a document keeps its bytes.                          *)
Seen(q) ==
    /\ q.pc \in {"exists", "addTag"} => q.name \in tag
    /\ SavesDocument(q) \/ DropsDocument(q) =>
         doc[q.doc].state # "NONE" /\ q.row.bytes = doc[q.doc].bytes

TypeInv ==
    /\ TablesOK
    /\ \A r \in Requests : RequestHeld(req[r]) /\ Seen(req[r])

-----------------------------------------------------------------------------
(* Images *)

(* owner[i] is the receipt that image i was saved for, and stays so when   *)
(* the receipt has another image or is gone.                               *)
OwnedImages(owner) ==
    /\ \A c \in Receipts : receipt[c].image # NoImage => owner[receipt[c].image] = c
    /\ \A i \in Images \ uploaded : owner[i] = NoReceipt

OwnedRequest(owner, q) ==
    /\ q.copy.image # NoImage => q.receipt \in Receipts /\ owner[q.copy.image] = q.receipt
    /\ q.old # NoImage => q.receipt \in Receipts /\ owner[q.old] = q.receipt
    /\ HasImage(q) => owner[q.new] = NoReceipt

ImagesOwned ==
    \E owner \in [Images -> Receipts \cup {NoReceipt}] :
        OwnedImages(owner) /\ \A r \in Requests : OwnedRequest(owner, req[r])

(* Two requests never have the same new image.                             *)
ImagesApart ==
    \A r, s \in Requests :
        HasImage(req[r]) /\ HasImage(req[s]) /\ req[r].new = req[s].new => r = s

(* An image that is about to be deleted is of no receipt that is kept.     *)
Unwanted(q) ==
    q.pc \in {"subtract", "unlink"} =>
        \A c \in KeptReceipts \ raced : receipt[c].image # q.old

ImageInv ==
    /\ ReceiptImageStored
    /\ ImagesOwned /\ ImagesApart
    /\ \A r \in Requests :
         /\ HasImage(req[r]) => req[r].new \in s3
         /\ Unwanted(req[r])

-----------------------------------------------------------------------------
(* Usage *)

(* The image is in the bucket, but not counted yet or not counted anymore. *)
NotCounted(q, i) ==
    \/ q.pc = "addUsage" /\ i = q.new
    \/ q.pc = "unlink" /\ i = q.old

Counted == {i \in s3 : \A r \in Requests : ~NotCounted(req[r], i)}
UsageInv == used <= Cardinality(Counted) + DocumentBytes + faults

(* A request that is alone finds what it has read as it was ...            *)
Unchanged(q) ==
    /\ SavesDocument(q) \/ DropsDocument(q) => Exists(q.doc)
    /\ q.op = "change" /\ q.pc \in {"put", "addUsage", "load", "save"} =>
         /\ Kept(q.receipt)
         /\ q.pc = "put" \/ q.new # NoImage => q.old = receipt[q.receipt].image
    /\ q.op = "change" /\ q.pc = "save" => q.copy = receipt[q.receipt]
    /\ q.op = "remove" /\ q.pc = "drop" =>
         Kept(q.receipt) /\ q.old = receipt[q.receipt].image

(* ... and the usage is ahead of the tables by what it is at.              *)
Ahead(q) ==
    IF q.pc = "subtract" \/ (q.pc \in {"insert", "load", "save"} /\ q.new # NoImage)
    THEN 1 ELSE 0

WithImage == {c \in KeptReceipts : receipt[c].image # NoImage}

Lone(r) == scenario.slots = {r} /\ faults = 0 /\ "create" \notin scenario.ops
Accounted(r) ==
    /\ Unchanged(req[r])
    /\ used = DocumentBytes + Cardinality(WithImage) + Ahead(req[r])

AloneInv ==
    \A r \in Requests :
       /\ ~Idle(r) => r \in scenario.slots /\ req[r].op \in scenario.ops
       /\ Lone(r) => Accounted(r)

-----------------------------------------------------------------------------
(* Recommendations *)

(* author[j] is the thread that popped job j.  No two jobs with rows have  *)
(* the same author, and a thread that is about to commit has seen the rows *)
(* of its earlier job.                                                     *)
Authored(author) ==
    /\ \A x, y \in reco : author[x.job] = author[y.job] => x.job = y.job
    /\ \A t \in Threads :
         /\ ~AtThread(t, "idle") =>
              thread[t].job \in 1..jobsDone /\ author[thread[t].job] = t
         /\ AtThread(t, "insert") =>
              \A x \in reco : author[x.job] = t => x \in thread[t].old

JobInv ==
    /\ DOMAIN thread = Threads
    /\ \A t \in Threads : DOMAIN thread[t] = DOMAIN IdleThread
    /\ \A x \in reco : x.job \in 1..jobsDone
    /\ \E author \in [1..jobsDone -> scenario.threads] : Authored(author)

(* What is summed up: a receipt that is kept says something, and so does a *)
(* request that is to write one.                                           *)
BillInv ==
    /\ \A c \in KeptReceipts : receipt[c].bill \in Bills
    /\ \A r \in Requests : req[r].op \in {"add", "change"} => req[r].bill \in Bills

(* A thread inserts what it has ranked.                                    *)
RankInv ==
    /\ JobsOK
    /\ \A t \in Threads :
          thread[t].pc \in {"delete", "insert"} => thread[t].top = Top(thread[t].totals)

-----------------------------------------------------------------------------
(* Unlocking *)

CookieInv == cookie \in proven \cup {NoDoc}
=============================================================================
