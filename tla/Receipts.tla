------------------------------ MODULE Receipts ------------------------------
(***************************************************************************)
(* receipts.service.ts with the upload of images (uploads.service.ts,      *)
(* uploadFile).  The reads before the first write are one step, then every *)
(* await is one.  A receipt has an image when an upload gave it one.       *)
(***************************************************************************)
EXTENDS LibraryStore

(* POST /receipts                                                          *)
StartAdd(r) ==
    /\ Begins(r, "add")
    /\ \E bill \in scenario.bills, image \in BOOLEAN :
         req' = [req EXCEPT ![r] =
             [IdleRequest EXCEPT !.op = "add", !.pc = IF image THEN "put" ELSE "insert",
                                 !.bill = bill]]
    /\ UNCHANGED <<documents, unlocking, receipts, used, cards, scenario, faults>>

(* PATCH /receipts/:id, with an image or without.                          *)
StartChange(r) ==
    /\ Begins(r, "change")
    /\ \E c \in Receipts, bill \in scenario.bills, image \in BOOLEAN :
         /\ Kept(c)
         /\ req' = [req EXCEPT ![r] =
              [IdleRequest EXCEPT !.op = "change", !.pc = IF image THEN "put" ELSE "load",
                                  !.receipt = c, !.bill = bill,
                                  !.old = IF image THEN receipt[c].image ELSE NoImage]]
    /\ UNCHANGED <<documents, unlocking, receipts, used, cards, scenario, faults>>

(* DELETE /receipts/:id                                                    *)
StartRemove(r) ==
    /\ Begins(r, "remove")
    /\ \E c \in Receipts :
         /\ Kept(c)
         /\ req' = [req EXCEPT ![r] =
              [IdleRequest EXCEPT !.op = "remove", !.pc = "drop", !.receipt = c,
                                  !.old = receipt[c].image]]
    /\ UNCHANGED <<documents, unlocking, receipts, used, cards, scenario, faults>>

-----------------------------------------------------------------------------
(* uploadFile: the object, then the usage, whose failure is only logged.   *)

PutImage(r) ==
    /\ At(r, "put")
    /\ \E i \in Images \ uploaded :
         /\ uploaded' = uploaded \cup {i}
         /\ s3' = s3 \cup {i}
         /\ req' = [req EXCEPT ![r].new = i, ![r].pc = "addUsage"]
    /\ UNCHANGED <<documents, unlocking, receipt, raced, writes, used, cards, scenario, asked,
                   faults>>

AfterUpload(r) == Moved(r, IF Op(r, "add") THEN "insert" ELSE "load")

AddUsage(r) ==
    /\ At(r, "addUsage")
    /\ used' = used + 1
    /\ req' = AfterUpload(r)
    /\ UNCHANGED <<documents, unlocking, receipts, cards, scenario, asked, faults>>

AddUsageFails(r) ==
    /\ At(r, "addUsage") /\ faults < MaxFaults
    /\ faults' = faults + 1
    /\ req' = AfterUpload(r)
    /\ UNCHANGED <<documents, unlocking, receipts, used, cards, scenario, asked>>

InsertReceipt(r) ==
    /\ At(r, "insert")
    /\ \E c \in Receipts :
         /\ receipt[c].state = "NONE"
         /\ receipt' = [receipt EXCEPT ![c] = NewReceipt(req[r].bill, req[r].new)]
    /\ writes' = writes + 1
    /\ req' = Finished(r)
    /\ UNCHANGED <<documents, unlocking, uploaded, s3, raced, used, cards, scenario, asked,
                   faults>>

-----------------------------------------------------------------------------
(* What becomes of the image that was replaced or removed. *)

AfterWrite(r) == IF req[r].old = NoImage THEN Finished(r) ELSE Moved(r, "subtract")

(* A receipt that is gone is not updated, but its image still cleaned up.  *)
LoadReceipt(r) ==
    /\ At(r, "load") /\ Op(r, "change")
    /\ req' = IF Kept(req[r].receipt)
              THEN [req EXCEPT ![r].copy = receipt[req[r].receipt], ![r].pc = "save"]
              ELSE AfterWrite(r)
    /\ UNCHANGED <<documents, unlocking, receipts, used, cards, scenario, asked, faults>>

Mut_SavedImage(r) == req[r].copy.image
SavedImage(r) == IF req[r].new = NoImage THEN req[r].copy.image ELSE req[r].new

(* An edit without image writes the image back that it has read.           *)
Stale(r) == req[r].new = NoImage /\ receipt[req[r].receipt] # req[r].copy

(* The whole row is written, and inserted again if it was deleted.         *)
SaveReceipt(r) ==
    /\ At(r, "save") /\ Op(r, "change")
    /\ receipt' = [receipt EXCEPT ![req[r].receipt] = NewReceipt(req[r].bill, SavedImage(r))]
    /\ raced' = IF Stale(r) THEN raced \cup {req[r].receipt} ELSE raced
    /\ writes' = writes + 1
    /\ req' = AfterWrite(r)
    /\ UNCHANGED <<documents, unlocking, uploaded, s3, used, cards, scenario, asked, faults>>

DropReceipt(r) ==
    /\ At(r, "drop") /\ Op(r, "remove")
    /\ receipt' = [receipt EXCEPT ![req[r].receipt].state = "GONE"]
    /\ writes' = writes + 1
    /\ req' = AfterWrite(r)
    /\ UNCHANGED <<documents, unlocking, uploaded, s3, raced, used, cards, scenario, asked,
                   faults>>

Mut_Subtract(r) ==
    /\ At(r, "subtract")
    /\ used' = used
    /\ req' = Moved(r, "unlink")
    /\ UNCHANGED <<documents, unlocking, receipts, cards, scenario, asked, faults>>
Subtract(r) ==
    /\ At(r, "subtract")
    /\ used' = UsedLess(1)
    /\ req' = Moved(r, "unlink")
    /\ UNCHANGED <<documents, unlocking, receipts, cards, scenario, asked, faults>>

DeleteImage(r) ==
    /\ At(r, "unlink")
    /\ s3' = s3 \ {req[r].old}
    /\ req' = Finished(r)
    /\ UNCHANGED <<documents, unlocking, receipt, uploaded, raced, writes, used, cards,
                   scenario, asked, faults>>

(* A failure of S3 is only logged.                                         *)
DeleteImageFails(r) ==
    /\ At(r, "unlink") /\ faults < MaxFaults
    /\ faults' = faults + 1
    /\ req' = Finished(r)
    /\ UNCHANGED <<documents, unlocking, receipts, used, cards, scenario, asked>>

-----------------------------------------------------------------------------
ReceiptRequest(r) == StartAdd(r) \/ StartChange(r) \/ StartRemove(r)

ReceiptStep(r) ==
    \/ PutImage(r) \/ AddUsage(r) \/ AddUsageFails(r) \/ InsertReceipt(r)
    \/ LoadReceipt(r) \/ SaveReceipt(r) \/ DropReceipt(r)
    \/ Subtract(r) \/ DeleteImage(r) \/ DeleteImageFails(r)
=============================================================================
