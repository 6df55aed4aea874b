---------------------------- MODULE TempUploads -----------------------------
(***************************************************************************)
(* uploads.service.ts, the deletion of saved documents and receipts, and   *)
(* the nightly cleanup.  A request is a record whose pc says which await   *)
(* it has reached; the reads that a handler makes before its first write   *)
(* are one step, a refused request none.                                   *)
(***************************************************************************)
EXTENDS UploadStore

RequestPc == {"idle", "put", "insert", "addUsage", "pages", "pending", "push", "readRows",
              "dropRows", "images", "deleteImage", "dropDoc", "dropSaved", "subtract"}

Request ==
    [op : AllOps \cup {"none"}, pc : RequestPc, doc : Docs \cup {NoDoc},
     file : Files \cup {NoFile}, files : SUBSET Files, page : PageNo \cup {NoPage},
     order : [Files -> PageNo \cup {NoPage}], bytes : Nat, row : SavedId \cup {NoId}]

NoOrder == [f \in Files |-> NoPage]
IdleRequest ==
    [op |-> "none", pc |-> "idle", doc |-> NoDoc, file |-> NoFile, files |-> {},
     page |-> NoPage, order |-> NoOrder, bytes |-> 0, row |-> NoId]

Idle(r) == req[r].pc = "idle"
At(r, pc) == req[r].pc = pc
Finish(r) == req' = [req EXCEPT ![r] = IdleRequest]
Goto(r, pc) == req' = [req EXCEPT ![r].pc = pc]

untouched == <<old, taken, worker, cleanup, crashes>>

-----------------------------------------------------------------------------
(* startUpload and uploadTempFile                                          *)

(* The row gets the default of its column, PENDING.                        *)
StartUpload(d) ==
    /\ status[d] = "NONE"
    /\ status' = [status EXCEPT ![d] = "PENDING"]
    /\ UNCHANGED <<tempFile, uploaded, s3, jobs, saved, used, req, faults, untouched>>

Upload(r, d, f, n) ==
    /\ "upload" \in Ops /\ Idle(r) /\ Exists(d)
    /\ Cardinality(FilesOf(d)) < MaxPages
    /\ n <= MaxPages /\ ~PageTaken(d, n)
    /\ f \notin uploaded
    /\ uploaded' = uploaded \cup {f}
    /\ req' = [req EXCEPT ![r] = [IdleRequest EXCEPT !.op = "upload", !.pc = "put",
                                  !.doc = d, !.file = f, !.page = n]]
    /\ UNCHANGED <<status, tempFile, s3, jobs, saved, used, faults, untouched>>

PutImage(r) ==
    /\ At(r, "put")
    /\ s3' = s3 \cup {req[r].file}
    /\ Goto(r, "insert")
    /\ UNCHANGED <<status, tempFile, uploaded, jobs, saved, used, faults, untouched>>

InsertFile(r) ==
    /\ At(r, "insert")
    /\ Exists(req[r].doc) /\ ~PageTaken(req[r].doc, req[r].page)
    /\ tempFile' = [tempFile EXCEPT ![req[r].file] =
                      [doc |-> req[r].doc, page |-> req[r].page]]
    /\ Goto(r, "addUsage")
    /\ UNCHANGED <<status, uploaded, s3, jobs, saved, used, faults, untouched>>

(* The page was taken meanwhile, or the document is gone: the image stays. *)
InsertFileFails(r) ==
    /\ At(r, "insert")
    /\ ~Exists(req[r].doc) \/ PageTaken(req[r].doc, req[r].page)
    /\ Finish(r)
    /\ UNCHANGED <<status, tempFile, uploaded, s3, jobs, saved, used, faults, untouched>>

AddUsage(r) ==
    /\ At(r, "addUsage")
    /\ used' = used + 1
    /\ Finish(r)
    /\ UNCHANGED <<status, tempFile, uploaded, s3, jobs, saved, faults, untouched>>

-----------------------------------------------------------------------------
(* reorderTempFiles and requestAi                                          *)

(* Requests for an analysis that were not pushed yet: for the bound.       *)
Asking == {r \in Requests : req[r].op = "requestAi"}

(* Both demand a page number for exactly the files of the document.        *)
StartOrder(r, op, d, pages) ==
    /\ op \in Ops /\ Idle(r) /\ Exists(d)
    /\ FilesOf(d) # {}
    /\ req' = [req EXCEPT ![r] = [IdleRequest EXCEPT !.op = op, !.pc = "pages", !.doc = d,
                 !.order = [f \in Files |-> IF f \in FilesOf(d) THEN pages[f] ELSE NoPage]]]
    /\ UNCHANGED <<status, tempFile, uploaded, s3, jobs, saved, used, faults, untouched>>

Reorder(r, d, pages) == StartOrder(r, "reorder", d, pages)

RequestAi(r, d, pages) ==
    /\ status[d] # "PROCESSING"
    /\ Len(jobs) + Cardinality(Asking) < MaxJobs
    /\ StartOrder(r, "requestAi", d, pages)

(* The rows after setPageOrders; a file deleted meanwhile is not updated.  *)
Ordered(r) ==
    [f \in Files |-> IF tempFile[f].doc = req[r].doc /\ req[r].order[f] # NoPage
                     THEN [tempFile[f] EXCEPT !.page = req[r].order[f]]
                     ELSE tempFile[f]]

Unique(rows) ==
    \A f, g \in Files :
        rows[f].doc # NoDoc /\ rows[f] = rows[g] => f = g

(* One transaction; the unique index makes it commit or roll back.         *)
SetPages(r) ==
    /\ At(r, "pages") /\ Unique(Ordered(r))
    /\ tempFile' = Ordered(r)
    /\ IF req[r].op = "requestAi" THEN Goto(r, "pending") ELSE Finish(r)
    /\ UNCHANGED <<status, uploaded, s3, jobs, saved, used, faults, untouched>>

SetPagesFails(r) ==
    /\ At(r, "pages") /\ ~Unique(Ordered(r))
    /\ Finish(r)
    /\ UNCHANGED <<status, tempFile, uploaded, s3, jobs, saved, used, faults, untouched>>

MarkPending(r) ==
    /\ At(r, "pending")
    /\ status' = WithStatus(req[r].doc, "PENDING")
    /\ Goto(r, "push")
    /\ UNCHANGED <<tempFile, uploaded, s3, jobs, saved, used, faults, untouched>>

Mut_Push(r) ==
    /\ At(r, "push")
    /\ jobs' = IF \E n \in 1..Len(jobs) : jobs[n] = req[r].doc THEN jobs
               ELSE Append(jobs, req[r].doc)
    /\ Finish(r)
    /\ UNCHANGED <<status, tempFile, uploaded, s3, saved, used, faults, untouched>>
Push(r) ==
    /\ At(r, "push")
    /\ jobs' = Append(jobs, req[r].doc)
    /\ Finish(r)
    /\ UNCHANGED <<status, tempFile, uploaded, s3, saved, used, faults, untouched>>

-----------------------------------------------------------------------------
(* deleteTempFile, deleteAllTempFiles, deleteTempDocument                  *)

(* What the request goes on to delete, as it read it.                      *)
Deletion(op, d, files) ==
    [IdleRequest EXCEPT !.op = op, !.pc = "dropRows", !.doc = d, !.files = files,
                        !.bytes = Cardinality(files)]

DeleteFile(r, f) ==
    /\ "deleteFile" \in Ops /\ Idle(r) /\ tempFile[f].doc # NoDoc
    /\ req' = [req EXCEPT ![r] =
                 [Deletion("deleteFile", tempFile[f].doc, {f}) EXCEPT !.file = f]]
    /\ UNCHANGED <<status, tempFile, uploaded, s3, jobs, saved, used, faults, untouched>>

DeleteAll(r, d) ==
    /\ "deleteAll" \in Ops /\ Idle(r) /\ Exists(d)
    /\ req' = [req EXCEPT ![r] = Deletion("deleteAll", d, FilesOf(d))]
    /\ UNCHANGED <<status, tempFile, uploaded, s3, jobs, saved, used, faults, untouched>>

(* deleteTempDocument looks at the status, then calls deleteAllTempFiles,  *)
(* which looks up the document again.                                      *)
DeleteDoc(r, d) ==
    /\ "deleteDoc" \in Ops /\ Idle(r) /\ Exists(d)
    /\ status[d] \notin {"PENDING", "PROCESSING"}
    /\ req' = [req EXCEPT ![r] = [Deletion("deleteDoc", d, {}) EXCEPT !.pc = "readRows"]]
    /\ UNCHANGED <<status, tempFile, uploaded, s3, jobs, saved, used, faults, untouched>>

ReadRows(r) ==
    /\ At(r, "readRows")
    /\ IF Exists(req[r].doc)
       THEN req' = [req EXCEPT ![r] = Deletion("deleteDoc", req[r].doc, FilesOf(req[r].doc))]
       ELSE Finish(r)
    /\ UNCHANGED <<status, tempFile, uploaded, s3, jobs, saved, used, faults, untouched>>

(* deleteById takes the file that was read, deleteByTempDocumentId         *)
(* whatever the document has by now.                                       *)
Mut_DropRows(r) ==
    /\ At(r, "dropRows")
    /\ tempFile' = [f \in Files |->
         IF req[r].op # "deleteFile" /\ tempFile[f].doc = req[r].doc THEN NoRow ELSE tempFile[f]]
    /\ Goto(r, "images")
    /\ UNCHANGED <<status, uploaded, s3, jobs, saved, used, faults, untouched>>
DropRows(r) ==
    /\ At(r, "dropRows")
    /\ tempFile' = [f \in Files |->
         IF \/ f = req[r].file
            \/ req[r].op # "deleteFile" /\ tempFile[f].doc = req[r].doc
         THEN NoRow ELSE tempFile[f]]
    /\ Goto(r, "images")
    /\ UNCHANGED <<status, uploaded, s3, jobs, saved, used, faults, untouched>>

(* The images are taken one by one.  Those of a temp document are skipped  *)
(* if a saved record uses them; those of a saved record never are.         *)
SkipImage(r, f) ==
    /\ At(r, "images") /\ f \in req[r].files
    /\ req[r].op # "deleteSaved" /\ InUse(f)
    /\ req' = [req EXCEPT ![r].files = @ \ {f}]
    /\ UNCHANGED <<status, tempFile, uploaded, s3, jobs, saved, used, faults, untouched>>

PickImage(r, f) ==
    /\ At(r, "images") /\ f \in req[r].files
    /\ req[r].op = "deleteSaved" \/ ~InUse(f)
    /\ req' = [req EXCEPT ![r].pc = "deleteImage", ![r].file = f, ![r].files = @ \ {f}]
    /\ UNCHANGED <<status, tempFile, uploaded, s3, jobs, saved, used, faults, untouched>>

DeleteImage(r) ==
    /\ At(r, "deleteImage")
    /\ s3' = s3 \ {req[r].file}
    /\ Goto(r, "images")
    /\ UNCHANGED <<status, tempFile, uploaded, jobs, saved, used, faults, untouched>>

(* S3 fails, which is logged.                                              *)
DeleteImageFails(r) ==
    /\ At(r, "deleteImage")
    /\ faults < MaxFaults /\ faults' = faults + 1
    /\ Goto(r, "images")
    /\ UNCHANGED <<status, tempFile, uploaded, s3, jobs, saved, used, untouched>>

(* After the images of a temp document: users.storage_used_bytes, a        *)
(* failure of which is logged too, then the document if it was to go.      *)
AfterUsage(r) == IF req[r].op = "deleteDoc" THEN Goto(r, "dropDoc") ELSE Finish(r)

SubtractUsage(r) ==
    /\ At(r, "images") /\ req[r].files = {} /\ req[r].op # "deleteSaved"
    /\ used' = UsageLess(req[r].bytes)
    /\ AfterUsage(r)
    /\ UNCHANGED <<status, tempFile, uploaded, s3, jobs, saved, faults, untouched>>

SubtractUsageFails(r) ==
    /\ At(r, "images") /\ req[r].files = {} /\ req[r].op # "deleteSaved"
    /\ req[r].bytes > 0
    /\ faults < MaxFaults /\ faults' = faults + 1
    /\ AfterUsage(r)
    /\ UNCHANGED <<status, tempFile, uploaded, s3, jobs, saved, used, untouched>>

(* temp_files refers to the document, so a row uploaded meanwhile keeps it *)
(* and the request throws.                                                 *)
DropDoc(r) ==
    /\ At(r, "dropDoc")
    /\ status' = IF FilesOf(req[r].doc) = {} THEN WithStatus(req[r].doc, "DELETED") ELSE status
    /\ Finish(r)
    /\ UNCHANGED <<tempFile, uploaded, s3, jobs, saved, used, faults, untouched>>

-----------------------------------------------------------------------------
(* documents.deleteDocument and receipts.removeReceipt                     *)

DeleteSaved(r, k) ==
    /\ "deleteSaved" \in Ops /\ Idle(r) /\ saved[k].state = "SAVED"
    /\ req' = [req EXCEPT ![r] = [IdleRequest EXCEPT !.op = "deleteSaved", !.pc = "dropSaved",
                 !.row = k, !.files = saved[k].files, !.bytes = saved[k].bytes]]
    /\ UNCHANGED <<status, tempFile, uploaded, s3, jobs, saved, used, faults, untouched>>

(* The transaction of a document subtracts its size, that of a receipt     *)
(* leaves it to a call of its own.  A row removed meanwhile does not       *)
(* matter to either.                                                       *)
Mut_DropDocument(r) ==
    /\ At(r, "dropSaved") /\ saved[req[r].row].kind = "DOCUMENT"
    /\ saved' = [saved EXCEPT ![req[r].row].state = "REMOVED"]
    /\ Goto(r, "images")
    /\ UNCHANGED <<status, tempFile, uploaded, s3, jobs, used, faults, untouched>>
DropDocument(r) ==
    /\ At(r, "dropSaved") /\ saved[req[r].row].kind = "DOCUMENT"
    /\ saved' = [saved EXCEPT ![req[r].row].state = "REMOVED"]
    /\ used' = UsageLess(req[r].bytes)
    /\ Goto(r, "images")
    /\ UNCHANGED <<status, tempFile, uploaded, s3, jobs, faults, untouched>>

DropReceipt(r) ==
    /\ At(r, "dropSaved") /\ saved[req[r].row].kind = "RECEIPT"
    /\ saved' = [saved EXCEPT ![req[r].row].state = "REMOVED"]
    /\ Goto(r, "subtract")
    /\ UNCHANGED <<status, tempFile, uploaded, s3, jobs, used, faults, untouched>>

SubtractReceipt(r) ==
    /\ At(r, "subtract")
    /\ used' = UsageLess(req[r].bytes)
    /\ Goto(r, "images")
    /\ UNCHANGED <<status, tempFile, uploaded, s3, jobs, saved, faults, untouched>>

SavedDeleted(r) ==
    /\ At(r, "images") /\ req[r].files = {} /\ req[r].op = "deleteSaved"
    /\ Finish(r)
    /\ UNCHANGED <<status, tempFile, uploaded, s3, jobs, saved, used, faults, untouched>>

-----------------------------------------------------------------------------

(* An awaited call throws, or the API server restarts: the request ends    *)
(* where it is.                                                            *)
Abort(r) ==
    /\ ~Idle(r)
    /\ faults < MaxFaults /\ faults' = faults + 1
    /\ Finish(r)
    /\ UNCHANGED <<status, tempFile, uploaded, s3, jobs, saved, used, untouched>>

HandlerStep(r) ==
    \/ PutImage(r) \/ InsertFile(r) \/ InsertFileFails(r) \/ AddUsage(r)
    \/ SetPages(r) \/ SetPagesFails(r) \/ MarkPending(r) \/ Push(r)
    \/ ReadRows(r) \/ DropRows(r)
    \/ \E f \in Files : SkipImage(r, f) \/ PickImage(r, f)
    \/ DeleteImage(r) \/ SubtractUsage(r) \/ DropDoc(r)
    \/ DropDocument(r) \/ DropReceipt(r) \/ SubtractReceipt(r) \/ SavedDeleted(r)

HandlerFault(r) == DeleteImageFails(r) \/ SubtractUsageFails(r) \/ Abort(r)

StartRequest(r) ==
    \/ \E d \in Docs, f \in Files, n \in PageNo : Upload(r, d, f, n)
    \/ \E d \in Docs, pages \in [Files -> PageNo] : Reorder(r, d, pages) \/ RequestAi(r, d, pages)
    \/ \E f \in Files : DeleteFile(r, f)
    \/ \E d \in Docs : DeleteAll(r, d) \/ DeleteDoc(r, d)
    \/ \E k \in SavedId : DeleteSaved(r, k)

-----------------------------------------------------------------------------
(* TempDocumentCleanupScheduler: deleteExpired                             *)

CleanupPc == {"idle", "rows", "docs"}
Cleanup == [pc : CleanupPc, docs : SUBSET Docs]
IdleCleanup == [pc |-> "idle", docs |-> {}]

Mut_Expired == {d \in Docs : Exists(d) /\ old[d] /\ status[d] \notin {"FAILED", "PROCESSING"}}
Expired == {d \in Docs : Exists(d) /\ old[d] /\ status[d] # "FAILED"}

SelectExpired ==
    /\ cleanup.pc = "idle" /\ Expired # {}
    /\ cleanup' = [pc |-> "rows", docs |-> Expired]
    /\ UNCHANGED <<status, old, tempFile, uploaded, s3, jobs, taken, saved, used, req, worker,
                   crashes, faults>>

DropExpiredRows ==
    /\ cleanup.pc = "rows"
    /\ tempFile' = [f \in Files |-> IF tempFile[f].doc \in cleanup.docs THEN NoRow ELSE tempFile[f]]
    /\ cleanup' = [cleanup EXCEPT !.pc = "docs"]
    /\ UNCHANGED <<status, old, uploaded, s3, jobs, taken, saved, used, req, worker, crashes,
                   faults>>

(* One DELETE: a row uploaded meanwhile keeps all of the documents.        *)
DropExpiredDocs ==
    /\ cleanup.pc = "docs"
    /\ status' = IF \A d \in cleanup.docs : FilesOf(d) = {}
                 THEN [d \in Docs |-> IF d \in cleanup.docs THEN "DELETED" ELSE status[d]]
                 ELSE status
    /\ cleanup' = IdleCleanup
    /\ UNCHANGED <<old, tempFile, uploaded, s3, jobs, taken, saved, used, req, worker, crashes,
                   faults>>

CleanupFails ==
    /\ cleanup.pc # "idle"
    /\ faults < MaxFaults /\ faults' = faults + 1
    /\ cleanup' = IdleCleanup
    /\ UNCHANGED <<status, old, tempFile, uploaded, s3, jobs, taken, saved, used, req, worker,
                   crashes>>

CleanupStep == SelectExpired \/ DropExpiredRows \/ DropExpiredDocs
=============================================================================
