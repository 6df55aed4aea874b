---------------------------- MODULE UploadStore -----------------------------
(***************************************************************************)
(* What the API server, the OCR worker and the cleanup job share about the *)
(* uploads of one user: the tables temp_documents and temp_files, the      *)
(* documents and receipts that analyses saved, the images in S3, the Redis *)
(* list ocr:queue and users.storage_used_bytes.  Images have size one.     *)
(*                                                                         *)
(* Requests of other users fail every ownership guard before they write,   *)
(* so they are left out.  The key of an image is random: no two uploads    *)
(* share one.                                                              *)
(***************************************************************************)
EXTENDS Naturals, Sequences, FiniteSets

CONSTANTS
    Docs,           \* ids of temp documents
    NoDoc,          \* the document of a temp_files row that does not exist
    Files,          \* uploads: each is an image and, once inserted, its row
    NoFile,         \* no upload
    Requests,       \* slots for HTTP requests that are in progress together
    Workers,        \* threads of the worker's pool (OCR_WORKER_COUNT)
    Ops,            \* the requests that the user makes in this instance
    MaxPages,       \* MAX_TEMP_FILES_PER_DOCUMENT
    LastPage,       \* bound: page numbers in a reorder or an analysis request
    MaxJobs,        \* bound: analysis requests
    MaxCrashes,     \* bound: restarts of the worker
    MaxFaults       \* bound: awaited calls that fail

AllOps == {"upload", "reorder", "requestAi", "deleteFile", "deleteAll", "deleteDoc",
           "deleteSaved"}

ASSUME UploadAssumption ==
    /\ NoDoc \notin Docs
    /\ NoFile \notin Files
    /\ IsFiniteSet(Files) /\ IsFiniteSet(Requests)
    /\ Ops \subseteq AllOps
    /\ MaxPages \in Nat \ {0} /\ LastPage \in Nat /\ MaxPages <= LastPage
    /\ MaxJobs \in Nat /\ MaxCrashes \in Nat /\ MaxFaults \in Nat

NoId == 0
NoPage == 0
PageNo == 1..LastPage
JobId == 1..MaxJobs
SavedId == 1..MaxJobs

VARIABLES
    status,      \* status[d]: temp_documents.ai_status, NONE before and DELETED after the row
    old,         \* old[d]: created more than three days ago
    tempFile,    \* tempFile[f]: the temp_files row of upload f
    uploaded,    \* uploads whose key was taken
    s3,          \* images in the bucket
    jobs,        \* every tempDocumentId ever pushed to ocr:queue, in order
    taken,       \* how many of them were popped
    saved,       \* the documents and receipts that analyses inserted
    used,        \* users.storage_used_bytes
    req,         \* req[r]: the request in slot r
    worker,      \* worker[w]: the analysis in thread w
    cleanup,     \* the nightly cleanup
    crashes,     \* restarts of the worker so far
    faults       \* failed calls so far

vars == <<status, old, tempFile, uploaded, s3, jobs, taken, saved, used, req, worker,
          cleanup, crashes, faults>>

-----------------------------------------------------------------------------
(* Rows *)

AiStatus == {"PENDING", "PROCESSING", "DONE", "FAILED"}
TempFileRow == [doc : Docs \cup {NoDoc}, page : PageNo \cup {NoPage}]
SavedRow ==
    [state : {"NONE", "SAVED", "REMOVED"}, kind : {"NONE", "DOCUMENT", "RECEIPT"},
     job : JobId \cup {NoId}, files : SUBSET Files, bytes : Nat]

NoRow == [doc |-> NoDoc, page |-> NoPage]
NotSaved == [state |-> "NONE", kind |-> "NONE", job |-> NoId, files |-> {}, bytes |-> 0]

Exists(d) == status[d] \in AiStatus
FilesOf(d) == {f \in Files : tempFile[f].doc = d}

(* UPDATE ... WHERE temp_document_id: nothing happens to a deleted row.    *)
WithStatus(d, s) == IF Exists(d) THEN [status EXCEPT ![d] = s] ELSE status

(* The page numbers of a document are unique (an index of temp_files).     *)
PageTaken(d, n) == \E f \in FilesOf(d) : tempFile[f].page = n

(* isFileUrlInUse: a saved document or receipt refers to the image.        *)
InUse(f) == \E k \in SavedId : saved[k].state = "SAVED" /\ f \in saved[k].files

(* The id that the next insert of a document or receipt gets.              *)
FreshSaved ==
    {k \in SavedId : /\ saved[k].state = "NONE"
                     /\ \A i \in SavedId : i < k => saved[i].state # "NONE"}

(* GREATEST(0, storage_used_bytes - bytes)                                 *)
Mut_UsageLess(bytes) == used - bytes
UsageLess(bytes) == IF used > bytes THEN used - bytes ELSE 0

=============================================================================
