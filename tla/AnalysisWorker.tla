--------------------------- MODULE AnalysisWorker ---------------------------
(***************************************************************************)
(* The OCR worker: worker.py takes documents off ocr:queue, one per thread *)
(* of its pool, and analysis.py turns the images of each into a document   *)
(* or a receipt.  Every statement to the database commits by itself.  The  *)
(* job is gone from the queue once it is popped.                           *)
(***************************************************************************)
EXTENDS UploadStore

WorkerPc == {"idle", "begin", "files", "ocr", "save", "activity", "done", "failed"}

Analysis ==
    [pc : WorkerPc, job : JobId \cup {NoId}, files : SUBSET Files,
     first : Files \cup {NoFile}, row : SavedId \cup {NoId}]

IdleWorker == [pc |-> "idle", job |-> NoId, files |-> {}, first |-> NoFile, row |-> NoId]

Working(w, pc) == worker[w].pc = pc
DocOf(w) == jobs[worker[w].job]
Proceed(w, pc) == worker' = [worker EXCEPT ![w].pc = pc]

api == <<old, tempFile, uploaded, s3, jobs, used, req, cleanup>>

-----------------------------------------------------------------------------

(* BLPOP by a free slot of the pool.                                       *)
Mut_Pop(w) ==
    /\ Working(w, "idle") /\ taken < Len(jobs)
    /\ worker' = [worker EXCEPT ![w] = [IdleWorker EXCEPT !.pc = "begin", !.job = taken + 1]]
    /\ UNCHANGED <<status, taken, saved, crashes, faults, api>>
Pop(w) ==
    /\ Working(w, "idle") /\ taken < Len(jobs)
    /\ taken' = taken + 1
    /\ worker' = [worker EXCEPT ![w] = [IdleWorker EXCEPT !.pc = "begin", !.job = taken + 1]]
    /\ UNCHANGED <<status, saved, crashes, faults, api>>

(* fetch_temp_document and mark_processing; no document is a failure.      *)
Begin(w) ==
    /\ Working(w, "begin")
    /\ status' = WithStatus(DocOf(w), "PROCESSING")
    /\ Proceed(w, IF Exists(DocOf(w)) THEN "files" ELSE "failed")
    /\ UNCHANGED <<taken, saved, crashes, faults, api>>

ReadFiles(w) ==
    /\ Working(w, "files") /\ FilesOf(DocOf(w)) # {}
    /\ \E f \in FilesOf(DocOf(w)) :
         /\ \A g \in FilesOf(DocOf(w)) : tempFile[f].page <= tempFile[g].page
         /\ worker' = [worker EXCEPT ![w].pc = "ocr", ![w].files = FilesOf(DocOf(w)),
                                     ![w].first = f]
    /\ UNCHANGED <<status, taken, saved, crashes, faults, api>>

Mut_NoFilesLeft(w) ==
    /\ Working(w, "files") /\ FilesOf(DocOf(w)) = {}
    /\ Proceed(w, "done")
    /\ UNCHANGED <<status, taken, saved, crashes, faults, api>>
NoFilesLeft(w) ==
    /\ Working(w, "files") /\ FilesOf(DocOf(w)) = {}
    /\ Proceed(w, "failed")
    /\ UNCHANGED <<status, taken, saved, crashes, faults, api>>

(* Every image is downloaded and read, the text classified and validated.  *)
Recognise(w) ==
    /\ Working(w, "ocr") /\ worker[w].files \subseteq s3
    /\ Proceed(w, "save")
    /\ UNCHANGED <<status, taken, saved, crashes, faults, api>>

(* An image is missing, there is no text, the format is wrong in every     *)
(* attempt or the confidence is low.                                       *)
Reject(w) ==
    /\ Working(w, "ocr")
    /\ Proceed(w, "failed")
    /\ UNCHANGED <<status, taken, saved, crashes, faults, api>>

(* A document refers to all the images, a receipt to the first; both carry *)
(* the size of all of them.                                                *)
Save(w, kind, files, next) ==
    /\ Working(w, "save")
    /\ \E k \in FreshSaved :
         /\ saved' = [saved EXCEPT ![k] =
              [state |-> "SAVED", kind |-> kind, job |-> worker[w].job, files |-> files,
               bytes |-> Cardinality(worker[w].files)]]
         /\ worker' = [worker EXCEPT ![w].pc = next, ![w].row = k]
    /\ UNCHANGED <<status, taken, crashes, faults, api>>

SaveDocument(w) == Save(w, "DOCUMENT", worker[w].files, "activity")
SaveReceipt(w) == Save(w, "RECEIPT", {worker[w].first}, "done")

(* add_activity refers to the document, which may be deleted by now.       *)
AddActivity(w) ==
    /\ Working(w, "activity")
    /\ Proceed(w, IF saved[worker[w].row].state = "SAVED" THEN "done" ELSE "failed")
    /\ UNCHANGED <<status, taken, saved, crashes, faults, api>>

Close(w, s) ==
    /\ status' = WithStatus(DocOf(w), s)
    /\ worker' = [worker EXCEPT ![w] = IdleWorker]
    /\ UNCHANGED <<taken, saved, crashes, faults, api>>

MarkDone(w) == Working(w, "done") /\ Close(w, "DONE")
Mut_MarkFailed(w) ==
    /\ Working(w, "failed")
    /\ worker' = [worker EXCEPT ![w] = IdleWorker]
    /\ UNCHANGED <<status, taken, saved, crashes, faults, api>>
MarkFailed(w) == Working(w, "failed") /\ Close(w, "FAILED")

-----------------------------------------------------------------------------

(* A statement fails: _handle catches the exception and marks the document *)
(* FAILED.                                                                 *)
StatementFails(w) ==
    /\ worker[w].pc \in WorkerPc \ {"idle", "failed"}
    /\ faults < MaxFaults /\ faults' = faults + 1
    /\ Proceed(w, "failed")
    /\ UNCHANGED <<status, taken, saved, crashes, api>>

(* That fails too, which is only logged.                                   *)
MarkFailedFails(w) ==
    /\ Working(w, "failed")
    /\ faults < MaxFaults /\ faults' = faults + 1
    /\ worker' = [worker EXCEPT ![w] = IdleWorker]
    /\ UNCHANGED <<status, taken, saved, crashes, api>>

(* The process is killed with the jobs in its threads.                     *)
WorkerRestart ==
    /\ crashes < MaxCrashes
    /\ crashes' = crashes + 1
    /\ worker' = [w \in Workers |-> IdleWorker]
    /\ UNCHANGED <<status, taken, saved, faults, api>>

AnalysisStep(w) ==
    \/ Begin(w) \/ ReadFiles(w) \/ NoFilesLeft(w) \/ Recognise(w) \/ Reject(w)
    \/ SaveDocument(w) \/ SaveReceipt(w) \/ AddActivity(w) \/ MarkDone(w) \/ MarkFailed(w)

WorkerFault(w) == StatementFails(w) \/ MarkFailedFails(w)
=============================================================================
