----------------------------- MODULE OcrPipeline ----------------------------
(***************************************************************************)
(* Uploads and their analysis: the requests of the API server, the OCR     *)
(* worker and the nightly cleanup over the same tables, bucket and queue.  *)
(***************************************************************************)
EXTENDS TempUploads, AnalysisWorker

Init ==
    /\ status = [d \in Docs |-> "NONE"]
    /\ old = [d \in Docs |-> FALSE]
    /\ tempFile = [f \in Files |-> NoRow]
    /\ uploaded = {} /\ s3 = {}
    /\ jobs = << >> /\ taken = 0
    /\ saved = [k \in SavedId |-> NotSaved]
    /\ used = 0
    /\ req = [r \in Requests |-> IdleRequest]
    /\ worker = [w \in Workers |-> IdleWorker]
    /\ cleanup = IdleCleanup
    /\ crashes = 0 /\ faults = 0

(* Three days pass over document d.                                        *)
Age(d) ==
    /\ Exists(d) /\ ~old[d]
    /\ old' = [old EXCEPT ![d] = TRUE]
    /\ UNCHANGED <<status, tempFile, uploaded, s3, jobs, taken, saved, used, req, worker,
                   cleanup, crashes, faults>>

Next ==
    \/ \E d \in Docs : StartUpload(d) \/ Age(d)
    \/ \E r \in Requests : StartRequest(r) \/ HandlerStep(r) \/ HandlerFault(r)
    \/ \E w \in Workers : Pop(w) \/ AnalysisStep(w) \/ WorkerFault(w)
    \/ WorkerRestart
    \/ CleanupStep \/ CleanupFails

Spec == Init /\ [][Next]_vars

(* node and the worker run what they have started, the worker takes what   *)
(* is queued and the cron fires every night; users, time, failures and     *)
(* restarts owe nothing.                                                   *)
FairSpec ==
    /\ Spec
    /\ \A r \in Requests : WF_vars(HandlerStep(r))
    /\ \A w \in Workers : WF_vars(Pop(w)) /\ WF_vars(AnalysisStep(w))
    /\ WF_vars(CleanupStep)

-----------------------------------------------------------------------------
(* Invariants *)

TypeOK ==
    /\ status \in [Docs -> AiStatus \cup {"NONE", "DELETED"}]
    /\ old \in [Docs -> BOOLEAN]
    /\ tempFile \in [Files -> TempFileRow]
    /\ uploaded \subseteq Files
    /\ s3 \subseteq Files
    /\ jobs \in Seq(Docs) /\ Len(jobs) <= MaxJobs
    /\ taken \in 0..Len(jobs)
    /\ saved \in [SavedId -> SavedRow]
    /\ used \in Nat
    /\ req \in [Requests -> Request]
    /\ worker \in [Workers -> Analysis]
    /\ cleanup \in Cleanup
    /\ crashes \in Nat
    /\ faults \in Nat

Requested(d) == \E n \in 1..Len(jobs) : jobs[n] = d

(* What the client shows a spinner for, after an accepted request.         *)
InProgress(d) == Requested(d) /\ status[d] \in {"PENDING", "PROCESSING"}

(* DONE means that an analysis of the document was saved, whatever         *)
(* requests, threads, faults and restarts overlap: analyze marks DONE last *)
(* and the retry of a request never resurrects the mark without a result.  *)
DoneIsSaved ==
    \A d \in Docs : status[d] = "DONE" =>
        \E k \in SavedId : saved[k].state # "NONE" /\ jobs[saved[k].job] = d

(* Somebody will move document d out of PENDING or PROCESSING: a request   *)
(* about to push, a job in the queue or a thread that has one.             *)
Owned(d) ==
    \/ \E r \in Requests : At(r, "push") /\ req[r].doc = d
    \/ \E n \in (taken + 1)..Len(jobs) : jobs[n] = d
    \/ \E w \in Workers : ~Working(w, "idle") /\ DocOf(w) = d

(* While nothing crashes or fails, an accepted document in progress is     *)
(* never orphaned, although duplicate requests and two threads overwrite   *)
(* each other's status: every write of PENDING is followed by a push and   *)
(* every write of PROCESSING by a final status of the same thread.         *)
InProgressIsOwned ==
    crashes = 0 /\ faults = 0 => \A d \in Docs : InProgress(d) => Owned(d)

(* A temp_files row never refers to a deleted image: an upload writes the  *)
(* image first and a deletion the row first, however they overlap.  It     *)
(* needs that no saved document is deleted: that takes the images along.   *)
TempFilesStored == \A f \in Files : tempFile[f].doc # NoDoc => f \in s3

(* When no request is in progress and nothing has failed, the user is not  *)
(* charged for bytes that are gone, whatever uploads, analyses, deletions  *)
(* of temp files and deletions of what was saved from them came before.    *)
(* It holds of one request at a time, beside any number of threads.        *)
NoPhantomUsage ==
    faults = 0 /\ (\A r \in Requests : Idle(r)) => used <= Cardinality(s3)

-----------------------------------------------------------------------------
(* The queue and the worker implement AnalysisQueue: its open requests are *)
(* those in the queue and those of threads that have not saved yet.        *)

Unsaved == {"begin", "files", "ocr", "save"}
JobsInThreads == {worker[w].job : w \in {v \in Workers : worker[v].pc \in Unsaved}}
OpenJobs == ((taken + 1)..Len(jobs)) \cup JobsInThreads
ResultsOf(n) == {k \in SavedId : saved[k].job = n}

AQ == INSTANCE AnalysisQueue WITH
        asked <- Len(jobs),
        open <- OpenJobs,
        results <- [n \in 1..Len(jobs) |-> Cardinality(ResultsOf(n))]

(* Each accepted request is answered at most once: two threads never work  *)
(* on one job, and a thread that failed or was killed after it saved does  *)
(* not save again.                                                         *)
ServedAtMostOnce == AQ!Spec

-----------------------------------------------------------------------------
(* Liveness *)

(* An accepted document does not stay in progress: while no restart loses  *)
(* a job and no call fails, the client's polling ends, although duplicate  *)
(* requests and threads keep taking the document back to PENDING and       *)
(* PROCESSING.                                                             *)
AcceptedIsDecided ==
    \A d \in Docs : InProgress(d) ~> ~InProgress(d) \/ crashes > 0 \/ faults > 0

(* A document that a lost job left in progress is gone in the end, or      *)
(* FAILED: the nightly cleanup takes it three days after its creation,     *)
(* uploads, failed cleanups and late analyses notwithstanding.             *)
StaleIsRemoved ==
    \A d \in Docs : Exists(d) /\ old[d] ~> ~Exists(d) \/ status[d] = "FAILED"

-----------------------------------------------------------------------------
(* Statements of the documentation that the code does not keep *)

(* "The S3 deletion first checks whether a saved record uses the same      *)
(* fileUrl" (uploads.service.ts, isFileUrlInUse), lest the images of what  *)
(* was saved are lost.                                                     *)
SavedImagesKept ==
    \A k \in SavedId : saved[k].state = "SAVED" => saved[k].files \subseteq s3
=============================================================================
