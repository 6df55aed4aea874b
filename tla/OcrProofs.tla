----------------------------- MODULE OcrProofs ------------------------------
(***************************************************************************)
(* Proofs about OcrPipeline, for every number of documents, uploads,       *)
(* requests, threads, jobs, restarts and failed calls.                     *)
(*                                                                         *)
(*   Every step keeps the types, given the inductive invariant: a push     *)
(*   needs room in the queue and a document to push, and the receipt that  *)
(*   a thread saves needs a first image.                                   *)
(*   IInv is inductive: a job keeps its number for good, so a thread that  *)
(*   has popped it is the only one to know it until it saves; a result     *)
(*   keeps its job; and whoever writes PENDING or PROCESSING goes on to    *)
(*   hand the document to somebody who will write DONE or FAILED.          *)
(*   StoredInv extends it and gives TempFilesStored: an image that some    *)
(*   request is to delete has lost its row and gets no other.              *)
(*   UsageInv gives NoPhantomUsage: at every await of the only request,    *)
(*   what the counter is ahead of the bucket is what the request goes on   *)
(*   to subtract.                                                          *)
(***************************************************************************)
EXTENDS OcrInvariant, FiniteSetTheorems, TLAPS

-----------------------------------------------------------------------------
(* The records that actions build are well typed.                          *)

LEMMA IdleTypes ==
    /\ IdleRequest \in Request /\ IdleWorker \in Analysis /\ IdleCleanup \in Cleanup
    /\ NoRow \in TempFileRow /\ NotSaved \in SavedRow
<1>1. IdleRequest \in Request
  BY DEF IdleRequest, Request, RequestPc, NoOrder
<1>2. IdleWorker \in Analysis /\ IdleCleanup \in Cleanup
  BY DEF IdleWorker, Analysis, WorkerPc, IdleCleanup, Cleanup, CleanupPc
<1>3. NoRow \in TempFileRow /\ NotSaved \in SavedRow
  BY DEF NoRow, TempFileRow, NotSaved, SavedRow
<1> QED
  BY <1>1, <1>2, <1>3

LEMMA FilesFinite ==
    ASSUME NEW S \in SUBSET Files
    PROVE  IsFiniteSet(S) /\ Cardinality(S) \in Nat
BY UploadAssumption, FS_Subset, FS_CardinalityType

LEMMA FilesOfIsSubset == ASSUME NEW d PROVE FilesOf(d) \in SUBSET Files
BY DEF FilesOf

LEMMA WithStatusType ==
    ASSUME status \in [Docs -> AiStatus \cup {"NONE", "DELETED"}], NEW d,
           NEW s \in AiStatus \cup {"NONE", "DELETED"}
    PROVE  WithStatus(d, s) \in [Docs -> AiStatus \cup {"NONE", "DELETED"}]
BY DEF WithStatus

LEMMA UsageLessType ==
    ASSUME used \in Nat, NEW b \in Nat
    PROVE  UsageLess(b) \in Nat
BY DEF UsageLess

(* The four ways in which an action changes a request.                     *)
LEMMA StartType ==
    ASSUME req \in [Requests -> Request], NEW r \in Requests, NEW q \in Request,
           req' = [req EXCEPT ![r] = q]
    PROVE  req' \in [Requests -> Request]
OBVIOUS

LEMMA FinishType ==
    ASSUME req \in [Requests -> Request], NEW r \in Requests, Finish(r)
    PROVE  req' \in [Requests -> Request]
BY IdleTypes DEF Finish

LEMMA GotoType ==
    ASSUME req \in [Requests -> Request], NEW r \in Requests, NEW pc \in RequestPc, Goto(r, pc)
    PROVE  req' \in [Requests -> Request]
<1>1. [req[r] EXCEPT !.pc = pc] \in Request
  BY DEF Request
<1> QED
  BY <1>1 DEF Goto

LEMMA AfterUsageType ==
    ASSUME req \in [Requests -> Request], NEW r \in Requests, AfterUsage(r)
    PROVE  req' \in [Requests -> Request]
BY FinishType, GotoType DEF AfterUsage, RequestPc

LEMMA DeletionType ==
    ASSUME NEW op \in AllOps, NEW d \in Docs \cup {NoDoc}, NEW files \in SUBSET Files
    PROVE  Deletion(op, d, files) \in Request
BY IdleTypes, FilesFinite DEF Deletion, Request, RequestPc

LEMMA ProceedType ==
    ASSUME worker \in [Workers -> Analysis], NEW w \in Workers, NEW pc \in WorkerPc,
           Proceed(w, pc)
    PROVE  worker' \in [Workers -> Analysis]
<1>1. [worker[w] EXCEPT !.pc = pc] \in Analysis
  BY DEF Analysis
<1> QED
  BY <1>1 DEF Proceed

-----------------------------------------------------------------------------
(* Steps of the API server                                                 *)

LEMMA InitTypeOK == Init => TypeOK
BY IdleTypes, UploadAssumption DEF Init, TypeOK, AiStatus

LEMMA UploadTypeOK ==
    ASSUME IInv, NEW r \in Requests,
           \/ \E d \in Docs, f \in Files, n \in PageNo : Upload(r, d, f, n)
           \/ PutImage(r) \/ InsertFile(r) \/ InsertFileFails(r) \/ AddUsage(r)
    PROVE  TypeOK'
<1> USE DEF IInv, untouched
<1>1. ASSUME NEW d \in Docs, NEW f \in Files, NEW n \in PageNo, Upload(r, d, f, n)
      PROVE  TypeOK'
  <2>1. [IdleRequest EXCEPT !.op = "upload", !.pc = "put", !.doc = d, !.file = f, !.page = n]
          \in Request
    BY IdleTypes DEF Request, RequestPc, AllOps
  <2> QED
    BY <1>1, <2>1, StartType DEF TypeOK, Upload
<1>2. CASE PutImage(r)
  <2>1. req[r].file \in Files
    BY <1>2 DEF PutImage, At, RequestOK
  <2>2. req' \in [Requests -> Request]
    BY <1>2, GotoType DEF PutImage, TypeOK, RequestPc
  <2> QED
    BY <1>2, <2>1, <2>2 DEF TypeOK, PutImage
<1>3. CASE InsertFile(r)
  <2>1. [doc |-> req[r].doc, page |-> req[r].page] \in TempFileRow
    BY DEF TypeOK, Request, TempFileRow
  <2>2. req' \in [Requests -> Request]
    BY <1>3, GotoType DEF InsertFile, TypeOK, RequestPc
  <2> QED
    BY <1>3, <2>1, <2>2 DEF TypeOK, InsertFile
<1>4. CASE InsertFileFails(r)
  BY <1>4, FinishType DEF TypeOK, InsertFileFails
<1>5. CASE AddUsage(r)
  BY <1>5, FinishType DEF TypeOK, AddUsage
<1> QED
  BY <1>1, <1>2, <1>3, <1>4, <1>5

LEMMA OrderTypeOK ==
    ASSUME IInv, NEW r \in Requests,
           \/ \E d \in Docs, pages \in [Files -> PageNo] :
                Reorder(r, d, pages) \/ RequestAi(r, d, pages)
           \/ SetPages(r) \/ SetPagesFails(r) \/ MarkPending(r) \/ Push(r)
    PROVE  TypeOK'
<1> USE DEF IInv, untouched
<1>1. ASSUME NEW op \in AllOps, NEW d \in Docs, NEW pages \in [Files -> PageNo],
             StartOrder(r, op, d, pages)
      PROVE  TypeOK'
  <2> DEFINE order == [f \in Files |-> IF f \in FilesOf(d) THEN pages[f] ELSE NoPage]
  <2>1. order \in [Files -> PageNo \cup {NoPage}]
    OBVIOUS
  <2>2. [IdleRequest EXCEPT !.op = op, !.pc = "pages", !.doc = d, !.order = order] \in Request
    BY <2>1, IdleTypes DEF Request, RequestPc
  <2> QED
    BY <1>1, <2>2, StartType DEF TypeOK, StartOrder
<1>2. ASSUME NEW d \in Docs, NEW pages \in [Files -> PageNo],
             Reorder(r, d, pages) \/ RequestAi(r, d, pages)
      PROVE  TypeOK'
  BY <1>1, <1>2 DEF Reorder, RequestAi, AllOps
<1>3. CASE SetPages(r)
  <2>1. Ordered(r) \in [Files -> TempFileRow]
    BY DEF TypeOK, Ordered, TempFileRow, Request
  <2>2. req' \in [Requests -> Request]
    BY <1>3, FinishType, GotoType DEF SetPages, TypeOK, RequestPc
  <2> QED
    BY <1>3, <2>1, <2>2 DEF TypeOK, SetPages
<1>4. CASE SetPagesFails(r)
  BY <1>4, FinishType DEF TypeOK, SetPagesFails
<1>5. CASE MarkPending(r)
  <2>1. status' \in [Docs -> AiStatus \cup {"NONE", "DELETED"}]
    BY <1>5, WithStatusType DEF MarkPending, TypeOK, AiStatus
  <2>2. req' \in [Requests -> Request]
    BY <1>5, GotoType DEF MarkPending, TypeOK, RequestPc
  <2> QED
    BY <1>5, <2>1, <2>2 DEF TypeOK, MarkPending
<1>6. CASE Push(r)
  <2>1. req[r].doc \in Docs /\ r \in Asking
    BY <1>6 DEF Push, At, RequestOK, Asking
  <2>2. Cardinality(Asking) \in Nat /\ Cardinality(Asking) # 0
    BY <2>1, UploadAssumption, FS_Subset, FS_CardinalityType, FS_EmptySet DEF Asking
  <2>3. Len(jobs) < MaxJobs
    BY <2>2, UploadAssumption DEF JobsBounded, TypeOK
  <2>4. jobs' \in Seq(Docs) /\ Len(jobs') = Len(jobs) + 1
    BY <1>6, <2>1 DEF Push, TypeOK
  <2>5. req' \in [Requests -> Request]
    BY <1>6, FinishType DEF Push, TypeOK
  <2> QED
    BY <1>6, <2>3, <2>4, <2>5, UploadAssumption DEF TypeOK, Push
<1> QED
  BY <1>2, <1>3, <1>4, <1>5, <1>6

LEMMA DeleteTypeOK ==
    ASSUME IInv, NEW r \in Requests,
           \/ \E f \in Files : DeleteFile(r, f) \/ SkipImage(r, f) \/ PickImage(r, f)
           \/ \E d \in Docs : DeleteAll(r, d) \/ DeleteDoc(r, d)
           \/ ReadRows(r) \/ DropRows(r) \/ DeleteImage(r) \/ DeleteImageFails(r)
           \/ SubtractUsage(r) \/ SubtractUsageFails(r) \/ DropDoc(r)
    PROVE  TypeOK'
<1> USE DEF IInv, untouched
<1>1. ASSUME NEW f \in Files, DeleteFile(r, f) PROVE TypeOK'
  <2>1. tempFile[f].doc \in Docs \cup {NoDoc}
    BY DEF TypeOK, TempFileRow
  <2>2. Deletion("deleteFile", tempFile[f].doc, {f}) \in Request
    BY <2>1, DeletionType DEF AllOps
  <2>3. [Deletion("deleteFile", tempFile[f].doc, {f}) EXCEPT !.file = f] \in Request
    BY <2>2 DEF Request
  <2> QED
    BY <1>1, <2>3, StartType DEF TypeOK, DeleteFile
<1>2. ASSUME NEW f \in Files, SkipImage(r, f) PROVE TypeOK'
  <2>1. [req[r] EXCEPT !.files = @ \ {f}] \in Request
    BY DEF TypeOK, Request
  <2> QED
    BY <1>2, <2>1 DEF TypeOK, SkipImage
<1>3. ASSUME NEW f \in Files, PickImage(r, f) PROVE TypeOK'
  <2>1. req[r] \in Request /\ req[r].files \ {f} \in SUBSET Files
    BY DEF TypeOK, Request
  <2>2. [req[r] EXCEPT !.pc = "deleteImage", !.file = f, !.files = @ \ {f}] \in Request
    BY <2>1 DEF Request, RequestPc
  <2> QED
    BY <1>3, <2>2 DEF TypeOK, PickImage
<1>4. ASSUME NEW d \in Docs, DeleteAll(r, d) PROVE TypeOK'
  <2>1. Deletion("deleteAll", d, FilesOf(d)) \in Request
    BY DeletionType, FilesOfIsSubset DEF AllOps
  <2> QED
    BY <1>4, <2>1, StartType DEF TypeOK, DeleteAll
<1>5. ASSUME NEW d \in Docs, DeleteDoc(r, d) PROVE TypeOK'
  <2>1. Deletion("deleteDoc", d, {}) \in Request
    BY DeletionType DEF AllOps
  <2>2. [Deletion("deleteDoc", d, {}) EXCEPT !.pc = "readRows"] \in Request
    BY <2>1 DEF Request, RequestPc
  <2> QED
    BY <1>5, <2>2, StartType DEF TypeOK, DeleteDoc
<1>6. CASE ReadRows(r)
  <2>1. req[r].doc \in Docs \cup {NoDoc}
    BY DEF TypeOK, Request
  <2>2. Deletion("deleteDoc", req[r].doc, FilesOf(req[r].doc)) \in Request
    BY <2>1, DeletionType, FilesOfIsSubset DEF AllOps
  <2>3. req' \in [Requests -> Request]
    BY <1>6, <2>2, StartType, FinishType DEF ReadRows, TypeOK
  <2> QED
    BY <1>6, <2>3 DEF TypeOK, ReadRows
<1>7. CASE DropRows(r)
  <2>1. tempFile' \in [Files -> TempFileRow]
    BY <1>7, IdleTypes DEF DropRows, TypeOK
  <2>2. req' \in [Requests -> Request]
    BY <1>7, GotoType DEF DropRows, TypeOK, RequestPc
  <2> QED
    BY <1>7, <2>1, <2>2 DEF TypeOK, DropRows
<1>8. CASE DeleteImage(r) \/ DeleteImageFails(r)
  <2>1. req' \in [Requests -> Request]
    BY <1>8, GotoType DEF DeleteImage, DeleteImageFails, TypeOK, RequestPc
  <2> QED
    BY <1>8, <2>1 DEF TypeOK, DeleteImage, DeleteImageFails
<1>9. CASE SubtractUsage(r) \/ SubtractUsageFails(r)
  <2>1. UsageLess(req[r].bytes) \in Nat
    BY UsageLessType DEF TypeOK, Request
  <2>2. req' \in [Requests -> Request]
    BY <1>9, AfterUsageType DEF SubtractUsage, SubtractUsageFails, TypeOK
  <2> QED
    BY <1>9, <2>1, <2>2 DEF TypeOK, SubtractUsage, SubtractUsageFails
<1>10. CASE DropDoc(r)
  <2>1. status' \in [Docs -> AiStatus \cup {"NONE", "DELETED"}]
    BY <1>10, WithStatusType DEF DropDoc, TypeOK
  <2> QED
    BY <1>10, <2>1, FinishType DEF TypeOK, DropDoc
<1> QED
  BY <1>1, <1>2, <1>3, <1>4, <1>5, <1>6, <1>7, <1>8, <1>9, <1>10

LEMMA DeleteSavedTypeOK ==
    ASSUME IInv, NEW r \in Requests,
           \/ \E k \in SavedId : DeleteSaved(r, k)
           \/ DropDocument(r) \/ DropReceipt(r) \/ SubtractReceipt(r) \/ SavedDeleted(r)
           \/ Abort(r)
    PROVE  TypeOK'
<1> USE DEF IInv, untouched
<1>1. ASSUME NEW k \in SavedId, DeleteSaved(r, k) PROVE TypeOK'
  <2>1. saved[k].files \in SUBSET Files /\ saved[k].bytes \in Nat
    BY DEF TypeOK, SavedRow
  <2>2. [IdleRequest EXCEPT !.op = "deleteSaved", !.pc = "dropSaved", !.row = k,
                            !.files = saved[k].files, !.bytes = saved[k].bytes] \in Request
    BY <2>1, IdleTypes DEF Request, RequestPc, AllOps
  <2> QED
    BY <1>1, <2>2, StartType DEF TypeOK, DeleteSaved
<1>2. CASE DropDocument(r) \/ DropReceipt(r)
  <2>1. \A k \in SavedId : [saved[k] EXCEPT !.state = "REMOVED"] \in SavedRow
    BY DEF TypeOK, SavedRow
  <2>2. saved' \in [SavedId -> SavedRow]
    BY <1>2, <2>1 DEF DropDocument, DropReceipt, TypeOK
  <2>3. UsageLess(req[r].bytes) \in Nat
    BY UsageLessType DEF TypeOK, Request
  <2>4. req' \in [Requests -> Request]
    BY <1>2, GotoType DEF DropDocument, DropReceipt, TypeOK, RequestPc
  <2> QED
    BY <1>2, <2>2, <2>3, <2>4 DEF TypeOK, DropDocument, DropReceipt
<1>3. CASE SubtractReceipt(r)
  <2>1. UsageLess(req[r].bytes) \in Nat
    BY UsageLessType DEF TypeOK, Request
  <2>2. req' \in [Requests -> Request]
    BY <1>3, GotoType DEF SubtractReceipt, TypeOK, RequestPc
  <2> QED
    BY <1>3, <2>1, <2>2 DEF TypeOK, SubtractReceipt
<1>4. CASE SavedDeleted(r) \/ Abort(r)
  BY <1>4, FinishType DEF TypeOK, SavedDeleted, Abort
<1> QED
  BY <1>1, <1>2, <1>3, <1>4

-----------------------------------------------------------------------------
(* Steps of the worker, the cleanup and the environment                    *)

LEMMA WorkerTypeOK ==
    ASSUME IInv, NEW w \in Workers, Pop(w) \/ AnalysisStep(w) \/ WorkerFault(w)
    PROVE  TypeOK'
<1> USE DEF IInv, api
<1>1. CASE Pop(w)
  <2>1. taken + 1 \in JobId /\ taken + 1 \in 0..Len(jobs)
    BY <1>1, UploadAssumption DEF Pop, TypeOK, JobId
  <2>2. [IdleWorker EXCEPT !.pc = "begin", !.job = taken + 1] \in Analysis
    BY <2>1, IdleTypes DEF Analysis, WorkerPc
  <2> QED
    BY <1>1, <2>1, <2>2 DEF TypeOK, Pop
<1>2. CASE Begin(w)
  <2>1. status' \in [Docs -> AiStatus \cup {"NONE", "DELETED"}]
    BY <1>2, WithStatusType DEF Begin, TypeOK, AiStatus
  <2>2. worker' \in [Workers -> Analysis]
    BY <1>2, ProceedType DEF Begin, TypeOK, WorkerPc
  <2> QED
    BY <1>2, <2>1, <2>2 DEF TypeOK, Begin
<1>3. CASE ReadFiles(w)
  <2>1. FilesOf(DocOf(w)) \in SUBSET Files
    BY FilesOfIsSubset
  <2>2. \A f \in Files : [worker[w] EXCEPT !.pc = "ocr", !.files = FilesOf(DocOf(w)),
                                           !.first = f] \in Analysis
    BY <2>1 DEF TypeOK, Analysis, WorkerPc
  <2>3. PICK f \in FilesOf(DocOf(w)) :
          worker' = [worker EXCEPT ![w].pc = "ocr", ![w].files = FilesOf(DocOf(w)),
                                   ![w].first = f]
    BY <1>3 DEF ReadFiles
  <2>4. worker' \in [Workers -> Analysis]
    BY <2>1, <2>2, <2>3 DEF TypeOK
  <2> QED
    BY <1>3, <2>4 DEF TypeOK, ReadFiles
<1>4. CASE NoFilesLeft(w) \/ Recognise(w) \/ Reject(w) \/ AddActivity(w)
  <2>1. worker' \in [Workers -> Analysis]
    BY <1>4, ProceedType
       DEF NoFilesLeft, Recognise, Reject, AddActivity, TypeOK, WorkerPc
  <2> QED
    BY <1>4, <2>1 DEF TypeOK, NoFilesLeft, Recognise, Reject, AddActivity
<1>5. ASSUME NEW kind \in {"DOCUMENT", "RECEIPT"}, NEW files \in SUBSET Files,
             NEW next \in WorkerPc, Save(w, kind, files, next)
      PROVE  TypeOK'
  <2>1. worker[w] \in Analysis
    BY DEF TypeOK
  <2>2. worker[w].files \in SUBSET Files /\ worker[w].job \in JobId \cup {NoId}
    BY <2>1 DEF Analysis
  <2> DEFINE row == [state |-> "SAVED", kind |-> kind, job |-> worker[w].job, files |-> files,
                     bytes |-> Cardinality(worker[w].files)]
  <2>3. row \in SavedRow
    BY <2>2, FilesFinite DEF SavedRow
  <2>4. PICK k \in FreshSaved :
          /\ saved' = [saved EXCEPT ![k] = row]
          /\ worker' = [worker EXCEPT ![w].pc = next, ![w].row = k]
    BY <1>5 DEF Save
  <2>5. k \in SavedId
    BY DEF FreshSaved
  <2>6. [worker[w] EXCEPT !.pc = next, !.row = k] \in Analysis
    BY <2>1, <2>5 DEF Analysis
  <2>7. saved' \in [SavedId -> SavedRow] /\ worker' \in [Workers -> Analysis]
    BY <2>3, <2>4, <2>6 DEF TypeOK
  <2> QED
    BY <1>5, <2>7 DEF TypeOK, Save
<1>6. CASE SaveDocument(w) \/ SaveReceipt(w)
  <2>1. worker[w].files \in SUBSET Files
    BY DEF TypeOK, Analysis
  <2>2. Working(w, "save") => worker[w].first \in Files
    BY DEF WorkerOK, Working
  <2>3. CASE SaveDocument(w)
    BY <1>5, <2>1, <2>3 DEF SaveDocument, WorkerPc
  <2>4. CASE SaveReceipt(w)
    <3>1. {worker[w].first} \in SUBSET Files
      BY <2>2, <2>4 DEF SaveReceipt, Save
    <3> QED
      BY <1>5, <2>4, <3>1 DEF SaveReceipt, WorkerPc
  <2> QED
    BY <1>6, <2>3, <2>4
<1>7. CASE MarkDone(w) \/ MarkFailed(w)
  <2>1. status' \in [Docs -> AiStatus \cup {"NONE", "DELETED"}]
    BY <1>7, WithStatusType DEF MarkDone, MarkFailed, Close, TypeOK, AiStatus
  <2> QED
    BY <1>7, <2>1, IdleTypes DEF TypeOK, MarkDone, MarkFailed, Close
<1>8. CASE WorkerFault(w)
  <2>1. worker' \in [Workers -> Analysis]
    BY <1>8, ProceedType, IdleTypes
       DEF WorkerFault, StatementFails, MarkFailedFails, TypeOK, WorkerPc
  <2> QED
    BY <1>8, <2>1 DEF TypeOK, WorkerFault, StatementFails, MarkFailedFails
<1> QED
  BY <1>1, <1>2, <1>3, <1>4, <1>6, <1>7, <1>8 DEF AnalysisStep

LEMMA EnvironmentTypeOK ==
    ASSUME IInv,
           \/ \E d \in Docs : StartUpload(d) \/ Age(d)
           \/ WorkerRestart \/ CleanupStep \/ CleanupFails \/ UNCHANGED vars
    PROVE  TypeOK'
<1> USE DEF IInv
<1>1. ASSUME NEW d \in Docs, StartUpload(d) \/ Age(d) PROVE TypeOK'
  BY <1>1 DEF TypeOK, StartUpload, Age, untouched, AiStatus
<1>2. CASE WorkerRestart
  BY <1>2, IdleTypes DEF TypeOK, WorkerRestart, api
<1>3. CASE SelectExpired
  BY <1>3 DEF TypeOK, SelectExpired, Expired, Cleanup, CleanupPc
<1>4. CASE DropExpiredRows
  <2>1. [cleanup EXCEPT !.pc = "docs"] \in Cleanup
    BY DEF TypeOK, Cleanup, CleanupPc
  <2>2. tempFile' \in [Files -> TempFileRow]
    BY <1>4, IdleTypes DEF DropExpiredRows, TypeOK
  <2> QED
    BY <1>4, <2>1, <2>2 DEF TypeOK, DropExpiredRows
<1>5. CASE DropExpiredDocs
  BY <1>5, IdleTypes DEF TypeOK, DropExpiredDocs
<1>6. CASE CleanupFails
  BY <1>6, IdleTypes DEF TypeOK, CleanupFails
<1>7. CASE UNCHANGED vars
  BY <1>7 DEF TypeOK, vars
<1> QED
  BY <1>1, <1>2, <1>3, <1>4, <1>5, <1>6, <1>7 DEF CleanupStep

LEMMA NextTypeOK ==
    ASSUME IInv, [Next]_vars
    PROVE  TypeOK'
<1>1. ASSUME NEW r \in Requests, StartRequest(r) \/ HandlerStep(r) \/ HandlerFault(r)
      PROVE  TypeOK'
  BY <1>1, UploadTypeOK, OrderTypeOK, DeleteTypeOK, DeleteSavedTypeOK
     DEF StartRequest, HandlerStep, HandlerFault
<1> QED
  BY <1>1, WorkerTypeOK, EnvironmentTypeOK DEF Next

-----------------------------------------------------------------------------
(* What no step undoes.                                                    *)

StartsKept == \A d \in Docs : Started(d) => Started(d)'
JobsKept == Len(jobs) <= Len(jobs') /\ \A n \in 1..Len(jobs) : jobs'[n] = jobs[n]
ResultsKept ==
    \A k \in SavedId : /\ saved'[k].job = saved[k].job
                       /\ saved'[k].state = "NONE" <=> saved[k].state = "NONE"
NoNewDone == \A d \in Docs : status'[d] = "DONE" => status[d] = "DONE"

(* Threads do not notice what requests do.                                 *)
LEMMA ThreadsUndisturbed ==
    ASSUME IInv, UNCHANGED <<taken, worker>>, JobsKept, ResultsKept, NoNewDone
    PROVE  /\ \A w \in Workers : WorkerOK(w)'
           /\ JobsApart' /\ ResultsApart' /\ DoneIsSaved'
<1> USE DEF IInv
<1>1. ASSUME NEW w \in Workers PROVE WorkerOK(w)'
  BY <1>1 DEF WorkerOK, Working, ResultsKept
<1>2. JobsApart'
  BY DEF JobsApart, Working
<1>3. ResultsApart'
  BY DEF ResultsApart, ResultsKept
<1>4. DoneIsSaved'
  <2> SUFFICES ASSUME NEW d \in Docs, status'[d] = "DONE"
               PROVE  \E k \in SavedId : saved'[k].state # "NONE" /\ jobs'[saved'[k].job] = d
    BY DEF DoneIsSaved
  <2>1. PICK k \in SavedId : saved[k].state # "NONE" /\ jobs[saved[k].job] = d
    BY DEF NoNewDone, DoneIsSaved
  <2>2. saved[k].job \in 1..Len(jobs)
    BY <2>1 DEF ResultsApart, TypeOK
  <2> QED
    BY <2>1, <2>2 DEF JobsKept, ResultsKept
<1> QED
  BY <1>1, <1>2, <1>3, <1>4

(* Requests do not notice what others do.                                  *)
LEMMA RequestUndisturbed ==
    ASSUME IInv, StartsKept, NEW q \in Requests, req'[q] = req[q],
           \A k \in SavedId : saved[k].state # "NONE" => saved'[k].state # "NONE"
    PROVE  RequestOK(q)'
BY DEF IInv, RequestOK, StartsKept, Started

(* Unless a request joins or a job is pushed, the bound is kept.           *)
LEMMA BoundKept ==
    ASSUME IInv, Len(jobs') = Len(jobs), Asking' \subseteq Asking
    PROVE  JobsBounded'
<1>1. IsFiniteSet(Asking)
  BY UploadAssumption, FS_Subset DEF Asking
<1>2. Cardinality(Asking') <= Cardinality(Asking) /\ Cardinality(Asking') \in Nat
        /\ Cardinality(Asking) \in Nat
  BY <1>1, FS_Subset, FS_CardinalityType
<1> QED
  BY <1>2, UploadAssumption DEF IInv, JobsBounded, TypeOK

(* Who owns a document goes on to own it, unless he pushes or closes.      *)
LEMMA OwnersKept ==
    ASSUME IInv, UNCHANGED <<jobs, taken>>, NEW d \in Docs, Owned(d),
           \A q \in Requests : At(q, "push") => req'[q] = req[q],
           \A w \in Workers : ~Working(w, "idle") =>
               worker'[w].pc # "idle" /\ worker'[w].job = worker[w].job
    PROVE  Owned(d)'
BY DEF Owned, At, Working, DocOf

(* A step that puts no document into progress and keeps the owners.        *)
LEMMA QuietOwned ==
    ASSUME IInv, UNCHANGED <<jobs, taken>>, crashes' = crashes, faults' = faults,
           \A q \in Requests : At(q, "push") => req'[q] = req[q],
           \A w \in Workers : ~Working(w, "idle") =>
               worker'[w].pc # "idle" /\ worker'[w].job = worker[w].job,
           \A d \in Docs : Started(d) /\ status'[d] \in {"PENDING", "PROCESSING"}
                             => status'[d] = status[d]
    PROVE  InProgressIsOwned'
<1> SUFFICES ASSUME crashes = 0, faults = 0, NEW d \in Docs, InProgress(d)' PROVE Owned(d)'
  BY DEF InProgressIsOwned
<1>1. Requested(d)
  BY DEF InProgress, Requested
<1>2. Started(d)
  BY <1>1 DEF Requested, IInv
<1>3. InProgress(d)
  BY <1>1, <1>2 DEF InProgress
<1>4. Owned(d)
  BY <1>3 DEF InProgressIsOwned, IInv
<1> QED
  BY <1>4, OwnersKept

LEMMA FaultOwned ==
    ASSUME TypeOK, crashes' = crashes + 1 \/ faults' = faults + 1
    PROVE  InProgressIsOwned'
BY DEF TypeOK, InProgressIsOwned

-----------------------------------------------------------------------------
(* Steps of requests                                                       *)

LEMMA FinishOK ==
    ASSUME IInv, NEW r \in Requests, Finish(r)
    PROVE  /\ RequestOK(r)' /\ req'[r].op # "requestAi"
           /\ \A q \in Requests \ {r} : req'[q] = req[q]
<1>1. req'[r] = IdleRequest
  BY DEF Finish, IInv, TypeOK
<1>2. RequestOK(r)'
  BY <1>1, UploadAssumption DEF RequestOK, IdleRequest
<1> QED
  BY <1>1, <1>2 DEF Finish, IdleRequest, IInv, TypeOK

LEMMA GotoOK ==
    ASSUME IInv, NEW r \in Requests, NEW pc, Goto(r, pc), StartsKept, ResultsKept,
           pc \notin {"put", "pages", "pending", "push", "dropSaved"},
           pc = "insert" => req[r].file \in Files
    PROVE  /\ RequestOK(r)' /\ req'[r].op = req[r].op
           /\ \A q \in Requests \ {r} : req'[q] = req[q]
<1>1. req[r] \in Request
  BY DEF IInv, TypeOK
<1>2. req'[r] = [req[r] EXCEPT !.pc = pc]
  BY DEF Goto, IInv, TypeOK
<1>3. /\ req'[r].pc = pc /\ req'[r].doc = req[r].doc /\ req'[r].op = req[r].op
      /\ req'[r].file = req[r].file
  BY <1>1, <1>2 DEF Request
<1>4. RequestOK(r)'
  BY <1>3 DEF RequestOK, IInv, StartsKept, Started
<1> QED
  BY <1>3, <1>4 DEF Goto, IInv, TypeOK

(* A request step that puts no document into progress and pushes nothing.  *)
LEMMA QuietRequest ==
    ASSUME IInv, TypeOK', NEW r \in Requests, UNCHANGED <<jobs, taken, worker, crashes>>,
           ResultsKept, \A d \in Docs : status'[d] = status[d] \/ status'[d] = "DELETED",
           RequestOK(r)', \A q \in Requests \ {r} : req'[q] = req[q],
           (req'[r].op = "requestAi" => req[r].op = "requestAi") \/ JobsBounded',
           \/ faults' = faults /\ ~At(r, "push")
           \/ faults' = faults + 1
    PROVE  IInv'
<1>1. StartsKept /\ JobsKept /\ NoNewDone
  BY DEF StartsKept, Started, JobsKept, NoNewDone, IInv, TypeOK
<1>2. JobsBounded'
  <2> SUFFICES ASSUME req'[r].op = "requestAi" => req[r].op = "requestAi" PROVE JobsBounded'
    OBVIOUS
  <2>1. Asking' \subseteq Asking
    BY DEF Asking
  <2> QED
    BY <2>1, BoundKept
<1>3. \A n \in 1..Len(jobs') : Started(jobs[n])'
  BY <1>1 DEF IInv, StartsKept, TypeOK
<1>4. \A q \in Requests : RequestOK(q)'
  BY <1>1, RequestUndisturbed DEF ResultsKept
<1>5. InProgressIsOwned'
  <2>1. CASE faults' = faults /\ ~At(r, "push")
    BY <2>1, QuietOwned DEF At, Working
  <2>2. CASE faults' = faults + 1
    BY <2>2, FaultOwned DEF IInv
  <2> QED
    BY <2>1, <2>2
<1> QED
  BY <1>1, <1>2, <1>3, <1>4, <1>5, ThreadsUndisturbed DEF IInv

LEMMA UploadStep ==
    ASSUME IInv, TypeOK', NEW r \in Requests,
           \/ \E d \in Docs, f \in Files, n \in PageNo : Upload(r, d, f, n)
           \/ PutImage(r) \/ InsertFile(r) \/ InsertFileFails(r) \/ AddUsage(r)
    PROVE  IInv'
<1> USE DEF untouched
<1>1. ASSUME NEW d \in Docs, NEW f \in Files, NEW n \in PageNo, Upload(r, d, f, n)
      PROVE  IInv'
  <2>1. req'[r] = [IdleRequest EXCEPT !.op = "upload", !.pc = "put", !.doc = d, !.file = f,
                                      !.page = n]
    BY <1>1 DEF Upload, IInv, TypeOK
  <2>2. req'[r].op = "upload" /\ req'[r].pc = "put" /\ req'[r].doc = d /\ req'[r].file = f
    BY <2>1 DEF IdleRequest
  <2>3. RequestOK(r)'
    BY <2>2 DEF RequestOK
  <2> QED
    BY <1>1, <2>2, <2>3, QuietRequest DEF Upload, ResultsKept, Idle, At, IInv, TypeOK
<1>2. CASE PutImage(r)
  <2>1. StartsKept /\ ResultsKept
    BY <1>2 DEF PutImage, StartsKept, Started, ResultsKept
  <2>2. req[r].file \in Files
    BY <1>2 DEF PutImage, At, IInv, RequestOK
  <2> QED
    BY <1>2, <2>1, <2>2, GotoOK, QuietRequest DEF PutImage, At
<1>3. CASE InsertFile(r)
  <2>1. StartsKept /\ ResultsKept
    BY <1>3 DEF InsertFile, StartsKept, Started, ResultsKept
  <2> QED
    BY <1>3, <2>1, GotoOK, QuietRequest DEF InsertFile, At
<1>4. CASE InsertFileFails(r) \/ AddUsage(r)
  <2>1. ResultsKept
    BY <1>4 DEF InsertFileFails, AddUsage, ResultsKept
  <2> QED
    BY <1>4, <2>1, FinishOK, QuietRequest DEF InsertFileFails, AddUsage, At
<1> QED
  BY <1>1, <1>2, <1>3, <1>4

LEMMA DeleteStep ==
    ASSUME IInv, TypeOK', NEW r \in Requests,
           \/ \E f \in Files : DeleteFile(r, f) \/ SkipImage(r, f) \/ PickImage(r, f)
           \/ \E d \in Docs : DeleteAll(r, d) \/ DeleteDoc(r, d)
           \/ ReadRows(r) \/ DropRows(r) \/ DeleteImage(r) \/ DeleteImageFails(r)
           \/ SubtractUsage(r) \/ SubtractUsageFails(r) \/ DropDoc(r)
    PROVE  IInv'
<1> USE DEF untouched
<1>0. req[r] \in Request /\ RequestOK(r)
  BY DEF IInv, TypeOK
<1>1. ASSUME NEW q, q.op # "requestAi", q.pc \in {"readRows", "dropRows"},
             req' = [req EXCEPT ![r] = q], ~At(r, "push"),
             UNCHANGED <<status, jobs, saved, faults, taken, worker, crashes>>
      PROVE  IInv'
  <2>1. req'[r] = q
    BY <1>1 DEF IInv, TypeOK
  <2>2. RequestOK(r)'
    BY <1>1, <2>1 DEF RequestOK
  <2> QED
    BY <1>1, <2>1, <2>2, QuietRequest DEF ResultsKept, IInv, TypeOK
<1>2. \A op, d, files : /\ Deletion(op, d, files).op = op
                       /\ Deletion(op, d, files).pc = "dropRows"
  BY DEF Deletion, IdleRequest
<1>3. ASSUME NEW f \in Files, DeleteFile(r, f) PROVE IInv'
  <2> DEFINE q == [Deletion("deleteFile", tempFile[f].doc, {f}) EXCEPT !.file = f]
  <2>1. q.op = "deleteFile" /\ q.pc = "dropRows"
    BY DEF Deletion, IdleRequest
  <2> HIDE DEF q
  <2>2. req' = [req EXCEPT ![r] = q]
    BY <1>3 DEF DeleteFile, q
  <2> QED
    BY <1>1, <1>3, <2>1, <2>2 DEF DeleteFile, Idle, At
<1>4. ASSUME NEW d \in Docs, DeleteAll(r, d) PROVE IInv'
  <2> DEFINE q == Deletion("deleteAll", d, FilesOf(d))
  <2>1. q.op = "deleteAll" /\ q.pc = "dropRows"
    BY <1>2
  <2> HIDE DEF q
  <2>2. req' = [req EXCEPT ![r] = q]
    BY <1>4 DEF DeleteAll, q
  <2> QED
    BY <1>1, <1>4, <2>1, <2>2 DEF DeleteAll, Idle, At
<1>5. ASSUME NEW d \in Docs, DeleteDoc(r, d) PROVE IInv'
  <2> DEFINE q == [Deletion("deleteDoc", d, {}) EXCEPT !.pc = "readRows"]
  <2>1. q.op = "deleteDoc" /\ q.pc = "readRows"
    BY DEF Deletion, IdleRequest
  <2> HIDE DEF q
  <2>2. req' = [req EXCEPT ![r] = q]
    BY <1>5 DEF DeleteDoc, q
  <2> QED
    BY <1>1, <1>5, <2>1, <2>2 DEF DeleteDoc, Idle, At
<1>6. ASSUME ReadRows(r), Exists(req[r].doc) PROVE IInv'
  BY <1>1, <1>2, <1>6 DEF ReadRows, At
(* What remains either goes on to another await or ends the request.       *)
<1>7. ASSUME NEW pc \in {"images", "deleteImage", "dropDoc"}, Goto(r, pc),
             ~At(r, "push"), UNCHANGED <<status, jobs, saved, taken, worker, crashes>>,
             faults' = faults \/ faults' = faults + 1
      PROVE  IInv'
  <2>1. StartsKept /\ ResultsKept
    BY <1>7 DEF StartsKept, Started, ResultsKept
  <2> QED
    BY <1>7, <2>1, GotoOK, QuietRequest
<1>8. ASSUME Finish(r), ~At(r, "push"), UNCHANGED <<jobs, saved, taken, worker, crashes>>,
             \A d \in Docs : status'[d] = status[d] \/ status'[d] = "DELETED",
             faults' = faults \/ faults' = faults + 1
      PROVE  IInv'
  BY <1>8, FinishOK, QuietRequest DEF ResultsKept
<1>9. ASSUME ReadRows(r), ~Exists(req[r].doc) PROVE IInv'
  BY <1>8, <1>9 DEF ReadRows, At
<1>10. ASSUME NEW f \in Files, SkipImage(r, f) \/ PickImage(r, f) PROVE IInv'
  <2>1. /\ req'[r].op = req[r].op /\ req'[r].pc \in {"images", "deleteImage"}
        /\ \A q \in Requests \ {r} : req'[q] = req[q]
    <3>1. CASE SkipImage(r, f)
      <4>1. req'[r] = [req[r] EXCEPT !.files = @ \ {f}]
        BY <3>1 DEF SkipImage, IInv, TypeOK
      <4> QED
        BY <1>0, <3>1, <4>1 DEF SkipImage, At, Request, IInv, TypeOK
    <3>2. CASE PickImage(r, f)
      <4>1. req'[r] = [req[r] EXCEPT !.pc = "deleteImage", !.file = f, !.files = @ \ {f}]
        BY <3>2 DEF PickImage, IInv, TypeOK
      <4> QED
        BY <1>0, <3>2, <4>1 DEF PickImage, At, Request, IInv, TypeOK
    <3> QED
      BY <1>10, <3>1, <3>2
  <2>2. RequestOK(r)'
    BY <2>1 DEF RequestOK
  <2>3. ResultsKept
    BY <1>10 DEF SkipImage, PickImage, ResultsKept
  <2> QED
    BY <1>10, <2>1, <2>2, <2>3, QuietRequest DEF SkipImage, PickImage, At
<1>11. CASE DropRows(r)
  BY <1>7, <1>11 DEF DropRows, At
<1>12. CASE DeleteImage(r) \/ DeleteImageFails(r)
  BY <1>7, <1>12 DEF DeleteImage, DeleteImageFails, At
<1>13. CASE SubtractUsage(r) \/ SubtractUsageFails(r)
  BY <1>7, <1>8, <1>13 DEF SubtractUsage, SubtractUsageFails, AfterUsage, At
<1>14. CASE DropDoc(r)
  BY <1>8, <1>14 DEF DropDoc, WithStatus, At, IInv, TypeOK
<1> QED
  BY <1>3, <1>4, <1>5, <1>6, <1>9, <1>10, <1>11, <1>12, <1>13, <1>14

LEMMA DeleteSavedStep ==
    ASSUME IInv, TypeOK', NEW r \in Requests,
           \/ \E k \in SavedId : DeleteSaved(r, k)
           \/ DropDocument(r) \/ DropReceipt(r) \/ SubtractReceipt(r) \/ SavedDeleted(r)
           \/ Abort(r)
    PROVE  IInv'
<1> USE DEF untouched
<1>1. ASSUME NEW k \in SavedId, DeleteSaved(r, k) PROVE IInv'
  <2>1. req'[r].op = "deleteSaved" /\ req'[r].pc = "dropSaved" /\ req'[r].row = k
    BY <1>1 DEF DeleteSaved, IdleRequest, IInv, TypeOK
  <2>2. RequestOK(r)'
    BY <1>1, <2>1 DEF RequestOK, DeleteSaved
  <2> QED
    BY <1>1, <2>1, <2>2, QuietRequest DEF DeleteSaved, ResultsKept, Idle, At, IInv, TypeOK
<1>2. CASE DropDocument(r) \/ DropReceipt(r)
  <2>1. req[r].row \in SavedId /\ saved[req[r].row].state # "NONE"
    BY <1>2 DEF DropDocument, DropReceipt, At, IInv, RequestOK
  <2>2. saved' = [saved EXCEPT ![req[r].row].state = "REMOVED"]
    BY <1>2 DEF DropDocument, DropReceipt
  <2>3. ResultsKept
    BY <2>1, <2>2 DEF ResultsKept, IInv, TypeOK, SavedRow
  <2>4. StartsKept
    BY <1>2 DEF DropDocument, DropReceipt, StartsKept, Started
  <2> QED
    BY <1>2, <2>3, <2>4, GotoOK, QuietRequest DEF DropDocument, DropReceipt, At
<1>3. CASE SubtractReceipt(r)
  <2>1. StartsKept /\ ResultsKept
    BY <1>3 DEF SubtractReceipt, StartsKept, Started, ResultsKept
  <2> QED
    BY <1>3, <2>1, GotoOK, QuietRequest DEF SubtractReceipt, At
<1>4. CASE SavedDeleted(r) \/ Abort(r)
  <2>1. ResultsKept
    BY <1>4 DEF SavedDeleted, Abort, ResultsKept
  <2> QED
    BY <1>4, <2>1, FinishOK, QuietRequest DEF SavedDeleted, Abort, At
<1> QED
  BY <1>1, <1>2, <1>3, <1>4

LEMMA AddOne ==
    ASSUME NEW S, NEW x, IsFiniteSet(S)
    PROVE  Cardinality(S \cup {x}) <= Cardinality(S) + 1
<1>1. Cardinality(S) \in Nat
  BY FS_CardinalityType
<1>2. Cardinality(S \cup {x}) = Cardinality(S) \/ Cardinality(S \cup {x}) = Cardinality(S) + 1
  BY FS_AddElement, Zenon
<1> QED
  BY <1>1, <1>2

(* The request joins those that are counted for the bound.                 *)
LEMMA StartOrderStep ==
    ASSUME IInv, TypeOK', NEW r \in Requests, NEW op, NEW d \in Docs, NEW pages,
           StartOrder(r, op, d, pages),
           op = "requestAi" => Len(jobs) + Cardinality(Asking) < MaxJobs
    PROVE  IInv'
<1> DEFINE order == [f \in Files |-> IF f \in FilesOf(d) THEN pages[f] ELSE NoPage]
<1>1. req' = [req EXCEPT ![r] = [IdleRequest EXCEPT !.op = op, !.pc = "pages", !.doc = d,
                                                    !.order = order]]
  BY DEF StartOrder
<1>2. req'[r].op = op /\ req'[r].pc = "pages" /\ req'[r].doc = d
  BY <1>1 DEF IdleRequest, IInv, TypeOK
<1>3. \A q \in Requests \ {r} : req'[q] = req[q]
  BY <1>1 DEF IInv, TypeOK
<1>4. status' = status /\ Exists(d)
  BY DEF StartOrder
<1>5. RequestOK(r)'
  BY <1>2, <1>4 DEF RequestOK, Started, Exists, AiStatus
<1>6. ResultsKept
  BY DEF StartOrder, ResultsKept
<1>7. ASSUME op = "requestAi" PROVE JobsBounded'
  <2>1. IsFiniteSet(Asking) /\ Cardinality(Asking) \in Nat
    BY UploadAssumption, FS_Subset, FS_CardinalityType DEF Asking
  <2>2. IsFiniteSet(Asking \cup {r}) /\ Cardinality(Asking \cup {r}) \in Nat
    BY <2>1, FS_AddElement, FS_CardinalityType
  <2>5. Cardinality(Asking \cup {r}) <= Cardinality(Asking) + 1
    BY <2>1, AddOne
  <2>3. Asking' \subseteq Asking \cup {r}
    BY <1>3 DEF Asking
  <2>4. Cardinality(Asking') <= Cardinality(Asking \cup {r}) /\ Cardinality(Asking') \in Nat
    BY <2>2, <2>3, FS_Subset, FS_CardinalityType
  <2> QED
    BY <1>7, <2>1, <2>2, <2>4, <2>5, UploadAssumption DEF JobsBounded, StartOrder, IInv, TypeOK
<1> QED
  BY <1>2, <1>3, <1>4, <1>5, <1>6, <1>7, QuietRequest
     DEF StartOrder, Idle, At, untouched

LEMMA SetPagesStep ==
    ASSUME IInv, TypeOK', NEW r \in Requests, SetPages(r) \/ SetPagesFails(r)
    PROVE  IInv'
<1> USE DEF untouched
<1>1. ResultsKept /\ ~At(r, "push")
  BY DEF SetPages, SetPagesFails, ResultsKept, At
<1>2. CASE Finish(r)
  BY <1>1, <1>2, FinishOK, QuietRequest DEF SetPages, SetPagesFails
<1>3. CASE SetPages(r) /\ req[r].op = "requestAi" /\ Goto(r, "pending")
  <2>1. req[r] \in Request /\ RequestOK(r) /\ req[r].pc = "pages"
    BY <1>3 DEF IInv, TypeOK, SetPages, At
  <2>2. req'[r] = [req[r] EXCEPT !.pc = "pending"]
    BY <1>3 DEF Goto, IInv, TypeOK
  <2>3. req'[r].pc = "pending" /\ req'[r].op = "requestAi" /\ req'[r].doc = req[r].doc
    BY <1>3, <2>1, <2>2 DEF Request
  <2>4. RequestOK(r)'
    BY <1>3, <2>1, <2>3 DEF RequestOK, SetPages, Started
  <2> QED
    BY <1>1, <1>3, <2>4, QuietRequest DEF SetPages, Goto, IInv, TypeOK
<1> QED
  BY <1>2, <1>3 DEF SetPages, SetPagesFails

(* The request that makes the document PENDING owns it.                    *)
LEMMA MarkPendingStep ==
    ASSUME IInv, TypeOK', NEW r \in Requests, MarkPending(r)
    PROVE  IInv'
<1> USE DEF MarkPending, untouched
<1>1. /\ req[r] \in Request /\ req[r].pc = "pending" /\ req[r].op = "requestAi"
      /\ req[r].doc \in Docs /\ Started(req[r].doc)
  BY DEF IInv, TypeOK, RequestOK, At
<1>2. req'[r] = [req[r] EXCEPT !.pc = "push"]
  BY DEF Goto, IInv, TypeOK
<1>3. req'[r].pc = "push" /\ req'[r].op = "requestAi" /\ req'[r].doc = req[r].doc
  BY <1>1, <1>2 DEF Request
<1>4. \A q \in Requests \ {r} : req'[q] = req[q]
  BY DEF Goto, IInv, TypeOK
<1>5. \A d \in Docs : \/ status'[d] = status[d]
                      \/ d = req[r].doc /\ status'[d] = "PENDING"
  <2>1. status \in [Docs -> AiStatus \cup {"NONE", "DELETED"}]
    BY DEF IInv, TypeOK
  <2>2. CASE Exists(req[r].doc)
    <3>1. status' = [status EXCEPT ![req[r].doc] = "PENDING"]
      BY <2>2 DEF WithStatus
    <3> QED
      BY <2>1, <3>1
  <2>3. CASE ~Exists(req[r].doc)
    BY <2>3 DEF WithStatus
  <2> QED
    BY <2>2, <2>3
<1>6. StartsKept /\ JobsKept /\ ResultsKept /\ NoNewDone
  BY <1>5 DEF StartsKept, Started, JobsKept, ResultsKept, NoNewDone, IInv, TypeOK
<1>7. RequestOK(r)'
  BY <1>1, <1>3, <1>6 DEF RequestOK, StartsKept, Started
<1>8. \A q \in Requests : RequestOK(q)'
  BY <1>4, <1>6, <1>7, RequestUndisturbed
<1>9. Asking' \subseteq Asking
  BY <1>1, <1>4 DEF Asking
<1>10. JobsBounded'
  BY <1>9, BoundKept
<1>11. \A n \in 1..Len(jobs') : Started(jobs[n])'
  BY <1>6 DEF IInv, StartsKept, TypeOK
<1>12. InProgressIsOwned'
  <2> SUFFICES ASSUME crashes = 0, faults = 0, NEW d \in Docs, InProgress(d)'
               PROVE  Owned(d)'
    BY DEF InProgressIsOwned
  <2>1. CASE d = req[r].doc
    BY <1>3, <2>1 DEF Owned, At
  <2>2. CASE d # req[r].doc
    <3>1. InProgress(d)
      BY <1>5, <2>2 DEF InProgress, Requested
    <3>2. Owned(d)
      BY <3>1 DEF InProgressIsOwned, IInv
    <3> QED
      BY <1>1, <1>4, <3>2, OwnersKept DEF At, Working
  <2> QED
    BY <2>1, <2>2
<1> QED
  BY <1>6, <1>8, <1>10, <1>11, <1>12, ThreadsUndisturbed DEF IInv

(* The request hands its document over to the queue.                       *)
LEMMA PushStep ==
    ASSUME IInv, TypeOK', NEW r \in Requests, Push(r)
    PROVE  IInv'
<1> USE DEF Push, untouched
<1>1. /\ req[r].pc = "push" /\ req[r].op = "requestAi"
      /\ req[r].doc \in Docs /\ Started(req[r].doc)
  BY DEF IInv, RequestOK, At
<1>2. /\ jobs \in Seq(Docs) /\ Len(jobs) \in Nat /\ Len(jobs') = Len(jobs) + 1
      /\ jobs'[Len(jobs) + 1] = req[r].doc
      /\ \A n \in 1..Len(jobs) : jobs'[n] = jobs[n]
  BY <1>1 DEF IInv, TypeOK
<1>3. StartsKept /\ JobsKept /\ ResultsKept /\ NoNewDone
  BY <1>2 DEF StartsKept, Started, JobsKept, ResultsKept, NoNewDone
<1>4. \A q \in Requests : RequestOK(q)'
  BY <1>3, FinishOK, RequestUndisturbed
<1>5. JobsBounded'
  <2>1. IsFiniteSet(Asking) /\ r \in Asking
    BY <1>1, UploadAssumption, FS_Subset DEF Asking
  <2>2. Cardinality(Asking \ {r}) = Cardinality(Asking) - 1 /\ IsFiniteSet(Asking \ {r})
          /\ Cardinality(Asking) \in Nat
    BY <2>1, FS_RemoveElement, FS_CardinalityType
  <2>3. Asking' \subseteq Asking \ {r}
    BY FinishOK DEF Asking
  <2>4. Cardinality(Asking') <= Cardinality(Asking \ {r}) /\ Cardinality(Asking') \in Nat
    BY <2>2, <2>3, FS_Subset, FS_CardinalityType
  <2> QED
    BY <1>2, <2>2, <2>4, UploadAssumption DEF JobsBounded, IInv
<1>6. \A n \in 1..Len(jobs') : Started(jobs[n])'
  BY <1>1, <1>2 DEF IInv, Started
<1>7. InProgressIsOwned'
  <2> SUFFICES ASSUME crashes = 0, faults = 0, NEW d \in Docs, InProgress(d)'
               PROVE  Owned(d)'
    BY DEF InProgressIsOwned
  <2>0. taken \in Nat /\ taken <= Len(jobs)
    BY <1>2 DEF IInv, TypeOK
  <2>1. CASE d = req[r].doc
    <3>1. Len(jobs) + 1 \in (taken + 1)..Len(jobs')
      BY <1>2, <2>0
    <3> QED
      BY <1>2, <2>1, <3>1 DEF Owned
  <2>2. CASE d # req[r].doc
    <3>1. Requested(d)
      BY <1>2, <2>2 DEF InProgress, Requested
    <3>2. Owned(d)
      BY <3>1 DEF InProgress, InProgressIsOwned, IInv
    <3>3. CASE \E q \in Requests : At(q, "push") /\ req[q].doc = d
      BY <2>2, <3>3, FinishOK DEF Owned, At
    <3>4. CASE \E n \in (taken + 1)..Len(jobs) : jobs[n] = d
      <4>1. PICK n \in (taken + 1)..Len(jobs) : jobs[n] = d
        BY <3>4
      <4>2. n \in (taken + 1)..Len(jobs') /\ jobs'[n] = d
        BY <1>2, <2>0, <4>1
      <4> QED
        BY <4>2 DEF Owned
    <3>5. CASE \E w \in Workers : ~Working(w, "idle") /\ DocOf(w) = d
      <4>1. PICK w \in Workers : ~Working(w, "idle") /\ DocOf(w) = d
        BY <3>5
      <4>2. worker[w].job \in 1..Len(jobs)
        BY <2>0, <1>2, <4>1 DEF IInv, WorkerOK
      <4>3. ~Working(w, "idle")' /\ DocOf(w)' = d
        BY <1>2, <4>1, <4>2 DEF Working, DocOf
      <4> QED
        BY <4>3 DEF Owned
    <3> QED
      BY <3>2, <3>3, <3>4, <3>5 DEF Owned
  <2> QED
    BY <2>1, <2>2
<1> QED
  BY <1>3, <1>4, <1>5, <1>6, <1>7, ThreadsUndisturbed DEF IInv

LEMMA StartRequestStep ==
    ASSUME IInv, TypeOK', NEW r \in Requests, StartRequest(r)
    PROVE  IInv'
<1>1. ASSUME NEW d \in Docs, NEW pages \in [Files -> PageNo],
             Reorder(r, d, pages) \/ RequestAi(r, d, pages)
      PROVE  IInv'
  BY <1>1, StartOrderStep DEF Reorder, RequestAi
<1> QED
  BY <1>1, UploadStep, DeleteStep, DeleteSavedStep DEF StartRequest

-----------------------------------------------------------------------------
(* Steps of threads                                                        *)

(* Requests do not notice what threads and the cleanup do.                 *)
LEMMA RequestsUndisturbed ==
    ASSUME IInv, UNCHANGED <<jobs, req>>, StartsKept,
           \A k \in SavedId : saved[k].state # "NONE" => saved'[k].state # "NONE"
    PROVE  /\ JobsBounded' /\ \A n \in 1..Len(jobs') : Started(jobs[n])'
           /\ \A r \in Requests : RequestOK(r)'
<1>1. JobsBounded'
  BY BoundKept DEF Asking
<1>2. \A n \in 1..Len(jobs') : Started(jobs[n])'
  BY DEF IInv, StartsKept, TypeOK
<1>3. \A r \in Requests : RequestOK(r)'
  BY RequestUndisturbed
<1> QED
  BY <1>1, <1>2, <1>3

(* A thread moves on with its job and saves nothing.                       *)
LEMMA QuietThread ==
    ASSUME IInv, TypeOK', NEW w \in Workers, UNCHANGED <<jobs, taken, saved, req, crashes>>,
           ~Working(w, "idle"), worker'[w].pc # "idle", worker'[w].job = worker[w].job,
           WorkerOK(w)', \A v \in Workers \ {w} : worker'[v] = worker[v],
           \A d \in Docs : \/ status'[d] = status[d]
                           \/ d = DocOf(w) /\ Started(d) /\ status'[d] = "PROCESSING",
           faults' = faults \/ faults' = faults + 1
    PROVE  IInv'
<1>1. StartsKept /\ JobsKept /\ NoNewDone
  BY DEF StartsKept, Started, JobsKept, NoNewDone
<1>2. \A v \in Workers : WorkerOK(v)'
  BY DEF IInv, WorkerOK, Working
<1>3. JobsApart'
  BY DEF IInv, JobsApart, Working
<1>4. ResultsApart' /\ DoneIsSaved'
  BY <1>1 DEF IInv, ResultsApart, DoneIsSaved, NoNewDone
<1>5. InProgressIsOwned'
  <2> SUFFICES ASSUME crashes = 0, faults' = faults, faults = 0, NEW d \in Docs, InProgress(d)'
               PROVE  Owned(d)'
    BY FaultOwned DEF InProgressIsOwned, IInv
  <2>1. CASE d = DocOf(w)
    BY <2>1 DEF Owned, Working, DocOf
  <2>2. CASE d # DocOf(w)
    <3>1. InProgress(d)
      BY <2>2 DEF InProgress, Requested
    <3>2. Owned(d)
      BY <3>1 DEF InProgressIsOwned, IInv
    <3> QED
      BY <3>2, OwnersKept DEF Working
  <2> QED
    BY <2>1, <2>2
<1> QED
  BY <1>1, <1>2, <1>3, <1>4, <1>5, RequestsUndisturbed DEF IInv

LEMMA ProceedOK ==
    ASSUME IInv, NEW w \in Workers, NEW pc, Proceed(w, pc), UNCHANGED <<taken, saved>>,
           ~Working(w, "idle"), pc \notin {"idle", "begin", "ocr"},
           pc = "files" => worker[w].pc = "begin",
           pc = "save" => worker[w].pc = "ocr",
           pc \in {"activity", "done"} => worker[w].pc = "activity"
    PROVE  /\ WorkerOK(w)' /\ worker'[w].pc = pc /\ worker'[w].job = worker[w].job
           /\ \A v \in Workers \ {w} : worker'[v] = worker[v]
<1>1. worker[w] \in Analysis /\ WorkerOK(w)
  BY DEF IInv, TypeOK
<1>2. worker'[w] = [worker[w] EXCEPT !.pc = pc]
  BY DEF Proceed, IInv, TypeOK
<1>3. /\ worker'[w].pc = pc /\ worker'[w].job = worker[w].job
      /\ worker'[w].row = worker[w].row /\ worker'[w].first = worker[w].first
  BY <1>1, <1>2 DEF Analysis
<1>4. WorkerOK(w)'
  BY <1>1, <1>3 DEF WorkerOK, Working, Unsaved
<1> QED
  BY <1>3, <1>4 DEF Proceed, IInv, TypeOK

LEMMA AnalyseStep ==
    ASSUME IInv, TypeOK', NEW w \in Workers,
           \/ Begin(w) \/ ReadFiles(w) \/ NoFilesLeft(w) \/ Recognise(w) \/ Reject(w)
           \/ AddActivity(w) \/ StatementFails(w)
    PROVE  IInv'
<1> USE DEF api
<1>1. CASE Begin(w)
  <2>1. /\ WorkerOK(w)' /\ worker'[w].pc # "idle" /\ worker'[w].job = worker[w].job
        /\ \A v \in Workers \ {w} : worker'[v] = worker[v]
    BY <1>1, ProceedOK DEF Begin, Working
  <2>2. status \in [Docs -> AiStatus \cup {"NONE", "DELETED"}]
    BY DEF IInv, TypeOK
  <2>3. \A d \in Docs : \/ status'[d] = status[d]
                        \/ d = DocOf(w) /\ Started(d) /\ status'[d] = "PROCESSING"
    <3>1. CASE Exists(DocOf(w))
      <4>1. status' = [status EXCEPT ![DocOf(w)] = "PROCESSING"]
        BY <1>1, <3>1 DEF Begin, WithStatus
      <4> QED
        BY <2>2, <3>1, <4>1 DEF Exists, Started, AiStatus
    <3>2. CASE ~Exists(DocOf(w))
      BY <1>1, <3>2 DEF Begin, WithStatus
    <3> QED
      BY <3>1, <3>2
  <2> QED
    BY <1>1, <2>1, <2>3, QuietThread DEF Begin, Working
<1>2. CASE ReadFiles(w)
  <2>1. worker[w] \in Analysis /\ WorkerOK(w)
    BY DEF IInv, TypeOK
  <2>2. PICK f \in FilesOf(DocOf(w)) :
          worker' = [worker EXCEPT ![w].pc = "ocr", ![w].files = FilesOf(DocOf(w)),
                                   ![w].first = f]
    BY <1>2 DEF ReadFiles
  <2>3. f \in Files
    BY DEF FilesOf
  <2>4. worker'[w] = [worker[w] EXCEPT !.pc = "ocr", !.files = FilesOf(DocOf(w)), !.first = f]
    BY <2>2 DEF IInv, TypeOK
  <2>5. /\ worker'[w].pc = "ocr" /\ worker'[w].job = worker[w].job /\ worker'[w].first = f
        /\ \A v \in Workers \ {w} : worker'[v] = worker[v]
    BY <2>1, <2>2, <2>4 DEF Analysis, IInv, TypeOK
  <2>6. WorkerOK(w)'
    BY <1>2, <2>1, <2>3, <2>5 DEF WorkerOK, ReadFiles, Working, Unsaved
  <2> QED
    BY <1>2, <2>5, <2>6, QuietThread DEF ReadFiles, Working
<1>3. CASE NoFilesLeft(w) \/ Recognise(w) \/ Reject(w) \/ AddActivity(w) \/ StatementFails(w)
  <2>1. /\ WorkerOK(w)' /\ worker'[w].pc # "idle" /\ worker'[w].job = worker[w].job
        /\ \A v \in Workers \ {w} : worker'[v] = worker[v]
    BY <1>3, ProceedOK
       DEF NoFilesLeft, Recognise, Reject, AddActivity, StatementFails, Working, WorkerPc
  <2> QED
    BY <1>3, <2>1, QuietThread
       DEF NoFilesLeft, Recognise, Reject, AddActivity, StatementFails, Working, WorkerPc
<1> QED
  BY <1>1, <1>2, <1>3

(* The job that a thread takes is new to all others and to the results.    *)
LEMMA PopStep ==
    ASSUME IInv, TypeOK', NEW w \in Workers, Pop(w)
    PROVE  IInv'
<1> USE DEF Pop, api
<1>1. /\ taken \in Nat /\ taken' = taken + 1 /\ taken + 1 \in 1..taken'
      /\ Len(jobs) \in Nat /\ taken < Len(jobs) /\ 1..taken \subseteq 1..taken'
  BY DEF IInv, TypeOK
<1>2. /\ worker'[w] = [IdleWorker EXCEPT !.pc = "begin", !.job = taken + 1]
      /\ \A v \in Workers \ {w} : worker'[v] = worker[v]
  BY DEF IInv, TypeOK
<1>3. worker'[w].pc = "begin" /\ worker'[w].job = taken + 1
  BY <1>2 DEF IdleWorker
<1>4. \A k \in SavedId : saved[k].job \in 1..taken \cup {0}
  BY DEF IInv, ResultsApart, NoId
<1>5. ASSUME NEW v \in Workers \ {w}, ~Working(v, "idle") PROVE worker[v].job \in 1..taken
  BY <1>5 DEF IInv, WorkerOK
<1>6. StartsKept /\ NoNewDone
  BY DEF StartsKept, Started, NoNewDone
<1>7. ASSUME NEW v \in Workers PROVE WorkerOK(v)'
  <2>1. CASE v = w
    BY <1>1, <1>3, <1>4, <2>1 DEF WorkerOK, Working
  <2>2. CASE v # w
    BY <1>1, <1>2, <2>2 DEF IInv, WorkerOK, Working
  <2> QED
    BY <2>1, <2>2
<1>8. JobsApart'
  <2> SUFFICES ASSUME NEW u \in Workers, NEW v \in Workers, ~Working(u, "idle")',
                      ~Working(v, "idle")', worker'[u].job = worker'[v].job
               PROVE  u = v
    BY DEF JobsApart
  <2>1. taken + 1 \notin 1..taken
    BY <1>1
  <2>2. CASE u = w \/ v = w
    BY <1>2, <1>3, <1>5, <2>1, <2>2 DEF Working
  <2>3. CASE u # w /\ v # w
    BY <1>2, <2>3 DEF IInv, JobsApart, Working
  <2> QED
    BY <2>2, <2>3
<1>9. ResultsApart' /\ DoneIsSaved'
  BY <1>1 DEF IInv, ResultsApart, DoneIsSaved
<1>10. InProgressIsOwned'
  <2> SUFFICES ASSUME crashes = 0, faults = 0, NEW d \in Docs, InProgress(d)
               PROVE  Owned(d)'
    BY DEF InProgressIsOwned, InProgress, Requested
  <2>1. Owned(d)
    BY DEF InProgressIsOwned, IInv
  <2>2. CASE \E r \in Requests : At(r, "push") /\ req[r].doc = d
    BY <2>2 DEF Owned, At
  <2>3. CASE \E n \in (taken + 1)..Len(jobs) : jobs[n] = d
    <3>1. PICK n \in (taken + 1)..Len(jobs) : jobs[n] = d
      BY <2>3
    <3>2. CASE n = taken + 1
      BY <1>3, <3>1, <3>2 DEF Owned, Working, DocOf
    <3>3. CASE n # taken + 1
      <4>1. n \in (taken' + 1)..Len(jobs)
        BY <1>1, <3>1, <3>3
      <4> QED
        BY <3>1, <4>1 DEF Owned
    <3> QED
      BY <3>2, <3>3
  <2>4. CASE \E v \in Workers : ~Working(v, "idle") /\ DocOf(v) = d
    BY <1>2, <2>4 DEF Owned, Working, DocOf
  <2> QED
    BY <2>1, <2>2, <2>3, <2>4 DEF Owned
<1> QED
  BY <1>6, <1>7, <1>8, <1>9, <1>10, RequestsUndisturbed DEF IInv

(* The row that a thread inserts is the first for its job.                 *)
LEMMA SaveStep ==
    ASSUME IInv, TypeOK', NEW w \in Workers, NEW kind, NEW files,
           NEW next \in {"activity", "done"}, Save(w, kind, files, next)
    PROVE  IInv'
<1> USE DEF api
<1>1. worker[w] \in Analysis /\ WorkerOK(w) /\ worker[w].pc = "save"
  BY DEF IInv, TypeOK, Save, Working
<1> DEFINE row == [state |-> "SAVED", kind |-> kind, job |-> worker[w].job, files |-> files,
                   bytes |-> Cardinality(worker[w].files)]
<1>2. PICK k \in FreshSaved :
        /\ saved' = [saved EXCEPT ![k] = row]
        /\ worker' = [worker EXCEPT ![w].pc = next, ![w].row = k]
  BY DEF Save
<1>3. k \in SavedId /\ saved[k].state = "NONE"
  BY DEF FreshSaved
<1>4. /\ saved'[k].state = "SAVED" /\ saved'[k].job = worker[w].job
      /\ \A i \in SavedId \ {k} : saved'[i] = saved[i]
  BY <1>2, <1>3 DEF IInv, TypeOK
<1>5. worker'[w] = [worker[w] EXCEPT !.pc = next, !.row = k]
  BY <1>2 DEF IInv, TypeOK
<1>6. /\ worker'[w].pc = next /\ worker'[w].row = k /\ worker'[w].job = worker[w].job
      /\ \A v \in Workers \ {w} : worker'[v] = worker[v]
  BY <1>1, <1>2, <1>5 DEF Analysis, IInv, TypeOK
<1>7. worker[w].job \in 1..taken /\ \A i \in SavedId : saved[i].job # worker[w].job
  BY <1>1 DEF WorkerOK, Working, Unsaved
<1>8. UNCHANGED <<status, jobs, taken, req, crashes, faults>>
  BY DEF Save
<1>9. StartsKept
  BY <1>8 DEF StartsKept, Started
<1>10. ASSUME NEW v \in Workers PROVE WorkerOK(v)'
  <2>1. CASE v = w
    BY <1>3, <1>4, <1>6, <1>7, <1>8, <2>1 DEF WorkerOK, Working, Unsaved
  <2>2. CASE v # w
    <3>1. WorkerOK(v) /\ worker'[v] = worker[v]
      BY <1>6, <2>2 DEF IInv
    <3>2. worker[v].pc \in Unsaved => worker[v].job # worker[w].job
      BY <1>1, <2>2 DEF IInv, JobsApart, Working, Unsaved
    <3> QED
      BY <1>3, <1>4, <1>8, <3>1, <3>2 DEF WorkerOK, Working
  <2> QED
    BY <2>1, <2>2
<1>11. JobsApart'
  BY <1>1, <1>6 DEF IInv, JobsApart, Working
<1>12. ResultsApart'
  <2>1. \A i \in SavedId : IF saved'[i].state = "NONE" THEN saved'[i].job = NoId
                                                      ELSE saved'[i].job \in 1..taken
    BY <1>4, <1>7 DEF IInv, ResultsApart
  <2>2. \A i, j \in SavedId : saved'[i].job # NoId /\ saved'[i].job = saved'[j].job => i = j
    BY <1>4, <1>7 DEF IInv, ResultsApart
  <2> QED
    BY <1>8, <2>1, <2>2 DEF ResultsApart
<1>13. DoneIsSaved'
  BY <1>3, <1>4, <1>8 DEF IInv, DoneIsSaved
<1>14. InProgressIsOwned'
  BY <1>1, <1>6, <1>8, QuietOwned DEF Working
<1> QED
  BY <1>4, <1>8, <1>9, <1>10, <1>11, <1>12, <1>13, <1>14, RequestsUndisturbed DEF IInv

(* A thread gives its document a final status and lets go of its job.      *)
LEMMA CloseStep ==
    ASSUME IInv, TypeOK', NEW w \in Workers, MarkDone(w) \/ MarkFailed(w) \/ MarkFailedFails(w)
    PROVE  IInv'
<1> USE DEF api
<1>1. /\ ~Working(w, "idle") /\ WorkerOK(w) /\ worker[w].job \in 1..Len(jobs)
      /\ UNCHANGED <<jobs, taken, saved, req, crashes>>
      /\ worker' = [worker EXCEPT ![w] = IdleWorker]
  BY DEF MarkDone, MarkFailed, MarkFailedFails, Close, Working, IInv, TypeOK, WorkerOK
<1>2. worker'[w].pc = "idle" /\ \A v \in Workers \ {w} : worker'[v] = worker[v]
  BY <1>1 DEF IdleWorker, IInv, TypeOK
<1>3. Started(DocOf(w))
  BY <1>1 DEF IInv, DocOf
<1>4. status \in [Docs -> AiStatus \cup {"NONE", "DELETED"}]
  BY DEF IInv, TypeOK
<1>5. \A d \in Docs : \/ status'[d] = status[d] /\ (d # DocOf(w) \/ ~Exists(d) \/ MarkFailedFails(w))
                      \/ d = DocOf(w) /\ MarkDone(w) /\ status'[d] = "DONE"
                      \/ d = DocOf(w) /\ MarkFailed(w) /\ status'[d] = "FAILED"
  <2>1. ASSUME NEW s, status' = WithStatus(DocOf(w), s), NEW d \in Docs
        PROVE  \/ status'[d] = status[d] /\ (d # DocOf(w) \/ ~Exists(d))
               \/ d = DocOf(w) /\ status'[d] = s
    BY <1>4, <2>1 DEF WithStatus
  <2> QED
    BY <2>1 DEF MarkDone, MarkFailed, MarkFailedFails, Close
<1>6. StartsKept
  BY <1>5 DEF StartsKept, Started
<1>7. \A v \in Workers : WorkerOK(v)'
  BY <1>1, <1>2 DEF IInv, WorkerOK, Working, Unsaved
<1>8. JobsApart' /\ ResultsApart'
  BY <1>1, <1>2 DEF IInv, JobsApart, Working, ResultsApart
<1>9. DoneIsSaved'
  <2> SUFFICES ASSUME NEW d \in Docs, status'[d] = "DONE"
               PROVE  \E k \in SavedId : saved[k].state # "NONE" /\ jobs[saved[k].job] = d
    BY <1>1 DEF DoneIsSaved
  <2>1. CASE status[d] = "DONE"
    BY <2>1 DEF IInv, DoneIsSaved
  <2>2. CASE d = DocOf(w) /\ MarkDone(w)
    BY <1>1, <2>2 DEF MarkDone, WorkerOK, Working, DocOf
  <2> QED
    BY <1>5, <2>1, <2>2
<1>10. InProgressIsOwned'
  <2>1. CASE faults' = faults + 1
    BY <2>1, FaultOwned DEF IInv
  <2>2. CASE MarkDone(w) \/ MarkFailed(w)
    <3> SUFFICES ASSUME crashes = 0, faults = 0, NEW d \in Docs, InProgress(d)'
                 PROVE  Owned(d)'
      BY <2>2 DEF InProgressIsOwned, MarkDone, MarkFailed, Close
    <3>1. d # DocOf(w) /\ InProgress(d)
      <4>1. Requested(d) /\ status'[d] \in {"PENDING", "PROCESSING"}
        BY <1>1 DEF InProgress, Requested
      <4>2. d = DocOf(w) => Exists(d) /\ ~MarkFailedFails(w)
        BY <1>3, <1>5, <2>2, <4>1
           DEF Exists, AiStatus, Started, MarkDone, MarkFailed, Close, MarkFailedFails, TypeOK,
               IInv
      <4> QED
        BY <1>5, <4>1, <4>2 DEF InProgress
    <3>2. Owned(d)
      BY <3>1 DEF InProgressIsOwned, IInv
    <3> QED
      BY <1>1, <1>2, <3>1, <3>2 DEF Owned, At, Working, DocOf
  <2> QED
    BY <2>1, <2>2 DEF MarkFailedFails
<1> QED
  BY <1>1, <1>6, <1>7, <1>8, <1>9, <1>10, RequestsUndisturbed DEF IInv

LEMMA ThreadStep ==
    ASSUME IInv, TypeOK', NEW w \in Workers, Pop(w) \/ AnalysisStep(w) \/ WorkerFault(w)
    PROVE  IInv'
BY PopStep, AnalyseStep, SaveStep, CloseStep
   DEF AnalysisStep, WorkerFault, SaveDocument, SaveReceipt

-----------------------------------------------------------------------------
(* Steps of the cleanup and the environment                                *)

(* A step that neither threads nor requests notice.                        *)
LEMMA QuietEnvironment ==
    ASSUME IInv, TypeOK', UNCHANGED <<jobs, taken, saved, req, worker>>,
           \A d \in Docs : Started(d) => status'[d] \in {status[d], "DELETED"},
           \A d \in Docs : status'[d] = "DONE" => status[d] = "DONE",
           \/ UNCHANGED <<crashes, faults>>
           \/ crashes' = crashes + 1
           \/ faults' = faults + 1
    PROVE  IInv'
<1>1. StartsKept /\ JobsKept /\ ResultsKept /\ NoNewDone
  BY DEF StartsKept, Started, JobsKept, ResultsKept, NoNewDone, IInv, TypeOK
<1>2. InProgressIsOwned'
  <2>1. CASE UNCHANGED <<crashes, faults>>
    BY <2>1, QuietOwned DEF At, Working
  <2> QED
    BY <2>1, FaultOwned DEF IInv
<1> QED
  BY <1>1, <1>2, ThreadsUndisturbed, RequestsUndisturbed DEF IInv

LEMMA EnvironmentStep ==
    ASSUME IInv, TypeOK',
           \/ \E d \in Docs : StartUpload(d) \/ Age(d)
           \/ WorkerRestart \/ CleanupStep \/ CleanupFails \/ UNCHANGED vars
    PROVE  IInv'
<1>1. ASSUME NEW d \in Docs, StartUpload(d) PROVE IInv'
  BY <1>1, QuietEnvironment DEF StartUpload, untouched, Started, IInv, TypeOK
<1>2. ASSUME NEW d \in Docs, Age(d) PROVE IInv'
  BY <1>2, QuietEnvironment DEF Age
<1>3. CASE WorkerRestart
  <2>1. \A w \in Workers : worker'[w].pc = "idle"
    BY <1>3 DEF WorkerRestart, IdleWorker
  <2>2. \A w \in Workers : WorkerOK(w)'
    BY <2>1 DEF WorkerOK, Working, Unsaved
  <2>3. JobsApart'
    BY <2>1 DEF JobsApart, Working
  <2>4. ResultsApart' /\ DoneIsSaved' /\ StartsKept
    BY <1>3 DEF WorkerRestart, api, IInv, ResultsApart, DoneIsSaved, StartsKept, Started
  <2>5. InProgressIsOwned'
    BY <1>3, FaultOwned DEF WorkerRestart, IInv
  <2> QED
    BY <1>3, <2>2, <2>3, <2>4, <2>5, RequestsUndisturbed DEF WorkerRestart, api, IInv
<1>4. CASE CleanupStep
  <2>1. CASE DropExpiredDocs
    BY <2>1, QuietEnvironment DEF DropExpiredDocs, IInv, TypeOK
  <2>2. CASE SelectExpired \/ DropExpiredRows
    BY <2>2, QuietEnvironment DEF SelectExpired, DropExpiredRows
  <2> QED
    BY <1>4, <2>1, <2>2 DEF CleanupStep
<1>5. CASE CleanupFails \/ UNCHANGED vars
  BY <1>5, QuietEnvironment DEF CleanupFails, vars
<1> QED
  BY <1>1, <1>2, <1>3, <1>4, <1>5

-----------------------------------------------------------------------------
(* The invariant                                                           *)

LEMMA InitIInv == Init => IInv
<1> SUFFICES ASSUME Init PROVE IInv
  OBVIOUS
<1> USE DEF Init
<1>1. TypeOK
  BY InitTypeOK
<1>2. JobsBounded
  <2>1. Asking = {}
    BY DEF Asking, IdleRequest
  <2> QED
    BY <2>1, FS_EmptySet, UploadAssumption DEF JobsBounded
<1>3. \A r \in Requests : RequestOK(r)
  BY DEF RequestOK, IdleRequest
<1>4. \A w \in Workers : WorkerOK(w)
  BY DEF WorkerOK, Working, IdleWorker, Unsaved
<1>5. JobsApart /\ ResultsApart
  BY DEF JobsApart, Working, IdleWorker, ResultsApart, NotSaved
<1>6. DoneIsSaved /\ InProgressIsOwned
  BY DEF DoneIsSaved, InProgressIsOwned, InProgress
<1> QED
  BY <1>1, <1>2, <1>3, <1>4, <1>5, <1>6 DEF IInv

LEMMA NextIInv == IInv /\ [Next]_vars => IInv'
<1> SUFFICES ASSUME IInv, [Next]_vars PROVE IInv'
  OBVIOUS
<1>1. TypeOK'
  BY NextTypeOK
<1>2. ASSUME NEW r \in Requests, StartRequest(r) \/ HandlerStep(r) \/ HandlerFault(r)
      PROVE  IInv'
  BY <1>1, <1>2, StartRequestStep, UploadStep, SetPagesStep, MarkPendingStep, PushStep, DeleteStep,
     DeleteSavedStep DEF HandlerStep, HandlerFault
<1> QED
  BY <1>1, <1>2, ThreadStep, EnvironmentStep DEF Next

(* In every behaviour of the pipeline, what threads and requests know of   *)
(* their jobs and documents stays true: the inductive invariant.           *)
THEOREM OcrInductiveInvariant == Spec => []IInv
<1>1. Init => IInv
  BY InitIInv
<1>2. IInv /\ [Next]_vars => IInv'
  BY NextIInv
<1> QED
  BY <1>1, <1>2, PTL DEF Spec

(* Every table, queue and record of the pipeline keeps its type; in        *)
(* particular no more jobs are pushed than the requests have announced.    *)
THEOREM OcrTypeCorrect == Spec => []TypeOK
<1>1. IInv => TypeOK
  BY DEF IInv
<1> QED
  BY <1>1, OcrInductiveInvariant, PTL

(* A document that the client sees as DONE has a saved result, whatever    *)
(* requests, threads, failures and restarts of the worker overlapped.      *)
THEOREM DoneHasResult == Spec => []DoneIsSaved
<1>1. IInv => DoneIsSaved
  BY DEF IInv
<1> QED
  BY <1>1, OcrInductiveInvariant, PTL

(* As long as nothing has failed, a document in progress is about to be    *)
(* pushed, in the queue or in a thread: the polling of the client waits    *)
(* for somebody.                                                           *)
THEOREM NoOrphans == Spec => []InProgressIsOwned
<1>1. IInv => InProgressIsOwned
  BY DEF IInv
<1> QED
  BY <1>1, OcrInductiveInvariant, PTL

-----------------------------------------------------------------------------
(* Images of the rows                                                      *)

Others(r) == \A q \in Requests \ {r} : req'[q] = req[q]

LEMMA IdleStores ==
    ASSUME NEW rows, NEW keys, NEW images
    PROVE  /\ RequestStores(IdleRequest, rows, keys, images)
           /\ ~Uploads(IdleRequest) /\ ToDelete(IdleRequest) = {}
BY DEF RequestStores, IdleRequest, Uploads, ToDelete

(* A request does not notice that rows go away, nor what happens to images *)
(* that are not its own.                                                   *)
LEMMA StoresUndisturbed ==
    ASSUME NEW q, NEW rows, NEW keys, NEW images, NEW rows2, NEW keys2, NEW images2,
           RequestStores(q, rows, keys, images), keys \subseteq keys2,
           \A f : f \in ToDelete(q) \/ (Uploads(q) /\ f = q.file) =>
                    rows2[f].doc \in {rows[f].doc, NoDoc},
           q.pc = "insert" /\ q.file \in images => q.file \in images2
    PROVE  RequestStores(q, rows2, keys2, images2)
BY DEF RequestStores, Uploads

(* A step of one request that stores no image and inserts no row.          *)
LEMMA QuietStores ==
    ASSUME StoredInv, NEW r \in Requests, Others(r), uploaded' = uploaded, s3' = s3,
           \A f \in Files : tempFile'[f].doc \in {tempFile[f].doc, NoDoc},
           RequestStores(req'[r], tempFile', uploaded', s3'),
           Uploads(req'[r]) => Uploads(req[r]) /\ req'[r].file = req[r].file,
           \A f \in ToDelete(req'[r]) : f \in ToDelete(req[r]) \/ tempFile[f].doc # NoDoc,
           \A q \in Requests : Uploads(req[q]) => req[q].file \in Files
    PROVE  StoredInv'
<1>1. \A f \in Files : tempFile'[f].doc # NoDoc => f \in uploaded' /\ f \in s3'
  BY DEF StoredInv
<1>2. ASSUME NEW q \in Requests PROVE RequestStores(req'[q], tempFile', uploaded', s3')
  <2>1. CASE q # r
    <3>1. req'[q] = req[q] /\ RequestStores(req[q], tempFile, uploaded, s3)
      BY <2>1 DEF Others, StoredInv
    <3>2. \A f : f \in ToDelete(req[q]) \/ (Uploads(req[q]) /\ f = req[q].file) =>
                    tempFile'[f].doc \in {tempFile[f].doc, NoDoc}
      BY DEF ToDelete
    <3> QED
      BY <3>1, <3>2, StoresUndisturbed
  <2> QED
    BY <2>1
<1>3. UploadsApart'
  <2> SUFFICES ASSUME NEW p \in Requests, NEW q \in Requests, Uploads(req'[p])
               PROVE  /\ req'[p].file \notin ToDelete(req'[q])
                      /\ Uploads(req'[q]) /\ req'[q].file = req'[p].file => p = q
    BY DEF UploadsApart
  <2>1. Uploads(req[p]) /\ req'[p].file = req[p].file /\ tempFile[req[p].file].doc = NoDoc
    BY DEF Others, StoredInv, RequestStores
  <2>2. /\ ToDelete(req'[q]) \subseteq ToDelete(req[q]) \cup {f \in Files : tempFile[f].doc # NoDoc}
        /\ Uploads(req'[q]) => Uploads(req[q]) /\ req'[q].file = req[q].file
    BY DEF Others, ToDelete
  <2> QED
    BY <2>1, <2>2 DEF StoredInv, UploadsApart
<1> QED
  BY <1>1, <1>2, <1>3 DEF StoredInv

LEMMA FinishStores ==
    ASSUME IInv, StoredInv, NEW r \in Requests, Finish(r), uploaded' = uploaded, s3' = s3,
           \A f \in Files : tempFile'[f].doc \in {tempFile[f].doc, NoDoc}
    PROVE  StoredInv'
<1>1. req'[r] = IdleRequest /\ Others(r)
  BY DEF Finish, Others, IInv, TypeOK
<1>2. \A q \in Requests : Uploads(req[q]) => req[q].file \in Files
  BY DEF IInv, RequestOK, Uploads
<1> QED
  BY <1>1, <1>2, IdleStores, QuietStores

(* A request goes on to something that is no upload and no deletion.       *)
LEMMA PassStores ==
    ASSUME IInv, StoredInv, NEW r \in Requests, NEW q, req' = [req EXCEPT ![r] = q],
           q.pc \in {"pages", "pending", "push", "readRows", "dropDoc"}, q.op # "deleteSaved",
           q.pc = "readRows" => q.doc # NoDoc,
           uploaded' = uploaded, s3' = s3,
           \A f \in Files : tempFile'[f].doc \in {tempFile[f].doc, NoDoc}
    PROVE  StoredInv'
<1>1. req'[r] = q /\ Others(r)
  BY DEF Others, IInv, TypeOK
<1>2. \A p \in Requests : Uploads(req[p]) => req[p].file \in Files
  BY DEF IInv, RequestOK, Uploads
<1>3. /\ RequestStores(q, tempFile', uploaded', s3')
      /\ ~Uploads(q) /\ ToDelete(q) = {}
  BY DEF RequestStores, Uploads, ToDelete
<1> QED
  BY <1>1, <1>2, <1>3, QuietStores

(* A request goes on to delete images.                                     *)
LEMMA DeletingStores ==
    ASSUME IInv, StoredInv, NEW r \in Requests, NEW q, req' = [req EXCEPT ![r] = q],
           q.pc \in {"dropRows", "images", "deleteImage"},
           RequestStores(q, tempFile', uploaded', s3'),
           uploaded' = uploaded, s3' = s3,
           \A f \in Files : tempFile'[f].doc \in {tempFile[f].doc, NoDoc},
           \A f \in ToDelete(q) : f \in ToDelete(req[r]) \/ tempFile[f].doc # NoDoc
    PROVE  StoredInv'
<1>1. req'[r] = q /\ Others(r)
  BY DEF Others, IInv, TypeOK
<1>2. \A p \in Requests : Uploads(req[p]) => req[p].file \in Files
  BY DEF IInv, RequestOK, Uploads
<1>3. ~Uploads(q)
  BY DEF Uploads
<1> QED
  BY <1>1, <1>2, <1>3, QuietStores

LEMMA UploadStores ==
    ASSUME IInv, StoredInv, NEW r \in Requests, NEW d \in Docs, NEW f \in Files, NEW n \in PageNo,
           Upload(r, d, f, n)
    PROVE  StoredInv'
<1>1. /\ f \notin uploaded /\ uploaded' = uploaded \cup {f} /\ tempFile' = tempFile /\ s3' = s3
      /\ req' = [req EXCEPT ![r] = [IdleRequest EXCEPT !.op = "upload", !.pc = "put",
                                    !.doc = d, !.file = f, !.page = n]]
  BY DEF Upload
<1>2. Others(r) /\ req'[r] = [IdleRequest EXCEPT !.op = "upload", !.pc = "put",
                                    !.doc = d, !.file = f, !.page = n]
  BY <1>1 DEF Others, IInv, TypeOK
<1>3. req'[r].op = "upload" /\ req'[r].pc = "put" /\ req'[r].file = f /\ req'[r].files = {}
  BY <1>2 DEF IdleRequest
<1>4. tempFile[f].doc = NoDoc
  BY <1>1 DEF StoredInv
<1>5. Uploads(req'[r]) /\ ToDelete(req'[r]) = {}
  BY <1>3 DEF Uploads, ToDelete
<1>6. RequestStores(req'[r], tempFile', uploaded', s3')
  BY <1>1, <1>3, <1>4, <1>5 DEF RequestStores, Uploads
<1>7. ASSUME NEW q \in Requests PROVE RequestStores(req'[q], tempFile', uploaded', s3')
  <2>1. CASE q # r
    <3>1. req'[q] = req[q] /\ RequestStores(req[q], tempFile, uploaded, s3)
      BY <1>2, <2>1 DEF Others, StoredInv
    <3> QED
      BY <1>1, <3>1, StoresUndisturbed
  <2> QED
    BY <1>6, <2>1
<1>8. \A q \in Requests : f \notin ToDelete(req[q]) /\ (Uploads(req[q]) => req[q].file # f)
  BY <1>1 DEF StoredInv, RequestStores
<1>9. UploadsApart'
  <2> SUFFICES ASSUME NEW p \in Requests, NEW q \in Requests, Uploads(req'[p])
               PROVE  /\ req'[p].file \notin ToDelete(req'[q])
                      /\ Uploads(req'[q]) /\ req'[q].file = req'[p].file => p = q
    BY DEF UploadsApart
  <2>1. CASE p = r
    BY <1>2, <1>3, <1>5, <1>8, <2>1 DEF Others
  <2>2. CASE p # r
    <3>1. req'[p] = req[p] /\ Uploads(req[p]) /\ req[p].file # f
      BY <1>2, <1>8, <2>2 DEF Others
    <3>2. CASE q = r
      BY <1>3, <1>5, <3>1, <3>2
    <3>3. CASE q # r
      <4>1. req'[q] = req[q]
        BY <1>2, <3>3 DEF Others
      <4> QED
        BY <3>1, <4>1 DEF StoredInv, UploadsApart
    <3> QED
      BY <3>2, <3>3
  <2> QED
    BY <2>1, <2>2
<1> QED
  BY <1>1, <1>7, <1>9 DEF StoredInv

LEMMA PutStores ==
    ASSUME IInv, StoredInv, NEW r \in Requests, PutImage(r)
    PROVE  StoredInv'
<1>1. /\ req[r].pc = "put" /\ s3' = s3 \cup {req[r].file} /\ uploaded' = uploaded
      /\ tempFile' = tempFile /\ req' = [req EXCEPT ![r].pc = "insert"]
  BY DEF PutImage, At, Goto
<1>2. Others(r) /\ req'[r] = [req[r] EXCEPT !.pc = "insert"] /\ req[r] \in Request
  BY <1>1 DEF Others, IInv, TypeOK
<1>3. req'[r].op = req[r].op /\ req'[r].pc = "insert" /\ req'[r].file = req[r].file
  BY <1>2 DEF Request
<1>4. Uploads(req[r]) /\ Uploads(req'[r]) /\ ToDelete(req'[r]) = {}
  BY <1>1, <1>3 DEF Uploads, ToDelete
<1>5. RequestStores(req'[r], tempFile', uploaded', s3')
  BY <1>1, <1>3, <1>4 DEF StoredInv, RequestStores, Uploads
<1>6. ASSUME NEW q \in Requests PROVE RequestStores(req'[q], tempFile', uploaded', s3')
  <2>1. CASE q # r
    <3>1. req'[q] = req[q] /\ RequestStores(req[q], tempFile, uploaded, s3)
      BY <1>2, <2>1 DEF Others, StoredInv
    <3> QED
      BY <1>1, <3>1, StoresUndisturbed
  <2> QED
    BY <1>5, <2>1
<1>7. UploadsApart'
  <2> SUFFICES ASSUME NEW p \in Requests, NEW q \in Requests, Uploads(req'[p])
               PROVE  /\ req'[p].file \notin ToDelete(req'[q])
                      /\ Uploads(req'[q]) /\ req'[q].file = req'[p].file => p = q
    BY DEF UploadsApart
  <2>1. \A o \in Requests : /\ Uploads(req'[o]) <=> Uploads(req[o])
                            /\ Uploads(req[o]) => req'[o].file = req[o].file
                            /\ ToDelete(req'[o]) \subseteq ToDelete(req[o])
    BY <1>2, <1>3, <1>4 DEF Others
  <2> QED
    BY <2>1 DEF StoredInv, UploadsApart
<1> QED
  BY <1>1, <1>6, <1>7 DEF StoredInv

LEMMA InsertStores ==
    ASSUME IInv, StoredInv, NEW r \in Requests, InsertFile(r)
    PROVE  StoredInv'
<1>1. /\ req[r].pc = "insert" /\ s3' = s3 /\ uploaded' = uploaded
      /\ tempFile' = [tempFile EXCEPT ![req[r].file] = [doc |-> req[r].doc, page |-> req[r].page]]
      /\ req' = [req EXCEPT ![r].pc = "addUsage"]
  BY DEF InsertFile, At, Goto
<1>2. Others(r) /\ req'[r] = [req[r] EXCEPT !.pc = "addUsage"] /\ req[r] \in Request
  BY <1>1 DEF Others, IInv, TypeOK
<1>3. req'[r].op = req[r].op /\ req'[r].pc = "addUsage"
  BY <1>2 DEF Request
<1>4. Uploads(req[r]) /\ ~Uploads(req'[r]) /\ ToDelete(req'[r]) = {}
  BY <1>1, <1>3 DEF Uploads, ToDelete
<1>5. RequestStores(req'[r], tempFile', uploaded', s3')
  BY <1>3, <1>4 DEF StoredInv, RequestStores
<1>6. ASSUME NEW q \in Requests PROVE RequestStores(req'[q], tempFile', uploaded', s3')
  <2>1. CASE q # r
    <3>1. req'[q] = req[q] /\ RequestStores(req[q], tempFile, uploaded, s3)
      BY <1>2, <2>1 DEF Others, StoredInv
    <3>2. \A f : f \in ToDelete(req[q]) \/ (Uploads(req[q]) /\ f = req[q].file) =>
                    tempFile'[f].doc \in {tempFile[f].doc, NoDoc}
      <4> SUFFICES ASSUME NEW f, f \in ToDelete(req[q]) \/ (Uploads(req[q]) /\ f = req[q].file)
                   PROVE  tempFile'[f].doc \in {tempFile[f].doc, NoDoc}
        OBVIOUS
      <4>1. f # req[r].file
        BY <1>4, <2>1 DEF StoredInv, UploadsApart
      <4>2. f \in Files
        BY DEF ToDelete, IInv, RequestOK, Uploads
      <4> QED
        BY <1>1, <4>1, <4>2 DEF IInv, TypeOK
    <3>3. RequestStores(req[q], tempFile', uploaded', s3')
      <4> DEFINE rows == tempFile'
      <4> HIDE DEF rows
      <4>1. RequestStores(req[q], rows, uploaded, s3)
        BY <3>1, <3>2, StoresUndisturbed DEF rows
      <4> QED
        BY <1>1, <4>1 DEF rows
    <3> QED
      BY <3>1, <3>3
  <2> QED
    BY <1>5, <2>1
<1>7. UploadsApart'
  BY <1>2, <1>4 DEF StoredInv, UploadsApart, Others
<1>8. \A f \in Files : tempFile'[f].doc # NoDoc => f \in uploaded' /\ f \in s3'
  BY <1>1, <1>4 DEF StoredInv, RequestStores, IInv, TypeOK
<1> QED
  BY <1>6, <1>7, <1>8 DEF StoredInv

(* The image that goes away has no row, and nobody is about to insert it.  *)
LEMMA DeleteImageStores ==
    ASSUME IInv, StoredInv, NEW r \in Requests, DeleteImage(r)
    PROVE  StoredInv'
<1>1. /\ req[r].pc = "deleteImage" /\ s3' = s3 \ {req[r].file} /\ uploaded' = uploaded
      /\ tempFile' = tempFile /\ req' = [req EXCEPT ![r].pc = "images"]
  BY DEF DeleteImage, At, Goto
<1>2. Others(r) /\ req'[r] = [req[r] EXCEPT !.pc = "images"] /\ req[r] \in Request
  BY <1>1 DEF Others, IInv, TypeOK
<1>3. /\ req'[r].op = req[r].op /\ req'[r].pc = "images" /\ req'[r].files = req[r].files
  BY <1>2 DEF Request
<1>4. /\ ~Uploads(req'[r]) /\ ToDelete(req'[r]) \subseteq ToDelete(req[r])
      /\ \A f \in Files : f = req[r].file => f \in ToDelete(req[r])
  BY <1>1, <1>3 DEF Uploads, ToDelete
<1>5. RequestStores(req'[r], tempFile', uploaded', s3')
  BY <1>1, <1>3, <1>4 DEF StoredInv, RequestStores
<1>6. ASSUME NEW q \in Requests PROVE RequestStores(req'[q], tempFile', uploaded', s3')
  <2>1. CASE q # r
    <3>1. req'[q] = req[q] /\ RequestStores(req[q], tempFile, uploaded, s3)
      BY <1>2, <2>1 DEF Others, StoredInv
    <3>2. Uploads(req[q]) => req[q].file # req[r].file
      BY <1>4 DEF StoredInv, UploadsApart, IInv, RequestOK, Uploads
    <3> QED
      BY <1>1, <3>1, <3>2, StoresUndisturbed DEF Uploads
  <2> QED
    BY <1>5, <2>1
<1>7. UploadsApart'
  BY <1>2, <1>4 DEF StoredInv, UploadsApart, Others
<1>8. \A f \in Files : tempFile'[f].doc # NoDoc => f \in uploaded' /\ f \in s3'
  BY <1>1, <1>4 DEF StoredInv, RequestStores
<1> QED
  BY <1>6, <1>7, <1>8 DEF StoredInv

(* The deletions: rows are read before their images are taken, and a row   *)
(* is gone before its image.                                               *)
LEMMA DeletionStores ==
    ASSUME IInv, StoredInv, NEW r \in Requests,
           \/ \E f \in Files : DeleteFile(r, f) \/ SkipImage(r, f) \/ PickImage(r, f)
           \/ \E d \in Docs : DeleteAll(r, d) \/ DeleteDoc(r, d)
           \/ ReadRows(r) \/ DropRows(r) \/ DeleteImageFails(r)
    PROVE  StoredInv'
<1>1. req[r] \in Request /\ RequestStores(req[r], tempFile, uploaded, s3)
  BY DEF IInv, TypeOK, StoredInv
<1>2. ASSUME NEW q, req' = [req EXCEPT ![r] = q],
             q.op # "deleteSaved", q.pc = "dropRows", q.files \in SUBSET Files,
             tempFile' = tempFile, uploaded' = uploaded, s3' = s3,
             \A f \in q.files :
               /\ tempFile[f].doc # NoDoc
               /\ f = q.file \/ (q.op # "deleteFile" /\ tempFile[f].doc = q.doc)
      PROVE  StoredInv'
  <2>1. ToDelete(q) = q.files
    BY <1>2 DEF ToDelete
  <2>2. q.files \subseteq uploaded
    BY <1>2 DEF StoredInv
  <2>3. RequestStores(q, tempFile, uploaded, s3)
    BY <1>2, <2>1, <2>2 DEF RequestStores, Uploads
  <2>4. RequestStores(q, tempFile', uploaded', s3')
    BY <1>2, <2>3
  <2>5. /\ \A f \in Files : tempFile'[f].doc \in {tempFile[f].doc, NoDoc}
        /\ \A f \in ToDelete(q) : f \in ToDelete(req[r]) \/ tempFile[f].doc # NoDoc
    BY <1>2, <2>1
  <2>6. q.pc \in {"dropRows", "images", "deleteImage"}
    BY <1>2
  <2> QED
    BY <1>2, <2>4, <2>5, <2>6, DeletingStores
<1>3. \A op, d, files : /\ Deletion(op, d, files).op = op /\ Deletion(op, d, files).doc = d
                        /\ Deletion(op, d, files).pc = "dropRows"
                        /\ Deletion(op, d, files).files = files
  BY DEF Deletion, IdleRequest
<1>4. ASSUME NEW f \in Files, DeleteFile(r, f) PROVE StoredInv'
  <2> DEFINE q == [Deletion("deleteFile", tempFile[f].doc, {f}) EXCEPT !.file = f]
  <2>1. /\ q.op = "deleteFile" /\ q.pc = "dropRows" /\ q.files = {f} /\ q.file = f
        /\ q.doc = tempFile[f].doc
    BY DEF Deletion, IdleRequest
  <2>2. req' = [req EXCEPT ![r] = q] /\ tempFile[f].doc # NoDoc
    BY <1>4 DEF DeleteFile
  <2> HIDE DEF q
  <2>3. \A g \in q.files :
          /\ tempFile[g].doc # NoDoc
          /\ g = q.file \/ (q.op # "deleteFile" /\ tempFile[g].doc = q.doc)
    BY <2>1, <2>2
  <2>4. UNCHANGED <<tempFile, uploaded, s3>> /\ q.op # "deleteSaved" /\ q.files \in SUBSET Files
    BY <1>4, <2>1 DEF DeleteFile
  <2> QED
    BY <1>2, <2>1, <2>2, <2>3, <2>4
<1>5. ASSUME NEW op \in {"deleteAll", "deleteDoc"}, NEW d \in Docs,
             req' = [req EXCEPT ![r] = Deletion(op, d, FilesOf(d))],
             tempFile' = tempFile, uploaded' = uploaded, s3' = s3
      PROVE  StoredInv'
  <2> DEFINE q == Deletion(op, d, FilesOf(d))
  <2>1. q.op = op /\ q.pc = "dropRows" /\ q.files = FilesOf(d) /\ q.doc = d
    BY <1>3
  <2>2. \A f \in FilesOf(d) : tempFile[f].doc = d /\ d # NoDoc
    BY UploadAssumption DEF FilesOf
  <2> HIDE DEF q
  <2>3. req' = [req EXCEPT ![r] = q]
    BY <1>5 DEF q
  <2>4. \A g \in q.files :
          /\ tempFile[g].doc # NoDoc
          /\ g = q.file \/ (q.op # "deleteFile" /\ tempFile[g].doc = q.doc)
    BY <2>1, <2>2
  <2>5. q.op # "deleteSaved" /\ q.files \in SUBSET Files
    BY <2>1, FilesOfIsSubset
  <2> QED
    BY <1>2, <1>5, <2>1, <2>3, <2>4, <2>5
<1>6. ASSUME NEW d \in Docs, DeleteAll(r, d) PROVE StoredInv'
  BY <1>5, <1>6 DEF DeleteAll
<1>7. ASSUME NEW d \in Docs, DeleteDoc(r, d) PROVE StoredInv'
  <2> DEFINE q == [Deletion("deleteDoc", d, {}) EXCEPT !.pc = "readRows"]
  <2>1. q.op = "deleteDoc" /\ q.pc = "readRows" /\ q.doc = d
    BY DEF Deletion, IdleRequest
  <2>2. req' = [req EXCEPT ![r] = q]
    BY <1>7 DEF DeleteDoc
  <2> HIDE DEF q
  <2> QED
    BY <1>7, <2>1, <2>2, PassStores, UploadAssumption DEF DeleteDoc
<1>8. CASE ReadRows(r)
  <2>2. CASE Exists(req[r].doc)
    <3>1. req' = [req EXCEPT ![r] = Deletion("deleteDoc", req[r].doc, FilesOf(req[r].doc))]
      BY <1>8, <2>2 DEF ReadRows
    <3>2. req[r].doc \in Docs
      BY <1>1, <1>8 DEF ReadRows, At, RequestStores, Request
    <3>3. UNCHANGED <<tempFile, uploaded, s3>>
      BY <1>8 DEF ReadRows
    <3> QED
      BY <1>5, <3>1, <3>2, <3>3
  <2>3. CASE ~Exists(req[r].doc)
    BY <1>8, <2>3, FinishStores DEF ReadRows
  <2> QED
    BY <2>2, <2>3
<1>9. CASE DropRows(r)
  <2> DEFINE q == [req[r] EXCEPT !.pc = "images"]
  <2>1. /\ req[r].pc = "dropRows" /\ req' = [req EXCEPT ![r] = q]
        /\ uploaded' = uploaded /\ s3' = s3
    BY <1>9 DEF DropRows, At, Goto
  <2>2. /\ q.op = req[r].op /\ q.pc = "images" /\ q.files = req[r].files
    BY <1>1 DEF Request
  <2>3. /\ \A f \in Files : tempFile'[f].doc \in {tempFile[f].doc, NoDoc}
        /\ \A f \in Files : \/ f = req[r].file
                            \/ req[r].op # "deleteFile" /\ tempFile[f].doc = req[r].doc
              => tempFile'[f].doc = NoDoc
    BY <1>9 DEF DropRows, NoRow
  <2> HIDE DEF q
  <2>4. ToDelete(q) = ToDelete(req[r]) /\ ToDelete(q) \subseteq Files
    BY <2>1, <2>2 DEF ToDelete
  <2>5. \A f \in ToDelete(q) : tempFile'[f].doc = NoDoc
    BY <1>1, <2>1, <2>3, <2>4 DEF RequestStores
  <2>6. RequestStores(q, tempFile', uploaded', s3')
    BY <1>1, <2>1, <2>2, <2>4, <2>5 DEF RequestStores, Uploads
  <2> QED
    BY <2>1, <2>2, <2>3, <2>4, <2>6, DeletingStores
(* An image is passed over, picked, or not deleted.                        *)
<1>10. ASSUME NEW q, req' = [req EXCEPT ![r] = q], tempFile' = tempFile, uploaded' = uploaded,
              s3' = s3, req[r].pc \in {"images", "deleteImage"},
              q.pc \in {"images", "deleteImage"}, q.op = req[r].op,
              ToDelete(q) \subseteq ToDelete(req[r])
       PROVE  StoredInv'
  <2>1. RequestStores(q, tempFile, uploaded, s3)
    BY <1>1, <1>10 DEF RequestStores, Uploads
  <2> QED
    BY <1>10, <2>1, DeletingStores
<1>11. ASSUME NEW f \in Files, SkipImage(r, f) PROVE StoredInv'
  <2> DEFINE q == [req[r] EXCEPT !.files = @ \ {f}]
  <2>1. q.op = req[r].op /\ q.pc = req[r].pc /\ q.files = req[r].files \ {f} /\ q.file = req[r].file
    BY <1>1 DEF Request
  <2>2. req' = [req EXCEPT ![r] = q]
    BY <1>11 DEF SkipImage
  <2> HIDE DEF q
  <2>3. ToDelete(q) \subseteq ToDelete(req[r])
    BY <2>1 DEF ToDelete
  <2> QED
    BY <1>10, <1>11, <2>1, <2>2, <2>3 DEF SkipImage, At
<1>12. ASSUME NEW f \in Files, PickImage(r, f) PROVE StoredInv'
  <2> DEFINE q == [req[r] EXCEPT !.pc = "deleteImage", !.file = f, !.files = @ \ {f}]
  <2>1. q.op = req[r].op /\ q.pc = "deleteImage" /\ q.files = req[r].files \ {f} /\ q.file = f
    BY <1>1 DEF Request
  <2>2. req' = [req EXCEPT ![r] = q] /\ req[r].pc = "images" /\ f \in req[r].files
    BY <1>12 DEF PickImage, At
  <2> HIDE DEF q
  <2>3. ToDelete(q) \subseteq ToDelete(req[r])
    BY <2>1, <2>2 DEF ToDelete
  <2> QED
    BY <1>10, <1>12, <2>1, <2>2, <2>3 DEF PickImage
<1>13. CASE DeleteImageFails(r)
  <2> DEFINE q == [req[r] EXCEPT !.pc = "images"]
  <2>1. q.op = req[r].op /\ q.pc = "images" /\ q.files = req[r].files
    BY <1>1 DEF Request
  <2>2. req' = [req EXCEPT ![r] = q] /\ req[r].pc = "deleteImage"
    BY <1>13 DEF DeleteImageFails, At, Goto
  <2> HIDE DEF q
  <2>3. ToDelete(q) \subseteq ToDelete(req[r])
    BY <2>1, <2>2 DEF ToDelete
  <2> QED
    BY <1>10, <1>13, <2>1, <2>2, <2>3 DEF DeleteImageFails
<1> QED
  BY <1>4, <1>6, <1>7, <1>8, <1>9, <1>11, <1>12, <1>13

(* Requests that neither store nor delete an image.                        *)
LEMMA OtherStores ==
    ASSUME IInv, StoredInv, NEW r \in Requests,
           \/ \E d \in Docs, pages \in [Files -> PageNo] :
                Reorder(r, d, pages) \/ RequestAi(r, d, pages)
           \/ SetPages(r) \/ SetPagesFails(r) \/ MarkPending(r) \/ Push(r)
           \/ InsertFileFails(r) \/ AddUsage(r) \/ SubtractUsage(r) \/ SubtractUsageFails(r)
           \/ DropDoc(r) \/ SavedDeleted(r) \/ Abort(r)
    PROVE  StoredInv'
<1>1. req[r] \in Request /\ req[r].op # "deleteSaved"
  BY DEF IInv, TypeOK, StoredInv, RequestStores
<1>2. ASSUME NEW pc \in {"pending", "push", "dropDoc"}, Goto(r, pc),
             uploaded' = uploaded, s3' = s3,
             \A f \in Files : tempFile'[f].doc \in {tempFile[f].doc, NoDoc}
      PROVE  StoredInv'
  <2> DEFINE q == [req[r] EXCEPT !.pc = pc]
  <2>1. q.op = req[r].op /\ q.pc = pc
    BY <1>1 DEF Request
  <2>2. req' = [req EXCEPT ![r] = q]
    BY <1>2 DEF Goto
  <2> HIDE DEF q
  <2> QED
    BY <1>1, <1>2, <2>1, <2>2, PassStores
<1>3. ASSUME NEW op \in {"reorder", "requestAi"}, NEW d \in Docs, NEW pages,
             StartOrder(r, op, d, pages)
      PROVE  StoredInv'
  <2> DEFINE q == [IdleRequest EXCEPT !.op = op, !.pc = "pages", !.doc = d,
                 !.order = [f \in Files |-> IF f \in FilesOf(d) THEN pages[f] ELSE NoPage]]
  <2>1. q.op = op /\ q.pc = "pages"
    BY DEF IdleRequest
  <2>2. req' = [req EXCEPT ![r] = q]
    BY <1>3 DEF StartOrder
  <2> HIDE DEF q
  <2> QED
    BY <1>3, <2>1, <2>2, PassStores DEF StartOrder
<1>4. CASE SetPages(r)
  <2>1. \A f \in Files : tempFile'[f].doc = tempFile[f].doc
    BY <1>4 DEF SetPages, Ordered, IInv, TypeOK, TempFileRow
  <2> QED
    BY <1>2, <1>4, <2>1, FinishStores DEF SetPages
<1>5. CASE MarkPending(r)
  BY <1>2, <1>5 DEF MarkPending
<1>6. CASE SubtractUsage(r) \/ SubtractUsageFails(r)
  BY <1>2, <1>6, FinishStores DEF SubtractUsage, SubtractUsageFails, AfterUsage
<1>7. CASE \/ SetPagesFails(r) \/ Push(r) \/ InsertFileFails(r) \/ AddUsage(r) \/ DropDoc(r)
           \/ SavedDeleted(r) \/ Abort(r)
  <2>1. Finish(r) /\ uploaded' = uploaded /\ s3' = s3 /\ tempFile' = tempFile
    BY <1>7 DEF SetPagesFails, Push, InsertFileFails, AddUsage, DropDoc, SavedDeleted, Abort
  <2> QED
    BY <2>1, FinishStores
<1> QED
  BY <1>3, <1>4, <1>5, <1>6, <1>7 DEF Reorder, RequestAi

LEMMA NextStores ==
    ASSUME "deleteSaved" \notin Ops, IInv, StoredInv, [Next]_vars
    PROVE  StoredInv'
<1>1. ASSUME NEW r \in Requests, StartRequest(r) \/ HandlerStep(r) \/ HandlerFault(r)
      PROVE  StoredInv'
  <2>1. ~DropDocument(r) /\ ~DropReceipt(r) /\ ~SubtractReceipt(r)
    BY DEF DropDocument, DropReceipt, SubtractReceipt, At, StoredInv, RequestStores
  <2>2. \A k \in SavedId : ~DeleteSaved(r, k)
    BY DEF DeleteSaved
  <2>3. CASE StartRequest(r)
    BY <2>2, <2>3, UploadStores, OtherStores, DeletionStores DEF StartRequest
  <2>4. CASE HandlerStep(r) \/ HandlerFault(r)
    BY <2>1, <2>4, PutStores, InsertStores, DeleteImageStores, OtherStores, DeletionStores
       DEF HandlerStep, HandlerFault
  <2> QED
    BY <1>1, <2>3, <2>4
<1>2. ASSUME UNCHANGED <<req, uploaded, s3>>,
             \A f \in Files : tempFile'[f].doc \in {tempFile[f].doc, NoDoc}
      PROVE  StoredInv'
  <2>1. ASSUME NEW r \in Requests PROVE RequestStores(req[r], tempFile', uploaded, s3)
    <3>1. \A f : f \in ToDelete(req[r]) \/ (Uploads(req[r]) /\ f = req[r].file) =>
                    tempFile'[f].doc \in {tempFile[f].doc, NoDoc}
      BY <1>2 DEF ToDelete, Uploads, IInv, RequestOK
    <3>2. RequestStores(req[r], tempFile, uploaded, s3)
      BY DEF StoredInv
    <3> DEFINE rows == tempFile'
    <3> HIDE DEF rows
    <3>3. RequestStores(req[r], rows, uploaded, s3)
      BY <3>1, <3>2, StoresUndisturbed DEF rows
    <3> QED
      BY <3>3 DEF rows
  <2> QED
    BY <1>2, <2>1 DEF StoredInv, UploadsApart
<1>3. ASSUME NEW w \in Workers, Pop(w) \/ AnalysisStep(w) \/ WorkerFault(w) PROVE StoredInv'
  <2>1. UNCHANGED <<req, uploaded, s3, tempFile>>
    BY <1>3 DEF Pop, AnalysisStep, WorkerFault, Begin, ReadFiles, NoFilesLeft, Recognise, Reject,
                SaveDocument, SaveReceipt, Save, AddActivity, MarkDone, MarkFailed, Close,
                StatementFails, MarkFailedFails, api
  <2> QED
    BY <1>2, <2>1
<1>4. CASE \/ \E d \in Docs : StartUpload(d) \/ Age(d)
           \/ WorkerRestart \/ SelectExpired \/ DropExpiredDocs \/ CleanupFails
           \/ UNCHANGED vars
  <2>1. UNCHANGED <<req, uploaded, s3, tempFile>>
    BY <1>4 DEF StartUpload, Age, WorkerRestart, SelectExpired, DropExpiredDocs, CleanupFails,
                vars, api
  <2> QED
    BY <1>2, <2>1
<1>5. CASE DropExpiredRows
  BY <1>2, <1>5 DEF DropExpiredRows, NoRow
<1> QED
  BY <1>1, <1>3, <1>4, <1>5 DEF Next, CleanupStep

(* Unless the user deletes what was saved, the image of every row of       *)
(* temp_files is in the bucket, however uploads, deletions, analyses and   *)
(* the nightly cleanup overlap and whatever fails: uploadTempFile stores   *)
(* first and inserts then, and a deletion drops the row first.             *)
THEOREM TempFilesAreStored ==
    ASSUME "deleteSaved" \notin Ops
    PROVE  Spec => []TempFilesStored
<1>1. Init => StoredInv
  BY IdleStores, UploadAssumption DEF Init, StoredInv, UploadsApart, NoRow
<1>2. IInv /\ StoredInv /\ [Next]_vars => StoredInv'
  BY NextStores
<1>3. StoredInv => TempFilesStored
  BY DEF StoredInv, TempFilesStored
<1> QED
  BY <1>1, <1>2, <1>3, OcrInductiveInvariant, PTL DEF Spec

-----------------------------------------------------------------------------
(* The usage counter                                                       *)

LEMMA TakeOne ==
    ASSUME NEW S, IsFiniteSet(S), NEW x \in S
    PROVE  Cardinality(S \ {x}) = Cardinality(S) - 1 /\ Cardinality(S) >= 1
<1>1. Cardinality(S) \in Nat /\ Cardinality(S \ {x}) = Cardinality(S) - 1
  BY FS_RemoveElement, FS_CardinalityType
<1>2. IsFiniteSet(S \ {x})
  BY FS_RemoveElement
<1>3. Cardinality(S \ {x}) \in Nat
  BY <1>2, FS_CardinalityType
<1> QED
  BY <1>1, <1>3

LEMMA Counts ==
    ASSUME TypeOK
    PROVE  /\ used \in Nat /\ Cardinality(s3) \in Nat /\ IsFiniteSet(s3)
           /\ \A r \in Requests : /\ req[r] \in Request /\ req[r].bytes \in Nat
                                  /\ IsFiniteSet(req[r].files)
                                  /\ Cardinality(req[r].files) \in Nat
<1>1. s3 \in SUBSET Files /\ used \in Nat
  BY DEF TypeOK
<1>2. \A r \in Requests : req[r] \in Request /\ req[r].bytes \in Nat /\ req[r].files \in SUBSET Files
  BY DEF TypeOK, Request
<1> QED
  BY <1>1, <1>2, FilesFinite

(* Requests change no size, and threads only know images of their own.     *)
LEMMA SizesKept ==
    ASSUME TypeOK, SizesCover, worker' = worker,
           \A k \in SavedId : saved'[k].files = saved[k].files /\ saved'[k].bytes = saved[k].bytes
    PROVE  SizesCover'
BY DEF SizesCover

(* What is left to show of a step of the only request.                     *)
LEMMA OneRequestUsage ==
    ASSUME NEW r, Requests = {r}, TypeOK, UsageInv, worker' = worker, NEW q,
           req'[r] = q, s3' \subseteq uploaded',
           \A k \in SavedId : saved'[k].files = saved[k].files /\ saved'[k].bytes = saved[k].bytes,
           Uploads(q) => q.file \in uploaded',
           faults' = 0 => RequestBalanced(q, used', s3')
    PROVE  UsageInv'
BY SizesKept DEF UsageInv

(* The counter is as good as the bucket at an await that is no part of an  *)
(* upload or of a deletion in progress.                                    *)
LEMMA PlainUsage ==
    ASSUME NEW r, Requests = {r}, IInv, UsageInv, NEW q, req' = [req EXCEPT ![r] = q],
           UNCHANGED <<worker, saved, uploaded, s3, used, faults>>,
           req[r].pc \in {"idle", "pages", "pending", "push", "readRows", "dropDoc"},
           \/ q.pc \in {"idle", "pages", "pending", "push", "dropDoc"}
           \/ q.pc = "readRows" /\ q.op # "deleteSaved"
    PROVE  UsageInv'
<1>1. req'[r] = q /\ TypeOK
  BY DEF IInv, TypeOK
<1>2. faults = 0 => used <= Cardinality(s3)
  BY DEF UsageInv, RequestBalanced
<1>3. faults = 0 => RequestBalanced(q, used, s3)
  BY <1>2 DEF RequestBalanced
<1>4. ~Uploads(q)
  BY DEF Uploads
<1> QED
  BY <1>1, <1>3, <1>4, OneRequestUsage DEF UsageInv

LEMMA OrderUsage ==
    ASSUME NEW r, Requests = {r}, IInv, UsageInv,
           \/ \E d \in Docs, pages \in [Files -> PageNo] :
                Reorder(r, d, pages) \/ RequestAi(r, d, pages)
           \/ SetPages(r) \/ SetPagesFails(r) \/ MarkPending(r) \/ Push(r) \/ DropDoc(r)
           \/ \E d \in Docs : DeleteDoc(r, d)
    PROVE  UsageInv'
<1> USE DEF untouched
<1>1. req[r] \in Request
  BY DEF IInv, TypeOK
<1>2. ASSUME Finish(r), UNCHANGED <<worker, saved, uploaded, s3, used, faults>>,
             req[r].pc \in {"pages", "push", "dropDoc"}
      PROVE  UsageInv'
  <2>1. IdleRequest.pc = "idle"
    BY DEF IdleRequest
  <2> QED
    BY <1>2, <2>1, PlainUsage DEF Finish
<1>3. ASSUME NEW pc \in {"pending", "push"}, Goto(r, pc),
             UNCHANGED <<worker, saved, uploaded, s3, used, faults>>,
             req[r].pc \in {"pages", "pending"}
      PROVE  UsageInv'
  <2> DEFINE q == [req[r] EXCEPT !.pc = pc]
  <2>1. q.pc = pc
    BY <1>1 DEF Request
  <2>2. req' = [req EXCEPT ![r] = q]
    BY <1>3 DEF Goto
  <2> HIDE DEF q
  <2> QED
    BY <1>3, <2>1, <2>2, PlainUsage
<1>4. ASSUME NEW op, NEW d \in Docs, NEW pages, StartOrder(r, op, d, pages) PROVE UsageInv'
  <2> DEFINE q == [IdleRequest EXCEPT !.op = op, !.pc = "pages", !.doc = d,
                 !.order = [f \in Files |-> IF f \in FilesOf(d) THEN pages[f] ELSE NoPage]]
  <2>1. q.pc = "pages"
    BY DEF IdleRequest
  <2>2. req' = [req EXCEPT ![r] = q]
    BY <1>4 DEF StartOrder
  <2> HIDE DEF q
  <2> QED
    BY <1>4, <2>1, <2>2, PlainUsage DEF StartOrder, Idle
<1>5. ASSUME NEW d \in Docs, DeleteDoc(r, d) PROVE UsageInv'
  <2> DEFINE q == [Deletion("deleteDoc", d, {}) EXCEPT !.pc = "readRows"]
  <2>1. q.op = "deleteDoc" /\ q.pc = "readRows"
    BY DEF Deletion, IdleRequest
  <2>2. req' = [req EXCEPT ![r] = q]
    BY <1>5 DEF DeleteDoc
  <2>3. UNCHANGED <<worker, saved, uploaded, s3, used, faults>> /\ req[r].pc = "idle"
    BY <1>5 DEF DeleteDoc, Idle
  <2> HIDE DEF q
  <2>4. q.pc = "readRows" /\ q.op # "deleteSaved"
    BY <2>1
  <2> QED
    BY <2>2, <2>3, <2>4, PlainUsage
<1>6. CASE SetPages(r)
  BY <1>2, <1>3, <1>6 DEF SetPages, At
<1>7. CASE MarkPending(r)
  BY <1>3, <1>7 DEF MarkPending, At
<1>8. CASE SetPagesFails(r) \/ Push(r) \/ DropDoc(r)
  BY <1>2, <1>8 DEF SetPagesFails, Push, DropDoc, At
<1> QED
  BY <1>4, <1>5, <1>6, <1>7, <1>8 DEF Reorder, RequestAi

(* The image comes first and the counter last.                             *)
LEMMA UploadUsage ==
    ASSUME NEW r, Requests = {r}, IInv, UsageInv,
           \/ \E d \in Docs, f \in Files, n \in PageNo : Upload(r, d, f, n)
           \/ PutImage(r) \/ InsertFile(r) \/ InsertFileFails(r) \/ AddUsage(r)
    PROVE  UsageInv'
<1> USE DEF untouched
<1>1. /\ req[r] \in Request /\ used \in Nat /\ Cardinality(s3) \in Nat /\ IsFiniteSet(s3)
      /\ TypeOK /\ s3 \subseteq uploaded
      /\ faults = 0 => RequestBalanced(req[r], used, s3)
      /\ Uploads(req[r]) => req[r].file \in uploaded
  BY Counts DEF IInv, UsageInv
<1>2. ASSUME NEW d \in Docs, NEW f \in Files, NEW n \in PageNo, Upload(r, d, f, n)
      PROVE  UsageInv'
  <2> DEFINE q == [IdleRequest EXCEPT !.op = "upload", !.pc = "put", !.doc = d, !.file = f, !.page = n]
  <2>1. q.pc = "put" /\ q.file = f
    BY DEF IdleRequest
  <2>2. /\ req'[r] = q /\ req[r].pc = "idle" /\ f \notin uploaded /\ uploaded' = uploaded \cup {f}
        /\ UNCHANGED <<worker, saved, s3, used, faults>>
    BY <1>1, <1>2 DEF Upload, Idle, TypeOK
  <2> HIDE DEF q
  <2>3. faults = 0 => RequestBalanced(q, used, s3)
    BY <1>1, <2>1, <2>2 DEF RequestBalanced
  <2> QED
    BY <1>1, <2>1, <2>2, <2>3, OneRequestUsage
<1>3. CASE PutImage(r)
  <2> DEFINE q == [req[r] EXCEPT !.pc = "insert"]
  <2>1. q.pc = "insert" /\ q.file = req[r].file
    BY <1>1 DEF Request
  <2>2. /\ req'[r] = q /\ req[r].pc = "put" /\ s3' = s3 \cup {req[r].file}
        /\ UNCHANGED <<worker, saved, uploaded, used, faults>>
    BY <1>1, <1>3 DEF PutImage, At, Goto, TypeOK
  <2> HIDE DEF q
  <2>3. req[r].file \in uploaded
    BY <1>1, <2>2 DEF Uploads
  <2>4. req[r].file \notin s3 => Cardinality(s3') = Cardinality(s3) + 1
    BY <1>1, <2>2, FS_AddElement
  <2>5. faults = 0 => RequestBalanced(q, used, s3')
    BY <1>1, <2>1, <2>2, <2>4 DEF RequestBalanced
  <2> QED
    BY <1>1, <2>1, <2>2, <2>3, <2>5, OneRequestUsage
<1>4. CASE InsertFile(r)
  <2> DEFINE q == [req[r] EXCEPT !.pc = "addUsage"]
  <2>1. q.pc = "addUsage"
    BY <1>1 DEF Request
  <2>2. /\ req'[r] = q /\ req[r].pc = "insert"
        /\ UNCHANGED <<worker, saved, s3, uploaded, used, faults>>
    BY <1>1, <1>4 DEF InsertFile, At, Goto, TypeOK
  <2> HIDE DEF q
  <2>3. faults = 0 => RequestBalanced(q, used, s3)
    BY <1>1, <2>1, <2>2 DEF RequestBalanced
  <2> QED
    BY <1>1, <2>1, <2>2, <2>3, OneRequestUsage DEF Uploads
<1>5. CASE InsertFileFails(r) \/ AddUsage(r)
  <2>1. /\ req'[r] = IdleRequest /\ IdleRequest.pc = "idle"
        /\ UNCHANGED <<worker, saved, s3, uploaded, faults>>
        /\ \/ req[r].pc = "insert" /\ used' = used
           \/ req[r].pc = "addUsage" /\ used' = used + 1
    BY <1>1, <1>5 DEF InsertFileFails, AddUsage, At, Finish, IdleRequest, TypeOK
  <2>2. faults = 0 => RequestBalanced(IdleRequest, used', s3)
    BY <1>1, <2>1 DEF RequestBalanced
  <2> QED
    BY <1>1, <2>1, <2>2, OneRequestUsage DEF Uploads
<1> QED
  BY <1>2, <1>3, <1>4, <1>5

(* A deletion of temp files subtracts as much as it had found.             *)
LEMMA DeletionUsage ==
    ASSUME NEW r, Requests = {r}, IInv, UsageInv,
           \/ \E f \in Files : DeleteFile(r, f)
           \/ \E d \in Docs : DeleteAll(r, d)
           \/ ReadRows(r) \/ DropRows(r) \/ SubtractUsage(r)
    PROVE  UsageInv'
<1> USE DEF untouched
<1>1. /\ req[r] \in Request /\ used \in Nat /\ Cardinality(s3) \in Nat
      /\ TypeOK /\ s3 \subseteq uploaded /\ req[r].bytes \in Nat
      /\ Cardinality(req[r].files) \in Nat
      /\ faults = 0 => RequestBalanced(req[r], used, s3)
  BY Counts DEF IInv, UsageInv
<1>2. ASSUME NEW q, q.pc = "dropRows", q.op # "deleteSaved", Cardinality(q.files) = q.bytes,
             q.bytes \in Nat, req' = [req EXCEPT ![r] = q], req[r].pc \in {"idle", "readRows"},
             UNCHANGED <<worker, saved, s3, uploaded, used, faults>>
      PROVE  UsageInv'
  <2>1. faults = 0 => RequestBalanced(q, used, s3)
    BY <1>1, <1>2 DEF RequestBalanced
  <2>2. req'[r] = q
    BY <1>1, <1>2 DEF TypeOK
  <2> QED
    BY <1>1, <1>2, <2>1, <2>2, OneRequestUsage DEF Uploads
<1>3. ASSUME NEW op, NEW d, NEW files \in SUBSET Files
      PROVE  /\ Deletion(op, d, files).op = op /\ Deletion(op, d, files).pc = "dropRows"
             /\ Deletion(op, d, files).files = files
             /\ Deletion(op, d, files).bytes = Cardinality(files) /\ Cardinality(files) \in Nat
  BY FilesFinite DEF Deletion, IdleRequest
<1>4. ASSUME NEW f \in Files, DeleteFile(r, f) PROVE UsageInv'
  <2> DEFINE q == [Deletion("deleteFile", tempFile[f].doc, {f}) EXCEPT !.file = f]
  <2>1. Cardinality({f}) = 1
    BY FS_Singleton
  <2>2. /\ q.op = "deleteFile" /\ q.pc = "dropRows" /\ q.files = {f}
        /\ q.bytes = Cardinality({f})
    BY DEF Deletion, IdleRequest
  <2>3. /\ req' = [req EXCEPT ![r] = q] /\ req[r].pc = "idle"
        /\ UNCHANGED <<worker, saved, s3, uploaded, used, faults>>
    BY <1>4 DEF DeleteFile, Idle
  <2> HIDE DEF q
  <2>4. Cardinality(q.files) = q.bytes /\ q.bytes \in Nat /\ q.op # "deleteSaved"
    BY <2>1, <2>2
  <2> QED
    BY <1>2, <2>2, <2>3, <2>4
<1>5. ASSUME NEW d \in Docs, DeleteAll(r, d) PROVE UsageInv'
  <2> DEFINE q == Deletion("deleteAll", d, FilesOf(d))
  <2>1. /\ q.op = "deleteAll" /\ q.pc = "dropRows"
        /\ Cardinality(q.files) = q.bytes /\ q.bytes \in Nat
    BY <1>3, FilesOfIsSubset
  <2>2. /\ req' = [req EXCEPT ![r] = q] /\ req[r].pc = "idle"
        /\ UNCHANGED <<worker, saved, s3, uploaded, used, faults>>
    BY <1>5 DEF DeleteAll, Idle
  <2> HIDE DEF q
  <2>3. q.op # "deleteSaved" /\ req[r].pc \in {"idle", "readRows"}
    BY <2>1, <2>2
  <2> QED
    BY <1>2, <2>1, <2>2, <2>3
<1>6. CASE ReadRows(r)
  <2>1. CASE Exists(req[r].doc)
    <3> DEFINE q == Deletion("deleteDoc", req[r].doc, FilesOf(req[r].doc))
    <3>1. /\ q.op = "deleteDoc" /\ q.pc = "dropRows"
          /\ Cardinality(q.files) = q.bytes /\ q.bytes \in Nat
      BY <1>3, FilesOfIsSubset
    <3>2. /\ req' = [req EXCEPT ![r] = q] /\ req[r].pc = "readRows"
          /\ UNCHANGED <<worker, saved, s3, uploaded, used, faults>>
      BY <1>6, <2>1 DEF ReadRows, At
    <3> HIDE DEF q
    <3>3. q.op # "deleteSaved" /\ req[r].pc \in {"idle", "readRows"}
      BY <3>1, <3>2
    <3> QED
      BY <1>2, <3>1, <3>2, <3>3
  <2>2. CASE ~Exists(req[r].doc)
    <3>1. /\ req' = [req EXCEPT ![r] = IdleRequest] /\ IdleRequest.pc = "idle"
          /\ req[r].pc = "readRows" /\ UNCHANGED <<worker, saved, uploaded, s3, used, faults>>
      BY <1>6, <2>2 DEF ReadRows, At, Finish, IdleRequest
    <3> QED
      BY <3>1, PlainUsage
  <2> QED
    BY <2>1, <2>2
<1>7. CASE DropRows(r)
  <2> DEFINE q == [req[r] EXCEPT !.pc = "images"]
  <2>1. q.pc = "images" /\ q.op = req[r].op /\ q.files = req[r].files /\ q.bytes = req[r].bytes
    BY <1>1 DEF Request
  <2>2. /\ req'[r] = q /\ req[r].pc = "dropRows"
        /\ UNCHANGED <<worker, saved, s3, uploaded, used, faults>>
    BY <1>1, <1>7 DEF DropRows, At, Goto, TypeOK
  <2> HIDE DEF q
  <2>3. faults = 0 => RequestBalanced(q, used, s3)
    BY <1>1, <2>1, <2>2 DEF RequestBalanced, Left
  <2> QED
    BY <1>1, <2>1, <2>2, <2>3, OneRequestUsage DEF Uploads
<1>8. CASE SubtractUsage(r)
  <2>1. /\ req[r].pc = "images" /\ req[r].files = {} /\ req[r].op # "deleteSaved"
        /\ used' = UsageLess(req[r].bytes)
        /\ UNCHANGED <<worker, saved, s3, uploaded, faults>>
    BY <1>8 DEF SubtractUsage, At
  <2>2. Cardinality(req[r].files) = 0
    BY <2>1, FS_EmptySet
  <2>3. faults = 0 => used' <= Cardinality(s3)
    BY <1>1, <2>1, <2>2 DEF RequestBalanced, Left, UsageLess
  <2>4. req'[r].pc \in {"idle", "dropDoc"}
    BY <1>1, <1>8 DEF SubtractUsage, AfterUsage, Finish, Goto, IdleRequest, TypeOK, Request
  <2>5. faults = 0 => RequestBalanced(req'[r], used', s3)
    BY <2>3, <2>4 DEF RequestBalanced
  <2> QED
    BY <1>1, <2>1, <2>4, <2>5, OneRequestUsage DEF Uploads
<1> QED
  BY <1>4, <1>5, <1>6, <1>7, <1>8

(* Every image that is taken was counted among those left.                 *)
LEMMA ImagesUsage ==
    ASSUME NEW r, Requests = {r}, IInv, UsageInv,
           \/ \E f \in Files : SkipImage(r, f) \/ PickImage(r, f)
           \/ DeleteImage(r) \/ SavedDeleted(r)
    PROVE  UsageInv'
<1> USE DEF untouched
<1>1. /\ req[r] \in Request /\ used \in Nat /\ Cardinality(s3) \in Nat /\ IsFiniteSet(s3)
      /\ TypeOK /\ s3 \subseteq uploaded /\ req[r].bytes \in Nat
      /\ IsFiniteSet(req[r].files) /\ Cardinality(req[r].files) \in Nat
      /\ faults = 0 => RequestBalanced(req[r], used, s3)
  BY Counts DEF IInv, UsageInv
<1>2. ASSUME NEW f \in Files, SkipImage(r, f) PROVE UsageInv'
  <2> DEFINE q == [req[r] EXCEPT !.files = @ \ {f}]
  <2>1. /\ q.pc = req[r].pc /\ q.op = req[r].op /\ q.files = req[r].files \ {f}
        /\ q.bytes = req[r].bytes
    BY <1>1 DEF Request
  <2>2. /\ req'[r] = q /\ req[r].pc = "images" /\ f \in req[r].files
        /\ UNCHANGED <<worker, saved, s3, uploaded, used, faults>>
    BY <1>1, <1>2 DEF SkipImage, At, TypeOK
  <2> HIDE DEF q
  <2>3. Cardinality(q.files) = Cardinality(req[r].files) - 1
    BY <1>1, <2>1, <2>2, TakeOne
  <2>4. faults = 0 => RequestBalanced(q, used, s3)
    BY <1>1, <2>1, <2>2, <2>3 DEF RequestBalanced, Left
  <2> QED
    BY <1>1, <2>1, <2>2, <2>4, OneRequestUsage DEF Uploads
<1>3. ASSUME NEW f \in Files, PickImage(r, f) PROVE UsageInv'
  <2> DEFINE q == [req[r] EXCEPT !.pc = "deleteImage", !.file = f, !.files = @ \ {f}]
  <2>1. /\ q.pc = "deleteImage" /\ q.op = req[r].op /\ q.files = req[r].files \ {f}
        /\ q.bytes = req[r].bytes
    BY <1>1 DEF Request
  <2>2. /\ req'[r] = q /\ req[r].pc = "images" /\ f \in req[r].files
        /\ UNCHANGED <<worker, saved, s3, uploaded, used, faults>>
    BY <1>1, <1>3 DEF PickImage, At, TypeOK
  <2> HIDE DEF q
  <2>3. Cardinality(q.files) = Cardinality(req[r].files) - 1
    BY <1>1, <2>1, <2>2, TakeOne
  <2>4. faults = 0 => RequestBalanced(q, used, s3)
    BY <1>1, <2>1, <2>2, <2>3 DEF RequestBalanced, Left
  <2> QED
    BY <1>1, <2>1, <2>2, <2>4, OneRequestUsage DEF Uploads
<1>4. CASE DeleteImage(r)
  <2> DEFINE q == [req[r] EXCEPT !.pc = "images"]
  <2>1. q.pc = "images" /\ q.op = req[r].op /\ q.files = req[r].files /\ q.bytes = req[r].bytes
    BY <1>1 DEF Request
  <2>2. /\ req'[r] = q /\ req[r].pc = "deleteImage" /\ s3' = s3 \ {req[r].file}
        /\ UNCHANGED <<worker, saved, uploaded, used, faults>>
    BY <1>1, <1>4 DEF DeleteImage, At, Goto, TypeOK
  <2> HIDE DEF q
  <2>3. Cardinality(s3') \in Nat /\ Cardinality(s3') >= Cardinality(s3) - 1
    <3>1. CASE req[r].file \in s3
      BY <1>1, <2>2, <3>1, TakeOne
    <3>2. CASE req[r].file \notin s3
      <4>1. s3' = s3
        BY <2>2, <3>2
      <4> QED
        BY <1>1, <4>1
    <3> QED
      BY <3>1, <3>2
  <2>4. faults = 0 => RequestBalanced(q, used, s3')
    BY <1>1, <2>1, <2>2, <2>3 DEF RequestBalanced, Left
  <2> QED
    BY <1>1, <2>1, <2>2, <2>4, OneRequestUsage DEF Uploads
<1>5. CASE SavedDeleted(r)
  <2>1. /\ req'[r] = IdleRequest /\ IdleRequest.pc = "idle" /\ req[r].pc = "images"
        /\ req[r].files = {} /\ req[r].op = "deleteSaved"
        /\ UNCHANGED <<worker, saved, s3, uploaded, used, faults>>
    BY <1>1, <1>5 DEF SavedDeleted, At, Finish, IdleRequest, TypeOK
  <2>2. Cardinality(req[r].files) = 0
    BY <2>1, FS_EmptySet
  <2>3. faults = 0 => RequestBalanced(IdleRequest, used, s3)
    BY <1>1, <2>1, <2>2 DEF RequestBalanced, Left
  <2> QED
    BY <1>1, <2>1, <2>3, OneRequestUsage DEF Uploads
<1> QED
  BY <1>2, <1>3, <1>4, <1>5

(* The deletion of a saved row subtracts at least its images before it     *)
(* takes them.                                                             *)
LEMMA SavedUsage ==
    ASSUME NEW r, Requests = {r}, IInv, UsageInv,
           \/ \E k \in SavedId : DeleteSaved(r, k)
           \/ DropDocument(r) \/ DropReceipt(r) \/ SubtractReceipt(r)
    PROVE  UsageInv'
<1> USE DEF untouched
<1>1. /\ req[r] \in Request /\ used \in Nat /\ Cardinality(s3) \in Nat
      /\ TypeOK /\ s3 \subseteq uploaded /\ req[r].bytes \in Nat
      /\ Cardinality(req[r].files) \in Nat
      /\ faults = 0 => RequestBalanced(req[r], used, s3)
  BY Counts DEF IInv, UsageInv
<1>2. ASSUME NEW k \in SavedId, DeleteSaved(r, k) PROVE UsageInv'
  <2> DEFINE q == [IdleRequest EXCEPT !.op = "deleteSaved", !.pc = "dropSaved",
                 !.row = k, !.files = saved[k].files, !.bytes = saved[k].bytes]
  <2>1. /\ q.pc = "dropSaved" /\ q.op = "deleteSaved" /\ q.files = saved[k].files
        /\ q.bytes = saved[k].bytes
    BY DEF IdleRequest
  <2>2. /\ req'[r] = q /\ req[r].pc = "idle"
        /\ UNCHANGED <<worker, saved, s3, uploaded, used, faults>>
    BY <1>1, <1>2 DEF DeleteSaved, Idle, TypeOK
  <2> HIDE DEF q
  <2>3. Cardinality(q.files) <= q.bytes
    BY <2>1 DEF UsageInv, SizesCover
  <2>4. faults = 0 => RequestBalanced(q, used, s3)
    BY <1>1, <2>1, <2>2, <2>3 DEF RequestBalanced
  <2> QED
    BY <1>1, <2>1, <2>2, <2>4, OneRequestUsage DEF Uploads
<1>3. CASE DropDocument(r) \/ DropReceipt(r) \/ SubtractReceipt(r)
  <2>1. \A k \in SavedId : saved'[k].files = saved[k].files /\ saved'[k].bytes = saved[k].bytes
    <3>1. \/ saved' = saved
          \/ saved' = [saved EXCEPT ![req[r].row].state = "REMOVED"]
      BY <1>3 DEF DropDocument, DropReceipt, SubtractReceipt
    <3>2. saved \in [SavedId -> SavedRow]
      BY <1>1 DEF TypeOK
    <3>3. CASE saved' = [saved EXCEPT ![req[r].row].state = "REMOVED"]
      <4> SUFFICES ASSUME NEW k \in SavedId
                   PROVE  saved'[k].files = saved[k].files /\ saved'[k].bytes = saved[k].bytes
        OBVIOUS
      <4>1. saved'[k] = saved[k] \/ saved'[k] = [saved[k] EXCEPT !.state = "REMOVED"]
        BY <3>2, <3>3
      <4>2. saved[k] \in SavedRow
        BY <3>2
      <4> QED
        BY <4>1, <4>2 DEF SavedRow
    <3> QED
      BY <3>1, <3>3
  <2>2. /\ req[r].pc \in {"dropSaved", "subtract"}
        /\ UNCHANGED <<worker, s3, uploaded, faults>>
        /\ \/ req' = [req EXCEPT ![r].pc = "subtract"] /\ used' = used
           \/ req' = [req EXCEPT ![r].pc = "images"] /\ used' = UsageLess(req[r].bytes)
    BY <1>3 DEF DropDocument, DropReceipt, SubtractReceipt, At, Goto
  <2>3. /\ req'[r].op = req[r].op /\ req'[r].files = req[r].files
        /\ req'[r].bytes = req[r].bytes
        /\ \/ req'[r].pc = "subtract" /\ used' = used
           \/ req'[r].pc = "images" /\ used' = UsageLess(req[r].bytes)
    BY <1>1, <2>2 DEF TypeOK, Request
  <2>4. faults = 0 => used = 0 \/ used <= Cardinality(s3)
    BY <1>1, <2>2 DEF RequestBalanced
  <2>5. faults = 0 => Cardinality(req[r].files) <= req[r].bytes /\ req[r].op = "deleteSaved"
    BY <1>1, <2>2 DEF RequestBalanced
  <2>6. faults = 0 => RequestBalanced(req'[r], used', s3)
    BY <1>1, <2>2, <2>3, <2>4, <2>5 DEF RequestBalanced, Left, UsageLess
  <2> QED
    BY <1>1, <2>1, <2>2, <2>3, <2>6, OneRequestUsage DEF Uploads
<1> QED
  BY <1>2, <1>3

(* A failed call is the end of what the property promises.                 *)
LEMMA FaultUsage ==
    ASSUME NEW r, Requests = {r}, IInv, UsageInv, HandlerFault(r)
    PROVE  UsageInv'
<1> USE DEF untouched
<1>1. req[r] \in Request /\ TypeOK /\ s3 \subseteq uploaded
  BY DEF IInv, TypeOK, UsageInv
<1>2. /\ faults' # 0 /\ UNCHANGED <<worker, saved, uploaded, s3>>
      /\ req'[r].pc \in {"images", "idle", "dropDoc"}
  <2>1. CASE DeleteImageFails(r)
    BY <1>1, <2>1 DEF DeleteImageFails, Goto, TypeOK, Request
  <2>2. CASE SubtractUsageFails(r)
    BY <1>1, <2>2 DEF SubtractUsageFails, AfterUsage, Goto, Finish, IdleRequest, TypeOK, Request
  <2>3. CASE Abort(r)
    BY <1>1, <2>3 DEF Abort, Finish, IdleRequest, TypeOK
  <2> QED
    BY <2>1, <2>2, <2>3 DEF HandlerFault
<1> QED
  BY <1>1, <1>2, OneRequestUsage DEF Uploads

(* A thread refers to no more than the images that it has read.            *)
LEMMA ThreadUsage ==
    ASSUME IInv, UsageInv, NEW w \in Workers, Pop(w) \/ AnalysisStep(w) \/ WorkerFault(w)
    PROVE  UsageInv'
<1> USE DEF api
<1>1. worker[w] \in Analysis /\ worker \in [Workers -> Analysis] /\ saved \in [SavedId -> SavedRow]
  BY DEF IInv, TypeOK
<1>2. UNCHANGED <<req, uploaded, s3, used>> /\ (faults' = 0 => faults = 0)
  <2>1. faults \in Nat
    BY DEF IInv, TypeOK
  <2> QED
    BY <2>1 DEF Pop, AnalysisStep, WorkerFault, Begin, ReadFiles, NoFilesLeft, Recognise, Reject,
                SaveDocument, SaveReceipt, Save, AddActivity, MarkDone, MarkFailed, Close,
                StatementFails, MarkFailedFails
<1>3. SizesCover => SizesCover'
  <2> SUFFICES ASSUME SizesCover PROVE SizesCover'
    OBVIOUS
  <2>1. ASSUME NEW pc \in WorkerPc, Proceed(w, pc), saved' = saved,
               pc \in {"ocr", "save"} => worker[w].pc \in {"ocr", "save"}
        PROVE  SizesCover'
    <3>1. /\ worker'[w].pc = pc /\ worker'[w].first = worker[w].first
          /\ worker'[w].files = worker[w].files
          /\ \A v \in Workers \ {w} : worker'[v] = worker[v]
      BY <1>1, <2>1 DEF Proceed, Analysis
    <3> QED
      BY <2>1, <3>1 DEF SizesCover
  <2>2. ASSUME worker'[w].pc \notin {"ocr", "save"}, saved' = saved,
               \A v \in Workers \ {w} : worker'[v] = worker[v]
        PROVE  SizesCover'
    BY <2>2 DEF SizesCover
  <2>3. CASE Pop(w)
    BY <1>1, <2>2, <2>3 DEF Pop, IdleWorker
  <2>4. CASE MarkDone(w) \/ MarkFailed(w) \/ MarkFailedFails(w)
    <3>1. worker' = [worker EXCEPT ![w] = IdleWorker] /\ saved' = saved
      BY <2>4 DEF MarkDone, MarkFailed, MarkFailedFails, Close
    <3> QED
      BY <1>1, <2>2, <3>1 DEF IdleWorker
  <2>5. CASE Begin(w) \/ NoFilesLeft(w) \/ Recognise(w) \/ Reject(w) \/ AddActivity(w)
             \/ StatementFails(w)
    BY <2>1, <2>5 DEF Begin, NoFilesLeft, Recognise, Reject, AddActivity, StatementFails, Working,
                      WorkerPc
  <2>6. CASE ReadFiles(w)
    <3>1. PICK f \in FilesOf(DocOf(w)) :
            worker' = [worker EXCEPT ![w].pc = "ocr", ![w].files = FilesOf(DocOf(w)),
                                     ![w].first = f]
      BY <2>6 DEF ReadFiles
    <3>2. worker'[w].first = f /\ worker'[w].files = FilesOf(DocOf(w))
      BY <1>1, <3>1 DEF Analysis
    <3>3. saved' = saved /\ \A v \in Workers \ {w} : worker'[v] = worker[v]
      BY <1>1, <2>6, <3>1 DEF ReadFiles
    <3> QED
      BY <3>2, <3>3 DEF SizesCover
  <2>7. ASSUME NEW kind, NEW files, NEW next \in {"activity", "done"}, Save(w, kind, files, next),
               Cardinality(files) <= Cardinality(worker[w].files)
        PROVE  SizesCover'
    <3>1. PICK k \in SavedId :
            /\ saved' = [saved EXCEPT ![k] =
                 [state |-> "SAVED", kind |-> kind, job |-> worker[w].job, files |-> files,
                  bytes |-> Cardinality(worker[w].files)]]
            /\ worker' = [worker EXCEPT ![w].pc = next, ![w].row = k]
      BY <2>7 DEF Save, FreshSaved
    <3>2. /\ saved'[k].files = files /\ saved'[k].bytes = Cardinality(worker[w].files)
          /\ \A i \in SavedId \ {k} : saved'[i] = saved[i]
      BY <1>1, <3>1
    <3>3. worker'[w].pc = next /\ \A v \in Workers \ {w} : worker'[v] = worker[v]
      BY <1>1, <3>1 DEF Analysis
    <3> QED
      BY <2>7, <3>2, <3>3 DEF SizesCover
  <2>8. CASE SaveDocument(w)
    <3>1. Cardinality(worker[w].files) \in Nat
      BY <1>1, FilesFinite DEF Analysis
    <3> QED
      BY <2>7, <2>8, <3>1 DEF SaveDocument
  <2>9. CASE SaveReceipt(w)
    <3>1. worker[w].first \in worker[w].files /\ IsFiniteSet(worker[w].files)
            /\ Cardinality(worker[w].files) \in Nat
      BY <1>1, <2>9, FilesFinite DEF SizesCover, SaveReceipt, Save, Working, Analysis
    <3>2. Cardinality({worker[w].first}) = 1
      BY FS_Singleton
    <3>3. Cardinality(worker[w].files) >= 1
      BY <3>1, TakeOne
    <3> QED
      BY <2>7, <2>9, <3>1, <3>2, <3>3 DEF SaveReceipt
  <2> QED
    BY <2>3, <2>4, <2>5, <2>6, <2>8, <2>9 DEF AnalysisStep, WorkerFault
<1> QED
  BY <1>2, <1>3 DEF UsageInv

LEMMA NextUsage ==
    ASSUME NEW r, Requests = {r}, IInv, UsageInv, [Next]_vars
    PROVE  UsageInv'
<1>1. CASE StartRequest(r)
  BY <1>1, UploadUsage, OrderUsage, DeletionUsage, SavedUsage DEF StartRequest
<1>2. CASE HandlerStep(r)
  BY <1>2, UploadUsage, OrderUsage, DeletionUsage, ImagesUsage, SavedUsage DEF HandlerStep
<1>3. CASE HandlerFault(r)
  BY <1>3, FaultUsage
<1>4. ASSUME UNCHANGED <<req, saved, uploaded, s3, used>>, faults' = 0 => faults = 0, SizesCover'
      PROVE  UsageInv'
  BY <1>4 DEF UsageInv
<1>5. CASE \/ \E d \in Docs : StartUpload(d) \/ Age(d)
           \/ CleanupStep \/ CleanupFails \/ UNCHANGED vars
  <2>1. faults \in Nat
    BY DEF IInv, TypeOK
  <2>2. UNCHANGED <<req, saved, uploaded, s3, used, worker>> /\ (faults' = 0 => faults = 0)
    BY <1>5, <2>1 DEF StartUpload, Age, CleanupStep, SelectExpired, DropExpiredRows,
                      DropExpiredDocs, CleanupFails, untouched, vars
  <2> QED
    BY <1>4, <2>2 DEF UsageInv, SizesCover
<1>6. CASE WorkerRestart
  <2>1. /\ UNCHANGED <<req, saved, uploaded, s3, used, faults>>
        /\ \A w \in Workers : worker'[w].pc = "idle"
    BY <1>6 DEF WorkerRestart, api, IdleWorker
  <2> QED
    BY <1>4, <2>1 DEF UsageInv, SizesCover
<1> QED
  BY <1>1, <1>2, <1>3, <1>5, <1>6, ThreadUsage DEF Next

(* Of requests that do not overlap, the user is never left charged for     *)
(* bytes that are gone, as long as no call fails: a deletion subtracts all *)
(* that it takes from the bucket, and a receipt, which refers to one image *)
(* only, carries the size of all.                                          *)
THEOREM UsageIsNoPhantom ==
    ASSUME NEW r, Requests = {r}
    PROVE  Spec => []NoPhantomUsage
<1>1. Init => UsageInv
  <2> SUFFICES ASSUME Init PROVE UsageInv
    OBVIOUS
  <2>1. Cardinality({}) = 0
    BY FS_EmptySet
  <2>2. /\ used = 0 /\ s3 = {} /\ \A q \in Requests : req[q].pc = "idle"
        /\ \A k \in SavedId : saved[k].files = {} /\ saved[k].bytes = 0
        /\ \A w \in Workers : worker[w].pc = "idle"
    BY DEF Init, IdleRequest, NotSaved, IdleWorker
  <2>3. SizesCover
    <3>1. ASSUME NEW k \in SavedId PROVE Cardinality(saved[k].files) <= saved[k].bytes
      <4>1. Cardinality(saved[k].files) = 0 /\ saved[k].bytes = 0
        BY <2>1, <2>2
      <4> QED
        BY <4>1
    <3> QED
      BY <2>2, <3>1 DEF SizesCover
  <2>4. \A q \in Requests : RequestBalanced(req[q], used, s3) /\ ~Uploads(req[q])
    BY <2>1, <2>2 DEF RequestBalanced, Uploads
  <2> QED
    BY <2>2, <2>3, <2>4 DEF UsageInv
<1>2. IInv /\ UsageInv /\ [Next]_vars => UsageInv'
  BY NextUsage
<1>3. UsageInv => NoPhantomUsage
  BY DEF UsageInv, NoPhantomUsage, RequestBalanced, Idle
<1> QED
  BY <1>1, <1>2, <1>3, OcrInductiveInvariant, PTL DEF Spec

=============================================================================
