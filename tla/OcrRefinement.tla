---------------------------- MODULE OcrRefinement ---------------------------
(***************************************************************************)
(* The queue and its worker implement AnalysisQueue: a push asks, an       *)
(* insert serves, a thread that gives up or is killed drops its job, and   *)
(* everything else is a stuttering step.                                   *)
(***************************************************************************)
EXTENDS OcrProofs

(* Steps that neither push nor pop, where every thread that could still    *)
(* save still can, and no other.                                           *)
LEMMA QuietQueue ==
    ASSUME UNCHANGED <<jobs, taken>>,
           \A k \in SavedId : saved'[k].job = saved[k].job,
           \A w \in Workers : /\ worker'[w].pc \in Unsaved <=> worker[w].pc \in Unsaved
                              /\ worker'[w].job = worker[w].job \/ worker[w].pc \notin Unsaved
    PROVE  UNCHANGED AQ!aqVars
<1>1. JobsInThreads' = JobsInThreads
  BY DEF JobsInThreads
<1>2. OpenJobs' = OpenJobs
  BY <1>1 DEF OpenJobs
<1>3. \A n : ResultsOf(n)' = ResultsOf(n)
  BY DEF ResultsOf
<1>4. [n \in 1..Len(jobs) |-> Cardinality(ResultsOf(n))]'
        = [n \in 1..Len(jobs) |-> Cardinality(ResultsOf(n))]
  BY <1>3
<1> QED
  BY <1>2, <1>4 DEF AQ!aqVars

LEMMA QueueInit == ASSUME Init PROVE AQ!Init
<1> USE DEF Init
<1>1. jobs = << >> /\ Len(jobs) = 0 /\ taken = 0
  OBVIOUS
<1>2. JobsInThreads = {}
  BY DEF JobsInThreads, Unsaved, IdleWorker
<1>3. OpenJobs = {}
  BY <1>1, <1>2 DEF OpenJobs
<1>4. [n \in 1..Len(jobs) |-> Cardinality(ResultsOf(n))] = [n \in 1..Len(jobs) |-> 0]
  BY <1>1
<1> QED
  BY <1>1, <1>3, <1>4 DEF AQ!Init

(* A saved result has its job among those that were taken.                 *)
LEMMA NoResultYet ==
    ASSUME IInv, NEW n, n # NoId, n \notin 1..taken
    PROVE  ResultsOf(n) = {}
BY DEF ResultsOf, IInv, ResultsApart

LEMMA PushAsks ==
    ASSUME IInv, NEW r \in Requests, Push(r)
    PROVE  AQ!Ask
<1> USE DEF Push, untouched
<1>1. /\ jobs \in Seq(Docs) /\ Len(jobs) \in Nat /\ taken \in Nat /\ taken <= Len(jobs)
      /\ req[r].doc \in Docs
  BY DEF IInv, TypeOK, RequestOK, At
<1>2. Len(jobs') = Len(jobs) + 1
  BY <1>1
<1>3. OpenJobs' = OpenJobs \cup {Len(jobs) + 1}
  <2>1. JobsInThreads' = JobsInThreads
    BY DEF JobsInThreads
  <2>2. (taken + 1)..(Len(jobs) + 1) = ((taken + 1)..Len(jobs)) \cup {Len(jobs) + 1}
    BY <1>1
  <2> QED
    BY <1>2, <2>1, <2>2 DEF OpenJobs
<1>4. \A n : ResultsOf(n)' = ResultsOf(n)
  BY DEF ResultsOf
<1>5. Cardinality(ResultsOf(Len(jobs) + 1)) = 0
  <2>1. ResultsOf(Len(jobs) + 1) = {}
    BY <1>1, NoResultYet DEF NoId
  <2> QED
    BY <2>1, FS_EmptySet, Zenon
<1> DEFINE Count(n) == Cardinality(ResultsOf(n))
<1>6. [n \in 1..Len(jobs) |-> Count(n)]'
        = [n \in 1..(Len(jobs) + 1) |->
             IF n <= Len(jobs) THEN [m \in 1..Len(jobs) |-> Count(m)][n] ELSE 0]
  <2>1. [n \in 1..Len(jobs) |-> Count(n)]' = [n \in 1..(Len(jobs) + 1) |-> Count(n)]
    BY <1>2, <1>4
  <2>2. \A n \in 1..(Len(jobs) + 1) : n <= Len(jobs) \/ n = Len(jobs) + 1
    BY <1>1
  <2>3. \A n \in 1..(Len(jobs) + 1) :
          Count(n) = IF n <= Len(jobs) THEN [m \in 1..Len(jobs) |-> Count(m)][n] ELSE 0
    BY <1>1, <1>5, <2>2
  <2> QED
    BY <2>1, <2>3
<1> QED
  BY <1>2, <1>3, <1>6 DEF AQ!Ask

(* A thread that leaves Unsaved takes its job, and no other, out of open.  *)
LEMMA ThreadLetsGo ==
    ASSUME IInv, NEW w \in Workers, UNCHANGED <<jobs, taken>>, worker[w].pc \in Unsaved,
           worker'[w].pc \notin Unsaved, \A v \in Workers \ {w} : worker'[v] = worker[v]
    PROVE  /\ worker[w].job \in OpenJobs
           /\ OpenJobs' = OpenJobs \ {worker[w].job}
<1>1. worker[w].job \in 1..taken /\ taken \in Nat /\ Len(jobs) \in Nat
  BY DEF IInv, TypeOK, WorkerOK, Working, Unsaved
<1>2. worker[w].job \notin (taken + 1)..Len(jobs)
  BY <1>1
<1>3. \A v \in Workers \ {w} : worker[v].pc \in Unsaved => worker[v].job # worker[w].job
  BY DEF IInv, JobsApart, Working, Unsaved
<1>4. worker[w].job \in JobsInThreads
  BY DEF JobsInThreads
<1>5. JobsInThreads' = JobsInThreads \ {worker[w].job}
  BY <1>3 DEF JobsInThreads
<1> QED
  BY <1>2, <1>4, <1>5 DEF OpenJobs

LEMMA GivingUpDrops ==
    ASSUME IInv, NEW w \in Workers, UNCHANGED <<jobs, taken>>, worker'[w].pc \notin Unsaved,
           \A k \in SavedId : saved'[k].job = saved[k].job,
           \A v \in Workers \ {w} : worker'[v] = worker[v]
    PROVE  [AQ!Next]_AQ!aqVars
<1>1. CASE worker[w].pc \in Unsaved
  <2>1. worker[w].job \in OpenJobs /\ OpenJobs' = OpenJobs \ {worker[w].job}
    BY <1>1, ThreadLetsGo
  <2>2. \A n : ResultsOf(n)' = ResultsOf(n)
    BY DEF ResultsOf
  <2>3. [n \in 1..Len(jobs) |-> Cardinality(ResultsOf(n))]'
          = [n \in 1..Len(jobs) |-> Cardinality(ResultsOf(n))]
    BY <2>2
  <2>4. AQ!Drop({worker[w].job})
    BY <2>1, <2>3 DEF AQ!Drop
  <2>5. {worker[w].job} \in SUBSET OpenJobs
    BY <2>1
  <2> QED
    BY <2>4, <2>5 DEF AQ!Next
<1>2. CASE worker[w].pc \notin Unsaved
  BY <1>2, QuietQueue
<1> QED
  BY <1>1, <1>2

LEMMA RestartDrops ==
    ASSUME IInv, WorkerRestart
    PROVE  [AQ!Next]_AQ!aqVars
<1> USE DEF WorkerRestart, api
<1>1. JobsInThreads' = {}
  BY DEF JobsInThreads, IdleWorker, Unsaved
<1>2. JobsInThreads \subseteq 1..taken
  BY DEF JobsInThreads, IInv, WorkerOK, Working, Unsaved
<1>3. taken \in Nat /\ Len(jobs) \in Nat
  BY DEF IInv, TypeOK
<1>4. OpenJobs' = OpenJobs \ JobsInThreads
  BY <1>1, <1>2, <1>3 DEF OpenJobs
<1>5. \A n : ResultsOf(n)' = ResultsOf(n)
  BY DEF ResultsOf
<1>6. [n \in 1..Len(jobs) |-> Cardinality(ResultsOf(n))]'
        = [n \in 1..Len(jobs) |-> Cardinality(ResultsOf(n))]
  BY <1>5
<1>7. CASE JobsInThreads = {}
  <2>1. OpenJobs' = OpenJobs
    BY <1>4, <1>7
  <2> QED
    BY <1>6, <2>1 DEF AQ!aqVars
<1>8. CASE JobsInThreads # {}
  <2>1. AQ!Drop(JobsInThreads)
    BY <1>4, <1>6, <1>8 DEF AQ!Drop
  <2>2. JobsInThreads \in SUBSET OpenJobs
    BY DEF OpenJobs
  <2> QED
    BY <2>1, <2>2 DEF AQ!Next
<1> QED
  BY <1>7, <1>8

(* The job that is popped changes its place and stays open.                *)
LEMMA PopStutters ==
    ASSUME IInv, NEW w \in Workers, Pop(w)
    PROVE  UNCHANGED AQ!aqVars
<1> USE DEF Pop, api
<1>1. taken \in Nat /\ Len(jobs) \in Nat /\ taken < Len(jobs) /\ taken' = taken + 1
  BY DEF IInv, TypeOK
<1>2. worker'[w].pc = "begin" /\ worker'[w].job = taken + 1
  BY DEF IdleWorker, IInv, TypeOK
<1>3. \A v \in Workers \ {w} : worker'[v] = worker[v]
  BY DEF IInv, TypeOK
<1>4. JobsInThreads' = JobsInThreads \cup {taken + 1}
  BY <1>2, <1>3 DEF JobsInThreads, Working, Unsaved
<1>5. (taken + 1)..Len(jobs) = ((taken' + 1)..Len(jobs)) \cup {taken + 1}
  BY <1>1
<1>6. OpenJobs' = OpenJobs
  BY <1>4, <1>5 DEF OpenJobs
<1>7. \A n : ResultsOf(n)' = ResultsOf(n)
  BY DEF ResultsOf
<1>8. [n \in 1..Len(jobs) |-> Cardinality(ResultsOf(n))]'
        = [n \in 1..Len(jobs) |-> Cardinality(ResultsOf(n))]
  BY <1>7
<1> QED
  BY <1>6, <1>8 DEF AQ!aqVars

LEMMA SaveServes ==
    ASSUME IInv, NEW w \in Workers, NEW kind, NEW files,
           NEW next \in {"activity", "done"}, Save(w, kind, files, next)
    PROVE  AQ!Serve(worker[w].job) /\ worker[w].job \in OpenJobs
<1>0. PICK job : job = worker[w].job
  OBVIOUS
<1>1. worker[w] \in Analysis /\ WorkerOK(w) /\ worker[w].pc = "save"
  BY DEF IInv, TypeOK, Save, Working
<1>2. PICK k \in FreshSaved :
        /\ saved' = [saved EXCEPT ![k] =
             [state |-> "SAVED", kind |-> kind, job |-> worker[w].job, files |-> files,
              bytes |-> Cardinality(worker[w].files)]]
        /\ worker' = [worker EXCEPT ![w].pc = next, ![w].row = k]
  BY DEF Save
<1>3. k \in SavedId /\ saved[k].job = NoId
  BY DEF FreshSaved, IInv, ResultsApart
<1>4. saved'[k].job = job /\ \A i \in SavedId \ {k} : saved'[i].job = saved[i].job
  BY <1>0, <1>2, <1>3 DEF IInv, TypeOK
<1>5. worker'[w] = [worker[w] EXCEPT !.pc = next, !.row = k]
  BY <1>2 DEF IInv, TypeOK
<1>6. worker'[w].pc = next /\ \A v \in Workers \ {w} : worker'[v] = worker[v]
  BY <1>1, <1>2, <1>5 DEF Analysis, IInv, TypeOK
<1>7. UNCHANGED <<jobs, taken>>
  BY DEF Save, api
<1>8. job \in 1..Len(jobs) /\ job # NoId /\ \A i \in SavedId : saved[i].job # job
  BY <1>0, <1>1 DEF WorkerOK, Working, Unsaved, NoId, IInv, TypeOK
<1>9. job \in OpenJobs /\ OpenJobs' = OpenJobs \ {job}
  BY <1>0, <1>1, <1>6, <1>7, ThreadLetsGo DEF Unsaved
<1>10. ResultsOf(job) = {} /\ ResultsOf(job)' = {k}
  BY <1>3, <1>4, <1>8 DEF ResultsOf
<1>11. Cardinality(ResultsOf(job)) = 0 /\ Cardinality(ResultsOf(job)') = 1
  <2>1. Cardinality(ResultsOf(job)) = 0
    BY <1>10, FS_EmptySet, Zenon
  <2>2. Cardinality({k}) = 1
    BY FS_Singleton
  <2> QED
    BY <1>10, <2>1, <2>2, Zenon
<1>12. ASSUME NEW n, n # job, n # NoId PROVE ResultsOf(n)' = ResultsOf(n)
  BY <1>3, <1>4, <1>12 DEF ResultsOf
<1> DEFINE results == [n \in 1..Len(jobs) |-> Cardinality(ResultsOf(n))]
<1>13. results' = [results EXCEPT ![job] = 1]
  <2>1. \A n \in 1..Len(jobs) : n # NoId
    BY DEF NoId
  <2>2. ASSUME NEW n \in 1..Len(jobs)
        PROVE  Cardinality(ResultsOf(n)') = IF n = job THEN 1 ELSE Cardinality(ResultsOf(n))
    <3>1. CASE n = job
      BY <1>11, <3>1
    <3>2. CASE n # job
      BY <1>12, <2>1, <3>2
    <3> QED
      BY <3>1, <3>2
  <2> QED
    BY <1>7, <1>8, <2>2
<1>14. results[job] = 0
  BY <1>8, <1>11
<1> QED
  BY <1>0, <1>7, <1>9, <1>13, <1>14 DEF AQ!Serve

LEMMA ThreadImplements ==
    ASSUME IInv, NEW w \in Workers, Pop(w) \/ AnalysisStep(w) \/ WorkerFault(w)
    PROVE  [AQ!Next]_AQ!aqVars
<1> USE DEF api
<1>1. CASE Pop(w)
  BY <1>1, PopStutters
<1>2. ASSUME NEW pc, Proceed(w, pc), UNCHANGED <<jobs, taken, saved>>,
             worker[w].pc \in Unsaved \/ pc \notin Unsaved
      PROVE  [AQ!Next]_AQ!aqVars
  <2>1. worker[w] \in Analysis /\ worker'[w] = [worker[w] EXCEPT !.pc = pc]
    BY <1>2 DEF Proceed, IInv, TypeOK
  <2>2. /\ worker'[w].pc = pc /\ worker'[w].job = worker[w].job
        /\ \A v \in Workers \ {w} : worker'[v] = worker[v]
    BY <1>2, <2>1 DEF Proceed, Analysis, IInv, TypeOK
  <2>3. CASE pc \in Unsaved
    BY <1>2, <2>2, <2>3, QuietQueue
  <2>4. CASE pc \notin Unsaved
    BY <1>2, <2>2, <2>4, GivingUpDrops
  <2> QED
    BY <2>3, <2>4
<1>3. CASE Begin(w) \/ NoFilesLeft(w) \/ Recognise(w) \/ Reject(w) \/ AddActivity(w)
            \/ StatementFails(w)
  BY <1>2, <1>3 DEF Begin, NoFilesLeft, Recognise, Reject, AddActivity, StatementFails, Working,
                    Unsaved
<1>4. CASE ReadFiles(w)
  <2>1. worker[w] \in Analysis
    BY DEF IInv, TypeOK
  <2>2. PICK f \in FilesOf(DocOf(w)) :
          worker' = [worker EXCEPT ![w].pc = "ocr", ![w].files = FilesOf(DocOf(w)),
                                   ![w].first = f]
    BY <1>4 DEF ReadFiles
  <2>3. worker'[w] = [worker[w] EXCEPT !.pc = "ocr", !.files = FilesOf(DocOf(w)), !.first = f]
    BY <2>2 DEF IInv, TypeOK
  <2>4. /\ worker'[w].pc = "ocr" /\ worker'[w].job = worker[w].job
        /\ \A v \in Workers \ {w} : worker'[v] = worker[v]
    BY <2>1, <2>2, <2>3 DEF Analysis, IInv, TypeOK
  <2> QED
    BY <1>4, <2>4, QuietQueue DEF ReadFiles, Working, Unsaved
<1>5. CASE SaveDocument(w) \/ SaveReceipt(w)
  BY <1>5, SaveServes DEF SaveDocument, SaveReceipt, AQ!Next
<1>6. CASE MarkDone(w) \/ MarkFailed(w) \/ MarkFailedFails(w)
  <2>1. /\ UNCHANGED <<jobs, taken, saved>>
        /\ worker' = [worker EXCEPT ![w] = IdleWorker]
    BY <1>6 DEF MarkDone, MarkFailed, MarkFailedFails, Close
  <2>2. worker'[w].pc \notin Unsaved /\ \A v \in Workers \ {w} : worker'[v] = worker[v]
    BY <2>1 DEF IdleWorker, Unsaved, IInv, TypeOK
  <2> QED
    BY <2>1, <2>2, GivingUpDrops
<1> QED
  BY <1>1, <1>3, <1>4, <1>5, <1>6 DEF AnalysisStep, WorkerFault

LEMMA RequestImplements ==
    ASSUME IInv, NEW r \in Requests, StartRequest(r) \/ HandlerStep(r) \/ HandlerFault(r)
    PROVE  [AQ!Next]_AQ!aqVars
<1>1. CASE Push(r)
  BY <1>1, PushAsks DEF AQ!Next
<1>2. CASE ~Push(r)
  <2>1. UNCHANGED <<jobs, taken, worker>>
    BY <1>2 DEF StartRequest, HandlerStep, HandlerFault, Upload, PutImage, InsertFile,
       InsertFileFails, AddUsage, Reorder, RequestAi, StartOrder, SetPages, SetPagesFails,
       MarkPending, DeleteFile, DeleteAll, DeleteDoc, ReadRows, DropRows, SkipImage, PickImage,
       DeleteImage, DeleteImageFails, SubtractUsage, SubtractUsageFails, DropDoc, DeleteSaved,
       DropDocument, DropReceipt, SubtractReceipt, SavedDeleted, Abort, untouched
  <2>2. \/ UNCHANGED saved
        \/ saved' = [saved EXCEPT ![req[r].row].state = "REMOVED"]
    BY <1>2 DEF StartRequest, HandlerStep, HandlerFault, Upload, PutImage, InsertFile,
       InsertFileFails, AddUsage, Reorder, RequestAi, StartOrder, SetPages, SetPagesFails,
       MarkPending, DeleteFile, DeleteAll, DeleteDoc, ReadRows, DropRows, SkipImage, PickImage,
       DeleteImage, DeleteImageFails, SubtractUsage, SubtractUsageFails, DropDoc, DeleteSaved,
       DropDocument, DropReceipt, SubtractReceipt, SavedDeleted, Abort, untouched
  <2>3. \A k \in SavedId : saved'[k].job = saved[k].job
    BY <2>2 DEF IInv, TypeOK, SavedRow
  <2> QED
    BY <2>1, <2>3, QuietQueue
<1> QED
  BY <1>1, <1>2

LEMMA EnvironmentImplements ==
    ASSUME IInv,
           \/ \E d \in Docs : StartUpload(d) \/ Age(d)
           \/ WorkerRestart \/ CleanupStep \/ CleanupFails \/ UNCHANGED vars
    PROVE  [AQ!Next]_AQ!aqVars
<1>1. CASE WorkerRestart
  BY <1>1, RestartDrops
<1>2. CASE ~WorkerRestart
  <2>1. UNCHANGED <<jobs, taken, worker, saved>>
    BY <1>2 DEF StartUpload, Age, CleanupStep, SelectExpired, DropExpiredRows, DropExpiredDocs,
                CleanupFails, vars, untouched
  <2> QED
    BY <2>1, QuietQueue
<1> QED
  BY <1>1, <1>2

(* Every accepted request is answered at most once: the pipeline, for any  *)
(* number of threads, restarts and failures, implements AnalysisQueue.     *)
THEOREM PipelineServesAtMostOnce == Spec => ServedAtMostOnce
<1>1. Init => AQ!Init
  BY QueueInit
<1>2. IInv /\ [Next]_vars => [AQ!Next]_AQ!aqVars
  <2> SUFFICES ASSUME IInv, [Next]_vars PROVE [AQ!Next]_AQ!aqVars
    OBVIOUS
  <2> QED
    BY ThreadImplements, RequestImplements, EnvironmentImplements DEF Next
<1> QED
  BY <1>1, <1>2, OcrInductiveInvariant, PTL DEF Spec, ServedAtMostOnce, AQ!Spec
=============================================================================
