---------------------------- MODULE OcrInvariant ----------------------------
(***************************************************************************)
(* The inductive invariants of OcrPipeline: which jobs the threads and the *)
(* saved results stand for, and what the requests that are about to push   *)
(* know about their document.  StoredInv and UsageInv hold together with   *)
(* IInv, the one if nothing saved is deleted, the other of one request.    *)
(***************************************************************************)
EXTENDS OcrPipeline

(* No job is pushed beyond the bound: every request counts before it does. *)
JobsBounded == Len(jobs) + Cardinality(Asking) <= MaxJobs

(* Documents that somebody refers to have been started.                    *)
Started(d) == status[d] # "NONE"

RequestOK(r) ==
    /\ req[r].pc \in {"put", "insert"} => req[r].file \in Files
    /\ req[r].pc \in {"pages", "pending", "push"} =>
         req[r].doc \in Docs /\ Started(req[r].doc)
    /\ req[r].pc \in {"pending", "push"} => req[r].op = "requestAi"
    /\ req[r].pc = "dropSaved" =>
         req[r].row \in SavedId /\ saved[req[r].row].state # "NONE"

(* Before it saves, a thread is the only one to know its job; after it, it *)
(* knows the result.                                                       *)
WorkerOK(w) ==
    /\ ~Working(w, "idle") => worker[w].job \in 1..taken
    /\ worker[w].pc \in {"ocr", "save"} => worker[w].first \in Files
    /\ worker[w].pc \in Unsaved => \A k \in SavedId : saved[k].job # worker[w].job
    /\ worker[w].pc \in {"activity", "done"} =>
         /\ worker[w].row \in SavedId
         /\ saved[worker[w].row].state # "NONE"
         /\ saved[worker[w].row].job = worker[w].job

(* A job is in one thread at most, and has one result at most.             *)
JobsApart ==
    \A v, w \in Workers : ~Working(v, "idle") /\ ~Working(w, "idle")
                            /\ worker[v].job = worker[w].job => v = w

ResultsApart ==
    /\ \A k \in SavedId : IF saved[k].state = "NONE" THEN saved[k].job = NoId
                                                   ELSE saved[k].job \in 1..taken
    /\ \A i, k \in SavedId : saved[i].job # NoId /\ saved[i].job = saved[k].job => i = k

IInv ==
    /\ TypeOK
    /\ JobsBounded
    /\ \A n \in 1..Len(jobs) : Started(jobs[n])
    /\ \A r \in Requests : RequestOK(r)
    /\ \A w \in Workers : WorkerOK(w)
    /\ JobsApart
    /\ ResultsApart
    /\ DoneIsSaved
    /\ InProgressIsOwned

-----------------------------------------------------------------------------
(* What the requests in progress know about images, for TempFilesStored:   *)
(* an upload has its key for itself, and who deletes an image has deleted  *)
(* its row before.                                                         *)

Uploads(q) == q.pc \in {"put", "insert"}
ToDelete(q) ==
    {f \in Files : \/ q.pc \in {"dropRows", "images", "deleteImage"} /\ f \in q.files
                   \/ q.pc = "deleteImage" /\ f = q.file}

RequestStores(q, rows, keys, images) ==
    /\ q.op # "deleteSaved" /\ q.pc \notin {"dropSaved", "subtract"}
    /\ Uploads(q) => q.file \in keys /\ rows[q.file].doc = NoDoc
    /\ q.pc = "insert" => q.file \in images
    /\ q.pc = "readRows" => q.doc # NoDoc
    /\ ToDelete(q) \subseteq keys
    /\ q.pc = "dropRows" =>
         \A f \in ToDelete(q) : \/ f = q.file
                                \/ q.op # "deleteFile" /\ rows[f].doc \in {q.doc, NoDoc}
    /\ q.pc \in {"images", "deleteImage"} => \A f \in ToDelete(q) : rows[f].doc = NoDoc

UploadsApart ==
    \A q, r \in Requests : Uploads(req[q]) =>
        /\ req[q].file \notin ToDelete(req[r])
        /\ Uploads(req[r]) /\ req[r].file = req[q].file => q = r

StoredInv ==
    /\ \A f \in Files : tempFile[f].doc # NoDoc => f \in uploaded /\ f \in s3
    /\ \A r \in Requests : RequestStores(req[r], tempFile, uploaded, s3)
    /\ UploadsApart

-----------------------------------------------------------------------------
(* What the usage counter may be ahead of the bucket, for NoPhantomUsage:  *)
(* an upload adds its image first, a deletion takes at most as many images *)
(* as it goes on to subtract, or has subtracted already.                   *)

Left(q) == Cardinality(q.files) + (IF q.pc = "deleteImage" THEN 1 ELSE 0)

RequestBalanced(q, usage, images) ==
    /\ q.pc = "put" => q.file \notin images
    /\ q.pc \in {"insert", "addUsage"} => usage + 1 <= Cardinality(images)
    /\ q.pc \notin {"insert", "addUsage", "images", "deleteImage"} =>
         usage <= Cardinality(images)
    /\ q.pc \in {"images", "deleteImage"} =>
         IF q.op = "deleteSaved" THEN usage = 0 \/ usage + Left(q) <= Cardinality(images)
                                 ELSE usage + Left(q) <= Cardinality(images) + q.bytes
    /\ q.pc \in {"dropRows", "dropSaved", "subtract"} => Cardinality(q.files) <= q.bytes
    /\ q.pc \in {"dropSaved", "subtract"} => q.op = "deleteSaved"
    /\ q.pc \in {"dropRows", "readRows"} => q.op # "deleteSaved"

(* A saved row carries the size of all the images that it refers to.       *)
SizesCover ==
    /\ \A k \in SavedId : Cardinality(saved[k].files) <= saved[k].bytes
    /\ \A w \in Workers : worker[w].pc \in {"ocr", "save"} => worker[w].first \in worker[w].files

UsageInv ==
    /\ s3 \subseteq uploaded
    /\ SizesCover
    /\ \A r \in Requests : Uploads(req[r]) => req[r].file \in uploaded
    /\ faults = 0 => \A r \in Requests : RequestBalanced(req[r], used, s3)
=============================================================================
