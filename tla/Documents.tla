------------------------------ MODULE Documents -----------------------------
(***************************************************************************)
(* documents.service.ts without its alerts.  The reads before the first    *)
(* write are one step, then every await is one; a request that its guards  *)
(* refuse at once has no step.  The activities of a document are not kept; *)
(* the images of its files are the subject of TempUploads.                 *)
(***************************************************************************)
EXTENDS LibraryStore

(* POST /documents.  The category is checked, the row inserted.            *)
CreateDocument(r) ==
    /\ Begins(r, "create")
    /\ \E d \in Docs, pages \in SUBSET Pages, bytes \in 0..1 :
         /\ doc[d].state = "NONE"
         /\ doc' = [doc EXCEPT ![d] = NewDoc(bytes)]
         /\ req' = [req EXCEPT ![r] =
              [IdleRequest EXCEPT !.op = "create", !.doc = d, !.pages = pages,
                                  !.pc = IF pages = {} THEN "activity" ELSE "file"]]
    /\ UNCHANGED <<docFile, tag, docTag, unlocking, receipts, used, cards, scenario, faults>>

(* A file of a document that was deleted meanwhile breaks the foreign key. *)
InsertFile(r) ==
    /\ At(r, "file")
    /\ \E p \in req[r].pages :
         /\ \A q \in req[r].pages : p <= q
         /\ Exists(req[r].doc)
         /\ docFile' = docFile \cup {<<req[r].doc, p>>}
         /\ req' = [req EXCEPT ![r].pages = @ \ {p},
                               ![r].pc = IF req[r].pages = {p} THEN "activity" ELSE "file"]
    /\ UNCHANGED <<doc, tag, docTag, unlocking, receipts, used, cards, scenario, asked,
                   faults>>

(* createActivity, whose foreign key may fail as well: both end here.      *)
WriteActivity(r) ==
    /\ At(r, "activity")
    /\ req' = Finished(r)
    /\ UNCHANGED <<documents, unlocking, receipts, used, cards, scenario, asked, faults>>

ForeignKeyFails(r) ==
    /\ req[r].pc \in {"file", "addTag"} /\ ~Exists(req[r].doc)
    /\ req' = Finished(r)
    /\ UNCHANGED <<documents, unlocking, receipts, used, cards, scenario, asked, faults>>

-----------------------------------------------------------------------------
(* Reading *)

(* hasValidUnlockToken: the cookie holds one token, for one document.      *)
Mut_ValidToken(d) == cookie # NoDoc
ValidToken(d) == cookie = d

Answer(d, whole) == [doc |-> d, whole |-> whole, locked |-> doc[d].locked]

(* GET /documents: lists always redact what is locked.                     *)
GetDocuments(r) ==
    /\ Begins(r, "list")
    /\ view' = {Answer(d, ~doc[d].locked) : d \in {e \in Docs : Exists(e)}}
    /\ UNCHANGED <<documents, cookie, proven, receipts, used, cards, req, scenario, faults>>

GetDocument(r) ==
    /\ Begins(r, "read")
    /\ \E d \in Docs : /\ Exists(d)
                       /\ view' = {Answer(d, ~doc[d].locked \/ ValidToken(d))}
    /\ UNCHANGED <<documents, cookie, proven, receipts, used, cards, req, scenario, faults>>

(* generatePdf refuses a locked document and one without files.            *)
Download(r) ==
    /\ Begins(r, "download")
    /\ \E d \in Docs :
         /\ Exists(d) /\ (~doc[d].locked \/ ValidToken(d))
         /\ \E p \in Pages : <<d, p>> \in docFile
         /\ view' = {Answer(d, TRUE)}
    /\ UNCHANGED <<documents, cookie, proven, receipts, used, cards, req, scenario, faults>>

-----------------------------------------------------------------------------
(* Locks.  The PIN is right or wrong; its counting is in Sessions.         *)

StartLock(r) ==
    /\ \E op \in {"unlock", "lock"}, d \in Docs, locked \in BOOLEAN :
         /\ Begins(r, op) /\ Exists(d) /\ (op = "unlock" => locked)
         /\ req' = [req EXCEPT ![r] =
              [IdleRequest EXCEPT !.op = op, !.pc = "pin", !.doc = d, !.value = locked]]
    /\ UNCHANGED <<documents, unlocking, receipts, used, cards, scenario, faults>>

PinIsWrong(r) ==
    /\ At(r, "pin")
    /\ req' = Finished(r)
    /\ UNCHANGED <<documents, unlocking, receipts, used, cards, scenario, asked, faults>>

(* The token replaces whatever token the cookie held.                      *)
Unlock(r) ==
    /\ At(r, "pin") /\ Op(r, "unlock")
    /\ cookie' = req[r].doc
    /\ proven' = proven \cup {req[r].doc}
    /\ req' = Finished(r)
    /\ UNCHANGED <<documents, view, receipts, used, cards, scenario, asked, faults>>

PinIsRight(r) ==
    /\ At(r, "pin") /\ Op(r, "lock")
    /\ req' = Moved(r, "load")
    /\ UNCHANGED <<documents, unlocking, receipts, used, cards, scenario, asked, faults>>

(* DOCUMENT_UNLOCK_TOKEN_TTL_SECONDS after the PIN was entered.            *)
ExpireToken(d) ==
    /\ d \in proven
    /\ proven' = proven \ {d}
    /\ cookie' = IF cookie = d THEN NoDoc ELSE cookie
    /\ UNCHANGED <<documents, view, receipts, used, cards, req, scenario, asked, faults>>

-----------------------------------------------------------------------------
(* Find, change, save *)

Loaded(r) == [req EXCEPT ![r].row = doc[req[r].doc], ![r].pc = "save"]

(* PATCH /documents/:id and /favorite start with the repository's find.    *)
StartEdit(r) ==
    /\ \E op \in {"edit", "favorite"}, d \in Docs, value \in BOOLEAN :
         /\ Begins(r, op) /\ Exists(d)
         /\ req' = [req EXCEPT ![r] =
              [IdleRequest EXCEPT !.op = op, !.pc = "save", !.doc = d, !.row = doc[d],
                                  !.value = value]]
    /\ UNCHANGED <<documents, unlocking, receipts, used, cards, scenario, faults>>

LoadForLock(r) ==
    /\ At(r, "load") /\ Op(r, "lock")
    /\ req' = IF Exists(req[r].doc) THEN Loaded(r) ELSE Finished(r)
    /\ UNCHANGED <<documents, unlocking, receipts, used, cards, scenario, asked, faults>>

Edited(r) ==
    CASE Op(r, "edit")     -> [req[r].row EXCEPT !.title = req[r].value]
      [] Op(r, "favorite") -> [req[r].row EXCEPT !.favorite = req[r].value]
      [] Op(r, "lock")     -> [req[r].row EXCEPT !.locked = req[r].value]

(* The whole row is written, and inserted again if it was deleted.         *)
SaveDocument(r) ==
    /\ At(r, "save") /\ req[r].op \in {"edit", "favorite", "lock"}
    /\ doc' = [doc EXCEPT ![req[r].doc] = Edited(r)]
    /\ req' = IF Op(r, "edit") THEN Moved(r, "activity") ELSE Finished(r)
    /\ UNCHANGED <<docFile, tag, docTag, unlocking, receipts, used, cards, scenario, asked,
                   faults>>

-----------------------------------------------------------------------------
(* Deletion and tags *)

StartDelete(r) ==
    /\ Begins(r, "deleteDoc")
    /\ \E d \in Docs :
         /\ Exists(d)
         /\ req' = [req EXCEPT ![r] =
              [IdleRequest EXCEPT !.op = "deleteDoc", !.pc = "drop", !.doc = d,
                                  !.row = doc[d]]]
    /\ UNCHANGED <<documents, unlocking, receipts, used, cards, scenario, faults>>

(* One transaction, whether or not the document is still there.            *)
Without(d, pairs) == {x \in pairs : x[1] # d}
Mut_DropDocument(r) ==
    /\ At(r, "drop") /\ Op(r, "deleteDoc")
    /\ doc' = [doc EXCEPT ![req[r].doc].state = "GONE"]
    /\ docFile' = Without(req[r].doc, docFile)
    /\ used' = UsedLess(req[r].row.bytes)
    /\ req' = Finished(r)
    /\ UNCHANGED <<tag, docTag, unlocking, receipts, cards, scenario, asked, faults>>
DropDocument(r) ==
    /\ At(r, "drop") /\ Op(r, "deleteDoc")
    /\ doc' = [doc EXCEPT ![req[r].doc].state = "GONE"]
    /\ docFile' = Without(req[r].doc, docFile)
    /\ docTag' = Without(req[r].doc, docTag)
    /\ used' = UsedLess(req[r].row.bytes)
    /\ req' = Finished(r)
    /\ UNCHANGED <<tag, unlocking, receipts, cards, scenario, asked, faults>>

StartTag(r) ==
    /\ \E op \in {"addTag", "removeTag"}, d \in Docs, n \in Names :
         /\ Begins(r, op) /\ Exists(d) /\ (op = "removeTag" => n \in tag)
         /\ req' = [req EXCEPT ![r] =
              [IdleRequest EXCEPT !.op = op, !.doc = d, !.name = n,
                                  !.pc = IF op = "addTag" THEN "tag" ELSE "removeTag"]]
    /\ UNCHANGED <<documents, unlocking, receipts, used, cards, scenario, faults>>

(* findOrCreate: the unique index of tags makes the insert or the find.    *)
FindOrCreateTag(r) ==
    /\ At(r, "tag")
    /\ tag' = tag \cup {req[r].name}
    /\ req' = Moved(r, "exists")
    /\ UNCHANGED <<doc, docFile, docTag, unlocking, receipts, used, cards, scenario, asked,
                   faults>>

Tagged(r) == <<req[r].doc, req[r].name>> \in docTag

CheckTag(r) ==
    /\ At(r, "exists")
    /\ req' = IF Tagged(r) THEN Finished(r) ELSE Moved(r, "addTag")
    /\ UNCHANGED <<documents, unlocking, receipts, used, cards, scenario, asked, faults>>

(* Saving a pair that another request added is no write.                   *)
AddTag(r) ==
    /\ At(r, "addTag") /\ Exists(req[r].doc)
    /\ docTag' = docTag \cup {<<req[r].doc, req[r].name>>}
    /\ req' = Moved(r, "activity")
    /\ UNCHANGED <<doc, docFile, tag, unlocking, receipts, used, cards, scenario, asked,
                   faults>>

RemoveTag(r) ==
    /\ At(r, "removeTag")
    /\ docTag' = docTag \ {<<req[r].doc, req[r].name>>}
    /\ req' = Finished(r)
    /\ UNCHANGED <<doc, docFile, tag, unlocking, receipts, used, cards, scenario, asked,
                   faults>>

-----------------------------------------------------------------------------
DocumentRequest(r) ==
    \/ CreateDocument(r) \/ GetDocuments(r) \/ GetDocument(r) \/ Download(r)
    \/ StartLock(r) \/ StartEdit(r) \/ StartDelete(r) \/ StartTag(r)

DocumentStep(r) ==
    \/ InsertFile(r) \/ WriteActivity(r) \/ ForeignKeyFails(r)
    \/ PinIsWrong(r) \/ PinIsRight(r) \/ Unlock(r)
    \/ LoadForLock(r) \/ SaveDocument(r) \/ DropDocument(r)
    \/ FindOrCreateTag(r) \/ CheckTag(r) \/ AddTag(r) \/ RemoveTag(r)
=============================================================================
