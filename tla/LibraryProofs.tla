--------------------------- MODULE LibraryProofs ----------------------------
(***************************************************************************)
(* The properties of Library, for any number of documents, receipts,       *)
(* images, requests and threads.                                           *)
(***************************************************************************)
EXTENDS LibraryInvariant, FiniteSetTheorems, TLAPS

-----------------------------------------------------------------------------
(* Types *)

(* An idle slot holds nothing.                                             *)
LEMMA IdleHeld ==
    IdleRequest \in Request /\ RequestHeld(IdleRequest) /\ Seen(IdleRequest)
<1>1. NoDocRow \in DocRow /\ NoReceiptRow \in ReceiptRow
  BY DEF NoDocRow, DocRow, NoReceiptRow, ReceiptRow, RowState
<1>2. IdleRequest \in Request
  BY <1>1 DEF IdleRequest, Request, RequestPc
<1> QED
  BY <1>2 DEF IdleRequest, RequestHeld, DocumentHeld, ReceiptHeld, Seen, SavesDocument,
              DropsDocument

(* What is left alone while one slot of the requests changes.              *)
TypedStep(r, q) ==
    /\ req' = [req EXCEPT ![r] = q]
    /\ UNCHANGED <<documents, unlocking, receipts, used, cards, scenario>>
    /\ asked' \in Nat /\ faults' \in Nat

LEMMA SlotChanges ==
    ASSUME TypeInv, NEW r \in Requests, NEW q \in Request, RequestHeld(q), Seen(q)',
           req' = [req EXCEPT ![r] = q],
           tag \subseteq tag',
           \A d \in Docs : doc[d].state # "NONE" =>
               doc'[d].state # "NONE" /\ doc'[d].bytes = doc[d].bytes
    PROVE  /\ req' \in [Requests -> Request]
           /\ \A s \in Requests : RequestHeld(req'[s]) /\ Seen(req[s])'
<1>1. req \in [Requests -> Request]
  BY DEF TypeInv, TablesOK
<1>2. req' \in [Requests -> Request] /\ req'[r] = q /\ \A s \in Requests \ {r} : req'[s] = req[s]
  BY <1>1
<1>3. ASSUME NEW s \in Requests
      PROVE  RequestHeld(req'[s]) /\ Seen(req[s])'
  <2>1. CASE s = r
    BY <1>2, <2>1 DEF Seen, SavesDocument, DropsDocument, RequestHeld
  <2>2. CASE s # r
    <3>1. req'[s] = req[s] /\ RequestHeld(req[s]) /\ Seen(req[s])
      BY <1>2, <2>2 DEF TypeInv
    <3>2. SavesDocument(req[s]) \/ DropsDocument(req[s]) => req[s].doc \in Docs
      BY <3>1 DEF RequestHeld, DocumentHeld
    <3> QED
      BY <3>1, <3>2 DEF Seen, SavesDocument, DropsDocument
  <2> QED
    BY <2>1, <2>2
<1> QED
  BY <1>2, <1>3

LEMMA TypedStepKeeps ==
    ASSUME TypeInv, NEW r \in Requests, NEW q \in Request, RequestHeld(q), Seen(q),
           TypedStep(r, q)
    PROVE  TypeInv'
<1>1. Seen(q)'
  BY DEF TypedStep, documents, Seen, SavesDocument, DropsDocument
<1>2. req' \in [Requests -> Request] /\ \A s \in Requests : RequestHeld(req'[s]) /\ Seen(req[s])'
  BY <1>1, SlotChanges DEF TypedStep, documents
<1>3. TablesOK'
  BY <1>2 DEF TypeInv, TablesOK, TypedStep, documents, unlocking, receipts, cards, Exists
<1> QED
  BY <1>2, <1>3 DEF TypeInv, RequestHeld, DocumentHeld, ReceiptHeld, SavesDocument,
                    DropsDocument, HasImage

(* The steps of documents that write to no table.                          *)
Quietly(r, q) ==
    /\ q \in Request /\ RequestHeld(q) /\ Seen(q) /\ TypedStep(r, q)
    /\ q.op \in DocumentOps \cup CardOps \cup {"none"}

LEMMA Finishes ==
    ASSUME NEW r, TypedStep(r, IdleRequest)
    PROVE  Quietly(r, IdleRequest)
BY IdleHeld DEF Quietly, IdleRequest

LEMMA DocumentStarts ==
    ASSUME TypeInv, NEW r \in Requests, StartLock(r) \/ StartEdit(r) \/ StartDelete(r) \/ StartTag(r)
    PROVE  \E q : Quietly(r, q)
<1>0. /\ IdleRequest \in Request /\ doc \in [Docs -> DocRow]
      /\ asked \in Nat /\ faults \in Nat
  BY IdleHeld DEF TypeInv, TablesOK
<1>1. CASE StartLock(r)
  <2>1. PICK op \in {"unlock", "lock"}, d \in Docs, locked \in BOOLEAN :
           /\ asked' = asked + 1 /\ req' = [req EXCEPT ![r] =
              [IdleRequest EXCEPT !.op = op, !.pc = "pin", !.doc = d, !.value = locked]]
    BY <1>1 DEF StartLock, Begins
  <2> DEFINE q == [IdleRequest EXCEPT !.op = op, !.pc = "pin", !.doc = d, !.value = locked]
  <2>0. op \in AllOps \cup {"none"} /\ "pin" \in RequestPc
    BY <1>0 DEF AllOps, DocumentOps, RequestPc
  <2>2. q \in Request
    BY <1>0, <2>0 DEF Request
  <2>3. /\ q.op = op /\ q.pc = "pin" /\ q.doc = d /\ q.new = NoImage /\ q.old = NoImage
        /\ q.copy = NoReceiptRow
    BY DEF IdleRequest
  <2>4. TypedStep(r, q)
    <3>1. req' = [req EXCEPT ![r] = q]
      BY <2>1
    <3>2. UNCHANGED <<documents, unlocking, receipts, used, cards, scenario, faults>>
      BY <1>1 DEF StartLock
    <3>3. asked' \in Nat
      BY <1>0, <2>1
    <3>4. faults' \in Nat
      BY <1>0, <3>2
    <3> HIDE DEF q
    <3> QED
      BY <3>1, <3>2, <3>3, <3>4 DEF TypedStep
  <2> HIDE DEF q
  <2>5. RequestHeld(q) /\ Seen(q) /\ q.op \in DocumentOps
    BY <2>3 DEF RequestHeld, DocumentHeld, ReceiptHeld, Seen, SavesDocument, DropsDocument,
                DocumentOps
  <2> QED
    BY <2>2, <2>4, <2>5 DEF Quietly
<1>2. CASE StartEdit(r)
  <2>1. PICK op \in {"edit", "favorite"}, d \in Docs, value \in BOOLEAN :
           /\ Exists(d) /\ asked' = asked + 1
           /\ req' = [req EXCEPT ![r] =
                [IdleRequest EXCEPT !.op = op, !.pc = "save", !.doc = d, !.row = doc[d],
                                    !.value = value]]
    BY <1>2 DEF StartEdit, Begins
  <2> DEFINE q == [IdleRequest EXCEPT !.op = op, !.pc = "save", !.doc = d, !.row = doc[d],
                                      !.value = value]
  <2>0. op \in AllOps \cup {"none"} /\ "save" \in RequestPc /\ doc[d] \in DocRow
    BY <1>0 DEF AllOps, DocumentOps, RequestPc
  <2>2. q \in Request
    BY <1>0, <2>0 DEF Request
  <2>3. /\ q.op = op /\ q.pc = "save" /\ q.doc = d /\ q.row = doc[d] /\ q.new = NoImage
        /\ q.old = NoImage /\ q.copy = NoReceiptRow
    BY DEF IdleRequest
  <2>4. TypedStep(r, q)
    <3>1. req' = [req EXCEPT ![r] = q]
      BY <2>1
    <3>2. UNCHANGED <<documents, unlocking, receipts, used, cards, scenario, faults>>
      BY <1>2 DEF StartEdit
    <3>3. asked' \in Nat
      BY <1>0, <2>1
    <3>4. faults' \in Nat
      BY <1>0, <3>2
    <3> HIDE DEF q
    <3> QED
      BY <3>1, <3>2, <3>3, <3>4 DEF TypedStep
  <2> HIDE DEF q
  <2>5. RequestHeld(q) /\ Seen(q) /\ q.op \in DocumentOps
    BY <2>1, <2>3 DEF RequestHeld, DocumentHeld, ReceiptHeld, Seen, SavesDocument,
                      DropsDocument, DocumentOps, Exists
  <2> QED
    BY <2>2, <2>4, <2>5 DEF Quietly
<1>3. CASE StartDelete(r)
  <2>1. PICK d \in Docs :
           /\ Exists(d) /\ asked' = asked + 1
           /\ req' = [req EXCEPT ![r] =
                [IdleRequest EXCEPT !.op = "deleteDoc", !.pc = "drop", !.doc = d,
                                    !.row = doc[d]]]
    BY <1>3 DEF StartDelete, Begins
  <2> DEFINE q == [IdleRequest EXCEPT !.op = "deleteDoc", !.pc = "drop", !.doc = d,
                                      !.row = doc[d]]
  <2>0. "deleteDoc" \in AllOps \cup {"none"} /\ "drop" \in RequestPc /\ doc[d] \in DocRow
    BY <1>0 DEF AllOps, DocumentOps, RequestPc
  <2>2. q \in Request
    BY <1>0, <2>0 DEF Request
  <2>3. /\ q.op = "deleteDoc" /\ q.pc = "drop" /\ q.doc = d /\ q.row = doc[d]
        /\ q.new = NoImage /\ q.old = NoImage /\ q.copy = NoReceiptRow
    BY DEF IdleRequest
  <2>4. TypedStep(r, q)
    <3>1. req' = [req EXCEPT ![r] = q]
      BY <2>1
    <3>2. UNCHANGED <<documents, unlocking, receipts, used, cards, scenario, faults>>
      BY <1>3 DEF StartDelete
    <3>3. asked' \in Nat
      BY <1>0, <2>1
    <3>4. faults' \in Nat
      BY <1>0, <3>2
    <3> HIDE DEF q
    <3> QED
      BY <3>1, <3>2, <3>3, <3>4 DEF TypedStep
  <2> HIDE DEF q
  <2>5. RequestHeld(q) /\ Seen(q) /\ q.op \in DocumentOps
    BY <2>1, <2>3 DEF RequestHeld, DocumentHeld, ReceiptHeld, Seen, SavesDocument,
                      DropsDocument, DocumentOps, Exists
  <2> QED
    BY <2>2, <2>4, <2>5 DEF Quietly
<1>4. CASE StartTag(r)
  <2>1. PICK op \in {"addTag", "removeTag"}, d \in Docs, n \in Names :
           /\ asked' = asked + 1 /\ req' = [req EXCEPT ![r] =
              [IdleRequest EXCEPT !.op = op, !.doc = d, !.name = n,
                                  !.pc = IF op = "addTag" THEN "tag" ELSE "removeTag"]]
    BY <1>4 DEF StartTag, Begins
  <2> DEFINE q == [IdleRequest EXCEPT !.op = op, !.doc = d, !.name = n,
                                      !.pc = IF op = "addTag" THEN "tag" ELSE "removeTag"]
  <2>0. op \in AllOps \cup {"none"} /\ "tag" \in RequestPc /\ "removeTag" \in RequestPc
    BY <1>0 DEF AllOps, DocumentOps, RequestPc
  <2>2. q \in Request
    <3>1. PICK pc \in RequestPc : pc = IF op = "addTag" THEN "tag" ELSE "removeTag"
      BY <2>0
    <3>2. q = [IdleRequest EXCEPT !.op = op, !.doc = d, !.name = n, !.pc = pc]
      BY <3>1
    <3> QED
      BY ZenonT(60), <1>0, <2>0, <3>2 DEF Request
  <2>3. /\ q.op = op /\ q.pc \in {"tag", "removeTag"} /\ q.doc = d /\ q.name = n
        /\ q.new = NoImage /\ q.old = NoImage /\ q.copy = NoReceiptRow
    BY DEF IdleRequest
  <2>4. TypedStep(r, q)
    <3>1. req' = [req EXCEPT ![r] = q]
      BY <2>1
    <3>2. UNCHANGED <<documents, unlocking, receipts, used, cards, scenario, faults>>
      BY <1>4 DEF StartTag
    <3>3. asked' \in Nat
      BY <1>0, <2>1
    <3>4. faults' \in Nat
      BY <1>0, <3>2
    <3> HIDE DEF q
    <3> QED
      BY <3>1, <3>2, <3>3, <3>4 DEF TypedStep
  <2> HIDE DEF q
  <2>5. RequestHeld(q) /\ Seen(q) /\ q.op \in DocumentOps
    BY <2>3 DEF RequestHeld, DocumentHeld, ReceiptHeld, Seen, SavesDocument, DropsDocument,
                DocumentOps
  <2> QED
    BY <2>2, <2>4, <2>5 DEF Quietly
<1> QED
  BY <1>1, <1>2, <1>3, <1>4

(* A slot of which only the pc changes.                                    *)
LEMMA MovedIs ==
    ASSUME TypeInv, NEW r \in Requests, NEW pc \in RequestPc
    PROVE  LET q == [req[r] EXCEPT !.pc = pc]
           IN  /\ Moved(r, pc) = [req EXCEPT ![r] = q]
               /\ q \in Request /\ req[r] \in Request
               /\ q.pc = pc /\ q.op = req[r].op /\ q.doc = req[r].doc /\ q.row = req[r].row
               /\ q.name = req[r].name /\ q.receipt = req[r].receipt
               /\ q.copy = req[r].copy /\ q.bill = req[r].bill /\ q.new = req[r].new
               /\ q.old = req[r].old /\ q.pages = req[r].pages /\ q.value = req[r].value
<1>1. req \in [Requests -> Request]
  BY DEF TypeInv, TablesOK
<1> QED
  BY <1>1 DEF Moved, Request

LEMMA DocumentMoves ==
    ASSUME TypeInv, NEW r \in Requests,
           \/ WriteActivity(r) \/ ForeignKeyFails(r) \/ PinIsWrong(r) \/ PinIsRight(r)
           \/ LoadForLock(r) \/ CheckTag(r)
    PROVE  \E q : Quietly(r, q)
<1>0. /\ req \in [Requests -> Request] /\ doc \in [Docs -> DocRow]
      /\ asked \in Nat /\ faults \in Nat /\ RequestHeld(req[r]) /\ Seen(req[r])
  BY DEF TypeInv, TablesOK
<1>1. CASE WriteActivity(r) \/ ForeignKeyFails(r) \/ PinIsWrong(r)
  <2>1. TypedStep(r, IdleRequest)
    BY <1>0, <1>1 DEF WriteActivity, ForeignKeyFails, PinIsWrong, Finished, TypedStep
  <2> QED
    BY <2>1, Finishes
<1>2. CASE PinIsRight(r)
  <2> DEFINE q == [req[r] EXCEPT !.pc = "load"]
  <2>1. /\ Moved(r, "load") = [req EXCEPT ![r] = q] /\ q \in Request
        /\ q.pc = "load" /\ q.op = req[r].op /\ q.doc = req[r].doc /\ q.new = req[r].new
        /\ q.old = req[r].old /\ q.copy = req[r].copy
    <3>1. "load" \in RequestPc
      BY DEF RequestPc
    <3> QED
      BY <3>1, MovedIs
  <2> HIDE DEF q
  <2>2. TypedStep(r, q)
    BY <1>0, <1>2, <2>1 DEF PinIsRight, TypedStep
  <2>3. RequestHeld(q) /\ Seen(q) /\ q.op \in DocumentOps
    BY <1>0, <1>2, <2>1 DEF PinIsRight, At, Op, RequestHeld, DocumentHeld, ReceiptHeld, Seen,
                            SavesDocument, DropsDocument, DocumentOps
  <2> QED
    BY <2>1, <2>2, <2>3 DEF Quietly
<1>3. CASE LoadForLock(r) /\ Exists(req[r].doc)
  <2> DEFINE q == [req[r] EXCEPT !.row = doc[req[r].doc], !.pc = "save"]
  <2>1. req' = [req EXCEPT ![r] = q]
    BY <1>0, <1>3 DEF LoadForLock, Loaded
  <2>2. req[r].doc \in Docs
    BY <1>0, <1>3 DEF LoadForLock, Op, RequestHeld, DocumentHeld
  <2>3. /\ q \in Request /\ q.pc = "save" /\ q.op = req[r].op /\ q.doc = req[r].doc
        /\ q.row = doc[req[r].doc] /\ q.new = req[r].new /\ q.old = req[r].old
        /\ q.copy = req[r].copy
    <3>1. "save" \in RequestPc /\ doc[req[r].doc] \in DocRow
      BY <1>0, <2>2 DEF RequestPc
    <3> QED
      BY <1>0, <3>1 DEF Request
  <2> HIDE DEF q
  <2>4. TypedStep(r, q)
    BY <1>0, <1>3, <2>1 DEF LoadForLock, TypedStep
  <2>5. RequestHeld(q) /\ Seen(q) /\ q.op \in DocumentOps
    BY <1>0, <1>3, <2>2, <2>3 DEF LoadForLock, At, Op, RequestHeld, DocumentHeld, ReceiptHeld,
                            Seen, SavesDocument, DropsDocument, DocumentOps, Exists
  <2> QED
    BY <2>3, <2>4, <2>5 DEF Quietly
<1>4. CASE LoadForLock(r) /\ ~Exists(req[r].doc)
  <2>1. TypedStep(r, IdleRequest)
    BY <1>0, <1>4 DEF LoadForLock, Finished, TypedStep
  <2> QED
    BY <2>1, Finishes
<1>5. CASE CheckTag(r) /\ Tagged(r)
  <2>1. TypedStep(r, IdleRequest)
    BY <1>0, <1>5 DEF CheckTag, Finished, TypedStep
  <2> QED
    BY <2>1, Finishes
<1>6. CASE CheckTag(r) /\ ~Tagged(r)
  <2> DEFINE q == [req[r] EXCEPT !.pc = "addTag"]
  <2>1. /\ Moved(r, "addTag") = [req EXCEPT ![r] = q] /\ q \in Request
        /\ q.pc = "addTag" /\ q.op = req[r].op /\ q.doc = req[r].doc /\ q.new = req[r].new
        /\ q.old = req[r].old /\ q.copy = req[r].copy /\ q.name = req[r].name
    <3>1. "addTag" \in RequestPc
      BY DEF RequestPc
    <3> QED
      BY <3>1, MovedIs
  <2> HIDE DEF q
  <2>2. TypedStep(r, q)
    BY <1>0, <1>6, <2>1 DEF CheckTag, TypedStep
  <2>3. RequestHeld(q) /\ Seen(q) /\ q.op \in DocumentOps
    BY <1>0, <1>6, <2>1 DEF CheckTag, At, RequestHeld, DocumentHeld, ReceiptHeld, Seen,
                            SavesDocument, DropsDocument, DocumentOps
  <2> QED
    BY <2>1, <2>2, <2>3 DEF Quietly
<1> QED
  BY <1>1, <1>2, <1>3, <1>4, <1>5, <1>6

(* The steps of documents that write to a table.                           *)
Writes(r, q) ==
    /\ q \in Request /\ RequestHeld(q) /\ Seen(q)'
    /\ q.op \in DocumentOps \cup CardOps \cup {"none"}
    /\ req' = [req EXCEPT ![r] = q]
    /\ UNCHANGED <<receipts, cards, scenario>>

LEMMA FinishWrites ==
    ASSUME NEW r, req' = Finished(r), UNCHANGED <<receipts, cards, scenario>>
    PROVE  Writes(r, IdleRequest)
<1>1. Seen(IdleRequest)'
  BY DEF Seen, SavesDocument, DropsDocument, IdleRequest
<1>2. IdleRequest.op = "none"
  BY DEF IdleRequest
<1> QED
  BY <1>1, <1>2, IdleHeld DEF Writes, Finished

LEMMA EditedRow ==
    ASSUME TypeInv, NEW r \in Requests, SaveDocument(r)
    PROVE  /\ Edited(r) \in DocRow /\ Edited(r).state = "LIVE"
           /\ req[r].doc \in Docs /\ doc[req[r].doc].state # "NONE"
           /\ Edited(r).bytes = doc[req[r].doc].bytes
           /\ req[r].row \in DocRow /\ Edited(r).bytes = req[r].row.bytes
<1>1. req[r] \in Request /\ RequestHeld(req[r]) /\ Seen(req[r])
  BY DEF TypeInv, TablesOK
<1>2. SavesDocument(req[r])
  BY DEF SaveDocument, At, SavesDocument
<1>3. /\ req[r].row \in DocRow /\ req[r].value \in BOOLEAN
      /\ req[r].row.state = "LIVE" /\ req[r].doc \in Docs
  BY <1>1, <1>2 DEF Request, RequestHeld, DocumentHeld
<1>4. doc[req[r].doc].state # "NONE" /\ req[r].row.bytes = doc[req[r].doc].bytes
  BY <1>1, <1>2 DEF Seen
<1>5. \/ Edited(r) = [req[r].row EXCEPT !.title = req[r].value]
      \/ Edited(r) = [req[r].row EXCEPT !.favorite = req[r].value]
      \/ Edited(r) = [req[r].row EXCEPT !.locked = req[r].value]
  BY <1>2 DEF Edited, Op, SavesDocument
<1>6. /\ Edited(r) \in DocRow /\ Edited(r).state = req[r].row.state
      /\ Edited(r).bytes = req[r].row.bytes
  BY <1>3, <1>5 DEF DocRow
<1> QED
  BY <1>3, <1>4, <1>6

LEMMA DocumentWrites ==
    ASSUME TypeInv, NEW r \in Requests,
           \/ CreateDocument(r) \/ InsertFile(r) \/ Unlock(r) \/ SaveDocument(r)
           \/ DropDocument(r) \/ FindOrCreateTag(r) \/ AddTag(r) \/ RemoveTag(r)
    PROVE  \E q : Writes(r, q)
<1>0. /\ req \in [Requests -> Request] /\ doc \in [Docs -> DocRow]
      /\ req[r] \in Request /\ RequestHeld(req[r]) /\ Seen(req[r])
  BY DEF TypeInv, TablesOK
<1>1. CASE CreateDocument(r)
  <2>1. PICK d \in Docs, pages \in SUBSET Pages :
           req' = [req EXCEPT ![r] =
              [IdleRequest EXCEPT !.op = "create", !.doc = d, !.pages = pages,
                                  !.pc = IF pages = {} THEN "activity" ELSE "file"]]
    BY <1>1 DEF CreateDocument
  <2> DEFINE q == [IdleRequest EXCEPT !.op = "create", !.doc = d, !.pages = pages,
                                      !.pc = IF pages = {} THEN "activity" ELSE "file"]
  <2>2. "create" \in AllOps /\ "activity" \in RequestPc /\ "file" \in RequestPc
    BY DEF AllOps, DocumentOps, RequestPc
  <2>3. q \in Request
    <3>1. PICK pc \in RequestPc : pc = IF pages = {} THEN "activity" ELSE "file"
      BY <2>2
    <3>2. q = [IdleRequest EXCEPT !.op = "create", !.doc = d, !.pages = pages, !.pc = pc]
      BY <3>1
    <3>3. IdleRequest \in Request
      BY IdleHeld
    <3> QED
      BY ZenonT(60), <2>2, <3>2, <3>3 DEF Request
  <2>4. /\ q.op = "create" /\ q.pc \in {"activity", "file"} /\ q.doc = d /\ q.new = NoImage
        /\ q.old = NoImage /\ q.copy = NoReceiptRow
    BY DEF IdleRequest
  <2>5. req' = [req EXCEPT ![r] = q]
    BY <2>1
  <2>6. UNCHANGED <<receipts, cards, scenario>>
    BY <1>1 DEF CreateDocument
  <2> HIDE DEF q
  <2>7. RequestHeld(q) /\ Seen(q)' /\ q.op \in DocumentOps
    BY <2>4 DEF RequestHeld, DocumentHeld, ReceiptHeld, Seen, SavesDocument, DropsDocument,
                DocumentOps
  <2> QED
    BY <2>3, <2>5, <2>6, <2>7 DEF Writes
<1>2. CASE InsertFile(r)
  <2>1. PICK p \in req[r].pages :
           req' = [req EXCEPT ![r].pages = @ \ {p},
                              ![r].pc = IF req[r].pages = {p} THEN "activity" ELSE "file"]
    BY <1>2 DEF InsertFile
  <2>0. PICK q : q = [req[r] EXCEPT !.pages = @ \ {p},
                                    !.pc = IF req[r].pages = {p} THEN "activity" ELSE "file"]
    OBVIOUS
  <2>2. req' = [req EXCEPT ![r] = q]
    BY <1>0, <2>0, <2>1
  <2>3. "activity" \in RequestPc /\ "file" \in RequestPc
    BY DEF RequestPc
  <2>4. /\ q \in Request /\ q.op = req[r].op /\ q.pc \in {"activity", "file"}
        /\ q.doc = req[r].doc /\ q.new = req[r].new /\ q.old = req[r].old
        /\ q.copy = req[r].copy
    BY <1>0, <2>0, <2>3 DEF Request
  <2>5. UNCHANGED <<receipts, cards, scenario>> /\ req[r].pc = "file"
    BY <1>2 DEF InsertFile, At
  <2>6. RequestHeld(q) /\ Seen(q)' /\ q.op \in DocumentOps
    BY <1>0, <2>4, <2>5 DEF RequestHeld, DocumentHeld, ReceiptHeld, Seen, SavesDocument,
                DropsDocument, DocumentOps
  <2> QED
    BY <2>2, <2>4, <2>5, <2>6 DEF Writes
<1>3. CASE Unlock(r) \/ DropDocument(r) \/ RemoveTag(r)
  BY <1>3, FinishWrites DEF Unlock, DropDocument, RemoveTag
<1>4. CASE SaveDocument(r) /\ ~Op(r, "edit")
  BY <1>4, FinishWrites DEF SaveDocument
<1>5. CASE SaveDocument(r) /\ Op(r, "edit")
  <2>0. PICK q : q = [req[r] EXCEPT !.pc = "activity"]
    OBVIOUS
  <2>1. "activity" \in RequestPc
    BY DEF RequestPc
  <2>2. /\ Moved(r, "activity") = [req EXCEPT ![r] = q] /\ q \in Request
        /\ q.pc = "activity" /\ q.op = req[r].op /\ q.doc = req[r].doc /\ q.new = req[r].new
        /\ q.old = req[r].old /\ q.copy = req[r].copy
    BY <2>0, <2>1, MovedIs
  <2>3. req' = [req EXCEPT ![r] = q] /\ UNCHANGED <<receipts, cards, scenario>>
    BY <1>5, <2>2 DEF SaveDocument
  <2>4. RequestHeld(q) /\ Seen(q)' /\ q.op \in DocumentOps
    BY <1>0, <1>5, <2>2 DEF Op, RequestHeld, DocumentHeld, ReceiptHeld, Seen, SavesDocument,
                DropsDocument, DocumentOps
  <2> QED
    BY <2>2, <2>3, <2>4 DEF Writes
<1>6. CASE FindOrCreateTag(r)
  <2>0. PICK q : q = [req[r] EXCEPT !.pc = "exists"]
    OBVIOUS
  <2>1. "exists" \in RequestPc
    BY DEF RequestPc
  <2>2. /\ Moved(r, "exists") = [req EXCEPT ![r] = q] /\ q \in Request
        /\ q.pc = "exists" /\ q.op = req[r].op /\ q.doc = req[r].doc /\ q.new = req[r].new
        /\ q.old = req[r].old /\ q.copy = req[r].copy /\ q.name = req[r].name
    BY <2>0, <2>1, MovedIs
  <2>3. /\ req' = [req EXCEPT ![r] = q] /\ UNCHANGED <<receipts, cards, scenario>>
        /\ req[r].pc = "tag" /\ req[r].name \in tag'
    BY <1>6, <2>2 DEF FindOrCreateTag, At
  <2>4. RequestHeld(q) /\ Seen(q)' /\ q.op \in DocumentOps
    BY <1>0, <2>2, <2>3 DEF RequestHeld, DocumentHeld, ReceiptHeld, Seen, SavesDocument,
                DropsDocument, DocumentOps
  <2> QED
    BY <2>2, <2>3, <2>4 DEF Writes
<1>7. CASE AddTag(r)
  <2>0. PICK q : q = [req[r] EXCEPT !.pc = "activity"]
    OBVIOUS
  <2>1. "activity" \in RequestPc
    BY DEF RequestPc
  <2>2. /\ Moved(r, "activity") = [req EXCEPT ![r] = q] /\ q \in Request
        /\ q.pc = "activity" /\ q.op = req[r].op /\ q.doc = req[r].doc /\ q.new = req[r].new
        /\ q.old = req[r].old /\ q.copy = req[r].copy
    BY <2>0, <2>1, MovedIs
  <2>3. /\ req' = [req EXCEPT ![r] = q] /\ UNCHANGED <<receipts, cards, scenario>>
        /\ req[r].pc = "addTag"
    BY <1>7, <2>2 DEF AddTag, At
  <2>4. RequestHeld(q) /\ Seen(q)' /\ q.op \in DocumentOps
    BY <1>0, <2>2, <2>3 DEF RequestHeld, DocumentHeld, ReceiptHeld, Seen, SavesDocument,
                DropsDocument, DocumentOps
  <2> QED
    BY <2>2, <2>3, <2>4 DEF Writes
<1> QED
  BY <1>1, <1>2, <1>3, <1>4, <1>5, <1>6, <1>7

(* The rows that those steps leave: the foreign keys hold, no row leaves   *)
(* the table again, and its bytes stay.                                    *)
RowsOK ==
    /\ doc' \in [Docs -> DocRow]
    /\ docFile' \subseteq Docs \X Pages
    /\ tag \subseteq tag' /\ tag' \subseteq Names /\ docTag' \subseteq Docs \X tag'
    /\ \A x \in docFile' \cup docTag' : Exists(x[1])'
    /\ \A d \in Docs : doc[d].state # "NONE" =>
          doc'[d].state # "NONE" /\ doc'[d].bytes = doc[d].bytes
    /\ cookie' \in Docs \cup {NoDoc} /\ proven' \subseteq Docs /\ view' = view
    /\ used' \in Nat /\ asked' \in Nat /\ faults' \in Nat

LEMMA UsedLessTyped ==
    ASSUME used \in Nat, NEW bytes \in Nat
    PROVE  UsedLess(bytes) \in Nat /\ UsedLess(bytes) <= used
BY DEF UsedLess

LEMMA RowsStayOK ==
    ASSUME TypeInv, NEW r \in Requests,
           \/ CreateDocument(r) \/ InsertFile(r) \/ Unlock(r) \/ SaveDocument(r)
           \/ DropDocument(r) \/ FindOrCreateTag(r) \/ AddTag(r) \/ RemoveTag(r)
    PROVE  RowsOK
<1>0. /\ doc \in [Docs -> DocRow] /\ docFile \subseteq Docs \X Pages
      /\ tag \subseteq Names /\ docTag \subseteq Docs \X tag
      /\ \A x \in docFile \cup docTag : doc[x[1]].state = "LIVE"
      /\ cookie \in Docs \cup {NoDoc} /\ proven \subseteq Docs
      /\ used \in Nat /\ asked \in Nat /\ faults \in Nat
      /\ req[r] \in Request /\ RequestHeld(req[r]) /\ Seen(req[r])
  BY DEF TypeInv, TablesOK, Exists
<1>1. CASE CreateDocument(r)
  <2>1. PICK d \in Docs, bytes \in 0..1 :
           doc[d].state = "NONE" /\ doc' = [doc EXCEPT ![d] = NewDoc(bytes)]
    BY <1>1 DEF CreateDocument
  <2>2. NewDoc(bytes) \in DocRow
    BY DEF NewDoc, NoDocRow, DocRow, RowState
  <2>3. UNCHANGED <<docFile, tag, docTag, cookie, proven, view, used, faults>> /\ asked' = asked + 1
    BY <1>1 DEF CreateDocument, unlocking, Begins
  <2>4. doc' \in [Docs -> DocRow]
    BY <1>0, <2>1, <2>2
  <2>5. \A e \in Docs : doc[e].state # "NONE" => doc'[e] = doc[e]
    BY <1>0, <2>1
  <2>6. \A x \in docFile' \cup docTag' : x[1] \in Docs /\ doc'[x[1]].state = "LIVE"
    <3>1. \A x \in docFile \cup docTag : x[1] \in Docs /\ doc[x[1]].state = "LIVE"
      BY <1>0
    <3> QED
      BY <2>3, <2>5, <3>1
  <2> QED
    BY <1>0, <2>3, <2>4, <2>5, <2>6 DEF RowsOK, Exists
<1>2. CASE InsertFile(r)
  <2>1. PICK p \in req[r].pages : docFile' = docFile \cup {<<req[r].doc, p>>}
    BY <1>2 DEF InsertFile
  <2>2. p \in Pages /\ req[r].doc \in Docs /\ doc[req[r].doc].state = "LIVE"
    BY <1>0, <1>2 DEF InsertFile, Request, RequestHeld, DocumentHeld, At, Exists
  <2>3. UNCHANGED <<doc, tag, docTag, cookie, proven, view, used, asked, faults>>
    BY <1>2 DEF InsertFile, unlocking
  <2> QED
    BY <1>0, <2>1, <2>2, <2>3 DEF RowsOK, Exists
<1>3. CASE Unlock(r)
  <2>1. req[r].doc \in Docs
    BY <1>0, <1>3 DEF Unlock, RequestHeld, DocumentHeld, At
  <2> QED
    BY <1>0, <1>3, <2>1 DEF Unlock, documents, RowsOK, Exists
<1>4. CASE SaveDocument(r)
  <2>1. doc' = [doc EXCEPT ![req[r].doc] = Edited(r)]
    BY <1>4 DEF SaveDocument
  <2>2. UNCHANGED <<docFile, tag, docTag, cookie, proven, view, used, asked, faults>>
    BY <1>4 DEF SaveDocument, unlocking
  <2>3. doc' \in [Docs -> DocRow]
    BY <1>0, <1>4, <2>1, EditedRow
  <2>4. \A e \in Docs : doc[e].state # "NONE" =>
           doc'[e].state # "NONE" /\ doc'[e].bytes = doc[e].bytes
    BY <1>0, <1>4, <2>1, EditedRow
  <2>5. \A e \in Docs : doc[e].state = "LIVE" => doc'[e].state = "LIVE"
    BY <1>0, <1>4, <2>1, EditedRow
  <2>6. \A x \in docFile \cup docTag : x[1] \in Docs /\ doc[x[1]].state = "LIVE"
    BY <1>0
  <2>7. \A x \in docFile' \cup docTag' : doc'[x[1]].state = "LIVE"
    BY <2>2, <2>5, <2>6
  <2> QED
    BY <1>0, <2>2, <2>3, <2>4, <2>7 DEF RowsOK, Exists
<1>5. CASE DropDocument(r)
  <2>1. /\ doc' = [doc EXCEPT ![req[r].doc].state = "GONE"]
        /\ docFile' = Without(req[r].doc, docFile) /\ docTag' = Without(req[r].doc, docTag)
        /\ used' = UsedLess(req[r].row.bytes)
        /\ UNCHANGED <<tag, cookie, proven, view, asked, faults>>
    BY <1>5 DEF DropDocument, unlocking
  <2>2. req[r].doc \in Docs /\ req[r].row.bytes \in Nat /\ DropsDocument(req[r])
    <3>1. DropsDocument(req[r])
      BY <1>5 DEF DropDocument, DropsDocument, At, Op
    <3> QED
      BY <1>0, <3>1 DEF RequestHeld, DocumentHeld, Request, DocRow
  <2>3. used' \in Nat
    BY <1>0, <2>1, <2>2, UsedLessTyped
  <2>4. doc' \in [Docs -> DocRow]
    BY <1>0, <2>1, <2>2 DEF DocRow, RowState
  <2>5. \A e \in Docs : doc[e].state # "NONE" =>
           doc'[e].state # "NONE" /\ doc'[e].bytes = doc[e].bytes
    BY <1>0, <2>1, <2>2 DEF DocRow
  <2>6. \A e \in Docs : e # req[r].doc => doc'[e] = doc[e]
    BY <1>0, <2>1, <2>2
  <2>7. \A x \in docFile' \cup docTag' :
           x \in docFile \cup docTag /\ x[1] # req[r].doc
    BY <2>1 DEF Without
  <2>8. \A x \in docFile \cup docTag : x[1] \in Docs /\ doc[x[1]].state = "LIVE"
    BY <1>0
  <2>9. \A x \in docFile' \cup docTag' : doc'[x[1]].state = "LIVE"
    BY <2>6, <2>7, <2>8
  <2>10. docFile' \subseteq docFile /\ docTag' \subseteq docTag
    BY <2>1 DEF Without
  <2> QED
    BY <1>0, <2>1, <2>3, <2>4, <2>5, <2>9, <2>10 DEF RowsOK, Exists
<1>6. CASE FindOrCreateTag(r)
  <2>1. req[r].name \in Names
    BY <1>0, <1>6 DEF FindOrCreateTag, RequestHeld, DocumentHeld, At
  <2>2. tag' = tag \cup {req[r].name}
        /\ UNCHANGED <<doc, docFile, docTag, cookie, proven, view, used, asked, faults>>
    BY <1>6 DEF FindOrCreateTag, unlocking
  <2> QED
    BY <1>0, <2>1, <2>2 DEF RowsOK, Exists
<1>7. CASE AddTag(r)
  <2>1. /\ docTag' = docTag \cup {<<req[r].doc, req[r].name>>}
        /\ UNCHANGED <<doc, docFile, tag, cookie, proven, view, used, asked, faults>>
    BY <1>7 DEF AddTag, unlocking
  <2>2. req[r].doc \in Docs /\ req[r].name \in tag /\ doc[req[r].doc].state = "LIVE"
    BY <1>0, <1>7 DEF AddTag, RequestHeld, DocumentHeld, Seen, At, Exists
  <2> QED
    BY <1>0, <2>1, <2>2 DEF RowsOK, Exists
<1>8. CASE RemoveTag(r)
  <2>1. /\ docTag' \subseteq docTag
        /\ UNCHANGED <<doc, docFile, tag, cookie, proven, view, used, asked, faults>>
    BY <1>8 DEF RemoveTag, unlocking
  <2> QED
    BY <1>0, <2>1 DEF RowsOK, Exists
<1> QED
  BY <1>1, <1>2, <1>3, <1>4, <1>5, <1>6, <1>7, <1>8

LEMMA WritesKeep ==
    ASSUME TypeInv, NEW r \in Requests, NEW q, Writes(r, q), RowsOK
    PROVE  TypeInv'
<1>1. req' \in [Requests -> Request] /\ \A s \in Requests : RequestHeld(req'[s]) /\ Seen(req[s])'
  BY SlotChanges DEF Writes, RowsOK
<1>2. TablesOK'
  BY <1>1 DEF TypeInv, TablesOK, Writes, RowsOK, receipts, cards
<1> QED
  BY <1>1, <1>2 DEF TypeInv, RequestHeld, DocumentHeld, ReceiptHeld, SavesDocument,
                    DropsDocument, HasImage

-----------------------------------------------------------------------------
(* Requests of receipts *)

Becomes(r, q) ==
    /\ q \in Request /\ RequestHeld(q) /\ Seen(q)
    /\ req' = [req EXCEPT ![r] = q]
    /\ UNCHANGED <<documents, unlocking, cards, scenario>>

Keeps(q, p) == q.op = p.op /\ q.receipt = p.receipt /\ q.old = p.old

(* What the steps of the receipts make of their request.                   *)
Ended(q) == q = IdleRequest
Written(q, p) ==
    \/ p.old = NoImage /\ Ended(q)
    \/ p.old # NoImage /\ Keeps(q, p) /\ q.pc = "subtract" /\ q.copy = p.copy

LEMMA EndsAs ==
    ASSUME NEW r, req' = Finished(r), UNCHANGED <<documents, unlocking, cards, scenario>>
    PROVE  Becomes(r, IdleRequest) /\ Ended(IdleRequest)
BY IdleHeld DEF Becomes, Ended, Finished

LEMMA AddStarts ==
    ASSUME TypeInv, NEW r \in Requests, StartAdd(r)
    PROVE  \E q : /\ Becomes(r, q) /\ q.op = "add" /\ q.pc \in {"put", "insert"}
                  /\ q.new = NoImage /\ q.old = NoImage /\ q.copy = NoReceiptRow
<1>1. scenario.bills \subseteq Bills
  BY LibraryAssumption DEF TypeInv, TablesOK
<1>2. PICK bill \in scenario.bills, image \in BOOLEAN :
         req' = [req EXCEPT ![r] =
             [IdleRequest EXCEPT !.op = "add", !.pc = IF image THEN "put" ELSE "insert",
                                 !.bill = bill]]
  BY DEF StartAdd
<1>3. PICK q : q = [IdleRequest EXCEPT !.op = "add", !.pc = IF image THEN "put" ELSE "insert",
                                       !.bill = bill]
  OBVIOUS
<1>4. /\ "add" \in AllOps /\ bill \in Bills
      /\ (IF image THEN "put" ELSE "insert") \in RequestPc
  BY <1>1 DEF AllOps, ReceiptOps, RequestPc
<1>5. q \in Request
  <2>1. PICK pc \in RequestPc : pc = IF image THEN "put" ELSE "insert"
    BY <1>4
  <2>2. q = [IdleRequest EXCEPT !.op = "add", !.pc = pc, !.bill = bill]
    BY <1>3, <2>1
  <2>3. IdleRequest \in Request
    BY IdleHeld
  <2> QED
    BY <1>4, <2>2, <2>3 DEF Request
<1>6. /\ q.op = "add" /\ q.pc \in {"put", "insert"} /\ q.new = NoImage /\ q.old = NoImage
      /\ q.copy = NoReceiptRow
  BY <1>3 DEF IdleRequest
<1>7. RequestHeld(q) /\ Seen(q)
  BY <1>6 DEF RequestHeld, DocumentHeld, ReceiptHeld, Seen, SavesDocument, DropsDocument
<1>8. req' = [req EXCEPT ![r] = q] /\ UNCHANGED <<documents, unlocking, cards, scenario>>
  BY <1>2, <1>3 DEF StartAdd
<1> QED
  BY <1>5, <1>6, <1>7, <1>8 DEF Becomes

LEMMA ChangeStarts ==
    ASSUME TypeInv, NEW r \in Requests, StartChange(r)
    PROVE  \E q : /\ Becomes(r, q) /\ q.op = "change" /\ q.receipt \in Receipts
                  /\ Kept(q.receipt) /\ q.new = NoImage /\ q.copy = NoReceiptRow
                  /\ \/ q.pc = "put" /\ q.old = receipt[q.receipt].image
                     \/ q.pc = "load" /\ q.old = NoImage
<1>1. scenario.bills \subseteq Bills /\ receipt \in [Receipts -> ReceiptRow]
  BY LibraryAssumption DEF TypeInv, TablesOK
<1>2. PICK c \in Receipts, bill \in scenario.bills, image \in BOOLEAN :
         /\ Kept(c)
         /\ req' = [req EXCEPT ![r] =
              [IdleRequest EXCEPT !.op = "change", !.pc = IF image THEN "put" ELSE "load",
                                  !.receipt = c, !.bill = bill,
                                  !.old = IF image THEN receipt[c].image ELSE NoImage]]
  BY DEF StartChange
<1>3. PICK q : q = [IdleRequest EXCEPT !.op = "change",
                                       !.pc = IF image THEN "put" ELSE "load",
                                       !.receipt = c, !.bill = bill,
                                       !.old = IF image THEN receipt[c].image ELSE NoImage]
  OBVIOUS
<1>4. /\ "change" \in AllOps /\ bill \in Bills
      /\ (IF image THEN "put" ELSE "load") \in RequestPc
      /\ (IF image THEN receipt[c].image ELSE NoImage) \in Images \cup {NoImage}
  BY <1>1 DEF AllOps, ReceiptOps, RequestPc, ReceiptRow
<1>5. q \in Request
  <2>1. PICK pc \in RequestPc, old \in Images \cup {NoImage} :
           /\ pc = IF image THEN "put" ELSE "load"
           /\ old = IF image THEN receipt[c].image ELSE NoImage
    BY <1>4
  <2>2. q = [IdleRequest EXCEPT !.op = "change", !.pc = pc, !.receipt = c, !.bill = bill,
                                !.old = old]
    BY <1>3, <2>1
  <2>3. IdleRequest \in Request
    BY IdleHeld
  <2> QED
    BY <1>4, <2>2, <2>3 DEF Request
<1>6. /\ q.op = "change" /\ q.receipt = c /\ q.new = NoImage /\ q.copy = NoReceiptRow
      /\ \/ q.pc = "put" /\ q.old = receipt[c].image
         \/ q.pc = "load" /\ q.old = NoImage
  BY <1>3 DEF IdleRequest
<1>7. RequestHeld(q) /\ Seen(q)
  BY <1>6 DEF RequestHeld, DocumentHeld, ReceiptHeld, Seen, SavesDocument, DropsDocument
<1>8. req' = [req EXCEPT ![r] = q] /\ UNCHANGED <<documents, unlocking, cards, scenario>>
  BY <1>2, <1>3 DEF StartChange
<1> QED
  BY <1>2, <1>5, <1>6, <1>7, <1>8 DEF Becomes

LEMMA RemoveStarts ==
    ASSUME TypeInv, NEW r \in Requests, StartRemove(r)
    PROVE  \E q : /\ Becomes(r, q) /\ q.op = "remove" /\ q.pc = "drop"
                  /\ q.receipt \in Receipts /\ Kept(q.receipt)
                  /\ q.new = NoImage /\ q.copy = NoReceiptRow
                  /\ q.old = receipt[q.receipt].image
<1>1. receipt \in [Receipts -> ReceiptRow]
  BY DEF TypeInv, TablesOK
<1>2. PICK c \in Receipts :
         /\ Kept(c)
         /\ req' = [req EXCEPT ![r] =
              [IdleRequest EXCEPT !.op = "remove", !.pc = "drop", !.receipt = c,
                                  !.old = receipt[c].image]]
  BY DEF StartRemove
<1>3. PICK q : q = [IdleRequest EXCEPT !.op = "remove", !.pc = "drop", !.receipt = c,
                                       !.old = receipt[c].image]
  OBVIOUS
<1>4. /\ "remove" \in AllOps /\ "drop" \in RequestPc
      /\ receipt[c].image \in Images \cup {NoImage}
  BY <1>1 DEF AllOps, ReceiptOps, RequestPc, ReceiptRow
<1>5. q \in Request
  BY <1>3, <1>4, IdleHeld DEF Request
<1>6. /\ q.op = "remove" /\ q.pc = "drop" /\ q.receipt = c /\ q.new = NoImage
      /\ q.copy = NoReceiptRow /\ q.old = receipt[c].image
  BY <1>3 DEF IdleRequest
<1>7. RequestHeld(q) /\ Seen(q)
  BY <1>6 DEF RequestHeld, DocumentHeld, ReceiptHeld, Seen, SavesDocument, DropsDocument
<1>8. req' = [req EXCEPT ![r] = q] /\ UNCHANGED <<documents, unlocking, cards, scenario>>
  BY <1>2, <1>3 DEF StartRemove
<1> QED
  BY <1>2, <1>5, <1>6, <1>7, <1>8 DEF Becomes

LEMMA PutMoves ==
    ASSUME TypeInv, NEW r \in Requests, PutImage(r)
    PROVE  \E q, i : /\ Becomes(r, q) /\ Keeps(q, req[r]) /\ q.copy = req[r].copy
                     /\ q.pc = "addUsage" /\ q.new = i /\ i \in Images \ uploaded
                     /\ uploaded' = uploaded \cup {i} /\ s3' = s3 \cup {i}
                     /\ req[r].pc = "put"
                     /\ UNCHANGED <<receipt, raced, writes, used, asked, faults>>
<1>0. req \in [Requests -> Request] /\ req[r] \in Request /\ RequestHeld(req[r])
  BY DEF TypeInv, TablesOK
<1>1. PICK i \in Images \ uploaded :
         /\ uploaded' = uploaded \cup {i} /\ s3' = s3 \cup {i}
         /\ req' = [req EXCEPT ![r].new = i, ![r].pc = "addUsage"]
  BY DEF PutImage
<1>2. PICK q : q = [req[r] EXCEPT !.new = i, !.pc = "addUsage"]
  OBVIOUS
<1>3. "addUsage" \in RequestPc
  BY DEF RequestPc
<1>4. /\ q \in Request /\ q.op = req[r].op /\ q.receipt = req[r].receipt /\ q.old = req[r].old
      /\ q.copy = req[r].copy /\ q.pc = "addUsage" /\ q.new = i /\ q.doc = req[r].doc
  BY <1>0, <1>2, <1>3 DEF Request
<1>5. req' = [req EXCEPT ![r] = q]
  BY <1>0, <1>1, <1>2
<1>6. req[r].pc = "put" /\ i # NoImage
  BY LibraryAssumption DEF PutImage, At
<1>7. RequestHeld(q) /\ Seen(q)
  BY <1>0, <1>4, <1>6 DEF RequestHeld, DocumentHeld, ReceiptHeld, Seen, SavesDocument,
                          DropsDocument
<1>8. /\ UNCHANGED <<documents, unlocking, cards, scenario>>
      /\ UNCHANGED <<receipt, raced, writes, used, asked, faults>>
  BY DEF PutImage
<1> QED
  BY <1>1, <1>4, <1>5, <1>6, <1>7, <1>8 DEF Becomes, Keeps

LEMMA UploadMoves ==
    ASSUME TypeInv, NEW r \in Requests, AddUsage(r) \/ AddUsageFails(r)
    PROVE  \E q : /\ Becomes(r, q) /\ Keeps(q, req[r]) /\ q.copy = req[r].copy
                  /\ q.new = req[r].new /\ q.pc \in {"insert", "load"}
                  /\ req[r].pc = "addUsage"
                  /\ UNCHANGED <<receipts, asked>>
<1>0. req[r] \in Request /\ RequestHeld(req[r])
  BY DEF TypeInv, TablesOK
<1>1. req[r].pc = "addUsage" /\ req' = AfterUpload(r)
      /\ UNCHANGED <<documents, unlocking, cards, scenario>> /\ UNCHANGED <<receipts, asked>>
  BY DEF AddUsage, AddUsageFails, At
<1>2. PICK pc : pc = IF Op(r, "add") THEN "insert" ELSE "load"
  OBVIOUS
<1>3. pc \in RequestPc /\ pc \in {"insert", "load"}
  BY <1>2 DEF RequestPc
<1>4. PICK q : q = [req[r] EXCEPT !.pc = pc]
  OBVIOUS
<1>5. /\ Moved(r, pc) = [req EXCEPT ![r] = q] /\ q \in Request
      /\ q.pc = pc /\ q.op = req[r].op /\ q.receipt = req[r].receipt /\ q.old = req[r].old
      /\ q.copy = req[r].copy /\ q.new = req[r].new /\ q.doc = req[r].doc
  BY <1>3, <1>4, MovedIs
<1>6. req' = [req EXCEPT ![r] = q]
  BY <1>1, <1>2, <1>5 DEF AfterUpload
<1>7. RequestHeld(q) /\ Seen(q)
  BY <1>0, <1>1, <1>2, <1>5 DEF Op, RequestHeld, DocumentHeld, ReceiptHeld, Seen,
                                SavesDocument, DropsDocument
<1> QED
  BY <1>1, <1>3, <1>5, <1>6, <1>7 DEF Becomes, Keeps

LEMMA WriteMoves ==
    ASSUME TypeInv, NEW r \in Requests, req[r].op \in {"change", "remove"},
           req' = AfterWrite(r), UNCHANGED <<documents, unlocking, cards, scenario>>
    PROVE  \E q : Becomes(r, q) /\ Written(q, req[r])
<1>0. req[r] \in Request /\ RequestHeld(req[r])
  BY DEF TypeInv, TablesOK
<1>1. CASE req[r].old = NoImage
  BY <1>1, EndsAs DEF AfterWrite, Written
<1>2. CASE req[r].old # NoImage
  <2>1. "subtract" \in RequestPc
    BY DEF RequestPc
  <2>2. PICK q : q = [req[r] EXCEPT !.pc = "subtract"]
    OBVIOUS
  <2>3. /\ Moved(r, "subtract") = [req EXCEPT ![r] = q] /\ q \in Request
        /\ q.pc = "subtract" /\ q.op = req[r].op /\ q.receipt = req[r].receipt
        /\ q.old = req[r].old /\ q.copy = req[r].copy /\ q.new = req[r].new
        /\ q.doc = req[r].doc
    BY <2>1, <2>2, MovedIs
  <2>4. req' = [req EXCEPT ![r] = q]
    BY <1>2, <2>3 DEF AfterWrite
  <2>5. RequestHeld(q) /\ Seen(q)
    BY <1>0, <1>2, <2>3 DEF RequestHeld, DocumentHeld, ReceiptHeld, Seen, SavesDocument,
                            DropsDocument
  <2> QED
    BY <1>2, <2>3, <2>4, <2>5 DEF Becomes, Keeps, Written
<1> QED
  BY <1>1, <1>2

LEMMA LoadMoves ==
    ASSUME TypeInv, NEW r \in Requests, LoadReceipt(r)
    PROVE  \E q : /\ Becomes(r, q) /\ UNCHANGED <<receipts, used, asked, faults>>
                  /\ req[r].op = "change" /\ req[r].pc = "load"
                  /\ \/ /\ Kept(req[r].receipt) /\ Keeps(q, req[r]) /\ q.new = req[r].new
                        /\ q.pc = "save" /\ q.copy = receipt[req[r].receipt]
                     \/ ~Kept(req[r].receipt) /\ Written(q, req[r])
<1>0. /\ req \in [Requests -> Request] /\ req[r] \in Request /\ RequestHeld(req[r])
      /\ receipt \in [Receipts -> ReceiptRow]
  BY DEF TypeInv, TablesOK
<1>1. /\ req[r].op = "change" /\ req[r].pc = "load"
      /\ UNCHANGED <<documents, unlocking, cards, scenario>>
      /\ UNCHANGED <<receipts, used, asked, faults>>
  BY DEF LoadReceipt, At, Op
<1>2. CASE Kept(req[r].receipt)
  <2>1. PICK q : q = [req[r] EXCEPT !.copy = receipt[req[r].receipt], !.pc = "save"]
    OBVIOUS
  <2>2. req[r].receipt \in Receipts
    BY <1>0, <1>1 DEF RequestHeld, ReceiptHeld
  <2>3. "save" \in RequestPc /\ receipt[req[r].receipt] \in ReceiptRow
    BY <1>0, <2>2 DEF RequestPc
  <2>4. /\ q \in Request /\ q.op = req[r].op /\ q.receipt = req[r].receipt
        /\ q.old = req[r].old /\ q.copy = receipt[req[r].receipt] /\ q.pc = "save"
        /\ q.new = req[r].new /\ q.doc = req[r].doc
    BY <1>0, <2>1, <2>3 DEF Request
  <2>5. req' = [req EXCEPT ![r] = q]
    BY <1>0, <1>2, <2>1 DEF LoadReceipt
  <2>6. RequestHeld(q) /\ Seen(q)
    BY <1>0, <1>1, <1>2, <2>4 DEF RequestHeld, DocumentHeld, ReceiptHeld, Seen, SavesDocument,
                                  DropsDocument, Kept
  <2> QED
    BY <1>1, <1>2, <2>4, <2>5, <2>6 DEF Becomes, Keeps
<1>3. CASE ~Kept(req[r].receipt)
  <2>1. req' = AfterWrite(r)
    BY <1>3 DEF LoadReceipt
  <2> QED
    BY <1>1, <1>3, <2>1, WriteMoves
<1> QED
  BY <1>2, <1>3

LEMMA SubtractMoves ==
    ASSUME TypeInv, NEW r \in Requests, Subtract(r)
    PROVE  \E q : /\ Becomes(r, q) /\ Keeps(q, req[r]) /\ q.copy = req[r].copy
                  /\ q.pc = "unlink" /\ req[r].pc = "subtract"
                  /\ used' = UsedLess(1) /\ UNCHANGED <<receipts, asked, faults>>
<1>0. req[r] \in Request /\ RequestHeld(req[r])
  BY DEF TypeInv, TablesOK
<1>1. "unlink" \in RequestPc
  BY DEF RequestPc
<1>2. PICK q : q = [req[r] EXCEPT !.pc = "unlink"]
  OBVIOUS
<1>3. /\ Moved(r, "unlink") = [req EXCEPT ![r] = q] /\ q \in Request
      /\ q.pc = "unlink" /\ q.op = req[r].op /\ q.receipt = req[r].receipt
      /\ q.old = req[r].old /\ q.copy = req[r].copy /\ q.new = req[r].new
      /\ q.doc = req[r].doc
  BY <1>1, <1>2, MovedIs
<1>4. /\ req' = [req EXCEPT ![r] = q] /\ req[r].pc = "subtract" /\ used' = UsedLess(1)
      /\ UNCHANGED <<documents, unlocking, cards, scenario>>
      /\ UNCHANGED <<receipts, asked, faults>>
  BY <1>3 DEF Subtract, At
<1>5. RequestHeld(q) /\ Seen(q)
  BY <1>0, <1>3, <1>4 DEF RequestHeld, DocumentHeld, ReceiptHeld, Seen, SavesDocument,
                          DropsDocument
<1> QED
  BY <1>3, <1>4, <1>5 DEF Becomes, Keeps

(* The tables of the receipts keep their types.                            *)
StoreOK ==
    /\ receipt' \in [Receipts -> ReceiptRow] /\ raced' \subseteq Receipts /\ writes' \in Nat
    /\ s3' \subseteq uploaded' /\ uploaded' \subseteq Images
    /\ used' \in Nat /\ asked' \in Nat /\ faults' \in Nat

LEMMA ReceiptEnds ==
    ASSUME NEW r, InsertReceipt(r) \/ DeleteImage(r) \/ DeleteImageFails(r)
    PROVE  Becomes(r, IdleRequest)
BY EndsAs DEF InsertReceipt, DeleteImage, DeleteImageFails

LEMMA ReceiptWritten ==
    ASSUME TypeInv, NEW r \in Requests, SaveReceipt(r) \/ DropReceipt(r)
    PROVE  \E q : Becomes(r, q) /\ Written(q, req[r])
BY WriteMoves DEF SaveReceipt, DropReceipt, Op

LEMMA SavedRow ==
    ASSUME TypeInv, NEW r \in Requests, SaveReceipt(r)
    PROVE  /\ NewReceipt(req[r].bill, SavedImage(r)) \in ReceiptRow
           /\ req[r].receipt \in Receipts /\ req[r].copy \in ReceiptRow
           /\ req[r].pc = "save" /\ req[r].op = "change"
<1>1. req[r] \in Request /\ RequestHeld(req[r])
  BY DEF TypeInv, TablesOK
<1>2. req[r].pc = "save" /\ req[r].op = "change"
  BY DEF SaveReceipt, At, Op
<1>3. req[r].receipt \in Receipts
  BY <1>1, <1>2 DEF RequestHeld, ReceiptHeld
<1>4. /\ req[r].bill \in Bills \cup {NoBill} /\ req[r].new \in Images \cup {NoImage}
      /\ req[r].copy \in ReceiptRow
  BY <1>1 DEF Request
<1>5. SavedImage(r) \in Images \cup {NoImage}
  BY <1>4 DEF SavedImage, ReceiptRow
<1> QED
  BY <1>2, <1>3, <1>4, <1>5 DEF NewReceipt, ReceiptRow, RowState

LEMMA StoreStaysOK ==
    ASSUME TypeInv, NEW r \in Requests, ReceiptRequest(r) \/ ReceiptStep(r)
    PROVE  StoreOK
<1>0. /\ receipt \in [Receipts -> ReceiptRow] /\ raced \subseteq Receipts /\ writes \in Nat
      /\ s3 \subseteq uploaded /\ uploaded \subseteq Images
      /\ used \in Nat /\ asked \in Nat /\ faults \in Nat
      /\ req[r] \in Request /\ RequestHeld(req[r])
  BY DEF TypeInv, TablesOK
<1>1. CASE ReceiptRequest(r)
  <2>1. UNCHANGED <<receipts, used, faults>>
    BY <1>1 DEF ReceiptRequest, StartAdd, StartChange, StartRemove
  <2>2. asked' = asked + 1
    BY <1>1 DEF ReceiptRequest, StartAdd, StartChange, StartRemove, Begins
  <2> QED
    BY <1>0, <2>1, <2>2 DEF StoreOK, receipts
<1>2. CASE PutImage(r)
  BY <1>0, <1>2, PutMoves DEF StoreOK
<1>3. CASE AddUsage(r) \/ AddUsageFails(r)
  <2>1. UNCHANGED <<receipts, asked>>
    BY <1>3 DEF AddUsage, AddUsageFails
  <2>2. used' \in Nat /\ faults' \in Nat
    BY <1>0, <1>3 DEF AddUsage, AddUsageFails
  <2> QED
    BY <1>0, <2>1, <2>2 DEF StoreOK, receipts
<1>4. CASE InsertReceipt(r)
  <2>1. PICK c \in Receipts : receipt' = [receipt EXCEPT ![c] = NewReceipt(req[r].bill, req[r].new)]
    BY <1>4 DEF InsertReceipt
  <2>2. NewReceipt(req[r].bill, req[r].new) \in ReceiptRow
    BY <1>0 DEF NewReceipt, ReceiptRow, RowState, Request
  <2>3. writes' = writes + 1 /\ UNCHANGED <<uploaded, s3, raced, used, asked, faults>>
    BY <1>4 DEF InsertReceipt
  <2> QED
    BY <1>0, <2>1, <2>2, <2>3 DEF StoreOK
<1>5. CASE LoadReceipt(r)
  BY <1>0, <1>5, LoadMoves DEF StoreOK, receipts
<1>6. CASE SaveReceipt(r)
  <2>1. /\ receipt' = [receipt EXCEPT ![req[r].receipt] =
                          NewReceipt(req[r].bill, SavedImage(r))]
        /\ raced' \subseteq raced \cup {req[r].receipt} /\ writes' = writes + 1
        /\ UNCHANGED <<uploaded, s3, used, asked, faults>>
    BY <1>6 DEF SaveReceipt
  <2> QED
    BY <1>0, <1>6, <2>1, SavedRow DEF StoreOK
<1>7. CASE DropReceipt(r)
  <2>1. req[r].receipt \in Receipts
    BY <1>0, <1>7 DEF DropReceipt, Op, RequestHeld, ReceiptHeld
  <2>2. /\ receipt' = [receipt EXCEPT ![req[r].receipt].state = "GONE"]
        /\ writes' = writes + 1 /\ UNCHANGED <<uploaded, s3, raced, used, asked, faults>>
    BY <1>7 DEF DropReceipt
  <2>3. receipt' \in [Receipts -> ReceiptRow]
    BY <1>0, <2>1, <2>2 DEF ReceiptRow, RowState
  <2> QED
    BY <1>0, <2>2, <2>3 DEF StoreOK
<1>8. CASE Subtract(r)
  <2>1. UsedLess(1) \in Nat
    BY <1>0, UsedLessTyped
  <2> QED
    BY <1>0, <1>8, <2>1, SubtractMoves DEF StoreOK, receipts
<1>9. CASE DeleteImage(r)
  BY <1>0, <1>9 DEF DeleteImage, StoreOK
<1>10. CASE DeleteImageFails(r)
  BY <1>0, <1>10 DEF DeleteImageFails, StoreOK, receipts
<1> QED
  BY <1>1, <1>2, <1>3, <1>4, <1>5, <1>6, <1>7, <1>8, <1>9, <1>10 DEF ReceiptStep

LEMMA BecomesKeeps ==
    ASSUME TypeInv, NEW r \in Requests, NEW q, Becomes(r, q), StoreOK
    PROVE  TypeInv'
<1>1. Seen(q)'
  BY DEF Becomes, documents, Seen, SavesDocument, DropsDocument
<1>2. req' \in [Requests -> Request] /\ \A s \in Requests : RequestHeld(req'[s]) /\ Seen(req[s])'
  BY <1>1, SlotChanges DEF Becomes, documents
<1>3. TablesOK'
  BY <1>2 DEF TypeInv, TablesOK, Becomes, StoreOK, documents, unlocking, cards, Exists
<1> QED
  BY <1>2, <1>3 DEF TypeInv, RequestHeld, DocumentHeld, ReceiptHeld, SavesDocument,
                    DropsDocument, HasImage

LEMMA ReceiptsKeepTypes ==
    ASSUME TypeInv, NEW r \in Requests, ReceiptRequest(r) \/ ReceiptStep(r)
    PROVE  TypeInv'
<1>1. \E q : Becomes(r, q)
  <2>1. CASE ReceiptRequest(r)
    BY <2>1, AddStarts, ChangeStarts, RemoveStarts DEF ReceiptRequest
  <2>2. CASE PutImage(r)
    BY <2>2, PutMoves
  <2>3. CASE AddUsage(r) \/ AddUsageFails(r)
    BY <2>3, UploadMoves
  <2>4. CASE InsertReceipt(r) \/ DeleteImage(r) \/ DeleteImageFails(r)
    BY <2>4, ReceiptEnds
  <2>5. CASE LoadReceipt(r)
    BY <2>5, LoadMoves
  <2>6. CASE SaveReceipt(r) \/ DropReceipt(r)
    BY <2>6, ReceiptWritten
  <2>7. CASE Subtract(r)
    BY <2>7, SubtractMoves
  <2> QED
    BY <2>1, <2>2, <2>3, <2>4, <2>5, <2>6, <2>7 DEF ReceiptStep
<1> QED
  BY <1>1, StoreStaysOK, BecomesKeeps

-----------------------------------------------------------------------------
(* Reading, jobs, and the end of a request *)

(* What only reads, and what the card server does, leaves the requests and *)
(* their tables alone.                                                     *)
LEMMA ReadingKeepsTypes ==
    ASSUME TypeInv, NEW r \in Requests, GetDocuments(r) \/ GetDocument(r) \/ Download(r)
    PROVE  TypeInv'
<1>1. /\ UNCHANGED <<documents, cookie, proven, receipts, used, cards, req, scenario, faults>>
      /\ asked' = asked + 1
  BY DEF GetDocuments, GetDocument, Download, Begins
<1>2. \A d \in Docs, whole \in BOOLEAN :
         Answer(d, whole) \in [doc : Docs, whole : BOOLEAN, locked : BOOLEAN]
  BY DEF TypeInv, TablesOK, Answer, DocRow
<1>3. view' \subseteq [doc : Docs, whole : BOOLEAN, locked : BOOLEAN]
  <2>1. CASE GetDocuments(r)
    <3>1. view' = {Answer(d, ~doc[d].locked) : d \in {e \in Docs : Exists(e)}}
      BY <2>1 DEF GetDocuments
    <3>2. \A d \in Docs : (~doc[d].locked) \in BOOLEAN
      OBVIOUS
    <3> QED
      BY <1>2, <3>1, <3>2
  <2>2. CASE GetDocument(r)
    <3>1. PICK d \in Docs : view' = {Answer(d, ~doc[d].locked \/ ValidToken(d))}
      BY <2>2 DEF GetDocument
    <3>2. (~doc[d].locked \/ ValidToken(d)) \in BOOLEAN
      OBVIOUS
    <3> QED
      BY <1>2, <3>1, <3>2
  <2>3. CASE Download(r)
    <3>1. PICK d \in Docs : view' = {Answer(d, TRUE)}
      BY <2>3 DEF Download
    <3> QED
      BY <1>2, <3>1
  <2> QED
    BY <2>1, <2>2, <2>3
<1>4. TablesOK'
  BY <1>1, <1>3 DEF TypeInv, TablesOK, documents, receipts, cards, Exists
<1> QED
  BY <1>1, <1>4 DEF TypeInv, RequestHeld, DocumentHeld, ReceiptHeld, SavesDocument,
                    DropsDocument, HasImage, Seen, documents

LEMMA TokensKeepTypes ==
    ASSUME TypeInv, NEW d \in Docs, ExpireToken(d)
    PROVE  TypeInv'
<1>1. /\ UNCHANGED <<documents, view, receipts, used, cards, req, scenario, asked, faults>>
      /\ proven' \subseteq Docs /\ cookie' \in Docs \cup {NoDoc}
  BY DEF ExpireToken, TypeInv, TablesOK
<1>2. TablesOK'
  BY <1>1 DEF TypeInv, TablesOK, documents, receipts, cards, Exists
<1> QED
  BY <1>1, <1>2 DEF TypeInv, RequestHeld, DocumentHeld, ReceiptHeld, SavesDocument,
                    DropsDocument, HasImage, Seen, documents

(* A step of the card server: the queue is one job shorter, or not.        *)
JobStep ==
    /\ UNCHANGED <<documents, unlocking, receipts, used, req, scenario, asked, requestedAt>>
    /\ queued' \in Nat /\ jobsDone' \in Nat /\ faults' \in Nat /\ faults' >= faults

LEMMA JobsStep ==
    ASSUME TypeInv, NEW t \in Threads, ThreadStep(t) \/ JobFails(t)
    PROVE  JobStep
<1>0. queued \in Nat /\ jobsDone \in Nat /\ faults \in Nat
  BY DEF TypeInv, TablesOK
<1>1. CASE Pop(t)
  BY <1>0, <1>1 DEF Pop, JobStep
<1>2. CASE ReadTotals(t)
  BY <1>0, <1>2 DEF ReadTotals, JobStep
<1>3. CASE Rank(t)
  BY <1>0, <1>3 DEF Rank, JobStep
<1>4. CASE DeleteRows(t)
  BY <1>0, <1>4 DEF DeleteRows, JobStep
<1>5. CASE CommitRows(t)
  BY <1>0, <1>5 DEF CommitRows, JobStep
<1>6. CASE JobFails(t)
  BY <1>0, <1>6 DEF JobFails, JobStep
<1> QED
  BY <1>1, <1>2, <1>3, <1>4, <1>5, <1>6 DEF ThreadStep

LEMMA JobsKeepTypes ==
    ASSUME TypeInv, JobStep
    PROVE  TypeInv'
<1>1. TablesOK'
  BY DEF TypeInv, TablesOK, JobStep, documents, unlocking, receipts, Exists
<1> QED
  BY <1>1 DEF TypeInv, RequestHeld, DocumentHeld, ReceiptHeld, SavesDocument,
              DropsDocument, HasImage, Seen, documents, JobStep

LEMMA AiStarts ==
    ASSUME TypeInv, NEW r \in Requests, StartRequestAi(r)
    PROVE  \E q : Quietly(r, q)
<1>1. PICK q : q = [IdleRequest EXCEPT !.op = "requestAi", !.pc = "push"]
  OBVIOUS
<1>2. "requestAi" \in AllOps /\ "push" \in RequestPc
  BY DEF AllOps, CardOps, RequestPc
<1>3. q \in Request
  BY <1>1, <1>2, IdleHeld DEF Request
<1>4. /\ q.op = "requestAi" /\ q.pc = "push" /\ q.new = NoImage /\ q.old = NoImage
      /\ q.copy = NoReceiptRow
  BY <1>1 DEF IdleRequest
<1>5. req' = [req EXCEPT ![r] = q]
  BY <1>1 DEF StartRequestAi
<1>6. UNCHANGED <<documents, unlocking, receipts, used, cards, scenario, faults>> /\ asked' = asked + 1
  BY DEF StartRequestAi, Begins
<1>7. TypedStep(r, q)
  BY <1>5, <1>6 DEF TypedStep, TypeInv, TablesOK
<1>8. RequestHeld(q) /\ Seen(q) /\ q.op \in CardOps
  BY <1>4 DEF RequestHeld, DocumentHeld, ReceiptHeld, Seen, SavesDocument, DropsDocument,
              CardOps
<1> QED
  BY <1>3, <1>7, <1>8 DEF Quietly

LEMMA PushKeepsTypes ==
    ASSUME TypeInv, NEW r \in Requests, PushJob(r)
    PROVE  TypeInv'
<1>1. /\ req' = [req EXCEPT ![r] = IdleRequest]
      /\ UNCHANGED <<documents, unlocking, receipts, used, jobsDone, scenario, asked, faults>>
      /\ queued' = queued + 1 /\ requestedAt' = writes
  BY DEF PushJob, Finished
<1>2. Seen(IdleRequest)'
  BY DEF Seen, SavesDocument, DropsDocument, IdleRequest
<1>3. req' \in [Requests -> Request] /\ \A s \in Requests : RequestHeld(req'[s]) /\ Seen(req[s])'
  BY <1>1, <1>2, SlotChanges, IdleHeld DEF documents
<1>4. TablesOK'
  BY <1>1, <1>3 DEF TypeInv, TablesOK, documents, unlocking, receipts, Exists
<1> QED
  BY <1>3, <1>4 DEF TypeInv, RequestHeld, DocumentHeld, ReceiptHeld, SavesDocument,
                    DropsDocument, HasImage

LEMMA Aborts ==
    ASSUME TypeInv, NEW r \in Requests, Abort(r)
    PROVE  Quietly(r, IdleRequest) /\ faults' = faults + 1
<1>1. TypedStep(r, IdleRequest) /\ faults' = faults + 1
  BY DEF Abort, Finished, TypedStep, TypeInv, TablesOK
<1> QED
  BY <1>1, Finishes

LEMMA InitTyped ==
    ASSUME Init
    PROVE  TypeInv
<1>1. PICK locked \in BOOLEAN, n \in Names, first \in Docs :
         /\ doc = [d \in Docs |-> IF d = first THEN [NewDoc(1) EXCEPT !.locked = locked]
                                               ELSE NoDocRow]
         /\ docFile = {first} \X Pages
         /\ tag = {n} /\ docTag = {<<first, n>>}
  BY DEF Init
<1>2. /\ [NewDoc(1) EXCEPT !.locked = locked] \in DocRow
      /\ [NewDoc(1) EXCEPT !.locked = locked].state = "LIVE" /\ NoDocRow \in DocRow
  <2>1. NoDocRow \in DocRow
    BY DEF NoDocRow, DocRow, RowState
  <2>2. ASSUME NEW bytes \in 0..1
        PROVE  NewDoc(bytes) \in DocRow /\ NewDoc(bytes).state = "LIVE"
    BY DEF NewDoc, NoDocRow, DocRow, RowState
  <2>3. NewDoc(1) \in DocRow /\ NewDoc(1).state = "LIVE"
    BY <2>2
  <2> QED
    BY <2>1, <2>3 DEF DocRow
<1>3. doc \in [Docs -> DocRow] /\ doc[first].state = "LIVE"
  BY <1>1, <1>2
<1>4. receipt \in [Receipts -> ReceiptRow]
  BY LibraryAssumption DEF Init
<1>5. uploaded = {receipt[c].image : c \in Receipts} \ {NoImage} /\ s3 = uploaded
      /\ used = 1 + Cardinality(uploaded)
  BY DEF Init
<1>6. uploaded \subseteq Images
  <2>1. \A c \in Receipts : receipt[c].image \in Images \cup {NoImage}
    BY <1>4 DEF ReceiptRow
  <2> QED
    BY <1>5, <2>1
<1>7. used \in Nat
  <2>1. IsFiniteSet(Images)
    BY LibraryAssumption
  <2>2. IsFiniteSet(uploaded)
    BY <1>6, <2>1, FS_Subset
  <2> QED
    BY <1>5, <2>2, FS_CardinalityType
<1>8. /\ req = [r \in Requests |-> IdleRequest] /\ scenario \in Scenarios
      /\ cookie = NoDoc /\ proven = {} /\ view = {} /\ queued = 0 /\ asked = 0 /\ faults = 0
      /\ raced = {} /\ writes = 0 /\ requestedAt = 0 /\ jobsDone = 0
  BY DEF Init
<1>9. \A x \in docFile \cup docTag : x[1] = first
  BY <1>1
<1>10. /\ docFile \subseteq Docs \X Pages /\ tag \subseteq Names /\ docTag \subseteq Docs \X tag
       /\ \A x \in docFile \cup docTag : Exists(x[1])
  <2>1. docFile \subseteq Docs \X Pages
    BY <1>1
  <2>2. tag \subseteq Names /\ docTag \subseteq Docs \X tag
    BY <1>1
  <2>3. \A x \in docFile \cup docTag : Exists(x[1])
    BY <1>3, <1>9 DEF Exists
  <2> QED
    BY <2>1, <2>2, <2>3
<1>11. TablesOK
  BY <1>3, <1>4, <1>5, <1>6, <1>7, <1>8, <1>10, IdleHeld DEF TablesOK
<1> QED
  BY <1>8, <1>11, IdleHeld DEF TypeInv

(* Every step is one of these.                                             *)
Saves(r) ==
    \/ CreateDocument(r) \/ InsertFile(r) \/ Unlock(r) \/ SaveDocument(r)
    \/ DropDocument(r) \/ FindOrCreateTag(r) \/ AddTag(r) \/ RemoveTag(r)
Reads(r) == GetDocuments(r) \/ GetDocument(r) \/ Download(r)

LEMMA NextCases ==
    ASSUME TypeInv, [Next]_vars
    PROVE  \/ \E r \in Requests : \E q : Quietly(r, q) /\ faults' >= faults
           \/ \E r \in Requests : Saves(r)
           \/ \E r \in Requests : Reads(r)
           \/ \E r \in Requests : ReceiptRequest(r) \/ ReceiptStep(r)
           \/ \E r \in Requests : PushJob(r)
           \/ JobStep
           \/ \E d \in Docs : ExpireToken(d)
           \/ UNCHANGED vars
<1>0. faults \in Nat
  BY DEF TypeInv, TablesOK
<1>1. ASSUME NEW r \in Requests, DocumentRequest(r) \/ DocumentStep(r), ~Saves(r), ~Reads(r)
      PROVE  \E q : Quietly(r, q) /\ faults' >= faults
  <2>1. CASE StartLock(r) \/ StartEdit(r) \/ StartDelete(r) \/ StartTag(r)
    <3>1. faults' = faults
      BY <2>1 DEF StartLock, StartEdit, StartDelete, StartTag
    <3> QED
      BY <1>0, <2>1, <3>1, DocumentStarts
  <2>2. CASE \/ WriteActivity(r) \/ ForeignKeyFails(r) \/ PinIsWrong(r) \/ PinIsRight(r)
             \/ LoadForLock(r) \/ CheckTag(r)
    <3>1. faults' = faults
      BY <2>2 DEF WriteActivity, ForeignKeyFails, PinIsWrong, PinIsRight, LoadForLock, CheckTag
    <3> QED
      BY <1>0, <2>2, <3>1, DocumentMoves
  <2> QED
    BY <1>1, <2>1, <2>2 DEF DocumentRequest, DocumentStep, Saves, Reads
<1>2. ASSUME NEW r \in Requests, StartRequestAi(r)
      PROVE  \E q : Quietly(r, q) /\ faults' >= faults
  <2>1. faults' = faults
    BY <1>2 DEF StartRequestAi
  <2> QED
    BY <1>0, <1>2, <2>1, AiStarts
<1>3. ASSUME NEW r \in Requests, Abort(r)
      PROVE  \E q : Quietly(r, q) /\ faults' >= faults
  BY <1>0, <1>3, Aborts
<1>4. ASSUME NEW t \in Threads, ThreadStep(t) \/ JobFails(t)
      PROVE  JobStep
  BY <1>4, JobsStep
<1> QED
  BY <1>1, <1>2, <1>3, <1>4 DEF Next

LEMMA NextTyped ==
    ASSUME TypeInv, [Next]_vars
    PROVE  TypeInv'
<1>1. ASSUME NEW r \in Requests, NEW q, Quietly(r, q)
      PROVE  TypeInv'
  BY <1>1, TypedStepKeeps DEF Quietly
<1>2. ASSUME NEW r \in Requests, Saves(r)
      PROVE  TypeInv'
  BY <1>2, DocumentWrites, RowsStayOK, WritesKeep DEF Saves
<1>3. ASSUME NEW r \in Requests, Reads(r)
      PROVE  TypeInv'
  BY <1>3, ReadingKeepsTypes DEF Reads
<1>4. CASE UNCHANGED vars
  BY <1>4 DEF vars, documents, unlocking, receipts, cards, TypeInv, TablesOK, Exists,
              RequestHeld, DocumentHeld, ReceiptHeld, SavesDocument, DropsDocument, HasImage,
              Seen
<1> QED
  BY <1>1, <1>2, <1>3, <1>4, NextCases, ReceiptsKeepTypes, PushKeepsTypes, JobsKeepTypes,
     TokensKeepTypes

(* The tables of documents, receipts and requests keep their types and     *)
(* their foreign keys, for any number of requests, whatever order their    *)
(* awaits come in.                                                         *)
THEOREM TablesStayTyped == Spec => []TablesOK
<1>1. TypeInv => TablesOK
  BY DEF TypeInv
<1> QED
  BY <1>1, InitTyped, NextTyped, PTL DEF Spec

-----------------------------------------------------------------------------
(* Unlocking *)

(* The content of a locked document is shown only for the document of the  *)
(* live token, which the PIN was entered for (hasValidUnlockToken,         *)
(* redactLockedDocument), whichever requests run at once.                  *)
LEMMA CookieStaysProven ==
    ASSUME TypeInv, CookieInv, [Next]_vars
    PROVE  CookieInv'
<1>1. CASE UNCHANGED <<cookie, proven>>
  BY <1>1 DEF CookieInv
<1>2. ASSUME NEW r \in Requests, Saves(r)
      PROVE  CookieInv'
  <2>1. CASE Unlock(r)
    BY <2>1 DEF Unlock, CookieInv
  <2>2. CASE ~Unlock(r)
    <3>1. UNCHANGED unlocking
      BY <1>2, <2>2 DEF Saves, CreateDocument, InsertFile, SaveDocument, DropDocument,
                        FindOrCreateTag, AddTag, RemoveTag
    <3> QED
      BY <1>1, <3>1 DEF unlocking
  <2> QED
    BY <2>1, <2>2
<1>3. ASSUME NEW d \in Docs, ExpireToken(d)
      PROVE  CookieInv'
  BY <1>3 DEF ExpireToken, CookieInv
<1>4. ASSUME NEW r \in Requests, NEW q, Quietly(r, q)
      PROVE  UNCHANGED <<cookie, proven>>
  BY <1>4 DEF Quietly, TypedStep, unlocking
<1>5. ASSUME NEW r \in Requests, Reads(r) \/ PushJob(r) \/ ReceiptRequest(r) \/ ReceiptStep(r)
      PROVE  UNCHANGED <<cookie, proven>>
  <2>1. CASE Reads(r)
    BY <2>1 DEF Reads, GetDocuments, GetDocument, Download
  <2>2. CASE PushJob(r)
    BY <2>2 DEF PushJob, unlocking
  <2>3. CASE ReceiptRequest(r)
    BY <2>3 DEF ReceiptRequest, StartAdd, StartChange, StartRemove, unlocking
  <2>4. CASE ReceiptStep(r)
    BY <2>4 DEF ReceiptStep, PutImage, AddUsage, AddUsageFails, InsertReceipt, LoadReceipt,
                SaveReceipt, DropReceipt, Subtract, DeleteImage, DeleteImageFails, unlocking
  <2> QED
    BY <1>5, <2>1, <2>2, <2>3, <2>4
<1>6. JobStep \/ UNCHANGED vars => UNCHANGED <<cookie, proven>>
  BY DEF JobStep, vars, unlocking
<1> QED
  BY <1>1, <1>2, <1>3, <1>4, <1>5, <1>6, NextCases

LEMMA ViewIsDue ==
    ASSUME TypeInv, CookieInv, [Next]_vars
    PROVE  \A a \in view' \ view : a.locked /\ a.whole => a.doc \in proven
<1>0. NoDoc \notin Docs
  BY LibraryAssumption
<1>1. ASSUME NEW r \in Requests, Reads(r)
      PROVE  \A a \in view' : a.locked /\ a.whole => a.doc \in proven
  <2>1. CASE GetDocuments(r)
    <3>1. view' = {Answer(d, ~doc[d].locked) : d \in {e \in Docs : Exists(e)}}
      BY <2>1 DEF GetDocuments
    <3>2. ASSUME NEW a \in view', a.locked, a.whole
          PROVE  a.doc \in proven
      <4>1. PICK d \in Docs : a = Answer(d, ~doc[d].locked)
        BY <3>1, <3>2
      <4>2. a.locked = doc[d].locked /\ a.whole = ~doc[d].locked
        BY <4>1 DEF Answer
      <4> QED
        BY <3>2, <4>2, Zenon
    <3> QED
      BY <3>2
  <2>2. CASE GetDocument(r)
    <3>1. PICK d \in Docs : view' = {Answer(d, ~doc[d].locked \/ ValidToken(d))}
      BY <2>2 DEF GetDocument
    <3>2. ASSUME NEW a \in view', a.locked, a.whole
          PROVE  a.doc \in proven
      <4>1. a = Answer(d, ~doc[d].locked \/ ValidToken(d))
        BY <3>1, <3>2
      <4>2. /\ a.doc = d /\ a.locked = doc[d].locked
            /\ a.whole = (~doc[d].locked \/ ValidToken(d))
        BY <4>1 DEF Answer
      <4>3. ValidToken(d)
        BY <3>2, <4>2, Zenon
      <4> QED
        BY <1>0, <4>2, <4>3 DEF ValidToken, CookieInv
    <3> QED
      BY <3>2
  <2>3. CASE Download(r)
    <3>1. PICK d \in Docs : /\ ~doc[d].locked \/ ValidToken(d)
                            /\ view' = {Answer(d, TRUE)}
      BY <2>3 DEF Download
    <3> QED
      BY <1>0, <3>1 DEF Answer, ValidToken, CookieInv
  <2> QED
    BY <1>1, <2>1, <2>2, <2>3 DEF Reads
<1>2. ASSUME NEW r \in Requests, NEW q, Quietly(r, q)
      PROVE  view' = view
  BY <1>2 DEF Quietly, TypedStep, unlocking
<1>3. ASSUME NEW r \in Requests, Saves(r)
      PROVE  view' = view
  BY <1>3, RowsStayOK DEF RowsOK, Saves
<1>4. ASSUME NEW r \in Requests, PushJob(r) \/ ReceiptRequest(r) \/ ReceiptStep(r)
      PROVE  view' = view
  <2>1. CASE PushJob(r)
    BY <2>1 DEF PushJob, unlocking
  <2>2. CASE ReceiptRequest(r)
    BY <2>2 DEF ReceiptRequest, StartAdd, StartChange, StartRemove, unlocking
  <2>3. CASE ReceiptStep(r)
    BY <2>3 DEF ReceiptStep, PutImage, AddUsage, AddUsageFails, InsertReceipt, LoadReceipt,
                SaveReceipt, DropReceipt, Subtract, DeleteImage, DeleteImageFails, unlocking
  <2> QED
    BY <1>4, <2>1, <2>2, <2>3
<1>5. JobStep \/ UNCHANGED vars => view' = view
  BY DEF JobStep, vars, unlocking
<1>6. ASSUME NEW d \in Docs, ExpireToken(d)
      PROVE  view' = view
  BY <1>6 DEF ExpireToken
<1> QED
  BY <1>1, <1>2, <1>3, <1>4, <1>5, <1>6, NextCases

(* What is locked is shown only when its own token is alive.               *)
THEOREM LockedStaysHidden == Spec => ShownWhenUnlocked
<1>1. Init => TypeInv /\ CookieInv
  <2>1. Init => CookieInv
    BY DEF Init, CookieInv
  <2> QED
    BY <2>1, InitTyped
<1>2. TypeInv /\ CookieInv /\ [Next]_vars => (TypeInv /\ CookieInv)'
  BY NextTyped, CookieStaysProven
<1>3. TypeInv /\ CookieInv /\ [Next]_vars =>
         [\A a \in view' \ view : a.locked /\ a.whole => a.doc \in proven]_vars
  BY ViewIsDue
<1> QED
  BY <1>1, <1>2, <1>3, PTL DEF Spec, ShownWhenUnlocked

-----------------------------------------------------------------------------
(* Images *)

Owner == [Images -> Receipts \cup {NoReceipt}]

(* A step that writes no receipt and no image: a request may know fewer    *)
(* images, or those of its receipt.                                        *)
LEMMA SlotImages ==
    ASSUME TypeInv, ImageInv, NEW r \in Requests, NEW q \in Request,
           req' = [req EXCEPT ![r] = q], UNCHANGED receipts,
           \A owner \in Owner : OwnedImages(owner) /\ OwnedRequest(owner, req[r])
               => OwnedRequest(owner, q),
           HasImage(q) => HasImage(req[r]) /\ q.new = req[r].new,
           Unwanted(q)
    PROVE  ImageInv'
<1>1. req \in [Requests -> Request]
  BY DEF TypeInv, TablesOK
<1>2. req'[r] = q /\ \A s \in Requests \ {r} : req'[s] = req[s]
  BY <1>1
<1>3. UNCHANGED <<receipt, uploaded, s3, raced>>
  BY DEF receipts
<1>4. KeptReceipts' = KeptReceipts
  BY <1>3 DEF KeptReceipts, Kept
<1>5. ReceiptImageStored'
  BY <1>3, <1>4 DEF ImageInv, ReceiptImageStored
<1>6. ImagesOwned'
  <2>1. PICK owner \in Owner :
           OwnedImages(owner) /\ \A s \in Requests : OwnedRequest(owner, req[s])
    BY DEF ImageInv, ImagesOwned, Owner
  <2>2. OwnedImages(owner)'
    BY <1>3, <2>1 DEF OwnedImages
  <2>3. \A s \in Requests : OwnedRequest(owner, req'[s])
    BY <1>2, <2>1
  <2> QED
    BY <2>2, <2>3 DEF ImagesOwned, Owner, OwnedRequest, HasImage
<1>7. ImagesApart'
  <2>1. \A s, u \in Requests :
           HasImage(req'[s]) /\ HasImage(req'[u]) /\ req'[s].new = req'[u].new => s = u
    BY <1>2 DEF ImageInv, ImagesApart
  <2> QED
    BY <2>1 DEF ImagesApart, HasImage
<1>8. ASSUME NEW s \in Requests
      PROVE  (HasImage(req[s]) => req[s].new \in s3)' /\ Unwanted(req[s])'
  <2>1. HasImage(req'[s]) => req'[s].new \in s3
    BY <1>2 DEF ImageInv
  <2>2. Unwanted(req'[s])
    BY <1>2 DEF ImageInv
  <2> QED
    BY <1>3, <1>4, <2>1, <2>2 DEF HasImage, Unwanted
<1> QED
  BY <1>5, <1>6, <1>7, <1>8 DEF ImageInv

(* A request that knows of no image.                                       *)
Imageless(q) ==
    /\ q.copy = NoReceiptRow /\ q.new = NoImage /\ q.old = NoImage
    /\ q.pc \notin {"subtract", "unlink"}

LEMMA ImagelessSlot ==
    ASSUME TypeInv, ImageInv, NEW r \in Requests, NEW q \in Request,
           req' = [req EXCEPT ![r] = q], UNCHANGED receipts, Imageless(q)
    PROVE  ImageInv'
<1>1. \A owner : OwnedRequest(owner, q)
  BY DEF Imageless, OwnedRequest, NoReceiptRow, HasImage
<1>2. ~HasImage(q) /\ Unwanted(q)
  BY DEF Imageless, HasImage, Unwanted
<1> QED
  BY <1>1, <1>2, SlotImages

LEMMA OthersImageless ==
    ASSUME NEW q, RequestHeld(q), q.op \in DocumentOps \cup CardOps \cup {"none"}
    PROVE  Imageless(q)
BY DEF Imageless, RequestHeld, ReceiptHeld, DocumentOps, CardOps

LEMMA IdleImageless == Imageless(IdleRequest)
BY DEF Imageless, IdleRequest

(* The requests of documents and of recommendations, and the card server.  *)
Elsewhere ==
    /\ UNCHANGED <<receipts, scenario>>
    /\ \/ UNCHANGED req
       \/ \E r \in Requests, q \in Request : Imageless(q) /\ req' = [req EXCEPT ![r] = q]

LEMMA StepsElsewhere ==
    ASSUME TypeInv, [Next]_vars,
           ~\E r \in Requests : ReceiptRequest(r) \/ ReceiptStep(r)
    PROVE  Elsewhere
<1>1. ASSUME NEW r \in Requests, NEW q, Quietly(r, q)
      PROVE  Elsewhere
  <2>1. Imageless(q) /\ q \in Request
    BY <1>1, OthersImageless DEF Quietly
  <2> QED
    BY <1>1, <2>1 DEF Elsewhere, Quietly, TypedStep
<1>2. ASSUME NEW r \in Requests, Saves(r)
      PROVE  Elsewhere
  <2>1. PICK q : Writes(r, q)
    BY <1>2, DocumentWrites DEF Saves
  <2>2. Imageless(q) /\ q \in Request
    BY <2>1, OthersImageless DEF Writes
  <2> QED
    BY <2>1, <2>2 DEF Elsewhere, Writes
<1>3. ASSUME NEW r \in Requests, Reads(r)
      PROVE  Elsewhere
  BY <1>3 DEF Elsewhere, Reads, GetDocuments, GetDocument, Download
<1>4. ASSUME NEW r \in Requests, PushJob(r)
      PROVE  Elsewhere
  BY <1>4, IdleImageless, IdleHeld DEF Elsewhere, PushJob, Finished
<1>5. JobStep \/ UNCHANGED vars => Elsewhere
  BY DEF Elsewhere, JobStep, vars
<1>6. ASSUME NEW d \in Docs, ExpireToken(d)
      PROVE  Elsewhere
  BY <1>6 DEF Elsewhere, ExpireToken
<1> QED
  BY <1>1, <1>2, <1>3, <1>4, <1>5, <1>6, NextCases

LEMMA ImagesElsewhere ==
    ASSUME TypeInv, ImageInv, Elsewhere
    PROVE  ImageInv'
<1>1. CASE UNCHANGED req
  BY <1>1 DEF Elsewhere, receipts, ImageInv, ReceiptImageStored, KeptReceipts, Kept,
              ImagesOwned, OwnedImages, OwnedRequest, HasImage, ImagesApart, Unwanted
<1>2. CASE \E r \in Requests, q \in Request : Imageless(q) /\ req' = [req EXCEPT ![r] = q]
  BY <1>2, ImagelessSlot DEF Elsewhere
<1> QED
  BY <1>1, <1>2 DEF Elsewhere

(* The image that a request loses sight of is of no receipt that is kept,  *)
(* once its own receipt is gone.                                           *)
LEMMA OldIsUnwanted ==
    ASSUME TypeInv, ImageInv, NEW r \in Requests, req[r].old # NoImage,
           ~Kept(req[r].receipt)
    PROVE  \A c \in KeptReceipts : receipt[c].image # req[r].old
<1>1. PICK owner : OwnedImages(owner) /\ OwnedRequest(owner, req[r])
  BY DEF ImageInv, ImagesOwned
<1> QED
  BY <1>1 DEF OwnedImages, OwnedRequest, KeptReceipts

LEMMA StartsKeepImages ==
    ASSUME TypeInv, ImageInv, NEW r \in Requests, ReceiptRequest(r)
    PROVE  ImageInv'
<1>1. UNCHANGED receipts
  BY DEF ReceiptRequest, StartAdd, StartChange, StartRemove
<1>2. CASE StartAdd(r)
  <2>1. PICK q : /\ Becomes(r, q) /\ q.pc \in {"put", "insert"}
                 /\ q.new = NoImage /\ q.old = NoImage /\ q.copy = NoReceiptRow
    BY <1>2, AddStarts
  <2>2. Imageless(q)
    BY <2>1 DEF Imageless
  <2> QED
    BY <1>1, <2>1, <2>2, ImagelessSlot DEF Becomes
<1>3. CASE StartChange(r) \/ StartRemove(r)
  <2>1. PICK q : /\ Becomes(r, q) /\ q.pc \in {"put", "load", "drop"} /\ q.receipt \in Receipts
                 /\ q.new = NoImage /\ q.copy = NoReceiptRow
                 /\ q.old \in {NoImage, receipt[q.receipt].image}
    BY <1>3, ChangeStarts, RemoveStarts
  <2>2. \A owner \in Owner : OwnedImages(owner) => OwnedRequest(owner, q)
    BY <2>1 DEF OwnedImages, OwnedRequest, NoReceiptRow, HasImage
  <2>3. ~HasImage(q) /\ Unwanted(q)
    BY <2>1 DEF HasImage, Unwanted
  <2> QED
    BY <1>1, <2>1, <2>2, <2>3, SlotImages DEF Becomes
<1> QED
  BY <1>2, <1>3 DEF ReceiptRequest

LEMMA MovesKeepImages ==
    ASSUME TypeInv, ImageInv, NEW r \in Requests,
           \/ AddUsage(r) \/ AddUsageFails(r) \/ LoadReceipt(r) \/ Subtract(r)
           \/ DeleteImageFails(r)
    PROVE  ImageInv'
<1>1. CASE AddUsage(r) \/ AddUsageFails(r)
  <2>1. PICK q : /\ Becomes(r, q) /\ Keeps(q, req[r]) /\ q.copy = req[r].copy
                 /\ q.new = req[r].new /\ q.pc \in {"insert", "load"}
                 /\ req[r].pc = "addUsage" /\ UNCHANGED receipts
    BY <1>1, UploadMoves
  <2>2. \A owner : OwnedRequest(owner, req[r]) => OwnedRequest(owner, q)
    BY <2>1 DEF OwnedRequest, HasImage, Keeps
  <2>3. (HasImage(q) => HasImage(req[r])) /\ Unwanted(q)
    BY <2>1 DEF HasImage, Unwanted
  <2> QED
    BY <2>1, <2>2, <2>3, SlotImages DEF Becomes
<1>2. CASE LoadReceipt(r)
  <2>1. PICK q : /\ Becomes(r, q) /\ UNCHANGED receipts
                 /\ req[r].op = "change" /\ req[r].pc = "load"
                 /\ \/ /\ Keeps(q, req[r]) /\ q.new = req[r].new
                       /\ q.pc = "save" /\ q.copy = receipt[req[r].receipt]
                    \/ ~Kept(req[r].receipt) /\ Written(q, req[r])
    BY <1>2, LoadMoves
  <2>2. req[r].receipt \in Receipts
    BY <2>1 DEF TypeInv, RequestHeld, ReceiptHeld
  <2>3. CASE Keeps(q, req[r]) /\ q.new = req[r].new
             /\ q.pc = "save" /\ q.copy = receipt[req[r].receipt]
    <3>1. \A owner \in Owner : OwnedImages(owner) /\ OwnedRequest(owner, req[r])
              => OwnedRequest(owner, q)
      BY <2>1, <2>2, <2>3 DEF OwnedImages, OwnedRequest, HasImage, Keeps
    <3>2. (HasImage(q) => HasImage(req[r])) /\ Unwanted(q)
      BY <2>1, <2>3 DEF HasImage, Unwanted
    <3> QED
      BY <2>1, <2>3, <3>1, <3>2, SlotImages DEF Becomes
  <2>4. CASE ~Kept(req[r].receipt) /\ req[r].old = NoImage /\ Ended(q)
    BY <2>1, <2>4, IdleImageless, ImagelessSlot DEF Ended, Becomes
  <2>5. CASE ~Kept(req[r].receipt) /\ req[r].old # NoImage /\ Keeps(q, req[r])
             /\ q.pc = "subtract" /\ q.copy = req[r].copy
    <3>1. \A owner : OwnedRequest(owner, req[r]) => OwnedRequest(owner, q)
      BY <2>5 DEF OwnedRequest, HasImage, Keeps
    <3>2. Unwanted(q)
      BY <2>5, OldIsUnwanted DEF Unwanted, Keeps
    <3>3. ~HasImage(q)
      BY <2>5 DEF HasImage
    <3> QED
      BY <2>1, <3>1, <3>2, <3>3, SlotImages DEF Becomes
  <2> QED
    BY <2>1, <2>3, <2>4, <2>5 DEF Written
<1>3. CASE Subtract(r)
  <2>1. PICK q : /\ Becomes(r, q) /\ Keeps(q, req[r]) /\ q.copy = req[r].copy
                 /\ q.pc = "unlink" /\ req[r].pc = "subtract" /\ UNCHANGED receipts
    BY <1>3, SubtractMoves
  <2>2. \A owner : OwnedRequest(owner, req[r]) => OwnedRequest(owner, q)
    BY <2>1 DEF OwnedRequest, HasImage, Keeps
  <2>3. ~HasImage(q) /\ Unwanted(q)
    BY <2>1 DEF HasImage, Unwanted, ImageInv, Keeps
  <2> QED
    BY <2>1, <2>2, <2>3, SlotImages DEF Becomes
<1>4. CASE DeleteImageFails(r)
  <2>1. Becomes(r, IdleRequest) /\ UNCHANGED receipts
    BY <1>4, ReceiptEnds DEF DeleteImageFails
  <2> QED
    BY <2>1, IdleImageless, ImagelessSlot DEF Becomes
<1> QED
  BY <1>1, <1>2, <1>3, <1>4

(* A new image is nobody's, and no other request has it.                   *)
LEMMA PutKeepsImages ==
    ASSUME TypeInv, ImageInv, NEW r \in Requests, PutImage(r)
    PROVE  ImageInv'
<1>1. PICK q, i : /\ Becomes(r, q) /\ Keeps(q, req[r]) /\ q.copy = req[r].copy
                  /\ q.pc = "addUsage" /\ q.new = i /\ i \in Images \ uploaded
                  /\ uploaded' = uploaded \cup {i} /\ s3' = s3 \cup {i}
                  /\ UNCHANGED <<receipt, raced>>
  BY PutMoves
<1>2. /\ req \in [Requests -> Request] /\ s3 \subseteq uploaded
      /\ req' = [req EXCEPT ![r] = q]
  BY <1>1 DEF TypeInv, TablesOK, Becomes
<1>3. req'[r] = q /\ \A s \in Requests \ {r} : req'[s] = req[s]
  BY <1>2
<1>4. KeptReceipts' = KeptReceipts
  BY <1>1 DEF KeptReceipts, Kept
<1>5. ReceiptImageStored'
  BY <1>1, <1>4 DEF ImageInv, ReceiptImageStored
<1>6. ImagesOwned'
  <2>1. PICK owner \in Owner :
           OwnedImages(owner) /\ \A s \in Requests : OwnedRequest(owner, req[s])
    BY DEF ImageInv, ImagesOwned, Owner
  <2>2. OwnedImages(owner)'
    BY <1>1, <2>1 DEF OwnedImages
  <2>3. OwnedRequest(owner, q)
    <3>1. owner[i] = NoReceipt /\ OwnedRequest(owner, req[r])
      BY <1>1, <2>1 DEF OwnedImages
    <3> QED
      BY <1>1, <3>1 DEF OwnedRequest, Keeps
  <2>4. \A s \in Requests : OwnedRequest(owner, req'[s])
    BY <1>3, <2>1, <2>3
  <2> QED
    BY <2>2, <2>4 DEF ImagesOwned, Owner, OwnedRequest, HasImage
<1>7. ImagesApart'
  <2>1. \A s \in Requests : HasImage(req[s]) => req[s].new # i
    BY <1>1, <1>2 DEF ImageInv
  <2>2. \A s, u \in Requests :
           HasImage(req'[s]) /\ HasImage(req'[u]) /\ req'[s].new = req'[u].new => s = u
    BY <1>1, <1>3, <2>1 DEF ImageInv, ImagesApart
  <2> QED
    BY <2>2 DEF ImagesApart, HasImage
<1>8. ASSUME NEW s \in Requests
      PROVE  (HasImage(req[s]) => req[s].new \in s3)' /\ Unwanted(req[s])'
  <2>1. HasImage(req'[s]) => req'[s].new \in s3'
    BY <1>1, <1>3 DEF ImageInv
  <2>2. Unwanted(req'[s])
    BY <1>1, <1>3 DEF ImageInv, Unwanted
  <2> QED
    BY <1>1, <1>4, <2>1, <2>2 DEF HasImage, Unwanted
<1> QED
  BY <1>5, <1>6, <1>7, <1>8 DEF ImageInv

(* A receipt is written with the new image of the request, which is its    *)
(* own from now on.                                                        *)
LEMMA NewImageWritten ==
    ASSUME TypeInv, ImageInv, NEW r \in Requests, NEW q \in Request, NEW c \in Receipts,
           NEW row,
           req' = [req EXCEPT ![r] = q], receipt' = [receipt EXCEPT ![c] = row],
           UNCHANGED <<uploaded, s3>>, raced \subseteq raced',
           HasImage(req[r]), row.image = req[r].new,
           Ended(q) \/ (req[r].receipt = c /\ Written(q, req[r]))
    PROVE  ImageInv'
<1>1. /\ req \in [Requests -> Request] /\ receipt \in [Receipts -> ReceiptRow]
      /\ s3 \subseteq uploaded /\ uploaded \subseteq Images
  BY DEF TypeInv, TablesOK
<1>2. req'[r] = q /\ \A s \in Requests \ {r} : req'[s] = req[s]
  BY <1>1
<1>3. receipt'[c] = row /\ \A e \in Receipts \ {c} : receipt'[e] = receipt[e]
  BY <1>1
<1> DEFINE i == req[r].new
<1>4. row.image = i /\ i # NoImage /\ i \in s3 /\ i \in uploaded /\ i \in Images
  BY <1>1 DEF HasImage, ImageInv
<1>5. PICK owner \in Owner :
         OwnedImages(owner) /\ \A s \in Requests : OwnedRequest(owner, req[s])
  BY DEF ImageInv, ImagesOwned, Owner
<1>6. owner[i] = NoReceipt /\ NoReceipt \notin Receipts
  BY <1>5, LibraryAssumption DEF OwnedRequest
<1>7. /\ \A e \in Receipts : receipt[e].image # i
      /\ \A s \in Requests : req[s].copy.image # i /\ req[s].old # i
  BY <1>4, <1>5, <1>6 DEF OwnedImages, OwnedRequest
<1>8. \A s \in Requests : HasImage(req[s]) /\ req[s].new = i => s = r
  BY DEF ImageInv, ImagesApart
<1>9. \/ q.copy = NoReceiptRow /\ q.old = NoImage /\ q.pc = "idle"
      \/ /\ q.copy = req[r].copy /\ q.old = req[r].old /\ q.receipt = req[r].receipt
         /\ q.receipt = c /\ q.pc = "subtract" /\ q.old # NoImage
  BY DEF Ended, Written, Keeps, IdleRequest
<1> HIDE DEF i
<1>10. ~HasImage(q)
  BY <1>9 DEF HasImage
<1>11. \A e \in KeptReceipts' \ raced' :
          e = c \/ (e \in KeptReceipts \ raced /\ receipt'[e] = receipt[e] /\ e # c)
  BY <1>3 DEF KeptReceipts, Kept
<1>12. ReceiptImageStored'
  <2>1. \A e \in KeptReceipts' \ raced' : receipt'[e].image # NoImage => receipt'[e].image \in s3
    BY <1>3, <1>4, <1>11 DEF ImageInv, ReceiptImageStored
  <2> QED
    BY <2>1 DEF ReceiptImageStored
<1>13. ImagesOwned'
  <2>1. PICK after : after = [owner EXCEPT ![i] = c]
    OBVIOUS
  <2>2. after \in Owner /\ after[i] = c /\ \A j \in Images \ {i} : after[j] = owner[j]
    BY <1>4, <2>1 DEF Owner
  <2>3. OwnedImages(after)'
    <3>1. ASSUME NEW e \in Receipts, receipt'[e].image # NoImage
          PROVE  after[receipt'[e].image] = e
      <4>1. CASE e = c
        BY <1>3, <1>4, <2>2, <4>1
      <4>2. CASE e # c
        <5>1. /\ receipt'[e] = receipt[e] /\ receipt[e].image # i
              /\ receipt[e].image \in Images
          BY <1>1, <1>3, <1>7, <3>1, <4>2 DEF ReceiptRow
        <5> QED
          BY <1>5, <2>2, <3>1, <5>1 DEF OwnedImages
      <4> QED
        BY <4>1, <4>2
    <3>2. \A j \in Images \ uploaded : after[j] = NoReceipt
      BY <1>4, <1>5, <2>2 DEF OwnedImages
    <3> QED
      BY <3>1, <3>2 DEF OwnedImages
  <2>4. ASSUME NEW s \in Requests
        PROVE  OwnedRequest(after, req'[s])
    <3>1. /\ req[s].copy.image \in Images \cup {NoImage} /\ req[s].old \in Images \cup {NoImage}
          /\ req[s].new \in Images \cup {NoImage}
      BY <1>1 DEF Request, ReceiptRow
    <3>2. OwnedRequest(owner, req[s]) /\ req[s].copy.image # i /\ req[s].old # i
      BY <1>5, <1>7
    <3>3. CASE s = r
      <4>1. req'[s] = q
        BY <1>2, <3>3
      <4>2. q.copy.image # NoImage => q.receipt \in Receipts /\ after[q.copy.image] = q.receipt
        BY <1>9, <2>2, <3>1, <3>2, <3>3 DEF OwnedRequest, NoReceiptRow
      <4>3. q.old # NoImage => q.receipt \in Receipts /\ after[q.old] = q.receipt
        BY <1>9, <2>2, <3>1, <3>2, <3>3 DEF OwnedRequest
      <4> QED
        BY <1>10, <4>1, <4>2, <4>3 DEF OwnedRequest
    <3>4. CASE s # r
      <4>1. req'[s] = req[s]
        BY <1>2, <3>4
      <4>2. HasImage(req[s]) => req[s].new # i /\ req[s].new \in Images
        BY <1>8, <3>1, <3>4 DEF HasImage
      <4> QED
        BY <2>2, <3>1, <3>2, <4>1, <4>2 DEF OwnedRequest
    <3> QED
      BY <3>3, <3>4
  <2> QED
    BY <2>2, <2>3, <2>4 DEF ImagesOwned, Owner, OwnedRequest, HasImage
<1>14. ImagesApart'
  <2>1. \A s, u \in Requests :
           HasImage(req'[s]) /\ HasImage(req'[u]) /\ req'[s].new = req'[u].new => s = u
    BY <1>2, <1>10 DEF ImageInv, ImagesApart
  <2> QED
    BY <2>1 DEF ImagesApart, HasImage
<1>15. ASSUME NEW s \in Requests
       PROVE  (HasImage(req[s]) => req[s].new \in s3)' /\ Unwanted(req[s])'
  <2>1. HasImage(req'[s]) => req'[s].new \in s3
    BY <1>2, <1>10 DEF ImageInv
  <2>2. ASSUME req'[s].pc \in {"subtract", "unlink"}, NEW e \in KeptReceipts' \ raced'
        PROVE  receipt'[e].image # req'[s].old
    <3>1. CASE s # r
      <4>1. req'[s] = req[s] /\ Unwanted(req[s]) /\ req[s].old # i
        BY <1>2, <1>7, <3>1 DEF ImageInv
      <4> QED
        BY <1>3, <1>4, <1>11, <2>2, <4>1 DEF Unwanted
    <3>2. CASE s = r
      <4>1. /\ req'[s] = q /\ q.old = req[r].old /\ q.old # NoImage /\ req[r].receipt = c
        BY <1>2, <1>9, <2>2, <3>2
      <4>2. owner[q.old] = c /\ q.old # i
        BY <1>5, <1>7, <4>1 DEF OwnedRequest
      <4>3. CASE e = c
        BY <1>3, <1>4, <4>1, <4>2, <4>3
      <4>4. CASE e # c
        BY <1>5, <1>11, <4>1, <4>2, <4>4 DEF OwnedImages, KeptReceipts
      <4> QED
        BY <4>3, <4>4
    <3> QED
      BY <3>1, <3>2
  <2> QED
    BY <2>1, <2>2 DEF HasImage, Unwanted
<1> QED
  BY <1>12, <1>13, <1>14, <1>15 DEF ImageInv

(* A receipt is written with an image that was its own before, or none.    *)
LEMMA OldImageWritten ==
    ASSUME TypeInv, ImageInv, NEW r \in Requests, NEW q \in Request, NEW c \in Receipts,
           NEW row,
           req' = [req EXCEPT ![r] = q], receipt' = [receipt EXCEPT ![c] = row],
           UNCHANGED <<uploaded, s3>>, raced \subseteq raced',
           \A owner \in Owner : OwnedImages(owner) /\ OwnedRequest(owner, req[r])
              => row.image = NoImage \/ owner[row.image] = c,
           row.image # NoImage /\ row.state = "LIVE" /\ c \notin raced'
              => Kept(c) /\ row.image = receipt[c].image,
           Ended(q) \/ (req[r].receipt = c /\ row.state # "LIVE" /\ Written(q, req[r]))
    PROVE  ImageInv'
<1>1. req \in [Requests -> Request] /\ receipt \in [Receipts -> ReceiptRow]
  BY DEF TypeInv, TablesOK
<1>2. req'[r] = q /\ \A s \in Requests \ {r} : req'[s] = req[s]
  BY <1>1
<1>3. receipt'[c] = row /\ \A e \in Receipts \ {c} : receipt'[e] = receipt[e]
  BY <1>1
<1>5. PICK owner \in Owner :
         OwnedImages(owner) /\ \A s \in Requests : OwnedRequest(owner, req[s])
  BY DEF ImageInv, ImagesOwned, Owner
<1>6. row.image = NoImage \/ owner[row.image] = c
  BY <1>5
<1>9. \/ q.copy = NoReceiptRow /\ q.old = NoImage /\ q.pc = "idle"
      \/ /\ q.copy = req[r].copy /\ q.old = req[r].old /\ q.receipt = req[r].receipt
         /\ q.receipt = c /\ q.pc = "subtract" /\ q.old # NoImage /\ row.state # "LIVE"
  BY DEF Ended, Written, Keeps, IdleRequest
<1>10. ~HasImage(q)
  BY <1>9 DEF HasImage
<1>11. \A e \in KeptReceipts' \ raced' : receipt'[e].image # NoImage =>
          e \in KeptReceipts \ raced /\ receipt'[e].image = receipt[e].image
  BY <1>3 DEF KeptReceipts, Kept
<1>12. ReceiptImageStored'
  <2>1. \A e \in KeptReceipts' \ raced' : receipt'[e].image # NoImage => receipt'[e].image \in s3
    BY <1>11 DEF ImageInv, ReceiptImageStored
  <2> QED
    BY <2>1 DEF ReceiptImageStored
<1>13. ImagesOwned'
  <2>1. OwnedImages(owner)'
    BY <1>3, <1>5, <1>6 DEF OwnedImages
  <2>2. OwnedRequest(owner, q)
    BY <1>5, <1>9, <1>10 DEF OwnedRequest, NoReceiptRow
  <2>3. \A s \in Requests : OwnedRequest(owner, req'[s])
    BY <1>2, <1>5, <2>2
  <2> QED
    BY <2>1, <2>3 DEF ImagesOwned, Owner, OwnedRequest, HasImage
<1>14. ImagesApart'
  <2>1. \A s, u \in Requests :
           HasImage(req'[s]) /\ HasImage(req'[u]) /\ req'[s].new = req'[u].new => s = u
    BY <1>2, <1>10 DEF ImageInv, ImagesApart
  <2> QED
    BY <2>1 DEF ImagesApart, HasImage
<1>15. ASSUME NEW s \in Requests
       PROVE  (HasImage(req[s]) => req[s].new \in s3)' /\ Unwanted(req[s])'
  <2>1. HasImage(req'[s]) => req'[s].new \in s3
    BY <1>2, <1>10 DEF ImageInv
  <2>2. ASSUME req'[s].pc \in {"subtract", "unlink"}, NEW e \in KeptReceipts' \ raced',
               receipt'[e].image = req'[s].old
        PROVE  FALSE
    <3>1. req'[s].old # NoImage
      <4>1. CASE s = r
        BY <1>2, <1>9, <2>2, <4>1
      <4>2. CASE s # r
        BY <1>2, <2>2, <4>2 DEF TypeInv, RequestHeld, ReceiptHeld
      <4> QED
        BY <4>1, <4>2
    <3>2. e \in KeptReceipts \ raced /\ receipt[e].image = req'[s].old /\ e \in Receipts
      BY <1>11, <2>2, <3>1 DEF KeptReceipts
    <3>3. CASE s # r
      BY <1>2, <2>2, <3>2, <3>3 DEF ImageInv, Unwanted
    <3>4. CASE s = r
      <4>1. req'[s] = q /\ q.old = req[r].old /\ req[r].receipt = c /\ row.state # "LIVE"
        BY <1>2, <1>9, <2>2, <3>4
      <4>2. owner[q.old] = c /\ owner[receipt[e].image] = e
        BY <1>5, <3>1, <3>2, <4>1 DEF OwnedRequest, OwnedImages
      <4>3. e = c
        BY <3>2, <4>1, <4>2
      <4> QED
        BY <1>3, <2>2, <4>1, <4>3 DEF KeptReceipts, Kept
    <3> QED
      BY <3>3, <3>4
  <2>3. Unwanted(req[s])'
    BY <2>2 DEF Unwanted
  <2> QED
    BY <2>1, <2>3 DEF HasImage
<1> QED
  BY <1>12, <1>13, <1>14, <1>15 DEF ImageInv

LEMMA WritesKeepImages ==
    ASSUME TypeInv, ImageInv, NEW r \in Requests,
           InsertReceipt(r) \/ SaveReceipt(r) \/ DropReceipt(r)
    PROVE  ImageInv'
<1>0. req[r] \in Request /\ RequestHeld(req[r]) /\ receipt \in [Receipts -> ReceiptRow]
  BY DEF TypeInv, TablesOK
<1>1. CASE InsertReceipt(r)
  <2>1. PICK c \in Receipts : receipt' = [receipt EXCEPT ![c] = NewReceipt(req[r].bill, req[r].new)]
    BY <1>1 DEF InsertReceipt
  <2>2. /\ Becomes(r, IdleRequest) /\ Ended(IdleRequest) /\ req[r].pc = "insert"
        /\ UNCHANGED <<uploaded, s3, raced>>
    BY <1>1, ReceiptEnds DEF InsertReceipt, At, Ended
  <2>3. PICK row : row = NewReceipt(req[r].bill, req[r].new)
    OBVIOUS
  <2>4. row.image = req[r].new /\ receipt' = [receipt EXCEPT ![c] = row]
    BY <2>1, <2>3 DEF NewReceipt
  <2>5. CASE req[r].new = NoImage
    BY <2>2, <2>4, <2>5, OldImageWritten DEF Becomes
  <2>6. CASE req[r].new # NoImage
    <3>1. HasImage(req[r])
      BY <2>2, <2>6 DEF HasImage
    <3> QED
      BY <2>2, <2>4, <3>1, NewImageWritten DEF Becomes
  <2> QED
    BY <2>5, <2>6
<1>2. CASE SaveReceipt(r)
  <2>1. PICK q : Becomes(r, q) /\ Written(q, req[r])
    BY <1>2, ReceiptWritten
  <2>2. PICK row : row = NewReceipt(req[r].bill, SavedImage(r))
    OBVIOUS
  <2>3. PICK c \in Receipts : c = req[r].receipt
    BY <1>2, SavedRow
  <2>4. /\ receipt' = [receipt EXCEPT ![c] = row] /\ UNCHANGED <<uploaded, s3>>
        /\ raced' = (IF Stale(r) THEN raced \cup {c} ELSE raced)
        /\ req[r].pc = "save" /\ req[r].op = "change"
    BY <1>2, <2>2, <2>3 DEF SaveReceipt, At, Op
  <2>5. raced \subseteq raced'
    BY <2>4
  <2>6. CASE req[r].new # NoImage
    <3>1. HasImage(req[r]) /\ row.image = req[r].new
      BY <2>2, <2>4, <2>6 DEF HasImage, SavedImage, NewReceipt
    <3> QED
      BY <2>1, <2>3, <2>4, <2>5, <3>1, NewImageWritten DEF Becomes
  <2>7. CASE req[r].new = NoImage
    <3>1. req[r].old = NoImage /\ Ended(q)
      BY <1>0, <2>1, <2>4, <2>7 DEF RequestHeld, ReceiptHeld, Written
    <3>2. row.image = req[r].copy.image
      BY <2>2, <2>7 DEF SavedImage, NewReceipt
    <3>3. \A owner : OwnedRequest(owner, req[r]) => row.image = NoImage \/ owner[row.image] = c
      BY <2>3, <3>2 DEF OwnedRequest
    <3>4. c \notin raced' => Kept(c) /\ row.image = receipt[c].image
      <4>1. req[r].copy.state = "LIVE"
        BY <1>0, <2>4 DEF RequestHeld, ReceiptHeld
      <4>2. c \notin raced' => receipt[c] = req[r].copy
        BY <2>3, <2>4, <2>7 DEF Stale
      <4> QED
        BY <3>2, <4>1, <4>2 DEF Kept
    <3> QED
      BY <2>1, <2>4, <2>5, <3>1, <3>3, <3>4, OldImageWritten DEF Becomes
  <2> QED
    BY <2>6, <2>7
<1>3. CASE DropReceipt(r)
  <2>1. PICK q : Becomes(r, q) /\ Written(q, req[r])
    BY <1>3, ReceiptWritten
  <2>2. PICK c \in Receipts : c = req[r].receipt
    BY <1>0, <1>3 DEF DropReceipt, Op, RequestHeld, ReceiptHeld
  <2>3. PICK row : row = [receipt[c] EXCEPT !.state = "GONE"]
    OBVIOUS
  <2>4. /\ receipt' = [receipt EXCEPT ![c] = row] /\ UNCHANGED <<uploaded, s3, raced>>
        /\ row.image = receipt[c].image /\ row.state = "GONE"
    <3>1. receipt' = [receipt EXCEPT ![c].state = "GONE"] /\ UNCHANGED <<uploaded, s3, raced>>
      BY <1>3, <2>2 DEF DropReceipt
    <3>2. receipt[c] \in ReceiptRow
      BY <1>0
    <3> QED
      BY <1>0, <2>3, <3>1, <3>2 DEF ReceiptRow
  <2>5. \A owner : OwnedImages(owner) => row.image = NoImage \/ owner[row.image] = c
    BY <2>4 DEF OwnedImages
  <2> QED
    BY <2>1, <2>2, <2>4, <2>5, OldImageWritten DEF Becomes
<1> QED
  BY <1>1, <1>2, <1>3

LEMMA DeletionKeepsImages ==
    ASSUME TypeInv, ImageInv, NEW r \in Requests, DeleteImage(r)
    PROVE  ImageInv'
<1>1. /\ Becomes(r, IdleRequest) /\ s3' = s3 \ {req[r].old} /\ req[r].pc = "unlink"
      /\ UNCHANGED <<receipt, uploaded, raced>>
  BY ReceiptEnds DEF DeleteImage, At
<1>2. /\ req \in [Requests -> Request] /\ req' = [req EXCEPT ![r] = IdleRequest]
      /\ RequestHeld(req[r])
  BY <1>1 DEF TypeInv, TablesOK, Becomes
<1>3. req'[r] = IdleRequest /\ \A s \in Requests \ {r} : req'[s] = req[s]
  BY <1>2
<1>4. KeptReceipts' = KeptReceipts
  BY <1>1 DEF KeptReceipts, Kept
<1>5. ReceiptImageStored'
  <2>1. \A c \in KeptReceipts \ raced : receipt[c].image # req[r].old
    BY <1>1 DEF ImageInv, Unwanted
  <2> QED
    BY <1>1, <1>4, <2>1 DEF ImageInv, ReceiptImageStored
<1>6. ~HasImage(IdleRequest) /\ Unwanted(IdleRequest)
      /\ \A owner : OwnedRequest(owner, IdleRequest)
  BY DEF IdleRequest, HasImage, Unwanted, OwnedRequest, NoReceiptRow
<1>7. PICK owner \in Owner :
         OwnedImages(owner) /\ \A s \in Requests : OwnedRequest(owner, req[s])
  BY DEF ImageInv, ImagesOwned, Owner
<1>8. ImagesOwned'
  <2>1. OwnedImages(owner)'
    BY <1>1, <1>7 DEF OwnedImages
  <2>2. \A s \in Requests : OwnedRequest(owner, req'[s])
    BY <1>3, <1>6, <1>7
  <2> QED
    BY <2>1, <2>2 DEF ImagesOwned, Owner, OwnedRequest, HasImage
<1>9. ImagesApart'
  <2>1. \A s, u \in Requests :
           HasImage(req'[s]) /\ HasImage(req'[u]) /\ req'[s].new = req'[u].new => s = u
    BY <1>3, <1>6 DEF ImageInv, ImagesApart
  <2> QED
    BY <2>1 DEF ImagesApart, HasImage
<1>10. ASSUME NEW s \in Requests
       PROVE  (HasImage(req[s]) => req[s].new \in s3)' /\ Unwanted(req[s])'
  <2>1. HasImage(req'[s]) => req'[s].new \in s3'
    <3>1. req[r].old # NoImage
      BY <1>1, <1>2 DEF RequestHeld, ReceiptHeld
    <3>2. owner[req[r].old] \in Receipts /\ NoReceipt \notin Receipts
      BY <1>7, <3>1, LibraryAssumption DEF OwnedRequest
    <3>3. HasImage(req[s]) => req[s].new # req[r].old /\ req[s].new \in s3
      BY <1>7, <3>2 DEF OwnedRequest, ImageInv
    <3> QED
      BY <1>1, <1>3, <1>6, <3>3
  <2>2. Unwanted(req'[s])
    BY <1>3, <1>6 DEF ImageInv
  <2> QED
    BY <1>1, <1>4, <2>1, <2>2 DEF HasImage, Unwanted
<1> QED
  BY <1>5, <1>8, <1>9, <1>10 DEF ImageInv

LEMMA InitImages ==
    ASSUME Init
    PROVE  ImageInv
<1>1. /\ receipt \in scenario.given /\ scenario \in Scenarios
      /\ uploaded = {receipt[c].image : c \in Receipts} \ {NoImage} /\ s3 = uploaded
      /\ req = [s \in Requests |-> IdleRequest]
  BY DEF Init
<1>2. GivenReceipts(receipt) /\ receipt \in [Receipts -> ReceiptRow]
  BY <1>1, LibraryAssumption
<1>3. ReceiptImageStored
  BY <1>1 DEF ReceiptImageStored, KeptReceipts
<1>4. /\ ~HasImage(IdleRequest) /\ Unwanted(IdleRequest)
      /\ \A owner : OwnedRequest(owner, IdleRequest)
  BY DEF IdleRequest, HasImage, Unwanted, OwnedRequest, NoReceiptRow
<1>5. ImagesOwned
  <2>1. PICK owner :
           owner = [i \in Images |-> IF \E c \in Receipts : receipt[c].image = i
                                     THEN CHOOSE c \in Receipts : receipt[c].image = i
                                     ELSE NoReceipt]
    OBVIOUS
  <2>2. ASSUME NEW c \in Receipts, receipt[c].image # NoImage
        PROVE  owner[receipt[c].image] = c
    <3>1. receipt[c].image \in Images
      BY <1>2, <2>2 DEF ReceiptRow
    <3>2. \A e \in Receipts : receipt[e].image = receipt[c].image => e = c
      BY <1>2, <2>2 DEF GivenReceipts
    <3> QED
      BY <2>1, <3>1, <3>2
  <2>3. owner \in Owner
    BY <2>1 DEF Owner
  <2>4. \A i \in Images \ uploaded : owner[i] = NoReceipt
    <3>1. ASSUME NEW i \in Images \ uploaded
          PROVE  ~\E c \in Receipts : receipt[c].image = i
      <4>1. i # NoImage
        BY LibraryAssumption
      <4> QED
        BY <1>1, <4>1
    <3> QED
      BY <2>1, <3>1
  <2> QED
    BY <1>1, <1>4, <2>2, <2>3, <2>4 DEF ImagesOwned, OwnedImages, Owner
<1> QED
  BY <1>1, <1>3, <1>4, <1>5 DEF ImageInv, ImagesApart

LEMMA NextKeepsImages ==
    ASSUME TypeInv, ImageInv, [Next]_vars
    PROVE  ImageInv'
<1>1. CASE \E r \in Requests : ReceiptRequest(r) \/ ReceiptStep(r)
  BY <1>1, StartsKeepImages, MovesKeepImages, PutKeepsImages, WritesKeepImages,
     DeletionKeepsImages DEF ReceiptStep
<1>2. CASE ~\E r \in Requests : ReceiptRequest(r) \/ ReceiptStep(r)
  BY <1>2, StepsElsewhere, ImagesElsewhere
<1> QED
  BY <1>1, <1>2

(* A receipt that is kept has its image in the bucket, however uploads,    *)
(* edits and removals of it overlap and fail: the image that is deleted is *)
(* the one read with the receipt, and no later write but a stale one       *)
(* brings it back.                                                         *)
THEOREM ReceiptImagesAreStored == Spec => []ReceiptImageStored
<1>1. Init => TypeInv /\ ImageInv
  BY InitTyped, InitImages
<1>2. TypeInv /\ ImageInv /\ [Next]_vars => (TypeInv /\ ImageInv)'
  BY NextTyped, NextKeepsImages
<1>3. ImageInv => ReceiptImageStored
  BY DEF ImageInv
<1> QED
  BY <1>1, <1>2, <1>3, PTL DEF Spec

-----------------------------------------------------------------------------
(* Usage *)

DocumentsCounted == {d \in Docs : Exists(d) /\ doc[d].bytes = 1}

LEMMA CountsAreFinite ==
    ASSUME TypeInv
    PROVE  /\ IsFiniteSet(Counted) /\ Cardinality(Counted) \in Nat
           /\ IsFiniteSet(DocumentsCounted) /\ DocumentBytes \in Nat
           /\ DocumentBytes = Cardinality(DocumentsCounted)
<1>1. IsFiniteSet(Images) /\ IsFiniteSet(Docs)
  BY LibraryAssumption
<1>2. Counted \subseteq Images /\ DocumentsCounted \subseteq Docs
  BY DEF TypeInv, TablesOK, Counted, DocumentsCounted
<1>3. IsFiniteSet(Counted) /\ IsFiniteSet(DocumentsCounted)
  BY <1>1, <1>2, FS_Subset
<1>4. DocumentBytes = Cardinality(DocumentsCounted)
  BY DEF DocumentBytes, DocumentsCounted
<1> QED
  BY <1>3, <1>4, FS_CardinalityType

(* The same of the next state, where TypeInv holds as well.                *)
LEMMA CountsGrow ==
    ASSUME TypeInv, TypeInv'
    PROVE  /\ Counted \subseteq Counted' => Cardinality(Counted) <= Cardinality(Counted')
           /\ DocumentsCounted \subseteq DocumentsCounted' => DocumentBytes <= DocumentBytes'
           /\ \A x : Counted \ {x} \subseteq Counted' =>
                 Cardinality(Counted) <= Cardinality(Counted') + 1
           /\ \A d : DocumentsCounted \ {d} \subseteq DocumentsCounted' =>
                 DocumentBytes <= DocumentBytes' + 1
           /\ \A x \in Counted' \ Counted : Counted \subseteq Counted' =>
                 Cardinality(Counted) + 1 <= Cardinality(Counted')
           /\ Cardinality(Counted') \in Nat /\ DocumentBytes' \in Nat
<1>1. IsFiniteSet(Counted) /\ IsFiniteSet(DocumentsCounted)
      /\ Cardinality(Counted) \in Nat /\ DocumentBytes = Cardinality(DocumentsCounted)
      /\ DocumentBytes \in Nat
  BY CountsAreFinite
<1>2. IsFiniteSet(Counted') /\ IsFiniteSet(DocumentsCounted')
      /\ Cardinality(Counted') \in Nat /\ DocumentBytes' = Cardinality(DocumentsCounted')
      /\ DocumentBytes' \in Nat
  <2>1. Counted' \subseteq Images /\ DocumentsCounted' \subseteq Docs
    BY DEF TypeInv, TablesOK, Counted, DocumentsCounted
  <2>2. IsFiniteSet(Counted') /\ IsFiniteSet(DocumentsCounted')
    BY <2>1, LibraryAssumption, FS_Subset
  <2>3. DocumentBytes' = Cardinality(DocumentsCounted')
    BY DEF DocumentBytes, DocumentsCounted
  <2> QED
    BY <2>2, <2>3, FS_CardinalityType
<1>3. ASSUME NEW S, NEW T, IsFiniteSet(S), IsFiniteSet(T)
      PROVE  /\ S \subseteq T => Cardinality(S) <= Cardinality(T)
             /\ \A x : S \ {x} \subseteq T => Cardinality(S) <= Cardinality(T) + 1
             /\ \A x \in T \ S : S \subseteq T => Cardinality(S) + 1 <= Cardinality(T)
  <2>0. Cardinality(S) \in Nat /\ Cardinality(T) \in Nat
    BY <1>3, FS_CardinalityType
  <2>1. S \subseteq T => Cardinality(S) <= Cardinality(T)
    BY <1>3, FS_Subset
  <2>2. ASSUME NEW x, S \ {x} \subseteq T
        PROVE  Cardinality(S) <= Cardinality(T) + 1
    <3>1. /\ IsFiniteSet(S \ {x})
          /\ Cardinality(S \ {x}) = IF x \in S THEN Cardinality(S) - 1 ELSE Cardinality(S)
      BY <1>3, FS_RemoveElement
    <3>2. Cardinality(S \ {x}) <= Cardinality(T)
      BY <1>3, <2>2, FS_Subset
    <3> QED
      BY <2>0, <3>1, <3>2
  <2>3. ASSUME NEW x \in T \ S, S \subseteq T
        PROVE  Cardinality(S) + 1 <= Cardinality(T)
    <3>1. IsFiniteSet(S \cup {x}) /\ Cardinality(S \cup {x}) = Cardinality(S) + 1
      BY <1>3, <2>3, FS_AddElement
    <3>2. S \cup {x} \subseteq T
      BY <2>3
    <3>3. Cardinality(S \cup {x}) <= Cardinality(T)
      BY <1>3, <3>1, <3>2, FS_Subset
    <3> QED
      BY <3>1, <3>3
  <2> QED
    BY <2>1, <2>2, <2>3
<1>4. PICK after : after = Counted'
  OBVIOUS
<1>5. PICK later : later = DocumentsCounted'
  OBVIOUS
<1>6. /\ Counted \subseteq after => Cardinality(Counted) <= Cardinality(after)
      /\ \A x : Counted \ {x} \subseteq after => Cardinality(Counted) <= Cardinality(after) + 1
      /\ \A x \in after \ Counted : Counted \subseteq after =>
            Cardinality(Counted) + 1 <= Cardinality(after)
  BY <1>1, <1>2, <1>3, <1>4
<1>7. /\ DocumentsCounted \subseteq later => Cardinality(DocumentsCounted) <= Cardinality(later)
      /\ \A d : DocumentsCounted \ {d} \subseteq later =>
            Cardinality(DocumentsCounted) <= Cardinality(later) + 1
  BY <1>1, <1>2, <1>3, <1>5
<1> QED
  BY <1>1, <1>2, <1>4, <1>5, <1>6, <1>7

LEMMA CountedSlot ==
    ASSUME TypeInv, NEW r \in Requests, NEW q, req' = [req EXCEPT ![r] = q],
           NEW S, S \subseteq Counted, S \subseteq s3',
           \A i \in S : ~NotCounted(q, i)
    PROVE  S \subseteq Counted'
<1>1. \A s \in Requests : req'[s] = q \/ req'[s] = req[s]
  BY DEF TypeInv, TablesOK
<1>2. \A i \in S, s \in Requests : ~NotCounted(req'[s], i)
  BY <1>1 DEF Counted
<1> QED
  BY <1>2 DEF Counted, NotCounted

(* No step but AddUsage adds to the usage; most leave it alone and count   *)
(* as many images and documents as before.                                 *)
LEMMA UsageStays ==
    ASSUME TypeInv, TypeInv', UsageInv, used' <= used, faults' >= faults,
           Counted \subseteq Counted', DocumentsCounted \subseteq DocumentsCounted'
    PROVE  UsageInv'
<1>1. /\ Cardinality(Counted) <= Cardinality(Counted') /\ DocumentBytes <= DocumentBytes'
      /\ Cardinality(Counted') \in Nat /\ DocumentBytes' \in Nat
  BY CountsGrow
<1>2. Cardinality(Counted) \in Nat /\ DocumentBytes \in Nat
  BY CountsAreFinite
<1>3. used \in Nat /\ used' \in Nat /\ faults \in Nat /\ faults' \in Nat
  BY DEF TypeInv, TablesOK
<1> QED
  BY <1>1, <1>2, <1>3 DEF UsageInv

LEMMA UsageElsewhere ==
    ASSUME TypeInv, [Next]_vars,
           ~\E r \in Requests : ReceiptRequest(r) \/ ReceiptStep(r) \/ Saves(r)
    PROVE  UNCHANGED <<used, doc>> /\ faults' >= faults
<1>0. faults \in Nat
  BY DEF TypeInv, TablesOK
<1>1. ASSUME NEW r \in Requests, NEW q, Quietly(r, q)
      PROVE  UNCHANGED <<used, doc>>
  BY <1>1 DEF Quietly, TypedStep, documents
<1>2. ASSUME NEW r \in Requests, Reads(r)
      PROVE  UNCHANGED <<used, doc, faults>>
  BY <1>2 DEF Reads, GetDocuments, GetDocument, Download, documents
<1>3. ASSUME NEW r \in Requests, PushJob(r)
      PROVE  UNCHANGED <<used, doc, faults>>
  BY <1>3 DEF PushJob, documents
<1>4. JobStep => UNCHANGED <<used, doc>> /\ faults' >= faults
  BY DEF JobStep, documents
<1>5. ASSUME NEW d \in Docs, ExpireToken(d)
      PROVE  UNCHANGED <<used, doc, faults>>
  BY <1>5 DEF ExpireToken, documents
<1>6. UNCHANGED vars => UNCHANGED <<used, doc, faults>>
  BY DEF vars, documents
<1> QED
  BY <1>0, <1>1, <1>2, <1>3, <1>4, <1>5, <1>6, NextCases

LEMMA CountedElsewhere ==
    ASSUME TypeInv, Elsewhere
    PROVE  Counted \subseteq Counted'
<1>1. s3' = s3
  BY DEF Elsewhere, receipts
<1>2. CASE UNCHANGED req
  BY <1>1, <1>2 DEF Counted, NotCounted
<1>3. CASE \E r \in Requests, q \in Request : Imageless(q) /\ req' = [req EXCEPT ![r] = q]
  <2>1. PICK r \in Requests, q \in Request : Imageless(q) /\ req' = [req EXCEPT ![r] = q]
    BY <1>3
  <2>2. \A i \in Counted : i # NoImage /\ i \in s3
    BY LibraryAssumption DEF Counted, TypeInv, TablesOK
  <2>3. \A i \in Counted : ~NotCounted(q, i)
    BY <2>1, <2>2 DEF Imageless, NotCounted
  <2> QED
    BY <1>1, <2>1, <2>2, <2>3, CountedSlot
<1> QED
  BY <1>2, <1>3 DEF Elsewhere

LEMMA SavesKeepUsage ==
    ASSUME TypeInv, TypeInv', UsageInv, NEW r \in Requests, Saves(r)
    PROVE  UsageInv'
<1>0. /\ doc \in [Docs -> DocRow] /\ used \in Nat /\ faults \in Nat
      /\ req[r] \in Request /\ RequestHeld(req[r]) /\ Seen(req[r])
  BY DEF TypeInv, TablesOK
<1>1. Counted \subseteq Counted'
  <2>1. PICK q : Writes(r, q)
    BY DocumentWrites DEF Saves
  <2>2. Imageless(q) /\ q \in Request
    BY <2>1, OthersImageless DEF Writes
  <2>3. Elsewhere
    BY <2>1, <2>2 DEF Elsewhere, Writes
  <2> QED
    BY <2>3, CountedElsewhere
<1>2. faults' = faults
  BY DEF Saves, CreateDocument, InsertFile, Unlock, SaveDocument, DropDocument,
         FindOrCreateTag, AddTag, RemoveTag
<1>3. CASE CreateDocument(r)
  <2>1. PICK d \in Docs, bytes \in 0..1 :
           doc[d].state = "NONE" /\ doc' = [doc EXCEPT ![d] = NewDoc(bytes)]
    BY <1>3 DEF CreateDocument
  <2>2. \A e \in Docs : doc[e].state = "LIVE" => doc'[e] = doc[e]
    BY <1>0, <2>1
  <2>3. DocumentsCounted \subseteq DocumentsCounted'
    BY <2>2 DEF DocumentsCounted, Exists
  <2>4. used' = used
    BY <1>3 DEF CreateDocument
  <2> QED
    BY <1>0, <1>1, <1>2, <2>3, <2>4, UsageStays
<1>4. CASE SaveDocument(r)
  <2>1. doc' = [doc EXCEPT ![req[r].doc] = Edited(r)] /\ used' = used
    BY <1>4 DEF SaveDocument
  <2>2. \A e \in Docs : doc[e].state = "LIVE" =>
           doc'[e].state = "LIVE" /\ doc'[e].bytes = doc[e].bytes
    BY <1>0, <1>4, <2>1, EditedRow
  <2>3. DocumentsCounted \subseteq DocumentsCounted'
    BY <2>2 DEF DocumentsCounted, Exists
  <2> QED
    BY <1>0, <1>1, <1>2, <2>1, <2>3, UsageStays
<1>5. CASE DropDocument(r)
  <2>1. doc' = [doc EXCEPT ![req[r].doc].state = "GONE"] /\ used' = UsedLess(req[r].row.bytes)
    BY <1>5 DEF DropDocument
  <2>2. DropsDocument(req[r])
    BY <1>5 DEF DropDocument, DropsDocument, At, Op
  <2>3. PICK d \in Docs : d = req[r].doc
    BY <1>0, <2>2 DEF RequestHeld, DocumentHeld
  <2>4. PICK bytes \in 0..1 : bytes = req[r].row.bytes
    BY <1>0 DEF Request, DocRow
  <2>5. doc[d].bytes = bytes
    BY <1>0, <2>2, <2>3, <2>4 DEF Seen
  <2>6. \A e \in Docs \ {d} : doc'[e] = doc[e]
    BY <1>0, <2>1, <2>3
  <2>7. DocumentsCounted \ {d} \subseteq DocumentsCounted'
    BY <2>6 DEF DocumentsCounted, Exists
  <2>8. DocumentBytes <= DocumentBytes' + bytes
    <3>1. DocumentBytes \in Nat /\ DocumentBytes' \in Nat
      BY CountsAreFinite, CountsGrow
    <3>2. DocumentBytes <= DocumentBytes' + 1
      BY <2>7, CountsGrow
    <3>3. bytes = 0 => DocumentBytes <= DocumentBytes'
      <4>1. bytes = 0 => DocumentsCounted \subseteq DocumentsCounted'
        BY <2>5, <2>7 DEF DocumentsCounted
      <4> QED
        BY <4>1, CountsGrow
    <3>4. PICK before, after : before = DocumentBytes /\ after = DocumentBytes'
      OBVIOUS
    <3>5. /\ before \in Nat /\ after \in Nat /\ before <= after + 1
          /\ bytes = 0 => before <= after
      BY <3>1, <3>2, <3>3, <3>4
    <3>6. before <= after + bytes
      BY <3>5
    <3> QED
      BY <3>4, <3>6
  <2>9. /\ Cardinality(Counted) <= Cardinality(Counted')
        /\ Cardinality(Counted') \in Nat /\ DocumentBytes' \in Nat
        /\ Cardinality(Counted) \in Nat /\ DocumentBytes \in Nat
    BY <1>1, CountsGrow, CountsAreFinite
  <2>10. used' = IF used > bytes THEN used - bytes ELSE 0
    BY <2>1, <2>4 DEF UsedLess
  <2>11. PICK images, documentBytes :
            images = Cardinality(Counted') /\ documentBytes = DocumentBytes'
    OBVIOUS
  <2>12. /\ images \in Nat /\ documentBytes \in Nat
         /\ Cardinality(Counted) <= images /\ DocumentBytes <= documentBytes + bytes
    BY <2>8, <2>9, <2>11
  <2>13. used <= Cardinality(Counted) + DocumentBytes + faults
    BY DEF UsageInv
  <2>14. used' <= images + documentBytes + faults
    BY <1>0, <2>4, <2>9, <2>10, <2>12, <2>13
  <2> QED
    BY <1>2, <2>11, <2>14 DEF UsageInv
<1>6. CASE ~(CreateDocument(r) \/ SaveDocument(r) \/ DropDocument(r))
  <2>1. UNCHANGED <<used, doc>>
    BY <1>6 DEF Saves, InsertFile, Unlock, FindOrCreateTag, AddTag, RemoveTag, documents
  <2>2. DocumentsCounted \subseteq DocumentsCounted'
    BY <2>1 DEF DocumentsCounted, Exists
  <2> QED
    BY <1>0, <1>1, <1>2, <2>1, <2>2, UsageStays
<1> QED
  BY <1>3, <1>4, <1>5, <1>6

LEMMA ReceiptsKeepUsage ==
    ASSUME TypeInv, TypeInv', ImageInv, UsageInv, NEW r \in Requests,
           ReceiptRequest(r) \/ ReceiptStep(r)
    PROVE  UsageInv'
<1>0. /\ used \in Nat /\ faults \in Nat /\ req[r] \in Request /\ RequestHeld(req[r])
      /\ s3 \subseteq uploaded /\ uploaded \subseteq Images
  BY DEF TypeInv, TablesOK
<1>1. \A i \in Counted : i # NoImage /\ i \in s3 /\ ~NotCounted(req[r], i)
  BY <1>0, LibraryAssumption DEF Counted
<1>2. ASSUME NEW q, Becomes(r, q)
      PROVE  DocumentsCounted \subseteq DocumentsCounted' /\ req' = [req EXCEPT ![r] = q]
  BY <1>2 DEF Becomes, documents, DocumentsCounted, Exists
<1>3. ASSUME NEW q, Becomes(r, q), s3' = s3, q.pc \notin {"addUsage", "unlink"}
      PROVE  Counted \subseteq Counted'
  <2>1. \A i \in Counted : ~NotCounted(q, i)
    BY <1>3 DEF NotCounted
  <2>2. Counted \subseteq s3'
    BY <1>1, <1>3 DEF NotCounted
  <2> QED
    BY <1>2, <1>3, <2>1, <2>2, CountedSlot
<1>4. CASE ReceiptRequest(r)
  <2>1. PICK q : Becomes(r, q) /\ q.pc \in {"put", "insert", "load", "drop"}
    <3>1. CASE StartAdd(r)
      BY <3>1, AddStarts
    <3>2. CASE StartChange(r)
      BY <3>2, ChangeStarts
    <3>3. CASE StartRemove(r)
      BY <3>3, RemoveStarts
    <3> QED
      BY <1>4, <3>1, <3>2, <3>3 DEF ReceiptRequest
  <2>2. UNCHANGED <<s3, used, faults>>
    BY <1>4 DEF ReceiptRequest, StartAdd, StartChange, StartRemove, receipts
  <2>3. Counted \subseteq Counted'
    BY <1>3, <2>1, <2>2
  <2> QED
    BY <1>0, <1>2, <2>1, <2>2, <2>3, UsageStays
<1>5. CASE PutImage(r)
  <2>1. PICK q, i : /\ Becomes(r, q) /\ q.pc = "addUsage" /\ q.new = i
                    /\ i \in Images \ uploaded /\ s3' = s3 \cup {i}
                    /\ UNCHANGED <<used, faults>>
    BY <1>5, PutMoves
  <2>2. Counted \subseteq Counted'
    <3>1. \A j \in Counted : j # i /\ ~NotCounted(q, j)
      BY <1>0, <1>1, <2>1 DEF NotCounted
    <3> QED
      BY <1>1, <1>2, <2>1, <3>1, CountedSlot
  <2> QED
    BY <1>0, <1>2, <2>1, <2>2, UsageStays
<1>6. CASE AddUsage(r)
  <2>1. PICK q : /\ Becomes(r, q) /\ q.pc \in {"insert", "load"} /\ req[r].pc = "addUsage"
                 /\ s3' = s3
    BY <1>6, UploadMoves DEF receipts
  <2>2. used' = used + 1 /\ faults' = faults
    BY <1>6 DEF AddUsage
  <2>3. Counted \subseteq Counted'
    BY <1>3, <2>1
  <2>4. PICK i : i = req[r].new
    OBVIOUS
  <2>5. HasImage(req[r]) /\ i \in s3 /\ NotCounted(req[r], i)
    BY <1>0, <2>1, <2>4 DEF ImageInv, HasImage, RequestHeld, ReceiptHeld, NotCounted
  <2>6. \A s \in Requests \ {r} : ~NotCounted(req[s], i)
    <3>1. PICK owner \in Owner :
             OwnedImages(owner) /\ \A s \in Requests : OwnedRequest(owner, req[s])
      BY DEF ImageInv, ImagesOwned, Owner
    <3>2. owner[i] = NoReceipt /\ i # NoImage /\ NoReceipt \notin Receipts
      BY <2>4, <2>5, <3>1, LibraryAssumption DEF OwnedRequest, HasImage
    <3>3. \A s \in Requests : req[s].old # i
      BY <3>1, <3>2 DEF OwnedRequest
    <3>4. ASSUME NEW s \in Requests \ {r}, req[s].pc = "addUsage"
          PROVE  req[s].new # i
      <4>1. HasImage(req[s])
        BY <3>4 DEF HasImage, TypeInv, RequestHeld, ReceiptHeld
      <4> QED
        BY <2>4, <2>5, <4>1 DEF ImageInv, ImagesApart
    <3> QED
      BY <3>3, <3>4 DEF NotCounted
  <2>7. i \in Counted' \ Counted
    <3>1. req' = [req EXCEPT ![r] = q] /\ req \in [Requests -> Request]
      BY <1>2, <2>1 DEF TypeInv, TablesOK
    <3>2. req'[r] = q /\ \A s \in Requests \ {r} : req'[s] = req[s]
      BY <3>1
    <3>3. ~NotCounted(q, i)
      BY <2>1 DEF NotCounted
    <3>4. \A s \in Requests : ~NotCounted(req'[s], i)
      BY <2>6, <3>2, <3>3
    <3>5. i \in Counted'
      BY <2>1, <2>5, <3>4 DEF Counted, NotCounted
    <3> QED
      BY <1>1, <2>5, <3>5
  <2>8. Cardinality(Counted) + 1 <= Cardinality(Counted')
    BY <2>3, <2>7, CountsGrow
  <2>9. DocumentBytes <= DocumentBytes'
    BY <1>2, <2>1, CountsGrow
  <2>10. /\ Cardinality(Counted') \in Nat /\ DocumentBytes' \in Nat
         /\ Cardinality(Counted) \in Nat /\ DocumentBytes \in Nat
    BY CountsGrow, CountsAreFinite
  <2> QED
    BY <1>0, <2>2, <2>8, <2>9, <2>10 DEF UsageInv
<1>7. CASE AddUsageFails(r)
  <2>1. PICK q : Becomes(r, q) /\ q.pc \in {"insert", "load"} /\ s3' = s3
    BY <1>7, UploadMoves DEF receipts
  <2>2. used' = used /\ faults' = faults + 1
    BY <1>7 DEF AddUsageFails
  <2>3. Counted \subseteq Counted'
    BY <1>3, <2>1
  <2> QED
    BY <1>0, <1>2, <2>1, <2>2, <2>3, UsageStays
<1>8. CASE InsertReceipt(r) \/ DeleteImage(r) \/ DeleteImageFails(r)
  <2>1. Becomes(r, IdleRequest) /\ IdleRequest.pc = "idle"
    BY <1>8, ReceiptEnds DEF IdleRequest
  <2>2. /\ s3 \subseteq s3' \/ (s3' = s3 \ {req[r].old} /\ req[r].pc = "unlink")
        /\ used' = used /\ faults' \in {faults, faults + 1}
    BY <1>8 DEF InsertReceipt, DeleteImage, DeleteImageFails, receipts, At
  <2>3. Counted \subseteq Counted'
    <3>1. \A i \in Counted : ~NotCounted(IdleRequest, i)
      BY <2>1 DEF NotCounted
    <3>2. Counted \subseteq s3'
      BY <1>1, <2>2 DEF NotCounted
    <3> QED
      BY <1>2, <2>1, <3>1, <3>2, CountedSlot
  <2> QED
    BY <1>0, <1>2, <2>1, <2>2, <2>3, UsageStays
<1>9. CASE LoadReceipt(r) \/ SaveReceipt(r) \/ DropReceipt(r)
  <2>1. PICK q : Becomes(r, q) /\ q.pc \in {"idle", "save", "subtract"}
    BY <1>9, LoadMoves, ReceiptWritten DEF Written, Ended, IdleRequest
  <2>2. UNCHANGED <<s3, used, faults>>
    BY <1>9 DEF LoadReceipt, SaveReceipt, DropReceipt, receipts
  <2>3. Counted \subseteq Counted'
    BY <1>3, <2>1, <2>2
  <2> QED
    BY <1>0, <1>2, <2>1, <2>2, <2>3, UsageStays
<1>10. CASE Subtract(r)
  <2>1. PICK q : /\ Becomes(r, q) /\ q.old = req[r].old /\ q.pc = "unlink"
                 /\ used' = UsedLess(1) /\ s3' = s3 /\ faults' = faults
    BY <1>10, SubtractMoves DEF Keeps, receipts
  <2>2. Counted \ {q.old} \subseteq Counted'
    <3>1. \A i \in Counted \ {q.old} : ~NotCounted(q, i)
      BY <2>1 DEF NotCounted
    <3>2. Counted \ {q.old} \subseteq s3'
      BY <1>1, <2>1
    <3> QED
      BY <1>2, <2>1, <3>1, <3>2, CountedSlot
  <2>3. Cardinality(Counted) <= Cardinality(Counted') + 1
    BY <2>2, CountsGrow
  <2>4. DocumentBytes <= DocumentBytes'
    BY <1>2, <2>1, CountsGrow
  <2>5. /\ Cardinality(Counted') \in Nat /\ DocumentBytes' \in Nat
        /\ Cardinality(Counted) \in Nat /\ DocumentBytes \in Nat
    BY CountsGrow, CountsAreFinite
  <2>6. used' = IF used > 1 THEN used - 1 ELSE 0
    BY <2>1 DEF UsedLess
  <2> QED
    BY <1>0, <2>1, <2>3, <2>4, <2>5, <2>6 DEF UsageInv
<1> QED
  BY <1>4, <1>5, <1>6, <1>7, <1>8, <1>9, <1>10 DEF ReceiptStep

LEMMA InitUsage ==
    ASSUME Init
    PROVE  UsageInv
<1>1. TypeInv
  BY InitTyped
<1>2. /\ s3 = uploaded /\ used = 1 + Cardinality(uploaded) /\ faults = 0
      /\ req = [r \in Requests |-> IdleRequest]
  BY DEF Init
<1>3. Counted = s3
  BY <1>2 DEF Counted, NotCounted, IdleRequest
<1>4. PICK first \in Docs, locked \in BOOLEAN :
         doc = [d \in Docs |-> IF d = first THEN [NewDoc(1) EXCEPT !.locked = locked]
                                            ELSE NoDocRow]
  BY DEF Init
<1>5. [NewDoc(1) EXCEPT !.locked = locked].state = "LIVE"
      /\ [NewDoc(1) EXCEPT !.locked = locked].bytes = 1 /\ NoDocRow.state = "NONE"
  BY DEF NewDoc, NoDocRow
<1>6. DocumentsCounted = {first}
  BY <1>4, <1>5 DEF DocumentsCounted, Exists
<1>7. DocumentBytes = 1
  BY <1>1, <1>6, CountsAreFinite, FS_Singleton
<1>8. Cardinality(Counted) \in Nat
  BY <1>1, CountsAreFinite
<1> QED
  BY <1>2, <1>3, <1>7, <1>8 DEF UsageInv

LEMMA NextKeepsUsage ==
    ASSUME TypeInv, TypeInv', ImageInv, UsageInv, [Next]_vars
    PROVE  UsageInv'
<1>1. CASE \E r \in Requests : ReceiptRequest(r) \/ ReceiptStep(r)
  BY <1>1, ReceiptsKeepUsage
<1>2. CASE \E r \in Requests : Saves(r)
  BY <1>2, SavesKeepUsage
<1>3. CASE ~\E r \in Requests : ReceiptRequest(r) \/ ReceiptStep(r) \/ Saves(r)
  <2>1. UNCHANGED <<used, doc>> /\ faults' >= faults
    BY <1>3, UsageElsewhere
  <2>2. Counted \subseteq Counted'
    BY <1>3, StepsElsewhere, CountedElsewhere
  <2>3. DocumentsCounted \subseteq DocumentsCounted'
    BY <2>1 DEF DocumentsCounted, Exists
  <2>4. used' <= used
    BY <2>1 DEF TypeInv, TablesOK
  <2> QED
    BY <2>1, <2>2, <2>3, <2>4, UsageStays
<1> QED
  BY <1>1, <1>2, <1>3

-----------------------------------------------------------------------------
(* Usage when requests come one at a time *)

(* What a request of documents or of recommendations makes of its slot.    *)
Asked(r, q) ==
    \/ q.pc = "idle"
    \/ q.op = req[r].op /\ req[r].pc # "idle"
    \/ r \in scenario.slots /\ q.op \in scenario.ops

DocumentSlot(r, q) ==
    /\ req' = [req EXCEPT ![r] = q]
    /\ Asked(r, q) /\ q.op \notin ReceiptOps
    /\ SavesDocument(q) \/ DropsDocument(q) => Exists(q.doc)

DocumentAction(r) ==
    \/ DocumentRequest(r) \/ DocumentStep(r) \/ StartRequestAi(r) \/ PushJob(r) \/ Abort(r)

LEMMA MovedSlot ==
    ASSUME TypeInv, NEW r \in Requests, NEW pc \in RequestPc \ {"save", "drop"},
           req' = Moved(r, pc), req[r].pc # "idle", req[r].op \in DocumentOps
    PROVE  \E q : DocumentSlot(r, q)
<1>1. PICK q : q = [req[r] EXCEPT !.pc = pc]
  OBVIOUS
<1>2. req' = [req EXCEPT ![r] = q] /\ q.pc = pc /\ q.op = req[r].op
  BY <1>1, MovedIs
<1>3. q.op \notin ReceiptOps
  BY <1>2 DEF DocumentOps, ReceiptOps
<1> QED
  BY <1>2, <1>3 DEF DocumentSlot, Asked, SavesDocument, DropsDocument

LEMMA FinishedSlot ==
    ASSUME NEW r, req' = Finished(r)
    PROVE  \E q : DocumentSlot(r, q)
<1>1. IdleRequest.pc = "idle" /\ IdleRequest.op = "none"
  BY DEF IdleRequest
<1> QED
  BY <1>1 DEF Finished, DocumentSlot, Asked, SavesDocument, DropsDocument, ReceiptOps

LEMMA StartedSlot ==
    ASSUME TypeInv, NEW r \in Requests,
           \/ CreateDocument(r) \/ StartLock(r) \/ StartEdit(r) \/ StartDelete(r)
           \/ StartTag(r) \/ StartRequestAi(r)
    PROVE  \E q : DocumentSlot(r, q)
<1>1. ASSUME NEW q, req' = [req EXCEPT ![r] = q], Begins(r, q.op),
             q.op \in DocumentOps \cup CardOps,
             SavesDocument(q) \/ DropsDocument(q) => Exists(q.doc)
      PROVE  DocumentSlot(r, q)
  BY <1>1 DEF DocumentSlot, Asked, Begins, DocumentOps, CardOps, ReceiptOps
<1>2. CASE CreateDocument(r)
  <2>1. PICK d \in Docs, pages \in SUBSET Pages :
           req' = [req EXCEPT ![r] =
              [IdleRequest EXCEPT !.op = "create", !.doc = d, !.pages = pages,
                                  !.pc = IF pages = {} THEN "activity" ELSE "file"]]
    BY <1>2 DEF CreateDocument
  <2>2. PICK q : q = [IdleRequest EXCEPT !.op = "create", !.doc = d, !.pages = pages,
                                         !.pc = IF pages = {} THEN "activity" ELSE "file"]
    OBVIOUS
  <2>3. q.op = "create" /\ q.pc \in {"activity", "file"}
    BY <2>2 DEF IdleRequest
  <2>4. Begins(r, "create") /\ req' = [req EXCEPT ![r] = q]
    BY <1>2, <2>1, <2>2 DEF CreateDocument
  <2> QED
    BY <1>1, <2>3, <2>4 DEF SavesDocument, DropsDocument, DocumentOps
<1>3. CASE StartLock(r)
  <2>1. PICK op \in {"unlock", "lock"}, d \in Docs, locked \in BOOLEAN :
           /\ Begins(r, op) /\ req' = [req EXCEPT ![r] =
              [IdleRequest EXCEPT !.op = op, !.pc = "pin", !.doc = d, !.value = locked]]
    BY <1>3 DEF StartLock
  <2>2. PICK q : q = [IdleRequest EXCEPT !.op = op, !.pc = "pin", !.doc = d, !.value = locked]
    OBVIOUS
  <2>3. q.op = op /\ q.pc = "pin"
    BY <2>2 DEF IdleRequest
  <2> QED
    BY <1>1, <2>1, <2>2, <2>3 DEF SavesDocument, DropsDocument, DocumentOps
<1>4. CASE StartEdit(r)
  <2>1. PICK op \in {"edit", "favorite"}, d \in Docs, value \in BOOLEAN :
           /\ Begins(r, op) /\ Exists(d)
           /\ req' = [req EXCEPT ![r] =
                [IdleRequest EXCEPT !.op = op, !.pc = "save", !.doc = d, !.row = doc[d],
                                    !.value = value]]
    BY <1>4 DEF StartEdit
  <2>2. PICK q : q = [IdleRequest EXCEPT !.op = op, !.pc = "save", !.doc = d, !.row = doc[d],
                                         !.value = value]
    OBVIOUS
  <2>3. q.op = op /\ q.doc = d
    BY <2>2 DEF IdleRequest
  <2> QED
    BY <1>1, <2>1, <2>2, <2>3 DEF DocumentOps
<1>5. CASE StartDelete(r)
  <2>1. PICK d \in Docs :
           /\ Begins(r, "deleteDoc") /\ Exists(d)
           /\ req' = [req EXCEPT ![r] =
                [IdleRequest EXCEPT !.op = "deleteDoc", !.pc = "drop", !.doc = d,
                                    !.row = doc[d]]]
    BY <1>5 DEF StartDelete
  <2>2. PICK q : q = [IdleRequest EXCEPT !.op = "deleteDoc", !.pc = "drop", !.doc = d,
                                         !.row = doc[d]]
    OBVIOUS
  <2>3. q.op = "deleteDoc" /\ q.doc = d
    BY <2>2 DEF IdleRequest
  <2> QED
    BY <1>1, <2>1, <2>2, <2>3 DEF DocumentOps
<1>6. CASE StartTag(r)
  <2>1. PICK op \in {"addTag", "removeTag"}, d \in Docs, n \in Names :
           /\ Begins(r, op) /\ req' = [req EXCEPT ![r] =
              [IdleRequest EXCEPT !.op = op, !.doc = d, !.name = n,
                                  !.pc = IF op = "addTag" THEN "tag" ELSE "removeTag"]]
    BY <1>6 DEF StartTag
  <2>2. PICK q : q = [IdleRequest EXCEPT !.op = op, !.doc = d, !.name = n,
                                         !.pc = IF op = "addTag" THEN "tag" ELSE "removeTag"]
    OBVIOUS
  <2>3. q.op = op /\ q.pc \in {"tag", "removeTag"}
    BY <2>2 DEF IdleRequest
  <2> QED
    BY <1>1, <2>1, <2>2, <2>3 DEF SavesDocument, DropsDocument, DocumentOps
<1>7. CASE StartRequestAi(r)
  <2>1. PICK q : q = [IdleRequest EXCEPT !.op = "requestAi", !.pc = "push"]
    OBVIOUS
  <2>2. q.op = "requestAi" /\ q.pc = "push"
    BY <2>1 DEF IdleRequest
  <2>3. Begins(r, "requestAi") /\ req' = [req EXCEPT ![r] = q]
    BY <1>7, <2>1 DEF StartRequestAi
  <2> QED
    BY <1>1, <2>2, <2>3 DEF SavesDocument, DropsDocument, CardOps
<1> QED
  BY <1>2, <1>3, <1>4, <1>5, <1>6, <1>7

LEMMA DocumentSlots ==
    ASSUME TypeInv, NEW r \in Requests, DocumentAction(r)
    PROVE  UNCHANGED req \/ \E q : DocumentSlot(r, q)
<1>0. req \in [Requests -> Request] /\ RequestHeld(req[r])
  BY DEF TypeInv, TablesOK
<1>1. CASE Reads(r)
  BY <1>1 DEF Reads, GetDocuments, GetDocument, Download
<1>2. CASE \/ WriteActivity(r) \/ ForeignKeyFails(r) \/ PinIsWrong(r) \/ Unlock(r)
           \/ DropDocument(r) \/ RemoveTag(r) \/ PushJob(r) \/ Abort(r)
  <2>1. req' = Finished(r)
    BY <1>2 DEF WriteActivity, ForeignKeyFails, PinIsWrong, Unlock, DropDocument, RemoveTag,
                PushJob, Abort
  <2> QED
    BY <2>1, FinishedSlot
<1>3. CASE PinIsRight(r) \/ FindOrCreateTag(r) \/ CheckTag(r) \/ SaveDocument(r) \/ AddTag(r)
  <2>1. \/ req' = Finished(r)
        \/ \E pc \in {"load", "exists", "addTag", "activity"} : req' = Moved(r, pc)
    BY <1>3 DEF PinIsRight, FindOrCreateTag, CheckTag, SaveDocument, AddTag
  <2>2. req[r].pc # "idle" /\ req[r].op \in DocumentOps
    BY <1>0, <1>3 DEF PinIsRight, FindOrCreateTag, CheckTag, SaveDocument, AddTag, At,
                      RequestHeld, DocumentHeld, DocumentOps
  <2>3. {"load", "exists", "addTag", "activity"} \subseteq RequestPc \ {"save", "drop"}
    BY DEF RequestPc
  <2> QED
    BY <2>1, <2>2, <2>3, MovedSlot, FinishedSlot
<1>4. CASE LoadForLock(r)
  <2>1. CASE ~Exists(req[r].doc)
    BY <1>4, <2>1, FinishedSlot DEF LoadForLock
  <2>2. CASE Exists(req[r].doc)
    <3>1. PICK q : q = [req[r] EXCEPT !.row = doc[req[r].doc], !.pc = "save"]
      OBVIOUS
    <3>2. req' = [req EXCEPT ![r] = q]
      BY <1>0, <1>4, <2>2, <3>1 DEF LoadForLock, Loaded
    <3>3. q.op = req[r].op /\ q.doc = req[r].doc
      BY <1>0, <3>1 DEF Request
    <3>4. req[r].pc # "idle" /\ q.op \notin ReceiptOps
      BY <1>4, <3>3 DEF LoadForLock, At, Op, ReceiptOps
    <3> QED
      BY <2>2, <3>2, <3>3, <3>4 DEF DocumentSlot, Asked
  <2> QED
    BY <2>1, <2>2
<1>5. CASE InsertFile(r)
  <2>1. PICK p \in req[r].pages :
           req' = [req EXCEPT ![r].pages = @ \ {p},
                              ![r].pc = IF req[r].pages = {p} THEN "activity" ELSE "file"]
    BY <1>5 DEF InsertFile
  <2>2. PICK q : q = [req[r] EXCEPT !.pages = @ \ {p},
                              !.pc = IF req[r].pages = {p} THEN "activity" ELSE "file"]
    OBVIOUS
  <2>3. req' = [req EXCEPT ![r] = q] /\ q.op = req[r].op /\ q.pc \in {"activity", "file"}
    BY <1>0, <2>1, <2>2 DEF Request
  <2>4. req[r].pc # "idle" /\ q.op \notin ReceiptOps
    BY <1>0, <1>5, <2>3 DEF InsertFile, At, RequestHeld, DocumentHeld, DocumentOps, ReceiptOps
  <2> QED
    BY <2>3, <2>4 DEF DocumentSlot, Asked, SavesDocument, DropsDocument
<1>6. CASE \/ CreateDocument(r) \/ StartLock(r) \/ StartEdit(r) \/ StartDelete(r)
           \/ StartTag(r) \/ StartRequestAi(r)
  BY <1>6, StartedSlot
<1> QED
  BY <1>1, <1>2, <1>3, <1>4, <1>5, <1>6 DEF DocumentAction, DocumentRequest, DocumentStep,
     Reads

LEMMA ReceiptSlots ==
    ASSUME TypeInv, NEW r \in Requests, ReceiptRequest(r) \/ ReceiptStep(r)
    PROVE  \E q : req' = [req EXCEPT ![r] = q] /\ Asked(r, q)
<1>1. ASSUME NEW q, Becomes(r, q), Ended(q) \/ (q.op = req[r].op /\ req[r].pc # "idle")
      PROVE  req' = [req EXCEPT ![r] = q] /\ Asked(r, q)
  BY <1>1 DEF Becomes, Asked, Ended, IdleRequest
<1>2. CASE ReceiptRequest(r)
  <2>1. PICK q : Becomes(r, q) /\ Begins(r, q.op)
    <3>1. CASE StartAdd(r)
      BY <3>1, AddStarts DEF StartAdd
    <3>2. CASE StartChange(r)
      BY <3>2, ChangeStarts DEF StartChange
    <3>3. CASE StartRemove(r)
      BY <3>3, RemoveStarts DEF StartRemove
    <3> QED
      BY <1>2, <3>1, <3>2, <3>3 DEF ReceiptRequest
  <2> QED
    BY <2>1 DEF Becomes, Asked, Begins
<1>3. CASE PutImage(r)
  BY <1>1, <1>3, PutMoves DEF Keeps
<1>4. CASE AddUsage(r) \/ AddUsageFails(r)
  BY <1>1, <1>4, UploadMoves DEF Keeps
<1>5. CASE InsertReceipt(r) \/ DeleteImage(r) \/ DeleteImageFails(r)
  BY <1>1, <1>5, ReceiptEnds DEF Ended
<1>6. CASE LoadReceipt(r)
  BY <1>1, <1>6, LoadMoves DEF Keeps, Written
<1>7. CASE SaveReceipt(r) \/ DropReceipt(r)
  <2>1. req[r].pc # "idle"
    BY <1>7 DEF SaveReceipt, DropReceipt, At
  <2> QED
    BY <1>1, <1>7, <2>1, ReceiptWritten DEF Keeps, Written
<1>8. CASE Subtract(r)
  BY <1>1, <1>8, SubtractMoves DEF Keeps
<1> QED
  BY <1>2, <1>3, <1>4, <1>5, <1>6, <1>7, <1>8 DEF ReceiptStep

(* A step is one of a slot that the scenario uses, or changes no slot.     *)
Occupied(r) == ~Idle(r) => r \in scenario.slots /\ req[r].op \in scenario.ops

LEMMA ScenarioStays ==
    ASSUME [Next]_vars
    PROVE  scenario' = scenario
<1>1. ASSUME NEW r \in Requests, DocumentRequest(r)
      PROVE  scenario' = scenario
  BY <1>1 DEF DocumentRequest, CreateDocument, GetDocuments, GetDocument, Download, StartLock,
              StartEdit, StartDelete, StartTag
<1>2. ASSUME NEW r \in Requests, DocumentStep(r)
      PROVE  scenario' = scenario
  BY <1>2 DEF DocumentStep, InsertFile, WriteActivity, ForeignKeyFails, PinIsWrong, PinIsRight,
              Unlock, LoadForLock, SaveDocument, DropDocument, FindOrCreateTag, CheckTag,
              AddTag, RemoveTag
<1>3. ASSUME NEW r \in Requests, ReceiptRequest(r)
      PROVE  scenario' = scenario
  BY <1>3 DEF ReceiptRequest, StartAdd, StartChange, StartRemove
<1>4. ASSUME NEW r \in Requests, ReceiptStep(r)
      PROVE  scenario' = scenario
  BY <1>4 DEF ReceiptStep, PutImage, AddUsage, AddUsageFails, InsertReceipt, LoadReceipt,
              SaveReceipt, DropReceipt, Subtract, DeleteImage, DeleteImageFails
<1>5. ASSUME NEW r \in Requests, StartRequestAi(r) \/ PushJob(r) \/ Abort(r)
      PROVE  scenario' = scenario
  BY <1>5 DEF StartRequestAi, PushJob, Abort
<1>6. ASSUME NEW t \in Threads, ThreadStep(t) \/ JobFails(t)
      PROVE  scenario' = scenario
  BY <1>6 DEF ThreadStep, Pop, ReadTotals, Rank, DeleteRows, CommitRows, JobFails
<1>7. ASSUME NEW d \in Docs, ExpireToken(d)
      PROVE  scenario' = scenario
  BY <1>7 DEF ExpireToken
<1>8. CASE Next
  BY Zenon, <1>1, <1>2, <1>3, <1>4, <1>5, <1>6, <1>7, <1>8 DEF Next
<1>9. CASE UNCHANGED vars
  BY <1>9 DEF vars
<1> QED
  BY <1>8, <1>9

LEMMA SlotsStep ==
    ASSUME TypeInv, [Next]_vars
    PROVE  \/ \E r \in Requests : DocumentAction(r) \/ ReceiptRequest(r) \/ ReceiptStep(r)
           \/ UNCHANGED <<req, doc, receipt, used>>
<1>1. ASSUME NEW t \in Threads, ThreadStep(t) \/ JobFails(t)
      PROVE  UNCHANGED <<req, doc, receipt, used>>
  BY <1>1, JobsStep DEF JobStep, documents, receipts
<1>2. ASSUME NEW d \in Docs, ExpireToken(d)
      PROVE  UNCHANGED <<req, doc, receipt, used>>
  BY <1>2 DEF ExpireToken, documents, receipts
<1>3. UNCHANGED vars => UNCHANGED <<req, doc, receipt, used>>
  BY DEF vars, documents, receipts
<1> QED
  BY <1>1, <1>2, <1>3 DEF Next, DocumentAction

LEMMA SlotsStayOccupied ==
    ASSUME TypeInv, [Next]_vars, \A r \in Requests : Occupied(r)
    PROVE  \A r \in Requests : Occupied(r)'
<1>0. req \in [Requests -> Request] /\ scenario' = scenario
  BY ScenarioStays DEF TypeInv, TablesOK
<1>1. CASE UNCHANGED req
  BY <1>0, <1>1 DEF Occupied, Idle, At
<1>2. CASE \E s \in Requests : \E q : req' = [req EXCEPT ![s] = q] /\ Asked(s, q)
  <2>0. PICK s \in Requests : \E q : req' = [req EXCEPT ![s] = q] /\ Asked(s, q)
    BY <1>2
  <2>1. PICK q : req' = [req EXCEPT ![s] = q] /\ Asked(s, q)
    BY <2>0
  <2>2. req'[s] = q /\ \A r \in Requests \ {s} : req'[r] = req[r]
    BY <1>0, <2>1
  <2> QED
    BY <1>0, <2>1, <2>2 DEF Occupied, Idle, At, Asked
<1> QED
  BY <1>1, <1>2, SlotsStep, DocumentSlots, ReceiptSlots DEF DocumentSlot

LEMMA AloneActs ==
    ASSUME TypeInv, AloneInv, NEW r \in Requests, Lone(r), NEW s \in Requests,
           DocumentAction(s) \/ ReceiptRequest(s) \/ ReceiptStep(s)
    PROVE  s = r
<1>1. CASE s \in scenario.slots
  BY <1>1 DEF Lone
<1>2. CASE s \notin scenario.slots
  <2>1. Idle(s) /\ \A op : ~Begins(s, op)
    BY <1>2 DEF AloneInv, Begins
  <2>2. ~DocumentRequest(s)
    BY <2>1 DEF DocumentRequest, CreateDocument, GetDocuments, GetDocument, Download,
                StartLock, StartEdit, StartDelete, StartTag
  <2>3. ~DocumentStep(s)
    BY <2>1 DEF DocumentStep, InsertFile, WriteActivity, ForeignKeyFails, PinIsWrong,
                PinIsRight, Unlock, LoadForLock, SaveDocument, DropDocument, FindOrCreateTag,
                CheckTag, AddTag, RemoveTag, Idle, At
  <2>4. ~ReceiptRequest(s)
    BY <2>1 DEF ReceiptRequest, StartAdd, StartChange, StartRemove
  <2>5. ~ReceiptStep(s)
    BY <2>1 DEF ReceiptStep, PutImage, AddUsage, AddUsageFails, InsertReceipt, LoadReceipt,
                SaveReceipt, DropReceipt, Subtract, DeleteImage, DeleteImageFails, Idle, At
  <2>6. ~(StartRequestAi(s) \/ PushJob(s) \/ Abort(s))
    BY <2>1 DEF StartRequestAi, PushJob, Abort, Idle, At
  <2> QED
    BY <2>2, <2>3, <2>4, <2>5, <2>6 DEF DocumentAction
<1> QED
  BY <1>1, <1>2

Pictured(row) == IF row.state = "LIVE" /\ row.image # NoImage THEN 1 ELSE 0

LEMMA PicturesCount ==
    ASSUME TypeInv
    PROVE  Cardinality(WithImage) \in Nat /\ DocumentBytes \in Nat
<1>1. WithImage \subseteq Receipts
  BY DEF WithImage, KeptReceipts
<1>2. IsFiniteSet(WithImage)
  BY <1>1, LibraryAssumption, FS_Subset
<1> QED
  BY <1>2, CountsAreFinite, FS_CardinalityType

LEMMA RowPictured ==
    ASSUME TypeInv, NEW c \in Receipts, NEW row, receipt' = [receipt EXCEPT ![c] = row]
    PROVE  Cardinality(WithImage') + Pictured(receipt[c]) = Cardinality(WithImage) + Pictured(row)
<1>1. IsFiniteSet(WithImage) /\ Cardinality(WithImage) \in Nat
  <2>1. WithImage \subseteq Receipts
    BY DEF WithImage, KeptReceipts
  <2> QED
    BY <2>1, LibraryAssumption, FS_Subset, PicturesCount
<1>2. receipt'[c] = row /\ \A e \in Receipts \ {c} : receipt'[e] = receipt[e]
  BY DEF TypeInv, TablesOK
<1>3. /\ c \in WithImage <=> Pictured(receipt[c]) = 1
      /\ Pictured(receipt[c]) \in 0..1 /\ Pictured(row) \in 0..1
  BY DEF WithImage, KeptReceipts, Kept, Pictured
<1>4. PICK after : after = WithImage'
  OBVIOUS
<1>5. Pictured(row) = 1 => after = WithImage \cup {c}
  BY <1>2, <1>4 DEF WithImage, KeptReceipts, Kept, Pictured
<1>6. Pictured(row) = 0 => after = WithImage \ {c}
  BY <1>2, <1>4 DEF WithImage, KeptReceipts, Kept, Pictured
<1>7. Cardinality(WithImage \cup {c}) =
         IF c \in WithImage THEN Cardinality(WithImage) ELSE Cardinality(WithImage) + 1
  BY <1>1, FS_AddElement
<1>8. Cardinality(WithImage \ {c}) =
         IF c \in WithImage THEN Cardinality(WithImage) - 1 ELSE Cardinality(WithImage)
  BY <1>1, FS_RemoveElement
<1>9. Cardinality(after) + Pictured(receipt[c]) = Cardinality(WithImage) + Pictured(row)
  BY <1>1, <1>3, <1>5, <1>6, <1>7, <1>8
<1> QED
  BY <1>4, <1>9

LEMMA CountsStay ==
    /\ UNCHANGED doc => DocumentBytes' = DocumentBytes
    /\ UNCHANGED receipt => Cardinality(WithImage') = Cardinality(WithImage)
<1>1. UNCHANGED doc => DocumentBytes' = DocumentBytes
  BY DEF DocumentBytes, Exists
<1>2. UNCHANGED receipt => WithImage' = WithImage
  BY DEF WithImage, KeptReceipts, Kept
<1> QED
  BY <1>1, <1>2

LEMMA NothingAhead ==
    ASSUME NEW q, RequestHeld(q), q.op \notin ReceiptOps
    PROVE  Ahead(q) = 0
BY DEF RequestHeld, ReceiptHeld, ReceiptOps, Ahead

LEMMA SlotAccounted ==
    ASSUME TypeInv, NEW r \in Requests, NEW q, req' = [req EXCEPT ![r] = q], Unchanged(q)',
           used' = DocumentBytes' + Cardinality(WithImage') + Ahead(q)
    PROVE  Accounted(r)'
<1>1. req'[r] = q
  BY DEF TypeInv, TablesOK
<1>2. Unchanged(req[r])'
  BY <1>1 DEF Unchanged, SavesDocument, DropsDocument
<1>3. used' = DocumentBytes' + Cardinality(WithImage') + Ahead(req'[r])
  BY <1>1
<1> QED
  BY <1>2, <1>3 DEF Accounted, Ahead

(* A request that is alone saves and deletes the document that it read.    *)
LEMMA DocumentsAccounted ==
    ASSUME TypeInv, TypeInv', AloneInv, NEW r \in Requests, Lone(r), Lone(r)',
           DocumentAction(r)
    PROVE  Accounted(r)'
<1>0. /\ req \in [Requests -> Request] /\ doc \in [Docs -> DocRow] /\ used \in Nat
      /\ RequestHeld(req[r]) /\ Seen(req[r])
      /\ faults' = faults /\ faults \in Nat
  BY DEF TypeInv, TablesOK, Lone
<1>1. /\ Unchanged(req[r])
      /\ used = DocumentBytes + Cardinality(WithImage) + Ahead(req[r])
  BY DEF AloneInv, Accounted
<1>2. ~Abort(r) /\ ~CreateDocument(r)
  <2>1. ~Abort(r)
    BY <1>0 DEF Abort
  <2>2. ~CreateDocument(r)
    BY DEF CreateDocument, Begins, Lone
  <2> QED
    BY <2>1, <2>2
<1>3. UNCHANGED receipt
  <2>1. CASE DocumentRequest(r)
    BY <2>1 DEF DocumentRequest, CreateDocument, GetDocuments, GetDocument, Download,
                StartLock, StartEdit, StartDelete, StartTag, receipts
  <2>2. CASE DocumentStep(r)
    BY <2>2 DEF DocumentStep, InsertFile, WriteActivity, ForeignKeyFails, PinIsWrong,
                PinIsRight, Unlock, LoadForLock, SaveDocument, DropDocument, FindOrCreateTag,
                CheckTag, AddTag, RemoveTag, receipts
  <2>3. CASE StartRequestAi(r) \/ PushJob(r)
    BY <2>3 DEF StartRequestAi, PushJob, receipts
  <2> QED
    BY Zenon, <1>2, <2>1, <2>2, <2>3 DEF DocumentAction
<1>4. Ahead(req[r]) = 0
  <2>1. CASE DocumentRequest(r) \/ StartRequestAi(r)
    BY <1>2, <2>1 DEF DocumentRequest, GetDocuments, GetDocument, Download, StartLock,
                StartEdit, StartDelete, StartTag, StartRequestAi, Begins, Idle, At, Ahead
  <2>2. CASE DocumentStep(r)
    <3>1. req[r].op \notin ReceiptOps
      BY <1>0, <2>2 DEF DocumentStep, InsertFile, WriteActivity, ForeignKeyFails, PinIsWrong,
                PinIsRight, Unlock, LoadForLock, SaveDocument, DropDocument, FindOrCreateTag,
                CheckTag, AddTag, RemoveTag, At, Op, RequestHeld, DocumentHeld, DocumentOps,
                ReceiptOps
    <3> QED
      BY <1>0, <3>1, NothingAhead
  <2>3. CASE PushJob(r)
    BY <2>3 DEF PushJob, At, Ahead
  <2> QED
    BY Zenon, <1>2, <2>1, <2>2, <2>3 DEF DocumentAction
<1>5. CASE ~(SaveDocument(r) \/ DropDocument(r))
  <2>1. UNCHANGED <<doc, used>>
    <3>1. CASE DocumentRequest(r)
      BY <1>2, <3>1 DEF DocumentRequest, GetDocuments, GetDocument, Download,
                  StartLock, StartEdit, StartDelete, StartTag, documents
    <3>2. CASE DocumentStep(r)
      BY <1>5, <3>2 DEF DocumentStep, InsertFile, WriteActivity, ForeignKeyFails, PinIsWrong,
                  PinIsRight, Unlock, LoadForLock, FindOrCreateTag, CheckTag, AddTag,
                  RemoveTag, documents
    <3>3. CASE StartRequestAi(r) \/ PushJob(r)
      BY <3>3 DEF StartRequestAi, PushJob, documents
    <3> QED
      BY <1>2, <3>1, <3>2, <3>3 DEF DocumentAction
  <2>2. PICK q : /\ req' = [req EXCEPT ![r] = q] /\ Unchanged(q) /\ Ahead(q) = 0
    <3>1. CASE UNCHANGED req
      <4>1. req' = [req EXCEPT ![r] = req[r]]
        BY <1>0, <3>1
      <4> QED
        BY <1>1, <1>4, <4>1
    <3>2. CASE \E q : DocumentSlot(r, q)
      <4>1. PICK q : DocumentSlot(r, q)
        BY <3>2
      <4>2. req'[r] = q /\ RequestHeld(req'[r])
        BY <1>0, <4>1 DEF DocumentSlot, TypeInv
      <4>3. Ahead(q) = 0
        BY <4>1, <4>2, NothingAhead DEF DocumentSlot
      <4>4. Unchanged(q)
        BY <4>1 DEF DocumentSlot, Unchanged, ReceiptOps
      <4> QED
        BY <4>1, <4>3, <4>4 DEF DocumentSlot
    <3> QED
      BY <3>1, <3>2, DocumentSlots
  <2>3. Unchanged(q)'
    BY <1>3, <2>1, <2>2 DEF Unchanged, SavesDocument, DropsDocument, Exists, Kept
  <2>4. used' = DocumentBytes' + Cardinality(WithImage') + Ahead(q)
    <3>1. /\ DocumentBytes' = DocumentBytes /\ Cardinality(WithImage') = Cardinality(WithImage)
          /\ used' = used
      BY <1>3, <2>1, CountsStay
    <3> QED
      BY <1>1, <1>4, <2>2, <3>1
  <2> QED
    BY <2>2, <2>3, <2>4, SlotAccounted
<1>6. CASE SaveDocument(r) \/ DropDocument(r)
  <2>1. PICK q : DocumentSlot(r, q)
    <3>1. ~UNCHANGED req
      <4>1. req'[r].pc \in {"idle", "activity"} /\ req[r].pc \in {"save", "drop"}
        <5>1. req' = Finished(r) \/ req' = Moved(r, "activity")
          BY <1>6 DEF SaveDocument, DropDocument
        <5>2. IdleRequest.pc = "idle"
          BY DEF IdleRequest
        <5> QED
          BY <1>0, <1>6, <5>1, <5>2 DEF SaveDocument, DropDocument, At, Finished, Moved, Request
      <4> QED
        BY <4>1
    <3> QED
      BY <3>1, DocumentSlots
  <2>2. req' = [req EXCEPT ![r] = q] /\ req'[r] = q /\ q.pc \in {"idle", "activity"}
    <3>1. req' = Finished(r) \/ req' = Moved(r, "activity")
      BY <1>6 DEF SaveDocument, DropDocument
    <3>2. IdleRequest.pc = "idle"
      BY DEF IdleRequest
    <3>3. req'[r].pc \in {"idle", "activity"}
      BY <1>0, <3>1, <3>2 DEF Finished, Moved, Request
    <3> QED
      BY <1>0, <2>1, <3>3 DEF DocumentSlot
  <2>3. Unchanged(q)' /\ Ahead(q) = 0
    BY <2>2 DEF Unchanged, Ahead, SavesDocument, DropsDocument
  <2>4. Exists(req[r].doc) /\ req[r].doc \in Docs
    BY <1>0, <1>1, <1>6 DEF SaveDocument, DropDocument, At, Op, Unchanged, SavesDocument,
                            DropsDocument, RequestHeld, DocumentHeld
  <2>5. used' = DocumentBytes' + Cardinality(WithImage')
    <3>1. Cardinality(WithImage') = Cardinality(WithImage) /\ Cardinality(WithImage) \in Nat
      BY <1>3, CountsStay, PicturesCount
    <3>2. CASE SaveDocument(r)
      <4>1. doc' = [doc EXCEPT ![req[r].doc] = Edited(r)] /\ used' = used
        BY <3>2 DEF SaveDocument
      <4>2. \A e \in Docs : /\ doc'[e].state = "LIVE" <=> doc[e].state = "LIVE"
                            /\ doc'[e].bytes = doc[e].bytes
        BY <1>0, <2>4, <3>2, <4>1, EditedRow DEF Exists
      <4>3. DocumentsCounted' = DocumentsCounted
        BY <4>2 DEF DocumentsCounted, Exists
      <4>4. DocumentBytes' = DocumentBytes
        BY <4>3 DEF DocumentBytes, DocumentsCounted
      <4> QED
        BY <1>1, <1>4, <3>1, <4>1, <4>4, PicturesCount
    <3>3. CASE DropDocument(r)
      <4>1. doc' = [doc EXCEPT ![req[r].doc].state = "GONE"] /\ used' = UsedLess(req[r].row.bytes)
        BY <3>3 DEF DropDocument
      <4>2. PICK d \in Docs, bytes \in 0..1 :
               d = req[r].doc /\ bytes = req[r].row.bytes /\ doc[d].bytes = bytes
        BY <1>0, <2>4, <3>3 DEF DropDocument, At, Op, DropsDocument, Seen, Request, DocRow
      <4>3. PICK after : after = DocumentsCounted'
        OBVIOUS
      <4>4. after = DocumentsCounted \ {d} /\ (d \in DocumentsCounted <=> bytes = 1)
        <5>1. doc'[d].state = "GONE" /\ \A e \in Docs \ {d} : doc'[e] = doc[e]
          BY <1>0, <4>1, <4>2 DEF DocRow
        <5> QED
          BY <2>4, <4>2, <4>3, <5>1 DEF DocumentsCounted, Exists
      <4>5. /\ Cardinality(DocumentsCounted \ {d}) =
                 IF d \in DocumentsCounted THEN Cardinality(DocumentsCounted) - 1
                                           ELSE Cardinality(DocumentsCounted)
            /\ DocumentBytes = Cardinality(DocumentsCounted) /\ DocumentBytes \in Nat
        BY CountsAreFinite, FS_RemoveElement
      <4>6. DocumentBytes' = Cardinality(after)
        BY <4>3 DEF DocumentBytes, DocumentsCounted
      <4>7. Cardinality(after) + bytes = DocumentBytes /\ Cardinality(after) \in Int
        BY <4>2, <4>4, <4>5
      <4>8. Cardinality(after) \in Nat
        BY <4>3, <4>4, CountsAreFinite, FS_Subset, FS_CardinalityType
      <4>9. used = DocumentBytes + Cardinality(WithImage)
        BY <1>1, <1>4, <3>1, <4>5
      <4>10. used' = Cardinality(after) + Cardinality(WithImage)
        <5>1. used' = IF used > bytes THEN used - bytes ELSE 0
          BY <4>1, <4>2 DEF UsedLess
        <5>2. PICK images, documentBytes :
                 images = Cardinality(WithImage) /\ documentBytes = Cardinality(after)
          OBVIOUS
        <5>3. /\ images \in Nat /\ documentBytes \in Nat
              /\ used = documentBytes + bytes + images
          BY <3>1, <4>2, <4>7, <4>8, <4>9, <5>2
        <5>4. used' = documentBytes + images
          BY <4>2, <5>1, <5>3
        <5> QED
          BY <5>2, <5>4
      <4> QED
        BY <3>1, <4>6, <4>10
    <3> QED
      BY <1>6, <3>2, <3>3
  <2>6. used' = DocumentBytes' + Cardinality(WithImage') + Ahead(q)
    <3>1. used' \in Nat
      BY DEF TypeInv, TablesOK
    <3> QED
      BY <2>3, <2>5, <3>1
  <2> QED
    BY <2>2, <2>3, <2>6, SlotAccounted
<1> QED
  BY <1>5, <1>6

(* A request that is alone replaces and removes the image that it read.    *)
LEMMA ReceiptsAccounted ==
    ASSUME TypeInv, TypeInv', AloneInv, NEW r \in Requests, Lone(r), Lone(r)',
           ReceiptRequest(r) \/ ReceiptStep(r)
    PROVE  Accounted(r)'
<1>0. /\ req \in [Requests -> Request] /\ receipt \in [Receipts -> ReceiptRow] /\ used \in Nat
      /\ RequestHeld(req[r]) /\ req[r] \in Request
      /\ faults' = faults /\ faults \in Nat
      /\ Unchanged(req[r])
      /\ used = DocumentBytes + Cardinality(WithImage) + Ahead(req[r])
      /\ Cardinality(WithImage) \in Nat /\ DocumentBytes \in Nat
  BY PicturesCount DEF TypeInv, TablesOK, Lone, AloneInv, Accounted
<1>1. /\ ~AddUsageFails(r) /\ ~DeleteImageFails(r)
      /\ \A q : Ahead(q) \in 0..1
  BY <1>0 DEF AddUsageFails, DeleteImageFails, Ahead
<1>2. ASSUME NEW q, Becomes(r, q)
      PROVE  req' = [req EXCEPT ![r] = q] /\ DocumentBytes' = DocumentBytes /\ UNCHANGED doc
  BY <1>2, CountsStay DEF Becomes, documents
<1>3. ASSUME NEW q, Becomes(r, q), UNCHANGED receipt, Unchanged(q), used' \in Nat,
             used' + Ahead(req[r]) = used + Ahead(q)
      PROVE  Accounted(r)'
  <2>1. Unchanged(q)'
    BY <1>2, <1>3 DEF Unchanged, Exists, Kept
  <2>2. /\ DocumentBytes' = DocumentBytes /\ Cardinality(WithImage') = Cardinality(WithImage)
        /\ Ahead(q) \in 0..1 /\ Ahead(req[r]) \in 0..1
    BY <1>1, <1>2, <1>3, CountsStay
  <2>3. used' = DocumentBytes + Cardinality(WithImage) + Ahead(q)
    <3>1. PICK next : next = used'
      OBVIOUS
    <3>2. /\ next \in Nat /\ next + Ahead(req[r]) = used + Ahead(q)
          /\ Ahead(q) \in 0..1 /\ Ahead(req[r]) \in 0..1
      BY <1>3, <2>2, <3>1
    <3>3. next = DocumentBytes + Cardinality(WithImage) + Ahead(q)
      BY <1>0, <3>2
    <3> QED
      BY <3>1, <3>3
  <2>4. used' = DocumentBytes' + Cardinality(WithImage') + Ahead(q)
    BY <2>2, <2>3
  <2> QED
    BY <1>2, <1>3, <2>1, <2>4, SlotAccounted
<1>4. ASSUME NEW q, Becomes(r, q), NEW c \in Receipts, NEW row,
             receipt' = [receipt EXCEPT ![c] = row], q.pc \in {"idle", "subtract"},
             Pictured(row) + Ahead(q) = Pictured(receipt[c]) + Ahead(req[r]),
             used' = used
      PROVE  Accounted(r)'
  <2>1. Unchanged(q)'
    BY <1>4 DEF Unchanged, SavesDocument, DropsDocument
  <2>2. PICK images : images = Cardinality(WithImage')
    OBVIOUS
  <2>3. /\ DocumentBytes' = DocumentBytes
        /\ images + Pictured(receipt[c]) = Cardinality(WithImage) + Pictured(row)
        /\ Ahead(q) \in 0..1 /\ Ahead(req[r]) \in 0..1
        /\ Pictured(row) \in 0..1 /\ Pictured(receipt[c]) \in 0..1
    <3>1. Cardinality(WithImage') + Pictured(receipt[c]) = Cardinality(WithImage) + Pictured(row)
      BY <1>4, RowPictured
    <3>2. Pictured(row) \in 0..1 /\ Pictured(receipt[c]) \in 0..1
      BY DEF Pictured
    <3>3. DocumentBytes' = DocumentBytes
      BY <1>2, <1>4
    <3> QED
      BY <1>1, <2>2, <3>1, <3>2, <3>3
  <2>4. images \in Int
    <3>1. WithImage' \subseteq Receipts
      BY DEF WithImage, KeptReceipts
    <3>2. IsFiniteSet(WithImage')
      BY <3>1, LibraryAssumption, FS_Subset
    <3> QED
      BY <2>2, <3>2, FS_CardinalityType
  <2>5. used' = DocumentBytes + images + Ahead(q)
    BY <1>0, <1>4, <2>3, <2>4
  <2>6. used' = DocumentBytes' + Cardinality(WithImage') + Ahead(q)
    BY <2>2, <2>3, <2>5
  <2> QED
    BY <1>2, <1>4, <2>1, <2>6, SlotAccounted
<1>5. CASE ReceiptRequest(r)
  <2>1. Ahead(req[r]) = 0 /\ used' = used /\ UNCHANGED receipt
    BY <1>5 DEF ReceiptRequest, StartAdd, StartChange, StartRemove, Begins, Idle, At, Ahead,
                receipts
  <2>2. PICK q : Becomes(r, q) /\ Unchanged(q) /\ Ahead(q) = 0
    <3>1. CASE StartAdd(r)
      BY <3>1, AddStarts DEF Unchanged, Ahead, SavesDocument, DropsDocument
    <3>2. CASE StartChange(r)
      BY <3>2, ChangeStarts DEF Unchanged, Ahead, SavesDocument, DropsDocument
    <3>3. CASE StartRemove(r)
      BY <3>3, RemoveStarts DEF Unchanged, Ahead, SavesDocument, DropsDocument
    <3> QED
      BY <1>5, <3>1, <3>2, <3>3 DEF ReceiptRequest
  <2> QED
    BY <1>0, <1>3, <2>1, <2>2
<1>6. CASE PutImage(r)
  <2>1. PICK q, i : /\ Becomes(r, q) /\ Keeps(q, req[r]) /\ q.pc = "addUsage"
                    /\ req[r].pc = "put" /\ UNCHANGED <<receipt, used>>
    BY <1>6, PutMoves
  <2>2. Ahead(req[r]) = 0 /\ Ahead(q) = 0
    BY <2>1 DEF Ahead
  <2>3. Unchanged(q)
    BY <1>0, <2>1 DEF Keeps, Unchanged, SavesDocument, DropsDocument
  <2> QED
    BY <1>0, <1>3, <2>1, <2>2, <2>3
<1>7. CASE AddUsage(r)
  <2>1. PICK q : /\ Becomes(r, q) /\ Keeps(q, req[r]) /\ q.new = req[r].new
                 /\ q.pc \in {"insert", "load"} /\ req[r].pc = "addUsage"
                 /\ UNCHANGED receipt
    BY <1>7, UploadMoves DEF receipts
  <2>2. Ahead(req[r]) = 0 /\ Ahead(q) = 1
    BY <1>0, <2>1 DEF Ahead, RequestHeld, ReceiptHeld
  <2>3. Unchanged(q)
    BY <1>0, <2>1 DEF Keeps, Unchanged, SavesDocument, DropsDocument, RequestHeld, ReceiptHeld
  <2>4. used' = used + 1
    BY <1>7 DEF AddUsage
  <2> QED
    BY <1>0, <1>3, <2>1, <2>2, <2>3, <2>4
<1>8. CASE InsertReceipt(r)
  <2>1. PICK c \in Receipts :
           /\ receipt[c].state = "NONE"
           /\ receipt' = [receipt EXCEPT ![c] = NewReceipt(req[r].bill, req[r].new)]
    BY <1>8 DEF InsertReceipt
  <2>2. Becomes(r, IdleRequest) /\ IdleRequest.pc = "idle" /\ used' = used
    BY <1>8, ReceiptEnds DEF IdleRequest, InsertReceipt
  <2>3. /\ Pictured(receipt[c]) = 0 /\ Ahead(IdleRequest) = 0
        /\ Pictured(NewReceipt(req[r].bill, req[r].new)) = Ahead(req[r])
    BY <1>8, <2>1, <2>2 DEF InsertReceipt, At, Pictured, Ahead, NewReceipt
  <2>4. /\ Pictured(NewReceipt(req[r].bill, req[r].new)) + Ahead(IdleRequest)
             = Pictured(receipt[c]) + Ahead(req[r])
    BY <1>1, <2>3
  <2> QED
    BY <1>4, <2>1, <2>2, <2>4
<1>9. CASE LoadReceipt(r)
  <2>1. Kept(req[r].receipt)
    BY <1>0, <1>9 DEF LoadReceipt, At, Op, Unchanged
  <2>2. PICK q : /\ Becomes(r, q) /\ UNCHANGED <<receipts, used>>
                 /\ req[r].op = "change" /\ req[r].pc = "load"
                 /\ Keeps(q, req[r]) /\ q.new = req[r].new
                 /\ q.pc = "save" /\ q.copy = receipt[req[r].receipt]
    BY <1>9, <2>1, LoadMoves
  <2>3. Ahead(q) = Ahead(req[r])
    BY <2>2 DEF Ahead
  <2>4. Unchanged(q)
    BY <1>0, <2>1, <2>2 DEF Keeps, Unchanged, SavesDocument, DropsDocument
  <2>5. used' = used /\ UNCHANGED receipt
    BY <2>2 DEF receipts
  <2> QED
    BY <1>0, <1>1, <1>3, <2>2, <2>3, <2>4, <2>5
<1>10. CASE SaveReceipt(r)
  <2>1. PICK q : Becomes(r, q) /\ Written(q, req[r])
    BY <1>10, ReceiptWritten
  <2>2. PICK c \in Receipts, row \in {NewReceipt(req[r].bill, SavedImage(r))} :
           c = req[r].receipt /\ receipt' = [receipt EXCEPT ![c] = row] /\ used' = used
    BY <1>10, SavedRow DEF SaveReceipt
  <2>3. /\ req[r].pc = "save" /\ req[r].op = "change" /\ Kept(c) /\ req[r].copy = receipt[c]
        /\ req[r].new # NoImage => req[r].old = receipt[c].image
        /\ req[r].new = NoImage => req[r].old = NoImage
    BY <1>0, <1>10, <2>2 DEF SaveReceipt, At, Op, Unchanged, RequestHeld, ReceiptHeld
  <2>4. row.state = "LIVE" /\ row.image = IF req[r].new = NoImage THEN receipt[c].image
                                                                 ELSE req[r].new
    BY <2>2, <2>3 DEF NewReceipt, SavedImage
  <2>5. q.pc = IF req[r].old = NoImage THEN "idle" ELSE "subtract"
    BY <2>1 DEF Written, Ended, IdleRequest
  <2>6. Pictured(row) + Ahead(q) = Pictured(receipt[c]) + Ahead(req[r])
    BY <2>3, <2>4, <2>5 DEF Pictured, Ahead, Kept
  <2> QED
    BY <1>4, <2>1, <2>2, <2>5, <2>6
<1>11. CASE DropReceipt(r)
  <2>1. PICK q : Becomes(r, q) /\ Written(q, req[r])
    BY <1>11, ReceiptWritten
  <2>2. PICK c \in Receipts : /\ c = req[r].receipt /\ used' = used
                              /\ receipt' = [receipt EXCEPT ![c].state = "GONE"]
    BY <1>0, <1>11 DEF DropReceipt, At, Op, RequestHeld, ReceiptHeld
  <2>3. /\ req[r].pc = "drop" /\ Kept(c) /\ req[r].old = receipt[c].image
    BY <1>0, <1>11, <2>2 DEF DropReceipt, At, Op, Unchanged
  <2> DEFINE row == [receipt[c] EXCEPT !.state = "GONE"]
  <2>4. row.state = "GONE" /\ receipt' = [receipt EXCEPT ![c] = row]
    BY <1>0, <2>2 DEF ReceiptRow
  <2> HIDE DEF row
  <2>5. q.pc = IF req[r].old = NoImage THEN "idle" ELSE "subtract"
    BY <2>1 DEF Written, Ended, IdleRequest
  <2>6. Pictured(row) + Ahead(q) = Pictured(receipt[c]) + Ahead(req[r])
    BY <2>3, <2>4, <2>5 DEF Pictured, Ahead, Kept
  <2> QED
    BY <1>4, <2>1, <2>2, <2>4, <2>5, <2>6
<1>12. CASE Subtract(r)
  <2>1. PICK q : /\ Becomes(r, q) /\ q.pc = "unlink" /\ req[r].pc = "subtract"
                 /\ used' = UsedLess(1) /\ UNCHANGED receipt
    BY <1>12, SubtractMoves DEF receipts
  <2>2. Ahead(req[r]) = 1 /\ Ahead(q) = 0
    BY <2>1 DEF Ahead
  <2>3. Unchanged(q)
    BY <2>1 DEF Unchanged, SavesDocument, DropsDocument
  <2>4. used' \in Nat /\ used' + 1 = used
    BY <1>0, <2>1, <2>2 DEF UsedLess
  <2> QED
    BY <1>0, <1>3, <2>1, <2>2, <2>3, <2>4
<1>13. CASE DeleteImage(r)
  <2>1. Becomes(r, IdleRequest) /\ UNCHANGED <<receipt, used>> /\ req[r].pc = "unlink"
    BY <1>13, ReceiptEnds DEF DeleteImage, At
  <2>2. Ahead(req[r]) = 0 /\ Ahead(IdleRequest) = 0 /\ Unchanged(IdleRequest)
    BY <2>1 DEF Ahead, IdleRequest, Unchanged, SavesDocument, DropsDocument
  <2> QED
    BY <1>0, <1>3, <2>1, <2>2
<1> QED
  BY <1>1, <1>5, <1>6, <1>7, <1>8, <1>9, <1>10, <1>11, <1>12, <1>13 DEF ReceiptStep

LEMMA FaultsGrow ==
    ASSUME TypeInv, [Next]_vars
    PROVE  faults' >= faults
<1>0. faults \in Nat
  BY DEF TypeInv, TablesOK
<1>1. ASSUME NEW r \in Requests, ReceiptRequest(r)
      PROVE  faults' = faults
  BY <1>1 DEF ReceiptRequest, StartAdd, StartChange, StartRemove
<1>2. ASSUME NEW r \in Requests, ReceiptStep(r)
      PROVE  faults' \in {faults, faults + 1}
  BY Zenon, <1>2 DEF ReceiptStep, PutImage, AddUsage, AddUsageFails, InsertReceipt,
     LoadReceipt, SaveReceipt, DropReceipt, Subtract, DeleteImage, DeleteImageFails
<1>3. ASSUME NEW r \in Requests, Saves(r)
      PROVE  faults' = faults
  BY <1>3 DEF Saves, CreateDocument, InsertFile, Unlock, SaveDocument, DropDocument,
              FindOrCreateTag, AddTag, RemoveTag
<1> QED
  BY <1>0, <1>1, <1>2, <1>3, UsageElsewhere

LEMMA InitAlone ==
    ASSUME Init
    PROVE  AloneInv
<1>1. TypeInv
  BY InitTyped
<1>2. /\ receipt \in scenario.given /\ scenario \in Scenarios
      /\ uploaded = {receipt[c].image : c \in Receipts} \ {NoImage}
      /\ used = 1 + Cardinality(uploaded) /\ req = [r \in Requests |-> IdleRequest]
  BY DEF Init
<1>3. \A r \in Requests : /\ req[r].pc = "idle" /\ Unchanged(req[r]) /\ Ahead(req[r]) = 0
  BY <1>2 DEF IdleRequest, Unchanged, Ahead, SavesDocument, DropsDocument
<1>4. DocumentBytes = 1
  <2>1. PICK first \in Docs, locked \in BOOLEAN :
           doc = [d \in Docs |-> IF d = first THEN [NewDoc(1) EXCEPT !.locked = locked]
                                              ELSE NoDocRow]
    BY DEF Init
  <2>2. [NewDoc(1) EXCEPT !.locked = locked].state = "LIVE"
        /\ [NewDoc(1) EXCEPT !.locked = locked].bytes = 1 /\ NoDocRow.state = "NONE"
    BY DEF NewDoc, NoDocRow
  <2>3. DocumentsCounted = {first}
    BY <2>1, <2>2 DEF DocumentsCounted, Exists
  <2> QED
    BY <1>1, <2>3, CountsAreFinite, FS_Singleton
<1>5. Cardinality(WithImage) = Cardinality(uploaded)
  <2>1. GivenReceipts(receipt)
    BY <1>2, LibraryAssumption
  <2>2. IsFiniteSet(WithImage)
    <3>1. WithImage \subseteq Receipts
      BY DEF WithImage, KeptReceipts
    <3> QED
      BY <3>1, LibraryAssumption, FS_Subset
  <2>3. PICK f : f = [c \in WithImage |-> receipt[c].image]
    OBVIOUS
  <2>4. f \in Bijection(WithImage, uploaded)
    <3>1. \A c \in WithImage : f[c] \in uploaded
      BY <1>2, <2>3 DEF WithImage, KeptReceipts
    <3>2. \A c, e \in WithImage : f[c] = f[e] => c = e
      BY <2>1, <2>3 DEF WithImage, KeptReceipts, GivenReceipts
    <3>3. \A i \in uploaded : \E c \in WithImage : f[c] = i
      BY <1>2, <2>1, <2>3 DEF WithImage, KeptReceipts, Kept, GivenReceipts
    <3>4. f \in [WithImage -> uploaded]
      BY <2>3, <3>1
    <3> QED
      BY <3>2, <3>3, <3>4 DEF Bijection, Injection, Surjection, IsInjective
  <2> QED
    BY <2>2, <2>4, FS_Bijection DEF ExistsBijection
<1>6. Cardinality(WithImage) \in Nat
  BY <1>1, PicturesCount
<1> QED
  BY <1>2, <1>3, <1>4, <1>5, <1>6 DEF AloneInv, Accounted, Idle, At

LEMMA NextKeepsAlone ==
    ASSUME TypeInv, TypeInv', AloneInv, [Next]_vars
    PROVE  AloneInv'
<1>1. \A r \in Requests : Occupied(r)'
  BY SlotsStayOccupied DEF AloneInv, Occupied
<1>2. ASSUME NEW r \in Requests, Lone(r)'
      PROVE  Accounted(r)'
  <2>1. Lone(r)
    <3>1. faults \in Nat /\ faults' = 0 /\ faults' >= faults
      BY <1>2, FaultsGrow DEF Lone, TypeInv, TablesOK
    <3> QED
      BY <1>2, <3>1, ScenarioStays DEF Lone
  <2>2. CASE \E s \in Requests : DocumentAction(s) \/ ReceiptRequest(s) \/ ReceiptStep(s)
    BY <1>2, <2>1, <2>2, AloneActs, DocumentsAccounted, ReceiptsAccounted
  <2>3. CASE UNCHANGED <<req, doc, receipt, used>>
    <3>1. /\ DocumentBytes' = DocumentBytes /\ Cardinality(WithImage') = Cardinality(WithImage)
      BY <2>3, CountsStay
    <3>2. Unchanged(req[r])'
      BY <2>1, <2>3 DEF AloneInv, Accounted, Unchanged, SavesDocument, DropsDocument, Exists,
                        Kept
    <3>3. used' = DocumentBytes' + Cardinality(WithImage') + Ahead(req[r])'
      BY <2>1, <2>3, <3>1 DEF AloneInv, Accounted, Ahead
    <3> QED
      BY <3>2, <3>3 DEF Accounted
  <2> QED
    BY <2>2, <2>3, SlotsStep
<1> QED
  BY <1>1, <1>2 DEF AloneInv, Occupied

LEMMA UsageFollows ==
    ASSUME TypeInv, UsageInv, AloneInv
    PROVE  UsageAccounts
<1>1. used <= Cardinality(s3) + DocumentBytes + faults
  <2>1. Cardinality(Counted) <= Cardinality(s3) /\ Cardinality(s3) \in Nat
    <3>1. s3 \subseteq Images /\ Counted \subseteq s3
      BY DEF TypeInv, TablesOK, Counted
    <3>2. IsFiniteSet(s3)
      BY <3>1, LibraryAssumption, FS_Subset
    <3> QED
      BY <3>1, <3>2, FS_Subset, FS_CardinalityType
  <2>2. /\ Cardinality(Counted) \in Nat /\ DocumentBytes \in Nat
        /\ used \in Nat /\ faults \in Nat
        /\ used <= Cardinality(Counted) + DocumentBytes + faults
    BY CountsAreFinite DEF TypeInv, TablesOK, UsageInv
  <2> QED
    BY <2>1, <2>2
<1>2. ASSUME Alone, Quiet, faults = 0, "create" \notin scenario.ops
      PROVE  used = DocumentBytes
                       + Cardinality({c \in KeptReceipts : receipt[c].image # NoImage})
  <2>1. scenario.slots \subseteq Requests /\ IsFiniteSet(scenario.slots)
    <3>1. scenario.slots \subseteq Requests
      BY LibraryAssumption DEF TypeInv, TablesOK
    <3> QED
      BY <3>1, LibraryAssumption, FS_Subset
  <2>2. PICK r : scenario.slots = {r}
    BY <1>2, <2>1, FS_Singleton DEF Alone
  <2>3. r \in Requests /\ Lone(r)
    BY <1>2, <2>1, <2>2 DEF Lone
  <2>4. Ahead(req[r]) = 0
    BY <1>2, <2>3 DEF Quiet, Idle, At, Ahead
  <2>5. used = DocumentBytes + Cardinality(WithImage)
    BY <2>3, <2>4, PicturesCount DEF AloneInv, Accounted
  <2> QED
    BY <2>5 DEF WithImage
<1> QED
  BY <1>1, <1>2 DEF UsageAccounts

(* The usage of a user is never above what is stored for him but for       *)
(* subtractions that failed, however his uploads, edits, removals and      *)
(* deletions overlap (the usage is added after an image is stored and      *)
(* subtracted before it is deleted), and is what his documents and         *)
(* receipts add up to when his requests come one at a time and none fails. *)
THEOREM UsageIsAccounted == Spec => []UsageAccounts
<1>1. Init => TypeInv /\ ImageInv /\ UsageInv /\ AloneInv
  BY InitTyped, InitImages, InitUsage, InitAlone
<1>2. TypeInv /\ ImageInv /\ UsageInv /\ AloneInv /\ [Next]_vars
         => (TypeInv /\ ImageInv /\ UsageInv /\ AloneInv)'
  BY NextTyped, NextKeepsImages, NextKeepsUsage, NextKeepsAlone
<1>3. TypeInv /\ UsageInv /\ AloneInv => UsageAccounts
  BY UsageFollows
<1> QED
  BY <1>1, <1>2, <1>3, PTL DEF Spec

-----------------------------------------------------------------------------
(* Recommendations *)

(* The record of a thread after a step of it, and that of the others.      *)
LEMMA ThreadChanges ==
    ASSUME JobInv, NEW t \in Threads, NEW p, thread' = [thread EXCEPT ![t] = p],
           DOMAIN p = DOMAIN IdleThread
    PROVE  /\ DOMAIN thread' = Threads /\ thread'[t] = p
           /\ \A u \in Threads \ {t} : thread'[u] = thread[u]
           /\ \A u \in Threads : DOMAIN thread'[u] = DOMAIN IdleThread
BY DEF JobInv

LEMMA PopKeepsJobs ==
    ASSUME TypeInv, JobInv, NEW t \in Threads, Pop(t)
    PROVE  JobInv'
<1>1. jobsDone \in Nat /\ jobsDone' = jobsDone + 1 /\ t \in scenario.threads
      /\ reco' = reco /\ scenario' = scenario
  BY DEF Pop, TypeInv, TablesOK
<1>2. PICK p : p = [IdleThread EXCEPT !.pc = "totals", !.job = jobsDone + 1]
  OBVIOUS
<1>3. /\ DOMAIN p = DOMAIN IdleThread /\ p.pc = "totals" /\ p.job = jobsDone + 1
  BY <1>2 DEF IdleThread
<1>4. /\ DOMAIN thread' = Threads /\ thread'[t] = p
      /\ \A u \in Threads \ {t} : thread'[u] = thread[u]
      /\ \A u \in Threads : DOMAIN thread'[u] = DOMAIN IdleThread
  <2>1. thread' = [thread EXCEPT ![t] = p]
    BY <1>2 DEF Pop
  <2> QED
    BY <1>3, <2>1, ThreadChanges
<1>5. PICK author \in [1..jobsDone -> scenario.threads] : Authored(author)
  BY DEF JobInv
<1>6. PICK newer : newer = [j \in 1..(jobsDone + 1) |-> IF j = jobsDone + 1 THEN t
                                                                          ELSE author[j]]
  OBVIOUS
<1>7. /\ newer \in [1..jobsDone' -> scenario'.threads] /\ newer[jobsDone + 1] = t
      /\ \A j \in 1..jobsDone : newer[j] = author[j] /\ j \in 1..jobsDone'
  BY <1>1, <1>5, <1>6
<1>8. \A x \in reco : x.job \in 1..jobsDone
  BY DEF JobInv
<1>9. \A x, y \in reco' : newer[x.job] = newer[y.job] => x.job = y.job
  BY <1>1, <1>5, <1>7, <1>8 DEF Authored
<1>10. ASSUME NEW u \in Threads
       PROVE  /\ thread'[u].pc # "idle" =>
                   thread'[u].job \in 1..jobsDone' /\ newer[thread'[u].job] = u
              /\ thread'[u].pc = "insert" =>
                   \A x \in reco' : newer[x.job] = u => x \in thread'[u].old
  <2>1. CASE u = t
    BY <1>1, <1>3, <1>4, <1>7, <2>1
  <2>2. CASE u # t
    BY <1>1, <1>4, <1>5, <1>7, <1>8, <2>2 DEF Authored, AtThread
  <2> QED
    BY <2>1, <2>2
<1>11. Authored(newer)'
  BY <1>9, <1>10 DEF Authored, AtThread
<1>12. \A x \in reco' : x.job \in 1..jobsDone'
  BY <1>1, <1>7, <1>8
<1> QED
  BY <1>4, <1>7, <1>11, <1>12 DEF JobInv

(* A step that adds no rows, and moves a thread on with its job.           *)
LEMMA MovesKeepJobs ==
    ASSUME TypeInv, JobInv, NEW t \in Threads, NEW p, thread' = [thread EXCEPT ![t] = p],
           UNCHANGED <<reco, jobsDone, scenario>>,
           DOMAIN p = DOMAIN IdleThread,
           p.pc # "idle" => ~AtThread(t, "idle") /\ p.job = thread[t].job,
           p.pc = "insert" => reco \subseteq p.old
    PROVE  JobInv'
<1>1. /\ DOMAIN thread' = Threads /\ thread'[t] = p
      /\ \A u \in Threads \ {t} : thread'[u] = thread[u]
      /\ \A u \in Threads : DOMAIN thread'[u] = DOMAIN IdleThread
  BY ThreadChanges
<1>2. PICK author \in [1..jobsDone -> scenario.threads] : Authored(author)
  BY DEF JobInv
<1>3. ASSUME NEW u \in Threads
      PROVE  /\ thread'[u].pc # "idle" =>
                  thread'[u].job \in 1..jobsDone /\ author[thread'[u].job] = u
             /\ thread'[u].pc = "insert" =>
                  \A x \in reco : author[x.job] = u => x \in thread'[u].old
  <2>1. CASE u = t
    BY <1>1, <1>2, <2>1 DEF Authored
  <2>2. CASE u # t
    BY <1>1, <1>2, <2>2 DEF Authored, AtThread
  <2> QED
    BY <2>1, <2>2
<1>4. Authored(author)'
  BY <1>2, <1>3 DEF Authored, AtThread
<1>5. \A x \in reco : x.job \in 1..jobsDone
  BY DEF JobInv
<1> QED
  BY <1>1, <1>2, <1>4, <1>5 DEF JobInv

(* The rows of the thread's earlier job are among those it deletes.        *)
LEMMA CommitKeepsJobs ==
    ASSUME TypeInv, JobInv, NEW t \in Threads, CommitRows(t)
    PROVE  JobInv'
<1>1. /\ reco' = KeptRows(t) \cup NewRows(t) /\ UNCHANGED <<jobsDone, scenario>>
      /\ thread' = [thread EXCEPT ![t] = IdleThread] /\ AtThread(t, "insert")
  BY DEF CommitRows
<1>2. IdleThread.pc = "idle"
  BY DEF IdleThread
<1>3. /\ DOMAIN thread' = Threads /\ thread'[t] = IdleThread
      /\ \A u \in Threads \ {t} : thread'[u] = thread[u]
      /\ \A u \in Threads : DOMAIN thread'[u] = DOMAIN IdleThread
  BY <1>1, ThreadChanges
<1>4. PICK author \in [1..jobsDone -> scenario.threads] : Authored(author)
  BY DEF JobInv
<1>5. PICK job : job = thread[t].job
  OBVIOUS
<1>6. job \in 1..jobsDone /\ author[job] = t
  BY <1>1, <1>4, <1>5 DEF Authored, AtThread
<1>7. \A x \in reco' : x.job = job \/ (x \in reco /\ author[x.job] # t)
  <2>1. \A x \in NewRows(t) : x.job = job
    BY <1>5 DEF NewRows
  <2>2. \A x \in KeptRows(t) : x \in reco /\ author[x.job] # t
    BY <1>1, <1>4 DEF KeptRows, Authored
  <2> QED
    BY <1>1, <2>1, <2>2
<1>8. \A x, y \in reco' : author[x.job] = author[y.job] => x.job = y.job
  BY <1>4, <1>6, <1>7 DEF Authored
<1>9. ASSUME NEW u \in Threads
      PROVE  /\ thread'[u].pc # "idle" =>
                  thread'[u].job \in 1..jobsDone /\ author[thread'[u].job] = u
             /\ thread'[u].pc = "insert" =>
                  \A x \in reco' : author[x.job] = u => x \in thread'[u].old
  <2>1. CASE u = t
    BY <1>2, <1>3, <2>1
  <2>2. CASE u # t
    BY <1>3, <1>4, <1>6, <1>7, <2>2 DEF Authored, AtThread
  <2> QED
    BY <2>1, <2>2
<1>10. Authored(author)'
  BY <1>1, <1>8, <1>9 DEF Authored, AtThread
<1>11. \A x \in reco' : x.job \in 1..jobsDone
  BY <1>6, <1>7 DEF JobInv
<1> QED
  BY <1>1, <1>3, <1>4, <1>10, <1>11 DEF JobInv

LEMMA ThreadsKeepJobs ==
    ASSUME TypeInv, JobInv, NEW t \in Threads, ThreadStep(t) \/ JobFails(t)
    PROVE  JobInv'
<1>1. /\ DOMAIN thread = Threads
      /\ DOMAIN thread[t] = {"pc", "job", "seen", "totals", "top", "old"}
      /\ DOMAIN IdleThread = {"pc", "job", "seen", "totals", "top", "old"}
  BY DEF JobInv, IdleThread
<1>2. CASE ReadTotals(t)
  <2>1. PICK p : p = [thread[t] EXCEPT !.pc = "rank", !.totals = Totals, !.seen = writes]
    OBVIOUS
  <2>2. thread' = [thread EXCEPT ![t] = p]
    BY <1>1, <1>2, <2>1 DEF ReadTotals
  <2>3. DOMAIN p = DOMAIN IdleThread /\ p.pc = "rank" /\ p.job = thread[t].job
    BY <1>1, <2>1
  <2>4. ~AtThread(t, "idle") /\ UNCHANGED <<reco, jobsDone, scenario>>
    BY <1>2 DEF ReadTotals, AtThread
  <2> QED
    BY <2>2, <2>3, <2>4, MovesKeepJobs
<1>3. CASE Rank(t)
  <2>1. PICK p : p = [thread[t] EXCEPT !.pc = "delete", !.top = Top(thread[t].totals)]
    OBVIOUS
  <2>2. thread' = [thread EXCEPT ![t] = p]
    BY <1>1, <1>3, <2>1 DEF Rank
  <2>3. DOMAIN p = DOMAIN IdleThread /\ p.pc = "delete" /\ p.job = thread[t].job
    BY <1>1, <2>1
  <2>4. ~AtThread(t, "idle") /\ UNCHANGED <<reco, jobsDone, scenario>>
    BY <1>3 DEF Rank, AtThread
  <2> QED
    BY <2>2, <2>3, <2>4, MovesKeepJobs
<1>4. CASE DeleteRows(t)
  <2>1. PICK p : p = [thread[t] EXCEPT !.pc = "insert", !.old = reco]
    OBVIOUS
  <2>2. thread' = [thread EXCEPT ![t] = p]
    BY <1>1, <1>4, <2>1 DEF DeleteRows
  <2>3. DOMAIN p = DOMAIN IdleThread /\ p.old = reco /\ p.job = thread[t].job
    BY <1>1, <2>1
  <2>4. ~AtThread(t, "idle") /\ UNCHANGED <<reco, jobsDone, scenario>>
    BY <1>4 DEF DeleteRows, AtThread
  <2> QED
    BY <2>2, <2>3, <2>4, MovesKeepJobs
<1>5. CASE JobFails(t)
  <2>1. IdleThread.pc = "idle"
    BY DEF IdleThread
  <2>2. thread' = [thread EXCEPT ![t] = IdleThread] /\ UNCHANGED <<reco, jobsDone, scenario>>
    BY <1>5 DEF JobFails
  <2> QED
    BY <2>1, <2>2, MovesKeepJobs
<1> QED
  BY <1>2, <1>3, <1>4, <1>5, PopKeepsJobs, CommitKeepsJobs DEF ThreadStep

LEMMA NextKeepsJobs ==
    ASSUME TypeInv, JobInv, [Next]_vars
    PROVE  JobInv'
<1>1. CASE \E t \in Threads : ThreadStep(t) \/ JobFails(t)
  BY <1>1, ThreadsKeepJobs
<1>2. CASE UNCHANGED <<reco, thread, jobsDone>>
  <2>1. scenario' = scenario
    BY ScenarioStays
  <2>2. PICK author \in [1..jobsDone -> scenario.threads] : Authored(author)
    BY DEF JobInv
  <2>3. Authored(author)'
    BY <1>2, <2>2 DEF Authored, AtThread
  <2> QED
    BY <1>2, <2>1, <2>2, <2>3 DEF JobInv
<1>3. ~(\E t \in Threads : ThreadStep(t) \/ JobFails(t)) => UNCHANGED <<reco, thread, jobsDone>>
  <2>1. ASSUME NEW r \in Requests, DocumentRequest(r)
        PROVE  UNCHANGED cards
    BY <2>1 DEF DocumentRequest, CreateDocument, GetDocuments, GetDocument, Download,
                StartLock, StartEdit, StartDelete, StartTag
  <2>2. ASSUME NEW r \in Requests, DocumentStep(r)
        PROVE  UNCHANGED cards
    BY <2>2 DEF DocumentStep, InsertFile, WriteActivity, ForeignKeyFails, PinIsWrong,
                PinIsRight, Unlock, LoadForLock, SaveDocument, DropDocument, FindOrCreateTag,
                CheckTag, AddTag, RemoveTag
  <2>3. ASSUME NEW r \in Requests, ReceiptRequest(r)
        PROVE  UNCHANGED cards
    BY <2>3 DEF ReceiptRequest, StartAdd, StartChange, StartRemove
  <2>4. ASSUME NEW r \in Requests, ReceiptStep(r)
        PROVE  UNCHANGED cards
    BY <2>4 DEF ReceiptStep, PutImage, AddUsage, AddUsageFails, InsertReceipt, LoadReceipt,
                SaveReceipt, DropReceipt, Subtract, DeleteImage, DeleteImageFails
  <2>5. ASSUME NEW r \in Requests, StartRequestAi(r) \/ Abort(r)
        PROVE  UNCHANGED cards
    BY <2>5 DEF StartRequestAi, Abort
  <2>6. ASSUME NEW r \in Requests, PushJob(r)
        PROVE  UNCHANGED <<reco, thread, jobsDone>>
    BY <2>6 DEF PushJob
  <2>7. ASSUME NEW d \in Docs, ExpireToken(d)
        PROVE  UNCHANGED cards
    BY <2>7 DEF ExpireToken
  <2>8. UNCHANGED cards => UNCHANGED <<reco, thread, jobsDone>>
    BY DEF cards
  <2>9. UNCHANGED vars => UNCHANGED <<reco, thread, jobsDone>>
    BY DEF vars, cards
  <2>10. CASE Next
    BY Zenon, <2>1, <2>2, <2>3, <2>4, <2>5, <2>6, <2>7, <2>8, <2>10 DEF Next
  <2> QED
    BY <2>9, <2>10
<1> QED
  BY <1>1, <1>2, <1>3

LEMMA InitJobs ==
    ASSUME Init
    PROVE  JobInv
<1>1. reco = {} /\ jobsDone = 0 /\ thread = [t \in Threads |-> IdleThread]
  BY DEF Init
<1>2. IdleThread.pc = "idle"
  BY DEF IdleThread
<1>3. \E author : author \in [1..jobsDone -> scenario.threads]
  <2>1. 1..jobsDone = {}
    BY <1>1
  <2>2. [j \in 1..jobsDone |-> j] \in [1..jobsDone -> scenario.threads]
    BY <2>1
  <2> QED
    BY <2>2
<1> QED
  BY <1>1, <1>2, <1>3 DEF JobInv, Authored, AtThread

LEMMA JobsAreBounded ==
    ASSUME TypeInv, JobInv
    PROVE  JobsBounded
<1>1. PICK author \in [1..jobsDone -> scenario.threads] : Authored(author)
  BY DEF JobInv
<1>2. IsFiniteSet(scenario.threads)
  <2>1. scenario.threads \subseteq Threads
    BY LibraryAssumption DEF TypeInv, TablesOK
  <2> QED
    BY <2>1, LibraryAssumption, FS_Subset
<1>3. PICK jobs : jobs = {x.job : x \in reco}
  OBVIOUS
<1>4. \A j \in jobs : j \in 1..jobsDone
  BY <1>3 DEF JobInv
<1>5. PICK f : f = [j \in jobs |-> author[j]]
  OBVIOUS
<1>6. f \in [jobs -> scenario.threads]
  BY <1>1, <1>4, <1>5
<1>7. \A i, j \in jobs : f[i] = f[j] => i = j
  BY <1>1, <1>3, <1>5 DEF Authored
<1>8. f \in Injection(jobs, scenario.threads)
  BY <1>6, <1>7 DEF Injection, IsInjective
<1>9. Cardinality(jobs) <= Cardinality(scenario.threads)
  BY <1>2, <1>8, FS_Injection
<1> QED
  BY <1>3, <1>9 DEF JobsBounded

(* The rows of card_recommendations are never of more jobs than the worker *)
(* has threads: a job deletes the rows it can see before it inserts its    *)
(* own (replace_recommendations), and what it cannot see another thread is *)
(* about to commit.                                                        *)
THEOREM FewJobsHaveRows == Spec => []JobsBounded
<1>1. Init => TypeInv /\ JobInv
  BY InitTyped, InitJobs
<1>2. TypeInv /\ JobInv /\ [Next]_vars => (TypeInv /\ JobInv)'
  BY NextTyped, NextKeepsJobs
<1>3. TypeInv /\ JobInv => JobsBounded
  BY JobsAreBounded
<1> QED
  BY <1>1, <1>2, <1>3, PTL DEF Spec

=============================================================================
