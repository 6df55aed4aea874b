---------------------------- MODULE AlertProofs -----------------------------
(***************************************************************************)
(* The safety properties of Alerts, for any number of runs, requests,      *)
(* alerts and days.  AlertInv adds to the first three what each job knows  *)
(* about the row that it holds a copy of: that the row exists, belongs to  *)
(* the same document and, unless an update was not alone, has the date of  *)
(* the copy.  The last two bound what overlapping jobs do by what they     *)
(* have done and what they are still about to do.                          *)
(***************************************************************************)
EXTENDS Alerts, FiniteSetTheorems, TLAPS

-----------------------------------------------------------------------------
(* The inductive invariant *)

(* A job j that works on a copy of alert a, in a dispatch or in an update. *)
Carries(j, a) ==
    j.pc \in {"settings", "feed", "push", "mail", "mark"} /\ (a \in j.left \/ j.id = a)
Updating(j) == j.pc \in {"load", "save"}
Uses(j, a) == Carries(j, a) \/ (Updating(j) /\ j.id = a)

CreateOK(j) ==
    /\ j.pc \in {"insert", "activity"} => j.doc \in Docs
    /\ j.pc = "insert" => j.row.doc = j.doc /\ j.row.state = "LIVE" /\ ~j.row.sent

(* The alerts al, what was announced sd and the raced alerts rc are        *)
(* parameters, so that facts about a step can be stated of two states.     *)
UpdateOK(j, al, sd, rc) ==
    /\ Updating(j) =>
         /\ j.op = "update" /\ j.id \in AlertId /\ j.doc \in Docs
         /\ al[j.id].state # "NONE" /\ al[j.id].doc = j.doc
         /\ j.id \notin rc => j.moved \/ j.patch.date \in {NoDate, al[j.id].date}
    /\ j.pc = "save" =>
         /\ j.row.doc = j.doc /\ j.row.state = "LIVE"
         /\ j.id \notin rc => /\ j.row.date = al[j.id].date
                              /\ j.row.sent => j.row.date \in sd[j.id]

DispatchOK(j, al, sd, rc) ==
    /\ \A a \in AlertId : Carries(j, a) =>
         al[a].state # "NONE" /\ (a \notin rc => al[a].date = j.copy[a].date)
    /\ j.pc \in {"push", "mail", "mark"} =>
         j.id \in AlertId /\ j.id \notin j.left /\ j.copy[j.id].date \in sd[j.id]

JobOK(j, al, sd, rc) == CreateOK(j) /\ UpdateOK(j, al, sd, rc) /\ DispatchOK(j, al, sd, rc)

HasDocument == \A a \in AlertId : Live(a) => alert[a].doc \in Docs /\ doc[alert[a].doc]

AlertInv ==
    /\ TypeOK /\ HasDocument /\ SentWasAnnounced
    /\ \A s \in Slots : JobOK(job[s], alert, said, raced)

-----------------------------------------------------------------------------
(* Facts about jobs *)

LEMMA NoIdIsNoAlert == NoId \notin AlertId /\ AlertId \subseteq Nat
BY AlertAssumption DEF NoId, AlertId

LEMMA NoAlertTyped == NoAlert \in AlertRow /\ NoCopies \in [AlertId -> AlertRow]
<1>1. 0 \in Day
  BY AlertAssumption DEF Day
<1> QED
  BY <1>1 DEF NoAlert, AlertRow, NoCopies

LEMMA IdleJobOK ==
    ASSUME NEW al, NEW sd, NEW rc
    PROVE  IdleJob \in Job /\ JobOK(IdleJob, al, sd, rc)
<1>1. NoPatch \in Patch
  BY DEF NoPatch, Patch
<1>2. IdleJob \in Job
  BY <1>1, NoAlertTyped DEF IdleJob, Job, JobPc
<1>3. JobOK(IdleJob, al, sd, rc)
  BY DEF IdleJob, JobOK, CreateOK, UpdateOK, DispatchOK, Carries, Updating
<1> QED
  BY <1>2, <1>3

(* A job does not notice changes of rows that leave alone what it knows    *)
(* about its own.                                                          *)
LEMMA Undisturbed ==
    ASSUME NEW j, NEW al, NEW al2, NEW sd, NEW sd2, NEW rc, NEW rc2,
           JobOK(j, al, sd, rc),
           \A a \in AlertId : sd[a] \subseteq sd2[a],
           rc \subseteq rc2,
           \A a \in AlertId : al[a].state # "NONE" =>
               /\ al2[a].state # "NONE" /\ al2[a].doc = al[a].doc
               /\ Uses(j, a) /\ a \notin rc2 => al2[a].date = al[a].date
    PROVE  JobOK(j, al2, sd2, rc2)
<1>1. CreateOK(j)
  BY DEF JobOK
<1>2. UpdateOK(j, al2, sd2, rc2)
  BY DEF JobOK, UpdateOK, Updating, Uses
<1>3. DispatchOK(j, al2, sd2, rc2)
  BY DEF JobOK, DispatchOK, Uses
<1> QED
  BY <1>1, <1>2, <1>3 DEF JobOK

(* A step that changes one job, the day or a counter only.                 *)
LEMMA JobStep ==
    ASSUME AlertInv, NEW s \in Slots, NEW j \in Job, JobOK(j, alert, said, raced),
           job' = [job EXCEPT ![s] = j], UNCHANGED <<tables, history, fixed>>,
           today' \in Day, asked' \in Nat, faults' \in Nat
    PROVE  AlertInv'
<1> USE DEF AlertInv, tables, history, fixed
<1>1. TypeOK'
  BY DEF TypeOK
<1>2. HasDocument' /\ SentWasAnnounced'
  BY DEF HasDocument, SentWasAnnounced, Live
<1>3. \A t \in Slots : JobOK(job[t], alert, said, raced)'
  BY DEF TypeOK
<1> QED
  BY <1>1, <1>2, <1>3

(* A job that ends.                                                        *)
LEMMA JobEnds ==
    ASSUME AlertInv, NEW s \in Slots, job' = Finished(s),
           UNCHANGED <<tables, history, fixed>>,
           today' \in Day, asked' \in Nat, faults' \in Nat
    PROVE  AlertInv'
BY JobStep, IdleJobOK DEF Finished

-----------------------------------------------------------------------------
(* The beginning *)

LEMMA AlertsBegin == Init => AlertInv
<1> SUFFICES ASSUME Init PROVE AlertInv
  OBVIOUS
<1> USE AlertAssumption
<1>1. PICK row \in Given \cup {NoAlert} :
        /\ alert = [NoCopies EXCEPT ![1] = row]
        /\ armed = [a \in AlertId |-> IF alert[a] = NoAlert THEN 0 ELSE 1]
  BY DEF Init
<1>2. 1 \in AlertId /\ 0 \in Day
  BY DEF AlertId, Day
<1>3. /\ row \in AlertRow /\ ~row.sent
      /\ row.state = "LIVE" => row.doc \in Docs
  <2>1. CASE row = NoAlert
    BY <2>1, NoAlertTyped DEF NoAlert
  <2>2. CASE row \in Given
    <3>1. PICK d \in Docs, o \in Offsets, date \in Day, chans \in ChannelSets :
            row = NewAlert(d, o, date, chans)
      BY <2>2
    <3> QED
      BY <3>1 DEF NewAlert, AlertRow
  <2> QED
    BY <2>1, <2>2
<1>4. alert \in [AlertId -> AlertRow]
  BY <1>1, <1>3, NoAlertTyped
<1>5. \A a \in AlertId : ~alert[a].sent /\ (Live(a) => alert[a].doc \in Docs)
  BY <1>1, <1>2, <1>3 DEF Live, NoCopies, NoAlert
<1>6. TypeOK
  <2>1. armed \in [AlertId -> Nat]
    BY <1>1
  <2>2. job \in [Slots -> Job]
    BY IdleJobOK DEF Init
  <2>3. count \in [AlertId -> 0..MaxCount]
    BY DEF Init
  <2> QED
    BY <1>2, <1>4, <2>1, <2>2, <2>3 DEF Init, TypeOK
<1>7. HasDocument /\ SentWasAnnounced
  BY <1>5 DEF HasDocument, SentWasAnnounced, Init
<1>8. \A s \in Slots : JobOK(job[s], alert, said, raced)
  BY IdleJobOK DEF Init
<1> QED
  BY <1>6, <1>7, <1>8 DEF AlertInv

-----------------------------------------------------------------------------
(* Requests *)

LEMMA CreateStarts ==
    ASSUME AlertInv, NEW r \in Requests, NEW d \in Docs, NEW o \in Offsets,
           NEW date \in Day, NEW chans \in ChannelSets, StartCreate(r, d, o, date, chans)
    PROVE  AlertInv'
<1> DEFINE row == NewAlert(d, o, date, chans)
           j == [IdleJob EXCEPT !.op = "create", !.pc = "insert", !.doc = d, !.row = row]
<1>1. row \in AlertRow /\ row.doc = d /\ row.state = "LIVE" /\ ~row.sent
  BY AlertAssumption DEF NewAlert, AlertRow
<1> HIDE DEF row
<1>2. j \in Job
  BY <1>1, IdleJobOK DEF Job, AllOps, JobPc
<1>3. j.pc = "insert" /\ j.doc = d /\ j.row = row
  BY DEF IdleJob
<1>4. JobOK(j, alert, said, raced)
  BY <1>1, <1>3 DEF JobOK, CreateOK, UpdateOK, DispatchOK, Carries, Updating
<1>5. /\ job' = [job EXCEPT ![r] = j] /\ UNCHANGED <<today, tables, history, faults, fixed>>
      /\ asked' = asked + 1
  BY DEF StartCreate, Begin, row
<1>6. r \in Slots /\ today' \in Day /\ asked' \in Nat /\ faults' \in Nat
  BY <1>5 DEF Slots, AlertInv, TypeOK
<1> HIDE DEF j
<1> QED
  BY <1>2, <1>4, <1>5, <1>6, JobStep

LEMMA UpdateStarts ==
    ASSUME AlertInv, NEW r \in Requests, NEW a \in AlertId, NEW patch \in Patch,
           StartUpdate(r, a, patch)
    PROVE  AlertInv'
<1> DEFINE moved == patch.date \notin {NoDate, alert[a].date}
           j == [IdleJob EXCEPT !.op = "update", !.pc = "load", !.id = a,
                                !.doc = alert[a].doc, !.patch = patch, !.moved = moved]
<1>1. alert[a].state = "LIVE" /\ alert[a].doc \in Docs
  BY DEF StartUpdate, Live, AlertInv, HasDocument
<1>2. moved \in BOOLEAN
  OBVIOUS
<1>3. j \in Job
  BY <1>1, <1>2, IdleJobOK DEF Job, AllOps, JobPc
<1>4. /\ j.pc = "load" /\ j.op = "update" /\ j.id = a /\ j.doc = alert[a].doc
      /\ j.patch = patch /\ j.moved = moved
  BY DEF IdleJob
<1>5. JobOK(j, alert, said, raced)
  BY <1>1, <1>4 DEF JobOK, CreateOK, UpdateOK, DispatchOK, Carries, Updating
<1>6. /\ job' = [job EXCEPT ![r] = j] /\ UNCHANGED <<today, tables, history, faults, fixed>>
      /\ asked' = asked + 1
  BY DEF StartUpdate, Begin
<1>7. r \in Slots /\ today' \in Day /\ asked' \in Nat /\ faults' \in Nat
  BY <1>6 DEF Slots, AlertInv, TypeOK
<1> HIDE DEF j
<1> QED
  BY <1>3, <1>5, <1>6, <1>7, JobStep

LEMMA DeleteStarts ==
    ASSUME AlertInv, NEW r \in Requests, NEW a \in AlertId, StartDelete(r, a)
    PROVE  AlertInv'
<1> DEFINE j == [IdleJob EXCEPT !.op = "delete", !.pc = "delete", !.id = a]
<1>1. j \in Job
  BY IdleJobOK DEF Job, AllOps, JobPc
<1>2. j.pc = "delete"
  BY DEF IdleJob
<1>3. JobOK(j, alert, said, raced)
  BY <1>2 DEF JobOK, CreateOK, UpdateOK, DispatchOK, Carries, Updating
<1>4. /\ job' = [job EXCEPT ![r] = j] /\ UNCHANGED <<today, tables, history, faults, fixed>>
      /\ asked' = asked + 1
  BY DEF StartDelete, Begin
<1>5. r \in Slots /\ today' \in Day /\ asked' \in Nat /\ faults' \in Nat
  BY <1>4 DEF Slots, AlertInv, TypeOK
<1> HIDE DEF j
<1> QED
  BY <1>1, <1>3, <1>4, <1>5, JobStep

LEMMA DeleteDocStarts ==
    ASSUME AlertInv, NEW r \in Requests, NEW d \in Docs, StartDeleteDoc(r, d)
    PROVE  AlertInv'
<1> DEFINE j == [IdleJob EXCEPT !.op = "deleteDoc", !.pc = "deleteDoc", !.doc = d]
<1>1. j \in Job
  BY IdleJobOK DEF Job, AllOps, JobPc
<1>2. j.pc = "deleteDoc"
  BY DEF IdleJob
<1>3. JobOK(j, alert, said, raced)
  BY <1>2 DEF JobOK, CreateOK, UpdateOK, DispatchOK, Carries, Updating
<1>4. /\ job' = [job EXCEPT ![r] = j] /\ UNCHANGED <<today, tables, history, faults, fixed>>
      /\ asked' = asked + 1
  BY DEF StartDeleteDoc, Begin
<1>5. r \in Slots /\ today' \in Day /\ asked' \in Nat /\ faults' \in Nat
  BY <1>4 DEF Slots, AlertInv, TypeOK
<1> HIDE DEF j
<1> QED
  BY <1>1, <1>3, <1>4, <1>5, JobStep

LEMMA InsertKeeps ==
    ASSUME AlertInv, NEW r \in Slots, Insert(r)
    PROVE  AlertInv'
<1> USE DEF AlertInv
<1>0. /\ job[r] \in Job /\ JobOK(job[r], alert, said, raced)
      /\ job[r].pc = "insert"
  BY DEF TypeOK, Insert, At
<1>1. job[r].doc \in Docs /\ job[r].row \in AlertRow
      /\ job[r].row.doc = job[r].doc /\ job[r].row.state = "LIVE" /\ ~job[r].row.sent
  BY <1>0 DEF JobOK, CreateOK, Job
<1>2. CASE ~doc[job[r].doc]
  <2>1. job' = Finished(r) /\ UNCHANGED <<today, tables, history, asked, faults, fixed>>
    BY <1>2 DEF Insert, tables, history
  <2> QED
    BY <2>1, JobEnds DEF TypeOK
<1>3. CASE doc[job[r].doc]
  <2>1. PICK a \in AlertId :
          /\ alert[a].state = "NONE"
          /\ alert' = [alert EXCEPT ![a] = job[r].row]
          /\ armed' = [armed EXCEPT ![a] = @ + 1]
          /\ job' = [job EXCEPT ![r].pc = "activity", ![r].id = a, ![r].row = NoAlert]
    BY <1>3 DEF Insert
  <2>2. UNCHANGED <<today, doc, settings, said, count, raced, asked, faults, fixed>>
    BY DEF Insert
  <2> DEFINE j == [job[r] EXCEPT !.pc = "activity", !.id = a, !.row = NoAlert]
  <2>3. j \in Job /\ j.pc = "activity" /\ j.doc = job[r].doc
    BY <1>0, NoAlertTyped DEF Job, JobPc
  <2>4. job' = [job EXCEPT ![r] = j]
    BY <2>1 DEF TypeOK
  <2>5. JobOK(j, alert', said', raced')
    BY <1>1, <2>3 DEF JobOK, CreateOK, UpdateOK, DispatchOK, Carries, Updating
  <2> HIDE DEF j
  <2>6. TypeOK'
    <3>1. alert' \in [AlertId -> AlertRow] /\ job' \in [Slots -> Job]
      BY <1>1, <2>1, <2>3, <2>4 DEF TypeOK
    <3>2. armed' \in [AlertId -> Nat]
      BY <2>1 DEF TypeOK
    <3> QED
      BY <2>2, <3>1, <3>2 DEF TypeOK, fixed
  <2>7. HasDocument' /\ SentWasAnnounced'
    BY <1>1, <1>3, <2>1, <2>2 DEF HasDocument, SentWasAnnounced, Live, TypeOK
  <2>8. ASSUME NEW t \in Slots PROVE JobOK(job'[t], alert', said', raced')
    <3>1. CASE t = r
      BY <3>1, <2>4, <2>5 DEF TypeOK
    <3>2. CASE t # r
      <4>1. job'[t] = job[t]
        BY <3>2, <2>4 DEF TypeOK
      <4>2. \A b \in AlertId : alert[b].state # "NONE" => alert'[b] = alert[b]
        BY <2>1 DEF TypeOK
      <4>3. JobOK(job[t], alert', said', raced')
        BY <4>2, <2>2, Undisturbed
      <4> QED
        BY <4>1, <4>3
    <3> QED
      BY <3>1, <3>2
  <2> QED
    BY <2>6, <2>7, <2>8
<1> QED
  BY <1>2, <1>3

LEMMA ActivityKeeps ==
    ASSUME AlertInv, NEW r \in Slots, WriteActivity(r)
    PROVE  AlertInv'
<1> DEFINE j == [job[r] EXCEPT !.pc = "find"]
<1>1. job[r] \in Job /\ today \in Day /\ asked \in Nat /\ faults \in Nat
  BY DEF AlertInv, TypeOK
<1>2. j \in Job /\ j.pc = "find"
  BY <1>1 DEF Job, JobPc
<1>3. JobOK(j, alert, said, raced)
  BY <1>2 DEF JobOK, CreateOK, UpdateOK, DispatchOK, Carries, Updating
<1>4. job' = [job EXCEPT ![r] = j] \/ job' = Finished(r)
  BY DEF WriteActivity, Moved, AlertInv, TypeOK
<1>5. UNCHANGED <<today, tables, history, asked, faults, fixed>>
  BY DEF WriteActivity
<1> HIDE DEF j
<1> QED
  BY <1>1, <1>2, <1>3, <1>4, <1>5, JobStep, JobEnds

LEMMA LoadKeeps ==
    ASSUME AlertInv, NEW r \in Slots, Load(r)
    PROVE  AlertInv'
<1> DEFINE j == [job[r] EXCEPT !.pc = "save", !.row = alert[job[r].id]]
<1>1. /\ job[r] \in Job /\ today \in Day /\ asked \in Nat /\ faults \in Nat
      /\ job[r].pc = "load" /\ UpdateOK(job[r], alert, said, raced)
      /\ UNCHANGED <<today, tables, history, asked, faults, fixed>>
  BY DEF AlertInv, TypeOK, Load, At, JobOK
<1>2. CASE ~Live(job[r].id)
  BY <1>1, <1>2, JobEnds DEF Load
<1>3. CASE Live(job[r].id)
  <2>1. job[r].id \in AlertId /\ alert[job[r].id] \in AlertRow
    BY <1>1 DEF UpdateOK, Updating, AlertInv, TypeOK
  <2>2. /\ j \in Job /\ j.pc = "save" /\ j.row = alert[job[r].id]
        /\ j.op = job[r].op /\ j.id = job[r].id /\ j.doc = job[r].doc
        /\ j.moved = job[r].moved /\ j.patch = job[r].patch
    BY <1>1, <2>1 DEF Job, JobPc
  <2>3. job' = [job EXCEPT ![r] = j]
    BY <1>3 DEF Load, AlertInv, TypeOK
  <2>4. UpdateOK(j, alert, said, raced)
    <3>1. alert[j.id].state = "LIVE"
      BY <1>3, <2>2 DEF Live
    <3>2. j.id \notin raced /\ alert[j.id].sent => alert[j.id].date \in said[j.id]
      BY <1>3, <2>1, <2>2 DEF AlertInv, SentWasAnnounced
    <3> QED
      BY <1>1, <2>2, <3>1, <3>2 DEF UpdateOK, Updating
  <2>5. JobOK(j, alert, said, raced)
    BY <2>2, <2>4 DEF JobOK, CreateOK, DispatchOK, Carries
  <2> HIDE DEF j
  <2> QED
    BY <1>1, <2>2, <2>3, <2>5, JobStep
<1> QED
  BY <1>2, <1>3

(* An update that changes a row which another job works on makes it raced, *)
(* so what the others know of the date is not needed any more.             *)
LEMMA SaveKeeps ==
    ASSUME AlertInv, NEW r \in Slots, Save(r)
    PROVE  AlertInv'
<1> USE DEF AlertInv
<1> DEFINE a == job[r].id
           row == Changed(job[r].row, job[r].patch, job[r].moved)
<1>1. /\ job[r] \in Job /\ job[r].pc = "save" /\ UpdateOK(job[r], alert, said, raced)
      /\ job[r].row \in AlertRow /\ job[r].patch \in Patch /\ job[r].moved \in BOOLEAN
  BY DEF TypeOK, Save, At, JobOK, Job
<1>2. /\ a \in AlertId /\ job[r].doc \in Docs
      /\ alert[a].state # "NONE" /\ alert[a].doc = job[r].doc
      /\ job[r].row.doc = job[r].doc /\ job[r].row.state = "LIVE"
  BY <1>1 DEF UpdateOK, Updating
<1>3. CASE ~doc[job[r].doc]
  <2>1. job' = Finished(r) /\ UNCHANGED <<today, tables, history, asked, faults, fixed>>
    BY <1>3 DEF Save, tables, history
  <2> QED
    BY <2>1, JobEnds DEF TypeOK
<1>4. CASE doc[job[r].doc]
  <2> DEFINE j == [IdleJob EXCEPT !.op = "update", !.pc = "find", !.id = a]
  <2>1. /\ alert' = [alert EXCEPT ![a] = row]
        /\ armed' = armed \/ armed' = [armed EXCEPT ![a] = @ + 1]
        /\ raced' = IF \E s \in Slots \ {r} : Holds(s, a) THEN raced \cup {a} ELSE raced
        /\ job' = [job EXCEPT ![r] = j]
        /\ UNCHANGED <<today, doc, settings, said, count, asked, faults, fixed>>
    BY <1>4 DEF Save
  <2>2. row \in AlertRow /\ row.doc = job[r].doc /\ row.state = "LIVE"
    <3>1. /\ job[r].patch.offset \in Offsets \cup {NoOffset}
          /\ job[r].patch.date \in Day \cup {NoDate}
      BY <1>1 DEF Patch
    <3> QED
      BY <1>1, <1>2, <3>1 DEF Changed, AlertRow
  <2>3. row.sent /\ a \notin raced => row.date \in said[a]
    <3> SUFFICES ASSUME row.sent, a \notin raced PROVE row.date \in said[a]
      OBVIOUS
    <3>1. ~job[r].moved /\ job[r].row.sent
      BY <1>1 DEF Changed, AlertRow
    <3>2. job[r].patch.date \in {NoDate, job[r].row.date} /\ job[r].row.date \in said[a]
      BY <1>1, <3>1 DEF UpdateOK, Updating
    <3>3. row.date \in {job[r].patch.date, job[r].row.date}
          /\ (job[r].patch.date = NoDate => row.date = job[r].row.date)
      BY <1>1 DEF Changed, AlertRow
    <3> QED
      BY <3>2, <3>3
  <2>4. j \in Job /\ j.pc = "find"
    BY <1>2, IdleJobOK DEF Job, AllOps, JobPc
  <2>5. JobOK(j, alert', said', raced')
    BY <2>4 DEF JobOK, CreateOK, UpdateOK, DispatchOK, Carries, Updating
  <2> HIDE DEF row, j
  <2>6. TypeOK'
    <3>1. armed' \in [AlertId -> Nat]
      BY <2>1 DEF TypeOK
    <3>2. raced' \in SUBSET AlertId
      BY <1>2, <2>1 DEF TypeOK
    <3>3. alert' \in [AlertId -> AlertRow] /\ job' \in [Slots -> Job]
      BY <2>1, <2>2, <2>4 DEF TypeOK
    <3> QED
      BY <2>1, <3>1, <3>2, <3>3 DEF TypeOK, fixed
  <2>7. HasDocument'
    BY <1>2, <1>4, <2>1, <2>2 DEF HasDocument, Live, TypeOK
  <2>8. SentWasAnnounced'
    <3> SUFFICES ASSUME NEW b \in AlertId, b \notin raced', alert'[b].state = "LIVE",
                        alert'[b].sent
                 PROVE  alert'[b].date \in said'[b]
      BY DEF SentWasAnnounced, Live
    <3>1. b \notin raced
      BY <2>1
    <3>2. CASE b = a
      BY <2>1, <2>3, <3>1, <3>2 DEF TypeOK
    <3>3. CASE b # a
      BY <2>1, <3>1, <3>3 DEF SentWasAnnounced, Live, TypeOK
    <3> QED
      BY <3>2, <3>3
  <2>9. ASSUME NEW t \in Slots PROVE JobOK(job'[t], alert', said', raced')
    <3>1. CASE t = r
      BY <2>1, <2>5, <3>1 DEF TypeOK
    <3>2. CASE t # r
      <4>1. job'[t] = job[t]
        BY <2>1, <3>2 DEF TypeOK
      <4>2. ASSUME NEW b \in AlertId, alert[b].state # "NONE"
            PROVE  /\ alert'[b].state # "NONE" /\ alert'[b].doc = alert[b].doc
                   /\ Uses(job[t], b) /\ b \notin raced' => alert'[b].date = alert[b].date
        <5>1. CASE b # a
          BY <2>1, <4>2, <5>1 DEF TypeOK
        <5>2. CASE b = a
          <6>1. alert'[b].state # "NONE" /\ alert'[b].doc = alert[b].doc
            BY <1>2, <2>1, <2>2, <5>2 DEF TypeOK
          <6>2. Uses(job[t], b) => Holds(t, b)
            <7>1. UpdateOK(job[t], alert, said, raced)
              BY DEF JobOK
            <7> QED
              BY <7>1 DEF Uses, Carries, Updating, Holds, Idle, UpdateOK
          <6>3. Uses(job[t], b) => b \in raced'
            BY <2>1, <3>2, <5>2, <6>2
          <6> QED
            BY <6>1, <6>3
        <5> QED
          BY <5>1, <5>2
      <4>3. raced \subseteq raced' /\ \A b \in AlertId : said[b] \subseteq said'[b]
        BY <2>1
      <4>4. JobOK(job[t], alert', said', raced')
        BY <4>2, <4>3, Undisturbed
      <4> QED
        BY <4>1, <4>4
    <3> QED
      BY <3>1, <3>2
  <2> QED
    BY <2>6, <2>7, <2>8, <2>9
<1> QED
  BY <1>3, <1>4

(* A step that keeps state, document and date of the rows that exist.      *)
LEMMA RowsStep ==
    ASSUME AlertInv, NEW s \in Slots, NEW j \in Job, JobOK(j, alert, said, raced),
           job' = [job EXCEPT ![s] = j],
           UNCHANGED <<today, settings, history, asked, faults, fixed>>,
           doc' \in [Docs -> BOOLEAN], alert' \in [AlertId -> AlertRow],
           \A a \in AlertId :
               /\ alert[a].state # "NONE" => alert'[a].state # "NONE"
               /\ alert'[a].doc = alert[a].doc /\ alert'[a].date = alert[a].date,
           HasDocument', SentWasAnnounced'
    PROVE  AlertInv'
<1> USE DEF AlertInv, history, fixed
<1>1. TypeOK'
  BY DEF TypeOK
<1>2. ASSUME NEW t \in Slots PROVE JobOK(job'[t], alert', said', raced')
  <2>1. JobOK(job'[t], alert, said, raced)
    BY DEF TypeOK
  <2> QED
    BY <2>1, Undisturbed
<1> QED
  BY <1>1, <1>2

LEMMA DeleteKeeps ==
    ASSUME AlertInv, NEW r \in Slots, Delete(r)
    PROVE  AlertInv'
<1> USE DEF AlertInv
<1> DEFINE d == job[r].id
<1>1. /\ alert' = [alert EXCEPT ![d].state = "GONE", ![d].sent = FALSE]
      /\ job' = [job EXCEPT ![r] = IdleJob]
      /\ UNCHANGED <<today, doc, settings, history, asked, faults, fixed>>
  BY DEF Delete, Finished
<1>2. ASSUME NEW a \in AlertId
      PROVE  /\ alert'[a] \in AlertRow
             /\ alert'[a].doc = alert[a].doc /\ alert'[a].date = alert[a].date
             /\ alert'[a] = alert[a] \/ (alert'[a].state = "GONE" /\ ~alert'[a].sent)
  <2>1. alert[a] \in AlertRow
    BY DEF TypeOK
  <2>2. CASE a = d
    BY <1>1, <2>1, <2>2 DEF AlertRow, TypeOK
  <2>3. CASE a # d
    BY <1>1, <2>1, <2>3 DEF TypeOK
  <2> QED
    BY <2>2, <2>3
<1>3. alert' \in [AlertId -> AlertRow]
  BY <1>1, <1>2 DEF TypeOK
<1>4. HasDocument' /\ SentWasAnnounced'
  BY <1>1, <1>2 DEF HasDocument, SentWasAnnounced, Live, history
<1> QED
  BY <1>1, <1>2, <1>3, <1>4, RowsStep, IdleJobOK DEF TypeOK

LEMMA DeleteDocKeeps ==
    ASSUME AlertInv, NEW r \in Slots, DeleteDoc(r)
    PROVE  AlertInv'
<1> USE DEF AlertInv
<1> DEFINE d == job[r].doc
<1>1. /\ doc' = [doc EXCEPT ![d] = FALSE]
      /\ alert' = [a \in AlertId |-> IF Live(a) /\ OfDoc(a, d)
                                     THEN [alert[a] EXCEPT !.state = "GONE", !.sent = FALSE]
                                     ELSE alert[a]]
      /\ job' = [job EXCEPT ![r] = IdleJob]
      /\ UNCHANGED <<today, settings, history, asked, faults, fixed>>
  BY DEF DeleteDoc, Finished
<1>2. ASSUME NEW a \in AlertId
      PROVE  /\ alert'[a] \in AlertRow
             /\ alert'[a].doc = alert[a].doc /\ alert'[a].date = alert[a].date
             /\ \/ alert'[a] = alert[a] /\ (Live(a) => alert[a].doc # d)
                \/ alert'[a].state = "GONE" /\ ~alert'[a].sent
  <2>1. alert[a] \in AlertRow
    BY DEF TypeOK
  <2>2. CASE Live(a) /\ OfDoc(a, d)
    BY <1>1, <2>1, <2>2 DEF AlertRow
  <2>3. CASE ~(Live(a) /\ OfDoc(a, d))
    BY <1>1, <2>1, <2>3 DEF OfDoc
  <2> QED
    BY <2>2, <2>3
<1>3. alert' \in [AlertId -> AlertRow]
  BY <1>1, <1>2
<1>4. HasDocument'
  BY <1>1, <1>2 DEF HasDocument, Live, TypeOK
<1>5. SentWasAnnounced'
  BY <1>1, <1>2 DEF SentWasAnnounced, Live, history
<1>6. doc' \in [Docs -> BOOLEAN]
  BY <1>1 DEF TypeOK
<1> QED
  BY <1>1, <1>2, <1>3, <1>4, <1>5, <1>6, RowsStep, IdleJobOK

LEMMA SettingsKeep ==
    ASSUME AlertInv, NEW on \in SUBSET Switches, ChangeSettings(on)
    PROVE  AlertInv'
<1> USE DEF AlertInv, ChangeSettings, history, fixed
<1>1. TypeOK'
  BY DEF TypeOK
<1>2. HasDocument' /\ SentWasAnnounced'
  BY DEF HasDocument, SentWasAnnounced, Live
<1> QED
  BY <1>1, <1>2

-----------------------------------------------------------------------------
(* Dispatch *)

LEMMA RunStarts ==
    ASSUME AlertInv, NEW k \in Slots, StartRun(k)
    PROVE  AlertInv'
<1> DEFINE j == [IdleJob EXCEPT !.op = "run", !.pc = "find"]
<1>1. j \in Job /\ j.pc = "find"
  BY IdleJobOK DEF Job, JobPc, IdleJob
<1>2. JobOK(j, alert, said, raced)
  BY <1>1 DEF JobOK, CreateOK, UpdateOK, DispatchOK, Carries, Updating
<1>3. /\ job' = [job EXCEPT ![k] = j]
      /\ UNCHANGED <<today, tables, history, asked, faults, fixed>>
  BY DEF StartRun
<1> HIDE DEF j
<1> QED
  BY <1>1, <1>2, <1>3, JobStep DEF AlertInv, TypeOK

LEMMA FindKeeps ==
    ASSUME AlertInv, NEW s \in Slots, Find(s)
    PROVE  AlertInv'
<1> USE DEF AlertInv
<1>1. PICK found \in SUBSET AlertId :
        /\ \A a \in found : alert[a].state = "LIVE"
        /\ job' = IF found = {} THEN Finished(s)
                  ELSE [job EXCEPT ![s].pc = "settings", ![s].left = found, ![s].id = NoId,
                                   ![s].copy = [a \in AlertId |-> IF a \in found THEN alert[a]
                                                                  ELSE NoAlert]]
  <2> DEFINE f == {a \in AlertId : Due(a) /\ (s \in Requests => a = job[s].id)}
  <2>1. f \in SUBSET AlertId /\ \A a \in f : alert[a].state = "LIVE"
    BY DEF Due, Live
  <2> QED
    BY <2>1 DEF Find, Found
<1>2. UNCHANGED <<today, tables, history, asked, faults, fixed>>
  BY DEF Find, Found
<1>3. CASE found = {}
  BY <1>1, <1>2, <1>3, JobEnds DEF TypeOK
<1>4. CASE found # {}
  <2> DEFINE copy == [a \in AlertId |-> IF a \in found THEN alert[a] ELSE NoAlert]
             j == [job[s] EXCEPT !.pc = "settings", !.left = found, !.id = NoId, !.copy = copy]
  <2>1. copy \in [AlertId -> AlertRow]
    BY NoAlertTyped DEF TypeOK
  <2>2. \A a \in found : copy[a] = alert[a]
    OBVIOUS
  <2>3. job' = [job EXCEPT ![s] = j]
    BY <1>1, <1>4 DEF TypeOK
  <2> HIDE DEF copy
  <2>4. /\ j \in Job /\ j.pc = "settings" /\ j.left = found /\ j.id = NoId
        /\ j.copy = copy
    <3>1. job[s] \in Job
      BY DEF TypeOK
    <3> QED
      BY <2>1, <3>1 DEF Job, JobPc
  <2> HIDE DEF j
  <2>5. JobOK(j, alert, said, raced)
    BY <1>1, <2>2, <2>4, NoIdIsNoAlert DEF JobOK, CreateOK, UpdateOK, DispatchOK, Carries, Updating
  <2> QED
    BY <1>2, <2>3, <2>4, <2>5, JobStep DEF TypeOK
<1> QED
  BY <1>3, <1>4

LEMMA SettingsLoad ==
    ASSUME AlertInv, NEW s \in Slots, LoadSettings(s)
    PROVE  AlertInv'
<1> USE DEF AlertInv
<1> DEFINE j == [job[s] EXCEPT !.pc = "feed", !.on = settings]
<1>1. job[s] \in Job /\ job[s].pc = "settings" /\ settings \in SUBSET Switches
  BY DEF TypeOK, LoadSettings, At
<1>2. /\ j \in Job /\ j.pc = "feed" /\ j.left = job[s].left /\ j.id = job[s].id
      /\ j.copy = job[s].copy
  BY <1>1 DEF Job, JobPc
<1>3. job' = [job EXCEPT ![s] = j]
  BY DEF LoadSettings, TypeOK
<1> HIDE DEF j
<1>4. JobOK(j, alert, said, raced)
  BY <1>1, <1>2 DEF JobOK, CreateOK, UpdateOK, DispatchOK, Carries, Updating
<1> QED
  BY <1>2, <1>3, <1>4, JobStep DEF LoadSettings, TypeOK

LEMMA FeedKeeps ==
    ASSUME AlertInv, NEW s \in Slots, WriteFeed(s)
    PROVE  AlertInv'
<1> USE DEF AlertInv
<1>1. PICK a \in job[s].left :
         /\ said' = [said EXCEPT ![a] = @ \cup {job[s].copy[a].date}]
         /\ count' = [count EXCEPT ![a] = CountUp(@)]
         /\ job' = [job EXCEPT ![s].id = a, ![s].left = @ \ {a}, ![s].pc = PushOrMore(s, a)]
  BY DEF WriteFeed
<1>2. UNCHANGED <<today, tables, armed, raced, asked, faults, fixed>>
  BY DEF WriteFeed
<1>3. job[s] \in Job /\ job[s].pc = "feed" /\ DispatchOK(job[s], alert, said, raced)
  BY DEF TypeOK, WriteFeed, At, JobOK
<1>4. a \in AlertId /\ job[s].copy[a].date \in Day
  BY <1>1, <1>3 DEF Job, AlertRow
<1>5. PushOrMore(s, a) \in {"push", "mail", "mark"}
  BY DEF PushOrMore, MailOrMark
<1> DEFINE j == [job[s] EXCEPT !.id = a, !.left = @ \ {a}, !.pc = PushOrMore(s, a)]
<1>6. /\ j \in Job /\ j.pc \in {"push", "mail", "mark"} /\ j.id = a
      /\ j.left = job[s].left \ {a} /\ j.copy = job[s].copy
  BY <1>3, <1>4, <1>5 DEF Job, JobPc
<1>7. job' = [job EXCEPT ![s] = j]
  BY <1>1 DEF TypeOK
<1> HIDE DEF j
<1>8. /\ said' \in [AlertId -> SUBSET Day] /\ job[s].copy[a].date \in said'[a]
      /\ \A b \in AlertId : said[b] \subseteq said'[b]
  BY <1>1, <1>4 DEF TypeOK
<1>9. JobOK(j, alert', said', raced')
  <2>1. DispatchOK(j, alert', said', raced')
    BY <1>1, <1>2, <1>3, <1>4, <1>6, <1>8 DEF DispatchOK, Carries, tables
  <2> QED
    BY <1>6, <2>1 DEF JobOK, CreateOK, UpdateOK, Updating
<1>10. TypeOK'
  <2>1. count' \in [AlertId -> 0..MaxCount]
    BY <1>1, <1>4, AlertAssumption DEF TypeOK, CountUp
  <2> QED
    BY <1>2, <1>6, <1>7, <1>8, <2>1 DEF TypeOK, tables, fixed
<1>11. HasDocument' /\ SentWasAnnounced'
  BY <1>2, <1>8 DEF HasDocument, SentWasAnnounced, Live, tables
<1>12. ASSUME NEW t \in Slots PROVE JobOK(job'[t], alert', said', raced')
  <2>1. CASE t = s
    BY <1>7, <1>9, <2>1 DEF TypeOK
  <2>2. CASE t # s
    <3>1. job'[t] = job[t]
      BY <1>7, <2>2 DEF TypeOK
    <3>2. JobOK(job[t], alert', said', raced')
      BY <1>2, <1>8, Undisturbed DEF tables
    <3> QED
      BY <3>1, <3>2
  <2> QED
    BY <2>1, <2>2
<1> QED
  BY <1>10, <1>11, <1>12

(* A dispatch that goes on to the next alert, or ends.                     *)
LEMMA GoingOn ==
    ASSUME AlertInv, NEW s \in Slots, job[s].pc \in {"push", "mail", "mark"}
    PROVE  \E j \in Job : Continued(s) = [job EXCEPT ![s] = j] /\ JobOK(j, alert, said, raced)
<1> USE DEF AlertInv
<1>1. CASE job[s].left = {}
  BY <1>1, IdleJobOK DEF Continued, Finished
<1>2. CASE job[s].left # {}
  <2> DEFINE copy == [job[s].copy EXCEPT ![job[s].id] = NoAlert]
             j == [job[s] EXCEPT !.pc = "feed", !.id = NoId, !.copy = copy]
  <2>1. /\ job[s] \in Job /\ DispatchOK(job[s], alert, said, raced)
        /\ job[s].copy \in [AlertId -> AlertRow]
    BY DEF TypeOK, JobOK, Job
  <2>2. /\ copy \in [AlertId -> AlertRow]
        /\ \A a \in job[s].left : a \in AlertId => copy[a] = job[s].copy[a]
    BY <2>1, NoAlertTyped DEF DispatchOK
  <2>3. Continued(s) = [job EXCEPT ![s] = j]
    BY <1>2 DEF Continued, TypeOK
  <2> HIDE DEF copy
  <2>4. /\ j \in Job /\ j.pc = "feed" /\ j.id = NoId /\ j.left = job[s].left
        /\ j.copy = copy
    BY <2>1, <2>2 DEF Job, JobPc
  <2> HIDE DEF j
  <2>5. DispatchOK(j, alert, said, raced)
    BY <2>1, <2>2, <2>4, NoIdIsNoAlert DEF DispatchOK, Carries
  <2>6. JobOK(j, alert, said, raced)
    BY <2>4, <2>5 DEF JobOK, CreateOK, UpdateOK, Updating
  <2> QED
    BY <2>3, <2>4, <2>6
<1> QED
  BY <1>1, <1>2

(* A dispatch that goes on with the same alert.                            *)
LEMMA MovingOn ==
    ASSUME AlertInv, NEW s \in Slots, job[s].pc \in {"push", "mail"},
           NEW pc \in {"mail", "mark"}
    PROVE  \E j \in Job : Moved(s, pc) = [job EXCEPT ![s] = j] /\ JobOK(j, alert, said, raced)
<1> DEFINE j == [job[s] EXCEPT !.pc = pc]
<1>1. job[s] \in Job /\ DispatchOK(job[s], alert, said, raced)
  BY DEF AlertInv, TypeOK, JobOK
<1>2. /\ j \in Job /\ j.pc = pc /\ j.id = job[s].id /\ j.left = job[s].left
      /\ j.copy = job[s].copy
  BY <1>1 DEF Job, JobPc
<1>3. Moved(s, pc) = [job EXCEPT ![s] = j]
  BY DEF Moved, AlertInv, TypeOK
<1> HIDE DEF j
<1>4. JobOK(j, alert, said, raced)
  BY <1>1, <1>2 DEF JobOK, CreateOK, UpdateOK, DispatchOK, Carries, Updating
<1> QED
  BY <1>2, <1>3, <1>4

LEMMA PushKeeps ==
    ASSUME AlertInv, NEW s \in Slots, Push(s) \/ PushImpossible(s) \/ Mail(s) \/ ProcessFails(s)
    PROVE  AlertInv'
<1>1. job[s].pc \in {"push", "mail", "mark"}
  BY DEF Push, PushImpossible, Mail, ProcessFails, At
<1>2. \/ job' = Continued(s)
      \/ job[s].pc \in {"push", "mail"} /\ \E pc \in {"mail", "mark"} : job' = Moved(s, pc)
  BY DEF Push, PushImpossible, Mail, AfterMail, ProcessFails, Caught, MailOrMark, At
<1>3. PICK j \in Job : job' = [job EXCEPT ![s] = j] /\ JobOK(j, alert, said, raced)
  BY <1>1, <1>2, GoingOn, MovingOn
<1>4. UNCHANGED <<today, tables, history, asked, fixed>> /\ faults' \in {faults, faults + 1}
  BY DEF Push, PushImpossible, Mail, ProcessFails
<1>5. today' \in Day /\ asked' \in Nat /\ faults' \in Nat
  BY <1>4 DEF AlertInv, TypeOK
<1> QED
  BY <1>3, <1>4, <1>5, JobStep

(* What is marked was announced for the date of the copy, which is the     *)
(* date of the row unless an update was not alone.                         *)
LEMMA MarkKeeps ==
    ASSUME AlertInv, NEW s \in Slots, MarkSent(s)
    PROVE  AlertInv'
<1> USE DEF AlertInv
<1> DEFINE m == job[s].id
<1>1. /\ job[s].pc = "mark" /\ job' = Continued(s)
      /\ alert' = IF Live(m) THEN [alert EXCEPT ![m].sent = TRUE] ELSE alert
      /\ UNCHANGED <<today, doc, settings, history, asked, faults, fixed>>
  BY DEF MarkSent, At
<1>2. PICK j \in Job : job' = [job EXCEPT ![s] = j] /\ JobOK(j, alert, said, raced)
  BY <1>1, GoingOn
<1>3. /\ m \in AlertId /\ job[s].copy[m].date \in said[m]
      /\ m \notin raced => alert[m].date = job[s].copy[m].date
  BY <1>1 DEF JobOK, DispatchOK, Carries
<1>4. ASSUME NEW a \in AlertId
      PROVE  /\ alert'[a] \in AlertRow /\ alert'[a].state = alert[a].state
             /\ alert'[a].doc = alert[a].doc /\ alert'[a].date = alert[a].date
             /\ a # m => alert'[a] = alert[a]
  <2>1. alert[a] \in AlertRow
    BY DEF TypeOK
  <2> QED
    BY <1>1, <2>1 DEF AlertRow, TypeOK
<1>5. alert' \in [AlertId -> AlertRow]
  BY <1>1, <1>4 DEF TypeOK
<1>6. HasDocument'
  BY <1>1, <1>4 DEF HasDocument, Live
<1>7. SentWasAnnounced'
  BY <1>1, <1>3, <1>4 DEF SentWasAnnounced, Live, history
<1> QED
  BY <1>1, <1>2, <1>4, <1>5, <1>6, <1>7, RowsStep DEF TypeOK

LEMMA FeedFailing ==
    ASSUME AlertInv, NEW s \in Slots, FeedFails(s)
    PROVE  AlertInv'
<1> USE DEF AlertInv
<1>1. /\ job[s] \in Job /\ job[s].pc = "feed" /\ DispatchOK(job[s], alert, said, raced)
      /\ UNCHANGED <<today, tables, history, asked, fixed>> /\ faults' = faults + 1
  BY DEF TypeOK, FeedFails, At, JobOK
<1>2. PICK a \in job[s].left :
         job' = IF job[s].left = {a} THEN Finished(s) ELSE [job EXCEPT ![s].left = @ \ {a}]
  BY DEF FeedFails
<1>3. CASE job[s].left = {a}
  BY <1>1, <1>2, <1>3, JobEnds DEF TypeOK
<1>4. CASE job[s].left # {a}
  <2> DEFINE j == [job[s] EXCEPT !.left = @ \ {a}]
  <2>1. /\ j \in Job /\ j.pc = "feed" /\ j.left = job[s].left \ {a} /\ j.id = job[s].id
        /\ j.copy = job[s].copy
    BY <1>1 DEF Job
  <2>2. job' = [job EXCEPT ![s] = j]
    BY <1>2, <1>4 DEF TypeOK
  <2> HIDE DEF j
  <2>3. JobOK(j, alert, said, raced)
    BY <1>1, <2>1 DEF JobOK, CreateOK, UpdateOK, DispatchOK, Carries, Updating
  <2>4. today' \in Day /\ asked' \in Nat /\ faults' \in Nat
    BY <1>1 DEF TypeOK
  <2> QED
    BY <1>1, <2>1, <2>2, <2>3, <2>4, JobStep
<1> QED
  BY <1>3, <1>4

-----------------------------------------------------------------------------
(* Days and failures *)

LEMMA DayPasses ==
    ASSUME AlertInv, NextDay
    PROVE  AlertInv'
<1> USE DEF AlertInv, NextDay, tables, history, fixed
<1>1. TypeOK'
  BY AlertAssumption DEF TypeOK, Day
<1>2. HasDocument' /\ SentWasAnnounced'
  BY DEF HasDocument, SentWasAnnounced, Live
<1> QED
  BY <1>1, <1>2

LEMMA AbortKeeps ==
    ASSUME AlertInv, NEW s \in Slots, Abort(s)
    PROVE  AlertInv'
BY JobEnds DEF Abort, AlertInv, TypeOK

LEMMA RestartKeeps ==
    ASSUME AlertInv, Restart
    PROVE  AlertInv'
<1> USE DEF AlertInv, tables, history, fixed
<1> DEFINE run == [IdleJob EXCEPT !.op = "run", !.pc = "find"]
<1>1. run \in Job /\ run.pc = "find"
  BY IdleJobOK DEF Job, JobPc, IdleJob
<1>2. JobOK(run, alert, said, raced)
  BY <1>1 DEF JobOK, CreateOK, UpdateOK, DispatchOK, Carries, Updating
<1>3. PICK k \in Runs : job' = [s \in Slots |-> IF s = k THEN run ELSE IdleJob]
  BY DEF Restart
<1>4. UNCHANGED <<today, tables, history, asked, fixed>> /\ faults' = faults + 1
  BY DEF Restart
<1> HIDE DEF run
<1>5. TypeOK'
  BY <1>1, <1>3, <1>4, IdleJobOK DEF TypeOK
<1>6. HasDocument' /\ SentWasAnnounced'
  BY <1>4 DEF HasDocument, SentWasAnnounced, Live
<1>7. \A s \in Slots : JobOK(job[s], alert, said, raced)'
  BY <1>2, <1>3, <1>4, IdleJobOK
<1> QED
  BY <1>5, <1>6, <1>7

-----------------------------------------------------------------------------
(* The theorems *)

LEMMA AlertsNext ==
    ASSUME AlertInv, [Next]_vars
    PROVE  AlertInv'
<1> USE DEF Slots
<1>1. CASE UNCHANGED vars
  BY <1>1 DEF vars, AlertInv, TypeOK, HasDocument, SentWasAnnounced, Live, tables, history, fixed
<1>2. ASSUME NEW r \in Requests, AlertRequest(r) PROVE AlertInv'
  BY <1>2, CreateStarts, UpdateStarts, DeleteStarts, DeleteDocStarts DEF AlertRequest
<1>3. ASSUME NEW r \in Requests, RequestStep(r) PROVE AlertInv'
  BY <1>3, InsertKeeps, ActivityKeeps, LoadKeeps, SaveKeeps, DeleteKeeps, DeleteDocKeeps
     DEF RequestStep
<1>4. ASSUME NEW k \in Runs, StartRun(k) PROVE AlertInv'
  BY <1>4, RunStarts
<1>5. ASSUME NEW s \in Slots, DispatchStep(s) PROVE AlertInv'
  BY <1>5, FindKeeps, SettingsLoad, FeedKeeps, PushKeeps, MarkKeeps DEF DispatchStep
<1>6. ASSUME NEW s \in Slots, ProcessFails(s) \/ FeedFails(s) \/ Abort(s) PROVE AlertInv'
  BY <1>6, PushKeeps, FeedFailing, AbortKeeps
<1>7. ASSUME NEW on \in SUBSET Switches, ChangeSettings(on) PROVE AlertInv'
  BY <1>7, SettingsKeep
<1> QED
  BY <1>1, <1>2, <1>3, <1>4, <1>5, <1>6, <1>7, DayPasses, RestartKeeps DEF Next

(* Types, documents and announcements are kept by every step of requests,  *)
(* runs, days, failures and restarts.                                      *)
THEOREM AlertsInductive == Spec => []AlertInv
<1>1. AlertInv /\ [Next]_vars => AlertInv'
  BY AlertsNext
<1> QED
  BY <1>1, AlertsBegin, PTL DEF Spec

(* Every row and every job keeps its type.                                 *)
THEOREM AlertsTypeCorrect == Spec => []TypeOK
<1>1. AlertInv => TypeOK
  BY DEF AlertInv
<1> QED
  BY <1>1, AlertsInductive, PTL

(* No alert outlives its document, whatever creations and updates overlap  *)
(* the deletion.                                                           *)
THEOREM AlertsHaveDocuments == Spec => []NoAlertWithoutDocument
<1>1. AlertInv => NoAlertWithoutDocument
  BY DEF AlertInv, HasDocument, NoAlertWithoutDocument
<1> QED
  BY <1>1, AlertsInductive, PTL

(* An alert that is marked was announced for the date that it has, unless  *)
(* an update of it was not alone.                                          *)
THEOREM SentIsAnnounced == Spec => []SentWasAnnounced
<1>1. AlertInv => SentWasAnnounced
  BY DEF AlertInv
<1> QED
  BY <1>1, AlertsInductive, PTL
-----------------------------------------------------------------------------
(* Offsets and announcements: what jobs are about to do *)

(* A job is in a slot of the scenario, and only a request writes rows.     *)
SlotsUsed ==
    \A s \in Slots :
        /\ ~Idle(s) => s \in scenario.slots
        /\ job[s].pc \in {"insert", "activity", "load", "save"} => s \in Requests

Writers == Requests \cap scenario.slots

Inserts(j, d, o) == j.pc = "insert" /\ j.doc = d /\ j.row.offset = o

(* An update that will save its row with offset o, whatever the row is now *)
Saves(j, d, o) ==
    /\ j.doc = d
    /\ \/ j.pc = "load" /\ j.patch.offset = o
       \/ j.pc = "save" /\ Changed(j.row, j.patch, j.moved).offset = o

Inserters(d, o) == {r \in Requests : Inserts(job[r], d, o)}
Has(a, d, o) == Live(a) /\ alert[a].doc = d /\ alert[a].offset = o
Occupied(d, o) ==
    {a \in AlertId : Has(a, d, o) \/ \E r \in Requests : Saves(job[r], d, o) /\ job[r].id = a}

OffsetInv ==
    /\ SlotsUsed
    /\ Writers # {} => \A d \in Docs, o \in Offsets :
         Cardinality(Occupied(d, o)) + Cardinality(Inserters(d, o)) <= Cardinality(Writers)

(* A run or request that will write a feed entry for a, that has written   *)
(* one and has not finished a, and one that has nothing to do with a.      *)
Announces(j, a) == j.pc \in {"settings", "feed", "push", "mail", "mark"} /\ a \in j.left
Marks(j, a) == j.pc \in {"push", "mail", "mark"} /\ j.id = a

Announcers(a) == {s \in scenario.slots : Announces(job[s], a)}
Others(a) == {s \in scenario.slots : ~Announces(job[s], a) /\ ~Marks(job[s], a)}
Unsent(a) == Live(a) /\ ~alert[a].sent

Spent(a) ==
    count[a] + Cardinality(Announcers(a)) + IF Unsent(a) THEN Cardinality(Others(a)) ELSE 0

AnnounceInv ==
    fcm => \A a \in AlertId : Spent(a) <= Cardinality(scenario.slots) * (armed[a] + faults)

(* The jobs that a step may change                                         *)
OnlyJob(s) == \A x \in Slots \ {s} : job'[x] = job[x]

Writing == {"insert", "activity", "load", "save"}

LEMMA AlertTypes ==
    ASSUME AlertInv
    PROVE  /\ job \in [Slots -> Job] /\ alert \in [AlertId -> AlertRow]
           /\ scenario.slots \subseteq Slots /\ scenario \in Scenarios
           /\ IsFiniteSet(Slots) /\ IsFiniteSet(scenario.slots)
           /\ Requests \subseteq Slots /\ Runs \subseteq Slots
           /\ IsFiniteSet(Requests)
           /\ IdleJob.pc = "idle" /\ IdleJob.left = {} /\ IdleJob.id \notin AlertId
           /\ IdleJob.patch.offset = NoOffset
           /\ NoOffset \notin Offsets
<1>1. /\ job \in [Slots -> Job] /\ alert \in [AlertId -> AlertRow]
      /\ scenario \in Scenarios
  BY DEF AlertInv, TypeOK
<1>2. scenario.slots \subseteq Slots
  BY <1>1, AlertAssumption DEF Slots
<1>3. IsFiniteSet(Slots)
  <2>1. IsFiniteSet(Runs) /\ IsFiniteSet(Requests)
    BY AlertAssumption
  <2> QED
    BY <2>1, FS_Union DEF Slots
<1>4. IsFiniteSet(scenario.slots)
  BY <1>2, <1>3, FS_Subset
<1> QED
  BY <1>1, <1>2, <1>3, <1>4, AlertAssumption, NoIdIsNoAlert DEF Slots, IdleJob, NoPatch

(* A dispatch never goes on to write a row of its own, and a failure ends  *)
(* what was going on.                                                      *)
LEMMA DispatchMoves ==
    ASSUME AlertInv, NEW s \in Slots,
           DispatchStep(s) \/ ProcessFails(s) \/ FeedFails(s) \/ Abort(s)
    PROVE  /\ OnlyJob(s) /\ ~Idle(s) /\ job'[s].pc \notin Writing
           /\ UNCHANGED <<doc, settings, fixed, armed, raced>>
<1> USE AlertTypes DEF OnlyJob, Idle, Writing, At, history, tables, fixed
<1>1. ASSUME job' = Continued(s)
      PROVE  OnlyJob(s) /\ job'[s].pc \notin Writing
  <2>1. CASE job[s].left = {}
    BY <1>1, <2>1 DEF Continued, Finished
  <2>2. CASE job[s].left # {}
    BY <1>1, <2>2 DEF Continued, Job
  <2> QED
    BY <2>1, <2>2
<1>2. ASSUME NEW pc \in JobPc \ Writing, job' = Moved(s, pc)
      PROVE  OnlyJob(s) /\ job'[s].pc \notin Writing
  BY <1>2 DEF Moved, Job
<1>3. CASE Find(s)
  <2>1. CASE Found(s) = {}
    BY <1>3, <2>1 DEF Find, Finished
  <2>2. CASE Found(s) # {}
    BY <1>3, <2>2 DEF Find, Job
  <2> QED
    BY <2>1, <2>2
<1>4. CASE LoadSettings(s)
  BY <1>4 DEF LoadSettings, Job
<1>5. CASE WriteFeed(s)
  <2>1. PICK a \in job[s].left :
          job' = [job EXCEPT ![s].id = a, ![s].left = @ \ {a}, ![s].pc = PushOrMore(s, a)]
    BY <1>5 DEF WriteFeed
  <2>2. PushOrMore(s, a) \in {"push", "mail", "mark"}
    BY DEF PushOrMore, MailOrMark
  <2> QED
    BY <1>5, <2>1, <2>2 DEF WriteFeed, Job
<1>6. CASE Push(s)
  <2>1. MailOrMark(s, job[s].id) \in {"mail", "mark"}
    BY DEF MailOrMark
  <2> QED
    BY <1>2, <1>6, <2>1 DEF Push, JobPc
<1>7. CASE Mail(s)
  BY <1>2, <1>7 DEF Mail, AfterMail, JobPc
<1>8. CASE PushImpossible(s)
  BY <1>1, <1>8 DEF PushImpossible, Caught
<1>9. CASE MarkSent(s)
  BY <1>1, <1>9 DEF MarkSent
<1>10. CASE ProcessFails(s)
  BY <1>1, <1>10 DEF ProcessFails, Caught
<1>11. CASE FeedFails(s)
  <2>1. PICK a \in job[s].left :
          job' = IF job[s].left = {a} THEN Finished(s) ELSE [job EXCEPT ![s].left = @ \ {a}]
    BY <1>11 DEF FeedFails
  <2>2. OnlyJob(s) /\ job'[s].pc \in {"idle", "feed"}
    <3>1. CASE job[s].left = {a}
      BY <2>1, <3>1 DEF Finished
    <3>2. CASE job[s].left # {a}
      BY <1>11, <2>1, <3>2 DEF FeedFails, Job
    <3> QED
      BY <3>1, <3>2
  <2> QED
    BY <1>11, <2>2 DEF FeedFails
<1>12. CASE Abort(s)
  BY <1>12 DEF Abort, Finished
<1> QED
  BY <1>3, <1>4, <1>5, <1>6, <1>7, <1>8, <1>9, <1>10, <1>11, <1>12 DEF DispatchStep

LEMMA RequestMoves ==
    ASSUME AlertInv, NEW r \in Requests, AlertRequest(r) \/ RequestStep(r)
    PROVE  /\ OnlyJob(r) /\ (Idle(r) => r \in scenario.slots)
           /\ UNCHANGED <<fixed, said, count, faults>>
<1> USE AlertTypes DEF OnlyJob, Idle, At, history, tables
<1>1. CASE AlertRequest(r)
  BY <1>1
  DEF AlertRequest, StartCreate, StartUpdate, StartDelete, StartDeleteDoc, Begin, Idle
<1>2. CASE Insert(r)
  BY <1>2 DEF Insert, Finished, Job
<1>3. CASE WriteActivity(r) \/ Load(r) \/ Delete(r) \/ DeleteDoc(r)
  BY <1>3 DEF WriteActivity, Load, Delete, DeleteDoc, Finished, Moved, Job
<1>4. CASE Save(r)
  BY <1>4 DEF Save, Finished
<1> QED
  BY <1>1, <1>2, <1>3, <1>4 DEF RequestStep

LEMMA SlotsNext ==
    ASSUME AlertInv, SlotsUsed, [Next]_vars
    PROVE  SlotsUsed'
<1> USE AlertTypes DEF SlotsUsed, Idle
<1>1. ASSUME NEW r \in Requests, AlertRequest(r) \/ RequestStep(r)
      PROVE  SlotsUsed'
  BY <1>1, RequestMoves DEF OnlyJob, fixed
<1>2. ASSUME NEW s \in Slots,
             DispatchStep(s) \/ ProcessFails(s) \/ FeedFails(s) \/ Abort(s)
      PROVE  SlotsUsed'
  BY <1>2, DispatchMoves DEF OnlyJob, fixed, Writing
<1>3. ASSUME NEW k \in Runs, StartRun(k)
      PROVE  SlotsUsed'
  BY <1>3 DEF StartRun, fixed
<1>4. CASE Restart
  BY <1>4 DEF Restart, fixed
<1>5. CASE NextDay \/ UNCHANGED vars \/ \E on \in SUBSET Switches : ChangeSettings(on)
  BY <1>5 DEF NextDay, vars, ChangeSettings, fixed
<1> QED
  BY <1>1, <1>2, <1>3, <1>4, <1>5 DEF Next

LEMMA SlotsInit == Init => SlotsUsed
BY DEF Init, SlotsUsed, Idle, IdleJob

-----------------------------------------------------------------------------
(* Offsets *)

LEMMA OffsetSets ==
    ASSUME NEW d, NEW o
    PROVE  /\ IsFiniteSet(Occupied(d, o)) /\ IsFiniteSet(Inserters(d, o))
           /\ Cardinality(Occupied(d, o)) \in Nat /\ Cardinality(Inserters(d, o)) \in Nat
           /\ IsFiniteSet(Writers) /\ Cardinality(Writers) \in Nat
<1>1. IsFiniteSet(Requests) /\ 1 \in Int /\ MaxAlerts \in Int
  BY AlertAssumption
<1>2. IsFiniteSet(AlertId)
  BY <1>1, FS_Interval DEF AlertId
<1>3. /\ Occupied(d, o) \in SUBSET AlertId /\ Inserters(d, o) \in SUBSET Requests
      /\ Writers \in SUBSET Requests
  BY DEF Occupied, Inserters, Writers
<1>4. IsFiniteSet(Occupied(d, o)) /\ IsFiniteSet(Inserters(d, o)) /\ IsFiniteSet(Writers)
  BY <1>1, <1>2, <1>3, FS_Subset
<1> QED
  BY <1>4, FS_CardinalityType

(* Two finite sets in two states                                           *)
LEMMA NoMore ==
    ASSUME NEW A, IsFiniteSet(A), NEW B \in SUBSET A
    PROVE  Cardinality(B) <= Cardinality(A) /\ Cardinality(A) \in Nat /\ Cardinality(B) \in Nat
BY FS_Subset, FS_CardinalityType

LEMMA OneMore ==
    ASSUME NEW A, IsFiniteSet(A), NEW a, NEW B \in SUBSET (A \cup {a})
    PROVE  Cardinality(B) <= Cardinality(A) + 1 /\ Cardinality(A) \in Nat /\ Cardinality(B) \in Nat
<1>1. /\ IsFiniteSet(A \cup {a}) /\ Cardinality(A) \in Nat
      /\ Cardinality(A \cup {a}) <= Cardinality(A) + 1
  <2>1. Cardinality(A) \in Nat
    BY FS_CardinalityType
  <2>2. /\ IsFiniteSet(A \cup {a})
        /\ Cardinality(A \cup {a}) = IF a \in A THEN Cardinality(A) ELSE Cardinality(A) + 1
    BY FS_AddElement
  <2> QED
    BY <2>1, <2>2
<1> QED
  BY <1>1, NoMore

LEMMA OneLess ==
    ASSUME NEW A, IsFiniteSet(A), NEW a \in A, NEW B \in SUBSET (A \ {a})
    PROVE  Cardinality(B) <= Cardinality(A) - 1 /\ Cardinality(A) \in Nat /\ Cardinality(B) \in Nat
<1>1. /\ IsFiniteSet(A \ {a}) /\ Cardinality(A) \in Nat
      /\ Cardinality(A \ {a}) = Cardinality(A) - 1
  BY FS_RemoveElement, FS_CardinalityType
<1> QED
  BY <1>1, NoMore

(* Where no row has the offset, those that want it are jobs.               *)
LEMMA Unoccupied ==
    ASSUME NEW d, NEW o, SlotsUsed', \A a \in AlertId : ~Has(a, d, o)'
    PROVE  Cardinality(Occupied(d, o)') + Cardinality(Inserters(d, o)')
             <= Cardinality(Writers')
<1> DEFINE S == {r \in Requests : Saves(job'[r], d, o) /\ job'[r].id \in AlertId}
           f == [r \in S |-> job'[r].id]
           I == Inserters(d, o)'
           T == Occupied(d, o)'
<1>1. IsFiniteSet(Requests) /\ S \in SUBSET Requests /\ I \in SUBSET Requests
  BY AlertAssumption DEF Inserters
<1>2. IsFiniteSet(S) /\ IsFiniteSet(I)
  BY <1>1, FS_Subset
<1>3. T = {a \in AlertId : \E r \in Requests : Saves(job'[r], d, o) /\ job'[r].id = a}
  BY DEF Occupied, Saves
<1>4. f \in Surjection(S, T)
  BY <1>3 DEF Surjection
<1>5. Cardinality(T) <= Cardinality(S) /\ IsFiniteSet(T)
  BY <1>2, <1>4, FS_Surjection
<1>6. S \cap I = {}
  BY DEF Inserters, Inserts, Saves
<1>7. S \cup I \subseteq Writers'
  BY DEF SlotsUsed, Inserters, Inserts, Saves, Writers, Slots, Idle
<1>8. IsFiniteSet(Writers') /\ Writers' \in SUBSET Requests
  BY <1>1, FS_Subset DEF Writers
<1>9. Cardinality(S \cup I) = Cardinality(S) + Cardinality(I) - Cardinality(S \cap I)
  BY <1>2, FS_Union
<1>10. Cardinality(S \cap I) = 0
  BY <1>6, FS_EmptySet
<1>11. Cardinality(S \cup I) <= Cardinality(Writers')
  BY <1>7, <1>8, FS_Subset
<1>12. /\ Cardinality(S) \in Nat /\ Cardinality(I) \in Nat /\ Cardinality(T) \in Nat
       /\ Cardinality(Writers') \in Nat
  BY <1>2, <1>5, <1>8, FS_CardinalityType
<1> HIDE DEF S, I, T
<1>13. Cardinality(T) + Cardinality(I) <= Cardinality(Writers')
  BY <1>5, <1>9, <1>10, <1>11, <1>12
<1> QED
  BY <1>13 DEF I, T

(* A step adds nothing, finds no row that has the offset, or inserts what  *)
(* was about to be inserted.                                               *)
Allowed(d, o) ==
    \/ Occupied(d, o)' \subseteq Occupied(d, o) /\ Inserters(d, o)' \subseteq Inserters(d, o)
    \/ \A a \in AlertId : ~Has(a, d, o)'
    \/ \E r \in Inserters(d, o), a \in AlertId :
         /\ Inserters(d, o)' \subseteq Inserters(d, o) \ {r}
         /\ Occupied(d, o)' \subseteq Occupied(d, o) \cup {a}

LEMMA OffsetStep ==
    ASSUME OffsetInv, SlotsUsed', UNCHANGED scenario,
           \A d \in Docs, o \in Offsets : Allowed(d, o)
    PROVE  OffsetInv'
<1>1. Writers' = Writers
  BY DEF Writers
<1> SUFFICES ASSUME Writers # {}, NEW d \in Docs, NEW o \in Offsets
             PROVE  Cardinality(Occupied(d, o)') + Cardinality(Inserters(d, o)')
                      <= Cardinality(Writers')
  BY <1>1 DEF OffsetInv
<1> DEFINE A == Occupied(d, o)
           I == Inserters(d, o)
           n == Cardinality(Writers)
<1>2. Cardinality(A) + Cardinality(I) <= n
  BY DEF OffsetInv
<1>3. /\ IsFiniteSet(A) /\ IsFiniteSet(I)
      /\ Cardinality(A) \in Nat /\ Cardinality(I) \in Nat /\ n \in Nat
  BY OffsetSets
<1>4. CASE A' \subseteq A /\ I' \subseteq I
  <2>1. /\ Cardinality(A') <= Cardinality(A) /\ Cardinality(I') <= Cardinality(I)
        /\ Cardinality(A') \in Nat /\ Cardinality(I') \in Nat
    BY <1>3, <1>4, NoMore
  <2> HIDE DEF A, I, n
  <2>2. Cardinality(A') + Cardinality(I') <= n
    BY <1>2, <1>3, <2>1
  <2> QED
    BY <1>1, <2>2 DEF A, I, n
<1>5. CASE \A a \in AlertId : ~Has(a, d, o)'
  BY <1>5, Unoccupied
<1>6. ASSUME NEW r \in I, NEW a \in AlertId, I' \subseteq I \ {r}, A' \subseteq A \cup {a}
      PROVE  Cardinality(A') + Cardinality(I') <= Cardinality(Writers')
  <2>1. /\ Cardinality(A') <= Cardinality(A) + 1 /\ Cardinality(I') <= Cardinality(I) - 1
        /\ Cardinality(A') \in Nat /\ Cardinality(I') \in Nat
    BY <1>3, <1>6, OneMore, OneLess
  <2> HIDE DEF A, I, n
  <2>2. Cardinality(A') + Cardinality(I') <= n
    BY <1>2, <1>3, <2>1
  <2> QED
    BY <1>1, <2>2 DEF A, I, n
<1> QED
  BY <1>4, <1>5, <1>6 DEF Allowed

(* Most steps give no row an offset and take no job towards a write.       *)
LEMMA CalmStep ==
    ASSUME OffsetInv, SlotsUsed', UNCHANGED scenario,
           \A a \in AlertId : \A d, o : Has(a, d, o)' => Has(a, d, o),
           \A r \in Requests : job'[r] = job[r] \/ job'[r].pc \notin Writing
    PROVE  OffsetInv'
<1> SUFFICES ASSUME NEW d \in Docs, NEW o \in Offsets
             PROVE  Allowed(d, o)
  BY OffsetStep
<1>1. \A r \in Requests :
        /\ Inserts(job'[r], d, o) => job'[r] = job[r]
        /\ Saves(job'[r], d, o) => job'[r] = job[r]
  BY DEF Inserts, Saves, Writing
<1>2. Inserters(d, o)' \subseteq Inserters(d, o)
  BY <1>1 DEF Inserters
<1>3. Occupied(d, o)' \subseteq Occupied(d, o)
  <2> SUFFICES ASSUME NEW a \in Occupied(d, o)'
               PROVE  a \in Occupied(d, o)
    OBVIOUS
  <2>1. a \in AlertId
    BY DEF Occupied
  <2>2. CASE Has(a, d, o)'
    BY <2>1, <2>2 DEF Occupied
  <2>3. CASE \E r \in Requests : Saves(job'[r], d, o) /\ job'[r].id = a
    BY <1>1, <2>1, <2>3 DEF Occupied
  <2> QED
    BY <2>2, <2>3 DEF Occupied
<1> QED
  BY <1>2, <1>3 DEF Allowed

(* The rows stay as they are, and one request begins or goes on.           *)
LEMMA RequestAllowed ==
    ASSUME NEW r \in Requests, OnlyJob(r), NEW d, NEW o,
           \A a \in AlertId : Has(a, d, o)' => Has(a, d, o),
           ~Inserts(job'[r], d, o),
           Saves(job'[r], d, o) => job'[r].id \in Occupied(d, o)
    PROVE  Allowed(d, o)
<1>1. \A x \in Requests : x # r => job'[x] = job[x]
  BY DEF OnlyJob, Slots
<1>2. Inserters(d, o)' \subseteq Inserters(d, o)
  BY <1>1 DEF Inserters
<1>3. Occupied(d, o)' \subseteq Occupied(d, o)
  <2> SUFFICES ASSUME NEW a \in Occupied(d, o)'
               PROVE  a \in Occupied(d, o)
    OBVIOUS
  <2>1. a \in AlertId
    BY DEF Occupied
  <2>2. CASE Has(a, d, o)'
    BY <2>1, <2>2 DEF Occupied
  <2>3. ASSUME NEW x \in Requests, Saves(job'[x], d, o), job'[x].id = a
        PROVE  a \in Occupied(d, o)
    BY <1>1, <2>1, <2>3 DEF Occupied
  <2> QED
    BY <2>2, <2>3 DEF Occupied
<1> QED
  BY <1>2, <1>3 DEF Allowed

LEMMA CreateAllowed ==
    ASSUME AlertInv, NEW r \in Requests, NEW d0 \in Docs, NEW o0 \in Offsets,
           NEW date \in Day, NEW chans \in ChannelSets, StartCreate(r, d0, o0, date, chans),
           NEW d \in Docs, NEW o \in Offsets
    PROVE  Allowed(d, o)
<1>1. OnlyJob(r) /\ alert' = alert
  BY RequestMoves DEF AlertRequest, StartCreate, Begin, tables
<1>2. /\ job'[r].pc = "insert" /\ job'[r].doc = d0 /\ job'[r].row.offset = o0
  BY AlertTypes DEF StartCreate, Begin, IdleJob, NewAlert
<1>3. CASE d = d0 /\ o = o0
  BY <1>1, <1>3 DEF Allowed, StartCreate, HasOffset, Has, Live
<1>4. CASE ~(d = d0 /\ o = o0)
  <2>1. ~Inserts(job'[r], d, o) /\ ~Saves(job'[r], d, o)
    BY <1>2, <1>4 DEF Inserts, Saves
  <2>2. \A a \in AlertId : Has(a, d, o)' => Has(a, d, o)
    BY <1>1 DEF Has, Live
  <2> QED
    BY <1>1, <2>1, <2>2, RequestAllowed
<1> QED
  BY <1>3, <1>4

LEMMA UpdateAllowed ==
    ASSUME AlertInv, NEW r \in Requests, NEW b \in AlertId, NEW patch \in Patch,
           StartUpdate(r, b, patch), NEW d \in Docs, NEW o \in Offsets
    PROVE  Allowed(d, o)
<1>1. OnlyJob(r) /\ alert' = alert
  BY RequestMoves DEF AlertRequest, StartUpdate, Begin, tables
<1>2. /\ job'[r].pc = "load" /\ job'[r].doc = alert[b].doc /\ job'[r].id = b
      /\ job'[r].patch = patch
  BY AlertTypes DEF StartUpdate, Begin, IdleJob
<1>3. \A a \in AlertId : Has(a, d, o)' => Has(a, d, o)
  BY <1>1 DEF Has, Live
<1>4. CASE alert[b].doc = d /\ patch.offset = o /\ alert[b].offset # o
  <2>1. ~HasOffset(d, o)
    BY <1>4, AlertTypes DEF StartUpdate
  <2> QED
    BY <1>3, <2>1 DEF Allowed, HasOffset, Has
<1>5. CASE alert[b].doc = d /\ patch.offset = o /\ alert[b].offset = o
  <2>1. b \in Occupied(d, o)
    BY <1>5 DEF Occupied, Has, StartUpdate
  <2> QED
    BY <1>1, <1>2, <1>3, <2>1, RequestAllowed DEF Inserts
<1>6. CASE ~(alert[b].doc = d /\ patch.offset = o)
  BY <1>1, <1>2, <1>3, <1>6, RequestAllowed DEF Inserts, Saves
<1> QED
  BY <1>4, <1>5, <1>6

LEMMA InsertAllowed ==
    ASSUME AlertInv, NEW r \in Requests, Insert(r), NEW d \in Docs, NEW o \in Offsets
    PROVE  Allowed(d, o)
<1>1. OnlyJob(r)
  BY RequestMoves DEF RequestStep
<1>2. CASE ~doc[job[r].doc]
  <2>1. job'[r].pc = "idle" /\ alert' = alert
    BY <1>2, AlertTypes DEF Insert, Finished
  <2>2. \A a \in AlertId : Has(a, d, o)' => Has(a, d, o)
    BY <2>1 DEF Has, Live
  <2> QED
    BY <1>1, <2>1, <2>2, RequestAllowed DEF Inserts, Saves
<1>3. CASE doc[job[r].doc]
  <2>1. PICK a \in AlertId :
          /\ alert' = [alert EXCEPT ![a] = job[r].row]
          /\ job' = [job EXCEPT ![r].pc = "activity", ![r].id = a, ![r].row = NoAlert]
    BY <1>3 DEF Insert
  <2>2. job'[r].pc = "activity"
    BY <2>1, AlertTypes DEF Job
  <2>3. job[r].pc = "insert" /\ job[r].row.doc = job[r].doc
    BY AlertTypes DEF Insert, At, AlertInv, JobOK, CreateOK
  <2>4. \A x \in Requests : x # r => job'[x] = job[x]
    BY <1>1 DEF OnlyJob, Slots
  <2>5. CASE job[r].doc = d /\ job[r].row.offset = o
    <3>1. r \in Inserters(d, o)
      BY <2>3, <2>5 DEF Inserters, Inserts
    <3>2. Inserters(d, o)' \subseteq Inserters(d, o) \ {r}
      BY <2>2, <2>4 DEF Inserters, Inserts
    <3>3. Occupied(d, o)' \subseteq Occupied(d, o) \cup {a}
      <4> SUFFICES ASSUME NEW b \in Occupied(d, o)', b # a
                   PROVE  b \in Occupied(d, o)
        OBVIOUS
      <4>1. b \in AlertId
        BY DEF Occupied
      <4>2. CASE Has(b, d, o)'
        <5>1. alert'[b] = alert[b]
          BY <2>1, <4>1, AlertTypes
        <5> QED
          BY <4>1, <4>2, <5>1 DEF Occupied, Has, Live
      <4>3. ASSUME NEW x \in Requests, Saves(job'[x], d, o), job'[x].id = b
            PROVE  b \in Occupied(d, o)
        <5>1. job'[x] = job[x]
          BY <2>2, <2>4, <4>3 DEF Saves
        <5> QED
          BY <4>1, <4>3, <5>1 DEF Occupied
      <4> QED
        BY <4>2, <4>3 DEF Occupied
    <3> QED
      BY <3>1, <3>2, <3>3 DEF Allowed
  <2>6. CASE ~(job[r].doc = d /\ job[r].row.offset = o)
    <3>1. \A b \in AlertId : Has(b, d, o)' => Has(b, d, o)
      BY <2>1, <2>3, <2>6, AlertTypes DEF Has, Live
    <3> QED
      BY <1>1, <2>2, <3>1, RequestAllowed DEF Inserts, Saves
  <2> QED
    BY <2>5, <2>6
<1> QED
  BY <1>2, <1>3

LEMMA LoadAllowed ==
    ASSUME AlertInv, NEW r \in Requests, Load(r), NEW d \in Docs, NEW o \in Offsets
    PROVE  Allowed(d, o)
<1>1. OnlyJob(r) /\ alert' = alert
  BY RequestMoves DEF RequestStep, Load, tables
<1>2. \A a \in AlertId : Has(a, d, o)' => Has(a, d, o)
  BY <1>1 DEF Has, Live
<1>3. CASE ~Live(job[r].id)
  <2>1. job'[r].pc = "idle"
    BY <1>3, AlertTypes DEF Load, Finished
  <2> QED
    BY <1>1, <1>2, <2>1, RequestAllowed DEF Inserts, Saves
<1>4. CASE Live(job[r].id)
  <2>1. /\ job'[r].pc = "save" /\ job'[r].row = alert[job[r].id] /\ job'[r].id = job[r].id
        /\ job'[r].doc = job[r].doc /\ job'[r].patch = job[r].patch
        /\ job'[r].moved = job[r].moved
    BY <1>4, AlertTypes DEF Load, Job
  <2>2. /\ job[r].pc = "load" /\ job[r].id \in AlertId
        /\ alert[job[r].id].doc = job[r].doc
    BY AlertTypes DEF Load, At, AlertInv, JobOK, UpdateOK, Updating
  <2>3. alert[job[r].id] \in AlertRow
    BY <2>2, AlertTypes
  <2>4. Saves(job'[r], d, o) => job'[r].id \in Occupied(d, o)
    <3>1. CASE job[r].patch.offset = NoOffset
      BY <1>4, <2>1, <2>2, <2>3, <3>1 DEF Saves, Changed, Occupied, Has, AlertRow
    <3>2. CASE job[r].patch.offset # NoOffset
      BY <2>1, <2>2, <2>3, <3>2 DEF Saves, Changed, Occupied, AlertRow
    <3> QED
      BY <3>1, <3>2
  <2> QED
    BY <1>1, <1>2, <2>1, <2>4, RequestAllowed DEF Inserts
<1> QED
  BY <1>3, <1>4

LEMMA SaveAllowed ==
    ASSUME AlertInv, NEW r \in Requests, Save(r), NEW d \in Docs, NEW o \in Offsets
    PROVE  Allowed(d, o)
<1>1. OnlyJob(r)
  BY RequestMoves DEF RequestStep
<1>2. /\ job[r].pc = "save" /\ job[r].id \in AlertId /\ job[r].row.doc = job[r].doc
      /\ job[r].row \in AlertRow
  BY AlertTypes DEF Save, At, AlertInv, JobOK, UpdateOK, Updating, Job
<1>3. CASE ~doc[job[r].doc]
  <2>1. job'[r].pc = "idle" /\ alert' = alert
    BY <1>3, AlertTypes DEF Save, Finished
  <2>2. \A a \in AlertId : Has(a, d, o)' => Has(a, d, o)
    BY <2>1 DEF Has, Live
  <2> QED
    BY <1>1, <2>1, <2>2, RequestAllowed DEF Inserts, Saves
<1>4. CASE doc[job[r].doc]
  <2> DEFINE row == Changed(job[r].row, job[r].patch, job[r].moved)
  <2>0. alert' = [alert EXCEPT ![job[r].id] = row]
    BY <1>4 DEF Save
  <2>1. job'[r].pc = "find" /\ alert' = [alert EXCEPT ![job[r].id] = row]
    <3>1. job' = [job EXCEPT ![r] = [IdleJob EXCEPT !.op = "update", !.pc = "find",
                                                    !.id = job[r].id]]
      BY <1>4 DEF Save
    <3> QED
      BY <2>0, <3>1, AlertTypes DEF IdleJob
  <2>2. row.doc = job[r].doc
    BY <1>2 DEF Changed, AlertRow
  <2>3. \A x \in Requests : x # r => job'[x] = job[x]
    BY <1>1 DEF OnlyJob, Slots
  <2> HIDE DEF row
  <2>4. Inserters(d, o)' \subseteq Inserters(d, o)
    BY <2>1, <2>3 DEF Inserters, Inserts
  <2>5. Occupied(d, o)' \subseteq Occupied(d, o)
    <3> SUFFICES ASSUME NEW a \in Occupied(d, o)'
                 PROVE  a \in Occupied(d, o)
      OBVIOUS
    <3>1. a \in AlertId
      BY DEF Occupied
    <3>2. CASE Has(a, d, o)' /\ a = job[r].id
      <4>1. Saves(job[r], d, o)
        BY <1>2, <2>1, <2>2, <3>2, AlertTypes DEF Has, Saves, row
      <4> QED
        BY <3>1, <3>2, <4>1 DEF Occupied
    <3>3. CASE Has(a, d, o)' /\ a # job[r].id
      <4>1. alert'[a] = alert[a]
        BY <2>1, <3>1, <3>3, AlertTypes
      <4> QED
        BY <3>1, <3>3, <4>1 DEF Occupied, Has, Live
    <3>4. ASSUME NEW x \in Requests, Saves(job'[x], d, o), job'[x].id = a
          PROVE  a \in Occupied(d, o)
      <4>1. job'[x] = job[x]
        BY <2>1, <2>3, <3>4 DEF Saves
      <4> QED
        BY <3>1, <3>4, <4>1 DEF Occupied
    <3> QED
      BY <3>2, <3>3, <3>4 DEF Occupied
  <2> QED
    BY <2>4, <2>5 DEF Allowed
<1> QED
  BY <1>3, <1>4

LEMMA OffsetNext ==
    ASSUME AlertInv, OffsetInv, [Next]_vars
    PROVE  OffsetInv'
<1>1. SlotsUsed'
  BY SlotsNext DEF OffsetInv
<1>2. UNCHANGED scenario
  BY DEF Next, AlertRequest, StartCreate, StartUpdate, StartDelete, StartDeleteDoc, Begin,
         RequestStep, Insert, WriteActivity, Load, Save, Delete, DeleteDoc, StartRun,
         DispatchStep, Find, LoadSettings, WriteFeed, Push, PushImpossible, Mail, MarkSent,
         ProcessFails, FeedFails, Abort, ChangeSettings, NextDay, Restart, vars, fixed
<1>3. ASSUME NEW r \in Requests, AlertRequest(r)
      PROVE  OffsetInv'
  <2>1. ASSUME NEW d0 \in Docs, NEW o0 \in Offsets, NEW date \in Day,
               NEW chans \in ChannelSets, StartCreate(r, d0, o0, date, chans)
        PROVE  OffsetInv'
    BY <1>1, <1>2, <2>1, CreateAllowed, OffsetStep
  <2>2. ASSUME NEW a \in AlertId, NEW patch \in Patch, StartUpdate(r, a, patch)
        PROVE  OffsetInv'
    BY <1>1, <1>2, <2>2, UpdateAllowed, OffsetStep
  <2>3. ASSUME job'[r].pc \in {"delete", "deleteDoc"}, alert' = alert
        PROVE  OffsetInv'
    <3>1. \A x \in Requests : x # r => job'[x] = job[x]
      BY <1>3, RequestMoves DEF OnlyJob, Slots
    <3>2. \A a \in AlertId : \A d, o : Has(a, d, o)' => Has(a, d, o)
      BY <2>3 DEF Has, Live
    <3> QED
      BY <1>1, <1>2, <2>3, <3>1, <3>2, CalmStep DEF Writing
  <2>4. ASSUME NEW a \in AlertId, StartDelete(r, a)
        PROVE  job'[r].pc = "delete" /\ alert' = alert
    BY <2>4, AlertTypes DEF StartDelete, Begin, tables, IdleJob
  <2>5. ASSUME NEW d \in Docs, StartDeleteDoc(r, d)
        PROVE  job'[r].pc = "deleteDoc" /\ alert' = alert
    BY <2>5, AlertTypes DEF StartDeleteDoc, Begin, tables, IdleJob
  <2> QED
    BY <1>3, <2>1, <2>2, <2>3, <2>4, <2>5 DEF AlertRequest
<1>4. ASSUME NEW r \in Requests, WriteActivity(r) \/ Delete(r) \/ DeleteDoc(r)
      PROVE  OffsetInv'
  <2>1. \A x \in Requests : x # r => job'[x] = job[x]
    BY <1>4, RequestMoves DEF OnlyJob, Slots, RequestStep
  <2>2. job'[r].pc \notin Writing
    <3>1. CASE WriteActivity(r)
      <4>1. CASE doc[job[r].doc]
        BY <3>1, <4>1, AlertTypes DEF WriteActivity, Moved, Job, Writing
      <4>2. CASE ~doc[job[r].doc]
        BY <3>1, <4>2, AlertTypes DEF WriteActivity, Finished, Writing
      <4> QED
        BY <4>1, <4>2
    <3>2. CASE Delete(r) \/ DeleteDoc(r)
      BY <3>2, AlertTypes DEF Delete, DeleteDoc, Finished, Writing
    <3> QED
      BY <1>4, <3>1, <3>2
  <2>3. \A a \in AlertId : \A d, o : Has(a, d, o)' => Has(a, d, o)
    <3>1. CASE WriteActivity(r)
      BY <3>1 DEF WriteActivity, tables, Has, Live
    <3>2. CASE Delete(r)
      <4>1. \A a \in AlertId : alert'[a] = alert[a] \/ alert'[a].state = "GONE"
        BY <3>2, AlertTypes DEF Delete, AlertRow
      <4> QED
        BY <4>1 DEF Has, Live
    <3>3. CASE DeleteDoc(r)
      <4>1. \A a \in AlertId : alert'[a] = alert[a] \/ alert'[a].state = "GONE"
        BY <3>3, AlertTypes DEF DeleteDoc, AlertRow
      <4> QED
        BY <4>1 DEF Has, Live
    <3> QED
      BY <1>4, <3>1, <3>2, <3>3
  <2> QED
    BY <1>1, <1>2, <2>1, <2>2, <2>3, CalmStep
<1>5. ASSUME NEW r \in Requests, Insert(r) \/ Load(r) \/ Save(r)
      PROVE  OffsetInv'
  BY <1>1, <1>2, <1>5, InsertAllowed, LoadAllowed, SaveAllowed, OffsetStep
<1>6. ASSUME NEW s \in Slots,
             DispatchStep(s) \/ ProcessFails(s) \/ FeedFails(s) \/ Abort(s)
      PROVE  OffsetInv'
  <2>1. \A x \in Requests : job'[x] = job[x] \/ job'[x].pc \notin Writing
    BY <1>6, DispatchMoves DEF OnlyJob, Slots
  <2>2. \A a \in AlertId : \A d, o : Has(a, d, o)' => Has(a, d, o)
    <3>1. CASE MarkSent(s)
      <4>1. \A a \in AlertId :
              /\ alert'[a].state = alert[a].state /\ alert'[a].doc = alert[a].doc
              /\ alert'[a].offset = alert[a].offset
        BY <3>1, AlertTypes DEF MarkSent, AlertRow
      <4> QED
        BY <4>1 DEF Has, Live
    <3>2. CASE ~MarkSent(s)
      <4>1. alert' = alert
        BY <1>6, <3>2
        DEF DispatchStep, Find, LoadSettings, WriteFeed, Push, PushImpossible, Mail,
            ProcessFails, FeedFails, Abort, tables
      <4> QED
        BY <4>1 DEF Has, Live
    <3> QED
      BY <3>1, <3>2
  <2> QED
    BY <1>1, <1>2, <2>1, <2>2, CalmStep
<1>7. CASE \/ \E k \in Runs : StartRun(k)
           \/ \E on \in SUBSET Switches : ChangeSettings(on)
           \/ NextDay \/ Restart \/ UNCHANGED vars
  <2>1. alert' = alert
    BY <1>7 DEF StartRun, ChangeSettings, NextDay, Restart, vars, tables
  <2>2. \A x \in Requests : job'[x] = job[x] \/ job'[x].pc \notin Writing
    <3>1. CASE Restart
      BY <3>1, AlertTypes DEF Restart, Writing
    <3>2. ASSUME NEW k \in Runs, StartRun(k)
          PROVE  \A x \in Requests : job'[x] = job[x] \/ job'[x].pc \notin Writing
      BY <3>2, AlertTypes DEF StartRun, Writing
    <3> QED
      BY <1>7, <3>1, <3>2 DEF ChangeSettings, NextDay, vars
  <2>3. \A a \in AlertId : \A d, o : Has(a, d, o)' => Has(a, d, o)
    BY <2>1 DEF Has, Live
  <2> QED
    BY <1>1, <1>2, <2>2, <2>3, CalmStep
<1> QED
  BY <1>3, <1>4, <1>5, <1>6, <1>7 DEF Next, RequestStep

LEMMA OffsetInit == Init => OffsetInv
<1> SUFFICES ASSUME Init, Writers # {}, NEW d \in Docs, NEW o \in Offsets
             PROVE  Cardinality(Occupied(d, o)) + Cardinality(Inserters(d, o))
                      <= Cardinality(Writers)
  BY SlotsInit DEF OffsetInv
<1>1. \A r \in Requests : job[r].pc = "idle"
  BY DEF Init, Slots, IdleJob
<1>2. PICK row \in Given \cup {NoAlert} : alert = [NoCopies EXCEPT ![1] = row]
  BY DEF Init
<1>3. \A a \in AlertId : a # 1 => ~Live(a)
  BY <1>2 DEF NoCopies, NoAlert, Live
<1>4. Inserters(d, o) = {} /\ Occupied(d, o) \subseteq {1}
  BY <1>1, <1>3 DEF Inserters, Inserts, Occupied, Saves, Has
<1>5. Cardinality(Inserters(d, o)) = 0 /\ Cardinality(Occupied(d, o)) <= 1
  <2>1. IsFiniteSet({1}) /\ Cardinality({1}) = 1
    BY FS_Singleton
  <2> QED
    BY <1>4, <2>1, FS_EmptySet, FS_Subset
<1>6. Cardinality(Writers) # 0 /\ Cardinality(Writers) \in Nat
  BY OffsetSets, FS_EmptySet
<1> QED
  BY <1>5, <1>6, OffsetSets

(* Overlapping creations and updates leave at most as many alerts of one   *)
(* offset on a document as requests can be in progress together, although  *)
(* no index keeps them unique and saves bring deleted alerts back.         *)
THEOREM OffsetsAreBounded == Spec => []OffsetsBounded
<1>1. AlertInv /\ OffsetInv /\ [Next]_vars => OffsetInv'
  BY OffsetNext
<1>2. Spec => []OffsetInv
  BY <1>1, OffsetInit, AlertsInductive, PTL DEF Spec
<1>3. OffsetInv => OffsetsBounded
  <2> SUFFICES ASSUME OffsetInv, Writers # {}, NEW d \in Docs, NEW o \in Offsets
               PROVE  Cardinality({a \in AlertId : Has(a, d, o)}) <= Cardinality(Writers)
    BY DEF OffsetsBounded, Writers, Has
  <2>1. {a \in AlertId : Has(a, d, o)} \in SUBSET Occupied(d, o)
    BY DEF Occupied
  <2>2. Cardinality({a \in AlertId : Has(a, d, o)}) <= Cardinality(Occupied(d, o))
        /\ Cardinality({a \in AlertId : Has(a, d, o)}) \in Nat
    BY <2>1, OffsetSets, NoMore
  <2>3. Cardinality(Occupied(d, o)) + Cardinality(Inserters(d, o)) <= Cardinality(Writers)
    BY DEF OffsetInv
  <2> QED
    BY <2>2, <2>3, OffsetSets
<1> QED
  BY <1>2, <1>3, PTL

-----------------------------------------------------------------------------
(* Announcements *)

LEMMA AnnounceTypes ==
    ASSUME AlertInv, NEW a \in AlertId
    PROVE  /\ IsFiniteSet(scenario.slots) /\ Cardinality(scenario.slots) \in Nat
           /\ Announcers(a) \in SUBSET scenario.slots /\ Others(a) \in SUBSET scenario.slots
           /\ Cardinality(Announcers(a)) \in Nat /\ Cardinality(Others(a)) \in Nat
           /\ Cardinality(Others(a)) <= Cardinality(scenario.slots)
           /\ count[a] \in Nat /\ armed[a] \in Nat /\ faults \in Nat
<1>1. Announcers(a) \in SUBSET scenario.slots /\ Others(a) \in SUBSET scenario.slots
  BY DEF Announcers, Others
<1>2. IsFiniteSet(Announcers(a)) /\ IsFiniteSet(Others(a))
  BY <1>1, AlertTypes, FS_Subset
<1>3. count[a] \in 0..MaxCount /\ armed[a] \in Nat /\ faults \in Nat
  BY DEF AlertInv, TypeOK
<1>4. count[a] \in Nat
  BY <1>3, AlertAssumption
<1> QED
  BY <1>1, <1>2, <1>3, <1>4, AlertTypes, NoMore, FS_CardinalityType

(* One more arming or failure allows each slot one more announcement.      *)
LEMMA BudgetGrows ==
    ASSUME NEW n \in Nat, NEW x \in Nat, NEW y \in Nat
    PROVE  /\ n * (x + 1 + y) = n * (x + y) + n
           /\ n * (x + (y + 1)) = n * (x + y) + n
           /\ n * (x + y) \in Nat
OBVIOUS

(* Two sets that differ in s only                                          *)
LEMMA OneChanges ==
    ASSUME NEW S, IsFiniteSet(S), NEW A \in SUBSET S, NEW B \in SUBSET S, NEW s,
           A \ {s} = B \ {s}
    PROVE  /\ Cardinality(B) + (IF s \in A THEN 1 ELSE 0)
                = Cardinality(A) + (IF s \in B THEN 1 ELSE 0)
           /\ Cardinality(A) \in Nat /\ Cardinality(B) \in Nat
<1>1. IsFiniteSet(A) /\ IsFiniteSet(B)
  BY FS_Subset
<1>2. Cardinality(A) \in Nat /\ Cardinality(B) \in Nat
  BY <1>1, FS_CardinalityType
<1>3. /\ Cardinality(A \ {s}) = IF s \in A THEN Cardinality(A) - 1 ELSE Cardinality(A)
      /\ Cardinality(B \ {s}) = IF s \in B THEN Cardinality(B) - 1 ELSE Cardinality(B)
  BY <1>1, FS_RemoveElement
<1>4. Cardinality(A \ {s}) = Cardinality(B \ {s})
  OBVIOUS
<1> QED
  BY <1>2, <1>3, <1>4

(* A step that leaves every job where it is with respect to a may arm a,   *)
(* which pays for all the others.                                          *)
LEMMA PlacesKept ==
    ASSUME AlertInv, AlertInv', NEW a \in AlertId, UNCHANGED <<scenario, faults>>,
           \A s \in Slots : /\ Announces(job'[s], a) <=> Announces(job[s], a)
                            /\ Marks(job'[s], a) <=> Marks(job[s], a),
           count'[a] = count[a],
           \/ armed'[a] = armed[a] /\ (Unsent(a)' => Unsent(a))
           \/ armed'[a] = armed[a] + 1,
           Spent(a) <= Cardinality(scenario.slots) * (armed[a] + faults)
    PROVE  Spent(a)' <= Cardinality(scenario.slots') * (armed'[a] + faults')
<1> DEFINE n == Cardinality(scenario.slots)
           h == Cardinality(Announcers(a))
           w == Cardinality(Others(a))
<1>1. Announcers(a)' = Announcers(a) /\ Others(a)' = Others(a)
  BY AlertTypes DEF Announcers, Others
<1>2. /\ n \in Nat /\ h \in Nat /\ w \in Nat /\ w <= n
      /\ count[a] \in Nat /\ armed[a] \in Nat /\ faults \in Nat
  BY AnnounceTypes
<1>3. /\ Spent(a) = count[a] + h + IF Unsent(a) THEN w ELSE 0
      /\ Spent(a)' = count[a] + h + IF Unsent(a)' THEN w ELSE 0
  BY <1>1 DEF Spent
<1>4. scenario.slots' = scenario.slots /\ faults' = faults
  OBVIOUS
<1> HIDE DEF n, h, w
<1>5. CASE armed'[a] = armed[a] /\ (Unsent(a)' => Unsent(a))
  BY <1>2, <1>3, <1>4, <1>5 DEF n
<1>6. CASE armed'[a] = armed[a] + 1
  <2>1. n * (armed[a] + 1 + faults) = n * (armed[a] + faults) + n
    BY <1>2, BudgetGrows
  <2>2. n * (armed[a] + faults) \in Nat
    BY <1>2, BudgetGrows
  <2>3. Spent(a) <= n * (armed[a] + faults)
    BY DEF n
  <2>4. Spent(a)' <= Spent(a) + n
    BY <1>2, <1>3
  <2>5. Spent(a) \in Nat /\ Spent(a)' \in Nat
    BY <1>2, <1>3
  <2>6. Spent(a)' <= n * (armed[a] + 1 + faults)
    BY <1>2, <2>1, <2>2, <2>3, <2>4, <2>5
  <2> QED
    BY <1>4, <1>6, <2>6 DEF n
<1> QED
  BY <1>5, <1>6

(* What the job in slot s may still add for a                              *)
Due1(j, a, unsent) ==
    IF Announces(j, a) THEN 1 ELSE IF unsent /\ ~Marks(j, a) THEN 1 ELSE 0

LEMMA SlotSpends ==
    ASSUME AlertInv, AlertInv', NEW a \in AlertId, NEW s \in scenario.slots, OnlyJob(s),
           UNCHANGED scenario, Unsent(a)' => Unsent(a)
    PROVE  /\ Spent(a)' + count[a] + Due1(job[s], a, Unsent(a))
                <= Spent(a) + count'[a] + Due1(job'[s], a, Unsent(a)')
           /\ Spent(a) \in Nat /\ Spent(a)' \in Nat
           /\ count[a] \in Nat /\ count'[a] \in Nat
<1> DEFINE A == Announcers(a)
           B == Others(a)
<1>1. /\ A \in SUBSET scenario.slots /\ B \in SUBSET scenario.slots
      /\ IsFiniteSet(scenario.slots)
  BY AnnounceTypes
<1>2. A' \in SUBSET scenario.slots /\ B' \in SUBSET scenario.slots
  BY DEF Announcers, Others
<1>3. A \ {s} = A' \ {s} /\ B \ {s} = B' \ {s}
  BY AlertTypes DEF OnlyJob, Announcers, Others
<1>4. /\ s \in A <=> Announces(job[s], a)
      /\ s \in A' <=> Announces(job'[s], a)
      /\ s \in B <=> ~Announces(job[s], a) /\ ~Marks(job[s], a)
      /\ s \in B' <=> ~Announces(job'[s], a) /\ ~Marks(job'[s], a)
  BY DEF Announcers, Others
<1>5. /\ Cardinality(A') + (IF s \in A THEN 1 ELSE 0)
            = Cardinality(A) + (IF s \in A' THEN 1 ELSE 0)
      /\ Cardinality(A) \in Nat /\ Cardinality(A') \in Nat
  BY <1>1, <1>2, <1>3, OneChanges
<1>6. /\ Cardinality(B') + (IF s \in B THEN 1 ELSE 0)
            = Cardinality(B) + (IF s \in B' THEN 1 ELSE 0)
      /\ Cardinality(B) \in Nat /\ Cardinality(B') \in Nat
  BY <1>1, <1>2, <1>3, OneChanges
<1>7. /\ Spent(a) = count[a] + Cardinality(A) + IF Unsent(a) THEN Cardinality(B) ELSE 0
      /\ Spent(a)' = count'[a] + Cardinality(A') + IF Unsent(a)' THEN Cardinality(B') ELSE 0
  BY DEF Spent
<1>8. count[a] \in Nat /\ count'[a] \in Nat
  <2>1. count[a] \in 0..MaxCount /\ count'[a] \in 0..MaxCount
    BY DEF AlertInv, TypeOK
  <2> QED
    BY <2>1, AlertAssumption
<1> HIDE DEF A, B
<1>9. Spent(a) \in Nat /\ Spent(a)' \in Nat
  BY <1>5, <1>6, <1>7, <1>8
<1>10. CASE Unsent(a)'
  BY <1>4, <1>5, <1>6, <1>7, <1>8, <1>9, <1>10 DEF Due1
<1>11. CASE ~Unsent(a)' /\ Unsent(a)
  <2>1. Cardinality(B) >= IF s \in B THEN 1 ELSE 0
    <3>1. IsFiniteSet(B)
      BY <1>1, FS_Subset
    <3>2. s \in B => Cardinality(B) # 0
      BY <3>1, FS_EmptySet
    <3> QED
      BY <1>6, <3>2
  <2> QED
    BY <1>4, <1>5, <1>6, <1>7, <1>8, <1>9, <1>11, <2>1 DEF Due1
<1>12. CASE ~Unsent(a)' /\ ~Unsent(a)
  BY <1>4, <1>5, <1>7, <1>8, <1>9, <1>12 DEF Due1
<1> QED
  BY <1>8, <1>9, <1>10, <1>11, <1>12

Within(a) == Spent(a) <= Cardinality(scenario.slots) * (armed[a] + faults)

(* A job pays for an announcement with what it was about to add.           *)
LEMMA SlotPays ==
    ASSUME AlertInv, AlertInv', NEW a \in AlertId, NEW s \in scenario.slots, OnlyJob(s),
           UNCHANGED <<scenario, faults>>, armed'[a] = armed[a], Unsent(a)' => Unsent(a),
           count'[a] + Due1(job'[s], a, Unsent(a)') <= count[a] + Due1(job[s], a, Unsent(a)),
           Within(a)
    PROVE  Within(a)'
<1> DEFINE x == Due1(job[s], a, Unsent(a))
           y == Due1(job'[s], a, Unsent(a)')
           n == Cardinality(scenario.slots)
<1>1. /\ Spent(a)' + count[a] + x <= Spent(a) + count'[a] + y
      /\ Spent(a) \in Nat /\ Spent(a)' \in Nat /\ count[a] \in Nat /\ count'[a] \in Nat
  BY SlotSpends
<1>2. x \in Nat /\ y \in Nat
  BY DEF Due1
<1>3. count'[a] + y <= count[a] + x
  OBVIOUS
<1> HIDE DEF x, y
<1>4. Spent(a)' <= Spent(a)
  BY <1>1, <1>2, <1>3
<1>5. n * (armed[a] + faults) \in Nat
  BY AnnounceTypes, BudgetGrows
<1> QED
  BY <1>1, <1>4, <1>5 DEF Within

(* A failure pays for what its job may announce again.                     *)
LEMMA FaultPays ==
    ASSUME AlertInv, AlertInv', NEW a \in AlertId, NEW s \in scenario.slots, OnlyJob(s),
           UNCHANGED <<scenario, alert, count, armed>>, faults' = faults + 1, Within(a)
    PROVE  Within(a)'
<1> DEFINE x == Due1(job[s], a, Unsent(a))
           y == Due1(job'[s], a, Unsent(a)')
           n == Cardinality(scenario.slots)
<1>1. Unsent(a)' => Unsent(a)
  BY DEF Unsent, Live
<1>2. /\ Spent(a)' + count[a] + x <= Spent(a) + count'[a] + y
      /\ Spent(a) \in Nat /\ Spent(a)' \in Nat /\ count[a] \in Nat /\ count'[a] \in Nat
  BY <1>1, SlotSpends
<1>3. x \in {0, 1} /\ y \in {0, 1} /\ count'[a] = count[a]
  BY DEF Due1
<1> HIDE DEF x, y
<1>4. Spent(a)' <= Spent(a) + 1
  BY <1>2, <1>3
<1>5. n \in Nat /\ n # 0
  BY AnnounceTypes, FS_EmptySet
<1>6. /\ n * (armed[a] + (faults + 1)) = n * (armed[a] + faults) + n
      /\ n * (armed[a] + faults) \in Nat
  BY <1>5, AnnounceTypes, BudgetGrows
<1>7. Spent(a) <= n * (armed[a] + faults)
  BY DEF Within
<1> HIDE DEF n
<1>8. Spent(a)' <= n * (armed[a] + (faults + 1))
  BY <1>2, <1>4, <1>5, <1>6, <1>7
<1> QED
  BY <1>8 DEF Within, n

LEMMA Remains ==
    ASSUME AlertInv, AlertInv', NEW a \in AlertId, UNCHANGED <<scenario, faults>>,
           \A s \in Slots : /\ Announces(job'[s], a) <=> Announces(job[s], a)
                            /\ Marks(job'[s], a) <=> Marks(job[s], a),
           count'[a] = count[a],
           \/ armed'[a] = armed[a] /\ (Unsent(a)' => Unsent(a))
           \/ armed'[a] = armed[a] + 1,
           Within(a)
    PROVE  Within(a)'
BY PlacesKept DEF Within

LEMMA FindPays ==
    ASSUME AlertInv, AlertInv', SlotsUsed, NEW s \in Slots, Find(s),
           NEW a \in AlertId, Within(a)
    PROVE  Within(a)'
<1>1. OnlyJob(s) /\ s \in scenario.slots /\ UNCHANGED <<scenario, faults, alert, count, armed>>
  BY DispatchMoves DEF DispatchStep, SlotsUsed, Find, fixed, tables, history
<1>2. Unsent(a)' <=> Unsent(a)
  BY <1>1 DEF Unsent, Live
<1>3. ~Announces(job[s], a) /\ ~Marks(job[s], a)
  BY DEF Find, At, Announces, Marks
<1>4. CASE Found(s) = {}
  <2>1. job'[s].pc = "idle"
    BY <1>4, AlertTypes DEF Find, Finished
  <2>2. Due1(job'[s], a, Unsent(a)') = Due1(job[s], a, Unsent(a))
    BY <1>2, <1>3, <2>1 DEF Due1, Announces, Marks
  <2> QED
    BY <1>1, <1>2, <2>2, SlotPays, AnnounceTypes DEF Due1
<1>5. CASE Found(s) # {}
  <2>1. job'[s].pc = "settings" /\ job'[s].left = Found(s)
    BY <1>5, AlertTypes DEF Find, Job
  <2>2. a \in Found(s) => Unsent(a)
    BY DEF Found, Due, Unsent
  <2>3. Due1(job'[s], a, Unsent(a)') = Due1(job[s], a, Unsent(a))
    BY <1>2, <1>3, <2>1, <2>2 DEF Due1, Announces, Marks
  <2> QED
    BY <1>1, <1>2, <2>3, SlotPays, AnnounceTypes DEF Due1
<1> QED
  BY <1>4, <1>5

LEMMA FeedPays ==
    ASSUME AlertInv, AlertInv', SlotsUsed, NEW s \in Slots, WriteFeed(s),
           NEW a \in AlertId, Within(a)
    PROVE  Within(a)'
<1>1. OnlyJob(s) /\ s \in scenario.slots /\ UNCHANGED <<scenario, faults, alert, armed>>
  BY DispatchMoves DEF DispatchStep, SlotsUsed, WriteFeed, fixed, tables
<1>2. Unsent(a)' <=> Unsent(a)
  BY <1>1 DEF Unsent, Live
<1>3. PICK b \in job[s].left :
        /\ count' = [count EXCEPT ![b] = CountUp(@)]
        /\ job' = [job EXCEPT ![s].id = b, ![s].left = @ \ {b}, ![s].pc = PushOrMore(s, b)]
  BY DEF WriteFeed
<1>4. /\ job'[s].id = b /\ job'[s].left = job[s].left \ {b}
      /\ job'[s].pc \in {"push", "mail", "mark"}
  <2>1. PushOrMore(s, b) \in {"push", "mail", "mark"}
    BY DEF PushOrMore, MailOrMark
  <2> QED
    BY <1>3, <2>1, AlertTypes DEF Job
<1>5. job[s].pc = "feed" /\ b \in AlertId
  BY AlertTypes DEF WriteFeed, At, Job
<1>6. count \in [AlertId -> 0..MaxCount] /\ MaxCount \in Nat
  BY AlertAssumption DEF AlertInv, TypeOK
<1>7. CASE a = b
  <2>1. count'[a] <= count[a] + 1 /\ count[a] \in Nat /\ count'[a] \in Nat
    BY <1>3, <1>5, <1>6, <1>7 DEF CountUp
  <2>2. Due1(job[s], a, Unsent(a)) = 1 /\ Due1(job'[s], a, Unsent(a)') = 0
    BY <1>4, <1>5, <1>7 DEF Due1, Announces, Marks
  <2>3. count'[a] + Due1(job'[s], a, Unsent(a)') <= count[a] + Due1(job[s], a, Unsent(a))
    BY <2>1, <2>2
  <2> QED
    BY <1>1, <1>2, <2>3, SlotPays
<1>8. CASE a # b
  <2>1. count'[a] = count[a] /\ count[a] \in Nat
    BY <1>3, <1>5, <1>6, <1>8
  <2>2. Due1(job'[s], a, Unsent(a)') = Due1(job[s], a, Unsent(a))
    BY <1>2, <1>4, <1>5, <1>8 DEF Due1, Announces, Marks
  <2>3. count'[a] + Due1(job'[s], a, Unsent(a)') <= count[a] + Due1(job[s], a, Unsent(a))
    BY <2>1, <2>2 DEF Due1
  <2> QED
    BY <1>1, <1>2, <2>3, SlotPays
<1> QED
  BY <1>7, <1>8

LEMMA MarkPays ==
    ASSUME AlertInv, AlertInv', SlotsUsed, NEW s \in Slots, MarkSent(s),
           NEW a \in AlertId, Within(a)
    PROVE  Within(a)'
<1>1. OnlyJob(s) /\ s \in scenario.slots /\ UNCHANGED <<scenario, faults, count, armed>>
  BY DispatchMoves DEF DispatchStep, SlotsUsed, MarkSent, fixed, history
<1>2. job[s].pc = "mark" /\ job[s].id \in AlertId /\ job[s].id \notin job[s].left
  BY DEF MarkSent, At, AlertInv, JobOK, DispatchOK
<1>3. /\ job'[s].pc \in {"idle", "feed"}
      /\ job'[s].pc = "feed" => job'[s].left = job[s].left
      /\ job'[s].pc = "idle" => job[s].left = {}
  <2>1. CASE job[s].left = {}
    BY <2>1, AlertTypes DEF MarkSent, Continued, Finished
  <2>2. CASE job[s].left # {}
    BY <2>2, AlertTypes DEF MarkSent, Continued, Job
  <2> QED
    BY <2>1, <2>2
<1>4. Unsent(a)' => Unsent(a) /\ a # job[s].id
  BY <1>2, AlertTypes DEF MarkSent, Unsent, Live, AlertRow
<1>5. a # job[s].id => (Unsent(a)' <=> Unsent(a))
  BY <1>2, AlertTypes DEF MarkSent, Unsent, Live, AlertRow
<1>6. Due1(job'[s], a, Unsent(a)') <= Due1(job[s], a, Unsent(a))
  <2>1. CASE a = job[s].id
    <3>1. Due1(job'[s], a, Unsent(a)') = 0
      BY <1>2, <1>3, <1>4, <2>1 DEF Due1, Announces, Marks
    <3> QED
      BY <3>1 DEF Due1
  <2>2. CASE a # job[s].id
    BY <1>2, <1>3, <1>5, <2>2 DEF Due1, Announces, Marks
  <2> QED
    BY <2>1, <2>2
<1>7. count'[a] = count[a] /\ count[a] \in Nat
  BY <1>1, AnnounceTypes
<1>8. count'[a] + Due1(job'[s], a, Unsent(a)') <= count[a] + Due1(job[s], a, Unsent(a))
  BY <1>6, <1>7 DEF Due1
<1> QED
  BY <1>1, <1>4, <1>8, SlotPays

LEMMA RestartPays ==
    ASSUME AlertInv, AlertInv', Restart, NEW a \in AlertId, Within(a)
    PROVE  Within(a)'
<1> DEFINE n == Cardinality(scenario.slots)
           h == Cardinality(Announcers(a))
           w == Cardinality(Others(a))
<1>1. UNCHANGED <<scenario, alert, count, armed>> /\ faults' = faults + 1
  BY DEF Restart, fixed, tables, history
<1>2. \A s \in scenario.slots : job'[s].pc \in {"idle", "find"}
  BY AlertTypes DEF Restart
<1>3. Announcers(a)' = {} /\ Others(a)' = scenario.slots
  BY <1>1, <1>2 DEF Announcers, Others, Announces, Marks
<1>4. Spent(a)' <= count[a] + n
  <2>1. Spent(a)' = count[a] + 0 + IF Unsent(a)' THEN n ELSE 0
    BY <1>1, <1>3, FS_EmptySet DEF Spent
  <2> QED
    BY <2>1, AnnounceTypes
<1>5. /\ n \in Nat /\ h \in Nat /\ w \in Nat /\ count[a] \in Nat
      /\ armed[a] \in Nat /\ faults \in Nat
  BY AnnounceTypes
<1>6. Spent(a) = count[a] + h + IF Unsent(a) THEN w ELSE 0
  BY DEF Spent
<1>7. /\ n * (armed[a] + (faults + 1)) = n * (armed[a] + faults) + n
      /\ n * (armed[a] + faults) \in Nat
  BY <1>5, BudgetGrows
<1>8. Spent(a) <= n * (armed[a] + faults)
  BY DEF Within
<1>9. Spent(a)' \in Nat
  BY <1>1, <1>3, <1>5, FS_EmptySet DEF Spent
<1> HIDE DEF n, h, w
<1>10. Spent(a)' <= n * (armed[a] + (faults + 1))
  BY <1>4, <1>5, <1>6, <1>7, <1>8, <1>9
<1> QED
  BY <1>1, <1>10 DEF Within, n

(* Requests have nothing to do with a dispatch before they find something. *)
Aside(j) == j.pc \notin {"settings", "feed", "push", "mail", "mark"}

LEMMA RequestsAside ==
    ASSUME AlertInv, NEW r \in Requests, AlertRequest(r) \/ RequestStep(r)
    PROVE  Aside(job[r]) /\ Aside(job'[r])
<1> USE AlertTypes DEF Aside, At, Idle
<1>1. CASE AlertRequest(r)
  <2>1. job[r].pc = "idle"
    BY <1>1
    DEF AlertRequest, StartCreate, StartUpdate, StartDelete, StartDeleteDoc, Begin
  <2>2. job'[r].pc \in {"insert", "load", "delete", "deleteDoc"}
    <3>1. ASSUME NEW d0 \in Docs, NEW o0 \in Offsets, NEW date \in Day,
                 NEW chans \in ChannelSets, StartCreate(r, d0, o0, date, chans)
          PROVE  job'[r].pc = "insert"
      BY <3>1 DEF StartCreate, Begin, IdleJob, NewAlert
    <3>2. ASSUME NEW a \in AlertId, NEW patch \in Patch, StartUpdate(r, a, patch)
          PROVE  job'[r].pc = "load"
      BY <3>2 DEF StartUpdate, Begin, IdleJob
    <3>3. ASSUME NEW a \in AlertId, StartDelete(r, a)
          PROVE  job'[r].pc = "delete"
      BY <3>3 DEF StartDelete, Begin, IdleJob
    <3>4. ASSUME NEW d \in Docs, StartDeleteDoc(r, d)
          PROVE  job'[r].pc = "deleteDoc"
      BY <3>4 DEF StartDeleteDoc, Begin, IdleJob
    <3> QED
      BY <1>1, <3>1, <3>2, <3>3, <3>4 DEF AlertRequest
  <2> QED
    BY <2>1, <2>2
<1>2. CASE Insert(r)
  <2>1. CASE doc[job[r].doc]
    <3>1. PICK a \in AlertId :
            job' = [job EXCEPT ![r].pc = "activity", ![r].id = a, ![r].row = NoAlert]
      BY <1>2, <2>1 DEF Insert
    <3>2. job'[r].pc = "activity"
      BY <3>1 DEF Job
    <3>3. job[r].pc = "insert"
      BY <1>2 DEF Insert
    <3> QED
      BY <3>2, <3>3
  <2>2. CASE ~doc[job[r].doc]
    BY <1>2, <2>2 DEF Insert, Finished
  <2> QED
    BY <2>1, <2>2
<1>3. CASE WriteActivity(r)
  <2>1. CASE doc[job[r].doc]
    BY <1>3, <2>1 DEF WriteActivity, Moved, Job
  <2>2. CASE ~doc[job[r].doc]
    BY <1>3, <2>2 DEF WriteActivity, Finished
  <2> QED
    BY <2>1, <2>2
<1>4. CASE Load(r)
  <2>1. CASE Live(job[r].id)
    BY <1>4, <2>1 DEF Load, Job
  <2>2. CASE ~Live(job[r].id)
    BY <1>4, <2>2 DEF Load, Finished
  <2> QED
    BY <2>1, <2>2
<1>5. CASE Save(r)
  <2>1. CASE doc[job[r].doc]
    <3>1. job' = [job EXCEPT ![r] = [IdleJob EXCEPT !.op = "update", !.pc = "find",
                                                    !.id = job[r].id]]
      BY <1>5, <2>1 DEF Save
    <3>2. job[r].pc = "save"
      BY <1>5 DEF Save
    <3> QED
      BY <3>1, <3>2 DEF IdleJob
  <2>2. CASE ~doc[job[r].doc]
    BY <1>5, <2>2 DEF Save, Finished
  <2> QED
    BY <2>1, <2>2
<1>6. CASE Delete(r) \/ DeleteDoc(r)
  BY <1>6 DEF Delete, DeleteDoc, Finished
<1> QED
  BY <1>1, <1>2, <1>3, <1>4, <1>5, <1>6 DEF RequestStep

(* A request that makes an alert unsent arms it.                           *)
LEMMA RequestArms ==
    ASSUME AlertInv, NEW r \in Requests, AlertRequest(r) \/ RequestStep(r),
           NEW a \in AlertId
    PROVE  \/ armed'[a] = armed[a] /\ (Unsent(a)' => Unsent(a))
           \/ armed'[a] = armed[a] + 1
<1>0. armed \in [AlertId -> Nat] /\ alert \in [AlertId -> AlertRow]
  BY DEF AlertInv, TypeOK
<1>1. CASE alert' = alert /\ armed' = armed
  BY <1>1 DEF Unsent, Live
<1>2. CASE Insert(r) /\ doc[job[r].doc]
  <2>1. PICK b \in AlertId :
          /\ alert' = [alert EXCEPT ![b] = job[r].row]
          /\ armed' = [armed EXCEPT ![b] = @ + 1]
    BY <1>2 DEF Insert
  <2> QED
    BY <1>0, <2>1 DEF Unsent, Live
<1>3. CASE Save(r) /\ doc[job[r].doc]
  <2> DEFINE row == Changed(job[r].row, job[r].patch, job[r].moved)
             b == job[r].id
  <2>1. /\ alert' = [alert EXCEPT ![b] = row]
        /\ armed' = IF ~row.sent /\ (alert[b].sent \/ ~Live(b))
                    THEN [armed EXCEPT ![b] = @ + 1] ELSE armed
    BY <1>3 DEF Save
  <2>2. b \in AlertId
    BY <1>3, AlertTypes DEF Save, At, AlertInv, JobOK, UpdateOK, Updating
  <2> HIDE DEF row, b
  <2>3. CASE a # b
    BY <1>0, <2>1, <2>2, <2>3 DEF Unsent, Live
  <2>4. CASE a = b /\ ~row.sent /\ (alert[b].sent \/ ~Live(b))
    BY <1>0, <2>1, <2>2, <2>4
  <2>5. CASE a = b /\ ~(~row.sent /\ (alert[b].sent \/ ~Live(b)))
    BY <1>0, <2>1, <2>2, <2>5 DEF Unsent, Live
  <2> QED
    BY <2>3, <2>4, <2>5
<1>4. CASE Delete(r) \/ DeleteDoc(r)
  <2>1. armed' = armed
    BY <1>4 DEF Delete, DeleteDoc, history
  <2>2. alert'[a] = alert[a] \/ alert'[a].state = "GONE"
    <3>1. CASE Delete(r)
      BY <1>0, <3>1 DEF Delete, AlertRow
    <3>2. CASE DeleteDoc(r)
      BY <1>0, <3>2 DEF DeleteDoc, AlertRow
    <3> QED
      BY <1>4, <3>1, <3>2
  <2> QED
    BY <2>1, <2>2 DEF Unsent, Live
<1>5. CASE AlertRequest(r) \/ WriteActivity(r) \/ Load(r)
  BY <1>1, <1>5
  DEF AlertRequest, StartCreate, StartUpdate, StartDelete, StartDeleteDoc, Begin,
      WriteActivity, Load, tables, history
<1>6. CASE Insert(r) /\ ~doc[job[r].doc]
  BY <1>1, <1>6 DEF Insert
<1>7. CASE Save(r) /\ ~doc[job[r].doc]
  BY <1>1, <1>7 DEF Save
<1> QED
  BY <1>2, <1>3, <1>4, <1>5, <1>6, <1>7 DEF RequestStep

LEMMA AnnounceNext ==
    ASSUME AlertInv, AlertInv', SlotsUsed, AnnounceInv, [Next]_vars
    PROVE  AnnounceInv'
<1>1. fcm' = fcm
  BY DEF Next, AlertRequest, StartCreate, StartUpdate, StartDelete, StartDeleteDoc, Begin,
         RequestStep, Insert, WriteActivity, Load, Save, Delete, DeleteDoc, StartRun,
         DispatchStep, Find, LoadSettings, WriteFeed, Push, PushImpossible, Mail, MarkSent,
         ProcessFails, FeedFails, Abort, ChangeSettings, NextDay, Restart, vars, fixed
<1> SUFFICES ASSUME fcm, NEW a \in AlertId
             PROVE  Within(a)'
  BY <1>1 DEF AnnounceInv, Within
<1>2. Within(a)
  BY DEF AnnounceInv, Within
<1>3. ASSUME NEW r \in Requests, AlertRequest(r) \/ RequestStep(r)
      PROVE  Within(a)'
  <2>1. /\ OnlyJob(r) /\ UNCHANGED <<scenario, count, faults>>
        /\ Aside(job[r]) /\ Aside(job'[r])
    BY <1>3, RequestMoves, RequestsAside DEF fixed
  <2>2. \A s \in Slots : /\ Announces(job'[s], a) <=> Announces(job[s], a)
                         /\ Marks(job'[s], a) <=> Marks(job[s], a)
    BY <2>1 DEF OnlyJob, Aside, Announces, Marks
  <2> QED
    BY <1>2, <1>3, <2>1, <2>2, RequestArms, Remains
<1>4. ASSUME NEW s \in Slots, LoadSettings(s) \/ Push(s) \/ Mail(s)
      PROVE  Within(a)'
  <2>1. OnlyJob(s) /\ UNCHANGED <<scenario, faults, alert, count, armed>>
    BY <1>4, DispatchMoves
    DEF DispatchStep, LoadSettings, Push, Mail, fixed, tables, history
  <2>2. /\ Announces(job'[s], a) <=> Announces(job[s], a)
        /\ Marks(job'[s], a) <=> Marks(job[s], a)
    <3>1. CASE LoadSettings(s)
      BY <3>1, AlertTypes DEF LoadSettings, At, Job, Announces, Marks
    <3>2. CASE Push(s)
      <4>1. MailOrMark(s, job[s].id) \in {"mail", "mark"}
        BY DEF MailOrMark
      <4> QED
        BY <3>2, <4>1, AlertTypes DEF Push, At, Moved, Job, Announces, Marks
    <3>3. CASE Mail(s)
      BY <3>3, AlertTypes DEF Mail, AfterMail, At, Moved, Job, Announces, Marks
    <3> QED
      BY <1>4, <3>1, <3>2, <3>3
  <2>3. \A x \in Slots : /\ Announces(job'[x], a) <=> Announces(job[x], a)
                         /\ Marks(job'[x], a) <=> Marks(job[x], a)
    BY <2>1, <2>2 DEF OnlyJob
  <2>4. Unsent(a)' => Unsent(a)
    BY <2>1 DEF Unsent, Live
  <2> QED
    BY <1>2, <2>1, <2>3, <2>4, Remains
<1>5. ASSUME NEW s \in Slots, ProcessFails(s) \/ FeedFails(s) \/ Abort(s)
      PROVE  Within(a)'
  <2>1. OnlyJob(s) /\ s \in scenario.slots
    BY <1>5, DispatchMoves DEF SlotsUsed
  <2>2. UNCHANGED <<scenario, alert, count, armed>> /\ faults' = faults + 1
    BY <1>5 DEF ProcessFails, FeedFails, Abort, fixed, tables, history
  <2> QED
    BY <1>2, <2>1, <2>2, FaultPays
<1>6. ASSUME NEW s \in Slots, DispatchStep(s)
      PROVE  Within(a)'
  BY <1>2, <1>4, <1>6, FindPays, FeedPays, MarkPays DEF DispatchStep, PushImpossible
<1>7. CASE \/ \E k \in Runs : StartRun(k)
           \/ \E on \in SUBSET Switches : ChangeSettings(on)
           \/ NextDay \/ UNCHANGED vars
  <2>1. UNCHANGED <<scenario, faults, alert, count, armed>>
    BY <1>7 DEF StartRun, ChangeSettings, NextDay, vars, tables, fixed, history
  <2>2. \A x \in Slots : job'[x] = job[x] \/ (Aside(job[x]) /\ Aside(job'[x]))
    <3>1. ASSUME NEW k \in Runs, StartRun(k)
          PROVE  \A x \in Slots : job'[x] = job[x] \/ (Aside(job[x]) /\ Aside(job'[x]))
      BY <3>1, AlertTypes DEF StartRun, Aside, Idle
    <3> QED
      BY <1>7, <3>1 DEF ChangeSettings, NextDay, vars
  <2>3. \A x \in Slots : /\ Announces(job'[x], a) <=> Announces(job[x], a)
                         /\ Marks(job'[x], a) <=> Marks(job[x], a)
    BY <2>2 DEF Aside, Announces, Marks
  <2>4. Unsent(a)' => Unsent(a)
    BY <2>1 DEF Unsent, Live
  <2> QED
    BY <1>2, <2>1, <2>3, <2>4, Remains
<1>8. CASE Restart
  BY <1>2, <1>8, RestartPays
<1> QED
  BY <1>3, <1>5, <1>6, <1>7, <1>8 DEF Next

LEMMA AnnounceInit == Init => AnnounceInv
<1> SUFFICES ASSUME Init, NEW a \in AlertId
             PROVE  Within(a)
  BY DEF AnnounceInv, Within
<1>1. AlertInv
  BY AlertsBegin
<1> DEFINE n == Cardinality(scenario.slots)
           w == Cardinality(Others(a))
<1>2. \A s \in scenario.slots : job[s].pc = "idle"
  BY <1>1, AlertTypes DEF Init
<1>3. Announcers(a) = {} /\ Cardinality(Announcers(a)) = 0
  BY <1>2, FS_EmptySet DEF Announcers, Announces
<1>4. n \in Nat /\ w \in Nat /\ w <= n
  BY <1>1, AnnounceTypes
<1>5. count[a] = 0 /\ faults = 0
  BY DEF Init
<1>6. Spent(a) = IF Unsent(a) THEN w ELSE 0
  BY <1>3, <1>4, <1>5 DEF Spent
<1>7. armed[a] = IF Unsent(a) THEN 1 ELSE 0
  <2>1. PICK row \in Given \cup {NoAlert} :
          /\ alert = [NoCopies EXCEPT ![1] = row]
          /\ armed = [x \in AlertId |-> IF alert[x] = NoAlert THEN 0 ELSE 1]
    BY DEF Init
  <2>2. \A x \in Given : x.state = "LIVE" /\ ~x.sent
    BY AlertAssumption DEF NewAlert
  <2>3. alert[a] = row \/ alert[a] = NoAlert
    BY <2>1 DEF NoCopies
  <2>4. NoAlert.state = "NONE"
    BY DEF NoAlert
  <2> QED
    BY <2>1, <2>2, <2>3, <2>4 DEF Unsent, Live
<1> HIDE DEF n, w
<1>8. CASE Unsent(a)
  <2>1. n * (1 + 0) = n
    BY <1>4
  <2>2. Spent(a) <= n * (armed[a] + faults)
    BY <1>4, <1>5, <1>6, <1>7, <1>8, <2>1
  <2> QED
    BY <2>2 DEF Within, n
<1>9. CASE ~Unsent(a)
  <2>1. n * (0 + 0) = 0
    BY <1>4
  <2>2. Spent(a) <= n * (armed[a] + faults)
    BY <1>5, <1>6, <1>7, <1>9, <2>1
  <2> QED
    BY <2>2 DEF Within, n
<1> QED
  BY <1>8, <1>9

(* As long as pushes are possible, an alert that is made unsent is         *)
(* announced at most once by every run and request that was in progress or *)
(* found it before it was marked (processAlert), and once more so after    *)
(* every failure.                                                          *)
THEOREM AnnouncementsAreBounded == Spec => []AnnouncementsBounded
<1>1. AlertInv /\ SlotsUsed /\ [Next]_vars => SlotsUsed'
  BY SlotsNext
<1>2. Spec => []SlotsUsed
  BY <1>1, SlotsInit, AlertsInductive, PTL DEF Spec
<1>3. AlertInv /\ AlertInv' /\ SlotsUsed /\ AnnounceInv /\ [Next]_vars => AnnounceInv'
  BY AnnounceNext
<1>4. Spec => []AnnounceInv
  BY <1>2, <1>3, AnnounceInit, AlertsInductive, PTL DEF Spec
<1>5. AlertInv /\ AnnounceInv => AnnouncementsBounded
  <2> SUFFICES ASSUME AlertInv, AnnounceInv, fcm, NEW a \in AlertId
               PROVE  count[a] <= Cardinality(scenario.slots) * (armed[a] + faults)
    BY DEF AnnouncementsBounded
  <2> DEFINE m == Cardinality(scenario.slots) * (armed[a] + faults)
  <2>1. Spent(a) <= m
    BY DEF AnnounceInv
  <2>2. count[a] <= Spent(a) /\ count[a] \in Nat /\ Spent(a) \in Nat
    BY AnnounceTypes DEF Spent
  <2>3. m \in Nat
    BY AnnounceTypes, BudgetGrows
  <2> HIDE DEF m
  <2>4. count[a] <= m
    BY <2>1, <2>2, <2>3
  <2> QED
    BY <2>4 DEF m
<1> QED
  BY <1>4, <1>5, AlertsInductive, PTL

=============================================================================
