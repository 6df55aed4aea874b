--------------------------- MODULE AlertRequests ----------------------------
(***************************************************************************)
(* createAlert, updateAlert, deleteAlert and deleteDocument of             *)
(* documents.service.ts, and the user's switches.  The reads before the    *)
(* first write are one step, and a request that they refuse has no step;   *)
(* createAlert and updateAlert end with dispatchIfDueNow.                  *)
(***************************************************************************)
EXTENDS AlertStore

Begin(r, op, rest) ==
    /\ op \in scenario.ops /\ r \in scenario.slots /\ Idle(r) /\ asked < scenario.max
    /\ asked' = asked + 1
    /\ job' = [job EXCEPT ![r] = rest]
    /\ UNCHANGED <<today, tables, history, faults, fixed>>

StartCreate(r, d, o, date, chans) ==
    /\ doc[d] /\ ~HasOffset(d, o)
    /\ Begin(r, "create",
             [IdleJob EXCEPT !.op = "create", !.pc = "insert", !.doc = d,
                             !.row = NewAlert(d, o, date, chans)])

(* The row refers to its document, which must exist.                       *)
Insert(r) ==
    /\ At(r, "insert")
    /\ IF doc[job[r].doc]
       THEN \E a \in AlertId :
              /\ alert[a].state = "NONE"
              /\ \A b \in AlertId : alert[b].state = "NONE" => a <= b
              /\ alert' = [alert EXCEPT ![a] = job[r].row]
              /\ armed' = [armed EXCEPT ![a] = @ + 1]
              /\ job' = [job EXCEPT ![r].pc = "activity", ![r].id = a, ![r].row = NoAlert]
       ELSE /\ job' = Finished(r)
            /\ UNCHANGED <<alert, armed>>
    /\ UNCHANGED <<today, doc, settings, said, count, raced, asked, faults, fixed>>

(* The activity refers to the document as well.                            *)
WriteActivity(r) ==
    /\ At(r, "activity")
    /\ job' = IF doc[job[r].doc] THEN Moved(r, "find") ELSE Finished(r)
    /\ UNCHANGED <<today, tables, history, asked, faults, fixed>>

(* Whether the date changes is decided on the row as first read.           *)
StartUpdate(r, a, patch) ==
    /\ Live(a) /\ doc[alert[a].doc]
    /\ \/ patch.offset \in {NoOffset, alert[a].offset}
       \/ ~HasOffset(alert[a].doc, patch.offset)
    /\ Begin(r, "update",
             [IdleJob EXCEPT !.op = "update", !.pc = "load", !.id = a, !.doc = alert[a].doc,
                             !.patch = patch,
                             !.moved = patch.date \notin {NoDate, alert[a].date}])

(* updateAlert of the repository loads the row once more,                  *)
Load(r) ==
    /\ At(r, "load")
    /\ job' = IF Live(job[r].id)
              THEN [job EXCEPT ![r].pc = "save", ![r].row = alert[job[r].id]]
              ELSE Finished(r)
    /\ UNCHANGED <<today, tables, history, asked, faults, fixed>>

Mut_ChangedAll(row, patch, moved) ==
    [row EXCEPT !.offset = patch.offset, !.date = patch.date, !.sent = ~moved /\ @]
Mut_Changed(row, patch, moved) ==
    [row EXCEPT !.offset = IF patch.offset = NoOffset THEN @ ELSE patch.offset,
                !.date = IF patch.date = NoDate THEN @ ELSE patch.date]
Changed(row, patch, moved) ==
    [row EXCEPT !.offset = IF patch.offset = NoOffset THEN @ ELSE patch.offset,
                !.date = IF patch.date = NoDate THEN @ ELSE patch.date,
                !.sent = ~moved /\ @]

(* and saves all of it, which inserts it again if it was deleted.          *)
Save(r) ==
    LET a == job[r].id
        row == Changed(job[r].row, job[r].patch, job[r].moved)
    IN  /\ At(r, "save")
        /\ IF doc[job[r].doc]
           THEN /\ alert' = [alert EXCEPT ![a] = row]
                /\ armed' = IF ~row.sent /\ (alert[a].sent \/ ~Live(a))
                            THEN [armed EXCEPT ![a] = @ + 1] ELSE armed
                /\ raced' = IF \E s \in Slots \ {r} : Holds(s, a) THEN raced \cup {a} ELSE raced
                /\ job' = [job EXCEPT ![r] = [IdleJob EXCEPT !.op = "update", !.pc = "find",
                                                             !.id = a]]
           ELSE /\ job' = Finished(r)
                /\ UNCHANGED <<alert, armed, raced>>
        /\ UNCHANGED <<today, doc, settings, said, count, asked, faults, fixed>>

StartDelete(r, a) ==
    /\ Live(a) /\ doc[alert[a].doc]
    /\ Begin(r, "delete", [IdleJob EXCEPT !.op = "delete", !.pc = "delete", !.id = a])

Delete(r) ==
    /\ At(r, "delete")
    /\ alert' = [alert EXCEPT ![job[r].id].state = "GONE", ![job[r].id].sent = FALSE]
    /\ job' = Finished(r)
    /\ UNCHANGED <<today, doc, settings, history, asked, faults, fixed>>

StartDeleteDoc(r, d) ==
    /\ doc[d]
    /\ Begin(r, "deleteDoc", [IdleJob EXCEPT !.op = "deleteDoc", !.pc = "deleteDoc", !.doc = d])

(* One transaction, which an alert inserted meanwhile makes fail.          *)
Mut_OfDoc(a, d) == FALSE
OfDoc(a, d) == alert[a].doc = d
DeleteDoc(r) ==
    LET d == job[r].doc
    IN  /\ At(r, "deleteDoc")
        /\ doc' = [doc EXCEPT ![d] = FALSE]
        /\ alert' = [a \in AlertId |-> IF Live(a) /\ OfDoc(a, d)
                                       THEN [alert[a] EXCEPT !.state = "GONE", !.sent = FALSE]
                                       ELSE alert[a]]
        /\ job' = Finished(r)
        /\ UNCHANGED <<today, settings, history, asked, faults, fixed>>

ChangeSettings(on) ==
    /\ "settings" \in scenario.ops /\ asked < scenario.max
    /\ asked' = asked + 1
    /\ settings' = on
    /\ UNCHANGED <<today, doc, alert, history, job, faults, fixed>>

AlertRequest(r) ==
    \/ \E d \in Docs, o \in Offsets, date \in Day, chans \in ChannelSets :
         StartCreate(r, d, o, date, chans)
    \/ \E a \in AlertId, patch \in Patch : StartUpdate(r, a, patch)
    \/ \E a \in AlertId : StartDelete(r, a)
    \/ \E d \in Docs : StartDeleteDoc(r, d)

RequestStep(r) ==
    \/ Insert(r) \/ WriteActivity(r) \/ Load(r) \/ Save(r) \/ Delete(r) \/ DeleteDoc(r)
=============================================================================
