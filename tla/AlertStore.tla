----------------------------- MODULE AlertStore -----------------------------
(***************************************************************************)
(* What notification.scheduler.ts and the alert handlers of                *)
(* documents.service.ts share: the table document_alerts, the feed         *)
(* (notifications), the settings and the devices of a user, and the        *)
(* progress of runs and requests.                                          *)
(*                                                                         *)
(* All documents belong to one user, since the requests of others fail     *)
(* their ownership check before they write.  A date is a day; the feed is  *)
(* kept as what was announced and how often.                               *)
(***************************************************************************)
EXTENDS Naturals, FiniteSets

CONSTANTS
    Docs, NoDoc,
    Offsets, NoOffset,   \* AlertOffsetType
    Devices,             \* the push channels for which the user has an active token
    ChannelSets,         \* the sets of channels that a user switches on for an alert
    Given,               \* the alerts of which one may exist at the beginning
    Runs,                \* slots for dispatchDueAlerts: cron, start-up, manual trigger
    Requests,            \* slots for HTTP requests
    Scenarios,           \* operations, slots and number of requests of a behaviour
    MaxAlerts,           \* bound on rows of document_alerts
    MaxDay,              \* bound on the calendar
    MaxFaults,           \* bound: calls that throw, restarts
    MaxCount             \* announcements of one alert are counted up to here

AllOps == {"create", "update", "delete", "deleteDoc", "settings"}
Channels == {"app", "web", "mail"}
Switches == {"push", "mail"}

Slots == Runs \cup Requests
AlertId == 1..MaxAlerts
NoId == 0
Day == 0..MaxDay
NoDate == MaxDay + 1

VARIABLES
    today,
    doc,         \* the documents that exist
    alert,       \* alert[a]: the document_alerts row
    settings,    \* what user_settings leaves on: pushEnabled, emailNotiEnabled
    fcm,         \* firebase-admin was initialised
    job,         \* job[s]: the run or request in slot s
    scenario,    \* what this behaviour uses of them
    said,        \* said[a]: the dates that the feed announced a for
    count,       \* count[a]: feed entries written for a
    armed,       \* armed[a]: times that a was made unsent
    raced,       \* the alerts written by an update that was not alone
    asked,       \* requests so far
    faults       \* failures so far

tables == <<doc, alert, settings>>
history == <<said, count, armed, raced>>
fixed == <<fcm, scenario>>
vars == <<today, tables, job, history, asked, faults, fixed>>

-----------------------------------------------------------------------------
(* Rows and jobs *)

AlertRow ==
    [state : {"NONE", "LIVE", "GONE"}, doc : Docs \cup {NoDoc},
     offset : Offsets \cup {NoOffset}, date : Day, chans : SUBSET Channels, sent : BOOLEAN]
NoAlert ==
    [state |-> "NONE", doc |-> NoDoc, offset |-> NoOffset, date |-> 0, chans |-> {},
     sent |-> FALSE]
NewAlert(d, o, date, chans) ==
    [state |-> "LIVE", doc |-> d, offset |-> o, date |-> date, chans |-> chans,
     sent |-> FALSE]

(* The body of a PATCH: what it does not give stays as it was loaded.      *)
Patch == [offset : Offsets \cup {NoOffset}, date : Day \cup {NoDate}]
NoPatch == [offset |-> NoOffset, date |-> NoDate]

ASSUME AlertAssumption ==
    /\ NoDoc \notin Docs /\ NoOffset \notin Offsets
    /\ Devices \subseteq {"app", "web"} /\ ChannelSets \subseteq SUBSET Channels
    /\ IsFiniteSet(Runs) /\ IsFiniteSet(Requests) /\ Runs \cap Requests = {}
    /\ Scenarios \subseteq [ops : SUBSET AllOps, slots : SUBSET (Runs \cup Requests),
                      max : Nat]
    /\ Given \subseteq {NewAlert(d, o, date, chans) : d \in Docs, o \in Offsets,
                                                  date \in Day, chans \in ChannelSets}
    /\ MaxAlerts \in Nat \ {0} /\ MaxDay \in Nat
    /\ MaxFaults \in Nat /\ MaxCount \in Nat

JobPc ==
    {"idle", "insert", "activity", "load", "save", "delete", "deleteDoc", "find",
     "settings", "feed", "push", "mail", "mark"}

Job ==
    [op : AllOps \cup {"none", "run"}, pc : JobPc, id : AlertId \cup {NoId},
     doc : Docs \cup {NoDoc}, row : AlertRow, patch : Patch, moved : BOOLEAN,
     left : SUBSET AlertId, copy : [AlertId -> AlertRow], on : SUBSET Switches]

NoCopies == [a \in AlertId |-> NoAlert]
IdleJob ==
    [op |-> "none", pc |-> "idle", id |-> NoId, doc |-> NoDoc, row |-> NoAlert,
     patch |-> NoPatch, moved |-> FALSE, left |-> {}, copy |-> NoCopies, on |-> {}]

Idle(s) == job[s].pc = "idle"
At(s, pc) == job[s].pc = pc
Finished(s) == [job EXCEPT ![s] = IdleJob]
Moved(s, pc) == [job EXCEPT ![s].pc = pc]

-----------------------------------------------------------------------------
(* Queries *)

Live(a) == alert[a].state = "LIVE"

(* isSent = false and notifyDate <= today, with a document.                *)
Mut_Due(a) == Live(a) /\ alert[a].date <= today
Due(a) == Live(a) /\ ~alert[a].sent /\ alert[a].date <= today

(* findByDocumentIdAndOffsetType                                           *)
Mut_HasOffset(d, o) == FALSE
HasOffset(d, o) == \E a \in AlertId : Live(a) /\ alert[a].doc = d /\ alert[a].offset = o

(* Who holds a copy of alert a, read earlier and used later.               *)
Holds(s, a) ==
    \/ ~Idle(s) /\ job[s].id = a /\ job[s].op = "update" /\ job[s].pc \in {"load", "save"}
    \/ job[s].pc \in {"settings", "feed", "push", "mail", "mark"} /\
       (a \in job[s].left \/ job[s].id = a)
=============================================================================
