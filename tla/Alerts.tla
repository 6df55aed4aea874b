------------------------------- MODULE Alerts -------------------------------
(***************************************************************************)
(* Alerts: the requests that write them, the runs and requests that send   *)
(* them, the days that pass, and failures.  A behaviour uses the           *)
(* operations and slots of one scenario.                                   *)
(***************************************************************************)
EXTENDS AlertRequests, AlertDispatch

(* There may be an alert already, which is unsent.                         *)
Init ==
    /\ today = 0
    /\ doc = [d \in Docs |-> TRUE]
    /\ \E row \in Given \cup {NoAlert} :
         /\ alert = [NoCopies EXCEPT ![1] = row]
         /\ armed = [a \in AlertId |-> IF alert[a] = NoAlert THEN 0 ELSE 1]
    /\ settings = Switches
    /\ fcm \in BOOLEAN
    /\ job = [s \in Slots |-> IdleJob]
    /\ scenario \in Scenarios
    /\ said = [a \in AlertId |-> {}]
    /\ count = [a \in AlertId |-> 0]
    /\ raced = {}
    /\ asked = 0 /\ faults = 0

NextDay ==
    /\ today < MaxDay
    /\ today' = today + 1
    /\ UNCHANGED <<tables, job, history, asked, faults, fixed>>

(* A database call of a request, or a query of a run, throws.              *)
Abort(s) ==
    /\ job[s].pc \in {"insert", "activity", "load", "save", "delete", "deleteDoc", "find",
                      "settings"}
    /\ faults < MaxFaults
    /\ faults' = faults + 1
    /\ job' = Finished(s)
    /\ UNCHANGED <<today, tables, history, asked, fixed>>

(* The server restarts, and catches up first (onApplicationBootstrap).     *)
Restart ==
    /\ faults < MaxFaults
    /\ faults' = faults + 1
    /\ \E k \in Runs \cap scenario.slots :
         job' = [s \in Slots |-> IF s = k THEN [IdleJob EXCEPT !.op = "run", !.pc = "find"]
                                 ELSE IdleJob]
    /\ UNCHANGED <<today, tables, history, asked, fixed>>

Next ==
    \/ \E r \in Requests : AlertRequest(r) \/ RequestStep(r)
    \/ \E k \in Runs : StartRun(k)
    \/ \E s \in Slots : DispatchStep(s) \/ ProcessFails(s) \/ FeedFails(s) \/ Abort(s)
    \/ \E on \in SUBSET Switches : ChangeSettings(on)
    \/ NextDay \/ Restart

Spec == Init /\ [][Next]_vars

(* The cron starts a run every day, and node goes on with what was started.*)
(* Requests, days, devices and failures owe nothing.                       *)
FairSpec ==
    /\ Spec
    /\ \A k \in Runs : WF_vars(StartRun(k))
    /\ \A s \in Slots : WF_vars(DispatchStep(s))

-----------------------------------------------------------------------------
(* Invariants *)

TypeOK ==
    /\ today \in Day
    /\ doc \in [Docs -> BOOLEAN]
    /\ alert \in [AlertId -> AlertRow]
    /\ settings \in SUBSET Switches
    /\ fcm \in BOOLEAN
    /\ job \in [Slots -> Job]
    /\ scenario \in Scenarios
    /\ said \in [AlertId -> SUBSET Day]
    /\ count \in [AlertId -> 0..MaxCount]
    /\ armed \in [AlertId -> Nat]
    /\ raced \in SUBSET AlertId
    /\ asked \in Nat /\ faults \in Nat

(* An alert that is marked as sent was announced for the date it has now,  *)
(* also after its date was moved, back and forth included.  The exception  *)
(* are updates that were not alone: a dispatch marks a date it never saw,  *)
(* and of two updates one decides on a date that the other has replaced.   *)
SentWasAnnounced ==
    \A a \in AlertId \ raced : Live(a) /\ alert[a].sent => alert[a].date \in said[a]

(* Each time an alert is made unsent it is announced at most once by every *)
(* run and request that found it before it was marked, and again so after  *)
(* every failure.  A mail that cannot be sent is no such failure.          *)
AnnouncementsBounded ==
    fcm => \A a \in AlertId : count[a] <= Cardinality(scenario.slots) * (armed[a] + faults)

(* Overlapping requests leave at most as many alerts of one offset on a    *)
(* document as requests can be in progress together.                       *)
OffsetsBounded ==
    Requests \cap scenario.slots # {} => \A d \in Docs, o \in Offsets :
        Cardinality({a \in AlertId : Live(a) /\ alert[a].doc = d /\ alert[a].offset = o})
            <= Cardinality(Requests \cap scenario.slots)

(* An alert never outlives its document: neither a create nor an update    *)
(* that saves a row deleted meanwhile brings one back.                     *)
NoAlertWithoutDocument == \A a \in AlertId : Live(a) => doc[alert[a].doc]

(* What a push of the alert as it is now would need.                       *)
NeedsPush(a) == "push" \in settings /\ alert[a].chans \cap Devices # {}

(* An alert that is due is sent, deleted or moved to a later day, whatever *)
(* happens to the other alerts of the run: also while every push throws,   *)
(* provided that this one needs none.                                      *)
DueIsSent ==
    Runs \cap scenario.slots # {} => \A a \in AlertId :
        Due(a) /\ (fcm \/ ~NeedsPush(a)) ~> ~Due(a) \/ (~fcm /\ NeedsPush(a))
===============================================================================
