--------------------------- MODULE AlertDispatch ----------------------------
(***************************************************************************)
(* notification.scheduler.ts: dispatchDueAlerts (a run) and                *)
(* dispatchIfDueNow (the tail of a request), which both hand every alert   *)
(* they found to processAlert.  They work on copies: the rows as found,    *)
(* and the settings as loaded before the first alert.                      *)
(***************************************************************************)
EXTENDS AlertStore

(* The cron, the start-up hook or the manual trigger.                      *)
StartRun(k) ==
    /\ Idle(k) /\ k \in scenario.slots
    /\ job' = [job EXCEPT ![k] = [IdleJob EXCEPT !.op = "run", !.pc = "find"]]
    /\ UNCHANGED <<today, tables, history, asked, faults, fixed>>

(* A run looks at all alerts, a request at its own.                        *)
Mut_Found(s) ==
    {a \in AlertId : Due(a) /\ alert[a].date = today /\ (s \in Requests => a = job[s].id)}
Found(s) == {a \in AlertId : Due(a) /\ (s \in Requests => a = job[s].id)}
Find(s) ==
    LET found == Found(s)
    IN  /\ At(s, "find")
        /\ job' = IF found = {} THEN Finished(s)
                  ELSE [job EXCEPT ![s].pc = "settings", ![s].left = found, ![s].id = NoId,
                                   ![s].copy = [a \in AlertId |-> IF a \in found THEN alert[a]
                                                                  ELSE NoAlert]]
        /\ UNCHANGED <<today, tables, history, asked, faults, fixed>>

LoadSettings(s) ==
    /\ At(s, "settings")
    /\ job' = [job EXCEPT ![s].pc = "feed", ![s].on = settings]
    /\ UNCHANGED <<today, tables, history, asked, faults, fixed>>

(* The devices that a push would reach, and where processAlert goes after  *)
(* the feed and after the push.                                            *)
Targets(s, a) == job[s].copy[a].chans \cap Devices
MailOrMark(s, a) == IF "mail" \in job[s].on \cap job[s].copy[a].chans THEN "mail" ELSE "mark"
PushOrMore(s, a) ==
    IF "push" \in job[s].on /\ job[s].copy[a].chans \cap {"app", "web"} # {}
    THEN "push" ELSE MailOrMark(s, a)

CountUp(n) == IF n < MaxCount THEN n + 1 ELSE n

(* processAlert begins with the feed; the query gave the alerts in no      *)
(* particular order.                                                       *)
WriteFeed(s) ==
    /\ At(s, "feed")
    /\ \E a \in job[s].left :
         /\ said' = [said EXCEPT ![a] = @ \cup {job[s].copy[a].date}]
         /\ count' = [count EXCEPT ![a] = CountUp(@)]
         /\ job' = [job EXCEPT ![s].id = a, ![s].left = @ \ {a}, ![s].pc = PushOrMore(s, a)]
    /\ UNCHANGED <<today, tables, armed, raced, asked, faults, fixed>>

(* sendFcmPush: without a token there is nothing to send.                  *)
Push(s) ==
    /\ At(s, "push")
    /\ fcm \/ Targets(s, job[s].id) = {}
    /\ job' = Moved(s, MailOrMark(s, job[s].id))
    /\ UNCHANGED <<today, tables, history, asked, faults, fixed>>

(* The loop goes on to the next alert, or ends.                            *)
Continued(s) ==
    IF job[s].left = {} THEN Finished(s)
    ELSE [job EXCEPT ![s].pc = "feed", ![s].id = NoId,
                     ![s].copy = [@ EXCEPT ![job[s].id] = NoAlert]]

(* What an exception of processAlert leads to: the loop catches it.        *)
Caught(s) == Continued(s)

(* Without firebase every push to a device throws.                         *)
PushImpossible(s) ==
    /\ At(s, "push") /\ ~fcm /\ Targets(s, job[s].id) # {}
    /\ job' = Caught(s)
    /\ UNCHANGED <<today, tables, history, asked, faults, fixed>>

(* The mail server accepts the mail, or throws, which is only logged.      *)
Mut_AfterMail(s) == {Moved(s, "mark"), Caught(s)}
AfterMail(s) == {Moved(s, "mark")}
Mail(s) ==
    /\ At(s, "mail")
    /\ job' \in AfterMail(s)
    /\ UNCHANGED <<today, tables, history, asked, faults, fixed>>

(* The update names the alert only: it reaches whatever the row is now.    *)
MarkSent(s) ==
    LET a == job[s].id
    IN  /\ At(s, "mark")
        /\ alert' = IF Live(a) THEN [alert EXCEPT ![a].sent = TRUE] ELSE alert
        /\ job' = Continued(s)
        /\ UNCHANGED <<today, doc, settings, history, asked, faults, fixed>>

(* An insert, a push or the update throws.                                 *)
ProcessFails(s) ==
    /\ (At(s, "push") /\ fcm) \/ At(s, "mark")
    /\ faults < MaxFaults
    /\ faults' = faults + 1
    /\ job' = Caught(s)
    /\ UNCHANGED <<today, tables, history, asked, fixed>>

FeedFails(s) ==
    /\ At(s, "feed") /\ faults < MaxFaults
    /\ faults' = faults + 1
    /\ \E a \in job[s].left :
         job' = IF job[s].left = {a} THEN Finished(s) ELSE [job EXCEPT ![s].left = @ \ {a}]
    /\ UNCHANGED <<today, tables, history, asked, fixed>>

DispatchStep(s) ==
    \/ Find(s) \/ LoadSettings(s) \/ WriteFeed(s) \/ Push(s) \/ PushImpossible(s)
    \/ Mail(s) \/ MarkSent(s)
=============================================================================
