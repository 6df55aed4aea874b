------------------------------ MODULE MCAlerts ------------------------------
(* Constants of the TLC runs of Alerts.                                    *)
EXTENDS Alerts, TLC

CONSTANTS FirstRun, FirstRequest

AlertChannels == {{"mail"}, {"app"}}

AppOnly == {"app"}

GivenAlerts ==
    {NewAlert(d, "M1", date, chans) : d \in Docs, date \in Day, chans \in ChannelSets}

(* Two requests at once, a run besides a request, and two runs at once.    *)
AlertScenarios ==
    LET Using(o, s, n) == [ops |-> o, slots |-> s, max |-> n]
    IN  {Using({"create", "update"}, Requests, 2), Using({"create", "deleteDoc"}, Requests, 2),
         Using({"update", "delete"}, Requests, 2), Using({"update", "deleteDoc"}, Requests, 2),
         Using({"create", "update"}, {FirstRun, FirstRequest}, 1),
         Using({"settings"}, Runs, 1)}
=============================================================================
