------------------------------- MODULE StatsPage -------------------------------
(***************************************************************************)
(* The Stats tab (static/js/pages/stats.js): one selected range over three *)
(* groups of charts, filled by answers in whatever order they come.        *)
(*                                                                         *)
(* A chart is the range its points were asked for, NoRange before any.     *)
(***************************************************************************)
CONSTANTS
    Ranges,        \* the ranges offered
    FirstRange     \* the one that is selected at first

VARIABLES
    mins,          \* the selected range
    traffic,       \* the request figures and the connection and protocol charts
    banChart, resChart,
    loads,         \* the ranges of the load()s on the wire
    polls          \* the loadResources()s on the wire: the request each waits for

statsVars == <<mins, traffic, banChart, resChart, loads, polls>>
trafficVars == <<traffic, loads>>
pollVars == <<banChart, resChart, polls>>

NoRange == "none"
Shown == Ranges \cup {NoRange}

TypeOK ==
    /\ mins \in Ranges /\ {traffic, banChart, resChart} \subseteq Shown
    /\ loads \subseteq Ranges
    /\ polls \subseteq [stage : {"bans", "resources"}, for : Ranges]

Poll(m) == [stage |-> "bans", for |-> m]

(* The pane is painted, everything is asked for once, the timer starts.     *)
Init ==
    /\ mins = FirstRange /\ traffic = NoRange /\ banChart = NoRange /\ resChart = NoRange
    /\ loads = {FirstRange} /\ polls = {Poll(FirstRange)}

(***************************************************************************)
(* The selected range.                                                     *)
(***************************************************************************)
PickRange(m) ==
    /\ m # mins /\ mins' = m
    /\ loads' = loads \cup {m}
    /\ polls' = polls \cup {Poll(m)}
    /\ UNCHANGED <<traffic, banChart, resChart>>

(* Six requests, painted together; any failure is swallowed.                *)
Loaded(m) ==
    /\ m \in loads /\ loads' = loads \ {m}
    /\ \E ok \in BOOLEAN : traffic' = IF ok THEN m ELSE traffic
    /\ UNCHANGED mins /\ UNCHANGED pollVars

(* Every five seconds, whether or not the last one was answered.            *)
LiveTick ==
    /\ polls' = polls \cup {Poll(mins)}
    /\ UNCHANGED <<mins, banChart, resChart>> /\ UNCHANGED trafficVars

(* Bans first; then resources, for the range that is selected by then,      *)
(* although the bans may have failed.                                       *)
ForResources == [stage |-> "resources", for |-> mins]
BansAnswered(p, ok) ==
    /\ p \in polls /\ p.stage = "bans"
    /\ banChart' = IF ok THEN p.for ELSE banChart
    /\ polls' = (polls \ {p}) \cup {ForResources}
    /\ UNCHANGED <<mins, resChart>> /\ UNCHANGED trafficVars

ResourcesAnswered(p, ok) ==
    /\ p \in polls /\ p.stage = "resources"
    /\ resChart' = IF ok THEN p.for ELSE resChart
    /\ polls' = polls \ {p}
    /\ UNCHANGED <<mins, banChart>> /\ UNCHANGED trafficVars

Bans(m, ok) == BansAnswered(Poll(m), ok)
Resources(m, ok) == ResourcesAnswered([stage |-> "resources", for |-> m], ok)

Next ==
    \/ (\E m \in Ranges : PickRange(m) \/ Loaded(m))
    \/ LiveTick
    \/ (\E m \in Ranges, ok \in BOOLEAN : Bans(m, ok) \/ Resources(m, ok))

(* The timer runs; every request is answered or fails, and a server that    *)
(* keeps being asked answers at last.                                       *)
Fairness ==
    /\ WF_statsVars(LiveTick)
    /\ \A m \in Ranges : /\ WF_statsVars(\E ok \in BOOLEAN : Bans(m, ok))
                         /\ WF_statsVars(\E ok \in BOOLEAN : Resources(m, ok))
                         /\ SF_statsVars(Bans(m, TRUE)) /\ SF_statsVars(Resources(m, TRUE))
Spec == Init /\ [][Next]_statsVars
FairSpec == Spec /\ Fairness

(***************************************************************************)
(* Properties.                                                             *)
(***************************************************************************)
(* The ban and resource charts follow the selected range for good: answers  *)
(* to polls sent under an older range may still be drawn, but not for ever  *)
(* ("Must follow the selected range", stats.js:183).                        *)
ResourcesFollowTheRange ==
    \A m \in Ranges : <>[](mins = m) => <>[](banChart = m /\ resChart = m)

=============================================================================
