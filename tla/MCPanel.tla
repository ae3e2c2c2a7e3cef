------------------------------ MODULE MCPanel ------------------------------
(***************************************************************************)
(* Small instances of the panel's pages, side by side: `part` says which   *)
(* one a behaviour is about, and the variables of the others stand still.  *)
(* A page's properties are guarded by its part; its liveness properties    *)
(* carry the fairness of its own module.                                   *)
(***************************************************************************)
EXTENDS PanelPages

VARIABLE part

(* Two services and two SNI rules on two ports and the internal one.        *)
HttpServices ==
    {s \in [host : {"h1", "h2"}, listen : {0, 8443}, target : {"127.0.0.1", "far"},
            port : {1}, pass : {FALSE}, disabled : BOOLEAN] :
        /\ s.disabled => s.host = "h1" /\ s.listen = 0 /\ s.target = "far"
        /\ s.host = "h2" => s.target = "far"}
Rules ==
    {r \in [ports : {{}, {443}, {8443}, {443, 8443}}, target : {"127.0.0.1", "far"}, port : {1},
            pass : BOOLEAN, disabled : {FALSE}] :
        /\ r.pass => r.target = "far" /\ r.ports = {443}
        /\ r.ports \in {{}, {8443}} => r.target = "far"
        /\ r.ports = {443, 8443} => r.target = "127.0.0.1"}
ServicesAB == <<"a", "b">>
RulesRS == <<"r", "s">>

(* Two dialogs or two jobs, two runs of the wizard, two clicks on a tab that *)
(* was opened twice would be too many states together: each pair has its    *)
(* part, an instance with less of the other.                                *)

(* Both dialogs and one job, then one dialog and two jobs.                  *)
BothDialogs == INSTANCE CertJobs WITH
          Kinds <- {"issue", "domain"}, JobIds <- {1, 2}, MaxJobs <- 1
TwoJobs == INSTANCE CertJobs WITH
          Kinds <- {"issue"}, JobIds <- {1, 2}, MaxJobs <- 2

(* The wizard has every kind of answer and one run, then two runs of sound  *)
(* answers.                                                                 *)
OneRun == INSTANCE InstallWizard WITH MaxRuns <- 1
TwoRuns == INSTANCE InstallWizard WITH Answers <- {"good"}, Ports <- {"good"}

(* The ladder: half an hour, then for ever; 15 minutes and an hour are      *)
(* offered.                                                                 *)
HalfAnHourThenEver == <<30, -1>>
QuarterOrHour == <<15, 60>>

ASSUME PagesAssumption

(* A handshake that failed on its parameters, and a request that was served. *)
Handshake == [style |-> "error", mark |-> "crit", says |-> {"tls_mismatch", "tls_cert"}]
Served == [style |-> "access", mark |-> "2xx", says |-> {}]
HandshakeOrServed == {Handshake, Served}

(* The Backup tab left and opened again around one click, then two clicks.  *)
OneArchive == {[encrypt |-> TRUE, offsite |-> FALSE, pass |-> "p"]}
OneClick == INSTANCE BackupTab WITH
          Kept <- OneArchive, JobIds <- {1, 2}, MaxJobs <- 1, None <- NoPass,
          stored <- settings, gets <- tabGets, form <- tabForm, listed <- tabListed,
          jobs <- requests
TwoClicks == INSTANCE BackupTab WITH
          Kept <- {}, JobIds <- {1, 2}, MaxJobs <- 2, MaxVisits <- 1, None <- NoPass,
          stored <- settings, gets <- tabGets, form <- tabForm, listed <- tabListed,
          jobs <- requests

----------------------------------------------------------------------------
Parts == {"session", "map", "shell", "list", "services", "stats", "breakdown", "certs",
          "jobs", "ladder", "wizard", "runs", "tuning", "logs", "bans", "backup",
          "clicks"}

PanelInit ==
    /\ part \in Parts
    /\ Init /\ MapInit /\ ShellInit /\ Services!Init /\ Stats!Init /\ Breakdown!Init
    /\ LadderInit /\ WizardInit /\ Logs!Init /\ Bans!Init
    /\ part = "logs" \/ limit = 1
    /\ TuningInit /\ (part = "tuning" \/ tuning.on)
    /\ ListInit /\ (part = "list" \/ size = 1)
    /\ IF part = "certs" THEN BothDialogs!Init ELSE TwoJobs!Init
    /\ IF part = "backup" THEN OneClick!Init ELSE TwoClicks!Init

OnlyOf(P) ==
    /\ part \in P /\ UNCHANGED part
    /\ IF "session" \in P THEN TRUE ELSE UNCHANGED sessionVars
    /\ IF "map" \in P THEN TRUE ELSE UNCHANGED topo
    /\ IF "shell" \in P THEN TRUE ELSE UNCHANGED shellVars
    /\ IF "list" \in P THEN TRUE ELSE UNCHANGED listVars
    /\ IF "services" \in P THEN TRUE ELSE UNCHANGED svcVars
    /\ IF "stats" \in P THEN TRUE ELSE UNCHANGED statsVars
    /\ IF "breakdown" \in P THEN TRUE ELSE UNCHANGED breakdownVars
    /\ IF P \cap {"certs", "jobs"} # {} THEN TRUE ELSE UNCHANGED jobVars
    /\ IF "ladder" \in P THEN TRUE ELSE UNCHANGED ladderVars
    /\ IF P \cap {"wizard", "runs"} # {} THEN TRUE ELSE UNCHANGED wizardVars
    /\ IF "tuning" \in P THEN TRUE ELSE UNCHANGED tuningVars
    /\ IF "logs" \in P THEN TRUE ELSE UNCHANGED logsVars
    /\ IF "bans" \in P THEN TRUE ELSE UNCHANGED banVars
    /\ IF P \cap {"backup", "clicks"} # {} THEN TRUE ELSE UNCHANGED backupVars

PanelNext ==
    \/ OnlyOf({"session"}) /\ Next
    \/ OnlyOf({"map"}) /\ MapNext
    \/ OnlyOf({"shell"}) /\ ShellNext
    \/ OnlyOf({"list"}) /\ ListNext
    \/ OnlyOf({"services"}) /\ Services!Next
    \/ OnlyOf({"stats"}) /\ Stats!Next
    \/ OnlyOf({"breakdown"}) /\ Breakdown!Next
    \/ OnlyOf({"certs"}) /\ BothDialogs!Next
    \/ OnlyOf({"jobs"}) /\ TwoJobs!Next
    \/ OnlyOf({"ladder"}) /\ LadderNext
    \/ OnlyOf({"wizard"}) /\ OneRun!WizardNext
    \/ OnlyOf({"runs"}) /\ TwoRuns!WizardNext
    \/ OnlyOf({"tuning"}) /\ TuningNext
    \/ OnlyOf({"logs"}) /\ Logs!Next
    \/ OnlyOf({"bans"}) /\ Bans!Next
    \/ OnlyOf({"backup"}) /\ OneClick!Next
    \/ OnlyOf({"clicks"}) /\ TwoClicks!Next

panelVars == <<part, topo, sessionVars, shellVars, listVars, svcVars, statsVars,
               breakdownVars, jobVars, ladderVars, wizardVars, tuningVars, logsVars, banVars,
               backupVars>>
PanelSpec == PanelInit /\ [][PanelNext]_panelVars

----------------------------------------------------------------------------
(* app.js: a panel left alone is locked.                                    *)
PanelLocks == part = "session" /\ Fairness => LeftAloneIsLocked
(* app.js, tabpage.js, stats.js: the page and the tab asked for last open,  *)
(* with the charts and rows of what is highlighted.                         *)
AnswersLandWhereAsked ==
    /\ part = "shell" /\ ShellFairness => NewestOpens
    /\ part = "stats" /\ Stats!Fairness => Stats!ResourcesFollowTheRange
    /\ []Breakdown!RowsAreOfTheActiveTab
(* certs.js, domains.js, services.js, backuptab.js: what a click disables   *)
(* comes back, whatever fails.  The fairness of both certificate parts is   *)
(* one and the same: the bounds do not change what is enabled.              *)
ButtonsComeBack ==
    /\ part \in {"certs", "jobs"} /\ TwoJobs!Fairness => TwoJobs!ButtonsComeBack
    /\ part = "services" /\ Services!Fairness => Services!NoSwitchStaysBusy
    /\ []Backup!ButtonsComeBack

=============================================================================
