---------------------------- MODULE PanelPages ----------------------------
(***************************************************************************)
(* The panel's pages side by side, each with its own parameters, and what  *)
(* is said of several of them at once.  Nothing is shared between pages    *)
(* here but the browser tab: the pages whose definitions have names in     *)
(* common are instances.                                                   *)
(***************************************************************************)
EXTENDS PanelSession, TopologyMap, PanelShell, ListPage, LadderForm, TuningForm, InstallWizard

CONSTANTS
    Names, Clicked, MaxRequests,                             \* services.js
    Ranges, FirstRange, Dims, FirstDim,                      \* stats.js
    Domains, CertDialogs, CertJobIds, MaxCertJobs,           \* certs.js, domains.js
    Sources, Lines, Fetched, Levels, Limits, MaxLines,       \* logs.js
    Ips, BanJobIds, MaxOffences, MaxBanJobs,                 \* autoban.js
    Passphrases, Strong, KeptArchives, TabJobIds, MaxClicks, \* backuptab.js
    MaxVisits, NoPass

VARIABLES
    records, listed, switch, dom, open, toggles, saves, asked,
    mins, traffic, banChart, resChart, loads, polls,
    range, active, cache, body, chart, dimLoads, series,
    onPage, box, shown, certOf, jobs, starts, pollTimer, ownTimers, answers,
    files, loaded, source, level, limit, list, copied, fetch, logPhase,
    bans, ledger, tables, banAsk, banJobs, offences, started,
    settings, archives, visit, tabGets, status, tabForm, tabListed, off, bound, requests, clicks

Services == INSTANCE ServicesPage
Stats == INSTANCE StatsPage
Breakdown == INSTANCE StatsBreakdown
Certs == INSTANCE CertJobs WITH
          Kinds <- CertDialogs, JobIds <- CertJobIds, MaxJobs <- MaxCertJobs
Logs == INSTANCE LogsPage WITH Kept <- Fetched, phase <- logPhase
Bans == INSTANCE BanTables WITH
          JobIds <- BanJobIds, MaxJobs <- MaxBanJobs, ask <- banAsk, jobs <- banJobs
Backup == INSTANCE BackupTab WITH
          Kept <- KeptArchives, JobIds <- TabJobIds, MaxJobs <- MaxClicks, None <- NoPass,
          stored <- settings, gets <- tabGets, form <- tabForm, listed <- tabListed,
          jobs <- requests

(* The instances' variables, written out: TLC takes no UNCHANGED of an      *)
(* instance's tuple.                                                        *)
svcVars == <<records, listed, switch, dom, open, toggles, saves, asked>>
statsVars == <<mins, traffic, banChart, resChart, loads, polls>>
breakdownVars == <<range, active, cache, body, chart, dimLoads, series>>
jobVars == <<onPage, box, shown, certOf, jobs, starts, pollTimer, ownTimers, answers>>
logsVars == <<files, loaded, source, level, limit, list, copied, fetch, logPhase>>
banVars == <<bans, ledger, tables, banAsk, banJobs, offences, started>>
backupVars == <<settings, archives, visit, tabGets, status, tabForm, tabListed, off, bound,
                requests, clicks>>

----------------------------------------------------------------------------
(* What the proofs need of the parameters: what is chosen first is offered, *)
(* archives hold settings that were valid when they were made, bounds are   *)
(* numbers.                                                                 *)
BreakdownAssumption == FirstRange \in Ranges /\ FirstDim \in Dims
StatsAssumption == FirstRange \in Ranges
CertsAssumption == CertDialogs \subseteq {"issue", "domain"}
LogsAssumption ==
    /\ "error" \in Sources /\ "all" \in Levels
    /\ Limits \subseteq Nat /\ Fetched \in Nat
BansAssumption ==
    /\ Bans!Nobody \notin Ips
    /\ MaxOffences \in Nat /\ MaxBanJobs \in Nat
BackupAssumption ==
    /\ KeptArchives \subseteq {s \in Backup!Settings : Backup!Valid(s)}
    /\ IsFiniteSet(TabJobIds)
    /\ MaxClicks \in Nat /\ MaxVisits \in Nat \ {0}

PagesAssumption ==
    /\ ListAssumption /\ LadderAssumption /\ TuningAssumption /\ WizardAssumption
    /\ BreakdownAssumption /\ StatsAssumption /\ CertsAssumption /\ LogsAssumption
    /\ BansAssumption /\ BackupAssumption

(* All pages at work, each on its own variables.                            *)
PagesSpec ==
    /\ Spec /\ MapSpec /\ ShellSpec /\ ListSpec /\ LadderSpec /\ WizardSpec /\ TuningSpec
    /\ Services!Spec /\ Stats!Spec /\ Breakdown!Spec /\ Certs!Spec
    /\ Logs!Spec /\ Bans!Spec /\ Backup!Spec

----------------------------------------------------------------------------
(* Every variable of every page stays in its type.                          *)
PanelTypeOK ==
    /\ TypeOK /\ MapTypeOK /\ ShellTypeOK /\ ListTypeOK
    /\ Services!TypeOK /\ Stats!TypeOK /\ Breakdown!TypeOK /\ Certs!TypeOK
    /\ LadderTypeOK /\ WizardTypeOK /\ TuningTypeOK
    /\ Logs!TypeOK /\ Bans!TypeOK /\ Backup!TypeOK

(* logs.js: no entry is crowded out by those of other levels, and the notes *)
(* and the copy button speak of what is on screen.                          *)
LogsShowWhatMatches ==
    /\ Logs!NoEntryIsCrowdedOut /\ Logs!CopyCarriesTheScreen
    /\ Logs!MismatchIsNotBlamedOnTheCertificate

(* services.js, autoban.js, listview.js, backuptab.js: a save stores its    *)
(* own form's fields and leaves the switch alone; a release-and-forget      *)
(* forgets only whom it released; turning a page leaves the ticks; a stored *)
(* passphrase is never cleared, and the test tests what the form says.      *)
ActionsStayInTheirForm ==
    /\ Services!SavesStayInTheirForm /\ Bans!ReleaseThenForget /\ PagingKeepsSelection
    /\ Backup!SecretSurvives /\ []Backup!TestedAsShown

=============================================================================
