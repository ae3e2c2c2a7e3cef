----------------------------- MODULE InstallWizard -----------------------------
(***************************************************************************)
(* The first-run wizard (static/js/install.js) and the request it ends in  *)
(* (web/handlers_install.go, installer.go): five steps whose answers are   *)
(* checked one by one, then a run on the server that writes config.json,   *)
(* generates nginx and, when nginx will not have it, puts the old          *)
(* config.json back.                                                       *)
(*                                                                         *)
(* A page loaded anew forgets its answers while the server goes on with    *)
(* what it was sent, so two runs may overlap.                              *)
(***************************************************************************)
EXTENDS Naturals, FiniteSets

CONSTANTS
    Passwords,    \* what may be typed twice, long enough
    Answers,      \* bound: which answers are typed, "good", "bad" or both
    Ports,        \* bound: which ports are, "good", "bad", or "refused" by the server
    MaxRuns       \* bound: runs on the server together

WizardAssumption ==
    /\ MaxRuns \in Nat /\ Answers \subseteq {"good", "bad"}
    /\ Ports \subseteq {"good", "bad", "refused"} /\ "good" \in Ports
    /\ "none" \notin Passwords

VARIABLES
    step,         \* state.step
    wizPhase,     \* what the page shows
    wizForm,      \* the wizard's state object
    needToken,    \* state.token_required
    waiting,      \* the run the page waits for, or NoRun
    wizConfig,    \* config.json: whether the panel is installed, and its password
    token,        \* the one-time token is on the disk
    served,       \* nginx runs on a tree of an installed panel
    runs,         \* the runs on the server
    overlapped    \* two runs have been under way together, or one was cut short

wizardVars == <<step, wizPhase, wizForm, needToken, waiting, wizConfig, token, served, runs,
                overlapped>>

NoRun == 0
Quality == {"good", "bad"}
Form == [hasDomain : BOOLEAN, domain : Quality, port : Ports,
         path : Quality, password : Passwords \cup {"none"}, rightToken : BOOLEAN]
Blank == [hasDomain |-> TRUE, domain |-> "bad", port |-> "good", path |-> "good",
          password |-> "none", rightToken |-> FALSE]
Typing == {g \in Form : g.domain \in Answers /\ g.path \in Answers /\ g.port \in Ports}
Config == [installed : BOOLEAN, password : Passwords \cup {"none"}]
Fresh == [installed |-> FALSE, password |-> "none"]
Run == [id : Nat, stage : {"sent", "entered", "snapped", "written"}, checked : BOOLEAN,
        port : Ports, password : Passwords \cup {"none"},
        rightToken : BOOLEAN, snapshot : Config]

WizardTypeOK ==
    /\ step \in 0..5
    /\ wizPhase \in {"loading", "blank", "form", "installing", "done", "login"}
    /\ wizForm \in Form /\ needToken \in BOOLEAN /\ waiting \in Nat
    /\ wizConfig \in Config /\ token \in BOOLEAN /\ served \in BOOLEAN
    /\ runs \subseteq Run /\ overlapped \in BOOLEAN

WizardInit ==
    /\ step = 0 /\ wizPhase = "loading" /\ wizForm = Blank /\ needToken = FALSE
    /\ waiting = NoRun /\ wizConfig = Fresh /\ token = TRUE /\ served = FALSE
    /\ runs = {} /\ overlapped = FALSE

server == <<wizConfig, token, served, runs>>

(***************************************************************************)
(* The page.                                                               *)
(***************************************************************************)
(* The status: an installed panel is left for its login page, a failed      *)
(* request leaves the page blank.                                          *)
StatusAnswered ==
    /\ wizPhase = "loading"
    /\ \/ wizPhase' = (IF wizConfig.installed THEN "login" ELSE "form")
          /\ needToken' = (~wizConfig.installed /\ token)
       \/ wizPhase' = "blank" /\ UNCHANGED needToken
    /\ UNCHANGED <<step, wizForm, waiting, server, overlapped>>

(* The page is loaded anew; nobody waits for its run any more.              *)
LoadAnew ==
    /\ wizPhase # "done"
    /\ step' = 0 /\ wizPhase' = "loading" /\ wizForm' = Blank /\ waiting' = NoRun
    /\ UNCHANGED <<needToken, server, overlapped>>

(* renderStep: without a domain there is no certificate to ask for, from    *)
(* whichever side its step is entered, so that Back returns to the port.    *)
Landed(s, f) == IF s = 1 /\ ~f.hasDomain THEN 2 ELSE s

(* The radio of the first step writes the answer at once.                   *)
PickDomain(yes) ==
    /\ wizPhase = "form" /\ step = 0
    /\ wizForm' = [wizForm EXCEPT !.hasDomain = yes]
    /\ UNCHANGED <<step, wizPhase, needToken, waiting, server, overlapped>>

(* collectStep stores what was typed before it looks at it.                 *)
Typed(f, g) ==
    CASE step = 0 -> [f EXCEPT !.domain = IF f.hasDomain THEN g.domain ELSE @]
      [] step = 2 -> [f EXCEPT !.port = g.port]
      [] step = 3 -> [f EXCEPT !.path = g.path]
      [] step = 4 -> [f EXCEPT !.password = g.password,
                               !.rightToken = IF needToken THEN g.rightToken ELSE @]
      [] OTHER -> f

(* What the page itself refuses; a port above 65535 it does not.            *)
Passes(f) ==
    CASE step = 0 -> f.hasDomain => f.domain = "good"
      [] step = 2 -> f.port # "bad"
      [] step = 3 -> f.path = "good"
      [] step = 4 -> f.password # "none"
      [] OTHER -> TRUE

(* What is sent: the password, the token, the port, and whether the rest is *)
(* what the steps let through.                                              *)
Checked(f) ==
    (f.hasDomain => f.domain = "good") /\ f.port # "bad" /\ f.path = "good" /\ f.password # "none"
NewRun(f) ==
    [id |-> CHOOSE i \in 1..(MaxRuns + 1) : i # waiting /\ \A r \in runs : r.id # i,
     stage |-> "sent", checked |-> Checked(f), port |-> f.port, password |-> f.password,
     rightToken |-> f.rightToken, snapshot |-> Fresh]
(* Both buttons are dead from here until an answer.                         *)
Submit(f) ==
    /\ Cardinality(runs) < MaxRuns
    /\ wizPhase' = "installing" /\ step' = 5
    /\ runs' = runs \cup {NewRun(f)} /\ waiting' = NewRun(f).id
    /\ overlapped' = (overlapped \/ runs # {})
    /\ UNCHANGED <<wizConfig, token, served, needToken>>

GoOn(f) ==
    /\ step' = Landed(step + 1, f)
    /\ UNCHANGED <<wizPhase, needToken, waiting, server, overlapped>>

Proceed(g) ==
    /\ wizPhase = "form" /\ wizForm' = g
    /\ \/ ~Passes(g) /\ UNCHANGED <<step, wizPhase, needToken, waiting, server, overlapped>>
       \/ Passes(g) /\ step < 4 /\ GoOn(g)
       \/ Passes(g) /\ step = 4 /\ Submit(g)

(* Back collects nothing.                                                   *)
Back ==
    /\ wizPhase = "form" /\ step > 0
    /\ step' = Landed(step - 1, wizForm)
    /\ UNCHANGED <<wizPhase, wizForm, needToken, waiting, server, overlapped>>

(***************************************************************************)
(* The server.                                                             *)
(***************************************************************************)
Heard(r) == wizPhase = "installing" /\ waiting = r.id

(* An answer that says no, or that is lost: the page goes back to the last  *)
(* step and its buttons come back.                                         *)
Refusal(r) ==
    /\ waiting' = IF Heard(r) THEN NoRun ELSE waiting
    /\ wizPhase' = IF Heard(r) THEN "form" ELSE wizPhase
    /\ step' = IF Heard(r) THEN 4 ELSE step
Kept == UNCHANGED <<step, wizPhase, waiting>>
Now(r, stage, snap) ==
    runs' = (runs \ {r}) \cup {[r EXCEPT !.stage = stage, !.snapshot = snap]}
WizardRest == UNCHANGED <<wizForm, needToken, overlapped>>

(* An installed panel wants a session, which the wizard has not; otherwise  *)
(* the token opens the way.                                                *)
Enter(r) ==
    /\ r.stage = "sent"
    /\ IF ~wizConfig.installed /\ token /\ r.rightToken
         THEN Now(r, "entered", r.snapshot) /\ Kept
         ELSE runs' = runs \ {r} /\ Refusal(r)
    /\ UNCHANGED <<wizConfig, token, served>> /\ WizardRest

(* The file as it is, to be put back.                                       *)
Snap(r) ==
    /\ r.stage = "entered" /\ Now(r, "snapped", wizConfig)
    /\ Kept /\ UNCHANGED <<wizConfig, token, served>> /\ WizardRest

(* Mutant: Install does not ask again.                                      *)
FreeToInstallUnasked(r) == r.port # "refused"

FreeToInstall(r) == ~wizConfig.installed /\ r.port # "refused"

(* Install asks again whether somebody was faster, checks the port, and     *)
(* stores the panel and its password.                                      *)
Install(r) ==
    /\ r.stage = "snapped"
    /\ IF FreeToInstall(r)
         THEN /\ wizConfig' = [installed |-> TRUE, password |-> r.password]
              /\ Now(r, "written", r.snapshot) /\ Kept
         ELSE runs' = runs \ {r} /\ Refusal(r) /\ UNCHANGED wizConfig
    /\ UNCHANGED <<token, served>> /\ WizardRest

(* nginx takes the new tree: the token is used up.  The answer may be lost. *)
Generated(r) ==
    /\ r.stage = "written"
    /\ token' = FALSE /\ served' = wizConfig.installed /\ runs' = runs \ {r}
    /\ \/ /\ wizPhase' = (IF Heard(r) THEN "done" ELSE wizPhase)
          /\ UNCHANGED <<step, waiting>>
       \/ Heard(r) /\ Refusal(r)
    /\ UNCHANGED wizConfig /\ WizardRest

(* nginx refuses the tree: config.json is what it was when the run came in. *)
RolledBack(r) ==
    /\ r.stage = "written"
    /\ wizConfig' = r.snapshot /\ runs' = runs \ {r}
    /\ Refusal(r)
    /\ UNCHANGED <<token, served>> /\ WizardRest

(* The service is restarted, by hand or because the panel's port changed:   *)
(* its runs are gone, and the page gets an error.                          *)
Crash ==
    /\ runs' = {} /\ overlapped' = (overlapped \/ runs # {})
    /\ IF wizPhase = "installing"
         THEN wizPhase' = "form" /\ step' = 4 /\ waiting' = NoRun
         ELSE Kept
    /\ UNCHANGED <<wizForm, needToken, wizConfig, token, served>>

RunStep == \E r \in runs : Enter(r) \/ Snap(r) \/ Install(r) \/ Generated(r) \/ RolledBack(r)

WizardNext ==
    \/ StatusAnswered \/ LoadAnew \/ (\E yes \in BOOLEAN : PickDomain(yes))
    \/ (\E g \in {Typed(wizForm, h) : h \in Typing} : Proceed(g)) \/ Back
    \/ RunStep \/ Crash

WizardSpec == WizardInit /\ [][WizardNext]_wizardVars

(***************************************************************************)
(* Properties.                                                             *)
(***************************************************************************)
(* What is submitted has passed every step's check, although each step      *)
(* stores what was typed before it looks, Back looks at nothing, and the    *)
(* steps can be walked to and fro (install.js:191).                         *)
SubmittedIsChecked == \A r \in runs : r.checked

(* The page that says the panel is installed tells the truth: its password  *)
(* is the stored one, nginx serves the panel and the token is used up,      *)
(* whatever other run was sent before or after and however it ended.        *)
DoneMeansInstalled ==
    wizPhase = "done" =>
        wizConfig = [installed |-> TRUE, password |-> wizForm.password] /\ served /\ ~token

(* "the wizard stays retryable" (handlers_install.go:55): when no run was   *)
(* cut short or met another, the server at rest is installed and served     *)
(* with its token used up, or as if nobody had ever tried.                  *)
WholeOrNothing ==
    runs = {} /\ ~overlapped =>
        IF token THEN wizConfig = Fresh /\ ~served ELSE wizConfig.installed /\ served

(* A page that waits waits for a run that will answer it: a reload, a       *)
(* restart or another run's end leaves no page with its buttons dead.       *)
WaitIsForARun == wizPhase = "installing" => \E r \in runs : Heard(r)

(* install.js, handlers_install.go: only checked answers are sent, "done"   *)
(* is the truth, what failed can be tried again, and no page waits for ever. *)
WizardKeepsItsWord ==
    /\ SubmittedIsChecked /\ DoneMeansInstalled /\ WholeOrNothing
    /\ WaitIsForARun

=============================================================================
