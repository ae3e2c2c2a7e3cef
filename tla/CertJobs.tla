------------------------------- MODULE CertJobs -------------------------------
(***************************************************************************)
(* Getting a certificate from the panel: the issue dialog of the           *)
(* Certificates page (static/js/pages/certs.js) and the "Get certificate"  *)
(* button of a domain's edit dialog (domains.js), both of which start a    *)
(* job and poll it (handlers_certs.go).                                    *)
(*                                                                         *)
(* There is one dialog element, and a handler that looks a field up after  *)
(* an await finds whichever dialog is in the document by then.             *)
(***************************************************************************)
EXTENDS Naturals

CONSTANTS
    Domains,     \* configured domains
    Kinds,       \* bound: the dialogs that are opened
    JobIds,      \* the numbers of jobs
    MaxJobs      \* bound: the jobs that are started

VARIABLES
    onPage,      \* the page on screen: each of the two has its own dialogs
    box,         \* the dialog element: what it was filled with last
    shown,       \* whether it is on screen
    certOf,      \* the domain whose certificate each domain is configured with
    jobs,        \* the server's jobs
    starts,      \* POST /api/certs/issue requests on the wire
    pollTimer,   \* certs.js: the one timer, and whether it found its log element
    ownTimers,   \* domains.js: each dialog's own timer, by job
    answers      \* polls under way: which page's, of which job, at which request

jobVars == <<onPage, box, shown, certOf, jobs, starts, pollTimer, ownTimers, answers>>

NoJob == [for |-> "nobody", state |-> "none"]
NoCert == "none"
NoTimer == [job |-> 0, blind |-> FALSE]
Box == [kind : {"issue", "domain"}, for : Domains, busy : BOOLEAN, cert : Domains \cup {NoCert}]
NoBox == [kind |-> "empty"]
PageOf(kind) == IF kind = "issue" THEN "certs" ELSE "domains"

TypeOK ==
    /\ onPage \in {"certs", "domains"} /\ box \in Box \cup {NoBox} /\ shown \in BOOLEAN
    /\ certOf \in [Domains -> Domains \cup {NoCert}]
    /\ jobs \in [JobIds -> {NoJob} \cup [for : Domains, state : {"running", "waiting", "done", "error"}]]
    /\ starts \subseteq [kind : {"issue", "domain"}, for : Domains]
    /\ pollTimer \in [job : JobIds \cup {0}, blind : BOOLEAN]
    /\ ownTimers \subseteq JobIds
    /\ answers \subseteq [kind : {"issue", "domain"}, job : JobIds, step : {"poll", "list"}]

Init ==
    /\ onPage \in {PageOf(kind) : kind \in Kinds} /\ box = NoBox /\ shown = FALSE
    /\ certOf = [d \in Domains |-> NoCert] /\ jobs = [i \in JobIds |-> NoJob]
    /\ starts = {} /\ pollTimer = NoTimer /\ ownTimers = {} /\ answers = {}

(***************************************************************************)
(* Pages and dialogs.                                                      *)
(***************************************************************************)
StopPolling == pollTimer' = NoTimer

(* Leaving the Certificates page runs its cleanup, and entering it starts   *)
(* with one.                                                                *)
Navigate(page) == onPage' = page /\ StopPolling
CloseModal == shown' = FALSE

GoTo(page) ==
    /\ ~shown /\ page # onPage /\ page \in {PageOf(kind) : kind \in Kinds}
    /\ Navigate(page)
    /\ UNCHANGED <<box, shown, certOf, jobs, starts, ownTimers, answers>>

(* The domain form shows the paths the domain is configured with.           *)
Filled(kind, d) == [kind |-> kind, for |-> d, busy |-> FALSE,
                    cert |-> IF kind = "domain" THEN certOf[d] ELSE NoCert]
OpenDialog(kind, d) ==
    /\ ~shown /\ onPage = PageOf(kind)
    /\ box' = Filled(kind, d) /\ shown' = TRUE
    /\ UNCHANGED <<onPage, certOf, jobs, starts, pollTimer, ownTimers, answers>>

Dismiss ==
    /\ shown /\ CloseModal
    /\ UNCHANGED <<onPage, box, certOf, jobs, starts, pollTimer, ownTimers, answers>>

(* Saving the domain form stores the fields as they are.                    *)
SaveDomain ==
    /\ shown /\ box.kind = "domain"
    /\ certOf' = [certOf EXCEPT ![box.for] = box.cert]
    /\ CloseModal
    /\ UNCHANGED <<onPage, box, jobs, starts, pollTimer, ownTimers, answers>>

Detach(d) ==
    /\ ~shown /\ onPage = "certs" /\ certOf[d] # NoCert
    /\ certOf' = [certOf EXCEPT ![d] = NoCert]
    /\ Navigate("certs")
    /\ UNCHANGED <<box, shown, jobs, starts, ownTimers, answers>>

(***************************************************************************)
(* Starting a job.                                                         *)
(***************************************************************************)
(* start() and issueBtn.onclick: the buttons stay disabled until the end.   *)
Start ==
    /\ shown /\ ~box.busy
    /\ box' = [box EXCEPT !.busy = TRUE]
    /\ starts' = starts \cup {[kind |-> box.kind, for |-> box.for]}
    /\ UNCHANGED <<onPage, shown, certOf, jobs, pollTimer, ownTimers, answers>>

(* Mutant: the buttons stay disabled.                                       *)
EnabledNever(kind, d) == box

(* A handler gives its own dialog's buttons back.                           *)
Enabled(kind, d) == IF box # NoBox /\ box.kind = kind /\ box.for = d THEN [box EXCEPT !.busy = FALSE] ELSE box

(* poll(): one timer at a time, and the log element is looked up now.       *)
Poll(i) == pollTimer' = [job |-> i, blind |-> box.kind # "issue"]

Started(q) ==
    /\ q \in starts /\ starts' = starts \ {q}
    /\ \E i \in JobIds :
          /\ i <= MaxJobs /\ jobs[i] = NoJob /\ \A j \in JobIds : j < i => jobs[j] # NoJob
          /\ jobs' = [jobs EXCEPT ![i] = [for |-> q.for, state |-> "running"]]
          /\ IF q.kind = "issue" THEN Poll(i) /\ UNCHANGED ownTimers
                                 ELSE ownTimers' = ownTimers \cup {i} /\ UNCHANGED pollTimer
    /\ UNCHANGED <<onPage, box, shown, certOf, answers>>

StartRefused(q) ==
    /\ q \in starts /\ starts' = starts \ {q}
    /\ box' = Enabled(q.kind, q.for)
    /\ UNCHANGED <<onPage, shown, certOf, jobs, pollTimer, ownTimers, answers>>

(***************************************************************************)
(* The job (handlers_certs.go): a manual one waits for its DNS record, and  *)
(* 35 minutes end it in any case.                                           *)
(***************************************************************************)
JobSteps(state) == CASE state = "running" -> {"waiting", "done", "error"}
                     [] state = "waiting" -> {"running", "error"}
                     [] OTHER -> {}

JobStep(i) ==
    \E state \in JobSteps(jobs[i].state) :
        /\ jobs' = [jobs EXCEPT ![i].state = state]
        /\ certOf' = IF state = "done" THEN [certOf EXCEPT ![jobs[i].for] = jobs[i].for]
                                       ELSE certOf
        /\ UNCHANGED <<onPage, box, shown, starts, pollTimer, ownTimers, answers>>

(***************************************************************************)
(* Polling.                                                                *)
(***************************************************************************)
(* A poll that is lost changes nothing and the next tick asks again: these  *)
(* are the polls that are answered.                                        *)
Ask(kind, i) == answers' = answers \cup {[kind |-> kind, job |-> i, step |-> "poll"]}

Tick ==
    /\ pollTimer # NoTimer
    /\ Ask("issue", pollTimer.job)
    /\ UNCHANGED <<onPage, box, shown, certOf, jobs, starts, pollTimer, ownTimers>>

OwnTick(i) ==
    /\ i \in ownTimers
    /\ Ask("domain", i)
    /\ UNCHANGED <<onPage, box, shown, certOf, jobs, starts, pollTimer, ownTimers>>

(* certs.js: without a log element the handler dies before it looks at the  *)
(* state; otherwise the end of the job closes the dialog on screen or gives *)
(* its buttons back, whichever dialog that is.                              *)
Polled(a) ==
    /\ a \in answers /\ a.kind = "issue" /\ answers' = answers \ {a}
    /\ LET state == jobs[a.job].state IN
       IF pollTimer.blind \/ state \in {"running", "waiting"}
         THEN UNCHANGED <<onPage, box, shown, pollTimer>>
       ELSE IF state = "done" THEN CloseModal /\ Navigate("certs") /\ UNCHANGED box
       ELSE /\ StopPolling /\ UNCHANGED <<onPage, shown>>
            /\ box' = IF box.kind = "issue" THEN [box EXCEPT !.busy = FALSE] ELSE box
    /\ UNCHANGED <<certOf, jobs, starts, ownTimers>>

(* domains.js: a manual job is not waited for, a failed one is reported and *)
(* the list of certificates is fetched for one that is done.                *)
OwnPolled(a) ==
    /\ a \in answers /\ a.kind = "domain" /\ a.step = "poll"
    /\ LET state == jobs[a.job].state IN
       /\ ownTimers' = IF state = "running" THEN ownTimers ELSE ownTimers \ {a.job}
       /\ answers' = (answers \ {a}) \cup {[a EXCEPT !.step = "list"] : x \in {state} \cap {"done"}}
       /\ box' = IF state \in {"waiting", "error"} THEN Enabled("domain", jobs[a.job].for) ELSE box
    /\ UNCHANGED <<onPage, shown, certOf, jobs, starts, pollTimer>>

(* The row is checked against the frozen name; the fields are those of the  *)
(* domain dialog that is in the document.                                   *)
Filling(d) ==
    IF box.kind = "domain" THEN [box EXCEPT !.cert = d, !.busy = @ /\ box.for # d] ELSE box

Listed(a) ==
    /\ a \in answers /\ a.step = "list" /\ answers' = answers \ {a}
    /\ LET d == jobs[a.job].for IN
       box' = IF certOf[d] = d THEN Filling(d) ELSE Enabled("domain", d)
    /\ UNCHANGED <<onPage, shown, certOf, jobs, starts, pollTimer, ownTimers>>

Answer(a) == Polled(a) \/ OwnPolled(a) \/ Listed(a)
StartAnswered == \E q \in starts : Started(q) \/ StartRefused(q)

Next ==
    \/ (\E page \in {"certs", "domains"} : GoTo(page))
    \/ (\E kind \in Kinds, d \in Domains : OpenDialog(kind, d))
    \/ Dismiss \/ SaveDomain \/ (\E d \in Domains : Detach(d))
    \/ Start \/ StartAnswered
    \/ (\E i \in JobIds : JobStep(i) \/ OwnTick(i)) \/ Tick
    \/ (\E a \in answers : Answer(a))

Asked(kind, i, step) == [kind |-> kind, job |-> i, step |-> step]

(* Timers run, jobs end, and a server that keeps being polled answers.      *)
Fairness ==
    /\ WF_jobVars(StartAnswered) /\ WF_jobVars(Tick)
    /\ \A i \in JobIds :
          /\ WF_jobVars(JobStep(i)) /\ WF_jobVars(OwnTick(i))
          /\ SF_jobVars(JobStep(i) /\ jobs'[i].state \in {"done", "error"})
          /\ WF_jobVars(Polled(Asked("issue", i, "poll")))
          /\ WF_jobVars(OwnPolled(Asked("domain", i, "poll")))
          /\ WF_jobVars(Listed(Asked("domain", i, "list")))
Spec == Init /\ [][Next]_jobVars
FairSpec == Spec /\ Fairness

(***************************************************************************)
(* Properties.                                                             *)
(***************************************************************************)
(* A dialog whose buttons are disabled gets them back, or is closed, even   *)
(* though other dialogs' jobs take its timer away.                          *)
ButtonsComeBack == shown /\ box.busy ~> ~shown \/ ~box.busy

(* "if the name could drift, a certificate for one domain would be written  *)
(* onto another, and nginx would then serve a name mismatch"                *)
(* (domains.js:247): every domain has its own certificate or none.          *)
CertificateIsItsOwn == \A d \in Domains : certOf[d] \in {d, NoCert}

=============================================================================
