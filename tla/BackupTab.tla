----------------------------- MODULE BackupTab -----------------------------
(***************************************************************************)
(* The Backup tab of the settings page (static/js/backuptab.js): the form, *)
(* its Save, Back-up-now and Test buttons, the archives with their delete  *)
(* and restore.  Every request may be refused, fail, or be carried out and *)
(* its answer lost; whatever succeeds draws the whole tab again from a     *)
(* fresh answer, while the operator goes on typing, clicking, or leaves    *)
(* the page and comes back.                                                *)
(***************************************************************************)
EXTENDS Naturals, Sequences

CONSTANTS
    Passphrases,    \* what may be typed
    Strong,         \* those long enough to send a backup off the machine
    Kept,           \* the settings each archive already there was made with
    JobIds,         \* requests under way at a time
    MaxJobs,        \* bound: clicks
    MaxVisits,      \* bound: times the page is opened
    None

VARIABLES
    stored,         \* the settings in config.json
    archives,       \* each archive, by the settings it holds
    visit,          \* the settings page on screen
    gets,           \* for each visit so far, the answers awaited for its page
    status,         \* what the tab shows: nothing yet, the form, or a message
    form,           \* the fields on screen
    listed,         \* the archives on screen
    off,            \* the buttons that are disabled
    bound,          \* the visit whose page the buttons' actions draw into
    jobs,           \* requests under way
    clicks

tabVars == <<stored, archives, visit, gets, status, form, listed, off, bound, jobs, clicks>>

Buttons == {"save", "now", "test"}
Visits == 1..MaxVisits

Settings == [encrypt : BOOLEAN, offsite : BOOLEAN, pass : Passphrases \cup {None}]
(* What is typed: None unless the passphrase is typed anew.                 *)
Forms == [encrypt : BOOLEAN, offsite : BOOLEAN, typed : Passphrases \cup {None}]
Form(s) == [encrypt |-> s.encrypt, offsite |-> s.offsite, typed |-> None]

(* What is stored when a form is sent over `s'.                             *)
Merged(f, s) ==
    [encrypt |-> f.encrypt, offsite |-> f.offsite, pass |-> IF f.typed = None THEN s.pass ELSE f.typed]
Valid(s) == /\ s.offsite => s.encrypt /\ s.pass \in Strong
            /\ s.encrypt => s.pass # None

Kinds == Buttons \cup {"delete", "restore"}
AsInstalled == [encrypt |-> FALSE, offsite |-> FALSE, pass |-> None]
NoJob == [kind |-> "none", stage |-> "act", form |-> Form(AsInstalled), arch |-> AsInstalled,
          root |-> 1, button |-> FALSE, raced |-> FALSE]
Idle(j) == jobs[j].kind = "none"

TypeOK ==
    /\ stored \in Settings /\ Valid(stored) /\ archives \subseteq Settings
    /\ visit \in Visits /\ bound \in 1..visit /\ gets \in [1..visit -> 0..MaxJobs + 1]
    /\ status \in {"empty", "form", "error"}
    /\ form \in Forms /\ listed \subseteq Settings /\ off \subseteq Buttons
    /\ jobs \in [JobIds -> [kind : Kinds \cup {"none"}, stage : {"put", "act"}, form : Forms,
                            arch : Settings, root : 1..visit,
                            button : BOOLEAN, raced : BOOLEAN]]
    /\ clicks \in 0..MaxJobs

Init ==
    /\ stored = AsInstalled /\ archives = Kept
    /\ visit = 1 /\ gets = <<1>>
    /\ status = "empty" /\ form = Form(stored) /\ listed = {} /\ off = {} /\ bound = 1
    /\ jobs = [j \in JobIds |-> NoJob] /\ clicks = 0

----------------------------------------------------------------------------
(* Drawn again, the buttons are new ones: what an older request does to its *)
(* own button is not seen.                                                  *)
Orphaned == [j \in JobIds |-> [jobs[j] EXCEPT !.button = FALSE]]

(* An answer draws the form and the list.  Meant for a page that was left,  *)
(* it fills that one, out of sight -- but then looks the fields up in the   *)
(* page on screen, and takes its buttons over if it finds them.             *)
Answered(v) ==
    /\ v \in DOMAIN gets /\ gets[v] > 0 /\ gets' = [gets EXCEPT ![v] = @ - 1]
    /\ IF v = visit
         THEN /\ status' = "form" /\ form' = Form(stored) /\ listed' = archives
              /\ off' = {} /\ bound' = v /\ jobs' = Orphaned
         ELSE /\ IF status = "form" THEN bound' = v /\ listed' = archives ELSE UNCHANGED <<bound, listed>>
              /\ UNCHANGED <<status, form, off, jobs>>
    /\ UNCHANGED <<stored, archives, visit, clicks>>

(* No answer: a message in place of everything.                             *)
Unanswered(v) ==
    /\ v \in DOMAIN gets /\ gets[v] > 0 /\ gets' = [gets EXCEPT ![v] = @ - 1]
    /\ IF v = visit THEN status' = "error" /\ listed' = {} /\ off' = {} /\ jobs' = Orphaned
                    ELSE UNCHANGED <<status, listed, off, jobs>>
    /\ UNCHANGED <<stored, archives, visit, form, bound, clicks>>

Open ==
    /\ visit < MaxVisits /\ visit' = visit + 1 /\ bound' = visit'
    /\ gets' = Append(gets, 1)
    /\ status' = "empty" /\ listed' = {} /\ off' = {} /\ jobs' = Orphaned
    /\ UNCHANGED <<stored, archives, form, clicks>>

----------------------------------------------------------------------------
(* The fields.  Switching a copy off the machine on switches encryption on. *)
Editing == status = "form" /\ UNCHANGED <<stored, archives, visit, gets, status, listed, off, bound, jobs, clicks>>
SwitchEncrypt == Editing /\ form' = [form EXCEPT !.encrypt = ~@]
SwitchOffsite == Editing /\ form' = [form EXCEPT !.offsite = ~@, !.encrypt = @ \/ ~form.offsite]
Type(p) == Editing /\ form' = [form EXCEPT !.typed = p]

(* A click starts a request, with the fields as they are.  The test saves   *)
(* first.                                                                   *)
FirstStage(kind) == IF kind \in {"save", "test"} THEN "put" ELSE "act"
Start(j, kind, arch) ==
    /\ status = "form" /\ Idle(j) /\ (\A i \in JobIds : i < j => ~Idle(i)) /\ clicks < MaxJobs /\ clicks' = clicks + 1
    /\ jobs' = [jobs EXCEPT ![j] = [kind |-> kind, stage |-> FirstStage(kind), form |-> form,
                                    arch |-> arch, root |-> bound,
                                    button |-> kind \in Buttons, raced |-> FALSE]]
    /\ UNCHANGED <<stored, archives, visit, gets, status, form, listed, bound>>
Click(j, b) == b \notin off /\ Start(j, b, AsInstalled) /\ off' = off \cup {b}
(* Confirmed in a dialog: deleting an archive, or restoring one.            *)
Confirm(j, kind, arch) == Start(j, kind, arch) /\ UNCHANGED off

----------------------------------------------------------------------------
(* Whatever a request stores overtakes the others under way.                *)
Overtaken(j) == [i \in JobIds |-> IF i = j \/ Idle(i) THEN jobs[i] ELSE [jobs[i] EXCEPT !.raced = TRUE]]
OtherJobs(j) == IF stored' = stored THEN jobs ELSE Overtaken(j)

(* How a request ends: well, and the tab is drawn again; or not, and a      *)
(* button comes back.                                                       *)
EndsWell(j) ==
    /\ jobs' = [OtherJobs(j) EXCEPT ![j] = NoJob]
    /\ gets' = [gets EXCEPT ![jobs[j].root] = @ + 1]
    /\ UNCHANGED <<visit, status, form, listed, off, bound, clicks>>
EndsBadly(j) ==
    /\ jobs' = [OtherJobs(j) EXCEPT ![j] = NoJob]
    /\ off' = IF jobs[j].button THEN off \ {jobs[j].kind} ELSE off
    /\ UNCHANGED <<visit, gets, status, form, listed, bound, clicks>>

(* PUT /api/backup, for Save and for Test.                                  *)
Wish(j) == Merged(jobs[j].form, stored)
Put(j) == ~Idle(j) /\ jobs[j].stage = "put" /\ Valid(Wish(j)) /\ stored' = Wish(j) /\ UNCHANGED archives
Saved(j) == jobs[j].kind = "save" /\ Put(j) /\ EndsWell(j)
SavedForTest(j) ==
    /\ jobs[j].kind = "test" /\ Put(j)
    /\ jobs' = [Overtaken(j) EXCEPT ![j].stage = "act", ![j].raced = FALSE]
    /\ UNCHANGED <<visit, gets, status, form, listed, off, bound, clicks>>
(* Carried out, but the answer is lost.                                     *)
SavedUnheard(j) == Put(j) /\ EndsBadly(j)
NotSaved(j) == ~Idle(j) /\ jobs[j].stage = "put" /\ UNCHANGED <<stored, archives>> /\ EndsBadly(j)

(* What the other requests do.                                              *)
Opens(a, typed) == a.encrypt => a.pass = IF typed = None THEN stored.pass ELSE typed
Effect(j) ==
    CASE jobs[j].kind = "now" -> archives' = archives \cup {stored} /\ UNCHANGED stored
      [] jobs[j].kind = "test" -> stored.offsite /\ UNCHANGED <<stored, archives>>
      [] jobs[j].kind = "delete" ->
           /\ jobs[j].arch \in archives /\ archives' = archives \ {jobs[j].arch} /\ UNCHANGED stored
      [] jobs[j].kind = "restore" ->
           /\ jobs[j].arch \in archives
           /\ \E typed \in Passphrases \cup {None} : Opens(jobs[j].arch, typed)
           /\ archives' = archives \cup {stored} /\ stored' \in {stored, jobs[j].arch}
Acting(j) == ~Idle(j) /\ jobs[j].stage = "act"
Done(j) == Acting(j) /\ Effect(j) /\ EndsWell(j)
DoneUnheard(j) == Acting(j) /\ Effect(j) /\ EndsBadly(j)
NotDone(j) == Acting(j) /\ UNCHANGED <<stored, archives>> /\ EndsBadly(j)

Step(j) ==
    \/ Saved(j) \/ SavedForTest(j) \/ SavedUnheard(j) \/ NotSaved(j)
    \/ Done(j) \/ DoneUnheard(j) \/ NotDone(j)

Next ==
    \/ \E v \in Visits : Answered(v) \/ Unanswered(v)
    \/ Open \/ SwitchEncrypt \/ SwitchOffsite \/ (\E p \in Passphrases : Type(p))
    \/ \E j \in JobIds :
          \/ \E b \in Buttons : Click(j, b)
          \/ \E a \in listed, kind \in {"delete", "restore"} : Confirm(j, kind, a)
          \/ Step(j)

Spec == Init /\ [][Next]_tabVars

----------------------------------------------------------------------------
(* backuptab.js, handlers_backup.go: a passphrase that is stored is never   *)
(* cleared, and changes only by a request whose form typed another, or by   *)
(* restoring an archive that holds another.                                 *)
SecretSurvives ==
    [][stored'.pass # stored.pass =>
        \E j \in JobIds : ~Idle(j) /\ \/ stored'.pass = jobs[j].form.typed /\ stored'.pass # None
                                      \/ jobs[j].kind = "restore"]_tabVars

(* backuptab.js: what the Test button tests is what the form said when it   *)
(* was clicked, unless another request stored something since.              *)
TestedAsShown ==
    \A j \in JobIds :
        jobs[j].kind = "test" /\ ~jobs[j].raced /\ jobs[j].stage = "act" =>
            stored = Merged(jobs[j].form, stored)

(* backuptab.js: a disabled button has its request under way, or its tab is *)
(* about to be drawn again: none stays disabled for good.  A tab whose      *)
(* buttons were taken over by the answer for the page before is excepted.   *)
ButtonsComeBack ==
    \A b \in off : bound = visit =>
        \/ gets[visit] > 0
        \/ \E j \in JobIds : jobs[j].kind = b /\ jobs[j].button

=============================================================================
