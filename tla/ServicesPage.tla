------------------------------ MODULE ServicesPage ------------------------------
(***************************************************************************)
(* The Services page (static/js/pages/services.js): the list's power       *)
(* switches, the edit dialog with its own switch, and the save that is two *)
(* or three requests.                                                      *)
(*                                                                         *)
(* There is one dialog element: closing it hides it and leaves its fields  *)
(* in the document, and a handler that looks a field up after an await     *)
(* finds whichever dialog is there by then.  Nothing disables the Save     *)
(* button while a save is under way.                                       *)
(***************************************************************************)
EXTENDS Naturals, FiniteSets

CONSTANTS
    Names,        \* services that exist
    Clicked,      \* bound: the services whose switches are clicked
    MaxRequests   \* bound: switch requests and saves under way together

VARIABLES
    records,    \* the server's records: the switch, and whose form wrote the fields
    listed,     \* the switches of the records the list was built from
    switch,     \* the list's switches
    dom,        \* the dialog element's contents
    open,       \* whether it is shown
    toggles,    \* switch requests on the wire
    saves,      \* the saves under way
    asked       \* the list is being fetched again: the spinner is up

svcVars == <<records, listed, switch, dom, open, toggles, saves, asked>>

Record == [on : BOOLEAN, fields : Names]
Switch == [on : BOOLEAN, busy : BOOLEAN]
Form == [name : Names, on : BOOLEAN, busy : BOOLEAN]
NoForm == [name |-> "none"]
Toggle == [name : Names, want : BOOLEAN, from : {"row", "dialog"}, held : BOOLEAN]
Save == [name : Names, fields : Names, port : BOOLEAN, stage : {"port", "service", "bindings"}]

TypeOK ==
    /\ records \in [Names -> Record] /\ listed \in [Names -> BOOLEAN]
    /\ switch \in [Names -> Switch]
    /\ dom \in Form \cup {NoForm} /\ open \in BOOLEAN /\ (open => dom # NoForm)
    /\ toggles \subseteq Toggle /\ saves \subseteq Save
    /\ asked \in BOOLEAN

SwitchesOf(R) == [n \in Names |-> R[n].on]
Drawn(L) == [n \in Names |-> [on |-> L[n], busy |-> FALSE]]

Init ==
    /\ records = [n \in Names |-> [on |-> TRUE, fields |-> n]]
    /\ listed = SwitchesOf(records) /\ switch = Drawn(listed)
    /\ dom = NoForm /\ open = FALSE /\ toggles = {} /\ saves = {} /\ asked = FALSE

(***************************************************************************)
(* The list.                                                               *)
(***************************************************************************)
AtHand == ~open /\ ~asked

(* navigate("services"): the spinner until the list is answered.            *)
Navigate == asked' = TRUE

(* The buttons of one kind are drawn anew: a handler still holds its old one. *)
Detached(Q, from) == {[q EXCEPT !.held = @ /\ q.from # from] : q \in Q}

ListAnswered ==
    /\ asked /\ asked' = FALSE
    /\ listed' = SwitchesOf(records) /\ switch' = Drawn(listed')
    /\ toggles' = Detached(toggles, "row")
    /\ UNCHANGED <<records, dom, open, saves>>

(* A search, a sort or a page turn draws the switches from the same rows.   *)
Redraw ==
    /\ AtHand
    /\ switch' = Drawn(listed)
    /\ toggles' = Detached(toggles, "row")
    /\ UNCHANGED <<records, listed, dom, open, saves, asked>>

Room == Cardinality(toggles) + Cardinality(saves) < MaxRequests

ClickSwitch(n) ==
    /\ AtHand /\ n \in Clicked /\ ~switch[n].busy /\ Room
    /\ switch' = [switch EXCEPT ![n] = [@ EXCEPT !.busy = TRUE]]
    /\ toggles' = toggles \cup
          {[name |-> n, want |-> ~switch[n].on, from |-> "row", held |-> TRUE]}
    /\ UNCHANGED <<records, listed, dom, open, saves, asked>>

(***************************************************************************)
(* The dialog.                                                             *)
(***************************************************************************)
(* The form is filled from the record of the list, not of the server.       *)
FormOf(n) == [name |-> n, on |-> listed[n], busy |-> FALSE]

OpenDialog(n) ==
    /\ AtHand
    /\ dom' = FormOf(n) /\ open' = TRUE
    /\ toggles' = Detached(toggles, "dialog")
    /\ UNCHANGED <<records, listed, switch, saves, asked>>

(* Cancel, the X, Escape, or a click beside it.                             *)
Dismiss ==
    /\ open /\ open' = FALSE
    /\ UNCHANGED <<records, listed, switch, dom, toggles, saves, asked>>

ClickDialogSwitch ==
    /\ open /\ dom.name \in Clicked /\ ~dom.busy /\ Room
    /\ dom' = [dom EXCEPT !.busy = TRUE]
    /\ toggles' = toggles \cup
          {[name |-> dom.name, want |-> ~dom.on, from |-> "dialog", held |-> TRUE]}
    /\ UNCHANGED <<records, listed, switch, open, saves, asked>>

(***************************************************************************)
(* The switches' answers.                                                  *)
(***************************************************************************)
ApplyToggleState(on) == [on |-> on, busy |-> FALSE]
SyncRowToggle(n, on) == [switch EXCEPT ![n] = ApplyToggleState(on)]

(* The handler writes to the button it was called on.                       *)
RowGetsBack(q, on) == IF q.held THEN SyncRowToggle(q.name, on) ELSE switch
DialogGetsBack(q, on) == IF q.held THEN [dom EXCEPT !.on = on, !.busy = FALSE] ELSE dom

(* The server stores the switch and says what it stored.  The dialog looks  *)
(* up the row under it and brings it in step.                               *)
Toggled(q) ==
    /\ q \in toggles /\ toggles' = toggles \ {q}
    /\ records' = [records EXCEPT ![q.name] = [@ EXCEPT !.on = q.want]]
    /\ IF q.from = "row"
         THEN switch' = RowGetsBack(q, q.want) /\ Navigate /\ UNCHANGED dom
         ELSE /\ switch' = SyncRowToggle(q.name, q.want)
              /\ dom' = DialogGetsBack(q, q.want) /\ UNCHANGED asked
    /\ UNCHANGED <<listed, open, saves>>

(* It is refused: the button is given back as it was.                       *)
ToggleFailed(q) ==
    /\ q \in toggles /\ toggles' = toggles \ {q}
    /\ IF q.from = "row"
         THEN switch' = RowGetsBack(q, ~q.want) /\ UNCHANGED dom
         ELSE dom' = DialogGetsBack(q, ~q.want) /\ UNCHANGED switch
    /\ UNCHANGED <<records, listed, open, saves, asked>>

(***************************************************************************)
(* Saving: POST the new port, PUT the service, PUT its bindings.            *)
(***************************************************************************)
(* The listening port that was picked may be one that is yet to be added.    *)
ClickSave(new) ==
    /\ open /\ Room
    /\ saves' = saves \cup {[name |-> dom.name, fields |-> dom.name, port |-> new,
                             stage |-> IF new THEN "port" ELSE "service"]}
    /\ UNCHANGED <<records, listed, switch, dom, open, toggles, asked>>

Advance(s, stage, fields) ==
    saves' = (saves \ {s}) \cup {[s EXCEPT !.stage = stage, !.fields = fields]}

(* The fields the PUT carries are looked up only now.                       *)
PortAdded(s) ==
    /\ s \in saves /\ s.stage = "port"
    /\ Advance(s, "service", dom.name)
    /\ UNCHANGED <<records, listed, switch, dom, open, toggles, asked>>

(* Mutant: a save switches the service on.                                  *)
MergedOn(r, fields) == [on |-> TRUE, fields |-> fields]

(* What the PUT does not carry stays: the switch is not in it.              *)
Merged(r, fields) == [r EXCEPT !.fields = fields]

ServicePut(s) ==
    /\ s \in saves /\ s.stage = "service"
    /\ records' = [records EXCEPT ![s.name] = Merged(@, s.fields)]
    /\ Advance(s, "bindings", s.fields)
    /\ UNCHANGED <<listed, switch, dom, open, toggles, asked>>

(* The form's one binding replaces the others (not modelled).  The dialog   *)
(* that is open by now is closed, whichever it is.                          *)
BindingsPut(s) ==
    /\ s \in saves /\ s.stage = "bindings"
    /\ saves' = saves \ {s} /\ open' = FALSE /\ Navigate
    /\ UNCHANGED <<records, listed, switch, dom, toggles>>

(* Any of the three is refused: the dialog says so and stays.               *)
SaveFailed(s) ==
    /\ s \in saves /\ saves' = saves \ {s}
    /\ UNCHANGED <<records, listed, switch, dom, open, toggles, asked>>

SaveAnswered == \E s \in saves : PortAdded(s) \/ ServicePut(s) \/ BindingsPut(s) \/ SaveFailed(s)
ToggleAnswered == \E q \in toggles : Toggled(q) \/ ToggleFailed(q)

Next ==
    \/ ListAnswered \/ Redraw
    \/ (\E n \in Names : ClickSwitch(n) \/ OpenDialog(n))
    \/ Dismiss \/ ClickDialogSwitch
    \/ ToggleAnswered \/ (\E new \in BOOLEAN : ClickSave(new)) \/ SaveAnswered

(* Requests are answered or fail.                                           *)
Fairness == \A q \in {r \in Toggle : r.name \in Clicked} : WF_svcVars(Toggled(q) \/ ToggleFailed(q))
Spec == Init /\ [][Next]_svcVars
FairSpec == Spec /\ Fairness

(***************************************************************************)
(* Properties.                                                             *)
(***************************************************************************)
(* What is stored under a service comes from a form of that service, even   *)
(* while other dialogs take its place, unless the save had to add a port    *)
(* first (services.js:810, then the fields are looked up again); and saving *)
(* a form that was opened before the service was switched off does not      *)
(* switch it on again, nor the other way round (handlers_services.go:440).  *)
SavesStayInTheirForm ==
    [][\A n \in Names :
         /\ records'[n].fields # records[n].fields /\ records'[n].fields # n
              => \E s \in saves : s.name = n /\ s.port
         /\ records'[n].on # records[n].on
              => \E q \in toggles :
                    q \notin toggles' /\ q.name = n /\ q.want = records'[n].on]_svcVars

(* No switch stays busy, and so dead: an answer or a refusal gives it back, *)
(* whatever was drawn over it meanwhile.                                    *)
NoSwitchStaysBusy ==
    /\ \A n \in Clicked : switch[n].busy ~> ~switch[n].busy
    /\ (dom # NoForm /\ dom.busy) ~> ~(dom # NoForm /\ dom.busy)

=============================================================================
