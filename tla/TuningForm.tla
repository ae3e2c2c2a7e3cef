------------------------------ MODULE TuningForm ------------------------------
(***************************************************************************)
(* The advanced nginx settings (static/js/tuning.js, with the callers in   *)
(* pages/settings.js): a form of values, each with a switch of its own,    *)
(* filled by hand, by the dice, by a profile or by a group's buttons, and  *)
(* what the server makes of it (web/handlers_tuning.go, config/tuning.go). *)
(*                                                                         *)
(* The risky settings can refuse traffic or blind the panel.  The server   *)
(* names them; nothing but their own switches may turn them on.            *)
(***************************************************************************)
EXTENDS Integers, FiniteSets

CONSTANTS
    Keys,           \* the settings
    Risky,          \* those the server calls dangerous
    Log,            \* access_log_off, a risky check box
    GROUPS,         \* the sections, a partition of the settings
    Values,         \* numbers; 0 leaves nginx its own default, and a check box is 0 or 1
    MaxTunGets,     \* bound: forms asked for together
    MaxTunEdits,    \* bound: clicks and edits between two draws of the form
    MaxTunSaves     \* bound: PUTs

TuningAssumption ==
    /\ Risky \subseteq Keys /\ Log \in Risky /\ UNION GROUPS = Keys
    /\ {0, 1} \subseteq Values /\ Values \subseteq Nat
    /\ MaxTunGets \in Nat \ {0} /\ MaxTunEdits \in Nat /\ MaxTunSaves \in Nat

VARIABLES
    tuning,       \* the server's settings
    tunDrawn,     \* the answer the form was drawn from: data
    tunForm,      \* the form, or NoForm
    tunGets,      \* the forms asked for: not yet read by the server, or what it read
    tunSaving,    \* the PUTs on the wire
    measuring,    \* the measurement on the wire
    byHand,       \* risky settings whose own switch has been turned on
    touched,      \* boxes typed into or diced since the form was drawn
    tunEdits,     \* clicks and edits since then
    tunSaves      \* PUTs so far

tuningVars == <<tuning, tunDrawn, tunForm, tunGets, tunSaving, measuring, byHand, touched,
                tunEdits, tunSaves>>

Settings == [on : BOOLEAN, values : [Keys -> Values], switches : [Keys -> BOOLEAN],
             switched : BOOLEAN]
Empty == -1
Boxes == [on : BOOLEAN, boxes : [Keys -> Values \cup {Empty}], switches : [Keys -> BOOLEAN]]
Body == [on : BOOLEAN, values : [Keys -> Values], switches : [Keys -> BOOLEAN]]
NoForm == [nothing |-> TRUE]
Unread == [nothing |-> FALSE]
Profile == [profile |-> TRUE]

TuningTypeOK ==
    /\ tuning \in Settings
    /\ tunDrawn \in Body \cup {NoForm} /\ tunForm \in Boxes \cup {NoForm}
    /\ tunGets \subseteq Body \cup {Unread} /\ Cardinality(tunGets) <= MaxTunGets
    /\ tunSaving \subseteq Body \cup {Profile} /\ measuring \in BOOLEAN
    /\ byHand \subseteq Risky /\ touched \subseteq Keys /\ tunEdits \in 0..MaxTunEdits
    /\ tunSaves \in 0..MaxTunSaves

(***************************************************************************)
(* The server.                                                             *)
(***************************************************************************)
(* DefaultEnabled: everything but the dangerous ones.                       *)
DefaultEnabled == [k \in Keys |-> k \notin Risky]

(* Recommend: some value for every box; the access log is never recommended *)
(* off.                                                                     *)
Recommended == [k \in Keys |-> IF k = Log THEN 0 ELSE 1]

(* NormalizeSettings: the switches of a configuration that has none yet.    *)
NormalizeSettings(c) == IF c.switched THEN c.switches ELSE DefaultEnabled

AnswerOf(c) == [on |-> c.on, values |-> c.values, switches |-> NormalizeSettings(c)]

(* ApplyRecommendations: values, never switches, and never the access log.  *)
ApplyRecommendations(c) ==
    [c EXCEPT !.values = [k \in Keys |-> IF k = Log THEN @[k] ELSE Recommended[k]],
              !.switches = NormalizeSettings(c), !.switched = TRUE]

(* handleSetTuning: a profile goes with the master switch on; a form        *)
(* carries everything.                                                      *)
Stored(c, body) ==
    IF body = Profile
      THEN [ApplyRecommendations(c) EXCEPT !.on = TRUE]
      ELSE [on |-> body.on, values |-> body.values, switches |-> body.switches,
            switched |-> TRUE]

TuningInit ==
    /\ \E on \in BOOLEAN :
          tuning = [on |-> on, values |-> [k \in Keys |-> 0], switches |-> DefaultEnabled,
                    switched |-> FALSE]
    /\ tunDrawn = NoForm /\ tunForm = NoForm
    /\ tunGets = {Unread} /\ tunSaving = {} /\ measuring = FALSE
    /\ byHand = {} /\ touched = {} /\ tunEdits = 0 /\ tunSaves = 0

(***************************************************************************)
(* loadTuning: asked, read, drawn, in whatever order the answers come.      *)
(***************************************************************************)
Asked == IF Cardinality(tunGets) < MaxTunGets THEN tunGets \cup {Unread} ELSE tunGets

Read ==
    /\ Unread \in tunGets
    /\ tunGets' = (tunGets \ {Unread}) \cup {AnswerOf(tuning)}
    /\ UNCHANGED <<tuning, tunDrawn, tunForm, tunSaving, measuring, byHand, touched, tunEdits,
                   tunSaves>>

(* render: a box shows the stored value, and nothing for 0 (the             *)
(* recommendation is only its placeholder).  What was typed into the form   *)
(* that stood there is gone.                                                *)
ShownBox(k, v) == IF v = 0 /\ k # Log THEN Empty ELSE v
FormOf(d) ==
    [on |-> d.on, boxes |-> [k \in Keys |-> ShownBox(k, d.values[k])], switches |-> d.switches]
PaintForm(d) ==
    /\ d \in tunGets /\ d # Unread /\ tunGets' = tunGets \ {d}
    /\ tunDrawn' = d /\ tunForm' = FormOf(d) /\ touched' = {} /\ tunEdits' = 0
    /\ UNCHANGED <<tuning, tunSaving, measuring, byHand, tunSaves>>

(***************************************************************************)
(* The form's controls.  All but the master switch and Save are hidden      *)
(* while the master switch is off.                                          *)
(***************************************************************************)
FormAtHand == tunForm # NoForm
FormEdited == FormAtHand /\ tunEdits < MaxTunEdits /\ tunEdits' = tunEdits + 1
TuningRest == UNCHANGED <<tuning, tunDrawn, tunGets, tunSaving, measuring, tunSaves>>
SetField(k, v) == tunForm' = [tunForm EXCEPT !.boxes[k] = v]

Master ==
    /\ FormEdited /\ tunForm' = [tunForm EXCEPT !.on = ~@]
    /\ TuningRest /\ UNCHANGED <<byHand, touched>>

MayType(k) == IF k = Log THEN {0, 1} ELSE (Values \ {0}) \cup {Empty}
Type(k, v) ==
    /\ FormEdited /\ tunForm.on /\ SetField(k, v) /\ touched' = touched \cup {k}
    /\ TuningRest /\ UNCHANGED byHand

(* The dice beside one box.                                                 *)
AutoFill(k) ==
    /\ FormEdited /\ tunForm.on
    /\ SetField(k, Recommended[k]) /\ touched' = touched \cup {k}
    /\ TuningRest /\ UNCHANGED byHand

(* The dice for all boxes: values, not switches, and not the access log.    *)
AutoFillAll ==
    /\ FormEdited /\ tunForm.on
    /\ tunForm' = [tunForm EXCEPT !.boxes =
                   [k \in Keys |-> IF k = Log THEN @[k] ELSE Recommended[k]]]
    /\ touched' = touched \cup (Keys \ {Log})
    /\ TuningRest /\ UNCHANGED byHand

Switch(k) ==
    /\ FormEdited /\ tunForm.on
    /\ tunForm' = [tunForm EXCEPT !.switches[k] = ~@]
    /\ byHand' = IF k \in Risky /\ ~tunForm.switches[k] THEN byHand \cup {k} ELSE byHand
    /\ TuningRest /\ UNCHANGED touched

(* Mutant: a section is turned on as a whole.                               *)
TurnedByAll(g, want) == g

(* A section's buttons never turn a risky setting on.                       *)
TurnedBy(g, want) == IF want THEN g \ Risky ELSE g
GroupAll(g, want) ==
    /\ FormEdited /\ tunForm.on
    /\ tunForm' = [tunForm EXCEPT !.switches =
                   [k \in Keys |-> IF k \in TurnedBy(g, want) THEN want ELSE @[k]]]
    /\ TuningRest /\ UNCHANGED <<byHand, touched>>

(***************************************************************************)
(* Saving.                                                                 *)
(***************************************************************************)
(* collect: every box and every switch of the form, hidden or not; an empty *)
(* box is 0.                                                                *)
Collect ==
    [on |-> tunForm.on, switches |-> tunForm.switches,
     values |-> [k \in Keys |-> IF tunForm.boxes[k] = Empty THEN 0 ELSE tunForm.boxes[k]]]

(* Save is dead until it is answered, unless the form is drawn again; the   *)
(* profiles are not.  One PUT at a time is a bound.                         *)
SaveWith(body) ==
    /\ tunSaving = {} /\ tunSaves < MaxTunSaves
    /\ tunSaving' = {body} /\ tunSaves' = tunSaves + 1

SaveForm ==
    /\ FormAtHand /\ SaveWith(Collect)
    /\ UNCHANGED <<tuning, tunDrawn, tunForm, tunGets, measuring, byHand, touched, tunEdits>>

ApplyProfile ==
    /\ FormAtHand /\ tunForm.on /\ SaveWith(Profile)
    /\ UNCHANGED <<tuning, tunDrawn, tunForm, tunGets, measuring, byHand, touched, tunEdits>>

(* It is stored, and the form is asked for again; or it is refused, for its *)
(* values or on the way, and the form stays.                                *)
SaveAnswered ==
    \E body \in tunSaving :
       /\ tunSaving' = tunSaving \ {body}
       /\ \/ tuning' = Stored(tuning, body) /\ tunGets' = Asked
          \/ UNCHANGED <<tuning, tunGets>>
       /\ UNCHANGED <<tunDrawn, tunForm, measuring, byHand, touched, tunEdits, tunSaves>>

Measure ==
    /\ FormAtHand /\ tunForm.on /\ ~measuring /\ measuring' = TRUE
    /\ UNCHANGED <<tuning, tunDrawn, tunForm, tunGets, tunSaving, byHand, touched, tunEdits,
                   tunSaves>>

Measured ==
    /\ measuring /\ measuring' = FALSE
    /\ tunGets' = Asked \/ UNCHANGED tunGets
    /\ UNCHANGED <<tuning, tunDrawn, tunForm, tunSaving, byHand, touched, tunEdits, tunSaves>>

TuningNext ==
    \/ Read \/ (\E d \in tunGets : PaintForm(d))
    \/ Master \/ AutoFillAll \/ SaveForm \/ ApplyProfile \/ SaveAnswered \/ Measure \/ Measured
    \/ (\E k \in Keys : AutoFill(k) \/ Switch(k) \/ (\E v \in MayType(k) : Type(k, v)))
    \/ (\E g \in GROUPS, want \in BOOLEAN : GroupAll(g, want))

TuningSpec == TuningInit /\ [][TuningNext]_tuningVars

(***************************************************************************)
(* Properties.                                                             *)
(***************************************************************************)
(* No setting that can refuse traffic is in force, in the form or on the    *)
(* server, unless somebody turned its own switch on: not by a section's     *)
(* button, a profile, the dice, the master switch, nor by a form that was   *)
(* drawn before another one was saved (tuning.js:308).                      *)
RiskyOnlyByHand ==
    \A k \in Risky :
        NormalizeSettings(tuning)[k] \/ (tunForm # NoForm /\ tunForm.switches[k]) => k \in byHand

(* Pressing Save on a form changes no value it was not touched in: boxes    *)
(* left empty, hidden or switched off go back as they came (tuning.js:92),  *)
(* and filling everything leaves the access log alone (tuning.js:331).      *)
UntouchedValuesTravelBack ==
    tunForm # NoForm =>
        \A k \in Keys : Collect.values[k] # tunDrawn.values[k] => k \in touched

(* tuning.js, config/tuning.go: no risky setting but by its own switch, and *)
(* no value changed that nobody touched.                                    *)
TuningOnlyByHand == RiskyOnlyByHand /\ UntouchedValuesTravelBack

=============================================================================
