------------------------------ MODULE LadderForm ------------------------------
(***************************************************************************)
(* The automatic-ban form (static/js/pages/autoban.js): the ladder of ban  *)
(* lengths, edited as rows of a number and a unit, one rule's own length,  *)
(* picked from a list of durations, and the save, which the server         *)
(* validates (config/escalation.go).                                       *)
(*                                                                         *)
(* The rows in the document are the only copy of the ladder.               *)
(***************************************************************************)
EXTENDS Integers, Sequences

CONSTANTS
    Numbers,          \* bound: what is typed into a row
    MaxRows,          \* bound: rows in the form
    MaxLadderEdits,   \* bound: changes between two draws of the form
    MaxLadderSaves,   \* bound: saves
    MaxSteps,         \* MaxEscalationSteps
    MaxMinutes,       \* maxStepMinutes, a year
    DefaultSteps,     \* the shipped ladder
    Durations,        \* DURATIONS, in order
    StoredBan         \* the rule's length before the form is first used

LadderAssumption ==
    /\ Numbers \subseteq Nat /\ StoredBan \in Int
    /\ DefaultSteps \in Seq((Nat \ {0}) \cup {-1}) /\ DefaultSteps # <<>>
    /\ Durations \in Seq(Int) /\ Durations # <<>>
    /\ MaxLadderEdits \in Nat /\ MaxLadderSaves \in Nat /\ MaxSteps \in Nat /\ MaxMinutes \in Nat

VARIABLES
    config,   \* the server's ladder, whether it is on, and the rule's length
    rungs,    \* the rows of the editor
    escOn,    \* the ladder's check box
    pick,     \* the rule's duration select
    locked,   \* whether that select is disabled
    edits,    \* changes since the form was drawn
    saving,   \* the PUT on the wire
    saved     \* saves so far

ladderVars == <<config, rungs, escOn, pick, locked, edits, saving, saved>>

Perm == -1
Mult(u) == CASE u = "m" -> 1 [] u = "h" -> 60 [] u = "d" -> 1440
Units == {"m", "h", "d"}
Row == [perm : BOOLEAN, n : Nat, u : Units]
Minutes == Nat \ {0}
Step == Minutes \cup {Perm}

(***************************************************************************)
(* Minutes to a row and back.                                              *)
(***************************************************************************)
(* splitDuration: the largest unit that divides, never a bare number of     *)
(* minutes where hours or days will do.                                     *)
SplitDuration(m) ==
    IF m < 0 THEN [perm |-> TRUE, n |-> 1, u |-> "h"]
    ELSE IF m >= 1440 /\ m % 1440 = 0 THEN [perm |-> FALSE, n |-> m \div 1440, u |-> "d"]
    ELSE IF m >= 60 /\ m % 60 = 0 THEN [perm |-> FALSE, n |-> m \div 60, u |-> "h"]
    ELSE [perm |-> FALSE, n |-> IF m = 0 THEN 1 ELSE m, u |-> "m"]

ReadStep(r) == IF r.perm THEN Perm ELSE (IF r.n = 0 THEN 1 ELSE r.n) * Mult(r.u)
ReadSteps(R) == [i \in DOMAIN R |-> ReadStep(R[i])]
StepRows(S) == [i \in DOMAIN S |-> SplitDuration(S[i])]

(* durationOptions: a length that is not offered leaves the first selected. *)
DurationOptions(ban) == IF \E i \in DOMAIN Durations : Durations[i] = ban THEN ban ELSE Durations[1]

(***************************************************************************)
(* What is wrong with a ladder, here and on the server.                    *)
(***************************************************************************)
(* The last step before i that is a length.                                 *)
PrevStep(S, i) ==
    LET before == {j \in 1..(i - 1) : S[j] > 0}
    IN IF before = {} THEN 0 ELSE S[CHOOSE j \in before : \A k \in before : k <= j]

(* syncSteps: the messages under the rows.                                  *)
Misplaced(S) == {i \in DOMAIN S : S[i] = Perm /\ i # Len(S)}
(* Mutant: a rung as long as the one before it is warned about.             *)
FallingOrFlat(S) == {i \in DOMAIN S : S[i] > 0 /\ S[i] <= PrevStep(S, i)}

Falling(S) == {i \in DOMAIN S : S[i] > 0 /\ S[i] < PrevStep(S, i)}
Warned(S) == Misplaced(S) \cup Falling(S) # {}

(* ValidateEscalation: a permanent step leaves prev alone.                  *)
Valid(S) ==
    /\ Len(S) \in 1..MaxSteps
    /\ \A i \in DOMAIN S :
          IF S[i] = Perm THEN i = Len(S)
          ELSE S[i] \in 1..MaxMinutes /\ S[i] >= PrevStep(S, i)

(***************************************************************************)
(* The form.                                                               *)
(***************************************************************************)
(* syncLadderOwnership.                                                     *)
Locked(on, ban) == on /\ ban # Perm

Draw(c) ==
    /\ rungs' = StepRows(c.steps) /\ escOn' = c.on
    /\ pick' = DurationOptions(c.ban)
    /\ locked' = Locked(c.on, DurationOptions(c.ban))
    /\ edits' = 0

LadderInit ==
    /\ config = [steps |-> DefaultSteps, on |-> TRUE, ban |-> StoredBan]
    /\ rungs = StepRows(DefaultSteps) /\ escOn = TRUE
    /\ pick = DurationOptions(StoredBan) /\ locked = Locked(TRUE, pick)
    /\ edits = 0 /\ saving = <<>> /\ saved = 0

LadderEdited == edits < MaxLadderEdits /\ edits' = edits + 1
LadderRest == UNCHANGED <<config, escOn, pick, locked, saving, saved>>

(* A new rung is double the last one that is a length, up to a year.        *)
NewRung(S) ==
    LET last == IF PrevStep(S, Len(S) + 1) = 0 THEN 30 ELSE PrevStep(S, Len(S) + 1)
    IN IF 2 * last > 525600 THEN 525600 ELSE 2 * last

AddStep ==
    /\ Len(rungs) < MaxRows
    /\ rungs' = Append(rungs, SplitDuration(NewRung(ReadSteps(rungs))))
    /\ LadderEdited /\ LadderRest

(* A ladder needs a first rung.                                             *)
DeleteStep(i) ==
    /\ i \in DOMAIN rungs /\ Len(rungs) > 1
    /\ rungs' = [j \in 1..(Len(rungs) - 1) |-> IF j < i THEN rungs[j] ELSE rungs[j + 1]]
    /\ LadderEdited /\ LadderRest

TypeStep(i, n, u) ==
    /\ i \in DOMAIN rungs /\ ~rungs[i].perm
    /\ rungs' = [rungs EXCEPT ![i] = [perm |-> FALSE, n |-> n, u |-> u]]
    /\ LadderEdited /\ LadderRest

TickPermanent(i) ==
    /\ i \in DOMAIN rungs
    /\ rungs' = [rungs EXCEPT ![i] = [perm |-> ~rungs[i].perm, n |-> rungs[i].n, u |-> rungs[i].u]]
    /\ LadderEdited /\ LadderRest

ResetSteps == rungs' = StepRows(DefaultSteps) /\ LadderEdited /\ LadderRest

TickLadder ==
    /\ escOn' = ~escOn /\ locked' = Locked(~escOn, pick) /\ LadderEdited
    /\ UNCHANGED <<config, rungs, pick, saving, saved>>

PickDuration(ban) ==
    /\ ~locked
    /\ pick' = ban /\ locked' = Locked(escOn, ban) /\ LadderEdited
    /\ UNCHANGED <<config, rungs, escOn, saving, saved>>

(* The button is disabled until the answer; the fields are not.             *)
Payload == [steps |-> ReadSteps(rungs), on |-> escOn, ban |-> pick]
SaveLadder ==
    /\ saving = <<>> /\ saved < MaxLadderSaves
    /\ saving' = <<Payload>> /\ saved' = saved + 1
    /\ UNCHANGED <<config, rungs, escOn, pick, locked, edits>>

Accepted(c) == c.on => Valid(c.steps)

(* The page is drawn again from what the server stored; a refusal leaves    *)
(* the form as it is.                                                       *)
Saved ==
    /\ saving # <<>> /\ saving' = <<>>
    /\ \/ Accepted(saving[1]) /\ config' = saving[1] /\ Draw(saving[1])
       \/ UNCHANGED <<config, rungs, escOn, pick, locked, edits>>
    /\ UNCHANGED saved

LadderNext ==
    \/ AddStep \/ ResetSteps \/ TickLadder \/ SaveLadder \/ Saved
    \/ (\E i \in 1..MaxRows : DeleteStep(i) \/ TickPermanent(i))
    \/ (\E i \in 1..MaxRows, n \in Numbers, u \in Units : TypeStep(i, n, u))
    \/ (\E i \in DOMAIN Durations : PickDuration(Durations[i]))

LadderSpec == LadderInit /\ [][LadderNext]_ladderVars

LadderTypeOK ==
    /\ config \in [steps : Seq(Step), on : BOOLEAN, ban : Int]
    /\ rungs \in Seq(Row) /\ escOn \in BOOLEAN /\ pick \in Int /\ locked \in BOOLEAN
    /\ edits \in Nat /\ saved \in Nat
    /\ saving = <<>> \/ saving \in Seq([steps : Seq(Step), on : BOOLEAN, ban : Int])

(***************************************************************************)
(* Properties.                                                             *)
(***************************************************************************)
(* A form nobody touched would save the ladder it was drawn from: the rows  *)
(* read back as the minutes they were made of (autoban.js:81, :117).        *)
UntouchedLadderIsTheStored == edits = 0 => ReadSteps(rungs) = config.steps

(* "Local mirror of the server's own checks" (autoban.js:351): a ladder of  *)
(* a permitted number of steps, none above a year, is warned about exactly  *)
(* when the server would refuse it.                                         *)
FormAgreesWithServer ==
    LET S == ReadSteps(rungs) IN
    Len(S) <= MaxSteps /\ (\A i \in DOMAIN S : S[i] <= MaxMinutes)
        => (Warned(S) <=> ~Valid(S))

(* While the ladder is on, no duration that would be ignored can be picked  *)
(* (autoban.js:383); a permanent one is not ignored.                        *)
OneOwner == locked <=> escOn /\ pick # Perm

(* autoban.js: the form warns exactly of what the server refuses, and       *)
(* leaves what nobody touched as it was stored.                             *)
FormMirrorsServer == FormAgreesWithServer /\ UntouchedLadderIsTheStored /\ OneOwner

=============================================================================
