----------------------------- MODULE AtomicStore -----------------------------
(***************************************************************************)
(* What internal/config/config.go promises the rest of Shahrag about       *)
(* config.json, without locks, temporary files or migrations: one cell     *)
(* that is loaded and stored whole, in one step each.                      *)
(***************************************************************************)
CONSTANTS Procs, Edits, NoFile

VARIABLES
    cfg,       \* the stored configuration, or NoFile
    hand,      \* the configuration each goroutine has in memory
    started,   \* edits some goroutine has made in memory
    acked      \* edits whose caller was told they are stored

vars == <<cfg, hand, started, acked>>

Default == [edits |-> {}, legacy |-> FALSE]
WithEdit(c, e) == [edits |-> c.edits \cup {e}, legacy |-> c.legacy]

Init ==
    /\ cfg \in {NoFile, Default}
    /\ hand = [p \in Procs |-> Default]
    /\ started = {}
    /\ acked = {}

\* A goroutine that found no configuration starts from the default one.
Fresh(p) ==
    /\ cfg = NoFile
    /\ hand' = [hand EXCEPT ![p] = Default]
    /\ UNCHANGED <<cfg, started, acked>>

Load(p) ==
    /\ cfg # NoFile
    /\ hand' = [hand EXCEPT ![p] = cfg]
    /\ UNCHANGED <<cfg, started, acked>>

Edit(p) ==
    /\ \E e \in Edits \ started :
         /\ hand' = [hand EXCEPT ![p] = WithEdit(hand[p], e)]
         /\ started' = started \cup {e}
    /\ UNCHANGED <<cfg, acked>>

Store(p) ==
    /\ cfg' = hand[p]
    /\ acked' = acked \cup hand[p].edits
    /\ UNCHANGED <<hand, started>>

Next == \E p \in Procs : Fresh(p) \/ Load(p) \/ Edit(p) \/ Store(p)

Spec == Init /\ [][Next]_vars
==============================================================================
