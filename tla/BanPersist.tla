------------------------------ MODULE BanPersist ------------------------------
(***************************************************************************)
(* How the ban list reaches the disk (internal/banner/banner.go, from Save *)
(* to Load, with Stop, Ban, Unban, UnbanAll and the end of evaluate).      *)
(*                                                                         *)
(* Everything that changes the list does so under the engine's mutex `mu'. *)
(* An operator's change is then saved by the handler itself, before it     *)
(* answers.  A scan's changes are saved by one background goroutine, which *)
(* requestSave starts, or asks to go round again, through two atomic       *)
(* flags.  The scanner also saves every five minutes, and Stop once.       *)
(*                                                                         *)
(* Save copies the list under the read lock, lets it go, takes saveMu and  *)
(* replaces the file: the copy may be old by the time it is written.       *)
(***************************************************************************)
EXTENDS Naturals, Sequences, FiniteSets

CONSTANTS
    IPs,
    Evaluators,   \* goroutines that run evaluate(): the scanner, a login handler
    Scanner,      \* the one of them that also owns the five-minute ticker
    Handlers,     \* panel requests that ban or release by hand
    Background,   \* the goroutine requestSave starts
    Stopper,      \* main, on SIGTERM
    Nobody,
    TickSaves,    \* the five-minute ticker may fire
    DiskFails,    \* writing the file may fail
    MaxChanges    \* bound: changes to the list in one run

Savers == Evaluators \cup Handlers \cup {Background, Stopper}

ASSUME PersistAssumption ==
    /\ Scanner \in Evaluators
    /\ Background \notin Evaluators \cup Handlers \cup {Stopper}
    /\ Stopper \notin Evaluators \cup Handlers
    /\ Evaluators \cap Handlers = {}
    /\ Nobody \notin Savers
    /\ TickSaves \in BOOLEAN /\ DiskFails \in BOOLEAN
    /\ MaxChanges \in Nat

VARIABLES
    mem,        \* e.bans
    disk,       \* bans.json: [bans, rev], rev numbering the list it holds
    memMu,      \* the writer that holds e.mu, or Nobody
    saveMu,     \* e.saveMu
    saving,     \* e.saving
    saveAgain,  \* e.saveAgain
    savePc,     \* [Savers -> PC]
    snap,       \* [Savers -> a copy of the list, as disk]
    past        \* history: every list the engine ever settled on

persistVars == <<mem, disk, memMu, saveMu, saving, saveAgain, savePc, snap, past>>

SavePC == {"idle", "eval", "dirty", "again", "unlock", "snap", "lock", "write",
       "more", "clear", "wait", "down"}

rev == Len(past)
Copy == [bans : SUBSET IPs, rev : Nat]
Current == [bans |-> mem, rev |-> rev]

PersistTypeOK ==
    /\ mem \in SUBSET IPs
    /\ disk \in Copy
    /\ memMu \in Evaluators \cup {Nobody}
    /\ saveMu \in Savers \cup {Nobody}
    /\ saving \in BOOLEAN /\ saveAgain \in BOOLEAN
    /\ savePc \in [Savers -> SavePC]
    /\ snap \in [Savers -> Copy]
    /\ past \in Seq(SUBSET IPs)

Empty == [bans |-> {}, rev |-> 1]

PersistInit ==
    /\ mem = {}
    /\ disk = Empty
    /\ memMu = Nobody /\ saveMu = Nobody
    /\ saving = FALSE /\ saveAgain = FALSE
    /\ savePc = [p \in Savers |-> "idle"]
    /\ snap = [p \in Savers |-> Empty]
    /\ past = << {} >>

SaveGoto(p, from, to) == savePc[p] = from /\ savePc' = [savePc EXCEPT ![p] = to]

\* Stop closed the engine's channel: the loop starts nothing new.
Stopping == savePc[Stopper] # "idle"

\* The process has exited.
Down == savePc[Stopper] = "down"

------------------------------------------------------------------------------
(* evaluate(): bans and lapses under the mutex, then requestSave.           *)

EvalLock(p) ==
    /\ p = Scanner => ~Stopping
    /\ SaveGoto(p, "idle", "eval")
    /\ memMu = Nobody
    /\ rev < MaxChanges
    /\ memMu' = p
    /\ UNCHANGED <<mem, disk, saveMu, saving, saveAgain, snap, past>>

\* One address at a time: banned, or its ban has lapsed.
EvalChange(p, i) ==
    /\ \/ SaveGoto(p, "eval", "dirty")
       \/ savePc[p] = "dirty" /\ savePc' = savePc
    /\ \/ i \notin mem /\ mem' = mem \cup {i}
       \/ i \in mem /\ mem' = mem \ {i}
    /\ UNCHANGED <<disk, memMu, saveMu, saving, saveAgain, snap, past>>

\* requestSave: the compare-and-swap on `saving'.  Whoever wins starts the
\* background goroutine.
RequestSave(p) ==
    /\ savePc[p] = "dirty"
    /\ past' = Append(past, mem)
    /\ IF saving
         THEN savePc' = [savePc EXCEPT ![p] = "again"] /\ saving' = saving
         ELSE /\ savePc' = [savePc EXCEPT ![p] = "unlock", ![Background] = "snap"]
              /\ saving' = TRUE
    /\ UNCHANGED <<mem, disk, memMu, saveMu, saveAgain, snap>>

\* ... whoever loses sets `saveAgain', in a second atomic step.
RequestAgain(p) ==
    /\ SaveGoto(p, "again", "unlock")
    /\ saveAgain' = TRUE
    /\ UNCHANGED <<mem, disk, memMu, saveMu, saving, snap, past>>

EvalUnlock(p) ==
    /\ SaveGoto(p, "unlock", "idle")
    /\ memMu' = Nobody
    /\ UNCHANGED <<mem, disk, saveMu, saving, saveAgain, snap, past>>

------------------------------------------------------------------------------
(* The other callers of Save.                                               *)

\* Mutant: the handler leaves the mutex taken.
HandChangeLeaks(p) ==
    /\ SaveGoto(p, "idle", "snap")
    /\ memMu = Nobody
    /\ rev < MaxChanges
    /\ memMu' = p
    /\ \E i \in IPs : mem' = mem \cup {i}
    /\ past' = Append(past, mem')
    /\ UNCHANGED <<disk, saveMu, saving, saveAgain, snap>>

\* Ban, Unban, UnbanAll: the change, under the mutex, then persist().  A
\* release that finds nothing to release saves nothing.
HandChange(p) ==
    /\ SaveGoto(p, "idle", "snap")
    /\ memMu = Nobody
    /\ rev < MaxChanges
    /\ \/ \E i \in IPs : mem' = mem \cup {i}
       \/ \E i \in mem : mem' = mem \ {i}
       \/ mem # {} /\ mem' = {}
    /\ past' = Append(past, mem')
    /\ UNCHANGED <<disk, memMu, saveMu, saving, saveAgain, snap>>

\* Mutant: the five-minute ticker only saves while a background save runs.
TickRarely ==
    /\ TickSaves /\ saving
    /\ ~Stopping
    /\ SaveGoto(Scanner, "idle", "snap")
    /\ UNCHANGED <<mem, disk, memMu, saveMu, saving, saveAgain, snap, past>>

Tick ==
    /\ TickSaves
    /\ ~Stopping
    /\ SaveGoto(Scanner, "idle", "snap")
    /\ UNCHANGED <<mem, disk, memMu, saveMu, saving, saveAgain, snap, past>>

Stop ==
    /\ SaveGoto(Stopper, "idle", "wait")
    /\ UNCHANGED <<mem, disk, memMu, saveMu, saving, saveAgain, snap, past>>

\* waitForSave returns when no background save runs, or after a second.
StopWaited ==
    /\ SaveGoto(Stopper, "wait", "snap")
    /\ UNCHANGED <<mem, disk, memMu, saveMu, saving, saveAgain, snap, past>>

------------------------------------------------------------------------------
(* Save().                                                                  *)

\* Mutant: the list is copied without the read lock.
SnapshotUnlocked(p) ==
    /\ SaveGoto(p, "snap", "lock")
    /\ snap' = [snap EXCEPT ![p] = Current]
    /\ UNCHANGED <<mem, disk, memMu, saveMu, saving, saveAgain, past>>

\* The list is copied under the read lock ...
Snapshot(p) ==
    /\ SaveGoto(p, "snap", "lock")
    /\ memMu = Nobody
    /\ snap' = [snap EXCEPT ![p] = Current]
    /\ UNCHANGED <<mem, disk, memMu, saveMu, saving, saveAgain, past>>

\* ... and written under saveMu.
LockSave(p) ==
    /\ SaveGoto(p, "lock", "write")
    /\ saveMu = Nobody
    /\ saveMu' = p
    /\ UNCHANGED <<mem, disk, memMu, saving, saveAgain, snap, past>>

AfterSave(p) ==
    IF p = Background THEN "more" ELSE IF p = Stopper THEN "down" ELSE "idle"

\* A temporary file, fsync, rename.  A failure is logged and forgotten.
WriteFile(p) ==
    /\ SaveGoto(p, "write", AfterSave(p))
    /\ disk' = snap[p] \/ (DiskFails /\ disk' = disk)
    /\ saveMu' = Nobody
    /\ UNCHANGED <<mem, memMu, saving, saveAgain, snap, past>>

------------------------------------------------------------------------------
(* The background goroutine, after each save.                               *)

\* Mutant: the flag is dropped before the last look at saveAgain.
OnceMoreEarly ==
    /\ saving' = FALSE
    /\ IF saveAgain
         THEN SaveGoto(Background, "more", "snap") /\ saveAgain' = FALSE
         ELSE SaveGoto(Background, "more", "clear") /\ saveAgain' = saveAgain
    /\ UNCHANGED <<mem, disk, memMu, saveMu, snap, past>>

OnceMore ==
    /\ IF saveAgain
         THEN SaveGoto(Background, "more", "snap") /\ saveAgain' = FALSE
         ELSE SaveGoto(Background, "more", "clear") /\ saveAgain' = saveAgain
    /\ UNCHANGED <<mem, disk, memMu, saveMu, saving, snap, past>>

ClearSaving ==
    /\ SaveGoto(Background, "clear", "idle")
    /\ saving' = FALSE
    /\ UNCHANGED <<mem, disk, memMu, saveMu, saveAgain, snap, past>>

------------------------------------------------------------------------------
\* The process ends, killed or after Stop, and a new one loads the file.
\* Goroutines that were half way through a save are gone with it.
Restart ==
    /\ mem' = disk.bans
    /\ past' = IF disk.rev = rev THEN past ELSE Append(past, disk.bans)
    /\ disk' = [disk EXCEPT !.rev = Len(past')]
    /\ memMu' = Nobody /\ saveMu' = Nobody
    /\ saving' = FALSE /\ saveAgain' = FALSE
    /\ savePc' = [p \in Savers |-> "idle"]
    /\ snap' = [p \in Savers |-> Empty]

Saving(p) == Snapshot(p) \/ LockSave(p) \/ WriteFile(p)

\* What a goroutine does once it is inside a call.
SaveStep(p) ==
    \/ /\ p \in Evaluators
       /\ \/ \E i \in IPs : EvalChange(p, i)
          \/ RequestSave(p) \/ RequestAgain(p) \/ EvalUnlock(p)
    \/ p = Background /\ (OnceMore \/ ClearSaving)
    \/ p = Stopper /\ StopWaited
    \/ Saving(p)

PersistNext ==
    \/ Restart
    \/ /\ ~Down
       /\ \/ \E p \in Evaluators : EvalLock(p)
          \/ \E p \in Handlers : HandChange(p)
          \/ Tick \/ Stop
          \/ \E p \in Savers : SaveStep(p)

PersistSpec == PersistInit /\ [][PersistNext]_persistVars

\* A goroutine inside a call goes on (a scan visits each address once, so it
\* does not stay in its loop), a free mutex is handed to whoever keeps waiting
\* for it, the ticker keeps ticking, and the disk does not fail it for ever.
Advance(p) == ~Down /\ SaveStep(p) /\ savePc'[p] # savePc[p]

PersistFairness ==
    /\ \A p \in Savers : SF_persistVars(Advance(p))
    /\ SF_persistVars(~Down /\ WriteFile(Scanner) /\ disk' = snap[Scanner])
    /\ WF_persistVars(~Down /\ Tick)

PersistFairSpec == PersistSpec /\ PersistFairness
------------------------------------------------------------------------------
\* A file never holds half a scan: whatever the order of changes, copies and
\* crashes, bans.json is a list the engine had settled on, whole.
DiskIsWhole == disk.rev \in DOMAIN past /\ disk.bans = past[disk.rev]

\* "At most one save is ever in flight" in the background (banner.go:198):
\* requestSave never starts a goroutine while the last one still runs.
OneBackgroundSave ==
    [][\A p \in Evaluators : RequestSave(p) /\ ~saving => savePc[Background] = "idle"]_persistVars

\* No order of mu, saveMu and the two flags leaves a goroutine stuck in a
\* save (evaluate holds mu while it asks for one, banner.go:600).
SavesReturn ==
    \A p \in Savers : (savePc[p] # "idle") ~> (Down \/ savePc[p] = "idle")

\* Unless the process keeps being restarted, once the list stops changing the
\* file catches up with it for good: neither a late write of an old copy nor a
\* missed request outlives the next tick.
DiskCatchesUp == []<><<Restart>>_persistVars \/ <>[](Down \/ disk.bans = mem)

\* banner.go:1017: "two saves can never interleave and an older one can never
\* land last".
OlderNeverLandsLast == [][disk'.rev >= disk.rev]_disk
==============================================================================
