----------------------------- MODULE MCKeeping -----------------------------
(***************************************************************************)
(* What the service keeps and for how long, as small instances side by     *)
(* side: the ban engine, the ban engine at its memory caps, the backup     *)
(* schedule over two and a half days, and backups and restores by hand.    *)
(* `part` says which one a behaviour is about; the others' variables stand *)
(* still.                                                                  *)
(***************************************************************************)
EXTENDS MCBanEngine, Backups

VARIABLES
    part,
    capNow, capCfg, capBans, capEvents, capOffenders, capMu, capTask, capSince, capFresh

capVars == <<capNow, capCfg, capBans, capEvents, capOffenders, capMu, capTask, capSince, capFresh>>

(* A ban for the first offence, for one unit and then for two; three        *)
(* addresses against room for two counters and two ledger records.          *)
Caps == INSTANCE BanEngine WITH
    IPs <- {1, 2, 3}, Scanner <- Scanner, Login <- Login,
    KindsOf <- ScanOnly,
    Rules <- << [window |-> 1, hits |-> 1, ban |-> 1, permanent |-> FALSE] >>,
    Steps <- << 1, 2 >>, Forever <- 1000, Decay <- 2, Scale <- 4,
    MaxTracked <- 2, MaxOffenders <- 2, EvictTarget <- 1, Exempt <- {}, ManualLengths <- {},
    Configs <- {[enabled |-> TRUE, ladder |-> TRUE, allow |-> {1}]},
    MaxTime <- 1, MaxRecords <- 1, MaxCount <- 3, MaxLag <- 1,
    now <- capNow, cfg <- capCfg, bans <- capBans, events <- capEvents, offenders <- capOffenders,
    mu <- capMu, task <- capTask, since <- capSince, fresh <- capFresh

(* A tick lasts two units and a day eight; every generation keeps one.      *)
Spans == [hour |-> 4, day |-> 8, week |-> 16, month |-> 12]
OneOfEach == [hour |-> 1, day |-> 1, week |-> 1, month |-> 1]
Every(interval) ==
    [enabled |-> TRUE, every |-> interval, encrypt |-> FALSE, pass |-> "", offsite |-> FALSE]

(* The operator: one backup, restore or deletion, two changes, on a disk    *)
(* that may fail; with a passphrase too short to send off the machine, and  *)
(* with one that is not.                                                    *)
Typed == {[Every(8) EXCEPT !.encrypt = TRUE, !.pass = "weak"],
          [Every(8) EXCEPT !.encrypt = TRUE, !.pass = "strong", !.offsite = TRUE]}
Daily == Every(8)

(* The schedule alone, taking one every four units; one restart or edit.    *)
Schedule == INSTANCE Backups WITH
    Forms <- {}, FirstSettings <- Every(4), Strong <- {}, DiskFails <- FALSE,
    MaxClock <- 20, MaxHands <- 0, MaxChanges <- 1

----------------------------------------------------------------------------
KeepingInit ==
    /\ Init /\ Caps!Init
    /\ \/ part \in {"engine", "caps", "schedule"} /\ Schedule!BackupInit
       \/ part = "hands" /\ BackupInit

KeepingNext ==
    \/ part = "engine" /\ Next /\ UNCHANGED <<part, capVars, backupVars>>
    \/ part = "caps" /\ Caps!Next /\ UNCHANGED <<part, vars, backupVars>>
    \/ part = "schedule" /\ Schedule!BackupNext /\ UNCHANGED <<part, vars, capVars>>
    \/ part = "hands" /\ BackupNext /\ UNCHANGED <<part, vars, capVars>>

keepingVars == <<part, vars, capVars, backupVars>>
KeepingSpec == KeepingInit /\ [][KeepingNext]_keepingVars

----------------------------------------------------------------------------
(* banner.go:253, escalate.go:56: counters and ledger stay under their caps, *)
(* whatever the flood of addresses.  The backups are well typed too.       *)
CapsHold == Caps!TypeOK /\ Caps!MemoryBounded /\ BackupTypeOK

=============================================================================
