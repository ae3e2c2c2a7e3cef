------------------------------ MODULE MCFiles ------------------------------
(***************************************************************************)
(* The files the service writes while it runs, as small instances side by  *)
(* side: two goroutines and a CLI command on config.json, and the way of   *)
(* the ban list to the disk, twice.  `part` says which one a behaviour is  *)
(* about; the variables of the other stand still.                          *)
(***************************************************************************)
EXTENDS MCConfigStore, BanPersist

VARIABLE part

(* The ban list has three changes, all by the scanner; or two, by the       *)
(* scanner and a panel request, on a disk that may fail.                    *)
Disk == INSTANCE BanPersist WITH DiskFails <- TRUE, MaxChanges <- 2

----------------------------------------------------------------------------
FilesInit == part \in {"config", "disk", "scans"} /\ Init /\ PersistInit

FilesNext ==
    \/ part = "config" /\ Next /\ UNCHANGED <<part, persistVars>>
    \/ part = "disk" /\ Disk!PersistNext /\ UNCHANGED <<part, vars>>
    \/ part = "scans" /\ PersistNext /\ savePc'["request"] = "idle" /\ UNCHANGED <<part, vars>>

filesVars == <<part, vars, persistVars>>
FilesSpec == FilesInit /\ [][FilesNext]_filesVars

----------------------------------------------------------------------------
(* config.go:598: every call into the Manager returns, wherever another     *)
(* goroutine or process is killed.                                          *)
ConfigCallsReturn == part = "config" /\ Fairness => CallsReturn

(* banner.go:600, :1120: nobody hangs in a save, and unless the process     *)
(* keeps being restarted the file catches up with a list that stops         *)
(* changing.  Everything on the way stays in its type.                      *)
DiskFollows ==
    /\ []PersistTypeOK
    /\ part = "disk" /\ Disk!PersistFairness => Disk!SavesReturn /\ Disk!DiskCatchesUp

============================================================================
