------------------------------ MODULE FilesProofs ------------------------------
(***************************************************************************)
(* Proofs about what the server keeps in files: the configuration store    *)
(* (ConfigStore), for any number of processes and goroutines, and the ban  *)
(* list on the disk (BanPersist), for any addresses and any callers.       *)
(***************************************************************************)
EXTENDS ConfigStore, BanPersist, SequenceTheorems, TLAPS

-------------------------------------------------------------------------------
(***************************************************************************)
(* The configuration store.                                                *)
(***************************************************************************)
\* While a goroutine is inside Read or Write it holds its Manager's mutex,
\* and from the open on it holds the lock file too.
HoldsMu == {"r_flock", "r_open", "r_rename", "w_flock", "w_temp", "w_rename"}
HoldsFlock == {"r_open", "r_rename", "w_temp", "w_rename"}

LocksHeld ==
    \A p \in Procs : /\ pc[p] \in HoldsMu => mu[HostOf[p]] = p
                     /\ pc[p] \in HoldsFlock => flock[Lock(p)] = p

LEMMA LockIsALockFile == \A p \in Procs : HostOf[p] \in Hosts /\ Lock(p) \in LockFiles
  BY ConstantsAssumption DEF Lock

LEMMA DefaultIsConfig == Default \in Config /\ Unmigrated \in Config
  BY DEF Default, Unmigrated, Config

LEMMA WithEditIsConfig == \A c \in Config, e \in Edits : WithEdit(c, e) \in Config
  BY DEF WithEdit, Config

LEMMA MigratedIsConfig ==
  \A c \in Config : Migrated(c) \in Config /\ Migrated(c).edits = c.edits
  BY DEF Migrated, Config

\* Type correctness: every variable keeps its type whatever the processes do.
THEOREM TypeCorrect == Spec => []TypeOK
<1>1. Init => TypeOK
  <2> SUFFICES ASSUME Init PROVE TypeOK
    OBVIOUS
  <2> QED
    BY DefaultIsConfig DEF Init, TypeOK, PC, Op
<1>2. TypeOK /\ [Next]_vars => TypeOK'
  <2> SUFFICES ASSUME TypeOK, [Next]_vars PROVE TypeOK'
    OBVIOUS
  <2> USE LockIsALockFile, DefaultIsConfig DEF TypeOK, PC, Op
  <2>1. ASSUME NEW h \in Hosts, Start(h) PROVE TypeOK'
    BY <2>1, ConstantsAssumption DEF Start
  <2>2. ASSUME NEW h \in Hosts, Crash(h) PROVE TypeOK'
    BY <2>2 DEF Crash
  <2>3. ASSUME NEW p \in Procs, EnsureStat(p) PROVE TypeOK'
    BY <2>3 DEF EnsureStat, Up
  <2>4. ASSUME NEW p \in Procs, CallRead(p) PROVE TypeOK'
    BY <2>4 DEF CallRead, Goto
  <2>5. ASSUME NEW p \in Procs, CallMutate(p) PROVE TypeOK'
    BY <2>5 DEF CallMutate, Goto
  <2>6. ASSUME NEW p \in Procs, LockMu(p) PROVE TypeOK'
    BY <2>6 DEF LockMu, Goto
  <2>7. ASSUME NEW p \in Procs, LockFlock(p) PROVE TypeOK'
    BY <2>7 DEF LockFlock, Goto
  <2>8. ASSUME NEW p \in Procs, ReadOpen(p) PROVE TypeOK'
    BY <2>8, MigratedIsConfig DEF ReadOpen, ReadReturns, Unlock
  <2>9. ASSUME NEW p \in Procs, ReadRename(p) PROVE TypeOK'
    BY <2>9 DEF ReadRename, ReadReturns, Unlock
  <2>10. ASSUME NEW p \in Procs, Apply(p) PROVE TypeOK'
    BY <2>10, WithEditIsConfig DEF Apply
  <2>11. ASSUME NEW p \in Procs, WriteTemp(p) PROVE TypeOK'
    BY <2>11 DEF WriteTemp, Unlock, Up
  <2>12. ASSUME NEW p \in Procs, WriteRename(p) PROVE TypeOK'
    BY <2>12 DEF WriteRename, Unlock, Up, Config
  <2>13. CASE UNCHANGED vars
    BY <2>13 DEF vars
  <2> HIDE DEF TypeOK, PC, Op
  <2> QED
    BY <2>1, <2>2, <2>3, <2>4, <2>5, <2>6, <2>7, <2>8, <2>9, <2>10, <2>11,
       <2>12, <2>13 DEF Next, Step
<1> QED
  BY <1>1, <1>2, PTL DEF Spec

\* Whoever is between the open and the rename of config.json holds both
\* locks, in every state and after every crash.
THEOREM LocksAreHeld == Spec => []LocksHeld
<1>1. Init => LocksHeld
  BY DEF Init, LocksHeld, HoldsMu, HoldsFlock
<1>2. TypeOK /\ LocksHeld /\ [Next]_vars => LocksHeld'
  <2> SUFFICES ASSUME TypeOK, LocksHeld, [Next]_vars,
                      NEW q \in Procs
               PROVE  /\ pc'[q] \in HoldsMu => mu'[HostOf[q]] = q
                      /\ pc'[q] \in HoldsFlock => flock'[Lock(q)] = q
    BY DEF LocksHeld, Lock
  <2> USE LockIsALockFile, ConstantsAssumption DEF TypeOK, LocksHeld, HoldsMu, HoldsFlock
  <2> DEFINE Goal == /\ pc'[q] \in HoldsMu => mu'[HostOf[q]] = q
                     /\ pc'[q] \in HoldsFlock => flock'[Lock(q)] = q
  <2>1. ASSUME NEW h \in Hosts, Start(h) PROVE Goal
    BY <2>1 DEF Start
  <2>2. ASSUME NEW h \in Hosts, Crash(h) PROVE Goal
    BY <2>2 DEF Crash
  <2>3. ASSUME NEW p \in Procs, EnsureStat(p) PROVE Goal
    BY <2>3 DEF EnsureStat, Up
  <2>4. ASSUME NEW p \in Procs, CallRead(p) PROVE Goal
    BY <2>4 DEF CallRead, Goto
  <2>5. ASSUME NEW p \in Procs, CallMutate(p) PROVE Goal
    BY <2>5 DEF CallMutate, Goto
  <2>6. ASSUME NEW p \in Procs, LockMu(p) PROVE Goal
    BY <2>6 DEF LockMu, Goto
  <2>7. ASSUME NEW p \in Procs, LockFlock(p) PROVE Goal
    BY <2>7 DEF LockFlock, Goto
  <2>8. ASSUME NEW p \in Procs, ReadOpen(p) PROVE Goal
    BY <2>8 DEF ReadOpen, ReadReturns, Unlock
  <2>9. ASSUME NEW p \in Procs, ReadRename(p) PROVE Goal
    BY <2>9 DEF ReadRename, ReadReturns, Unlock
  <2>10. ASSUME NEW p \in Procs, Apply(p) PROVE Goal
    BY <2>10 DEF Apply
  <2>11. ASSUME NEW p \in Procs, WriteTemp(p) PROVE Goal
    BY <2>11 DEF WriteTemp, Unlock, Up
  <2>12. ASSUME NEW p \in Procs, WriteRename(p) PROVE Goal
    BY <2>12 DEF WriteRename, Unlock, Up
  <2>13. CASE UNCHANGED vars
    BY <2>13 DEF vars
  <2> QED
    BY <2>1, <2>2, <2>3, <2>4, <2>5, <2>6, <2>7, <2>8, <2>9, <2>10, <2>11,
       <2>12, <2>13 DEF Next, Step
<1> QED
  BY <1>1, <1>2, TypeCorrect, PTL DEF Spec

(* Refinement.  It needs every process to open the same lock file, which is *)
(* what lock() gives as long as they all run as the user that owns it.      *)
OneLockFile == \A g, h \in Hosts : LockOf[g] = LockOf[h]

\* Between reading an old file and renaming the migrated one over it, the
\* file still is what was read.
MigrationInHand ==
    \A p \in Procs : pc[p] = "r_rename" => /\ file \in Config
                                           /\ hand[p] = Migrated(file)

LEMMA OneHolder ==
  ASSUME OneLockFile, LocksHeld, NEW p \in Procs, NEW q \in Procs,
         pc[p] \in HoldsFlock, pc[q] \in HoldsFlock
  PROVE  p = q
  BY LockIsALockFile DEF OneLockFile, LocksHeld, Lock

\* With one lock file, what a migrating Read has in hand is what is in the
\* file: nobody writes between its open and its rename (config.go:725).
THEOREM MigrationHolds == OneLockFile => (Spec => []MigrationInHand)
<1> SUFFICES ASSUME OneLockFile PROVE Spec => []MigrationInHand
  OBVIOUS
<1>1. Init => MigrationInHand
  BY DEF Init, MigrationInHand
<1>2. TypeOK /\ LocksHeld /\ MigrationInHand /\ [Next]_vars => MigrationInHand'
  <2> SUFFICES ASSUME TypeOK, LocksHeld, MigrationInHand, [Next]_vars,
                      NEW q \in Procs, pc'[q] = "r_rename"
               PROVE  file' \in Config /\ hand'[q] = Migrated(file')
    BY DEF MigrationInHand, Migrated
  <2> DEFINE Goal == file' \in Config /\ hand'[q] = Migrated(file')
  <2> USE DEF TypeOK, MigrationInHand
  <2>1. ASSUME NEW h \in Hosts, Start(h) PROVE Goal
    BY <2>1, ConstantsAssumption DEF Start
  <2>2. ASSUME NEW h \in Hosts, Crash(h) PROVE Goal
    BY <2>2 DEF Crash
  <2>3. ASSUME NEW p \in Procs, EnsureStat(p) PROVE Goal
    BY <2>3 DEF EnsureStat, Up
  <2>4. ASSUME NEW p \in Procs, CallRead(p) PROVE Goal
    BY <2>4 DEF CallRead, Goto
  <2>5. ASSUME NEW p \in Procs, CallMutate(p) PROVE Goal
    BY <2>5 DEF CallMutate, Goto
  <2>6. ASSUME NEW p \in Procs, LockMu(p) PROVE Goal
    BY <2>6 DEF LockMu, Goto
  <2>7. ASSUME NEW p \in Procs, LockFlock(p) PROVE Goal
    BY <2>7 DEF LockFlock, Goto
  <2>8. ASSUME NEW p \in Procs, ReadOpen(p) PROVE Goal
    BY <2>8 DEF ReadOpen, ReadReturns
  <2>9. ASSUME NEW p \in Procs, ReadRename(p) PROVE Goal
    <3>1. p # q
      BY <2>9 DEF ReadRename, ReadReturns
    <3>2. pc[q] = "r_rename" /\ pc[p] = "r_rename"
      BY <2>9, <3>1 DEF ReadRename, ReadReturns
    <3> QED
      BY <3>1, <3>2, OneHolder DEF HoldsFlock
  <2>10. ASSUME NEW p \in Procs, Apply(p) PROVE Goal
    BY <2>10 DEF Apply
  <2>11. ASSUME NEW p \in Procs, WriteTemp(p) PROVE Goal
    BY <2>11 DEF WriteTemp, Up
  <2>12. ASSUME NEW p \in Procs, WriteRename(p) PROVE Goal
    <3>1. pc[q] = "r_rename" /\ pc[p] = "w_rename"
      BY <2>12 DEF WriteRename, Up
    <3>2. p = q
      BY <3>1, OneHolder DEF HoldsFlock
    <3> QED
      BY <3>1, <3>2
  <2>13. CASE UNCHANGED vars
    BY <2>13 DEF vars
  <2> QED
    BY <2>1, <2>2, <2>3, <2>4, <2>5, <2>6, <2>7, <2>8, <2>9, <2>10, <2>11,
       <2>12, <2>13 DEF Next, Step
<1> QED
  BY <1>1, <1>2, TypeCorrect, LocksAreHeld, PTL DEF Spec

\* The migration inside Read never drops an edit that is in the file.
THEOREM MigrationLosesNothing == OneLockFile => (Spec => ReadLosesNoEdit)
<1> SUFFICES ASSUME OneLockFile PROVE Spec => ReadLosesNoEdit
  OBVIOUS
<1>1. MigrationInHand => [\A p \in Procs : ReadRename(p) => file'.edits = file.edits]_vars
  <2> SUFFICES ASSUME MigrationInHand, NEW p \in Procs, ReadRename(p)
               PROVE  file'.edits = file.edits
    OBVIOUS
  <2> QED
    BY MigratedIsConfig DEF MigrationInHand, ReadRename
<1>2. Spec => []MigrationInHand
  BY MigrationHolds
<1> QED
  BY <1>1, <1>2, PTL DEF ReadLosesNoEdit

LEMMA MigratedTwice == \A c \in Config : Migrated(Migrated(c)) = Migrated(c)
  BY DEF Migrated, Config

LEMMA MigratedDefault == Migrated(Default) = Default /\ Migrated(Unmigrated) = Default
  BY DEF Migrated, Default, Unmigrated

\* No configuration a caller holds is still to be migrated.
HandMigrated == \A p \in Procs : hand[p].legacy = FALSE

LEMMA MigratedSame == \A c \in Config : c.legacy = FALSE => Migrated(c) = c
  BY DEF Migrated, Config

LEMMA HandStaysMigrated == TypeOK /\ HandMigrated /\ [Next]_vars => HandMigrated'
<1> SUFFICES ASSUME TypeOK, HandMigrated, [Next]_vars, NEW q \in Procs
             PROVE  hand'[q].legacy = FALSE
  BY DEF HandMigrated
<1> DEFINE Goal == hand'[q].legacy = FALSE
<1> USE DEF TypeOK, HandMigrated
<1>1. ASSUME NEW p \in Procs, EnsureStat(p) PROVE Goal
  BY <1>1 DEF EnsureStat, Default
<1>2. ASSUME NEW p \in Procs, ReadOpen(p) PROVE Goal
  BY <1>2 DEF ReadOpen, Migrated
<1>3. ASSUME NEW p \in Procs, Apply(p) PROVE Goal
  BY <1>3 DEF Apply, WithEdit
<1>4. CASE hand' = hand
  BY <1>4
<1> QED
  BY <1>1, <1>2, <1>3, <1>4 DEF Next, Step, Start, Crash, CallRead, CallMutate,
     LockMu, LockFlock, ReadRename, WriteTemp, WriteRename, vars

\* Every configuration a caller is about to store has been migrated by the
\* Read it came from (config.go:774).
THEOREM HandIsMigrated == Spec => []HandMigrated
<1>1. Init => HandMigrated
  BY DEF Init, HandMigrated, Default
<1> QED
  BY <1>1, HandStaysMigrated, TypeCorrect, PTL DEF Spec

\* The Manager implements the atomic store, when all processes share a lock.
THEOREM Refinement == OneLockFile => (Spec => ImplementsAtomicStore)
<1> SUFFICES ASSUME OneLockFile PROVE Spec => ImplementsAtomicStore
  OBVIOUS
<1>1. Init => Store!Init
  BY ConstantsAssumption, MigratedDefault, DefaultIsConfig
     DEF Init, Store!Init, visible, Store!Default, Default
<1>2. TypeOK /\ HandMigrated /\ MigrationInHand /\ [Next]_vars
        => [Store!Next]_(Store!vars)
  <2> SUFFICES ASSUME TypeOK, HandMigrated, MigrationInHand, [Next]_vars
               PROVE  Store!Next \/ UNCHANGED <<visible, hand, started, acked>>
    BY DEF Store!vars
  <2> DEFINE Stutter == UNCHANGED <<visible, hand, started, acked>>
  <2>1. CASE UNCHANGED <<file, hand, started, acked>>
    BY <2>1 DEF visible
  <2>2. ASSUME NEW p \in Procs, EnsureStat(p) PROVE Store!Fresh(p) \/ Stutter
    BY <2>2 DEF EnsureStat, Store!Fresh, visible, Store!Default, Default
  <2>3. ASSUME NEW p \in Procs, ReadOpen(p) PROVE Store!Load(p) \/ Stutter
    <3>1. CASE file = NoFile
      BY <2>3, <3>1 DEF ReadOpen, visible
    <3>2. CASE file # NoFile
      <4>1. visible = Migrated(file) /\ visible' = visible /\ file \in Config
        BY <2>3, <3>2 DEF ReadOpen, visible, TypeOK
      <4>2. visible # NoFile
        BY <4>1, MigratedIsConfig, ConstantsAssumption
      <4> QED
        BY <2>3, <3>2, <4>1, <4>2 DEF ReadOpen, Store!Load
    <3> QED
      BY <3>1, <3>2
  <2>4. ASSUME NEW p \in Procs, ReadRename(p) PROVE Stutter
    <3>1. file \in Config /\ file' \in {Migrated(file), file}
      BY <2>4 DEF ReadRename, MigrationInHand
    <3>2. visible' = visible
      BY <3>1, MigratedIsConfig, MigratedTwice, ConstantsAssumption DEF visible
    <3> QED
      BY <2>4, <3>2 DEF ReadRename
  <2>5. ASSUME NEW p \in Procs, Apply(p) PROVE Store!Edit(p) \/ Stutter
    BY <2>5 DEF Apply, Store!Edit, visible, WithEdit, Store!WithEdit
  <2>6. ASSUME NEW p \in Procs, WriteRename(p) PROVE Store!Store(p)
    <3>1. hand[p] \in Config /\ hand[p].legacy = FALSE
      BY DEF TypeOK, HandMigrated
    <3>2. visible' = hand[p]
      BY <2>6, <3>1, MigratedSame, ConstantsAssumption DEF WriteRename, visible
    <3> QED
      BY <2>6, <3>2 DEF WriteRename, Store!Store
  <2> HIDE DEF Stutter
  <2>7. \/ UNCHANGED <<file, hand, started, acked>>
        \/ \E p \in Procs : \/ EnsureStat(p) \/ ReadOpen(p) \/ ReadRename(p)
                            \/ Apply(p) \/ WriteRename(p)
    BY DEF Next, Step, Start, Crash, CallRead, CallMutate, LockMu, LockFlock,
       WriteTemp, vars
  <2> QED
    BY <2>1, <2>2, <2>3, <2>4, <2>5, <2>6, <2>7 DEF Store!Next, Stutter
<1>3. Spec => []MigrationInHand
  BY MigrationHolds
<1> QED
  BY <1>1, <1>2, <1>3, TypeCorrect, HandIsMigrated, PTL
     DEF Spec, ImplementsAtomicStore, Store!Spec

-------------------------------------------------------------------------------
(***************************************************************************)
(* Proofs about BanPersist, for any addresses, any number of scanners and  *)
(* panel requests, whether or not the disk fails.                          *)
(*                                                                         *)
(* A list that is half way through a scan is guarded by the mutex: whoever *)
(* is changing it holds memMu, so whoever copies it finds a list the       *)
(* engine has settled on.  Copies only travel: into snap, to the disk and  *)
(* back into memory.  And the background goroutine runs only while the     *)
(* flag that started it is up.                                             *)
(***************************************************************************)

Scanning == {"eval", "dirty", "again", "unlock"}

(* Whoever is scanning holds the mutex.                                     *)
ScansHoldTheMutex == \A p \in Evaluators : savePc[p] \in Scanning => memMu = p

(* Unless a scan is half way, the list is the last one settled on.          *)
ListSettled == (\A p \in Evaluators : savePc[p] # "dirty") => mem = past[rev]

StartsEmpty == past # <<>> /\ past[1] = {}

Whole(c) == c.rev \in DOMAIN past /\ c.bans = past[c.rev]
CopiesWhole == \A p \in Savers : Whole(snap[p])

FlagUp == savePc[Background] # "idle" => saving

PersistIInv ==
    /\ PersistTypeOK /\ ScansHoldTheMutex /\ ListSettled /\ StartsEmpty /\ DiskIsWhole
    /\ CopiesWhole /\ FlagUp

-------------------------------------------------------------------------------
(* A longer history keeps what was whole whole, and is whole at its end.    *)
LEMMA HistoryGrows ==
    ASSUME PersistIInv, NEW L \in SUBSET IPs, past' = Append(past, L)
    PROVE  /\ past' \in Seq(SUBSET IPs) /\ StartsEmpty' /\ rev' = rev + 1
           /\ past'[rev'] = L /\ rev' \in DOMAIN past'
           /\ \A k \in DOMAIN past : k \in DOMAIN past' /\ past'[k] = past[k]
  <1>1. past \in Seq(SUBSET IPs) /\ past # <<>> /\ Len(past) \in Nat
    BY DEF PersistIInv, PersistTypeOK, StartsEmpty
  <1>2. /\ past' \in Seq(SUBSET IPs) /\ Len(past') = Len(past) + 1
        /\ past'[Len(past) + 1] = L
        /\ \A k \in 1..Len(past) : past'[k] = past[k]
    BY <1>1, AppendProperties
  <1>3. DOMAIN past = 1..Len(past) /\ DOMAIN past' = 1..(Len(past) + 1) /\ Len(past) >= 1
    BY <1>1, <1>2
  <1>4. past' # <<>> /\ past'[1] = {}
    BY <1>1, <1>2, <1>3 DEF PersistIInv, StartsEmpty
  <1> QED BY <1>1, <1>2, <1>3, <1>4 DEF StartsEmpty, rev

(* Copies that stand still stay whole as the history grows or stands still. *)
LEMMA CopiesStay ==
    ASSUME PersistIInv, UNCHANGED <<disk, snap>>,
           \A k \in DOMAIN past : k \in DOMAIN past' /\ past'[k] = past[k]
    PROVE  DiskIsWhole' /\ CopiesWhole'
  BY DEF PersistIInv, DiskIsWhole, CopiesWhole, Whole

(* A goroutine moves; the lists and the history do not.                     *)
LEMMA GoroutineMoves ==
    ASSUME PersistIInv, NEW p \in Savers, NEW from \in SavePC, NEW to \in SavePC \ Scanning,
           from \notin Scanning, SaveGoto(p, from, to), UNCHANGED <<mem, past, memMu>>
    PROVE  /\ savePc' \in [Savers -> SavePC] /\ ScansHoldTheMutex' /\ ListSettled' /\ StartsEmpty'
           /\ savePc'[p] = to /\ (p # Background => savePc'[Background] = savePc[Background])
  <1>1. savePc \in [Savers -> SavePC] /\ savePc' = [savePc EXCEPT ![p] = to] /\ savePc[p] = from
    BY DEF PersistIInv, PersistTypeOK, SaveGoto
  <1>2. savePc' \in [Savers -> SavePC] /\ savePc'[p] = to
    BY <1>1
  <1>3. \A q \in Savers : q # p => savePc'[q] = savePc[q]
    BY <1>1
  <1>4. ScansHoldTheMutex'
    BY <1>2, <1>3 DEF PersistIInv, ScansHoldTheMutex, Savers
  <1>5. \A q \in Evaluators : savePc[q] = "dirty" => savePc'[q] = "dirty"
    BY <1>1, <1>3 DEF Savers, Scanning
  <1>6. ListSettled' /\ StartsEmpty'
    BY <1>5 DEF PersistIInv, ListSettled, StartsEmpty, rev
  <1>7. Background \in Savers
    BY DEF Savers
  <1> QED BY <1>2, <1>3, <1>4, <1>6, <1>7

-------------------------------------------------------------------------------
LEMMA PersistInitially == PersistInit => PersistIInv
  <1> SUFFICES ASSUME PersistInit PROVE PersistIInv
    OBVIOUS
  <1>1. /\ mem = {} /\ disk = Empty /\ memMu = Nobody /\ saveMu = Nobody
        /\ saving = FALSE /\ saveAgain = FALSE /\ savePc = [p \in Savers |-> "idle"]
        /\ snap = [p \in Savers |-> Empty] /\ past = << {} >>
    BY DEF PersistInit
  <1>2. Empty \in Copy /\ Empty.bans = {} /\ Empty.rev = 1
    BY DEF Empty, Copy
  <1>3. past \in Seq(SUBSET IPs) /\ Len(past) = 1 /\ past[1] = {} /\ DOMAIN past = {1}
    BY <1>1
  <1>4. PersistTypeOK
    BY <1>1, <1>2, <1>3 DEF PersistTypeOK, SavePC
  <1>5. ScansHoldTheMutex /\ FlagUp
    BY <1>1 DEF ScansHoldTheMutex, FlagUp, Scanning, Savers
  <1>6. ListSettled /\ StartsEmpty
    BY <1>1, <1>3 DEF ListSettled, StartsEmpty, rev
  <1>7. DiskIsWhole /\ CopiesWhole
    BY <1>1, <1>2, <1>3 DEF DiskIsWhole, CopiesWhole, Whole
  <1> QED BY <1>4, <1>5, <1>6, <1>7 DEF PersistIInv

(* A scan.                                                                  *)
LEMMA ScanInductive ==
    ASSUME PersistIInv, NEW p \in Evaluators,
           EvalLock(p) \/ (\E i \in IPs : EvalChange(p, i)) \/ RequestSave(p) \/ RequestAgain(p)
              \/ EvalUnlock(p)
    PROVE  PersistIInv'
  <1>1. /\ savePc \in [Savers -> SavePC] /\ p \in Savers /\ p # Background
        /\ Background \in Savers /\ Background \notin Evaluators /\ p # Nobody
        /\ Evaluators \subseteq Savers
    BY PersistAssumption DEF PersistIInv, PersistTypeOK, Savers
  <1>2. \A q \in Evaluators : savePc[q] \in Scanning => memMu = q
    BY DEF PersistIInv, ScansHoldTheMutex
  <1>3. CASE EvalLock(p)
    <2>1. /\ savePc[p] = "idle" /\ savePc' = [savePc EXCEPT ![p] = "eval"] /\ memMu = Nobody
          /\ memMu' = p /\ UNCHANGED <<mem, disk, saveMu, saving, saveAgain, snap, past>>
      BY <1>3 DEF EvalLock, SaveGoto
    <2>2. /\ savePc' \in [Savers -> SavePC] /\ savePc'[p] = "eval"
          /\ \A q \in Savers : q # p => savePc'[q] = savePc[q]
      BY <1>1, <2>1 DEF SavePC
    <2>3. \A q \in Evaluators : savePc[q] \notin Scanning
      BY <1>1, <1>2, <2>1, PersistAssumption
    <2>4. PersistTypeOK'
      BY <2>1, <2>2 DEF PersistIInv, PersistTypeOK
    <2>5. ScansHoldTheMutex'
      BY <1>1, <2>1, <2>2, <2>3 DEF ScansHoldTheMutex
    <2>6. ListSettled' /\ StartsEmpty'
      BY <2>1, <2>3 DEF PersistIInv, ListSettled, StartsEmpty, Scanning, rev
    <2>7. DiskIsWhole' /\ CopiesWhole'
      BY <2>1, CopiesStay
    <2>8. FlagUp'
      BY <1>1, <2>1, <2>2 DEF PersistIInv, FlagUp
    <2> QED BY <2>4, <2>5, <2>6, <2>7, <2>8 DEF PersistIInv
  <1>4. CASE \E i \in IPs : EvalChange(p, i)
    <2>1. PICK i \in IPs : EvalChange(p, i)
      BY <1>4
    <2>2. /\ savePc[p] \in {"eval", "dirty"} /\ savePc' = [savePc EXCEPT ![p] = "dirty"]
          /\ mem' \in SUBSET IPs
          /\ UNCHANGED <<disk, memMu, saveMu, saving, saveAgain, snap, past>>
      BY <1>1, <2>1 DEF EvalChange, SaveGoto, PersistIInv, PersistTypeOK
    <2>3. /\ savePc' \in [Savers -> SavePC] /\ savePc'[p] = "dirty"
          /\ \A q \in Savers : q # p => savePc'[q] = savePc[q]
      BY <1>1, <2>2 DEF SavePC
    <2>4. PersistTypeOK'
      BY <2>2, <2>3 DEF PersistIInv, PersistTypeOK
    <2>5. memMu = p
      BY <1>2, <2>2 DEF Scanning
    <2>6. ScansHoldTheMutex'
      BY <1>1, <1>2, <2>2, <2>3, <2>5 DEF ScansHoldTheMutex
    <2>7. ListSettled' /\ StartsEmpty'
      BY <2>2, <2>3 DEF PersistIInv, ListSettled, StartsEmpty
    <2>8. DiskIsWhole' /\ CopiesWhole'
      BY <2>2, CopiesStay
    <2>9. FlagUp'
      BY <1>1, <2>2, <2>3 DEF PersistIInv, FlagUp
    <2> QED BY <2>4, <2>6, <2>7, <2>8, <2>9 DEF PersistIInv
  <1>5. CASE RequestSave(p)
    <2>1. /\ savePc[p] = "dirty" /\ past' = Append(past, mem)
          /\ UNCHANGED <<mem, disk, memMu, saveMu, saveAgain, snap>> /\ mem \in SUBSET IPs
      BY <1>5 DEF RequestSave, PersistIInv, PersistTypeOK
    <2>2. /\ savePc' \in [Savers -> SavePC] /\ savePc'[p] \in {"again", "unlock"}
          /\ \A q \in Evaluators : q # p => savePc'[q] = savePc[q]
          /\ saving' = TRUE
      BY <1>1, <1>5 DEF RequestSave, SavePC, PersistIInv, PersistTypeOK
    <2>3. /\ past' \in Seq(SUBSET IPs) /\ StartsEmpty'
          /\ past'[rev'] = mem
          /\ \A k \in DOMAIN past : k \in DOMAIN past' /\ past'[k] = past[k]
      BY <2>1, HistoryGrows
    <2>4. PersistTypeOK'
      BY <2>1, <2>2, <2>3 DEF PersistIInv, PersistTypeOK
    <2>5. memMu = p
      BY <1>2, <2>1 DEF Scanning
    <2>6. ScansHoldTheMutex'
      BY <1>1, <1>2, <2>1, <2>2, <2>5 DEF ScansHoldTheMutex
    <2>7. ListSettled'
      BY <2>1, <2>3 DEF ListSettled
    <2>8. DiskIsWhole' /\ CopiesWhole'
      BY <2>1, <2>3, CopiesStay
    <2>9. FlagUp'
      BY <2>2 DEF FlagUp
    <2> QED BY <2>3, <2>4, <2>6, <2>7, <2>8, <2>9 DEF PersistIInv
  <1>6. CASE RequestAgain(p) \/ EvalUnlock(p)
    <2>1. /\ savePc[p] \in {"again", "unlock"}
          /\ \/ savePc' = [savePc EXCEPT ![p] = "unlock"] /\ memMu' = memMu
             \/ savePc' = [savePc EXCEPT ![p] = "idle"] /\ memMu' = Nobody
          /\ UNCHANGED <<mem, disk, saveMu, saving, snap, past>> /\ saveAgain' \in BOOLEAN
      BY <1>6 DEF RequestAgain, EvalUnlock, SaveGoto, PersistIInv, PersistTypeOK
    <2>2. /\ savePc' \in [Savers -> SavePC] /\ savePc'[p] \in {"unlock", "idle"}
          /\ (savePc'[p] = "unlock" => memMu' = memMu)
          /\ \A q \in Savers : q # p => savePc'[q] = savePc[q]
      BY <1>1, <2>1 DEF SavePC
    <2>3. memMu = p
      BY <1>2, <2>1 DEF Scanning
    <2>4. \A q \in Evaluators : q # p => savePc[q] \notin Scanning
      BY <1>2, <2>3
    <2>5. PersistTypeOK'
      BY <2>1, <2>2 DEF PersistIInv, PersistTypeOK
    <2>6. ScansHoldTheMutex'
      BY <1>1, <2>2, <2>3, <2>4 DEF ScansHoldTheMutex, Scanning
    <2>7. ListSettled' /\ StartsEmpty'
      BY <2>1, <2>4 DEF PersistIInv, ListSettled, StartsEmpty, Scanning, rev
    <2>8. DiskIsWhole' /\ CopiesWhole'
      BY <2>1, CopiesStay
    <2>9. FlagUp'
      BY <1>1, <2>1, <2>2 DEF PersistIInv, FlagUp
    <2> QED BY <2>5, <2>6, <2>7, <2>8, <2>9 DEF PersistIInv
  <1> QED BY <1>3, <1>4, <1>5, <1>6

(* A panel request changes the list while nobody is scanning.               *)
LEMMA HandInductive ==
    ASSUME PersistIInv, NEW p \in Handlers, HandChange(p)
    PROVE  PersistIInv'
  <1>1. /\ savePc \in [Savers -> SavePC] /\ p \in Savers /\ p # Background
        /\ Background \in Savers /\ p \notin Evaluators /\ Evaluators \subseteq Savers
    BY PersistAssumption DEF PersistIInv, PersistTypeOK, Savers
  <1>2. /\ savePc' = [savePc EXCEPT ![p] = "snap"] /\ memMu = Nobody
        /\ past' = Append(past, mem')
        /\ UNCHANGED <<disk, memMu, saveMu, saving, saveAgain, snap>>
    BY DEF HandChange, SaveGoto
  <1>3. mem' \in SUBSET IPs
    BY DEF HandChange, PersistIInv, PersistTypeOK
  <1>4. /\ savePc' \in [Savers -> SavePC]
        /\ \A q \in Savers : q # p => savePc'[q] = savePc[q]
    BY <1>1, <1>2 DEF SavePC
  <1>5. /\ past' \in Seq(SUBSET IPs) /\ StartsEmpty' /\ past'[rev'] = mem'
        /\ \A k \in DOMAIN past : k \in DOMAIN past' /\ past'[k] = past[k]
    BY <1>2, <1>3, HistoryGrows
  <1>6. PersistTypeOK'
    BY <1>2, <1>3, <1>4, <1>5 DEF PersistIInv, PersistTypeOK
  <1>7. ScansHoldTheMutex'
    BY <1>1, <1>2, <1>4 DEF PersistIInv, ScansHoldTheMutex
  <1>8. ListSettled'
    BY <1>5 DEF ListSettled
  <1>9. DiskIsWhole' /\ CopiesWhole'
    BY <1>2, <1>5, CopiesStay
  <1>10. FlagUp'
    BY <1>1, <1>2, <1>4 DEF PersistIInv, FlagUp
  <1> QED BY <1>5, <1>6, <1>7, <1>8, <1>9, <1>10 DEF PersistIInv

(* A save: the copy is taken while nobody is scanning.                      *)
LEMMA SaveInductive ==
    ASSUME PersistIInv, NEW p \in Savers, Saving(p)
    PROVE  PersistIInv'
  <1>1. Background \in Savers /\ Stopper \in Savers /\ Evaluators \subseteq Savers
    BY DEF Savers
  <1>2. CASE Snapshot(p)
    <2>1. /\ SaveGoto(p, "snap", "lock") /\ memMu = Nobody
          /\ snap' = [snap EXCEPT ![p] = Current]
          /\ UNCHANGED <<mem, disk, memMu, saveMu, saving, saveAgain, past>>
      BY <1>2 DEF Snapshot
    <2>2. /\ savePc' \in [Savers -> SavePC] /\ ScansHoldTheMutex' /\ ListSettled' /\ StartsEmpty'
          /\ savePc'[p] = "lock" /\ (p # Background => savePc'[Background] = savePc[Background])
      BY <2>1, GoroutineMoves DEF SavePC, Scanning
    <2>3. \A q \in Evaluators : savePc[q] # "dirty"
      BY <1>1, <2>1, PersistAssumption DEF PersistIInv, ScansHoldTheMutex, Scanning
    <2>4. mem = past[rev]
      BY <2>3 DEF PersistIInv, ListSettled
    <2>5. past \in Seq(SUBSET IPs) /\ rev \in Nat /\ rev \in DOMAIN past /\ mem \in SUBSET IPs
      BY DEF PersistIInv, PersistTypeOK, StartsEmpty, rev
    <2>6. Current \in Copy /\ Current.rev = rev /\ Current.bans = mem
      BY <2>5 DEF Current, Copy
    <2>7. PersistTypeOK'
      BY <2>1, <2>2, <2>6 DEF PersistIInv, PersistTypeOK
    <2>8. DiskIsWhole' /\ CopiesWhole'
      BY <2>1, <2>4, <2>5, <2>6 DEF PersistIInv, PersistTypeOK, DiskIsWhole, CopiesWhole, Whole
    <2>9. FlagUp'
      BY <2>1, <2>2 DEF PersistIInv, FlagUp, SaveGoto
    <2> QED BY <2>2, <2>7, <2>8, <2>9 DEF PersistIInv
  <1>3. CASE LockSave(p)
    <2>1. /\ SaveGoto(p, "lock", "write") /\ saveMu' = p
          /\ UNCHANGED <<mem, disk, memMu, saving, saveAgain, snap, past>>
      BY <1>3 DEF LockSave
    <2>2. /\ savePc' \in [Savers -> SavePC] /\ ScansHoldTheMutex' /\ ListSettled' /\ StartsEmpty'
          /\ savePc'[p] = "write" /\ (p # Background => savePc'[Background] = savePc[Background])
      BY <2>1, GoroutineMoves DEF SavePC, Scanning
    <2>3. PersistTypeOK'
      BY <2>1, <2>2 DEF PersistIInv, PersistTypeOK
    <2>4. DiskIsWhole' /\ CopiesWhole'
      BY <2>1, CopiesStay
    <2>5. FlagUp'
      BY <2>1, <2>2 DEF PersistIInv, FlagUp, SaveGoto
    <2> QED BY <2>2, <2>3, <2>4, <2>5 DEF PersistIInv
  <1>4. CASE WriteFile(p)
    <2>1. /\ SaveGoto(p, "write", AfterSave(p)) /\ (disk' = snap[p] \/ disk' = disk)
          /\ saveMu' = Nobody /\ UNCHANGED <<mem, memMu, saving, saveAgain, snap, past>>
      BY <1>4 DEF WriteFile
    <2>2. AfterSave(p) \in {"more", "down", "idle"}
      BY DEF AfterSave
    <2>3. /\ savePc' \in [Savers -> SavePC] /\ ScansHoldTheMutex' /\ ListSettled' /\ StartsEmpty'
          /\ (p # Background => savePc'[Background] = savePc[Background])
      BY <2>1, <2>2, GoroutineMoves DEF SavePC, Scanning
    <2>4. PersistTypeOK'
      BY <2>1, <2>3 DEF PersistIInv, PersistTypeOK
    <2>5. DiskIsWhole' /\ CopiesWhole'
      BY <2>1 DEF PersistIInv, DiskIsWhole, CopiesWhole, Whole
    <2>6. FlagUp'
      BY <2>1, <2>3 DEF PersistIInv, FlagUp, SaveGoto
    <2> QED BY <2>3, <2>4, <2>5, <2>6 DEF PersistIInv
  <1> QED BY <1>2, <1>3, <1>4 DEF Saving

(* The ticker, the end of the service and the background goroutine's loop.  *)
LEMMA LoopInductive ==
    ASSUME PersistIInv, Tick \/ Stop \/ StopWaited \/ OnceMore \/ ClearSaving
    PROVE  PersistIInv'
  <1>1. /\ Background \in Savers /\ Stopper \in Savers /\ Scanner \in Savers
        /\ Stopper # Background /\ Scanner # Background
    BY PersistAssumption DEF Savers
  <1>2. /\ UNCHANGED <<mem, disk, memMu, saveMu, snap, past>>
        /\ saving' \in BOOLEAN /\ saveAgain' \in BOOLEAN
    BY DEF Tick, Stop, StopWaited, OnceMore, ClearSaving, PersistIInv, PersistTypeOK
  <1>3. DiskIsWhole' /\ CopiesWhole'
    BY <1>2, CopiesStay
  <1>4. /\ savePc' \in [Savers -> SavePC] /\ ScansHoldTheMutex' /\ ListSettled' /\ StartsEmpty'
        /\ FlagUp'
    <2>1. CASE Tick
      <3>1. SaveGoto(Scanner, "idle", "snap") /\ saving' = saving
        BY <2>1 DEF Tick
      <3> QED BY <1>1, <1>2, <3>1, GoroutineMoves DEF SavePC, Scanning, PersistIInv, FlagUp
    <2>2. CASE Stop
      <3>1. SaveGoto(Stopper, "idle", "wait") /\ saving' = saving
        BY <2>2 DEF Stop
      <3> QED BY <1>1, <1>2, <3>1, GoroutineMoves DEF SavePC, Scanning, PersistIInv, FlagUp
    <2>3. CASE StopWaited
      <3>1. SaveGoto(Stopper, "wait", "snap") /\ saving' = saving
        BY <2>3 DEF StopWaited
      <3> QED BY <1>1, <1>2, <3>1, GoroutineMoves DEF SavePC, Scanning, PersistIInv, FlagUp
    <2>4. CASE OnceMore
      <3>1. /\ saving' = saving
            /\ SaveGoto(Background, "more", "snap") \/ SaveGoto(Background, "more", "clear")
        BY <2>4 DEF OnceMore
      <3>2. saving
        BY <3>1 DEF PersistIInv, FlagUp, SaveGoto
      <3>3. /\ savePc' \in [Savers -> SavePC] /\ ScansHoldTheMutex' /\ ListSettled'
            /\ StartsEmpty'
        BY <1>1, <1>2, <3>1, GoroutineMoves DEF SavePC, Scanning
      <3> QED BY <3>1, <3>2, <3>3 DEF FlagUp
    <2>5. CASE ClearSaving
      <3>1. SaveGoto(Background, "clear", "idle")
        BY <2>5 DEF ClearSaving
      <3> QED BY <1>1, <1>2, <3>1, GoroutineMoves DEF SavePC, Scanning, FlagUp
    <2> QED BY <2>1, <2>2, <2>3, <2>4, <2>5
  <1>5. PersistTypeOK'
    BY <1>2, <1>4 DEF PersistIInv, PersistTypeOK
  <1> QED BY <1>3, <1>4, <1>5 DEF PersistIInv

(* A new process starts from the file, which is whole.                      *)
LEMMA RestartInductive ==
    ASSUME PersistIInv, Restart
    PROVE  PersistIInv'
  <1>1. /\ mem' = disk.bans
        /\ past' = IF disk.rev = rev THEN past ELSE Append(past, disk.bans)
        /\ disk' = [disk EXCEPT !.rev = Len(past')] /\ memMu' = Nobody /\ saveMu' = Nobody
        /\ saving' = FALSE /\ saveAgain' = FALSE /\ savePc' = [p \in Savers |-> "idle"]
        /\ snap' = [p \in Savers |-> Empty]
    BY DEF Restart
  <1>2. /\ disk \in Copy /\ disk.bans \in SUBSET IPs /\ past \in Seq(SUBSET IPs) /\ rev \in Nat
        /\ disk.rev \in DOMAIN past /\ disk.bans = past[disk.rev] /\ past # <<>> /\ past[1] = {}
    BY DEF PersistIInv, PersistTypeOK, Copy, DiskIsWhole, StartsEmpty, rev
  <1>3. /\ past' \in Seq(SUBSET IPs) /\ StartsEmpty' /\ past'[Len(past')] = disk.bans
        /\ Len(past') \in DOMAIN past' /\ 1 \in DOMAIN past'
    <2>1. CASE disk.rev = rev
      BY <1>1, <1>2, <2>1 DEF StartsEmpty, rev
    <2>2. CASE disk.rev # rev
      <3>1. past' = Append(past, disk.bans)
        BY <1>1, <2>2
      <3>2. /\ past' \in Seq(SUBSET IPs) /\ StartsEmpty' /\ rev' = rev + 1
            /\ past'[rev'] = disk.bans /\ rev' \in DOMAIN past'
        BY <1>2, <3>1, HistoryGrows
      <3>3. rev' = Len(past')
        BY DEF rev
      <3> QED BY <1>2, <3>2, <3>3
    <2> QED BY <2>1, <2>2
  <1>4. disk' \in Copy /\ disk'.rev = Len(past') /\ disk'.bans = disk.bans
    BY <1>1, <1>2, <1>3 DEF Copy
  <1>5. Empty \in Copy /\ Empty.bans = {} /\ Empty.rev = 1
    BY DEF Empty, Copy
  <1>6. PersistTypeOK'
    BY <1>1, <1>2, <1>3, <1>4, <1>5 DEF PersistTypeOK, SavePC
  <1>7. ScansHoldTheMutex' /\ FlagUp'
    BY <1>1 DEF ScansHoldTheMutex, FlagUp, Scanning, Savers
  <1>8. ListSettled'
    BY <1>1, <1>3 DEF ListSettled, rev
  <1>9. DiskIsWhole' /\ CopiesWhole'
    BY <1>1, <1>3, <1>4, <1>5 DEF DiskIsWhole, CopiesWhole, Whole, StartsEmpty
  <1> QED BY <1>3, <1>6, <1>7, <1>8, <1>9 DEF PersistIInv

LEMMA PersistInductive == PersistIInv /\ [PersistNext]_persistVars => PersistIInv'
  <1> SUFFICES ASSUME PersistIInv, [PersistNext]_persistVars PROVE PersistIInv'
    OBVIOUS
  <1>1. CASE Restart
    BY <1>1, RestartInductive
  <1>2. CASE \E p \in Evaluators : EvalLock(p)
    BY <1>2, ScanInductive
  <1>3. CASE \E p \in Handlers : HandChange(p)
    BY <1>3, HandInductive
  <1>4. CASE Tick \/ Stop
    BY <1>4, LoopInductive
  <1>5. CASE \E p \in Savers : SaveStep(p)
    <2>1. PICK p \in Savers : SaveStep(p)
      BY <1>5
    <2> QED BY <2>1, ScanInductive, SaveInductive, LoopInductive DEF SaveStep
  <1>6. CASE UNCHANGED persistVars
    <2>1. UNCHANGED <<mem, disk, memMu, saveMu, saving, saveAgain, savePc, snap, past>>
      BY <1>6 DEF persistVars
    <2>2. PersistTypeOK' /\ ScansHoldTheMutex' /\ ListSettled' /\ StartsEmpty' /\ FlagUp'
      BY <2>1 DEF PersistIInv, PersistTypeOK, ScansHoldTheMutex, ListSettled, StartsEmpty, FlagUp,
                  rev
    <2> QED BY <2>1, <2>2, CopiesStay DEF PersistIInv
  <1> QED BY <1>1, <1>2, <1>3, <1>4, <1>5, <1>6 DEF PersistNext

LEMMA PersistInvariance == PersistSpec => []PersistIInv
  <1> QED BY PersistInitially, PersistInductive, PTL DEF PersistSpec

-------------------------------------------------------------------------------
(* The lists, the copies and the flags stay in their types.                 *)
THEOREM PersistTypeCorrect == PersistSpec => []PersistTypeOK
  <1>1. PersistIInv => PersistTypeOK
    BY DEF PersistIInv
  <1> QED BY <1>1, PersistInvariance, PTL

(* However many goroutines scan, save and answer the panel, in whatever     *)
(* order they get the two mutexes, whether writes fail and wherever the     *)
(* process is killed: bans.json is a list the engine had settled on, whole  *)
(* (banner.go:1017-1120).                                                   *)
THEOREM FileIsAlwaysWhole == PersistSpec => []DiskIsWhole
  <1>1. PersistIInv => DiskIsWhole
    BY DEF PersistIInv
  <1> QED BY <1>1, PersistInvariance, PTL

(* requestSave starts no second background save while one runs              *)
(* (banner.go:198).                                                         *)
THEOREM BackgroundSavesAlone == PersistSpec => OneBackgroundSave
  <1>1. PersistIInv => (\A p \in Evaluators : RequestSave(p) /\ ~saving => savePc[Background] = "idle")
    BY DEF PersistIInv, FlagUp
  <1> QED BY <1>1, PersistInvariance, PTL DEF OneBackgroundSave, PersistSpec

================================================================================
