------------------------------- MODULE Backups -------------------------------
(***************************************************************************)
(* Backups (internal/backup, config/backup.go, web/handlers_backup.go):    *)
(* the scheduler that asks once a minute whether one is due, the button    *)
(* that takes one now, pruning, the copy sent off the machine, and         *)
(* restoring, while the settings are saved, other parts of the panel edit  *)
(* the configuration, and the ban engine keeps its list.                   *)
(*                                                                         *)
(* Whoever makes an archive takes it through the same steps: what it holds *)
(* is read, it is sealed and stored under a name that carries its second,  *)
(* then come pruning and sending, or, for the safety copy of a restore,    *)
(* the files that are put back.  Archives are of the scope "full", without *)
(* certificates.  The schedule's hour is the first of the day; a Mutate is *)
(* one step (ConfigStore has what that hides).                             *)
(***************************************************************************)
EXTENDS Integers, FiniteSets, Folds

CONSTANTS
    Minute,     \* units of time from one tick of the scheduler to the next
    Lag,        \* units a tick may be served late
    Making,     \* units a scheduled backup may take
    Length,     \* [generation -> units of time its bucket spans]
    Counts,     \* [generation -> how many buckets the retention keeps]
    Forms,    \* settings the form may send; no passphrase: the stored one stays
    FirstSettings, \* the settings at the start, seen to by hand before
    Strong,     \* passphrases of at least 12 characters
    DiskFails,  \* a write may fail
    MaxClock,   \* bound: the clock
    MaxHands,   \* bound: backups, restores and deletions by hand
    MaxChanges  \* bound: saves, edits, bans and restarts

VARIABLES
    clock, tick,  \* the clock, and when the scheduler's ticker fires next
    config,     \* config.json: the backup settings, the last run, and the rest
    banList, bansFile, \* the ban engine's list, and bans.json
    archives,   \* the archives in the backup directory
    sent,       \* what was sent off the machine
    job,        \* [Makers -> what it is doing]
    taken,      \* history: every archive ever written, but for those a namesake replaced
    deleted,    \* history: those deleted by hand
    lastTry,    \* history: when the schedule last fired
    noted,      \* history: that firing is still on record in config.json
    standing,   \* history: since when the settings have stood
    undo,       \* history: what the last restore replaced, and its safety copy
    put,        \* history: the ban list a restore put back, while no ban has changed
    hands, changes

backupVars == <<clock, tick, config, banList, bansFile, archives, sent, job, taken, deleted,
                lastTry, noted, standing, undo, put, hands, changes>>
ghosts == <<taken, deleted, lastTry, noted, standing, undo, put>>

Makers == {"schedule", "panel", "restore"}
Never == -1
Nothing == -1
Day == Length["day"]
Generations == DOMAIN Length

NoArchive == [at |-> Never]
FirstConfig == [backup |-> FirstSettings, last |-> Never, edits |-> 0]
NoUndo == [replaced |-> FirstConfig, copy |-> NoArchive]
NoWork == [stage |-> "idle", offsite |-> FALSE, arch |-> NoArchive, from |-> NoArchive,
         parts |-> {}, pass |-> ""]

(* An archive: its name (second, label, whether it is sealed), the          *)
(* passphrase it is sealed with, and what is inside.                        *)
Archive(t, label, backup) ==
    [at |-> t, label |-> label, pass |-> IF backup.encrypt THEN backup.pass ELSE "",
     config |-> config, bans |-> bansFile]
Sealed(a) == a.pass # ""
SameName(a, b) == a.at = b.at /\ a.label = b.label /\ Sealed(a) = Sealed(b)
(* Renamed over a file of the same name.                                    *)
Put(A, a) == {b \in A : ~SameName(a, b)} \cup {a}

(* ValidateBackup, as far as passphrases go.                                *)
Valid(b) == /\ b.offsite => b.encrypt /\ b.pass \in Strong
            /\ b.encrypt => b.pass # ""

Passes == {b.pass : b \in Forms \cup {FirstSettings}} \cup {""}
BackupSettings == [enabled : BOOLEAN, every : Nat, encrypt : BOOLEAN, pass : Passes,
                   offsite : BOOLEAN]

ASSUME BackupsAssumption ==
    /\ Minute \in Nat \ {0} /\ Lag \in Nat /\ Lag < Minute /\ Making \in Nat
    /\ MaxClock \in Nat /\ DiskFails \in BOOLEAN
    /\ DOMAIN Length = DOMAIN Counts /\ "day" \in DOMAIN Length
    /\ \A g \in DOMAIN Length : Length[g] \in Nat \ {0} /\ Counts[g] \in Nat
    /\ Forms \subseteq BackupSettings /\ FirstSettings \in BackupSettings /\ Valid(FirstSettings)

BackupTypeOK ==
    /\ clock \in Nat /\ tick \in Nat
    /\ config \in [backup : BackupSettings, last : Nat \cup {Never}, edits : Nat]
    /\ Valid(config.backup)
    /\ banList \in Nat /\ bansFile \in Nat
    /\ \A a \in archives : a.at \in 0..clock /\ a.label \in {"hourly", "manual"}
    /\ \A a, b \in archives : SameName(a, b) => a = b
    /\ DOMAIN job = Makers
    /\ \A p \in Makers : job[p].stage \in {"idle", "read", "store", "prune", "send", "put", "state"}

BackupInit ==
    /\ clock = 0 /\ tick = Minute
    /\ config = FirstConfig
    /\ banList = 0 /\ bansFile = 0 /\ archives = {} /\ sent = {}
    /\ job = [p \in Makers |-> NoWork]
    /\ taken = {} /\ deleted = {} /\ lastTry = Never /\ noted = FALSE /\ standing = 0
    /\ undo = NoUndo /\ put = Nothing
    /\ hands = 0 /\ changes = 0

At(p, stage) == job[p].stage = stage
Goto(p, stage) == job' = [job EXCEPT ![p].stage = stage]
Ends(p) == job' = [job EXCEPT ![p] = NoWork]
(* After the archive is stored, a restore goes on to put files back: the    *)
(* configuration if asked for, then the state.                              *)
AfterStore(p) == IF p # "restore" THEN "prune"
                 ELSE IF "config" \in job[p].parts THEN "put" ELSE "state"

(***************************************************************************)
(* Time.                                                                   *)
(***************************************************************************)
(* The ticker fires when it should, or at most Lag late, unless the last    *)
(* backup is still being made, which takes no longer than Making.           *)
Clock ==
    /\ clock < MaxClock
    /\ IF At("schedule", "idle") THEN clock < tick + Lag ELSE clock < lastTry + Making
    /\ clock' = clock + 1
    /\ UNCHANGED <<tick, config, banList, bansFile, archives, sent, job, ghosts, hands, changes>>

NextTick == tick + Minute * ((clock - tick) \div Minute + 1)

AtScheduledHour(t) == t % Day < 2 * Minute
Due(b, last, t) ==
    /\ b.enabled
    /\ last # Never => t - last >= b.every
    /\ last = Never \/ b.every >= Day => AtScheduledHour(t)

(* tick(): nothing is due.                                                  *)
TickIdle ==
    /\ At("schedule", "idle") /\ clock >= tick /\ ~Due(config.backup, config.last, clock)
    /\ tick' = NextTick
    /\ UNCHANGED <<clock, config, banList, bansFile, archives, sent, job, ghosts, hands, changes>>

(* Mutant: the run is not recorded.                                         *)
FireUnrecorded ==
    /\ At("schedule", "idle") /\ clock >= tick /\ Due(config.backup, config.last, clock)
    /\ tick' = NextTick /\ lastTry' = clock /\ noted' = TRUE
    /\ job' = [job EXCEPT !["schedule"] =
                 [NoWork EXCEPT !.stage = "read", !.offsite = config.backup.offsite]]
    /\ UNCHANGED <<clock, config, banList, bansFile, archives, sent, taken, deleted, standing, undo, put,
                   hands, changes>>

(* tick(): the run is recorded before it starts, and goes ahead even when   *)
(* it cannot be recorded.                                                   *)
Fire ==
    /\ At("schedule", "idle") /\ clock >= tick /\ Due(config.backup, config.last, clock)
    /\ tick' = NextTick /\ lastTry' = clock
    /\ \/ config' = [config EXCEPT !.last = clock] /\ noted' = TRUE
       \/ DiskFails /\ UNCHANGED config /\ noted' = FALSE
    /\ job' = [job EXCEPT !["schedule"] =
                 [NoWork EXCEPT !.stage = "read", !.offsite = config.backup.offsite]]
    /\ UNCHANGED <<clock, banList, bansFile, archives, sent, taken, deleted, standing, undo, put, hands, changes>>

(***************************************************************************)
(* Making an archive.                                                      *)
(***************************************************************************)
Label(p) == IF p = "schedule" THEN "hourly" ELSE "manual"

(* Create: the settings and the files are read; sealing takes its time.     *)
ReadFiles(p) ==
    /\ At(p, "read")
    /\ job' = [job EXCEPT ![p].stage = "store", ![p].arch = Archive(clock, Label(p), config.backup)]
    /\ UNCHANGED <<clock, tick, config, banList, bansFile, archives, sent, ghosts, hands, changes>>

(* Create: named after the second it is finished in, and renamed into place. *)
Store(p) ==
    /\ At(p, "store")
    /\ LET a == [job[p].arch EXCEPT !.at = clock]
       IN /\ archives' = Put(archives, a) /\ taken' = Put(taken, a)
          /\ job' = [job EXCEPT ![p].arch = a, ![p].stage = AfterStore(p)]
          /\ undo' = (IF undo.copy # NoArchive /\ SameName(undo.copy, a) THEN NoUndo ELSE undo)
    /\ UNCHANGED <<clock, tick, config, banList, bansFile, sent, deleted, lastTry, noted, standing, put,
                   hands, changes>>

(* Nothing is left of an archive that could not be made, and the call ends. *)
MakingFails(p) ==
    /\ DiskFails /\ (At(p, "read") \/ At(p, "store")) /\ Ends(p)
    /\ UNCHANGED <<clock, tick, config, banList, bansFile, archives, sent, ghosts, hands, changes>>

(***************************************************************************)
(* Keep: newest first, each generation takes the newest archive of each of *)
(* its buckets, up to its count; a manual one always stays.                 *)
(***************************************************************************)
Bucket(a, g) == a.at \div Length[g]
Newest(A) == CHOOSE a \in A : \A b \in A : b.at <= a.at   \* mutant
Oldest(A) == CHOOSE a \in A : \A b \in A : a.at <= b.at
Manual(A) == {a \in A : a.label = "manual"}

(* Generations that still want an archive of this bucket.                   *)
Takers(a, seen) == {g \in Generations : Bucket(a, g) \notin seen[g] /\ Cardinality(seen[g]) < Counts[g]}
Sift(a, s) ==
    LET takers == Takers(a, s.seen)
    IN [keep |-> IF takers # {} THEN s.keep \cup {a} ELSE s.keep,
        seen |-> [g \in Generations |->
                    IF g \in takers THEN s.seen[g] \cup {Bucket(a, g)} ELSE s.seen[g]]]
Unsifted == [keep |-> {}, seen |-> [g \in Generations |-> {}]]
(* The oldest is sifted last.                                               *)
Sifted(A) == MapThenFoldSet(Sift, Unsifted, LAMBDA a : a, Oldest, A)
Keep(A) == Manual(A) \cup Sifted(A \ Manual(A)).keep

(* Prune: a file that cannot be removed is left for the next time.          *)
Prune(p) ==
    /\ At(p, "prune")
    /\ \E gone \in (IF DiskFails THEN SUBSET (archives \ Keep(archives)) ELSE {archives \ Keep(archives)}) :
          archives' = archives \ gone
    /\ Goto(p, "send")
    /\ UNCHANGED <<clock, tick, config, banList, bansFile, sent, ghosts, hands, changes>>

(***************************************************************************)
(* Sending.                                                                *)
(***************************************************************************)
(* The schedule goes by the settings it read when it fired, the button by   *)
(* those of now.                                                            *)
Wanted(p) == IF p = "schedule" THEN job[p].offsite ELSE config.backup.offsite
MaySendTrusting(a) == config.backup.offsite   \* mutant: the file is not asked
(* Send: asks the settings again, and the file itself whether it is sealed. *)
(* The transfer may fail.                                                   *)
MaySend(a) == config.backup.offsite /\ Sealed(a)

Send(p) ==
    /\ At(p, "send")
    /\ \/ Wanted(p) /\ MaySend(job[p].arch) /\ sent' = sent \cup {job[p].arch}
       \/ UNCHANGED sent
    /\ Ends(p)
    /\ UNCHANGED <<clock, tick, config, banList, bansFile, archives, ghosts, hands, changes>>

(***************************************************************************)
(* The panel.                                                              *)
(***************************************************************************)
ByHand == hands < MaxHands /\ hands' = hands + 1
Change == changes < MaxChanges /\ changes' = changes + 1

(* handleSetBackup: refused settings change nothing.                        *)
Merged(b) == [b EXCEPT !.pass = IF @ = "" THEN config.backup.pass ELSE @]
SetBackup(b) ==
    /\ Change /\ Valid(Merged(b))
    /\ config' = [config EXCEPT !.backup = Merged(b), !.edits = @ + 1]
    /\ standing' = clock /\ noted' = FALSE
    /\ UNCHANGED <<clock, tick, banList, bansFile, archives, sent, job, taken, deleted, lastTry, undo, put, hands>>

(* Any other Mutate: what a restore replaced is not what its copy holds.    *)
Edit ==
    /\ Change /\ config' = [config EXCEPT !.edits = @ + 1]
    /\ UNCHANGED <<clock, tick, banList, bansFile, archives, sent, job, ghosts, hands>>

RunNow ==
    /\ At("panel", "idle") /\ ByHand /\ Goto("panel", "read")
    /\ UNCHANGED <<clock, tick, config, banList, bansFile, archives, sent, ghosts, changes>>

Delete(a) ==
    /\ ByHand /\ a \in archives
    /\ archives' = archives \ {a} /\ deleted' = deleted \cup {a}
    /\ undo' = (IF undo.copy = a THEN NoUndo ELSE undo)
    /\ UNCHANGED <<clock, tick, config, banList, bansFile, sent, job, taken, lastTry, noted, standing,
                   put, changes>>

(***************************************************************************)
(* Restoring.                                                              *)
(***************************************************************************)
Opens(a, pass) == Sealed(a) => a.pass = pass

(* Inspect: an archive that does not open ends the call, nothing touched.   *)
(* Then the present settings are read, for their passphrase, and a safety   *)
(* copy is made.                                                            *)
Restore(a, pass, parts) ==
    /\ At("restore", "idle") /\ ByHand /\ a \in archives
    /\ Opens(a, IF pass = "" THEN config.backup.pass ELSE pass)
    /\ job' = [job EXCEPT !["restore"] =
                 [NoWork EXCEPT !.stage = "read", !.from = a, !.parts = parts, !.pass = config.backup.pass]]
    /\ UNCHANGED <<clock, tick, config, banList, bansFile, archives, sent, ghosts, changes>>

(* config.json is replaced past the Manager's locks.                        *)
PutConfig ==
    /\ At("restore", "put")
    /\ config' = job["restore"].from.config
    /\ LET copy == job["restore"].arch
       IN undo' = IF copy \in archives THEN [replaced |-> config, copy |-> copy] ELSE NoUndo
    /\ standing' = clock /\ noted' = FALSE
    /\ IF "state" \in job["restore"].parts THEN Goto("restore", "state") ELSE Ends("restore")
    /\ UNCHANGED <<clock, tick, banList, bansFile, archives, sent, taken, deleted, lastTry, put, hands, changes>>

(* config.json could not be replaced: it is put back from the safety copy,  *)
(* if that can be written and opens with the passphrase read before.        *)
RollBack ==
    /\ At("restore", "put") /\ DiskFails
    /\ LET copy == job["restore"].arch
       IN \/ Opens(copy, job["restore"].pass) /\ config' = copy.config
          \/ UNCHANGED config
    /\ standing' = clock /\ noted' = FALSE /\ Ends("restore")
    /\ UNCHANGED <<clock, tick, banList, bansFile, archives, sent, taken, deleted, lastTry, undo, put, hands, changes>>

(* bans.json too, or it is skipped when it cannot be written.               *)
PutState ==
    /\ At("restore", "state") /\ Ends("restore")
    /\ \/ bansFile' = job["restore"].from.bans /\ put' = bansFile'
       \/ DiskFails /\ UNCHANGED <<bansFile, put>>
    /\ UNCHANGED <<clock, tick, config, banList, archives, sent, taken, deleted, lastTry, noted, standing, undo,
                   hands, changes>>

(***************************************************************************)
(* The ban engine, and the service itself.                                 *)
(***************************************************************************)
BansChange ==
    /\ Change /\ banList' = banList + 1 /\ put' = Nothing
    /\ UNCHANGED <<clock, tick, config, bansFile, archives, sent, job, taken, deleted, lastTry,
                   noted, standing, undo, hands>>
SaveBans ==
    /\ bansFile' = banList
    /\ UNCHANGED <<clock, tick, config, banList, archives, sent, job, ghosts, hands, changes>>

(* The service is killed and started again: its ban list is the file's.     *)
Restart ==
    /\ Change /\ tick' = clock + Minute /\ job' = [p \in Makers |-> NoWork] /\ banList' = bansFile
    /\ UNCHANGED <<clock, config, bansFile, archives, sent, ghosts, hands>>

Progress(p) == ReadFiles(p) \/ Store(p) \/ MakingFails(p) \/ Prune(p) \/ Send(p)

BackupNext ==
    \/ Clock \/ TickIdle \/ Fire \/ (\E p \in Makers : Progress(p))
    \/ (\E b \in Forms : SetBackup(b)) \/ Edit \/ RunNow \/ (\E a \in archives : Delete(a))
    \/ (\E a \in archives, pass \in Passes, parts \in {{"config"}, {"state"}, {"config", "state"}} :
            Restore(a, pass, parts))
    \/ PutConfig \/ RollBack \/ PutState
    \/ BansChange \/ SaveBans \/ Restart

BackupSpec == BackupInit /\ [][BackupNext]_backupVars

(***************************************************************************)
(* Properties.                                                             *)
(***************************************************************************)
(* "a file survives if and only if it is the newest in a bucket that is     *)
(* still within its generation's count" (retention.go:16).                  *)
HasARole(a, A) ==
    LET autos == A \ Manual(A)
        later(g) == {Bucket(b, g) : b \in {c \in autos : Bucket(c, g) > Bucket(a, g)}}
    IN \E g \in Generations :
          /\ \A b \in autos : Bucket(b, g) = Bucket(a, g) => b.at <= a.at
          /\ Cardinality(later(g)) < Counts[g]

(* Pruning after every backup, with whatever was still on disk, loses       *)
(* nothing that the policy would keep out of all that was ever taken, and   *)
(* nothing that was taken by hand (retention.go:61, :68).                   *)
NothingNeededIsPruned == \A a \in taken : a.label = "manual" \/ HasARole(a, taken) => a \in archives \cup deleted

(* What leaves the machine is sealed, although the settings may change      *)
(* between the making of an archive and its sending (offsite.go:66).        *)
NothingReadableLeaves == \A a \in sent : Sealed(a)

(* "one attempt per interval whatever happens" (schedule.go:150): restarts, *)
(* crashes and failing backups cause no burst, while the settings stand and *)
(* the run could be recorded.                                               *)
OneAttempt == Fire /\ noted => clock - lastTry >= config.backup.every
NoBurst == [][OneAttempt]_backupVars

(* The way back from a restore (restore.go:166): unless somebody edited the *)
(* configuration meanwhile, the copy of what it replaced is on disk until   *)
(* it is deleted by hand, or a manual backup of the same second takes its   *)
(* name: no pruning rotates it away.                                        *)
UndoIsAtHand ==
    undo.copy # NoArchive =>
        /\ undo.copy \in archives \cup deleted
        /\ undo.copy.config.edits = undo.replaced.edits => undo.copy.config.backup = undo.replaced.backup

(* retention.go:16, :61, restore.go:166: pruning after every backup loses   *)
(* no archive the policy keeps, none taken by hand, and not the way back    *)
(* from a restore.                                                          *)
NothingIsRotatedAway == NothingNeededIsPruned /\ UndoIsAtHand

(* "it survives a restart without either skipping a backup or taking a      *)
(* burst of them" (schedule.go:10): a daily schedule that has stood for a   *)
(* day fires every day.                                                     *)
NoDayIsSkipped ==
    LET midnight == clock - (clock % Day)
    IN /\ config.backup.enabled /\ config.backup.every = Day
       /\ At("schedule", "idle") /\ standing + Day <= midnight /\ clock >= midnight + 2 * Minute + Lag
       => lastTry >= midnight

(* "Safe to restore, but it will replace whatever has accumulated since"    *)
(* (i18n/en.js:926): as long as nobody is banned or released, bans.json     *)
(* stays the list that was put back.                                        *)
RestoredListLasts == put # Nothing => bansFile = put

=============================================================================
