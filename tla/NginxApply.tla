------------------------------ MODULE NginxApply ------------------------------
(***************************************************************************)
(* How a configuration reaches nginx (internal/nginx: GenerateAndReload,   *)
(* Generate, the stream include, SnapBackup and Restore, Reload, and the   *)
(* watchdog of bootguard.go).                                              *)
(*                                                                         *)
(* A call snapshots the files it will touch, writes the stream file, adds  *)
(* or removes the stream include in nginx.conf, writes the HTTP file, runs *)
(* `nginx -t' on the tree and reloads.  Each failure puts the snapshot     *)
(* back.  Nothing serialises the calls: web handlers, the goroutines of    *)
(* the ban engine's callback and CLI processes all make them.              *)
(*                                                                         *)
(* Each file is written and each snapshot taken in one step, and putting a *)
(* file back always works.  A failed or interrupted write leaves the file  *)
(* torn, and nginx rejects a torn file.                                    *)
(***************************************************************************)
EXTENDS Naturals

CONSTANTS
    Appliers,    \* callers of GenerateAndReload, each with one call at a time
    WritesFail,  \* writing a file may fail
    Down,        \* stands for the tree of an nginx that is not running
    MaxVersion   \* bound: versions of config.json

VARIABLES
    store,      \* config.json, as much of it as nginx sees
    disk,       \* the tree under /etc/nginx: [http, stream, include]
    module,     \* nginx was built with the stream module
    running,    \* the tree nginx runs, or Down
    taken,      \* another daemon holds a port nginx wants
    watch,      \* the watchdog: asleep, or about to start nginx
    pc,         \* [Appliers -> PC]
    made,       \* the configuration Generate read
    snap,       \* the Backup of the call
    verb,       \* what Reload told systemctl: "reload" or "start"
    retry,      \* this Reload is the one after the rollback
    wanted,     \* the version in config.json when the call was made
    outcome,    \* what the last call returned
    died        \* history: a process died in the middle of a call

nginxVars == <<store, disk, module, running, taken, watch, pc, made, snap, verb,
               retry, wanted, outcome, died>>
local == <<made, snap, verb, retry, wanted>>
server == <<module, running, taken, watch>>

Parts == {"http", "stream"}

(* `bad' are the parts nginx rejects when they are generated from it.      *)
NginxConfig == [v : 0..MaxVersion, reality : BOOLEAN, bad : SUBSET Parts]
Torn == [v |-> 0, reality |-> TRUE, bad |-> Parts]
Tree == [http : NginxConfig, stream : NginxConfig, include : BOOLEAN]
PC == {"idle", "snap", "read", "stream", "include", "retest", "http", "test",
       "verb", "reload", "restore"}
Outcomes == {"none", "applied", "rejected", "error", "reverted", "failed"}

ASSUME NginxAssumption ==
    /\ MaxVersion \in Nat \ {0}
    /\ WritesFail \in BOOLEAN
    /\ Down \notin Tree

up == running # Down

(* What `nginx -t' says: it parses every file that nginx.conf includes.  A *)
(* stream file generated with Reality off is a comment.                    *)
StreamServed(t) == t.include /\ t.stream.reality
StreamUnknown(t) == t.include /\ ~module
Sound(c) == "http" \notin c.bad /\ (c.reality => "stream" \notin c.bad)
Valid(t) ==
    /\ "http" \notin t.http.bad
    /\ ~StreamUnknown(t)
    /\ StreamServed(t) => "stream" \notin t.stream.bad

(* It binds no port.  With Reality off the HTTP file itself listens on the *)
(* public port, which the stream file listens on with Reality on.          *)
Bindable(t) == StreamServed(t) => t.http.reality
Startable == Valid(disk) /\ Bindable(disk) /\ ~taken

NginxTypeOK ==
    /\ store \in NginxConfig
    /\ disk \in Tree /\ running \in Tree \cup {Down}
    /\ module \in BOOLEAN /\ taken \in BOOLEAN
    /\ watch \in {"asleep", "start"}
    /\ pc \in [Appliers -> PC]
    /\ made \in [Appliers -> NginxConfig]
    /\ snap \in [Appliers -> Tree]
    /\ verb \in [Appliers -> {"reload", "start"}]
    /\ retry \in [Appliers -> BOOLEAN]
    /\ wanted \in [Appliers -> 0..MaxVersion]
    /\ outcome \in [Appliers -> Outcomes]
    /\ died \in BOOLEAN

FirstConfig == [v |-> 0, reality |-> FALSE, bad |-> {}]
FirstTree == [http |-> FirstConfig, stream |-> FirstConfig, include |-> FALSE]

NginxInit ==
    /\ store = FirstConfig
    /\ disk = FirstTree /\ running = FirstTree
    /\ module \in BOOLEAN
    /\ taken = FALSE /\ watch = "asleep"
    /\ pc = [p \in Appliers |-> "idle"]
    /\ made = [p \in Appliers |-> FirstConfig]
    /\ snap = [p \in Appliers |-> FirstTree]
    /\ verb = [p \in Appliers |-> "reload"]
    /\ retry = [p \in Appliers |-> FALSE]
    /\ wanted = [p \in Appliers |-> 0]
    /\ outcome = [p \in Appliers |-> "none"]
    /\ died = FALSE

Goto(p, from, to) == pc[p] = from /\ pc' = [pc EXCEPT ![p] = to]

(* What a call leaves behind when it returns or its process dies.          *)
Forget(p) ==
    /\ made' = [made EXCEPT ![p] = FirstConfig]
    /\ snap' = [snap EXCEPT ![p] = FirstTree]
    /\ verb' = [verb EXCEPT ![p] = "reload"]
    /\ retry' = [retry EXCEPT ![p] = FALSE]
    /\ wanted' = [wanted EXCEPT ![p] = 0]

(* A new configuration: any change of what nginx makes of it.              *)
NewConfigs ==
    {c \in NginxConfig : /\ c.v = store.v + 1
                         /\ c.bad # Parts
                         /\ "stream" \in c.bad => c.reality}

-----------------------------------------------------------------------------
(* GenerateAndReload.                                                      *)

(* A handler commits its change to config.json and calls; a ban callback   *)
(* or the Generate button calls without one.                               *)
Call(p) ==
    /\ Goto(p, "idle", "snap")
    /\ store' \in NewConfigs \cup {store}
    /\ wanted' = [wanted EXCEPT ![p] = store'.v]
    /\ outcome' = [outcome EXCEPT ![p] = "none"]
    /\ UNCHANGED <<disk, server, made, snap, verb, retry, died>>

SnapBackup(p) ==
    /\ Goto(p, "snap", "read")
    /\ snap' = [snap EXCEPT ![p] = disk]
    /\ UNCHANGED <<store, disk, server, made, verb, retry, wanted, outcome, died>>

(* Generate reads config.json a second time.                               *)
ReadConfig(p) ==
    /\ Goto(p, "read", "stream")
    /\ made' = [made EXCEPT ![p] = store]
    /\ UNCHANGED <<store, disk, server, snap, verb, retry, wanted, outcome, died>>

(* os.WriteFile truncates first: when it fails the old content is gone,    *)
(* and Generate's error sends the call to Restore.                         *)
WriteFile(p, part, from, to) ==
    /\ \/ Goto(p, from, to) /\ disk' = [disk EXCEPT ![part] = made[p]]
          /\ UNCHANGED outcome
       \/ WritesFail
          /\ Goto(p, from, "restore") /\ disk' = [disk EXCEPT ![part] = Torn]
          /\ outcome' = [outcome EXCEPT ![p] = "error"]
    /\ UNCHANGED <<store, server, local, died>>

WriteStream(p) == WriteFile(p, "stream", "stream", "include")
WriteHttp(p) == WriteFile(p, "http", "http", "test")

(* ensureStreamInclude and removeStreamInclude return at once when         *)
(* nginx.conf is as they want it.                                          *)
SetInclude(p) ==
    /\ IF disk.include = made[p].reality
       THEN Goto(p, "include", "http") /\ UNCHANGED disk
       ELSE /\ Goto(p, "include", "retest")
            /\ disk' = [disk EXCEPT !.include = made[p].reality]
    /\ UNCHANGED <<store, server, local, outcome, died>>

(* Mutant: a missing stream module fails the call like any other error.    *)
TestIncludeStrict(p) ==
    /\ \/ Valid(disk) /\ Goto(p, "retest", "http") /\ UNCHANGED <<disk, outcome>>
       \/ /\ ~Valid(disk) /\ Goto(p, "retest", "restore")
          /\ disk' = [disk EXCEPT !.include = ~made[p].reality]
          /\ outcome' = [outcome EXCEPT ![p] = "error"]
    /\ UNCHANGED <<store, server, local, died>>

(* Otherwise they test the edit and undo it when nginx objects.  An nginx  *)
(* without the stream module does not fail the call; it says so only once  *)
(* the HTTP part, which comes first, has parsed.                           *)
TestInclude(p) ==
    /\ \/ Valid(disk) /\ Goto(p, "retest", "http") /\ UNCHANGED <<disk, outcome>>
       \/ /\ ~Valid(disk)
          /\ disk' = [disk EXCEPT !.include = ~made[p].reality]
          /\ IF made[p].reality /\ "http" \notin disk.http.bad /\ StreamUnknown(disk)
             THEN Goto(p, "retest", "http") /\ UNCHANGED outcome
             ELSE /\ Goto(p, "retest", "restore")
                  /\ outcome' = [outcome EXCEPT ![p] = "error"]
    /\ UNCHANGED <<store, server, local, died>>

Test(p) ==
    /\ \/ Valid(disk) /\ Goto(p, "test", "verb") /\ UNCHANGED outcome
       \/ ~Valid(disk) /\ Goto(p, "test", "restore")
          /\ outcome' = [outcome EXCEPT ![p] = "rejected"]
    /\ UNCHANGED <<store, disk, server, local, died>>

(* Mutant: an error of Generate returns without Restore.                   *)
RestoreAfterTest(p) ==
    /\ \/ retry[p] /\ Goto(p, "restore", "verb") /\ UNCHANGED local
       \/ ~retry[p] /\ Goto(p, "restore", "idle") /\ Forget(p)
    /\ disk' = IF outcome[p] = "error" THEN disk ELSE snap[p]
    /\ UNCHANGED <<store, server, outcome, died>>

(* Mutant: nginx.conf is missing from the snapshot.                        *)
RestoreTwoFiles(p) ==
    /\ \/ retry[p] /\ Goto(p, "restore", "verb") /\ UNCHANGED local
       \/ ~retry[p] /\ Goto(p, "restore", "idle") /\ Forget(p)
    /\ disk' = [snap[p] EXCEPT !.include = disk.include]
    /\ UNCHANGED <<store, server, outcome, died>>

(* After a failed reload the snapshot goes back and nginx is reloaded once *)
(* more; after any other failure the call is over.                         *)
Restore(p) ==
    /\ \/ retry[p] /\ Goto(p, "restore", "verb") /\ UNCHANGED local
       \/ ~retry[p] /\ Goto(p, "restore", "idle") /\ Forget(p)
    /\ disk' = snap[p]
    /\ UNCHANGED <<store, server, outcome, died>>

(* Mutant: the verb is always "start".                                     *)
PickVerbStart(p) ==
    /\ Goto(p, "verb", "reload")
    /\ verb' = [verb EXCEPT ![p] = "start"]
    /\ UNCHANGED <<store, disk, server, made, snap, retry, wanted, outcome, died>>

(* Reload asks systemd whether nginx is active before it picks the verb.   *)
PickVerb(p) ==
    /\ Goto(p, "verb", "reload")
    /\ verb' = [verb EXCEPT ![p] = IF up THEN "reload" ELSE "start"]
    /\ UNCHANGED <<store, disk, server, made, snap, retry, wanted, outcome, died>>

(* systemctl: a reload of a running nginx fails on a tree that does not    *)
(* parse, and keeps the old one when a port cannot be bound; a start of a  *)
(* running nginx does nothing.                                             *)
SystemctlOK(p) ==
    IF verb[p] = "reload" THEN up /\ Valid(disk) ELSE up \/ Startable

Systemctl(p) ==
    running' = IF IF verb[p] = "reload" THEN up /\ Valid(disk) /\ Bindable(disk)
                                        ELSE ~up /\ Startable
               THEN disk ELSE running

Reload(p) ==
    /\ Systemctl(p)
    /\ \/ /\ SystemctlOK(p) \/ retry[p]
          /\ Goto(p, "reload", "idle")
          /\ outcome' = [outcome EXCEPT ![p] =
                CASE ~retry[p] -> "applied"
                  [] retry[p] /\ SystemctlOK(p) -> "reverted"
                  [] OTHER -> "failed"]
          /\ Forget(p)
       \/ /\ ~SystemctlOK(p) /\ ~retry[p]
          /\ Goto(p, "reload", "restore")
          /\ retry' = [retry EXCEPT ![p] = TRUE]
          /\ UNCHANGED <<made, snap, verb, wanted, outcome>>
    /\ UNCHANGED <<store, disk, module, taken, watch, died>>

Apply(p) ==
    \/ Call(p) \/ SnapBackup(p) \/ ReadConfig(p) \/ WriteStream(p)
    \/ SetInclude(p) \/ TestInclude(p) \/ WriteHttp(p) \/ Test(p)
    \/ Restore(p) \/ PickVerb(p) \/ Reload(p)

-----------------------------------------------------------------------------
(* The watchdog, every 30 seconds: it starts an nginx that is down, if the *)
(* tree is valid and no other daemon holds a port.                         *)

\* Mutant: the watchdog waits until some call has succeeded.
WatchLookLate ==
    /\ watch = "asleep" /\ ~up /\ Valid(disk) /\ ~taken
    /\ \E p \in Appliers : outcome[p] = "applied"
    /\ watch' = "start"
    /\ UNCHANGED <<store, disk, module, running, taken, pc, local, outcome, died>>

WatchLook ==
    /\ watch = "asleep" /\ ~up /\ Valid(disk) /\ ~taken
    /\ watch' = "start"
    /\ UNCHANGED <<store, disk, module, running, taken, pc, local, outcome, died>>

WatchStart ==
    /\ watch = "start" /\ watch' = "asleep"
    /\ running' = IF ~up /\ Startable THEN disk ELSE running
    /\ UNCHANGED <<store, disk, module, taken, pc, local, outcome, died>>

-----------------------------------------------------------------------------
(* Outside the code.                                                       *)

NginxDies ==
    /\ up /\ running' = Down
    /\ UNCHANGED <<store, disk, module, taken, watch, pc, local, outcome, died>>

PortTaken ==
    /\ ~up /\ taken' = ~taken
    /\ UNCHANGED <<store, disk, module, running, watch, pc, local, outcome, died>>

(* The process making a call is killed, maybe in the middle of a write.    *)
Crash(p) ==
    /\ pc[p] # "idle" /\ pc' = [pc EXCEPT ![p] = "idle"]
    /\ disk' \in {disk} \cup
         {[disk EXCEPT ![part] = Torn] : part \in {q \in Parts : q = pc[p]}}
    /\ died' = TRUE
    /\ Forget(p)
    /\ UNCHANGED <<store, server, outcome>>

Environment == NginxDies \/ PortTaken \/ \E p \in Appliers : Crash(p)

NginxNext == (\E p \in Appliers : Apply(p)) \/ WatchLook \/ WatchStart \/ Environment

NginxSpec == NginxInit /\ [][NginxNext]_nginxVars

(* A call runs to its end, and the watchdog keeps looking.                 *)
Fairness ==
    /\ \A p \in Appliers : WF_nginxVars(pc[p] # "idle" /\ Apply(p))
    /\ WF_nginxVars(WatchLook) /\ WF_nginxVars(WatchStart)

FairSpec == NginxSpec /\ Fairness

-----------------------------------------------------------------------------
(* Properties.                                                             *)

AtRest == \A p \in Appliers : pc[p] = "idle"

(* "Restoring the previous files on any failure so the running server is   *)
(* never left with a broken config on disk": when no call is under way     *)
(* and none was killed, nginx would accept the tree.                       *)
NeverLeftBroken == AtRest /\ ~died => Valid(disk)

(* At rest the three files come from one configuration: a rollback never   *)
(* leaves the stream file or the include of a version whose HTTP file was  *)
(* taken back, which `nginx -t' would not notice.                          *)
TreeIsOneVersion ==
    AtRest /\ ~died =>
        /\ disk.http = disk.stream
        /\ disk.include = (disk.http.reality /\ module)

(* A call that reports success, the one after a crash included, has put    *)
(* the caller's change, or a newer configuration, on disk, and nginx runs  *)
(* exactly that tree.                                                      *)
AppliedIsServed ==
    [][\A p \in Appliers :
         outcome[p] # "applied" /\ outcome'[p] = "applied" =>
            /\ running' = disk'
            /\ disk'.http.v >= wanted[p] /\ disk'.stream = disk'.http]_nginxVars

(* `nginx -t' refuses a call only for what its own configuration says,     *)
(* never for a mixture of new files and the ones they replace.             *)
SoundIsAccepted ==
    [][\A p \in Appliers :
         pc[p] \in {"retest", "test"} /\ pc'[p] = "restore" =>
            died \/ ~Sound(made[p])]_nginxVars

(* Every call returns, whatever failed: the retry after a rollback is not   *)
(* rolled back in turn.                                                    *)
CallsReturn == \A p \in Appliers : pc[p] # "idle" ~> pc[p] = "idle"

(* A stopped nginx does not stay down while it could start.                *)
NginxComesBack == []<>(up \/ ~Startable)

(* Whatever fails, the panel is free again and nginx is up again.          *)
Recovers == CallsReturn /\ NginxComesBack

==============================================================================
