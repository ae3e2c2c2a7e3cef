----------------------------- MODULE ConfigStore -----------------------------
(***************************************************************************)
(* The one configuration file of Shahrag and the Manager every part of it  *)
(* reads and writes through (internal/config/config.go).                   *)
(*                                                                         *)
(* Several operating-system processes (the panel service, the CLI menu, a  *)
(* one-off `shahrag` command) each own one Manager.  Inside a process,     *)
(* goroutines are serialised by the Manager's mutex `mu'; across processes *)
(* by flock(2) on a lock file.  Read and Write each take both locks, in    *)
(* that order, and release them before they return.  Mutate is Read, then  *)
(* the edit, then Write.  A write prepares a temporary file and renames it *)
(* over config.json, so the file changes in one step.                      *)
(*                                                                         *)
(* The content of the file is the set of edits it carries and whether it   *)
(* still needs a migration.  An edit stands for whatever one call of       *)
(* Mutate changes (a domain, a port, a setting).                           *)
(***************************************************************************)
EXTENDS Naturals, FiniteSets

CONSTANTS
    Procs,       \* goroutines that use a Manager
    Hosts,       \* operating-system processes, one Manager each
    HostOf,      \* [Procs -> Hosts]
    MainOf,      \* [Hosts -> Procs]: the goroutine that calls config.New()
    LockFiles,   \* lock files flock(2) is taken on
    LockOf,      \* [Hosts -> LockFiles]: which lock file lock() can open
    Edits,       \* the changes Mutate is called for, each used once
    NoFile,      \* config.json does not exist
    NoProc       \* nobody holds the lock

Config == [edits : SUBSET Edits, legacy : BOOLEAN]

ASSUME ConstantsAssumption ==
    /\ HostOf \in [Procs -> Hosts]
    /\ MainOf \in [Hosts -> Procs]
    /\ \A h \in Hosts : HostOf[MainOf[h]] = h
    /\ LockOf \in [Hosts -> LockFiles]
    /\ NoFile \notin Config
    /\ NoProc \notin Procs

VARIABLES
    file,      \* config.json
    mu,        \* [Hosts -> Procs or NoProc]: who holds each Manager's mutex
    flock,     \* [LockFiles -> Procs or NoProc]: who holds each lock file
    pc,        \* [Procs -> PC]: where each goroutine is
    op,        \* [Procs -> Op]: the call it is executing
    hand,      \* [Procs -> Config]: the *Config it has in memory
    started,   \* edits some Mutate has begun
    acked      \* edits whose Mutate returned without error

vars == <<file, mu, flock, pc, op, hand, started, acked>>

Op == {"none", "read", "mutate", "ensure"}

PC == {"down", "stat", "idle",
       "r_mu", "r_flock", "r_open", "r_rename",
       "apply",
       "w_mu", "w_flock", "w_temp", "w_rename"}

Default == [edits |-> {}, legacy |-> FALSE]
Unmigrated == [edits |-> {}, legacy |-> TRUE]   \* left by an older version
Migrated(c) == [edits |-> c.edits, legacy |-> FALSE]
WithEdit(c, e) == [edits |-> c.edits \cup {e}, legacy |-> c.legacy]

Lock(p) == LockOf[HostOf[p]]

TypeOK ==
    /\ file \in Config \cup {NoFile}
    /\ mu \in [Hosts -> Procs \cup {NoProc}]
    /\ flock \in [LockFiles -> Procs \cup {NoProc}]
    /\ pc \in [Procs -> PC]
    /\ op \in [Procs -> Op]
    /\ hand \in [Procs -> Config]
    /\ started \in SUBSET Edits
    /\ acked \in SUBSET Edits

Init ==
    /\ file \in {NoFile, Default, Unmigrated}
    /\ mu = [h \in Hosts |-> NoProc]
    /\ flock = [l \in LockFiles |-> NoProc]
    /\ pc = [p \in Procs |-> "down"]
    /\ op = [p \in Procs |-> "none"]
    /\ hand = [p \in Procs |-> Default]
    /\ started = {}
    /\ acked = {}

Goto(p, from, to) == pc[p] = from /\ pc' = [pc EXCEPT ![p] = to]

Unlock(p) ==
    /\ mu' = [mu EXCEPT ![HostOf[p]] = NoProc]
    /\ flock' = [flock EXCEPT ![Lock(p)] = NoProc]

------------------------------------------------------------------------------
(* Starting a process: New() calls ensure(), which looks for the file       *)
(* WITHOUT taking a lock and, when it is missing, writes the default.       *)

Start(h) ==
    /\ \A p \in Procs : HostOf[p] = h => pc[p] = "down"
    /\ pc' = [pc EXCEPT ![MainOf[h]] = "stat"]
    /\ op' = [op EXCEPT ![MainOf[h]] = "ensure"]
    /\ UNCHANGED <<file, mu, flock, hand, started, acked>>

\* The process is up: all its goroutines may now call the Manager.
Up(p) == [q \in Procs |-> IF HostOf[q] = HostOf[p] THEN "idle" ELSE pc[q]]

EnsureStat(p) ==
    /\ pc[p] = "stat"
    /\ IF file = NoFile
         THEN /\ pc' = [pc EXCEPT ![p] = "w_mu"]
              /\ hand' = [hand EXCEPT ![p] = Default]
              /\ op' = op
         ELSE /\ pc' = Up(p)
              /\ hand' = hand
              /\ op' = [op EXCEPT ![p] = "none"]
    /\ UNCHANGED <<file, mu, flock, started, acked>>

\* The process is killed.  The kernel drops its flock, its mutex is gone
\* with its memory, and a temporary file it left is never looked at.
Crash(h) ==
    /\ \E p \in Procs : HostOf[p] = h /\ pc[p] # "down"
    /\ pc' = [p \in Procs |-> IF HostOf[p] = h THEN "down" ELSE pc[p]]
    /\ op' = [p \in Procs |-> IF HostOf[p] = h THEN "none" ELSE op[p]]
    /\ mu' = [mu EXCEPT ![h] = NoProc]
    /\ flock' = [l \in LockFiles |->
                   IF flock[l] \in Procs /\ HostOf[flock[l]] = h
                     THEN NoProc ELSE flock[l]]
    /\ UNCHANGED <<file, hand, started, acked>>

------------------------------------------------------------------------------
(* The calls a running goroutine makes.                                     *)

CallRead(p) ==
    /\ Goto(p, "idle", "r_mu")
    /\ op' = [op EXCEPT ![p] = "read"]
    /\ UNCHANGED <<file, mu, flock, hand, started, acked>>

CallMutate(p) ==
    /\ Goto(p, "idle", "r_mu")
    /\ op' = [op EXCEPT ![p] = "mutate"]
    /\ UNCHANGED <<file, mu, flock, hand, started, acked>>

\* m.mu.Lock(), at the head of Read and of Write.
LockMu(p) ==
    /\ \/ Goto(p, "r_mu", "r_flock")
       \/ Goto(p, "w_mu", "w_flock")
    /\ mu[HostOf[p]] = NoProc
    /\ mu' = [mu EXCEPT ![HostOf[p]] = p]
    /\ UNCHANGED <<file, flock, op, hand, started, acked>>

\* m.lock(): flock(LOCK_EX) on the lock file this process can open.
LockFlock(p) ==
    /\ \/ Goto(p, "r_flock", "r_open")
       \/ Goto(p, "w_flock", "w_temp")
    /\ flock[Lock(p)] = NoProc
    /\ flock' = [flock EXCEPT ![Lock(p)] = p]
    /\ UNCHANGED <<file, mu, op, hand, started, acked>>

\* Where Read returns to, and what is left of the call.
ReadReturns(p) ==
    /\ pc' = [pc EXCEPT ![p] = IF op[p] = "mutate" THEN "apply" ELSE "idle"]
    /\ op' = [op EXCEPT ![p] = IF @ = "mutate" THEN @ ELSE "none"]

\* Mutant: a file that needs a migration is rewritten without the locks.
ReadOpenUnlocks(p) ==
    /\ pc[p] = "r_open"
    /\ Unlock(p)
    /\ IF file = NoFile
         THEN /\ pc' = [pc EXCEPT ![p] = "idle"]
              /\ op' = [op EXCEPT ![p] = "none"]
              /\ hand' = hand
         ELSE /\ hand' = [hand EXCEPT ![p] = Migrated(file)]
              /\ IF file.legacy
                   THEN /\ pc' = [pc EXCEPT ![p] = "r_rename"]
                        /\ op' = op
                   ELSE ReadReturns(p)
    /\ UNCHANGED <<file, started, acked>>

\* Mutant: a missing file is handed on as if it were a configuration.
ReadOpenNothing(p) ==
    /\ pc[p] = "r_open"
    /\ hand' = [hand EXCEPT ![p] = file]
    /\ ReadReturns(p)
    /\ Unlock(p)
    /\ UNCHANGED <<file, started, acked>>

\* os.ReadFile and migrate.  A missing file is an error and ends the call.
ReadOpen(p) ==
    /\ pc[p] = "r_open"
    /\ IF file = NoFile
         THEN /\ pc' = [pc EXCEPT ![p] = "idle"]
              /\ op' = [op EXCEPT ![p] = "none"]
              /\ hand' = hand
              /\ Unlock(p)
         ELSE /\ hand' = [hand EXCEPT ![p] = Migrated(file)]
              /\ IF file.legacy
                   THEN /\ pc' = [pc EXCEPT ![p] = "r_rename"]
                        /\ UNCHANGED <<mu, flock, op>>
                   ELSE /\ ReadReturns(p)
                        /\ Unlock(p)
    /\ UNCHANGED <<file, started, acked>>

\* writeData inside Read: the migrated configuration replaces the file.  A
\* failure is ignored, and the next Read migrates again.
ReadRename(p) ==
    /\ pc[p] = "r_rename"
    /\ file' \in {hand[p], file}
    /\ ReadReturns(p)
    /\ Unlock(p)
    /\ UNCHANGED <<hand, started, acked>>

\* fn(c): the caller's edit, made on the copy Read returned, with no lock
\* held.  It may refuse, which ends the call.
Apply(p) ==
    /\ pc[p] = "apply"
    /\ \/ \E e \in Edits \ started :
            /\ hand' = [hand EXCEPT ![p] = WithEdit(hand[p], e)]
            /\ started' = started \cup {e}
            /\ pc' = [pc EXCEPT ![p] = "w_mu"]
            /\ op' = op
       \/ /\ pc' = [pc EXCEPT ![p] = "idle"]
          /\ op' = [op EXCEPT ![p] = "none"]
          /\ UNCHANGED <<hand, started>>
    /\ UNCHANGED <<file, mu, flock, acked>>

\* Mutant: the error path of a write leaves both locks taken.
WriteTempLeaks(p) ==
    /\ pc[p] = "w_temp"
    /\ \/ pc' = [pc EXCEPT ![p] = "w_rename"] /\ op' = op
       \/ /\ pc' = [pc EXCEPT ![p] = "idle"]
          /\ op' = [op EXCEPT ![p] = "none"]
    /\ UNCHANGED <<file, mu, flock, hand, started, acked>>

\* Mutant: a write that failed is reported as done.
WriteTempLies(p) ==
    /\ pc[p] = "w_temp"
    /\ \/ pc' = [pc EXCEPT ![p] = "w_rename"] /\ UNCHANGED <<mu, flock, op, acked>>
       \/ /\ pc' = [pc EXCEPT ![p] = "idle"]
          /\ op' = [op EXCEPT ![p] = "none"]
          /\ acked' = acked \cup hand[p].edits
          /\ Unlock(p)
    /\ UNCHANGED <<file, hand, started>>

\* CreateTemp, Write, Chmod, Close: nothing another reader can see.  A
\* failure here ends the call with an error and leaves the file alone.
WriteTemp(p) ==
    /\ pc[p] = "w_temp"
    /\ \/ /\ pc' = [pc EXCEPT ![p] = "w_rename"]
          /\ UNCHANGED <<mu, flock, op>>
       \/ /\ pc' = Up(p)
          /\ op' = [op EXCEPT ![p] = "none"]
          /\ op[p] = "ensure"
          /\ Unlock(p)
       \/ /\ pc' = [pc EXCEPT ![p] = "idle"]
          /\ op' = [op EXCEPT ![p] = "none"]
          /\ op[p] = "mutate"
          /\ Unlock(p)
    /\ UNCHANGED <<file, hand, started, acked>>

\* os.Rename, then both locks are released and Mutate returns nil.
WriteRename(p) ==
    /\ pc[p] = "w_rename"
    /\ file' = hand[p]
    /\ pc' = IF op[p] = "ensure" THEN Up(p) ELSE [pc EXCEPT ![p] = "idle"]
    /\ op' = [op EXCEPT ![p] = "none"]
    /\ acked' = acked \cup hand[p].edits
    /\ Unlock(p)
    /\ UNCHANGED <<hand, started>>

Step(p) ==
    \/ EnsureStat(p)
    \/ LockMu(p) \/ LockFlock(p)
    \/ ReadOpen(p) \/ ReadRename(p)
    \/ Apply(p)
    \/ WriteTemp(p) \/ WriteRename(p)

Next ==
    \/ \E h \in Hosts : Start(h) \/ Crash(h)
    \/ \E p \in Procs : CallRead(p) \/ CallMutate(p) \/ Step(p)

Spec == Init /\ [][Next]_vars

\* A goroutine inside a call keeps running, and both the Go mutex and flock
\* hand a free lock to a waiter that keeps asking.
Fairness ==
    \A p \in Procs : /\ WF_vars(Step(p))
                     /\ SF_vars(LockMu(p))
                     /\ SF_vars(LockFlock(p))

FairSpec == Spec /\ Fairness
------------------------------------------------------------------------------
(* What the store promises: see AtomicStore.                                *)

visible == IF file = NoFile THEN NoFile ELSE Migrated(file)

Store == INSTANCE AtomicStore WITH cfg <- visible

\* The Manager implements one atomic cell: every Read returns the whole of
\* what the last completed write stored, a Read that repairs an old file
\* changes nothing a caller can see, and a Mutate returns success exactly
\* when its configuration became the stored one.
ImplementsAtomicStore == Store!Spec

\* A migration inside Read (config.go:725) rewrites the file from what was
\* read a few steps before, so it is harmless only because both locks are
\* held over the whole of Read: it may never drop an edit.
ReadLosesNoEdit ==
    [][\A p \in Procs : ReadRename(p) => file'.edits = file.edits]_vars

\* Every call into the Manager returns, whatever the other goroutines and
\* processes do and wherever one of them is killed: no order of the two
\* locks, no error path and no crash leaves one held for ever.
CallsReturn ==
    \A p \in Procs : (pc[p] \notin {"idle", "down"}) ~> (pc[p] \in {"idle", "down"})

\* The comment on Mutate ("atomically reads, applies fn, writes back",
\* config.go:773): once Mutate has returned, its edit is in the file, since
\* no edit modelled here removes another one.
MutateIsAtomic == file # NoFile => acked \subseteq file.edits
==============================================================================
