------------------------------ MODULE BanEngine ------------------------------
(***************************************************************************)
(* The automatic-ban engine (internal/banner/banner.go and escalate.go,    *)
(* with the ladder of internal/config/escalation.go).                      *)
(*                                                                         *)
(* Two kinds of caller feed it: the scanner goroutine, every 15 seconds,   *)
(* and a login handler for each failed panel login.  Each reads the        *)
(* configuration and the clock once, records offences one at a time under  *)
(* the engine's mutex, and then evaluates every tracked address in one     *)
(* critical section.  Between those steps an operator may ban, release or  *)
(* forgive an address, or edit the allow list.                             *)
(*                                                                         *)
(* The critical section of evaluate() is a loop over the addresses; it is  *)
(* unrolled here, one address per step, with the mutex held.               *)
(***************************************************************************)
EXTENDS Integers, Sequences, FiniteSets

CONSTANTS
    IPs,           \* addresses, numbered: evaluate() visits them sorted
    Scanner, Login,\* the two callers
    KindsOf,       \* the rules whose offences each caller records
    Rules,         \* seq of [window, hits, ban, permanent], in evaluate's order
    Steps,         \* the ladder: seq of ban lengths; Forever is permanent
    Forever,       \* a length past the end of every run
    Decay,         \* clean time that buys back one step
    Scale,         \* fixed-point units of one offence (float32 in the code)
    MaxTracked,    \* maxTrackedIPs
    MaxOffenders,  \* maxOffenders
    EvictTarget,   \* maxOffenders - maxOffenders/10
    Exempt,        \* loopback and the never-ban ranges
    ManualLengths, \* lengths an operator bans for by hand
    Configs,       \* AutoBan settings an operator may store
    None           \* no ban, no counter, no ledger record

CONSTANTS          \* bounds of a run, not of the code
    MaxTime, MaxRecords, MaxCount, MaxLag

Kinds == DOMAIN Rules
Levels == DOMAIN Steps
Callers == {Scanner, Login}

Ban     == [until : Nat, permanent : BOOLEAN, level : Nat]
Counter == [hits : Nat, last : Nat]
Offender == [level : Nat, count : Nat, last : Nat]
\* The part of config.AutoBan the engine obeys: the main switch, the ladder's
\* switch, and AllowIPs.
Settings == [enabled : BOOLEAN, ladder : BOOLEAN, allow : SUBSET IPs]
Task    == [pc : {"idle", "begun", "recorded", "evaluating"},
            at : Nat, ab : Settings, todo : SUBSET IPs]

ASSUME ConstantsAssumption ==
    /\ IPs \subseteq Nat /\ IsFiniteSet(IPs)
    /\ Rules \in Seq([window : Nat \ {0}, hits : Nat \ {0}, ban : Nat \ {0},
                      permanent : BOOLEAN])
    /\ Steps \in Seq(Nat \ {0}) /\ Len(Steps) > 0
    /\ Forever \in Nat \ {0} /\ Decay \in Nat \ {0} /\ Scale \in Nat \ {0}
    /\ MaxTracked \in Nat /\ MaxOffenders \in Nat \ {0}
    /\ EvictTarget \in Nat /\ EvictTarget < MaxOffenders
    /\ Exempt \subseteq IPs
    /\ ManualLengths \subseteq Nat
    /\ Configs \subseteq Settings
    /\ Scanner # Login
    /\ None \notin Callers
    /\ KindsOf \in [Callers -> SUBSET Kinds]
    /\ None \notin Ban /\ None \notin [Kinds -> Counter] /\ None \notin Offender
    /\ MaxTime \in Nat /\ MaxRecords \in Nat /\ MaxCount \in Nat
    /\ MaxLag \in Nat \ {0}

VARIABLES
    now,        \* the clock
    cfg,        \* the AutoBan settings in the configuration file
    bans,       \* e.bans
    events,     \* e.events
    offenders,  \* e.offenders, the escalation ledger
    mu,         \* who is inside evaluate()'s critical section, or None
    task,       \* the callers
    since,      \* history: offences recorded since the address was released
    fresh       \* history: addresses with an offence since their last ban

vars == <<now, cfg, bans, events, offenders, mu, task, since, fresh>>

------------------------------------------------------------------------------
(* Operators.                                                               *)

Active(b, t) == b.permanent \/ t < b.until

Banned(i, t) == bans[i] # None /\ Active(bans[i], t)

\* counter.value: linear decay over the rule's own window.
Value(c, t, w) ==
    IF c.last = 0 \/ t - c.last >= w THEN 0
    ELSE IF t - c.last <= 0 THEN c.hits
    ELSE (c.hits * (w - (t - c.last))) \div w

\* counter.add.
Add(c, t, w) == [hits |-> Value(c, t, w) + Scale, last |-> t]

\* int(value + 0.5).
Rounded(v) == (2 * v + Scale) \div (2 * Scale)

Fires(i, k, t) ==
    Rounded(Value(events[i][k], t, Rules[k].window)) >= Rules[k].hits

\* Rules are tried in order; the first that fires names the ban.
FiresFirst(i, k, t) ==
    Fires(i, k, t) /\ \A j \in Kinds : j < k => ~Fires(i, j, t)

Max0(v) == IF v < 0 THEN 0 ELSE v

\* decayedLevel: one step forgiven for each full period since the last ban.
DecayedLevel(o, t) ==
    IF o = None THEN 0
    ELSE IF t <= o.last THEN o.level
    ELSE Max0(o.level - ((t - o.last) \div Decay))

NextLevel(o, t) ==
    IF DecayedLevel(o, t) + 1 > Len(Steps) THEN Len(Steps)
    ELSE DecayedLevel(o, t) + 1

NewBan(t, d, perm, lvl) ==
    [until |-> t + d, permanent |-> perm, level |-> lvl]

\* nextBanLocked's answer: what ban rule k gives an address with record o.
Sentence(ladder, o, k, t) ==
    IF ~ladder THEN NewBan(t, Rules[k].ban, Rules[k].permanent, 0)
    ELSE IF Rules[k].permanent THEN NewBan(t, Forever, TRUE, NextLevel(o, t))
    ELSE NewBan(t, Steps[NextLevel(o, t)], Steps[NextLevel(o, t)] = Forever,
                NextLevel(o, t))

\* Mutant: a repeat offence is not counted.
EarnedUncounted(o, t) ==
    [level |-> NextLevel(o, t), count |-> IF o = None THEN 1 ELSE o.count, last |-> t]

\* ... and what it writes into the ledger.
Earned(o, t) ==
    [level |-> NextLevel(o, t),
     count |-> IF o = None THEN 1 ELSE o.count + 1,
     last  |-> t]

Ledger == {i \in IPs : offenders[i] # None}
Tracked == {i \in IPs : events[i] # None}

Worse(i, j, t) ==
    LET a == DecayedLevel(offenders[i], t)
        b == DecayedLevel(offenders[j], t)
    IN  a > b \/ (a = b /\ offenders[i].last >= offenders[j].last)

\* evictOffendersLocked: forgiven records go, then the lowest and oldest
\* until EvictTarget are left.  Ties fall either way (sort.Slice).
Kept(t) ==
    LET live == {i \in Ledger : DecayedLevel(offenders[i], t) > 0}
    IN  IF Cardinality(live) <= EvictTarget THEN {live}
        ELSE {kept \in SUBSET live :
                /\ Cardinality(kept) = EvictTarget
                /\ \A i \in kept, j \in live \ kept : Worse(i, j, t)}

\* Mutant: a full ledger takes the newcomer without making room.
LedgersOverfull(i, t, ladder) ==
    IF ~ladder THEN {offenders}
    ELSE {[offenders EXCEPT ![i] = Earned(offenders[i], t)]}

\* The ledger after address i is banned at t: one more conviction, with room
\* made for a newcomer when the ledger is full.
LedgersAfter(i, t, ladder) ==
    IF ~ladder THEN {offenders}
    ELSE IF offenders[i] # None \/ Cardinality(Ledger) < MaxOffenders
      THEN {[offenders EXCEPT ![i] = Earned(offenders[i], t)]}
    ELSE {[j \in IPs |-> IF j = i THEN Earned(None, t)
                         ELSE IF j \in kept THEN offenders[j] ELSE None] :
             kept \in Kept(t)}

------------------------------------------------------------------------------
DefaultSettings == [enabled |-> TRUE, ladder |-> TRUE, allow |-> {}]

Idle == [pc |-> "idle", at |-> 0, ab |-> DefaultSettings, todo |-> {}]

Init ==
    /\ now = 1
    /\ cfg = DefaultSettings
    /\ bans = [i \in IPs |-> None]
    /\ events = [i \in IPs |-> None]
    /\ offenders = [i \in IPs |-> None]
    /\ mu = None
    /\ task = [c \in Callers |-> Idle]
    /\ since = [i \in IPs |-> [k \in Kinds |-> 0]]
    /\ fresh = {}

\* Time passes.  A caller reads the clock once and lags it by at most MaxLag.
Tick ==
    /\ now < MaxTime
    /\ \A c \in Callers : task[c].pc # "idle" => now - task[c].at < MaxLag
    /\ now' = now + 1
    /\ UNCHANGED <<cfg, bans, events, offenders, mu, task, since, fresh>>

\* Scan() or RecordAuthFailure() starts: configuration and clock are read.
Begin(c) ==
    /\ task[c].pc = "idle"
    /\ cfg.enabled
    /\ task' = [task EXCEPT ![c] = [pc |-> "begun", at |-> now,
                                    ab |-> cfg, todo |-> {}]]
    /\ UNCHANGED <<now, cfg, bans, events, offenders, mu, since, fresh>>

Blank == [k \in Kinds |-> [hits |-> 0, last |-> 0]]

\* record(): one offence.  A new address is dropped when the map is full.
\* The login handler records once; a scan once per line it read.
Record(c, i, k) ==
    /\ mu = None
    /\ task[c].pc = "begun"
    /\ since[i][k] < MaxRecords
    /\ offenders[i] # None => offenders[i].count < MaxCount
    /\ task' = [task EXCEPT ![c].pc = IF c = Login THEN "recorded" ELSE "begun"]
    /\ IF events[i] = None /\ Cardinality(Tracked) >= MaxTracked
         THEN UNCHANGED <<events, since, fresh>>
         ELSE /\ events' = [events EXCEPT ![i] =
                    LET e == IF events[i] = None THEN Blank ELSE events[i]
                    IN  [e EXCEPT ![k] = Add(e[k], task[c].at, Rules[k].window)]]
              /\ since' = [since EXCEPT ![i] = [since[i] EXCEPT ![k] = since[i][k] + 1]]
              /\ fresh' = fresh \cup {i}
    /\ UNCHANGED <<now, cfg, bans, offenders, mu>>

\* evaluate() takes the lock and lists the tracked addresses.
StartEvaluate(c) ==
    /\ mu = None
    /\ task[c].pc = IF c = Login THEN "recorded" ELSE "begun"
    /\ mu' = c
    /\ task' = [task EXCEPT ![c].pc = "evaluating", ![c].todo = Tracked]
    /\ UNCHANGED <<now, cfg, bans, events, offenders, since, fresh>>

Next1(c, i) ==
    /\ task[c].pc = "evaluating"
    /\ i \in task[c].todo
    /\ \A j \in task[c].todo : i <= j
    /\ task' = [task EXCEPT ![c].todo = @ \ {i}]

IsAllowed(c, i) == i \in task[c].ab.allow \cup Exempt

\* An exempt address: its history is dropped.
SkipAllowed(c, i) ==
    /\ Next1(c, i)
    /\ IsAllowed(c, i)
    /\ events' = [events EXCEPT ![i] = None]
    /\ UNCHANGED <<now, cfg, bans, offenders, mu, since, fresh>>

\* Already banned, or under every threshold.
SkipQuiet(c, i) ==
    /\ Next1(c, i)
    /\ ~IsAllowed(c, i)
    /\ \/ Banned(i, task[c].at)
       \/ \A k \in Kinds : ~Fires(i, k, task[c].at)
    /\ UNCHANGED <<now, cfg, bans, events, offenders, mu, since, fresh>>

\* Mutant: an address already banned is judged again.
AutoBanAgain(c, i) ==
    LET t == task[c].at
    IN  /\ Next1(c, i)
        /\ ~IsAllowed(c, i)
        /\ \E k \in Kinds :
             /\ FiresFirst(i, k, t)
             /\ bans' = [bans EXCEPT ![i] =
                            Sentence(task[c].ab.ladder, offenders[i], k, t)]
        /\ offenders' \in LedgersAfter(i, t, task[c].ab.ladder)
        /\ fresh' = fresh \ {i}
        /\ UNCHANGED <<now, cfg, events, mu, since>>

\* Over a threshold: the ladder decides the length and the ledger records it.
AutoBan(c, i) ==
    LET t == task[c].at
    IN  /\ Next1(c, i)
        /\ ~IsAllowed(c, i)
        /\ ~Banned(i, t)
        /\ \E k \in Kinds :
             /\ FiresFirst(i, k, t)
             /\ bans' = [bans EXCEPT ![i] =
                            Sentence(task[c].ab.ladder, offenders[i], k, t)]
        /\ offenders' \in LedgersAfter(i, t, task[c].ab.ladder)
        /\ fresh' = fresh \ {i}
        /\ UNCHANGED <<now, cfg, events, mu, since>>

Live(e, t) ==
    \E k \in Kinds : 2 * Value(e[k], t, Rules[k].window) >= Scale

\* pruneOffendersLocked, pruneLocked, then the lock is released.
FinishEvaluate(c) ==
    LET t == task[c].at
        expired == {i \in IPs : bans[i] # None /\ ~Active(bans[i], t)}
    IN  /\ task[c].pc = "evaluating"
        /\ task[c].todo = {}
        /\ offenders' = [i \in IPs |->
             IF DecayedLevel(offenders[i], t) <= 0 THEN None ELSE offenders[i]]
        /\ bans' = [i \in IPs |-> IF i \in expired THEN None ELSE bans[i]]
        /\ events' = [i \in IPs |->
             IF events[i] = None \/ i \in expired \/ ~Live(events[i], t)
               THEN None ELSE events[i]]
        /\ mu' = None
        /\ task' = [task EXCEPT ![c] = Idle]
        /\ UNCHANGED <<now, cfg, since, fresh>>

------------------------------------------------------------------------------
(* What an operator does from the panel.                                    *)

ManualBan(i, d) ==
    /\ mu = None
    /\ bans' = [bans EXCEPT ![i] = NewBan(now, d, d = Forever, 0)]
    /\ UNCHANGED <<now, cfg, events, offenders, mu, task, since, fresh>>

\* Mutant: the address's history survives its release.
UnbanKeepsEvents(i) ==
    /\ mu = None
    /\ bans' = [bans EXCEPT ![i] = None]
    /\ since' = [since EXCEPT ![i] = [k \in Kinds |-> 0]]
    /\ UNCHANGED <<now, cfg, events, offenders, mu, task, fresh>>

\* Mutant: releasing an address also wipes its ladder record.
UnbanForgives(i) ==
    /\ mu = None
    /\ bans' = [bans EXCEPT ![i] = None]
    /\ events' = [events EXCEPT ![i] = None]
    /\ offenders' = [offenders EXCEPT ![i] = None]
    /\ since' = [since EXCEPT ![i] = [k \in Kinds |-> 0]]
    /\ UNCHANGED <<now, cfg, mu, task, fresh>>

Unban(i) ==
    /\ mu = None
    /\ bans' = [bans EXCEPT ![i] = None]
    /\ events' = [events EXCEPT ![i] = None]
    /\ since' = [since EXCEPT ![i] = [k \in Kinds |-> 0]]
    /\ UNCHANGED <<now, cfg, offenders, mu, task, fresh>>

\* Mutant: emptying the list leaves every history behind.
UnbanAllKeepsEvents ==
    /\ mu = None
    /\ bans' = [i \in IPs |-> None]
    /\ since' = [i \in IPs |-> [k \in Kinds |-> 0]]
    /\ UNCHANGED <<now, cfg, events, offenders, mu, task, fresh>>

\* Mutant: the list is dropped instead of emptied (a nil map in Go).
UnbanAllNil ==
    /\ mu = None
    /\ bans' = [i \in {} |-> None]
    /\ events' = [i \in IPs |-> None]
    /\ since' = [i \in IPs |-> [k \in Kinds |-> 0]]
    /\ UNCHANGED <<now, cfg, offenders, mu, task, fresh>>

UnbanAll ==
    /\ mu = None
    /\ bans' = [i \in IPs |-> None]
    /\ events' = [i \in IPs |-> None]
    /\ since' = [i \in IPs |-> [k \in Kinds |-> 0]]
    /\ UNCHANGED <<now, cfg, offenders, mu, task, fresh>>

ForgiveOffender(i) ==
    /\ mu = None
    /\ offenders[i] # None
    /\ offenders' = [offenders EXCEPT ![i] = None]
    /\ UNCHANGED <<now, cfg, bans, events, mu, task, since, fresh>>

ForgiveAll ==
    /\ mu = None
    /\ offenders' = [i \in IPs |-> None]
    /\ UNCHANGED <<now, cfg, bans, events, mu, task, since, fresh>>

\* handleSetAutoBan stores new settings; the engine is not told.
SetAutoBan(s) ==
    /\ cfg' = s
    /\ UNCHANGED <<now, bans, events, offenders, mu, task, since, fresh>>

Evaluating(c, i) == SkipAllowed(c, i) \/ SkipQuiet(c, i) \/ AutoBan(c, i)

Automatic ==
    \E c \in Callers :
        \/ Begin(c) \/ StartEvaluate(c) \/ FinishEvaluate(c)
        \/ \E i \in IPs : Evaluating(c, i) \/ \E k \in KindsOf[c] : Record(c, i, k)

Operator ==
    \/ \E i \in IPs : Unban(i) \/ ForgiveOffender(i)
                      \/ \E d \in ManualLengths : ManualBan(i, d)
    \/ UnbanAll \/ ForgiveAll
    \/ \E s \in Configs : SetAutoBan(s)

Next == Tick \/ Automatic \/ Operator

Spec == Init /\ [][Next]_vars

------------------------------------------------------------------------------
TypeOK ==
    /\ now \in Nat
    /\ cfg \in Settings
    /\ bans \in [IPs -> Ban \cup {None}]
    /\ events \in [IPs -> [Kinds -> Counter] \cup {None}]
    /\ offenders \in [IPs -> Offender \cup {None}]
    /\ mu \in Callers \cup {None}
    /\ task \in [Callers -> Task]
    /\ since \in [IPs -> [Kinds -> Nat]]
    /\ fresh \in SUBSET IPs

\* A ladder rung is earned one ban at a time (escalate.go:113): no address
\* sits on a rung higher than the number of bans it has received, none above
\* the last step, and a record with no rung is never kept.
RungsAreEarned ==
    \A i \in Ledger : /\ offenders[i].level \in 1..Len(Steps)
                      /\ offenders[i].level <= offenders[i].count

\* The decaying counters (banner.go:117) only ever forget: a counter never
\* shows more offences than were recorded since the address was released.
CountersNeverExaggerate ==
    \A i \in Tracked : \A k \in Kinds : events[i][k].hits <= Scale * since[i][k]

\* No address is banned on fewer offences than a rule's threshold since the
\* operator last released it, whatever a scan in flight still records
\* (Unban, banner.go:753: "forgets the address's history").
BanNeedsOffences ==
    [][\A c \in Callers, i \in IPs :
         AutoBan(c, i) => \E k \in Kinds : since[i][k] >= Rules[k].hits]_vars

\* The automatic side never shortens, replaces or drops a ban in force, even
\* though it decides with a clock reading taken before it got the lock.
ActiveBanStands ==
    [][Automatic => \A i \in IPs : Banned(i, now) => bans'[i] = bans[i]]_vars

Mercy(i) ==
    \/ ForgiveOffender(i) \/ ForgiveAll
    \/ /\ Cardinality(Ledger) >= MaxOffenders
       /\ \E c \in Callers, j \in IPs \ Ledger : AutoBan(c, j)

\* Forgetting is explicit (UnbanAll, banner.go:797): apart from the passing
\* of time, a full ledger and the two forgive buttons, nothing an operator or
\* the engine does lowers the rung an address stands on.
OnlyTimeAndMercyLowerARung ==
    [][\A i \in IPs : DecayedLevel(offenders'[i], now) < DecayedLevel(offenders[i], now)
                      => Mercy(i)]_vars

\* The memory bounds of banner.go:253 and escalate.go:56: neither the
\* counters nor the ledger outgrow their caps, however many addresses come.
MemoryBounded ==
    /\ Cardinality(Tracked) <= MaxTracked
    /\ Cardinality(Ledger) <= MaxOffenders

\* banner.go:639: history is cleared when a ban lapses, "or the address is
\* re-banned by the same old events the moment its ban lapses".  An automatic
\* ban therefore follows an offence newer than the previous ban.
NoBanOnOldEvents ==
    [][\A c \in Callers, i \in IPs : AutoBan(c, i) => i \in fresh]_vars
==============================================================================
