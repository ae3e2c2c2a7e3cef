----------------------------- MODULE BackupsProofs -----------------------------
(***************************************************************************)
(* Proofs about Backups, for any generations and counts, any settings,     *)
(* whether or not the disk fails, whatever the operator does by hand.      *)
(*                                                                         *)
(* What one pruning keeps is a fold, and the fold's invariant is proved by *)
(* least counterexample: were the set of sizes at which it fails not       *)
(* empty, it would have a smallest member, and the step to that size       *)
(* cannot fail.  What many prunings keep follows because a role among all  *)
(* archives is a role among those still on disk, and because two automatic *)
(* ones never bear the same second.                                        *)
(***************************************************************************)
EXTENDS Backups, FiniteSetTheorems, WellFoundedInduction, TLAPS

(***************************************************************************)
(* Keep.                                                                   *)
(***************************************************************************)
(* A nonempty set of naturals has a least element.                          *)
LEMMA LeastNatural ==
    ASSUME NEW T \in SUBSET Nat, T # {}
    PROVE  \E n \in T : \A m \in T : n <= m
<1>1. PICK n \in T : \A m \in T : ~(<<m, n>> \in OpToRel(<, Nat))
    BY NatLessThanWellFounded, WFMin, Zenon
<1>2. \A m \in T : ~(m < n)
    <2> TAKE m \in T
    <2>1. m \in Nat /\ n \in Nat
        OBVIOUS
    <2>2. m < n => <<m, n>> \in OpToRel(<, Nat)
        BY <2>1, Zenon DEF OpToRel
    <2> QED
        BY <1>1, <2>2, Zenon
<1> QED
    BY <1>2

Dated(A) == \A a \in A : a.at \in Nat

LEMMA OldestIsThere ==
    ASSUME NEW A, A # {}, Dated(A)
    PROVE  Oldest(A) \in A /\ \A b \in A : Oldest(A).at <= b.at
<1> DEFINE T == {a.at : a \in A}
<1>1. PICK n \in T : \A m \in T : n <= m
    BY LeastNatural DEF Dated
<1>2. \E a \in A : \A b \in A : a.at <= b.at
    BY <1>1
<1> QED
    BY <1>2 DEF Oldest

Step(f, u) == IF u = {} THEN Unsifted ELSE Sift(Oldest(u), f[u \ {Oldest(u)}])

(* Sifted, as the recursive function the fold stands for.                   *)
LEMMA SiftedIsChosen ==
    ASSUME NEW S
    PROVE  Sifted(S) = (CHOOSE f : f = [u \in SUBSET S |-> Step(f, u)])[S]
BY DEF Sifted, MapThenFoldSet, Step

LEMMA BucketsInOrder ==
    ASSUME NEW i \in Nat, NEW j \in Nat, i <= j, NEW k \in Nat \ {0}
    PROVE  i \div k \in Nat /\ i \div k <= j \div k
OBVIOUS
Small(S, n) == {u \in SUBSET S : Cardinality(u) <= n}
IsFold(f, S, n) == f = [u \in Small(S, n) |-> Step(f, u)]

LEMMA RestIsSmaller ==
    ASSUME NEW S, IsFiniteSet(S), Dated(S), NEW u \in SUBSET S, u # {}
    PROVE  /\ Oldest(u) \in u /\ u \ {Oldest(u)} \in SUBSET S
           /\ Cardinality(u) \in Nat /\ Cardinality(u) # 0
           /\ Cardinality(u \ {Oldest(u)}) = Cardinality(u) - 1
<1>1. IsFiniteSet(u) /\ Dated(u)
    BY FS_Subset DEF Dated
<1>2. Oldest(u) \in u
    BY <1>1, OldestIsThere
<1> QED
    BY <1>1, <1>2, FS_CardinalityType, FS_EmptySet, FS_RemoveElement

(* Such a function exists, on the subsets of every size.                    *)
LEMMA FoldsExist ==
    ASSUME NEW S, IsFiniteSet(S), Dated(S)
    PROVE  \A n \in Nat : \E f : IsFold(f, S, n)
<1> DEFINE T == {n \in Nat : ~ \E f : IsFold(f, S, n)}
<1> SUFFICES ASSUME T # {} PROVE FALSE
    OBVIOUS
<1>1. PICK n \in T : \A m \in T : n <= m
    BY LeastNatural
<1>2. CASE n = 0
    <2> DEFINE f == [u \in Small(S, 0) |-> Unsifted]
    <2>1. \A u \in Small(S, 0) : u = {}
        BY FS_Subset, FS_CardinalityType, FS_EmptySet DEF Small
    <2>2. IsFold(f, S, 0)
        BY <2>1 DEF IsFold, Step
    <2> QED
        BY <1>2, <2>2
<1>3. CASE n # 0
    <2>1. n - 1 \in Nat /\ n - 1 \notin T
        BY <1>1, <1>3
    <2>2. PICK g : IsFold(g, S, n - 1)
        BY <2>1
    <2> DEFINE f == [u \in Small(S, n) |-> Step(g, u)]
    <2>3. \A u \in Small(S, n - 1) : u \in Small(S, n) /\ f[u] = g[u]
        <3> TAKE u \in Small(S, n - 1)
        <3>1. Cardinality(u) \in Nat
            BY FS_Subset, FS_CardinalityType DEF Small
        <3>2. u \in Small(S, n)
            BY <3>1 DEF Small
        <3> QED
            BY <2>2, <3>2 DEF IsFold
    <2>4. \A u \in Small(S, n) : Step(g, u) = Step(f, u)
        <3> TAKE u \in Small(S, n)
        <3>1. CASE u = {}
            BY <3>1 DEF Step
        <3>2. CASE u # {}
            <4>1. u \ {Oldest(u)} \in Small(S, n - 1)
                BY <3>2, RestIsSmaller DEF Small
            <4>2. f[u \ {Oldest(u)}] = g[u \ {Oldest(u)}]
                BY <4>1, <2>3
            <4> HIDE DEF f
            <4> QED
                BY <3>2, <4>2 DEF Step
        <3> QED
            BY <3>1, <3>2
    <2>5. IsFold(f, S, n)
        BY <2>4 DEF IsFold
    <2> QED
        BY <2>5
<1> QED
    BY <1>2, <1>3

(* So the fold may be unfolded one archive at a time, the oldest first.     *)
LEMMA SiftedUnfolds ==
    ASSUME NEW S, IsFiniteSet(S), Dated(S)
    PROVE  \E f : Sifted(S) = f[S] /\ \A u \in SUBSET S : f[u] = Step(f, u)
<1>1. Cardinality(S) \in Nat /\ \A u \in SUBSET S : Cardinality(u) <= Cardinality(S)
    BY FS_CardinalityType, FS_Subset
<1>2. Small(S, Cardinality(S)) = SUBSET S
    BY <1>1 DEF Small
<1>3. \E f : f = [u \in SUBSET S |-> Step(f, u)]
    <2>1. PICK f : IsFold(f, S, Cardinality(S))
        BY <1>1, FoldsExist
    <2> QED
        BY <1>2, <2>1 DEF IsFold
<1> DEFINE h == CHOOSE f : f = [u \in SUBSET S |-> Step(f, u)]
<1>4. h = [u \in SUBSET S |-> Step(h, u)]
    BY <1>3
<1>5. Sifted(S) = h[S]
    BY SiftedIsChosen
<1> HIDE DEF h
<1> QED
    BY <1>4, <1>5

Autos(A) == A \ Manual(A)
Buckets(u, g) == {Bucket(b, g) : b \in u}
Later(a, g, u) == {Bucket(b, g) : b \in {c \in u : Bucket(c, g) > Bucket(a, g)}}
Newer(a, g, u) == \A b \in u : Bucket(b, g) = Bucket(a, g) => b.at <= a.at
Untied(u) == \A a, b \in u : a.at = b.at => a = b

(* HasARole, one generation at a time.                                      *)
LEMMA RoleOf ==
    ASSUME NEW A, NEW a
    PROVE  HasARole(a, A) <=> \E g \in Generations :
               Newer(a, g, Autos(A)) /\ Cardinality(Later(a, g, Autos(A))) < Counts[g]
BY DEF HasARole, Newer, Later, Autos

LEMMA BucketsFinite ==
    ASSUME NEW u, IsFiniteSet(u), NEW g, NEW v \in SUBSET Buckets(u, g)
    PROVE  IsFiniteSet(v) /\ Cardinality(v) \in Nat
<1>1. [b \in u |-> Bucket(b, g)] \in Surjection(u, Buckets(u, g))
    BY DEF Surjection, Buckets
<1>2. IsFiniteSet(Buckets(u, g))
    BY <1>1, FS_Surjection
<1> QED
    BY <1>2, FS_Subset, FS_CardinalityType

(* What sifting has done when it has gone through u.                        *)
SiftedWell(r, u) ==
    /\ \A g \in Generations :
          /\ r.seen[g] \subseteq Buckets(u, g)
          /\ Cardinality(r.seen[g]) < Counts[g] => r.seen[g] = Buckets(u, g)
    /\ \A a \in u, g \in Generations :
          Newer(a, g, u) /\ Cardinality(Later(a, g, u)) < Counts[g] => a \in r.keep

(* One archive more.                                                        *)
LEMMA SiftingKeeps ==
    ASSUME NEW u, IsFiniteSet(u), Dated(u), Untied(u), u # {},
           NEW r, SiftedWell(r, u \ {Oldest(u)})
    PROVE  SiftedWell(Sift(Oldest(u), r), u)
<1> DEFINE x == Oldest(u)
           v == u \ {x}
           s == Sift(x, r)
           takers == Takers(x, r.seen)
<1>1. x \in u /\ (\A b \in u : x.at <= b.at) /\ IsFiniteSet(v)
    BY OldestIsThere, FS_RemoveElement
<1>2. /\ s.keep = IF takers # {} THEN r.keep \cup {x} ELSE r.keep
      /\ \A g \in Generations :
            s.seen[g] = IF g \in takers THEN r.seen[g] \cup {Bucket(x, g)} ELSE r.seen[g]
    BY DEF Sift
<1>3. \A g : Buckets(u, g) = Buckets(v, g) \cup {Bucket(x, g)}
    BY <1>1 DEF Buckets
<1>4. \A g \in Generations : g \in takers <=>
          Bucket(x, g) \notin r.seen[g] /\ Cardinality(r.seen[g]) < Counts[g]
    BY DEF Takers
<1>5. ASSUME NEW g \in Generations
      PROVE  /\ s.seen[g] \subseteq Buckets(u, g)
             /\ Cardinality(s.seen[g]) < Counts[g] => s.seen[g] = Buckets(u, g)
    <2> HIDE DEF s, x, v, takers
    <2>1. /\ r.seen[g] \subseteq Buckets(v, g)
          /\ Cardinality(r.seen[g]) < Counts[g] => r.seen[g] = Buckets(v, g)
        BY DEF SiftedWell, v, x
    <2>2. CASE g \in takers
        BY <1>2, <1>3, <1>4, <2>1, <2>2
    <2>3. CASE g \notin takers
        <3>1. s.seen[g] = r.seen[g] /\ Buckets(u, g) = Buckets(v, g) \cup {Bucket(x, g)}
            BY <1>2, <1>3, <2>3
        <3>2. Cardinality(r.seen[g]) < Counts[g] => Bucket(x, g) \in r.seen[g]
            BY <1>4, <2>3
        <3> QED
            BY <2>1, <3>1, <3>2
    <2> QED
        BY <2>2, <2>3
<1>6. ASSUME NEW a \in u, NEW g \in Generations,
             Newer(a, g, u), Cardinality(Later(a, g, u)) < Counts[g]
      PROVE  a \in s.keep
    <2>0. Later(a, g, v) \subseteq Later(a, g, u) /\ Later(a, g, u) \subseteq Buckets(u, g)
        BY DEF Later, Buckets
    <2>1. CASE a # x
        <3>1. Newer(a, g, v) /\ Cardinality(Later(a, g, v)) < Counts[g]
            <4>1. Cardinality(Later(a, g, v)) <= Cardinality(Later(a, g, u))
                BY <2>0, BucketsFinite, FS_Subset
            <4>2. Cardinality(Later(a, g, v)) \in Nat /\ Cardinality(Later(a, g, u)) \in Nat
                BY <2>0, BucketsFinite
            <4>3. Counts[g] \in Nat
                BY BackupsAssumption DEF Generations
            <4>4. Newer(a, g, v)
                BY <1>6 DEF Newer
            <4> QED
                BY <1>6, <4>1, <4>2, <4>3, <4>4
        <3>2. a \in r.keep
            BY <2>1, <3>1 DEF SiftedWell
        <3> HIDE DEF s, x, v, takers
        <3> QED
            BY <1>2, <3>2
    <2>2. CASE a = x
        <3>1. \A b \in v : Bucket(b, g) > Bucket(x, g)
            <4> TAKE b \in v
            <4>1. x.at \in Nat /\ b.at \in Nat /\ x.at <= b.at /\ x.at # b.at
                BY <1>1 DEF Dated, Untied
            <4>2. Length[g] \in Nat \ {0}
                BY BackupsAssumption DEF Generations
            <4>3. Bucket(x, g) \in Nat /\ Bucket(b, g) \in Nat /\ Bucket(x, g) <= Bucket(b, g)
                BY <4>1, <4>2, BucketsInOrder DEF Bucket
            <4>4. Bucket(x, g) # Bucket(b, g)
                <5> HIDE DEF x
                <5> QED BY <1>6, <2>2, <4>1 DEF Newer
            <4> QED
                BY <4>3, <4>4
        <3>2. Buckets(v, g) \subseteq Later(x, g, u)
            BY <3>1 DEF Buckets, Later
        <3>3. Bucket(x, g) \notin Buckets(v, g)
            <4>1. SUFFICES ASSUME NEW b \in v, Bucket(b, g) = Bucket(x, g) PROVE FALSE
                BY DEF Buckets
            <4>2. x.at \in Nat /\ b.at \in Nat /\ x.at <= b.at /\ x.at # b.at
                BY <1>1 DEF Dated, Untied
            <4> HIDE DEF x
            <4> QED
                BY <1>6, <2>2, <4>1, <4>2 DEF Newer
        <3>4. r.seen[g] \subseteq Buckets(v, g)
            BY DEF SiftedWell
        <3>5. Cardinality(r.seen[g]) <= Cardinality(Later(x, g, u))
            BY <2>0, <2>2, <3>2, <3>4, BucketsFinite, FS_Subset
        <3>6. Cardinality(r.seen[g]) \in Nat /\ Cardinality(Later(x, g, u)) \in Nat
            BY <1>1, <2>0, <2>2, <3>4, BucketsFinite
        <3>7. Counts[g] \in Nat
            BY BackupsAssumption DEF Generations
        <3> HIDE DEF s, x, v, takers
        <3>8. g \in takers
            BY <1>4, <1>6, <2>2, <3>3, <3>4, <3>5, <3>6, <3>7
        <3> QED
            BY <1>2, <2>2, <3>8
    <2> QED
        BY <2>1, <2>2
<1> HIDE DEF s, x
<1> QED
    BY <1>5, <1>6 DEF SiftedWell, s, x

(* And so the whole fold.                                                   *)
LEMMA SiftedIsWell ==
    ASSUME NEW S, IsFiniteSet(S), Dated(S), Untied(S)
    PROVE  SiftedWell(Sifted(S), S)
<1>1. PICK f : Sifted(S) = f[S] /\ \A u \in SUBSET S : f[u] = Step(f, u)
    BY SiftedUnfolds
<1> DEFINE Bad == {u \in SUBSET S : ~SiftedWell(f[u], u)}
           T == {Cardinality(u) : u \in Bad}
<1> SUFFICES ASSUME Bad # {} PROVE FALSE
    BY <1>1
<1>2. T \in SUBSET Nat /\ T # {}
    BY FS_Subset, FS_CardinalityType
<1>3. PICK u \in Bad : \A v \in Bad : Cardinality(u) <= Cardinality(v)
    <2>1. PICK n \in T : \A m \in T : n <= m
        BY <1>2, LeastNatural
    <2> QED
        BY <2>1
<1>4. IsFiniteSet(u) /\ Dated(u) /\ Untied(u)
    BY FS_Subset DEF Dated, Untied
<1>5. CASE u = {}
    <2>1. f[u] = Unsifted
        BY <1>1, <1>5 DEF Step
    <2>2. \A g \in Generations : Unsifted.seen[g] = {} /\ Buckets({}, g) = {}
        BY DEF Unsifted, Buckets
    <2> QED
        BY <1>5, <2>1, <2>2 DEF SiftedWell
<1>6. CASE u # {}
    <2> DEFINE v == u \ {Oldest(u)}
    <2>1. v \in SUBSET S /\ Cardinality(u) \in Nat /\ Cardinality(v) = Cardinality(u) - 1
        BY <1>6, RestIsSmaller
    <2>2. v \notin Bad
        BY <1>3, <2>1
    <2>3. SiftedWell(f[v], v)
        BY <2>1, <2>2
    <2>4. f[u] = Sift(Oldest(u), f[v])
        BY <1>1, <1>6 DEF Step
    <2> QED
        BY <1>4, <1>6, <2>3, <2>4, SiftingKeeps
<1> QED
    BY <1>5, <1>6

(* retention.go:68: whatever archives there are, no two automatic ones of   *)
(* the same second, Keep returns every manual one, and every one that is    *)
(* the newest of a bucket still within its generation's count.              *)
THEOREM KeepFollowsThePolicy ==
    ASSUME NEW A, IsFiniteSet(A), Dated(A), Untied(Autos(A)),
           NEW a \in A, a.label = "manual" \/ HasARole(a, A)
    PROVE  a \in Keep(A)
<1>1. CASE a \in Manual(A)
    BY <1>1 DEF Keep
<1>2. CASE a \notin Manual(A)
    <2>1. IsFiniteSet(Autos(A)) /\ Dated(Autos(A)) /\ a \in Autos(A) /\ HasARole(a, A)
        BY <1>2, FS_Subset DEF Autos, Manual, Dated
    <2>2. PICK g \in Generations :
              Newer(a, g, Autos(A)) /\ Cardinality(Later(a, g, Autos(A))) < Counts[g]
        BY <2>1, RoleOf
    <2>3. SiftedWell(Sifted(Autos(A)), Autos(A))
        BY <2>1, SiftedIsWell
    <2>4. a \in Sifted(Autos(A)).keep
        BY <2>1, <2>2, <2>3 DEF SiftedWell
    <2> QED
        BY <2>4 DEF Keep, Autos
<1> QED
    BY <1>1, <1>2

(***************************************************************************)
(* Types.                                                                  *)
(***************************************************************************)
Configs == {c \in [backup : BackupSettings, last : Nat \cup {Never}, edits : Nat] : Valid(c.backup)}
Written == [at : Nat, label : {"hourly", "manual"}, pass : Passes, config : Configs, bans : Nat]
Stages == {"idle", "read", "store", "prune", "send", "put", "state"}
AllParts == {{"config"}, {"state"}, {"config", "state"}}
Jobs == [stage : Stages, offsite : BOOLEAN, arch : Written \cup {NoArchive},
         from : Written \cup {NoArchive}, parts : {{}} \cup AllParts, pass : Passes]

StateTyped ==
    /\ clock \in Nat /\ tick \in Nat /\ config \in Configs
    /\ banList \in Nat /\ bansFile \in Nat
    /\ lastTry \in Nat \cup {Never} /\ noted \in BOOLEAN
ShelfTyped ==
    /\ taken \subseteq Written /\ IsFiniteSet(taken) /\ archives \subseteq taken
    /\ \A a \in taken : a.at <= clock
    /\ \A a, b \in archives : SameName(a, b) => a = b
JobsTyped ==
    /\ job \in [Makers -> Jobs]
    /\ \A p \in Makers : job[p].stage \in Stages \ {"idle", "read"} =>
          job[p].arch \in Written /\ job[p].arch.label = Label(p)
    /\ \A p \in Makers : job[p].stage \in {"put", "state"} => p = "restore"
    /\ job["restore"].stage # "idle" => job["restore"].from \in Written
FiringKnown ==
    /\ job["schedule"].stage # "idle" => lastTry \in Nat
    /\ noted => lastTry \in Nat /\ config.last = lastTry

TypeIInv == StateTyped /\ ShelfTyped /\ JobsTyped /\ FiringKnown

LEMMA TypesInit == BackupInit => TypeIInv
<1> SUFFICES ASSUME BackupInit PROVE TypeIInv
    OBVIOUS
<1> USE DEF BackupInit
<1>1. StateTyped
    BY BackupsAssumption DEF StateTyped, FirstConfig, Configs, Never
<1>2. ShelfTyped
    BY FS_EmptySet DEF ShelfTyped
<1>3. JobsTyped
    <2>1. NoWork \in Jobs
        <3>1. "" \in Passes /\ NoArchive \in Written \cup {NoArchive} /\ "idle" \in Stages
            BY DEF Stages, Passes
        <3> HIDE DEF BackupInit
        <3> QED
            BY <3>1 DEF Jobs, NoWork
    <2>2. \A p \in Makers : job[p] = NoWork
        OBVIOUS
    <2>3. NoWork.stage = "idle" /\ "restore" \in Makers
        BY DEF NoWork, Makers
    <2> QED
        BY <2>1, <2>2, <2>3 DEF JobsTyped
<1>4. FiringKnown
    BY DEF FiringKnown, NoWork, Makers
<1> QED
    BY <1>1, <1>2, <1>3, <1>4 DEF TypeIInv

LEMMA NextTickIsLater ==
    ASSUME tick \in Nat, clock \in Nat, clock >= tick
    PROVE  NextTick \in Nat /\ NextTick >= tick + Minute
<1>1. Minute \in Nat \ {0} /\ clock - tick \in Nat
    BY BackupsAssumption
<1>2. (clock - tick) \div Minute \in Nat
    BY <1>1, BucketsInOrder
<1>3. \A k \in Nat : Minute * (k + 1) \in Nat /\ Minute * (k + 1) >= Minute
    BY <1>1
<1> QED
    BY <1>1, <1>2, <1>3 DEF NextTick

LEMMA Splits ==
    ASSUME [BackupNext]_backupVars
    PROVE  \/ Clock \/ TickIdle \/ Fire \/ Edit \/ RunNow \/ PutConfig \/ RollBack \/ PutState
           \/ BansChange \/ SaveBans \/ Restart
           \/ \E p \in Makers : ReadFiles(p) \/ Store(p) \/ MakingFails(p) \/ Prune(p) \/ Send(p)
           \/ \E b \in Forms : SetBackup(b)
           \/ \E a \in archives : Delete(a)
           \/ \E a \in archives, pass \in Passes, parts \in AllParts : Restore(a, pass, parts)
           \/ UNCHANGED backupVars
BY DEF BackupNext, Progress, AllParts

LEMMA StateKept ==
    ASSUME TypeIInv, [BackupNext]_backupVars
    PROVE  StateTyped'
<1> USE DEF TypeIInv, StateTyped
<1>1. CASE Clock
    BY <1>1 DEF Clock, ghosts
<1>2. CASE TickIdle
    BY <1>2, NextTickIsLater DEF TickIdle, ghosts
<1>3. CASE Fire
    <2>1. NextTick \in Nat
        BY <1>3, NextTickIsLater DEF Fire
    <2>2. [config EXCEPT !.last = clock] \in Configs
        BY DEF Configs
    <2> QED
        BY <1>3, <2>1, <2>2 DEF Fire
<1>4. CASE Edit
    <2>1. [config EXCEPT !.edits = @ + 1] \in Configs
        BY DEF Configs
    <2> QED
        BY <1>4, <2>1 DEF Edit, ghosts
<1>5. ASSUME NEW b \in Forms, SetBackup(b) PROVE StateTyped'
    <2>1. b \in BackupSettings /\ config.backup \in BackupSettings
        BY BackupsAssumption DEF Configs
    <2>2. Merged(b) \in BackupSettings /\ Valid(Merged(b))
        BY <1>5, <2>1 DEF Merged, BackupSettings, SetBackup
    <2> DEFINE n == config.edits + 1
           c == [config EXCEPT !.backup = Merged(b), !.edits = n]
    <2>3. config \in [backup : BackupSettings, last : Nat \cup {Never}, edits : Nat] /\ n \in Nat
        BY DEF Configs
    <2>4. /\ c.backup = Merged(b)
          /\ c \in [backup : BackupSettings, last : Nat \cup {Never}, edits : Nat]
        <3> HIDE DEF n, StateTyped
        <3> QED
            BY <2>2, <2>3
    <2>5. c \in Configs
        BY <2>2, <2>3, <2>4, Zenon DEF Configs
    <2> HIDE DEF c
    <2> QED
        BY <1>5, <2>5 DEF SetBackup, c, n
<1>6. CASE PutConfig
    <2>1. job["restore"].from \in Written
        BY <1>6 DEF PutConfig, At, JobsTyped
    <2>2. job["restore"].from.config \in Configs
        BY <2>1 DEF Written
    <2> QED
        BY <1>6, <2>2 DEF PutConfig
<1>7. CASE RollBack
    <2>1. job["restore"].arch \in Written
        BY <1>7 DEF RollBack, At, JobsTyped, Makers, Stages
    <2>2. job["restore"].arch.config \in Configs
        BY <2>1 DEF Written
    <2> QED
        BY <1>7, <2>2 DEF RollBack
<1>8. CASE PutState
    <2>1. job["restore"].from \in Written
        BY <1>8 DEF PutState, At, JobsTyped
    <2>2. job["restore"].from.bans \in Nat
        BY <2>1 DEF Written
    <2> QED
        BY <1>8, <2>2 DEF PutState
<1>9. CASE BansChange
    BY <1>9 DEF BansChange
<1>10. CASE SaveBans \/ RunNow
    BY <1>10 DEF SaveBans, RunNow, ghosts
<1>11. CASE Restart
    BY <1>11, BackupsAssumption DEF Restart, ghosts
<1>12. ASSUME NEW p \in Makers, ReadFiles(p) \/ Store(p) \/ MakingFails(p) \/ Prune(p) \/ Send(p)
       PROVE  StateTyped'
    BY <1>12 DEF ReadFiles, Store, MakingFails, Prune, Send, ghosts
<1>13. ASSUME NEW a \in archives, Delete(a) PROVE StateTyped'
    BY <1>13 DEF Delete
<1>14. ASSUME NEW a \in archives, NEW pass \in Passes, NEW parts \in AllParts, Restore(a, pass, parts)
       PROVE  StateTyped'
    BY <1>14 DEF Restore, ghosts
<1>15. CASE UNCHANGED backupVars
    BY <1>15 DEF backupVars
<1> QED
    BY <1>1, <1>2, <1>3, <1>4, <1>5, <1>6, <1>7, <1>8, <1>9, <1>10, <1>11, <1>12, <1>13, <1>14,
       <1>15, Splits

LEMMA NoWorkIsAJob == NoWork \in Jobs /\ NoWork.stage = "idle"
<1>1. "" \in Passes /\ NoArchive \in Written \cup {NoArchive} /\ "idle" \in Stages
    BY DEF Stages, Passes
<1> QED
    BY <1>1 DEF Jobs, NoWork

JobSound(p, j) ==
    /\ j \in Jobs
    /\ j.stage \in Stages \ {"idle", "read"} => j.arch \in Written /\ j.arch.label = Label(p)
    /\ j.stage \in {"put", "state"} => p = "restore"
    /\ p = "restore" /\ j.stage # "idle" => j.from \in Written

LEMMA JobStep ==
    ASSUME JobsTyped, NEW p \in Makers, NEW j, JobSound(p, j), job' = [job EXCEPT ![p] = j]
    PROVE  JobsTyped'
<1>1. \A q \in Makers : job'[q] = IF q = p THEN j ELSE job[q]
    BY DEF JobsTyped
<1>2. job' \in [Makers -> Jobs] /\ "restore" \in Makers
    BY DEF JobsTyped, JobSound, Makers
<1> QED
    BY <1>1, <1>2 DEF JobsTyped, JobSound

LEMMA ArchiveIsWritten ==
    ASSUME TypeIInv, NEW p
    PROVE  Archive(clock, Label(p), config.backup) \in Written
<1>1. config \in Configs /\ config.backup \in BackupSettings
    BY DEF TypeIInv, StateTyped, Configs
<1>2. Label(p) \in {"hourly", "manual"}
    BY DEF Label
<1>3. (IF config.backup.encrypt THEN config.backup.pass ELSE "") \in Passes
    BY <1>1 DEF BackupSettings, Passes
<1> QED
    BY <1>1, <1>2, <1>3 DEF Archive, Written, TypeIInv, StateTyped

LEMMA JobsKept ==
    ASSUME TypeIInv, [BackupNext]_backupVars
    PROVE  JobsTyped'
<1>0. JobsTyped /\ job \in [Makers -> Jobs] /\ {"schedule", "panel", "restore"} = Makers
    BY DEF TypeIInv, JobsTyped, Makers
<1>1. CASE UNCHANGED job
    BY <1>0, <1>1 DEF JobsTyped
<1>2. CASE Fire
    <2> DEFINE j == [NoWork EXCEPT !.stage = "read", !.offsite = config.backup.offsite]
    <2>1. config.backup.offsite \in BOOLEAN
        BY DEF TypeIInv, StateTyped, Configs, BackupSettings
    <2>2. JobSound("schedule", j)
        <3> HIDE DEF TypeIInv
        <3>1. j \in Jobs /\ j.stage = "read"
            BY <2>1, NoWorkIsAJob DEF Jobs, Stages
        <3> QED
            BY <3>1 DEF JobSound
    <2> QED
        BY <1>0, <1>2, <2>2, JobStep DEF Fire
<1>3. ASSUME NEW p \in Makers, ReadFiles(p) PROVE JobsTyped'
    <2> DEFINE a == Archive(clock, Label(p), config.backup)
               j == [job[p] EXCEPT !.stage = "store", !.arch = a]
    <2>1. a \in Written /\ a.label = Label(p)
        BY ArchiveIsWritten DEF Archive
    <2>2. job[p] \in Jobs /\ job[p].stage = "read"
        BY <1>0, <1>3 DEF ReadFiles, At
    <2>3. j \in Jobs /\ j.stage = "store" /\ j.arch = a /\ j.from = job[p].from
        <3> HIDE DEF a
        <3> QED
            BY <2>1, <2>2 DEF Jobs, Stages
    <2>4. p = "restore" => job[p].from \in Written
        BY <1>0, <2>2 DEF JobsTyped
    <2>5. JobSound(p, j)
        <3> HIDE DEF a, j
        <3> QED
            BY <2>1, <2>3, <2>4 DEF JobSound
    <2>6. job' = [job EXCEPT ![p] = j]
        BY <1>0, <1>3 DEF ReadFiles
    <2> QED
        BY <1>0, <2>5, <2>6, JobStep
<1>4. ASSUME NEW p \in Makers, Store(p) PROVE JobsTyped'
    <2> DEFINE a == [job[p].arch EXCEPT !.at = clock]
               j == [job[p] EXCEPT !.arch = a, !.stage = AfterStore(p)]
    <2>1. job[p] \in Jobs /\ job[p].stage = "store" /\ job[p].arch \in Written
          /\ job[p].arch.label = Label(p)
        BY <1>0, <1>4 DEF Store, At, JobsTyped, Stages
    <2>2. a \in Written /\ a.label = Label(p)
        BY <2>1 DEF Written, TypeIInv, StateTyped
    <2>3. AfterStore(p) \in {"prune", "put", "state"} /\ (AfterStore(p) # "prune" => p = "restore")
        BY DEF AfterStore
    <2>4. j \in Jobs /\ j.stage = AfterStore(p) /\ j.arch = a /\ j.from = job[p].from
        <3> HIDE DEF a
        <3> QED
            BY <2>1, <2>2, <2>3 DEF Jobs, Stages
    <2>5. p = "restore" => job[p].from \in Written
        BY <1>0, <2>1 DEF JobsTyped
    <2>6. JobSound(p, j)
        <3> HIDE DEF a, j
        <3> QED
            BY <2>2, <2>3, <2>4, <2>5 DEF JobSound
    <2>7. job' = [job EXCEPT ![p] = j]
        BY <1>0, <1>4 DEF Store
    <2> QED
        BY <1>0, <2>6, <2>7, JobStep
<1>5. ASSUME NEW p \in Makers, Ends(p) PROVE JobsTyped'
    <2>1. JobSound(p, NoWork)
        BY NoWorkIsAJob DEF JobSound
    <2> QED
        BY <1>0, <1>5, <2>1, JobStep DEF Ends
<1>6. ASSUME NEW p \in Makers, NEW stage, Goto(p, stage),
             \/ stage = "send" /\ job[p].stage = "prune"
             \/ stage = "read" /\ p = "panel"
             \/ stage = "state" /\ job[p].stage = "put"
      PROVE  JobsTyped'
    <2> DEFINE j == [job[p] EXCEPT !.stage = stage]
    <2>1. job[p] \in Jobs
        BY <1>0
    <2>2. j \in Jobs /\ j.stage = stage /\ j.arch = job[p].arch /\ j.from = job[p].from
        BY <1>6, <2>1 DEF Jobs, Stages
    <2>3. JobSound(p, job[p])
        BY <1>0 DEF JobsTyped, JobSound
    <2>4. JobSound(p, j)
        <3> HIDE DEF j
        <3> QED
            BY <1>6, <2>2, <2>3 DEF JobSound, Stages
    <2>5. job' = [job EXCEPT ![p] = j]
        BY <1>0, <1>6 DEF Goto
    <2> QED
        BY <1>0, <2>4, <2>5, JobStep
<1>7. ASSUME NEW a \in archives, NEW pass \in Passes, NEW parts \in AllParts, Restore(a, pass, parts)
      PROVE  JobsTyped'
    <2> DEFINE j == [NoWork EXCEPT !.stage = "read", !.from = a, !.parts = parts,
                                   !.pass = config.backup.pass]
    <2>1. a \in Written /\ config.backup.pass \in Passes
        BY DEF TypeIInv, StateTyped, ShelfTyped, Configs, BackupSettings
    <2>2. JobSound("restore", j)
        <3>1. j \in Jobs /\ j.stage = "read" /\ j.from = a
            BY <2>1, NoWorkIsAJob DEF Jobs, Stages
        <3> HIDE DEF j
        <3> QED
            BY <2>1, <3>1 DEF JobSound
    <2> QED
        BY <1>0, <1>7, <2>2, JobStep DEF Restore
<1>8. CASE Restart
    BY <1>0, <1>8, NoWorkIsAJob DEF Restart, JobsTyped
<1> QED
    BY <1>0, <1>1, <1>2, <1>3, <1>4, <1>5, <1>6, <1>7, <1>8, Splits
    DEF Clock, TickIdle, MakingFails, Prune, Send, SetBackup, Edit, RunNow, Delete, PutConfig,
        RollBack, PutState, BansChange, SaveBans, At, backupVars

LEMMA ShelfKept ==
    ASSUME TypeIInv, [BackupNext]_backupVars
    PROVE  ShelfTyped'
<1>0. ShelfTyped /\ clock \in Nat
    BY DEF TypeIInv, StateTyped
<1>1. CASE UNCHANGED <<archives, taken, clock>>
    BY <1>0, <1>1 DEF ShelfTyped
<1>2. CASE Clock
    <2>1. \A a \in taken : a.at \in Nat
        BY <1>0 DEF ShelfTyped, Written
    <2> QED
        BY <1>0, <1>2, <2>1 DEF Clock, ghosts, ShelfTyped
<1>3. ASSUME NEW p \in Makers, Store(p) PROVE ShelfTyped'
    <2> DEFINE a == [job[p].arch EXCEPT !.at = clock]
    <2>1. job[p].arch \in Written
        BY <1>3 DEF Store, At, TypeIInv, JobsTyped, Stages
    <2>2. a \in Written /\ a.at = clock
        BY <1>0, <2>1 DEF Written
    <2>3. archives' = Put(archives, a) /\ taken' = Put(taken, a) /\ clock' = clock
        BY <1>3 DEF Store
    <2> HIDE DEF a
    <2>4. IsFiniteSet(taken')
        <3>1. {b \in taken : ~SameName(a, b)} \in SUBSET taken
            OBVIOUS
        <3>2. IsFiniteSet({b \in taken : ~SameName(a, b)})
            BY <1>0, <3>1, FS_Subset DEF ShelfTyped
        <3> QED
            BY <2>3, <3>2, FS_AddElement DEF Put
    <2>5. \A b, c \in archives' : SameName(b, c) => b = c
        BY <1>0, <2>3 DEF ShelfTyped, Put, SameName
    <2> QED
        BY <1>0, <2>2, <2>3, <2>4, <2>5 DEF ShelfTyped, Put
<1>4. CASE /\ archives' \subseteq archives /\ UNCHANGED <<taken, clock>>
    BY <1>0, <1>4 DEF ShelfTyped
<1>5. ASSUME NEW p \in Makers, Prune(p) PROVE archives' \subseteq archives /\ UNCHANGED <<taken, clock>>
    BY <1>5 DEF Prune, ghosts
<1>6. ASSUME NEW a \in archives, Delete(a)
      PROVE  archives' \subseteq archives /\ UNCHANGED <<taken, clock>>
    BY <1>6 DEF Delete
<1> QED
    BY <1>1, <1>2, <1>3, <1>4, <1>5, <1>6, Splits
    DEF TickIdle, Fire, ReadFiles, MakingFails, Send, SetBackup, Edit, RunNow, Restore, PutConfig,
        RollBack, PutState, BansChange, SaveBans, Restart, ghosts, backupVars

LEMMA FiringKept ==
    ASSUME TypeIInv, [BackupNext]_backupVars
    PROVE  FiringKnown'
<1>0. /\ FiringKnown /\ job \in [Makers -> Jobs] /\ {"schedule", "panel", "restore"} = Makers
      /\ clock \in Nat /\ config \in Configs /\ NoWork.stage = "idle"
    BY NoWorkIsAJob DEF TypeIInv, StateTyped, JobsTyped, Makers
<1>1. CASE Fire
    <2>1. \/ config' = [config EXCEPT !.last = clock] /\ noted'
          \/ ~noted'
        BY <1>1 DEF Fire
    <2> QED
        BY <1>0, <1>1, <2>1 DEF Fire, FiringKnown, Configs
<1>2. CASE /\ UNCHANGED <<lastTry, noted>> /\ config'.last = config.last
           /\ job'["schedule"].stage # "idle" => job["schedule"].stage # "idle"
    BY <1>0, <1>2 DEF FiringKnown
<1>3. CASE /\ UNCHANGED lastTry /\ noted' = FALSE
           /\ job'["schedule"].stage # "idle" => job["schedule"].stage # "idle"
    BY <1>0, <1>3 DEF FiringKnown
<1>4. ASSUME NEW p \in Makers, ReadFiles(p) \/ Store(p) \/ Prune(p)
      PROVE  /\ UNCHANGED <<lastTry, noted>> /\ config'.last = config.last
             /\ job'["schedule"].stage # "idle" => job["schedule"].stage # "idle"
    BY <1>0, <1>4 DEF ReadFiles, Store, Prune, At, Goto, ghosts
<1>5. ASSUME NEW p \in Makers, MakingFails(p) \/ Send(p)
      PROVE  /\ UNCHANGED <<lastTry, noted>> /\ config'.last = config.last
             /\ job'["schedule"].stage # "idle" => job["schedule"].stage # "idle"
    BY <1>0, <1>5 DEF MakingFails, Send, Ends, ghosts
<1>6. ASSUME Clock \/ TickIdle \/ BansChange \/ SaveBans \/ (\E a \in archives : Delete(a))
             \/ UNCHANGED backupVars
      PROVE  UNCHANGED <<lastTry, noted, config, job>>
    BY <1>6 DEF Clock, TickIdle, BansChange, SaveBans, Delete, ghosts, backupVars
<1>7. ASSUME RunNow \/ PutState \/ Restart
             \/ \E a \in archives, pass \in Passes, parts \in AllParts : Restore(a, pass, parts)
      PROVE  /\ UNCHANGED <<lastTry, noted, config>>
             /\ job'["schedule"].stage # "idle" => job["schedule"].stage # "idle"
    BY <1>0, <1>7 DEF RunNow, PutState, Restart, Restore, Goto, Ends, ghosts
<1>8. ASSUME Edit PROVE config'.last = config.last /\ UNCHANGED <<lastTry, noted, job>>
    BY <1>0, <1>8 DEF Edit, ghosts, Configs
<1>9. ASSUME PutConfig \/ RollBack \/ (\E b \in Forms : SetBackup(b))
      PROVE  /\ UNCHANGED lastTry /\ noted' = FALSE
             /\ job'["schedule"].stage # "idle" => job["schedule"].stage # "idle"
    BY <1>0, <1>9 DEF PutConfig, RollBack, SetBackup, Goto, Ends
<1> QED
    BY <1>1, <1>2, <1>3, <1>4, <1>5, <1>6, <1>7, <1>8, <1>9, Splits

LEMMA TypesInductive == TypeIInv /\ [BackupNext]_backupVars => TypeIInv'
BY StateKept, ShelfKept, JobsKept, FiringKept DEF TypeIInv

(* The invariant the others lean on.                                        *)
THEOREM TypesAlways == BackupSpec => []TypeIInv
BY TypesInit, TypesInductive, PTL DEF BackupSpec

(* The variables keep their types, the stored settings are always ones      *)
(* ValidateBackup accepts, and no two archives on disk share a name, saves, *)
(* failures, restores and restarts included.                                *)
THEOREM BackupTypeCorrect == BackupSpec => []BackupTypeOK
<1>1. TypeIInv => BackupTypeOK
    <2> SUFFICES ASSUME TypeIInv PROVE BackupTypeOK
        OBVIOUS
    <2>1. \A a \in archives : a.at \in 0..clock /\ a.label \in {"hourly", "manual"}
        BY DEF TypeIInv, StateTyped, ShelfTyped, Written
    <2>2. Valid(config.backup)
        BY Zenon DEF TypeIInv, StateTyped, Configs
    <2>3. config \in [backup : BackupSettings, last : Nat \cup {Never}, edits : Nat]
        BY DEF TypeIInv, StateTyped, Configs
    <2>4. \A p \in Makers : job[p].stage \in Stages
        BY DEF TypeIInv, JobsTyped, Jobs
    <2> QED
        BY <2>1, <2>2, <2>3, <2>4 DEF TypeIInv, StateTyped, ShelfTyped, JobsTyped, Stages, BackupTypeOK
<1> QED
    BY <1>1, TypesAlways, PTL

(***************************************************************************)
(* One attempt per interval.                                               *)
(***************************************************************************)
(* schedule.go:150: as long as the run could be recorded and the settings   *)
(* stand, the schedule never fires twice within its interval.               *)
THEOREM NeverABurst == BackupSpec => NoBurst
<1>1. TypeIInv /\ [BackupNext]_backupVars => [OneAttempt]_backupVars
    <2> SUFFICES ASSUME TypeIInv, Fire, noted PROVE clock - lastTry >= config.backup.every
        BY DEF OneAttempt
    <2>1. config.last = lastTry /\ lastTry \in Nat
        BY DEF TypeIInv, FiringKnown
    <2> QED
        BY <2>1 DEF Fire, Due, Never
<1> QED
    BY <1>1, TypesAlways, PTL DEF BackupSpec, NoBurst

(* offsite.go:66: nothing leaves the machine unsealed, however the settings *)
(* change between the making of an archive and its sending.                 *)
THEOREM NothingReadableIsSent == BackupSpec => []NothingReadableLeaves
<1>1. BackupInit => NothingReadableLeaves
    BY DEF BackupInit, NothingReadableLeaves
<1>2. NothingReadableLeaves /\ [BackupNext]_backupVars => NothingReadableLeaves'
    <2> SUFFICES ASSUME NothingReadableLeaves, [BackupNext]_backupVars PROVE NothingReadableLeaves'
        OBVIOUS
    <2>1. ASSUME NEW p \in Makers, Send(p) PROVE NothingReadableLeaves'
        BY <2>1 DEF Send, MaySend, NothingReadableLeaves, Sealed
    <2>2. CASE sent' = sent
        BY <2>2 DEF NothingReadableLeaves, Sealed
    <2> QED
        BY <2>1, <2>2, Splits
        DEF Clock, TickIdle, Fire, ReadFiles, Store, MakingFails, Prune, SetBackup, Edit, RunNow,
            Delete, Restore, PutConfig, RollBack, PutState, BansChange, SaveBans, Restart, backupVars
<1> QED
    BY <1>1, <1>2, PTL DEF BackupSpec

(***************************************************************************)
(* The way back from a restore.                                            *)
(***************************************************************************)
(* The safety copy a restore is carrying holds the present settings, unless *)
(* somebody has edited the configuration since it was read.                 *)
CopyTracks ==
    job["restore"].stage \in {"store", "put"} =>
        /\ job["restore"].arch.config.edits <= config.edits
        /\ job["restore"].arch.config.edits = config.edits =>
             job["restore"].arch.config.backup = config.backup
CopyIsManual == undo.copy # NoArchive => undo.copy \in Written /\ undo.copy.label = "manual"

UndoIInv == TypeIInv /\ CopyTracks /\ CopyIsManual /\ UndoIsAtHand

LEMMA UndoInit == BackupInit => CopyTracks /\ CopyIsManual /\ UndoIsAtHand
BY NoWorkIsAJob DEF BackupInit, CopyTracks, CopyIsManual, UndoIsAtHand, NoUndo, Makers

LEMMA CopyTracksKept ==
    ASSUME TypeIInv, CopyTracks, [BackupNext]_backupVars
    PROVE  CopyTracks'
<1>0. /\ job \in [Makers -> Jobs] /\ {"schedule", "panel", "restore"} = Makers
      /\ config \in Configs /\ NoWork.stage = "idle" /\ config.edits \in Nat
    BY NoWorkIsAJob DEF TypeIInv, StateTyped, JobsTyped, Makers, Configs
<1>1. CASE job'["restore"] = job["restore"] /\ config'.edits = config.edits
           /\ config'.backup = config.backup
    BY <1>1 DEF CopyTracks
<1>2. CASE job'["restore"].stage \notin {"store", "put"}
    BY <1>2 DEF CopyTracks
<1>3. CASE ReadFiles("restore")
    <2>1. job'["restore"].arch.config = config /\ config' = config
        BY <1>0, <1>3 DEF ReadFiles, Archive, Jobs
    <2> QED
        BY <1>0, <2>1 DEF CopyTracks
<1>4. CASE Store("restore")
    <2>1. job["restore"].stage = "store" /\ job["restore"].arch \in Written
        BY <1>0, <1>4 DEF Store, At, TypeIInv, JobsTyped, Stages
    <2>2. job'["restore"].arch.config = job["restore"].arch.config /\ config' = config
        BY <1>0, <1>4, <2>1 DEF Store, Written
    <2> QED
        BY <2>1, <2>2 DEF CopyTracks
<1>5. CASE config'.edits = config.edits + 1 /\ job' = job
    <2>1. job["restore"].stage \in {"store", "put"} => job["restore"].arch.config.edits \in Nat
        BY DEF TypeIInv, JobsTyped, Written, Configs, Stages, Makers
    <2> QED
        BY <1>0, <1>5, <2>1 DEF CopyTracks
<1>6. ASSUME Edit \/ \E b \in Forms : SetBackup(b)
      PROVE  config'.edits = config.edits + 1 /\ job' = job
    BY <1>0, <1>6 DEF Edit, SetBackup, ghosts, Configs
<1>7. ASSUME NEW p \in Makers, p # "restore", ReadFiles(p) \/ Store(p) \/ MakingFails(p) \/ Prune(p) \/ Send(p)
      PROVE  job'["restore"] = job["restore"] /\ config' = config
    BY <1>0, <1>7 DEF ReadFiles, Store, MakingFails, Prune, Send, Ends, Goto
<1>8. ASSUME MakingFails("restore") \/ Prune("restore") \/ Send("restore")
      PROVE  job'["restore"].stage \notin {"store", "put"}
    BY <1>0, <1>8 DEF MakingFails, Prune, Send, Ends, Goto, Jobs
<1>9. ASSUME Fire
      PROVE  job'["restore"] = job["restore"] /\ config'.edits = config.edits
             /\ config'.backup = config.backup
    BY <1>0, <1>9 DEF Fire, Configs
<1>10. ASSUME PutConfig \/ RollBack \/ PutState \/ Restart
       PROVE  job'["restore"].stage \notin {"store", "put"}
    BY <1>0, <1>10 DEF PutConfig, RollBack, PutState, Restart, Goto, Ends, ghosts, Jobs
<1>11. ASSUME \E a \in archives, pass \in Passes, parts \in AllParts : Restore(a, pass, parts)
       PROVE  job'["restore"].stage \notin {"store", "put"}
    BY <1>0, <1>11 DEF Restore, NoWork
<1>12. ASSUME Clock \/ TickIdle \/ RunNow \/ BansChange \/ SaveBans \/ (\E a \in archives : Delete(a))
              \/ UNCHANGED backupVars
       PROVE  job'["restore"] = job["restore"] /\ config' = config
    BY <1>0, <1>12 DEF Clock, TickIdle, RunNow, BansChange, SaveBans, Delete, Goto, ghosts, backupVars
<1> QED
    BY <1>0, <1>1, <1>2, <1>3, <1>4, <1>5, <1>6, <1>7, <1>8, <1>9, <1>10, <1>11, <1>12, Splits

LEMMA UndoKept ==
    ASSUME UndoIInv, [BackupNext]_backupVars
    PROVE  CopyIsManual' /\ UndoIsAtHand'
<1>0. /\ job \in [Makers -> Jobs] /\ {"schedule", "panel", "restore"} = Makers
      /\ CopyIsManual /\ UndoIsAtHand
    BY DEF UndoIInv, TypeIInv, JobsTyped, Makers
<1>1. CASE /\ UNCHANGED undo /\ deleted \subseteq deleted'
           /\ undo.copy \in archives => undo.copy \in archives' \cup deleted'
    BY <1>0, <1>1 DEF CopyIsManual, UndoIsAtHand
<1>2. ASSUME NEW p \in Makers, Store(p) PROVE CopyIsManual' /\ UndoIsAtHand'
    <2> DEFINE a == [job[p].arch EXCEPT !.at = clock]
    <2>1. /\ archives' = Put(archives, a) /\ deleted' = deleted
          /\ undo' = IF undo.copy # NoArchive /\ SameName(undo.copy, a) THEN NoUndo ELSE undo
        BY <1>2 DEF Store
    <2> HIDE DEF a
    <2>2. CASE undo' = NoUndo
        BY <2>2 DEF CopyIsManual, UndoIsAtHand, NoUndo
    <2>3. CASE undo' = undo /\ (undo.copy = NoArchive \/ ~SameName(undo.copy, a))
        BY <1>0, <2>1, <2>3 DEF CopyIsManual, UndoIsAtHand, Put, SameName
    <2> QED
        BY <2>1, <2>2, <2>3
<1>3. ASSUME NEW p \in Makers, Prune(p) PROVE CopyIsManual' /\ UndoIsAtHand'
    <2>1. PICK gone \in SUBSET (archives \ Keep(archives)) : archives' = archives \ gone
        BY <1>3 DEF Prune
    <2>2. Manual(archives) \subseteq Keep(archives)
        BY DEF Keep
    <2>3. undo.copy # NoArchive /\ undo.copy \in archives => undo.copy \in archives'
        BY <1>0, <2>1, <2>2 DEF Manual, CopyIsManual
    <2>4. UNCHANGED <<undo, deleted>>
        BY <1>3 DEF Prune, ghosts
    <2> QED
        BY <1>0, <2>3, <2>4 DEF CopyIsManual, UndoIsAtHand
<1>4. ASSUME NEW a \in archives, Delete(a) PROVE CopyIsManual' /\ UndoIsAtHand'
    <2>1. CASE undo' = NoUndo
        BY <2>1 DEF CopyIsManual, UndoIsAtHand, NoUndo
    <2>2. CASE undo' = undo
        BY <1>0, <1>4, <2>2 DEF Delete, CopyIsManual, UndoIsAtHand
    <2> QED
        BY <1>4, <2>1, <2>2 DEF Delete
<1>5. CASE PutConfig
    <2> DEFINE copy == job["restore"].arch
    <2>1. copy \in Written /\ copy.label = "manual"
        BY <1>0, <1>5 DEF PutConfig, At, UndoIInv, TypeIInv, JobsTyped, Stages, Label
    <2>2. copy.config.edits = config.edits => copy.config.backup = config.backup
        BY <1>5 DEF PutConfig, At, UndoIInv, CopyTracks
    <2>3. /\ undo' = IF copy \in archives THEN [replaced |-> config, copy |-> copy] ELSE NoUndo
          /\ archives' = archives
        BY <1>5 DEF PutConfig
    <2> HIDE DEF copy
    <2>4. CASE copy \notin archives
        BY <2>3, <2>4 DEF CopyIsManual, UndoIsAtHand, NoUndo
    <2>5. CASE copy \in archives
        BY <2>1, <2>2, <2>3, <2>5 DEF CopyIsManual, UndoIsAtHand
    <2> QED
        BY <2>4, <2>5
<1>6. ASSUME NEW p \in Makers, ReadFiles(p) \/ MakingFails(p) \/ Send(p)
      PROVE  UNCHANGED <<undo, archives, deleted>>
    BY <1>6 DEF ReadFiles, MakingFails, Send, ghosts
<1> QED
    BY <1>1, <1>2, <1>3, <1>4, <1>5, <1>6, Splits
    DEF Clock, TickIdle, Fire, SetBackup, Edit, RunNow, Restore, RollBack, PutState, BansChange,
        SaveBans, Restart, ghosts, backupVars

(* restore.go:166: the copy of what a restore replaced survives every       *)
(* pruning, and holds the very settings that were replaced, unless somebody *)
(* edited the configuration between the two.                                *)
THEOREM TheWayBackStands == BackupSpec => []UndoIsAtHand
<1>1. BackupInit => UndoIInv
    BY TypesInit, UndoInit DEF UndoIInv
<1>2. UndoIInv /\ [BackupNext]_backupVars => UndoIInv'
    BY TypesInductive, CopyTracksKept, UndoKept DEF UndoIInv
<1>3. UndoIInv => UndoIsAtHand
    BY DEF UndoIInv
<1> QED
    BY <1>1, <1>2, <1>3, PTL DEF BackupSpec

(***************************************************************************)
(* Retention over time.                                                    *)
(***************************************************************************)
(* A backup is done before the next tick, however late its own was served.  *)
Prompt == Lag + Making < Minute

(* The schedule stores an automatic archive after every other one and       *)
(* before the next tick, so no two of them share a second.                  *)
ScheduleInTime ==
    /\ job["schedule"].stage = "idle" => clock <= tick + Lag
    /\ job["schedule"].stage # "idle" =>
          lastTry <= clock /\ clock <= lastTry + Making /\ lastTry + Making < tick
AutosBeforeTick == \A a \in Autos(taken) : a.at < tick
AutosBeforeTry ==
    job["schedule"].stage \in {"read", "store"} => \A a \in Autos(taken) : a.at < lastTry
AutosUntied == Untied(Autos(taken))

TimingIInv == ScheduleInTime /\ AutosBeforeTick /\ AutosBeforeTry /\ AutosUntied

LEMMA NumbersKnown ==
    ASSUME TypeIInv
    PROVE  /\ clock \in Nat /\ tick \in Nat /\ Minute \in Nat /\ Lag \in Nat /\ Making \in Nat /\ Minute > 0
           /\ lastTry \in Int /\ job["schedule"] \in Jobs /\ job["restore"] \in Jobs
           /\ \A a \in taken : a.at \in Nat /\ a.at <= clock
           /\ job \in [Makers -> Jobs] /\ {"schedule", "panel", "restore"} = Makers
BY BackupsAssumption DEF TypeIInv, StateTyped, ShelfTyped, JobsTyped, Written, Never, Makers

LEMMA TimingInit == BackupInit => TimingIInv
<1> SUFFICES ASSUME BackupInit PROVE TimingIInv
    OBVIOUS
<1>1. job["schedule"].stage = "idle" /\ Autos(taken) = {} /\ clock <= tick + Lag
    BY BackupsAssumption, NoWorkIsAJob DEF BackupInit, Makers, Autos
<1> QED
    BY <1>1 DEF TimingIInv, ScheduleInTime, AutosBeforeTick, AutosBeforeTry, AutosUntied, Untied

(* What storing an archive does to the shelf: an automatic one has no       *)
(* namesake, so nothing automatic is ever replaced.                         *)
LEMMA StoredShelf ==
    ASSUME TypeIInv, TimingIInv, NEW p \in Makers, Store(p),
           NEW a, a = [job[p].arch EXCEPT !.at = clock]
    PROVE  /\ a \in Written /\ a.at = clock /\ a.label = Label(p)
           /\ archives' = Put(archives, a) /\ taken' = Put(taken, a) /\ deleted' = deleted
           /\ Autos(taken') = IF p = "schedule" THEN Autos(taken) \cup {a} ELSE Autos(taken)
           /\ p = "schedule" => \A b \in Autos(taken) : b.at < clock
<1>1. job[p].arch \in Written /\ job[p].arch.label = Label(p) /\ job[p].stage = "store"
    BY DEF Store, At, TypeIInv, JobsTyped, Stages
<1>2. a \in Written /\ a.at = clock /\ a.label = Label(p)
    BY <1>1, NumbersKnown DEF Written
<1>3. archives' = Put(archives, a) /\ taken' = Put(taken, a) /\ deleted' = deleted
    BY DEF Store
<1>4. p = "schedule" => \A b \in Autos(taken) : b.at < clock
    <2> SUFFICES ASSUME p = "schedule", NEW b \in Autos(taken) PROVE b.at < clock
        OBVIOUS
    <2>1. b.at < lastTry /\ lastTry <= clock
        BY <1>1 DEF TimingIInv, ScheduleInTime, AutosBeforeTry
    <2>2. b.at \in Nat
        BY NumbersKnown DEF Autos
    <2> QED
        BY <2>1, <2>2, NumbersKnown
<1>5. Autos(taken') = IF p = "schedule" THEN Autos(taken) \cup {a} ELSE Autos(taken)
    <2>1. CASE p = "schedule"
        <3>1. \A b \in taken : SameName(a, b) => b \in Autos(taken) /\ b.at = clock
            BY <1>2, <2>1 DEF SameName, Label, Autos, Manual
        <3>2. \A b \in Autos(taken) : b.at # clock
            BY <1>4, <2>1, NumbersKnown DEF Autos
        <3>3. taken' = taken \cup {a}
            BY <1>3, <3>1, <3>2 DEF Put
        <3> QED
            <4>1. a.label # "manual"
                BY <1>2, <2>1 DEF Label
            <4>2. Manual(taken \cup {a}) = Manual(taken)
                BY <4>1 DEF Manual
            <4>3. a \notin Manual(taken)
                BY <4>1 DEF Manual
            <4> QED
                BY <2>1, <3>3, <4>2, <4>3 DEF Autos
    <2>2. CASE p # "schedule"
        <3>1. a.label = "manual"
            BY <1>2, <2>2 DEF Label
        <3> QED
            BY <1>3, <2>2, <3>1 DEF Autos, Manual, Put, SameName
    <2> QED
        BY <2>1, <2>2
<1> QED
    BY <1>2, <1>3, <1>4, <1>5

LEMMA TimingKept ==
    ASSUME Prompt, TypeIInv, TimingIInv, [BackupNext]_backupVars
    PROVE  TimingIInv'
<1>0. ScheduleInTime /\ AutosBeforeTick /\ AutosBeforeTry /\ AutosUntied
    BY DEF TimingIInv
<1>1. CASE /\ UNCHANGED <<clock, tick, lastTry, taken>>
           /\ \/ job'["schedule"].stage = job["schedule"].stage
              \/ job'["schedule"].stage = "idle"
              \/ job["schedule"].stage # "idle" /\ job'["schedule"].stage = "send"
              \/ job["schedule"].stage = "read" /\ job'["schedule"].stage = "store"
    <2>1. ScheduleInTime'
        BY <1>0, <1>1, NumbersKnown DEF ScheduleInTime
    <2> QED
        BY <1>0, <1>1, <2>1 DEF TimingIInv, AutosBeforeTick, AutosBeforeTry, AutosUntied
<1>2. CASE Clock
    <2>1. ScheduleInTime'
        BY <1>0, <1>2, NumbersKnown DEF Clock, At, ScheduleInTime, ghosts
    <2> QED
        BY <1>0, <1>2, <2>1 DEF Clock, ghosts, TimingIInv, AutosBeforeTick, AutosBeforeTry, AutosUntied
<1>3. CASE TickIdle
    <2>1. NextTick \in Nat /\ NextTick >= tick + Minute /\ tick' = NextTick
        BY <1>3, NumbersKnown, NextTickIsLater DEF TickIdle
    <2>2. UNCHANGED <<clock, job, lastTry, taken>> /\ job["schedule"].stage = "idle"
        BY <1>3 DEF TickIdle, ghosts, At
    <2>3. ScheduleInTime'
        BY <1>0, <2>1, <2>2, NumbersKnown DEF ScheduleInTime
    <2>4. AutosBeforeTick'
        BY <1>0, <2>1, <2>2, NumbersKnown DEF AutosBeforeTick, Autos
    <2> QED
        BY <1>0, <2>2, <2>3, <2>4 DEF TimingIInv, AutosBeforeTry, AutosUntied
<1>4. CASE Fire
    <2>1. NextTick \in Nat /\ NextTick >= tick + Minute /\ tick' = NextTick
        BY <1>4, NumbersKnown, NextTickIsLater DEF Fire
    <2>2. /\ lastTry' = clock /\ clock >= tick /\ UNCHANGED <<clock, taken>>
          /\ job["schedule"].stage = "idle" /\ job'["schedule"].stage = "read"
        BY <1>4, NumbersKnown DEF Fire, At, NoWork
    <2>3. ScheduleInTime'
        BY <1>0, <2>1, <2>2, NumbersKnown DEF ScheduleInTime, Prompt
    <2>4. AutosBeforeTick' /\ AutosBeforeTry'
        BY <1>0, <2>1, <2>2, NumbersKnown DEF AutosBeforeTick, AutosBeforeTry, Autos
    <2> QED
        BY <1>0, <2>2, <2>3, <2>4 DEF TimingIInv, AutosUntied
<1>5. CASE Restart
    <2>1. /\ tick' = clock + Minute /\ UNCHANGED <<clock, taken>> /\ job'["schedule"].stage = "idle"
        BY <1>5, NumbersKnown, NoWorkIsAJob DEF Restart, ghosts
    <2>2. ScheduleInTime' /\ AutosBeforeTick'
        BY <2>1, NumbersKnown DEF ScheduleInTime, AutosBeforeTick, Autos
    <2> QED
        BY <1>0, <2>1, <2>2 DEF TimingIInv, AutosBeforeTry, AutosUntied
<1>6. ASSUME NEW p \in Makers, Store(p) PROVE TimingIInv'
    <2>1. PICK a : a = [job[p].arch EXCEPT !.at = clock]
        OBVIOUS
    <2>2. UNCHANGED <<clock, tick, lastTry>> /\ job[p].stage = "store"
        BY <1>6 DEF Store, At
    <2>3. /\ a \in Written /\ a.at = clock
          /\ Autos(taken') = IF p = "schedule" THEN Autos(taken) \cup {a} ELSE Autos(taken)
          /\ p = "schedule" => \A b \in Autos(taken) : b.at < clock
        BY <1>6, <2>1, StoredShelf
    <2>4. IF p = "schedule" THEN job'[p].stage = "prune" ELSE job'["schedule"] = job["schedule"]
        BY <1>6, NumbersKnown DEF Store, AfterStore, Jobs
    <2>5. ScheduleInTime'
        BY <1>0, <2>2, <2>4, NumbersKnown DEF ScheduleInTime
    <2>6. CASE p # "schedule"
        <3>1. AutosBeforeTick' /\ AutosBeforeTry' /\ AutosUntied'
            BY <1>0, <2>2, <2>3, <2>4, <2>6 DEF AutosBeforeTick, AutosBeforeTry, AutosUntied
        <3> QED
            BY <2>5, <3>1 DEF TimingIInv
    <2>7. CASE p = "schedule"
        <3>1. clock < tick
            BY <1>0, <2>2, <2>7, NumbersKnown DEF ScheduleInTime
        <3>2. AutosBeforeTick' /\ AutosBeforeTry'
            BY <1>0, <2>2, <2>3, <2>4, <2>7, <3>1 DEF AutosBeforeTick, AutosBeforeTry
        <3>3. AutosUntied'
            BY <1>0, <2>3, <2>7, NumbersKnown DEF AutosUntied, Untied, Autos
        <3> QED
            BY <2>5, <3>2, <3>3 DEF TimingIInv
    <2> QED
        BY <2>6, <2>7
<1>7. ASSUME NEW p \in Makers, ReadFiles(p) \/ Prune(p)
      PROVE  /\ UNCHANGED <<clock, tick, lastTry, taken>>
             /\ \/ job'["schedule"].stage = job["schedule"].stage
                \/ job["schedule"].stage # "idle" /\ job'["schedule"].stage = "send"
                \/ job["schedule"].stage = "read" /\ job'["schedule"].stage = "store"
    BY <1>7, NumbersKnown DEF ReadFiles, Prune, Goto, At, Jobs, ghosts
<1>8. ASSUME NEW p \in Makers, MakingFails(p) \/ Send(p)
      PROVE  /\ UNCHANGED <<clock, tick, lastTry, taken>>
             /\ job'["schedule"].stage = job["schedule"].stage \/ job'["schedule"].stage = "idle"
    BY <1>8, NumbersKnown, NoWorkIsAJob DEF MakingFails, Send, Ends, ghosts
<1>9. ASSUME RunNow \/ PutConfig \/ RollBack \/ PutState
             \/ \E a \in archives, pass \in Passes, parts \in AllParts : Restore(a, pass, parts)
      PROVE  UNCHANGED <<clock, tick, lastTry, taken>> /\ job'["schedule"].stage = job["schedule"].stage
    BY <1>9, NumbersKnown DEF RunNow, PutConfig, RollBack, PutState, Restore, Goto, Ends, ghosts
<1>10. ASSUME Edit \/ BansChange \/ SaveBans \/ (\E b \in Forms : SetBackup(b))
              \/ (\E a \in archives : Delete(a)) \/ UNCHANGED backupVars
       PROVE  UNCHANGED <<clock, tick, lastTry, taken>> /\ job'["schedule"].stage = job["schedule"].stage
    BY <1>10 DEF Edit, BansChange, SaveBans, SetBackup, Delete, ghosts, backupVars
<1> QED
    BY <1>1, <1>2, <1>3, <1>4, <1>5, <1>6, <1>7, <1>8, <1>9, <1>10, Splits

(* An archive with a role among many has it among fewer.                    *)
LEMMA RolesOutlastThinning ==
    ASSUME NEW A, NEW B, IsFiniteSet(A), Autos(B) \subseteq Autos(A), NEW a, HasARole(a, A)
    PROVE  HasARole(a, B)
<1>1. PICK g \in Generations : Newer(a, g, Autos(A)) /\ Cardinality(Later(a, g, Autos(A))) < Counts[g]
    BY RoleOf
<1>2. Later(a, g, Autos(B)) \subseteq Later(a, g, Autos(A))
      /\ Later(a, g, Autos(A)) \subseteq Buckets(Autos(A), g)
    BY DEF Later, Buckets
<1>3. IsFiniteSet(Autos(A))
    BY FS_Subset DEF Autos
<1>4. /\ Cardinality(Later(a, g, Autos(B))) \in Nat /\ Cardinality(Later(a, g, Autos(A))) \in Nat
      /\ Cardinality(Later(a, g, Autos(B))) <= Cardinality(Later(a, g, Autos(A)))
    BY <1>2, <1>3, BucketsFinite, FS_Subset
<1>5. Newer(a, g, Autos(B))
    BY <1>1 DEF Newer
<1>6. Counts[g] \in Nat
    BY BackupsAssumption DEF Generations
<1> QED
    BY <1>1, <1>4, <1>5, <1>6, RoleOf

LEMMA NeededKept ==
    ASSUME TypeIInv, TimingIInv, NothingNeededIsPruned, [BackupNext]_backupVars
    PROVE  NothingNeededIsPruned'
<1> DEFINE Needed(a, A) == a.label = "manual" \/ HasARole(a, A)
<1>0. /\ \A a \in taken : Needed(a, taken) => a \in archives \cup deleted
      /\ IsFiniteSet(taken) /\ archives \subseteq taken
    BY DEF NothingNeededIsPruned, TypeIInv, ShelfTyped
<1>1. CASE UNCHANGED <<taken, archives, deleted>>
    BY <1>1 DEF NothingNeededIsPruned, HasARole, Manual
<1>2. ASSUME NEW p \in Makers, Store(p) PROVE NothingNeededIsPruned'
    <2>1. PICK a : a = [job[p].arch EXCEPT !.at = clock]
        OBVIOUS
    <2>2. /\ archives' = Put(archives, a) /\ taken' = Put(taken, a) /\ deleted' = deleted
          /\ Autos(taken) \subseteq Autos(taken')
        BY <1>2, <2>1, StoredShelf
    <2>3. IsFiniteSet(taken')
        BY <1>2, ShelfKept DEF ShelfTyped
    <2>4. SUFFICES ASSUME NEW b \in taken', Needed(b, taken') PROVE b \in archives' \cup deleted'
        BY DEF NothingNeededIsPruned, HasARole, Manual
    <2>5. CASE b = a
        BY <2>2, <2>5 DEF Put
    <2>6. CASE b \in taken /\ ~SameName(a, b)
        <3>1. Needed(b, taken)
            BY <2>2, <2>3, <2>4, RolesOutlastThinning
        <3> QED
            BY <1>0, <2>2, <2>6, <3>1 DEF Put
    <2> QED
        BY <2>2, <2>5, <2>6 DEF Put
<1>3. ASSUME NEW p \in Makers, Prune(p) PROVE NothingNeededIsPruned'
    <2>1. PICK gone \in SUBSET (archives \ Keep(archives)) : archives' = archives \ gone
        BY <1>3 DEF Prune
    <2>2. UNCHANGED <<taken, deleted>>
        BY <1>3 DEF Prune, ghosts
    <2>3. IsFiniteSet(archives) /\ Dated(archives) /\ Autos(archives) \subseteq Autos(taken)
        BY <1>0, FS_Subset, NumbersKnown DEF Dated, Autos, Manual
    <2>4. Untied(Autos(archives))
        BY <2>3 DEF TimingIInv, AutosUntied, Untied
    <2>5. SUFFICES ASSUME NEW a \in taken, Needed(a, taken) PROVE a \in archives' \cup deleted'
        BY <2>2 DEF NothingNeededIsPruned, HasARole, Manual
    <2>6. a \in archives => Needed(a, archives)
        BY <1>0, <2>3, <2>5, RolesOutlastThinning
    <2>7. a \in archives => a \in Keep(archives)
        BY <2>3, <2>4, <2>6, KeepFollowsThePolicy
    <2> QED
        BY <1>0, <2>1, <2>2, <2>5, <2>7
<1>4. ASSUME NEW a \in archives, Delete(a) PROVE NothingNeededIsPruned'
    <2>1. taken' = taken /\ archives' = archives \ {a} /\ deleted' = deleted \cup {a}
        BY <1>4 DEF Delete
    <2> QED
        BY <2>1 DEF NothingNeededIsPruned, HasARole, Manual
<1>5. ASSUME NEW p \in Makers, ReadFiles(p) \/ MakingFails(p) \/ Send(p)
      PROVE  UNCHANGED <<taken, archives, deleted>>
    BY <1>5 DEF ReadFiles, MakingFails, Send, ghosts
<1> QED
    BY <1>1, <1>2, <1>3, <1>4, <1>5, Splits
    DEF Clock, TickIdle, Fire, SetBackup, Edit, RunNow, Restore, PutConfig, RollBack, PutState,
        BansChange, SaveBans, Restart, ghosts, backupVars

(* retention.go:16, :61: pruning after every backup, from whatever is still *)
(* on disk, loses nothing the policy would keep out of all that was ever    *)
(* taken, nothing taken by hand, and not the way back from a restore, when  *)
(* backups are done before the next tick.                                   *)
THEOREM NothingIsLost == Prompt => (BackupSpec => []NothingIsRotatedAway)
<1> SUFFICES ASSUME Prompt PROVE BackupSpec => []NothingIsRotatedAway
    OBVIOUS
<1> DEFINE I == TypeIInv /\ TimingIInv /\ NothingNeededIsPruned
<1>1. BackupInit => I
    <2>1. BackupInit => NothingNeededIsPruned
        BY DEF BackupInit, NothingNeededIsPruned
    <2> QED
        BY <2>1, TypesInit, TimingInit
<1>2. I /\ [BackupNext]_backupVars => I'
    BY TypesInductive, TimingKept, NeededKept
<1>3. BackupSpec => []NothingNeededIsPruned
    BY <1>1, <1>2, PTL DEF BackupSpec
<1> QED
    BY <1>3, TheWayBackStands, PTL DEF NothingIsRotatedAway

================================================================================
