--------------------------- MODULE BanEngineProofs ---------------------------
(* Theorems about BanEngine, for every set of addresses, every ladder and   *)
(* every set of rules.                                                      *)
EXTENDS BanEngine, SequenceTheorems, FiniteSetTheorems, TLAPS

(* Arithmetic of the decaying counters.                                     *)

LEMMA DivIsNat ==
  ASSUME NEW x \in Nat, NEW w \in Nat \ {0}
  PROVE  x \div w \in Nat
  OBVIOUS

LEMMA QuotientBound ==
  ASSUME NEW x \in Nat, NEW w \in Nat \ {0}, NEW m \in Nat, x < w * (m + 1)
  PROVE  x \div w <= m
<1> DEFINE q == x \div w
<1>1. q \in Nat /\ w * q <= x
  OBVIOUS
<1>2. CASE q >= m + 1
  <2>1. w * q >= w * (m + 1)
    BY <1>1, <1>2
  <2> QED
    BY <1>1, <2>1
<1> QED
  BY <1>1, <1>2

LEMMA ShareBound ==
  ASSUME NEW h \in Nat, NEW d \in Nat, NEW w \in Nat \ {0}, d <= w
  PROVE  (h * d) \div w \in Nat /\ (h * d) \div w <= h
<1>1. h * d \in Nat /\ h * d <= h * w
  OBVIOUS
<1>2. h * w < w * (h + 1)
  OBVIOUS
<1> QED
  BY <1>1, <1>2, QuotientBound, DivIsNat

(* What the operators of the engine return.                                 *)

LEMMA RuleFields ==
  ASSUME NEW k \in Kinds
  PROVE  /\ Rules[k] \in [window : Nat \ {0}, hits : Nat \ {0}, ban : Nat \ {0},
                           permanent : BOOLEAN]
         /\ Rules[k].window \in Nat \ {0} /\ Rules[k].hits \in Nat \ {0}
         /\ Rules[k].ban \in Nat \ {0} /\ Rules[k].permanent \in BOOLEAN
<1> DEFINE Rule == [window : Nat \ {0}, hits : Nat \ {0}, ban : Nat \ {0},
                    permanent : BOOLEAN]
<1>0. Rules \in Seq(Rule)
  BY ConstantsAssumption
<1>1. Rules[k] \in Rule
  <2>1. k \in 1..Len(Rules)
    BY <1>0 DEF Kinds
  <2> HIDE DEF Rule
  <2> QED
    BY <1>0, <2>1, ElementOfSeq
<1> QED
  BY <1>1

\* Decay never adds offences to a counter (counter.value).
LEMMA ValueBound ==
  ASSUME NEW c \in Counter, NEW t \in Nat, NEW w \in Nat \ {0}
  PROVE  Value(c, t, w) \in Nat /\ Value(c, t, w) <= c.hits
<1>1. c.hits \in Nat /\ c.last \in Nat
  BY DEF Counter
<1>2. CASE c.last = 0 \/ t - c.last >= w
  BY <1>1, <1>2 DEF Value
<1>3. CASE ~(c.last = 0 \/ t - c.last >= w) /\ t - c.last <= 0
  BY <1>1, <1>3 DEF Value
<1>4. CASE ~(c.last = 0 \/ t - c.last >= w) /\ ~(t - c.last <= 0)
  <2>1. w - (t - c.last) \in Nat /\ w - (t - c.last) <= w
    BY <1>1, <1>4
  <2>2. Value(c, t, w) = (c.hits * (w - (t - c.last))) \div w
    BY <1>4 DEF Value
  <2> QED
    BY <1>1, <2>1, <2>2, ShareBound
<1> QED
  BY <1>2, <1>3, <1>4

LEMMA AddBound ==
  ASSUME NEW c \in Counter, NEW t \in Nat, NEW w \in Nat \ {0}
  PROVE  /\ Add(c, t, w) \in Counter
         /\ Add(c, t, w).hits <= c.hits + Scale
<1>1. Value(c, t, w) \in Nat /\ Value(c, t, w) <= c.hits /\ c.hits \in Nat
  BY ValueBound DEF Counter
<1>2. Add(c, t, w) = [hits |-> Value(c, t, w) + Scale, last |-> t]
  BY DEF Add
<1>3. Scale \in Nat
  BY ConstantsAssumption
<1>4. Add(c, t, w) \in Counter
  BY <1>1, <1>2, <1>3 DEF Counter
<1>5. Add(c, t, w).hits = Value(c, t, w) + Scale
  BY <1>2
<1> QED
  BY <1>1, <1>3, <1>4, <1>5

\* A counter of at most m offences rounds to at most m (ruleIndex).
LEMMA RoundedBound ==
  ASSUME NEW v \in Nat, NEW m \in Nat, v <= Scale * m
  PROVE  Rounded(v) \in Nat /\ Rounded(v) <= m
<1>1. Scale \in Nat /\ Scale > 0
  BY ConstantsAssumption
<1>2. 2 * Scale \in Nat \ {0} /\ 2 * v + Scale \in Nat
  BY <1>1
<1>3. Scale * m \in Nat
  BY <1>1
<1>4. (2 * Scale) * (m + 1) = 2 * (Scale * m) + 2 * Scale
  BY <1>1
<1>5. 2 * v + Scale < (2 * Scale) * (m + 1)
  BY <1>1, <1>3, <1>4
<1>6. (2 * v + Scale) \div (2 * Scale) <= m
  BY <1>2, <1>5, QuotientBound
<1>7. (2 * v + Scale) \div (2 * Scale) \in Nat
  BY <1>2, DivIsNat
<1> QED
  BY <1>6, <1>7 DEF Rounded

LEMMA DecayedLevelBound ==
  ASSUME NEW o \in Offender \cup {None}, NEW t \in Nat
  PROVE  /\ DecayedLevel(o, t) \in Nat
         /\ o # None => DecayedLevel(o, t) <= o.level
<1>1. CASE o = None
  BY <1>1 DEF DecayedLevel
<1>2. CASE o # None
  <2>1. o.level \in Nat /\ o.last \in Nat
    BY <1>2 DEF Offender
  <2>2. CASE t <= o.last
    BY <1>2, <2>1, <2>2 DEF DecayedLevel
  <2>3. CASE ~(t <= o.last)
    <3>1. t - o.last \in Nat /\ Decay \in Nat \ {0}
      BY <2>1, <2>3, ConstantsAssumption
    <3> DEFINE q == (t - o.last) \div Decay
    <3>2. q \in Nat
      BY <3>1, DivIsNat
    <3>3. DecayedLevel(o, t) = Max0(o.level - q)
      BY <1>2, <2>3 DEF DecayedLevel
    <3> HIDE DEF q
    <3> QED
      BY <1>2, <2>1, <3>2, <3>3 DEF Max0
  <2> QED
    BY <2>2, <2>3
<1> QED
  BY <1>1, <1>2

LEMMA NextLevelBound ==
  ASSUME NEW o \in Offender \cup {None}, NEW t \in Nat
  PROVE  /\ NextLevel(o, t) \in 1..Len(Steps)
         /\ NextLevel(o, t) <= DecayedLevel(o, t) + 1
<1>1. Len(Steps) \in Nat /\ Len(Steps) > 0
  BY ConstantsAssumption
<1>2. DecayedLevel(o, t) \in Nat
  BY DecayedLevelBound
<1> QED
  BY <1>1, <1>2 DEF NextLevel

LEMMA NewBanIsBan ==
  ASSUME NEW t \in Nat, NEW d \in Nat, NEW p \in BOOLEAN, NEW l \in Nat
  PROVE  NewBan(t, d, p, l) \in Ban
<1>1. t + d \in Nat
  OBVIOUS
<1> QED
  BY <1>1 DEF NewBan, Ban

LEMMA SentenceIsBan ==
  ASSUME NEW o \in Offender \cup {None}, NEW t \in Nat, NEW k \in Kinds,
         NEW ladder \in BOOLEAN
  PROVE  Sentence(ladder, o, k, t) \in Ban
<1> DEFINE n == NextLevel(o, t)
<1>1. n \in 1..Len(Steps)
  BY NextLevelBound
<1>2. n \in Nat /\ Steps[n] \in Nat
  BY <1>1, ConstantsAssumption
<1>3. Forever \in Nat
  BY ConstantsAssumption
<1>4. Rules[k].ban \in Nat /\ Rules[k].permanent \in BOOLEAN
  BY RuleFields
<1>5. NewBan(t, Rules[k].ban, Rules[k].permanent, 0) \in Ban
  BY <1>4, NewBanIsBan
<1>6. NewBan(t, Forever, TRUE, n) \in Ban
  BY <1>2, <1>3, NewBanIsBan
<1>7. NewBan(t, Steps[n], Steps[n] = Forever, n) \in Ban
  BY <1>2, <1>3, NewBanIsBan
<1> QED
  BY <1>5, <1>6, <1>7 DEF Sentence

LEMMA EarnedBound ==
  ASSUME NEW o \in Offender \cup {None}, NEW t \in Nat
  PROVE  /\ Earned(o, t) \in Offender
         /\ Earned(o, t).level = NextLevel(o, t)
         /\ Earned(o, t).count = IF o = None THEN 1 ELSE o.count + 1
<1>1. NextLevel(o, t) \in Nat
  BY NextLevelBound
<1>2. (IF o = None THEN 1 ELSE o.count + 1) \in Nat
  BY DEF Offender
<1> HIDE DEF NextLevel
<1> QED
  BY <1>1, <1>2 DEF Earned, Offender

------------------------------------------------------------------------------
(* Type correctness.                                                        *)

LEMMA BlankIsCounters == Blank \in [Kinds -> Counter]
BY DEF Blank, Counter

LEMMA DefaultsAreSettings == DefaultSettings \in Settings /\ Idle \in Task
<1>1. DefaultSettings \in Settings
  BY DEF DefaultSettings, Settings
<1> QED
  BY <1>1 DEF Idle, Task

\* A caller moves on: its other fields stay.
LEMMA TaskMoves ==
  ASSUME task \in [Callers -> Task], NEW c \in Callers,
         NEW pc \in {"idle", "begun", "recorded", "evaluating"},
         NEW todo \in SUBSET IPs
  PROVE  /\ [task EXCEPT ![c].pc = pc] \in [Callers -> Task]
         /\ [task EXCEPT ![c].todo = todo] \in [Callers -> Task]
         /\ [task EXCEPT ![c].pc = pc, ![c].todo = todo] \in [Callers -> Task]
<1>1. task[c] \in Task
  OBVIOUS
<1>2. [task[c] EXCEPT !.pc = pc] \in Task /\ [task[c] EXCEPT !.todo = todo] \in Task
  BY <1>1 DEF Task
<1>3. [[task[c] EXCEPT !.pc = pc] EXCEPT !.todo = todo] \in Task
  BY <1>1 DEF Task
<1> QED
  BY <1>2, <1>3

LEMMA CallerFields ==
  ASSUME task \in [Callers -> Task], NEW c \in Callers
  PROVE  /\ task[c].at \in Nat /\ task[c].ab \in Settings
         /\ task[c].todo \in SUBSET IPs
         /\ task[c].ab.ladder \in BOOLEAN
BY DEF Task, Settings

LEMMA LedgersAreTyped ==
  ASSUME offenders \in [IPs -> Offender \cup {None}],
         NEW i \in IPs, NEW t \in Nat, NEW ladder \in BOOLEAN,
         NEW new \in LedgersAfter(i, t, ladder)
  PROVE  new \in [IPs -> Offender \cup {None}]
<1>1. Earned(offenders[i], t) \in Offender /\ Earned(None, t) \in Offender
  BY EarnedBound
<1> HIDE DEF Offender
<1> QED
  BY <1>1 DEF LedgersAfter

LEMMA TypeInit == Init => TypeOK
<1> SUFFICES ASSUME Init PROVE TypeOK
  OBVIOUS
<1>1. \A c \in Callers : task[c] \in Task
  BY DefaultsAreSettings DEF Init
<1> QED
  BY <1>1, DefaultsAreSettings DEF Init, TypeOK

LEMMA TypeStep == TypeOK /\ [Next]_vars => TypeOK'
<1> SUFFICES ASSUME TypeOK, [Next]_vars PROVE TypeOK'
  OBVIOUS
<1> USE DEF TypeOK
<1>1. CASE Tick
  BY <1>1 DEF Tick
<1>2. ASSUME NEW c \in Callers, Begin(c) PROVE TypeOK'
  <2>1. [pc |-> "begun", at |-> now, ab |-> cfg, todo |-> {}] \in Task
    BY DEF Task
  <2> QED
    BY <1>2, <2>1 DEF Begin
<1>3. ASSUME NEW c \in Callers, NEW i \in IPs, NEW k \in Kinds, Record(c, i, k)
      PROVE  TypeOK'
  <2>1. task' \in [Callers -> Task]
    BY <1>3, TaskMoves DEF Record
  <2> DEFINE e == IF events[i] = None THEN Blank ELSE events[i]
             a == Add(e[k], task[c].at, Rules[k].window)
  <2>2. e \in [Kinds -> Counter]
    BY BlankIsCounters
  <2>3. e[k] \in Counter
    BY <2>2
  <2>4. a \in Counter
    <3> HIDE DEF e
    <3> QED
      BY <2>3, AddBound, RuleFields, CallerFields
  <2>5. [e EXCEPT ![k] = a] \in [Kinds -> Counter]
    <3> HIDE DEF e, a
    <3> QED
      BY <2>2, <2>4
  <2>6. events' \in [IPs -> [Kinds -> Counter] \cup {None}]
    <3>1. events' = events \/ events' = [events EXCEPT ![i] = [e EXCEPT ![k] = a]]
      BY <1>3 DEF Record
    <3> HIDE DEF e, a
    <3> QED
      BY <2>5, <3>1
  <2>7. since' \in [IPs -> [Kinds -> Nat]]
    <3>1. [since[i] EXCEPT ![k] = since[i][k] + 1] \in [Kinds -> Nat]
      OBVIOUS
    <3> QED
      BY <1>3, <3>1 DEF Record
  <2> QED
    BY <1>3, <2>1, <2>6, <2>7 DEF Record
<1>4. ASSUME NEW c \in Callers, StartEvaluate(c) PROVE TypeOK'
  <2>1. Tracked \in SUBSET IPs
    BY DEF Tracked
  <2>2. task' \in [Callers -> Task]
    BY <1>4, <2>1, TaskMoves DEF StartEvaluate
  <2> QED
    BY <1>4, <2>2 DEF StartEvaluate
<1>5. ASSUME NEW c \in Callers, NEW i \in IPs, Evaluating(c, i) PROVE TypeOK'
  <2>1. task' \in [Callers -> Task]
    <3>1. task[c].todo \ {i} \in SUBSET IPs
      BY CallerFields
    <3>2. task' = [task EXCEPT ![c].todo = @ \ {i}]
      BY <1>5 DEF Evaluating, SkipAllowed, SkipQuiet, AutoBan, Next1
    <3> QED
      BY <3>1, <3>2, TaskMoves
  <2>2. CASE SkipAllowed(c, i)
    BY <2>1, <2>2 DEF SkipAllowed
  <2>3. CASE SkipQuiet(c, i)
    BY <2>1, <2>3 DEF SkipQuiet
  <2>4. CASE AutoBan(c, i)
    <3> DEFINE t == task[c].at
    <3>1. t \in Nat /\ task[c].ab.ladder \in BOOLEAN
      BY CallerFields
    <3>2. PICK k \in Kinds : bans' = [bans EXCEPT ![i] =
                                Sentence(task[c].ab.ladder, offenders[i], k, t)]
      BY <2>4 DEF AutoBan
    <3>3. Sentence(task[c].ab.ladder, offenders[i], k, t) \in Ban
      BY <3>1, SentenceIsBan
    <3>4. bans' \in [IPs -> Ban \cup {None}]
      BY <3>2, <3>3
    <3>5. offenders' \in [IPs -> Offender \cup {None}]
      BY <2>4, <3>1, LedgersAreTyped DEF AutoBan
    <3> QED
      BY <2>1, <2>4, <3>4, <3>5 DEF AutoBan
  <2> QED
    BY <1>5, <2>2, <2>3, <2>4 DEF Evaluating
<1>6. ASSUME NEW c \in Callers, FinishEvaluate(c) PROVE TypeOK'
  BY <1>6, DefaultsAreSettings DEF FinishEvaluate
<1>7. ASSUME NEW i \in IPs, NEW d \in ManualLengths, ManualBan(i, d) PROVE TypeOK'
  <2>1. NewBan(now, d, d = Forever, 0) \in Ban
    BY NewBanIsBan, ConstantsAssumption
  <2> QED
    BY <1>7, <2>1 DEF ManualBan
<1>8. ASSUME NEW i \in IPs, Unban(i) PROVE TypeOK'
  BY <1>8 DEF Unban
<1>9. CASE UnbanAll
  BY <1>9 DEF UnbanAll
<1>10. ASSUME NEW i \in IPs, ForgiveOffender(i) PROVE TypeOK'
  BY <1>10 DEF ForgiveOffender
<1>11. CASE ForgiveAll
  BY <1>11 DEF ForgiveAll
<1>12. ASSUME NEW s \in Configs, SetAutoBan(s) PROVE TypeOK'
  BY <1>12, ConstantsAssumption DEF SetAutoBan
<1>13. CASE UNCHANGED vars
  BY <1>13 DEF vars
<1>14. \A c \in Callers : KindsOf[c] \subseteq Kinds
  BY ConstantsAssumption
<1> HIDE DEF TypeOK
<1> QED
  BY <1>1, <1>2, <1>3, <1>4, <1>5, <1>6, <1>7, <1>8, <1>9, <1>10, <1>11, <1>12,
     <1>13, <1>14 DEF Next, Automatic, Operator

\* Every variable keeps its type, whatever the callers and the operator do.
THEOREM TypeCorrect == Spec => []TypeOK
<1>1. Init => TypeOK
  BY TypeInit
<1>2. TypeOK /\ [Next]_vars => TypeOK'
  BY TypeStep
<1> QED
  BY <1>1, <1>2, PTL DEF Spec

------------------------------------------------------------------------------
(* The ladder.                                                              *)

\* One ban moves a record up at most one rung, and counts the ban.
LEMMA EarnedRung ==
  ASSUME NEW o \in Offender \cup {None}, NEW t \in Nat,
         o # None => o.level <= o.count
  PROVE  /\ Earned(o, t) # None
         /\ Earned(o, t).level \in 1..Len(Steps)
         /\ Earned(o, t).level <= Earned(o, t).count
<1> DEFINE n == NextLevel(o, t)
           e == Earned(o, t)
<1>1. e \in Offender /\ e.level = n /\ e.count = IF o = None THEN 1 ELSE o.count + 1
  BY EarnedBound
<1>2. n \in 1..Len(Steps) /\ n <= DecayedLevel(o, t) + 1
  BY NextLevelBound
<1>3. DecayedLevel(o, t) \in Nat /\ (o # None => DecayedLevel(o, t) <= o.level)
  BY DecayedLevelBound
<1>4. o = None => DecayedLevel(o, t) = 0
  BY DEF DecayedLevel
<1>5. o # None => o.level \in Nat /\ o.count \in Nat
  BY DEF Offender
<1>6. e # None
  BY <1>1, ConstantsAssumption
<1>7. n \in Nat /\ Len(Steps) \in Nat
  BY <1>2, ConstantsAssumption
<1>8. CASE o = None
  BY <1>1, <1>2, <1>3, <1>4, <1>6, <1>7, <1>8
<1>9. CASE o # None
  BY <1>1, <1>2, <1>3, <1>5, <1>6, <1>7, <1>9
<1> QED
  BY <1>8, <1>9

\* RungsAreEarned speaks of each record on its own.
RungEarned(o) == o # None => o.level \in 1..Len(Steps) /\ o.level <= o.count

LEMMA RungsOneByOne ==
  RungsAreEarned <=> \A i \in IPs : RungEarned(offenders[i])
BY DEF RungsAreEarned, RungEarned, Ledger

LEMMA RungsStep == TypeOK /\ RungsAreEarned /\ [Next]_vars => RungsAreEarned'
<1> SUFFICES ASSUME TypeOK, RungsAreEarned, [Next]_vars
             PROVE  \A i \in IPs : RungEarned(offenders'[i])
  BY DEF RungsAreEarned, RungEarned, Ledger
<1>0. \A i \in IPs : RungEarned(offenders[i])
  BY RungsOneByOne
<1>1. RungEarned(None)
  BY DEF RungEarned
<1>2. CASE offenders' = offenders
  BY <1>0, <1>2
<1>3. ASSUME NEW c \in Callers, NEW i \in IPs, AutoBan(c, i)
      PROVE  \A j \in IPs : RungEarned(offenders'[j])
  <2> DEFINE t == task[c].at
  <2>1. t \in Nat /\ offenders[i] \in Offender \cup {None}
    BY CallerFields DEF TypeOK
  <2>2. offenders[i] # None => offenders[i].level <= offenders[i].count
    BY <1>0 DEF RungEarned
  <2>3. RungEarned(Earned(offenders[i], t))
    BY <2>1, <2>2, EarnedRung DEF RungEarned
  <2>4. RungEarned(Earned(None, t))
    BY <2>1, EarnedRung DEF RungEarned
  <2>5. \A j \in IPs : offenders'[j] \in {offenders[j], None, Earned(offenders[i], t), Earned(None, t)}
    BY <1>3 DEF AutoBan, LedgersAfter, TypeOK
  <2> QED
    BY <1>0, <1>1, <2>3, <2>4, <2>5
<1>4. ASSUME NEW c \in Callers, FinishEvaluate(c)
      PROVE  \A j \in IPs : RungEarned(offenders'[j])
  <2>1. \A j \in IPs : offenders'[j] \in {offenders[j], None}
    BY <1>4 DEF FinishEvaluate
  <2> QED
    BY <1>0, <1>1, <2>1
<1>5. ASSUME NEW i \in IPs, ForgiveOffender(i)
      PROVE  \A j \in IPs : RungEarned(offenders'[j])
  BY <1>0, <1>1, <1>5 DEF ForgiveOffender, TypeOK
<1>6. CASE ForgiveAll
  BY <1>1, <1>6 DEF ForgiveAll
<1> QED
  <2>1. CASE Tick
    BY <1>2, <2>1 DEF Tick
  <2>2. CASE Automatic
    <3>1. PICK c \in Callers :
            \/ Begin(c) \/ StartEvaluate(c) \/ FinishEvaluate(c)
            \/ \E i \in IPs : Evaluating(c, i) \/ \E k \in KindsOf[c] : Record(c, i, k)
      BY <2>2 DEF Automatic
    <3> QED
      BY <1>2, <1>3, <1>4, <3>1
         DEF Begin, StartEvaluate, Evaluating, Record, SkipAllowed, SkipQuiet
  <2>3. CASE Operator
    BY <1>2, <1>5, <1>6, <2>3 DEF Operator, Unban, ManualBan, UnbanAll, SetAutoBan
  <2>4. CASE UNCHANGED vars
    BY <1>2, <2>4 DEF vars
  <2> QED
    BY <2>1, <2>2, <2>3, <2>4 DEF Next

\* No address ever stands on a rung it has not been banned up to, for every
\* ladder, every rule and whatever the operator does in between.
THEOREM RungsEarned == Spec => []RungsAreEarned
<1>1. Init => RungsAreEarned
  BY DEF Init, RungsAreEarned, Ledger
<1> QED
  BY <1>1, TypeCorrect, RungsStep, PTL DEF Spec

------------------------------------------------------------------------------
(* The counters.                                                            *)

\* CountersNeverExaggerate speaks of each address on its own.
Honest(e, n) == e # None => \A k \in Kinds : e[k].hits <= Scale * n[k]

LEMMA CountersOneByOne ==
  CountersNeverExaggerate <=> \A i \in IPs : Honest(events[i], since[i])
BY DEF CountersNeverExaggerate, Honest, Tracked

LEMMA CountersStep ==
  TypeOK /\ CountersNeverExaggerate /\ [Next]_vars => CountersNeverExaggerate'
<1> SUFFICES ASSUME TypeOK, CountersNeverExaggerate, [Next]_vars
             PROVE  \A i \in IPs : Honest(events'[i], since'[i])
  BY DEF CountersNeverExaggerate, Honest, Tracked
<1>0. \A i \in IPs : Honest(events[i], since[i])
  BY CountersOneByOne
<1>1. \A n : Honest(None, n)
  BY DEF Honest
<1>2. CASE since' = since /\ \A i \in IPs : events'[i] \in {events[i], None}
  BY <1>0, <1>1, <1>2
<1>3. ASSUME NEW c \in Callers, NEW i \in IPs, NEW k \in Kinds, Record(c, i, k)
      PROVE  \A j \in IPs : Honest(events'[j], since'[j])
  <2> DEFINE e == IF events[i] = None THEN Blank ELSE events[i]
             a == Add(e[k], task[c].at, Rules[k].window)
             n == [since[i] EXCEPT ![k] = since[i][k] + 1]
  <2>1. CASE UNCHANGED <<events, since>>
    BY <1>0, <2>1
  <2>2. CASE events' = [events EXCEPT ![i] = [e EXCEPT ![k] = a]]
             /\ since' = [since EXCEPT ![i] = n]
    <3>1. Scale \in Nat /\ Scale > 0
      BY ConstantsAssumption
    <3>2. since[i] \in [Kinds -> Nat]
      BY DEF TypeOK
    <3>3. e \in [Kinds -> Counter]
      BY BlankIsCounters DEF TypeOK
    <3>4. Honest(e, since[i])
      <4>1. CASE events[i] = None
        <5>1. \A j \in Kinds : e[j].hits = 0
          BY <4>1 DEF Blank
        <5>2. \A j \in Kinds : Scale * since[i][j] >= 0
          BY <3>1, <3>2
        <5> HIDE DEF e
        <5> QED
          BY <5>1, <5>2, <3>1, <3>2 DEF Honest
      <4>2. CASE events[i] # None
        BY <1>0, <4>2
      <4> QED
        BY <4>1, <4>2
    <3>5. e # None
      BY <3>3, ConstantsAssumption
    <3>6. e[k] \in Counter /\ e[k].hits \in Nat
      BY <3>3 DEF Counter
    <3>7. a.hits <= e[k].hits + Scale /\ a.hits \in Nat
      <4>1. task[c].at \in Nat
        BY CallerFields DEF TypeOK
      <4> HIDE DEF e
      <4>2. a \in Counter /\ a.hits <= e[k].hits + Scale
        BY <3>6, <4>1, AddBound, RuleFields
      <4> QED
        BY <4>2 DEF Counter
    <3> HIDE DEF e, a
    <3>8. a.hits <= Scale * n[k]
      <4>1. e[k].hits <= Scale * since[i][k]
        BY <3>4, <3>5 DEF Honest
      <4>2. n[k] = since[i][k] + 1 /\ since[i][k] \in Nat
        BY <3>2
      <4>3. Scale * (since[i][k] + 1) = Scale * since[i][k] + Scale
            /\ Scale * since[i][k] \in Nat
        BY <3>1, <4>2
      <4> QED
        BY <3>1, <3>6, <3>7, <4>1, <4>2, <4>3
    <3>9. Honest([e EXCEPT ![k] = a], n)
      <4> SUFFICES ASSUME NEW j \in Kinds PROVE [e EXCEPT ![k] = a][j].hits <= Scale * n[j]
        BY DEF Honest
      <4>1. CASE j = k
        BY <3>3, <3>8, <4>1
      <4>2. CASE j # k
        <5>1. n[j] = since[i][j] /\ [e EXCEPT ![k] = a][j] = e[j]
          BY <3>2, <3>3, <4>2
        <5> QED
          BY <3>4, <3>5, <5>1 DEF Honest
      <4> QED
        BY <4>1, <4>2
    <3> HIDE DEF n
    <3>10. \A j \in IPs : \/ events'[j] = [e EXCEPT ![k] = a] /\ since'[j] = n
                          \/ events'[j] = events[j] /\ since'[j] = since[j]
      BY <2>2 DEF TypeOK
    <3> QED
      BY <1>0, <3>9, <3>10
  <2> QED
    BY <1>3, <2>1, <2>2 DEF Record
<1>4. ASSUME NEW i \in IPs, Unban(i)
      PROVE  \A j \in IPs : Honest(events'[j], since'[j])
  <2>1. \A j \in IPs : \/ events'[j] = None
                       \/ events'[j] = events[j] /\ since'[j] = since[j]
    BY <1>4 DEF Unban, TypeOK
  <2> QED
    BY <1>0, <1>1, <2>1
<1>5. CASE UnbanAll
  BY <1>1, <1>5 DEF UnbanAll
<1>6. ASSUME NEW c \in Callers, NEW i \in IPs, SkipAllowed(c, i)
      PROVE  since' = since /\ \A j \in IPs : events'[j] \in {events[j], None}
  BY <1>6 DEF SkipAllowed, TypeOK
<1>7. ASSUME NEW c \in Callers, FinishEvaluate(c)
      PROVE  since' = since /\ \A j \in IPs : events'[j] \in {events[j], None}
  BY <1>7 DEF FinishEvaluate
<1> QED
  <2>0. CASE events' = events /\ since' = since
    BY <1>2, <2>0
  <2>1. CASE Tick
    BY <2>0, <2>1 DEF Tick
  <2>2. CASE Automatic
    <3>1. PICK c \in Callers :
            \/ Begin(c) \/ StartEvaluate(c) \/ FinishEvaluate(c)
            \/ \E i \in IPs : Evaluating(c, i) \/ \E k \in KindsOf[c] : Record(c, i, k)
      BY <2>2 DEF Automatic
    <3>2. KindsOf[c] \subseteq Kinds
      BY ConstantsAssumption
    <3>3. CASE Begin(c) \/ StartEvaluate(c)
      BY <2>0, <3>3 DEF Begin, StartEvaluate
    <3>4. CASE FinishEvaluate(c)
      BY <1>2, <1>7, <3>4
    <3>5. ASSUME NEW i \in IPs, Evaluating(c, i)
          PROVE  \A j \in IPs : Honest(events'[j], since'[j])
      BY <1>2, <1>6, <2>0, <3>5 DEF Evaluating, SkipQuiet, AutoBan
    <3> QED
      BY <1>3, <3>1, <3>2, <3>3, <3>4, <3>5
  <2>3. CASE Operator
    BY <2>0, <1>4, <1>5, <2>3
       DEF Operator, ForgiveOffender, ForgiveAll, ManualBan, SetAutoBan
  <2>4. CASE UNCHANGED vars
    BY <2>0, <2>4 DEF vars
  <2> QED
    BY <2>1, <2>2, <2>3, <2>4 DEF Next

\* A decaying counter never shows more than the offences recorded since the
\* operator last released the address.
THEOREM CountersHonest == Spec => []CountersNeverExaggerate
<1>1. Init => CountersNeverExaggerate
  BY DEF Init, CountersNeverExaggerate, Tracked
<1> QED
  BY <1>1, TypeCorrect, CountersStep, PTL DEF Spec

------------------------------------------------------------------------------
(* The critical section of evaluate().                                      *)

\* A caller inside it holds the mutex, has only tracked addresses left to
\* visit, and never runs ahead of the clock.
CriticalSection ==
    /\ \A c \in Callers : task[c].pc = "evaluating"
                          => mu = c /\ task[c].todo \subseteq Tracked
    /\ \A c \in Callers : task[c].at <= now

\* Another caller's fields, and the fields a step does not name, stay.
LEMMA OthersStay ==
  ASSUME task \in [Callers -> Task], NEW c \in Callers, NEW b \in Callers,
         NEW pc, NEW todo
  PROVE  /\ b # c => /\ [task EXCEPT ![c].pc = pc][b] = task[b]
                     /\ [task EXCEPT ![c].todo = todo][b] = task[b]
                     /\ [task EXCEPT ![c].pc = pc, ![c].todo = todo][b] = task[b]
         /\ [task EXCEPT ![c].pc = pc][c].pc = pc
         /\ [task EXCEPT ![c].pc = pc][c].at = task[c].at
         /\ [task EXCEPT ![c].todo = todo][c].pc = task[c].pc
         /\ [task EXCEPT ![c].todo = todo][c].todo = todo
         /\ [task EXCEPT ![c].todo = todo][c].at = task[c].at
         /\ [task EXCEPT ![c].pc = pc, ![c].todo = todo][c].todo = todo
         /\ [task EXCEPT ![c].pc = pc, ![c].todo = todo][c].at = task[c].at
BY DEF Task

LEMMA IdleFields == Idle.pc = "idle" /\ Idle.at = 0
BY DEF Idle

LEMMA CriticalStep == TypeOK /\ CriticalSection /\ [Next]_vars => CriticalSection'
<1> SUFFICES ASSUME TypeOK, CriticalSection, [Next]_vars
             PROVE  \A b \in Callers :
                      /\ task'[b].pc = "evaluating" => mu' = b /\ task'[b].todo \subseteq Tracked'
                      /\ task'[b].at <= now'
  BY DEF CriticalSection
<1> DEFINE Goal == \A b \in Callers :
                      /\ task'[b].pc = "evaluating" => mu' = b /\ task'[b].todo \subseteq Tracked'
                      /\ task'[b].at <= now'
<1>0. /\ task \in [Callers -> Task] /\ now \in Nat
      /\ \A b \in Callers : /\ task[b].at \in Nat /\ task[b].at <= now
                            /\ task[b].pc = "evaluating"
                                 => mu = b /\ task[b].todo \subseteq Tracked
  BY CallerFields DEF CriticalSection, TypeOK
<1>1. None \notin Callers
  BY ConstantsAssumption
<1>2. CASE UNCHANGED <<mu, events, task>> /\ now' \in {now, now + 1}
  BY <1>0, <1>2 DEF Tracked
<1>3. ASSUME mu = None, UNCHANGED <<mu, task, now>> PROVE Goal
  BY <1>0, <1>1, <1>3
<1>4. ASSUME NEW c \in Callers, Begin(c) PROVE Goal
  <2> DEFINE r == [pc |-> "begun", at |-> now, ab |-> cfg, todo |-> {}]
  <2>1. r.pc = "begun" /\ r.at = now
    OBVIOUS
  <2>2. task' = [task EXCEPT ![c] = r] /\ UNCHANGED <<mu, now, events>>
    BY <1>4 DEF Begin
  <2> HIDE DEF r
  <2>3. \A b \in Callers : task'[b] = IF b = c THEN r ELSE task[b]
    BY <1>0, <2>2
  <2> QED
    BY <1>0, <2>1, <2>2, <2>3 DEF Tracked
<1>5. ASSUME NEW c \in Callers, NEW i \in IPs, NEW k \in Kinds, Record(c, i, k) PROVE Goal
  <2>1. \A b \in Callers : task'[b].pc # "evaluating" /\ task'[b].at = task[b].at
    <3>1. \A b \in Callers : task[b].pc # "evaluating"
      BY <1>0, <1>1, <1>5 DEF Record
    <3> QED
      BY <1>0, <1>5, <3>1, OthersStay DEF Record
  <2> QED
    BY <1>0, <1>5, <2>1 DEF Record
<1>6. ASSUME NEW c \in Callers, StartEvaluate(c) PROVE Goal
  <2>1. \A b \in Callers : task[b].pc # "evaluating"
    BY <1>0, <1>1, <1>6 DEF StartEvaluate
  <2>2. /\ task' = [task EXCEPT ![c].pc = "evaluating", ![c].todo = Tracked]
        /\ mu' = c /\ now' = now /\ Tracked' = Tracked
    BY <1>6 DEF StartEvaluate, Tracked
  <2>3. \A b \in Callers : /\ b # c => task'[b] = task[b]
                           /\ task'[c].todo = Tracked /\ task'[c].at = task[c].at
    BY <1>0, <2>2, OthersStay
  <2> QED
    BY <1>0, <2>1, <2>2, <2>3
<1>7. ASSUME NEW c \in Callers, NEW i \in IPs, Next1(c, i), mu' = mu, now' = now,
             \A j \in IPs : j # i => events'[j] = events[j]
      PROVE  Goal
  <2>1. task' = [task EXCEPT ![c].todo = task[c].todo \ {i}] /\ task[c].pc = "evaluating"
    BY <1>7 DEF Next1
  <2>2. \A b \in Callers : b # c => task'[b] = task[b]
    BY <1>0, <2>1, OthersStay
  <2>3. task'[c].todo = task[c].todo \ {i} /\ task'[c].at = task[c].at
    BY <1>0, <2>1, OthersStay
  <2>4. Tracked \ {i} \subseteq Tracked'
    BY <1>7 DEF Tracked
  <2> QED
    BY <1>0, <1>7, <2>1, <2>2, <2>3, <2>4
<1>8. ASSUME NEW c \in Callers, FinishEvaluate(c) PROVE Goal
  <2>1. \A b \in Callers : b # c => task[b].pc # "evaluating"
    BY <1>0, <1>8 DEF FinishEvaluate
  <2>2. \A b \in Callers : task'[b] = IF b = c THEN Idle ELSE task[b]
    BY <1>0, <1>8 DEF FinishEvaluate
  <2>3. now' = now
    BY <1>8 DEF FinishEvaluate
  <2> QED
    BY <1>0, <2>1, <2>2, <2>3, IdleFields
<1> HIDE DEF Goal
<1> QED
  <2>1. CASE Tick
    BY <1>2, <2>1 DEF Tick, Goal
  <2>2. CASE Automatic
    <3>1. PICK c \in Callers :
            \/ Begin(c) \/ StartEvaluate(c) \/ FinishEvaluate(c)
            \/ \E i \in IPs : Evaluating(c, i) \/ \E k \in KindsOf[c] : Record(c, i, k)
      BY <2>2 DEF Automatic
    <3>2. KindsOf[c] \subseteq Kinds
      BY ConstantsAssumption
    <3>3. ASSUME NEW i \in IPs, Evaluating(c, i) PROVE Goal
      <4>1. Next1(c, i) /\ mu' = mu /\ now' = now
        BY <3>3 DEF Evaluating, SkipAllowed, SkipQuiet, AutoBan
      <4>2. \A j \in IPs : j # i => events'[j] = events[j]
        BY <3>3 DEF Evaluating, SkipAllowed, SkipQuiet, AutoBan, TypeOK
      <4> QED
        BY <1>7, <4>1, <4>2
    <3> QED
      BY <1>4, <1>5, <1>6, <1>8, <3>1, <3>2, <3>3 DEF Goal
  <2>3. CASE Operator
    BY <1>2, <1>3, <2>3
       DEF Operator, Unban, UnbanAll, ForgiveOffender, ForgiveAll, ManualBan, SetAutoBan, Goal
  <2>4. CASE UNCHANGED vars
    BY <1>2, <2>4 DEF vars, Goal
  <2> QED
    BY <2>1, <2>2, <2>3, <2>4 DEF Next, Goal

\* evaluate()'s critical section: the mutex holder, and nobody else, walks the
\* tracked addresses, and it judges them by a clock that never runs ahead.
THEOREM CriticalSectionHolds == Spec => []CriticalSection
<1>1. Init => CriticalSection
  BY IdleFields DEF Init, CriticalSection
<1> QED
  BY <1>1, TypeCorrect, CriticalStep, PTL DEF Spec

------------------------------------------------------------------------------
(* What the automatic side may do to an address.                            *)

\* No automatic ban on fewer offences than a rule's threshold since the
\* operator last released the address.
THEOREM BansAreDeserved == Spec => BanNeedsOffences
<1>1. ASSUME TypeOK, CountersNeverExaggerate, CriticalSection,
             NEW c \in Callers, NEW i \in IPs, AutoBan(c, i)
      PROVE  \E k \in Kinds : since[i][k] >= Rules[k].hits
  <2> DEFINE t == task[c].at
  <2>1. events[i] # None
    BY <1>1 DEF AutoBan, Next1, CriticalSection, Tracked
  <2>2. PICK k \in Kinds : Fires(i, k, t)
    BY <1>1 DEF AutoBan, FiresFirst
  <2>3. t \in Nat /\ since[i][k] \in Nat
    BY <1>1, CallerFields DEF TypeOK
  <2>4. events[i][k] \in Counter /\ events[i][k].hits \in Nat
    BY <1>1, <2>1 DEF TypeOK, Counter
  <2> DEFINE v == Value(events[i][k], t, Rules[k].window)
  <2>5. v \in Nat /\ v <= events[i][k].hits
    BY <2>3, <2>4, ValueBound, RuleFields
  <2>6. events[i][k].hits <= Scale * since[i][k]
    BY <1>1, <2>1 DEF CountersNeverExaggerate, Tracked
  <2>7. Scale * since[i][k] \in Nat
    BY <2>3, ConstantsAssumption
  <2>8. v <= Scale * since[i][k]
    <3> HIDE DEF v
    <3> QED
      BY <2>4, <2>5, <2>6, <2>7
  <2>9. Rounded(v) \in Nat /\ Rounded(v) <= since[i][k]
    <3> HIDE DEF v
    <3> QED
      BY <2>3, <2>5, <2>8, RoundedBound
  <2>10. Rounded(v) >= Rules[k].hits
    BY <2>2 DEF Fires
  <2>11. Rules[k].hits \in Nat
    BY RuleFields
  <2> HIDE DEF v
  <2> QED
    BY <2>3, <2>9, <2>10, <2>11
<1>2. TypeOK /\ CountersNeverExaggerate /\ CriticalSection /\ [Next]_vars
        => [\A c \in Callers, i \in IPs :
              AutoBan(c, i) => \E k \in Kinds : since[i][k] >= Rules[k].hits]_vars
  BY <1>1
<1> QED
  BY <1>2, TypeCorrect, CountersHonest, CriticalSectionHolds, PTL DEF Spec, BanNeedsOffences

\* A ban in force is never shortened, replaced or dropped by the automatic
\* side, although it decides with a clock reading that may be old.
THEOREM BansStand == Spec => ActiveBanStands
<1>0. ASSUME TypeOK, NEW b \in Ban, NEW t \in Nat, t <= now, Active(b, now)
      PROVE  Active(b, t)
  BY <1>0 DEF Active, Ban, TypeOK
<1>1. ASSUME TypeOK, CriticalSection, Automatic, NEW i \in IPs, Banned(i, now)
      PROVE  bans'[i] = bans[i]
  <2>1. PICK c \in Callers :
            \/ Begin(c) \/ StartEvaluate(c) \/ FinishEvaluate(c)
            \/ \E j \in IPs : Evaluating(c, j) \/ \E k \in KindsOf[c] : Record(c, j, k)
    BY <1>1 DEF Automatic
  <2> DEFINE t == task[c].at
  <2>2. t \in Nat /\ t <= now
    BY <1>1, CallerFields DEF TypeOK, CriticalSection
  <2>3. bans[i] # None /\ bans[i] \in Ban
    BY <1>1 DEF Banned, TypeOK
  <2>4. Active(bans[i], t) /\ Banned(i, t)
    BY <1>0, <1>1, <2>2, <2>3 DEF Banned
  <2>5. CASE FinishEvaluate(c)
    BY <2>4, <2>5 DEF FinishEvaluate
  <2>6. ASSUME NEW j \in IPs, AutoBan(c, j) PROVE bans'[i] = bans[i]
    <3>1. j # i
      BY <2>4, <2>6 DEF AutoBan
    <3> QED
      BY <1>1, <2>6, <3>1 DEF AutoBan, TypeOK
  <2> QED
    BY <2>1, <2>5, <2>6
       DEF Begin, StartEvaluate, Evaluating, SkipAllowed, SkipQuiet, Record
<1>2. TypeOK /\ CriticalSection /\ [Next]_vars
        => [Automatic => \A i \in IPs : Banned(i, now) => bans'[i] = bans[i]]_vars
  BY <1>1
<1> QED
  BY <1>2, TypeCorrect, CriticalSectionHolds, PTL DEF Spec, ActiveBanStands

------------------------------------------------------------------------------
(* The caps on what the engine keeps in memory.                             *)

LEMMA FiniteParts ==
  ASSUME NEW S \in SUBSET IPs
  PROVE  /\ IsFiniteSet(S) /\ Cardinality(S) \in Nat
         /\ \A T \in SUBSET S : Cardinality(T) \in Nat /\ Cardinality(T) <= Cardinality(S)
         /\ \A i \in IPs : Cardinality(S \cup {i}) <= Cardinality(S) + 1
<1>1. IsFiniteSet(S)
  BY FS_Subset, ConstantsAssumption
<1>2. Cardinality(S) \in Nat
  BY <1>1, FS_CardinalityType
<1>3. ASSUME NEW T \in SUBSET S
      PROVE  Cardinality(T) \in Nat /\ Cardinality(T) <= Cardinality(S)
  BY <1>1, FS_Subset, FS_CardinalityType
<1>4. ASSUME NEW i \in IPs PROVE Cardinality(S \cup {i}) <= Cardinality(S) + 1
  BY <1>1, <1>2, FS_AddElement
<1> QED
  BY <1>1, <1>2, <1>3, <1>4

\* evictOffendersLocked leaves room for the newcomer (escalate.go:186).
LEMMA EvictionMakesRoom ==
  ASSUME NEW t \in Nat, NEW kept \in Kept(t)
  PROVE  kept \subseteq Ledger /\ Cardinality(kept) <= EvictTarget
<1> DEFINE live == {i \in Ledger : DecayedLevel(offenders[i], t) > 0}
<1>1. EvictTarget \in Nat
  BY ConstantsAssumption
<1>2. CASE Cardinality(live) <= EvictTarget
  BY <1>2 DEF Kept
<1>3. CASE ~(Cardinality(live) <= EvictTarget)
  <2>1. kept \in SUBSET live /\ Cardinality(kept) = EvictTarget
    BY <1>3 DEF Kept
  <2> QED
    BY <1>1, <2>1
<1> QED
  BY <1>2, <1>3

\* A conviction leaves the ledger within its cap.
LEMMA LedgerStaysCapped ==
  ASSUME TypeOK, Cardinality(Ledger) <= MaxOffenders,
         NEW i \in IPs, NEW t \in Nat, NEW ladder \in BOOLEAN,
         offenders' \in LedgersAfter(i, t, ladder)
  PROVE  Cardinality(Ledger') <= MaxOffenders
<1>1. /\ MaxOffenders \in Nat /\ EvictTarget \in Nat /\ EvictTarget < MaxOffenders
      /\ Ledger \in SUBSET IPs /\ Cardinality(Ledger) \in Nat
  BY FiniteParts, ConstantsAssumption DEF Ledger
<1>2. CASE ~ladder \/ (offenders[i] # None /\ offenders' = [offenders EXCEPT ![i] = Earned(offenders[i], t)])
  <2>1. \A j \in IPs : offenders'[j] # None => offenders[j] # None
    BY <1>2 DEF LedgersAfter, TypeOK
  <2>2. Ledger' \in SUBSET Ledger
    BY <2>1 DEF Ledger
  <2> QED
    BY <1>1, <2>2, FiniteParts
<1>3. CASE Cardinality(Ledger) < MaxOffenders
           /\ offenders' = [offenders EXCEPT ![i] = Earned(offenders[i], t)]
  <2>1. Ledger' \in SUBSET (Ledger \cup {i}) /\ Ledger \cup {i} \in SUBSET IPs
    BY <1>3 DEF Ledger, TypeOK
  <2>2. Cardinality(Ledger') <= Cardinality(Ledger \cup {i})
    BY <2>1, FiniteParts
  <2>3. Cardinality(Ledger \cup {i}) <= Cardinality(Ledger) + 1
    BY <1>1, FiniteParts
  <2>4. Cardinality(Ledger') \in Nat /\ Cardinality(Ledger \cup {i}) \in Nat
    BY <2>1, FiniteParts
  <2> QED
    BY <1>1, <1>3, <2>2, <2>3, <2>4
<1>4. CASE \E kept \in Kept(t) :
             offenders' = [j \in IPs |-> IF j = i THEN Earned(None, t)
                                         ELSE IF j \in kept THEN offenders[j] ELSE None]
  <2>1. PICK kept \in Kept(t) :
          offenders' = [j \in IPs |-> IF j = i THEN Earned(None, t)
                                      ELSE IF j \in kept THEN offenders[j] ELSE None]
    BY <1>4
  <2>2. kept \subseteq Ledger /\ Cardinality(kept) <= EvictTarget
    BY EvictionMakesRoom
  <2>3. Ledger' \in SUBSET (kept \cup {i}) /\ kept \in SUBSET IPs /\ kept \cup {i} \in SUBSET IPs
    BY <1>1, <2>1, <2>2 DEF Ledger
  <2>4. Cardinality(Ledger') <= Cardinality(kept \cup {i})
    BY <2>3, FiniteParts
  <2>5. Cardinality(kept \cup {i}) <= Cardinality(kept) + 1
    BY <2>3, FiniteParts
  <2>6. /\ Cardinality(Ledger') \in Nat /\ Cardinality(kept) \in Nat
        /\ Cardinality(kept \cup {i}) \in Nat
    BY <2>3, FiniteParts
  <2> QED
    BY <1>1, <2>2, <2>4, <2>5, <2>6
<1> QED
  BY <1>2, <1>3, <1>4 DEF LedgersAfter

LEMMA MemoryStep == TypeOK /\ MemoryBounded /\ [Next]_vars => MemoryBounded'
<1> SUFFICES ASSUME TypeOK, MemoryBounded, [Next]_vars
             PROVE  Cardinality(Tracked') <= MaxTracked /\ Cardinality(Ledger') <= MaxOffenders
  BY DEF MemoryBounded
<1> DEFINE Goal == Cardinality(Tracked') <= MaxTracked /\ Cardinality(Ledger') <= MaxOffenders
<1>0. /\ Cardinality(Tracked) <= MaxTracked /\ Cardinality(Ledger) <= MaxOffenders
      /\ MaxTracked \in Nat /\ MaxOffenders \in Nat
      /\ Tracked \in SUBSET IPs /\ Ledger \in SUBSET IPs
      /\ Cardinality(Tracked) \in Nat /\ Cardinality(Ledger) \in Nat
  BY FiniteParts, ConstantsAssumption DEF MemoryBounded, Tracked, Ledger
<1>1. ASSUME Tracked' \subseteq Tracked, Ledger' \subseteq Ledger PROVE Goal
  <2>1. /\ Cardinality(Tracked') \in Nat /\ Cardinality(Tracked') <= Cardinality(Tracked)
        /\ Cardinality(Ledger') \in Nat /\ Cardinality(Ledger') <= Cardinality(Ledger)
    BY <1>0, <1>1, FiniteParts
  <2> QED
    BY <1>0, <2>1
<1>2. ASSUME UNCHANGED <<events, offenders>> PROVE Goal
  BY <1>1, <1>2 DEF Tracked, Ledger
<1>3. ASSUME NEW c \in Callers, NEW i \in IPs, NEW k \in Kinds, Record(c, i, k) PROVE Goal
  <2>1. Ledger' = Ledger
    BY <1>3 DEF Record, Ledger
  <2>2. CASE events' = events
    BY <1>2, <1>3, <2>2 DEF Record
  <2>3. CASE events[i] # None /\ events' # events
    <3>1. \A j \in IPs : events'[j] # None => events[j] # None
      BY <1>3, <2>3 DEF Record, TypeOK
    <3> QED
      BY <1>1, <2>1, <3>1 DEF Tracked
  <2>4. CASE events[i] = None /\ events' # events
    <3>1. Cardinality(Tracked) < MaxTracked
      BY <1>0, <1>3, <2>4 DEF Record
    <3>2. Tracked' \in SUBSET (Tracked \cup {i}) /\ Tracked \cup {i} \in SUBSET IPs
      BY <1>3 DEF Record, Tracked, TypeOK
    <3>3. Cardinality(Tracked') <= Cardinality(Tracked \cup {i})
      BY <3>2, FiniteParts
    <3>4. Cardinality(Tracked \cup {i}) <= Cardinality(Tracked) + 1
      BY <1>0, FiniteParts
    <3>5. Cardinality(Tracked') \in Nat /\ Cardinality(Tracked \cup {i}) \in Nat
      BY <3>2, FiniteParts
    <3> QED
      BY <1>0, <2>1, <3>1, <3>3, <3>4, <3>5
  <2> QED
    BY <2>2, <2>3, <2>4
<1>4. ASSUME NEW c \in Callers, NEW i \in IPs, AutoBan(c, i) PROVE Goal
  <2>1. Tracked' = Tracked
    BY <1>4 DEF AutoBan, Tracked
  <2>2. Cardinality(Ledger') <= MaxOffenders
    BY <1>0, <1>4, LedgerStaysCapped, CallerFields DEF AutoBan, TypeOK
  <2> QED
    BY <1>0, <2>1, <2>2
<1>5. ASSUME \A j \in IPs : events'[j] \in {events[j], None} /\ offenders'[j] \in {offenders[j], None}
      PROVE  Goal
  BY <1>1, <1>5 DEF Tracked, Ledger
<1>6. ASSUME NEW c \in Callers, NEW i \in IPs, SkipAllowed(c, i) PROVE Goal
  BY <1>5, <1>6 DEF SkipAllowed, TypeOK
<1>7. ASSUME NEW c \in Callers, FinishEvaluate(c) PROVE Goal
  BY <1>5, <1>7 DEF FinishEvaluate
<1>8. ASSUME NEW i \in IPs, Unban(i) \/ ForgiveOffender(i) PROVE Goal
  BY <1>5, <1>8 DEF Unban, ForgiveOffender, TypeOK
<1>9. CASE UnbanAll \/ ForgiveAll
  BY <1>5, <1>9 DEF UnbanAll, ForgiveAll
<1> HIDE DEF Goal
<1> QED
  <2>1. CASE Tick
    BY <1>2, <2>1 DEF Tick, Goal
  <2>2. CASE Automatic
    <3>1. PICK c \in Callers :
            \/ Begin(c) \/ StartEvaluate(c) \/ FinishEvaluate(c)
            \/ \E i \in IPs : Evaluating(c, i) \/ \E k \in KindsOf[c] : Record(c, i, k)
      BY <2>2 DEF Automatic
    <3>2. KindsOf[c] \subseteq Kinds
      BY ConstantsAssumption
    <3>3. CASE Begin(c) \/ StartEvaluate(c)
      BY <1>2, <3>3 DEF Begin, StartEvaluate, Goal
    <3>4. ASSUME NEW i \in IPs, Evaluating(c, i) PROVE Goal
      BY <1>2, <1>4, <1>6, <3>4 DEF Evaluating, SkipQuiet
    <3> QED
      BY <1>3, <1>7, <3>1, <3>2, <3>3, <3>4 DEF Goal
  <2>3. CASE Operator
    BY <1>2, <1>8, <1>9, <2>3 DEF Operator, ManualBan, SetAutoBan, Goal
  <2>4. CASE UNCHANGED vars
    BY <1>2, <2>4 DEF vars, Goal
  <2> QED
    BY <2>1, <2>2, <2>3, <2>4 DEF Next, Goal

\* The counters and the ledger stay within the caps of banner.go:253 and
\* escalate.go:56, however many addresses offend and however ties fall when
\* the ledger is thinned out.
THEOREM MemoryIsBounded == Spec => []MemoryBounded
<1>1. Init => MemoryBounded
  <2> SUFFICES ASSUME Init PROVE MemoryBounded
    OBVIOUS
  <2>1. Tracked = {} /\ Ledger = {}
    BY DEF Init, Tracked, Ledger
  <2> QED
    BY <2>1, FS_EmptySet, ConstantsAssumption DEF MemoryBounded
<1> QED
  BY <1>1, TypeCorrect, MemoryStep, PTL DEF Spec


------------------------------------------------------------------------------
(* What lowers a rung.                                                      *)

LEMMA QuotientGrows ==
  ASSUME NEW x \in Nat, NEW y \in Nat, NEW w \in Nat \ {0}, x <= y
  PROVE  x \div w <= y \div w
<1> DEFINE r == y \div w
<1>1. r \in Nat /\ y < w * (r + 1)
  OBVIOUS
<1>2. w * (r + 1) \in Nat
  BY <1>1
<1> HIDE DEF r
<1>3. x < w * (r + 1)
  BY <1>1, <1>2
<1>4. x \div w <= r
  BY <1>1, <1>3, QuotientBound
<1> QED
  BY <1>4 DEF r

\* Time only takes rungs away (decayedLevel).
LEMMA TimeOnlyForgives ==
  ASSUME NEW o \in Offender \cup {None}, NEW t \in Nat, NEW n \in Nat, t <= n
  PROVE  DecayedLevel(o, n) <= DecayedLevel(o, t)
<1>1. CASE o = None
  BY <1>1 DEF DecayedLevel
<1>2. CASE o # None /\ t <= o.last
  <2>1. DecayedLevel(o, t) = o.level
    BY <1>2 DEF DecayedLevel
  <2> QED
    BY <1>2, <2>1, DecayedLevelBound
<1>3. CASE o # None /\ ~(t <= o.last)
  <2>1. o.level \in Nat /\ o.last \in Nat /\ Decay \in Nat \ {0}
    BY <1>3, ConstantsAssumption DEF Offender
  <2> DEFINE p == (t - o.last) \div Decay
             q == (n - o.last) \div Decay
  <2>2. t - o.last \in Nat /\ n - o.last \in Nat /\ t - o.last <= n - o.last
    BY <1>3, <2>1
  <2>3. p \in Nat /\ q \in Nat /\ p <= q
    BY <2>1, <2>2, DivIsNat, QuotientGrows
  <2>4. DecayedLevel(o, t) = Max0(o.level - p) /\ DecayedLevel(o, n) = Max0(o.level - q)
    BY <1>3, <2>1 DEF DecayedLevel
  <2> HIDE DEF p, q
  <2> QED
    BY <2>1, <2>3, <2>4 DEF Max0
<1> QED
  BY <1>1, <1>2, <1>3

\* A conviction never lowers a rung, even one timed by a clock reading that is
\* older than the record's own, unless that reading is a whole period old.
LEMMA ConvictionNeverLowers ==
  ASSUME NEW o \in Offender \cup {None}, o # None => o.level <= Len(Steps),
         NEW t \in Nat, NEW n \in Nat, t <= n, n - t < Decay
  PROVE  DecayedLevel(o, n) <= DecayedLevel(Earned(o, t), n)
<1> DEFINE e == Earned(o, t)
           l == NextLevel(o, t)
<1>1. e # None /\ e.level = l /\ e.last = t /\ l \in 1..Len(Steps)
  BY EarnedBound, NextLevelBound, ConstantsAssumption DEF Earned
<1>2. Len(Steps) \in Nat /\ Decay \in Nat \ {0} /\ l \in Nat
  BY <1>1, ConstantsAssumption
<1>3. DecayedLevel(e, n) = l
  <2>1. CASE n <= t
    BY <1>1, <2>1 DEF DecayedLevel
  <2>2. CASE ~(n <= t)
    <3>1. n - t \in Nat /\ n - t < Decay * (0 + 1)
      BY <1>2, <2>2
    <3>2. (n - t) \div Decay <= 0 /\ (n - t) \div Decay \in Nat
      BY <1>2, <3>1, QuotientBound, DivIsNat
    <3>3. DecayedLevel(e, n) = Max0(l - ((n - t) \div Decay))
      BY <1>1, <2>2 DEF DecayedLevel
    <3>4. (n - t) \div Decay = 0
      BY <3>2
    <3> HIDE DEF e, l
    <3> QED
      BY <1>2, <3>3, <3>4 DEF Max0
  <2> QED
    BY <2>1, <2>2
<1>4. DecayedLevel(o, n) <= DecayedLevel(o, t)
  BY TimeOnlyForgives
<1>5. /\ DecayedLevel(o, n) \in Nat /\ DecayedLevel(o, t) \in Nat
      /\ o # None => o.level \in Nat /\ DecayedLevel(o, n) <= o.level
      /\ o = None => DecayedLevel(o, n) = 0
  BY DecayedLevelBound DEF Offender, DecayedLevel
<1>6. DecayedLevel(o, n) <= Len(Steps)
  BY <1>2, <1>5
<1>7. l = IF DecayedLevel(o, t) + 1 > Len(Steps) THEN Len(Steps) ELSE DecayedLevel(o, t) + 1
  BY DEF NextLevel
<1> HIDE DEF e, l
<1>8. DecayedLevel(o, n) <= l
  BY <1>2, <1>4, <1>5, <1>6, <1>7
<1> QED
  BY <1>3, <1>8 DEF e

\* A caller's clock reading is at most MaxLag old.
LagBounded ==
    \A c \in Callers : task[c].pc # "idle" => now - task[c].at <= MaxLag

LEMMA LagStep == TypeOK /\ LagBounded /\ [Next]_vars => LagBounded'
<1> SUFFICES ASSUME TypeOK, LagBounded, [Next]_vars, NEW b \in Callers
             PROVE  task'[b].pc # "idle" => now' - task'[b].at <= MaxLag
  BY DEF LagBounded
<1>0. /\ task \in [Callers -> Task] /\ now \in Nat /\ task[b].at \in Nat
      /\ MaxLag \in Nat \ {0}
      /\ task[b].pc # "idle" => now - task[b].at <= MaxLag
  BY CallerFields, ConstantsAssumption DEF LagBounded, TypeOK
<1>1. CASE Tick
  BY <1>0, <1>1 DEF Tick
<1>2. ASSUME now' = now, task'[b].pc # "idle" => task[b].pc # "idle", task'[b].at = task[b].at
      PROVE  task'[b].pc # "idle" => now' - task'[b].at <= MaxLag
  BY <1>0, <1>2
<1>3. ASSUME NEW c \in Callers, Begin(c)
      PROVE  task'[b].pc # "idle" => now' - task'[b].at <= MaxLag
  <2>1. CASE b = c
    <3>1. task'[b].at = now /\ now' = now
      BY <1>0, <1>3, <2>1 DEF Begin
    <3> QED
      BY <1>0, <3>1
  <2>2. CASE b # c
    <3>1. task'[b] = task[b] /\ now' = now
      BY <1>0, <1>3, <2>2 DEF Begin
    <3> QED
      BY <1>2, <3>1
  <2> QED
    BY <2>1, <2>2
<1>4. ASSUME NEW c \in Callers, NEW i \in IPs, NEW k \in Kinds, Record(c, i, k)
      PROVE  task'[b].pc # "idle" => now' - task'[b].at <= MaxLag
  <2>1. /\ now' = now /\ task[c].pc = "begun"
        /\ task' = [task EXCEPT ![c].pc = IF c = Login THEN "recorded" ELSE "begun"]
    BY <1>4 DEF Record
  <2>2. task'[b].at = task[b].at /\ (b # c => task'[b] = task[b])
    BY <1>0, <2>1, OthersStay
  <2> QED
    BY <1>2, <2>1, <2>2
<1>5. ASSUME NEW c \in Callers, StartEvaluate(c)
      PROVE  task'[b].pc # "idle" => now' - task'[b].at <= MaxLag
  <2>1. /\ now' = now /\ task[c].pc # "idle"
        /\ task' = [task EXCEPT ![c].pc = "evaluating", ![c].todo = Tracked]
    BY <1>5 DEF StartEvaluate
  <2>2. task'[b].at = task[b].at /\ (b # c => task'[b] = task[b])
    BY <1>0, <2>1, OthersStay
  <2> QED
    BY <1>2, <2>1, <2>2
<1>6. ASSUME NEW c \in Callers, NEW i \in IPs, Evaluating(c, i)
      PROVE  task'[b].pc # "idle" => now' - task'[b].at <= MaxLag
  <2>1. now' = now /\ task' = [task EXCEPT ![c].todo = task[c].todo \ {i}]
    BY <1>6 DEF Evaluating, SkipAllowed, SkipQuiet, AutoBan, Next1
  <2>2. /\ task'[b].at = task[b].at /\ (b # c => task'[b] = task[b])
        /\ task'[c].pc = task[c].pc
    BY <1>0, <2>1, OthersStay
  <2> QED
    BY <1>2, <2>1, <2>2
<1>7. ASSUME NEW c \in Callers, FinishEvaluate(c)
      PROVE  task'[b].pc # "idle" => now' - task'[b].at <= MaxLag
  <2>1. now' = now /\ task'[b] = IF b = c THEN Idle ELSE task[b]
    BY <1>0, <1>7 DEF FinishEvaluate
  <2> QED
    BY <1>2, <2>1, IdleFields
<1>8. CASE Operator \/ UNCHANGED vars
  <2>1. now' = now /\ task' = task
    BY <1>8 DEF Operator, Unban, UnbanAll, ForgiveOffender, ForgiveAll, ManualBan,
       SetAutoBan, vars
  <2> QED
    BY <1>2, <2>1
<1> QED
  <2>1. CASE Automatic
    <3>1. PICK c \in Callers :
            \/ Begin(c) \/ StartEvaluate(c) \/ FinishEvaluate(c)
            \/ \E i \in IPs : Evaluating(c, i) \/ \E k \in KindsOf[c] : Record(c, i, k)
      BY <2>1 DEF Automatic
    <3>2. KindsOf[c] \subseteq Kinds
      BY ConstantsAssumption
    <3> QED
      BY <1>3, <1>4, <1>5, <1>6, <1>7, <3>1, <3>2
  <2> QED
    BY <1>1, <1>8, <2>1 DEF Next

LEMMA RungStep ==
  ASSUME MaxLag < Decay, TypeOK, RungsAreEarned, CriticalSection, LagBounded, [Next]_vars,
         NEW i \in IPs, DecayedLevel(offenders'[i], now) < DecayedLevel(offenders[i], now)
  PROVE  Mercy(i)
<1>0. /\ now \in Nat /\ MaxLag \in Nat /\ Decay \in Nat
      /\ offenders \in [IPs -> Offender \cup {None}]
      /\ DecayedLevel(offenders[i], now) \in Nat
      /\ offenders[i] # None => offenders[i].level \in 1..Len(Steps)
  BY DecayedLevelBound, ConstantsAssumption DEF TypeOK, RungsAreEarned, Ledger
<1>1. CASE offenders'[i] = offenders[i]
  BY <1>0, <1>1
<1>2. ASSUME NEW c \in Callers, NEW j \in IPs, AutoBan(c, j) PROVE Mercy(i)
  <2> DEFINE t == task[c].at
  <2>1. /\ t \in Nat /\ t <= now /\ now - t <= MaxLag
        /\ task[c].ab.ladder \in BOOLEAN
    BY <1>2, CallerFields DEF AutoBan, Next1, CriticalSection, LagBounded, TypeOK
  <2>2. offenders' \in LedgersAfter(j, t, task[c].ab.ladder)
    BY <1>2 DEF AutoBan
  <2>3. CASE offenders' = [offenders EXCEPT ![j] = Earned(offenders[j], t)]
    <3>1. CASE i = j
      <4>1. offenders'[i] = Earned(offenders[i], t)
        BY <1>0, <2>3, <3>1
      <4>2. offenders[i] # None => offenders[i].level <= Len(Steps)
        BY <1>0, ConstantsAssumption
      <4>3. now - t < Decay
        BY <1>0, <2>1
      <4>4. DecayedLevel(offenders[i], now) <= DecayedLevel(offenders'[i], now)
        BY <1>0, <2>1, <4>1, <4>2, <4>3, ConvictionNeverLowers
      <4>5. DecayedLevel(offenders'[i], now) \in Nat
        BY <1>0, <2>1, <4>1, EarnedBound, DecayedLevelBound
      <4> QED
        BY <1>0, <4>4, <4>5
    <3>2. CASE i # j
      BY <1>0, <1>1, <2>3, <3>2
    <3> QED
      BY <3>1, <3>2
  <2>4. CASE offenders[j] = None /\ ~(Cardinality(Ledger) < MaxOffenders)
    <3>1. Cardinality(Ledger) >= MaxOffenders /\ j \in IPs \ Ledger
      <4>1. Cardinality(Ledger) \in Nat /\ MaxOffenders \in Nat
        BY FiniteParts, ConstantsAssumption DEF Ledger
      <4> QED
        BY <2>4, <4>1 DEF Ledger
    <3> QED
      BY <1>2, <3>1 DEF Mercy
  <2>5. CASE offenders' = offenders
    BY <1>1, <2>5
  <2> QED
    BY <2>2, <2>3, <2>4, <2>5 DEF LedgersAfter
<1>3. ASSUME NEW c \in Callers, FinishEvaluate(c) PROVE Mercy(i)
  <2> DEFINE t == task[c].at
  <2>1. t \in Nat /\ t <= now
    BY CallerFields DEF CriticalSection, TypeOK
  <2>2. offenders'[i] = IF DecayedLevel(offenders[i], t) <= 0 THEN None ELSE offenders[i]
    BY <1>3 DEF FinishEvaluate
  <2>3. CASE DecayedLevel(offenders[i], t) <= 0
    <3>1. /\ DecayedLevel(offenders[i], now) <= DecayedLevel(offenders[i], t)
          /\ DecayedLevel(offenders[i], t) \in Nat
      BY <1>0, <2>1, TimeOnlyForgives, DecayedLevelBound
    <3>2. DecayedLevel(offenders'[i], now) = 0
      BY <2>2, <2>3 DEF DecayedLevel
    <3> QED
      BY <1>0, <2>3, <3>1, <3>2
  <2> QED
    BY <1>1, <2>2, <2>3
<1>4. ASSUME NEW j \in IPs, ForgiveOffender(j) PROVE Mercy(i)
  <2>1. j = i \/ offenders'[i] = offenders[i]
    BY <1>0, <1>4 DEF ForgiveOffender
  <2> QED
    BY <1>1, <1>4, <2>1 DEF Mercy
<1>5. CASE ForgiveAll
  BY <1>5 DEF Mercy
<1> QED
  <2>1. CASE Tick \/ UNCHANGED vars
    BY <1>1, <2>1 DEF Tick, vars
  <2>2. CASE Automatic
    <3>1. PICK c \in Callers :
            \/ Begin(c) \/ StartEvaluate(c) \/ FinishEvaluate(c)
            \/ \E j \in IPs : Evaluating(c, j) \/ \E k \in KindsOf[c] : Record(c, j, k)
      BY <2>2 DEF Automatic
    <3>2. CASE offenders' = offenders
      BY <1>1, <3>2
    <3> QED
      BY <1>2, <1>3, <3>1, <3>2
      DEF Begin, StartEvaluate, Evaluating, SkipAllowed, SkipQuiet, Record
  <2>3. CASE Operator
    BY <1>1, <1>4, <1>5, <2>3 DEF Operator, Unban, UnbanAll, ManualBan, SetAutoBan
  <2> QED
    BY <2>1, <2>2, <2>3 DEF Next

\* Nothing but time, a full ledger and the two forgive buttons lowers the rung
\* an address stands on: not a release, not a new setting, and not a ban timed
\* by a caller that read the clock earlier than the last ban, as long as that
\* reading is less than one decay period old.
THEOREM OnlyMercyLowersARung ==
  MaxLag < Decay => (Spec => OnlyTimeAndMercyLowerARung)
<1> SUFFICES ASSUME MaxLag < Decay PROVE Spec => OnlyTimeAndMercyLowerARung
  OBVIOUS
<1>1. Init => LagBounded
  BY IdleFields DEF Init, LagBounded
<1>2. TypeOK /\ RungsAreEarned /\ CriticalSection /\ LagBounded /\ [Next]_vars
        => [\A i \in IPs :
              DecayedLevel(offenders'[i], now) < DecayedLevel(offenders[i], now)
                => Mercy(i)]_vars
  BY RungStep
<1> QED
  BY <1>1, <1>2, LagStep, TypeCorrect, RungsEarned, CriticalSectionHolds, PTL
     DEF Spec, OnlyTimeAndMercyLowerARung

==============================================================================
