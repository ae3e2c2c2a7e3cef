--------------------------- MODULE TopologyMapProofs ---------------------------
(***************************************************************************)
(* Proofs about TopologyMap, for any services, rules and ports.            *)
(***************************************************************************)
EXTENDS TopologyMap, FiniteSetTheorems, WellFoundedInduction, TLAPS

-------------------------------------------------------------------------------
LEMMA LeastMember ==
    ASSUME NEW S \in SUBSET Nat, S # {}
    PROVE  \E m \in S : \A k \in S : m <= k
  <1>1. IsWellFoundedOn(OpToRel(<, Nat), Nat)
    BY NatLessThanWellFounded
  <1>2. PICK m \in S : \A k \in S : ~(<<k, m>> \in OpToRel(<, Nat))
    BY <1>1, WFMin
  <1>3. \A k \in S : ~(k < m)
    BY <1>2 DEF OpToRel
  <1> QED BY <1>3

(***************************************************************************)
(* The members of a finite set of numbers, in ascending order.             *)
(***************************************************************************)
AtMost(I, i) == {j \in I : j <= i}
Rank(I) == [i \in I |-> Cardinality(AtMost(I, i))]

LEMMA AtMostFinite ==
    ASSUME NEW I \in SUBSET Nat, IsFiniteSet(I), NEW i \in I
    PROVE  /\ IsFiniteSet(AtMost(I, i)) /\ Cardinality(AtMost(I, i)) \in 1..Cardinality(I)
  <1>1. AtMost(I, i) \subseteq I /\ i \in AtMost(I, i)
    BY DEF AtMost
  <1>2. /\ IsFiniteSet(AtMost(I, i)) /\ Cardinality(AtMost(I, i)) <= Cardinality(I)
        /\ Cardinality(AtMost(I, i)) \in Nat /\ Cardinality(I) \in Nat
    BY <1>1, FS_Subset, FS_CardinalityType
  <1>3. Cardinality(AtMost(I, i)) # 0
    BY <1>1, <1>2, FS_EmptySet
  <1> QED BY <1>2, <1>3

LEMMA RankGrows ==
    ASSUME NEW I \in SUBSET Nat, IsFiniteSet(I), NEW i \in I, NEW j \in I, i < j
    PROVE  Cardinality(AtMost(I, i)) < Cardinality(AtMost(I, j))
  <1>1. AtMost(I, i) \subseteq AtMost(I, j) /\ j \in AtMost(I, j) /\ j \notin AtMost(I, i)
    <2>1. i \in Nat /\ j \in Nat /\ \A k \in I : k \in Nat
      OBVIOUS
    <2>2. (\A k \in I : k <= i => k <= j) /\ j <= j /\ ~(j <= i)
      BY <2>1
    <2> QED BY <2>2 DEF AtMost
  <1>2. /\ IsFiniteSet(AtMost(I, j))
        /\ Cardinality(AtMost(I, i)) \in Nat /\ Cardinality(AtMost(I, j)) \in Nat
    BY AtMostFinite
  <1>3. /\ Cardinality(AtMost(I, i)) <= Cardinality(AtMost(I, j))
        /\ Cardinality(AtMost(I, i)) # Cardinality(AtMost(I, j))
    BY <1>1, <1>2, FS_Subset
  <1> QED BY <1>2, <1>3

(* Every number from 1 to the size of the set is the rank of one member.   *)
LEMMA RankBijective ==
    ASSUME NEW I \in SUBSET Nat, IsFiniteSet(I)
    PROVE  /\ \A i, j \in I : Rank(I)[i] = Rank(I)[j] => i = j
           /\ \A k \in 1..Cardinality(I) : \E i \in I : Rank(I)[i] = k
  <1>1. Rank(I) \in [I -> 1..Cardinality(I)]
    BY AtMostFinite DEF Rank
  <1>2. \A i, j \in I : Rank(I)[i] = Rank(I)[j] => i = j
    <2> SUFFICES ASSUME NEW i \in I, NEW j \in I, Rank(I)[i] = Rank(I)[j], i # j PROVE FALSE
      OBVIOUS
    <2>1. Cardinality(AtMost(I, i)) = Cardinality(AtMost(I, j))
      BY DEF Rank
    <2>2. i < j \/ j < i
      OBVIOUS
    <2>3. Cardinality(AtMost(I, i)) \in Nat /\ Cardinality(AtMost(I, j)) \in Nat
      BY AtMostFinite
    <2> QED BY <2>1, <2>2, <2>3, RankGrows
  <1>3. Rank(I) \in Injection(I, 1..Cardinality(I))
    BY <1>1, <1>2 DEF Injection, IsInjective
  <1>4. Cardinality(I) \in Nat /\ IsFiniteSet(1..Cardinality(I))
        /\ Cardinality(1..Cardinality(I)) = Cardinality(I)
    BY FS_CardinalityType, FS_Interval
  <1>5. Rank(I) \in Surjection(I, 1..Cardinality(I))
    BY <1>3, <1>4, FS_Injection
  <1> QED BY <1>2, <1>5 DEF Surjection

(* The k-th member is the one of rank k.                                   *)
LEMMA NthRank ==
    ASSUME NEW I \in SUBSET Nat, IsFiniteSet(I)
    PROVE  /\ \A k \in 1..Cardinality(I) : Nth(I, k) \in I /\ Rank(I)[Nth(I, k)] = k
           /\ \A i \in I : Nth(I, Rank(I)[i]) = i
  <1>1. ASSUME NEW k \in 1..Cardinality(I)
        PROVE  Nth(I, k) \in I /\ Rank(I)[Nth(I, k)] = k
    <2>1. PICK i \in I : Cardinality({j \in I : j <= i}) = k
      BY RankBijective DEF Rank, AtMost
    <2>2. Nth(I, k) \in I /\ Cardinality({j \in I : j <= Nth(I, k)}) = k
      BY <2>1 DEF Nth
    <2> QED BY <2>2 DEF Rank, AtMost
  <1>2. ASSUME NEW i \in I PROVE Nth(I, Rank(I)[i]) = i
    <2>1. Rank(I)[i] \in 1..Cardinality(I)
      BY AtMostFinite DEF Rank
    <2>2. Rank(I)[Nth(I, Rank(I)[i])] = Rank(I)[i] /\ Nth(I, Rank(I)[i]) \in I
      BY <2>1, <1>1
    <2>3. \A a, b \in I : Rank(I)[a] = Rank(I)[b] => a = b
      BY RankBijective
    <2> QED BY <2>2, <2>3
  <1> QED BY <1>1, <1>2

(* Nth numbers the members of a finite set in ascending order.             *)
LEMMA NthFacts ==
    ASSUME NEW I \in SUBSET Nat, IsFiniteSet(I)
    PROVE  /\ Cardinality(I) \in Nat
           /\ \A k \in 1..Cardinality(I) : Nth(I, k) \in I
           /\ \A i \in I : \E k \in 1..Cardinality(I) : Nth(I, k) = i
           /\ \A k, l \in 1..Cardinality(I) : Nth(I, k) = Nth(I, l) => k = l
  <1>1. Cardinality(I) \in Nat /\ \A i \in I : Rank(I)[i] \in 1..Cardinality(I)
    BY AtMostFinite, FS_CardinalityType DEF Rank
  <1>2. /\ \A k \in 1..Cardinality(I) : Nth(I, k) \in I /\ Rank(I)[Nth(I, k)] = k
        /\ \A i \in I : Nth(I, Rank(I)[i]) = i
    BY NthRank
  <1> QED BY <1>1, <1>2

(* What is picked from a sequence is what it has at the positions picked.  *)
LEMMA PickedFacts ==
    ASSUME NEW V, NEW s \in Seq(V), NEW I \in SUBSET DOMAIN s
    PROVE  /\ IsFiniteSet(I)
           /\ Picked(s, I) \in Seq(V) /\ Len(Picked(s, I)) = Cardinality(I)
           /\ Range(Picked(s, I)) = {s[i] : i \in I}
           /\ (\A i, j \in I : s[i] = s[j] => i = j) => IsInjective(Picked(s, I))
           /\ Picked(s, I) = <<>> <=> I = {}
  <1>1. Len(s) \in Nat /\ DOMAIN s = 1..Len(s)
    OBVIOUS
  <1>2. IsFiniteSet(I) /\ I \in SUBSET Nat
    <2>1. IsFiniteSet(1..Len(s))
      BY <1>1, FS_Interval
    <2>2. I \in SUBSET (1..Len(s))
      BY <1>1
    <2> QED BY <2>1, <2>2, FS_Subset
  <1>3. Cardinality(I) \in Nat
    BY <1>2, NthFacts
  <1> DEFINE p == Picked(s, I)
  <1>4. /\ p = [k \in 1..Cardinality(I) |-> s[Nth(I, k)]]
        /\ \A k \in 1..Cardinality(I) : Nth(I, k) \in DOMAIN s /\ p[k] \in V
    BY <1>1, <1>2, NthFacts DEF Picked
  <1>5. p \in Seq(V) /\ Len(p) = Cardinality(I) /\ DOMAIN p = 1..Cardinality(I)
    <2> HIDE DEF p
    <2> QED BY <1>3, <1>4
  <1>6. Range(p) = {s[i] : i \in I}
    <2>1. ASSUME NEW v \in Range(p) PROVE v \in {s[i] : i \in I}
      <3>1. PICK k \in 1..Cardinality(I) : v = s[Nth(I, k)]
        BY <1>4 DEF Range
      <3> QED BY <3>1, <1>2, NthFacts
    <2>2. ASSUME NEW i \in I PROVE s[i] \in Range(p)
      <3>1. PICK k \in 1..Cardinality(I) : Nth(I, k) = i
        BY <1>2, NthFacts
      <3> QED BY <3>1, <1>4 DEF Range
    <2> QED BY <2>1, <2>2
  <1>7. ASSUME \A i, j \in I : s[i] = s[j] => i = j PROVE IsInjective(p)
    <2> SUFFICES ASSUME NEW k \in 1..Cardinality(I), NEW l \in 1..Cardinality(I), p[k] = p[l]
                 PROVE  k = l
      BY <1>5 DEF IsInjective
    <2>1. s[Nth(I, k)] = s[Nth(I, l)]
      BY <1>4
    <2>2. Nth(I, k) \in I /\ Nth(I, l) \in I
      BY <1>2, NthFacts
    <2>3. Nth(I, k) = Nth(I, l)
      BY <2>1, <2>2, <1>7
    <2> QED BY <2>3, <1>2, NthFacts
  <1>8. p = <<>> <=> I = {}
    <2>1. p = <<>> <=> Cardinality(I) = 0
      <3> HIDE DEF p
      <3> QED BY <1>3, <1>5
    <2> QED BY <2>1, <1>2, FS_EmptySet
  <1> QED BY <1>2, <1>5, <1>6, <1>7, <1>8

(* The first positions of a key, one for every key there is.               *)
Firsts(N, key) == {i \in 1..N : \A j \in 1..(i - 1) : key[j] # key[i]}

LEMMA FirstsFacts ==
    ASSUME NEW N \in Nat, NEW key
    PROVE  /\ \A i \in 1..N : \E j \in Firsts(N, key) : key[j] = key[i]
           /\ \A i, j \in Firsts(N, key) : key[i] = key[j] => i = j
  <1> DEFINE J == Firsts(N, key)
  <1>1. ASSUME NEW i \in 1..N PROVE \E j \in J : key[j] = key[i]
    <2> DEFINE same == {j \in 1..N : key[j] = key[i]}
    <2>1. same \in SUBSET Nat /\ same # {}
      OBVIOUS
    <2>2. PICK m \in same : \A k \in same : m <= k
      BY <2>1, LeastMember
    <2>3. m \in J
      BY <2>2 DEF Firsts
    <2> QED BY <2>2, <2>3
  <1>2. ASSUME NEW i \in J, NEW j \in J, key[i] = key[j], i # j PROVE FALSE
    BY <1>2 DEF Firsts
  <1> QED BY <1>1, <1>2

-------------------------------------------------------------------------------
(***************************************************************************)
(* What is drawn: the services, the rules and the backends of a topology.  *)
(***************************************************************************)
(***************************************************************************)
(* What the state may be.                                                  *)
(***************************************************************************)
Partial(S, V) == UNION {[D -> V] : D \in SUBSET S}
Topology == [reality : BOOLEAN, listen : SUBSET MapPorts,
             services : Partial(Range(HttpNames), HttpService),
             sni : Partial(Range(SniNames), SniRule)]

LEMMA TopologyTyped ==
    ASSUME NEW T
    PROVE  T \in Topology <=>
               /\ T = [reality |-> T.reality, listen |-> T.listen,
                       services |-> T.services, sni |-> T.sni]
               /\ T.reality \in BOOLEAN /\ T.listen \subseteq MapPorts
               /\ DOMAIN T.services \subseteq Range(HttpNames)
               /\ T.services \in [DOMAIN T.services -> HttpService]
               /\ DOMAIN T.sni \subseteq Range(SniNames)
               /\ T.sni \in [DOMAIN T.sni -> SniRule]
  <1>1. ASSUME NEW S, NEW V, NEW f
        PROVE  f \in Partial(S, V) <=> DOMAIN f \subseteq S /\ f \in [DOMAIN f -> V]
    BY DEF Partial
  <1>2. T \in Topology <=>
          /\ T = [reality |-> T.reality, listen |-> T.listen,
                  services |-> T.services, sni |-> T.sni]
          /\ T.reality \in BOOLEAN /\ T.listen \in SUBSET MapPorts
          /\ T.services \in Partial(Range(HttpNames), HttpService)
          /\ T.sni \in Partial(Range(SniNames), SniRule)
    BY DEF Topology
  <1> QED BY <1>1, <1>2

LEMMA TypeOKIs == MapTypeOK <=> topo \in Topology
  BY TopologyTyped DEF MapTypeOK

LEMMA TopologyFacts ==
    ASSUME NEW T \in Topology
    PROVE  /\ T.reality \in BOOLEAN /\ T.listen \subseteq MapPorts
           /\ DOMAIN T.services \subseteq Range(HttpNames)
           /\ DOMAIN T.sni \subseteq Range(SniNames)
           /\ \A n \in DOMAIN T.services : T.services[n] \in HttpService
           /\ \A n \in DOMAIN T.sni : T.sni[n] \in SniRule
  <1>1. /\ T.reality \in BOOLEAN /\ T.listen \subseteq MapPorts
        /\ T.services \in Partial(Range(HttpNames), HttpService)
        /\ T.sni \in Partial(Range(SniNames), SniRule)
    BY DEF Topology
  <1>2. PICK D \in SUBSET Range(HttpNames) : T.services \in [D -> HttpService]
    BY <1>1 DEF Partial
  <1>3. PICK E \in SUBSET Range(SniNames) : T.sni \in [E -> SniRule]
    BY <1>1 DEF Partial
  <1> QED BY <1>1, <1>2, <1>3

(* Names kept in the order of a sequence of distinct names.                *)
LEMMA NamesPicked ==
    ASSUME NEW names \in Seq(STRING), IsInjective(names), NEW D \in SUBSET Range(names)
    PROVE  LET p == Picked(names, {i \in DOMAIN names : names[i] \in D}) IN
           /\ p \in Seq(STRING) /\ IsInjective(p) /\ Range(p) = D
           /\ p = <<>> <=> D = {}
  <1> DEFINE I == {i \in DOMAIN names : names[i] \in D}
  <1>1. I \in SUBSET DOMAIN names
    OBVIOUS
  <1>2. \A i, j \in I : names[i] = names[j] => i = j
    BY DEF IsInjective
  <1>3. {names[i] : i \in I} = D
    BY DEF Range
  <1>4. I = {} <=> D = {}
    BY <1>3
  <1> HIDE DEF I
  <1>5. /\ Picked(names, I) \in Seq(STRING) /\ IsInjective(Picked(names, I))
        /\ Range(Picked(names, I)) = {names[i] : i \in I}
        /\ Picked(names, I) = <<>> <=> I = {}
    BY <1>1, <1>2, PickedFacts
  <1> QED BY <1>3, <1>4, <1>5 DEF I

LEMMA ServicesDrawn ==
    ASSUME NEW T \in Topology
    PROVE  /\ ServiceNames(T) \in Seq(STRING) /\ IsInjective(ServiceNames(T))
           /\ Range(ServiceNames(T)) = DOMAIN T.services
  BY MapAssumption, TopologyFacts, NamesPicked DEF ServiceNames

LEMMA RulesDrawn ==
    ASSUME NEW T \in Topology
    PROVE  /\ SniNodes(T) \in Seq(STRING) /\ IsInjective(SniNodes(T))
           /\ Range(SniNodes(T)) = LiveRules(T)
           /\ SniOn(T) <=> LiveRules(T) # {}
  <1>1. LiveRules(T) \in SUBSET Range(SniNames)
    BY TopologyFacts DEF LiveRules
  <1> QED BY <1>1, MapAssumption, NamesPicked DEF SniNodes, SniOn

(* One box for every host and path that a service has.                     *)
LEMMA RoutesDrawn ==
    ASSUME NEW T \in Topology
    PROVE  /\ Routes(T) \in Seq(STRING) /\ Range(Routes(T)) \subseteq DOMAIN T.services
           /\ \A i, j \in DOMAIN Routes(T) :
                 T.services[Routes(T)[i]].host = T.services[Routes(T)[j]].host => i = j
  <1> DEFINE s == ServiceNames(T)
             key == [i \in DOMAIN s |-> T.services[s[i]].host]
             I == {i \in DOMAIN s : \A j \in 1..(i - 1) :
                      T.services[s[j]].host # T.services[s[i]].host}
             J == Firsts(Len(s), key)
  <1>1. s \in Seq(STRING) /\ Range(s) = DOMAIN T.services /\ IsInjective(s)
    BY ServicesDrawn
  <1>2. Len(s) \in Nat /\ DOMAIN s = 1..Len(s)
    BY <1>1
  <1> HIDE DEF s
  <1>3. \A i \in DOMAIN s : key[i] = T.services[s[i]].host
    OBVIOUS
  <1> HIDE DEF key
  <1>4. I = J
    BY <1>2, <1>3 DEF Firsts
  <1>5. \A i, j \in J : key[i] = key[j] => i = j
    BY <1>2, FirstsFacts
  <1>6. Routes(T) = Picked(s, I)
    BY DEF Routes, s
  <1>7. I \in SUBSET DOMAIN s
    OBVIOUS
  <1>8. \A i, j \in I : T.services[s[i]].host = T.services[s[j]].host => i = j
    BY <1>3, <1>4, <1>5
  <1> HIDE DEF I
  <1>9. /\ Routes(T) \in Seq(STRING) /\ Range(Routes(T)) = {s[i] : i \in I}
        /\ IsInjective(Routes(T))
    <2>1. \A i, j \in I : s[i] = s[j] => i = j
      BY <1>8
    <2> QED BY <2>1, <1>1, <1>6, <1>7, PickedFacts
  <1>10. Range(Routes(T)) \subseteq DOMAIN T.services
    BY <1>1, <1>7, <1>9 DEF Range
  <1>11. ASSUME NEW i \in DOMAIN Routes(T), NEW j \in DOMAIN Routes(T),
                T.services[Routes(T)[i]].host = T.services[Routes(T)[j]].host
         PROVE  i = j
    <2>1. Routes(T)[i] \in Range(Routes(T)) /\ Routes(T)[j] \in Range(Routes(T))
      BY DEF Range
    <2>2. PICK k \in I : Routes(T)[i] = s[k]
      BY <2>1, <1>9
    <2>3. PICK l \in I : Routes(T)[j] = s[l]
      BY <2>1, <1>9
    <2>4. Routes(T)[i] = Routes(T)[j]
      BY <1>8, <1>11, <2>2, <2>3
    <2> QED BY <2>4, <1>9 DEF IsInjective
  <1> QED BY <1>9, <1>10, <1>11

(* The public ports are numbers, finitely many, each drawn once.           *)
LEMMA ListenPortTyped ==
    ASSUME NEW s \in HttpService
    PROVE  ListenPort(s) \in MapPorts
  BY MapAssumption DEF HttpService, ListenPort

LEMMA PortsDrawn ==
    ASSUME NEW T \in Topology
    PROVE  /\ PublicPorts(T) \in SUBSET MapPorts
           /\ PortNodes(T) \in Seq({<<"port", p>> : p \in Nat})
           /\ Len(PortNodes(T)) >= 1 /\ IsInjective(PortNodes(T))
           /\ \A p \in PublicPorts(T) : <<"port", p>> \in Range(PortNodes(T))
  <1>1. PublicPorts(T) \in SUBSET MapPorts
    <2>1. SniPorts(T) \subseteq MapPorts
      BY TopologyFacts DEF SniPorts, LiveRules, SniRule
    <2>2. HttpPorts(T) \subseteq MapPorts
      BY TopologyFacts, ListenPortTyped DEF HttpPorts
    <2> QED BY <2>1, <2>2 DEF PublicPorts
  <1>2. PublicPorts(T) \in SUBSET Nat /\ IsFiniteSet(PublicPorts(T))
    BY <1>1, MapAssumption, FS_Subset
  <1> DEFINE I == PublicPorts(T)
             V == {<<"port", p>> : p \in Nat}
             drawn == [k \in 1..Cardinality(I) |-> <<"port", Nth(I, k)>>]
  <1>3. PortNodes(T) = IF drawn = <<>> THEN <<NoPort>> ELSE drawn
    BY DEF PortNodes, OrElse
  <1> HIDE DEF I
  <1>4. /\ Cardinality(I) \in Nat
        /\ \A k \in 1..Cardinality(I) : Nth(I, k) \in Nat
        /\ \A i \in I : \E k \in 1..Cardinality(I) : Nth(I, k) = i
        /\ \A k, l \in 1..Cardinality(I) : Nth(I, k) = Nth(I, l) => k = l
    BY <1>2, NthFacts DEF I
  <1>5. drawn \in Seq(V) /\ Len(drawn) = Cardinality(I) /\ IsInjective(drawn)
    BY <1>4 DEF IsInjective
  <1>6. \A p \in I : <<"port", p>> \in Range(drawn)
    BY <1>4 DEF Range
  <1>7. CASE drawn = <<>>
    <2>1. I = {}
      <3>1. Range(drawn) = {}
        BY <1>7 DEF Range
      <3> QED BY <1>6, <3>1, Zenon
    <2>2. PortNodes(T) = <<NoPort>> /\ NoPort \in V
      BY <1>3, <1>7 DEF NoPort
    <2> HIDE DEF V, drawn
    <2>3. PortNodes(T) \in Seq(V) /\ Len(PortNodes(T)) = 1 /\ IsInjective(PortNodes(T))
      BY <2>2 DEF IsInjective
    <2> QED BY <2>1, <2>3, <1>1 DEF I, V
  <1>8. CASE drawn # <<>>
    <2>1. PortNodes(T) = drawn
      BY <1>3, <1>8
    <2> HIDE DEF V, drawn
    <2>2. Len(drawn) >= 1
      BY <1>4, <1>5, <1>8
    <2> QED BY <2>1, <2>2, <1>1, <1>5, <1>6 DEF I, V
  <1> QED BY <1>7, <1>8

(* The backends: every one once, the first time it is met.                 *)
RuleBack(T, n) == BackId(n, T.sni[n])
ServiceBack(T, n) == BackId(n, T.services[n])
BackIds(T) == {RuleBack(T, n) : n \in LiveRules(T)}
                \cup {ServiceBack(T, n) : n \in DOMAIN T.services}
Backends(T) == [id : BackIds(T) \cup {NoBack}, local : BOOLEAN, sni : BOOLEAN]

LEMMA BackTags ==
    ASSUME NEW T, NEW b \in BackIds(T) \cup {NoBack}
    PROVE  b[1] = "back"
  BY DEF BackIds, RuleBack, ServiceBack, BackId, NoBack

LEMMA EntriesDrawn ==
    ASSUME NEW T \in Topology
    PROVE  /\ BackEntries(T) \in Seq(Backends(T))
           /\ BackIds(T) = {BackEntries(T)[i].id : i \in DOMAIN BackEntries(T)}
  <1> DEFINE rules == SniNodes(T)
             names == ServiceNames(T)
             f == [i \in DOMAIN rules |->
                     [id |-> RuleBack(T, rules[i]), local |-> IsLocal(T.sni[rules[i]]), sni |-> TRUE]]
             g == [i \in DOMAIN names |->
                     [id |-> ServiceBack(T, names[i]),
                      local |-> IsLocal(T.services[names[i]]), sni |-> FALSE]]
  <1>1. BackEntries(T) = f \o g
    BY DEF BackEntries, RuleBack, ServiceBack
  <1>2. /\ rules \in Seq(STRING) /\ Range(rules) = LiveRules(T)
        /\ names \in Seq(STRING) /\ Range(names) = DOMAIN T.services
    BY RulesDrawn, ServicesDrawn
  <1> HIDE DEF rules, names
  <1>3. /\ \A i \in DOMAIN rules : rules[i] \in LiveRules(T)
        /\ \A i \in DOMAIN names : names[i] \in DOMAIN T.services
    BY <1>2 DEF Range
  <1>4. /\ \A i \in DOMAIN rules : RuleBack(T, rules[i]) \in BackIds(T)
        /\ \A i \in DOMAIN names : ServiceBack(T, names[i]) \in BackIds(T)
    BY <1>3 DEF BackIds
  <1>5. \A s : IsLocal(s) \in BOOLEAN
    BY DEF IsLocal
  <1>6. /\ DOMAIN rules = 1..Len(rules) /\ Len(rules) \in Nat
        /\ DOMAIN names = 1..Len(names) /\ Len(names) \in Nat
    BY <1>2
  <1>7. f \in Seq(Backends(T)) /\ Len(f) = Len(rules) /\ DOMAIN f = DOMAIN rules
    <2>1. \A i \in DOMAIN rules : f[i] \in Backends(T)
      BY <1>4, <1>5 DEF Backends
    <2>2. f = [i \in 1..Len(rules) |-> f[i]]
      BY <1>6
    <2> HIDE DEF f
    <2> QED BY <1>6, <2>1, <2>2
  <1>8. g \in Seq(Backends(T)) /\ Len(g) = Len(names) /\ DOMAIN g = DOMAIN names
    <2>1. \A i \in DOMAIN names : g[i] \in Backends(T)
      BY <1>4, <1>5 DEF Backends
    <2>2. g = [i \in 1..Len(names) |-> g[i]]
      BY <1>6
    <2> HIDE DEF g
    <2> QED BY <1>6, <2>1, <2>2
  <1>9. /\ \A i \in DOMAIN rules : f[i].id = RuleBack(T, rules[i])
        /\ \A i \in DOMAIN names : g[i].id = ServiceBack(T, names[i])
    OBVIOUS
  <1> HIDE DEF f, g
  <1>10. f \o g \in Seq(Backends(T)) /\ DOMAIN (f \o g) = 1..(Len(f) + Len(g))
    BY <1>7, <1>8
  <1>11. ASSUME NEW i \in DOMAIN (f \o g) PROVE (f \o g)[i].id \in BackIds(T)
    <2>1. CASE i <= Len(f)
      <3>1. (f \o g)[i] = f[i] /\ i \in DOMAIN rules
        BY <2>1, <1>6, <1>7, <1>8, <1>10
      <3> QED BY <3>1, <1>4, <1>9
    <2>2. CASE i > Len(f)
      <3>1. (f \o g)[i] = g[i - Len(f)] /\ i - Len(f) \in DOMAIN names
        BY <2>2, <1>6, <1>7, <1>8, <1>10
      <3> QED BY <3>1, <1>4, <1>9
    <2> QED BY <2>1, <2>2, <1>7, <1>8, <1>10
  <1>12. ASSUME NEW b \in BackIds(T) PROVE \E i \in DOMAIN (f \o g) : (f \o g)[i].id = b
    <2>1. ASSUME NEW n \in LiveRules(T), b = RuleBack(T, n)
          PROVE  \E i \in DOMAIN (f \o g) : (f \o g)[i].id = b
      <3>1. PICK i \in DOMAIN rules : rules[i] = n
        BY <1>2 DEF Range
      <3>2. (f \o g)[i] = f[i] /\ i \in DOMAIN (f \o g)
        BY <1>6, <1>7, <1>8, <1>10
      <3> QED BY <2>1, <3>1, <3>2, <1>9
    <2>2. ASSUME NEW n \in DOMAIN T.services, b = ServiceBack(T, n)
          PROVE  \E i \in DOMAIN (f \o g) : (f \o g)[i].id = b
      <3>1. PICK i \in DOMAIN names : names[i] = n
        BY <1>2 DEF Range
      <3>2. (f \o g)[Len(f) + i] = g[i] /\ Len(f) + i \in DOMAIN (f \o g)
        BY <1>6, <1>7, <1>8, <1>10
      <3> QED BY <2>2, <3>1, <3>2, <1>9
    <2> QED BY <2>1, <2>2 DEF BackIds
  <1> QED BY <1>1, <1>10, <1>11, <1>12

LEMMA BacksDrawn ==
    ASSUME NEW T \in Topology
    PROVE  /\ BackNodes(T) \in Seq(Backends(T)) /\ Len(BackNodes(T)) >= 1
           /\ \A i, j \in DOMAIN BackNodes(T) : BackNodes(T)[i].id = BackNodes(T)[j].id => i = j
           /\ \A b \in BackIds(T) : \E i \in DOMAIN BackNodes(T) : BackNodes(T)[i].id = b
  <1> DEFINE s == BackEntries(T)
             key == [i \in DOMAIN s |-> s[i].id]
             I == {i \in DOMAIN s : \A j \in 1..(i - 1) : s[j].id # s[i].id}
             J == Firsts(Len(s), key)
             none == [id |-> NoBack, local |-> FALSE, sni |-> FALSE]
  <1>1. s \in Seq(Backends(T)) /\ BackIds(T) = {s[i].id : i \in DOMAIN s}
    BY EntriesDrawn
  <1>2. Len(s) \in Nat /\ DOMAIN s = 1..Len(s)
    BY <1>1
  <1>3. BackNodes(T) = IF Picked(s, I) = <<>> THEN <<none>> ELSE Picked(s, I)
    BY DEF BackNodes, OrElse, FirstOfEach
  <1> HIDE DEF s
  <1>4. \A i \in DOMAIN s : key[i] = s[i].id
    OBVIOUS
  <1> HIDE DEF key
  <1>5. I = J
    BY <1>2, <1>4 DEF Firsts
  <1>6. \A i \in 1..Len(s) : \E j \in J : key[j] = key[i]
    BY <1>2, FirstsFacts
  <1>7. \A i, j \in J : key[i] = key[j] => i = j
    BY <1>2, FirstsFacts
  <1>8. I \in SUBSET DOMAIN s
    OBVIOUS
  <1> HIDE DEF I, J
  <1>9. \A i, j \in I : s[i].id = s[j].id => i = j
    BY <1>4, <1>5, <1>7, <1>8
  <1>10. \A i \in DOMAIN s : \E j \in I : s[j].id = s[i].id
    BY <1>2, <1>4, <1>5, <1>6, <1>8
  <1> DEFINE p == Picked(s, I)
  <1>11. /\ p \in Seq(Backends(T)) /\ Range(p) = {s[i] : i \in I} /\ IsInjective(p)
         /\ p = <<>> <=> I = {}
    <2>1. \A i, j \in I : s[i] = s[j] => i = j
      BY <1>9
    <2> QED BY <2>1, <1>1, <1>8, PickedFacts
  <1> HIDE DEF p
  <1>12. CASE p = <<>>
    <2>1. I = {} /\ DOMAIN s = {}
      BY <1>10, <1>11, <1>12
    <2>2. BackIds(T) = {}
      BY <2>1, <1>1
    <2>3. BackNodes(T) = <<none>> /\ none \in Backends(T)
      BY <1>3, <1>12 DEF p, Backends
    <2> HIDE DEF none
    <2> QED BY <2>2, <2>3
  <1>13. CASE p # <<>>
    <2>1. BackNodes(T) = p /\ Len(p) >= 1
      <3>1. BackNodes(T) = p
        BY <1>3, <1>13 DEF p
      <3> QED BY <3>1, <1>11, <1>13
    <2>2. \A k \in DOMAIN p : \E i \in I : p[k] = s[i]
      BY <1>11 DEF Range
    <2>3. ASSUME NEW k \in DOMAIN p, NEW l \in DOMAIN p, p[k].id = p[l].id PROVE k = l
      <3>1. PICK i \in I : p[k] = s[i]
        BY <2>2
      <3>2. PICK j \in I : p[l] = s[j]
        BY <2>2
      <3>3. p[k] = p[l]
        BY <2>3, <3>1, <3>2, <1>9
      <3> QED BY <3>3, <1>11 DEF IsInjective
    <2>4. ASSUME NEW b \in BackIds(T) PROVE \E k \in DOMAIN p : p[k].id = b
      <3>1. PICK i \in DOMAIN s : s[i].id = b
        BY <1>1
      <3>2. PICK j \in I : s[j].id = b
        BY <3>1, <1>10
      <3>3. s[j] \in Range(p)
        BY <1>11
      <3>4. PICK k \in DOMAIN p : p[k] = s[j]
        BY <3>3 DEF Range
      <3> QED BY <3>2, <3>4
    <2> QED BY <2>1, <2>3, <2>4, <1>11
  <1> QED BY <1>12, <1>13

-------------------------------------------------------------------------------
(***************************************************************************)
(* Coordinates.                                                            *)
(***************************************************************************)
PortX == PAD + GROUP_PAD_X

LEMMA Measures ==
    /\ COL_W = 920 /\ BOX_H = 208 /\ GAP_Y = 52 /\ PAD = 72 /\ LANE_OUT = 88
    /\ GROUP_PAD_X = 216 /\ GROUP_PAD = 104 /\ GROUP_HEAD = 88 /\ GROUP_GAP = 224
    /\ REMOTE_GAP = 88 /\ PortX = 288 /\ MidX = 1680 /\ BackX = 3072 /\ Width = 4288
  BY DEF PortX, Px, COL_W, GAP_X, BOX_H, GAP_Y, PAD, LANE_OUT, GROUP_PAD_X, GROUP_PAD, GROUP_HEAD,
         GROUP_GAP, REMOTE_GAP, MidX, BackX, Width

LEMMA LargestOfTwo ==
    ASSUME NEW a \in Int, NEW b \in Int
    PROVE  Largest({a, b}) \in {a, b} /\ Largest({a, b}) >= a /\ Largest({a, b}) >= b
  <1>1. \E n \in {a, b} : \A m \in {a, b} : m <= n
    OBVIOUS
  <1>2. Largest({a, b}) \in {a, b} /\ \A m \in {a, b} : m <= Largest({a, b})
    BY <1>1 DEF Largest
  <1> QED BY <1>2

LEMMA LargestOfThree ==
    ASSUME NEW a \in Int, NEW b \in Int, NEW c \in Int
    PROVE  /\ Largest({a, b, c}) \in {a, b, c}
           /\ Largest({a, b, c}) >= a /\ Largest({a, b, c}) >= b /\ Largest({a, b, c}) >= c
  <1>1. \E n \in {a, b, c} : \A m \in {a, b, c} : m <= n
    <2>1. CASE a >= b /\ a >= c
      BY <2>1
    <2>2. CASE b >= a /\ b >= c
      BY <2>2
    <2>3. CASE c >= a /\ c >= b
      BY <2>3
    <2> QED BY <2>1, <2>2, <2>3
  <1>2. /\ Largest({a, b, c}) \in {a, b, c}
        /\ \A m \in {a, b, c} : m <= Largest({a, b, c})
    BY <1>1 DEF Largest
  <1> QED BY <1>2

LEMMA LargestBounded ==
    ASSUME NEW S \in SUBSET Nat, S # {}, NEW top \in Nat, \A n \in S : n <= top
    PROVE  Largest(S) \in S /\ \A n \in S : n <= Largest(S)
  <1> DEFINE short == {top - n : n \in S}
  <1>1. short \in SUBSET Nat /\ short # {}
    <2>1. \A n \in S : n \in Nat /\ n <= top /\ top - n \in Nat
      OBVIOUS
    <2> QED BY <2>1
  <1>2. PICK m \in short : \A k \in short : m <= k
    BY <1>1, LeastMember
  <1>3. PICK n \in S : m = top - n
    BY <1>2
  <1>4. \A l \in S : l <= n
    <2> SUFFICES ASSUME NEW l \in S PROVE l <= n
      OBVIOUS
    <2>1. top - l \in short
      OBVIOUS
    <2>2. top - n <= top - l
      BY <2>1, <1>2, <1>3
    <2>3. n \in Nat /\ l \in Nat
      OBVIOUS
    <2> QED BY <2>2, <2>3
  <1>5. \E l \in S : \A k \in S : k <= l
    BY <1>4
  <1> QED BY <1>5 DEF Largest

(* A stack is as high as its boxes and the gaps between them.              *)
LEMMA StackHeight ==
    ASSUME NEW n \in Nat
    PROVE  /\ StackH(n) \in Nat /\ StackH(n) >= 208 * n
           /\ n = 0 => StackH(n) = 0
           /\ n > 0 => StackH(n) = 260 * n - 52
  BY Measures DEF StackH, AtLeastZero

LEMMA Halved ==
    ASSUME NEW a \in Nat, NEW b \in Nat, a >= b
    PROVE  AtLeastZero((a - b) \div 2) \in Nat /\ AtLeastZero((a - b) \div 2) <= a - b
  BY DEF AtLeastZero

(* Every stack fits between the top and the bottom of what is drawn round  *)
(* it, and the two stages have a corridor between them.                    *)
Fits(f, ports, stage, http, locals, remotes) ==
    /\ f.wrapTop \in Nat /\ f.wrapH \in Nat /\ f.portsTop \in Nat /\ f.localTop \in Nat
    /\ f.sniTop \in Nat /\ f.sniH \in Nat /\ f.httpTop \in Nat /\ f.httpH \in Nat
    /\ f.wrapTop >= 72 + StackH(remotes) + (IF remotes > 0 THEN 88 ELSE 0)
    /\ f.portsTop >= f.wrapTop + 192
    /\ f.portsTop + StackH(ports) <= f.wrapTop + f.wrapH
    /\ f.localTop >= f.wrapTop + 192
    /\ f.localTop + StackH(locals) <= f.wrapTop + f.wrapH
    /\ f.sniTop >= f.wrapTop + 192
    /\ f.sniH = 296 + StackH(stage)
    /\ f.httpTop = f.sniTop + f.sniH + 224
    /\ f.httpH >= 296 + StackH(http) /\ f.httpH >= 504
    /\ f.httpTop + f.httpH <= f.wrapTop + f.wrapH

LEMMA FrameFits ==
    ASSUME NEW ports \in Nat, NEW stage \in Nat, NEW http \in Nat, NEW backs \in Nat,
           NEW locals \in Nat, NEW remotes \in Nat
    PROVE  Fits(Frame(TRUE, ports, stage, http, backs, locals, remotes),
                ports, stage, http, locals, remotes)
  <1> DEFINE high == Largest({ports, stage + http, backs})
             innerH == StackH(high)
             sniH == GROUP_HEAD + GROUP_PAD * 2 + StackH(stage)
             tall == Largest({1, http})
             httpH == GROUP_HEAD + GROUP_PAD * 2 + tall * BOX_H + AtLeastZero(http - 1) * GAP_Y
             midH == sniH + GROUP_GAP + httpH
             wrapInnerH == Largest({innerH, midH, StackH(locals)})
             wrapTop == PAD + StackH(remotes) + (IF remotes > 0 THEN REMOTE_GAP ELSE 0)
             Centred(h) == wrapTop + GROUP_HEAD + GROUP_PAD + AtLeastZero((wrapInnerH - h) \div 2)
             f == Frame(TRUE, ports, stage, http, backs, locals, remotes)
  <1>1. f = [wrapTop |-> wrapTop, wrapH |-> GROUP_HEAD + GROUP_PAD * 2 + wrapInnerH,
             portsTop |-> Centred(innerH), localTop |-> Centred(StackH(locals)),
             sniTop |-> Centred(midH), sniH |-> sniH,
             httpTop |-> Centred(midH) + (sniH + GROUP_GAP), httpH |-> httpH]
    BY DEF Frame
  <1>2. high \in Nat /\ high >= ports /\ tall \in Nat /\ tall >= 1 /\ tall >= http
    <2>1. stage + http \in Nat
      OBVIOUS
    <2>2. high \in {ports, stage + http, backs} /\ high >= ports
      <3>1. ports \in Int /\ stage + http \in Int /\ backs \in Int
        BY <2>1
      <3> QED BY <3>1, LargestOfThree, Zenon
    <2>3. tall \in {1, http} /\ tall >= 1 /\ tall >= http
      BY LargestOfTwo
    <2> QED BY <2>1, <2>2, <2>3
  <1> HIDE DEF high, tall
  <1>3. innerH \in Nat /\ StackH(ports) \in Nat /\ innerH >= StackH(ports)
    BY <1>2, StackHeight
  <1>4. /\ sniH \in Nat /\ sniH = 296 + StackH(stage)
        /\ StackH(locals) \in Nat /\ StackH(remotes) \in Nat
    BY StackHeight, Measures
  <1> HIDE DEF sniH
  <1>5. httpH \in Nat /\ httpH >= 296 + StackH(http) /\ httpH >= 504
    BY <1>2, StackHeight, Measures DEF AtLeastZero, StackH
  <1> HIDE DEF innerH, httpH
  <1>6. midH \in Nat /\ midH = sniH + 224 + httpH
    BY <1>4, <1>5, Measures
  <1> HIDE DEF midH
  <1>7. /\ wrapInnerH \in Nat /\ wrapInnerH >= innerH /\ wrapInnerH >= midH
        /\ wrapInnerH >= StackH(locals)
    <2>1. /\ wrapInnerH \in {innerH, midH, StackH(locals)} /\ wrapInnerH >= innerH
          /\ wrapInnerH >= midH /\ wrapInnerH >= StackH(locals)
      <3>1. innerH \in Int /\ midH \in Int /\ StackH(locals) \in Int
        BY <1>3, <1>4, <1>6
      <3> QED BY <3>1, LargestOfThree, Zenon
    <2> QED BY <2>1, <1>3, <1>4, <1>6
  <1> HIDE DEF wrapInnerH
  <1>8. wrapTop \in Nat
    BY <1>4, Measures
  <1> HIDE DEF wrapTop
  <1>9. ASSUME NEW h \in Nat, h <= wrapInnerH
        PROVE  /\ Centred(h) \in Nat /\ Centred(h) >= wrapTop + 192
               /\ Centred(h) + h <= wrapTop + 296 + wrapInnerH
    <2>1. /\ AtLeastZero((wrapInnerH - h) \div 2) \in Nat
          /\ AtLeastZero((wrapInnerH - h) \div 2) <= wrapInnerH - h
      BY <1>7, <1>9, Halved
    <2> QED BY <2>1, <1>7, <1>8, Measures
  <1> HIDE DEF Centred
  <1>10. /\ Centred(innerH) \in Nat /\ Centred(innerH) >= wrapTop + 192
         /\ Centred(innerH) + innerH <= wrapTop + 296 + wrapInnerH
    BY <1>3, <1>7, <1>9
  <1>11. /\ Centred(StackH(locals)) \in Nat /\ Centred(StackH(locals)) >= wrapTop + 192
         /\ Centred(StackH(locals)) + StackH(locals) <= wrapTop + 296 + wrapInnerH
    BY <1>4, <1>7, <1>9
  <1>12. /\ Centred(midH) \in Nat /\ Centred(midH) >= wrapTop + 192
         /\ Centred(midH) + midH <= wrapTop + 296 + wrapInnerH
    BY <1>6, <1>7, <1>9
  <1> HIDE DEF f
  <1>13. /\ f.wrapTop = wrapTop /\ f.wrapH = 296 + wrapInnerH /\ f.portsTop = Centred(innerH)
         /\ f.localTop = Centred(StackH(locals)) /\ f.sniTop = Centred(midH)
         /\ f.sniH = sniH /\ f.httpTop = Centred(midH) + (sniH + 224) /\ f.httpH = httpH
    BY <1>1, <1>7, Measures
  <1>14. wrapTop >= 72 + StackH(remotes) + (IF remotes > 0 THEN 88 ELSE 0)
    BY <1>4, Measures DEF wrapTop
  <1>15. /\ f.portsTop + StackH(ports) <= f.wrapTop + f.wrapH
         /\ f.localTop + StackH(locals) <= f.wrapTop + f.wrapH
         /\ f.httpTop + f.httpH <= f.wrapTop + f.wrapH
    BY <1>3, <1>4, <1>5, <1>6, <1>7, <1>8, <1>10, <1>11, <1>12, <1>13
  <1>16. /\ f.wrapTop \in Nat /\ f.wrapH \in Nat /\ f.portsTop \in Nat /\ f.localTop \in Nat
         /\ f.sniTop \in Nat /\ f.sniH \in Nat /\ f.httpTop \in Nat /\ f.httpH \in Nat
    BY <1>4, <1>5, <1>7, <1>8, <1>10, <1>11, <1>12, <1>13
  <1>17. /\ f.httpTop = f.sniTop + f.sniH + 224 /\ f.sniH = 296 + StackH(stage)
         /\ f.httpH >= 296 + StackH(http) /\ f.httpH >= 504
    BY <1>4, <1>5, <1>12, <1>13, StackHeight
  <1>18. /\ f.wrapTop >= 72 + StackH(remotes) + (IF remotes > 0 THEN 88 ELSE 0)
         /\ f.portsTop >= f.wrapTop + 192 /\ f.localTop >= f.wrapTop + 192
         /\ f.sniTop >= f.wrapTop + 192
    BY <1>10, <1>11, <1>12, <1>13, <1>14
  <1> QED BY <1>15, <1>16, <1>17, <1>18 DEF Fits, f

(***************************************************************************)
(* Stacks: boxes of one size, one above the other.                         *)
(***************************************************************************)
Rect(r) == /\ r = [id |-> r.id, x |-> r.x, y |-> r.y, w |-> r.w, h |-> r.h]
           /\ r.x \in Nat /\ r.y \in Nat /\ r.w \in Nat /\ r.h \in Nat
Cell(ids, x, top, i) ==
    [id |-> ids[i], x |-> x, y |-> top + (i - 1) * 260, w |-> 920, h |-> 208]
Column(r, x, lo, hi) ==
    Rect(r) /\ r.x = x /\ r.w = 920 /\ r.h = 208 /\ r.y >= lo /\ r.y + 208 <= hi

Listed(ids) == Len(ids) \in Nat /\ DOMAIN ids = 1..Len(ids)

LEMMA StackCells ==
    ASSUME NEW ids, Listed(ids), NEW x \in Nat, NEW top \in Nat
    PROVE  Range(Stack(ids, x, top)) = {Cell(ids, x, top, i) : i \in 1..Len(ids)}
  <1>1. DOMAIN ids = 1..Len(ids) /\ Len(ids) \in Nat
    BY DEF Listed
  <1>2. Stack(ids, x, top) = [i \in 1..Len(ids) |-> Cell(ids, x, top, i)]
    BY <1>1, Measures DEF Stack, Cell
  <1> QED BY <1>2 DEF Range

LEMMA StackColumn ==
    ASSUME NEW ids, Listed(ids), NEW x \in Nat, NEW top \in Nat,
           NEW r \in Range(Stack(ids, x, top))
    PROVE  Column(r, x, top, top + StackH(Len(ids))) /\ r.id \in Range(ids)
  <1>1. PICK i \in 1..Len(ids) : r = Cell(ids, x, top, i)
    BY StackCells
  <1>2. Len(ids) \in Nat /\ i \in Nat /\ i >= 1 /\ i <= Len(ids)
    BY DEF Listed
  <1>3. StackH(Len(ids)) = 260 * Len(ids) - 52
    BY <1>2, StackHeight
  <1>4. r.id = ids[i] /\ r.x = x /\ r.y = top + (i - 1) * 260 /\ r.w = 920 /\ r.h = 208
    BY <1>1 DEF Cell
  <1>5. r.y \in Nat /\ r.y >= top /\ r.y + 208 <= top + StackH(Len(ids))
    BY <1>2, <1>3, <1>4
  <1>6. r = [id |-> r.id, x |-> r.x, y |-> r.y, w |-> r.w, h |-> r.h]
    BY <1>1, <1>4 DEF Cell
  <1>7. r.id \in Range(ids)
    BY <1>4 DEF Range, Listed
  <1> QED BY <1>4, <1>5, <1>6, <1>7 DEF Column, Rect

LEMMA StackApart ==
    ASSUME NEW ids, Listed(ids), NEW x \in Nat, NEW top \in Nat,
           NEW r \in Range(Stack(ids, x, top)), NEW s \in Range(Stack(ids, x, top)),
           r.id # s.id
    PROVE  Apart(r, s)
  <1>1. PICK i \in 1..Len(ids) : r = Cell(ids, x, top, i)
    BY StackCells
  <1>2. PICK j \in 1..Len(ids) : s = Cell(ids, x, top, j)
    BY StackCells
  <1>3. i \in Nat /\ j \in Nat /\ i # j
    BY <1>1, <1>2 DEF Listed
  <1>4. r.y = top + (i - 1) * 260 /\ r.h = 208 /\ s.y = top + (j - 1) * 260 /\ s.h = 208
    BY <1>1, <1>2 DEF Cell
  <1>5. r.y + r.h <= s.y \/ s.y + s.h <= r.y
    BY <1>3, <1>4
  <1> QED BY <1>5 DEF Apart

LEMMA StackHas ==
    ASSUME NEW ids, Listed(ids), NEW x \in Nat, NEW top \in Nat, NEW v \in Range(ids)
    PROVE  \E r \in Range(Stack(ids, x, top)) : r.id = v
  <1>1. PICK i \in 1..Len(ids) : v = ids[i]
    BY DEF Range, Listed
  <1>2. Cell(ids, x, top, i) \in Range(Stack(ids, x, top))
    BY StackCells
  <1>3. Cell(ids, x, top, i).id = v
    BY <1>1 DEF Cell
  <1> QED BY <1>2, <1>3

LEMMA ColumnsApart ==
    ASSUME NEW a, NEW b, NEW x1, NEW lo1, NEW hi1, NEW x2, NEW lo2, NEW hi2,
           Column(a, x1, lo1, hi1), Column(b, x2, lo2, hi2),
           x1 \in Nat, lo1 \in Nat, hi1 \in Nat, x2 \in Nat, lo2 \in Nat, hi2 \in Nat,
           x1 + 920 <= x2 \/ hi1 <= lo2
    PROVE  Apart(a, b) /\ Apart(b, a)
  BY DEF Column, Rect, Apart

(***************************************************************************)
(* The backends: on this server, and outside, drawn above it or below it.  *)
(***************************************************************************)
LEMMA IdsPicked ==
    ASSUME NEW T \in Topology, NEW I \in SUBSET DOMAIN BackNodes(T)
    PROVE  LET ids == Ids(Picked(BackNodes(T), I)) IN
           /\ ids \in Seq(BackIds(T) \cup {NoBack})
           /\ Range(ids) = {BackNodes(T)[i].id : i \in I}
  <1> DEFINE s == BackNodes(T)
             V == BackIds(T) \cup {NoBack}
             p == Picked(s, I)
  <1>1. s \in Seq(Backends(T))
    BY BacksDrawn
  <1>2. p \in Seq(Backends(T)) /\ Range(p) = {s[i] : i \in I}
    BY <1>1, PickedFacts
  <1> HIDE DEF p, s
  <1>3. \A k \in DOMAIN p : p[k].id \in V
    <2>1. \A k \in DOMAIN p : p[k] \in Backends(T)
      BY <1>2
    <2> QED BY <2>1 DEF Backends
  <1>4. Ids(p) = [k \in 1..Len(p) |-> p[k].id] /\ DOMAIN p = 1..Len(p) /\ Len(p) \in Nat
    BY <1>2 DEF Ids
  <1>5. Ids(p) \in Seq(V)
    BY <1>3, <1>4
  <1>6. Range(Ids(p)) = {r.id : r \in Range(p)}
    BY <1>4 DEF Range
  <1>7. {r.id : r \in Range(p)} = {s[i].id : i \in I}
    BY <1>2
  <1> QED BY <1>5, <1>6, <1>7 DEF p, s

Remote(T) == {b.id : b \in {c \in Range(BackNodes(T)) : ~c.local}}

LEMMA BackStacks ==
    ASSUME NEW T \in Topology
    PROVE  LET B == BackNodes(T)
               V == BackIds(T) \cup {NoBack}
           IN  /\ Locals(B) \in Seq(V) /\ RemoteSNI(B) \in Seq(V) /\ RemoteHTTP(B) \in Seq(V)
               /\ Range(Locals(B)) \cap Remote(T) = {}
               /\ Range(RemoteSNI(B)) \subseteq Remote(T) /\ Range(RemoteHTTP(B)) \subseteq Remote(T)
               /\ BackIds(T) \subseteq
                     Range(Locals(B)) \cup Range(RemoteSNI(B)) \cup Range(RemoteHTTP(B))
  <1> DEFINE B == BackNodes(T)
             V == BackIds(T) \cup {NoBack}
             I1 == {i \in DOMAIN B : B[i].local}
             I2 == {i \in DOMAIN B : ~B[i].local /\ B[i].sni}
             I3 == {i \in DOMAIN B : ~B[i].local /\ ~B[i].sni}
  <1>1. /\ Locals(B) = Ids(Picked(B, I1))
        /\ RemoteSNI(B) = Ids(Picked(B, I2))
        /\ RemoteHTTP(B) = Ids(Picked(B, I3))
    BY DEF Locals, RemoteSNI, RemoteHTTP, Those
  <1>2. /\ \A i, j \in DOMAIN B : B[i].id = B[j].id => i = j
        /\ \A b \in BackIds(T) : \E i \in DOMAIN B : B[i].id = b
    BY BacksDrawn
  <1>3. Remote(T) = {B[i].id : i \in {j \in DOMAIN B : ~B[j].local}}
    BY DEF Remote, Range
  <1>4. /\ Locals(B) \in Seq(V) /\ Range(Locals(B)) = {B[i].id : i \in I1}
        /\ RemoteSNI(B) \in Seq(V) /\ Range(RemoteSNI(B)) = {B[i].id : i \in I2}
        /\ RemoteHTTP(B) \in Seq(V) /\ Range(RemoteHTTP(B)) = {B[i].id : i \in I3}
    <2>1. I1 \in SUBSET DOMAIN B /\ I2 \in SUBSET DOMAIN B /\ I3 \in SUBSET DOMAIN B
      OBVIOUS
    <2> HIDE DEF I1, I2, I3
    <2> QED BY <1>1, <2>1, IdsPicked
  <1> HIDE DEF B, V
  <1>5. Range(Locals(B)) \cap Remote(T) = {}
    BY <1>2, <1>3, <1>4
  <1>6. Range(RemoteSNI(B)) \subseteq Remote(T) /\ Range(RemoteHTTP(B)) \subseteq Remote(T)
    BY <1>3, <1>4
  <1>7. BackIds(T) \subseteq
            Range(Locals(B)) \cup Range(RemoteSNI(B)) \cup Range(RemoteHTTP(B))
    <2> SUFFICES ASSUME NEW b \in BackIds(T)
                 PROVE  \/ b \in Range(Locals(B)) \/ b \in Range(RemoteSNI(B))
                        \/ b \in Range(RemoteHTTP(B))
      OBVIOUS
    <2>1. PICK i \in DOMAIN B : B[i].id = b
      BY <1>2
    <2>2. i \in I1 \/ i \in I2 \/ i \in I3
      OBVIOUS
    <2> HIDE DEF I1, I2, I3
    <2> QED BY <2>1, <2>2, <1>4
  <1> QED BY <1>4, <1>5, <1>6, <1>7 DEF B, V

(***************************************************************************)
(* The picture of a topology with an SNI stage.                            *)
(***************************************************************************)
LEMMA StageDrawn ==
    ASSUME NEW T \in Topology, SniOn(T)
    PROVE  /\ StageNodes(T) \in Seq({<<"sni", v>> : v \in STRING \cup {"nginx-http"}})
           /\ Hop \in Range(StageNodes(T))
           /\ \A n \in LiveRules(T) : <<"sni", n>> \in Range(StageNodes(T))
  <1> DEFINE rules == SniNodes(T)
             V == {<<"sni", v>> : v \in STRING \cup {"nginx-http"}}
             f == [i \in DOMAIN rules |-> <<"sni", rules[i]>>]
             s == StageNodes(T)
  <1>1. s = f \o <<Hop>>
    BY DEF StageNodes
  <1>2. rules \in Seq(STRING) /\ Range(rules) = LiveRules(T)
    BY RulesDrawn
  <1> HIDE DEF rules
  <1>3. DOMAIN rules = 1..Len(rules) /\ Len(rules) \in Nat
    BY <1>2
  <1>4. f \in Seq(V) /\ Len(f) = Len(rules) /\ \A i \in DOMAIN rules : f[i] = <<"sni", rules[i]>>
    BY <1>2, <1>3
  <1>5. Hop \in V
    BY DEF Hop
  <1> HIDE DEF f, V, s
  <1>6. /\ s \in Seq(V) /\ DOMAIN s = 1..(Len(rules) + 1) /\ s[Len(rules) + 1] = Hop
        /\ \A i \in DOMAIN rules : s[i] = f[i]
    BY <1>1, <1>3, <1>4, <1>5
  <1>7. Hop \in Range(s)
    BY <1>3, <1>6 DEF Range
  <1>8. ASSUME NEW n \in LiveRules(T) PROVE <<"sni", n>> \in Range(s)
    <2>1. PICK i \in DOMAIN rules : rules[i] = n
      BY <1>2 DEF Range
    <2>2. i \in DOMAIN s /\ s[i] = <<"sni", n>>
      BY <2>1, <1>3, <1>4, <1>6
    <2> QED BY <2>2 DEF Range
  <1> QED BY <1>6, <1>7, <1>8 DEF s, V

LEMMA RouteBoxesDrawn ==
    ASSUME NEW T \in Topology, SniOn(T)
    PROVE  /\ RouteNodes(T) \in Seq({<<"route", h>> : h \in STRING})
           /\ \A n \in Range(Routes(T)) : RouteId(T, n) \in Range(RouteNodes(T))
  <1> DEFINE s == Routes(T)
             V == {<<"route", h>> : h \in STRING}
             f == [i \in DOMAIN s |-> RouteId(T, s[i])]
  <1>1. RouteNodes(T) = f
    BY DEF RouteNodes, SniOn
  <1>2. s \in Seq(STRING) /\ Range(s) \subseteq DOMAIN T.services
    BY RoutesDrawn
  <1> HIDE DEF s
  <1>3. DOMAIN s = 1..Len(s) /\ Len(s) \in Nat
    BY <1>2
  <1>4. \A i \in DOMAIN s : RouteId(T, s[i]) \in V
    <2> SUFFICES ASSUME NEW i \in DOMAIN s PROVE RouteId(T, s[i]) \in V
      OBVIOUS
    <2>1. T.services[s[i]] \in HttpService
      BY <1>2, TopologyFacts DEF Range
    <2> QED BY <2>1 DEF HttpService, RouteId
  <1>5. f \in Seq(V)
    BY <1>3, <1>4
  <1>6. \A n \in Range(s) : RouteId(T, n) \in Range(f)
    BY DEF Range
  <1> QED BY <1>1, <1>5, <1>6 DEF s

F(T) == Frame(TRUE, Len(PortNodes(T)), Len(StageNodes(T)), Len(RouteNodes(T)), Len(BackNodes(T)),
              Len(Locals(BackNodes(T))), Len(RemoteSNI(BackNodes(T))))
PortBoxes(T) == Range(Stack(PortNodes(T), PortX, F(T).portsTop))
RuleBoxes(T) == Range(Stack(StageNodes(T), MidX, F(T).sniTop + 192))
RouteBoxes(T) == Range(Stack(RouteNodes(T), MidX, F(T).httpTop + 192))
UpperBoxes(T) == Range(Stack(RemoteSNI(BackNodes(T)), BackX, PAD))
LocalBoxes(T) == Range(Stack(Locals(BackNodes(T)), BackX, F(T).localTop))
LowerBoxes(T) == Range(Stack(RemoteHTTP(BackNodes(T)), BackX, F(T).wrapTop + F(T).wrapH + 88))

SniBox(T) == [id |-> Box("sni"), x |-> 1464, y |-> F(T).sniTop, w |-> 1352, h |-> F(T).sniH]
HttpBox(T) == [id |-> Box("http"), x |-> 1464, y |-> F(T).httpTop, w |-> 1352, h |-> F(T).httpH]
LocalHost(T) == [id |-> Box("local"), x |-> PAD, y |-> F(T).wrapTop, w |-> 4136, h |-> F(T).wrapH]

AllNodes(T) == PortBoxes(T) \cup RuleBoxes(T) \cup RouteBoxes(T)
                 \cup UpperBoxes(T) \cup LocalBoxes(T) \cup LowerBoxes(T)
AllBoxes(T) == {SniBox(T), HttpBox(T), LocalHost(T)}

LEMMA FrameOf ==
    ASSUME NEW T \in Topology, SniOn(T)
    PROVE  Fits(F(T), Len(PortNodes(T)), Len(StageNodes(T)), Len(RouteNodes(T)),
                Len(Locals(BackNodes(T))), Len(RemoteSNI(BackNodes(T))))
  <1>1. /\ Len(PortNodes(T)) \in Nat /\ Len(StageNodes(T)) \in Nat /\ Len(RouteNodes(T)) \in Nat
        /\ Len(BackNodes(T)) \in Nat /\ Len(Locals(BackNodes(T))) \in Nat
        /\ Len(RemoteSNI(BackNodes(T))) \in Nat /\ Len(RemoteHTTP(BackNodes(T))) \in Nat
    BY PortsDrawn, StageDrawn, RouteBoxesDrawn, BacksDrawn, BackStacks
  <1> QED BY <1>1, FrameFits DEF F

LEMMA PlacedIs ==
    ASSUME NEW T \in Topology, SniOn(T)
    PROVE  Placed(T) = [nodes |-> AllNodes(T), boxes |-> AllBoxes(T),
                        height |-> Largest({r.y + r.h : r \in AllNodes(T) \cup AllBoxes(T)}) + PAD]
  <1> DEFINE B == BackNodes(T)
             f == Frame(SniOn(T), Len(PortNodes(T)), Len(StageNodes(T)), Len(RouteNodes(T)),
                        Len(B), Len(Locals(B)), Len(RemoteSNI(B)))
             nodes == Nodes(f, PortNodes(T), StageNodes(T), RouteNodes(T), B)
             boxes == Containers(f, SniOn(T))
  <1>0. Placed(T) = [nodes |-> nodes, boxes |-> boxes,
                     height |-> Largest({r.y + r.h : r \in nodes \cup boxes}) + PAD]
    BY DEF Placed, Layout
  <1>1. f = F(T)
    BY DEF F
  <1> HIDE DEF f
  <1>2. /\ f.sniTop \in Nat /\ f.httpTop \in Nat /\ f.wrapTop \in Nat /\ f.wrapH \in Nat
    BY <1>1, FrameOf DEF Fits
  <1>3. /\ PAD + GROUP_PAD_X = PortX
        /\ f.sniTop + GROUP_HEAD + GROUP_PAD = f.sniTop + 192
        /\ f.httpTop + GROUP_HEAD + GROUP_PAD = f.httpTop + 192 /\ REMOTE_GAP = 88
        /\ MidX - GROUP_PAD_X = 1464 /\ COL_W + GROUP_PAD_X * 2 = 1352
        /\ BackX + COL_W + GROUP_PAD_X - PAD = 4136
    BY <1>2, Measures DEF PortX
  <1>4. Nodes(f, PortNodes(T), StageNodes(T), RouteNodes(T), B) = AllNodes(T)
    BY <1>1, <1>3 DEF Nodes, AllNodes, PortBoxes, RuleBoxes, RouteBoxes, UpperBoxes, LocalBoxes,
                LowerBoxes
  <1>5. Containers(f, SniOn(T)) = AllBoxes(T)
    BY <1>1, <1>3 DEF Containers, StageBox, AllBoxes, SniBox, HttpBox, LocalHost
  <1>6. nodes = AllNodes(T) /\ boxes = AllBoxes(T)
    BY <1>4, <1>5
  <1> HIDE DEF nodes, boxes
  <1> QED BY <1>0, <1>6

(* Where the boxes of each column are, and what they are called.           *)
LEMMA BoxColumns ==
    ASSUME NEW T \in Topology, SniOn(T)
    PROVE  /\ \A a \in PortBoxes(T) :
                 Column(a, PortX, F(T).portsTop, F(T).portsTop + StackH(Len(PortNodes(T))))
                 /\ a.id[1] = "port"
           /\ \A a \in RuleBoxes(T) :
                 Column(a, MidX, F(T).sniTop + 192,
                        F(T).sniTop + 192 + StackH(Len(StageNodes(T))))
                 /\ a.id[1] = "sni"
           /\ \A a \in RouteBoxes(T) :
                 Column(a, MidX, F(T).httpTop + 192,
                        F(T).httpTop + 192 + StackH(Len(RouteNodes(T))))
                 /\ a.id[1] = "route"
  <1>1. F(T).portsTop \in Nat /\ F(T).sniTop + 192 \in Nat /\ F(T).httpTop + 192 \in Nat
    BY FrameOf DEF Fits
  <1>2. ASSUME NEW a \in PortBoxes(T)
        PROVE  Column(a, PortX, F(T).portsTop, F(T).portsTop + StackH(Len(PortNodes(T))))
               /\ a.id[1] = "port"
    <2>1. PortNodes(T) \in Seq({<<"port", p>> : p \in Nat})
      BY PortsDrawn
    <2>2. /\ Column(a, PortX, F(T).portsTop, F(T).portsTop + StackH(Len(PortNodes(T))))
          /\ a.id \in Range(PortNodes(T))
      <3>1. a \in Range(Stack(PortNodes(T), PortX, F(T).portsTop))
        BY <1>2 DEF PortBoxes
      <3>2. PortX \in Nat /\ Listed(PortNodes(T))
        BY <2>1, Measures DEF Listed
      <3> QED BY <1>1, <3>1, <3>2, StackColumn, Zenon
    <2> QED BY <2>1, <2>2 DEF Range
  <1>3. ASSUME NEW a \in RuleBoxes(T)
        PROVE  Column(a, MidX, F(T).sniTop + 192,
                      F(T).sniTop + 192 + StackH(Len(StageNodes(T))))
               /\ a.id[1] = "sni"
    <2> DEFINE top == F(T).sniTop + 192
    <2>0. top \in Nat
      BY <1>1
    <2> HIDE DEF top
    <2>1. StageNodes(T) \in Seq({<<"sni", v>> : v \in STRING \cup {"nginx-http"}})
      BY StageDrawn
    <2>2. /\ Column(a, MidX, top,
                    top + StackH(Len(StageNodes(T))))
          /\ a.id \in Range(StageNodes(T))
      <3>1. a \in Range(Stack(StageNodes(T), MidX, top))
        BY <1>3 DEF RuleBoxes, top
      <3>2. MidX \in Nat /\ Listed(StageNodes(T))
        BY <2>1, Measures DEF Listed
      <3> QED BY <2>0, <3>1, <3>2, StackColumn, Zenon
    <2> QED BY <2>1, <2>2 DEF Range, top
  <1>4. ASSUME NEW a \in RouteBoxes(T)
        PROVE  Column(a, MidX, F(T).httpTop + 192,
                      F(T).httpTop + 192 + StackH(Len(RouteNodes(T))))
               /\ a.id[1] = "route"
    <2> DEFINE top == F(T).httpTop + 192
    <2>0. top \in Nat
      BY <1>1
    <2> HIDE DEF top
    <2>1. RouteNodes(T) \in Seq({<<"route", h>> : h \in STRING})
      BY RouteBoxesDrawn
    <2>2. /\ Column(a, MidX, top,
                    top + StackH(Len(RouteNodes(T))))
          /\ a.id \in Range(RouteNodes(T))
      <3>1. a \in Range(Stack(RouteNodes(T), MidX, top))
        BY <1>4 DEF RouteBoxes, top
      <3>2. MidX \in Nat /\ Listed(RouteNodes(T))
        BY <2>1, Measures DEF Listed
      <3> QED BY <2>0, <3>1, <3>2, StackColumn, Zenon
    <2> QED BY <2>1, <2>2 DEF Range, top
  <1> QED BY <1>2, <1>3, <1>4

LEMMA BackColumns ==
    ASSUME NEW T \in Topology, SniOn(T)
    PROVE  /\ \A a \in UpperBoxes(T) :
                 Column(a, BackX, PAD, PAD + StackH(Len(RemoteSNI(BackNodes(T)))))
                 /\ a.id[1] = "back" /\ a.id \in Remote(T)
           /\ \A a \in LocalBoxes(T) :
                 Column(a, BackX, F(T).localTop, F(T).localTop + StackH(Len(Locals(BackNodes(T)))))
                 /\ a.id[1] = "back" /\ a.id \notin Remote(T)
           /\ \A a \in LowerBoxes(T) :
                 Column(a, BackX, F(T).wrapTop + F(T).wrapH + 88,
                        F(T).wrapTop + F(T).wrapH + 88 + StackH(Len(RemoteHTTP(BackNodes(T)))))
                 /\ a.id[1] = "back" /\ a.id \in Remote(T)
  <1> DEFINE B == BackNodes(T)
             V == BackIds(T) \cup {NoBack}
  <1>1. /\ Locals(B) \in Seq(V) /\ RemoteSNI(B) \in Seq(V) /\ RemoteHTTP(B) \in Seq(V)
        /\ Range(Locals(B)) \cap Remote(T) = {}
        /\ Range(RemoteSNI(B)) \subseteq Remote(T) /\ Range(RemoteHTTP(B)) \subseteq Remote(T)
    BY BackStacks
  <1>2. F(T).localTop \in Nat /\ F(T).wrapTop + F(T).wrapH + 88 \in Nat
    BY FrameOf DEF Fits
  <1>3. \A b \in V : b[1] = "back"
    BY BackTags
  <1>4. ASSUME NEW s \in Seq(V) PROVE \A b \in Range(s) : b[1] = "back"
    BY <1>3 DEF Range
  <1> HIDE DEF B, V
  <1>5. ASSUME NEW a \in UpperBoxes(T)
        PROVE  Column(a, BackX, PAD, PAD + StackH(Len(RemoteSNI(B))))
               /\ a.id[1] = "back" /\ a.id \in Remote(T)
    <2> DEFINE top == PAD
    <2>0. top \in Nat
      BY Measures
    <2> HIDE DEF top
    <2>1. Column(a, BackX, top, top + StackH(Len(RemoteSNI(B)))) /\ a.id \in Range(RemoteSNI(B))
      <3>1. a \in Range(Stack(RemoteSNI(B), BackX, top))
        BY <1>5 DEF UpperBoxes, top, B
      <3>2. BackX \in Nat /\ Listed(RemoteSNI(B))
        BY <1>1, Measures DEF Listed
      <3> QED BY <2>0, <3>1, <3>2, StackColumn, Zenon
    <2> QED BY <2>1, <1>1, <1>4 DEF top
  <1>6. ASSUME NEW a \in LocalBoxes(T)
        PROVE  Column(a, BackX, F(T).localTop, F(T).localTop + StackH(Len(Locals(B))))
               /\ a.id[1] = "back" /\ a.id \notin Remote(T)
    <2> DEFINE top == F(T).localTop
    <2>0. top \in Nat
      BY <1>2
    <2> HIDE DEF top
    <2>1. /\ Column(a, BackX, top, top + StackH(Len(Locals(B))))
          /\ a.id \in Range(Locals(B))
      <3>1. a \in Range(Stack(Locals(B), BackX, top))
        BY <1>6 DEF LocalBoxes, top, B
      <3>2. BackX \in Nat /\ Listed(Locals(B))
        BY <1>1, Measures DEF Listed
      <3> QED BY <2>0, <3>1, <3>2, StackColumn, Zenon
    <2> QED BY <2>1, <1>1, <1>4 DEF top
  <1>7. ASSUME NEW a \in LowerBoxes(T)
        PROVE  Column(a, BackX, F(T).wrapTop + F(T).wrapH + 88,
                      F(T).wrapTop + F(T).wrapH + 88 + StackH(Len(RemoteHTTP(B))))
               /\ a.id[1] = "back" /\ a.id \in Remote(T)
    <2> DEFINE top == F(T).wrapTop + F(T).wrapH + 88
    <2>0. top \in Nat
      BY <1>2
    <2> HIDE DEF top
    <2>1. /\ Column(a, BackX, top,
                    top + StackH(Len(RemoteHTTP(B))))
          /\ a.id \in Range(RemoteHTTP(B))
      <3>1. a \in Range(Stack(RemoteHTTP(B), BackX, top))
        BY <1>7 DEF LowerBoxes, top, B
      <3>2. BackX \in Nat /\ Listed(RemoteHTTP(B))
        BY <1>1, Measures DEF Listed
      <3> QED BY <2>0, <3>1, <3>2, StackColumn, Zenon
    <2> QED BY <2>1, <1>1, <1>4 DEF top
  <1> QED BY <1>5, <1>6, <1>7 DEF B

(* The heights that separate what shares a column.                         *)
LEMMA Heights ==
    ASSUME NEW T \in Topology, SniOn(T)
    PROVE  LET f == F(T)
               ports == StackH(Len(PortNodes(T)))
               stage == StackH(Len(StageNodes(T)))
               http == StackH(Len(RouteNodes(T)))
               upper == StackH(Len(RemoteSNI(BackNodes(T))))
               locals == StackH(Len(Locals(BackNodes(T))))
               lower == StackH(Len(RemoteHTTP(BackNodes(T))))
           IN  /\ ports \in Nat /\ stage \in Nat /\ http \in Nat /\ upper \in Nat
               /\ locals \in Nat /\ lower \in Nat
               /\ Fits(f, Len(PortNodes(T)), Len(StageNodes(T)), Len(RouteNodes(T)),
                       Len(Locals(BackNodes(T))), Len(RemoteSNI(BackNodes(T))))
               /\ f.wrapTop >= 72 + upper
  <1>1. /\ Len(PortNodes(T)) \in Nat /\ Len(StageNodes(T)) \in Nat /\ Len(RouteNodes(T)) \in Nat
        /\ Len(BackNodes(T)) \in Nat /\ Len(Locals(BackNodes(T))) \in Nat
        /\ Len(RemoteSNI(BackNodes(T))) \in Nat /\ Len(RemoteHTTP(BackNodes(T))) \in Nat
    BY PortsDrawn, StageDrawn, RouteBoxesDrawn, BacksDrawn, BackStacks
  <1>2. /\ StackH(Len(PortNodes(T))) \in Nat /\ StackH(Len(StageNodes(T))) \in Nat
        /\ StackH(Len(RouteNodes(T))) \in Nat /\ StackH(Len(RemoteSNI(BackNodes(T)))) \in Nat
        /\ StackH(Len(Locals(BackNodes(T)))) \in Nat
        /\ StackH(Len(RemoteHTTP(BackNodes(T)))) \in Nat
    BY <1>1, StackHeight
  <1>3. Fits(F(T), Len(PortNodes(T)), Len(StageNodes(T)), Len(RouteNodes(T)),
             Len(Locals(BackNodes(T))), Len(RemoteSNI(BackNodes(T))))
    BY FrameOf
  <1>4. F(T).wrapTop >= 72 + StackH(Len(RemoteSNI(BackNodes(T))))
    <2>1. /\ F(T).wrapTop \in Nat
          /\ F(T).wrapTop >= 72 + StackH(Len(RemoteSNI(BackNodes(T))))
                             + (IF Len(RemoteSNI(BackNodes(T))) > 0 THEN 88 ELSE 0)
      BY <1>3, Zenon DEF Fits
    <2> QED BY <2>1, <1>1, <1>2
  <1> QED BY <1>2, <1>3, <1>4

(* Sides of the columns.                                                   *)
LEMMA Sides ==
    ASSUME NEW a, NEW lo, NEW hi
    PROVE  /\ Column(a, PortX, lo, hi) => Rect(a) /\ a.x = 288 /\ a.w = 920
           /\ Column(a, MidX, lo, hi) => Rect(a) /\ a.x = 1680 /\ a.w = 920
           /\ Column(a, BackX, lo, hi) => Rect(a) /\ a.x = 3072 /\ a.w = 920
  BY Measures DEF Column

LEMMA NodeSides ==
    ASSUME NEW T \in Topology, SniOn(T)
    PROVE  /\ \A a \in PortBoxes(T) : Rect(a) /\ a.x = 288 /\ a.w = 920
           /\ \A a \in RuleBoxes(T) \cup RouteBoxes(T) : Rect(a) /\ a.x = 1680 /\ a.w = 920
           /\ \A a \in UpperBoxes(T) \cup LocalBoxes(T) \cup LowerBoxes(T) :
                 Rect(a) /\ a.x = 3072 /\ a.w = 920
  <1>1. ASSUME NEW a \in PortBoxes(T) PROVE Rect(a) /\ a.x = 288 /\ a.w = 920
    BY BoxColumns, Sides
  <1>2. ASSUME NEW a \in RuleBoxes(T) \cup RouteBoxes(T)
        PROVE  Rect(a) /\ a.x = 1680 /\ a.w = 920
    <2>1. CASE a \in RuleBoxes(T)
      BY <2>1, BoxColumns, Sides
    <2>2. CASE a \in RouteBoxes(T)
      BY <2>2, BoxColumns, Sides
    <2> QED BY <1>2, <2>1, <2>2
  <1>3. ASSUME NEW a \in UpperBoxes(T) \cup LocalBoxes(T) \cup LowerBoxes(T)
        PROVE  Rect(a) /\ a.x = 3072 /\ a.w = 920
    <2>1. CASE a \in UpperBoxes(T)
      BY <2>1, BackColumns, Sides
    <2>2. CASE a \in LocalBoxes(T)
      BY <2>2, BackColumns, Sides
    <2>3. CASE a \in LowerBoxes(T)
      BY <2>3, BackColumns, Sides
    <2> QED BY <1>3, <2>1, <2>2, <2>3
  <1> QED BY <1>1, <1>2, <1>3

(* How far down the boxes of each column reach.                            *)
LEMMA NodeHeights ==
    ASSUME NEW T \in Topology, SniOn(T)
    PROVE  /\ \A a \in PortBoxes(T) : /\ a.y >= F(T).wrapTop + 192
                                      /\ a.y + a.h <= F(T).wrapTop + F(T).wrapH
           /\ \A a \in RuleBoxes(T) : /\ a.y >= F(T).sniTop + 192
                                      /\ a.y + a.h <= F(T).sniTop + F(T).sniH - 104
           /\ \A a \in RouteBoxes(T) : /\ a.y >= F(T).httpTop + 192
                                       /\ a.y + a.h <= F(T).httpTop + F(T).httpH - 104
           /\ \A a \in UpperBoxes(T) : a.y >= 72 /\ a.y + a.h <= F(T).wrapTop
           /\ \A a \in LocalBoxes(T) : /\ a.y >= F(T).wrapTop + 192
                                       /\ a.y + a.h <= F(T).wrapTop + F(T).wrapH
           /\ \A a \in LowerBoxes(T) :
                 /\ a.y >= F(T).wrapTop + F(T).wrapH + 88
                 /\ a.y + a.h <= F(T).wrapTop + F(T).wrapH + 88
                                  + StackH(Len(RemoteHTTP(BackNodes(T))))
  <1> DEFINE f == F(T)
             ports == StackH(Len(PortNodes(T)))
             stage == StackH(Len(StageNodes(T)))
             http == StackH(Len(RouteNodes(T)))
             upper == StackH(Len(RemoteSNI(BackNodes(T))))
             locals == StackH(Len(Locals(BackNodes(T))))
             lower == StackH(Len(RemoteHTTP(BackNodes(T))))
  <1>1. /\ ports \in Nat /\ stage \in Nat /\ http \in Nat /\ upper \in Nat
        /\ locals \in Nat /\ lower \in Nat
        /\ f.wrapTop \in Nat /\ f.wrapH \in Nat /\ f.portsTop \in Nat /\ f.localTop \in Nat
        /\ f.sniTop \in Nat /\ f.sniH \in Nat /\ f.httpTop \in Nat /\ f.httpH \in Nat
        /\ f.wrapTop >= 72 + upper
    BY Heights DEF Fits
  <1>2. /\ f.portsTop >= f.wrapTop + 192 /\ f.portsTop + ports <= f.wrapTop + f.wrapH
        /\ f.localTop >= f.wrapTop + 192 /\ f.localTop + locals <= f.wrapTop + f.wrapH
        /\ f.sniH = 296 + stage /\ f.httpH >= 296 + http
    BY Heights DEF Fits
  <1>3. /\ \A a \in PortBoxes(T) : Column(a, PortX, f.portsTop, f.portsTop + ports)
        /\ \A a \in RuleBoxes(T) : Column(a, MidX, f.sniTop + 192, f.sniTop + 192 + stage)
        /\ \A a \in RouteBoxes(T) : Column(a, MidX, f.httpTop + 192, f.httpTop + 192 + http)
        /\ \A a \in UpperBoxes(T) : Column(a, BackX, PAD, PAD + upper)
        /\ \A a \in LocalBoxes(T) : Column(a, BackX, f.localTop, f.localTop + locals)
        /\ \A a \in LowerBoxes(T) :
              Column(a, BackX, f.wrapTop + f.wrapH + 88, f.wrapTop + f.wrapH + 88 + lower)
    BY BoxColumns, BackColumns, Zenon
  <1> HIDE DEF f, ports, stage, http, upper, locals, lower
  <1>4. ASSUME NEW a \in PortBoxes(T)
        PROVE  a.y >= f.wrapTop + 192 /\ a.y + a.h <= f.wrapTop + f.wrapH
    BY <1>1, <1>2, <1>3 DEF Column, Rect
  <1>5. ASSUME NEW a \in RuleBoxes(T)
        PROVE  a.y >= f.sniTop + 192 /\ a.y + a.h <= f.sniTop + f.sniH - 104
    BY <1>1, <1>2, <1>3 DEF Column, Rect
  <1>6. ASSUME NEW a \in RouteBoxes(T)
        PROVE  a.y >= f.httpTop + 192 /\ a.y + a.h <= f.httpTop + f.httpH - 104
    BY <1>1, <1>2, <1>3 DEF Column, Rect
  <1>7. ASSUME NEW a \in UpperBoxes(T)
        PROVE  a.y >= 72 /\ a.y + a.h <= f.wrapTop
    BY <1>1, <1>3, Measures DEF Column, Rect
  <1>8. ASSUME NEW a \in LocalBoxes(T)
        PROVE  a.y >= f.wrapTop + 192 /\ a.y + a.h <= f.wrapTop + f.wrapH
    BY <1>1, <1>2, <1>3 DEF Column, Rect
  <1>9. ASSUME NEW a \in LowerBoxes(T)
        PROVE  /\ a.y >= f.wrapTop + f.wrapH + 88
               /\ a.y + a.h <= f.wrapTop + f.wrapH + 88 + lower
    BY <1>1, <1>3 DEF Column, Rect
  <1> QED BY <1>4, <1>5, <1>6, <1>7, <1>8, <1>9 DEF f, lower

(* The numbers the containers are made of.                                 *)
LEMMA FrameNumbers ==
    ASSUME NEW T \in Topology, SniOn(T)
    PROVE  /\ F(T).wrapTop \in Nat /\ F(T).wrapH \in Nat
           /\ F(T).sniTop \in Nat /\ F(T).sniH \in Nat /\ F(T).sniH >= 296
           /\ F(T).httpTop \in Nat /\ F(T).httpH \in Nat /\ F(T).httpH >= 504
           /\ F(T).wrapTop >= 72 /\ F(T).sniTop >= F(T).wrapTop + 192
           /\ F(T).httpTop = F(T).sniTop + F(T).sniH + 224
           /\ F(T).httpTop + F(T).httpH <= F(T).wrapTop + F(T).wrapH
  <1> DEFINE f == F(T)
             stage == StackH(Len(StageNodes(T)))
             upper == StackH(Len(RemoteSNI(BackNodes(T))))
  <1>1. stage \in Nat /\ upper \in Nat /\ f.wrapTop >= 72 + upper
    BY Heights
  <1>2. /\ f.wrapTop \in Nat /\ f.wrapH \in Nat
        /\ f.sniTop \in Nat /\ f.sniH \in Nat
        /\ f.httpTop \in Nat /\ f.httpH \in Nat
    BY Heights DEF Fits
  <1>3. f.sniH = 296 + stage /\ f.httpH >= 504
    BY Heights DEF Fits
  <1>4. /\ f.sniTop >= f.wrapTop + 192
        /\ f.httpTop = f.sniTop + f.sniH + 224
        /\ f.httpTop + f.httpH <= f.wrapTop + f.wrapH
    BY Heights DEF Fits
  <1> HIDE DEF f, stage, upper
  <1>5. f.wrapTop >= 72 /\ f.sniH >= 296
    BY <1>1, <1>2, <1>3
  <1> QED BY <1>2, <1>3, <1>4, <1>5 DEF f

MidBoxes(T) == RuleBoxes(T) \cup RouteBoxes(T)
BackBoxes(T) == UpperBoxes(T) \cup LocalBoxes(T) \cup LowerBoxes(T)

LEMMA OneStackApart ==
    ASSUME NEW S, NEW ids, Listed(ids), NEW x, x \in Nat, NEW top, top \in Nat,
           S = Range(Stack(ids, x, top))
    PROVE  \A a, b \in S : a.id # b.id => Apart(a, b)
  <1> SUFFICES ASSUME NEW a \in S, NEW b \in S, a.id # b.id PROVE Apart(a, b)
    OBVIOUS
  <1>1. a \in Range(Stack(ids, x, top)) /\ b \in Range(Stack(ids, x, top))
    OBVIOUS
  <1> QED BY <1>1, StackApart

LEMMA SameStackApart ==
    ASSUME NEW T \in Topology, SniOn(T)
    PROVE  /\ \A a, b \in PortBoxes(T) : a.id # b.id => Apart(a, b)
           /\ \A a, b \in RuleBoxes(T) : a.id # b.id => Apart(a, b)
           /\ \A a, b \in RouteBoxes(T) : a.id # b.id => Apart(a, b)
           /\ \A a, b \in UpperBoxes(T) : a.id # b.id => Apart(a, b)
           /\ \A a, b \in LocalBoxes(T) : a.id # b.id => Apart(a, b)
           /\ \A a, b \in LowerBoxes(T) : a.id # b.id => Apart(a, b)
  <1> DEFINE B == BackNodes(T)
             top1 == F(T).sniTop + 192
             top2 == F(T).httpTop + 192
             top3 == F(T).wrapTop + F(T).wrapH + 88
  <1>1. /\ Listed(PortNodes(T)) /\ Listed(StageNodes(T)) /\ Listed(RouteNodes(T))
        /\ Listed(RemoteSNI(B)) /\ Listed(Locals(B)) /\ Listed(RemoteHTTP(B))
    BY PortsDrawn, StageDrawn, RouteBoxesDrawn, BackStacks DEF Listed
  <1>2. /\ F(T).portsTop \in Nat /\ F(T).localTop \in Nat
        /\ top1 \in Nat /\ top2 \in Nat /\ top3 \in Nat
    <2>1. F(T).portsTop \in Nat /\ F(T).localTop \in Nat
      BY FrameOf DEF Fits
    <2>2. /\ F(T).sniTop \in Nat /\ F(T).httpTop \in Nat
          /\ F(T).wrapTop \in Nat /\ F(T).wrapH \in Nat
      BY FrameNumbers
    <2> QED BY <2>1, <2>2
  <1>3. PortX \in Nat /\ MidX \in Nat /\ BackX \in Nat /\ PAD \in Nat
    BY Measures
  <1>4. /\ PortBoxes(T) = Range(Stack(PortNodes(T), PortX, F(T).portsTop))
        /\ RuleBoxes(T) = Range(Stack(StageNodes(T), MidX, top1))
        /\ RouteBoxes(T) = Range(Stack(RouteNodes(T), MidX, top2))
        /\ UpperBoxes(T) = Range(Stack(RemoteSNI(B), BackX, PAD))
        /\ LocalBoxes(T) = Range(Stack(Locals(B), BackX, F(T).localTop))
        /\ LowerBoxes(T) = Range(Stack(RemoteHTTP(B), BackX, top3))
    BY DEF PortBoxes, RuleBoxes, RouteBoxes, UpperBoxes, LocalBoxes, LowerBoxes
  <1> HIDE DEF B, top1, top2, top3
  <1>5. \A a, b \in PortBoxes(T) : a.id # b.id => Apart(a, b)
    BY <1>1, <1>2, <1>3, <1>4, OneStackApart
  <1>6. \A a, b \in RuleBoxes(T) : a.id # b.id => Apart(a, b)
    BY <1>1, <1>2, <1>3, <1>4, OneStackApart
  <1>7. \A a, b \in RouteBoxes(T) : a.id # b.id => Apart(a, b)
    BY <1>1, <1>2, <1>3, <1>4, OneStackApart
  <1>8. \A a, b \in UpperBoxes(T) : a.id # b.id => Apart(a, b)
    BY <1>1, <1>2, <1>3, <1>4, OneStackApart
  <1>9. \A a, b \in LocalBoxes(T) : a.id # b.id => Apart(a, b)
    BY <1>1, <1>2, <1>3, <1>4, OneStackApart
  <1>10. \A a, b \in LowerBoxes(T) : a.id # b.id => Apart(a, b)
    BY <1>1, <1>2, <1>3, <1>4, OneStackApart
  <1> QED BY <1>5, <1>6, <1>7, <1>8, <1>9, <1>10

(* Where everything is: no box reaches another, and the boxes that are     *)
(* inside LocalHost are those that are on this server.                     *)
LEMMA NodesApart ==
    ASSUME NEW T \in Topology, SniOn(T)
    PROVE  \A a, b \in AllNodes(T) : a.id # b.id => Apart(a, b)
  <1>1. \A a \in PortBoxes(T), b \in MidBoxes(T) \cup BackBoxes(T) : Apart(a, b) /\ Apart(b, a)
    BY NodeSides DEF MidBoxes, BackBoxes, Apart
  <1>2. \A a \in MidBoxes(T), b \in BackBoxes(T) : Apart(a, b) /\ Apart(b, a)
    BY NodeSides DEF MidBoxes, BackBoxes, Apart
  <1>3. \A a, b \in MidBoxes(T) : a.id # b.id => Apart(a, b)
    <2>1. \A a \in RuleBoxes(T), b \in RouteBoxes(T) : Apart(a, b) /\ Apart(b, a)
      <3> SUFFICES ASSUME NEW a \in RuleBoxes(T), NEW b \in RouteBoxes(T)
                   PROVE  a.y + a.h <= b.y
        BY DEF Apart
      <3>1. a.y + a.h <= F(T).sniTop + F(T).sniH - 104 /\ b.y >= F(T).httpTop + 192
        BY NodeHeights
      <3>2. Rect(a) /\ Rect(b)
        BY NodeSides
      <3> QED BY <3>1, <3>2, FrameNumbers DEF Rect
    <2> QED BY <2>1, SameStackApart DEF MidBoxes
  <1>4. \A a, b \in BackBoxes(T) : a.id # b.id => Apart(a, b)
    <2>1. \A a \in UpperBoxes(T), b \in LocalBoxes(T) \cup LowerBoxes(T) : Apart(a, b) /\ Apart(b, a)
      <3> SUFFICES ASSUME NEW a \in UpperBoxes(T), NEW b \in LocalBoxes(T) \cup LowerBoxes(T)
                   PROVE  a.y + a.h <= b.y
        BY DEF Apart
      <3>1. a.y + a.h <= F(T).wrapTop /\ b.y >= F(T).wrapTop
        <4>1. CASE b \in LocalBoxes(T)
          <5>1. b.y >= F(T).wrapTop + 192 /\ a.y + a.h <= F(T).wrapTop
            BY <4>1, NodeHeights
          <5>2. Rect(b)
            BY NodeSides
          <5> QED BY <5>1, <5>2, FrameNumbers DEF Rect
        <4>2. CASE b \in LowerBoxes(T)
          <5>1. b.y >= F(T).wrapTop + F(T).wrapH + 88 /\ a.y + a.h <= F(T).wrapTop
            BY <4>2, NodeHeights
          <5>2. Rect(b)
            BY NodeSides
          <5> QED BY <5>1, <5>2, FrameNumbers DEF Rect
        <4> QED BY <4>1, <4>2
      <3>2. Rect(a) /\ Rect(b)
        BY NodeSides
      <3> QED BY <3>1, <3>2, FrameNumbers DEF Rect
    <2>2. \A a \in LocalBoxes(T), b \in LowerBoxes(T) : Apart(a, b) /\ Apart(b, a)
      <3> SUFFICES ASSUME NEW a \in LocalBoxes(T), NEW b \in LowerBoxes(T)
                   PROVE  a.y + a.h <= b.y
        BY DEF Apart
      <3>1. a.y + a.h <= F(T).wrapTop + F(T).wrapH /\ b.y >= F(T).wrapTop + F(T).wrapH + 88
        BY NodeHeights
      <3>2. Rect(a) /\ Rect(b)
        BY NodeSides
      <3> QED BY <3>1, <3>2, FrameNumbers DEF Rect
    <2> QED BY <2>1, <2>2, SameStackApart DEF BackBoxes
  <1>5. AllNodes(T) = PortBoxes(T) \cup MidBoxes(T) \cup BackBoxes(T)
    BY DEF AllNodes, MidBoxes, BackBoxes
  <1> QED BY <1>1, <1>2, <1>3, <1>4, <1>5, SameStackApart

(* Each thing drawn, and the room there is round it.                       *)
LEMMA ThingsPlaced ==
    ASSUME NEW T \in Topology, SniOn(T), NEW r \in AllNodes(T) \cup AllBoxes(T)
    PROVE  /\ Rect(r) /\ r.x >= 72 /\ r.x + r.w <= 4216 /\ r.y >= 72
           /\ r.y + r.h <= F(T).wrapTop + F(T).wrapH + 88
                            + StackH(Len(RemoteHTTP(BackNodes(T))))
  <1> DEFINE lower == StackH(Len(RemoteHTTP(BackNodes(T))))
             f == F(T)
  <1>1. /\ lower \in Nat /\ f.wrapTop \in Nat /\ f.wrapH \in Nat /\ f.sniTop \in Nat
        /\ f.sniH \in Nat /\ f.httpTop \in Nat /\ f.httpH \in Nat
        /\ f.wrapTop >= 72 /\ f.sniTop >= f.wrapTop + 192
        /\ f.httpTop = f.sniTop + f.sniH + 224
        /\ f.httpTop + f.httpH <= f.wrapTop + f.wrapH
        /\ f.sniH >= 296
    BY FrameNumbers, Heights
  <1>2. CASE r \in PortBoxes(T)
    <2>1. r.y >= f.wrapTop + 192 /\ r.y + r.h <= f.wrapTop + f.wrapH
      BY <1>2, NodeHeights
    <2>2. Rect(r) /\ r.x = 288 /\ r.w = 920
      BY <1>2, NodeSides
    <2> HIDE DEF f, lower
    <2>3. r.y + r.h <= f.wrapTop + f.wrapH + 88 + lower /\ r.y >= 72
      BY <1>1, <2>1, <2>2 DEF Rect
    <2> QED BY <2>2, <2>3 DEF f, lower
  <1>3. CASE r \in RuleBoxes(T)
    <2>1. r.y >= f.sniTop + 192 /\ r.y + r.h <= f.sniTop + f.sniH - 104
      BY <1>3, NodeHeights
    <2>2. Rect(r) /\ r.x = 1680 /\ r.w = 920
      BY <1>3, NodeSides
    <2> HIDE DEF f, lower
    <2>3. r.y + r.h <= f.wrapTop + f.wrapH + 88 + lower /\ r.y >= 72
      BY <1>1, <2>1, <2>2 DEF Rect
    <2> QED BY <2>2, <2>3 DEF f, lower
  <1>4. CASE r \in RouteBoxes(T)
    <2>1. r.y >= f.httpTop + 192 /\ r.y + r.h <= f.httpTop + f.httpH - 104
      BY <1>4, NodeHeights
    <2>2. Rect(r) /\ r.x = 1680 /\ r.w = 920
      BY <1>4, NodeSides
    <2> HIDE DEF f, lower
    <2>3. r.y + r.h <= f.wrapTop + f.wrapH + 88 + lower /\ r.y >= 72
      BY <1>1, <2>1, <2>2 DEF Rect
    <2> QED BY <2>2, <2>3 DEF f, lower
  <1>5. CASE r \in UpperBoxes(T)
    <2>1. r.y >= 72 /\ r.y + r.h <= f.wrapTop
      BY <1>5, NodeHeights
    <2>2. Rect(r) /\ r.x = 3072 /\ r.w = 920
      BY <1>5, NodeSides
    <2> HIDE DEF f, lower
    <2>3. r.y + r.h <= f.wrapTop + f.wrapH + 88 + lower
      BY <1>1, <2>1, <2>2 DEF Rect
    <2> QED BY <2>1, <2>2, <2>3 DEF f, lower
  <1>6. CASE r \in LocalBoxes(T)
    <2>1. r.y >= f.wrapTop + 192 /\ r.y + r.h <= f.wrapTop + f.wrapH
      BY <1>6, NodeHeights
    <2>2. Rect(r) /\ r.x = 3072 /\ r.w = 920
      BY <1>6, NodeSides
    <2> HIDE DEF f, lower
    <2>3. r.y + r.h <= f.wrapTop + f.wrapH + 88 + lower /\ r.y >= 72
      BY <1>1, <2>1, <2>2 DEF Rect
    <2> QED BY <2>2, <2>3 DEF f, lower
  <1>7. CASE r \in LowerBoxes(T)
    <2>1. r.y >= f.wrapTop + f.wrapH + 88 /\ r.y + r.h <= f.wrapTop + f.wrapH + 88 + lower
      BY <1>7, NodeHeights
    <2>2. Rect(r) /\ r.x = 3072 /\ r.w = 920
      BY <1>7, NodeSides
    <2> HIDE DEF f, lower
    <2>3. r.y >= 72
      BY <1>1, <2>1, <2>2 DEF Rect
    <2> QED BY <2>1, <2>2, <2>3 DEF f, lower
  <1>8. CASE r \in AllBoxes(T)
    <2>1. r = SniBox(T) \/ r = HttpBox(T) \/ r = LocalHost(T)
      BY <1>8 DEF AllBoxes
    <2>2. Rect(r) /\ r.x >= 72 /\ r.x + r.w <= 4216 /\ r.y >= f.wrapTop
          /\ r.y + r.h <= f.wrapTop + f.wrapH
      <3> DEFINE low == f.wrapTop + f.wrapH
      <3>0. /\ f.sniTop >= f.wrapTop /\ f.sniTop + f.sniH <= low
            /\ f.httpTop >= f.wrapTop /\ f.httpTop + f.httpH <= low
        <4> DEFINE wt == f.wrapTop
                   wh == f.wrapH
                   st == f.sniTop
                   sh == f.sniH
                   ht == f.httpTop
                   hh == f.httpH
        <4>1. /\ wt \in Nat /\ wh \in Nat /\ st \in Nat /\ sh \in Nat /\ ht \in Nat /\ hh \in Nat
              /\ st >= wt + 192 /\ ht = st + sh + 224 /\ ht + hh <= wt + wh
          BY <1>1
        <4> HIDE DEF f, wt, wh, st, sh, ht, hh
        <4>2. /\ st >= wt /\ st + sh <= wt + wh
              /\ ht >= wt /\ ht + hh <= wt + wh
          BY <4>1
        <4> QED BY <4>2 DEF wt, wh, st, sh, ht, hh
      <3> HIDE DEF low
      <3>1. CASE r = SniBox(T)
        <4>1. /\ r = [id |-> r.id, x |-> r.x, y |-> r.y, w |-> r.w, h |-> r.h]
              /\ r.x = 1464 /\ r.y = f.sniTop /\ r.w = 1352 /\ r.h = f.sniH
          BY <3>1 DEF SniBox
        <4> HIDE DEF f
        <4>2. Rect(r)
          BY <4>1, <1>1 DEF Rect
        <4>3. r.y >= f.wrapTop /\ r.y + r.h <= f.wrapTop + f.wrapH
          BY <4>1, <3>0 DEF low
        <4> QED BY <4>1, <4>2, <4>3
      <3>2. CASE r = HttpBox(T)
        <4>1. /\ r = [id |-> r.id, x |-> r.x, y |-> r.y, w |-> r.w, h |-> r.h]
              /\ r.x = 1464 /\ r.y = f.httpTop /\ r.w = 1352 /\ r.h = f.httpH
          BY <3>2 DEF HttpBox
        <4> HIDE DEF f
        <4>2. Rect(r)
          BY <4>1, <1>1 DEF Rect
        <4>3. r.y >= f.wrapTop /\ r.y + r.h <= f.wrapTop + f.wrapH
          BY <4>1, <3>0 DEF low
        <4> QED BY <4>1, <4>2, <4>3
      <3>3. CASE r = LocalHost(T)
        <4>1. /\ r = [id |-> r.id, x |-> r.x, y |-> r.y, w |-> r.w, h |-> r.h]
              /\ r.x = PAD /\ r.y = f.wrapTop /\ r.w = 4136 /\ r.h = f.wrapH
          BY <3>3 DEF LocalHost
        <4>2. r.x = 72
          BY <4>1, Measures
        <4> HIDE DEF f
        <4> QED BY <4>1, <4>2, <1>1 DEF Rect
      <3> QED BY <2>1, <3>1, <3>2, <3>3
    <2> HIDE DEF f, lower
    <2>3. r.y + r.h <= f.wrapTop + f.wrapH + 88 + lower /\ r.y >= 72
      BY <1>1, <2>2 DEF Rect
    <2> QED BY <2>2, <2>3 DEF f, lower
  <1> QED BY <1>2, <1>3, <1>4, <1>5, <1>6, <1>7, <1>8 DEF AllNodes

HeightOf(T) == Largest({r.y + r.h : r \in AllNodes(T) \cup AllBoxes(T)}) + PAD

LEMMA NothingBelow ==
    ASSUME NEW T \in Topology, SniOn(T)
    PROVE  /\ HeightOf(T) \in Nat
           /\ \A r \in AllNodes(T) \cup AllBoxes(T) : r.y + r.h + 72 <= HeightOf(T)
  <1> DEFINE S == {r.y + r.h : r \in AllNodes(T) \cup AllBoxes(T)}
             top == F(T).wrapTop + F(T).wrapH + 88 + StackH(Len(RemoteHTTP(BackNodes(T))))
  <1>1. top \in Nat
    <2>1. F(T).wrapTop \in Nat /\ F(T).wrapH \in Nat
      BY FrameNumbers
    <2>2. StackH(Len(RemoteHTTP(BackNodes(T)))) \in Nat
      BY Heights
    <2> QED BY <2>1, <2>2
  <1>2. \A r \in AllNodes(T) \cup AllBoxes(T) : r.y + r.h \in Nat /\ r.y + r.h <= top
    BY ThingsPlaced DEF Rect
  <1>3. S # {}
    BY DEF AllBoxes
  <1>4. S \in SUBSET Nat /\ \A n \in S : n <= top
    BY <1>2
  <1>5. HeightOf(T) = Largest(S) + 72
    BY Measures DEF HeightOf
  <1> HIDE DEF S, top
  <1>6. Largest(S) \in S /\ \A n \in S : n <= Largest(S)
    BY <1>1, <1>3, <1>4, LargestBounded
  <1>7. \A r \in AllNodes(T) \cup AllBoxes(T) : r.y + r.h \in S
    BY DEF S
  <1> DEFINE most == Largest(S)
  <1>8. most \in Nat /\ (\A n \in S : n \in Nat /\ n <= most)
    BY <1>4, <1>6
  <1>9. HeightOf(T) = most + 72
    BY <1>5
  <1> HIDE DEF most
  <1>10. ASSUME NEW r \in AllNodes(T) \cup AllBoxes(T) PROVE r.y + r.h + 72 <= most + 72
    <2> DEFINE n == r.y + r.h
    <2>1. n \in Nat /\ n <= most
      BY <1>7, <1>8
    <2> HIDE DEF n
    <2>2. n + 72 <= most + 72
      BY <2>1, <1>8
    <2> QED BY <2>2 DEF n
  <1> QED BY <1>8, <1>9, <1>10

(***************************************************************************)
(* The picture in either direction: what is drawn is the layout, or its    *)
(* mirror image.                                                           *)
(***************************************************************************)
Shown(r, rtl) == IF rtl THEN Mirrored(r) ELSE r

LEMMA ShownRect ==
    ASSUME NEW r, Rect(r), r.x + r.w <= 4288, NEW rtl \in BOOLEAN
    PROVE  /\ Rect(Shown(r, rtl)) /\ Shown(r, rtl).id = r.id
           /\ Shown(r, rtl).y = r.y /\ Shown(r, rtl).w = r.w /\ Shown(r, rtl).h = r.h
           /\ Shown(r, rtl).x = IF rtl THEN 4288 - r.x - r.w ELSE r.x
           /\ Shown(r, rtl).x + r.w <= 4288
  <1>1. CASE ~rtl
    BY <1>1 DEF Shown, Rect
  <1>2. CASE rtl
    <2> DEFINE m == [id |-> r.id, x |-> 4288 - r.x - r.w, y |-> r.y, w |-> r.w, h |-> r.h]
    <2>1. Mirrored(r) = m
      BY Measures DEF Mirrored, Rect
    <2>2. Shown(r, rtl) = m
      BY <1>2, <2>1 DEF Shown
    <2>3. /\ m.id = r.id /\ m.x = 4288 - r.x - r.w /\ m.y = r.y /\ m.w = r.w /\ m.h = r.h
          /\ m = [id |-> m.id, x |-> m.x, y |-> m.y, w |-> m.w, h |-> m.h]
      OBVIOUS
    <2> HIDE DEF m
    <2>4. Rect(m)
      <3>1. 4288 - r.x - r.w \in Nat
        BY DEF Rect
      <3> QED BY <2>3, <3>1 DEF Rect
    <2>5. m.x + r.w <= 4288
      BY <2>3 DEF Rect
    <2>6. /\ m.id = r.id /\ m.y = r.y /\ m.w = r.w /\ m.h = r.h
          /\ m.x = IF rtl THEN 4288 - r.x - r.w ELSE r.x
      BY <1>2, <2>3
    <2>7. /\ Rect(Shown(r, rtl)) /\ Shown(r, rtl).id = r.id
          /\ Shown(r, rtl).y = r.y /\ Shown(r, rtl).w = r.w /\ Shown(r, rtl).h = r.h
      BY <2>2, <2>4, <2>6
    <2>8. Shown(r, rtl).x = IF rtl THEN 4288 - r.x - r.w ELSE r.x
      BY <2>2, <2>6
    <2>9. Shown(r, rtl).x + r.w <= 4288
      BY <2>2, <2>5
    <2> QED BY <2>7, <2>8, <2>9
  <1> QED BY <1>1, <1>2

LEMMA ShownKeeps ==
    ASSUME NEW a, Rect(a), a.x + a.w <= 4288, NEW b, Rect(b), b.x + b.w <= 4288,
           NEW rtl \in BOOLEAN
    PROVE  /\ Apart(a, b) => Apart(Shown(a, rtl), Shown(b, rtl))
           /\ Within(a, b) => Within(Shown(a, rtl), Shown(b, rtl))
  <1> DEFINE s == Shown(a, rtl)
             t == Shown(b, rtl)
  <1>1. /\ s.y = a.y /\ s.w = a.w /\ s.h = a.h
        /\ s.x = IF rtl THEN 4288 - a.x - a.w ELSE a.x
    BY ShownRect
  <1>2. /\ t.y = b.y /\ t.w = b.w /\ t.h = b.h
        /\ t.x = IF rtl THEN 4288 - b.x - b.w ELSE b.x
    BY ShownRect
  <1> HIDE DEF s, t
  <1>3. Apart(a, b) => Apart(s, t)
    BY <1>1, <1>2 DEF Apart, Rect
  <1>4. Within(a, b) => Within(s, t)
    BY <1>1, <1>2 DEF Within, Rect
  <1> QED BY <1>3, <1>4 DEF s, t

LEMMA PictureIs ==
    ASSUME NEW T \in Topology, SniOn(T), NEW rtl \in BOOLEAN
    PROVE  /\ Picture(T, rtl).nodes = {Shown(r, rtl) : r \in AllNodes(T)}
           /\ Picture(T, rtl).boxes = {Shown(r, rtl) : r \in AllBoxes(T)}
           /\ Picture(T, rtl).height = HeightOf(T)
  <1> DEFINE p == Placed(T)
  <1>1. p = [nodes |-> AllNodes(T), boxes |-> AllBoxes(T), height |-> HeightOf(T)]
    BY PlacedIs DEF HeightOf
  <1>2. Picture(T, rtl) = Turned(p, rtl)
    BY DEF Picture
  <1> HIDE DEF p
  <1>3. CASE ~rtl
    <2>1. Picture(T, rtl) = p
      BY <1>2, <1>3 DEF Turned
    <2>2. \A r : Shown(r, rtl) = r
      BY <1>3 DEF Shown
    <2> QED BY <1>1, <2>1, <2>2
  <1>4. CASE rtl
    <2>1. Picture(T, rtl) = [p EXCEPT !.nodes = {Mirrored(r) : r \in @},
                                      !.boxes = {Mirrored(r) : r \in @}]
      BY <1>2, <1>4 DEF Turned
    <2>2. \A r : Shown(r, rtl) = Mirrored(r)
      BY <1>4 DEF Shown
    <2>3. /\ Picture(T, rtl).nodes = {Mirrored(r) : r \in AllNodes(T)}
          /\ Picture(T, rtl).boxes = {Mirrored(r) : r \in AllBoxes(T)}
          /\ Picture(T, rtl).height = HeightOf(T)
      BY <1>1, <2>1
    <2> QED BY <2>2, <2>3
  <1> QED BY <1>3, <1>4

(* What a line is drawn from and to: the containers, and nginx's own box   *)
(* at the end of the SNI stage.                                            *)
LEMMA NodeTags ==
    ASSUME NEW T \in Topology, SniOn(T), NEW r \in AllNodes(T)
    PROVE  r.id[1] \in {"port", "sni", "route", "back"} /\ (r.id[1] = "sni" => r \in RuleBoxes(T))
  BY BoxColumns, BackColumns DEF AllNodes

LEMMA FoundBoxes ==
    ASSUME NEW T \in Topology, SniOn(T), NEW rtl \in BOOLEAN
    PROVE  /\ Find(Picture(T, rtl), Box("sni")) = Shown(SniBox(T), rtl)
           /\ Find(Picture(T, rtl), Box("http")) = Shown(HttpBox(T), rtl)
           /\ Find(Picture(T, rtl), Box("local")) = Shown(LocalHost(T), rtl)
           /\ \E r \in RuleBoxes(T) : Find(Picture(T, rtl), Hop) = Shown(r, rtl)
  <1> DEFINE p == Picture(T, rtl)
             things == AllNodes(T) \cup AllBoxes(T)
             shown == p.nodes \cup p.boxes
  <1>1. shown = {Shown(r, rtl) : r \in things}
    BY PictureIs
  <1>2. \A r \in things : Shown(r, rtl).id = r.id
    <2> SUFFICES ASSUME NEW r \in things PROVE Shown(r, rtl).id = r.id
      OBVIOUS
    <2>1. Rect(r) /\ r.x + r.w <= 4288
      BY ThingsPlaced DEF Rect
    <2> QED BY <2>1, ShownRect
  <1>3. \A r \in AllNodes(T) : r.id[1] \in {"port", "sni", "route", "back"}
    BY NodeTags
  <1>4. /\ SniBox(T).id = Box("sni") /\ HttpBox(T).id = Box("http")
        /\ LocalHost(T).id = Box("local")
    BY DEF SniBox, HttpBox, LocalHost
  <1>5. /\ Box("sni") # Box("http") /\ Box("sni") # Box("local") /\ Box("http") # Box("local")
        /\ \A tag : Box(tag)[1] = "box"
    BY DEF Box
  <1>6. /\ \A r \in things : r.id = Box("sni") => r = SniBox(T)
        /\ \A r \in things : r.id = Box("http") => r = HttpBox(T)
        /\ \A r \in things : r.id = Box("local") => r = LocalHost(T)
    BY <1>3, <1>4, <1>5 DEF AllBoxes
  <1>7. SniBox(T) \in things /\ HttpBox(T) \in things /\ LocalHost(T) \in things
    BY DEF AllBoxes
  <1>8. PICK h \in RuleBoxes(T) : h.id = Hop
    <2>0. /\ StageNodes(T) \in Seq({<<"sni", v>> : v \in STRING \cup {"nginx-http"}})
          /\ Hop \in Range(StageNodes(T))
      BY StageDrawn
    <2>1. Listed(StageNodes(T)) /\ Hop \in Range(StageNodes(T))
      BY <2>0 DEF Listed
    <2> DEFINE top == F(T).sniTop + 192
    <2>2. top \in Nat /\ MidX \in Nat
      BY FrameNumbers, Measures
    <2>3. RuleBoxes(T) = Range(Stack(StageNodes(T), MidX, top))
      BY DEF RuleBoxes
    <2> HIDE DEF top
    <2> QED BY <2>1, <2>2, <2>3, StackHas
  <1>9. \A r \in things : r.id = Hop => r \in RuleBoxes(T)
    <2>1. Hop[1] = "sni"
      BY DEF Hop
    <2>2. \A r \in AllBoxes(T) : r.id[1] = "box"
      BY <1>4, <1>5 DEF AllBoxes
    <2> QED BY <2>1, <2>2, NodeTags
  <1>10. h \in things
    BY <1>8 DEF AllNodes
  <1>11. \A id : Find(p, id) = CHOOSE r \in shown : r.id = id
    BY DEF Find
  <1> HIDE DEF p, things, shown
  <1>12. ASSUME NEW id, NEW t \in things, t.id = id, \A r \in things : r.id = id => r = t
         PROVE  Find(p, id) = Shown(t, rtl)
    <2>1. Shown(t, rtl) \in shown /\ Shown(t, rtl).id = id
      BY <1>1, <1>2, <1>12
    <2>2. \A s \in shown : s.id = id => s = Shown(t, rtl)
      BY <1>1, <1>2, <1>12
    <2> QED BY <1>11, <2>1, <2>2
  <1>13. \E r \in RuleBoxes(T) : Find(p, Hop) = Shown(r, rtl)
    <2>1. Shown(h, rtl) \in shown /\ Shown(h, rtl).id = Hop
      BY <1>1, <1>2, <1>8, <1>10
    <2>2. Find(p, Hop) \in shown /\ Find(p, Hop).id = Hop
      BY <1>11, <2>1
    <2>3. PICK r \in things : Find(p, Hop) = Shown(r, rtl)
      BY <1>1, <2>2
    <2>4. r.id = Hop
      BY <1>2, <2>2, <2>3
    <2> QED BY <1>9, <2>3, <2>4
  <1>14. Find(p, Box("sni")) = Shown(SniBox(T), rtl)
    BY <1>4, <1>6, <1>7, <1>12
  <1>15. Find(p, Box("http")) = Shown(HttpBox(T), rtl)
    BY <1>4, <1>6, <1>7, <1>12
  <1>16. Find(p, Box("local")) = Shown(LocalHost(T), rtl)
    BY <1>4, <1>6, <1>7, <1>12
  <1> QED BY <1>13, <1>14, <1>15, <1>16 DEF p

LEMMA RemoteTags ==
    ASSUME NEW T \in Topology, NEW b \in Remote(T)
    PROVE  b[1] = "back"
  <1>1. BackNodes(T) \in Seq(Backends(T))
    BY BacksDrawn
  <1>2. PICK i \in DOMAIN BackNodes(T) : b = BackNodes(T)[i].id
    BY DEF Remote, Range
  <1>3. BackNodes(T)[i] \in Backends(T)
    BY <1>1
  <1>4. b \in BackIds(T) \cup {NoBack}
    BY <1>2, <1>3 DEF Backends
  <1> QED BY <1>4, BackTags

LEMMA LocalHostHolds ==
    ASSUME NEW T \in Topology, SniOn(T), NEW a \in AllNodes(T)
    PROVE  IF a.id \in Remote(T) THEN Apart(a, LocalHost(T)) ELSE Within(a, LocalHost(T))
  <1> DEFINE wt == F(T).wrapTop
             wh == F(T).wrapH
             st == F(T).sniTop
             sh == F(T).sniH
             ht == F(T).httpTop
             hh == F(T).httpH
             l == LocalHost(T)
  <1>1. /\ wt \in Nat /\ wh \in Nat /\ st \in Nat /\ sh \in Nat /\ ht \in Nat /\ hh \in Nat
        /\ st >= wt + 192 /\ ht = st + sh + 224 /\ ht + hh <= wt + wh
    BY FrameNumbers
  <1>2. l.x = 72 /\ l.y = wt /\ l.w = 4136 /\ l.h = wh
    BY Measures DEF LocalHost
  <1>3. Rect(a)
    BY ThingsPlaced
  <1>4. CASE a \in PortBoxes(T)
    <2>1. a.y >= wt + 192 /\ a.y + a.h <= wt + wh
      BY <1>4, NodeHeights
    <2>2. a.x = 288 /\ a.w = 920
      BY <1>4, NodeSides
    <2>3. a.id \notin Remote(T)
      BY <1>4, BoxColumns, RemoteTags
    <2> HIDE DEF wt, wh, st, sh, ht, hh, l
    <2>4. Within(a, l)
      BY <1>1, <1>2, <1>3, <2>1, <2>2 DEF Within, Rect
    <2> QED BY <2>3, <2>4 DEF l
  <1>5. CASE a \in RuleBoxes(T)
    <2>1. a.y >= st + 192 /\ a.y + a.h <= st + sh - 104
      BY <1>5, NodeHeights
    <2>2. a.x = 1680 /\ a.w = 920
      BY <1>5, NodeSides
    <2>3. a.id \notin Remote(T)
      BY <1>5, BoxColumns, RemoteTags
    <2> HIDE DEF wt, wh, st, sh, ht, hh, l
    <2>4. Within(a, l)
      BY <1>1, <1>2, <1>3, <2>1, <2>2 DEF Within, Rect
    <2> QED BY <2>3, <2>4 DEF l
  <1>6. CASE a \in RouteBoxes(T)
    <2>1. a.y >= ht + 192 /\ a.y + a.h <= ht + hh - 104
      BY <1>6, NodeHeights
    <2>2. a.x = 1680 /\ a.w = 920
      BY <1>6, NodeSides
    <2>3. a.id \notin Remote(T)
      BY <1>6, BoxColumns, RemoteTags
    <2> HIDE DEF wt, wh, st, sh, ht, hh, l
    <2>4. Within(a, l)
      BY <1>1, <1>2, <1>3, <2>1, <2>2 DEF Within, Rect
    <2> QED BY <2>3, <2>4 DEF l
  <1>7. CASE a \in UpperBoxes(T)
    <2>1. a.y + a.h <= wt
      BY <1>7, NodeHeights
    <2>2. a.id \in Remote(T)
      BY <1>7, BackColumns
    <2>3. Apart(a, l)
      BY <1>2, <2>1 DEF Apart
    <2> QED BY <2>2, <2>3
  <1>8. CASE a \in LocalBoxes(T)
    <2>1. a.y >= wt + 192 /\ a.y + a.h <= wt + wh
      BY <1>8, NodeHeights
    <2>2. a.x = 3072 /\ a.w = 920
      BY <1>8, NodeSides
    <2>3. a.id \notin Remote(T)
      BY <1>8, BackColumns
    <2> HIDE DEF wt, wh, st, sh, ht, hh, l
    <2>4. Within(a, l)
      BY <1>1, <1>2, <1>3, <2>1, <2>2 DEF Within, Rect
    <2> QED BY <2>3, <2>4 DEF l
  <1>9. CASE a \in LowerBoxes(T)
    <2>1. a.y >= wt + wh + 88
      BY <1>9, NodeHeights
    <2>2. a.id \in Remote(T)
      BY <1>9, BackColumns
    <2> HIDE DEF wt, wh, st, sh, ht, hh, l
    <2>3. Apart(a, l)
      BY <1>1, <1>2, <1>3, <2>1 DEF Apart, Rect
    <2> QED BY <2>2, <2>3 DEF l
  <1> QED BY <1>4, <1>5, <1>6, <1>7, <1>8, <1>9 DEF AllNodes

(* Nothing in the picture covers or cuts anything else.                    *)
LEMMA PictureUncovered ==
    ASSUME NEW T \in Topology, SniOn(T), NEW rtl \in BOOLEAN
    PROVE  Uncovered(Picture(T, rtl), Remote(T))
  <1> DEFINE p == Picture(T, rtl)
             things == AllNodes(T) \cup AllBoxes(T)
  <1>1. /\ p.nodes = {Shown(r, rtl) : r \in AllNodes(T)}
        /\ p.boxes = {Shown(r, rtl) : r \in AllBoxes(T)}
        /\ p.height = HeightOf(T)
    BY PictureIs
  <1>2. /\ Find(p, Box("sni")) = Shown(SniBox(T), rtl)
        /\ Find(p, Box("http")) = Shown(HttpBox(T), rtl)
        /\ Find(p, Box("local")) = Shown(LocalHost(T), rtl)
    BY FoundBoxes
  <1> HIDE DEF p
  <1>3. \A r \in things : Rect(r) /\ r.x + r.w <= 4288
    BY ThingsPlaced DEF Rect
  <1>4. AllNodes(T) \subseteq things /\ SniBox(T) \in things /\ HttpBox(T) \in things
        /\ LocalHost(T) \in things
    BY DEF AllBoxes
  <1>5. \A r \in things : /\ Rect(Shown(r, rtl)) /\ Shown(r, rtl).id = r.id
                          /\ Shown(r, rtl).y = r.y /\ Shown(r, rtl).h = r.h
                          /\ Shown(r, rtl).w = r.w /\ Shown(r, rtl).x + r.w <= 4288
    BY <1>3, ShownRect
  <1>6. ASSUME NEW a \in p.nodes, NEW b \in p.nodes, a.id # b.id PROVE Apart(a, b)
    <2>1. PICK r \in AllNodes(T) : a = Shown(r, rtl)
      BY <1>1
    <2>2. PICK s \in AllNodes(T) : b = Shown(s, rtl)
      BY <1>1
    <2>3. r.id # s.id
      BY <1>4, <1>5, <1>6, <2>1, <2>2
    <2>4. Apart(r, s)
      BY <2>3, NodesApart
    <2> QED BY <1>3, <1>4, <2>1, <2>2, <2>4, ShownKeeps
  <1>7. ASSUME NEW a \in p.nodes \cup p.boxes PROVE Within(a, ViewBox(p))
    <2>1. PICK r \in things : a = Shown(r, rtl)
      BY <1>1
    <2>2. r.y + r.h + 72 <= HeightOf(T) /\ HeightOf(T) \in Nat
      BY NothingBelow
    <2>3. Rect(a) /\ a.y = r.y /\ a.h = r.h /\ a.w = r.w /\ a.x + a.w <= 4288
      BY <1>5, <2>1
    <2>4. a.y + a.h <= HeightOf(T)
      BY <1>3, <2>2, <2>3 DEF Rect
    <2>5. ViewBox(p).x = 0 /\ ViewBox(p).y = 0 /\ ViewBox(p).w = 4288 /\ ViewBox(p).h = HeightOf(T)
      BY <1>1, Measures DEF ViewBox
    <2> HIDE DEF things
    <2>6. 0 <= a.x /\ 0 <= a.y /\ a.x + a.w <= 0 + 4288 /\ a.y + a.h <= 0 + HeightOf(T)
      BY <2>2, <2>3, <2>4 DEF Rect
    <2> QED BY <2>5, <2>6 DEF Within
  <1>8. Apart(Find(p, Box("sni")), Find(p, Box("http")))
    <2>1. Apart(SniBox(T), HttpBox(T))
      <3> DEFINE st == F(T).sniTop
                 sh == F(T).sniH
                 ht == F(T).httpTop
      <3>1. st \in Nat /\ sh \in Nat /\ ht = st + sh + 224
        BY FrameNumbers
      <3>2. SniBox(T).y = st /\ SniBox(T).h = sh /\ HttpBox(T).y = ht
        BY DEF SniBox, HttpBox
      <3> HIDE DEF st, sh, ht
      <3>3. SniBox(T).y + SniBox(T).h <= HttpBox(T).y
        BY <3>1, <3>2
      <3> QED BY <3>3 DEF Apart
    <2> QED BY <1>2, <1>3, <1>4, <2>1, ShownKeeps
  <1>9. ASSUME NEW a \in p.nodes
        PROVE  IF a.id \in Remote(T) THEN Apart(a, Find(p, Box("local")))
                                     ELSE Within(a, Find(p, Box("local")))
    <2>1. PICK r \in AllNodes(T) : a = Shown(r, rtl)
      BY <1>1
    <2>2. IF r.id \in Remote(T) THEN Apart(r, LocalHost(T)) ELSE Within(r, LocalHost(T))
      BY LocalHostHolds
    <2>3. a.id = r.id
      BY <1>4, <1>5, <2>1
    <2>4. CASE a.id \in Remote(T)
      BY <1>2, <1>3, <1>4, <2>1, <2>2, <2>3, <2>4, ShownKeeps
    <2>5. CASE a.id \notin Remote(T)
      BY <1>2, <1>3, <1>4, <2>1, <2>2, <2>3, <2>5, ShownKeeps
    <2> QED BY <2>4, <2>5
  <1> QED BY <1>6, <1>7, <1>8, <1>9 DEF Uncovered, p

(***************************************************************************)
(* The hop from nginx's own box to the HTTP stage.                         *)
(***************************************************************************)
LEMMA ShownSides ==
    ASSUME NEW T \in Topology, SniOn(T), NEW rtl \in BOOLEAN
    PROVE  /\ \A r \in PortBoxes(T) \cup BackBoxes(T) :
                 /\ Shown(r, rtl).x \in Nat /\ Shown(r, rtl).w = 920
                 /\ Shown(r, rtl).x + 920 <= 1216 \/ Shown(r, rtl).x >= 3072
           /\ \A r \in MidBoxes(T) \cup {SniBox(T), HttpBox(T)} :
                 /\ Shown(r, rtl).x \in Nat /\ Shown(r, rtl).w \in Nat
                 /\ Shown(r, rtl).x >= 1464 /\ Shown(r, rtl).x + Shown(r, rtl).w <= 2824
  <1>1. \A r \in AllNodes(T) \cup AllBoxes(T) : Rect(r) /\ r.x + r.w <= 4288
    BY ThingsPlaced DEF Rect
  <1>2. ASSUME NEW r \in AllNodes(T) \cup AllBoxes(T)
        PROVE  /\ Shown(r, rtl).w = r.w /\ Rect(Shown(r, rtl))
               /\ Shown(r, rtl).x = IF rtl THEN 4288 - r.x - r.w ELSE r.x
    BY <1>1, ShownRect
  <1>3. ASSUME NEW r \in PortBoxes(T) \cup BackBoxes(T)
        PROVE  /\ Shown(r, rtl).x \in Nat /\ Shown(r, rtl).w = 920
               /\ Shown(r, rtl).x + 920 <= 1216 \/ Shown(r, rtl).x >= 3072
    <2>1. (r.x = 288 /\ r.w = 920) \/ (r.x = 3072 /\ r.w = 920)
      BY NodeSides DEF BackBoxes
    <2>2. r \in AllNodes(T) \cup AllBoxes(T)
      BY DEF BackBoxes, AllNodes
    <2>3. /\ Shown(r, rtl).w = r.w
          /\ Shown(r, rtl).x = IF rtl THEN 4288 - r.x - r.w ELSE r.x
      BY <1>2, <2>2
    <2> QED BY <2>1, <2>3
  <1>4. ASSUME NEW r \in MidBoxes(T) \cup {SniBox(T), HttpBox(T)}
        PROVE  /\ Shown(r, rtl).x \in Nat /\ Shown(r, rtl).w \in Nat
               /\ Shown(r, rtl).x >= 1464 /\ Shown(r, rtl).x + Shown(r, rtl).w <= 2824
    <2>1. (r.x = 1680 /\ r.w = 920) \/ (r.x = 1464 /\ r.w = 1352)
      <3>1. CASE r \in MidBoxes(T)
        <4>1. r \in RuleBoxes(T) \cup RouteBoxes(T)
          BY <3>1 DEF MidBoxes
        <4>2. r.x = 1680 /\ r.w = 920
          BY <4>1, NodeSides
        <4> QED BY <4>2
      <3>2. CASE r = SniBox(T) \/ r = HttpBox(T)
        BY <3>2 DEF SniBox, HttpBox
      <3> QED BY <3>1, <3>2
    <2>2. r \in AllNodes(T) \cup AllBoxes(T)
      BY DEF MidBoxes, AllNodes, AllBoxes
    <2>3. /\ Shown(r, rtl).w = r.w
          /\ Shown(r, rtl).x = IF rtl THEN 4288 - r.x - r.w ELSE r.x
      BY <1>2, <2>2
    <2> QED BY <2>1, <2>3
  <1> QED BY <1>3, <1>4

Corridor(T) == F(T).sniTop + F(T).sniH + 112

LEMMA CorridorIs ==
    ASSUME NEW T \in Topology, SniOn(T)
    PROVE  /\ Corridor(T) \in Nat /\ Corridor(T) >= 112
           /\ (F(T).sniTop + F(T).sniH + F(T).httpTop) \div 2 = Corridor(T)
           /\ F(T).sniTop + F(T).sniH <= Corridor(T) /\ Corridor(T) + 1 <= F(T).httpTop
           /\ F(T).httpTop + F(T).httpH + 72 <= HeightOf(T)
  <1> DEFINE st == F(T).sniTop
             sh == F(T).sniH
             ht == F(T).httpTop
             hh == F(T).httpH
             c == Corridor(T)
  <1>1. st \in Nat /\ sh \in Nat /\ ht = st + sh + 224 /\ hh \in Nat
    BY FrameNumbers
  <1>2. c = st + sh + 112
    BY DEF Corridor
  <1>3. ht + hh + 72 <= HeightOf(T)
    <2>1. HttpBox(T).y + HttpBox(T).h + 72 <= HeightOf(T)
      BY NothingBelow DEF AllBoxes
    <2> QED BY <2>1 DEF HttpBox
  <1> HIDE DEF st, sh, ht, hh, c
  <1>4. c \in Nat /\ c >= 112 /\ st + sh <= c /\ c + 1 <= ht
    BY <1>1, <1>2
  <1>5. st + sh + ht = 2 * c
    BY <1>1, <1>2
  <1>6. (2 * c) \div 2 = c
    BY <1>4
  <1>7. (st + sh + ht) \div 2 = c
    BY <1>5, <1>6
  <1> QED BY <1>3, <1>4, <1>7 DEF st, sh, ht, hh, c

LEMMA HopLanes ==
    ASSUME NEW T \in Topology, SniOn(T), NEW rtl \in BOOLEAN
    PROVE  LET h == HopPath(Picture(T, rtl), rtl) IN
           /\ h.lane = (IF rtl THEN 1384 ELSE 2904)
           /\ h.farLane = (IF rtl THEN 2912 ELSE 1376)
           /\ h.corridor = Corridor(T)
           /\ h.y1 \in Nat /\ h.y1 <= Corridor(T)
           /\ h.y2 \in Nat /\ h.y2 >= Corridor(T) /\ h.y2 <= HeightOf(T)
  <1> DEFINE p == Picture(T, rtl)
             h == HopPath(p, rtl)
             sni == Shown(SniBox(T), rtl)
             http == Shown(HttpBox(T), rtl)
  <1>1. PICK r \in RuleBoxes(T) : Find(p, Hop) = Shown(r, rtl)
    BY FoundBoxes
  <1> DEFINE from == Shown(r, rtl)
  <1>2. h = HopBetween(from, sni, http, rtl)
    BY <1>1, FoundBoxes DEF HopPath
  <1>3. \A t \in AllNodes(T) \cup AllBoxes(T) :
          /\ Shown(t, rtl).w = t.w /\ Shown(t, rtl).y = t.y /\ Shown(t, rtl).h = t.h
          /\ Shown(t, rtl).x = IF rtl THEN 4288 - t.x - t.w ELSE t.x
    <2>1. \A t \in AllNodes(T) \cup AllBoxes(T) : Rect(t) /\ t.x + t.w <= 4288
      BY ThingsPlaced DEF Rect
    <2> QED BY <2>1, ShownRect
  <1>4. /\ sni.y = F(T).sniTop /\ sni.h = F(T).sniH /\ sni.w = 1352
        /\ sni.x = IF rtl THEN 1472 ELSE 1464
    <2>1. /\ SniBox(T).x = 1464 /\ SniBox(T).w = 1352
          /\ SniBox(T).y = F(T).sniTop /\ SniBox(T).h = F(T).sniH
      BY DEF SniBox
    <2>2. SniBox(T) \in AllNodes(T) \cup AllBoxes(T)
      BY DEF AllBoxes
    <2> QED BY <1>3, <2>1, <2>2
  <1>5. /\ http.y = F(T).httpTop /\ http.h = F(T).httpH /\ http.w = 1352
        /\ http.x = IF rtl THEN 1472 ELSE 1464
    <2>1. /\ HttpBox(T).x = 1464 /\ HttpBox(T).w = 1352
          /\ HttpBox(T).y = F(T).httpTop /\ HttpBox(T).h = F(T).httpH
      BY DEF HttpBox
    <2>2. HttpBox(T) \in AllNodes(T) \cup AllBoxes(T)
      BY DEF AllBoxes
    <2> QED BY <1>3, <2>1, <2>2
  <1>6. /\ from.y \in Nat /\ from.h \in Nat
        /\ from.y + from.h <= F(T).sniTop + F(T).sniH - 104
    <2>1. r \in AllNodes(T)
      BY DEF AllNodes
    <2>2. r.y \in Nat /\ r.h \in Nat /\ r.y + r.h <= F(T).sniTop + F(T).sniH - 104
      BY <2>1, ThingsPlaced, NodeHeights DEF Rect
    <2> QED BY <1>3, <2>1, <2>2
  <1> HIDE DEF from, sni, http, p, h
  <1>7. /\ h.lane = (IF rtl THEN sni.x ELSE sni.x + sni.w) + (IF rtl THEN -1 ELSE 1) * LANE_OUT
        /\ h.farLane = (IF rtl THEN http.x + http.w ELSE http.x)
                         - (IF rtl THEN -1 ELSE 1) * LANE_OUT
        /\ h.corridor = (sni.y + sni.h + http.y) \div 2
        /\ h.y1 = from.y + from.h \div 2 /\ h.y2 = http.y + http.h \div 2
    BY <1>2 DEF HopBetween
  <1>8. h.lane = (IF rtl THEN 1384 ELSE 2904)
    BY <1>4, <1>7, Measures
  <1>9. h.farLane = (IF rtl THEN 2912 ELSE 1376)
    BY <1>5, <1>7, Measures
  <1>10. h.corridor = Corridor(T)
    BY <1>4, <1>5, <1>7, CorridorIs
  <1> DEFINE st == F(T).sniTop
             sh == F(T).sniH
             ht == F(T).httpTop
             hh == F(T).httpH
             c == Corridor(T)
             y0 == from.y
             h0 == from.h
  <1>11. /\ st \in Nat /\ sh \in Nat /\ ht \in Nat /\ hh \in Nat /\ c \in Nat
         /\ st + sh <= c /\ c + 1 <= ht /\ ht + hh + 72 <= HeightOf(T) /\ HeightOf(T) \in Nat
    BY FrameNumbers, CorridorIs, NothingBelow
  <1>12. y0 \in Nat /\ h0 \in Nat /\ y0 + h0 <= st + sh - 104
    BY <1>6
  <1>13. h.y1 = y0 + h0 \div 2 /\ h.y2 = ht + hh \div 2
    BY <1>5, <1>7
  <1> HIDE DEF st, sh, ht, hh, c, y0, h0
  <1>14. h0 \div 2 \in Nat /\ h0 \div 2 <= h0 /\ hh \div 2 \in Nat /\ hh \div 2 <= hh
    BY <1>11, <1>12
  <1>15. h.y1 \in Nat /\ h.y1 <= c
    BY <1>11, <1>12, <1>13, <1>14
  <1>16. h.y2 \in Nat /\ h.y2 >= c /\ h.y2 <= HeightOf(T)
    BY <1>11, <1>13, <1>14
  <1> QED BY <1>8, <1>9, <1>10, <1>15, <1>16 DEF c, h, p

LEMMA Span ==
    ASSUME NEW a \in Nat, NEW b \in Nat, a <= b
    PROVE  Least(a, b) = a /\ AtLeastZero(b - a) + AtLeastZero(a - b) = b - a
  BY DEF Least, AtLeastZero

LEMMA SegmentsAre ==
    ASSUME NEW T \in Topology, SniOn(T), NEW rtl \in BOOLEAN,
           NEW s \in Segments(HopPath(Picture(T, rtl), rtl))
    PROVE  /\ s.x \in Nat /\ s.y \in Nat /\ s.w \in Nat /\ s.h \in Nat
           /\ s.x >= 1376 /\ s.x + s.w <= 2913 /\ s.y + s.h <= HeightOf(T)
           /\ \/ s.x + s.w <= 1464
              \/ s.x >= 2824
              \/ s.y = Corridor(T) /\ s.h = 1
  <1> DEFINE h == HopPath(Picture(T, rtl), rtl)
             c == Corridor(T)
             V(x, y1, y2) == [x |-> x, y |-> Least(y1, y2), w |-> 1,
                              h |-> AtLeastZero(y2 - y1) + AtLeastZero(y1 - y2)]
             across == [x |-> Least(h.lane, h.farLane), y |-> h.corridor, h |-> 1,
                        w |-> AtLeastZero(h.farLane - h.lane) + AtLeastZero(h.lane - h.farLane)]
  <1>1. /\ h.lane = (IF rtl THEN 1384 ELSE 2904)
        /\ h.farLane = (IF rtl THEN 2912 ELSE 1376)
        /\ h.corridor = c
        /\ h.y1 \in Nat /\ h.y1 <= c
        /\ h.y2 \in Nat /\ h.y2 >= c /\ h.y2 <= HeightOf(T)
    BY HopLanes
  <1>2. c \in Nat /\ HeightOf(T) \in Nat /\ c + 1 <= HeightOf(T)
    <2> DEFINE ht == F(T).httpTop
               hh == F(T).httpH
    <2>1. /\ c \in Nat /\ HeightOf(T) \in Nat /\ c + 1 <= ht
          /\ ht + hh + 72 <= HeightOf(T) /\ hh \in Nat /\ ht \in Nat
      BY CorridorIs, NothingBelow, FrameNumbers
    <2> HIDE DEF ht, hh, c
    <2> QED BY <2>1
  <1>3. s \in {V(h.lane, h.y1, h.corridor), V(h.farLane, h.corridor, h.y2), across}
    BY DEF Segments
  <1> HIDE DEF h, c
  <1>4. CASE s = V(h.lane, h.y1, h.corridor)
    <2>1. /\ s.x = h.lane /\ s.w = 1 /\ s.y = h.y1 /\ s.h = c - h.y1
      <3>1. s = V(h.lane, h.y1, c)
        BY <1>1, <1>4
      <3>2. Least(h.y1, c) = h.y1 /\ AtLeastZero(c - h.y1) + AtLeastZero(h.y1 - c) = c - h.y1
        <4> DEFINE y == h.y1
        <4>1. y \in Nat /\ c \in Nat /\ y <= c
          BY <1>1, <1>2
        <4> HIDE DEF y
        <4>2. Least(y, c) = y /\ AtLeastZero(c - y) + AtLeastZero(y - c) = c - y
          BY <4>1, Span
        <4> QED BY <4>2 DEF y
      <3> QED BY <3>1, <3>2
    <2> QED BY <1>1, <1>2, <2>1 DEF c
  <1>5. CASE s = V(h.farLane, h.corridor, h.y2)
    <2>1. /\ s.x = h.farLane /\ s.w = 1 /\ s.y = c /\ s.h = h.y2 - c
      BY <1>1, <1>2, <1>5 DEF Least, AtLeastZero
    <2> QED BY <1>1, <1>2, <2>1 DEF c
  <1>6. CASE s = across
    <2>1. /\ s.x = (IF rtl THEN 1384 ELSE 1376) /\ s.w = 1528 /\ s.y = c /\ s.h = 1
      BY <1>1, <1>2, <1>6 DEF Least, AtLeastZero
    <2> QED BY <1>2, <2>1 DEF c
  <1> QED BY <1>3, <1>4, <1>5, <1>6

LEMMA HopClear ==
    ASSUME NEW T \in Topology, SniOn(T), NEW rtl \in BOOLEAN,
           NEW s \in Segments(HopPath(Picture(T, rtl), rtl))
    PROVE  /\ \A a \in Picture(T, rtl).nodes \cup {Find(Picture(T, rtl), Box("sni")),
                                                  Find(Picture(T, rtl), Box("http"))} :
                 Apart(s, a)
           /\ Within(s, ViewBox(Picture(T, rtl)))
  <1> DEFINE p == Picture(T, rtl)
             c == Corridor(T)
             height == HeightOf(T)
  <1>1. /\ s.x \in Nat /\ s.y \in Nat /\ s.w \in Nat /\ s.h \in Nat
        /\ s.x >= 1376 /\ s.x + s.w <= 2913 /\ s.y + s.h <= height
    BY SegmentsAre
  <1>2. \/ s.x + s.w <= 1464
        \/ s.x >= 2824
        \/ s.y = c /\ s.h = 1
    BY SegmentsAre
  <1>3. /\ p.nodes = {Shown(r, rtl) : r \in AllNodes(T)} /\ p.height = height
        /\ Find(p, Box("sni")) = Shown(SniBox(T), rtl)
        /\ Find(p, Box("http")) = Shown(HttpBox(T), rtl)
    BY PictureIs, FoundBoxes
  <1>4. Within(s, ViewBox(p))
    <2>1. ViewBox(p).x = 0 /\ ViewBox(p).y = 0 /\ ViewBox(p).w = 4288 /\ ViewBox(p).h = height
      BY <1>3, Measures DEF ViewBox
    <2>2. height \in Nat
      BY NothingBelow
    <2> HIDE DEF p, height
    <2> QED BY <1>1, <2>1, <2>2 DEF Within
  <1>5. /\ F(T).sniTop + F(T).sniH <= c /\ c + 1 <= F(T).httpTop /\ c \in Nat
        /\ F(T).sniTop \in Nat /\ F(T).sniH \in Nat /\ F(T).httpTop \in Nat /\ F(T).httpH \in Nat
    BY CorridorIs, FrameNumbers
  <1>6. ASSUME NEW r \in AllNodes(T) \cup {SniBox(T), HttpBox(T)}
        PROVE  Apart(s, Shown(r, rtl))
    <2> DEFINE a == Shown(r, rtl)
    <2>1. Rect(r) /\ a.y = r.y /\ a.h = r.h
      <3>1. Rect(r) /\ r.x + r.w <= 4288
        BY ThingsPlaced DEF Rect, AllBoxes
      <3> QED BY <3>1, ShownRect
    <2>2. CASE r \in PortBoxes(T) \cup BackBoxes(T)
      <3>1. a.x \in Nat /\ a.w = 920 /\ (a.x + 920 <= 1216 \/ a.x >= 3072)
        BY <2>2, ShownSides
      <3> HIDE DEF a
      <3>2. s.x + s.w <= a.x \/ a.x + a.w <= s.x
        BY <1>1, <3>1
      <3> QED BY <3>2 DEF Apart, a
    <2>3. CASE r \in MidBoxes(T) \cup {SniBox(T), HttpBox(T)}
      <3>1. a.x \in Nat /\ a.w \in Nat /\ a.x >= 1464 /\ a.x + a.w <= 2824
        BY <2>3, ShownSides
      <3>2. r.y + r.h <= c \/ r.y >= c + 1
        <4> DEFINE st == F(T).sniTop
                   sh == F(T).sniH
                   ht == F(T).httpTop
                   hh == F(T).httpH
        <4>0. /\ st \in Nat /\ sh \in Nat /\ ht \in Nat /\ hh \in Nat /\ c \in Nat
              /\ st + sh <= c /\ c + 1 <= ht /\ r.y \in Nat /\ r.h \in Nat
          BY <1>5, <2>1 DEF Rect
        <4>1. \/ r.y + r.h <= st + sh - 104 \/ r.y >= ht + 192
              \/ (r.y = st /\ r.h = sh) \/ r.y = ht
          <5>1. CASE r \in RuleBoxes(T)
            BY <5>1, NodeHeights
          <5>2. CASE r \in RouteBoxes(T)
            BY <5>2, NodeHeights
          <5>3. CASE r = SniBox(T)
            BY <5>3 DEF SniBox
          <5>4. CASE r = HttpBox(T)
            BY <5>4 DEF HttpBox
          <5> QED BY <2>3, <5>1, <5>2, <5>3, <5>4 DEF MidBoxes
        <4> HIDE DEF st, sh, ht, hh, c
        <4> QED BY <4>0, <4>1
      <3> DEFINE y0 == r.y
                 h0 == r.h
      <3>3. y0 \in Nat /\ h0 \in Nat /\ c \in Nat /\ (y0 + h0 <= c \/ y0 >= c + 1)
            /\ a.y = y0 /\ a.h = h0
        BY <1>5, <2>1, <3>2 DEF Rect
      <3> HIDE DEF a, y0, h0, c
      <3>4. CASE s.x + s.w <= 1464 \/ s.x >= 2824
        <4>1. s.x + s.w <= a.x \/ a.x + a.w <= s.x
          BY <1>1, <3>1, <3>4
        <4> QED BY <4>1 DEF Apart, a
      <3>5. CASE s.y = c /\ s.h = 1
        <4>1. s.y + s.h <= a.y \/ a.y + a.h <= s.y
          BY <3>3, <3>5
        <4> QED BY <4>1 DEF Apart, a
      <3> QED BY <1>2, <3>4, <3>5 DEF a
    <2> QED BY <2>2, <2>3 DEF AllNodes, MidBoxes, BackBoxes
  <1> QED BY <1>3, <1>4, <1>6 DEF p

(***************************************************************************)
(* The lines.                                                              *)
(***************************************************************************)
LEMMA AllEdges ==
    ASSUME NEW T
    PROVE  \A e : e \in Edges(T) <=> \/ \E p \in PublicPorts(T) : e \in PortEdges(T, p)
                                     \/ e \in StageEdges(T)
                                     \/ e \in FanEdges(T)
                                     \/ e \in RuleEdges(T)
  <1> DEFINE All == {PortEdges(T, p) : p \in PublicPorts(T)}
  <1>1. \A e : e \in UNION All <=> \E p \in PublicPorts(T) : e \in PortEdges(T, p)
    OBVIOUS
  <1>2. Edges(T) = (UNION All) \cup StageEdges(T) \cup FanEdges(T) \cup RuleEdges(T)
    BY DEF Edges
  <1> HIDE DEF All
  <1> QED BY <1>1, <1>2

LEMMA EdgeKinds ==
    ASSUME NEW T \in Topology, SniOn(T), NEW e \in Edges(T)
    PROVE  \/ \E p \in PublicPorts(T) :
                 /\ e[1] = <<"port", p>>
                 /\ \/ e[2] = Hop
                    \/ e[2] = Box("sni")
                    \/ \E n \in SniTargets(T, p) : e[2] = <<"sni", n>>
           \/ e[1] = Hop /\ e[2] = Box("http")
           \/ e[1] = Box("sni") /\ e[2] = Hop
           \/ e[1] = Box("http") /\ \E n \in Range(Routes(T)) : e[2] = RouteId(T, n)
           \/ \E n \in LiveRules(T) : e[1] = <<"sni", n>> /\ e[2] = RuleBack(T, n)
           \/ \E n \in Range(Routes(T)) : e[1] = RouteId(T, n) /\ e[2] = ServiceBack(T, n)
  <1>1. \/ \E p \in PublicPorts(T) : e \in PortEdges(T, p)
        \/ e \in StageEdges(T)
        \/ e \in FanEdges(T)
        \/ e \in RuleEdges(T)
    BY AllEdges
  <1>2. CASE \E p \in PublicPorts(T) : e \in PortEdges(T, p)
    <2>1. PICK p \in PublicPorts(T) : e \in PortEdges(T, p)
      BY <1>2
    <2>2. \/ \E n \in SniTargets(T, p) : e = <<<<"port", p>>, <<"sni", n>>, "sni">>
          \/ e = <<<<"port", p>>, Hop, "in-http">>
          \/ e = <<<<"port", p>>, Box("sni"), "https">>
      BY <2>1 DEF PortEdges, FirstStage
    <2>3. /\ e[1] = <<"port", p>>
          /\ \/ e[2] = Hop
             \/ e[2] = Box("sni")
             \/ \E n \in SniTargets(T, p) : e[2] = <<"sni", n>>
      BY <2>2
    <2> QED BY <2>3
  <1>3. CASE e \in StageEdges(T)
    BY <1>3 DEF StageEdges
  <1>4. CASE e \in FanEdges(T)
    <2>1. PICK n \in Range(Routes(T)) : e = <<Box("http"), RouteId(T, n), "http-fan">>
      BY <1>4 DEF FanEdges
    <2> QED BY <2>1
  <1>5. CASE e \in RuleEdges(T)
    <2>1. \/ \E n \in Range(SniNodes(T)) : e = <<<<"sni", n>>, BackId(n, T.sni[n]), "sni">>
          \/ \E n \in Range(Routes(T)) :
                e = <<RouteId(T, n), BackId(n, T.services[n]), "http">>
      BY <1>5 DEF RuleEdges
    <2>2. CASE \E n \in Range(SniNodes(T)) : e = <<<<"sni", n>>, BackId(n, T.sni[n]), "sni">>
      <3>1. PICK n \in LiveRules(T) : e = <<<<"sni", n>>, BackId(n, T.sni[n]), "sni">>
        BY <2>2, RulesDrawn
      <3>2. e[1] = <<"sni", n>> /\ e[2] = RuleBack(T, n)
        BY <3>1 DEF RuleBack
      <3> QED BY <3>2
    <2>3. CASE \E n \in Range(Routes(T)) :
                  e = <<RouteId(T, n), BackId(n, T.services[n]), "http">>
      <3>1. PICK n \in Range(Routes(T)) :
              e = <<RouteId(T, n), BackId(n, T.services[n]), "http">>
        BY <2>3
      <3>2. e[1] = RouteId(T, n) /\ e[2] = ServiceBack(T, n)
        BY <3>1 DEF ServiceBack
      <3> QED BY <3>2
    <2> QED BY <2>1, <2>2, <2>3
  <1> QED BY <1>1, <1>2, <1>3, <1>4, <1>5

LEMMA EdgesThere ==
    ASSUME NEW T \in Topology, SniOn(T)
    PROVE  /\ \A p \in PublicPorts(T) : \A n \in SniTargets(T, p) :
                 <<<<"port", p>>, <<"sni", n>>, "sni">> \in Edges(T)
           /\ \A p \in PublicPorts(T) : CarriesHttp(T, p) =>
                 <<<<"port", p>>, Hop, "in-http">> \in Edges(T)
           /\ \A p \in PublicPorts(T) : SniTargets(T, p) = {} /\ ~CarriesHttp(T, p) =>
                 <<<<"port", p>>, Box("sni"), "https">> \in Edges(T)
           /\ <<Hop, Box("http"), "hop">> \in Edges(T)
           /\ \A n \in Range(Routes(T)) : ~T.services[n].disabled =>
                 <<Box("http"), RouteId(T, n), "http-fan">> \in Edges(T)
           /\ \A n \in LiveRules(T) : <<<<"sni", n>>, RuleBack(T, n), "sni">> \in Edges(T)
           /\ \A n \in Range(Routes(T)) :
                 <<RouteId(T, n), ServiceBack(T, n), "http">> \in Edges(T)
  <1>1. /\ \A p \in PublicPorts(T) : PortEdges(T, p) \subseteq Edges(T)
        /\ StageEdges(T) \subseteq Edges(T) /\ FanEdges(T) \subseteq Edges(T)
        /\ RuleEdges(T) \subseteq Edges(T)
    BY AllEdges
  <1>2. \A p \in PublicPorts(T) : \A n \in SniTargets(T, p) :
          <<<<"port", p>>, <<"sni", n>>, "sni">> \in Edges(T)
    BY <1>1 DEF PortEdges
  <1>3. ASSUME NEW p \in PublicPorts(T), CarriesHttp(T, p)
        PROVE  <<<<"port", p>>, Hop, "in-http">> \in Edges(T)
    BY <1>1, <1>3 DEF PortEdges
  <1>4. ASSUME NEW p \in PublicPorts(T), SniTargets(T, p) = {}, ~CarriesHttp(T, p)
        PROVE  <<<<"port", p>>, Box("sni"), "https">> \in Edges(T)
    BY <1>1, <1>4 DEF PortEdges, FirstStage
  <1>5. <<Hop, Box("http"), "hop">> \in Edges(T)
    BY <1>1 DEF StageEdges
  <1>6. ASSUME NEW n \in Range(Routes(T)), ~T.services[n].disabled
        PROVE  <<Box("http"), RouteId(T, n), "http-fan">> \in Edges(T)
    BY <1>1, <1>6 DEF FanEdges
  <1>7. ASSUME NEW n \in LiveRules(T)
        PROVE  <<<<"sni", n>>, RuleBack(T, n), "sni">> \in Edges(T)
    <2>1. n \in Range(SniNodes(T))
      BY RulesDrawn
    <2> QED BY <1>1, <2>1 DEF RuleEdges, RuleBack
  <1>8. ASSUME NEW n \in Range(Routes(T))
        PROVE  <<RouteId(T, n), ServiceBack(T, n), "http">> \in Edges(T)
    BY <1>1 DEF RuleEdges, ServiceBack
  <1> QED BY <1>2, <1>3, <1>4, <1>5, <1>6, <1>7, <1>8

LEMMA DrawnIds ==
    ASSUME NEW T \in Topology, SniOn(T)
    PROVE  LET ids == {r.id : r \in AllNodes(T) \cup AllBoxes(T)} IN
           /\ \A p \in PublicPorts(T) : <<"port", p>> \in ids
           /\ Hop \in ids /\ Box("sni") \in ids /\ Box("http") \in ids
           /\ \A n \in LiveRules(T) : <<"sni", n>> \in ids
           /\ \A n \in Range(Routes(T)) : RouteId(T, n) \in ids
           /\ BackIds(T) \subseteq ids
  <1> DEFINE B == BackNodes(T)
             V == BackIds(T) \cup {NoBack}
             ids == {r.id : r \in AllNodes(T) \cup AllBoxes(T)}
             top1 == F(T).sniTop + 192
             top2 == F(T).httpTop + 192
             top3 == F(T).wrapTop + F(T).wrapH + 88
  <1>1. /\ PortNodes(T) \in Seq({<<"port", p>> : p \in Nat})
        /\ StageNodes(T) \in Seq({<<"sni", v>> : v \in STRING \cup {"nginx-http"}})
        /\ RouteNodes(T) \in Seq({<<"route", h>> : h \in STRING})
        /\ RemoteSNI(B) \in Seq(V) /\ Locals(B) \in Seq(V) /\ RemoteHTTP(B) \in Seq(V)
    BY PortsDrawn, StageDrawn, RouteBoxesDrawn, BackStacks
  <1>2. /\ Listed(PortNodes(T)) /\ Listed(StageNodes(T)) /\ Listed(RouteNodes(T))
        /\ Listed(RemoteSNI(B)) /\ Listed(Locals(B)) /\ Listed(RemoteHTTP(B))
    BY <1>1 DEF Listed
  <1>3. /\ F(T).portsTop \in Nat /\ F(T).localTop \in Nat
        /\ top1 \in Nat /\ top2 \in Nat /\ top3 \in Nat
    <2>1. F(T).portsTop \in Nat /\ F(T).localTop \in Nat
      BY FrameOf DEF Fits
    <2>2. /\ F(T).sniTop \in Nat /\ F(T).httpTop \in Nat
          /\ F(T).wrapTop \in Nat /\ F(T).wrapH \in Nat
      BY FrameNumbers
    <2> QED BY <2>1, <2>2
  <1>4. PortX \in Nat /\ MidX \in Nat /\ BackX \in Nat /\ PAD \in Nat
    BY Measures
  <1>5. /\ PortBoxes(T) = Range(Stack(PortNodes(T), PortX, F(T).portsTop))
        /\ RuleBoxes(T) = Range(Stack(StageNodes(T), MidX, top1))
        /\ RouteBoxes(T) = Range(Stack(RouteNodes(T), MidX, top2))
        /\ UpperBoxes(T) = Range(Stack(RemoteSNI(B), BackX, PAD))
        /\ LocalBoxes(T) = Range(Stack(Locals(B), BackX, F(T).localTop))
        /\ LowerBoxes(T) = Range(Stack(RemoteHTTP(B), BackX, top3))
    BY DEF PortBoxes, RuleBoxes, RouteBoxes, UpperBoxes, LocalBoxes, LowerBoxes
  <1> HIDE DEF top1, top2, top3, B
  <1>6. /\ \A v \in Range(PortNodes(T)) : \E r \in PortBoxes(T) : r.id = v
        /\ \A v \in Range(StageNodes(T)) : \E r \in RuleBoxes(T) : r.id = v
        /\ \A v \in Range(RouteNodes(T)) : \E r \in RouteBoxes(T) : r.id = v
        /\ \A v \in Range(RemoteSNI(B)) : \E r \in UpperBoxes(T) : r.id = v
        /\ \A v \in Range(Locals(B)) : \E r \in LocalBoxes(T) : r.id = v
        /\ \A v \in Range(RemoteHTTP(B)) : \E r \in LowerBoxes(T) : r.id = v
    BY <1>2, <1>3, <1>4, <1>5, StackHas
  <1>7. /\ Range(PortNodes(T)) \subseteq ids /\ Range(StageNodes(T)) \subseteq ids
        /\ Range(RouteNodes(T)) \subseteq ids /\ Range(RemoteSNI(B)) \subseteq ids
        /\ Range(Locals(B)) \subseteq ids /\ Range(RemoteHTTP(B)) \subseteq ids
    BY <1>6 DEF AllNodes
  <1>8. Box("sni") \in ids /\ Box("http") \in ids
    <2>1. SniBox(T).id = Box("sni") /\ HttpBox(T).id = Box("http")
      BY DEF SniBox, HttpBox
    <2>2. SniBox(T) \in AllBoxes(T) /\ HttpBox(T) \in AllBoxes(T)
      BY DEF AllBoxes
    <2> QED BY <2>1, <2>2
  <1> HIDE DEF ids
  <1>9. \A p \in PublicPorts(T) : <<"port", p>> \in ids
    BY <1>7, PortsDrawn
  <1>10. Hop \in ids /\ \A n \in LiveRules(T) : <<"sni", n>> \in ids
    BY <1>7, StageDrawn
  <1>11. \A n \in Range(Routes(T)) : RouteId(T, n) \in ids
    BY <1>7, RouteBoxesDrawn
  <1>12. BackIds(T) \subseteq ids
    <2>1. BackIds(T) \subseteq Range(Locals(B)) \cup Range(RemoteSNI(B)) \cup Range(RemoteHTTP(B))
      BY BackStacks DEF B
    <2> QED BY <1>7, <2>1
  <1> QED BY <1>8, <1>9, <1>10, <1>11, <1>12 DEF ids

(* Where the lines from one port can lead: to the rules it takes and their *)
(* backends, and through nginx's own box to the services and theirs.       *)
Reachable(T, q) ==
    {<<"port", q>>, Hop, Box("sni"), Box("http")}
      \cup {<<"sni", n>> : n \in SniTargets(T, q)}
      \cup {RouteId(T, n) : n \in Range(Routes(T))}
      \cup {RuleBack(T, n) : n \in SniTargets(T, q)}
      \cup {ServiceBack(T, n) : n \in Range(Routes(T))}

LEMMA IdTags ==
    /\ \A p : <<"port", p>>[1] = "port"
    /\ \A n : <<"sni", n>>[1] = "sni" /\ <<"sni", n>>[2] = n
    /\ Hop[1] = "sni" /\ Hop[2] = "nginx-http"
    /\ \A tag : Box(tag)[1] = "box"
    /\ \A T, n : /\ RouteId(T, n)[1] = "route"
                 /\ RuleBack(T, n)[1] = "back" /\ ServiceBack(T, n)[1] = "back"
  BY DEF Hop, Box, RouteId, RuleBack, ServiceBack, BackId

LEMMA ReachableClosed ==
    ASSUME NEW T \in Topology, SniOn(T), "nginx-http" \notin Range(SniNames),
           NEW q, NEW e \in Edges(T), e[1] \in Reachable(T, q)
    PROVE  e[2] \in Reachable(T, q)
  <1> DEFINE R == Reachable(T, q)
  <1>1. /\ Hop \in R /\ Box("sni") \in R /\ Box("http") \in R
        /\ \A n \in SniTargets(T, q) : <<"sni", n>> \in R /\ RuleBack(T, n) \in R
        /\ \A n \in Range(Routes(T)) : RouteId(T, n) \in R /\ ServiceBack(T, n) \in R
    BY DEF Reachable
  <1>2. \A x \in R : \/ x = <<"port", q>>
                     \/ x = Hop
                     \/ \E n \in SniTargets(T, q) : x = <<"sni", n>>
                     \/ x[1] \in {"box", "route", "back"}
    BY IdTags DEF Reachable
  <1>3. LiveRules(T) \subseteq Range(SniNames)
    BY TopologyFacts DEF LiveRules
  <1> HIDE DEF R
  <1>4. CASE \E p \in PublicPorts(T) :
               /\ e[1] = <<"port", p>>
               /\ \/ e[2] = Hop
                  \/ e[2] = Box("sni")
                  \/ \E n \in SniTargets(T, p) : e[2] = <<"sni", n>>
    <2>1. PICK p \in PublicPorts(T) :
               /\ e[1] = <<"port", p>>
               /\ \/ e[2] = Hop
                  \/ e[2] = Box("sni")
                  \/ \E n \in SniTargets(T, p) : e[2] = <<"sni", n>>
      BY <1>4
    <2>2. <<"port", p>> = <<"port", q>>
      BY <1>2, <2>1, IdTags DEF R
    <2>3. p = q
      BY <2>2
    <2> QED BY <1>1, <2>1, <2>3 DEF R
  <1>5. CASE \/ e[1] = Hop /\ e[2] = Box("http")
             \/ e[1] = Box("sni") /\ e[2] = Hop
    BY <1>1, <1>5 DEF R
  <1>6. CASE e[1] = Box("http") /\ \E n \in Range(Routes(T)) : e[2] = RouteId(T, n)
    BY <1>1, <1>6 DEF R
  <1>7. CASE \E n \in LiveRules(T) : e[1] = <<"sni", n>> /\ e[2] = RuleBack(T, n)
    <2>1. PICK n \in LiveRules(T) : e[1] = <<"sni", n>> /\ e[2] = RuleBack(T, n)
      BY <1>7
    <2>2. n # "nginx-http"
      BY <1>3
    <2>3. PICK m \in SniTargets(T, q) : <<"sni", n>> = <<"sni", m>>
      <3>1. <<"sni", n>> # Hop /\ <<"sni", n>>[1] = "sni" /\ \A p : <<"sni", n>> # <<"port", p>>
        BY <2>2, IdTags
      <3> QED BY <1>2, <2>1, <3>1 DEF R
    <2>4. n = m
      BY <2>3
    <2> QED BY <1>1, <2>1, <2>4 DEF R
  <1>8. CASE \E n \in Range(Routes(T)) : e[1] = RouteId(T, n) /\ e[2] = ServiceBack(T, n)
    BY <1>1, <1>8 DEF R
  <1> QED BY <1>4, <1>5, <1>6, <1>7, <1>8, EdgeKinds

LEMMA ReachedInside ==
    ASSUME NEW E, NEW R, NEW id \in R, \A e \in E : e[1] \in R => e[2] \in R
    PROVE  ReachedFrom(E, id) \subseteq R
  <1>1. ASSUME NEW S \in SUBSET R PROVE Follow(E, S) \in SUBSET R
    BY <1>1 DEF Follow
  <1>2. {id} \in SUBSET R
    OBVIOUS
  <1>3. Follow(E, {id}) \in SUBSET R
    BY <1>1, <1>2
  <1>4. Follow(E, Follow(E, {id})) \in SUBSET R
    BY <1>1, <1>3
  <1>5. Follow(E, Follow(E, Follow(E, {id}))) \in SUBSET R
    BY <1>1, <1>4
  <1>6. Follow(E, Follow(E, Follow(E, Follow(E, {id})))) \in SUBSET R
    BY <1>1, <1>5
  <1> QED BY <1>6 DEF ReachedFrom

(* One line further, and what was reached stays reached.                   *)
LEMMA FollowSteps ==
    ASSUME NEW E, NEW S
    PROVE  /\ S \subseteq Follow(E, S)
           /\ \A e \in E : e[1] \in S => e[2] \in Follow(E, S)
  BY DEF Follow

LEMMA TwoLines ==
    ASSUME NEW E, NEW d \in E, NEW e \in E, d[2] = e[1]
    PROVE  e[2] \in ReachedFrom(E, d[1])
  <1> DEFINE S1 == Follow(E, {d[1]})
             S2 == Follow(E, S1)
             S3 == Follow(E, S2)
  <1>1. d[2] \in S1
    BY FollowSteps
  <1>2. e[2] \in S2
    BY <1>1, FollowSteps
  <1> HIDE DEF S1, S2
  <1>3. e[2] \in S3
    BY <1>2, FollowSteps
  <1> HIDE DEF S3
  <1>4. e[2] \in Follow(E, S3)
    BY <1>3, FollowSteps
  <1> QED BY <1>4 DEF ReachedFrom, S1, S2, S3

LEMMA FourLines ==
    ASSUME NEW E, NEW a \in E, NEW b \in E, NEW c \in E, NEW d \in E,
           a[2] = b[1], b[2] = c[1], c[2] = d[1]
    PROVE  d[2] \in ReachedFrom(E, a[1])
  <1> DEFINE S1 == Follow(E, {a[1]})
             S2 == Follow(E, S1)
             S3 == Follow(E, S2)
  <1>1. a[2] \in S1
    BY FollowSteps
  <1>2. b[2] \in S2
    BY <1>1, FollowSteps
  <1> HIDE DEF S1, S2
  <1>3. c[2] \in S3
    BY <1>2, FollowSteps
  <1> HIDE DEF S3
  <1>4. d[2] \in Follow(E, S3)
    BY <1>3, FollowSteps
  <1> QED BY <1>4 DEF ReachedFrom, S1, S2, S3

(***************************************************************************)
(* The theorems.                                                           *)
(***************************************************************************)
LEMMA DrawnIsOn == Drawn <=> SniOn(topo)
  BY DEF Drawn, Throws

LEMMA BoxesMet == MapTypeOK => LinesMeetBoxes
  <1> SUFFICES ASSUME topo \in Topology, SniOn(topo)
               PROVE  MeetBoxes(Edges(topo),
                                {r.id : r \in Placed(topo).nodes \cup Placed(topo).boxes})
    BY DrawnIsOn, TypeOKIs DEF LinesMeetBoxes
  <1> DEFINE ids == {r.id : r \in AllNodes(topo) \cup AllBoxes(topo)}
  <1>1. {r.id : r \in Placed(topo).nodes \cup Placed(topo).boxes} = ids
    <2> DEFINE h == HeightOf(topo)
    <2>0. Placed(topo) = [nodes |-> AllNodes(topo), boxes |-> AllBoxes(topo), height |-> h]
      BY PlacedIs DEF HeightOf
    <2> HIDE DEF h
    <2>1. Placed(topo).nodes = AllNodes(topo) /\ Placed(topo).boxes = AllBoxes(topo)
      BY <2>0
    <2> QED BY <2>1
  <1>2. /\ \A p \in PublicPorts(topo) : <<"port", p>> \in ids
        /\ Hop \in ids /\ Box("sni") \in ids /\ Box("http") \in ids
        /\ \A n \in LiveRules(topo) : <<"sni", n>> \in ids
        /\ \A n \in Range(Routes(topo)) : RouteId(topo, n) \in ids
        /\ BackIds(topo) \subseteq ids
    BY DrawnIds
  <1>3. \A n \in LiveRules(topo) : RuleBack(topo, n) \in BackIds(topo)
    BY DEF BackIds
  <1>4. \A n \in Range(Routes(topo)) : ServiceBack(topo, n) \in BackIds(topo)
    BY RoutesDrawn DEF BackIds
  <1>5. \A p : SniTargets(topo, p) \subseteq LiveRules(topo)
    BY RulesDrawn DEF SniTargets
  <1> HIDE DEF ids
  <1>6. \A e \in Edges(topo) : e[1] \in ids /\ e[2] \in ids
    BY <1>2, <1>3, <1>4, <1>5, EdgeKinds
  <1>7. ASSUME NEW q \in PublicPorts(topo) PROVE \E e \in Edges(topo) : e[1] = <<"port", q>>
    <2>1. CASE \E n : n \in SniTargets(topo, q)
      <3>1. PICK n : n \in SniTargets(topo, q)
        BY <2>1
      <3>2. <<<<"port", q>>, <<"sni", n>>, "sni">> \in Edges(topo)
        BY <3>1, EdgesThere
      <3> QED BY <3>2
    <2>2. CASE CarriesHttp(topo, q)
      <3>1. <<<<"port", q>>, Hop, "in-http">> \in Edges(topo)
        BY <2>2, EdgesThere
      <3> QED BY <3>1
    <2>3. CASE SniTargets(topo, q) = {} /\ ~CarriesHttp(topo, q)
      <3>1. <<<<"port", q>>, Box("sni"), "https">> \in Edges(topo)
        BY <2>3, EdgesThere
      <3> QED BY <3>1
    <2> QED BY <2>1, <2>2, <2>3
  <1> QED BY <1>1, <1>6, <1>7 DEF MeetBoxes

LEMMA RoutingTold ==
    ASSUME "nginx-http" \notin Range(SniNames), MapTypeOK
    PROVE  LinesTellTheRouting
  <1> SUFFICES ASSUME Drawn PROVE LinesTellTheRouting
    BY DEF LinesTellTheRouting
  <1> DEFINE E == Edges(topo)
             Reached == [q \in PublicPorts(topo) |-> ReachedFrom(E, <<"port", q>>)]
  <1>1. topo \in Topology /\ SniOn(topo)
    BY DrawnIsOn, TypeOKIs
  <1>2. ASSUME NEW q \in PublicPorts(topo), NEW n \in LiveRules(topo)
        PROVE  IF Takes(topo, n, q) THEN BackId(n, topo.sni[n]) \in Reached[q]
               ELSE BackId(n, topo.sni[n]) \in Reached[q] => SharedBack(n, q)
    <2>1. CASE Takes(topo, n, q)
      <3>1. n \in SniTargets(topo, q)
        BY <1>1, <2>1, RulesDrawn DEF Takes, SniTargets
      <3> DEFINE d == <<<<"port", q>>, <<"sni", n>>, "sni">>
                 e == <<<<"sni", n>>, RuleBack(topo, n), "sni">>
      <3>2. d \in E /\ e \in E
        BY <1>1, <3>1, EdgesThere
      <3>3. d[1] = <<"port", q>> /\ d[2] = e[1] /\ e[2] = RuleBack(topo, n)
        OBVIOUS
      <3> HIDE DEF d, e, E
      <3>4. RuleBack(topo, n) \in ReachedFrom(E, <<"port", q>>)
        BY <3>2, <3>3, TwoLines
      <3> QED BY <2>1, <3>4 DEF RuleBack
    <2>2. CASE ~Takes(topo, n, q)
      <3>1. SUFFICES ASSUME RuleBack(topo, n) \in ReachedFrom(E, <<"port", q>>)
                     PROVE  SharedBack(n, q)
        BY <2>2 DEF RuleBack
      <3>2. ReachedFrom(E, <<"port", q>>) \subseteq Reachable(topo, q)
        <4>1. \A e \in E : e[1] \in Reachable(topo, q) => e[2] \in Reachable(topo, q)
          BY <1>1, ReachableClosed
        <4>2. <<"port", q>> \in Reachable(topo, q)
          BY DEF Reachable
        <4> HIDE DEF E
        <4> QED BY <4>1, <4>2, ReachedInside
      <3>3. RuleBack(topo, n) \in Reachable(topo, q)
        BY <3>1, <3>2
      <3>4. RuleBack(topo, n)[1] = "back"
        BY IdTags
      <3>5. \/ \E m \in SniTargets(topo, q) : RuleBack(topo, n) = RuleBack(topo, m)
            \/ \E m \in Range(Routes(topo)) : RuleBack(topo, n) = ServiceBack(topo, m)
        <4>1. /\ \A p : <<"port", p>>[1] # "back"
              /\ \A m : <<"sni", m>>[1] # "back" /\ RouteId(topo, m)[1] # "back"
              /\ Hop[1] # "back" /\ \A tag : Box(tag)[1] # "back"
          BY IdTags
        <4> QED BY <3>3, <3>4, <4>1 DEF Reachable
      <3>6. CASE \E m \in SniTargets(topo, q) : RuleBack(topo, n) = RuleBack(topo, m)
        <4>1. PICK m \in SniTargets(topo, q) : RuleBack(topo, n) = RuleBack(topo, m)
          BY <3>6
        <4>2. m \in LiveRules(topo) /\ Takes(topo, m, q)
          BY <1>1, RulesDrawn DEF SniTargets, Takes
        <4> QED BY <4>1, <4>2 DEF SharedBack, RuleBack
      <3>7. CASE \E m \in Range(Routes(topo)) : RuleBack(topo, n) = ServiceBack(topo, m)
        <4>1. PICK m \in Range(Routes(topo)) : RuleBack(topo, n) = ServiceBack(topo, m)
          BY <3>7
        <4>2. m \in DOMAIN topo.services
          BY <1>1, RoutesDrawn
        <4> QED BY <4>1, <4>2 DEF SharedBack, RuleBack, ServiceBack
      <3> QED BY <3>5, <3>6, <3>7
    <2> QED BY <2>1, <2>2
  <1>3. ASSUME NEW n \in Range(Routes(topo)), ~topo.services[n].disabled,
               ListenPort(topo.services[n]) \in PublicPorts(topo)
        PROVE  BackId(n, topo.services[n]) \in Reached[ListenPort(topo.services[n])]
    <2> DEFINE q == ListenPort(topo.services[n])
               a == <<<<"port", q>>, Hop, "in-http">>
               b == <<Hop, Box("http"), "hop">>
               c == <<Box("http"), RouteId(topo, n), "http-fan">>
               d == <<RouteId(topo, n), ServiceBack(topo, n), "http">>
    <2>1. CarriesHttp(topo, q)
      BY <1>3 DEF CarriesHttp, ListenPort
    <2>2. a \in E /\ b \in E /\ c \in E /\ d \in E
      BY <1>1, <1>3, <2>1, EdgesThere
    <2>3. /\ a[1] = <<"port", q>> /\ a[2] = b[1] /\ b[2] = c[1] /\ c[2] = d[1]
          /\ d[2] = ServiceBack(topo, n)
      OBVIOUS
    <2> HIDE DEF a, b, c, d, E
    <2>4. ServiceBack(topo, n) \in ReachedFrom(E, <<"port", q>>)
      BY <2>2, <2>3, FourLines
    <2> QED BY <1>3, <2>4 DEF ServiceBack
  <1> QED BY <1>2, <1>3 DEF LinesTellTheRouting

LEMMA NothingOverlaps == MapTypeOK => NothingOverlapsOrIsCut
  <1> SUFFICES ASSUME topo \in Topology, SniOn(topo), NEW rtl \in BOOLEAN
               PROVE  Uncovered(Picture(topo, rtl), Remote(topo))
    BY DrawnIsOn, TypeOKIs DEF NothingOverlapsOrIsCut, Remote
  <1> QED BY PictureUncovered

LEMMA HopOpen == MapTypeOK => HopRunsInTheOpen
  <1> SUFFICES ASSUME topo \in Topology, SniOn(topo), NEW rtl \in BOOLEAN
               PROVE  \E p \in {Picture(topo, rtl)} : \A s \in Segments(HopPath(p, rtl)) :
                        /\ \A a \in p.nodes \cup {Find(p, Box("sni")), Find(p, Box("http"))} :
                              Apart(s, a)
                        /\ Within(s, ViewBox(p))
    BY DrawnIsOn, TypeOKIs DEF HopRunsInTheOpen
  <1> QED BY HopClear

(* The configuration stays one that the server can report: every step adds *)
(* or removes one service or rule the panel offers, or turns the SNI stage *)
(* on or off (the editors behind /api/stats/topology).                     *)
THEOREM MapTypeCorrect == MapSpec => []MapTypeOK
  <1>1. MapInit => MapTypeOK
    <2> SUFFICES ASSUME MapInit PROVE topo \in Topology
      BY TypeOKIs
    <2>1. \A S, V : <<>> \in Partial(S, V)
      <3> SUFFICES ASSUME NEW S, NEW V PROVE <<>> \in Partial(S, V)
        OBVIOUS
      <3>1. <<>> \in [{} -> V] /\ {} \in SUBSET S
        OBVIOUS
      <3> QED BY <3>1 DEF Partial
    <2>2. 443 \in MapPorts
      BY MapAssumption
    <2> QED BY <2>1, <2>2 DEF MapInit, Topology
  <1>2. MapTypeOK /\ [MapNext]_mapVars => MapTypeOK'
    <2>0. MapTypeOK' <=> topo' \in Topology
      BY TopologyTyped DEF MapTypeOK
    <2> SUFFICES ASSUME topo \in Topology, [MapNext]_mapVars PROVE topo' \in Topology
      BY <2>0, TypeOKIs
    <2>1. \A S, V : \A f \in Partial(S, V), n \in S, v \in V :
             With(f, n, v) \in Partial(S, V) /\ Without(f, n) \in Partial(S, V)
      <3> SUFFICES ASSUME NEW S, NEW V, NEW f \in Partial(S, V), NEW n \in S, NEW v \in V
                   PROVE  With(f, n, v) \in Partial(S, V) /\ Without(f, n) \in Partial(S, V)
        OBVIOUS
      <3>1. PICK D \in SUBSET S : f \in [D -> V]
        BY DEF Partial
      <3>2. With(f, n, v) \in [D \cup {n} -> V] /\ D \cup {n} \in SUBSET S
        BY <3>1 DEF With
      <3>3. Without(f, n) \in [D \ {n} -> V] /\ D \ {n} \in SUBSET S
        BY <3>1 DEF Without
      <3> QED BY <3>2, <3>3 DEF Partial
    <2>2. /\ topo.services \in Partial(Range(HttpNames), HttpService)
          /\ topo.sni \in Partial(Range(SniNames), SniRule)
          /\ topo = [reality |-> topo.reality, listen |-> topo.listen,
                     services |-> topo.services, sni |-> topo.sni]
          /\ topo.reality \in BOOLEAN /\ topo.listen \in SUBSET MapPorts
      BY DEF Topology
    <2>3. ASSUME NEW n \in Range(HttpNames), PutService(n) PROVE topo' \in Topology
      <3>1. PICK s \in HttpChoices : topo' = [topo EXCEPT !.services = With(@, n, s)]
        BY <2>3 DEF PutService
      <3>2. With(topo.services, n, s) \in Partial(Range(HttpNames), HttpService)
        BY <2>1, <2>2, MapAssumption
      <3> QED BY <2>2, <3>1, <3>2 DEF Topology
    <2>4. ASSUME NEW n \in Range(HttpNames), DropService(n) PROVE topo' \in Topology
      <3>1. topo' = [topo EXCEPT !.services = Without(@, n)] /\ n \in DOMAIN topo.services
        BY <2>4 DEF DropService
      <3>2. Without(topo.services, n) \in Partial(Range(HttpNames), HttpService)
        <4>1. topo.services[n] \in HttpService
          BY <3>1, TopologyFacts
        <4> QED BY <2>1, <2>2, <4>1
      <3> QED BY <2>2, <3>1, <3>2 DEF Topology
    <2>5. ASSUME NEW n \in Range(SniNames), PutRule(n) PROVE topo' \in Topology
      <3>1. PICK r \in SniChoices : topo' = [topo EXCEPT !.sni = With(@, n, r)]
        BY <2>5 DEF PutRule
      <3>2. With(topo.sni, n, r) \in Partial(Range(SniNames), SniRule)
        BY <2>1, <2>2, MapAssumption
      <3> QED BY <2>2, <3>1, <3>2 DEF Topology
    <2>6. ASSUME NEW n \in Range(SniNames), DropRule(n) PROVE topo' \in Topology
      <3>1. topo' = [topo EXCEPT !.sni = Without(@, n)] /\ n \in DOMAIN topo.sni
        BY <2>6 DEF DropRule
      <3>2. Without(topo.sni, n) \in Partial(Range(SniNames), SniRule)
        <4>1. topo.sni[n] \in SniRule
          BY <3>1, TopologyFacts
        <4> QED BY <2>1, <2>2, <4>1
      <3> QED BY <2>2, <3>1, <3>2 DEF Topology
    <2>7. ASSUME SwitchReality PROVE topo' \in Topology
      BY <2>2, <2>7 DEF SwitchReality, Topology
    <2>8. ASSUME UNCHANGED mapVars PROVE topo' \in Topology
      BY <2>8 DEF mapVars
    <2> QED BY <2>3, <2>4, <2>5, <2>6, <2>7, <2>8 DEF MapNext
  <1> QED BY <1>1, <1>2, PTL DEF MapSpec

(* For every configuration the panel can show, each line of the map joins  *)
(* two things that are drawn, and every public port has a line (map.js     *)
(* drops an edge whose end is missing without a word).                     *)
THEOREM EveryLineMeetsItsBoxes == MapSpec => []LinesMeetBoxes
  BY MapTypeCorrect, BoxesMet, PTL

(* For every configuration in which no rule is called nginx-http, the name *)
(* the map gives nginx's own box: following the lines tells which backends *)
(* a port leads to, as the rules state it.                                 *)
THEOREM TheRoutingIsTold ==
    ASSUME "nginx-http" \notin Range(SniNames)
    PROVE  MapSpec => []LinesTellTheRouting
  <1>1. MapTypeOK => LinesTellTheRouting
    BY RoutingTold
  <1> QED BY <1>1, MapTypeCorrect, PTL

(* For any number of ports, rules, services and backends, in either        *)
(* direction of writing: no box overlaps another, the view box cuts        *)
(* nothing off, and LocalHost holds the boxes that are on this server.     *)
THEOREM ThePictureIsUncovered == MapSpec => []NothingOverlapsOrIsCut
  BY MapTypeCorrect, NothingOverlaps, PTL

(* The line from nginx's own box to the HTTP stage crosses nothing.        *)
THEOREM TheHopIsInTheOpen == MapSpec => []HopRunsInTheOpen
  BY MapTypeCorrect, HopOpen, PTL

(* What the run of the panel checks of the drawing, for every size.        *)
THEOREM TheDrawingTellsTheRouting ==
    ASSUME "nginx-http" \notin Range(SniNames)
    PROVE  MapSpec => []DrawingTellsTheRouting
  <1>1. MapTypeOK => LinesTellTheRouting
    BY RoutingTold
  <1>2. MapTypeOK => DrawingTellsTheRouting
    BY <1>1, BoxesMet, NothingOverlaps, HopOpen DEF DrawingTellsTheRouting
  <1> QED BY <1>2, MapTypeCorrect, PTL
=============================================================================
