------------------------- MODULE ServiceConfigProofs -------------------------
(***************************************************************************)
(* Proofs about ServiceConfig, for any number of domains, services, ports  *)
(* and callers.                                                            *)
(*                                                                         *)
(* A caller may write a copy it read long ago, so nothing that relates the *)
(* file to that copy survives a step.  What survives is a property of one  *)
(* configuration: the file and every copy in memory are Clean, a repair    *)
(* keeps a configuration Clean, and so does each handler's edit.           *)
(***************************************************************************)
EXTENDS ServiceConfig, TLAPS

StartsAttached == \A c \in Starts : Attached(c)
StartsDisjoint == \A c \in Starts : Disjoint(c)

Clean(c) ==
    /\ c \in Config
    /\ StartsAttached /\ ~PanelEdits => Attached(c)
    /\ StartsDisjoint /\ ~PanelEdits /\ ~RealityEdits => Disjoint(c)

IInv ==
    /\ edits \in Nat
    /\ Clean(cfg)
    /\ hand \in [Callers -> Config \cup {None}]
    /\ \A p \in Callers : hand[p] # None => Clean(hand[p])

------------------------------------------------------------------------------
(* What a Read repairs.                                                     *)

\* The canonical spelling of a domain is a spelling of the same domain.
LEMMA CanonSameHost ==
    ASSUME NEW c \in Config, NEW k \in Keys
    PROVE  Canon(c, k) \in Keys /\ LowerOf[Canon(c, k)] = LowerOf[k]
  <1> DEFINE there == SameHost(k) \cap Existing(c)
             certs == SameHost(k) \cap Certified(c)
  <1>1. there \in SUBSET Keys /\ certs \in SUBSET Keys
    BY DEF SameHost
  <1>2. \A v \in there \cup certs : LowerOf[v] = LowerOf[k]
    BY DEF SameHost
  <1>3. (there # {} => First[there] \in there) /\ (certs # {} => First[certs] \in certs)
    BY <1>1, ConstantsAssumption
  <1>4. Canon(c, k) \in {k, LowerOf[k]} \cup there \cup certs
    <2> HIDE DEF there, certs
    <2> QED BY <1>3 DEF Canon, there, certs
  <1> QED BY <1>1, <1>2, <1>4, ConstantsAssumption

\* It exists whenever the spelling it is asked for does.
LEMMA CanonExists ==
    ASSUME NEW c \in Config, NEW k \in Existing(c)
    PROVE  Canon(c, k) \in Existing(c)
  <1> DEFINE there == SameHost(k) \cap Existing(c)
             certs == SameHost(k) \cap Certified(c)
  <1>1. certs \in SUBSET Keys /\ certs \subseteq Existing(c)
    BY DEF SameHost, Certified, Existing
  <1>2. certs # {} => First[certs] \in certs
    BY <1>1, ConstantsAssumption
  <1>3. k \in there
    BY DEF SameHost, Existing
  <1>4. Canon(c, k) \in certs \cup {k}
    BY <1>2, <1>3 DEF Canon
  <1> QED BY <1>1, <1>4

\* Asking again gives the same answer.
LEMMA CanonSettles ==
    ASSUME NEW c \in Config, NEW k \in Keys
    PROVE  Canon(c, Canon(c, k)) = Canon(c, k)
  <1> DEFINE there(j) == SameHost(j) \cap Existing(c)
             certs(j) == SameHost(j) \cap Certified(c)
  <1>1. Canon(c, k) \in Keys /\ LowerOf[Canon(c, k)] = LowerOf[k]
    BY CanonSameHost
  <1>2. SameHost(Canon(c, k)) = SameHost(k)
    BY <1>1 DEF SameHost
  <1>3. there(Canon(c, k)) = there(k) /\ certs(Canon(c, k)) = certs(k)
    BY <1>2
  <1>4. there(k) # {} => First[there(k)] \in there(k)
    BY ConstantsAssumption DEF SameHost
  <1>5. \A j \in Keys : Canon(c, j) =
            IF LowerOf[j] \in certs(j) THEN LowerOf[j]
            ELSE IF certs(j) # {} THEN First[certs(j)]
            ELSE IF there(j) = {} \/ j \in there(j) THEN j
            ELSE First[there(j)]
    BY DEF Canon
  <1> HIDE DEF there, certs
  <1> QED BY <1>1, <1>3, <1>4, <1>5

\* A service keeps its port, path and switch, and each binding its subdomain.
LEMMA ReboundFields ==
    ASSUME NEW c \in Config, NEW s \in Service
    PROVE  /\ Rebound(c, s) \in Service
           /\ Rebound(c, s).port = s.port /\ Rebound(c, s).path = s.path
           /\ Rebound(c, s).on = s.on
           /\ DOMAIN Rebound(c, s).bindings = DOMAIN s.bindings
           /\ \A j \in DOMAIN s.bindings :
                Rebound(c, s).bindings[j] = [key |-> Canon(c, s.bindings[j].key),
                                             sub |-> s.bindings[j].sub]
  <1> DEFINE bs == [j \in DOMAIN s.bindings |->
                      [key |-> Canon(c, s.bindings[j].key), sub |-> s.bindings[j].sub]]
  <1>1. s.bindings \in Seq(Binding) /\ DOMAIN s.bindings = 1..Len(s.bindings)
    BY DEF Service
  <1>2. \A j \in DOMAIN s.bindings : s.bindings[j] \in Binding
    BY <1>1
  <1>3. \A j \in DOMAIN s.bindings : bs[j] \in Binding
    BY <1>2, CanonSameHost DEF Binding
  <1>4. bs \in Seq(Binding)
    <2>1. Len(s.bindings) \in Nat /\ DOMAIN bs = 1..Len(s.bindings)
      BY <1>1
    <2>2. bs = [j \in 1..Len(s.bindings) |-> bs[j]]
      BY <1>1
    <2> HIDE DEF bs
    <2>3. bs \in [1..Len(s.bindings) -> Binding]
      BY <1>1, <1>3, <2>1, <2>2
    <2> QED BY <2>1, <2>3
  <1>5. Rebound(c, s) = [s EXCEPT !.bindings = bs]
    BY Zenon DEF Rebound
  <1> HIDE DEF bs
  <1>6. /\ Rebound(c, s) \in Service
        /\ Rebound(c, s).port = s.port /\ Rebound(c, s).path = s.path
        /\ Rebound(c, s).on = s.on
        /\ Rebound(c, s).bindings = bs
    BY <1>4, <1>5 DEF Service
  <1> QED BY <1>6 DEF bs

\* The parts of a repaired configuration.
LEMMA MigratedFields ==
    ASSUME NEW c \in Config
    PROVE  /\ Migrated(c) \in Config
           /\ Migrated(c).reality = c.reality
           /\ \A k \in Keys : Migrated(c).domains[k] =
                IF Canon(c, k) # k THEN "absent" ELSE c.domains[k]
           /\ \A n \in Names : Migrated(c).services[n] =
                IF c.services[n] = None THEN None ELSE Rebound(c, c.services[n])
  <1> DEFINE ds == [k \in Keys |-> IF Canon(c, k) # k THEN "absent" ELSE c.domains[k]]
             ss == [n \in Names |-> IF c.services[n] = None THEN None
                                    ELSE Rebound(c, c.services[n])]
  <1>1. ds \in [Keys -> {"absent", "bare", "cert"}]
    BY DEF Config
  <1>2. ss \in [Names -> Service \cup {None}]
    BY ReboundFields DEF Config
  <1>3. Migrated(c) = [c EXCEPT !.domains = ds, !.services = ss]
    BY DEF Migrated
  <1> HIDE DEF ds, ss
  <1>4. /\ Migrated(c) \in Config /\ Migrated(c).reality = c.reality
        /\ Migrated(c).domains = ds /\ Migrated(c).services = ss
    BY <1>1, <1>2, <1>3 DEF Config
  <1> QED BY <1>4 DEF ds, ss

\* The locations of a service depend on the configuration only through the
\* Reality settings.
LEMMA SameReality ==
    ASSUME NEW c, NEW d, c.reality = d.reality, NEW s
    PROVE  Locations(c, s) = Locations(d, s)
  BY DEF Locations, EffectivePort, RealityPort

\* A repair moves no service.
LEMMA MigratedLocations ==
    ASSUME NEW c \in Config, NEW n \in Names
    PROVE  Locations(Migrated(c), Migrated(c).services[n]) = Locations(c, c.services[n])
  <1> DEFINE s == c.services[n]
  <1>1. CASE s = None
    BY <1>1, MigratedFields DEF Locations
  <1>2. CASE s # None
    <2>1. s \in Service /\ Rebound(c, s) \in Service
      BY <1>2, ReboundFields DEF Config
    <2>2. \A j \in DOMAIN s.bindings : Host(Rebound(c, s).bindings[j]) = Host(s.bindings[j])
      <3> SUFFICES ASSUME NEW j \in DOMAIN s.bindings
                   PROVE  Host(Rebound(c, s).bindings[j]) = Host(s.bindings[j])
        OBVIOUS
      <3> HIDE DEF s
      <3>1. s.bindings[j] \in Binding
        BY <2>1 DEF Service
      <3>2. LowerOf[Canon(c, s.bindings[j].key)] = LowerOf[s.bindings[j].key]
        BY <3>1, CanonSameHost DEF Binding
      <3>3. Rebound(c, s).bindings[j] = [key |-> Canon(c, s.bindings[j].key),
                                         sub |-> s.bindings[j].sub]
        BY <2>1, ReboundFields
      <3> QED BY <3>2, <3>3 DEF Host
    <2>3. Locations(c, Rebound(c, s)) = Locations(c, s)
      <3>1. Rebound(c, s) # None /\ s # None
        BY <1>2, <2>1, ConstantsAssumption
      <3> HIDE DEF s
      <3> QED BY <2>1, <2>2, <3>1, ReboundFields DEF Locations
    <2>4. Migrated(c).services[n] = Rebound(c, s) /\ Migrated(c).reality = c.reality
      BY <1>2, MigratedFields
    <2> QED BY <2>3, <2>4, SameReality
  <1> QED BY <1>1, <1>2

\* A repair leaves no binding without its domain.
LEMMA MigratedAttached ==
    ASSUME NEW c \in Config, Attached(c)
    PROVE  Attached(Migrated(c))
  <1> SUFFICES ASSUME NEW n \in Names, Migrated(c).services[n] # None,
                      NEW j \in DOMAIN Migrated(c).services[n].bindings
               PROVE  Migrated(c).services[n].bindings[j].key \in Existing(Migrated(c))
    BY DEF Attached
  <1> DEFINE s == c.services[n]
  <1>1. s # None /\ s \in Service /\ Migrated(c).services[n] = Rebound(c, s)
    BY MigratedFields DEF Config
  <1>2. j \in DOMAIN s.bindings /\ Rebound(c, s).bindings[j].key = Canon(c, s.bindings[j].key)
    <2>1. j \in DOMAIN Rebound(c, s).bindings
      BY <1>1
    <2> HIDE DEF s
    <2>2. j \in DOMAIN s.bindings
      BY <1>1, <2>1, ReboundFields
    <2>3. Rebound(c, s).bindings[j] = [key |-> Canon(c, s.bindings[j].key),
                                       sub |-> s.bindings[j].sub]
      BY <1>1, <2>2, ReboundFields
    <2> QED BY <2>2, <2>3
  <1>3. s.bindings[j].key \in Existing(c)
    BY <1>1, <1>2 DEF Attached
  <1> DEFINE k == Canon(c, s.bindings[j].key)
  <1>4. k \in Existing(c) /\ k \in Keys /\ Canon(c, k) = k
    BY <1>3, CanonExists, CanonSettles DEF Existing
  <1>5. Migrated(c).domains[k] = c.domains[k]
    BY <1>4, MigratedFields
  <1> QED BY <1>1, <1>2, <1>4, <1>5 DEF Existing

LEMMA MigratedClean ==
    ASSUME NEW c, Clean(c)
    PROVE  Clean(Migrated(c))
  <1>1. c \in Config
    BY DEF Clean
  <1>2. Disjoint(c) => Disjoint(Migrated(c))
    BY <1>1, MigratedLocations DEF Disjoint
  <1> QED BY <1>1, <1>2, MigratedFields, MigratedAttached DEF Clean
------------------------------------------------------------------------------
(* What the handlers write.                                                 *)

\* Every binding of a service names a domain of the configuration.
Tied(c, s) == s # None => \A j \in DOMAIN s.bindings : s.bindings[j].key \in Existing(c)

\* Storing a service that was checked, or that keeps what it had.
LEMMA SetServiceClean ==
    ASSUME NEW c, Clean(c), NEW n \in Names, NEW s \in Service \cup {None},
           StartsAttached /\ ~PanelEdits => Tied(c, s),
           StartsDisjoint /\ ~PanelEdits /\ ~RealityEdits => ~PathConflict(c, n, s)
    PROVE  Clean(SetService(c, n, s))
  <1> DEFINE ss == [c.services EXCEPT ![n] = s]
             d == SetService(c, n, s)
  <1>1. c \in Config
    BY DEF Clean
  <1>2. ss \in [Names -> Service \cup {None}]
    BY <1>1 DEF Config
  <1>3. /\ d \in Config /\ d.services = ss
        /\ d.domains = c.domains /\ d.reality = c.reality
    <2> HIDE DEF ss
    <2> QED BY <1>1, <1>2 DEF Config, SetService, ss
  <1>4. \A m \in Names : d.services[m] = IF m = n THEN s ELSE c.services[m]
    BY <1>1, <1>3 DEF Config
  <1> HIDE DEF d, ss
  <1>5. Existing(d) = Existing(c)
    BY <1>3 DEF Existing
  <1>6. Attached(c) /\ Tied(c, s) => Attached(d)
    BY <1>4, <1>5 DEF Attached, Tied
  <1>7. \A x : Locations(d, x) = Locations(c, x)
    BY <1>3, SameReality
  <1>8. ASSUME Disjoint(c), ~PathConflict(c, n, s), NEW l \in Names, NEW m \in Names, l # m
        PROVE  Locations(d, d.services[l]) \cap Locations(d, d.services[m]) = {}
    <2>1. CASE l = n
      BY <1>4, <1>7, <1>8, <2>1 DEF PathConflict
    <2>2. CASE m = n
      BY <1>4, <1>7, <1>8, <2>2 DEF PathConflict
    <2>3. CASE l # n /\ m # n
      BY <1>4, <1>7, <1>8, <2>3 DEF Disjoint
    <2> QED BY <2>1, <2>2, <2>3
  <1>9. Disjoint(c) /\ ~PathConflict(c, n, s) => Disjoint(d)
    BY <1>8 DEF Disjoint
  <1> QED BY <1>3, <1>6, <1>9 DEF Clean, d

\* Storing one port more or less.
LEMMA ListenClean ==
    ASSUME NEW c, Clean(c), NEW qs \in SUBSET Ports
    PROVE  Clean([c EXCEPT !.listen = qs])
  <1> DEFINE d == [c EXCEPT !.listen = qs]
  <1>1. c \in Config
    BY DEF Clean
  <1>2. /\ d \in Config /\ d.services = c.services
        /\ d.domains = c.domains /\ d.reality = c.reality
    BY <1>1 DEF Config
  <1> HIDE DEF d
  <1>3. Attached(c) => Attached(d)
    BY <1>2 DEF Attached, Existing
  <1>4. Disjoint(c) => Disjoint(d)
    BY <1>2, SameReality DEF Disjoint
  <1> QED BY <1>2, <1>3, <1>4 DEF Clean, d

\* Storing a domain, unless that takes it away from a service.
LEMMA SetDomainClean ==
    ASSUME NEW c, Clean(c), NEW k \in Keys, NEW v \in {"absent", "bare", "cert"},
           v = "absent" => ~Uses(c, k)
    PROVE  Clean(SetDomain(c, k, v))
  <1> DEFINE ds == [c.domains EXCEPT ![k] = v]
             d == SetDomain(c, k, v)
  <1>1. c \in Config
    BY DEF Clean
  <1>2. ds \in [Keys -> {"absent", "bare", "cert"}]
    BY <1>1 DEF Config
  <1>3. /\ d \in Config /\ d.services = c.services
        /\ d.domains = ds /\ d.reality = c.reality
    <2> HIDE DEF ds
    <2> QED BY <1>1, <1>2 DEF Config, SetDomain, ds
  <1>4. \A j \in Keys : d.domains[j] = IF j = k THEN v ELSE c.domains[j]
    BY <1>1, <1>3 DEF Config
  <1> HIDE DEF d, ds
  <1>5. Attached(c) => Attached(d)
    BY <1>3, <1>4 DEF Attached, Existing, Uses
  <1>6. Disjoint(c) => Disjoint(d)
    BY <1>3, SameReality DEF Disjoint
  <1> QED BY <1>3, <1>5, <1>6 DEF Clean, d

\* Storing Reality settings, which nobody checks for conflicts.
LEMMA RealityClean ==
    ASSUME NEW c, Clean(c), NEW r \in Reality, RealityEdits
    PROVE  Clean([c EXCEPT !.reality = r])
  <1> DEFINE d == [c EXCEPT !.reality = r]
  <1>1. c \in Config
    BY DEF Clean
  <1>2. d \in Config /\ d.services = c.services /\ d.domains = c.domains
    BY <1>1 DEF Config
  <1> HIDE DEF d
  <1>3. Attached(c) => Attached(d)
    BY <1>2 DEF Attached, Existing
  <1> QED BY <1>2, <1>3 DEF Clean, d

\* A service that occupies no new location cannot clash.
LEMMA FewerLocations ==
    ASSUME NEW c, Disjoint(c), NEW n \in Names, NEW s,
           Locations(c, s) \subseteq Locations(c, c.services[n])
    PROVE  ~PathConflict(c, n, s)
  BY DEF Disjoint, PathConflict
LEMMA WriteKeeps ==
    ASSUME IInv, NEW p \in Callers, NEW c, Clean(c), Write(p, c)
    PROVE  IInv'
  <1>1. cfg' = c /\ hand' = [hand EXCEPT ![p] = None] /\ edits' = edits + 1
    BY DEF Write
  <1>2. Clean(cfg')
    BY <1>1
  <1>3. edits' \in Nat /\ hand' \in [Callers -> Config \cup {None}]
    BY <1>1 DEF IInv
  <1>4. ASSUME NEW q \in Callers, hand'[q] # None
        PROVE  Clean(hand'[q])
    <2>1. hand'[q] = hand[q] /\ hand[q] # None
      BY <1>1, <1>4 DEF IInv
    <2>2. Clean(hand[q])
      BY <2>1 DEF IInv
    <2> QED BY <2>1, <2>2
  <1>5. \A q \in Callers : (hand[q] # None => Clean(hand[q]))'
    BY <1>4
  <1> QED BY <1>2, <1>3, <1>5 DEF IInv

LEMMA LoadKeeps ==
    ASSUME IInv, NEW p \in Callers, Load(p)
    PROVE  IInv'
  <1> DEFINE c == Migrated(cfg)
  <1>1. Clean(c)
    BY MigratedClean DEF IInv
  <1>2. cfg' = c /\ hand' = [hand EXCEPT ![p] = c] /\ edits' = edits
    BY DEF Load
  <1> HIDE DEF c
  <1>3. c \in Config
    BY <1>1 DEF Clean
  <1>4. edits' \in Nat /\ hand' \in [Callers -> Config \cup {None}]
    BY <1>2, <1>3 DEF IInv
  <1>5. ASSUME NEW q \in Callers, hand'[q] # None
        PROVE  Clean(hand'[q])
    <2>1. CASE q = p
      <3>1. hand'[q] = c
        BY <1>2, <2>1 DEF IInv
      <3> QED BY <1>1, <3>1
    <2>2. CASE q # p
      <3>1. hand'[q] = hand[q]
        BY <1>2, <2>2 DEF IInv
      <3>2. Clean(hand[q])
        BY <1>5, <3>1 DEF IInv
      <3> QED BY <3>1, <3>2
    <2> QED BY <2>1, <2>2
  <1>6. \A q \in Callers : (hand[q] # None => Clean(hand[q]))'
    BY <1>5
  <1>7. Clean(cfg')
    BY <1>1, <1>2
  <1> QED BY <1>4, <1>6, <1>7 DEF IInv

LEMMA RefuseKeeps ==
    ASSUME IInv, NEW p \in Callers, Refuse(p)
    PROVE  IInv'
  <1>1. hand' = [hand EXCEPT ![p] = None] /\ cfg' = cfg /\ edits' = edits
    BY DEF Refuse
  <1>2. edits' \in Nat /\ hand' \in [Callers -> Config \cup {None}]
    BY <1>1 DEF IInv
  <1>3. ASSUME NEW q \in Callers, hand'[q] # None
        PROVE  Clean(hand'[q])
    <2>1. hand'[q] = hand[q] /\ hand[q] # None
      BY <1>1, <1>3 DEF IInv
    <2>2. Clean(hand[q])
      BY <2>1 DEF IInv
    <2> QED BY <2>1, <2>2
  <1>4. \A q \in Callers : (hand[q] # None => Clean(hand[q]))'
    BY <1>3
  <1>5. Clean(cfg')
    BY <1>1 DEF IInv
  <1> QED BY <1>2, <1>4, <1>5 DEF IInv

\* What a caller that has read the file holds.
LEMMA HandClean ==
    ASSUME IInv, NEW p \in Callers, hand[p] # None
    PROVE  /\ Clean(hand[p]) /\ hand[p] \in Config
           /\ StartsAttached /\ ~PanelEdits => Attached(hand[p])
           /\ StartsDisjoint /\ ~PanelEdits /\ ~RealityEdits => Disjoint(hand[p])
  BY DEF IInv, Clean

LEMMA DomainEditKeeps ==
    ASSUME IInv, NEW p \in Callers, DomainEdit(p)
    PROVE  IInv'
  <1>1. PICK k \in Keys :
          \/ \E d \in {"bare", "cert"} : AddDomain(p, k, d) \/ UpdateDomain(p, k, d)
          \/ DeleteDomain(p, k)
    BY DEF DomainEdit
  <1>2. ASSUME NEW d \in {"bare", "cert"}, AddDomain(p, k, d) \/ UpdateDomain(p, k, d)
        PROVE  IInv'
    <2>1. hand[p] # None /\ Write(p, SetDomain(hand[p], k, d))
      BY <1>2 DEF AddDomain, UpdateDomain
    <2>2. Clean(SetDomain(hand[p], k, d))
      BY <2>1, HandClean, SetDomainClean
    <2> QED BY <2>1, <2>2, WriteKeeps
  <1>3. CASE DeleteDomain(p, k)
    <2>1. hand[p] # None /\ ~Uses(hand[p], k) /\ Write(p, SetDomain(hand[p], k, "absent"))
      BY <1>3 DEF DeleteDomain
    <2>2. Clean(SetDomain(hand[p], k, "absent"))
      BY <2>1, HandClean, SetDomainClean
    <2> QED BY <2>1, <2>2, WriteKeeps
  <1> QED BY <1>1, <1>2, <1>3
\* A service is stored, with its port listened on or not.
LEMMA StoreKeeps ==
    ASSUME IInv, NEW p \in Callers, hand[p] # None,
           NEW n \in Names, NEW s \in Service \cup {None}, NEW q \in Ports,
           StartsAttached /\ ~PanelEdits => Tied(hand[p], s),
           StartsDisjoint /\ ~PanelEdits /\ ~RealityEdits => ~PathConflict(hand[p], n, s),
           \/ Write(p, SetService(hand[p], n, s))
           \/ Write(p, Listen(SetService(hand[p], n, s), q))
    PROVE  IInv'
  <1> DEFINE c == SetService(hand[p], n, s)
  <1>1. Clean(c)
    BY HandClean, SetServiceClean
  <1> HIDE DEF c
  <1>2. c.listen \cup {q} \in SUBSET Ports
    BY <1>1 DEF Clean, Config
  <1>3. Clean(Listen(c, q))
    BY <1>1, <1>2, ListenClean DEF Listen
  <1> QED BY <1>1, <1>3, WriteKeeps DEF c

\* Any port serves where none is needed.
LEMMA StoreOnlyKeeps ==
    ASSUME IInv, NEW p \in Callers, hand[p] # None,
           NEW n \in Names, NEW s \in Service \cup {None},
           StartsAttached /\ ~PanelEdits => Tied(hand[p], s),
           StartsDisjoint /\ ~PanelEdits /\ ~RealityEdits => ~PathConflict(hand[p], n, s),
           Write(p, SetService(hand[p], n, s))
    PROVE  IInv'
  BY HandClean, SetServiceClean, WriteKeeps

LEMMA PostedBindings == Posted \subseteq Binding
  <1> SUFFICES ASSUME NEW bs \in BindingLists, NEW j \in DOMAIN bs
               PROVE  bs[j] \in Binding
    BY DEF Posted
  <1>1. bs \in Seq(Binding)
    BY ConstantsAssumption
  <1> QED BY <1>1

\* A service the handlers edit is a service, tied to its domains.
LEMMA StoredService ==
    ASSUME IInv, NEW p \in Callers, hand[p] # None,
           NEW n \in Names, hand[p].services[n] # None
    PROVE  /\ hand[p].services[n] \in Service
           /\ hand[p].services[n].bindings \in Seq(Binding)
           /\ StartsAttached /\ ~PanelEdits => Tied(hand[p], hand[p].services[n])
  <1>1. hand[p] \in Config
    BY HandClean
  <1>2. hand[p].services[n] \in Service
    BY <1>1 DEF Config
  <1>3. Attached(hand[p]) => Tied(hand[p], hand[p].services[n])
    BY DEF Attached, Tied
  <1> QED BY <1>2, <1>3, HandClean DEF Service

LEMMA BindFields ==
    ASSUME NEW s \in Service, NEW bs \in Seq(Binding)
    PROVE  /\ Bind(s, bs) \in Service /\ Bind(s, bs).bindings = bs
           /\ Bind(s, bs).port = s.port /\ Bind(s, bs).path = s.path
           /\ Bind(s, bs).on = s.on
  BY DEF Bind, Service

\* Taking a binding out of a list leaves some of its bindings.
LEMMA WithoutFields ==
    ASSUME NEW bs \in Seq(Binding), NEW j \in DOMAIN bs
    PROVE  /\ Without(bs, j) \in Seq(Binding)
           /\ \A i \in DOMAIN Without(bs, j) :
                \E l \in DOMAIN bs : Without(bs, j)[i] = bs[l]
  <1> DEFINE w == Without(bs, j)
  <1>1. DOMAIN bs = 1..Len(bs) /\ Len(bs) \in Nat /\ j \in 1..Len(bs)
    OBVIOUS
  <1>2. DOMAIN w = 1..(Len(bs) - 1) /\ Len(bs) - 1 \in Nat
    BY <1>1 DEF Without
  <1>3. \A i \in DOMAIN w : \E l \in DOMAIN bs : w[i] = bs[l]
    <2> SUFFICES ASSUME NEW i \in DOMAIN w
                 PROVE  \E l \in DOMAIN bs : w[i] = bs[l]
      OBVIOUS
    <2>1. i \in DOMAIN bs /\ i + 1 \in DOMAIN bs
      BY <1>1, <1>2
    <2>2. w[i] = IF i < j THEN bs[i] ELSE bs[i + 1]
      BY <1>2 DEF Without
    <2> HIDE DEF w
    <2> QED BY <2>1, <2>2
  <1>4. \A i \in DOMAIN w : w[i] \in Binding
    BY <1>3
  <1>5. w = [i \in 1..(Len(bs) - 1) |-> w[i]]
    BY DEF Without
  <1> HIDE DEF w
  <1>6. w \in [1..(Len(bs) - 1) -> Binding]
    BY <1>2, <1>4, <1>5
  <1> QED BY <1>2, <1>3, <1>6 DEF w
LEMMA AddBindingKeeps ==
    ASSUME IInv, NEW p \in Callers, NEW n \in Names, NEW b \in Posted, AddBinding(p, n, b)
    PROVE  IInv'
  <1> DEFINE s == hand[p].services[n]
             bs == Append(s.bindings, b)
             new == Bind(s, bs)
  <1>1. /\ hand[p] # None /\ s # None /\ b.key \in Existing(hand[p])
        /\ ~PathConflict(hand[p], n, new) /\ Write(p, SetService(hand[p], n, new))
    BY DEF AddBinding
  <1>2. /\ s \in Service /\ s.bindings \in Seq(Binding)
        /\ StartsAttached /\ ~PanelEdits => Tied(hand[p], s)
    BY <1>1, StoredService
  <1>3. b \in Binding
    BY PostedBindings
  <1>4. /\ bs \in Seq(Binding)
        /\ \A j \in DOMAIN bs :
              bs[j] = b \/ \E l \in DOMAIN s.bindings : bs[j] = s.bindings[l]
    <2> DEFINE old == s.bindings
    <2>1. old \in Seq(Binding) /\ DOMAIN old = 1..Len(old)
      BY <1>2
    <2> HIDE DEF old
    <2>2. bs \in Seq(Binding) /\ DOMAIN bs = 1..(Len(old) + 1)
      BY <1>3, <2>1 DEF old
    <2>3. \A j \in 1..(Len(old) + 1) : bs[j] = IF j <= Len(old) THEN old[j] ELSE b
      BY <1>3, <2>1 DEF old
    <2> HIDE DEF bs
    <2> QED BY <2>1, <2>2, <2>3 DEF old
  <1>5. new \in Service /\ new.bindings = bs
    <2> HIDE DEF s, bs
    <2> QED BY <1>2, <1>4, BindFields
  <1>6. StartsAttached /\ ~PanelEdits => Tied(hand[p], new)
    <2> HIDE DEF s, bs, new
    <2> QED BY <1>1, <1>2, <1>4, <1>5 DEF Tied
  <1> HIDE DEF s, bs, new
  <1> QED BY <1>1, <1>5, <1>6, StoreOnlyKeeps

LEMMA SetBindingsKeeps ==
    ASSUME IInv, NEW p \in Callers, NEW n \in Names, NEW bs \in BindingLists,
           SetBindings(p, n, bs)
    PROVE  IInv'
  <1> DEFINE s == hand[p].services[n]
             new == Bind(s, bs)
  <1>1. /\ hand[p] # None /\ s # None
        /\ \A j \in DOMAIN bs : bs[j].key \in Existing(hand[p])
        /\ ~PathConflict(hand[p], n, new) /\ Write(p, SetService(hand[p], n, new))
    BY DEF SetBindings
  <1>2. s \in Service
    BY <1>1, StoredService
  <1>3. bs \in Seq(Binding)
    BY ConstantsAssumption
  <1>4. new \in Service /\ new.bindings = bs
    BY <1>2, <1>3, BindFields
  <1>5. Tied(hand[p], new)
    BY <1>1, <1>4 DEF Tied
  <1> HIDE DEF s, new
  <1> QED BY <1>1, <1>4, <1>5, StoreOnlyKeeps

LEMMA RemoveBindingKeeps ==
    ASSUME IInv, NEW p \in Callers, NEW n \in Names, NEW j, RemoveBinding(p, n, j)
    PROVE  IInv'
  <1> DEFINE s == hand[p].services[n]
             bs == Without(s.bindings, j)
             new == Bind(s, bs)
  <1>1. /\ hand[p] # None /\ s # None /\ j \in DOMAIN s.bindings
        /\ Write(p, SetService(hand[p], n, new))
    BY DEF RemoveBinding
  <1>2. /\ s \in Service /\ s.bindings \in Seq(Binding)
        /\ StartsAttached /\ ~PanelEdits => Tied(hand[p], s)
    BY <1>1, StoredService
  <1>3. /\ bs \in Seq(Binding)
        /\ \A i \in DOMAIN bs : \E l \in DOMAIN s.bindings : bs[i] = s.bindings[l]
    BY <1>1, <1>2, WithoutFields
  <1>4. /\ new \in Service /\ new.bindings = bs
        /\ new.port = s.port /\ new.path = s.path /\ new.on = s.on
    <2> HIDE DEF s, bs
    <2> QED BY <1>2, <1>3, BindFields
  <1>5. new # None
    BY <1>4, ConstantsAssumption
  <1>6. Locations(hand[p], new) \subseteq Locations(hand[p], s)
    <2> HIDE DEF s, bs, new
    <2> QED BY <1>1, <1>3, <1>4, <1>5 DEF Locations
  <1>7. StartsAttached /\ ~PanelEdits => Tied(hand[p], new)
    <2> HIDE DEF s, bs, new
    <2> QED BY <1>1, <1>2, <1>3, <1>4 DEF Tied
  <1>8. StartsDisjoint /\ ~PanelEdits /\ ~RealityEdits => ~PathConflict(hand[p], n, new)
    BY <1>1, <1>6, HandClean, FewerLocations
  <1> HIDE DEF s, bs, new
  <1> QED BY <1>1, <1>4, <1>7, <1>8, StoreOnlyKeeps

LEMMA BindingEditKeeps ==
    ASSUME IInv, NEW p \in Callers, BindingEdit(p)
    PROVE  IInv'
  BY AddBindingKeeps, SetBindingsKeeps, RemoveBindingKeeps DEF BindingEdit

LEMMA AddServiceKeeps ==
    ASSUME IInv, NEW p \in Callers, NEW n \in Names, NEW b \in Posted,
           NEW q \in Ports, NEW pa \in Paths, AddService(p, n, b, q, pa)
    PROVE  IInv'
  <1> DEFINE s == [port |-> q, path |-> pa, bindings |-> <<b>>, on |-> TRUE]
  <1>1. /\ hand[p] # None /\ b.key \in Existing(hand[p])
        /\ ~PathConflict(hand[p], n, s)
        /\ Write(p, Listen(SetService(hand[p], n, s), q))
    BY DEF AddService
  <1>2. <<b>> \in Seq(Binding)
    BY PostedBindings
  <1>3. s \in Service
    BY <1>2 DEF Service
  <1>4. Tied(hand[p], s)
    BY <1>1 DEF Tied
  <1> HIDE DEF s
  <1> QED BY <1>1, <1>3, <1>4, StoreKeeps

LEMMA DeleteServiceKeeps ==
    ASSUME IInv, NEW p \in Callers, NEW n \in Names, DeleteService(p, n)
    PROVE  IInv'
  <1>1. hand[p] # None /\ Write(p, SetService(hand[p], n, None))
    BY DEF DeleteService
  <1>2. Tied(hand[p], None) /\ ~PathConflict(hand[p], n, None)
    BY DEF Tied, PathConflict, Locations
  <1> QED BY <1>1, <1>2, StoreOnlyKeeps

\* Switching a service, or moving it to another port or path.
LEMMA UpdatedKeeps ==
    ASSUME IInv, NEW p \in Callers, hand[p] # None,
           NEW n \in Names, hand[p].services[n] # None,
           NEW new \in Service, new.bindings = hand[p].services[n].bindings,
           ~PathConflict(hand[p], n, new), NEW q \in Ports,
           \/ Write(p, SetService(hand[p], n, new))
           \/ Write(p, Listen(SetService(hand[p], n, new), q))
    PROVE  IInv'
  <1>1. StartsAttached /\ ~PanelEdits => Tied(hand[p], new)
    BY StoredService DEF Tied
  <1> QED BY <1>1, StoreKeeps

LEMMA ToggleKeeps ==
    ASSUME IInv, NEW p \in Callers, NEW n \in Names, NEW on \in BOOLEAN, Toggle(p, n, on)
    PROVE  IInv'
  <1> DEFINE s == hand[p].services[n]
             new == [s EXCEPT !.on = on]
  <1>1. /\ hand[p] # None /\ s # None /\ ~PathConflict(hand[p], n, new)
        /\ Write(p, SetService(hand[p], n, new))
    BY DEF Toggle
  <1>2. s \in Service
    BY <1>1, StoredService
  <1>3. new \in Service /\ new.bindings = s.bindings /\ s.port \in Ports
    <2> HIDE DEF s
    <2> QED BY <1>2 DEF Service
  <1> HIDE DEF new
  <1> QED BY <1>1, <1>3, UpdatedKeeps

LEMMA UpdateServiceKeeps ==
    ASSUME IInv, NEW p \in Callers, NEW n \in Names, NEW q \in Ports, NEW pa \in Paths,
           NEW on \in BOOLEAN, UpdateService(p, n, q, pa, on)
    PROVE  IInv'
  <1> DEFINE s == hand[p].services[n]
             new == [s EXCEPT !.port = q, !.path = pa, !.on = on]
  <1>1. /\ hand[p] # None /\ s # None /\ ~PathConflict(hand[p], n, new)
        /\ \/ Write(p, SetService(hand[p], n, new))
           \/ Write(p, Listen(SetService(hand[p], n, new), q))
    BY DEF UpdateService
  <1>2. s \in Service
    BY <1>1, StoredService
  <1>3. new \in Service /\ new.bindings = s.bindings
    <2> HIDE DEF s
    <2> QED BY <1>2 DEF Service
  <1> HIDE DEF new
  <1> QED BY <1>1, <1>3, UpdatedKeeps

LEMMA SaveRawKeeps ==
    ASSUME IInv, NEW p \in Callers, NEW n \in Names, NEW s \in Service, SaveRaw(p, n, s)
    PROVE  IInv'
  <1>1. /\ hand[p] # None /\ ~PathConflict(hand[p], n, s)
        /\ Write(p, SetService(hand[p], n, s)) /\ Tied(hand[p], s)
    BY DEF SaveRaw, Tied
  <1> QED BY <1>1, StoreOnlyKeeps

LEMMA ServiceEditKeeps ==
    ASSUME IInv, NEW p \in Callers, ServiceEdit(p)
    PROVE  IInv'
  <1>1. PICK n \in Names :
          \/ DeleteService(p, n)
          \/ \E on \in BOOLEAN : Toggle(p, n, on)
          \/ \E q \in Ports, pa \in Paths :
                \/ \E b \in Posted : AddService(p, n, b, q, pa)
                \/ \E on \in BOOLEAN : UpdateService(p, n, q, pa, on)
                \/ \E bs \in BindingLists, on \in BOOLEAN :
                      SaveRaw(p, n, [port |-> q, path |-> pa, bindings |-> bs, on |-> on])
    BY DEF ServiceEdit
  <1>2. ASSUME NEW q \in Ports, NEW pa \in Paths, NEW bs \in BindingLists, NEW on \in BOOLEAN
        PROVE  [port |-> q, path |-> pa, bindings |-> bs, on |-> on] \in Service
    BY ConstantsAssumption DEF Service
  <1> QED BY <1>1, <1>2, DeleteServiceKeeps, ToggleKeeps, AddServiceKeeps,
             UpdateServiceKeeps, SaveRawKeeps
LEMMA PortEditKeeps ==
    ASSUME IInv, NEW p \in Callers, PortEdit(p)
    PROVE  IInv'
  <1>1. PICK q \in Ports : AddPort(p, q) \/ DeletePort(p, q)
    BY DEF PortEdit
  <1>2. PICK qs \in {hand[p].listen \cup {q}, hand[p].listen \ {q}} :
          hand[p] # None /\ Write(p, [hand[p] EXCEPT !.listen = qs])
    BY <1>1 DEF AddPort, DeletePort, Listen
  <1>3. qs \in SUBSET Ports
    BY <1>2, HandClean DEF Config
  <1> QED BY <1>2, <1>3, HandClean, ListenClean, WriteKeeps

LEMMA RealityEditKeeps ==
    ASSUME IInv, NEW p \in Callers,
           \/ \E on \in BOOLEAN, q \in Ports : UpdateReality(p, on, q)
           \/ \E r \in SNIRules, qs \in SUBSET Ports : SetRulePorts(p, r, qs)
    PROVE  IInv'
  <1> DEFINE old == hand[p].reality
  <1>1. RealityEdits /\ hand[p] # None
    BY DEF UpdateReality, SetRulePorts
  <1>2. hand[p] \in Config /\ old \in Reality
    BY <1>1, HandClean DEF Config
  <1>3. ASSUME NEW on \in BOOLEAN, NEW q \in Ports, UpdateReality(p, on, q)
        PROVE  IInv'
    <2> DEFINE r == [old EXCEPT !.on = on, !.http = q]
    <2>1. r \in Reality
      BY <1>2 DEF Reality
    <2>2. Write(p, [hand[p] EXCEPT !.reality = r])
      BY <1>2, <1>3, Zenon DEF UpdateReality
    <2> HIDE DEF r
    <2> QED BY <1>1, <2>1, <2>2, HandClean, RealityClean, WriteKeeps
  <1>4. ASSUME NEW x \in SNIRules, NEW qs \in SUBSET Ports, SetRulePorts(p, x, qs)
        PROVE  IInv'
    <2> DEFINE rs == [old.rules EXCEPT ![x] = qs]
               r == [old EXCEPT !.rules = rs]
    <2>1. rs \in [SNIRules -> SUBSET Ports]
      BY <1>2 DEF Reality
    <2>2. r \in Reality
      <3> HIDE DEF rs
      <3> QED BY <1>2, <2>1 DEF Reality
    <2>3. Write(p, [hand[p] EXCEPT !.reality = r])
      BY <1>2, <1>4, Zenon DEF SetRulePorts
    <2> HIDE DEF r
    <2> QED BY <1>1, <2>2, <2>3, HandClean, RealityClean, WriteKeeps
  <1> QED BY <1>3, <1>4

LEMMA UpdatePanelKeeps ==
    ASSUME IInv, NEW p \in Callers, NEW b \in Posted, NEW q \in Ports, NEW pa \in Paths,
           UpdatePanel(p, b, q, pa)
    PROVE  IInv'
  <1> DEFINE old == hand[p].services[PanelName]
             bs == IF old = None THEN <<>>
                   ELSE IF old.bindings = <<>> THEN <<>>
                   ELSE [old.bindings EXCEPT ![1] = b]
             on == IF old = None THEN TRUE ELSE old.on
             s == [port |-> q, path |-> pa, bindings |-> bs, on |-> on]
  <1>1. /\ PanelEdits /\ hand[p] # None
        /\ Write(p, Listen(SetService(hand[p], PanelName, s), q))
    BY DEF UpdatePanel
  <1>2. PanelName \in Names
    BY ConstantsAssumption
  <1>3. old \in Service \cup {None}
    BY <1>1, <1>2, HandClean DEF Config
  <1>4. bs \in Seq(Binding) /\ on \in BOOLEAN
    <2>1. b \in Binding
      BY PostedBindings
    <2> HIDE DEF old
    <2>2. old # None => old.bindings \in Seq(Binding) /\ old.on \in BOOLEAN
      BY <1>3 DEF Service
    <2>3. ASSUME old # None PROVE [old.bindings EXCEPT ![1] = b] \in Seq(Binding)
      <3> DEFINE l == old.bindings
                 m == [l EXCEPT ![1] = b]
      <3>1. l \in Seq(Binding) /\ DOMAIN l = 1..Len(l) /\ Len(l) \in Nat
        BY <2>2, <2>3
      <3> HIDE DEF l
      <3>2. m \in [1..Len(l) -> Binding]
        <4>1. l \in [1..Len(l) -> Binding]
          BY <3>1
        <4>2. m = [i \in 1..Len(l) |-> IF i = 1 THEN b ELSE l[i]]
          BY <3>1
        <4> HIDE DEF m
        <4> QED BY <2>1, <4>1, <4>2
      <3> HIDE DEF m
      <3>3. m \in Seq(Binding)
        BY <3>1, <3>2
      <3> QED BY <3>3 DEF m, l
    <2>4. bs \in Seq(Binding)
      <3>1. <<>> \in Seq(Binding)
        OBVIOUS
      <3> QED BY <2>3, <3>1
    <2>5. on \in BOOLEAN
      BY <2>2
    <2> QED BY <2>4, <2>5
  <1> HIDE DEF bs, on
  <1>5. s \in Service
    BY <1>4 DEF Service
  <1> HIDE DEF s
  <1> QED BY <1>1, <1>2, <1>5, StoreKeeps

------------------------------------------------------------------------------
\* Every configuration found on disk is Clean.
LEMMA InitClean == Init => IInv
  BY ConstantsAssumption DEF Init, IInv, Clean, StartsAttached, StartsDisjoint

LEMMA StepKeeps == IInv /\ [Next]_vars => IInv'
  <1> SUFFICES ASSUME IInv, [Next]_vars PROVE IInv'
    OBVIOUS
  <1>1. ASSUME NEW p \in Callers, Load(p) PROVE IInv'
    BY <1>1, LoadKeeps
  <1>2. ASSUME NEW p \in Callers, Refuse(p) PROVE IInv'
    BY <1>2, RefuseKeeps
  <1>3. ASSUME NEW p \in Callers, Edit(p) PROVE IInv'
    <2>1. CASE DomainEdit(p)
      BY <2>1, DomainEditKeeps
    <2>2. CASE BindingEdit(p)
      BY <2>2, BindingEditKeeps
    <2>3. CASE ServiceEdit(p)
      BY <2>3, ServiceEditKeeps
    <2>4. CASE PortEdit(p)
      BY <2>4, PortEditKeeps
    <2>5. CASE SettingsEdit(p)
      <3>1. CASE \/ \E on \in BOOLEAN, q \in Ports : UpdateReality(p, on, q)
                 \/ \E r \in SNIRules, qs \in SUBSET Ports : SetRulePorts(p, r, qs)
        BY <3>1, RealityEditKeeps
      <3>2. CASE \E b \in Posted, q \in Ports, pa \in Paths : UpdatePanel(p, b, q, pa)
        BY <3>2, UpdatePanelKeeps
      <3> QED BY <2>5, <3>1, <3>2 DEF SettingsEdit
    <2> QED BY <1>3, <2>1, <2>2, <2>3, <2>4, <2>5 DEF Edit
  <1>4. CASE UNCHANGED vars
    <2>1. edits' = edits /\ cfg' = cfg /\ hand' = hand
      BY <1>4 DEF vars
    <2>2. Clean(cfg)' /\ \A p \in Callers : (hand[p] # None => Clean(hand[p]))'
      BY <2>1 DEF IInv
    <2> QED BY <2>1, <2>2 DEF IInv
  <1> QED BY <1>1, <1>2, <1>3, <1>4 DEF Next

LEMMA AlwaysClean == Spec => []IInv
  BY InitClean, StepKeeps, PTL DEF Spec

\* Every handler writes a configuration of the right shape, whatever copy it
\* started from and whatever Mutate repaired on the way (config.go:946-1025,
\* and the handlers' callbacks).
THEOREM TypeCorrect == Spec => []TypeOK
  <1>1. IInv => TypeOK
    BY DEF IInv, Clean, TypeOK
  <1> QED BY <1>1, AlwaysClean, PTL

\* No binding outlives its domain: DeleteDomain's check (config.go:1044), the
\* handlers' "domain not found" and the repair of spellings are together
\* enough, even though each decides on a copy that may be out of date.  The
\* panel settings are excluded because they check nothing.
THEOREM NothingDangles == StartsAttached /\ ~PanelEdits => (Spec => []NoDanglingBinding)
  <1> SUFFICES ASSUME StartsAttached, ~PanelEdits
               PROVE  Spec => []NoDanglingBinding
    OBVIOUS
  <1>1. IInv => NoDanglingBinding
    BY DEF IInv, Clean, NoDanglingBinding
  <1> QED BY <1>1, AlwaysClean, PTL

\* No two services ever claim one location, as pathconflict.go promises, as
\* long as nobody edits the Reality or the panel settings.
THEOREM NoLocationIsShared ==
    StartsDisjoint /\ ~PanelEdits /\ ~RealityEdits => (Spec => []NoTwoServicesShareALocation)
  <1> SUFFICES ASSUME StartsDisjoint, ~PanelEdits, ~RealityEdits
               PROVE  Spec => []NoTwoServicesShareALocation
    OBVIOUS
  <1>1. IInv => NoTwoServicesShareALocation
    BY DEF IInv, Clean, NoTwoServicesShareALocation
  <1> QED BY <1>1, AlwaysClean, PTL

------------------------------------------------------------------------------
(* A repair settles at once.                                                *)

\* The spellings that are left choose as all of them did.
LEMMA MigratedCanon ==
    ASSUME NEW c \in Config, NEW k \in Keys
    PROVE  Canon(Migrated(c), k) = Canon(c, k)
  <1> DEFINE there(d) == SameHost(k) \cap Existing(d)
             certs(d) == SameHost(k) \cap Certified(d)
             m == Migrated(c)
             x == Canon(c, k)
  <1>1. /\ \A j \in Keys : m.domains[j] = IF Canon(c, j) # j THEN "absent" ELSE c.domains[j]
        /\ m.domains \in [Keys -> {"absent", "bare", "cert"}]
    BY MigratedFields DEF Config
  <1>2. \A j \in SameHost(k) : j \in Keys /\ LowerOf[j] = LowerOf[k] /\ SameHost(j) = SameHost(k)
    BY DEF SameHost
  <1>3. \A d : Canon(d, k) = IF LowerOf[k] \in certs(d) THEN LowerOf[k]
                             ELSE IF certs(d) # {} THEN First[certs(d)]
                             ELSE IF there(d) = {} \/ k \in there(d) THEN k
                             ELSE First[there(d)]
    BY DEF Canon
  <1>4. CASE certs(c) # {}
    <2>1. /\ \A j \in SameHost(k) : Canon(c, j) = x
          /\ x \in certs(c)
      <3>1. \A j \in SameHost(k) : Canon(c, j) = x
        <4> SUFFICES ASSUME NEW j \in SameHost(k) PROVE Canon(c, j) = x
          OBVIOUS
        <4>1. SameHost(j) \cap Certified(c) = certs(c) /\ LowerOf[j] = LowerOf[k]
          BY <1>2
        <4>2. Canon(c, j) = IF LowerOf[j] \in certs(c) THEN LowerOf[j] ELSE First[certs(c)]
          BY <1>4, <4>1 DEF Canon
        <4> HIDE DEF certs, there
        <4> QED BY <1>3, <1>4, <4>1, <4>2
      <3>2. First[certs(c)] \in certs(c)
        BY <1>4, ConstantsAssumption DEF SameHost
      <3> HIDE DEF certs, there
      <3> QED BY <1>3, <1>4, <3>1, <3>2
    <2>2. x \in SameHost(k) /\ x \in Keys /\ c.domains[x] = "cert" /\ Canon(c, x) = x
      BY <1>2, <2>1 DEF Certified
    <2>3. certs(m) = {x}
      <3>1. x \in certs(m)
        BY <1>1, <2>2 DEF Certified
      <3>2. ASSUME NEW j \in certs(m) PROVE j = x
        <4>1. j \in SameHost(k) /\ j \in Keys /\ m.domains[j] = "cert"
          BY DEF Certified
        <4> QED BY <1>1, <2>1, <4>1
      <3> QED BY <3>1, <3>2
    <2>4. certs(m) \in SUBSET Keys
      BY DEF SameHost
    <2>5. First[certs(m)] = x
      BY <2>3, <2>4, ConstantsAssumption
    <2> HIDE DEF m, x, certs, there
    <2>6. Canon(m, k) = x
      BY <1>3, <2>3, <2>5
    <2> QED BY <2>6 DEF m, x
  <1>5. CASE certs(c) = {}
    <2>1. ASSUME NEW j \in SameHost(k), j \in Existing(c) PROVE Canon(c, j) = j
      <3>1. SameHost(j) = SameHost(k) /\ LowerOf[j] = LowerOf[k] /\ j \in SameHost(k) \cap Existing(c)
        BY <1>2, <2>1
      <3> QED BY <1>5, <3>1 DEF Canon
    <2>2. there(m) = there(c)
      <3>1. ASSUME NEW j \in SameHost(k) PROVE j \in Existing(m) <=> j \in Existing(c)
        BY <1>1, <1>2, <2>1 DEF Existing
      <3> QED BY <3>1
    <2>3. certs(m) = {}
      <3>1. ASSUME NEW j \in certs(m) PROVE FALSE
        <4>1. j \in SameHost(k) /\ j \in Keys /\ m.domains[j] = "cert"
          BY DEF Certified
        <4>2. c.domains[j] = "cert"
          BY <1>1, <4>1
        <4> QED BY <1>5, <4>1, <4>2 DEF Certified
      <3> QED BY <3>1
    <2> HIDE DEF m, certs, there
    <2>4. Canon(m, k) = Canon(c, k)
      BY <1>3, <1>5, <2>2, <2>3
    <2> QED BY <2>4 DEF m
  <1> QED BY <1>4, <1>5

\* A service bound to canonical spellings stays as it is.
LEMMA ReboundTwice ==
    ASSUME NEW c \in Config, NEW s \in Service
    PROVE  Rebound(Migrated(c), Rebound(c, s)) = Rebound(c, s)
  <1> DEFINE r == Rebound(c, s)
             m == Migrated(c)
             t == Rebound(m, r)
  <1>1. r \in Service /\ m \in Config /\ t \in Service
    BY ReboundFields, MigratedFields
  <1>2. /\ t.port = r.port /\ t.path = r.path /\ t.on = r.on
        /\ DOMAIN t.bindings = DOMAIN r.bindings
    BY <1>1, ReboundFields
  <1>3. ASSUME NEW j \in DOMAIN r.bindings PROVE t.bindings[j] = r.bindings[j]
    <2>1. j \in DOMAIN s.bindings
      BY ReboundFields
    <2>2. r.bindings[j] = [key |-> Canon(c, s.bindings[j].key), sub |-> s.bindings[j].sub]
      BY <2>1, ReboundFields
    <2>3. s.bindings[j].key \in Keys
      <3>1. s.bindings[j] \in Binding
        BY <2>1 DEF Service
      <3> QED BY <3>1 DEF Binding
    <2>4. t.bindings[j] = [key |-> Canon(m, r.bindings[j].key), sub |-> r.bindings[j].sub]
      BY <1>1, ReboundFields
    <2>5. Canon(m, r.bindings[j].key) = r.bindings[j].key
      BY <2>2, <2>3, MigratedCanon, CanonSettles, CanonSameHost
    <2> HIDE DEF r, m, t
    <2> QED BY <2>2, <2>4, <2>5
  <1>4. t.bindings = r.bindings
    <2>1. t.bindings \in Seq(Binding) /\ r.bindings \in Seq(Binding)
      BY <1>1 DEF Service
    <2> HIDE DEF r, m, t
    <2>2. /\ t.bindings = [j \in DOMAIN t.bindings |-> t.bindings[j]]
          /\ r.bindings = [j \in DOMAIN r.bindings |-> r.bindings[j]]
      BY <2>1
    <2> QED BY <1>2, <1>3, <2>2
  <1> HIDE DEF r, m, t
  <1>5. t = r
    BY <1>1, <1>2, <1>4 DEF Service
  <1> QED BY <1>5 DEF r, m, t

\* The next Read has nothing left to repair.
LEMMA MigratedTwice ==
    ASSUME NEW c \in Config
    PROVE  Migrated(Migrated(c)) = Migrated(c)
  <1> DEFINE m == Migrated(c)
             mm == Migrated(m)
  <1>1. m \in Config /\ mm \in Config /\ mm.reality = m.reality
    BY MigratedFields
  <1>2. mm.domains = m.domains
    <2>1. ASSUME NEW k \in Keys PROVE mm.domains[k] = m.domains[k]
      <3>1. m.domains[k] = IF Canon(c, k) # k THEN "absent" ELSE c.domains[k]
        BY MigratedFields
      <3>2. mm.domains[k] = IF Canon(m, k) # k THEN "absent" ELSE m.domains[k]
        BY <1>1, MigratedFields
      <3> QED BY <3>1, <3>2, MigratedCanon
    <2>2. /\ m.domains \in [Keys -> {"absent", "bare", "cert"}]
          /\ mm.domains \in [Keys -> {"absent", "bare", "cert"}]
      BY <1>1 DEF Config
    <2> QED BY <2>1, <2>2
  <1>3. mm.services = m.services
    <2>1. ASSUME NEW n \in Names PROVE mm.services[n] = m.services[n]
      <3>1. m.services[n] = IF c.services[n] = None THEN None ELSE Rebound(c, c.services[n])
        BY MigratedFields
      <3>2. mm.services[n] = IF m.services[n] = None THEN None ELSE Rebound(m, m.services[n])
        BY <1>1, MigratedFields
      <3>3. c.services[n] # None => c.services[n] \in Service
        BY DEF Config
      <3> QED BY <3>1, <3>2, <3>3, ReboundTwice
    <2>2. /\ m.services \in [Names -> Service \cup {None}]
          /\ mm.services \in [Names -> Service \cup {None}]
      BY <1>1 DEF Config
    <2> HIDE DEF m, mm
    <2> QED BY <2>1, <2>2
  <1>4. mm.listen = m.listen
    BY DEF Migrated
  <1> HIDE DEF m, mm
  <1>5. mm = m
    BY <1>1, <1>2, <1>3, <1>4 DEF Config
  <1> QED BY <1>5 DEF m, mm

\* A host with a certificate keeps it, and its services find it.
LEMMA MigratedCertified ==
    ASSUME NEW c \in Config, NEW k \in Keys, SameHost(k) \cap Certified(c) # {}
    PROVE  Canon(c, k) \in Certified(Migrated(c))
  <1> DEFINE certs == SameHost(k) \cap Certified(c)
             x == Canon(c, k)
  <1>1. x \in certs
    <2>1. First[certs] \in certs
      BY ConstantsAssumption DEF SameHost
    <2> QED BY <2>1 DEF Canon
  <1>2. x \in Keys /\ Canon(c, x) = x /\ c.domains[x] = "cert"
    BY <1>1, CanonSettles DEF Certified, SameHost
  <1> QED BY <1>2, MigratedFields DEF Certified

\* config.go:946-1025: for any spellings and any services, one repair is
\* enough, it moves no service, and every service whose host has a certificate
\* under some spelling ends up bound to a spelling that has one.
THEOREM RepairsSettle == Spec => []MigrationSettles
  <1>1. ASSUME IInv PROVE MigrationSettles
    <2> DEFINE c == Migrated(cfg)
    <2>1. cfg \in Config
      BY <1>1 DEF IInv, Clean
    <2>2. c \in Config /\ Migrated(c) = c
      BY <2>1, MigratedFields, MigratedTwice
    <2>3. ASSUME NEW n \in Names
          PROVE  Locations(c, c.services[n]) = Locations(cfg, cfg.services[n])
      BY <2>1, MigratedLocations
    <2>4. ASSUME NEW n \in Names, c.services[n] # None,
                 NEW j \in DOMAIN c.services[n].bindings,
                 SameHost(c.services[n].bindings[j].key) \cap Certified(cfg) # {}
          PROVE  c.services[n].bindings[j].key \in Certified(c)
      <3> DEFINE s == cfg.services[n]
      <3>1. s # None /\ s \in Service /\ c.services[n] = Rebound(cfg, s)
        BY <2>1, <2>4, MigratedFields DEF Config
      <3>2. j \in DOMAIN Rebound(cfg, s).bindings
        BY <3>1
      <3> HIDE DEF s
      <3>3. /\ j \in DOMAIN s.bindings
            /\ Rebound(cfg, s).bindings[j] = [key |-> Canon(cfg, s.bindings[j].key),
                                              sub |-> s.bindings[j].sub]
        BY <2>1, <3>1, <3>2, ReboundFields
      <3>4. s.bindings[j] \in Binding
        BY <3>1, <3>3 DEF Service
      <3>5. s.bindings[j].key \in Keys
        BY <3>4 DEF Binding
      <3>6. SameHost(Canon(cfg, s.bindings[j].key)) = SameHost(s.bindings[j].key)
        BY <2>1, <3>5, CanonSameHost DEF SameHost
      <3>7. c.services[n].bindings[j].key = Canon(cfg, s.bindings[j].key)
        BY <3>1, <3>3
      <3> HIDE DEF c
      <3>8. SameHost(s.bindings[j].key) \cap Certified(cfg) # {}
        BY <2>4, <3>6, <3>7
      <3> QED BY <2>1, <3>5, <3>7, <3>8, MigratedCertified DEF c
    <2> HIDE DEF c
    <2>5. /\ Migrated(c) = c
          /\ \A n \in Names :
               /\ Locations(c, c.services[n]) = Locations(cfg, cfg.services[n])
               /\ c.services[n] # None =>
                    \A j \in DOMAIN c.services[n].bindings :
                       SameHost(c.services[n].bindings[j].key) \cap Certified(cfg) # {}
                         => c.services[n].bindings[j].key \in Certified(c)
      BY <2>2, <2>3, <2>4
    <2> QED BY <2>5 DEF c, MigrationSettles, RepairIsFinal, RepairStrandsNobody
  <1> QED BY <1>1, AlwaysClean, PTL

------------------------------------------------------------------------------
(* Deleting a domain.                                                       *)

\* A caller edits a copy that Mutate has repaired.
HandsSettled == \A p \in Callers : hand[p] # None => Migrated(hand[p]) = hand[p]

LEMMA HandsStep == IInv /\ HandsSettled /\ [Next]_vars => HandsSettled'
  <1> SUFFICES ASSUME IInv, HandsSettled, [Next]_vars, NEW q \in Callers, hand'[q] # None
               PROVE  Migrated(hand'[q]) = hand'[q]
    BY DEF HandsSettled
  <1>1. hand \in [Callers -> Config \cup {None}] /\ cfg \in Config
    BY DEF IInv, Clean
  <1>2. CASE hand'[q] = hand[q]
    BY <1>2 DEF HandsSettled
  <1>3. ASSUME NEW p \in Callers, Load(p) PROVE Migrated(hand'[q]) = hand'[q]
    <2>1. hand'[q] = hand[q] \/ hand'[q] = Migrated(cfg)
      BY <1>1, <1>3 DEF Load
    <2> QED BY <1>1, <1>2, <2>1, MigratedTwice
  <1>4. ASSUME NEW p \in Callers, hand' = [hand EXCEPT ![p] = None]
        PROVE  Migrated(hand'[q]) = hand'[q]
    BY <1>1, <1>2, <1>4
  <1>5. ASSUME NEW p \in Callers, Edit(p) PROVE hand' = [hand EXCEPT ![p] = None]
    <2>1. CASE DomainEdit(p)
      BY <2>1 DEF DomainEdit, AddDomain, UpdateDomain, DeleteDomain, Write
    <2>2. CASE BindingEdit(p)
      BY <2>2 DEF BindingEdit, AddBinding, SetBindings, RemoveBinding, Write
    <2>3. CASE ServiceEdit(p)
      <3>1. ASSUME NEW n \in Names, NEW b \in Posted, NEW at \in Ports, NEW pa \in Paths,
                   AddService(p, n, b, at, pa)
            PROVE  hand' = [hand EXCEPT ![p] = None]
        BY <3>1 DEF AddService, Write
      <3>2. ASSUME NEW n \in Names, NEW at \in Ports, NEW pa \in Paths, NEW on \in BOOLEAN,
                   UpdateService(p, n, at, pa, on)
            PROVE  hand' = [hand EXCEPT ![p] = None]
        BY <3>2 DEF UpdateService, Write
      <3>3. ASSUME NEW n \in Names, NEW s, SaveRaw(p, n, s)
            PROVE  hand' = [hand EXCEPT ![p] = None]
        BY <3>3 DEF SaveRaw, Write
      <3>4. ASSUME NEW n \in Names, NEW on \in BOOLEAN, DeleteService(p, n) \/ Toggle(p, n, on)
            PROVE  hand' = [hand EXCEPT ![p] = None]
        BY <3>4 DEF DeleteService, Toggle, Write
      <3> QED BY <2>3, <3>1, <3>2, <3>3, <3>4 DEF ServiceEdit
    <2>4. CASE PortEdit(p)
      BY <2>4 DEF PortEdit, AddPort, DeletePort, Write
    <2>5. CASE SettingsEdit(p)
      BY <2>5 DEF SettingsEdit, UpdateReality, SetRulePorts, UpdatePanel, Write
    <2> QED BY <1>5, <2>1, <2>2, <2>3, <2>4, <2>5 DEF Edit
  <1>6. CASE UNCHANGED vars
    BY <1>2, <1>6 DEF vars
  <1> QED BY <1>3, <1>4, <1>5, <1>6 DEF Next, Refuse

\* In a repaired configuration a host with a certificate has one spelling, and
\* its services are bound to that one.
LEMMA OneSpelling ==
    ASSUME NEW c \in Config, Migrated(c) = c, NEW k \in Certified(c)
    PROVE  /\ SameHost(k) \cap Existing(c) = {k}
           /\ \A n \in Names : c.services[n] # None =>
                \A j \in DOMAIN c.services[n].bindings :
                   LowerOf[c.services[n].bindings[j].key] = LowerOf[k]
                     => c.services[n].bindings[j].key = k
  <1>1. k \in Keys /\ k \in SameHost(k) /\ c.domains[k] = "cert"
    BY DEF Certified, SameHost
  <1>2. ASSUME NEW i \in SameHost(k), NEW j \in SameHost(k) PROVE Canon(c, i) = Canon(c, j)
    <2>1. /\ SameHost(i) = SameHost(k) /\ SameHost(j) = SameHost(k)
          /\ LowerOf[i] = LowerOf[j] /\ k \in SameHost(i) \cap Certified(c)
      BY <1>1 DEF SameHost
    <2> QED BY <2>1 DEF Canon
  <1>3. \A i \in Keys : c.domains[i] # "absent" => Canon(c, i) = i
    BY MigratedFields
  <1>4. Canon(c, k) = k
    BY <1>1, <1>3
  <1>5. \A i \in SameHost(k) : Canon(c, i) = k
    BY <1>1, <1>2, <1>4
  <1>6. SameHost(k) \cap Existing(c) = {k}
    BY <1>1, <1>3, <1>5 DEF Existing
  <1>7. ASSUME NEW n \in Names, c.services[n] # None,
               NEW j \in DOMAIN c.services[n].bindings,
               LowerOf[c.services[n].bindings[j].key] = LowerOf[k]
        PROVE  c.services[n].bindings[j].key = k
    <2> DEFINE s == c.services[n]
    <2>1. s \in Service /\ s = Rebound(c, s)
      BY <1>7, MigratedFields DEF Config
    <2>2. j \in DOMAIN s.bindings
      BY <1>7
    <2> HIDE DEF s
    <2>3. s.bindings[j] \in Binding /\ s.bindings[j].key \in Keys
      <3>1. s.bindings[j] \in Binding
        BY <2>1, <2>2 DEF Service
      <3> QED BY <3>1 DEF Binding
    <2>4. s.bindings[j].key = Canon(c, s.bindings[j].key)
      <3>1. Rebound(c, s).bindings[j] = [key |-> Canon(c, s.bindings[j].key),
                                         sub |-> s.bindings[j].sub]
        BY <2>1, <2>2, ReboundFields
      <3> QED BY <2>1, <3>1
    <2>5. s.bindings[j].key \in SameHost(k)
      BY <1>7, <2>3 DEF SameHost, s
    <2>6. s.bindings[j].key = k
      BY <1>5, <2>4, <2>5
    <2> QED BY <2>6 DEF s
  <1> QED BY <1>6, <1>7

LEMMA DeletionIsHarmless ==
    ASSUME NEW c \in Config, Migrated(c) = c, NEW k \in Keys, ~Uses(c, k), NEW q
    PROVE  Blocks(SetDomain(c, k, "absent"), q) = Blocks(c, q)
  <1> DEFINE d == SetDomain(c, k, "absent")
  <1>1. /\ d.services = c.services /\ d.reality = c.reality /\ d.listen = c.listen
        /\ \A j \in Keys : d.domains[j] = IF j = k THEN "absent" ELSE c.domains[j]
    BY DEF SetDomain, Config
  <1> HIDE DEF d
  <1>2. \A h : InBlock(d, q, h) = InBlock(c, q, h)
    BY <1>1 DEF InBlock, EffectivePort, RealityPort
  <1>3. Certified(d) = Certified(c) \ {k}
    BY <1>1 DEF Certified
  <1>4. ASSUME NEW h \in Keys, h \in {LowerOf[j] : j \in Keys}, k \in SameHost(h) \cap Certified(c)
        PROVE  InBlock(c, q, h) = {}
    <2>1. LowerOf[h] = h /\ LowerOf[k] = h
      BY <1>4, ConstantsAssumption DEF SameHost
    <2>2. \A n \in Names : c.services[n] # None =>
            \A j \in DOMAIN c.services[n].bindings :
              LowerOf[c.services[n].bindings[j].key] = h => c.services[n].bindings[j].key = k
      BY <1>4, <2>1, OneSpelling
    <2> QED BY <2>2 DEF InBlock, Uses
  <1>5. \A j \in Keys : LowerOf[j] \in Keys
    BY ConstantsAssumption
  <1>6. Blocks(d, q) = Blocks(c, q)
    <2>1. ASSUME NEW h \in {LowerOf[j] : j \in Keys}
          PROVE  (SameHost(h) \cap Certified(d) # {} /\ InBlock(d, q, h) # {})
                   <=> (SameHost(h) \cap Certified(c) # {} /\ InBlock(c, q, h) # {})
      <3>1. h \in Keys
        BY <1>5
      <3> QED BY <1>2, <1>3, <1>4, <3>1
    <2> QED BY <2>1 DEF Blocks
  <1> QED BY <1>6 DEF d

\* handlers_domains.go, config.go:1044: whatever spellings of a host the
\* configuration holds and whatever services there are, deleting a domain
\* that no service names leaves nginx the server blocks it had.
THEOREM DeletionStrandsNone == Spec => DeleteStrandsNobody
  <1>1. Init => HandsSettled
    BY DEF Init, HandsSettled
  <1>2. ASSUME IInv, HandsSettled, NEW p \in Callers, NEW k \in Keys, DeleteDomain(p, k),
               NEW q \in Ports
        PROVE  Blocks(cfg', q) = Blocks(hand[p], q)
    <2>1. /\ hand[p] # None /\ ~Uses(hand[p], k)
          /\ cfg' = SetDomain(hand[p], k, "absent")
      BY <1>2 DEF DeleteDomain, Write
    <2>2. hand[p] \in Config /\ Migrated(hand[p]) = hand[p]
      BY <1>2, <2>1 DEF IInv, HandsSettled
    <2> QED BY <2>1, <2>2, DeletionIsHarmless
  <1>3. IInv /\ HandsSettled /\ [Next]_vars
          => [\A p \in Callers, k \in Keys :
                DeleteDomain(p, k) => \A q \in Ports : Blocks(cfg', q) = Blocks(hand[p], q)]_vars
    BY <1>2
  <1> QED BY <1>1, <1>3, AlwaysClean, HandsStep, PTL DEF Spec, DeleteStrandsNobody

\* Neither a repair nor a deletion strands a service.
THEOREM NoServiceIsStranded == Spec => NobodyIsStranded
  BY RepairsSettle, DeletionStrandsNone, PTL DEF NobodyIsStranded, MigrationSettles

==============================================================================
