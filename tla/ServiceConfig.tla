---------------------------- MODULE ServiceConfig ----------------------------
(***************************************************************************)
(* Domains, services and listen ports in config.json, the handlers that    *)
(* edit them (internal/config/config.go, internal/web/handlers_*.go), the  *)
(* duplicate-location checks of internal/config/pathconflict.go, the       *)
(* repair of case-variant domains a Read performs, and the server blocks   *)
(* internal/nginx/generator.go writes for the result.                      *)
(*                                                                         *)
(* Every edit is one Mutate: a Read, whose copy may be out of date by the  *)
(* time it is used (see ConfigStore), then a check and a whole-file Write. *)
(***************************************************************************)
EXTENDS Naturals, Sequences, FiniteSets

CONSTANTS
    Callers,    \* panel requests and CLI commands
    Keys,       \* spellings of domains, numbered in sort.Strings order
    LowerOf,    \* [Keys -> Keys]: strings.ToLower
    First,      \* [SUBSET Keys -> Keys]: the first of a sorted list
    Subs, Bare, \* subdomains; Bare is the empty one
    Fqdn,       \* [Subs \X Keys -> hostnames], of a lower-case domain
    Names,      \* services, numbered in sort.Strings order
    PanelName,  \* the panel's own service
    Paths, Ports,
    SNIRules,   \* names of Reality services
    None,       \* no service, nothing read
    Starts,     \* configurations found on disk
    BindingLists, \* lists of bindings a request may carry
    RealityEdits, PanelEdits,  \* whether anybody edits these settings
    MaxBindings, MaxEdits      \* bounds of a run, not of the code

Binding == [key : Keys, sub : Subs]
Service == [port : Ports, path : Paths, bindings : Seq(Binding), on : BOOLEAN]
Reality == [on : BOOLEAN, http : Ports, rules : [SNIRules -> SUBSET Ports]]
Config == [domains  : [Keys -> {"absent", "bare", "cert"}],
           services : [Names -> Service \cup {None}],
           listen   : SUBSET Ports,
           reality  : Reality]

ASSUME ConstantsAssumption ==
    /\ Keys \subseteq Nat /\ Names \subseteq Nat
    /\ LowerOf \in [Keys -> Keys]
    /\ \A k \in Keys : LowerOf[LowerOf[k]] = LowerOf[k]
    /\ First \in [SUBSET Keys -> Keys]
    /\ \A S \in SUBSET Keys : S # {} => First[S] \in S
    /\ Bare \in Subs
    /\ PanelName \in Names
    /\ None \notin Service /\ None \notin Config
    /\ BindingLists \subseteq Seq(Binding)
    /\ Starts \subseteq Config
    /\ RealityEdits \in BOOLEAN /\ PanelEdits \in BOOLEAN
    /\ MaxBindings \in Nat /\ MaxEdits \in Nat

VARIABLES
    cfg,    \* config.json
    hand,   \* the copy each caller's Mutate has read, or None
    edits   \* edits stored so far

vars == <<cfg, hand, edits>>

------------------------------------------------------------------------------
(* Domains, and what a Read repairs.                                        *)

Existing(c) == {k \in Keys : c.domains[k] # "absent"}
Certified(c) == {k \in Keys : c.domains[k] = "cert"}
SameHost(k) == {v \in Keys : LowerOf[v] = LowerOf[k]}

\* Mutant: an existing spelling is kept even when another has the certificate.
CanonExact(c, k) ==
    IF k \in Existing(c) THEN k
    ELSE IF SameHost(k) \cap Existing(c) = {} THEN k
    ELSE First[SameHost(k) \cap Existing(c)]

\* Mutant: the first spelling wins, with a certificate or without.
CanonFirst(c, k) ==
    IF SameHost(k) \cap Existing(c) = {} THEN k
    ELSE First[SameHost(k) \cap Existing(c)]

\* canonicalDomain, with d itself where the code answers "".
Canon(c, k) ==
    LET there == SameHost(k) \cap Existing(c)
        certs == SameHost(k) \cap Certified(c)
    IN  IF LowerOf[k] \in certs THEN LowerOf[k]
        ELSE IF certs # {} THEN First[certs]
        ELSE IF there = {} \/ k \in there THEN k
        ELSE First[there]

Rebound(c, s) ==
    [s EXCEPT !.bindings = [j \in DOMAIN s.bindings |->
        [key |-> Canon(c, s.bindings[j].key), sub |-> s.bindings[j].sub]]]

\* migrateCanonicalDomains: bindings move to the canonical spelling and the
\* other spellings are dropped.  A spelling is only dropped for one that has
\* a certificate, so there is never a certificate to carry over.
Migrated(c) ==
    [c EXCEPT
        !.domains = [k \in Keys |-> IF Canon(c, k) # k THEN "absent" ELSE c.domains[k]],
        !.services = [n \in Names |-> IF c.services[n] = None THEN None
                                      ELSE Rebound(c, c.services[n])]]

------------------------------------------------------------------------------
(* pathconflict.go.                                                         *)

RealityPort(c, q) == c.reality.on /\ \E r \in SNIRules : q \in c.reality.rules[r]
EffectivePort(c, q) == IF RealityPort(c, q) THEN c.reality.http ELSE q

Host(b) == Fqdn[<<b.sub, LowerOf[b.key]>>]

\* locationsFor.
Locations(c, s) ==
    IF s = None THEN {}
    ELSE IF ~s.on THEN {}
    ELSE {<<Host(s.bindings[j]), EffectivePort(c, s.port), s.path>> : j \in DOMAIN s.bindings}

\* CheckPathConflict.
PathConflict(c, n, s) ==
    \E m \in Names \ {n} : Locations(c, s) \cap Locations(c, c.services[m]) # {}

\* SelfPathConflict.
SelfPathConflict(s) ==
    s.on /\ \E i, j \in DOMAIN s.bindings : i # j /\ Host(s.bindings[i]) = Host(s.bindings[j])

------------------------------------------------------------------------------
(* The server blocks of generator.go: one per effective port and lower-case *)
(* domain, a location per service in it.                                    *)

HTTPPort == 80   \* the redirect's port, which carries no service

\* servicesForDomainPort, over the ports that share a block.
InBlock(c, q, d) ==
    {n \in Names :
        /\ c.services[n] # None
        /\ c.services[n].on
        /\ c.services[n].port \in c.listen \ {HTTPPort}
        /\ EffectivePort(c, c.services[n].port) = q
        /\ \E j \in DOMAIN c.services[n].bindings :
              LowerOf[c.services[n].bindings[j].key] = d}

\* A block without a certificate is skipped, an empty one never starts.
Blocks(c, q) ==
    {d \in {LowerOf[k] : k \in Keys} :
        SameHost(d) \cap Certified(c) # {} /\ InBlock(c, q, d) # {}}

\* The services given a location: the first to claim a path keeps it.
Emitted(c, q, d) ==
    {n \in InBlock(c, q, d) :
        \A m \in InBlock(c, q, d) :
            m < n => c.services[m].path # c.services[n].path}

------------------------------------------------------------------------------
Init ==
    /\ cfg \in Starts
    /\ hand = [p \in Callers |-> None]
    /\ edits = 0

\* Mutate's Read.  The repaired configuration is written back.
Load(p) ==
    /\ hand[p] = None
    /\ cfg' = Migrated(cfg)
    /\ hand' = [hand EXCEPT ![p] = Migrated(cfg)]
    /\ edits' = edits

\* The callback refused: nothing is written.
Refuse(p) ==
    /\ hand[p] # None
    /\ hand' = [hand EXCEPT ![p] = None]
    /\ UNCHANGED <<cfg, edits>>

Write(p, c) ==
    /\ cfg' = c
    /\ hand' = [hand EXCEPT ![p] = None]
    /\ edits' = edits + 1

SetService(c, n, s) == [c EXCEPT !.services = [c.services EXCEPT ![n] = s]]
SetDomain(c, k, d) == [c EXCEPT !.domains = [c.domains EXCEPT ![k] = d]]
Listen(c, q) == [c EXCEPT !.listen = c.listen \cup {q}]

AddDomain(p, k, d) ==
    /\ hand[p] # None
    /\ k \notin Existing(hand[p])
    /\ Write(p, SetDomain(hand[p], k, d))

UpdateDomain(p, k, d) ==
    /\ hand[p] # None
    /\ k \in Existing(hand[p])
    /\ Write(p, SetDomain(hand[p], k, d))

Uses(c, k) ==
    \E n \in Names : /\ c.services[n] # None
                     /\ \E j \in DOMAIN c.services[n].bindings :
                          c.services[n].bindings[j].key = k

\* Mutant: only services that are switched on hold on to a domain.
DeleteDomainOff(p, k) ==
    /\ hand[p] # None
    /\ k \in Existing(hand[p])
    /\ \A n \in Names : hand[p].services[n] # None /\ hand[p].services[n].on
         => \A j \in DOMAIN hand[p].services[n].bindings :
               hand[p].services[n].bindings[j].key # k
    /\ Write(p, SetDomain(hand[p], k, "absent"))

DeleteDomain(p, k) ==
    /\ hand[p] # None
    /\ k \in Existing(hand[p])
    /\ ~Uses(hand[p], k)
    /\ Write(p, SetDomain(hand[p], k, "absent"))

AddService(p, n, b, q, pa) ==
    LET s == [port |-> q, path |-> pa, bindings |-> <<b>>, on |-> TRUE]
    IN  /\ hand[p] # None
        /\ hand[p].services[n] = None
        /\ b.key \in Existing(hand[p])
        /\ ~PathConflict(hand[p], n, s)
        /\ Write(p, Listen(SetService(hand[p], n, s), q))

DeleteService(p, n) ==
    /\ hand[p] # None
    /\ hand[p].services[n] # None
    /\ Write(p, SetService(hand[p], n, None))

Bind(s, bs) == [s EXCEPT !.bindings = bs]

AddBinding(p, n, b) ==
    /\ hand[p] # None
    /\ hand[p].services[n] # None
    /\ LET s == hand[p].services[n]
           new == Bind(s, Append(s.bindings, b))
       IN  /\ Len(s.bindings) < MaxBindings
           /\ b.key \in Existing(hand[p])
           /\ \A j \in DOMAIN s.bindings : s.bindings[j] # b
           /\ ~PathConflict(hand[p], n, new)
           /\ ~SelfPathConflict(new)
           /\ Write(p, SetService(hand[p], n, new))

\* handleSetBindings replaces the list.
SetBindings(p, n, bs) ==
    /\ hand[p] # None
    /\ hand[p].services[n] # None
    /\ LET new == Bind(hand[p].services[n], bs)
       IN  /\ \A j \in DOMAIN bs : bs[j].key \in Existing(hand[p])
           /\ ~SelfPathConflict(new)
           /\ ~PathConflict(hand[p], n, new)
           /\ Write(p, SetService(hand[p], n, new))

\* Mutant: the removed binding leaves a hole.
WithoutHole(s, j) == [s EXCEPT ![j] = None]

Without(s, j) == [i \in 1..(Len(s) - 1) |-> IF i < j THEN s[i] ELSE s[i + 1]]

RemoveBinding(p, n, j) ==
    /\ hand[p] # None
    /\ hand[p].services[n] # None
    /\ j \in DOMAIN hand[p].services[n].bindings
    /\ Write(p, SetService(hand[p], n,
                    Bind(hand[p].services[n], Without(hand[p].services[n].bindings, j))))

\* Mutant: the switch does not look for a conflict.
ToggleUnchecked(p, n, on) ==
    /\ hand[p] # None
    /\ hand[p].services[n] # None
    /\ Write(p, SetService(hand[p], n, [hand[p].services[n] EXCEPT !.on = on]))

\* handleToggleService.
Toggle(p, n, on) ==
    /\ hand[p] # None
    /\ hand[p].services[n] # None
    /\ LET new == [hand[p].services[n] EXCEPT !.on = on]
       IN  /\ ~PathConflict(hand[p], n, new)
           /\ Write(p, SetService(hand[p], n, new))

\* handleUpdateService: a port that was sent also becomes a listen port.
UpdateService(p, n, q, pa, on) ==
    /\ hand[p] # None
    /\ hand[p].services[n] # None
    /\ LET new == [hand[p].services[n] EXCEPT !.port = q, !.path = pa, !.on = on]
       IN  /\ ~PathConflict(hand[p], n, new)
           /\ \/ Write(p, Listen(SetService(hand[p], n, new), q))
              \/ /\ q = hand[p].services[n].port
                 /\ Write(p, SetService(hand[p], n, new))

\* saveItemRaw: the whole record, from an editor.  Its port is not added to
\* the listen ports.
SaveRaw(p, n, s) ==
    /\ hand[p] # None
    /\ hand[p].services[n] # None
    /\ Len(s.bindings) > 0
    /\ \A j \in DOMAIN s.bindings : s.bindings[j].key \in Existing(hand[p])
    /\ ~SelfPathConflict(s)
    /\ ~PathConflict(hand[p], n, s)
    /\ Write(p, SetService(hand[p], n, s))

AddPort(p, q) ==
    /\ hand[p] # None
    /\ q \notin hand[p].listen
    /\ Write(p, Listen(hand[p], q))

DeletePort(p, q) ==
    /\ hand[p] # None
    /\ q # HTTPPort
    /\ Cardinality(hand[p].listen) > 1
    /\ \A n \in Names : hand[p].services[n] # None => hand[p].services[n].port # q
    /\ Write(p, [hand[p] EXCEPT !.listen = @ \ {q}])

\* handleUpdateReality: no conflict check.
UpdateReality(p, on, q) ==
    /\ RealityEdits
    /\ hand[p] # None
    /\ Write(p, [hand[p] EXCEPT !.reality.on = on, !.reality.http = q])

\* Creating, deleting and editing an SNI rule, and its add-port and
\* remove-port buttons: any of them changes which ports Reality owns.
SetRulePorts(p, r, qs) ==
    /\ RealityEdits
    /\ hand[p] # None
    /\ Write(p, [hand[p] EXCEPT !.reality.rules[r] = qs])

\* handleUpdatePanelSettings writes the panel's own service, with none of
\* the checks, and creates it when it is missing.
UpdatePanel(p, b, q, pa) ==
    LET old == hand[p].services[PanelName]
        bs == IF old = None THEN <<>>
              ELSE IF old.bindings = <<>> THEN <<>>
              ELSE [old.bindings EXCEPT ![1] = b]
        s == [port |-> q, path |-> pa, bindings |-> bs,
              on |-> IF old = None THEN TRUE ELSE old.on]
    IN  /\ PanelEdits
        /\ hand[p] # None
        /\ Write(p, Listen(SetService(hand[p], PanelName, s), q))

\* The bindings a request may carry on their own.
Posted == UNION {{bs[j] : j \in DOMAIN bs} : bs \in BindingLists}

DomainEdit(p) ==
    \E k \in Keys :
        \/ \E d \in {"bare", "cert"} : AddDomain(p, k, d) \/ UpdateDomain(p, k, d)
        \/ DeleteDomain(p, k)

BindingEdit(p) ==
    \E n \in Names :
        \/ \E b \in Posted : AddBinding(p, n, b)
        \/ \E bs \in BindingLists : SetBindings(p, n, bs)
        \/ \E j \in 1..MaxBindings : RemoveBinding(p, n, j)

ServiceEdit(p) ==
    \E n \in Names :
        \/ DeleteService(p, n)
        \/ \E on \in BOOLEAN : Toggle(p, n, on)
        \/ \E q \in Ports, pa \in Paths :
              \/ \E b \in Posted : AddService(p, n, b, q, pa)
              \/ \E on \in BOOLEAN : UpdateService(p, n, q, pa, on)
              \/ \E bs \in BindingLists, on \in BOOLEAN :
                    SaveRaw(p, n, [port |-> q, path |-> pa, bindings |-> bs, on |-> on])

PortEdit(p) == \E q \in Ports : AddPort(p, q) \/ DeletePort(p, q)

SettingsEdit(p) ==
    \/ \E on \in BOOLEAN, q \in Ports : UpdateReality(p, on, q)
    \/ \E r \in SNIRules, qs \in SUBSET Ports : SetRulePorts(p, r, qs)
    \/ \E b \in Posted, q \in Ports, pa \in Paths : UpdatePanel(p, b, q, pa)

Edit(p) == DomainEdit(p) \/ BindingEdit(p) \/ ServiceEdit(p) \/ PortEdit(p) \/ SettingsEdit(p)

Next ==
    \E p \in Callers :
        \/ Load(p) \/ Refuse(p)
        \/ edits < MaxEdits /\ Edit(p)

Spec == Init /\ [][Next]_vars

------------------------------------------------------------------------------
TypeOK ==
    /\ cfg \in Config
    /\ hand \in [Callers -> Config \cup {None}]
    /\ edits \in Nat

\* Every binding names a domain that exists.
Attached(c) ==
    \A n \in Names : c.services[n] # None
        => \A j \in DOMAIN c.services[n].bindings :
              c.services[n].bindings[j].key \in Existing(c)

\* No two services claim one location.
Disjoint(c) ==
    \A m, n \in Names : m # n
        => Locations(c, c.services[m]) \cap Locations(c, c.services[n]) = {}

\* No binding is left behind by a deleted domain, a repair of its spelling or
\* another caller's write from an old copy (config.go:1046): it would name a
\* hostname the generator skips.
NoDanglingBinding == Attached(cfg)

\* pathconflict.go:16: two services that share a location are refused "at
\* save time now, before it can reach disk", however their domains are
\* spelled, switched off and on, or edited from copies read earlier.
NoTwoServicesShareALocation == Disjoint(cfg)

\* Repairing a configuration settles it at once: the next Read has nothing
\* left to repair (config.go:946).
RepairIsFinal == Migrated(Migrated(cfg)) = Migrated(cfg)

\* A repair moves no service: the locations are those of before, and a
\* service whose host had a certificate under some spelling is bound to a
\* spelling that has one (config.go:946).
RepairStrandsNobody ==
    LET c == Migrated(cfg)
    IN  \A n \in Names : /\ Locations(c, c.services[n]) = Locations(cfg, cfg.services[n])
                         /\ c.services[n] # None =>
                              \A j \in DOMAIN c.services[n].bindings :
                                 LET k == c.services[n].bindings[j].key
                                 IN  SameHost(k) \cap Certified(cfg) # {} => k \in Certified(c)

\* Both: what a Read repairs is repaired for good, and at nobody's cost.
MigrationSettles == RepairIsFinal /\ RepairStrandsNobody

\* Deleting a domain takes no server block away (config.go:1044), whatever
\* spellings of it the configuration holds.
DeleteStrandsNobody ==
    [][\A p \in Callers, k \in Keys :
         DeleteDomain(p, k) => \A q \in Ports : Blocks(cfg', q) = Blocks(hand[p], q)]_vars

\* What happens to a domain leaves its services where they were: repairs of
\* its spelling and the deletion of a spelling alike.
NobodyIsStranded == [](RepairIsFinal /\ RepairStrandsNobody) /\ DeleteStrandsNobody

\* pathconflict.go:126 tells an operator that "a different subdomain" resolves
\* a conflict (and pathconflict_test.go:89 that the second service is then
\* accepted): an accepted service on a listening port, under a certified
\* domain, gets its location.
AcceptedServicesAreServed ==
    \A q \in Ports : \A d \in Blocks(cfg, q) : Emitted(cfg, q, d) = InBlock(cfg, q, d)
==============================================================================
