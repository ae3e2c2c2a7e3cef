----------------------------- MODULE TopologyMap -----------------------------
(***************************************************************************)
(* The topology map (static/js/pages/map.js): from the topology the server *)
(* reports to boxes, containers and lines, and to their coordinates.       *)
(*                                                                         *)
(* The configuration changes one service, one rule or one switch at a      *)
(* time; the picture is a function of it.  Labels, colours, dots and the   *)
(* tables below the drawing are left out.  Coordinates are quarter pixels, *)
(* so that the halves of halves the layout computes are whole numbers.     *)
(***************************************************************************)
EXTENDS Sifting, Integers, Sequences, Functions

CONSTANTS
    HttpNames, SniNames,   \* sequences: the services and the SNI rules, in the server's order
    MapPorts,              \* port numbers a configuration may name
    HttpPort,              \* reality_http_port: nginx's own listener behind the SNI stage
    HttpChoices,           \* what a service may look like
    SniChoices             \* what an SNI rule may look like

HttpService == [host : STRING, listen : {0} \cup MapPorts, target : STRING,
                port : Nat, pass : BOOLEAN, disabled : BOOLEAN]
SniRule == [ports : SUBSET MapPorts, target : STRING, port : Nat,
            pass : BOOLEAN, disabled : BOOLEAN]

ASSUME MapAssumption ==
    /\ HttpNames \in Seq(STRING) /\ IsInjective(HttpNames)
    /\ SniNames \in Seq(STRING) /\ IsInjective(SniNames)
    /\ MapPorts \subseteq Nat /\ IsFiniteSet(MapPorts) /\ {443, HttpPort} \subseteq MapPorts
    /\ HttpChoices \subseteq HttpService /\ SniChoices \subseteq SniRule

VARIABLE topo    \* [reality, listen, services, sni]: what /api/stats/topology is made from

mapVars == <<topo>>

MapTypeOK ==
    /\ topo = [reality |-> topo.reality, listen |-> topo.listen,
               services |-> topo.services, sni |-> topo.sni]
    /\ topo.reality \in BOOLEAN /\ topo.listen \subseteq MapPorts
    /\ DOMAIN topo.services \subseteq Range(HttpNames)
    /\ topo.services \in [DOMAIN topo.services -> HttpService]
    /\ DOMAIN topo.sni \subseteq Range(SniNames)
    /\ topo.sni \in [DOMAIN topo.sni -> SniRule]

Without(f, n) == [m \in DOMAIN f \ {n} |-> f[m]]
With(f, n, v) == [m \in DOMAIN f \cup {n} |-> IF m = n THEN v ELSE f[m]]

ServiceNames(T) == Picked(HttpNames, {i \in DOMAIN HttpNames : HttpNames[i] \in DOMAIN T.services})
LiveRules(T) == {n \in DOMAIN T.sni : T.reality /\ ~T.sni[n].disabled}

(* derivePorts: the stream module owns the ports of live SNI rules; every   *)
(* other listener is https, and the port behind the SNI stage internal.    *)
SniPorts(T) == UNION {T.sni[n].ports : n \in LiveRules(T)}
ListenPort(s) == IF s.listen = 0 THEN 443 ELSE s.listen
HttpPorts(T) ==
    (T.listen \cup {ListenPort(T.services[n]) :
                    n \in {m \in DOMAIN T.services : ~T.services[m].disabled}})
    \ SniPorts(T)
PublicPorts(T) == SniPorts(T)
                    \cup (HttpPorts(T) \ (IF T.reality THEN {HttpPort} ELSE {}))

(***************************************************************************)
(* Boxes.                                                                  *)
(***************************************************************************)
Hop == <<"sni", "nginx-http">>
NoPort == <<"port", 0>>
NoRoute == <<"route", "none">>
NoBack == <<"back", "none">>

OrElse(s, placeholder) == IF s = <<>> THEN <<placeholder>> ELSE s

PortNodes(T) ==
    OrElse([k \in 1..Cardinality(PublicPorts(T)) |-> <<"port", Nth(PublicPorts(T), k)>>], NoPort)

SniNodes(T) == Picked(SniNames, {i \in DOMAIN SniNames : SniNames[i] \in LiveRules(T)})
SniOn(T) == SniNodes(T) # <<>>

(* One box per host and path: a second service on it adds none.            *)
Routes(T) ==
    LET names == ServiceNames(T) IN
    Picked(names, {i \in DOMAIN names : \A j \in 1..i-1 :
                      T.services[names[j]].host # T.services[names[i]].host})
RouteId(T, n) == <<"route", T.services[n].host>>
RouteNodes(T) ==
    IF SniNodes(T) = <<>> /\ Routes(T) = <<>>
      THEN <<NoRoute>>
      ELSE [i \in DOMAIN Routes(T) |-> RouteId(T, Routes(T)[i])]

(* The SNI stage ends with the box for nginx's own http block.             *)
StageNodes(T) ==
    IF SniOn(T)
      THEN [i \in DOMAIN SniNodes(T) |-> <<"sni", SniNodes(T)[i]>>] \o <<Hop>>
      ELSE <<>>

(* Two services with one target and port share a box; a passthrough has    *)
(* its own.                                                                *)
BackId(n, s) == IF s.pass THEN <<"back", <<"pass", n, s.port>>>>
                          ELSE <<"back", <<s.target, s.port>>>>
IsLocal(s) == ~s.pass /\ s.target = "127.0.0.1"
BackEntries(T) ==
    LET rules == SniNodes(T)
        names == ServiceNames(T)
    IN  [i \in DOMAIN rules |->
           LET r == T.sni[rules[i]] IN
           [id |-> BackId(rules[i], r), local |-> IsLocal(r), sni |-> TRUE]]
        \o
        [i \in DOMAIN names |->
           LET s == T.services[names[i]] IN
           [id |-> BackId(names[i], s), local |-> IsLocal(s), sni |-> FALSE]]
FirstOfEach(s) ==
    Picked(s, {i \in DOMAIN s : \A j \in 1..i-1 : s[j].id # s[i].id})
BackNodes(T) == OrElse(FirstOfEach(BackEntries(T)),
                       [id |-> NoBack, local |-> FALSE, sni |-> FALSE])

(***************************************************************************)
(* Lines: <<from, to, kind>>.                                              *)
(***************************************************************************)
Box(tag) == <<"box", tag>>
FirstStage(T) == IF SniOn(T) THEN Box("sni") ELSE Box("http")

(* Mutant: a port leads to every rule.                                      *)
SniTargetsAll(T, p) == Range(SniNodes(T))

SniTargets(T, p) ==
    {n \in Range(SniNodes(T)) : T.sni[n].ports = {} \/ p \in T.sni[n].ports}
CarriesHttp(T, p) ==
    \E n \in Range(Routes(T)) :
        /\ ~T.services[n].disabled
        /\ T.services[n].listen \in {0, p}

PortEdges(T, p) ==
    {<<<<"port", p>>, <<"sni", n>>, "sni">> : n \in SniTargets(T, p)}
    \cup (IF ~CarriesHttp(T, p) THEN {}
          ELSE IF SniOn(T) THEN {<<<<"port", p>>, Hop, "in-http">>}
          ELSE {<<<<"port", p>>, FirstStage(T), "http">>})
    \cup (IF SniTargets(T, p) = {} /\ ~CarriesHttp(T, p)
            THEN {<<<<"port", p>>, FirstStage(T), "https">>} ELSE {})

StageEdges(T) ==
    IF SniOn(T) THEN {<<Hop, Box("http"), "hop">>, <<Box("sni"), Hop, "sni-fan">>}
                ELSE {}
FanEdges(T) ==
    {<<Box("http"), RouteId(T, n), "http-fan">> :
        n \in {m \in Range(Routes(T)) : ~T.services[m].disabled}}
RuleEdges(T) ==
    {<<<<"sni", n>>, BackId(n, T.sni[n]), "sni">> : n \in Range(SniNodes(T))}
    \cup {<<RouteId(T, n), BackId(n, T.services[n]), "http">> : n \in Range(Routes(T))}

Edges(T) == (UNION {PortEdges(T, p) : p \in PublicPorts(T)})
              \cup StageEdges(T) \cup FanEdges(T) \cup RuleEdges(T)

(***************************************************************************)
(* Coordinates.                                                            *)
(***************************************************************************)
Px == 4
COL_W == 230 * Px
GAP_X == 118 * Px
BOX_H == 52 * Px
GAP_Y == 13 * Px
PAD == 18 * Px
LANE_OUT == 22 * Px
GROUP_PAD_X == 54 * Px
GROUP_PAD == 26 * Px
GROUP_HEAD == 22 * Px
GROUP_GAP == 56 * Px
REMOTE_GAP == 22 * Px

AtLeastZero(n) == IF n > 0 THEN n ELSE 0
Largest(S) == CHOOSE n \in S : \A m \in S : m <= n
StackH(n) == n * BOX_H + AtLeastZero(n - 1) * GAP_Y
Stack(ids, x, top) ==
    [i \in DOMAIN ids |-> [id |-> ids[i], x |-> x, y |-> top + (i - 1) * (BOX_H + GAP_Y),
                           w |-> COL_W, h |-> BOX_H]]
Ids(s) == [i \in DOMAIN s |-> s[i].id]

MidX == PAD + GROUP_PAD_X + COL_W + GAP_X
BackX == PAD + GROUP_PAD_X + 2 * (COL_W + GAP_X)
Width == PAD * 2 + GROUP_PAD_X * 2 + 3 * COL_W + 2 * GAP_X + 2 * Px

(* How high the containers are and where everything starts, from the numbers *)
(* of ports, of boxes in the two stages, and of backends: all, those on     *)
(* this server, and those of the SNI stage that are not.                    *)
Frame(sniOn, ports, stage, http, backs, locals, remotes) ==
    LET innerH == StackH(Largest({ports, stage + http, backs}))
        sniH == IF sniOn THEN GROUP_HEAD + GROUP_PAD * 2 + StackH(stage) ELSE 0
        httpH == GROUP_HEAD + GROUP_PAD * 2 + Largest({1, http}) * BOX_H
                   + AtLeastZero(http - 1) * GAP_Y
        midH == sniH + (IF sniOn THEN GROUP_GAP ELSE 0) + httpH
        wrapInnerH == Largest({innerH, midH, StackH(locals)})
        wrapTop == PAD + StackH(remotes) + (IF remotes > 0 THEN REMOTE_GAP ELSE 0)
        Centred(h) == wrapTop + GROUP_HEAD + GROUP_PAD + AtLeastZero((wrapInnerH - h) \div 2)
    IN  [wrapTop |-> wrapTop, wrapH |-> GROUP_HEAD + GROUP_PAD * 2 + wrapInnerH,
         portsTop |-> Centred(innerH), localTop |-> Centred(StackH(locals)),
         sniTop |-> Centred(midH), sniH |-> sniH,
         httpTop |-> Centred(midH) + (IF sniOn THEN sniH + GROUP_GAP ELSE 0), httpH |-> httpH]

(* Everything drawn, before it is mirrored: nodes, containers, height.     *)
Those(backs, which(_)) == Ids(Picked(backs, {i \in DOMAIN backs : which(backs[i])}))
Locals(backs) == Those(backs, LAMBDA b : b.local)
RemoteSNI(backs) == Those(backs, LAMBDA b : ~b.local /\ b.sni)
RemoteHTTP(backs) == Those(backs, LAMBDA b : ~b.local /\ ~b.sni)

Nodes(f, ports, stage, http, backs) ==
    Range(Stack(ports, PAD + GROUP_PAD_X, f.portsTop))
      \cup Range(Stack(stage, MidX, f.sniTop + GROUP_HEAD + GROUP_PAD))
      \cup Range(Stack(http, MidX, f.httpTop + GROUP_HEAD + GROUP_PAD))
      \cup Range(Stack(RemoteSNI(backs), BackX, PAD))
      \cup Range(Stack(Locals(backs), BackX, f.localTop))
      \cup Range(Stack(RemoteHTTP(backs), BackX, f.wrapTop + f.wrapH + REMOTE_GAP))

StageBox(tag, top, h) == [id |-> Box(tag), x |-> MidX - GROUP_PAD_X, y |-> top,
                          w |-> COL_W + GROUP_PAD_X * 2, h |-> h]
Containers(f, sniOn) ==
    (IF sniOn THEN {StageBox("sni", f.sniTop, f.sniH)} ELSE {})
      \cup {StageBox("http", f.httpTop, f.httpH),
            [id |-> Box("local"), x |-> PAD, y |-> f.wrapTop,
             w |-> BackX + COL_W + GROUP_PAD_X - PAD, h |-> f.wrapH]}

Layout(sniOn, ports, stage, http, backs) ==
    LET f == Frame(sniOn, Len(ports), Len(stage), Len(http), Len(backs),
                   Len(Locals(backs)), Len(RemoteSNI(backs)))
        nodes == Nodes(f, ports, stage, http, backs)
        boxes == Containers(f, sniOn)
    IN  [nodes |-> nodes, boxes |-> boxes,
         height |-> Largest({r.y + r.h : r \in nodes \cup boxes}) + PAD]

Placed(T) == Layout(SniOn(T), PortNodes(T), StageNodes(T), RouteNodes(T), BackNodes(T))

(* Right to left, every x is mirrored once and nothing else changes.       *)
Mirrored(r) == [r EXCEPT !.x = Width - r.x - r.w]
Turned(p, rtl) ==
    IF rtl THEN [p EXCEPT !.nodes = {Mirrored(r) : r \in @}, !.boxes = {Mirrored(r) : r \in @}]
           ELSE p
Picture(T, rtl) == Turned(Placed(T), rtl)

Find(p, id) == CHOOSE r \in p.nodes \cup p.boxes : r.id = id

(* The line from the Nginx-HTTP box to the HTTP stage: out of the output   *)
(* side, down a lane outside the wall, through the corridor between the    *)
(* stages, down a second lane, and in at the input side.                   *)
HopBetween(from, sni, to, rtl) ==
    LET out == IF rtl THEN -1 ELSE 1 IN
    [x1 |-> IF rtl THEN from.x ELSE from.x + from.w,
     y1 |-> from.y + from.h \div 2,
     lane |-> (IF rtl THEN sni.x ELSE sni.x + sni.w) + out * LANE_OUT,
     corridor |-> (sni.y + sni.h + to.y) \div 2,
     farLane |-> (IF rtl THEN to.x + to.w ELSE to.x) - out * LANE_OUT,
     y2 |-> to.y + to.h \div 2]
HopPath(p, rtl) == HopBetween(Find(p, Hop), Find(p, Box("sni")), Find(p, Box("http")), rtl)

(* Positioning the SNI container writes to sniBox2.y, which is null when    *)
(* there is no SNI stage: render throws and the shell shows the error.     *)
Throws(T) == ~SniOn(T)

(***************************************************************************)
(* The configuration, edited one thing at a time.                          *)
(***************************************************************************)
MapInit == topo = [reality |-> FALSE, listen |-> {443}, services |-> <<>>, sni |-> <<>>]

PutService(n) == \E s \in HttpChoices :
    topo' = [topo EXCEPT !.services = With(@, n, s)]
DropService(n) ==
    /\ n \in DOMAIN topo.services
    /\ topo' = [topo EXCEPT !.services = Without(@, n)]
PutRule(n) == \E r \in SniChoices :
    topo' = [topo EXCEPT !.sni = With(@, n, r)]
DropRule(n) ==
    /\ n \in DOMAIN topo.sni
    /\ topo' = [topo EXCEPT !.sni = Without(@, n)]
SwitchReality == topo' = [topo EXCEPT !.reality = ~@]

MapNext ==
    \/ \E n \in Range(HttpNames) : PutService(n) \/ DropService(n)
    \/ \E n \in Range(SniNames) : PutRule(n) \/ DropRule(n)
    \/ SwitchReality

MapSpec == MapInit /\ [][MapNext]_mapVars

(***************************************************************************)
(* Properties.                                                             *)
(***************************************************************************)
Drawn == ~Throws(topo)

Follow(E, S) == S \cup {e[2] : e \in {d \in E : d[1] \in S}}
(* A line's way is at most port, Nginx-HTTP, HTTP stage, route, backend.    *)
ReachedFrom(E, id) == Follow(E, Follow(E, Follow(E, Follow(E, {id}))))

(* Every line joins two things that are drawn (an edge whose end is not    *)
(* found is dropped in silence, map.js:927), and every port has one.        *)
MeetBoxes(E, ids) ==
    /\ \A e \in E : e[1] \in ids /\ e[2] \in ids
    /\ \A q \in PublicPorts(topo) : \E e \in E : e[1] = <<"port", q>>
LinesMeetBoxes ==
    Drawn => \E p \in {Placed(topo)} :
                MeetBoxes(Edges(topo), {r.id : r \in p.nodes \cup p.boxes})

(* Following the lines from a port leads to the backend of every SNI rule  *)
(* that names the port, or none, and of no rule that only names others,    *)
(* unless the two share the backend; and every live service is reached     *)
(* from the port it listens on, if its host and path have no earlier owner *)
(* and the port is a public one.                                           *)
Takes(T, n, q) == T.sni[n].ports = {} \/ q \in T.sni[n].ports
SharedBack(n, q) ==
    \/ \E m \in LiveRules(topo) : Takes(topo, m, q)
                                  /\ BackId(m, topo.sni[m]) = BackId(n, topo.sni[n])
    \/ \E m \in DOMAIN topo.services : BackId(m, topo.services[m]) = BackId(n, topo.sni[n])
LinesTellTheRouting ==
    Drawn => \E Reached \in {[q \in PublicPorts(topo) |->
                                 ReachedFrom(Edges(topo), <<"port", q>>)]} :
      /\ \A q \in PublicPorts(topo), n \in LiveRules(topo) :
            IF Takes(topo, n, q) THEN BackId(n, topo.sni[n]) \in Reached[q]
            ELSE BackId(n, topo.sni[n]) \in Reached[q] => SharedBack(n, q)
      /\ \A n \in Range(Routes(topo)) :
            LET s == topo.services[n] IN
            ~s.disabled /\ ListenPort(s) \in PublicPorts(topo)
              => BackId(n, s) \in Reached[ListenPort(s)]

Apart(a, b) == \/ a.x + a.w <= b.x \/ b.x + b.w <= a.x
               \/ a.y + a.h <= b.y \/ b.y + b.h <= a.y
Within(a, b) == /\ b.x <= a.x /\ a.x + a.w <= b.x + b.w
                /\ b.y <= a.y /\ a.y + a.h <= b.y + b.h
ViewBox(p) == [x |-> 0, y |-> 0, w |-> Width, h |-> p.height]

(* In both directions of writing: no two boxes overlap, nothing is cut off *)
(* by the view box, and a box is inside LocalHost exactly when it is on    *)
(* this server.                                                            *)
Uncovered(p, remote) ==
    /\ \A a, b \in p.nodes : a.id # b.id => Apart(a, b)
    /\ \A a \in p.nodes \cup p.boxes : Within(a, ViewBox(p))
    /\ Apart(Find(p, Box("sni")), Find(p, Box("http")))
    /\ \A a \in p.nodes : IF a.id \in remote THEN Apart(a, Find(p, Box("local")))
                                              ELSE Within(a, Find(p, Box("local")))
NothingOverlapsOrIsCut ==
    Drawn => \A p \in {Picture(topo, rtl) : rtl \in BOOLEAN} :
                Uncovered(p, {b.id : b \in {c \in Range(BackNodes(topo)) : ~c.local}})

(* The hop's lanes and its corridor run in the open: outside both stages,  *)
(* clear of every box, and inside the view box.                            *)
Least(a, b) == IF a < b THEN a ELSE b
Segments(h) ==
    LET Vertical(x, y1, y2) == [x |-> x, y |-> Least(y1, y2), w |-> 1,
                                h |-> AtLeastZero(y2 - y1) + AtLeastZero(y1 - y2)]
    IN  {Vertical(h.lane, h.y1, h.corridor), Vertical(h.farLane, h.corridor, h.y2),
         [x |-> Least(h.lane, h.farLane), y |-> h.corridor, h |-> 1,
          w |-> AtLeastZero(h.farLane - h.lane) + AtLeastZero(h.lane - h.farLane)]}
HopRunsInTheOpen ==
    Drawn => \A rtl \in BOOLEAN : \E p \in {Picture(topo, rtl)} :
      \A s \in Segments(HopPath(p, rtl)) :
         /\ \A a \in p.nodes \cup {Find(p, Box("sni")), Find(p, Box("http"))} : Apart(s, a)
         /\ Within(s, ViewBox(p))

(* The drawing tells the routing and nothing in it is lost, covered or cut. *)
DrawingTellsTheRouting ==
    /\ LinesTellTheRouting /\ LinesMeetBoxes
    /\ NothingOverlapsOrIsCut /\ HopRunsInTheOpen

=============================================================================
