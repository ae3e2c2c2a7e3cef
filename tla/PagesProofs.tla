------------------------------ MODULE PagesProofs ------------------------------
(***************************************************************************)
(* Proofs about the panel's pages that are instances in PanelPages, and    *)
(* about what PanelPages says of all pages together.                       *)
(***************************************************************************)
EXTENDS PanelPages, PanelProofs, TopologyMapProofs

-------------------------------------------------------------------------------
(***************************************************************************)
(* The traffic breakdown, for any ranges and dimensions.                   *)
(*                                                                         *)
(* A chart request goes out under a row of the tab that is highlighted,    *)
(* and whatever changes the tab draws new rows: a row that is still there  *)
(* is of the highlighted tab.                                              *)
(***************************************************************************)
LiveRowsAreActive == \A q \in series : q.here => q.dim = active
BreakdownIInv ==
    Breakdown!TypeOK /\ Breakdown!RowsAreOfTheActiveTab /\ LiveRowsAreActive

LEMMA BreakdownInitially == BreakdownAssumption /\ Breakdown!Init => BreakdownIInv
  BY DEF BreakdownAssumption, BreakdownIInv, LiveRowsAreActive, Breakdown!Init, Breakdown!TypeOK,
         Breakdown!RowsAreOfTheActiveTab, Breakdown!NoRange, Breakdown!ErrorText, Breakdown!NoChart

LEMMA Repainted ==
    ASSUME BreakdownAssumption, BreakdownIInv, NEW what, NEW d \in Dims,
           Breakdown!Repaint(what, d), active' = d
    PROVE  /\ series' \subseteq [range : Ranges, dim : Dims, here : BOOLEAN]
           /\ body' = <<what, d>> /\ chart' = Breakdown!NoChart /\ LiveRowsAreActive'
  <1>1. \A q \in series : [q EXCEPT !.here = FALSE] \in [range : Ranges, dim : Dims, here : BOOLEAN]
                          /\ [q EXCEPT !.here = FALSE].here = FALSE
    BY DEF BreakdownIInv, Breakdown!TypeOK
  <1> QED BY <1>1 DEF Breakdown!Repaint, LiveRowsAreActive

LEMMA BreakdownInductive ==
    ASSUME BreakdownAssumption, BreakdownIInv, [Breakdown!Next]_(Breakdown!breakdownVars)
    PROVE  BreakdownIInv'
  <1> USE DEF BreakdownIInv
  <1>1. CASE UNCHANGED Breakdown!breakdownVars
    BY <1>1 DEF Breakdown!breakdownVars, Breakdown!TypeOK, Breakdown!RowsAreOfTheActiveTab,
                LiveRowsAreActive, Breakdown!NoChart, Breakdown!ErrorText
  <1>2. ASSUME NEW d \in Dims, Breakdown!PickDim(d) PROVE BreakdownIInv'
    <2>1. /\ active' = d /\ body' = <<cache, d>> /\ chart' = Breakdown!NoChart
          /\ UNCHANGED <<range, cache, dimLoads>>
          /\ series' \subseteq [range : Ranges, dim : Dims, here : BOOLEAN] /\ LiveRowsAreActive'
      BY <1>2, Repainted DEF Breakdown!PickDim
    <2> QED BY <2>1 DEF Breakdown!TypeOK, Breakdown!RowsAreOfTheActiveTab, Breakdown!NoChart,
                        Breakdown!ErrorText
  <1>3. ASSUME NEW m \in Ranges, Breakdown!PickRange(m) PROVE BreakdownIInv'
    BY <1>3 DEF Breakdown!PickRange, Breakdown!TypeOK, Breakdown!RowsAreOfTheActiveTab,
                LiveRowsAreActive, Breakdown!NoChart, Breakdown!ErrorText
  <1>4. ASSUME NEW m \in Ranges, Breakdown!DimLoaded(m) PROVE BreakdownIInv'
    <2>1. active \in Dims /\ active' = active /\ UNCHANGED range /\ dimLoads' \subseteq Ranges
      BY <1>4 DEF Breakdown!DimLoaded, Breakdown!TypeOK
    <2>2. CASE cache' = m /\ Breakdown!Repaint(m, active)
      <3>1. /\ body' = <<m, active>> /\ chart' = Breakdown!NoChart /\ LiveRowsAreActive'
            /\ series' \subseteq [range : Ranges, dim : Dims, here : BOOLEAN]
        BY <2>1, <2>2, Repainted
      <3> QED BY <2>1, <2>2, <3>1 DEF Breakdown!TypeOK, Breakdown!RowsAreOfTheActiveTab,
                                      Breakdown!NoChart, Breakdown!ErrorText
    <2>3. CASE Breakdown!Repaint(Breakdown!ErrorText, active) /\ UNCHANGED cache
      <3>1. /\ body' = <<Breakdown!ErrorText, active>> /\ chart' = Breakdown!NoChart
            /\ LiveRowsAreActive' /\ series' \subseteq [range : Ranges, dim : Dims, here : BOOLEAN]
        BY <2>1, <2>3, Repainted
      <3> QED BY <2>1, <2>3, <3>1 DEF Breakdown!TypeOK, Breakdown!RowsAreOfTheActiveTab,
                                      Breakdown!NoChart, Breakdown!ErrorText
    <2> QED BY <1>4, <2>2, <2>3 DEF Breakdown!DimLoaded
  <1>5. CASE Breakdown!Expand
    <2> DEFINE q == [range |-> range, dim |-> active, here |-> TRUE]
    <2>1. /\ UNCHANGED <<range, active, cache, body, chart, dimLoads>>
          /\ series' = series \cup {q}
      BY <1>5 DEF Breakdown!Expand
    <2>2. q \in [range : Ranges, dim : Dims, here : BOOLEAN] /\ q.dim = active
      BY DEF Breakdown!TypeOK
    <2> HIDE DEF q
    <2> QED BY <2>1, <2>2 DEF Breakdown!TypeOK, Breakdown!RowsAreOfTheActiveTab,
                              LiveRowsAreActive, Breakdown!NoChart, Breakdown!ErrorText
  <1>6. ASSUME NEW q \in series, Breakdown!SeriesAnswered(q) PROVE BreakdownIInv'
    <2>1. /\ UNCHANGED <<range, active, cache, body, dimLoads>> /\ series' \subseteq series
          /\ chart' = chart \/ (q.here /\ chart' = <<q.range, q.dim>>)
      BY <1>6 DEF Breakdown!SeriesAnswered
    <2>2. q.range \in Ranges /\ q.dim \in Dims /\ (q.here => q.dim = active)
      BY DEF Breakdown!TypeOK, LiveRowsAreActive
    <2> QED BY <2>1, <2>2 DEF Breakdown!TypeOK, Breakdown!RowsAreOfTheActiveTab,
                              LiveRowsAreActive, Breakdown!NoChart, Breakdown!ErrorText
  <1> QED BY <1>1, <1>2, <1>3, <1>4, <1>5, <1>6 DEF Breakdown!Next

LEMMA BreakdownInvariance == BreakdownAssumption => (Breakdown!Spec => []BreakdownIInv)
  <1> SUFFICES ASSUME BreakdownAssumption PROVE Breakdown!Spec => []BreakdownIInv
    OBVIOUS
  <1>1. BreakdownIInv /\ [Breakdown!Next]_(Breakdown!breakdownVars) => BreakdownIInv'
    BY BreakdownInductive
  <1> QED BY <1>1, BreakdownInitially, PTL DEF Breakdown!Spec

(* The types of the breakdown's variables.                                 *)
THEOREM BreakdownTypeCorrect == BreakdownAssumption => (Breakdown!Spec => []Breakdown!TypeOK)
  <1> SUFFICES ASSUME BreakdownAssumption PROVE Breakdown!Spec => []Breakdown!TypeOK
    OBVIOUS
  <1>1. BreakdownIInv => Breakdown!TypeOK
    BY DEF BreakdownIInv
  <1> QED BY <1>1, BreakdownInvariance, PTL

(* The rows and the chart under one are of the tab that is highlighted,    *)
(* whatever was clicked while their answers were on the way (stats.js).    *)
THEOREM RowsFollowTheTab ==
    BreakdownAssumption => (Breakdown!Spec => []Breakdown!RowsAreOfTheActiveTab)
  <1> SUFFICES ASSUME BreakdownAssumption
               PROVE  Breakdown!Spec => []Breakdown!RowsAreOfTheActiveTab
    OBVIOUS
  <1>1. BreakdownIInv => Breakdown!RowsAreOfTheActiveTab
    BY DEF BreakdownIInv
  <1> QED BY <1>1, BreakdownInvariance, PTL

-------------------------------------------------------------------------------
(***************************************************************************)
(* The charts of the Stats tab, for any ranges.                            *)
(***************************************************************************)
LEMMA PollTyped ==
    ASSUME NEW m \in Ranges
    PROVE  /\ Stats!Poll(m) \in [stage : {"bans", "resources"}, for : Ranges]
           /\ [stage |-> "resources", for |-> m] \in [stage : {"bans", "resources"}, for : Ranges]
  BY DEF Stats!Poll

LEMMA StatsInductive ==
    ASSUME Stats!TypeOK, [Stats!Next]_(Stats!statsVars)
    PROVE  Stats!TypeOK'
  <1> USE DEF Stats!TypeOK, Stats!Shown
  <1>1. CASE UNCHANGED Stats!statsVars
    BY <1>1 DEF Stats!statsVars
  <1>2. ASSUME NEW m \in Ranges, Stats!PickRange(m) PROVE Stats!TypeOK'
    BY <1>2, PollTyped DEF Stats!PickRange
  <1>3. ASSUME NEW m \in Ranges, Stats!Loaded(m) PROVE Stats!TypeOK'
    BY <1>3 DEF Stats!Loaded, Stats!pollVars
  <1>4. CASE Stats!LiveTick
    BY <1>4, PollTyped DEF Stats!LiveTick, Stats!trafficVars
  <1>5. ASSUME NEW m \in Ranges, NEW ok \in BOOLEAN, Stats!Bans(m, ok) PROVE Stats!TypeOK'
    <2>1. /\ UNCHANGED <<mins, resChart, traffic, loads>>
          /\ banChart' = (IF ok THEN Stats!Poll(m).for ELSE banChart)
          /\ polls' = (polls \ {Stats!Poll(m)}) \cup {[stage |-> "resources", for |-> mins]}
      BY <1>5 DEF Stats!Bans, Stats!BansAnswered, Stats!ForResources, Stats!trafficVars
    <2>2. Stats!Poll(m).for = m
      BY DEF Stats!Poll
    <2> QED BY <2>1, <2>2, PollTyped
  <1>6. ASSUME NEW m \in Ranges, NEW ok \in BOOLEAN, Stats!Resources(m, ok) PROVE Stats!TypeOK'
    BY <1>6 DEF Stats!Resources, Stats!ResourcesAnswered, Stats!trafficVars
  <1> QED BY <1>1, <1>2, <1>3, <1>4, <1>5, <1>6 DEF Stats!Next

(* The types of the charts' variables.                                     *)
THEOREM StatsTypeCorrect == StatsAssumption => (Stats!Spec => []Stats!TypeOK)
  <1> SUFFICES ASSUME StatsAssumption PROVE Stats!Spec => []Stats!TypeOK
    OBVIOUS
  <1>1. Stats!Init => Stats!TypeOK
    BY PollTyped DEF StatsAssumption, Stats!Init, Stats!TypeOK, Stats!Shown
  <1>2. Stats!TypeOK /\ [Stats!Next]_(Stats!statsVars) => Stats!TypeOK'
    BY StatsInductive
  <1> QED BY <1>1, <1>2, PTL DEF Stats!Spec

-------------------------------------------------------------------------------
(***************************************************************************)
(* The Services page, for any services and any number of saves at a time.  *)
(*                                                                         *)
(* A save that added no port carries the fields it was clicked with, and   *)
(* a save never carries a switch.  The dialog element, once it was filled, *)
(* is there for every handler that comes back to it.                       *)
(***************************************************************************)
SavesAreOwn ==
    \A s \in saves : /\ s.stage = "port" => s.port
                     /\ ~s.port => s.fields = s.name
DialogIsThere ==
    /\ saves # {} => dom \in Services!Form
    /\ \A q \in toggles : q.from = "dialog" => dom \in Services!Form
ServicesIInv == Services!TypeOK /\ SavesAreOwn /\ DialogIsThere

(* Drawing the list, and what a save and a switch request are.             *)
LEMMA ListDrawn ==
    ASSUME NEW L \in [Names -> BOOLEAN]
    PROVE  Services!Drawn(L) \in [Names -> Services!Switch]
  BY DEF Services!Drawn, Services!Switch

LEMMA DetachedTyped ==
    ASSUME NEW Q \in SUBSET Services!Toggle, NEW from
    PROVE  /\ Services!Detached(Q, from) \subseteq Services!Toggle
           /\ \A q \in Services!Detached(Q, from) : \E r \in Q : q.from = r.from
  <1> DEFINE d(q) == [q EXCEPT !.held = q.held /\ q.from # from]
  <1>1. \A q \in Q : d(q) \in Services!Toggle /\ d(q).from = q.from
    BY DEF Services!Toggle
  <1>2. Services!Detached(Q, from) = {d(q) : q \in Q}
    BY DEF Services!Detached
  <1> HIDE DEF d
  <1> QED BY <1>1, <1>2

LEMMA ServicesInitially == Services!Init => ServicesIInv
  <1> SUFFICES ASSUME Services!Init PROVE ServicesIInv
    OBVIOUS
  <1>1. records \in [Names -> Services!Record]
    BY DEF Services!Init, Services!Record
  <1>2. listed \in [Names -> BOOLEAN]
    BY <1>1 DEF Services!Init, Services!SwitchesOf, Services!Record
  <1>3. switch \in [Names -> Services!Switch]
    BY <1>2, ListDrawn DEF Services!Init
  <1> QED
    BY <1>1, <1>2, <1>3 DEF Services!Init, ServicesIInv, SavesAreOwn, DialogIsThere, Services!TypeOK

(* A filled dialog has more fields than an empty one.                      *)
LEMMA FormIsNoNoForm == \A f \in Services!Form : f # Services!NoForm
  <1>1. \A f \in Services!Form : DOMAIN f = {"name", "on", "busy"}
    BY DEF Services!Form
  <1>2. DOMAIN Services!NoForm = {"name"}
    BY DEF Services!NoForm
  <1>3. {"name", "on", "busy"} # {"name"}
    OBVIOUS
  <1> QED BY <1>1, <1>2, <1>3

(* A button that is given back.                                            *)
LEMMA SwitchReturned ==
    ASSUME ServicesIInv, NEW q \in Services!Toggle, NEW on \in BOOLEAN
    PROVE  /\ Services!SyncRowToggle(q.name, on) \in [Names -> Services!Switch]
           /\ Services!RowGetsBack(q, on) \in [Names -> Services!Switch]
  <1>1. Services!ApplyToggleState(on) \in Services!Switch
    BY DEF Services!ApplyToggleState, Services!Switch
  <1>2. switch \in [Names -> Services!Switch] /\ q.name \in Names
    BY DEF ServicesIInv, Services!TypeOK, Services!Toggle
  <1>3. Services!SyncRowToggle(q.name, on) \in [Names -> Services!Switch]
    BY <1>1, <1>2 DEF Services!SyncRowToggle
  <1> QED BY <1>2, <1>3 DEF Services!RowGetsBack

LEMMA FormReturned ==
    ASSUME dom \in Services!Form, NEW q \in Services!Toggle, NEW on \in BOOLEAN
    PROVE  Services!DialogGetsBack(q, on) \in Services!Form
  BY DEF Services!DialogGetsBack, Services!Form

(* The actions that touch only the list, the dialog and the switch requests. *)
LEMMA ListKeeps ==
    ASSUME ServicesIInv, Services!ListAnswered \/ Services!Redraw
    PROVE  ServicesIInv'
  <1>1. /\ records \in [Names -> Services!Record] /\ listed \in [Names -> BOOLEAN]
        /\ toggles \subseteq Services!Toggle
    BY DEF ServicesIInv, Services!TypeOK
  <1>2. Services!SwitchesOf(records) \in [Names -> BOOLEAN]
    BY <1>1 DEF Services!SwitchesOf, Services!Record
  <1>3. /\ listed' \in [Names -> BOOLEAN] /\ switch' = Services!Drawn(listed') /\ asked' \in BOOLEAN
        /\ toggles' = Services!Detached(toggles, "row") /\ UNCHANGED <<records, dom, open, saves>>
    BY <1>1, <1>2 DEF Services!ListAnswered, Services!Redraw, ServicesIInv, Services!TypeOK
  <1>4. switch' \in [Names -> Services!Switch]
    BY <1>3, ListDrawn
  <1>5. /\ toggles' \subseteq Services!Toggle
        /\ \A q \in toggles' : \E r \in toggles : q.from = r.from
    BY <1>1, <1>3, DetachedTyped
  <1>6. Services!TypeOK'
    BY <1>3, <1>4, <1>5 DEF ServicesIInv, Services!TypeOK
  <1>7. SavesAreOwn'
    BY <1>3 DEF ServicesIInv, SavesAreOwn
  <1>8. DialogIsThere'
    BY <1>3, <1>5 DEF ServicesIInv, DialogIsThere
  <1> QED BY <1>6, <1>7, <1>8 DEF ServicesIInv

LEMMA DialogKeeps ==
    ASSUME ServicesIInv, NEW n \in Names, Services!ClickSwitch(n) \/ Services!OpenDialog(n)
    PROVE  ServicesIInv'
  <1>1. CASE Services!ClickSwitch(n)
    <2> DEFINE q == [name |-> n, want |-> ~switch[n].on, from |-> "row", held |-> TRUE]
    <2>1. /\ switch' = [switch EXCEPT ![n] = [switch[n] EXCEPT !.busy = TRUE]]
          /\ toggles' = toggles \cup {q}
          /\ UNCHANGED <<records, listed, dom, open, saves, asked>>
      BY <1>1 DEF Services!ClickSwitch
    <2>2. switch[n] \in Services!Switch
      BY DEF ServicesIInv, Services!TypeOK
    <2>3. [switch[n] EXCEPT !.busy = TRUE] \in Services!Switch
          /\ q \in Services!Toggle /\ q.from = "row"
      BY <2>2 DEF Services!Switch, Services!Toggle
    <2> HIDE DEF q
    <2>4. switch' \in [Names -> Services!Switch]
      BY <2>1, <2>3 DEF ServicesIInv, Services!TypeOK
    <2>5. Services!TypeOK'
      BY <2>1, <2>3, <2>4 DEF ServicesIInv, Services!TypeOK
    <2>6. SavesAreOwn' /\ DialogIsThere'
      BY <2>1, <2>3 DEF ServicesIInv, SavesAreOwn, DialogIsThere
    <2> QED BY <2>5, <2>6 DEF ServicesIInv
  <1>2. CASE Services!OpenDialog(n)
    <2>1. /\ dom' = Services!FormOf(n) /\ open' = TRUE
          /\ toggles' = Services!Detached(toggles, "dialog")
          /\ UNCHANGED <<records, listed, switch, saves, asked>>
      BY <1>2 DEF Services!OpenDialog
    <2>2. dom' \in Services!Form
      BY <2>1 DEF Services!FormOf, Services!Form, ServicesIInv, Services!TypeOK
    <2>3. dom' # Services!NoForm
      BY <2>2, FormIsNoNoForm
    <2>4. toggles' \subseteq Services!Toggle
      BY <2>1, DetachedTyped DEF ServicesIInv, Services!TypeOK
    <2>5. Services!TypeOK'
      BY <2>1, <2>2, <2>3, <2>4 DEF ServicesIInv, Services!TypeOK
    <2>6. SavesAreOwn' /\ DialogIsThere'
      BY <2>1, <2>2 DEF ServicesIInv, SavesAreOwn, DialogIsThere
    <2> QED BY <2>5, <2>6 DEF ServicesIInv
  <1> QED BY <1>1, <1>2

(* A shown dialog is a form of some service.                               *)
LEMMA OpenIsForm ==
    ASSUME ServicesIInv, open
    PROVE  dom \in Services!Form /\ dom.name \in Names /\ dom.on \in BOOLEAN
  <1>1. dom \in Services!Form
    BY DEF ServicesIInv, Services!TypeOK
  <1> QED BY <1>1 DEF Services!Form

LEMMA OpenDialogKeeps ==
    ASSUME ServicesIInv,
           \/ Services!Dismiss \/ Services!ClickDialogSwitch
           \/ \E new \in BOOLEAN : Services!ClickSave(new)
    PROVE  ServicesIInv'
  <1>1. CASE Services!Dismiss
    BY <1>1 DEF Services!Dismiss, ServicesIInv, Services!TypeOK, SavesAreOwn, DialogIsThere
  <1>2. CASE Services!ClickDialogSwitch
    <2> DEFINE q == [name |-> dom.name, want |-> ~dom.on, from |-> "dialog", held |-> TRUE]
    <2>1. /\ open /\ dom' = [dom EXCEPT !.busy = TRUE] /\ toggles' = toggles \cup {q}
          /\ UNCHANGED <<records, listed, switch, open, saves, asked>>
      BY <1>2 DEF Services!ClickDialogSwitch
    <2>2. dom' \in Services!Form /\ q \in Services!Toggle
      BY <2>1, OpenIsForm DEF Services!Form, Services!Toggle
    <2>3. dom' # Services!NoForm
      BY <2>2, FormIsNoNoForm
    <2> HIDE DEF q
    <2>4. Services!TypeOK'
      BY <2>1, <2>2, <2>3 DEF ServicesIInv, Services!TypeOK
    <2>5. SavesAreOwn' /\ DialogIsThere'
      BY <2>1, <2>2 DEF ServicesIInv, SavesAreOwn, DialogIsThere
    <2> QED BY <2>4, <2>5 DEF ServicesIInv
  <1>3. ASSUME NEW new \in BOOLEAN, Services!ClickSave(new) PROVE ServicesIInv'
    <2> DEFINE s == [name |-> dom.name, fields |-> dom.name, port |-> new,
                     stage |-> IF new THEN "port" ELSE "service"]
    <2>1. /\ open /\ saves' = saves \cup {s}
          /\ UNCHANGED <<records, listed, switch, dom, open, toggles, asked>>
      BY <1>3 DEF Services!ClickSave
    <2>2. dom \in Services!Form /\ dom.name \in Names
      BY <2>1, OpenIsForm
    <2>3. s \in Services!Save /\ (s.stage = "port" => s.port) /\ s.fields = s.name
      BY <2>2 DEF Services!Save
    <2> HIDE DEF s
    <2>4. Services!TypeOK'
      BY <2>1, <2>3 DEF ServicesIInv, Services!TypeOK
    <2>5. SavesAreOwn' /\ DialogIsThere'
      BY <2>1, <2>2, <2>3 DEF ServicesIInv, SavesAreOwn, DialogIsThere
    <2> QED BY <2>4, <2>5 DEF ServicesIInv
  <1> QED BY <1>1, <1>2, <1>3

LEMMA ToggleKeeps ==
    ASSUME ServicesIInv, NEW q \in toggles, Services!Toggled(q) \/ Services!ToggleFailed(q)
    PROVE  ServicesIInv'
  <1>1. /\ q \in Services!Toggle /\ q.want \in BOOLEAN /\ q.name \in Names
        /\ q.from # "row" => q.from = "dialog"
    BY DEF ServicesIInv, Services!TypeOK, Services!Toggle
  <1>2. /\ toggles' \subseteq toggles /\ UNCHANGED <<listed, open, saves>>
        /\ asked' \in BOOLEAN
    BY DEF Services!Toggled, Services!ToggleFailed, Services!Navigate, ServicesIInv, Services!TypeOK
  <1>3. records' \in [Names -> Services!Record]
    <2>1. CASE Services!Toggled(q)
      <3>1. records' = [records EXCEPT ![q.name] = [records[q.name] EXCEPT !.on = q.want]]
        BY <2>1 DEF Services!Toggled
      <3>2. records[q.name] \in Services!Record /\ records \in [Names -> Services!Record]
        BY <1>1 DEF ServicesIInv, Services!TypeOK
      <3>3. [records[q.name] EXCEPT !.on = q.want] \in Services!Record
        BY <1>1, <3>2 DEF Services!Record
      <3> QED BY <3>1, <3>2, <3>3
    <2>2. CASE Services!ToggleFailed(q)
      BY <2>2 DEF Services!ToggleFailed, ServicesIInv, Services!TypeOK
    <2> QED BY <2>1, <2>2
  <1>4. switch' \in [Names -> Services!Switch]
    <2>1. \A on \in BOOLEAN : /\ Services!SyncRowToggle(q.name, on) \in [Names -> Services!Switch]
                              /\ Services!RowGetsBack(q, on) \in [Names -> Services!Switch]
      BY <1>1, SwitchReturned
    <2>2. switch \in [Names -> Services!Switch]
      BY DEF ServicesIInv, Services!TypeOK
    <2>3. CASE Services!Toggled(q)
      BY <1>1, <2>1, <2>3 DEF Services!Toggled
    <2>4. CASE Services!ToggleFailed(q)
      <3>1. switch' = Services!RowGetsBack(q, ~q.want) \/ switch' = switch
        BY <2>4 DEF Services!ToggleFailed
      <3> QED BY <1>1, <2>1, <2>2, <3>1
    <2> QED BY <2>3, <2>4
  <1>5. dom' = dom \/ dom' \in Services!Form
    <2>1. CASE q.from = "row"
      BY <2>1 DEF Services!Toggled, Services!ToggleFailed
    <2>2. CASE q.from = "dialog"
      <3>1. dom \in Services!Form
        BY <2>2 DEF ServicesIInv, DialogIsThere
      <3>2. /\ Services!DialogGetsBack(q, q.want) \in Services!Form
            /\ Services!DialogGetsBack(q, ~q.want) \in Services!Form
        BY <1>1, <3>1, FormReturned
      <3> QED BY <2>2, <3>2 DEF Services!Toggled, Services!ToggleFailed
    <2> QED BY <1>1, <2>1, <2>2
  <1>6. Services!TypeOK'
    BY <1>2, <1>3, <1>4, <1>5, FormIsNoNoForm DEF ServicesIInv, Services!TypeOK
  <1>7. SavesAreOwn' /\ DialogIsThere'
    BY <1>2, <1>5 DEF ServicesIInv, SavesAreOwn, DialogIsThere
  <1> QED BY <1>6, <1>7 DEF ServicesIInv

LEMMA SaveKeeps ==
    ASSUME ServicesIInv, NEW s \in saves,
           \/ Services!PortAdded(s) \/ Services!ServicePut(s)
           \/ Services!BindingsPut(s) \/ Services!SaveFailed(s)
    PROVE  ServicesIInv'
  <1>1. /\ s \in Services!Save /\ s.name \in Names /\ s.fields \in Names
        /\ dom \in Services!Form /\ dom.name \in Names
    <2>1. dom \in Services!Form
      BY DEF ServicesIInv, DialogIsThere
    <2> QED BY <2>1 DEF ServicesIInv, Services!TypeOK, Services!Save, Services!Form
  <1>2. CASE Services!PortAdded(s)
    <2> DEFINE t == [s EXCEPT !.stage = "service", !.fields = dom.name]
    <2>1. /\ s.stage = "port" /\ saves' = (saves \ {s}) \cup {t}
          /\ UNCHANGED <<records, listed, switch, dom, open, toggles, asked>>
      BY <1>2 DEF Services!PortAdded, Services!Advance
    <2>2. t \in Services!Save /\ t.port = s.port /\ t.stage = "service"
      BY <1>1 DEF Services!Save
    <2> HIDE DEF t
    <2>3. s.port
      BY <2>1 DEF ServicesIInv, SavesAreOwn
    <2>4. Services!TypeOK'
      BY <2>1, <2>2 DEF ServicesIInv, Services!TypeOK
    <2>5. SavesAreOwn' /\ DialogIsThere'
      BY <1>1, <2>1, <2>2, <2>3 DEF ServicesIInv, SavesAreOwn, DialogIsThere
    <2> QED BY <2>4, <2>5 DEF ServicesIInv
  <1>3. CASE Services!ServicePut(s)
    <2> DEFINE t == [s EXCEPT !.stage = "bindings", !.fields = s.fields]
    <2>1. /\ saves' = (saves \ {s}) \cup {t}
          /\ records' = [records EXCEPT ![s.name] = Services!Merged(records[s.name], s.fields)]
          /\ UNCHANGED <<listed, switch, dom, open, toggles, asked>>
      BY <1>3 DEF Services!ServicePut, Services!Advance
    <2>2. /\ t \in Services!Save /\ t.port = s.port /\ t.stage = "bindings"
          /\ t.fields = s.fields /\ t.name = s.name
      BY <1>1 DEF Services!Save
    <2> HIDE DEF t
    <2>3. records[s.name] \in Services!Record /\ records \in [Names -> Services!Record]
      BY <1>1 DEF ServicesIInv, Services!TypeOK
    <2>4. Services!Merged(records[s.name], s.fields) \in Services!Record
      BY <1>1, <2>3 DEF Services!Record, Services!Merged
    <2>5. records' \in [Names -> Services!Record]
      BY <1>1, <2>1, <2>3, <2>4
    <2>6. Services!TypeOK'
      BY <2>1, <2>2, <2>5 DEF ServicesIInv, Services!TypeOK
    <2>7. SavesAreOwn' /\ DialogIsThere'
      BY <1>1, <2>1, <2>2 DEF ServicesIInv, SavesAreOwn, DialogIsThere
    <2> QED BY <2>6, <2>7 DEF ServicesIInv
  <1>4. CASE Services!BindingsPut(s)
    BY <1>1, <1>4 DEF Services!BindingsPut, Services!Navigate, ServicesIInv, Services!TypeOK,
                      SavesAreOwn, DialogIsThere
  <1>5. CASE Services!SaveFailed(s)
    BY <1>1, <1>5 DEF Services!SaveFailed, ServicesIInv, Services!TypeOK,
                      SavesAreOwn, DialogIsThere
  <1> QED BY <1>2, <1>3, <1>4, <1>5

LEMMA ServicesInductive ==
    ASSUME ServicesIInv, [Services!Next]_(Services!svcVars)
    PROVE  ServicesIInv'
  <1>1. CASE UNCHANGED Services!svcVars
    BY <1>1 DEF Services!svcVars, ServicesIInv, Services!TypeOK, SavesAreOwn, DialogIsThere
  <1>2. CASE Services!Next
    BY <1>2, ListKeeps, DialogKeeps, OpenDialogKeeps, ToggleKeeps, SaveKeeps
       DEF Services!Next, Services!ToggleAnswered, Services!SaveAnswered
  <1> QED BY <1>1, <1>2

LEMMA ServicesInvariance == Services!Spec => []ServicesIInv
  <1>1. ServicesIInv /\ [Services!Next]_(Services!svcVars) => ServicesIInv'
    BY ServicesInductive
  <1> QED BY <1>1, ServicesInitially, PTL DEF Services!Spec

(* The types of the page's variables: in particular a dialog on screen is  *)
(* one of a service.                                                       *)
THEOREM ServicesTypeCorrect == Services!Spec => []Services!TypeOK
  <1>1. ServicesIInv => Services!TypeOK
    BY DEF ServicesIInv
  <1> QED BY <1>1, ServicesInvariance, PTL

(* What a step does to the records: a save's PUT or a switch's answer.     *)
LEMMA RecordsChangedBy ==
    ASSUME ServicesIInv, [Services!Next]_(Services!svcVars)
    PROVE  \/ UNCHANGED records
           \/ \E s \in saves :
                records' = [records EXCEPT ![s.name] = Services!Merged(records[s.name], s.fields)]
           \/ \E q \in toggles :
                /\ q \notin toggles'
                /\ records' = [records EXCEPT ![q.name] = [records[q.name] EXCEPT !.on = q.want]]
  <1>1. CASE UNCHANGED Services!svcVars
    BY <1>1 DEF Services!svcVars
  <1>2. ASSUME NEW q \in toggles, Services!Toggled(q)
        PROVE  /\ q \notin toggles'
               /\ records' = [records EXCEPT ![q.name] = [records[q.name] EXCEPT !.on = q.want]]
    BY <1>2 DEF Services!Toggled
  <1>3. ASSUME NEW q \in toggles, Services!ToggleFailed(q) PROVE UNCHANGED records
    BY <1>3 DEF Services!ToggleFailed
  <1>4. ASSUME NEW s \in saves, Services!ServicePut(s)
        PROVE  records' = [records EXCEPT ![s.name] = Services!Merged(records[s.name], s.fields)]
    BY <1>4 DEF Services!ServicePut
  <1>5. ASSUME NEW s \in saves,
               Services!PortAdded(s) \/ Services!BindingsPut(s) \/ Services!SaveFailed(s)
        PROVE  UNCHANGED records
    BY <1>5 DEF Services!PortAdded, Services!BindingsPut, Services!SaveFailed
  <1>6. ASSUME \/ Services!ListAnswered \/ Services!Redraw
               \/ \E n \in Names : Services!ClickSwitch(n) \/ Services!OpenDialog(n)
               \/ Services!Dismiss \/ Services!ClickDialogSwitch
               \/ \E new \in BOOLEAN : Services!ClickSave(new)
        PROVE  UNCHANGED records
    BY <1>6 DEF Services!ListAnswered, Services!Redraw, Services!ClickSwitch, Services!OpenDialog,
                Services!Dismiss, Services!ClickDialogSwitch, Services!ClickSave
  <1> QED BY <1>1, <1>2, <1>3, <1>4, <1>5, <1>6
          DEF Services!Next, Services!ToggleAnswered, Services!SaveAnswered

(* What is stored under a service comes from a form of that service,       *)
(* whatever dialogs take its place, unless the save had to add a port      *)
(* first; and no save moves a switch (services.js:810,                     *)
(* handlers_services.go:440).                                              *)
THEOREM SavesAreOfTheirForm == Services!Spec => Services!SavesStayInTheirForm
  <1> DEFINE Stays ==
        \A n \in Names :
           /\ records'[n].fields # records[n].fields /\ records'[n].fields # n
                => \E s \in saves : s.name = n /\ s.port
           /\ records'[n].on # records[n].on
                => \E q \in toggles :
                      q \notin toggles' /\ q.name = n /\ q.want = records'[n].on
  <1>1. ASSUME ServicesIInv, [Services!Next]_(Services!svcVars) PROVE Stays
    <2> TAKE n \in Names
    <2>1. records \in [Names -> Services!Record] /\ records[n] \in Services!Record
      BY <1>1 DEF ServicesIInv, Services!TypeOK
    <2>2. CASE UNCHANGED records
      BY <2>2
    <2>3. ASSUME NEW s \in saves,
                 records' = [records EXCEPT ![s.name] = Services!Merged(records[s.name], s.fields)]
          PROVE  /\ records'[n].on = records[n].on
                 /\ records'[n].fields # records[n].fields => s.name = n /\ records'[n].fields = s.fields
      <3>1. CASE s.name = n
        <4>1. records'[n] = [records[n] EXCEPT !.fields = s.fields]
          BY <2>1, <2>3, <3>1 DEF Services!Merged
        <4> QED BY <2>1, <3>1, <4>1 DEF Services!Record
      <3>2. CASE s.name # n
        BY <2>1, <2>3, <3>2
      <3> QED BY <3>1, <3>2
    <2>4. \A s \in saves : s.fields # s.name => s.port
      BY <1>1 DEF ServicesIInv, SavesAreOwn
    <2>5. ASSUME NEW q \in toggles, q \notin toggles',
                 records' = [records EXCEPT ![q.name] = [records[q.name] EXCEPT !.on = q.want]]
          PROVE  /\ records'[n].fields = records[n].fields
                 /\ records'[n].on # records[n].on => q.name = n /\ q.want = records'[n].on
      <3>1. CASE q.name = n
        <4>1. records'[n] = [records[n] EXCEPT !.on = q.want]
          BY <2>1, <2>5, <3>1
        <4> QED BY <2>1, <3>1, <4>1 DEF Services!Record
      <3>2. CASE q.name # n
        BY <2>1, <2>5, <3>2
      <3> QED BY <3>1, <3>2
    <2> QED BY <1>1, <2>2, <2>3, <2>4, <2>5, RecordsChangedBy
  <1>2. ServicesIInv /\ [Services!Next]_(Services!svcVars) => [Stays]_(Services!svcVars)
    BY <1>1
  <1> QED BY <1>2, ServicesInvariance, PTL DEF Services!Spec, Services!SavesStayInTheirForm

-------------------------------------------------------------------------------
(***************************************************************************)
(* The tables of automatic bans, for any addresses and any number of       *)
(* actions at a time.                                                      *)
(*                                                                         *)
(* Only an action under way asks the server for anything, and each request *)
(* of it is for one of its own rows or for the address it has just         *)
(* released.                                                               *)
(***************************************************************************)
IdleAsksNothing ==
    /\ banAsk.kind = "none" => banAsk = Bans!NoAsk
    /\ \A j \in BanJobIds : banJobs[j].kind = "none" => banJobs[j] = Bans!NoJob
BansIInv == Bans!TypeOK /\ IdleAsksNothing

BanJob == [kind : Bans!Kinds \cup {"none"}, rows : SUBSET Ips,
           freed : Ips \cup {Bans!Nobody}, ok : BOOLEAN]

LEMMA KindsListed ==
    /\ Bans!Kinds = {"perm", "unban_forget", "unban", "forgive", "row_unban", "row_forgive",
                     "clear", "forgive_all", "reban", "add"}
    /\ "none" \notin Bans!Kinds
    /\ \A t \in Bans!Tables : Bans!Bulk(t) \subseteq Bans!Kinds /\ Bans!OneRow(t) \subseteq Bans!Kinds
  <1>1. /\ Bans!Bulk("bans") = {"perm", "unban_forget", "unban"}
        /\ Bans!Bulk("offenders") = {"forgive"}
        /\ Bans!OneRow("bans") = {"row_unban"} /\ Bans!OneRow("offenders") = {"row_forgive"}
    BY DEF Bans!Bulk, Bans!OneRow
  <1>2. Bans!Kinds = (UNION {Bans!Bulk(t) \cup Bans!OneRow(t) : t \in {"bans", "offenders"}})
                        \cup {"clear", "forgive_all"} \cup {"reban", "add"}
    BY DEF Bans!Kinds, Bans!Tables, Bans!All
  <1>3. UNION {Bans!Bulk(t) \cup Bans!OneRow(t) : t \in {"bans", "offenders"}}
          = (Bans!Bulk("bans") \cup Bans!OneRow("bans"))
              \cup (Bans!Bulk("offenders") \cup Bans!OneRow("offenders"))
    OBVIOUS
  <1>4. Bans!Kinds = {"perm", "unban_forget", "unban", "forgive", "row_unban", "row_forgive",
                      "clear", "forgive_all", "reban", "add"}
    BY <1>1, <1>2, <1>3
  <1> QED BY <1>1, <1>4 DEF Bans!Tables

LEMMA NoneTyped == Bans!NoJob \in BanJob /\ Bans!NoAsk \in [kind : Bans!Kinds \cup {"none"}, rows : SUBSET Ips]
  BY DEF BanJob, Bans!NoJob, Bans!NoAsk

(* What the server may do for a request, and for the engine and the clock. *)
LEMMA EffectTyped ==
    ASSUME BansIInv, NEW kind \in Bans!Kinds, NEW ip \in Ips, Bans!Effect(kind, ip)
    PROVE  bans' \in [Ips -> {"none", "temp", "perm"}] /\ ledger' \subseteq Ips
  <1>1. bans \in [Ips -> {"none", "temp", "perm"}] /\ ledger \subseteq Ips
    BY DEF BansIInv, Bans!TypeOK
  <1>2. \/ Bans!Unban(ip) \/ Bans!Forgive({ip}) \/ Bans!UnbanAll \/ Bans!Forgive(Ips)
        \/ Bans!Ban(ip, "perm") \/ Bans!Ban(ip, "temp")
    BY KindsListed DEF Bans!Effect
  <1> QED BY <1>1, <1>2 DEF Bans!Unban, Bans!Forgive, Bans!UnbanAll, Bans!Ban

(* An action that changes one job leaves the jobs as the invariant wants.  *)
LEMMA JobChanged ==
    ASSUME BansIInv, NEW j \in BanJobIds, NEW act \in BanJob,
           act.kind = "none" => act = Bans!NoJob, banJobs' = [banJobs EXCEPT ![j] = act]
    PROVE  /\ banJobs' \in [BanJobIds -> BanJob]
           /\ \A i \in BanJobIds : banJobs'[i].kind = "none" => banJobs'[i] = Bans!NoJob
  <1>1. banJobs \in [BanJobIds -> BanJob]
    BY DEF BansIInv, Bans!TypeOK, BanJob
  <1>2. banJobs' \in [BanJobIds -> BanJob]
    BY <1>1
  <1>3. \A i \in BanJobIds : banJobs'[i] = banJobs[i] \/ banJobs'[i] = act
    BY <1>1
  <1> QED BY <1>2, <1>3 DEF BansIInv, IdleAsksNothing

(* What a step leaves when the jobs it changes are as they should be.      *)
BansKept ==
    /\ bans \in [Ips -> {"none", "temp", "perm"}] /\ ledger \subseteq Ips
    /\ tables \in [Bans!Tables -> [Ips -> Bans!Marks]]
    /\ banAsk \in [kind : Bans!Kinds \cup {"none"}, rows : SUBSET Ips]
    /\ banAsk.kind = "none" => banAsk = Bans!NoAsk
    /\ offences \in 0..MaxOffences /\ started \in 0..MaxBanJobs

LEMMA BansTogether ==
    BansIInv <=> /\ BansKept /\ banJobs \in [BanJobIds -> BanJob]
                 /\ \A i \in BanJobIds : banJobs[i].kind = "none" => banJobs[i] = Bans!NoJob
  BY DEF BansIInv, Bans!TypeOK, IdleAsksNothing, BansKept, BanJob

LEMMA ReadingTyped ==
    ASSUME BansIInv, NEW t \in Bans!Tables
    PROVE  Bans!Reading(t) \in [Ips -> Bans!Marks]
  <1>1. Bans!Listed(ledger) \in [Ips -> Bans!Marks]
    BY DEF Bans!Listed, Bans!Marks
  <1>2. bans \in [Ips -> Bans!Marks]
    BY DEF BansIInv, Bans!TypeOK, Bans!Marks
  <1> QED BY <1>1, <1>2 DEF Bans!Reading

LEMMA LoadedTyped ==
    ASSUME BansIInv, NEW T, Bans!Loaded(T)
    PROVE  tables' \in [Bans!Tables -> [Ips -> Bans!Marks]]
  <1>1. tables \in [Bans!Tables -> [Ips -> Bans!Marks]]
    BY DEF BansIInv, Bans!TypeOK
  <1>2. [ip \in Ips |-> "none"] \in [Ips -> Bans!Marks]
    BY DEF Bans!Marks
  <1>3. CASE tables' = [t \in Bans!Tables |-> IF t \in T THEN Bans!Reading(t) ELSE tables[t]]
    BY <1>1, <1>3, ReadingTyped
  <1>4. CASE tables' = [t \in Bans!Tables |-> IF t \in T THEN [ip \in Ips |-> "none"] ELSE tables[t]]
    BY <1>1, <1>2, <1>4
  <1> QED BY <1>3, <1>4 DEF Bans!Loaded

LEMMA BansInitially == BansAssumption /\ Bans!Init => BansIInv
  <1> SUFFICES ASSUME BansAssumption, Bans!Init PROVE BansIInv
    OBVIOUS
  <1>1. bans \in [Ips -> {"none", "temp", "perm"}] /\ ledger \subseteq Ips
    BY DEF Bans!Init
  <1>2. \A t \in Bans!Tables : Bans!Reading(t) \in [Ips -> Bans!Marks]
    BY <1>1 DEF Bans!Init, Bans!Reading, Bans!Listed, Bans!Marks
  <1>3. tables \in [Bans!Tables -> [Ips -> Bans!Marks]]
    BY <1>2 DEF Bans!Init
  <1>4. BansKept
    BY <1>1, <1>3, NoneTyped DEF BansAssumption, Bans!Init, BansKept
  <1>5. banJobs \in [BanJobIds -> BanJob] /\ \A i \in BanJobIds : banJobs[i] = Bans!NoJob
    BY NoneTyped DEF Bans!Init
  <1> QED BY <1>4, <1>5, BansTogether

(* The engine, the clock, the tables and the confirmation.                 *)
LEMMA AroundTheJobs ==
    ASSUME BansAssumption, BansIInv,
           \/ \E ip \in Ips : Bans!Offence(ip) \/ Bans!Lapse(ip) \/ Bans!Decay(ip)
           \/ \E t \in Bans!Tables : Bans!Refresh(t)
           \/ \E kind \in Bans!Kinds, ticked \in SUBSET Ips : Bans!AskFirst(kind, ticked)
           \/ Bans!Cancel
    PROVE  BansKept' /\ UNCHANGED banJobs
  <1> USE BansTogether
  <1>1. ASSUME NEW ip \in Ips, Bans!Offence(ip) PROVE BansKept' /\ UNCHANGED banJobs
    BY <1>1 DEF BansAssumption, Bans!Offence, BansKept
  <1>2. ASSUME NEW ip \in Ips, Bans!Lapse(ip) PROVE BansKept' /\ UNCHANGED banJobs
    BY <1>2 DEF Bans!Lapse, BansKept
  <1>3. ASSUME NEW ip \in Ips, Bans!Decay(ip) PROVE BansKept' /\ UNCHANGED banJobs
    BY <1>3 DEF Bans!Decay, Bans!Forgive, BansKept
  <1>4. ASSUME NEW t \in Bans!Tables, Bans!Refresh(t) PROVE BansKept' /\ UNCHANGED banJobs
    <2>1. tables' \in [Bans!Tables -> [Ips -> Bans!Marks]]
      BY <1>4, LoadedTyped DEF Bans!Refresh
    <2> QED BY <1>4, <2>1 DEF Bans!Refresh, BansKept
  <1>5. ASSUME NEW kind \in Bans!Kinds, NEW ticked \in SUBSET Ips, Bans!AskFirst(kind, ticked)
        PROVE  BansKept' /\ UNCHANGED banJobs
    BY <1>5, KindsListed DEF Bans!AskFirst, BansKept
  <1>6. CASE Bans!Cancel
    BY <1>6, NoneTyped DEF Bans!Cancel, BansKept
  <1> QED BY <1>1, <1>2, <1>3, <1>4, <1>5, <1>6

(* A click starts an action that has released nobody yet.                  *)
LEMMA StartKeeps ==
    ASSUME BansAssumption, BansIInv, NEW j \in BanJobIds, NEW kind \in Bans!Kinds,
           NEW ticked \in SUBSET Ips, Bans!Start(j, kind, ticked), banAsk' \in {banAsk, Bans!NoAsk}
    PROVE  /\ BansIInv' /\ UNCHANGED ledger
           /\ \A i \in BanJobIds : banJobs'[i].freed \in {banJobs[i].freed, Bans!Nobody}
  <1> DEFINE act == [Bans!NoJob EXCEPT !.kind = kind, !.rows = ticked]
  <1>1. /\ banJobs' = [banJobs EXCEPT ![j] = act] /\ started' \in 0..MaxBanJobs
        /\ UNCHANGED <<bans, ledger, tables, offences>>
    BY BansTogether DEF Bans!Start, BansAssumption, BansKept
  <1>2. act \in BanJob /\ act.kind # "none" /\ act.freed = Bans!Nobody
    BY KindsListed DEF Bans!NoJob, BanJob
  <1> HIDE DEF act
  <1>3. BansKept'
    BY <1>1, BansTogether, NoneTyped DEF BansKept
  <1>4. /\ banJobs' \in [BanJobIds -> BanJob]
        /\ \A i \in BanJobIds : banJobs'[i].kind = "none" => banJobs'[i] = Bans!NoJob
    BY <1>1, <1>2, JobChanged
  <1>5. BansIInv'
    BY <1>3, <1>4, BansTogether DEF BansIInv, Bans!TypeOK, IdleAsksNothing, BansKept, BanJob
  <1>6. \A i \in BanJobIds : banJobs'[i].freed \in {banJobs[i].freed, Bans!Nobody}
    BY <1>1, <1>2, BansTogether
  <1> QED BY <1>1, <1>5, <1>6

(* What a step of the action j forgets, and whom it has released.          *)
ForgetsItsOwn(j) ==
    \A ip \in ledger \ ledger' :
       \/ banJobs[j].kind \in {"forgive", "row_forgive"} /\ ip \in banJobs[j].rows
       \/ banJobs[j].kind = "forgive_all"
       \/ banJobs[j].freed = ip
FreesTheBanned ==
    \A i \in BanJobIds, ip \in Ips :
       banJobs[i].freed # ip /\ banJobs'[i].freed = ip => bans[ip] # "none" /\ bans'[ip] = "none"

(* An action asks for something only while it is under way.                *)
LEMMA AtWork ==
    ASSUME BansIInv, NEW j \in BanJobIds, NEW ip \in Ips, ip \in banJobs[j].rows
    PROVE  banJobs[j].kind \in Bans!Kinds /\ banJobs[j] \in BanJob
  <1>1. banJobs[j] \in BanJob
    BY BansTogether
  <1>2. banJobs[j] # Bans!NoJob
    BY DEF Bans!NoJob
  <1>3. banJobs[j].kind # "none"
    BY <1>2 DEF BansIInv, IdleAsksNothing
  <1> QED BY <1>1, <1>3 DEF BanJob

LEMMA WithoutTyped ==
    ASSUME NEW act \in BanJob, NEW ip \in Ips
    PROVE  Bans!Without(act, ip) \in SUBSET Ips
  BY DEF Bans!Without, BanJob

LEMMA ServedKeeps ==
    ASSUME BansAssumption, BansIInv, NEW j \in BanJobIds, NEW ip \in Ips, Bans!Served(j, ip)
    PROVE  BansIInv' /\ ForgetsItsOwn(j) /\ FreesTheBanned
  <1> DEFINE old == banJobs[j]
             freeing == [old EXCEPT !.freed = ip, !.ok = TRUE]
             going == [old EXCEPT !.rows = Bans!Without(old, ip), !.ok = TRUE]
             act == IF old.kind = "unban_forget" THEN freeing ELSE going
  <1>1. /\ ip \in old.rows /\ old.freed = Bans!Nobody /\ Bans!Accepted(old.kind, ip)
        /\ Bans!Effect(old.kind, ip) /\ UNCHANGED <<tables, banAsk, offences, started>>
        /\ banJobs' = [banJobs EXCEPT ![j] = act]
    BY DEF Bans!Served
  <1>2. old.kind \in Bans!Kinds /\ old \in BanJob
    BY <1>1, AtWork
  <1>3. freeing \in BanJob /\ freeing.freed = ip /\ freeing.kind = old.kind
    BY <1>2 DEF BanJob
  <1>4. going \in BanJob /\ going.freed = Bans!Nobody /\ going.kind = old.kind
    BY <1>1, <1>2, WithoutTyped DEF BanJob
  <1>5. /\ act \in BanJob /\ act.kind = old.kind
        /\ act.freed = IF old.kind = "unban_forget" THEN ip ELSE Bans!Nobody
    BY <1>3, <1>4
  <1> HIDE DEF act
  <1>6. bans' \in [Ips -> {"none", "temp", "perm"}] /\ ledger' \subseteq Ips
    BY <1>1, <1>2, EffectTyped
  <1>7. BansKept'
    BY <1>1, <1>6, BansTogether DEF BansKept
  <1>8. /\ banJobs' \in [BanJobIds -> BanJob]
        /\ \A i \in BanJobIds : banJobs'[i].kind = "none" => banJobs'[i] = Bans!NoJob
    BY <1>1, <1>2, <1>5, KindsListed, JobChanged
  <1>9. BansIInv'
    BY <1>7, <1>8 DEF BansIInv, Bans!TypeOK, IdleAsksNothing, BansKept, BanJob
  <1>10. ForgetsItsOwn(j)
    <2>1. CASE old.kind \in {"forgive", "row_forgive"}
      <3>1. ledger' = ledger \ {ip}
        BY <1>1, <2>1 DEF Bans!Effect, Bans!Forgive
      <3> QED BY <1>1, <2>1, <3>1 DEF ForgetsItsOwn
    <2>2. CASE old.kind = "forgive_all"
      BY <2>2 DEF ForgetsItsOwn
    <2>3. CASE old.kind \notin {"forgive", "row_forgive", "forgive_all"}
      <3>1. UNCHANGED ledger
        BY <1>1, <1>2, <2>3, KindsListed DEF Bans!Effect, Bans!Unban, Bans!UnbanAll, Bans!Ban
      <3> QED BY <3>1 DEF ForgetsItsOwn
    <2> QED BY <2>1, <2>2, <2>3
  <1>11. FreesTheBanned
    <2> SUFFICES ASSUME NEW i \in BanJobIds, NEW a \in Ips,
                        banJobs[i].freed # a, banJobs'[i].freed = a
                 PROVE  bans[a] # "none" /\ bans'[a] = "none"
      BY DEF FreesTheBanned
    <2>1. i = j /\ banJobs'[i] = act
      BY <1>1, BansTogether
    <2>2. old.kind = "unban_forget" /\ a = ip
      BY <2>1, <1>5 DEF BansAssumption
    <2>3. Bans!CanUnban(ip) /\ Bans!Unban(ip)
      BY <1>1, <2>2 DEF Bans!Accepted, Bans!Effect
    <2> QED BY <2>2, <2>3, BansTogether DEF Bans!CanUnban, Bans!Unban, BansKept
  <1> QED BY <1>9, <1>10, <1>11

LEMMA StepKeeps ==
    ASSUME BansAssumption, BansIInv, NEW j \in BanJobIds, Bans!Step(j)
    PROVE  BansIInv' /\ ForgetsItsOwn(j) /\ FreesTheBanned
  <1> DEFINE old == banJobs[j]
  <1>1. old \in BanJob
    BY BansTogether
  <1>2. ASSUME NEW ip \in Ips, Bans!NotServed(j, ip)
        PROVE  BansIInv' /\ ForgetsItsOwn(j) /\ FreesTheBanned
    <2> DEFINE act == [old EXCEPT !.rows = Bans!Without(old, ip)]
    <2>1. /\ ip \in old.rows /\ old.freed = Bans!Nobody
          /\ banJobs' = [banJobs EXCEPT ![j] = act]
          /\ UNCHANGED <<bans, ledger, tables, banAsk, offences, started>>
      BY <1>2 DEF Bans!NotServed
    <2>2. act \in BanJob /\ act.freed = old.freed /\ act.kind = old.kind
      BY <1>1, WithoutTyped DEF BanJob
    <2>3. old.kind \in Bans!Kinds
      BY <2>1, AtWork
    <2> HIDE DEF act
    <2>4. /\ banJobs' \in [BanJobIds -> BanJob]
          /\ \A i \in BanJobIds : banJobs'[i].kind = "none" => banJobs'[i] = Bans!NoJob
      BY <2>1, <2>2, <2>3, KindsListed, JobChanged
    <2>5. BansIInv'
      BY <2>1, <2>4, BansTogether DEF BansIInv, Bans!TypeOK, IdleAsksNothing, BansKept, BanJob
    <2>6. \A i \in BanJobIds : banJobs'[i].freed = banJobs[i].freed
      BY <2>1, <2>2, BansTogether
    <2> QED BY <2>1, <2>5, <2>6 DEF ForgetsItsOwn, FreesTheBanned
  <1>3. CASE Bans!Forgotten(j)
    <2> DEFINE act == [old EXCEPT !.rows = old.rows \ {old.freed}, !.freed = Bans!Nobody]
    <2>1. /\ old.freed # Bans!Nobody
          /\ Bans!Forgive({old.freed}) \/ UNCHANGED <<bans, ledger>>
          /\ banJobs' = [[banJobs EXCEPT ![j].rows = banJobs[j].rows \ {banJobs[j].freed}]
                            EXCEPT ![j].freed = Bans!Nobody]
          /\ UNCHANGED <<tables, banAsk, offences, started>>
      BY <1>3 DEF Bans!Forgotten
    <2>2. act \in BanJob /\ act.freed = Bans!Nobody /\ act.kind = old.kind
      BY <1>1 DEF BanJob
    <2>3. banJobs' = [banJobs EXCEPT ![j] = act]
      BY <2>1, <1>1, BansTogether DEF BanJob
    <2>4. old.kind \in Bans!Kinds
      <3>1. old # Bans!NoJob
        BY <2>1 DEF Bans!NoJob
      <3>2. old.kind # "none"
        BY <3>1 DEF BansIInv, IdleAsksNothing
      <3> QED BY <1>1, <3>2 DEF BanJob
    <2> HIDE DEF act
    <2>5. /\ banJobs' \in [BanJobIds -> BanJob]
          /\ \A i \in BanJobIds : banJobs'[i].kind = "none" => banJobs'[i] = Bans!NoJob
      BY <2>2, <2>3, <2>4, KindsListed, JobChanged
    <2>6. bans' = bans /\ ledger' \subseteq ledger /\ ledger \ ledger' \subseteq {old.freed}
      BY <2>1 DEF Bans!Forgive
    <2>7. BansIInv'
      BY <2>1, <2>5, <2>6, BansTogether DEF BansIInv, Bans!TypeOK, IdleAsksNothing, BansKept, BanJob
    <2>8. \A i \in BanJobIds : banJobs'[i].freed \in {banJobs[i].freed, Bans!Nobody}
      BY <2>2, <2>3, BansTogether
    <2> QED BY <2>6, <2>7, <2>8 DEF ForgetsItsOwn, FreesTheBanned, BansAssumption
  <1>4. CASE Bans!Through(j)
    <2>1. /\ banJobs' = [banJobs EXCEPT ![j] = Bans!NoJob] /\ Bans!Loaded(Bans!Reloads(old))
          /\ UNCHANGED <<bans, ledger, banAsk, offences, started>>
      BY <1>4 DEF Bans!Through
    <2>2. tables' \in [Bans!Tables -> [Ips -> Bans!Marks]]
      BY <2>1, LoadedTyped
    <2>3. /\ banJobs' \in [BanJobIds -> BanJob]
          /\ \A i \in BanJobIds : banJobs'[i].kind = "none" => banJobs'[i] = Bans!NoJob
      BY <2>1, NoneTyped, JobChanged
    <2>4. BansIInv'
      BY <2>1, <2>2, <2>3, BansTogether DEF BansIInv, Bans!TypeOK, IdleAsksNothing, BansKept, BanJob
    <2>5. Bans!NoJob.freed = Bans!Nobody
      BY DEF Bans!NoJob
    <2>6. \A i \in BanJobIds : banJobs'[i].freed \in {banJobs[i].freed, Bans!Nobody}
      BY <2>1, <2>5, BansTogether
    <2> QED BY <2>1, <2>4, <2>6 DEF ForgetsItsOwn, FreesTheBanned, BansAssumption
  <1> QED BY <1>2, <1>3, <1>4, ServedKeeps DEF Bans!Step

LEMMA RowsTyped ==
    ASSUME NEW t \in Bans!Tables, NEW filter
    PROVE  Bans!RowsOf(t, filter) \subseteq Ips
  BY DEF Bans!RowsOf

(* The kinds of steps: around the jobs, starting one, or a step of one.    *)
LEMMA BansSteps ==
    ASSUME BansIInv, Bans!Next
    PROVE  \/ \E ip \in Ips : Bans!Offence(ip) \/ Bans!Lapse(ip) \/ Bans!Decay(ip)
           \/ \E t \in Bans!Tables : Bans!Refresh(t)
           \/ \E kind \in Bans!Kinds, ticked \in SUBSET Ips : Bans!AskFirst(kind, ticked)
           \/ Bans!Cancel
           \/ \E j \in BanJobIds, kind \in Bans!Kinds, ticked \in SUBSET Ips :
                Bans!Start(j, kind, ticked) /\ banAsk' \in {banAsk, Bans!NoAsk}
           \/ \E j \in BanJobIds : Bans!Step(j)
  <1>1. ASSUME NEW t \in Bans!Tables, NEW filter \in {"all", "perm", "temp"},
               NEW kind \in Bans!Bulk(t), NEW ticked \in SUBSET Bans!RowsOf(t, filter),
               Bans!AskFirst(kind, ticked)
        PROVE  \E k \in Bans!Kinds, r \in SUBSET Ips : Bans!AskFirst(k, r)
    BY <1>1, KindsListed, RowsTyped
  <1>2. ASSUME NEW kind \in Bans!All, Bans!AskFirst(kind, Ips)
        PROVE  \E k \in Bans!Kinds, r \in SUBSET Ips : Bans!AskFirst(k, r)
    BY <1>2, KindsListed DEF Bans!All
  <1>3. ASSUME NEW ticked \in SUBSET Ips, Bans!AskFirst("reban", ticked)
        PROVE  \E k \in Bans!Kinds, r \in SUBSET Ips : Bans!AskFirst(k, r)
    BY <1>3, KindsListed
  <1>4. ASSUME NEW j \in BanJobIds, Bans!Confirm(j)
        PROVE  \E k \in Bans!Kinds, r \in SUBSET Ips :
                  Bans!Start(j, k, r) /\ banAsk' \in {banAsk, Bans!NoAsk}
    <2>1. banAsk.kind \in Bans!Kinds /\ banAsk.rows \in SUBSET Ips
      BY <1>4 DEF Bans!Confirm, BansIInv, Bans!TypeOK, IdleAsksNothing
    <2> QED BY <1>4, <2>1 DEF Bans!Confirm
  <1>5. ASSUME NEW j \in BanJobIds, NEW kind \in Bans!Kinds, NEW ip \in Ips, Bans!OnRow(j, kind, ip)
        PROVE  \E k \in Bans!Kinds, r \in SUBSET Ips :
                  Bans!Start(j, k, r) /\ banAsk' \in {banAsk, Bans!NoAsk}
    BY <1>5 DEF Bans!OnRow
  <1>6. ASSUME NEW j \in BanJobIds, NEW t \in Bans!Tables, NEW kind \in Bans!OneRow(t),
               NEW ip \in Bans!RowsOf(t, "all"), Bans!OnRow(j, kind, ip)
        PROVE  \E k \in Bans!Kinds, a \in Ips : Bans!OnRow(j, k, a)
    BY <1>6, KindsListed, RowsTyped
  <1>7. "add" \in Bans!Kinds
    BY KindsListed
  <1> QED BY <1>1, <1>2, <1>3, <1>4, <1>5, <1>6, <1>7 DEF Bans!Next

LEMMA BansInductive ==
    ASSUME BansAssumption, BansIInv, [Bans!Next]_(Bans!banVars)
    PROVE  /\ BansIInv'
           /\ UNCHANGED banJobs \/ UNCHANGED ledger \/ \E j \in BanJobIds : ForgetsItsOwn(j)
           /\ FreesTheBanned
  <1>1. CASE UNCHANGED Bans!banVars
    <2>1. UNCHANGED <<bans, ledger, tables, banAsk, banJobs, offences, started>>
      BY <1>1 DEF Bans!banVars
    <2> QED BY <2>1 DEF BansIInv, Bans!TypeOK, IdleAsksNothing, FreesTheBanned
  <1>2. ASSUME BansKept', UNCHANGED banJobs PROVE BansIInv' /\ FreesTheBanned
    BY <1>2, BansTogether DEF BansIInv, Bans!TypeOK, IdleAsksNothing, BansKept, BanJob, FreesTheBanned
  <1>3. ASSUME NEW j \in BanJobIds, NEW kind \in Bans!Kinds, NEW ticked \in SUBSET Ips,
               Bans!Start(j, kind, ticked), banAsk' \in {banAsk, Bans!NoAsk}
        PROVE  BansIInv' /\ UNCHANGED ledger /\ FreesTheBanned
    BY <1>3, StartKeeps DEF FreesTheBanned, BansAssumption
  <1>4. CASE Bans!Next
    BY <1>2, <1>3, <1>4, BansSteps, AroundTheJobs, StepKeeps
  <1> QED BY <1>1, <1>4

LEMMA BansInvariance == BansAssumption => (Bans!Spec => []BansIInv)
  <1> SUFFICES ASSUME BansAssumption PROVE Bans!Spec => []BansIInv
    OBVIOUS
  <1>1. BansIInv /\ [Bans!Next]_(Bans!banVars) => BansIInv'
    BY BansInductive
  <1> QED BY <1>1, BansInitially, PTL DEF Bans!Spec

(* The types of the tables' variables.                                     *)
THEOREM BansTypeCorrect == BansAssumption => (Bans!Spec => []Bans!TypeOK)
  <1> SUFFICES ASSUME BansAssumption PROVE Bans!Spec => []Bans!TypeOK
    OBVIOUS
  <1>1. BansIInv => Bans!TypeOK
    BY DEF BansIInv
  <1> QED BY <1>1, BansInvariance, PTL

(* A release-and-forget forgets nobody it did not release, whatever lapses *)
(* or runs beside it, and no other action forgets an address it was not    *)
(* asked to (autoban.js:566, banner.go:798).                               *)
THEOREM OnlyTheReleasedAreForgotten == BansAssumption => (Bans!Spec => Bans!ReleaseThenForget)
  <1> SUFFICES ASSUME BansAssumption PROVE Bans!Spec => Bans!ReleaseThenForget
    OBVIOUS
  <1> DEFINE Safe ==
        /\ \A ip \in ledger \ ledger' :
             \/ UNCHANGED banJobs
             \/ \E j \in BanJobIds :
                   \/ banJobs[j].kind \in {"forgive", "row_forgive"} /\ ip \in banJobs[j].rows
                   \/ banJobs[j].kind = "forgive_all"
                   \/ banJobs[j].freed = ip
        /\ \A j \in BanJobIds, ip \in Ips :
             banJobs[j].freed # ip /\ banJobs'[j].freed = ip => bans[ip] # "none" /\ bans'[ip] = "none"
  <1>1. ASSUME BansIInv, [Bans!Next]_(Bans!banVars) PROVE Safe
    BY <1>1, BansInductive DEF ForgetsItsOwn, FreesTheBanned
  <1>2. BansIInv /\ [Bans!Next]_(Bans!banVars) => [Safe]_(Bans!banVars)
    BY <1>1
  <1> QED BY <1>2, BansInvariance, PTL DEF Bans!Spec, Bans!ReleaseThenForget

-------------------------------------------------------------------------------
(***************************************************************************)
(* The Backup tab, for any passphrases and archives, any number of clicks  *)
(* and of visits.                                                          *)
(*                                                                         *)
(* An answer awaited by a page was asked for by a click or by opening the  *)
(* page, and each click asks for one at most.  The settings are valid, and *)
(* so are those an archive holds.  A button that its request still holds   *)
(* is on the page that request will draw again.                            *)
(***************************************************************************)
TabJob(v) == [kind : Backup!Kinds \cup {"none"}, stage : {"put", "act"}, form : Backup!Forms,
              arch : Backup!Settings, root : 1..v, button : BOOLEAN, raced : BOOLEAN]
UnderWay == {j \in TabJobIds : requests[j].kind # "none"}
AnswersAreAskedFor ==
    /\ Cardinality(UnderWay) <= clicks
    /\ \A v \in 1..visit : tabGets[v] + Cardinality(UnderWay) <= clicks + 1
ArchivesAreValid == \A a \in archives : Backup!Valid(a)
ButtonsAreOnTheirPage ==
    bound = visit => \A j \in TabJobIds : requests[j].button => requests[j].root = visit
SavesHaveOneStage ==
    \A j \in TabJobIds : requests[j].kind = "save" => requests[j].stage = "put"
BackupIInv ==
    /\ Backup!TypeOK /\ AnswersAreAskedFor /\ ArchivesAreValid /\ ButtonsAreOnTheirPage
    /\ SavesHaveOneStage
    /\ Backup!TestedAsShown /\ Backup!ButtonsComeBack

(* What the tab's page shows, and what the server keeps.                   *)
TabKept ==
    /\ visit \in 1..MaxVisits /\ bound \in 1..visit
    /\ status \in {"empty", "form", "error"}
    /\ tabForm \in Backup!Forms /\ tabListed \subseteq Backup!Settings /\ off \subseteq Backup!Buttons
    /\ clicks \in 0..MaxClicks
StoreKept ==
    /\ settings \in Backup!Settings /\ Backup!Valid(settings) /\ archives \subseteq Backup!Settings
    /\ ArchivesAreValid

LEMMA TabTogether ==
    BackupIInv <=> /\ TabKept /\ StoreKept /\ requests \in [TabJobIds -> TabJob(visit)]
                   /\ tabGets \in [1..visit -> 0..MaxClicks + 1]
                   /\ AnswersAreAskedFor /\ ButtonsAreOnTheirPage /\ SavesHaveOneStage
                   /\ Backup!TestedAsShown /\ Backup!ButtonsComeBack
  BY DEF BackupIInv, Backup!TypeOK, Backup!Visits, TabKept, StoreKept, TabJob

(* How many requests are under way, before and after a step.               *)
LEMMA UnderWayCounted ==
    ASSUME BackupAssumption
    PROVE  /\ IsFiniteSet(UnderWay) /\ Cardinality(UnderWay) \in Nat
           /\ \A j \in TabJobIds :
                 /\ Cardinality(UnderWay \cup {j}) \in {Cardinality(UnderWay), Cardinality(UnderWay) + 1}
                 /\ j \in UnderWay =>
                       /\ Cardinality(UnderWay) \in Nat \ {0}
                       /\ Cardinality(UnderWay \ {j}) = Cardinality(UnderWay) - 1
  <1>1. IsFiniteSet(UnderWay)
    BY FS_Subset DEF BackupAssumption, UnderWay
  <1>2. Cardinality(UnderWay) \in Nat
    BY <1>1, FS_CardinalityType
  <1>3. ASSUME NEW j \in TabJobIds
        PROVE  Cardinality(UnderWay \cup {j}) \in {Cardinality(UnderWay), Cardinality(UnderWay) + 1}
    BY <1>1, FS_AddElement
  <1>4. ASSUME NEW j \in UnderWay
        PROVE  /\ Cardinality(UnderWay) \in Nat \ {0}
               /\ Cardinality(UnderWay \ {j}) = Cardinality(UnderWay) - 1
    <2>1. Cardinality(UnderWay) # 0
      BY <1>1, <1>4, FS_EmptySet
    <2> QED BY <1>1, <1>2, <1>4, <2>1, FS_RemoveElement
  <1> QED BY <1>1, <1>2, <1>3, <1>4

LEMMA BackupInitially == BackupAssumption /\ Backup!Init => BackupIInv
  <1> SUFFICES ASSUME BackupAssumption, Backup!Init PROVE BackupIInv
    OBVIOUS
  <1>1. Backup!AsInstalled \in Backup!Settings /\ Backup!Valid(Backup!AsInstalled)
    BY DEF Backup!AsInstalled, Backup!Settings, Backup!Valid
  <1>2. \A s \in Backup!Settings : Backup!Form(s) \in Backup!Forms
    BY DEF Backup!Form, Backup!Settings, Backup!Forms
  <1>3. visit = 1 /\ tabGets = <<1>>
    BY DEF Backup!Init
  <1>4. Backup!NoJob \in TabJob(1) /\ Backup!NoJob.kind = "none" /\ ~Backup!NoJob.button
    BY <1>1, <1>2 DEF Backup!NoJob, TabJob
  <1>5. requests \in [TabJobIds -> TabJob(1)] /\ \A j \in TabJobIds : requests[j] = Backup!NoJob
    BY <1>4 DEF Backup!Init
  <1>6. TabKept /\ StoreKept
    BY <1>1, <1>2, <1>3 DEF Backup!Init, BackupAssumption, TabKept, StoreKept, ArchivesAreValid
  <1>7. tabGets \in [1..visit -> 0..MaxClicks + 1] /\ AnswersAreAskedFor
    <2>1. UnderWay = {}
      BY <1>4, <1>5 DEF UnderWay
    <2>2. Cardinality(UnderWay) = 0
      BY <2>1, FS_EmptySet
    <2> QED BY <1>3, <2>2 DEF AnswersAreAskedFor, BackupAssumption, Backup!Init
  <1>8. /\ ButtonsAreOnTheirPage /\ SavesHaveOneStage
        /\ Backup!TestedAsShown /\ Backup!ButtonsComeBack
    BY <1>4, <1>5 DEF Backup!Init, ButtonsAreOnTheirPage, SavesHaveOneStage,
                      Backup!TestedAsShown, Backup!ButtonsComeBack
  <1> QED BY <1>3, <1>5, <1>6, <1>7, <1>8, TabTogether

(* A request whose button is taken away.                                   *)
LEMMA ButtonTaken ==
    ASSUME NEW Ks, NEW Ss, NEW Fs, NEW As, NEW Rs,
           NEW q \in [kind : Ks, stage : Ss, form : Fs, arch : As, root : Rs, button : BOOLEAN,
                      raced : BOOLEAN]
    PROVE  /\ [q EXCEPT !.button = FALSE] \in [kind : Ks, stage : Ss, form : Fs, arch : As, root : Rs,
                                               button : BOOLEAN, raced : BOOLEAN]
           /\ [q EXCEPT !.button = FALSE].kind = q.kind
           /\ [q EXCEPT !.button = FALSE].stage = q.stage
           /\ [q EXCEPT !.button = FALSE].form = q.form
           /\ [q EXCEPT !.button = FALSE].raced = q.raced
           /\ ~[q EXCEPT !.button = FALSE].button
  OBVIOUS

(* New buttons: every request is as before, but holds none.                *)
LEMMA OrphanedJobs ==
    ASSUME BackupIInv
    PROVE  /\ Backup!Orphaned \in [TabJobIds -> TabJob(visit)]
           /\ \A j \in TabJobIds :
                 /\ Backup!Orphaned[j].kind = requests[j].kind /\ ~Backup!Orphaned[j].button
                 /\ Backup!Orphaned[j].stage = requests[j].stage
                 /\ Backup!Orphaned[j].form = requests[j].form
                 /\ Backup!Orphaned[j].raced = requests[j].raced
  <1>1. \A j \in TabJobIds : requests[j] \in TabJob(visit)
    BY TabTogether
  <1>2. \A j \in TabJobIds : Backup!Orphaned[j] = [requests[j] EXCEPT !.button = FALSE]
    BY DEF Backup!Orphaned
  <1>3. ASSUME NEW q \in TabJob(visit)
        PROVE  /\ [q EXCEPT !.button = FALSE] \in TabJob(visit)
               /\ [q EXCEPT !.button = FALSE].kind = q.kind
               /\ [q EXCEPT !.button = FALSE].stage = q.stage
               /\ [q EXCEPT !.button = FALSE].form = q.form
               /\ [q EXCEPT !.button = FALSE].raced = q.raced
               /\ ~[q EXCEPT !.button = FALSE].button
    BY <1>3, ButtonTaken DEF TabJob
  <1>4. \A j \in TabJobIds : Backup!Orphaned[j] \in TabJob(visit)
    BY <1>1, <1>2, <1>3
  <1>5. Backup!Orphaned \in [TabJobIds -> TabJob(visit)]
    BY <1>4 DEF Backup!Orphaned
  <1> QED BY <1>1, <1>2, <1>3, <1>5

(* A step that draws the tab, or opens the page, with new buttons.         *)
LEMMA DrawnAnew ==
    ASSUME BackupAssumption, BackupIInv, TabKept', visit' >= visit,
           UNCHANGED <<settings, archives, clicks>>, requests' = Backup!Orphaned, off' = {},
           tabGets' \in [1..visit' -> Nat],
           \A v \in 1..visit' : \/ tabGets'[v] <= 1
                                \/ v \in 1..visit /\ tabGets'[v] <= tabGets[v]
    PROVE  BackupIInv'
  <1>1. /\ \A j \in TabJobIds : requests[j] \in TabJob(visit)
        /\ visit \in 1..MaxVisits /\ clicks \in 0..MaxClicks
        /\ tabGets \in [1..visit -> 0..MaxClicks + 1]
    BY TabTogether DEF TabKept
  <1>2. visit' \in Nat /\ visit \in Nat
    BY <1>1 DEF TabKept
  <1>3. requests' \in [TabJobIds -> TabJob(visit)] /\ TabJob(visit) \subseteq TabJob(visit')
    BY <1>2, OrphanedJobs DEF TabJob
  <1>4. requests' \in [TabJobIds -> TabJob(visit')]
    BY <1>3
  <1>5. UnderWay' = UnderWay
    BY OrphanedJobs DEF UnderWay
  <1>6. AnswersAreAskedFor'
    <2>1. Cardinality(UnderWay) \in Nat /\ Cardinality(UnderWay) <= clicks
      BY UnderWayCounted, TabTogether DEF AnswersAreAskedFor
    <2>2. \A v \in 1..visit' : tabGets'[v] + Cardinality(UnderWay) <= clicks + 1
      <3> DEFINE n == Cardinality(UnderWay)
      <3>1. n \in Nat /\ n <= clicks /\ \A v \in 1..visit : tabGets[v] + n <= clicks + 1
        BY <2>1, TabTogether DEF AnswersAreAskedFor
      <3> HIDE DEF n
      <3>2. \A v \in 1..visit' : tabGets'[v] + n <= clicks + 1
        <4> SUFFICES ASSUME NEW v \in 1..visit' PROVE tabGets'[v] + n <= clicks + 1
          OBVIOUS
        <4>1. tabGets'[v] \in Nat /\ clicks \in Nat
          BY <1>1
        <4>2. CASE tabGets'[v] <= 1
          BY <3>1, <4>1, <4>2
        <4>3. CASE v \in 1..visit /\ tabGets'[v] <= tabGets[v]
          <5>1. tabGets[v] \in Nat /\ tabGets[v] + n <= clicks + 1
            BY <1>1, <3>1, <4>3
          <5> QED BY <3>1, <4>1, <4>3, <5>1
        <4> QED BY <4>2, <4>3
      <3> QED BY <3>2 DEF n
    <2> QED BY <1>5, <2>1, <2>2 DEF AnswersAreAskedFor
  <1>7. tabGets' \in [1..visit' -> 0..MaxClicks + 1]
    <2>1. \A v \in 1..visit' : tabGets'[v] \in 0..MaxClicks + 1
      BY <1>1 DEF BackupAssumption
    <2> QED BY <2>1
  <1>8. StoreKept' /\ Backup!TestedAsShown'
    BY OrphanedJobs, TabTogether
       DEF StoreKept, ArchivesAreValid, Backup!TestedAsShown, Backup!Valid, Backup!Merged
  <1>9. ButtonsAreOnTheirPage' /\ SavesHaveOneStage' /\ Backup!ButtonsComeBack'
    BY OrphanedJobs, TabTogether
       DEF ButtonsAreOnTheirPage, SavesHaveOneStage, Backup!ButtonsComeBack
  <1> QED BY <1>4, <1>6, <1>7, <1>8, <1>9
          DEF BackupIInv, Backup!TypeOK, Backup!Visits, TabKept, StoreKept, TabJob

(* A step that leaves the requests and the server alone.                   *)
LEMMA RequestsStand ==
    ASSUME BackupAssumption, BackupIInv, TabKept',
           UNCHANGED <<settings, archives, requests, clicks, visit, off>>, bound' \in {bound} \cup (1..visit \ {visit}),
           tabGets' \in [1..visit -> Nat], \A v \in 1..visit : tabGets'[v] <= tabGets[v],
           tabGets'[visit] = tabGets[visit]
    PROVE  BackupIInv'
  <1>1. /\ tabGets \in [1..visit -> 0..MaxClicks + 1] /\ clicks \in 0..MaxClicks
        /\ Cardinality(UnderWay) \in Nat
    BY UnderWayCounted, TabTogether DEF TabKept
  <1>2. UnderWay' = UnderWay
    BY DEF UnderWay
  <1>3. AnswersAreAskedFor'
    <2> DEFINE n == Cardinality(UnderWay)
    <2>1. n \in Nat /\ n <= clicks /\ \A v \in 1..visit : tabGets[v] + n <= clicks + 1
      BY <1>1, TabTogether DEF AnswersAreAskedFor
    <2> HIDE DEF n
    <2>2. \A v \in 1..visit : tabGets'[v] + n <= clicks + 1
      BY <1>1, <2>1
    <2> QED BY <1>2, <2>1, <2>2 DEF n, AnswersAreAskedFor
  <1>4. tabGets' \in [1..visit' -> 0..MaxClicks + 1]
    <2>1. \A v \in 1..visit : tabGets'[v] \in 0..MaxClicks + 1
      BY <1>1 DEF BackupAssumption
    <2> QED BY <2>1
  <1>5. StoreKept' /\ SavesHaveOneStage' /\ Backup!TestedAsShown'
    BY TabTogether DEF StoreKept, ArchivesAreValid, SavesHaveOneStage, Backup!TestedAsShown,
                       Backup!Valid, Backup!Merged
  <1>6. ButtonsAreOnTheirPage' /\ Backup!ButtonsComeBack'
    BY TabTogether DEF ButtonsAreOnTheirPage, Backup!ButtonsComeBack
  <1> QED BY <1>3, <1>4, <1>5, <1>6, TabTogether
          DEF BackupIInv, Backup!TypeOK, Backup!Visits, TabKept, StoreKept, TabJob

(* The answers, and the fields.                                            *)
LEMMA TabKeeps ==
    ASSUME BackupAssumption, BackupIInv,
           \/ \E v \in Backup!Visits : Backup!Answered(v) \/ Backup!Unanswered(v)
           \/ Backup!Open \/ Backup!SwitchEncrypt \/ Backup!SwitchOffsite
           \/ \E p \in Passphrases : Backup!Type(p)
    PROVE  BackupIInv' /\ UNCHANGED settings
  <1>1. /\ TabKept /\ StoreKept /\ visit \in Nat
        /\ tabGets \in [1..visit -> 0..MaxClicks + 1] /\ tabGets \in [1..visit -> Nat]
    <2>1. TabKept /\ StoreKept /\ tabGets \in [1..visit -> 0..MaxClicks + 1]
      BY TabTogether
    <2> QED BY <2>1 DEF TabKept, BackupAssumption
  <1>2. Backup!Form(settings) \in Backup!Forms
    BY <1>1 DEF StoreKept, Backup!Settings, Backup!Form, Backup!Forms
  <1>3. ASSUME NEW v \in Backup!Visits, Backup!Answered(v) \/ Backup!Unanswered(v)
        PROVE  BackupIInv' /\ UNCHANGED settings
    <2>1. /\ v \in 1..visit /\ tabGets[v] > 0 /\ tabGets' = [tabGets EXCEPT ![v] = tabGets[v] - 1]
          /\ UNCHANGED <<settings, archives, visit, clicks>>
      BY <1>1, <1>3 DEF Backup!Answered, Backup!Unanswered
    <2>2. /\ tabGets' \in [1..visit -> Nat]
          /\ \A u \in 1..visit : tabGets'[u] <= tabGets[u] /\ (u # v => tabGets'[u] = tabGets[u])
      BY <1>1, <2>1
    <2>3. CASE v = visit
      <3>1. TabKept' /\ requests' = Backup!Orphaned /\ off' = {}
        BY <1>1, <1>2, <1>3, <2>1, <2>3 DEF TabKept, StoreKept, Backup!Answered, Backup!Unanswered
      <3>2. \A u \in 1..visit' : u \in 1..visit /\ tabGets'[u] <= tabGets[u]
        BY <2>1, <2>2
      <3>3. visit' >= visit /\ tabGets' \in [1..visit' -> Nat]
        BY <1>1, <2>1, <2>2
      <3> QED BY <2>1, <3>1, <3>2, <3>3, DrawnAnew
    <2>4. CASE v # visit
      <3>1. /\ TabKept' /\ UNCHANGED <<requests, off>>
            /\ bound' \in {bound, v}
        BY <1>1, <1>3, <2>1, <2>4 DEF TabKept, StoreKept, Backup!Answered, Backup!Unanswered
      <3>2. bound' \in {bound} \cup (1..visit \ {visit})
        BY <2>1, <2>4, <3>1
      <3>3. tabGets'[visit] = tabGets[visit]
        BY <1>1, <2>2, <2>4 DEF TabKept
      <3> QED BY <2>1, <2>2, <3>1, <3>2, <3>3, RequestsStand
    <2> QED BY <2>3, <2>4
  <1>4. CASE Backup!Open
    <2>1. /\ visit' = visit + 1 /\ visit' \in 1..MaxVisits /\ bound' = visit'
          /\ tabGets' = Append(tabGets, 1) /\ status' = "empty" /\ tabListed' = {}
          /\ off' = {} /\ requests' = Backup!Orphaned /\ UNCHANGED <<settings, archives, tabForm, clicks>>
      BY <1>1, <1>4 DEF Backup!Open, BackupAssumption, TabKept
    <2>2. tabGets \in Seq(Nat) /\ Len(tabGets) = visit
      BY <1>1
    <2>3. /\ tabGets' \in [1..visit' -> Nat]
          /\ \A v \in 1..visit' : \/ tabGets'[v] <= 1
                                  \/ v \in 1..visit /\ tabGets'[v] <= tabGets[v]
      <3>1. Len(tabGets') = visit' /\ tabGets' \in Seq(Nat)
        BY <2>1, <2>2
      <3>2. \A v \in 1..visit' : tabGets'[v] = IF v = visit' THEN 1 ELSE tabGets[v]
        BY <2>1, <2>2
      <3>3. \A v \in 1..visit : tabGets[v] \in Nat
        BY <1>1
      <3>4. \A v \in 1..visit' : v = visit' \/ v \in 1..visit
        BY <1>1, <2>1
      <3> QED BY <3>1, <3>2, <3>3, <3>4
    <2>4. TabKept' /\ visit' >= visit
      BY <1>1, <2>1 DEF TabKept
    <2> QED BY <2>1, <2>3, <2>4, DrawnAnew
  <1>5. ASSUME Backup!Editing, tabForm' \in Backup!Forms PROVE BackupIInv' /\ UNCHANGED settings
    <2>1. UNCHANGED <<settings, archives, visit, tabGets, status, tabListed, off, bound, requests, clicks>>
      BY <1>5 DEF Backup!Editing
    <2>2. TabKept'
      BY <1>1, <1>5, <2>1 DEF TabKept
    <2>3. /\ tabGets' \in [1..visit -> Nat] /\ \A v \in 1..visit : tabGets'[v] <= tabGets[v]
          /\ bound' \in {bound} \cup (1..visit \ {visit})
      BY <1>1, <2>1
    <2> QED BY <2>1, <2>2, <2>3, RequestsStand
  <1>6. CASE Backup!SwitchEncrypt \/ Backup!SwitchOffsite \/ \E p \in Passphrases : Backup!Type(p)
    <2>1. Backup!Editing /\ tabForm' \in Backup!Forms
      BY <1>1, <1>6 DEF Backup!SwitchEncrypt, Backup!SwitchOffsite, Backup!Type, TabKept, Backup!Forms
    <2> QED BY <2>1, <1>5
  <1> QED BY <1>3, <1>4, <1>6

(* A click, or a confirmed dialog, starts one request from the page the    *)
(* buttons draw into.                                                      *)
LEMMA RequestStarts ==
    ASSUME BackupAssumption, BackupIInv, NEW j \in TabJobIds, NEW kind \in Backup!Kinds,
           NEW arch \in Backup!Settings, Backup!Start(j, kind, arch),
           off' = off \/ (kind \in Backup!Buttons /\ off' = off \cup {kind})
    PROVE  BackupIInv' /\ UNCHANGED settings
  <1> DEFINE act == [kind |-> kind, stage |-> Backup!FirstStage(kind), form |-> tabForm,
                     arch |-> arch, root |-> bound, button |-> kind \in Backup!Buttons,
                     raced |-> FALSE]
  <1>1. /\ requests[j].kind = "none" /\ clicks < MaxClicks /\ clicks' = clicks + 1
        /\ requests' = [requests EXCEPT ![j] = act]
        /\ UNCHANGED <<settings, archives, visit, tabGets, status, tabForm, tabListed, bound>>
    BY DEF Backup!Start, Backup!Idle
  <1>2. TabKept /\ StoreKept /\ requests \in [TabJobIds -> TabJob(visit)]
    BY TabTogether
  <1>3. "none" \notin Backup!Kinds /\ Backup!FirstStage(kind) \in {"put", "act"}
    BY DEF Backup!Kinds, Backup!Buttons, Backup!FirstStage
  <1>4. /\ act \in TabJob(visit) /\ act.kind = kind /\ ~act.raced /\ act.root = bound
        /\ act.stage = Backup!FirstStage(kind) /\ (act.button <=> kind \in Backup!Buttons)
    <2> DEFINE held == kind \in Backup!Buttons
    <2>1. /\ held \in BOOLEAN /\ tabForm \in Backup!Forms /\ bound \in 1..visit
          /\ kind \in Backup!Kinds \cup {"none"} /\ Backup!FirstStage(kind) \in {"put", "act"}
      BY <1>2, <1>3 DEF TabKept
    <2>2. act = [kind |-> kind, stage |-> Backup!FirstStage(kind), form |-> tabForm,
                 arch |-> arch, root |-> bound, button |-> held, raced |-> FALSE]
      OBVIOUS
    <2> HIDE DEF held, act
    <2>3. act \in TabJob(visit)
      BY <2>1, <2>2 DEF TabJob
    <2>4. /\ act.kind = kind /\ ~act.raced /\ act.root = bound /\ act.button = held
          /\ act.stage = Backup!FirstStage(kind)
      BY <2>2
    <2> QED BY <2>3, <2>4 DEF held
  <1> HIDE DEF act
  <1>5. TabKept' /\ StoreKept'
    BY <1>1, <1>2 DEF TabKept, StoreKept, ArchivesAreValid, Backup!Valid, BackupAssumption
  <1>6. /\ requests' \in [TabJobIds -> TabJob(visit)] /\ requests'[j] = act
        /\ \A i \in TabJobIds : i # j => requests'[i] = requests[i]
    BY <1>1, <1>2, <1>4
  <1>7. UnderWay' = UnderWay \cup {j}
    BY <1>3, <1>4, <1>6 DEF UnderWay
  <1>8. AnswersAreAskedFor' /\ tabGets' \in [1..visit' -> 0..MaxClicks + 1]
    <2> DEFINE n == Cardinality(UnderWay)
               m == Cardinality(UnderWay \cup {j})
    <2>1. n \in Nat /\ m \in {n, n + 1} /\ n <= clicks /\ clicks \in Nat
          /\ tabGets \in [1..visit -> 0..MaxClicks + 1]
          /\ \A v \in 1..visit : tabGets[v] + n <= clicks + 1
      <3>1. n \in Nat /\ m \in {n, n + 1}
        BY UnderWayCounted
      <3>2. clicks \in Nat
        BY <1>2 DEF TabKept
      <3>3. n <= clicks /\ \A v \in 1..visit : tabGets[v] + n <= clicks + 1
        BY TabTogether DEF AnswersAreAskedFor
      <3> QED BY <3>1, <3>2, <3>3, TabTogether
    <2> HIDE DEF n, m
    <2>2. m <= clicks + 1 /\ \A v \in 1..visit : tabGets[v] + m <= clicks + 2
      BY <2>1
    <2>3. clicks + 2 = clicks' + 1 /\ m <= clicks'
      BY <1>1, <2>1, <2>2
    <2>4. Cardinality(UnderWay)' = m
      BY <1>7 DEF m
    <2> QED BY <1>1, <2>1, <2>2, <2>3, <2>4 DEF AnswersAreAskedFor
  <1>9. SavesHaveOneStage' /\ Backup!TestedAsShown'
    <2>1. kind \in {"save", "test"} => act.stage = "put"
      BY <1>4 DEF Backup!FirstStage
    <2>2. \A i \in TabJobIds :
             requests'[i].kind = "save" => requests'[i].stage = "put"
      BY <1>4, <1>6, <2>1, TabTogether DEF SavesHaveOneStage
    <2>3. \A i \in TabJobIds :
             requests'[i].kind = "test" /\ ~requests'[i].raced /\ requests'[i].stage = "act" =>
                i # j
      BY <1>4, <1>6, <2>1
    <2> QED BY <1>1, <1>6, <2>2, <2>3, TabTogether
            DEF SavesHaveOneStage, Backup!TestedAsShown, Backup!Merged
  <1>10. ButtonsAreOnTheirPage'
    BY <1>1, <1>4, <1>6, TabTogether DEF ButtonsAreOnTheirPage
  <1>11. Backup!ButtonsComeBack'
    <2> SUFFICES ASSUME NEW b \in off', bound = visit
                 PROVE  tabGets[visit] > 0
                        \/ \E i \in TabJobIds : requests'[i].kind = b /\ requests'[i].button
      BY <1>1 DEF Backup!ButtonsComeBack
    <2>1. CASE b \in off
      <3>1. \/ tabGets[visit] > 0
            \/ \E i \in TabJobIds : requests[i].kind = b /\ requests[i].button
        BY <2>1, TabTogether DEF Backup!ButtonsComeBack
      <3>2. b # "none"
        BY <1>2, <2>1 DEF TabKept, Backup!Buttons
      <3> QED BY <1>1, <1>6, <3>1, <3>2
    <2>2. CASE b \notin off
      <3>1. b = kind /\ kind \in Backup!Buttons
        BY <2>2
      <3> QED BY <1>4, <1>6, <3>1
    <2> QED BY <2>1, <2>2
  <1>12. TabJob(visit') = TabJob(visit) /\ off' \subseteq Backup!Buttons
    BY <1>1, <1>2 DEF TabKept
  <1> QED BY <1>1, <1>5, <1>6, <1>8, <1>9, <1>10, <1>11, <1>12
          DEF BackupIInv, Backup!TypeOK, Backup!Visits, TabKept, StoreKept, TabJob

(* A request that another one overtook.                                    *)
LEMMA RequestRaced ==
    ASSUME NEW Ks, NEW Ss, NEW Fs, NEW As, NEW Rs,
           NEW q \in [kind : Ks, stage : Ss, form : Fs, arch : As, root : Rs, button : BOOLEAN,
                      raced : BOOLEAN]
    PROVE  /\ [q EXCEPT !.raced = TRUE] \in [kind : Ks, stage : Ss, form : Fs, arch : As, root : Rs,
                                             button : BOOLEAN, raced : BOOLEAN]
           /\ [q EXCEPT !.raced = TRUE].kind = q.kind
           /\ [q EXCEPT !.raced = TRUE].stage = q.stage
           /\ [q EXCEPT !.raced = TRUE].form = q.form
           /\ [q EXCEPT !.raced = TRUE].root = q.root
           /\ [q EXCEPT !.raced = TRUE].button = q.button
           /\ [q EXCEPT !.raced = TRUE].raced
  OBVIOUS

Alike(p, q) == /\ p.kind = q.kind /\ p.stage = q.stage /\ p.form = q.form
               /\ p.root = q.root /\ p.button = q.button

LEMMA OvertakenJobs ==
    ASSUME BackupIInv, NEW j \in TabJobIds
    PROVE  /\ Backup!Overtaken(j) \in [TabJobIds -> TabJob(visit)]
           /\ Backup!Overtaken(j)[j] = requests[j]
           /\ \A i \in TabJobIds :
                 /\ Alike(Backup!Overtaken(j)[i], requests[i])
                 /\ i # j /\ requests[i].kind # "none" => Backup!Overtaken(j)[i].raced
  <1>1. \A i \in TabJobIds : requests[i] \in TabJob(visit)
    BY TabTogether
  <1>2. \A i \in TabJobIds :
           Backup!Overtaken(j)[i] = IF i = j \/ requests[i].kind = "none" THEN requests[i]
                                    ELSE [requests[i] EXCEPT !.raced = TRUE]
    BY DEF Backup!Overtaken, Backup!Idle
  <1>3. ASSUME NEW q \in TabJob(visit)
        PROVE  /\ [q EXCEPT !.raced = TRUE] \in TabJob(visit)
               /\ Alike([q EXCEPT !.raced = TRUE], q) /\ [q EXCEPT !.raced = TRUE].raced
    BY <1>3, RequestRaced DEF TabJob, Alike
  <1>4. \A i \in TabJobIds : Backup!Overtaken(j)[i] \in TabJob(visit)
    BY <1>1, <1>2, <1>3
  <1>5. Backup!Overtaken(j) \in [TabJobIds -> TabJob(visit)]
    BY <1>4 DEF Backup!Overtaken
  <1>6. \A i \in TabJobIds : Alike(Backup!Overtaken(j)[i], requests[i])
    BY <1>1, <1>2, <1>3 DEF Alike
  <1> QED BY <1>1, <1>2, <1>3, <1>5, <1>6

(* When a request ends, what it stored has overtaken the others.           *)
LEMMA OtherJobsAre ==
    ASSUME BackupIInv, NEW j \in TabJobIds
    PROVE  /\ Backup!OtherJobs(j) \in [TabJobIds -> TabJob(visit)]
           /\ \A i \in TabJobIds :
                 /\ Alike(Backup!OtherJobs(j)[i], requests[i])
                 /\ i # j /\ requests[i].kind # "none" /\ ~Backup!OtherJobs(j)[i].raced =>
                       settings' = settings /\ ~requests[i].raced
  <1>1. CASE settings' = settings
    <2>1. Backup!OtherJobs(j) = requests
      BY <1>1 DEF Backup!OtherJobs
    <2> QED BY <1>1, <2>1, TabTogether DEF Alike
  <1>2. CASE settings' # settings
    <2>1. Backup!OtherJobs(j) = Backup!Overtaken(j)
      BY <1>2 DEF Backup!OtherJobs
    <2> QED BY <2>1, OvertakenJobs
  <1> QED BY <1>1, <1>2

(* A request ends: its answer is drawn, or its button is given back.       *)
LEMMA RequestEnds ==
    ASSUME BackupAssumption, BackupIInv, NEW j \in TabJobIds, requests[j].kind # "none", StoreKept',
           Backup!EndsWell(j) \/ Backup!EndsBadly(j)
    PROVE  BackupIInv'
  <1> DEFINE others == Backup!OtherJobs(j)
             old == requests[j]
  <1>1. /\ TabKept /\ requests \in [TabJobIds -> TabJob(visit)]
        /\ tabGets \in [1..visit -> 0..MaxClicks + 1]
    BY TabTogether
  <1>2. old \in TabJob(visit) /\ old.root \in 1..visit
    BY <1>1 DEF TabJob
  <1>3. /\ requests' = [others EXCEPT ![j] = Backup!NoJob]
        /\ UNCHANGED <<visit, status, tabForm, tabListed, bound, clicks>>
        /\ \/ tabGets' = [tabGets EXCEPT ![old.root] = tabGets[old.root] + 1] /\ UNCHANGED off
           \/ UNCHANGED tabGets /\ off' = IF old.button THEN off \ {old.kind} ELSE off
    BY DEF Backup!EndsWell, Backup!EndsBadly
  <1>4. /\ others \in [TabJobIds -> TabJob(visit)]
        /\ \A i \in TabJobIds :
              /\ Alike(others[i], requests[i])
              /\ i # j /\ requests[i].kind # "none" /\ ~others[i].raced =>
                    settings' = settings /\ ~requests[i].raced
    BY OtherJobsAre
  <1> HIDE DEF others
  <1>5. Backup!NoJob \in TabJob(visit) /\ Backup!NoJob.kind = "none" /\ ~Backup!NoJob.button
    <2>1. Backup!AsInstalled \in Backup!Settings
      BY DEF Backup!AsInstalled, Backup!Settings
    <2>2. Backup!Form(Backup!AsInstalled) \in Backup!Forms
      BY <2>1 DEF Backup!Form, Backup!Settings, Backup!Forms
    <2>3. 1 \in 1..visit
      BY <1>1 DEF TabKept
    <2> QED BY <2>1, <2>2, <2>3 DEF Backup!NoJob, TabJob
  <1>6. /\ requests' \in [TabJobIds -> TabJob(visit)] /\ requests'[j] = Backup!NoJob
        /\ \A i \in TabJobIds : i # j => requests'[i] = others[i]
    BY <1>3, <1>4, <1>5
  <1>7. UnderWay' = UnderWay \ {j} /\ j \in UnderWay
    BY <1>4, <1>5, <1>6 DEF UnderWay, Alike
  <1>8. AnswersAreAskedFor' /\ tabGets' \in [1..visit -> 0..MaxClicks + 1]
    <2> DEFINE n == Cardinality(UnderWay)
    <2>1. n \in Nat \ {0} /\ Cardinality(UnderWay)' = n - 1
      BY <1>7, UnderWayCounted
    <2>2. clicks \in 0..MaxClicks /\ MaxClicks \in Nat
      BY <1>1 DEF TabKept, BackupAssumption
    <2>3. n <= clicks /\ \A v \in 1..visit : tabGets[v] + n <= clicks + 1
      BY TabTogether DEF AnswersAreAskedFor
    <2> HIDE DEF n
    <2>4. /\ tabGets' \in [1..visit -> Nat]
          /\ \A v \in 1..visit : tabGets'[v] <= tabGets[v] + 1
      <3> DEFINE r == old.root
      <3>1. /\ r \in 1..visit
            /\ tabGets' = [tabGets EXCEPT ![r] = tabGets[r] + 1] \/ UNCHANGED tabGets
        BY <1>2, <1>3
      <3>2. \A v \in 1..visit : tabGets[v] \in Nat
        BY <1>1
      <3> HIDE DEF r
      <3>3. CASE UNCHANGED tabGets
        BY <1>1, <3>2, <3>3
      <3>4. CASE tabGets' = [tabGets EXCEPT ![r] = tabGets[r] + 1]
        BY <1>1, <3>1, <3>2, <3>4
      <3> QED BY <3>1, <3>3, <3>4
    <2>6. ASSUME NEW v \in 1..visit
          PROVE  tabGets'[v] + (n - 1) <= clicks + 1 /\ tabGets'[v] \in 0..MaxClicks + 1
      <3>1. tabGets'[v] \in Nat /\ tabGets[v] \in Nat /\ tabGets'[v] <= tabGets[v] + 1
            /\ tabGets[v] + n <= clicks + 1
        BY <1>1, <2>3, <2>4
      <3> QED BY <2>1, <2>2, <3>1
    <2>7. n - 1 <= clicks
      BY <2>1, <2>2, <2>3
    <2> QED BY <1>3, <2>1, <2>4, <2>6, <2>7 DEF AnswersAreAskedFor
  <1>9. SavesHaveOneStage'
    BY <1>4, <1>5, <1>6, TabTogether DEF SavesHaveOneStage, Alike
  <1>10. Backup!TestedAsShown'
    <2> SUFFICES ASSUME NEW i \in TabJobIds, requests'[i].kind = "test", ~requests'[i].raced,
                        requests'[i].stage = "act"
                 PROVE  settings' = Backup!Merged(requests'[i].form, settings')
      BY DEF Backup!TestedAsShown, Backup!Merged
    <2>1. i # j /\ requests'[i] = others[i] /\ requests[i].kind = "test"
      BY <1>4, <1>5, <1>6 DEF Alike
    <2>2. settings' = settings /\ ~requests[i].raced /\ requests[i].stage = "act"
          /\ requests'[i].form = requests[i].form
      BY <1>4, <2>1 DEF Alike
    <2> QED BY <2>1, <2>2, TabTogether DEF Backup!TestedAsShown, Backup!Merged
  <1>11. ButtonsAreOnTheirPage'
    BY <1>3, <1>4, <1>5, <1>6, TabTogether DEF ButtonsAreOnTheirPage, Alike
  <1>12. Backup!ButtonsComeBack'
    <2> SUFFICES ASSUME NEW b \in off', bound = visit
                 PROVE  tabGets'[visit] > 0
                        \/ \E i \in TabJobIds : requests'[i].kind = b /\ requests'[i].button
      BY <1>3 DEF Backup!ButtonsComeBack
    <2>1. b \in off /\ visit \in 1..visit
      BY <1>1, <1>3 DEF TabKept
    <2>2. \/ tabGets[visit] > 0
          \/ \E i \in TabJobIds : requests[i].kind = b /\ requests[i].button
      BY <2>1, TabTogether DEF Backup!ButtonsComeBack
    <2>3. CASE tabGets[visit] > 0
      BY <1>1, <1>2, <1>3, <2>1, <2>3
    <2>4. ASSUME NEW i \in TabJobIds, requests[i].kind = b, requests[i].button, i # j
          PROVE  requests'[i].kind = b /\ requests'[i].button
      BY <1>4, <1>6, <2>4 DEF Alike
    <2>5. CASE old.kind = b /\ old.button
      <3>1. old.root = visit
        BY <2>5, TabTogether DEF ButtonsAreOnTheirPage
      <3>2. b \notin off \ {old.kind}
        BY <2>5
      <3>3. tabGets' = [tabGets EXCEPT ![visit] = tabGets[visit] + 1]
        BY <1>3, <2>5, <3>1, <3>2
      <3> QED BY <1>1, <2>1, <3>3
    <2> QED BY <2>2, <2>3, <2>4, <2>5
  <1>13. TabKept'
    BY <1>1, <1>3 DEF TabKept
  <1> QED BY <1>3, <1>6, <1>8, <1>9, <1>10, <1>11, <1>12, <1>13
          DEF BackupIInv, Backup!TypeOK, Backup!Visits, TabKept, StoreKept, TabJob

(* What a request stores, if anything: valid settings, with another        *)
(* passphrase only as its form or its archive says.                        *)
SecretKept(j) ==
    settings'.pass # settings.pass =>
        \/ settings'.pass = requests[j].form.typed /\ settings'.pass # NoPass
        \/ requests[j].kind = "restore"

LEMMA PutStores ==
    ASSUME BackupIInv, NEW j \in TabJobIds, Backup!Put(j)
    PROVE  StoreKept' /\ SecretKept(j) /\ requests[j].kind # "none"
  <1>1. StoreKept /\ requests[j].form \in Backup!Forms
    BY TabTogether DEF TabJob
  <1>2. /\ settings' = Backup!Merged(requests[j].form, settings) /\ Backup!Valid(settings')
        /\ UNCHANGED archives /\ requests[j].kind # "none"
    BY DEF Backup!Put, Backup!Wish, Backup!Idle
  <1>3. settings' \in Backup!Settings
    BY <1>1, <1>2 DEF Backup!Merged, StoreKept, Backup!Forms, Backup!Settings
  <1>4. SecretKept(j)
    BY <1>2 DEF SecretKept, Backup!Merged
  <1> QED BY <1>1, <1>2, <1>3, <1>4 DEF StoreKept, ArchivesAreValid, Backup!Valid

LEMMA EffectStores ==
    ASSUME BackupIInv, NEW j \in TabJobIds, Backup!Acting(j), Backup!Effect(j)
    PROVE  StoreKept' /\ SecretKept(j) /\ requests[j].kind # "none"
  <1>1. StoreKept
    BY TabTogether
  <1>2. requests[j].kind \in {"now", "test", "delete", "restore"}
    <2>1. requests[j].kind \in Backup!Kinds \cup {"none"} /\ requests[j].stage = "act"
          /\ requests[j].kind # "none"
      BY TabTogether DEF TabJob, Backup!Acting, Backup!Idle
    <2>2. requests[j].kind # "save"
      BY <2>1, TabTogether DEF SavesHaveOneStage
    <2> QED BY <2>1, <2>2 DEF Backup!Kinds, Backup!Buttons
  <1>3. /\ archives' \subseteq archives \cup {settings}
        /\ settings' = settings \/ (requests[j].kind = "restore" /\ settings' \in archives)
    BY <1>2 DEF Backup!Effect
  <1>4. settings' \in Backup!Settings /\ Backup!Valid(settings')
    BY <1>1, <1>3 DEF StoreKept, ArchivesAreValid
  <1>5. \A a \in archives' : a \in Backup!Settings /\ Backup!Valid(a)
    BY <1>1, <1>3 DEF StoreKept, ArchivesAreValid
  <1> QED BY <1>2, <1>3, <1>4, <1>5 DEF StoreKept, ArchivesAreValid, SecretKept, Backup!Valid

(* The test's form is stored, and now it is tested.                        *)
LEMMA TestSaved ==
    ASSUME BackupAssumption, BackupIInv, NEW j \in TabJobIds, Backup!SavedForTest(j)
    PROVE  BackupIInv'
  <1> DEFINE others == Backup!Overtaken(j)
             old == requests[j]
             act == [old EXCEPT !.stage = "act", !.raced = FALSE]
  <1>1. /\ TabKept /\ old \in TabJob(visit) /\ StoreKept' /\ old.kind = "test"
        /\ settings' = Backup!Merged(old.form, settings)
    BY PutStores, TabTogether DEF Backup!SavedForTest, Backup!Put, Backup!Wish
  <1>2. /\ others \in [TabJobIds -> TabJob(visit)] /\ others[j] = old
        /\ \A i \in TabJobIds :
              /\ Alike(others[i], requests[i])
              /\ i # j /\ requests[i].kind # "none" => others[i].raced
    BY OvertakenJobs
  <1>3. /\ requests' = [[others EXCEPT ![j].stage = "act"] EXCEPT ![j].raced = FALSE]
        /\ UNCHANGED <<visit, tabGets, status, tabForm, tabListed, off, bound, clicks>>
    BY DEF Backup!SavedForTest
  <1> HIDE DEF others
  <1>4. requests' = [others EXCEPT ![j] = act]
    BY <1>1, <1>2, <1>3 DEF TabJob
  <1>5. /\ act \in TabJob(visit) /\ act.kind = "test" /\ act.form = old.form
        /\ act.root = old.root /\ act.button = old.button
    BY <1>1 DEF TabJob
  <1> HIDE DEF act
  <1>6. /\ requests' \in [TabJobIds -> TabJob(visit)] /\ requests'[j] = act
        /\ \A i \in TabJobIds : i # j => requests'[i] = others[i]
    BY <1>2, <1>4, <1>5
  <1>7. \A i \in TabJobIds : /\ requests'[i].kind = requests[i].kind
                             /\ requests'[i].root = requests[i].root
                             /\ requests'[i].button = requests[i].button
    BY <1>1, <1>2, <1>5, <1>6 DEF Alike
  <1>8. UnderWay' = UnderWay
    BY <1>7 DEF UnderWay
  <1>9. AnswersAreAskedFor'
    BY <1>3, <1>8, TabTogether DEF AnswersAreAskedFor
  <1>10. SavesHaveOneStage'
    BY <1>2, <1>5, <1>6, TabTogether DEF SavesHaveOneStage, Alike
  <1>11. Backup!TestedAsShown'
    <2> SUFFICES ASSUME NEW i \in TabJobIds, requests'[i].kind = "test", ~requests'[i].raced
                 PROVE  settings' = Backup!Merged(requests'[i].form, settings')
      BY DEF Backup!TestedAsShown, Backup!Merged
    <2>1. i = j
      BY <1>2, <1>6, <1>7
    <2> QED BY <1>1, <1>5, <1>6, <2>1 DEF Backup!Merged
  <1>12. ButtonsAreOnTheirPage' /\ Backup!ButtonsComeBack'
    <2>1. ButtonsAreOnTheirPage /\ Backup!ButtonsComeBack
      BY TabTogether
    <2>2. ButtonsAreOnTheirPage'
      BY <1>3, <1>7, <2>1 DEF ButtonsAreOnTheirPage
    <2>3. Backup!ButtonsComeBack'
      <3> SUFFICES ASSUME NEW b \in off', bound' = visit'
                   PROVE  tabGets'[visit'] > 0
                          \/ \E i \in TabJobIds : requests'[i].kind = b /\ requests'[i].button
        BY DEF Backup!ButtonsComeBack
      <3>1. \/ tabGets[visit] > 0
            \/ \E i \in TabJobIds : requests[i].kind = b /\ requests[i].button
        BY <1>3, <2>1 DEF Backup!ButtonsComeBack
      <3> QED BY <1>3, <1>7, <3>1
    <2> QED BY <2>2, <2>3
  <1>13. TabKept'
    BY <1>1, <1>3 DEF TabKept
  <1>14. tabGets' \in [1..visit' -> 0..MaxClicks + 1]
    BY <1>3, TabTogether
  <1> QED BY <1>1, <1>3, <1>6, <1>9, <1>10, <1>11, <1>12, <1>13, <1>14
          DEF BackupIInv, Backup!TypeOK, Backup!Visits, TabKept, StoreKept, TabJob

LEMMA TabStepKeeps ==
    ASSUME BackupAssumption, BackupIInv, NEW j \in TabJobIds, Backup!Step(j)
    PROVE  BackupIInv' /\ SecretKept(j) /\ ~Backup!Idle(j)
  <1>1. CASE Backup!Saved(j) \/ Backup!SavedUnheard(j)
    BY <1>1, PutStores, RequestEnds DEF Backup!Saved, Backup!SavedUnheard, Backup!Idle
  <1>2. CASE Backup!SavedForTest(j)
    BY <1>2, PutStores, TestSaved DEF Backup!SavedForTest, Backup!Idle
  <1>3. CASE Backup!Done(j) \/ Backup!DoneUnheard(j)
    BY <1>3, EffectStores, RequestEnds DEF Backup!Done, Backup!DoneUnheard, Backup!Idle
  <1>4. CASE Backup!NotSaved(j) \/ Backup!NotDone(j)
    <2>1. UNCHANGED <<settings, archives>> /\ Backup!EndsBadly(j) /\ ~Backup!Idle(j)
      BY <1>4 DEF Backup!NotSaved, Backup!NotDone, Backup!Acting
    <2>2. StoreKept'
      BY <2>1, TabTogether DEF StoreKept, ArchivesAreValid, Backup!Valid
    <2> QED BY <2>1, <2>2, RequestEnds DEF SecretKept, Backup!Idle
  <1> QED BY <1>1, <1>2, <1>3, <1>4 DEF Backup!Step

LEMMA BackupInductive ==
    ASSUME BackupAssumption, BackupIInv, [Backup!Next]_(Backup!tabVars)
    PROVE  /\ BackupIInv'
           /\ \/ UNCHANGED settings
              \/ \E j \in TabJobIds : ~Backup!Idle(j) /\ SecretKept(j)
  <1>1. CASE UNCHANGED Backup!tabVars
    <2>1. UNCHANGED <<settings, archives, visit, tabGets, status, tabForm, tabListed, off, bound,
                      requests, clicks>>
      BY <1>1 DEF Backup!tabVars
    <2> QED BY <2>1 DEF BackupIInv, Backup!TypeOK, AnswersAreAskedFor, UnderWay, ArchivesAreValid,
                        ButtonsAreOnTheirPage, SavesHaveOneStage, Backup!TestedAsShown,
                        Backup!ButtonsComeBack, Backup!Valid, Backup!Merged
  <1>2. ASSUME NEW j \in TabJobIds, NEW b \in Backup!Buttons, Backup!Click(j, b)
        PROVE  BackupIInv' /\ UNCHANGED settings
    <2>1. b \in Backup!Kinds /\ Backup!AsInstalled \in Backup!Settings
      BY DEF Backup!Kinds, Backup!AsInstalled, Backup!Settings
    <2> QED BY <1>2, <2>1, RequestStarts DEF Backup!Click
  <1>3. ASSUME NEW j \in TabJobIds, NEW a \in tabListed, NEW kind \in {"delete", "restore"},
               Backup!Confirm(j, kind, a)
        PROVE  BackupIInv' /\ UNCHANGED settings
    <2>1. kind \in Backup!Kinds /\ a \in Backup!Settings
      BY TabTogether DEF Backup!Kinds, TabKept
    <2> QED BY <1>3, <2>1, RequestStarts DEF Backup!Confirm
  <1>4. CASE Backup!Next
    BY <1>2, <1>3, <1>4, TabKeeps, TabStepKeeps DEF Backup!Next
  <1> QED BY <1>1, <1>4

LEMMA BackupInvariance == BackupAssumption => (Backup!Spec => []BackupIInv)
  <1> SUFFICES ASSUME BackupAssumption PROVE Backup!Spec => []BackupIInv
    OBVIOUS
  <1>1. BackupIInv /\ [Backup!Next]_(Backup!tabVars) => BackupIInv'
    BY BackupInductive
  <1> QED BY <1>1, BackupInitially, PTL DEF Backup!Spec

(* The types of the Backup tab's variables: among them that no page awaits *)
(* more answers than its clicks asked for.                                 *)
THEOREM BackupTabTypeCorrect == BackupAssumption => (Backup!Spec => []Backup!TypeOK)
  <1> SUFFICES ASSUME BackupAssumption PROVE Backup!Spec => []Backup!TypeOK
    OBVIOUS
  <1>1. BackupIInv => Backup!TypeOK
    BY DEF BackupIInv
  <1> QED BY <1>1, BackupInvariance, PTL

(* The Test button tests what the form said when it was clicked, unless    *)
(* another request stored something since (backuptab.js).                  *)
THEOREM TheTestIsOfTheForm == BackupAssumption => (Backup!Spec => []Backup!TestedAsShown)
  <1> SUFFICES ASSUME BackupAssumption PROVE Backup!Spec => []Backup!TestedAsShown
    OBVIOUS
  <1>1. BackupIInv => Backup!TestedAsShown
    BY DEF BackupIInv
  <1> QED BY <1>1, BackupInvariance, PTL

(* A button that is disabled has its request under way, or its tab is      *)
(* about to be drawn again (backuptab.js).                                 *)
THEOREM DisabledButtonsAreHeld == BackupAssumption => (Backup!Spec => []Backup!ButtonsComeBack)
  <1> SUFFICES ASSUME BackupAssumption PROVE Backup!Spec => []Backup!ButtonsComeBack
    OBVIOUS
  <1>1. BackupIInv => Backup!ButtonsComeBack
    BY DEF BackupIInv
  <1> QED BY <1>1, BackupInvariance, PTL

(* A stored passphrase is never cleared, and only a form that typed        *)
(* another one, or an archive that holds another, replaces it              *)
(* (backuptab.js, handlers_backup.go).                                     *)
THEOREM ThePassphraseSurvives == BackupAssumption => (Backup!Spec => Backup!SecretSurvives)
  <1> SUFFICES ASSUME BackupAssumption PROVE Backup!Spec => Backup!SecretSurvives
    OBVIOUS
  <1> DEFINE Survives ==
        settings'.pass # settings.pass =>
          \E j \in TabJobIds :
             ~Backup!Idle(j) /\ \/ settings'.pass = requests[j].form.typed /\ settings'.pass # NoPass
                                \/ requests[j].kind = "restore"
  <1>1. ASSUME BackupIInv, [Backup!Next]_(Backup!tabVars) PROVE Survives
    BY <1>1, BackupInductive DEF SecretKept
  <1>2. BackupIInv /\ [Backup!Next]_(Backup!tabVars) => [Survives]_(Backup!tabVars)
    BY <1>1
  <1> QED BY <1>2, BackupInvariance, PTL DEF Backup!Spec, Backup!SecretSurvives

-------------------------------------------------------------------------------
(***************************************************************************)
(* The certificate dialogs, for any domains and any number of jobs.        *)
(*                                                                         *)
(* Whatever is polled was started, and what is on screen was filled.       *)
(***************************************************************************)
Begun(i) == i \in CertJobIds /\ jobs[i] # Certs!NoJob
OnlyBegunIsPolled ==
    /\ pollTimer # Certs!NoTimer => Begun(pollTimer.job)
    /\ \A i \in ownTimers : Begun(i)
    /\ \A a \in answers : Begun(a.job)
ShownIsFilled == shown => box \in Certs!Box
CertsIInv == Certs!TypeOK /\ OnlyBegunIsPolled /\ ShownIsFilled

CertJob == [for : Domains, state : {"running", "waiting", "done", "error"}]
CertAnswer == [kind : {"issue", "domain"}, job : CertJobIds, step : {"poll", "list"}]

LEMMA BegunIsJob ==
    ASSUME CertsIInv, NEW i, Begun(i)
    PROVE  jobs[i] \in CertJob /\ jobs[i].for \in Domains
  BY DEF CertsIInv, Certs!TypeOK, Begun, CertJob

(* A dialog of one kind or the other is filled.                            *)
LEMMA FilledBox ==
    ASSUME CertsIInv, box.kind \in {"issue", "domain"} \/ box # Certs!NoBox
    PROVE  box \in Certs!Box
  BY DEF CertsIInv, Certs!TypeOK, Certs!NoBox

LEMMA EnabledTyped ==
    ASSUME CertsIInv, NEW kind, NEW d
    PROVE  /\ Certs!Enabled(kind, d) \in Certs!Box \cup {Certs!NoBox}
           /\ box \in Certs!Box => Certs!Enabled(kind, d) \in Certs!Box
  <1>1. box \in Certs!Box \cup {Certs!NoBox}
    BY DEF CertsIInv, Certs!TypeOK
  <1>2. box \in Certs!Box => [box EXCEPT !.busy = FALSE] \in Certs!Box
    BY DEF Certs!Box
  <1> QED BY <1>1, <1>2 DEF Certs!Enabled

(* Steps that leave the jobs and what is polled of them alone.             *)
LEMMA DialogStepsKeep ==
    ASSUME CertsAssumption, CertsIInv,
           \/ \E to \in {"certs", "domains"} : Certs!GoTo(to)
           \/ \E kind \in CertDialogs, d \in Domains : Certs!OpenDialog(kind, d)
           \/ Certs!Dismiss \/ Certs!SaveDomain \/ Certs!Start
           \/ \E d \in Domains : Certs!Detach(d)
           \/ \E q \in starts : Certs!StartRefused(q)
    PROVE  CertsIInv'
  <1> USE DEF Certs!TypeOK
  <1>1. ASSUME UNCHANGED <<jobs, ownTimers, answers>>,
               pollTimer' = pollTimer \/ pollTimer' = Certs!NoTimer
        PROVE  OnlyBegunIsPolled' /\ pollTimer' \in [job : CertJobIds \cup {0}, blind : BOOLEAN]
    <2>1. OnlyBegunIsPolled'
      BY <1>1 DEF CertsIInv, OnlyBegunIsPolled, Begun
    <2>2. Certs!NoTimer \in [job : CertJobIds \cup {0}, blind : BOOLEAN]
      BY DEF Certs!NoTimer
    <2> QED BY <1>1, <2>1, <2>2 DEF CertsIInv
  <1>2. ASSUME NEW to \in {"certs", "domains"}, Certs!GoTo(to) PROVE CertsIInv'
    BY <1>1, <1>2 DEF Certs!GoTo, Certs!Navigate, Certs!StopPolling, CertsIInv, ShownIsFilled
  <1>3. ASSUME NEW kind \in CertDialogs, NEW d \in Domains, Certs!OpenDialog(kind, d) PROVE CertsIInv'
    <2>1. certOf[d] \in Domains \cup {Certs!NoCert}
      BY DEF CertsIInv
    <2>2. Certs!Filled(kind, d) \in Certs!Box
      BY <2>1 DEF Certs!Filled, Certs!Box, CertsAssumption
    <2> QED BY <1>1, <1>3, <2>2 DEF Certs!OpenDialog, CertsIInv, ShownIsFilled
  <1>4. CASE Certs!Dismiss
    BY <1>1, <1>4 DEF Certs!Dismiss, Certs!CloseModal, CertsIInv, ShownIsFilled
  <1>5. CASE Certs!SaveDomain
    <2>1. box \in Certs!Box
      BY <1>5 DEF Certs!SaveDomain, CertsIInv, ShownIsFilled
    <2>2. box.cert \in Domains \cup {Certs!NoCert}
      BY <2>1 DEF Certs!Box
    <2> QED BY <1>1, <1>5, <2>2 DEF Certs!SaveDomain, Certs!CloseModal, CertsIInv, ShownIsFilled
  <1>6. CASE Certs!Start
    <2>1. box \in Certs!Box
      BY <1>6 DEF Certs!Start, CertsIInv, ShownIsFilled
    <2>2. /\ [box EXCEPT !.busy = TRUE] \in Certs!Box
          /\ [kind |-> box.kind, for |-> box.for] \in [kind : {"issue", "domain"}, for : Domains]
      BY <2>1 DEF Certs!Box
    <2> QED BY <1>1, <1>6, <2>2 DEF Certs!Start, CertsIInv, ShownIsFilled
  <1>7. ASSUME NEW d \in Domains, Certs!Detach(d) PROVE CertsIInv'
    BY <1>1, <1>7 DEF Certs!Detach, Certs!Navigate, Certs!StopPolling, CertsIInv, ShownIsFilled
  <1>8. ASSUME NEW q \in starts, Certs!StartRefused(q) PROVE CertsIInv'
    BY <1>1, <1>8, EnabledTyped DEF Certs!StartRefused, CertsIInv, ShownIsFilled
  <1> QED BY <1>2, <1>3, <1>4, <1>5, <1>6, <1>7, <1>8

(* The server's jobs, and the ticks that poll them.                        *)
LEMMA JobStepsKeep ==
    ASSUME CertsAssumption, CertsIInv,
           \/ \E q \in starts : Certs!Started(q)
           \/ \E i \in CertJobIds : Certs!JobStep(i) \/ Certs!OwnTick(i)
           \/ Certs!Tick
    PROVE  CertsIInv'
  <1> USE DEF Certs!TypeOK
  <1>1. ASSUME NEW q \in starts, Certs!Started(q) PROVE CertsIInv'
    <2>1. q \in [kind : {"issue", "domain"}, for : Domains]
      BY DEF CertsIInv
    <2>2. PICK i \in CertJobIds :
             /\ jobs[i] = Certs!NoJob /\ jobs' = [jobs EXCEPT ![i] = [for |-> q.for, state |-> "running"]]
             /\ \/ pollTimer' = [job |-> i, blind |-> box.kind # "issue"] /\ UNCHANGED ownTimers
                \/ ownTimers' = ownTimers \cup {i} /\ UNCHANGED pollTimer
      BY <1>1 DEF Certs!Started, Certs!Poll
    <2> DEFINE new == [for |-> q.for, state |-> "running"]
    <2>3. new \in CertJob /\ new # Certs!NoJob
      BY <2>1 DEF CertJob, Certs!NoJob
    <2> HIDE DEF new
    <2>4. jobs \in [CertJobIds -> {Certs!NoJob} \cup CertJob]
      BY DEF CertsIInv, CertJob
    <2>5. /\ jobs' \in [CertJobIds -> {Certs!NoJob} \cup CertJob]
          /\ \A k \in CertJobIds : jobs[k] # Certs!NoJob \/ k = i => jobs'[k] # Certs!NoJob
      BY <2>2, <2>3, <2>4 DEF new
    <2>6. /\ UNCHANGED <<onPage, box, shown, certOf, answers>> /\ starts' \subseteq starts
      BY <1>1 DEF Certs!Started
    <2>7. pollTimer' \in [job : CertJobIds \cup {0}, blind : BOOLEAN] /\ ownTimers' \subseteq CertJobIds
      <3>1. [job |-> i, blind |-> box.kind # "issue"] \in [job : CertJobIds \cup {0}, blind : BOOLEAN]
        OBVIOUS
      <3>2. /\ pollTimer \in [job : CertJobIds \cup {0}, blind : BOOLEAN]
            /\ ownTimers \subseteq CertJobIds
        BY DEF CertsIInv
      <3> QED BY <2>2, <3>1, <3>2
    <2>8. OnlyBegunIsPolled'
      BY <2>2, <2>5, <2>6 DEF CertsIInv, OnlyBegunIsPolled, Begun
    <2> QED BY <2>5, <2>6, <2>7, <2>8 DEF CertsIInv, ShownIsFilled, CertJob
  <1>2. ASSUME NEW i \in CertJobIds, Certs!JobStep(i) PROVE CertsIInv'
    <2>1. PICK state \in Certs!JobSteps(jobs[i].state) :
             /\ jobs' = [jobs EXCEPT ![i].state = state]
             /\ certOf' = IF state = "done" THEN [certOf EXCEPT ![jobs[i].for] = jobs[i].for]
                                            ELSE certOf
             /\ UNCHANGED <<onPage, box, shown, starts, pollTimer, ownTimers, answers>>
      BY <1>2 DEF Certs!JobStep
    <2>2. state \in {"running", "waiting", "done", "error"} /\ jobs[i].state \in {"running", "waiting"}
      BY <2>1 DEF Certs!JobSteps
    <2>3. Begun(i)
      BY <2>2 DEF Begun, Certs!NoJob
    <2> DEFINE new == [jobs[i] EXCEPT !.state = state]
    <2>4. new \in CertJob /\ new # Certs!NoJob /\ jobs[i].for \in Domains
      BY <2>2, <2>3, BegunIsJob DEF CertJob, Certs!NoJob
    <2>5. jobs' = [jobs EXCEPT ![i] = new] /\ jobs \in [CertJobIds -> {Certs!NoJob} \cup CertJob]
      BY <2>1 DEF CertsIInv, CertJob
    <2> HIDE DEF new
    <2>6. /\ jobs' \in [CertJobIds -> {Certs!NoJob} \cup CertJob]
          /\ \A k \in CertJobIds : jobs[k] # Certs!NoJob => jobs'[k] # Certs!NoJob
      BY <2>4, <2>5
    <2>7. certOf' \in [Domains -> Domains \cup {Certs!NoCert}]
      BY <2>1, <2>4 DEF CertsIInv
    <2>8. OnlyBegunIsPolled'
      BY <2>1, <2>6 DEF CertsIInv, OnlyBegunIsPolled, Begun
    <2> QED BY <2>1, <2>6, <2>7, <2>8 DEF CertsIInv, ShownIsFilled, CertJob
  <1>3. ASSUME NEW kind \in {"issue", "domain"}, NEW i, Begun(i), Certs!Ask(kind, i),
               UNCHANGED <<onPage, box, shown, certOf, jobs, starts, pollTimer, ownTimers>>
        PROVE  CertsIInv'
    <2>1. [kind |-> kind, job |-> i, step |-> "poll"] \in CertAnswer
      BY <1>3 DEF Begun, CertAnswer
    <2>2. answers' \subseteq CertAnswer /\ \A a \in answers' : Begun(a.job)
      BY <1>3, <2>1 DEF CertsIInv, OnlyBegunIsPolled, CertAnswer, Certs!Ask
    <2> QED BY <1>3, <2>2 DEF CertsIInv, OnlyBegunIsPolled, Begun, ShownIsFilled, CertAnswer
  <1>4. ASSUME NEW i \in CertJobIds, Certs!OwnTick(i) PROVE CertsIInv'
    BY <1>3, <1>4 DEF Certs!OwnTick, CertsIInv, OnlyBegunIsPolled
  <1>5. CASE Certs!Tick
    BY <1>3, <1>5 DEF Certs!Tick, CertsIInv, OnlyBegunIsPolled
  <1> QED BY <1>1, <1>2, <1>4, <1>5

(* The answers of polls: a failed job gives its dialog's buttons back, one *)
(* that is done closes the dialog, or fills the domain's fields.           *)
LEMMA AnswersKeep ==
    ASSUME CertsAssumption, CertsIInv, NEW a \in answers, Certs!Answer(a)
    PROVE  CertsIInv'
  <1> USE DEF Certs!TypeOK
  <1>1. /\ a \in CertAnswer /\ Begun(a.job) /\ jobs[a.job].for \in Domains
    BY BegunIsJob DEF CertsIInv, OnlyBegunIsPolled, CertAnswer
  <1>2. ASSUME UNCHANGED <<certOf, jobs, starts>>, onPage' \in {onPage, "certs"},
               box' \in Certs!Box \cup {Certs!NoBox}, box \in Certs!Box => box' \in Certs!Box,
               shown' = shown \/ shown' = FALSE,
               pollTimer' = pollTimer \/ pollTimer' = Certs!NoTimer,
               ownTimers' \subseteq ownTimers,
               \A b \in answers' : b \in CertAnswer /\ Begun(b.job)
        PROVE  CertsIInv'
    <2>1. Certs!NoTimer \in [job : CertJobIds \cup {0}, blind : BOOLEAN]
      BY DEF Certs!NoTimer
    <2>2. OnlyBegunIsPolled'
      BY <1>2 DEF CertsIInv, OnlyBegunIsPolled, Begun
    <2>3. ShownIsFilled'
      BY <1>2 DEF CertsIInv, ShownIsFilled
    <2>4. answers' \subseteq CertAnswer
      BY <1>2
    <2> QED BY <1>2, <2>1, <2>2, <2>3, <2>4 DEF CertsIInv, CertAnswer
  <1>3. \A b \in answers : b \in CertAnswer /\ Begun(b.job)
    BY DEF CertsIInv, OnlyBegunIsPolled, CertAnswer
  <1>4. box \in Certs!Box \cup {Certs!NoBox}
    BY DEF CertsIInv
  <1>5. CASE Certs!Polled(a)
    <2>1. /\ UNCHANGED <<certOf, jobs, starts, ownTimers>> /\ answers' = answers \ {a}
          /\ \/ UNCHANGED <<onPage, box, shown, pollTimer>>
             \/ /\ shown' = FALSE /\ onPage' = "certs" /\ pollTimer' = Certs!NoTimer /\ UNCHANGED box
             \/ /\ pollTimer' = Certs!NoTimer /\ UNCHANGED <<onPage, shown>>
                /\ box' = IF box.kind = "issue" THEN [box EXCEPT !.busy = FALSE] ELSE box
      BY <1>5 DEF Certs!Polled, Certs!CloseModal, Certs!Navigate, Certs!StopPolling
    <2>2. box.kind = "issue" => box \in Certs!Box /\ [box EXCEPT !.busy = FALSE] \in Certs!Box
      BY FilledBox DEF Certs!Box
    <2>3. box' \in Certs!Box \cup {Certs!NoBox} /\ (box \in Certs!Box => box' \in Certs!Box)
      BY <1>4, <2>1, <2>2
    <2> QED BY <1>2, <1>3, <2>1, <2>3
  <1>6. CASE Certs!OwnPolled(a)
    <2> DEFINE next == [a EXCEPT !.step = "list"]
    <2>1. /\ UNCHANGED <<onPage, shown, certOf, jobs, starts, pollTimer>>
          /\ ownTimers' \subseteq ownTimers /\ \A b \in answers' : b \in answers \/ b = next
          /\ box' = box \/ box' = Certs!Enabled("domain", jobs[a.job].for)
      BY <1>6 DEF Certs!OwnPolled
    <2>2. next \in CertAnswer /\ next.job = a.job
      BY <1>1 DEF CertAnswer
    <2> HIDE DEF next
    <2>3. box' \in Certs!Box \cup {Certs!NoBox} /\ (box \in Certs!Box => box' \in Certs!Box)
      BY <1>4, <2>1, EnabledTyped
    <2> QED BY <1>1, <1>2, <1>3, <2>1, <2>2, <2>3
  <1>7. CASE Certs!Listed(a)
    <2> DEFINE d == jobs[a.job].for
    <2>1. /\ UNCHANGED <<onPage, shown, certOf, jobs, starts, pollTimer, ownTimers>>
          /\ answers' = answers \ {a}
          /\ box' = Certs!Filling(d) \/ box' = Certs!Enabled("domain", d)
      BY <1>7 DEF Certs!Listed
    <2>2. Certs!Filling(d) \in Certs!Box \cup {Certs!NoBox}
          /\ (box \in Certs!Box => Certs!Filling(d) \in Certs!Box)
      <3>1. CASE box.kind = "domain"
        <4> DEFINE busy == box.busy /\ box.for # d
        <4>1. box \in Certs!Box /\ busy \in BOOLEAN /\ d \in Domains
          BY <1>1, <3>1, FilledBox
        <4> HIDE DEF busy, d
        <4>2. [box EXCEPT !.cert = d, !.busy = busy] \in Certs!Box
          BY <4>1 DEF Certs!Box
        <4> QED BY <3>1, <4>2 DEF Certs!Filling, busy, d
      <3>2. CASE box.kind # "domain"
        BY <1>4, <3>2 DEF Certs!Filling
      <3> QED BY <3>1, <3>2
    <2>3. box' \in Certs!Box \cup {Certs!NoBox} /\ (box \in Certs!Box => box' \in Certs!Box)
      BY <1>4, <2>1, <2>2, EnabledTyped
    <2> QED BY <1>2, <1>3, <2>1, <2>3
  <1> QED BY <1>5, <1>6, <1>7 DEF Certs!Answer

LEMMA CertsInductive ==
    ASSUME CertsAssumption, CertsIInv, [Certs!Next]_(Certs!jobVars)
    PROVE  CertsIInv'
  <1>1. CASE UNCHANGED Certs!jobVars
    <2>1. UNCHANGED <<onPage, box, shown, certOf, jobs, starts, pollTimer, ownTimers, answers>>
      BY <1>1 DEF Certs!jobVars
    <2> QED BY <2>1 DEF CertsIInv, Certs!TypeOK, OnlyBegunIsPolled, Begun, ShownIsFilled
  <1>2. CASE Certs!Next
    BY <1>2, DialogStepsKeep, JobStepsKeep, AnswersKeep DEF Certs!Next, Certs!StartAnswered
  <1> QED BY <1>1, <1>2

(* The types of the certificate dialogs' variables: among them that every  *)
(* job polled was started, and every dialog on screen filled.              *)
THEOREM CertsTypeCorrect == CertsAssumption => (Certs!Spec => []Certs!TypeOK)
  <1> SUFFICES ASSUME CertsAssumption PROVE Certs!Spec => []Certs!TypeOK
    OBVIOUS
  <1>1. Certs!Init => CertsIInv
    <2> SUFFICES ASSUME Certs!Init PROVE CertsIInv
      OBVIOUS
    <2>1. onPage \in {"certs", "domains"}
      BY DEF Certs!Init, Certs!PageOf
    <2>2. Certs!NoTimer \in [job : CertJobIds \cup {0}, blind : BOOLEAN]
      BY DEF Certs!NoTimer
    <2> QED BY <2>1, <2>2
            DEF Certs!Init, CertsIInv, Certs!TypeOK, OnlyBegunIsPolled, ShownIsFilled
  <1>2. CertsIInv /\ [Certs!Next]_(Certs!jobVars) => CertsIInv'
    BY CertsInductive
  <1>3. CertsIInv => Certs!TypeOK
    BY DEF CertsIInv
  <1> QED BY <1>1, <1>2, <1>3, PTL DEF Certs!Spec

-------------------------------------------------------------------------------
(***************************************************************************)
(* The logs page, for any logs, lines, levels and numbers of entries.      *)
(*                                                                         *)
(* Picking the places of a level and keeping the last few of them is the   *)
(* same as keeping each place with fewer than so many of its level after   *)
(* it: the k-th of the places has all but k of them behind it.             *)
(***************************************************************************)
Behind(I, i) == {j \in I : j > i}
Onwards(I, i) == {j \in I : j >= i}
LastFew(I, n) == {i \in I : Cardinality(Behind(I, i)) < n}

(* How many members are behind one, and behind it or it.                   *)
LEMMA BehindCounted ==
    ASSUME NEW I \in SUBSET Nat, IsFiniteSet(I), NEW i \in I
    PROVE  /\ Rank(I)[i] \in 1..Cardinality(I)
           /\ Cardinality(Behind(I, i)) = Cardinality(I) - Rank(I)[i]
           /\ Cardinality(Onwards(I, i)) = Cardinality(I) - Rank(I)[i] + 1
  <1>1. /\ Rank(I)[i] = Cardinality(AtMost(I, i)) /\ IsFiniteSet(AtMost(I, i))
        /\ Rank(I)[i] \in 1..Cardinality(I) /\ Cardinality(I) \in Nat
    BY AtMostFinite, FS_CardinalityType DEF Rank
  <1>2. I \ AtMost(I, i) = Behind(I, i) /\ I \cap AtMost(I, i) = AtMost(I, i)
    <2>1. \A j \in I : ~(j <= i) <=> j > i
      <3>1. i \in Nat /\ \A j \in I : j \in Nat
        OBVIOUS
      <3> QED BY <3>1
    <2> QED BY <2>1 DEF AtMost, Behind
  <1>3. IsFiniteSet(Behind(I, i)) /\ Cardinality(Behind(I, i)) = Cardinality(I) - Rank(I)[i]
    BY <1>1, <1>2, FS_Difference
  <1>4. Onwards(I, i) = Behind(I, i) \cup {i} /\ i \notin Behind(I, i)
    <2>1. (\A j \in I : j >= i <=> j > i \/ j = i) /\ ~(i > i)
      <3>1. i \in Nat /\ \A j \in I : j \in Nat
        OBVIOUS
      <3> QED BY <3>1
    <2> QED BY <2>1 DEF Behind, Onwards
  <1>5. Cardinality(Onwards(I, i)) = Cardinality(Behind(I, i)) + 1
    BY <1>3, <1>4, FS_AddElement
  <1> QED BY <1>1, <1>3, <1>5

(* The last few are as many as asked for, if there are so many, and with   *)
(* each of them all that are behind it.                                    *)
LEMMA LastFewCounted ==
    ASSUME NEW I \in SUBSET Nat, IsFiniteSet(I), NEW n \in Nat
    PROVE  /\ Cardinality(LastFew(I, n)) = IF Cardinality(I) <= n THEN Cardinality(I) ELSE n
           /\ \A i \in LastFew(I, n) :
                 /\ i \in I /\ Rank(I)[i] \in 1..Cardinality(I) /\ Rank(I)[i] > Cardinality(I) - n
                 /\ Cardinality(Onwards(LastFew(I, n), i)) = Cardinality(I) - Rank(I)[i] + 1
  <1> DEFINE c == Cardinality(I)
             r(i) == Rank(I)[i]
  <1>1. c \in Nat
    BY FS_CardinalityType
  <1>2. \A i \in I : r(i) \in 1..c /\ Cardinality(Behind(I, i)) = c - r(i)
    BY BehindCounted
  <1>3. LastFew(I, n) = {i \in I : r(i) > c - n}
    <2> HIDE DEF c, r
    <2>1. \A i \in I : Cardinality(Behind(I, i)) < n <=> r(i) > c - n
      BY <1>1, <1>2
    <2> QED BY <2>1 DEF LastFew
  <1>4. \A i, j \in I : i < j => r(i) < r(j)
    BY RankGrows DEF Rank
  <1>5. ASSUME NEW i \in LastFew(I, n)
        PROVE  /\ i \in I /\ r(i) \in 1..c /\ r(i) > c - n
               /\ Cardinality(Onwards(LastFew(I, n), i)) = c - r(i) + 1
    <2>1. i \in I /\ r(i) > c - n
      BY <1>3
    <2>2. ASSUME NEW j \in I, j >= i PROVE r(j) > c - n
      <3> HIDE DEF c, r
      <3>1. j = i \/ i < j
        BY <2>1, <2>2
      <3> QED BY <1>1, <1>2, <1>4, <2>1, <3>1
    <2>3. Onwards(LastFew(I, n), i) = Onwards(I, i)
      BY <1>3, <2>2 DEF Onwards
    <2> QED BY <1>2, <2>1, <2>3, BehindCounted
  <1>6. CASE c <= n
    <2>1. \A i \in I : r(i) > c - n
      <3> HIDE DEF c, r
      <3> QED BY <1>1, <1>2, <1>6
    <2>2. LastFew(I, n) = I
      BY <1>3, <2>1
    <2> QED BY <1>5, <1>6, <2>2
  <1>7. CASE ~(c <= n)
    <2> DEFINE k == Nth(I, c - n)
    <2>1. c - n \in 1..c
      <3> HIDE DEF c
      <3> QED BY <1>1, <1>7
    <2>2. k \in I /\ r(k) = c - n
      BY <2>1, NthRank
    <2>3. \A i \in I : r(i) > c - n <=> ~(i <= k)
      <3> HIDE DEF c, r, k
      <3> SUFFICES ASSUME NEW i \in I PROVE r(i) > c - n <=> ~(i <= k)
        OBVIOUS
      <3>1. i \in Nat /\ k \in Nat /\ r(i) \in Nat /\ r(k) \in Nat
        BY <1>2, <2>2
      <3>2. i < k \/ i = k \/ k < i
        BY <3>1
      <3> QED BY <1>4, <2>2, <3>1, <3>2
    <2>4. LastFew(I, n) = I \ AtMost(I, k) /\ I \cap AtMost(I, k) = AtMost(I, k)
      BY <1>3, <2>3 DEF AtMost
    <2>5. Cardinality(AtMost(I, k)) = c - n
      BY <2>2 DEF Rank
    <2>6. Cardinality(LastFew(I, n)) = c - (c - n)
      BY <2>4, <2>5, FS_Difference
    <2>7. c - (c - n) = n
      <3> HIDE DEF c
      <3> QED BY <1>1
    <2> QED BY <1>5, <1>7, <2>6, <2>7
  <1> QED BY <1>6, <1>7

(* Sizes and picked lists are the same within the page.                    *)
LEMMA SizeOnThePage == ASSUME NEW I PROVE Logs!Cardinality(I) = Cardinality(I)
  BY DEF Logs!Cardinality, Cardinality

LEMMA PickedOnThePage == ASSUME NEW s, NEW I PROVE Logs!Picked(s, I) = Picked(s, I)
  <1>1. \A k : Logs!Nth(I, k) = Nth(I, k)
    BY DEF Logs!Nth, Nth, Logs!Cardinality, Cardinality
  <1> QED BY <1>1, SizeOnThePage DEF Logs!Picked, Picked

(* The last few elements of a list, and a list turned round.               *)
LEMMA LastOfTyped ==
    ASSUME NEW V, NEW s \in Seq(V), NEW n \in Nat
    PROVE  /\ Logs!LastOf(s, n) \in Seq(V)
           /\ Len(Logs!LastOf(s, n)) = IF Len(s) <= n THEN Len(s) ELSE n
           /\ \A k \in 1..Len(Logs!LastOf(s, n)) :
                 Logs!LastOf(s, n)[k] = s[Len(s) - Len(Logs!LastOf(s, n)) + k]
  <1>1. Len(s) \in Nat /\ DOMAIN s = 1..Len(s)
    OBVIOUS
  <1>2. CASE Len(s) <= n
    <2>1. Logs!LastOf(s, n) = s
      BY <1>2 DEF Logs!LastOf
    <2>2. \A k \in 1..Len(s) : Len(s) - Len(s) + k = k
      BY <1>1
    <2> QED BY <1>2, <2>1, <2>2
  <1>3. CASE ~(Len(s) <= n)
    <2> DEFINE a == Len(s) - n + 1
               t == SubSeq(s, a, Len(s))
    <2>1. Logs!LastOf(s, n) = t
      BY <1>3 DEF Logs!LastOf
    <2>2. a \in Nat \ {0} /\ a \in 1..Len(s) + 1 /\ Len(s) - a + 1 = n
      BY <1>1, <1>3
    <2>3. t \in Seq(V) /\ Len(t) = n /\ \A k \in 1..n : t[k] = s[a + k - 1]
      <3> HIDE DEF a
      <3>1. \A i \in a..Len(s) : s[i] \in V
        BY <1>1, <2>2
      <3>2. t = [k \in 1..(Len(s) - a + 1) |-> s[a + k - 1]]
        BY <2>2
      <3>3. t = [k \in 1..n |-> s[a + k - 1]]
        BY <2>2, <3>2
      <3>4. \A k \in 1..n : a + k - 1 \in a..Len(s)
        BY <1>1, <2>2
      <3>5. t \in [1..n -> V]
        BY <3>1, <3>3, <3>4
      <3> HIDE DEF t
      <3> QED BY <3>3, <3>5
    <2>4. \A k \in 1..n : a + k - 1 = Len(s) - n + k
      BY <1>1
    <2> HIDE DEF a, t
    <2> QED BY <1>3, <2>1, <2>3, <2>4
  <1> QED BY <1>2, <1>3

LEMMA ReversedTyped ==
    ASSUME NEW V, NEW s \in Seq(V)
    PROVE  /\ Logs!Reversed(s) \in Seq(V) /\ Len(Logs!Reversed(s)) = Len(s)
           /\ \A k \in 1..Len(s) : Logs!Reversed(s)[k] = s[Len(s) + 1 - k]
  <1>1. Len(s) \in Nat /\ DOMAIN s = 1..Len(s)
    OBVIOUS
  <1>2. Logs!Reversed(s) = [i \in 1..Len(s) |-> s[Len(s) + 1 - i]]
    BY <1>1 DEF Logs!Reversed
  <1>3. \A i \in 1..Len(s) : Len(s) + 1 - i \in 1..Len(s)
    BY <1>1
  <1>4. Logs!Reversed(s) \in [1..Len(s) -> V]
    BY <1>1, <1>2, <1>3
  <1> QED BY <1>1, <1>2, <1>4

(* What is shown: the last few entries of the level, from behind.          *)
LEMMA ShownFacts ==
    ASSUME NEW kept \in [Sources -> Seq(Lines)], NEW src \in Sources, NEW lv, NEW n \in Nat
    PROVE  LET I == {i \in DOMAIN kept[src] : Logs!Matches(kept[src][i], lv)}
           IN  /\ Logs!Shown(kept, src, lv, n) \in Seq(Lines)
               /\ Len(Logs!Shown(kept, src, lv, n)) = Cardinality(LastFew(I, n))
               /\ \A i \in LastFew(I, n) :
                     Logs!Shown(kept, src, lv, n)[Cardinality(Onwards(LastFew(I, n), i))] = kept[src][i]
  <1> DEFINE s == kept[src]
             I == {i \in DOMAIN s : Logs!Matches(s[i], lv)}
             c == Cardinality(I)
             p == Picked(s, I)
             q == Logs!LastOf(p, n)
             m == Cardinality(LastFew(I, n))
  <1>1. s \in Seq(Lines) /\ Len(s) \in Nat /\ I \in SUBSET DOMAIN s /\ I \in SUBSET Nat
    OBVIOUS
  <1>2. p \in Seq(Lines) /\ Len(p) = c /\ IsFiniteSet(I) /\ c \in Nat
    BY <1>1, PickedFacts, FS_CardinalityType
  <1>3. m = IF c <= n THEN c ELSE n
    BY <1>1, <1>2, LastFewCounted
  <1>4. q \in Seq(Lines) /\ Len(q) = m /\ \A k \in 1..m : q[k] = p[c - m + k]
    <2> HIDE DEF p, c, m
    <2>1. q \in Seq(Lines) /\ Len(q) = IF c <= n THEN c ELSE n
      BY <1>2, LastOfTyped
    <2>2. \A k \in 1..Len(q) : q[k] = p[Len(p) - Len(q) + k]
      BY <1>2, LastOfTyped
    <2> HIDE DEF q
    <2> QED BY <1>2, <1>3, <2>1, <2>2
  <1>5. Logs!Shown(kept, src, lv, n) = Logs!Reversed(q)
    <2>1. Logs!Sifted(s, lv) = p
      BY PickedOnThePage DEF Logs!Sifted
    <2> QED BY <2>1 DEF Logs!Shown
  <1>6. /\ Logs!Reversed(q) \in Seq(Lines) /\ Len(Logs!Reversed(q)) = m
        /\ \A k \in 1..m : Logs!Reversed(q)[k] = q[m + 1 - k]
    <2> HIDE DEF q, m
    <2> QED BY <1>4, ReversedTyped
  <1>7. ASSUME NEW i \in LastFew(I, n)
        PROVE  Logs!Reversed(q)[Cardinality(Onwards(LastFew(I, n), i))] = s[i]
    <2> DEFINE r == Rank(I)[i]
    <2>1. /\ i \in I /\ r \in 1..c /\ r > c - n
          /\ Cardinality(Onwards(LastFew(I, n), i)) = c - r + 1
      <3> HIDE DEF I
      <3> QED BY <1>1, <1>2, <1>7, LastFewCounted
    <2>2. /\ c - r + 1 \in 1..m /\ m + 1 - (c - r + 1) \in 1..m
          /\ c - m + (m + 1 - (c - r + 1)) = r
      <3> HIDE DEF c, r, m
      <3> QED BY <1>2, <1>3, <2>1
    <2>3. Logs!Reversed(q)[c - r + 1] = p[r]
      <3> HIDE DEF c, r, m, q, p
      <3> QED BY <1>4, <1>6, <2>2
    <2>4. p[r] = s[Nth(I, r)]
      BY <2>1 DEF Picked
    <2>5. Nth(I, r) = i
      BY <1>1, <1>2, <2>1, NthRank
    <2> QED BY <2>1, <2>3, <2>4, <2>5
  <1> QED BY <1>5, <1>6, <1>7

(* What is on screen is always what the page would draw again.             *)
DrawnAsChosen ==
    /\ logPhase = "shown" => list = Logs!Shown(loaded, source, level, limit)
    /\ list # <<>> => copied = list
LogsIInv == Logs!TypeOK /\ DrawnAsChosen

LogRead == [read : BOOLEAN, lines : Seq(Lines)]

LEMMA Redrawn ==
    ASSUME LogsAssumption, LogsIInv, NEW logs \in [Sources -> Seq(Lines)], NEW src \in Sources,
           NEW lv \in Levels, NEW n \in Limits, Logs!Draw(logs, src, lv, n)
    PROVE  /\ list' = Logs!Shown(logs, src, lv, n)
           /\ list' \in Seq(Lines) /\ copied' \in Seq(Lines) /\ (list' # <<>> => copied' = list')
  <1>1. n \in Nat
    BY DEF LogsAssumption
  <1>2. Logs!Shown(logs, src, lv, n) \in Seq(Lines)
    BY <1>1, ShownFacts
  <1> QED BY <1>2 DEF Logs!Draw, LogsIInv, Logs!TypeOK

LEMMA LogsInitially == LogsAssumption /\ Logs!Init => LogsIInv
  <1> SUFFICES ASSUME LogsAssumption, Logs!Init PROVE LogsIInv
    OBVIOUS
  <1>1. Logs!AskAll \in [Sources -> LogRead]
    BY DEF Logs!AskAll, Logs!Unread, LogRead
  <1> QED BY <1>1 DEF LogsAssumption, Logs!Init, LogsIInv, Logs!TypeOK, DrawnAsChosen, LogRead

LEMMA LogsInductive ==
    ASSUME LogsAssumption, LogsIInv, [Logs!Next]_(Logs!logsVars)
    PROVE  LogsIInv'
  <1> USE DEF Logs!TypeOK
  <1>1. ASSUME UNCHANGED <<source, level, limit, list, copied, loaded>>,
               logPhase' = logPhase \/ (logPhase = "loading" /\ logPhase' = "failed"),
               files' \in [Sources -> Seq(Lines)],
               fetch' = Logs!NoFetch \/ fetch' \in [Sources -> LogRead]
        PROVE  LogsIInv'
    BY <1>1 DEF LogsIInv, DrawnAsChosen, LogRead, Logs!Shown, Logs!Sifted
  <1>2. CASE UNCHANGED Logs!logsVars
    <2>1. UNCHANGED <<files, loaded, source, level, limit, list, copied, fetch, logPhase>>
      BY <1>2 DEF Logs!logsVars
    <2> QED BY <1>1, <2>1 DEF LogsIInv, LogRead
  <1>3. ASSUME NEW s \in DOMAIN fetch
        PROVE  s \in Sources /\ fetch \in [Sources -> LogRead]
    BY <1>3 DEF LogsIInv, LogRead, Logs!NoFetch
  <1>4. ASSUME NEW lines \in Seq(Lines) PROVE Logs!Read(lines) \in LogRead
    BY DEF Logs!Read, LogRead
  <1>5. ASSUME NEW s \in Sources, Logs!Serve(s) PROVE LogsIInv'
    <2>1. /\ s \in DOMAIN fetch /\ UNCHANGED <<files, loaded, source, level, limit, list, copied, logPhase>>
          /\ fetch' = [fetch EXCEPT ![s] = Logs!Read(Logs!LastOf(files[s], Fetched))]
      BY <1>5 DEF Logs!Serve
    <2>2. Logs!LastOf(files[s], Fetched) \in Seq(Lines)
      BY LastOfTyped DEF LogsIInv, LogsAssumption
    <2>3. fetch' \in [Sources -> LogRead]
      BY <1>3, <1>4, <2>1, <2>2
    <2> QED BY <1>1, <2>1, <2>3 DEF LogsIInv
  <1>6. ASSUME NEW s \in Sources, Logs!ServeFails(s) PROVE LogsIInv'
    <2>1. /\ s \in DOMAIN fetch /\ UNCHANGED <<files, loaded, source, level, limit, list, copied>>
          /\ \/ fetch' = [fetch EXCEPT ![s] = Logs!Read(<<>>)] /\ UNCHANGED logPhase
             \/ /\ fetch' = Logs!NoFetch
                /\ logPhase' = IF logPhase = "loading" THEN "failed" ELSE logPhase
      BY <1>6 DEF Logs!ServeFails
    <2>2. Logs!Read(<<>>) \in LogRead
      <3>1. <<>> \in Seq(Lines)
        OBVIOUS
      <3> QED BY <1>4, <3>1
    <2>3. fetch' = Logs!NoFetch \/ fetch' \in [Sources -> LogRead]
      BY <1>3, <2>1, <2>2
    <2> QED BY <1>1, <2>1, <2>3 DEF LogsIInv
  <1>7. ASSUME NEW s \in Sources, NEW l \in Lines, Logs!Write(s, l) PROVE LogsIInv'
    <2>1. /\ UNCHANGED <<loaded, source, level, limit, list, copied, fetch, logPhase>>
          /\ files' = [files EXCEPT ![s] = Append(files[s], l)]
      BY <1>7 DEF Logs!Write
    <2>2. files' \in [Sources -> Seq(Lines)]
      BY <2>1 DEF LogsIInv
    <2> QED BY <1>1, <2>1, <2>2 DEF LogsIInv, LogRead
  <1>8. CASE Logs!Loaded
    <2>1. /\ fetch # Logs!NoFetch /\ loaded' = [s \in Sources |-> fetch[s].lines]
          /\ fetch' = Logs!NoFetch /\ logPhase' = "shown"
          /\ Logs!Draw(loaded', source, level, limit) /\ UNCHANGED <<files, source, level, limit>>
      BY <1>8 DEF Logs!Loaded
    <2>2. fetch \in [Sources -> LogRead]
      BY <2>1 DEF LogsIInv, LogRead
    <2>3. loaded' \in [Sources -> Seq(Lines)]
      BY <2>1, <2>2 DEF LogRead
    <2>4. /\ list' = Logs!Shown(loaded', source, level, limit)
          /\ list' \in Seq(Lines) /\ copied' \in Seq(Lines) /\ (list' # <<>> => copied' = list')
      BY <2>1, <2>3, Redrawn DEF LogsIInv
    <2>5. DrawnAsChosen'
      BY <2>1, <2>4 DEF DrawnAsChosen, Logs!Shown, Logs!Sifted
    <2> QED BY <2>1, <2>3, <2>4, <2>5 DEF LogsIInv
  <1>9. ASSUME NEW src \in Sources, NEW lv \in Levels, NEW n \in Limits, Logs!Pick(src, lv, n)
        PROVE  LogsIInv'
    <2>1. /\ source' = src /\ level' = lv /\ limit' = n /\ Logs!Draw(loaded, src, lv, n)
          /\ UNCHANGED <<files, loaded, fetch, logPhase>>
      BY <1>9 DEF Logs!Pick
    <2>2. /\ list' = Logs!Shown(loaded, src, lv, n)
          /\ list' \in Seq(Lines) /\ copied' \in Seq(Lines) /\ (list' # <<>> => copied' = list')
      BY <2>1, Redrawn DEF LogsIInv
    <2>3. DrawnAsChosen'
      BY <2>1, <2>2 DEF DrawnAsChosen, Logs!Shown, Logs!Sifted
    <2> QED BY <2>1, <2>2, <2>3 DEF LogsIInv
  <1>10. CASE Logs!Refresh
    <2>1. Logs!AskAll \in [Sources -> LogRead]
      BY DEF Logs!AskAll, Logs!Unread, LogRead
    <2> QED BY <1>1, <1>10, <2>1 DEF Logs!Refresh, LogsIInv
  <1>11. source \in Sources /\ level \in Levels /\ limit \in Limits
    BY DEF LogsIInv
  <1> QED BY <1>2, <1>5, <1>6, <1>7, <1>8, <1>9, <1>10, <1>11 DEF Logs!Next

LEMMA LogsInvariance == LogsAssumption => (Logs!Spec => []LogsIInv)
  <1> SUFFICES ASSUME LogsAssumption PROVE Logs!Spec => []LogsIInv
    OBVIOUS
  <1>1. LogsIInv /\ [Logs!Next]_(Logs!logsVars) => LogsIInv'
    BY LogsInductive
  <1> QED BY <1>1, LogsInitially, PTL DEF Logs!Spec

(* The types of the logs page's variables.                                 *)
THEOREM LogsTypeCorrect == LogsAssumption => (Logs!Spec => []Logs!TypeOK)
  <1> SUFFICES ASSUME LogsAssumption PROVE Logs!Spec => []Logs!TypeOK
    OBVIOUS
  <1>1. LogsIInv => Logs!TypeOK
    BY DEF LogsIInv
  <1> QED BY <1>1, LogsInvariance, PTL

(* What the page would draw shows an entry exactly when it was fetched and  *)
(* fewer than the chosen number of its level came after it.                *)
LEMMA NobodyCrowdedOut == LogsAssumption /\ LogsIInv => Logs!NoEntryIsCrowdedOut
  <1> SUFFICES ASSUME LogsAssumption, LogsIInv, logPhase = "shown" PROVE Logs!NoEntryIsCrowdedOut
    BY DEF Logs!NoEntryIsCrowdedOut
  <1> DEFINE s == loaded[source]
             fit == {i \in DOMAIN s : Logs!Matches(s[i], level)}
             near == {i \in fit : Logs!Cardinality({j \in fit : j > i}) < limit}
  <1>1. near = LastFew(fit, limit)
    BY SizeOnThePage DEF LastFew, Behind
  <1>2. /\ list = Logs!Shown(loaded, source, level, limit) /\ loaded \in [Sources -> Seq(Lines)]
        /\ source \in Sources /\ limit \in Nat
    BY DEF LogsIInv, DrawnAsChosen, Logs!TypeOK, LogsAssumption
  <1>3. /\ Len(list) = Cardinality(LastFew(fit, limit))
        /\ \A i \in LastFew(fit, limit) : list[Cardinality(Onwards(LastFew(fit, limit), i))] = s[i]
    BY <1>2, ShownFacts
  <1>4. Len(list) = Logs!Cardinality(near)
    BY <1>1, <1>3, SizeOnThePage
  <1>5. \A i \in near : list[Logs!Cardinality({j \in near : j >= i})] = s[i]
    <2> HIDE DEF near, fit, s
    <2>1. \A i \in near : {j \in near : j >= i} = Onwards(near, i)
      BY DEF Onwards
    <2> QED BY <1>1, <1>3, <2>1, SizeOnThePage
  <1> QED BY <1>4, <1>5 DEF Logs!NoEntryIsCrowdedOut

(* The first branch that knows a phrase speaks, and the one for mismatched *)
(* parameters comes before the one for certificates.                       *)
LEMMA MismatchSpeaksFirst ==
    ASSUME NEW l, "tls_mismatch" \in l.says
    PROVE  Logs!TipFor(l) # "tls_cert"
  <1> DEFINE known == {i \in DOMAIN Logs!Branches : Logs!Branches[i] \in l.says}
             first == CHOOSE i \in known : \A j \in known : i <= j
  <1>1. /\ DOMAIN Logs!Branches = 1..8
        /\ Logs!Branches[6] = "tls_mismatch" /\ \A i \in 1..6 : Logs!Branches[i] # "tls_cert"
    BY DEF Logs!Branches
  <1>2. 6 \in known /\ known \in SUBSET Nat /\ known # {}
    BY <1>1
  <1>3. \E m \in known : \A k \in known : m <= k
    <2> HIDE DEF known
    <2> QED BY <1>2, LeastMember
  <1>4. first \in known /\ first <= 6
    <2> HIDE DEF known
    <2> QED BY <1>2, <1>3
  <1>5. first \in 1..6
    <2> HIDE DEF first
    <2> QED BY <1>1, <1>4
  <1>6. Logs!TipFor(l) = Logs!Branches[first]
    BY <1>2 DEF Logs!TipFor
  <1> HIDE DEF first, known
  <1> QED BY <1>1, <1>5, <1>6

(* No entry is crowded out by those of other levels, and the copy button   *)
(* and the notes speak of what is on screen (logs.js:87, :171, :352).      *)
THEOREM LogsShowTheMatching == LogsAssumption => (Logs!Spec => []LogsShowWhatMatches)
  <1> SUFFICES ASSUME LogsAssumption PROVE Logs!Spec => []LogsShowWhatMatches
    OBVIOUS
  <1>1. LogsIInv => Logs!NoEntryIsCrowdedOut
    BY NobodyCrowdedOut
  <1>2. LogsIInv => Logs!CopyCarriesTheScreen
    BY DEF LogsIInv, DrawnAsChosen, Logs!CopyCarriesTheScreen
  <1>3. Logs!MismatchIsNotBlamedOnTheCertificate
    BY MismatchSpeaksFirst DEF Logs!MismatchIsNotBlamedOnTheCertificate
  <1>4. LogsIInv => LogsShowWhatMatches
    BY <1>1, <1>2, <1>3 DEF LogsShowWhatMatches
  <1> QED BY <1>4, LogsInvariance, PTL

-------------------------------------------------------------------------------
(***************************************************************************)
(* All pages together.                                                     *)
(***************************************************************************)
(* Every variable of every page stays in its type.                         *)
THEOREM PagesTypeCorrect == PagesAssumption => (PagesSpec => []PanelTypeOK)
  <1> SUFFICES ASSUME PagesAssumption PROVE PagesSpec => []PanelTypeOK
    OBVIOUS
  <1>1. /\ Spec => []TypeOK
        /\ MapSpec => []MapTypeOK
        /\ ShellSpec => []ShellTypeOK
        /\ ListSpec => []ListTypeOK
        /\ LadderSpec => []LadderTypeOK
        /\ WizardSpec => []WizardTypeOK
        /\ TuningSpec => []TuningTypeOK
    BY SessionTypeCorrect, MapTypeCorrect, ShellTypeCorrect, ListTypeCorrect, LadderTypeCorrect,
       WizardTypeCorrect, TuningTypeCorrect DEF PagesAssumption
  <1>2. /\ Services!Spec => []Services!TypeOK
        /\ Stats!Spec => []Stats!TypeOK
        /\ Breakdown!Spec => []Breakdown!TypeOK
        /\ Certs!Spec => []Certs!TypeOK
        /\ Logs!Spec => []Logs!TypeOK
        /\ Bans!Spec => []Bans!TypeOK
        /\ Backup!Spec => []Backup!TypeOK
    BY ServicesTypeCorrect, StatsTypeCorrect, BreakdownTypeCorrect, CertsTypeCorrect,
       LogsTypeCorrect, BansTypeCorrect, BackupTabTypeCorrect DEF PagesAssumption
  <1> QED BY <1>1, <1>2, PTL DEF PagesSpec, PanelTypeOK

(* What a page sends is of its own form, and what it forgets or tests is   *)
(* what it was asked to: the switch is left alone by a save, nobody is     *)
(* forgotten who was not released, the ticks survive turning a page, the   *)
(* passphrase survives, and the test is of the form that was on screen     *)
(* (services.js, autoban.js:566, listview.js, backuptab.js).               *)
THEOREM ActionsAreOfTheirForm == PagesAssumption => (PagesSpec => ActionsStayInTheirForm)
  <1> SUFFICES ASSUME PagesAssumption PROVE PagesSpec => ActionsStayInTheirForm
    OBVIOUS
  <1>1. /\ Services!Spec => Services!SavesStayInTheirForm
        /\ Bans!Spec => Bans!ReleaseThenForget
        /\ ListSpec => PagingKeepsSelection
        /\ Backup!Spec => Backup!SecretSurvives
        /\ Backup!Spec => []Backup!TestedAsShown
    BY SavesAreOfTheirForm, OnlyTheReleasedAreForgotten, PagingKeeps, ThePassphraseSurvives,
       TheTestIsOfTheForm DEF PagesAssumption
  <1> QED BY <1>1, PTL DEF PagesSpec, ActionsStayInTheirForm

=============================================================================
