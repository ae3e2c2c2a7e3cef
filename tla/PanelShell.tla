------------------------------ MODULE PanelShell ------------------------------
(***************************************************************************)
(* What the panel's one content element shows: the router (navigate and    *)
(* renderPage in static/js/app.js), the tabbed pages built on it           *)
(* (tabpage.js, status.js) and the timers their panes start (health.js,    *)
(* stats.js).                                                              *)
(*                                                                         *)
(* JavaScript runs one handler at a time: an action is the code between    *)
(* two awaits.  The certificates page stands for every page that awaits    *)
(* its data before it paints.                                              *)
(***************************************************************************)
EXTENDS Naturals, FiniteSets

CONSTANTS
    MaxRenders,    \* bound: renders of a page
    MaxShows,      \* bound: tab switches within one render of Status
    MaxStacked     \* bound: reports one pane may have on the wire

VARIABLES
    current,       \* state.currentPage
    renderTicket,  \* the newest render
    renders,       \* renders waiting for a script or an answer
    content,       \* what #content shows: <<what, the render that painted it>>
    cleanup,       \* content._shahragCleanup: <<page, the render that set it>>
    lastTab,       \* lastTab of the Status page
    tabs,          \* for each render of Status: its closure and its #tp-pane
    shows,         \* tab switches waiting for a script or an answer
    timers,        \* running setIntervals
    reports        \* /api/health/report requests on the wire, by pane and switch

shellVars == <<current, renderTicket, renders, content, cleanup, lastTab, tabs,
               shows, timers, reports>>

ShellPages == {"status", "certs"}
Tabs == {"health", "stats", "map"}
Renders == 1..MaxRenders
Shows == 1..MaxShows

ASSUME ShellAssumption == MaxRenders \in Nat /\ MaxShows \in Nat /\ MaxStacked \in Nat

Nothing == <<"nothing", 0>>
Loading == <<"loading", 0>>

ShellTypeOK ==
    /\ current \in ShellPages /\ renderTicket \in 0..MaxRenders /\ lastTab \in Tabs
    /\ renders \subseteq [ticket : Renders, page : ShellPages, stage : {"script", "answer"}]
    /\ content \in {Loading} \cup ((ShellPages \cup {"error"}) \X Renders)
    /\ cleanup \in {Nothing} \cup (ShellPages \X Renders)
    /\ tabs \in [Renders -> [ticket : 0..MaxShows, stop : 0..MaxShows, prop : 0..MaxShows,
                             pane : {Loading} \cup ((Tabs \cup {"error"}) \X Shows)]]
    /\ shows \subseteq [render : Renders, ticket : Shows, tab : Tabs,
                        stage : {"script", "answer"}]
    /\ timers \subseteq [render : Renders, ticket : Shows, tab : Tabs, late : BOOLEAN]
    /\ reports \in [Renders \X Shows -> 0..MaxStacked]

NewTabs == [ticket |-> 0, stop |-> 0, prop |-> 0, pane |-> Loading]

ShellInit ==
    /\ current = "certs" /\ renderTicket = 0 /\ renders = {} /\ content = Loading
    /\ cleanup = Nothing /\ lastTab = "health" /\ tabs = [r \in Renders |-> NewTabs]
    /\ shows = {} /\ timers = {} /\ reports = [i \in Renders \X Shows |-> 0]

(***************************************************************************)
(* Router.                                                                 *)
(***************************************************************************)
(* Mutant: leaving a pane stops nothing.                                    *)
StoppedByNobody(r) == {}

(* runCleanup of one render of Status: what paneCleanup stops.             *)
StoppedBy(r) == {i \in timers : i.render = r /\ i.ticket = tabs[r].stop}

(* renderPage: the outgoing page is told to stop, the spinner is shown.    *)
RenderPage(page, alsoStopped) ==
    /\ renderTicket < MaxRenders
    /\ current' = page
    /\ renderTicket' = renderTicket + 1
    /\ renders' = renders \cup {[ticket |-> renderTicket + 1, page |-> page,
                                 stage |-> "script"]}
    /\ IF cleanup[1] = "status"
         THEN /\ timers' = (timers \ StoppedBy(cleanup[2])) \ alsoStopped
              /\ tabs' = [tabs EXCEPT ![cleanup[2]].stop = 0]
         ELSE timers' = timers \ alsoStopped /\ tabs' = tabs
    /\ cleanup' = Nothing
    /\ content' = Loading
    /\ UNCHANGED <<lastTab, shows, reports>>

(* A click in the menu: every Stats pane also listens for it.               *)
ClickNav(page) == RenderPage(page, {i \in timers : i.tab = "stats"})

(* A change of the address or of the language renders without one.         *)
Rerender(page) == RenderPage(page, {})

(* show(id) of one render of Status, up to its first await.                *)
Show(r, tab, T) ==
    /\ tabs[r].ticket < MaxShows
    /\ lastTab' = tab
    /\ timers' = timers \ StoppedBy(r)
    /\ tabs' = [tabs EXCEPT ![r] = [@ EXCEPT !.ticket = tabs[r].ticket + 1, !.stop = 0,
                                             !.pane = Loading]]
    /\ shows' = T \cup {[render |-> r, ticket |-> tabs[r].ticket + 1, tab |-> tab,
                         stage |-> "script"]}

(* The page's script is there: Status paints its frame at once and shows   *)
(* its last tab, the others go on to wait for their data.                  *)
ScriptLoaded(p) ==
    /\ p.stage = "script"
    /\ IF p.ticket # renderTicket
         THEN /\ renders' = renders \ {p}
              /\ UNCHANGED <<content, cleanup, lastTab, tabs, shows, timers>>
         ELSE \/ /\ p.page = "status"
                 /\ renders' = renders \ {p}
                 /\ content' = <<"status", p.ticket>>
                 /\ cleanup' = <<"status", p.ticket>>
                 /\ Show(p.ticket, lastTab, shows)
              \/ /\ p.page # "status"
                 /\ renders' = (renders \ {p}) \cup {[p EXCEPT !.stage = "answer"]}
                 /\ UNCHANGED <<content, cleanup, lastTab, tabs, shows, timers>>
    /\ UNCHANGED <<current, renderTicket, reports>>

(* The page's data is there: it paints and registers its own cleanup,      *)
(* without looking at the ticket.                                          *)
PageAnswered(p) ==
    /\ p.stage = "answer"
    /\ renders' = renders \ {p}
    /\ content' = <<p.page, p.ticket>>
    /\ cleanup' = <<p.page, p.ticket>>
    /\ UNCHANGED <<current, renderTicket, lastTab, tabs, shows, timers, reports>>

(* Mutant: a page that fails says nothing.                                  *)
PageFailedSilent(p) ==
    /\ renders' = renders \ {p}
    /\ UNCHANGED <<current, renderTicket, content, cleanup, lastTab, tabs, shows, timers,
                   reports>>

(* A script or an answer that fails: only the newest render says so.        *)
PageFailed(p) ==
    /\ renders' = renders \ {p}
    /\ content' = IF p.ticket = renderTicket THEN <<"error", p.ticket>> ELSE content
    /\ UNCHANGED <<current, renderTicket, cleanup, lastTab, tabs, shows, timers, reports>>

(***************************************************************************)
(* Tabs.                                                                   *)
(***************************************************************************)
IsNewest(s) == s.ticket = tabs[s.render].ticket
Timer(s) == [render |-> s.render, ticket |-> s.ticket, tab |-> s.tab, late |-> ~IsNewest(s)]
Painted(s, what) == <<what, s.ticket>>

ClickTab(tab) ==
    /\ content[1] = "status"
    /\ Show(content[2], tab, shows)
    /\ UNCHANGED <<current, renderTicket, renders, content, cleanup, reports>>

(* The tab's script is there.  Stats paints, starts its timer and registers *)
(* its cleanup before it awaits anything; Health registers its cleanup and  *)
(* asks for a report; the map asks for the topology.                        *)
TabLoaded(s) ==
    /\ s.stage = "script"
    /\ IF ~IsNewest(s)
         THEN shows' = shows \ {s} /\ UNCHANGED <<tabs, timers>>
         ELSE \/ /\ s.tab = "stats"
                 /\ shows' = shows \ {s}
                 /\ timers' = timers \cup {Timer(s)}
                 /\ tabs' = [tabs EXCEPT ![s.render] =
                               [@ EXCEPT !.pane = Painted(s, "stats"), !.prop = s.ticket,
                                         !.stop = s.ticket]]
              \/ /\ s.tab # "stats"
                 /\ shows' = (shows \ {s}) \cup {[s EXCEPT !.stage = "answer"]}
                 /\ tabs' = IF s.tab = "health"
                              THEN [tabs EXCEPT ![s.render].prop = s.ticket] ELSE tabs
                 /\ UNCHANGED timers
    /\ UNCHANGED <<current, renderTicket, renders, content, cleanup, lastTab, reports>>

(* After render() returns, the newest switch takes over whatever cleanup    *)
(* the pane element carries.                                               *)
Captured(s, pane) ==
    tabs' = [tabs EXCEPT ![s.render] =
               [@ EXCEPT !.pane = pane,
                         !.stop = IF IsNewest(s) THEN tabs[s.render].prop
                                  ELSE tabs[s.render].stop]]

(* The first report: Health paints it, or its error, without looking at     *)
(* the ticket, and only then starts its timer.                              *)
FirstReport(s) ==
    /\ s.stage = "answer" /\ s.tab = "health"
    /\ shows' = shows \ {s}
    /\ timers' = timers \cup {Timer(s)}
    /\ Captured(s, Painted(s, "health"))
    /\ UNCHANGED <<current, renderTicket, renders, content, cleanup, lastTab, reports>>

(* The topology: painted without looking at the ticket.                     *)
MapAnswered(s) ==
    /\ s.stage = "answer" /\ s.tab = "map"
    /\ shows' = shows \ {s}
    /\ Captured(s, Painted(s, "map"))
    /\ UNCHANGED <<current, renderTicket, renders, content, cleanup, lastTab, timers, reports>>

(* A script that fails, or a topology that does.                            *)
TabFailed(s) ==
    /\ s.stage = "script" \/ s.tab = "map"
    /\ shows' = shows \ {s}
    /\ tabs' = IF IsNewest(s) THEN [tabs EXCEPT ![s.render].pane = Painted(s, "error")] ELSE tabs
    /\ UNCHANGED <<current, renderTicket, renders, content, cleanup, lastTab, timers, reports>>

(***************************************************************************)
(* Health's own reloads.                                                   *)
(***************************************************************************)
(* load() of health.js: one request at a time.                              *)
Load(i) ==
    IF reports[i] > 0 THEN UNCHANGED reports
    ELSE reports' = [reports EXCEPT ![i] = @ + 1]

HealthTick(i) ==
    /\ i.tab = "health" /\ reports[<<i.render, i.ticket>>] < MaxStacked
    /\ Load(<<i.render, i.ticket>>)
    /\ UNCHANGED <<current, renderTicket, renders, content, cleanup, lastTab, tabs, shows, timers>>

(* The Refresh button of the report on screen.                              *)
ClickRefresh ==
    /\ content[1] = "status" /\ tabs[content[2]].pane[1] = "health"
    /\ reports[<<content[2], tabs[content[2]].pane[2]>>] < MaxStacked
    /\ Load(<<content[2], tabs[content[2]].pane[2]>>)
    /\ UNCHANGED <<current, renderTicket, renders, content, cleanup, lastTab, tabs, shows, timers>>

Report(r, k) ==
    /\ reports[<<r, k>>] > 0
    /\ reports' = [reports EXCEPT ![<<r, k>>] = @ - 1]
    /\ tabs' = [tabs EXCEPT ![r].pane = <<"health", k>>]
    /\ UNCHANGED <<current, renderTicket, renders, content, cleanup, lastTab, shows, timers>>

Settle(p) == ScriptLoaded(p) \/ PageAnswered(p) \/ PageFailed(p)
SettleTab(s) == TabLoaded(s) \/ FirstReport(s) \/ MapAnswered(s) \/ TabFailed(s)
AnyRender == \E p \in renders : Settle(p)
AnyShow == \E s \in shows : SettleTab(s)

ShellNext ==
    \/ \E page \in ShellPages : ClickNav(page) \/ Rerender(page)
    \/ \E tab \in Tabs : ClickTab(tab)
    \/ AnyRender \/ AnyShow
    \/ \E i \in timers : HealthTick(i)
    \/ ClickRefresh
    \/ \E r \in Renders, k \in Shows : Report(r, k)

(* A request is answered, or fails: there are finitely many at a time.      *)
ShellFairness == WF_shellVars(AnyRender) /\ WF_shellVars(AnyShow)
ShellSpec == ShellInit /\ [][ShellNext]_shellVars /\ ShellFairness

(***************************************************************************)
(* Properties.                                                             *)
(***************************************************************************)
(* A timer started by the tab on screen stops when the tab or the page is   *)
(* left, unless a late answer of another page took #content's cleanup away  *)
(* (tabpage.js:13-16); a Stats timer then stops at the next click.          *)
TimersStopWhenLeft ==
    \A i \in timers : ~i.late =>
        /\ i.ticket = tabs[i.render].ticket /\ tabs[i.render].stop = i.ticket
        /\ cleanup # <<"status", i.render>> =>
              \/ cleanup[1] = "certs" /\ cleanup[2] < i.render
              \/ renderTicket > i.render /\ content[2] # i.render

(* A slow report does not stack requests behind it (health.js:341).         *)
ReportsDoNotStack == \A i \in DOMAIN reports : reports[i] <= 1

(* Both: a tab that was left is quiet, and one on screen asks in turn.      *)
LeftTabsAreQuiet == TimersStopWhenLeft /\ ReportsDoNotStack

(* The page asked for last is drawn, or its error is, unless another is     *)
(* asked for first; and so is the tab asked for last, whatever older pages  *)
(* and tabs still answer.                                                  *)
NewestOpens ==
    /\ \A r \in Renders :
         renderTicket = r /\ content = Loading ~> renderTicket # r \/ content[2] = r
    /\ \A r \in Renders, k \in Shows :
         tabs[r].ticket = k /\ tabs[r].pane = Loading
             ~> tabs[r].ticket # k \/ tabs[r].pane[2] = k

=============================================================================
