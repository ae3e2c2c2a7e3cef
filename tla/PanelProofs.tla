----------------------------- MODULE PanelProofs ------------------------------
(***************************************************************************)
(* Proofs about a panel tab: its session (PanelSession), for any window;   *)
(* its pages and their tabs and timers (PanelShell), for any number of     *)
(* them; its lists (ListPage), for any finite list; and its forms: the     *)
(* ladder of bans (LadderForm), the nginx settings (TuningForm) and the    *)
(* first-run wizard (InstallWizard).                                       *)
(***************************************************************************)
EXTENDS PanelSession, PanelShell, ListPage, LadderForm, TuningForm, InstallWizard,
        FiniteSetTheorems, WellFoundedInduction, TLAPS

-------------------------------------------------------------------------------
(***************************************************************************)
(* Proofs about PanelSession, for any window.                              *)
(*                                                                         *)
(* That a tab never locks itself early rests on a sum: whatever of the     *)
(* window is left to the timer and the time since the last touch make up   *)
(* the whole window, as long as the timer runs; and it runs only while the *)
(* panel is on screen, exactly when the tab knows a window.                *)
(***************************************************************************)
OnlyOnScreen == armed => phase = "app"
WindowAccountedFor == armed => left + quiet >= Window
SessionIInv == TypeOK /\ OnlyOnScreen /\ ArmedWhenOn /\ WindowAccountedFor

-------------------------------------------------------------------------------
LEMMA ClocksStartInRange ==
    /\ 0 \in 0..Window /\ 0 \in 0..Past
    /\ 0 \in Lost..Past /\ Lost \in Lost..Past /\ Deleted \in Lost..Past
  BY WindowAssumption DEF Past, Lost, Deleted

(* A full window and any time since the last touch make up the window.     *)
LEMMA FullWindow ==
    ASSUME NEW rest, rest = Window, NEW since \in 0..Past
    PROVE  rest \in 0..Window /\ rest + since >= Window
  BY WindowAssumption DEF Past

(* Every kind of screen change leaves the timer as the invariant wants it. *)
LEMMA AppShown ==
    ASSUME TypeOK, NEW on \in BOOLEAN, ShowApp(on), lockOn' = on, quiet' \in 0..Past
    PROVE  /\ phase' = "app" /\ armed' \in BOOLEAN /\ left' \in 0..Window
           /\ OnlyOnScreen' /\ ArmedWhenOn' /\ WindowAccountedFor'
  <1>1. phase' = "app" /\ armed' \in BOOLEAN /\ left' \in 0..Window
    BY WindowAssumption DEF ShowApp, StartIdleTimer
  <1>2. OnlyOnScreen' /\ ArmedWhenOn'
    BY <1>1, Zenon DEF ShowApp, StartIdleTimer, OnlyOnScreen, ArmedWhenOn
  <1>3. CASE on
    <2>1. left' = Window
      BY <1>3 DEF ShowApp, StartIdleTimer
    <2>2. left' + quiet' >= Window
      BY <2>1, FullWindow
    <2> QED BY <1>1, <1>2, <2>2, Zenon DEF WindowAccountedFor
  <1>4. CASE ~on
    <2>1. ~armed'
      BY <1>4, Zenon DEF ShowApp, StartIdleTimer
    <2> QED BY <1>1, <1>2, <2>1, Zenon DEF WindowAccountedFor
  <1> QED BY <1>3, <1>4

LEMMA LoginShown ==
    ASSUME ShowLogin
    PROVE  /\ phase' = "login" /\ armed' = FALSE /\ left' \in 0..Window
           /\ OnlyOnScreen' /\ ArmedWhenOn' /\ WindowAccountedFor'
  <1>1. phase' = "login" /\ armed' = FALSE /\ left' = 0
    BY Zenon DEF ShowLogin, StopIdleTimer
  <1>2. left' \in 0..Window
    BY <1>1, WindowAssumption
  <1>3. phase' # "app" /\ ~armed'
    BY <1>1
  <1> QED BY <1>1, <1>2, <1>3, Zenon DEF OnlyOnScreen, ArmedWhenOn, WindowAccountedFor

(* A touch moves the deadline, or there is none.                           *)
LEMMA TimerTouched ==
    ASSUME SessionIInv, phase = "app", ResetIdleTimer, quiet' = 0, UNCHANGED <<phase, lockOn>>
    PROVE  /\ armed' \in BOOLEAN /\ left' \in 0..Window
           /\ OnlyOnScreen' /\ ArmedWhenOn' /\ WindowAccountedFor'
  <1>1. CASE lockOn
    <2>1. armed' = TRUE /\ left' = Window /\ phase' = "app" /\ lockOn'
      BY <1>1, Zenon DEF ResetIdleTimer, StartIdleTimer
    <2>2. quiet' \in 0..Past
      BY WindowAssumption DEF Past
    <2>3. left' \in 0..Window /\ left' + quiet' >= Window
      BY <2>1, <2>2, FullWindow
    <2>4. armed' \in BOOLEAN
      BY <2>1
    <2> QED BY <2>1, <2>3, <2>4, Zenon DEF OnlyOnScreen, ArmedWhenOn, WindowAccountedFor
  <1>2. CASE ~lockOn
    <2>1. ~armed
      BY <1>2, Zenon DEF SessionIInv, ArmedWhenOn
    <2>2. armed' = armed /\ left' = left /\ phase' = "app" /\ ~lockOn'
      BY <1>2, Zenon DEF ResetIdleTimer
    <2>3. armed' \in BOOLEAN /\ left' \in 0..Window
      BY <2>2 DEF SessionIInv, TypeOK
    <2> QED BY <2>1, <2>2, <2>3, Zenon DEF OnlyOnScreen, ArmedWhenOn, WindowAccountedFor
  <1> QED BY <1>1, <1>2

(* A step that leaves the screen and the timer alone.                      *)
LEMMA TimerAlone ==
    ASSUME SessionIInv, UNCHANGED <<phase, lockOn, armed, left, quiet>>
    PROVE  /\ phase' \in {"boot", "login", "app"} /\ lockOn' \in BOOLEAN /\ armed' \in BOOLEAN
           /\ left' \in 0..Window /\ quiet' \in 0..Past
           /\ OnlyOnScreen' /\ ArmedWhenOn' /\ WindowAccountedFor'
  <1>1. OnlyOnScreen' /\ ArmedWhenOn'
    BY Zenon DEF SessionIInv, OnlyOnScreen, ArmedWhenOn
  <1>2. WindowAccountedFor'
    BY Zenon DEF SessionIInv, WindowAccountedFor
  <1> QED BY <1>1, <1>2 DEF SessionIInv, TypeOK

-------------------------------------------------------------------------------
LEMMA SessionInitially == Init => SessionIInv
  <1>1. Init => TypeOK
    BY ClocksStartInRange DEF Init, TypeOK
  <1>2. Init => ~armed /\ phase # "app"
    BY DEF Init
  <1> QED BY <1>1, <1>2, Zenon DEF SessionIInv, OnlyOnScreen, ArmedWhenOn, WindowAccountedFor

LEMMA SessionInductive ==
    ASSUME SessionIInv, [Next]_sessionVars
    PROVE  SessionIInv'
  <1> USE WindowAssumption
  <1>1. CASE Boot
    <2>1. CASE cookie /\ ~Idle /\ entry' = 0 /\ lockOn' = setting /\ hearts' = TRUE
               /\ ShowApp(setting)
      BY <1>1, <2>1, AppShown DEF Boot, SessionIInv, TypeOK, Lost, Past
    <2>2. CASE cookie /\ Idle /\ entry' = Deleted /\ ShowLogin /\ UNCHANGED <<lockOn, hearts>>
      BY <1>1, <2>2, LoginShown DEF Boot, SessionIInv, TypeOK, Lost, Past, Deleted
    <2>3. CASE ~cookie /\ ShowLogin /\ UNCHANGED <<entry, lockOn, hearts>>
      BY <1>1, <2>3, LoginShown DEF Boot, SessionIInv, TypeOK, Lost, Past
    <2> QED BY <1>1, <2>1, <2>2, <2>3 DEF Boot
  <1>2. CASE BootUnreachable
    BY <1>2, LoginShown DEF BootUnreachable, SessionIInv, TypeOK
  <1>3. CASE Reload
    <2>1. TypeOK' /\ phase' # "app" /\ ~armed'
      BY <1>3, ClocksStartInRange DEF Reload, StopIdleTimer, SessionIInv, TypeOK
    <2> QED BY <2>1, Zenon DEF SessionIInv, OnlyOnScreen, ArmedWhenOn, WindowAccountedFor
  <1>4. CASE Login
    <2>1. lockOn \in BOOLEAN /\ ShowApp(lockOn) /\ lockOn' = lockOn /\ quiet' \in 0..Past /\ TypeOK
      BY <1>4 DEF Login, SessionIInv, TypeOK, Past
    <2>2. /\ phase' = "app" /\ armed' \in BOOLEAN /\ left' \in 0..Window
          /\ OnlyOnScreen' /\ ArmedWhenOn' /\ WindowAccountedFor'
      BY <2>1, AppShown, Zenon
    <2>3. /\ cookie' = TRUE /\ entry' = 0 /\ hearts' = TRUE
          /\ UNCHANGED <<asleep, wire, refusals, setting>>
      BY <1>4 DEF Login
    <2>4. TypeOK'
      BY <2>1, <2>2, <2>3 DEF TypeOK, Lost, Past
    <2> QED BY <2>2, <2>4, Zenon DEF SessionIInv
  <1>5. CASE Logout
    <2>1. CASE cookie /\ ~Idle /\ cookie' = FALSE /\ entry' = Deleted /\ ShowLogin
               /\ UNCHANGED refusals
      BY <1>5, <2>1, LoginShown, ClocksStartInRange DEF Logout, SessionIInv, TypeOK
    <2>2. CASE cookie /\ Idle /\ entry' = Deleted /\ refusals' = refusals \cup {"inactive"}
               /\ ResetIdleTimer /\ UNCHANGED <<cookie, phase>>
      BY <1>5, <2>2, TimerTouched DEF Logout, SessionIInv, TypeOK, Lost, Deleted, Past
    <2>3. CASE ~cookie /\ refusals' = refusals \cup {"expired"}
               /\ ResetIdleTimer /\ UNCHANGED <<cookie, entry, phase>>
      BY <1>5, <2>3, TimerTouched DEF Logout, SessionIInv, TypeOK, Lost, Past
    <2> QED BY <1>5, <2>1, <2>2, <2>3 DEF Logout
  <1>6. CASE Touch
    <2>1. /\ phase = "app" /\ quiet' = 0 /\ ResetIdleTimer /\ UNCHANGED <<phase, lockOn>>
          /\ UNCHANGED <<hearts, asleep, refusals, cookie, entry, setting>>
          /\ wire' \subseteq wire \cup {"user"}
      BY <1>6 DEF Touch
    <2>2. /\ armed' \in BOOLEAN /\ left' \in 0..Window
          /\ OnlyOnScreen' /\ ArmedWhenOn' /\ WindowAccountedFor'
      BY <2>1, TimerTouched, Zenon
    <2>3. TypeOK'
      BY <2>1, <2>2, ClocksStartInRange DEF SessionIInv, TypeOK
    <2> QED BY <2>2, <2>3, Zenon DEF SessionIInv
  <1>7. ASSUME NEW on \in BOOLEAN, SetLock(on) PROVE SessionIInv'
    BY <1>7 DEF SetLock, StartIdleTimer, SessionIInv, TypeOK, OnlyOnScreen, ArmedWhenOn,
       WindowAccountedFor, Past, Lost
  <1>8. CASE Check
    BY <1>8, LoginShown DEF Check, SessionIInv, TypeOK
  <1>9. CASE Sleep
    BY <1>9, TimerAlone DEF Sleep, SessionIInv, TypeOK
  <1>10. CASE Wake
    <2>1. CASE Passed /\ phase = "app" /\ ShowLogin
      BY <1>10, <2>1, LoginShown DEF Wake, SessionIInv, TypeOK
    <2>2. CASE UNCHANGED <<phase, armed, left>>
      BY <1>10, <2>2, TimerAlone DEF Wake, SessionIInv, TypeOK
    <2> QED BY <1>10, <2>1, <2>2 DEF Wake
  <1>11. CASE Heartbeat
    BY <1>11, TimerAlone DEF Heartbeat, SessionIInv, TypeOK
  <1>12. ASSUME NEW q \in {"user", "poll"}, Serve(q) PROVE SessionIInv'
    <2>1. /\ UNCHANGED <<phase, lockOn, armed, left, hearts, asleep, quiet, cookie, setting>>
          /\ wire' = wire \ {q} /\ entry' \in {entry, 0, Deleted}
          /\ refusals' \subseteq refusals \cup {"inactive", "expired"}
      BY <1>12 DEF Serve, Refreshed
    <2>2. entry' \in Lost..Past
      BY <2>1, ClocksStartInRange DEF SessionIInv, TypeOK
    <2> QED BY <2>1, <2>2, TimerAlone DEF SessionIInv, TypeOK
  <1>13. ASSUME NEW q \in {"user", "poll"}, LoseRequest(q) PROVE SessionIInv'
    BY <1>13, TimerAlone DEF LoseRequest, SessionIInv, TypeOK
  <1>14. ASSUME NEW w \in {"inactive", "expired"}, Refuse(w) PROVE SessionIInv'
    BY <1>14, LoginShown DEF Refuse, SessionIInv, TypeOK
  <1>15. CASE Restart
    BY <1>15, TimerAlone DEF Restart, SessionIInv, TypeOK, Lost, Past
  <1>16. CASE Expire
    BY <1>16, TimerAlone DEF Expire, SessionIInv, TypeOK
  <1>17. CASE Tick
    <2>1. left' \in 0..Window /\ quiet' \in 0..Past /\ entry' \in Lost..Past
      BY <1>17 DEF Tick, Older, SessionIInv, TypeOK, Past, Lost
    <2>2. WindowAccountedFor'
      BY <1>17 DEF Tick, Older, SessionIInv, TypeOK, WindowAccountedFor, Past
    <2> QED BY <1>17, <2>1, <2>2 DEF Tick, SessionIInv, TypeOK, OnlyOnScreen, ArmedWhenOn
  <1>18. CASE UNCHANGED sessionVars
    BY <1>18, TimerAlone DEF sessionVars, SessionIInv, TypeOK
  <1> QED
    BY <1>1, <1>2, <1>3, <1>4, <1>5, <1>6, <1>7, <1>8, <1>9, <1>10, <1>11, <1>12, <1>13,
       <1>14, <1>15, <1>16, <1>17, <1>18 DEF Next

LEMMA SessionInvariance == Spec => []SessionIInv
  <1>1. Init => SessionIInv
    BY SessionInitially
  <1>2. SessionIInv /\ [Next]_sessionVars => SessionIInv'
    BY SessionInductive
  <1> QED BY <1>1, <1>2, PTL DEF Spec

(* Every variable of the tab and of the server's record of it stays in its *)
(* type: no clock runs below zero or past its cap.                         *)
THEOREM SessionTypeCorrect == Spec => []TypeOK
  <1>1. SessionIInv => TypeOK
    BY DEF SessionIInv
  <1> QED BY <1>1, SessionInvariance, PTL

(* The panel is on screen with its timer running exactly when the tab knows*)
(* a window, whichever of the ways in it came by (app.js:582-599).         *)
THEOREM TimerRunsWhenOn == Spec => []ArmedWhenOn
  <1>1. SessionIInv => ArmedWhenOn
    BY DEF SessionIInv
  <1> QED BY <1>1, SessionInvariance, PTL

(* A tab locks itself only after a whole window without a touch, whatever  *)
(* the window, and however the machine slept in between (app.js:571-617).  *)
THEOREM NeverLockedEarly == Spec => LockNeverEarly
  <1>1. ASSUME SessionIInv, [Next]_sessionVars PROVE [LockedItself => quiet >= Window]_sessionVars
    <2> SUFFICES ASSUME LockedItself, Next PROVE quiet >= Window
      BY <1>1 DEF LockedItself, sessionVars
    <2>1. ASSUME Passed PROVE quiet >= Window
      BY <1>1, <2>1, WindowAssumption DEF Passed, SessionIInv, TypeOK, WindowAccountedFor, Past
    <2>2. CASE Check
      BY <2>1, <2>2 DEF Check
    <2>3. CASE Wake
      BY <2>1, <2>3 DEF Wake, LockedItself
    <2>4. CASE Logout
      BY <2>4 DEF Logout, LockedItself, ShowLogin
    <2>5. ASSUME NEW w \in {"inactive", "expired"}, Refuse(w) PROVE FALSE
      BY <2>5 DEF Refuse, LockedItself
    <2>6. ~(Boot \/ BootUnreachable \/ Reload \/ Login \/ Touch \/ Sleep \/ Heartbeat
            \/ Restart \/ Expire \/ Tick)
      BY DEF LockedItself, Boot, BootUnreachable, Reload, Login, Touch, Sleep, Heartbeat,
         Restart, Expire, Tick
    <2>7. ~(\E on \in BOOLEAN : SetLock(on))
      BY DEF LockedItself, SetLock
    <2>8. ~(\E q \in {"user", "poll"} : Serve(q) \/ LoseRequest(q))
      BY DEF LockedItself, Serve, LoseRequest
    <2> QED BY <2>2, <2>3, <2>4, <2>5, <2>6, <2>7, <2>8 DEF Next
  <1> QED BY <1>1, SessionInvariance, PTL DEF Spec, LockNeverEarly

-------------------------------------------------------------------------------
(***************************************************************************)
(* Proofs about ListPage, for any finite list, any searches and filters    *)
(* and any page sizes.                                                     *)
(*                                                                         *)
(* What is selected stays visible because every change of the list goes    *)
(* through render(), which drops the rest; and a core row is never in a    *)
(* question, so never in a job, although both outlive the list they were   *)
(* put together from.  The page number is in range after every render,     *)
(* which is why another page, size or order costs no selection.            *)
(***************************************************************************)
NothingCoreAsked == ask.rows \cap Core = {} /\ job.todo \cap Core = {}
PageInRange == page <= Pages(Cardinality(Visible(rows, term)), size)
ListIInv == ListTypeOK /\ SelectionIsVisible /\ CoreStays /\ NothingCoreAsked /\ PageInRange

-------------------------------------------------------------------------------
(* There is always a first page.                                           *)
LEMMA PagesPositive ==
    ASSUME NEW n \in Nat, NEW s \in Nat
    PROVE  Pages(n, s) \in Nat \ {0}
  <1>1. CASE s = 0 \/ n = 0
    BY <1>1 DEF Pages
  <1>2. CASE s > 0 /\ n > 0
    <2>1. (n + s - 1) \div s \in Int
      BY <1>2
    <2>2. (n + s - 1) \div s >= 1
      BY <1>2
    <2> QED BY <1>2, <2>1, <2>2 DEF Pages
  <1> QED BY <1>1, <1>2

LEMMA ClampPositive ==
    ASSUME NEW p \in Nat \ {0}, NEW n \in Nat, NEW s \in Nat
    PROVE  /\ Clamp(p, n, s) \in Nat \ {0}
           /\ Clamp(p, n, s) <= Pages(n, s)
           /\ p <= Pages(n, s) => Clamp(p, n, s) = p
  <1>1. Pages(n, s) \in Nat \ {0}
    BY PagesPositive
  <1>2. CASE p > Pages(n, s)
    BY <1>1, <1>2 DEF Clamp
  <1>3. CASE p <= Pages(n, s)
    BY <1>1, <1>3 DEF Clamp
  <1> QED BY <1>1, <1>2, <1>3

(* A render leaves its part of the state as the invariant wants it.        *)
LEMMA Rendered ==
    ASSUME ListAssumption, NEW R \in SUBSET RowKeys, NEW T \in Terms, NEW s \in Sizes,
           NEW p \in Nat \ {0}, NEW sel, Render(R, T, s, p, sel)
    PROVE  /\ rows' \in SUBSET RowKeys /\ term' \in Terms /\ size' \in Sizes
           /\ page' \in Nat \ {0} /\ selected' \in SUBSET RowKeys
           /\ SelectionIsVisible' /\ PageInRange'
  <1>1. Visible(R, T) \in SUBSET RowKeys
    BY DEF Visible
  <1>2. Cardinality(Visible(R, T)) \in Nat
    BY <1>1, FS_Subset, FS_CardinalityType DEF ListAssumption
  <1>3. /\ Clamp(p, Cardinality(Visible(R, T)), s) \in Nat \ {0}
        /\ Clamp(p, Cardinality(Visible(R, T)), s) <= Pages(Cardinality(Visible(R, T)), s)
    BY <1>2, ClampPositive DEF ListAssumption
  <1>4. /\ rows' = R /\ term' = T /\ size' = s /\ selected' = sel \cap Visible(R, T)
        /\ page' = Clamp(p, Cardinality(Visible(R, T)), s)
    BY DEF Render
  <1>5. SelectionIsVisible'
    BY <1>4 DEF SelectionIsVisible, Visible
  <1>6. PageInRange'
    BY <1>3, <1>4 DEF PageInRange
  <1> QED BY <1>1, <1>3, <1>4, <1>5, <1>6

(* Whatever the controls render, the rest of the state stands still.       *)
LEMMA ControlKeeps ==
    ASSUME ListAssumption, ListIInv, NEW T \in Terms, NEW s \in Sizes, NEW p \in Nat \ {0},
           NEW sel, Render(rows, T, s, p, sel), down' \in BOOLEAN, ListRest
    PROVE  ListIInv'
  <1>1. /\ rows' \in SUBSET RowKeys /\ term' \in Terms /\ size' \in Sizes
        /\ page' \in Nat \ {0} /\ selected' \in SUBSET RowKeys
        /\ SelectionIsVisible' /\ PageInRange'
    BY Rendered DEF ListIInv, ListTypeOK
  <1>2. UNCHANGED <<stored, drawn, ask, job, gets>>
    BY DEF ListRest
  <1> QED BY <1>1, <1>2 DEF ListIInv, ListTypeOK, CoreStays, NothingCoreAsked

(* The list stands still: only what it is about moves.                     *)
LEMMA StillKeeps ==
    ASSUME ListIInv, Still, stored' \in SUBSET RowKeys, drawn' \in BOOLEAN,
           ask' \in [rows : SUBSET RowKeys, bulk : BOOLEAN],
           job' \in [todo : SUBSET RowKeys, running : BOOLEAN, bulk : BOOLEAN, here : BOOLEAN],
           gets' \in 0..MaxLists, CoreStays', NothingCoreAsked'
    PROVE  ListIInv'
  <1>1. UNCHANGED <<rows, term, size, page, down, selected>>
    BY DEF Still
  <1>2. SelectionIsVisible' /\ PageInRange'
    BY <1>1 DEF ListIInv, SelectionIsVisible, PageInRange, Visible
  <1> QED BY <1>1, <1>2 DEF ListIInv, ListTypeOK

-------------------------------------------------------------------------------
LEMMA ListInitially == ListAssumption /\ ListInit => ListIInv
  <1> SUFFICES ASSUME ListAssumption, ListInit PROVE ListIInv
    OBVIOUS
  <1>1. /\ stored = RowKeys /\ rows = {} /\ term = RowKeys /\ size \in Sizes /\ page = 1 /\ gets = 1
        /\ down = FALSE /\ selected = {} /\ drawn = FALSE
        /\ ask = [rows |-> {}, bulk |-> FALSE]
        /\ job = [todo |-> {}, running |-> FALSE, bulk |-> FALSE, here |-> FALSE]
    BY DEF ListInit, NoQuestion, NoJob
  <1>2. 1 \in 0..MaxLists
    BY DEF ListAssumption
  <1>3. ListTypeOK
    <2>1. ask \in [rows : SUBSET RowKeys, bulk : BOOLEAN]
      BY <1>1
    <2>2. job \in [todo : SUBSET RowKeys, running : BOOLEAN, bulk : BOOLEAN, here : BOOLEAN]
      BY <1>1
    <2>3. stored \subseteq RowKeys /\ rows \subseteq RowKeys /\ selected \subseteq RowKeys
      BY <1>1
    <2>4. down \in BOOLEAN /\ drawn \in BOOLEAN
      BY <1>1
    <2>5. term \in Terms /\ size \in Sizes
      BY <1>1 DEF ListAssumption
    <2>6. page \in Nat \ {0} /\ gets \in 0..MaxLists
      BY <1>1, <1>2
    <2> QED BY <2>1, <2>2, <2>3, <2>4, <2>5, <2>6 DEF ListTypeOK
  <1>4. SelectionIsVisible /\ CoreStays /\ NothingCoreAsked
    BY <1>1 DEF SelectionIsVisible, CoreStays, NothingCoreAsked, ListAssumption
  <1>5. PageInRange
    <2>1. Cardinality(Visible(rows, term)) \in Nat /\ size \in Nat
      BY <1>1, FS_Subset, FS_CardinalityType DEF Visible, ListAssumption
    <2> QED BY <1>1, <2>1, PagesPositive DEF PageInRange
  <1> QED BY <1>3, <1>4, <1>5 DEF ListIInv

LEMMA ControlsInductive ==
    ASSUME ListAssumption, ListIInv,
           \/ \E T \in Terms : Search(T)
           \/ \E s \in Sizes : SetSize(s)
           \/ \E p \in 1..Cardinality(RowKeys) : GoTo(p)
           \/ Sort
           \/ \E k \in RowKeys : ToggleRow(k)
           \/ \E on \in BOOLEAN : ToggleAll(on)
           \/ Clear
    PROVE  ListIInv'
  <1> USE ControlKeeps DEF ListIInv, ListTypeOK
  <1>1. ASSUME NEW T \in Terms, Search(T) PROVE ListIInv'
    BY <1>1 DEF Search
  <1>2. ASSUME NEW s \in Sizes, SetSize(s) PROVE ListIInv'
    BY <1>2 DEF SetSize
  <1>3. ASSUME NEW p \in 1..Cardinality(RowKeys), GoTo(p) PROVE ListIInv'
    <2>1. Cardinality(RowKeys) \in Nat
      BY FS_CardinalityType DEF ListAssumption
    <2>2. p \in Nat \ {0}
      BY <2>1
    <2> QED BY <1>3, <2>2 DEF GoTo
  <1>4. CASE Sort
    BY <1>4 DEF Sort
  <1>5. ASSUME NEW k \in RowKeys, ToggleRow(k) PROVE ListIInv'
    BY <1>5 DEF ToggleRow
  <1>6. ASSUME NEW on \in BOOLEAN, ToggleAll(on) PROVE ListIInv'
    BY <1>6 DEF ToggleAll
  <1>7. CASE Clear
    BY <1>7 DEF Clear
  <1> QED BY <1>1, <1>2, <1>3, <1>4, <1>5, <1>6, <1>7

LEMMA DeletingInductive ==
    ASSUME ListAssumption, ListIInv,
           \/ AskBulk \/ Cancel \/ Confirm
           \/ \E k \in RowKeys : AskRow(k) \/ DeleteOne(k)
    PROVE  ListIInv'
  <1> USE DEF ListIInv, ListTypeOK, CoreStays, NothingCoreAsked
  <1>1. ASSUME NEW r \in [rows : SUBSET RowKeys, bulk : BOOLEAN], r.rows \cap Core = {}, Question(r)
        PROVE  ListIInv'
    <2>1. /\ ask' = r /\ UNCHANGED <<stored, drawn, job, gets>> /\ Still
      BY <1>1 DEF Question
    <2> QED BY <1>1, <2>1, StillKeeps
  <1>2. CASE AskBulk
    BY <1>1, <1>2 DEF AskBulk, Deletable
  <1>3. CASE Cancel
    BY <1>1, <1>3 DEF Cancel, NoQuestion
  <1>4. CASE Confirm
    <2>1. /\ ask' = [rows |-> {}, bulk |-> FALSE]
          /\ job' = [todo |-> ask.rows, running |-> TRUE, bulk |-> ask.bulk, here |-> drawn]
          /\ Still /\ UNCHANGED <<stored, drawn, gets>>
      BY <1>4 DEF Confirm, NoQuestion
    <2>2. job' \in [todo : SUBSET RowKeys, running : BOOLEAN, bulk : BOOLEAN, here : BOOLEAN]
      BY <2>1
    <2>3. NothingCoreAsked'
      BY <2>1
    <2> QED BY <2>1, <2>2, <2>3, StillKeeps
  <1>5. ASSUME NEW k \in RowKeys, AskRow(k) PROVE ListIInv'
    <2>1. k \notin Core /\ Question([rows |-> {k}, bulk |-> FALSE])
      BY <1>5 DEF AskRow, Deletable
    <2> QED BY <1>1, <2>1
  <1>6. ASSUME NEW k \in RowKeys, DeleteOne(k) PROVE ListIInv'
    <2>1. /\ k \in job.todo /\ stored' \in {stored, stored \ {k}}
          /\ job' \in {[job EXCEPT !.todo = @ \ {k}], NoJob}
          /\ Still /\ UNCHANGED <<drawn, ask, gets>>
      BY <1>6 DEF DeleteOne
    <2>2. /\ job' \in [todo : SUBSET RowKeys, running : BOOLEAN, bulk : BOOLEAN, here : BOOLEAN]
          /\ job'.todo \subseteq job.todo
      <3>1. CASE job' = [job EXCEPT !.todo = @ \ {k}]
        BY <3>1
      <3>2. CASE job' = NoJob
        BY <3>2 DEF NoJob
      <3> QED BY <2>1, <3>1, <3>2
    <2>3. stored' \in SUBSET RowKeys /\ CoreStays' /\ NothingCoreAsked'
      BY <2>1, <2>2
    <2> QED BY <2>1, <2>2, <2>3, StillKeeps
  <1> QED BY <1>2, <1>3, <1>4, <1>5, <1>6

LEMMA PageInductive ==
    ASSUME ListAssumption, ListIInv,
           DeleteDone \/ Navigate \/ PaintList \/ \E k \in Others : Elsewhere(k)
    PROVE  ListIInv'
  <1> USE DEF ListIInv, ListTypeOK, CoreStays, NothingCoreAsked
  <1>1. OneMore \in 0..MaxLists
    BY DEF OneMore, ListAssumption
  <1>2. CASE DeleteDone
    <2>1. /\ job' = [todo |-> {}, running |-> FALSE, bulk |-> FALSE, here |-> FALSE]
          /\ drawn' = FALSE /\ gets' = OneMore /\ UNCHANGED <<stored, ask>>
      BY <1>2 DEF DeleteDone, NoJob
    <2>2. /\ job' \in [todo : SUBSET RowKeys, running : BOOLEAN, bulk : BOOLEAN, here : BOOLEAN]
          /\ CoreStays' /\ NothingCoreAsked'
      BY <2>1
    <2>3. CASE Still
      BY <1>1, <2>1, <2>2, <2>3, StillKeeps
    <2>4. CASE Render(rows, term, size, page, {}) /\ UNCHANGED down
      BY <1>1, <2>1, <2>2, <2>4, Rendered
    <2> QED BY <1>2, <2>3, <2>4 DEF DeleteDone
  <1>3. CASE Navigate
    BY <1>1, <1>3, StillKeeps DEF Navigate
  <1>4. CASE PaintList
    <2>1. /\ gets' = gets - 1 /\ gets > 0 /\ drawn' = TRUE /\ UNCHANGED <<stored, down, ask>>
          /\ job' = [job EXCEPT !.here = FALSE] /\ Render(stored, RowKeys, size, page, {})
      BY <1>4 DEF PaintList
    <2>2. /\ job' \in [todo : SUBSET RowKeys, running : BOOLEAN, bulk : BOOLEAN, here : BOOLEAN]
          /\ CoreStays' /\ NothingCoreAsked'
      BY <2>1
    <2>3. gets' \in 0..MaxLists
      BY <2>1 DEF ListAssumption
    <2> QED BY <2>1, <2>2, <2>3, Rendered DEF ListAssumption
  <1>5. ASSUME NEW k \in Others, Elsewhere(k) PROVE ListIInv'
    <2>1. /\ stored' \in {stored \ {k}, stored \cup {k}}
          /\ Still /\ UNCHANGED <<drawn, ask, job, gets>>
      BY <1>5 DEF Elsewhere
    <2>2. k \in RowKeys \ Core
      BY DEF ListAssumption
    <2>3. stored' \in SUBSET RowKeys /\ CoreStays' /\ NothingCoreAsked'
      BY <2>1, <2>2
    <2> QED BY <2>1, <2>3, StillKeeps
  <1> QED BY <1>2, <1>3, <1>4, <1>5

LEMMA ListInductive ==
    ASSUME ListAssumption, ListIInv, [ListNext]_listVars
    PROVE  ListIInv'
  <1>1. CASE ListNext
    BY <1>1, ControlsInductive, DeletingInductive, PageInductive DEF ListNext
  <1>2. CASE UNCHANGED listVars
    <2>1. UNCHANGED <<stored, rows, term, size, page, down, selected, drawn, ask, job, gets>>
      BY <1>2 DEF listVars
    <2> QED
      BY <2>1 DEF ListIInv, ListTypeOK, SelectionIsVisible, Visible, CoreStays, NothingCoreAsked,
               PageInRange
  <1> QED BY <1>1, <1>2

LEMMA ListInvariance == ListAssumption => (ListSpec => []ListIInv)
  <1> SUFFICES ASSUME ListAssumption PROVE ListSpec => []ListIInv
    OBVIOUS
  <1>1. ListInit => ListIInv
    BY ListInitially
  <1>2. ListIInv /\ [ListNext]_listVars => ListIInv'
    BY ListInductive
  <1> QED BY <1>1, <1>2, PTL DEF ListSpec

-------------------------------------------------------------------------------
(* The page's state stays in its type; above all there is always a page, so*)
(* the pager never stands before the first (listview.js:103-106).             *)
THEOREM ListTypeCorrect == ListAssumption => (ListSpec => []ListTypeOK)
  <1> SUFFICES ASSUME ListAssumption PROVE ListSpec => []ListTypeOK
    OBVIOUS
  <1>1. ListIInv => ListTypeOK
    BY DEF ListIInv
  <1> QED BY <1>1, ListInvariance, PTL

(* Nothing that the search and the filters hide is selected, so a bulk     *)
(* action hits only rows that can be paged to (listview.js:108).           *)
THEOREM HiddenRowsAreNotSelected == ListAssumption => (ListSpec => []SelectionIsVisible)
  <1> SUFFICES ASSUME ListAssumption PROVE ListSpec => []SelectionIsVisible
    OBVIOUS
  <1>1. ListIInv => SelectionIsVisible
    BY DEF ListIInv
  <1> QED BY <1>1, ListInvariance, PTL

(* No selection, question or job of the page takes a core port away        *)
(* (ports.js:14), as long as nobody else does.                             *)
THEOREM CorePortsStay == ListAssumption => (ListSpec => []CoreStays)
  <1> SUFFICES ASSUME ListAssumption PROVE ListSpec => []CoreStays
    OBVIOUS
  <1>1. ListIInv => CoreStays
    BY DEF ListIInv
  <1> QED BY <1>1, ListInvariance, PTL

(* Turning the page, another page size and another order keep the          *)
(* selection, so a bulk action can span pages (listview.js:108).           *)
THEOREM PagingKeeps == ListAssumption => (ListSpec => PagingKeepsSelection)
  <1> SUFFICES ASSUME ListAssumption PROVE ListSpec => PagingKeepsSelection
    OBVIOUS
  <1> DEFINE Turned == rows' = rows /\ term' = term /\ <<size, page, down>>' # <<size, page, down>>
  <1>1. ASSUME ListIInv, [ListNext]_listVars PROVE [Turned => selected' = selected]_listVars
    <2> SUFFICES ASSUME Turned, ListNext PROVE selected' = selected
      BY <1>1
    <2>1. Cardinality(Visible(rows, term)) \in Nat /\ size \in Nat
      BY <1>1, FS_Subset, FS_CardinalityType DEF ListIInv, ListTypeOK, Visible, ListAssumption
    <2>2. ASSUME NEW T, NEW sel, Render(rows, T, size, page, sel), UNCHANGED down
          PROVE  FALSE
      <3>1. T = term /\ page' = Clamp(page, Cardinality(Visible(rows, term)), size) /\ size' = size
        BY <2>2 DEF Render
      <3>2. page' = page
        BY <1>1, <2>1, <3>1, ClampPositive DEF ListIInv, ListTypeOK, PageInRange
      <3> QED BY <2>2, <3>1, <3>2
    <2>3. ASSUME NEW s, NEW p, Render(rows, term, s, p, selected) PROVE selected' = selected
      BY <1>1, <2>3 DEF Render, ListIInv, SelectionIsVisible, Visible
    <2>4. ASSUME Still PROVE FALSE
      BY <2>4 DEF Still
    <2>5. ASSUME NEW T \in Terms, Search(T) PROVE selected' = selected
      BY <2>3, <2>5 DEF Search, Render
    <2>6. ASSUME NEW s \in Sizes, SetSize(s) PROVE selected' = selected
      BY <2>3, <2>6 DEF SetSize
    <2>7. ASSUME NEW p, GoTo(p) PROVE selected' = selected
      BY <2>3, <2>7 DEF GoTo
    <2>8. CASE Sort
      BY <2>3, <2>8 DEF Sort
    <2>9. ASSUME NEW k, ToggleRow(k) PROVE FALSE
      BY <2>2, <2>9 DEF ToggleRow
    <2>10. ASSUME NEW on, ToggleAll(on) PROVE FALSE
      BY <2>2, <2>10 DEF ToggleAll
    <2>11. CASE Clear
      BY <2>2, <2>11 DEF Clear
    <2>12. ~AskBulk /\ ~Cancel /\ ~Confirm /\ ~Navigate
      BY <2>4 DEF AskBulk, Cancel, Confirm, Navigate, Question
    <2>13. ASSUME NEW k PROVE ~AskRow(k) /\ ~DeleteOne(k) /\ ~Elsewhere(k)
      BY <2>4 DEF AskRow, DeleteOne, Elsewhere, Question
    <2>14. CASE DeleteDone
      BY <2>2, <2>4, <2>14 DEF DeleteDone
    <2>15. CASE PaintList
      <3>1. Render(rows, term, size, page, {}) /\ UNCHANGED down
        BY <2>15 DEF PaintList, Render
      <3> QED BY <2>2, <3>1
    <2> QED
      BY <2>5, <2>6, <2>7, <2>8, <2>9, <2>10, <2>11, <2>12, <2>13, <2>14, <2>15 DEF ListNext
  <1> QED BY <1>1, ListInvariance, PTL DEF ListSpec, PagingKeepsSelection

-------------------------------------------------------------------------------
(* The rows on screen are numbered in the order of the key, up or down.    *)
Before(d, j, k) == IF d THEN j >= k ELSE j <= k
UpTo(V, d, k) == {j \in V : Before(d, j, k)}

LEMMA LeastExists ==
    ASSUME NEW S \in SUBSET Nat, S # {}
    PROVE  \E m \in S : \A k \in S : m <= k
  <1>1. IsWellFoundedOn(OpToRel(<, Nat), Nat)
    BY NatLessThanWellFounded
  <1>2. PICK m \in S : \A k \in S : ~(<<k, m>> \in OpToRel(<, Nat))
    BY <1>1, WFMin
  <1>3. \A k \in S : ~(k < m)
    BY <1>2 DEF OpToRel
  <1> QED BY <1>3

LEMMA OrderTotal ==
    ASSUME NEW d \in BOOLEAN, NEW i \in Int, NEW j \in Int, NEW k \in Int
    PROVE  /\ Before(d, k, k)
           /\ Before(d, i, j) /\ Before(d, j, k) => Before(d, i, k)
           /\ Before(d, i, j) /\ Before(d, j, i) => i = j
           /\ Before(d, i, j) \/ Before(d, j, i)
  BY DEF Before

LEMMA UpToFinite ==
    ASSUME NEW V \in SUBSET Int, IsFiniteSet(V), NEW d \in BOOLEAN, NEW k \in V
    PROVE  /\ IsFiniteSet(UpTo(V, d, k)) /\ UpTo(V, d, k) \subseteq V
           /\ Cardinality(UpTo(V, d, k)) \in Nat /\ k \in UpTo(V, d, k)
  <1>1. UpTo(V, d, k) \subseteq V
    BY DEF UpTo
  <1>2. k \in UpTo(V, d, k)
    BY OrderTotal DEF UpTo
  <1> QED BY <1>1, <1>2, FS_Subset, FS_CardinalityType

(* One row comes after all the others.                                     *)
LEMMA LastExists ==
    ASSUME NEW V \in SUBSET Int, IsFiniteSet(V), V # {}, NEW d \in BOOLEAN
    PROVE  \E k \in V : UpTo(V, d, k) = V
  <1> DEFINE c(k) == Cardinality(UpTo(V, d, k))
  <1> DEFINE short == {Cardinality(V) - c(k) : k \in V}
  <1>1. ASSUME NEW k \in V PROVE c(k) \in Nat /\ c(k) <= Cardinality(V)
    BY UpToFinite, FS_Subset
  <1>2. Cardinality(V) \in Nat
    BY FS_CardinalityType
  <1>3. short \in SUBSET Nat /\ short # {}
    <2>1. \A k \in V : Cardinality(V) - c(k) \in Nat
      <3> HIDE DEF c
      <3> QED BY <1>1, <1>2
    <2> QED BY <2>1
  <1>4. PICK m \in short : \A s \in short : m <= s
    <2> HIDE DEF short
    <2> QED BY <1>3, LeastExists
  <1>5. PICK k \in V : m = Cardinality(V) - c(k)
    OBVIOUS
  <1>6. \A j \in V : c(j) <= c(k)
    <2> HIDE DEF c
    <2>1. \A j \in V : Cardinality(V) - c(k) <= Cardinality(V) - c(j)
      BY <1>4, <1>5
    <2> QED BY <1>1, <1>2, <2>1
  <1>7. ASSUME NEW j \in V, ~Before(d, j, k) PROVE FALSE
    <2>1. Before(d, k, j) /\ j \notin UpTo(V, d, k)
      BY <1>7, OrderTotal DEF UpTo
    <2>2. UpTo(V, d, k) \cup {j} \subseteq UpTo(V, d, j)
      BY <2>1, OrderTotal DEF UpTo
    <2>3. Cardinality(UpTo(V, d, k) \cup {j}) = c(k) + 1
      BY <2>1, UpToFinite, FS_AddElement
    <2>4. c(k) + 1 <= c(j)
      BY <2>2, <2>3, UpToFinite, FS_Subset
    <2> HIDE DEF c
    <2> QED BY <1>1, <1>6, <2>4
  <1> QED BY <1>7 DEF UpTo

(* Every number up to that of rows is some row's.                          *)
LEMMA NumbersTaken ==
    ASSUME NEW V \in SUBSET Int, IsFiniteSet(V), NEW d \in BOOLEAN,
           NEW n \in Nat, n < Cardinality(V)
    PROVE  \E k \in V : Cardinality(UpTo(V, d, k)) = n + 1
  <1> DEFINE c(k) == Cardinality(UpTo(V, d, k))
  <1> DEFINE above == {c(k) : k \in {i \in V : c(i) > n}}
  <1>1. ASSUME NEW k \in V PROVE c(k) \in Nat
    BY UpToFinite
  <1>2. V # {}
    BY FS_EmptySet
  <1>3. PICK z \in V : UpTo(V, d, z) = V
    BY <1>2, LastExists
  <1>4. above \in SUBSET Nat /\ above # {}
    <2>1. c(z) > n
      BY <1>3
    <2> HIDE DEF c
    <2> QED BY <1>1, <2>1
  <1>5. PICK m \in above : \A a \in above : m <= a
    <2> HIDE DEF above
    <2> QED BY <1>4, LeastExists
  <1>6. PICK k \in V : m = c(k) /\ c(k) > n
    BY <1>5
  <1>7. \A i \in V : c(i) > n => c(k) <= c(i)
    <2> HIDE DEF c
    <2> QED BY <1>5, <1>6
  <1>8. CASE c(k) > n + 1
    <2> DEFINE U == UpTo(V, d, k) \ {k}
    <2>1. U \in SUBSET Int /\ IsFiniteSet(U) /\ Cardinality(U) = c(k) - 1
      BY UpToFinite, FS_RemoveElement
    <2>2. U # {}
      <3>1. c(k) \in Nat
        BY <1>1
      <3> HIDE DEF c, U
      <3> QED BY <1>8, <2>1, <3>1, FS_EmptySet
    <2>3. PICK j \in U : UpTo(U, d, j) = U
      <3> HIDE DEF U
      <3> QED BY <2>1, <2>2, LastExists
    <2>4. j \in V /\ j # k /\ Before(d, j, k)
      BY DEF UpTo
    <2>5. UpTo(V, d, j) = U
      <3>1. ASSUME NEW i \in V, Before(d, i, j) PROVE i \in U
        <4>1. Before(d, i, k)
          BY <2>4, <3>1, OrderTotal
        <4>2. i # k
          BY <2>4, <3>1, OrderTotal
        <4> QED BY <4>1, <4>2 DEF UpTo
      <3>2. ASSUME NEW i \in U PROVE i \in V /\ Before(d, i, j)
        BY <2>3, <3>2 DEF UpTo
      <3> QED BY <3>1, <3>2 DEF UpTo
    <2>6. c(j) = c(k) - 1
      BY <2>1, <2>5
    <2> HIDE DEF c
    <2> QED BY <1>1, <1>7, <1>8, <2>4, <2>6
  <1>9. CASE ~(c(k) > n + 1)
    <2>1. c(k) \in Nat
      BY <1>1
    <2> HIDE DEF c
    <2>2. c(k) = n + 1
      BY <1>6, <1>9, <2>1
    <2> QED BY <2>2 DEF c
  <1> QED BY <1>8, <1>9
(* A page in range begins within the list.                                 *)
LEMMA FirstOfPage ==
    ASSUME NEW n \in Nat, n # 0, NEW s \in Nat, s # 0, NEW p \in Nat \ {0}, p <= Pages(n, s)
    PROVE  /\ (p - 1) * s \in Nat /\ (p - 1) * s < n
           /\ p * s = (p - 1) * s + s
  <1> DEFINE q == (n + s - 1) \div s
  <1>1. Pages(n, s) = q /\ q \in Int
    BY DEF Pages
  <1>2. q * s <= n + s - 1
    OBVIOUS
  <1> HIDE DEF q
  <1>3. p * s = (p - 1) * s + s /\ (p - 1) * s \in Nat
    OBVIOUS
  <1>4. p * s <= q * s
    BY <1>1
  <1>5. p * s \in Int /\ q * s \in Int
    BY <1>1
  <1> QED BY <1>2, <1>3, <1>4, <1>5

(* The page on screen has a row on it unless nothing matches, although the *)
(* page number outlives the list it was chosen in (listview.js:103-106).   *)
THEOREM NeverABlankPage == ListAssumption => (ListSpec => []NoBlankPage)
  <1> SUFFICES ASSUME ListAssumption PROVE ListSpec => []NoBlankPage
    OBVIOUS
  <1>1. ASSUME ListIInv, Visible(rows, term) # {} PROVE ShownRows # {}
    <2> DEFINE V == Visible(rows, term)
    <2> DEFINE n == Cardinality(V)
    <2>1. /\ V \in SUBSET Int /\ IsFiniteSet(V) /\ n \in Nat /\ n # 0
          /\ down \in BOOLEAN /\ size \in Nat /\ page \in Nat \ {0}
      <3>1. V \subseteq RowKeys /\ RowKeys \subseteq Int
        BY <1>1 DEF ListIInv, ListTypeOK, Visible, ListAssumption
      <3>2. IsFiniteSet(V) /\ n \in Nat
        BY <3>1, FS_Subset, FS_CardinalityType DEF ListAssumption
      <3>3. n # 0
        BY <1>1, <3>2, FS_EmptySet
      <3>4. down \in BOOLEAN /\ size \in Nat /\ page \in Nat \ {0}
        BY <1>1 DEF ListIInv, ListTypeOK, ListAssumption
      <3> QED BY <3>1, <3>2, <3>3, <3>4
    <2>2. page <= Pages(n, size)
      BY <1>1 DEF ListIInv, PageInRange
    <2>3. CASE size = 0
      BY <1>1, <2>3 DEF ShownRows, OnPage
    <2>4. CASE size # 0
      <3>1. /\ (page - 1) * size \in Nat /\ (page - 1) * size < n
            /\ page * size = (page - 1) * size + size
        <4> HIDE DEF n
        <4> QED BY <2>1, <2>2, <2>4, FirstOfPage
      <3>2. PICK k \in V : Cardinality(UpTo(V, down, k)) = (page - 1) * size + 1
        <4> HIDE DEF V
        <4> QED BY <2>1, <3>1, NumbersTaken
      <3>3. Place(V, down, k) = Cardinality(UpTo(V, down, k))
        BY DEF Place, UpTo, Before
      <3>4. (page - 1) * size < Place(V, down, k) /\ Place(V, down, k) <= page * size
        <4> HIDE DEF V
        <4> QED BY <2>1, <2>4, <3>1, <3>2, <3>3
      <3>5. k \in OnPage(V, size, page, down)
        <4> HIDE DEF V
        <4> QED BY <2>4, <3>4 DEF OnPage
      <3> QED BY <3>5 DEF ShownRows
    <2> QED BY <2>3, <2>4
  <1>2. ListIInv => NoBlankPage
    BY <1>1 DEF NoBlankPage
  <1> QED BY <1>2, ListInvariance, PTL

(* Together: whoever searches, pages, ticks and deletes, with answers that  *)
(* come late and rows that others add or take away, deletes only what can   *)
(* be seen, no core port, and never looks at an empty page while there are  *)
(* rows (listview.js:103-108, ports.js:14).                                 *)
THEOREM ListHoldsUp == ListAssumption => (ListSpec => []ListIsSound)
  <1> SUFFICES ASSUME ListAssumption PROVE ListSpec => []ListIsSound
    OBVIOUS
  <1> QED BY HiddenRowsAreNotSelected, CorePortsStay, NeverABlankPage, PTL DEF ListIsSound

-------------------------------------------------------------------------------
(***************************************************************************)
(* Proofs about PanelShell, for any number of renders and tab switches.    *)
(*                                                                         *)
(* Every switch of a tab has a ticket of its own, so what a timer, a       *)
(* pending switch and a render's cleanup know of each other can be told    *)
(* from their numbers: the newest switch of a render is either still       *)
(* pending or has its timer, never both, and the render's cleanup names    *)
(* that timer.  A render that was painted keeps #content's cleanup until   *)
(* another page takes its place, or an older page answers late.            *)
(***************************************************************************)
RendersNumbered ==
    /\ \A p \in renders : p.ticket <= renderTicket /\ tabs[p.ticket].ticket = 0
    /\ \A p \in renders : p.stage = "answer" => p.page = "certs"
    /\ \A p, q \in renders : p.ticket = q.ticket => p = q
    /\ \A r \in Renders : tabs[r].ticket > 0 => r <= renderTicket
    /\ content[1] = "status" => tabs[content[2]].ticket > 0
ShowsNumbered ==
    /\ \A s \in shows : s.ticket <= tabs[s.render].ticket
    /\ \A s, t \in shows : s.render = t.render /\ s.ticket = t.ticket => s = t
    /\ \A s \in shows : s.stage = "answer" /\ s.tab = "health" /\ IsNewest(s) =>
          tabs[s.render].prop = s.ticket
TimersNumbered ==
    /\ \A i \in timers : i.ticket <= tabs[i.render].ticket
    /\ \A i \in timers, s \in shows : i.render = s.render => i.ticket # s.ticket
    /\ \A i \in timers : ~i.late =>
          i.ticket = tabs[i.render].ticket /\ tabs[i.render].stop = i.ticket
(* A render that was painted is the one #content's cleanup stops, unless.   *)
Attached(r) ==
    \/ cleanup = <<"status", r>>
    \/ cleanup[1] = "certs" /\ cleanup[2] < r
    \/ renderTicket > r /\ content[2] # r
PaintedAttached == \A r \in Renders : tabs[r].ticket > 0 => Attached(r)
ShellIInv ==
    /\ ShellTypeOK /\ ReportsDoNotStack
    /\ RendersNumbered /\ ShowsNumbered /\ TimersNumbered /\ PaintedAttached

LEMMA ShellInitially == ShellInit => ShellIInv
BY ShellAssumption DEF ShellInit, ShellIInv, ShellTypeOK, ReportsDoNotStack, RendersNumbered,
   ShowsNumbered, TimersNumbered, PaintedAttached, NewTabs, ShellPages, Tabs, Renders, Shows, Nothing, Loading

Panes == {Loading} \cup ((Tabs \cup {"error"}) \X Shows)
TabSet == [ticket : 0..MaxShows, stop : 0..MaxShows, prop : 0..MaxShows, pane : Panes]
ShowSet == [render : Renders, ticket : Shows, tab : Tabs, stage : {"script", "answer"}]
RenderSet == [ticket : Renders, page : ShellPages, stage : {"script", "answer"}]
TimerSet == [render : Renders, ticket : Shows, tab : Tabs, late : BOOLEAN]

LEMMA ShellTyped ==
    ASSUME ShellTypeOK
    PROVE  /\ MaxRenders \in Nat /\ MaxShows \in Nat /\ MaxStacked \in Nat
           /\ renderTicket \in Nat /\ renderTicket <= MaxRenders
           /\ Renders \subseteq Nat /\ 0 \notin Renders /\ Shows \subseteq Nat /\ 0 \notin Shows
           /\ tabs \in [Renders -> TabSet] /\ renders \subseteq RenderSet
           /\ shows \subseteq ShowSet /\ timers \subseteq TimerSet
           /\ \A r \in Renders : tabs[r].ticket \in Nat /\ tabs[r].stop \in Nat /\ tabs[r].prop \in Nat
           /\ \A p \in renders : p.ticket \in Renders
           /\ \A s \in shows : s.render \in Renders /\ s.ticket \in Shows
           /\ \A i \in timers : i.render \in Renders /\ i.ticket \in Shows
BY ShellAssumption
   DEF ShellTypeOK, Renders, Shows, TabSet, Panes, RenderSet, ShowSet, TimerSet

LEMMA TabChanged ==
    ASSUME tabs \in [Renders -> TabSet], NEW r \in Renders, NEW x \in TabSet,
           tabs' = [tabs EXCEPT ![r] = x]
    PROVE  /\ tabs' \in [Renders -> TabSet] /\ tabs'[r] = x
           /\ \A q \in Renders : tabs'[q] = IF q = r THEN x ELSE tabs[q]
OBVIOUS

(* A switch of the tab gives the render a new number and stops its timer.   *)
LEMMA TabShown ==
    ASSUME ShellTypeOK, NEW r \in Renders, NEW tab \in Tabs, Show(r, tab, shows),
           NEW n, n = [render |-> r, ticket |-> tabs[r].ticket + 1, tab |-> tab, stage |-> "script"]
    PROVE  /\ tabs' \in [Renders -> TabSet] /\ n \in ShowSet
           /\ shows' = shows \cup {n} /\ lastTab' = tab
           /\ timers' = timers \ StoppedBy(r)
           /\ tabs'[r].ticket = tabs[r].ticket + 1
           /\ \A q \in Renders : q # r => tabs'[q] = tabs[q]
<1> DEFINE k == tabs[r].ticket + 1
           x == [tabs[r] EXCEPT !.ticket = k, !.stop = 0, !.pane = Loading]
<1>1. tabs[r] \in TabSet /\ k \in 0..MaxShows /\ k \in Shows
    BY ShellTyped DEF Show, TabSet, Shows
<1>2. Loading \in Panes /\ 0 \in 0..MaxShows
    BY ShellTyped DEF Panes
<1>3. x \in TabSet /\ x.ticket = k
    <2> HIDE DEF k
    <2> QED BY <1>1, <1>2 DEF TabSet
<1>4. tabs' = [tabs EXCEPT ![r] = x]
    BY ShellTyped DEF Show
<1>5. n \in ShowSet
    BY <1>1 DEF ShowSet
<1> HIDE DEF x
<1> QED
    BY <1>1, <1>3, <1>4, <1>5, TabChanged, ShellTyped DEF Show

LEMMA ShowKeepsNumbers ==
    ASSUME ShellIInv, NEW r \in Renders, NEW tab \in Tabs, Show(r, tab, shows)
    PROVE  ShowsNumbered' /\ TimersNumbered'
<1>1. PICK n : n = [render |-> r, ticket |-> tabs[r].ticket + 1, tab |-> tab, stage |-> "script"]
    OBVIOUS
<1>2. /\ tabs' \in [Renders -> TabSet] /\ shows' = shows \cup {n}
      /\ timers' = timers \ StoppedBy(r)
      /\ tabs'[r].ticket = tabs[r].ticket + 1
      /\ \A q \in Renders : q # r => tabs'[q] = tabs[q]
    BY <1>1, TabShown DEF ShellIInv
<1>3. n.render = r /\ n.ticket = tabs[r].ticket + 1 /\ n.stage = "script"
    BY <1>1
<1>4. ShellTypeOK /\ ShowsNumbered /\ TimersNumbered
    BY DEF ShellIInv
<1>5. ShowsNumbered'
    BY <1>2, <1>3, <1>4, ShellTyped DEF ShowsNumbered, IsNewest
<1>6. TimersNumbered'
    BY <1>2, <1>3, <1>4, ShellTyped DEF ShowsNumbered, TimersNumbered, StoppedBy
<1> QED
    BY <1>5, <1>6

LEMMA RenderPageKeeps ==
    ASSUME ShellIInv, NEW pg \in ShellPages, NEW S, RenderPage(pg, S)
    PROVE  ShellIInv'
<1>0. /\ ShellTypeOK /\ ReportsDoNotStack /\ RendersNumbered /\ ShowsNumbered /\ TimersNumbered
      /\ PaintedAttached
    BY DEF ShellIInv
<1> DEFINE m == renderTicket + 1
           n == [ticket |-> m, page |-> pg, stage |-> "script"]
<1>1. m \in Renders /\ n \in RenderSet /\ n.ticket = m /\ n.stage = "script"
    BY <1>0, ShellTyped DEF RenderPage, Renders, RenderSet
<1>2. /\ renderTicket' = m /\ renders' = renders \cup {n} /\ current' = pg
      /\ cleanup' = Nothing /\ content' = Loading /\ UNCHANGED <<lastTab, shows, reports>>
    BY DEF RenderPage
<1>3. /\ tabs' \in [Renders -> TabSet]
      /\ \A q \in Renders : tabs'[q].ticket = tabs[q].ticket /\ tabs'[q].prop = tabs[q].prop
      /\ \A q \in Renders : tabs'[q].stop # tabs[q].stop =>
             timers' \subseteq timers \ StoppedBy(q)
      /\ timers' \subseteq timers
    <2>1. CASE cleanup[1] = "status"
        <3> DEFINE c == cleanup[2]
                   x == [tabs[c] EXCEPT !.stop = 0]
        <3>1. c \in Renders
            BY <1>0, <2>1 DEF ShellTypeOK, Nothing
        <3>2. x \in TabSet /\ x.ticket = tabs[c].ticket /\ x.prop = tabs[c].prop
            BY <1>0, <3>1, ShellTyped DEF TabSet
        <3>3. tabs' = [tabs EXCEPT ![c] = x] /\ timers' = (timers \ StoppedBy(c)) \ S
            BY <2>1 DEF RenderPage
        <3> HIDE DEF c, x
        <3> QED
            BY <1>0, <3>1, <3>2, <3>3, TabChanged, ShellTyped
    <2>2. CASE cleanup[1] # "status"
        BY <1>0, <2>2, ShellTyped DEF RenderPage
    <2> QED
        BY <2>1, <2>2
<1> HIDE DEF n, m
<1>4. ShellTypeOK'
    <2>1. timers' \subseteq TimerSet /\ renders' \subseteq RenderSet
        BY <1>0, <1>1, <1>2, <1>3, ShellTyped
    <2>2. renderTicket' \in 0..MaxRenders
        BY <1>1, <1>2, ShellAssumption DEF Renders
    <2> QED
        BY <1>0, <1>2, <1>3, <2>1, <2>2 DEF ShellTypeOK, TabSet, Panes, TimerSet, RenderSet
<1>5. m = renderTicket + 1
    BY DEF m
<1>6. RendersNumbered'
    <2>1. tabs[m].ticket = 0
        BY <1>0, <1>1, <1>5, ShellTyped DEF RendersNumbered
    <2>2. content'[1] # "status"
        BY <1>2 DEF Loading
    <2>3. \A p \in renders : p.ticket < m /\ p.ticket \in Renders
        BY <1>0, <1>5, ShellTyped DEF RendersNumbered
    <2>4. \A r \in Renders : tabs'[r].ticket > 0 => r <= m
        BY <1>0, <1>3, <1>5, ShellTyped DEF RendersNumbered
    <2> QED
        BY <1>0, <1>1, <1>2, <1>3, <2>1, <2>2, <2>3, <2>4, ShellTyped DEF RendersNumbered
<1>7. ShowsNumbered'
    BY <1>0, <1>2, <1>3, ShellTyped DEF ShowsNumbered, IsNewest
<1>8. TimersNumbered'
    <2>1. \A i \in timers' : i \in timers /\ i.render \in Renders
        BY <1>0, <1>3, ShellTyped
    <2>2. \A i \in timers' : ~i.late => tabs'[i.render].stop = i.ticket
        <3> SUFFICES ASSUME NEW i \in timers', ~i.late PROVE tabs'[i.render].stop = i.ticket
            OBVIOUS
        <3>1. tabs[i.render].stop = i.ticket
            BY <1>0, <2>1 DEF TimersNumbered
        <3>2. i \in StoppedBy(i.render)
            BY <2>1, <3>1 DEF StoppedBy
        <3> QED
            BY <1>3, <2>1, <3>1, <3>2
    <2> QED
        BY <1>0, <1>2, <1>3, <2>1, <2>2 DEF TimersNumbered
<1>9. PaintedAttached'
    <2>1. \A r \in Renders : tabs'[r].ticket > 0 => m > r
        BY <1>0, <1>3, <1>5, ShellTyped DEF RendersNumbered
    <2>2. \A r \in Renders : content'[2] # r
        BY <1>2, <1>0, ShellTyped DEF Loading
    <2> QED
        BY <1>2, <2>1, <2>2 DEF PaintedAttached, Attached
<1>10. ReportsDoNotStack'
    BY <1>0, <1>2 DEF ReportsDoNotStack
<1> QED
    BY <1>4, <1>6, <1>7, <1>8, <1>9, <1>10 DEF ShellIInv

LEMMA ScriptLoadedKeeps ==
    ASSUME ShellIInv, NEW p \in renders, ScriptLoaded(p)
    PROVE  ShellIInv'
<1>0. /\ ShellTypeOK /\ ReportsDoNotStack /\ RendersNumbered /\ ShowsNumbered /\ TimersNumbered
      /\ PaintedAttached /\ UNCHANGED <<current, renderTicket, reports>>
    BY DEF ShellIInv, ScriptLoaded
<1>1. p \in RenderSet /\ p.ticket \in Renders /\ ReportsDoNotStack'
    BY <1>0, ShellTyped DEF ReportsDoNotStack
<1>2. CASE renders' = renders \ {p} /\ UNCHANGED <<content, cleanup, lastTab, tabs, shows, timers>>
    <2>1. ShellTypeOK'
        BY <1>0, <1>2 DEF ShellTypeOK
    <2> QED
        BY <1>0, <1>1, <1>2, <2>1
        DEF ShellIInv, RendersNumbered, ShowsNumbered, TimersNumbered, PaintedAttached, Attached, IsNewest
<1>3. CASE /\ renders' = (renders \ {p}) \cup {[p EXCEPT !.stage = "answer"]} /\ p.page # "status"
           /\ UNCHANGED <<content, cleanup, lastTab, tabs, shows, timers>>
    <2>1. PICK n : n = [p EXCEPT !.stage = "answer"]
        OBVIOUS
    <2>2. n \in RenderSet /\ n.ticket = p.ticket /\ n.page = "certs"
        BY <1>1, <1>3, <2>1 DEF RenderSet, ShellPages
    <2>3. renders' = (renders \ {p}) \cup {n}
        BY <1>3, <2>1
    <2>4. ShellTypeOK'
        BY <1>0, <1>3, <2>2, <2>3 DEF ShellTypeOK, RenderSet
    <2>5. RendersNumbered'
        BY <1>0, <1>3, <2>2, <2>3 DEF RendersNumbered
    <2> QED
        BY <1>0, <1>1, <1>3, <2>4, <2>5
        DEF ShellIInv, ShowsNumbered, TimersNumbered, PaintedAttached, Attached, IsNewest
<1>4. CASE /\ p.ticket = renderTicket /\ p.page = "status" /\ renders' = renders \ {p}
           /\ content' = <<"status", p.ticket>> /\ cleanup' = <<"status", p.ticket>>
           /\ Show(p.ticket, lastTab, shows)
    <2> DEFINE r == p.ticket
    <2>1. PICK n : n = [render |-> r, ticket |-> tabs[r].ticket + 1, tab |-> lastTab, stage |-> "script"]
        OBVIOUS
    <2>2. /\ tabs' \in [Renders -> TabSet] /\ n \in ShowSet /\ shows' = shows \cup {n}
          /\ timers' = timers \ StoppedBy(r) /\ lastTab' = lastTab
          /\ tabs'[r].ticket = tabs[r].ticket + 1
          /\ \A q \in Renders : q # r => tabs'[q] = tabs[q]
        BY <1>0, <1>1, <1>4, <2>1, TabShown DEF ShellTypeOK
    <2>3. ShowsNumbered' /\ TimersNumbered'
        BY <1>0, <1>1, <1>4, ShowKeepsNumbers DEF ShellTypeOK
    <2>4. ShellTypeOK'
        <3>1. content' \in ShellPages \X Renders /\ cleanup' \in ShellPages \X Renders
            BY <1>1, <1>4 DEF ShellPages
        <3>2. shows' \subseteq ShowSet /\ timers' \subseteq TimerSet /\ renders' \subseteq RenderSet
            BY <1>0, <1>4, <2>2, ShellTyped
        <3> QED
            BY <1>0, <2>2, <3>1, <3>2 DEF ShellTypeOK, TabSet, Panes, TimerSet, RenderSet, ShowSet
    <2>5. RendersNumbered'
        <3>1. \A q \in renders' : q.ticket # r /\ q \in renders
            BY <1>0, <1>4 DEF RendersNumbered
        <3>2. tabs'[r].ticket > 0
            BY <1>0, <1>1, <2>2, ShellTyped
        <3>3. \A q \in renders' : tabs'[q.ticket].ticket = 0
            BY <1>0, <2>2, <3>1, ShellTyped DEF RendersNumbered
        <3>4. \A q \in Renders : tabs'[q].ticket > 0 => q <= renderTicket
            BY <1>0, <1>4, <2>2, ShellTyped DEF RendersNumbered
        <3>5. content'[2] = r
            BY <1>4
        <3> QED
            BY <1>0, <3>1, <3>2, <3>3, <3>4, <3>5 DEF RendersNumbered
    <2>6. PaintedAttached'
        <3> SUFFICES ASSUME NEW q \in Renders, tabs'[q].ticket > 0 PROVE Attached(q)'
            BY DEF PaintedAttached
        <3>1. q # r => q < renderTicket
            BY <1>0, <1>1, <1>4, <2>2, ShellTyped DEF RendersNumbered
        <3> QED
            BY <1>0, <1>4, <3>1 DEF Attached
    <2> QED
        BY <1>1, <2>3, <2>4, <2>5, <2>6 DEF ShellIInv
<1> QED
    BY <1>2, <1>3, <1>4 DEF ScriptLoaded

LEMMA PageAnsweredKeeps ==
    ASSUME ShellIInv, NEW p \in renders, PageAnswered(p)
    PROVE  ShellIInv'
<1>0. /\ ShellTypeOK /\ ReportsDoNotStack /\ RendersNumbered /\ ShowsNumbered /\ TimersNumbered
      /\ PaintedAttached
    BY DEF ShellIInv
<1>1. /\ p.stage = "answer" /\ p.page = "certs" /\ p.ticket \in Renders
      /\ content' = <<"certs", p.ticket>> /\ cleanup' = <<"certs", p.ticket>>
      /\ renders' = renders \ {p}
      /\ UNCHANGED <<current, renderTicket, lastTab, tabs, shows, timers, reports>>
    BY <1>0, ShellTyped DEF PageAnswered, RendersNumbered
<1>2. ShellTypeOK'
    <2>1. content' \in ShellPages \X Renders /\ cleanup' \in ShellPages \X Renders
        BY <1>1 DEF ShellPages
    <2> QED
        BY <1>0, <1>1, <2>1 DEF ShellTypeOK
<1>3. RendersNumbered'
    BY <1>0, <1>1 DEF RendersNumbered
<1>4. PaintedAttached'
    <2> SUFFICES ASSUME NEW r \in Renders, tabs[r].ticket > 0 PROVE Attached(r)'
        BY <1>1 DEF PaintedAttached
    <2>1. p.ticket # r /\ p.ticket <= renderTicket
        BY <1>0 DEF RendersNumbered
    <2>2. p.ticket < r \/ renderTicket > r
        BY <1>0, <1>1, <2>1, ShellTyped
    <2> QED
        BY <1>1, <2>1, <2>2 DEF Attached
<1> QED
    BY <1>0, <1>1, <1>2, <1>3, <1>4
    DEF ShellIInv, ShowsNumbered, TimersNumbered, IsNewest, ReportsDoNotStack

LEMMA PageFailedKeeps ==
    ASSUME ShellIInv, NEW p \in renders, PageFailed(p)
    PROVE  ShellIInv'
<1>0. /\ ShellTypeOK /\ ReportsDoNotStack /\ RendersNumbered /\ ShowsNumbered /\ TimersNumbered
      /\ PaintedAttached
    BY DEF ShellIInv
<1>1. /\ p.ticket \in Renders /\ renders' = renders \ {p}
      /\ content' = IF p.ticket = renderTicket THEN <<"error", p.ticket>> ELSE content
      /\ UNCHANGED <<current, renderTicket, cleanup, lastTab, tabs, shows, timers, reports>>
    BY <1>0, ShellTyped DEF PageFailed
<1>2. ShellTypeOK'
    <2>1. <<"error", p.ticket>> \in (ShellPages \cup {"error"}) \X Renders
        BY <1>1
    <2> QED
        BY <1>0, <1>1, <2>1 DEF ShellTypeOK
<1>3. RendersNumbered'
    BY <1>0, <1>1 DEF RendersNumbered
<1>4. PaintedAttached'
    <2> SUFFICES ASSUME NEW r \in Renders, tabs[r].ticket > 0 PROVE Attached(r)'
        BY <1>1 DEF PaintedAttached
    <2>1. p.ticket # r /\ r <= renderTicket /\ Attached(r)
        BY <1>0 DEF RendersNumbered, PaintedAttached
    <2>2. CASE p.ticket = renderTicket
        <3>1. renderTicket > r /\ content'[2] = p.ticket
            BY <1>0, <1>1, <2>1, <2>2, ShellTyped
        <3> QED
            BY <1>1, <2>1, <3>1 DEF Attached
    <2>3. CASE p.ticket # renderTicket
        BY <1>1, <2>1, <2>3 DEF Attached
    <2> QED
        BY <2>2, <2>3
<1> QED
    BY <1>0, <1>1, <1>2, <1>3, <1>4
    DEF ShellIInv, ShowsNumbered, TimersNumbered, IsNewest, ReportsDoNotStack

LEMMA ClickTabKeeps ==
    ASSUME ShellIInv, NEW tab \in Tabs, ClickTab(tab)
    PROVE  ShellIInv'
<1>0. /\ ShellTypeOK /\ ReportsDoNotStack /\ RendersNumbered /\ ShowsNumbered /\ TimersNumbered
      /\ PaintedAttached
    BY DEF ShellIInv
<1> DEFINE r == content[2]
<1>1. /\ content[1] = "status" /\ Show(r, tab, shows)
      /\ UNCHANGED <<current, renderTicket, renders, content, cleanup, reports>>
    BY DEF ClickTab
<1>2. r \in Renders /\ tabs[r].ticket > 0
    BY <1>0, <1>1 DEF ShellTypeOK, Loading, RendersNumbered
<1> HIDE DEF r
<1>3. PICK n : n = [render |-> r, ticket |-> tabs[r].ticket + 1, tab |-> tab, stage |-> "script"]
    OBVIOUS
<1>4. /\ tabs' \in [Renders -> TabSet] /\ n \in ShowSet /\ shows' = shows \cup {n}
      /\ timers' = timers \ StoppedBy(r) /\ lastTab' = tab
      /\ tabs'[r].ticket = tabs[r].ticket + 1
      /\ \A q \in Renders : q # r => tabs'[q] = tabs[q]
    BY <1>0, <1>1, <1>2, <1>3, TabShown
<1>5. ShowsNumbered' /\ TimersNumbered'
    BY <1>1, <1>2, ShowKeepsNumbers
<1>6. ShellTypeOK'
    <2>1. shows' \subseteq ShowSet /\ timers' \subseteq TimerSet
        BY <1>0, <1>4, ShellTyped
    <2> QED
        BY <1>0, <1>1, <1>4, <2>1 DEF ShellTypeOK, TabSet, Panes, TimerSet, ShowSet
<1>7. \A q \in Renders : tabs'[q].ticket > 0 <=> tabs[q].ticket > 0
    BY <1>0, <1>2, <1>4, ShellTyped
<1>8. \A q \in renders : tabs'[q.ticket] = tabs[q.ticket]
    BY <1>0, <1>2, <1>4, ShellTyped DEF RendersNumbered
<1>9. RendersNumbered'
    <2>1. content[2] \in Renders
        BY <1>2 DEF r
    <2> QED
        BY <1>0, <1>1, <1>7, <1>8, <2>1 DEF RendersNumbered
<1>10. PaintedAttached'
    BY <1>0, <1>1, <1>7 DEF PaintedAttached, Attached
<1> QED
    BY <1>0, <1>1, <1>5, <1>6, <1>9, <1>10 DEF ShellIInv, ReportsDoNotStack

(* A tab of a render moves on: what the router knows of it is untouched.    *)
LEMMA TabKeepsTheRouter ==
    ASSUME ShellIInv, NEW r \in Renders, NEW x \in TabSet, x.ticket = tabs[r].ticket,
           tabs' = [tabs EXCEPT ![r] = x], shows' \subseteq ShowSet, timers' \subseteq TimerSet,
           reports' \in [Renders \X Shows -> 0..MaxStacked],
           UNCHANGED <<current, renderTicket, renders, content, cleanup, lastTab>>
    PROVE  /\ ShellTypeOK' /\ RendersNumbered' /\ PaintedAttached'
           /\ tabs'[r] = x /\ \A q \in Renders : q # r => tabs'[q] = tabs[q]
           /\ \A q \in Renders : tabs'[q].ticket = tabs[q].ticket
<1>0. ShellTypeOK /\ RendersNumbered /\ PaintedAttached
    BY DEF ShellIInv
<1>1. /\ tabs' \in [Renders -> TabSet]
      /\ tabs'[r] = x /\ \A q \in Renders : q # r => tabs'[q] = tabs[q]
      /\ \A q \in Renders : tabs'[q].ticket = tabs[q].ticket
    BY <1>0, ShellTyped, TabChanged
<1>2. ShellTypeOK'
    BY <1>0, <1>1 DEF ShellTypeOK, TabSet, Panes, TimerSet, ShowSet
<1>3. RendersNumbered'
    <2>1. content[1] = "status" => content[2] \in Renders
        BY <1>0 DEF ShellTypeOK, Loading
    <2> QED
        BY <1>0, <1>1, <2>1, ShellTyped DEF RendersNumbered
<1>4. PaintedAttached'
    BY <1>0, <1>1 DEF PaintedAttached, Attached
<1> QED
    BY <1>1, <1>2, <1>3, <1>4

LEMMA TabLoadedKeeps ==
    ASSUME ShellIInv, NEW s \in shows, TabLoaded(s)
    PROVE  ShellIInv'
<1>0. /\ ShellTypeOK /\ ReportsDoNotStack /\ RendersNumbered /\ ShowsNumbered /\ TimersNumbered
      /\ PaintedAttached
      /\ UNCHANGED <<current, renderTicket, renders, content, cleanup, lastTab, reports>>
    BY DEF ShellIInv, TabLoaded
<1> DEFINE r == s.render
           k == s.ticket
<1>1. /\ s \in ShowSet /\ r \in Renders /\ k \in Shows /\ s.stage = "script" /\ tabs[r] \in TabSet
      /\ ReportsDoNotStack' /\ reports' \in [Renders \X Shows -> 0..MaxStacked]
      /\ k \in 0..MaxShows
    BY <1>0, ShellTyped DEF TabLoaded, ReportsDoNotStack, ShellTypeOK, Shows
<1>2. CASE shows' = shows \ {s} /\ UNCHANGED <<tabs, timers>>
    <2>1. ShellTypeOK'
        BY <1>0, <1>2 DEF ShellTypeOK
    <2> QED
        BY <1>0, <1>1, <1>2, <2>1
        DEF ShellIInv, RendersNumbered, ShowsNumbered, TimersNumbered, PaintedAttached, Attached, IsNewest
<1>3. CASE /\ IsNewest(s) /\ s.tab = "stats" /\ shows' = shows \ {s}
           /\ timers' = timers \cup {Timer(s)}
           /\ tabs' = [tabs EXCEPT ![r] = [@ EXCEPT !.pane = Painted(s, "stats"), !.prop = k, !.stop = k]]
    <2>1. PICK x : x = [tabs[r] EXCEPT !.pane = Painted(s, "stats"), !.prop = k, !.stop = k]
        OBVIOUS
    <2>2. Painted(s, "stats") \in Panes
        BY <1>1 DEF Painted, Panes, Tabs
    <2>3. x \in TabSet /\ x.ticket = tabs[r].ticket /\ x.stop = k /\ tabs' = [tabs EXCEPT ![r] = x]
        BY <1>1, <1>3, <2>1, <2>2 DEF TabSet
    <2>4. PICK i : i = Timer(s)
        OBVIOUS
    <2>5. i \in TimerSet /\ i.render = r /\ i.ticket = k /\ tabs[r].ticket = k
        BY <1>1, <1>3, <2>4 DEF Timer, TimerSet, ShowSet, IsNewest
    <2>6. timers' = timers \cup {i} /\ timers' \subseteq TimerSet /\ shows' \subseteq ShowSet
        BY <1>0, <1>3, <2>4, <2>5, ShellTyped
    <2> HIDE DEF r, k
    <2>7. /\ ShellTypeOK' /\ RendersNumbered' /\ PaintedAttached'
          /\ tabs'[r] = x /\ \A q \in Renders : q # r => tabs'[q] = tabs[q]
          /\ \A q \in Renders : tabs'[q].ticket = tabs[q].ticket
        BY <1>0, <1>1, <2>3, <2>6, TabKeepsTheRouter
    <2>8. r = s.render /\ k = s.ticket
        BY DEF r, k
    <2>9. ShowsNumbered'
        BY <1>0, <1>3, <2>5, <2>7, <2>8, ShellTyped DEF ShowsNumbered, IsNewest
    <2>10. TimersNumbered'
        BY <1>0, <1>3, <2>3, <2>5, <2>6, <2>7, <2>8, ShellTyped DEF ShowsNumbered, TimersNumbered
    <2> QED
        BY <1>1, <2>7, <2>9, <2>10 DEF ShellIInv
<1>4. CASE /\ IsNewest(s) /\ s.tab # "stats"
           /\ shows' = (shows \ {s}) \cup {[s EXCEPT !.stage = "answer"]}
           /\ tabs' = IF s.tab = "health" THEN [tabs EXCEPT ![r].prop = k] ELSE tabs
           /\ UNCHANGED timers
    <2>1. PICK x : x = IF s.tab = "health" THEN [tabs[r] EXCEPT !.prop = k] ELSE tabs[r]
        OBVIOUS
    <2>2. /\ x \in TabSet /\ x.ticket = tabs[r].ticket /\ x.stop = tabs[r].stop
          /\ s.tab = "health" => x.prop = k
        BY <1>1, <2>1 DEF TabSet
    <2>3. tabs' = [tabs EXCEPT ![r] = x]
        BY <1>0, <1>1, <1>4, <2>1, ShellTyped
    <2>4. PICK n : n = [s EXCEPT !.stage = "answer"]
        OBVIOUS
    <2>5. n \in ShowSet /\ n.render = r /\ n.ticket = k /\ n.tab = s.tab /\ tabs[r].ticket = k
        BY <1>1, <1>4, <2>4 DEF ShowSet, IsNewest
    <2>6. shows' = (shows \ {s}) \cup {n} /\ timers' \subseteq TimerSet /\ shows' \subseteq ShowSet
        BY <1>0, <1>4, <2>4, <2>5, ShellTyped
    <2> HIDE DEF r, k
    <2>7. /\ ShellTypeOK' /\ RendersNumbered' /\ PaintedAttached'
          /\ tabs'[r] = x /\ \A q \in Renders : q # r => tabs'[q] = tabs[q]
          /\ \A q \in Renders : tabs'[q].ticket = tabs[q].ticket
        BY <1>0, <1>1, <2>2, <2>3, <2>6, TabKeepsTheRouter
    <2>8. r = s.render /\ k = s.ticket
        BY DEF r, k
    <2>9. ShowsNumbered'
        BY <1>0, <2>2, <2>5, <2>6, <2>7, <2>8, ShellTyped DEF ShowsNumbered, IsNewest
    <2>10. TimersNumbered'
        BY <1>0, <1>1, <1>4, <2>2, <2>5, <2>6, <2>7, <2>8, ShellTyped DEF TimersNumbered
    <2> QED
        BY <1>1, <2>7, <2>9, <2>10 DEF ShellIInv
<1> QED
    BY <1>2, <1>3, <1>4 DEF TabLoaded

(* After render() returned: the newest switch has no timer yet, so whatever *)
(* cleanup it takes over stops no other's.                                 *)
LEMMA CapturedKeeps ==
    ASSUME ShellIInv, NEW s \in shows, NEW pane \in Panes, Captured(s, pane),
           timers' \subseteq TimerSet, shows' = shows \ {s},
           UNCHANGED <<current, renderTicket, renders, content, cleanup, lastTab, reports>>
    PROVE  /\ ShellTypeOK' /\ RendersNumbered' /\ PaintedAttached' /\ ReportsDoNotStack'
           /\ ShowsNumbered'
           /\ tabs'[s.render].stop = IF IsNewest(s) THEN tabs[s.render].prop ELSE tabs[s.render].stop
           /\ \A q \in Renders : q # s.render => tabs'[q] = tabs[q]
           /\ \A q \in Renders : tabs'[q].ticket = tabs[q].ticket
           /\ \A i \in timers : ~i.late =>
                 i.ticket = tabs'[i.render].ticket /\ tabs'[i.render].stop = i.ticket
<1>0. ShellTypeOK /\ ReportsDoNotStack /\ ShowsNumbered /\ TimersNumbered
    BY DEF ShellIInv
<1> DEFINE r == s.render
           b == IF IsNewest(s) THEN tabs[r].prop ELSE tabs[r].stop
<1>1. /\ s \in ShowSet /\ r \in Renders /\ tabs[r] \in TabSet /\ b \in 0..MaxShows
      /\ reports' \in [Renders \X Shows -> 0..MaxStacked] /\ shows' \subseteq ShowSet
    BY <1>0, ShellTyped DEF ShellTypeOK, TabSet
<1>2. PICK x : x = [tabs[r] EXCEPT !.pane = pane, !.stop = b]
    OBVIOUS
<1>3. tabs' = [tabs EXCEPT ![r] = x]
    BY <1>2 DEF Captured
<1>4. b = IF IsNewest(s) THEN tabs[r].prop ELSE tabs[r].stop
    OBVIOUS
<1>5. r = s.render
    OBVIOUS
<1> HIDE DEF r, b
<1>6. x \in TabSet /\ x.ticket = tabs[r].ticket /\ x.stop = b /\ x.prop = tabs[r].prop
    BY <1>1, <1>2 DEF TabSet
<1>7. /\ ShellTypeOK' /\ RendersNumbered' /\ PaintedAttached'
      /\ tabs'[r] = x /\ \A q \in Renders : q # r => tabs'[q] = tabs[q]
      /\ \A q \in Renders : tabs'[q].ticket = tabs[q].ticket
    BY <1>1, <1>3, <1>6, TabKeepsTheRouter
<1>8. \A q \in Renders : tabs'[q].prop = tabs[q].prop
    BY <1>6, <1>7
<1>9. ShowsNumbered'
    BY <1>0, <1>7, <1>8, ShellTyped DEF ShowsNumbered, IsNewest
<1>10. \A i \in timers : ~i.late =>
          i.ticket = tabs'[i.render].ticket /\ tabs'[i.render].stop = i.ticket
    <2> SUFFICES ASSUME NEW i \in timers, ~i.late
                 PROVE  i.ticket = tabs'[i.render].ticket /\ tabs'[i.render].stop = i.ticket
        OBVIOUS
    <2>1. /\ i.render \in Renders /\ i.ticket = tabs[i.render].ticket
          /\ tabs[i.render].stop = i.ticket /\ (i.render = r => i.ticket # s.ticket)
        BY <1>0, <1>5, ShellTyped DEF TimersNumbered
    <2>2. i.render = r => ~IsNewest(s)
        BY <1>5, <2>1 DEF IsNewest
    <2> QED
        BY <1>4, <1>6, <1>7, <2>1, <2>2
<1> QED
    BY <1>0, <1>4, <1>5, <1>6, <1>7, <1>9, <1>10 DEF ReportsDoNotStack

LEMMA FirstReportKeeps ==
    ASSUME ShellIInv, NEW s \in shows, FirstReport(s)
    PROVE  ShellIInv'
<1>0. ShellTypeOK /\ ShowsNumbered /\ TimersNumbered
    BY DEF ShellIInv
<1>1. PICK j : j = Timer(s)
    OBVIOUS
<1>2. /\ s \in ShowSet /\ s.render \in Renders /\ s.ticket \in Shows
      /\ Painted(s, "health") \in Panes
      /\ j \in TimerSet /\ j.render = s.render /\ j.ticket = s.ticket /\ j.late = ~IsNewest(s)
    BY <1>0, <1>1, ShellTyped DEF Timer, TimerSet, ShowSet, IsNewest, Painted, Panes, Tabs
<1>3. timers' = timers \cup {j} /\ timers' \subseteq TimerSet /\ shows' = shows \ {s}
    BY <1>0, <1>1, <1>2, ShellTyped DEF FirstReport
<1>4. /\ ShellTypeOK' /\ RendersNumbered' /\ PaintedAttached' /\ ReportsDoNotStack'
      /\ ShowsNumbered'
      /\ tabs'[s.render].stop = IF IsNewest(s) THEN tabs[s.render].prop ELSE tabs[s.render].stop
      /\ \A q \in Renders : tabs'[q].ticket = tabs[q].ticket
      /\ \A i \in timers : ~i.late =>
            i.ticket = tabs'[i.render].ticket /\ tabs'[i.render].stop = i.ticket
    BY <1>2, <1>3, CapturedKeeps DEF FirstReport
<1>5. IsNewest(s) => tabs'[s.render].stop = s.ticket /\ tabs'[s.render].ticket = s.ticket
    BY <1>0, <1>2, <1>4 DEF FirstReport, ShowsNumbered, IsNewest
<1>6. TimersNumbered'
    <2>1. s.ticket <= tabs'[s.render].ticket
        BY <1>0, <1>2, <1>4 DEF ShowsNumbered
    <2>2. \A i \in timers' : i.ticket <= tabs'[i.render].ticket
        BY <1>0, <1>2, <1>3, <1>4, <2>1, ShellTyped DEF TimersNumbered
    <2>3. \A i \in timers', t \in shows' : i.render = t.render => i.ticket # t.ticket
        BY <1>0, <1>2, <1>3 DEF TimersNumbered, ShowsNumbered
    <2>4. \A i \in timers' : ~i.late =>
             i.ticket = tabs'[i.render].ticket /\ tabs'[i.render].stop = i.ticket
        BY <1>2, <1>3, <1>4, <1>5
    <2> QED
        BY <2>2, <2>3, <2>4 DEF TimersNumbered
<1> QED
    BY <1>4, <1>6 DEF ShellIInv

LEMMA MapAnsweredKeeps ==
    ASSUME ShellIInv, NEW s \in shows, MapAnswered(s)
    PROVE  ShellIInv'
<1>0. ShellTypeOK /\ TimersNumbered
    BY DEF ShellIInv
<1>1. Painted(s, "map") \in Panes /\ shows' = shows \ {s} /\ timers' = timers
    BY <1>0, ShellTyped DEF Painted, Panes, Tabs, MapAnswered
<1>2. timers' \subseteq TimerSet
    BY <1>0, <1>1, ShellTyped
<1>3. /\ ShellTypeOK' /\ RendersNumbered' /\ PaintedAttached' /\ ReportsDoNotStack'
      /\ ShowsNumbered'
      /\ \A q \in Renders : tabs'[q].ticket = tabs[q].ticket
      /\ \A i \in timers : ~i.late =>
            i.ticket = tabs'[i.render].ticket /\ tabs'[i.render].stop = i.ticket
    BY <1>1, <1>2, CapturedKeeps DEF MapAnswered
<1>4. TimersNumbered'
    BY <1>0, <1>1, <1>3, ShellTyped DEF TimersNumbered
<1> QED
    BY <1>3, <1>4 DEF ShellIInv

(* Only the pane of one render changes.                                     *)
LEMMA PaneKeeps ==
    ASSUME ShellIInv, NEW r \in Renders, NEW pane \in Panes,
           tabs' = [tabs EXCEPT ![r].pane = pane], shows' \subseteq shows,
           reports' \in [Renders \X Shows -> 0..MaxStacked], ReportsDoNotStack',
           UNCHANGED <<current, renderTicket, renders, content, cleanup, lastTab, timers>>
    PROVE  ShellIInv'
<1>0. ShellTypeOK /\ ShowsNumbered /\ TimersNumbered
    BY DEF ShellIInv
<1>1. PICK x : x = [tabs[r] EXCEPT !.pane = pane]
    OBVIOUS
<1>2. /\ x \in TabSet /\ x.ticket = tabs[r].ticket /\ x.stop = tabs[r].stop /\ x.prop = tabs[r].prop
      /\ tabs' = [tabs EXCEPT ![r] = x]
    BY <1>0, <1>1, ShellTyped DEF TabSet
<1>3. timers' \subseteq TimerSet /\ shows' \subseteq ShowSet
    BY <1>0, ShellTyped
<1>4. /\ ShellTypeOK' /\ RendersNumbered' /\ PaintedAttached'
      /\ tabs'[r] = x /\ \A q \in Renders : q # r => tabs'[q] = tabs[q]
    BY <1>2, <1>3, TabKeepsTheRouter
<1>5. \A q \in Renders : /\ tabs'[q].ticket = tabs[q].ticket /\ tabs'[q].prop = tabs[q].prop
                         /\ tabs'[q].stop = tabs[q].stop
    BY <1>2, <1>4
<1>6. ShowsNumbered' /\ TimersNumbered'
    BY <1>0, <1>5, ShellTyped DEF ShowsNumbered, TimersNumbered, IsNewest
<1> QED
    BY <1>4, <1>6 DEF ShellIInv

LEMMA TabFailedKeeps ==
    ASSUME ShellIInv, NEW s \in shows, TabFailed(s)
    PROVE  ShellIInv'
<1>0. ShellTypeOK /\ ReportsDoNotStack
    BY DEF ShellIInv
<1>1. /\ Painted(s, "error") \in Panes /\ s.render \in Renders /\ ReportsDoNotStack'
      /\ reports' \in [Renders \X Shows -> 0..MaxStacked]
    BY <1>0, ShellTyped DEF Painted, Panes, TabFailed, ReportsDoNotStack, ShellTypeOK
<1>2. PICK pane : pane = IF IsNewest(s) THEN Painted(s, "error") ELSE tabs[s.render].pane
    OBVIOUS
<1>3. pane \in Panes
    BY <1>0, <1>1, <1>2, ShellTyped DEF TabSet
<1>4. tabs' = [tabs EXCEPT ![s.render].pane = pane]
    <2>1. tabs[s.render] \in TabSet
        BY <1>0, <1>1, ShellTyped
    <2>2. CASE IsNewest(s)
        BY <1>2, <2>2 DEF TabFailed
    <2>3. CASE ~IsNewest(s)
        <3>1. [tabs[s.render] EXCEPT !.pane = tabs[s.render].pane] = tabs[s.render]
            BY <2>1 DEF TabSet
        <3>2. tabs' = tabs
            BY <2>3 DEF TabFailed
        <3> QED
            BY <1>0, <1>1, <1>2, <2>3, <3>1, <3>2, ShellTyped
    <2> QED
        BY <2>2, <2>3
<1> QED
    BY <1>1, <1>3, <1>4, PaneKeeps DEF TabFailed

(* Health's reloads: at most one report of a pane on the wire.              *)
LEMMA LoadKeeps ==
    ASSUME ShellIInv, NEW i \in Renders \X Shows, reports[i] < MaxStacked, Load(i),
           UNCHANGED <<current, renderTicket, renders, content, cleanup, lastTab, tabs, shows, timers>>
    PROVE  ShellIInv'
<1>0. ShellTypeOK /\ ReportsDoNotStack
    BY DEF ShellIInv
<1>1. reports' \in [Renders \X Shows -> 0..MaxStacked] /\ ReportsDoNotStack'
    BY <1>0, ShellAssumption DEF Load, ShellTypeOK, ReportsDoNotStack
<1>2. ShellTypeOK'
    BY <1>0, <1>1 DEF ShellTypeOK
<1> QED
    BY <1>1, <1>2
    DEF ShellIInv, RendersNumbered, ShowsNumbered, TimersNumbered, PaintedAttached, Attached, IsNewest

LEMMA ReportKeeps ==
    ASSUME ShellIInv, NEW r \in Renders, NEW k \in Shows, Report(r, k)
    PROVE  ShellIInv'
<1>0. ShellTypeOK /\ ReportsDoNotStack
    BY DEF ShellIInv
<1>1. <<"health", k>> \in Panes /\ <<r, k>> \in Renders \X Shows
    BY DEF Panes, Tabs
<1>2. reports' \in [Renders \X Shows -> 0..MaxStacked] /\ ReportsDoNotStack'
    BY <1>0, <1>1, ShellAssumption DEF Report, ShellTypeOK, ReportsDoNotStack
<1> QED
    BY <1>1, <1>2, PaneKeeps DEF Report

LEMMA ShellInductive ==
    ShellIInv /\ [ShellNext]_shellVars => ShellIInv'
<1> SUFFICES ASSUME ShellIInv, [ShellNext]_shellVars PROVE ShellIInv'
    OBVIOUS
<1>0. ShellTypeOK
    BY DEF ShellIInv
<1>1. CASE \E pg \in ShellPages : ClickNav(pg) \/ Rerender(pg)
    BY <1>1, RenderPageKeeps DEF ClickNav, Rerender
<1>2. CASE \E tab \in Tabs : ClickTab(tab)
    BY <1>2, ClickTabKeeps
<1>3. CASE AnyRender
    BY <1>3, ScriptLoadedKeeps, PageAnsweredKeeps, PageFailedKeeps DEF AnyRender, Settle
<1>4. CASE AnyShow
    BY <1>4, TabLoadedKeeps, FirstReportKeeps, MapAnsweredKeeps, TabFailedKeeps DEF AnyShow, SettleTab
<1>5. CASE \E i \in timers : HealthTick(i)
    <2>1. PICK i \in timers : HealthTick(i)
        BY <1>5
    <2>2. <<i.render, i.ticket>> \in Renders \X Shows
        BY <1>0, <2>1, ShellTyped
    <2> QED
        BY <2>1, <2>2, LoadKeeps DEF HealthTick
<1>6. CASE ClickRefresh
    <2>1. content[2] \in Renders
        BY <1>0, <1>6 DEF ClickRefresh, ShellTypeOK, Loading
    <2>2. tabs[content[2]].pane \in Panes
        BY <1>0, <2>1, ShellTyped DEF TabSet
    <2>3. tabs[content[2]].pane[2] \in Shows
        BY <1>6, <2>2 DEF ClickRefresh, Panes, Loading
    <2> QED
        BY <1>6, <2>1, <2>3, LoadKeeps DEF ClickRefresh
<1>7. CASE \E r \in Renders, k \in Shows : Report(r, k)
    BY <1>7, ReportKeeps
<1>8. CASE UNCHANGED shellVars
    BY <1>8
    DEF ShellIInv, ShellTypeOK, ReportsDoNotStack, RendersNumbered, ShowsNumbered, TimersNumbered,
        PaintedAttached, Attached, IsNewest, shellVars
<1> QED
    BY <1>1, <1>2, <1>3, <1>4, <1>5, <1>6, <1>7, <1>8 DEF ShellNext

(* The panel's content element, its tabs and its timers are always what     *)
(* their types say, whatever is answered late (app.js, tabpage.js).         *)
THEOREM ShellTypeCorrect == ShellSpec => []ShellTypeOK
<1>1. ShellIInv => ShellTypeOK
    BY DEF ShellIInv
<1> QED
    BY ShellInitially, ShellInductive, <1>1, PTL DEF ShellSpec

(* A timer the tab on screen started is stopped when the tab or its page is *)
(* left, unless another page's late answer took #content's cleanup away;    *)
(* and no report is asked for while one is on the wire (tabpage.js:13,      *)
(* health.js:341).                                                         *)
THEOREM LeftTabsStopTheirTimers == ShellSpec => []LeftTabsAreQuiet
<1>1. ShellIInv => LeftTabsAreQuiet
    <2> SUFFICES ASSUME ShellIInv, NEW i \in timers, ~i.late
                 PROVE  /\ i.ticket = tabs[i.render].ticket /\ tabs[i.render].stop = i.ticket
                        /\ Attached(i.render)
        BY DEF ShellIInv, LeftTabsAreQuiet, TimersStopWhenLeft, Attached
    <2>1. ShellTypeOK /\ TimersNumbered /\ PaintedAttached
        BY DEF ShellIInv
    <2>2. i.render \in Renders /\ i.ticket \in Shows
        BY <2>1, ShellTyped
    <2>3. i.ticket = tabs[i.render].ticket /\ tabs[i.render].stop = i.ticket
        BY <2>1 DEF TimersNumbered
    <2>4. tabs[i.render].ticket > 0
        BY <2>1, <2>2, <2>3, ShellTyped
    <2> QED
        BY <2>1, <2>2, <2>3, <2>4 DEF PaintedAttached
<1> QED
    BY ShellInitially, ShellInductive, <1>1, PTL DEF ShellSpec

-------------------------------------------------------------------------------
(***************************************************************************)
(* Proofs about LadderForm, for ladders of any length and any numbers.     *)
(*                                                                         *)
(* Splitting minutes into a number and a unit loses nothing, so an         *)
(* untouched form reads back as what it was drawn from; and the warnings   *)
(* under the rows and the server's refusals compare a rung with the same   *)
(* earlier one.                                                            *)
(***************************************************************************)
StoredAccepted == [steps : Seq(Step), on : BOOLEAN, ban : Int]

NeverEmpty ==
    /\ rungs # <<>> /\ config.steps # <<>>
    /\ saving # <<>> => saving[1].steps # <<>>

LadderIInv == LadderTypeOK /\ NeverEmpty /\ UntouchedLadderIsTheStored /\ OneOwner

-------------------------------------------------------------------------------
(* Minutes to a row and back.                                              *)
LEMMA SplitIsRow ==
    ASSUME NEW m \in Step
    PROVE  SplitDuration(m) \in Row
  <1>1. CASE m = Perm
    BY <1>1 DEF SplitDuration, Row, Units, Perm
  <1>2. CASE m \in Nat \ {0}
    <2>1. m \div 1440 \in Nat /\ m \div 60 \in Nat
      BY <1>2
    <2> QED BY <1>2, <2>1 DEF SplitDuration, Row, Units
  <1> QED BY <1>1, <1>2 DEF Step, Minutes

LEMMA ReadIsStep ==
    ASSUME NEW r \in Row
    PROVE  ReadStep(r) \in Step
  <1>1. CASE r.perm
    BY <1>1 DEF ReadStep, Step
  <1>2. CASE ~r.perm
    <2> DEFINE n == IF r.n = 0 THEN 1 ELSE r.n
    <2>1. n \in Nat \ {0}
      BY DEF Row
    <2>2. Mult(r.u) \in {1, 60, 1440}
      BY DEF Mult, Row, Units
    <2>3. n * Mult(r.u) \in Nat \ {0}
      BY <2>1, <2>2
    <2>4. ReadStep(r) = n * Mult(r.u)
      BY <1>2 DEF ReadStep
    <2> QED BY <2>3, <2>4 DEF Step, Minutes
  <1> QED BY <1>1, <1>2

(* What a row was made from is what it reads back as (autoban.js:81, :117). *)
LEMMA SplitReads ==
    ASSUME NEW m \in Step
    PROVE  ReadStep(SplitDuration(m)) = m
  <1>1. CASE m = Perm
    BY <1>1 DEF SplitDuration, ReadStep, Perm
  <1>2. CASE m \in Nat \ {0}
    <2>1. CASE m >= 1440 /\ m % 1440 = 0
      <3>1. m \div 1440 \in Nat \ {0} /\ (m \div 1440) * 1440 = m
        BY <1>2, <2>1
      <3> QED BY <1>2, <2>1, <3>1 DEF SplitDuration, ReadStep, Mult
    <2>2. CASE ~(m >= 1440 /\ m % 1440 = 0) /\ m >= 60 /\ m % 60 = 0
      <3>1. m \div 60 \in Nat \ {0} /\ (m \div 60) * 60 = m
        BY <1>2, <2>2
      <3> QED BY <1>2, <2>2, <3>1 DEF SplitDuration, ReadStep, Mult
    <2>3. CASE ~(m >= 1440 /\ m % 1440 = 0) /\ ~(m >= 60 /\ m % 60 = 0)
      BY <1>2, <2>3 DEF SplitDuration, ReadStep, Mult
    <2> QED BY <2>1, <2>2, <2>3
  <1> QED BY <1>1, <1>2 DEF Step, Minutes

LEMMA RowsReadBack ==
    ASSUME NEW S \in Seq(Step)
    PROVE  /\ StepRows(S) \in Seq(Row)
           /\ S # <<>> => StepRows(S) # <<>>
           /\ ReadSteps(StepRows(S)) = S
  <1>1. StepRows(S) = [i \in 1..Len(S) |-> SplitDuration(S[i])]
    BY DEF StepRows
  <1>2. StepRows(S) \in Seq(Row)
    BY <1>1, SplitIsRow
  <1>3. Len(StepRows(S)) = Len(S) /\ DOMAIN StepRows(S) = 1..Len(S)
    BY <1>1
  <1>4. ReadSteps(StepRows(S)) = [i \in 1..Len(S) |-> S[i]]
    BY <1>1, SplitReads DEF ReadSteps
  <1> QED BY <1>2, <1>3, <1>4

LEMMA ReadTyped ==
    ASSUME NEW R \in Seq(Row)
    PROVE  /\ ReadSteps(R) \in Seq(Step) /\ Len(ReadSteps(R)) = Len(R)
           /\ R # <<>> => ReadSteps(R) # <<>>
  <1>1. ReadSteps(R) = [i \in 1..Len(R) |-> ReadStep(R[i])]
    BY DEF ReadSteps
  <1>2. ReadSteps(R) \in Seq(Step) /\ Len(ReadSteps(R)) = Len(R)
    BY <1>1, ReadIsStep
  <1> QED BY <1>2

(* The earlier rung both sides compare with is a length, or there is none. *)
LEMMA PrevStepTyped ==
    ASSUME NEW S \in Seq(Step), NEW i \in 1..(Len(S) + 1)
    PROVE  PrevStep(S, i) \in Nat
  <1> DEFINE before == {j \in 1..(i - 1) : S[j] > 0}
  <1>1. CASE before = {}
    BY <1>1 DEF PrevStep
  <1>2. CASE before # {}
    <2> DEFINE back == {i - j : j \in before}
    <2>1. back \in SUBSET Nat /\ back # {}
      <3>1. before \subseteq 1..(i - 1) /\ i \in Nat
        OBVIOUS
      <3> HIDE DEF before
      <3>2. \A j \in before : i - j \in Nat
        BY <3>1
      <3> QED BY <1>2, <3>2
    <2>2. PICK m \in back : \A k \in back : m <= k
      <3> HIDE DEF back
      <3> QED BY <2>1, LeastExists
    <2>4. \E j \in before : \A k \in before : k <= j
      <3>1. PICK j \in before : m = i - j
        OBVIOUS
      <3>2. \A k \in before : i - j <= i - k
        BY <2>2, <3>1
      <3>3. \A k \in before : k <= j
        BY <3>2
      <3> QED BY <3>3
    <2> DEFINE j0 == CHOOSE j \in before : \A k \in before : k <= j
    <2>5. j0 \in before
      BY <2>4
    <2>6. S[j0] \in Step /\ S[j0] > 0
      BY <2>5
    <2>7. PrevStep(S, i) = S[j0]
      BY <1>2 DEF PrevStep
    <2> QED BY <2>6, <2>7 DEF Step, Minutes, Perm
  <1> QED BY <1>1, <1>2

(* Both sides of the form agree about every ladder.                        *)
LEMMA WarnedIffRefused ==
    ASSUME NEW S \in Seq(Step), S # <<>>, Len(S) <= MaxSteps, MaxSteps \in Nat,
           MaxMinutes \in Nat, \A i \in DOMAIN S : S[i] <= MaxMinutes
    PROVE  Warned(S) <=> ~Valid(S)
  <1>1. Len(S) \in 1..MaxSteps /\ DOMAIN S = 1..Len(S)
    OBVIOUS
  <1>2. ASSUME NEW i \in DOMAIN S
        PROVE  PrevStep(S, i) \in Nat /\ S[i] \in Step /\ (S[i] = Perm <=> ~(S[i] > 0))
    BY <1>1, PrevStepTyped DEF Step, Minutes, Perm
  <1>3. ASSUME NEW i \in DOMAIN S
        PROVE  (i \in Misplaced(S) \cup Falling(S))
                  <=> ~(IF S[i] = Perm THEN i = Len(S)
                        ELSE S[i] \in 1..MaxMinutes /\ S[i] >= PrevStep(S, i))
    <2>1. CASE S[i] = Perm
      BY <1>2, <2>1 DEF Misplaced, Falling, Perm
    <2>2. CASE S[i] # Perm
      <3>1. S[i] \in Nat \ {0} /\ S[i] <= MaxMinutes
        BY <2>2, <1>2 DEF Step, Minutes
      <3> QED BY <1>2, <2>2, <3>1 DEF Misplaced, Falling
    <2> QED BY <2>1, <2>2
  <1>4. Misplaced(S) \cup Falling(S) \subseteq DOMAIN S
    BY DEF Misplaced, Falling
  <1> QED BY <1>1, <1>3, <1>4 DEF Warned, Valid

-------------------------------------------------------------------------------
(* The form drawn from a stored ladder.                                    *)
LEMMA OptionTyped ==
    ASSUME LadderAssumption, NEW ban \in Int
    PROVE  DurationOptions(ban) \in Int
  BY DEF DurationOptions, LadderAssumption

LEMMA LadderDrawn ==
    ASSUME LadderAssumption, NEW c \in StoredAccepted, c.steps # <<>>, Draw(c), config' = c
    PROVE  /\ rungs' \in Seq(Row) /\ rungs' # <<>> /\ escOn' \in BOOLEAN /\ pick' \in Int
           /\ locked' \in BOOLEAN /\ edits' \in Nat /\ config' \in StoredAccepted
           /\ UntouchedLadderIsTheStored' /\ OneOwner'
  <1>1. c.steps \in Seq(Step) /\ c.on \in BOOLEAN /\ c.ban \in Int
    BY DEF StoredAccepted
  <1>2. /\ rungs' = StepRows(c.steps) /\ escOn' = c.on /\ pick' = DurationOptions(c.ban)
        /\ locked' = Locked(c.on, DurationOptions(c.ban)) /\ edits' = 0
    BY DEF Draw
  <1>3. UntouchedLadderIsTheStored'
    BY <1>1, <1>2, RowsReadBack DEF UntouchedLadderIsTheStored
  <1>4. OneOwner'
    BY <1>2, Zenon DEF OneOwner, Locked
  <1>5. locked' \in BOOLEAN
    BY <1>1, <1>2 DEF Locked
  <1> QED BY <1>1, <1>2, <1>3, <1>4, <1>5, RowsReadBack, OptionTyped

(* An edit of the rows keeps the rest, and the form is no longer untouched. *)
LEMMA RowsEdited ==
    ASSUME LadderIInv, LadderEdited, LadderRest, rungs' \in Seq(Row), rungs' # <<>>
    PROVE  LadderIInv'
  <1>1. edits' \in Nat /\ edits' # 0
    BY DEF LadderEdited, LadderIInv, LadderTypeOK
  <1>2. UNCHANGED <<config, escOn, pick, locked, saving, saved>>
    BY DEF LadderRest
  <1>3. UntouchedLadderIsTheStored'
    BY <1>1 DEF UntouchedLadderIsTheStored
  <1>4. LadderTypeOK' /\ NeverEmpty'
    BY <1>1, <1>2 DEF LadderIInv, LadderTypeOK, NeverEmpty
  <1>5. OneOwner'
    BY <1>2, Zenon DEF LadderIInv, OneOwner
  <1> QED BY <1>3, <1>4, <1>5 DEF LadderIInv

-------------------------------------------------------------------------------
LEMMA LadderInitially == LadderAssumption /\ LadderInit => LadderIInv
  <1> SUFFICES ASSUME LadderAssumption, LadderInit PROVE LadderIInv
    OBVIOUS
  <1>1. DefaultSteps \in Seq(Step) /\ DefaultSteps # <<>> /\ StoredBan \in Int
    BY DEF LadderAssumption, Step, Minutes, Perm
  <1>2. config = [steps |-> DefaultSteps, on |-> TRUE, ban |-> StoredBan]
    BY DEF LadderInit
  <1>3. /\ rungs = StepRows(DefaultSteps) /\ escOn = TRUE /\ pick = DurationOptions(StoredBan)
        /\ locked = Locked(TRUE, pick) /\ edits = 0 /\ saving = <<>> /\ saved = 0
    BY DEF LadderInit
  <1>4. LadderTypeOK
    BY <1>1, <1>2, <1>3, RowsReadBack, OptionTyped DEF LadderTypeOK, Locked
  <1>5. NeverEmpty /\ UntouchedLadderIsTheStored
    BY <1>1, <1>2, <1>3, RowsReadBack DEF NeverEmpty, UntouchedLadderIsTheStored
  <1>6. OneOwner
    BY <1>3, Zenon DEF OneOwner, Locked
  <1> QED BY <1>4, <1>5, <1>6 DEF LadderIInv

LEMMA LadderInductive ==
    ASSUME LadderAssumption, LadderIInv, [LadderNext]_ladderVars
    PROVE  LadderIInv'
  <1>1. rungs \in Seq(Row) /\ rungs # <<>>
    BY DEF LadderIInv, LadderTypeOK, NeverEmpty
  <1>2. CASE AddStep
    <2> DEFINE S == ReadSteps(rungs)
    <2>1. S \in Seq(Step)
      BY <1>1, ReadTyped
    <2>2. PrevStep(S, Len(S) + 1) \in Nat
      BY <2>1, PrevStepTyped
    <2>3. NewRung(S) \in Step
      <3> HIDE DEF S
      <3> QED BY <2>2 DEF NewRung, Step, Minutes
    <2>4. SplitDuration(NewRung(S)) \in Row
      BY <2>3, SplitIsRow
    <2>5. rungs' = Append(rungs, SplitDuration(NewRung(S))) /\ LadderEdited /\ LadderRest
      BY <1>2 DEF AddStep
    <2> HIDE DEF S
    <2>6. rungs' \in Seq(Row) /\ rungs' # <<>>
      BY <1>1, <2>4, <2>5
    <2> QED BY <2>5, <2>6, RowsEdited
  <1>3. ASSUME NEW i \in 1..MaxRows, DeleteStep(i) PROVE LadderIInv'
    <2>1. /\ Len(rungs) > 1 /\ i \in 1..Len(rungs) /\ LadderEdited /\ LadderRest
          /\ rungs' = [j \in 1..(Len(rungs) - 1) |-> IF j < i THEN rungs[j] ELSE rungs[j + 1]]
      BY <1>1, <1>3 DEF DeleteStep
    <2>2. Len(rungs) - 1 \in Nat \ {0}
      BY <1>1, <2>1
    <2>3. ASSUME NEW j \in 1..(Len(rungs) - 1) PROVE rungs[j] \in Row /\ rungs[j + 1] \in Row
      BY <1>1, <2>2
    <2>4. rungs' \in Seq(Row) /\ Len(rungs') = Len(rungs) - 1
      BY <2>1, <2>2, <2>3
    <2>5. rungs' # <<>>
      BY <2>2, <2>4
    <2> QED BY <2>1, <2>4, <2>5, RowsEdited
  <1>4. ASSUME NEW i, NEW r \in Row, i \in DOMAIN rungs, rungs' = [rungs EXCEPT ![i] = r]
        PROVE  rungs' \in Seq(Row) /\ rungs' # <<>>
    <2>1. rungs' \in Seq(Row) /\ Len(rungs') = Len(rungs)
      BY <1>1, <1>4
    <2> QED BY <1>1, <2>1
  <1>5. ASSUME NEW i \in 1..MaxRows, NEW n \in Numbers, NEW u \in Units, TypeStep(i, n, u)
        PROVE  LadderIInv'
    <2>1. [perm |-> FALSE, n |-> n, u |-> u] \in Row
      BY DEF Row, LadderAssumption
    <2>2. /\ i \in DOMAIN rungs /\ LadderEdited /\ LadderRest
          /\ rungs' = [rungs EXCEPT ![i] = [perm |-> FALSE, n |-> n, u |-> u]]
      BY <1>5 DEF TypeStep
    <2> QED BY <1>4, <2>1, <2>2, RowsEdited
  <1>6. ASSUME NEW i \in 1..MaxRows, TickPermanent(i) PROVE LadderIInv'
    <2>1. /\ i \in DOMAIN rungs /\ LadderEdited /\ LadderRest
          /\ rungs' = [rungs EXCEPT ![i] = [perm |-> ~rungs[i].perm, n |-> rungs[i].n, u |-> rungs[i].u]]
      BY <1>6 DEF TickPermanent
    <2>2. [perm |-> ~rungs[i].perm, n |-> rungs[i].n, u |-> rungs[i].u] \in Row
      <3>1. rungs[i] \in Row
        BY <1>1, <2>1
      <3> QED BY <3>1 DEF Row
    <2> QED BY <1>4, <2>1, <2>2, RowsEdited
  <1>7. CASE ResetSteps
    <2>1. DefaultSteps \in Seq(Step) /\ DefaultSteps # <<>>
      BY DEF LadderAssumption, Step, Minutes, Perm
    <2> QED BY <1>7, <2>1, RowsReadBack, RowsEdited DEF ResetSteps
  <1>8. ASSUME NEW on \in BOOLEAN, NEW ban \in Int, escOn' = on, pick' = ban,
               locked' = Locked(on, ban), LadderEdited, UNCHANGED <<config, rungs, saving, saved>>
        PROVE  LadderIInv'
    <2>1. edits' \in Nat /\ edits' # 0
      BY <1>8 DEF LadderEdited, LadderIInv, LadderTypeOK
    <2>2. locked' \in BOOLEAN
      BY <1>8 DEF Locked
    <2>3. LadderTypeOK' /\ NeverEmpty'
      BY <1>8, <2>1, <2>2 DEF LadderIInv, LadderTypeOK, NeverEmpty
    <2>4. UntouchedLadderIsTheStored'
      BY <2>1 DEF UntouchedLadderIsTheStored
    <2>5. OneOwner'
      BY <1>8, Zenon DEF OneOwner, Locked
    <2> QED BY <2>3, <2>4, <2>5 DEF LadderIInv
  <1>9. CASE TickLadder
    BY <1>8, <1>9 DEF TickLadder, LadderIInv, LadderTypeOK
  <1>10. ASSUME NEW i \in DOMAIN Durations, PickDuration(Durations[i]) PROVE LadderIInv'
    <2>1. Durations[i] \in Int
      BY DEF LadderAssumption
    <2> QED BY <1>8, <1>10, <2>1 DEF PickDuration, LadderIInv, LadderTypeOK
  <1>11. CASE SaveLadder
    <2>1. Payload \in StoredAccepted /\ Payload.steps # <<>>
      BY <1>1, ReadTyped DEF Payload, StoredAccepted, LadderIInv, LadderTypeOK
    <2>2. /\ saving' = <<Payload>> /\ saved' = saved + 1
          /\ UNCHANGED <<config, rungs, escOn, pick, locked, edits>>
      BY <1>11 DEF SaveLadder
    <2>3. saving' \in Seq(StoredAccepted) /\ saving'[1].steps # <<>>
      BY <2>1, <2>2
    <2>4. LadderTypeOK' /\ NeverEmpty' /\ UntouchedLadderIsTheStored'
      BY <2>2, <2>3 DEF LadderIInv, LadderTypeOK, NeverEmpty, UntouchedLadderIsTheStored, StoredAccepted
    <2>5. OneOwner'
      BY <2>2, Zenon DEF LadderIInv, OneOwner
    <2> QED BY <2>4, <2>5 DEF LadderIInv
  <1>12. CASE Saved
    <2>1. saving # <<>> /\ saving' = <<>> /\ saved' = saved
      BY <1>12 DEF Saved
    <2>2. CASE config' = saving[1] /\ Draw(saving[1])
      <3>1. saving[1] \in StoredAccepted /\ saving[1].steps # <<>>
        <4>1. saving \in Seq(StoredAccepted)
          BY <2>1 DEF LadderIInv, LadderTypeOK, StoredAccepted
        <4>2. saving[1] \in StoredAccepted
          BY <2>1, <4>1
        <4> QED BY <2>1, <4>2 DEF LadderIInv, NeverEmpty
      <3>2. /\ rungs' \in Seq(Row) /\ rungs' # <<>> /\ escOn' \in BOOLEAN /\ pick' \in Int
            /\ locked' \in BOOLEAN /\ edits' \in Nat /\ config' \in StoredAccepted
            /\ UntouchedLadderIsTheStored' /\ OneOwner'
        BY <2>2, <3>1, LadderDrawn
      <3>3. LadderTypeOK' /\ NeverEmpty'
        <4>1. saving' = <<>> /\ saved' \in Nat
          BY <2>1 DEF LadderIInv, LadderTypeOK
        <4>2. config'.steps # <<>>
          BY <2>2, <3>1
        <4> QED BY <3>2, <4>1, <4>2 DEF LadderTypeOK, NeverEmpty, StoredAccepted
      <3> QED BY <3>2, <3>3 DEF LadderIInv
    <2>3. CASE UNCHANGED <<config, rungs, escOn, pick, locked, edits>>
      <3>1. LadderTypeOK' /\ NeverEmpty' /\ UntouchedLadderIsTheStored'
        BY <2>1, <2>3 DEF LadderIInv, LadderTypeOK, NeverEmpty, UntouchedLadderIsTheStored
      <3>2. OneOwner'
        BY <2>3, Zenon DEF LadderIInv, OneOwner
      <3> QED BY <3>1, <3>2 DEF LadderIInv
    <2> QED BY <1>12, <2>2, <2>3 DEF Saved
  <1>13. CASE UNCHANGED ladderVars
    <2>1. UNCHANGED <<config, rungs, escOn, pick, locked, edits, saving, saved>>
      BY <1>13 DEF ladderVars
    <2>2. LadderTypeOK' /\ NeverEmpty' /\ UntouchedLadderIsTheStored'
      BY <2>1 DEF LadderIInv, LadderTypeOK, NeverEmpty, UntouchedLadderIsTheStored
    <2>3. OneOwner'
      BY <2>1, Zenon DEF LadderIInv, OneOwner
    <2> QED BY <2>2, <2>3 DEF LadderIInv
  <1> QED
    BY <1>2, <1>3, <1>5, <1>6, <1>7, <1>9, <1>10, <1>11, <1>12, <1>13 DEF LadderNext

LEMMA LadderInvariance == LadderAssumption => (LadderSpec => []LadderIInv)
  <1> SUFFICES ASSUME LadderAssumption PROVE LadderSpec => []LadderIInv
    OBVIOUS
  <1>1. LadderInit => LadderIInv
    BY LadderInitially
  <1>2. LadderIInv /\ [LadderNext]_ladderVars => LadderIInv'
    BY LadderInductive
  <1> QED BY <1>1, <1>2, PTL DEF LadderSpec

-------------------------------------------------------------------------------
(* The rows, the selects and what is on the wire stay in their types: above *)
(* all, what is read from the rows is always a ladder.                     *)
THEOREM LadderTypeCorrect == LadderAssumption => (LadderSpec => []LadderTypeOK)
  <1> SUFFICES ASSUME LadderAssumption PROVE LadderSpec => []LadderTypeOK
    OBVIOUS
  <1>1. LadderIInv => LadderTypeOK
    BY DEF LadderIInv
  <1> QED BY <1>1, LadderInvariance, PTL

(* "Local mirror of the server's own checks" (autoban.js:351): whatever the *)
(* rows, the form warns exactly of what the server would refuse, but for   *)
(* the number of rungs and the longest.                                    *)
THEOREM FormMirrorsTheServer == LadderAssumption => (LadderSpec => []FormAgreesWithServer)
  <1> SUFFICES ASSUME LadderAssumption PROVE LadderSpec => []FormAgreesWithServer
    OBVIOUS
  <1>1. ASSUME LadderIInv PROVE FormAgreesWithServer
    <2> DEFINE S == ReadSteps(rungs)
    <2>1. S \in Seq(Step) /\ S # <<>>
      BY <1>1, ReadTyped DEF LadderIInv, LadderTypeOK, NeverEmpty
    <2> SUFFICES ASSUME Len(S) <= MaxSteps, \A i \in DOMAIN S : S[i] <= MaxMinutes
                 PROVE  Warned(S) <=> ~Valid(S)
      BY DEF FormAgreesWithServer
    <2> QED BY <2>1, WarnedIffRefused DEF LadderAssumption
  <1> QED BY <1>1, LadderInvariance, PTL

(* Opening the form and saving it changes no rung of the ladder, whatever  *)
(* its minutes (autoban.js:81, :117).                                      *)
THEOREM UntouchedStaysStored == LadderAssumption => (LadderSpec => []UntouchedLadderIsTheStored)
  <1> SUFFICES ASSUME LadderAssumption PROVE LadderSpec => []UntouchedLadderIsTheStored
    OBVIOUS
  <1>1. LadderIInv => UntouchedLadderIsTheStored
    BY DEF LadderIInv
  <1> QED BY <1>1, LadderInvariance, PTL

(* So the form tells the operator what the server will say, keeps what      *)
(* nobody touched, and offers no duration that would be ignored             *)
(* (autoban.js:351, :81, :383).                                             *)
THEOREM LadderMirrorsServer == LadderAssumption => (LadderSpec => []FormMirrorsServer)
  <1> SUFFICES ASSUME LadderAssumption PROVE LadderSpec => []FormMirrorsServer
    OBVIOUS
  <1>1. LadderIInv => OneOwner
    BY DEF LadderIInv
  <1> QED BY <1>1, LadderInvariance, FormMirrorsTheServer, UntouchedStaysStored, PTL
          DEF FormMirrorsServer

-------------------------------------------------------------------------------
(***************************************************************************)
(* Proofs about TuningForm, for any settings, sections and numbers, any    *)
(* number of forms asked for together and of clicks between two draws.     *)
(*                                                                         *)
(* A risky switch can only come from one that was on already: in the       *)
(* server's settings, in a form, in a form that is on its way to the page  *)
(* or in one that is on its way back.  So all four are kept at once.       *)
(***************************************************************************)
(* The switches that are on among the risky ones were turned on by hand.   *)
ByHand(switches, hands) == \A k \in Risky : switches[k] => k \in hands

Shape ==
    /\ tuning \in Settings
    /\ tunDrawn \in Body \cup {NoForm} /\ tunForm \in Boxes \cup {NoForm}
    /\ tunGets \subseteq Body \cup {Unread}
    /\ tunSaving \subseteq Body \cup {Profile}
    /\ tunEdits \in Nat

EverySwitchByHand ==
    /\ ByHand(NormalizeSettings(tuning), byHand)
    /\ tunForm # NoForm => ByHand(tunForm.switches, byHand)
    /\ \A d \in tunGets : d # Unread => ByHand(d.switches, byHand)
    /\ \A b \in tunSaving : b # Profile => ByHand(b.switches, byHand)

(* A box nobody touched shows what the form was drawn from.                *)
BoxesShowTheDrawn ==
    tunForm # NoForm =>
        /\ tunDrawn \in Body
        /\ \A k \in Keys \ touched : tunForm.boxes[k] = ShownBox(k, tunDrawn.values[k])

TuningIInv == Shape /\ EverySwitchByHand /\ BoxesShowTheDrawn

-------------------------------------------------------------------------------
(* What the server makes of a form or a profile.                           *)
LEMMA NormalizedTyped ==
    ASSUME NEW c \in Settings
    PROVE  NormalizeSettings(c) \in [Keys -> BOOLEAN]
  BY DEF NormalizeSettings, DefaultEnabled, Settings

LEMMA AnswerTyped ==
    ASSUME NEW c \in Settings
    PROVE  AnswerOf(c) \in Body /\ AnswerOf(c).switches = NormalizeSettings(c)
  BY NormalizedTyped DEF AnswerOf, Body, Settings

LEMMA StoredKeepsHands ==
    ASSUME TuningAssumption, NEW c \in Settings, NEW hands, ByHand(NormalizeSettings(c), hands),
           NEW body \in Body \cup {Profile}, body # Profile => ByHand(body.switches, hands)
    PROVE  /\ Stored(c, body) \in Settings
           /\ ByHand(NormalizeSettings(Stored(c, body)), hands)
  <1>1. CASE body = Profile
    <2> DEFINE v == [k \in Keys |-> IF k = Log THEN c.values[k] ELSE Recommended[k]]
    <2>1. v \in [Keys -> Values]
      BY DEF Recommended, Settings, TuningAssumption
    <2>2. Stored(c, body) = [on |-> TRUE, values |-> v, switches |-> NormalizeSettings(c),
                             switched |-> TRUE]
      BY <1>1 DEF Stored, ApplyRecommendations, Settings
    <2> HIDE DEF v
    <2>3. Stored(c, body) \in Settings
      BY <2>1, <2>2, NormalizedTyped DEF Settings
    <2>4. NormalizeSettings(Stored(c, body)) = NormalizeSettings(c)
      BY <2>2 DEF NormalizeSettings
    <2> QED BY <2>3, <2>4
  <1>2. CASE body # Profile
    <2>1. Stored(c, body) = [on |-> body.on, values |-> body.values,
                             switches |-> body.switches, switched |-> TRUE]
      BY <1>2 DEF Stored
    <2>2. Stored(c, body) \in Settings
      BY <1>2, <2>1 DEF Settings, Body
    <2>3. NormalizeSettings(Stored(c, body)) = body.switches
      BY <2>1 DEF NormalizeSettings
    <2> QED BY <1>2, <2>2, <2>3
  <1> QED BY <1>1, <1>2

(* A box that shows a value reads back as it.                              *)
LEMMA ShownReads ==
    ASSUME TuningAssumption, NEW k \in Keys, NEW v \in Values
    PROVE  /\ ShownBox(k, v) \in Values \cup {Empty}
           /\ (IF ShownBox(k, v) = Empty THEN 0 ELSE ShownBox(k, v)) = v
  BY DEF ShownBox, Empty, TuningAssumption

LEMMA FormDrawn ==
    ASSUME TuningAssumption, NEW d \in Body
    PROVE  /\ FormOf(d) \in Boxes /\ FormOf(d).switches = d.switches
           /\ \A k \in Keys : FormOf(d).boxes[k] = ShownBox(k, d.values[k])
  <1> DEFINE b == [k \in Keys |-> ShownBox(k, d.values[k])]
  <1>1. d.values \in [Keys -> Values] /\ d.on \in BOOLEAN /\ d.switches \in [Keys -> BOOLEAN]
    BY DEF Body
  <1>2. b \in [Keys -> Values \cup {Empty}] /\ \A k \in Keys : b[k] = ShownBox(k, d.values[k])
    BY <1>1, ShownReads
  <1>3. FormOf(d) = [on |-> d.on, boxes |-> b, switches |-> d.switches]
    BY DEF FormOf
  <1> HIDE DEF b
  <1> QED BY <1>1, <1>2, <1>3 DEF Boxes

-------------------------------------------------------------------------------
(* A control changes the form only.                                        *)
LEMMA TuningControlKeeps ==
    ASSUME TuningIInv, FormAtHand, FormEdited, TuningRest, tunForm' \in Boxes, byHand \subseteq byHand',
           ByHand(tunForm'.switches, byHand'), touched \subseteq touched',
           \A k \in Keys \ touched' : tunForm'.boxes[k] = tunForm.boxes[k]
    PROVE  TuningIInv'
  <1>1. UNCHANGED <<tuning, tunDrawn, tunGets, tunSaving, measuring, tunSaves>> /\ tunEdits' \in Nat
    BY DEF TuningRest, FormEdited, TuningIInv, Shape
  <1>2. Shape'
    BY <1>1 DEF TuningIInv, Shape
  <1>3. BoxesShowTheDrawn'
    BY <1>1 DEF TuningIInv, BoxesShowTheDrawn, FormAtHand
  <1>4. NormalizeSettings(tuning)' = NormalizeSettings(tuning)
    BY <1>1 DEF NormalizeSettings
  <1>5. EverySwitchByHand'
    BY <1>1, <1>4 DEF TuningIInv, EverySwitchByHand, ByHand
  <1> QED BY <1>2, <1>3, <1>5 DEF TuningIInv

(* The form stands still.                                                  *)
LEMMA FormStands ==
    ASSUME TuningIInv, UNCHANGED <<tunDrawn, tunForm, byHand, touched, tunEdits>>,
           tuning' \in Settings, ByHand(NormalizeSettings(tuning'), byHand),
           tunGets' \subseteq Body \cup {Unread}, tunSaving' \subseteq Body \cup {Profile},
           \A d \in tunGets' : d # Unread => ByHand(d.switches, byHand),
           \A b \in tunSaving' : b # Profile => ByHand(b.switches, byHand)
    PROVE  TuningIInv'
  <1>1. Shape'
    BY DEF TuningIInv, Shape
  <1>2. BoxesShowTheDrawn'
    BY DEF TuningIInv, BoxesShowTheDrawn
  <1>3. EverySwitchByHand'
    BY DEF TuningIInv, EverySwitchByHand, ByHand
  <1> QED BY <1>1, <1>2, <1>3 DEF TuningIInv

-------------------------------------------------------------------------------
LEMMA TuningInitially == TuningAssumption /\ TuningInit => TuningIInv
  <1> SUFFICES ASSUME TuningAssumption, TuningInit PROVE TuningIInv
    OBVIOUS
  <1> DEFINE zeros == [k \in Keys |-> 0]
  <1>1. zeros \in [Keys -> Values] /\ DefaultEnabled \in [Keys -> BOOLEAN]
    BY DEF DefaultEnabled, TuningAssumption
  <1>2. PICK on \in BOOLEAN : tuning = [on |-> on, values |-> zeros,
                                        switches |-> DefaultEnabled, switched |-> FALSE]
    BY DEF TuningInit
  <1> HIDE DEF zeros
  <1>3. tuning \in Settings /\ NormalizeSettings(tuning) = DefaultEnabled
    BY <1>1, <1>2 DEF Settings, NormalizeSettings
  <1>4. /\ tunDrawn = NoForm /\ tunForm = NoForm /\ tunGets = {Unread} /\ tunSaving = {} /\ byHand = {}
        /\ tunEdits = 0
    BY DEF TuningInit
  <1>5. ByHand(DefaultEnabled, byHand)
    BY <1>4 DEF ByHand, DefaultEnabled, TuningAssumption
  <1>6. Shape
    BY <1>3, <1>4 DEF Shape
  <1>7. EverySwitchByHand /\ BoxesShowTheDrawn
    BY <1>3, <1>4, <1>5 DEF EverySwitchByHand, BoxesShowTheDrawn
  <1> QED BY <1>6, <1>7 DEF TuningIInv

LEMMA TuningControlsInductive ==
    ASSUME TuningAssumption, TuningIInv,
           \/ Master \/ AutoFillAll
           \/ \E k \in Keys : AutoFill(k) \/ Switch(k) \/ (\E v \in MayType(k) : Type(k, v))
           \/ \E g \in GROUPS, want \in BOOLEAN : GroupAll(g, want)
    PROVE  TuningIInv'
  <1>1. ASSUME FormAtHand
        PROVE  /\ tunForm \in Boxes /\ tunForm.on \in BOOLEAN /\ tunForm.switches \in [Keys -> BOOLEAN]
               /\ tunForm.boxes \in [Keys -> Values \cup {Empty}]
               /\ ByHand(tunForm.switches, byHand)
    BY <1>1 DEF FormAtHand, TuningIInv, Shape, EverySwitchByHand, Boxes
  <1>2. CASE Master
    <2>1. /\ FormAtHand /\ FormEdited /\ TuningRest /\ UNCHANGED <<byHand, touched>>
          /\ tunForm' = [tunForm EXCEPT !.on = ~@]
      BY <1>2 DEF Master, FormEdited
    <2>2. tunForm' \in Boxes /\ tunForm'.switches = tunForm.switches /\ tunForm'.boxes = tunForm.boxes
      BY <1>1, <2>1 DEF Boxes
    <2> QED BY <1>1, <2>1, <2>2, TuningControlKeeps
  <1>3. ASSUME NEW k \in Keys, NEW v \in Values \cup {Empty}, FormEdited, TuningRest, SetField(k, v),
               touched' = touched \cup {k}, UNCHANGED byHand
        PROVE  TuningIInv'
    <2>1. FormAtHand /\ tunForm' = [tunForm EXCEPT !.boxes[k] = v]
      BY <1>3 DEF FormEdited, SetField
    <2> DEFINE b == [tunForm.boxes EXCEPT ![k] = v]
    <2>2. b \in [Keys -> Values \cup {Empty}] /\ \A j \in Keys \ {k} : b[j] = tunForm.boxes[j]
      BY <1>1, <2>1
    <2>3. tunForm' = [tunForm EXCEPT !.boxes = b]
      BY <1>1, <2>1 DEF Boxes
    <2> HIDE DEF b
    <2>4. tunForm' \in Boxes /\ tunForm'.switches = tunForm.switches /\ tunForm'.boxes = b
      BY <1>1, <2>1, <2>2, <2>3 DEF Boxes
    <2> QED BY <1>1, <1>3, <2>1, <2>2, <2>4, TuningControlKeeps
  <1>4. ASSUME NEW k \in Keys, AutoFill(k) PROVE TuningIInv'
    <2>1. Recommended[k] \in Values
      BY DEF Recommended, TuningAssumption
    <2> QED BY <1>3, <1>4, <2>1 DEF AutoFill
  <1>5. ASSUME NEW k \in Keys, NEW v \in MayType(k), Type(k, v) PROVE TuningIInv'
    <2>1. v \in Values \cup {Empty}
      BY DEF MayType, TuningAssumption
    <2> QED BY <1>3, <1>5, <2>1 DEF Type
  <1>6. CASE AutoFillAll
    <2> DEFINE b == [k \in Keys |-> IF k = Log THEN tunForm.boxes[k] ELSE Recommended[k]]
    <2>1. FormAtHand /\ FormEdited /\ TuningRest /\ UNCHANGED byHand /\ touched' = touched \cup (Keys \ {Log})
      BY <1>6 DEF AutoFillAll, FormEdited
    <2>2. tunForm' = [tunForm EXCEPT !.boxes = b]
      BY <1>1, <1>6, <2>1 DEF AutoFillAll, Boxes
    <2>3. b \in [Keys -> Values \cup {Empty}] /\ \A j \in Keys \ touched' : b[j] = tunForm.boxes[j]
      BY <1>1, <2>1 DEF Recommended, TuningAssumption
    <2> HIDE DEF b
    <2>4. tunForm' \in Boxes /\ tunForm'.switches = tunForm.switches /\ tunForm'.boxes = b
      BY <1>1, <2>1, <2>2, <2>3 DEF Boxes
    <2> QED BY <1>1, <2>1, <2>3, <2>4, TuningControlKeeps
  <1>7. ASSUME NEW w \in [Keys -> BOOLEAN], tunForm' = [tunForm EXCEPT !.switches = w], FormAtHand, FormEdited,
               TuningRest, UNCHANGED touched, byHand \subseteq byHand', ByHand(w, byHand')
        PROVE  TuningIInv'
    <2>1. tunForm' \in Boxes /\ tunForm'.switches = w /\ tunForm'.boxes = tunForm.boxes
      BY <1>1, <1>7 DEF Boxes
    <2> QED BY <1>7, <2>1, TuningControlKeeps
  <1>8. ASSUME NEW k \in Keys, Switch(k) PROVE TuningIInv'
    <2> DEFINE w == [tunForm.switches EXCEPT ![k] = ~@]
    <2>1. /\ FormAtHand /\ FormEdited /\ TuningRest /\ UNCHANGED touched
          /\ byHand' = IF k \in Risky /\ ~tunForm.switches[k] THEN byHand \cup {k} ELSE byHand
      BY <1>8 DEF Switch, FormEdited
    <2>2. tunForm' = [tunForm EXCEPT !.switches = w]
      BY <1>1, <1>8, <2>1 DEF Switch, Boxes
    <2>3. w \in [Keys -> BOOLEAN]
      BY <1>1, <2>1
    <2>4. ByHand(w, byHand')
      BY <1>1, <2>1 DEF ByHand, TuningAssumption
    <2> HIDE DEF w
    <2> QED BY <1>7, <2>1, <2>2, <2>3, <2>4
  <1>9. ASSUME NEW g \in GROUPS, NEW want \in BOOLEAN, GroupAll(g, want) PROVE TuningIInv'
    <2> DEFINE w == [k \in Keys |-> IF k \in TurnedBy(g, want) THEN want ELSE tunForm.switches[k]]
    <2>1. FormAtHand /\ FormEdited /\ TuningRest /\ UNCHANGED <<byHand, touched>>
      BY <1>9 DEF GroupAll, FormEdited
    <2>2. tunForm' = [tunForm EXCEPT !.switches = w]
      BY <1>1, <1>9, <2>1 DEF GroupAll, Boxes
    <2>3. w \in [Keys -> BOOLEAN]
      BY <1>1, <2>1
    <2>4. ByHand(w, byHand')
      BY <1>1, <2>1 DEF ByHand, TurnedBy, TuningAssumption
    <2> HIDE DEF w
    <2> QED BY <1>7, <2>1, <2>2, <2>3, <2>4
  <1> QED BY <1>2, <1>4, <1>5, <1>6, <1>8, <1>9

LEMMA WireInductive ==
    ASSUME TuningAssumption, TuningIInv,
           \/ Read \/ (\E d \in tunGets : PaintForm(d))
           \/ SaveForm \/ ApplyProfile \/ SaveAnswered \/ Measure \/ Measured
    PROVE  TuningIInv'
  <1>1. /\ tuning \in Settings /\ ByHand(NormalizeSettings(tuning), byHand)
        /\ tunGets \subseteq Body \cup {Unread} /\ tunSaving \subseteq Body \cup {Profile}
        /\ \A d \in tunGets : d # Unread => ByHand(d.switches, byHand)
        /\ \A b \in tunSaving : b # Profile => ByHand(b.switches, byHand)
    BY DEF TuningIInv, Shape, EverySwitchByHand
  <1>2. Asked \subseteq tunGets \cup {Unread}
    BY DEF Asked
  <1>3. CASE Read
    <2>1. /\ tunGets' = (tunGets \ {Unread}) \cup {AnswerOf(tuning)}
          /\ UNCHANGED <<tuning, tunDrawn, tunForm, tunSaving, byHand, touched, tunEdits>>
      BY <1>3 DEF Read
    <2> QED BY <1>1, <2>1, AnswerTyped, FormStands
  <1>4. ASSUME NEW d \in tunGets, PaintForm(d) PROVE TuningIInv'
    <2>1. /\ d # Unread /\ tunGets' = tunGets \ {d} /\ tunDrawn' = d /\ tunForm' = FormOf(d) /\ tunEdits' = 0
          /\ UNCHANGED <<tuning, tunSaving, byHand>>
      BY <1>4 DEF PaintForm
    <2>2. d \in Body /\ ByHand(d.switches, byHand)
      BY <1>1, <2>1
    <2>3. Shape'
      BY <1>1, <2>1, <2>2, FormDrawn DEF Shape
    <2>4. BoxesShowTheDrawn'
      BY <2>1, <2>2, FormDrawn DEF BoxesShowTheDrawn
    <2>5. NormalizeSettings(tuning)' = NormalizeSettings(tuning)
      BY <2>1 DEF NormalizeSettings
    <2>6. tunForm'.switches = d.switches
      BY <2>1, <2>2, FormDrawn
    <2>7. EverySwitchByHand'
      BY <1>1, <2>1, <2>2, <2>5, <2>6 DEF EverySwitchByHand
    <2> QED BY <2>3, <2>4, <2>7 DEF TuningIInv
  <1>5. ASSUME NEW body \in Body \cup {Profile}, body # Profile => ByHand(body.switches, byHand),
               tunSaving' = {body}, UNCHANGED <<tuning, tunDrawn, tunForm, tunGets, byHand, touched, tunEdits>>
        PROVE  TuningIInv'
    BY <1>1, <1>5, FormStands
  <1>6. CASE SaveForm
    <2>1. /\ tunForm # NoForm /\ tunSaving' = {Collect}
          /\ UNCHANGED <<tuning, tunDrawn, tunForm, tunGets, byHand, touched, tunEdits>>
      BY <1>6 DEF SaveForm, SaveWith, FormAtHand
    <2>2. tunForm \in Boxes /\ ByHand(tunForm.switches, byHand)
      BY <2>1 DEF TuningIInv, Shape, EverySwitchByHand
    <2> DEFINE v == [k \in Keys |-> IF tunForm.boxes[k] = Empty THEN 0 ELSE tunForm.boxes[k]]
    <2>3. v \in [Keys -> Values]
      BY <2>2 DEF Boxes, TuningAssumption
    <2>4. Collect = [on |-> tunForm.on, switches |-> tunForm.switches, values |-> v]
      BY DEF Collect
    <2> HIDE DEF v
    <2>5. Collect \in Body /\ Collect.switches = tunForm.switches
      BY <2>2, <2>3, <2>4 DEF Body, Boxes
    <2> QED BY <1>5, <2>1, <2>2, <2>5
  <1>7. CASE ApplyProfile
    BY <1>5, <1>7 DEF ApplyProfile, SaveWith
  <1>8. CASE SaveAnswered
    <2>1. PICK body \in tunSaving :
             /\ tunSaving' = tunSaving \ {body}
             /\ \/ tuning' = Stored(tuning, body) /\ tunGets' = Asked
                \/ UNCHANGED <<tuning, tunGets>>
             /\ UNCHANGED <<tunDrawn, tunForm, measuring, byHand, touched, tunEdits, tunSaves>>
      BY <1>8 DEF SaveAnswered
    <2>2. Stored(tuning, body) \in Settings /\ ByHand(NormalizeSettings(Stored(tuning, body)), byHand)
      BY <1>1, StoredKeepsHands
    <2>3. tuning' \in Settings /\ ByHand(NormalizeSettings(tuning'), byHand)
      BY <1>1, <2>1, <2>2
    <2>4. tunGets' \subseteq tunGets \cup {Unread}
      BY <1>2, <2>1
    <2> QED BY <1>1, <2>1, <2>3, <2>4, FormStands
  <1>9. CASE Measure
    BY <1>1, <1>9, FormStands DEF Measure
  <1>10. CASE Measured
    BY <1>1, <1>2, <1>10, FormStands DEF Measured
  <1> QED BY <1>3, <1>4, <1>6, <1>7, <1>8, <1>9, <1>10

LEMMA TuningInductive ==
    ASSUME TuningAssumption, TuningIInv, [TuningNext]_tuningVars
    PROVE  TuningIInv'
  <1>1. CASE TuningNext
    BY <1>1, TuningControlsInductive, WireInductive DEF TuningNext
  <1>2. CASE UNCHANGED tuningVars
    <2>1. UNCHANGED <<tuning, tunDrawn, tunForm, tunGets, tunSaving, byHand, touched, tunEdits>>
      BY <1>2 DEF tuningVars
    <2> QED BY <2>1, FormStands DEF TuningIInv, Shape, EverySwitchByHand
  <1> QED BY <1>1, <1>2

LEMMA TuningInvariance == TuningAssumption => (TuningSpec => []TuningIInv)
  <1> SUFFICES ASSUME TuningAssumption PROVE TuningSpec => []TuningIInv
    OBVIOUS
  <1>1. TuningInit => TuningIInv
    BY TuningInitially
  <1>2. TuningIInv /\ [TuningNext]_tuningVars => TuningIInv'
    BY TuningInductive
  <1> QED BY <1>1, <1>2, PTL DEF TuningSpec

(* How many forms are asked for, and how many clicks and saves there were. *)
TuningCounted ==
    /\ IsFiniteSet(tunGets) /\ Cardinality(tunGets) <= MaxTunGets /\ measuring \in BOOLEAN
    /\ byHand \subseteq Risky /\ touched \subseteq Keys
    /\ tunEdits \in 0..MaxTunEdits /\ tunSaves \in 0..MaxTunSaves

LEMMA NoneTakenYet ==
    TuningAssumption => 0 \in 0..MaxTunEdits /\ 0 \in 0..MaxTunSaves /\ 1 <= MaxTunGets
  BY DEF TuningAssumption

(* Asking for a form, and reading or drawing one, keep within the bound.   *)
LEMMA GetsCounted ==
    ASSUME TuningAssumption, IsFiniteSet(tunGets), Cardinality(tunGets) <= MaxTunGets, NEW e
    PROVE  /\ IsFiniteSet(Asked) /\ Cardinality(Asked) <= MaxTunGets
           /\ \A d \in tunGets :
                 /\ IsFiniteSet(tunGets \ {d}) /\ Cardinality(tunGets \ {d}) <= MaxTunGets
                 /\ IsFiniteSet((tunGets \ {d}) \cup {e})
                 /\ Cardinality((tunGets \ {d}) \cup {e}) <= MaxTunGets
  <1>1. Cardinality(tunGets) \in Nat /\ MaxTunGets \in Nat
    BY FS_CardinalityType DEF TuningAssumption
  <1>2. IsFiniteSet(Asked) /\ Cardinality(Asked) <= MaxTunGets
    <2>1. /\ IsFiniteSet(tunGets \cup {Unread})
          /\ Cardinality(tunGets \cup {Unread}) \in {Cardinality(tunGets), Cardinality(tunGets) + 1}
      BY FS_AddElement
    <2>2. Cardinality(tunGets) < MaxTunGets => Cardinality(tunGets \cup {Unread}) <= MaxTunGets
      <3> DEFINE n == Cardinality(tunGets)
                 m == Cardinality(tunGets \cup {Unread})
      <3>1. n \in Nat /\ (m = n \/ m = n + 1)
        BY <1>1, <2>1
      <3> HIDE DEF n, m
      <3>2. n < MaxTunGets => m <= MaxTunGets
        BY <1>1, <3>1
      <3> QED BY <3>2 DEF n, m
    <2> QED BY <2>1, <2>2 DEF Asked
  <1>3. ASSUME NEW d \in tunGets
        PROVE  /\ IsFiniteSet(tunGets \ {d}) /\ Cardinality(tunGets \ {d}) <= MaxTunGets
               /\ IsFiniteSet((tunGets \ {d}) \cup {e})
               /\ Cardinality((tunGets \ {d}) \cup {e}) <= MaxTunGets
    <2> DEFINE rest == tunGets \ {d}
               n == Cardinality(tunGets)
    <2>1. IsFiniteSet(rest) /\ Cardinality(rest) = n - 1
      BY FS_RemoveElement
    <2>2. /\ IsFiniteSet(rest \cup {e})
          /\ Cardinality(rest \cup {e}) = Cardinality(rest) \/ Cardinality(rest \cup {e}) = Cardinality(rest) + 1
      BY <2>1, FS_AddElement
    <2>3. n \in Nat /\ n <= MaxTunGets
      BY <1>1
    <2> HIDE DEF rest, n
    <2>4. Cardinality(rest) <= MaxTunGets /\ Cardinality(rest \cup {e}) <= MaxTunGets
      BY <1>1, <2>1, <2>2, <2>3
    <2> QED BY <2>1, <2>2, <2>4 DEF rest
  <1> QED BY <1>2, <1>3

LEMMA CountsKept ==
    ASSUME TuningAssumption, TuningCounted, [TuningNext]_tuningVars
    PROVE  TuningCounted'
  <1> USE DEF TuningCounted
  <1>1. CASE UNCHANGED tuningVars
    BY <1>1 DEF tuningVars
  <1>2. ASSUME UNCHANGED <<tunGets, measuring, tunSaves>>, FormEdited,
               byHand' \subseteq Risky, touched' \subseteq Keys
        PROVE  TuningCounted'
    BY <1>2 DEF FormEdited, TuningAssumption
  <1>3. CASE \/ Master \/ AutoFillAll
             \/ \E k \in Keys : AutoFill(k) \/ Switch(k) \/ (\E v \in MayType(k) : Type(k, v))
             \/ \E g \in GROUPS, want \in BOOLEAN : GroupAll(g, want)
    <2>1. CASE Master
      BY <1>2, <2>1 DEF Master, TuningRest
    <2>2. CASE AutoFillAll
      BY <1>2, <2>2 DEF AutoFillAll, TuningRest
    <2>3. ASSUME NEW k \in Keys, AutoFill(k) \/ (\E v \in MayType(k) : Type(k, v)) PROVE TuningCounted'
      BY <1>2, <2>3 DEF AutoFill, Type, TuningRest
    <2>4. ASSUME NEW k \in Keys, Switch(k) PROVE TuningCounted'
      BY <1>2, <2>4 DEF Switch, TuningRest
    <2>5. ASSUME NEW g \in GROUPS, NEW want \in BOOLEAN, GroupAll(g, want) PROVE TuningCounted'
      BY <1>2, <2>5 DEF GroupAll, TuningRest
    <2> QED BY <1>3, <2>1, <2>2, <2>3, <2>4, <2>5
  <1>4. CASE Read
    BY <1>4, GetsCounted DEF Read
  <1>5. ASSUME NEW d \in tunGets, PaintForm(d) PROVE TuningCounted'
    BY <1>5, GetsCounted, NoneTakenYet DEF PaintForm
  <1>6. CASE SaveForm \/ ApplyProfile
    <2>1. /\ tunSaves < MaxTunSaves /\ tunSaves' = tunSaves + 1
          /\ UNCHANGED <<tunGets, measuring, byHand, touched, tunEdits>>
      BY <1>6 DEF SaveForm, ApplyProfile, SaveWith
    <2> QED BY <2>1 DEF TuningAssumption
  <1>7. CASE SaveAnswered \/ Measure \/ Measured
    <2>1. /\ tunGets' = Asked \/ UNCHANGED tunGets
          /\ measuring' \in BOOLEAN /\ UNCHANGED <<byHand, touched, tunEdits, tunSaves>>
      BY <1>7 DEF SaveAnswered, Measure, Measured
    <2> QED BY <2>1, GetsCounted
  <1> QED BY <1>1, <1>3, <1>4, <1>5, <1>6, <1>7 DEF TuningNext

(* The types of the form's variables, and the bounds on what is asked for   *)
(* together.                                                               *)
THEOREM TuningTypeCorrect == TuningAssumption => (TuningSpec => []TuningTypeOK)
  <1> SUFFICES ASSUME TuningAssumption PROVE TuningSpec => []TuningTypeOK
    OBVIOUS
  <1>1. TuningInit => TuningCounted
    <2> SUFFICES ASSUME TuningInit PROVE TuningCounted
      OBVIOUS
    <2>1. IsFiniteSet({Unread}) /\ Cardinality({Unread}) = 1
      BY FS_Singleton
    <2> QED BY <2>1, NoneTakenYet DEF TuningInit, TuningCounted
  <1>2. TuningCounted /\ [TuningNext]_tuningVars => TuningCounted'
    BY CountsKept
  <1>3. TuningIInv /\ TuningCounted => TuningTypeOK
    BY DEF TuningIInv, Shape, TuningCounted, TuningTypeOK
  <1> QED BY <1>1, <1>2, <1>3, TuningInvariance, PTL DEF TuningSpec

-------------------------------------------------------------------------------
(* No risky setting is on, in the form or on the server, unless its own    *)
(* switch was turned on by hand, however forms, answers and saves overlap  *)
(* (tuning.js:308).                                                        *)
THEOREM RiskyNeedsAHand == TuningAssumption => (TuningSpec => []RiskyOnlyByHand)
  <1> SUFFICES ASSUME TuningAssumption PROVE TuningSpec => []RiskyOnlyByHand
    OBVIOUS
  <1>1. TuningIInv => RiskyOnlyByHand
    BY DEF TuningIInv, EverySwitchByHand, ByHand, RiskyOnlyByHand
  <1> QED BY <1>1, TuningInvariance, PTL

(* Pressing Save changes no value that was not touched in the form it is   *)
(* collected from (tuning.js:92).                                          *)
THEOREM UntouchedTravelsBack == TuningAssumption => (TuningSpec => []UntouchedValuesTravelBack)
  <1> SUFFICES ASSUME TuningAssumption PROVE TuningSpec => []UntouchedValuesTravelBack
    OBVIOUS
  <1>1. ASSUME TuningIInv, tunForm # NoForm, NEW k \in Keys \ touched
        PROVE  Collect.values[k] = tunDrawn.values[k]
    <2>1. tunDrawn \in Body /\ tunForm.boxes[k] = ShownBox(k, tunDrawn.values[k])
      BY <1>1 DEF TuningIInv, BoxesShowTheDrawn
    <2>2. tunDrawn.values[k] \in Values
      BY <2>1 DEF Body
    <2>3. Collect.values[k] = IF tunForm.boxes[k] = Empty THEN 0 ELSE tunForm.boxes[k]
      BY DEF Collect
    <2> QED BY <2>1, <2>2, <2>3, ShownReads
  <1>2. TuningIInv => UntouchedValuesTravelBack
    BY <1>1 DEF UntouchedValuesTravelBack
  <1> QED BY <1>2, TuningInvariance, PTL

(* Together: what the form puts in force, and what it sends back, is what   *)
(* somebody chose by hand (tuning.js:92, :308).                             *)
THEOREM TuningTakesAHand == TuningAssumption => (TuningSpec => []TuningOnlyByHand)
  <1> SUFFICES ASSUME TuningAssumption PROVE TuningSpec => []TuningOnlyByHand
    OBVIOUS
  <1> QED BY RiskyNeedsAHand, UntouchedTravelsBack, PTL DEF TuningOnlyByHand

-------------------------------------------------------------------------------
(***************************************************************************)
(* Proofs about InstallWizard, for any passwords and any number of runs.   *)
(*                                                                         *)
(* Only one run at a time has config.json in hand: Install asks again      *)
(* whether the panel is installed, and a run that has written says it is.  *)
(* So a run that is rolled back rolls back nobody else, and the page that  *)
(* hears of the end of its run hears of the password it sent.  The answers *)
(* are checked one step at a time, so what the steps passed so far let     *)
(* through is kept for every step.                                         *)
(***************************************************************************)
(* What the steps passed so far have let through.                           *)
Walked(s, f) ==
    /\ s > 0 /\ f.hasDomain => f.domain = "good"
    /\ s > 2 => f.port # "bad"
    /\ s > 3 => f.path = "good"

OnTheWay ==
    /\ Walked(step, wizForm)
    /\ wizPhase = "installing" => step = 5
    /\ wizPhase \in {"loading", "form"} => step < 5 /\ waiting = NoRun

RunsApart ==
    /\ IsFiniteSet(runs) /\ NoRun \notin {r.id : r \in runs}
    /\ \A r, s \in runs : r.id = s.id => r = s

(* The run the page waits for was sent from the form that is still there.   *)
HeardIsOurs == \A r \in runs : Heard(r) => r.password = wizForm.password

(* Only one run at a time has config.json in hand, and it says so.          *)
WrittenIsStored ==
    /\ \A r \in runs : r.stage = "written" =>
          /\ wizConfig = [installed |-> TRUE, password |-> r.password]
          /\ wizPhase # "done"
    /\ \A r, s \in runs : r.stage = "written" /\ s.stage = "written" => r = s

Untouched == wizConfig = Fresh /\ token /\ ~served
Settled == IF token THEN Untouched ELSE wizConfig.installed /\ served

(* A run that never met another finds the server as it was when it came in. *)
AloneIsWhole ==
    ~overlapped =>
        /\ runs = {} => Settled
        /\ \A r \in runs :
              /\ runs = {r}
              /\ r.stage = "sent" => Settled
              /\ r.stage \in {"entered", "snapped"} => Untouched
              /\ r.stage \in {"snapped", "written"} => r.snapshot = Fresh
              /\ r.stage = "written" => token /\ ~served

WizardIInv ==
    /\ WizardTypeOK /\ SubmittedIsChecked /\ DoneMeansInstalled /\ WaitIsForARun
    /\ OnTheWay /\ RunsApart /\ HeardIsOurs /\ WrittenIsStored /\ AloneIsWhole

-------------------------------------------------------------------------------
(* Fewer runs than ids: there is one to give away.                          *)
LEMMA FreshId ==
    ASSUME NEW S, IsFiniteSet(S), NEW N \in Nat, Cardinality(S) < N
    PROVE  \E i \in 1..(N + 1) : i # NoRun /\ \A r \in S : r.id # i
  <1> SUFFICES ASSUME \A i \in 1..(N + 1) : \E r \in S : r.id = i
               PROVE  FALSE
    BY DEF NoRun
  <1> DEFINE f == [i \in 1..(N + 1) |-> CHOOSE r \in S : r.id = i]
  <1>1. f \in [1..(N + 1) -> S] /\ \A i \in 1..(N + 1) : f[i].id = i
    OBVIOUS
  <1>2. IsFiniteSet(1..(N + 1)) /\ Cardinality(1..(N + 1)) = N + 1
    BY FS_Interval
  <1>3. Cardinality(S) \in Nat
    BY FS_CardinalityType
  <1>4. Cardinality(S) < Cardinality(1..(N + 1))
    BY <1>2, <1>3
  <1> HIDE DEF f
  <1>5. \E x, y \in 1..(N + 1) : x # y /\ f[x] = f[y]
    BY <1>1, <1>2, <1>4, FS_PigeonHole
  <1> QED BY <1>1, <1>5

(* A run moves on: everything it was sent with stays.                       *)
LEMMA RunMoves ==
    ASSUME WizardTypeOK, RunsApart, NEW r \in runs,
           NEW stage \in {"sent", "entered", "snapped", "written"}, NEW snap \in Config,
           Now(r, stage, snap)
    PROVE  /\ runs' \subseteq Run /\ RunsApart'
           /\ \E n \in runs' :
                 /\ n.id = r.id /\ n.checked = r.checked /\ n.password = r.password
                 /\ n.stage = stage /\ n.snapshot = snap
                 /\ runs' = (runs \ {r}) \cup {n}
  <1> DEFINE n == [r EXCEPT !.stage = stage, !.snapshot = snap]
  <1>1. r \in Run
    BY DEF WizardTypeOK
  <1>2. /\ n \in Run /\ n.id = r.id /\ n.checked = r.checked /\ n.password = r.password
        /\ n.stage = stage /\ n.snapshot = snap
    BY <1>1 DEF Run
  <1>3. runs' = (runs \ {r}) \cup {n}
    BY DEF Now
  <1> HIDE DEF n
  <1>4. IsFiniteSet(runs')
    BY <1>3, FS_RemoveElement, FS_AddElement DEF RunsApart
  <1>5. RunsApart'
    BY <1>2, <1>3, <1>4 DEF RunsApart, NoRun
  <1> QED BY <1>2, <1>3, <1>5 DEF WizardTypeOK

(* A run ends.                                                              *)
LEMMA RunEnds ==
    ASSUME WizardTypeOK, RunsApart, NEW r, runs' = runs \ {r}
    PROVE  runs' \subseteq Run /\ RunsApart'
  <1>1. IsFiniteSet(runs')
    BY FS_RemoveElement DEF RunsApart
  <1> QED BY <1>1 DEF WizardTypeOK, RunsApart

(* After a refusal, or none, the page is where the invariant wants it.      *)
LEMMA Refused ==
    ASSUME WizardIInv, NEW r \in runs, runs' = runs \ {r}, Refusal(r), UNCHANGED wizForm
    PROVE  /\ step' \in 0..5 /\ waiting' \in Nat
           /\ wizPhase' \in {"loading", "blank", "form", "installing", "done", "login"}
           /\ OnTheWay' /\ WaitIsForARun' /\ HeardIsOurs'
           /\ wizPhase' = "done" => wizPhase = "done"
  <1>1. CASE Heard(r)
    <2>1. wizPhase' = "form" /\ step' = 4 /\ waiting' = NoRun
      BY <1>1 DEF Refusal
    <2>2. step = 5
      BY <1>1 DEF Heard, WizardIInv, OnTheWay
    <2>3. OnTheWay'
      BY <2>1, <2>2 DEF WizardIInv, OnTheWay, Walked
    <2> QED BY <2>1, <2>3 DEF WaitIsForARun, HeardIsOurs, Heard, NoRun
  <1>2. CASE ~Heard(r)
    <2>1. UNCHANGED <<step, wizPhase, waiting>>
      BY <1>2 DEF Refusal
    <2>2. OnTheWay' /\ HeardIsOurs'
      BY <2>1 DEF WizardIInv, OnTheWay, Walked, HeardIsOurs, Heard
    <2>3. WaitIsForARun'
      BY <1>2, <2>1 DEF WizardIInv, WaitIsForARun, Heard
    <2> QED BY <2>1, <2>2, <2>3 DEF WizardIInv, WizardTypeOK
  <1> QED BY <1>1, <1>2

(* A run that moves on leaves the page waiting for it.                      *)
LEMMA PageWaitsOn ==
    ASSUME WizardIInv, NEW r \in runs, NEW n, runs' = (runs \ {r}) \cup {n}, n.id = r.id,
           n.password = r.password, Kept, UNCHANGED wizForm
    PROVE  OnTheWay' /\ WaitIsForARun' /\ HeardIsOurs'
  <1>1. UNCHANGED <<step, wizPhase, waiting>>
    BY DEF Kept
  <1>2. OnTheWay'
    BY <1>1 DEF WizardIInv, OnTheWay, Walked
  <1>3. HeardIsOurs'
    BY <1>1 DEF WizardIInv, HeardIsOurs, Heard
  <1>4. WaitIsForARun'
    BY <1>1 DEF WizardIInv, WaitIsForARun, Heard
  <1> QED BY <1>2, <1>3, <1>4

(* The page alone moves: the server and its runs do not.                    *)
LEMMA PageMoves ==
    ASSUME WizardIInv, UNCHANGED <<server, overlapped>>,
           step' \in 0..5, waiting' \in Nat, needToken' \in BOOLEAN, wizForm' \in Form,
           wizPhase' \in {"loading", "blank", "form", "login"}, OnTheWay'
    PROVE  WizardIInv'
  <1>1. UNCHANGED <<wizConfig, token, served, runs, overlapped>>
    BY DEF server
  <1>2. WizardTypeOK' /\ SubmittedIsChecked' /\ RunsApart'
    BY <1>1 DEF WizardIInv, WizardTypeOK, SubmittedIsChecked, RunsApart
  <1>3. DoneMeansInstalled' /\ WaitIsForARun' /\ HeardIsOurs'
    BY DEF DoneMeansInstalled, WaitIsForARun, HeardIsOurs, Heard
  <1>4. WrittenIsStored'
    BY <1>1 DEF WizardIInv, WrittenIsStored
  <1>5. AloneIsWhole'
    BY <1>1 DEF WizardIInv, AloneIsWhole, Settled, Untouched
  <1> QED BY <1>2, <1>3, <1>4, <1>5 DEF WizardIInv

-------------------------------------------------------------------------------
LEMMA WizardInitially == WizardAssumption /\ WizardInit => WizardIInv
  <1> SUFFICES ASSUME WizardAssumption, WizardInit PROVE WizardIInv
    OBVIOUS
  <1>1. WizardTypeOK
    <2>1. Blank \in Form
      BY DEF Blank, Form, Quality, WizardAssumption
    <2>2. Fresh \in Config
      BY DEF Fresh, Config
    <2>3. /\ step = 0 /\ wizPhase = "loading" /\ wizForm = Blank /\ needToken = FALSE
          /\ waiting = 0 /\ wizConfig = Fresh /\ token = TRUE /\ served = FALSE
          /\ runs = {} /\ overlapped = FALSE
      BY DEF WizardInit, NoRun
    <2>4. /\ needToken \in BOOLEAN /\ token \in BOOLEAN /\ served \in BOOLEAN
          /\ overlapped \in BOOLEAN
      BY <2>3, Zenon
    <2>5. step \in 0..5 /\ waiting \in Nat
      BY <2>3
    <2>6. wizPhase \in {"loading", "blank", "form", "installing", "done", "login"}
      BY <2>3
    <2> QED BY <2>1, <2>2, <2>3, <2>4, <2>5, <2>6, Zenon DEF WizardTypeOK
  <1>2. IsFiniteSet(runs)
    BY FS_EmptySet DEF WizardInit
  <1>3. SubmittedIsChecked /\ DoneMeansInstalled /\ WaitIsForARun /\ RunsApart
    BY <1>2 DEF WizardInit, SubmittedIsChecked, DoneMeansInstalled, WaitIsForARun, RunsApart
  <1>4. OnTheWay /\ HeardIsOurs /\ WrittenIsStored /\ AloneIsWhole
    BY DEF WizardInit, OnTheWay, Walked, HeardIsOurs, WrittenIsStored, AloneIsWhole, Settled,
           Untouched
  <1> QED BY <1>1, <1>3, <1>4 DEF WizardIInv

(* What was typed is stored before it is looked at: only the answers of the *)
(* step itself move.                                                        *)
LEMMA TypingStays ==
    ASSUME WizardAssumption, NEW f \in Form, NEW h \in Typing, step \in 0..5,
           needToken \in BOOLEAN
    PROVE  /\ Typed(f, h) \in Form
           /\ Walked(step, f) => Walked(step, Typed(f, h))
           /\ step = 4 /\ Walked(step, f) /\ Passes(Typed(f, h)) => Checked(Typed(f, h))
           /\ step < 4 /\ Walked(step, f) /\ Passes(Typed(f, h)) =>
                 Walked(Landed(step + 1, Typed(f, h)), Typed(f, h))
  <1> DEFINE g == Typed(f, h)
  <1>1. h \in Form
    BY DEF Typing
  <1>2. CASE step = 0
    <2>1. g = [f EXCEPT !.domain = IF f.hasDomain THEN h.domain ELSE @]
      BY <1>2 DEF Typed
    <2>2. g \in Form
      BY <1>1, <2>1 DEF Form
    <2>3. Passes(g) => (g.hasDomain => g.domain = "good")
      BY <1>2 DEF Passes
    <2> HIDE DEF g
    <2>4. Landed(step + 1, g) \in {1, 2}
      BY <1>2 DEF Landed
    <2>5. Passes(g) => Walked(Landed(step + 1, g), g)
      BY <2>3, <2>4 DEF Walked
    <2> QED BY <1>2, <2>2, <2>5 DEF Walked, g
  <1>3. CASE step = 1
    <2>1. g = f
      BY <1>3 DEF Typed
    <2>2. Landed(step + 1, f) = 2
      BY <1>3 DEF Landed
    <2> QED BY <1>3, <2>1, <2>2 DEF Walked
  <1>4. CASE step = 2
    <2>1. g = [f EXCEPT !.port = h.port]
      BY <1>4 DEF Typed
    <2>2. g \in Form /\ g.hasDomain = f.hasDomain /\ g.domain = f.domain
      BY <1>1, <2>1 DEF Form
    <2>3. Passes(g) => g.port # "bad"
      BY <1>4 DEF Passes
    <2> HIDE DEF g
    <2>4. Landed(step + 1, g) = 3
      BY <1>4 DEF Landed
    <2> QED BY <1>4, <2>2, <2>3, <2>4 DEF Walked, g
  <1>5. CASE step = 3
    <2>1. g = [f EXCEPT !.path = h.path]
      BY <1>5 DEF Typed
    <2>2. g \in Form /\ g.hasDomain = f.hasDomain /\ g.domain = f.domain /\ g.port = f.port
      BY <1>1, <2>1 DEF Form
    <2>3. Passes(g) => g.path = "good"
      BY <1>5 DEF Passes
    <2> HIDE DEF g
    <2>4. Landed(step + 1, g) = 4
      BY <1>5 DEF Landed
    <2> QED BY <1>5, <2>2, <2>3, <2>4 DEF Walked, g
  <1>6. CASE step = 4
    <2>1. g = [f EXCEPT !.password = h.password,
                        !.rightToken = IF needToken THEN h.rightToken ELSE @]
      BY <1>6 DEF Typed
    <2>2. /\ g \in Form /\ g.hasDomain = f.hasDomain /\ g.domain = f.domain
          /\ g.port = f.port /\ g.path = f.path
      BY <1>1, <2>1 DEF Form
    <2>3. Passes(g) => g.password # "none"
      BY <1>6 DEF Passes
    <2> HIDE DEF g
    <2> QED BY <1>6, <2>2, <2>3 DEF Walked, Checked, g
  <1>7. CASE step = 5
    <2>1. g = f
      BY <1>7 DEF Typed
    <2> QED BY <1>7, <2>1
  <1> QED BY <1>2, <1>3, <1>4, <1>5, <1>6, <1>7

LEMMA PageStepInductive ==
    ASSUME WizardAssumption, WizardIInv,
           \/ StatusAnswered \/ LoadAnew \/ Back \/ \E yes \in BOOLEAN : PickDomain(yes)
    PROVE  WizardIInv'
  <1>1. /\ step \in 0..5 /\ waiting \in Nat /\ needToken \in BOOLEAN /\ wizForm \in Form
        /\ wizConfig.installed \in BOOLEAN /\ token \in BOOLEAN
    BY DEF WizardIInv, WizardTypeOK, Config
  <1>2. Walked(step, wizForm)
    BY DEF WizardIInv, OnTheWay
  <1>3. CASE StatusAnswered
    <2>1. /\ UNCHANGED <<step, wizForm, waiting, server, overlapped>>
          /\ wizPhase' \in {"login", "form", "blank"} /\ needToken' \in BOOLEAN
      BY <1>1, <1>3 DEF StatusAnswered
    <2>2. step < 5 /\ waiting = NoRun
      BY <1>3 DEF StatusAnswered, WizardIInv, OnTheWay
    <2>3. OnTheWay'
      BY <1>2, <2>1, <2>2 DEF OnTheWay, Walked
    <2> QED BY <1>1, <2>1, <2>3, PageMoves
  <1>4. CASE LoadAnew
    <2>1. Blank \in Form
      BY DEF Blank, Form, Quality, WizardAssumption
    <2>2. OnTheWay'
      BY <1>4 DEF LoadAnew, OnTheWay, Walked
    <2> QED BY <1>1, <1>4, <2>1, <2>2, PageMoves DEF LoadAnew, NoRun
  <1>5. CASE Back
    <2>1. /\ wizPhase = "form" /\ step \in 1..4 /\ waiting = NoRun
      BY <1>1, <1>5 DEF Back, WizardIInv, OnTheWay
    <2>2. step' \in 0..4 /\ step' <= step
      BY <1>5, <2>1 DEF Back, Landed
    <2>3. OnTheWay'
      BY <1>2, <1>5, <2>1, <2>2 DEF Back, OnTheWay, Walked
    <2> QED BY <1>1, <1>5, <2>1, <2>2, <2>3, PageMoves DEF Back
  <1>6. CASE \E yes \in BOOLEAN : PickDomain(yes)
    <2>1. PICK yes \in BOOLEAN : PickDomain(yes)
      BY <1>6
    <2>2. wizForm' \in Form
      BY <1>1, <2>1 DEF PickDomain, Form
    <2>3. OnTheWay'
      BY <1>2, <2>1 DEF PickDomain, WizardIInv, OnTheWay, Walked
    <2> QED BY <1>1, <2>1, <2>2, <2>3, PageMoves DEF PickDomain
  <1> QED BY <1>3, <1>4, <1>5, <1>6

LEMMA SentTyped ==
    ASSUME NEW i \in Nat, NEW c \in BOOLEAN, NEW p \in Ports, NEW w \in Passwords \cup {"none"},
           NEW t \in BOOLEAN, NEW snap \in Config
    PROVE  [id |-> i, stage |-> "sent", checked |-> c, port |-> p, password |-> w,
            rightToken |-> t, snapshot |-> snap] \in Run
  BY DEF Run

(* A form that passed its last step is sent: a run of its own, and all of   *)
(* it checked.                                                              *)
LEMMA SubmitInductive ==
    ASSUME WizardAssumption, WizardIInv, NEW f \in Form, wizPhase = "form", wizForm' = f,
           Checked(f), Walked(4, f), Submit(f)
    PROVE  WizardIInv'
  <1> DEFINE n == NewRun(f)
  <1>1. /\ wizPhase' = "installing" /\ step' = 5 /\ runs' = runs \cup {n} /\ waiting' = n.id
        /\ overlapped' = (overlapped \/ runs # {})
        /\ UNCHANGED <<wizConfig, token, served, needToken>>
    BY DEF Submit
  <1>2. IsFiniteSet(runs) /\ waiting = NoRun
    BY DEF WizardIInv, RunsApart, OnTheWay
  <1>3. \E i \in 1..(MaxRuns + 1) : i # waiting /\ \A r \in runs : r.id # i
    BY <1>2, FreshId DEF Submit, WizardAssumption
  <1>4. /\ n.id \in Nat /\ n.id # NoRun /\ \A r \in runs : r.id # n.id
        /\ n.stage = "sent" /\ n.checked = Checked(f) /\ n.password = f.password
    <2> DEFINE i == CHOOSE j \in 1..(MaxRuns + 1) : j # waiting /\ \A r \in runs : r.id # j
    <2>1. i \in 1..(MaxRuns + 1) /\ \A r \in runs : r.id # i
      BY <1>2, <1>3
    <2>2. n = [id |-> i, stage |-> "sent", checked |-> Checked(f), port |-> f.port,
               password |-> f.password, rightToken |-> f.rightToken, snapshot |-> Fresh]
      BY DEF NewRun
    <2> HIDE DEF n, i
    <2>3. i \in Nat /\ i # NoRun
      BY <2>1 DEF NoRun, WizardAssumption
    <2> QED BY <2>1, <2>2, <2>3
  <1>5. n \in Run
    <2>1. Checked(f) \in BOOLEAN
      BY DEF Checked
    <2>2. f.port \in Ports /\ f.password \in Passwords \cup {"none"} /\ f.rightToken \in BOOLEAN
      BY DEF Form
    <2>3. Fresh \in Config
      BY DEF Fresh, Config
    <2>4. n.id \in Nat
      BY <1>4
    <2>5. n = [id |-> n.id, stage |-> "sent", checked |-> Checked(f), port |-> f.port,
               password |-> f.password, rightToken |-> f.rightToken, snapshot |-> Fresh]
      BY DEF NewRun
    <2> HIDE DEF n
    <2>6. [id |-> n.id, stage |-> "sent", checked |-> Checked(f), port |-> f.port,
           password |-> f.password, rightToken |-> f.rightToken, snapshot |-> Fresh] \in Run
      BY <2>1, <2>2, <2>3, <2>4, SentTyped, Zenon
    <2> QED BY <2>5, <2>6, Zenon
  <1> HIDE DEF n
  <1>6. WizardTypeOK' /\ SubmittedIsChecked'
    <2>1. WizardTypeOK'
      BY <1>1, <1>4, <1>5 DEF WizardIInv, WizardTypeOK
    <2>2. n.checked
      BY <1>4, Zenon
    <2> QED BY <1>1, <2>1, <2>2, Zenon DEF WizardIInv, SubmittedIsChecked
  <1>7. RunsApart'
    <2>1. IsFiniteSet(runs')
      BY <1>1, <1>2, FS_AddElement
    <2> QED BY <1>1, <1>4, <2>1 DEF WizardIInv, RunsApart
  <1>8. OnTheWay' /\ DoneMeansInstalled'
    BY <1>1 DEF OnTheWay, Walked, DoneMeansInstalled
  <1>9. WaitIsForARun' /\ HeardIsOurs'
    BY <1>1, <1>4 DEF WaitIsForARun, HeardIsOurs, Heard
  <1>10. WrittenIsStored'
    BY <1>1, <1>4 DEF WizardIInv, WrittenIsStored
  <1>11. AloneIsWhole'
    BY <1>1, <1>4 DEF WizardIInv, AloneIsWhole, Settled, Untouched
  <1> QED BY <1>6, <1>7, <1>8, <1>9, <1>10, <1>11 DEF WizardIInv

LEMMA ProceedInductive ==
    ASSUME WizardAssumption, WizardIInv, NEW h \in Typing, Proceed(Typed(wizForm, h))
    PROVE  WizardIInv'
  <1> DEFINE g == Typed(wizForm, h)
  <1>1. /\ step \in 0..5 /\ waiting \in Nat /\ needToken \in BOOLEAN /\ wizForm \in Form
    BY DEF WizardIInv, WizardTypeOK
  <1>2. Walked(step, wizForm) /\ wizPhase = "form" /\ step < 5 /\ waiting = NoRun /\ wizForm' = g
    BY DEF WizardIInv, OnTheWay, Proceed
  <1>3. /\ g \in Form /\ Walked(step, g)
        /\ step = 4 /\ Passes(g) => Checked(g)
        /\ step < 4 /\ Passes(g) => Walked(Landed(step + 1, g), g)
    BY <1>1, <1>2, TypingStays
  <1>4. Proceed(g)
    OBVIOUS
  <1> HIDE DEF g
  <1>5. CASE UNCHANGED <<step, wizPhase, needToken, waiting, server, overlapped>>
    <2>1. OnTheWay'
      BY <1>2, <1>3, <1>5 DEF OnTheWay
    <2> QED BY <1>1, <1>2, <1>3, <1>5, <2>1, PageMoves
  <1>6. CASE Passes(g) /\ step < 4 /\ GoOn(g)
    <2>1. /\ step' = Landed(step + 1, g)
          /\ UNCHANGED <<wizPhase, needToken, waiting, server, overlapped>>
      BY <1>6 DEF GoOn
    <2>2. Landed(step + 1, g) \in 1..4
      BY <1>1, <1>6 DEF Landed
    <2>3. OnTheWay'
      BY <1>2, <1>3, <1>6, <2>1, <2>2 DEF OnTheWay
    <2> QED BY <1>1, <1>2, <1>3, <2>1, <2>2, <2>3, PageMoves
  <1>7. CASE Passes(g) /\ step = 4 /\ Submit(g)
    BY <1>2, <1>3, <1>7, SubmitInductive
  <1> QED BY <1>4, <1>5, <1>6, <1>7 DEF Proceed

-------------------------------------------------------------------------------
(* A run that is refused leaves the server as it was.                       *)
LEMMA RefusalInductive ==
    ASSUME WizardIInv, NEW r \in runs, r.stage \in {"sent", "entered", "snapped"},
           runs' = runs \ {r}, Refusal(r), UNCHANGED <<wizConfig, token, served>>, WizardRest
    PROVE  WizardIInv'
  <1>1. UNCHANGED <<wizConfig, token, served, wizForm, needToken, overlapped>>
    BY DEF WizardRest
  <1>2. /\ step' \in 0..5 /\ waiting' \in Nat
        /\ wizPhase' \in {"loading", "blank", "form", "installing", "done", "login"}
        /\ OnTheWay' /\ WaitIsForARun' /\ HeardIsOurs'
        /\ wizPhase' = "done" => wizPhase = "done"
    BY <1>1, Refused
  <1>3. runs' \subseteq Run /\ RunsApart'
    BY RunEnds DEF WizardIInv
  <1>4. WizardTypeOK' /\ SubmittedIsChecked'
    BY <1>1, <1>2, <1>3 DEF WizardIInv, WizardTypeOK, SubmittedIsChecked
  <1>5. DoneMeansInstalled' /\ WrittenIsStored'
    BY <1>1, <1>2 DEF WizardIInv, DoneMeansInstalled, WrittenIsStored
  <1>6. AloneIsWhole'
    <2>1. ~overlapped => runs = {r} /\ Settled
      BY DEF WizardIInv, AloneIsWhole, Settled, Untouched
    <2> QED BY <1>1, <2>1 DEF AloneIsWhole, Settled, Untouched
  <1> QED BY <1>2, <1>3, <1>4, <1>5, <1>6 DEF WizardIInv

(* A run that goes on, whatever it does to config.json.                     *)
LEMMA RunGoesOn ==
    ASSUME WizardIInv, NEW r \in runs,
           NEW stage \in {"sent", "entered", "snapped", "written"}, NEW snap \in Config,
           Now(r, stage, snap), Kept, WizardRest, UNCHANGED <<token, served>>,
           wizConfig' \in Config
    PROVE  /\ WizardTypeOK' /\ SubmittedIsChecked' /\ RunsApart'
           /\ OnTheWay' /\ WaitIsForARun' /\ HeardIsOurs'
           /\ \E n \in runs' :
                 /\ n.password = r.password /\ n.stage = stage /\ n.snapshot = snap
                 /\ runs' = (runs \ {r}) \cup {n}
  <1>1. UNCHANGED <<wizForm, needToken, overlapped, step, wizPhase, waiting>>
    BY DEF WizardRest, Kept
  <1>2. /\ runs' \subseteq Run /\ RunsApart'
        /\ \E n \in runs' :
              /\ n.id = r.id /\ n.checked = r.checked /\ n.password = r.password
              /\ n.stage = stage /\ n.snapshot = snap
              /\ runs' = (runs \ {r}) \cup {n}
    BY RunMoves DEF WizardIInv
  <1>3. PICK n \in runs' :
           /\ n.id = r.id /\ n.checked = r.checked /\ n.password = r.password
           /\ n.stage = stage /\ n.snapshot = snap
           /\ runs' = (runs \ {r}) \cup {n}
    BY <1>2
  <1>4. OnTheWay' /\ WaitIsForARun' /\ HeardIsOurs'
    BY <1>1, <1>3, PageWaitsOn
  <1>5. WizardTypeOK'
    BY <1>1, <1>2 DEF WizardIInv, WizardTypeOK
  <1>6. SubmittedIsChecked'
    BY <1>3 DEF WizardIInv, SubmittedIsChecked
  <1> QED BY <1>2, <1>3, <1>4, <1>5, <1>6

LEMMA EnterInductive ==
    ASSUME WizardIInv, NEW r \in runs, Enter(r)
    PROVE  WizardIInv'
  <1>1. r.stage = "sent" /\ UNCHANGED <<wizConfig, token, served>> /\ WizardRest
    BY DEF Enter
  <1>2. r \in Run /\ wizConfig \in Config
    BY DEF WizardIInv, WizardTypeOK
  <1>3. CASE ~wizConfig.installed /\ token /\ r.rightToken
    <2>1. Now(r, "entered", r.snapshot) /\ Kept /\ r.snapshot \in Config
      BY <1>2, <1>3 DEF Enter, Run
    <2>2. /\ WizardTypeOK' /\ SubmittedIsChecked' /\ RunsApart'
          /\ OnTheWay' /\ WaitIsForARun' /\ HeardIsOurs'
          /\ \E n \in runs' :
                /\ n.password = r.password /\ n.stage = "entered" /\ n.snapshot = r.snapshot
                /\ runs' = (runs \ {r}) \cup {n}
      BY <1>1, <1>2, <2>1, RunGoesOn
    <2>3. PICK n \in runs' : n.stage = "entered" /\ runs' = (runs \ {r}) \cup {n}
      BY <2>2
    <2>4. UNCHANGED <<wizConfig, token, served, wizForm, overlapped, wizPhase>>
      BY <1>1, <2>1 DEF WizardRest, Kept
    <2>5. DoneMeansInstalled' /\ WrittenIsStored'
      BY <2>3, <2>4 DEF WizardIInv, DoneMeansInstalled, WrittenIsStored
    <2>6. AloneIsWhole'
      BY <1>1, <1>3, <2>3, <2>4 DEF WizardIInv, AloneIsWhole, Settled, Untouched
    <2> QED BY <2>2, <2>5, <2>6 DEF WizardIInv
  <1>4. CASE ~(~wizConfig.installed /\ token /\ r.rightToken)
    BY <1>1, <1>4, RefusalInductive DEF Enter
  <1> QED BY <1>3, <1>4

LEMMA SnapInductive ==
    ASSUME WizardIInv, NEW r \in runs, Snap(r)
    PROVE  WizardIInv'
  <1>1. /\ r.stage = "entered" /\ Now(r, "snapped", wizConfig) /\ Kept
        /\ UNCHANGED <<wizConfig, token, served>> /\ WizardRest
    BY DEF Snap
  <1>2. wizConfig \in Config
    BY DEF WizardIInv, WizardTypeOK
  <1>3. /\ WizardTypeOK' /\ SubmittedIsChecked' /\ RunsApart'
        /\ OnTheWay' /\ WaitIsForARun' /\ HeardIsOurs'
        /\ \E n \in runs' :
              /\ n.password = r.password /\ n.stage = "snapped" /\ n.snapshot = wizConfig
              /\ runs' = (runs \ {r}) \cup {n}
    BY <1>1, <1>2, RunGoesOn
  <1>4. PICK n \in runs' :
           n.stage = "snapped" /\ n.snapshot = wizConfig /\ runs' = (runs \ {r}) \cup {n}
    BY <1>3
  <1>5. UNCHANGED <<wizConfig, token, served, wizForm, overlapped, wizPhase>>
    BY <1>1 DEF WizardRest, Kept
  <1>6. DoneMeansInstalled' /\ WrittenIsStored'
    BY <1>4, <1>5 DEF WizardIInv, DoneMeansInstalled, WrittenIsStored
  <1>7. AloneIsWhole'
    BY <1>1, <1>4, <1>5 DEF WizardIInv, AloneIsWhole, Settled, Untouched
  <1> QED BY <1>3, <1>6, <1>7 DEF WizardIInv

(* The panel was not installed, so no other run is past this point.         *)
LEMMA InstallInductive ==
    ASSUME WizardIInv, NEW r \in runs, Install(r)
    PROVE  WizardIInv'
  <1>1. r.stage = "snapped" /\ UNCHANGED <<token, served>> /\ WizardRest
    BY DEF Install
  <1>2. r \in Run
    BY DEF WizardIInv, WizardTypeOK
  <1>3. CASE FreeToInstall(r)
    <2>1. /\ wizConfig' = [installed |-> TRUE, password |-> r.password]
          /\ Now(r, "written", r.snapshot) /\ Kept
      BY <1>3 DEF Install
    <2>2. /\ r.snapshot \in Config /\ wizConfig' \in Config
          /\ "written" \in {"sent", "entered", "snapped", "written"}
      BY <1>2, <2>1 DEF Run, Config
    <2>3. /\ WizardTypeOK' /\ SubmittedIsChecked' /\ RunsApart'
          /\ OnTheWay' /\ WaitIsForARun' /\ HeardIsOurs'
          /\ \E n \in runs' :
                /\ n.password = r.password /\ n.stage = "written" /\ n.snapshot = r.snapshot
                /\ runs' = (runs \ {r}) \cup {n}
      <3>1. Now(r, "written", r.snapshot) /\ Kept
        BY <2>1
      <3> QED BY <1>1, <2>2, <3>1, RunGoesOn
    <2>4. PICK n \in runs' :
             /\ n.password = r.password /\ n.stage = "written" /\ n.snapshot = r.snapshot
             /\ runs' = (runs \ {r}) \cup {n}
      BY <2>3
    <2>5. UNCHANGED <<token, served, wizForm, overlapped, wizPhase>>
      BY <1>1, <2>1 DEF WizardRest, Kept
    <2>6. wizPhase # "done" /\ \A s \in runs : s.stage # "written"
      BY <1>3 DEF FreeToInstall, WizardIInv, DoneMeansInstalled, WrittenIsStored
    <2>7. DoneMeansInstalled' /\ WrittenIsStored'
      BY <2>1, <2>4, <2>5, <2>6 DEF DoneMeansInstalled, WrittenIsStored
    <2>8. AloneIsWhole'
      BY <1>1, <2>4, <2>5 DEF WizardIInv, AloneIsWhole, Settled, Untouched
    <2> QED BY <2>3, <2>7, <2>8 DEF WizardIInv
  <1>4. CASE ~FreeToInstall(r)
    BY <1>1, <1>4, RefusalInductive DEF Install
  <1> QED BY <1>3, <1>4

(* nginx runs on the new tree.  It is this run's password that is stored,   *)
(* and the page that hears of it sent this run.                             *)
LEMMA GeneratedInductive ==
    ASSUME WizardIInv, NEW r \in runs, Generated(r)
    PROVE  WizardIInv'
  <1>1. /\ r.stage = "written" /\ token' = FALSE /\ served' = wizConfig.installed
        /\ runs' = runs \ {r} /\ UNCHANGED <<wizConfig, wizForm, needToken, overlapped>>
    BY DEF Generated, WizardRest
  <1>2. wizConfig = [installed |-> TRUE, password |-> r.password]
    BY <1>1 DEF WizardIInv, WrittenIsStored
  <1>3. wizConfig.installed /\ wizPhase # "done" /\ \A s \in runs' : s.stage # "written"
    BY <1>1, <1>2 DEF WizardIInv, WrittenIsStored
  <1>4. runs' \subseteq Run /\ RunsApart'
    BY <1>1, RunEnds DEF WizardIInv
  <1>5. /\ step' \in 0..5 /\ waiting' \in Nat
        /\ wizPhase' \in {"loading", "blank", "form", "installing", "done", "login"}
        /\ OnTheWay' /\ WaitIsForARun' /\ HeardIsOurs'
        /\ wizPhase' = "done" => r.password = wizForm.password
    <2>1. CASE wizPhase' = (IF Heard(r) THEN "done" ELSE wizPhase) /\ UNCHANGED <<step, waiting>>
      <3>1. CASE Heard(r)
        <4>1. wizPhase' = "done" /\ UNCHANGED <<step, waiting>>
          BY <2>1, <3>1
        <4>2. r.password = wizForm.password
          BY <3>1 DEF WizardIInv, HeardIsOurs
        <4>3. OnTheWay' /\ WaitIsForARun' /\ HeardIsOurs'
          BY <1>1, <4>1 DEF WizardIInv, OnTheWay, Walked, WaitIsForARun, HeardIsOurs, Heard
        <4> QED BY <4>1, <4>2, <4>3 DEF WizardIInv, WizardTypeOK
      <3>2. CASE ~Heard(r)
        <4>1. UNCHANGED <<wizPhase, step, waiting>>
          BY <2>1, <3>2
        <4>2. OnTheWay' /\ HeardIsOurs'
          BY <1>1, <4>1 DEF WizardIInv, OnTheWay, Walked, HeardIsOurs, Heard
        <4>3. WaitIsForARun'
          BY <1>1, <3>2, <4>1 DEF WizardIInv, WaitIsForARun, Heard
        <4> QED BY <1>3, <4>1, <4>2, <4>3 DEF WizardIInv, WizardTypeOK
      <3> QED BY <3>1, <3>2
    <2>2. CASE Refusal(r)
      BY <1>1, <1>3, <2>2, Refused
    <2> QED BY <2>1, <2>2 DEF Generated
  <1>6. WizardTypeOK' /\ SubmittedIsChecked'
    BY <1>1, <1>3, <1>4, <1>5 DEF WizardIInv, WizardTypeOK, SubmittedIsChecked
  <1>7. DoneMeansInstalled' /\ WrittenIsStored'
    BY <1>1, <1>2, <1>3, <1>5 DEF DoneMeansInstalled, WrittenIsStored
  <1>8. AloneIsWhole'
    BY <1>1, <1>3 DEF WizardIInv, AloneIsWhole, Settled, Untouched
  <1> QED BY <1>4, <1>5, <1>6, <1>7, <1>8 DEF WizardIInv

(* nginx refused the tree: the file is put back, and nobody else had it.    *)
LEMMA RolledBackInductive ==
    ASSUME WizardIInv, NEW r \in runs, RolledBack(r)
    PROVE  WizardIInv'
  <1>1. /\ r.stage = "written" /\ wizConfig' = r.snapshot /\ runs' = runs \ {r} /\ Refusal(r)
        /\ UNCHANGED <<token, served, wizForm, needToken, overlapped>>
    BY DEF RolledBack, WizardRest
  <1>2. wizPhase # "done" /\ \A s \in runs' : s.stage # "written"
    BY <1>1 DEF WizardIInv, WrittenIsStored
  <1>3. runs' \subseteq Run /\ RunsApart'
    BY <1>1, RunEnds DEF WizardIInv
  <1>4. /\ step' \in 0..5 /\ waiting' \in Nat
        /\ wizPhase' \in {"loading", "blank", "form", "installing", "done", "login"}
        /\ OnTheWay' /\ WaitIsForARun' /\ HeardIsOurs' /\ wizPhase' # "done"
    BY <1>1, <1>2, Refused
  <1>5. wizConfig' \in Config
    BY <1>1 DEF WizardIInv, WizardTypeOK, Run
  <1>6. WizardTypeOK' /\ SubmittedIsChecked'
    BY <1>1, <1>3, <1>4, <1>5 DEF WizardIInv, WizardTypeOK, SubmittedIsChecked
  <1>7. DoneMeansInstalled' /\ WrittenIsStored'
    BY <1>2, <1>4 DEF DoneMeansInstalled, WrittenIsStored
  <1>8. AloneIsWhole'
    BY <1>1 DEF WizardIInv, AloneIsWhole, Settled, Untouched
  <1> QED BY <1>3, <1>4, <1>6, <1>7, <1>8 DEF WizardIInv

LEMMA CrashInductive ==
    ASSUME WizardIInv, Crash
    PROVE  WizardIInv'
  <1>1. /\ runs' = {} /\ overlapped' = (overlapped \/ runs # {})
        /\ UNCHANGED <<wizForm, needToken, wizConfig, token, served>>
    BY DEF Crash
  <1>2. /\ step' \in 0..5 /\ waiting' \in Nat
        /\ wizPhase' \in {"loading", "blank", "form", "done", "login"}
        /\ OnTheWay' /\ (wizPhase' = "done" => wizPhase = "done")
    <2>1. CASE wizPhase = "installing"
      <3>1. wizPhase' = "form" /\ step' = 4 /\ waiting' = NoRun /\ step = 5
        BY <2>1 DEF Crash, WizardIInv, OnTheWay
      <3> QED BY <1>1, <3>1 DEF WizardIInv, OnTheWay, Walked, NoRun
    <2>2. CASE wizPhase # "installing"
      <3>1. UNCHANGED <<step, wizPhase, waiting>>
        BY <2>2 DEF Crash, Kept
      <3>2. OnTheWay'
        BY <1>1, <3>1 DEF WizardIInv, OnTheWay, Walked
      <3> QED BY <2>2, <3>1, <3>2 DEF WizardIInv, WizardTypeOK
    <2> QED BY <2>1, <2>2
  <1>3. IsFiniteSet(runs')
    BY <1>1, FS_EmptySet
  <1>4. WizardTypeOK' /\ SubmittedIsChecked' /\ RunsApart'
    BY <1>1, <1>2, <1>3 DEF WizardIInv, WizardTypeOK, SubmittedIsChecked, RunsApart
  <1>5. DoneMeansInstalled' /\ WaitIsForARun' /\ HeardIsOurs' /\ WrittenIsStored'
    BY <1>1, <1>2 DEF WizardIInv, DoneMeansInstalled, WaitIsForARun, HeardIsOurs, WrittenIsStored
  <1>6. AloneIsWhole'
    BY <1>1 DEF WizardIInv, AloneIsWhole, Settled, Untouched
  <1> QED BY <1>2, <1>4, <1>5, <1>6 DEF WizardIInv

LEMMA WizardInductive ==
    ASSUME WizardAssumption, WizardIInv, [WizardNext]_wizardVars
    PROVE  WizardIInv'
  <1>1. CASE \/ StatusAnswered \/ LoadAnew \/ Back \/ \E yes \in BOOLEAN : PickDomain(yes)
    BY <1>1, PageStepInductive
  <1>2. CASE \E g \in {Typed(wizForm, h) : h \in Typing} : Proceed(g)
    <2>1. PICK h \in Typing : Proceed(Typed(wizForm, h))
      BY <1>2
    <2> QED BY <2>1, ProceedInductive
  <1>3. CASE RunStep
    <2>1. PICK r \in runs : Enter(r) \/ Snap(r) \/ Install(r) \/ Generated(r) \/ RolledBack(r)
      BY <1>3 DEF RunStep
    <2> QED
      BY <2>1, EnterInductive, SnapInductive, InstallInductive, GeneratedInductive,
         RolledBackInductive
  <1>4. CASE Crash
    BY <1>4, CrashInductive
  <1>5. CASE UNCHANGED wizardVars
    <2>1. /\ UNCHANGED <<step, wizPhase, wizForm, needToken, waiting, wizConfig, token>>
          /\ UNCHANGED <<served, runs, overlapped>>
      BY <1>5 DEF wizardVars
    <2>2. WizardTypeOK' /\ SubmittedIsChecked' /\ DoneMeansInstalled' /\ RunsApart'
      BY <2>1 DEF WizardIInv, WizardTypeOK, SubmittedIsChecked, DoneMeansInstalled, RunsApart
    <2>3. WaitIsForARun' /\ HeardIsOurs' /\ OnTheWay'
      BY <2>1 DEF WizardIInv, WaitIsForARun, HeardIsOurs, Heard, OnTheWay, Walked
    <2>4. WrittenIsStored' /\ AloneIsWhole'
      BY <2>1 DEF WizardIInv, WrittenIsStored, AloneIsWhole, Settled, Untouched
    <2> QED BY <2>2, <2>3, <2>4 DEF WizardIInv
  <1> QED BY <1>1, <1>2, <1>3, <1>4, <1>5 DEF WizardNext

LEMMA WizardInvariance == WizardAssumption => (WizardSpec => []WizardIInv)
  <1> SUFFICES ASSUME WizardAssumption PROVE WizardSpec => []WizardIInv
    OBVIOUS
  <1>1. WizardInit => WizardIInv
    BY WizardInitially
  <1>2. WizardIInv /\ [WizardNext]_wizardVars => WizardIInv'
    BY WizardInductive
  <1> QED BY <1>1, <1>2, PTL DEF WizardSpec

-------------------------------------------------------------------------------
(* The wizard, its answers and the runs on the server stay in their types.  *)
THEOREM WizardTypeCorrect == WizardAssumption => (WizardSpec => []WizardTypeOK)
  <1> SUFFICES ASSUME WizardAssumption PROVE WizardSpec => []WizardTypeOK
    OBVIOUS
  <1>1. WizardIInv => WizardTypeOK
    BY DEF WizardIInv
  <1> QED BY <1>1, WizardInvariance, PTL

(* Whatever is typed, however often the page is loaded anew, the service    *)
(* restarted or an answer lost, and however many runs overlap: only checked *)
(* answers are sent (install.js:191), the page that says "done" tells the   *)
(* truth, a run that met no other leaves all or nothing behind              *)
(* (handlers_install.go:55), and a page that waits has a run to wait for.   *)
THEOREM WizardIsTrueToItsWord == WizardAssumption => (WizardSpec => []WizardKeepsItsWord)
  <1> SUFFICES ASSUME WizardAssumption PROVE WizardSpec => []WizardKeepsItsWord
    OBVIOUS
  <1>1. WizardIInv => WholeOrNothing
    BY DEF WizardIInv, AloneIsWhole, WholeOrNothing, Settled, Untouched
  <1>2. WizardIInv => WizardKeepsItsWord
    BY <1>1 DEF WizardIInv, WizardKeepsItsWord
  <1> QED BY <1>2, WizardInvariance, PTL

===============================================================================
