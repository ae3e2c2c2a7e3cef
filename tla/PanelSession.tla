----------------------------- MODULE PanelSession -----------------------------
(***************************************************************************)
(* One browser tab's session with the panel: the sign-in screens, the      *)
(* inactivity lock and the heartbeats of static/js/app.js, and the sliding *)
(* window the server keeps for the session's cookie (requireAuth in        *)
(* api.go, handlers_auth.go).                                              *)
(*                                                                         *)
(* Time passes in steps; the lock's window is Window of them.  Clocks are  *)
(* relative and saturate past the window.                                  *)
(***************************************************************************)
EXTENDS Integers

CONSTANT Window    \* lock_minutes, when the lock is on

ASSUME WindowAssumption == Window \in Nat \ {0}

VARIABLES
    phase,      \* which screen is up
    lockOn,     \* state.lockMinutes > 0
    armed,      \* idleTimer runs
    left,       \* time to idleDeadline
    hearts,     \* checkNginxStatus runs every 30 s (its interval is never cleared)
    asleep,     \* the machine is suspended, or the tab's timers are
    quiet,      \* time since the operator last touched this tab
    wire,       \* requests not yet handled
    refusals,   \* 401 answers not yet received
    cookie,     \* the session cookie is there and verifies
    entry,      \* time since lastActive[cookie], or why there is none
    setting     \* lock_minutes > 0 in the configuration

sessionVars == <<phase, lockOn, armed, left, hearts, asleep, quiet, wire, refusals,
                 cookie, entry, setting>>

Deleted == -1     \* by a lock or a logout
Lost == -2        \* by a restart of the service or by sessionGC
Past == Window + 1

TypeOK ==
    /\ phase \in {"boot", "login", "app"}
    /\ lockOn \in BOOLEAN /\ armed \in BOOLEAN /\ hearts \in BOOLEAN /\ asleep \in BOOLEAN
    /\ left \in 0..Window
    /\ quiet \in 0..Past
    /\ wire \subseteq {"user", "poll"}
    /\ refusals \subseteq {"inactive", "expired"}
    /\ cookie \in BOOLEAN /\ setting \in BOOLEAN
    /\ entry \in Lost..Past

Init ==
    /\ phase = "boot" /\ lockOn = FALSE /\ armed = FALSE /\ left = 0 /\ hearts = FALSE
    /\ asleep = FALSE /\ quiet = 0 /\ wire = {} /\ refusals = {}
    /\ cookie = TRUE /\ entry = Lost /\ setting = TRUE

(***************************************************************************)
(* The screens.                                                            *)
(***************************************************************************)
StartIdleTimer(on) == armed' = on /\ left' = IF on THEN Window ELSE 0
StopIdleTimer == armed' = FALSE /\ left' = 0
ShowLogin == phase' = "login" /\ StopIdleTimer
ShowApp(on) == phase' = "app" /\ StartIdleTimer(on)

(* Mutant: a touch does not move the deadline.                              *)
ResetIdleTimerNever == UNCHANGED <<armed, left>>

(* resetIdleTimer on every touch.                                           *)
ResetIdleTimer == IF lockOn THEN StartIdleTimer(TRUE) ELSE UNCHANGED <<armed, left>>

(* requireAuth: the lock is on and the window has passed.                  *)
Idle == setting /\ entry > Window

(* checkAuth: me is answered; the tab learns the window.                   *)
Boot ==
    /\ phase = "boot" /\ ~asleep
    /\ \/ /\ cookie /\ ~Idle
          /\ entry' = 0 /\ lockOn' = setting /\ hearts' = TRUE
          /\ ShowApp(setting)
       \/ /\ cookie /\ Idle
          /\ entry' = Deleted
          /\ ShowLogin /\ UNCHANGED <<lockOn, hearts>>
       \/ /\ ~cookie
          /\ ShowLogin /\ UNCHANGED <<entry, lockOn, hearts>>
    /\ quiet' = 0
    /\ UNCHANGED <<asleep, wire, refusals, cookie, setting>>

(* Three attempts at me came to nothing.                                    *)
BootUnreachable ==
    /\ phase = "boot" /\ ~asleep
    /\ ShowLogin
    /\ UNCHANGED <<lockOn, hearts, asleep, quiet, wire, refusals, cookie, entry, setting>>

(* The operator reloads the page: everything the tab knew is gone.          *)
Reload ==
    /\ phase # "boot" /\ ~asleep
    /\ phase' = "boot" /\ lockOn' = FALSE /\ hearts' = FALSE /\ wire' = {} /\ refusals' = {}
    /\ StopIdleTimer /\ quiet' = 0
    /\ UNCHANGED <<asleep, cookie, entry, setting>>

(* The login form: the answer does not carry the window, so lockOn stays.   *)
Login ==
    /\ phase = "login" /\ ~asleep
    /\ cookie' = TRUE /\ entry' = 0 /\ hearts' = TRUE /\ quiet' = 0
    /\ ShowApp(lockOn)
    /\ UNCHANGED <<lockOn, asleep, wire, refusals, setting>>

Logout ==
    /\ phase = "app" /\ ~asleep
    /\ quiet' = 0
    /\ \/ /\ cookie /\ ~Idle
          /\ cookie' = FALSE /\ entry' = Deleted
          /\ ShowLogin /\ UNCHANGED refusals
       \/ /\ cookie /\ Idle
          /\ entry' = Deleted /\ refusals' = refusals \cup {"inactive"}
          /\ ResetIdleTimer /\ UNCHANGED <<cookie, phase>>
       \/ /\ ~cookie
          /\ refusals' = refusals \cup {"expired"}
          /\ ResetIdleTimer /\ UNCHANGED <<cookie, entry, phase>>
    /\ UNCHANGED <<lockOn, hearts, asleep, wire, setting>>

(***************************************************************************)
(* The operator and the tab's own clock.                                   *)
(***************************************************************************)
(* Some touches also ask the server.                                        *)
Touch ==
    /\ phase = "app" /\ ~asleep
    /\ quiet' = 0
    /\ ResetIdleTimer
    /\ \E asked \in {{}, {"user"}} : wire' = wire \cup asked
    /\ UNCHANGED <<phase, lockOn, hearts, asleep, refusals, cookie, entry, setting>>

(* The Settings page saves another window and hands it to the shell.        *)
SetLock(on) ==
    /\ phase = "app" /\ ~asleep /\ cookie /\ ~Idle
    /\ setting' = on /\ lockOn' = on /\ entry' = 0 /\ quiet' = 0
    /\ StartIdleTimer(on)
    /\ UNCHANGED <<phase, hearts, asleep, wire, refusals, cookie>>

Passed == armed /\ left = 0

(* lockPanel, from the check every 15 s.                                    *)
Check ==
    /\ Passed /\ ~asleep /\ phase = "app"
    /\ ShowLogin
    /\ UNCHANGED <<lockOn, hearts, asleep, quiet, wire, refusals, cookie, entry, setting>>

Sleep ==
    /\ ~asleep
    /\ asleep' = TRUE
    /\ UNCHANGED <<phase, lockOn, armed, left, hearts, quiet, wire, refusals, cookie,
                   entry, setting>>

(* Waking up may come with a visibilitychange, which checks at once.        *)
Wake ==
    /\ asleep
    /\ asleep' = FALSE
    /\ \/ /\ Passed /\ phase = "app"
          /\ ShowLogin
       \/ UNCHANGED <<phase, armed, left>>
    /\ UNCHANGED <<lockOn, hearts, quiet, wire, refusals, cookie, entry, setting>>

Heartbeat ==
    /\ hearts /\ ~asleep
    /\ wire' = wire \cup {"poll"}
    /\ UNCHANGED <<phase, lockOn, armed, left, hearts, asleep, quiet, refusals, cookie,
                   entry, setting>>

(***************************************************************************)
(* The server.                                                             *)
(***************************************************************************)
(* Mutant: a poll counts as activity.                                       *)
RefreshedAlways(q) == 0

(* requireAuth: a poll does not count as activity.                          *)
Refreshed(q) == IF q = "poll" THEN entry ELSE 0

Serve(q) ==
    /\ q \in wire
    /\ wire' = wire \ {q}
    /\ \/ cookie /\ ~Idle /\ entry' = Refreshed(q) /\ UNCHANGED refusals
       \/ cookie /\ Idle /\ entry' = Deleted /\ refusals' = refusals \cup {"inactive"}
       \/ ~cookie /\ UNCHANGED entry /\ refusals' = refusals \cup {"expired"}
    /\ UNCHANGED <<phase, lockOn, armed, left, hearts, asleep, quiet, cookie, setting>>

LoseRequest(q) ==
    /\ q \in wire
    /\ wire' = wire \ {q}
    /\ UNCHANGED <<phase, lockOn, armed, left, hearts, asleep, quiet, refusals, cookie,
                   entry, setting>>

(* api() shows the login screen on every 401, whichever session it was for. *)
Refuse(w) ==
    /\ w \in refusals /\ ~asleep
    /\ refusals' = refusals \ {w}
    /\ ShowLogin
    /\ UNCHANGED <<lockOn, hearts, asleep, quiet, wire, cookie, entry, setting>>

(* The service restarts, or sessionGC drops an entry two days old.          *)
Restart ==
    /\ entry >= 0 /\ entry' = Lost
    /\ UNCHANGED <<phase, lockOn, armed, left, hearts, asleep, quiet, wire, refusals,
                   cookie, setting>>

(* The token's hard cap is reached.                                         *)
Expire ==
    /\ cookie /\ cookie' = FALSE
    /\ UNCHANGED <<phase, lockOn, armed, left, hearts, asleep, quiet, wire, refusals,
                   entry, setting>>

Older(age) == IF age < 0 \/ age = Past THEN age ELSE age + 1

(* A check that is due comes before time goes on.                           *)
Tick ==
    /\ ~(Passed /\ ~asleep /\ phase = "app")
    /\ left' = IF left > 0 THEN left - 1 ELSE 0
    /\ quiet' = Older(quiet)
    /\ entry' = Older(entry)
    /\ UNCHANGED <<phase, lockOn, armed, hearts, asleep, wire, refusals, cookie, setting>>

Next ==
    \/ Boot \/ BootUnreachable \/ Reload \/ Login \/ Logout
    \/ Touch \/ (\E on \in BOOLEAN : SetLock(on))
    \/ Check \/ Sleep \/ Wake \/ Heartbeat
    \/ (\E q \in {"user", "poll"} : Serve(q) \/ LoseRequest(q))
    \/ (\E w \in {"inactive", "expired"} : Refuse(w))
    \/ Restart \/ Expire \/ Tick

(* Time goes on; a machine that keeps waking up runs its timers; a panel    *)
(* that keeps being asked answers at last.                                  *)
Fairness ==
    /\ WF_sessionVars(Tick) /\ WF_sessionVars(Wake) /\ SF_sessionVars(Check)
    /\ SF_sessionVars(Heartbeat) /\ SF_sessionVars(Serve("poll"))
    /\ \A w \in {"inactive", "expired"} : SF_sessionVars(Refuse(w))

Spec == Init /\ [][Next]_sessionVars
FairSpec == Spec /\ Fairness

(***************************************************************************)
(* Properties.                                                             *)
(***************************************************************************)
(* Whenever the tab knows a window and the panel is on screen, its timer    *)
(* runs, whichever way the panel came on screen.                            *)
ArmedWhenOn == phase = "app" => (armed <=> lockOn)

(* The tab locks itself only after a whole window without a touch           *)
(* (app.js:571-574); the other ways to the login screen are a logout and a  *)
(* 401.                                                                     *)
LockedItself == /\ phase = "app" /\ phase' = "login"
                /\ cookie' = cookie /\ refusals' = refusals
LockNeverEarly == [][LockedItself => quiet >= Window]_sessionVars

(* A panel left alone is locked, by the tab's own timer or by the server's  *)
(* answer to the next heartbeat, as long as one of them still knows when it *)
(* was last used.                                                           *)
LeftAloneIsLocked ==
    /\ (phase = "app" /\ lockOn /\ quiet > 0)
          ~> (phase # "app" \/ quiet = 0 \/ ~lockOn)
    /\ (phase = "app" /\ hearts /\ setting /\ entry >= 0 /\ quiet > 0)
          ~> (phase # "app" \/ quiet = 0 \/ ~setting \/ entry = Lost)

=============================================================================
