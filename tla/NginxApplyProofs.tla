--------------------------- MODULE NginxApplyProofs ---------------------------
(***************************************************************************)
(* Theorems about NginxApply, for any number of callers and versions; all  *)
(* but the types need calls not to overlap.                                *)
(***************************************************************************)
EXTENDS NginxApply, TLAPS

USE DEF Parts

(* The files and configurations the actions move around have their types.   *)
LEMMA RecordTypes ==
    /\ FirstConfig \in NginxConfig /\ Torn \in NginxConfig /\ FirstTree \in Tree
    /\ \A t \in Tree, b \in BOOLEAN : [t EXCEPT !.include = b] \in Tree
    /\ \A t \in Tree : t.http \in NginxConfig /\ t.stream \in NginxConfig /\ t.include \in BOOLEAN
    /\ \A c \in NginxConfig : c.v \in 0..MaxVersion /\ c.reality \in BOOLEAN
    /\ NewConfigs \subseteq NginxConfig
<1>1. 0 \in 0..MaxVersion
  BY NginxAssumption
<1>2. FirstConfig \in NginxConfig /\ Torn \in NginxConfig
  BY <1>1 DEF FirstConfig, Torn, NginxConfig
<1>3. FirstTree \in Tree
  BY <1>2 DEF FirstTree, Tree
<1>5. \A t \in Tree, b \in BOOLEAN : [t EXCEPT !.include = b] \in Tree
  BY DEF Tree
<1>6. \A t \in Tree : t.http \in NginxConfig /\ t.stream \in NginxConfig /\ t.include \in BOOLEAN
  BY DEF Tree
<1>7. \A c \in NginxConfig : c.v \in 0..MaxVersion /\ c.reality \in BOOLEAN
  BY DEF NginxConfig
<1>8. NewConfigs \subseteq NginxConfig
  BY DEF NewConfigs
<1> QED
  BY <1>2, <1>3, <1>5, <1>6, <1>7, <1>8

-----------------------------------------------------------------------------
(* Types.                                                                  *)

(* A call that returns leaves well-typed locals behind, ...                *)
LEMMA ForgetTypes ==
    ASSUME NginxTypeOK, NEW p \in Appliers, Forget(p)
    PROVE  /\ made' \in [Appliers -> NginxConfig]
           /\ snap' \in [Appliers -> Tree]
           /\ verb' \in [Appliers -> {"reload", "start"}]
           /\ retry' \in [Appliers -> BOOLEAN]
           /\ wanted' \in [Appliers -> 0..MaxVersion]
<1>1. 0 \in 0..MaxVersion
  BY NginxAssumption
<1> QED
  BY <1>1, RecordTypes DEF Forget, NginxTypeOK

(* ... a step that leaves them alone does too, ...                         *)
LEMMA CallTypes ==
    ASSUME NginxTypeOK, UNCHANGED local
    PROVE  /\ made' \in [Appliers -> NginxConfig]
           /\ snap' \in [Appliers -> Tree]
           /\ verb' \in [Appliers -> {"reload", "start"}]
           /\ retry' \in [Appliers -> BOOLEAN]
           /\ wanted' \in [Appliers -> 0..MaxVersion]
  BY DEF NginxTypeOK, local

(* ... and so for nginx and the watchdog.                                  *)
LEMMA ServerTypes ==
    ASSUME NginxTypeOK, UNCHANGED server
    PROVE  /\ running' \in Tree \cup {Down}
           /\ module' \in BOOLEAN /\ taken' \in BOOLEAN
           /\ watch' \in {"asleep", "start"}
  BY DEF NginxTypeOK, server

(* Every step keeps the types.                                             *)
LEMMA TypeStep == NginxTypeOK /\ [NginxNext]_nginxVars => NginxTypeOK'
<1> SUFFICES ASSUME NginxTypeOK, [NginxNext]_nginxVars PROVE NginxTypeOK'
  OBVIOUS
<1> USE DEF server, local
<1>1. ASSUME NEW p \in Appliers, Call(p) PROVE NginxTypeOK'
  <2>1. store' \in NginxConfig
    BY <1>1, RecordTypes DEF Call, NginxTypeOK
  <2>2. store'.v \in 0..MaxVersion
    BY <2>1, RecordTypes
  <2> QED
    BY <1>1, <2>1, <2>2 DEF Call, Goto, NginxTypeOK, PC, Outcomes
<1>2. ASSUME NEW p \in Appliers, SnapBackup(p) PROVE NginxTypeOK'
  BY <1>2 DEF SnapBackup, Goto, NginxTypeOK, PC
<1>3. ASSUME NEW p \in Appliers, ReadConfig(p) PROVE NginxTypeOK'
  BY <1>3 DEF ReadConfig, Goto, NginxTypeOK, PC
<1>4. ASSUME NEW p \in Appliers, WriteStream(p) PROVE NginxTypeOK'
  <2>1. disk' \in Tree
    <3>1. disk \in Tree /\ made[p] \in NginxConfig /\ Torn \in NginxConfig
      BY RecordTypes DEF NginxTypeOK
    <3>2. \E c \in NginxConfig : disk' = [disk EXCEPT !["stream"] = c]
      BY <1>4, <3>1 DEF WriteStream, WriteFile
    <3> QED
      BY <3>1, <3>2 DEF Tree
  <2>2. outcome' \in [Appliers -> Outcomes] /\ pc' \in [Appliers -> PC]
    BY <1>4 DEF WriteStream, WriteFile, Goto, NginxTypeOK, Outcomes, PC
  <2> QED
    <3>1. UNCHANGED server /\ UNCHANGED local /\ UNCHANGED <<store, died>>
      BY <1>4 DEF WriteStream, WriteFile
    <3> HIDE DEF server, local
    <3> QED
      BY <2>1, <2>2, <3>1, CallTypes, ServerTypes DEF NginxTypeOK
<1>5. ASSUME NEW p \in Appliers, WriteHttp(p) PROVE NginxTypeOK'
  <2>1. disk' \in Tree
    <3>1. disk \in Tree /\ made[p] \in NginxConfig /\ Torn \in NginxConfig
      BY RecordTypes DEF NginxTypeOK
    <3>2. \E c \in NginxConfig : disk' = [disk EXCEPT !["http"] = c]
      BY <1>5, <3>1 DEF WriteHttp, WriteFile
    <3> QED
      BY <3>1, <3>2 DEF Tree
  <2>2. outcome' \in [Appliers -> Outcomes] /\ pc' \in [Appliers -> PC]
    BY <1>5 DEF WriteHttp, WriteFile, Goto, NginxTypeOK, Outcomes, PC
  <2> QED
    <3>1. UNCHANGED server /\ UNCHANGED local /\ UNCHANGED <<store, died>>
      BY <1>5 DEF WriteHttp, WriteFile
    <3> HIDE DEF server, local
    <3> QED
      BY <2>1, <2>2, <3>1, CallTypes, ServerTypes DEF NginxTypeOK
<1>6. ASSUME NEW p \in Appliers, SetInclude(p) PROVE NginxTypeOK'
  <2>1. made[p].reality \in BOOLEAN
    BY RecordTypes DEF NginxTypeOK
  <2>2. disk' \in Tree
    BY <1>6, <2>1, RecordTypes DEF SetInclude, NginxTypeOK
  <2> QED
    BY <1>6, <2>2 DEF SetInclude, Goto, NginxTypeOK, PC
<1>7. ASSUME NEW p \in Appliers, TestInclude(p) PROVE NginxTypeOK'
  <2>1. disk' \in Tree
    BY <1>7, RecordTypes DEF TestInclude, NginxTypeOK
  <2>2. outcome' \in [Appliers -> Outcomes] /\ pc' \in [Appliers -> PC]
    BY <1>7 DEF TestInclude, Goto, NginxTypeOK, Outcomes, PC
  <2> QED
    BY <1>7, <2>1, <2>2 DEF TestInclude, NginxTypeOK
<1>8. ASSUME NEW p \in Appliers, Test(p) PROVE NginxTypeOK'
  BY <1>8 DEF Test, Goto, NginxTypeOK, PC, Outcomes
<1>9. ASSUME NEW p \in Appliers, Restore(p) PROVE NginxTypeOK'
  <2>1. pc' \in [Appliers -> PC] /\ disk' \in Tree
    BY <1>9 DEF Restore, Goto, NginxTypeOK, PC
  <2> QED
    BY <1>9, <2>1, ForgetTypes DEF Restore, NginxTypeOK
<1>10. ASSUME NEW p \in Appliers, PickVerb(p) PROVE NginxTypeOK'
  BY <1>10 DEF PickVerb, Goto, NginxTypeOK, PC
<1>11. ASSUME NEW p \in Appliers, Reload(p) PROVE NginxTypeOK'
  <2>1. pc' \in [Appliers -> PC] /\ outcome' \in [Appliers -> Outcomes]
    BY <1>11 DEF Reload, Goto, NginxTypeOK, PC, Outcomes
  <2>2. running' \in Tree \cup {Down}
    BY <1>11 DEF Reload, Systemctl, NginxTypeOK
  <2>3. CASE Forget(p)
    <3>1. UNCHANGED <<store, disk, module, taken, watch, died>>
      BY <1>11 DEF Reload
    <3> QED
      BY <2>1, <2>2, <2>3, <3>1, ForgetTypes DEF NginxTypeOK
  <2>4. CASE retry' = [retry EXCEPT ![p] = TRUE] /\ UNCHANGED <<made, snap, verb, wanted>>
    BY <1>11, <2>1, <2>2, <2>4 DEF Reload, NginxTypeOK
  <2> QED
    BY <1>11, <2>3, <2>4 DEF Reload
<1>12. CASE WatchLook
  BY <1>12 DEF WatchLook, NginxTypeOK
<1>13. CASE WatchStart
  BY <1>13 DEF WatchStart, NginxTypeOK
<1>14. CASE NginxDies
  BY <1>14 DEF NginxDies, NginxTypeOK
<1>15. CASE PortTaken
  BY <1>15 DEF PortTaken, NginxTypeOK
<1>16. ASSUME NEW p \in Appliers, Crash(p) PROVE NginxTypeOK'
  <2>1. disk' \in Tree
    <3>1. disk \in Tree /\ Torn \in NginxConfig
      BY RecordTypes DEF NginxTypeOK
    <3>2. \/ disk' = disk
          \/ disk' = [disk EXCEPT !["stream"] = Torn]
          \/ disk' = [disk EXCEPT !["http"] = Torn]
      BY <1>16 DEF Crash
    <3> QED
      BY <3>1, <3>2 DEF Tree
  <2> QED
    <3>1. Forget(p) /\ UNCHANGED server /\ UNCHANGED <<store, outcome>> /\ died' = TRUE
      BY <1>16 DEF Crash
    <3>2. pc' \in [Appliers -> PC]
      BY <1>16 DEF Crash, NginxTypeOK, PC
    <3> HIDE DEF server, local
    <3> QED
      BY <2>1, <3>1, <3>2, ForgetTypes, ServerTypes DEF NginxTypeOK
<1>17. CASE UNCHANGED nginxVars
  BY <1>17 DEF nginxVars, NginxTypeOK
<1> QED
  BY <1>1, <1>2, <1>3, <1>4, <1>5, <1>6, <1>7, <1>8, <1>9, <1>10, <1>11, <1>12,
     <1>13, <1>14, <1>15, <1>16, <1>17 DEF NginxNext, Apply, Environment

(* The initial states have them.                                           *)
LEMMA InitTypes == NginxInit => NginxTypeOK
<1> SUFFICES ASSUME NginxInit PROVE NginxTypeOK
  OBVIOUS
<1>1. 0 \in 0..MaxVersion
  BY NginxAssumption
<1>2. FirstConfig \in NginxConfig /\ FirstTree \in Tree
  BY RecordTypes
<1>3. pc \in [Appliers -> PC] /\ outcome \in [Appliers -> Outcomes]
  BY DEF NginxInit, PC, Outcomes
<1>4. /\ made \in [Appliers -> NginxConfig] /\ snap \in [Appliers -> Tree]
      /\ wanted \in [Appliers -> 0..MaxVersion]
  BY <1>1, <1>2 DEF NginxInit
<1> QED
  BY <1>1, <1>2, <1>3, <1>4 DEF NginxInit, NginxTypeOK

(* Every state of the program has the declared types: systemd is never     *)
(* asked for anything but a reload or a start.                             *)
THEOREM TypeCorrect == NginxSpec => []NginxTypeOK
  BY InitTypes, TypeStep, PTL DEF NginxSpec

-----------------------------------------------------------------------------
(* What a call leaves on disk.                                             *)
(*                                                                         *)
(* A rollback is worth what the snapshot is, and the snapshot is whatever  *)
(* the disk held: both are good only if no other call was half way through *)
(* when it was taken.  OneCaller says so.                                  *)

OneCaller == \A p, q \in Appliers : p = q

Whole(t) == t.http = t.stream /\ t.include = (t.http.reality /\ module)
Good(t) == Valid(t) /\ Whole(t)

(* How far a call has got with the tree, at each of its steps.             *)
Progress(p) ==
    /\ pc[p] \in {"idle", "snap", "verb", "reload"} => Good(disk)
    /\ pc[p] \notin {"idle", "snap"} => Good(snap[p])
    /\ pc[p] \in {"read", "stream"} => disk = snap[p]
    /\ pc[p] = "include" => /\ disk.stream = made[p]
                            /\ disk.include = snap[p].include
    /\ pc[p] \in {"include", "retest", "http"} => disk.http = snap[p].http
    /\ pc[p] = "retest" => /\ disk.stream = made[p]
                           /\ disk.include = made[p].reality
    /\ pc[p] \in {"http", "test"} => /\ disk.stream = made[p]
                                     /\ disk.include = (made[p].reality /\ module)
    /\ pc[p] = "test" => disk.http = made[p]

IInv == NginxTypeOK /\ (~died => \A p \in Appliers : Progress(p))

(* The tree of a fresh installation is good.                               *)
LEMMA GoodStart ==
    ASSUME NginxInit PROVE Good(FirstTree)
  BY DEF NginxInit, Good, Whole, Valid, StreamServed, StreamUnknown, FirstTree, FirstConfig

(* A step of the only caller takes its call further.                       *)
LEMMA ProgressStep ==
    ASSUME OneCaller, IInv, ~died, ~died', NEW p \in Appliers,
           Apply(p)
    PROVE  Progress(p)'
<1> USE DEF server, local
<1>1. NginxTypeOK /\ Progress(p) /\ module \in BOOLEAN /\ pc \in [Appliers -> PC]
  BY DEF IInv, NginxTypeOK
<1>2. CASE Call(p)
  <2>1. pc[p] = "idle" /\ pc'[p] = "snap" /\ UNCHANGED <<disk, module>>
    BY <1>1, <1>2 DEF Call, Goto
  <2> QED
    BY <1>1, <2>1 DEF Progress, Good, Whole, Valid, StreamServed, StreamUnknown
<1>3. CASE SnapBackup(p)
  <2>1. /\ pc[p] = "snap" /\ pc'[p] = "read" /\ snap'[p] = disk
        /\ UNCHANGED <<disk, module>>
    BY <1>1, <1>3 DEF SnapBackup, Goto, NginxTypeOK
  <2> QED
    BY <1>1, <2>1 DEF Progress, Good, Whole, Valid, StreamServed, StreamUnknown
<1>4. CASE ReadConfig(p)
  <2>1. /\ pc[p] = "read" /\ pc'[p] = "stream"
        /\ UNCHANGED <<disk, module, snap>>
    BY <1>1, <1>4 DEF ReadConfig, Goto
  <2> QED
    BY <1>1, <2>1 DEF Progress, Good, Whole, Valid, StreamServed, StreamUnknown
<1>5. CASE WriteStream(p)
  <2>1. /\ pc[p] = "stream" /\ UNCHANGED <<module, snap, made>>
        /\ \/ pc'[p] = "include" /\ disk' = [disk EXCEPT !["stream"] = made[p]]
           \/ pc'[p] = "restore"
    BY <1>1, <1>5 DEF WriteStream, WriteFile, Goto
  <2>2. pc'[p] = "include" => /\ disk'.stream = made[p] /\ disk'.http = disk.http
                              /\ disk'.include = disk.include
    BY <1>1, <2>1 DEF NginxTypeOK, Tree
  <2> QED
    BY <1>1, <2>1, <2>2 DEF Progress, Good, Whole, Valid, StreamServed, StreamUnknown
<1>6. CASE SetInclude(p)
  <2>1. /\ pc[p] = "include" /\ UNCHANGED <<module, snap, made>>
        /\ \/ /\ pc'[p] = "http" /\ disk' = disk
              /\ disk.include = made[p].reality
           \/ /\ pc'[p] = "retest"
              /\ disk' = [disk EXCEPT !.include = made[p].reality]
    BY <1>1, <1>6 DEF SetInclude, Goto
  <2>2. disk'.stream = made[p] /\ disk'.include = made[p].reality /\ disk'.http = disk.http
    BY <1>1, <2>1 DEF Progress, NginxTypeOK, Tree
  <2>3. snap[p].include \in BOOLEAN /\ (snap[p].include => module)
    BY <1>1, <2>1, RecordTypes DEF Progress, Good, Whole, NginxTypeOK
  <2>4. pc'[p] = "http" => disk'.include = (made[p].reality /\ module)
    BY <1>1, <2>1, <2>2, <2>3 DEF Progress
  <2> QED
    BY <1>1, <2>1, <2>2, <2>4 DEF Progress, Good, Whole, Valid, StreamServed, StreamUnknown
<1>7. CASE TestInclude(p)
  <2>1. /\ pc[p] = "retest" /\ UNCHANGED <<module, snap, made>>
        /\ pc'[p] \in {"http", "restore"}
    BY <1>1, <1>7 DEF TestInclude, Goto
  <2>2. made[p].reality \in BOOLEAN
    BY RecordTypes, <1>1 DEF NginxTypeOK
  <2>3. CASE Valid(disk) /\ disk' = disk
    <3>1. disk.include => module
      BY <2>3 DEF Valid, StreamUnknown
    <3> QED
      BY <1>1, <2>1, <2>2, <2>3, <3>1 DEF Progress, Good, Whole, Valid, StreamServed, StreamUnknown
  <2>4. CASE ~Valid(disk) /\ pc'[p] = "http"
    <3>1. made[p].reality /\ StreamUnknown(disk)
          /\ disk' = [disk EXCEPT !.include = ~made[p].reality]
      BY <1>1, <1>7, <2>4 DEF TestInclude, Goto
    <3>2. disk'.include = FALSE /\ disk'.stream = disk.stream /\ disk'.http = disk.http
      BY <1>1, <3>1 DEF NginxTypeOK, Tree
    <3>3. ~module
      BY <3>1 DEF StreamUnknown
    <3> QED
      BY <1>1, <2>1, <2>4, <3>1, <3>2, <3>3
      DEF Progress, Good, Whole, Valid, StreamServed, StreamUnknown
  <2>5. CASE pc'[p] = "restore"
    BY <1>1, <2>1, <2>5 DEF Progress, Good, Whole, Valid, StreamServed, StreamUnknown
  <2> QED
    BY <1>7, <2>1, <2>3, <2>4, <2>5 DEF TestInclude
<1>8. CASE WriteHttp(p)
  <2>1. /\ pc[p] = "http" /\ UNCHANGED <<module, snap, made>>
        /\ \/ pc'[p] = "test" /\ disk' = [disk EXCEPT !["http"] = made[p]]
           \/ pc'[p] = "restore"
    BY <1>1, <1>8 DEF WriteHttp, WriteFile, Goto
  <2>2. pc'[p] = "test" => /\ disk'.http = made[p] /\ disk'.stream = disk.stream
                           /\ disk'.include = disk.include
    BY <1>1, <2>1 DEF NginxTypeOK, Tree
  <2> QED
    BY <1>1, <2>1, <2>2 DEF Progress, Good, Whole, Valid, StreamServed, StreamUnknown
<1>9. CASE Test(p)
  <2>1. /\ pc[p] = "test" /\ UNCHANGED <<module, snap, made, disk>>
        /\ (pc'[p] = "verb" /\ Valid(disk)) \/ pc'[p] = "restore"
    BY <1>1, <1>9 DEF Test, Goto
  <2> QED
    BY <1>1, <2>1 DEF Progress, Good, Whole, Valid, StreamServed, StreamUnknown
<1>10. CASE Restore(p)
  <2>1. /\ pc[p] = "restore" /\ disk' = snap[p] /\ UNCHANGED module
        /\ pc'[p] = "idle" \/ (pc'[p] = "verb" /\ UNCHANGED snap)
    BY <1>1, <1>10 DEF Restore, Goto
  <2> QED
    BY <1>1, <2>1 DEF Progress, Good, Whole, Valid, StreamServed, StreamUnknown
<1>11. CASE PickVerb(p)
  <2>1. /\ pc[p] = "verb" /\ pc'[p] = "reload" /\ UNCHANGED <<module, snap, made, disk>>
    BY <1>1, <1>11 DEF PickVerb, Goto
  <2> QED
    BY <1>1, <2>1 DEF Progress, Good, Whole, Valid, StreamServed, StreamUnknown
<1>12. CASE Reload(p)
  <2>1. /\ pc[p] = "reload" /\ UNCHANGED <<module, disk>>
        /\ pc'[p] = "idle" \/ (pc'[p] = "restore" /\ UNCHANGED snap)
    BY <1>1, <1>12 DEF Reload, Goto
  <2> QED
    BY <1>1, <2>1 DEF Progress, Good, Whole, Valid, StreamServed, StreamUnknown
<1> QED
  BY <1>2, <1>3, <1>4, <1>5, <1>6, <1>7, <1>8, <1>9, <1>10, <1>11, <1>12 DEF Apply

(* IInv is inductive.                                                      *)
LEMMA Inductive ==
    ASSUME OneCaller PROVE IInv /\ [NginxNext]_nginxVars => IInv'
<1> SUFFICES ASSUME IInv, [NginxNext]_nginxVars, ~died' PROVE \A p \in Appliers : Progress(p)'
  BY TypeStep DEF IInv
<1>1. ASSUME NEW p \in Appliers, Apply(p) PROVE \A q \in Appliers : Progress(q)'
  <2>1. ~died
    BY <1>1 DEF Apply, Call, SnapBackup, ReadConfig, WriteStream, WriteHttp, WriteFile,
       SetInclude, TestInclude, Test, Restore, PickVerb, Reload
  <2>2. Progress(p)'
    BY <1>1, <2>1, ProgressStep
  <2> QED
    BY <2>2 DEF OneCaller
<1>2. ASSUME UNCHANGED <<pc, disk, snap, made, module, died>>
      PROVE \A q \in Appliers : Progress(q)'
  BY <1>2 DEF IInv, Progress, Good, Whole, Valid, StreamServed, StreamUnknown
<1>3. CASE WatchLook \/ WatchStart \/ NginxDies \/ PortTaken \/ UNCHANGED nginxVars
  BY <1>2, <1>3 DEF WatchLook, WatchStart, NginxDies, PortTaken, nginxVars, local
<1>4. ASSUME NEW p \in Appliers, Crash(p) PROVE FALSE
  BY <1>4 DEF Crash
<1> QED
  BY <1>1, <1>3, <1>4 DEF NginxNext, Environment

(* It holds at the start, ...                                              *)
LEMMA InductiveInit == NginxInit => IInv
<1> SUFFICES ASSUME NginxInit PROVE \A p \in Appliers : Progress(p)
  BY InitTypes DEF IInv
<1>1. Good(disk)
  BY GoodStart DEF NginxInit
<1>2. \A p \in Appliers : pc[p] = "idle"
  BY DEF NginxInit
<1> QED
  BY <1>1, <1>2 DEF Progress

(* ... and says what there is to say of a tree at rest.                    *)
LEMMA RestIsGood ==
    IInv /\ (\E p \in Appliers : TRUE) => NeverLeftBroken /\ TreeIsOneVersion
  BY DEF IInv, Progress, Good, Whole, NeverLeftBroken, TreeIsOneVersion, AtRest

(* Generate and the rollback: as long as calls do not overlap and no       *)
(* process is killed inside one, nginx would accept the tree whenever no   *)
(* call is under way, however calls, rollbacks and reloads failed.         *)
THEOREM NeverBroken ==
    OneCaller /\ Appliers # {} => (NginxSpec => []NeverLeftBroken)
<1> SUFFICES ASSUME OneCaller, Appliers # {} PROVE NginxSpec => []NeverLeftBroken
  OBVIOUS
<1>1. IInv /\ [NginxNext]_nginxVars => IInv'
  BY Inductive
<1>2. IInv => NeverLeftBroken
  BY RestIsGood
<1> QED
  BY InductiveInit, <1>1, <1>2, PTL DEF NginxSpec

(* Under the same conditions the HTTP file, the stream file and the        *)
(* include in nginx.conf are always of one configuration at rest.          *)
THEOREM OneVersion ==
    OneCaller /\ Appliers # {} => (NginxSpec => []TreeIsOneVersion)
<1> SUFFICES ASSUME OneCaller, Appliers # {} PROVE NginxSpec => []TreeIsOneVersion
  OBVIOUS
<1>1. IInv /\ [NginxNext]_nginxVars => IInv'
  BY Inductive
<1>2. IInv => TreeIsOneVersion
  BY RestIsGood
<1> QED
  BY InductiveInit, <1>1, <1>2, PTL DEF NginxSpec

-----------------------------------------------------------------------------
(* What a call that succeeds leaves behind.                                *)
(*                                                                         *)
(* A crash may leave any tree behind, so IInv says nothing after one.  The *)
(* call that follows writes both files itself: this holds crash or no      *)
(* crash.                                                                  *)

Reached(p) ==
    /\ pc[p] \in {"snap", "read"} => store.v >= wanted[p]
    /\ pc[p] \notin {"idle", "snap", "read"} => made[p].v >= wanted[p]
    /\ retry[p] => pc[p] \in {"restore", "verb", "reload"}
    /\ pc[p] \in {"include", "retest", "http"} => disk.stream = made[p]
    /\ pc[p] = "test" \/ (pc[p] \in {"verb", "reload"} /\ ~retry[p]) =>
          disk.stream = made[p] /\ disk.http = made[p]
    /\ pc[p] = "reload" /\ verb[p] = "start" /\ up => running = disk

RInv == NginxTypeOK /\ \A p \in Appliers : Reached(p)

(* A step of the only caller keeps what its call has reached.              *)
LEMMA ReachedStep ==
    ASSUME OneCaller, NginxTypeOK, NEW p \in Appliers, Reached(p), Apply(p)
    PROVE  Reached(p)'
<1> USE DEF server, local, up
<1>1. pc \in [Appliers -> PC] /\ disk \in Tree
  BY DEF NginxTypeOK
<1>2. CASE Call(p)
  <2>1. /\ pc'[p] = "snap" /\ wanted'[p] = store'.v /\ retry' = retry /\ pc[p] = "idle"
        /\ store' \in NginxConfig
    BY <1>1, <1>2, RecordTypes DEF Call, Goto, NginxTypeOK
  <2>2. store'.v >= store'.v
    BY <2>1 DEF NginxConfig
  <2> QED
    BY <2>1, <2>2 DEF Reached
<1>3. CASE SnapBackup(p)
  BY <1>1, <1>3 DEF SnapBackup, Goto, Reached
<1>4. CASE ReadConfig(p)
  <2>1. /\ pc[p] = "read" /\ pc'[p] = "stream" /\ made'[p] = store
        /\ UNCHANGED <<store, wanted, retry>>
    BY <1>1, <1>4 DEF ReadConfig, Goto, NginxTypeOK
  <2> QED
    BY <2>1 DEF Reached
<1>5. CASE WriteStream(p)
  <2>1. /\ pc[p] = "stream" /\ UNCHANGED <<wanted, made, retry>>
        /\ \/ pc'[p] = "include" /\ disk' = [disk EXCEPT !["stream"] = made[p]]
           \/ pc'[p] = "restore"
    BY <1>1, <1>5 DEF WriteStream, WriteFile, Goto
  <2>2. pc'[p] = "include" => disk'.stream = made[p]
    BY <1>1, <2>1 DEF Tree
  <2> QED
    BY <2>1, <2>2 DEF Reached
<1>6. CASE SetInclude(p)
  <2>1. /\ pc[p] = "include" /\ pc'[p] \in {"retest", "http"}
        /\ UNCHANGED <<wanted, made, retry>>
        /\ disk' = disk \/ disk' = [disk EXCEPT !.include = made[p].reality]
    BY <1>1, <1>6 DEF SetInclude, Goto
  <2>2. disk'.stream = disk.stream
    BY <1>1, <2>1 DEF Tree
  <2> QED
    BY <2>1, <2>2 DEF Reached
<1>7. CASE TestInclude(p)
  <2>1. /\ pc[p] = "retest" /\ pc'[p] \in {"http", "restore"}
        /\ UNCHANGED <<wanted, made, retry>>
        /\ disk' = disk \/ disk' = [disk EXCEPT !.include = ~made[p].reality]
    BY <1>1, <1>7 DEF TestInclude, Goto
  <2>2. disk'.stream = disk.stream
    BY <1>1, <2>1 DEF Tree
  <2> QED
    BY <2>1, <2>2 DEF Reached
<1>8. CASE WriteHttp(p)
  <2>1. /\ pc[p] = "http" /\ UNCHANGED <<wanted, made, retry>>
        /\ \/ pc'[p] = "test" /\ disk' = [disk EXCEPT !["http"] = made[p]]
           \/ pc'[p] = "restore"
    BY <1>1, <1>8 DEF WriteHttp, WriteFile, Goto
  <2>2. pc'[p] = "test" => disk'.http = made[p] /\ disk'.stream = disk.stream
    BY <1>1, <2>1 DEF Tree
  <2> QED
    BY <2>1, <2>2 DEF Reached
<1>9. CASE Test(p)
  BY <1>1, <1>9 DEF Test, Goto, Reached
<1>10. CASE Restore(p)
  <2>1. pc[p] = "restore"
        /\ \/ pc'[p] = "verb" /\ retry[p] /\ UNCHANGED <<wanted, made, retry>>
           \/ pc'[p] = "idle" /\ ~retry'[p]
    BY <1>1, <1>10 DEF Restore, Forget, Goto, NginxTypeOK
  <2> QED
    BY <2>1 DEF Reached
<1>11. CASE PickVerb(p)
  <2>1. /\ pc[p] = "verb" /\ pc'[p] = "reload"
        /\ verb'[p] = IF up THEN "reload" ELSE "start"
        /\ UNCHANGED <<wanted, made, retry, disk, running>>
    BY <1>1, <1>11 DEF PickVerb, Goto, NginxTypeOK
  <2> QED
    BY <2>1 DEF Reached
<1>12. CASE Reload(p)
  <2>1. pc[p] = "reload"
        /\ \/ pc'[p] = "idle" /\ ~retry'[p]
           \/ pc'[p] = "restore" /\ UNCHANGED <<wanted, made>>
    BY <1>1, <1>12 DEF Reload, Forget, Goto, NginxTypeOK
  <2> QED
    BY <2>1 DEF Reached
<1> QED
  BY <1>2, <1>3, <1>4, <1>5, <1>6, <1>7, <1>8, <1>9, <1>10, <1>11, <1>12 DEF Apply

(* RInv is inductive.                                                      *)
LEMMA ReachedInductive ==
    ASSUME OneCaller PROVE RInv /\ [NginxNext]_nginxVars => RInv'
<1> SUFFICES ASSUME RInv, [NginxNext]_nginxVars, NEW p \in Appliers PROVE Reached(p)'
  BY TypeStep DEF RInv
<1> USE DEF up
<1>1. NginxTypeOK /\ Reached(p)
  BY DEF RInv
<1>2. ASSUME NEW q \in Appliers, Apply(q) PROVE Reached(p)'
  BY <1>1, <1>2, ReachedStep DEF OneCaller
<1>3. ASSUME UNCHANGED <<store, disk, pc, local>>,
             ~up' \/ UNCHANGED running \/ running' = disk
      PROVE  Reached(p)'
  BY <1>1, <1>3 DEF Reached, local
<1>4. CASE WatchLook \/ WatchStart \/ NginxDies \/ PortTaken \/ UNCHANGED nginxVars
  <2>1. UNCHANGED <<store, disk, pc, local>>
    BY <1>4 DEF WatchLook, WatchStart, NginxDies, PortTaken, nginxVars, local
  <2>2. ~up' \/ UNCHANGED running \/ running' = disk
    BY <1>4 DEF WatchLook, WatchStart, NginxDies, PortTaken, nginxVars
  <2> QED
    BY <1>3, <2>1, <2>2
<1>5. ASSUME NEW q \in Appliers, Crash(q) PROVE Reached(p)'
  <2>1. p = q /\ pc'[p] = "idle" /\ ~retry'[p]
    BY <1>1, <1>5 DEF OneCaller, Crash, Forget, NginxTypeOK
  <2> QED
    BY <2>1 DEF Reached
<1> QED
  BY <1>2, <1>4, <1>5 DEF NginxNext, Environment

(* It holds at the start, where no call is under way.                      *)
LEMMA ReachedInit == NginxInit => RInv
  BY InitTypes DEF NginxInit, RInv, Reached

(* What success means when the caller is alone.                            *)
LEMMA SuccessIsServed ==
    ASSUME OneCaller, RInv, [NginxNext]_nginxVars, NEW p \in Appliers,
           outcome[p] # "applied", outcome'[p] = "applied"
    PROVE  /\ running' = disk'
           /\ disk'.http.v >= wanted[p] /\ disk'.stream = disk'.http
<1> USE DEF server, local, up
<1>1. NginxTypeOK /\ Reached(p) /\ outcome \in [Appliers -> Outcomes]
  BY DEF RInv, NginxTypeOK
<1>2. Reload(p)
  <2>1. ASSUME NEW q \in Appliers, Crash(q) PROVE FALSE
    BY <2>1 DEF Crash
  <2>2. ASSUME WatchLook \/ WatchStart \/ NginxDies \/ PortTaken \/ UNCHANGED nginxVars
        PROVE  FALSE
    BY <2>2 DEF WatchLook, WatchStart, NginxDies, PortTaken, nginxVars
  <2>3. Apply(p)
    BY <2>1, <2>2 DEF NginxNext, Environment, OneCaller
  <2> QED
    BY <1>1, <2>3
    DEF Apply, Call, SnapBackup, ReadConfig, WriteStream, WriteHttp, WriteFile,
        SetInclude, TestInclude, Test, Restore, PickVerb
<1>3. pc[p] = "reload" /\ ~retry[p] /\ SystemctlOK(p) /\ Systemctl(p) /\ UNCHANGED disk
  BY <1>1, <1>2 DEF Reload, Goto
<1>4. disk.stream = made[p] /\ disk.http = made[p] /\ made[p].v >= wanted[p]
  BY <1>1, <1>3 DEF Reached
<1>5. Bindable(disk)
  BY <1>4 DEF Bindable, StreamServed
<1>6. running' = disk
  <2>1. verb[p] \in {"reload", "start"}
    BY <1>1 DEF NginxTypeOK
  <2>2. CASE verb[p] = "reload"
    BY <1>3, <1>5, <2>2 DEF SystemctlOK, Systemctl
  <2>3. CASE verb[p] = "start"
    BY <1>1, <1>3, <2>3 DEF SystemctlOK, Systemctl, Reached
  <2> QED
    BY <2>1, <2>2, <2>3
<1> QED
  BY <1>3, <1>4, <1>6

(* GenerateAndReload: while calls do not overlap, one that reports success *)
(* has nginx running exactly the tree on disk, made from the caller's      *)
(* change or a newer one, whatever crashed before and whether the reload   *)
(* or the watchdog brought nginx up.                                       *)
THEOREM SuccessMeansServed ==
    OneCaller => (NginxSpec => AppliedIsServed)
<1> SUFFICES ASSUME OneCaller PROVE NginxSpec => AppliedIsServed
  OBVIOUS
<1>1. RInv /\ [NginxNext]_nginxVars => RInv'
  BY ReachedInductive
<1>2. RInv /\ [NginxNext]_nginxVars =>
        [\A p \in Appliers :
           outcome[p] # "applied" /\ outcome'[p] = "applied" =>
              /\ running' = disk'
              /\ disk'.http.v >= wanted[p] /\ disk'.stream = disk'.http]_nginxVars
  BY SuccessIsServed
<1> QED
  BY ReachedInit, <1>1, <1>2, PTL DEF NginxSpec, AppliedIsServed

(* What a call that is refused was asked to serve.                         *)
LEMMA RefusalIsDeserved ==
    ASSUME OneCaller, IInv, [NginxNext]_nginxVars, NEW p \in Appliers,
           pc[p] \in {"retest", "test"}, pc'[p] = "restore", ~died
    PROVE  ~Sound(made[p])
<1> USE DEF server, local
<1>1. NginxTypeOK /\ Progress(p) /\ pc \in [Appliers -> PC]
  BY DEF IInv, NginxTypeOK
<1>2. TestInclude(p) \/ Test(p)
  <2>1. ASSUME NEW q \in Appliers, Crash(q) PROVE FALSE
    BY <1>1, <2>1 DEF Crash, OneCaller
  <2>2. ASSUME WatchLook \/ WatchStart \/ NginxDies \/ PortTaken \/ UNCHANGED nginxVars
        PROVE  FALSE
    BY <2>2 DEF WatchLook, WatchStart, NginxDies, PortTaken, nginxVars
  <2>3. Apply(p)
    BY <2>1, <2>2 DEF NginxNext, Environment, OneCaller
  <2> QED
    BY <1>1, <2>3
    DEF Apply, Call, SnapBackup, ReadConfig, WriteStream, WriteHttp, WriteFile,
        SetInclude, Restore, PickVerb, Reload, Goto
<1>3. CASE TestInclude(p)
  <2>1. pc[p] = "retest" /\ ~Valid(disk)
        /\ ~(made[p].reality /\ "http" \notin disk.http.bad /\ StreamUnknown(disk))
    BY <1>1, <1>3 DEF TestInclude, Goto
  <2>2. disk.stream = made[p] /\ disk.include = made[p].reality /\ "http" \notin disk.http.bad
    BY <1>1, <2>1 DEF Progress, Good, Valid
  <2> QED
    BY <2>1, <2>2 DEF Valid, StreamUnknown, StreamServed, Sound
<1>4. CASE Test(p)
  <2>1. pc[p] = "test" /\ ~Valid(disk)
    BY <1>1, <1>4 DEF Test, Goto
  <2>2. disk.stream = made[p] /\ disk.http = made[p] /\ disk.include = (made[p].reality /\ module)
    BY <1>1, <2>1 DEF Progress
  <2> QED
    BY <2>1, <2>2 DEF Valid, StreamUnknown, StreamServed, Sound
<1> QED
  BY <1>2, <1>3, <1>4

(* `nginx -t': while calls do not overlap and until a process is killed    *)
(* inside one, a configuration that nginx would serve is never refused for *)
(* what an earlier one left on disk.                                       *)
THEOREM OnlyTheUnsoundIsRefused ==
    OneCaller => (NginxSpec => SoundIsAccepted)
<1> SUFFICES ASSUME OneCaller PROVE NginxSpec => SoundIsAccepted
  OBVIOUS
<1>1. IInv /\ [NginxNext]_nginxVars => IInv'
  BY Inductive
<1>2. IInv /\ [NginxNext]_nginxVars =>
        [\A p \in Appliers :
           pc[p] \in {"retest", "test"} /\ pc'[p] = "restore" =>
              died \/ ~Sound(made[p])]_nginxVars
  BY RefusalIsDeserved
<1> QED
  BY InductiveInit, <1>1, <1>2, PTL DEF NginxSpec, SoundIsAccepted

=============================================================================
