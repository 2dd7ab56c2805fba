------------------------- MODULE VpnService_proofs -------------------------
(***************************************************************************)
(* What VpnService keeps when stops are prompt, for any networks, jobs and *)
(* bounds: everything the three threads of stopAllService rely on of each  *)
(* other.  The types and what is left when the last service goes follow,   *)
(* and so do the order in which interface and tunnel go down and that of   *)
(* the shared rules and the core.                                          *)
(***************************************************************************)
EXTENDS VpnService, ServiceHost_proofs

-----------------------------------------------------------------------------
(* The inductive invariant *)

AllIdle == \A t \in Threads : vpc[t] = "idle"

\* A start that is on its way finds everything at rest: the record is alive,
\* and a new one has not been created yet.
StartPending == \E s \in Objects :
  \/ calls = <<Call("create", s), Call("start", s)>> /\ alive = s /\ self # s
  \/ calls = <<Call("start", s)>> /\ alive = s /\ self = s
DestroyPending == calls = <<Call("destroy", self)>> /\ alive = 0 /\ self # 0

CallsInOrder ==
  /\ self <= starts /\ alive <= starts
  /\ \/ calls = <<>> /\ alive \in {0, self}
     \/ StartPending /\ AllIdle
     \/ DestroyPending

\* onStartCommand has the service to itself
StartAlone == vpc[Main] \in StartStages =>
  /\ calls = <<>> /\ alive = self /\ self # 0 /\ whose[Main] = self /\ stops = 0
  /\ \A t \in Threads : t # Main => vpc[t] = "idle"
StoppersOwn == \A t \in Stoppers : whose[t] = self /\ self # 0
RestartHolds == restart.at = "stop" => restart.of = self /\ self # 0 /\ alive \in {0, self}
LaunchIsStart ==
  /\ pc[Main] = "idle" <=> vpc[Main] # "starting"
  /\ pc[Main] \notin ServicePC

\* What a service has up belongs to the record that is alive, and to an
\* interface, unless a failed start is taking it down.
ReceiverServes == receiver \/ monitor =>
  /\ alive = self /\ self # 0
  /\ iface[self] = "open" \/ vpc[Main] \in {"establish", "flags", "tunnel", "sharing", "clear", "unshare", "core"}
TunnelServes == tun = "up" /\ ~forgotten =>
  /\ alive = self /\ self # 0 /\ t2s[self]
  /\ iface[self] = "open" \/ vpc[Main] \in {"establish", "flags", "tunnel"}
SharingServes == share = "on" =>
  /\ alive = self /\ self # 0
  /\ iface[self] = "open" \/ vpc[Main] \in {"establish", "flags", "tunnel", "sharing", "clear"}

\* The interface is open from establish on; an open one has a service or
\* somebody who will close it, and onDestroy never finds one.
OpenWhileStarting ==
  /\ vpc[Main] \in {"tun2socks", "startLoop", "starting"} => iface[self] = "open"
  /\ vpc[Main] = "establish" => iface[self] # "open"
OpenIsOwned ==
  \A s \in Objects : iface[s] = "open" => s = self /\ (alive = self \/ Stoppers # {})
GoneIsDown == alive = 0 /\ self # 0 => ~up[self] \/ iface[self] # "open"

\* what a thread that is past a stage of stopAllService has left behind
PastStages == \A t \in Stoppers :
  /\ vpc[t] # "flags" => ~up[self] /\ ~lock[self]
  /\ vpc[t] \notin {"flags", "tunnel"} => tun # "up" \/ forgotten
  /\ vpc[t] \in {"unshare", "core", "self", "close"} => share # "on"
  /\ vpc[t] \in {"self", "close"} => ~receiver /\ ~monitor
  /\ vpc[t] = "close" => alive = 0
\* lanSharingStarted is cleared and the rules are not gone: somebody is at it
SomeoneUnshares == share = "stopping" => \E t \in Threads : vpc[t] = "unshare"

VpnInv ==
  /\ VpnTypeOK
  /\ CallsInOrder
  /\ StartAlone
  /\ StoppersOwn
  /\ RestartHolds
  /\ LaunchIsStart
  /\ ReceiverServes
  /\ TunnelServes
  /\ SharingServes
  /\ OpenWhileStarting
  /\ OpenIsOwned
  /\ GoneIsDown
  /\ PastStages
  /\ SomeoneUnshares

LEMMA MainIsThread == Main \in Threads /\ Main \in Launchers
  BY DEF Threads, Launchers

LEMMA VpnInitInv == VpnInit => VpnInv
<1> SUFFICES ASSUME VpnInit PROVE VpnInv
  OBVIOUS
<1>1. HostTypeOK
  BY HostInitInv DEF VpnInit, HostInv
<1>2. VpnTypeOK
  <2>1. lock \in [Objects -> BOOLEAN] /\ up = lock /\ t2s = lock
    BY Zenon DEF VpnInit, VpnVarsInit
  <2>2. vpc \in [Threads -> StopStages \cup StartStages \cup {"idle"}]
    BY DEF VpnInit, VpnVarsInit
  <2>3. whose \in [Threads -> 0..MaxStarts]
    BY ServiceHostAssumption DEF VpnInit, VpnVarsInit
  <2>4. iface \in [Objects -> {"none", "open", "closed"}]
    BY DEF VpnInit, VpnVarsInit
  <2> QED
    BY <1>1, <2>1, <2>2, <2>3, <2>4 DEF VpnInit, VpnVarsInit, VpnTypeOK
<1>3. alive = 0 /\ self = 0 /\ calls = <<>> /\ starts = 0 /\ restart.at = "none"
  BY DEF VpnInit, HostInit, Restart
<1>4. AllIdle /\ Stoppers = {}
  BY DEF VpnInit, VpnVarsInit, AllIdle, Stoppers, StopStages
<1>5. pc[Main] = "idle" /\ ~receiver /\ ~monitor
  BY MainIsThread DEF VpnInit, HostInit, CoreInit
<1>6. CallsInOrder /\ StartAlone /\ StoppersOwn /\ RestartHolds /\ LaunchIsStart
  BY <1>3, <1>4, <1>5, MainIsThread
  DEF CallsInOrder, StartAlone, StoppersOwn, RestartHolds, LaunchIsStart, AllIdle,
      StartStages, ServicePC
<1>7. ReceiverServes /\ TunnelServes /\ SharingServes /\ PastStages /\ SomeoneUnshares
  BY <1>4, <1>5 DEF VpnInit, VpnVarsInit, ReceiverServes, TunnelServes, SharingServes,
      PastStages, SomeoneUnshares, AllIdle
<1>8. OpenWhileStarting /\ OpenIsOwned /\ GoneIsDown
  BY <1>3, <1>4, MainIsThread DEF VpnInit, VpnVarsInit, OpenWhileStarting, OpenIsOwned,
      GoneIsDown, AllIdle
<1> QED
  BY <1>2, <1>6, <1>7, <1>8 DEF VpnInv

\* what the host promises follows: with the record gone nothing is registered
LEMMA VpnInvHost == VpnInv => HostInv
<1> SUFFICES ASSUME VpnInv PROVE HostInv
  OBVIOUS
<1>1. HostTypeOK
  BY DEF VpnInv, VpnTypeOK
<1>2. LastCallDestroys
  <2> SUFFICES ASSUME alive = 0, calls # <<>> PROVE calls[Len(calls)].op = "destroy"
    BY DEF LastCallDestroys
  <2>1. DestroyPending
    BY DEF VpnInv, CallsInOrder, StartPending, Objects
  <2>2. Len(calls) = 1 /\ calls[1].op = "destroy"
    BY <2>1 DEF DestroyPending, Call
  <2> QED
    BY <2>2
<1>3. NothingLeftBehind
  <2> SUFFICES ASSUME alive = 0 PROVE ~monitor /\ ~receiver /\ MainIdle
    BY DEF NothingLeftBehind
  <2>1. ~monitor /\ ~receiver
    BY DEF VpnInv, ReceiverServes
  <2>2. vpc[Main] # "starting"
    BY DEF VpnInv, StartAlone, StartStages
  <2> QED
    BY <2>1, <2>2 DEF VpnInv, LaunchIsStart, MainIdle
<1> QED
  BY <1>1, <1>2, <1>3 DEF HostInv

\* a thread moves from one stage to another and no other one does
LEMMA ThreadMoves ==
  ASSUME VpnTypeOK, NEW t \in Threads, NEW from,
         NEW to \in StopStages \cup StartStages \cup {"idle"}, ThreadAt(t, from, to)
  PROVE  /\ vpc[t] = from /\ vpc'[t] = to
         /\ \A u \in Threads : u # t => vpc'[u] = vpc[u]
         /\ vpc' \in [Threads -> StopStages \cup StartStages \cup {"idle"}]
  BY DEF ThreadAt, VpnTypeOK

\* the manager and the monitor are left alone
LEMMA CoreStays ==
  ASSUME HostTypeOK, coreStays
  PROVE  CoreTypeOK' /\ UNCHANGED <<pc, receiver, monitor, stops, running>>
  BY DEF coreStays, coreVars, monitorVars, netVars, HostTypeOK, CoreTypeOK, FlagsOK, PcOK, DataOK

\* the parts of the invariant that are only about the host and the stages
Hosted == CallsInOrder /\ StartAlone /\ StoppersOwn /\ RestartHolds /\ LaunchIsStart
\* and those about what the service has up
Kept ==
  /\ ReceiverServes /\ TunnelServes /\ SharingServes
  /\ OpenWhileStarting /\ OpenIsOwned /\ GoneIsDown /\ PastStages /\ SomeoneUnshares

LEMMA VpnInvParts == VpnInv <=> VpnTypeOK /\ Hosted /\ Kept
  BY DEF VpnInv, Hosted, Kept

-----------------------------------------------------------------------------
(* stopAllService *)

\* a thread that stops the service works for its last object, and nobody is in
\* onStartCommand
LEMMA StopperFacts ==
  ASSUME VpnInv, NEW t \in Stoppers
  PROVE  /\ t \in Threads /\ vpc[t] \in StopStages
         /\ whose[t] = self /\ self \in Objects
         /\ vpc[Main] \notin StartStages /\ ~AllIdle /\ pc[Main] = "idle"
         /\ ~StartPending /\ alive \in {0, self}
         /\ alive # 0 => calls = <<>>
<1>1. t \in Threads /\ vpc[t] \in StopStages
  BY DEF Stoppers
<1>2. whose[t] = self /\ self \in Objects
  BY DEF VpnInv, StoppersOwn, VpnTypeOK, HostTypeOK, Objects
<1>3. vpc[t] \notin StartStages \cup {"idle"}
  BY <1>1 DEF StartStages, StopStages
<1>4. ~AllIdle
  BY <1>1, <1>3 DEF AllIdle
<1>5. vpc[Main] \notin StartStages
  BY <1>1, <1>3 DEF VpnInv, StartAlone
<1>6. pc[Main] = "idle"
  BY <1>5 DEF VpnInv, LaunchIsStart, StartStages
<1>7. (calls = <<>> /\ alive \in {0, self}) \/ DestroyPending
  BY <1>4 DEF VpnInv, CallsInOrder
<1>8. ~StartPending
  BY <1>7 DEF StartPending, DestroyPending, Call, Objects
<1> QED
  BY <1>1, <1>2, <1>4, <1>5, <1>6, <1>7, <1>8 DEF DestroyPending

\* it goes on to another stage of stopAllService and leaves the host alone
LEMMA StopperGoesOn ==
  ASSUME VpnInv, NEW t \in Stoppers, NEW to \in StopStages,
         vpc'[t] = to, \A u \in Threads : u # t => vpc'[u] = vpc[u],
         UNCHANGED <<hostVars, whose>>, pc'[Main] = "idle"
  PROVE  Hosted' /\ Stoppers' = Stoppers /\ (vpc'[Main] = vpc[Main] \/ t = Main)
<1>1. /\ t \in Threads /\ vpc[t] \in StopStages
      /\ whose[t] = self /\ self \in Objects
      /\ vpc[Main] \notin StartStages /\ ~AllIdle
  BY StopperFacts
<1>2. Stoppers' = Stoppers
  BY <1>1 DEF Stoppers
<1>3. vpc'[Main] \notin StartStages /\ (vpc'[Main] = vpc[Main] \/ t = Main)
  BY <1>1, MainIsThread DEF StartStages, StopStages
<1>4. (calls = <<>> /\ alive \in {0, self}) \/ DestroyPending
  BY <1>1 DEF VpnInv, CallsInOrder
<1>5. CallsInOrder'
  BY <1>4 DEF VpnInv, CallsInOrder, DestroyPending, hostVars
<1>6. StartAlone' /\ StoppersOwn' /\ RestartHolds'
  BY <1>1, <1>2, <1>3 DEF VpnInv, StartAlone, StoppersOwn, RestartHolds, hostVars
<1>7. LaunchIsStart'
  BY <1>3 DEF LaunchIsStart, StartStages, ServicePC
<1> QED
  BY <1>2, <1>3, <1>5, <1>6, <1>7 DEF Hosted

LEMMA StopFlagsKeeps ==
  ASSUME VpnInv, NEW t \in Threads, StopFlags(t) PROVE VpnInv'
<1>0. t \in Stoppers
  BY DEF StopFlags, ThreadAt, Stoppers, StopStages
<1>1. /\ vpc[t] = "flags" /\ vpc'[t] = "tunnel"
      /\ \A u \in Threads : u # t => vpc'[u] = vpc[u]
      /\ vpc' \in [Threads -> StopStages \cup StartStages \cup {"idle"}]
  BY ThreadMoves DEF StopFlags, StopStages, VpnInv
<1>2. CoreTypeOK' /\ UNCHANGED <<whose, iface, t2s, tun, forgotten, share, hostVars, pc, receiver, monitor>>
  BY CoreStays DEF StopFlags, VpnInv, VpnTypeOK
<1>3. ~lock'[self] /\ ~up'[self]
  BY <1>0, StopperFacts DEF StopFlags, Set, VpnInv, VpnTypeOK
<1>4. VpnTypeOK'
  BY <1>1, <1>2 DEF StopFlags, VpnInv, VpnTypeOK, HostTypeOK, Set, hostVars
<1>5. Hosted' /\ Stoppers' = Stoppers /\ (vpc'[Main] = vpc[Main] \/ t = Main)
  BY <1>0, <1>1, <1>2, StopperFacts, StopperGoesOn DEF StopStages
<1>6. ReceiverServes' /\ TunnelServes' /\ SharingServes' /\ OpenWhileStarting'
  BY <1>1, <1>2, <1>5 DEF VpnInv, ReceiverServes, TunnelServes, SharingServes,
      OpenWhileStarting, hostVars
<1>7. OpenIsOwned' /\ GoneIsDown'
  BY <1>0, <1>2, <1>3, <1>5 DEF VpnInv, OpenIsOwned, GoneIsDown, hostVars
<1>8. PastStages' /\ SomeoneUnshares'
  BY <1>0, <1>1, <1>2, <1>3, <1>5 DEF VpnInv, PastStages, SomeoneUnshares, Stoppers, hostVars
<1> QED
  BY <1>4, <1>5, <1>6, <1>7, <1>8, VpnInvParts DEF VpnInv, Hosted

LEMMA StopTunnelKeeps ==
  ASSUME VpnInv, NEW t \in Threads, StopTunnel(t) PROVE VpnInv'
<1>0. t \in Stoppers
  BY DEF StopTunnel, ThreadAt, Stoppers, StopStages
<1>1. /\ vpc[t] = "tunnel" /\ vpc'[t] = "sharing"
      /\ \A u \in Threads : u # t => vpc'[u] = vpc[u]
      /\ vpc' \in [Threads -> StopStages \cup StartStages \cup {"idle"}]
  BY ThreadMoves DEF StopTunnel, StopStages, VpnInv
<1>2. CoreTypeOK' /\ UNCHANGED <<whose, lock, up, iface, forgotten, share, hostVars, pc, receiver, monitor>>
  BY CoreStays DEF StopTunnel, VpnInv, VpnTypeOK
\* a tunnel that is up is the one the service stops, and the stop waits for it
<1>3. (tun' # "up" \/ forgotten) /\ tun' \in {tun, "off"}
  BY <1>0, StopperFacts DEF StopTunnel, Tunnel!StopTun, VpnInv, TunnelServes
<1>4. VpnTypeOK'
  BY <1>1, <1>2, <1>3 DEF StopTunnel, VpnInv, VpnTypeOK, HostTypeOK, Set, hostVars
<1>5. Hosted' /\ Stoppers' = Stoppers /\ (vpc'[Main] = vpc[Main] \/ t = Main)
  BY <1>0, <1>1, <1>2, StopperFacts, StopperGoesOn DEF StopStages
<1>6. ReceiverServes' /\ TunnelServes' /\ SharingServes' /\ OpenWhileStarting'
  BY <1>1, <1>2, <1>3, <1>5 DEF VpnInv, ReceiverServes, TunnelServes, SharingServes,
      OpenWhileStarting, hostVars
<1>7. OpenIsOwned' /\ GoneIsDown'
  BY <1>0, <1>2, <1>3, <1>5 DEF VpnInv, OpenIsOwned, GoneIsDown, hostVars
<1>8. PastStages' /\ SomeoneUnshares'
  BY <1>0, <1>1, <1>2, <1>3, <1>5 DEF VpnInv, PastStages, SomeoneUnshares, Stoppers, hostVars
<1> QED
  BY <1>4, <1>5, <1>6, <1>7, <1>8 DEF VpnInv, Hosted

LEMMA StopSharingKeeps ==
  ASSUME VpnInv, NEW t \in Threads, StopSharing(t) PROVE VpnInv'
<1>0. t \in Stoppers
  BY DEF StopSharing, ThreadAt, Stoppers, StopStages
<1>1. /\ vpc[t] \in {"sharing", "clear", "unshare"} /\ vpc'[t] \in {"clear", "unshare", "core"}
      /\ \A u \in Threads : u # t => vpc'[u] = vpc[u]
      /\ vpc' \in [Threads -> StopStages \cup StartStages \cup {"idle"}]
  BY ThreadMoves DEF StopSharing, StopStages, VpnInv
<1>2. CoreTypeOK' /\ UNCHANGED <<whose, objVars, tun, forgotten, hostVars, pc, receiver, monitor>>
  BY CoreStays DEF StopSharing, VpnInv, VpnTypeOK
<1>3. share' \in {share, "stopping", "off"} /\ (share' = "on" => share = "on")
  BY DEF StopSharing
<1>4. VpnTypeOK'
  BY <1>1, <1>2, <1>3 DEF VpnInv, VpnTypeOK, HostTypeOK, objVars, hostVars
<1>5. Hosted' /\ Stoppers' = Stoppers /\ (vpc'[Main] = vpc[Main] \/ t = Main)
  BY <1>0, <1>1, <1>2, StopperFacts, StopperGoesOn DEF StopStages
<1>6. vpc'[t] # "clear" => share' # "on"
  BY <1>0, <1>1 DEF StopSharing, VpnInv, PastStages, ThreadAt
<1>7. ReceiverServes' /\ TunnelServes' /\ OpenWhileStarting'
  BY <1>0, <1>1, <1>2, <1>5 DEF VpnInv, ReceiverServes, TunnelServes,
      OpenWhileStarting, PastStages, hostVars, objVars
<1>8. SharingServes'
  BY <1>0, <1>1, <1>2, <1>3, <1>5, <1>6 DEF VpnInv, SharingServes, PastStages, hostVars, objVars
<1>9. OpenIsOwned' /\ GoneIsDown'
  BY <1>0, <1>2, <1>5 DEF VpnInv, OpenIsOwned, GoneIsDown, hostVars, objVars
<1>10. SomeoneUnshares'
  <2>1. CASE share' = share /\ vpc[t] = "sharing" /\ vpc'[t] # "unshare"
    BY <1>1, <2>1 DEF VpnInv, SomeoneUnshares
  <2>2. CASE vpc'[t] = "unshare"
    BY <2>2 DEF SomeoneUnshares
  <2>3. CASE share' = "off"
    BY <2>3 DEF SomeoneUnshares
  <2> QED
    BY <1>1, <2>1, <2>2, <2>3 DEF StopSharing, ThreadAt
<1>11. PastStages'
  BY <1>0, <1>1, <1>2, <1>3, <1>5, <1>6
  DEF VpnInv, PastStages, Stoppers, StopStages, hostVars, objVars
<1> QED
  BY <1>4, <1>5, <1>7, <1>8, <1>9, <1>10, <1>11 DEF VpnInv, Hosted

LEMMA StopCoreOnKeepsTypes ==
  ASSUME CoreTypeOK, NEW t \in Threads, StopCoreLoopOn(t), UNCHANGED netVars, pc[Main] = "idle"
  PROVE  CoreTypeOK' /\ pc'[Main] = "idle" /\ ~monitor' /\ ~receiver'
<1> USE DEF CoreTypeOK, StopCoreLoopOn, Unregister
<1>0. Main \notin Jobs
  BY CoreServiceAssumption
<1>1. pc'[Main] = "idle"
  BY DEF Launchers
<1>2. pc' \in [Launchers -> JobPC \cup MainPC \cup ServicePC]
  BY DEF PcOK, JobPC
<1>3. \A j \in Jobs : pc'[j] \in JobPC
  BY <1>0 DEF PcOK, JobPC, Launchers
<1>4. PcOK'
  BY <1>1, <1>2, <1>3 DEF PcOK, MainPC
<1>5. FlagsOK'
  BY DEF FlagsOK
<1>6. DataOK'
  BY DEF DataOK, UiMessages, netVars
<1> QED
  BY <1>1, <1>4, <1>5, <1>6

LEMMA StopCoreKeeps ==
  ASSUME VpnInv, NEW t \in Threads, StopCore(t) PROVE VpnInv'
<1>0. t \in Stoppers
  BY DEF StopCore, ThreadAt, Stoppers, StopStages
<1>1. /\ vpc[t] = "core" /\ vpc'[t] = "self"
      /\ \A u \in Threads : u # t => vpc'[u] = vpc[u]
      /\ vpc' \in [Threads -> StopStages \cup StartStages \cup {"idle"}]
  BY ThreadMoves DEF StopCore, StopStages, VpnInv
<1>2. CoreTypeOK' /\ pc'[Main] = "idle" /\ ~receiver' /\ ~monitor'
  BY <1>0, StopperFacts, StopCoreOnKeepsTypes DEF StopCore, VpnInv, VpnTypeOK, HostTypeOK
<1>3. UNCHANGED <<whose, objVars, tun, forgotten, share, hostVars>>
  BY DEF StopCore
<1>4. VpnTypeOK'
  BY <1>1, <1>2, <1>3 DEF VpnInv, VpnTypeOK, HostTypeOK, objVars, hostVars
<1>5. Hosted' /\ Stoppers' = Stoppers /\ (vpc'[Main] = vpc[Main] \/ t = Main)
  BY <1>0, <1>1, <1>2, <1>3, StopperFacts, StopperGoesOn DEF StopStages
<1>6. share # "on" /\ (tun # "up" \/ forgotten)
  BY <1>0, <1>1 DEF VpnInv, PastStages
<1>7. ReceiverServes' /\ TunnelServes' /\ SharingServes' /\ OpenWhileStarting'
  BY <1>1, <1>2, <1>3, <1>5, <1>6 DEF VpnInv, ReceiverServes, TunnelServes, SharingServes,
      OpenWhileStarting, hostVars, objVars
<1>8. OpenIsOwned' /\ GoneIsDown'
  BY <1>0, <1>3, <1>5 DEF VpnInv, OpenIsOwned, GoneIsDown, hostVars, objVars
<1>9. PastStages' /\ SomeoneUnshares'
  BY <1>0, <1>1, <1>2, <1>3, <1>5, <1>6
  DEF VpnInv, PastStages, SomeoneUnshares, Stoppers, hostVars, objVars
<1> QED
  BY <1>4, <1>5, <1>7, <1>8, <1>9 DEF VpnInv, Hosted

\* stopSelf of the last object ends its record, if it has one
LEMMA StopSelfEnds ==
  ASSUME HostTypeOK, self \in Objects, alive \in {0, self}, alive # 0 => calls = <<>>,
         StopSelf(self)
  PROVE  /\ alive' = 0
         /\ IF alive = 0 THEN calls' = calls ELSE calls' = <<Call("destroy", self)>>
         /\ calls' \in Seq(Calls)
<1>1. 0 \notin Objects
  BY DEF Objects
<1>2. CASE alive = 0
  BY <1>1, <1>2 DEF StopSelf, HostTypeOK
<1>3. CASE alive = self
  <2>1. alive' = 0 /\ calls' = Append(<<>>, Call("destroy", self)) /\ alive # 0
    BY <1>1, <1>3 DEF StopSelf
  <2>2. Append(<<>>, Call("destroy", self)) = <<Call("destroy", self)>>
    OBVIOUS
  <2>3. Call("destroy", self) \in Calls
    BY DEF Call, Calls, Objects
  <2> QED
    BY <2>1, <2>2, <2>3
<1> QED
  BY <1>2, <1>3

LEMMA StopServiceKeeps ==
  ASSUME VpnInv, NEW t \in Threads, StopService(t) PROVE VpnInv'
<1>0. t \in Stoppers
  BY DEF StopService, ThreadAt, Stoppers, StopStages
<1>1. /\ vpc[t] = "self" /\ vpc'[t] = "close"
      /\ \A u \in Threads : u # t => vpc'[u] = vpc[u]
      /\ vpc' \in [Threads -> StopStages \cup StartStages \cup {"idle"}]
  BY ThreadMoves DEF StopService, StopStages, VpnInv
<1>2. /\ CoreTypeOK' /\ UNCHANGED <<pc, receiver, monitor>>
      /\ UNCHANGED <<starts, self, restart, whose, objVars, tun, forgotten, share>>
  BY CoreStays DEF StopService, VpnInv, VpnTypeOK
<1>3. /\ self \in Objects /\ whose[t] = self /\ pc[Main] = "idle"
      /\ vpc[Main] \notin StartStages /\ ~StartPending
  BY <1>0, StopperFacts
<1>4. /\ alive' = 0 /\ calls' \in Seq(Calls)
      /\ IF alive = 0 THEN calls' = calls ELSE calls' = <<Call("destroy", self)>>
  BY <1>0, <1>3, StopperFacts, StopSelfEnds DEF StopService, VpnInv, VpnTypeOK
<1>5. VpnTypeOK'
  <2>1. alive' \in 0..MaxStarts
    BY <1>4, ServiceHostAssumption
  <2> QED
    BY <1>1, <1>2, <1>4, <2>1 DEF VpnInv, VpnTypeOK, HostTypeOK, objVars
<1>6. Stoppers' = Stoppers /\ (vpc'[Main] = vpc[Main] \/ t = Main) /\ vpc'[Main] \notin StartStages
  BY <1>0, <1>1, <1>3, MainIsThread DEF Stoppers, StopStages, StartStages
<1>7. CallsInOrder'
  BY <1>2, <1>3, <1>4
  DEF VpnInv, CallsInOrder, DestroyPending, Objects, VpnTypeOK, HostTypeOK
<1>8. StartAlone' /\ StoppersOwn' /\ RestartHolds' /\ LaunchIsStart'
  BY <1>2, <1>3, <1>4, <1>6
  DEF VpnInv, StartAlone, StoppersOwn, RestartHolds, LaunchIsStart, StartStages, ServicePC
<1>9. /\ share # "on" /\ (tun # "up" \/ forgotten) /\ ~receiver /\ ~monitor /\ ~up[self]
  BY <1>0, <1>1 DEF VpnInv, PastStages
<1>10. ReceiverServes' /\ TunnelServes' /\ SharingServes' /\ OpenWhileStarting'
  BY <1>2, <1>6, <1>9 DEF ReceiverServes, TunnelServes, SharingServes,
      OpenWhileStarting, StartStages
<1>11. OpenIsOwned' /\ GoneIsDown'
  BY <1>0, <1>2, <1>6, <1>9 DEF VpnInv, OpenIsOwned, GoneIsDown, objVars
<1>12. PastStages' /\ SomeoneUnshares'
  BY <1>0, <1>1, <1>2, <1>4, <1>6, <1>9
  DEF VpnInv, PastStages, SomeoneUnshares, Stoppers, objVars
<1> QED
  BY <1>5, <1>7, <1>8, <1>10, <1>11, <1>12 DEF VpnInv

LEMMA StopCloseKeeps ==
  ASSUME VpnInv, NEW t \in Threads, StopClose(t) PROVE VpnInv'
<1>0. t \in Stoppers
  BY DEF StopClose, ThreadAt, Stoppers, StopStages
<1>1. /\ vpc[t] = "close" /\ vpc'[t] = "idle"
      /\ \A u \in Threads : u # t => vpc'[u] = vpc[u]
      /\ vpc' \in [Threads -> StopStages \cup StartStages \cup {"idle"}]
  BY ThreadMoves DEF StopClose, StopStages, VpnInv
<1>2. /\ CoreTypeOK' /\ UNCHANGED <<pc, receiver, monitor>>
      /\ UNCHANGED <<alive, starts, calls, self, whose, lock, up, t2s, tun, forgotten, share>>
  BY CoreStays DEF StopClose, VpnInv, VpnTypeOK
<1>3. /\ self \in Objects /\ whose[t] = self /\ pc[Main] = "idle"
      /\ vpc[Main] \notin StartStages /\ ~StartPending
  BY <1>0, StopperFacts
<1>4. restart' = restart \/ restart' = Restart("start", 0)
  BY DEF StopClose
<1>5. \A s \in Objects : iface'[s] \in {"none", "closed"} \cup {iface[s]} /\ iface'[self] # "open"
  BY <1>3 DEF StopClose, Close, Set, VpnInv, VpnTypeOK
<1>6. \A s \in Objects : iface'[s] # "open"
  BY <1>5 DEF VpnInv, OpenIsOwned
<1>7. VpnTypeOK'
  <2>1. restart' \in Restarts
    BY <1>4, ServiceHostAssumption DEF Restart, Restarts, VpnInv, VpnTypeOK, HostTypeOK
  <2>2. iface' \in [Objects -> {"none", "open", "closed"}]
    BY <1>3 DEF StopClose, Close, Set, VpnInv, VpnTypeOK
  <2> QED
    BY <1>1, <1>2, <2>1, <2>2 DEF VpnInv, VpnTypeOK, HostTypeOK
<1>8. Stoppers' \subseteq Stoppers /\ (vpc'[Main] = vpc[Main] \/ t = Main) /\ vpc'[Main] \notin StartStages
  BY <1>0, <1>1, <1>3, MainIsThread DEF Stoppers, StopStages, StartStages
<1>9. alive = 0 /\ share # "on" /\ (tun # "up" \/ forgotten) /\ ~receiver /\ ~monitor
  BY <1>0, <1>1 DEF VpnInv, PastStages
<1>10. CallsInOrder'
  BY <1>0, <1>2, <1>3, <1>9 DEF VpnInv, CallsInOrder, DestroyPending
<1>11. StartAlone' /\ StoppersOwn' /\ RestartHolds' /\ LaunchIsStart'
  BY <1>2, <1>3, <1>4, <1>8 DEF VpnInv, StartAlone, StoppersOwn, RestartHolds,
      LaunchIsStart, StartStages, ServicePC, Restart
<1>12. ReceiverServes' /\ TunnelServes' /\ SharingServes' /\ OpenWhileStarting' /\ OpenIsOwned' /\ GoneIsDown'
  BY <1>2, <1>3, <1>6, <1>8, <1>9 DEF ReceiverServes, TunnelServes, SharingServes,
      OpenWhileStarting, OpenIsOwned, GoneIsDown, StartStages
<1>13. PastStages' /\ SomeoneUnshares'
  BY <1>0, <1>1, <1>2, <1>8, <1>9 DEF VpnInv, PastStages, SomeoneUnshares, Stoppers, StopStages
<1> QED
  BY <1>7, <1>10, <1>11, <1>12, <1>13 DEF VpnInv

LEMMA StopAllKeeps ==
  ASSUME VpnInv, NEW t \in Threads, StopAllService(t) PROVE VpnInv'
  BY StopFlagsKeeps, StopTunnelKeeps, StopSharingKeeps, StopCoreKeeps, StopServiceKeeps,
     StopCloseKeeps DEF StopAllService

-----------------------------------------------------------------------------
(* Who begins it *)

\* where the queue of callbacks is, if no start is in it
LEMMA NoStartPending ==
  ASSUME VpnInv, \A i \in DOMAIN calls : calls[i].op # "start"
  PROVE  (calls = <<>> /\ alive \in {0, self}) \/ DestroyPending
<1>1. ~StartPending
  <2> SUFFICES ASSUME NEW s \in Objects,
                      calls = <<Call("create", s), Call("start", s)>> \/ calls = <<Call("start", s)>>
               PROVE FALSE
    BY DEF StartPending
  <2>1. CASE calls = <<Call("create", s), Call("start", s)>>
    <3>1. 2 \in DOMAIN calls /\ calls[2].op = "start"
      BY <2>1 DEF Call
    <3> QED
      BY <3>1
  <2>2. CASE calls = <<Call("start", s)>>
    <3>1. 1 \in DOMAIN calls /\ calls[1].op = "start"
      BY <2>2 DEF Call
    <3> QED
      BY <3>1
  <2> QED
    BY <2>1, <2>2
<1> QED
  BY <1>1 DEF VpnInv, CallsInOrder

\* a thread begins to stop the last object
LEMMA BeginStopKeeps ==
  ASSUME VpnInv, NEW t \in Threads, self # 0,
         vpc[Main] \notin StartStages /\ \A i \in DOMAIN calls : calls[i].op # "start",
         ThreadAt(t, "idle", "flags"), whose' = [whose EXCEPT ![t] = self],
         UNCHANGED <<objVars, tun, forgotten, share>>, coreStays,
         UNCHANGED <<alive, starts, calls, self>>,
         restart' \in Restarts, restart'.at = "stop" => restart' = restart
  PROVE  VpnInv'
<1>1. /\ vpc[t] = "idle" /\ vpc'[t] = "flags"
      /\ \A u \in Threads : u # t => vpc'[u] = vpc[u]
      /\ vpc' \in [Threads -> StopStages \cup StartStages \cup {"idle"}]
  BY ThreadMoves DEF StopStages, VpnInv
<1>2. CoreTypeOK' /\ UNCHANGED <<objVars, tun, forgotten, share, pc, receiver, monitor, stops>>
  BY CoreStays DEF VpnInv, VpnTypeOK
<1>3. vpc[Main] \notin StartStages /\ \A i \in DOMAIN calls : calls[i].op # "start"
  OBVIOUS
<1>4. (calls = <<>> /\ alive \in {0, self}) \/ DestroyPending
  BY <1>3, NoStartPending
<1>5. vpc'[Main] = vpc[Main] \/ (vpc[Main] = "idle" /\ vpc'[Main] = "flags")
  BY <1>1, MainIsThread
<1>6. /\ whose' \in [Threads -> 0..MaxStarts] /\ whose'[t] = self
      /\ \A u \in Threads : u # t => whose'[u] = whose[u]
  BY DEF VpnInv, VpnTypeOK, HostTypeOK
<1>7. Stoppers' = Stoppers \cup {t} /\ t \notin Stoppers /\ Stoppers \subseteq Threads
  BY <1>1 DEF Stoppers, StopStages
<1>8. VpnTypeOK'
  BY <1>1, <1>2, <1>6 DEF VpnInv, VpnTypeOK, HostTypeOK, objVars
<1>9. CallsInOrder'
  BY <1>4 DEF VpnInv, CallsInOrder, DestroyPending
<1>10. vpc'[Main] \notin StartStages
  BY <1>3, <1>5 DEF StartStages
<1>11. StartAlone' /\ RestartHolds' /\ LaunchIsStart'
  BY <1>2, <1>3, <1>5, <1>10 DEF VpnInv, StartAlone, RestartHolds, LaunchIsStart, StartStages
<1>12. StoppersOwn'
  BY <1>6, <1>7 DEF VpnInv, StoppersOwn
<1>13. ReceiverServes' /\ TunnelServes' /\ SharingServes' /\ OpenWhileStarting'
  BY <1>2, <1>5 DEF VpnInv, ReceiverServes, TunnelServes, SharingServes, OpenWhileStarting, objVars
<1>14. OpenIsOwned' /\ GoneIsDown'
  BY <1>2, <1>7 DEF VpnInv, OpenIsOwned, GoneIsDown, objVars
<1>15. PastStages'
  <2>1. ASSUME NEW u \in Stoppers, u # t PROVE vpc'[u] = vpc[u]
    BY <1>1, <2>1 DEF Stoppers
  <2> QED
    BY <1>1, <1>2, <1>7, <2>1 DEF VpnInv, PastStages, objVars
<1>16. SomeoneUnshares'
  BY <1>1, <1>2 DEF VpnInv, SomeoneUnshares
<1> QED
  BY <1>8, <1>9, <1>11, <1>12, <1>13, <1>14, <1>15, <1>16 DEF VpnInv

\* the user, a restart, the system
LEMMA StopsBegun ==
  ASSUME PromptStop, VpnInv, VpnUserStop \/ VpnRestartStop \/ OnRevoke PROVE VpnInv'
<1>0. restart \in Restarts
  BY DEF VpnInv, VpnTypeOK, HostTypeOK
<1>1. CASE VpnUserStop
  <2>1. restart' \in Restarts /\ (restart'.at = "stop" => restart' = restart)
    BY <1>0, <1>1, ServiceHostAssumption DEF VpnUserStop, Forget, Restart, Restarts
  <2> QED
    BY <1>1, <2>1, MainIsThread, BeginStopKeeps DEF VpnUserStop, BeginStop, Set
<1>2. CASE VpnRestartStop
  <2>1. restart.of = self /\ self # 0
    BY <1>2 DEF VpnRestartStop, VpnInv, RestartHolds
  <2>2. "restart" \in Threads /\ whose' = [whose EXCEPT !["restart"] = self]
    BY <1>2, <2>1 DEF VpnRestartStop, BeginStop, Set, Threads
  <2>3. UNCHANGED <<alive, starts, calls, self, restart>>
    BY <1>2 DEF VpnRestartStop, hostVars
  <2> QED
    BY <1>0, <1>2, <2>1, <2>2, <2>3, BeginStopKeeps DEF VpnRestartStop, BeginStop
<1>3. CASE OnRevoke
  <2>1. (calls = <<>> /\ alive \in {0, self}) \/ DestroyPending
    BY <1>3, NoStartPending DEF OnRevoke, BeginStop
  <2>2. alive = self /\ self # 0
    BY <1>3, <2>1 DEF OnRevoke, DestroyPending
  <2>3. "revoke" \in Threads /\ whose' = [whose EXCEPT !["revoke"] = self]
    BY <1>3, <2>2 DEF OnRevoke, BeginStop, Set, Threads
  <2>4. UNCHANGED <<alive, starts, calls, self, restart>>
    BY <1>3 DEF OnRevoke, hostVars
  <2> QED
    BY <1>0, <1>3, <2>2, <2>3, <2>4, BeginStopKeeps DEF OnRevoke, BeginStop
<1> QED
  BY <1>1, <1>2, <1>3

\* steps that change nothing but the queue of callbacks, the record and the
\* restart, while everything is at rest
LEMMA RequestKeeps ==
  ASSUME VpnInv, AllIdle, calls = <<>>, Request,
         UNCHANGED <<self, coreVars, monitorVars, netVars, vpnVars>>,
         restart' \in Restarts, restart'.at # "stop"
  PROVE  VpnInv'
<1>1. alive' \in 1..MaxStarts /\ starts' \in 0..MaxStarts /\ calls' \in Seq(Calls)
  BY RequestKeepsTypes DEF VpnInv, VpnTypeOK
<1>2. alive \in {0, self} /\ self <= starts /\ starts \in Nat /\ self \in Nat
  BY DEF VpnInv, CallsInOrder, StartPending, DestroyPending, VpnTypeOK, HostTypeOK, Objects, Call
<1>3. HostTypeOK'
  <2>1. CoreTypeOK'
    BY DEF VpnInv, VpnTypeOK, HostTypeOK, CoreTypeOK, FlagsOK, PcOK, DataOK,
        coreVars, monitorVars, netVars
  <2>2. alive' \in 0..MaxStarts
    BY <1>1
  <2> QED
    BY <1>1, <2>1, <2>2 DEF VpnInv, VpnTypeOK, HostTypeOK
<1>4. AllIdle' /\ Stoppers = {} /\ Stoppers' = {}
  BY DEF vpnVars, AllIdle, Stoppers, StopStages
<1>5. VpnTypeOK'
  BY <1>3 DEF VpnInv, VpnTypeOK, vpnVars, objVars
<1>6. StartPending' /\ self' <= starts' /\ alive' <= starts'
  <2>1. CASE alive = 0
    <3>1. starts' = starts + 1 /\ alive' = starts + 1
      BY <2>1 DEF Request
    <3>2. calls' = <<Call("create", alive'), Call("start", alive')>>
      BY <2>1, <3>1 DEF Request
    <3>3. alive' \in Objects /\ self' # alive' /\ self' <= starts'
      BY <1>1, <1>2, <3>1 DEF Objects
    <3> QED
      BY <3>1, <3>2, <3>3, <1>2 DEF StartPending
  <2>2. CASE alive # 0
    <3>1. starts' = starts + 1 /\ alive' = alive /\ calls' = Append(<<>>, Call("start", alive))
      BY <2>2 DEF Request
    <3>2. calls' = <<Call("start", alive')>> /\ alive' = self'
      BY <1>2, <2>2, <3>1
    <3> QED
      BY <1>1, <1>2, <3>1, <3>2 DEF StartPending, Objects
  <2> QED
    BY <2>1, <2>2
<1>7. CallsInOrder'
  BY <1>4, <1>6 DEF CallsInOrder
<1>8. vpc'[Main] = "idle" /\ vpc[Main] = "idle" /\ pc'[Main] = pc[Main] /\ alive' # 0
  BY <1>1, MainIsThread DEF vpnVars, AllIdle, coreVars
<1>9. StartAlone' /\ StoppersOwn' /\ RestartHolds' /\ LaunchIsStart'
  BY <1>4, <1>8 DEF VpnInv, StartAlone, StoppersOwn, RestartHolds, LaunchIsStart, StartStages
<1>10. alive' = alive \/ alive = 0
  BY DEF Request
<1>11. UNCHANGED <<receiver, monitor, iface, t2s, up, lock, tun, forgotten, share, self>>
  BY DEF coreVars, monitorVars, vpnVars, objVars
<1>12. ReceiverServes' /\ TunnelServes' /\ SharingServes' /\ OpenWhileStarting' /\ GoneIsDown'
  BY <1>8, <1>10, <1>11 DEF VpnInv, ReceiverServes, TunnelServes, SharingServes, OpenWhileStarting, GoneIsDown
<1>13. OpenIsOwned'
  BY <1>4, <1>10, <1>11 DEF VpnInv, OpenIsOwned, Objects
<1>14. PastStages' /\ SomeoneUnshares'
  BY <1>4 DEF VpnInv, PastStages, SomeoneUnshares, vpnVars, AllIdle
<1> QED
  BY <1>5, <1>7, <1>9, <1>12, <1>13, <1>14 DEF VpnInv

\* only the restart coroutine changes
LEMMA RestartOnlyKeeps ==
  ASSUME VpnInv, UNCHANGED <<alive, starts, calls, self, coreVars, monitorVars, netVars, vpnVars>>,
         restart' \in Restarts,
         restart'.at = "stop" => restart'.of = self /\ self # 0 /\ alive \in {0, self}
  PROVE  VpnInv'
<1>1. VpnTypeOK'
  BY DEF VpnInv, VpnTypeOK, HostTypeOK, CoreTypeOK, FlagsOK, PcOK, DataOK,
      coreVars, monitorVars, netVars, vpnVars, objVars
<1>2. AllIdle' = AllIdle /\ Stoppers' = Stoppers
  BY DEF vpnVars, AllIdle, Stoppers
<1>3. CallsInOrder' /\ StartAlone' /\ StoppersOwn' /\ RestartHolds' /\ LaunchIsStart'
  BY <1>2 DEF VpnInv, CallsInOrder, StartPending, DestroyPending, StartAlone, StoppersOwn, RestartHolds,
      LaunchIsStart, vpnVars, coreVars
<1>4. ReceiverServes' /\ TunnelServes' /\ SharingServes' /\ OpenWhileStarting' /\ GoneIsDown'
  BY DEF VpnInv, ReceiverServes, TunnelServes, SharingServes, OpenWhileStarting, GoneIsDown,
      vpnVars, objVars, coreVars, monitorVars
<1>5. OpenIsOwned' /\ PastStages' /\ SomeoneUnshares'
  BY <1>2 DEF VpnInv, OpenIsOwned, PastStages, SomeoneUnshares, vpnVars, objVars, coreVars, monitorVars
<1> QED
  BY <1>1, <1>3, <1>4, <1>5 DEF VpnInv

LEMMA RequestsKeep ==
  ASSUME PromptStop, VpnInv, VpnUserStart \/ VpnUserRestart \/ VpnRestartStart PROVE VpnInv'
<1>0. restart \in Restarts /\ \A at \in {"none", "done"} : Restart(at, 0) \in Restarts /\ Restart(at, 0).at # "stop"
  BY ServiceHostAssumption DEF VpnInv, VpnTypeOK, HostTypeOK, Restart, Restarts
<1>1. CASE VpnUserStart
  <2>1. AllIdle /\ calls = <<>> /\ restart.at # "stop" /\ UserStart /\ UNCHANGED vpnVars
    BY <1>1 DEF VpnUserStart, AllIdle
  <2>2. restart' \in Restarts /\ restart'.at # "stop"
    BY <1>0, <2>1 DEF UserStart, Forget
  <2> QED
    BY <2>1, <2>2, RequestKeeps DEF UserStart
<1>2. CASE VpnUserRestart
  <2>1. receiver /\ restart' = Restart("stop", self)
    BY <1>2 DEF VpnUserRestart, UserRestart
  <2>2. alive = self /\ self # 0
    BY <2>1 DEF VpnInv, ReceiverServes
  <2>3. restart' \in Restarts /\ restart'.of = self
    BY <2>1 DEF Restart, Restarts, VpnInv, VpnTypeOK, HostTypeOK
  <2> QED
    BY <1>2, <2>2, <2>3, RestartOnlyKeeps DEF VpnUserRestart, UserRestart
<1>3. CASE VpnRestartStart
  <2>1. AllIdle /\ calls = <<>> /\ RestartStart /\ UNCHANGED vpnVars
    BY <1>3 DEF VpnRestartStart, AllIdle, RestartStart
  <2>2. CASE Request /\ restart' = Restart("done", 0)
    BY <1>0, <2>1, <2>2, RequestKeeps DEF RestartStart
  <2>3. CASE UNCHANGED <<alive, starts, calls>> /\ restart' = Restart("none", 0)
    BY <1>0, <2>1, <2>3, RestartOnlyKeeps DEF RestartStart
  <2> QED
    BY <2>1, <2>2, <2>3 DEF RestartStart
<1> QED
  BY <1>1, <1>2, <1>3

-----------------------------------------------------------------------------
(* The main thread *)

\* the next callback, and what there is besides it
LEMMA NextCall ==
  ASSUME VpnInv, NEW op, Take(op)
  PROVE  /\ Head(calls).op = op /\ calls' = Tail(calls) /\ pc[Main] = "idle"
         /\ op = "create" => \E s \in Objects :
              /\ calls' = <<Call("start", s)>> /\ Head(calls).of = s
              /\ alive = s /\ self # s /\ AllIdle
         /\ op = "start" => /\ calls' = <<>> /\ Head(calls).of = self
                            /\ alive = self /\ self \in Objects /\ AllIdle
         /\ op = "destroy" => /\ calls' = <<>> /\ Head(calls).of = self
                              /\ alive = 0 /\ self \in Objects
<1>1. calls # <<>> /\ Head(calls).op = op /\ calls' = Tail(calls) /\ pc[Main] = "idle"
  BY DEF Take, MainIdle
<1>2. self \in 0..MaxStarts
  BY DEF VpnInv, VpnTypeOK, HostTypeOK
<1>3. CASE DestroyPending
  <2>1. op = "destroy" /\ Head(calls).of = self /\ Tail(calls) = <<>>
    BY <1>1, <1>3 DEF DestroyPending, Call
  <2> QED
    BY <1>1, <1>2, <1>3, <2>1 DEF DestroyPending, Objects
<1>4. ASSUME NEW s \in Objects, calls = <<Call("create", s), Call("start", s)>>,
             alive = s, self # s, AllIdle
      PROVE  op = "create" /\ Head(calls).of = s /\ Tail(calls) = <<Call("start", s)>>
  BY <1>1, <1>4 DEF Call
<1>5. ASSUME NEW s \in Objects, calls = <<Call("start", s)>>, alive = s, self = s, AllIdle
      PROVE  op = "start" /\ Head(calls).of = s /\ Tail(calls) = <<>>
  BY <1>1, <1>5 DEF Call
<1>6. CASE StartPending /\ AllIdle
  BY <1>1, <1>4, <1>5, <1>6 DEF StartPending
<1> QED
  BY <1>1, <1>3, <1>6 DEF VpnInv, CallsInOrder

LEMMA CreateKeeps ==
  ASSUME VpnInv, Free, OnCreate, UNCHANGED vpnVars PROVE VpnInv'
<1>0. Take("create")
  BY DEF OnCreate
<1>1. PICK s \in Objects : /\ calls' = <<Call("start", s)>> /\ Head(calls).of = s
                           /\ alive = s /\ self # s /\ AllIdle
  BY <1>0, NextCall
<1>2. self' = s /\ UNCHANGED <<alive, starts, restart, pc, receiver, monitor, stops>>
  BY <1>1 DEF OnCreate, coreVars, monitorVars
<1>3. s \in 1..MaxStarts /\ s # 0 /\ s \in 0..MaxStarts
  BY <1>1 DEF Objects
<1>4. VpnTypeOK'
  <2>1. CoreTypeOK'
    BY DEF OnCreate, VpnInv, VpnTypeOK, HostTypeOK, CoreTypeOK, FlagsOK, PcOK, DataOK,
        coreVars, monitorVars, netVars
  <2>2. Call("start", s) \in Calls
    BY <1>3 DEF Call, Calls
  <2>3. calls' \in Seq(Calls)
    BY <1>1, <2>2
  <2> QED
    BY <1>2, <1>3, <2>1, <2>3 DEF VpnInv, VpnTypeOK, HostTypeOK, vpnVars, objVars
<1>5. AllIdle' /\ Stoppers = {} /\ Stoppers' = {} /\ vpc'[Main] = "idle"
  BY <1>1, MainIsThread DEF vpnVars, AllIdle, Stoppers, StopStages
<1>6. CallsInOrder'
  BY <1>1, <1>2, <1>5 DEF VpnInv, CallsInOrder, StartPending
<1>7. restart.at # "stop"
  BY <1>1, <1>3 DEF VpnInv, RestartHolds
<1>8. StartAlone' /\ StoppersOwn' /\ RestartHolds' /\ LaunchIsStart'
  BY <1>1, <1>2, <1>5, <1>7, MainIsThread
  DEF VpnInv, StartAlone, StoppersOwn, RestartHolds, LaunchIsStart, StartStages, AllIdle
<1>9. UNCHANGED <<iface, t2s, up, lock, tun, forgotten, share>>
  BY DEF vpnVars, objVars
<1>10. ReceiverServes' /\ TunnelServes' /\ SharingServes' /\ OpenWhileStarting' /\ GoneIsDown'
  BY <1>1, <1>2, <1>3, <1>5, <1>9
  DEF VpnInv, ReceiverServes, TunnelServes, SharingServes, OpenWhileStarting, GoneIsDown
<1>11. OpenIsOwned' /\ PastStages' /\ SomeoneUnshares'
  BY <1>1, <1>5, <1>9 DEF VpnInv, OpenIsOwned, PastStages, SomeoneUnshares, AllIdle
<1> QED
  BY <1>4, <1>6, <1>8, <1>10, <1>11 DEF VpnInv

\* the host part of a step of onStartCommand that leaves the queue alone
LEMMA StartGoesOn ==
  ASSUME VpnInv, vpc[Main] \in StartStages, UNCHANGED <<hostVars, whose>>,
         vpc'[Main] \in StartStages \cup {"flags", "idle"}, stops' = stops,
         \A u \in Threads : u # Main => vpc'[u] = vpc[u],
         pc'[Main] = "idle" <=> vpc'[Main] # "starting", pc'[Main] \notin ServicePC
  PROVE  /\ Hosted' /\ calls = <<>> /\ alive = self /\ self \in Objects /\ whose[Main] = self
         /\ Stoppers = {} /\ (vpc'[Main] # "flags" => Stoppers' = {})
         /\ \A u \in Threads : vpc'[u] # "unshare" /\ (u # Main => vpc'[u] = "idle")
         /\ share # "stopping" /\ SomeoneUnshares
         /\ (share' = "stopping" => share = "stopping") => SomeoneUnshares'
         /\ PastStages'
<1>1. /\ calls = <<>> /\ alive = self /\ self # 0 /\ whose[Main] = self /\ stops = 0
      /\ \A u \in Threads : u # Main => vpc[u] = "idle"
  BY DEF VpnInv, StartAlone
<1>2. self \in Objects
  BY <1>1 DEF VpnInv, VpnTypeOK, HostTypeOK, Objects
<1>3. Stoppers = {}
  BY <1>1 DEF Stoppers, StopStages, StartStages
<1>4. Stoppers' \subseteq {Main} /\ (vpc'[Main] # "flags" => Stoppers' = {})
  BY <1>1 DEF Stoppers, StopStages, StartStages
<1>5. CallsInOrder' /\ StartAlone' /\ RestartHolds' /\ LaunchIsStart'
  BY <1>1 DEF VpnInv, CallsInOrder, StartAlone, RestartHolds, LaunchIsStart, hostVars
<1>6. StoppersOwn'
  BY <1>1, <1>4 DEF StoppersOwn, hostVars
<1>7. \A u \in Threads : vpc'[u] # "unshare" /\ (u # Main => vpc'[u] = "idle")
  BY <1>1 DEF StartStages
<1>8. share # "stopping"
  BY <1>1 DEF VpnInv, SomeoneUnshares, StartStages
<1>9. (share' = "stopping" => share = "stopping") => SomeoneUnshares'
  BY <1>7, <1>8 DEF SomeoneUnshares
<1>10. PastStages'
  <2>1. \A u \in Stoppers' : vpc'[u] = "flags"
    BY <1>4
  <2> QED
    BY <2>1 DEF PastStages
<1> QED
  BY <1>1, <1>2, <1>3, <1>4, <1>5, <1>6, <1>7, <1>8, <1>9, <1>10 DEF Hosted, VpnInv

LEMMA StartCommandKeeps ==
  ASSUME PromptStop, VpnInv, StartCommand PROVE VpnInv'
<1>0. Take("start") /\ stops = 0 /\ vpc[Main] = "idle" /\ pc[Main] = "idle"
  BY DEF StartCommand, Free, MainIdle
<1>1. /\ calls' = <<>> /\ Head(calls).of = self
      /\ alive = self /\ self \in Objects /\ AllIdle /\ self # 0
  BY <1>0, NextCall DEF Objects
<1>2. /\ CoreTypeOK' /\ UNCHANGED <<pc, receiver, monitor, stops>>
      /\ UNCHANGED <<alive, starts, self, restart, up, iface, t2s, tun, forgotten, share>>
  BY CoreStays DEF StartCommand, VpnInv, VpnTypeOK
<1>3. calls' \in Seq(Calls)
  BY <1>1
<1>4. CASE UNCHANGED <<lock, vpc, whose>>
  <2>1. VpnTypeOK'
    BY <1>2, <1>3, <1>4 DEF VpnInv, VpnTypeOK, HostTypeOK
  <2>2. Stoppers' = Stoppers /\ AllIdle'
    BY <1>1, <1>4 DEF Stoppers, AllIdle
  <2>3. CallsInOrder' /\ StartAlone' /\ StoppersOwn' /\ RestartHolds' /\ LaunchIsStart'
    BY <1>0, <1>1, <1>2, <1>4, <2>2 DEF VpnInv, CallsInOrder, StartAlone, StoppersOwn,
        RestartHolds, LaunchIsStart, StartStages
  <2>4. ReceiverServes' /\ TunnelServes' /\ SharingServes' /\ OpenWhileStarting' /\ GoneIsDown'
    BY <1>2, <1>4 DEF VpnInv, ReceiverServes, TunnelServes, SharingServes, OpenWhileStarting, GoneIsDown
  <2>5. OpenIsOwned' /\ PastStages' /\ SomeoneUnshares'
    BY <1>2, <1>4, <2>2 DEF VpnInv, OpenIsOwned, PastStages, SomeoneUnshares
  <2> QED
    BY <2>1, <2>3, <2>4, <2>5 DEF VpnInv
<1>5. CASE Set(lock, self, TRUE) /\ ThreadAt(Main, "idle", "setup") /\ Set(whose, Main, self)
  <2>1. /\ vpc'[Main] = "setup" /\ \A u \in Threads : u # Main => vpc'[u] = vpc[u]
        /\ vpc' \in [Threads -> StopStages \cup StartStages \cup {"idle"}]
    BY <1>5, MainIsThread, ThreadMoves DEF StartStages, VpnInv
  <2>2. whose' \in [Threads -> 0..MaxStarts] /\ whose'[Main] = self
    BY <1>5, MainIsThread DEF Set, VpnInv, VpnTypeOK, HostTypeOK
  <2>3. lock' \in [Objects -> BOOLEAN]
    BY <1>5 DEF Set, VpnInv, VpnTypeOK
  <2>4. VpnTypeOK'
    BY <1>2, <1>3, <2>1, <2>2, <2>3 DEF VpnInv, VpnTypeOK, HostTypeOK
  <2>5. Stoppers = {} /\ Stoppers' = {} /\ \A u \in Threads : vpc'[u] \in {"idle", "setup"}
    BY <1>1, <2>1 DEF Stoppers, AllIdle, StopStages
  <2>6. CallsInOrder' /\ StartAlone' /\ StoppersOwn' /\ RestartHolds' /\ LaunchIsStart'
    BY <1>0, <1>1, <1>2, <2>1, <2>2, <2>5 DEF VpnInv, CallsInOrder, StartAlone, StoppersOwn,
        RestartHolds, LaunchIsStart, AllIdle
  <2>7. ReceiverServes' /\ TunnelServes' /\ SharingServes' /\ OpenWhileStarting' /\ GoneIsDown'
    BY <1>0, <1>1, <1>2, <2>1
    DEF VpnInv, ReceiverServes, TunnelServes, SharingServes, OpenWhileStarting, GoneIsDown
  <2>8. OpenIsOwned' /\ PastStages' /\ SomeoneUnshares'
    BY <1>1, <1>2, <2>5 DEF VpnInv, OpenIsOwned, PastStages, SomeoneUnshares, AllIdle
  <2> QED
    BY <2>4, <2>6, <2>7, <2>8 DEF VpnInv
<1> QED
  BY <1>1, <1>4, <1>5 DEF StartCommand

LEMMA SetupVpnKeeps ==
  ASSUME PromptStop, VpnInv, SetupVpn PROVE VpnInv'
<1>0. vpc[Main] = "setup" /\ vpc[Main] \in StartStages
  BY DEF SetupVpn, StartStages
<1>1. /\ calls = <<>> /\ alive = self /\ self \in Objects /\ self # 0 /\ whose[Main] = self /\ stops = 0
      /\ \A t \in Threads : t # Main => vpc[t] = "idle"
  BY <1>0 DEF VpnInv, StartAlone, VpnTypeOK, HostTypeOK, Objects
<1>2. /\ CoreTypeOK' /\ UNCHANGED <<pc, receiver, monitor, stops>>
      /\ UNCHANGED <<whose, up, t2s, tun, forgotten, share>>
  BY CoreStays DEF SetupVpn, VpnInv, VpnTypeOK
<1>3. /\ pc[Main] = "idle" /\ Stoppers = {}
      /\ share # "stopping"
  BY <1>0, <1>1 DEF VpnInv, LaunchIsStart, Stoppers, StopStages, SomeoneUnshares
<1>4. CASE /\ iface[self] # "open"
           /\ ThreadAt(Main, "setup", "idle") /\ Set(lock, self, FALSE) /\ StopSelf(self)
           /\ UNCHANGED <<iface, starts, self, restart>>
  <2>1. /\ vpc'[Main] = "idle" /\ \A u \in Threads : u # Main => vpc'[u] = vpc[u]
        /\ vpc' \in [Threads -> StopStages \cup StartStages \cup {"idle"}]
    BY <1>4, MainIsThread, ThreadMoves DEF VpnInv
  <2>2. alive' = 0 /\ calls' \in Seq(Calls) /\ calls' = <<Call("destroy", self)>>
    BY <1>1, <1>4, StopSelfEnds DEF VpnInv, VpnTypeOK
  <2>3. VpnTypeOK'
    <3>1. lock' \in [Objects -> BOOLEAN]
      BY <1>4 DEF Set, VpnInv, VpnTypeOK
    <3>2. 0 \in 0..MaxStarts
      BY ServiceHostAssumption
    <3> QED
      BY <1>2, <1>4, <2>1, <2>2, <3>1, <3>2 DEF VpnInv, VpnTypeOK, HostTypeOK
  <2>4. AllIdle' /\ Stoppers' = {}
    BY <1>1, <2>1 DEF AllIdle, Stoppers, StopStages
  <2>5. CallsInOrder' /\ StartAlone' /\ StoppersOwn' /\ RestartHolds' /\ LaunchIsStart'
    BY <1>1, <1>2, <1>3, <1>4, <2>1, <2>2, <2>4 DEF VpnInv, CallsInOrder, DestroyPending,
        StartAlone, StoppersOwn, RestartHolds, LaunchIsStart, StartStages, ServicePC, VpnTypeOK, HostTypeOK
  <2>6. ~receiver /\ ~monitor /\ (tun # "up" \/ forgotten) /\ share # "on"
    BY <1>0, <1>4 DEF VpnInv, ReceiverServes, TunnelServes, SharingServes
  <2>7. ReceiverServes' /\ TunnelServes' /\ SharingServes' /\ OpenWhileStarting' /\ GoneIsDown'
    BY <1>2, <1>4, <2>1, <2>6 DEF ReceiverServes, TunnelServes, SharingServes, OpenWhileStarting, GoneIsDown
  <2>8. OpenIsOwned' /\ PastStages' /\ SomeoneUnshares'
    BY <1>2, <1>3, <1>4, <2>4 DEF VpnInv, OpenIsOwned, PastStages, SomeoneUnshares, AllIdle
  <2> QED
    BY <2>3, <2>5, <2>7, <2>8 DEF VpnInv
<1>5. CASE /\ ThreadAt(Main, "setup", "establish") /\ Close(self)
           /\ UNCHANGED <<lock, hostVars>>
  <2>1. /\ vpc'[Main] = "establish" /\ \A u \in Threads : u # Main => vpc'[u] = vpc[u]
        /\ vpc' \in [Threads -> StopStages \cup StartStages \cup {"idle"}]
    BY <1>5, MainIsThread, ThreadMoves DEF VpnInv, StartStages
  <2>2. /\ iface' \in [Objects -> {"none", "open", "closed"}] /\ iface'[self] # "open"
        /\ \A s \in Objects : s # self => iface'[s] = iface[s]
    BY <1>1, <1>5 DEF Close, Set, VpnInv, VpnTypeOK
  <2>3. VpnTypeOK'
    BY <1>2, <1>5, <2>1, <2>2 DEF VpnInv, VpnTypeOK, HostTypeOK, hostVars
  <2>4. Hosted' /\ Stoppers' = {} /\ SomeoneUnshares' /\ PastStages'
    BY <1>0, <1>2, <1>3, <1>5, <2>1, StartGoesOn DEF StartStages, ServicePC
  <2>5. ReceiverServes' /\ TunnelServes' /\ SharingServes' /\ OpenWhileStarting' /\ GoneIsDown'
    BY <1>0, <1>1, <1>2, <1>5, <2>1, <2>2
    DEF VpnInv, ReceiverServes, TunnelServes, SharingServes, OpenWhileStarting, GoneIsDown, hostVars
  <2>6. OpenIsOwned'
    BY <1>1, <1>5, <2>2 DEF VpnInv, OpenIsOwned, hostVars
  <2> QED
    BY <2>3, <2>4, <2>5, <2>6 DEF VpnInv, Hosted
<1> QED
  BY <1>1, <1>4, <1>5 DEF SetupVpn, Set, Close, StopSelf

LEMMA EstablishKeeps ==
  ASSUME VpnInv, Establish PROVE VpnInv'
<1>0. vpc[Main] = "establish" /\ vpc[Main] \in StartStages
  BY DEF Establish, ThreadAt, StartStages
<1>1. /\ CoreTypeOK' /\ UNCHANGED <<pc, receiver, monitor, stops>>
      /\ UNCHANGED <<whose, lock, t2s, tun, forgotten, share, hostVars>>
  BY CoreStays DEF Establish, VpnInv, VpnTypeOK
<1>2. pc[Main] = "idle"
  BY <1>0 DEF VpnInv, LaunchIsStart
<1>3. /\ vpc'[Main] \in {"tun2socks", "flags"} /\ \A u \in Threads : u # Main => vpc'[u] = vpc[u]
      /\ vpc' \in [Threads -> StopStages \cup StartStages \cup {"idle"}]
  BY MainIsThread, ThreadMoves DEF Establish, VpnInv, StartStages, StopStages
<1>4. /\ Hosted' /\ SomeoneUnshares' /\ PastStages' /\ alive = self /\ self \in Objects
      /\ whose[Main] = self
  BY <1>0, <1>1, <1>2, <1>3, StartGoesOn DEF StartStages, ServicePC
<1>5. /\ iface' \in [Objects -> {"none", "open", "closed"}] /\ up' \in [Objects -> BOOLEAN]
      /\ \A s \in Objects : s # self => iface'[s] = iface[s]
      /\ vpc'[Main] = "tun2socks" => iface'[self] = "open"
  <2>1. CASE /\ ThreadAt(Main, "establish", "tun2socks")
             /\ Set(iface, self, "open") /\ Set(up, self, TRUE)
    BY <1>4, <2>1 DEF Set, VpnInv, VpnTypeOK
  <2>2. CASE ThreadAt(Main, "establish", "flags") /\ UNCHANGED <<iface, up>>
    <3>1. vpc'[Main] = "flags"
      BY <2>2, MainIsThread, ThreadMoves DEF VpnInv, StopStages
    <3> QED
      BY <2>2, <3>1 DEF VpnInv, VpnTypeOK
  <2> QED
    BY <1>4, <2>1, <2>2 DEF Establish, Set
<1>6. VpnTypeOK'
  BY <1>1, <1>3, <1>5 DEF VpnInv, VpnTypeOK, HostTypeOK, hostVars
<1>7. ReceiverServes' /\ TunnelServes' /\ SharingServes' /\ OpenWhileStarting' /\ GoneIsDown'
  BY <1>0, <1>1, <1>3, <1>4, <1>5
  DEF VpnInv, ReceiverServes, TunnelServes, SharingServes, OpenWhileStarting, GoneIsDown, hostVars, Objects
<1>8. OpenIsOwned'
  BY <1>1, <1>4, <1>5 DEF VpnInv, OpenIsOwned, hostVars
<1> QED
  BY <1>4, <1>6, <1>7, <1>8 DEF VpnInv, Hosted

LEMMA RunTun2socksKeeps ==
  ASSUME VpnInv, RunTun2socks PROVE VpnInv'
<1>0. vpc[Main] = "tun2socks" /\ vpc[Main] \in StartStages
  BY DEF RunTun2socks, ThreadAt, StartStages
<1>1. /\ CoreTypeOK' /\ UNCHANGED <<pc, receiver, monitor, stops>>
      /\ UNCHANGED <<whose, lock, up, iface, share, hostVars>>
  BY CoreStays DEF RunTun2socks, VpnInv, VpnTypeOK
<1>2. pc[Main] = "idle"
  BY <1>0 DEF VpnInv, LaunchIsStart
<1>3. /\ vpc'[Main] \in {"tun2socks", "startLoop"} /\ \A u \in Threads : u # Main => vpc'[u] = vpc[u]
      /\ vpc' \in [Threads -> StopStages \cup StartStages \cup {"idle"}]
  BY <1>0, MainIsThread, ThreadMoves DEF RunTun2socks, VpnInv, VpnTypeOK, StartStages
<1>4. /\ Hosted' /\ SomeoneUnshares' /\ PastStages' /\ alive = self /\ self \in Objects
      /\ whose[Main] = self /\ Stoppers = {} /\ Stoppers' = {}
  BY <1>0, <1>1, <1>2, <1>3, StartGoesOn DEF StartStages, ServicePC
<1>5. /\ t2s' \in [Objects -> BOOLEAN] /\ tun' \in {"off", "up", "over"}
      /\ forgotten' \in BOOLEAN
      /\ tun' = "up" /\ ~forgotten' => t2s'[self]
  BY <1>4 DEF RunTun2socks, Set, VpnInv, VpnTypeOK, Tunnel!ReapTun, Tunnel!StartTun, TunnelServes
<1>6. VpnTypeOK'
  BY <1>1, <1>3, <1>5 DEF VpnInv, VpnTypeOK, HostTypeOK, hostVars
<1>7. iface[self] = "open"
  BY <1>0 DEF VpnInv, OpenWhileStarting
<1>8. ReceiverServes' /\ TunnelServes' /\ SharingServes' /\ OpenWhileStarting' /\ GoneIsDown' /\ OpenIsOwned'
  BY <1>1, <1>3, <1>4, <1>5, <1>7
  DEF VpnInv, ReceiverServes, TunnelServes, SharingServes, OpenWhileStarting, GoneIsDown, OpenIsOwned, hostVars, Objects
<1> QED
  BY <1>4, <1>6, <1>8 DEF VpnInv, Hosted

LEMMA StartServiceKeeps ==
  ASSUME VpnInv, StartService PROVE VpnInv'
<1>0. vpc[Main] = "startLoop" /\ vpc[Main] \in StartStages
  BY DEF StartService, ThreadAt, StartStages
<1>1. UNCHANGED <<whose, objVars, tun, forgotten, share, hostVars, monitor, stops>>
  BY DEF StartService, StartCoreLoop, coreVars, monitorVars
<1>2. pc[Main] = "idle"
  BY <1>0 DEF VpnInv, LaunchIsStart
<1>3. /\ vpc'[Main] \in {"starting", "flags"} /\ \A u \in Threads : u # Main => vpc'[u] = vpc[u]
      /\ vpc' \in [Threads -> StopStages \cup StartStages \cup {"idle"}]
  BY MainIsThread, ThreadMoves DEF StartService, VpnInv, StartStages, StopStages
<1>4. /\ CoreTypeOK' /\ pc'[Main] \in {"idle", "build"}
      /\ pc'[Main] = "idle" <=> vpc'[Main] # "starting"
  <2>1. CASE ThreadAt(Main, "startLoop", "flags") /\ UNCHANGED <<coreVars, monitorVars>>
    <3>1. vpc'[Main] = "flags" /\ pc' = pc
      BY <2>1, MainIsThread, ThreadMoves DEF VpnInv, StopStages, coreVars
    <3> QED
      BY <1>2, <2>1, <3>1 DEF StartService, VpnInv, VpnTypeOK, HostTypeOK, CoreTypeOK, FlagsOK, PcOK, DataOK,
          coreVars, monitorVars, netVars
  <2>2. CASE ThreadAt(Main, "startLoop", "starting") /\ StartCoreLoop
    <3>1. vpc'[Main] = "starting"
      BY <2>2, MainIsThread, ThreadMoves DEF VpnInv, StartStages
    <3>2. CoreTypeOK'
      BY <2>2, StartKeepsTypes DEF StartService, VpnInv, VpnTypeOK, HostTypeOK
    <3>3. pc'[Main] = "build"
      BY <2>2, MainIsThread DEF StartCoreLoop, Goto, VpnInv, VpnTypeOK, HostTypeOK, CoreTypeOK, PcOK
    <3> QED
      BY <3>1, <3>2, <3>3
  <2> QED
    BY <2>1, <2>2 DEF StartService
<1>5. /\ Hosted' /\ SomeoneUnshares' /\ PastStages' /\ alive = self /\ self \in Objects
      /\ whose[Main] = self
  BY <1>0, <1>1, <1>3, <1>4, StartGoesOn DEF StartStages, ServicePC
<1>6. VpnTypeOK'
  BY <1>1, <1>3, <1>4 DEF VpnInv, VpnTypeOK, HostTypeOK, hostVars, objVars
<1>7. iface[self] = "open"
  BY <1>0 DEF VpnInv, OpenWhileStarting
<1>8. ReceiverServes' /\ TunnelServes' /\ SharingServes' /\ OpenWhileStarting' /\ GoneIsDown' /\ OpenIsOwned'
  BY <1>1, <1>3, <1>5, <1>7
  DEF VpnInv, ReceiverServes, TunnelServes, SharingServes, OpenWhileStarting, GoneIsDown, OpenIsOwned,
      hostVars, objVars, Objects
<1> QED
  BY <1>5, <1>6, <1>8 DEF VpnInv, Hosted

LEMMA StartServiceReturnedKeeps ==
  ASSUME VpnInv, StartServiceReturned PROVE VpnInv'
<1>0. vpc[Main] = "starting" /\ vpc[Main] \in StartStages
  BY DEF StartServiceReturned, ThreadAt, StartStages
<1>1. /\ UNCHANGED <<running, builtOn, stops, reloading, cfg, receiver, ui, monitorVars,
                     netVars, hostVars, whose, objVars, tun, forgotten>>
      /\ pc' = [pc EXCEPT ![Main] = "idle"]
  BY DEF StartServiceReturned
<1>2. CoreTypeOK' /\ pc'[Main] = "idle"
  <2>1. PcOK' /\ pc'[Main] = "idle"
    BY <1>1, MainIsThread, GotoKeepsPc
    DEF VpnInv, VpnTypeOK, HostTypeOK, CoreTypeOK, PcOK, MainPC
  <2> QED
    BY <1>1, <2>1 DEF VpnInv, VpnTypeOK, HostTypeOK, CoreTypeOK, FlagsOK, DataOK, monitorVars, netVars
<1>3. /\ vpc'[Main] \in {"idle", "flags"} /\ \A u \in Threads : u # Main => vpc'[u] = vpc[u]
      /\ vpc' \in [Threads -> StopStages \cup StartStages \cup {"idle"}]
  BY MainIsThread, ThreadMoves DEF StartServiceReturned, VpnInv, StopStages
<1>4. share' \in {share, "on"}
  BY DEF StartServiceReturned
<1>5. /\ Hosted' /\ SomeoneUnshares' /\ PastStages' /\ alive = self /\ self \in Objects
      /\ whose[Main] = self
  BY <1>0, <1>1, <1>2, <1>3, <1>4, StartGoesOn DEF ServicePC
<1>6. VpnTypeOK'
  BY <1>1, <1>2, <1>3, <1>4 DEF VpnInv, VpnTypeOK, HostTypeOK, hostVars, objVars
<1>7. iface[self] = "open"
  BY <1>0 DEF VpnInv, OpenWhileStarting
<1>8. ReceiverServes' /\ TunnelServes' /\ SharingServes' /\ OpenWhileStarting' /\ GoneIsDown' /\ OpenIsOwned'
  BY <1>1, <1>3, <1>5, <1>7
  DEF VpnInv, ReceiverServes, TunnelServes, SharingServes, OpenWhileStarting, GoneIsDown, OpenIsOwned,
      hostVars, objVars, monitorVars, Objects
<1> QED
  BY <1>5, <1>6, <1>8 DEF VpnInv, Hosted

\* startCoreLoop goes on: not before it was entered, and it does not return
LEMMA StartStepGoesOn ==
  ASSUME CoreTypeOK, StartStep
  PROVE  /\ pc[Main] # "idle" /\ pc'[Main] \notin {"idle"} \cup ServicePC
         /\ UNCHANGED <<receiver, stops, hostVars>>
<1>1. CASE Launch(Main)
  BY <1>1, MainIsThread DEF StartStep, Launch, BuildConfig, StartLoop, FinishLaunch, LaunchFails,
      CoreTypeOK, PcOK, ServicePC
<1>2. CASE StartMonitor
  BY <1>2, MainIsThread DEF StartStep, StartMonitor, Goto, CoreTypeOK, PcOK, ServicePC
<1> QED
  BY <1>1, <1>2 DEF StartStep

LEMMA StartStepKeeps ==
  ASSUME VpnInv, StartStep, UNCHANGED vpnVars PROVE VpnInv'
<1>1. /\ pc[Main] # "idle" /\ pc'[Main] \notin {"idle"} \cup ServicePC
      /\ UNCHANGED <<receiver, stops, hostVars>>
  BY StartStepGoesOn DEF VpnInv, VpnTypeOK, HostTypeOK
<1>2. HostTypeOK'
  BY VpnInvHost, StartKeepsInv DEF HostInv
<1>3. UNCHANGED <<vpc, whose, lock, up, iface, t2s, tun, forgotten, share>>
  BY DEF vpnVars, objVars
<1>4. vpc[Main] = "starting" /\ vpc[Main] \in StartStages
  BY <1>1 DEF VpnInv, LaunchIsStart, StartStages
<1>5. /\ Hosted' /\ SomeoneUnshares' /\ PastStages' /\ alive = self /\ self \in Objects
  BY <1>1, <1>3, <1>4, StartGoesOn
<1>6. VpnTypeOK'
  BY <1>2, <1>3 DEF VpnInv, VpnTypeOK
<1>7. iface[self] = "open"
  BY <1>4 DEF VpnInv, OpenWhileStarting
<1>8. ReceiverServes' /\ TunnelServes' /\ SharingServes' /\ OpenWhileStarting' /\ GoneIsDown' /\ OpenIsOwned'
  BY <1>1, <1>3, <1>5, <1>7
  DEF VpnInv, ReceiverServes, TunnelServes, SharingServes, OpenWhileStarting, GoneIsDown, OpenIsOwned,
      hostVars, Objects
<1> QED
  BY <1>5, <1>6, <1>8 DEF VpnInv, Hosted

LEMMA VpnDestroyKeeps ==
  ASSUME VpnInv, VpnOnDestroy PROVE VpnInv'
<1>0. Take("destroy") /\ vpc[Main] = "idle" /\ pc[Main] = "idle"
  BY DEF VpnOnDestroy, Free, MainIdle
<1>1. /\ calls' = <<>> /\ Head(calls).of = self
      /\ alive = 0 /\ self \in Objects /\ self # 0
  BY <1>0, NextCall DEF Objects
<1>2. /\ UNCHANGED <<alive, starts, self, restart, vpc, whose, up, t2s, tun, forgotten, share>>
      /\ UNCHANGED <<running, builtOn, stops, reloading, pc, cfg, ui, monitorVars, netVars>>
      /\ receiver' = FALSE
  BY DEF VpnOnDestroy
\* the record went in stopAllService, or before there was an interface
<1>3. iface' = iface \/ (iface[self] # "open" /\ iface' = [iface EXCEPT ![self] = IF iface[self] = "none" THEN "none" ELSE "closed"])
  BY <1>1 DEF VpnOnDestroy, Close, Set, VpnInv, GoneIsDown
<1>4. /\ iface' \in [Objects -> {"none", "open", "closed"}]
      /\ \A s \in Objects : iface'[s] = "open" <=> iface[s] = "open"
  BY <1>1, <1>3 DEF VpnInv, VpnTypeOK
<1>5. /\ lock' \in [Objects -> BOOLEAN] /\ ~lock'[self]
      /\ \A s \in Objects : s # self => lock'[s] = lock[s]
  BY <1>1 DEF VpnOnDestroy, Set, VpnInv, VpnTypeOK
<1>6. VpnTypeOK'
  <2>1. CoreTypeOK'
    BY <1>2 DEF VpnInv, VpnTypeOK, HostTypeOK, CoreTypeOK, FlagsOK, PcOK, DataOK, monitorVars, netVars
  <2>2. calls' \in Seq(Calls)
    BY <1>1
  <2> QED
    BY <1>2, <1>4, <1>5, <2>1, <2>2 DEF VpnInv, VpnTypeOK, HostTypeOK
<1>7. Stoppers' = Stoppers
  BY <1>2 DEF Stoppers
<1>8. CallsInOrder' /\ StartAlone' /\ StoppersOwn' /\ RestartHolds' /\ LaunchIsStart'
  BY <1>0, <1>1, <1>2, <1>7 DEF VpnInv, CallsInOrder, StartAlone, StoppersOwn,
      RestartHolds, LaunchIsStart, StartStages
<1>9. ~monitor
  BY <1>1 DEF VpnInv, ReceiverServes
<1>10. ReceiverServes' /\ TunnelServes' /\ SharingServes' /\ OpenWhileStarting' /\ GoneIsDown'
  BY <1>0, <1>1, <1>2, <1>4, <1>9
  DEF VpnInv, ReceiverServes, TunnelServes, SharingServes, OpenWhileStarting, GoneIsDown, monitorVars
<1>11. OpenIsOwned' /\ PastStages' /\ SomeoneUnshares'
  BY <1>1, <1>2, <1>4, <1>5, <1>7, <1>9 DEF VpnInv, OpenIsOwned, PastStages, SomeoneUnshares, monitorVars
<1> QED
  BY <1>6, <1>8, <1>10, <1>11 DEF VpnInv

-----------------------------------------------------------------------------
(* Everything else *)

\* the tunnel ends by itself, and whatever the other threads and the network do
LEMMA OthersKeep ==
  ASSUME VpnInv, UNCHANGED <<vpc, whose, objVars, forgotten, share, hostVars, MainOwned>>,
         CoreTypeOK', stops = 0 => stops' = 0,
         tun' \in {tun, "off", "over"}
  PROVE  VpnInv'
<1>1. VpnTypeOK'
  BY DEF VpnInv, VpnTypeOK, HostTypeOK, hostVars, objVars
<1>2. Stoppers' = Stoppers /\ AllIdle' = AllIdle
  BY DEF Stoppers, AllIdle
<1>3. CallsInOrder' /\ StartAlone' /\ StoppersOwn' /\ RestartHolds' /\ LaunchIsStart'
  BY <1>2 DEF VpnInv, CallsInOrder, StartPending, DestroyPending, StartAlone, StoppersOwn,
      RestartHolds, LaunchIsStart, hostVars, MainOwned
<1>4. ReceiverServes' /\ TunnelServes' /\ SharingServes' /\ OpenWhileStarting' /\ GoneIsDown'
  BY DEF VpnInv, ReceiverServes, TunnelServes, SharingServes, OpenWhileStarting, GoneIsDown,
      hostVars, objVars, MainOwned
<1>5. OpenIsOwned' /\ PastStages' /\ SomeoneUnshares'
  BY <1>2 DEF VpnInv, OpenIsOwned, PastStages, SomeoneUnshares, hostVars, objVars, MainOwned
<1> QED
  BY <1>1, <1>3, <1>4, <1>5 DEF VpnInv

\* only the service launches a stop
LEMMA BackgroundStops ==
  ASSUME CoreTypeOK, Background \/ NetworkStep
  PROVE  stops' <= stops /\ (stops = 0 => stops' = 0)
<1>0. stops \in Nat
  BY DEF CoreTypeOK, DataOK
<1>1. CASE StopStep
  BY <1>0, <1>1 DEF StopStep, StopLoop
<1>2. CASE MonitorStep
  <2>1. CASE OnAvailable
    BY <1>0, <2>1 DEF OnAvailable, coreVars
  <2>2. CASE ScheduleHandover
    <3>1. UNCHANGED stops
      BY <2>2 DEF ScheduleHandover
    <3> QED
      BY <1>0, <3>1
  <2> QED
    BY <1>2, <2>1, <2>2 DEF MonitorStep
<1>3. ASSUME NEW j \in Jobs, JobStep(j) PROVE stops' = stops
  BY <1>3 DEF JobStep, Debounced, EnterReload, ReloadStop, Launch, BuildConfig, StartLoop, FinishLaunch
<1>4. CASE NetworkStep
  BY <1>0, <1>4 DEF NetworkStep, NetworkChange, coreVars
<1> QED
  BY <1>0, <1>1, <1>2, <1>3, <1>4 DEF Background

LEMMA VpnBackgroundKeeps ==
  ASSUME VpnInv, Background \/ NetworkStep, UNCHANGED vpnVars PROVE VpnInv'
<1>1. UNCHANGED hostVars
  BY DEF Background, NetworkStep, StopStep, MonitorStep, JobStep
<1>2. CoreTypeOK' /\ UNCHANGED MainOwned
  BY BackgroundMainOwned DEF VpnInv, VpnTypeOK, HostTypeOK
<1>3. stops = 0 => stops' = 0
  BY BackgroundStops DEF VpnInv, VpnTypeOK, HostTypeOK
<1> QED
  BY <1>1, <1>2, <1>3, OthersKeep DEF vpnVars

LEMMA TunnelEndsKeeps ==
  ASSUME VpnInv, TunnelEnds PROVE VpnInv'
<1>1. CoreTypeOK' /\ UNCHANGED <<pc, receiver, monitor, stops>>
  BY CoreStays DEF TunnelEnds, VpnInv, VpnTypeOK
<1>2. UNCHANGED MainOwned
  BY <1>1 DEF MainOwned
<1> QED
  BY <1>1, <1>2, OthersKeep DEF TunnelEnds, Tunnel!EndTun

LEMMA VpnStutters ==
  ASSUME VpnInv, UNCHANGED vpnServiceVars PROVE VpnInv'
<1>1. CoreTypeOK' /\ UNCHANGED MainOwned
  BY DEF VpnInv, VpnTypeOK, HostTypeOK, CoreTypeOK, FlagsOK, PcOK, DataOK,
      vpnServiceVars, coreVars, monitorVars, netVars, MainOwned
<1> QED
  BY <1>1, OthersKeep DEF vpnServiceVars, vpnVars, coreVars

\* every step of the service keeps the invariant
LEMMA VpnStepKeepsInv ==
  ASSUME PromptStop, VpnInv, VpnNext PROVE VpnInv'
<1>1. CASE VpnUsers
  BY <1>1, StopsBegun, RequestsKeep DEF VpnUsers
<1>2. CASE Others
  <2>1. "restart" \in Threads /\ "revoke" \in Threads
    BY DEF Threads
  <2> QED
    BY <1>2, <2>1, StopsBegun, RequestsKeep, StopAllKeeps DEF Others
<1>3. CASE VpnMain
  <2>1. CASE StartVpn
    BY <2>1, StartCommandKeeps, SetupVpnKeeps, EstablishKeeps, RunTun2socksKeeps, StartServiceKeeps,
       StartServiceReturnedKeeps, StartStepKeeps DEF StartVpn
  <2> QED
    BY <1>3, <2>1, MainIsThread, CreateKeeps, StopAllKeeps, VpnDestroyKeeps DEF VpnMain
<1>4. CASE TunnelEnds
  BY <1>4, TunnelEndsKeeps
<1>5. CASE (Background \/ NetworkStep) /\ UNCHANGED vpnVars
  BY <1>5, VpnBackgroundKeeps
<1> QED
  BY <1>1, <1>2, <1>3, <1>4, <1>5 DEF VpnNext

\* The service has its types, and the three threads of stopAllService leave each
\* other what they rely on.
THEOREM VpnInvariance == PromptStop => (VpnSpec => []VpnInv)
<1> SUFFICES ASSUME PromptStop PROVE VpnSpec => []VpnInv
  OBVIOUS
<1>1. VpnInv /\ [VpnNext]_vpnServiceVars => VpnInv'
  BY VpnStepKeepsInv, VpnStutters
<1> QED
  BY <1>1, VpnInitInv, PTL DEF VpnSpec

\* HostInv holds in the VPN mode too: nothing registered survives the last service.
THEOREM VpnHostInvariance == PromptStop => (VpnSpec => []HostInv)
<1> SUFFICES ASSUME PromptStop PROVE VpnSpec => []HostInv
  OBVIOUS
<1> QED
  BY VpnInvariance, VpnInvHost, PTL

-----------------------------------------------------------------------------
(* The order in which interface, tunnel, rules and core go *)

\* a thread closes the interface after it has stopped the tunnel, or a start
\* replaces it
LEMMA CloseIsLate ==
  ASSUME VpnInv, VpnNext, NEW s \in Objects, iface[s] = "open", iface'[s] # "open"
  PROVE  tun # "up" \/ forgotten \/ vpc[Main] = "setup"
<1>1. CASE VpnUsers
  BY <1>1 DEF VpnUsers, VpnUserStart, VpnUserStop, VpnUserRestart, OnRevoke, BeginStop, vpnVars, objVars
<1>2. ASSUME NEW t \in Threads, StopAllService(t)
      PROVE  tun # "up" \/ forgotten \/ vpc[Main] = "setup"
  <2>1. CASE StopClose(t)
    <3>1. t \in Stoppers /\ vpc[t] = "close"
      BY <2>1 DEF StopClose, ThreadAt, Stoppers, StopStages
    <3> QED
      BY <3>1 DEF VpnInv, PastStages
  <2>2. CASE UNCHANGED iface
    BY <2>2
  <2> QED
    BY <1>2, <2>1, <2>2 DEF StopAllService, StopFlags, StopTunnel, StopSharing, StopCore,
        StopService, objVars
<1>3. CASE Others
  <2>1. "restart" \in Threads /\ "revoke" \in Threads
    BY DEF Threads
  <2> QED
    BY <1>2, <1>3, <2>1 DEF Others, VpnRestartStop, VpnRestartStart, BeginStop, vpnVars, objVars
<1>4. CASE VpnMain
  <2>1. CASE StartVpn
    <3>1. CASE Establish
      <4>1. iface' = iface \/ iface' = [iface EXCEPT ![whose[Main]] = "open"]
        BY <3>1 DEF Establish, Set
      <4> QED
        BY <4>1 DEF VpnInv, VpnTypeOK
    <3> QED
      BY <2>1, <3>1 DEF StartVpn, StartCommand, SetupVpn, RunTun2socks, StartService,
          StartServiceReturned, vpnVars, objVars
  <2>2. CASE VpnOnDestroy
    <3>1. Head(calls).of = self /\ alive = 0 /\ self \in Objects /\ self # 0
      BY <2>2, NextCall DEF VpnOnDestroy, Objects
    <3>2. iface' = iface \/ (iface[self] # "open" /\ iface' = [iface EXCEPT ![self] = IF iface[self] = "none" THEN "none" ELSE "closed"])
      BY <2>2, <3>1 DEF VpnOnDestroy, Close, Set, VpnInv, GoneIsDown
    <3> QED
      BY <3>1, <3>2 DEF VpnInv, VpnTypeOK
  <2> QED
    BY <1>2, <1>4, <2>1, <2>2, MainIsThread DEF VpnMain, vpnVars, objVars
<1> QED
  BY <1>1, <1>3, <1>4 DEF VpnNext, TunnelEnds, vpnVars, objVars

\* only stopCoreLoop launches a stop, in the VPN mode on the thread that stops
\* everything; it finds no sharing, or another thread at it
LEMMA CoreIsLate ==
  ASSUME VpnInv, VpnNext, stops' > stops
  PROVE  share = "off" \/ \E t, u \in Stoppers : t # u
<1>0. stops \in Nat
  BY DEF VpnInv, VpnTypeOK, HostTypeOK, CoreTypeOK, DataOK
<1>1. ASSUME UNCHANGED stops PROVE FALSE
  BY <1>0, <1>1
<1>2. ASSUME NEW t \in Threads, StopAllService(t)
      PROVE  share = "off" \/ \E v, u \in Stoppers : v # u
  <2>1. CASE StopCore(t)
    <3>1. t \in Stoppers /\ vpc[t] = "core"
      BY <2>1 DEF StopCore, ThreadAt, Stoppers, StopStages
    <3>2. share # "on"
      BY <3>1 DEF VpnInv, PastStages
    <3>3. ASSUME share = "stopping" PROVE \E u \in Stoppers : t # u
      <4>1. PICK u \in Threads : vpc[u] = "unshare"
        BY <3>3 DEF VpnInv, SomeoneUnshares
      <4> QED
        BY <3>1, <4>1 DEF Stoppers, StopStages
    <3> QED
      BY <3>1, <3>2, <3>3 DEF VpnInv, VpnTypeOK
  <2>2. CASE coreStays
    BY <1>1, <2>2 DEF coreStays, coreVars
  <2> QED
    BY <1>2, <2>1, <2>2 DEF StopAllService, StopFlags, StopTunnel, StopSharing, StopService, StopClose
<1>3. CASE VpnUsers
  <2>1. UNCHANGED stops
    BY <1>3 DEF VpnUsers, VpnUserStart, VpnUserStop, VpnUserRestart, OnRevoke, BeginStop, coreStays,
        UserStart, UserRestart, coreVars
  <2> QED
    BY <1>1, <2>1
<1>4. CASE Others
  <2>1. "restart" \in Threads /\ "revoke" \in Threads
    BY DEF Threads
  <2>2. CASE VpnRestartStop \/ VpnRestartStart
    <3>1. UNCHANGED stops
      BY <2>2 DEF VpnRestartStop, VpnRestartStart, BeginStop, RestartStart, coreStays, coreVars
    <3> QED
      BY <1>1, <3>1
  <2> QED
    BY <1>2, <1>4, <2>1, <2>2 DEF Others
<1>5. CASE VpnMain
  <2>1. CASE StartVpn
    <3>1. CASE StartStep
      BY <1>1, <3>1, StartStepGoesOn DEF VpnInv, VpnTypeOK, HostTypeOK
    <3>2. CASE StartCommand \/ SetupVpn \/ Establish \/ RunTun2socks
      BY <1>1, <3>2 DEF StartCommand, SetupVpn, Establish, RunTun2socks, coreStays, coreVars
    <3>3. CASE StartService \/ StartServiceReturned
      BY <1>1, <3>3 DEF StartService, StartServiceReturned, StartCoreLoop, coreVars
    <3> QED
      BY <2>1, <3>1, <3>2, <3>3 DEF StartVpn
  <2>2. CASE OnCreate \/ VpnOnDestroy
    BY <1>1, <2>2 DEF OnCreate, VpnOnDestroy, coreVars
  <2> QED
    BY <1>2, <1>5, <2>1, <2>2, MainIsThread DEF VpnMain
<1>6. CASE TunnelEnds
  BY <1>1, <1>6 DEF TunnelEnds, coreStays, coreVars
<1>7. CASE Background \/ NetworkStep
  <2>1. stops' <= stops /\ stops' \in Nat
    BY <1>7, BackgroundStops, BackgroundMainOwned DEF VpnInv, VpnTypeOK, HostTypeOK, CoreTypeOK, DataOK
  <2> QED
    BY <1>0, <2>1
<1> QED
  BY <1>3, <1>4, <1>5, <1>6, <1>7 DEF VpnNext

-----------------------------------------------------------------------------
(* Start lock and core, as long as the network stays; and the one start *)

\* As long as the network stays: who registered the receiver has a core or is
\* at work, a service at rest has it, and a start lock that is taken belongs to
\* the service that is up or comes up.
CalmVpn == changes = 0 =>
  /\ receiver => running \/ vpc[Main] \in {"starting", "flags", "tunnel", "sharing", "clear", "unshare", "core"}
  /\ AllIdle /\ alive = self /\ self # 0 /\ calls = <<>> => receiver
  /\ \A s \in Objects : lock[s] =>
       /\ s = self /\ alive = self
       /\ vpc[Main] \in StartStages \/ receiver \/ \E t \in Threads : vpc[t] = "flags"

\* the one start is alone until it enters startCoreLoop
NothingBeforeStart ==
  starts <= 1 /\ vpc[Main] \in StartStages \ {"starting"} => NothingYet

VpnKept == CalmCore /\ OneStart /\ CalmVpn /\ NothingBeforeStart

\* what a step of the service does to the manager and to the queue
LEMMA VpnStepsAreManagerSteps ==
  ASSUME PromptStop, VpnInv, VpnNext
  PROVE  ManagerStep /\ QueueStep
<1>0. self \in 0..MaxStarts /\ restart \in Restarts /\ CoreTypeOK /\ HostTypeOK
  BY DEF VpnInv, VpnTypeOK, HostTypeOK
<1> USE DEF ManagerStep, MainStep, QueueStep
<1>1. CASE coreStays /\ (QueueRests \/ QueueGrows)
  BY <1>1 DEF coreStays
<1>2. CASE VpnUserStop \/ OnRevoke \/ VpnRestartStop
  BY <1>1, <1>2 DEF VpnUserStop, OnRevoke, VpnRestartStop, BeginStop, QueueRests, hostVars
<1>3. CASE VpnUserStart \/ VpnUserRestart \/ VpnRestartStart
  <2>1. Users \/ Restarter
    BY <1>3 DEF VpnUserStart, VpnUserRestart, VpnRestartStart, Users, Restarter
  <2> QED
    BY <1>0, <2>1, UsersAreQueueSteps
<1>4. ASSUME NEW t \in Threads, StopAllService(t) PROVE ManagerStep /\ QueueStep
  <2>0. t \in Stoppers
    BY <1>4 DEF StopAllService, StopFlags, StopTunnel, StopSharing, StopCore, StopService, StopClose,
        ThreadAt, Stoppers, StopStages
  <2>1. CASE StopFlags(t) \/ StopTunnel(t) \/ StopSharing(t) \/ StopClose(t)
    BY <1>1, <2>1 DEF StopFlags, StopTunnel, StopSharing, StopClose, QueueRests, hostVars
  <2>2. CASE StopCore(t)
    <3>1. pc[Main] = "idle" /\ t \in {Main, "restart", "revoke"}
      BY <2>0, StopperFacts DEF Threads
    <3>2. StopsCore
      BY <2>2, <3>1 DEF StopCore, StopsCore, MainIdle
    <3> QED
      BY <2>2, <3>2 DEF StopCore, QueueRests, hostVars
  <2>3. CASE StopService(t)
    <3>1. whose[t] \in 0..MaxStarts
      BY DEF VpnInv, VpnTypeOK
    <3> QED
      BY <1>1, <2>3, <3>1 DEF StopService, QueueGrows
  <2> QED
    BY <1>4, <2>1, <2>2, <2>3 DEF StopAllService
<1>5. CASE Free /\ OnCreate /\ UNCHANGED vpnVars
  BY <1>5 DEF OnCreate, Takes
<1>6. CASE StartCommand
  BY <1>6 DEF StartCommand, coreStays, Takes
<1>7. CASE SetupVpn
  <2>1. whose[Main] \in 0..MaxStarts
    BY MainIsThread DEF VpnInv, VpnTypeOK
  <2> QED
    BY <1>1, <1>7, <2>1 DEF SetupVpn, QueueRests, QueueGrows, hostVars
<1>8. CASE Establish \/ RunTun2socks \/ TunnelEnds
  BY <1>1, <1>8 DEF Establish, RunTun2socks, TunnelEnds, QueueRests, hostVars
<1>9. CASE StartService
  <2>1. stops = 0
    BY <1>9 DEF StartService, ThreadAt, VpnInv, StartAlone, StartStages
  <2> QED
    BY <1>9, <2>1 DEF StartService, QueueRests, hostVars
<1>10. CASE StartServiceReturned
  BY <1>10 DEF StartServiceReturned, Returns, QueueRests, hostVars
<1>11. CASE StartStep /\ UNCHANGED vpnVars
  BY <1>11 DEF StartStep, QueueRests, hostVars
<1>12. CASE VpnOnDestroy
  <2>1. alive = 0 /\ self \in Objects
    BY <1>12, NextCall DEF VpnOnDestroy
  <2>2. receiver = FALSE
    BY <1>0, <2>1 DEF VpnInv, ReceiverServes, Objects, CoreTypeOK, FlagsOK
  <2> QED
    BY <1>12, <2>2 DEF VpnOnDestroy, Takes, coreVars
<1>13. CASE Background \/ NetworkStep
  <2>1. UNCHANGED hostVars
    BY <1>13 DEF Background, NetworkStep, StopStep, MonitorStep, JobStep
  <2> QED
    BY <1>13, <2>1, BackgroundIsManager DEF QueueRests, hostVars
<1> QED
  BY <1>2, <1>3, <1>4, <1>5, <1>6, <1>7, <1>8, <1>9, <1>10, <1>11, <1>12, <1>13, MainIsThread
  DEF VpnNext, VpnUsers, Others, VpnMain, StartVpn, Threads

\* nobody enters startCoreLoop but through StartService
LEMMA OnlyStartServiceStarts ==
  ASSUME PromptStop, VpnInv, VpnNext, StartCoreLoop PROVE StartService
<1>1. pc[Main] = "idle" /\ pc'[Main] = "build"
  BY MainIsThread DEF StartCoreLoop, Goto, VpnInv, VpnTypeOK, HostTypeOK, CoreTypeOK, PcOK
<1>2. CoreTypeOK /\ ~UNCHANGED pc
  BY <1>1 DEF VpnInv, VpnTypeOK, HostTypeOK
<1>3. ~coreStays
  BY <1>1 DEF coreStays, coreVars
<1>4. ~VpnUsers
  BY <1>3 DEF VpnUsers, VpnUserStart, VpnUserStop, VpnUserRestart, OnRevoke, BeginStop, UserStart, UserRestart, coreStays
<1>5. \A t \in Threads : ~StopAllService(t)
  <2> SUFFICES ASSUME NEW t \in Threads, StopCore(t) PROVE FALSE
    BY <1>3 DEF StopAllService, StopFlags, StopTunnel, StopSharing, StopService, StopClose
  <2>1. pc'[Main] = "idle"
    BY <1>1, MainIsThread DEF StopCore, StopCoreLoopOn, Unregister
  <2> QED
    BY <1>1, <2>1
<1>6. ~VpnRestartStop /\ ~VpnRestartStart
  BY <1>3 DEF VpnRestartStop, VpnRestartStart, BeginStop, RestartStart, coreStays
<1>7. ~StartCommand /\ ~SetupVpn /\ ~Establish /\ ~RunTun2socks /\ ~TunnelEnds
  BY <1>3 DEF StartCommand, SetupVpn, Establish, RunTun2socks, TunnelEnds
<1>8. ~StartServiceReturned /\ ~OnCreate /\ ~VpnOnDestroy
  BY <1>1, <1>2 DEF StartServiceReturned, OnCreate, VpnOnDestroy, coreVars
<1>9. ~StartStep
  BY <1>1, <1>2, StartStepGoesOn
<1>10. ~(Background \/ NetworkStep)
  BY <1>1, <1>2, BackgroundMainOwned DEF MainOwned
<1> QED
  BY <1>4, <1>5, <1>6, <1>7, <1>8, <1>9, <1>10, MainIsThread
  DEF VpnNext, Others, VpnMain, StartVpn, Threads

\* nobody is in onStartCommand but through StartCommand
LEMMA OnlyStartCommandBegins ==
  ASSUME PromptStop, VpnInv, VpnNext, vpc'[Main] \in StartStages, vpc[Main] \notin StartStages
  PROVE  Takes("start") /\ vpc'[Main] = "setup"
<1> USE MainIsThread
<1>0. vpc'[Main] # vpc[Main] /\ VpnTypeOK
  BY DEF VpnInv
<1>1. ASSUME NEW t \in Threads, NEW from, NEW to \in StopStages \cup {"idle"}, ThreadAt(t, from, to) PROVE FALSE
  <2>1. vpc'[t] = to /\ \A u \in Threads : u # t => vpc'[u] = vpc[u]
    BY <1>0, <1>1, ThreadMoves
  <2> QED
    BY <1>0, <2>1 DEF StopStages, StartStages
<1>2. ASSUME NEW t \in Threads, StopAllService(t) PROVE FALSE
  BY <1>1, <1>2 DEF StopAllService, StopFlags, StopTunnel, StopSharing, StopCore, StopService, StopClose, StopStages
<1>3. ~VpnUserStop /\ ~OnRevoke /\ ~VpnRestartStop
  BY <1>1 DEF VpnUserStop, OnRevoke, VpnRestartStop, BeginStop, StopStages, Threads
<1>4. ~UNCHANGED vpnVars
  BY <1>0 DEF vpnVars
<1>5. ~VpnUserStart /\ ~VpnUserRestart /\ ~VpnRestartStart
  BY <1>4 DEF VpnUserStart, VpnUserRestart, VpnRestartStart
<1>6. ~SetupVpn /\ ~Establish /\ ~RunTun2socks /\ ~StartService /\ ~StartServiceReturned
  BY <1>0 DEF SetupVpn, Establish, RunTun2socks, StartService, StartServiceReturned, ThreadAt, StartStages
<1>7. ~VpnOnDestroy /\ ~TunnelEnds
  BY <1>0 DEF VpnOnDestroy, TunnelEnds
<1>8. StartCommand
  BY <1>2, <1>3, <1>4, <1>5, <1>6, <1>7 DEF VpnNext, VpnUsers, Others, VpnMain, StartVpn, Threads
<1>9. ThreadAt(Main, "idle", "setup")
  BY <1>0, <1>8 DEF StartCommand
<1>10. vpc'[Main] = "setup"
  BY <1>0, <1>9 DEF ThreadAt, VpnTypeOK
<1> QED
  BY <1>8, <1>10 DEF StartCommand, Takes

\* startCoreLoop, once it is under way, ends in a return
LEMMA StartingEnds ==
  ASSUME VpnInv, VpnNext, vpc[Main] = "starting"
  PROVE  vpc'[Main] \in {"starting", "flags", "idle"}
<1> USE MainIsThread
<1>0. VpnTypeOK /\ pc[Main] # "idle" /\ calls = <<>>
  BY DEF VpnInv, LaunchIsStart, StartAlone, StartStages
<1>1. ASSUME NEW t \in Threads, t # Main, NEW from, NEW to \in StopStages \cup {"idle"}, ThreadAt(t, from, to)
      PROVE  vpc'[Main] = vpc[Main]
  BY <1>0, <1>1, ThreadMoves
<1>2. ASSUME NEW t \in Threads, StopAllService(t) PROVE FALSE
  <2>1. t \in Stoppers
    BY <1>2 DEF StopAllService, StopFlags, StopTunnel, StopSharing, StopCore, StopService, StopClose,
        ThreadAt, Stoppers, StopStages
  <2> QED
    BY <2>1, StopperFacts DEF StartStages
<1>3. CASE StartServiceReturned
  BY <1>0, <1>3 DEF StartServiceReturned, ThreadAt, VpnTypeOK
<1>4. ~SetupVpn /\ ~Establish /\ ~RunTun2socks /\ ~StartService
  BY <1>0 DEF SetupVpn, Establish, RunTun2socks, StartService, ThreadAt
<1>5. ~StartCommand /\ ~VpnOnDestroy /\ ~OnCreate /\ ~VpnUserStop
  BY <1>0 DEF StartCommand, VpnOnDestroy, OnCreate, Take, VpnUserStop, Free, MainIdle
<1>6. CASE UNCHANGED vpc
  BY <1>6
<1>7. CASE OnRevoke \/ VpnRestartStop
  <2>1. "restart" \in Threads /\ "revoke" \in Threads
    BY DEF Threads
  <2>2. PICK t \in {"restart", "revoke"} : ThreadAt(t, "idle", "flags")
    BY <1>7 DEF OnRevoke, VpnRestartStop, BeginStop
  <2>3. CASE t = Main
    BY <2>2, <2>3 DEF ThreadAt
  <2>4. CASE t # Main
    BY <1>1, <2>1, <2>2, <2>4 DEF StopStages
  <2> QED
    BY <2>3, <2>4
<1> QED
  BY <1>2, <1>3, <1>4, <1>5, <1>6, <1>7
  DEF VpnNext, VpnUsers, Others, VpnMain, StartVpn, Threads, VpnUserStart, VpnUserRestart, VpnRestartStart,
      TunnelEnds, vpnVars

LEMMA OneStartInVpn ==
  ASSUME PromptStop, VpnInv, VpnKept, VpnNext
  PROVE  OneStart' /\ NothingBeforeStart'
<1>0. ManagerStep /\ QueueStep /\ HostTypeOK /\ CoreTypeOK /\ OneStart
  BY VpnStepsAreManagerSteps DEF VpnInv, VpnTypeOK, HostTypeOK, VpnKept
<1>1. ASSUME StartCoreLoop, starts <= 1
      PROVE  NothingYet /\ StartCalls' = {} /\ starts' # 0
  <2>1. StartService /\ vpc[Main] = "startLoop"
    BY <1>1, OnlyStartServiceStarts DEF StartService, ThreadAt
  <2>2. calls = <<>> /\ self # 0 /\ self <= starts /\ self \in Nat /\ starts \in Nat
    BY <1>0, <2>1 DEF VpnInv, StartAlone, StartStages, CallsInOrder, HostTypeOK
  <2>3. calls' = <<>> /\ starts' = starts
    BY <2>1, <2>2 DEF StartService, hostVars
  <2>4. StartCalls' = {}
    BY <2>3 DEF StartCalls
  <2>5. NothingYet
    BY <1>1, <2>1 DEF VpnKept, NothingBeforeStart, StartStages
  <2> QED
    BY <2>2, <2>3, <2>4, <2>5
<1>2. OneStart'
  BY <1>0, <1>1, OneStartStep
<1>3. ASSUME starts' <= 1, vpc'[Main] \in StartStages \ {"starting"} PROVE NothingYet'
  <2>1. starts <= 1
    <3>1. starts \in Nat
      BY <1>0 DEF HostTypeOK
    <3> QED
      BY <1>0, <1>3, <3>1 DEF QueueStep, QueueRests, QueueGrows, Request, Takes
  <2>2. ~StartCoreLoop
    <3> SUFFICES ASSUME StartService, StartCoreLoop PROVE FALSE
      BY OnlyStartServiceStarts
    <3>1. vpc'[Main] = "starting"
      BY MainIsThread DEF StartService, ThreadAt, StartCoreLoop, VpnInv, VpnTypeOK
    <3> QED
      BY <1>3, <3>1
  <2>3. NothingYet
    <3>1. CASE vpc[Main] \in StartStages \ {"starting"}
      BY <2>1, <3>1 DEF VpnKept, NothingBeforeStart
    <3>2. vpc[Main] # "starting"
      BY <1>3, StartingEnds DEF StartStages
    <3>3. CASE vpc[Main] \notin StartStages
      <4>1. Takes("start")
        BY <1>3, <3>3, OnlyStartCommandBegins
      <4>2. StartCalls # {}
        BY <1>0, <1>3, <2>1, <4>1, StartCallIsOne DEF OneStart
      <4> QED
        BY <1>0, <2>1, <4>2 DEF OneStart
    <3> QED
      BY <3>1, <3>2, <3>3
  <2> QED
    BY <1>0, <2>2, <2>3, NothingYetStays
<1> QED
  BY <1>2, <1>3 DEF NothingBeforeStart

\* a step of a thread that stops the service, or begins to
LEMMA CalmVpnStop ==
  ASSUME VpnInv, CalmManager, CalmVpn, changes = 0, CoreTypeOK', NEW t \in Threads,
         \/ StopAllService(t)
         \/ /\ ThreadAt(t, "idle", "flags") /\ UNCHANGED lock /\ coreStays
            /\ UNCHANGED <<alive, starts, calls, self>> /\ vpc[Main] \notin StartStages
  PROVE  CalmVpn'
<1> USE MainIsThread
<1>0. VpnTypeOK /\ CoreTypeOK
  BY DEF VpnInv, VpnTypeOK, HostTypeOK
<1>1. /\ receiver => running \/ vpc[Main] \in {"starting", "flags", "tunnel", "sharing", "clear", "unshare", "core"}
      /\ \A s \in Objects : lock[s] =>
           /\ s = self /\ alive = self
           /\ vpc[Main] \in StartStages \/ receiver \/ \E u \in Threads : vpc[u] = "flags"
  BY DEF CalmVpn
<1>2. CASE /\ ThreadAt(t, "idle", "flags") /\ UNCHANGED lock /\ coreStays
           /\ UNCHANGED <<alive, starts, calls, self>> /\ vpc[Main] \notin StartStages
  <2>1. vpc'[t] = "flags" /\ \A u \in Threads : u # t => vpc'[u] = vpc[u]
    BY <1>0, <1>2, ThreadMoves DEF StopStages
  <2>2. UNCHANGED <<receiver, running>>
    BY <1>0, <1>2, CoreStays DEF VpnTypeOK
  <2>3. ~AllIdle'
    BY <2>1 DEF AllIdle
  <2>4. receiver' => running' \/ vpc'[Main] \in {"starting", "flags", "tunnel", "sharing", "clear", "unshare", "core"}
    BY <1>1, <2>1, <2>2
  <2>5. \A s \in Objects : lock'[s] => s = self' /\ alive' = self'
    BY <1>1, <1>2
  <2> QED
    BY <2>1, <2>3, <2>4, <2>5 DEF CalmVpn
<1>3. CASE StopAllService(t)
  <2>0. t \in Stoppers
    BY <1>3 DEF StopAllService, StopFlags, StopTunnel, StopSharing, StopCore, StopService, StopClose,
        ThreadAt, Stoppers, StopStages
  <2>1. whose[t] = self /\ self \in Objects /\ vpc[Main] \notin StartStages /\ self # 0
    BY <2>0, StopperFacts DEF Objects
  \* no start lock is taken after the first stage
  <2>2. \A s \in Objects : ~lock'[s]
    <3>1. CASE StopFlags(t)
      <4>1. lock' = [lock EXCEPT ![self] = FALSE]
        BY <2>1, <3>1 DEF StopFlags, Set
      <4> QED
        BY <1>0, <1>1, <4>1 DEF VpnTypeOK
    <3>2. CASE StopTunnel(t) \/ StopSharing(t) \/ StopCore(t) \/ StopService(t) \/ StopClose(t)
      <4>1. ~lock[self] /\ UNCHANGED lock
        BY <2>0, <3>2 DEF StopTunnel, StopSharing, StopCore, StopService, StopClose, ThreadAt, objVars,
            VpnInv, PastStages
      <4> QED
        BY <1>1, <4>1
    <3> QED
      BY <1>3, <3>1, <3>2 DEF StopAllService
  <2>3. CASE StopFlags(t) \/ StopTunnel(t) \/ StopSharing(t)
    <3>1. /\ vpc[t] \in {"flags", "tunnel", "sharing", "clear", "unshare"}
          /\ vpc'[t] \in {"tunnel", "sharing", "clear", "unshare", "core"}
          /\ \A u \in Threads : u # t => vpc'[u] = vpc[u]
      BY <1>0, <2>3, ThreadMoves DEF StopFlags, StopTunnel, StopSharing, StopStages, ThreadAt
    <3>2. UNCHANGED <<receiver, running>>
      BY <2>3 DEF StopFlags, StopTunnel, StopSharing, coreStays, coreVars
    <3>3. ~AllIdle'
      BY <3>1 DEF AllIdle
    <3>4. receiver' => running' \/ vpc'[Main] \in {"starting", "flags", "tunnel", "sharing", "clear", "unshare", "core"}
      BY <1>1, <3>1, <3>2
    <3> QED
      BY <2>2, <3>3, <3>4 DEF CalmVpn
  <2>4. CASE StopCore(t) \/ StopService(t) \/ StopClose(t)
    <3>1. ~receiver'
      <4>1. CASE StopCore(t)
        BY <4>1 DEF StopCore, StopCoreLoopOn
      <4>2. CASE StopService(t) \/ StopClose(t)
        BY <2>0, <4>2 DEF StopService, StopClose, ThreadAt, VpnInv, PastStages, coreStays, coreVars
      <4> QED
        BY <2>4, <4>1, <4>2
    <3>2. AllIdle' => alive' # self'
      <4>1. CASE StopCore(t) \/ StopService(t)
        <5>1. vpc'[t] # "idle"
          BY <1>0, <4>1, ThreadMoves DEF StopCore, StopService, StopStages
        <5> QED
          BY <5>1 DEF AllIdle
      <4>2. CASE StopClose(t)
        BY <2>0, <2>1, <4>2 DEF StopClose, ThreadAt, VpnInv, PastStages
      <4> QED
        BY <2>4, <4>1, <4>2
    <3> QED
      BY <2>2, <3>1, <3>2 DEF CalmVpn
  <2> QED
    BY <1>3, <2>3, <2>4 DEF StopAllService
<1> QED
  BY <1>2, <1>3

\* a request finds nobody who holds the lock of a service that is gone
LEMMA CalmVpnRequest ==
  ASSUME VpnInv, CalmVpn, changes = 0, UNCHANGED <<self, coreVars, vpnVars>>,
         Request \/ UNCHANGED <<alive, starts, calls>>
  PROVE  CalmVpn'
<1>1. UNCHANGED <<vpc, lock, AllIdle, receiver, running>>
  BY DEF vpnVars, objVars, coreVars, AllIdle
<1>2. CASE UNCHANGED <<alive, starts, calls>>
  BY <1>1, <1>2 DEF CalmVpn
<1>3. CASE Request
  <2>1. calls' # <<>>
    <3>0. calls \in Seq(Calls)
      BY DEF VpnInv, VpnTypeOK, HostTypeOK
    <3>1. CASE alive = 0
      BY <1>3, <3>0, <3>1 DEF Request
    <3>2. CASE alive # 0
      <4>1. Len(calls') = Len(calls) + 1 /\ Len(calls) \in Nat
        BY <1>3, <3>0, <3>2 DEF Request
      <4> QED
        BY <4>1
    <3> QED
      BY <3>1, <3>2
  <2>2. \A s \in Objects : lock[s] => alive' = alive
    BY <1>3 DEF Request, CalmVpn, Objects
  <2> QED
    BY <1>1, <2>1, <2>2 DEF CalmVpn
<1> QED
  BY <1>2, <1>3

\* onStartCommand takes the lock and keeps it as long as it has the service
LEMMA CalmVpnStart ==
  ASSUME PromptStop, VpnInv, CalmManager, CalmVpn, changes = 0, StartVpn
  PROVE  CalmVpn'
<1> USE MainIsThread
<1>0. VpnTypeOK /\ CoreTypeOK /\ HostTypeOK
  BY DEF VpnInv, VpnTypeOK, HostTypeOK
<1>1. /\ receiver => running \/ vpc[Main] \in {"starting", "flags", "tunnel", "sharing", "clear", "unshare", "core"}
      /\ \A s \in Objects : lock[s] =>
           /\ s = self /\ alive = self
           /\ vpc[Main] \in StartStages \/ receiver \/ \E u \in Threads : vpc[u] = "flags"
  BY DEF CalmVpn
<1>2. CASE StartCommand
  <2>1. /\ calls' = <<>> /\ Head(calls).of = self
        /\ alive = self /\ self \in Objects /\ AllIdle /\ self # 0
    BY <1>2, NextCall DEF StartCommand, Objects
  <2>2. UNCHANGED <<alive, self, receiver, running>>
    BY <1>2 DEF StartCommand, coreStays, coreVars
  <2>3. receiver => running
    BY <1>1, <2>1 DEF AllIdle
  <2>4. CASE lock' = [lock EXCEPT ![self] = TRUE] /\ ThreadAt(Main, "idle", "setup")
    <3>1. vpc'[Main] = "setup"
      BY <1>0, <2>4, ThreadMoves DEF StartStages
    <3>2. ~AllIdle'
      BY <3>1 DEF AllIdle
    <3>3. \A s \in Objects : lock'[s] => s = self
      BY <1>0, <1>1, <2>4 DEF VpnTypeOK
    <3> QED
      BY <2>1, <2>2, <2>3, <3>1, <3>2, <3>3 DEF CalmVpn, StartStages
  <2>5. CASE lock[self] /\ UNCHANGED <<lock, vpc, whose>>
    <3>1. receiver
      BY <1>1, <2>1, <2>5 DEF AllIdle, StartStages
    <3> QED
      BY <1>1, <2>2, <2>3, <2>5, <3>1 DEF CalmVpn
  <2> QED
    BY <1>2, <2>1, <2>4, <2>5 DEF StartCommand, Set
<1>3. ASSUME vpc[Main] \in StartStages
      PROVE  /\ calls = <<>> /\ alive = self /\ self \in Objects /\ self # 0 /\ whose[Main] = self
             /\ \A u \in Threads : u # Main => vpc[u] = "idle"
             /\ vpc[Main] # "starting" => (receiver => running)
  <2>1. vpc[Main] \notin StopStages
    BY <1>3 DEF StopStages, StartStages
  <2> QED
    BY <1>1, <1>3, <2>1 DEF VpnInv, StartAlone, VpnTypeOK, HostTypeOK, Objects, StopStages
\* the service goes on: it stays in onStartCommand, fails, or has its core
<1>4. ASSUME vpc[Main] \in StartStages, NEW to \in {"establish", "tun2socks", "startLoop", "starting", "flags"},
             ThreadAt(Main, vpc[Main], to), UNCHANGED <<lock, alive, self>>,
             to \notin {"starting", "flags"} => (receiver' => running')
      PROVE  CalmVpn'
  <2>1. vpc'[Main] = to
    BY <1>0, <1>4, ThreadMoves DEF StartStages, StopStages
  <2>2. ~AllIdle'
    BY <2>1 DEF AllIdle
  <2>3. vpc'[Main] \in StartStages \/ \E u \in Threads : vpc'[u] = "flags"
    BY <2>1 DEF StartStages
  <2>4. receiver' => running' \/ vpc'[Main] \in {"starting", "flags"}
    BY <1>4, <2>1
  <2>5. \A s \in Objects : lock'[s] => s = self' /\ alive' = self'
    BY <1>1, <1>4
  <2> QED
    BY <2>2, <2>3, <2>4, <2>5 DEF CalmVpn
<1>5. CASE SetupVpn
  <2>1. vpc[Main] = "setup" /\ vpc[Main] \in StartStages
    BY <1>5 DEF SetupVpn, StartStages
  <2>2. UNCHANGED <<receiver, running>>
    BY <1>5 DEF SetupVpn, coreStays, coreVars
  <2>3. CASE ThreadAt(Main, "setup", "idle") /\ Set(lock, self, FALSE) /\ StopSelf(self) /\ UNCHANGED self
    <3>1. alive' = 0
      BY <1>3, <2>1, <2>3 DEF StopSelf
    <3>2. lock' = [lock EXCEPT ![self] = FALSE]
      BY <2>3 DEF Set
    <3>3. \A s \in Objects : ~lock'[s]
      BY <1>0, <1>1, <3>2 DEF VpnTypeOK
    <3> QED
      BY <1>3, <2>1, <2>2, <2>3, <3>1, <3>3 DEF CalmVpn
  <2>4. CASE ThreadAt(Main, "setup", "establish") /\ UNCHANGED <<lock, hostVars>>
    BY <1>3, <1>4, <2>1, <2>2, <2>4 DEF hostVars
  <2> QED
    BY <1>3, <1>5, <2>1, <2>3, <2>4 DEF SetupVpn
<1>6. CASE Establish \/ RunTun2socks
  <2>1. vpc[Main] \in {"establish", "tun2socks"} /\ vpc[Main] \in StartStages
    BY <1>6 DEF Establish, RunTun2socks, ThreadAt, StartStages
  <2>2. UNCHANGED <<receiver, running, lock, alive, self, calls>>
    BY <1>6 DEF Establish, RunTun2socks, coreStays, coreVars, hostVars
  <2>3. CASE UNCHANGED vpc
    <3>1. AllIdle' = AllIdle
      BY <2>3 DEF AllIdle
    <3> QED
      BY <1>1, <2>2, <2>3, <3>1 DEF CalmVpn
  <2>4. CASE \E to \in {"tun2socks", "flags", "startLoop"} : ThreadAt(Main, vpc[Main], to)
    BY <1>3, <1>4, <2>1, <2>2, <2>4
  <2> QED
    BY <1>6, <2>3, <2>4 DEF Establish, RunTun2socks, ThreadAt
<1>7. CASE StartService
  <2>1. vpc[Main] = "startLoop" /\ vpc[Main] \in StartStages
    BY <1>7 DEF StartService, ThreadAt, StartStages
  <2>2. UNCHANGED <<lock, alive, self>>
    BY <1>7 DEF StartService, objVars, hostVars
  <2>3. PICK to \in {"flags", "starting"} : ThreadAt(Main, vpc[Main], to)
    BY <1>7, <2>1 DEF StartService
  <2> QED
    BY <1>4, <2>1, <2>2, <2>3
<1>8. CASE StartServiceReturned
  <2>1. vpc[Main] = "starting" /\ vpc[Main] \in StartStages
    BY <1>8 DEF StartServiceReturned, ThreadAt, StartStages
  <2>2. UNCHANGED <<lock, alive, self, calls, running, receiver>>
    BY <1>8 DEF StartServiceReturned, objVars, hostVars
  <2>3. CASE pc[Main] = "started" /\ ThreadAt(Main, "starting", "idle")
    <3>1. running /\ receiver
      BY <2>3 DEF CalmManager, StartOwnsCore, Launching, ServicePC
    <3> QED
      BY <1>1, <2>2, <3>1 DEF CalmVpn
  <2>4. CASE ThreadAt(Main, "starting", "flags")
    BY <1>4, <2>1, <2>2, <2>4
  <2> QED
    BY <1>8, <2>3, <2>4 DEF StartServiceReturned
<1>9. CASE StartStep /\ UNCHANGED vpnVars
  <2>1. vpc[Main] = "starting" /\ UNCHANGED hostVars
    BY <1>0, <1>9, StartStepGoesOn DEF VpnInv, LaunchIsStart
  <2>2. UNCHANGED <<vpc, lock, AllIdle>> /\ ~AllIdle
    BY <1>9, <2>1 DEF vpnVars, objVars, AllIdle
  <2> QED
    BY <1>1, <2>1, <2>2 DEF CalmVpn, hostVars, StartStages
<1> QED
  BY <1>2, <1>5, <1>6, <1>7, <1>8, <1>9 DEF StartVpn

LEMMA CalmVpnStep ==
  ASSUME PromptStop, VpnInv, VpnKept, VpnNext
  PROVE  CalmVpn'
<1> SUFFICES ASSUME changes' = 0 PROVE CalmVpn'
  BY DEF CalmVpn
<1>0. /\ ManagerStep /\ VpnTypeOK /\ CoreTypeOK /\ HostTypeOK /\ restart \in Restarts
      /\ CalmVpn /\ CoreTypeOK'
  BY VpnStepsAreManagerSteps, VpnStepKeepsInv DEF VpnInv, VpnTypeOK, HostTypeOK, VpnKept
<1>1. changes = 0 /\ ~NetworkChange /\ CalmManager
  <2>1. changes \in Nat
    BY <1>0, CoreServiceAssumption DEF CoreTypeOK, DataOK
  <2>2. ~NetworkChange
    BY <2>1 DEF NetworkChange
  <2> QED
    BY <1>0, <2>2 DEF ManagerStep, netVars, VpnKept, CalmCore
<1>2. CASE VpnUserStop \/ OnRevoke \/ VpnRestartStop
  <2>1. PICK t \in Threads : /\ ThreadAt(t, "idle", "flags") /\ UNCHANGED lock /\ coreStays
                             /\ vpc[Main] \notin StartStages
    BY <1>2, MainIsThread DEF VpnUserStop, OnRevoke, VpnRestartStop, BeginStop, Threads, objVars
  <2>2. UNCHANGED <<alive, starts, calls, self>>
    BY <1>2 DEF VpnUserStop, OnRevoke, VpnRestartStop, hostVars
  <2> QED
    BY <1>0, <1>1, <2>1, <2>2, CalmVpnStop
<1>3. CASE VpnUserStart \/ VpnUserRestart \/ VpnRestartStart
  BY <1>0, <1>1, <1>3, CalmVpnRequest
  DEF VpnUserStart, VpnUserRestart, VpnRestartStart, UserStart, UserRestart, RestartStart
<1>4. ASSUME NEW t \in Threads, StopAllService(t) PROVE CalmVpn'
  BY <1>0, <1>1, <1>4, CalmVpnStop
<1>5. CASE Free /\ OnCreate /\ UNCHANGED vpnVars
  <2>1. PICK s \in Objects : calls' = <<Call("start", s)>> /\ alive = s /\ self # s
    BY <1>5, NextCall DEF OnCreate
  <2>2. UNCHANGED <<vpc, lock, receiver, running>>
    BY <1>5 DEF OnCreate, vpnVars, objVars, coreVars
  <2>3. \A u \in Objects : ~lock[u]
    BY <1>0, <1>1, <2>1 DEF CalmVpn
  <2>4. calls' # <<>>
    BY <2>1
  <2> QED
    BY <1>0, <1>1, <2>2, <2>3, <2>4 DEF CalmVpn
<1>6. CASE StartVpn
  BY <1>0, <1>1, <1>6, CalmVpnStart
<1>7. CASE VpnOnDestroy
  <2>1. alive = 0 /\ self \in Objects /\ self # 0 /\ ~receiver' /\ UNCHANGED <<alive, self>>
    BY <1>7, NextCall DEF VpnOnDestroy, Objects
  <2>2. \A u \in Objects : ~lock[u]
    BY <1>0, <1>1, <2>1 DEF CalmVpn
  <2>3. \A u \in Objects : ~lock'[u]
    BY <1>0, <1>7, <2>2 DEF VpnOnDestroy, Set, VpnTypeOK
  <2> QED
    BY <2>1, <2>3 DEF CalmVpn
<1>8. CASE TunnelEnds
  BY <1>0, <1>1, <1>8 DEF CalmVpn, TunnelEnds, coreStays, coreVars, objVars, hostVars, AllIdle
<1>9. CASE (Background \/ NetworkStep) /\ UNCHANGED vpnVars
  <2>1. UNCHANGED hostVars
    BY <1>9 DEF Background, NetworkStep, StopStep, MonitorStep, JobStep
  <2>2. UNCHANGED receiver
    BY <1>0, <1>9, BackgroundMainOwned DEF MainOwned
  <2>3. receiver' /\ running => running'
    <3>1. stops \in Nat
      BY <1>0 DEF CoreTypeOK, DataOK
    <3>2. receiver => ~StopLoop
      BY <1>1, <3>1 DEF StopLoop, CalmManager, StartOwnsCore
    <3> QED
      BY <1>0, <1>1, <1>9, <2>2, <3>2, CalmBackground DEF NetworkStep
  <2> QED
    BY <1>0, <1>1, <1>9, <2>1, <2>2, <2>3 DEF CalmVpn, vpnVars, objVars, hostVars, AllIdle
<1> QED
  BY <1>2, <1>3, <1>4, <1>5, <1>6, <1>7, <1>8, <1>9, MainIsThread
  DEF VpnNext, VpnUsers, Others, VpnMain, Threads

LEMMA VpnInitKept == VpnInit => VpnKept
<1> SUFFICES ASSUME VpnInit PROVE VpnKept
  OBVIOUS
<1>1. HostKept /\ ~receiver /\ self = 0
  BY HostInitKept DEF VpnInit, HostInit, CoreInit
<1>2. \A s \in Objects : ~lock[s]
  BY DEF VpnInit, VpnVarsInit
<1>3. vpc[Main] = "idle"
  BY MainIsThread DEF VpnInit, VpnVarsInit
<1> QED
  BY <1>1, <1>2, <1>3 DEF VpnKept, HostKept, CalmVpn, NothingBeforeStart, StartStages

LEMMA VpnStepKeeps ==
  ASSUME PromptStop, VpnInv, VpnKept, VpnNext PROVE VpnKept'
<1>1. ManagerStep /\ CoreTypeOK
  BY VpnStepsAreManagerSteps DEF VpnInv, VpnTypeOK, HostTypeOK
<1> QED
  BY <1>1, CalmStep, CalmVpnStep, OneStartInVpn DEF VpnKept

LEMMA VpnKeptStutters ==
  ASSUME VpnKept, UNCHANGED vpnServiceVars PROVE VpnKept'
<1>1. UNCHANGED <<vpc, lock, AllIdle>>
  BY DEF vpnServiceVars, vpnVars, objVars, AllIdle
<1>2. CalmVpn'
  BY <1>1 DEF vpnServiceVars, coreVars, netVars, hostVars, VpnKept, CalmVpn
<1>3. NothingBeforeStart' /\ OneStart' /\ CalmCore'
  BY <1>1 DEF vpnServiceVars, coreVars, monitorVars, netVars, hostVars, VpnKept, NothingBeforeStart, NothingYet,
      OneStart, Handovers, ReloadAlone, AnnouncedIsSeen, HandoverAtWork, StartBeforeHandovers, StartCalls,
      CalmCore, CalmManager, NoHandover, StartOwnsCore, UiKnows, Launching
<1> QED
  BY <1>2, <1>3 DEF VpnKept
=============================================================================
