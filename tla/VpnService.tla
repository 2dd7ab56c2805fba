----------------------------- MODULE VpnService -----------------------------
(***************************************************************************)
(* CoreVpnService, the VPN run mode: ServiceHost with a tun interface, the *)
(* native tunnel on it (TProxyService, of which TunnelService says what to *)
(* expect) and LAN sharing.  Everything is taken down by stopAllService,   *)
(* which runs on the main thread, in the coroutine of a restart request,   *)
(* and on the binder thread that reports the loss of the VPN permission.   *)
(***************************************************************************)
EXTENDS ServiceHost

CONSTANT SystemStarts   \* the system may start the service (always-on VPN)

VARIABLES
  vpc,      \* where each thread is in onStartCommand or stopAllService
  whose,    \* the service object it works for
  lock,     \* isStartingLock of every service object
  up,       \* isRunning of every service object
  iface,    \* mInterface of every service object
  t2s,      \* tun2SocksService of every service object is set
  tun,      \* the native tunnel
  forgotten,\* a start let go of a native tunnel that was up: no service has it
  share     \* LAN sharing: "off", "on", or "stopping"

objVars == <<lock, up, iface, t2s>>
vpnVars == <<vpc, whose, objVars, tun, forgotten, share>>
vpnServiceVars == <<coreVars, monitorVars, netVars, hostVars, vpnVars>>

Tunnel == INSTANCE TunnelService WITH Callers <- {}, pend <- <<>>

Threads == {Main, "restart", "revoke"}
Objects == 1..MaxStarts
StopStages == {"flags", "tunnel", "sharing", "clear", "unshare", "core", "self", "close"}
StartStages == {"setup", "establish", "tun2socks", "startLoop", "starting"}

VpnTypeOK ==
  /\ HostTypeOK
  /\ vpc \in [Threads -> StopStages \cup StartStages \cup {"idle"}]
  /\ whose \in [Threads -> 0..MaxStarts]
  /\ {lock, up, t2s} \subseteq [Objects -> BOOLEAN]
  /\ iface \in [Objects -> {"none", "open", "closed"}]
  /\ tun \in {"off", "up", "over"}
  /\ forgotten \in BOOLEAN
  /\ share \in {"off", "on", "stopping"}

VpnVarsInit ==
  /\ vpc = [t \in Threads |-> "idle"] /\ whose = [t \in Threads |-> 0]
  /\ lock = [s \in Objects |-> FALSE] /\ up = lock /\ t2s = lock
  /\ iface = [s \in Objects |-> "none"]
  /\ tun = "off" /\ forgotten = FALSE /\ share = "off"

VpnInit == HostInit /\ VpnVarsInit

ThreadAt(t, from, to) == vpc[t] = from /\ vpc' = [vpc EXCEPT ![t] = to]
Set(f, s, v) == f' = [f EXCEPT ![s] = v]
Stoppers == {t \in Threads : vpc[t] \in StopStages}
Free == MainIdle /\ vpc[Main] = "idle"
Close(s) == Set(iface, s, IF iface[s] = "none" THEN "none" ELSE "closed")
coreStays == UNCHANGED <<coreVars, monitorVars, netVars>>

\* thread t begins stopAllService of object s; if stops are prompt, not while a
\* start command is being handled or waits to be
BeginStop(t, s) ==
  /\ PromptStop => vpc[Main] \notin StartStages /\ \A i \in DOMAIN calls : calls[i].op # "start"
  /\ ThreadAt(t, "idle", "flags")
  /\ Set(whose, t, s)
  /\ UNCHANGED <<objVars, tun, forgotten, share>> /\ coreStays

-----------------------------------------------------------------------------
(* onStartCommand on the main thread *)

\* a start by the system resets the start lock; any other goes away if it is
\* taken, and the lock stays taken as long as the service is up
StartCommand ==
  /\ Free /\ Take("start")
  /\ PromptStop => stops = 0 /\ \A t \in Threads : vpc[t] = "idle"
  /\ LET s == Head(calls).of IN
     \/ /\ lock[s] => SystemStarts
        /\ Set(lock, s, TRUE) /\ ThreadAt(Main, "idle", "setup") /\ Set(whose, Main, s)
     \/ lock[s] /\ UNCHANGED <<lock, vpc, whose>>
  /\ UNCHANGED <<alive, starts, self, restart, up, iface, t2s, tun, forgotten, share>> /\ coreStays

\* no permission: the system has given it to another app, and if stops are
\* prompt its onRevoke is over, which closed the interface; or the old interface
\* is closed because its parameters have changed
SetupVpn ==
  /\ vpc[Main] = "setup"
  /\ LET s == whose[Main] IN
     \/ /\ PromptStop => iface[s] # "open"
        /\ ThreadAt(Main, "setup", "idle") /\ Set(lock, s, FALSE) /\ StopSelf(s)
        /\ UNCHANGED <<iface, starts, self, restart>>
     \/ /\ ThreadAt(Main, "setup", "establish") /\ Close(s)
        /\ UNCHANGED <<lock, hostVars>>
  /\ UNCHANGED <<whose, up, t2s, tun, forgotten, share>> /\ coreStays

Establish ==
  /\ LET s == whose[Main] IN
     \/ /\ ThreadAt(Main, "establish", "tun2socks")
        /\ Set(iface, s, "open") /\ Set(up, s, TRUE)
     \/ ThreadAt(Main, "establish", "flags") /\ UNCHANGED <<iface, up>>
  /\ UNCHANGED <<whose, lock, t2s, tun, forgotten, share, hostVars>> /\ coreStays

\* runTun2socks: whether TProxyStartService did anything is not looked at.  If the
\* settings no longer ask for a tunnel, its library does not load or its
\* configuration cannot be written, the service has none, and one that is up
\* since an earlier start has nobody to stop it.
RunTun2socks ==
  /\ LET s == whose[Main] IN
     \/ vpc[Main] = "tun2socks" /\ Tunnel!ReapTun /\ UNCHANGED <<vpc, t2s, forgotten>>
     \/ /\ ThreadAt(Main, "tun2socks", "startLoop") /\ Tunnel!StartTun
        /\ Set(t2s, s, TRUE) /\ forgotten' = FALSE
     \/ /\ ThreadAt(Main, "tun2socks", "startLoop") /\ UNCHANGED tun
        /\ Set(t2s, s, FALSE) /\ forgotten' = (tun = "up")
  /\ UNCHANGED <<whose, lock, up, iface, share, hostVars>> /\ coreStays

\* startCoreLoop returns false if a core runs already
StartService ==
  /\ IF running THEN ThreadAt(Main, "startLoop", "flags") /\ UNCHANGED <<coreVars, monitorVars>>
     ELSE ThreadAt(Main, "startLoop", "starting") /\ StartCoreLoop
  /\ UNCHANGED <<whose, objVars, tun, forgotten, share, hostVars, netVars>>

\* mutant: a failed core start leaves interface and start lock behind
StartServiceReturnedAnyhow ==
  /\ pc' = [pc EXCEPT ![Main] = "idle"]
  /\ pc[Main] \in {"started", "failed"} /\ ThreadAt(Main, "starting", "idle")
  /\ UNCHANGED <<running, builtOn, stops, reloading, cfg, receiver, ui, monitorVars,
                 netVars, hostVars, whose, objVars, tun, forgotten, share>>

\* startCoreLoop is done: sharing may be wanted, unless it is on already; a
\* failure takes everything down
StartServiceReturned ==
  /\ pc' = [pc EXCEPT ![Main] = "idle"]
  /\ \/ /\ pc[Main] = "started" /\ ThreadAt(Main, "starting", "idle")
        /\ share' \in {share, IF share = "off" THEN "on" ELSE share}
     \/ pc[Main] = "failed" /\ ThreadAt(Main, "starting", "flags") /\ UNCHANGED share
  /\ UNCHANGED <<running, builtOn, stops, reloading, cfg, receiver, ui, monitorVars,
                 netVars, hostVars, whose, objVars, tun, forgotten>>

StartVpn ==
  \/ StartCommand \/ SetupVpn \/ Establish \/ RunTun2socks
  \/ StartService \/ StartServiceReturned
  \/ StartStep /\ UNCHANGED vpnVars

-----------------------------------------------------------------------------
(* stopAllService on thread t *)

StopFlags(t) ==
  /\ ThreadAt(t, "flags", "tunnel")
  /\ Set(lock, whose[t], FALSE) /\ Set(up, whose[t], FALSE)
  /\ UNCHANGED <<whose, iface, t2s, tun, forgotten, share, hostVars>> /\ coreStays

\* mutant: the tunnel is forgotten, not stopped
StopTunnelForgets(t) ==
  /\ ThreadAt(t, "tunnel", "sharing")
  /\ Set(t2s, whose[t], FALSE)
  /\ UNCHANGED <<whose, lock, up, iface, tun, forgotten, share, hostVars>> /\ coreStays

StopTunnel(t) ==
  /\ ThreadAt(t, "tunnel", "sharing")
  /\ Set(t2s, whose[t], FALSE)
  /\ IF t2s[whose[t]] THEN Tunnel!StopTun ELSE UNCHANGED tun
  /\ UNCHANGED <<whose, lock, up, iface, forgotten, share, hostVars>> /\ coreStays

\* mutant: the flag is cleared, and the core does not wait for the rules
StopSharingLater(t) ==
  /\ \/ ThreadAt(t, "sharing", "core") /\ share # "on" /\ UNCHANGED share
     \/ ThreadAt(t, "sharing", "clear") /\ share = "on" /\ UNCHANGED share
     \/ ThreadAt(t, "clear", "core") /\ share' = "stopping"
     \/ ThreadAt(t, "unshare", "core") /\ share' = "off"
  /\ UNCHANGED <<whose, objVars, tun, forgotten, hostVars>> /\ coreStays

\* RootLanSharing.stopClientSharing: the flag is tested, then cleared, then the
\* rules go; two threads that find it set remove them both
StopSharing(t) ==
  /\ \/ ThreadAt(t, "sharing", "core") /\ share # "on" /\ UNCHANGED share
     \/ ThreadAt(t, "sharing", "clear") /\ share = "on" /\ UNCHANGED share
     \/ /\ ThreadAt(t, "clear", "unshare")
        /\ share' = IF share = "on" THEN "stopping" ELSE share
     \/ ThreadAt(t, "unshare", "core") /\ share' = "off"
  /\ UNCHANGED <<whose, objVars, tun, forgotten, hostVars>> /\ coreStays

StopCore(t) ==
  /\ ThreadAt(t, "core", "self")
  /\ StopCoreLoopOn(t)
  /\ UNCHANGED <<netVars, hostVars, whose, objVars, tun, forgotten, share>>

StopService(t) ==
  /\ ThreadAt(t, "self", "close")
  /\ StopSelf(whose[t])
  /\ UNCHANGED <<starts, self, restart, whose, objVars, tun, forgotten, share>> /\ coreStays

StopClose(t) ==
  /\ ThreadAt(t, "close", "idle")
  /\ Close(whose[t])
  /\ restart' = IF t = "restart" THEN Restart("start", 0) ELSE restart
  /\ UNCHANGED <<alive, starts, calls, self, whose, lock, up, t2s, tun, forgotten, share>> /\ coreStays

StopAllService(t) ==
  StopFlags(t) \/ StopTunnel(t) \/ StopSharing(t) \/ StopCore(t) \/ StopService(t) \/ StopClose(t)

-----------------------------------------------------------------------------
(* Who begins and ends it *)

\* MSG_STATE_STOP on the main thread
VpnUserStop ==
  /\ Free /\ receiver /\ self # 0
  /\ BeginStop(Main, self) /\ Forget
  /\ UNCHANGED <<alive, starts, calls, self>>

VpnUserRestart == vpc[Main] = "idle" /\ UserRestart /\ UNCHANGED vpnVars

VpnRestartStop ==
  /\ restart.at = "stop"
  /\ BeginStop("restart", restart.of)
  /\ UNCHANGED hostVars

VpnRestartStart ==
  /\ PromptStop => \A t \in Threads : vpc[t] = "idle"
  /\ RestartStart /\ UNCHANGED vpnVars

\* onRevoke: the system gave the interface to another app
OnRevoke ==
  /\ alive # 0 /\ iface[alive] = "open"
  /\ BeginStop("revoke", alive)
  /\ UNCHANGED hostVars

\* an interface that did not go through stopAllService is closed; a receiver the
\* service left registered goes with it
VpnOnDestroy ==
  /\ Free /\ Take("destroy")
  /\ receiver' = FALSE
  /\ LET s == Head(calls).of IN
     /\ IF up[s] THEN Close(s) ELSE UNCHANGED iface
     /\ Set(lock, s, FALSE)
  /\ UNCHANGED <<alive, starts, self, restart, vpc, whose, up, t2s, tun, forgotten, share>>
  /\ UNCHANGED <<running, builtOn, stops, reloading, pc, cfg, ui, monitorVars, netVars>>

\* if stops are prompt, the user asks again only when a request has been served
VpnUserStart ==
  /\ PromptStop => /\ Free /\ calls = <<>> /\ restart.at # "stop"
                   /\ \A t \in Threads : vpc[t] = "idle"
  /\ UserStart /\ UNCHANGED vpnVars

VpnUsers == VpnUserStart \/ VpnUserStop \/ VpnUserRestart \/ OnRevoke
Others ==
  \/ VpnRestartStop \/ VpnRestartStart \/ StopAllService("restart") \/ StopAllService("revoke")
VpnMain ==
  \/ Free /\ OnCreate /\ UNCHANGED vpnVars
  \/ StartVpn \/ StopAllService(Main) \/ VpnOnDestroy
TunnelEnds == Tunnel!EndTun /\ UNCHANGED <<vpc, whose, objVars, forgotten, share, hostVars>> /\ coreStays

VpnNext ==
  \/ VpnUsers \/ Others \/ VpnMain \/ TunnelEnds
  \/ (Background \/ NetworkStep) /\ UNCHANGED vpnVars

VpnFairness ==
  /\ WF_vpnServiceVars(VpnMain) /\ WF_vpnServiceVars(Others)
  /\ WF_vpnServiceVars(Background /\ UNCHANGED vpnVars)

VpnSpec == VpnInit /\ [][VpnNext]_vpnServiceVars /\ VpnFairness

-----------------------------------------------------------------------------
(* Properties *)

VpnQuiet == Quiet /\ \A t \in Threads : vpc[t] = "idle"

\* A start that the lock turns away finds what it asked for: the service that
\* holds its start lock is up, with an interface and a core
\* (CoreVpnService.kt:79-88).
LockMeansUp ==
  VpnQuiet => \A s \in Objects : lock[s] => alive = s /\ iface[s] = "open" /\ running

\* The interface is closed only when no tunnel reads from its descriptor any
\* more (CoreVpnService.kt:344, 368-372), unless a start by the system replaces
\* the interface of a service that is up (176-178) or let go of the tunnel (326).
FdOutlivesTunnel ==
  [][\A s \in Objects : iface[s] = "open" /\ iface'[s] # "open"
       => tun # "up" \/ forgotten \/ vpc[Main] = "setup"]_vpnServiceVars

\* RootLanSharing.kt:38, "Remove LAN/tethering sharing rules + helper before
\* stopping the core", as long as one thread stops the service: a second one
\* finds lanSharingStarted cleared and does not wait (43-46).
SharingGoesFirst ==
  [][stops' > stops => share = "off" \/ \E t, u \in Stoppers : t # u]_vpnServiceVars

\* No interface without a service and a core behind it: the device would send
\* everything into it and nothing would come out.  With the service gone
\* nothing is left that needs a stop: no core, no tunnel the last start did not
\* let go of, and no shared rules (CoreVpnService.kt:59-61, 336-349, 359-361).
VpnLeavesNothing ==
  VpnQuiet => /\ \A s \in Objects : iface[s] = "open" => alive = s /\ running
              /\ alive = 0 => ~running /\ (tun # "up" \/ forgotten) /\ share = "off"
=============================================================================
