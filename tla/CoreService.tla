---------------------------- MODULE CoreService ----------------------------
(***************************************************************************)
(* CoreServiceManager, the singleton of the daemon process that owns the   *)
(* Xray core, together with the two things it drives: the Go               *)
(* CoreController, and the NetworkMonitor whose handover jobs reload the   *)
(* core in place.                                                          *)
(*                                                                         *)
(* The module has the operations, not a specification of its own: the      *)
(* services (ServiceHost, and in it ProxyService and RootService) compose them, because  *)
(* when startCoreLoop and stopCoreLoop run, and on which thread, is theirs *)
(* to say.  StartLoop and StopLoop of the controller are single steps: one *)
(* mutex covers each of them.                                              *)
(***************************************************************************)
EXTENDS Naturals, FiniteSets

CONSTANTS
  Networks,       \* upstream networks the device can be on
  NoNet,          \* no network
  Jobs,           \* ids of handover coroutines
  Main,           \* the thread that runs startCoreLoop
  MaxChanges,     \* bound: how often the upstream network changes
  DialerMayFail   \* starting the browser dialer may throw: a WebView cannot
                  \* be created on the IO thread a reload runs on

ASSUME CoreServiceAssumption ==
  /\ NoNet \notin Networks
  /\ Main \notin Jobs
  /\ MaxChanges \in Nat
  /\ DialerMayFail \in BOOLEAN

VARIABLES
  running,    \* CoreController.IsRunning
  builtOn,    \* network the running core's configuration was resolved on
  stops,      \* stopLoop coroutines launched by stopCoreLoop, not yet run
  reloading,  \* isReloading
  pc,         \* where Main is in startCoreLoop, a job in its coroutine
  cfg,        \* network the configuration a launch has built was resolved on
  receiver,   \* mMsgReceive is registered
  ui,         \* the last state message sent to the UI
  net,        \* the upstream network (environment)
  changes,    \* how often it changed
  monitor,    \* networkMonitor is set and its callback registered
  upstream,   \* NetworkMonitor.upstream
  owned,      \* NetworkMonitor.handoverJob, as a set of at most one job
  cb,         \* onAvailable saw a handover and is about to schedule it: "live",
              \* or "stale" when the monitor was unregistered meanwhile
  announced,  \* history: the last network a handover was scheduled for
  dropped     \* history: since then a reload returned at once

coreVars == <<running, builtOn, stops, reloading, pc, cfg, receiver, ui>>
monitorVars == <<monitor, upstream, owned, cb, announced, dropped>>
netVars == <<net, changes>>

Launchers == Jobs \cup {Main}
LaunchPC == {"build", "launch", "verify"}
JobPC == {"idle", "debounce", "check", "stop"} \cup LaunchPC
MainPC == {"idle", "monitor", "started", "failed"} \cup LaunchPC
ServicePC == {"join", "teardown", "stop"}    \* steps of onDestroy on Main
UiMessages == {"none", "START_SUCCESS", "START_FAILURE", "STOP_SUCCESS"}

FlagsOK ==
  /\ running \in BOOLEAN
  /\ reloading \in BOOLEAN
  /\ receiver \in BOOLEAN
  /\ monitor \in BOOLEAN
  /\ dropped \in BOOLEAN

PcOK ==
  /\ pc \in [Launchers -> JobPC \cup MainPC \cup ServicePC]
  /\ pc[Main] \in MainPC \cup ServicePC
  /\ \A j \in Jobs : pc[j] \in JobPC
  /\ cfg \in [Launchers -> Networks \cup {NoNet}]

DataOK ==
  /\ stops \in Nat
  /\ ui \in UiMessages
  /\ net \in Networks
  /\ changes \in 0..MaxChanges
  /\ {builtOn, upstream, announced} \subseteq Networks \cup {NoNet}
  /\ owned \in SUBSET Jobs
  /\ cb \in {"none", "live", "stale"}

CoreTypeOK == FlagsOK /\ PcOK /\ DataOK

CoreInit ==
  /\ running = FALSE /\ builtOn = NoNet /\ stops = 0 /\ reloading = FALSE
  /\ pc = [l \in Launchers |-> "idle"]
  /\ cfg = [l \in Launchers |-> NoNet]
  /\ receiver = FALSE /\ ui = "none"
  /\ net \in Networks /\ changes = 0
  /\ monitor = FALSE /\ upstream = NoNet /\ owned = {} /\ cb = "none"
  /\ announced = NoNet /\ dropped = FALSE

Goto(l, from, to) == pc[l] = from /\ pc' = [pc EXCEPT ![l] = to]

-----------------------------------------------------------------------------
(* startCoreLoop, and launchCore, which startCoreLoop and reloadCore share *)

\* mutant: the receiver is not registered
StartCoreLoopDeaf ==
  /\ ~running
  /\ Goto(Main, "idle", "build")
  /\ UNCHANGED <<running, builtOn, stops, reloading, cfg, receiver, ui, monitorVars>>

\* startCoreLoop on Main, its early return aside: doStartCoreLoop registers
\* the receiver and goes on to launchCore
StartCoreLoop ==
  /\ ~running
  /\ Goto(Main, "idle", "build")
  /\ receiver' = TRUE
  /\ UNCHANGED <<running, builtOn, stops, reloading, cfg, ui, monitorVars>>

\* mutant: startCoreLoop swallows the exception and returns true
LaunchFailsUnnoticed(l) ==
  /\ pc' = [pc EXCEPT ![l] = IF l = Main THEN "started" ELSE "idle"]
  /\ reloading' = IF l = Main THEN reloading ELSE FALSE
  /\ cfg' = [cfg EXCEPT ![l] = NoNet]
  /\ UNCHANGED ui

\* mutant: reloadCore does not clear isReloading when it fails
LaunchFailsReloading(l) ==
  /\ pc' = [pc EXCEPT ![l] = IF l = Main THEN "failed" ELSE "idle"]
  /\ ui' = "START_FAILURE"
  /\ cfg' = [cfg EXCEPT ![l] = NoNet]
  /\ UNCHANGED reloading

\* an exception in launchCore: startCoreLoop reports it and returns false,
\* reloadCore reports it and clears isReloading
LaunchFails(l) ==
  /\ pc' = [pc EXCEPT ![l] = IF l = Main THEN "failed" ELSE "idle"]
  /\ reloading' = IF l = Main THEN reloading ELSE FALSE
  /\ ui' = "START_FAILURE"
  /\ cfg' = [cfg EXCEPT ![l] = NoNet]

\* selected server, its profile and the configuration, in which server
\* domains are resolved on the current network; any of them may fail
BuildConfig(l) ==
  /\ pc[l] = "build"
  /\ \/ /\ pc' = [pc EXCEPT ![l] = "launch"]
        /\ cfg' = [cfg EXCEPT ![l] = net]
        /\ UNCHANGED <<reloading, ui>>
     \/ LaunchFails(l)
  /\ UNCHANGED <<running, builtOn, stops, receiver, monitorVars>>

\* coreController.startLoop: nothing when a core runs already, else the core
\* comes up with this configuration or the call throws
StartLoop(l) ==
  /\ pc[l] = "launch"
  /\ \/ /\ running' = TRUE
        /\ builtOn' = IF running THEN builtOn ELSE cfg[l]
        /\ pc' = [pc EXCEPT ![l] = "verify"]
        /\ cfg' = [cfg EXCEPT ![l] = NoNet]
        /\ UNCHANGED <<reloading, ui>>
     \/ ~running /\ LaunchFails(l) /\ UNCHANGED <<running, builtOn>>
  /\ UNCHANGED <<stops, receiver, monitorVars>>

\* the rest of launchCore: isRunning() is asked again, the browser dialer is
\* replaced, and only a start, not a reload, is announced
FinishLaunch(l) ==
  /\ pc[l] = "verify"
  /\ \/ /\ running
        /\ pc' = [pc EXCEPT ![l] = IF l = Main THEN "monitor" ELSE "idle"]
        /\ reloading' = IF l = Main THEN reloading ELSE FALSE
        /\ ui' = IF l = Main THEN "START_SUCCESS" ELSE ui
        /\ UNCHANGED cfg
     \/ (~running \/ (DialerMayFail /\ l # Main)) /\ LaunchFails(l)
  /\ UNCHANGED <<running, builtOn, stops, receiver, monitorVars>>

\* startNetworkMonitor: a new NetworkMonitor unless one is there
StartMonitor ==
  /\ Goto(Main, "monitor", "started")
  /\ monitor' = TRUE
  /\ UNCHANGED <<running, builtOn, stops, reloading, cfg, receiver, ui,
                 upstream, owned, cb, announced, dropped>>

Launch(l) == BuildConfig(l) \/ StartLoop(l) \/ FinishLaunch(l)

-----------------------------------------------------------------------------
(* stopCoreLoop *)

\* mutant: the monitor is dropped without being unregistered
UnregisterNothing(t) == UNCHANGED <<monitorVars, pc>>

\* NetworkMonitor.unregister on thread t, which cancels a handover job that still
\* waits in its delay; Main, if it made the call, is soon done with its callback
Unregister(t) ==
  /\ monitor' = FALSE
  /\ upstream' = NoNet
  /\ owned' = {}
  /\ cb' = IF cb = "live" THEN "stale" ELSE cb
  /\ announced' = NoNet
  /\ dropped' = FALSE
  /\ pc' = [l \in Launchers |->
              IF l = t \/ (l \in owned /\ pc[l] = "debounce")
              THEN "idle" ELSE pc[l]]

\* the body of stopCoreLoop, for a step of a service on thread t.  stopLoop is
\* only launched, and only if the core runs at this moment.
StopCoreLoopOn(t) ==
  /\ Unregister(t)
  /\ stops' = IF running THEN stops + 1 ELSE stops
  /\ ui' = "STOP_SUCCESS"
  /\ receiver' = FALSE
  /\ UNCHANGED <<running, builtOn, reloading, cfg>>
StopCoreLoop == StopCoreLoopOn(Main)

\* mutant: the coroutine is launched and the core stays up
StopLoopNothing ==
  /\ stops > 0
  /\ stops' = stops - 1
  /\ UNCHANGED <<running, builtOn, reloading, pc, cfg, receiver, ui, monitorVars>>

\* a launched coroutine runs coreController.stopLoop
StopLoop ==
  /\ stops > 0
  /\ stops' = stops - 1
  /\ running' = FALSE
  /\ builtOn' = NoNet
  /\ UNCHANGED <<reloading, pc, cfg, receiver, ui, monitorVars>>

-----------------------------------------------------------------------------
(* NetworkMonitor *)

\* the device moves to another network, once the last move was announced
NetworkChange ==
  /\ changes < MaxChanges
  /\ monitor => upstream = net
  /\ \E n \in Networks \ {net} : net' = n
  /\ changes' = changes + 1
  /\ UNCHANGED <<coreVars, monitorVars>>

\* onAvailable on the connectivity thread, up to the test for a handover
OnAvailable ==
  /\ monitor /\ cb = "none"
  /\ upstream # net
  /\ upstream' = net
  /\ cb' = IF upstream # NoNet THEN "live" ELSE "none"
  /\ UNCHANGED <<monitor, owned, announced, dropped, coreVars>>

\* scheduleHandover: a job that still waits is replaced.  A callback that was
\* overtaken by unregister schedules a job that nobody cancels any more.
ScheduleHandover ==
  /\ cb # "none"
  /\ \E j \in Jobs :
       /\ pc[j] = "idle" \/ (cb = "live" /\ j \in owned /\ pc[j] = "debounce")
       /\ pc' = [l \in Launchers |->
                   IF l = j THEN "debounce"
                   ELSE IF cb = "live" /\ l \in owned /\ pc[l] = "debounce"
                   THEN "idle" ELSE pc[l]]
       /\ owned' = IF cb = "live" THEN {j} ELSE owned
  /\ announced' = IF cb = "live" THEN upstream ELSE announced
  /\ dropped' = IF cb = "live" THEN FALSE ELSE dropped
  /\ cb' = "none"
  /\ UNCHANGED <<running, builtOn, stops, reloading, cfg, receiver, ui,
                 monitor, upstream>>

\* the debounce delay ends and onHandover calls reloadCore
Debounced(j) ==
  /\ Goto(j, "debounce", "check")
  /\ UNCHANGED <<running, builtOn, stops, reloading, cfg, receiver, ui, monitorVars>>

\* reloadCore up to isReloading = true.  The tests and the assignment are one
\* step: two jobs are a debounce delay apart.
EnterReload(j) ==
  /\ pc[j] = "check"
  /\ IF reloading \/ ~running
       THEN /\ pc' = [pc EXCEPT ![j] = "idle"]
            /\ dropped' = TRUE
            /\ UNCHANGED reloading
       ELSE /\ pc' = [pc EXCEPT ![j] = "stop"]
            /\ reloading' = TRUE
            /\ UNCHANGED dropped
  /\ UNCHANGED <<running, builtOn, stops, cfg, receiver, ui,
                 monitor, upstream, owned, cb, announced>>

\* mutant: the reload does not stop the core
ReloadStopMissing(j) ==
  /\ Goto(j, "stop", "build")
  /\ UNCHANGED <<running, builtOn, stops, reloading, cfg, receiver, ui, monitorVars>>

\* reloadCore stops the core itself before it launches the new one
ReloadStop(j) ==
  /\ Goto(j, "stop", "build")
  /\ running' = FALSE
  /\ builtOn' = NoNet
  /\ UNCHANGED <<stops, reloading, cfg, receiver, ui, monitorVars>>

Handover ==
  \/ OnAvailable \/ ScheduleHandover
  \/ \E j \in Jobs : Debounced(j) \/ EnterReload(j) \/ ReloadStop(j) \/ Launch(j)

\* nothing of the manager is under way
CoreQuiet ==
  /\ \A l \in Launchers : pc[l] = "idle"
  /\ stops = 0
  /\ cb = "none"
  /\ monitor => upstream = net
=============================================================================
