---------------------------- MODULE ServiceHost ----------------------------
(***************************************************************************)
(* What the services of the three run modes share: Android creates, starts *)
(* and destroys the service object on the main thread of the daemon, the   *)
(* user starts, stops and restarts it (LauncherManager and the receiver of *)
(* CoreServiceManager), and its start command runs startCoreLoop.          *)
(*                                                                         *)
(* Android itself (which service record is alive, the order in which its   *)
(* callbacks reach the main thread) is external and modelled as far as the *)
(* code depends on it.                                                     *)
(***************************************************************************)
EXTENDS CoreService, Sequences

CONSTANTS
  MaxStarts,    \* bound: start requests, those of restarts included
  PromptStop    \* assumption on time: a launched stopLoop, and in VPN mode the
                \* stop a revocation begins, is over before the next start command
                \* is handled, and a restart waits for the service to be destroyed

ASSUME ServiceHostAssumption ==
  /\ MaxStarts \in Nat
  /\ PromptStop \in BOOLEAN

VARIABLES
  alive,     \* the service record Android keeps, 0 if none
  starts,    \* start requests so far; numbers the records
  calls,     \* callbacks on their way to the main thread
  self,      \* the service object serviceControl points to
  restart    \* the coroutine of a restart request, and the service object it
             \* holds; "done": the user's last request was a restart, and its
             \* start was requested

hostVars == <<alive, starts, calls, self, restart>>

Calls == [op : {"create", "start", "destroy"}, of : 1..MaxStarts]
Restarts == [at : {"none", "stop", "start", "done"}, of : 0..MaxStarts]

HostTypeOK ==
  /\ CoreTypeOK
  /\ alive \in 0..MaxStarts
  /\ starts \in 0..MaxStarts
  /\ calls \in Seq(Calls)
  /\ self \in 0..MaxStarts
  /\ restart \in Restarts

Restart(at, s) == [at |-> at, of |-> s]

HostInit ==
  /\ CoreInit
  /\ alive = 0 /\ starts = 0 /\ calls = <<>> /\ self = 0
  /\ restart = Restart("none", 0)

Call(op, s) == [op |-> op, of |-> s]

-----------------------------------------------------------------------------
(* Android and the user *)

\* startForegroundService: a start call, to a new object if none is alive
Request ==
  /\ starts < MaxStarts
  /\ starts' = starts + 1
  /\ alive' = IF alive = 0 THEN starts + 1 ELSE alive
  /\ calls' = IF alive = 0
              THEN calls \o <<Call("create", starts + 1), Call("start", starts + 1)>>
              ELSE Append(calls, Call("start", alive))

\* stopSelf() of service object s; nothing if its record is gone
StopSelf(s) ==
  IF alive = s /\ s # 0
    THEN alive' = 0 /\ calls' = Append(calls, Call("destroy", s))
    ELSE UNCHANGED <<alive, calls>>

MainIdle == pc[Main] = "idle"

\* what becomes of a finished restart when the user asks for something else
Forget == restart' = IF restart.at = "done" THEN Restart("none", 0) ELSE restart

\* LauncherManager.startService from the UI, tile or widget
UserStart ==
  /\ Request
  /\ Forget
  /\ UNCHANGED <<self, coreVars, monitorVars, netVars>>

\* MSG_STATE_STOP reaches the receiver, on the main thread
UserStop ==
  /\ MainIdle /\ receiver
  /\ StopSelf(self)
  /\ Forget
  /\ UNCHANGED <<starts, self, coreVars, monitorVars, netVars>>

\* MSG_STATE_RESTART reaches the receiver and launches its coroutine, which
\* holds on to the service object of this moment
UserRestart ==
  /\ MainIdle /\ receiver
  /\ restart.at \in {"none", "done"}
  /\ restart' = Restart("stop", self)
  /\ UNCHANGED <<alive, starts, calls, self, coreVars, monitorVars, netVars>>

RestartStop ==
  /\ restart.at = "stop"
  /\ StopSelf(restart.of)
  /\ restart' = Restart("start", 0)
  /\ UNCHANGED <<starts, self, coreVars, monitorVars, netVars>>

\* 500 ms later; LauncherManager.startService may also give up
RestartStart ==
  /\ restart.at = "start"
  /\ PromptStop => calls = <<>> /\ MainIdle
  /\ \/ Request /\ restart' = Restart("done", 0)
     \/ UNCHANGED <<alive, starts, calls>> /\ restart' = Restart("none", 0)
  /\ UNCHANGED <<self, coreVars, monitorVars, netVars>>

Users == UserStart \/ UserStop \/ UserRestart
Restarter == RestartStop \/ RestartStart

-----------------------------------------------------------------------------
(* The service on the main thread *)

\* the main thread takes the next callback
Take(op) ==
  /\ MainIdle
  /\ calls # <<>> /\ Head(calls).op = op
  /\ calls' = Tail(calls)

OnCreate ==
  /\ Take("create")
  /\ self' = Head(calls).of
  /\ UNCHANGED <<alive, starts, restart, coreVars, monitorVars, netVars>>

\* onStartCommand: nothing to do when a core runs, else startCoreLoop
OnStartCommand ==
  /\ Take("start")
  /\ PromptStop => stops = 0
  /\ IF running THEN UNCHANGED <<coreVars, monitorVars>> ELSE StartCoreLoop
  /\ UNCHANGED <<alive, starts, self, restart, netVars>>

\* startCoreLoop returned to onStartCommand; a failure ends the service
Returned(how) ==
  /\ pc[Main] = how
  /\ pc' = [pc EXCEPT ![Main] = "idle"]
  /\ IF how = "failed" THEN StopSelf(self) ELSE UNCHANGED <<alive, calls>>
  /\ UNCHANGED <<running, builtOn, stops, reloading, cfg, receiver, ui>>
  /\ UNCHANGED <<starts, self, restart, monitorVars, netVars>>

\* startCoreLoop goes on
StartStep ==
  /\ Launch(Main) \/ StartMonitor
  /\ UNCHANGED <<netVars, hostVars>>

-----------------------------------------------------------------------------
(* Everything that is not the main thread *)

StopStep == StopLoop /\ UNCHANGED <<netVars, hostVars>>
MonitorStep == (OnAvailable \/ ScheduleHandover) /\ UNCHANGED <<netVars, hostVars>>
JobStep(j) ==
  /\ Debounced(j) \/ EnterReload(j) \/ ReloadStop(j) \/ Launch(j)
  /\ UNCHANGED <<netVars, hostVars>>
NetworkStep == NetworkChange /\ UNCHANGED hostVars

Background == StopStep \/ MonitorStep \/ \E j \in Jobs : JobStep(j)

\* everything that was asked for is done
Quiet == CoreQuiet /\ calls = <<>> /\ restart.at \in {"none", "done"}

-----------------------------------------------------------------------------
(* What every run mode keeps *)

\* When the last service is gone, with no callback left to handle, nothing
\* it registered is left: neither the network monitor nor the receiver
\* (CoreServiceManager.kt:196-197, 217-221), and no start is under way, unless
\* its onDestroy is still at work.
NothingLeftBehind ==
  alive = 0 /\ calls = <<>> =>
    pc[Main] \in ServicePC \/ (~monitor /\ ~receiver /\ MainIdle)

\* What makes it inductive: while no record is alive the last callback that is
\* on its way is a destroy, so it runs after every start.
LastCallDestroys ==
  alive = 0 /\ calls # <<>> => calls[Len(calls)].op = "destroy"

\* The inductive invariant: types, and the two facts above.
HostInv == HostTypeOK /\ LastCallDestroys /\ NothingLeftBehind
=============================================================================
