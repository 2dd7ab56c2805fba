----------------------- MODULE ServiceHost_proofs -----------------------
(***************************************************************************)
(* What the operations of CoreService and ServiceHost preserve, whichever  *)
(* service composes them: the types, what a step of a job, of the monitor  *)
(* or of a stop coroutine leaves alone of what the main thread owns, and   *)
(* the facts about the queue of callbacks that HostInv is made of.         *)
(***************************************************************************)
EXTENDS ServiceHost, TLAPS


\* what only the main thread changes
MainOwned == <<pc[Main], monitor, receiver>>

\* a step of l that goes to a place l may be at keeps the program counters
\* in range
LEMMA GotoKeepsPc ==
  ASSUME PcOK, NEW l \in Launchers, NEW to, cfg' \in [Launchers -> Networks \cup {NoNet}],
         pc' = [pc EXCEPT ![l] = to],
         l = Main => to \in MainPC \cup ServicePC,
         l # Main => to \in JobPC
  PROVE  PcOK' /\ (l # Main => pc'[Main] = pc[Main])
  <1>1. Main \notin Jobs
    BY CoreServiceAssumption
  <1>2. to \in JobPC \cup MainPC \cup ServicePC
    OBVIOUS
  <1>3. pc' \in [Launchers -> JobPC \cup MainPC \cup ServicePC]
    BY <1>2 DEF PcOK
  <1>4. pc'[Main] \in MainPC \cup ServicePC
    BY DEF PcOK, Launchers
  <1>5. \A j \in Jobs : pc'[j] \in JobPC
    BY <1>1 DEF PcOK, Launchers
  <1>6. l # Main => pc'[Main] = pc[Main]
    BY DEF PcOK, Launchers
  <1> QED
    BY <1>3, <1>4, <1>5, <1>6 DEF PcOK

\* a failed launch clears what it built
LEMMA FailureKeepsTypes ==
  ASSUME PcOK, NEW l \in Launchers, LaunchFails(l)
  PROVE  /\ PcOK'
         /\ l # Main => pc'[Main] = pc[Main]
         /\ reloading' \in {reloading, FALSE}
         /\ ui' \in UiMessages
  <1>1. cfg' \in [Launchers -> Networks \cup {NoNet}]
    BY DEF PcOK, LaunchFails
  <1>2. PcOK' /\ (l # Main => pc'[Main] = pc[Main])
    BY <1>1, GotoKeepsPc DEF LaunchFails, MainPC, JobPC
  <1> QED
    BY <1>2 DEF LaunchFails, UiMessages

\* the initial states are in range
LEMMA CoreInitTypes == CoreInit => CoreTypeOK
  <1> SUFFICES ASSUME CoreInit PROVE CoreTypeOK
    OBVIOUS
  <1>1. Main \notin Jobs /\ MaxChanges \in Nat
    BY CoreServiceAssumption
  <1>2. FlagsOK
    BY Zenon DEF CoreInit, FlagsOK
  <1>3. PcOK
    <2>1. pc \in [Launchers -> JobPC \cup MainPC \cup ServicePC]
      BY DEF CoreInit, JobPC
    <2>2. pc[Main] \in MainPC \cup ServicePC /\ \A j \in Jobs : pc[j] \in JobPC
      BY DEF CoreInit, JobPC, MainPC, Launchers
    <2>3. cfg \in [Launchers -> Networks \cup {NoNet}]
      BY DEF CoreInit
    <2> QED
      BY <2>1, <2>2, <2>3 DEF PcOK
  <1>4. DataOK
    BY <1>1 DEF CoreInit, DataOK, UiMessages
  <1> QED
    BY <1>2, <1>3, <1>4 DEF CoreTypeOK

\* launchCore, on the main thread or in a job
LEMMA LaunchKeepsTypes ==
  ASSUME CoreTypeOK, NEW l \in Launchers, Launch(l), UNCHANGED netVars
  PROVE  /\ CoreTypeOK'
         /\ l # Main => UNCHANGED MainOwned
         /\ l = Main => pc[Main] \in LaunchPC
  <1> USE DEF CoreTypeOK
  <1>1. CASE BuildConfig(l)
    <2>1. CASE LaunchFails(l)
      <3>1. FlagsOK'
        BY <1>1, <2>1, FailureKeepsTypes DEF BuildConfig, FlagsOK, monitorVars
      <3>2. DataOK'
        BY <1>1, <2>1, FailureKeepsTypes DEF BuildConfig, DataOK, monitorVars, netVars
      <3> QED
        BY <1>1, <2>1, <3>1, <3>2, FailureKeepsTypes
        DEF BuildConfig, LaunchPC, MainOwned, monitorVars
    <2>2. CASE /\ pc' = [pc EXCEPT ![l] = "launch"]
               /\ cfg' = [cfg EXCEPT ![l] = net]
               /\ UNCHANGED <<reloading, ui>>
      <3>1. cfg' \in [Launchers -> Networks \cup {NoNet}]
        BY <2>2 DEF PcOK, DataOK
      <3>2. PcOK' /\ (l # Main => pc'[Main] = pc[Main])
        BY <2>2, <3>1, GotoKeepsPc DEF MainPC, JobPC, LaunchPC
      <3>3. FlagsOK' /\ DataOK'
        BY <1>1, <2>2 DEF BuildConfig, FlagsOK, DataOK, monitorVars, netVars
      <3> QED
        BY <1>1, <3>2, <3>3 DEF BuildConfig, LaunchPC, MainOwned, monitorVars
    <2> QED
      BY <1>1, <2>1, <2>2 DEF BuildConfig
  <1>2. CASE StartLoop(l)
    <2>1. CASE LaunchFails(l) /\ UNCHANGED <<running, builtOn>>
      <3>1. FlagsOK'
        BY <1>2, <2>1, FailureKeepsTypes DEF StartLoop, FlagsOK, monitorVars
      <3>2. DataOK'
        BY <1>2, <2>1, FailureKeepsTypes DEF StartLoop, DataOK, monitorVars, netVars
      <3> QED
        BY <1>2, <2>1, <3>1, <3>2, FailureKeepsTypes
        DEF StartLoop, LaunchPC, MainOwned, monitorVars
    <2>2. CASE /\ running' = TRUE
               /\ builtOn' = IF running THEN builtOn ELSE cfg[l]
               /\ pc' = [pc EXCEPT ![l] = "verify"]
               /\ cfg' = [cfg EXCEPT ![l] = NoNet]
               /\ UNCHANGED <<reloading, ui>>
      <3>1. cfg' \in [Launchers -> Networks \cup {NoNet}]
        BY <2>2 DEF PcOK
      <3>2. PcOK' /\ (l # Main => pc'[Main] = pc[Main])
        BY <2>2, <3>1, GotoKeepsPc DEF MainPC, JobPC, LaunchPC
      <3>3. FlagsOK'
        BY <1>2, <2>2 DEF StartLoop, FlagsOK, monitorVars
      <3>4. DataOK'
        BY <1>2, <2>2 DEF StartLoop, DataOK, PcOK, monitorVars, netVars
      <3> QED
        BY <1>2, <3>2, <3>3, <3>4 DEF StartLoop, LaunchPC, MainOwned, monitorVars
    <2> QED
      BY <1>2, <2>1, <2>2 DEF StartLoop
  <1>3. CASE FinishLaunch(l)
    <2>1. CASE LaunchFails(l)
      <3>1. FlagsOK'
        BY <1>3, <2>1, FailureKeepsTypes DEF FinishLaunch, FlagsOK, monitorVars
      <3>2. DataOK'
        BY <1>3, <2>1, FailureKeepsTypes DEF FinishLaunch, DataOK, monitorVars, netVars
      <3> QED
        BY <1>3, <2>1, <3>1, <3>2, FailureKeepsTypes
        DEF FinishLaunch, LaunchPC, MainOwned, monitorVars
    <2>2. CASE /\ pc' = [pc EXCEPT ![l] = IF l = Main THEN "monitor" ELSE "idle"]
               /\ reloading' = IF l = Main THEN reloading ELSE FALSE
               /\ ui' = IF l = Main THEN "START_SUCCESS" ELSE ui
               /\ UNCHANGED cfg
      <3>1. PcOK' /\ (l # Main => pc'[Main] = pc[Main])
        BY <2>2, GotoKeepsPc DEF MainPC, JobPC, PcOK
      <3>2. FlagsOK'
        BY <1>3, <2>2 DEF FinishLaunch, FlagsOK, monitorVars
      <3>3. DataOK'
        BY <1>3, <2>2 DEF FinishLaunch, DataOK, UiMessages, monitorVars, netVars
      <3> QED
        BY <1>3, <3>1, <3>2, <3>3 DEF FinishLaunch, LaunchPC, MainOwned, monitorVars
    <2> QED
      BY <1>3, <2>1, <2>2 DEF FinishLaunch
  <1> QED
    BY <1>1, <1>2, <1>3 DEF Launch

\* the steps of a handover job outside launchCore
LEMMA JobKeepsTypes ==
  ASSUME CoreTypeOK, NEW j \in Jobs,
         Debounced(j) \/ EnterReload(j) \/ ReloadStop(j), UNCHANGED netVars
  PROVE  CoreTypeOK' /\ UNCHANGED MainOwned
  <1> USE DEF CoreTypeOK
  <1>1. j \in Launchers /\ j # Main
    BY CoreServiceAssumption DEF Launchers
  <1>2. \E to \in JobPC : pc' = [pc EXCEPT ![j] = to]
    BY DEF Debounced, EnterReload, ReloadStop, Goto, JobPC, LaunchPC
  <1>3. cfg' = cfg
    BY DEF Debounced, EnterReload, ReloadStop
  <1>4. PcOK' /\ pc'[Main] = pc[Main]
    BY <1>1, <1>2, <1>3, GotoKeepsPc DEF PcOK
  <1>5. FlagsOK'
    BY DEF Debounced, EnterReload, ReloadStop, Goto, FlagsOK, monitorVars
  <1>6. DataOK'
    BY DEF Debounced, EnterReload, ReloadStop, Goto, DataOK, monitorVars, netVars
  <1> QED
    BY <1>4, <1>5, <1>6
    DEF Debounced, EnterReload, ReloadStop, MainOwned, monitorVars

\* the callback of the network monitor
LEMMA MonitorKeepsTypes ==
  ASSUME CoreTypeOK, OnAvailable \/ ScheduleHandover, UNCHANGED netVars
  PROVE  CoreTypeOK' /\ UNCHANGED MainOwned
  <1> USE DEF CoreTypeOK
  <1>0. Main \notin Jobs
    BY CoreServiceAssumption
  <1>1. CASE OnAvailable
    <2>1. PcOK' /\ pc' = pc
      BY <1>1 DEF OnAvailable, PcOK, coreVars
    <2>2. FlagsOK'
      BY <1>1 DEF OnAvailable, FlagsOK, coreVars
    <2>3. DataOK'
      BY <1>1 DEF OnAvailable, DataOK, coreVars, netVars
    <2> QED
      BY <1>1, <2>1, <2>2, <2>3 DEF OnAvailable, MainOwned, coreVars
  <1>2. CASE ScheduleHandover
    <2>1. PICK j \in Jobs :
            /\ pc' = [l \in Launchers |->
                        IF l = j THEN "debounce"
                        ELSE IF cb = "live" /\ l \in owned /\ pc[l] = "debounce"
                        THEN "idle" ELSE pc[l]]
            /\ owned' = IF cb = "live" THEN {j} ELSE owned
      BY <1>2 DEF ScheduleHandover
    <2>2. pc'[Main] = pc[Main]
      BY <1>0, <2>1 DEF DataOK, Launchers
    <2>3. \A i \in Jobs : pc'[i] \in JobPC
      BY <2>1 DEF PcOK, JobPC, Launchers
    <2>4. pc' \in [Launchers -> JobPC \cup MainPC \cup ServicePC]
      BY <2>1 DEF PcOK, JobPC
    <2>5. PcOK'
      BY <1>2, <2>2, <2>3, <2>4 DEF PcOK, ScheduleHandover
    <2>6. FlagsOK'
      BY <1>2 DEF ScheduleHandover, FlagsOK
    <2>7. DataOK'
      BY <1>2, <2>1 DEF ScheduleHandover, DataOK, netVars
    <2> QED
      BY <1>2, <2>2, <2>5, <2>6, <2>7 DEF ScheduleHandover, MainOwned
  <1> QED
    BY <1>1, <1>2

\* the coroutine stopCoreLoop launches
LEMMA StopLoopKeepsTypes ==
  ASSUME CoreTypeOK, StopLoop, UNCHANGED netVars
  PROVE  CoreTypeOK' /\ UNCHANGED MainOwned
  <1>1. FlagsOK'
    BY DEF CoreTypeOK, StopLoop, FlagsOK, monitorVars
  <1>2. DataOK'
    BY DEF CoreTypeOK, StopLoop, DataOK, monitorVars, netVars
  <1> QED
    BY <1>1, <1>2 DEF CoreTypeOK, PcOK, StopLoop, MainOwned, monitorVars

\* startCoreLoop registers the receiver and enters launchCore
LEMMA StartKeepsTypes ==
  ASSUME CoreTypeOK, StartCoreLoop, UNCHANGED netVars
  PROVE  CoreTypeOK' /\ monitor' = monitor
  <1>1. PcOK'
    BY GotoKeepsPc DEF CoreTypeOK, StartCoreLoop, Goto, PcOK, MainPC, LaunchPC, Launchers
  <1>2. FlagsOK'
    BY DEF CoreTypeOK, StartCoreLoop, FlagsOK, monitorVars
  <1>3. DataOK'
    BY DEF CoreTypeOK, StartCoreLoop, DataOK, monitorVars, netVars
  <1> QED
    BY <1>1, <1>2, <1>3 DEF CoreTypeOK, StartCoreLoop, monitorVars

LEMMA StartMonitorKeepsTypes ==
  ASSUME CoreTypeOK, StartMonitor, UNCHANGED netVars
  PROVE  CoreTypeOK' /\ pc[Main] = "monitor"
  <1>1. PcOK'
    BY GotoKeepsPc DEF CoreTypeOK, StartMonitor, Goto, PcOK, MainPC, Launchers
  <1>2. FlagsOK'
    BY DEF CoreTypeOK, StartMonitor, FlagsOK
  <1>3. DataOK'
    BY DEF CoreTypeOK, StartMonitor, DataOK, netVars
  <1> QED
    BY <1>1, <1>2, <1>3 DEF CoreTypeOK, StartMonitor, Goto

\* stopCoreLoop takes the monitor and the receiver down
LEMMA StopCoreKeepsTypes ==
  ASSUME CoreTypeOK, StopCoreLoop, UNCHANGED netVars
  PROVE  CoreTypeOK' /\ pc'[Main] = "idle" /\ ~monitor' /\ ~receiver'
  <1> USE DEF CoreTypeOK, StopCoreLoop, StopCoreLoopOn, Unregister
  <1>0. Main \notin Jobs
    BY CoreServiceAssumption
  <1>1. pc'[Main] = "idle"
    BY DEF Launchers
  <1>2. pc' \in [Launchers -> JobPC \cup MainPC \cup ServicePC]
    BY DEF PcOK, JobPC
  <1>3. \A j \in Jobs : pc'[j] \in JobPC
    BY <1>0 DEF PcOK, JobPC, Launchers
  <1>4. PcOK'
    BY <1>1, <1>2, <1>3 DEF PcOK, MainPC
  <1>5. FlagsOK'
    BY DEF FlagsOK
  <1>6. DataOK'
    BY DEF DataOK, UiMessages, netVars
  <1> QED
    BY <1>1, <1>4, <1>5, <1>6

-----------------------------------------------------------------------------
(* Callbacks *)

\* taking the first of several calls leaves the last one where it is
LEMMA TailKeepsLast ==
  ASSUME NEW S, NEW s \in Seq(S), s # <<>>
  PROVE  /\ Tail(s) \in Seq(S)
         /\ Tail(s) # <<>> => Tail(s)[Len(Tail(s))] = s[Len(s)]
         /\ Tail(s) = <<>> => Head(s) = s[Len(s)]
  <1>1. Len(s) \in Nat \ {0} /\ Head(s) = s[1]
    OBVIOUS
  <1>2. Tail(s) \in Seq(S) /\ Len(Tail(s)) = Len(s) - 1
    OBVIOUS
  <1>3. Tail(s) # <<>> => Len(Tail(s)) >= 1
    BY <1>2
  <1>4. ASSUME Tail(s) # <<>>
        PROVE  Tail(s)[Len(Tail(s))] = s[Len(s)]
    BY <1>1, <1>2, <1>3, <1>4
  <1>5. Tail(s) = <<>> => Len(s) = 1
    <2>1. Len(<<>>) = 0
      OBVIOUS
    <2>2. SUFFICES ASSUME Tail(s) = <<>> PROVE Len(Tail(s)) = 0
      BY <1>1, <1>2
    <2> QED
      BY <2>1, <2>2
  <1> QED
    BY <1>1, <1>2, <1>4, <1>5

LEMMA AppendIsLast ==
  ASSUME NEW S, NEW s \in Seq(S), NEW e \in S
  PROVE  /\ Append(s, e) \in Seq(S)
         /\ Append(s, e) # <<>>
         /\ Append(s, e)[Len(Append(s, e))] = e
  OBVIOUS

\* a start request makes a record alive and keeps the types of the host
LEMMA RequestKeepsTypes ==
  ASSUME HostTypeOK, Request
  PROVE  /\ alive' \in 1..MaxStarts /\ starts' \in 0..MaxStarts
         /\ calls' \in Seq(Calls)
  <1>1. starts + 1 \in 1..MaxStarts /\ MaxStarts \in Nat
    BY ServiceHostAssumption DEF HostTypeOK, Request
  <1>2. alive' \in 1..MaxStarts /\ starts' \in 0..MaxStarts
    BY <1>1 DEF HostTypeOK, Request
  <1>3. CASE alive = 0
    <2>1. Call("create", starts + 1) \in Calls /\ Call("start", starts + 1) \in Calls
      BY <1>1 DEF Call, Calls
    <2> QED
      BY <1>2, <1>3, <2>1 DEF HostTypeOK, Request
  <1>4. CASE alive # 0
    <2>1. Call("start", alive) \in Calls
      BY <1>4 DEF Call, Calls, HostTypeOK
    <2> QED
      BY <1>2, <1>4, <2>1 DEF HostTypeOK, Request
  <1> QED
    BY <1>3, <1>4

\* stopSelf either changes nothing or queues the destroy that ends the record
LEMMA StopSelfKeepsInv ==
  ASSUME HostTypeOK, LastCallDestroys, NEW s, StopSelf(s)
  PROVE  /\ alive' \in 0..MaxStarts
         /\ calls' \in Seq(Calls)
         /\ LastCallDestroys'
         /\ calls' = <<>> => UNCHANGED <<alive, calls>>
  <1>1. CASE alive = s /\ s # 0
    <2>1. Call("destroy", s) \in Calls
      BY <1>1 DEF HostTypeOK, Call, Calls
    <2>2. calls' = Append(calls, Call("destroy", s)) /\ alive' = 0
      BY <1>1 DEF StopSelf
    <2>3. /\ calls' \in Seq(Calls) /\ calls' # <<>>
          /\ calls'[Len(calls')] = Call("destroy", s)
      BY <2>1, <2>2, AppendIsLast DEF HostTypeOK
    <2> QED
      BY <2>2, <2>3, ServiceHostAssumption DEF LastCallDestroys, Call
  <1>2. CASE ~(alive = s /\ s # 0)
    BY <1>2 DEF StopSelf, HostTypeOK, LastCallDestroys
  <1> QED
    BY <1>1, <1>2

\* the main thread takes a callback; only a destroy can be the last one of
\* a record that is gone
LEMMA TakeKeepsCalls ==
  ASSUME HostInv, NEW op, Take(op), UNCHANGED alive
  PROVE  /\ calls' \in Seq(Calls)
         /\ LastCallDestroys'
         /\ alive' = 0 /\ calls' = <<>> => op = "destroy"
         /\ Head(calls).of \in 0..MaxStarts
  <1>1. calls \in Seq(Calls) /\ calls # <<>>
    BY DEF HostInv, HostTypeOK, Take
  <1>2. /\ calls' \in Seq(Calls)
        /\ calls' # <<>> => calls'[Len(calls')] = calls[Len(calls)]
        /\ calls' = <<>> => Head(calls) = calls[Len(calls)]
    BY <1>1, TailKeepsLast DEF Take
  <1>3. Head(calls) \in Calls
    BY <1>1
  <1>4. Head(calls).of \in 0..MaxStarts
    BY <1>3, ServiceHostAssumption DEF Calls
  <1> QED
    BY <1>1, <1>2, <1>4 DEF HostInv, LastCallDestroys, Take

-----------------------------------------------------------------------------
(* Steps of ServiceHost *)

LEMMA HostInitInv == HostInit => HostInv
  <1> SUFFICES ASSUME HostInit PROVE HostInv
    OBVIOUS
  <1>1. CoreTypeOK
    BY CoreInitTypes DEF HostInit
  <1>2. HostTypeOK
    BY <1>1, ServiceHostAssumption DEF HostInit, HostTypeOK, Restart, Restarts
  <1> QED
    BY <1>2 DEF HostInit, CoreInit, HostInv, LastCallDestroys,
        NothingLeftBehind, MainIdle, Launchers

LEMMA HostStutters ==
  ASSUME HostInv, UNCHANGED <<coreVars, monitorVars, netVars, hostVars>>
  PROVE  HostInv'
  BY DEF hostVars, coreVars, monitorVars, netVars, HostInv, HostTypeOK, CoreTypeOK,
      FlagsOK, PcOK, DataOK, LastCallDestroys, NothingLeftBehind, MainIdle

\* stopSelf, from whichever thread
LEMMA StopSelfKeepsHost ==
  ASSUME HostInv, NEW s, StopSelf(s),
         UNCHANGED <<starts, self, coreVars, monitorVars, netVars>>,
         restart' \in Restarts
  PROVE  HostInv'
  <1>1. CoreTypeOK' /\ UNCHANGED <<monitor, receiver, pc>>
    BY DEF HostInv, HostTypeOK, CoreTypeOK, FlagsOK, PcOK, DataOK, coreVars,
        monitorVars, netVars
  <1> QED
    BY <1>1, StopSelfKeepsInv DEF HostInv, HostTypeOK, NothingLeftBehind, MainIdle

\* a step of the user or of a restart
LEMMA UserKeepsInv ==
  ASSUME HostInv, Users \/ Restarter
  PROVE  HostInv' /\ UNCHANGED <<pc, self>>
  <1> USE DEF HostInv
  <1>1. UNCHANGED <<starts, self, coreVars, monitorVars, netVars>> \/ Request
    BY DEF Users, Restarter, UserStart, UserStop, UserRestart, RestartStop, RestartStart
  <1>2. CoreTypeOK' /\ UNCHANGED <<monitor, receiver, pc, self>>
    BY DEF Users, Restarter, UserStart, UserStop, UserRestart, RestartStop,
        RestartStart, HostTypeOK, CoreTypeOK, FlagsOK, PcOK, DataOK,
        coreVars, monitorVars, netVars
  <1>3. restart' \in Restarts
    <2>1. \A at \in {"none", "stop", "start", "done"}, s \in 0..MaxStarts :
            Restart(at, s) \in Restarts
      BY DEF Restart, Restarts
    <2>2. 0 \in 0..MaxStarts
      BY ServiceHostAssumption
    <2> QED
      BY <2>1, <2>2 DEF Users, Restarter, UserStart, UserStop, UserRestart, RestartStop,
          RestartStart, HostTypeOK, Forget
  <1>4. CASE Request
    <2>1. alive' \in 1..MaxStarts /\ starts' \in 0..MaxStarts /\ calls' \in Seq(Calls)
      BY <1>4, RequestKeepsTypes
    <2>2. alive' # 0 /\ alive' \in 0..MaxStarts
      BY <2>1, ServiceHostAssumption
    <2> QED
      BY <1>2, <1>3, <2>1, <2>2
      DEF HostTypeOK, LastCallDestroys, NothingLeftBehind
  <1>5. CASE \E s : StopSelf(s) /\ UNCHANGED starts
    BY <1>2, <1>3, <1>5, StopSelfKeepsInv
    DEF HostTypeOK, NothingLeftBehind, MainIdle
  <1>6. CASE UNCHANGED <<alive, starts, calls>>
    BY <1>2, <1>3, <1>6 DEF HostTypeOK, LastCallDestroys, NothingLeftBehind, MainIdle
  <1> QED
    BY <1>2, <1>4, <1>5, <1>6 DEF Users, Restarter, UserStart, UserStop, UserRestart,
        RestartStop, RestartStart

\* a step of any other thread, or of the network, leaves the main thread its own
LEMMA BackgroundMainOwned ==
  ASSUME CoreTypeOK, Background \/ NetworkStep
  PROVE  CoreTypeOK' /\ UNCHANGED MainOwned
  <1>1. CASE StopStep
    BY <1>1, StopLoopKeepsTypes DEF StopStep
  <1>2. CASE MonitorStep
    BY <1>2, MonitorKeepsTypes DEF MonitorStep
  <1>3. ASSUME NEW j \in Jobs, JobStep(j)
        PROVE  CoreTypeOK' /\ UNCHANGED MainOwned
    <2>1. j \in Launchers /\ j # Main
      BY CoreServiceAssumption DEF Launchers
    <2>2. CASE Launch(j)
      BY <1>3, <2>1, <2>2, LaunchKeepsTypes DEF JobStep
    <2>3. CASE Debounced(j) \/ EnterReload(j) \/ ReloadStop(j)
      BY <1>3, <2>3, JobKeepsTypes DEF JobStep
    <2> QED
      BY <1>3, <2>2, <2>3 DEF JobStep
  <1>4. CASE NetworkStep
    <2>1. net' \in Networks /\ changes' \in 0..MaxChanges
      BY <1>4, CoreServiceAssumption DEF NetworkStep, NetworkChange, CoreTypeOK, DataOK
    <2> QED
      BY <1>4, <2>1 DEF NetworkStep, NetworkChange, CoreTypeOK,
          FlagsOK, PcOK, DataOK, MainOwned, coreVars, monitorVars
  <1> QED
    BY <1>1, <1>2, <1>3, <1>4 DEF Background

LEMMA BackgroundKeepsInv ==
  ASSUME HostInv, Background \/ NetworkStep
  PROVE  HostInv' /\ pc'[Main] = pc[Main] /\ UNCHANGED self
  <1> USE DEF HostInv
  <1>1. UNCHANGED hostVars
    BY DEF Background, NetworkStep, StopStep, MonitorStep, JobStep
  <1>2. CoreTypeOK' /\ UNCHANGED MainOwned
    BY BackgroundMainOwned DEF HostTypeOK
  <1> QED
    BY <1>1, <1>2 DEF HostTypeOK, LastCallDestroys, NothingLeftBehind, MainIdle,
        MainOwned, hostVars

\* a step of the main thread up to the return of startCoreLoop
LEMMA StartKeepsInv ==
  ASSUME HostInv, OnCreate \/ OnStartCommand \/ StartStep
  PROVE  HostInv' /\ pc[Main] \notin ServicePC /\ pc'[Main] \notin ServicePC
  <1> USE DEF HostInv
  <1>1. CASE OnCreate
    <2>1. CoreTypeOK' /\ UNCHANGED <<alive, starts, restart, monitor, receiver, pc>>
      BY <1>1 DEF OnCreate, HostTypeOK, CoreTypeOK, FlagsOK, PcOK, DataOK,
          coreVars, monitorVars, netVars
    <2>2. self' \in 0..MaxStarts /\ calls' \in Seq(Calls) /\ LastCallDestroys'
          /\ ~(alive' = 0 /\ calls' = <<>>)
      BY <1>1, <2>1, TakeKeepsCalls DEF OnCreate
    <2>3. pc[Main] = "idle"
      BY <1>1 DEF OnCreate, Take, MainIdle
    <2> QED
      BY <2>1, <2>2, <2>3 DEF HostTypeOK, NothingLeftBehind, ServicePC
  <1>2. CASE OnStartCommand
    <2>1. CoreTypeOK' /\ pc'[Main] \in {"idle", "build"}
      <3>0. pc[Main] = "idle" /\ Main \in Launchers
        BY <1>2 DEF OnStartCommand, Take, MainIdle, Launchers
      <3>1. CASE UNCHANGED <<coreVars, monitorVars>>
        BY <1>2, <3>0, <3>1 DEF OnStartCommand, HostTypeOK, CoreTypeOK, FlagsOK, PcOK,
            DataOK, coreVars, monitorVars, netVars
      <3>2. CASE StartCoreLoop
        BY <1>2, <3>0, <3>2, StartKeepsTypes
        DEF OnStartCommand, HostTypeOK, StartCoreLoop, Goto, CoreTypeOK, PcOK
      <3> QED
        BY <1>2, <3>1, <3>2 DEF OnStartCommand
    <2>2. UNCHANGED <<alive, starts, restart, self>> /\ pc[Main] = "idle"
      BY <1>2 DEF OnStartCommand, Take, MainIdle
    <2>3. calls' \in Seq(Calls) /\ LastCallDestroys' /\ ~(alive' = 0 /\ calls' = <<>>)
      BY <1>2, <2>2, TakeKeepsCalls DEF OnStartCommand
    <2> QED
      BY <2>1, <2>2, <2>3 DEF HostTypeOK, NothingLeftBehind, ServicePC
  <1>3. CASE StartStep
    <2>1. UNCHANGED hostVars
      BY <1>3 DEF StartStep
    <2>2. /\ CoreTypeOK'
          /\ pc[Main] \notin {"idle"} \cup ServicePC /\ pc'[Main] \notin ServicePC
      <3>1. Main \in Launchers
        BY DEF Launchers
      <3>2. CASE Launch(Main)
        <4>1. CoreTypeOK' /\ pc[Main] \in LaunchPC
          BY <1>3, <3>1, <3>2, LaunchKeepsTypes DEF StartStep, HostTypeOK
        <4>2. pc'[Main] \in {"failed", "launch", "verify", "monitor"}
          BY <3>1, <3>2 DEF Launch, BuildConfig, StartLoop, FinishLaunch, LaunchFails,
              HostTypeOK, CoreTypeOK, PcOK
        <4> QED
          BY <4>1, <4>2 DEF LaunchPC, ServicePC
      <3>3. CASE StartMonitor
        <4>1. CoreTypeOK' /\ pc[Main] = "monitor"
          BY <1>3, <3>3, StartMonitorKeepsTypes DEF StartStep, HostTypeOK
        <4>2. pc'[Main] = "started"
          BY <3>1, <3>3 DEF StartMonitor, Goto, HostTypeOK, CoreTypeOK, PcOK
        <4> QED
          BY <4>1, <4>2 DEF ServicePC
      <3> QED
        BY <1>3, <3>2, <3>3 DEF StartStep
    <2> QED
      BY <2>1, <2>2 DEF HostTypeOK, LastCallDestroys, NothingLeftBehind, MainIdle, hostVars
  <1> QED
    BY <1>1, <1>2, <1>3

\* onStartCommand returns
LEMMA ReturnKeepsInv ==
  ASSUME HostInv, NEW how \in {"started", "failed"}, Returned(how)
  PROVE  HostInv' /\ UNCHANGED self /\ pc[Main] = how /\ pc'[Main] = "idle"
  <1> USE DEF HostInv
  <1>1. CoreTypeOK' /\ pc'[Main] = "idle"
    <2>1. PcOK' /\ pc'[Main] = "idle"
      BY GotoKeepsPc DEF Returned, HostTypeOK, CoreTypeOK, PcOK, MainPC, Launchers
    <2> QED
      BY <2>1 DEF Returned, HostTypeOK, CoreTypeOK, FlagsOK, DataOK, monitorVars, netVars
  <1>2. /\ UNCHANGED <<starts, self, restart, monitor, receiver>>
        /\ pc[Main] = how /\ how # "idle" /\ how \notin ServicePC
    BY DEF Returned, monitorVars, ServicePC
  <1>3. /\ alive' \in 0..MaxStarts /\ calls' \in Seq(Calls) /\ LastCallDestroys'
        /\ calls' = <<>> => UNCHANGED <<alive, calls>>
    <2>1. CASE StopSelf(self)
      BY <2>1, StopSelfKeepsInv
    <2>2. CASE UNCHANGED <<alive, calls>>
      BY <2>2 DEF HostTypeOK, LastCallDestroys
    <2> QED
      BY <2>1, <2>2 DEF Returned
  <1> QED
    BY <1>1, <1>2, <1>3 DEF HostTypeOK, NothingLeftBehind, MainIdle

-----------------------------------------------------------------------------
(* The queue of callbacks in the proxy only and root modes *)

\* what follows what in the queue: a destroy ends an object and a create
\* begins the next one
Linked(c, d) ==
  /\ d.op = "create" <=> c.op = "destroy"
  /\ d.op # "create" => d.of = c.of
  /\ c.op = "create" => d.op = "start"

Chain(q) == \A i \in 1..(Len(q) - 1) : Linked(q[i], q[i + 1])

CallsLinked ==
  /\ Chain(calls)
  /\ calls # <<>> /\ Head(calls).op # "create" => Head(calls).of = self
  /\ alive # 0 => IF calls = <<>> THEN alive = self
                  ELSE calls[Len(calls)].op = "start" /\ calls[Len(calls)].of = alive
  /\ self <= starts /\ alive <= starts
  /\ \A i \in 1..Len(calls) : calls[i].of <= starts

\* the object serviceControl points to has seen its last callback
Gone == IF calls = <<>> THEN alive = 0 ELSE Head(calls).op = "create"
Launching == pc[Main] \notin {"idle"} \cup ServicePC

GoneIsSilent ==
  /\ Gone /\ MainIdle => ~receiver
  /\ Launching => ~Gone
  /\ pc[Main] \in ServicePC => Gone

-----------------------------------------------------------------------------
(* The manager as long as the network stays *)

\* no handover was ever seen
NoHandover ==
  /\ \A j \in Jobs : pc[j] = "idle"
  /\ ~reloading /\ cb = "none" /\ owned = {} /\ announced = NoNet
  /\ upstream \in {NoNet, net}

\* the start on the main thread is the only one who brings the core up; the
\* receiver is there while it runs, until a stop is launched
StartOwnsCore ==
  /\ pc[Main] \in {"build", "launch", "failed"} => ~running
  /\ pc[Main] \in {"verify", "monitor", "started"} => running
  /\ Launching => receiver
  /\ running /\ stops = 0 => receiver
  /\ stops > 0 => ~receiver

\* and the UI knows
UiKnows ==
  /\ pc[Main] \in {"monitor", "started"} => ui = "START_SUCCESS"
  /\ running /\ receiver /\ ~Launching => ui = "START_SUCCESS"

CalmManager == NoHandover /\ StartOwnsCore /\ UiKnows
CalmCore == changes = 0 => CalmManager

\* a service with nothing left to do has its core
Served ==
  changes = 0 /\ MainIdle /\ calls = <<>> /\ alive # 0 => running /\ receiver /\ stops = 0

-----------------------------------------------------------------------------
(* Handovers, as long as the core is started once *)

ReloadPC == {"stop"} \cup LaunchPC

\* one reload at a time, and the core is down between its stop and its start
ReloadAlone ==
  /\ \A j \in Jobs : pc[j] \in ReloadPC => reloading
  /\ \A i, j \in Jobs : pc[i] \in ReloadPC /\ pc[j] \in ReloadPC => i = j
  /\ \A j \in Jobs : pc[j] \in {"build", "launch"} => ~running

\* what is announced is what the monitor has seen
AnnouncedIsSeen ==
  /\ ~monitor => announced = NoNet
  /\ cb = "live" => monitor
  /\ cb = "stale" => ~monitor
  /\ announced # NoNet => announced = upstream \/ cb = "live"

\* a handover to the network of the moment either still has a job that will
\* resolve the configuration, or has had it resolved
HandoverAtWork ==
  announced # NoNet /\ announced = upstream /\ announced = net /\ cb = "none" /\ ~dropped =>
    \/ \E j \in owned : pc[j] \in {"debounce", "check", "stop", "build"}
    \/ /\ running => builtOn = net
       /\ \A j \in Jobs : pc[j] = "launch" => cfg[j] = net

\* no handover meets the start
StartBeforeHandovers ==
  pc[Main] \in LaunchPC \cup {"monitor"} =>
    (\A j \in Jobs : pc[j] = "idle") /\ cb = "none" /\ ~monitor

Handovers == ReloadAlone /\ AnnouncedIsSeen /\ HandoverAtWork /\ StartBeforeHandovers

\* nothing was started yet
NothingYet ==
  /\ pc[Main] \in {"idle"} \cup ServicePC /\ \A j \in Jobs : pc[j] = "idle"
  /\ ~running /\ ~monitor /\ cb = "none" /\ ~reloading /\ announced = NoNet

StartCalls == {i \in 1..Len(calls) : calls[i].op = "start"}

OneStart == starts <= 1 =>
  /\ Handovers
  /\ starts = 0 => calls = <<>> /\ alive = 0
  /\ \A i, k \in StartCalls : i = k
  /\ starts = 0 \/ StartCalls # {} => NothingYet

-----------------------------------------------------------------------------
(* What a step of any service does to the manager and the monitor *)

Returns ==
  /\ pc[Main] \in {"started", "failed"} /\ pc' = [pc EXCEPT ![Main] = "idle"]
  /\ UNCHANGED <<running, builtOn, stops, reloading, cfg, receiver, ui, monitorVars>>
Destroys ==
  /\ pc[Main] \in {"idle"} \cup ServicePC
  /\ \E to \in ServicePC : pc' = [pc EXCEPT ![Main] = to]
  /\ UNCHANGED <<running, builtOn, stops, reloading, cfg, receiver, ui, monitorVars>>
StopsCore ==
  /\ pc[Main] \in {"idle"} \cup ServicePC
  /\ \E t \in {Main, "restart", "revoke"} : StopCoreLoopOn(t) /\ (t # Main => MainIdle)

MainStep ==
  \/ UNCHANGED <<coreVars, monitorVars>>
  \/ StartCoreLoop /\ stops = 0
  \/ Launch(Main) \/ StartMonitor
  \/ Returns \/ Destroys \/ StopsCore

ManagerStep ==
  \/ /\ UNCHANGED netVars
     /\ \/ MainStep \/ StopLoop \/ OnAvailable \/ ScheduleHandover
        \/ \E j \in Jobs : Debounced(j) \/ EnterReload(j) \/ ReloadStop(j) \/ Launch(j)
  \/ NetworkChange

LEMMA MainIsNoJob == Main \in Launchers /\ Main \notin Jobs /\ Jobs \subseteq Launchers
  BY CoreServiceAssumption DEF Launchers

LEMMA BackgroundIsManager ==
  ASSUME Background \/ NetworkStep PROVE ManagerStep
  BY DEF Background, NetworkStep, StopStep, MonitorStep, JobStep, ManagerStep

\* where the main thread goes in startCoreLoop
LEMMA LaunchOnMain ==
  ASSUME CoreTypeOK, Launch(Main)
  PROVE  /\ UNCHANGED <<stops, receiver, monitorVars>>
         /\ \A j \in Jobs : pc'[j] = pc[j]
         /\ reloading' = reloading
         /\ \/ pc[Main] = "build" /\ pc'[Main] = "launch" /\ UNCHANGED <<running, builtOn, ui>>
            \/ pc[Main] = "build" /\ pc'[Main] = "failed" /\ UNCHANGED <<running, builtOn>>
            \/ pc[Main] = "launch" /\ pc'[Main] = "verify" /\ running' /\ UNCHANGED ui
            \/ pc[Main] = "launch" /\ pc'[Main] = "failed" /\ ~running /\ UNCHANGED <<running, builtOn>>
            \/ /\ pc[Main] = "verify" /\ pc'[Main] = "monitor" /\ running /\ UNCHANGED <<running, builtOn>>
               /\ ui' = "START_SUCCESS"
            \/ pc[Main] = "verify" /\ pc'[Main] = "failed" /\ ~running /\ UNCHANGED <<running, builtOn>>
  <1> USE MainIsNoJob DEF CoreTypeOK, PcOK
  <1>1. CASE BuildConfig(Main)
    BY <1>1 DEF BuildConfig, LaunchFails
  <1>2. CASE StartLoop(Main)
    BY <1>2 DEF StartLoop, LaunchFails
  <1>3. CASE FinishLaunch(Main)
    BY <1>3 DEF FinishLaunch, LaunchFails
  <1> QED
    BY <1>1, <1>2, <1>3 DEF Launch

\* as long as the network stays the manager is calm, whatever a service does
LEMMA CalmStep ==
  ASSUME CoreTypeOK, CalmCore, ManagerStep PROVE CalmCore'
  <1> SUFFICES ASSUME changes' = 0 PROVE CalmManager'
    BY DEF CalmCore
  <1>0. UNCHANGED netVars /\ CalmManager /\ pc \in [Launchers -> JobPC \cup MainPC \cup ServicePC]
    <2>1. changes \in Nat
      BY CoreServiceAssumption DEF CoreTypeOK, DataOK
    <2>2. ~NetworkChange
      BY <2>1 DEF NetworkChange
    <2> QED
      BY <2>2 DEF ManagerStep, CalmCore, netVars, CoreTypeOK, PcOK
  <1> USE <1>0, MainIsNoJob DEF CalmManager
  <1>1. CASE UNCHANGED <<coreVars, monitorVars>>
    BY <1>1 DEF coreVars, monitorVars, netVars, NoHandover, StartOwnsCore, UiKnows, Launching
  <1>2. CASE StartCoreLoop /\ stops = 0
    <2>1. pc'[Main] = "build" /\ \A j \in Jobs : pc'[j] = pc[j]
      BY <1>2 DEF StartCoreLoop, Goto
    <2> QED
      BY <1>2, <2>1 DEF StartCoreLoop, monitorVars, netVars, NoHandover, StartOwnsCore, UiKnows,
          Launching, ServicePC
  <1>3. CASE Launch(Main)
    <2>1. NoHandover'
      BY <1>3, LaunchOnMain DEF monitorVars, netVars, NoHandover
    <2>2. StartOwnsCore' /\ UiKnows'
      BY <1>3, LaunchOnMain DEF StartOwnsCore, UiKnows, Launching, ServicePC
    <2> QED
      BY <2>1, <2>2
  <1>4. CASE StartMonitor
    <2>1. pc[Main] = "monitor" /\ pc'[Main] = "started" /\ \A j \in Jobs : pc'[j] = pc[j]
      BY <1>4 DEF StartMonitor, Goto
    <2> QED
      BY <1>4, <2>1 DEF StartMonitor, netVars, NoHandover, StartOwnsCore, UiKnows, Launching, ServicePC
  <1>5. CASE Returns
    <2>1. pc[Main] \in {"started", "failed"} /\ pc'[Main] = "idle" /\ \A j \in Jobs : pc'[j] = pc[j]
      BY <1>5 DEF Returns
    <2> QED
      BY <1>5, <2>1 DEF Returns, monitorVars, netVars, NoHandover, StartOwnsCore, UiKnows, Launching, ServicePC
  <1>6. CASE Destroys
    <2>1. /\ pc[Main] \in {"idle"} \cup ServicePC /\ pc'[Main] \in ServicePC
          /\ \A j \in Jobs : pc'[j] = pc[j]
      BY <1>6 DEF Destroys
    <2> QED
      BY <1>6, <2>1 DEF Destroys, monitorVars, netVars, NoHandover, StartOwnsCore, UiKnows, Launching, ServicePC
  <1>7. CASE StopsCore
    <2>1. PICK t \in {Main, "restart", "revoke"} : StopCoreLoopOn(t) /\ (t # Main => MainIdle)
      BY <1>7 DEF StopsCore
    <2>2. pc'[Main] = "idle" /\ \A j \in Jobs : pc'[j] = "idle"
      BY <2>1 DEF StopCoreLoopOn, Unregister, MainIdle, NoHandover
    <2>3. NoHandover'
      BY <2>1, <2>2 DEF StopCoreLoopOn, Unregister, NoHandover
    <2>4. stops \in Nat
      BY DEF CoreTypeOK, DataOK
    <2>5. /\ running' = running /\ ~receiver' /\ (running => stops' > 0)
      BY <2>1, <2>4 DEF StopCoreLoopOn
    <2> QED
      BY <2>2, <2>3, <2>5 DEF StartOwnsCore, UiKnows, Launching
  <1>8. CASE StopLoop
    <2>1. stops \in Nat
      BY DEF CoreTypeOK, DataOK
    <2>2. ~receiver /\ ~Launching
      BY <1>8, <2>1 DEF StopLoop, StartOwnsCore
    <2> QED
      BY <1>8, <2>1, <2>2 DEF StopLoop, monitorVars, netVars, NoHandover, StartOwnsCore, UiKnows,
          Launching, ServicePC
  <1>9. CASE OnAvailable
    BY <1>9 DEF OnAvailable, coreVars, netVars, NoHandover, StartOwnsCore, UiKnows, Launching
  <1>10. ~ScheduleHandover
    BY DEF ScheduleHandover, NoHandover
  <1>11. ASSUME NEW j \in Jobs PROVE ~(Debounced(j) \/ EnterReload(j) \/ ReloadStop(j) \/ Launch(j))
    BY DEF Debounced, EnterReload, ReloadStop, Launch, BuildConfig, StartLoop, FinishLaunch, Goto, NoHandover
  <1>12. ~NetworkChange
    BY CoreServiceAssumption DEF NetworkChange, CoreTypeOK, DataOK, netVars
  <1> QED
    BY <1>1, <1>2, <1>3, <1>4, <1>5, <1>6, <1>7, <1>8, <1>9, <1>10, <1>11, <1>12 DEF ManagerStep, MainStep

-----------------------------------------------------------------------------
(* Handovers *)

\* where a job goes in reloadCore
LEMMA LaunchInJob ==
  ASSUME CoreTypeOK, NEW j \in Jobs, Launch(j)
  PROVE  /\ UNCHANGED <<stops, receiver, monitorVars>>
         /\ \A l \in Launchers \ {j} : pc'[l] = pc[l] /\ cfg'[l] = cfg[l]
         /\ \/ /\ pc[j] = "build" /\ pc'[j] = "launch" /\ cfg'[j] = net
               /\ UNCHANGED <<running, builtOn, reloading>>
            \/ /\ pc[j] = "launch" /\ pc'[j] = "verify" /\ UNCHANGED reloading
               /\ running' = TRUE /\ builtOn' = IF running THEN builtOn ELSE cfg[j]
            \/ /\ pc[j] \in LaunchPC /\ pc'[j] = "idle" /\ reloading' = FALSE
               /\ UNCHANGED <<running, builtOn>>
  <1> USE MainIsNoJob DEF CoreTypeOK, PcOK, LaunchPC
  <1>1. CASE BuildConfig(j)
    BY <1>1 DEF BuildConfig, LaunchFails
  <1>2. CASE StartLoop(j)
    BY <1>2 DEF StartLoop, LaunchFails
  <1>3. CASE FinishLaunch(j)
    BY <1>3 DEF FinishLaunch, LaunchFails
  <1> QED
    BY <1>1, <1>2, <1>3 DEF Launch

\* steps that bring no job into reloadCore and leave core and monitor alone
LEMMA HandoversStay ==
  ASSUME CoreTypeOK, Handovers,
         \A j \in Jobs : pc'[j] = pc[j] \/ (pc'[j] = "idle" /\ announced' = NoNet),
         UNCHANGED <<reloading, cfg, builtOn, net>>,
         running' => running,
         \/ UNCHANGED monitorVars
         \/ ~monitor' /\ announced' = NoNet /\ cb' # "live"
         \/ announced = NoNet /\ cb = "none" /\ UNCHANGED <<announced, cb>>,
         StartBeforeHandovers'
  PROVE  Handovers'
  <1>1. \A j \in Jobs : pc'[j] \in ReloadPC => pc[j] \in ReloadPC /\ pc'[j] = pc[j]
    BY DEF ReloadPC, LaunchPC
  <1>2. ReloadAlone'
    <2>1. \A j \in Jobs : pc'[j] \in {"build", "launch"} => pc'[j] \in ReloadPC
      BY DEF ReloadPC, LaunchPC
    <2> QED
      BY <1>1, <2>1 DEF Handovers, ReloadAlone
  <1>3. AnnouncedIsSeen'
    BY DEF Handovers, AnnouncedIsSeen, monitorVars
  <1>4. HandoverAtWork'
    <2>1. CASE UNCHANGED monitorVars
      <3> SUFFICES ASSUME announced # NoNet PROVE HandoverAtWork'
        BY <2>1 DEF HandoverAtWork, monitorVars
      <3>1. \A j \in Jobs : pc'[j] = pc[j]
        BY <2>1 DEF monitorVars
      <3>2. owned \subseteq Jobs
        BY DEF CoreTypeOK, DataOK
      <3> QED
        BY <2>1, <3>1, <3>2 DEF Handovers, HandoverAtWork, monitorVars
    <2>2. CASE announced' = NoNet
      BY <2>2 DEF HandoverAtWork
    <2> QED
      BY <2>1, <2>2
  <1> QED
    BY <1>2, <1>3, <1>4 DEF Handovers

LEMMA ScheduleKeepsHandovers ==
  ASSUME CoreTypeOK, Handovers, ScheduleHandover, UNCHANGED netVars PROVE Handovers'
  <1> USE MainIsNoJob DEF Handovers
  <1>1. PICK j \in Jobs :
          /\ pc[j] = "idle" \/ (cb = "live" /\ j \in owned /\ pc[j] = "debounce")
          /\ pc' = [l \in Launchers |->
                      IF l = j THEN "debounce"
                      ELSE IF cb = "live" /\ l \in owned /\ pc[l] = "debounce"
                      THEN "idle" ELSE pc[l]]
          /\ owned' = IF cb = "live" THEN {j} ELSE owned
    BY DEF ScheduleHandover
  <1>2. /\ cb # "none" /\ cb' = "none" /\ UNCHANGED <<running, builtOn, reloading, cfg, monitor, upstream, net>>
        /\ announced' = IF cb = "live" THEN upstream ELSE announced
        /\ cb \in {"none", "live", "stale"}
    BY DEF ScheduleHandover, netVars, CoreTypeOK, DataOK
  <1>3. owned \subseteq Jobs
    BY DEF CoreTypeOK, DataOK
  <1>4. pc'[Main] = pc[Main]
    BY <1>1, <1>3
  <1>5. \A i \in Jobs : pc'[i] = "debounce" \/ pc'[i] = "idle" \/ pc'[i] = pc[i]
    BY <1>1
  <1>6. \A i \in Jobs : pc'[i] \in ReloadPC => pc'[i] = pc[i]
    BY <1>5 DEF ReloadPC, LaunchPC
  <1>7. ReloadAlone'
    <2>1. \A i \in Jobs : pc'[i] \in {"build", "launch"} => pc'[i] \in ReloadPC
      BY DEF ReloadPC, LaunchPC
    <2> QED
      BY <1>2, <1>6, <2>1 DEF ReloadAlone
  <1>8. AnnouncedIsSeen'
    BY <1>2 DEF AnnouncedIsSeen
  <1>9. HandoverAtWork'
    <2>1. CASE cb = "live"
      <3>1. j \in owned' /\ pc'[j] = "debounce"
        BY <1>1, <2>1
      <3> QED
        BY <3>1 DEF HandoverAtWork
    <2>2. CASE cb = "stale"
      BY <1>2, <2>2 DEF AnnouncedIsSeen, HandoverAtWork
    <2> QED
      BY <1>2, <2>1, <2>2
  <1>10. StartBeforeHandovers'
    BY <1>2, <1>4 DEF StartBeforeHandovers
  <1> QED
    BY <1>7, <1>8, <1>9, <1>10

\* a job between its delay and its launch
LEMMA JobKeepsHandovers ==
  ASSUME CoreTypeOK, Handovers, NEW j \in Jobs, UNCHANGED netVars,
         Debounced(j) \/ EnterReload(j) \/ ReloadStop(j)
  PROVE Handovers'
  <1> USE MainIsNoJob DEF Handovers, CoreTypeOK, PcOK
  <1>1. CASE Debounced(j)
    <2>1. /\ pc[j] = "debounce" /\ pc'[j] = "check" /\ \A l \in Launchers \ {j} : pc'[l] = pc[l]
          /\ UNCHANGED <<running, builtOn, reloading, cfg, monitorVars, net>>
      BY <1>1 DEF Debounced, Goto, netVars
    <2>2. ReloadAlone'
      BY <2>1 DEF ReloadAlone, ReloadPC, LaunchPC
    <2>3. AnnouncedIsSeen'
      BY <2>1 DEF AnnouncedIsSeen, monitorVars
    <2>4. HandoverAtWork' /\ StartBeforeHandovers'
      BY <2>1 DEF HandoverAtWork, StartBeforeHandovers, monitorVars, DataOK
    <2> QED
      BY <2>2, <2>3, <2>4
  <1>2. CASE EnterReload(j)
    <2>1. /\ pc[j] = "check" /\ \A l \in Launchers \ {j} : pc'[l] = pc[l]
          /\ UNCHANGED <<running, builtOn, cfg, monitor, upstream, owned, cb, announced, net>>
          /\ \/ pc'[j] = "idle" /\ dropped' = TRUE /\ UNCHANGED reloading
             \/ pc'[j] = "stop" /\ UNCHANGED dropped /\ ~reloading /\ reloading' = TRUE
      BY <1>2 DEF EnterReload, netVars
    <2>2. ReloadAlone'
      BY <2>1 DEF ReloadAlone, ReloadPC, LaunchPC
    <2>3. AnnouncedIsSeen'
      BY <2>1 DEF AnnouncedIsSeen
    <2>4. HandoverAtWork' /\ StartBeforeHandovers'
      BY <2>1 DEF HandoverAtWork, StartBeforeHandovers, DataOK
    <2> QED
      BY <2>2, <2>3, <2>4
  <1>3. CASE ReloadStop(j)
    <2>1. /\ pc[j] = "stop" /\ pc'[j] = "build" /\ \A l \in Launchers \ {j} : pc'[l] = pc[l]
          /\ UNCHANGED <<reloading, cfg, monitorVars, net>> /\ running' = FALSE
      BY <1>3 DEF ReloadStop, Goto, netVars
    <2>2. ReloadAlone'
      BY <2>1 DEF ReloadAlone, ReloadPC, LaunchPC
    <2>3. AnnouncedIsSeen'
      BY <2>1 DEF AnnouncedIsSeen, monitorVars
    <2>4. HandoverAtWork' /\ StartBeforeHandovers'
      BY <2>1 DEF HandoverAtWork, StartBeforeHandovers, monitorVars, DataOK
    <2> QED
      BY <2>2, <2>3, <2>4
  <1> QED
    BY <1>1, <1>2, <1>3

\* launchCore of a reload
LEMMA ReloadKeepsHandovers ==
  ASSUME CoreTypeOK, Handovers, NEW j \in Jobs, UNCHANGED netVars, Launch(j)
  PROVE Handovers'
  <1> USE MainIsNoJob DEF Handovers
  <1>1. /\ UNCHANGED monitorVars /\ net' = net
        /\ \A l \in Launchers \ {j} : pc'[l] = pc[l] /\ cfg'[l] = cfg[l]
        /\ pc[j] \in LaunchPC /\ pc'[j] \in {"idle", "launch", "verify"}
    BY LaunchInJob DEF netVars, LaunchPC
  <1>2. pc[j] \in ReloadPC /\ reloading
    BY <1>1 DEF ReloadPC, ReloadAlone
  <1>3. \A i \in Jobs \ {j} : pc[i] \notin ReloadPC /\ pc'[i] \notin ReloadPC
    BY <1>1, <1>2 DEF ReloadAlone
  <1>4. \A i \in Jobs \ {j} : pc'[i] \notin {"build", "launch"}
    BY <1>3 DEF ReloadPC, LaunchPC
  <1>5. AnnouncedIsSeen'
    BY <1>1 DEF AnnouncedIsSeen, monitorVars
  <1>6. pc[Main] \notin LaunchPC \cup {"monitor"} /\ pc'[Main] = pc[Main]
    BY <1>1 DEF StartBeforeHandovers, LaunchPC
  <1>7. StartBeforeHandovers'
    BY <1>6 DEF StartBeforeHandovers
  <1>8. owned \subseteq Jobs
    BY DEF CoreTypeOK, DataOK
  <1>9. CASE /\ pc[j] = "build" /\ pc'[j] = "launch" /\ cfg'[j] = net
             /\ UNCHANGED <<running, builtOn, reloading>>
    <2>1. ~running
      BY <1>9 DEF ReloadAlone
    <2>2. ReloadAlone'
      BY <1>2, <1>3, <1>4, <1>9, <2>1 DEF ReloadAlone
    <2>3. HandoverAtWork'
      BY <1>1, <1>4, <1>9, <2>1 DEF HandoverAtWork
    <2> QED
      BY <1>5, <1>7, <2>2, <2>3
  <1>10. CASE /\ pc[j] = "launch" /\ pc'[j] = "verify" /\ UNCHANGED reloading
              /\ running' = TRUE /\ builtOn' = IF running THEN builtOn ELSE cfg[j]
    <2>1. ~running
      BY <1>10 DEF ReloadAlone
    <2>2. ReloadAlone'
      BY <1>2, <1>3, <1>4, <1>10 DEF ReloadAlone
    <2>3. HandoverAtWork'
      BY <1>1, <1>4, <1>8, <1>10, <2>1 DEF HandoverAtWork, monitorVars
    <2> QED
      BY <1>5, <1>7, <2>2, <2>3
  <1>11. CASE /\ pc[j] \in LaunchPC /\ pc'[j] = "idle" /\ reloading' = FALSE
              /\ UNCHANGED <<running, builtOn>>
    <2>1. ReloadAlone'
      BY <1>3, <1>4, <1>11 DEF ReloadAlone, ReloadPC, LaunchPC
    <2>2. pc[j] = "build" => ~running
      BY DEF ReloadAlone
    <2>3. HandoverAtWork'
      BY <1>1, <1>4, <1>8, <1>11, <2>2 DEF HandoverAtWork, monitorVars, LaunchPC
    <2> QED
      BY <1>5, <1>7, <2>1, <2>3
  <1> QED
    BY <1>9, <1>10, <1>11, LaunchInJob

LEMMA HandoverStep ==
  ASSUME CoreTypeOK, Handovers, ManagerStep,
         StartCoreLoop => NothingYet
  PROVE  Handovers'
  <1> USE MainIsNoJob
  <1>0. pc \in [Launchers -> JobPC \cup MainPC \cup ServicePC]
    BY DEF CoreTypeOK, PcOK
  <1>1. CASE UNCHANGED netVars /\ UNCHANGED <<coreVars, monitorVars>>
    <2>1. StartBeforeHandovers'
      BY <1>1 DEF Handovers, StartBeforeHandovers, coreVars, monitorVars
    <2> QED
      BY <1>1, <2>1, HandoversStay DEF coreVars, netVars
  <1>2. CASE UNCHANGED netVars /\ StartCoreLoop
    <2>1. NothingYet /\ \A j \in Jobs : pc'[j] = pc[j]
      BY <1>0, <1>2 DEF StartCoreLoop, Goto
    <2>2. StartBeforeHandovers'
      BY <1>2, <2>1 DEF NothingYet, StartBeforeHandovers, StartCoreLoop, monitorVars
    <2> QED
      BY <1>2, <2>1, <2>2, HandoversStay DEF StartCoreLoop, netVars
  <1>3. CASE UNCHANGED netVars /\ Launch(Main)
    <2>1. /\ UNCHANGED monitorVars /\ \A j \in Jobs : pc'[j] = pc[j]
          /\ reloading' = reloading
          /\ pc[Main] \in LaunchPC
      BY <1>3, LaunchOnMain DEF LaunchPC
    <2>2. (\A j \in Jobs : pc[j] = "idle") /\ cb = "none" /\ ~monitor
      BY <2>1 DEF Handovers, StartBeforeHandovers
    <2>3. announced = NoNet
      BY <2>2 DEF Handovers, AnnouncedIsSeen
    <2> QED
      BY <2>1, <2>2, <2>3 DEF Handovers, ReloadAlone, AnnouncedIsSeen, HandoverAtWork,
          StartBeforeHandovers, monitorVars, ReloadPC, LaunchPC
  <1>4. CASE UNCHANGED netVars /\ StartMonitor
    <2>1. /\ pc[Main] = "monitor" /\ pc'[Main] = "started" /\ \A j \in Jobs : pc'[j] = pc[j]
          /\ UNCHANGED <<running, builtOn, reloading, cfg, upstream, cb, announced>>
      BY <1>0, <1>4 DEF StartMonitor, Goto
    <2>2. cb = "none" /\ ~monitor
      BY <2>1 DEF Handovers, StartBeforeHandovers
    <2>3. announced = NoNet
      BY <2>2 DEF Handovers, AnnouncedIsSeen
    <2>4. StartBeforeHandovers'
      BY <2>1 DEF StartBeforeHandovers, LaunchPC
    <2> QED
      BY <1>4, <2>1, <2>2, <2>3, <2>4, HandoversStay DEF netVars
  <1>5. CASE UNCHANGED netVars /\ (Returns \/ Destroys)
    <2>1. pc'[Main] \in {"idle"} \cup ServicePC /\ \A j \in Jobs : pc'[j] = pc[j]
      BY <1>0, <1>5 DEF Returns, Destroys
    <2>2. StartBeforeHandovers'
      BY <2>1 DEF StartBeforeHandovers, LaunchPC, ServicePC
    <2> QED
      BY <1>5, <2>1, <2>2, HandoversStay DEF Returns, Destroys, netVars
  <1>6. CASE UNCHANGED netVars /\ StopsCore
    <2>1. PICK t \in {Main, "restart", "revoke"} : StopCoreLoopOn(t) /\ (t # Main => MainIdle)
      BY <1>6 DEF StopsCore
    <2>2. pc'[Main] = "idle" /\ \A j \in Jobs : pc'[j] \in {pc[j], "idle"}
      BY <2>1 DEF StopCoreLoopOn, Unregister, MainIdle
    <2>3. ~monitor' /\ announced' = NoNet /\ cb' # "live" /\ UNCHANGED <<running, builtOn, reloading, cfg>>
      BY <2>1 DEF StopCoreLoopOn, Unregister
    <2>4. StartBeforeHandovers'
      BY <2>2 DEF StartBeforeHandovers, LaunchPC
    <2> QED
      BY <1>6, <2>2, <2>3, <2>4, HandoversStay DEF netVars
  <1>7. CASE UNCHANGED netVars /\ StopLoop
    <2>1. ReloadAlone' /\ AnnouncedIsSeen' /\ StartBeforeHandovers'
      BY <1>7 DEF StopLoop, Handovers, ReloadAlone, AnnouncedIsSeen, StartBeforeHandovers, monitorVars
    <2>2. HandoverAtWork'
      BY <1>7 DEF StopLoop, Handovers, HandoverAtWork, monitorVars, netVars
    <2> QED
      BY <2>1, <2>2 DEF Handovers
  <1>8. CASE UNCHANGED netVars /\ OnAvailable
    <2>1. /\ monitor /\ cb = "none" /\ UNCHANGED <<pc, running, reloading>>
          /\ monitor' = monitor /\ announced' = announced /\ upstream' = net
          /\ cb' = IF upstream # NoNet THEN "live" ELSE "none"
      BY <1>8 DEF OnAvailable, coreVars
    <2>2. ReloadAlone' /\ AnnouncedIsSeen'
      BY <2>1 DEF Handovers, ReloadAlone, AnnouncedIsSeen
    <2>3. StartBeforeHandovers' /\ HandoverAtWork'
      BY <2>1 DEF Handovers, StartBeforeHandovers, HandoverAtWork, AnnouncedIsSeen
    <2> QED
      BY <2>2, <2>3 DEF Handovers
  <1>9. CASE NetworkChange
    <2>1. UNCHANGED <<coreVars, monitorVars>> /\ net' # net /\ (monitor => upstream = net)
      BY <1>9 DEF NetworkChange
    <2>2. ReloadAlone' /\ AnnouncedIsSeen' /\ StartBeforeHandovers'
      BY <2>1 DEF Handovers, ReloadAlone, AnnouncedIsSeen, StartBeforeHandovers, coreVars, monitorVars
    <2>3. HandoverAtWork'
      BY <2>1 DEF Handovers, HandoverAtWork, AnnouncedIsSeen, monitorVars
    <2> QED
      BY <2>2, <2>3 DEF Handovers
  <1>10. CASE UNCHANGED netVars /\ \E j \in Jobs : Debounced(j) \/ EnterReload(j) \/ ReloadStop(j) \/ Launch(j)
    BY <1>10, JobKeepsHandovers, ReloadKeepsHandovers
  <1>11. CASE UNCHANGED netVars /\ ScheduleHandover
    BY <1>11, ScheduleKeepsHandovers
  <1> QED
    BY <1>1, <1>2, <1>3, <1>4, <1>5, <1>6, <1>7, <1>8, <1>9, <1>10, <1>11 DEF ManagerStep, MainStep

-----------------------------------------------------------------------------
(* What a step of any service does to the queue of callbacks *)

QueueRests == UNCHANGED <<alive, starts, calls, self>>
QueueGrows ==
  \/ Request /\ UNCHANGED self
  \/ \E s \in 0..MaxStarts : StopSelf(s) /\ UNCHANGED <<starts, self>>
Takes(op) ==
  /\ Take(op) /\ UNCHANGED <<alive, starts>>
  /\ self' = IF op = "create" THEN Head(calls).of ELSE self
QueueStep == QueueRests \/ QueueGrows \/ \E op \in {"create", "start", "destroy"} : Takes(op)

\* a user, a restart, or anybody who stops the service: the queue grows at its end
LEMMA UsersAreQueueSteps ==
  ASSUME HostTypeOK, Users \/ Restarter
  PROVE  (QueueRests \/ QueueGrows) /\ UNCHANGED <<coreVars, monitorVars, netVars>>
  <1>1. self \in 0..MaxStarts /\ restart.of \in 0..MaxStarts
    BY DEF HostTypeOK, Restarts
  <1> QED
    BY <1>1 DEF Users, Restarter, UserStart, UserStop, UserRestart, RestartStop, RestartStart,
        QueueRests, QueueGrows

LEMMA ChainAppend ==
  ASSUME NEW q \in Seq(Calls), NEW e \in Calls, Chain(q), q # <<>> => Linked(q[Len(q)], e)
  PROVE  /\ Append(q, e) \in Seq(Calls) /\ Chain(Append(q, e))
         /\ Append(q, e) # <<>> /\ Append(q, e)[Len(Append(q, e))] = e
         /\ Len(Append(q, e)) = Len(q) + 1
         /\ Head(Append(q, e)) = IF q = <<>> THEN e ELSE Head(q)
         /\ \A i \in 1..Len(q) : Append(q, e)[i] = q[i]
  <1>1. Len(Append(q, e)) = Len(q) + 1 /\ Append(q, e)[Len(q) + 1] = e /\ Len(q) \in Nat
    OBVIOUS
  <1>2. \A i \in 1..Len(q) : Append(q, e)[i] = q[i]
    OBVIOUS
  <1>3. Chain(Append(q, e))
    <2> SUFFICES ASSUME NEW i \in 1..Len(q) PROVE Linked(Append(q, e)[i], Append(q, e)[i + 1])
      BY <1>1 DEF Chain
    <2>1. CASE i = Len(q)
      BY <1>1, <1>2, <2>1
    <2>2. CASE i # Len(q)
      <3>1. i \in 1..(Len(q) - 1) /\ i + 1 \in 1..Len(q)
        BY <2>2
      <3> QED
        BY <1>2, <3>1 DEF Chain
    <2> QED
      BY <2>1, <2>2
  <1>4. Head(Append(q, e)) = IF q = <<>> THEN e ELSE Head(q)
    <2>1. CASE q = <<>>
      BY <2>1
    <2>2. CASE q # <<>>
      <3>1. 1 \in 1..Len(q)
        BY <2>2
      <3> QED
        BY <1>2, <2>2, <3>1
    <2> QED
      BY <2>1, <2>2
  <1>5. Append(q, e) \in Seq(Calls)
    OBVIOUS
  <1>6. Append(q, e) # <<>>
    OBVIOUS
  <1>7. Append(q, e)[Len(Append(q, e))] = e
    BY <1>1
  <1> QED
    BY <1>1, <1>2, <1>3, <1>4, <1>5, <1>6, <1>7

LEMMA ChainTail ==
  ASSUME NEW q \in Seq(Calls), Chain(q), q # <<>>
  PROVE  /\ Tail(q) \in Seq(Calls) /\ Chain(Tail(q))
         /\ Tail(q) # <<>> => /\ Linked(Head(q), Head(Tail(q)))
                              /\ Tail(q)[Len(Tail(q))] = q[Len(q)]
         /\ Tail(q) = <<>> => Head(q) = q[Len(q)]
         /\ \A i \in 1..Len(Tail(q)) : i + 1 \in 1..Len(q) /\ Tail(q)[i] = q[i + 1]
  <1>1. Len(q) \in Nat \ {0} /\ Len(Tail(q)) = Len(q) - 1 /\ Head(q) = q[1] /\ Tail(q) \in Seq(Calls)
    OBVIOUS
  <1>2. \A i \in 1..Len(Tail(q)) : i + 1 \in 1..Len(q) /\ Tail(q)[i] = q[i + 1]
    BY <1>1
  <1>3. Chain(Tail(q))
    <2> SUFFICES ASSUME NEW i \in 1..(Len(Tail(q)) - 1) PROVE Linked(Tail(q)[i], Tail(q)[i + 1])
      BY DEF Chain
    <2>1. i + 1 \in 1..(Len(q) - 1) /\ i \in 1..Len(Tail(q)) /\ i + 1 \in 1..Len(Tail(q))
      BY <1>1
    <2>2. Linked(q[i + 1], q[(i + 1) + 1])
      BY <2>1 DEF Chain
    <2> QED
      BY <1>2, <2>1, <2>2
  <1>4. ASSUME Tail(q) # <<>> PROVE Linked(Head(q), Head(Tail(q)))
    <2>1. Len(Tail(q)) >= 1 /\ Head(Tail(q)) = Tail(q)[1]
      BY <1>1, <1>4
    <2>2. 1 \in 1..(Len(q) - 1) /\ 1 \in 1..Len(Tail(q))
      BY <1>1, <2>1
    <2>3. Linked(q[1], q[1 + 1]) /\ Tail(q)[1] = q[1 + 1]
      BY <1>2, <2>2 DEF Chain
    <2> QED
      BY <1>1, <2>1, <2>3
  <1> QED
    BY <1>1, <1>2, <1>3, <1>4, TailKeepsLast

\* a new call goes to the end, and does not change whether the last object is gone
LEMMA GrowsLinks ==
  ASSUME HostTypeOK, LastCallDestroys, CallsLinked, QueueGrows
  PROVE  /\ CallsLinked' /\ Gone' = Gone
         /\ calls' = <<>> => UNCHANGED <<alive, calls>>
  <1>0. /\ calls \in Seq(Calls) /\ Chain(calls) /\ Chain(<<>>) /\ alive \in Nat /\ starts \in Nat /\ self \in Nat
        /\ calls # <<>> => Len(calls) \in 1..Len(calls)
    BY DEF HostTypeOK, CallsLinked, Chain
  <1>1. CASE Request /\ UNCHANGED self /\ alive = 0
    <2> DEFINE n == starts + 1
               q == Append(calls, Call("create", n))
    <2>1. n \in 1..MaxStarts /\ starts' = n /\ alive' = n /\ n # 0
      BY <1>0, <1>1, ServiceHostAssumption DEF Request, HostTypeOK
    <2>2. Call("create", n) \in Calls /\ Call("start", n) \in Calls
      BY <2>1 DEF Call, Calls
    <2>3. calls' = Append(q, Call("start", n))
      BY <1>0, <1>1, <2>2 DEF Request
    <2>4. calls # <<>> => Linked(calls[Len(calls)], Call("create", n))
      BY <1>1 DEF Linked, Call, LastCallDestroys
    <2>5. /\ q \in Seq(Calls) /\ Chain(q) /\ q # <<>> /\ q[Len(q)] = Call("create", n)
          /\ Len(q) = Len(calls) + 1
          /\ Head(q) = IF calls = <<>> THEN Call("create", n) ELSE Head(calls)
          /\ \A i \in 1..Len(calls) : q[i] = calls[i]
      BY <1>0, <2>2, <2>4, ChainAppend
    <2>6. Linked(q[Len(q)], Call("start", n))
      BY <2>5 DEF Linked, Call
    <2> HIDE DEF q
    <2>7. /\ calls' \in Seq(Calls) /\ Chain(calls') /\ calls' # <<>> /\ calls'[Len(calls')] = Call("start", n)
          /\ Len(calls') = Len(q) + 1 /\ Head(calls') = Head(q)
          /\ \A i \in 1..Len(q) : calls'[i] = q[i]
      BY <2>2, <2>3, <2>5, <2>6, ChainAppend
    <2>8. \A i \in 1..Len(calls') : calls'[i].of <= starts'
      <3> SUFFICES ASSUME NEW i \in 1..Len(calls') PROVE calls'[i].of <= n
        BY <2>1
      <3>1. Call("create", n).of = n /\ Call("start", n).of = n
        BY DEF Call
      <3>2. CASE i = Len(calls) + 2
        BY <1>0, <2>1, <2>5, <2>7, <3>1, <3>2
      <3>3. CASE i = Len(calls) + 1
        BY <1>0, <2>1, <2>5, <2>7, <3>1, <3>3
      <3>4. CASE i \in 1..Len(calls)
        <4>1. calls'[i] = calls[i] /\ calls[i].of <= starts
          BY <2>5, <2>7, <3>4 DEF CallsLinked
        <4>2. calls[i] \in Calls
          BY <1>0, <3>4
        <4> QED
          BY <1>0, <4>1, <4>2 DEF Calls
      <3> QED
        BY <1>0, <2>5, <2>7, <3>2, <3>3, <3>4
    <2>9. Gone' = Gone
      BY <1>1, <2>5, <2>7 DEF Gone, Call
    <2>10. Head(calls').op # "create" => Head(calls').of = self'
      BY <1>1, <2>5, <2>7 DEF CallsLinked, Call
    <2>11. self' <= starts'
      BY <1>0, <1>1, <2>1 DEF CallsLinked
    <2>12. calls'[Len(calls')].op = "start" /\ calls'[Len(calls')].of = alive'
      BY <2>1, <2>7 DEF Call
    <2>13. CallsLinked'
      BY <1>0, <2>1, <2>7, <2>8, <2>10, <2>11, <2>12 DEF CallsLinked
    <2> QED
      BY <2>7, <2>9, <2>13
  <1>2. ASSUME NEW e \in Calls, calls' = Append(calls, e), e.op \in {"start", "destroy"}, e.of = alive, alive # 0,
               alive' = IF e.op = "start" THEN alive ELSE 0, starts' \in {starts, starts + 1}, self' = self
        PROVE  CallsLinked' /\ Gone' = Gone /\ calls' # <<>>
    <2>1. calls # <<>> => Linked(calls[Len(calls)], e)
      BY <1>2 DEF Linked, CallsLinked
    <2>2. /\ calls' \in Seq(Calls) /\ Chain(calls') /\ calls' # <<>> /\ calls'[Len(calls')] = e
          /\ Len(calls') = Len(calls) + 1
          /\ Head(calls') = IF calls = <<>> THEN e ELSE Head(calls)
          /\ \A i \in 1..Len(calls) : calls'[i] = calls[i]
      BY <1>0, <1>2, <2>1, ChainAppend
    <2>3. \A i \in 1..Len(calls') : calls'[i].of <= starts'
      <3> SUFFICES ASSUME NEW i \in 1..Len(calls') PROVE calls'[i].of <= starts'
        OBVIOUS
      <3>1. CASE i = Len(calls) + 1
        BY <1>0, <1>2, <2>2, <3>1 DEF CallsLinked
      <3>2. CASE i \in 1..Len(calls)
        <4>1. calls'[i] = calls[i] /\ calls[i].of <= starts
          BY <2>2, <3>2 DEF CallsLinked
        <4>2. calls[i] \in Calls
          BY <1>0, <3>2
        <4> QED
          BY <1>0, <1>2, <4>1, <4>2 DEF Calls
      <3> QED
        BY <1>0, <2>2, <3>1, <3>2
    <2>4. Gone' = Gone
      BY <1>2, <2>2 DEF Gone
    <2>5. Head(calls').op # "create" => Head(calls').of = self'
      BY <1>2, <2>2 DEF CallsLinked
    <2>6. self' <= starts' /\ alive' <= starts'
      BY <1>0, <1>2 DEF CallsLinked
    <2> QED
      BY <1>2, <2>2, <2>3, <2>4, <2>5, <2>6 DEF CallsLinked
  <1>3. CASE Request /\ UNCHANGED self /\ alive # 0
    <2>1. Call("start", alive) \in Calls /\ Call("start", alive).op = "start" /\ Call("start", alive).of = alive
      BY <1>3 DEF Call, Calls, HostTypeOK
    <2>2. calls' = Append(calls, Call("start", alive)) /\ alive' = alive /\ starts' = starts + 1
      BY <1>3 DEF Request
    <2> QED
      BY <1>2, <1>3, <2>1, <2>2
  <1>4. ASSUME NEW s \in 0..MaxStarts, StopSelf(s), UNCHANGED <<starts, self>>
        PROVE  CallsLinked' /\ Gone' = Gone /\ (calls' = <<>> => UNCHANGED <<alive, calls>>)
    <2>1. CASE alive = s /\ s # 0
      <3>1. Call("destroy", s) \in Calls /\ Call("destroy", s).op = "destroy" /\ Call("destroy", s).of = alive
        BY <2>1 DEF Call, Calls
      <3>2. calls' = Append(calls, Call("destroy", s)) /\ alive' = 0 /\ alive # 0
        BY <1>4, <2>1 DEF StopSelf
      <3> QED
        BY <1>2, <1>4, <3>1, <3>2
    <2>2. CASE ~(alive = s /\ s # 0)
      BY <1>4, <2>2 DEF StopSelf, CallsLinked, Gone
    <2> QED
      BY <2>1, <2>2
  <1> QED
    BY <1>1, <1>3, <1>4 DEF QueueGrows

\* the next call is taken
LEMMA TakesLinks ==
  ASSUME HostTypeOK, LastCallDestroys, CallsLinked,
         NEW op \in {"create", "start", "destroy"}, Takes(op)
  PROVE  /\ CallsLinked'
         /\ Gone' <=> op = "destroy"
         /\ Gone <=> op = "create"
         /\ op = "create" => calls' # <<>>
         /\ Head(calls).of \in 1..MaxStarts
  <1>1. /\ calls \in Seq(Calls) /\ calls # <<>> /\ Head(calls).op = op /\ calls' = Tail(calls)
        /\ UNCHANGED <<alive, starts>> /\ alive \in Nat /\ starts \in Nat
        /\ 1 \in 1..Len(calls) /\ Head(calls) = calls[1]
    BY DEF Takes, Take, HostTypeOK
  <1>2. /\ calls' \in Seq(Calls) /\ Chain(calls')
        /\ calls' # <<>> => /\ Linked(Head(calls), Head(calls'))
                            /\ calls'[Len(calls')] = calls[Len(calls)]
        /\ calls' = <<>> => Head(calls) = calls[Len(calls)]
        /\ \A i \in 1..Len(calls') : i + 1 \in 1..Len(calls) /\ calls'[i] = calls[i + 1]
    BY <1>1, ChainTail DEF CallsLinked
  <1>3. Head(calls) \in Calls /\ Head(calls).of \in 1..MaxStarts
    <2>1. Head(calls) \in Calls
      BY <1>1
    <2> QED
      BY <2>1 DEF Calls
  <1>4. self' = Head(calls).of
    BY <1>1 DEF Takes, CallsLinked
  <1>5. calls' # <<>> /\ Head(calls').op # "create" => Head(calls').of = self'
    BY <1>2, <1>4 DEF Linked
  <1>6. calls' = <<>> => op # "create" /\ (alive # 0 <=> op = "start")
    BY <1>1, <1>2 DEF LastCallDestroys, CallsLinked
  <1>7. alive' # 0 => IF calls' = <<>> THEN alive' = self'
                      ELSE calls'[Len(calls')].op = "start" /\ calls'[Len(calls')].of = alive'
    BY <1>1, <1>2, <1>4 DEF CallsLinked
  <1>8. self' <= starts' /\ alive' <= starts'
    BY <1>1, <1>4 DEF CallsLinked
  <1>9. \A i \in 1..Len(calls') : calls'[i].of <= starts'
    BY <1>1, <1>2 DEF CallsLinked
  <1>10. CallsLinked'
    BY <1>2, <1>5, <1>7, <1>8, <1>9 DEF CallsLinked
  <1>11. Gone <=> op = "create"
    BY <1>1 DEF Gone
  <1>12. CASE calls' = <<>>
    BY <1>1, <1>3, <1>6, <1>10, <1>11, <1>12 DEF Gone
  <1>13. CASE calls' # <<>>
    BY <1>2, <1>1, <1>3, <1>10, <1>11, <1>13 DEF Gone, Linked
  <1> QED
    BY <1>12, <1>13

\* an object that is not gone is there
LEMMA NotGoneIsThere ==
  ASSUME HostTypeOK, CallsLinked, ~Gone PROVE self \in 1..MaxStarts
  <1>1. CASE calls = <<>>
    BY <1>1 DEF HostTypeOK, CallsLinked, Gone
  <1>2. CASE calls # <<>>
    <2>1. Head(calls) \in Calls
      BY <1>2 DEF HostTypeOK
    <2> QED
      BY <1>2, <2>1 DEF CallsLinked, Gone, Calls
  <1> QED
    BY <1>1, <1>2

-----------------------------------------------------------------------------
(* What a step of the proxy only and the root service does *)

\* every kind of step either has; the destructor ends in stopCoreLoop, at once
\* or after some steps of its own
HostStep ==
  \/ (QueueRests \/ QueueGrows) /\ UNCHANGED <<coreVars, monitorVars, netVars>>
  \/ OnCreate \/ OnStartCommand \/ StartStep \/ Returned("started") \/ Returned("failed")
  \/ Background \/ NetworkStep
  \/ /\ Takes("destroy") \/ (QueueRests /\ pc[Main] \in ServicePC)
     /\ StopCoreLoop \/ Destroys
     /\ UNCHANGED netVars

LEMMA MainGoesOn ==
  ASSUME CoreTypeOK, StartStep
  PROVE  /\ Launching /\ Launching' /\ pc[Main] # "idle" /\ pc'[Main] # "idle"
         /\ pc[Main] \notin ServicePC /\ pc'[Main] \notin ServicePC
         /\ UNCHANGED <<receiver, stops, netVars, hostVars>>
  <1>1. CASE Launch(Main)
    BY <1>1, LaunchOnMain DEF StartStep, Launching, ServicePC
  <1>2. CASE StartMonitor
    BY <1>2, MainIsNoJob DEF StartStep, StartMonitor, Goto, CoreTypeOK, PcOK, ServicePC, Launching
  <1> QED
    BY <1>1, <1>2 DEF StartStep

LEMMA StopCoreOnMain ==
  ASSUME StopCoreLoop
  PROVE  pc'[Main] = "idle" /\ ~receiver'
  BY MainIsNoJob DEF StopCoreLoop, StopCoreLoopOn, Unregister

\* the main thread in the destructor
LEMMA DestroysOnMain ==
  ASSUME CoreTypeOK, Destroys
  PROVE  pc'[Main] \in ServicePC
  BY MainIsNoJob DEF Destroys, CoreTypeOK, PcOK

LEMMA HostStepsAreManagerSteps ==
  ASSUME PromptStop, HostTypeOK, CallsLinked, HostStep
  PROVE  ManagerStep /\ QueueStep
  <1>1. CASE (QueueRests \/ QueueGrows) /\ UNCHANGED <<coreVars, monitorVars, netVars>>
    BY <1>1 DEF ManagerStep, MainStep, QueueStep
  <1>2. CASE OnCreate
    BY <1>2 DEF OnCreate, ManagerStep, MainStep, QueueStep, Takes
  <1>3. CASE OnStartCommand
    BY <1>3 DEF OnStartCommand, ManagerStep, MainStep, QueueStep, Takes
  <1>4. CASE StartStep
    BY <1>4 DEF StartStep, ManagerStep, MainStep, QueueStep, QueueRests, hostVars
  <1>5. CASE Returned("started") \/ Returned("failed")
    <2>1. self \in 0..MaxStarts
      BY DEF HostTypeOK
    <2> QED
      BY <1>5, <2>1 DEF Returned, ManagerStep, MainStep, Returns, QueueStep, QueueRests, QueueGrows
  <1>6. CASE Background \/ NetworkStep
    <2>1. UNCHANGED hostVars
      BY <1>6 DEF Background, NetworkStep, StopStep, MonitorStep, JobStep
    <2> QED
      BY <1>6, <2>1, BackgroundIsManager DEF QueueStep, QueueRests, hostVars
  <1>7. CASE /\ Takes("destroy") \/ (QueueRests /\ pc[Main] \in ServicePC)
             /\ StopCoreLoop \/ Destroys
             /\ UNCHANGED netVars
    <2>1. QueueStep
      BY <1>7 DEF QueueStep
    <2>2. pc[Main] \in {"idle"} \cup ServicePC
      BY <1>7 DEF Takes, Take, MainIdle
    <2>3. StopCoreLoop => StopsCore
      BY <2>2 DEF StopsCore, StopCoreLoop
    <2> QED
      BY <1>7, <2>1, <2>3 DEF ManagerStep, MainStep
  <1> QED
    BY <1>1, <1>2, <1>3, <1>4, <1>5, <1>6, <1>7 DEF HostStep

\* the queue stays linked, and an object that has seen its last callback is silent
LEMMA HostStepKeepsGone ==
  ASSUME HostTypeOK, LastCallDestroys, CallsLinked, GoneIsSilent, HostStep
  PROVE  CallsLinked' /\ GoneIsSilent'
  <1> USE DEF GoneIsSilent, Launching, MainIdle
  <1>0. QueueRests => CallsLinked' /\ Gone' = Gone
    BY DEF QueueRests, CallsLinked, Gone
  <1>1. CASE (QueueRests \/ QueueGrows) /\ UNCHANGED <<coreVars, monitorVars, netVars>>
    BY <1>0, <1>1, GrowsLinks DEF coreVars
  <1>2. CASE OnCreate
    <2>1. Takes("create") /\ UNCHANGED coreVars /\ MainIdle
      BY <1>2 DEF OnCreate, Takes, Take
    <2> QED
      BY <2>1, TakesLinks DEF coreVars, ServicePC
  <1>3. CASE OnStartCommand
    <2>1. Takes("start") /\ MainIdle
      BY <1>3 DEF OnStartCommand, Takes, Take
    <2>2. pc'[Main] \notin ServicePC
      BY <1>3, <2>1, MainIsNoJob
      DEF OnStartCommand, StartCoreLoop, Goto, coreVars, HostTypeOK, CoreTypeOK, PcOK, ServicePC
    <2> QED
      BY <2>1, <2>2, TakesLinks
  <1>4. CASE StartStep
    <2>1. QueueRests
      BY <1>4 DEF StartStep, QueueRests, hostVars
    <2> QED
      BY <1>0, <1>4, <2>1, MainGoesOn DEF HostTypeOK
  <1>5. CASE Returned("started") \/ Returned("failed")
    <2>1. pc[Main] \in {"started", "failed"} /\ pc'[Main] = "idle"
      BY <1>5, MainIsNoJob DEF Returned, HostTypeOK, CoreTypeOK, PcOK
    <2>2. ~Gone
      BY <2>1 DEF ServicePC
    <2>3. QueueRests \/ QueueGrows
      BY <1>5 DEF Returned, QueueRests, QueueGrows, HostTypeOK
    <2> QED
      BY <1>0, <2>1, <2>2, <2>3, GrowsLinks DEF ServicePC
  <1>6. CASE Background \/ NetworkStep
    <2>1. QueueRests
      BY <1>6 DEF Background, NetworkStep, StopStep, MonitorStep, JobStep, QueueRests, hostVars
    <2>2. UNCHANGED MainOwned
      BY <1>6, BackgroundMainOwned DEF HostTypeOK
    <2> QED
      BY <1>0, <2>1, <2>2 DEF MainOwned
  <1>7. CASE /\ Takes("destroy") \/ (QueueRests /\ pc[Main] \in ServicePC)
             /\ StopCoreLoop \/ Destroys
             /\ UNCHANGED netVars
    <2>1. Gone' /\ CallsLinked'
      BY <1>0, <1>7, TakesLinks
    <2>2. (pc'[Main] = "idle" /\ ~receiver') \/ pc'[Main] \in ServicePC
      BY <1>7, StopCoreOnMain, DestroysOnMain DEF HostTypeOK
    <2> QED
      BY <2>1, <2>2 DEF ServicePC
  <1> QED
    BY <1>1, <1>2, <1>3, <1>4, <1>5, <1>6, <1>7 DEF HostStep

\* as long as the network stays, the only one who touches the core behind the
\* main thread's back is a stop
LEMMA CalmBackground ==
  ASSUME CoreTypeOK, CalmManager, Background
  PROVE  StopLoop \/ UNCHANGED <<running, stops, receiver>>
  <1>1. ASSUME NEW j \in Jobs PROVE ~JobStep(j)
    BY DEF JobStep, Debounced, EnterReload, ReloadStop, Launch, BuildConfig, StartLoop, FinishLaunch,
        Goto, CalmManager, NoHandover
  <1>2. ~ScheduleHandover
    BY DEF ScheduleHandover, CalmManager, NoHandover
  <1> QED
    BY <1>1, <1>2 DEF Background, StopStep, MonitorStep, OnAvailable, coreVars

\* a service that has nothing left to do has its core
LEMMA HostStepKeepsServed ==
  ASSUME PromptStop, HostTypeOK, LastCallDestroys, CallsLinked, GoneIsSilent, CalmCore, Served,
         HostStep, CoreTypeOK', CalmCore'
  PROVE  Served'
  <1> SUFFICES ASSUME changes' = 0, pc'[Main] = "idle", calls' = <<>>, alive' # 0
               PROVE  running' /\ receiver' /\ stops' = 0
    BY DEF Served, MainIdle
  <1>0. CalmManager /\ changes = 0 /\ ~NetworkChange
    <2>1. ManagerStep /\ changes \in Nat
      BY HostStepsAreManagerSteps, CoreServiceAssumption DEF HostTypeOK, CoreTypeOK, DataOK
    <2>2. ~NetworkChange
      BY <2>1 DEF NetworkChange
    <2> QED
      BY <2>1, <2>2 DEF ManagerStep, netVars, CalmCore
  <1>1. CASE (QueueRests \/ QueueGrows) /\ UNCHANGED <<coreVars, monitorVars, netVars>>
    <2>1. UNCHANGED <<alive, calls>>
      BY <1>1, GrowsLinks DEF QueueRests
    <2> QED
      BY <1>0, <1>1, <2>1 DEF coreVars, Served, MainIdle
  <1>2. CASE OnCreate
    <2>1. Takes("create")
      BY <1>2 DEF OnCreate, Takes
    <2> QED
      BY <2>1, TakesLinks
  <1>3. CASE OnStartCommand
    <2>1. ~StartCoreLoop
      BY MainIsNoJob DEF StartCoreLoop, Goto, HostTypeOK, CoreTypeOK, PcOK
    <2>2. running /\ UNCHANGED coreVars /\ stops = 0
      BY <1>3, <2>1 DEF OnStartCommand
    <2> QED
      BY <1>0, <2>2 DEF coreVars, CalmManager, StartOwnsCore
  <1>4. CASE StartStep
    BY <1>4, MainGoesOn DEF HostTypeOK
  <1>5. CASE Returned("failed")
    <2>1. self = alive /\ alive # 0
      <3>1. calls' = <<>> => UNCHANGED <<alive, calls>>
        BY <1>5, StopSelfKeepsInv DEF Returned
      <3> QED
        BY <3>1 DEF CallsLinked
    <2>2. calls' = Append(calls, Call("destroy", self))
      BY <1>5, <2>1 DEF Returned, StopSelf
    <2>3. Append(calls, Call("destroy", self)) # <<>>
      <3>1. calls \in Seq(Calls) /\ Call("destroy", self) \in Calls
        BY <2>1 DEF HostTypeOK, Call, Calls
      <3> QED
        BY <3>1
    <2> QED
      BY <2>2, <2>3
  <1>6. CASE Returned("started")
    <2>1. pc[Main] = "started" /\ UNCHANGED <<running, receiver, stops>>
      BY <1>6 DEF Returned
    <2>2. stops \in Nat
      BY DEF HostTypeOK, CoreTypeOK, DataOK
    <2> QED
      BY <1>0, <2>1, <2>2 DEF CalmManager, StartOwnsCore, Launching, ServicePC
  <1>7. CASE Background \/ NetworkStep
    <2>1. UNCHANGED hostVars
      BY <1>7 DEF Background, NetworkStep, StopStep, MonitorStep, JobStep
    <2>2. UNCHANGED MainOwned
      BY <1>7, BackgroundMainOwned DEF HostTypeOK
    <2>3. running /\ receiver /\ stops = 0
      BY <1>0, <2>1, <2>2 DEF hostVars, MainOwned, Served, MainIdle
    <2>4. Background
      BY <1>0, <1>7 DEF NetworkStep
    <2> QED
      BY <1>0, <2>3, <2>4, CalmBackground DEF HostTypeOK, StopLoop
  <1>8. CASE /\ Takes("destroy") \/ (QueueRests /\ pc[Main] \in ServicePC)
             /\ StopCoreLoop \/ Destroys
             /\ UNCHANGED netVars
    <2>1. Gone'
      <3>1. CASE Takes("destroy")
        BY <3>1, TakesLinks
      <3>2. CASE QueueRests /\ pc[Main] \in ServicePC
        BY <3>2 DEF QueueRests, Gone, GoneIsSilent
      <3> QED
        BY <1>8, <3>1, <3>2
    <2> QED
      BY <2>1 DEF Gone
  <1> QED
    BY <1>1, <1>2, <1>3, <1>4, <1>5, <1>6, <1>7, <1>8 DEF HostStep

-----------------------------------------------------------------------------
(* As long as there is one start request *)

\* nothing is started but by startCoreLoop
LEMMA NothingYetStays ==
  ASSUME CoreTypeOK, NothingYet, ManagerStep, ~StartCoreLoop
  PROVE  NothingYet'
  <1> USE MainIsNoJob DEF NothingYet
  <1>0. pc \in [Launchers -> JobPC \cup MainPC \cup ServicePC] /\ stops \in Nat
    BY DEF CoreTypeOK, PcOK, DataOK
  <1>1. CASE UNCHANGED <<coreVars, monitorVars>>
    BY <1>1 DEF coreVars, monitorVars
  <1>2. ~Launch(Main) /\ ~StartMonitor /\ ~Returns
    BY DEF Launch, BuildConfig, StartLoop, FinishLaunch, StartMonitor, Goto, Returns, ServicePC
  <1>3. CASE Destroys
    BY <1>0, <1>3 DEF Destroys, monitorVars
  <1>4. CASE StopsCore
    <2>1. PICK t \in {Main, "restart", "revoke"} : StopCoreLoopOn(t) /\ (t # Main => MainIdle)
      BY <1>4 DEF StopsCore
    <2>2. pc'[Main] = "idle" /\ \A j \in Jobs : pc'[j] = "idle"
      BY <2>1 DEF StopCoreLoopOn, Unregister, MainIdle
    <2> QED
      BY <2>1, <2>2 DEF StopCoreLoopOn, Unregister
  <1>5. CASE StopLoop
    BY <1>5 DEF StopLoop, monitorVars
  <1>6. ~OnAvailable /\ ~ScheduleHandover
    BY DEF OnAvailable, ScheduleHandover
  <1>7. ASSUME NEW j \in Jobs PROVE ~(Debounced(j) \/ EnterReload(j) \/ ReloadStop(j) \/ Launch(j))
    BY DEF Debounced, EnterReload, ReloadStop, Launch, BuildConfig, StartLoop, FinishLaunch, Goto
  <1>8. CASE NetworkChange
    BY <1>8 DEF NetworkChange, coreVars, monitorVars
  <1> QED
    BY <1>1, <1>2, <1>3, <1>4, <1>5, <1>6, <1>7, <1>8 DEF ManagerStep, MainStep

\* the one start call is never doubled, and gone when it is taken
LEMMA StartCallIsOne ==
  ASSUME HostTypeOK, QueueStep, starts' <= 1, \A i, k \in StartCalls : i = k,
         starts = 0 => calls = <<>> /\ alive = 0
  PROVE  /\ starts <= 1
         /\ starts' = 0 => starts = 0 /\ calls' = <<>> /\ alive' = 0
         /\ \A i, k \in StartCalls' : i = k
         /\ starts # 0 /\ StartCalls' # {} => StartCalls # {}
         /\ Takes("start") => starts' # 0 /\ StartCalls' = {} /\ StartCalls # {}
  <1>0. calls \in Seq(Calls) /\ starts \in Nat /\ alive \in Nat /\ Len(calls) \in Nat
    BY DEF HostTypeOK
  <1>1. CASE QueueRests
    <2>1. ~Takes("start")
      <3>1. calls # <<>> => Tail(calls) # calls
        BY <1>0
      <3> QED
        BY <1>1, <3>1 DEF QueueRests, Takes, Take
    <2> QED
      BY <1>0, <1>1, <2>1 DEF QueueRests, StartCalls
  <1>2. CASE Request /\ UNCHANGED self
    <2>1. starts = 0 /\ calls = <<>> /\ alive = 0 /\ starts' = 1
      BY <1>0, <1>2 DEF Request
    <2>2. calls' = <<Call("create", 1), Call("start", 1)>>
      BY <1>2, <2>1 DEF Request
    <2>3. StartCalls' = {2}
      BY <2>2 DEF StartCalls, Call
    <2> QED
      BY <2>1, <2>3 DEF Takes, Take
  <1>3. ASSUME NEW s \in 0..MaxStarts, StopSelf(s), UNCHANGED <<starts, self>>
        PROVE  /\ StartCalls' = StartCalls /\ ~Takes("start") /\ starts' = starts
               /\ starts = 0 => calls' = <<>> /\ alive' = 0
    <2>1. CASE alive = s /\ s # 0
      <3>1. Call("destroy", s) \in Calls /\ Call("destroy", s).op = "destroy"
        BY <2>1 DEF Call, Calls
      <3>2. calls' = Append(calls, Call("destroy", s))
        BY <1>3, <2>1 DEF StopSelf
      <3>3. /\ Len(calls') = Len(calls) + 1 /\ calls'[Len(calls) + 1] = Call("destroy", s)
            /\ \A i \in 1..Len(calls) : calls'[i] = calls[i]
        BY <1>0, <3>1, <3>2
      <3>4. StartCalls' = StartCalls
        BY <1>0, <3>1, <3>3 DEF StartCalls
      <3>5. ~Takes("start")
        <4>1. calls # <<>> => Len(Tail(calls)) = Len(calls) - 1
          BY <1>0
        <4> QED
          BY <1>0, <3>3, <4>1 DEF Takes, Take
      <3> QED
        BY <1>3, <2>1, <3>4, <3>5
    <2>2. CASE ~(alive = s /\ s # 0)
      <3>1. UNCHANGED <<alive, calls>>
        BY <1>3, <2>2 DEF StopSelf
      <3>2. calls # <<>> => Tail(calls) # calls
        BY <1>0
      <3> QED
        BY <1>3, <3>1, <3>2 DEF Takes, Take, StartCalls
    <2> QED
      BY <2>1, <2>2
  <1>4. ASSUME NEW op \in {"create", "start", "destroy"}, Takes(op)
        PROVE  /\ starts # 0 /\ starts' = starts
               /\ \A i, k \in StartCalls' : i = k
               /\ StartCalls' # {} => StartCalls # {}
               /\ op = "start" => StartCalls' = {} /\ StartCalls # {}
               /\ Takes("start") => op = "start"
    <2>1. calls # <<>> /\ Head(calls).op = op /\ calls' = Tail(calls) /\ starts' = starts
      BY <1>4 DEF Takes, Take
    <2>2. /\ Len(calls') = Len(calls) - 1 /\ 1 \in 1..Len(calls) /\ Head(calls) = calls[1]
          /\ \A i \in 1..Len(calls') : i + 1 \in 1..Len(calls) /\ calls'[i] = calls[i + 1]
      BY <1>0, <2>1
    <2>3. \A i \in StartCalls' : i \in Nat /\ i # 0 /\ i + 1 \in StartCalls
      BY <1>0, <2>2 DEF StartCalls
    <2>4. op = "start" => 1 \in StartCalls
      BY <2>1, <2>2 DEF StartCalls
    <2>5. op = "start" => StartCalls' = {}
      BY <2>3, <2>4
    <2>6. \A i, k \in StartCalls' : i = k
      BY <2>3
    <2> QED
      BY <1>4, <2>1, <2>3, <2>4, <2>5, <2>6 DEF Takes, Take
  <1>5. CASE QueueGrows
    BY <1>0, <1>2, <1>3, <1>5 DEF QueueGrows
  <1>6. CASE \E op \in {"create", "start", "destroy"} : Takes(op)
    BY <1>0, <1>4, <1>6
  <1> QED
    BY <1>1, <1>5, <1>6 DEF QueueStep

\* a handover that is announced is served, if startCoreLoop is entered once
LEMMA OneStartStep ==
  ASSUME HostTypeOK, OneStart, ManagerStep, QueueStep,
         starts <= 1 /\ starts' <= 1 /\ StartCoreLoop => NothingYet /\ StartCalls' = {} /\ starts' # 0
  PROVE  OneStart'
  <1> SUFFICES ASSUME starts' <= 1
               PROVE  /\ Handovers'
                      /\ starts' = 0 => calls' = <<>> /\ alive' = 0
                      /\ \A i, k \in StartCalls' : i = k
                      /\ starts' = 0 \/ StartCalls' # {} => NothingYet'
    BY DEF OneStart
  <1>0. starts <= 1
    <2>1. starts \in Nat
      BY DEF HostTypeOK
    <2> QED
      BY <2>1 DEF QueueStep, QueueRests, QueueGrows, Request, Takes
  <1>1. /\ Handovers
        /\ starts = 0 => calls = <<>> /\ alive = 0
        /\ \A i, k \in StartCalls : i = k
        /\ starts = 0 \/ StartCalls # {} => NothingYet
    BY <1>0 DEF OneStart
  <1>2. /\ starts' = 0 => starts = 0 /\ calls' = <<>> /\ alive' = 0
        /\ \A i, k \in StartCalls' : i = k
        /\ starts # 0 /\ StartCalls' # {} => StartCalls # {}
    BY <1>1, StartCallIsOne
  <1>3. Handovers'
    BY <1>0, <1>1, HandoverStep DEF HostTypeOK
  <1>4. starts' = 0 \/ StartCalls' # {} => NothingYet'
    BY <1>0, <1>1, <1>2, NothingYetStays DEF HostTypeOK
  <1> QED
    BY <1>2, <1>3, <1>4

\* what startCoreLoop finds in a service that enters it once: nothing
LEMMA HostStepStartsOnce ==
  ASSUME HostTypeOK, OneStart, CallsLinked, HostStep, QueueStep, StartCoreLoop, starts <= 1, starts' <= 1
  PROVE  NothingYet /\ StartCalls' = {} /\ starts' # 0
  <1>0. pc[Main] = "idle" /\ pc'[Main] = "build"
    BY MainIsNoJob DEF StartCoreLoop, Goto, HostTypeOK, CoreTypeOK, PcOK
  <1>1. ~UNCHANGED coreVars
    BY <1>0 DEF coreVars
  <1>2. ~StartStep /\ ~Returned("started") /\ ~Returned("failed")
    BY <1>0, MainGoesOn DEF HostTypeOK, Returned
  <1>3. ~(Background \/ NetworkStep)
    BY <1>0, BackgroundMainOwned DEF HostTypeOK, MainOwned
  <1>4. ~(StopCoreLoop \/ Destroys)
    BY <1>0, StopCoreOnMain, DestroysOnMain DEF HostTypeOK, ServicePC
  <1>5. ~OnCreate
    BY <1>1 DEF OnCreate
  <1>6. Takes("start")
    BY <1>1, <1>2, <1>3, <1>4, <1>5 DEF HostStep, OnStartCommand, Takes
  <1>7. starts' # 0 /\ StartCalls' = {} /\ StartCalls # {}
    BY <1>6, StartCallIsOne DEF OneStart
  <1> QED
    BY <1>7 DEF OneStart

-----------------------------------------------------------------------------
(* All of it: what the proxy only and the root service keep *)

HostKept == CallsLinked /\ GoneIsSilent /\ CalmCore /\ Served /\ OneStart

LEMMA HostInitKept == HostInit => HostKept
  <1> SUFFICES ASSUME HostInit PROVE HostKept
    OBVIOUS
  <1>1. /\ calls = <<>> /\ alive = 0 /\ starts = 0 /\ self = 0 /\ ~receiver /\ ~running /\ ~monitor /\ ~reloading
        /\ cb = "none" /\ owned = {} /\ announced = NoNet /\ upstream = NoNet /\ stops = 0
        /\ pc[Main] = "idle" /\ \A j \in Jobs : pc[j] = "idle"
    BY MainIsNoJob DEF HostInit, CoreInit
  <1>2. StartCalls = {} /\ Chain(calls) /\ Len(calls) = 0
    BY <1>1 DEF StartCalls, Chain
  <1>3. CallsLinked /\ GoneIsSilent
    BY <1>1, <1>2 DEF CallsLinked, Chain, GoneIsSilent, Gone, MainIdle, Launching, ServicePC
  <1>4. CalmCore /\ Served
    BY <1>1 DEF CalmCore, CalmManager, NoHandover, StartOwnsCore, UiKnows, Served, Launching, ServicePC
  <1>5. NothingYet
    BY <1>1 DEF NothingYet
  <1>6. Handovers
    BY <1>1 DEF Handovers, ReloadAlone, AnnouncedIsSeen, HandoverAtWork, StartBeforeHandovers, ReloadPC, LaunchPC
  <1> QED
    BY <1>1, <1>2, <1>3, <1>4, <1>5, <1>6 DEF HostKept, OneStart

LEMMA HostStepKeeps ==
  ASSUME PromptStop, HostInv, HostKept, HostStep, CoreTypeOK'
  PROVE  HostKept'
  <1>0. HostTypeOK /\ LastCallDestroys /\ CoreTypeOK
    BY DEF HostInv, HostTypeOK
  <1>1. ManagerStep /\ QueueStep
    BY <1>0, HostStepsAreManagerSteps DEF HostKept
  <1>2. CallsLinked' /\ GoneIsSilent'
    BY <1>0, HostStepKeepsGone DEF HostKept
  <1>3. CalmCore'
    BY <1>0, <1>1, CalmStep DEF HostKept
  <1>4. Served'
    BY <1>0, <1>3, HostStepKeepsServed DEF HostKept
  <1>5. OneStart'
    BY <1>0, <1>1, HostStepStartsOnce, OneStartStep DEF HostKept
  <1> QED
    BY <1>2, <1>3, <1>4, <1>5 DEF HostKept

LEMMA HostKeptStutters ==
  ASSUME HostKept, UNCHANGED <<coreVars, monitorVars, netVars, hostVars>>
  PROVE  HostKept'
  <1> USE DEF hostVars, coreVars, monitorVars, netVars
  <1>1. CallsLinked' /\ GoneIsSilent' /\ Served'
    BY DEF HostKept, CallsLinked, GoneIsSilent, Served, Gone, MainIdle, Launching
  <1>2. CalmCore'
    BY DEF HostKept, CalmCore, CalmManager, NoHandover, StartOwnsCore, UiKnows, Launching
  <1>3. OneStart'
    BY DEF HostKept, OneStart, Handovers, ReloadAlone, AnnouncedIsSeen, HandoverAtWork,
        StartBeforeHandovers, NothingYet, StartCalls
  <1> QED
    BY <1>1, <1>2, <1>3 DEF HostKept
=============================================================================
