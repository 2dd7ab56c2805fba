-------------------------- MODULE RunModes_proofs --------------------------
(***************************************************************************)
(* The daemon in any of its run modes, for any networks, jobs and bounds.  *)
(* First the proxy only service by itself; then the composition, where the *)
(* service that runs keeps the invariant of its own module and the state   *)
(* of the other modes stays as it was.                                     *)
(***************************************************************************)
EXTENDS RunModes, RootService_proofs, VpnService_proofs

-----------------------------------------------------------------------------
(* The proxy only service *)

\* the destructor takes everything down that the start registered
LEMMA ProxyDestroyKeepsInv ==
  ASSUME HostInv, ProxyOnDestroy
  PROVE  HostInv'
  <1>1. /\ CoreTypeOK'
        /\ pc'[Main] = "idle" /\ ~monitor' /\ ~receiver'
        /\ UNCHANGED <<alive, starts, self, restart>>
    BY StopCoreKeepsTypes DEF ProxyOnDestroy, HostInv, HostTypeOK
  <1>2. calls' \in Seq(Calls) /\ LastCallDestroys'
    BY <1>1, TakeKeepsCalls DEF ProxyOnDestroy
  <1> QED
    BY <1>1, <1>2 DEF HostInv, HostTypeOK, NothingLeftBehind, MainIdle

\* every step of the service keeps the invariant
LEMMA ProxyStepKeepsInv ==
  ASSUME HostInv, ProxyNext
  PROVE  HostInv'
  <1>1. CASE Users \/ Restarter
    BY <1>1, UserKeepsInv
  <1>2. CASE ProxyMain
    BY <1>2, StartKeepsInv, ReturnKeepsInv, ProxyDestroyKeepsInv DEF ProxyMain
  <1>3. CASE Background \/ NetworkStep
    BY <1>3, BackgroundKeepsInv
  <1> QED
    BY <1>1, <1>2, <1>3 DEF ProxyNext

\* the invariant is inductive
THEOREM ProxyInvariance == ProxySpec => []HostInv
  <1>1. ProxyInit => HostInv
    BY HostInitInv DEF ProxyInit
  <1>2. HostInv /\ [ProxyNext]_proxyServiceVars => HostInv'
    BY ProxyStepKeepsInv, HostStutters DEF proxyServiceVars
  <1> QED
    BY <1>1, <1>2, PTL DEF ProxySpec

\* the service, the manager and the monitor keep their types
THEOREM ProxyTypeCorrect == ProxySpec => []HostTypeOK
  <1>1. HostInv => HostTypeOK
    BY DEF HostInv
  <1> QED
    BY <1>1, ProxyInvariance, PTL

\* no monitor, no receiver and no start survives the last service
THEOREM NothingIsLeftBehind == ProxySpec => []NothingLeftBehind
  <1>1. HostInv => NothingLeftBehind
    BY DEF HostInv
  <1> QED
    BY <1>1, ProxyInvariance, PTL

-----------------------------------------------------------------------------
(* The modes together *)

NoRules == rules = FALSE /\ setup = <<>> /\ setupJob = [s \in 1..MaxStarts |-> 0]

\* the mode that runs keeps its invariant, the state of the others is the initial one
ModesInv ==
  \/ mode = "proxy" /\ HostInv /\ NoRules /\ VpnVarsInit
  \/ mode = "root" /\ RootInv /\ VpnVarsInit
  \/ mode = "vpn" /\ VpnInv /\ NoRules

LEMMA ModesInitInv == Init => ModesInv
  <1> SUFFICES ASSUME Init PROVE ModesInv
    OBVIOUS
  <1>1. HostInit /\ NoRules /\ VpnVarsInit
    BY DEF Init, RootInit, NoRules
  <1>2. HostInv /\ RootInv
    BY <1>1, HostInitInv, RootInitInv DEF Init
  <1>3. VpnInv
    BY <1>1, VpnInitInv DEF VpnInit
  <1> QED
    BY <1>1, <1>2, <1>3 DEF Init, ModesInv

LEMMA ModesStep == PromptStop /\ ModesInv /\ [Next]_vars => ModesInv'
  <1> SUFFICES ASSUME PromptStop, ModesInv, [Next]_vars PROVE ModesInv'
    OBVIOUS
  <1>1. CASE ProxyStep(ProxyNext)
    BY <1>1, ProxyStepKeepsInv
    DEF ProxyStep, ModeIs, ModesInv, NoRules, VpnVarsInit, rootVars, vpnVars, objVars
  <1>2. CASE RootStep(RootNext)
    BY <1>2, RootStepKeepsInv DEF RootStep, ModeIs, ModesInv, VpnVarsInit, vpnVars, objVars
  <1>3. CASE VpnStep(VpnNext)
    BY <1>3, VpnStepKeepsInv DEF VpnStep, ModeIs, ModesInv, NoRules, rootVars
  <1>4. CASE UNCHANGED vars
    <2>1. UNCHANGED <<mode, coreVars, monitorVars, netVars, hostVars, rootVars, vpnVars>>
      BY <1>4 DEF vars
    <2> QED
      BY <2>1, HostStutters, RootStutters, VpnStutters
      DEF ModesInv, NoRules, VpnVarsInit, rootVars, vpnVars, objVars, rootServiceVars, vpnServiceVars
  <1> QED
    BY <1>1, <1>2, <1>3, <1>4 DEF Next, Step

-----------------------------------------------------------------------------
(* What the modes keep as long as nothing overlaps *)

LEMMA ProxyStepIsHostStep ==
  ASSUME HostTypeOK, ProxyNext PROVE HostStep
  <1>1. CASE Users \/ Restarter
    BY <1>1, UsersAreQueueSteps DEF HostStep
  <1>2. CASE ProxyOnDestroy
    BY <1>2 DEF ProxyOnDestroy, HostStep, Takes, StopCoreLoop, StopCoreLoopOn
  <1> QED
    BY <1>1, <1>2 DEF ProxyNext, ProxyMain, HostStep

ModesKept ==
  /\ mode = "proxy" => HostKept
  /\ mode = "root" => RootKept
  /\ mode = "vpn" => VpnKept

\* the bound holds of every state, whatever the next step would do
ApartSoFar == Overlap \/ changes = 0 \/ starts <= 1

RunModesInv == ModesInv /\ ModesKept /\ ApartSoFar

LEMMA RunModesInit == Init => RunModesInv
  <1> SUFFICES ASSUME Init PROVE RunModesInv
    OBVIOUS
  <1>1. HostInit /\ VpnInit /\ changes = 0
    BY DEF Init, RootInit, VpnInit, HostInit, CoreInit
  <1>2. HostKept /\ RootKept /\ VpnKept
    BY <1>1, HostInitKept, RootInitKept, VpnInitKept DEF Init
  <1> QED
    BY <1>1, <1>2, ModesInitInv DEF RunModesInv, ModesKept, ApartSoFar

LEMMA RunModesStep == PromptStop /\ RunModesInv /\ [Next]_vars => RunModesInv'
  <1> SUFFICES ASSUME PromptStop, RunModesInv, [Next]_vars PROVE RunModesInv'
    OBVIOUS
  <1>0. ModesInv /\ ModesKept /\ ApartSoFar /\ ModesInv'
    BY ModesStep DEF RunModesInv
  <1>1. ProxyStep(ProxyNext) => ModesKept'
    <2> SUFFICES ASSUME ProxyStep(ProxyNext) PROVE ModesKept'
      OBVIOUS
    <2>1. mode = "proxy" /\ mode' = mode /\ HostInv /\ HostKept
      BY <1>0 DEF ProxyStep, ModeIs, ModesInv, ModesKept
    <2>2. HostStep /\ CoreTypeOK'
      BY <2>1, ProxyStepIsHostStep, ProxyStepKeepsInv DEF ProxyStep, HostInv, HostTypeOK
    <2>3. HostKept'
      BY <2>1, <2>2, HostStepKeeps
    <2> QED
      BY <2>1, <2>3 DEF ModesKept
  <1>2. RootStep(RootNext) => ModesKept'
    <2> SUFFICES ASSUME RootStep(RootNext) PROVE ModesKept'
      OBVIOUS
    <2>1. mode = "root" /\ mode' = mode /\ RootInv /\ RootKept
      BY <1>0 DEF RootStep, ModeIs, ModesInv, ModesKept
    <2>2. RootKept'
      BY <2>1, RootStepKeeps DEF RootStep
    <2> QED
      BY <2>1, <2>2 DEF ModesKept
  <1>3. VpnStep(VpnNext) => ModesKept'
    <2> SUFFICES ASSUME VpnStep(VpnNext) PROVE ModesKept'
      OBVIOUS
    <2>1. mode = "vpn" /\ mode' = mode /\ VpnInv /\ VpnKept
      BY <1>0 DEF VpnStep, ModeIs, ModesInv, ModesKept
    <2>2. VpnKept'
      BY <2>1, VpnStepKeeps DEF VpnStep
    <2> QED
      BY <2>1, <2>2 DEF ModesKept
  <1>4. UNCHANGED vars => ModesKept' /\ ApartSoFar'
    <2> SUFFICES ASSUME UNCHANGED vars PROVE ModesKept' /\ ApartSoFar'
      OBVIOUS
    <2>1. UNCHANGED <<mode, coreVars, monitorVars, netVars, hostVars, rootVars, vpnVars>>
      BY DEF vars
    <2>2. ModesKept'
      BY <1>0, <2>1, HostKeptStutters, RootKeptStutters, VpnKeptStutters
      DEF ModesKept, rootServiceVars, vpnServiceVars
    <2> QED
      BY <1>0, <2>1, <2>2 DEF ApartSoFar, netVars, hostVars
  <1>5. Apart => ApartSoFar'
    BY DEF Apart, ApartSoFar
  <1> QED
    BY <1>0, <1>1, <1>2, <1>3, <1>4, <1>5 DEF Next, Step, RunModesInv

\* The invariant of all modes is inductive: the one that runs keeps its own,
\* the state of the others is untouched, and nothing overlaps.
THEOREM RunModesInvariance == PromptStop => (Spec => []RunModesInv)
  <1> SUFFICES ASSUME PromptStop PROVE Spec => []RunModesInv
    OBVIOUS
  <1>1. RunModesInv /\ [Next]_vars => RunModesInv'
    BY RunModesStep
  <1> QED
    BY <1>1, RunModesInit, PTL DEF Spec

-----------------------------------------------------------------------------
(* What holds in every mode *)

LEMMA ModesHost == ModesInv => HostInv
  BY VpnInvHost DEF ModesInv, RootInv

LEMMA NoRulesRoot ==
  ASSUME HostInv, NoRules PROVE RootInv
  <1>1. setup = <<>> /\ Len(setup) = 0 /\ MaxStarts \in Nat /\ self \in 0..MaxStarts
    BY ServiceHostAssumption DEF NoRules, HostInv, HostTypeOK
  <1>2. setup \in Seq([at : SetupPC, of : 0..MaxStarts])
    BY <1>1
  <1>3. setupJob \in [1..MaxStarts -> 0..Len(setup)]
    BY <1>1 DEF NoRules
  <1>4. self # 0 => setupJob[self] = 0
    BY <1>1 DEF NoRules
  <1> QED
    BY <1>2, <1>3, <1>4 DEF RootInv, RootTypeOK, JoinedIsDone, HostInv, NoRules

\* Types, the queue of callbacks and what is left with the last service, in
\* every run mode.
THEOREM ModesHostInvariance == PromptStop => (Spec => []HostInv)
  <1> SUFFICES ASSUME PromptStop PROVE Spec => []HostInv
    OBVIOUS
  <1>1. RunModesInv => HostInv
    BY ModesHost DEF RunModesInv
  <1> QED
    BY <1>1, RunModesInvariance, PTL

\* When the last service is gone, with no callback left, there is neither
\* monitor nor receiver and no start under way, in every run mode
\* (CoreServiceManager.kt:196-197, 217-221).
THEOREM ModesLeaveNothing == PromptStop => (Spec => []NothingLeftBehind)
  <1> SUFFICES ASSUME PromptStop PROVE Spec => []NothingLeftBehind
    OBVIOUS
  <1>1. HostInv => NothingLeftBehind
    BY DEF HostInv
  <1> QED
    BY <1>1, ModesHostInvariance, PTL

\* The destructor is past its wait only if the setup it waited for has ended
\* (CoreRootService.kt:75).
THEOREM ModesRootInvariance == PromptStop => (Spec => []RootInv)
  <1> SUFFICES ASSUME PromptStop PROVE Spec => []RootInv
    OBVIOUS
  <1>1. RunModesInv => RootInv
    BY NoRulesRoot, VpnInvHost DEF RunModesInv, ModesInv
  <1> QED
    BY <1>1, RunModesInvariance, PTL

-----------------------------------------------------------------------------
(* Once everything is done, as long as the network stays *)

LEMMA QuietMain ==
  ASSUME CoreQuiet PROVE MainIdle /\ pc[Main] = "idle" /\ ~Launching /\ pc[Main] \notin ServicePC /\ stops = 0
  BY MainIsNoJob DEF CoreQuiet, MainIdle, Launching, ServicePC

LEMMA KeptIsCalm ==
  ASSUME RunModesInv, changes = 0 PROVE CalmManager
  BY DEF RunModesInv, ModesInv, ModesKept, HostKept, RootKept, VpnKept, CalmCore

\* the last service took the receiver along, and with it the core
LEMMA QuietGone ==
  ASSUME RunModesInv, AllQuiet, changes = 0, alive = 0 PROVE ~running
  <1>1. CoreQuiet /\ calls = <<>> /\ HostInv
    BY ModesHost DEF AllQuiet, RootQuiet, Quiet, RunModesInv
  <1>2. ~receiver
    BY <1>1, QuietMain DEF HostInv, NothingLeftBehind
  <1> QED
    BY <1>1, <1>2, QuietMain, KeptIsCalm DEF CalmManager, StartOwnsCore

\* the service that is alive is the one that was created last
LEMMA QuietAlive ==
  ASSUME RunModesInv, AllQuiet, alive # 0 PROVE alive = self
  <1>1. calls = <<>>
    BY DEF AllQuiet, RootQuiet, Quiet
  <1>2. CASE mode = "vpn"
    <2>1. CallsInOrder
      BY <1>2 DEF RunModesInv, ModesInv, VpnInv
    <2>2. \A c, d : <<c, d>> # <<>> /\ <<c>> # <<>>
      OBVIOUS
    <2> QED
      BY <1>1, <2>1, <2>2 DEF CallsInOrder, StartPending, DestroyPending
  <1>3. CASE mode # "vpn"
    BY <1>1, <1>3 DEF RunModesInv, ModesInv, ModesKept, HostKept, RootKept, CallsLinked
  <1> QED
    BY <1>2, <1>3

\* and it has its core
LEMMA QuietServed ==
  ASSUME RunModesInv, AllQuiet, changes = 0, alive # 0 PROVE running /\ receiver
  <1>1. CoreQuiet /\ calls = <<>> /\ AllIdle
    BY DEF AllQuiet, RootQuiet, Quiet, VpnQuiet, AllIdle
  <1>2. MainIdle /\ alive = self
    BY <1>1, QuietMain, QuietAlive
  <1>3. CASE mode = "vpn"
    <2>1. CalmVpn
      BY <1>3 DEF RunModesInv, ModesKept, VpnKept
    <2>2. receiver
      BY <1>1, <1>2, <2>1 DEF CalmVpn
    <2>3. vpc[Main] = "idle"
      BY <1>1, MainIsThread DEF AllIdle
    <2> QED
      BY <2>1, <2>2, <2>3 DEF CalmVpn
  <1>4. CASE mode # "vpn"
    BY <1>1, <1>2, <1>4 DEF RunModesInv, ModesInv, ModesKept, HostKept, RootKept, Served
  <1> QED
    BY <1>3, <1>4

\* CoreServiceManager.kt:188-190: as long as the network stays, no core
\* outlives the last service.
THEOREM NoCoreIsOrphaned == PromptStop => (Spec => []CalmNoOrphanCore)
  <1> SUFFICES ASSUME PromptStop PROVE Spec => []CalmNoOrphanCore
    OBVIOUS
  <1>1. RunModesInv => CalmNoOrphanCore
    BY QuietGone DEF CalmNoOrphanCore, NoOrphanCore, Calm
  <1> QED
    BY <1>1, RunModesInvariance, PTL

\* CoreServiceManager.kt:116-126: as long as the network stays, a core that
\* runs has a service that is alive, created last, and listens to requests.
THEOREM CoreStaysReachable == PromptStop => (Spec => []CalmCoreIsReachable)
  <1> SUFFICES ASSUME PromptStop PROVE Spec => []CalmCoreIsReachable
    OBVIOUS
  <1>1. RunModesInv => CalmCoreIsReachable
    BY QuietGone, QuietAlive, QuietServed DEF CalmCoreIsReachable, CoreIsReachable, Calm
  <1> QED
    BY <1>1, RunModesInvariance, PTL

LEMMA QuietHasCore ==
  ASSUME RunModesInv, AllQuiet, changes = 0, alive # 0 PROVE running /\ ui = "START_SUCCESS"
  <1>1. running /\ receiver /\ CalmManager
    BY QuietServed, KeptIsCalm
  <1>2. ~Launching
    BY QuietMain DEF AllQuiet, RootQuiet, Quiet
  <1> QED
    BY <1>1, <1>2 DEF CalmManager, UiKnows

\* CoreProxyOnlyService.kt:32-48: as long as the network stays, a service that
\* is up has its core and the UI was told so.
THEOREM ServiceKeepsCore == PromptStop => (Spec => []CalmServiceHasCore)
  <1> SUFFICES ASSUME PromptStop PROVE Spec => []CalmServiceHasCore
    OBVIOUS
  <1>1. RunModesInv => CalmServiceHasCore
    BY QuietHasCore DEF CalmServiceHasCore, ServiceHasCore, Calm
  <1> QED
    BY <1>1, RunModesInvariance, PTL

\* CoreRootService.kt:70-77: as long as the network stays, the core of a root
\* service at rest has its rules, and rules that stay have a core.
THEOREM RulesAndCoreMatch == PromptStop => (Spec => []RulesMatchCore)
  <1> SUFFICES ASSUME PromptStop PROVE Spec => []RulesMatchCore
    OBVIOUS
  <1>1. RunModesInv => RulesMatchCore
    <2> SUFFICES ASSUME RunModesInv, mode = "root", changes = 0, RootQuiet
                 PROVE  /\ alive # 0 /\ running => rules
                        /\ rules => running
      BY DEF RulesMatchCore, Calm, RunningMeansRouted, RulesHaveCore
    <2>1. RootKept /\ RootTypeOK /\ RulesGoWithCore /\ CallsLinked
      BY DEF RunModesInv, ModesInv, ModesKept, RootInv, RootKept, HostKept
    <2>2. MainIdle /\ pc[Main] = "idle" /\ stops = 0 /\ calls = <<>>
      BY QuietMain DEF RootQuiet, Quiet
    <2>3. rules => running
      BY <2>1, <2>2 DEF RulesGoWithCore
    <2>4. ASSUME alive # 0, running PROVE rules
      <3>1. alive = self /\ ~Gone
        BY <2>1, <2>2, <2>4 DEF CallsLinked, Gone
      <3>2. setupJob[self] # 0 /\ (setup[setupJob[self]].at \in {"script", "done"} => rules)
        BY <2>1, <2>2, <2>4, <3>1 DEF RulesGoWithCore
      <3>3. setupJob[self] \in DOMAIN setup
        BY <2>1, <2>4, <3>1, <3>2 DEF RootTypeOK, HostTypeOK
      <3> QED
        BY <3>2, <3>3 DEF RootQuiet
    <2> QED
      BY <2>3, <2>4
  <1> QED
    BY <1>1, RunModesInvariance, PTL

\* CoreVpnService.kt:79-88: as long as the network stays, a start that the lock
\* turns away finds the service up, with its interface and its core.
THEOREM LockTakenMeansUp == PromptStop => (Spec => []CalmLockMeansUp)
  <1> SUFFICES ASSUME PromptStop PROVE Spec => []CalmLockMeansUp
    OBVIOUS
  <1>1. RunModesInv => CalmLockMeansUp
    <2> SUFFICES ASSUME RunModesInv, changes = 0, VpnQuiet, NEW s \in Objects, lock[s]
                 PROVE  alive = s /\ iface[s] = "open" /\ running
      BY DEF CalmLockMeansUp, Calm, LockMeansUp
    <2>1. mode = "vpn"
      BY DEF RunModesInv, ModesInv, VpnVarsInit
    <2>2. VpnInv /\ CalmVpn
      BY <2>1 DEF RunModesInv, ModesInv, ModesKept, VpnKept
    <2>3. vpc[Main] = "idle" /\ \A t \in Threads : vpc[t] = "idle"
      BY MainIsThread DEF VpnQuiet
    <2>4. s = self /\ alive = self /\ receiver
      BY <2>2, <2>3 DEF CalmVpn, StartStages
    <2>5. running
      BY <2>2, <2>3, <2>4 DEF CalmVpn
    <2>6. iface[self] = "open"
      BY <2>2, <2>3, <2>4 DEF VpnInv, ReceiverServes
    <2> QED
      BY <2>4, <2>5, <2>6
  <1> QED
    BY <1>1, RunModesInvariance, PTL

\* CoreVpnService.kt:59-61, 336-349, 359-361: as long as the network stays, an
\* open interface has a service and a core behind it, and a service that is gone
\* leaves no core, no tunnel a start did not let go of, and no shared rules.
THEOREM VpnTakesAllDown == PromptStop => (Spec => []CalmVpnLeavesNothing)
  <1> SUFFICES ASSUME PromptStop PROVE Spec => []CalmVpnLeavesNothing
    OBVIOUS
  <1>1. RunModesInv => CalmVpnLeavesNothing
    <2> SUFFICES ASSUME RunModesInv, changes = 0, VpnQuiet
                 PROVE  /\ \A s \in Objects : iface[s] = "open" => alive = s /\ running
                        /\ alive = 0 => ~running /\ (tun # "up" \/ forgotten) /\ share = "off"
      BY DEF CalmVpnLeavesNothing, Calm, VpnLeavesNothing
    <2>1. \A t \in Threads : vpc[t] = "idle"
      BY DEF VpnQuiet
    <2>2. CoreQuiet /\ calls = <<>> /\ HostInv /\ vpc[Main] = "idle"
      BY <2>1, MainIsThread, ModesHost DEF VpnQuiet, Quiet, RunModesInv
    <2>3. alive = 0 => ~running
      <3>1. alive = 0 => ~receiver
        BY <2>2, QuietMain DEF HostInv, NothingLeftBehind
      <3> QED
        BY <2>2, <3>1, QuietMain, KeptIsCalm DEF CalmManager, StartOwnsCore
    <2>4. CASE mode = "vpn"
      <3>1. VpnInv /\ CalmVpn
        BY <2>4 DEF RunModesInv, ModesInv, ModesKept, VpnKept
      <3>2. Stoppers = {}
        BY <2>1 DEF Stoppers, StopStages
      <3>3. ASSUME NEW s \in Objects, iface[s] = "open" PROVE alive = s /\ running
        <4>1. s = self /\ alive = self /\ s # 0
          BY <3>1, <3>2, <3>3 DEF VpnInv, OpenIsOwned, Objects
        <4>2. receiver
          BY <2>1, <2>2, <3>1, <4>1 DEF CalmVpn, AllIdle
        <4> QED
          BY <2>2, <3>1, <4>1, <4>2 DEF CalmVpn
      <3>4. ASSUME alive = 0 PROVE (tun # "up" \/ forgotten) /\ share = "off"
        <4>1. (tun # "up" \/ forgotten) /\ share # "on"
          BY <3>1, <3>4 DEF VpnInv, TunnelServes, SharingServes
        <4>2. share # "stopping"
          BY <2>1, <3>1 DEF VpnInv, SomeoneUnshares
        <4> QED
          BY <3>1, <4>1, <4>2 DEF VpnInv, VpnTypeOK
      <3> QED
        BY <2>3, <3>3, <3>4
    <2>5. CASE mode # "vpn"
      BY <2>3, <2>5 DEF RunModesInv, ModesInv, VpnVarsInit
    <2> QED
      BY <2>4, <2>5
  <1> QED
    BY <1>1, RunModesInvariance, PTL

-----------------------------------------------------------------------------
(* As long as start requests and network changes do not overlap *)

LEMMA KeptIsApart ==
  ASSUME RunModesInv, ~Overlap
  PROVE  /\ changes = 0 \/ starts <= 1
         /\ CalmCore /\ OneStart
         /\ mode = "root" => SetupIsOwned
         /\ mode # "root" => ~rules
  BY DEF RunModesInv, ApartSoFar, ModesInv, ModesKept, HostKept, RootKept, VpnKept, NoRules

\* CoreServiceManager.kt:250-253: a handover that was announced and not refused
\* leaves the core on a configuration resolved on the new network.
THEOREM HandoversAreServed == PromptStop /\ ~Overlap => (Spec => []HandoverServed)
  <1> SUFFICES ASSUME PromptStop, ~Overlap PROVE Spec => []HandoverServed
    OBVIOUS
  <1>1. RunModesInv => HandoverServed
    <2> SUFFICES ASSUME RunModesInv, CoreQuiet, running, monitor, announced = upstream, ~dropped
                 PROVE  builtOn = upstream
      BY DEF HandoverServed
    <2>1. CoreTypeOK
      BY ModesHost DEF RunModesInv, HostInv, HostTypeOK
    <2>2. announced = net /\ upstream = net /\ announced # NoNet /\ cb = "none"
      BY <2>1, CoreServiceAssumption DEF CoreQuiet, CoreTypeOK, DataOK
    <2>3. \A j \in owned : pc[j] = "idle"
      BY <2>1, MainIsNoJob DEF CoreQuiet, CoreTypeOK, DataOK
    <2>4. CASE changes = 0
      BY <2>2, <2>4, KeptIsCalm DEF CalmManager, NoHandover
    <2>5. CASE starts <= 1
      <3>1. HandoverAtWork
        BY <2>5, KeptIsApart DEF OneStart, Handovers
      <3>2. builtOn = net
        BY <2>2, <2>3, <3>1 DEF HandoverAtWork
      <3> QED
        BY <2>2, <3>2
    <2> QED
      BY <2>4, <2>5, KeptIsApart
  <1> QED
    BY <1>1, RunModesInvariance, PTL

\* CoreRootService.kt:70-74: no rule outlives the service.
THEOREM NoRulesOutliveService == PromptStop /\ ~Overlap => (Spec => []NoRulesWithoutService)
  <1> SUFFICES ASSUME PromptStop, ~Overlap PROVE Spec => []NoRulesWithoutService
    OBVIOUS
  <1>1. RunModesInv => NoRulesWithoutService
    <2> SUFFICES ASSUME RunModesInv, RootQuiet, alive = 0 PROVE ~rules
      BY DEF NoRulesWithoutService
    <2>1. CoreQuiet /\ calls = <<>>
      BY DEF RootQuiet, Quiet
    <2>2. Gone /\ pc[Main] = "idle"
      BY <2>1, QuietMain DEF Gone
    <2> QED
      BY <2>2, KeptIsApart DEF SetupIsOwned
  <1> QED
    BY <1>1, RunModesInvariance, PTL

\* only the destructor of the root service, past the rules, stops its core
LEMMA RootStopsLast ==
  ASSUME RootInv, RootNext, stops' > stops PROVE pc[Main] = "stop"
  <1>0. HostTypeOK /\ CoreTypeOK /\ RootTypeOK /\ stops \in Nat
    BY DEF RootInv, RootTypeOK, HostTypeOK, CoreTypeOK, DataOK
  <1>1. ~UNCHANGED stops
    BY <1>0
  <1>2. ~(OnCreate \/ OnStartCommand \/ StartStep)
    BY <1>0, <1>1, MainGoesOn DEF OnCreate, OnStartCommand, StartCoreLoop, coreVars
  <1>3. ~StartReturned
    BY <1>1 DEF StartReturned, Returned
  <1>4. ~(RootOnDestroy \/ DestroyJoin \/ DestroyRules)
    BY <1>1 DEF RootOnDestroy, DestroyJoin, DestroyRules
  <1>5. ~\E k \in DOMAIN setup : SetupStep(k)
    BY <1>1 DEF SetupStep, coreVars
  <1>6. ~(Users \/ Restarter)
    BY <1>0, <1>1, UsersAreQueueSteps DEF coreVars
  <1>7. ~(Background \/ NetworkStep)
    <2> SUFFICES ASSUME Background \/ NetworkStep PROVE FALSE
      OBVIOUS
    <2>1. stops' <= stops /\ stops' \in Nat
      BY <1>0, BackgroundStops, BackgroundMainOwned DEF CoreTypeOK, DataOK
    <2> QED
      BY <1>0, <2>1
  <1> QED
    BY <1>2, <1>3, <1>4, <1>5, <1>6, <1>7 DEF RootNext, RootMain, DestroyCore

\* CoreRootService.kt:76-77: no rule is in place when the core of a service
\* that goes is told to stop.
THEOREM RulesAreGoneFirst == PromptStop /\ ~Overlap => (Spec => RulesGoFirst)
  <1> SUFFICES ASSUME PromptStop, ~Overlap PROVE Spec => RulesGoFirst
    OBVIOUS
  <1>1. RunModesInv /\ [Next]_vars => [stops' > stops => ~rules]_vars
    <2> SUFFICES ASSUME RunModesInv, Next, stops' > stops PROVE ~rules
      OBVIOUS
    <2>1. CASE mode = "root"
      <3>1. RootInv /\ RootNext
        BY <2>1 DEF RunModesInv, ModesInv, Next, Step, ProxyStep, RootStep, VpnStep, ModeIs
      <3>2. pc[Main] = "stop"
        BY <3>1, RootStopsLast
      <3> QED
        BY <2>1, <3>2, KeptIsApart DEF SetupIsOwned, ServicePC
    <2> QED
      BY <2>1, KeptIsApart
  <1> QED
    BY <1>1, RunModesInvariance, PTL DEF Spec, RulesGoFirst

-----------------------------------------------------------------------------
(* The order in which the VPN service goes down *)

\* CoreVpnService.kt:344, 368-372: the interface is closed only when no tunnel
\* reads from it, unless a start by the system replaces it or let go of the tunnel.
THEOREM TunnelGoesFirst == PromptStop => (Spec => FdOutlivesTunnel)
  <1> SUFFICES ASSUME PromptStop PROVE Spec => FdOutlivesTunnel
    OBVIOUS
  <1>1. RunModesInv /\ [Next]_vars =>
          [\A s \in Objects : iface[s] = "open" /\ iface'[s] # "open"
             => tun # "up" \/ forgotten \/ vpc[Main] = "setup"]_vpnServiceVars
    <2> SUFFICES ASSUME RunModesInv, [Next]_vars,
                        NEW s \in Objects, iface[s] = "open", iface'[s] # "open"
                 PROVE  tun # "up" \/ forgotten \/ vpc[Main] = "setup"
      OBVIOUS
    <2>1. ~UNCHANGED iface
      OBVIOUS
    <2>2. VpnStep(VpnNext)
      BY <2>1 DEF Next, Step, ProxyStep, RootStep, vars, vpnVars, objVars
    <2>3. VpnInv /\ VpnNext
      BY <2>2 DEF VpnStep, ModeIs, RunModesInv, ModesInv
    <2> QED
      BY <2>3, CloseIsLate
  <1> QED
    BY <1>1, RunModesInvariance, PTL DEF Spec, FdOutlivesTunnel

\* RootLanSharing.kt:38: the rules of LAN sharing are gone when the core is told
\* to stop, as long as one thread stops the service.
THEOREM SharingIsGoneFirst == PromptStop => (Spec => SharingGoesFirst)
  <1> SUFFICES ASSUME PromptStop PROVE Spec => SharingGoesFirst
    OBVIOUS
  <1>1. RunModesInv /\ [Next]_vars =>
          [stops' > stops => share = "off" \/ \E t, u \in Stoppers : t # u]_vpnServiceVars
    <2> SUFFICES ASSUME RunModesInv, [Next]_vars, stops' > stops, share # "off"
                 PROVE  \E t, u \in Stoppers : t # u
      OBVIOUS
    <2>1. mode = "vpn" /\ VpnInv
      BY DEF RunModesInv, ModesInv, VpnVarsInit
    <2>2. stops \in Nat
      BY <2>1 DEF VpnInv, VpnTypeOK, HostTypeOK, CoreTypeOK, DataOK
    <2>3. ~UNCHANGED vars
      BY <2>2 DEF vars, coreVars
    <2>4. VpnNext
      BY <2>1, <2>3 DEF Next, Step, ProxyStep, RootStep, VpnStep, ModeIs
    <2> QED
      BY <2>1, <2>4, CoreIsLate
  <1> QED
    BY <1>1, RunModesInvariance, PTL DEF Spec, SharingGoesFirst
=============================================================================
