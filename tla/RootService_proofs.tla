------------------------ MODULE RootService_proofs ------------------------
(***************************************************************************)
(* RootInv is an invariant of RootService, for any networks, handover jobs *)
(* and bounds: types, nothing registered survives the last service, and    *)
(* the destructor is never past its wait while the setup it waits for is   *)
(* still at work.                                                          *)
(***************************************************************************)
EXTENDS RootService, ServiceHost_proofs

SetupRecords == [at : SetupPC, of : 0..MaxStarts]

LEMMA RootInitInv == RootInit => RootInv
  <1> SUFFICES ASSUME RootInit PROVE RootInv
    OBVIOUS
  <1>1. HostInv
    BY HostInitInv DEF RootInit
  <1>2. rules \in BOOLEAN
    BY Zenon DEF RootInit
  <1>3. /\ setup \in Seq(SetupRecords)
        /\ setupJob \in [1..MaxStarts -> 0..Len(setup)]
    BY DEF RootInit
  <1>4. JoinedIsDone
    BY DEF RootInit, HostInit, CoreInit, JoinedIsDone, Launchers
  <1> QED
    BY <1>1, <1>2, <1>3, <1>4 DEF RootInv, RootTypeOK, HostInv, SetupRecords

\* a setup coroutine moves on: no other one does, and a finished one stays so
LEMMA AtKeepsSetups ==
  ASSUME RootInv, NEW k \in DOMAIN setup, NEW from \in SetupPC \ {"done"},
         NEW to \in SetupPC, SetupAt(k, from, to)
  PROVE  /\ setup' \in Seq(SetupRecords)
         /\ Len(setup') = Len(setup)
         /\ \A i \in DOMAIN setup : setup[i].at = "done" => setup'[i] = setup[i]
  <1>1. setup \in Seq(SetupRecords)
    BY DEF RootInv, RootTypeOK, SetupRecords
  <1>2. setup[k] \in SetupRecords
    BY <1>1
  <1>3. [setup[k] EXCEPT !.at = to] \in SetupRecords
    BY <1>2 DEF SetupRecords
  <1>4. setup' = [setup EXCEPT ![k] = [setup[k] EXCEPT !.at = to]]
    BY DEF SetupAt
  <1>5. setup' \in Seq(SetupRecords) /\ Len(setup') = Len(setup)
    BY <1>1, <1>3, <1>4
  <1>6. \A i \in DOMAIN setup : i # k => setup'[i] = setup[i]
    BY <1>1, <1>4
  <1>7. setup[k].at # "done"
    BY DEF SetupAt
  <1> QED
    BY <1>5, <1>6, <1>7

LEMMA SetupKeepsInv ==
  ASSUME RootInv, NEW k \in DOMAIN setup, SetupStep(k)
  PROVE  RootInv'
  <1>1. \E from \in SetupPC \ {"done"}, to \in SetupPC : SetupAt(k, from, to)
    BY DEF SetupStep, SetupTeardown, SetupBegin, SetupEnd, SetupRollback, SetupFailed,
        SetupPC
  <1>2. /\ setup' \in Seq(SetupRecords)
        /\ Len(setup') = Len(setup)
        /\ \A i \in DOMAIN setup : setup[i].at = "done" => setup'[i] = setup[i]
    BY <1>1, AtKeepsSetups
  <1>3. rules' \in BOOLEAN
    BY DEF SetupStep, SetupTeardown, SetupBegin, SetupEnd, SetupRollback, SetupFailed,
        RootInv, RootTypeOK
  <1>4. UNCHANGED <<setupJob, self, pc>>
    BY DEF SetupStep, SetupTeardown, SetupBegin, SetupEnd, SetupRollback, SetupFailed,
        hostVars, coreVars
  <1>5. HostInv'
    <2>1. CASE SetupFailed(k)
      <3>1. restart' \in Restarts
        BY <2>1 DEF SetupFailed, RootInv, HostInv, HostTypeOK
      <3> QED
        BY <2>1, <3>1, StopSelfKeepsHost DEF SetupFailed, SetupStep, RootInv
    <2>2. CASE UNCHANGED hostVars
      BY <2>2, HostStutters DEF SetupStep, RootInv
    <2> QED
      BY <2>1, <2>2 DEF SetupStep, SetupTeardown, SetupBegin, SetupEnd, SetupRollback
  <1>6. JoinedIsDone'
    <2>1. ASSUME self # 0, setupJob[self] # 0, pc[Main] \in {"teardown", "stop"}
          PROVE  setupJob[self] \in DOMAIN setup
      <3>1. self \in 1..MaxStarts /\ setupJob[self] \in 1..Len(setup)
        BY <2>1, ServiceHostAssumption DEF RootInv, RootTypeOK, HostInv, HostTypeOK
      <3> QED
        BY <3>1 DEF RootInv, RootTypeOK
    <2> QED
      BY <1>2, <1>4, <2>1 DEF RootInv, JoinedIsDone
  <1> QED
    BY <1>2, <1>3, <1>4, <1>5, <1>6 DEF RootInv, RootTypeOK, HostInv, SetupRecords

\* steps that leave what RootService adds alone, and do not take the main
\* thread past the destructor's wait
LEMMA HostStepKeepsRoot ==
  ASSUME RootInv, HostInv', UNCHANGED rootVars,
         pc'[Main] \in {"teardown", "stop"} =>
           /\ UNCHANGED self
           /\ \/ pc[Main] \in {"teardown", "stop"}
              \/ setupJob[self] # 0 => setup[setupJob[self]].at = "done"
  PROVE  RootInv'
  <1>1. RootTypeOK'
    BY DEF RootInv, RootTypeOK, HostInv, rootVars
  <1>2. JoinedIsDone'
    BY DEF RootInv, JoinedIsDone, rootVars
  <1> QED
    BY <1>1, <1>2 DEF RootInv

\* the main thread moves inside the destructor
LEMMA GotoKeepsHost ==
  ASSUME HostInv, NEW to \in ServicePC, pc' = [pc EXCEPT ![Main] = to],
         UNCHANGED <<running, builtOn, stops, reloading, cfg, receiver, ui,
                     monitorVars, netVars, alive, starts, self, restart>>,
         calls' \in Seq(Calls), LastCallDestroys'
  PROVE  HostInv' /\ pc'[Main] = to
  <1>1. PcOK' /\ pc'[Main] = to
    <2>1. Main \in Launchers
      BY DEF Launchers
    <2> QED
      BY <2>1, GotoKeepsPc DEF HostInv, HostTypeOK, CoreTypeOK, PcOK
  <1>2. FlagsOK' /\ DataOK'
    BY DEF HostInv, HostTypeOK, CoreTypeOK, FlagsOK, DataOK, monitorVars, netVars
  <1> QED
    BY <1>1, <1>2 DEF HostInv, HostTypeOK, CoreTypeOK, NothingLeftBehind

LEMMA StartReturnKeepsInv ==
  ASSUME RootInv, StartReturned
  PROVE  RootInv'
  <1>1. CASE Returned("failed") /\ UNCHANGED rootVars
    <2>1. HostInv' /\ pc'[Main] = "idle"
      BY <1>1, ReturnKeepsInv DEF RootInv
    <2> QED
      BY <1>1, <2>1, HostStepKeepsRoot
  <1>2. CASE Returned("started") /\ LaunchSetup
    <2>1. HostInv' /\ pc'[Main] = "idle" /\ UNCHANGED self
      BY <1>2, ReturnKeepsInv DEF RootInv
    <2>2. setup' \in Seq(SetupRecords) /\ Len(setup') = Len(setup) + 1
      <3>1. [at |-> "launched", of |-> self] \in SetupRecords
        BY DEF SetupRecords, SetupPC, RootInv, RootTypeOK, HostTypeOK
      <3> QED
        BY <1>2, <3>1 DEF LaunchSetup, RootInv, RootTypeOK, SetupRecords
    <2>3. setupJob' \in [1..MaxStarts -> 0..Len(setup')]
      <3>1. setupJob \in [1..MaxStarts -> 0..Len(setup)] /\ Len(setup) \in Nat
        BY DEF RootInv, RootTypeOK
      <3>2. setupJob' = [setupJob EXCEPT ![self] = Len(setup) + 1]
        BY <1>2 DEF LaunchSetup
      <3>3. Len(setup') = Len(setup) + 1 /\ Len(setup) + 1 \in 0..Len(setup')
        BY <2>2, <3>1
      <3>4. \A s \in 1..MaxStarts : setupJob'[s] \in {setupJob[s], Len(setup) + 1}
        BY <3>1, <3>2
      <3>5. \A s \in 1..MaxStarts : setupJob[s] \in 0..Len(setup')
        BY <3>1, <3>3
      <3>6. setupJob' \in [1..MaxStarts -> {setupJob'[s] : s \in 1..MaxStarts}]
        BY <3>1, <3>2
      <3> QED
        BY <3>3, <3>4, <3>5, <3>6
    <2>4. JoinedIsDone'
      BY <2>1 DEF JoinedIsDone
    <2>5. rules' \in BOOLEAN
      BY <1>2 DEF LaunchSetup, RootInv, RootTypeOK
    <2> QED
      BY <2>1, <2>2, <2>3, <2>4, <2>5 DEF RootInv, RootTypeOK, HostInv, SetupRecords
  <1> QED
    BY <1>1, <1>2 DEF StartReturned

\* the destructor: cancel, wait, remove the rules, stop the core
LEMMA RootDestroyKeepsInv ==
  ASSUME RootInv, RootOnDestroy \/ DestroyJoin \/ DestroyRules \/ DestroyCore
  PROVE  RootInv'
  <1>0. HostInv /\ RootTypeOK /\ JoinedIsDone
    BY DEF RootInv
  <1>1. CASE RootOnDestroy
    <2>1. HostInv' /\ pc'[Main] = "join"
      <3>1. calls' \in Seq(Calls) /\ LastCallDestroys'
        BY <1>0, <1>1, TakeKeepsCalls DEF RootOnDestroy
      <3> QED
        BY <1>0, <1>1, <3>1, GotoKeepsHost DEF RootOnDestroy, ServicePC
    <2>2. setup' \in Seq(SetupRecords) /\ Len(setup') = Len(setup)
      <3> DEFINE k == setupJob[self]
      <3>1. CASE k \in DOMAIN setup /\ setup[k].at = "launched"
        <4>1. SetupAt(k, "launched", "done")
          BY <1>1, <3>1 DEF RootOnDestroy, SetupAt
        <4> QED
          BY <3>1, <4>1, AtKeepsSetups DEF SetupPC
      <3>2. CASE ~(k \in DOMAIN setup /\ setup[k].at = "launched")
        <4>1. setup' = setup
          BY <1>1, <3>2 DEF RootOnDestroy
        <4> QED
          BY <1>0, <4>1 DEF RootTypeOK, SetupRecords
      <3> QED
        BY <3>1, <3>2
    <2>3. rules' = rules /\ setupJob' = setupJob
      BY <1>1 DEF RootOnDestroy
    <2> QED
      BY <1>0, <2>1, <2>2, <2>3
      DEF RootInv, RootTypeOK, HostInv, JoinedIsDone, SetupRecords
  <1>2. CASE DestroyJoin
    <2>1. HostInv' /\ pc'[Main] = "teardown" /\ UNCHANGED self
      BY <1>0, <1>2, GotoKeepsHost
      DEF DestroyJoin, Goto, ServicePC, hostVars, HostInv, HostTypeOK, LastCallDestroys
    <2> QED
      BY <1>2, <2>1, HostStepKeepsRoot DEF DestroyJoin
  <1>3. CASE DestroyRules
    <2>1. HostInv' /\ pc'[Main] = "stop" /\ UNCHANGED self
      BY <1>0, <1>3, GotoKeepsHost
      DEF DestroyRules, Goto, ServicePC, hostVars, HostInv, HostTypeOK, LastCallDestroys
    <2>2. pc[Main] = "teardown" /\ UNCHANGED <<setup, setupJob>> /\ rules' = FALSE
      BY <1>3 DEF DestroyRules, Goto
    <2> QED
      BY <1>0, <2>1, <2>2 DEF RootInv, RootTypeOK, HostInv, JoinedIsDone
  <1>4. CASE DestroyCore
    <2>1. HostInv' /\ pc'[Main] = "idle"
      <3>1. CoreTypeOK' /\ pc'[Main] = "idle" /\ ~monitor' /\ ~receiver'
        BY <1>0, <1>4, StopCoreKeepsTypes DEF DestroyCore, HostInv, HostTypeOK
      <3> QED
        BY <1>0, <1>4, <3>1 DEF DestroyCore, hostVars, HostInv, HostTypeOK,
            LastCallDestroys, NothingLeftBehind, MainIdle
    <2> QED
      BY <1>4, <2>1, HostStepKeepsRoot DEF DestroyCore
  <1> QED
    BY <1>1, <1>2, <1>3, <1>4

\* every step of the service keeps the invariant
LEMMA RootStepKeepsInv ==
  ASSUME RootInv, RootNext
  PROVE  RootInv'
  <1>1. CASE RootMain
    <2>1. CASE (OnCreate \/ OnStartCommand \/ StartStep) /\ UNCHANGED rootVars
      <3>1. HostInv' /\ pc'[Main] \notin ServicePC
        BY <2>1, StartKeepsInv DEF RootInv
      <3> QED
        BY <2>1, <3>1, HostStepKeepsRoot DEF ServicePC
    <2> QED
      BY <1>1, <2>1, StartReturnKeepsInv, RootDestroyKeepsInv DEF RootMain
  <1>2. ASSUME NEW k \in DOMAIN setup, SetupStep(k)
        PROVE  RootInv'
    BY <1>2, SetupKeepsInv
  <1>3. CASE (Users \/ Restarter \/ Background \/ NetworkStep) /\ UNCHANGED rootVars
    <2>1. HostInv' /\ pc'[Main] = pc[Main] /\ UNCHANGED self
      BY <1>3, UserKeepsInv, BackgroundKeepsInv DEF RootInv
    <2> QED
      BY <1>3, <2>1, HostStepKeepsRoot
  <1> QED
    BY <1>1, <1>2, <1>3 DEF RootNext

LEMMA RootStutters ==
  ASSUME RootInv, UNCHANGED rootServiceVars
  PROVE  RootInv'
  <1>1. HostInv' /\ UNCHANGED <<rootVars, pc, self>>
    BY HostStutters DEF RootInv, rootServiceVars, coreVars, hostVars
  <1> QED
    BY <1>1, HostStepKeepsRoot

\* the invariant is inductive
THEOREM RootInvariance == RootSpec => []RootInv
  <1>1. RootInv /\ [RootNext]_rootServiceVars => RootInv'
    BY RootStepKeepsInv, RootStutters
  <1> QED
    BY <1>1, RootInitInv, PTL DEF RootSpec

\* the root service keeps its types
THEOREM RootTypeCorrect == RootSpec => []RootTypeOK
  <1>1. RootInv => RootTypeOK
    BY DEF RootInv
  <1> QED
    BY <1>1, RootInvariance, PTL

-----------------------------------------------------------------------------
(* Rules and setups, as long as nothing overlaps *)

\* setup coroutines that are not done
Live == {k \in DOMAIN setup : setup[k].at # "done"}

\* Without an overlap a setup belongs to the object that was created last, and
\* that one either is up or waits for it; no rule outlives the wait.
SetupIsOwned ==
  changes = 0 \/ starts <= 1 =>
    /\ \A k \in Live : /\ self # 0 /\ k = setupJob[self] /\ setup[k].of = self
                       /\ (MainIdle /\ ~Gone) \/ pc[Main] = "join"
    /\ rules => (pc[Main] \notin ServicePC /\ ~Gone) \/ pc[Main] \in {"join", "teardown"}

\* As long as the network stays, rules and core go together.
RulesGoWithCore ==
  changes = 0 =>
    /\ Live # {} => running /\ stops = 0
    /\ rules => (MainIdle /\ ~Gone /\ running /\ stops = 0) \/ pc[Main] \in {"join", "teardown"}
    /\ running /\ stops = 0 /\ MainIdle /\ ~Gone /\ self = alive =>
         /\ setupJob[self] # 0
         /\ setup[setupJob[self]].at \in {"script", "done"} => rules

\* the one start comes before any setup
NoSetupYet == starts <= 1 /\ (starts = 0 \/ StartCalls # {} \/ Launching) => setup = <<>>

RootKept == HostKept /\ SetupIsOwned /\ RulesGoWithCore /\ NoSetupYet

\* the setup a coroutine was launched for moves on, the others stay
LEMMA SetupMoves ==
  ASSUME RootTypeOK, NEW k \in DOMAIN setup, SetupStep(k)
  PROVE  /\ DOMAIN setup' = DOMAIN setup /\ k \in Live
         /\ \A i \in DOMAIN setup : setup'[i].of = setup[i].of /\ (i # k => setup'[i] = setup[i])
         /\ UNCHANGED <<coreVars, monitorVars, netVars, starts, self, setupJob>>
         /\ Live' \subseteq Live
         /\ \/ setup'[k].at \in {"build", "failed"} /\ (rules' => rules) /\ UNCHANGED hostVars
            \/ setup'[k].at \in {"script", "rollback"} /\ rules' = TRUE /\ UNCHANGED hostVars
            \/ setup'[k].at = "done" /\ rules' = TRUE /\ UNCHANGED hostVars
            \/ setup'[k].at = "done" /\ StopSelf(setup[k].of) /\ UNCHANGED rules
  <1>1. setup \in Seq(SetupRecords) /\ setup[k] \in SetupRecords
    <2>1. setup \in Seq(SetupRecords)
      BY DEF RootTypeOK, SetupRecords
    <2> QED
      BY <2>1
  <1>2. ASSUME NEW from \in SetupPC \ {"done"}, NEW to \in SetupPC, SetupAt(k, from, to)
        PROVE  /\ DOMAIN setup' = DOMAIN setup /\ k \in Live
               /\ \A i \in DOMAIN setup : setup'[i].of = setup[i].of /\ (i # k => setup'[i] = setup[i])
               /\ setup'[k].at = to /\ setup[k].at = from
               /\ Live' \subseteq Live
    <2>1. setup' = [setup EXCEPT ![k] = [setup[k] EXCEPT !.at = to]] /\ setup[k].at = from
      BY <1>2 DEF SetupAt
    <2>2. /\ DOMAIN setup' = DOMAIN setup
          /\ \A i \in DOMAIN setup : i # k => setup'[i] = setup[i]
          /\ setup'[k] = [setup[k] EXCEPT !.at = to]
      BY <1>1, <2>1
    <2>3. [setup[k] EXCEPT !.at = to].of = setup[k].of /\ [setup[k] EXCEPT !.at = to].at = to
      BY <1>1 DEF SetupRecords
    <2> QED
      BY <2>1, <2>2, <2>3 DEF Live
  <1>3. CASE SetupTeardown(k)
    BY <1>2, <1>3 DEF SetupStep, SetupTeardown, SetupPC, hostVars
  <1>4. CASE SetupBegin(k)
    BY <1>2, <1>4 DEF SetupStep, SetupBegin, SetupPC, hostVars
  <1>5. CASE SetupEnd(k)
    BY <1>2, <1>5 DEF SetupStep, SetupEnd, SetupPC, hostVars
  <1>6. CASE SetupRollback(k)
    BY <1>2, <1>6 DEF SetupStep, SetupRollback, SetupPC, hostVars
  <1>7. CASE SetupFailed(k)
    BY <1>2, <1>7 DEF SetupStep, SetupFailed, SetupPC
  <1> QED
    BY <1>3, <1>4, <1>5, <1>6, <1>7 DEF SetupStep

LEMMA SetupOf ==
  ASSUME RootTypeOK, NEW k \in DOMAIN setup PROVE setup[k].of \in 0..MaxStarts
  <1>1. setup \in Seq(SetupRecords)
    BY DEF RootTypeOK, SetupRecords
  <1>2. setup[k] \in SetupRecords
    BY <1>1
  <1> QED
    BY <1>2 DEF SetupRecords

LEMMA RootStepIsHostStep ==
  ASSUME RootTypeOK, RootNext PROVE HostStep
  <1>1. CASE (OnCreate \/ OnStartCommand \/ StartStep) /\ UNCHANGED rootVars
    BY <1>1 DEF HostStep
  <1>2. CASE StartReturned
    BY <1>2 DEF StartReturned, HostStep
  <1>3. CASE RootOnDestroy
    BY <1>3 DEF RootOnDestroy, HostStep, Takes, Take, MainIdle, Destroys, ServicePC
  <1>4. CASE DestroyJoin \/ DestroyRules \/ DestroyCore
    BY <1>4 DEF DestroyJoin, DestroyRules, DestroyCore, Goto, HostStep, QueueRests, hostVars, Destroys, ServicePC
  <1>5. ASSUME NEW k \in DOMAIN setup, SetupStep(k) PROVE HostStep
    <2>1. setup[k].of \in 0..MaxStarts
      BY SetupOf
    <2> QED
      BY <1>5, <2>1, SetupMoves DEF HostStep, QueueRests, QueueGrows, hostVars
  <1>6. CASE Users \/ Restarter \/ Background \/ NetworkStep
    BY <1>6, UsersAreQueueSteps DEF HostStep, RootTypeOK
  <1> QED
    BY <1>1, <1>2, <1>3, <1>4, <1>5, <1>6 DEF RootNext, RootMain

\* who does not overlap has not overlapped
LEMMA ApartBefore ==
  ASSUME HostTypeOK, QueueStep, ManagerStep
  PROVE  /\ changes' = 0 => changes = 0 /\ ~NetworkChange
         /\ starts' <= 1 => starts <= 1
  <1>1. changes \in Nat /\ starts \in Nat
    BY CoreServiceAssumption DEF HostTypeOK, CoreTypeOK, DataOK
  <1>2. changes' = 0 => changes = 0 /\ ~NetworkChange
    BY <1>1 DEF NetworkChange, ManagerStep, netVars
  <1>3. starts' <= 1 => starts <= 1
    BY <1>1 DEF QueueStep, QueueRests, QueueGrows, Request, Takes
  <1> QED
    BY <1>2, <1>3

-----------------------------------------------------------------------------
(* NoSetupYet *)

LEMMA RootStepKeepsNoSetup ==
  ASSUME PromptStop, RootInv, RootKept, RootNext
  PROVE  NoSetupYet'
  <1> SUFFICES ASSUME starts' <= 1, starts' = 0 \/ StartCalls' # {} \/ Launching' PROVE setup' = <<>>
    BY DEF NoSetupYet
  <1>0. HostStep /\ ManagerStep /\ QueueStep /\ HostTypeOK /\ CoreTypeOK /\ RootTypeOK
    BY RootStepIsHostStep, HostStepsAreManagerSteps DEF RootInv, RootTypeOK, RootKept, HostKept, HostTypeOK
  <1>1. starts <= 1 /\ OneStart
    BY <1>0, ApartBefore DEF RootKept, HostKept
  <1>2. /\ starts' = 0 => starts = 0
        /\ starts # 0 /\ StartCalls' # {} => StartCalls # {}
        /\ Takes("start") => StartCalls # {}
    BY <1>0, <1>1, StartCallIsOne DEF OneStart
  <1>3. starts = 0 \/ StartCalls # {} \/ Launching
    <2> SUFFICES ASSUME Launching', ~Launching PROVE StartCalls # {}
      BY <1>2
    <2>1. CASE OnStartCommand
      BY <1>2, <2>1 DEF OnStartCommand, Takes
    <2>2. UNCHANGED pc => FALSE
      BY DEF Launching
    <2>3. ~StartReturned /\ ~StartStep
      BY <1>0, MainGoesOn DEF StartReturned, Returned, Launching, ServicePC
    <2>4. ~(RootOnDestroy \/ DestroyJoin \/ DestroyRules)
      BY <1>0, MainIsNoJob DEF RootOnDestroy, DestroyJoin, DestroyRules, Goto, Launching, ServicePC, CoreTypeOK, PcOK
    <2>5. ~DestroyCore
      BY StopCoreOnMain DEF DestroyCore, Launching
    <2>6. ~OnCreate
      BY <2>2 DEF OnCreate, coreVars
    <2>7. \A k \in DOMAIN setup : ~SetupStep(k)
      BY <2>2 DEF SetupStep, coreVars
    <2>8. ~(Users \/ Restarter)
      BY <1>0, <2>2, UsersAreQueueSteps DEF coreVars
    <2>9. ~(Background \/ NetworkStep)
      BY <1>0, BackgroundMainOwned DEF Launching, MainOwned
    <2> QED
      BY <2>1, <2>3, <2>4, <2>5, <2>6, <2>7, <2>8, <2>9 DEF RootNext, RootMain
  <1>4. setup = <<>>
    BY <1>1, <1>3 DEF RootKept, NoSetupYet
  <1>5. DOMAIN setup = {}
    BY <1>4
  <1>6. ~(Returned("started") /\ LaunchSetup)
    <2> SUFFICES ASSUME Returned("started") PROVE FALSE
      OBVIOUS
    <2>1. pc[Main] = "started" /\ pc'[Main] = "idle"
      BY <1>0, MainIsNoJob DEF Returned, CoreTypeOK, PcOK
    <2>2. ~Launching'
      BY <2>1 DEF Launching
    <2>3. ~NothingYet
      BY <2>1 DEF NothingYet, ServicePC
    <2>4. starts # 0 /\ StartCalls = {}
      BY <1>1, <2>3 DEF OneStart
    <2> QED
      BY <1>2, <2>2, <2>4
  <1>7. CASE RootOnDestroy
    BY <1>4, <1>5, <1>7 DEF RootOnDestroy
  <1> QED
    BY <1>4, <1>5, <1>6, <1>7 DEF RootNext, RootMain, StartReturned, DestroyJoin, DestroyRules, DestroyCore, rootVars

-----------------------------------------------------------------------------
(* SetupIsOwned and RulesGoWithCore *)

\* when the core of a service comes up no setup is at work
LEMMA NoSetupAtStart ==
  ASSUME RootTypeOK, SetupIsOwned, RulesGoWithCore, NoSetupYet, CallsLinked, LastCallDestroys,
         changes = 0 \/ starts <= 1,
         \/ Launching
         \/ Takes("create") /\ GoneIsSilent
         \/ Takes("start") /\ ~running
  PROVE  Live = {}
  <1>1. CASE Launching
    BY <1>1 DEF SetupIsOwned, Launching, MainIdle, ServicePC
  <1>2. CASE Takes("create")
    <2>1. Gone /\ MainIdle
      BY <1>2, TakesLinks DEF RootTypeOK, Takes, Take
    <2> QED
      BY <2>1 DEF SetupIsOwned, MainIdle
  <1>3. CASE Takes("start") /\ ~running
    <2>1. changes = 0 => Live = {}
      BY <1>3 DEF RulesGoWithCore
    <2>2. StartCalls # {}
      <3>1. calls \in Seq(Calls) /\ calls # <<>> /\ Head(calls).op = "start"
        BY <1>3 DEF Takes, Take, RootTypeOK, HostTypeOK
      <3>2. 1 \in 1..Len(calls) /\ calls[1].op = "start"
        BY <3>1
      <3> QED
        BY <3>2 DEF StartCalls
    <2>3. starts <= 1 => setup = <<>>
      BY <2>2 DEF NoSetupYet
    <2>4. setup = <<>> => Live = {}
      BY DEF Live
    <2> QED
      BY <2>1, <2>3, <2>4
  <1> QED
    BY <1>1, <1>2, <1>3

\* the wait of the destructor ends when the setup has ended, and no other was
\* launched
LEMMA NoSetupAfterJoin ==
  ASSUME RootTypeOK, SetupIsOwned, changes = 0 \/ starts <= 1, DestroyJoin
  PROVE  Live = {} /\ pc'[Main] = "teardown"
  <1>1. pc[Main] = "join" /\ (setupJob[self] # 0 => setup[setupJob[self]].at = "done")
    BY DEF DestroyJoin, Goto
  <1>2. ASSUME NEW k \in Live PROVE FALSE
    <2>1. k = setupJob[self] /\ k \in DOMAIN setup /\ setup[k].at # "done"
      BY DEF SetupIsOwned, Live
    <2>2. k # 0
      BY <2>1 DEF RootTypeOK
    <2> QED
      BY <1>1, <2>1, <2>2
  <1>3. pc'[Main] = "teardown"
    BY MainIsNoJob DEF DestroyJoin, Goto, RootTypeOK, HostTypeOK, CoreTypeOK, PcOK
  <1> QED
    BY <1>2, <1>3

\* the destructor cancels a setup that has not begun
LEMMA CancelKeepsSetups ==
  ASSUME RootTypeOK, RootOnDestroy
  PROVE  /\ DOMAIN setup' = DOMAIN setup /\ Live' \subseteq Live
         /\ \A i \in DOMAIN setup : setup'[i].of = setup[i].of
         /\ pc'[Main] = "join" /\ pc[Main] = "idle" /\ Takes("destroy")
         /\ UNCHANGED <<rules, setupJob, self>>
  <1>0. setup \in Seq(SetupRecords)
    BY DEF RootTypeOK, SetupRecords
  <1> DEFINE k == setupJob[self]
  <1>1. CASE k \in DOMAIN setup /\ setup[k].at = "launched"
    <2>1. setup' = [setup EXCEPT ![k] = [setup[k] EXCEPT !.at = "done"]] /\ setup[k] \in SetupRecords
      BY <1>0, <1>1 DEF RootOnDestroy
    <2>2. /\ DOMAIN setup' = DOMAIN setup /\ setup'[k] = [setup[k] EXCEPT !.at = "done"]
          /\ \A i \in DOMAIN setup : i # k => setup'[i] = setup[i]
      BY <1>0, <1>1, <2>1
    <2>3. [setup[k] EXCEPT !.at = "done"].of = setup[k].of /\ [setup[k] EXCEPT !.at = "done"].at = "done"
      BY <2>1 DEF SetupRecords
    <2>4. Live' \subseteq Live /\ \A i \in DOMAIN setup : setup'[i].of = setup[i].of
      BY <2>2, <2>3 DEF Live
    <2> QED
      BY <2>2, <2>4, MainIsNoJob
      DEF RootOnDestroy, Takes, Take, MainIdle, RootTypeOK, HostTypeOK, CoreTypeOK, PcOK
  <1>2. CASE ~(k \in DOMAIN setup /\ setup[k].at = "launched")
    <2>1. setup' = setup
      BY <1>2 DEF RootOnDestroy
    <2> QED
      BY <2>1, MainIsNoJob
      DEF RootOnDestroy, Takes, Take, MainIdle, Live, RootTypeOK, HostTypeOK, CoreTypeOK, PcOK
  <1> QED
    BY <1>1, <1>2

\* and the start launches one for the object that is there
LEMMA LaunchAddsSetup ==
  ASSUME RootTypeOK, LaunchSetup, self \in 1..MaxStarts, Live = {}
  PROVE  LET n == Len(setup) + 1 IN
         /\ Live' = {n} /\ n # 0
         /\ setup'[n] = [at |-> "launched", of |-> self] /\ setupJob'[self] = n
         /\ UNCHANGED rules
  <1> DEFINE n == Len(setup) + 1
             e == [at |-> "launched", of |-> self]
  <1>1. setup \in Seq(SetupRecords) /\ e \in SetupRecords /\ Len(setup) \in Nat /\ e.at = "launched"
    BY DEF RootTypeOK, SetupRecords, SetupPC
  <1>2. setup' = Append(setup, e)
    BY DEF LaunchSetup
  <1> HIDE DEF e
  <1>3. /\ DOMAIN setup' = 1..n /\ DOMAIN setup = 1..Len(setup) /\ setup'[n] = e
        /\ \A i \in DOMAIN setup : setup'[i] = setup[i]
    BY <1>1, <1>2
  <1>4. Live' = {n}
    <2>1. \A i \in 1..n : i = n \/ i \in DOMAIN setup
      BY <1>1, <1>3
    <2>2. \A i \in DOMAIN setup : setup[i].at = "done"
      BY DEF Live
    <2>3. n \in DOMAIN setup'
      BY <1>1, <1>3
    <2> QED
      BY <1>1, <1>3, <2>1, <2>2, <2>3 DEF Live
  <1>5. setupJob'[self] = n
    BY DEF LaunchSetup, RootTypeOK
  <1> QED
    BY <1>1, <1>3, <1>4, <1>5 DEF LaunchSetup, e

LEMMA RootStepKeepsOwned ==
  ASSUME PromptStop, RootInv, RootKept, RootNext
  PROVE  SetupIsOwned'
  <1> DEFINE Owned(k) == /\ self # 0 /\ k = setupJob[self] /\ setup[k].of = self
                         /\ (MainIdle /\ ~Gone) \/ pc[Main] = "join"
             RulesOwned == (pc[Main] \notin ServicePC /\ ~Gone) \/ pc[Main] \in {"join", "teardown"}
  <1> SUFFICES ASSUME changes' = 0 \/ starts' <= 1
               PROVE  (\A k \in Live' : Owned(k)') /\ (rules' => RulesOwned')
    BY DEF SetupIsOwned
  <1>0. /\ HostStep /\ ManagerStep /\ QueueStep /\ HostTypeOK /\ CoreTypeOK /\ RootTypeOK
        /\ CallsLinked /\ GoneIsSilent /\ LastCallDestroys
        /\ SetupIsOwned /\ RulesGoWithCore /\ NoSetupYet
    BY RootStepIsHostStep, HostStepsAreManagerSteps
    DEF RootInv, RootTypeOK, RootKept, HostKept, HostTypeOK, HostInv
  <1>1. changes = 0 \/ starts <= 1
    BY <1>0, ApartBefore
  <1>2. (\A k \in Live : Owned(k)) /\ (rules => RulesOwned)
    BY <1>0, <1>1 DEF SetupIsOwned
  <1>3. GoneIsSilent'
    BY <1>0, HostStepKeepsGone
  <1> USE DEF MainIdle, ServicePC
  <1>4. CASE OnCreate /\ UNCHANGED rootVars
    <2>1. Takes("create") /\ UNCHANGED coreVars
      BY <1>4 DEF OnCreate, Takes
    <2>2. Gone /\ pc[Main] = "idle"
      BY <1>0, <2>1, TakesLinks DEF Takes, Take
    <2>3. Live = {} /\ ~rules
      BY <1>2, <2>2
    <2> QED
      BY <1>4, <2>3 DEF rootVars, Live
  <1>5. CASE OnStartCommand /\ UNCHANGED rootVars
    <2>1. Takes("start")
      BY <1>5 DEF OnStartCommand, Takes
    <2>2. ~Gone /\ ~Gone' /\ pc[Main] = "idle" /\ UNCHANGED self
      BY <1>0, <2>1, TakesLinks DEF Takes, Take
    <2>3. CASE running
      <3>1. UNCHANGED pc
        BY <1>5, <2>3 DEF OnStartCommand, coreVars
      <3> QED
        BY <1>2, <1>5, <2>2, <3>1 DEF rootVars, Live
    <2>4. CASE ~running
      <3>1. Live = {}
        BY <1>0, <1>1, <2>1, <2>4, NoSetupAtStart
      <3>2. pc'[Main] = "build"
        BY <1>0, <1>5, <2>4, MainIsNoJob DEF OnStartCommand, StartCoreLoop, Goto, CoreTypeOK, PcOK
      <3> QED
        BY <1>5, <2>2, <3>1, <3>2 DEF rootVars, Live
    <2> QED
      BY <2>3, <2>4
  <1>6. CASE StartStep /\ UNCHANGED rootVars
    <2>1. Launching /\ pc'[Main] \notin ServicePC /\ UNCHANGED hostVars
      BY <1>0, <1>6, MainGoesOn
    <2>2. Live = {}
      BY <1>0, <1>1, <2>1, NoSetupAtStart
    <2>3. ~Gone' 
      BY <1>0, <2>1 DEF GoneIsSilent, hostVars, Gone
    <2> QED
      BY <1>6, <2>1, <2>2, <2>3 DEF rootVars, Live
  <1>7. CASE StartReturned
    <2>1. pc[Main] \in {"started", "failed"} /\ pc'[Main] = "idle" /\ UNCHANGED self
      BY <1>0, <1>7, MainIsNoJob DEF StartReturned, Returned, CoreTypeOK, PcOK
    <2>2. Launching /\ ~Gone
      BY <1>0, <2>1 DEF Launching, GoneIsSilent
    <2>3. Live = {} /\ self \in 1..MaxStarts
      BY <1>0, <1>1, <2>2, NoSetupAtStart, NotGoneIsThere
    <2>4. ~Gone'
      <3>1. QueueRests \/ QueueGrows
        BY <1>7, <2>3 DEF StartReturned, Returned, QueueRests, QueueGrows
      <3> QED
        BY <1>0, <2>2, <3>1, GrowsLinks DEF QueueRests, Gone
    <2>5. self # 0
      BY <2>3, ServiceHostAssumption
    <2>6. CASE LaunchSetup
      <3>1. /\ Live' = {Len(setup) + 1} /\ setup'[Len(setup) + 1] = [at |-> "launched", of |-> self]
            /\ setupJob'[self] = Len(setup) + 1 /\ UNCHANGED rules
        BY <1>0, <2>3, <2>6, LaunchAddsSetup
      <3> QED
        BY <2>1, <2>4, <2>5, <3>1
    <2>7. CASE UNCHANGED rootVars
      BY <2>1, <2>3, <2>4, <2>7 DEF rootVars, Live
    <2> QED
      BY <1>7, <2>6, <2>7 DEF StartReturned
  <1>8. CASE RootOnDestroy
    <2>1. /\ DOMAIN setup' = DOMAIN setup /\ Live' \subseteq Live
          /\ \A i \in DOMAIN setup : setup'[i].of = setup[i].of
          /\ pc'[Main] = "join" /\ UNCHANGED <<rules, setupJob, self>>
      BY <1>0, <1>8, CancelKeepsSetups
    <2>2. \A k \in Live : k \in DOMAIN setup
      BY DEF Live
    <2> QED
      BY <1>2, <2>1, <2>2
  <1>9. CASE DestroyJoin
    <2>1. Live = {} /\ pc'[Main] = "teardown"
      BY <1>0, <1>1, <1>9, NoSetupAfterJoin
    <2> QED
      BY <1>9, <2>1 DEF DestroyJoin, rootVars, Live
  <1>10. CASE DestroyRules
    <2>1. Live = {}
      BY <1>2, <1>10 DEF DestroyRules, Goto
    <2> QED
      BY <1>10, <2>1 DEF DestroyRules, Live
  <1>11. CASE DestroyCore
    <2>1. Live = {} /\ ~rules
      BY <1>2, <1>11 DEF DestroyCore
    <2> QED
      BY <1>11, <2>1 DEF DestroyCore, rootVars, Live
  <1>12. ASSUME NEW k \in DOMAIN setup, SetupStep(k)
         PROVE  (\A i \in Live' : Owned(i)') /\ (rules' => RulesOwned')
    <2>1. /\ Live' \subseteq Live /\ k \in Live /\ DOMAIN setup' = DOMAIN setup
          /\ \A i \in DOMAIN setup : setup'[i].of = setup[i].of
          /\ UNCHANGED <<coreVars, self, setupJob>>
      BY <1>0, <1>12, SetupMoves
    <2>2. Gone' = Gone
      <3>1. setup[k].of \in 0..MaxStarts
        BY <1>0, SetupOf
      <3>2. QueueRests \/ QueueGrows
        BY <1>0, <1>12, <3>1, SetupMoves DEF QueueRests, QueueGrows, hostVars
      <3> QED
        BY <1>0, <3>2, GrowsLinks DEF QueueRests, Gone
    <2>3. \A i \in Live' : i \in Live /\ i \in DOMAIN setup
      BY <2>1 DEF Live
    <2>4. Owned(k)
      BY <1>2, <2>1
    <2> QED
      BY <1>2, <2>1, <2>2, <2>3, <2>4 DEF coreVars
  <1>13. CASE (Users \/ Restarter \/ Background \/ NetworkStep) /\ UNCHANGED rootVars
    <2>1. Gone' = Gone /\ UNCHANGED self
      <3>1. CASE Users \/ Restarter
        BY <1>0, <3>1, UsersAreQueueSteps, GrowsLinks DEF QueueRests, QueueGrows, Gone
      <3>2. CASE Background \/ NetworkStep
        BY <3>2 DEF Background, NetworkStep, StopStep, MonitorStep, JobStep, hostVars, Gone
      <3> QED
        BY <1>13, <3>1, <3>2
    <2>2. pc'[Main] = pc[Main]
      BY <1>0, <1>13, UsersAreQueueSteps, BackgroundMainOwned DEF coreVars, MainOwned
    <2> QED
      BY <1>2, <1>13, <2>1, <2>2 DEF rootVars, Live
  <1> QED
    BY <1>4, <1>5, <1>6, <1>7, <1>8, <1>9, <1>10, <1>11, <1>12, <1>13 DEF RootNext, RootMain

\* a queue that only grows, or rests, does not bring back an object
LEMMA AliveAgain ==
  ASSUME HostTypeOK, CallsLinked, LastCallDestroys, QueueRests \/ QueueGrows, ~Gone, self' = alive'
  PROVE  self = alive /\ alive' = alive /\ self # 0
  <1>1. self \in 1..MaxStarts /\ starts \in Nat /\ self <= starts
    BY NotGoneIsThere DEF HostTypeOK, CallsLinked
  <1> QED
    BY <1>1 DEF QueueRests, QueueGrows, Request, StopSelf, HostTypeOK

LEMMA RootStepKeepsRulesWithCore ==
  ASSUME PromptStop, RootInv, RootKept, RootNext
  PROVE  RulesGoWithCore'
  <1> DEFINE Up == running /\ stops = 0
             Served1 == MainIdle /\ ~Gone /\ Up
             Routed == /\ setupJob[self] # 0
                       /\ setup[setupJob[self]].at \in {"script", "done"} => rules
  <1> SUFFICES ASSUME changes' = 0
               PROVE  /\ Live' # {} => Up'
                      /\ rules' => Served1' \/ pc'[Main] \in {"join", "teardown"}
                      /\ Served1' /\ self' = alive' => Routed'
    BY DEF RulesGoWithCore
  <1>0. /\ HostStep /\ ManagerStep /\ QueueStep /\ HostTypeOK /\ CoreTypeOK /\ RootTypeOK
        /\ CallsLinked /\ GoneIsSilent /\ LastCallDestroys
        /\ SetupIsOwned /\ RulesGoWithCore /\ NoSetupYet /\ CalmCore
    BY RootStepIsHostStep, HostStepsAreManagerSteps
    DEF RootInv, RootTypeOK, RootKept, HostKept, HostTypeOK, HostInv
  <1>1. changes = 0 /\ ~NetworkChange
    BY <1>0, ApartBefore
  <1>2. /\ Live # {} => Up
        /\ rules => Served1 \/ pc[Main] \in {"join", "teardown"}
        /\ Served1 /\ self = alive => Routed
        /\ CalmManager /\ stops \in Nat
    BY <1>0, <1>1 DEF RulesGoWithCore, CalmCore, CoreTypeOK, DataOK
  <1>3. \A k \in Live : /\ self # 0 /\ k = setupJob[self] /\ setup[k].of = self
                        /\ (MainIdle /\ ~Gone) \/ pc[Main] = "join"
    BY <1>0, <1>1 DEF SetupIsOwned
  <1> USE DEF MainIdle, ServicePC
  <1>4. CASE OnCreate /\ UNCHANGED rootVars
    <2>1. Takes("create") /\ UNCHANGED coreVars
      BY <1>4 DEF OnCreate, Takes
    <2>2. Gone /\ pc[Main] = "idle"
      BY <1>0, <2>1, TakesLinks DEF Takes, Take
    <2>3. Live = {} /\ ~rules
      BY <1>2, <1>3, <2>2
    <2>4. ~Up
      BY <1>0, <1>2, <2>2 DEF GoneIsSilent, CalmManager, StartOwnsCore
    <2> QED
      BY <1>4, <2>1, <2>3, <2>4 DEF rootVars, coreVars, Live
  <1>5. CASE OnStartCommand /\ UNCHANGED rootVars
    <2>1. Takes("start") /\ UNCHANGED alive
      BY <1>5 DEF OnStartCommand, Takes
    <2>2. ~Gone /\ ~Gone' /\ pc[Main] = "idle" /\ UNCHANGED self
      BY <1>0, <2>1, TakesLinks DEF Takes, Take
    <2>3. CASE running
      <3>1. UNCHANGED coreVars
        BY <1>5, <2>3 DEF OnStartCommand
      <3> QED
        BY <1>2, <1>5, <2>1, <2>2, <3>1 DEF rootVars, coreVars, Live
    <2>4. CASE ~running
      <3>1. Live = {} /\ ~rules
        BY <1>2, <2>2, <2>4
      <3>2. pc'[Main] = "build"
        BY <1>0, <1>5, <2>4, MainIsNoJob DEF OnStartCommand, StartCoreLoop, Goto, CoreTypeOK, PcOK
      <3> QED
        BY <1>5, <3>1, <3>2 DEF rootVars, Live
    <2> QED
      BY <2>3, <2>4
  <1>6. CASE StartStep /\ UNCHANGED rootVars
    <2>1. Launching /\ pc'[Main] # "idle"
      BY <1>0, <1>6, MainGoesOn
    <2>2. Live = {} /\ ~rules
      BY <1>2, <1>3, <2>1 DEF Launching
    <2> QED
      BY <1>6, <2>1, <2>2 DEF rootVars, Live
  <1>7. CASE StartReturned
    <2>1. /\ pc[Main] \in {"started", "failed"} /\ pc'[Main] = "idle"
          /\ UNCHANGED <<self, running, stops, receiver>>
      BY <1>0, <1>7, MainIsNoJob DEF StartReturned, Returned, CoreTypeOK, PcOK
    <2>2. Launching /\ ~Gone
      BY <1>0, <2>1 DEF Launching, GoneIsSilent
    <2>3. Live = {} /\ self \in 1..MaxStarts /\ ~rules
      BY <1>0, <1>1, <1>2, <2>1, <2>2, NoSetupAtStart, NotGoneIsThere
    <2>4. CASE Returned("started") /\ LaunchSetup
      <3>1. /\ Live' = {Len(setup) + 1} /\ setup'[Len(setup) + 1] = [at |-> "launched", of |-> self]
            /\ setupJob'[self] = Len(setup) + 1 /\ UNCHANGED rules /\ Len(setup) + 1 # 0
        BY <1>0, <2>3, <2>4, LaunchAddsSetup
      <3>2. pc[Main] = "started"
        BY <2>4 DEF Returned
      <3>3. Up
        BY <1>2, <2>2, <3>2 DEF CalmManager, StartOwnsCore
      <3>4. [at |-> "launched", of |-> self].at \notin {"script", "done"}
        OBVIOUS
      <3>5. Routed'
        BY <2>1, <3>1, <3>4
      <3> QED
        BY <2>1, <2>3, <3>1, <3>3, <3>5
    <2>5. CASE Returned("failed") /\ UNCHANGED rootVars
      <3>1. pc[Main] = "failed"
        BY <2>5 DEF Returned
      <3>2. ~running
        BY <1>2, <3>1 DEF CalmManager, StartOwnsCore
      <3> QED
        BY <2>1, <2>3, <2>5, <3>2 DEF rootVars, Live
    <2> QED
      BY <1>7, <2>4, <2>5 DEF StartReturned
  <1>8. CASE RootOnDestroy
    <2>1. Live' \subseteq Live /\ pc'[Main] = "join"
      BY <1>0, <1>8, CancelKeepsSetups
    <2>2. UNCHANGED <<running, stops>>
      BY <1>8 DEF RootOnDestroy
    <2> QED
      BY <1>2, <2>1, <2>2
  <1>9. CASE DestroyJoin
    <2>1. Live = {} /\ pc'[Main] = "teardown"
      BY <1>0, <1>1, <1>9, NoSetupAfterJoin
    <2> QED
      BY <1>9, <2>1 DEF DestroyJoin, rootVars, Live
  <1>10. CASE DestroyRules
    <2>1. Live = {}
      BY <1>3, <1>10 DEF DestroyRules, Goto
    <2>2. pc'[Main] = "stop"
      BY <1>0, <1>10, MainIsNoJob DEF DestroyRules, Goto, CoreTypeOK, PcOK
    <2> QED
      BY <1>10, <2>1, <2>2 DEF DestroyRules, Live
  <1>11. CASE DestroyCore
    <2>1. Live = {} /\ ~rules
      BY <1>2, <1>3, <1>11 DEF DestroyCore
    <2>2. ~Up'
      BY <1>2, <1>11 DEF DestroyCore, StopCoreLoop, StopCoreLoopOn
    <2> QED
      BY <1>11, <2>1, <2>2 DEF DestroyCore, rootVars, Live
  <1>12. ASSUME NEW k \in DOMAIN setup, SetupStep(k)
         PROVE  /\ Live' # {} => Up'
                /\ rules' => Served1' \/ pc'[Main] \in {"join", "teardown"}
                /\ Served1' /\ self' = alive' => Routed'
    <2>1. /\ Live' \subseteq Live /\ k \in Live /\ DOMAIN setup' = DOMAIN setup
          /\ \A i \in DOMAIN setup : setup'[i].of = setup[i].of /\ (i # k => setup'[i] = setup[i])
          /\ UNCHANGED <<coreVars, self, setupJob>>
      BY <1>0, <1>12, SetupMoves
    <2>2. QueueRests \/ QueueGrows
      BY <1>0, <1>12, SetupOf, SetupMoves DEF QueueRests, QueueGrows, hostVars
    <2>3. Gone' = Gone
      BY <1>0, <2>2, GrowsLinks DEF QueueRests, Gone
    <2>4. Up /\ Up' /\ UNCHANGED pc
      BY <1>2, <2>1 DEF coreVars
    <2>5. /\ self # 0 /\ k = setupJob[self] /\ setup[k].of = self
          /\ (MainIdle /\ ~Gone) \/ pc[Main] = "join"
      BY <1>3, <2>1
    <2>6. Served1' /\ self' = alive' => Routed'
      <3> SUFFICES ASSUME Served1', self' = alive' PROVE setup'[k].at \in {"script", "done"} => rules'
        BY <1>0, <2>1, <2>5 DEF RootTypeOK
      <3>1. self = alive /\ alive' = alive /\ self # 0
        BY <1>0, <2>2, <2>3, AliveAgain
      <3>2. ~StopSelf(setup[k].of)
        BY <2>5, <3>1 DEF StopSelf
      <3> QED
        BY <1>0, <1>12, <3>2, SetupMoves
    <2> QED
      BY <2>3, <2>4, <2>5, <2>6
  <1>13. CASE (Users \/ Restarter) /\ UNCHANGED rootVars
    <2>1. (QueueRests \/ QueueGrows) /\ UNCHANGED coreVars
      BY <1>0, <1>13, UsersAreQueueSteps
    <2>2. Gone' = Gone /\ UNCHANGED self
      BY <1>0, <2>1, GrowsLinks DEF QueueRests, QueueGrows, Gone
    <2>3. ~Gone /\ self' = alive' => self = alive
      BY <1>0, <2>1, AliveAgain
    <2> QED
      BY <1>2, <1>13, <2>1, <2>2, <2>3 DEF rootVars, coreVars, Live
  <1>14. CASE (Background \/ NetworkStep) /\ UNCHANGED rootVars
    <2>1. Gone' = Gone /\ UNCHANGED <<self, alive>>
      BY <1>14 DEF Background, NetworkStep, StopStep, MonitorStep, JobStep, hostVars, Gone
    <2>2. pc'[Main] = pc[Main]
      BY <1>0, <1>14, BackgroundMainOwned DEF MainOwned
    <2>3. StopLoop \/ UNCHANGED <<running, stops, receiver>>
      BY <1>0, <1>1, <1>2, <1>14, CalmBackground DEF NetworkStep
    <2>4. IF StopLoop THEN ~Up /\ ~Up' ELSE UNCHANGED <<running, stops>>
      BY <1>2, <2>3 DEF StopLoop
    <2> QED
      BY <1>2, <1>14, <2>1, <2>2, <2>4 DEF rootVars, Live
  <1> QED
    BY <1>4, <1>5, <1>6, <1>7, <1>8, <1>9, <1>10, <1>11, <1>12, <1>13, <1>14 DEF RootNext, RootMain

-----------------------------------------------------------------------------
(* All of it *)

LEMMA RootInitKept == RootInit => RootKept
  <1> SUFFICES ASSUME RootInit PROVE RootKept
    OBVIOUS
  <1>1. setup = <<>> /\ rules = FALSE /\ HostInit
    BY DEF RootInit
  <1>2. Live = {}
    BY <1>1 DEF Live
  <1>3. ~running /\ HostKept
    BY <1>1, HostInitKept DEF HostInit, CoreInit
  <1> QED
    BY <1>1, <1>2, <1>3 DEF RootKept, SetupIsOwned, RulesGoWithCore, NoSetupYet

LEMMA RootStepKeeps ==
  ASSUME PromptStop, RootInv, RootKept, RootNext
  PROVE  RootKept'
  <1>1. HostKept'
    <2>1. HostStep /\ CoreTypeOK'
      BY RootStepIsHostStep, RootStepKeepsInv DEF RootInv, RootTypeOK, HostTypeOK
    <2> QED
      BY <2>1, HostStepKeeps DEF RootInv, RootKept
  <1> QED
    BY <1>1, RootStepKeepsNoSetup, RootStepKeepsOwned, RootStepKeepsRulesWithCore DEF RootKept

LEMMA RootKeptStutters ==
  ASSUME RootKept, UNCHANGED rootServiceVars
  PROVE  RootKept'
  <1>1. HostKept' /\ UNCHANGED <<coreVars, hostVars, netVars, rootVars>>
    BY HostKeptStutters DEF RootKept, rootServiceVars
  <1>2. UNCHANGED <<Gone, Launching, StartCalls, Live, MainIdle>>
    BY <1>1 DEF coreVars, hostVars, rootVars, Gone, Launching, StartCalls, Live, MainIdle
  <1> QED
    BY <1>1, <1>2 DEF RootKept, SetupIsOwned, RulesGoWithCore, NoSetupYet, coreVars, hostVars, netVars, rootVars
=============================================================================
