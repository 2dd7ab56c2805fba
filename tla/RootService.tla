---------------------------- MODULE RootService ----------------------------
(***************************************************************************)
(* CoreRootService, the root run mode: the core is started first, then a   *)
(* coroutine installs the routing rules that send the device's traffic to  *)
(* the core's listener (RootProxyManager, RootShell); the destructor waits *)
(* for that coroutine, removes the rules and only then stops the core.     *)
(*                                                                         *)
(* The scripts are external: `rules` says whether any of the rules they    *)
(* install is in place.  A teardown script is assumed to do its work; a    *)
(* setup script may fail half way.                                         *)
(***************************************************************************)
EXTENDS ServiceHost

VARIABLES
  rules,       \* some routing rule is installed
  setup,       \* the setup coroutines launched so far: where, and whose
  setupJob     \* CoreRootService.setupJob of every service object, 0 for null

rootVars == <<rules, setup, setupJob>>
rootServiceVars == <<coreVars, monitorVars, netVars, hostVars, rootVars>>

SetupPC == {"launched", "build", "script", "rollback", "failed", "done"}

RootTypeOK ==
  /\ HostTypeOK
  /\ rules \in BOOLEAN
  /\ setup \in Seq([at : SetupPC, of : 0..MaxStarts])
  /\ setupJob \in [1..MaxStarts -> 0..Len(setup)]

RootInit ==
  /\ HostInit
  /\ rules = FALSE
  /\ setup = <<>>
  /\ setupJob = [s \in 1..MaxStarts |-> 0]

SetupAt(k, from, to) == setup[k].at = from /\ setup' = [setup EXCEPT ![k].at = to]

-----------------------------------------------------------------------------
(* The setup coroutine: RootProxyManager.start off the main thread *)

\* stale rules go before new ones come
SetupTeardown(k) ==
  /\ SetupAt(k, "launched", "build")
  /\ rules' = FALSE
  /\ UNCHANGED <<hostVars, setupJob>>

\* the script cannot be built, or it starts to install rules
SetupBegin(k) ==
  /\ \/ SetupAt(k, "build", "failed") /\ UNCHANGED rules
     \/ SetupAt(k, "build", "script") /\ rules' = TRUE
  /\ UNCHANGED <<hostVars, setupJob>>

\* the script ran to its end, or it failed on the way (or timed out)
SetupEnd(k) ==
  /\ SetupAt(k, "script", "done") \/ SetupAt(k, "script", "rollback")
  /\ rules' = TRUE
  /\ UNCHANGED <<hostVars, setupJob>>

SetupRollback(k) ==
  /\ SetupAt(k, "rollback", "failed")
  /\ rules' = FALSE
  /\ UNCHANGED <<hostVars, setupJob>>

\* mutant: a failed setup leaves the service up
SetupFailedIgnored(k) ==
  /\ SetupAt(k, "failed", "done")
  /\ UNCHANGED <<hostVars, rules, setupJob>>

\* start returned false: the coroutine stops its service
SetupFailed(k) ==
  /\ SetupAt(k, "failed", "done")
  /\ StopSelf(setup[k].of)
  /\ UNCHANGED <<starts, self, restart, rules, setupJob>>

SetupStep(k) ==
  /\ \/ SetupTeardown(k) \/ SetupBegin(k) \/ SetupEnd(k)
     \/ SetupRollback(k) \/ SetupFailed(k)
  /\ UNCHANGED <<coreVars, monitorVars, netVars>>

-----------------------------------------------------------------------------
(* CoreRootService on the main thread *)

\* the core is up: the setup is launched, whatever setupJob held before
LaunchSetup ==
  /\ setup' = Append(setup, [at |-> "launched", of |-> self])
  /\ setupJob' = [setupJob EXCEPT ![self] = Len(setup) + 1]
  /\ UNCHANGED rules

StartReturned ==
  \/ Returned("started") /\ LaunchSetup
  \/ Returned("failed") /\ UNCHANGED rootVars

\* mutant: the destructor does not wait for the setup
RootOnDestroyNoJoin ==
  /\ Take("destroy")
  /\ pc' = [pc EXCEPT ![Main] = "teardown"]
  /\ UNCHANGED <<running, builtOn, stops, reloading, cfg, receiver, ui,
                 monitorVars, netVars, alive, starts, self, restart, rootVars>>

\* onDestroy of the object serviceControl points to, which is the last one
\* created: cancel the setup, which has an effect only before its first
\* statement
RootOnDestroy ==
  /\ Take("destroy")
  /\ pc' = [pc EXCEPT ![Main] = "join"]
  /\ LET k == setupJob[self] IN
     setup' = IF k \in DOMAIN setup /\ setup[k].at = "launched"
              THEN [setup EXCEPT ![k].at = "done"] ELSE setup
  /\ UNCHANGED <<running, builtOn, stops, reloading, cfg, receiver, ui,
                 monitorVars, netVars, alive, starts, self, restart,
                 rules, setupJob>>

\* and wait for it
DestroyJoin ==
  /\ Goto(Main, "join", "teardown")
  /\ setupJob[self] # 0 => setup[setupJob[self]].at = "done"
  /\ UNCHANGED <<running, builtOn, stops, reloading, cfg, receiver, ui,
                 monitorVars, netVars, hostVars, rootVars>>

\* mutant: the core is stopped with the rules still in place
DestroyRulesLast ==
  /\ Goto(Main, "teardown", "stop")
  /\ UNCHANGED <<running, builtOn, stops, reloading, cfg, receiver, ui,
                 monitorVars, netVars, hostVars, rootVars>>

\* RootProxyManager.stop
DestroyRules ==
  /\ Goto(Main, "teardown", "stop")
  /\ rules' = FALSE
  /\ UNCHANGED <<running, builtOn, stops, reloading, cfg, receiver, ui,
                 monitorVars, netVars, hostVars, setup, setupJob>>

DestroyCore ==
  /\ pc[Main] = "stop"
  /\ StopCoreLoop
  /\ UNCHANGED <<netVars, hostVars, rootVars>>

RootMain ==
  \/ (OnCreate \/ OnStartCommand \/ StartStep) /\ UNCHANGED rootVars
  \/ StartReturned
  \/ RootOnDestroy \/ DestroyJoin \/ DestroyRules \/ DestroyCore

-----------------------------------------------------------------------------

RootNext ==
  \/ RootMain
  \/ \E k \in DOMAIN setup : SetupStep(k)
  \/ (Users \/ Restarter \/ Background \/ NetworkStep) /\ UNCHANGED rootVars

RootFairness ==
  /\ WF_rootServiceVars(RootMain)
  /\ WF_rootServiceVars(Restarter /\ UNCHANGED rootVars)
  /\ WF_rootServiceVars(Background /\ UNCHANGED rootVars)
  /\ WF_rootServiceVars(\E k \in DOMAIN setup : SetupStep(k))

RootSpec == RootInit /\ [][RootNext]_rootServiceVars /\ RootFairness

-----------------------------------------------------------------------------
(* Properties *)

RootQuiet == Quiet /\ \A k \in DOMAIN setup : setup[k].at = "done"

\* No rule outlives the service: CoreRootService.kt:70-74, "if a stop arrives
\* during that window, teardown would run first and the setup would then
\* re-install the rules ... blackholing all traffic".
NoRulesWithoutService == RootQuiet /\ alive = 0 => ~rules

\* A core that runs for a service has its rules: without them the device
\* would believe it is proxied and send everything in the clear
\* (CoreRootService.kt:58-63, RootProxyManager.kt:51-61).
RunningMeansRouted == RootQuiet /\ alive # 0 /\ running => rules

\* CoreRootService.kt:76-77, "so traffic is never redirected to a dead
\* listener": while rules stay, a core listens.
RulesHaveCore == RootQuiet /\ rules => running

\* The inductive invariant: HostInv, and whenever the destructor is past its
\* wait the setup it waited for has ended (CoreRootService.kt:75).
JoinedIsDone ==
  pc[Main] \in {"teardown", "stop"} /\ self # 0 /\ setupJob[self] # 0
  => setup[setupJob[self]].at = "done"

RootInv == RootTypeOK /\ HostInv /\ JoinedIsDone
=============================================================================
