--------------------------- MODULE ProxyService ---------------------------
(***************************************************************************)
(* CoreProxyOnlyService, the proxy only run mode: ServiceHost with a       *)
(* destructor that only stops the core.                                    *)
(***************************************************************************)
EXTENDS ServiceHost

proxyServiceVars == <<coreVars, monitorVars, netVars, hostVars>>

ProxyInit == HostInit

\* mutant: the destructor leaves the core to whoever comes next
ProxyOnDestroyForgets ==
  /\ Take("destroy")
  /\ UNCHANGED <<coreVars, monitorVars, alive, starts, self, restart, netVars>>

ProxyOnDestroy ==
  /\ Take("destroy")
  /\ StopCoreLoop
  /\ UNCHANGED <<alive, starts, self, restart, netVars>>

ProxyMain ==
  \/ OnCreate \/ OnStartCommand \/ StartStep
  \/ Returned("started") \/ Returned("failed") \/ ProxyOnDestroy

ProxyNext == Users \/ Restarter \/ ProxyMain \/ Background \/ NetworkStep

\* Threads that have something to do get to do it; users and the network owe
\* nothing.
ProxyFairness ==
  /\ WF_proxyServiceVars(ProxyMain)
  /\ WF_proxyServiceVars(Restarter)
  /\ WF_proxyServiceVars(StopStep)
  /\ WF_proxyServiceVars(MonitorStep)
  /\ \A j \in Jobs : WF_proxyServiceVars(JobStep(j))

ProxySpec == ProxyInit /\ [][ProxyNext]_proxyServiceVars /\ ProxyFairness

-----------------------------------------------------------------------------
(* Properties *)

\* Once everything is done and no service is left, no core is left either:
\* CoreServiceManager.kt:188-190 of stopCoreLoop, "Stops the V2Ray core
\* service. ... @return True if the core was stopped successfully".
NoOrphanCore == Quiet /\ alive = 0 => ~running

\* A running core can be reached: its service is the one serviceControl
\* points to and has the receiver registered that stop and restart requests
\* come through (CoreServiceManager.kt:116-126, 217-221).
CoreIsReachable == Quiet /\ running => receiver /\ alive = self /\ alive # 0

\* A service that is up and was never told of a failure has its core, and
\* the UI knows (CoreProxyOnlyService.kt:32-48).
ServiceHasCore ==
  Quiet /\ alive # 0 /\ ui # "START_FAILURE" => running /\ ui = "START_SUCCESS"

\* LauncherManager.kt:59 of restartService, "Restarts the active daemon": once
\* a restart is over the core runs again, unless a failure was reported.
RestartRestores ==
  Quiet /\ restart.at = "done" /\ alive # 0 /\ ui # "START_FAILURE" => running

\* A handover that was announced and not refused leaves the core on a
\* configuration resolved on the new network (CoreServiceManager.kt:250-253).
HandoverServed ==
  CoreQuiet /\ running /\ monitor /\ announced = upstream /\ ~dropped
  => builtOn = upstream
=============================================================================
