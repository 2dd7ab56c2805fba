------------------------------ MODULE RunModes ------------------------------
(***************************************************************************)
(* The daemon process in any of its run modes: the mode is a setting that  *)
(* LauncherManager reads when it starts a service, and the three services  *)
(* share CoreServiceManager and what Android does.                         *)
(***************************************************************************)
EXTENDS ProxyService, RootService, VpnService

CONSTANT Overlap   \* several start requests and network changes in one behaviour

ASSUME OverlapAssumption == Overlap \in BOOLEAN

VARIABLE mode

vars == <<mode, coreVars, monitorVars, netVars, hostVars, rootVars, vpnVars>>

\* networks are interchangeable: any will do as the first
Init ==
  /\ mode \in {"proxy", "root", "vpn"}
  /\ RootInit /\ VpnVarsInit
  /\ net = CHOOSE n \in Networks : TRUE

ModeIs(m) == mode = m /\ UNCHANGED mode
ProxyStep(A) == ModeIs("proxy") /\ A /\ UNCHANGED <<rootVars, vpnVars>>
RootStep(A) == ModeIs("root") /\ A /\ UNCHANGED vpnVars
VpnStep(A) == ModeIs("vpn") /\ A /\ UNCHANGED rootVars

Step == ProxyStep(ProxyNext) \/ RootStep(RootNext) \/ VpnStep(VpnNext)

\* bound on what meets in one behaviour
Apart == Overlap \/ changes' = 0 \/ (starts' <= 1 /\ (mode = "vpn" => changes' <= 1))

Next == Step /\ Apart

Spec ==
  /\ Init /\ [][Next]_vars
  /\ WF_vars(ProxyStep(ProxyMain)) /\ WF_vars(ProxyStep(Background))
  /\ WF_vars(RootStep(RootMain)) /\ WF_vars(RootStep(Background /\ UNCHANGED rootVars))
  /\ WF_vars(RootStep(\E k \in DOMAIN setup : SetupStep(k)))
  /\ WF_vars(VpnStep(VpnMain)) /\ WF_vars(VpnStep(Background /\ UNCHANGED vpnVars))
  /\ WF_vars(VpnStep(Others))

-----------------------------------------------------------------------------
(* Properties, besides those of the services *)

AllQuiet == RootQuiet /\ VpnQuiet
Calm == changes = 0

\* Once everything is done and no service is left, no core is left either:
\* CoreServiceManager.kt:188-190 of stopCoreLoop, "Stops the V2Ray core
\* service. ... @return True if the core was stopped successfully", unless a
\* stop met a reload.
CalmNoOrphanCore == AllQuiet /\ Calm => NoOrphanCore

\* A running core can be reached: its service is the one serviceControl
\* points to and has the receiver registered that stop and restart requests
\* come through (CoreServiceManager.kt:116-126, 217-221).
CalmCoreIsReachable == AllQuiet /\ Calm => CoreIsReachable

\* A service that is up and was never told of a failure has its core, and
\* the UI knows (CoreProxyOnlyService.kt:32-48).
CalmServiceHasCore == AllQuiet /\ Calm => ServiceHasCore

\* A reload that began ends, whatever fails in it, so that the next handover
\* is not refused for good (CoreServiceManager.kt:277-279).
ReloadEnds == reloading ~> ~reloading

\* Root mode: a core that runs for a service has its rules, and rules that stay
\* have a core (CoreRootService.kt:70-77), as long as no reload fails.
RulesMatchCore == mode = "root" /\ Calm => RunningMeansRouted /\ RulesHaveCore

\* No rule is in place when the core of a service that goes is told to stop:
\* CoreRootService.kt:76-77, "so traffic is never redirected to a dead listener".
RulesGoFirst == [][stops' > stops => ~rules]_vars

\* VPN mode: what VpnService says of interface, start lock, tunnel and sharing.
CalmLockMeansUp == Calm => LockMeansUp
CalmVpnLeavesNothing == Calm => VpnLeavesNothing
=============================================================================
