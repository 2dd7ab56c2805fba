--------------------------- MODULE TunnelService ---------------------------
(***************************************************************************)
(* What the Java side may rely on when it calls TProxyStartService and     *)
(* TProxyStopService: one tunnel, calls one at a time, a stop returns with *)
(* no tunnel left.  TunnelJni implements it; VpnService is built on it.    *)
(***************************************************************************)

CONSTANT Callers      \* threads that call start and stop

VARIABLES
  tun,      \* "off", "up", or "over": it ended and nobody collected it yet
  pend      \* what each caller is doing: "idle", "start", "stop", or "done"

tunVars == <<tun, pend>>

TunInit == tun = "off" /\ pend = [c \in Callers |-> "idle"]

Pend(c, from, to) == pend[c] = from /\ pend' = [pend EXCEPT ![c] = to]

Enter(c) ==
  /\ \A d \in Callers : pend[d] = "idle"
  /\ Pend(c, "idle", "start") \/ Pend(c, "idle", "stop")
  /\ UNCHANGED tun

\* A start that finds a tunnel leaves it alone; it may fail to make one.
StartTun == tun' = tun \/ (tun = "off" /\ tun' = "up")
Start(c) == Pend(c, "start", "done") /\ StartTun

\* A start collects a tunnel that is over before it makes a new one.
ReapTun == tun = "over" /\ tun' = "off"
Reap(c) == pend[c] = "start" /\ ReapTun /\ UNCHANGED pend

\* A stop waits for the end of the tunnel.
StopTun == tun # "up" /\ tun' = "off"
Stop(c) == Pend(c, "stop", "done") /\ StopTun

Leave(c) == Pend(c, "done", "idle") /\ UNCHANGED tun

\* The tunnel ends by itself, or because a stop told it to.
EndTun == tun = "up" /\ tun' = "over"
End == EndTun /\ UNCHANGED pend

TunNext ==
  \/ End
  \/ \E c \in Callers : Enter(c) \/ Start(c) \/ Reap(c) \/ Stop(c) \/ Leave(c)

TunSpec == TunInit /\ [][TunNext]_tunVars
=============================================================================
