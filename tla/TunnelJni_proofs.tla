------------------------- MODULE TunnelJni_proofs -------------------------
(***************************************************************************)
(* First the start/stop protocol: the byte that wakes the event task is    *)
(* never written to a closed descriptor, and WAIT is a lock.  Then, for    *)
(* any set of Java threads: start and stop never run two workers, never    *)
(* join a thread that is not there, and the sync protocol keeps its own    *)
(* invariant although its worker comes and goes.                           *)
(***************************************************************************)
EXTENDS TunnelJni, TLAPS

-----------------------------------------------------------------------------
(* The start/stop protocol by itself, for every set of stoppers *)

LEMMA SyncInitInv == SyncInit => SyncInv
  BY DEF SyncInit, SyncInv, SyncTypeOK, Flags, WorkerPC, StopperPC, WaitIsALock,
         HolderHasWait, Holding, SendWhileArmed, OpenWhileUp, SeenPinsWorker

\* The worker's actions leave the stoppers alone, so each part of SyncInv
\* is about what the action does to tsync, fds and wpc.
LEMMA WorkerKeepsInv ==
  ASSUME SyncInv, MainCall \/ MainBody \/ MainReturn
  PROVE  SyncInv'
<1> USE DEF SyncInv, SyncTypeOK, Flags, WorkerPC, StopperPC, WaitIsALock,
            HolderHasWait, Holding, SendWhileArmed, Armed, OpenWhileUp,
            SeenPinsWorker, Worker
<1>1. CASE MainCall      BY <1>1 DEF MainCall
<1>2. CASE Setup         BY <1>2 DEF Setup
<1>3. CASE InitResources BY <1>3 DEF InitResources
<1>4. CASE Arm           BY <1>4 DEF Arm
<1>5. CASE RunStopped    BY <1>5 DEF RunStopped
<1>6. CASE RunTasks      BY <1>6 DEF RunTasks
<1>7. CASE EventRead     BY <1>7 DEF EventRead
<1>8. CASE EventClear    BY <1>8 DEF EventClear
<1>9. CASE Drain         BY <1>9 DEF Drain
\* fini is left only in a round that sees no stopper in WAIT, so no stopper
\* that saw SEND is between its two steps
<1>10. CASE FiniRound
  <2>1. CASE "WAIT" \in tsync    BY <1>10, <2>1 DEF FiniRound
  <2>2. CASE "WAIT" \notin tsync BY <1>10, <2>2 DEF FiniRound
  <2> QED BY <2>1, <2>2
<1>11. CASE Free         BY <1>11 DEF Free
<1>12. CASE MainReturn   BY <1>12 DEF MainReturn
<1> QED
  BY <1>1, <1>2, <1>3, <1>4, <1>5, <1>6, <1>7, <1>8, <1>9, <1>10, <1>11, <1>12
     DEF MainBody

\* A stopper moves only itself; it enters Holding only when WAIT was clear,
\* that is, when nobody else was there.
LEMMA StopperKeepsInv ==
  ASSUME SyncInv, NEW s \in Stoppers, StopCall(s) \/ StopBody(s)
  PROVE  SyncInv'
<1> USE DEF SyncInv, SyncTypeOK, Flags, WorkerPC, StopperPC, WaitIsALock,
            HolderHasWait, Holding, SendWhileArmed, Armed, OpenWhileUp,
            SeenPinsWorker, Stopper
<1>1. CASE StopCall(s)    BY <1>1 DEF StopCall
<1>2. CASE StopAcquire(s)
  <2>1. CASE "SEND" \in tsync
    <3>1. seen' = [seen EXCEPT ![s] = TRUE]
      BY <1>2, <2>1, Zenon DEF StopAcquire
    <3> QED BY <1>2, <2>1, <3>1 DEF StopAcquire
  <2>2. CASE "SEND" \notin tsync
    <3>1. ("SEND" \in tsync) = FALSE
      BY <2>2
    <3>2. seen' = [seen EXCEPT ![s] = FALSE]
      BY <1>2, <3>1, Zenon DEF StopAcquire
    <3> QED BY <1>2, <2>2, <3>2 DEF StopAcquire
  <2> QED BY <2>1, <2>2
<1>3. CASE StopSend(s)    BY <1>3 DEF StopSend
<1>4. CASE StopRecord(s)  BY <1>4 DEF StopRecord
<1>5. CASE StopWrite(s)   BY <1>5 DEF StopWrite
<1>6. CASE StopRelease(s) BY <1>6 DEF StopRelease
<1> QED BY <1>1, <1>2, <1>3, <1>4, <1>5, <1>6 DEF StopBody

\* Every reachable state satisfies SyncInv (hev-socks5-tunnel.c:652-766).
THEOREM SyncInvariance == SyncSpec => []SyncInv
<1>1. SyncInv /\ [SyncNext]_syncVars => SyncInv'
  <2> SUFFICES ASSUME SyncInv, [SyncNext]_syncVars PROVE SyncInv'
    OBVIOUS
  <2>1. CASE MainCall \/ MainBody \/ MainReturn
    BY <2>1, WorkerKeepsInv
  <2>2. ASSUME NEW s \in Stoppers, StopCall(s) \/ StopBody(s)
        PROVE  SyncInv'
    BY <2>2, StopperKeepsInv
  <2>3. CASE UNCHANGED syncVars
    BY <2>3 DEF syncVars, SyncInv, SyncTypeOK, WaitIsALock, HolderHasWait,
                SendWhileArmed, OpenWhileUp, SeenPinsWorker
  <2> QED BY <2>1, <2>2, <2>3 DEF SyncNext
<1> QED BY <1>1, SyncInitInv, PTL DEF SyncSpec

\* The state always has its type.
THEOREM SyncTypeCorrect == SyncSpec => []SyncTypeOK
<1>1. SyncInv => SyncTypeOK BY DEF SyncInv
<1> QED BY <1>1, SyncInvariance, PTL

\* Whatever the number of stoppers and of calls of main, no stopper writes
\* the wake-up byte after fini closed the socket pair.
THEOREM NoWriteAfterCloseHolds == SyncSpec => []NoWriteAfterClose
<1>1. SyncInv => NoWriteAfterClose
  BY DEF SyncInv, SeenPinsWorker, NoWriteAfterClose
<1> QED BY <1>1, SyncInvariance, PTL

\* SYNC_WAIT is a lock among the stoppers.
THEOREM WaitIsALockHolds == SyncSpec => []WaitIsALock
<1>1. SyncInv => WaitIsALock BY DEF SyncInv
<1> QED BY <1>1, SyncInvariance, PTL

-----------------------------------------------------------------------------
(* The JNI layer on top of it *)

\* the part of JniInv that is not about the sync protocol
JniOnly ==
  /\ JniTypeOK
  /\ MutexHeld
  /\ JoinableIffCreated
  /\ RunningIsCreated
  /\ CreatorIsRunning
  /\ RunningWhileUp
  /\ SpawnIsSafe
  /\ JoinIsSafe
  /\ JoinerWaits

LEMMA JniInitInv == Init => JniInv
  BY SyncInitInv, JniAssumption
  DEF Init, SyncInit, JniInv, JniTypeOK, JniPC, StartPC, StopPC, MutexHeld,
      JoinableIffCreated, WorkerInMain, RunningIsCreated, CreatorIsRunning, RunningWhileUp,
      SpawnIsSafe, JoinIsSafe, JoinerWaits

\* inside start and stop: the mutex keeps every other Java thread idle, so a
\* step of its holder is all there is to check
LEMMA InsideKeepsOnly ==
  ASSUME JniOnly, NEW c \in Stoppers, Lock(c) \/ Inside(c)
  PROVE  JniOnly'
  <1> USE JniAssumption
      DEF JniOnly, JniTypeOK, JniPC, StartPC, StopPC, MutexHeld, JoinableIffCreated,
          RunningIsCreated, CreatorIsRunning, RunningWhileUp, SpawnIsSafe, JoinIsSafe, JoinerWaits, Java
  <1>1. CASE Lock(c)
    BY <1>1 DEF Lock
  <1>2. CASE Unlock(c)
    BY <1>2 DEF Unlock
  <1>3. CASE StartCheck(c)
    BY <1>3 DEF StartCheck
  <1>4. CASE StartJoin(c)
    BY <1>4 DEF StartJoin
  <1>5. CASE Spawn(c)
    <2>1. CASE SetRunning(c)
      <3>1. CASE Java(c, "spawn", "create") /\ is_running' = TRUE
        BY <2>1, <3>1 DEF SetRunning
      <3>2. CASE Java(c, "spawn", "unlock") /\ UNCHANGED is_running
        BY <2>1, <3>2 DEF SetRunning
      <3> QED
        BY <2>1, <3>1, <3>2 DEF SetRunning
    <2>2. CASE Create(c)
      <3>1. \A d \in Stoppers : jpc'[d] # "create"
        BY <2>2 DEF Create
      <3>2. CASE thr' = "new" /\ thread_joinable' = TRUE /\ UNCHANGED is_running
        BY <2>2, <3>1, <3>2 DEF Create
      <3>3. CASE is_running' = FALSE /\ UNCHANGED <<thread_joinable, thr, quit>>
        BY <2>2, <3>1, <3>3 DEF Create
      <3> QED
        BY <2>2, <3>2, <3>3 DEF Create
    <2> QED
      BY <1>5, <2>1, <2>2 DEF Spawn
  <1>6. CASE StopCheck(c)
    <2>1. CASE thread_joinable /\ is_running
      BY <1>6, <2>1 DEF StopCheck
    <2>2. CASE ~(thread_joinable /\ is_running)
      <3>1. /\ UNCHANGED <<mutex, is_running, thread_joinable, thr, quit>>
            /\ jpc[c] = "stop"
            /\ \/ thread_joinable /\ jpc' = [jpc EXCEPT ![c] = "join"]
               \/ jpc' = [jpc EXCEPT ![c] = "unlock"]
        BY <1>6, <2>2 DEF StopCheck
      <3> QED
        BY <3>1
    <2> QED
      BY <2>1, <2>2
  <1>7. CASE Quit(c)
    BY <1>7 DEF Quit
  <1>8. CASE StopJoin(c)
    BY <1>8 DEF StopJoin
  <1> QED
    BY <1>1, <1>2, <1>3, <1>4, <1>5, <1>6, <1>7, <1>8 DEF Inside

\* the worker thread outside hev_socks5_tunnel_main, and in it
LEMMA ThreadKeepsOnly ==
  ASSUME JniOnly, WorkThread
  PROVE  JniOnly'
  <1> USE DEF JniOnly, JniTypeOK, JniPC, StartPC, StopPC, MutexHeld, JoinableIffCreated,
          RunningIsCreated, CreatorIsRunning, RunningWhileUp, SpawnIsSafe, JoinIsSafe, JoinerWaits, Thread
  <1>1. CASE ThreadMain
    BY <1>1 DEF ThreadMain
  <1>2. CASE ThreadBody
    BY <1>2 DEF ThreadBody, jniVars
  <1>3. CASE ThreadReturn
    BY <1>3 DEF ThreadReturn
  <1>4. CASE ThreadExit
    BY <1>4 DEF ThreadExit
  <1> QED
    BY <1>1, <1>2, <1>3, <1>4 DEF WorkThread

\* every step is a step of the sync protocol, or leaves its state alone
LEMMA JniStepsSync ==
  ASSUME Next
  PROVE  [SyncNext]_syncVars
  <1>1. CASE WorkThread
    BY <1>1 DEF WorkThread, ThreadMain, ThreadBody, ThreadReturn, ThreadExit, SyncNext
  <1>2. ASSUME NEW c \in Stoppers, Lock(c) \/ Inside(c)
        PROVE  [SyncNext]_syncVars
    BY <1>2 DEF Lock, Inside, Unlock, StartCheck, StartJoin, Spawn, SetRunning,
          Create, StopCheck, Quit,
        StopJoin, SyncNext
  <1> QED
    BY <1>1, <1>2 DEF Next

\* the protocol's worker moves only inside hev_socks5_tunnel_main
LEMMA MainIsThread ==
  ASSUME JniInv, Next
  PROVE  WorkerInMain'
  <1> USE DEF JniInv, WorkerInMain
  <1>1. CASE WorkThread
    <2>1. CASE ThreadMain
      BY <2>1 DEF ThreadMain, Thread
    <2>2. CASE ThreadBody
      BY <2>2 DEF ThreadBody, jniVars, MainBody, Setup, InitResources, Arm, RunStopped,
          RunTasks, EventRead, EventClear, Drain, FiniRound, Free, Worker
    <2>3. CASE ThreadReturn
      BY <2>3 DEF ThreadReturn, MainReturn, Worker
    <2>4. CASE ThreadExit
      BY <2>4 DEF ThreadExit, Thread, syncVars
    <2> QED
      BY <1>1, <2>1, <2>2, <2>3, <2>4 DEF WorkThread
  <1>2. ASSUME NEW c \in Stoppers, Lock(c) \/ Inside(c)
        PROVE  WorkerInMain'
    <2>1. wpc' = wpc
      BY <1>2 DEF Lock, Inside, Unlock, StartCheck, StartJoin, Spawn, SetRunning,
          Create, StopCheck, Quit,
          StopJoin, StopCall, StopBody, StopAcquire, StopSend, StopRecord, StopWrite,
          StopRelease, syncVars
    <2>2. thr = "main" => thr' = "main"
      BY <1>2 DEF Lock, Inside, Unlock, StartCheck, StartJoin, Spawn, SetRunning,
          Create, StopCheck, Quit,
          StopJoin, SpawnIsSafe, Java
    <2> QED
      BY <2>1, <2>2
  <1> QED
    BY <1>1, <1>2 DEF Next

\* The invariant is inductive.
THEOREM JniInvariance == Spec => []JniInv
  <1>1. JniInv /\ [Next]_vars => JniInv'
    <2> SUFFICES ASSUME JniInv, [Next]_vars PROVE JniInv'
      OBVIOUS
    <2>1. JniOnly
      BY DEF JniInv, JniOnly
    <2>2. CASE Next
      <3>1. SyncInv'
        <4>1. CASE SyncNext
          BY <4>1, WorkerKeepsInv, StopperKeepsInv DEF SyncNext, JniInv
        <4>2. CASE UNCHANGED syncVars
          BY <4>2 DEF syncVars, JniInv, SyncInv, SyncTypeOK, WaitIsALock,
              HolderHasWait, SendWhileArmed, OpenWhileUp, SeenPinsWorker
        <4> QED
          BY <2>2, <4>1, <4>2, JniStepsSync
      <3>2. JniOnly'
        BY <2>1, <2>2, InsideKeepsOnly, ThreadKeepsOnly DEF Next
      <3> QED
        BY <2>2, <3>1, <3>2, MainIsThread DEF JniOnly, JniInv
    <2>3. CASE UNCHANGED vars
      BY <2>3 DEF vars, syncVars, jniVars, JniInv, SyncInv, SyncTypeOK, WaitIsALock,
          HolderHasWait, SendWhileArmed, OpenWhileUp, SeenPinsWorker, JniTypeOK,
          MutexHeld, JoinableIffCreated, WorkerInMain, RunningIsCreated,
          CreatorIsRunning, RunningWhileUp, SpawnIsSafe, JoinIsSafe, JoinerWaits
    <2> QED
      BY <2>2, <2>3
  <1> QED
    BY <1>1, JniInitInv, PTL DEF Spec

\* A worker is created only when there is none.
THEOREM SpawnIsSafeHolds == Spec => []SpawnIsSafe
  <1>1. JniInv => SpawnIsSafe
    BY DEF JniInv
  <1> QED
    BY <1>1, JniInvariance, PTL

\* pthread_join gets a thread that is there.
THEOREM JoinIsSafeHolds == Spec => []JoinIsSafe
  <1>1. JniInv => JoinIsSafe
    BY DEF JniInv
  <1> QED
    BY <1>1, JniInvariance, PTL

\* Start and stop use the sync protocol as TunnelSync says: every behaviour
\* of the JNI layer is, fairness aside, one of SyncSpec.
THEOREM JniRefinesSync == Spec => SyncInit /\ [][SyncNext]_syncVars
  <1>1. Init => SyncInit
    BY DEF Init
  <1>2. [Next]_vars => [SyncNext]_syncVars
    BY JniStepsSync DEF vars, syncVars
  <1> QED
    BY <1>1, <1>2, PTL DEF Spec

\* A worker that is up is never denied, by TProxyIsRunning or by a start.
THEOREM RunningWhileUpHolds == Spec => []RunningWhileUp
  <1>1. JniInv => RunningWhileUp
    BY DEF JniInv
  <1> QED
    BY <1>1, JniInvariance, PTL

\* inside start and stop, seen from above
LEMMA InsideIsTunnel ==
  ASSUME JniInv, NEW c \in Stoppers, Lock(c) \/ Inside(c)
  PROVE  [Tunnel!TunNext]_(Tunnel!tunVars)
  <1> USE DEF JniInv, JniTypeOK, JniPC, StartPC, StopPC, Java, Tunnel!Pend, Tunnel!tunVars
  <1>1. CASE Lock(c)
    <2>1. \A d \in Stoppers : jpc[d] = "idle"
      BY <1>1, JniAssumption DEF Lock, MutexHeld
    <2>2. Tunnel!Enter(c)
      BY <1>1, <2>1 DEF Lock, Tunnel!Enter
    <2> QED
      BY <2>2 DEF Tunnel!TunNext
  <1>2. CASE Unlock(c)
    <2>1. Tunnel!Leave(c)
      BY <1>2 DEF Unlock, Tunnel!Leave
    <2> QED
      BY <2>1 DEF Tunnel!TunNext
  <1>3. CASE StartCheck(c)
    <2>1. CASE jpc' = [jpc EXCEPT ![c] = "unlock"]
      <3>1. Tunnel!Start(c)
        BY <1>3, <2>1 DEF StartCheck, Tunnel!Start, Tunnel!StartTun
      <3> QED
        BY <3>1 DEF Tunnel!TunNext
    <2>2. CASE jpc' = [jpc EXCEPT ![c] = "startJoin"] \/ jpc' = [jpc EXCEPT ![c] = "spawn"]
      BY <1>3, <2>2 DEF StartCheck
    <2> QED
      BY <1>3, <2>1, <2>2 DEF StartCheck
  <1>4. CASE StartJoin(c)
    <2>1. Tunnel!Reap(c)
      BY <1>4 DEF StartJoin, Tunnel!Reap, Tunnel!ReapTun
    <2> QED
      BY <2>1 DEF Tunnel!TunNext
  <1>5. CASE Spawn(c)
    <2>1. CASE jpc' = [jpc EXCEPT ![c] = "create"]
      BY <1>5, <2>1 DEF Spawn, SetRunning, Create
    <2>2. CASE jpc' = [jpc EXCEPT ![c] = "unlock"]
      <3>1. thr = "none" /\ (thr' = "new" \/ thr' = thr)
        BY <1>5 DEF Spawn, SetRunning, Create, SpawnIsSafe
      <3>2. Tunnel!Start(c)
        BY <1>5, <2>2, <3>1 DEF Spawn, SetRunning, Create, Tunnel!Start, Tunnel!StartTun
      <3> QED
        BY <3>2 DEF Tunnel!TunNext
    <2> QED
      BY <1>5, <2>1, <2>2 DEF Spawn, SetRunning, Create
  <1>6. CASE StopCheck(c)
    <2>1. CASE jpc' = [jpc EXCEPT ![c] = "unlock"]
      <3>1. thr = "none"
        BY <1>6, <2>1 DEF StopCheck, JoinableIffCreated
      <3>2. Tunnel!Stop(c)
        BY <1>6, <2>1, <3>1 DEF StopCheck, Tunnel!Stop, Tunnel!StopTun
      <3> QED
        BY <3>2 DEF Tunnel!TunNext
    <2>2. CASE jpc' = [jpc EXCEPT ![c] = "quit"] \/ jpc' = [jpc EXCEPT ![c] = "join"]
      BY <1>6, <2>2 DEF StopCheck
    <2> QED
      BY <1>6, <2>1, <2>2 DEF StopCheck
  <1>7. CASE Quit(c)
    BY <1>7 DEF Quit
  <1>8. CASE StopJoin(c)
    <2>1. Tunnel!Stop(c)
      BY <1>8 DEF StopJoin, Tunnel!Stop, Tunnel!StopTun
    <2> QED
      BY <2>1 DEF Tunnel!TunNext
  <1> QED
    BY <1>1, <1>2, <1>3, <1>4, <1>5, <1>6, <1>7, <1>8 DEF Inside

\* the worker thread, seen from above
LEMMA ThreadIsTunnel ==
  ASSUME JniInv, WorkThread
  PROVE  [Tunnel!TunNext]_(Tunnel!tunVars)
  <1> USE DEF Thread, Tunnel!tunVars
  <1>1. CASE ThreadReturn
    <2>1. Tunnel!End
      BY <1>1 DEF ThreadReturn, Tunnel!End, Tunnel!EndTun
    <2> QED
      BY <2>1 DEF Tunnel!TunNext
  <1>2. CASE ThreadMain \/ ThreadBody \/ ThreadExit
    BY <1>2 DEF ThreadMain, ThreadBody, ThreadExit, jniVars
  <1> QED
    BY <1>1, <1>2 DEF WorkThread

\* The JNI layer implements TunnelService, fairness aside, for any set of
\* Java threads: what the VPN service is built on.
THEOREM JniImplementsTunnel == Spec => ImplementsTunnel
  <1>1. Init => Tunnel!TunInit
    BY DEF Init, Tunnel!TunInit, StartPC, StopPC
  <1>2. JniInv /\ [Next]_vars => [Tunnel!TunNext]_(Tunnel!tunVars)
    <2> SUFFICES ASSUME JniInv, [Next]_vars PROVE [Tunnel!TunNext]_(Tunnel!tunVars)
      OBVIOUS
    <2>1. CASE UNCHANGED vars
      BY <2>1 DEF vars, jniVars, Tunnel!tunVars
    <2> QED
      BY <2>1, InsideIsTunnel, ThreadIsTunnel DEF Next
  <1> QED
    BY <1>1, <1>2, JniInvariance, PTL DEF Spec, ImplementsTunnel, Tunnel!TunSpec
=============================================================================
