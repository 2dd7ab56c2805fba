----------------------------- MODULE TunnelJni -----------------------------
(***************************************************************************)
(* hev-jni.c: TProxyStartService and TProxyStopService, called from any    *)
(* Java thread, around the start/stop protocol of TunnelSync.  One mutex   *)
(* serialises the two functions; the worker thread, which clears           *)
(* is_running when hev_socks5_tunnel_main has returned, does not take it.  *)
(***************************************************************************)
EXTENDS TunnelSync

CONSTANT NoOne        \* nobody holds the mutex

ASSUME JniAssumption == NoOne \notin Stoppers

VARIABLES
  mutex,            \* who holds `mutex`
  is_running,       \* the atomic flag
  thread_joinable,
  thr,              \* work_thread: "none" (never created, or joined), "new",
                    \* "main" (in hev_socks5_tunnel_main), "exit", "ended"
  jpc,              \* where each Java thread is in start or stop
  quit              \* history: hev_socks5_tunnel_quit was called since the
                    \* worker was created

jniVars == <<mutex, is_running, thread_joinable, thr, jpc, quit>>
vars == <<syncVars, jniVars>>

StartPC == {"start", "startJoin", "spawn", "create"}
StopPC == {"stop", "quit", "join"}
JniPC == {"idle", "unlock"} \cup StartPC \cup StopPC

JniTypeOK ==
  /\ mutex \in Stoppers \cup {NoOne}
  /\ is_running \in BOOLEAN
  /\ thread_joinable \in BOOLEAN
  /\ thr \in {"none", "new", "main", "exit", "ended"}
  /\ jpc \in [Stoppers -> JniPC]
  /\ quit \in BOOLEAN

Init ==
  /\ SyncInit
  /\ mutex = NoOne
  /\ is_running = FALSE
  /\ thread_joinable = FALSE
  /\ thr = "none"
  /\ jpc = [c \in Stoppers |-> "idle"]
  /\ quit = FALSE

Java(c, from, to) == jpc[c] = from /\ jpc' = [jpc EXCEPT ![c] = to]

-----------------------------------------------------------------------------
(* native_start_service and native_stop_service *)

Lock(c) ==
  /\ mutex = NoOne
  /\ mutex' = c
  /\ Java(c, "idle", "start") \/ Java(c, "idle", "stop")
  /\ UNCHANGED <<is_running, thread_joinable, thr, quit, syncVars>>

Unlock(c) ==
  /\ Java(c, "unlock", "idle")
  /\ mutex' = NoOne
  /\ UNCHANGED <<is_running, thread_joinable, thr, quit, syncVars>>

\* mutant: a thread that can be joined is always joined first
StartCheckJoinsAlways(c) ==
  /\ jpc[c] = "start"
  /\ jpc' = [jpc EXCEPT ![c] = IF thread_joinable THEN "startJoin" ELSE "spawn"]
  /\ UNCHANGED <<mutex, is_running, thread_joinable, thr, quit, syncVars>>

\* mutant: a finished thread is not joined before the next one is created
StartCheckNoJoin(c) ==
  /\ jpc[c] = "start"
  /\ jpc' = [jpc EXCEPT ![c] = IF is_running THEN "unlock" ELSE "spawn"]
  /\ UNCHANGED <<mutex, is_running, thread_joinable, thr, quit, syncVars>>

\* a running tunnel is left alone, a finished one is joined first
StartCheck(c) ==
  /\ jpc[c] = "start"
  /\ jpc' = [jpc EXCEPT ![c] = IF is_running THEN "unlock"
                               ELSE IF thread_joinable THEN "startJoin"
                               ELSE "spawn"]
  /\ UNCHANGED <<mutex, is_running, thread_joinable, thr, quit, syncVars>>

StartJoin(c) ==
  /\ Java(c, "startJoin", "spawn")
  /\ thr = "ended"
  /\ thr' = "none"
  /\ thread_joinable' = FALSE
  /\ UNCHANGED <<mutex, is_running, quit, syncVars>>

\* the arguments are copied, or that fails and the start is given up; the
\* flag is set before there is a thread
SetRunning(c) ==
  /\ \/ Java(c, "spawn", "create") /\ is_running' = TRUE
     \/ Java(c, "spawn", "unlock") /\ UNCHANGED is_running
  /\ UNCHANGED <<mutex, thread_joinable, thr, quit, syncVars>>

\* the thread is created, or the flag is taken back; thread_joinable is read
\* with the mutex only, so the worker cannot tell when it is set
Create(c) ==
  /\ Java(c, "create", "unlock")
  /\ \/ thr' = "new" /\ thread_joinable' = TRUE /\ quit' = FALSE /\ UNCHANGED is_running
     \/ is_running' = FALSE /\ UNCHANGED <<thread_joinable, thr, quit>>
  /\ UNCHANGED <<mutex, syncVars>>

\* mutant: the thread is created first, and the flag set when it is there
SpawnThenFlag(c) ==
  /\ \/ /\ Java(c, "spawn", "create")
        /\ thr' = "new" /\ thread_joinable' = TRUE /\ quit' = FALSE /\ UNCHANGED is_running
     \/ /\ Java(c, "create", "unlock")
        /\ is_running' = TRUE /\ UNCHANGED <<thread_joinable, thr, quit>>
  /\ UNCHANGED <<mutex, syncVars>>

Spawn(c) == SetRunning(c) \/ Create(c)

\* mutant: a worker that ended by itself is not joined
StopCheckRunningOnly(c) ==
  /\ jpc[c] = "stop"
  /\ UNCHANGED <<mutex, is_running, thread_joinable, thr>>
  /\ IF is_running
       THEN Java(c, "stop", "quit") /\ quit' = TRUE /\ StopCall(c)
       ELSE Java(c, "stop", "unlock") /\ UNCHANGED <<quit, syncVars>>

\* nothing to stop, or a worker to join, or one to make quit first
StopCheck(c) ==
  /\ jpc[c] = "stop"
  /\ UNCHANGED <<mutex, is_running, thread_joinable, thr>>
  /\ IF thread_joinable /\ is_running
       THEN Java(c, "stop", "quit") /\ quit' = TRUE /\ StopCall(c)
       ELSE /\ Java(c, "stop", IF thread_joinable THEN "join" ELSE "unlock")
            /\ UNCHANGED <<quit, syncVars>>

\* the statements of hev_socks5_tunnel_quit, up to its return
Quit(c) ==
  /\ jpc[c] = "quit"
  /\ StopBody(c)
  /\ jpc' = [jpc EXCEPT ![c] = IF spc[c] = "release" THEN "join" ELSE "quit"]
  /\ UNCHANGED <<mutex, is_running, thread_joinable, thr, quit>>

\* mutant: the thread is joined and stays joinable
StopJoinStillJoinable(c) ==
  /\ Java(c, "join", "unlock")
  /\ thr = "ended"
  /\ thr' = "none"
  /\ is_running' = FALSE
  /\ UNCHANGED <<mutex, thread_joinable, quit, syncVars>>

StopJoin(c) ==
  /\ Java(c, "join", "unlock")
  /\ thr = "ended"
  /\ thr' = "none"
  /\ thread_joinable' = FALSE
  /\ is_running' = FALSE
  /\ UNCHANGED <<mutex, quit, syncVars>>

Inside(c) ==
  \/ StartCheck(c) \/ StartJoin(c) \/ Spawn(c)
  \/ StopCheck(c) \/ Quit(c) \/ StopJoin(c) \/ Unlock(c)

-----------------------------------------------------------------------------
(* thread_handler *)

Thread(from, to) == thr = from /\ thr' = to

ThreadMain ==
  /\ Thread("new", "main")
  /\ MainCall
  /\ UNCHANGED <<mutex, is_running, thread_joinable, jpc, quit>>

ThreadBody == MainBody /\ UNCHANGED jniVars

ThreadReturn ==
  /\ Thread("main", "exit")
  /\ MainReturn
  /\ UNCHANGED <<mutex, is_running, thread_joinable, jpc, quit>>

ThreadExit ==
  /\ Thread("exit", "ended")
  /\ is_running' = FALSE
  /\ UNCHANGED <<mutex, thread_joinable, jpc, quit, syncVars>>

WorkThread == ThreadMain \/ ThreadBody \/ ThreadReturn \/ ThreadExit

-----------------------------------------------------------------------------

Next == WorkThread \/ \E c \in Stoppers : Lock(c) \/ Inside(c)

\* The worker and a Java thread inside start or stop are threads the
\* operating system keeps scheduling; nobody is obliged to call either.
Fairness == WF_vars(WorkThread) /\ \A c \in Stoppers : WF_vars(Inside(c))

Spec == Init /\ [][Next]_vars /\ Fairness

-----------------------------------------------------------------------------
(* Properties *)

\* A worker is created only when there is none: the tunnel keeps its state in
\* static variables (hev-socks5-tunnel.c:50-75), which two workers would
\* share, and a thread that is not joined leaks (hev-jni.c:127-130, 152).
SpawnIsSafe ==
  \A c \in Stoppers : jpc[c] \in {"spawn", "create"} => thr = "none" /\ ~thread_joinable

\* pthread_join gets a thread that was created and not joined yet
\* (hev-jni.c:128, 178); anything else is undefined.
JoinIsSafe ==
  \A c \in Stoppers : jpc[c] \in {"startJoin", "quit", "join"} => thr # "none"

\* TProxyIsRunning does not deny a worker that is up, nor does a start or a
\* stop overlook it: the starter's 1 is there before the thread is, and the 0
\* of the worker comes after main (hev-jni.c:150-151, 105-107).
RunningWhileUp == thr \in {"new", "main"} => is_running

\* A start that got the mutex returns: it never waits for a tunnel that runs
\* (hev-jni.c:124-130).
StartReturns == \A c \in Stoppers : (jpc[c] = "start") ~> (jpc[c] = "idle")

\* The JNI layer keeps the promise of TunnelService: it never replaces a worker
\* that is alive, and a stop that returns leaves none (hev-jni.c:115-185).
Tunnel == INSTANCE TunnelService WITH
  Callers <- Stoppers,
  tun <- IF thr = "none" THEN "off" ELSE IF thr \in {"new", "main"} THEN "up" ELSE "over",
  pend <- [c \in Stoppers |-> IF jpc[c] \in StartPC THEN "start"
                              ELSE IF jpc[c] \in StopPC THEN "stop"
                              ELSE IF jpc[c] = "unlock" THEN "done" ELSE "idle"]

ImplementsTunnel == Tunnel!TunSpec

\* hev-main.h:24-25, "this function will blocks until the
\* hev_socks5_tunnel_quit is called or an error occurs": a run that is about
\* to return because of SYNC_STOP belongs to a main that was told to quit.
StopIsForThisRun == wpc = "run" /\ "STOP" \in tsync => quit

\* The inductive invariant: the mutex serialises start and stop, the flags
\* follow the worker, and the sync protocol runs on that one worker only.
MutexHeld == \A c \in Stoppers : jpc[c] # "idle" => mutex = c
JoinableIffCreated == thread_joinable <=> thr # "none"
WorkerInMain == wpc # "idle" => thr = "main"
RunningIsCreated ==
  is_running => thr \in {"new", "main", "exit"} \/ \E c \in Stoppers : jpc[c] = "create"
CreatorIsRunning == \A c \in Stoppers : jpc[c] = "create" => is_running
JoinerWaits ==
  \A c \in Stoppers : jpc[c] = "startJoin" => thr \in {"exit", "ended"} /\ ~is_running

JniInv ==
  /\ JniTypeOK
  /\ SyncInv
  /\ MutexHeld
  /\ JoinableIffCreated
  /\ WorkerInMain
  /\ RunningIsCreated
  /\ CreatorIsRunning
  /\ RunningWhileUp
  /\ SpawnIsSafe
  /\ JoinIsSafe
  /\ JoinerWaits
=============================================================================
