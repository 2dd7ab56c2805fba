---------------------------- MODULE TunnelSync ----------------------------
(***************************************************************************)
(* The start/stop protocol of the C tunnel: hev_socks5_tunnel_init, _run,  *)
(* _fini on the worker thread that executes hev_socks5_tunnel_main, and    *)
(* hev_socks5_tunnel_stop on any other thread.  The two sides share the    *)
(* atomic word `tsync` and the socket pair `event_fds`.                    *)
(*                                                                         *)
(* Every access to tsync is one atomic read-modify-write in the code and   *)
(* one action here.  The packet processing between start and stop is       *)
(* abstracted to the worker resting in "loop".                             *)
(***************************************************************************)
EXTENDS Naturals

CONSTANT Stoppers      \* threads that call hev_socks5_tunnel_quit

VARIABLES
  tsync,     \* the set of SYNC_ flags that are set in the atomic word
  fds,       \* event_fds: "closed" (-1) or "open"
  evt,       \* a byte written to event_fds[1] waits in the socket pair
  run,       \* the `run` flag the lwip tasks poll
  wpc,       \* where the worker is
  spc,       \* where each stopper is
  seen       \* what each stopper read: SYNC_SEND was set when it took WAIT

syncVars == <<tsync, fds, evt, run, wpc, spc, seen>>

Flags == {"SEND", "SENT", "WAIT", "STOP"}

WorkerPC == {"idle", "setup", "init", "arm", "run", "loop",
             "event", "drain", "fini", "free", "ret"}

StopperPC == {"idle", "acquire", "mark", "write", "release"}

SyncTypeOK ==
  /\ tsync \in SUBSET Flags
  /\ fds \in {"closed", "open"}
  /\ evt \in BOOLEAN
  /\ run \in BOOLEAN
  /\ wpc \in WorkerPC
  /\ spc \in [Stoppers -> StopperPC]
  /\ seen \in [Stoppers -> BOOLEAN]

SyncInit ==
  /\ tsync = {}
  /\ fds = "closed"
  /\ evt = FALSE
  /\ run = FALSE
  /\ wpc = "idle"
  /\ spc = [s \in Stoppers |-> "idle"]
  /\ seen = [s \in Stoppers |-> FALSE]

-----------------------------------------------------------------------------
(* The worker: hev_socks5_tunnel_main *)

Worker(from, to) == wpc = from /\ wpc' = to

\* hev_socks5_tunnel_main is entered
MainCall ==
  /\ Worker("idle", "setup")
  /\ UNCHANGED <<tsync, fds, evt, run, spc, seen>>

\* configuration, loggers and the task system are set up; any of them may
\* fail, and main then returns without reaching hev_socks5_tunnel_init
Setup ==
  /\ wpc = "setup"
  /\ wpc' \in {"init", "ret"}
  /\ UNCHANGED <<tsync, fds, evt, run, spc, seen>>

\* tunnel, gateway, event task, lwip tasks and mapped DNS are created one
\* after the other; on a failure, before or after the socket pair exists,
\* init itself calls fini
InitResources ==
  /\ wpc = "init"
  /\ \/ fds' = "open" /\ evt' = FALSE /\ wpc' = "arm"
     \/ fds' = "open" /\ evt' = FALSE /\ wpc' = "fini"
     \/ UNCHANGED <<fds, evt>> /\ wpc' = "fini"
  /\ UNCHANGED <<tsync, run, spc, seen>>

\* the last statement of init: atomic_fetch_or (&tsync, SYNC_SEND)
Arm ==
  /\ Worker("arm", "run")
  /\ tsync' = tsync \cup {"SEND"}
  /\ UNCHANGED <<fds, evt, run, spc, seen>>

\* run: a stop that was recorded before is consumed and run returns at once
RunStopped ==
  /\ Worker("run", "fini")
  /\ "STOP" \in tsync
  /\ tsync' = tsync \ {"STOP"}
  /\ UNCHANGED <<fds, evt, run, spc, seen>>

\* run: the tasks are scheduled, `run` is set and the task system runs them
RunTasks ==
  /\ Worker("run", "loop")
  /\ "STOP" \notin tsync
  /\ run' = TRUE
  /\ UNCHANGED <<tsync, fds, evt, spc, seen>>

\* the event task reads what was written to the socket pair (the read takes
\* every byte that is there) and clears `run`
EventRead ==
  /\ Worker("loop", "event")
  /\ evt
  /\ evt' = FALSE
  /\ run' = FALSE
  /\ UNCHANGED <<tsync, fds, spc, seen>>

\* atomic_fetch_and (&tsync, ~SYNC_SENT)
EventClear ==
  /\ Worker("event", "drain")
  /\ tsync' = tsync \ {"SENT"}
  /\ UNCHANGED <<fds, evt, run, spc, seen>>

\* the sessions are terminated, the lwip tasks see run = 0 and are joined,
\* and hev_task_system_run returns
Drain ==
  /\ Worker("drain", "fini")
  /\ ~run
  /\ UNCHANGED <<tsync, fds, evt, run, spc, seen>>

\* mutant: fini does not wait for the stopper that is in WAIT
FiniRoundNoWait ==
  /\ Worker("fini", "free")
  /\ tsync' = tsync \ {"SEND", "SENT"}
  /\ UNCHANGED <<fds, evt, run, spc, seen>>

\* mutant: fini clears SENT and forgets SEND
FiniRoundKeepsSend ==
  /\ wpc = "fini"
  /\ tsync' = tsync \ {"SENT"}
  /\ wpc' = IF "WAIT" \in tsync THEN "fini" ELSE "free"
  /\ UNCHANGED <<fds, evt, run, spc, seen>>

\* one round of fini's retry loop: the flags are cleared in every round, and
\* the loop is left in the first one that does not see a stopper in WAIT
FiniRound ==
  /\ wpc = "fini"
  /\ tsync' = tsync \ {"SEND", "SENT"}
  /\ wpc' = IF "WAIT" \in tsync THEN "fini" ELSE "free"
  /\ UNCHANGED <<fds, evt, run, spc, seen>>

\* the rest of fini: everything init created is destroyed
Free ==
  /\ Worker("free", "ret")
  /\ fds' = "closed"
  /\ evt' = FALSE
  /\ UNCHANGED <<tsync, run, spc, seen>>

\* hev_socks5_tunnel_main returns
MainReturn ==
  /\ Worker("ret", "idle")
  /\ UNCHANGED <<tsync, fds, evt, run, spc, seen>>

MainBody ==
  \/ Setup \/ InitResources \/ Arm \/ RunStopped \/ RunTasks
  \/ EventRead \/ EventClear \/ Drain \/ FiniRound \/ Free

-----------------------------------------------------------------------------
(* A stopper: hev_socks5_tunnel_stop *)

Stopper(s, from, to) == spc[s] = from /\ spc' = [spc EXCEPT ![s] = to]

StopCall(s) ==
  /\ Stopper(s, "idle", "acquire")
  /\ UNCHANGED <<tsync, fds, evt, run, wpc, seen>>

\* mutant: the old value of WAIT is not looked at
StopAcquireAnyway(s) ==
  /\ Stopper(s, "acquire", "mark")
  /\ tsync' = tsync \cup {"WAIT"}
  /\ seen' = [seen EXCEPT ![s] = "SEND" \in tsync]
  /\ UNCHANGED <<fds, evt, run, wpc>>

\* the round of the retry loop that finds WAIT clear; a round that finds it
\* set changes nothing
StopAcquire(s) ==
  /\ Stopper(s, "acquire", "mark")
  /\ "WAIT" \notin tsync
  /\ tsync' = tsync \cup {"WAIT"}
  /\ seen' = [seen EXCEPT ![s] = "SEND" \in tsync]
  /\ UNCHANGED <<fds, evt, run, wpc>>

\* mutant: the test of the old SENT bit is the wrong way round
StopSendInverted(s) ==
  /\ spc[s] = "mark"
  /\ seen[s]
  /\ tsync' = tsync \cup {"SENT"}
  /\ spc' = [spc EXCEPT ![s] = IF "SENT" \in tsync THEN "write" ELSE "release"]
  /\ UNCHANGED <<fds, evt, run, wpc, seen>>

\* SEND was set: ask for the byte, and be the one to write it unless another
\* stopper already did
StopSend(s) ==
  /\ spc[s] = "mark"
  /\ seen[s]
  /\ tsync' = tsync \cup {"SENT"}
  /\ spc' = [spc EXCEPT ![s] = IF "SENT" \in tsync THEN "release" ELSE "write"]
  /\ UNCHANGED <<fds, evt, run, wpc, seen>>

\* SEND was clear: leave the stop for the next hev_socks5_tunnel_run
StopRecord(s) ==
  /\ Stopper(s, "mark", "release")
  /\ ~seen[s]
  /\ tsync' = tsync \cup {"STOP"}
  /\ UNCHANGED <<fds, evt, run, wpc, seen>>

\* write (event_fds[1], ...); nothing arrives through a closed descriptor
StopWrite(s) ==
  /\ Stopper(s, "write", "release")
  /\ evt' = (evt \/ fds = "open")
  /\ UNCHANGED <<tsync, fds, run, wpc, seen>>

StopRelease(s) ==
  /\ Stopper(s, "release", "idle")
  /\ tsync' = tsync \ {"WAIT"}
  /\ seen' = [seen EXCEPT ![s] = FALSE]
  /\ UNCHANGED <<fds, evt, run, wpc>>

StopBody(s) ==
  StopAcquire(s) \/ StopSend(s) \/ StopRecord(s) \/ StopWrite(s) \/ StopRelease(s)

-----------------------------------------------------------------------------
(* The library on its own: main may be called again after it returned, and *)
(* any stopper may call quit at any time, as the signal handlers of the    *)
(* stand-alone program do.                                                 *)

SyncNext ==
  \/ MainCall \/ MainBody \/ MainReturn
  \/ \E s \in Stoppers : StopCall(s) \/ StopBody(s)

\* The worker and a stopper that entered stop are threads the operating
\* system keeps scheduling; nobody is obliged to call main or quit.  A
\* stopper in its retry loop sees WAIT clear infinitely often when the other
\* stoppers release it, and sleeps 500 us in between: strong fairness for
\* the acquisition.
SyncFairness ==
  /\ WF_syncVars(MainBody \/ MainReturn)
  /\ \A s \in Stoppers : SF_syncVars(StopAcquire(s)) /\ WF_syncVars(StopBody(s))

SyncSpec == SyncInit /\ [][SyncNext]_syncVars /\ SyncFairness

-----------------------------------------------------------------------------
(* Properties *)

\* A stopper that is about to write the wake-up byte, hev-socks5-tunnel.c:760,
\* finds the socket pair open: fini, which closes it, never overtakes a
\* stopper that saw SYNC_SEND.  Were it not so the byte would go to a closed
\* or, worse, a reused descriptor.
NoWriteAfterClose ==
  \A s \in Stoppers : spc[s] = "write" => fds = "open"

\* WAIT is a lock: two stoppers are never both between taking it and
\* releasing it, hev-socks5-tunnel.c:751-765, so SYNC_SENT and the byte
\* belong together.
WaitIsALock ==
  \A s, t \in Stoppers :
    /\ spc[s] \in {"mark", "write", "release"}
    /\ spc[t] \in {"mark", "write", "release"}
    => s = t

\* The inductive strengthening of the two invariants above: who holds WAIT,
\* in which part of the worker's life SEND is up, and that a stopper that saw
\* SEND pins the worker at fini or before it, with the socket pair open.
Holding == {"mark", "write", "release"}
Armed == {"run", "loop", "event", "drain", "fini"}

HolderHasWait == \A s \in Stoppers : spc[s] \in Holding => "WAIT" \in tsync
SendWhileArmed == "SEND" \in tsync => wpc \in Armed /\ fds = "open"
OpenWhileUp == wpc \in {"arm", "run", "loop", "event", "drain"} => fds = "open"
SeenPinsWorker ==
  \A s \in Stoppers :
    /\ spc[s] = "write" => seen[s]
    /\ spc[s] \in {"mark", "write"} /\ seen[s] => wpc \in Armed /\ fds = "open"

SyncInv ==
  /\ SyncTypeOK
  /\ WaitIsALock
  /\ HolderHasWait
  /\ SendWhileArmed
  /\ OpenWhileUp
  /\ SeenPinsWorker

\* A stop that saw SYNC_SEND is not lost: once the flag SENT is up while
\* the tunnel loops, the loop is left.
SentEndsLoop == (wpc = "loop" /\ "SENT" \in tsync) ~> (wpc # "loop")

\* hev-main.h:64-66 of hev_socks5_tunnel_quit: "Stop the socks5 tunnel."  A
\* stop called while main is on its way ends that main.
QuitStopsTunnel ==
  \A s \in Stoppers :
    (spc[s] = "acquire" /\ wpc \notin {"idle", "ret"}) ~> (wpc \in {"idle", "ret"})

=============================================================================
