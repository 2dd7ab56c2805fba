# NetSelect-Proxy: a TLA+ verification project

NetSelect-Proxy is an Android proxy client (the v2rayNG code base) around the
Xray core, a Go library, and hev-socks5-tunnel, a C library that turns the
packets of a tun device into SOCKS5 connections.  This directory models the
parts of it where threads, processes and native libraries meet: how the tunnel,
the core and the Android services that own them are started, stopped,
restarted, and reloaded when the network changes; how several processes work
on one store of profiles; how a latency test, its answers and its cancellation
travel between the screen and a process of its own; and the address cache of
the tunnel's DNS.

`K` below stands for `src/v2rayNG/V2rayNG/app/src/main/java/com/v2ray/ang`,
`H` for `src/v2rayNG/hev-socks5-tunnel/src`, `G` for
`src/v2rayNG/AndroidLibXrayLite`.

## 1. Inventory

| Component | State it keeps | Operations | What is hard about it |
|---|---|---|---|
| Tunnel (`H/hev-socks5-tunnel.c`, `H/hev-main.c`) | atomic `tsync`, socket pair `event_fds`, flag `run`, tasks, sessions | main, quit | quit on any thread, at any point of init, run and fini; descriptors closed under a writer |
| JNI layer (`H/hev-jni.c`), `K/service/TProxyService.kt` | `mutex`, `is_running`, `thread_joinable`, `work_thread` | start, stop, is-running, stats | a worker that ends by itself; joins with the mutex held |
| Mapped DNS (`H/hev-mapped-dns.c`) | tree, list and records of names and addresses | handle a request, lookup | replacement at the limit, within a request; the order a lookup refreshes |
| Core service manager (`K/core/CoreServiceManager.kt`) | the controller, `serviceControl`, `isReloading`, `networkMonitor`, the receiver, the dialer | startCoreLoop, stopCoreLoop, reloadCore, connection test, statistics | runs on main, IO and Default threads; stops asynchronously; no lock |
| Network monitor (`K/service/NetworkMonitor.kt`) | `upstream`, `handoverJob`, `registered` | register, unregister, onAvailable | connectivity thread against main thread; debounce; cancellation |
| Go core controller (`G/libv2ray_main.go`) | `IsRunning`, `coreInstance`, `statsManager`, `coreMutex` | StartLoop, StopLoop | unlocked reads; what a failed start leaves |
| Launcher (`K/core/LauncherManager.kt`) | none | start, stop, restart | the service may already run, or be on its way down |
| Proxy only service (`K/service/CoreProxyOnlyService.kt`) | none of its own | onCreate, onStartCommand, onDestroy | start commands to a running or dying service |
| Root service (`K/service/CoreRootService.kt`, `K/root/RootProxyManager.kt`, `K/root/RootShell.kt`) | `setupJob`, the device's routing rules | the same, and the setup coroutine | rules must neither outlive nor miss the core |
| VPN service (`K/service/CoreVpnService.kt`, `K/root/RootLanSharing.kt`) | tun interface, start lock, tunnel service, sharing | the same, onRevoke | the stop sequence runs on three threads; starts by the system |
| Profile store (`K/handler/MmkvManager.kt`, `AngConfigManager.kt`) | payloads, group lists, selected profile, a lock across processes | save a batch, edit, remove, sort, select, clean up | several processes, a lock that not every operation takes, processes that die, files that get damaged |
| Latency tests (`K/service/CoreTestService.kt`, `RealPingWorkerService.kt`), main screen (`K/ui/main/MainViewModel.kt`, `MainTestRequests.kt`) | batches and the requests they answer; the request the screen waits for, queued results, the flush job | test all, cancel, result, finish | two processes; late answers; a service that stops itself |
| Subscription update (`K/service/SubscriptionUpdateService.kt`) | task counter, semaphore | start, cancel | stopSelf against a new start |
| Configuration, share links, settings, UI, backup, update check | documents | build, parse, show | sequential |

Calls go from the services to the manager, from it to the controller, and in
VPN mode from the service through the JNI layer to the tunnel.  Callbacks go
back from the connectivity service to the network monitor and from it, after a
debounce on an IO thread, to `reloadCore`.  Requests of the user reach the
daemon process as start commands or as broadcasts that a receiver, registered
by `startCoreLoop`, handles on the main thread.  The screen, the daemon, the
subscription update and the latency tests share the profile store; the screen
starts the latency tests as a service of another process and hears from them
by broadcast.

What makes each part correct, in a sentence: the tunnel never writes to a
descriptor it closed, and a stop ends it; there is at most one worker, joined
once; service and core come and go together; an announced handover moves the
core to the new network; routing rules exist exactly while a service that
needs them is up; no interface is left without a core behind it; what a list
shows can be used, nothing leaves it unasked, and what is selected stays; an
answer belongs to the test that asked; an address leads to the name it was given for.  `PROJECT.json`
lists the hazards line by line with the properties that would catch them.

## 2. Modules

```
TunnelSync  <-EXTENDS- TunnelJni -implements-> TunnelService <-INSTANCE- VpnService
CoreService <-EXTENDS- ServiceHost <-EXTENDS- ProxyService, RootService, VpnService
                                   <-EXTENDS- RunModes
ProfileStore <-EXTENDS- MCProfileStore
LatencyTest      MappedDns
X_proofs EXTENDS X and TLAPS, for X in
  TunnelJni (with the theorems of TunnelSync), ServiceHost, RootService, VpnService,
  RunModes (with those of ProxyService), ProfileStore, MappedDns, LatencyTest
ServiceHost_proofs <-EXTENDS- RootService_proofs, VpnService_proofs <-EXTENDS- RunModes_proofs
```

**TunnelSync** is the start/stop protocol of the C library.  `tsync` is the set
of its flags, and each atomic read-modify-write of the code is one action:
`Arm` (hev-socks5-tunnel.c:687), `RunStopped` and `RunTasks` (725), `EventClear`
(294), `FiniRound` (702), `StopAcquire` (751), `StopSend` (758), `StopRecord`
(762), `StopRelease` (765).  `StopWrite` is the write of the wake-up byte and
`EventRead` the read.  Initialisation may fail before or after the socket pair
exists.  The lwIP tasks and sessions are the worker resting in `"loop"` and
`"drain"`.

**TunnelJni** puts `hev-jni.c` around it.  Java threads take the mutex and
run `StartCheck`, `StartJoin`, `SetRunning`, `Create` (the flag is set before the
thread exists, and taken back if it cannot be created), or `StopCheck`, `Quit`,
`StopJoin`; the
worker thread runs the library's main and then clears `is_running`, without the
mutex.  The statements of quit are those of `TunnelSync`.

**TunnelService** is what the Java side may rely on: one tunnel that is off, up,
or over (ended, nobody collected it yet), calls one at a time, and a stop that
returns with no tunnel left.  `TunnelJni` implements it under the refinement
mapping at its end; `VpnService` uses its steps `StartTun`, `ReapTun`, `StopTun`
and `EndTun` for the calls of `TProxyService`.

**CoreService** has the operations of the manager, with the controller and the
network monitor, over the variables they share.  A launch (`BuildConfig`,
`StartLoop`, `FinishLaunch`) runs either on the main thread, in `startCoreLoop`,
or in a handover job, in `reloadCore`; `pc` says where each is.  Data is
abstracted to what the properties tell apart: a configuration is the network
it was resolved on.  `stops` counts the coroutines `stopCoreLoop` launched that
have not run yet.

**ServiceHost** is what the run modes share: Android's record of the service
(`alive`), the callbacks on their way to the main thread (`calls`), the object
`serviceControl` points to (`self`), the requests of the user and the coroutine
of a restart.  Android is external and modelled as far as the code depends on
it: callbacks arrive in order, `stopSelf` of an object that is gone does
nothing, a start request for a live service reaches the same object.

**ProxyService** adds the destructor that only stops the core.  **RootService**
adds the setup coroutine and the destructor that cancels it, waits for it,
removes the rules and then stops the core.  Every setup ever launched stays
in `setup`, because `setupJob` of a service object only points to its last.

**VpnService** adds the interface, the tunnel, LAN sharing and the start lock.
`onStartCommand` is a sequence of steps on the main thread (`StartCommand`,
`SetupVpn`, `Establish`, `RunTun2socks`, `StartService`, `StartServiceReturned`),
`stopAllService` one of eight on whichever of the three threads `vpc` says; the
test and the clearing of `lanSharingStarted` are two of them.
Interface, lock, `isRunning` and `tun2SocksService` belong to a service object
and are functions of it; the tunnel and the sharing are the process's.  `forgotten`
records that a start set `tun2SocksService` to null while the tunnel was up.

**RunModes** is the daemon: the run mode is a setting read at a start, every
step is one of the service of that mode (`ProxyStep`, `RootStep`, `VpnStep`), and
the variables of the modes not chosen stay as they are.

**ProfileStore** has every operation of `MmkvManager` on payloads, group lists
and the selection.  The operations under the profile index lock
(`saveServerProfiles`, `encodeServerConfig`) take one step per write, those that
read a list without it (`removeServer` and its likes, the sort of a group, the
drag in a list) one for the read and one for each write, and `WriteBack` writes
what was read, however much the list has changed since.  An editor too reads its
profile early (`EditRead`) and saves it late, when it may be gone.
`setSelectServer` selects whatever a screen still shows (`listed`).  A payload is
the group it names, or `None` if there is none: an edited or late list may leave
a profile on the list of one group with a payload that names another.  `Abort`
cuts an operation off between two steps, because its process dies or a checked
write throws, and `Damage` loses an index or leaves it unreadable, as a recovery
of the underlying file may.  `asked` and `revived` are history variables: the
profiles somebody asked to remove, and those a late write put back on a list
when their payload was gone.  **MCProfileStore** adds the symmetry.

**LatencyTest** has the main thread of the app (requests, queued results, the
flush loop and the finish job that replaces it), the system's record of
`CoreTestService` with the calls queued for it, and the threads of every batch.
A batch tests whether it is still registered and only then sends; in between
it may be cancelled.  A batch that finishes removes itself, looks whether it was
the last (`FinishCheck`) and then stops the service, in three steps.

**MappedDns** has the cache of `hev-mapped-dns.c`, with the list as what comes
behind each node, and requests of several questions.  `others` is a history
variable: the names used since a name was last used.

## 3. Runs

Passing runs:

| Run | Instance | Shows |
|---|---|---|
| `sync_safe` | 3 stoppers, main called again and again | `NoWriteAfterClose`, `WaitIsALock`, the inductive `SyncInv`; `SentEndsLoop` under fairness |
| `jni_safe` | 2 Java threads, unbounded starts and stops | one worker, joined once (`SpawnIsSafe`, `JoinIsSafe`), `RunningWhileUp`, the inductive `JniInv`; `StartReturns`; the refinement `ImplementsTunnel` |
| `modes_safe` | each run mode; either 3 start requests with restarts and, in VPN mode, starts by the system and revocations, or 1 start with 2 network changes (1 in VPN mode), 3 networks, 2 jobs; launches, scripts, interfaces and tunnels that fail anywhere | all modes: `HandoverServed`, `NothingLeftBehind`, `ReloadEnds`, the inductive `HostInv` and, while the network has not changed (`Calm`), `CalmNoOrphanCore`, `CalmCoreIsReachable`, `CalmServiceHasCore`; root mode: `NoRulesWithoutService`, `RulesMatchCore`, `RulesGoFirst` and the inductive `RootInv`; VPN mode: `CalmLockMeansUp`, `CalmVpnLeavesNothing`, `FdOutlivesTunnel`, `SharingGoesFirst` |
| `store_safe` | 2 actors, 3 profiles in 2 groups, any operation cut off anywhere, 2 unlocked reads or damaged indexes | `ListedHavePayload`, `SelectionIsSpared`, `DamageKeepsPayloads`, the inductive `StoreInv` |
| `latency_safe` | 2 tests of 2 profiles, one of which may fail, 1 tap on the notification | `TestEndsItsOwnWay`, `NoStrayBatch`, `TestKeepsItsService`, `LatencyInv`; `TestingEnds`, `ServiceEnds` under fairness |
| `dns_safe` | 5 names, 3 addresses, requests of up to 3 questions | `NameKept`, `AnswersHold`, `DnsInv` |

Runs that TLC refutes, each with a finding in `PROJECT.json`:

| Run | Refuted | What happens |
|---|---|---|
| `sync_quit` | `QuitStopsTunnel` | quit reads `tsync` before init sets SYNC_SEND and records SYNC_STOP after run has tested it: the stop is lost and the tunnel loops |
| `jni_stale` | `StopIsForThisRun` | a stop between the end of main and `is_running = 0` leaves SYNC_STOP behind, and the next tunnel returns at once |
| `proxy_restart` | `RestartRestores` | the old core is still running when the restarted service gets its start command, which therefore does nothing; then the core stops |
| `proxy_orphan` | `NoOrphanCore` | a stop in the middle of a reload finds no core to stop; the reload then starts one that no service owns |
| `root_overlap` | `NoRulesWithoutService` | a start command during a reload launches a second setup and forgets the first, which installs its rules after the teardown |
| `store_lost` | `ListsLoseNothing` | a sort reads a list, an update publishes a new one, the sort writes the old one back: the profiles just saved are in no list |

The larger ones, with two workers: `modes_safe` has 300,000 states (1 minute),
`latency_safe` 480,000 (3 minutes), `store_safe` 650,000 up to symmetry (40
seconds).  The rest take seconds.

### What the models show besides

- `HandoverServed` speaks of handovers that `reloadCore` did not refuse.  It
  refuses one while another reload is under way (CoreServiceManager.kt:256), and
  nothing takes it up again, so the core may stay on a configuration of the
  previous network.
- In root mode a reload that fails leaves the service up and the rules in place
  with no core behind them (CoreServiceManager.kt:272).  `RulesMatchCore` is
  therefore stated without network changes.
- VPN mode, each found by TLC in a stronger form of a property that now excepts
  it.  With two stoppers at once the second finds `lanSharingStarted` cleared and
  stops the core while the shared rules are still there (RootLanSharing.kt:43);
  `SharingGoesFirst` is about one stopper.  A start by the system while the
  service is up closes the old interface under the running tunnel
  (CoreVpnService.kt:81, 176-178) and then takes everything down because a core
  runs; `FdOutlivesTunnel` excepts the close in `SetupVpn`.  If such a start finds the
  tunnel switched off in the settings, or cannot load its library or write its
  configuration, it sets `tun2SocksService` to null although a tunnel is up
  (311-334); no stop reaches that tunnel any more, and both `FdOutlivesTunnel` and
  `CalmVpnLeavesNothing` except it (`forgotten`).  With slow stops, a
  start command whose setup fails, followed by one already queued that succeeds,
  ends with `onDestroy` closing the interface while core and tunnel run on
  (62-71); `CalmVpnLeavesNothing` is checked, and proved, with prompt stops.
- A list that is written back late does more than lose what was published in
  between (`store_lost`).  It puts back profiles a batch has replaced, whose
  payloads are gone: `ListedHavePayload` excepts them (`revived`), until a batch or
  an edit saves them again.  And a tap on a profile that was removed meanwhile
  selects it all the same (MmkvManager.kt:183-187): that the selected profile has
  a payload is not a property of this code.  What is true is
  `SelectionIsSpared`, no batch and no clean-up takes the payload of the profile
  selected at that moment, which the lock alone guarantees: a batch decides at
  its first step what it will spare.
- A test never shares its service instance with an earlier one, because
  `testAllRealPing` begins with `stopService`.  That is why the `stopSelf()` of a
  finishing batch, which names no start (CoreTestService.kt:178), cannot hit the
  next test: `TestKeepsItsService`.  The tap on the notification is the
  exception: aimed at one test, it may reach the next.
- `SubscriptionUpdateService` has no such protection: its `stopSelf()` at a task
  counter of 0 (line 107) races a start that was delivered and has not counted
  yet.

### Bounds

Every bound is a constant: `MaxStarts` (start requests), `MaxChanges` (network
changes), `MaxHazards` (unlocked reads and damaged indexes), `MaxTests`,
`MaxTaps`, `MaxQuestions`; the sets
`Stoppers`, `Networks`, `Jobs`, `Actors`, `Groups`, `Guids`, `Names` and the
cache size `Max` are the other sizes.  A restart request is taken while none is
under way (guard of `UserRestart`), and a handover finds a free job.

- Three stoppers: one holds WAIT, one is in the retry loop, and a third arrives;
  more only add equal ones.
- Two Java threads: one inside with the mutex, one waiting.  The worker's
  races are with whoever is inside.
- Three start requests: start, restart and start again, so that a service, its
  successor and a start command to a dying service meet in one behaviour.
- Two network changes, three networks and two jobs: a job that waits is replaced,
  a job that runs is overlapped by another, and the device may go to a third
  network.
- `Overlap`, FALSE in `modes_safe`: several starts and network changes do not meet
  in one behaviour (`Apart` in `RunModes`).  That they can do harm is
  what `proxy_orphan` and `root_overlap` show, which are runs of the services
  without that bound.
- Three profiles in two groups: a list that loses one profile and keeps another,
  a replaced selection, a payload of one group that another group lists (its
  profile was moved by a late edit, or revived).  Two actors, as every lost update
  is one between two; two hazards, so that an index is damaged while a list that
  was read before waits to be written, or two such lists are on their way.
  `store_lost` needs one.
- Two tests: an old one, with all its late answers, and a new one.  Two profiles,
  so that a batch has results before and after any event.
- Five names on three addresses: a full cache with a name to replace and one to
  ask for again.

### Fairness and deadlock

Threads that have something to do get to do it: weak fairness for the worker,
for a thread inside start or stop, for the main threads, for each coroutine and
batch, and for the delivery of broadcasts.  Acquiring WAIT gets strong fairness,
because the retry loop sleeps 500 µs and finds the flag clear infinitely often
when the others release it.  Users, the network and callers of start and stop
owe nothing, and no operation on the store has to be finished.

The services may come to rest (nobody asks for anything, or the bound is
reached), so their runs switch the deadlock check off; so do the store and the
latency tests.  So do the runs of `TunnelJni`: when a stop is lost, the stopper
waits for the worker with the mutex held and the tunnel waits for traffic, for
ever, which is `sync_quit` seen through the JNI layer.  `TunnelSync` and
`MappedDns` are checked for deadlock.

### Assumptions

- `StartLoop` and `StopLoop` of the controller are single steps; one mutex
  covers each.  `IsRunning` is already set while the core starts, so that a
  reader may see the new value a little early: a stop that does waits for the
  mutex and finds the core up, and a start command that does returns as it would
  after.
- The tests at the head of `reloadCore` and `isReloading = true` are one step,
  since two handover jobs are a debounce of a second apart.  So are the two
  `isRunning()` tests at the head of `onStartCommand` and `startCoreLoop`.
- `PromptStop`, a constant: what a stop launched has run before the next start
  command is handled, and a restart's half second is enough for the service to
  be destroyed; in VPN mode also, one request of the user is served before the
  next, a stop does not begin while a start command is handled or waits, and when
  the permission is found lost, the revocation that took it is over and has
  closed the interface (guard of `SetupVpn`).  Otherwise the failed setup only
  calls `stopSelf()` (CoreVpnService.kt:91-94), core and tunnel run on until the
  `stopAllService` of `onRevoke`, and an `onDestroy` that comes first closes the
  interface under the tunnel.  `proxy_restart` drops the assumption.  The
  invariants of the proxy only and the root service by themselves
  (`ProxyInvariance`, `RootInvariance`) are proved without it, those of the VPN
  service and of `RunModes` have it as a hypothesis.
- `SystemStarts`: the system may start the VPN service whenever the user may.
  `TRUE` in `modes_safe`.
- The network changes again only after the last change was delivered.
- A soft reference to a service that lives is not cleared; Android is API 28
  or later, so that the monitor is in use.
- A teardown script does its work.  A setup script may fail at any point.
- MMKV's single reads and writes are atomic, and its lock is free when its
  holder dies.  The get-and-remove of the selection in the removals is one step.
- The process of the latency tests does not die, and a foreground service that
  is stopped before it has called `startForeground` does not take it down.
- A DNS request holds no more names than the cache (`MaxQuestions <= Max`).
  The code allows 32 questions and any cache size; with a smaller cache
  `AnswersHold` fails within one request.  `MappedDns` describes the library: the
  configuration the app writes for its tunnel has no `mapdns` section
  (TProxyService.kt:64-110), so that the app as it stands does not use it.

## 4. Proofs

| Theorem | Says | For every |
|---|---|---|
| `SyncInvariance`, `NoWriteAfterCloseHolds`, `WaitIsALockHolds`, `SyncTypeCorrect` | `SyncSpec => []SyncInv` and its consequences | set of stoppers |
| `JniInvariance`, `SpawnIsSafeHolds`, `JoinIsSafeHolds`, `RunningWhileUpHolds` | `Spec => []JniInv` and its consequences | set of Java threads |
| `JniRefinesSync` | the JNI layer is a behaviour of the protocol on the protocol's variables (safety part) | set of Java threads |
| `JniImplementsTunnel` | `TunnelJni` implements `TunnelService` | set of Java threads |
| `ProxyInvariance`, `ProxyTypeCorrect`, `NothingIsLeftBehind` | `ProxySpec => []HostInv` and its consequences | networks, jobs, bounds, `PromptStop` or not |
| `RootInvariance`, `RootTypeCorrect` | `RootSpec => []RootInv` and its consequence | the same |
| `VpnInvariance`, `VpnHostInvariance` | `VpnSpec => []VpnInv` and `[]HostInv` | networks, jobs, bounds, starts by the system or not; prompt stops |
| `RunModesInvariance`, `ModesHostInvariance`, `ModesLeaveNothing`, `ModesRootInvariance` | in any run mode, `Spec => []RunModesInv` and, from it, `HostInv`, `NothingLeftBehind`, `RootInv` | networks, jobs, bounds, overlapping or not; prompt stops |
| `NoCoreIsOrphaned`, `CoreStaysReachable`, `ServiceKeepsCore`, `RulesAndCoreMatch`, `LockTakenMeansUp`, `VpnTakesAllDown` | `CalmNoOrphanCore`, `CalmCoreIsReachable`, `CalmServiceHasCore`, `RulesMatchCore`, `CalmLockMeansUp`, `CalmVpnLeavesNothing` | the same, any number of starts and restarts |
| `TunnelGoesFirst`, `SharingIsGoneFirst` | the action properties `FdOutlivesTunnel`, `SharingGoesFirst` | the same, network changes included |
| `HandoversAreServed`, `NoRulesOutliveService`, `RulesAreGoneFirst` | `HandoverServed`, `NoRulesWithoutService` and the action property `RulesGoFirst` | networks, jobs, bounds; prompt stops, and several starts and network changes do not meet (`~Overlap`) |
| `StoreInvariance`, `ListedHavePayloadHolds`, `SelectionIsSparedHolds`, `DamageKeepsPayloadsHolds` | `Spec => []StoreInv`, the invariant in it and the action properties `SelectionIsSpared` and `DamageKeepsPayloads` | actors, groups, profiles, damages and late writes |
| `LatencyInvariance`, `ScreenInvariance`, `NoStrayBatchHolds`, `TestKeepsItsServiceHolds`, `TestEndsItsOwnWayHolds` | `Spec => []LatInv` and its consequences | profiles, tests, taps |
| `DnsInvariance`, `AnswersHoldAlways`, `NameKeptAlways` | `Spec => []DnsInv` and its consequences | names, cache size, questions (at most the cache size) |

*SyncInv.*  `NoWriteAfterClose` is not inductive: one has to know why fini cannot
close the pair.  `SeenPinsWorker` says it: a stopper that saw SYNC_SEND pins the
worker at fini or before, with the pair open.  It is preserved by `FiniRound`
because the holder's WAIT is in `tsync` (`HolderHasWait`), and established by
`StopAcquire` because SYNC_SEND is only up while the worker is armed
(`SendWhileArmed`).

*JniInv.*  The mutex makes what one thread has read stay true for the flags that
only start and stop change; the worker changes `is_running` and its own state
without it.  `RunningIsCreated` and `JoinerWaits` relate the two: a set flag means
a worker that has not ended, or a start about to create one
(`CreatorIsRunning`), and a start that is about to join one knows that
it is past its main.  `WorkerInMain` ties the protocol below to the one worker
thread, which gives `JniRefinesSync`.  `JniImplementsTunnel` maps the worker to
`tun` (up from its creation to its end, over until somebody joins it) and a
thread's program counter to `pend`; every step is then a step of `TunnelService`
or a stutter, by `JniInv` for the steps that join.

*HostInv.*  That nothing is left behind when no record is alive needs a look
at the callbacks still queued: a start handled after the last destroy would
register a receiver for ever.  `LastCallDestroys` excludes it.

*RootInv* adds `JoinedIsDone`: past the wait of the destructor the setup it
waited for has ended.  That no *other* setup is left is false when starts and
reloads meet (`root_overlap`), so `NoRulesWithoutService` follows only without an
overlap, from `SetupIsOwned` below.

*VpnInv.*  Three threads may be in `stopAllService` at once, each on its own
stage.  `PastStages` says what a thread that is past a stage can rely on, that
is, what no other thread undoes: flags cleared, tunnel down, sharing off, core
told to stop.  It is only preserved because a start is alone (`StartAlone`) and
every stopper works on the object the record points to (`StoppersOwn`), which is
where prompt stops are needed.  `TunnelServes`, `SharingServes` and `OpenIsOwned`
tie tunnel, sharing and interface to that object; `SomeoneUnshares` says that
while the sharing is being taken down some thread is at it, which makes a second
stopper the only exception of `SharingGoesFirst`.

*RunModesInv* is `ModesInv`, the mode that runs keeps its own invariant and the
state of the others is the initial one, `ApartSoFar`, the bound `Apart` as a fact
of states, and `ModesKept`, what each mode keeps besides:

- `HostKept` (proxy only and root).  `CallsLinked`: each callback in the queue
  goes to the object its predecessor went to, except that a create follows a
  destroy.  So a service that has seen its last callback is known to be gone, and
  `GoneIsSilent`: its receiver is not registered and no start is under way.
- `CalmCore`: while the network has not changed no handover exists
  (`NoHandover`), only the start on the main thread brings a core up, and with a
  core that nobody was told to stop there is a receiver (`StartOwnsCore`) and the
  UI knows (`UiKnows`).  With `Served`, a service at rest has its core, it gives
  the three calm properties about cores.
- `OneStart`: as long as the service was started once, `ReloadAlone`,
  `AnnouncedIsSeen`, `StartBeforeHandovers` and `HandoverAtWork`.  The last is the
  reason for `HandoverServed`: an announced network that is still the upstream
  either has a job that has yet to resolve the configuration, or has had it
  resolved.  It is preserved by a job that gives up only because a failure or a
  refusal is recorded.
- `RootKept` adds `SetupIsOwned`, the only setup that is not done belongs to the
  service that is up or is the one its destructor waits for; `RulesGoWithCore`,
  rules and core go together while no reload meets them; and `NoSetupYet`.
- `VpnKept` adds `CalmVpn`, who registered the receiver has a core or is at work
  on it, and a start lock that is taken belongs to a service that is up or comes
  up; and `NothingBeforeStart`.

*StoreInv.*  That a listed profile has its payload needs what a batch has already
written and what it will keep: `SaveInv` carries, per program counter, that the
payloads written so far are there, that the new selection is one of the batch,
that the list it published can be read and holds nothing it will remove, and
that the selection spared at the end is the one decided on at the beginning, or
none any more.  All of it holds because lists, payloads and the selection are
written with the lock held (`LockIsHeld`), except by removals, and `RemoveInv`
says that these only touch what somebody asked to remove.  The spared selection gives `SelectionIsSpared`, the
readable list `DamageKeepsPayloads`.

*LatInv.*  `NoStrayBatch` speaks of the destroy that is on its way to a batch, so
the invariant has to say that the queue of `:tasks` is in order: an instance with
a call in it is up or doomed (`QueueInv`), nothing follows its destroy, and a
start that waits is for a batch that has not begun (`StartInv`).  That even
`LatencyInv` is not inductive by itself shows at the end of a test: `bulk` may
only be reset when nothing is being prepared for it, and that is because a finish
or a cancel on its way is for a batch that is through, or will never begin
(`ReplyInv`).  For `TestEndsItsOwnWay`, `JobInv` follows every result a batch told
from the broadcasts to the queue of the screen and to what it shows, and no
result comes after its finish.  Without a tap every test has an instance of its
own (`NoTapInv`), so that an earlier batch can only stop its own.

*DnsInv.*  `RecordsMatch` makes tree and records inverse, and its cardinality
conjunct makes the list non-empty when the cache is full.  `ListInOrder` equates
what is behind a node with what was used since, so that the head of the list,
which is replaced, has all `Max - 1` others behind it; hence `NameKept`.  For
`AnswersHold` the invariant says that the names of the answers are among the
last ones used, of which there are fewer than `Max` while a question is left.

The proofs of `ServiceHost_proofs` are in two parts.  Lemmas per operation show
that it keeps the types and `HostInv`.  For what the modes keep besides, a step
of a service is first reduced to what it does to the manager (`ManagerStep`), to
the queue of callbacks (`QueueStep`) and to both (`HostStep`); the conjuncts of
`HostKept` are shown to be preserved by every such step, and each service module
shows that its own steps are such steps.  The assumptions on constants are the
named ones: `CoreServiceAssumption`, `ServiceHostAssumption`, `OverlapAssumption`,
`JniAssumption`, `ProfileStoreAssumption`, `DnsAssumption`, `LatencyAssumption`.

The hypotheses `PromptStop` and `~Overlap` are the values `modes_safe` checks; the
theorems extend what it checks to every set of networks and jobs and to every
number of starts and network changes.  None of the restrictions is there for the
proof: `proxy_restart` refutes `RestartRestores` with slow stops, `proxy_orphan`
refutes `NoOrphanCore` once the network changes (hence `Calm`), and
`root_overlap` refutes `NoRulesWithoutService` when starts and reloads meet.

Only model-checked: the liveness properties `SentEndsLoop`, `StartReturns`,
`ReloadEnds`, `TestingEnds` and `ServiceEnds`, because the prover has no rules for
fairness here.  Every other property of a passing run is a theorem.

## 5. Not modelled

- The Go controller's fields behind `StartLoop`: a core that fails to start
  leaves `coreInstance` and `statsManager` set (libv2ray_main.go:170), which only
  the statistics and the latency measurement read, without the mutex.
- The service of the subscription update: what it does to the store is in
  `ProfileStore`, but nothing says what an update that is stopped owes anybody,
  so a model of its counter would have no property to check.
- The measurement of a latency, the CDN address optimiser: sockets and timings.
- The dialers: only their failure inside a reload matters here, which is the
  constant `DialerMayFail`.
- The uplink monitor of root mode that refreshes the tethering rules, and the
  text of all scripts.
- In the mapped DNS, the packets themselves and the network part of an address:
  a lookup ignores it (hev-mapped-dns.c:267), so that any address whose host part
  is below the cache size is turned into a name.  The cache is empty after a
  restart of the tunnel, while clients may hold on to addresses.
- The data path on lwIP (I/O and third-party code), the ring buffer (one task,
  sizes checked by its callers), the construction of configurations and the
  parsing of share links (sequential string work), screens, notifications, backup
  and update check, the vendored libraries, `ip-proxy-app` and `scratch`.
