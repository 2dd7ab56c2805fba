---------------------------- MODULE LatencyTest ----------------------------
(***************************************************************************)
(* The latency tests of the main screen.  Three parties: the main thread   *)
(* of the app (MainViewModel with MainTestRequests), the system's service  *)
(* records, and the process :tasks, where CoreTestService runs one batch   *)
(* (RealPingWorkerService) per request on threads of its own.  Requests go *)
(* through startForegroundService and stopService, which the system turns  *)
(* into a queue of calls for the main thread of :tasks; answers come back  *)
(* as broadcasts, in order.                                                *)
(***************************************************************************)
EXTENDS Naturals, Sequences, SequencesExt

CONSTANTS Guids,     \* the profiles a test measures
          Throwing,  \* those whose measurement may throw
          MaxTests,  \* bound: tests the user starts
          MaxTaps    \* bound: taps on the notification's cancel action

ASSUME LatencyAssumption == Throwing \subseteq Guids /\ MaxTests \in Nat \ {0} /\ MaxTaps \in Nat

VARIABLES
  begun,    \* tests begun so far: the id of the newest
  bulk,     \* MainTestRequests.bulk: the test the screen waits for, or 0
  launch,   \* bulkTestJob: the test whose start is still being prepared, or 0
  pending,  \* pendingTestResults, each with the test it was queued for
  shown,    \* results the screen shows
  flush,    \* testResultFlushJob
  up,       \* the system's service record: the instance starts go to, or 0
  created,  \* instances created so far
  calls,    \* what the system has queued for the main thread of :tasks
  batch,    \* the batch of every test
  replies,  \* broadcasts on their way to the screen
  taps      \* taps so far

screen == <<begun, bulk, launch, pending, shown, flush>>
system == <<up, created, calls>>
vars == <<screen, system, batch, replies, taps>>

Tests == 1..MaxTests
NoJob == [what |-> "none", test |-> 0, pc |-> "done"]
NoBatch == [inst |-> 0, active |-> FALSE, left |-> {}, sending |-> {},
            told |-> {}, end |-> "none"]

Init == /\ begun = 0 /\ bulk = 0 /\ launch = 0
        /\ pending = {} /\ shown = {} /\ flush = NoJob
        /\ up = 0 /\ created = 0 /\ calls = <<>>
        /\ batch = [t \in Tests |-> NoBatch]
        /\ replies = <<>> /\ taps = 0

-----------------------------------------------------------------------------
(* The system's side: starts, stops and the instance they are for *)

\* A start reaches the running instance, or one created for it.
StartOf(what, test) ==
  LET inst == IF up = 0 THEN created + 1 ELSE up
  IN  /\ up' = inst
      /\ created' = IF up = 0 THEN inst ELSE created
      /\ calls' = Append(calls, [what |-> what, inst |-> inst, test |-> test])

\* stopService and stopSelf: the record goes, the instance is destroyed later.
\* A stop by an instance that has lost its record does nothing.
StopIn(queue, inst) ==
  /\ UNCHANGED created
  /\ IF inst # 0 /\ inst = up
     THEN /\ up' = 0
          /\ calls' = Append(queue, [what |-> "destroy", inst |-> inst, test |-> 0])
     ELSE UNCHANGED up /\ calls' = queue

Reply(what, test, guid) == [what |-> what, test |-> test, guid |-> guid]
Say(set, what) == [i \in 1..Len(SetToSeq(set)) |-> Reply(what, SetToSeq(set)[i], "all")]

-----------------------------------------------------------------------------
(* The main thread of the app *)

\* As DropAll below, leaving the service to the next test.
DropAllServiceStays == pending' = {} /\ flush' = NoJob /\ UNCHANGED system

\* cancelAllPing: the preparing coroutine, the test, its queued results and
\* the flush are dropped, and the service is stopped if it is up.  What it has
\* in common with the beginning of a test:
DropAll == /\ pending' = {} /\ flush' = NoJob
           /\ StopIn(calls, up)

\* As CancelAllPing, forgetting the preparing coroutine.
CancelAllPingLaunches == /\ bulk' = 0
                         /\ DropAll
                         /\ UNCHANGED <<begun, launch, shown, batch, replies, taps>>

CancelAllPing == /\ bulk' = 0 /\ launch' = 0
                 /\ DropAll
                 /\ UNCHANGED <<begun, shown, batch, replies, taps>>

\* testAllRealPing: the results shown are reset, a new request begins, and
\* the coroutine that will start the service is launched.
TestAllRealPing ==
  /\ begun < MaxTests
  /\ begun' = begun + 1
  /\ bulk' = begun + 1 /\ launch' = begun + 1
  /\ DropAll
  /\ shown' = {}
  /\ UNCHANGED <<batch, replies, taps>>

\* The coroutine is through: the start is sent, or refused by the system, and
\* then the refusal is broadcast as a cancel.
Launch ==
  /\ launch # 0
  /\ launch' = 0
  /\ \/ StartOf("start", launch) /\ UNCHANGED replies
     \/ replies' = Append(replies, Reply("cancel", launch, "all")) /\ UNCHANGED system
  /\ UNCHANGED <<begun, bulk, pending, shown, flush, batch, taps>>

\* As OnResult, for a result that is not asked whose test it belongs to.
OnResultAnyTest(reply) ==
  /\ UNCHANGED <<bulk, shown>>
  /\ pending' = pending \cup {<<reply.test, reply.guid>>}
  /\ flush' = IF flush.what # "none" THEN flush
              ELSE [what |-> "flush", test |-> bulk, pc |-> "delay"]

\* queueTestResult: the result waits for the next flush; a flush loop is
\* launched unless a job is at work.
OnResult(reply) ==
  /\ UNCHANGED <<bulk, shown>>
  /\ IF bulk = reply.test
     THEN /\ pending' = pending \cup {<<reply.test, reply.guid>>}
          /\ flush' = IF flush.what # "none" THEN flush
                      ELSE [what |-> "flush", test |-> bulk, pc |-> "delay"]
     ELSE UNCHANGED <<pending, flush>>

\* As OnFinish, completing the test at once.
OnFinishAtOnce(reply) ==
  /\ bulk' = IF bulk # reply.test THEN bulk ELSE 0
  /\ pending' = IF bulk # reply.test THEN pending ELSE {}
  /\ flush' = IF bulk # reply.test THEN flush ELSE NoJob
  /\ UNCHANGED shown

\* The finish job replaces the flush loop: it cancels the loop, waits for it,
\* flushes what is left and only then completes the test.
OnFinish(reply) ==
  /\ UNCHANGED <<bulk, pending, shown>>
  /\ flush' = IF bulk # reply.test THEN flush
              ELSE [what |-> "finish", test |-> bulk, pc |-> "join"]

OnCancelled(reply) ==
  IF bulk = reply.test /\ bulk # 0
  THEN bulk' = 0 /\ pending' = {} /\ flush' = NoJob /\ UNCHANGED shown
  ELSE UNCHANGED <<bulk, pending, flush, shown>>

\* handleServiceEvent: the next broadcast.
HandleServiceEvent ==
  /\ replies # <<>>
  /\ replies' = Tail(replies)
  /\ LET reply == Head(replies)
     IN  \/ reply.what = "result" /\ OnResult(reply)
         \/ reply.what = "finish" /\ OnFinish(reply)
         \/ reply.what = "cancel" /\ OnCancelled(reply)
  /\ UNCHANGED <<begun, launch, system, batch, taps>>

\* flushPendingTestResults, up to the wait for the cache lock: the loop after
\* its delay, or the finish job once the loop it replaced is gone.
FlushBegin ==
  /\ flush.pc \in {"delay", "join"}
  /\ flush' = [flush EXCEPT !.pc = "lock"]
  /\ UNCHANGED <<begun, bulk, launch, pending, shown, system, batch, replies, taps>>

\* With the lock: the queued results are drained and shown.  The loop ends, as
\* nothing is queued; the finish job completes its test.
FlushEnd ==
  /\ flush.pc = "lock"
  /\ pending' = {}
  /\ shown' = IF bulk = flush.test THEN shown \cup pending ELSE shown
  /\ bulk' = IF flush.what = "finish" /\ bulk = flush.test THEN 0 ELSE bulk
  /\ flush' = NoJob
  /\ UNCHANGED <<begun, launch, system, batch, replies, taps>>

-----------------------------------------------------------------------------
(* The main thread of :tasks *)

\* The cancel action of the notification is a start like any other.
TapCancel ==
  /\ taps < MaxTaps
  /\ \E t \in Tests : batch[t].inst # 0
  /\ taps' = taps + 1
  /\ StartOf("cancel", 0)
  /\ UNCHANGED <<screen, batch, replies>>

\* activeWorkers of an instance.
ActiveWorkers(inst) == {t \in Tests : batch[t].inst = inst /\ batch[t].active}

\* A batch that is cancelled: what it still measures has no event any more.
Cancelled(b) == [b EXCEPT !.active = FALSE, !.left = {},
                          !.end = IF @ = "none" THEN "done" ELSE @]

\* As CancelWorkers, telling nobody.
CancelWorkersSilent(inst) ==
  /\ batch' = [t \in Tests |-> IF t \in ActiveWorkers(inst)
                               THEN Cancelled(batch[t]) ELSE batch[t]]
  /\ UNCHANGED replies

\* cancelWorkers: every batch still registered is removed, its scope cancelled,
\* and its own request told.
CancelWorkers(inst) ==
  /\ batch' = [t \in Tests |-> IF t \in ActiveWorkers(inst)
                               THEN Cancelled(batch[t]) ELSE batch[t]]
  /\ replies' = replies \o Say(ActiveWorkers(inst), "cancel")

\* stopSelf(startId): a stop that is ignored if a later start waits.
StopUnlessStarted(inst) ==
  IF \E i \in 2..Len(calls) : calls[i].inst = inst
  THEN calls' = Tail(calls) /\ UNCHANGED <<up, created>>
  ELSE StopIn(Tail(calls), inst)

\* handleMeasureStart: a batch is registered and started, or there is nothing
\* to measure and the request is cancelled.
HandleMeasureStart(call) ==
  \/ /\ batch' = [batch EXCEPT ![call.test] =
                    [NoBatch EXCEPT !.inst = call.inst, !.active = TRUE, !.left = Guids]]
     /\ calls' = Tail(calls)
     /\ UNCHANGED <<up, created, replies>>
  \/ /\ replies' = Append(replies, Reply("cancel", call.test, "all"))
     /\ StopUnlessStarted(call.inst)
     /\ UNCHANGED batch

HandleMeasureCancel(call) == /\ CancelWorkers(call.inst)
                             /\ StopIn(Tail(calls), call.inst)

OnDestroy(call) == /\ CancelWorkers(call.inst)
                   /\ calls' = Tail(calls)
                   /\ UNCHANGED <<up, created>>

HandleCall ==
  /\ calls # <<>>
  /\ LET call == Head(calls)
     IN  \/ call.what = "start" /\ HandleMeasureStart(call)
         \/ call.what = "cancel" /\ HandleMeasureCancel(call)
         \/ call.what = "destroy" /\ OnDestroy(call)
  /\ UNCHANGED <<screen, taps>>

-----------------------------------------------------------------------------
(* The threads of a batch: an event is dropped unless the batch is still     *)
(* registered; past that test nothing stops it                               *)

\* A profile is measured; the measurement may throw, and then has no result.
Measured(t, g) ==
  /\ g \in batch[t].left
  /\ \E result \in {{g}, {g} \ Throwing} :
       batch' = [batch EXCEPT ![t].left = @ \ {g}, ![t].sending = @ \cup result]
  /\ UNCHANGED <<screen, system, replies, taps>>

SendResult(t, g) ==
  /\ g \in batch[t].sending
  /\ replies' = Append(replies, Reply("result", t, g))
  /\ batch' = [batch EXCEPT ![t].sending = @ \ {g}, ![t].told = @ \cup {g}]
  /\ UNCHANGED <<screen, system, taps>>

AllJoined(t) == batch[t].left = {} /\ batch[t].sending = {}

\* All profiles are through: the batch finishes, unless it was cancelled.
FinishBegin(t) ==
  /\ batch[t].active /\ batch[t].end = "none"
  /\ AllJoined(t)
  /\ batch' = [batch EXCEPT ![t].end = "send"]
  /\ UNCHANGED <<screen, system, replies, taps>>

\* The finish is broadcast, after the removals and the sort of the group that
\* the settings ask for (those are steps of ProfileStore).
FinishSend(t) ==
  /\ batch[t].end = "send"
  /\ replies' = Append(replies, Reply("finish", t, "all"))
  /\ batch' = [batch EXCEPT ![t].end = "remove"]
  /\ UNCHANGED <<screen, system, taps>>

\* As FinishRemove, leaving the service up.
FinishRemoveStays(t) ==
  /\ batch[t].end = "remove"
  /\ batch' = [batch EXCEPT ![t].active = FALSE, ![t].end = "done"]
  /\ UNCHANGED <<screen, system, replies, taps>>

\* The batch is removed ...
FinishRemove(t) ==
  /\ batch[t].end = "remove"
  /\ batch' = [batch EXCEPT ![t].active = FALSE, ![t].end = "check"]
  /\ UNCHANGED <<screen, system, replies, taps>>

\* ... then, if no other is left, the service is to stop ...
FinishCheck(t) ==
  /\ batch[t].end = "check"
  /\ batch' = [batch EXCEPT ![t].end = IF ActiveWorkers(batch[t].inst) = {} THEN "stop" ELSE "done"]
  /\ UNCHANGED <<screen, system, replies, taps>>

\* ... and stopSelf() asks for no particular start.
FinishStop(t) ==
  /\ batch[t].end = "stop"
  /\ batch' = [batch EXCEPT ![t].end = "done"]
  /\ StopIn(calls, batch[t].inst)
  /\ UNCHANGED <<screen, replies, taps>>

-----------------------------------------------------------------------------
BatchStep(t) == \/ \E g \in Guids : Measured(t, g) \/ SendResult(t, g)
                \/ FinishBegin(t) \/ FinishSend(t)
                \/ FinishRemove(t) \/ FinishCheck(t) \/ FinishStop(t)

User == TestAllRealPing \/ CancelAllPing \/ TapCancel
Next == \/ User \/ Launch \/ HandleServiceEvent \/ FlushBegin \/ FlushEnd
        \/ HandleCall \/ \E t \in Tests : BatchStep(t)

\* Every thread and queue is served; the user need not do anything.
Fairness == /\ WF_vars(Launch) /\ WF_vars(HandleServiceEvent)
            /\ WF_vars(FlushBegin) /\ WF_vars(FlushEnd)
            /\ WF_vars(HandleCall)
            /\ \A t \in Tests : WF_vars(BatchStep(t))

Spec == Init /\ [][Next]_vars /\ Fairness

-----------------------------------------------------------------------------
(* Properties *)

\* The types of the state, and the screen's bookkeeping: results are queued
\* only while a job will show them, and only for the test that is running; a
\* job is for the running test (MainViewModel.kt:183-215).
LatencyInv ==
  /\ begun \in 0..MaxTests /\ bulk \in {0, begun} /\ launch \in {0, bulk}
  /\ flush.what \in {"none", "flush", "finish"}
  /\ flush.pc \in {"done", "delay", "join", "lock"}
  /\ pending \subseteq {bulk} \X Guids /\ shown \subseteq {begun} \X Guids
  /\ pending # {} => flush.what # "none"
  /\ flush.what # "none" => flush.test = bulk /\ bulk # 0
  /\ up \in 0..created /\ taps \in 0..MaxTaps

\* A batch that still measures is the running test's, or the call that will
\* cancel it is on its way, or it is past its finish: a test the user
\* replaced or cancelled does not go on measuring (MainViewModel.kt:863-870,
\* MessageHelper.kt:95-98).
NoStrayBatch ==
  \A t \in Tests : batch[t].active =>
     \/ t = bulk
     \/ batch[t].end = "remove"
     \/ \E i \in 1..Len(calls) : calls[i].what = "destroy" /\ calls[i].inst = batch[t].inst

\* A running test that was started is cancelled by nobody but the user: as
\* long as the notification is not tapped, no destroy waits for the instance
\* that measures for the screen, however late an earlier batch stops the
\* service (CoreTestService.kt:176-178, MainViewModel.kt:883).
TestKeepsItsService ==
  \A t \in Tests : taps = 0 /\ t = bulk /\ batch[t].active /\ batch[t].end = "none"
     => up = batch[t].inst

\* A test that ends on the screen was replaced or cancelled there, or the
\* cancel at the head of the broadcasts is its own, or every result its batch
\* sent is shown: a late reply completes no newer test, and no result is lost
\* at the finish (MainTestRequests.kt:5, MainViewModel.kt:159-168).
TestEndsItsOwnWay ==
  [][bulk # 0 /\ bulk' # bulk =>
       \/ CancelAllPing \/ TestAllRealPing
       \/ replies # <<>> /\ Head(replies).what = "cancel" /\ Head(replies).test = bulk
       \/ {bulk} \X batch[bulk].told \subseteq shown']_vars

\* The screen does not go on showing a test for ever (CoreTestService.kt:191-199,
\* MessageHelper.kt:104-109).
TestingEnds == \A t \in Tests : bulk = t ~> bulk # t

\* The service does not stay in the foreground with nothing to measure
\* (CoreTestService.kt:176-179).
ServiceEnds == up # 0 ~> up = 0

=============================================================================
