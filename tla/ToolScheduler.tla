---------------------------- MODULE ToolScheduler ----------------------------
(***************************************************************************)
(* The bounded tool scheduler of src/orchestration.cpp                     *)
(* (ToolScheduler::Impl): a fixed set of worker threads resumes coroutines *)
(* from a ready queue, client threads submit, cancel, request_stop and     *)
(* shut down.                                                              *)
(*                                                                         *)
(* A step is one critical section of `mutex`, one condition variable       *)
(* notification, one stop_source.request_stop(), or one unlocked stretch   *)
(* of code between two of those.  Notifications and stop requests happen   *)
(* after the lock is released, so they are steps of their own.             *)
(*                                                                         *)
(* An operator whose comment begins with "Fault" is no part of the         *)
(* specification: it is what a plausible mistake would make of the         *)
(* definition that follows it, kept to show which property notices.        *)
(***************************************************************************)
EXTENDS Naturals, Sequences, FiniteSets

CONSTANTS
    Calls,       \* Control objects: each submit() makes one of its own
    Keys,        \* request_key() of the JSON-RPC ids
    KeyOf,       \* the key of every call
    Workers,     \* threads the constructor starts
    Clients,     \* every other thread that uses the scheduler
    MaxPending,  \* budget.max_pending_requests
    NoCall       \* an absent map entry, an empty hand

ASSUME SchedulerAssumption ==
    /\ KeyOf \in [Calls -> Keys]
    /\ MaxPending \in Nat \ {0}
    /\ NoCall \notin Calls
    /\ Workers \cap Clients = {}

VARIABLES
    \* fields of Impl, guarded by `mutex` (joined: by `shutdown_mutex`)
    accepting, stopping, joined,
    inFlight,       \* in_flight: key -> Control
    ready,          \* ready: coroutine handles, first in first out
    stats,          \* statistics, without the two gauges stats() recomputes
    \* the atomics of every Control, and the clock
    cancelled,      \* calls whose cancelled_by_client is set
    stopRequested,  \* calls whose stop_source was asked to stop
    expired,        \* calls whose deadline has passed
    \* the threads
    ctor,           \* how far the constructor is
    workerPc, workerCall, workerResult,
    clientPc, clientCall,
    toSignal,       \* the Controls a thread still has to request_stop()
    \* what the callers see
    verdict,        \* what submit() returned for a call
    sent            \* results handed to the completion callback, per call

schedVars == <<accepting, stopping, joined, inFlight, ready, stats>>
controlVars == <<cancelled, stopRequested, expired>>
workerVars == <<workerPc, workerCall, workerResult>>
clientVars == <<clientPc, clientCall>>
history == <<verdict, sent>>
vars == <<schedVars, controlVars, ctor, workerVars, clientVars, toSignal,
          history>>

Threads == Workers \cup Clients

\* The executor's own results and the one the scheduler puts in their place.
\* A tool that sees its stop token or its deadline says so in its result.
ToolResults == {"value", "tool_cancelled", "tool_deadline", "internal_error"}
Results == ToolResults \cup {"deadline_exceeded"}

\* "abandoned" is the kStopped of a call whose coroutine could not be made.
Verdicts == {"unsubmitted", "submitting", "accepted", "queue_full",
             "duplicate", "stopped", "abandoned"}
Refusals == {"queue_full", "duplicate", "stopped", "abandoned"}

WorkerPcs == {"unstarted", "check", "asleep", "resumed", "executing",
              "returned", "finishing", "notifying", "completing",
              "signalling", "exited"}
ClientPcs == {"idle", "admitted", "enqueued", "abandoning", "signalling",
              "shutdown", "drain", "drain_asleep", "wake_all", "joining"}

Counters == {"accepted", "completed", "cancelled", "timed_out",
             "queue_rejections", "duplicate_rejections"}

\* statistics with every counter of cs incremented.
Count(cs) ==
    [n \in Counters |-> IF n \in cs THEN stats[n] + 1 ELSE stats[n]]

Occupied == {k \in Keys : inFlight[k] # NoCall}
InFlightCalls == {inFlight[k] : k \in Occupied}
IsInFlight(c) == inFlight[KeyOf[c]] = c

\* Fault: the entry stays.
InFlightAsBefore(c) == inFlight

\* in_flight after erase() of the entry of call c.
InFlightWithout(c) == [inFlight EXCEPT ![KeyOf[c]] = NoCall]

\* Fault: the token is asked for, the flag is forgotten.
FlagNone(cs) == UNCHANGED cancelled

\* cancelled_by_client is set for the calls cs.
Flag(cs) == cancelled' = cancelled \cup cs

\* std::lock_guard{shutdown_mutex} is held from the drain to the join.
ShutdownPcs == {"drain", "drain_asleep", "wake_all", "joining"}
ShutdownMutexFree == \A t \in Clients : clientPc[t] \notin ShutdownPcs
-----------------------------------------------------------------------------
Init ==
    /\ accepting = TRUE
    /\ stopping = FALSE
    /\ joined = FALSE
    /\ inFlight = [k \in Keys |-> NoCall]
    /\ ready = <<>>
    /\ stats = [n \in Counters |-> 0]
    /\ cancelled = {}
    /\ stopRequested = {}
    /\ expired = {}
    /\ ctor = "spawning"
    /\ workerPc = [w \in Workers |-> "unstarted"]
    /\ workerCall = [w \in Workers |-> NoCall]
    /\ workerResult = [w \in Workers |-> "none"]
    /\ clientPc = [t \in Clients |-> "idle"]
    /\ clientCall = [t \in Clients |-> NoCall]
    /\ toSignal = [t \in Threads |-> {}]
    /\ verdict = [c \in Calls |-> "unsubmitted"]
    /\ sent = [c \in Calls |-> <<>>]
-----------------------------------------------------------------------------
\* The condition variables.  A thread inside wait() is "asleep"; any wakeup,
\* spurious ones included, only makes it evaluate its predicate again.

Asleep == {w \in Workers : workerPc[w] = "asleep"}

\* Fault: the notification is missing.
NotifyNoWorker == UNCHANGED workerPc

\* ready_cv.notify_one(): one sleeper, whichever, or nobody.
NotifyOneReady ==
    \/ \E w \in Asleep : workerPc' = [workerPc EXCEPT ![w] = "check"]
    \/ Asleep = {} /\ UNCHANGED workerPc

\* ready_cv.notify_all()
NotifyAllReady ==
    workerPc' = [w \in Workers |->
                    IF workerPc[w] = "asleep" THEN "check" ELSE workerPc[w]]

\* Fault: the notification is missing.
WokenByNobody(pc) == pc

\* done_cv.notify_all(): where the clients are after it.
WokenByDone(pc) ==
    [t \in Clients |-> IF pc[t] = "drain_asleep" THEN "drain" ELSE pc[t]]
-----------------------------------------------------------------------------
\* The constructor: worker threads are started one after the other.  A factory
\* that throws, or returns no thread, stops the ones already running.

\* Worker w goes to pc, with nothing else changed.
WorkerGoes(w, pc) ==
    /\ workerPc' = [workerPc EXCEPT ![w] = pc]
    /\ UNCHANGED <<schedVars, controlVars, ctor, workerCall, workerResult,
                   clientVars, toSignal, history>>

SpawnWorker(w) ==
    /\ ctor = "spawning" /\ workerPc[w] = "unstarted"
    /\ WorkerGoes(w, "check")

\* The constructor goes to step pc, and the flags are as given.
ConstructorGoes(pc, acc, stop, join) ==
    /\ ctor' = pc
    /\ accepting' = acc /\ stopping' = stop /\ joined' = join
    /\ UNCHANGED <<inFlight, ready, stats, controlVars, workerCall,
                   workerResult, clientVars, toSignal, history>>

ConstructorReturns ==
    /\ ctor = "spawning"
    /\ \A w \in Workers : workerPc[w] # "unstarted"
    /\ ConstructorGoes("running", accepting, stopping, joined)
    /\ UNCHANGED workerPc

SpawnFails ==
    /\ ctor = "spawning"
    /\ \E w \in Workers : workerPc[w] = "unstarted"
    /\ ConstructorGoes("unwinding", FALSE, TRUE, joined)
    /\ UNCHANGED workerPc

UnwindNotify ==
    /\ ctor = "unwinding"
    /\ NotifyAllReady
    /\ ConstructorGoes("rejoining", accepting, stopping, joined)

UnwindJoin ==
    /\ ctor = "rejoining"
    /\ \A w \in Workers : workerPc[w] \in {"unstarted", "exited"}
    /\ ConstructorGoes("failed", accepting, stopping, TRUE)
    /\ UNCHANGED workerPc
-----------------------------------------------------------------------------
\* worker_loop()

WorkerSleep(w) ==
    /\ workerPc[w] = "check" /\ ~stopping /\ ready = <<>>
    /\ WorkerGoes(w, "asleep")

WorkerWakesSpuriously(w) == workerPc[w] = "asleep" /\ WorkerGoes(w, "check")

WorkerExit(w) ==
    /\ workerPc[w] = "check" /\ stopping /\ ready = <<>>
    /\ WorkerGoes(w, "exited")

WorkerTake(w) ==
    /\ workerPc[w] = "check" /\ ready # <<>>
    /\ workerPc' = [workerPc EXCEPT ![w] = "resumed"]
    /\ workerCall' = [workerCall EXCEPT ![w] = Head(ready)]
    /\ ready' = Tail(ready)
    /\ UNCHANGED <<accepting, stopping, joined, inFlight, stats, controlVars,
                   ctor, workerResult, clientVars, toSignal, history>>
-----------------------------------------------------------------------------
\* run(): the coroutine after it was resumed on a worker.

\* Moves worker w on, with the result it now carries.
Proceed(w, pc, result) ==
    /\ workerPc' = [workerPc EXCEPT ![w] = pc]
    /\ workerResult' = [workerResult EXCEPT ![w] = result]
    /\ UNCHANGED <<schedVars, controlVars, ctor, workerCall, clientVars,
                   toSignal, history>>

\* Cancelled while it was queued: there is no result, and none is needed.
RunSkips(w) ==
    /\ workerPc[w] = "resumed" /\ workerCall[w] \in cancelled
    /\ Proceed(w, "finishing", "none")

RunTimesOut(w) ==
    /\ workerPc[w] = "resumed" /\ workerCall[w] \in expired \ cancelled
    /\ Proceed(w, "finishing", "deadline_exceeded")

RunExecutes(w) ==
    /\ workerPc[w] = "resumed" /\ workerCall[w] \notin cancelled \cup expired
    /\ Proceed(w, "executing", "none")

\* The tool may notice its stop token or its deadline, return a value anyway,
\* or throw; an exception becomes the result "internal_error".
ExecutorReturns(w, result) ==
    /\ workerPc[w] = "executing"
    /\ result = "tool_cancelled" => workerCall[w] \in stopRequested
    /\ result = "tool_deadline" => workerCall[w] \in expired
    /\ Proceed(w, "returned", result)

RunTimesOutLate(w) ==
    /\ workerPc[w] = "returned" /\ workerCall[w] \in expired \ cancelled
    /\ Proceed(w, "finishing", "deadline_exceeded")

RunKeepsResult(w) ==
    /\ workerPc[w] = "returned" /\ workerCall[w] \notin expired \ cancelled
    /\ Proceed(w, "finishing", workerResult[w])
-----------------------------------------------------------------------------
\* finish(): the critical section decides whether the call is answered.  A
\* worker that will not send drops its result.

\* Fault: the flag is not read again under the lock.
SendsAnyResult(w) ==
    IsInFlight(workerCall[w]) /\ workerResult[w] # "none"

Sends(w) ==
    /\ IsInFlight(workerCall[w])
    /\ workerCall[w] \notin cancelled
    /\ workerResult[w] # "none"

\* Fault: a timed out call is not counted as completed.
TimedOutOnly == {"timed_out"}

TimedOutCounters == {"timed_out", "completed"}

FinishCounters(w) ==
    IF ~IsInFlight(workerCall[w]) THEN {}
    ELSE IF workerCall[w] \in cancelled THEN {"cancelled"}
    ELSE IF workerResult[w] = "deadline_exceeded" THEN TimedOutCounters
    ELSE {"completed"}

Finish(w) ==
    /\ workerPc[w] = "finishing"
    /\ stats' = Count(FinishCounters(w))
    /\ inFlight' = IF IsInFlight(workerCall[w])
                   THEN InFlightWithout(workerCall[w]) ELSE inFlight
    /\ workerPc' = [workerPc EXCEPT ![w] = "notifying"]
    /\ workerResult' = [workerResult EXCEPT ![w] =
                            IF Sends(w) THEN @ ELSE "none"]
    /\ UNCHANGED <<accepting, stopping, joined, ready, controlVars, ctor,
                   workerCall, clientVars, toSignal, history>>

\* The worker's hands are empty again.
BackToLoop(w) ==
    /\ workerPc' = [workerPc EXCEPT ![w] = "check"]
    /\ workerCall' = [workerCall EXCEPT ![w] = NoCall]
    /\ workerResult' = [workerResult EXCEPT ![w] = "none"]

\* done_cv.notify_all(); no answer, so the coroutine ends.
FinishQuietly(w) ==
    /\ workerPc[w] = "notifying" /\ workerResult[w] = "none"
    /\ clientPc' = WokenByDone(clientPc)
    /\ BackToLoop(w)
    /\ UNCHANGED <<schedVars, controlVars, ctor, clientCall, toSignal, history>>

\* send_completion
HasAnswer(w) == workerResult[w] # "none"

\* done_cv.notify_all(); then the completion callback is entered.
FinishCompletes(w) ==
    /\ workerPc[w] = "notifying" /\ HasAnswer(w)
    /\ clientPc' = WokenByDone(clientPc)
    /\ workerPc' = [workerPc EXCEPT ![w] = "completing"]
    /\ sent' = [sent EXCEPT ![workerCall[w]] = Append(@, workerResult[w])]
    /\ UNCHANGED <<schedVars, controlVars, ctor, workerCall, workerResult,
                   clientCall, toSignal, verdict>>

\* Fault: a callback that throws is tried again.
CompletionRetries(w) ==
    /\ workerPc[w] = "completing"
    /\ \/ BackToLoop(w)
       \/ /\ workerPc' = [workerPc EXCEPT ![w] = "notifying"]
          /\ UNCHANGED <<workerCall, workerResult>>
    /\ UNCHANGED <<schedVars, controlVars, ctor, clientVars, toSignal, history>>

\* The callback returns, or throws and finish() swallows the exception.
CompletionReturns(w) ==
    /\ workerPc[w] = "completing"
    /\ BackToLoop(w)
    /\ UNCHANGED <<schedVars, controlVars, ctor, clientVars, toSignal, history>>
-----------------------------------------------------------------------------
\* request_stop(), on a client or inside a completion callback.

StopAll(t) ==
    /\ accepting' = FALSE
    /\ Flag(InFlightCalls)
    /\ toSignal' = [toSignal EXCEPT ![t] = InFlightCalls]

Signal(t, c) ==
    /\ c \in toSignal[t]
    /\ stopRequested' = stopRequested \cup {c}
    /\ toSignal' = [toSignal EXCEPT ![t] = @ \ {c}]
    /\ UNCHANGED <<schedVars, cancelled, expired, ctor, workerVars, clientVars,
                   history>>

\* The callback of run_stdio() stops the scheduler when its write fails.
CompletionRequestsStop(w) ==
    /\ workerPc[w] = "completing"
    /\ StopAll(w)
    /\ workerPc' = [workerPc EXCEPT ![w] = "signalling"]
    /\ UNCHANGED <<stopping, joined, inFlight, ready, stats, stopRequested,
                   expired, ctor, workerCall, workerResult, clientVars,
                   history>>

WorkerSignals(w, c) == workerPc[w] = "signalling" /\ Signal(w, c)

WorkerSignalled(w) ==
    /\ workerPc[w] = "signalling" /\ toSignal[w] = {}
    /\ BackToLoop(w)
    /\ UNCHANGED <<schedVars, controlVars, ctor, clientVars, toSignal, history>>

\* shutdown() called from a completion callback only closes admission.
CompletionShutsDown(w) ==
    /\ workerPc[w] = "completing"
    /\ accepting' = FALSE
    /\ BackToLoop(w)
    /\ UNCHANGED <<stopping, joined, inFlight, ready, stats, controlVars, ctor,
                   clientVars, toSignal, history>>
-----------------------------------------------------------------------------
\* submit()

Idle(t) == ctor = "running" /\ clientPc[t] = "idle"

\* Fault: the limit is off by one.
HasRoomForOneMore == Cardinality(Occupied) <= MaxPending

HasRoom == Cardinality(Occupied) < MaxPending

\* submit() returns status v without having admitted call c.
Reject(t, c, v, counters) ==
    /\ Idle(t) /\ verdict[c] = "unsubmitted"
    /\ verdict' = [verdict EXCEPT ![c] = v]
    /\ stats' = Count(counters)
    /\ UNCHANGED <<accepting, stopping, joined, inFlight, ready, controlVars,
                   ctor, workerVars, clientVars, toSignal, sent>>

SubmitStopped(t, c) == ~accepting /\ Reject(t, c, "stopped", {})

SubmitDuplicate(t, c) ==
    /\ accepting /\ KeyOf[c] \in Occupied
    /\ Reject(t, c, "duplicate", {"duplicate_rejections"})

SubmitQueueFull(t, c) ==
    /\ accepting /\ KeyOf[c] \notin Occupied /\ ~HasRoom
    /\ Reject(t, c, "queue_full", {"queue_rejections"})

SubmitAdmits(t, c) ==
    /\ Idle(t) /\ verdict[c] = "unsubmitted"
    /\ accepting /\ KeyOf[c] \notin Occupied /\ HasRoom
    /\ inFlight' = [inFlight EXCEPT ![KeyOf[c]] = c]
    /\ stats' = Count({"accepted"})
    /\ clientPc' = [clientPc EXCEPT ![t] = "admitted"]
    /\ clientCall' = [clientCall EXCEPT ![t] = c]
    /\ verdict' = [verdict EXCEPT ![c] = "submitting"]
    /\ UNCHANGED <<accepting, stopping, joined, ready, controlVars, ctor,
                   workerVars, toSignal, sent>>

Submit(t, c) ==
    \/ SubmitStopped(t, c)
    \/ SubmitDuplicate(t, c)
    \/ SubmitQueueFull(t, c)
    \/ SubmitAdmits(t, c)

\* run(control) suspends in ResumeOnWorker: enqueue() under the lock ...
Enqueue(t) ==
    /\ clientPc[t] = "admitted"
    /\ ready' = Append(ready, clientCall[t])
    /\ clientPc' = [clientPc EXCEPT ![t] = "enqueued"]
    /\ UNCHANGED <<accepting, stopping, joined, inFlight, stats, controlVars,
                   ctor, workerVars, clientCall, toSignal, history>>

\* ... and ready_cv.notify_one() after it; submit() returns kAccepted.
EnqueueNotifies(t) ==
    /\ clientPc[t] = "enqueued"
    /\ NotifyOneReady
    /\ clientPc' = [clientPc EXCEPT ![t] = "idle"]
    /\ clientCall' = [clientCall EXCEPT ![t] = NoCall]
    /\ verdict' = [verdict EXCEPT ![clientCall[t]] = "accepted"]
    /\ UNCHANGED <<schedVars, controlVars, ctor, workerCall, workerResult,
                   toSignal, sent>>

\* run(control) cannot allocate its coroutine frame: the entry is erased again
\* and submit() returns kStopped.
SubmitAbandons(t) ==
    /\ clientPc[t] = "admitted"
    /\ inFlight' = InFlightWithout(clientCall[t])
    /\ clientPc' = [clientPc EXCEPT ![t] = "abandoning"]
    /\ clientCall' = [clientCall EXCEPT ![t] = NoCall]
    /\ verdict' = [verdict EXCEPT ![clientCall[t]] = "abandoned"]
    /\ UNCHANGED <<accepting, stopping, joined, ready, stats, controlVars,
                   ctor, workerVars, toSignal, sent>>

AbandonNotifies(t) ==
    /\ clientPc[t] = "abandoning"
    /\ clientPc' = WokenByDone([clientPc EXCEPT ![t] = "idle"])
    /\ UNCHANGED <<schedVars, controlVars, ctor, workerVars, clientCall,
                   toSignal, history>>
-----------------------------------------------------------------------------
\* cancel() and request_stop() on a client.

\* cancel() of a key that is not in flight returns false and changes nothing.
Cancel(t, k) ==
    /\ Idle(t)
    /\ k \in Occupied
    /\ Flag({inFlight[k]})
    /\ toSignal' = [toSignal EXCEPT ![t] = {inFlight[k]}]
    /\ clientPc' = [clientPc EXCEPT ![t] = "signalling"]
    /\ UNCHANGED <<schedVars, stopRequested, expired, ctor, workerVars,
                   clientCall, history>>

RequestStop(t) ==
    /\ Idle(t)
    /\ StopAll(t)
    /\ clientPc' = [clientPc EXCEPT ![t] = "signalling"]
    /\ UNCHANGED <<stopping, joined, inFlight, ready, stats, stopRequested,
                   expired, ctor, workerVars, clientCall, history>>

ClientSignals(t, c) == clientPc[t] = "signalling" /\ Signal(t, c)

ClientSignalled(t) ==
    /\ clientPc[t] = "signalling" /\ toSignal[t] = {}
    /\ clientPc' = [clientPc EXCEPT ![t] = "idle"]
    /\ UNCHANGED <<schedVars, controlVars, ctor, workerVars, clientCall,
                   toSignal, history>>
-----------------------------------------------------------------------------
\* shutdown() on a client, also the body of the destructor.

\* Client t goes to pc, and the flags are as given.
ShutdownGoes(t, pc, acc, stop, join) ==
    /\ clientPc' = [clientPc EXCEPT ![t] = pc]
    /\ accepting' = acc /\ stopping' = stop /\ joined' = join
    /\ UNCHANGED <<inFlight, ready, stats, controlVars, ctor, workerCall,
                   workerResult, clientCall, toSignal, history>>

ShutdownCalled(t) ==
    /\ Idle(t)
    /\ ShutdownGoes(t, "shutdown", accepting, stopping, joined)
    /\ UNCHANGED workerPc

\* shutdown_mutex is taken: return if the workers are joined already, else
\* close admission.
ShutdownEnters(t) ==
    /\ clientPc[t] = "shutdown"
    /\ ShutdownMutexFree
    /\ \/ joined /\ ShutdownGoes(t, "idle", accepting, stopping, joined)
       \/ ~joined /\ ShutdownGoes(t, "drain", FALSE, stopping, joined)
    /\ UNCHANGED workerPc

\* Fault: an empty ready queue is taken for an empty in_flight.
QueueDrained == ready = <<>>

Drained == Occupied = {}

\* done_cv.wait(in_flight.empty()); stopping = true in the same section.
ShutdownDrains(t) ==
    /\ clientPc[t] = "drain"
    /\ \/ /\ ~Drained
          /\ ShutdownGoes(t, "drain_asleep", accepting, stopping, joined)
       \/ /\ Drained
          /\ ShutdownGoes(t, "wake_all", accepting, TRUE, joined)
    /\ UNCHANGED workerPc

ShutdownWakesSpuriously(t) ==
    /\ clientPc[t] = "drain_asleep"
    /\ ShutdownGoes(t, "drain", accepting, stopping, joined)
    /\ UNCHANGED workerPc

ShutdownNotifies(t) ==
    /\ clientPc[t] = "wake_all"
    /\ NotifyAllReady
    /\ ShutdownGoes(t, "joining", accepting, stopping, joined)

\* Fault: the loop stops at the first worker that could be joined.
OneJoined == \E w \in Workers : workerPc[w] = "exited"

AllJoined == \A w \in Workers : workerPc[w] = "exited"

\* worker.join() for every worker, then joined = true and the mutex is freed.
ShutdownJoins(t) ==
    /\ clientPc[t] = "joining"
    /\ AllJoined
    /\ ShutdownGoes(t, "idle", accepting, stopping, TRUE)
    /\ UNCHANGED workerPc
-----------------------------------------------------------------------------
\* steady_clock passes the deadline of a call; nobody reads the clock for a
\* call that has left in_flight.
Expire(c) ==
    /\ IsInFlight(c)
    /\ c \notin expired
    /\ expired' = expired \cup {c}
    /\ UNCHANGED <<schedVars, cancelled, stopRequested, ctor, workerVars,
                   clientVars, toSignal, history>>

\* The constructor threw: there is no scheduler.
Failed == ctor = "failed" /\ UNCHANGED vars

ConstructorStep ==
    \/ \E w \in Workers : SpawnWorker(w)
    \/ ConstructorReturns
    \/ UnwindNotify
    \/ UnwindJoin

WorkerStep(w) ==
    \/ WorkerSleep(w)
    \/ WorkerExit(w)
    \/ WorkerTake(w)
    \/ RunSkips(w)
    \/ RunTimesOut(w)
    \/ RunExecutes(w)
    \/ \E result \in ToolResults : ExecutorReturns(w, result)
    \/ RunTimesOutLate(w)
    \/ RunKeepsResult(w)
    \/ Finish(w)
    \/ FinishQuietly(w)
    \/ FinishCompletes(w)
    \/ CompletionReturns(w)
    \/ CompletionRequestsStop(w)
    \/ CompletionShutsDown(w)
    \/ \E c \in Calls : WorkerSignals(w, c)
    \/ WorkerSignalled(w)

\* What a client does once it has entered an operation.
ClientStep(t) ==
    \/ Enqueue(t)
    \/ EnqueueNotifies(t)
    \/ SubmitAbandons(t)
    \/ AbandonNotifies(t)
    \/ \E c \in Calls : ClientSignals(t, c)
    \/ ClientSignalled(t)
    \/ ShutdownEnters(t)
    \/ ShutdownDrains(t)
    \/ ShutdownNotifies(t)
    \/ ShutdownJoins(t)

\* What a client may choose to do.
ClientCalls(t) ==
    \/ \E c \in Calls : Submit(t, c)
    \/ \E k \in Keys : Cancel(t, k)
    \/ RequestStop(t)
    \/ ShutdownCalled(t)

Next ==
    \/ ConstructorStep
    \/ SpawnFails
    \/ \E w \in Workers : WorkerStep(w) \/ WorkerWakesSpuriously(w)
    \/ \E t \in Clients :
            ClientStep(t) \/ ClientCalls(t) \/ ShutdownWakesSpuriously(t)
    \/ \E c \in Calls : Expire(c)
    \/ Failed

Spec == Init /\ [][Next]_vars

\* Threads that can run are scheduled, the mutexes starve nobody, tools return
\* (they poll their token and deadline) and so do callbacks (their writes have
\* a deadline).  Nobody is obliged to start an operation, no wakeup is
\* spurious on demand, and the clock owes nothing to anyone.
Fairness ==
    /\ WF_vars(ConstructorStep)
    /\ \A w \in Workers : WF_vars(WorkerStep(w))
    /\ \A t \in Clients : WF_vars(ClientStep(t))

FairSpec == Spec /\ Fairness
=============================================================================
