------------------------- MODULE SchedulerProperties -------------------------
(***************************************************************************)
(* What makes ToolScheduler correct: the properties the runs check, the    *)
(* inductive invariant their proofs rest on, and the refinement mapping to *)
(* CallLedger.                                                             *)
(***************************************************************************)
EXTENDS ToolScheduler

\* Every variable has its type; in_flight files a call under its own key.
TypeOK ==
    /\ accepting \in BOOLEAN /\ stopping \in BOOLEAN /\ joined \in BOOLEAN
    /\ inFlight \in [Keys -> Calls \cup {NoCall}]
    /\ ready \in Seq(Calls)
    /\ stats \in [Counters -> Nat]
    /\ cancelled \subseteq Calls
    /\ stopRequested \subseteq Calls
    /\ expired \subseteq Calls
    /\ ctor \in {"spawning", "running", "unwinding", "rejoining", "failed"}
    /\ workerPc \in [Workers -> WorkerPcs]
    /\ workerCall \in [Workers -> Calls \cup {NoCall}]
    /\ workerResult \in [Workers -> Results \cup {"none"}]
    /\ clientPc \in [Clients -> ClientPcs]
    /\ clientCall \in [Clients -> Calls \cup {NoCall}]
    /\ toSignal \in [Threads -> SUBSET Calls]
    /\ verdict \in [Calls -> Verdicts]
    /\ sent \in [Calls -> Seq(Results)]
-----------------------------------------------------------------------------
\* Safety.

\* A call that cancel() or request_stop() found in flight is never handed to
\* the completion callback, however the cancellation races the worker that is
\* finishing the call (finish() reads the flag under the lock that sets it).
CancelledStaysSilent == \A c \in cancelled : sent[c] = <<>>

\* A request is answered at most once: the completion runs at most once for a
\* call, and never for one that submit() refused (the reader answers those).
OneAnswerPerRequest ==
    \A c \in Calls :
        /\ Len(sent[c]) <= 1
        /\ verdict[c] \in Refusals => sent[c] = <<>>

\* A tool that stopped early because of its token or its deadline is not taken
\* at its word: such a result never reaches the client.  The flag is set
\* before the token, and the deadline is checked again after the tool.
NoEarlyStopDelivered ==
    \A c \in Calls : \A i \in 1..Len(sent[c]) :
        sent[c][i] \notin {"tool_cancelled", "tool_deadline"}

\* When a shutdown() has returned, every accepted call has been handed to the
\* callback or was cancelled, and no worker runs any more - although in_flight
\* is already empty while the last callbacks are still to start.
ShutdownDrained ==
    joined =>
        /\ \A w \in Workers : workerPc[w] \in {"unstarted", "exited"}
        /\ \A c \in Calls :
             verdict[c] = "accepted" => c \in cancelled \/ Len(sent[c]) = 1

\* enqueue() is noexcept and pushes into the storage the constructor reserved:
\* the ready queue never outgrows max_pending_requests.
QueueWithinReserve == Len(ready) <= MaxPending

\* The counters of stats() account for every call that was admitted.
StatsExact ==
    /\ stats["accepted"] = stats["completed"] + stats["cancelled"]
                            + Cardinality(Occupied)
                            + Cardinality({c \in Calls :
                                              verdict[c] = "abandoned"})
    /\ stats["timed_out"] <= stats["completed"]

\* If calls are queued and all workers sleep, a submitter has yet to notify.
WorkIsNoticed ==
    (ready # <<>> /\ Asleep # {} /\ Workers = Asleep)
        => \E t \in Clients : clientPc[t] = "enqueued"

\* A worker sleeps through stopping only until notify_all() comes.
StopIsNoticed ==
    (stopping /\ Asleep # {})
        => ctor = "unwinding" \/ \E t \in Clients : clientPc[t] = "wake_all"

\* A shutdown sleeps through the end of the last call only until notify_all().
DrainIsNoticed ==
    (Occupied = {} /\ \E t \in Clients : clientPc[t] = "drain_asleep")
        => \/ \E w \in Workers : workerPc[w] = "notifying"
           \/ \E t \in Clients : clientPc[t] = "abandoning"

\* Nobody sleeps with nobody left to wake him: a worker while calls are queued
\* and no other worker is up, a worker when the constructor gives up or a
\* shutdown joins, or a shutdown that waits for the last call.  All these
\* notifications are sent after the lock was released.
NoLostWakeup == WorkIsNoticed /\ StopIsNoticed /\ DrainIsNoticed

\* Once a client's shutdown() has joined the workers nothing of the scheduler
\* moves: no callback starts (what it captures may be gone), nothing is
\* admitted and no counter changes.
QuietAfterShutdown ==
    [][joined => UNCHANGED <<accepting, inFlight, ready, stats, workerVars,
                             sent>>]_vars
-----------------------------------------------------------------------------
\* Liveness, under Fairness.

\* shutdown() returns, however many clients and callbacks call it at once.
ShutdownReturns ==
    \A t \in Clients : clientPc[t] = "shutdown" ~> clientPc[t] = "idle"
-----------------------------------------------------------------------------
\* Refinement.

\* A worker that left in_flight behind and is about to call the completion.
AboutToSend(w, c) ==
    workerPc[w] = "notifying" /\ workerCall[w] = c /\ workerResult[w] # "none"

IsAnswered(c) ==
    sent[c] # <<>> \/ \E w \in Workers : AboutToSend(w, c)

Standing(c) ==
    IF verdict[c] = "unsubmitted" THEN "new"
    ELSE IF verdict[c] \in Refusals THEN "refused"
    ELSE IF IsInFlight(c) THEN (IF c \in cancelled THEN "doomed" ELSE "pending")
    ELSE IF IsAnswered(c) THEN "answered" ELSE "suppressed"

Book == [c \in Calls |-> Standing(c)]

Ledger == INSTANCE CallLedger WITH open <- accepting, ledger <- Book

\* The threads, the queue and the two-phase cancellation keep the ledger:
\* admission, refusal, cancellation and the answer each take effect in one
\* critical section, also while ids are used again.
KeepsLedger == Ledger!LedgerSpec

\* Moreover every admitted call is eventually struck off: no wakeup is lost.
ImplementsLedger == Ledger!LedgerFairSpec
-----------------------------------------------------------------------------
\* The inductive invariant.

Queued == {ready[i] : i \in DOMAIN ready}
HoldingPcs == {"resumed", "executing", "returned", "finishing"}
DonePcs == {"notifying", "completing", "signalling"}

AtClient(c) ==
    \E t \in Clients : clientPc[t] = "admitted" /\ clientCall[t] = c
AtWorker(c) ==
    \E w \in Workers : workerPc[w] \in HoldingPcs /\ workerCall[w] = c

\* in_flight files a call under its own key.
Filed == \A k \in Keys : inFlight[k] # NoCall => KeyOf[inFlight[k]] = k

\* A call in flight is with a client that has yet to enqueue it, in the ready
\* queue, or with a worker that has yet to finish it; nothing else is there.
Placed ==
    \A c \in Calls : IsInFlight(c) <=> AtClient(c) \/ c \in Queued \/ AtWorker(c)

\* And it is in one of these places only, once.
Apart ==
    /\ \A i, j \in DOMAIN ready : ready[i] = ready[j] => i = j
    /\ \A w \in Workers : workerCall[w] \notin Queued
    /\ \A w, v \in Workers :
         workerCall[w] = workerCall[v] /\ workerCall[w] # NoCall => w = v
    /\ \A t \in Clients : clientPc[t] = "admitted" =>
         /\ clientCall[t] \notin Queued
         /\ \A w \in Workers : clientCall[t] # workerCall[w]
    /\ \A t, u \in Clients :
         clientCall[t] = clientCall[u] /\ clientCall[t] # NoCall => t = u

InOnePlace == Filed /\ Placed /\ Apart

\* What a thread holds fits where it stands.
Hands ==
    /\ \A w \in Workers :
         workerCall[w] # NoCall <=> workerPc[w] \in HoldingPcs \cup DonePcs
    /\ \A w \in Workers : workerPc[w] = "returned" => workerResult[w] # "none"
    /\ \A w \in Workers :
         workerResult[w] # "none" =>
            workerPc[w] \in {"returned", "finishing"} \cup DonePcs
    /\ \A t \in Clients :
         clientCall[t] # NoCall <=> clientPc[t] \in {"admitted", "enqueued"}
    /\ \A t \in Clients :
         clientCall[t] # NoCall => verdict[clientCall[t]] = "submitting"
    /\ \A c \in Calls :
         verdict[c] \in Refusals \cup {"unsubmitted"} =>
            /\ ~IsInFlight(c) /\ c \notin Queued
            /\ \A w \in Workers : workerCall[w] # c

\* The flag goes first: whoever saw the token can count on the flag.
FlagBeforeToken ==
    /\ stopRequested \subseteq cancelled
    /\ \A t \in Threads : toSignal[t] \subseteq cancelled
    /\ \A w \in Workers :
         /\ workerResult[w] = "tool_cancelled" => workerCall[w] \in cancelled
         /\ workerPc[w] = "returned" /\ workerResult[w] = "tool_deadline" =>
                workerCall[w] \in expired
         /\ workerPc[w] \in {"finishing"} \cup DonePcs
                /\ workerResult[w] = "tool_deadline" =>
                workerCall[w] \in cancelled
         /\ workerPc[w] = "finishing" /\ workerResult[w] = "none" =>
                workerCall[w] \in cancelled
         /\ workerPc[w] \in DonePcs /\ workerResult[w] # "none" =>
                workerCall[w] \notin cancelled

\* What has been sent, and what still has to be.
Answers ==
    /\ CancelledStaysSilent
    /\ OneAnswerPerRequest
    /\ NoEarlyStopDelivered
    /\ \A c \in Calls :
         IsInFlight(c) \/ verdict[c] = "unsubmitted" => sent[c] = <<>>
    /\ \A w \in Workers :
         workerPc[w] = "notifying" => sent[workerCall[w]] = <<>>
    /\ \A w \in Workers :
         workerPc[w] \in {"completing", "signalling"} => workerResult[w] # "none"
    /\ \A c \in Calls : verdict[c] \in {"submitting", "accepted"} =>
         \/ IsInFlight(c) \/ c \in cancelled \/ IsAnswered(c)

\* Nobody stops while there is work, nobody works once all have stopped.
Phases ==
    /\ ctor # "running" =>
         /\ \A t \in Clients : clientPc[t] = "idle"
         /\ \A c \in Calls : verdict[c] = "unsubmitted"
         /\ \A w \in Workers :
              workerPc[w] \in {"unstarted", "check", "asleep", "exited"}
    /\ ctor = "running" => \A w \in Workers : workerPc[w] # "unstarted"
    /\ ctor = "spawning" => ~stopping /\ ~joined
    /\ ctor \in {"unwinding", "rejoining", "failed"} => stopping
    /\ joined => stopping
    /\ joined => \A w \in Workers : workerPc[w] \in {"unstarted", "exited"}
    /\ stopping => ~accepting /\ Occupied = {}
    /\ \A t \in Clients :
         /\ clientPc[t] \in ShutdownPcs => ~accepting
         /\ clientPc[t] \in {"wake_all", "joining"} => stopping
    /\ \A w \in Workers : workerPc[w] = "exited" => stopping

IInv ==
    /\ TypeOK
    /\ InOnePlace
    /\ Hands
    /\ FlagBeforeToken
    /\ Answers
    /\ Phases

\* What counting needs on top of it: in_flight, and with it the ready queue,
\* stays within max_pending_requests.
Abandoned == {c \in Calls : verdict[c] = "abandoned"}

Reserved ==
    /\ IsFiniteSet(Occupied) /\ IsFiniteSet(Abandoned)
    /\ Cardinality(Occupied) <= MaxPending
=============================================================================
