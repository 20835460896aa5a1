----------------------- MODULE SchedulerContractProofs -----------------------
(***************************************************************************)
(* ToolScheduler keeps CallLedger, loses no wakeup and counts every        *)
(* admitted call, for every number of calls, keys, workers and clients     *)
(* and every queue bound.                                                  *)
(***************************************************************************)
EXTENDS ToolSchedulerProofs, FiniteSetTheorems

Moves == Ledger!LedgerNext \/ UNCHANGED Ledger!ledgerVars

\* Nobody cancels a call that was not submitted.
NewAreClean == \A c \in cancelled : verdict[c] # "unsubmitted"

-----------------------------------------------------------------------------
(* The ledger in terms of the scheduler's state.                           *)

LEMMA StandingSame ==
    ASSUME NEW c \in Calls,
           verdict'[c] = "unsubmitted" <=> verdict[c] = "unsubmitted",
           verdict'[c] \in Refusals <=> verdict[c] \in Refusals,
           IsInFlight(c)' <=> IsInFlight(c),
           c \in cancelled' <=> c \in cancelled,
           IsAnswered(c)' <=> IsAnswered(c)
    PROVE  Standing(c)' = Standing(c)
BY DEF Standing

\* A call is unfinished exactly if it is in flight.
LEMMA UnfinishedAre ==
    ASSUME IInv, NEW c \in Calls
    PROVE  Standing(c) \in {"pending", "doomed"} <=> IsInFlight(c)
BY DEF IInv, Hands, Standing

LEMMA BusyAre == ASSUME IInv PROVE Ledger!BusyKeys = Occupied
<1>1. Ledger!Unfinished = {c \in Calls : IsInFlight(c)}
  BY UnfinishedAre DEF Ledger!Unfinished, Book
<1>2. ASSUME NEW k \in Occupied
      PROVE  inFlight[k] \in Calls /\ IsInFlight(inFlight[k]) /\ KeyOf[inFlight[k]] = k
  BY DEF IInv, TypeOK, InOnePlace, Filed, Occupied, IsInFlight
<1>3. ASSUME NEW c \in Calls, IsInFlight(c) PROVE KeyOf[c] \in Occupied
  BY <1>3, SchedulerAssumption DEF Occupied, IsInFlight, SchedulerAssumption
<1> QED BY <1>1, <1>2, <1>3 DEF Ledger!BusyKeys

LEMMA RoomIs == ASSUME IInv PROVE Ledger!Room <=> HasRoom
BY BusyAre DEF Ledger!Room, HasRoom, Cardinality, Ledger!Cardinality

LEMMA ErasedOnly ==
    ASSUME IInv, NEW c \in Calls, IsInFlight(c), inFlight' = InFlightWithout(c),
           NEW d \in Calls \ {c}
    PROVE  IsInFlight(d)' <=> IsInFlight(d)
BY SchedulerAssumption DEF IInv, TypeOK, IsInFlight, InFlightWithout, SchedulerAssumption

\* One call moves, the others stay where they are.
LEMMA MoveOne ==
    ASSUME NEW c \in Calls, \A d \in Calls \ {c} : Standing(d)' = Standing(d)
    PROVE  Book' = [Book EXCEPT ![c] = Standing(c)']
BY DEF Book

\* Steps that move no call; they may close admission.
LEMMA NoMove ==
    ASSUME accepting' = accepting \/ accepting' = FALSE,
           UNCHANGED <<inFlight, cancelled, verdict, sent>>,
           \A w \in Workers : \A c \in Calls : AboutToSend(w, c)' <=> AboutToSend(w, c)
    PROVE  Moves
<1>1. ASSUME NEW c \in Calls PROVE Standing(c)' = Standing(c)
  <2>1. IsInFlight(c)' <=> IsInFlight(c) BY DEF IsInFlight
  <2>2. IsAnswered(c)' <=> IsAnswered(c) BY DEF IsAnswered
  <2> QED BY <2>1, <2>2, StandingSame
<1>2. Book' = Book BY <1>1 DEF Book
<1>3. CASE accepting' = accepting BY <1>2, <1>3 DEF Moves, Ledger!ledgerVars
<1>4. CASE accepting' = FALSE
  BY <1>2, <1>4 DEF Moves, Ledger!LedgerNext, Ledger!Closed
<1> QED BY <1>3, <1>4

-----------------------------------------------------------------------------
(* The steps that move calls.                                              *)

LEMMA RejectMoves ==
    ASSUME IInv, NEW t \in Clients, NEW c \in Calls,
           SubmitStopped(t, c) \/ SubmitDuplicate(t, c) \/ SubmitQueueFull(t, c)
    PROVE  Ledger!Refused(c)
<1>1. PICK v \in {"stopped", "duplicate", "queue_full"} :
          verdict[c] = "unsubmitted" /\ verdict' = [verdict EXCEPT ![c] = v]
  BY DEF SubmitStopped, SubmitDuplicate, SubmitQueueFull, Reject
<1>2. UNCHANGED <<accepting, inFlight, cancelled, sent, workerPc, workerCall, workerResult>>
  BY DEF SubmitStopped, SubmitDuplicate, SubmitQueueFull, Reject, controlVars, workerVars
<1>3. ~accepting \/ KeyOf[c] \in Ledger!BusyKeys \/ ~Ledger!Room
  BY BusyAre, RoomIs DEF SubmitStopped, SubmitDuplicate, SubmitQueueFull
<1>4. Standing(c) = "new" BY <1>1 DEF Standing
<1>5. Standing(c)' = "refused" BY <1>1 DEF IInv, TypeOK, Standing, Refusals
<1>6. \A d \in Calls \ {c} : Standing(d)' = Standing(d)
  BY <1>1, <1>2, StandingSame DEF IInv, TypeOK, IsInFlight, IsAnswered, AboutToSend
<1>7. Book' = [Book EXCEPT ![c] = "refused"] BY <1>5, <1>6, MoveOne
<1> QED BY <1>2, <1>3, <1>4, <1>7 DEF Ledger!Refused, Ledger!Move, Book

LEMMA AdmitMoves ==
    ASSUME IInv, NewAreClean, NEW t \in Clients, NEW c \in Calls, SubmitAdmits(t, c)
    PROVE  Ledger!Admitted(c)
<1>1. /\ verdict[c] = "unsubmitted" /\ verdict' = [verdict EXCEPT ![c] = "submitting"]
      /\ inFlight' = [inFlight EXCEPT ![KeyOf[c]] = c]
      /\ accepting /\ KeyOf[c] \notin Occupied /\ HasRoom
  BY DEF SubmitAdmits
<1>2. UNCHANGED <<accepting, cancelled, sent, workerPc, workerCall, workerResult>>
  BY DEF SubmitAdmits, controlVars, workerVars
<1>3. KeyOf[c] \in Keys /\ inFlight[KeyOf[c]] = NoCall
  BY <1>1, SchedulerAssumption DEF SchedulerAssumption, Occupied
<1>4. IsInFlight(c)' BY <1>1, <1>3 DEF IInv, TypeOK, IsInFlight
<1>5. c \notin cancelled BY <1>1 DEF NewAreClean
<1>6. Standing(c) = "new" BY <1>1 DEF Standing
<1>7. Standing(c)' = "pending"
  BY <1>1, <1>2, <1>4, <1>5 DEF IInv, TypeOK, Standing, Refusals
<1>8. ASSUME NEW d \in Calls \ {c} PROVE Standing(d)' = Standing(d)
  <2>1. IsInFlight(d)' <=> IsInFlight(d)
    BY <1>1, <1>3, SchedulerAssumption
    DEF IInv, TypeOK, IsInFlight, SchedulerAssumption
  <2> QED
    BY <1>1, <1>2, <2>1, StandingSame DEF IInv, TypeOK, IsAnswered, AboutToSend
<1>9. Book' = [Book EXCEPT ![c] = "pending"] BY <1>7, <1>8, MoveOne
<1> QED
  BY <1>1, <1>2, <1>6, <1>9, BusyAre, RoomIs DEF Ledger!Admitted, Ledger!Move, Book

LEMMA AbandonMoves ==
    ASSUME IInv, NEW t \in Clients, SubmitAbandons(t), NEW c \in Calls, c = clientCall[t]
    PROVE  Ledger!Abandoned(c)
<1>1. c \in Calls /\ IsInFlight(c)
  BY AdmittedIsInFlight DEF SubmitAbandons
<1>2. /\ verdict' = [verdict EXCEPT ![c] = "abandoned"]
      /\ inFlight' = InFlightWithout(c)
  BY DEF SubmitAbandons
<1>3. UNCHANGED <<accepting, cancelled, sent, workerPc, workerCall, workerResult>>
  BY DEF SubmitAbandons, controlVars, workerVars
<1>4. Standing(c) \in {"pending", "doomed"} BY <1>1, UnfinishedAre
<1>5. Standing(c)' = "refused" BY <1>1, <1>2 DEF IInv, TypeOK, Standing, Refusals
<1>6. ASSUME NEW d \in Calls \ {c} PROVE Standing(d)' = Standing(d)
  <2>1. IsInFlight(d)' <=> IsInFlight(d) BY <1>1, <1>2, ErasedOnly
  <2> QED
    BY <1>2, <1>3, <2>1, StandingSame DEF IInv, TypeOK, IsAnswered, AboutToSend
<1>7. Book' = [Book EXCEPT ![c] = "refused"] BY <1>1, <1>5, <1>6, MoveOne
<1> QED BY <1>1, <1>3, <1>4, <1>7 DEF Ledger!Abandoned, Ledger!Move, Book

LEMMA CancelMoves ==
    ASSUME IInv, NEW t \in Clients, NEW k \in Keys, Cancel(t, k),
           NEW c \in Calls, c = inFlight[k]
    PROVE  Moves
<1>1. c \in Calls /\ IsInFlight(c)
  BY DEF Cancel, Occupied, IInv, TypeOK, InOnePlace, Filed, IsInFlight
<1>2. cancelled' = cancelled \cup {c} BY DEF Cancel, Flag
<1>3. UNCHANGED <<accepting, inFlight, verdict, sent, workerPc, workerCall, workerResult>>
  BY DEF Cancel, schedVars, workerVars, history
<1>4. \A d \in Calls : /\ IsInFlight(d)' <=> IsInFlight(d)
                       /\ IsAnswered(d)' <=> IsAnswered(d)
  BY <1>3 DEF IsInFlight, IsAnswered, AboutToSend
<1>5. \A d \in Calls \ {c} : Standing(d)' = Standing(d)
  BY <1>2, <1>3, <1>4, StandingSame
<1>6. Standing(c) \in {"pending", "doomed"} /\ Standing(c)' = "doomed"
  BY <1>1, <1>2, <1>3, <1>4 DEF IInv, Hands, Standing
<1>7. Book' = [Book EXCEPT ![c] = "doomed"] BY <1>1, <1>5, <1>6, MoveOne
<1>8. CASE Standing(c) = "pending"
  BY <1>1, <1>3, <1>7, <1>8
  DEF Moves, Ledger!LedgerNext, Ledger!Doomed, Ledger!Move, Book
<1>9. CASE Standing(c) = "doomed"
  BY <1>1, <1>3, <1>7, <1>9 DEF Moves, Ledger!ledgerVars, Book
<1> QED BY <1>6, <1>8, <1>9

\* request_stop(), of a client or of a callback.
LEMMA StopMoves ==
    ASSUME IInv, NEW t \in Threads, StopAll(t),
           UNCHANGED <<inFlight, verdict, sent>>,
           \A w \in Workers : \A c \in Calls : AboutToSend(w, c)' <=> AboutToSend(w, c)
    PROVE  Ledger!Stopped
<1>1. accepting' = FALSE /\ cancelled' = cancelled \cup InFlightCalls
  BY DEF StopAll, Flag
<1>2. \A c \in Calls : /\ IsInFlight(c)' <=> IsInFlight(c)
                       /\ IsAnswered(c)' <=> IsAnswered(c)
                       /\ c \in InFlightCalls <=> IsInFlight(c)
  BY InFlightCallsAre DEF IInv, InOnePlace, IsInFlight, IsAnswered
<1>3. \A c \in Calls : Standing(c)' = IF Standing(c) = "pending" THEN "doomed" ELSE Standing(c)
  BY <1>1, <1>2 DEF Standing
<1>4. Book' = [c \in Calls |-> IF Book[c] = "pending" THEN "doomed" ELSE Book[c]]
  BY <1>3 DEF Book
<1> QED BY <1>1, <1>4 DEF Ledger!Stopped

LEMMA FinishMoves ==
    ASSUME IInv, NEW w \in Workers, Finish(w), NEW c \in Calls, c = workerCall[w]
    PROVE  Ledger!Resolved(c)
<1>1. c \in Calls /\ IsInFlight(c)
  BY HeldIsInFlight DEF Finish, HoldingPcs
<1>2. /\ inFlight' = InFlightWithout(c)
      /\ workerPc' = [workerPc EXCEPT ![w] = "notifying"]
      /\ workerResult' = [workerResult EXCEPT ![w] = IF Sends(w) THEN @ ELSE "none"]
      /\ UNCHANGED <<accepting, cancelled, verdict, sent, workerCall>>
  BY <1>1 DEF Finish, controlVars, history
<1>3. Sends(w) <=> c \notin cancelled
  BY <1>1 DEF Finish, Sends, IInv, FlagBeforeToken
<1>4. sent[c] = <<>> /\ verdict[c] \notin Refusals \cup {"unsubmitted"}
  BY <1>1 DEF IInv, Answers, Hands
<1>5. \A v \in Workers : workerCall[v] = c => v = w
  BY <1>1, SchedulerAssumption DEF IInv, InOnePlace, Apart, SchedulerAssumption
<1>6. ~IsInFlight(c)'
  BY <1>1, <1>2, SchedulerAssumption
  DEF IInv, TypeOK, IsInFlight, InFlightWithout, SchedulerAssumption
<1>7. workerPc \in [Workers -> WorkerPcs] /\ workerResult \in [Workers -> Results \cup {"none"}]
  BY DEF IInv, TypeOK
<1>8. workerResult[w] # "none" \/ c \in cancelled
  BY DEF Finish, IInv, FlagBeforeToken
<1>9. IsAnswered(c)' <=> c \notin cancelled
  BY <1>1, <1>2, <1>3, <1>4, <1>5, <1>7, <1>8 DEF IsAnswered, AboutToSend
<1>10. ASSUME NEW d \in Calls \ {c} PROVE Standing(d)' = Standing(d)
  <2>1. IsInFlight(d)' <=> IsInFlight(d) BY <1>1, <1>2, ErasedOnly
  <2>2. IsAnswered(d)' <=> IsAnswered(d)
    BY <1>2, <1>7 DEF IsAnswered, AboutToSend
  <2> QED BY <1>2, <2>1, <2>2, StandingSame
<1>11. CASE c \in cancelled
  <2>1. Standing(c) = "doomed" /\ Standing(c)' = "suppressed"
    BY <1>1, <1>2, <1>4, <1>6, <1>9, <1>11 DEF Standing
  <2>2. Book' = [Book EXCEPT ![c] = "suppressed"] BY <1>1, <1>10, <2>1, MoveOne
  <2> QED BY <1>1, <1>2, <2>1, <2>2 DEF Ledger!Resolved, Ledger!Move, Book
<1>12. CASE c \notin cancelled
  <2>1. Standing(c) = "pending" /\ Standing(c)' = "answered"
    BY <1>1, <1>2, <1>4, <1>6, <1>9, <1>12 DEF Standing
  <2>2. Book' = [Book EXCEPT ![c] = "answered"] BY <1>1, <1>10, <2>1, MoveOne
  <2> QED BY <1>1, <1>2, <2>1, <2>2 DEF Ledger!Resolved, Ledger!Move, Book
<1> QED BY <1>11, <1>12

\* The completion is entered: the call was answered from Finish on.
LEMMA CompletesMoves ==
    ASSUME IInv, NEW w \in Workers, FinishCompletes(w)
    PROVE  Moves
<1> DEFINE c == workerCall[w]
<1>1. workerPc[w] = "notifying" /\ workerResult[w] # "none"
  BY DEF FinishCompletes, HasAnswer
<1>2. c \in Calls BY <1>1, DoneIsNotInFlight DEF DonePcs
<1>3. /\ workerPc' = [workerPc EXCEPT ![w] = "completing"]
      /\ sent' = [sent EXCEPT ![c] = Append(@, workerResult[w])]
      /\ UNCHANGED <<accepting, inFlight, cancelled, verdict, workerCall, workerResult>>
  BY DEF FinishCompletes, schedVars, controlVars
<1>4. workerPc \in [Workers -> WorkerPcs] /\ sent \in [Calls -> Seq(Results)]
      /\ workerResult[w] \in Results
  BY <1>1 DEF IInv, TypeOK
<1>5. sent'[c] # <<>>
  <2>1. sent'[c] = Append(sent[c], workerResult[w]) BY <1>2, <1>3, <1>4
  <2>2. Len(sent'[c]) = Len(sent[c]) + 1 /\ Len(sent[c]) \in Nat BY <1>2, <1>4, <2>1
  <2> QED BY <2>2
<1>6. ASSUME NEW d \in Calls PROVE IsAnswered(d)' <=> IsAnswered(d)
  <2>1. CASE d = c BY <1>1, <1>5, <2>1 DEF IsAnswered, AboutToSend
  <2>2. CASE d # c
    <3>1. sent'[d] = sent[d] BY <1>3, <1>4, <2>2
    <3>2. \A v \in Workers : AboutToSend(v, d)' <=> AboutToSend(v, d)
      BY <1>3, <1>4, <2>2 DEF AboutToSend
    <3> QED BY <3>1, <3>2 DEF IsAnswered
  <2> QED BY <2>1, <2>2
<1>7. \A d \in Calls : Standing(d)' = Standing(d)
  BY <1>3, <1>6, StandingSame DEF IsInFlight
<1> QED BY <1>3, <1>7 DEF Moves, Ledger!ledgerVars, Book

-----------------------------------------------------------------------------
(* Every step keeps the ledger.                                            *)

LEMMA LedgerStep ==
    ASSUME IInv, NewAreClean, [Next]_vars
    PROVE  Moves
<1> USE DEF schedVars, controlVars, workerVars, clientVars, history
<1>0. /\ workerPc \in [Workers -> WorkerPcs] /\ workerCall \in [Workers -> Calls \cup {NoCall}]
      /\ workerResult \in [Workers -> Results \cup {"none"}]
  BY DEF IInv, TypeOK
<1>1. ASSUME NEW w \in Workers,
             \/ SpawnWorker(w) \/ WorkerSleep(w) \/ WorkerExit(w)
             \/ WorkerWakesSpuriously(w)
      PROVE  Moves
  BY <1>0, <1>1, NoMove
  DEF SpawnWorker, WorkerSleep, WorkerExit, WorkerWakesSpuriously, WorkerGoes, AboutToSend
<1>2. ASSUME NEW w \in Workers, WorkerTake(w) PROVE Moves
  BY <1>0, <1>2, NoMove DEF WorkerTake, AboutToSend
<1>3. ASSUME NEW w \in Workers,
             \/ RunSkips(w) \/ RunTimesOut(w) \/ RunExecutes(w)
             \/ RunTimesOutLate(w) \/ RunKeepsResult(w)
             \/ \E result \in ToolResults : ExecutorReturns(w, result)
      PROVE  Moves
  <2>1. PICK pc \in {"finishing", "executing", "returned"} : \E result : Proceed(w, pc, result)
    BY <1>3
    DEF RunSkips, RunTimesOut, RunExecutes, RunTimesOutLate, RunKeepsResult, ExecutorReturns
  <2>2. workerPc[w] # "notifying"
    BY <1>3
    DEF RunSkips, RunTimesOut, RunExecutes, RunTimesOutLate, RunKeepsResult, ExecutorReturns
  <2> QED BY <1>0, <2>1, <2>2, NoMove DEF Proceed, AboutToSend
<1>4. ASSUME NEW w \in Workers, Finish(w) PROVE Moves
  <2>1. workerCall[w] \in Calls BY <1>4, HeldIsInFlight DEF Finish, HoldingPcs
  <2> QED BY <1>4, <2>1, FinishMoves DEF Moves, Ledger!LedgerNext
<1>5. ASSUME NEW w \in Workers,
             \/ FinishQuietly(w) \/ CompletionReturns(w) \/ CompletionShutsDown(w)
             \/ WorkerSignalled(w)
      PROVE  Moves
  <2>1. /\ BackToLoop(w) /\ UNCHANGED <<inFlight, cancelled, verdict, sent>>
        /\ accepting' = accepting \/ accepting' = FALSE
        /\ workerPc[w] # "notifying" \/ workerResult[w] = "none"
    BY <1>5 DEF FinishQuietly, CompletionReturns, CompletionShutsDown, WorkerSignalled
  <2> QED BY <1>0, <2>1, NoMove DEF BackToLoop, AboutToSend
<1>6. ASSUME NEW w \in Workers, FinishCompletes(w) PROVE Moves
  BY <1>6, CompletesMoves
<1>7. ASSUME NEW w \in Workers, CompletionRequestsStop(w) PROVE Moves
  <2>1. \A v \in Workers : \A c \in Calls : AboutToSend(v, c)' <=> AboutToSend(v, c)
    BY <1>0, <1>7 DEF CompletionRequestsStop, AboutToSend
  <2> QED
    BY <1>7, <2>1, StopMoves DEF CompletionRequestsStop, Threads, Moves, Ledger!LedgerNext
<1>8. ASSUME NEW t \in Clients, RequestStop(t) PROVE Moves
  <2>1. \A v \in Workers : \A c \in Calls : AboutToSend(v, c)' <=> AboutToSend(v, c)
    BY <1>8 DEF RequestStop, AboutToSend
  <2> QED BY <1>8, <2>1, StopMoves DEF RequestStop, Threads, Moves, Ledger!LedgerNext
<1>9. ASSUME NEW t \in Clients, NEW k \in Keys, Cancel(t, k) PROVE Moves
  <2>1. inFlight[k] \in Calls BY <1>9 DEF Cancel, Occupied, IInv, TypeOK
  <2> QED BY <1>9, <2>1, CancelMoves
<1>10. ASSUME NEW t \in Clients, NEW c \in Calls, Submit(t, c) PROVE Moves
  BY <1>10, RejectMoves, AdmitMoves DEF Submit, Moves, Ledger!LedgerNext
<1>11. ASSUME NEW t \in Clients, SubmitAbandons(t) PROVE Moves
  <2>1. clientCall[t] \in Calls BY <1>11, AdmittedIsInFlight DEF SubmitAbandons
  <2> QED BY <1>11, <2>1, AbandonMoves DEF Moves, Ledger!LedgerNext
<1>12. ASSUME NEW t \in Clients, EnqueueNotifies(t) PROVE Moves
  <2> DEFINE c == clientCall[t]
  <2>1. c \in Calls /\ verdict[c] = "submitting"
    BY <1>12 DEF EnqueueNotifies, IInv, TypeOK, Hands
  <2>2. /\ verdict' = [verdict EXCEPT ![c] = "accepted"]
        /\ UNCHANGED <<accepting, inFlight, cancelled, sent, workerCall, workerResult>>
        /\ \A w \in Workers : workerPc'[w] = "notifying" <=> workerPc[w] = "notifying"
    BY <1>0, <1>12 DEF EnqueueNotifies, NotifyOneReady, Asleep
  <2>3. \A d \in Calls : /\ verdict'[d] = "unsubmitted" <=> verdict[d] = "unsubmitted"
                         /\ verdict'[d] \in Refusals <=> verdict[d] \in Refusals
    BY <2>1, <2>2 DEF IInv, TypeOK, Refusals
  <2>4. \A d \in Calls : Standing(d)' = Standing(d)
    BY <2>2, <2>3, StandingSame DEF IsInFlight, IsAnswered, AboutToSend
  <2> QED BY <2>2, <2>4 DEF Moves, Ledger!ledgerVars, Book
<1>13. ASSUME NEW t \in Clients,
              \/ Enqueue(t) \/ AbandonNotifies(t) \/ ClientSignalled(t)
              \/ \E c \in Calls : ClientSignals(t, c)
       PROVE  Moves
  BY <1>13, NoMove
  DEF Enqueue, AbandonNotifies, ClientSignalled, ClientSignals, Signal, AboutToSend
<1>14. ASSUME NEW w \in Workers, NEW c \in Calls, WorkerSignals(w, c) PROVE Moves
  BY <1>14, NoMove DEF WorkerSignals, Signal, AboutToSend
<1>15. ASSUME NEW t \in Clients,
              \/ ShutdownEnters(t) \/ ShutdownDrains(t) \/ ShutdownJoins(t)
              \/ ShutdownCalled(t) \/ ShutdownWakesSpuriously(t)
       PROVE  Moves
  BY <1>15, NoMove
  DEF ShutdownEnters, ShutdownDrains, ShutdownJoins, ShutdownCalled,
      ShutdownWakesSpuriously, ShutdownGoes, AboutToSend
<1>16. ASSUME NEW t \in Clients, ShutdownNotifies(t) PROVE Moves
  BY <1>0, <1>16, NoMove DEF ShutdownNotifies, ShutdownGoes, NotifyAllReady, AboutToSend
<1>17. CASE ConstructorReturns \/ SpawnFails \/ UnwindJoin
  BY <1>17, NoMove
  DEF ConstructorReturns, SpawnFails, UnwindJoin, ConstructorGoes, AboutToSend
<1>18. CASE UnwindNotify
  BY <1>0, <1>18, NoMove DEF UnwindNotify, ConstructorGoes, NotifyAllReady, AboutToSend
<1>19. CASE (\E c \in Calls : Expire(c)) \/ UNCHANGED vars
  BY <1>19, NoMove DEF Expire, vars, AboutToSend
<1> QED
  BY <1>1, <1>2, <1>3, <1>4, <1>5, <1>6, <1>7, <1>8, <1>9, <1>10, <1>11, <1>12, <1>13,
     <1>14, <1>15, <1>16, <1>17, <1>18, <1>19
  DEF Next, ConstructorStep, WorkerStep, ClientStep, ClientCalls, Failed

-----------------------------------------------------------------------------
(* The two invariants that come on top of IInv.                            *)

\* What is in flight was submitted.
LEMMA SubmittedAre ==
    ASSUME IInv
    PROVE  /\ \A k \in Occupied : verdict[inFlight[k]] # "unsubmitted"
           /\ \A c \in InFlightCalls : verdict[c] # "unsubmitted"
<1>1. ASSUME NEW k \in Occupied PROVE verdict[inFlight[k]] # "unsubmitted"
  <2>1. inFlight[k] \in Calls /\ IsInFlight(inFlight[k])
    BY DEF IInv, TypeOK, InOnePlace, Filed, Occupied, IsInFlight
  <2> QED BY <2>1 DEF IInv, Hands
<1> QED BY <1>1 DEF InFlightCalls

Extra == NewAreClean /\ NoLostWakeup

\* Only calls in flight are flagged.  A worker goes to sleep over an empty queue
\* and not once stopping is set, a shutdown not over an empty in_flight; and
\* whoever pushes, stops or empties has a notification to send.
LEMMA ExtraStep == ASSUME IInv, Extra, [Next]_vars PROVE Extra'
<1> USE SchedulerAssumption
    DEF IInv, TypeOK, Phases, Extra, NewAreClean, NoLostWakeup, WorkIsNoticed,
        StopIsNoticed, DrainIsNoticed, Asleep, Occupied, schedVars, controlVars,
        workerVars, clientVars, history
<1>1. ASSUME NEW w \in Workers, SpawnWorker(w) PROVE Extra'
  BY <1>1 DEF SpawnWorker, WorkerGoes
<1>2. ASSUME NEW w \in Workers, WorkerSleep(w) \/ WorkerExit(w) \/ WorkerWakesSpuriously(w)
      PROVE  Extra'
  BY <1>2 DEF WorkerSleep, WorkerExit, WorkerWakesSpuriously, WorkerGoes
<1>3. ASSUME NEW w \in Workers, WorkerTake(w) PROVE Extra'
  BY <1>3 DEF WorkerTake
<1>4. ASSUME NEW w \in Workers, 
             RunSkips(w) \/ RunTimesOut(w) \/ RunExecutes(w) \/ RunTimesOutLate(w)
                 \/ RunKeepsResult(w) \/ \E r \in ToolResults : ExecutorReturns(w, r)
      PROVE  Extra'
  BY <1>4 DEF RunSkips, RunTimesOut, RunExecutes, RunTimesOutLate, RunKeepsResult,
           ExecutorReturns, Proceed
<1>5. ASSUME NEW w \in Workers, Finish(w) PROVE Extra'
  BY <1>5 DEF Finish, InFlightWithout
<1>6. ASSUME NEW w \in Workers, FinishQuietly(w) \/ FinishCompletes(w) PROVE Extra'
  <2> USE DEF FinishQuietly, FinishCompletes, BackToLoop, WokenByDone
  <2>0. clientPc' = [t \in Clients |->
                         IF clientPc[t] = "drain_asleep" THEN "drain" ELSE clientPc[t]]
    BY <1>6
  <2>1. \A t \in Clients : clientPc'[t] # "drain_asleep"
    BY <2>0
  <2>2. /\ workerPc[w] = "notifying" /\ workerPc'[w] # "asleep"
        /\ \A v \in Workers \ {w} : workerPc'[v] = workerPc[v]
    BY <1>6
  <2>3. \A t \in Clients, pc \in {"enqueued", "wake_all"} :
            clientPc[t] = pc => clientPc'[t] = pc
    BY <2>0
  <2>4. /\ UNCHANGED <<ready, stopping, ctor, cancelled, stopRequested, verdict>>
        /\ Asleep' = Asleep
    BY <1>6, <2>2
  <2>5. NewAreClean' BY <2>4
  <2>6. WorkIsNoticed' BY <2>2, <2>3, <2>4
  <2>7. StopIsNoticed' BY <2>3, <2>4
  <2>8. DrainIsNoticed' BY <2>1
  <2> QED BY <2>5, <2>6, <2>7, <2>8
<1>7. ASSUME NEW w \in Workers, 
             CompletionReturns(w) \/ CompletionShutsDown(w) \/ WorkerSignalled(w)
      PROVE  Extra'
  BY <1>7 DEF CompletionReturns, CompletionShutsDown, WorkerSignalled, BackToLoop
<1>8. ASSUME NEW w \in Workers, CompletionRequestsStop(w) PROVE Extra'
  BY <1>8, SubmittedAre DEF CompletionRequestsStop, StopAll, Flag
<1>9. ASSUME NEW w \in Workers, NEW c \in Calls, WorkerSignals(w, c) PROVE Extra'
  BY <1>9 DEF WorkerSignals, Signal
<1>10. ASSUME NEW t \in Clients, Enqueue(t) PROVE Extra'
  BY <1>10 DEF Enqueue
<1>11. ASSUME NEW t \in Clients, EnqueueNotifies(t) PROVE Extra'
  BY <1>11 DEF EnqueueNotifies, NotifyOneReady
<1>12. ASSUME NEW t \in Clients, SubmitAbandons(t) PROVE Extra'
  BY <1>12 DEF SubmitAbandons, InFlightWithout
<1>13. ASSUME NEW t \in Clients, AbandonNotifies(t) PROVE Extra'
  BY <1>13 DEF AbandonNotifies, WokenByDone
<1>14. ASSUME NEW t \in Clients, ClientSignalled(t) \/ \E c \in Calls : ClientSignals(t, c)
      PROVE  Extra'
  BY <1>14 DEF ClientSignalled, ClientSignals, Signal
<1>15. ASSUME NEW t \in Clients, ShutdownCalled(t) \/ ShutdownEnters(t) PROVE Extra'
  BY <1>15 DEF ShutdownCalled, ShutdownEnters, ShutdownGoes, Idle
<1>16. ASSUME NEW t \in Clients, ShutdownDrains(t) \/ ShutdownWakesSpuriously(t)
      PROVE  Extra'
  BY <1>16 DEF ShutdownDrains, ShutdownWakesSpuriously, ShutdownGoes, Drained
<1>17. ASSUME NEW t \in Clients, ShutdownNotifies(t) \/ ShutdownJoins(t) PROVE Extra'
  BY <1>17 DEF ShutdownNotifies, ShutdownJoins, ShutdownGoes, NotifyAllReady
<1>18. ASSUME NEW t \in Clients, RequestStop(t) PROVE Extra'
  BY <1>18, SubmittedAre DEF RequestStop, StopAll, Flag, Idle
<1>19. ASSUME NEW t \in Clients, NEW k \in Keys, Cancel(t, k) PROVE Extra'
  BY <1>19, SubmittedAre DEF Cancel, Flag, Idle
<1>20. ASSUME NEW t \in Clients, NEW c \in Calls, 
             SubmitStopped(t, c) \/ SubmitDuplicate(t, c) \/ SubmitQueueFull(t, c)
      PROVE  Extra'
  BY <1>20 DEF SubmitStopped, SubmitDuplicate, SubmitQueueFull, Reject, Idle
<1>21. ASSUME NEW t \in Clients, NEW c \in Calls, SubmitAdmits(t, c) PROVE Extra'
  BY <1>21 DEF SubmitAdmits, Idle
<1>22. ASSUME NEW c \in Calls, Expire(c) PROVE Extra'
  BY <1>22 DEF Expire
<1>23. ASSUME ConstructorReturns \/ SpawnFails PROVE Extra'
  BY <1>23 DEF ConstructorReturns, SpawnFails, ConstructorGoes
<1>24. ASSUME UnwindNotify \/ UnwindJoin PROVE Extra'
  BY <1>24 DEF UnwindNotify, UnwindJoin, ConstructorGoes, NotifyAllReady
<1>25. ASSUME UNCHANGED vars PROVE Extra'
  BY <1>25 DEF vars
<1> QED
  BY <1>1, <1>2, <1>3, <1>4, <1>5, <1>6, <1>7, <1>8, <1>9, <1>10, <1>11, <1>12,
     <1>13, <1>14, <1>15, <1>16, <1>17, <1>18, <1>19, <1>20, <1>21, <1>22, <1>23, <1>24,
     <1>25
  DEF Next, ConstructorStep, WorkerStep, ClientStep, ClientCalls, Submit, Failed

-----------------------------------------------------------------------------
LEMMA ContractInvariance == Spec => [](IInv /\ Extra)
<1> DEFINE Inv == IInv /\ Extra
<1>1. Init => Inv
  <2> SUFFICES ASSUME Init PROVE Inv OBVIOUS
  <2>1. IInv BY IInvInit
  <2>2. NewAreClean BY DEF Init, NewAreClean
  <2>3. NoLostWakeup
    BY DEF Init, NoLostWakeup, WorkIsNoticed, StopIsNoticed, DrainIsNoticed, Asleep
  <2> QED BY <2>1, <2>2, <2>3 DEF Extra
<1>2. Inv /\ [Next]_vars => Inv'
  <2> SUFFICES ASSUME Inv, [Next]_vars PROVE Inv' OBVIOUS
  <2>1. IInv'
    BY TypeOKStep, InOnePlaceStep, HandsStep, FlagBeforeTokenStep, AnswersStep, PhasesStep
    DEF IInv
  <2>2. Extra' BY ExtraStep
  <2> QED BY <2>1, <2>2
<1> QED BY <1>1, <1>2, PTL DEF Spec

\* Nobody sleeps with nobody left to wake him, although every notification is
\* sent after the lock was released.
THEOREM WakeupsAreNotLost == Spec => []NoLostWakeup
<1>1. Extra => NoLostWakeup BY DEF Extra
<1> QED BY <1>1, ContractInvariance, PTL

\* The scheduler implements the safety of its contract.
THEOREM SchedulerKeepsLedger == Spec => KeepsLedger
<1>1. Init => Ledger!LedgerInit
  BY DEF Init, Ledger!LedgerInit, Book, Standing
<1>2. IInv /\ Extra /\ [Next]_vars => [Ledger!LedgerNext]_(Ledger!ledgerVars)
  BY LedgerStep DEF Moves, Extra
<1> QED
  BY <1>1, <1>2, ContractInvariance, PTL DEF Spec, KeepsLedger, Ledger!LedgerSpec

-----------------------------------------------------------------------------
(***************************************************************************)
(* The two properties of ToolScheduler that count: the ready queue stays   *)
(* within the storage reserved for it, and the statistics account for      *)
(* every admitted call.  Only Finish, SubmitAdmits and SubmitAbandons      *)
(* change what is counted; InOnePlace makes each of them count once.       *)
(***************************************************************************)

\* What the three steps do to in_flight, the statistics and the verdicts.

\* The counters of stats after a step, against those before.
Counted(accepted, completed, cancels, late) ==
    /\ stats'["accepted"] = stats["accepted"] + accepted
    /\ stats'["completed"] = stats["completed"] + completed
    /\ stats'["cancelled"] = stats["cancelled"] + cancels
    /\ stats'["timed_out"] = stats["timed_out"] + late

\* Steps that touch nothing of what is counted.
Uncounted == Counted(0, 0, 0, 0) /\ Occupied' = Occupied /\ Abandoned' = Abandoned

\* A call is admitted, finished or abandoned.
Admission ==
    /\ Counted(1, 0, 0, 0) /\ Abandoned' = Abandoned /\ HasRoom
    /\ \E k : k \notin Occupied /\ Occupied' = Occupied \cup {k}

Completion ==
    /\ \/ Counted(0, 1, 0, 0) \/ Counted(0, 1, 0, 1) \/ Counted(0, 0, 1, 0)
    /\ Abandoned' = Abandoned
    /\ \E k \in Occupied : Occupied' = Occupied \ {k}

Abandonment ==
    /\ Counted(0, 0, 0, 0)
    /\ \E k \in Occupied : Occupied' = Occupied \ {k}
    /\ \E c : c \notin Abandoned /\ Abandoned' = Abandoned \cup {c}

LEMMA StatsAre ==
    ASSUME TypeOK
    PROVE  \A n \in Counters : stats[n] \in Nat
BY DEF TypeOK

LEMMA CountIs ==
    ASSUME TypeOK, NEW cs, stats' = Count(cs)
    PROVE  \A n \in Counters : stats'[n] = IF n \in cs THEN stats[n] + 1 ELSE stats[n]
BY DEF Count

\* Nothing that is counted has moved.
LEMMA SameUncounted ==
    ASSUME TypeOK, UNCHANGED <<inFlight, stats, verdict>>
    PROVE  Uncounted
<1>1. Occupied' = Occupied /\ Abandoned' = Abandoned
  BY DEF Occupied, Abandoned
<1>2. Counted(0, 0, 0, 0)
  BY StatsAre DEF Counted, Counters
<1> QED BY <1>1, <1>2 DEF Uncounted

LEMMA RejectUncounted ==
    ASSUME TypeOK, NEW t \in Clients, NEW c \in Calls,
           SubmitStopped(t, c) \/ SubmitDuplicate(t, c) \/ SubmitQueueFull(t, c)
    PROVE  Uncounted
<1>1. PICK v \in {"stopped", "duplicate", "queue_full"},
           cs \in {{}, {"duplicate_rejections"}, {"queue_rejections"}} :
           Reject(t, c, v, cs)
  BY DEF SubmitStopped, SubmitDuplicate, SubmitQueueFull
<1>2. /\ verdict[c] = "unsubmitted" /\ verdict' = [verdict EXCEPT ![c] = v]
      /\ stats' = Count(cs) /\ inFlight' = inFlight
  BY <1>1 DEF Reject
<1>3. \A d \in Calls : verdict'[d] = "abandoned" <=> verdict[d] = "abandoned"
  BY <1>2 DEF TypeOK
<1>4. Abandoned' = Abandoned /\ Occupied' = Occupied
  BY <1>2, <1>3 DEF Abandoned, Occupied
<1>5. Counted(0, 0, 0, 0)
  BY <1>2, CountIs, StatsAre DEF Counted, Counters
<1> QED BY <1>4, <1>5 DEF Uncounted

LEMMA NotifiesUncounted ==
    ASSUME IInv, NEW t \in Clients, EnqueueNotifies(t)
    PROVE  Uncounted
<1>1. /\ verdict[clientCall[t]] = "submitting" /\ clientCall[t] \in Calls
  BY DEF EnqueueNotifies, IInv, TypeOK, Hands
<1>2. /\ verdict' = [verdict EXCEPT ![clientCall[t]] = "accepted"]
      /\ UNCHANGED <<inFlight, stats>>
  BY DEF EnqueueNotifies, schedVars
<1>3. \A d \in Calls : verdict'[d] = "abandoned" <=> verdict[d] = "abandoned"
  BY <1>1, <1>2 DEF IInv, TypeOK
<1>4. Abandoned' = Abandoned /\ Occupied' = Occupied
  BY <1>2, <1>3 DEF Abandoned, Occupied
<1>5. Counted(0, 0, 0, 0)
  BY <1>2, StatsAre DEF Counted, Counters, IInv
<1> QED BY <1>4, <1>5 DEF Uncounted

LEMMA AdmitCounts ==
    ASSUME TypeOK, NEW t \in Clients, NEW c \in Calls, SubmitAdmits(t, c)
    PROVE  Admission
<1>1. /\ KeyOf[c] \in Keys /\ KeyOf[c] \notin Occupied /\ HasRoom
      /\ inFlight' = [inFlight EXCEPT ![KeyOf[c]] = c]
      /\ stats' = Count({"accepted"})
      /\ verdict[c] = "unsubmitted" /\ verdict' = [verdict EXCEPT ![c] = "submitting"]
  BY SchedulerAssumption DEF SubmitAdmits
<1>2. Occupied' = Occupied \cup {KeyOf[c]}
  BY <1>1, SchedulerAssumption DEF Occupied, TypeOK
<1>3. \A d \in Calls : verdict'[d] = "abandoned" <=> verdict[d] = "abandoned"
  BY <1>1 DEF TypeOK
<1>4. Abandoned' = Abandoned
  BY <1>3 DEF Abandoned
<1>5. Counted(1, 0, 0, 0)
  BY <1>1, CountIs, StatsAre DEF Counted, Counters
<1> QED BY <1>1, <1>2, <1>4, <1>5 DEF Admission

\* What erase() leaves.
LEMMA ErasedIs ==
    ASSUME TypeOK, NEW c \in Calls, IsInFlight(c), inFlight' = InFlightWithout(c)
    PROVE  KeyOf[c] \in Occupied /\ Occupied' = Occupied \ {KeyOf[c]}
<1>1. KeyOf[c] \in Keys /\ inFlight[KeyOf[c]] = c /\ c # NoCall
  BY SchedulerAssumption DEF IsInFlight
<1> QED BY <1>1 DEF InFlightWithout, Occupied, TypeOK

LEMMA FinishCounts ==
    ASSUME IInv, NEW w \in Workers, Finish(w)
    PROVE  Completion
<1> DEFINE c == workerCall[w]
<1>1. c \in Calls /\ IsInFlight(c)
  BY HeldIsInFlight DEF Finish, HoldingPcs
<1>2. /\ inFlight' = InFlightWithout(c) /\ stats' = Count(FinishCounters(w))
      /\ verdict' = verdict
  BY <1>1 DEF Finish, history
<1>3. FinishCounters(w) \in {{"cancelled"}, {"timed_out", "completed"}, {"completed"}}
  BY <1>1 DEF FinishCounters, TimedOutCounters
<1>4. Abandoned' = Abandoned
  BY <1>2 DEF Abandoned
<1>5. TypeOK
  BY DEF IInv
<1>6. Counted(0, 1, 0, 0) \/ Counted(0, 1, 0, 1) \/ Counted(0, 0, 1, 0)
  <2>1. PICK cs \in {{"cancelled"}, {"timed_out", "completed"}, {"completed"}} :
             stats' = Count(cs)
    BY <1>2, <1>3
  <2>2. \A n \in Counters : stats'[n] = IF n \in cs THEN stats[n] + 1 ELSE stats[n]
    BY <1>5, <2>1, CountIs
  <2>3. \A n \in Counters : stats[n] \in Nat
    BY <1>5, StatsAre
  <2>4. {"accepted", "completed", "cancelled", "timed_out"} \subseteq Counters
    BY DEF Counters
  <2>5. CASE cs = {"cancelled"}
    BY <2>2, <2>3, <2>4, <2>5 DEF Counted
  <2>6. CASE cs = {"timed_out", "completed"}
    BY <2>2, <2>3, <2>4, <2>6 DEF Counted
  <2>7. CASE cs = {"completed"}
    BY <2>2, <2>3, <2>4, <2>7 DEF Counted
  <2> QED BY <2>1, <2>5, <2>6, <2>7
<1> QED BY <1>1, <1>2, <1>4, <1>5, <1>6, ErasedIs DEF Completion

LEMMA AbandonCounts ==
    ASSUME IInv, NEW t \in Clients, SubmitAbandons(t)
    PROVE  Abandonment
<1> DEFINE c == clientCall[t]
<1>1. c \in Calls /\ IsInFlight(c) /\ TypeOK /\ verdict[c] = "submitting"
  BY AdmittedIsInFlight DEF SubmitAbandons, IInv, Hands
<1>2. /\ inFlight' = InFlightWithout(c) /\ stats' = stats
      /\ verdict' = [verdict EXCEPT ![c] = "abandoned"]
  BY DEF SubmitAbandons
<1> HIDE DEF c
<1>3. Abandoned' = Abandoned \cup {c} /\ c \notin Abandoned
  BY <1>1, <1>2 DEF Abandoned, TypeOK
<1>4. Counted(0, 0, 0, 0)
  BY <1>1, <1>2, StatsAre DEF Counted, Counters
<1> QED BY <1>1, <1>2, <1>3, <1>4, ErasedIs DEF Abandonment

\* Every step counts as one of these four.
LEMMA StepCounts ==
    ASSUME IInv, [Next]_vars
    PROVE  Uncounted \/ Admission \/ Completion \/ Abandonment
<1> USE DEF schedVars, history
<1>0. TypeOK
  BY DEF IInv
<1>1. ASSUME UNCHANGED <<inFlight, stats, verdict>> PROVE Uncounted
  BY <1>0, <1>1, SameUncounted
<1>2. ASSUME NEW w \in Workers, WorkerStep(w) \/ WorkerWakesSpuriously(w)
      PROVE  Uncounted \/ Completion
  <2>1. CASE Finish(w)
    BY <2>1, FinishCounts
  <2>2. CASE WorkerSleep(w) \/ WorkerExit(w) \/ WorkerWakesSpuriously(w) \/ WorkerTake(w)
    BY <1>1, <2>2
    DEF WorkerSleep, WorkerExit, WorkerWakesSpuriously, WorkerGoes, WorkerTake
  <2>3. CASE \/ RunSkips(w) \/ RunTimesOut(w) \/ RunExecutes(w)
             \/ RunTimesOutLate(w) \/ RunKeepsResult(w)
             \/ \E result \in ToolResults : ExecutorReturns(w, result)
    BY <1>1, <2>3
    DEF RunSkips, RunTimesOut, RunExecutes, RunTimesOutLate, RunKeepsResult,
        ExecutorReturns, Proceed
  <2>4. CASE \/ FinishQuietly(w) \/ FinishCompletes(w) \/ CompletionReturns(w)
             \/ CompletionRequestsStop(w) \/ CompletionShutsDown(w) \/ WorkerSignalled(w)
             \/ \E c \in Calls : WorkerSignals(w, c)
    BY <1>1, <2>4
    DEF FinishQuietly, FinishCompletes, CompletionReturns, CompletionRequestsStop,
        CompletionShutsDown, WorkerSignalled, WorkerSignals, Signal
  <2> QED BY <1>2, <2>1, <2>2, <2>3, <2>4 DEF WorkerStep
<1>3. ASSUME NEW t \in Clients,
             ClientStep(t) \/ ClientCalls(t) \/ ShutdownWakesSpuriously(t)
      PROVE  Uncounted \/ Admission \/ Abandonment
  <2>1. ASSUME NEW c \in Calls, Submit(t, c) PROVE Uncounted \/ Admission
    BY <1>0, <2>1, AdmitCounts, RejectUncounted DEF Submit
  <2>2. CASE SubmitAbandons(t)
    BY <2>2, AbandonCounts
  <2>3. CASE EnqueueNotifies(t)
    BY <2>3, NotifiesUncounted
  <2>4. CASE \/ Enqueue(t) \/ AbandonNotifies(t) \/ ClientSignalled(t)
             \/ \E c \in Calls : ClientSignals(t, c)
             \/ \E k \in Keys : Cancel(t, k)
             \/ RequestStop(t)
    BY <1>1, <2>4
    DEF Enqueue, AbandonNotifies, ClientSignalled, ClientSignals, Signal, Cancel,
        RequestStop
  <2>5. CASE \/ ShutdownEnters(t) \/ ShutdownDrains(t) \/ ShutdownNotifies(t)
             \/ ShutdownJoins(t) \/ ShutdownCalled(t) \/ ShutdownWakesSpuriously(t)
    BY <1>1, <2>5
    DEF ShutdownEnters, ShutdownDrains, ShutdownNotifies, ShutdownJoins, ShutdownCalled,
        ShutdownWakesSpuriously, ShutdownGoes
  <2> QED BY <1>3, <2>1, <2>2, <2>3, <2>4, <2>5 DEF ClientStep, ClientCalls
<1>4. CASE ConstructorStep \/ SpawnFails
  BY <1>1, <1>4
  DEF ConstructorStep, SpawnWorker, WorkerGoes, ConstructorReturns, UnwindNotify,
      UnwindJoin, SpawnFails, ConstructorGoes
<1>5. CASE (\E c \in Calls : Expire(c)) \/ UNCHANGED vars
  BY <1>1, <1>5 DEF Expire, vars
<1> QED BY <1>2, <1>3, <1>4, <1>5 DEF Next, Failed

-----------------------------------------------------------------------------

LEMMA CardsAre ==
    ASSUME Reserved
    PROVE  Cardinality(Occupied) \in Nat /\ Cardinality(Abandoned) \in Nat
BY FS_CardinalityType DEF Reserved

LEMMA ReservedStep ==
    ASSUME Reserved, Uncounted \/ Admission \/ Completion \/ Abandonment
    PROVE  Reserved'
<1>0. /\ IsFiniteSet(Occupied) /\ IsFiniteSet(Abandoned)
      /\ Cardinality(Occupied) <= MaxPending /\ MaxPending \in Nat
      /\ Cardinality(Occupied) \in Nat
  BY CardsAre, SchedulerAssumption DEF Reserved
<1>1. CASE Uncounted
  BY <1>0, <1>1 DEF Uncounted, Reserved
<1>2. CASE Admission
  <2>1. PICK k : k \notin Occupied /\ Occupied' = Occupied \cup {k}
    BY <1>2 DEF Admission
  <2>2. IsFiniteSet(Occupied') /\ Cardinality(Occupied') = Cardinality(Occupied) + 1
    BY <1>0, <2>1, FS_AddElement
  <2>3. Cardinality(Occupied) < MaxPending /\ Abandoned' = Abandoned
    BY <1>2 DEF Admission, HasRoom
  <2> QED BY <1>0, <2>2, <2>3 DEF Reserved
<1>3. ASSUME NEW k \in Occupied, Occupied' = Occupied \ {k}
      PROVE  IsFiniteSet(Occupied') /\ Cardinality(Occupied') <= MaxPending
  <2>1. IsFiniteSet(Occupied') /\ Cardinality(Occupied') = Cardinality(Occupied) - 1
    BY <1>0, <1>3, FS_RemoveElement
  <2> QED BY <1>0, <2>1
<1>4. CASE Completion
  BY <1>0, <1>3, <1>4 DEF Completion, Reserved
<1>5. CASE Abandonment
  <2>1. PICK c : c \notin Abandoned /\ Abandoned' = Abandoned \cup {c}
    BY <1>5 DEF Abandonment
  <2>2. IsFiniteSet(Abandoned')
    BY <1>0, <2>1, FS_AddElement
  <2> QED BY <1>3, <1>5, <2>2 DEF Abandonment, Reserved
<1> QED BY <1>1, <1>2, <1>4, <1>5

LEMMA ExactStep ==
    ASSUME TypeOK, Reserved, StatsExact,
           Uncounted \/ Admission \/ Completion \/ Abandonment
    PROVE  StatsExact'
<1>0. /\ IsFiniteSet(Occupied) /\ IsFiniteSet(Abandoned)
      /\ Cardinality(Occupied) \in Nat /\ Cardinality(Abandoned) \in Nat
  BY CardsAre DEF Reserved
<1>1. PICK a \in Nat, d \in Nat, s \in Nat, l \in Nat, o \in Nat, b \in Nat :
         /\ a = stats["accepted"] /\ d = stats["completed"]
         /\ s = stats["cancelled"] /\ l = stats["timed_out"]
         /\ o = Cardinality(Occupied) /\ b = Cardinality(Abandoned)
  BY <1>0, StatsAre DEF Counters
<1>2. a = d + s + o + b /\ l <= d
  BY <1>1 DEF StatsExact, Abandoned
<1>3. ASSUME /\ stats'["accepted"] = stats'["completed"] + stats'["cancelled"]
                                       + Cardinality(Occupied') + Cardinality(Abandoned')
             /\ stats'["timed_out"] <= stats'["completed"]
      PROVE  StatsExact'
  BY <1>3 DEF StatsExact, Abandoned
<1>4. CASE Uncounted
  <2>1. /\ stats'["accepted"] = a /\ stats'["completed"] = d
        /\ stats'["cancelled"] = s /\ stats'["timed_out"] = l
    BY <1>1, <1>4 DEF Uncounted, Counted
  <2>2. Cardinality(Occupied') = o /\ Cardinality(Abandoned') = b
    BY <1>1, <1>4 DEF Uncounted
  <2> QED BY <1>2, <1>3, <2>1, <2>2
<1>5. CASE Admission
  <2>1. PICK k : k \notin Occupied /\ Occupied' = Occupied \cup {k}
    BY <1>5 DEF Admission
  <2>2. Cardinality(Occupied') = o + 1
    BY <1>0, <1>1, <2>1, FS_AddElement
  <2>3. Cardinality(Abandoned') = b
    BY <1>1, <1>5 DEF Admission
  <2>4. /\ stats'["accepted"] = a + 1 /\ stats'["completed"] = d
        /\ stats'["cancelled"] = s /\ stats'["timed_out"] = l
    BY <1>1, <1>5 DEF Admission, Counted
  <2> QED BY <1>2, <1>3, <2>2, <2>3, <2>4
<1>6. ASSUME NEW k \in Occupied, Occupied' = Occupied \ {k}
      PROVE  Cardinality(Occupied') = o - 1
  BY <1>0, <1>1, <1>6, FS_RemoveElement
<1>7. CASE Completion
  <2>1. Cardinality(Occupied') = o - 1 /\ Cardinality(Abandoned') = b
    BY <1>1, <1>6, <1>7 DEF Completion
  <2>2. Counted(0, 1, 0, 0) \/ Counted(0, 1, 0, 1) \/ Counted(0, 0, 1, 0)
    BY <1>7 DEF Completion
  <2> QED BY <1>1, <1>2, <1>3, <2>1, <2>2 DEF Counted
<1>8. CASE Abandonment
  <2>1. PICK c : c \notin Abandoned /\ Abandoned' = Abandoned \cup {c}
    BY <1>8 DEF Abandonment
  <2>2. Cardinality(Abandoned') = b + 1
    BY <1>0, <1>1, <2>1, FS_AddElement
  <2>3. Cardinality(Occupied') = o - 1
    BY <1>6, <1>8 DEF Abandonment
  <2>4. /\ stats'["accepted"] = a /\ stats'["completed"] = d
        /\ stats'["cancelled"] = s /\ stats'["timed_out"] = l
    BY <1>1, <1>8 DEF Abandonment, Counted
  <2> QED BY <1>2, <1>3, <2>2, <2>3, <2>4
<1> QED BY <1>4, <1>5, <1>7, <1>8

LEMMA CountInit ==
    ASSUME Init
    PROVE  Reserved /\ StatsExact
<1>1. Occupied = {} /\ Abandoned = {}
  BY DEF Init, Occupied, Abandoned
<1>2. IsFiniteSet({}) /\ Cardinality({}) = 0
  BY FS_EmptySet
<1>3. \A n \in Counters : stats[n] = 0
  BY DEF Init
<1>4. Reserved
  BY <1>1, <1>2, SchedulerAssumption DEF Reserved
<1>5. {c \in Calls : verdict[c] = "abandoned"} = {}
  BY <1>1 DEF Abandoned
<1>6. StatsExact
  BY <1>1, <1>2, <1>3, <1>5 DEF StatsExact, Counters
<1> QED BY <1>4, <1>6

LEMMA CountInvariance == Spec => [](IInv /\ Reserved /\ StatsExact)
<1>1. Init => Reserved /\ StatsExact
  BY CountInit
<1>2. IInv /\ Reserved /\ StatsExact /\ [Next]_vars
      => (Reserved /\ StatsExact)'
  BY StepCounts, ReservedStep, ExactStep DEF IInv
<1> QED BY <1>1, <1>2, Invariance, PTL DEF Spec

\* stats() accounts for every admitted call: it is completed, cancelled, still
\* in flight or abandoned, whatever finish(), submit() and cancel() race for.
THEOREM StatisticsAreExact == Spec => []StatsExact
BY CountInvariance, PTL

\* The calls of the ready queue are in flight, each under a key of its own, and
\* in_flight never outgrows max_pending_requests: enqueue(), which is noexcept,
\* never has to grow the queue.
THEOREM QueueNeverGrows == Spec => []QueueWithinReserve
<1>1. IInv /\ Reserved => QueueWithinReserve
  <2> SUFFICES ASSUME IInv, Reserved PROVE QueueWithinReserve
    OBVIOUS
  <2> DEFINE n == Len(ready)
             f == [i \in 1..n |-> KeyOf[ready[i]]]
  <2>1. ready \in Seq(Calls) /\ n \in Nat /\ DOMAIN ready = 1..n
    BY DEF IInv, TypeOK
  <2>2. ASSUME NEW i \in 1..n
        PROVE  ready[i] \in Calls /\ inFlight[KeyOf[ready[i]]] = ready[i]
    <3>1. ready[i] \in Calls /\ ready[i] \in Queued
      BY <2>1 DEF Queued
    <3> QED BY <3>1 DEF IInv, InOnePlace, Placed, IsInFlight
  <2>3. \A i \in 1..n : f[i] \in Occupied
    BY <2>2, SchedulerAssumption DEF Occupied
  <2>4. ASSUME NEW i \in 1..n, NEW j \in 1..n, f[i] = f[j]
        PROVE  i = j
    <3>1. ready[i] = ready[j]
      BY <2>2, <2>4
    <3> QED BY <2>1, <3>1 DEF IInv, InOnePlace, Apart
  <2>5. f \in Injection(1..n, Occupied)
    BY <2>3, <2>4 DEF Injection, IsInjective
  <2>6. IsFiniteSet(Occupied) /\ Cardinality(Occupied) <= MaxPending
        /\ Cardinality(Occupied) \in Nat /\ MaxPending \in Nat
    BY CardsAre, SchedulerAssumption DEF Reserved
  <2> HIDE DEF f, n
  <2>7. Cardinality(1..n) <= Cardinality(Occupied)
    BY <2>5, <2>6, FS_Injection
  <2>8. Cardinality(1..n) = n
    BY <2>1, FS_Interval
  <2>9. n <= MaxPending
    BY <2>1, <2>6, <2>7, <2>8
  <2> QED BY <2>9 DEF QueueWithinReserve, n
<1> QED BY <1>1, CountInvariance, PTL
=============================================================================
