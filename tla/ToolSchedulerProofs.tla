------------------------ MODULE ToolSchedulerProofs ------------------------
(***************************************************************************)
(* IInv is an inductive invariant of ToolScheduler, for any number of      *)
(* calls, keys, workers and clients; the safety properties follow from it. *)
(*                                                                         *)
(* One lemma per conjunct of IInv shows that every step preserves it, with *)
(* one case per action.  The heart of the matter is InOnePlace: whoever    *)
(* runs finish() for a call is the only one who can.                       *)
(***************************************************************************)
EXTENDS SchedulerProperties, SequenceTheorems, TLAPS


\* Counting keeps the statistics natural numbers.
LEMMA CountType ==
    ASSUME TypeOK, NEW cs
    PROVE  Count(cs) \in [Counters -> Nat]
<1>1. \A n \in Counters : stats[n] \in Nat /\ stats[n] + 1 \in Nat
  BY DEF TypeOK
<1> QED
  BY <1>1 DEF Count

\* What in_flight holds are calls.
LEMMA InFlightCallsType ==
    ASSUME TypeOK
    PROVE  /\ InFlightCalls \subseteq Calls
           /\ \A k \in Occupied : inFlight[k] \in Calls
  BY SchedulerAssumption DEF TypeOK, InFlightCalls, Occupied

\* The set of calls request_stop() flags is what IsInFlight() says.
LEMMA InFlightCallsAre ==
    ASSUME TypeOK, Filed, NEW c \in Calls
    PROVE  c \in InFlightCalls <=> IsInFlight(c)
  BY SchedulerAssumption DEF TypeOK, InFlightCalls, Occupied, Filed, IsInFlight

\* What ready.push_back() does to the set of queued calls.
LEMMA QueueAppend ==
    ASSUME TypeOK, NEW c \in Calls, ready' = Append(ready, c)
    PROVE  /\ ready' \in Seq(Calls)
           /\ Queued' = Queued \cup {c}
           /\ DOMAIN ready' = DOMAIN ready \cup {Len(ready) + 1}
           /\ Len(ready) + 1 \notin DOMAIN ready
           /\ ready'[Len(ready) + 1] = c
           /\ \A i \in DOMAIN ready : ready'[i] = ready[i]
<1>1. /\ ready \in Seq(Calls) /\ Len(ready) \in Nat
      /\ DOMAIN ready = 1..Len(ready)
  BY DEF TypeOK
<1>2. /\ ready' \in Seq(Calls)
      /\ Len(ready') = Len(ready) + 1
      /\ DOMAIN ready' = 1..(Len(ready) + 1)
      /\ ready'[Len(ready) + 1] = c
      /\ \A i \in 1..Len(ready) : ready'[i] = ready[i]
  BY <1>1
<1>3. DOMAIN ready' = DOMAIN ready \cup {Len(ready) + 1}
  BY <1>1, <1>2
<1>4. Queued' = Queued \cup {c}
  BY <1>1, <1>2, <1>3 DEF Queued
<1> QED
  BY <1>1, <1>2, <1>3, <1>4

\* What front() and pop_front() do to the set of queued calls.
LEMMA QueueTail ==
    ASSUME TypeOK, Apart, ready # <<>>, ready' = Tail(ready)
    PROVE  /\ ready' \in Seq(Calls)
           /\ Head(ready) \in Queued /\ Head(ready) \in Calls
           /\ Queued' = Queued \ {Head(ready)}
           /\ \A i, j \in DOMAIN ready' : ready'[i] = ready'[j] => i = j
<1>1. /\ ready \in Seq(Calls) /\ Len(ready) \in Nat \ {0}
      /\ DOMAIN ready = 1..Len(ready)
      /\ Head(ready) = ready[1]
      /\ DOMAIN ready' = 1..(Len(ready) - 1)
      /\ \A i \in 1..(Len(ready) - 1) : ready'[i] = ready[i + 1]
  BY DEF TypeOK
<1>2. \A i, j \in 1..Len(ready) : ready[i] = ready[j] => i = j
  BY <1>1 DEF Apart
<1>3. Queued' = Queued \ {Head(ready)}
  <2>1. ASSUME NEW c \in Queued' PROVE c \in Queued \ {Head(ready)}
    BY <1>1, <1>2 DEF Queued
  <2>2. ASSUME NEW c \in Queued, c # Head(ready) PROVE c \in Queued'
    <3>1. PICK i \in 1..Len(ready) : c = ready[i]
      BY <1>1 DEF Queued
    <3>2. i - 1 \in 1..(Len(ready) - 1) /\ ready'[i - 1] = c
      BY <1>1, <2>2, <3>1
    <3> QED BY <1>1, <3>2 DEF Queued
  <2> QED BY <2>1, <2>2
<1>4. 1 \in DOMAIN ready
  BY <1>1
<1>5. Head(ready) \in Queued
  BY <1>1, <1>4 DEF Queued
<1>6. Head(ready) \in Calls /\ ready' \in Seq(Calls)
  BY <1>1
<1>7. ASSUME NEW i \in DOMAIN ready', NEW j \in DOMAIN ready',
             ready'[i] = ready'[j]
      PROVE  i = j
  <2>1. /\ i \in 1..(Len(ready) - 1) /\ j \in 1..(Len(ready) - 1)
        /\ i + 1 \in 1..Len(ready) /\ j + 1 \in 1..Len(ready)
    BY <1>1
  <2>2. ready[i + 1] = ready[j + 1]
    BY <1>1, <1>7, <2>1
  <2>3. i + 1 = j + 1
    BY <1>2, <2>1, <2>2
  <2> QED BY <2>1, <2>3
<1> QED
  BY <1>3, <1>5, <1>6, <1>7

\* A worker that has not been through finish() holds a call in flight,
LEMMA HeldIsInFlight ==
    ASSUME IInv, NEW w \in Workers, workerPc[w] \in HoldingPcs
    PROVE  workerCall[w] \in Calls /\ IsInFlight(workerCall[w])
  BY DEF IInv, TypeOK, Hands, InOnePlace, Placed, AtWorker

\* and one that has been through it holds a call that is not.
LEMMA DoneIsNotInFlight ==
    ASSUME IInv, NEW w \in Workers, workerPc[w] \in DonePcs
    PROVE  workerCall[w] \in Calls /\ ~IsInFlight(workerCall[w])
<1>1. workerCall[w] \in Calls /\ workerPc[w] \notin HoldingPcs
  BY DEF IInv, TypeOK, Hands, HoldingPcs, DonePcs
<1>2. ~AtClient(workerCall[w]) /\ workerCall[w] \notin Queued
  BY <1>1 DEF IInv, InOnePlace, Apart, AtClient
<1>3. ~AtWorker(workerCall[w])
  BY <1>1, SchedulerAssumption DEF IInv, InOnePlace, Apart, AtWorker
<1> QED
  BY <1>1, <1>2, <1>3 DEF IInv, InOnePlace, Placed

\* Between admission and enqueue() the client alone has the call.
LEMMA AdmittedIsInFlight ==
    ASSUME IInv, NEW t \in Clients, clientPc[t] = "admitted"
    PROVE  /\ clientCall[t] \in Calls /\ IsInFlight(clientCall[t])
           /\ clientCall[t] \notin Queued
           /\ \A w \in Workers : workerCall[w] # clientCall[t]
           /\ \A u \in Clients : u # t => clientCall[u] # clientCall[t]
<1>1. clientCall[t] \in Calls /\ clientCall[t] # NoCall
  BY DEF IInv, TypeOK, Hands
<1>2. IsInFlight(clientCall[t])
  BY <1>1 DEF IInv, InOnePlace, Placed, AtClient
<1> QED
  BY <1>1, <1>2 DEF IInv, InOnePlace, Apart

\* While anything is in flight the scheduler runs.
LEMMA WorkMeansRunning ==
    ASSUME IInv, NEW c \in Calls, IsInFlight(c)
    PROVE  ctor = "running" /\ ~stopping /\ ~joined /\ Occupied # {}
<1>1. KeyOf[c] \in Occupied
  BY SchedulerAssumption DEF Occupied, IsInFlight
<1> QED
  BY <1>1 DEF IInv, Phases, Hands

\* Nothing was submitted yet: in_flight is empty.
LEMMA IdleMeansEmpty ==
    ASSUME IInv, \A c \in Calls : verdict[c] = "unsubmitted"
    PROVE  Occupied = {}
  BY SchedulerAssumption
  DEF IInv, TypeOK, InOnePlace, Filed, Hands, Occupied, IsInFlight

\* A step that moves no call from place to place keeps InOnePlace.
LEMMA PlaceFrame ==
    ASSUME InOnePlace,
           UNCHANGED <<inFlight, ready, workerCall, clientCall>>,
           \A w \in Workers :
              workerPc'[w] \in HoldingPcs <=> workerPc[w] \in HoldingPcs,
           \A t \in Clients :
              clientPc'[t] = "admitted" <=> clientPc[t] = "admitted"
    PROVE  InOnePlace'
<1>1. Filed'
  BY DEF InOnePlace, Filed
<1>2. Placed'
  BY DEF InOnePlace, Placed, AtClient, AtWorker, Queued, IsInFlight
<1>3. Apart'
  BY DEF InOnePlace, Apart, Queued
<1> QED
  BY <1>1, <1>2, <1>3 DEF InOnePlace

\* A worker that lets go of a finished call keeps InOnePlace.
LEMMA HandsEmptied ==
    ASSUME IInv, NEW w \in Workers,
           workerPc[w] \notin HoldingPcs, workerPc'[w] \notin HoldingPcs,
           workerCall' = [workerCall EXCEPT ![w] = NoCall],
           \A v \in Workers \ {w} : workerPc'[v] = workerPc[v],
           UNCHANGED <<inFlight, ready, clientCall>>,
           \A t \in Clients :
              clientPc'[t] = "admitted" <=> clientPc[t] = "admitted"
    PROVE  InOnePlace'
<1> USE SchedulerAssumption DEF IInv, InOnePlace
<1>1. Filed'
  BY DEF Filed
<1>2. Placed'
  <2>1. ASSUME NEW c \in Calls PROVE AtWorker(c)' <=> AtWorker(c)
    BY DEF AtWorker, TypeOK
  <2>2. ASSUME NEW c \in Calls PROVE AtClient(c)' <=> AtClient(c)
    BY DEF AtClient
  <2> QED
    BY <2>1, <2>2 DEF Placed, Queued, IsInFlight
<1>3. NoCall \notin Queued
  BY DEF TypeOK, Queued
<1>4. Apart'
  BY <1>3 DEF Apart, Queued, TypeOK, Hands
<1> QED
  BY <1>1, <1>2, <1>4

\* A call moves from the queue to a worker.
LEMMA TakePlaces ==
    ASSUME IInv, NEW w \in Workers, WorkerTake(w)
    PROVE  InOnePlace'
<1> USE SchedulerAssumption DEF IInv, InOnePlace
<1> DEFINE h == Head(ready)
<1>1. /\ h \in Queued /\ h \in Calls
      /\ Queued' = Queued \ {h}
      /\ \A i, j \in DOMAIN ready' : ready'[i] = ready'[j] => i = j
  BY QueueTail DEF WorkerTake
<1> HIDE DEF h
<1>2. /\ workerPc[w] \notin HoldingPcs /\ workerCall[w] = NoCall
      /\ workerPc' = [workerPc EXCEPT ![w] = "resumed"]
      /\ workerCall' = [workerCall EXCEPT ![w] = h]
      /\ UNCHANGED <<inFlight, clientPc, clientCall>>
  BY DEF WorkerTake, Hands, HoldingPcs, DonePcs, h, clientVars
<1>3. Filed'
  BY <1>2 DEF Filed
<1>4. ASSUME NEW c \in Calls
      PROVE  AtWorker(c)' <=> AtWorker(c) \/ c = h
  BY <1>1, <1>2 DEF AtWorker, TypeOK, HoldingPcs
<1>5. Placed'
  BY <1>1, <1>2, <1>4 DEF Placed, AtClient, IsInFlight, Apart, AtWorker
<1>6. Apart'
  BY <1>1, <1>2 DEF Apart, TypeOK
<1> QED
  BY <1>3, <1>5, <1>6

\* A call leaves in_flight, and the worker keeps it for the callback.
LEMMA FinishPlaces ==
    ASSUME IInv, NEW w \in Workers, Finish(w)
    PROVE  InOnePlace'
<1> USE SchedulerAssumption DEF IInv, InOnePlace
<1> DEFINE h == workerCall[w]
<1>1. /\ workerPc[w] = "finishing"
      /\ workerPc' = [workerPc EXCEPT ![w] = "notifying"]
      /\ inFlight' = IF IsInFlight(h) THEN InFlightWithout(h) ELSE inFlight
      /\ UNCHANGED <<ready, workerCall, clientPc, clientCall>>
  BY DEF Finish, clientVars
<1>2. h \in Calls /\ AtWorker(h) /\ IsInFlight(h)
  BY <1>1 DEF TypeOK, Hands, HoldingPcs, AtWorker, Placed
<1>3. inFlight' = [inFlight EXCEPT ![KeyOf[h]] = NoCall]
  BY <1>1, <1>2 DEF InFlightWithout
<1> HIDE DEF h
<1>4. Filed'
  BY <1>3 DEF Filed, TypeOK
<1>5. Apart'
  BY <1>1 DEF Apart, Queued
<1>6. ASSUME NEW c \in Calls
      PROVE  IsInFlight(c)' <=> IsInFlight(c) /\ c # h
  BY <1>2, <1>3 DEF IsInFlight, TypeOK
<1>7. ASSUME NEW c \in Calls
      PROVE  AtWorker(c)' <=> AtWorker(c) /\ c # h
  BY <1>1, <1>2 DEF AtWorker, TypeOK, HoldingPcs, Apart, h
<1>8. ~AtClient(h) /\ h \notin Queued
  BY DEF AtClient, Apart, h
<1>9. Placed'
  BY <1>1, <1>6, <1>7, <1>8 DEF Placed, AtClient, Queued
<1> QED
  BY <1>4, <1>5, <1>9

\* A call enters in_flight with the client that submits it.
LEMMA AdmitPlaces ==
    ASSUME IInv, NEW t \in Clients, NEW c \in Calls, SubmitAdmits(t, c)
    PROVE  InOnePlace'
<1> USE SchedulerAssumption DEF IInv, InOnePlace
<1>1. /\ inFlight[KeyOf[c]] = NoCall
      /\ verdict[c] = "unsubmitted"
      /\ clientPc[t] = "idle" /\ clientCall[t] = NoCall
      /\ inFlight' = [inFlight EXCEPT ![KeyOf[c]] = c]
      /\ clientPc' = [clientPc EXCEPT ![t] = "admitted"]
      /\ clientCall' = [clientCall EXCEPT ![t] = c]
      /\ UNCHANGED <<ready, workerPc, workerCall>>
  BY DEF SubmitAdmits, Occupied, Idle, Hands, workerVars, TypeOK
<1>2. /\ ~IsInFlight(c) /\ c \notin Queued
      /\ \A w \in Workers : workerCall[w] # c
      /\ \A u \in Clients : clientCall[u] # c
  BY <1>1 DEF Hands, Refusals
<1>3. Filed'
  BY <1>1 DEF Filed, TypeOK
<1>4. Apart'
  BY <1>1, <1>2 DEF Apart, TypeOK, Queued
<1>5. ASSUME NEW d \in Calls
      PROVE  IsInFlight(d)' <=> IsInFlight(d) \/ d = c
  BY <1>1, <1>2 DEF IsInFlight, TypeOK
<1>6. ASSUME NEW d \in Calls
      PROVE  AtClient(d)' <=> AtClient(d) \/ d = c
  BY <1>1, <1>2 DEF AtClient, TypeOK
<1>7. Placed'
  BY <1>1, <1>5, <1>6 DEF Placed, AtWorker, Queued
<1> QED
  BY <1>3, <1>4, <1>7

\* A call moves from the client to the queue.
LEMMA EnqueuePlaces ==
    ASSUME IInv, NEW t \in Clients, Enqueue(t)
    PROVE  InOnePlace'
<1> USE SchedulerAssumption DEF IInv, InOnePlace
<1> DEFINE h == clientCall[t]
<1>1. /\ clientPc[t] = "admitted" /\ h \in Calls
      /\ ready' = Append(ready, h)
      /\ clientPc' = [clientPc EXCEPT ![t] = "enqueued"]
      /\ UNCHANGED <<inFlight, workerPc, workerCall, clientCall>>
  BY DEF Enqueue, Hands, TypeOK, workerVars
<1>2. /\ Queued' = Queued \cup {h}
      /\ DOMAIN ready' = DOMAIN ready \cup {Len(ready) + 1}
      /\ Len(ready) + 1 \notin DOMAIN ready
      /\ ready'[Len(ready) + 1] = h
      /\ \A i \in DOMAIN ready : ready'[i] = ready[i]
  BY <1>1, QueueAppend
<1>3. /\ h \notin Queued /\ \A w \in Workers : h # workerCall[w]
      /\ \A u \in Clients : u # t => clientCall[u] # h
  BY <1>1 DEF Apart
<1>4. \A i \in DOMAIN ready : ready[i] # h
  BY <1>3 DEF Queued
<1> HIDE DEF h
<1>5. Filed'
  BY <1>1 DEF Filed
<1>6. \A i, j \in DOMAIN ready' : ready'[i] = ready'[j] => i = j
  BY <1>2, <1>4 DEF Apart
<1>7. Apart'
  BY <1>1, <1>2, <1>3, <1>6 DEF Apart, TypeOK
<1>8. ASSUME NEW c \in Calls
      PROVE  AtClient(c)' <=> AtClient(c) /\ c # h
  BY <1>1, <1>3 DEF AtClient, TypeOK, h
<1>9. AtClient(h)
  BY <1>1 DEF AtClient, h
<1>10. Placed'
  BY <1>1, <1>2, <1>8, <1>9 DEF Placed, AtWorker, IsInFlight
<1> QED
  BY <1>5, <1>7, <1>10

\* The client lets go of a call that the queue has, or a worker already.
LEMMA EnqueueNotifiesPlaces ==
    ASSUME IInv, NEW t \in Clients, EnqueueNotifies(t)
    PROVE  InOnePlace'
<1> USE SchedulerAssumption DEF IInv, InOnePlace
<1>1. /\ clientPc[t] = "enqueued"
      /\ clientPc' = [clientPc EXCEPT ![t] = "idle"]
      /\ clientCall' = [clientCall EXCEPT ![t] = NoCall]
      /\ UNCHANGED <<inFlight, ready, workerCall>>
  BY DEF EnqueueNotifies, schedVars
<1>2. \A w \in Workers :
        workerPc'[w] \in HoldingPcs <=> workerPc[w] \in HoldingPcs
  <2>1. CASE UNCHANGED workerPc
    BY <2>1
  <2>2. ASSUME NEW v \in Asleep, workerPc' = [workerPc EXCEPT ![v] = "check"]
        PROVE  <1>2!:
    BY <2>2 DEF Asleep, TypeOK, HoldingPcs
  <2> QED
    BY <2>1, <2>2 DEF EnqueueNotifies, NotifyOneReady
<1>3. Filed'
  BY <1>1 DEF Filed
<1>4. Placed'
  <2>1. ASSUME NEW c \in Calls PROVE AtWorker(c)' <=> AtWorker(c)
    BY <1>1, <1>2 DEF AtWorker
  <2>2. ASSUME NEW c \in Calls PROVE AtClient(c)' <=> AtClient(c)
    BY <1>1 DEF AtClient, TypeOK
  <2> QED
    BY <1>1, <2>1, <2>2 DEF Placed, Queued, IsInFlight
<1>5. Apart'
  BY <1>1 DEF Apart, Queued, TypeOK
<1> QED
  BY <1>3, <1>4, <1>5

\* A call leaves in_flight again before it was queued.
LEMMA AbandonPlaces ==
    ASSUME IInv, NEW t \in Clients, SubmitAbandons(t)
    PROVE  InOnePlace'
<1> USE SchedulerAssumption DEF IInv, InOnePlace
<1> DEFINE h == clientCall[t]
<1>1. /\ clientPc[t] = "admitted" /\ h \in Calls
      /\ clientPc' = [clientPc EXCEPT ![t] = "abandoning"]
      /\ inFlight' = [inFlight EXCEPT ![KeyOf[h]] = NoCall]
      /\ clientCall' = [clientCall EXCEPT ![t] = NoCall]
      /\ UNCHANGED <<ready, workerPc, workerCall>>
  BY DEF SubmitAbandons, InFlightWithout, Hands, TypeOK, workerVars
<1>2. AtClient(h) /\ IsInFlight(h)
  BY <1>1 DEF AtClient, Placed
<1>3. /\ h \notin Queued /\ ~AtWorker(h)
      /\ \A u \in Clients : u # t => clientCall[u] # h
  BY <1>1 DEF Apart, AtWorker
<1> HIDE DEF h
<1>4. Filed'
  BY <1>1 DEF Filed, TypeOK
<1>5. Apart'
  BY <1>1 DEF Apart, Queued, TypeOK
<1>6. ASSUME NEW c \in Calls
      PROVE  IsInFlight(c)' <=> IsInFlight(c) /\ c # h
  BY <1>1, <1>2 DEF IsInFlight, TypeOK
<1>7. ASSUME NEW c \in Calls
      PROVE  AtClient(c)' <=> AtClient(c) /\ c # h
  BY <1>1, <1>3 DEF AtClient, TypeOK, h
<1>8. Placed'
  BY <1>1, <1>3, <1>6, <1>7 DEF Placed, AtWorker, Queued
<1> QED
  BY <1>4, <1>5, <1>8

\* The critical section of finish() keeps what may and must be sent.
LEMMA FinishAnswers ==
    ASSUME IInv, NEW w \in Workers, Finish(w)
    PROVE  Answers'
<1> USE SchedulerAssumption DEF IInv, schedVars, controlVars, history
<1>1. /\ workerCall[w] \in Calls /\ IsInFlight(workerCall[w])
      /\ sent[workerCall[w]] = <<>>
  BY HeldIsInFlight DEF Finish, HoldingPcs, Answers
<1>2. \A c \in Calls : IsInFlight(c)' <=> IsInFlight(c) /\ c # workerCall[w]
  BY <1>1, SchedulerAssumption
  DEF Finish, InFlightWithout, IsInFlight, TypeOK
<1>3. /\ workerPc[w] = "finishing"
      /\ workerPc' = [workerPc EXCEPT ![w] = "notifying"]
      /\ UNCHANGED <<workerCall, cancelled, history>>
      /\ \A v \in Workers : v # w => workerResult'[v] = workerResult[v]
  BY DEF Finish, TypeOK
<1>4. workerCall[w] \in cancelled \/ AboutToSend(w, workerCall[w])'
  BY <1>1, <1>3 DEF Finish, Sends, AboutToSend, FlagBeforeToken, TypeOK
<1>5. \A v \in Workers, c \in Calls : AboutToSend(v, c) => AboutToSend(v, c)'
  BY <1>3 DEF AboutToSend, TypeOK
<1>6. \A c \in Calls : verdict'[c] \in {"submitting", "accepted"} =>
         (IsInFlight(c) \/ c \in cancelled \/ IsAnswered(c))'
  BY <1>1, <1>2, <1>3, <1>4, <1>5 DEF IsAnswered, Answers
<1>7. \A v \in Workers :
         /\ workerPc'[v] = "notifying" => sent'[workerCall'[v]] = <<>>
         /\ workerPc'[v] \in {"completing", "signalling"} =>
               workerResult'[v] # "none"
  BY <1>1, <1>3 DEF Answers, TypeOK
<1>8. \A c \in Calls :
         IsInFlight(c)' \/ verdict'[c] = "unsubmitted" => sent'[c] = <<>>
  BY <1>2, <1>3 DEF Answers
<1> QED
  BY <1>3, <1>6, <1>7, <1>8
  DEF Answers, CancelledStaysSilent, OneAnswerPerRequest, NoEarlyStopDelivered

\* So does the completion: the call has no answer yet, and was not cancelled.
LEMMA FinishCompletesAnswers ==
    ASSUME IInv, NEW w \in Workers, FinishCompletes(w)
    PROVE  Answers'
<1> USE SchedulerAssumption DEF IInv, schedVars, controlVars, history
<1> DEFINE c == workerCall[w]  r == workerResult[w]
<1>1. /\ c \in Calls /\ ~IsInFlight(c)
      /\ workerPc[w] = "notifying" /\ r \in Results
  BY DoneIsNotInFlight DEF FinishCompletes, HasAnswer, DonePcs, TypeOK
<1>2. /\ sent[c] = <<>> /\ c \notin cancelled
      /\ r \notin {"tool_cancelled", "tool_deadline"}
  BY <1>1
  DEF FinishCompletes, HasAnswer, Answers, FlagBeforeToken, DonePcs
<1>3. verdict[c] \notin Refusals \cup {"unsubmitted"}
  BY <1>1 DEF Hands
<1>4. sent' = [sent EXCEPT ![c] = <<r>>] /\ r # "none"
  BY <1>2 DEF FinishCompletes, HasAnswer, TypeOK
<1>5. /\ workerPc' = [workerPc EXCEPT ![w] = "completing"]
      /\ UNCHANGED <<inFlight, cancelled, workerCall, workerResult, verdict>>
  BY DEF FinishCompletes
<1>6. \A v \in Workers : workerCall[v] = c => v = w
  BY <1>1 DEF InOnePlace, Apart
<1> HIDE DEF c, r
<1>7. sent'[c] = <<r>> /\ \A d \in Calls : d # c => sent'[d] = sent[d]
  BY <1>1, <1>4 DEF TypeOK
<1>8. CancelledStaysSilent'
  BY <1>2, <1>5, <1>7 DEF Answers, CancelledStaysSilent, TypeOK
<1>9. OneAnswerPerRequest'
  <2>1. Len(<<r>>) = 1
    OBVIOUS
  <2>2. ASSUME NEW d \in Calls, d # c
        PROVE  /\ Len(sent'[d]) <= 1
               /\ verdict'[d] \in Refusals => sent'[d] = <<>>
    BY <1>5, <1>7, <2>2 DEF Answers, OneAnswerPerRequest
  <2>3. Len(sent'[c]) <= 1 /\ verdict'[c] \notin Refusals
    BY <1>3, <1>5, <1>7, <2>1
  <2> QED
    BY <2>2, <2>3 DEF OneAnswerPerRequest
<1>10. NoEarlyStopDelivered'
  <2>1. \A i \in 1..Len(<<r>>) : <<r>>[i] = r
    OBVIOUS
  <2> QED
    BY <1>2, <1>7, <2>1 DEF Answers, NoEarlyStopDelivered
<1>11. \A d \in Calls :
          IsInFlight(d)' \/ verdict'[d] = "unsubmitted" => sent'[d] = <<>>
  BY <1>1, <1>3, <1>5, <1>7 DEF Answers, IsInFlight
<1>12. \A v \in Workers :
         /\ workerPc'[v] = "notifying" => sent'[workerCall'[v]] = <<>>
         /\ workerPc'[v] \in {"completing", "signalling"} =>
               workerResult'[v] # "none"
  <2>1. ASSUME NEW v \in Workers, workerPc'[v] = "notifying"
        PROVE  sent'[workerCall'[v]] = <<>>
    <3>1. v # w /\ workerPc[v] = "notifying"
      BY <1>5, <2>1 DEF TypeOK
    <3>2. workerCall[v] \in Calls /\ workerCall[v] # c
      BY <1>6, <3>1, DoneIsNotInFlight DEF DonePcs
    <3> QED
      BY <1>5, <1>7, <3>1, <3>2 DEF Answers
  <2>2. ASSUME NEW v \in Workers, workerPc'[v] \in {"completing", "signalling"}
        PROVE  workerResult'[v] # "none"
    BY <1>4, <1>5, <2>2 DEF Answers, TypeOK, r
  <2> QED BY <2>1, <2>2
<1>13. \A d \in Calls : verdict'[d] \in {"submitting", "accepted"} =>
          (IsInFlight(d) \/ d \in cancelled \/ IsAnswered(d))'
  <2>1. ASSUME NEW d \in Calls, IsAnswered(d) PROVE IsAnswered(d)'
    <3>1. CASE sent[d] # <<>> \/ d = c
      BY <1>2, <1>7, <3>1 DEF IsAnswered
    <3>2. CASE d # c /\ sent[d] = <<>>
      BY <1>5, <2>1, <3>2 DEF IsAnswered, AboutToSend, TypeOK, c
    <3> QED BY <3>1, <3>2
  <2> QED BY <1>5, <2>1 DEF Answers, IsInFlight
<1> QED
  BY <1>8, <1>9, <1>10, <1>11, <1>12, <1>13 DEF Answers
-----------------------------------------------------------------------------
\* Every step keeps the types.
LEMMA TypeOKStep ==
    ASSUME IInv, [Next]_vars
    PROVE  TypeOK'
<1> USE SchedulerAssumption DEF IInv, schedVars, controlVars, workerVars,
        clientVars, history, TypeOK, WorkerPcs, ClientPcs, Verdicts, Results,
        ToolResults, Counters, Threads, Hands
<1>1. ASSUME NEW w \in Workers, SpawnWorker(w) PROVE TypeOK'
  BY <1>1 DEF SpawnWorker, WorkerGoes
<1>2. ASSUME NEW w \in Workers, WorkerSleep(w) PROVE TypeOK'
  BY <1>2 DEF WorkerSleep, WorkerGoes
<1>3. ASSUME NEW w \in Workers, WorkerWakesSpuriously(w) PROVE TypeOK'
  BY <1>3 DEF WorkerWakesSpuriously, WorkerGoes
<1>4. ASSUME NEW w \in Workers, WorkerExit(w) PROVE TypeOK'
  BY <1>4 DEF WorkerExit, WorkerGoes
<1>5. ASSUME NEW w \in Workers, WorkerTake(w) PROVE TypeOK'
  BY <1>5 DEF WorkerTake
<1>6. ASSUME NEW w \in Workers, RunSkips(w) PROVE TypeOK'
  BY <1>6 DEF RunSkips, Proceed
<1>7. ASSUME NEW w \in Workers, RunTimesOut(w) PROVE TypeOK'
  BY <1>7 DEF RunTimesOut, Proceed
<1>8. ASSUME NEW w \in Workers, RunExecutes(w) PROVE TypeOK'
  BY <1>8 DEF RunExecutes, Proceed
<1>9. ASSUME NEW w \in Workers, RunTimesOutLate(w) PROVE TypeOK'
  BY <1>9 DEF RunTimesOutLate, Proceed
<1>10. ASSUME NEW w \in Workers, RunKeepsResult(w) PROVE TypeOK'
  BY <1>10 DEF RunKeepsResult, Proceed
<1>11. ASSUME NEW w \in Workers, Finish(w) PROVE TypeOK'
  <2>1. inFlight' \in [Keys -> Calls \cup {NoCall}]
    BY <1>11 DEF Finish, InFlightWithout, TypeOK
  <2>2. stats' \in [Counters -> Nat]
    BY <1>11, CountType DEF Finish
  <2>3. workerResult' \in [Workers -> Results \cup {"none"}]
    BY <1>11 DEF Finish, TypeOK
  <2>4. workerPc' \in [Workers -> WorkerPcs]
    BY <1>11 DEF Finish, TypeOK, WorkerPcs
  <2> QED
    BY <1>11, <2>1, <2>2, <2>3, <2>4 DEF Finish, TypeOK
<1>12. ASSUME NEW w \in Workers, FinishQuietly(w) PROVE TypeOK'
  BY <1>12 DEF FinishQuietly, WokenByDone, BackToLoop
<1>13. ASSUME NEW w \in Workers, FinishCompletes(w) PROVE TypeOK'
  <2>1. clientPc' \in [Clients -> ClientPcs]
    BY <1>13 DEF FinishCompletes, WokenByDone, TypeOK, ClientPcs
  <2>2. workerPc' \in [Workers -> WorkerPcs]
    BY <1>13 DEF FinishCompletes, TypeOK, WorkerPcs
  <2>3. workerCall[w] \in Calls /\ workerResult[w] \in Results
    BY <1>13 DEF FinishCompletes, HasAnswer, TypeOK, Hands, DonePcs
  <2>4. Append(sent[workerCall[w]], workerResult[w]) \in Seq(Results)
    BY <2>3 DEF TypeOK
  <2>5. sent' \in [Calls -> Seq(Results)]
    BY <1>13, <2>3, <2>4 DEF FinishCompletes, TypeOK
  <2> QED
    BY <1>13, <2>1, <2>2, <2>5 DEF FinishCompletes, TypeOK
<1>14. ASSUME NEW w \in Workers, CompletionReturns(w) PROVE TypeOK'
  BY <1>14 DEF CompletionReturns, BackToLoop
<1>15. ASSUME NEW w \in Workers, CompletionRequestsStop(w) PROVE TypeOK'
  <2>1. workerPc' \in [Workers -> WorkerPcs]
    BY <1>15 DEF CompletionRequestsStop, TypeOK, WorkerPcs
  <2>2. cancelled' \subseteq Calls /\ toSignal' \in [Threads -> SUBSET Calls]
    BY <1>15, InFlightCallsType
    DEF CompletionRequestsStop, StopAll, Flag, TypeOK, Threads
  <2> QED
    BY <1>15, <2>1, <2>2 DEF CompletionRequestsStop, StopAll, TypeOK
<1>16. ASSUME NEW w \in Workers, CompletionShutsDown(w) PROVE TypeOK'
  BY <1>16 DEF CompletionShutsDown, BackToLoop
<1>17. ASSUME NEW w \in Workers, WorkerSignalled(w) PROVE TypeOK'
  BY <1>17 DEF WorkerSignalled, BackToLoop
<1>18. ASSUME NEW w \in Workers, NEW result \in ToolResults,
              ExecutorReturns(w, result)
       PROVE  TypeOK'
  BY <1>18 DEF ExecutorReturns, Proceed
<1>19. ASSUME NEW w \in Workers, NEW c \in Calls, WorkerSignals(w, c)
       PROVE  TypeOK'
  BY <1>19 DEF WorkerSignals, Signal
<1>20. ASSUME NEW t \in Clients, Enqueue(t) PROVE TypeOK'
  BY <1>20 DEF Enqueue
<1>21. ASSUME NEW t \in Clients, EnqueueNotifies(t) PROVE TypeOK'
  BY <1>21 DEF EnqueueNotifies, NotifyOneReady, Asleep
<1>22. ASSUME NEW t \in Clients, SubmitAbandons(t) PROVE TypeOK'
  BY <1>22 DEF SubmitAbandons, InFlightWithout
<1>23. ASSUME NEW t \in Clients, AbandonNotifies(t) PROVE TypeOK'
  BY <1>23 DEF AbandonNotifies, WokenByDone
<1>24. ASSUME NEW t \in Clients, ClientSignalled(t) PROVE TypeOK'
  BY <1>24 DEF ClientSignalled
<1>25. ASSUME NEW t \in Clients, ShutdownEnters(t) PROVE TypeOK'
  <2>1. clientPc' \in [Clients -> ClientPcs] /\ accepting' \in BOOLEAN
    BY <1>25 DEF ShutdownEnters, ShutdownGoes, TypeOK, ClientPcs
  <2>2. UNCHANGED <<stopping, joined, inFlight, ready, stats, controlVars, ctor,
                    workerVars, clientCall, toSignal, history>>
    BY <1>25 DEF ShutdownEnters, ShutdownGoes
  <2> QED
    BY <2>1, <2>2 DEF TypeOK
<1>26. ASSUME NEW t \in Clients, ShutdownDrains(t) PROVE TypeOK'
  <2>1. clientPc' \in [Clients -> ClientPcs] /\ stopping' \in BOOLEAN
    BY <1>26 DEF ShutdownDrains, ShutdownGoes, TypeOK, ClientPcs
  <2>2. UNCHANGED <<accepting, joined, inFlight, ready, stats, controlVars, ctor,
                    workerVars, clientCall, toSignal, history>>
    BY <1>26 DEF ShutdownDrains, ShutdownGoes
  <2> QED
    BY <2>1, <2>2 DEF TypeOK
<1>27. ASSUME NEW t \in Clients, ShutdownNotifies(t) PROVE TypeOK'
  BY <1>27 DEF ShutdownNotifies, ShutdownGoes, NotifyAllReady
<1>28. ASSUME NEW t \in Clients, ShutdownJoins(t) PROVE TypeOK'
  BY <1>28 DEF ShutdownJoins, ShutdownGoes, AllJoined
<1>29. ASSUME NEW t \in Clients, RequestStop(t) PROVE TypeOK'
  <2>1. clientPc' \in [Clients -> ClientPcs]
    BY <1>29 DEF RequestStop, TypeOK, ClientPcs
  <2>2. cancelled' \subseteq Calls /\ toSignal' \in [Threads -> SUBSET Calls]
    BY <1>29, InFlightCallsType
    DEF RequestStop, StopAll, Flag, TypeOK, Threads
  <2> QED
    BY <1>29, <2>1, <2>2 DEF RequestStop, StopAll, TypeOK
<1>30. ASSUME NEW t \in Clients, ShutdownCalled(t) PROVE TypeOK'
  BY <1>30 DEF ShutdownCalled, Idle, ShutdownGoes
<1>31. ASSUME NEW t \in Clients, ShutdownWakesSpuriously(t) PROVE TypeOK'
  BY <1>31 DEF ShutdownWakesSpuriously, ShutdownGoes
<1>32. ASSUME NEW t \in Clients, NEW c \in Calls, SubmitStopped(t, c)
       PROVE  TypeOK'
  BY <1>32 DEF SubmitStopped, Reject, Count, Idle
<1>33. ASSUME NEW t \in Clients, NEW c \in Calls, SubmitDuplicate(t, c)
       PROVE  TypeOK'
  BY <1>33 DEF SubmitDuplicate, Reject, Count, Idle
<1>34. ASSUME NEW t \in Clients, NEW c \in Calls, SubmitQueueFull(t, c)
       PROVE  TypeOK'
  BY <1>34 DEF SubmitQueueFull, Reject, Count, Idle
<1>35. ASSUME NEW t \in Clients, NEW c \in Calls, SubmitAdmits(t, c)
       PROVE  TypeOK'
  BY <1>35 DEF SubmitAdmits, Count, Idle, Occupied
<1>36. ASSUME NEW t \in Clients, NEW c \in Calls, ClientSignals(t, c)
       PROVE  TypeOK'
  BY <1>36 DEF ClientSignals, Signal
<1>37. ASSUME NEW t \in Clients, NEW k \in Keys, Cancel(t, k) PROVE TypeOK'
  BY <1>37 DEF Cancel, Idle, Flag, Occupied
<1>38. ASSUME NEW c \in Calls, Expire(c) PROVE TypeOK'
  BY <1>38 DEF Expire, IsInFlight
<1>39. ASSUME ConstructorReturns PROVE TypeOK'
  BY <1>39 DEF ConstructorReturns, ConstructorGoes
<1>40. ASSUME SpawnFails PROVE TypeOK'
  BY <1>40 DEF SpawnFails, ConstructorGoes
<1>41. ASSUME UnwindNotify PROVE TypeOK'
  BY <1>41 DEF UnwindNotify, ConstructorGoes, NotifyAllReady
<1>42. ASSUME UnwindJoin PROVE TypeOK'
  BY <1>42 DEF UnwindJoin, ConstructorGoes
<1>43. CASE UNCHANGED vars
  BY <1>43 DEF vars
<1> HIDE DEF TypeOK
<1> QED
  BY <1>1, <1>2, <1>3, <1>4, <1>5, <1>6, <1>7, <1>8, <1>9, <1>10, <1>11,
     <1>12, <1>13, <1>14, <1>15, <1>16, <1>17, <1>18, <1>19, <1>20, <1>21,
     <1>22, <1>23, <1>24, <1>25, <1>26, <1>27, <1>28, <1>29, <1>30, <1>31,
     <1>32, <1>33, <1>34, <1>35, <1>36, <1>37, <1>38, <1>39, <1>40, <1>41,
     <1>42, <1>43
  DEF Next, ConstructorStep, WorkerStep, ClientStep, ClientCalls, Submit,
      Failed

\* Every step keeps a call in flight in exactly one place.
LEMMA InOnePlaceStep ==
    ASSUME IInv, [Next]_vars
    PROVE  InOnePlace'
<1> USE SchedulerAssumption DEF IInv, schedVars, controlVars, workerVars,
        clientVars, history, TypeOK, HoldingPcs
<1>1. ASSUME NEW w \in Workers, SpawnWorker(w) PROVE InOnePlace'
  BY <1>1, PlaceFrame DEF SpawnWorker, WorkerGoes
<1>2. ASSUME NEW w \in Workers, WorkerSleep(w) PROVE InOnePlace'
  BY <1>2, PlaceFrame DEF WorkerSleep, WorkerGoes
<1>3. ASSUME NEW w \in Workers, WorkerWakesSpuriously(w) PROVE InOnePlace'
  BY <1>3, PlaceFrame DEF WorkerWakesSpuriously, WorkerGoes
<1>4. ASSUME NEW w \in Workers, WorkerExit(w) PROVE InOnePlace'
  BY <1>4, PlaceFrame DEF WorkerExit, WorkerGoes
<1>5. ASSUME NEW w \in Workers, WorkerTake(w) PROVE InOnePlace'
  BY <1>5, TakePlaces
<1>6. ASSUME NEW w \in Workers, RunSkips(w) PROVE InOnePlace'
  BY <1>6, PlaceFrame DEF RunSkips, Proceed
<1>7. ASSUME NEW w \in Workers, RunTimesOut(w) PROVE InOnePlace'
  BY <1>7, PlaceFrame DEF RunTimesOut, Proceed
<1>8. ASSUME NEW w \in Workers, RunExecutes(w) PROVE InOnePlace'
  BY <1>8, PlaceFrame DEF RunExecutes, Proceed
<1>9. ASSUME NEW w \in Workers, RunTimesOutLate(w) PROVE InOnePlace'
  BY <1>9, PlaceFrame DEF RunTimesOutLate, Proceed
<1>10. ASSUME NEW w \in Workers, RunKeepsResult(w) PROVE InOnePlace'
  BY <1>10, PlaceFrame DEF RunKeepsResult, Proceed
<1>11. ASSUME NEW w \in Workers, Finish(w) PROVE InOnePlace'
  BY <1>11, FinishPlaces
<1>12. ASSUME NEW w \in Workers, FinishQuietly(w) PROVE InOnePlace'
  <2>1. workerPc[w] \notin HoldingPcs /\ workerPc'[w] \notin HoldingPcs
    BY <1>12 DEF FinishQuietly, BackToLoop, TypeOK, HoldingPcs, DonePcs
  <2> QED
    BY <1>12, <2>1, HandsEmptied
    DEF FinishQuietly, WokenByDone, BackToLoop, TypeOK
<1>13. ASSUME NEW w \in Workers, FinishCompletes(w) PROVE InOnePlace'
  BY <1>13, PlaceFrame DEF FinishCompletes, WokenByDone, HasAnswer
<1>14. ASSUME NEW w \in Workers, CompletionReturns(w) PROVE InOnePlace'
  <2>1. workerPc[w] \notin HoldingPcs /\ workerPc'[w] \notin HoldingPcs
    BY <1>14 DEF CompletionReturns, BackToLoop, TypeOK, HoldingPcs, DonePcs
  <2> QED
    BY <1>14, <2>1, HandsEmptied
    DEF CompletionReturns, WokenByDone, BackToLoop, TypeOK
<1>15. ASSUME NEW w \in Workers, CompletionRequestsStop(w) PROVE InOnePlace'
  BY <1>15, PlaceFrame
  DEF CompletionRequestsStop, StopAll, Flag, InFlightCalls, Occupied
<1>16. ASSUME NEW w \in Workers, CompletionShutsDown(w) PROVE InOnePlace'
  <2>1. workerPc[w] \notin HoldingPcs /\ workerPc'[w] \notin HoldingPcs
    BY <1>16 DEF CompletionShutsDown, BackToLoop, TypeOK, HoldingPcs, DonePcs
  <2> QED
    BY <1>16, <2>1, HandsEmptied
    DEF CompletionShutsDown, WokenByDone, BackToLoop, TypeOK
<1>17. ASSUME NEW w \in Workers, WorkerSignalled(w) PROVE InOnePlace'
  <2>1. workerPc[w] \notin HoldingPcs /\ workerPc'[w] \notin HoldingPcs
    BY <1>17 DEF WorkerSignalled, BackToLoop, TypeOK, HoldingPcs, DonePcs
  <2> QED
    BY <1>17, <2>1, HandsEmptied
    DEF WorkerSignalled, WokenByDone, BackToLoop, TypeOK
<1>18. ASSUME NEW w \in Workers, NEW result \in ToolResults,
              ExecutorReturns(w, result)
       PROVE  InOnePlace'
  BY <1>18, PlaceFrame DEF ExecutorReturns, Proceed, ToolResults
<1>19. ASSUME NEW w \in Workers, NEW c \in Calls, WorkerSignals(w, c)
       PROVE  InOnePlace'
  BY <1>19, PlaceFrame DEF WorkerSignals, Signal
<1>20. ASSUME NEW t \in Clients, Enqueue(t) PROVE InOnePlace'
  BY <1>20, EnqueuePlaces
<1>21. ASSUME NEW t \in Clients, EnqueueNotifies(t) PROVE InOnePlace'
  BY <1>21, EnqueueNotifiesPlaces
<1>22. ASSUME NEW t \in Clients, SubmitAbandons(t) PROVE InOnePlace'
  BY <1>22, AbandonPlaces
<1>23. ASSUME NEW t \in Clients, AbandonNotifies(t) PROVE InOnePlace'
  BY <1>23, PlaceFrame DEF AbandonNotifies, WokenByDone
<1>24. ASSUME NEW t \in Clients, ClientSignalled(t) PROVE InOnePlace'
  BY <1>24, PlaceFrame DEF ClientSignalled
<1>25. ASSUME NEW t \in Clients, ShutdownEnters(t) PROVE InOnePlace'
  BY <1>25, PlaceFrame DEF ShutdownEnters, ShutdownGoes
<1>26. ASSUME NEW t \in Clients, ShutdownDrains(t) PROVE InOnePlace'
  BY <1>26, PlaceFrame DEF ShutdownDrains, ShutdownGoes, Drained
<1>27. ASSUME NEW t \in Clients, ShutdownNotifies(t) PROVE InOnePlace'
  BY <1>27, PlaceFrame DEF ShutdownNotifies, ShutdownGoes, NotifyAllReady
<1>28. ASSUME NEW t \in Clients, ShutdownJoins(t) PROVE InOnePlace'
  BY <1>28, PlaceFrame DEF ShutdownJoins, ShutdownGoes, AllJoined
<1>29. ASSUME NEW t \in Clients, RequestStop(t) PROVE InOnePlace'
  BY <1>29, PlaceFrame
  DEF RequestStop, Idle, StopAll, Flag, InFlightCalls, Occupied
<1>30. ASSUME NEW t \in Clients, ShutdownCalled(t) PROVE InOnePlace'
  BY <1>30, PlaceFrame DEF ShutdownCalled, Idle, ShutdownGoes
<1>31. ASSUME NEW t \in Clients, ShutdownWakesSpuriously(t) PROVE InOnePlace'
  BY <1>31, PlaceFrame DEF ShutdownWakesSpuriously, ShutdownGoes
<1>32. ASSUME NEW t \in Clients, NEW c \in Calls, SubmitStopped(t, c)
       PROVE  InOnePlace'
  BY <1>32, PlaceFrame DEF SubmitStopped, Reject, Count, Idle
<1>33. ASSUME NEW t \in Clients, NEW c \in Calls, SubmitDuplicate(t, c)
       PROVE  InOnePlace'
  BY <1>33, PlaceFrame DEF SubmitDuplicate, Reject, Count, Idle
<1>34. ASSUME NEW t \in Clients, NEW c \in Calls, SubmitQueueFull(t, c)
       PROVE  InOnePlace'
  BY <1>34, PlaceFrame DEF SubmitQueueFull, Reject, Count, Idle
<1>35. ASSUME NEW t \in Clients, NEW c \in Calls, SubmitAdmits(t, c)
       PROVE  InOnePlace'
  BY <1>35, AdmitPlaces
<1>36. ASSUME NEW t \in Clients, NEW c \in Calls, ClientSignals(t, c)
       PROVE  InOnePlace'
  BY <1>36, PlaceFrame DEF ClientSignals, Signal
<1>37. ASSUME NEW t \in Clients, NEW k \in Keys, Cancel(t, k)
       PROVE  InOnePlace'
  BY <1>37, PlaceFrame DEF Cancel, Idle, Flag, Occupied
<1>38. ASSUME NEW c \in Calls, Expire(c) PROVE InOnePlace'
  BY <1>38, PlaceFrame DEF Expire, IsInFlight
<1>39. ASSUME ConstructorReturns PROVE InOnePlace'
  BY <1>39, PlaceFrame DEF ConstructorReturns, ConstructorGoes
<1>40. ASSUME SpawnFails PROVE InOnePlace'
  BY <1>40, PlaceFrame DEF SpawnFails, ConstructorGoes
<1>41. ASSUME UnwindNotify PROVE InOnePlace'
  BY <1>41, PlaceFrame DEF UnwindNotify, ConstructorGoes, NotifyAllReady
<1>42. ASSUME UnwindJoin PROVE InOnePlace'
  BY <1>42, PlaceFrame DEF UnwindJoin, ConstructorGoes
<1>43. CASE UNCHANGED vars
  BY <1>43, PlaceFrame DEF vars
<1> QED
  BY <1>1, <1>2, <1>3, <1>4, <1>5, <1>6, <1>7, <1>8, <1>9, <1>10, <1>11,
     <1>12, <1>13, <1>14, <1>15, <1>16, <1>17, <1>18, <1>19, <1>20, <1>21,
     <1>22, <1>23, <1>24, <1>25, <1>26, <1>27, <1>28, <1>29, <1>30, <1>31,
     <1>32, <1>33, <1>34, <1>35, <1>36, <1>37, <1>38, <1>39, <1>40, <1>41,
     <1>42, <1>43
  DEF Next, ConstructorStep, WorkerStep, ClientStep, ClientCalls, Submit,
      Failed

\* Every step leaves a thread with what its position calls for.
LEMMA HandsStep ==
    ASSUME IInv, [Next]_vars
    PROVE  Hands'
<1> USE SchedulerAssumption DEF IInv, schedVars, controlVars, workerVars,
        clientVars, history, TypeOK, Phases, Hands, HoldingPcs, DonePcs,
        Refusals, Queued, IsInFlight
<1>1. ASSUME NEW w \in Workers, SpawnWorker(w) PROVE Hands'
  BY <1>1 DEF SpawnWorker, WorkerGoes
<1>2. ASSUME NEW w \in Workers, WorkerSleep(w) PROVE Hands'
  BY <1>2 DEF WorkerSleep, WorkerGoes
<1>3. ASSUME NEW w \in Workers, WorkerWakesSpuriously(w) PROVE Hands'
  BY <1>3 DEF WorkerWakesSpuriously, WorkerGoes
<1>4. ASSUME NEW w \in Workers, WorkerExit(w) PROVE Hands'
  BY <1>4 DEF WorkerExit, WorkerGoes
<1>5. ASSUME NEW w \in Workers, WorkerTake(w) PROVE Hands'
  BY <1>5 DEF WorkerTake
<1>6. ASSUME NEW w \in Workers, RunSkips(w) PROVE Hands'
  BY <1>6 DEF RunSkips, Proceed
<1>7. ASSUME NEW w \in Workers, RunTimesOut(w) PROVE Hands'
  BY <1>7 DEF RunTimesOut, Proceed
<1>8. ASSUME NEW w \in Workers, RunExecutes(w) PROVE Hands'
  BY <1>8 DEF RunExecutes, Proceed
<1>9. ASSUME NEW w \in Workers, RunTimesOutLate(w) PROVE Hands'
  BY <1>9 DEF RunTimesOutLate, Proceed
<1>10. ASSUME NEW w \in Workers, RunKeepsResult(w) PROVE Hands'
  BY <1>10 DEF RunKeepsResult, Proceed
<1>11. ASSUME NEW w \in Workers, Finish(w) PROVE Hands'
  BY <1>11
  DEF Finish, FinishCounters, Count, TimedOutCounters, InFlightWithout, Sends
<1>12. ASSUME NEW w \in Workers, FinishQuietly(w) PROVE Hands'
  BY <1>12 DEF FinishQuietly, WokenByDone, BackToLoop
<1>13. ASSUME NEW w \in Workers, FinishCompletes(w) PROVE Hands'
  BY <1>13 DEF FinishCompletes, WokenByDone, HasAnswer
<1>14. ASSUME NEW w \in Workers, CompletionReturns(w) PROVE Hands'
  BY <1>14 DEF CompletionReturns, BackToLoop
<1>15. ASSUME NEW w \in Workers, CompletionRequestsStop(w) PROVE Hands'
  BY <1>15 DEF CompletionRequestsStop, StopAll, Flag, InFlightCalls, Occupied
<1>16. ASSUME NEW w \in Workers, CompletionShutsDown(w) PROVE Hands'
  BY <1>16 DEF CompletionShutsDown, BackToLoop
<1>17. ASSUME NEW w \in Workers, WorkerSignalled(w) PROVE Hands'
  BY <1>17 DEF WorkerSignalled, BackToLoop
<1>18. ASSUME NEW w \in Workers, NEW result \in ToolResults,
              ExecutorReturns(w, result)
       PROVE  Hands'
  BY <1>18 DEF ExecutorReturns, Proceed, ToolResults
<1>19. ASSUME NEW w \in Workers, NEW c \in Calls, WorkerSignals(w, c)
       PROVE  Hands'
  BY <1>19 DEF WorkerSignals, Signal
<1>20. ASSUME NEW t \in Clients, Enqueue(t) PROVE Hands'
  BY <1>20 DEF Enqueue
<1>21. ASSUME NEW t \in Clients, EnqueueNotifies(t) PROVE Hands'
  <2>1. clientCall[t] \in Calls
    BY <1>21 DEF EnqueueNotifies, TypeOK, Hands
  <2>2. CASE UNCHANGED workerPc
    BY <1>21, <2>1, <2>2
    DEF EnqueueNotifies, TypeOK, Hands, InOnePlace, Apart, Queued,
        IsInFlight, Refusals
  <2>3. ASSUME NEW v \in Asleep, workerPc' = [workerPc EXCEPT ![v] = "check"]
        PROVE  Hands'
    BY <1>21, <2>1, <2>3
    DEF EnqueueNotifies, Asleep, TypeOK, Hands, HoldingPcs, DonePcs, InOnePlace,
        Apart, Queued, IsInFlight, Refusals
  <2> QED
    BY <1>21, <2>2, <2>3 DEF EnqueueNotifies, NotifyOneReady
<1>22. ASSUME NEW t \in Clients, SubmitAbandons(t) PROVE Hands'
  <2>1. /\ clientPc[t] = "admitted" /\ clientCall[t] \in Calls
        /\ clientCall[t] \notin Queued
        /\ \A w \in Workers : workerCall[w] # clientCall[t]
        /\ \A u \in Clients : u # t => clientCall[u] # clientCall[t]
    BY <1>22, AdmittedIsInFlight DEF SubmitAbandons
  <2>2. \A c \in Calls : IsInFlight(c)' => IsInFlight(c) /\ c # clientCall[t]
    BY <1>22, <2>1, SchedulerAssumption
    DEF SubmitAbandons, InFlightWithout, IsInFlight, TypeOK
  <2> QED
    BY <1>22, <2>1, <2>2
    DEF SubmitAbandons, TypeOK, Hands, Queued, Refusals
<1>23. ASSUME NEW t \in Clients, AbandonNotifies(t) PROVE Hands'
  BY <1>23 DEF AbandonNotifies, WokenByDone
<1>24. ASSUME NEW t \in Clients, ClientSignalled(t) PROVE Hands'
  BY <1>24 DEF ClientSignalled
<1>25. ASSUME NEW t \in Clients, ShutdownEnters(t) PROVE Hands'
  <2>1. CASE clientPc' = [clientPc EXCEPT ![t] = "idle"]
    BY <1>25, <2>1
    DEF ShutdownEnters, ShutdownGoes, TypeOK, Hands, Queued, IsInFlight
  <2>2. CASE clientPc' = [clientPc EXCEPT ![t] = "drain"]
    BY <1>25, <2>2
    DEF ShutdownEnters, ShutdownGoes, TypeOK, Hands, Queued, IsInFlight
  <2> QED
    BY <1>25, <2>1, <2>2 DEF ShutdownEnters, ShutdownGoes
<1>26. ASSUME NEW t \in Clients, ShutdownDrains(t) PROVE Hands'
  <2>1. CASE clientPc' = [clientPc EXCEPT ![t] = "drain_asleep"]
    BY <1>26, <2>1
    DEF ShutdownDrains, ShutdownGoes, TypeOK, Hands, Queued, IsInFlight
  <2>2. CASE clientPc' = [clientPc EXCEPT ![t] = "wake_all"]
    BY <1>26, <2>2
    DEF ShutdownDrains, ShutdownGoes, TypeOK, Hands, Queued, IsInFlight
  <2> QED
    BY <1>26, <2>1, <2>2 DEF ShutdownDrains, ShutdownGoes
<1>27. ASSUME NEW t \in Clients, ShutdownNotifies(t) PROVE Hands'
  BY <1>27 DEF ShutdownNotifies, ShutdownGoes, NotifyAllReady
<1>28. ASSUME NEW t \in Clients, ShutdownJoins(t) PROVE Hands'
  BY <1>28 DEF ShutdownJoins, ShutdownGoes, AllJoined
<1>29. ASSUME NEW t \in Clients, RequestStop(t) PROVE Hands'
  BY <1>29 DEF RequestStop, Idle, StopAll, Flag, InFlightCalls, Occupied
<1>30. ASSUME NEW t \in Clients, ShutdownCalled(t) PROVE Hands'
  BY <1>30 DEF ShutdownCalled, Idle, ShutdownGoes
<1>31. ASSUME NEW t \in Clients, ShutdownWakesSpuriously(t) PROVE Hands'
  BY <1>31 DEF ShutdownWakesSpuriously, ShutdownGoes
<1>32. ASSUME NEW t \in Clients, NEW c \in Calls, SubmitStopped(t, c)
       PROVE  Hands'
  BY <1>32 DEF SubmitStopped, Reject, Count, Idle
<1>33. ASSUME NEW t \in Clients, NEW c \in Calls, SubmitDuplicate(t, c)
       PROVE  Hands'
  BY <1>33 DEF SubmitDuplicate, Reject, Count, Idle
<1>34. ASSUME NEW t \in Clients, NEW c \in Calls, SubmitQueueFull(t, c)
       PROVE  Hands'
  BY <1>34 DEF SubmitQueueFull, Reject, Count, Idle
<1>35. ASSUME NEW t \in Clients, NEW c \in Calls, SubmitAdmits(t, c)
       PROVE  Hands'
  BY <1>35 DEF SubmitAdmits, Count, Idle, Occupied
<1>36. ASSUME NEW t \in Clients, NEW c \in Calls, ClientSignals(t, c)
       PROVE  Hands'
  BY <1>36 DEF ClientSignals, Signal
<1>37. ASSUME NEW t \in Clients, NEW k \in Keys, Cancel(t, k) PROVE Hands'
  BY <1>37 DEF Cancel, Idle, Flag, Occupied
<1>38. ASSUME NEW c \in Calls, Expire(c) PROVE Hands'
  BY <1>38 DEF Expire
<1>39. ASSUME ConstructorReturns PROVE Hands'
  BY <1>39 DEF ConstructorReturns, ConstructorGoes
<1>40. ASSUME SpawnFails PROVE Hands'
  BY <1>40 DEF SpawnFails, ConstructorGoes
<1>41. ASSUME UnwindNotify PROVE Hands'
  BY <1>41 DEF UnwindNotify, ConstructorGoes, NotifyAllReady
<1>42. ASSUME UnwindJoin PROVE Hands'
  BY <1>42 DEF UnwindJoin, ConstructorGoes
<1>43. CASE UNCHANGED vars
  BY <1>43 DEF vars
<1> QED
  BY <1>1, <1>2, <1>3, <1>4, <1>5, <1>6, <1>7, <1>8, <1>9, <1>10, <1>11,
     <1>12, <1>13, <1>14, <1>15, <1>16, <1>17, <1>18, <1>19, <1>20, <1>21,
     <1>22, <1>23, <1>24, <1>25, <1>26, <1>27, <1>28, <1>29, <1>30, <1>31,
     <1>32, <1>33, <1>34, <1>35, <1>36, <1>37, <1>38, <1>39, <1>40, <1>41,
     <1>42, <1>43
  DEF Next, ConstructorStep, WorkerStep, ClientStep, ClientCalls, Submit,
      Failed

\* No step lets a token or a result get ahead of the flag.
LEMMA FlagBeforeTokenStep ==
    ASSUME IInv, [Next]_vars
    PROVE  FlagBeforeToken'
<1> USE SchedulerAssumption DEF IInv, schedVars, controlVars, workerVars,
        clientVars, history, TypeOK, Hands, FlagBeforeToken, HoldingPcs,
        DonePcs, Threads
<1>1. ASSUME NEW w \in Workers, SpawnWorker(w) PROVE FlagBeforeToken'
  BY <1>1 DEF SpawnWorker, WorkerGoes
<1>2. ASSUME NEW w \in Workers, WorkerSleep(w) PROVE FlagBeforeToken'
  BY <1>2 DEF WorkerSleep, WorkerGoes
<1>3. ASSUME NEW w \in Workers, WorkerWakesSpuriously(w)
      PROVE  FlagBeforeToken'
  BY <1>3 DEF WorkerWakesSpuriously, WorkerGoes
<1>4. ASSUME NEW w \in Workers, WorkerExit(w) PROVE FlagBeforeToken'
  BY <1>4 DEF WorkerExit, WorkerGoes
<1>5. ASSUME NEW w \in Workers, WorkerTake(w) PROVE FlagBeforeToken'
  BY <1>5 DEF WorkerTake
<1>6. ASSUME NEW w \in Workers, RunSkips(w) PROVE FlagBeforeToken'
  BY <1>6 DEF RunSkips, Proceed
<1>7. ASSUME NEW w \in Workers, RunTimesOut(w) PROVE FlagBeforeToken'
  BY <1>7 DEF RunTimesOut, Proceed
<1>8. ASSUME NEW w \in Workers, RunExecutes(w) PROVE FlagBeforeToken'
  BY <1>8 DEF RunExecutes, Proceed
<1>9. ASSUME NEW w \in Workers, RunTimesOutLate(w) PROVE FlagBeforeToken'
  BY <1>9 DEF RunTimesOutLate, Proceed
<1>10. ASSUME NEW w \in Workers, RunKeepsResult(w) PROVE FlagBeforeToken'
  BY <1>10 DEF RunKeepsResult, Proceed
<1>11. ASSUME NEW w \in Workers, Finish(w) PROVE FlagBeforeToken'
  BY <1>11
  DEF Finish, FinishCounters, Count, TimedOutCounters, InFlightWithout, Sends
<1>12. ASSUME NEW w \in Workers, FinishQuietly(w) PROVE FlagBeforeToken'
  BY <1>12 DEF FinishQuietly, WokenByDone, BackToLoop
<1>13. ASSUME NEW w \in Workers, FinishCompletes(w) PROVE FlagBeforeToken'
  BY <1>13 DEF FinishCompletes, WokenByDone, HasAnswer
<1>14. ASSUME NEW w \in Workers, CompletionReturns(w) PROVE FlagBeforeToken'
  BY <1>14 DEF CompletionReturns, BackToLoop
<1>15. ASSUME NEW w \in Workers, CompletionRequestsStop(w)
       PROVE  FlagBeforeToken'
  <2>1. \A v \in Workers : workerPc[v] \in DonePcs =>
           workerCall[v] \notin InFlightCalls
    BY DoneIsNotInFlight, InFlightCallsAre DEF InOnePlace
  <2>2. \A v \in Workers :
           /\ workerPc'[v] \in DonePcs <=> workerPc[v] \in DonePcs
           /\ workerPc'[v] \in {"returned", "finishing"} =>
                 workerPc'[v] = workerPc[v]
    BY <1>15 DEF CompletionRequestsStop, TypeOK, DonePcs
  <2>3. /\ cancelled' = cancelled \cup InFlightCalls
        /\ toSignal' = [toSignal EXCEPT ![w] = InFlightCalls]
        /\ UNCHANGED <<stopRequested, expired, workerCall, workerResult>>
    BY <1>15 DEF CompletionRequestsStop, StopAll, Flag
  <2> QED
    BY <2>1, <2>2, <2>3 DEF TypeOK, FlagBeforeToken, Threads
<1>16. ASSUME NEW w \in Workers, CompletionShutsDown(w) PROVE FlagBeforeToken'
  BY <1>16 DEF CompletionShutsDown, BackToLoop
<1>17. ASSUME NEW w \in Workers, WorkerSignalled(w) PROVE FlagBeforeToken'
  BY <1>17 DEF WorkerSignalled, BackToLoop
<1>18. ASSUME NEW w \in Workers, NEW result \in ToolResults,
              ExecutorReturns(w, result)
       PROVE  FlagBeforeToken'
  BY <1>18 DEF ExecutorReturns, Proceed, ToolResults
<1>19. ASSUME NEW w \in Workers, NEW c \in Calls, WorkerSignals(w, c)
       PROVE  FlagBeforeToken'
  BY <1>19 DEF WorkerSignals, Signal
<1>20. ASSUME NEW t \in Clients, Enqueue(t) PROVE FlagBeforeToken'
  BY <1>20 DEF Enqueue
<1>21. ASSUME NEW t \in Clients, EnqueueNotifies(t) PROVE FlagBeforeToken'
  BY <1>21 DEF EnqueueNotifies, NotifyOneReady, Asleep
<1>22. ASSUME NEW t \in Clients, SubmitAbandons(t) PROVE FlagBeforeToken'
  BY <1>22 DEF SubmitAbandons, InFlightWithout
<1>23. ASSUME NEW t \in Clients, AbandonNotifies(t) PROVE FlagBeforeToken'
  BY <1>23 DEF AbandonNotifies, WokenByDone
<1>24. ASSUME NEW t \in Clients, ClientSignalled(t) PROVE FlagBeforeToken'
  BY <1>24 DEF ClientSignalled
<1>25. ASSUME NEW t \in Clients, ShutdownEnters(t) PROVE FlagBeforeToken'
  BY <1>25 DEF ShutdownEnters, ShutdownGoes
<1>26. ASSUME NEW t \in Clients, ShutdownDrains(t) PROVE FlagBeforeToken'
  BY <1>26 DEF ShutdownDrains, ShutdownGoes, Drained
<1>27. ASSUME NEW t \in Clients, ShutdownNotifies(t) PROVE FlagBeforeToken'
  BY <1>27 DEF ShutdownNotifies, ShutdownGoes, NotifyAllReady
<1>28. ASSUME NEW t \in Clients, ShutdownJoins(t) PROVE FlagBeforeToken'
  BY <1>28 DEF ShutdownJoins, ShutdownGoes, AllJoined
<1>29. ASSUME NEW t \in Clients, RequestStop(t) PROVE FlagBeforeToken'
  <2>1. \A v \in Workers : workerPc[v] \in DonePcs =>
           workerCall[v] \notin InFlightCalls
    BY DoneIsNotInFlight, InFlightCallsAre DEF InOnePlace
  <2>2. /\ cancelled' = cancelled \cup InFlightCalls
        /\ toSignal' = [toSignal EXCEPT ![t] = InFlightCalls]
        /\ UNCHANGED <<stopRequested, expired, workerVars>>
    BY <1>29 DEF RequestStop, StopAll, Flag
  <2> QED
    BY <2>1, <2>2 DEF TypeOK, FlagBeforeToken, Threads
<1>30. ASSUME NEW t \in Clients, ShutdownCalled(t) PROVE FlagBeforeToken'
  BY <1>30 DEF ShutdownCalled, Idle, ShutdownGoes
<1>31. ASSUME NEW t \in Clients, ShutdownWakesSpuriously(t)
       PROVE  FlagBeforeToken'
  BY <1>31 DEF ShutdownWakesSpuriously, ShutdownGoes
<1>32. ASSUME NEW t \in Clients, NEW c \in Calls, SubmitStopped(t, c)
       PROVE  FlagBeforeToken'
  BY <1>32 DEF SubmitStopped, Reject, Count, Idle
<1>33. ASSUME NEW t \in Clients, NEW c \in Calls, SubmitDuplicate(t, c)
       PROVE  FlagBeforeToken'
  BY <1>33 DEF SubmitDuplicate, Reject, Count, Idle
<1>34. ASSUME NEW t \in Clients, NEW c \in Calls, SubmitQueueFull(t, c)
       PROVE  FlagBeforeToken'
  BY <1>34 DEF SubmitQueueFull, Reject, Count, Idle
<1>35. ASSUME NEW t \in Clients, NEW c \in Calls, SubmitAdmits(t, c)
       PROVE  FlagBeforeToken'
  BY <1>35 DEF SubmitAdmits, Count, Idle, Occupied
<1>36. ASSUME NEW t \in Clients, NEW c \in Calls, ClientSignals(t, c)
       PROVE  FlagBeforeToken'
  BY <1>36 DEF ClientSignals, Signal
<1>37. ASSUME NEW t \in Clients, NEW k \in Keys, Cancel(t, k)
       PROVE  FlagBeforeToken'
  <2>1. inFlight[k] \in Calls /\ IsInFlight(inFlight[k])
    BY <1>37 DEF Cancel, Occupied, TypeOK, InOnePlace, Filed, IsInFlight
  <2>2. \A v \in Workers : workerPc[v] \in DonePcs =>
           workerCall[v] # inFlight[k]
    BY <2>1, DoneIsNotInFlight
  <2>3. /\ cancelled' = cancelled \cup {inFlight[k]}
        /\ toSignal' = [toSignal EXCEPT ![t] = {inFlight[k]}]
        /\ UNCHANGED <<stopRequested, expired, workerVars>>
    BY <1>37 DEF Cancel, Flag
  <2> QED
    BY <2>1, <2>2, <2>3 DEF TypeOK, FlagBeforeToken, Threads
<1>38. ASSUME NEW c \in Calls, Expire(c) PROVE FlagBeforeToken'
  BY <1>38 DEF Expire, IsInFlight
<1>39. ASSUME ConstructorReturns PROVE FlagBeforeToken'
  BY <1>39 DEF ConstructorReturns, ConstructorGoes
<1>40. ASSUME SpawnFails PROVE FlagBeforeToken'
  BY <1>40 DEF SpawnFails, ConstructorGoes
<1>41. ASSUME UnwindNotify PROVE FlagBeforeToken'
  BY <1>41 DEF UnwindNotify, ConstructorGoes, NotifyAllReady
<1>42. ASSUME UnwindJoin PROVE FlagBeforeToken'
  BY <1>42 DEF UnwindJoin, ConstructorGoes
<1>43. CASE UNCHANGED vars
  BY <1>43 DEF vars
<1> QED
  BY <1>1, <1>2, <1>3, <1>4, <1>5, <1>6, <1>7, <1>8, <1>9, <1>10, <1>11,
     <1>12, <1>13, <1>14, <1>15, <1>16, <1>17, <1>18, <1>19, <1>20, <1>21,
     <1>22, <1>23, <1>24, <1>25, <1>26, <1>27, <1>28, <1>29, <1>30, <1>31,
     <1>32, <1>33, <1>34, <1>35, <1>36, <1>37, <1>38, <1>39, <1>40, <1>41,
     <1>42, <1>43
  DEF Next, ConstructorStep, WorkerStep, ClientStep, ClientCalls, Submit,
      Failed

\* Every step keeps what may and what must have been sent.
LEMMA AnswersStep ==
    ASSUME IInv, [Next]_vars
    PROVE  Answers'
<1> USE SchedulerAssumption DEF IInv, schedVars, controlVars, workerVars,
        clientVars, history, TypeOK, Hands, HoldingPcs, DonePcs,
        FlagBeforeToken, Answers, CancelledStaysSilent, OneAnswerPerRequest,
        NoEarlyStopDelivered, Refusals, IsInFlight, IsAnswered, AboutToSend
<1>1. ASSUME NEW w \in Workers, SpawnWorker(w) PROVE Answers'
  BY <1>1 DEF SpawnWorker, WorkerGoes
<1>2. ASSUME NEW w \in Workers, WorkerSleep(w) PROVE Answers'
  BY <1>2 DEF WorkerSleep, WorkerGoes
<1>3. ASSUME NEW w \in Workers, WorkerWakesSpuriously(w) PROVE Answers'
  BY <1>3 DEF WorkerWakesSpuriously, WorkerGoes
<1>4. ASSUME NEW w \in Workers, WorkerExit(w) PROVE Answers'
  BY <1>4 DEF WorkerExit, WorkerGoes
<1>5. ASSUME NEW w \in Workers, WorkerTake(w) PROVE Answers'
  BY <1>5 DEF WorkerTake
<1>6. ASSUME NEW w \in Workers, RunSkips(w) PROVE Answers'
  BY <1>6 DEF RunSkips, Proceed
<1>7. ASSUME NEW w \in Workers, RunTimesOut(w) PROVE Answers'
  BY <1>7 DEF RunTimesOut, Proceed
<1>8. ASSUME NEW w \in Workers, RunExecutes(w) PROVE Answers'
  BY <1>8 DEF RunExecutes, Proceed
<1>9. ASSUME NEW w \in Workers, RunTimesOutLate(w) PROVE Answers'
  BY <1>9 DEF RunTimesOutLate, Proceed
<1>10. ASSUME NEW w \in Workers, RunKeepsResult(w) PROVE Answers'
  BY <1>10 DEF RunKeepsResult, Proceed
<1>11. ASSUME NEW w \in Workers, Finish(w) PROVE Answers'
  BY <1>11, FinishAnswers
<1>12. ASSUME NEW w \in Workers, FinishQuietly(w) PROVE Answers'
  BY <1>12 DEF FinishQuietly, WokenByDone, BackToLoop
<1>13. ASSUME NEW w \in Workers, FinishCompletes(w) PROVE Answers'
  BY <1>13, FinishCompletesAnswers
<1>14. ASSUME NEW w \in Workers, CompletionReturns(w) PROVE Answers'
  BY <1>14 DEF CompletionReturns, BackToLoop
<1>15. ASSUME NEW w \in Workers, CompletionRequestsStop(w) PROVE Answers'
  <2>1. \A c \in InFlightCalls : c \in Calls /\ sent[c] = <<>>
    BY InFlightCallsType, InFlightCallsAre DEF InOnePlace, Answers
  <2>2. cancelled' = cancelled \cup InFlightCalls
    BY <1>15 DEF CompletionRequestsStop, StopAll, Flag
  <2>3. /\ UNCHANGED <<inFlight, workerCall, workerResult, history>>
        /\ workerPc' = [workerPc EXCEPT ![w] = "signalling"]
        /\ workerPc[w] = "completing"
    BY <1>15 DEF CompletionRequestsStop
  <2> QED
    BY <2>1, <2>2, <2>3
    DEF TypeOK, Answers, CancelledStaysSilent, OneAnswerPerRequest,
        NoEarlyStopDelivered, IsInFlight, IsAnswered, AboutToSend
<1>16. ASSUME NEW w \in Workers, CompletionShutsDown(w) PROVE Answers'
  BY <1>16 DEF CompletionShutsDown, BackToLoop
<1>17. ASSUME NEW w \in Workers, WorkerSignalled(w) PROVE Answers'
  BY <1>17 DEF WorkerSignalled, BackToLoop
<1>18. ASSUME NEW w \in Workers, NEW result \in ToolResults,
              ExecutorReturns(w, result)
       PROVE  Answers'
  BY <1>18 DEF ExecutorReturns, Proceed, ToolResults
<1>19. ASSUME NEW w \in Workers, NEW c \in Calls, WorkerSignals(w, c)
       PROVE  Answers'
  BY <1>19 DEF WorkerSignals, Signal
<1>20. ASSUME NEW t \in Clients, Enqueue(t) PROVE Answers'
  BY <1>20 DEF Enqueue
<1>21. ASSUME NEW t \in Clients, EnqueueNotifies(t) PROVE Answers'
  BY <1>21 DEF EnqueueNotifies, NotifyOneReady, Asleep
<1>22. ASSUME NEW t \in Clients, SubmitAbandons(t) PROVE Answers'
  <2>1. /\ clientCall[t] \in Calls /\ IsInFlight(clientCall[t])
        /\ sent[clientCall[t]] = <<>>
    BY <1>22, AdmittedIsInFlight DEF SubmitAbandons, Answers
  <2>2. \A c \in Calls : IsInFlight(c)' <=> IsInFlight(c) /\ c # clientCall[t]
    BY <1>22, <2>1, SchedulerAssumption
    DEF SubmitAbandons, InFlightWithout, IsInFlight, TypeOK
  <2>3. /\ verdict' = [verdict EXCEPT ![clientCall[t]] = "abandoned"]
        /\ UNCHANGED <<sent, cancelled, workerVars>>
    BY <1>22 DEF SubmitAbandons
  <2> QED
    BY <2>1, <2>2, <2>3
    DEF TypeOK, Answers, CancelledStaysSilent, OneAnswerPerRequest,
        NoEarlyStopDelivered, IsAnswered, AboutToSend
<1>23. ASSUME NEW t \in Clients, AbandonNotifies(t) PROVE Answers'
  BY <1>23 DEF AbandonNotifies, WokenByDone
<1>24. ASSUME NEW t \in Clients, ClientSignalled(t) PROVE Answers'
  BY <1>24 DEF ClientSignalled
<1>25. ASSUME NEW t \in Clients, ShutdownEnters(t) PROVE Answers'
  BY <1>25 DEF ShutdownEnters, ShutdownGoes
<1>26. ASSUME NEW t \in Clients, ShutdownDrains(t) PROVE Answers'
  BY <1>26 DEF ShutdownDrains, ShutdownGoes, Drained
<1>27. ASSUME NEW t \in Clients, ShutdownNotifies(t) PROVE Answers'
  BY <1>27 DEF ShutdownNotifies, ShutdownGoes, NotifyAllReady
<1>28. ASSUME NEW t \in Clients, ShutdownJoins(t) PROVE Answers'
  BY <1>28 DEF ShutdownJoins, ShutdownGoes, AllJoined
<1>29. ASSUME NEW t \in Clients, RequestStop(t) PROVE Answers'
  <2>1. \A c \in InFlightCalls : c \in Calls /\ sent[c] = <<>>
    BY InFlightCallsType, InFlightCallsAre DEF InOnePlace, Answers
  <2>2. cancelled' = cancelled \cup InFlightCalls
    BY <1>29 DEF RequestStop, StopAll, Flag
  <2>3. UNCHANGED <<inFlight, workerVars, history>>
    BY <1>29 DEF RequestStop
  <2> QED
    BY <2>1, <2>2, <2>3
    DEF Answers, CancelledStaysSilent, OneAnswerPerRequest,
        NoEarlyStopDelivered, IsInFlight, IsAnswered, AboutToSend
<1>30. ASSUME NEW t \in Clients, ShutdownCalled(t) PROVE Answers'
  BY <1>30 DEF ShutdownCalled, Idle, ShutdownGoes
<1>31. ASSUME NEW t \in Clients, ShutdownWakesSpuriously(t) PROVE Answers'
  BY <1>31 DEF ShutdownWakesSpuriously, ShutdownGoes
<1>32. ASSUME NEW t \in Clients, NEW c \in Calls, SubmitStopped(t, c)
       PROVE  Answers'
  BY <1>32 DEF SubmitStopped, Reject, Count, Idle
<1>33. ASSUME NEW t \in Clients, NEW c \in Calls, SubmitDuplicate(t, c)
       PROVE  Answers'
  BY <1>33 DEF SubmitDuplicate, Reject, Count, Idle
<1>34. ASSUME NEW t \in Clients, NEW c \in Calls, SubmitQueueFull(t, c)
       PROVE  Answers'
  BY <1>34 DEF SubmitQueueFull, Reject, Count, Idle
<1>35. ASSUME NEW t \in Clients, NEW c \in Calls, SubmitAdmits(t, c)
       PROVE  Answers'
  BY <1>35 DEF SubmitAdmits, Count, Idle, Occupied
<1>36. ASSUME NEW t \in Clients, NEW c \in Calls, ClientSignals(t, c)
       PROVE  Answers'
  BY <1>36 DEF ClientSignals, Signal
<1>37. ASSUME NEW t \in Clients, NEW k \in Keys, Cancel(t, k) PROVE Answers'
  <2>1. inFlight[k] \in Calls /\ sent[inFlight[k]] = <<>>
    BY <1>37
    DEF Cancel, Occupied, TypeOK, InOnePlace, Filed, IsInFlight, Answers
  <2>2. /\ cancelled' = cancelled \cup {inFlight[k]}
        /\ UNCHANGED <<inFlight, workerVars, history>>
    BY <1>37 DEF Cancel, Flag
  <2> QED
    BY <2>1, <2>2
    DEF Answers, CancelledStaysSilent, OneAnswerPerRequest,
        NoEarlyStopDelivered, IsInFlight, IsAnswered, AboutToSend
<1>38. ASSUME NEW c \in Calls, Expire(c) PROVE Answers'
  BY <1>38 DEF Expire
<1>39. ASSUME ConstructorReturns PROVE Answers'
  BY <1>39 DEF ConstructorReturns, ConstructorGoes
<1>40. ASSUME SpawnFails PROVE Answers'
  BY <1>40 DEF SpawnFails, ConstructorGoes
<1>41. ASSUME UnwindNotify PROVE Answers'
  BY <1>41 DEF UnwindNotify, ConstructorGoes, NotifyAllReady
<1>42. ASSUME UnwindJoin PROVE Answers'
  BY <1>42 DEF UnwindJoin, ConstructorGoes
<1>43. CASE UNCHANGED vars
  BY <1>43 DEF vars
<1> QED
  BY <1>1, <1>2, <1>3, <1>4, <1>5, <1>6, <1>7, <1>8, <1>9, <1>10, <1>11,
     <1>12, <1>13, <1>14, <1>15, <1>16, <1>17, <1>18, <1>19, <1>20, <1>21,
     <1>22, <1>23, <1>24, <1>25, <1>26, <1>27, <1>28, <1>29, <1>30, <1>31,
     <1>32, <1>33, <1>34, <1>35, <1>36, <1>37, <1>38, <1>39, <1>40, <1>41,
     <1>42, <1>43
  DEF Next, ConstructorStep, WorkerStep, ClientStep, ClientCalls, Submit,
      Failed

\* Every step keeps the phases of the constructor and of shutdown.
LEMMA PhasesStep ==
    ASSUME IInv, [Next]_vars
    PROVE  Phases'
<1> USE SchedulerAssumption DEF IInv, schedVars, controlVars, workerVars,
        clientVars, history, TypeOK, Phases, Hands, HoldingPcs, DonePcs,
        ShutdownPcs, Occupied
<1>1. ASSUME NEW w \in Workers, SpawnWorker(w) PROVE Phases'
  BY <1>1 DEF SpawnWorker, WorkerGoes
<1>2. ASSUME NEW w \in Workers, WorkerSleep(w) PROVE Phases'
  BY <1>2 DEF WorkerSleep, WorkerGoes
<1>3. ASSUME NEW w \in Workers, WorkerWakesSpuriously(w) PROVE Phases'
  BY <1>3 DEF WorkerWakesSpuriously, WorkerGoes
<1>4. ASSUME NEW w \in Workers, WorkerExit(w) PROVE Phases'
  BY <1>4 DEF WorkerExit, WorkerGoes
<1>5. ASSUME NEW w \in Workers, WorkerTake(w) PROVE Phases'
  <2>1. Head(ready) \in Calls /\ IsInFlight(Head(ready))
    BY <1>5, QueueTail DEF WorkerTake, InOnePlace, Placed
  <2>2. ctor = "running" /\ ~stopping /\ ~joined
    BY <2>1, WorkMeansRunning
  <2> QED
    BY <1>5, <2>2 DEF WorkerTake, TypeOK, Phases, ShutdownPcs, Occupied
<1>6. ASSUME NEW w \in Workers, RunSkips(w) PROVE Phases'
  BY <1>6 DEF RunSkips, Proceed
<1>7. ASSUME NEW w \in Workers, RunTimesOut(w) PROVE Phases'
  BY <1>7 DEF RunTimesOut, Proceed
<1>8. ASSUME NEW w \in Workers, RunExecutes(w) PROVE Phases'
  BY <1>8 DEF RunExecutes, Proceed
<1>9. ASSUME NEW w \in Workers, RunTimesOutLate(w) PROVE Phases'
  BY <1>9 DEF RunTimesOutLate, Proceed
<1>10. ASSUME NEW w \in Workers, RunKeepsResult(w) PROVE Phases'
  BY <1>10 DEF RunKeepsResult, Proceed
<1>11. ASSUME NEW w \in Workers, Finish(w) PROVE Phases'
  BY <1>11
  DEF Finish, FinishCounters, Count, TimedOutCounters, InFlightWithout, Sends
<1>12. ASSUME NEW w \in Workers, FinishQuietly(w) PROVE Phases'
  BY <1>12 DEF FinishQuietly, WokenByDone, BackToLoop
<1>13. ASSUME NEW w \in Workers, FinishCompletes(w) PROVE Phases'
  BY <1>13 DEF FinishCompletes, WokenByDone, HasAnswer
<1>14. ASSUME NEW w \in Workers, CompletionReturns(w) PROVE Phases'
  BY <1>14 DEF CompletionReturns, BackToLoop
<1>15. ASSUME NEW w \in Workers, CompletionRequestsStop(w) PROVE Phases'
  BY <1>15 DEF CompletionRequestsStop, StopAll, Flag, InFlightCalls
<1>16. ASSUME NEW w \in Workers, CompletionShutsDown(w) PROVE Phases'
  BY <1>16 DEF CompletionShutsDown, BackToLoop
<1>17. ASSUME NEW w \in Workers, WorkerSignalled(w) PROVE Phases'
  BY <1>17 DEF WorkerSignalled, BackToLoop
<1>18. ASSUME NEW w \in Workers, NEW result \in ToolResults,
              ExecutorReturns(w, result)
       PROVE  Phases'
  BY <1>18 DEF ExecutorReturns, Proceed, ToolResults
<1>19. ASSUME NEW w \in Workers, NEW c \in Calls, WorkerSignals(w, c)
       PROVE  Phases'
  BY <1>19 DEF WorkerSignals, Signal
<1>20. ASSUME NEW t \in Clients, Enqueue(t) PROVE Phases'
  BY <1>20 DEF Enqueue
<1>21. ASSUME NEW t \in Clients, EnqueueNotifies(t) PROVE Phases'
  BY <1>21 DEF EnqueueNotifies, NotifyOneReady, Asleep
<1>22. ASSUME NEW t \in Clients, SubmitAbandons(t) PROVE Phases'
  BY <1>22 DEF SubmitAbandons, InFlightWithout
<1>23. ASSUME NEW t \in Clients, AbandonNotifies(t) PROVE Phases'
  BY <1>23 DEF AbandonNotifies, WokenByDone
<1>24. ASSUME NEW t \in Clients, ClientSignalled(t) PROVE Phases'
  BY <1>24 DEF ClientSignalled
<1>25. ASSUME NEW t \in Clients, ShutdownEnters(t) PROVE Phases'
  BY <1>25 DEF ShutdownEnters, ShutdownGoes
<1>26. ASSUME NEW t \in Clients, ShutdownDrains(t) PROVE Phases'
  BY <1>26 DEF ShutdownDrains, ShutdownGoes, Drained
<1>27. ASSUME NEW t \in Clients, ShutdownNotifies(t) PROVE Phases'
  BY <1>27 DEF ShutdownNotifies, ShutdownGoes, NotifyAllReady
<1>28. ASSUME NEW t \in Clients, ShutdownJoins(t) PROVE Phases'
  BY <1>28 DEF ShutdownJoins, ShutdownGoes, AllJoined
<1>29. ASSUME NEW t \in Clients, RequestStop(t) PROVE Phases'
  BY <1>29 DEF RequestStop, Idle, StopAll, Flag, InFlightCalls
<1>30. ASSUME NEW t \in Clients, ShutdownCalled(t) PROVE Phases'
  BY <1>30 DEF ShutdownCalled, Idle, ShutdownGoes
<1>31. ASSUME NEW t \in Clients, ShutdownWakesSpuriously(t) PROVE Phases'
  BY <1>31 DEF ShutdownWakesSpuriously, ShutdownGoes
<1>32. ASSUME NEW t \in Clients, NEW c \in Calls, SubmitStopped(t, c)
       PROVE  Phases'
  BY <1>32 DEF SubmitStopped, Reject, Count, Idle
<1>33. ASSUME NEW t \in Clients, NEW c \in Calls, SubmitDuplicate(t, c)
       PROVE  Phases'
  BY <1>33 DEF SubmitDuplicate, Reject, Count, Idle
<1>34. ASSUME NEW t \in Clients, NEW c \in Calls, SubmitQueueFull(t, c)
       PROVE  Phases'
  BY <1>34 DEF SubmitQueueFull, Reject, Count, Idle
<1>35. ASSUME NEW t \in Clients, NEW c \in Calls, SubmitAdmits(t, c)
       PROVE  Phases'
  BY <1>35 DEF SubmitAdmits, Count, Idle
<1>36. ASSUME NEW t \in Clients, NEW c \in Calls, ClientSignals(t, c)
       PROVE  Phases'
  BY <1>36 DEF ClientSignals, Signal
<1>37. ASSUME NEW t \in Clients, NEW k \in Keys, Cancel(t, k) PROVE Phases'
  BY <1>37 DEF Cancel, Idle, Flag
<1>38. ASSUME NEW c \in Calls, Expire(c) PROVE Phases'
  BY <1>38 DEF Expire, IsInFlight
<1>39. ASSUME ConstructorReturns PROVE Phases'
  BY <1>39 DEF ConstructorReturns, ConstructorGoes
<1>40. ASSUME SpawnFails PROVE Phases'
  <2>1. Occupied = {}
    BY <1>40, IdleMeansEmpty DEF SpawnFails, Phases
  <2> QED
    BY <1>40, <2>1
    DEF SpawnFails, ConstructorGoes, Phases, Occupied, ShutdownPcs
<1>41. ASSUME UnwindNotify PROVE Phases'
  BY <1>41 DEF UnwindNotify, ConstructorGoes, NotifyAllReady
<1>42. ASSUME UnwindJoin PROVE Phases'
  BY <1>42 DEF UnwindJoin, ConstructorGoes
<1>43. CASE UNCHANGED vars
  BY <1>43 DEF vars
<1> QED
  BY <1>1, <1>2, <1>3, <1>4, <1>5, <1>6, <1>7, <1>8, <1>9, <1>10, <1>11,
     <1>12, <1>13, <1>14, <1>15, <1>16, <1>17, <1>18, <1>19, <1>20, <1>21,
     <1>22, <1>23, <1>24, <1>25, <1>26, <1>27, <1>28, <1>29, <1>30, <1>31,
     <1>32, <1>33, <1>34, <1>35, <1>36, <1>37, <1>38, <1>39, <1>40, <1>41,
     <1>42, <1>43
  DEF Next, ConstructorStep, WorkerStep, ClientStep, ClientCalls, Submit,
      Failed
-----------------------------------------------------------------------------
\* The initial state satisfies the inductive invariant.
LEMMA IInvInit ==
    ASSUME Init
    PROVE  IInv
<1> USE SchedulerAssumption DEF Init
<1>1. TypeOK
  <2>1. ready \in Seq(Calls) /\ sent \in [Calls -> Seq(Results)]
    BY EmptySeq
  <2> QED
    BY <2>1 DEF TypeOK, WorkerPcs, ClientPcs, Verdicts
<1>2. InOnePlace
  BY DEF InOnePlace, Filed, Placed, Apart, IsInFlight, AtClient, AtWorker,
         Queued, HoldingPcs
<1>3. Hands
  BY DEF Hands, HoldingPcs, DonePcs, Refusals, IsInFlight, Queued
<1>4. FlagBeforeToken
  BY DEF FlagBeforeToken, DonePcs
<1>5. Answers
  BY DEF Answers, CancelledStaysSilent, OneAnswerPerRequest,
         NoEarlyStopDelivered, Refusals
<1>6. Phases
  BY DEF Phases, ShutdownPcs, Occupied
<1> QED
  BY <1>1, <1>2, <1>3, <1>4, <1>5, <1>6 DEF IInv

\* The inductive invariant holds in every reachable state of the scheduler:
\* for every call, exactly one thread or the queue is responsible for it.
THEOREM Invariance == Spec => []IInv
<1>1. Init => IInv
  BY IInvInit
<1>2. IInv /\ [Next]_vars => IInv'
  BY TypeOKStep, InOnePlaceStep, HandsStep, FlagBeforeTokenStep, AnswersStep,
     PhasesStep
  DEF IInv
<1> QED
  BY <1>1, <1>2, PTL DEF Spec

\* Every variable of the scheduler keeps its type.
THEOREM TypeCorrect == Spec => []TypeOK
<1>1. IInv => TypeOK
  BY DEF IInv
<1> QED
  BY <1>1, Invariance, PTL

\* finish() never hands a call to the completion callback that cancel() or
\* request_stop() has reached.
THEOREM CancellationIsSilent == Spec => []CancelledStaysSilent
<1>1. IInv => CancelledStaysSilent
  BY DEF IInv, Answers
<1> QED
  BY <1>1, Invariance, PTL

\* finish() runs the completion at most once for a call, and never for one
\* that submit() refused.
THEOREM AtMostOneAnswer == Spec => []OneAnswerPerRequest
<1>1. IInv => OneAnswerPerRequest
  BY DEF IInv, Answers
<1> QED
  BY <1>1, Invariance, PTL

\* run() and finish() let no result of a tool that stopped early through.
THEOREM EarlyStopsStayInside == Spec => []NoEarlyStopDelivered
<1>1. IInv => NoEarlyStopDelivered
  BY DEF IInv, Answers
<1> QED
  BY <1>1, Invariance, PTL

\* When shutdown() has returned no worker is left, and every accepted call was
\* handed to the callback or was cancelled.
THEOREM ShutdownDrainsAll == Spec => []ShutdownDrained
<1>1. ASSUME IInv PROVE ShutdownDrained
  <2> SUFFICES ASSUME joined,
                      NEW c \in Calls, verdict[c] = "accepted",
                      c \notin cancelled
               PROVE  Len(sent[c]) = 1
    BY <1>1 DEF IInv, Phases, ShutdownDrained
  <2>1. ~IsInFlight(c)
    BY <1>1, WorkMeansRunning
  <2>2. \A w \in Workers : ~AboutToSend(w, c)
    BY <1>1 DEF IInv, Phases, AboutToSend
  <2>3. sent[c] # <<>>
    BY <1>1, <2>1, <2>2 DEF IInv, Answers, IsAnswered
  <2>4. sent[c] \in Seq(Results) /\ Len(sent[c]) <= 1
    BY <1>1 DEF IInv, TypeOK, Answers, OneAnswerPerRequest
  <2>5. Len(sent[c]) # 0
    BY <2>3, <2>4, EmptySeq
  <2>6. Len(sent[c]) \in Nat
    BY <2>4
  <2>7. \A n \in Nat : n <= 1 /\ n # 0 => n = 1
    OBVIOUS
  <2> QED
    BY <2>4, <2>5, <2>6, <2>7
<1> QED
  BY <1>1, Invariance, PTL

\* While joined, no worker is past worker_loop() and no client holds a call.
LEMMA JoinedIsIdle ==
    ASSUME IInv, joined
    PROVE  /\ accepting = FALSE /\ ready = <<>> /\ ctor # "spawning"
           /\ \A w \in Workers : workerPc[w] \in {"unstarted", "exited"}
           /\ \A t \in Clients : clientPc[t] # "admitted"
           /\ Count({}) = stats
<1>1. /\ accepting = FALSE /\ ctor # "spawning"
      /\ \A w \in Workers : workerPc[w] \in {"unstarted", "exited"}
  BY DEF IInv, TypeOK, Phases
<1>2. \A c \in Calls : ~IsInFlight(c)
  BY WorkMeansRunning
<1>3. \A t \in Clients : clientPc[t] # "admitted"
  BY <1>2, AdmittedIsInFlight
<1>4. ready = <<>>
  <2>1. SUFFICES ASSUME ready # <<>> PROVE FALSE
    OBVIOUS
  <2>2. ready \in Seq(Calls) /\ 1 \in DOMAIN ready /\ ready[1] \in Calls
    BY <2>1 DEF IInv, TypeOK
  <2>3. ready[1] \in Queued
    BY <2>2 DEF Queued
  <2> QED
    BY <1>2, <2>2, <2>3 DEF IInv, InOnePlace, Placed
<1>5. Count({}) = stats
  BY DEF IInv, TypeOK, Count
<1> QED
  BY <1>1, <1>3, <1>4, <1>5

\* Then no step touches the queue, the counters, the workers or the answers.
LEMMA QuietStep ==
    ASSUME IInv, joined, [Next]_vars
    PROVE  UNCHANGED <<accepting, inFlight, ready, stats, workerVars, sent>>
<1> DEFINE Quiet ==
      UNCHANGED <<accepting, inFlight, ready, stats, workerVars, sent>>
<1> USE JoinedIsIdle DEF schedVars, controlVars, workerVars, clientVars, history
<1>1. ASSUME NEW w \in Workers, WorkerStep(w) \/ WorkerWakesSpuriously(w)
      PROVE  Quiet
  BY <1>1
  DEF WorkerStep, WorkerWakesSpuriously, WorkerSleep, WorkerExit, WorkerTake,
      RunSkips, RunTimesOut, RunExecutes, ExecutorReturns, RunTimesOutLate,
      RunKeepsResult, Finish, FinishQuietly, FinishCompletes,
      CompletionReturns, CompletionRequestsStop, CompletionShutsDown,
      WorkerSignals, WorkerSignalled
<1>2. NotifyAllReady => UNCHANGED workerPc
  BY DEF NotifyAllReady, IInv, TypeOK
<1>3. NotifyOneReady => UNCHANGED workerPc
  BY DEF NotifyOneReady, Asleep
<1>4. ASSUME ConstructorStep \/ SpawnFails PROVE Quiet
  BY <1>2, <1>4
  DEF ConstructorStep, SpawnWorker, SpawnFails, ConstructorReturns,
      UnwindNotify, UnwindJoin, ConstructorGoes
<1>5. ASSUME NEW t \in Clients, ClientCalls(t) PROVE Quiet
  <2>1. ASSUME NEW c \in Calls, Submit(t, c) PROVE Quiet
    BY <2>1
    DEF Submit, SubmitStopped, SubmitDuplicate, SubmitQueueFull, SubmitAdmits,
        Reject
  <2>2. ASSUME NEW k \in Keys, Cancel(t, k) PROVE Quiet
    BY <2>2 DEF Cancel
  <2>3. CASE RequestStop(t)
    BY <2>3 DEF RequestStop, StopAll
  <2>4. CASE ShutdownCalled(t)
    BY <2>4 DEF ShutdownCalled, ShutdownGoes
  <2> QED
    BY <1>5, <2>1, <2>2, <2>3, <2>4 DEF ClientCalls
<1>6. ASSUME NEW t \in Clients, ClientStep(t) \/ ShutdownWakesSpuriously(t)
      PROVE  Quiet
  BY <1>2, <1>3, <1>6
  DEF ClientStep, ShutdownWakesSpuriously, Enqueue, EnqueueNotifies,
      SubmitAbandons, AbandonNotifies, ClientSignals, Signal, ClientSignalled,
      ShutdownEnters, ShutdownDrains, ShutdownNotifies, ShutdownJoins,
      ShutdownGoes
<1>7. ASSUME NEW c \in Calls, Expire(c) PROVE Quiet
  BY <1>7 DEF Expire
<1>8. CASE UNCHANGED vars
  BY <1>8 DEF vars
<1> QED
  BY <1>1, <1>4, <1>5, <1>6, <1>7, <1>8 DEF Next, Failed

\* Once shutdown() has joined the workers nothing of the scheduler moves.
THEOREM ShutdownIsFinal == Spec => QuietAfterShutdown
<1>1. IInv /\ [Next]_vars =>
        [joined => UNCHANGED <<accepting, inFlight, ready, stats, workerVars,
                               sent>>]_vars
  BY QuietStep
<1> QED
  BY <1>1, Invariance, PTL DEF Spec, QuietAfterShutdown
=============================================================================

