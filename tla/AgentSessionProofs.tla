-------------------------- MODULE AgentSessionProofs --------------------------
(***************************************************************************)
(* Proofs about AgentSession, for every set of actions, every offer of the *)
(* provider and every limit: the inductive invariant Account, what      *)
(* follows from it, and that a run implements ActionLedger.                *)
(***************************************************************************)
EXTENDS AgentProperties, TLAPS

\* Whatever is raised or returned, run() goes on to close() and keeps its method.
LEMMA OuterCloses ==
    ASSUME NEW t, NEW class, Outer(t, class)
    PROVE  /\ pc' = "close" /\ method' = method
           /\ ret' = "outcome" /\ mode' = mode /\ outcome' \in Outcomes
BY DEF Outer, Return, Outcomes

LEMMA ReturnCheckedCloses ==
    ASSUME NEW t, NEW o \in Outcomes, ReturnChecked(t, o)
    PROVE  /\ pc' = "close" /\ method' = method
           /\ ret' = "outcome" /\ mode' = mode /\ outcome' \in Outcomes
BY OuterCloses DEF ReturnChecked, Return

LEMMA RaiseCloses ==
    ASSUME NEW class, Raise(class)
    PROVE  /\ pc' = "close" /\ method' = method
           /\ ret' = "outcome" /\ mode' = mode /\ outcome' \in Outcomes
BY OuterCloses, ReturnCheckedCloses DEF Raise, Inner, Outcomes

\* Steps that leave the account of actions alone and end in close().
LEMMA ClosingStep ==
    ASSUME Account, pc' \in Closing, method' = method,
           UNCHANGED <<batch, actions, sent, evidence>>, nextId' \in Nat \ {0}
    PROVE  Account'
<1> USE DEF Account, Closing
<1>1. Shapes' /\ HandshakeFirst' BY DEF Shapes, Points, HandshakeFirst
<1>2. Prepared' BY DEF Prepared, Calling
<1>3. Balance' BY DEF Balance, Busy
<1>4. Sendings' /\ Answers' /\ AtMostOnce'
  BY DEF Sendings, Answers, AtMostOnce, Calling, Waiting
<1>5. NothingLost' BY DEF NothingLost, Busy
<1> QED BY <1>1, <1>2, <1>3, <1>4, <1>5

\* Steps that leave it alone while no call is at hand, before and after.
LEMMA IdleStep ==
    ASSUME Account, pc \notin Closing, ~Calling, ~Calling',
           pc' \in Points \ {"exec", "budget", "authorize"}, HandshakeFirst',
           method' \in {"initialize", "tools/list", "tools/call"},
           UNCHANGED <<actions, sent, evidence>>, batch' \in Seq(Proposals),
           nextId' \in Nat \ {0}
    PROVE  Account'
<1> USE DEF Account
<1>1. Shapes' BY DEF Shapes, Points
<1>2. Prepared' BY DEF Prepared, Points
<1>3. ~Waiting /\ ~Waiting' /\ Busy BY DEF Waiting, Calling, Busy
<1>4. Balance' BY <1>3 DEF Balance
<1>5. Sendings' /\ Answers' /\ AtMostOnce'
  BY <1>3 DEF Sendings, Answers, AtMostOnce
<1>6. NothingLost' BY <1>3 DEF NothingLost
<1> QED BY <1>1, <1>2, <1>4, <1>5, <1>6

\* Steps of run() that leave the call at hand where it is: not yet written, or
\* waited for.
LEMMA CallStep ==
    ASSUME Account, Calling, Calling', Waiting' <=> Waiting,
           UNCHANGED <<method, batch, actions, sent, evidence>>,
           nextId' \in Nat \ {0}, Waiting => nextId' = nextId
    PROVE  Account'
<1> USE DEF Account
<1>0. Busy /\ Busy' /\ pc' \in Points BY DEF Calling, Busy, Closing, Points
<1>1. Shapes' /\ HandshakeFirst' BY <1>0 DEF Shapes, HandshakeFirst, Calling
<1>2. Prepared' BY DEF Prepared, NewFrom, Calling
<1>3. Balance' /\ Answers' /\ AtMostOnce' BY <1>0 DEF Balance, Answers, AtMostOnce
<1>4. Sendings' BY DEF Sendings
<1>5. NothingLost' BY <1>0 DEF NothingLost
<1> QED BY <1>1, <1>2, <1>3, <1>4, <1>5

\* Steps of run() between a look at the stops and the next.
LEMMA LookStep ==
    ASSUME Account, pc \in {"exec", "budget"}, batch # <<>>,
           pc' \in {"budget", "authorize"},
           UNCHANGED <<method, batch, actions, sent, evidence, nextId>>
    PROVE  Account'
<1> USE DEF Account
<1>0. Busy /\ Busy' /\ ~Calling /\ ~Calling' /\ ~Waiting /\ ~Waiting'
  BY DEF Calling, Waiting, Busy, Closing
<1>1. Shapes' /\ HandshakeFirst' BY DEF Shapes, Points, HandshakeFirst
<1>2. Prepared' BY <1>0 DEF Prepared, NewFrom
<1>3. Balance' /\ Answers' /\ AtMostOnce' BY <1>0 DEF Balance, Answers, AtMostOnce
<1>4. Sendings' BY <1>0 DEF Sendings
<1>5. NothingLost' BY <1>0 DEF NothingLost
<1> QED BY <1>1, <1>2, <1>3, <1>4, <1>5

\* Steps of others, and of run() where it only waits on.
LEMMA FrameStep ==
    ASSUME Account, UNCHANGED <<pc, method, batch, actions, sent, evidence, nextId>>
    PROVE  Account'
<1> USE DEF Account, Calling, Waiting, Busy
<1>1. Shapes' /\ HandshakeFirst' BY DEF Shapes, HandshakeFirst
<1>2. Prepared' BY DEF Prepared, NewFrom
<1>3. Balance' /\ Answers' /\ AtMostOnce' BY DEF Balance, Answers, AtMostOnce
<1>4. Sendings' BY DEF Sendings
<1>5. NothingLost' BY DEF NothingLost
<1> QED BY <1>1, <1>2, <1>3, <1>4, <1>5

-----------------------------------------------------------------------------
(* The steps that move the account.                                        *)

LEMMA ProposeStep ==
    ASSUME Account, SessionAssumption, NEW s \in Offers, ProviderProposes(s)
    PROVE  Account'
<1> USE DEF Account
<1>0. pc = "provider" /\ UNCHANGED <<actions, sent, evidence, nextId>>
  BY DEF ProviderProposes, client
<1>1. CASE pc' = "close" /\ method' = method /\ batch' = batch
  BY <1>0, <1>1, ClosingStep DEF Shapes, Closing
<1>2. CASE /\ {i \in DOMAIN s : ~Acceptable(s, i)} = {}
           /\ batch' = s /\ pc' = "exec" /\ method' = method
  <2>1. s \in Seq(Proposals) BY DEF SessionAssumption
  <2>2. \A i \in 1..Len(s) : Acceptable(s, i) BY <1>2, <2>1
  <2>3. NewFrom(1)'
    BY <1>0, <1>2, <2>1, <2>2 DEF NewFrom, Acceptable
  <2>4. Shapes' /\ HandshakeFirst' BY <1>0, <1>2, <2>1 DEF Shapes, Points, HandshakeFirst
  <2>5. ~Calling /\ ~Waiting /\ ~Calling' /\ ~Waiting' /\ Busy
    BY <1>0, <1>2 DEF Calling, Waiting, Busy, Closing
  <2>6. Prepared' BY <1>2, <2>3, <2>5 DEF Prepared
  <2>7. Balance' BY <1>0, <2>5 DEF Balance
  <2>8. Sendings' /\ Answers' /\ AtMostOnce' /\ NothingLost'
    BY <1>0, <2>5 DEF Sendings, Answers, AtMostOnce, NothingLost
  <2> QED BY <2>4, <2>6, <2>7, <2>8
<1>3. QED
  BY <1>1, <1>2, ReturnCheckedCloses DEF ProviderProposes, Return, Outcomes

LEMMA AuthorizeStep ==
    ASSUME Account, Authorize
    PROVE  Account'
<1> USE DEF Account
<1>0. pc = "authorize" /\ batch # <<>> /\ batch \in Seq(Proposals)
  BY DEF Authorize, Prepared, Shapes
<1>1. /\ pc = "authorize" /\ batch # <<>>
      /\ actions' = actions \cup {batch[1].act}
      /\ UNCHANGED <<batch, evidence, sent, nextId>>
  BY <1>0 DEF Authorize, client
<1>2. \/ pc' = "close" /\ method' = method
      \/ pc' = "execute" /\ method' = "tools/call"
  BY OuterCloses DEF Authorize
<1>3. batch \in Seq(Proposals) /\ Len(batch) > 0 /\ Len(batch) \in Nat
  BY <1>1 DEF Shapes
<1>4. NewFrom(1) /\ batch[1].act \in Actions \ actions
  BY <1>1, <1>3 DEF Prepared, NewFrom
<1>5. NewFrom(2)' BY <1>1, <1>3, <1>4 DEF NewFrom
<1>6. Shapes' /\ HandshakeFirst' BY <1>1, <1>2, <1>4 DEF Shapes, Points, HandshakeFirst
<1>7. ~Waiting /\ ~Waiting' /\ Busy /\ ~Calling
  BY <1>1, <1>2 DEF Waiting, Busy, Closing, Calling
<1>8. Prepared' BY <1>1, <1>2, <1>5 DEF Prepared, Calling
<1>9. Balance' BY <1>1, <1>7 DEF Balance
<1>10. Sendings' BY <1>1, <1>4, <1>7 DEF Sendings
<1>11. Answers' /\ AtMostOnce' BY <1>1 DEF Answers, AtMostOnce
<1>12. NothingLost' BY <1>1, <1>2, <1>7 DEF NothingLost, Busy, Closing, Calling
<1> QED BY <1>6, <1>8, <1>9, <1>10, <1>11, <1>12

\* A tools/call that may have reached the child.
LEMMA IssueStep ==
    ASSUME Account, pc = "write", method = "tools/call", sent' = Issued,
           UNCHANGED <<method, batch, actions, evidence, nextId>>,
           pc' \in {"wait", "close"}
    PROVE  Account'
<1> USE DEF Account
<1>1. Calling /\ ~Waiting /\ Busy BY DEF Calling, Waiting, Busy, Closing
<1>2. batch \in Seq(Proposals) /\ batch # <<>> /\ batch[1].act \in actions
      /\ nextId - 1 \in Nat
  BY <1>1 DEF Shapes, Prepared
<1> DEFINE new == [act |-> batch[1].act, id |-> nextId - 1]
<1>3. sent' = Append(sent, new) BY <1>2 DEF Issued
<1>4. sent \in Seq([act : Actions, id : Nat]) /\ new \in [act : Actions, id : Nat]
  BY <1>2 DEF Shapes
<1>5. /\ Len(sent') = Len(sent) + 1 /\ sent'[Len(sent) + 1] = new
      /\ \A i \in 1..Len(sent) : sent'[i] = sent[i]
      /\ DOMAIN sent = 1..Len(sent) /\ DOMAIN sent' = 1..(Len(sent) + 1)
      /\ Len(sent) \in Nat
  BY <1>3, <1>4
<1> HIDE DEF new
<1>6. Shapes' /\ HandshakeFirst'
  BY <1>3, <1>4 DEF Shapes, Points, HandshakeFirst
<1>7. Prepared' BY <1>1 DEF Prepared, NewFrom, Calling
<1>8. Len(sent) = Len(evidence) /\ Len(evidence) \in Nat
  BY <1>1 DEF Balance, Shapes
<1>9. Balance' BY <1>5, <1>8 DEF Balance, Busy, Waiting, Closing
<1>10. \A i \in DOMAIN sent : sent[i].act # batch[1].act BY <1>1 DEF Sendings
<1>11. AtMostOnce' BY <1>5, <1>10 DEF AtMostOnce, new
<1>12. Sendings' BY <1>2, <1>5 DEF Sendings, Waiting, Calling, new
<1>13. Answers'
  BY <1>5 DEF Answers
<1>14. NothingLost' BY <1>1 DEF NothingLost, Calling, Busy, Closing
<1> QED BY <1>6, <1>7, <1>9, <1>11, <1>12, <1>13, <1>14

\* The answer to the call at hand.
LEMMA ProvedStep ==
    ASSUME Account, pc = "drain", method = "tools/call",
           NEW r, r.id = nextId - 1,
           evidence' = Append(evidence, [act |-> Head(batch).act, id |-> nextId - 1,
                                         from |-> r.id]),
           batch' = Tail(batch), pc' = "exec",
           UNCHANGED <<method, actions, sent, nextId>>
    PROVE  Account'
<1> USE DEF Account
<1>1. Calling /\ Waiting /\ Busy BY DEF Calling, Waiting, Busy, Closing
<1>2. batch \in Seq(Proposals) /\ batch # <<>> /\ batch[1].act \in actions
      /\ actions \subseteq Actions /\ nextId \in Nat \ {0} /\ NewFrom(2)
  BY <1>1 DEF Shapes, Prepared
<1> DEFINE new == [act |-> batch[1].act, id |-> nextId - 1, from |-> nextId - 1]
<1>3. evidence' = Append(evidence, new) BY <1>2
<1>4. /\ evidence \in Seq([act : Actions, id : Nat, from : Nat])
      /\ new \in [act : Actions, id : Nat, from : Nat]
  BY <1>2 DEF Shapes
<1>5. /\ Len(evidence') = Len(evidence) + 1 /\ evidence'[Len(evidence) + 1] = new
      /\ \A i \in 1..Len(evidence) : evidence'[i] = evidence[i]
      /\ DOMAIN evidence = 1..Len(evidence)
      /\ DOMAIN evidence' = 1..(Len(evidence) + 1)
      /\ Len(evidence) \in Nat
  BY <1>3, <1>4
<1>6. /\ new.act = batch[1].act /\ new.id = nextId - 1 /\ new.from = nextId - 1
      /\ sent[Len(sent)] = [act |-> batch[1].act, id |-> nextId - 1]
  BY <1>1 DEF Sendings
<1> HIDE DEF new
<1>7. /\ Len(batch') = Len(batch) - 1 /\ Len(batch) \in Nat
      /\ \A i \in 1..Len(batch') : batch'[i] = batch[i + 1]
  BY <1>2
<1>8. NewFrom(1)' BY <1>2, <1>7 DEF NewFrom
<1>9. Shapes' /\ HandshakeFirst'
  BY <1>2, <1>3, <1>4 DEF Shapes, Points, HandshakeFirst
<1>10. ~Calling' /\ ~Waiting' BY DEF Calling, Waiting
<1>11. Prepared' BY <1>8, <1>10 DEF Prepared
<1>12. /\ Len(sent) = Len(evidence) + 1 /\ DOMAIN sent = 1..Len(sent)
       /\ sent[Len(evidence) + 1] = [act |-> batch[1].act, id |-> nextId - 1]
  BY <1>1, <1>5, <1>6 DEF Balance, Shapes
<1>13. Balance' BY <1>5, <1>10, <1>12 DEF Balance
<1>14. Sendings' /\ AtMostOnce' BY <1>10 DEF Sendings, AtMostOnce
<1>15. Answers' BY <1>5, <1>6, <1>12 DEF Answers
<1>16. NothingLost'
  <2> SUFFICES ASSUME NEW a \in actions
               PROVE  \E i \in DOMAIN evidence' : evidence'[i].act = a
    BY DEF NothingLost
  <2>1. (\E i \in DOMAIN evidence : evidence[i].act = a) \/ batch[1].act = a
    BY <1>1 DEF NothingLost
  <2> QED BY <2>1, <1>5, <1>6
<1> QED BY <1>9, <1>11, <1>13, <1>14, <1>15, <1>16

-----------------------------------------------------------------------------
(* Every step.                                                             *)

LEMMA Start == ASSUME Init PROVE Account
<1> USE DEF Init
<1>1. Shapes /\ HandshakeFirst BY DEF Shapes, Points, HandshakeFirst
<1>2. Prepared /\ Balance BY DEF Prepared, Balance, Calling, Waiting
<1>3. Sendings /\ Answers /\ AtMostOnce /\ NothingLost
  BY DEF Sendings, Answers, AtMostOnce, NothingLost, Calling, Waiting
<1> QED BY <1>1, <1>2, <1>3 DEF Account

\* A line is accepted under the id of the last request only.
LEMMA AcceptedId ==
    ASSUME NEW r, Verdict(r) = "accepted"
    PROVE  r.id = nextId - 1
BY DEF Verdict

LEMMA DrainStep ==
    ASSUME Account, NEW k, Drain(k)
    PROVE  Account'
<1> DEFINE read == SubSeq(pipe, 1, k)
           lines == SelectSeq(read, LAMBDA x : x # Half)
           r == lines[1]
           verdict == IF \E i \in DOMAIN lines : lines[i].body = "huge"
                      THEN "oversized_response" ELSE Verdict(r)
<1>0. pc = "drain" /\ nextId' = nextId BY DEF Drain
<1>1. CASE pc' = "wait" /\ UNCHANGED method /\ UNCHANGED work
  <2>1. CASE method = "tools/call"
    BY <1>0, <1>1, <2>1, CallStep DEF work, Calling, Waiting, Account, Shapes
  <2>2. CASE method # "tools/call"
    BY <1>0, <1>1, <2>2, IdleStep
    DEF work, Calling, Closing, Points, HandshakeFirst, Account, Shapes
  <2> QED BY <2>1, <2>2
<1>2. CASE Raise(verdict) /\ UNCHANGED work
  BY <1>0, <1>2, RaiseCloses, ClosingStep DEF work, Closing, Account, Shapes
<1>3. CASE verdict = "accepted" /\ Accept(r) /\ UNCHANGED method
  <2>1. r.id = nextId - 1
    <3>1. Verdict(r) = "accepted" BY <1>3
    <3> QED BY <3>1, AcceptedId
  <2> HIDE DEF r
  <2>2. CASE method = "tools/call"
    <3>1. /\ evidence' = Append(evidence, [act |-> Head(batch).act, id |-> nextId - 1,
                                           from |-> r.id])
          /\ batch' = Tail(batch) /\ pc' = "exec"
          /\ UNCHANGED <<actions, sent>>
      BY <1>3, <2>2 DEF Accept
    <3> QED BY <1>0, <1>3, <2>1, <2>2, <3>1, ProvedStep
  <2>3. CASE method # "tools/call"
    <3>1. pc' \in {"notify", "send", "turn"} /\ UNCHANGED work
          /\ (pc' = "notify" => method = "initialize")
      BY <1>3, <2>3 DEF Accept
    <3> QED
      BY <1>0, <1>3, <2>3, <3>1, IdleStep
      DEF work, Calling, Closing, Points, HandshakeFirst, Account, Shapes
  <2> QED BY <2>2, <2>3
<1> QED BY <1>1, <1>2, <1>3 DEF Drain

LEMMA Step ==
    ASSUME Account, SessionAssumption, [Next]_vars
    PROVE  Account'
<1> USE DEF work, client, control, outside
<1>0. nextId \in Nat \ {0} /\ nextId + 1 \in Nat \ {0} /\ pc \in Points
      /\ batch \in Seq(Proposals) /\ method \in {"initialize", "tools/list", "tools/call"}
      /\ (pc \in {"idle", "start", "started", "notify", "notifying"} => method = "initialize")
  BY DEF Account, Shapes, Points, HandshakeFirst
<1>1. CASE Run \/ Popen \/ TurnDone
  BY <1>0, <1>1, IdleStep
  DEF Run, Popen, TurnDone, Calling, Closing, Points, HandshakeFirst
<1>2. CASE StartFails \/ SendTooLate \/ SendTooLarge \/ WaitCancelled \/ WaitExited \/ WaitTimeout
  BY <1>0, <1>2, RaiseCloses, ClosingStep
  DEF StartFails, SendTooLate, SendTooLarge, WaitCancelled, WaitExited, WaitTimeout, Closing
<1>3. CASE Started
  <2>1. CASE expired BY <1>0, <1>3, <2>1, ClosingStep DEF Started, Closing
  <2>2. CASE ~expired
    BY <1>0, <1>3, <2>2, IdleStep DEF Started, Calling, Closing, Points, HandshakeFirst
  <2> QED BY <2>1, <2>2
<1>4. CASE WriteBroken
  <2>1. pc' = "close" /\ method' = method BY <1>4, RaiseCloses DEF WriteBroken
  <2>2. CASE method = "tools/call" BY <1>4, <2>1, <2>2, IssueStep DEF WriteBroken
  <2>3. CASE method # "tools/call"
    BY <1>0, <1>4, <2>1, <2>3, ClosingStep DEF WriteBroken, Issued, Closing
  <2> QED BY <2>2, <2>3
<1>5. CASE Write
  <2>1. CASE method = "tools/call" BY <1>5, <2>1, IssueStep DEF Write
  <2>2. CASE method # "tools/call"
    BY <1>0, <1>5, <2>2, IdleStep
    DEF Write, Issued, Calling, Closing, Points, HandshakeFirst
  <2> QED BY <2>1, <2>2
<1>6. CASE \E k \in 0..Len(pipe) : Drain(k) BY <1>6, DrainStep
<1>7. CASE Notify \/ NotifyWrite
  <2>1. CASE pc' = "close" /\ method' = method
    BY <1>0, <1>7, <2>1, ClosingStep DEF Notify, NotifyWrite, Closing
  <2>2. CASE \/ pc' = "send" /\ method' = "tools/list"
             \/ pc' = "notifying" /\ method' = method
    BY <1>0, <1>7, <2>2, IdleStep
    DEF Notify, NotifyWrite, Calling, Closing, Points, HandshakeFirst
  <2> QED BY <1>7, <2>1, <2>2, OuterCloses DEF Notify, NotifyWrite
<1>17. CASE Send \/ WaitGoesOn
  <2>1. CASE method = "tools/call"
    BY <1>0, <1>17, <2>1, CallStep DEF Send, WaitGoesOn, Calling, Waiting
  <2>2. CASE method # "tools/call"
    BY <1>0, <1>17, <2>2, IdleStep
    DEF Send, WaitGoesOn, Calling, Closing, Points, HandshakeFirst
  <2> QED BY <2>1, <2>2
<1>8. CASE Turn
  <2>1. CASE pc' = "close" /\ method' = method
    BY <1>0, <1>8, <2>1, ClosingStep DEF Turn, Closing
  <2>2. CASE pc' = "provider" /\ method' = method
    BY <1>0, <1>8, <2>2, IdleStep DEF Turn, Calling, Closing, Points, HandshakeFirst
  <2> QED BY <1>8, <2>1, <2>2, OuterCloses DEF Turn, Return
<1>9. CASE \E class \in ProviderFailures : ProviderFails(class)
  BY <1>0, <1>9, OuterCloses, ClosingStep DEF ProviderFails, Closing
<1>10. CASE \E final \in BOOLEAN : ProviderEnds(final)
  BY <1>0, <1>10, ClosingStep DEF ProviderEnds, Return, Closing
<1>11. CASE \E s \in Offers : ProviderProposes(s) BY <1>11, ProposeStep
<1>12. CASE CallCancelled \/ CallBudget \/ AuthorizeRefuses \/ Execute
  <2>1. CASE pc' = "close" /\ method' = method
    BY <1>0, <1>12, <2>1, ClosingStep
    DEF CallCancelled, CallBudget, AuthorizeRefuses, Execute, Closing
  <2>2. CASE CallBudget /\ pc' = "authorize" /\ method' = method
    <3>1. pc = "budget" /\ batch # <<>> BY <2>2 DEF CallBudget, Account, Prepared
    <3> QED BY <2>2, <3>1, LookStep DEF CallBudget
  <2>3. CASE Execute /\ pc' = "send" /\ method' = method
    <3>1. CASE method = "tools/call"
      BY <1>0, <2>3, <3>1, CallStep DEF Execute, Calling, Waiting
    <3>2. CASE method # "tools/call"
      BY <1>0, <2>3, <3>2, IdleStep DEF Execute, Calling, Closing, Points, HandshakeFirst
    <3> QED BY <3>1, <3>2
  <2> QED
    BY <1>12, <2>1, <2>2, <2>3, ReturnCheckedCloses, OuterCloses
    DEF CallCancelled, CallBudget, AuthorizeRefuses, Execute, Inner, Outcomes
<1>13. CASE Authorize BY <1>13, AuthorizeStep
<1>18. CASE CallGoesOn BY <1>18, LookStep DEF CallGoesOn
<1>14. CASE CloseBegin \/ CloseTerminate \/ CloseKill
  BY <1>0, <1>14, ClosingStep DEF CloseBegin, CloseTerminate, CloseKill, Closing
<1>15. CASE Closed
  <2>1. pc' \in {"close", "done"} /\ method' = method
    BY <1>15, OuterCloses DEF Closed
  <2> QED BY <1>0, <1>15, <2>1, ClosingStep DEF Closed, Closing
<1>16. CASE ChildStep \/ Tick \/ Cancel \/ Returned \/ UNCHANGED vars
  BY <1>16, FrameStep
  DEF ChildStep, ChildWrites, ChildStalls, ChildResumes, ChildStopsReading, ChildExits,
      Tick, Cancel, Returned, vars
<1> QED
  BY <1>1, <1>2, <1>3, <1>4, <1>5, <1>6, <1>7, <1>8, <1>9, <1>10, <1>11, <1>12,
     <1>13, <1>14, <1>15, <1>16, <1>17, <1>18
  DEF Next, RunStep

-----------------------------------------------------------------------------
(* Types and budgets.                                                      *)

TypeInv == AgentTypeOK /\ Budget

LEMMA TypeStart == ASSUME SessionAssumption, Init PROVE TypeInv
<1>1. /\ TurnCount \in Nat /\ CallsPerTurn \in Nat /\ TotalCalls \in Nat
      /\ MaxPipe \in Nat
  BY DEF SessionAssumption
<1>2. /\ batch = <<>> /\ evidence = <<>> /\ sent = <<>> /\ pipe = <<>>
      /\ Len(batch) = 0 /\ Len(evidence) = 0 /\ Len(sent) = 0 /\ Len(pipe) = 0
  BY DEF Init
<1>3. batch \in Seq(Proposals) /\ pipe \in Seq(Writes) BY <1>2
<1>4. /\ process \in BOOLEAN /\ dirty \in BOOLEAN /\ out \in BOOLEAN
      /\ expired \in BOOLEAN /\ cancelled \in BOOLEAN
  BY DEF Init
<1>5. turn \in 0..TurnCount /\ nextId \in Nat BY <1>1 DEF Init
<1>6. /\ pc \in Points /\ method \in {"initialize", "tools/list", "tools/call"}
      /\ ret \in {"startup", "outcome"} /\ outcome \in Outcomes
      /\ mode \in {"none", "terminate", "kill", "unreaped"}
      /\ signal \in {"none", "term", "kill"}
      /\ child \in {"off", "running", "exited"} /\ stdin \in {"open", "stuck", "broken"}
  BY DEF Init, Points, Outcomes
<1>7. AgentTypeOK
  BY <1>1, <1>2, <1>3, <1>4, <1>5, <1>6 DEF AgentTypeOK, Init
<1>8. Budget BY <1>3 DEF Budget, Calling, Init
<1> QED BY <1>7, <1>8 DEF TypeInv

\* Steps that end in close(), and change at most the client's own state.
LEMMA TypeClosing ==
    ASSUME TypeInv, pc' \in Closing, UNCHANGED <<method, turn, batch, evidence>>,
           actions' \subseteq Actions, callIds' \subseteq CallIds,
           ret' \in {"startup", "outcome"}, outcome' \in Outcomes,
           mode' \in {"none", "terminate", "kill", "unreaped"},
           Len(sent') <= TotalCalls, dirty' \in BOOLEAN, process' \in BOOLEAN,
           signal' \in {"none", "term", "kill"},
           pipe' \in Seq(Writes), Len(pipe') <= MaxPipe, out' \in BOOLEAN,
           nextId' \in Nat, UNCHANGED cursors, UNCHANGED outside
    PROVE  TypeInv'
<1>1. AgentTypeOK' BY DEF TypeInv, AgentTypeOK, Closing, Points, outside
<1>2. Budget' BY DEF TypeInv, Budget, Calling, Closing
<1> QED BY <1>1, <1>2 DEF TypeInv

\* Steps that go on with run().
LEMMA TypeGoing ==
    ASSUME TypeInv, pc' \in Points, method' \in {"initialize", "tools/list", "tools/call"},
           turn' \in 0..TurnCount,
           Calling' \/ pc' \in {"provider", "exec", "budget", "authorize"} => turn' < TurnCount,
           Calling' \/ pc' = "authorize" => Len(evidence') < TotalCalls,
           batch' \in Seq(Proposals), Len(batch') <= CallsPerTurn,
           actions' \subseteq Actions, callIds' \subseteq CallIds,
           Len(evidence') <= TotalCalls, Len(sent') <= TotalCalls,
           UNCHANGED <<ret, mode, outcome, dirty, signal>>, process' \in BOOLEAN,
           pipe' \in Seq(Writes), Len(pipe') <= MaxPipe, out' \in BOOLEAN,
           nextId' \in Nat, cursors' \subseteq Cursors,
           child' \in {"off", "running", "exited"},
           UNCHANGED <<stdin, expired, cancelled>>
    PROVE  TypeInv'
<1>1. AgentTypeOK' BY DEF TypeInv, AgentTypeOK
<1>2. Budget' BY DEF TypeInv, Budget
<1> QED BY <1>1, <1>2 DEF TypeInv

LEMMA TypeProposes ==
    ASSUME SessionAssumption, TypeInv, NEW s \in Offers, ProviderProposes(s)
    PROVE  TypeInv'
<1> USE DEF client
<1>0. s \in Seq(Proposals) /\ pc = "provider" /\ turn < TurnCount
  BY DEF SessionAssumption, ProviderProposes, TypeInv, Budget
<1>1. CASE pc' = "close" /\ batch' = batch
  <2>1. method' = method /\ ret' = "outcome" /\ mode' = mode /\ outcome' \in Outcomes
    BY <1>1, ReturnCheckedCloses DEF ProviderProposes, Return, Outcomes
  <2> QED BY <1>1, <2>1, TypeClosing DEF ProviderProposes, TypeInv, AgentTypeOK, Budget, Closing
<1>2. CASE /\ Len(s) <= CallsPerTurn /\ batch' = s /\ pc' = "exec"
           /\ UNCHANGED <<method, ret, mode, outcome>>
  BY <1>0, <1>2, TypeGoing
  DEF ProviderProposes, TypeInv, AgentTypeOK, Budget, Points, Calling, outside
<1> QED
  <2>1. Len(s) \in Nat /\ CallsPerTurn \in Nat BY <1>0 DEF SessionAssumption
  <2> QED
    BY <1>1, <1>2, <2>1, ReturnCheckedCloses DEF ProviderProposes, Return, Outcomes

LEMMA TypeDrain ==
    ASSUME SessionAssumption, TypeInv, Account, NEW k \in 0..Len(pipe), Drain(k)
    PROVE  TypeInv'
<1> DEFINE read == SubSeq(pipe, 1, k)
           lines == SelectSeq(read, LAMBDA x : x # Half)
           r == lines[1]
           verdict == IF \E i \in DOMAIN lines : lines[i].body = "huge"
                      THEN "oversized_response" ELSE Verdict(r)
<1> USE DEF outside
<1>0. /\ pc = "drain" /\ UNCHANGED <<process, dirty, signal, nextId>> /\ UNCHANGED outside
      /\ out' \in BOOLEAN /\ pipe' = SubSeq(pipe, k + 1, Len(pipe))
  <2>1. out \in BOOLEAN BY DEF TypeInv, AgentTypeOK
  <2> QED BY <2>1 DEF Drain
<1>1. pipe' \in Seq(Writes) /\ Len(pipe') <= MaxPipe
  BY <1>0 DEF SessionAssumption, TypeInv, AgentTypeOK, Budget
<1>2. CASE pc' = "wait" /\ UNCHANGED <<method, ret, mode, outcome, work, cursors>>
  BY <1>0, <1>1, <1>2, TypeGoing
  DEF work, TypeInv, AgentTypeOK, Budget, Points, Calling
<1>3. CASE Raise(verdict) /\ UNCHANGED <<work, cursors>>
  BY <1>0, <1>1, <1>3, RaiseCloses, TypeClosing
  DEF work, TypeInv, AgentTypeOK, Budget, Closing
<1>4. CASE Accept(r) /\ UNCHANGED <<method, ret, mode, outcome>>
  <2> HIDE DEF r
  <2>1. CASE method = "tools/call"
    <3>1. /\ evidence' = Append(evidence, [act |-> Head(batch).act, id |-> nextId - 1,
                                           from |-> r.id])
          /\ batch' = Tail(batch) /\ pc' = "exec"
          /\ UNCHANGED <<turn, actions, callIds, sent, cursors>>
      BY <1>4, <2>1 DEF Accept
    <3>2. /\ Calling /\ batch \in Seq(Proposals) /\ batch # <<>>
          /\ evidence \in Seq([act : Actions, id : Nat, from : Nat])
      BY <1>0, <2>1 DEF Calling, Account, Shapes, Prepared
    <3>3. Len(evidence') = Len(evidence) + 1 /\ Len(evidence) \in Nat
      BY <3>1, <3>2
    <3>4. batch' \in Seq(Proposals) /\ Len(batch') <= CallsPerTurn
      BY <3>1, <3>2 DEF TypeInv, AgentTypeOK, SessionAssumption
    <3>5. /\ turn < TurnCount /\ Len(evidence) < TotalCalls /\ TotalCalls \in Nat
      BY <3>2 DEF TypeInv, Budget, SessionAssumption
    <3>6. ~Calling' /\ pc' # "authorize" BY <3>1 DEF Calling
    <3>7. Len(evidence') <= TotalCalls BY <3>3, <3>5
    <3> QED
      BY <1>0, <1>1, <1>4, <3>1, <3>4, <3>5, <3>6, <3>7, TypeGoing
      DEF TypeInv, AgentTypeOK, Points
  <2>2. CASE method # "tools/call"
    <3>1. /\ pc' \in {"notify", "send", "turn"} /\ UNCHANGED work
          /\ cursors' = cursors \/ \E c \in Cursors : cursors' = cursors \cup {c}
      BY <1>4, <2>2 DEF Accept
    <3>2. ~Calling' BY <1>4, <2>2 DEF Calling
    <3> QED
      BY <1>0, <1>1, <1>4, <3>1, <3>2, TypeGoing
      DEF work, TypeInv, AgentTypeOK, Budget, Points
  <2> QED BY <2>1, <2>2
<1> QED BY <1>2, <1>3, <1>4 DEF Drain

LEMMA TypeAuthorize ==
    ASSUME TypeInv, Account, Account', Authorize
    PROVE  TypeInv'
<1> USE DEF client, outside
<1>0. batch # <<>> BY DEF Authorize, Account, Prepared
<1>1. /\ pc = "authorize" /\ batch # <<>> /\ batch \in Seq(Proposals)
      /\ Len(evidence) < TotalCalls /\ turn < TurnCount
      /\ callIds' = callIds \cup {Head(batch).call}
      /\ UNCHANGED <<turn, batch, evidence, sent>> /\ UNCHANGED client
      /\ UNCHANGED outside
  BY <1>0 DEF Authorize, TypeInv, AgentTypeOK, Budget
<1>2. callIds' \subseteq CallIds /\ actions' \subseteq Actions
  <2>1. Head(batch) \in Proposals BY <1>1
  <2> QED BY <1>1, <2>1 DEF Proposals, TypeInv, AgentTypeOK, Account, Shapes
<1>3. CASE /\ pc' = "close" /\ method' = method
           /\ ret' = "outcome" /\ mode' = mode /\ outcome' \in Outcomes
  BY <1>1, <1>2, <1>3, TypeClosing DEF TypeInv, AgentTypeOK, Budget, Closing
<1>4. CASE method' = "tools/call" /\ pc' = "execute" /\ UNCHANGED <<ret, mode, outcome>>
  BY <1>1, <1>2, <1>4, TypeGoing DEF TypeInv, AgentTypeOK, Budget, Points
<1> QED BY <1>3, <1>4, OuterCloses DEF Authorize

\* A request is written: there is room for one more call.
LEMMA TypeIssue ==
    ASSUME SessionAssumption, TypeInv, Account, pc = "write", sent' = Issued
    PROVE  Len(sent') <= TotalCalls
<1>1. CASE method # "tools/call" BY <1>1 DEF Issued, TypeInv, AgentTypeOK
<1>2. CASE method = "tools/call"
  <2>1. Calling /\ ~Waiting /\ Busy BY <1>2 DEF Calling, Waiting, Busy, Closing
  <2>2. /\ Len(sent) = Len(evidence) /\ Len(evidence) < TotalCalls /\ TotalCalls \in Nat
        /\ sent \in Seq([act : Actions, id : Nat]) /\ Len(sent) \in Nat
    BY <2>1 DEF Account, Balance, Shapes, TypeInv, Budget, SessionAssumption
  <2>3. Len(sent') = Len(sent) + 1 BY <1>2, <2>2 DEF Issued
  <2> QED BY <2>2, <2>3
<1> QED BY <1>1, <1>2

LEMMA TypeOthers ==
    ASSUME SessionAssumption, TypeInv, nextId \in Nat \ {0},
           ChildStep \/ Tick \/ Cancel \/ Returned \/ UNCHANGED vars
    PROVE  TypeInv'
<1> USE DEF control, work, client, outside
<1>1. CASE \E r \in Lines : ChildWrites(r)
  <2>1. PICK r \in Lines : ChildWrites(r) BY <1>1
  <2>2. r \in Writes BY DEF Lines, Writes, Half
  <2>3. pipe' \in Seq(Writes) /\ Len(pipe') <= MaxPipe
    BY <2>1, <2>2 DEF ChildWrites, TypeInv, Budget, SessionAssumption
  <2> QED BY <2>1, <2>3 DEF ChildWrites, TypeInv, AgentTypeOK, Budget, Calling
<1>2. CASE \/ ChildStalls \/ ChildResumes \/ ChildStopsReading \/ ChildExits
           \/ Tick \/ Cancel \/ Returned \/ UNCHANGED vars
  <2>1. /\ UNCHANGED control /\ UNCHANGED work /\ UNCHANGED client
        /\ child' \in {"off", "running", "exited"} /\ stdin' \in {"open", "stuck", "broken"}
        /\ expired' \in BOOLEAN /\ cancelled' \in BOOLEAN
    BY <1>2 DEF ChildStalls, ChildResumes, ChildStopsReading, ChildExits, Tick, Cancel, Returned, vars,
                TypeInv, AgentTypeOK
  <2> QED BY <2>1 DEF TypeInv, AgentTypeOK, Budget, Calling
<1> QED BY <1>1, <1>2 DEF ChildStep

LEMMA TypeStep ==
    ASSUME SessionAssumption, TypeInv, Account, Account', [Next]_vars
    PROVE  TypeInv'
<1> USE DEF work, client, control, outside
<1>0. /\ nextId \in Nat \ {0} /\ nextId' \in Nat
      /\ (pc \in {"idle", "start", "started", "notify", "notifying"} => method = "initialize")
  BY DEF Account, Shapes, HandshakeFirst
<1>1. CASE Run \/ Popen
  BY <1>0, <1>1, TypeGoing
  DEF Run, Popen, TypeInv, AgentTypeOK, Budget, Points, Calling
<1>2. CASE TurnDone
  BY <1>2, TypeGoing
  DEF TurnDone, TypeInv, AgentTypeOK, Budget, Points, Calling, SessionAssumption
<1>3. CASE StartFails \/ SendTooLate \/ SendTooLarge \/ WaitCancelled \/ WaitExited \/ WaitTimeout
  BY <1>0, <1>3, RaiseCloses, TypeClosing
  DEF StartFails, SendTooLate, SendTooLarge, WaitCancelled, WaitExited, WaitTimeout,
      TypeInv, AgentTypeOK, Budget, Closing
<1>4. CASE Started
  <2>1. CASE expired
    BY <1>4, <2>1, TypeClosing DEF Started, TypeInv, AgentTypeOK, Budget, Closing
  <2>2. CASE ~expired
    BY <1>0, <1>4, <2>2, TypeGoing
    DEF Started, TypeInv, AgentTypeOK, Budget, Points, Calling
  <2> QED BY <2>1, <2>2
<1>5. CASE WriteBroken
  <2>1. Len(sent') <= TotalCalls BY <1>5, TypeIssue DEF WriteBroken
  <2> QED
    BY <1>0, <1>5, <2>1, RaiseCloses, TypeClosing
    DEF WriteBroken, TypeInv, AgentTypeOK, Budget, Closing
<1>6. CASE Send \/ Write \/ WaitGoesOn
  <2>1. Len(sent') <= TotalCalls
    BY <1>6, TypeIssue DEF Send, Write, WaitGoesOn, TypeInv, AgentTypeOK
  <2> QED
    BY <1>0, <1>6, <2>1, TypeGoing
    DEF Send, Write, WaitGoesOn, TypeInv, AgentTypeOK, Budget, Points, Calling
<1>7. CASE \E k \in 0..Len(pipe) : Drain(k) BY <1>7, TypeDrain
<1>8. CASE Notify \/ NotifyWrite
  <2>1. CASE /\ pc' = "close" /\ method' = method /\ dirty' \in BOOLEAN
             /\ ret' = "outcome" /\ mode' = mode /\ outcome' \in Outcomes
    BY <1>8, <2>1, TypeClosing DEF Notify, NotifyWrite, TypeInv, AgentTypeOK, Budget, Closing
  <2>2. CASE /\ pc' \in {"send", "notifying"} /\ method' \in {"tools/list", "initialize"}
             /\ UNCHANGED <<ret, mode, outcome, transcript, dirty>>
    BY <1>8, <2>2, TypeGoing
    DEF Notify, NotifyWrite, TypeInv, AgentTypeOK, Budget, Points, Calling
  <2>3. dirty \in BOOLEAN BY DEF TypeInv, AgentTypeOK
  <2> QED BY <1>0, <1>8, <2>1, <2>2, <2>3, OuterCloses DEF Notify, NotifyWrite
<1>9. CASE Turn
  <2>1. CASE /\ pc' = "close" /\ method' = method
             /\ ret' = "outcome" /\ mode' = mode /\ outcome' \in Outcomes
    BY <1>9, <2>1, TypeClosing DEF Turn, TypeInv, AgentTypeOK, Budget, Closing
  <2>2. CASE /\ turn < TurnCount /\ pc' = "provider"
             /\ UNCHANGED <<method, ret, mode, outcome>>
    BY <1>9, <2>2, TypeGoing DEF Turn, TypeInv, AgentTypeOK, Budget, Points, Calling
  <2> QED BY <1>9, <2>1, <2>2, OuterCloses DEF Turn, Return, Outcomes
<1>10. CASE \E class \in ProviderFailures : ProviderFails(class)
  BY <1>10, OuterCloses, TypeClosing
  DEF ProviderFails, TypeInv, AgentTypeOK, Budget, Closing
<1>11. CASE \E final \in BOOLEAN : ProviderEnds(final)
  BY <1>11, TypeClosing
  DEF ProviderEnds, Return, TypeInv, AgentTypeOK, Budget, Closing, Outcomes
<1>12. CASE \E s \in Offers : ProviderProposes(s) BY <1>12, TypeProposes
<1>13. CASE CallCancelled \/ CallGoesOn \/ CallBudget \/ AuthorizeRefuses \/ Execute
  <2>1. CASE /\ pc' = "close" /\ method' = method
             /\ ret' = "outcome" /\ mode' = mode /\ outcome' \in Outcomes
    BY <1>13, <2>1, TypeClosing
    DEF CallCancelled, CallGoesOn, CallBudget, AuthorizeRefuses, Execute,
        TypeInv, AgentTypeOK, Budget, Closing
  <2>2. CASE CallGoesOn
    BY <2>2, TypeGoing DEF CallGoesOn, TypeInv, AgentTypeOK, Budget, Points, Calling
  <2>3. CASE CallBudget /\ pc' = "authorize" /\ UNCHANGED <<method, ret, mode, outcome>>
    <3>1. Len(evidence) < TotalCalls
      <4>1. Len(evidence) \in Nat /\ TotalCalls \in Nat
        BY DEF Account, Shapes, SessionAssumption
      <4> QED BY <2>3, <4>1, ReturnCheckedCloses DEF CallBudget, Outcomes
    <3> QED
      BY <2>3, <3>1, TypeGoing DEF CallBudget, TypeInv, AgentTypeOK, Budget, Points, Calling
  <2>4. CASE Execute /\ pc' = "send" /\ UNCHANGED <<method, ret, mode, outcome>>
    BY <2>4, TypeGoing DEF Execute, TypeInv, AgentTypeOK, Budget, Points, Calling
  <2> QED
    BY <1>13, <2>1, <2>2, <2>3, <2>4, ReturnCheckedCloses, OuterCloses
    DEF CallCancelled, CallBudget, AuthorizeRefuses, Execute, Inner, Outcomes
<1>14. CASE Authorize BY <1>14, TypeAuthorize
<1>15. CASE CloseBegin \/ CloseTerminate \/ CloseKill
  BY <1>15, TypeClosing
  DEF CloseBegin, CloseTerminate, CloseKill, TypeInv, AgentTypeOK, Budget, Closing
<1>16. CASE Closed
  <2>1. /\ pc' \in Closing /\ method' = method
        /\ ret' \in {"startup", "outcome"} /\ mode' = mode /\ outcome' \in Outcomes
    BY <1>16, OuterCloses DEF Closed, Closing, TypeInv, AgentTypeOK
  <2>2. pipe' \in Seq(Writes) /\ Len(pipe') <= MaxPipe /\ process' \in BOOLEAN
    <3>1. pipe' = <<>> BY <1>16 DEF Closed
    <3>2. pipe' \in Seq(Writes) /\ Len(pipe') = 0 BY <3>1
    <3>3. MaxPipe \in Nat BY DEF SessionAssumption
    <3>4. Len(pipe') <= MaxPipe BY <3>2, <3>3
    <3>5. process' \in BOOLEAN BY <1>16 DEF Closed
    <3> QED BY <3>2, <3>4, <3>5
  <2> QED BY <1>16, <2>1, <2>2, TypeClosing DEF Closed, TypeInv, AgentTypeOK
<1>17. CASE ChildStep \/ Tick \/ Cancel \/ Returned \/ UNCHANGED vars
  BY <1>0, <1>17, TypeOthers
<1> QED
  BY <1>1, <1>2, <1>3, <1>4, <1>5, <1>6, <1>7, <1>8, <1>9, <1>10, <1>11, <1>12,
     <1>13, <1>14, <1>15, <1>16, <1>17
  DEF Next, RunStep

-----------------------------------------------------------------------------
\* The inductive invariant holds in every reachable state, for every offer of
\* the provider, every limit and every behaviour of the child.
THEOREM SessionInvariance == Spec => []SessionInv
<1>1. Init => SessionInv
  BY Start, TypeStart, SessionAssumption DEF SessionInv, TypeInv
<1>2. SessionInv /\ [Next]_vars => SessionInv'
  <2> SUFFICES ASSUME SessionInv, [Next]_vars PROVE SessionInv' OBVIOUS
  <2>1. Account' BY Step, SessionAssumption DEF SessionInv
  <2>2. TypeInv' BY <2>1, TypeStep, SessionAssumption DEF SessionInv, TypeInv
  <2> QED BY <2>1, <2>2 DEF SessionInv, TypeInv
<1> QED BY <1>1, <1>2, PTL DEF Spec

\* A run keeps its types, and its budgets of turns, calls and proposals.
THEOREM BudgetsKept == Spec => []AgentTypeOK
<1>1. SessionInv => AgentTypeOK BY DEF SessionInv
<1> QED BY <1>1, SessionInvariance, PTL

\* No action is written to the child twice.
THEOREM AtMostOnceAlways == Spec => []AtMostOnce
<1>1. SessionInv => AtMostOnce BY DEF SessionInv, Account
<1> QED BY <1>1, SessionInvariance, PTL

\* Evidence answers the very request that carried its action.
THEOREM EvidenceAlwaysMatches == Spec => []EvidenceMatches
<1>1. SessionInv => EvidenceMatches
  BY DEF SessionInv, Account, Balance, Answers, EvidenceMatches
<1> QED BY <1>1, SessionInvariance, PTL

-----------------------------------------------------------------------------
(* The stops.                                                              *)

LEMMA LeaveFrame ==
    ASSUME Leave, UNCHANGED <<allowed, expired, cancelled, actions, evidence>>,
           pc' \notin {"budget", "authorize", "drain"}
    PROVE  Leave'
BY DEF Leave, StopIsFinal, Waiting

\* A stop narrows what is allowed to what has begun.
LEMMA LeaveStop ==
    ASSUME SessionInv, Leave, Tick \/ Cancel
    PROVE  Leave'
<1> USE DEF control, work
<1>0. /\ UNCHANGED <<pc, method, batch, actions, sent, evidence>>
      /\ Len(sent) \in Nat /\ Len(evidence) \in Nat /\ Len(evidence) <= Len(sent)
      /\ expired' \/ cancelled'
  BY DEF Tick, Cancel, SessionInv, Account, Balance, Shapes
<1>1. CASE expired \/ cancelled
  BY <1>0, <1>1 DEF Tick, Cancel, Stopping, Leave, StopIsFinal, Waiting
<1>2. CASE ~expired /\ ~cancelled
  <2>1. /\ allowed'.proved = Len(sent) /\ actions \subseteq allowed'.begun
        /\ pc = "authorize" => Head(batch).act \in allowed'.begun
        /\ pc = "budget" => expired' \/ Head(batch).act \in allowed'.begun
    BY <1>2 DEF Tick, Cancel, Stopping
  <2>2. pc \in {"budget", "authorize"} => Head(batch) = batch[1]
    BY DEF SessionInv, Account, Prepared, Shapes
  <2> QED BY <1>0, <2>1, <2>2 DEF Leave, StopIsFinal, Waiting
<1> QED BY <1>1, <1>2

\* An answer is read only by a wait that was allowed.
LEMMA LeaveDrain ==
    ASSUME SessionAssumption, SessionInv, SessionInv', Leave, NEW k, Drain(k)
    PROVE  Leave'
<1> DEFINE read == SubSeq(pipe, 1, k)
           lines == SelectSeq(read, LAMBDA x : x # Half)
           r == lines[1]
           verdict == IF \E i \in DOMAIN lines : lines[i].body = "huge"
                      THEN "oversized_response" ELSE Verdict(r)
<1>0. pc = "drain" /\ UNCHANGED <<allowed, expired, cancelled>> BY DEF Drain, outside
<1>1. CASE pc' = "wait" /\ UNCHANGED work
  BY <1>0, <1>1, LeaveFrame DEF work
<1>2. CASE Raise(verdict) /\ UNCHANGED work
  BY <1>0, <1>2, RaiseCloses, LeaveFrame DEF work
<1>3. CASE Accept(r) /\ UNCHANGED method
  <2> HIDE DEF r
  <2>1. CASE method # "tools/call"
    <3>1. pc' \in {"notify", "send", "turn"} /\ UNCHANGED work BY <1>3, <2>1 DEF Accept
    <3> QED BY <1>0, <3>1, LeaveFrame DEF work
  <2>2. CASE method = "tools/call"
    <3>1. pc' = "exec" /\ UNCHANGED <<actions, sent>> BY <1>3, <2>2 DEF Accept
    <3>2. Len(sent) <= allowed.proved BY <1>0, <2>2 DEF Leave, Waiting
    <3>3. /\ Len(evidence') <= Len(sent) /\ Len(evidence') \in Nat /\ Len(sent) \in Nat
      BY <3>1 DEF SessionInv, Account, Balance, Shapes
    <3>4. allowed.proved \in Nat BY DEF Leave
    <3> QED BY <1>0, <3>1, <3>2, <3>3, <3>4 DEF Leave, StopIsFinal, Waiting
  <2> QED BY <2>1, <2>2
<1> QED BY <1>1, <1>2, <1>3 DEF Drain

LEMMA LeaveStep ==
    ASSUME SessionAssumption, SessionInv, SessionInv', Leave, [Next]_vars
    PROVE  Leave'
<1> USE DEF work, client, control, outside
<1>1. CASE Run \/ Popen \/ StartFails \/ Started \/ SendTooLate \/ SendTooLarge \/ Send
  BY <1>1, LeaveFrame, RaiseCloses
  DEF Run, Popen, StartFails, Started, SendTooLate, SendTooLarge, Send
<1>2. CASE WriteBroken \/ Write \/ WaitCancelled \/ WaitExited \/ WaitTimeout
  BY <1>2, LeaveFrame, RaiseCloses
  DEF WriteBroken, Write, WaitCancelled, WaitExited, WaitTimeout
<1>3. CASE WaitGoesOn
  <2>1. Len(sent) <= TotalCalls BY DEF SessionInv, AgentTypeOK
  <2> QED BY <1>3, <2>1 DEF WaitGoesOn, Leave, StopIsFinal, Waiting
<1>4. CASE \E k \in 0..Len(pipe) : Drain(k) BY <1>4, LeaveDrain
<1>5. CASE Notify \/ NotifyWrite \/ Turn \/ TurnDone
  BY <1>5, LeaveFrame, OuterCloses DEF Notify, NotifyWrite, Turn, Return, TurnDone
<1>6. CASE \/ \E class \in ProviderFailures : ProviderFails(class)
           \/ \E final \in BOOLEAN : ProviderEnds(final)
           \/ \E s \in Offers : ProviderProposes(s)
  BY <1>6, LeaveFrame, OuterCloses, ReturnCheckedCloses
  DEF ProviderFails, ProviderEnds, ProviderProposes, Return, Outcomes
<1>7. CASE CallCancelled \/ AuthorizeRefuses \/ Execute
  BY <1>7, LeaveFrame, OuterCloses, ReturnCheckedCloses
  DEF CallCancelled, AuthorizeRefuses, Execute, Inner, Outcomes
<1>8. CASE CallGoesOn
  <2>1. batch[1].act \in Actions
    <3>1. pc = "exec" /\ batch # <<>> BY <1>8 DEF CallGoesOn
    <3>2. batch \in Seq(Proposals) /\ NewFrom(1)
      BY <3>1 DEF SessionInv, Account, Shapes, Prepared
    <3>3. 1 \in 1..Len(batch) BY <3>1, <3>2
    <3> QED BY <3>2, <3>3 DEF NewFrom
  <2> QED BY <1>8, <2>1 DEF CallGoesOn, Leave, StopIsFinal, Waiting
<1>9. CASE CallBudget
  <2>1. CASE pc' = "close" BY <1>9, <2>1, LeaveFrame DEF CallBudget
  <2>2. CASE ~expired /\ pc' = "authorize"
    BY <1>9, <2>2 DEF CallBudget, Leave, StopIsFinal, Waiting
  <2> QED BY <1>9, <2>1, <2>2, ReturnCheckedCloses DEF CallBudget, Outcomes
<1>10. CASE Authorize
  <2>1. Head(batch) = batch[1]
    BY <1>10 DEF Authorize, SessionInv, Account, Shapes, Prepared
  <2>2. pc' \in {"close", "execute"} BY <1>10, OuterCloses DEF Authorize
  <2>3. /\ pc = "authorize" /\ actions' = actions \cup {batch[1].act}
        /\ UNCHANGED <<allowed, expired, cancelled, evidence>>
    BY <1>10, <2>1 DEF Authorize
  <2> QED BY <2>2, <2>3 DEF Leave, StopIsFinal, Waiting
<1>11. CASE CloseBegin \/ CloseTerminate \/ CloseKill \/ Closed
  BY <1>11, LeaveFrame, OuterCloses DEF CloseBegin, CloseTerminate, CloseKill, Closed
<1>12. CASE Tick \/ Cancel BY <1>12, LeaveStop
<1>13. CASE ChildStep \/ Returned \/ UNCHANGED vars
  BY <1>13 DEF ChildStep, ChildWrites, ChildStalls, ChildResumes, ChildStopsReading,
               ChildExits, Returned, vars, Leave, StopIsFinal, Waiting
<1> QED
  BY <1>1, <1>2, <1>3, <1>4, <1>5, <1>6, <1>7, <1>8, <1>9, <1>10, <1>11, <1>12, <1>13
  DEF Next, RunStep

\* The first stop is final: after the deadline or a cancellation no call is
\* begun, and no call written after it brings evidence.
THEOREM StopAlwaysFinal == Spec => []StopIsFinal
<1>1. Init => Leave
  <2>1. TotalCalls \in Nat BY SessionAssumption DEF SessionAssumption
  <2> QED BY <2>1 DEF Init, Leave, StopIsFinal, Waiting
<1>2. SessionInv /\ SessionInv' /\ Leave /\ [Next]_vars => Leave'
  BY LeaveStep, SessionAssumption
<1>3. Leave => StopIsFinal BY DEF Leave
<1> QED BY <1>1, <1>2, <1>3, SessionInvariance, PTL DEF Spec

-----------------------------------------------------------------------------
(* The refinement of ActionLedger.                                         *)

At == [a \in Actions |-> Standing(a)]

\* The account is as it was while no call is at hand, or the same one.
LEMMA StandingSame ==
    ASSUME UNCHANGED <<actions, sent, evidence>>, Calling' <=> Calling,
           Calling => UNCHANGED batch
    PROVE  At' = At
<1>1. ASSUME NEW a \in Actions PROVE Standing(a)' = Standing(a)
  BY DEF Standing, Calling
<1> QED BY <1>1 DEF At

LEMMA MoveOne ==
    ASSUME NEW h \in Actions, NEW from, NEW x, Standing(h) \in from, Standing(h)' = x,
           \A a \in Actions \ {h} : Standing(a)' = Standing(a)
    PROVE  Ledger!Move(h, from, x)
BY DEF Ledger!Move

\* The action of the call at hand: authorized, and without evidence.
LEMMA AtHand ==
    ASSUME Account, Calling
    PROVE  /\ Head(batch) = batch[1] /\ batch[1].act \in Actions
           /\ batch[1].act \in actions
           /\ \A i \in DOMAIN evidence : evidence[i].act # batch[1].act
           /\ Standing(batch[1].act) = IF Waiting THEN "sent" ELSE "authorized"
<1> USE DEF Account
<1>1. /\ Head(batch) = batch[1] /\ batch[1].act \in Actions /\ batch[1].act \in actions
  BY DEF Shapes, Prepared
<1>2. Busy BY DEF Calling, Busy, Closing
<1>3. /\ sent \in Seq([act : Actions, id : Nat]) /\ Len(sent) \in Nat
      /\ Len(evidence) \in Nat /\ DOMAIN evidence = 1..Len(evidence)
      /\ DOMAIN sent = 1..Len(sent)
  BY DEF Shapes
<1>4. CASE Waiting
  <2>1. /\ sent[Len(sent)].act = batch[1].act /\ Len(sent) = Len(evidence) + 1
    BY <1>2, <1>4 DEF Sendings, Balance
  <2>2. \A i \in DOMAIN evidence : evidence[i].act # batch[1].act
    BY <1>3, <2>1 DEF Answers, AtMostOnce
  <2>3. \E i \in DOMAIN sent : sent[i].act = batch[1].act BY <1>3, <2>1
  <2> QED BY <1>1, <1>4, <2>2, <2>3 DEF Standing, Calling
<1>5. CASE ~Waiting
  <2>1. \A i \in DOMAIN sent : sent[i].act # batch[1].act
    BY <1>5 DEF Sendings, Calling, Waiting
  <2>2. \A i \in DOMAIN evidence : evidence[i].act # batch[1].act
    BY <2>1 DEF Answers
  <2> QED BY <1>1, <1>5, <2>1, <2>2 DEF Standing, Calling
<1> QED BY <1>4, <1>5

\* The call at hand is given up: its action is lost.
LEMMA AbandonedStep ==
    ASSUME Account, Calling, ~Calling', UNCHANGED <<actions, evidence>>
    PROVE  Ledger!LedgerNext
<1>1. PICK h \in Actions : h = batch[1].act BY AtHand
<1>2. /\ h \in actions /\ Standing(h) \in {"authorized", "sent"}
      /\ Head(batch).act = h /\ \A i \in DOMAIN evidence : evidence[i].act # h
  BY <1>1, AtHand
<1>3. Standing(h)' = "lost" BY <1>2 DEF Standing, Calling
<1>4. \A a \in Actions \ {h} : Standing(a)' = Standing(a)
  BY <1>2 DEF Standing, Calling
<1>5. Ledger!Abandoned(h) BY <1>2, <1>3, <1>4, MoveOne DEF Ledger!Abandoned
<1> QED BY <1>5 DEF Ledger!LedgerNext

\* The call at hand is written.
LEMMA SentStep ==
    ASSUME Account, Account', pc = "write", pc' = "wait", method = "tools/call",
           sent' = Issued, UNCHANGED <<method, batch, actions, evidence>>
    PROVE  Ledger!LedgerNext
<1>1. Calling /\ ~Waiting /\ Calling' /\ Waiting' BY DEF Calling, Waiting
<1>2. PICK h \in Actions : h = batch[1].act BY <1>1, AtHand
<1>3. /\ Standing(h) = "authorized" /\ Head(batch).act = h
      /\ \A i \in DOMAIN evidence : evidence[i].act # h
  BY <1>1, <1>2, AtHand
<1>4. /\ sent' = Append(sent, [act |-> h, id |-> nextId - 1])
      /\ sent \in Seq([act : Actions, id : Nat]) /\ nextId - 1 \in Nat
  BY <1>3 DEF Issued, Account, Shapes
<1>5. \E i \in DOMAIN sent' : sent'[i].act = h
  <2>1. Len(sent) + 1 \in DOMAIN sent' /\ sent'[Len(sent) + 1] = [act |-> h, id |-> nextId - 1]
    BY <1>4
  <2> QED BY <2>1
<1>6. Standing(h)' = "sent" BY <1>1, <1>3, <1>5 DEF Standing, Calling
<1>7. \A a \in Actions \ {h} : Standing(a)' = Standing(a)
  BY <1>1, <1>3 DEF Standing, Calling
<1>8. Ledger!Sent(h) BY <1>3, <1>6, <1>7, MoveOne DEF Ledger!Sent
<1> QED BY <1>8 DEF Ledger!LedgerNext

\* The call at hand is answered.
LEMMA LedgerProved ==
    ASSUME Account, Waiting, pc' = "exec", NEW r,
           evidence' = Append(evidence, [act |-> Head(batch).act, id |-> nextId - 1,
                                         from |-> r]),
           UNCHANGED <<actions, sent>>
    PROVE  Ledger!LedgerNext
<1>1. Calling /\ ~Calling' BY DEF Calling, Waiting
<1>2. PICK h \in Actions : h = batch[1].act BY <1>1, AtHand
<1>3. Standing(h) = "sent" /\ Head(batch).act = h BY <1>1, <1>2, AtHand
<1> DEFINE new == [act |-> h, id |-> nextId - 1, from |-> r]
<1>4. evidence' = Append(evidence, new) /\ Len(evidence) \in Nat
      /\ evidence \in Seq([act : Actions, id : Nat, from : Nat])
  BY <1>3 DEF Account, Shapes
<1>5. /\ DOMAIN evidence = 1..Len(evidence) /\ DOMAIN evidence' = 1..(Len(evidence) + 1)
      /\ evidence'[Len(evidence) + 1] = new
      /\ \A i \in 1..Len(evidence) : evidence'[i] = evidence[i]
  BY <1>4
<1>6. new.act = h OBVIOUS
<1> HIDE DEF new
<1>7. \A a : (\E i \in DOMAIN evidence' : evidence'[i].act = a)
                <=> a = h \/ \E i \in DOMAIN evidence : evidence[i].act = a
  BY <1>4, <1>5, <1>6
<1>8. Standing(h)' = "proved" BY <1>7 DEF Standing
<1>9. \A a \in Actions \ {h} : Standing(a)' = Standing(a)
  BY <1>1, <1>3, <1>7 DEF Standing, Calling
<1>10. Ledger!Proved(h) BY <1>3, <1>8, <1>9, MoveOne DEF Ledger!Proved
<1> QED BY <1>10 DEF Ledger!LedgerNext

\* An action is authorized while none is in flight and none was lost.
LEMMA AuthorizedStep ==
    ASSUME Account, Authorize
    PROVE  Ledger!LedgerNext
<1> USE DEF Account
<1>1. /\ pc = "authorize" /\ batch # <<>> /\ batch \in Seq(Proposals)
      /\ UNCHANGED <<batch, evidence, sent>>
  BY DEF Authorize, Prepared, Shapes
<1>2. ~Calling /\ Busy BY <1>1 DEF Calling, Busy, Closing
<1>3. batch[1].act \in Actions \ actions BY <1>1 DEF Prepared, NewFrom
<1>4. PICK h \in Actions : h = batch[1].act BY <1>3
<1>5. Head(batch).act = h /\ h \notin actions /\ actions' = actions \cup {h}
  BY <1>1, <1>3, <1>4 DEF Authorize
<1>6. /\ \A i \in DOMAIN sent : sent[i].act # h
      /\ \A i \in DOMAIN evidence : evidence[i].act # h
  BY <1>3, <1>4 DEF Sendings, Answers
<1>7. Standing(h) = "new" BY <1>2, <1>5, <1>6 DEF Standing, Calling
<1>8. \A a \in Actions : Standing(a) \in {"new", "proved"}
  BY <1>2 DEF Standing, Calling, NothingLost
<1>9. Ledger!InFlight = {} /\ Ledger!Lost = {} BY <1>8 DEF Ledger!InFlight, Ledger!Lost
<1>10. CASE pc' = "close"
  <2>1. Standing(h)' = "lost" BY <1>1, <1>5, <1>6, <1>10 DEF Standing, Calling
  <2>2. \A a \in Actions \ {h} : Standing(a)' = Standing(a)
    BY <1>1, <1>2, <1>5, <1>10 DEF Standing, Calling
  <2>3. Ledger!Unrecorded(h)
    BY <1>7, <1>9, <2>1, <2>2, MoveOne DEF Ledger!Unrecorded
  <2> QED BY <2>3 DEF Ledger!LedgerNext
<1>11. CASE pc' = "execute" /\ method' = "tools/call"
  <2>1. Standing(h)' = "authorized" BY <1>1, <1>5, <1>6, <1>11 DEF Standing, Calling
  <2>2. \A a \in Actions \ {h} : Standing(a)' = Standing(a)
    BY <1>1, <1>2, <1>5, <1>11 DEF Standing, Calling
  <2>3. Ledger!Authorized(h)
    BY <1>7, <1>9, <2>1, <2>2, MoveOne DEF Ledger!Authorized
  <2> QED BY <2>3 DEF Ledger!LedgerNext
<1> QED BY <1>10, <1>11, OuterCloses DEF Authorize

\* A step that gives up what is at hand, if anything is.
LEMMA GiveUp ==
    ASSUME Account, pc' \in Closing, UNCHANGED <<actions, evidence>>,
           ~Calling => UNCHANGED sent
    PROVE  Ledger!LedgerNext \/ At' = At
<1>1. ~Calling' BY DEF Calling, Closing
<1>2. CASE Calling BY <1>1, <1>2, AbandonedStep
<1>3. CASE ~Calling BY <1>1, <1>3, StandingSame
<1> QED BY <1>2, <1>3

LEMMA LedgerDrain ==
    ASSUME Account, NEW k, Drain(k)
    PROVE  Ledger!LedgerNext \/ At' = At
<1> DEFINE read == SubSeq(pipe, 1, k)
           lines == SelectSeq(read, LAMBDA x : x # Half)
           r == lines[1]
           verdict == IF \E i \in DOMAIN lines : lines[i].body = "huge"
                      THEN "oversized_response" ELSE Verdict(r)
<1>0. pc = "drain" BY DEF Drain
<1>1. CASE pc' = "wait" /\ UNCHANGED method /\ UNCHANGED work
  BY <1>0, <1>1, StandingSame DEF work, Calling
<1>2. CASE Raise(verdict) /\ UNCHANGED work
  BY <1>2, RaiseCloses, GiveUp DEF work, Closing
<1>3. CASE Accept(r) /\ UNCHANGED method
  <2> HIDE DEF r
  <2>1. CASE method = "tools/call"
    <3>1. /\ evidence' = Append(evidence, [act |-> Head(batch).act, id |-> nextId - 1,
                                           from |-> r.id])
          /\ pc' = "exec" /\ UNCHANGED <<actions, sent>>
      BY <1>3, <2>1 DEF Accept
    <3> QED BY <1>0, <2>1, <3>1, LedgerProved DEF Waiting
  <2>2. CASE method # "tools/call"
    <3>1. UNCHANGED work BY <1>3, <2>2 DEF Accept
    <3> QED BY <1>3, <2>2, <3>1, StandingSame DEF work, Calling
  <2> QED BY <2>1, <2>2
<1> QED BY <1>1, <1>2, <1>3 DEF Drain

LEMMA LedgerStep ==
    ASSUME Account, Account', [Next]_vars
    PROVE  Ledger!LedgerNext \/ At' = At
<1> USE DEF work, client, control, outside
<1>0. pc \in {"idle", "start", "started", "notify", "notifying"} => method = "initialize"
  BY DEF Account, HandshakeFirst
<1>1. CASE Run \/ Popen \/ TurnDone \/ CloseBegin \/ CloseTerminate \/ CloseKill
  BY <1>1, StandingSame
  DEF Run, Popen, TurnDone, CloseBegin, CloseTerminate, CloseKill, Calling
<1>2. CASE StartFails \/ SendTooLate \/ SendTooLarge \/ WaitCancelled \/ WaitExited \/ WaitTimeout
  BY <1>2, RaiseCloses, GiveUp
  DEF StartFails, SendTooLate, SendTooLarge, WaitCancelled, WaitExited, WaitTimeout, Closing
<1>3. CASE Started BY <1>0, <1>3, StandingSame DEF Started, Calling
<1>4. CASE WriteBroken
  BY <1>4, RaiseCloses, GiveUp DEF WriteBroken, Issued, Calling, Closing
<1>5. CASE Write
  <2>1. CASE method = "tools/call" BY <1>5, <2>1, SentStep DEF Write
  <2>2. CASE method # "tools/call" BY <1>5, <2>2, StandingSame DEF Write, Issued, Calling
  <2> QED BY <2>1, <2>2
<1>6. CASE \E k \in 0..Len(pipe) : Drain(k) BY <1>6, LedgerDrain
<1>7. CASE Notify \/ NotifyWrite
  BY <1>0, <1>7, OuterCloses, StandingSame DEF Notify, NotifyWrite, Calling
<1>15. CASE Send \/ WaitGoesOn \/ CallGoesOn
  BY <1>15, StandingSame DEF Send, WaitGoesOn, CallGoesOn, Calling
<1>8. CASE Turn BY <1>8, OuterCloses, StandingSame DEF Turn, Return, Calling
<1>9. CASE \/ \E class \in ProviderFailures : ProviderFails(class)
           \/ \E final \in BOOLEAN : ProviderEnds(final)
  BY <1>9, OuterCloses, GiveUp DEF ProviderFails, ProviderEnds, Return, Closing
<1>10. CASE \E s \in Offers : ProviderProposes(s)
  BY <1>10, ReturnCheckedCloses, StandingSame
  DEF ProviderProposes, Return, Calling, Outcomes
<1>11. CASE CallCancelled \/ CallBudget \/ AuthorizeRefuses \/ Execute
  <2>1. CASE pc' = "close"
    BY <1>11, <2>1, GiveUp
    DEF CallCancelled, CallBudget, AuthorizeRefuses, Execute, Closing
  <2>2. CASE \/ CallBudget /\ pc' = "authorize" /\ method' = method
             \/ Execute /\ pc' = "send" /\ method' = method
    BY <2>2, StandingSame DEF CallBudget, Execute, Calling
  <2> QED
    BY <1>11, <2>1, <2>2, ReturnCheckedCloses, OuterCloses
    DEF CallCancelled, CallBudget, AuthorizeRefuses, Execute, Inner, Outcomes
<1>12. CASE Authorize BY <1>12, AuthorizedStep
<1>13. CASE Closed BY <1>13, OuterCloses, StandingSame DEF Closed, Calling
<1>14. CASE ChildStep \/ Tick \/ Cancel \/ Returned \/ UNCHANGED vars
  BY <1>14, StandingSame
  DEF ChildStep, ChildWrites, ChildStalls, ChildResumes, ChildStopsReading, ChildExits,
      Tick, Cancel, Returned, vars, Calling
<1> QED
  BY <1>1, <1>2, <1>3, <1>4, <1>5, <1>6, <1>7, <1>8, <1>9, <1>10, <1>11, <1>12,
     <1>13, <1>14, <1>15
  DEF Next, RunStep

\* A run implements the ledger of actions, for every offer, limit and child.
THEOREM RunKeepsLedger == Spec => ImplementsActionLedger
<1>1. Init => Ledger!LedgerInit
  BY DEF Init, Ledger!LedgerInit, Standing
<1>2. SessionInv /\ SessionInv' /\ [Next]_vars => [Ledger!LedgerNext]_At
  BY LedgerStep DEF SessionInv
<1> QED
  BY <1>1, <1>2, SessionInvariance, PTL
  DEF Spec, ImplementsActionLedger, Ledger!LedgerSpec, At
=============================================================================
