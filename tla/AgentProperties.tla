--------------------------- MODULE AgentProperties ---------------------------
(***************************************************************************)
(* The properties of one agent run (AgentSession).                         *)
(***************************************************************************)
EXTENDS AgentSession

Outcomes == {"none", "final", "rejected", "duplicate", "cancelled", "deadline",
             "budget", "failed"}

Points == {"idle", "start", "started", "send", "write", "wait", "drain", "notify",
           "notifying", "turn", "provider", "exec", "budget", "authorize",
           "execute", "close", "terminating", "killing", "closed", "done"}

\* The state of run() and of the client keeps its types and its budgets: turns
\* (limits.provider_turn_count) and calls (limits.mcp_total_calls).
AgentTypeOK ==
    /\ pc \in Points /\ method \in {"initialize", "tools/list", "tools/call"}
    /\ ret \in {"startup", "outcome"}
    /\ mode \in {"none", "terminate", "kill", "unreaped"}
    /\ outcome \in Outcomes
    /\ turn \in 0..TurnCount
    /\ batch \in Seq(Proposals) /\ Len(batch) <= CallsPerTurn
    /\ actions \subseteq Actions /\ callIds \subseteq CallIds
    /\ Len(evidence) <= TotalCalls /\ Len(sent) <= TotalCalls
    /\ {process, dirty, out, expired, cancelled} \subseteq BOOLEAN
    /\ signal \in {"none", "term", "kill"}
    /\ Len(pipe) <= MaxPipe /\ cursors \subseteq Cursors /\ nextId \in Nat
    /\ child \in {"off", "running", "exited"} /\ stdin \in {"open", "stuck", "broken"}

\* No action reaches the child twice in a run, however the provider repeats it
\* within a turn or over turns, and whatever became of the first attempt.
AtMostOnce ==
    \A i, j \in DOMAIN sent : sent[i].act = sent[j].act => i = j

\* Evidence is an answer under the id of the very request that carried the
\* action: late, foreign and repeated answers never become evidence, and at
\* most the last request lacks its answer.
EvidenceMatches ==
    /\ Len(evidence) <= Len(sent) /\ Len(sent) <= Len(evidence) + 1
    /\ \A i \in DOMAIN evidence :
           /\ evidence[i].act = sent[i].act
           /\ evidence[i].id = sent[i].id /\ evidence[i].from = sent[i].id

\* A run that may have acted without evidence never claims success, a spent
\* budget or a clean stop: it ends "failed" or "cancelled", and the transcript
\* holds the failure unless it was cut at its limit.
AmbiguityIsReported ==
    (pc = "done" /\ Len(sent) # Len(evidence)) =>
        /\ outcome \in {"failed", "cancelled"}
        /\ transcript.limited \/ Records(transcript, "failure")

\* What run() returns is accepted by the project's own parser, wherever in the
\* run the event or byte limit was hit and whatever failed on the way.
TranscriptAccepted == pc = "done" => ParseBoundedTranscript(transcript)

\* A child that outlives a run in which a request was sent is in the
\* transcript as shutdown_unreaped, unless the transcript was cut before.  (When
\* the deadline passes inside start() the verdict of close() is dropped, and the
\* transcript says shutdown_complete.)
UnreapedAfterRequest ==
    (pc = "done" /\ child = "running" /\ nextId > 1) =>
        transcript.limited \/ Records(transcript, "shutdown_unreaped")

\* docs/MCP_ORCHESTRATION.md: "run() always closes stdin and performs bounded
\* terminate/kill/reap cleanup".
CleanupIsPerformed ==
    (pc = "done" /\ child = "running") => signal = "kill"

\* The first stop of a run, the deadline or a cancellation, is final although
\* run() looks at both only now and then: whatever passes between a look and its
\* use, no call is begun any more (one whose looks were over may still be
\* authorized), and no call written after the stop brings evidence.
StopIsFinal == actions \subseteq allowed.begun /\ Len(evidence) <= allowed.proved

\* run() waits for a write to the child's full stdin, which neither the deadline
\* nor a cancellation interrupts.
Blocked == stdin = "stuck"

\* run() returns, whatever the provider and the canceller do and whatever else
\* the child does, if no write to the child stays blocked: every other wait is
\* cut by its own timeout or by the deadline.
RunReturns == []<>~Blocked => <>(pc = "done")

\* A call is at hand, from its authorization on; it is waited for once written.
Calling ==
    method = "tools/call" /\ pc \in {"execute", "send", "write", "wait", "drain"}
Waiting == method = "tools/call" /\ pc \in {"wait", "drain"}

\* Which standing an action has in the ledger.
Standing(a) ==
    IF \E i \in DOMAIN evidence : evidence[i].act = a THEN "proved"
    ELSE IF Calling /\ Head(batch).act = a
    THEN IF \E i \in DOMAIN sent : sent[i].act = a THEN "sent"
         ELSE IF a \in actions THEN "authorized" ELSE "new"
    ELSE IF a \in actions THEN "lost" ELSE "new"

Ledger == INSTANCE ActionLedger WITH standing <- [a \in Actions |-> Standing(a)]

\* run() implements the ledger of actions.
ImplementsActionLedger == Ledger!LedgerSpec

-----------------------------------------------------------------------------
(* The inductive invariant behind AtMostOnce, EvidenceMatches and the      *)
(* refinement (AgentSessionProofs).                                        *)

\* close() was called, or run() has returned.
Closing == {"close", "terminating", "killing", "closed", "done"}
Busy == pc \notin Closing

\* What the child may have written.
Writes == [id : Int, body : {"ok", "bad", "garbage", "huge", "half"} \cup Cursors]

Shapes ==
    /\ pc \in Points /\ method \in {"initialize", "tools/list", "tools/call"}
    /\ batch \in Seq(Proposals) /\ nextId \in Nat \ {0}
    /\ actions \subseteq Actions
    /\ sent \in Seq([act : Actions, id : Nat])
    /\ evidence \in Seq([act : Actions, id : Nat, from : Nat])

\* The tools/call path is entered by Authorize alone.
HandshakeFirst ==
    /\ pc \in {"idle", "start", "started", "notify", "notifying"} => method = "initialize"
    /\ pc = "execute" => method = "tools/call"

\* What is prepared and not yet authorized is new, and each only once.
NewFrom(k) ==
    \A i \in k..Len(batch) :
        /\ batch[i].act \in Actions \ actions
        /\ \A j \in k..i - 1 : batch[j].act # batch[i].act

Prepared ==
    /\ pc \in {"exec", "budget", "authorize"} => NewFrom(1)
    /\ pc \in {"budget", "authorize"} => batch # <<>>
    /\ Calling => batch # <<>> /\ batch[1].act \in actions /\ NewFrom(2)

\* A call is unanswered only while it is waited for, or for good.
Balance ==
    /\ Len(evidence) <= Len(sent) /\ Len(sent) <= Len(evidence) + 1
    /\ Busy => Len(sent) = Len(evidence) + IF Waiting THEN 1 ELSE 0

\* What was sent was authorized; the call at hand is sent exactly when it is
\* waited for.
Sendings ==
    /\ \A i \in DOMAIN sent : sent[i].act \in actions
    /\ Calling /\ ~Waiting => \A i \in DOMAIN sent : sent[i].act # batch[1].act
    /\ Waiting => sent[Len(sent)] = [act |-> batch[1].act, id |-> nextId - 1]

Answers ==
    \A i \in DOMAIN evidence :
        /\ i \in DOMAIN sent /\ evidence[i].act = sent[i].act
        /\ evidence[i].id = sent[i].id /\ evidence[i].from = sent[i].id

\* Until the end of the run, what was authorized has its evidence or is the
\* call at hand.
NothingLost ==
    Busy => \A a \in actions :
                \/ \E i \in DOMAIN evidence : evidence[i].act = a
                \/ Calling /\ batch[1].act = a

\* Where an action stands can be told from the state of run().
Account ==
    /\ Shapes /\ HandshakeFirst /\ Prepared /\ Balance /\ Sendings /\ Answers
    /\ AtMostOnce /\ NothingLost

\* A turn or a call at hand has not used up its budget.
Budget ==
    /\ pipe \in Seq(Writes)
    /\ Calling \/ pc \in {"provider", "exec", "budget", "authorize"} => turn < TurnCount
    /\ Calling \/ pc = "authorize" => Len(evidence) < TotalCalls

\* The inductive invariant of a run: types and budgets, and an account of where
\* every proposed action stands.
SessionInv == AgentTypeOK /\ Budget /\ Account

\* Until the first stop everything is allowed; after it a call whose looks are
\* over was allowed then, and so was the answer that is being read.
Leave ==
    /\ allowed.proved \in Nat
    /\ ~expired /\ ~cancelled => allowed = [begun |-> Actions, proved |-> TotalCalls]
    /\ pc = "budget" => expired \/ batch[1].act \in allowed.begun
    /\ pc = "authorize" => batch[1].act \in allowed.begun
    /\ Waiting /\ pc = "drain" => Len(sent) <= allowed.proved
    /\ StopIsFinal

-----------------------------------------------------------------------------
(* The inductive invariant behind TranscriptAccepted, AmbiguityIsReported  *)
(* and UnreapedAfterRequest (AgentTranscriptProofs).                       *)

\* A transcript at any moment: the parser accepts it as it is, and unless it
\* was cut there is room for the event that says it was.
Sound(t) ==
    /\ t = [events |-> t.events, limited |-> t.limited, raised |-> t.raised,
            count |-> t.count, bytes |-> t.bytes]
    /\ t.limited \in BOOLEAN /\ t.raised \in BOOLEAN
    /\ t.count \in Nat /\ t.bytes \in Nat /\ Len(t.events) \in Nat
    /\ t.events = [i \in 1..Len(t.events) |-> t.events[i]]
    /\ TranscriptBytes(t.events) \in Nat
    /\ ParseBoundedTranscript(t)
    /\ ~t.limited => /\ Len(t.events) < t.count
                     /\ TranscriptBytes(t.events) + Size(Terminal) <= t.bytes

\* The id of the last tools/call that was prepared.
LastId == IF Calling /\ pc \in {"execute", "send"} THEN nextId ELSE nextId - 1

\* What an event cites is an action of the run, where it stands in the ledger.
Traces(e) ==
    /\ e.event \in {"authorized", "mcp_request"} => e.meta.action \in actions
    /\ Busy /\ e.event = "mcp_request" => e.meta.response \in Nat /\ e.meta.response <= LastId
    /\ e.event \in {"mcp_response", "evidence_validated"} =>
           \E k \in DOMAIN evidence : evidence[k].act = e.meta.action

\* Every event is traced, and the call at hand is in the transcript unless it
\* was cut.
Traced ==
    /\ \A i \in DOMAIN transcript.events : Traces(transcript.events[i])
    /\ Calling /\ ~transcript.limited =>
           \E i \in DOMAIN transcript.events :
               transcript.events[i] =
                   Event("mcp_request", [action |-> batch[1].act, response |-> LastId])

\* A run with an unanswered call is on its way out, with its failure recorded.
Reported ==
    pc \in Closing /\ Len(sent) # Len(evidence) =>
        /\ ret = "outcome" /\ outcome \in {"failed", "cancelled"}
        /\ transcript.limited \/ Records(transcript, "failure")

\* From the first request on the child is held until close() has dealt with
\* it, and what close() says of a child that runs on is that it was not reaped.
Held ==
    /\ ret = "startup" => pc \in Closing
    /\ pc \in {"idle", "start", "started"} \/ ret = "startup" => nextId = 1
    /\ child = "running" /\ (Busy \/ nextId > 1) /\ pc # "done" => process
    /\ child = "running" /\ nextId > 1 /\ pc = "closed" /\ ret = "outcome" =>
           mode = "unreaped"
    /\ UnreapedAfterRequest

\* The inductive invariant of the transcript, beside SessionInv.
TranscriptInv == Sound(transcript) /\ ~transcript.raised /\ Traced /\ Reported /\ Held
=============================================================================
