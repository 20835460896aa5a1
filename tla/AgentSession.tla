----------------------------- MODULE AgentSession -----------------------------
(***************************************************************************)
(* One run of the external agent (agent/native_mcp_agent/                  *)
(* mcp_orchestrator.py): Orchestrator.run() drives a provider and an       *)
(* McpStdioClient, which owns one child process and has one JSON-RPC       *)
(* request outstanding.  The child is not trusted: it may answer late,     *)
(* twice, under another id, in pieces or not at all, let its stdin fill,   *)
(* close it, ignore SIGTERM, or exit.  Cancellation comes from another     *)
(* thread and the absolute deadline passes at any moment: a look at either *)
(* and the use of what was seen are separate steps.                        *)
(*                                                                         *)
(* Time is the flag expired and the choice, at every bounded wait, that    *)
(* the wait is over.  A line of the child is its id and what the client    *)
(* makes of its contents; an action's identity is the pair of tool and     *)
(* arguments it is the digest of.  Operators whose comment begins with     *)
(* "Fault" are plausible mistakes in the definition that follows.          *)
(***************************************************************************)
EXTENDS AgentTranscript, FiniteSetsExt

CONSTANTS
    Actions,        \* proposed actions the captured surface allows
    Unknown,        \* actions that name a tool outside the surface
    Unfit,          \* actions whose arguments the tool's schema rejects
    Strict,         \* those of Actions that the client's own limits refuse
    Wide,           \* ... whose canonical arguments are too long to execute
    CallIds,        \* provider call ids
    Offers,         \* bound: the lists of proposals a turn may return
    Cursors,        \* tools/list cursors the child uses
    ToolCount,      \* limits.advertised_tool_count, one tool a page
    CallsPerTurn,   \* min(proposed_tool_call_count, mcp_calls_per_turn)
    TurnCount,      \* limits.provider_turn_count
    TotalCalls,     \* limits.mcp_total_calls
    Caps,           \* transcript limits: <<transcript_event_count, bytes>>
    MaxPipe         \* bound: writes of the child not yet read

Proposals == [call : CallIds, act : Actions \cup Unknown \cup Unfit]

ASSUME SessionAssumption ==
    /\ Offers \subseteq Seq(Proposals)
    /\ Actions \cap (Unknown \cup Unfit) = {} /\ Unknown \cap Unfit = {}
    /\ Strict \cup Wide \subseteq Actions
    /\ {ToolCount, CallsPerTurn, TurnCount, TotalCalls, MaxPipe} \subseteq Nat \ {0}
    /\ \A c \in Caps : c[1] \in Nat \ {0} /\ c[2] \in Nat /\ c[2] >= Size(Terminal)

VARIABLES
    pc,          \* where run() is
    method,      \* the request it is at
    ret,         \* who called close(): start() or _outcome()
    mode,        \* what close() did
    outcome,     \* the outcome, once decided
    transcript,
    turn, batch, \* provider turns taken; proposals prepared and not yet done
    actions, callIds,  \* identities that may never be used again
    evidence,    \* accepted results: action, request id, id in the line
    sent,        \* tools/call requests the child may have got
    process,     \* the client holds a child
    dirty,       \* stdin still buffers what a failed write left
    signal,      \* the last signal sent to the child
    pipe, out,   \* the child's unread writes; a partial line was read
    nextId, cursors,
    child, stdin,      \* the child; its stdin: open, full ("stuck") or broken
    expired, cancelled,
    allowed      \* history: what run() may still authorize and prove

control == <<pc, method, ret, mode, outcome, transcript>>
work == <<turn, batch, actions, callIds, evidence, sent>>
client == <<process, dirty, signal, pipe, out, nextId, cursors>>
outside == <<child, stdin, expired, cancelled, allowed>>
vars == <<control, work, client, outside>>

Init ==
    /\ pc = "idle" /\ method = "initialize" /\ ret = "outcome"
    /\ mode = "none" /\ outcome = "none"
    /\ \E c \in Caps : transcript = BoundedTranscript(c[1], c[2])
    /\ turn = 0 /\ batch = <<>>
    /\ actions = {} /\ callIds = {} /\ evidence = <<>> /\ sent = <<>>
    /\ process = FALSE /\ dirty = FALSE /\ signal = "none"
    /\ pipe = <<>> /\ out = FALSE /\ nextId = 1 /\ cursors = {}
    /\ child = "off" /\ stdin = "open"
    /\ expired = FALSE /\ cancelled = FALSE
    /\ allowed = [begun |-> Actions, proved |-> TotalCalls]

-----------------------------------------------------------------------------
(* The ends of run(): _outcome() and the two exception handlers.           *)

Failure(class) == Event("failure", [failure |-> class])
Skipped(p) == Event("skipped", [proposal |-> p.call])
SkippedAll(s) == [i \in DOMAIN s |-> Skipped(s[i])]

\* _outcome() up to its close().
Return(t, o) ==
    /\ transcript' = AddAll(t, <<Plain("shutdown_start")>>)
    /\ outcome' = o /\ pc' = "close" /\ ret' = "outcome"
    /\ UNCHANGED <<method, mode>>

\* except ProviderError of run().
Outer(t, class) ==
    CASE class = "cancelled" -> Return(AddAll(t, <<Plain("cancelled")>>), "cancelled")
      [] class \in {"mcp_timeout", "total_request_timeout"} ->
            Return(AddAll(t, <<Plain("deadline")>>), "deadline")
      [] OTHER -> Return(AddAll(t, <<Failure(class)>>), "failed")

\* A transcript event refused on the way replaces the outcome it was part of.
ReturnChecked(t, o) ==
    IF t.raised
    THEN Outer([t EXCEPT !.raised = FALSE], "local_validation_failure")
    ELSE Return(t, o)

\* Fault: a failed call is skipped over and the turn goes on.
InnerContinues(class) ==
    /\ transcript' = AddAll(transcript, <<Failure(class)>>)
    /\ pc' = "exec"
    /\ UNCHANGED <<method, ret, mode, outcome>>

\* except ProviderError around one call: nothing after it is tried.
Inner(class) ==
    ReturnChecked(
        AddAll(transcript, <<Failure(class)>> \o SkippedAll(Tail(batch))),
        IF class = "cancelled" THEN "cancelled" ELSE "failed")

Raise(class) ==
    IF method = "tools/call" THEN Inner(class) ELSE Outer(transcript, class)

-----------------------------------------------------------------------------
(* McpStdioClient.start()                                                  *)

Run ==
    /\ pc = "idle"
    /\ transcript' = AddAll(transcript, <<Plain("process_start"),
                                          Plain("initialize_request")>>)
    /\ pc' = "start"
    /\ UNCHANGED <<method, ret, mode, outcome, work, client, outside>>

Popen ==
    /\ pc = "start" /\ ~expired
    /\ child' = "running" /\ process' = TRUE
    /\ pc' = "started"
    /\ UNCHANGED <<method, ret, mode, outcome, transcript, work, dirty, signal,
                   pipe, out, nextId, cursors, stdin, expired, cancelled, allowed>>

StartFails ==
    /\ pc = "start"
    /\ Raise(IF expired THEN "mcp_timeout" ELSE "mcp_process_exit")
    /\ UNCHANGED <<work, client, outside>>

\* The deadline is looked at again once the process exists.
Started ==
    /\ pc = "started"
    /\ IF expired THEN pc' = "close" /\ ret' = "startup"
                  ELSE pc' = "send" /\ UNCHANGED ret
    /\ UNCHANGED <<method, mode, outcome, transcript, work, client, outside>>

-----------------------------------------------------------------------------
(* McpStdioClient._request(): write one line, wait for its answer.         *)

Issued ==
    IF method = "tools/call"
    THEN Append(sent, [act |-> Head(batch).act, id |-> nextId - 1])
    ELSE sent

SendTooLate ==
    /\ pc = "send" /\ expired
    /\ Raise("mcp_timeout")
    /\ UNCHANGED <<work, client, outside>>

SendTooLarge ==
    /\ pc = "send" /\ ~expired
    /\ nextId' = nextId + 1
    /\ Raise("request_too_large_before_transmission")
    /\ UNCHANGED <<work, process, dirty, signal, pipe, out, cursors, outside>>

\* The last look at the clock before the write.
Send ==
    /\ pc = "send" /\ ~expired
    /\ nextId' = nextId + 1 /\ pc' = "write"
    /\ UNCHANGED <<method, ret, mode, outcome, transcript, work, process, dirty,
                   signal, pipe, out, cursors, outside>>

\* stdin is a blocking pipe: the write is done when the child has made room for
\* it, whatever the clock and the canceller do meanwhile.
Write ==
    /\ pc = "write" /\ stdin = "open"
    /\ sent' = Issued /\ pc' = "wait"
    /\ UNCHANGED <<method, ret, mode, outcome, transcript, turn, batch, actions,
                   callIds, evidence, client, outside>>

\* The child no longer reads: what it got of the request is unknown, and what
\* fits the stream's buffer stays there.  (initialize always fits.)
WriteBroken ==
    /\ pc = "write" /\ stdin = "broken"
    /\ sent' = Issued
    /\ dirty' \in BOOLEAN /\ (method = "initialize" => dirty')
    /\ Raise("mcp_ambiguous_completion")
    /\ UNCHANGED <<turn, batch, actions, callIds, evidence, process, signal,
                   pipe, out, nextId, cursors, outside>>

WaitCancelled ==
    /\ pc = "wait" /\ cancelled
    /\ Raise("cancelled")
    /\ UNCHANGED <<work, client, outside>>

\* The exit is noticed before the pipe is read, whatever is left in it.
WaitExited ==
    /\ pc = "wait" /\ ~cancelled /\ child = "exited"
    /\ Raise(IF out THEN "truncated_response" ELSE "mcp_ambiguous_completion")
    /\ UNCHANGED <<work, client, outside>>

\* Fault: the wait for an answer has no time limit.
WaitTimeoutNever == FALSE /\ UNCHANGED vars

WaitTimeout ==
    /\ pc = "wait" /\ ~cancelled /\ child = "running"
    /\ Raise("mcp_timeout")
    /\ UNCHANGED <<work, client, outside>>

\* None of the looks stops the wait: the pipe is read for up to 10 ms.
WaitGoesOn ==
    /\ pc = "wait" /\ ~cancelled /\ child = "running" /\ ~expired
    /\ pc' = "drain"
    /\ UNCHANGED <<method, ret, mode, outcome, transcript, work, client, outside>>

\* A write of the child is the first part of a line, or ends a line.
Half == [id |-> 0, body |-> "half"]

\* tools/list: a page adds one tool, and a cursor may not come back.
PageRejected(body) ==
    \/ body \in cursors
    \/ Cardinality(cursors) + 1 > ToolCount

\* Fault: the id of an answer is not compared with the request's.
VerdictAnyId(r) ==
    IF r.body = "garbage" THEN "malformed_json"
    ELSE IF r.body = "bad" THEN "mcp_protocol_failure"
    ELSE IF method = "tools/list" /\ PageRejected(r.body) THEN "mcp_protocol_failure"
    ELSE IF method # "tools/list" /\ r.body \in Cursors THEN "mcp_protocol_failure"
    ELSE "accepted"

\* parse_closed_json, the envelope, and the checks of the result's user
\* (initialize_and_capture, _list_and_capture or execute): a "bad" body is an
\* error answer or a result one of them rejects.
Verdict(r) ==
    IF r.body = "garbage" THEN "malformed_json"
    ELSE IF r.id # nextId - 1 THEN "mcp_protocol_failure"
    ELSE IF r.body = "bad" THEN "mcp_protocol_failure"
    ELSE IF method = "tools/list" /\ PageRejected(r.body) THEN "mcp_protocol_failure"
    ELSE IF method # "tools/list" /\ r.body \in Cursors THEN "mcp_protocol_failure"
    ELSE "accepted"

Captured ==
    <<Event("initialize_response", [response |-> 1]),
      Plain("initialized_notification"), Plain("tools_list_request"),
      Event("tools_list_response", [response |-> nextId - 1]),
      Event("surface_captured", [surface |-> "surface"])>>

Cited(name, act) == Event(name, [action |-> act, response |-> nextId - 1])

Accept(r) ==
    \/ /\ method = "initialize" /\ pc' = "notify"
       /\ UNCHANGED <<transcript, work, cursors>>
    \/ /\ method = "tools/list" /\ r.body \in Cursors
       /\ cursors' = cursors \cup {r.body} /\ pc' = "send"
       /\ UNCHANGED <<transcript, work>>
    \/ /\ method = "tools/list" /\ r.body \notin Cursors
       /\ transcript' = AddAll(transcript, Captured) /\ pc' = "turn"
       /\ UNCHANGED <<work, cursors>>
    \/ /\ method = "tools/call"
       /\ LET act == Head(batch).act IN
          /\ evidence' = Append(evidence, [act |-> act, id |-> nextId - 1, from |-> r.id])
          /\ transcript' = AddAll(transcript, <<Cited("mcp_response", act),
                                                Cited("evidence_validated", act)>>)
       /\ batch' = Tail(batch) /\ pc' = "exec"
       /\ UNCHANGED <<turn, actions, callIds, sent, cursors>>

\* _drain() reads what is there, if anything; the first whole line decides and
\* the others that came with it are dropped.
Drain(k) ==
    LET read == SubSeq(pipe, 1, k)
        lines == SelectSeq(read, LAMBDA r : r # Half)
        verdict == IF \E i \in DOMAIN lines : lines[i].body = "huge"
                   THEN "oversized_response"
                   ELSE Verdict(lines[1])
    IN  /\ pc = "drain"
        /\ pipe' = SubSeq(pipe, k + 1, Len(pipe))
        /\ out' = IF k = 0 THEN out ELSE read[k] = Half
        /\ IF lines = <<>>
           THEN /\ pc' = "wait"
                /\ UNCHANGED <<method, ret, mode, outcome, transcript, work, cursors>>
           ELSE IF verdict = "accepted"
           THEN Accept(lines[1]) /\ UNCHANGED <<method, ret, mode, outcome>>
           ELSE Raise(verdict) /\ UNCHANGED <<work, cursors>>
        /\ UNCHANGED <<process, dirty, signal, nextId, outside>>

\* notifications/initialized has no answer; its write may block like any other.
Notify ==
    /\ pc = "notify"
    /\ IF expired THEN Outer(transcript, "mcp_timeout")
       ELSE pc' = "notifying" /\ UNCHANGED <<method, ret, mode, outcome, transcript>>
    /\ UNCHANGED <<work, client, outside>>

NotifyWrite ==
    /\ pc = "notifying"
    /\ \/ /\ stdin = "broken"
          /\ dirty' = TRUE /\ Outer(transcript, "mcp_ambiguous_completion")
       \/ /\ stdin = "open"
          /\ method' = "tools/list" /\ pc' = "send"
          /\ UNCHANGED <<ret, mode, outcome, transcript, dirty>>
    /\ UNCHANGED <<work, process, signal, pipe, out, nextId, cursors, outside>>

-----------------------------------------------------------------------------
(* Orchestrator.run(): provider turns and the calls they propose.          *)

TurnEvent(name) == Event(name, [turn |-> turn, bytes |-> 0])

\* The request is serialized before the start of the turn is recorded.
Turn ==
    /\ pc = "turn"
    /\ \/ turn = TurnCount /\ Return(transcript, "budget")
       \/ turn < TurnCount /\ cancelled /\ Return(transcript, "cancelled")
       \/ /\ turn < TurnCount /\ ~cancelled /\ expired
          /\ Outer(transcript, "mcp_timeout")
       \/ /\ turn < TurnCount /\ ~cancelled /\ ~expired
          /\ Outer(transcript, "request_too_large_before_transmission")
       \/ /\ turn < TurnCount /\ ~cancelled /\ ~expired
          /\ transcript' = Add(transcript, TurnEvent("provider_turn_start"))
          /\ pc' = "provider"
          /\ UNCHANGED <<method, ret, mode, outcome>>
    /\ UNCHANGED <<work, client, outside>>

\* The provider raises.
ProviderFails(class) ==
    /\ pc = "provider"
    /\ class = "cancelled" => cancelled
    /\ Outer(transcript, class)
    /\ UNCHANGED <<work, client, outside>>

Answered == Add(transcript, TurnEvent("provider_turn_response"))

\* A final message, or an answer that cannot be encoded within its limit.
ProviderEnds(final) ==
    /\ pc = "provider"
    /\ IF expired THEN Return(transcript, "deadline")
       ELSE IF final THEN Return(Answered, "final")
       ELSE Return(transcript, "failed")
    /\ UNCHANGED <<work, client, outside>>

\* Fault: proposals are compared with earlier turns only.
AcceptableInTurn(s, i) ==
    /\ s[i].act \in Actions
    /\ s[i].call \notin callIds /\ s[i].act \notin actions

\* What the validation loop requires of the i-th proposal.
Acceptable(s, i) ==
    /\ s[i].act \in Actions
    /\ s[i].call \notin callIds /\ s[i].act \notin actions
    /\ \A j \in 1..i - 1 : s[j].call # s[i].call /\ s[j].act # s[i].act

Refusal(s, i) ==
    LET Note(name) == Event(name, [proposal |-> s[i].call]) IN
    IF s[i].act \in Actions THEN <<Note("proposal_duplicate")>>
    ELSE <<Note("proposal_rejected")>>
         \o IF s[i].act \in Unfit
            THEN SkippedAll(SubSeq(s, i + 1, Len(s))) ELSE <<>>

\* All the proposals of a turn are validated before any is authorized.
ProviderProposes(s) ==
    LET refused == {i \in DOMAIN s : ~Acceptable(s, i)}
        first == Min(refused)
    IN  /\ pc = "provider"
        /\ IF expired THEN Return(transcript, "deadline") /\ UNCHANGED batch
           ELSE IF Len(s) > CallsPerTurn
           THEN Return(Answered, "rejected") /\ UNCHANGED batch
           ELSE IF refused # {}
           THEN /\ ReturnChecked(AddAll(Answered, Refusal(s, first)),
                                 IF s[first].act \in Actions
                                 THEN "duplicate" ELSE "rejected")
                /\ UNCHANGED batch
           ELSE /\ transcript' = Answered /\ batch' = s /\ pc' = "exec"
                /\ UNCHANGED <<method, ret, mode, outcome>>
        /\ UNCHANGED <<turn, actions, callIds, evidence, sent, client, outside>>

TurnDone ==
    /\ pc = "exec" /\ batch = <<>>
    /\ turn' = turn + 1 /\ pc' = "turn"
    /\ UNCHANGED <<method, ret, mode, outcome, transcript, batch, actions,
                   callIds, evidence, sent, client, outside>>

CallCancelled ==
    /\ pc = "exec" /\ batch # <<>> /\ cancelled
    /\ ReturnChecked(AddAll(transcript, <<Plain("cancelled"), Skipped(Head(batch))>>),
                     "cancelled")
    /\ UNCHANGED <<work, client, outside>>

\* Fault: cancellation is looked at between turns only.
CallGoesOnBlind ==
    /\ pc = "exec" /\ batch # <<>> /\ pc' = "budget"
    /\ UNCHANGED <<method, ret, mode, outcome, transcript, work, client, outside>>

CallGoesOn ==
    /\ pc = "exec" /\ batch # <<>> /\ ~cancelled
    /\ pc' = "budget"
    /\ UNCHANGED <<method, ret, mode, outcome, transcript, work, client, outside>>

\* Fault: neither the call budget nor the deadline is looked at.
CallBudgetUnchecked ==
    /\ pc = "budget" /\ pc' = "authorize"
    /\ UNCHANGED <<method, ret, mode, outcome, transcript, work, client, outside>>

\* The look at the call budget and at the clock.
CallBudget ==
    /\ pc = "budget"
    /\ IF Len(evidence) >= TotalCalls \/ expired
       THEN ReturnChecked(AddAll(transcript, <<Plain("deadline"), Skipped(Head(batch))>>),
                          "deadline")
       ELSE pc' = "authorize" /\ UNCHANGED <<method, ret, mode, outcome, transcript>>
    /\ UNCHANGED <<work, client, outside>>

\* Fault: the action is not remembered.
AuthorizeForgets ==
    /\ pc = "authorize"
    /\ method' = "tools/call" /\ pc' = "execute"
    /\ UNCHANGED <<ret, mode, outcome, transcript, work, client, outside>>

\* authorize(), and the identities taken before the call.
Authorize ==
    LET p == Head(batch)
        t == AddAll(transcript,
                <<Event("authorized", [action |-> p.act, proposal |-> p.call]),
                  Event("mcp_request", [action |-> p.act, response |-> nextId])>>)
    IN  /\ pc = "authorize" /\ p.act \notin Strict
        /\ callIds' = callIds \cup {p.call} /\ actions' = actions \cup {p.act}
        /\ IF t.raised
           THEN Outer([t EXCEPT !.raised = FALSE], "local_validation_failure")
           ELSE /\ transcript' = t /\ method' = "tools/call" /\ pc' = "execute"
                /\ UNCHANGED <<ret, mode, outcome>>
        /\ UNCHANGED <<turn, batch, evidence, sent, client, outside>>

\* authorize() validates again under the client's own limits.
AuthorizeRefuses ==
    /\ pc = "authorize" /\ Head(batch).act \in Strict
    /\ Outer(transcript, "invalid_tool_proposal")
    /\ UNCHANGED <<work, client, outside>>

\* execute() checks what it was given, the canonical bytes included, before it
\* makes the request.
Execute ==
    /\ pc = "execute"
    /\ IF Head(batch).act \in Wide THEN Inner("local_authorization_failure")
       ELSE pc' = "send" /\ UNCHANGED <<method, ret, mode, outcome, transcript>>
    /\ UNCHANGED <<work, client, outside>>

-----------------------------------------------------------------------------
(* McpStdioClient.close(), and the rest of its callers.                    *)

\* No child, a child that is gone, or a stream that still cannot be flushed:
\* stdin.close() raises then, and nothing more is tried.
CloseBegin ==
    /\ pc = "close"
    /\ IF ~process \/ (~dirty /\ child = "exited")
       THEN mode' = "none" /\ pc' = "closed" /\ UNCHANGED signal
       ELSE IF dirty
       THEN mode' = "unreaped" /\ pc' = "closed" /\ UNCHANGED signal
       ELSE mode' = "terminate" /\ signal' = "term" /\ pc' = "terminating"
    /\ UNCHANGED <<method, ret, outcome, transcript, work, process, dirty, pipe,
                   out, nextId, cursors, outside>>

\* The graceful wait is over, or there was no time left for one.
CloseTerminate ==
    /\ pc = "terminating"
    /\ IF child = "exited"
       THEN pc' = "closed" /\ UNCHANGED <<mode, signal>>
       ELSE mode' = "kill" /\ signal' = "kill" /\ pc' = "killing"
    /\ UNCHANGED <<method, ret, outcome, transcript, work, process, dirty, pipe,
                   out, nextId, cursors, outside>>

\* Fault: the child is taken to be gone once it was killed.
CloseKillTrusting ==
    /\ pc = "killing" /\ (child = "exited" \/ expired)
    /\ pc' = "closed"
    /\ UNCHANGED <<method, ret, mode, outcome, transcript, work, client, outside>>

\* The wait for a killed child lasts until the deadline.
CloseKill ==
    /\ pc = "killing" /\ (child = "exited" \/ expired)
    /\ mode' = IF child = "exited" THEN "kill" ELSE "unreaped"
    /\ pc' = "closed"
    /\ UNCHANGED <<method, ret, outcome, transcript, work, client, outside>>

Shutdown ==
    CASE mode = "none" -> <<Plain("shutdown_complete")>>
      [] mode = "terminate" -> <<Plain("shutdown_terminate"),
                                 Plain("shutdown_complete")>>
      [] mode = "kill" -> <<Plain("shutdown_terminate"), Plain("shutdown_kill"),
                            Plain("shutdown_complete")>>
      [] mode = "unreaped" -> <<Plain("shutdown_terminate"), Plain("shutdown_kill"),
                                Plain("shutdown_unreaped")>>

\* start() drops what close() said; _outcome() records it.
Closed ==
    /\ pc = "closed" /\ process' = FALSE /\ pipe' = <<>>
    /\ IF ret = "startup" THEN Outer(transcript, "mcp_process_exit")
       ELSE /\ transcript' =
                   AddAll(transcript, Append(Shutdown,
                              Event("outcome", [outcome |-> outcome])))
            /\ pc' = "done"
            /\ UNCHANGED <<method, ret, mode, outcome>>
    /\ UNCHANGED <<work, dirty, signal, out, nextId, cursors, outside>>

-----------------------------------------------------------------------------
(* The child, the clock, and the thread that cancels.                      *)

\* Half a line is followed by its other half before anything else.
Halved == IF pipe = <<>> THEN out ELSE Last(pipe) = Half

\* Any content under the id asked for; sound content under the one before and
\* the one after it.
Lines ==
    [id : {nextId - 1}, body : {"ok", "bad", "garbage", "huge"} \cup Cursors]
    \cup [id : {nextId - 2, nextId}, body : {"ok"}]
    \cup IF Halved THEN {} ELSE {Half}

\* The pipe is read only while an answer is waited for: what the child writes at
\* other times is there when the next request is written, or is never read.
Exchanging == {"write", "wait", "drain"}

ChildWrites(r) ==
    /\ child = "running" /\ pc \in Exchanging /\ Len(pipe) < MaxPipe
    /\ pipe' = Append(pipe, r)
    /\ UNCHANGED <<control, work, process, dirty, signal, out, nextId, cursors,
                   outside>>

\* The pipe to the child is full, and has room again.  (Only a write under way
\* can tell.)
ChildStalls ==
    /\ child = "running" /\ pc \in {"write", "notifying"} /\ stdin = "open"
    /\ stdin' = "stuck"
    /\ UNCHANGED <<control, work, client, child, expired, cancelled, allowed>>

ChildResumes ==
    /\ stdin = "stuck"
    /\ stdin' = "open"
    /\ UNCHANGED <<control, work, client, child, expired, cancelled, allowed>>

ChildStopsReading ==
    /\ child = "running" /\ pc # "done" /\ stdin # "broken"
    /\ stdin' = "broken"
    /\ UNCHANGED <<control, work, client, child, expired, cancelled, allowed>>

ChildExits ==
    /\ child = "running" /\ pc # "done"
    /\ child' = "exited" /\ stdin' = "broken"
    /\ UNCHANGED <<control, work, client, expired, cancelled, allowed>>

\* The first stop leaves run() what it has begun: the actions authorized so far
\* and the one whose look at this stop is over, and the calls already sent.
Stopping(looked) ==
    allowed' =
        IF expired \/ cancelled THEN allowed
        ELSE [begun |-> actions \cup IF pc \in looked THEN {Head(batch).act} ELSE {},
              proved |-> Len(sent)]

Tick ==
    /\ ~expired /\ pc \notin {"idle", "done"}
    /\ expired' = TRUE /\ Stopping({"authorize"})
    /\ UNCHANGED <<control, work, client, child, stdin, cancelled>>

Cancel ==
    /\ ~cancelled /\ pc # "done"
    /\ cancelled' = TRUE /\ Stopping({"budget", "authorize"})
    /\ UNCHANGED <<control, work, client, child, stdin, expired>>

-----------------------------------------------------------------------------
ProviderFailures ==
    {"cancelled", "total_request_timeout", "permanent_provider_failure",
     "http_403_authorization_failure", "request_too_large_before_transmission"}

RunStep ==
    \/ Run \/ Popen \/ StartFails \/ Started
    \/ SendTooLate \/ SendTooLarge \/ Send \/ WriteBroken \/ Write
    \/ WaitCancelled \/ WaitExited \/ WaitTimeout \/ WaitGoesOn
    \/ \E k \in 0..Len(pipe) : Drain(k)
    \/ Notify \/ NotifyWrite \/ Turn
    \/ \E class \in ProviderFailures : ProviderFails(class)
    \/ \E final \in BOOLEAN : ProviderEnds(final)
    \/ \E s \in Offers : ProviderProposes(s)
    \/ TurnDone \/ CallCancelled \/ CallGoesOn \/ CallBudget
    \/ Authorize \/ AuthorizeRefuses \/ Execute
    \/ CloseBegin \/ CloseTerminate \/ CloseKill \/ Closed

ChildStep ==
    \/ \E r \in Lines : ChildWrites(r)
    \/ ChildStalls \/ ChildResumes \/ ChildStopsReading \/ ChildExits

Returned == pc = "done" /\ UNCHANGED vars

Next == RunStep \/ ChildStep \/ Tick \/ Cancel \/ Returned

Spec == Init /\ [][Next]_vars

\* The agent's thread runs, a write ends for which there is room again and again,
\* and the monotonic clock advances; nothing is assumed of the child, of the
\* provider's answers or of cancellation.
FairSpec ==
    Spec /\ WF_vars(RunStep) /\ SF_vars(Write) /\ SF_vars(NotifyWrite) /\ WF_vars(Tick)
=============================================================================
