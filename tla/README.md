# TLA+ verification of native-mcp-sandbox

native-mcp-sandbox is a local MCP server (C++) that offers a few bounded,
read-only inspection tools over stdin and stdout, and an external agent (Python)
that drives such a server on behalf of a model provider. This directory holds
TLA+ modules of the concurrent core of the server and of the agent from its
provider to its child process, the TLC configurations that check them, and
TLAPS proofs about the scheduler, the server, the rate limit, the agent's run
and transcript, and the provider turn.

Paths below are relative to the repository (`src/orchestration.cpp`,
`agent/native_mcp_agent/...`).

## 1. Inventory

| component | code | state | operations | what is hard | what makes it correct |
|---|---|---|---|---|---|
| Tool scheduler | `src/orchestration.cpp` | `accepting`, `stopping`, `joined`, `in_flight`, `ready`, statistics; per call a cancel flag, a stop source, a deadline | constructor, `submit`, `cancel`, `request_stop`, `shutdown`, `worker_loop`, `run`, `finish` | worker threads, two condition variables, notifications after unlock, cancellation and deadlines that race completion, shutdown from several threads and from callbacks, partly failed construction | every admitted call is answered once or was cancelled; a cancelled one never; shutdown drains, returns and is final |
| Protocol server | `src/server.cpp` | session lifecycle, line buffer, serialized writer | `accept_line`, `dispatch`, `serialize_bounded`, `run_stdio`, the completion callback | one reader and several workers write to one stream; failures seen by one thread concern all; exit paths | one whole response per request; the handshake comes first; the exit status is right |
| Stdio transport | `src/stdio_transport.cpp` | one failure flag for three descriptors | `underflow`, `xsputn`, `sync`, `run_native_stdio` | partial writes, write deadlines, an idle reader | nothing follows a torn message; any failure ends the process with 74 |
| Tool service | `src/tool_service.cpp` | sliding window of recent calls | `execute`, `acquire_rate_limit_slot` | the clock is read outside the lock | the limit holds up to one call per worker, and nobody who paused is refused |
| Process policy | `src/process_memory.cpp` | pinned process handles | `create`, `inspect_memory` | exit and pid reuse between reads | observations belong to the configured process |
| Filesystem policy | `src/file_policy.cpp` | root descriptors | `create`, `open_regular_file` | concurrent renames, replacement, growth | only regular files beneath a root, of bounded size |
| Log analysis | `src/log_analysis.cpp` | none between calls | `search`, `tail` | matches across chunks, caps, growing files | equals the definition of a literal search, within its caps |
| ELF analysis | `src/elf_analysis.cpp` | none between calls | `inspect` | 64-bit arithmetic on fields of the file | no read outside the file |
| JSON preflight | `src/json_safety.cpp` | parser counters | `preflight_json` | limits at their boundary, duplicate keys | accepts exactly the documents within the limits |
| Configuration, start-up | `src/runtime_config.cpp`, `src/main.cpp`, `src/foundation.cpp` | none after start-up | `load_tools`, parsers, budget check | the file changes while it is read | fails closed |
| Agent: MCP client | `mcp_orchestrator.py` (`McpStdioClient`) | child process, output buffers, next id | `start`, `_request`, `_drain`, `initialize_and_capture`, `execute`, `close` | late, wrong, partial answers; a child that stops reading, exits or cannot be killed | one request at a time; no answer is taken for another's; every wait but a blocked write ends |
| Agent: orchestrator, transcript | `mcp_orchestrator.py` (`Orchestrator`), `transcript.py` | actions taken, call ids, evidence, events | `run`, `_outcome`, `add`, `parse_bounded_transcript` | cancellation and the deadline at any step, limits met anywhere, repeated proposals, failure between recording and sending | an action is sent at most once; ambiguity is reported; the transcript is accepted by its parser |
| Agent: provider | `openai_compatible.py`, `retry.py`, `transport.py`, `endpoint_policy.py`, `errors.py` | attempts, deadlines, the endpoint of the attempt | `turn`, `_send`, `_one_attempt`, `decide_retry`, `resolve_production_transport_endpoint` | DNS that changes between attempts, retries against one deadline, a peer that trickles, ambiguous completion | the credential stays with checked global addresses inside TLS; only transient failures are retried, within the deadline |
| Agent: contracts | `contracts.py`, `limits.py`, schema checks of `mcp_orchestrator.py`, `redaction.py` | the captured surface | `capture_tool_surface`, `parse_provider_response`, `authorize`, `_validate_tool_result`, `redact_json` | three validators with different limits over plain and frozen values | what is accepted conforms to what the server advertised; evidence is redacted |
| Agent: environment, CLI, demo | `environment.py`, `cli.py`, `demo.py` | none | text, argument parsing | - | - |
| Tests, fuzzing, benchmarks, scripts, site | `tests`, `fuzz`, `benchmarks`, `scripts`, `site` | - | - | - | not part of the running system |

How they interact. `main` builds a `ToolService` from the configuration and
calls `run_native_stdio`, which calls `run_stdio` with streams over nonblocking
descriptors. The reader thread turns a line into an immediate response, a
cancellation or a tool call. Tool calls go to the scheduler, whose workers run
them (each first passes the rate limit) and hand the result to a completion
callback. The callback formats the result and writes it with the same serialized
writer the reader uses; when it cannot, it calls back into the scheduler
(`request_stop`).

The agent starts the server as a child process, captures its tools, and then
takes turns: a provider (scripted, or remote over HTTP) proposes calls, `run`
validates all of a turn's proposals, authorizes and sends them one by one,
checks each result against the captured schema, and records everything in a
bounded transcript.

`PROJECT.json` lists the hazards of this code line by line, with the
properties that would notice each one going wrong; a hazard that no property
covers has a note.

## 2. Modules

    CallLedger            what the scheduler promises
        ^   ^
        |   +-- SchedulerProperties (refinement mapping)
        |            EXTENDS ToolScheduler        the threads and queues
        |            ^                ^
        |            |                +-- MCToolScheduler             (TLC)
        |            +-- ToolSchedulerProofs                          (TLAPS)
        |                     ^-- SchedulerContractProofs             (TLAPS)
        |
        +-- StdioServer    server + transport, on top of the contract
                 ^-- ServerProperties <-- MCStdioServer               (TLC)
                           ^-- ServerProofs                           (TLAPS)

    RateLimiter <-- RateProperties <-- MCRateLimiter                  (TLC)
                          ^-- RateLimiterProofs                       (TLAPS)

    ActionLedger          what the agent promises about actions
        ^
        +-- AgentProperties (refinement mapping)
                 EXTENDS AgentSession    run(), the client, the child
                         EXTENDS AgentTranscript
                 ^                ^
                 |                +-- MCAgentSession                  (TLC)
                 +-- AgentSessionProofs                               (TLAPS)
                           ^-- AgentTranscriptProofs                  (TLAPS)

    EndpointPolicy <-- ProviderExchange <-- ProviderProperties
                                                ^    ^-- MCProviderExchange (TLC)
                                                +-- ProviderProofs    (TLAPS)

    ToolContracts <-- ContractProperties <-- MCToolContracts          (TLC)
                              ^-- ContractProofs                      (TLAPS)

`StdioServer` does not contain the scheduler's threads. It calls the actions of
`CallLedger`. That `ToolScheduler` implements `CallLedger` is the theorem
`SchedulerKeepsLedger` for the safety part, and the run `scheduler_liveness`
for the fairness. Two facts of the scheduler are used beyond the ledger:
shutdown returns only when no callback runs (`ShutdownDrained`,
`QuietAfterShutdown`), and at most `worker_threads` callbacks run at once.

`AgentSession` takes the provider as a choice of what a turn returns, which
`ProviderExchange` details for one turn, and the validity of proposals and
results as given by the sets `Actions`, `Unknown`, `Unfit` and by "bad" bodies,
which `ToolContracts` details.

Operators whose comment begins with "Fault" are not used by any specification.
Each is a plausible mistake in the definition that follows it; replacing the
definition by it must break the property named for it in `PROJECT.json`.

### ToolScheduler

| state | code |
|---|---|
| `accepting`, `stopping`, `joined`, `inFlight`, `ready`, `stats` | the fields of `ToolScheduler::Impl` (`stats` without the gauges `outstanding` and `queued`, which `stats()` recomputes) |
| `cancelled`, `stopRequested`, `expired` | the calls whose `cancelled_by_client` is set, whose stop source was asked, whose deadline has passed |
| `ctor` | how far the constructor is |
| `workerPc`, `workerCall`, `workerResult` | the point of `worker_loop`, `run` and `finish` a worker is at, its coroutine, and the result |
| `clientPc`, `clientCall` | the point of `submit`, `cancel`, `request_stop` or `shutdown` another thread is at |
| `toSignal` | the controls for which a thread still has to call `stop_source.request_stop()` |
| `verdict`, `sent` | history: what `submit` returned, what the callback was given |

A step is one critical section of `mutex`, one notification, one stop request, or
the unlocked code between two of those. This is as fine as the code's
interleaving is observable: everything shared is either guarded by `mutex` or
one of the atomics, each of which is read or written in a step of its own.

`submit` is `SubmitStopped`, `SubmitDuplicate`, `SubmitQueueFull` or
`SubmitAdmits` followed by `Enqueue` and `EnqueueNotifies`, or by
`SubmitAbandons` and `AbandonNotifies` when the coroutine frame cannot be
allocated. `cancel` is `Cancel` and its signal. `shutdown` is `ShutdownCalled`,
`ShutdownEnters`, `ShutdownDrains`, `ShutdownNotifies`, `ShutdownJoins`; on a
worker it is `CompletionShutsDown`. `worker_loop` is `WorkerSleep`,
`WorkerTake`, `WorkerExit`; `run` is `RunSkips`, `RunTimesOut`, `RunExecutes`,
`ExecutorReturns`, `RunTimesOutLate`, `RunKeepsResult`; `finish` is `Finish`,
`FinishQuietly`, `FinishCompletes` and what the callback does. Condition
variables are modelled with spurious wakeups, and `notify_one` wakes any one
sleeper.

Data is abstracted so: a call is a model value with a key (`KeyOf` stands for
`request_key`); a tool's result is one of "value", "tool_cancelled" (only if its
stop was requested), "tool_deadline" (only if its deadline passed) and
"internal_error" (an exception). A call whose deadline passes after it left
`in_flight` is of no interest, since nobody reads its clock any more.

### StdioServer

| state | code |
|---|---|
| `session` | `Server::state_` |
| `open`, `ledger` | the scheduler, by its contract |
| `reader`, `line`, `final` | where `run_stdio` is, the line it works on, whether that line ended at EOF |
| `callback` | where the completion callback of a call is |
| `writer`, `message`, `lock`, `writerFailed` | `SerializedProtocolWriter`: where each thread is in `write`, the mutex, `failed_` |
| `diagnosticsBad`, `transportFailed` | the bad bit of the diagnostics stream; the flag the three descriptors share |
| `owed`, `out`, `exit` | history: lines with a response due; what went to stdout; the exit status |

A message reaches stdout in two parts (`WriteBegins`, `WriteEnds`), so that a
failure, or another thread's failure, can come between them (`WriteBreaks`).
Inputs are all combinations of form, method, id present and parameters
acceptable that `accept_line` tells apart. `Outcomes` is what
`serialize_bounded` may make of a response: its own text, a correlated error, an
uncorrelated error, or nothing but a diagnostic.

### RateLimiter

`acquire_rate_limit_slot` is two steps: `ReadClock`, outside the lock, and
`Admits` or `Refuses`, the critical section. Any time and any other worker's
section may come between them, so `recentCalls` need not be ordered and `seen`
may be older than a window. `Drops` is the loop over the front of the deque: it
stops at the first entry that has not expired, whatever is behind it. `admitted`
is history.

### AgentSession, AgentTranscript, ActionLedger

| state | code |
|---|---|
| `pc`, `method` | where `Orchestrator.run` or the client it called is, and the JSON-RPC request at hand |
| `ret`, `mode` | who called `close()`, and what `close()` returns |
| `turn`, `batch` | the loop over turns; the proposals of the turn that were validated and are not done |
| `actions`, `callIds` | `self.actions` and `self.call_ids`: identities that may not come again |
| `evidence`, `sent` | accepted results; history: `tools/call` requests the child may have got |
| `process`, `dirty`, `signal`, `pipe`, `out`, `nextId`, `cursors` | the client: its child, bytes a broken write left in stdin's buffer, the last signal, unread writes, a partial line, the next id, the `tools/list` cursors |
| `child`, `stdin`, `expired`, `cancelled` | the environment: the child; whether its stdin takes a write ("open"), is full ("stuck") or closed ("broken"); the deadline, the cancellation |
| `allowed` | history, fixed at the first stop: the actions run() had begun, the calls it had sent |
| `transcript`, `outcome` | `BoundedTranscript`; what `run` returns |

A step is one call the code makes outside itself (a look at the clock or the
cancellation, a write, a poll, a signal) with what follows up to the next, so
that the deadline and the cancellation can come between every look and its use.
A request is `Send` (the last look at the clock), `Write` or `WriteBroken`, and
the loop of `WaitCancelled`, `WaitExited`, `WaitTimeout`, `WaitGoesOn` and
`Drain`; the notification is `Notify` and `NotifyWrite`. A call is `CallGoesOn` or
`CallCancelled` (the look at the cancellation), `CallBudget` (the look at the
budget and the clock), `Authorize` or `AuthorizeRefuses`, `Execute`, and its
request. The child's stdin is a blocking pipe: while it is "stuck"
(`ChildStalls`, `ChildResumes`), a write does not end and nothing looks at the
clock. How full the pipe is is not represented: any write may find it full,
the first ones of a run too, although those are shorter than a usual pipe.

`Strict` and `Wide` are the actions that pass the validation of a turn and are
refused later, by the client's own limits in `authorize()` and by `execute()`.

Both exception handlers are operators: `Inner` around one call, `Outer` around the
run; `ReturnChecked` is the case in which a transcript event is refused while a
handler or a rejection is being recorded (`add` raises on a proposal id longer
than 64 characters) and the outer handler takes over. The child (`ChildStep`)
may write whole or half lines under the right or a neighbouring id, with sound,
bad, unparseable or too large contents, let its stdin fill or close it, and exit;
it is free to ignore both signals. It writes during `Exchanging` only: the pipe is
read nowhere else, so what it writes at other times is there then, or is never read.

`AgentTranscript` has no variables: `Add` is `BoundedTranscript.add` with its
closed schema, its redaction of suspicious words, and the reserve for the
terminal event; `ParseBoundedTranscript` is the parser, with its rules about
which event must come after which.

`ActionLedger` is the promise: an action is authorized once, sent at most once,
ends with evidence or is lost, and once one is lost no other is authorized.

### ProviderExchange, EndpointPolicy

One call of `OpenAICompatibleProvider.turn` (or of `LoopbackFakeTransport.send`,
`via = "fake"`): the checks before the network (`Turn`), the head of the attempt
loop (`Attempt`), DNS for every production attempt (`Resolve`), connect, TLS,
POST, headers, body, classification (`Fails`), `decide_retry` and the sleep.
The resolver, the network and the peer choose freely. `now` is the clock; every
call on the socket has `left`, the time until its timeout `socket` strikes, and a peer
that takes the request or sends the answer in pieces starts it again (`Piece`), as
often as it likes. The deadline is looked at after the request (`Written`), after the
headers and between reads of the body (`SetReadTimeout`), and nowhere within one of
these calls. `causes` is history: what
happened on the wire, as opposed to `classes`, what the code calls it.
`EndpointPolicy` is `endpoint_policy.py` as operators over URLs as records and
addresses as representatives of loopback, global and private ones.

### ToolContracts

Tools, calls and results on their way through `capture_tool_surface`
(`Capture`), `parse_provider_response` (`Respond`), the validation of a turn in
`run()` (`Validate`), `authorize` (`Authorize`), `execute` (`Execute`) and
`_validate_tool_result` (`Answer`), one call of the turn after the other. The
provider's parser, the orchestrator and the client have a `Limits` each
(`Parser`, `Orchestrator`, `Client`). A call has two lengths: `text`, of the
UTF-8 text of its arguments, which the parser bounds, and `canon`, of their
canonical form, in which what is not ASCII is escaped, and which is held against
the hard maximum when the call is parsed and against the client's limit only in
`execute`.

A JSON value is a tree: a function from paths (sequences of steps into
an array or an object) to nodes, closed under the steps its nodes allow
(`IsTree`). Nodes tell frozen from plain containers, since `type(value) is
type(item)` in the enum check does. A schema is a function from paths to the
keywords found there, the sub-schema under `items` being one more step
(`IsSchema`).

What the code does by recursion on a value or schema is said of every path in it.
The depth of the recursion is the length of the path (`Fits`, `SchemaDefined`); a
sub-schema that the recursion does not come to, such as `items` of an object, is
left out by `Reached`; the depth at which `_freeze_json` meets the keywords of a
sub-schema counts the dict of the properties too (`SchemaDepth`). A validator is
one definition for what it asks at a path (`InputValidAt`, `OutputValidAt`,
`KeywordsDefined`) and one for all of them. `InputValid` is `_validate_schema`,
`OutputValid` `_validate_output_value`, `RedactJson` `redact_json`.
`ContractProperties` defines independently of them what it means to conform to a
schema (`Conforms`) and what redaction has to leave (`IsRedactionOf`), and compares.

## 3. Runs

| run | instance | what it shows |
|---|---|---|
| `scheduler_races` | 2 calls under 2 ids, 2 workers, 2 clients, 1 slot; 265,000 states | the inductive invariant `IInv` on all interleavings of two clients; `QueueWithinReserve`, `NoLostWakeup`, `ShutdownDrained`, `QuietAfterShutdown`, and the safety of the contract, `KeepsLedger` |
| `scheduler_reuse` | 3 calls, two under one id, 2 workers, 1 client, 2 slots; 2.1 million states | `CancelledStaysSilent`, `OneAnswerPerRequest`, `NoEarlyStopDelivered`, `StatsExact` while ids are reused and calls overlap |
| `scheduler_liveness` | 2 calls, 1 worker, 2 clients, 1 slot; 193,000 states | `ShutdownReturns`; `ImplementsLedger`, the contract with its fairness |
| `server_safety` | 5 lines, 2 workers, 2 slots, responses that do not fit; 1.4 million states | the five safety properties of `ServerProperties` |
| `server_liveness` | 4 lines, 2 workers, 1 slot; 130,000 states | `FailureStopsServer`, `EndOfInputExits` |
| `server_lost_answer` | 3 lines | a violation, see section 6 |
| `rate_limiter` | 3 workers, 2 calls in a window of 2 ticks, 5 ticks; 620,000 states | `RefusedOnlyWhenBusy`, `OverrunBounded` |
| `agent_proposals` | 5 actions, 12 kinds of turn, 2 turns, 2 calls, 2 pages of tools, two transcript sizes; 266,000 states | the inductive invariant `SessionInv`; `AtMostOnce`, `TranscriptAccepted`, `StopIsFinal` |
| `agent_child` | 2 actions, 1 turn, up to 2 unread writes of the child; 138,000 states | `EvidenceMatches`, `AmbiguityIsReported`, `UnreapedAfterRequest`, `RunReturns`, `ImplementsActionLedger` |
| `agent_cleanup` | the same, 1 unread write | a violation, see section 6 |
| `provider_exchange` | 17 kinds of turn, 7 resolver answers, 2 attempts, timeouts of 2 to 5 ticks; 1.4 million states | `CredentialConfined`, `OnlyTransientRetried`, `ResultIsTruth`, `InTime`, `TurnReturns` |
| `tool_contracts` | 87 tool lists, 57 answers, 63 results, three different limits; 29,000 states | `CapturedIsUsable`, `AcceptedConforms`, `RefusedOnlyForSize`, `EvidenceConforms`, `EvidenceIsRedacted` |

Why the bounds are enough to be interesting.

- Scheduler. Two workers and two clients give every pair of threads that can
  race, including two concurrent shutdowns, a shutdown against a submitter that
  has not enqueued yet, and a callback against both. One slot makes the queue
  full with one call; two slots let calls overlap. The key shared by two of three
  calls gives duplicates while the first is in flight and reuse after it. One
  worker in the liveness run makes a lost wakeup fatal.
- Server. Five lines are `initialize`, `initialized`, two calls and a
  cancellation or a third call; three lines are the shortest session with a call.
- Rate limit. Five ticks hold two windows and a reading older than both; the
  bound of `OverrunBounded` is met exactly (with one less it is violated).
- Agent. Twelve kinds of turn: none, one, two and too many proposals, fresh,
  repeated within the turn or over turns by id or by action, unknown, unfit,
  refused by `authorize()` or `execute()`, with an over-long id. Fourteen events
  or thirty units of bytes cut the transcript in the middle of a turn, forty and
  a hundred never do. Two unread writes let a late answer be read together with
  the right one.
- Provider. Two attempts are the least with a retry and its limit; the turn's
  timeout is above the total one, and both are longer than one attempt and
  shorter than two slow ones. `Horizon` bounds only how late the resolver
  answers.
- Contracts. Every keyword at and beyond its edge, on the top level, in an
  object and in an array; the limits are scaled down to 2 to 9. Each of the three
  authorities is stricter than the parser in some limit, and texts and canonical
  forms lie on both sides of the two bounds.

Workers and clients are symmetric in the runs that check no liveness property.
Deadlock is checked in every run.

### Fairness

Scheduler: weak fairness of the constructor, of each worker and of each client
*inside* an operation. This says that a thread that can run does, that a mutex
starves nobody, that tools return (they poll their token and deadline) and that
callbacks return (a write has a deadline of two seconds). No client has to start
an operation, no spurious wakeup is owed, and no deadline has to pass.

Server: weak fairness of the reader and of each worker. The reader's fair steps
do not include reading a line, EOF or a read error, since the client owes
none; they do include the poll of the failure flag, which the code does every
50 ms.

Agent: weak fairness of `run()`'s steps and of the clock that ends every wait
(`RunStep`, `Tick`), strong fairness of the two writes, which the system resumes
when there is room again; none of the child, which may be silent for ever, need
not read and may survive SIGKILL, and none of the canceller. `RunReturns`
supposes, in its statement, that no write stays blocked for ever; without this
it is false (section 6). Provider: weak fairness of the turn's steps and of
`Tick`; none of the resolver (bounded by `Horizon`), the network and the peer.
`TurnReturns` supposes, in its statement, that the peer does not send pieces for
ever; without this it is false (section 6).

## 4. Proofs

All theorems hold for every value of the constants that satisfies the named
assumption; they are checked by TLAPS with no fact taken on trust.

### The scheduler (`ToolSchedulerProofs`, `SchedulerContractProofs`)

From `SchedulerAssumption` (every call has a key, the bound is positive,
`NoCall` is not a call, workers are not clients):

| theorem | statement |
|---|---|
| `Invariance` | `Spec => []IInv` |
| `TypeCorrect` | `Spec => []TypeOK` |
| `CancellationIsSilent` | `Spec => []CancelledStaysSilent` |
| `AtMostOneAnswer` | `Spec => []OneAnswerPerRequest` |
| `EarlyStopsStayInside` | `Spec => []NoEarlyStopDelivered` |
| `ShutdownDrainsAll` | `Spec => []ShutdownDrained` |
| `ShutdownIsFinal` | `Spec => QuietAfterShutdown` |
| `WakeupsAreNotLost` | `Spec => []NoLostWakeup` |
| `SchedulerKeepsLedger` | `Spec => KeepsLedger` |

None of these invariants is inductive by itself. That a cancelled call stays
silent needs to know that the worker about to call the completion saw the flag
clear *and* that nobody can set it afterwards; nobody can, because `cancel` finds
calls through `in_flight` and the worker has removed the entry. So the invariant
must say where calls are:

- `InOnePlace`: a call is in `in_flight` exactly if it is with a client that has
  not enqueued it, in the ready queue, or with a worker that has not finished
  it, and it is in only one of these places, once. Every other part leans on this one.
- `Hands`: what a thread holds fits the point it is at.
- `FlagBeforeToken`: whoever saw a stop token can rely on the flag; a result made
  by an early stop belongs to a cancelled call or is about to be replaced.
- `Answers`: the three properties, and for each accepted call that it is in
  flight, cancelled, answered, or held by a worker about to answer.
- `Phases`: `stopping` implies that nothing is in flight or ever will be;
  `joined` implies that every worker is gone.

The proof has one lemma per part (`TypeOKStep`, `InOnePlaceStep`, ...), each with
one step per action. The effect of an action on the places of calls is factored
into `TakePlaces`, `FinishPlaces`, `AdmitPlaces`, `EnqueuePlaces`,
`EnqueueNotifiesPlaces` and `AbandonPlaces`; actions that move no call use
`PlaceFrame`. TLC checks `IInv` in `scheduler_races`.

`SchedulerContractProofs` adds two invariants to `IInv`: nobody cancels a call
that was not submitted (`NewAreClean`), and `NoLostWakeup`. The latter has three
parts, one for each condition under which somebody sleeps, and each names who
still has to send the notification; they are inductive together with `Phases`.
For the refinement, `Book` maps the state to a ledger (`Standing`: new, refused,
pending, doomed, answered, suppressed). `BusyAre` shows that the busy keys of
the ledger are exactly the occupied entries of `in_flight`, so admission and
refusal have the ledger's guards. Each of the seven steps that move an entry has
a lemma of its own (`AdmitMoves`, `FinishMoves`, `StopMoves`, ...); all others are
stutters by `NoMove`. A call is answered in the ledger when `finish()` decides to
send, not when the callback starts: only then is the cancellation too late.

### The scheduler's counts (`SchedulerContractProofs`)

From the same assumption: `StatisticsAreExact` (`Spec => []StatsExact`) and
`QueueNeverGrows` (`Spec => []QueueWithinReserve`). Beside `IInv` the induction
needs `Reserved`: the occupied entries of `in_flight` are finitely many, at most
`MaxPending`. Every step is one of four by what it does to the counters and to
the sets they count (`Uncounted`, `Admission`, `Completion`, `Abandonment`;
lemma `StepCounts`), and for each the library's theorems about cardinalities
close the gap between the counter and the set. For the queue, `InOnePlace` makes
its entries different calls in flight, so it cannot be longer than `in_flight`.
TLC checked `Reserved` on the instance of `scheduler_races`.

### The server (`ServerProofs`)

From `ServerAssumption` (every line has a key, bounds are positive, a response
that fits is an outcome), for any number of lines, workers and slots:

| theorem | statement |
|---|---|
| `ServerInvariance` | `Spec => []ServerInv` |
| `MessagesDoNotMix` | `Spec => []OnlyTheLastIsPartial` |
| `AtMostOneResponse` | `Spec => []OneResponsePerLine` |
| `ExitTellsFailure` | `Spec => []FailureIsReported` |
| `NoToolBeforeWelcome` | `Spec => []ToolsAfterHandshake` |
| `NothingIsOwed` | if `"none"` is no outcome, `Spec => []CleanExitOwesNothing` |

The hypothesis of the last one is that `max_response_bytes` leaves room for a
minimal JSON-RPC error; without it a request may have no response by design.

The properties speak of stdout and of the exit status, the steps of threads. So
`ServerInv` says who is in `write()` and who has its mutex (`Turns`), what the
failure flags imply of each other (`Flags`), what the end of stdout is while
somebody writes and what `write()` has achieved when it returns (`Ends`). That no
line is answered twice needs to know that whoever wrote a response is past the
point of writing it again, and that reader and callback never own the same line
(`Origin`, `Owned`, `Standing`). `Handshake` lets the session be ahead of the
client by the response being written at most; `Debts` says where each response
due is until it is out (`Waits`); `Quiet` that nothing happens after the exit.
The shutdown facts of the scheduler enter through `CallLedger`'s steps. TLC
checked `ServerInv` on two instances smaller than `server_safety` (130,144 and
69,724 states).

### The agent's run (`AgentSessionProofs`)

From `SessionAssumption` (offers are sequences of proposals, the three sorts of
actions are disjoint, limits are positive, a transcript has room for its terminal
event), for every set of offers, every limit, and every behaviour of child and
provider:

| theorem | statement |
|---|---|
| `SessionInvariance` | `Spec => []SessionInv` |
| `BudgetsKept` | `Spec => []AgentTypeOK` |
| `AtMostOnceAlways` | `Spec => []AtMostOnce` |
| `EvidenceAlwaysMatches` | `Spec => []EvidenceMatches` |
| `StopAlwaysFinal` | `Spec => []StopIsFinal` |
| `RunKeepsLedger` | `Spec => ImplementsActionLedger` |

`SessionInv` is the types and budgets (`AgentTypeOK`, `Budget`) and `Account`,
which tells for every action where it stands: what is prepared is new and
pairwise different (`Prepared`; this is where the comparison within a turn is
needed), what was sent was authorized before (`Sendings`; identities are taken
before the write), requests and evidence differ by at most the call at hand
(`Balance`), each piece of evidence belongs to its request (`Answers`), and until
the run ends nothing authorized is without evidence but the call at hand
(`NothingLost`). The steps that touch none of this are covered by three
lemmas (`ClosingStep`, `IdleStep`, `FrameStep`); `ProposeStep`, `AuthorizeStep`,
`IssueStep`, `ProvedStep` and `DrainStep` are the ones that do. For the
refinement each of them moves one action in the ledger (`MoveOne`), and a failure
moves the call at hand to "lost" (`AbandonedStep`).

### The transcript (`AgentTranscriptProofs`)

From `SessionAssumption` again, for every pair of limits in particular:

| theorem | statement |
|---|---|
| `TranscriptInvariance` | `Spec => []TranscriptInv` |
| `TranscriptParses` | `Spec => []TranscriptAccepted` |
| `AmbiguityReported` | `Spec => []AmbiguityIsReported` |
| `UnreapedReported` | `Spec => []UnreapedAfterRequest` |

`TranscriptInv` has five parts. `Sound`: the transcript is one the parser accepts
at *every* moment, and unless it was cut there is room for the event that says so;
this is what the reserve in `add()` is for, and without it the bound on bytes is
not inductive. No event was refused without being handled. `Traced`: an event
that cites an action cites one of the ledger, requests cite ids no later than the
last one used, responses have their evidence, and the call at hand is in the
transcript unless that was cut. Together with `SessionInv` this gives the parser's
rules of provenance: an action authorized now was in no earlier event, and an
answer accepted now has its request recorded and was not recorded itself.
`Reported`: a run on its way out with an unanswered call has recorded the failure
before anything that may be refused. `Held`: from the first request on the
child is held until `close()` has dealt with it.

The lowest layer is about `Add` alone: what one add makes of a sound transcript
(`AddEffect`), of events that cite nothing (`Grown`, which adds up along the
lists of events run() records), and of those that cite an action (`MayCite`). A
list of adds and the bytes of a list of events are recursive functions; what is
needed of them is proved by induction over a *set* of naturals (`NatSet`, from the
library's theorem that every nonempty set of naturals has a least element). The
schema of events is a set of rows, since the prover cannot expand `@@`.
TLC checked `TranscriptInv` on the instances of `agent_child` and
`agent_proposals` (137,541 and 265,514 states).

### The provider turn (`ProviderProofs`)

From `ExchangeAssumption` (timeouts and the number of attempts positive, delays
natural) and `InputAssumption` (jobs and resolver answers are of their kind):

| theorem | statement |
|---|---|
| `ExchangeInvariance` | `Spec => []ExchangeInv` |
| `CredentialStaysConfined` | `Spec => []CredentialConfined` |
| `RetriesAreTransient` | `Spec => []OnlyTransientRetried` |
| `VerdictIsTrue` | `Spec => []ResultIsTruth` |
| `DeadlineKept` | `Spec => []InTime` |

`ExchangeInv` relates the point of the turn to its history: one cause and one
class for every attempt that failed, and only the last class may be one that is
not tried again (`Attempts`); POSTs belong to different attempts in their order
(`Posted`); where the next POST would go has passed the policy with *this*
attempt's DNS answer (`Bound`, needed for the credential, since the answer may
change between attempts); what a socket's timeout leaves until the deadline
(`Clock`); and what the verdict rests on (`Verdict`). TLC checked it on the
instance of `provider_exchange` (1,370,759 states).

### The rate limit (`RateLimiterProofs`)

From `RateAssumption` (finitely many workers, limit and window positive):
`RateInvariance` (`Spec => []RateInv`), `NobodyWhoPausedIsRefused`
(`Spec => RefusedOnlyWhenBusy`) and `OverrunIsBounded`
(`Spec => []OverrunBounded`). `RateInv` says that `recent_calls` always is the
last part of what was admitted, in the order of the mutex, and that times of
admission are ordered although the stamps are not. So if the deque is full after
the loop, it is the last `MaxCalls` admissions; its front has not expired, the
front was admitted no earlier than its stamp, and the others no earlier than it.

The bound on the overrun counts two kinds of admissions in the window that begins
at `t` (`OverrunInv`). Those under a reading of before `t` are at most one for
each worker: stale admissions and workers that may yet add one are together no
more than the workers (`OncePerWorker`). Those under a reading of within the
window are all still in `recent_calls` while the window lasts, because no reading
is late enough to expire them and the loop stops at the first entry that has not
expired (`FreshCounted`); so they are at most `MaxCalls`. TLC checked `OverrunInv` on
the instance of `rate_limiter`.

### The contracts (`ContractProofs`)

From `ContractAssumption` (every limit is between 1 and its hard maximum, which
`Limits.__post_init__` enforces; at least one item and some text survive
redaction) and `InputAssumption` (what arrives is what `json.loads` can return:
finite branching into paths, lists that are lists, schemas whose sub-schemas are
where their keywords say), for every list of tools, answer, result, limit, set of
hidden names and depth of nesting:

| theorem | statement |
|---|---|
| `ContractInvariant` | `Spec => []ContractInv` |
| `CapturedUsable` | `Spec => []CapturedIsUsable` |
| `RefusalsAreSizes` | `Spec => []RefusedOnlyForSize` |
| `AcceptedConform` | `Spec => []AcceptedConforms` |
| `EvidenceConform` | `Spec => []EvidenceConforms` |
| `EvidenceRedacted` | `Spec => []EvidenceIsRedacted` |
| `EvidenceFrozen` | `Spec => []EvidenceIsFrozen`: evidence is a whole JSON value, with nothing left over below a mask, and frozen at every level |

None of the five properties is inductive: they compare what was accepted with
the schema the server wrote, and say nothing of how one came from the other.
`ContractInv` does. `IsCaptured` holds from `Capture` on (the surface is
`Captured` of a list that passed), `IsParsed` from `Respond` on (the proposals are
the frozen calls of an answer that `Parsed` accepted under that surface), `IsKept`
from `Answer` on. The rest is about operators:

- Freezing changes no type, size or leaf (`FlagOnly`, `FrozenFits`, `FrozenPart`),
  so limits hold of the frozen value if they held of the plain one. A plain list
  never equals a frozen one, but a frozen one equals a frozen one: whatever enum
  check the parser's plain value passes, the orchestrator's frozen value passes
  (`EnumWhenFrozen`, `ParsedWhenFrozen`). What is left to refuse is a size; this is
  `RefusalsAreSizes`.
- `AdvertisedTool` checks a schema under the hard limits. That it also passes
  under the client's follows from `_freeze_json` of the whole item
  (`KeywordsUnderConfigured`, `DefinedUnderConfigured`): freezing meets every list,
  dict and enum value of a schema at least as deep as the definition check does.
- A path that passes the validator passes the reference (`EnumMeans`,
  `AcceptedMeans`, `ResultMeans`), and the reference says the same of a frozen
  schema as of the one the server wrote (`ConformsWhenFrozen`).
- Redaction: `RedactedNode` for what becomes of one node, `KeptValue` for which
  paths are kept and as what, `RedactionTells` for the reference, `KeptIsTree` for
  the shape of what is left.

The recursion of the code is not proved equal to the statement about paths; that
step is in the model, and the representation is what makes the proof possible:
with recursive operators each of these lemmas would be an induction over data,
which is out of the prover's reach. TLC checked `ContractInv` and `EvidenceIsFrozen`
on the instance of `tool_contracts`.

### Only model-checked

Liveness and fairness (`ShutdownReturns`, `ImplementsLedger`,
`FailureStopsServer`, `EndOfInputExits`, `RunReturns`, `TurnReturns`) are outside
what the prover handles. Every other property of a passing run is a theorem.

## 5. Not modelled

- Components listed in `PROJECT.json` as `not_modelled`, and what the notes of
  partly modelled ones name.
- Scheduler: completion callbacks that call `submit` or `cancel` (the repository
  has none); `request_key` (ids as the parameter `KeyOf`) and `stats()`, which
  only reads; `called_from_worker` reads thread ids while another thread may join
  them, and the model takes its answer to be right.
- Server: the refusals to start (exit 78 for an invalid budget or write timeout,
  74 when descriptors cannot be set up); saving and restoring descriptor modes
  and SIGPIPE; `Server::process_line`, the synchronous entry for tests.
  `server_safety` leaves out the outcomes "uncorrelated" and "none" of
  `serialize_bounded`: they need a `max_response_bytes` smaller than a JSON-RPC
  error, and with "none" a request has no response by design. `server_liveness`
  includes "uncorrelated".
- Agent run: `revalidate_surface`, which only a test calls; the older record types
  of `transcript.py`.
- Provider: parsing of the configuration mapping. `InTime` is about plain HTTP:
  over TLS the TCP connect and the handshake each get the full connect timeout,
  and DNS has none.
- Contracts: character rules, byte counts of encodings, redaction by regular
  expressions over text and of secrets the caller names; the number of keywords of
  a schema is not held against the limit on items. Conformance of evidence is about
  the result as received; what `redact_json` leaves of it may no longer conform,
  and nothing checks it again.
- `environment.py`, `cli.py`, `demo.py`: a filter by a list of names, argument
  parsing, and a scripted walk through the above.

## 6. Findings

**A lost answer** (run `server_lost_answer`). `finish()` swallows what the
completion callback throws, because "Protocol output failures are tracked by the
completion sink" (`src/orchestration.cpp:230`). The callback of `run_stdio` formats
the result before it enters the writer, and formatting may throw:
`structured_content.dump()` (`src/server.cpp:514`) rejects strings that are not
UTF-8, and the process name that `proc.memory` reports is copied from
`/proc/<pid>/status` as it is. A call is accepted and executed, no response is ever
written, no failure is recorded, and the server exits with status 0.
`CleanExitOwesNothing` therefore excepts such calls explicitly.

**No cleanup after a broken write** (run `agent_cleanup`).
`docs/MCP_ORCHESTRATION.md:11` says that "`run()` always closes stdin and performs
bounded terminate/kill/reap cleanup". When a write broke because the child closed
its stdin, the buffered stream still holds the bytes; `stdin.close()`
(`mcp_orchestrator.py:911`) flushes them, raises again, and `close()` leaves for
its handler before `terminate()`. A child that runs on gets no signal. The
transcript says `shutdown_unreaped`, which is true, so `UnreapedAfterRequest` holds.

Met while modelling, without a run of their own:

- `start()` drops what `close()` returns (`mcp_orchestrator.py:625`): when the
  deadline passes inside `start()` and the child cannot be killed, the transcript
  says `shutdown_complete`, while `docs/MCP_ORCHESTRATION.md:18-19` promises
  `shutdown_unreaped`. `UnreapedAfterRequest` is stated for runs that got to a
  request.
- `http.client` errors of a peer that does not speak HTTP, or that cuts a
  chunked body short, are caught with the connection errors and retried as
  `dns_or_connection_failure` (`openai_compatible.py:631`, `transport.py:138`),
  although the request went out; by
  `docs/adr/0014-external-agent-contract.md:142-145` a "malformed response" is
  "never retried". `OnlyTransientRetried` leaves these two causes out.
- The provider's parser rejects array and object values that are in a frozen
  enum, since a list is not a tuple (`contracts.py:919`); the orchestrator accepts
  them. This errs on the safe side (`RefusedOnlyForSize`).
- A proposal id longer than 64 characters that is rejected, repeated or skipped
  turns the outcome into "failed", because the transcript refuses its event.
- An array or object may match an enum with `1` where the enum has `true`, because
  Python compares what is inside a container by value (`contracts.py:920`); only
  the type of the whole is compared. `IsValue`, the reference, says the same.
- The client's stdin is a blocking pipe (only stdout and stderr are made
  nonblocking, `mcp_orchestrator.py:618-619`). When it is full and the child
  neither reads nor closes it, the write at 707-708 (or 824-828, of the
  notification) does not return: `run()` outlasts deadline and cancellation,
  although by `docs/MCP_ORCHESTRATION.md:7-9` an absolute deadline "supplies the
  remaining budget to" calls, cancellation and shutdown. A request may have up
  to 128 KiB (`mcp_request_bytes`), more than a pipe usually holds, and a child
  may answer without reading, since ids are counted from 1. `RunReturns` is
  therefore conditional; TLC violates it at once without the condition.
- `docs/MCP_ORCHESTRATION.md:32-33` says that "no proposal can be authorized
  after expiry". The look at the cancellation (1198), the one at the clock
  (1204) and the authorization (1209) are separate steps, so one call whose
  looks were over may still be authorized after a stop, and written too unless
  the look at the clock before the write (684) finds the deadline passed.
  `StopIsFinal` says what does hold: nothing else is begun, and a call written
  after the stop brings no evidence.
- A provider may keep a turn beyond every deadline. `getresponse()` and `read()`
  (`openai_compatible.py:705, 730`) receive as often as `http.client` likes, each time
  with the whole timeout of the socket: any number of "100 Continue" answers, or of
  trailer lines after the last chunk, never lets the code look at its deadline.
  By `docs/adr/0014-external-agent-contract.md:131-132` adapters must bound the "total
  duration". `TurnReturns` is therefore conditional; TLC violates it at once
  without the condition.
- Arguments that are not ASCII may be accepted by the parser, which bounds their
  UTF-8 text, validated, authorized and recorded as a request, and then be
  refused by `execute()`, which bounds the canonical form with its escapes
  (`mcp_orchestrator.py:882-887`) by the same number. `RefusedOnlyForSize` says
  that nothing but sizes separates the three authorities.
- The rate limit may be exceeded by one call per worker whose reading of the clock
  is older than the window. No document promises more.

## 7. Plan

Done: the scheduler, its contract and the proof that it keeps it; the server and
the transport; the rate limit; the agent's run, transcript, provider turn and
contracts; proofs of all safety properties that the runs check.

Left:

1. `ProcessPolicy`, `FilePolicy`: identity pinning against a changing system.
2. `LogAnalysis`, `JsonPreflight`, `ElfReader`, `RequestKey`: pure algorithms
   checked against reference definitions over bounded inputs.
3. `Startup`: configuration, its checks and their order.
4. Proofs of the properties of the modules above, once they exist.
