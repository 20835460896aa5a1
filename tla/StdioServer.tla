----------------------------- MODULE StdioServer -----------------------------
(***************************************************************************)
(* The protocol server of src/server.cpp over the descriptors of           *)
(* src/stdio_transport.cpp: one reader (run_stdio), completion callbacks   *)
(* on the scheduler's workers, one serialized writer for both, and one     *)
(* failure flag shared by stdin, stdout and stderr.                        *)
(*                                                                         *)
(* The scheduler is used by its contract, CallLedger: submit() is Admitted *)
(* or Refused, cancel() is Doomed, request_stop() is Stopped, finish() is  *)
(* Resolved; shutdown() is Closed, and returns when nothing is unfinished  *)
(* and no callback runs.  ToolScheduler is what shows that contract kept.  *)
(*                                                                         *)
(* Operators whose comment begins with "Fault" are plausible mistakes, as  *)
(* in ToolScheduler.                                                       *)
(***************************************************************************)
EXTENDS Naturals, Sequences, FiniteSets

CONSTANTS
    MaxLines,     \* bound: how many lines the client sends
    Keys, KeyOf,  \* request ids, and the one of every line
    MaxPending,   \* budget.max_pending_requests
    MaxWorkers,   \* budget.worker_threads
    Outcomes      \* what serialize_bounded() may make of a response

Lines == 1..MaxLines

ASSUME ServerAssumption ==
    /\ MaxLines \in Nat \ {0}
    /\ KeyOf \in [Lines -> Keys]
    /\ MaxPending \in Nat \ {0} /\ MaxWorkers \in Nat \ {0}
    /\ "own" \in Outcomes
    /\ Outcomes \subseteq {"own", "too_large", "uncorrelated", "none"}

VARIABLES
    session,          \* Server::state_
    open, ledger,     \* the scheduler, as CallLedger sees it
    reader,           \* where run_stdio() is
    line,             \* number of the line it is at; 0 before the first
    final,            \* that line ended at EOF, not at a newline
    callback,         \* where the completion of a call is
    writer, message,  \* where a thread is in write(), and what it writes
    lock,             \* holders of the writer's mutex
    writerFailed,     \* SerializedProtocolWriter::failed_
    diagnosticsBad,   \* the badbit of the diagnostics stream
    transportFailed,  \* `failed` of run_native_stdio()
    owed,             \* lines a response is due for
    out,              \* what went to stdout
    exit              \* exit status, or "none"

callVars == <<open, ledger>>
inputVars == <<reader, line, final>>
writeVars == <<writer, message, lock, writerFailed, diagnosticsBad, out>>
vars == <<session, callVars, inputVars, callback, writeVars, transportFailed,
          owed, exit>>

Scheduler == INSTANCE CallLedger WITH Calls <- Lines

\* The reader is one thread; a completion is named after its call.
Reader == 0
Threads == {Reader} \cup Lines
-----------------------------------------------------------------------------
\* accept_line(): what the server makes of one line.

Methods == {"ping", "initialize", "notifications/initialized", "tools/list",
            "tools/call", "notifications/cancelled", "other"}

\* What a line can be: garbage (too long, no JSON object, a bad id), an object
\* with a bad envelope (valid: its method is a string all the same), or a
\* message whose parameters the handler accepts (valid) or not.
Inputs ==
    [form : {"garbage"}, method : {"other"}, hasId : {TRUE}, valid : {FALSE}]
    \cup [form : {"bad_envelope"}, method : {"other"}, hasId : BOOLEAN,
          valid : BOOLEAN]
    \cup [form : {"message"}, method : Methods, hasId : BOOLEAN,
          valid : BOOLEAN]

\* HandlerResult: a response, a diagnostic or neither, and the next state.
Answer(kind) == [kind |-> kind, noted |-> FALSE, next |-> session]
Diagnostic == [kind |-> "none", noted |-> TRUE, next |-> session]

handle_initialize(in) ==
    IF session = "uninitialized" /\ in.valid
    THEN [Answer("welcome") EXCEPT !.next = "awaiting"]
    ELSE Answer("error")

handle_tools_list(in) ==
    IF session = "ready" /\ in.valid THEN Answer("result") ELSE Answer("error")

handle_initialized(in) ==
    IF in.valid /\ session = "awaiting"
    THEN [kind |-> "none", noted |-> FALSE, next |-> "ready"]
    ELSE Diagnostic

\* "notifications/..." methods must not have an id, all others must.
dispatch(in) ==
    CASE in.method = "notifications/initialized" ->
            IF in.hasId THEN Answer("error") ELSE handle_initialized(in)
      [] in.method = "notifications/cancelled" ->
            IF in.hasId THEN Answer("error") ELSE Diagnostic
      [] in.method = "ping" /\ in.hasId ->
            Answer(IF in.valid THEN "result" ELSE "error")
      [] in.method = "initialize" /\ in.hasId -> handle_initialize(in)
      [] in.method = "tools/list" /\ in.hasId -> handle_tools_list(in)
      [] in.method \in {"tools/call", "other"} /\ in.hasId -> Answer("error")
      [] OTHER -> Diagnostic

\* prepare_tools_call(): known tool, acceptable parameters, ready session.
IsToolCall(in) ==
    /\ in.form = "message" /\ in.method = "tools/call"
    /\ in.hasId /\ in.valid /\ session = "ready"

IsCancellation(in) ==
    /\ in.form = "message" /\ in.method = "notifications/cancelled"
    /\ ~in.hasId /\ in.valid

\* What accept_line() answers itself.
Immediate(in) ==
    CASE in.form = "message" -> dispatch(in)
      [] in.form = "garbage" -> Answer("error")
      [] in.form = "bad_envelope" ->
            IF ~in.hasId /\ in.valid THEN Diagnostic ELSE Answer("error")

\* serialize_bounded(): a response that does not fit is replaced, with a
\* diagnostic, and then the session does not advance.
Serialized(n, kind, outcome) ==
    [line |-> n, kind |-> IF outcome = "own" THEN kind ELSE outcome,
     noted |-> outcome # "own"]

\* Fault: the session advances although the client is told of a failure.
NextSessionAlways(a, outcome) == a.next

NextSession(a, outcome) == IF outcome = "own" THEN a.next ELSE session

NoMessage == [line |-> 0, kind |-> "none", noted |-> FALSE]
-----------------------------------------------------------------------------
Init ==
    /\ session = "uninitialized"
    /\ Scheduler!LedgerInit
    /\ reader = "reading" /\ line = 0 /\ final = FALSE
    /\ callback = [c \in Lines |-> "none"]
    /\ writer = [p \in Threads |-> "idle"]
    /\ message = [p \in Threads |-> NoMessage]
    /\ lock = {}
    /\ writerFailed = FALSE /\ diagnosticsBad = FALSE
    /\ transportFailed = FALSE
    /\ owed = {}
    /\ out = <<>>
    /\ exit = "running"
-----------------------------------------------------------------------------
\* SerializedProtocolWriter::write() over DescriptorBuffer::xsputn().  The
\* mutex is held for a whole message; a message may reach stdout in two parts.

StartWrite(p, m) ==
    /\ message' = [message EXCEPT ![p] = m]
    /\ writer' = [writer EXCEPT ![p] = "entering"]
    /\ UNCHANGED <<lock, writerFailed, diagnosticsBad, out>>

LeavesWrite(p) ==
    /\ message' = [message EXCEPT ![p] = NoMessage]
    /\ writer' = [writer EXCEPT ![p] = "idle"]
    /\ UNCHANGED <<lock, writerFailed, diagnosticsBad, out>>

WriterGoes(p, pc) ==
    /\ writer' = [writer EXCEPT ![p] = pc]
    /\ UNCHANGED <<session, callVars, inputVars, callback, message, owed, exit>>

\* Fault: the writers do not exclude each other.
LockIgnored == TRUE

LockFree == lock = {}

WriteRefused(p) ==
    /\ writer[p] = "entering" /\ LockFree /\ writerFailed
    /\ WriterGoes(p, "false")
    /\ UNCHANGED <<lock, writerFailed, diagnosticsBad, out, transportFailed>>

WriteEnters(p) ==
    /\ writer[p] = "entering" /\ LockFree /\ ~writerFailed
    /\ lock' = {p}
    /\ WriterGoes(p, IF message[p].noted THEN "noting" ELSE "answering")
    /\ UNCHANGED <<writerFailed, diagnosticsBad, out, transportFailed>>

\* The diagnostic line: written, or stderr fails, or the connection already did.
WriteNotes(p) ==
    /\ writer[p] = "noting"
    /\ WriterGoes(p, "answering")
    /\ \/ ~transportFailed /\ UNCHANGED <<diagnosticsBad, transportFailed>>
       \/ diagnosticsBad' = TRUE /\ transportFailed' = TRUE
    /\ UNCHANGED <<lock, writerFailed, out>>

WriteNothing(p) ==
    /\ writer[p] = "answering" /\ message[p].kind = "none"
    /\ WriterGoes(p, "checking")
    /\ UNCHANGED <<lock, writerFailed, diagnosticsBad, out, transportFailed>>

\* xsputn() goes on only while no descriptor has failed.
MayWrite == ~transportFailed

WriteBegins(p) ==
    /\ writer[p] = "answering" /\ message[p].kind # "none" /\ MayWrite
    /\ out' = Append(out, [line |-> message[p].line, kind |-> message[p].kind,
                           whole |-> FALSE])
    /\ WriterGoes(p, "resuming")
    /\ UNCHANGED <<lock, writerFailed, diagnosticsBad, transportFailed>>

\* A partial write resumes from the remaining bytes.
WriteEnds(p) ==
    /\ writer[p] = "resuming" /\ MayWrite
    /\ out' = [out EXCEPT ![Len(out)].whole = TRUE]
    /\ WriterGoes(p, "checking")
    /\ UNCHANGED <<lock, writerFailed, diagnosticsBad, transportFailed>>

\* Deadline, closed pipe, I/O error, or the connection failed meanwhile.
WriteBreaks(p) ==
    /\ \/ writer[p] = "resuming"
       \/ writer[p] = "answering" /\ message[p].kind # "none"
    /\ transportFailed' = TRUE
    /\ WriterGoes(p, "checking")
    /\ UNCHANGED <<lock, writerFailed, diagnosticsBad, out>>

\* flush() reports the shared flag; the diagnostics stream its own state.
WriteBad(p) ==
    diagnosticsBad \/ (message[p].kind # "none" /\ transportFailed)

WriteReturns(p) ==
    /\ writer[p] = "checking"
    /\ lock' = {}
    /\ writerFailed' = WriteBad(p)
    /\ WriterGoes(p, IF WriteBad(p) THEN "false" ELSE "true")
    /\ UNCHANGED <<diagnosticsBad, out, transportFailed>>

Write(p) ==
    \/ WriteRefused(p) \/ WriteEnters(p) \/ WriteNotes(p) \/ WriteNothing(p)
    \/ WriteBegins(p) \/ WriteEnds(p) \/ WriteBreaks(p) \/ WriteReturns(p)
-----------------------------------------------------------------------------
\* run_stdio(): the reader.

\* A line was read, ended by a newline or by EOF, before the connection failed.
Reads(in) ==
    /\ reader = "reading" /\ ~transportFailed /\ line < MaxLines
    /\ line' = line + 1
    /\ final' \in BOOLEAN
    /\ owed' = IF in.hasId THEN owed \cup {line + 1} ELSE owed

\* accept_line() has the answer: a response, a diagnostic, a step of the session.
ReadImmediate(in) ==
    /\ ~IsToolCall(in) /\ ~IsCancellation(in)
    /\ Reads(in)
    /\ LET a == Immediate(in)
       IN  \/ /\ a.kind = "none"
              /\ session' = a.next
              /\ StartWrite(Reader, [line |-> line + 1, kind |-> "none",
                                       noted |-> a.noted])
           \/ \E outcome \in Outcomes :
                 /\ a.kind # "none"
                 /\ session' = NextSession(a, outcome)
                 /\ StartWrite(Reader,
                               Serialized(line + 1, a.kind, outcome))
    /\ reader' = "writing"
    /\ UNCHANGED <<callVars, callback, transportFailed, exit>>

\* The calls that scheduler->cancel() finds under key k.
InFlightUnder(k) == {c \in Scheduler!Unfinished : KeyOf[c] = k}

\* cancel() ignores a key that is not in flight; a second cancel() is the first.
ReadCancellation(in, k) ==
    /\ IsCancellation(in)
    /\ Reads(in)
    /\ \/ \E c \in InFlightUnder(k) : Scheduler!Doomed(c)
       \/ /\ \A c \in InFlightUnder(k) : ledger[c] = "doomed"
          /\ UNCHANGED callVars
    /\ reader' = "accepted"
    /\ UNCHANGED <<session, callback, writeVars, transportFailed, exit>>

ReadToolCall(in) ==
    /\ IsToolCall(in)
    /\ Reads(in)
    /\ reader' = "submitting"
    /\ UNCHANGED <<session, callVars, callback, writeVars, transportFailed,
                   exit>>

ReaderGoes(pc) == reader' = pc /\ UNCHANGED <<session, line, final, callback,
                                              transportFailed, owed, exit>>

SubmitAdmitted ==
    /\ reader = "submitting"
    /\ Scheduler!Admitted(line)
    /\ ReaderGoes("admitted")
    /\ UNCHANGED writeVars

\* server_busy, duplicate_request_id or server_stopping.
SubmitRefused(outcome) ==
    /\ \/ reader = "submitting" /\ Scheduler!Refused(line)
       \/ reader = "admitted" /\ Scheduler!Abandoned(line)
    /\ StartWrite(Reader, Serialized(line, "tool", outcome))
    /\ ReaderGoes("writing")

SubmitAccepted ==
    /\ reader = "admitted"
    /\ ReaderGoes("accepted")
    /\ UNCHANGED <<callVars, writeVars>>

\* Fault: the last line is taken for one that others follow.
NextLine == "reading"

\* Where the loop goes after a line.
AfterLine == IF final THEN "closing" ELSE "reading"

\* Nothing was to be written, but a callback may have failed to write.
AcceptedLine ==
    /\ reader = "accepted"
    /\ ReaderGoes(IF writerFailed THEN "stopping" ELSE AfterLine)
    /\ UNCHANGED <<callVars, writeVars>>

WrittenLine ==
    /\ reader = "writing" /\ writer[Reader] \in {"true", "false"}
    /\ ReaderGoes(IF writer[Reader] = "true" THEN AfterLine ELSE "stopping")
    /\ LeavesWrite(Reader)
    /\ UNCHANGED callVars

\* EOF with nothing left in the line buffer.
ReadEof ==
    /\ reader = "reading" /\ ~transportFailed
    /\ ReaderGoes("closing")
    /\ UNCHANGED <<callVars, writeVars>>

ReadFails ==
    /\ reader = "reading"
    /\ transportFailed' = TRUE
    /\ reader' = "stopping"
    /\ UNCHANGED <<session, callVars, line, final, callback, writeVars, owed,
                   exit>>

\* Fault: the reader waits for input only.
NoPoll == FALSE

\* underflow() polls the flag every 50 ms, the loop reads it at every character.
Poll == transportFailed

ReadSeesFailure ==
    /\ reader = "reading" /\ Poll
    /\ ReaderGoes("stopping")
    /\ UNCHANGED <<callVars, writeVars>>

\* The error paths: request_stop(), then shutdown().
ReaderStops ==
    /\ reader = "stopping"
    /\ Scheduler!Stopped
    /\ ReaderGoes("failing")
    /\ UNCHANGED writeVars

ReaderCloses ==
    /\ reader = "closing"
    /\ Scheduler!Closed
    /\ ReaderGoes("draining")
    /\ UNCHANGED writeVars

\* Fault: shutdown() does not wait for the callbacks.
NothingInFlight == Scheduler!Unfinished = {}

\* What shutdown() waits for: in_flight is empty and the workers are joined.
Joined ==
    /\ Scheduler!Unfinished = {}
    /\ \A c \in Lines : callback[c] \in {"none", "done", "threw"}

\* Fault: the status is what the reader itself saw.
ReaderStatus(pc) == IF pc = "failing" THEN "74" ELSE "0"

\* run_stdio() looks at the writer again, run_native_stdio() at the transport.
Status(pc) ==
    IF pc = "failing" \/ writerFailed \/ transportFailed THEN "74" ELSE "0"

ReaderExits ==
    /\ reader \in {"failing", "draining"}
    /\ Joined
    /\ exit' = Status(reader)
    /\ reader' = "exited"
    /\ UNCHANGED <<session, callVars, line, final, callback, writeVars,
                   transportFailed, owed>>
-----------------------------------------------------------------------------
\* The workers: finish(), and the completion callback of run_stdio().

Busy == {c \in Lines : callback[c] \in {"formatting", "writing", "stopping"}}

\* A call that submit() has not enqueued yet is with the reader.
Enqueued(c) == ~(reader = "admitted" /\ line = c)

\* Fault: a cancelled call is answered too.
AnswerAlways(c) == TRUE

AnswerDue(c) == ledger[c] = "pending"

FinishCall(c) ==
    /\ Enqueued(c) /\ Cardinality(Busy) < MaxWorkers
    /\ Scheduler!Resolved(c)
    /\ callback' = [callback EXCEPT ![c] =
                       IF AnswerDue(c) THEN "formatting" ELSE @]
    /\ UNCHANGED <<session, inputVars, writeVars, transportFailed, owed, exit>>

CallbackGoes(c, pc) ==
    /\ callback' = [callback EXCEPT ![c] = pc]
    /\ UNCHANGED <<session, inputVars, transportFailed, owed, exit>>

CallbackWrites(c, outcome) ==
    /\ callback[c] = "formatting"
    /\ StartWrite(c, Serialized(c, "tool", outcome))
    /\ CallbackGoes(c, "writing")
    /\ UNCHANGED callVars

\* dump() throws on bytes that are not UTF-8, such as a process name may hold;
\* finish() swallows the exception.
CallbackThrows(c) ==
    /\ callback[c] = "formatting"
    /\ CallbackGoes(c, "threw")
    /\ UNCHANGED <<callVars, writeVars>>

CallbackWritten(c) ==
    /\ callback[c] = "writing" /\ writer[c] \in {"true", "false"}
    /\ CallbackGoes(c, IF writer[c] = "true" THEN "done" ELSE "stopping")
    /\ LeavesWrite(c)
    /\ UNCHANGED callVars

CallbackStops(c) ==
    /\ callback[c] = "stopping"
    /\ Scheduler!Stopped
    /\ CallbackGoes(c, "done")
    /\ UNCHANGED writeVars
-----------------------------------------------------------------------------
\* What the client and the descriptors decide.
ReadStep ==
    \/ \E in \in Inputs : ReadImmediate(in) \/ ReadToolCall(in)
    \/ \E in \in Inputs, k \in Keys : ReadCancellation(in, k)
    \/ ReadEof
    \/ ReadFails

ReaderStep ==
    \/ Write(Reader)
    \/ SubmitAdmitted
    \/ \E outcome \in Outcomes : SubmitRefused(outcome)
    \/ SubmitAccepted
    \/ AcceptedLine
    \/ WrittenLine
    \/ ReadSeesFailure
    \/ ReaderStops
    \/ ReaderCloses
    \/ ReaderExits

WorkerStep(c) ==
    \/ Write(c)
    \/ FinishCall(c)
    \/ \E outcome \in Outcomes : CallbackWrites(c, outcome)
    \/ CallbackThrows(c)
    \/ CallbackWritten(c)
    \/ CallbackStops(c)

Exited == reader = "exited" /\ UNCHANGED vars

Next == ReadStep \/ ReaderStep \/ (\E c \in Lines : WorkerStep(c)) \/ Exited

Spec == Init /\ [][Next]_vars

\* Threads that can run do run, and every write ends within its deadline.
\* The client owes no line and no EOF.
Fairness == WF_vars(ReaderStep) /\ \A c \in Lines : WF_vars(WorkerStep(c))

FairSpec == Spec /\ Fairness
=============================================================================
