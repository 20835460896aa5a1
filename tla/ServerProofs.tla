----------------------------- MODULE ServerProofs -----------------------------
(***************************************************************************)
(* Proofs about StdioServer, for any number of lines and workers, any      *)
(* budget and any limit on responses: ServerInv is an inductive invariant, *)
(* and the safety properties of ServerProperties follow from it.           *)
(***************************************************************************)
EXTENDS ServerProperties, TLAPS

\* The reader is none of the calls.
LEMMA ThreadsAre ==
    /\ Reader \in Threads /\ Reader \notin Lines
    /\ Lines \subseteq Threads /\ Lines \subseteq Nat
    /\ \A p \in Threads : p # Reader => p \in Lines
BY ServerAssumption DEF Reader, Threads, Lines

\* What accept_line() may make of a line: nothing to say, or a response; the
\* session advances with a welcome, or when the client was welcomed.
LEMMA ImmediateIs ==
    ASSUME NEW in \in Inputs
    PROVE  LET a == Immediate(in) IN
           /\ a.kind \in {"none", "welcome", "result", "error"}
           /\ a.noted \in BOOLEAN
           /\ \/ a.next = session
              \/ a.kind = "welcome" /\ session = "uninitialized" /\ a.next = "awaiting"
              \/ a.kind = "none" /\ session = "awaiting" /\ a.next = "ready"
           /\ in.hasId => a.kind # "none"
<1>1. in.form \in {"garbage", "bad_envelope", "message"} /\ in.hasId \in BOOLEAN
      /\ in.valid \in BOOLEAN /\ in.method \in Methods
      /\ (in.form = "garbage" => in.hasId)
  BY DEF Inputs, Methods
<1> DEFINE Fine(a) == /\ a.kind \in {"none", "welcome", "result", "error"}
                      /\ a.noted \in BOOLEAN
                      /\ \/ a.next = session
                         \/ a.kind = "welcome" /\ session = "uninitialized" /\ a.next = "awaiting"
                         \/ a.kind = "none" /\ session = "awaiting" /\ a.next = "ready"
                      /\ in.hasId => a.kind # "none"
<1>2. Fine(Answer("error")) /\ Fine(Answer("result"))
  BY DEF Answer
<1>3. ~in.hasId => Fine(Diagnostic)
  BY DEF Diagnostic
<1>4. Fine(handle_initialize(in)) /\ Fine(handle_tools_list(in))
  BY <1>2 DEF handle_initialize, handle_tools_list, Answer
<1>5. ~in.hasId => Fine(handle_initialized(in))
  BY <1>3 DEF handle_initialized
<1>6. Fine(dispatch(in))
  <2> HIDE DEF Fine
  <2> QED BY <1>1, <1>2, <1>3, <1>4, <1>5 DEF dispatch, Methods
<1>7. Fine(Immediate(in))
  <2> HIDE DEF Fine
  <2> QED BY <1>1, <1>2, <1>3, <1>6 DEF Immediate
<1> QED BY <1>7

\* One part of a message is written, and the rest of it.
LEMMA OutGrows ==
    ASSUME ServerTypeOK, NEW p \in Threads, WriteBegins(p), message[p].line \in Lines
    PROVE  /\ out' \in Seq(Responses)
           /\ Len(out') = Len(out) + 1 /\ Len(out) \in Nat
           /\ \A i \in 1..Len(out) : out'[i] = out[i]
           /\ out'[Len(out) + 1] = [line |-> message[p].line,
                                    kind |-> message[p].kind, whole |-> FALSE]
<1> DEFINE r == [line |-> message[p].line, kind |-> message[p].kind, whole |-> FALSE]
<1>1. message[p] \in Messages
  BY DEF ServerTypeOK
<1>2. r \in Responses
  BY <1>1 DEF WriteBegins, Messages, Responses
<1>3. out \in Seq(Responses) /\ out' = Append(out, r)
  BY DEF ServerTypeOK, WriteBegins
<1> HIDE DEF r
<1>4. /\ out' \in Seq(Responses) /\ Len(out') = Len(out) + 1 /\ Len(out) \in Nat
      /\ \A i \in 1..Len(out) : out'[i] = out[i]
      /\ out'[Len(out) + 1] = r
  BY <1>2, <1>3
<1> QED BY <1>4 DEF r

\* Replacing the last element of a sequence.
LEMMA LastReplaced ==
    ASSUME NEW R, NEW s \in Seq(R), Len(s) > 0, NEW r \in R
    PROVE  LET t == [s EXCEPT ![Len(s)] = r] IN
           /\ t \in Seq(R) /\ Len(t) = Len(s) /\ Len(s) \in Nat
           /\ s[Len(s)] \in R /\ t[Len(s)] = r
           /\ \A i \in 1..Len(s) : i # Len(s) => t[i] = s[i]
OBVIOUS

LEMMA OutEnds ==
    ASSUME ServerTypeOK, NEW p \in Threads, WriteEnds(p), Len(out) > 0
    PROVE  /\ out' \in Seq(Responses)
           /\ Len(out') = Len(out) /\ Len(out) \in Nat
           /\ \A i \in 1..Len(out) : /\ i # Len(out) => out'[i] = out[i]
                                     /\ out'[i].line = out[i].line
                                     /\ out'[i].kind = out[i].kind
           /\ out'[Len(out)].whole
<1> DEFINE r == [out[Len(out)] EXCEPT !.whole = TRUE]
<1>1. out \in Seq(Responses)
  BY DEF ServerTypeOK
<1>2. out[Len(out)] \in Responses
  BY <1>1
<1>3. /\ r \in Responses /\ r.line = out[Len(out)].line
      /\ r.kind = out[Len(out)].kind /\ r.whole
  BY <1>2 DEF Responses
<1>4. out' = [out EXCEPT ![Len(out)] = r]
  BY DEF WriteEnds
<1> HIDE DEF r
<1>5. /\ out' \in Seq(Responses) /\ Len(out') = Len(out) /\ Len(out) \in Nat
      /\ out'[Len(out)] = r
      /\ \A i \in 1..Len(out) : i # Len(out) => out'[i] = out[i]
  BY <1>1, <1>3, <1>4, LastReplaced
<1> QED BY <1>3, <1>5

\* Every step of write() leaves the rest of the server alone.
LEMMA WriteFrame ==
    ASSUME NEW p \in Threads, Write(p)
    PROVE  UNCHANGED <<session, open, ledger, reader, line, final, callback,
                       message, owed, exit>>
BY DEF Write, WriteRefused, WriteEnters, WriteNotes, WriteNothing, WriteBegins,
       WriteEnds, WriteBreaks, WriteReturns, WriterGoes, callVars, inputVars

\* What is written is the response to a line.
LEMMA WritingALine ==
    ASSUME ServerInv, NEW p \in Threads, writer[p] # "idle"
    PROVE  message[p].line \in Lines
<1>1. CASE p = Reader
  BY <1>1 DEF ServerInv, Turns, Standing, ServerTypeOK, Lines
<1>2. CASE p \in Lines
  BY <1>2 DEF ServerInv, Turns
<1> QED BY <1>1, <1>2, ThreadsAre

LEMMA MessagesAre ==
    ASSUME NEW n \in 0..MaxLines, NEW k \in {"welcome", "result", "error", "tool"},
           NEW o \in Outcomes, NEW b \in BOOLEAN
    PROVE  /\ Serialized(n, k, o) \in Messages /\ NoMessage \in Messages
           /\ [line |-> n, kind |-> "none", noted |-> b] \in Messages
           /\ Serialized(n, k, o).line = n
           /\ Serialized(n, k, o).kind \in {k, o}
           /\ Serialized(n, k, o).kind = "welcome" => o = "own"
BY ServerAssumption DEF Messages, Serialized, NoMessage, Kinds

LEMMA TypeStep ==
    ASSUME ServerInv, [Next]_vars
    PROVE  ServerTypeOK'
<1> USE ServerAssumption, ThreadsAre DEF ServerTypeOK, Holding
<1>0. ServerTypeOK BY DEF ServerInv
<1> USE <1>0
<1>1. ASSUME NEW p \in Threads, Write(p) PROVE ServerTypeOK'
  <2>1. UNCHANGED <<session, open, ledger, reader, line, final, callback,
                    message, owed, exit>>
    BY <1>1, WriteFrame
  <2>2. writer' \in [Threads -> Holding \cup {"idle", "entering", "true", "false"}]
    BY <1>1 DEF Write, WriteRefused, WriteEnters, WriteNotes, WriteNothing,
                WriteBegins, WriteEnds, WriteBreaks, WriteReturns, WriterGoes
  <2>3. lock' \subseteq Threads
    BY <1>1 DEF Write, WriteRefused, WriteEnters, WriteNotes, WriteNothing,
                WriteBegins, WriteEnds, WriteBreaks, WriteReturns
  <2>4. {writerFailed', diagnosticsBad', transportFailed'} \subseteq BOOLEAN
    BY <1>1 DEF Write, WriteRefused, WriteEnters, WriteNotes, WriteNothing,
                WriteBegins, WriteEnds, WriteBreaks, WriteReturns, WriteBad
  <2>5. out' \in Seq(Responses)
    <3>1. CASE WriteBegins(p)
      BY <3>1, OutGrows, WritingALine DEF WriteBegins
    <3>2. CASE WriteEnds(p)
      BY <3>2, OutEnds DEF WriteEnds, ServerInv, Ends
    <3>3. CASE UNCHANGED out
      BY <3>3
    <3> QED BY <1>1, <3>1, <3>2, <3>3
        DEF Write, WriteRefused, WriteEnters, WriteNotes, WriteNothing,
            WriteBreaks, WriteReturns
  <2> QED BY <2>1, <2>2, <2>3, <2>4, <2>5
<1>2. ASSUME NEW in \in Inputs, ReadImmediate(in) PROVE ServerTypeOK'
  <2>1. UNCHANGED <<open, ledger, callback, transportFailed, exit, lock,
                    writerFailed, diagnosticsBad, out>>
    BY <1>2 DEF ReadImmediate, StartWrite, callVars
  <2>2. line' \in 0..MaxLines /\ final' \in BOOLEAN /\ owed' \subseteq Lines
    BY <1>2 DEF ReadImmediate, Reads, Lines
  <2>3. session' \in {"uninitialized", "awaiting", "ready"}
    BY <1>2, ImmediateIs DEF ReadImmediate, NextSession
  <2>4. \E m \in Messages : StartWrite(Reader, m)
    BY <1>2, <2>2, ImmediateIs, MessagesAre DEF ReadImmediate, Reads
  <2>5. /\ message' \in [Threads -> Messages]
        /\ writer' \in [Threads -> Holding \cup {"idle", "entering", "true", "false"}]
    BY <2>4 DEF StartWrite
  <2> QED BY <1>2, <2>1, <2>2, <2>3, <2>5 DEF ReadImmediate
<1>3. ASSUME NEW in \in Inputs, ReadToolCall(in) PROVE ServerTypeOK'
  BY <1>3 DEF ReadToolCall, Reads, Lines, callVars, writeVars
<1>4. ASSUME NEW in \in Inputs, NEW k \in Keys, ReadCancellation(in, k)
      PROVE  ServerTypeOK'
  <2>1. open' = open /\ ledger' \in [Lines -> Scheduler!Standings]
    BY <1>4 DEF ReadCancellation, InFlightUnder, Scheduler!Unfinished,
                Scheduler!Doomed, Scheduler!Move, Scheduler!Standings, callVars
  <2> QED BY <1>4, <2>1 DEF ReadCancellation, Reads, Lines, writeVars
<1>5. CASE ReadEof \/ SubmitAccepted \/ AcceptedLine \/ ReadSeesFailure
  BY <1>5 DEF ReadEof, SubmitAccepted, AcceptedLine, ReadSeesFailure, AfterLine,
              ReaderGoes, callVars, writeVars
<1>6. CASE ReadFails
  BY <1>6 DEF ReadFails, callVars, writeVars
<1>7. CASE SubmitAdmitted
  BY <1>7 DEF SubmitAdmitted, ReaderGoes, Scheduler!Admitted, Scheduler!Move,
              Scheduler!Standings, writeVars
<1>8. ASSUME NEW o \in Outcomes, SubmitRefused(o) PROVE ServerTypeOK'
  <2>1. open' = open /\ ledger' \in [Lines -> Scheduler!Standings]
    BY <1>8 DEF SubmitRefused, Scheduler!Refused, Scheduler!Abandoned,
                Scheduler!Move, Scheduler!Standings
  <2>2. /\ message' \in [Threads -> Messages]
        /\ writer' \in [Threads -> Holding \cup {"idle", "entering", "true", "false"}]
        /\ UNCHANGED <<lock, writerFailed, diagnosticsBad, out>>
    BY <1>8, MessagesAre DEF SubmitRefused, StartWrite
  <2> QED BY <1>8, <2>1, <2>2 DEF SubmitRefused, ReaderGoes
<1>9. CASE WrittenLine
  <2>1. /\ message' \in [Threads -> Messages]
        /\ writer' \in [Threads -> Holding \cup {"idle", "entering", "true", "false"}]
        /\ UNCHANGED <<lock, writerFailed, diagnosticsBad, out>>
    BY <1>9, MessagesAre DEF WrittenLine, LeavesWrite
  <2> QED BY <1>9, <2>1 DEF WrittenLine, ReaderGoes, AfterLine, callVars
<1>10. CASE ReaderStops \/ ReaderCloses
  BY <1>10 DEF ReaderStops, ReaderCloses, ReaderGoes, Scheduler!Stopped,
               Scheduler!Closed, Scheduler!Standings, writeVars
<1>11. CASE ReaderExits
  BY <1>11 DEF ReaderExits, Status, callVars, writeVars
<1>12. ASSUME NEW c \in Lines, FinishCall(c) PROVE ServerTypeOK'
  BY <1>12 DEF FinishCall, Scheduler!Resolved, Scheduler!Move,
               Scheduler!Standings, inputVars, writeVars
<1>13. ASSUME NEW c \in Lines, NEW o \in Outcomes, CallbackWrites(c, o)
       PROVE  ServerTypeOK'
  <2>0. c \in 0..MaxLines
    BY DEF Lines
  <2>1. /\ message' \in [Threads -> Messages]
        /\ writer' \in [Threads -> Holding \cup {"idle", "entering", "true", "false"}]
        /\ UNCHANGED <<lock, writerFailed, diagnosticsBad, out>>
    BY <1>13, <2>0, MessagesAre DEF CallbackWrites, StartWrite
  <2> QED BY <1>13, <2>1 DEF CallbackWrites, CallbackGoes, callVars, inputVars
<1>14. ASSUME NEW c \in Lines, CallbackWritten(c) PROVE ServerTypeOK'
  <2>1. /\ message' \in [Threads -> Messages]
        /\ writer' \in [Threads -> Holding \cup {"idle", "entering", "true", "false"}]
        /\ UNCHANGED <<lock, writerFailed, diagnosticsBad, out>>
    BY <1>14, MessagesAre DEF CallbackWritten, LeavesWrite
  <2> QED BY <1>14, <2>1 DEF CallbackWritten, CallbackGoes, callVars, inputVars
<1>15. ASSUME NEW c \in Lines, CallbackThrows(c) PROVE ServerTypeOK'
  BY <1>15 DEF CallbackThrows, CallbackGoes, callVars, inputVars, writeVars
<1>16. ASSUME NEW c \in Lines, CallbackStops(c) PROVE ServerTypeOK'
  BY <1>16 DEF CallbackStops, CallbackGoes, Scheduler!Stopped,
               Scheduler!Standings, inputVars, writeVars
<1>17. CASE UNCHANGED vars
  BY <1>17 DEF vars, callVars, inputVars, writeVars
<1> QED
  BY <1>1, <1>2, <1>3, <1>4, <1>5, <1>6, <1>7, <1>8, <1>9, <1>10, <1>11, <1>12,
     <1>13, <1>14, <1>15, <1>16, <1>17
  DEF Next, ReadStep, ReaderStep, WorkerStep, Exited

\* Steps that nobody takes in write() and that nobody enters or leaves it with.
LEMMA TurnsKept ==
    ASSUME Turns, UNCHANGED <<writer, message, lock>>,
           \/ reader' = reader /\ line' = line
           \/ reader # "writing" /\ reader' # "writing",
           \A c \in Lines : callback'[c] = "writing" <=> callback[c] = "writing"
    PROVE  Turns'
BY DEF Turns

\* A thread enters write() with a message, and leaves it.
LEMMA Starts ==
    ASSUME ServerTypeOK, NEW p \in Threads, NEW m, StartWrite(p, m)
    PROVE  /\ writer'[p] = "entering" /\ message'[p] = m
           /\ \A q \in Threads : q # p => writer'[q] = writer[q] /\ message'[q] = message[q]
           /\ UNCHANGED <<lock, writerFailed, diagnosticsBad, out>>
BY DEF StartWrite, ServerTypeOK

LEMMA Leaves ==
    ASSUME ServerTypeOK, NEW p \in Threads, LeavesWrite(p)
    PROVE  /\ writer'[p] = "idle"
           /\ \A q \in Threads : q # p => writer'[q] = writer[q] /\ message'[q] = message[q]
           /\ UNCHANGED <<lock, writerFailed, diagnosticsBad, out>>
BY DEF LeavesWrite, ServerTypeOK

\* Turns and Flags: one thread at a time is in write().
LEMMA TurnsStep ==
    ASSUME ServerInv, [Next]_vars
    PROVE  Turns'
<1> USE ThreadsAre
<1>0. ServerTypeOK /\ Turns BY DEF ServerInv
<1> USE <1>0
<1>1. ASSUME NEW p \in Threads, Write(p) PROVE Turns'
  <2>1. UNCHANGED <<reader, line, callback, message>>
    BY <1>1, WriteFrame
  <2>2. /\ writer[p] # "idle" /\ writer'[p] # "idle"
        /\ \A q \in Threads : q # p => writer'[q] = writer[q]
    BY <1>1 DEF Write, WriteRefused, WriteEnters, WriteNotes, WriteNothing,
                WriteBegins, WriteEnds, WriteBreaks, WriteReturns, WriterGoes,
                ServerTypeOK
  <2>3. /\ \A q \in Threads : q \in lock' <=> writer'[q] \in Holding
        /\ \A q, r \in lock' : q = r
    <3> USE DEF Turns, Holding, ServerTypeOK
    <3>1. CASE WriteRefused(p)
      BY <3>1 DEF WriteRefused, WriterGoes
    <3>2. CASE WriteEnters(p)
      BY <3>2 DEF WriteEnters, WriterGoes, LockFree
    <3>3. CASE WriteReturns(p)
      BY <3>3 DEF WriteReturns, WriterGoes
    <3>4. CASE WriteNotes(p) \/ WriteNothing(p) \/ WriteBegins(p) \/ WriteEnds(p)
               \/ WriteBreaks(p)
      BY <3>4 DEF WriteNotes, WriteNothing, WriteBegins, WriteEnds, WriteBreaks,
                  WriterGoes
    <3> QED BY <1>1, <3>1, <3>2, <3>3, <3>4 DEF Write
  <2> QED BY <2>1, <2>2, <2>3 DEF Turns
<1>2. ASSUME NEW in \in Inputs, ReadImmediate(in) PROVE Turns'
  <2>1. /\ UNCHANGED callback /\ reader = "reading"
        /\ reader' = "writing" /\ line' = line + 1
    BY <1>2 DEF ReadImmediate, Reads
  <2>2. \E m : m.line = line + 1 /\ StartWrite(Reader, m)
    BY <1>2, ImmediateIs DEF ReadImmediate, Serialized
  <2> QED BY <2>1, <2>2, Starts DEF Turns, Holding
<1>3. ASSUME NEW in \in Inputs, ReadToolCall(in) PROVE Turns'
  BY <1>3, TurnsKept DEF ReadToolCall, Reads, writeVars
<1>4. ASSUME NEW in \in Inputs, NEW k \in Keys, ReadCancellation(in, k)
      PROVE  Turns'
  BY <1>4, TurnsKept DEF ReadCancellation, Reads, writeVars
<1>5. CASE ReadEof \/ SubmitAccepted \/ AcceptedLine \/ ReadSeesFailure
  BY <1>5, TurnsKept
  DEF ReadEof, SubmitAccepted, AcceptedLine, ReadSeesFailure, AfterLine,
      ReaderGoes, writeVars
<1>6. CASE ReadFails \/ SubmitAdmitted \/ ReaderStops \/ ReaderCloses \/ ReaderExits
  BY <1>6, TurnsKept
  DEF ReadFails, SubmitAdmitted, ReaderStops, ReaderCloses, ReaderExits,
      ReaderGoes, writeVars
<1>7. ASSUME NEW o \in Outcomes, SubmitRefused(o) PROVE Turns'
  <2>1. /\ UNCHANGED <<callback, line>> /\ reader' = "writing"
        /\ reader \in {"submitting", "admitted"}
    BY <1>7 DEF SubmitRefused, ReaderGoes
  <2>2. \E m : m.line = line /\ StartWrite(Reader, m)
    BY <1>7 DEF SubmitRefused, Serialized
  <2> QED BY <2>1, <2>2, Starts DEF Turns, Holding
<1>8. CASE WrittenLine
  <2>1. /\ UNCHANGED callback /\ reader' # "writing"
        /\ writer[Reader] \in {"true", "false"} /\ LeavesWrite(Reader)
    BY <1>8 DEF WrittenLine, ReaderGoes, AfterLine
  <2> QED BY <2>1, Leaves DEF Turns, Holding
<1>9. ASSUME NEW c \in Lines, FinishCall(c) PROVE Turns'
  <2>1. callback[c] = "none"
    BY <1>9 DEF FinishCall, Scheduler!Resolved, ServerInv, Standing
  <2>2. \A d \in Lines : callback'[d] = "writing" <=> callback[d] = "writing"
    BY <1>9, <2>1 DEF FinishCall, ServerTypeOK
  <2> QED BY <1>9, <2>2, TurnsKept DEF FinishCall, inputVars, writeVars
<1>10. ASSUME NEW c \in Lines, NEW o \in Outcomes, CallbackWrites(c, o)
       PROVE  Turns'
  <2>1. /\ UNCHANGED <<reader, line>> /\ callback[c] = "formatting"
        /\ callback' = [callback EXCEPT ![c] = "writing"]
    BY <1>10 DEF CallbackWrites, CallbackGoes, inputVars
  <2>2. \E m : m.line = c /\ StartWrite(c, m)
    BY <1>10 DEF CallbackWrites, Serialized
  <2>3. \A d \in Lines : callback'[d] = IF d = c THEN "writing" ELSE callback[d]
    BY <2>1 DEF ServerTypeOK
  <2>4. /\ lock' = lock /\ writer'[c] = "entering" /\ message'[c].line = c
        /\ \A q \in Threads : q # c => writer'[q] = writer[q] /\ message'[q] = message[q]
    BY <2>2, Starts
  <2> QED BY <2>1, <2>3, <2>4 DEF Turns, Holding
<1>11. ASSUME NEW c \in Lines, CallbackWritten(c) PROVE Turns'
  <2>1. /\ UNCHANGED <<reader, line>> /\ LeavesWrite(c)
        /\ writer[c] \in {"true", "false"}
        /\ \/ callback' = [callback EXCEPT ![c] = "done"]
           \/ callback' = [callback EXCEPT ![c] = "stopping"]
    BY <1>11 DEF CallbackWritten, CallbackGoes, inputVars
  <2>2. /\ callback'[c] # "writing"
        /\ \A d \in Lines : d # c => callback'[d] = callback[d]
    BY <2>1 DEF ServerTypeOK
  <2>3. /\ lock' = lock /\ writer'[c] = "idle"
        /\ \A q \in Threads : q # c => writer'[q] = writer[q] /\ message'[q] = message[q]
    BY <2>1, Leaves
  <2> QED BY <2>1, <2>2, <2>3 DEF Turns, Holding
<1>12. ASSUME NEW c \in Lines, CallbackThrows(c) \/ CallbackStops(c) PROVE Turns'
  <2>1. \A d \in Lines : callback'[d] = "writing" <=> callback[d] = "writing"
    BY <1>12 DEF CallbackThrows, CallbackStops, CallbackGoes, ServerTypeOK
  <2> QED BY <1>12, <2>1, TurnsKept
      DEF CallbackThrows, CallbackStops, CallbackGoes, inputVars, writeVars
<1>13. CASE UNCHANGED vars
  BY <1>13, TurnsKept DEF vars, inputVars, writeVars
<1> QED
  BY <1>1, <1>2, <1>3, <1>4, <1>5, <1>6, <1>7, <1>8, <1>9, <1>10, <1>11, <1>12,
     <1>13
  DEF Next, ReadStep, ReaderStep, WorkerStep, Exited

LEMMA FlagsStep ==
    ASSUME ServerInv, [Next]_vars
    PROVE  Flags'
<1> USE ThreadsAre DEF Flags
<1>0. ServerTypeOK /\ Turns /\ Flags BY DEF ServerInv
<1> USE <1>0 DEF ServerTypeOK, Turns, Holding
<1>1. ASSUME NEW p \in Threads, Write(p) PROVE Flags'
  <2>1. callback' = callback
    BY <1>1, WriteFrame
  <2>2. CASE WriteRefused(p) \/ WriteEnters(p)
    BY <2>1, <2>2 DEF WriteRefused, WriteEnters, WriterGoes
  <2>5. CASE WriteNotes(p) \/ WriteNothing(p)
    BY <2>1, <2>5 DEF WriteNotes, WriteNothing, WriterGoes
  <2>3. CASE WriteBegins(p) \/ WriteEnds(p) \/ WriteBreaks(p)
    BY <2>1, <2>3 DEF WriteBegins, WriteEnds, WriteBreaks, WriterGoes
  <2>4. CASE WriteReturns(p)
    BY <2>1, <2>4 DEF WriteReturns, WriterGoes, WriteBad
  <2> QED BY <1>1, <2>2, <2>3, <2>4, <2>5 DEF Write
<1>2. ASSUME NEW in \in Inputs, ReadImmediate(in) PROVE Flags'
  <2>1. /\ UNCHANGED <<callback, transportFailed>> /\ \E m : StartWrite(Reader, m)
    BY <1>2 DEF ReadImmediate
  <2> QED BY <2>1, Starts
<1>3. ASSUME NEW in \in Inputs, ReadToolCall(in) PROVE Flags'
  BY <1>3 DEF ReadToolCall, writeVars
<1>4. ASSUME NEW in \in Inputs, NEW k \in Keys, ReadCancellation(in, k)
      PROVE  Flags'
  BY <1>4 DEF ReadCancellation, writeVars
<1>5. CASE ReadEof \/ SubmitAccepted \/ AcceptedLine \/ ReadSeesFailure
  BY <1>5 DEF ReadEof, SubmitAccepted, AcceptedLine, ReadSeesFailure,
              ReaderGoes, writeVars
<1>6. CASE ReadFails \/ SubmitAdmitted \/ ReaderStops \/ ReaderCloses \/ ReaderExits
  BY <1>6 DEF ReadFails, SubmitAdmitted, ReaderStops, ReaderCloses, ReaderExits,
              ReaderGoes, writeVars
<1>8. ASSUME NEW o \in Outcomes, SubmitRefused(o) PROVE Flags'
  BY <1>8 DEF SubmitRefused, ReaderGoes, StartWrite
<1>9. CASE WrittenLine
  BY <1>9 DEF WrittenLine, LeavesWrite, ReaderGoes
<1>12. ASSUME NEW c \in Lines, FinishCall(c) PROVE Flags'
  BY <1>12 DEF FinishCall, writeVars
<1>13. ASSUME NEW c \in Lines, NEW o \in Outcomes, CallbackWrites(c, o)
       PROVE  Flags'
  BY <1>13 DEF CallbackWrites, CallbackGoes, StartWrite
<1>14. ASSUME NEW c \in Lines, CallbackWritten(c) PROVE Flags'
  BY <1>14 DEF CallbackWritten, LeavesWrite, CallbackGoes
<1>15. ASSUME NEW c \in Lines, CallbackThrows(c) \/ CallbackStops(c) PROVE Flags'
  BY <1>15 DEF CallbackThrows, CallbackStops, CallbackGoes, writeVars
<1>17. CASE UNCHANGED vars
  BY <1>17 DEF vars, writeVars
<1> QED
  BY <1>1, <1>2, <1>3, <1>4, <1>5, <1>6, <1>8, <1>9, <1>12, <1>13, <1>14, <1>15,
     <1>17
  DEF Next, ReadStep, ReaderStep, WorkerStep, Exited

-----------------------------------------------------------------------------
\* What the actions do, call by call.

LEMMA Moves ==
    ASSUME ServerTypeOK, NEW c \in Lines, NEW to, Scheduler!Move(c, to)
    PROVE  ledger'[c] = to /\ \A n \in Lines : n # c => ledger'[n] = ledger[n]
BY DEF ServerTypeOK, Scheduler!Move

LEMMA StopsAll ==
    ASSUME ServerTypeOK, Scheduler!Stopped
    PROVE  \A n \in Lines : \/ ledger'[n] = ledger[n]
                            \/ ledger[n] = "pending" /\ ledger'[n] = "doomed"
BY DEF ServerTypeOK, Scheduler!Stopped

LEMMA Goes ==
    ASSUME ServerTypeOK, NEW c \in Lines, NEW to, CallbackGoes(c, to)
    PROVE  /\ callback'[c] = to
           /\ \A n \in Lines : n # c => callback'[n] = callback[n]
           /\ UNCHANGED <<session, reader, line, transportFailed, owed, exit>>
BY DEF ServerTypeOK, CallbackGoes, inputVars

LEMMA ImmediateEffect ==
    ASSUME ServerInv, NEW in \in Inputs, ReadImmediate(in)
    PROVE  /\ reader = "reading" /\ reader' = "writing"
           /\ line' = line + 1 /\ line' \in Lines /\ line \in Nat
           /\ owed \subseteq owed' /\ owed' \subseteq owed \cup {line'}
           /\ UNCHANGED <<ledger, callback, lock, writerFailed, diagnosticsBad,
                          out, transportFailed, exit>>
           /\ ~transportFailed
           /\ writer'[Reader] = "entering" /\ message'[Reader].line = line'
           /\ \A q \in Lines : writer'[q] = writer[q] /\ message'[q] = message[q]
           /\ line' \in owed' => \/ "none" \in Outcomes
                                 \/ message'[Reader].kind # "none"
           /\ \/ session' = session
              \/ session' # "uninitialized" /\ message'[Reader].kind = "welcome"
              \/ session # "uninitialized"
<1>1. /\ reader = "reading" /\ reader' = "writing"
      /\ line' = line + 1 /\ line < MaxLines /\ ~transportFailed
      /\ owed' = IF in.hasId THEN owed \cup {line + 1} ELSE owed
      /\ UNCHANGED <<ledger, callback, transportFailed, exit>>
  BY DEF ReadImmediate, Reads, callVars
<1>2. line \in Nat /\ line' \in Lines /\ line' \notin owed
  BY <1>1, ServerAssumption DEF ServerInv, ServerTypeOK, Standing, Lines
<1>3. PICK m : /\ StartWrite(Reader, m) /\ m.line = line + 1
               /\ in.hasId => "none" \in Outcomes \/ m.kind # "none"
               /\ \/ session' = session
                  \/ session' # "uninitialized" /\ m.kind = "welcome"
                  \/ session # "uninitialized"
  <2> DEFINE a == Immediate(in)
  <2>1. /\ a.kind \in {"none", "welcome", "result", "error"}
        /\ \/ a.next = session
           \/ a.kind = "welcome" /\ session = "uninitialized" /\ a.next = "awaiting"
           \/ a.kind = "none" /\ session = "awaiting" /\ a.next = "ready"
        /\ in.hasId => a.kind # "none"
    BY ImmediateIs
  <2>2. \/ /\ a.kind = "none" /\ session' = a.next
           /\ StartWrite(Reader, [line |-> line + 1, kind |-> "none",
                                  noted |-> a.noted])
        \/ \E o \in Outcomes : /\ a.kind # "none"
                               /\ session' = NextSession(a, o)
                               /\ StartWrite(Reader, Serialized(line + 1, a.kind, o))
    BY DEF ReadImmediate
  <2> HIDE DEF a
  <2>3. CASE a.kind = "none"
    <3> DEFINE m == [line |-> line + 1, kind |-> "none", noted |-> a.noted]
    <3>1. m.line = line + 1 /\ StartWrite(Reader, m) /\ session' = a.next
      BY <2>2, <2>3
    <3> HIDE DEF m
    <3> QED BY <2>1, <2>3, <3>1
  <2>4. CASE a.kind # "none"
    <3>1. PICK o \in Outcomes : /\ session' = NextSession(a, o)
                                /\ StartWrite(Reader, Serialized(line + 1, a.kind, o))
      BY <2>2, <2>4
    <3> DEFINE m == Serialized(line + 1, a.kind, o)
    <3>2. m.line = line + 1 /\ m.kind = IF o = "own" THEN a.kind ELSE o
      BY DEF Serialized
    <3>3. StartWrite(Reader, m)
      BY <3>1
    <3> HIDE DEF m
    <3> QED BY <2>1, <2>4, <3>1, <3>2, <3>3 DEF NextSession
  <2> QED BY <2>3, <2>4
<1> QED BY <1>1, <1>2, <1>3, Starts, ThreadsAre DEF ServerInv

LEMMA RefusedEffect ==
    ASSUME ServerInv, NEW o \in Outcomes, SubmitRefused(o)
    PROVE  /\ reader \in {"submitting", "admitted"} /\ reader' = "writing"
           /\ line \in Lines /\ ledger'[line] = "refused"
           /\ \A n \in Lines : n # line => ledger'[n] = ledger[n]
           /\ UNCHANGED <<session, line, callback, lock, writerFailed, owed,
                          diagnosticsBad, out, transportFailed, exit>>
           /\ writer'[Reader] = "entering" /\ message'[Reader].line = line
           /\ \A q \in Lines : writer'[q] = writer[q] /\ message'[q] = message[q]
           /\ "none" \in Outcomes \/ message'[Reader].kind # "none"
<1>1. reader \in {"submitting", "admitted"} /\ ReaderGoes("writing")
  BY DEF SubmitRefused
<1>2. line \in Lines
  BY <1>1 DEF ServerInv, ServerTypeOK, Standing, Lines
<1>3. Scheduler!Move(line, "refused")
  BY DEF SubmitRefused, Scheduler!Refused, Scheduler!Abandoned
<1>4. PICK m : /\ StartWrite(Reader, m) /\ m.line = line
               /\ "none" \in Outcomes \/ m.kind # "none"
  BY DEF SubmitRefused, Serialized
<1> QED BY <1>1, <1>2, <1>3, <1>4, Starts, Moves, ThreadsAre DEF ServerInv, ReaderGoes

LEMMA AdmittedEffect ==
    ASSUME ServerInv, SubmitAdmitted
    PROVE  /\ reader = "submitting" /\ reader' = "admitted"
           /\ line \in Lines /\ ledger[line] = "new" /\ ledger'[line] = "pending"
           /\ \A n \in Lines : n # line => ledger'[n] = ledger[n]
           /\ UNCHANGED <<session, line, callback, writer, message, lock, owed,
                          writerFailed, diagnosticsBad, out, transportFailed, exit>>
<1>1. reader = "submitting" /\ ReaderGoes("admitted") /\ UNCHANGED writeVars
  BY DEF SubmitAdmitted
<1>2. line \in Lines
  BY <1>1 DEF ServerInv, ServerTypeOK, Standing, Lines
<1>3. ledger[line] = "new" /\ Scheduler!Move(line, "pending")
  BY DEF SubmitAdmitted, Scheduler!Admitted
<1> QED BY <1>1, <1>2, <1>3, Moves DEF ServerInv, ReaderGoes, writeVars

LEMMA CancellationEffect ==
    ASSUME ServerInv, NEW in \in Inputs, NEW k \in Keys, ReadCancellation(in, k)
    PROVE  /\ reader = "reading" /\ reader' = "accepted"
           /\ line' = line + 1 /\ line' \in Lines /\ line \in Nat
           /\ owed' = owed
           /\ \A n \in Lines : \/ ledger'[n] = ledger[n]
                               \/ ledger[n] = "pending" /\ ledger'[n] = "doomed"
           /\ UNCHANGED <<session, callback, writer, message, lock, writerFailed,
                          diagnosticsBad, out, transportFailed, exit>>
<1>1. /\ reader = "reading" /\ reader' = "accepted" /\ ~in.hasId
      /\ line' = line + 1 /\ line < MaxLines /\ owed' = owed
      /\ UNCHANGED <<session, callback, writer, message, lock, writerFailed,
                     diagnosticsBad, out, transportFailed, exit>>
  BY DEF ReadCancellation, IsCancellation, Reads, writeVars
<1>2. line \in Nat /\ line' \in Lines
  BY <1>1, ServerAssumption DEF ServerInv, ServerTypeOK, Lines
<1>3. \/ ledger' = ledger
      \/ \E c \in Lines : ledger[c] = "pending" /\ Scheduler!Move(c, "doomed")
  BY DEF ReadCancellation, InFlightUnder, Scheduler!Unfinished, Scheduler!Doomed,
         callVars
<1> QED BY <1>1, <1>2, <1>3, Moves DEF ServerInv

LEMMA ToolCallEffect ==
    ASSUME ServerInv, NEW in \in Inputs, ReadToolCall(in)
    PROVE  /\ reader = "reading" /\ reader' = "submitting" /\ session = "ready"
           /\ line' = line + 1 /\ line' \in Lines /\ line \in Nat
           /\ owed \subseteq owed' /\ owed' \subseteq owed \cup {line'}
           /\ UNCHANGED <<session, ledger, callback, writer, message, lock,
                          writerFailed, diagnosticsBad, out, transportFailed, exit>>
<1>1. line < MaxLines
  BY DEF ReadToolCall, Reads
<1>2. line \in Nat /\ line + 1 \in Lines
  BY <1>1, ServerAssumption DEF ServerInv, ServerTypeOK, Lines
<1> QED BY <1>2 DEF ReadToolCall, IsToolCall, Reads, callVars, writeVars

LEMMA FinishEffect ==
    ASSUME ServerInv, NEW c \in Lines, FinishCall(c)
    PROVE  /\ Enqueued(c) /\ callback[c] = "none"
           /\ \/ /\ ledger[c] = "pending" /\ ledger'[c] = "answered"
                 /\ callback'[c] = "formatting"
              \/ /\ ledger[c] = "doomed" /\ ledger'[c] = "suppressed"
                 /\ callback'[c] = "none"
           /\ \A n \in Lines : n # c => /\ ledger'[n] = ledger[n]
                                        /\ callback'[n] = callback[n]
           /\ UNCHANGED <<session, reader, line, writer, message, lock, owed,
                          writerFailed, diagnosticsBad, out, transportFailed, exit>>
<1>1. \/ ledger[c] = "pending" /\ Scheduler!Move(c, "answered")
      \/ ledger[c] = "doomed" /\ Scheduler!Move(c, "suppressed")
  BY DEF FinishCall, Scheduler!Resolved
<1>2. callback[c] = "none"
  BY <1>1 DEF ServerInv, Standing
<1>3. /\ callback'[c] = IF ledger[c] = "pending" THEN "formatting" ELSE "none"
      /\ \A n \in Lines : n # c => callback'[n] = callback[n]
  BY <1>2 DEF FinishCall, AnswerDue, ServerInv, ServerTypeOK
<1> QED BY <1>1, <1>2, <1>3, Moves
    DEF FinishCall, ServerInv, inputVars, writeVars

LEMMA CallbackWritesEffect ==
    ASSUME ServerInv, NEW c \in Lines, NEW o \in Outcomes, CallbackWrites(c, o)
    PROVE  /\ callback[c] = "formatting" /\ callback'[c] = "writing"
           /\ \A n \in Lines : n # c => callback'[n] = callback[n]
           /\ writer'[c] = "entering" /\ message'[c].line = c
           /\ \A q \in Threads : q # c => /\ writer'[q] = writer[q]
                                          /\ message'[q] = message[q]
           /\ "none" \in Outcomes \/ message'[c].kind # "none"
           /\ UNCHANGED <<session, ledger, reader, line, lock, owed, writerFailed,
                          diagnosticsBad, out, transportFailed, exit>>
<1>1. PICK m : /\ StartWrite(c, m) /\ m.line = c
               /\ "none" \in Outcomes \/ m.kind # "none"
  BY DEF CallbackWrites, Serialized
<1>2. /\ writer'[c] = "entering" /\ message'[c] = m
      /\ \A q \in Threads : q # c => writer'[q] = writer[q] /\ message'[q] = message[q]
      /\ UNCHANGED <<lock, writerFailed, diagnosticsBad, out>>
  BY <1>1, Starts, ThreadsAre DEF ServerInv
<1>3. callback[c] = "formatting" /\ CallbackGoes(c, "writing") /\ ledger' = ledger
  BY DEF CallbackWrites, callVars
<1> QED BY <1>1, <1>2, <1>3, Goes DEF ServerInv

LEMMA CallbackWrittenEffect ==
    ASSUME ServerInv, NEW c \in Lines, CallbackWritten(c)
    PROVE  /\ callback[c] = "writing" /\ writer[c] \in {"true", "false"}
           /\ callback'[c] = IF writer[c] = "true" THEN "done" ELSE "stopping"
           /\ \A n \in Lines : n # c => callback'[n] = callback[n]
           /\ writer'[c] = "idle"
           /\ \A q \in Threads : q # c => /\ writer'[q] = writer[q]
                                          /\ message'[q] = message[q]
           /\ UNCHANGED <<session, ledger, reader, line, lock, owed, writerFailed,
                          diagnosticsBad, out, transportFailed, exit>>
<1>1. /\ callback[c] = "writing" /\ writer[c] \in {"true", "false"}
      /\ LeavesWrite(c) /\ ledger' = ledger
      /\ CallbackGoes(c, IF writer[c] = "true" THEN "done" ELSE "stopping")
  BY DEF CallbackWritten, callVars
<1>2. /\ writer'[c] = "idle"
      /\ \A q \in Threads : q # c => writer'[q] = writer[q] /\ message'[q] = message[q]
      /\ UNCHANGED <<lock, writerFailed, diagnosticsBad, out>>
  BY <1>1, Leaves, ThreadsAre DEF ServerInv
<1> QED BY <1>1, <1>2, Goes DEF ServerInv

LEMMA WrittenLineEffect ==
    ASSUME ServerInv, WrittenLine
    PROVE  /\ reader = "writing" /\ writer[Reader] \in {"true", "false"}
           /\ reader' \in {"closing", "reading", "stopping"}
           /\ reader' = "stopping" <=> writer[Reader] = "false"
           /\ writer'[Reader] = "idle"
           /\ \A q \in Lines : writer'[q] = writer[q] /\ message'[q] = message[q]
           /\ UNCHANGED <<session, ledger, line, callback, lock, owed, writerFailed,
                          diagnosticsBad, out, transportFailed, exit>>
<1>1. /\ reader = "writing" /\ writer[Reader] \in {"true", "false"}
      /\ LeavesWrite(Reader) /\ ledger' = ledger
      /\ ReaderGoes(IF writer[Reader] = "true" THEN AfterLine ELSE "stopping")
  BY DEF WrittenLine, callVars
<1> QED BY <1>1, Leaves, ThreadsAre DEF ServerInv, ReaderGoes, AfterLine

LEMMA CallbackEndsEffect ==
    ASSUME ServerInv, NEW c \in Lines, CallbackThrows(c) \/ CallbackStops(c)
    PROVE  /\ \/ callback[c] = "formatting" /\ callback'[c] = "threw"
              \/ callback[c] = "stopping" /\ callback'[c] = "done"
           /\ \A n \in Lines : n # c => callback'[n] = callback[n]
           /\ \A n \in Lines : \/ ledger'[n] = ledger[n]
                               \/ ledger[n] = "pending" /\ ledger'[n] = "doomed"
           /\ UNCHANGED <<session, reader, line, writer, message, lock, owed,
                          writerFailed, diagnosticsBad, out, transportFailed, exit>>
BY Goes, StopsAll
DEF CallbackThrows, CallbackStops, ServerInv, callVars, writeVars

\* The steps of the reader that only take it on.
ReaderOnly ==
    ReadEof \/ SubmitAccepted \/ AcceptedLine \/ ReadSeesFailure \/ ReadFails
        \/ ReaderStops \/ ReaderCloses \/ ReaderExits

LEMMA ReaderOnlyEffect ==
    ASSUME ServerInv, ReaderOnly
    PROVE  /\ \/ reader = "reading" /\ reader' \in {"closing", "stopping"}
              \/ reader = "admitted" /\ reader' = "accepted"
              \/ reader = "accepted" /\ reader' \in {"closing", "reading", "stopping"}
              \/ reader = "closing" /\ reader' = "draining"
              \/ reader = "stopping" /\ reader' = "failing"
              \/ reader \in {"failing", "draining"} /\ reader' = "exited"
           /\ transportFailed => transportFailed'
           /\ transportFailed' # transportFailed => reader' = "stopping"
           /\ \A n \in Lines : \/ ledger'[n] = ledger[n]
                               \/ ledger[n] = "pending" /\ ledger'[n] = "doomed"
           /\ \/ reader' # "exited" /\ exit' = exit
              \/ reader' = "exited" /\ exit' = Status(reader) /\ Joined /\ ledger' = ledger
           /\ UNCHANGED <<session, line, callback, writer, message, lock, owed,
                          writerFailed, diagnosticsBad, out>>
<1>0. ServerTypeOK BY DEF ServerInv
<1>1. CASE ReadEof \/ SubmitAccepted \/ AcceptedLine \/ ReadSeesFailure \/ ReadFails
  BY <1>0, <1>1 DEF ReadEof, SubmitAccepted, AcceptedLine, ReadSeesFailure, ReadFails,
              ReaderGoes, AfterLine, callVars, writeVars, ServerTypeOK
<1>2. CASE ReaderStops \/ ReaderCloses
  BY <1>0, <1>2, StopsAll DEF ReaderStops, ReaderCloses, ReaderGoes, Scheduler!Closed,
              writeVars
<1>3. CASE ReaderExits
  BY <1>3 DEF ReaderExits, callVars, writeVars
<1> QED BY <1>1, <1>2, <1>3 DEF ReaderOnly

LEMMA StandingStep ==
    ASSUME ServerInv, [Next]_vars
    PROVE  Standing'
<1> USE ServerAssumption, ThreadsAre DEF Standing
<1>0. ServerTypeOK /\ Standing BY DEF ServerInv
<1> USE <1>0
<1>1. ASSUME NEW p \in Threads, Write(p) PROVE Standing'
  BY <1>1, WriteFrame
<1>2. ASSUME NEW in \in Inputs, ReadImmediate(in) PROVE Standing'
  BY <1>2, ImmediateEffect
<1>3. ASSUME NEW in \in Inputs, ReadToolCall(in) PROVE Standing'
  BY <1>3, ToolCallEffect
<1>4. ASSUME NEW in \in Inputs, NEW k \in Keys, ReadCancellation(in, k)
      PROVE  Standing'
  BY <1>4, CancellationEffect
<1>5. CASE ReaderOnly
  BY <1>5, ReaderOnlyEffect
<1>6. CASE SubmitAdmitted
  BY <1>6, AdmittedEffect
<1>7. ASSUME NEW o \in Outcomes, SubmitRefused(o) PROVE Standing'
  BY <1>7, RefusedEffect
<1>8. CASE WrittenLine
  BY <1>8, WrittenLineEffect
<1>9. ASSUME NEW c \in Lines, FinishCall(c) PROVE Standing'
  BY <1>9, FinishEffect DEF Enqueued
<1>10. ASSUME NEW c \in Lines, NEW o \in Outcomes, CallbackWrites(c, o)
       PROVE  Standing'
  <2>1. /\ \A n \in Lines : callback'[n] # "none" <=> callback[n] # "none"
        /\ UNCHANGED <<session, ledger, reader, line, owed>>
    BY <1>10, CallbackWritesEffect
  <2> QED BY <2>1
<1>11. ASSUME NEW c \in Lines, CallbackWritten(c) PROVE Standing'
  BY <1>11, CallbackWrittenEffect
<1>12. ASSUME NEW c \in Lines, CallbackThrows(c) \/ CallbackStops(c)
       PROVE  Standing'
  <2>1. /\ \A n \in Lines : callback'[n] # "none" <=> callback[n] # "none"
        /\ \A n \in Lines : \/ ledger'[n] = ledger[n]
                            \/ ledger[n] = "pending" /\ ledger'[n] = "doomed"
        /\ UNCHANGED <<session, reader, line, owed>>
    BY <1>12, CallbackEndsEffect
  <2> QED BY <2>1
<1>13. CASE UNCHANGED vars
  BY <1>13 DEF vars, callVars, inputVars
<1> QED
  BY <1>1, <1>2, <1>3, <1>4, <1>5, <1>6, <1>7, <1>8, <1>9, <1>10, <1>11, <1>12,
     <1>13
  DEF Next, ReadStep, ReaderStep, WorkerStep, Exited, ReaderOnly

-----------------------------------------------------------------------------
\* What has been written stays.
LEMMA OutStays ==
    ASSUME ServerInv, [Next]_vars
    PROVE  /\ Len(out) \in Nat /\ Len(out') \in Nat /\ Len(out) <= Len(out')
           /\ \A i \in 1..Len(out) : /\ i \in 1..Len(out')
                                     /\ out'[i].line = out[i].line
                                     /\ out'[i].kind = out[i].kind
                                     /\ out[i].whole => out'[i].whole
<1>0. ServerTypeOK /\ Len(out) \in Nat BY DEF ServerInv, ServerTypeOK
<1>1. ASSUME NEW p \in Threads, WriteBegins(p)
      PROVE  /\ Len(out') = Len(out) + 1
             /\ \A i \in 1..Len(out) : out'[i] = out[i]
  BY <1>0, <1>1, OutGrows, WritingALine DEF WriteBegins
<1>2. ASSUME NEW p \in Threads, WriteEnds(p)
      PROVE  /\ Len(out') = Len(out)
             /\ \A i \in 1..Len(out) : /\ i # Len(out) => out'[i] = out[i]
                                       /\ out'[i].line = out[i].line
                                       /\ out'[i].kind = out[i].kind
             /\ out'[Len(out)].whole
  BY <1>0, <1>2, OutEnds DEF WriteEnds, ServerInv, Ends
<1>3. ASSUME NEW p \in Threads, Write(p)
      PROVE  WriteBegins(p) \/ WriteEnds(p) \/ UNCHANGED out
  BY <1>3 DEF Write, WriteRefused, WriteEnters, WriteNotes, WriteNothing,
              WriteBreaks, WriteReturns
<1>4. \/ UNCHANGED out
      \/ \E p \in Threads : WriteBegins(p) \/ WriteEnds(p)
  <2>1. CASE \E in \in Inputs : ReadImmediate(in)
    BY <2>1, ImmediateEffect
  <2>2. CASE \E in \in Inputs : ReadToolCall(in)
    BY <2>2, ToolCallEffect
  <2>3. CASE \E in \in Inputs, k \in Keys : ReadCancellation(in, k)
    BY <2>3, CancellationEffect
  <2>4. CASE ReaderOnly \/ SubmitAdmitted \/ WrittenLine
    BY <2>4, ReaderOnlyEffect, AdmittedEffect, WrittenLineEffect
  <2>5. CASE \E o \in Outcomes : SubmitRefused(o)
    BY <2>5, RefusedEffect
  <2>6. CASE \E c \in Lines : \/ FinishCall(c) \/ CallbackWritten(c)
                              \/ CallbackThrows(c) \/ CallbackStops(c)
    BY <2>6, FinishEffect, CallbackWrittenEffect, CallbackEndsEffect
  <2>7. CASE \E c \in Lines, o \in Outcomes : CallbackWrites(c, o)
    BY <2>7, CallbackWritesEffect
  <2>8. CASE \E p \in Threads : Write(p)
    BY <2>8, <1>3
  <2>9. CASE UNCHANGED vars
    BY <2>9 DEF vars, writeVars
  <2> QED
    BY <2>1, <2>2, <2>3, <2>4, <2>5, <2>6, <2>7, <2>8, <2>9, ThreadsAre
    DEF Next, ReadStep, ReaderStep, WorkerStep, Exited, ReaderOnly
<1> QED BY <1>0, <1>1, <1>2, <1>4

\* Nobody but a thread at or after its first part leaves a part behind.
LEMMA NothingPartial ==
    ASSUME ServerInv, ~writerFailed,
           \A p \in Threads : writer[p] # "resuming",
           \A p \in Threads : writer[p] = "checking" =>
                                 message[p].kind = "none" \/ ~transportFailed
    PROVE  \A i \in 1..Len(out) : out[i].whole
BY DEF ServerInv, Ends, ServerTypeOK

\* Steps of the threads that do not hold the mutex.
LEMMA EndsKept ==
    ASSUME ServerInv, UNCHANGED <<out, lock, writerFailed>>,
           transportFailed => transportFailed',
           \A p \in Threads : \/ writer'[p] = writer[p] /\ message'[p] = message[p]
                              \/ /\ writer[p] \notin Holding
                                 /\ writer'[p] \in {"idle", "entering", "false"}
    PROVE  Ends'
<1>1. lock \subseteq Threads /\ \A p \in Threads : p \in lock <=> writer[p] \in Holding
  BY DEF ServerInv, ServerTypeOK, Turns
<1>2. \A p \in lock : writer'[p] = writer[p] /\ message'[p] = message[p]
  BY <1>1
<1>3. \A p \in Threads : writer'[p] \in {"resuming", "checking", "true"} =>
                            writer'[p] = writer[p] /\ message'[p] = message[p]
  OBVIOUS
<1>4. Ends BY DEF ServerInv
<1> QED BY <1>2, <1>3, <1>4 DEF Ends, Delivered

\* The steps of the thread in write().
LEMMA EndsWrite ==
    ASSUME ServerInv, NEW p \in Threads, Write(p)
    PROVE  Ends'
<1>0. ServerTypeOK /\ Turns /\ Flags /\ Ends BY DEF ServerInv
<1>1. message' = message /\ writer[p] # "idle"
  BY WriteFrame DEF Write, WriteRefused, WriteEnters, WriteNotes, WriteNothing,
      WriteBegins, WriteEnds, WriteBreaks, WriteReturns
<1>2. \A q \in Threads : q # p => writer'[q] = writer[q]
  BY <1>0 DEF Write, WriteRefused, WriteEnters, WriteNotes, WriteNothing,
      WriteBegins, WriteEnds, WriteBreaks, WriteReturns, WriterGoes, ServerTypeOK
<1>3. ASSUME writer[p] \in Holding
      PROVE  /\ lock = {p} /\ ~writerFailed
             /\ \A q \in Threads : q # p => writer[q] \notin Holding
  BY <1>0, <1>3 DEF Turns, Flags, ServerTypeOK
<1>4. ASSUME writer[p] \in Holding, writer[p] \notin {"resuming", "checking"}
      PROVE  \A i \in 1..Len(out) : out[i].whole
  BY <1>3, <1>4, NothingPartial DEF Holding
<1>5. ASSUME NEW q \in Threads, Delivered(q) PROVE Delivered(q)'
  <2>1. [Next]_vars
    BY ThreadsAre DEF Next, ReaderStep, WorkerStep
  <2>2. PICK i \in 1..Len(out) : /\ out[i].line = message[q].line
                                 /\ out[i].kind = message[q].kind /\ out[i].whole
    BY <1>5 DEF Delivered
  <2> QED BY <1>1, <2>1, <2>2, OutStays DEF Delivered
<1>6. CASE WriteRefused(p)
  <2>1. /\ writer[p] = "entering" /\ writer'[p] = "false"
        /\ UNCHANGED <<out, lock, writerFailed, transportFailed>>
    BY <1>0, <1>6 DEF WriteRefused, WriterGoes, ServerTypeOK
  <2> QED BY <1>1, <1>2, <2>1, EndsKept DEF Holding
<1>7. CASE WriteEnters(p)
  <2>1. /\ lock = {} /\ ~writerFailed /\ UNCHANGED <<out, transportFailed>>
        /\ writer'[p] \in {"noting", "answering"}
    BY <1>0, <1>7 DEF WriteEnters, WriterGoes, LockFree, ServerTypeOK
  <2>2. \A q \in Threads : writer[q] \notin Holding
    BY <1>0, <2>1 DEF Turns
  <2>3. \A i \in 1..Len(out) : out[i].whole
    BY <2>1, <2>2, NothingPartial DEF Holding
  <2> QED BY <1>0, <1>1, <1>2, <2>1, <2>2, <2>3 DEF Ends, Delivered, Holding
<1>8. CASE WriteNotes(p) \/ WriteNothing(p)
  <2>1. /\ writer[p] \in {"noting", "answering"} /\ UNCHANGED out
        /\ \/ writer'[p] = "answering"
           \/ writer'[p] = "checking" /\ message[p].kind = "none"
        /\ transportFailed => transportFailed'
    BY <1>0, <1>8 DEF WriteNotes, WriteNothing, WriterGoes, ServerTypeOK
  <2>2. \A i \in 1..Len(out) : out[i].whole
    BY <1>4, <2>1 DEF Holding
  <2> QED BY <1>0, <1>1, <1>2, <1>3, <2>1, <2>2 DEF Ends, Delivered, Holding
<1>9. CASE WriteBegins(p)
  <2>1. /\ writer[p] = "answering" /\ writer'[p] = "resuming"
        /\ message[p].kind # "none" /\ UNCHANGED <<lock, transportFailed>>
    BY <1>0, <1>9 DEF WriteBegins, WriterGoes, ServerTypeOK
  <2>2. /\ Len(out') = Len(out) + 1 /\ Len(out) \in Nat
        /\ \A i \in 1..Len(out) : out'[i] = out[i]
        /\ out'[Len(out')].line = message[p].line
        /\ out'[Len(out')].kind = message[p].kind /\ ~out'[Len(out')].whole
    <3>1. message[p].line \in Lines
      BY <2>1, WritingALine
    <3>2. /\ Len(out') = Len(out) + 1 /\ Len(out) \in Nat
          /\ \A i \in 1..Len(out) : out'[i] = out[i]
          /\ out'[Len(out) + 1] = [line |-> message[p].line,
                                   kind |-> message[p].kind, whole |-> FALSE]
      BY <1>0, <1>9, <3>1, OutGrows
    <3> QED BY <3>2
  <2>3. \A i \in 1..Len(out) : out[i].whole
    BY <1>4, <2>1 DEF Holding
  <2>4. \A i \in 1..Len(out') : ~out'[i].whole => i = Len(out')
    BY <2>2, <2>3
  <2>5. lock' = {p}
    BY <1>3, <2>1 DEF Holding
  <2>6. \A q \in Threads : q # p =>
           /\ writer'[q] \notin {"resuming", "checking"}
           /\ (writer'[q] = "true" /\ message'[q].kind # "none") => Delivered(q)'
    BY <1>0, <1>1, <1>2, <1>3, <1>5, <2>1 DEF Ends, Holding
  <2> QED BY <1>1, <2>1, <2>2, <2>4, <2>5, <2>6 DEF Ends
<1>10. CASE WriteEnds(p)
  <2>1. /\ writer[p] = "resuming" /\ writer'[p] = "checking"
        /\ UNCHANGED <<lock, transportFailed>> /\ Len(out) > 0
        /\ out[Len(out)].line = message[p].line
        /\ out[Len(out)].kind = message[p].kind
        /\ \A i \in 1..Len(out) : ~out[i].whole => i = Len(out)
    BY <1>0, <1>10 DEF WriteEnds, WriterGoes, ServerTypeOK, Ends
  <2>2. /\ Len(out') = Len(out) /\ Len(out) \in Nat
        /\ \A i \in 1..Len(out) : /\ i # Len(out) => out'[i] = out[i]
                                  /\ out'[i].line = out[i].line
                                  /\ out'[i].kind = out[i].kind
        /\ out'[Len(out)].whole
    BY <1>0, <1>10, <2>1, OutEnds
  <2>3. \A i \in 1..Len(out') : out'[i].whole
    BY <2>1, <2>2
  <2>4. Delivered(p)'
    <3>1. Len(out) \in 1..Len(out')
      BY <2>1, <2>2
    <3> QED BY <1>1, <2>1, <2>2, <3>1 DEF Delivered
  <2>5. \A q \in Threads : q # p =>
           /\ writer'[q] \notin {"resuming", "checking"}
           /\ (writer'[q] = "true" /\ message'[q].kind # "none") => Delivered(q)'
    BY <1>0, <1>1, <1>2, <1>3, <1>5, <2>1 DEF Ends, Holding
  <2> QED BY <2>1, <2>3, <2>4, <2>5 DEF Ends
<1>11. CASE WriteBreaks(p)
  <2>1. /\ UNCHANGED <<out, lock>> /\ transportFailed' /\ writer'[p] = "checking"
        /\ writer[p] \in {"answering", "resuming"} /\ message[p].kind # "none"
    BY <1>0, <1>11 DEF WriteBreaks, WriterGoes, ServerTypeOK, Ends
  <2>2. lock' = {p}
    BY <1>3, <2>1 DEF Holding
  <2>3. \A i \in 1..Len(out') : ~out'[i].whole => i = Len(out')
    BY <1>0, <2>1 DEF Ends
  <2>4. \A q \in Threads : q # p =>
           /\ writer'[q] \notin {"resuming", "checking"}
           /\ (writer'[q] = "true" /\ message'[q].kind # "none") => Delivered(q)'
    BY <1>0, <1>1, <1>2, <1>3, <1>5, <2>1 DEF Ends, Holding
  <2> QED BY <1>1, <2>1, <2>2, <2>3, <2>4 DEF Ends
<1>12. CASE WriteReturns(p)
  <2>1. /\ UNCHANGED <<out, transportFailed>> /\ writer[p] = "checking"
        /\ writerFailed' = WriteBad(p)
        /\ writer'[p] = IF WriteBad(p) THEN "false" ELSE "true"
    BY <1>0, <1>12 DEF WriteReturns, WriterGoes, ServerTypeOK
  <2>2. \A i \in 1..Len(out') : ~out'[i].whole => i = Len(out') /\ writerFailed'
    BY <1>0, <1>3, <2>1 DEF Ends, Holding, WriteBad
  <2>3. \A q \in Threads : q # p =>
           /\ writer'[q] \notin {"resuming", "checking"}
           /\ (writer'[q] = "true" /\ message'[q].kind # "none") => Delivered(q)'
    BY <1>0, <1>1, <1>2, <1>3, <1>5, <2>1 DEF Ends, Holding
  <2>4. (writer'[p] = "true" /\ message'[p].kind # "none") => Delivered(p)'
    BY <1>0, <1>1, <1>5, <2>1 DEF Ends, WriteBad
  <2> QED BY <2>1, <2>2, <2>3, <2>4 DEF Ends
<1> QED BY <1>6, <1>7, <1>8, <1>9, <1>10, <1>11, <1>12 DEF Write

LEMMA EndsStep ==
    ASSUME ServerInv, [Next]_vars
    PROVE  Ends'
<1> USE ThreadsAre
<1>0. Turns BY DEF ServerInv
<1>1. ASSUME NEW p \in Threads, Write(p) PROVE Ends'
  BY <1>1, EndsWrite
<1>2. ASSUME NEW in \in Inputs, ReadImmediate(in) PROVE Ends'
  BY <1>0, <1>2, ImmediateEffect, EndsKept DEF Turns, Holding
<1>3. ASSUME NEW in \in Inputs, ReadToolCall(in) PROVE Ends'
  BY <1>3, ToolCallEffect, EndsKept
<1>4. ASSUME NEW in \in Inputs, NEW k \in Keys, ReadCancellation(in, k)
      PROVE  Ends'
  BY <1>4, CancellationEffect, EndsKept
<1>5. CASE ReaderOnly
  BY <1>5, ReaderOnlyEffect, EndsKept
<1>6. CASE SubmitAdmitted
  BY <1>6, AdmittedEffect, EndsKept
<1>7. ASSUME NEW o \in Outcomes, SubmitRefused(o) PROVE Ends'
  BY <1>0, <1>7, RefusedEffect, EndsKept DEF Turns, Holding
<1>8. CASE WrittenLine
  BY <1>8, WrittenLineEffect, EndsKept DEF Holding
<1>9. ASSUME NEW c \in Lines, FinishCall(c) PROVE Ends'
  BY <1>9, FinishEffect, EndsKept
<1>10. ASSUME NEW c \in Lines, NEW o \in Outcomes, CallbackWrites(c, o)
       PROVE  Ends'
  BY <1>0, <1>10, CallbackWritesEffect, EndsKept DEF Turns, Holding
<1>11. ASSUME NEW c \in Lines, CallbackWritten(c) PROVE Ends'
  BY <1>11, CallbackWrittenEffect, EndsKept DEF Holding
<1>12. ASSUME NEW c \in Lines, CallbackThrows(c) \/ CallbackStops(c)
       PROVE  Ends'
  BY <1>12, CallbackEndsEffect, EndsKept
<1>13. CASE UNCHANGED vars
  BY <1>13, EndsKept DEF vars, writeVars
<1> QED
  BY <1>1, <1>2, <1>3, <1>4, <1>5, <1>6, <1>7, <1>8, <1>9, <1>10, <1>11, <1>12,
     <1>13
  DEF Next, ReadStep, ReaderStep, WorkerStep, Exited, ReaderOnly

\* What a step may not do to a line that has a response.
Undisturbed(n) ==
    \/ ledger[n] \in {"pending", "doomed", "suppressed"}
    \/ n = line /\ reader = "submitting"
    \/ ledger[n] = "answered" /\ callback[n] \in {"none", "formatting", "threw"}
    \/ /\ ledger'[n] = ledger[n]
       /\ \/ callback'[n] = callback[n]
          \/ {callback[n], callback'[n]} \subseteq {"writing", "stopping", "done"}
       /\ writer[n] \in Past => writer'[n] \in Past

ReaderUndisturbed ==
    \/ line' # line
    \/ reader \in {"submitting", "admitted", "accepted"}
    \/ /\ reader' \notin {"submitting", "admitted", "accepted"}
       /\ writer[Reader] \in Past => writer'[Reader] \in Past

LEMMA LinesOfOut ==
    ASSUME ServerInv, NEW i \in 1..Len(out)
    PROVE  out[i].line \in Lines /\ i \in Nat /\ Len(out) \in Nat
<1>1. out \in Seq(Responses)
  BY DEF ServerInv, ServerTypeOK
<1>2. out[i] \in Responses
  BY <1>1
<1> QED BY <1>1, <1>2 DEF Responses

LEMMA OwnedStays ==
    ASSUME ServerInv, line \in Nat, line' \in Nat, line <= line', ReaderUndisturbed,
           NEW n \in Lines, Undisturbed(n), n <= line, Owned(n)
    PROVE  n <= line' /\ Owned(n)'
<1>1. n \in Nat /\ Standing
  BY ThreadsAre DEF ServerInv
<1>2. CASE ledger[n] = "answered"
  BY <1>1, <1>2 DEF Standing, Owned, Undisturbed
<1>3. CASE ledger[n] \in {"new", "refused"}
  BY <1>1, <1>3 DEF Standing, Owned, Undisturbed, ReaderUndisturbed
<1> QED BY <1>2, <1>3 DEF Owned

\* Steps that write no first part.
LEMMA OriginKept ==
    ASSUME ServerInv, Len(out') = Len(out),
           \A i \in 1..Len(out) : out'[i].line = out[i].line,
           line \in Nat, line' \in Nat, line <= line', ReaderUndisturbed,
           \A n \in Lines : n <= line => Undisturbed(n)
    PROVE  Origin' /\ Unique'
<1>1. ASSUME NEW i \in 1..Len(out) PROVE out[i].line <= line' /\ Owned(out[i].line)'
  <2>1. out[i].line \in Lines /\ out[i].line <= line /\ Owned(out[i].line)
    BY LinesOfOut DEF ServerInv, Origin
  <2>2. \A n \in Lines : (n <= line /\ Owned(n)) => (n <= line' /\ Owned(n)')
    BY OwnedStays
  <2> QED BY <2>1, <2>2 DEF Owned
<1>2. Origin'
  BY <1>1 DEF Origin, Owned
<1>3. Unique'
  BY DEF ServerInv, Unique
<1> QED BY <1>2, <1>3

\* A first part is written for a line that has no response yet.
LEMMA OriginBegins ==
    ASSUME ServerInv, NEW p \in Threads, WriteBegins(p)
    PROVE  Origin' /\ Unique'
<1>0. ServerTypeOK /\ Turns /\ Standing /\ Origin /\ Unique /\ line \in Nat
  BY ServerAssumption DEF ServerInv, ServerTypeOK
<1>1. /\ writer[p] = "answering" /\ writer' = [writer EXCEPT ![p] = "resuming"]
      /\ UNCHANGED <<reader, line, ledger, callback>>
  BY DEF WriteBegins, WriterGoes, callVars, inputVars
<1>2. /\ writer'[p] = "resuming"
      /\ \A q \in Threads : q # p => writer'[q] = writer[q]
  BY <1>0, <1>1 DEF ServerTypeOK
<1>3. PICK n \in Lines : n = message[p].line
  BY <1>1, WritingALine
<1>4. /\ Len(out') = Len(out) + 1 /\ Len(out) \in Nat
      /\ \A i \in 1..Len(out) : out'[i] = out[i]
      /\ out'[Len(out')].line = n
  <2>1. out'[Len(out) + 1] = [line |-> message[p].line, kind |-> message[p].kind,
                              whole |-> FALSE]
    BY <1>0, <1>3, OutGrows
  <2> QED BY <1>0, <1>3, <2>1, OutGrows
<1>5. n <= line /\ ~Owned(n) /\ Owned(n)'
  <2>1. CASE p = Reader
    <3>1. n = line /\ reader = "writing" /\ ledger[n] \in {"new", "refused"}
      BY <1>0, <1>1, <1>3, <2>1 DEF Turns, Standing
    <3> QED BY <1>0, <1>1, <1>2, <2>1, <3>1 DEF Owned, Past
  <2>2. CASE p \in Lines
    <3>1. n = p /\ callback[p] = "writing" /\ ledger[p] = "answered"
      BY <1>0, <1>1, <1>3, <2>2 DEF Turns, Standing
    <3>2. n <= line
      BY <1>0, <1>3, <3>1, ThreadsAre DEF Standing
    <3> QED BY <1>1, <1>2, <3>1, <3>2 DEF Owned, Past
  <2> QED BY <2>1, <2>2, ThreadsAre
<1>6. \A m \in Lines : Undisturbed(m)
  BY <1>1, <1>2, ThreadsAre DEF Undisturbed, Past
<1>7. ReaderUndisturbed
  BY <1>1, <1>2, ThreadsAre DEF ReaderUndisturbed, Past
<1>8. ASSUME NEW m \in Lines, m <= line, Owned(m) PROVE Owned(m)'
  BY <1>0, <1>1, <1>6, <1>7, <1>8, OwnedStays
<1>9. ASSUME NEW i \in 1..Len(out)
      PROVE  /\ out[i].line \in Lines /\ out[i].line <= line
             /\ out'[i].line = out[i].line /\ out[i].line # n
             /\ Owned(out[i].line)'
  <2>1. out[i].line \in Lines /\ out[i].line <= line /\ Owned(out[i].line)
    BY <1>0, LinesOfOut DEF Origin
  <2>2. out'[i].line = out[i].line
    BY <1>4
  <2>3. Owned(out[i].line)'
    BY <1>8, <2>1, <2>2 DEF Owned
  <2> QED BY <1>5, <2>1, <2>2, <2>3
<1>10. \A i \in 1..Len(out') : i \in 1..Len(out) \/ i = Len(out')
  BY <1>4
<1>11. ASSUME NEW i \in 1..Len(out') PROVE out'[i].line <= line' /\ Owned(out[i].line)'
  <2>1. CASE i \in 1..Len(out)
    BY <1>1, <1>9, <2>1
  <2>2. CASE i = Len(out')
    <3>1. out'[i].line = n
      BY <1>4, <2>2
    <3> QED BY <1>1, <1>5, <3>1 DEF Owned
  <2> QED BY <1>10, <2>1, <2>2
<1>12. Unique'
  BY <1>0, <1>4, <1>9, <1>10 DEF Unique
<1> QED BY <1>11, <1>12 DEF Origin

LEMMA OriginStep ==
    ASSUME ServerInv, [Next]_vars
    PROVE  Origin' /\ Unique'
<1> USE ThreadsAre
<1> USE DEF Undisturbed, ReaderUndisturbed
<1>0. Turns /\ Standing /\ line \in Nat /\ Len(out) \in Nat
  BY ServerAssumption DEF ServerInv, ServerTypeOK
<1>1. ASSUME NEW p \in Threads, Write(p) PROVE Origin' /\ Unique'
  <2>1. UNCHANGED <<reader, line, ledger, callback>>
    BY <1>1, WriteFrame
  <2>2. CASE ~WriteBegins(p)
    <3>1. \A q \in Threads : writer[q] \in Past => writer'[q] \in Past
      BY <1>1, <2>2 DEF Write, WriteRefused, WriteEnters, WriteNotes, WriteNothing,
            WriteEnds, WriteBreaks, WriteReturns, WriterGoes, ServerInv,
            ServerTypeOK, Past
    <3>2. /\ Len(out') = Len(out)
          /\ \A i \in 1..Len(out) : out'[i].line = out[i].line
      <4>1. CASE WriteEnds(p)
        BY <4>1, OutEnds DEF WriteEnds, ServerInv, Ends
      <4>2. CASE ~WriteEnds(p)
        BY <1>1, <2>2, <4>2 DEF Write, WriteRefused, WriteEnters, WriteNotes,
              WriteNothing, WriteBreaks, WriteReturns
      <4> QED BY <4>1, <4>2
    <3> QED BY <1>0, <2>1, <3>1, <3>2, OriginKept
  <2> QED BY <2>2, OriginBegins
<1>2. ASSUME NEW in \in Inputs, ReadImmediate(in) PROVE Origin' /\ Unique'
  BY <1>0, <1>2, ImmediateEffect, OriginKept
<1>3. ASSUME NEW in \in Inputs, ReadToolCall(in) PROVE Origin' /\ Unique'
  BY <1>0, <1>3, ToolCallEffect, OriginKept
<1>4. ASSUME NEW in \in Inputs, NEW k \in Keys, ReadCancellation(in, k)
      PROVE  Origin' /\ Unique'
  BY <1>0, <1>4, CancellationEffect, OriginKept
<1>5. CASE ReaderOnly
  BY <1>0, <1>5, ReaderOnlyEffect, OriginKept
<1>6. CASE SubmitAdmitted
  BY <1>0, <1>6, AdmittedEffect, OriginKept
<1>7. ASSUME NEW o \in Outcomes, SubmitRefused(o) PROVE Origin' /\ Unique'
  BY <1>0, <1>7, RefusedEffect, OriginKept DEF Standing
<1>8. CASE WrittenLine
  BY <1>0, <1>8, WrittenLineEffect, OriginKept DEF Past
<1>9. ASSUME NEW c \in Lines, FinishCall(c) PROVE Origin' /\ Unique'
  BY <1>0, <1>9, FinishEffect, OriginKept
<1>10. ASSUME NEW c \in Lines, NEW o \in Outcomes, CallbackWrites(c, o)
       PROVE  Origin' /\ Unique'
  BY <1>0, <1>10, CallbackWritesEffect, OriginKept DEF Standing
<1>11. ASSUME NEW c \in Lines, CallbackWritten(c) PROVE Origin' /\ Unique'
  BY <1>0, <1>11, CallbackWrittenEffect, OriginKept DEF Past
<1>12. ASSUME NEW c \in Lines, CallbackThrows(c) \/ CallbackStops(c)
       PROVE  Origin' /\ Unique'
  BY <1>0, <1>12, CallbackEndsEffect, OriginKept DEF Standing
<1>13. CASE UNCHANGED vars
  BY <1>0, <1>13, OriginKept DEF vars, callVars, inputVars, writeVars
<1> QED
  BY <1>1, <1>2, <1>3, <1>4, <1>5, <1>6, <1>7, <1>8, <1>9, <1>10, <1>11, <1>12,
     <1>13
  DEF Next, ReadStep, ReaderStep, WorkerStep, Exited, ReaderOnly

-----------------------------------------------------------------------------
\* Steps that leave alone what the session and the calls are owed to.
LEMMA HandshakeStep ==
    ASSUME ServerInv, [Next]_vars
    PROVE  Handshake'
<1> USE ThreadsAre DEF Handshake
<1>0. ServerTypeOK /\ Handshake /\ Ends /\ Flags BY DEF ServerInv
<1> USE <1>0
<1>w. Welcomed => Welcomed'
  BY OutStays DEF Welcomed
<1>1. ASSUME NEW p \in Threads, Write(p) PROVE Handshake'
  BY <1>1, <1>w, WriteFrame
<1>2. ASSUME NEW in \in Inputs, ReadImmediate(in) PROVE Handshake'
  BY <1>2, <1>w, ImmediateEffect
<1>3. ASSUME NEW in \in Inputs, ReadToolCall(in) PROVE Handshake'
  BY <1>3, <1>w, ToolCallEffect
<1>4. ASSUME NEW in \in Inputs, NEW k \in Keys, ReadCancellation(in, k)
      PROVE  Handshake'
  BY <1>4, <1>w, CancellationEffect
<1>5. CASE ReaderOnly
  <2>1. Welcomed \/ session = "uninitialized" \/ reader' \in {"stopping", "failing", "exited"}
    BY <1>5, ReaderOnlyEffect
  <2> QED BY <1>5, <1>w, <2>1, ReaderOnlyEffect
<1>6. CASE SubmitAdmitted
  <2>1. session = "ready"
    BY <1>6, AdmittedEffect DEF ServerInv, Standing
  <2> QED BY <1>6, <2>1, <1>w, AdmittedEffect
<1>7. ASSUME NEW o \in Outcomes, SubmitRefused(o) PROVE Handshake'
  <2>1. Welcomed
    BY <1>7, RefusedEffect DEF ServerInv, Standing
  <2> QED BY <2>1, <1>w
<1>8. CASE WrittenLine
  <2>1. CASE message[Reader].kind = "welcome" /\ writer[Reader] = "true"
    <3>1. Welcomed
      BY <2>1 DEF Ends, Delivered, Welcomed
    <3> QED BY <1>w, <3>1
  <2> QED BY <1>8, <2>1, <1>w, WrittenLineEffect
<1>9. ASSUME NEW c \in Lines, FinishCall(c) PROVE Handshake'
  BY <1>9, <1>w, FinishEffect
<1>10. ASSUME NEW c \in Lines, NEW o \in Outcomes, CallbackWrites(c, o)
       PROVE  Handshake'
  BY <1>10, <1>w, CallbackWritesEffect
<1>11. ASSUME NEW c \in Lines, CallbackWritten(c) PROVE Handshake'
  BY <1>11, <1>w, CallbackWrittenEffect
<1>12. ASSUME NEW c \in Lines, CallbackThrows(c) \/ CallbackStops(c)
       PROVE  Handshake'
  BY <1>12, <1>w, CallbackEndsEffect
<1>13. CASE UNCHANGED vars
  BY <1>13, <1>w DEF vars, callVars, inputVars, writeVars
<1> QED
  BY <1>1, <1>2, <1>3, <1>4, <1>5, <1>6, <1>7, <1>8, <1>9, <1>10, <1>11, <1>12,
     <1>13
  DEF Next, ReadStep, ReaderStep, WorkerStep, Exited, ReaderOnly

\* Steps that lose no line on its way.
LEMMA DebtsKept ==
    ASSUME ServerInv, [Next]_vars, "none" \notin Outcomes,
           writerFailed => writerFailed', owed' \subseteq owed \cup {line'},
           (reader' = "writing" /\ line' \in owed') => message'[Reader].kind # "none",
           \A c \in Lines : callback'[c] = "writing" => message'[c].kind # "none",
           line' \in owed \/ line' \notin owed' \/ reader' \in {"submitting", "writing"},
           \A n \in owed : Waits(n) => IsAnswered(n) \/ writerFailed \/ Waits(n)'
    PROVE  Debts'
<1>1. ASSUME NEW n \in owed' PROVE IsAnswered(n)' \/ writerFailed' \/ Waits(n)'
  <2>1. CASE n \in owed
    <3>1. IsAnswered(n) \/ writerFailed \/ Waits(n)'
      BY <2>1 DEF ServerInv, Debts
    <3>2. IsAnswered(n) => IsAnswered(n)'
      BY OutStays DEF IsAnswered
    <3> QED BY <3>1, <3>2
  <2>2. CASE n \notin owed
    BY <1>1, <2>2 DEF Waits
  <2> QED BY <2>1, <2>2
<1>2. \A n \in owed' : IsAnswered(n)' \/ writerFailed' \/ Waits(n)'
  BY <1>1
<1> QED BY <1>2 DEF Debts, IsAnswered, Waits

LEMMA DebtsStep ==
    ASSUME ServerInv, [Next]_vars
    PROVE  Debts'
<1> SUFFICES ASSUME "none" \notin Outcomes PROVE Debts'
  BY DEF Debts
<1> USE ThreadsAre DEF Waits
<1>0. /\ ServerTypeOK /\ Ends /\ Flags /\ Standing /\ Turns
      /\ owed \subseteq Lines
      /\ (reader = "writing" /\ line \in owed) => message[Reader].kind # "none"
      /\ \A c \in Lines : callback[c] = "writing" => message[c].kind # "none"
  BY DEF ServerInv, ServerTypeOK, Debts
<1> USE <1>0
<1>1. ASSUME NEW p \in Threads, Write(p) PROVE Debts'
  <2>1. writerFailed => writerFailed'
    BY <1>1 DEF Write, WriteRefused, WriteEnters, WriteNotes, WriteNothing,
          WriteBegins, WriteEnds, WriteBreaks, WriteReturns, Turns, Flags, Holding
  <2> QED BY <1>1, <2>1, WriteFrame, DebtsKept
<1>2. ASSUME NEW in \in Inputs, ReadImmediate(in) PROVE Debts'
  BY <1>2, ImmediateEffect, DebtsKept
<1>3. ASSUME NEW in \in Inputs, ReadToolCall(in) PROVE Debts'
  BY <1>3, ToolCallEffect, DebtsKept
<1>4. ASSUME NEW in \in Inputs, NEW k \in Keys, ReadCancellation(in, k)
      PROVE  Debts'
  BY <1>4, CancellationEffect, DebtsKept DEF Standing
<1>5. CASE ReaderOnly
  BY <1>5, ReaderOnlyEffect, DebtsKept DEF Standing
<1>6. CASE SubmitAdmitted
  BY <1>6, AdmittedEffect, DebtsKept
<1>7. ASSUME NEW o \in Outcomes, SubmitRefused(o) PROVE Debts'
  BY <1>7, RefusedEffect, DebtsKept
<1>8. CASE WrittenLine
  <2>1. line \in owed => IsAnswered(line) \/ writerFailed
    BY <1>8, WrittenLineEffect DEF Ends, Delivered, IsAnswered, Turns, Flags
  <2> QED BY <1>8, <2>1, WrittenLineEffect, DebtsKept
<1>9. ASSUME NEW c \in Lines, FinishCall(c) PROVE Debts'
  BY <1>9, FinishEffect, DebtsKept
<1>10. ASSUME NEW c \in Lines, NEW o \in Outcomes, CallbackWrites(c, o)
       PROVE  Debts'
  BY <1>10, CallbackWritesEffect, DebtsKept
<1>11. ASSUME NEW c \in Lines, CallbackWritten(c) PROVE Debts'
  <2>1. IsAnswered(c) \/ writerFailed
    BY <1>11, CallbackWrittenEffect DEF Ends, Delivered, IsAnswered, Turns, Flags
  <2> QED BY <1>11, <2>1, CallbackWrittenEffect, DebtsKept
<1>12. ASSUME NEW c \in Lines, CallbackThrows(c) \/ CallbackStops(c)
       PROVE  Debts'
  <2>1. \A n \in Lines : Waits(n) => Waits(n)'
    BY <1>12, CallbackEndsEffect
  <2>2. /\ UNCHANGED <<reader, line, message, owed, writerFailed>>
        /\ \A n \in Lines : callback'[n] = "writing" => callback[n] = "writing"
    BY <1>12, CallbackEndsEffect
  <2> HIDE DEF Waits
  <2> QED BY <2>1, <2>2, DebtsKept
<1>13. CASE UNCHANGED vars
  BY <1>13, DebtsKept DEF vars, callVars, inputVars, writeVars
<1> QED
  BY <1>1, <1>2, <1>3, <1>4, <1>5, <1>6, <1>7, <1>8, <1>9, <1>10, <1>11, <1>12,
     <1>13
  DEF Next, ReadStep, ReaderStep, WorkerStep, Exited, ReaderOnly

\* Once the reader has seen the workers joined, nothing can start again.
LEMMA QuietStep ==
    ASSUME ServerInv, [Next]_vars
    PROVE  Quiet'
<1> USE ThreadsAre DEF Quiet
<1>0. ServerTypeOK /\ Quiet /\ Turns BY DEF ServerInv
<1> USE <1>0
<1>u. Scheduler!Unfinished = {} <=> \A n \in Lines : ledger[n] \notin {"pending", "doomed"}
  BY DEF Scheduler!Unfinished
<1>v. Scheduler!Unfinished' = {} <=> \A n \in Lines : ledger'[n] \notin {"pending", "doomed"}
  BY DEF Scheduler!Unfinished
<1>1. ASSUME NEW p \in Threads, Write(p) PROVE Quiet'
  <2>1. writer[p] # "idle"
    BY <1>1 DEF Write, WriteRefused, WriteEnters, WriteNotes, WriteNothing,
          WriteBegins, WriteEnds, WriteBreaks, WriteReturns
  <2>2. reader # "exited"
    BY <2>1 DEF Turns, Joined
  <2> QED BY <1>1, <2>2, WriteFrame
<1>2. ASSUME NEW in \in Inputs, ReadImmediate(in) PROVE Quiet'
  BY <1>2, ImmediateEffect
<1>3. ASSUME NEW in \in Inputs, ReadToolCall(in) PROVE Quiet'
  BY <1>3, ToolCallEffect
<1>4. ASSUME NEW in \in Inputs, NEW k \in Keys, ReadCancellation(in, k)
      PROVE  Quiet'
  BY <1>4, CancellationEffect
<1>5. CASE ReaderOnly
  BY <1>5, <1>u, <1>v, ReaderOnlyEffect DEF Joined, Status
<1>6. CASE SubmitAdmitted
  BY <1>6, AdmittedEffect
<1>7. ASSUME NEW o \in Outcomes, SubmitRefused(o) PROVE Quiet'
  BY <1>7, RefusedEffect
<1>8. CASE WrittenLine
  BY <1>8, WrittenLineEffect
<1>9. ASSUME NEW c \in Lines, FinishCall(c) PROVE Quiet'
  BY <1>9, <1>u, FinishEffect DEF Joined
<1>10. ASSUME NEW c \in Lines, NEW o \in Outcomes, CallbackWrites(c, o)
       PROVE  Quiet'
  BY <1>10, CallbackWritesEffect DEF Joined
<1>11. ASSUME NEW c \in Lines, CallbackWritten(c) PROVE Quiet'
  BY <1>11, CallbackWrittenEffect DEF Joined
<1>12. ASSUME NEW c \in Lines, CallbackThrows(c) \/ CallbackStops(c)
       PROVE  Quiet'
  BY <1>12, CallbackEndsEffect DEF Joined
<1>13. CASE UNCHANGED vars
  BY <1>13, <1>u, <1>v DEF vars, callVars, inputVars, writeVars, Joined
<1> QED
  BY <1>1, <1>2, <1>3, <1>4, <1>5, <1>6, <1>7, <1>8, <1>9, <1>10, <1>11, <1>12,
     <1>13
  DEF Next, ReadStep, ReaderStep, WorkerStep, Exited, ReaderOnly
-----------------------------------------------------------------------------
\* ServerInv holds in every reachable state of the server: it holds at the
\* start and every step of the reader, of a worker and of write() keeps it.
THEOREM ServerInvariance == Spec => []ServerInv
<1>1. Init => ServerInv
  <2> SUFFICES ASSUME Init PROVE ServerInv
    OBVIOUS
  <2> USE ServerAssumption, ThreadsAre DEF Init, Scheduler!LedgerInit
  <2>1. ServerTypeOK
    <3>1. NoMessage \in Messages
      BY DEF NoMessage, Messages, Kinds
    <3>2. out \in Seq(Responses)
      OBVIOUS
    <3>3. /\ ledger \in [Lines -> Scheduler!Standings] /\ open \in BOOLEAN
          /\ message \in [Threads -> Messages]
          /\ writer \in [Threads -> Holding \cup {"idle", "entering", "true", "false"}]
      BY <3>1 DEF Scheduler!Standings
    <3>4. callback \in [Lines -> {"none", "formatting", "writing", "stopping",
                                  "done", "threw"}]
      OBVIOUS
    <3>5. line \in 0..MaxLines /\ owed \subseteq Lines /\ lock \subseteq Threads
      OBVIOUS
    <3>7. /\ writerFailed \in BOOLEAN /\ diagnosticsBad \in BOOLEAN
          /\ transportFailed \in BOOLEAN /\ final \in BOOLEAN
      OBVIOUS
    <3>6. /\ session = "uninitialized" /\ reader = "reading" /\ exit = "running"
      OBVIOUS
    <3> HIDE DEF Init
    <3> QED BY <3>2, <3>3, <3>4, <3>5, <3>6, <3>7 DEF ServerTypeOK
  <2>2. Turns /\ Flags
    BY DEF Turns, Flags, Holding
  <2>3. Standing /\ Handshake /\ Debts
    BY DEF Standing, Handshake, Debts
  <2>4. Ends /\ Origin /\ Unique
    BY DEF Ends, Origin, Unique
  <2>5. Quiet
    BY DEF Quiet
  <2> QED BY <2>1, <2>2, <2>3, <2>4, <2>5 DEF ServerInv
<1>2. ServerInv /\ [Next]_vars => ServerInv'
  BY TypeStep, TurnsStep, FlagsStep, StandingStep, EndsStep, OriginStep,
     HandshakeStep, DebtsStep, QuietStep
  DEF ServerInv
<1> QED BY <1>1, <1>2, PTL DEF Spec

\* Messages on stdout do not mix: only the last one can be incomplete, and then
\* the writer is closed or somebody is about to close it.
THEOREM MessagesDoNotMix == Spec => []OnlyTheLastIsPartial
<1>1. ServerInv => OnlyTheLastIsPartial
  BY DEF ServerInv, Ends, OnlyTheLastIsPartial
<1> QED BY <1>1, ServerInvariance, PTL

\* No line is answered twice, by reader and callback together, and no call
\* that was cancelled in flight is answered.
THEOREM AtMostOneResponse == Spec => []OneResponsePerLine
<1>1. ASSUME ServerInv PROVE OneResponsePerLine
  BY <1>1 DEF ServerInv, Unique, Origin, Owned, OneResponsePerLine
<1> QED BY <1>1, ServerInvariance, PTL

\* Exit status 0 means that no descriptor failed and every message is whole.
THEOREM ExitTellsFailure == Spec => []FailureIsReported
<1>1. ASSUME ServerInv PROVE FailureIsReported
  <2> SUFFICES ASSUME exit = "0"
               PROVE  /\ ~transportFailed /\ ~writerFailed
                      /\ \A i \in 1..Len(out) : out[i].whole
    BY DEF FailureIsReported
  <2>1. ~transportFailed /\ ~writerFailed
    BY <1>1 DEF ServerInv, Quiet
  <2>2. reader = "exited" /\ Joined
    BY <1>1 DEF ServerInv, Quiet
  <2>3. \A p \in Threads : writer[p] = "idle"
    BY <1>1, <2>2, ThreadsAre DEF ServerInv, Turns, Joined
  <2>4. \A i \in 1..Len(out) : out[i].whole
    BY <1>1, <2>1, <2>3, NothingPartial
  <2> QED BY <2>1, <2>4
<1> QED BY <1>1, ServerInvariance, PTL

\* No call reaches the scheduler before the client had its welcome, whole.
THEOREM NoToolBeforeWelcome == Spec => []ToolsAfterHandshake
<1>1. ServerInv => ToolsAfterHandshake
  BY DEF ServerInv, Handshake, Welcomed, ToolsAfterHandshake
<1> QED BY <1>1, ServerInvariance, PTL

\* Where every response fits, or can be replaced by an error that fits, exit
\* status 0 means that every request read was answered in full, unless it was
\* a cancelled call or one whose result could not be formatted.
THEOREM NothingIsOwed ==
    ASSUME "none" \notin Outcomes
    PROVE  Spec => []CleanExitOwesNothing
<1>1. ASSUME ServerInv PROVE CleanExitOwesNothing
  <2> SUFFICES ASSUME exit = "0", NEW n \in owed
               PROVE  \/ IsAnswered(n) \/ ledger[n] = "suppressed"
                      \/ callback[n] = "threw"
    BY DEF CleanExitOwesNothing
  <2>1. n \in Lines
    BY <1>1 DEF ServerInv, ServerTypeOK
  <2>2. ~writerFailed /\ reader = "exited" /\ Joined
    BY <1>1 DEF ServerInv, Quiet
  <2>3. ledger[n] \notin {"pending", "doomed"} /\ callback[n] \in {"none", "done", "threw"}
    BY <2>1, <2>2 DEF Joined, Scheduler!Unfinished
  <2> QED BY <1>1, <2>2, <2>3 DEF ServerInv, Debts, Waits
<1> QED BY <1>1, ServerInvariance, PTL
=============================================================================
