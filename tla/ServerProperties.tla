-------------------------- MODULE ServerProperties --------------------------
(***************************************************************************)
(* What makes the protocol server correct.                                 *)
(***************************************************************************)
EXTENDS StdioServer

\* No message follows a partially written one: callbacks and the reader take
\* turns in write(), and once a message broke off the writer stays closed.
OnlyTheLastIsPartial ==
    \A i \in 1..Len(out) :
        ~out[i].whole => i = Len(out) /\ (lock = {} => writerFailed)

\* A line gets at most one response, whether the reader or a callback writes
\* it, and a call that was cancelled in flight gets none.
OneResponsePerLine ==
    \A i \in 1..Len(out) :
        /\ \A j \in 1..Len(out) : out[i].line = out[j].line => i = j
        /\ ledger[out[i].line] \notin {"doomed", "suppressed"}

IsAnswered(n) == \E i \in 1..Len(out) : out[i].line = n /\ out[i].whole

\* When the server exits with status 0, every request it has read was answered
\* in full - the last callbacks are waited for - unless it was a call that was
\* cancelled, or one whose result could not be formatted.
CleanExitOwesNothing ==
    exit = "0" => \A n \in owed :
                      \/ IsAnswered(n)
                      \/ ledger[n] = "suppressed"
                      \/ callback[n] = "threw"

\* The exit status is the authoritative signal of a failed transport, also when
\* it failed in a callback after the reader had seen EOF.
FailureIsReported ==
    exit = "0" => ~transportFailed /\ ~writerFailed
                    /\ \A i \in 1..Len(out) : out[i].whole

\* A call reaches the scheduler only in a session whose client was sent the
\* result of initialize, whole; a response that did not fit advances nothing.
ToolsAfterHandshake ==
    \A n \in Lines :
        ledger[n] # "new" =>
            \E i \in 1..Len(out) : out[i].kind = "welcome" /\ out[i].whole
-----------------------------------------------------------------------------
\* The inductive invariant behind these five (ServerProofs).

Kinds == {"welcome", "result", "error", "tool"} \cup Outcomes
Messages == [line : 0..MaxLines, kind : Kinds \cup {"none"}, noted : BOOLEAN]
Responses == [line : Lines, kind : Kinds, whole : BOOLEAN]
Holding == {"noting", "answering", "resuming", "checking"}

ServerTypeOK ==
    /\ session \in {"uninitialized", "awaiting", "ready"}
    /\ open \in BOOLEAN /\ ledger \in [Lines -> Scheduler!Standings]
    /\ reader \in {"reading", "submitting", "admitted", "accepted", "writing",
                   "closing", "stopping", "draining", "failing", "exited"}
    /\ line \in 0..MaxLines /\ final \in BOOLEAN
    /\ callback \in [Lines -> {"none", "formatting", "writing", "stopping",
                               "done", "threw"}]
    /\ writer \in [Threads -> Holding \cup {"idle", "entering", "true", "false"}]
    /\ message \in [Threads -> Messages]
    /\ lock \subseteq Threads
    /\ {writerFailed, diagnosticsBad, transportFailed} \subseteq BOOLEAN
    /\ owed \subseteq Lines
    /\ out \in Seq(Responses)
    /\ exit \in {"running", "0", "74"}

\* Who is in write(), with which message, and who has its mutex.
Turns ==
    /\ \A p \in Threads : p \in lock <=> writer[p] \in Holding
    /\ \A p, q \in lock : p = q
    /\ reader = "writing" <=> writer[Reader] # "idle"
    /\ reader = "writing" => message[Reader].line = line
    /\ \A c \in Lines : /\ callback[c] = "writing" <=> writer[c] # "idle"
                        /\ callback[c] = "writing" => message[c].line = c

\* A failure of the writer is one of the connection; a false return tells of
\* it, and while somebody writes none has happened.
Flags ==
    /\ diagnosticsBad \/ writerFailed => transportFailed
    /\ lock # {} => ~writerFailed
    /\ \A p \in Threads : writer[p] = "false" => writerFailed
    /\ \A c \in Lines : callback[c] = "stopping" => writerFailed

\* How far each call is: where its line is read, refused, finished, answered.
Standing ==
    /\ reader \in {"submitting", "admitted", "accepted", "writing"} => line \in Lines
    /\ \A n \in Lines : n > line => ledger[n] = "new" /\ n \notin owed
    /\ reader = "submitting" => ledger[line] = "new" /\ session = "ready"
    /\ reader = "admitted" => ledger[line] \in {"pending", "doomed"}
    /\ reader = "writing" => ledger[line] \in {"new", "refused"}
    /\ \A n \in Lines : callback[n] # "none" <=> ledger[n] = "answered"

\* Message p has gone out whole.
Delivered(p) ==
    \E i \in 1..Len(out) : /\ out[i].line = message[p].line
                           /\ out[i].kind = message[p].kind /\ out[i].whole

\* The end of stdout, and what write() has achieved when it returns.
Ends ==
    /\ \A i \in 1..Len(out) : ~out[i].whole =>
          /\ i = Len(out)
          /\ \/ writerFailed
             \/ \E p \in lock : /\ message[p].kind # "none"
                                /\ \/ writer[p] = "resuming"
                                   \/ writer[p] = "checking" /\ transportFailed
    /\ \A p \in Threads :
          /\ writer[p] = "resuming" =>
                /\ message[p].kind # "none" /\ Len(out) > 0
                /\ out[Len(out)].line = message[p].line
                /\ out[Len(out)].kind = message[p].kind
                /\ ~out[Len(out)].whole
          /\ (writer[p] = "checking" /\ message[p].kind # "none") =>
                transportFailed \/ Delivered(p)
          /\ (writer[p] = "true" /\ message[p].kind # "none") => Delivered(p)

Past == {"idle", "resuming", "checking", "true", "false"}

\* The response to line n is the callback's, or the reader's, and whoever wrote
\* it is past the point where it would be written again.
Owned(n) ==
    \/ /\ ledger[n] = "answered"
       /\ callback[n] \in {"writing", "stopping", "done"}
       /\ writer[n] \in Past
    \/ /\ ledger[n] \in {"new", "refused"}
       /\ n = line => /\ writer[Reader] \in Past
                      /\ reader \notin {"submitting", "admitted", "accepted"}

Origin == \A i \in 1..Len(out) : out[i].line <= line /\ Owned(out[i].line)

Unique == \A i, j \in 1..Len(out) : out[i].line = out[j].line => i = j

Welcomed == \E i \in 1..Len(out) : out[i].kind = "welcome" /\ out[i].whole

\* The session is ahead of the client by the response being written at most.
Handshake ==
    /\ session # "uninitialized" =>
          \/ Welcomed
          \/ reader = "writing" /\ message[Reader].kind = "welcome"
          \/ reader \in {"stopping", "failing", "exited"}
    /\ \A n \in Lines : ledger[n] # "new" => Welcomed

\* Line n is on its way: with the reader, the scheduler or its callback.
Waits(n) ==
    \/ ledger[n] \in {"pending", "doomed", "suppressed"}
    \/ callback[n] \in {"formatting", "writing", "threw"}
    \/ n = line /\ reader \in {"submitting", "writing"}

\* Where the response to a request is, as long as every response fits.
Debts ==
    "none" \notin Outcomes =>
        /\ (reader = "writing" /\ line \in owed) => message[Reader].kind # "none"
        /\ \A c \in Lines : callback[c] = "writing" => message[c].kind # "none"
        /\ \A n \in owed : IsAnswered(n) \/ writerFailed \/ Waits(n)

\* After the exit nothing is left to happen.
Quiet ==
    /\ reader = "exited" <=> exit # "running"
    /\ reader = "exited" => Joined
    /\ exit = "0" => ~writerFailed /\ ~transportFailed

ServerInv ==
    /\ ServerTypeOK /\ Turns /\ Flags /\ Standing /\ Ends /\ Origin /\ Unique
    /\ Handshake /\ Debts /\ Quiet
-----------------------------------------------------------------------------
\* Liveness, under Fairness.

\* A connection that failed, in whichever thread, ends the server, with 74.
FailureStopsServer == transportFailed ~> exit = "74"

\* The end of input ends the server: admission closes and accepted work drains.
EndOfInputExits == final \/ reader = "closing" ~> exit # "running"
-----------------------------------------------------------------------------
\* finish() may ignore what the completion throws because the sink keeps track
\* of protocol output failures: a clean exit means every call that was accepted
\* and not cancelled had its response written.
AcceptedWorkIsAnswered ==
    exit = "0" => \A n \in owed : ledger[n] = "answered" => IsAnswered(n)
=============================================================================
