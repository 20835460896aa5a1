--------------------------- MODULE ProviderExchange ---------------------------
(***************************************************************************)
(* One turn of a remote provider: OpenAICompatibleProvider.turn() with     *)
(* OpenAICompatibleTransport (agent/native_mcp_agent/                      *)
(* openai_compatible.py), or LoopbackFakeTransport.send() (transport.py),  *)
(* with the failure classes of errors.py and decide_retry() of retry.py.   *)
(*                                                                         *)
(* The resolver, the network and the peer are the environment: they answer *)
(* what they like, when they like, or not at all.  Time is the integer     *)
(* now.  A socket timeout bounds one blocking call, so that a peer that    *)
(* sends in pieces restarts it, as often as it likes.  An attempt's cause  *)
(* is what happened to it on the wire, its class what the code makes of    *)
(* that.  Operators whose comment begins with "Fault" are plausible        *)
(* mistakes in the definition that follows.                                *)
(***************************************************************************)
EXTENDS EndpointPolicy, Integers, FiniteSets, SequencesExt

CONSTANTS
    Jobs,             \* bound: what a turn is asked to do (see Job)
    Answers,          \* bound: what the resolver may answer
    AttemptCount,     \* limits.provider_attempt_count
    TurnTimeout,      \* the turn's timeout_ms
    TotalTimeout,     \* limits.provider_total_timeout_ms
    ConnectTimeout,   \* limits.provider_connect_timeout_ms
    ReadTimeout,      \* limits.provider_read_inactivity_timeout_ms
    Backoff,          \* limits.retry_backoff_ms
    RetryAfterLimit,  \* limits.retry_after_ms
    Horizon           \* bound: the clock counts no further

ASSUME ExchangeAssumption ==
    /\ {AttemptCount, TurnTimeout, TotalTimeout, ConnectTimeout, ReadTimeout}
           \subseteq Nat \ {0}
    /\ {Backoff, RetryAfterLimit, Horizon} \subseteq Nat

\* The clock is only ever compared with the deadline and what lies before it:
\* beyond, it need not count.
ASSUME HorizonAssumption == TurnTimeout < Horizon \/ TotalTimeout < Horizon

\* The adapter, with its configuration, or the fake transport, with a caller's
\* own endpoint; what the request and the credential's variable hold.
Job == [via : {"adapter", "fake"}, url : Urls, allow : BOOLEAN,
        connect : Addresses, request : {"sound", "foreign", "large"},
        evidence : BOOLEAN, credential : {"set", "unset"}]

ASSUME InputAssumption ==
    /\ Jobs \subseteq Job
    /\ Answers \subseteq Seq(Addresses \cup {OtherFamily, "no answer"})

VARIABLES
    job,
    pc,
    now, deadline,     \* the clock, and deadline_at
    endpoint,          \* the validated endpoint, or the one of this attempt
    attempt,
    socket, left,      \* the socket's timeout, and what is left of it
    reply,             \* status, type, length and Retry-After, once read
    last,              \* the class and delay of the failed attempt
    causes, classes,   \* of every attempt that failed
    posts,             \* requests put on the wire
    wake,              \* the end of the sleep
    cancelled,
    result

exchange == <<attempt, endpoint, socket, left, reply>>
account == <<last, causes, classes, wake>>
still == <<job, now, deadline, posts, cancelled>>
vars == <<pc, exchange, account, still, result>>

NoReply == [status |-> 0, json |-> FALSE, length |-> "none", after |-> -1]
Running == [ok |-> FALSE, class |-> "none"]
Production == ~endpoint.loopback

Init ==
    /\ job \in Jobs
    /\ pc = "turn" /\ now = 0 /\ deadline = 0 /\ endpoint = Rejected("none")
    /\ attempt = 0 /\ socket = 0 /\ left = 0 /\ reply = NoReply
    /\ last = [class |-> "none", after |-> -1]
    /\ causes = <<>> /\ classes = <<>> /\ posts = <<>> /\ wake = 0
    /\ cancelled = FALSE /\ result = Running

-----------------------------------------------------------------------------
(* errors.py and retry.py                                                  *)

\* http_failure()
HttpFailure(status) ==
    CASE status \in {408, 429} -> "retryable_status"
      [] status \in 500..599 -> "transient_5xx"
      [] OTHER -> "permanent_status"

\* ClassifiedFailure.retryable
Retryable(class) ==
    class \in {"retryable_status", "transient_5xx", "dns_or_connection_failure",
               "connect_timeout"}

\* _retry_after(): a header that is not a plain number, or above the limit, is
\* as good as none.
RetryAfter(header) == IF header \in 0..RetryAfterLimit THEN header ELSE -1

Delay(after) ==
    IF after = -1 THEN Min({Backoff, RetryAfterLimit}) ELSE after

\* Fault: one attempt too many.
DecideRetryAgain(class, after, remaining) ==
    /\ Retryable(class) /\ attempt <= AttemptCount
    /\ remaining > 0 /\ Delay(after) <= remaining

\* decide_retry()
DecideRetry(class, after, remaining) ==
    /\ Retryable(class) /\ attempt < AttemptCount
    /\ remaining > 0 /\ Delay(after) <= remaining

-----------------------------------------------------------------------------
Finish(r) == pc' = "done" /\ result' = r
Raise(class) == Finish([ok |-> FALSE, class |-> class])

\* OpenAICompatibleProvider.turn() up to the transport: the checks in order.
\* Resolving a loopback name is part of validated_endpoint().
Validated(answer) ==
    IF job.via = "fake"
    THEN LET e == Endpoint(job.url, job.connect, TRUE) IN
         IF LoopbackTransport(e) THEN e ELSE Rejected("endpoint_policy_rejection")
    ELSE IF job.allow THEN ValidateFake(job.url, TRUE, answer)
    ELSE ValidateProduction(job.url, TRUE)

\* openai_request_bytes(), or the fake transport's look at the request.
RequestFailure ==
    IF job.request = "foreign" /\ job.via = "adapter" THEN "local_authorization_failure"
    ELSE IF job.request = "large" THEN "request_too_large_before_transmission" ELSE "none"

\* The credential, send_production() or send_loopback(), and the checks of
\* _send() before its loop.
SendFailure(e) ==
    IF ~e.loopback /\ job.credential = "unset" THEN "credential_unavailable"
    ELSE IF e.loopback /\ ~LoopbackTransport(e) THEN "endpoint_policy_rejection"
    ELSE "none"

Turn(answer) ==
    LET e == Validated(answer) IN
    /\ pc = "turn"
    /\ IF cancelled /\ job.via = "adapter" THEN Raise("cancelled")
       ELSE IF job.evidence /\ job.via = "adapter" THEN Raise("local_policy_failure")
       ELSE IF ~e.ok THEN Raise(e.class)
       ELSE IF RequestFailure # "none" THEN Raise(RequestFailure)
       ELSE IF SendFailure(e) # "none" THEN Raise(SendFailure(e))
       ELSE pc' = "loop" /\ UNCHANGED result
    /\ endpoint' = e
    /\ deadline' = now + Min({TurnTimeout, TotalTimeout})
    /\ UNCHANGED <<job, now, posts, cancelled, attempt, socket, left, reply, account>>

\* The head of the loop over attempts.
Attempt ==
    /\ pc = "loop"
    /\ IF now >= deadline THEN Raise("total_request_timeout") /\ UNCHANGED attempt
       ELSE /\ attempt' = attempt + 1
            /\ pc' = IF Production THEN "resolve" ELSE "open"
            /\ UNCHANGED result
    /\ reply' = NoReply
    /\ UNCHANGED <<still, endpoint, socket, left, account>>

\* The end of an attempt that failed: its cause, and what the code calls it.
FailsAfter(cause, class, after) ==
    /\ last' = [class |-> class, after |-> after]
    /\ causes' = Append(causes, [what |-> cause, status |-> reply.status])
    /\ classes' = Append(classes, class)
    /\ pc' = "decide"
    /\ UNCHANGED <<wake, result>>

Fails(cause, class) == FailsAfter(cause, class, -1)

\* DNS is refreshed before every production connection.
Resolve(answer) ==
    LET fresh == ResolveProduction([endpoint EXCEPT !.connect = endpoint.host], answer) IN
    /\ pc = "resolve"
    /\ IF fresh.ok
       THEN endpoint' = fresh /\ pc' = "open" /\ UNCHANGED <<account, result>>
       ELSE /\ UNCHANGED endpoint
            /\ Fails(IF fresh.class = "dns_or_connection_failure"
                     THEN "no connection" ELSE "forbidden address", fresh.class)
    /\ UNCHANGED <<still, attempt, socket, left, reply>>

\* Fault: the connection's timeout does not look at the deadline.
ConnectWaitUncapped == ConnectTimeout

ConnectWait == Min({deadline - now, ConnectTimeout})

\* _one_attempt() before it connects.
Open ==
    /\ pc = "open"
    /\ IF now >= deadline
       THEN Fails("no time", "connect_timeout") /\ UNCHANGED <<socket, left>>
       ELSE /\ socket' = ConnectWait /\ left' = ConnectWait
            /\ pc' = "connecting" /\ UNCHANGED <<account, result>>
    /\ UNCHANGED <<still, endpoint, attempt, reply>>

\* The TCP connection is there; the whole TLS handshake has the socket's
\* timeout for itself.
Connected ==
    /\ pc = "connecting"
    /\ pc' = IF Production THEN "handshake" ELSE "post"
    /\ left' = socket
    /\ UNCHANGED <<still, endpoint, attempt, socket, reply, account, result>>

Handshaken ==
    /\ pc = "handshake" /\ pc' = "post"
    /\ UNCHANGED <<still, exchange, account, result>>

CertificateRejected ==
    /\ pc = "handshake" /\ Fails("bad certificate", "tls_verification_failure")
    /\ UNCHANGED <<still, exchange>>

\* _set_read_timeout()
ReadWait == Min({deadline - now, ReadTimeout})

\* request(): the write begins, under the timeout of the connection.
Post ==
    /\ pc = "post" /\ pc' = "writing" /\ left' = socket
    /\ posts' = Append(posts, [attempt |-> attempt, to |-> endpoint.connect,
                               tls |-> Production, credential |-> Production,
                               at |-> now])
    /\ UNCHANGED <<job, now, deadline, cancelled, endpoint, attempt, socket, reply,
                   account, result>>

\* _set_read_timeout() in an attempt that goes on with next.
SetReadTimeout(next) ==
    IF now >= deadline
    THEN Fails("no time", "total_request_timeout") /\ UNCHANGED <<socket, left>>
    ELSE /\ socket' = ReadWait /\ left' = ReadWait
         /\ pc' = next /\ UNCHANGED <<account, result>>

\* The whole request was taken; the deadline is looked at after it.
Written ==
    /\ pc = "writing" /\ SetReadTimeout("response")
    /\ UNCHANGED <<still, endpoint, attempt, reply>>

Replies ==
    [status : {200, 302, 400, 429, 503, 600}, json : {TRUE}, length : {"exact"},
     after : {-1}]
    \cup [status : {200}, json : BOOLEAN, length : {"none", "bad", "huge", "exact"},
          after : {-1}]
    \cup [status : {429}, json : {TRUE}, length : {"exact"}, after : {0, 2, 9}]

\* Status line and headers: what ends the attempt before the body.
Headers(r) ==
    /\ pc = "response" /\ reply' = r
    /\ IF r.status \notin 100..599
       THEN Fails("bad status", "malformed_http_response") /\ UNCHANGED <<socket, left>>
       ELSE IF r.status \in 300..399
       THEN Fails("redirect", "redirect_rejected") /\ UNCHANGED <<socket, left>>
       ELSE IF r.length \in {"bad", "huge"}
       THEN /\ Fails(r.length, IF r.length = "bad" THEN "truncated_response"
                               ELSE "oversized_response")
            /\ UNCHANGED <<socket, left>>
       ELSE SetReadTimeout("body")
    /\ UNCHANGED <<still, endpoint, attempt>>

\* Something that is no HTTP status line.
NotHttp ==
    /\ pc = "response"
    /\ Fails("not http", "dns_or_connection_failure")
    /\ UNCHANGED <<still, exchange>>

\* A part of the request is taken, or a byte of an answer that is to come: "100
\* Continue" without end, a header, a trailer line.  Each restarts the
\* socket's timeout, and the deadline is not looked at before the call is over.
Piece ==
    /\ pc \in {"writing", "response", "body"}
    /\ left' = socket
    /\ UNCHANGED <<still, pc, endpoint, attempt, socket, reply, account, result>>

\* Between two reads of the body the deadline is looked at.
Chunk ==
    /\ pc = "body" /\ SetReadTimeout("body")
    /\ UNCHANGED <<still, endpoint, attempt, reply>>

Status(r) ==
    IF r.status \notin 200..299
    THEN FailsAfter("status", HttpFailure(r.status), RetryAfter(r.after))
    ELSE Fails("not json", "invalid_content_type")

\* Fault: the type of a 2xx answer is not looked at.
BodyAnyType(end) ==
    CASE end = "short" /\ reply.length = "exact" -> Fails("short", "truncated_response")
      [] end = "over" -> Fails("over", "oversized_response")
      [] end = "cut" -> Fails("cut", IF job.via = "fake" THEN "truncated_response"
                                     ELSE "dns_or_connection_failure")
      [] OTHER -> IF reply.status \in 200..299
                  THEN pc' = "parse" /\ UNCHANGED <<account, result>>
                  ELSE Status(reply)

\* How the body ends: whole, before or after its declared or greatest length,
\* or in the middle of a chunk.
Body(end) ==
    CASE end = "short" /\ reply.length = "exact" -> Fails("short", "truncated_response")
      [] end = "over" -> Fails("over", "oversized_response")
      [] end = "cut" -> Fails("cut", IF job.via = "fake" THEN "truncated_response"
                                     ELSE "dns_or_connection_failure")
      [] OTHER -> IF reply.status \in 200..299 /\ reply.json
                  THEN pc' = "parse" /\ UNCHANGED <<account, result>>
                  ELSE Status(reply)

\* A body may be cut that comes in chunks, with a declared length or without.
\* The read that finds the end is not reached after the deadline.
BodyEnds(end) ==
    /\ pc = "body"
    /\ IF now >= deadline /\ end \in {"whole", "short"}
       THEN Fails("no time", "total_request_timeout")
       ELSE Body(end)
    /\ UNCHANGED <<still, exchange>>

\* The adapter parses after the loop, and looks at the cancellation before.
Parsed(valid) ==
    /\ pc = "parse"
    /\ IF job.via = "adapter" /\ cancelled
       THEN Raise("cancelled") /\ UNCHANGED account
       ELSE IF valid THEN Finish([ok |-> TRUE, class |-> "none"]) /\ UNCHANGED account
       ELSE IF job.via = "adapter"
       THEN Raise("unsupported_provider_content") /\ UNCHANGED account
       ELSE Fails("not json", "unsupported_provider_content")
    /\ UNCHANGED <<still, exchange>>

Blocking == {"connecting", "handshake", "writing", "response", "body"}

\* Fault: the sockets have no timeout.
TimeoutNever == FALSE /\ UNCHANGED vars

\* A socket timeout.  One during the handshake is still in connect().
Timeout ==
    /\ pc \in Blocking /\ left = 0
    /\ IF pc \in {"connecting", "handshake"} THEN Fails("no connection", "connect_timeout")
       ELSE Fails("no answer", IF now >= deadline THEN "total_request_timeout"
                               ELSE "read_timeout")
    /\ UNCHANGED <<still, exchange>>

\* The connection is refused or reset, before or after the request went out.
Reset ==
    /\ pc \in Blocking \cup {"post"}
    /\ Fails("no connection", "dns_or_connection_failure")
    /\ UNCHANGED <<still, exchange>>

\* The loop's second look at the clock, before it sleeps, is one step with
\* decide_retry()'s.
Decide ==
    LET remaining == IF now >= deadline THEN 0 ELSE deadline - now IN
    /\ pc = "decide"
    /\ IF ~DecideRetry(last.class, last.after, remaining)
       THEN /\ Raise(IF Retryable(last.class) /\ attempt >= AttemptCount /\ AttemptCount > 1
                     THEN "retry_exhausted" ELSE last.class)
            /\ UNCHANGED wake
       ELSE wake' = now + Delay(last.after) /\ pc' = "sleep" /\ UNCHANGED result
    /\ UNCHANGED <<still, exchange, last, causes, classes>>

Awake ==
    /\ pc = "sleep" /\ now >= wake
    /\ pc' = "loop"
    /\ UNCHANGED <<still, exchange, account, result>>

\* Time passes while something blocks: the resolver for as long as it likes,
\* a socket until its timeout, a sleep until its end.
Tick ==
    /\ now' = IF now < Horizon THEN now + 1 ELSE now
    /\ \/ pc = "resolve" /\ UNCHANGED left
       \/ pc \in Blocking /\ left > 0 /\ left' = left - 1
       \/ pc = "sleep" /\ now < wake /\ UNCHANGED left
    /\ UNCHANGED <<pc, job, deadline, posts, cancelled, attempt, endpoint, socket,
                   reply, account, result>>

Cancel ==
    /\ ~cancelled /\ pc # "done" /\ cancelled' = TRUE
    /\ UNCHANGED <<pc, job, now, deadline, posts, exchange, account, result>>

-----------------------------------------------------------------------------
\* What the turn's own thread does, and what ends a call it blocks in.
TurnStep ==
    \/ \E answer \in Answers : Turn(answer) \/ Resolve(answer)
    \/ Attempt \/ Open \/ Post \/ Timeout \/ Decide \/ Awake
    \/ \E valid \in BOOLEAN : Parsed(valid)

PeerStep ==
    \/ Connected \/ Handshaken \/ CertificateRejected \/ Written \/ NotHttp \/ Piece
    \/ Chunk \/ Reset
    \/ \E r \in Replies : Headers(r)
    \/ \E end \in {"whole", "short", "over", "cut"} : BodyEnds(end)

Returned == pc = "done" /\ UNCHANGED vars

Next == TurnStep \/ PeerStep \/ Tick \/ Cancel \/ Returned

Spec == Init /\ [][Next]_vars

\* The thread runs, the resolver answers in the end and the clock advances;
\* what TurnReturns needs of the peer, it says itself.
FairSpec == Spec /\ WF_vars(TurnStep) /\ WF_vars(Tick)
=============================================================================
