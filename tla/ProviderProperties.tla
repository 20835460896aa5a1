-------------------------- MODULE ProviderProperties --------------------------
(***************************************************************************)
(* The properties of one provider turn (ProviderExchange).                 *)
(***************************************************************************)
EXTENDS ProviderExchange

\* The credential goes out only inside TLS to a global address, of an answer
\* that held nothing else, in a turn whose configuration asked for it; all
\* other requests go to loopback, also when a caller builds the endpoint.
CredentialConfined ==
    \A i \in DOMAIN posts :
        IF posts[i].credential
        THEN /\ posts[i].tls /\ posts[i].to \in Global
             /\ job.via = "adapter" /\ ~job.allow /\ job.credential = "set"
        ELSE posts[i].to \in Loopback

Refusing == {"forbidden address", "bad certificate", "redirect", "bad status",
             "bad", "huge", "short", "over", "not json", "no answer"}

Transient(c) ==
    /\ c.what \notin Refusing
    /\ c.what = "status" => c.status \in {408, 429} \cup 500..599

\* A turn makes at most AttemptCount attempts, each with at most one POST, and
\* another attempt follows only what may pass by itself: never a refusal, a
\* redirect, a bad certificate, a forbidden address, an answer that is not what
\* was asked for, or silence after the request went out.  (A peer that does not
\* speak HTTP and a chunked body cut short count as connection failures.)
OnlyTransientRetried ==
    /\ attempt <= AttemptCount /\ Len(posts) <= attempt
    /\ \A i, j \in DOMAIN posts : posts[i].attempt = posts[j].attempt => i = j
    /\ \A i \in 1..attempt - 1 : Transient(causes[i])

\* What the turn returns is what happened: a result needs a whole 2xx JSON
\* answer to the last POST; "retry_exhausted" means that every attempt was
\* used and failed transiently; otherwise the class is that of the last
\* failure, of the deadline, or of the cancellation.
ResultIsTruth ==
    pc = "done" =>
        /\ result.ok => /\ reply.status \in 200..299 /\ reply.json
                        /\ Len(causes) = attempt - 1
                        /\ posts # <<>> /\ Last(posts).attempt = attempt
        /\ result.class = "retry_exhausted" =>
               /\ Len(causes) = AttemptCount
               /\ \A i \in DOMAIN classes : Retryable(classes[i])
        /\ result.class = "cancelled" => cancelled
        /\ (attempt > 0 /\ ~result.ok /\ result.class # "cancelled") =>
               \/ causes # <<>> /\ result.class = Last(classes)
               \/ result.class \in {"retry_exhausted", "unsupported_provider_content"}
               \/ result.class = "total_request_timeout" /\ now >= deadline

\* Over plain HTTP no request's write begins after the deadline, and no sleep
\* between two attempts is planned beyond it.
InTime ==
    /\ \A i \in DOMAIN posts : posts[i].tls \/ posts[i].at <= deadline
    /\ pc = "sleep" => wake <= deadline

-----------------------------------------------------------------------------
\* The inductive invariant behind these four (ProviderProofs).

\* The classes of errors.py that a turn can meet.
FailureClasses ==
    {"endpoint_policy_rejection", "insecure_scheme", "tls_verification_failure",
     "dns_or_connection_failure", "local_authorization_failure",
     "request_too_large_before_transmission", "credential_unavailable",
     "connect_timeout", "read_timeout", "total_request_timeout",
     "malformed_http_response", "redirect_rejected", "truncated_response",
     "oversized_response", "retryable_status", "transient_5xx",
     "permanent_status", "invalid_content_type", "unsupported_provider_content",
     "local_policy_failure"}

\* Where a turn is: in an attempt, before or after its POST, between two, ...
BeforePost == {"resolve", "open", "connecting", "handshake", "post"}
AfterPost == {"writing", "response", "body", "parse"}
InAttempt == BeforePost \cup AfterPost
Between == {"loop", "sleep"}
Underway == InAttempt \cup Between \cup {"decide"}

Hosts == Names \cup Addresses \cup {OtherFamily, "no answer"}
Endpoints == [ok : {TRUE}, url : Urls, scheme : {"http", "https"},
              host : Hosts, connect : Hosts, port : 0..3, loopback : BOOLEAN]
Happenings == Refusing \cup {"no connection", "no time", "not http", "cut", "status"}
Causes == [what : Happenings, status : Int]
Posts == [attempt : Nat, to : Hosts, tls : BOOLEAN, credential : BOOLEAN, at : Nat]

ExchangeTypeOK ==
    /\ job \in Job
    /\ pc \in {"turn", "done"} \cup Underway
    /\ now \in Nat /\ deadline \in Nat /\ socket \in Int /\ left \in Int
    /\ wake \in Int /\ attempt \in Nat
    /\ pc \in Underway => endpoint \in Endpoints
    /\ reply \in Replies \cup {NoReply}
    /\ last.after \in Int
    /\ causes \in Seq(Causes) /\ classes \in Seq(FailureClasses)
    /\ posts \in Seq(Posts)
    /\ cancelled \in BOOLEAN

\* One cause and one class for every attempt that failed, and only the last
\* class may be one that is not tried again.
Attempts ==
    /\ Len(causes) = Len(classes)
    /\ attempt <= AttemptCount
    /\ pc = "turn" => attempt = 0 /\ Len(causes) = 0
    /\ pc \in Between => Len(causes) = attempt /\ attempt < AttemptCount
    /\ pc \in InAttempt => Len(causes) = attempt - 1 /\ attempt > 0
    /\ pc = "decide" => /\ Len(causes) = attempt /\ attempt > 0
                        /\ last.class = classes[Len(classes)]
    /\ pc = "done" => Len(causes) = attempt \/ Len(causes) = attempt - 1
    /\ \A i \in 1..Len(causes) :
          /\ Retryable(classes[i]) => Transient(causes[i])
          /\ i < attempt \/ pc \in Between => Retryable(classes[i])

\* The POSTs are of different attempts, in their order.
Posted ==
    /\ \A i \in 1..Len(posts) : i <= posts[i].attempt /\ posts[i].attempt <= attempt
    /\ \A i, j \in 1..Len(posts) : i < j => posts[i].attempt < posts[j].attempt
    /\ pc \in BeforePost => \A i \in 1..Len(posts) : posts[i].attempt < attempt
    /\ pc \in AfterPost => Len(posts) > 0 /\ posts[Len(posts)].attempt = attempt
    /\ pc = "parse" => reply.status \in 200..299 /\ reply.json
    /\ pc = "turn" => Len(posts) = 0

\* Where the next POST would go.
Bound ==
    pc \in Underway =>
        IF endpoint.loopback
        THEN endpoint.connect \in Loopback /\ pc \notin {"resolve", "handshake"}
        ELSE /\ job.via = "adapter" /\ ~job.allow /\ job.credential = "set"
             /\ pc \in BeforePost \ {"resolve"} => endpoint.connect \in Global

\* What the clock has left.
Clock ==
    /\ pc = "connecting" => left >= 0 /\ now + left <= deadline
    /\ (pc = "post" /\ endpoint.loopback) => now <= deadline

\* The verdict, where ResultIsTruth speaks of it.
Verdict ==
    /\ pc # "done" => result = Running
    /\ ResultIsTruth

ExchangeInv ==
    /\ ExchangeTypeOK /\ Attempts /\ Posted /\ Bound /\ Clock /\ Verdict
    /\ CredentialConfined /\ InTime
-----------------------------------------------------------------------------
\* turn() returns whatever the peer does or leaves undone, unless it sends pieces
\* of one answer for ever, each before the socket's timeout: what it may cost is
\* then bounded by nothing.  A body alone does not do it, however many parts it
\* comes in.  (A request is written in a bounded number of pieces.)
TurnReturns == <>[][~Piece]_vars => (pc = "loop" ~> pc = "done")
=============================================================================
