---------------------------- MODULE ProviderProofs ----------------------------
(***************************************************************************)
(* Proofs about ProviderExchange, for every set of jobs, every answer of   *)
(* the resolver and every limit: ExchangeInv is an inductive invariant,    *)
(* and the safety properties of ProviderProperties follow from it.         *)
(***************************************************************************)
EXTENDS ProviderProperties, SequenceTheorems, TLAPS

LEMMA MinOfTwo ==
    ASSUME NEW a \in Int, NEW b \in Int
    PROVE  Min({a, b}) \in {a, b} /\ Min({a, b}) <= a /\ Min({a, b}) <= b
<1>1. \E x \in {a, b} : \A y \in {a, b} : x <= y
  <2>1. CASE a <= b BY <2>1
  <2>2. CASE b <= a BY <2>2
  <2> QED BY <2>1, <2>2
<1> QED BY <1>1 DEF Min

LEMMA AppendIs ==
    ASSUME NEW S, NEW s \in Seq(S), NEW e \in S
    PROVE  /\ Append(s, e) \in Seq(S)
           /\ Len(s) \in Nat /\ Len(Append(s, e)) = Len(s) + 1
           /\ \A i \in 1..Len(s) : Append(s, e)[i] = s[i]
           /\ Append(s, e)[Len(s) + 1] = e
OBVIOUS

-----------------------------------------------------------------------------
\* What endpoint_policy.py lets through.

LEMMA EndpointIs ==
    ASSUME NEW u \in Urls, NEW c \in Hosts, NEW b \in BOOLEAN
    PROVE  /\ Endpoint(u, c, b) \in Endpoints
           /\ Endpoint(u, c, b).connect = c /\ Endpoint(u, c, b).loopback = b
<1>1. /\ u.scheme \in {"http", "https"} /\ u.host \in Hosts /\ u.port \in 0..3
  BY DEF Urls, Hosts
<1>2. (IF u.port = 0 THEN 1 ELSE u.port) \in 0..3
  BY <1>1
<1> QED BY <1>1, <1>2 DEF Endpoint, Endpoints

LEMMA AnswerIs ==
    ASSUME NEW answer \in Answers, answer \notin {NoAnswer, <<>>}
    PROVE  1 \in DOMAIN answer /\ answer[1] \in Hosts
<1>1. answer \in Seq(Addresses \cup {OtherFamily, "no answer"})
  BY InputAssumption
<1>2. Len(answer) # 0 /\ Len(answer) \in Nat /\ DOMAIN answer = 1..Len(answer)
  BY <1>1, EmptySeq, LenProperties
<1>3. 1 \in DOMAIN answer
  BY <1>2
<1>4. answer[1] \in Addresses \cup {OtherFamily, "no answer"}
  BY <1>1, <1>2, <1>3, ElementOfSeq
<1> QED BY <1>3, <1>4 DEF Hosts

\* What a rejection says, and that nothing else is one.
LEMMA RejectedIs ==
    ASSUME NEW class
    PROVE  ~Rejected(class).ok /\ Rejected(class).class = class
BY DEF Rejected

\* validated_endpoint(): a loopback endpoint, or the production endpoint of a
\* configuration that does not ask for the fake.
LEMMA ValidatedIs ==
    ASSUME job \in Job, NEW answer \in Answers
    PROVE  LET e == Validated(answer) IN
           \/ ~e.ok /\ e.class \in {"endpoint_policy_rejection", "insecure_scheme",
                                    "tls_verification_failure"}
           \/ /\ e.ok /\ e \in Endpoints
              /\ IF e.loopback THEN e.connect \in Loopback
                 ELSE job.via = "adapter" /\ ~job.allow
<1>0. /\ job.url \in Urls /\ job.connect \in Hosts /\ job.allow \in BOOLEAN
      /\ job.via \in {"adapter", "fake"} /\ job.url.host \in Hosts
  BY DEF Job, Hosts, Urls
<1> DEFINE Fine(e) ==
      \/ ~e.ok /\ e.class \in {"endpoint_policy_rejection", "insecure_scheme",
                               "tls_verification_failure"}
      \/ /\ e.ok /\ e \in Endpoints
         /\ IF e.loopback THEN e.connect \in Loopback
            ELSE job.via = "adapter" /\ ~job.allow
<1>1. /\ Fine(Rejected("endpoint_policy_rejection")) /\ Fine(Rejected("insecure_scheme"))
      /\ Fine(Rejected("tls_verification_failure"))
  BY RejectedIs
<1>2. CASE job.via = "fake"
  <2> DEFINE e == Endpoint(job.url, job.connect, TRUE)
  <2>1. e \in Endpoints /\ e.loopback /\ e.ok
    BY <1>0, EndpointIs DEF Endpoints
  <2>2. LoopbackTransport(e) => e.connect \in Loopback
    BY DEF LoopbackTransport
  <2>3. Validated(answer) = IF LoopbackTransport(e) THEN e
                            ELSE Rejected("endpoint_policy_rejection")
    BY <1>2 DEF Validated
  <2> HIDE DEF e
  <2> QED BY <1>1, <2>1, <2>2, <2>3
<1>3. CASE job.via = "adapter" /\ job.allow
  <2>1. Validated(answer) = ValidateFake(job.url, TRUE, answer)
    BY <1>3 DEF Validated
  <2>2. CASE ResolvedToLoopback(answer)
    <3>1. answer[1] \in Loopback /\ answer[1] \in Hosts
      BY <2>2, AnswerIs DEF ResolvedToLoopback
    <3> DEFINE e == Endpoint(job.url, answer[1], TRUE)
    <3>2. e \in Endpoints /\ e.loopback /\ e.connect \in Loopback
      BY <1>0, <3>1, EndpointIs
    <3>4. e.ok
      BY DEF Endpoint
    <3>3. Validated(answer) \in {e, Rejected("endpoint_policy_rejection"),
                                 Rejected("insecure_scheme")}
      BY <2>1 DEF ValidateFake
    <3> HIDE DEF e
    <3> QED BY <1>1, <3>2, <3>3, <3>4
  <2>3. CASE ~ResolvedToLoopback(answer)
    <3>1. Validated(answer) \in {Rejected("endpoint_policy_rejection"),
                                 Rejected("insecure_scheme")}
      BY <2>1, <2>3 DEF ValidateFake
    <3> QED BY <1>1, <3>1
  <2> QED BY <2>2, <2>3
<1>4. CASE job.via = "adapter" /\ ~job.allow
  <2> DEFINE e == Endpoint(job.url, job.url.host, FALSE)
  <2>1. e \in Endpoints /\ ~e.loopback /\ e.ok
    BY <1>0, EndpointIs DEF Endpoints
  <2>2. Validated(answer) \in {e, Rejected("endpoint_policy_rejection"),
                               Rejected("insecure_scheme"),
                               Rejected("tls_verification_failure")}
    BY <1>4 DEF Validated, ValidateProduction
  <2> HIDE DEF e
  <2> QED BY <1>1, <1>4, <2>1, <2>2
<1> QED BY <1>0, <1>2, <1>3, <1>4

\* The refreshed DNS answer: all of it is global, or the attempt fails, and
\* only for want of an answer in a way that may pass.
LEMMA ResolvedIs ==
    ASSUME endpoint \in Endpoints, NEW answer \in Answers
    PROVE  LET e == ResolveProduction([endpoint EXCEPT !.connect = endpoint.host], answer)
           IN  \/ ~e.ok /\ e.class \in {"endpoint_policy_rejection",
                                        "dns_or_connection_failure"}
               \/ /\ e.ok /\ e \in Endpoints /\ e.loopback = endpoint.loopback
                  /\ e.connect \in Global
<1> DEFINE d == [endpoint EXCEPT !.connect = endpoint.host]
<1>1. d \in Endpoints /\ d.loopback = endpoint.loopback
  BY DEF Endpoints
<1>2. CASE /\ answer \notin {NoAnswer, <<>>}
           /\ \A i \in DOMAIN answer : answer[i] \in Global
  <2>1. answer[1] \in Global /\ answer[1] \in Hosts
    BY <1>2, AnswerIs
  <2> DEFINE e == [d EXCEPT !.connect = answer[1]]
  <2>2. /\ e \in Endpoints /\ e.loopback = endpoint.loopback /\ e.ok
        /\ e.connect \in Global
    <3> HIDE DEF d
    <3> QED BY <1>1, <2>1 DEF Endpoints
  <2>3. ResolveProduction(d, answer) \in {e, Rejected("dns_or_connection_failure")}
    BY <1>2 DEF ResolveProduction
  <2> HIDE DEF d, e
  <2> QED BY <2>2, <2>3, RejectedIs DEF d
<1>3. CASE \/ answer \in {NoAnswer, <<>>}
           \/ ~\A i \in DOMAIN answer : answer[i] \in Global
  <2>1. ResolveProduction(d, answer) \in {Rejected("endpoint_policy_rejection"),
                                          Rejected("dns_or_connection_failure")}
    BY <1>3 DEF ResolveProduction
  <2> HIDE DEF d
  <2> QED BY <2>1, RejectedIs DEF d
<1> QED BY <1>2, <1>3

-----------------------------------------------------------------------------
\* The steps of an attempt: it fails, it goes on, or it brings the result.

Failing ==
    /\ pc \in InAttempt /\ pc' = "decide"
    /\ \E what \in Happenings, class \in FailureClasses, after \in Int :
          /\ last' = [class |-> class, after |-> after]
          /\ causes' = Append(causes, [what |-> what, status |-> reply.status])
          /\ classes' = Append(classes, class)
          /\ Retryable(class) => Transient([what |-> what, status |-> reply.status])
    /\ UNCHANGED <<wake, result>>

Going ==
    /\ pc \in InAttempt /\ pc' \in InAttempt
    /\ pc \in BeforePost \ {"post"} => pc' \in BeforePost
    /\ pc = "post" => pc' = "writing"
    /\ pc \in AfterPost => pc' \in AfterPost
    /\ pc' = "parse" => reply'.status \in 200..299 /\ reply'.json
    /\ UNCHANGED <<account, result>>

LEMMA FailsIs ==
    ASSUME pc \in InAttempt, NEW what \in Happenings, NEW class \in FailureClasses,
           NEW after \in Int, FailsAfter(what, class, after),
           Retryable(class) => Transient([what |-> what, status |-> reply.status])
    PROVE  Failing
BY DEF FailsAfter, Failing

\* A failure that is not the peer's status.
LEMMA FailsPlainly ==
    ASSUME pc \in InAttempt, NEW what \in Happenings \ {"status"},
           NEW class \in FailureClasses, Fails(what, class),
           Retryable(class) => what \notin Refusing
    PROVE  Failing
BY FailsIs DEF Fails, Transient

LEMMA RetryAfterIs ==
    ASSUME NEW h \in Int
    PROVE  RetryAfter(h) \in Int
BY ExchangeAssumption DEF RetryAfter

LEMMA StatusFails ==
    ASSUME pc \in InAttempt, reply.status \in Int, reply.after \in Int, Status(reply)
    PROVE  Failing
<1> DEFINE h == HttpFailure(reply.status)
<1>1. CASE reply.status \notin 200..299
  <2>1. FailsAfter("status", h, RetryAfter(reply.after))
    BY <1>1 DEF Status
  <2>2. h \in FailureClasses
    BY DEF HttpFailure, FailureClasses
  <2>3. Retryable(h) => Transient([what |-> "status", status |-> reply.status])
    BY DEF HttpFailure, Retryable, Transient, Refusing
  <2> HIDE DEF h
  <2> QED BY <2>1, <2>2, <2>3, RetryAfterIs, FailsIs DEF Happenings
<1>2. CASE reply.status \in 200..299
  BY <1>2, FailsPlainly DEF Status, FailureClasses, Retryable, Happenings, Refusing
<1> QED BY <1>1, <1>2

LEMMA RepliesAre ==
    ASSUME NEW r \in Replies \cup {NoReply}
    PROVE  r.status \in Int /\ r.after \in Int
<1>0. -1 \in Int
  OBVIOUS
<1>1. CASE r \in Replies
  <2> DEFINE A == [status : {200, 302, 400, 429, 503, 600}, json : {TRUE},
                   length : {"exact"}, after : {-1}]
             B == [status : {200}, json : BOOLEAN,
                   length : {"none", "bad", "huge", "exact"}, after : {-1}]
             C == [status : {429}, json : {TRUE}, length : {"exact"}, after : {0, 2, 9}]
  <2>2. r \in A \cup B \cup C
    BY <1>1 DEF Replies
  <2>3. \A x \in A : x.status \in Int /\ x.after \in Int
    BY <1>0
  <2>4. \A x \in B : x.status \in Int /\ x.after \in Int
    BY <1>0
  <2>5. \A x \in C : x.status \in Int /\ x.after \in Int
    OBVIOUS
  <2> HIDE DEF A, B, C
  <2> QED BY <2>2, <2>3, <2>4, <2>5
<1>2. CASE r = NoReply
  BY <1>2 DEF NoReply
<1> QED BY <1>1, <1>2

\* Every step inside an attempt that does not look at the result.
Exchanging ==
    \/ \E answer \in Answers : Resolve(answer)
    \/ Open \/ Connected \/ Handshaken \/ CertificateRejected \/ Post \/ Written
    \/ NotHttp \/ Piece \/ Chunk \/ Timeout \/ Reset
    \/ \E r \in Replies : Headers(r)
    \/ \E end \in {"whole", "short", "over", "cut"} : BodyEnds(end)

\* What _set_read_timeout() comes to.
LEMMA SetReadTimeoutIs ==
    ASSUME NEW next, SetReadTimeout(next)
    PROVE  \/ Fails("no time", "total_request_timeout") /\ UNCHANGED <<socket, left>>
           \/ /\ pc' = next /\ UNCHANGED <<account, result>>
              /\ socket' = ReadWait /\ left' = ReadWait
BY Zenon DEF SetReadTimeout

\* The ways in which the status line and the headers end an attempt.
LEMMA HeadersShape ==
    ASSUME NEW r, Headers(r)
    PROVE  /\ \/ Fails("bad status", "malformed_http_response")
              \/ Fails("redirect", "redirect_rejected")
              \/ Fails("bad", "truncated_response")
              \/ Fails("huge", "oversized_response")
              \/ Fails("no time", "total_request_timeout")
              \/ pc' = "body" /\ UNCHANGED <<account, result>>
           /\ \/ UNCHANGED <<socket, left>>
              \/ socket' = ReadWait /\ left' = ReadWait
<1> DEFINE Sane == r.status \in 100..599
           Redirect == r.status \in 300..399
           Length == r.length \in {"bad", "huge"}
           Refused == Fails(r.length, IF r.length = "bad" THEN "truncated_response"
                                      ELSE "oversized_response")
<1>1. IF ~Sane
      THEN Fails("bad status", "malformed_http_response") /\ UNCHANGED <<socket, left>>
      ELSE IF Redirect
      THEN Fails("redirect", "redirect_rejected") /\ UNCHANGED <<socket, left>>
      ELSE IF Length
      THEN Refused /\ UNCHANGED <<socket, left>>
      ELSE SetReadTimeout("body")
  BY Zenon DEF Headers
<1>2. ASSUME Length, Refused
      PROVE  \/ Fails("bad", "truncated_response")
             \/ Fails("huge", "oversized_response")
  <2>1. CASE r.length = "bad"
    BY <1>2, <2>1
  <2>2. CASE r.length = "huge"
    BY <1>2, <2>2
  <2> QED BY <1>2, <2>1, <2>2
<1>3. SetReadTimeout("body")
      => \/ Fails("no time", "total_request_timeout") /\ UNCHANGED <<socket, left>>
         \/ /\ pc' = "body" /\ UNCHANGED <<account, result>>
            /\ socket' = ReadWait /\ left' = ReadWait
  BY Zenon, SetReadTimeoutIs
<1> HIDE DEF Sane, Redirect, Length, Refused
<1> QED BY <1>1, <1>2, <1>3, Zenon

LEMMA ExchangingShape ==
    ASSUME ExchangeTypeOK, Exchanging
    PROVE  Failing \/ Going
<1> USE DEF InAttempt, BeforePost, AfterPost, Underway
<1> USE FailsPlainly DEF FailureClasses, Retryable, Happenings, Refusing
<1>1. ASSUME NEW answer \in Answers, Resolve(answer) PROVE Failing \/ Going
  <2> DEFINE e == ResolveProduction([endpoint EXCEPT !.connect = endpoint.host], answer)
  <2>1. pc = "resolve" /\ endpoint \in Endpoints
    BY <1>1 DEF Resolve, ExchangeTypeOK
  <2>2. e.ok \/ e.class \in {"endpoint_policy_rejection", "dns_or_connection_failure"}
    BY <2>1, ResolvedIs
  <2>3. IF e.ok THEN pc' = "open" /\ UNCHANGED <<account, result>>
        ELSE Fails(IF e.class = "dns_or_connection_failure"
                   THEN "no connection" ELSE "forbidden address", e.class)
    BY <1>1 DEF Resolve
  <2> HIDE DEF e
  <2>4. CASE e.ok
    BY <2>1, <2>3, <2>4 DEF Going
  <2>5. CASE ~e.ok
    BY <2>1, <2>2, <2>3, <2>5
  <2> QED BY <2>4, <2>5
<1>2. CASE Open
  BY <1>2 DEF Open, Going
<1>3. CASE Connected \/ Handshaken \/ CertificateRejected
  BY <1>3 DEF Connected, Handshaken, CertificateRejected, Going
<1>4. CASE Post
  BY <1>4 DEF Post, Going
<1>5. CASE NotHttp \/ Piece
  BY <1>5 DEF NotHttp, Piece, Going
<1>9. CASE Written
  BY <1>9 DEF Written, SetReadTimeout, Going
<1>10. CASE Chunk
  BY <1>10 DEF Chunk, SetReadTimeout, Going
<1>6. CASE Timeout \/ Reset
  BY <1>6 DEF Timeout, Reset, Blocking
<1>7. ASSUME NEW r \in Replies, Headers(r) PROVE Failing \/ Going
  <2>1. pc = "response"
    BY <1>7 DEF Headers
  <2>2. \/ Fails("bad status", "malformed_http_response")
        \/ Fails("redirect", "redirect_rejected")
        \/ Fails("bad", "truncated_response")
        \/ Fails("huge", "oversized_response")
        \/ Fails("no time", "total_request_timeout")
        \/ pc' = "body" /\ UNCHANGED <<account, result>>
    BY <1>7, HeadersShape
  <2> QED BY <2>1, <2>2 DEF Going
<1>8. ASSUME NEW end \in {"whole", "short", "over", "cut"}, BodyEnds(end)
      PROVE  Failing \/ Going
  <2>1. pc = "body" /\ reply.status \in Int /\ reply.after \in Int
    BY <1>8, RepliesAre DEF BodyEnds, ExchangeTypeOK
  <2>2. CASE Body(end)
    <3>1. CASE /\ reply.status \in 200..299 /\ reply.json
               /\ pc' = "parse" /\ UNCHANGED <<account, result>>
      BY <1>8, <2>1, <3>1 DEF Going, BodyEnds, exchange
    <3>2. CASE Status(reply)
      BY <2>1, <3>2, StatusFails
    <3> QED BY <2>1, <2>2, <3>1, <3>2 DEF Body
  <2> QED BY <1>8, <2>1, <2>2 DEF BodyEnds
<1> QED BY <1>1, <1>2, <1>3, <1>4, <1>5, <1>6, <1>7, <1>8, <1>9, <1>10 DEF Exchanging

\* What no step of an attempt touches, and which step touches what.
LEMMA ExchangingFrame ==
    ASSUME Exchanging
    PROVE  /\ UNCHANGED <<job, now, deadline, cancelled, attempt>>
           /\ posts' = posts \/ Post
           /\ endpoint' = endpoint \/ \E answer \in Answers : Resolve(answer)
           /\ reply' = reply \/ reply' \in Replies
<1> USE DEF still, exchange
<1>1. ASSUME NEW answer \in Answers, Resolve(answer)
      PROVE  UNCHANGED <<job, now, deadline, cancelled, attempt, posts, reply>>
  BY <1>1 DEF Resolve
<1>2. CASE Open
  BY <1>2 DEF Open
<1>3. CASE Connected \/ Handshaken \/ CertificateRejected
  BY <1>3 DEF Connected, Handshaken, CertificateRejected
<1>4. ASSUME Post
      PROVE  UNCHANGED <<job, now, deadline, cancelled, attempt, endpoint, reply>>
  BY <1>4 DEF Post
<1>5. CASE NotHttp \/ Piece \/ Chunk \/ Written
  BY <1>5 DEF NotHttp, Piece, Chunk, Written
<1>6. CASE Timeout \/ Reset
  BY <1>6 DEF Timeout, Reset
<1>7. ASSUME NEW r \in Replies, Headers(r)
      PROVE  /\ UNCHANGED <<job, now, deadline, cancelled, attempt, posts, endpoint>>
             /\ reply' = r
  BY <1>7 DEF Headers
<1>8. ASSUME NEW end, BodyEnds(end)
      PROVE  UNCHANGED <<job, now, deadline, cancelled, attempt, posts, endpoint, reply>>
  BY <1>8 DEF BodyEnds
<1> QED BY <1>1, <1>2, <1>3, <1>4, <1>5, <1>6, <1>7, <1>8 DEF Exchanging

\* turn() before its loop.
LEMMA TurnEffect ==
    ASSUME ExchangeTypeOK, NEW answer \in Answers, Turn(answer)
    PROVE  /\ pc = "turn"
           /\ UNCHANGED <<job, now, posts, cancelled, attempt, socket, left, reply,
                          account>>
           /\ deadline' \in Nat
           /\ \/ /\ pc' = "loop" /\ result' = result /\ endpoint' \in Endpoints
                 /\ IF endpoint'.loopback THEN endpoint'.connect \in Loopback
                    ELSE job.via = "adapter" /\ ~job.allow /\ job.credential = "set"
              \/ /\ pc' = "done" /\ ~result'.ok
                 /\ result'.class # "retry_exhausted"
                 /\ result'.class = "cancelled" => cancelled
<1> DEFINE e == Validated(answer)
           Says == /\ pc' = "done" /\ ~result'.ok
                   /\ result'.class # "retry_exhausted"
                   /\ result'.class = "cancelled" => cancelled
<1>1. /\ pc = "turn"
      /\ UNCHANGED <<job, now, posts, cancelled, attempt, socket, left, reply,
                     account>>
      /\ endpoint' = e /\ deadline' = now + Min({TurnTimeout, TotalTimeout})
  BY DEF Turn
<1>2. deadline' \in Nat
  <2>0. TurnTimeout \in Int /\ TotalTimeout \in Int
    BY ExchangeAssumption
  <2>1. Min({TurnTimeout, TotalTimeout}) \in {TurnTimeout, TotalTimeout}
    BY <2>0, MinOfTwo
  <2>2. Min({TurnTimeout, TotalTimeout}) \in Nat
    BY <2>1, ExchangeAssumption
  <2> QED BY <1>1, <2>2 DEF ExchangeTypeOK
<1>3. ASSUME NEW c, Raise(c), c # "retry_exhausted", c = "cancelled" => cancelled
      PROVE  Says
  BY <1>3 DEF Raise, Finish
<1>4. /\ RequestFailure \in {"none", "local_authorization_failure",
                              "request_too_large_before_transmission"}
      /\ SendFailure(e) \in {"none", "credential_unavailable",
                             "endpoint_policy_rejection"}
  BY DEF RequestFailure, SendFailure
<1>5. \/ ~e.ok /\ e.class \in {"endpoint_policy_rejection", "insecure_scheme",
                               "tls_verification_failure"}
      \/ /\ e.ok /\ e \in Endpoints
         /\ IF e.loopback THEN e.connect \in Loopback
            ELSE job.via = "adapter" /\ ~job.allow
  BY ValidatedIs DEF ExchangeTypeOK
<1>6. SendFailure(e) = "none" /\ ~e.loopback => job.credential = "set"
  BY DEF SendFailure, ExchangeTypeOK, Job
<1>7. \/ Raise("cancelled") /\ cancelled
      \/ Raise("local_policy_failure")
      \/ ~e.ok /\ Raise(e.class)
      \/ e.ok /\ RequestFailure # "none" /\ Raise(RequestFailure)
      \/ e.ok /\ SendFailure(e) # "none" /\ Raise(SendFailure(e))
      \/ e.ok /\ SendFailure(e) = "none" /\ pc' = "loop" /\ UNCHANGED result
  BY Zenon DEF Turn
<1> HIDE DEF e
<1>8. CASE Raise("cancelled") /\ cancelled
  BY <1>1, <1>2, <1>3, <1>8
<1>9. CASE Raise("local_policy_failure")
  BY <1>1, <1>2, <1>3, <1>9
<1>10. CASE ~e.ok /\ Raise(e.class)
  BY <1>1, <1>2, <1>3, <1>5, <1>10
<1>11. CASE e.ok /\ RequestFailure # "none" /\ Raise(RequestFailure)
  BY <1>1, <1>2, <1>3, <1>4, <1>11
<1>12. CASE e.ok /\ SendFailure(e) # "none" /\ Raise(SendFailure(e))
  BY <1>1, <1>2, <1>3, <1>4, <1>12
<1>13. CASE e.ok /\ SendFailure(e) = "none" /\ pc' = "loop" /\ UNCHANGED result
  BY <1>1, <1>2, <1>5, <1>6, <1>13
<1> QED BY <1>7, <1>8, <1>9, <1>10, <1>11, <1>12, <1>13, Zenon

LEMMA AttemptEffect ==
    ASSUME ExchangeTypeOK, Attempt
    PROVE  /\ pc = "loop" /\ reply' = NoReply
           /\ UNCHANGED <<still, endpoint, socket, left, account>>
           /\ \/ /\ attempt' = attempt + 1 /\ result' = result
                 /\ pc' = IF endpoint.loopback THEN "open" ELSE "resolve"
              \/ /\ now >= deadline /\ attempt' = attempt /\ pc' = "done"
                 /\ result' = [ok |-> FALSE, class |-> "total_request_timeout"]
<1>1. endpoint.loopback \in BOOLEAN
  BY DEF Attempt, ExchangeTypeOK, Underway, Between, Endpoints
<1> QED BY <1>1 DEF Attempt, Production, Raise, Finish

\* The adapter's or the fake transport's look at the answer.
LEMMA ParsedEffect ==
    ASSUME ExchangeTypeOK, NEW valid \in BOOLEAN, Parsed(valid)
    PROVE  /\ pc = "parse" /\ UNCHANGED <<still, exchange>>
           /\ \/ Failing
              \/ /\ pc' = "done" /\ UNCHANGED account
                 /\ \/ result' = [ok |-> FALSE, class |-> "cancelled"] /\ cancelled
                    \/ result' = [ok |-> TRUE, class |-> "none"]
                    \/ result' = [ok |-> FALSE,
                                  class |-> "unsupported_provider_content"]
<1>1. pc = "parse" /\ UNCHANGED <<still, exchange>>
  BY DEF Parsed
<1>2. \/ Raise("cancelled") /\ UNCHANGED account /\ cancelled
      \/ Finish([ok |-> TRUE, class |-> "none"]) /\ UNCHANGED account
      \/ Raise("unsupported_provider_content") /\ UNCHANGED account
      \/ Fails("not json", "unsupported_provider_content")
  BY Zenon DEF Parsed
<1>3. CASE Fails("not json", "unsupported_provider_content")
  BY <1>1, <1>3, FailsPlainly
     DEF FailureClasses, Retryable, Happenings, Refusing, InAttempt, AfterPost
<1>4. CASE Raise("cancelled") /\ UNCHANGED account /\ cancelled
  BY <1>1, <1>4 DEF Raise, Finish
<1>5. CASE Finish([ok |-> TRUE, class |-> "none"]) /\ UNCHANGED account
  BY <1>1, <1>5 DEF Finish
<1>6. CASE Raise("unsupported_provider_content") /\ UNCHANGED account
  BY <1>1, <1>6 DEF Raise, Finish
<1> QED BY <1>2, <1>3, <1>4, <1>5, <1>6, Zenon

LEMMA DelayIs ==
    ASSUME NEW after \in Int
    PROVE  Delay(after) \in Int
<1>1. Min({Backoff, RetryAfterLimit}) \in {Backoff, RetryAfterLimit}
  BY MinOfTwo, ExchangeAssumption
<1> QED BY <1>1, ExchangeAssumption DEF Delay

\* decide_retry() and the loop's use of it.
LEMMA DecideEffect ==
    ASSUME ExchangeTypeOK, Decide
    PROVE  /\ pc = "decide" /\ UNCHANGED <<still, exchange, last, causes, classes>>
           /\ \/ /\ pc' = "sleep" /\ result' = result
                 /\ Retryable(last.class) /\ attempt < AttemptCount
                 /\ wake' \in Int /\ wake' <= deadline
              \/ /\ pc' = "done" /\ wake' = wake
                 /\ \/ result' = [ok |-> FALSE, class |-> last.class]
                    \/ /\ result' = [ok |-> FALSE, class |-> "retry_exhausted"]
                       /\ Retryable(last.class) /\ attempt >= AttemptCount
<1> DEFINE remaining == IF now >= deadline THEN 0 ELSE deadline - now
<1>1. pc = "decide" /\ UNCHANGED <<still, exchange, last, causes, classes>>
  BY DEF Decide
<1>2. CASE ~DecideRetry(last.class, last.after, remaining)
  <2>1. /\ Raise(IF Retryable(last.class) /\ attempt >= AttemptCount /\ AttemptCount > 1
                 THEN "retry_exhausted" ELSE last.class)
        /\ UNCHANGED wake
    BY <1>2, Zenon DEF Decide
  <2> QED BY <1>1, <2>1 DEF Raise, Finish
<1>3. CASE DecideRetry(last.class, last.after, remaining)
  <2>1. wake' = now + Delay(last.after) /\ pc' = "sleep" /\ UNCHANGED result
    BY <1>3, Zenon DEF Decide
  <2>2. /\ Retryable(last.class) /\ attempt < AttemptCount
        /\ remaining > 0 /\ Delay(last.after) <= remaining
    BY <1>3 DEF DecideRetry
  <2>3. now \in Nat /\ deadline \in Nat /\ Delay(last.after) \in Int
    BY DelayIs DEF ExchangeTypeOK
  <2>4. now + Delay(last.after) <= deadline
    BY <2>2, <2>3
  <2> QED BY <1>1, <2>1, <2>2, <2>3, <2>4
<1> QED BY <1>2, <1>3

-----------------------------------------------------------------------------
\* The steps of a turn, by what they do to its books.

Idle == UNCHANGED vars \/ Awake \/ Tick \/ Cancel

LEMMA StepIs ==
    ASSUME [Next]_vars
    PROVE  \/ \E answer \in Answers : Turn(answer)
           \/ Exchanging \/ Attempt \/ Decide
           \/ \E valid \in BOOLEAN : Parsed(valid)
           \/ Idle
BY Zenon DEF Next, TurnStep, PeerStep, Returned, Exchanging, Idle

LEMMA IdleIs ==
    ASSUME Idle
    PROVE  /\ UNCHANGED <<job, deadline, posts, attempt, endpoint, socket, reply,
                          account, result>>
           /\ pc' = pc \/ (pc = "sleep" /\ pc' = "loop")
           /\ now' \in {now, now + 1} /\ left' \in {left, left - 1}
           /\ pc \in {"done", "post"} => now' = now
           /\ pc = "connecting" => \/ now' = now /\ left' = left
                                   \/ left > 0 /\ left' = left - 1
           /\ cancelled' = cancelled \/ (pc # "done" /\ cancelled' = TRUE)
<1>1. CASE UNCHANGED vars
  BY <1>1 DEF vars, still, exchange, account
<1>2. CASE Awake
  BY <1>2 DEF Awake, still, exchange, account
<1>3. CASE Tick
  BY <1>3 DEF Tick, Blocking, exchange, account
<1>4. CASE Cancel
  BY <1>4 DEF Cancel, exchange, account
<1> QED BY <1>1, <1>2, <1>3, <1>4 DEF Idle

\* The type invariant.

LEMMA FailingTypes ==
    ASSUME causes \in Seq(Causes), classes \in Seq(FailureClasses),
           reply \in Replies \cup {NoReply}, Failing
    PROVE  /\ causes' \in Seq(Causes) /\ classes' \in Seq(FailureClasses)
           /\ last'.after \in Int
<1> PICK what \in Happenings, class \in FailureClasses, after \in Int :
          /\ last' = [class |-> class, after |-> after]
          /\ causes' = Append(causes, [what |-> what, status |-> reply.status])
          /\ classes' = Append(classes, class)
  BY DEF Failing
<1>1. [what |-> what, status |-> reply.status] \in Causes
  BY RepliesAre DEF Causes
<1> QED BY <1>1, AppendIs

LEMMA WaitsAre ==
    ASSUME ExchangeTypeOK
    PROVE  ConnectWait \in Int /\ ReadWait \in Int
<1>1. deadline - now \in Int /\ ConnectTimeout \in Int /\ ReadTimeout \in Int
  BY ExchangeAssumption DEF ExchangeTypeOK
<1>2. /\ Min({deadline - now, ConnectTimeout}) \in {deadline - now, ConnectTimeout}
      /\ Min({deadline - now, ReadTimeout}) \in {deadline - now, ReadTimeout}
  BY <1>1, MinOfTwo
<1> QED BY <1>1, <1>2 DEF ConnectWait, ReadWait

\* The socket's timeouts stay numbers.
LEMMA SocketTypes ==
    ASSUME ExchangeTypeOK, Exchanging
    PROVE  socket' \in Int /\ left' \in Int
<1> DEFINE Sets == \/ UNCHANGED <<socket, left>>
                   \/ socket' = socket /\ left' = socket
                   \/ socket' = ConnectWait /\ left' = ConnectWait
                   \/ socket' = ReadWait /\ left' = ReadWait
<1>0. /\ socket \in Int /\ left \in Int
      /\ ConnectWait \in Int /\ ReadWait \in Int
  BY WaitsAre DEF ExchangeTypeOK
<1>1. ASSUME NEW answer \in Answers, Resolve(answer) PROVE Sets
  BY <1>1 DEF Resolve
<1>2. ASSUME Open PROVE Sets
  BY <1>2, Zenon DEF Open
<1>3. ASSUME Connected \/ Handshaken \/ CertificateRejected PROVE Sets
  BY <1>3 DEF Connected, Handshaken, CertificateRejected, exchange
<1>4. ASSUME Post PROVE Sets
  BY <1>4, Zenon DEF Post
<1>5. ASSUME NotHttp \/ Piece PROVE Sets
  BY <1>5 DEF NotHttp, Piece, exchange
<1>6. ASSUME Chunk \/ Written PROVE Sets
  BY <1>6, SetReadTimeoutIs DEF Chunk, Written
<1>7. ASSUME Timeout \/ Reset PROVE Sets
  BY <1>7 DEF Timeout, Reset, exchange
<1>8. ASSUME NEW r \in Replies, Headers(r) PROVE Sets
  BY <1>8, HeadersShape
<1>9. ASSUME NEW end, BodyEnds(end) PROVE Sets
  BY <1>9 DEF BodyEnds, exchange
<1>10. Sets
  <2> HIDE DEF Sets
  <2> QED BY <1>1, <1>2, <1>3, <1>4, <1>5, <1>6, <1>7, <1>8, <1>9 DEF Exchanging
<1> QED BY <1>0, <1>10

LEMMA ResolveEndpoint ==
    ASSUME ExchangeTypeOK, NEW answer \in Answers, Resolve(answer)
    PROVE  \/ endpoint' = endpoint /\ pc' = "decide"
           \/ /\ pc' = "open" /\ endpoint' \in Endpoints
              /\ endpoint'.loopback = endpoint.loopback /\ endpoint'.connect \in Global
<1> DEFINE e == ResolveProduction([endpoint EXCEPT !.connect = endpoint.host], answer)
<1>1. endpoint \in Endpoints
  BY DEF Resolve, ExchangeTypeOK, Underway, InAttempt, BeforePost
<1>2. e.ok => /\ e \in Endpoints /\ e.loopback = endpoint.loopback
              /\ e.connect \in Global
  BY <1>1, ResolvedIs
<1>3. IF e.ok THEN endpoint' = e /\ pc' = "open"
      ELSE UNCHANGED endpoint /\ pc' = "decide"
  BY DEF Resolve, Fails, FailsAfter
<1> HIDE DEF e
<1> QED BY <1>2, <1>3

LEMMA PostedTypes ==
    ASSUME ExchangeTypeOK, Post
    PROVE  LET p == [attempt |-> attempt, to |-> endpoint.connect,
                     tls |-> ~endpoint.loopback, credential |-> ~endpoint.loopback,
                     at |-> now]
           IN  p \in Posts /\ posts' = Append(posts, p)
<1>1. endpoint.connect \in Hosts /\ endpoint.loopback \in BOOLEAN
  BY DEF Post, ExchangeTypeOK, Underway, InAttempt, BeforePost, Endpoints
<1>2. (~endpoint.loopback) \in BOOLEAN
  OBVIOUS
<1> QED BY <1>1, <1>2 DEF Post, Posts, Production, ExchangeTypeOK

LEMMA TypeInit ==
    ASSUME Init
    PROVE  ExchangeTypeOK
<1>1. job \in Job /\ pc \notin Underway
  BY InputAssumption DEF Init, Underway, InAttempt, BeforePost, AfterPost, Between
<1>2. /\ causes \in Seq(Causes) /\ classes \in Seq(FailureClasses)
      /\ posts \in Seq(Posts)
  BY EmptySeq DEF Init
<1>3. last.after \in Int
  BY DEF Init
<1>5. cancelled \in BOOLEAN
  BY Zenon DEF Init
<1>4. /\ now \in Nat /\ deadline \in Nat /\ socket \in Int /\ left \in Int
      /\ wake \in Int /\ attempt \in Nat
      /\ reply = NoReply /\ pc = "turn"
  BY DEF Init
<1> QED BY <1>1, <1>2, <1>3, <1>4, <1>5 DEF ExchangeTypeOK

LEMMA TypeStep ==
    ASSUME ExchangeTypeOK, [Next]_vars
    PROVE  ExchangeTypeOK'
<1> USE DEF Underway, InAttempt, BeforePost, AfterPost, Between
<1>1. ASSUME NEW answer \in Answers, Turn(answer) PROVE ExchangeTypeOK'
  BY <1>1, TurnEffect DEF ExchangeTypeOK, account
<1>2. CASE Exchanging
  <2>1. socket' \in Int /\ left' \in Int
    BY <1>2, SocketTypes
  <2>2. pc \in InAttempt /\ pc' \in Underway
    BY <1>2, ExchangingShape DEF Failing, Going
  <2>3. endpoint' \in Endpoints
    BY <1>2, <2>2, ExchangingFrame, ResolveEndpoint DEF ExchangeTypeOK
  <2>4. /\ last'.after \in Int /\ causes' \in Seq(Causes)
        /\ classes' \in Seq(FailureClasses) /\ wake' = wake
    <3>1. CASE Failing
      <4>1. wake' = wake
        BY <3>1 DEF Failing
      <4>2. /\ causes \in Seq(Causes) /\ classes \in Seq(FailureClasses)
            /\ reply \in Replies \cup {NoReply}
        BY DEF ExchangeTypeOK
      <4> QED BY <3>1, <4>1, <4>2, FailingTypes
    <3>2. CASE Going
      BY <3>2 DEF Going, account, ExchangeTypeOK
    <3> QED BY <1>2, <3>1, <3>2, ExchangingShape
  <2>5. posts' \in Seq(Posts)
    <3>1. CASE posts' = posts
      BY <3>1 DEF ExchangeTypeOK
    <3>2. CASE Post
      <4>1. PICK p \in Posts : posts' = Append(posts, p)
        BY <3>2, PostedTypes
      <4> QED BY <4>1, AppendIs DEF ExchangeTypeOK
    <3> QED BY <1>2, <3>1, <3>2, ExchangingFrame
  <2>6. /\ UNCHANGED <<job, now, deadline, cancelled, attempt>>
        /\ reply' = reply \/ reply' \in Replies
    BY <1>2, ExchangingFrame
  <2> QED BY <2>1, <2>2, <2>3, <2>4, <2>5, <2>6 DEF ExchangeTypeOK
<1>3. CASE Attempt
  BY <1>3, AttemptEffect DEF ExchangeTypeOK, account, still
<1>4. CASE Decide
  BY <1>4, DecideEffect DEF ExchangeTypeOK, still, exchange
<1>5. ASSUME NEW valid \in BOOLEAN, Parsed(valid) PROVE ExchangeTypeOK'
  <2>1. /\ UNCHANGED <<still, exchange>>
        /\ Failing \/ (pc' = "done" /\ UNCHANGED account)
    BY <1>5, ParsedEffect
  <2>2. CASE Failing
    <3>1. /\ last'.after \in Int /\ causes' \in Seq(Causes)
          /\ classes' \in Seq(FailureClasses)
      BY <2>2, FailingTypes DEF ExchangeTypeOK
    <3>2. pc \in InAttempt /\ pc' = "decide" /\ wake' = wake
      BY <2>2 DEF Failing
    <3> QED BY <2>1, <3>1, <3>2 DEF ExchangeTypeOK, still, exchange
  <2>3. CASE pc' = "done" /\ UNCHANGED account
    BY <2>1, <2>3 DEF ExchangeTypeOK, still, exchange, account
  <2> QED BY <2>1, <2>2, <2>3
<1>6. CASE Idle
  <2>1. now' \in Nat /\ left' \in Int
    BY <1>6, IdleIs DEF ExchangeTypeOK
  <2>4. cancelled' = cancelled \/ cancelled' = TRUE
    BY <1>6, IdleIs
  <2>5. cancelled' \in BOOLEAN
    BY <2>4, Zenon DEF ExchangeTypeOK
  <2>2. UNCHANGED <<job, deadline, posts, attempt, endpoint, socket, reply, account>>
    BY <1>6, IdleIs
  <2>3. pc' = pc \/ (pc = "sleep" /\ pc' = "loop")
    BY <1>6, IdleIs
  <2> QED BY <2>1, <2>2, <2>3, <2>5 DEF ExchangeTypeOK, account
<1> QED BY <1>1, <1>2, <1>3, <1>4, <1>5, <1>6, StepIs

\* An attempt leaves "post" for its answer only by the POST.
LEMMA OnlyPostPosts ==
    ASSUME Exchanging, pc = "post", pc' # "decide"
    PROVE  Post
<1>1. \A answer : ~Resolve(answer)
  BY DEF Resolve
<1>2. ~Open /\ ~Connected /\ ~Handshaken /\ ~CertificateRejected /\ ~NotHttp
  BY DEF Open, Connected, Handshaken, CertificateRejected, NotHttp
<1>3. ~Piece /\ ~Chunk /\ ~Written /\ ~Timeout
  BY DEF Piece, Chunk, Written, Timeout, Blocking
<1>4. ~Reset
  BY DEF Reset, Fails, FailsAfter
<1>5. \A r : ~Headers(r)
  BY DEF Headers
<1>6. \A end : ~BodyEnds(end)
  BY DEF BodyEnds
<1> QED BY <1>1, <1>2, <1>3, <1>4, <1>5, <1>6 DEF Exchanging

\* The books of the attempts.  Only decide_retry() lets another follow, and it
\* does so on the class of the last one.

LEMMA AttemptsFail ==
    ASSUME ExchangeTypeOK, Attempts, Failing, attempt' = attempt
    PROVE  Attempts'
<1> PICK what \in Happenings, class \in FailureClasses, after \in Int :
          /\ last' = [class |-> class, after |-> after]
          /\ causes' = Append(causes, [what |-> what, status |-> reply.status])
          /\ classes' = Append(classes, class)
          /\ Retryable(class) => Transient([what |-> what, status |-> reply.status])
  BY DEF Failing
<1> DEFINE c == [what |-> what, status |-> reply.status]
<1>1. pc \in InAttempt /\ pc' = "decide"
  BY DEF Failing
<1>2. c \in Causes
  BY RepliesAre DEF Causes, ExchangeTypeOK
<1> HIDE DEF c
<1>3. /\ causes \in Seq(Causes) /\ classes \in Seq(FailureClasses) /\ attempt \in Nat
  BY DEF ExchangeTypeOK
<1>4. /\ causes' = Append(causes, c) /\ classes' = Append(classes, class)
      /\ Retryable(class) => Transient(c)
  BY DEF c
<1>5. PICK n \in Nat : n = Len(causes)
  BY <1>3
<1>6. Len(causes) = Len(classes) /\ n = attempt - 1 /\ attempt <= AttemptCount
  BY <1>1, <1>5 DEF Attempts
<1>7. /\ Len(causes') = n + 1 /\ Len(classes') = n + 1
      /\ causes'[n + 1] = c /\ classes'[n + 1] = class
      /\ \A i \in 1..n : causes'[i] = causes[i] /\ classes'[i] = classes[i]
  BY <1>2, <1>3, <1>4, <1>5, <1>6, AppendIs
<1>8. ASSUME NEW i \in 1..n + 1
      PROVE  /\ Retryable(classes'[i]) => Transient(causes'[i])
             /\ i < attempt => Retryable(classes'[i])
  <2>1. CASE i = n + 1
    BY <1>3, <1>4, <1>6, <1>7, <2>1
  <2>2. CASE i \in 1..n
    BY <1>5, <1>6, <1>7, <2>2 DEF Attempts
  <2>3. i = n + 1 \/ i \in 1..n
    OBVIOUS
  <2> QED BY <2>1, <2>2, <2>3, Zenon
<1>9. last'.class = classes'[Len(classes')]
  BY <1>7
<1>10. pc' \notin Between /\ pc' \notin InAttempt
  BY <1>1 DEF Between, InAttempt, BeforePost, AfterPost
<1> QED BY <1>1, <1>3, <1>6, <1>7, <1>8, <1>9, <1>10 DEF Attempts

LEMMA AttemptsStep ==
    ASSUME ExchangeTypeOK, Attempts, [Next]_vars
    PROVE  Attempts'
<1> USE DEF InAttempt, BeforePost, AfterPost, Between
<1>0. /\ causes \in Seq(Causes) /\ classes \in Seq(FailureClasses) /\ attempt \in Nat
      /\ Len(causes) \in Nat
  BY DEF ExchangeTypeOK
<1>1. ASSUME NEW answer \in Answers, Turn(answer) PROVE Attempts'
  <2>1. /\ pc = "turn" /\ UNCHANGED <<attempt, causes, classes, last>>
        /\ pc' \in {"loop", "done"}
    BY <1>1, TurnEffect DEF account
  <2>2. attempt = 0 /\ Len(causes) = 0 /\ Len(classes) = 0 /\ 0 < AttemptCount
    BY <2>1, ExchangeAssumption DEF Attempts
  <2> QED BY <2>1, <2>2 DEF Attempts
<1>2. CASE Exchanging
  <2>1. attempt' = attempt
    BY <1>2, ExchangingFrame
  <2>2. CASE Going
    <3>1. pc \in InAttempt /\ pc' \in InAttempt /\ UNCHANGED <<causes, classes, last>>
      BY <2>2 DEF Going, account
    <3> QED BY <2>1, <3>1 DEF Attempts
  <2> QED BY <1>2, <2>1, <2>2, ExchangingShape, AttemptsFail
<1>3. CASE Attempt
  <2>1. /\ pc = "loop" /\ UNCHANGED <<causes, classes, last>>
        /\ \/ attempt' = attempt + 1 /\ pc' \in {"open", "resolve"}
           \/ attempt' = attempt /\ pc' = "done"
    BY <1>3, AttemptEffect DEF account
  <2>2. /\ Len(causes) = attempt /\ attempt < AttemptCount
        /\ \A i \in 1..Len(causes) : Retryable(classes[i])
    BY <2>1 DEF Attempts
  <2>3. attempt + 1 <= AttemptCount
    BY <1>0, <2>2, ExchangeAssumption
  <2> QED BY <1>0, <2>1, <2>2, <2>3 DEF Attempts
<1>4. CASE Decide
  <2>1. /\ pc = "decide" /\ UNCHANGED <<attempt, causes, classes, last>>
        /\ \/ pc' = "done"
           \/ pc' = "sleep" /\ Retryable(last.class) /\ attempt < AttemptCount
    BY <1>4, DecideEffect DEF exchange
  <2>2. /\ Len(causes) = attempt /\ attempt > 0 /\ Len(classes) = attempt
        /\ last.class = classes[attempt]
    BY <2>1 DEF Attempts
  <2>3. \A i \in 1..attempt : i < attempt \/ i = attempt
    BY <1>0
  <2>4. pc' = "sleep" => \A i \in 1..attempt : Retryable(classes[i])
    BY <2>1, <2>2, <2>3 DEF Attempts
  <2> QED BY <1>0, <2>1, <2>2, <2>4 DEF Attempts
<1>5. ASSUME NEW valid \in BOOLEAN, Parsed(valid) PROVE Attempts'
  <2>1. /\ pc = "parse" /\ attempt' = attempt
        /\ Failing \/ (pc' = "done" /\ UNCHANGED <<causes, classes, last>>)
    BY <1>5, ParsedEffect DEF exchange, account
  <2>2. CASE pc' = "done" /\ UNCHANGED <<causes, classes, last>>
    BY <2>1, <2>2 DEF Attempts
  <2> QED BY <2>1, <2>2, AttemptsFail
<1>6. CASE Idle
  <2>1. /\ UNCHANGED <<attempt, causes, classes, last>>
        /\ pc' = pc \/ (pc = "sleep" /\ pc' = "loop")
    BY <1>6, IdleIs DEF account
  <2> QED BY <2>1 DEF Attempts
<1> QED BY <1>1, <1>2, <1>3, <1>4, <1>5, <1>6, StepIs

\* The POSTs: one in an attempt, in order.

LEMMA PostIs ==
    ASSUME ExchangeTypeOK, NEW i \in 1..Len(posts)
    PROVE  posts[i] \in Posts /\ posts[i].attempt \in Nat
<1>1. posts[i] \in Posts
  BY DEF ExchangeTypeOK
<1> QED BY <1>1 DEF Posts

LEMMA PostedPost ==
    ASSUME ExchangeTypeOK, Attempts, Posted, Post, UNCHANGED attempt,
           pc' \in {"writing", "decide"}
    PROVE  Posted'
<1> USE DEF InAttempt, BeforePost, AfterPost
<1>1. PICK p \in Posts : p.attempt = attempt /\ posts' = Append(posts, p)
  BY PostedTypes
<1>2. posts \in Seq(Posts) /\ attempt \in Nat
  BY DEF ExchangeTypeOK
<1>3. PICK n \in Nat : n = Len(posts)
  BY <1>2
<1>4. /\ Len(posts') = n + 1 /\ posts'[n + 1] = p
      /\ \A i \in 1..n : posts'[i] = posts[i]
  BY <1>1, <1>2, <1>3, AppendIs
<1>5. pc = "post" /\ attempt > 0
  BY DEF Post, Attempts
<1>6. \A i \in 1..n : posts[i].attempt < attempt /\ i <= posts[i].attempt
  BY <1>3, <1>5 DEF Posted
<1>7. n + 1 <= attempt
  <2>0. \A i \in 1..n : posts[i].attempt \in Nat
    BY <1>3, PostIs
  <2>1. CASE n = 0
    BY <1>2, <1>5, <2>1
  <2>2. CASE n # 0
    <3>1. n \in 1..n
      BY <2>2
    <3>2. posts[n].attempt \in Nat /\ posts[n].attempt < attempt /\ n <= posts[n].attempt
      BY <1>6, <2>0, <3>1
    <3> QED BY <1>2, <3>2
  <2> QED BY <2>1, <2>2
<1>8. ASSUME NEW i \in 1..n + 1
      PROVE  /\ i <= posts'[i].attempt /\ posts'[i].attempt <= attempt
             /\ i \in 1..n => posts'[i].attempt < attempt
             /\ i = n + 1 => posts'[i].attempt = attempt
             /\ i \in 1..n \/ i = n + 1
  <2>1. CASE i = n + 1
    BY <1>1, <1>2, <1>4, <1>7, <2>1
  <2>2. CASE i \in 1..n
    <3>1. posts[i].attempt \in Nat
      BY <1>3, <2>2, PostIs
    <3> QED BY <1>2, <1>4, <1>6, <2>2, <3>1
  <2> QED BY <2>1, <2>2
<1>9. ASSUME NEW i \in 1..n + 1, NEW j \in 1..n + 1, i < j
      PROVE  posts'[i].attempt < posts'[j].attempt
  <2>1. i \in 1..n
    BY <1>9
  <2>2. CASE j = n + 1
    BY <1>8, <2>1, <2>2
  <2>3. CASE j \in 1..n
    <3>1. posts[i].attempt < posts[j].attempt
      BY <1>3, <1>9, <2>1, <2>3 DEF Posted
    <3> QED BY <1>4, <2>1, <2>3, <3>1
  <2> QED BY <2>2, <2>3
<1>10. pc' \notin BeforePost \cup {"parse", "turn"}
  OBVIOUS
<1>11. posts'[n + 1].attempt = attempt
  BY <1>1, <1>4
<1> QED BY <1>2, <1>4, <1>8, <1>9, <1>10, <1>11 DEF Posted

LEMMA PostedStep ==
    ASSUME ExchangeTypeOK, Attempts, Posted, [Next]_vars
    PROVE  Posted'
<1> USE DEF InAttempt, BeforePost, AfterPost
<1>0. attempt \in Nat /\ posts \in Seq(Posts) /\ Len(posts) \in Nat
  BY DEF ExchangeTypeOK
<1>00. \A i \in 1..Len(posts) : posts[i].attempt \in Nat
  BY PostIs
<1>1. ASSUME NEW answer \in Answers, Turn(answer) PROVE Posted'
  <2>1. pc = "turn" /\ UNCHANGED <<attempt, posts>> /\ pc' \in {"loop", "done"}
    BY <1>1, TurnEffect
  <2> QED BY <2>1 DEF Posted
<1>2. CASE Exchanging
  <2>1. attempt' = attempt /\ (posts' = posts \/ Post)
    BY <1>2, ExchangingFrame
  <2>2. Failing \/ Going
    BY <1>2, ExchangingShape
  <2>3. CASE Post
    <3>1. pc = "post" /\ pc' \in {"writing", "decide"}
      BY <2>2, <2>3 DEF Post, Failing, Going
    <3> QED BY <2>1, <2>3, <3>1, PostedPost
  <2>4. CASE ~Post
    <3>1. posts' = posts
      BY <2>1, <2>4
    <3>2. CASE Failing
      <4>1. pc' = "decide"
        BY <3>2 DEF Failing
      <4> QED BY <2>1, <3>1, <4>1 DEF Posted
    <3>3. CASE Going
      <4>1. /\ pc \in InAttempt /\ pc' \in InAttempt
            /\ pc \in BeforePost \ {"post"} => pc' \in BeforePost
            /\ pc = "post" => pc' = "writing"
            /\ pc \in AfterPost => pc' \in AfterPost
            /\ pc' = "parse" => reply'.status \in 200..299 /\ reply'.json
        BY <3>3 DEF Going
      <4>2. pc # "post"
        BY <1>2, <2>4, <4>1, OnlyPostPosts
      <4> QED BY <2>1, <3>1, <4>1, <4>2 DEF Posted
    <3> QED BY <2>2, <3>2, <3>3
  <2> QED BY <2>3, <2>4
<1>3. CASE Attempt
  <2>1. /\ pc = "loop" /\ posts' = posts
        /\ \/ attempt' = attempt + 1 /\ pc' \in {"open", "resolve"}
           \/ attempt' = attempt /\ pc' = "done"
    BY <1>3, AttemptEffect DEF still
  <2>2. \A i \in 1..Len(posts) : posts[i].attempt < attempt + 1
    BY <1>0, <1>00 DEF Posted
  <2>3. \A i \in 1..Len(posts) : posts[i].attempt <= attempt + 1
    BY <1>0, <1>00 DEF Posted
  <2> QED BY <1>0, <2>1, <2>2, <2>3 DEF Posted
<1>4. CASE Decide
  <2>1. UNCHANGED <<attempt, posts>> /\ pc' \in {"sleep", "done"}
    BY <1>4, DecideEffect DEF exchange, still
  <2> QED BY <2>1 DEF Posted
<1>5. ASSUME NEW valid \in BOOLEAN, Parsed(valid) PROVE Posted'
  <2>1. UNCHANGED <<attempt, posts>> /\ pc' \in {"decide", "done"}
    BY <1>5, ParsedEffect DEF exchange, still, Failing
  <2> QED BY <2>1 DEF Posted
<1>6. CASE Idle
  <2>1. /\ UNCHANGED <<attempt, posts, reply>>
        /\ pc' = pc \/ (pc = "sleep" /\ pc' = "loop")
    BY <1>6, IdleIs
  <2> QED BY <2>1 DEF Posted
<1> QED BY <1>1, <1>2, <1>3, <1>4, <1>5, <1>6, StepIs

\* Where the next POST goes.  A production endpoint is resolved anew in every
\* attempt, and its address is global from there to the POST.

LEMMA BoundStep ==
    ASSUME ExchangeTypeOK, Bound, [Next]_vars
    PROVE  Bound'
<1> USE DEF Underway, InAttempt, BeforePost, AfterPost, Between
<1>0. pc \in Underway => endpoint.loopback \in BOOLEAN
  BY DEF ExchangeTypeOK, Endpoints
<1>1. ASSUME NEW answer \in Answers, Turn(answer) PROVE Bound'
  BY <1>1, TurnEffect DEF Bound
<1>2. CASE Exchanging
  <2>1. job' = job
    BY <1>2, ExchangingFrame
  <2>2. ASSUME NEW answer \in Answers, Resolve(answer) PROVE Bound'
    <3>1. pc = "resolve" /\ ~endpoint.loopback
      BY <2>2 DEF Resolve, Bound
    <3> QED BY <2>1, <2>2, <3>1, ResolveEndpoint DEF Bound
  <2>3. CASE /\ endpoint' = endpoint
             /\ \/ pc' = "decide"
                \/ endpoint.loopback /\ pc' \notin {"resolve", "handshake"}
                \/ ~endpoint.loopback /\ pc \in BeforePost /\ pc # "resolve"
                \/ ~endpoint.loopback /\ pc' \in AfterPost
    <3>1. pc \in InAttempt
      BY <1>2, ExchangingShape DEF Failing, Going
    <3> QED BY <2>1, <2>3, <3>1 DEF Bound
  <2>4. CASE Open \/ Handshaken \/ CertificateRejected \/ Connected
    <3>1. /\ endpoint' = endpoint /\ pc \in {"open", "handshake", "connecting"}
          /\ pc' \in {"connecting", "post", "decide"}
                     \cup (IF endpoint.loopback THEN {} ELSE {"handshake"})
      BY <2>4 DEF Open, Handshaken, CertificateRejected, Connected, Production,
                  Fails, FailsAfter, exchange
    <3> QED BY <2>3, <3>1
  <2>5. CASE Post \/ NotHttp \/ Timeout \/ Reset
    <3>1. endpoint' = endpoint /\ pc' \in {"writing", "decide"}
      BY <2>5 DEF Post, NotHttp, Timeout, Reset, Fails, FailsAfter, exchange
    <3> QED BY <2>3, <3>1
  <2>6. CASE Piece \/ Chunk \/ Written
    <3>1. endpoint' = endpoint /\ pc \in {"writing", "response", "body"}
      BY <2>6 DEF Piece, Chunk, Written
    <3>2. pc' \in {"writing", "response", "body", "decide"}
      BY <2>6, SetReadTimeoutIs DEF Piece, Chunk, Written, Fails, FailsAfter
    <3> QED BY <2>3, <3>1, <3>2 DEF Bound
  <2>7. ASSUME NEW r \in Replies, Headers(r) PROVE Bound'
    <3>1. endpoint' = endpoint /\ pc = "response"
      BY <2>7 DEF Headers
    <3>2. pc' \in {"body", "decide"}
      BY <2>7, HeadersShape DEF Fails, FailsAfter
    <3> QED BY <2>3, <3>1, <3>2
  <2>8. ASSUME NEW end \in {"whole", "short", "over", "cut"}, BodyEnds(end)
        PROVE  Bound'
    <3>1. endpoint' = endpoint /\ pc = "body"
      BY <2>8 DEF BodyEnds, exchange
    <3>2. pc' = "decide" \/ pc' \in AfterPost
      BY <1>2, <3>1, ExchangingShape DEF Failing, Going
    <3> QED BY <2>3, <3>1, <3>2
  <2> QED BY <1>2, <2>2, <2>4, <2>5, <2>6, <2>7, <2>8 DEF Exchanging
<1>3. CASE Attempt
  <2>1. /\ pc = "loop" /\ UNCHANGED <<endpoint, job>>
        /\ \/ pc' = IF endpoint.loopback THEN "open" ELSE "resolve"
           \/ pc' = "done"
    BY <1>3, AttemptEffect DEF still
  <2> QED BY <2>1 DEF Bound
<1>4. CASE Decide
  <2>1. pc = "decide" /\ UNCHANGED <<endpoint, job>> /\ pc' \in {"sleep", "done"}
    BY <1>4, DecideEffect DEF exchange, still
  <2> QED BY <2>1 DEF Bound
<1>5. ASSUME NEW valid \in BOOLEAN, Parsed(valid) PROVE Bound'
  <2>1. pc = "parse" /\ UNCHANGED <<endpoint, job>> /\ pc' \in {"decide", "done"}
    BY <1>5, ParsedEffect DEF exchange, still, Failing
  <2> QED BY <2>1 DEF Bound
<1>6. CASE Idle
  <2>1. /\ UNCHANGED <<endpoint, job>>
        /\ pc' = pc \/ (pc = "sleep" /\ pc' = "loop")
    BY <1>6, IdleIs
  <2> QED BY <2>1 DEF Bound
<1> QED BY <1>1, <1>2, <1>3, <1>4, <1>5, <1>6, StepIs

\* A step adds to the POSTs what it sends, or leaves them alone.
LEMMA PostsGrow ==
    ASSUME ExchangeTypeOK, [Next]_vars
    PROVE  \/ posts' = posts /\ UNCHANGED job
           \/ /\ Post /\ UNCHANGED <<job, deadline>>
              /\ \E p \in Posts :
                    /\ p.to = endpoint.connect /\ p.at = now
                    /\ p.tls = ~endpoint.loopback /\ p.credential = ~endpoint.loopback
                    /\ posts' = Append(posts, p)
<1>1. ASSUME NEW answer \in Answers, Turn(answer) PROVE posts' = posts /\ UNCHANGED job
  BY <1>1, TurnEffect
<1>2. ASSUME Post
      PROVE  /\ UNCHANGED <<job, deadline>>
             /\ \E p \in Posts :
                    /\ p.to = endpoint.connect /\ p.at = now
                    /\ p.tls = ~endpoint.loopback /\ p.credential = ~endpoint.loopback
                    /\ posts' = Append(posts, p)
  <2>1. UNCHANGED <<job, deadline>>
    BY <1>2 DEF Post
  <2> DEFINE p == [attempt |-> attempt, to |-> endpoint.connect,
                   tls |-> ~endpoint.loopback, credential |-> ~endpoint.loopback,
                   at |-> now]
  <2>2. p \in Posts /\ posts' = Append(posts, p)
    BY <1>2, PostedTypes
  <2>3. /\ p.to = endpoint.connect /\ p.at = now
        /\ p.tls = ~endpoint.loopback /\ p.credential = ~endpoint.loopback
    OBVIOUS
  <2> HIDE DEF p
  <2> QED BY <2>1, <2>2, <2>3
<1>3. CASE Exchanging
  BY <1>2, <1>3, ExchangingFrame
<1>4. CASE Attempt \/ Decide
  BY <1>4, AttemptEffect, DecideEffect DEF still
<1>5. ASSUME NEW valid \in BOOLEAN, Parsed(valid) PROVE posts' = posts /\ UNCHANGED job
  BY <1>5, ParsedEffect DEF still
<1>6. CASE Idle
  BY <1>6, IdleIs
<1> QED BY <1>1, <1>3, <1>4, <1>5, <1>6, StepIs

LEMMA ConfinedStep ==
    ASSUME ExchangeTypeOK, Bound, CredentialConfined, [Next]_vars
    PROVE  CredentialConfined'
<1>1. CASE posts' = posts /\ UNCHANGED job
  BY <1>1 DEF CredentialConfined
<1>2. ASSUME Post, UNCHANGED job, NEW p \in Posts, p.to = endpoint.connect,
             p.tls = ~endpoint.loopback, p.credential = ~endpoint.loopback,
             posts' = Append(posts, p)
      PROVE  CredentialConfined'
  <2>1. posts \in Seq(Posts) /\ Len(posts) \in Nat /\ DOMAIN posts = 1..Len(posts)
    BY DEF ExchangeTypeOK
  <2>2. /\ DOMAIN posts' = 1..Len(posts) + 1 /\ posts'[Len(posts) + 1] = p
        /\ \A i \in 1..Len(posts) : posts'[i] = posts[i]
    BY <1>2, <2>1, AppendIs
  <2>3. IF p.credential
        THEN /\ p.tls /\ p.to \in Global
             /\ job.via = "adapter" /\ ~job.allow /\ job.credential = "set"
        ELSE p.to \in Loopback
    BY <1>2 DEF Bound, Post, Underway, InAttempt, BeforePost
  <2>4. ASSUME NEW i \in DOMAIN posts'
        PROVE  IF posts'[i].credential
               THEN /\ posts'[i].tls /\ posts'[i].to \in Global
                    /\ job.via = "adapter" /\ ~job.allow /\ job.credential = "set"
               ELSE posts'[i].to \in Loopback
    <3>1. CASE i = Len(posts) + 1
      BY <2>2, <2>3, <3>1
    <3>2. CASE i \in 1..Len(posts)
      BY <2>1, <2>2, <3>2 DEF CredentialConfined
    <3>3. i = Len(posts) + 1 \/ i \in 1..Len(posts)
      BY <2>1, <2>2
    <3> QED BY <3>1, <3>2, <3>3
  <2> QED BY <1>2, <2>4 DEF CredentialConfined
<1> QED BY <1>1, <1>2, PostsGrow

\* The clock.  Before a POST over plain HTTP the only wait is that of the
\* connection, and its timeout ends at the deadline.

LEMMA ClockStep ==
    ASSUME ExchangeTypeOK, Bound, Clock, [Next]_vars
    PROVE  Clock'
<1> USE DEF InAttempt, BeforePost, AfterPost
<1>0. now \in Nat /\ deadline \in Nat /\ left \in Int
  BY DEF ExchangeTypeOK
<1>1. ASSUME NEW answer \in Answers, Turn(answer) PROVE Clock'
  <2>1. pc' \in {"loop", "done"}
    BY <1>1, TurnEffect
  <2> QED BY <2>1 DEF Clock
<1>2. CASE Exchanging
  <2>1. UNCHANGED <<now, deadline>>
    BY <1>2, ExchangingFrame
  <2>2. CASE Open
    <3>1. endpoint' = endpoint /\ (pc' = "decide" \/ ~(now >= deadline))
      BY <2>2 DEF Open, Fails, FailsAfter
    <3>2. CASE pc' = "decide"
      BY <3>2 DEF Clock
    <3>3. CASE ~(now >= deadline)
      <4>1. left' = ConnectWait /\ pc' = "connecting"
        BY <2>2, <3>3, Zenon DEF Open
      <4>2. deadline - now \in Int /\ ConnectTimeout \in Nat \ {0}
        BY <1>0, ExchangeAssumption
      <4>3. /\ ConnectWait \in {deadline - now, ConnectTimeout}
            /\ ConnectWait <= deadline - now
        BY <4>2, MinOfTwo DEF ConnectWait
      <4>4. ConnectWait \in Int /\ ConnectWait > 0
        BY <1>0, <3>3, <4>2, <4>3
      <4> HIDE DEF ConnectWait
      <4>5. ConnectWait >= 0 /\ now + ConnectWait <= deadline
        BY <1>0, <4>3, <4>4
      <4> QED BY <2>1, <4>1, <4>5 DEF Clock
    <3> QED BY <3>1, <3>2, <3>3
  <2>3. CASE Connected
    <3>1. /\ pc = "connecting" /\ endpoint' = endpoint /\ pc' \in {"handshake", "post"}
      BY <2>3 DEF Connected
    <3>2. now <= deadline
      BY <1>0, <3>1 DEF Clock
    <3> QED BY <2>1, <3>1, <3>2 DEF Clock
  <2>4. CASE Handshaken
    <3>1. pc = "handshake" /\ endpoint' = endpoint /\ pc' = "post"
      BY <2>4 DEF Handshaken, exchange
    <3>2. ~endpoint.loopback
      BY <3>1 DEF Bound, Underway
    <3> QED BY <3>1, <3>2 DEF Clock
  <2>5. CASE pc' \notin {"connecting", "post"}
    BY <2>5 DEF Clock
  <2>6. ASSUME NEW answer \in Answers, Resolve(answer) PROVE Clock'
    BY <2>5, <2>6, ResolveEndpoint
  <2>7. CASE CertificateRejected \/ Post \/ NotHttp \/ Timeout \/ Reset
    <3>1. pc' \in {"decide", "writing"}
      BY <2>7 DEF CertificateRejected, Post, NotHttp, Timeout, Reset, Fails, FailsAfter
    <3> QED BY <2>5, <3>1
  <2>8. CASE Piece \/ Chunk \/ Written
    <3>1. pc' \in {"writing", "response", "body", "decide"}
      BY <2>8, SetReadTimeoutIs DEF Piece, Chunk, Written, Fails, FailsAfter
    <3> QED BY <2>5, <3>1
  <2>9. ASSUME NEW r \in Replies, Headers(r) PROVE Clock'
    <3>1. pc' \in {"body", "decide"}
      BY <2>9, HeadersShape DEF Fails, FailsAfter
    <3> QED BY <2>5, <3>1
  <2>10. ASSUME NEW end \in {"whole", "short", "over", "cut"}, BodyEnds(end)
         PROVE  Clock'
    <3>1. pc = "body"
      BY <2>10 DEF BodyEnds
    <3>2. pc' = "decide" \/ pc' \in AfterPost
      BY <1>2, <3>1, ExchangingShape DEF Failing, Going
    <3> QED BY <2>5, <3>2
  <2> QED BY <1>2, <2>2, <2>3, <2>4, <2>6, <2>7, <2>8, <2>9, <2>10 DEF Exchanging
<1>3. CASE Attempt
  <2>1. pc' \in {"open", "resolve", "done"}
    BY <1>3, AttemptEffect
  <2> QED BY <2>1 DEF Clock
<1>4. CASE Decide
  <2>1. pc' \in {"sleep", "done"}
    BY <1>4, DecideEffect
  <2> QED BY <2>1 DEF Clock
<1>5. ASSUME NEW valid \in BOOLEAN, Parsed(valid) PROVE Clock'
  <2>1. pc' \in {"decide", "done"}
    BY <1>5, ParsedEffect DEF Failing
  <2> QED BY <2>1 DEF Clock
<1>6. CASE Idle
  <2>1. /\ UNCHANGED <<deadline, endpoint>>
        /\ pc' = pc \/ pc' = "loop"
        /\ now' \in {now, now + 1}
        /\ pc = "post" => now' = now
        /\ pc = "connecting" => \/ now' = now /\ left' = left
                                \/ left > 0 /\ left' = left - 1
    BY <1>6, IdleIs
  <2>2. CASE pc' = "loop"
    BY <2>2 DEF Clock
  <2>3. CASE pc' = pc
    BY <1>0, <2>1, <2>3 DEF Clock
  <2> QED BY <2>1, <2>2, <2>3
<1> QED BY <1>1, <1>2, <1>3, <1>4, <1>5, <1>6, StepIs

LEMMA InTimeStep ==
    ASSUME ExchangeTypeOK, Posted, Bound, Clock, InTime, [Next]_vars
    PROVE  InTime'
<1>0. posts \in Seq(Posts) /\ Len(posts) \in Nat /\ DOMAIN posts = 1..Len(posts)
  BY DEF ExchangeTypeOK
<1>1. \A i \in DOMAIN posts' : posts'[i].tls \/ posts'[i].at <= deadline'
  <2>1. CASE posts' = posts /\ deadline' = deadline
    BY <2>1 DEF InTime
  <2>2. CASE posts' = posts /\ pc = "turn"
    BY <1>0, <2>2 DEF Posted
  <2>3. ASSUME Post, deadline' = deadline, NEW p \in Posts, p.at = now,
               p.tls = ~endpoint.loopback, posts' = Append(posts, p)
        PROVE  \A i \in DOMAIN posts' : posts'[i].tls \/ posts'[i].at <= deadline'
    <3>1. /\ DOMAIN posts' = 1..Len(posts) + 1 /\ posts'[Len(posts) + 1] = p
          /\ \A i \in 1..Len(posts) : posts'[i] = posts[i]
      BY <1>0, <2>3, AppendIs
    <3>2. p.tls \/ p.at <= deadline
      BY <2>3 DEF Post, Clock
    <3>3. ASSUME NEW i \in DOMAIN posts'
          PROVE  posts'[i].tls \/ posts'[i].at <= deadline
      <4>1. CASE i = Len(posts) + 1
        BY <3>1, <3>2, <4>1
      <4>2. CASE i \in 1..Len(posts)
        BY <1>0, <3>1, <4>2 DEF InTime
      <4>3. i = Len(posts) + 1 \/ i \in 1..Len(posts)
        BY <1>0, <3>1
      <4> QED BY <4>1, <4>2, <4>3
    <3> QED BY <2>3, <3>3
  <2>4. deadline' = deadline \/ (pc = "turn" /\ posts' = posts)
    BY StepIs, TurnEffect, ExchangingFrame, AttemptEffect, DecideEffect, ParsedEffect,
       IdleIs DEF still
  <2> QED BY <2>1, <2>2, <2>3, <2>4, PostsGrow
<1>2. pc' = "sleep" => wake' <= deadline'
  <2>1. ASSUME NEW answer \in Answers, Turn(answer) PROVE pc' # "sleep"
    BY <2>1, TurnEffect
  <2>2. CASE Exchanging
    BY <2>2, ExchangingShape DEF Failing, Going, InAttempt, BeforePost, AfterPost
  <2>3. CASE Attempt
    <3>1. pc' \in {"open", "resolve", "done"}
      BY <2>3, AttemptEffect
    <3> QED BY <3>1
  <2>4. CASE Decide
    BY <2>4, DecideEffect DEF still
  <2>5. ASSUME NEW valid \in BOOLEAN, Parsed(valid) PROVE pc' # "sleep"
    BY <2>5, ParsedEffect DEF Failing
  <2>6. CASE Idle
    BY <2>6, IdleIs DEF InTime, account
  <2> QED BY <2>1, <2>2, <2>3, <2>4, <2>5, <2>6, StepIs
<1> QED BY <1>1, <1>2 DEF InTime

\* The verdict.

LEMMA VerdictStep ==
    ASSUME ExchangeTypeOK, Attempts, Posted, Verdict, [Next]_vars
    PROVE  Verdict'
<1> USE DEF InAttempt, BeforePost, AfterPost
<1>0. /\ causes \in Seq(Causes) /\ classes \in Seq(FailureClasses)
      /\ posts \in Seq(Posts) /\ attempt \in Nat
      /\ Len(causes) \in Nat /\ DOMAIN classes = 1..Len(classes)
  BY DEF ExchangeTypeOK
<1>1. ASSUME NEW answer \in Answers, Turn(answer) PROVE Verdict'
  <2>1. /\ pc = "turn" /\ UNCHANGED <<attempt, cancelled>>
        /\ \/ pc' = "loop" /\ result' = result
           \/ /\ pc' = "done" /\ ~result'.ok /\ result'.class # "retry_exhausted"
              /\ result'.class = "cancelled" => cancelled
    BY <1>1, TurnEffect
  <2>2. attempt' = 0
    BY <2>1 DEF Attempts
  <2> QED BY <2>1, <2>2 DEF Verdict, ResultIsTruth
<1>2. ASSUME pc # "done", pc' # "done", result' = result PROVE Verdict'
  BY <1>2 DEF Verdict, ResultIsTruth
<1>3. CASE Exchanging
  <2>1. pc # "done" /\ pc' # "done" /\ result' = result
    BY <1>3, ExchangingShape DEF Failing, Going
  <2> QED BY <1>2, <2>1
<1>4. CASE Attempt
  <2>1. CASE pc' # "done"
    BY <1>2, <1>4, <2>1, AttemptEffect
  <2>2. CASE pc' = "done"
    <3>1. /\ result' = [ok |-> FALSE, class |-> "total_request_timeout"]
          /\ now >= deadline /\ UNCHANGED <<now, deadline>>
      BY <1>4, <2>2, AttemptEffect DEF still
    <3>2. ~result'.ok /\ result'.class = "total_request_timeout" /\ now' >= deadline'
      BY <3>1
    <3> QED BY <2>2, <3>2 DEF Verdict, ResultIsTruth
  <2> QED BY <2>1, <2>2
<1>5. CASE Decide
  <2>1. /\ pc = "decide" /\ UNCHANGED <<attempt, causes, classes>>
    BY <1>5, DecideEffect DEF exchange
  <2>2. /\ Len(causes) = attempt /\ attempt > 0 /\ Len(classes) = attempt
        /\ last.class = classes[attempt] /\ attempt <= AttemptCount
        /\ \A i \in 1..attempt : i < attempt => Retryable(classes[i])
    BY <2>1 DEF Attempts
  <2>3. /\ causes # <<>> /\ Last(classes) = last.class /\ last.class \in FailureClasses
    BY <1>0, <2>2 DEF Last
  <2>4. CASE pc' = "sleep" /\ result' = result
    BY <1>2, <2>1, <2>4
  <2>5. CASE /\ pc' = "done" /\ result' = [ok |-> FALSE, class |-> last.class]
    <3>1. /\ ~result'.ok /\ result'.class = last.class
          /\ result'.class \notin {"retry_exhausted", "cancelled"}
      BY <2>3, <2>5 DEF FailureClasses
    <3>2. causes' # <<>> /\ result'.class = Last(classes')
      BY <2>1, <2>3, <3>1
    <3> QED BY <2>5, <3>1, <3>2 DEF Verdict, ResultIsTruth
  <2>6. CASE /\ pc' = "done" /\ result' = [ok |-> FALSE, class |-> "retry_exhausted"]
             /\ Retryable(last.class) /\ attempt >= AttemptCount
    <3>1. Len(causes') = AttemptCount
      BY <1>0, <2>1, <2>2, <2>6, ExchangeAssumption
    <3>2. \A i \in DOMAIN classes : Retryable(classes[i])
      <4>1. \A i \in 1..attempt : i < attempt \/ i = attempt
        BY <1>0
      <4> QED BY <1>0, <2>2, <2>6, <4>1
    <3>3. ~result'.ok /\ result'.class = "retry_exhausted"
      BY <2>6
    <3> QED BY <2>1, <2>6, <3>1, <3>2, <3>3 DEF Verdict, ResultIsTruth
  <2> QED BY <1>5, <2>4, <2>5, <2>6, DecideEffect
<1>6. ASSUME NEW valid \in BOOLEAN, Parsed(valid) PROVE Verdict'
  <2>1. pc = "parse" /\ UNCHANGED <<posts, attempt, reply, cancelled>>
    BY <1>6, ParsedEffect DEF exchange, still
  <2>2. CASE Failing
    BY <1>2, <2>1, <2>2 DEF Failing
  <2>3. CASE pc' = "done" /\ result' = [ok |-> FALSE, class |-> "cancelled"] /\ cancelled
    <3>1. ~result'.ok /\ result'.class = "cancelled" /\ cancelled'
      BY <2>1, <2>3
    <3> QED BY <2>3, <3>1 DEF Verdict, ResultIsTruth
  <2>4. CASE pc' = "done" /\ causes' = causes /\ result' = [ok |-> TRUE, class |-> "none"]
    <3>1. result'.ok /\ result'.class = "none"
      BY <2>4
    <3>2. /\ reply.status \in 200..299 /\ reply.json /\ Len(causes) = attempt - 1
          /\ Len(posts) > 0 /\ posts[Len(posts)].attempt = attempt
      BY <2>1 DEF Posted, Attempts
    <3>3. posts # <<>> /\ Last(posts).attempt = attempt
      BY <1>0, <3>2 DEF Last
    <3>4. /\ reply'.status \in 200..299 /\ reply'.json /\ Len(causes') = attempt' - 1
          /\ posts' # <<>> /\ Last(posts').attempt = attempt'
      BY <2>1, <2>4, <3>2, <3>3
    <3> QED BY <2>4, <3>1, <3>4 DEF Verdict, ResultIsTruth
  <2>5. CASE /\ pc' = "done"
             /\ result' = [ok |-> FALSE, class |-> "unsupported_provider_content"]
    <3>1. ~result'.ok /\ result'.class = "unsupported_provider_content"
      BY <2>5
    <3> QED BY <2>5, <3>1 DEF Verdict, ResultIsTruth
  <2> QED BY <1>6, <2>2, <2>3, <2>4, <2>5, ParsedEffect DEF account
<1>7. CASE Idle
  <2>1. CASE pc = "done"
    <3>1. UNCHANGED <<pc, now, deadline, cancelled, attempt, causes, classes, posts,
                      reply, result>>
      BY <1>7, <2>1, IdleIs DEF account
    <3> QED BY <3>1 DEF Verdict, ResultIsTruth
  <2>2. CASE pc # "done"
    <3>1. pc' # "done" /\ result' = result
      BY <1>7, <2>2, IdleIs
    <3> QED BY <1>2, <2>2, <3>1
  <2> QED BY <2>1, <2>2
<1> QED BY <1>1, <1>3, <1>4, <1>5, <1>6, <1>7, StepIs

-----------------------------------------------------------------------------

LEMMA ExchangeInit ==
    ASSUME Init
    PROVE  ExchangeInv
<1>1. ExchangeTypeOK
  BY TypeInit
<1>2. /\ pc = "turn" /\ attempt = 0 /\ result = Running
      /\ causes = <<>> /\ classes = <<>> /\ posts = <<>>
  BY DEF Init
<1>3. Len(causes) = 0 /\ Len(classes) = 0 /\ Len(posts) = 0 /\ DOMAIN posts = {}
  BY <1>2
<1>4. pc \notin Between \cup InAttempt \cup Underway
  BY <1>2 DEF Underway, InAttempt, BeforePost, AfterPost, Between
<1>5. Attempts
  BY <1>2, <1>3, <1>4, ExchangeAssumption DEF Attempts
<1>6. Posted
  BY <1>2, <1>3, <1>4 DEF Posted, InAttempt
<1>7. Bound /\ Clock /\ Verdict
  BY <1>2, <1>4 DEF Bound, Clock, Verdict, ResultIsTruth
<1>8. CredentialConfined /\ InTime
  BY <1>2, <1>3 DEF CredentialConfined, InTime
<1> QED BY <1>1, <1>5, <1>6, <1>7, <1>8 DEF ExchangeInv

\* ExchangeInv holds in every state of a turn: of what kind its state is, how
\* attempts, causes, classes and POSTs correspond, where the next POST may go,
\* what time is left for it, and what the verdict rests on.
THEOREM ExchangeInvariance == Spec => []ExchangeInv
<1>1. Init => ExchangeInv
  BY ExchangeInit
<1>2. ExchangeInv /\ [Next]_vars => ExchangeInv'
  BY TypeStep, AttemptsStep, PostedStep, BoundStep, ClockStep, VerdictStep,
     ConfinedStep, InTimeStep DEF ExchangeInv
<1> QED BY <1>1, <1>2, PTL DEF Spec

\* The credential leaves the process only inside TLS, to a global address, in a
\* turn configured for it (endpoint_policy.py, _one_attempt()).
THEOREM CredentialStaysConfined == Spec => []CredentialConfined
BY ExchangeInvariance, PTL DEF ExchangeInv

\* At most AttemptCount attempts, one POST in each, and another attempt only
\* after what may pass by itself (decide_retry(), errors.py).
THEOREM RetriesAreTransient == Spec => []OnlyTransientRetried
<1>1. ExchangeInv => OnlyTransientRetried
  <2> SUFFICES ASSUME ExchangeInv PROVE OnlyTransientRetried
    OBVIOUS
  <2>0. /\ ExchangeTypeOK /\ Attempts /\ Posted /\ Verdict
        /\ attempt \in Nat /\ posts \in Seq(Posts) /\ Len(posts) \in Nat
        /\ DOMAIN posts = 1..Len(posts) /\ Len(causes) \in Nat
    BY DEF ExchangeInv, ExchangeTypeOK
  <2>00. \A i \in 1..Len(posts) : posts[i].attempt \in Nat
    BY <2>0, PostIs
  <2>1. attempt <= AttemptCount
    BY <2>0 DEF Attempts
  <2>2. Len(posts) <= attempt
    <3>1. CASE Len(posts) = 0
      BY <2>0, <3>1
    <3>2. CASE Len(posts) # 0
      <4>1. Len(posts) \in 1..Len(posts)
        BY <2>0, <3>2
      <4>2. PICK a \in Nat : a = posts[Len(posts)].attempt
        BY <2>00, <4>1
      <4>3. Len(posts) <= a /\ a <= attempt
        BY <2>0, <4>1, <4>2 DEF Posted
      <4> QED BY <2>0, <4>3
    <3> QED BY <3>1, <3>2
  <2>3. \A i, j \in DOMAIN posts : posts[i].attempt = posts[j].attempt => i = j
    <3> TAKE i, j \in DOMAIN posts
    <3>1. posts[i].attempt \in Nat /\ posts[j].attempt \in Nat
      BY <2>0, <2>00
    <3>2. /\ i < j => posts[i].attempt < posts[j].attempt
          /\ j < i => posts[j].attempt < posts[i].attempt
      BY <2>0 DEF Posted
    <3> QED BY <2>0, <3>1, <3>2
  <2>4. \A i \in 1..attempt - 1 : Transient(causes[i])
    <3>1. Len(causes) >= attempt - 1
      BY <2>0 DEF Attempts, ExchangeTypeOK, Underway
    <3> TAKE i \in 1..attempt - 1
    <3>2. i \in 1..Len(causes) /\ i < attempt
      BY <2>0, <3>1
    <3> QED BY <2>0, <3>2 DEF Attempts
  <2> QED BY <2>1, <2>2, <2>3, <2>4 DEF OnlyTransientRetried
<1> QED BY <1>1, ExchangeInvariance, PTL

\* What turn() returns or raises is what happened on the wire.
THEOREM VerdictIsTrue == Spec => []ResultIsTruth
BY ExchangeInvariance, PTL DEF ExchangeInv, Verdict

\* No request over plain HTTP after the deadline, no sleep planned beyond it.
THEOREM DeadlineKept == Spec => []InTime
BY ExchangeInvariance, PTL DEF ExchangeInv
=============================================================================
