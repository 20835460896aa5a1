---------------------------- MODULE EndpointPolicy ----------------------------
(***************************************************************************)
(* Which addresses the agent may connect to (agent/native_mcp_agent/       *)
(* endpoint_policy.py).  A URL is the record of its parts, an address one  *)
(* of a few representatives, and a resolver's answer a sequence of         *)
(* addresses or NoAnswer.  Operators whose comment begins with "Fault" are *)
(* plausible mistakes in the definition that follows.                      *)
(***************************************************************************)
EXTENDS Naturals, Sequences

Loopback == {"127.0.0.1", "::1"}
Global == {"203.0.114.7"}
Private == {"10.0.0.8", "0.0.0.0"}
OtherFamily == "unix"
Addresses == Loopback \cup Global \cup Private
Names == {"localhost", "provider.example"}
NoAnswer == <<"no answer">>

\* well: its text, length, host syntax and path; extras: user-info, a query
\* or a fragment.
Urls == [well : BOOLEAN, extras : BOOLEAN, scheme : {"http", "https"},
         host : Names \cup Addresses, port : 0..3]

Ports == 1..2    \* the ports in range; 0 stands for none given, 3 for too large

Rejected(class) == [ok |-> FALSE, class |-> class]
Endpoint(u, connect, loopback) ==
    [ok |-> TRUE, url |-> u, scheme |-> u.scheme, host |-> u.host,
     connect |-> connect, port |-> IF u.port = 0 THEN 1 ELSE u.port,
     loopback |-> loopback]

\* _split() returns.
Split(u) == u.well /\ ~u.extras /\ (u.port = 0 \/ u.port \in Ports)

ValidateProduction(u, verify) ==
    IF ~Split(u) THEN Rejected("endpoint_policy_rejection")
    ELSE IF u.scheme # "https" THEN Rejected("insecure_scheme")
    ELSE IF ~verify THEN Rejected("tls_verification_failure")
    ELSE Endpoint(u, u.host, FALSE)

\* Fault: one global record is enough.
ResolveProductionAny(e, answer) ==
    IF e # ValidateProduction(e.url, TRUE) \/ answer \in {NoAnswer, <<>>}
    THEN Rejected("dns_or_connection_failure")
    ELSE IF \E i \in DOMAIN answer : answer[i] \in Global
    THEN [e EXCEPT !.connect = answer[1]]
    ELSE Rejected("endpoint_policy_rejection")

\* resolve_production_transport_endpoint(): one local record spoils the answer.
ResolveProduction(e, answer) ==
    IF e # ValidateProduction(e.url, TRUE) \/ answer \in {NoAnswer, <<>>}
    THEN Rejected("dns_or_connection_failure")
    ELSE IF \A i \in DOMAIN answer : answer[i] \in Global
    THEN [e EXCEPT !.connect = answer[1]]
    ELSE Rejected("endpoint_policy_rejection")

\* _resolved_addresses()
ResolvedToLoopback(answer) ==
    /\ answer \notin {NoAnswer, <<>>}
    /\ \A i \in DOMAIN answer : answer[i] \in Loopback

ValidateFake(u, allow, answer) ==
    IF ~allow \/ ~Split(u) THEN Rejected("endpoint_policy_rejection")
    ELSE IF u.scheme # "http" THEN Rejected("insecure_scheme")
    ELSE IF u.host \notin Loopback \cup {"localhost"} \/ ~ResolvedToLoopback(answer)
    THEN Rejected("endpoint_policy_rejection")
    ELSE Endpoint(u, answer[1], TRUE)

\* validate_loopback_transport_endpoint(): every field again, no resolver.
LoopbackTransport(e) ==
    /\ e.scheme = "http" /\ e.loopback /\ e.connect \in Loopback
    /\ e.port \in Ports /\ Split(e.url) /\ e.url.scheme = "http"
    /\ e.host = e.url.host /\ e.port = Endpoint(e.url, e.connect, TRUE).port
    /\ IF e.host \in Addresses THEN e.host = e.connect ELSE e.host = "localhost"
=============================================================================
