-------------------------- MODULE MCProviderExchange --------------------------
(* Instances of ProviderExchange for TLC.                                  *)
EXTENDS ProviderProperties

Url(scheme, host) ==
    [well |-> TRUE, extras |-> FALSE, scheme |-> scheme, host |-> host, port |-> 0]

Adapter(u, allow) ==
    [via |-> "adapter", url |-> u, allow |-> allow, connect |-> "127.0.0.1",
     request |-> "sound", evidence |-> FALSE, credential |-> "set"]

Fake(u, connect) == [Adapter(u, TRUE) EXCEPT !.via = "fake", !.connect = connect]

Remote == Adapter(Url("https", "provider.example"), FALSE)
Local == Adapter(Url("http", "localhost"), TRUE)
Numeric == Fake(Url("http", "::1"), "::1")

\* A sound turn of each kind, and each way to be refused before the network.
MCJobs ==
    {Remote, Local, Numeric,
     Fake(Url("http", "localhost"), "203.0.114.7"),
     Fake(Url("http", "::1"), "127.0.0.1"),
     Adapter(Url("http", "provider.example"), FALSE),
     Adapter(Url("http", "provider.example"), TRUE),
     Adapter(Url("https", "localhost"), TRUE),
     Adapter(Url("http", "127.0.0.1"), TRUE),
     [Remote EXCEPT !.evidence = TRUE], [Remote EXCEPT !.credential = "unset"],
     [Remote EXCEPT !.request = "foreign"], [Local EXCEPT !.request = "large"],
     [Remote EXCEPT !.url.extras = TRUE], [Local EXCEPT !.url.port = 3],
     [Remote EXCEPT !.url.well = FALSE], [Numeric EXCEPT !.request = "large"]}

MCAnswers ==
    {NoAnswer, <<>>, <<"203.0.114.7">>, <<"10.0.0.8", "203.0.114.7">>,
     <<"127.0.0.1">>, <<"::1", "203.0.114.7">>, <<OtherFamily>>}
=============================================================================
