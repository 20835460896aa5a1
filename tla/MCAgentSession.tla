---------------------------- MODULE MCAgentSession ----------------------------
(* Instances of AgentSession for TLC.                                      *)
EXTENDS AgentProperties

P(call, act) == [call |-> call, act |-> act]

\* Turns with no, one, two and too many proposals: fresh, repeated within the
\* turn or over turns by id or by action, unknown, unfit, with a long id, refused
\* by the client's limits or too wide to execute.
MCOffers ==
    {<<>>, <<P("k2", "a")>>, <<P("k3", "c")>>,
     <<P("k1", "a"), P("k2", "b")>>, <<P("k1", "b"), P("k1", "a")>>,
     <<P("k1", "a"), P("k2", "a")>>, <<P("k1", "a"), P("long", "b")>>,
     <<P("k3", "strict")>>, <<P("k2", "wide"), P("k3", "c")>>, <<P("k1", "unknown")>>,
     <<P("k2", "unfit"), P("long", "a")>>,
     <<P("k1", "a"), P("k2", "b"), P("k3", "c")>>}

FewOffers == {<<P("k1", "a"), P("k2", "b")>>, <<P("long", "a")>>}

MCCaps == {<<14, 30>>, <<40, 100>>}
WideCaps == {<<40, 100>>}
=============================================================================
