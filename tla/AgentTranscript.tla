---------------------------- MODULE AgentTranscript ----------------------------
(***************************************************************************)
(* The control transcript of agent/native_mcp_agent/transcript.py: a list  *)
(* of events that is bounded in number and in bytes, keeps room for one    *)
(* last "transcript_limit" event, and must be accepted by the module's own *)
(* parser when it is serialized.                                           *)
(*                                                                         *)
(* A transcript is a value t: its events, whether it is limited, whether   *)
(* an add() raised, and its two limits.  An event's size is one unit plus  *)
(* one for each of its metadata fields.  Operators whose comment begins    *)
(* with "Fault" are plausible mistakes in the definition that follows.     *)
(***************************************************************************)
EXTENDS Integers, Sequences, FiniteSets, SequencesExt

CONSTANT TooLong    \* proposal ids of more than 64 characters

\* The metadata fields an event must have, by event.
Schema ==
    LET Row(events, fields) == [events |-> events, fields |-> fields] IN
    {Row({"process_start", "initialize_request", "initialized_notification",
          "tools_list_request", "deadline", "cancelled", "shutdown_start",
          "shutdown_terminate", "shutdown_kill", "shutdown_complete",
          "shutdown_unreaped", "transcript_limit"}, {}),
     Row({"initialize_response", "tools_list_response"}, {"response"}),
     Row({"surface", "surface_captured", "surface_revalidated"}, {"surface"}),
     Row({"provider_turn", "provider_turn_start", "provider_turn_response"},
         {"turn", "bytes"}),
     Row({"proposal_rejected", "proposal_duplicate", "skipped"}, {"proposal"}),
     Row({"mcp_request", "mcp_response", "evidence_validated"}, {"action", "response"}),
     Row({"authorized"}, {"action", "proposal"}), Row({"failure"}, {"failure"}),
     Row({"failed"}, {"failure", "action"}), Row({"outcome"}, {"outcome"})}

Event(name, meta) == [event |-> name, meta |-> meta]
Plain(name) == Event(name, <<>>)
Terminal == Plain("transcript_limit")

\* An event is closed: exactly its fields (a "failed" event may omit action).
SchemaHolds(e) ==
    \/ \E row \in Schema : e.event \in row.events /\ DOMAIN e.meta = row.fields
    \/ e.event = "failed" /\ DOMAIN e.meta = {"failure"}

\* Failure classes whose name holds one of the words of _SUSPICIOUS.
Suspicious == {"local_authorization_failure", "http_403_authorization_failure"}

Redacted(e) ==
    [e EXCEPT !.meta = [k \in DOMAIN @ |->
        IF k = "failure" /\ @[k] \in Suspicious THEN "redacted" ELSE @[k]]]

Size(e) == 1 + Cardinality(DOMAIN e.meta)
TranscriptBytes(events) ==
    LET bytes[n \in 0..Len(events)] ==
            IF n = 0 THEN 0 ELSE bytes[n - 1] + Size(events[n])
    IN  bytes[Len(events)]

BoundedTranscript(count, bytes) ==
    [events |-> <<>>, limited |-> FALSE, raised |-> FALSE,
     count |-> count, bytes |-> bytes]

\* Fault: the reserve for the terminal event is forgotten.
HasRoomNoReserve(t, candidate) ==
    /\ Len(candidate) <= t.count
    /\ TranscriptBytes(candidate) <= t.bytes

\* Room for the terminal event is kept before an ordinary one is accepted.
HasRoom(t, candidate) ==
    /\ Len(candidate) < t.count
    /\ TranscriptBytes(Append(candidate, Terminal)) <= t.bytes

\* add() refuses an event that is not closed or holds a value too long; only
\* a proposal id can be, everything else is a digest, a number or a name.
Refused(e) ==
    \/ ~SchemaHolds(e)
    \/ "proposal" \in DOMAIN e.meta /\ e.meta.proposal \in TooLong

\* BoundedTranscript.add(): nothing once limited, else the event, or the
\* terminal one in its place.  After a raise the adds that follow are not
\* reached.
Add(t, e) ==
    LET candidate == Append(t.events, Redacted(e)) IN
    IF t.raised \/ t.limited THEN t
    ELSE IF Refused(e) THEN [t EXCEPT !.raised = TRUE]
    ELSE IF HasRoom(t, candidate) THEN [t EXCEPT !.events = candidate]
    ELSE [t EXCEPT !.events = Append(@, Terminal), !.limited = TRUE]

\* The adds one after another (a singleton, so that TLC evaluates each once).
AddAll(t, events) ==
    LET after[n \in 0..Len(events)] ==
            IF n = 0 THEN {t} ELSE {Add(u, events[n]) : u \in after[n - 1]}
    IN  CHOOSE u \in after[Len(events)] : TRUE

Records(t, name) == \E i \in DOMAIN t.events : t.events[i].event = name

Earlier(events, i, name) == {j \in 1..i - 1 : events[j].event = name}

\* An event may only cite what the events before it have established.
Provenance(events, i) ==
    LET e == events[i]
        SamePair(name) == \E j \in Earlier(events, i, name) : events[j].meta = e.meta
        SameAction(name) ==
            \E j \in Earlier(events, i, name) : events[j].meta.action = e.meta.action
    IN  CASE e.event = "authorized" -> ~SameAction("authorized")
          [] e.event = "mcp_request" ->
                /\ SameAction("authorized")
                /\ ~SameAction("mcp_request")
                /\ \A j \in Earlier(events, i, "mcp_request") :
                       events[j].meta.response # e.meta.response
          [] e.event = "mcp_response" ->
                SamePair("mcp_request") /\ ~SamePair("mcp_response")
          [] e.event = "evidence_validated" ->
                SamePair("mcp_response") /\ ~SamePair("evidence_validated")
          [] OTHER -> TRUE

\* parse_bounded_transcript() accepts what to_json_bytes() wrote.
ParseBoundedTranscript(t) ==
    /\ Len(t.events) <= t.count
    /\ TranscriptBytes(t.events) <= t.bytes
    /\ \A i \in DOMAIN t.events :
           SchemaHolds(t.events[i]) /\ Provenance(t.events, i)
    /\ {i \in DOMAIN t.events : t.events[i] = Terminal}
           = IF t.limited THEN {Len(t.events)} ELSE {}
=============================================================================
