----------------------------- MODULE ToolContracts -----------------------------
(***************************************************************************)
(* What the agent accepts as a tool, as a proposed call of it, and as its  *)
(* result: capture_tool_surface() and _validate_tool_result() of           *)
(* agent/native_mcp_agent/mcp_orchestrator.py, the schema and proposal     *)
(* checks of contracts.py, and parse_openai_compatible_response() of       *)
(* openai_compatible.py, in the order in which one tool goes through them. *)
(*                                                                         *)
(* A JSON value is a tree, a function from the paths to its parts to nodes *)
(* (IsTree): a scalar [t, v] (a string's v is its length), an array        *)
(* [t, frozen, len] or an object [t, frozen, fields]; frozen tells the     *)
(* tuples and _FrozenDicts of _freeze_json() from the lists and dicts of   *)
(* json.loads().  A path is a sequence of steps <<"array", index>> and     *)
(* <<"object", name>>.  A schema is a function from paths to the keywords  *)
(* found there, the sub-schema under "items" being the step Items.  What   *)
(* the code does by recursion on a value or a schema is said of every path *)
(* in it, the depth of the recursion being the length of the path.         *)
(*                                                                         *)
(* Operators whose comment begins with "Fault" are plausible mistakes in   *)
(* the definition that follows.  The number of keywords of a schema (at    *)
(* most 14) is not held against the limit on items, which is 32.           *)
(***************************************************************************)
EXTENDS Integers, Sequences, FiniteSets, SequencesExt, Functions

CONSTANTS
    ToolLists,      \* bound: the tools a server may advertise
    Responses,      \* bound: what the provider may answer
    Results,        \* bound: what a tool may return
    CanonicalIds,   \* call ids of the form call-<number>
    LegacyIds,      \* other ids ToolCallId accepts
    Parser,         \* the Limits of OpenAICompatibleConfig, ...
    Orchestrator,   \* ... of BoundedOrchestrator, ...
    Client,         \* ... and of McpStdioClient (see LimitNames)
    Hard,           \* HARD_LIMITS
    McpLow, McpHigh,\* the integers _bounded_mcp_number() accepts
    MaskedKeys,     \* field names redact_json() hides: secrets, paths, process ids
    Redaction       \* its array items (128) and text (4096), the length of REDACTED

\* text bounds one string; argument, in bytes, a string of the arguments and the
\* whole of them; response a string of a result.
LimitNames == {"depth", "items", "text", "argument", "response", "tools", "calls",
               "evidenceItems", "evidenceText"}

\* Limits(): every limit is positive and within its hard maximum.
LimitsOk ==
    /\ Hard \in [LimitNames -> Nat]
    /\ \A lim \in {Parser, Orchestrator, Client} :
           lim \in [LimitNames -> Nat] /\ \A f \in LimitNames : lim[f] \in 1..Hard[f]

ASSUME ContractAssumption ==
    LimitsOk /\ Redaction.items \in Nat \ {0} /\ Redaction.text \in Nat /\ Redaction.mask \in Nat

\* _mcp_evidence_limits(), and the string limit that goes with it.
EvidenceLimits ==
    [Client EXCEPT !.items = Client.evidenceItems, !.text = Client.evidenceText]

VARIABLES
    pc,
    tools,          \* what the server advertised
    surface,        \* what was captured of it, by tool name
    proposals,      \* what was parsed of the provider's answer
    sent,           \* how many of the proposals were sent to the child
    evidence        \* the last result that was accepted, and what is kept of it

vars == <<pc, tools, surface, proposals, sent, evidence>>

-----------------------------------------------------------------------------
(* JSON values                                                             *)

Steps == ({"array"} \X Nat) \cup ({"object"} \X STRING)
Nodes == [t : {"string", "boolean", "integer", "float", "null"}, v : Int]
         \cup [t : {"array"}, frozen : BOOLEAN, len : Nat]
         \cup [t : {"object"}, frozen : BOOLEAN, fields : SUBSET STRING]

Container(n) == n.t \in {"array", "object"}
Size(n) == IF n.t = "array" THEN n.len ELSE Cardinality(n.fields)
Numbers == {"boolean", "integer", "float"}

\* The steps that leave a node.
Leaving(n) ==
    CASE n.t = "array" -> {"array"} \X (1..n.len)
      [] n.t = "object" -> {"object"} \X n.fields
      [] OTHER -> {}

\* The paths are those that the nodes on the way allow, and all of them.
IsTree(v) ==
    /\ DOMAIN v \subseteq Seq(Steps) /\ <<>> \in DOMAIN v /\ v \in [DOMAIN v -> Nodes]
    /\ \A p \in DOMAIN v : \A i \in DOMAIN p :
           /\ SubSeq(p, 1, i - 1) \in DOMAIN v
           /\ p[i] \in Leaving(v[SubSeq(p, 1, i - 1)])
    /\ \A p \in DOMAIN v : \A step \in Leaving(v[p]) : Append(p, step) \in DOMAIN v

WithFlag(n, flag) == IF Container(n) THEN [n EXCEPT !.frozen = flag] ELSE n

\* What json.loads() returns for a text.
Plain(v) == [p \in DOMAIN v |-> WithFlag(v[p], FALSE)]
IsJson(v) == IsTree(v) /\ v = Plain(v)

\* What _freeze_json() returns.
Frozen(v) == [p \in DOMAIN v |-> WithFlag(v[p], TRUE)]

NodeFits(n, lim) ==
    IF Container(n) THEN Size(n) <= lim.items ELSE n.t = "string" => n.v <= lim.text

\* _json_value(), and the same checks in _freeze_json(), from depth d on.
Fits(v, d, lim) ==
    \A p \in DOMAIN v : d + Len(p) <= lim.depth /\ NodeFits(v[p], lim)

\* What a value holds at p.
Part(v, p) ==
    [q \in {x \in UNION {Suffixes(y) : y \in DOMAIN v} : p \o x \in DOMAIN v} |-> v[p \o q]]

\* Python's ==: a bool is a number, a tuple is not a list.
NodeEq(m, n) ==
    IF m.t \in Numbers /\ n.t \in Numbers THEN m.v = n.v
    ELSE /\ m.t = n.t
         /\ CASE m.t = "array" -> m.frozen = n.frozen /\ m.len = n.len
              [] m.t = "object" -> m.fields = n.fields
              [] OTHER -> m.v = n.v

PyEq(a, b) == DOMAIN a = DOMAIN b /\ \A p \in DOMAIN a : NodeEq(a[p], b[p])

PyType(n) == <<n.t, IF Container(n) THEN n.frozen ELSE FALSE>>

\* The part of v at p is one of the values k.enum, if the keywords k have any.
InEnum(v, p, k) ==
    "enum" \in DOMAIN k =>
        \E i \in DOMAIN k.enum :
            PyType(v[p]) = PyType(k.enum[i][<<>>]) /\ PyEq(Part(v, p), k.enum[i])

-----------------------------------------------------------------------------
(* Schemas: k stands for the keywords found at one path.                   *)

Types == {"object", "array", "string", "boolean", "integer", "number", "null"}
Get(k, key, default) == IF key \in DOMAIN k THEN k[key] ELSE default
Properties(k) == Get(k, "properties", {})
Required(k) == Get(k, "required", <<>>)
Ordered(k, low, high) == {low, high} \subseteq DOMAIN k => k[low] <= k[high]
ObjectKeys == {"properties", "required", "additionalProperties"}
SchemaKeys == ObjectKeys \cup {"type", "items", "enum", "minLength", "maxLength",
                               "minimum", "maximum"}
Annotations == {"description", "default", "title"}

Items == <<"array", 0>>

\* Where the schema says what it wants of the values at p.
SchemaPath(p) == [i \in DOMAIN p |-> IF p[i][1] = "array" THEN Items ELSE p[i]]

\* _schema_types(): a list of types is under the key "types".
SchemaTypes(k) ==
    IF "types" \in DOMAIN k THEN k.types
    ELSE IF "type" \in DOMAIN k THEN <<k.type>> ELSE <<>>

\* The sub-schemas that the keywords hold.
SubSchemas(k) ==
    ({"object"} \X Properties(k)) \cup (IF "items" \in DOMAIN k THEN {Items} ELSE {})

\* What a schema is before any check: its sub-schemas are where the keywords say,
\* its lists are lists, and its enums hold values.
IsSchema(s) ==
    /\ DOMAIN s \subseteq Seq(Steps) /\ <<>> \in DOMAIN s /\ s = [p \in DOMAIN s |-> s[p]]
    /\ \A p \in DOMAIN s : \A i \in DOMAIN p :
           /\ SubSeq(p, 1, i - 1) \in DOMAIN s
           /\ p[i] \in SubSchemas(s[SubSeq(p, 1, i - 1)])
    /\ \A p \in DOMAIN s : \A step \in SubSchemas(s[p]) : Append(p, step) \in DOMAIN s
    /\ \A p \in DOMAIN s : \A key \in {"required", "types", "enum"} \cap DOMAIN s[p] :
           s[p][key] \in Seq(Range(s[p][key]))
    /\ \A p \in DOMAIN s :
           "enum" \in DOMAIN s[p] => \A e \in Range(s[p].enum) : IsJson(e)

\* The sub-schemas a check comes to: those under the types of the schemas above.
Reached(s) ==
    {p \in DOMAIN s : \A i \in DOMAIN p : p[i][1] \in Range(SchemaTypes(s[SubSeq(p, 1, i - 1)]))}

\* How deep below the whole schema its keywords at p are: those of a property are
\* two levels below those of the object, those of the items one below the array's.
SchemaDepth(p) == Len(p) + Cardinality({i \in DOMAIN p : p[i][1] = "object"})

\* _schema_value_matches()
ValueMatches(n, type) ==
    IF type = "number" THEN n.t \in {"integer", "float"} ELSE n.t = type

RequiredOk(k, lim) ==
    /\ Len(Required(k)) <= lim.items /\ IsInjective(Required(k))
    /\ Range(Required(k)) \subseteq Properties(k)

\* _freeze_json() of the keywords found at depth d: what they hold is one level
\* deeper, what their lists hold one more.
KeywordsFit(k, d, lim) ==
    /\ d <= lim.depth /\ (DOMAIN k # {} => d + 1 <= lim.depth)
    /\ Cardinality(Properties(k)) <= lim.items
    /\ \A key \in {"required", "types", "enum"} \cap DOMAIN k :
           Len(k[key]) <= lim.items /\ (k[key] # <<>> => d + 2 <= lim.depth)
    /\ "enum" \in DOMAIN k => \A i \in DOMAIN k.enum : Fits(k.enum[i], d + 2, lim)

\* _freeze_json() of a schema found at depth d.
SchemaFits(s, d, lim) == \A p \in DOMAIN s : KeywordsFit(s[p], d + SchemaDepth(p), lim)

FrozenKeywords(k, drop) ==
    [key \in DOMAIN k \ drop |->
        IF key = "enum" THEN [i \in DOMAIN k.enum |-> Frozen(k.enum[i])] ELSE k[key]]

\* What _freeze_json() returns for a schema, the keywords in drop left out.
FrozenSchema(s, drop) == [p \in DOMAIN s |-> FrozenKeywords(s[p], drop)]

-----------------------------------------------------------------------------
(* Input schemas                                                           *)

\* _normalize_input_schema(): what it refuses, and what it returns.
NormalOk(s) ==
    \A p \in DOMAIN s :
        /\ Len(p) <= Client.depth /\ DOMAIN s[p] \subseteq SchemaKeys \cup Annotations
        /\ Cardinality(Properties(s[p])) <= Client.items

Normalized(s) == FrozenSchema(s, Annotations)

KeywordsDefined(k, lim) ==
    /\ DOMAIN k \subseteq SchemaKeys
    /\ "type" \in DOMAIN k /\ k.type \in Types
    /\ ~Get(k, "additionalProperties", FALSE)
    /\ CASE k.type = "object" -> Cardinality(Properties(k)) <= lim.items /\ RequiredOk(k, lim)
         [] k.type = "array" -> "items" \in DOMAIN k
         [] OTHER -> DOMAIN k \cap (ObjectKeys \cup {"items"}) = {}
    /\ "enum" \in DOMAIN k =>
           /\ Len(k.enum) \in 1..lim.items
           /\ \A i \in DOMAIN k.enum :
                  Fits(k.enum[i], 1, lim) /\ ValueMatches(k.enum[i][<<>>], k.type)
    /\ \A key \in {"minLength", "maxLength"} \cap DOMAIN k :
           k.type = "string" /\ k[key] \in 0..Hard.argument
    /\ {"minimum", "maximum"} \cap DOMAIN k # {} => k.type \in {"integer", "number"}
    /\ Ordered(k, "minLength", "maxLength") /\ Ordered(k, "minimum", "maximum")

\* _validate_schema_definition()
SchemaDefined(s, lim) ==
    \A p \in Reached(s) : Len(p) <= lim.depth /\ KeywordsDefined(s[p], lim)

\* What _validate_schema() requires of the value at p of v.
InputValidAt(v, p, k, lim) ==
    LET n == v[p] IN
    /\ ValueMatches(n, k.type) /\ InEnum(v, p, k)
    /\ CASE k.type = "object" ->
               /\ Size(n) <= lim.items
               /\ n.fields \subseteq Properties(k) /\ Range(Required(k)) \subseteq n.fields
         [] k.type = "array" -> Size(n) <= lim.items
         [] k.type = "string" ->
               /\ n.v <= lim.argument
               /\ n.v \in Get(k, "minLength", 0)..Get(k, "maxLength", n.v)
         [] k.type \in {"integer", "number"} ->
               n.v >= Get(k, "minimum", n.v) /\ n.v <= Get(k, "maximum", n.v)
         [] OTHER -> TRUE

\* Fault: the fields an object must have are not looked for.
InputValidLenient(v, s, lim) ==
    \A p \in DOMAIN v :
        /\ SchemaPath(p) \in Reached(s)
        /\ ValueMatches(v[p], s[SchemaPath(p)].type) /\ InEnum(v, p, s[SchemaPath(p)])

\* _validate_schema().  It checks the definition again at every level, each time
\* of less and from depth 0, so the first check covers the others.
InputValid(v, s, lim) ==
    /\ SchemaDefined(s, lim)
    /\ \A p \in DOMAIN v :
           SchemaPath(p) \in Reached(s) /\ InputValidAt(v, p, s[SchemaPath(p)], lim)

-----------------------------------------------------------------------------
(* Output schemas                                                          *)

OutputKeys == SchemaKeys \cup {"types", "maxItems"}

\* _schema_type_matches()
TypeMatches(n, type) ==
    /\ ValueMatches(n, type)
    /\ n.t = "integer" => n.v \in McpLow..McpHigh

OutputKeywordsDefined(k) ==
    LET types == SchemaTypes(k) IN
    /\ DOMAIN k \subseteq OutputKeys
    /\ types # <<>> /\ IsInjective(types) /\ Range(types) \subseteq Types
    /\ IF "object" \in Range(types)
       THEN /\ ~Get(k, "additionalProperties", TRUE)
            /\ Cardinality(Properties(k)) <= Client.items /\ RequiredOk(k, Client)
       ELSE DOMAIN k \cap ObjectKeys = {}
    /\ IF "array" \in Range(types)
       THEN {"items", "maxItems"} \subseteq DOMAIN k /\ k.maxItems \in 0..EvidenceLimits.items
       ELSE DOMAIN k \cap {"items", "maxItems"} = {}
    /\ "enum" \in DOMAIN k =>
           /\ Len(k.enum) \in 1..Client.items
           /\ \A i \in DOMAIN k.enum : \E j \in DOMAIN types : TypeMatches(k.enum[i][<<>>], types[j])
    /\ \A key \in {"minLength", "maxLength"} \cap DOMAIN k :
           "string" \in Range(types) /\ k[key] \in 0..Client.response
    /\ \A key \in {"minimum", "maximum"} \cap DOMAIN k :
           {"integer", "number"} \cap Range(types) # {} /\ k[key] \in McpLow..McpHigh
    /\ Ordered(k, "minLength", "maxLength") /\ Ordered(k, "minimum", "maximum")

\* _validate_output_schema_definition()
OutputDefined(s) ==
    \A p \in Reached(s) : Len(p) <= Client.depth /\ OutputKeywordsDefined(s[p])

\* What _validate_output_value() requires of the value at p of v: the first type
\* that matches decides.
OutputValidAt(v, p, k) ==
    LET n == v[p] IN
    /\ \E i \in DOMAIN SchemaTypes(k) : TypeMatches(n, SchemaTypes(k)[i])
    /\ InEnum(v, p, k)
    /\ CASE n.t = "object" ->
               /\ Size(n) <= Client.items
               /\ n.fields \subseteq Properties(k) /\ Range(Required(k)) \subseteq n.fields
         [] n.t = "array" -> Size(n) <= k.maxItems
         [] n.t = "string" ->
               /\ n.v <= Client.response
               /\ n.v \in Get(k, "minLength", 0)..Get(k, "maxLength", n.v)
         [] n.t \in {"integer", "float"} ->
               n.v >= Get(k, "minimum", n.v) /\ n.v <= Get(k, "maximum", n.v)
         [] OTHER -> TRUE

\* Fault: a value of any other type of a union is taken as it is.
OutputValidFirst(v, s) ==
    \A p \in DOMAIN v : SchemaPath(p) \in Reached(s) =>
        LET k == s[SchemaPath(p)] IN
        /\ \E i \in DOMAIN SchemaTypes(k) : TypeMatches(v[p], SchemaTypes(k)[i])
        /\ TypeMatches(v[p], SchemaTypes(k)[1]) => InEnum(v, p, k)

\* _validate_output_value()
OutputValid(v, s) ==
    \A p \in DOMAIN v :
        /\ Len(p) <= Client.depth
        /\ SchemaPath(p) \in Reached(s) /\ OutputValidAt(v, p, s[SchemaPath(p)])

-----------------------------------------------------------------------------
(* capture_tool_surface()                                                  *)

\* The keywords of a schema that is not there: not even at <<>>.
NoSchema == <<>>

\* AdvertisedTool(): the schema that was normalized, under the hard limits.
AdvertisedTool(tool) == SchemaDefined(Normalized(tool.input), Hard)

\* Fault: what was normalized is not frozen under the client's limits.
ToolOkUnfrozen(tool) ==
    /\ tool.fields = "closed" /\ AdvertisedTool(tool)
    /\ tool.output # NoSchema => OutputDefined(tool.output)

\* One round of the loop; the whole item is frozen last, its schemas one deep.
ToolOk(tool) ==
    /\ tool.fields = "closed" /\ NormalOk(tool.input) /\ AdvertisedTool(tool)
    /\ SchemaFits(tool.input, 1, Client)
    /\ tool.output # NoSchema =>
           OutputDefined(tool.output) /\ SchemaFits(tool.output, 1, Client)

ToolNames(list) == [i \in DOMAIN list |-> list[i].name]

SurfaceOk(list) ==
    /\ Len(list) <= Client.tools /\ \A i \in DOMAIN list : ToolOk(list[i])
    /\ IsInjective(ToolNames(list)) /\ Len(list) <= Client.items

CapturedOutput(tool) ==
    IF tool.output = NoSchema THEN NoSchema ELSE FrozenSchema(tool.output, {})

Captured(list) ==
    [name \in Range(ToolNames(list)) |->
        LET tool == CHOOSE t \in Range(list) : t.name = name
        IN  [input |-> Normalized(tool.input), output |-> CapturedOutput(tool)]]

-----------------------------------------------------------------------------
(* Provider responses                                                      *)

\* ToolCallId(): a legacy id is replaced by its digest.
ToolCallId(id) == [digest |-> id \in LegacyIds, of |-> id]

\* Fault: the arguments are left to the orchestrator.
CallOkUnchecked(calls, i) ==
    /\ calls[i].type = "function" /\ calls[i].id \in CanonicalIds \cup LegacyIds
    /\ calls[i].name \in DOMAIN surface /\ calls[i].arguments[<<>>].t = "object"

\* What the loop of parse_provider_response() requires of the i-th call.  Its
\* text, as received, is bounded by the parser's limit; the canonical form, in
\* ASCII with sorted keys, which may be longer or shorter, by the hard one
\* (ProviderToolCallProposal).
CallOk(calls, i) ==
    LET call == calls[i] IN
    /\ call.type = "function" /\ call.id \in CanonicalIds \cup LegacyIds
    /\ call.text <= Parser.argument
    /\ call.arguments[<<>>].t = "object" /\ Fits(call.arguments, 0, Parser)
    /\ \A j \in 1..i - 1 : ToolCallId(calls[j].id) # ToolCallId(call.id)
    /\ call.name \in DOMAIN surface
    /\ InputValid(call.arguments, surface[call.name].input, Parser)
    /\ call.canon <= Hard.argument

\* parse_closed_json() and _closed_object(): the answer is JSON of its limits,
\* without duplicate or unknown fields.
ClosedJson(r) == r.shape = "closed"

\* parse_openai_compatible_response() and parse_provider_response(): the final
\* text, all the calls, or nothing.
Parsed(r) ==
    IF ~ClosedJson(r) \/ (r.text /\ r.calls # <<>>) THEN "raise"
    ELSE IF r.text THEN "final"
    ELSE IF Len(r.calls) \in 1..Parser.calls /\ \A i \in DOMAIN r.calls : CallOk(r.calls, i)
    THEN "calls" ELSE "raise"

Proposal(call) ==
    [id |-> ToolCallId(call.id), name |-> call.name, arguments |-> Frozen(call.arguments),
     canon |-> call.canon]

-----------------------------------------------------------------------------
(* Proposals in the orchestrator and the client                            *)

\* Both freeze the arguments again, and validate what they froze.
Accepts(p, lim) ==
    /\ Fits(p.arguments, 0, lim) /\ p.name \in DOMAIN surface
    /\ InputValid(p.arguments, surface[p.name].input, lim)

\* execute() also bounds the canonical form, by the client's limit.
Executes(p) == Accepts(p, Client) /\ p.canon <= Client.argument

-----------------------------------------------------------------------------
(* _validate_tool_result(): r.structured is a value or Absent; the result  *)
(* is redacted once it is validated and frozen as a whole last, then with  *)
(* the structured content one level deep.  The text of the content blocks, *)
(* and the patterns looked for in diagnostic texts, are not represented.   *)

Absent == <<>>

\* REDACTED
Mask == [t |-> "string", v |-> Redaction.mask]

\* The step to a field that is hidden by its name.
Masks(step) == step[1] = "object" /\ step[2] \in MaskedKeys

\* What is made of a node that is not hidden: arrays and strings are cut.
RedactNode(n) ==
    CASE n.t = "array" ->
            [n EXCEPT !.frozen = FALSE, !.len = IF @ < Redaction.items THEN @ ELSE Redaction.items]
      [] n.t = "object" -> [n EXCEPT !.frozen = FALSE]
      [] n.t = "string" /\ n.v > Redaction.text -> [n EXCEPT !.v = Redaction.text]
      [] OTHER -> n

\* Fault: the items of an array are kept as they are.
RedactJsonShallow(v) ==
    [p \in {q \in DOMAIN v : \A i \in DOMAIN q :
                Masks(q[i]) => i = Len(q) \/ \E j \in 1..i : q[j][1] = "array"} |->
        IF p # <<>> /\ Masks(Last(p)) /\ \A j \in DOMAIN p : p[j][1] # "array"
        THEN Mask ELSE RedactNode(v[p])]

\* redact_json(), with no secrets configured: nothing below a hidden field or
\* beyond the cut of an array is kept, at any depth.
RedactJson(v) ==
    [p \in {q \in DOMAIN v : \A i \in DOMAIN q :
                /\ Masks(q[i]) => i = Len(q)
                /\ q[i][1] = "array" => q[i][2] <= Redaction.items} |->
        IF p # <<>> /\ Masks(Last(p)) THEN Mask ELSE RedactNode(v[p])]

ResultOk(r, schema) ==
    /\ r.content = "text"
    /\ IF r.structured = Absent THEN schema = NoSchema \/ r.isError
       ELSE LET structured == Frozen(r.structured) IN
            /\ structured[<<>>].t = "object" /\ Fits(structured, 0, EvidenceLimits)
            /\ schema = NoSchema \/ r.isError \/ OutputValid(structured, schema)
            /\ Fits(RedactJson(structured), 1, EvidenceLimits)

\* What becomes evidence.
Kept(r) ==
    IF r.structured = Absent THEN Absent ELSE Frozen(RedactJson(Frozen(r.structured)))

-----------------------------------------------------------------------------
\* Tools, arguments and results are what json.loads() returns.
ASSUME InputAssumption ==
    /\ \A list \in ToolLists :
           /\ list \in Seq(Range(list))
           /\ \A tool \in Range(list) :
                  IsSchema(tool.input) /\ (tool.output # NoSchema => IsSchema(tool.output))
    /\ \A r \in Responses :
           /\ r.calls \in Seq(Range(r.calls))
           /\ \A call \in Range(r.calls) : IsJson(call.arguments) /\ call.canon \in Nat
    /\ \A r \in Results : r.structured # Absent => IsJson(r.structured)

Init ==
    /\ pc = "list" /\ tools \in ToolLists
    /\ surface = <<>> /\ proposals = <<>> /\ sent = 0 /\ evidence = <<>>

Capture ==
    /\ pc = "list"
    /\ IF SurfaceOk(tools) THEN surface' = Captured(tools) /\ pc' = "turn"
                           ELSE pc' = "failed" /\ UNCHANGED surface
    /\ UNCHANGED <<tools, proposals, sent, evidence>>

Respond(r) ==
    /\ pc = "turn"
    /\ IF Parsed(r) = "calls"
       THEN proposals' = [i \in DOMAIN r.calls |-> Proposal(r.calls[i])] /\ pc' = "proposed"
       ELSE pc' = (IF Parsed(r) = "final" THEN "done" ELSE "failed") /\ UNCHANGED proposals
    /\ UNCHANGED <<tools, surface, sent, evidence>>

\* run() validates every proposal of the turn before the first is authorized.
Validate ==
    /\ pc = "proposed"
    /\ pc' = IF /\ Len(proposals) <= Orchestrator.calls
                /\ \A i \in DOMAIN proposals : Accepts(proposals[i], Orchestrator)
             THEN "authorize" ELSE "rejected"
    /\ UNCHANGED <<tools, surface, proposals, sent, evidence>>

\* Then they go one by one through authorize(), execute() and the child.
Authorize ==
    /\ pc = "authorize"
    /\ pc' = IF Accepts(proposals[sent + 1], Client) THEN "execute" ELSE "refused"
    /\ UNCHANGED <<tools, surface, proposals, sent, evidence>>

Execute ==
    /\ pc = "execute"
    /\ IF Executes(proposals[sent + 1]) THEN pc' = "sent" /\ sent' = sent + 1
                                       ELSE pc' = "refused" /\ UNCHANGED sent
    /\ UNCHANGED <<tools, surface, proposals, evidence>>

Answer(r) ==
    /\ pc = "sent"
    /\ IF ResultOk(r, surface[proposals[sent].name].output)
       THEN /\ evidence' = <<[name |-> proposals[sent].name, result |-> r, kept |-> Kept(r)]>>
            /\ pc' = IF sent < Len(proposals) THEN "authorize" ELSE "done"
       ELSE pc' = "failed" /\ UNCHANGED evidence
    /\ UNCHANGED <<tools, surface, proposals, sent>>

Stopped == pc \in {"failed", "rejected", "refused", "done"} /\ UNCHANGED vars

Next ==
    \/ Capture \/ Validate \/ Authorize \/ Execute \/ Stopped
    \/ \E r \in Responses : Respond(r)
    \/ \E r \in Results : Answer(r)

Spec == Init /\ [][Next]_vars
=============================================================================
