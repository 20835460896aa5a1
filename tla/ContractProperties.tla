-------------------------- MODULE ContractProperties --------------------------
(* What the agent's validation of tools, proposals and results promises,   *)
(* against a reference definition of conformance to an advertised schema.  *)
EXTENDS ToolContracts

\* The JSON types a value has.
TypesOf(n) == IF n.t = "integer" THEN {"integer", "number"}
              ELSE IF n.t = "float" THEN {"number"} ELSE {n.t}

\* Two nodes say the same, whatever Python object holds them; numbers are told
\* apart by their value alone.
SameNode(m, n) ==
    \/ WithFlag(m, FALSE) = WithFlag(n, FALSE)
    \/ {m.t, n.t} \subseteq Numbers /\ m.v = n.v

\* The part of v at p is the JSON value e.  The type of the whole must be the
\* same; inside an array or object true is 1, as it is for Python's ==.
IsValue(v, p, e) ==
    /\ v[p].t = e[<<>>].t
    /\ DOMAIN Part(v, p) = DOMAIN e /\ \A q \in DOMAIN e : SameNode(Part(v, p)[q], e[q])

\* What the keywords k of a schema, as the server wrote it, ask of the value at p
\* of v, objects being closed.
ConformsAt(v, p, k) ==
    LET n == v[p]
        within(low, high) ==
            /\ low \in DOMAIN k => k[low] <= n.v
            /\ high \in DOMAIN k => n.v <= k[high]
    IN  /\ TypesOf(n) \cap Range(SchemaTypes(k)) # {}
        /\ "enum" \in DOMAIN k => \E e \in Range(k.enum) : IsValue(v, p, e)
        /\ n.t = "string" => within("minLength", "maxLength")
        /\ n.t \in {"integer", "float"} => within("minimum", "maximum")
        /\ n.t = "array" /\ "maxItems" \in DOMAIN k => n.len <= k.maxItems
        /\ n.t = "object" => n.fields \subseteq Properties(k) /\ Range(Required(k)) \subseteq n.fields

\* The reference: v conforms to the schema s.
Conforms(v, s) ==
    \A p \in DOMAIN v : SchemaPath(p) \in DOMAIN s /\ ConformsAt(v, p, s[SchemaPath(p)])

Advertised(name) == {tool \in Range(tools) : tool.name = name}

\* A surface that was captured can be called: every input schema was checked
\* under the hard limits, and still passes the check under the client's
\* limits that _validate_schema() repeats at every call.
CapturedIsUsable == \A name \in DOMAIN surface : SchemaDefined(surface[name].input, Client)

\* Arguments that reach the child conform to the one schema the server
\* advertised under that name, whatever normalizing, freezing and parsing did
\* to either on the way.
AcceptedConforms ==
    \A i \in 1..sent :
        LET p == proposals[i] IN
        /\ Cardinality(Advertised(p.name)) = 1
        /\ \A tool \in Advertised(p.name) : Conforms(p.arguments, tool.input)

\* A value is within the sizes that the limits allow in arguments.
Sized(v, lim) ==
    /\ Fits(v, 0, lim)
    /\ \A p \in DOMAIN v : v[p].t = "string" => v[p].v <= lim.argument

\* The three authorities read a schema alike.  What the provider's parser accepts
\* in plain values, the orchestrator and the client, who see frozen ones, refuse
\* for a size only: their own limits on calls, values and schemas, or, after it
\* was authorized, the length of the canonical form, which nobody held against
\* this limit before.  So under equal limits only that length is left.
RefusedOnlyForSize ==
    /\ pc = "rejected" =>
           \/ Len(proposals) > Orchestrator.calls
           \/ \E p \in Range(proposals) :
                  \/ ~Sized(p.arguments, Orchestrator)
                  \/ ~SchemaDefined(surface[p.name].input, Orchestrator)
    /\ pc = "refused" =>
           LET p == proposals[sent + 1]
           IN  ~Sized(p.arguments, Client) \/ p.canon > Client.argument

\* A result that becomes evidence and is no error carried structured content
\* exactly as its tool's output schema asks.
EvidenceConforms ==
    \A e \in Range(evidence) : \A tool \in Advertised(e.name) :
        tool.output # NoSchema /\ ~e.result.isError =>
            e.result.structured # Absent /\ Conforms(e.result.structured, tool.output)

\* The scalars and empty containers of a value, each with the way to it.
LeavesOf(v) ==
    {[at |-> p, is |-> v[p]] : p \in {q \in DOMAIN v : Container(v[q]) => Size(v[q]) = 0}}

\* The fields redact_json() hides by name on the way to a leaf.
Hidden(leaf) ==
    {i \in DOMAIN leaf.at : leaf.at[i][1] = "object" /\ leaf.at[i][2] \in MaskedKeys}

Cut(n) == IF n.t = "string" /\ n.v > Redaction.text THEN [n EXCEPT !.v = Redaction.text] ELSE n

\* w tells of v all but what is below a hidden name or beyond the cut of an array.
IsRedactionOf(w, v) ==
    LET kept == LeavesOf(w)
        told == {[leaf EXCEPT !.is = Cut(leaf.is)] : leaf \in {l \in LeavesOf(v) : Hidden(l) = {}}}
        far == {leaf \in told : \E i \in DOMAIN leaf.at :
                    leaf.at[i][1] = "array" /\ leaf.at[i][2] > Redaction.items}
    IN  /\ {leaf \in kept : Hidden(leaf) = {}} = told \ far
        /\ \A leaf \in kept : Hidden(leaf) # {} =>
               leaf.is = Mask /\ Hidden(leaf) = {Len(leaf.at)}

\* Nothing below a hidden name becomes evidence, however deep in objects and
\* arrays it is; every other leaf is one of the result at the same place, and
\* none is lost but those beyond the cut of an array.
EvidenceIsRedacted ==
    \A e \in Range(evidence) :
        e.kept # Absent => IsRedactionOf(Plain(e.kept), e.result.structured)
=============================================================================
