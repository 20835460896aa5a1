----------------------------- MODULE ContractProofs -----------------------------
(***************************************************************************)
(* The five properties of ToolContracts for every tool list, answer and    *)
(* result, every limit and every redaction policy.  A value is a function  *)
(* from its paths, so that what a validator says of a value is said of     *)
(* each of its paths, and no induction over its depth is needed:           *)
(*                                                                         *)
(*   - freezing changes no type, length, field or leaf, so what was        *)
(*     checked of a list or dict holds of the frozen one;                  *)
(*   - the validator of contracts.py, path by path, is the reference       *)
(*     Conforms;                                                           *)
(*   - redaction, path by path, is the reference IsRedactionOf;            *)
(*   - ContractInv ties every variable to the operation that produced it.  *)
(***************************************************************************)
EXTENDS ContractProperties, FiniteSetTheorems, SequenceTheorems, TLAPS

-----------------------------------------------------------------------------
(* Nodes                                                                   *)

\* Freezing and thawing change the flag of a node and nothing else.
LEMMA FlagOnly ==
    ASSUME NEW n \in Nodes, NEW flag \in BOOLEAN
    PROVE  /\ WithFlag(n, flag) \in Nodes
           /\ WithFlag(n, flag).t = n.t
           /\ Container(n) => WithFlag(n, flag).frozen = flag
           /\ ~Container(n) => WithFlag(n, flag) = n
           /\ n.t = "array" => WithFlag(n, flag).len = n.len
           /\ n.t = "object" => WithFlag(n, flag).fields = n.fields
<1>1. CASE n \in [t : {"string", "boolean", "integer", "float", "null"}, v : Int]
    BY <1>1 DEF WithFlag, Container, Nodes
<1>2. CASE n \in [t : {"array"}, frozen : BOOLEAN, len : Nat]
    BY <1>2 DEF WithFlag, Container, Nodes
<1>3. CASE n \in [t : {"object"}, frozen : BOOLEAN, fields : SUBSET STRING]
    BY <1>3 DEF WithFlag, Container, Nodes
<1> QED BY <1>1, <1>2, <1>3 DEF Nodes

\* The last flag is the one that counts.
LEMMA LastFlag ==
    ASSUME NEW n \in Nodes, NEW f \in BOOLEAN, NEW g \in BOOLEAN
    PROVE  WithFlag(WithFlag(n, f), g) = WithFlag(n, g)
<1>1. CASE n \in [t : {"string", "boolean", "integer", "float", "null"}, v : Int]
    BY <1>1 DEF WithFlag, Container
<1>2. CASE n \in [t : {"array"}, frozen : BOOLEAN, len : Nat]
    BY <1>2 DEF WithFlag, Container
<1>3. CASE n \in [t : {"object"}, frozen : BOOLEAN, fields : SUBSET STRING]
    BY <1>3 DEF WithFlag, Container
<1> QED BY <1>1, <1>2, <1>3 DEF Nodes

\* A flag has no say in the size of a value.
LEMMA FlagFits ==
    ASSUME NEW n \in Nodes, NEW flag \in BOOLEAN, NEW lim
    PROVE  /\ NodeFits(WithFlag(n, flag), lim) <=> NodeFits(n, lim)
           /\ Container(WithFlag(n, flag)) <=> Container(n)
           /\ Container(n) => Size(WithFlag(n, flag)) = Size(n)
    BY FlagOnly DEF NodeFits, Container, Size

\* A flag changes no way out of a node.
LEMMA FlagLeaving ==
    ASSUME NEW n \in Nodes, NEW flag \in BOOLEAN
    PROVE  Leaving(WithFlag(n, flag)) = Leaving(n)
    BY FlagOnly DEF Leaving

\* A plain node equals a frozen one only if it still does when it is frozen.
LEMMA EqualWhenFrozen ==
    ASSUME NEW m \in Nodes, NEW n \in Nodes, NodeEq(m, WithFlag(n, TRUE))
    PROVE  NodeEq(WithFlag(m, TRUE), WithFlag(n, TRUE))
<1>1. WithFlag(n, TRUE).t = n.t /\ WithFlag(m, TRUE).t = m.t BY FlagOnly
<1>2. CASE m.t = "array"
    <2>1. n.t = "array" /\ n.len = m.len BY <1>1, <1>2, FlagOnly DEF NodeEq, Numbers
    <2>2. WithFlag(m, TRUE).frozen = TRUE /\ WithFlag(n, TRUE).frozen = TRUE
        BY <1>2, <2>1, FlagOnly DEF Container
    <2>3. WithFlag(m, TRUE).len = m.len /\ WithFlag(n, TRUE).len = n.len BY <1>2, <2>1, FlagOnly
    <2> QED BY <1>1, <1>2, <2>1, <2>2, <2>3 DEF NodeEq, Numbers
<1>3. CASE m.t = "object"
    <2>1. n.t = "object" /\ n.fields = m.fields BY <1>1, <1>3, FlagOnly DEF NodeEq, Numbers
    <2>3. WithFlag(m, TRUE).fields = m.fields /\ WithFlag(n, TRUE).fields = n.fields
        BY <1>3, <2>1, FlagOnly
    <2> QED BY <1>1, <1>3, <2>1, <2>3 DEF NodeEq, Numbers
<1>4. CASE ~Container(m)
    BY <1>4, FlagOnly
<1> QED BY <1>2, <1>3, <1>4 DEF Container

\* Two nodes of which one is a container say the same if they differ in the flag.
LEMMA SameArray ==
    ASSUME NEW m \in Nodes, NEW n \in Nodes, m.t = "array", n.t = "array", m.len = n.len
    PROVE  WithFlag(m, FALSE) = WithFlag(n, FALSE)
<1>1. m \in [t : {"array"}, frozen : BOOLEAN, len : Nat]
    BY DEF Nodes
<1>2. n \in [t : {"array"}, frozen : BOOLEAN, len : Nat]
    BY DEF Nodes
<1> QED BY <1>1, <1>2 DEF WithFlag, Container

\* Two objects of the same fields are the same node once thawed.
LEMMA SameObject ==
    ASSUME NEW m \in Nodes, NEW n \in Nodes, m.t = "object", n.t = "object", m.fields = n.fields
    PROVE  WithFlag(m, FALSE) = WithFlag(n, FALSE)
<1>1. m \in [t : {"object"}, frozen : BOOLEAN, fields : SUBSET STRING]
    BY DEF Nodes
<1>2. n \in [t : {"object"}, frozen : BOOLEAN, fields : SUBSET STRING]
    BY DEF Nodes
<1> QED BY <1>1, <1>2 DEF WithFlag, Container

\* Nodes that Python's == does not tell apart say the same.
LEMMA EqualIsSame ==
    ASSUME NEW m \in Nodes, NEW n \in Nodes, NodeEq(m, n)
    PROVE  SameNode(m, n)
<1>1. CASE m.t \in Numbers /\ n.t \in Numbers BY <1>1 DEF NodeEq, SameNode
<1>2. CASE ~(m.t \in Numbers /\ n.t \in Numbers)
    <2>1. m.t = n.t BY <1>2 DEF NodeEq
    <2>2. CASE m.t = "array"
        <3>1. m.len = n.len BY <1>2, <2>2 DEF NodeEq
        <3> QED BY <2>1, <2>2, <3>1, SameArray DEF SameNode
    <2>3. CASE m.t = "object"
        <3>1. m.fields = n.fields BY <1>2, <2>3 DEF NodeEq
        <3> QED BY <2>1, <2>3, <3>1, SameObject DEF SameNode
    <2>4. CASE ~Container(m)
        <3>1. m.v = n.v BY <1>2, <2>4 DEF NodeEq, Container
        <3>2. m \in [t : {"string", "boolean", "integer", "float", "null"}, v : Int]
            BY <2>4 DEF Nodes, Container
        <3>3. n \in [t : {"string", "boolean", "integer", "float", "null"}, v : Int]
            BY <2>1, <2>4 DEF Nodes, Container
        <3>4. m = n BY <2>1, <3>1, <3>2, <3>3
        <3> QED BY <3>4 DEF SameNode
    <2> QED BY <2>2, <2>3, <2>4 DEF Container
<1> QED BY <1>1, <1>2

\* What nodes say has nothing to do with their flags.
LEMMA SameWhenFrozen ==
    ASSUME NEW m \in Nodes, NEW n \in Nodes
    PROVE  /\ SameNode(WithFlag(m, TRUE), n) <=> SameNode(m, n)
           /\ SameNode(n, WithFlag(m, TRUE)) <=> SameNode(n, m)
<1>1. WithFlag(WithFlag(m, TRUE), FALSE) = WithFlag(m, FALSE) BY LastFlag
<1>2. WithFlag(m, TRUE).t = m.t BY FlagOnly
<1>3. m.t \in Numbers => WithFlag(m, TRUE) = m BY FlagOnly DEF Numbers, Container
<1> QED BY <1>1, <1>2, <1>3 DEF SameNode

-----------------------------------------------------------------------------
(* Values                                                                  *)

\* What freezing keeps of a value.
LEMMA FrozenValue ==
    ASSUME NEW v, IsTree(v)
    PROVE  /\ DOMAIN Frozen(v) = DOMAIN v
           /\ \A p \in DOMAIN v : v[p] \in Nodes /\ Frozen(v)[p] = WithFlag(v[p], TRUE)
           /\ Frozen(v) \in [DOMAIN v -> Nodes]
    BY FlagOnly DEF IsTree, Frozen

\* A value that fits its limits does so frozen, and at any lesser depth.
LEMMA FrozenFits ==
    ASSUME NEW v, IsTree(v), NEW d \in Nat, NEW e \in Nat, e <= d, NEW lim, lim.depth \in Nat,
           Fits(v, d, lim)
    PROVE  Fits(Frozen(v), e, lim)
<1>1. ASSUME NEW p \in DOMAIN v PROVE e + Len(p) <= lim.depth
    <2>1. d + Len(p) <= lim.depth /\ p \in Seq(Steps) BY <1>1 DEF Fits, IsTree
    <2>2. Len(p) \in Nat BY <2>1
    <2> QED BY <2>1, <2>2
<1>2. ASSUME NEW p \in DOMAIN v PROVE NodeFits(Frozen(v)[p], lim)
    <2>1. v[p] \in Nodes /\ Frozen(v)[p] = WithFlag(v[p], TRUE) BY FrozenValue
    <2>2. NodeFits(v[p], lim) BY DEF Fits
    <2>3. NodeFits(WithFlag(v[p], TRUE), lim) BY <2>1, <2>2, FlagFits
    <2> QED BY <2>1, <2>3
<1> QED BY <1>1, <1>2, FrozenValue DEF Fits

\* A part of a frozen value is the frozen part.
LEMMA FrozenPart ==
    ASSUME NEW v, IsTree(v), NEW p
    PROVE  /\ DOMAIN Part(Frozen(v), p) = DOMAIN Part(v, p)
           /\ \A q \in DOMAIN Part(v, p) :
                  /\ Part(v, p)[q] \in Nodes
                  /\ Part(Frozen(v), p)[q] = WithFlag(Part(v, p)[q], TRUE)
    BY FrozenValue DEF Part
\* A frozen value is a value again.
LEMMA FrozenIsTree == ASSUME NEW v, IsTree(v) PROVE IsTree(Frozen(v))
<1> DEFINE w == Frozen(v)
<1>1. DOMAIN w = DOMAIN v /\ w \in [DOMAIN w -> Nodes] BY FrozenValue
<1>2. \A p \in DOMAIN v : Leaving(w[p]) = Leaving(v[p]) BY FrozenValue, FlagLeaving
<1> HIDE DEF w
<1>3. \A p \in DOMAIN w : \A i \in DOMAIN p :
          SubSeq(p, 1, i - 1) \in DOMAIN w /\ p[i] \in Leaving(w[SubSeq(p, 1, i - 1)])
    BY <1>1, <1>2 DEF IsTree
<1>4. \A p \in DOMAIN w : \A step \in Leaving(w[p]) : Append(p, step) \in DOMAIN w
    BY <1>1, <1>2 DEF IsTree
<1>5. DOMAIN w \subseteq Seq(Steps) /\ <<>> \in DOMAIN w BY <1>1 DEF IsTree
<1>6. IsTree(w) BY <1>1, <1>3, <1>4, <1>5 DEF IsTree
<1> QED BY <1>6 DEF w

-----------------------------------------------------------------------------
(* Schemas                                                                 *)

\* A list whose entries were replaced one by one has its length.
LEMMA SameLength ==
    ASSUME NEW list, list \in Seq(Range(list)), NEW other, DOMAIN other = DOMAIN list,
           other = [i \in DOMAIN list |-> other[i]]
    PROVE  Len(other) = Len(list)
<1>1. Len(list) \in Nat /\ DOMAIN list = 1..Len(list) BY Zenon, LenProperties
<1>2. other \in [1..Len(list) -> Range(other)] BY <1>1 DEF Range
<1> QED BY <1>1, <1>2, SMT

\* K and k are the same keywords, but that the values of an enum in K are frozen.
SameKeywords(K, k) ==
    /\ \A key \in OutputKeys \ {"enum"} :
           /\ key \in DOMAIN K <=> key \in DOMAIN k
           /\ key \in DOMAIN k => K[key] = k[key]
    /\ "enum" \in DOMAIN K <=> "enum" \in DOMAIN k
    /\ "enum" \in DOMAIN k =>
           /\ DOMAIN K.enum = DOMAIN k.enum
           /\ \A i \in DOMAIN k.enum : K.enum[i] = Frozen(k.enum[i])
    /\ Properties(K) = Properties(k)
    /\ Required(K) = Required(k)
    /\ SchemaTypes(K) = SchemaTypes(k)

\* What freezing keeps of the keywords of a schema.
LEMMA FrozenKeyword ==
    ASSUME NEW k, NEW drop, drop \cap OutputKeys = {}
    PROVE  SameKeywords(FrozenKeywords(k, drop), k)
<1> DEFINE K == FrozenKeywords(k, drop)
<1>1. DOMAIN K = DOMAIN k \ drop BY DEF FrozenKeywords
<1>2. ASSUME NEW key \in OutputKeys \ {"enum"}
      PROVE  /\ key \in DOMAIN K <=> key \in DOMAIN k
             /\ key \in DOMAIN k => K[key] = k[key]
    BY DEF FrozenKeywords
<1>3. {"properties", "required", "type", "types"} \subseteq OutputKeys \ {"enum"} /\ "enum" \in OutputKeys
    BY DEF OutputKeys, SchemaKeys, ObjectKeys
<1>4. "enum" \in DOMAIN K <=> "enum" \in DOMAIN k BY <1>1, <1>3
<1>5. ASSUME "enum" \in DOMAIN k
      PROVE  K.enum = [i \in DOMAIN k.enum |-> Frozen(k.enum[i])]
    BY <1>3, <1>5 DEF FrozenKeywords
<1>6. Properties(K) = Properties(k) /\ Required(K) = Required(k)
    BY <1>2, <1>3 DEF Properties, Required, Get
<1>7. SchemaTypes(K) = SchemaTypes(k)
    BY <1>2, <1>3 DEF SchemaTypes
<1> HIDE DEF K
<1>8. "enum" \in DOMAIN k =>
          DOMAIN K.enum = DOMAIN k.enum /\ \A i \in DOMAIN k.enum : K.enum[i] = Frozen(k.enum[i])
    BY <1>5
<1>9. SameKeywords(K, k) BY <1>2, <1>4, <1>6, <1>7, <1>8 DEF SameKeywords
<1> QED BY <1>9 DEF K

\* Only annotations are dropped.
LEMMA DropsNothing == {} \cap OutputKeys = {} /\ Annotations \cap OutputKeys = {}
    BY DEF Annotations, OutputKeys, SchemaKeys, ObjectKeys

\* The depth of a sub-schema is a number.
LEMMA DepthIsNat == ASSUME NEW p \in Seq(Steps) PROVE SchemaDepth(p) \in Nat /\ Len(p) \in Nat
<1>1. Len(p) \in Nat /\ DOMAIN p = 1..Len(p) BY LenProperties
<1>2. IsFiniteSet(1..Len(p)) BY <1>1, FS_Interval
<1>3. IsFiniteSet({i \in DOMAIN p : p[i][1] = "object"}) BY <1>1, <1>2, FS_Subset
<1>4. Cardinality({i \in DOMAIN p : p[i][1] = "object"}) \in Nat BY <1>3, FS_CardinalityType
<1> QED BY <1>1, <1>4 DEF SchemaDepth

\* The lists among the keywords are lists, and enums hold JSON values.
KeywordsTyped(k) ==
    /\ \A key \in {"required", "types", "enum"} \cap DOMAIN k : k[key] \in Seq(Range(k[key]))
    /\ "enum" \in DOMAIN k => \A i \in DOMAIN k.enum : IsJson(k.enum[i])

\* A schema has typed keywords at each of its paths.
LEMMA SchemaTyped ==
    ASSUME NEW s, IsSchema(s), NEW p \in DOMAIN s
    PROVE  KeywordsTyped(s[p]) /\ p \in Seq(Steps)
<1>1. p \in Seq(Steps) BY DEF IsSchema
<1>2. \A key \in {"required", "types", "enum"} \cap DOMAIN s[p] : s[p][key] \in Seq(Range(s[p][key]))
    BY DEF IsSchema
<1>3. "enum" \in DOMAIN s[p] => \A e \in Range(s[p].enum) : IsJson(e) BY DEF IsSchema
<1>4. "enum" \in DOMAIN s[p] => \A i \in DOMAIN s[p].enum : IsJson(s[p].enum[i])
    BY <1>3 DEF Range
<1> QED BY <1>1, <1>2, <1>4 DEF KeywordsTyped

\* Every limit is a number.
LEMMA LimitsAreNat ==
    /\ \A f \in LimitNames :
           /\ Hard[f] \in Nat
           /\ Parser[f] \in Nat /\ Orchestrator[f] \in Nat /\ Client[f] \in Nat
    /\ {"depth", "items", "text", "argument", "response", "calls"} \subseteq LimitNames
    BY ContractAssumption DEF LimitsOk, LimitNames

\* Keywords that were checked under the hard limits, and frozen under the client's,
\* pass the check under the client's.
LEMMA KeywordsUnderClient ==
    ASSUME NEW k, KeywordsTyped(k), NEW d \in Nat,
           KeywordsFit(k, d, Client),
           KeywordsDefined(FrozenKeywords(k, Annotations), Hard)
    PROVE  KeywordsDefined(FrozenKeywords(k, Annotations), Client)
<1> DEFINE K == FrozenKeywords(k, Annotations)
<1>1. /\ "enum" \in DOMAIN K <=> "enum" \in DOMAIN k
      /\ "enum" \in DOMAIN k =>
             /\ DOMAIN K.enum = DOMAIN k.enum
             /\ \A i \in DOMAIN k.enum : K.enum[i] = Frozen(k.enum[i])
      /\ Properties(K) = Properties(k)
      /\ Required(K) = Required(k)
    BY FrozenKeyword, DropsNothing DEF SameKeywords
<1>2. "enum" \in DOMAIN K => K.enum = [i \in DOMAIN k.enum |-> K.enum[i]]
    <2>1. Annotations \cap {"enum"} = {} BY DEF Annotations
    <2> QED BY <2>1 DEF FrozenKeywords
<1>3. KeywordsDefined(K, Hard) OBVIOUS
<1> HIDE DEF K
<1>4. Cardinality(Properties(K)) <= Client.items BY <1>1 DEF KeywordsFit
<1>5. ASSUME K.type = "object" PROVE RequiredOk(K, Client)
    <2>1. RequiredOk(K, Hard) BY <1>3, <1>5 DEF KeywordsDefined
    <2>2. CASE "required" \in DOMAIN k
        <3>1. Required(k) = k["required"] BY <2>2 DEF Required, Get
        <3>2. Len(k["required"]) <= Client.items BY <2>2 DEF KeywordsFit
        <3> QED BY <1>1, <2>1, <3>1, <3>2 DEF RequiredOk
    <2>3. CASE "required" \notin DOMAIN k
        <3>1. Required(k) = <<>> BY <2>3 DEF Required, Get
        <3>2. Len(<<>>) <= Client.items BY LimitsAreNat
        <3> QED BY <1>1, <2>1, <3>1, <3>2 DEF RequiredOk
    <2> QED BY <2>2, <2>3
<1>6. ASSUME "enum" \in DOMAIN K PROVE Len(K.enum) \in 1..Client.items
    <2>1. Len(k["enum"]) <= Client.items /\ k["enum"] \in Seq(Range(k["enum"]))
        BY <1>1, <1>6 DEF KeywordsFit, KeywordsTyped
    <2>2. Len(K.enum) = Len(k.enum) BY <1>1, <1>2, <1>6, <2>1, SameLength
    <2>3. Len(K.enum) \in 1..Hard.items BY <1>3, <1>6 DEF KeywordsDefined
    <2> QED BY <2>1, <2>2, <2>3, LimitsAreNat
<1>7. ASSUME "enum" \in DOMAIN K, NEW i \in DOMAIN K.enum
      PROVE  Fits(K.enum[i], 1, Client) /\ ValueMatches(K.enum[i][<<>>], K.type)
    <2>1. i \in DOMAIN k.enum /\ K.enum[i] = Frozen(k.enum[i]) BY <1>1, <1>7
    <2>2. IsTree(k.enum[i]) BY <1>1, <1>7, <2>1 DEF KeywordsTyped, IsJson
    <2>3. Fits(k.enum[i], d + 2, Client) BY <1>1, <1>7, <2>1 DEF KeywordsFit
    <2>4. Fits(Frozen(k.enum[i]), 1, Client)
        <3>1. d + 2 \in Nat /\ 1 \in Nat /\ 1 <= d + 2 /\ Client.depth \in Nat BY LimitsAreNat
        <3> QED BY <2>2, <2>3, <3>1, FrozenFits
    <2>5. ValueMatches(K.enum[i][<<>>], K.type) BY <1>3, <1>7 DEF KeywordsDefined
    <2> QED BY <2>1, <2>4, <2>5
<1>8. KeywordsDefined(K, Client)
    BY <1>3, <1>4, <1>5, <1>6, <1>7 DEF KeywordsDefined
<1> QED BY <1>8 DEF K

\* capture_tool_surface(): what passed the hard limits of AdvertisedTool() also
\* passes the client's.
LEMMA DefinedUnderClient ==
    ASSUME NEW s, IsSchema(s), NormalOk(s), SchemaFits(s, 1, Client),
           SchemaDefined(Normalized(s), Hard)
    PROVE  SchemaDefined(Normalized(s), Client)
<1> SUFFICES ASSUME NEW p \in Reached(Normalized(s))
             PROVE  Len(p) <= Client.depth /\ KeywordsDefined(Normalized(s)[p], Client)
    BY DEF SchemaDefined
<1>1. p \in DOMAIN s /\ Normalized(s)[p] = FrozenKeywords(s[p], Annotations)
    BY DEF Reached, Normalized, FrozenSchema
<1>2. KeywordsTyped(s[p]) /\ p \in Seq(Steps) BY <1>1, SchemaTyped
<1>3. 1 + SchemaDepth(p) \in Nat BY <1>2, DepthIsNat
<1>4. KeywordsFit(s[p], 1 + SchemaDepth(p), Client) BY <1>1 DEF SchemaFits
<1>5. KeywordsDefined(FrozenKeywords(s[p], Annotations), Hard) BY <1>1 DEF SchemaDefined
<1>6. Len(p) <= Client.depth BY <1>1 DEF NormalOk
<1> QED BY <1>1, <1>2, <1>3, <1>4, <1>5, <1>6, KeywordsUnderClient

-----------------------------------------------------------------------------
(* Enums                                                                   *)

\* A value found in a frozen enum says what one of the server's values says.
LEMMA EnumMeans ==
    ASSUME NEW v, IsTree(v), NEW p \in DOMAIN v, NEW k, KeywordsTyped(k),
           NEW drop, drop \cap OutputKeys = {}, "enum" \in DOMAIN k,
           InEnum(v, p, FrozenKeywords(k, drop))
    PROVE  \E e \in Range(k.enum) : IsValue(v, p, e)
<1> DEFINE K == FrozenKeywords(k, drop)
<1>1. /\ "enum" \in DOMAIN K
      /\ DOMAIN K.enum = DOMAIN k.enum
      /\ \A i \in DOMAIN k.enum : K.enum[i] = Frozen(k.enum[i])
    BY FrozenKeyword DEF SameKeywords
<1>2. PICK i \in DOMAIN K.enum :
          PyType(v[p]) = PyType(K.enum[i][<<>>]) /\ PyEq(Part(v, p), K.enum[i])
    BY <1>1 DEF InEnum
<1> HIDE DEF K
<1> DEFINE e == k.enum[i]
<1>3. e \in Range(k.enum) /\ K.enum[i] = Frozen(e) BY <1>1 DEF Range
<1>4. IsTree(e) BY <1>1 DEF KeywordsTyped, IsJson
<1> HIDE DEF e
<1>5. <<>> \in DOMAIN e BY <1>4 DEF IsTree
<1>6. v[p].t = e[<<>>].t
    <2>1. e[<<>>] \in Nodes /\ Frozen(e)[<<>>] = WithFlag(e[<<>>], TRUE) BY <1>4, <1>5, FrozenValue
    <2>2. Frozen(e)[<<>>].t = e[<<>>].t BY <2>1, FlagOnly
    <2>3. v[p].t = Frozen(e)[<<>>].t BY <1>2, <1>3 DEF PyType
    <2> QED BY <2>2, <2>3
<1>7. DOMAIN Part(v, p) = DOMAIN e BY <1>2, <1>3, <1>4, FrozenValue DEF PyEq
<1>8. ASSUME NEW q \in DOMAIN e PROVE SameNode(Part(v, p)[q], e[q])
    <2>1. NodeEq(Part(v, p)[q], Frozen(e)[q]) BY <1>2, <1>3, <1>7 DEF PyEq
    <2>2. Frozen(e)[q] = WithFlag(e[q], TRUE) /\ e[q] \in Nodes BY <1>4, FrozenValue
    <2>3. Part(v, p)[q] \in Nodes BY <1>7, FrozenPart
    <2>4. SameNode(Part(v, p)[q], WithFlag(e[q], TRUE)) BY <2>1, <2>2, <2>3, FlagOnly, EqualIsSame
    <2> QED BY <2>2, <2>3, <2>4, SameWhenFrozen
<1> QED BY <1>3, <1>6, <1>7, <1>8 DEF IsValue

\* What a plain value was found to be in a frozen enum, it also is frozen: only
\* scalars are found there.
LEMMA EnumWhenFrozen ==
    ASSUME NEW v, IsJson(v), NEW p \in DOMAIN v, NEW k, KeywordsTyped(k),
           NEW drop, drop \cap OutputKeys = {}, InEnum(v, p, FrozenKeywords(k, drop))
    PROVE  InEnum(Frozen(v), p, FrozenKeywords(k, drop))
<1> DEFINE K == FrozenKeywords(k, drop)
<1> SUFFICES ASSUME "enum" \in DOMAIN K
             PROVE  \E i \in DOMAIN K.enum :
                        /\ PyType(Frozen(v)[p]) = PyType(K.enum[i][<<>>])
                        /\ PyEq(Part(Frozen(v), p), K.enum[i])
    BY DEF InEnum
<1>1. /\ "enum" \in DOMAIN k
      /\ DOMAIN K.enum = DOMAIN k.enum
      /\ \A i \in DOMAIN k.enum : K.enum[i] = Frozen(k.enum[i])
    BY FrozenKeyword DEF SameKeywords
<1>2. PICK i \in DOMAIN K.enum :
          PyType(v[p]) = PyType(K.enum[i][<<>>]) /\ PyEq(Part(v, p), K.enum[i])
    BY DEF InEnum
<1> HIDE DEF K
<1> DEFINE e == k.enum[i]
<1>3. K.enum[i] = Frozen(e) BY <1>1
<1>4. IsTree(e) BY <1>1 DEF KeywordsTyped, IsJson
<1> HIDE DEF e
<1>5. IsTree(v) /\ v = Plain(v) BY DEF IsJson
<1>6. v[p] \in Nodes /\ Frozen(v)[p] = WithFlag(v[p], TRUE) BY <1>5, FrozenValue
<1>7. <<>> \in DOMAIN e /\ e[<<>>] \in Nodes /\ Frozen(e)[<<>>] = WithFlag(e[<<>>], TRUE)
    BY <1>4, FrozenValue DEF IsTree
<1>8. ~Container(v[p])
    <2> SUFFICES ASSUME Container(v[p]) PROVE FALSE OBVIOUS
    <2>1. v[p] = WithFlag(v[p], FALSE) BY <1>5 DEF Plain
    <2>2. v[p].frozen = FALSE BY <1>6, <2>1, FlagOnly
    <2>3. v[p].t = e[<<>>].t
        <3>1. Frozen(e)[<<>>].t = e[<<>>].t BY <1>7, FlagOnly
        <3>2. v[p].t = Frozen(e)[<<>>].t BY <1>2, <1>3 DEF PyType
        <3> QED BY <3>1, <3>2
    <2>4. Container(e[<<>>]) BY <2>3 DEF Container
    <2>5. Frozen(e)[<<>>].frozen = TRUE BY <1>7, <2>4, FlagOnly
    <2>6. Container(Frozen(e)[<<>>]) BY <1>7, <2>4, FlagFits
    <2>7. PyType(v[p])[2] = FALSE BY <2>2 DEF PyType
    <2>8. PyType(Frozen(e)[<<>>])[2] = TRUE BY <2>5, <2>6 DEF PyType
    <2> QED BY <1>2, <1>3, <2>7, <2>8
<1>9. Frozen(v)[p] = v[p] BY <1>6, <1>8, FlagOnly
<1>10. PyEq(Part(Frozen(v), p), Frozen(e))
    <2>1. DOMAIN Part(Frozen(v), p) = DOMAIN Frozen(e) BY <1>2, <1>3, <1>5, FrozenPart DEF PyEq
    <2>2. ASSUME NEW q \in DOMAIN Part(v, p)
          PROVE  NodeEq(Part(Frozen(v), p)[q], Frozen(e)[q])
        <3>1. NodeEq(Part(v, p)[q], Frozen(e)[q]) BY <1>2, <1>3, <2>2 DEF PyEq
        <3>2. q \in DOMAIN e BY <1>2, <1>3, <1>4, <2>2, FrozenValue DEF PyEq
        <3>3. Frozen(e)[q] = WithFlag(e[q], TRUE) /\ e[q] \in Nodes BY <1>4, <3>2, FrozenValue
        <3>4. Part(v, p)[q] \in Nodes /\ Part(Frozen(v), p)[q] = WithFlag(Part(v, p)[q], TRUE)
            BY <1>5, <2>2, FrozenPart
        <3> QED BY <3>1, <3>3, <3>4, EqualWhenFrozen
    <2>3. DOMAIN Part(Frozen(v), p) = DOMAIN Part(v, p) BY <1>5, FrozenPart
    <2> QED BY <2>1, <2>2, <2>3 DEF PyEq
<1> QED BY <1>2, <1>3, <1>9, <1>10

-----------------------------------------------------------------------------
(* Arguments                                                               *)

\* Arguments that passed the check plain, under the limits of one authority, pass
\* it frozen under those of another, if they and the schema are of its sizes.
LEMMA ParsedWhenFrozen ==
    ASSUME NEW v, IsJson(v), NEW s, IsSchema(s), NEW from, NEW lim,
           InputValid(v, Normalized(s), from),
           SchemaDefined(Normalized(s), lim), Sized(Frozen(v), lim)
    PROVE  InputValid(Frozen(v), Normalized(s), lim)
<1>1. IsTree(v) BY DEF IsJson
<1> SUFFICES ASSUME NEW p \in DOMAIN v
             PROVE  /\ SchemaPath(p) \in Reached(Normalized(s))
                    /\ InputValidAt(Frozen(v), p, Normalized(s)[SchemaPath(p)], lim)
    BY <1>1, FrozenValue DEF InputValid
<1>2. SchemaPath(p) \in Reached(Normalized(s)) /\ InputValidAt(v, p, Normalized(s)[SchemaPath(p)], from)
    BY DEF InputValid
<1>3. SchemaPath(p) \in DOMAIN s BY <1>2 DEF Reached, Normalized, FrozenSchema
<1> DEFINE k == s[SchemaPath(p)]
           K == FrozenKeywords(k, Annotations)
<1>4. Normalized(s)[SchemaPath(p)] = K /\ KeywordsTyped(k)
    BY <1>3, SchemaTyped DEF Normalized, FrozenSchema
<1>5. InputValidAt(v, p, K, from) BY <1>2, <1>4
<1>6. InEnum(Frozen(v), p, K) BY <1>4, <1>5, EnumWhenFrozen, DropsNothing DEF InputValidAt
<1> HIDE DEF k, K
<1> DEFINE m == v[p]
           n == Frozen(v)[p]
<1>7. m \in Nodes /\ n = WithFlag(m, TRUE) BY <1>1, FrozenValue
<1>8. InputValidAt(v, p, K, from) <=>
        /\ ValueMatches(m, K.type) /\ InEnum(v, p, K)
        /\ CASE K.type = "object" ->
                   /\ Size(m) <= from.items
                   /\ m.fields \subseteq Properties(K) /\ Range(Required(K)) \subseteq m.fields
             [] K.type = "array" -> Size(m) <= from.items
             [] K.type = "string" ->
                   /\ m.v <= from.argument
                   /\ m.v \in Get(K, "minLength", 0)..Get(K, "maxLength", m.v)
             [] K.type \in {"integer", "number"} ->
                   m.v >= Get(K, "minimum", m.v) /\ m.v <= Get(K, "maximum", m.v)
             [] OTHER -> TRUE
    BY DEF InputValidAt
<1>9. InputValidAt(Frozen(v), p, K, lim) <=>
        /\ ValueMatches(n, K.type) /\ InEnum(Frozen(v), p, K)
        /\ CASE K.type = "object" ->
                   /\ Size(n) <= lim.items
                   /\ n.fields \subseteq Properties(K) /\ Range(Required(K)) \subseteq n.fields
             [] K.type = "array" -> Size(n) <= lim.items
             [] K.type = "string" ->
                   /\ n.v <= lim.argument
                   /\ n.v \in Get(K, "minLength", 0)..Get(K, "maxLength", n.v)
             [] K.type \in {"integer", "number"} ->
                   n.v >= Get(K, "minimum", n.v) /\ n.v <= Get(K, "maximum", n.v)
             [] OTHER -> TRUE
    BY DEF InputValidAt
<1>13. NodeFits(n, lim) /\ (n.t = "string" => n.v <= lim.argument)
    <2>1. p \in DOMAIN Frozen(v) BY <1>1, FrozenValue
    <2> QED BY <2>1 DEF Sized, Fits
<1> HIDE DEF m, n
<1>10. n.t = m.t BY <1>7, FlagOnly
<1>11. ValueMatches(m, K.type) /\ ValueMatches(n, K.type) BY <1>5, <1>8, <1>10 DEF ValueMatches
<1>12. InputValidAt(Frozen(v), p, K, lim)
    <2>1. CASE ~Container(m)
        <3>1. n = m BY <1>7, <2>1, FlagOnly
        <3>2. K.type = "string" => n.t = "string" BY <1>11 DEF ValueMatches
        <3>3. K.type \notin {"array", "object"} BY <1>11, <2>1 DEF ValueMatches, Container
        <3> QED BY <1>5, <1>6, <1>8, <1>9, <1>13, <3>1, <3>2, <3>3
    <2>2. CASE m.t = "array"
        <3>1. K.type = "array" BY <1>11, <2>2 DEF ValueMatches
        <3>2. Size(n) <= lim.items BY <1>10, <1>13, <2>2 DEF NodeFits, Container
        <3> QED BY <1>6, <1>9, <1>11, <3>1, <3>2
    <2>3. CASE m.t = "object"
        <3>1. K.type = "object" BY <1>11, <2>3 DEF ValueMatches
        <3>2. Size(n) <= lim.items BY <1>10, <1>13, <2>3 DEF NodeFits, Container
        <3>3. n.fields = m.fields BY <1>7, <2>3, FlagOnly
        <3> QED BY <1>5, <1>6, <1>8, <1>9, <1>11, <3>1, <3>2, <3>3
    <2> QED BY <2>1, <2>2, <2>3 DEF Container
<1> QED BY <1>2, <1>4, <1>12

\* The one type of a checked input schema.
LEMMA TypeOfDefined ==
    ASSUME NEW k, NEW lim, KeywordsDefined(k, lim)
    PROVE  Range(SchemaTypes(k)) = {k.type} /\ "maxItems" \notin DOMAIN k
<1>1. "type" \in DOMAIN k /\ "types" \notin DOMAIN k /\ "maxItems" \notin DOMAIN k
    BY DEF KeywordsDefined, SchemaKeys, ObjectKeys
<1>2. SchemaTypes(k) = <<k.type>> BY <1>1 DEF SchemaTypes
<1> QED BY <1>1, <1>2 DEF Range

\* Arguments that pass the check of the normalized schema conform to the schema
\* that the server wrote.
LEMMA AcceptedMeans ==
    ASSUME NEW v, IsTree(v), NEW s, IsSchema(s), NEW lim, InputValid(v, Normalized(s), lim)
    PROVE  Conforms(v, s)
<1> SUFFICES ASSUME NEW p \in DOMAIN v
             PROVE  SchemaPath(p) \in DOMAIN s /\ ConformsAt(v, p, s[SchemaPath(p)])
    BY DEF Conforms
<1>1. SchemaPath(p) \in Reached(Normalized(s)) /\ InputValidAt(v, p, Normalized(s)[SchemaPath(p)], lim)
    BY DEF InputValid
<1>2. SchemaPath(p) \in DOMAIN s BY <1>1 DEF Reached, Normalized, FrozenSchema
<1> DEFINE k == s[SchemaPath(p)]
           K == FrozenKeywords(k, Annotations)
           n == v[p]
<1>3. Normalized(s)[SchemaPath(p)] = K /\ KeywordsTyped(k)
    BY <1>2, SchemaTyped DEF Normalized, FrozenSchema
<1>4. InputValidAt(v, p, K, lim) BY <1>1, <1>3
<1>5. KeywordsDefined(K, lim) BY <1>1, <1>3 DEF InputValid, SchemaDefined
<1>6. /\ "enum" \in DOMAIN K <=> "enum" \in DOMAIN k
      /\ \A key \in OutputKeys \ {"enum"} :
             (key \in DOMAIN K <=> key \in DOMAIN k) /\ (key \in DOMAIN k => K[key] = k[key])
      /\ Properties(K) = Properties(k) /\ Required(K) = Required(k)
      /\ SchemaTypes(K) = SchemaTypes(k)
    <2>1. SameKeywords(K, k) BY FrozenKeyword, DropsNothing
    <2> HIDE DEF K, k
    <2> QED BY <2>1 DEF SameKeywords
<1>7. "enum" \in DOMAIN k => \E e \in Range(k.enum) : IsValue(v, p, e)
    BY <1>3, <1>4, EnumMeans, DropsNothing DEF InputValidAt
<1>8. n \in Nodes BY DEF IsTree
<1>9. /\ ValueMatches(n, K.type)
      /\ CASE K.type = "object" ->
                 n.fields \subseteq Properties(K) /\ Range(Required(K)) \subseteq n.fields
           [] K.type = "array" -> TRUE
           [] K.type = "string" -> n.v \in Get(K, "minLength", 0)..Get(K, "maxLength", n.v)
           [] K.type \in {"integer", "number"} ->
                 n.v >= Get(K, "minimum", n.v) /\ n.v <= Get(K, "maximum", n.v)
           [] OTHER -> TRUE
    BY <1>4 DEF InputValidAt
<1> SUFFICES ConformsAt(v, p, k) BY <1>2
<1> HIDE DEF k, K
<1>10. Range(SchemaTypes(k)) = {K.type} /\ "maxItems" \notin DOMAIN K BY <1>5, <1>6, TypeOfDefined
<1>17. K.type \in Types BY <1>5 DEF KeywordsDefined
<1>11. {"minLength", "maxLength", "minimum", "maximum", "maxItems"} \subseteq OutputKeys \ {"enum"}
    BY DEF OutputKeys, SchemaKeys, ObjectKeys
<1>12. TypesOf(n) \cap Range(SchemaTypes(k)) # {}
    BY <1>9, <1>10, <1>17 DEF TypesOf, ValueMatches, Types
<1>13. ASSUME n.t = "string"
       PROVE  /\ "minLength" \in DOMAIN k => k["minLength"] <= n.v
              /\ "maxLength" \in DOMAIN k => n.v <= k["maxLength"]
    <2>1. K.type = "string" BY <1>9, <1>13 DEF ValueMatches
    <2>2. n.v \in Get(K, "minLength", 0)..Get(K, "maxLength", n.v) BY <1>9, <2>1
    <2>3. \A key \in {"minLength", "maxLength"} \cap DOMAIN K : K[key] \in 0..Hard.argument
        BY <1>5 DEF KeywordsDefined
    <2>4. n.v \in Int BY <2>2
    <2> QED BY <1>6, <1>11, <2>2, <2>3, <2>4, LimitsAreNat DEF Get
<1>14. ASSUME n.t \in {"integer", "float"}
       PROVE  /\ "minimum" \in DOMAIN k => k["minimum"] <= n.v
              /\ "maximum" \in DOMAIN k => n.v <= k["maximum"]
    <2>1. K.type \in {"integer", "number"} BY <1>9, <1>14, <1>17 DEF ValueMatches, Types
    <2>2. n.v >= Get(K, "minimum", n.v) /\ n.v <= Get(K, "maximum", n.v) BY <1>9, <2>1
    <2> QED BY <1>6, <1>11, <2>2 DEF Get
<1>15. n.t = "object" =>
           n.fields \subseteq Properties(k) /\ Range(Required(k)) \subseteq n.fields
    BY <1>6, <1>9 DEF ValueMatches
<1>16. "maxItems" \notin DOMAIN k BY <1>6, <1>10, <1>11
<1> QED BY <1>7, <1>12, <1>13, <1>14, <1>15, <1>16 DEF ConformsAt

\* Whether a value conforms has nothing to do with its flags.
LEMMA ConformsWhenFrozen ==
    ASSUME NEW v, IsTree(v), NEW s, IsSchema(s)
    PROVE  Conforms(Frozen(v), s) <=> Conforms(v, s)
<1>1. DOMAIN Frozen(v) = DOMAIN v BY FrozenValue
<1>2. ASSUME NEW p \in DOMAIN v, SchemaPath(p) \in DOMAIN s
      PROVE  ConformsAt(Frozen(v), p, s[SchemaPath(p)]) <=> ConformsAt(v, p, s[SchemaPath(p)])
    <2> DEFINE k == s[SchemaPath(p)]
               m == v[p]
               n == Frozen(v)[p]
    <2>1. KeywordsTyped(k) BY <1>2, SchemaTyped
    <2>2. m \in Nodes /\ n = WithFlag(m, TRUE) BY FrozenValue
    <2>3. n.t = m.t /\ TypesOf(n) = TypesOf(m)
        <3>1. n.t = m.t BY <2>2, FlagOnly
        <3> QED BY <3>1 DEF TypesOf
    <2>4. ASSUME "enum" \in DOMAIN k, NEW e \in Range(k.enum)
          PROVE  IsValue(Frozen(v), p, e) <=> IsValue(v, p, e)
        <3>1. IsTree(e) BY <2>1, <2>4 DEF KeywordsTyped, IsJson, Range
        <3>2. ASSUME NEW q \in DOMAIN e, DOMAIN Part(v, p) = DOMAIN e
              PROVE  SameNode(Part(Frozen(v), p)[q], e[q]) <=> SameNode(Part(v, p)[q], e[q])
            <4>1. e[q] \in Nodes BY <3>1, <3>2 DEF IsTree
            <4>2. /\ Part(v, p)[q] \in Nodes
                  /\ Part(Frozen(v), p)[q] = WithFlag(Part(v, p)[q], TRUE)
                BY <3>2, FrozenPart
            <4>3. \A m_1, n_1 \in Nodes :
                      SameNode(WithFlag(m_1, TRUE), n_1) <=> SameNode(m_1, n_1)
                BY SameWhenFrozen
            <4> QED BY <4>1, <4>2, <4>3
        <3>3. DOMAIN Part(Frozen(v), p) = DOMAIN Part(v, p) BY FrozenPart
        <3> QED BY <2>3, <3>2, <3>3 DEF IsValue
    <2>5. m.t \in {"string", "integer", "float"} => n = m BY <2>2, FlagOnly DEF Container
    <2>6. m.t = "array" => n.len = m.len BY <2>2, FlagOnly
    <2>7. m.t = "object" => n.fields = m.fields BY <2>2, FlagOnly
    <2> SUFFICES ConformsAt(Frozen(v), p, k) <=> ConformsAt(v, p, k) OBVIOUS
    <2> HIDE DEF k
    <2> QED BY <2>3, <2>4, <2>5, <2>6, <2>7 DEF ConformsAt
<1> QED BY <1>1, <1>2 DEF Conforms

-----------------------------------------------------------------------------
(* Results                                                                 *)

\* A frozen result that passes the check of the frozen schema conforms, as it came,
\* to the schema that the server wrote.
LEMMA ResultMeans ==
    ASSUME NEW v, IsTree(v), NEW s, IsSchema(s), OutputDefined(s), OutputValid(v, FrozenSchema(s, {}))
    PROVE  Conforms(v, s)
<1> SUFFICES ASSUME NEW p \in DOMAIN v
             PROVE  SchemaPath(p) \in DOMAIN s /\ ConformsAt(v, p, s[SchemaPath(p)])
    BY DEF Conforms
<1> DEFINE F == FrozenSchema(s, {})
           k == s[SchemaPath(p)]
           K == FrozenKeywords(k, {})
           n == v[p]
<1>1. SchemaPath(p) \in Reached(F) /\ OutputValidAt(v, p, F[SchemaPath(p)])
    BY DEF OutputValid
<1>2. SchemaPath(p) \in DOMAIN s BY <1>1 DEF Reached, FrozenSchema
<1>3. F[SchemaPath(p)] = K /\ KeywordsTyped(k) BY <1>2, SchemaTyped DEF FrozenSchema
<1>4. OutputValidAt(v, p, K) BY <1>1, <1>3
<1>6. /\ "enum" \in DOMAIN K <=> "enum" \in DOMAIN k
      /\ \A key \in OutputKeys \ {"enum"} :
             (key \in DOMAIN K <=> key \in DOMAIN k) /\ (key \in DOMAIN k => K[key] = k[key])
      /\ Properties(K) = Properties(k) /\ Required(K) = Required(k)
      /\ SchemaTypes(K) = SchemaTypes(k)
    <2>1. SameKeywords(K, k) BY FrozenKeyword, DropsNothing
    <2> HIDE DEF K, k
    <2> QED BY <2>1 DEF SameKeywords
<1>7. "enum" \in DOMAIN k => \E e \in Range(k.enum) : IsValue(v, p, e)
    BY <1>3, <1>4, EnumMeans, DropsNothing DEF OutputValidAt
<1>8. n \in Nodes BY DEF IsTree
<1>9. /\ \E i \in DOMAIN SchemaTypes(K) : ValueMatches(n, SchemaTypes(K)[i])
      /\ CASE n.t = "object" ->
                 n.fields \subseteq Properties(K) /\ Range(Required(K)) \subseteq n.fields
           [] n.t = "array" -> Size(n) <= K.maxItems
           [] n.t = "string" -> n.v \in Get(K, "minLength", 0)..Get(K, "maxLength", n.v)
           [] n.t \in {"integer", "float"} ->
                 n.v >= Get(K, "minimum", n.v) /\ n.v <= Get(K, "maximum", n.v)
           [] OTHER -> TRUE
    BY <1>4 DEF OutputValidAt, TypeMatches
<1>5. SchemaPath(p) \in Reached(s)
    <2>1. \A q \in DOMAIN s : SchemaTypes(F[q]) = SchemaTypes(s[q])
        BY FrozenKeyword, DropsNothing DEF FrozenSchema, SameKeywords
    <2>2. \A i \in DOMAIN SchemaPath(p) : SubSeq(SchemaPath(p), 1, i - 1) \in DOMAIN s
        BY <1>2 DEF IsSchema
    <2> QED BY <1>1, <1>2, <2>1, <2>2 DEF Reached
<1>10. OutputKeywordsDefined(k) BY <1>5 DEF OutputDefined
<1> SUFFICES ConformsAt(v, p, k) BY <1>2
<1> HIDE DEF k, K
<1>11. {"minLength", "maxLength", "minimum", "maximum", "maxItems"} \subseteq OutputKeys \ {"enum"}
    BY DEF OutputKeys, SchemaKeys, ObjectKeys
<1>12. TypesOf(n) \cap Range(SchemaTypes(k)) # {}
    <2>1. PICK type \in Range(SchemaTypes(k)) : ValueMatches(n, type) BY <1>6, <1>9 DEF Range
    <2>2. type \in Types BY <1>10, <2>1 DEF OutputKeywordsDefined
    <2>3. type \in TypesOf(n) BY <2>1, <2>2 DEF TypesOf, ValueMatches, Types
    <2> QED BY <2>1, <2>3
<1>13. ASSUME n.t = "string"
       PROVE  /\ "minLength" \in DOMAIN k => k["minLength"] <= n.v
              /\ "maxLength" \in DOMAIN k => n.v <= k["maxLength"]
    <2>1. n.v \in Get(K, "minLength", 0)..Get(K, "maxLength", n.v) BY <1>9, <1>13
    <2>2. \A key \in {"minLength", "maxLength"} \cap DOMAIN k : k[key] \in 0..Client.response
        BY <1>10 DEF OutputKeywordsDefined
    <2>3. n.v \in Int BY <2>1
    <2> QED BY <1>6, <1>11, <2>1, <2>2, <2>3, LimitsAreNat DEF Get
<1>14. ASSUME n.t \in {"integer", "float"}
       PROVE  /\ "minimum" \in DOMAIN k => k["minimum"] <= n.v
              /\ "maximum" \in DOMAIN k => n.v <= k["maximum"]
    <2>1. n.v >= Get(K, "minimum", n.v) /\ n.v <= Get(K, "maximum", n.v) BY <1>9, <1>14
    <2> QED BY <1>6, <1>11, <2>1 DEF Get
<1>15. n.t = "object" =>
           n.fields \subseteq Properties(k) /\ Range(Required(k)) \subseteq n.fields
    BY <1>6, <1>9
<1>16. n.t = "array" /\ "maxItems" \in DOMAIN k => n.len <= k.maxItems
    BY <1>6, <1>9, <1>11 DEF Size
<1> QED BY <1>7, <1>12, <1>13, <1>14, <1>15, <1>16 DEF ConformsAt

-----------------------------------------------------------------------------
(* Redaction                                                               *)

\* A scalar or an empty container.
IsLeaf(n) == Container(n) => Size(n) = 0

\* What redact_json() makes of a node that it does not hide: the flag of the node
\* does not matter, leaves stay leaves and no node becomes one.
LEMMA RedactedNode ==
    ASSUME NEW n \in Nodes, n = WithFlag(n, FALSE)
    PROVE  /\ RedactNode(n) \in Nodes
           /\ RedactNode(WithFlag(n, TRUE)) = RedactNode(n)
           /\ WithFlag(RedactNode(n), FALSE) = RedactNode(n)
           /\ IsLeaf(RedactNode(n)) <=> IsLeaf(n)
           /\ IsLeaf(n) => RedactNode(n) = Cut(n)
<1>0. Redaction.items \in Nat \ {0} /\ Redaction.text \in Nat BY ContractAssumption
<1>1. CASE n \in [t : {"string", "boolean", "integer", "float", "null"}, v : Int]
    <2>1. WithFlag(n, TRUE) = n /\ ~Container(n) BY <1>1 DEF WithFlag, Container
    <2>2. CASE n.t = "string" /\ n.v > Redaction.text
        <3>1. RedactNode(n) = [n EXCEPT !.v = Redaction.text] BY <2>2 DEF RedactNode
        <3>2. RedactNode(n) \in [t : {"string", "boolean", "integer", "float", "null"}, v : Int]
            BY <1>0, <1>1, <3>1
        <3>3. RedactNode(n) = Cut(n) BY <2>2, <3>1 DEF Cut
        <3> QED BY <2>1, <3>2, <3>3 DEF Nodes, IsLeaf, WithFlag, Container
    <2>3. CASE ~(n.t = "string" /\ n.v > Redaction.text)
        <3>1. RedactNode(n) = n BY <1>1, <2>3 DEF RedactNode
        <3>2. Cut(n) = n BY <2>3 DEF Cut
        <3> QED BY <2>1, <3>1, <3>2 DEF IsLeaf
    <2> QED BY <2>2, <2>3
<1>2. CASE n \in [t : {"array"}, frozen : BOOLEAN, len : Nat]
    <2> DEFINE len == IF n.len < Redaction.items THEN n.len ELSE Redaction.items
               m == [t |-> "array", frozen |-> FALSE, len |-> len]
    <2>1. len \in Nat /\ (len = 0 <=> n.len = 0) BY <1>0, <1>2
    <2>2. RedactNode(n) = m BY <1>2 DEF RedactNode
    <2>3. RedactNode(WithFlag(n, TRUE)) = m BY <1>2 DEF RedactNode, WithFlag, Container
    <2>4. n.frozen = FALSE BY <1>2 DEF WithFlag, Container
    <2> HIDE DEF len
    <2>5. m \in Nodes /\ WithFlag(m, FALSE) = m BY <2>1 DEF Nodes, WithFlag, Container
    <2>6. IsLeaf(m) <=> IsLeaf(n) BY <1>2, <2>1 DEF IsLeaf, Container, Size
    <2>7. IsLeaf(n) => m = n BY <1>2, <2>1, <2>4 DEF IsLeaf, Container, Size
    <2>8. Cut(n) = n BY <1>2 DEF Cut
    <2> QED BY <2>2, <2>3, <2>5, <2>6, <2>7, <2>8
<1>3. CASE n \in [t : {"object"}, frozen : BOOLEAN, fields : SUBSET STRING]
    <2>1. n.frozen = FALSE BY <1>3 DEF WithFlag, Container
    <2>2. RedactNode(n) = n BY <1>3, <2>1 DEF RedactNode
    <2>3. RedactNode(WithFlag(n, TRUE)) = n BY <1>3, <2>1 DEF RedactNode, WithFlag, Container
    <2>4. Cut(n) = n BY <1>3 DEF Cut
    <2> QED BY <2>2, <2>3, <2>4
<1> QED BY <1>1, <1>2, <1>3 DEF Nodes

\* The steps of a path that go through a hidden field.
HiddenOn(p) == {i \in DOMAIN p : Masks(p[i])}

\* The path is beyond the cut of an array.
FarOn(p) == \E i \in DOMAIN p : p[i][1] = "array" /\ p[i][2] > Redaction.items

\* A mask is a node with no way out.
LEMMA MaskNode == Mask \in Nodes /\ Leaving(Mask) = {}
    BY ContractAssumption DEF Mask, Nodes, Leaving

\* What is kept of a value, as plain as it came.
LEMMA KeptValue ==
    ASSUME NEW v, IsJson(v), NEW w, w = Plain(Frozen(RedactJson(Frozen(v))))
    PROVE  /\ DOMAIN w = {p \in DOMAIN v : HiddenOn(p) \subseteq {Len(p)} /\ ~FarOn(p)}
           /\ \A p \in DOMAIN w :
                  /\ w[p] = IF HiddenOn(p) = {} THEN RedactNode(v[p]) ELSE Mask
                  /\ RedactJson(Frozen(v))[p] \in Nodes
<1> DEFINE f == Frozen(v)
           r == RedactJson(f)
<1>1. IsTree(v) /\ v = Plain(v) BY DEF IsJson
<1>2. DOMAIN f = DOMAIN v BY <1>1, FrozenValue
<1> DEFINE keep(p) ==
               \A i \in DOMAIN p :
                   /\ Masks(p[i]) => i = Len(p)
                   /\ p[i][1] = "array" => p[i][2] <= Redaction.items
<1>3. DOMAIN r = {p \in DOMAIN v : keep(p)}
    BY <1>2 DEF RedactJson
<1>4. ASSUME NEW p \in DOMAIN v
      PROVE  keep(p) <=> (HiddenOn(p) \subseteq {Len(p)} /\ ~FarOn(p))
    <2>1. p \in Seq(Steps) BY <1>1 DEF IsTree
    <2>2. \A i \in DOMAIN p : p[i] \in Steps BY <2>1
    <2>3. \A i \in DOMAIN p : p[i][1] = "array" => p[i][2] \in Int BY <2>2 DEF Steps
    <2>4. \A i \in DOMAIN p :
              p[i][1] = "array" => (p[i][2] <= Redaction.items <=> ~(p[i][2] > Redaction.items))
        BY <2>3, ContractAssumption
    <2> QED BY <2>4 DEF HiddenOn, FarOn
<1>5. DOMAIN w = DOMAIN r BY DEF Plain, Frozen
<1> HIDE DEF keep, r
<1>6. DOMAIN w = {p \in DOMAIN v : HiddenOn(p) \subseteq {Len(p)} /\ ~FarOn(p)}
    BY <1>3, <1>4, <1>5
<1>7. ASSUME NEW p \in DOMAIN w
      PROVE  w[p] = (IF HiddenOn(p) = {} THEN RedactNode(v[p]) ELSE Mask) /\ r[p] \in Nodes
    <2>1. p \in DOMAIN r /\ p \in DOMAIN v /\ HiddenOn(p) \subseteq {Len(p)} BY <1>5, <1>6, <1>7
    <2>2. p \in Seq(Steps) /\ v[p] \in Nodes BY <1>1, <2>1 DEF IsTree
    <2>3. (p # <<>> /\ Masks(Last(p))) <=> HiddenOn(p) # {}
        <3>1. CASE p = <<>> BY <3>1 DEF HiddenOn
        <3>2. CASE p # <<>>
            <4>1. Len(p) \in DOMAIN p BY <2>2, <3>2
            <4> QED BY <2>1, <3>2, <4>1 DEF HiddenOn, Last
        <3> QED BY <3>1, <3>2
    <2>4. r[p] = IF p # <<>> /\ Masks(Last(p)) THEN Mask ELSE RedactNode(f[p])
        BY <2>1 DEF RedactJson, r
    <2>5. w[p] = WithFlag(WithFlag(r[p], TRUE), FALSE) BY <2>1 DEF Plain, Frozen, r
    <2>6. f[p] = WithFlag(v[p], TRUE) BY <1>1, <2>1, FrozenValue
    <2>7. v[p] = WithFlag(v[p], FALSE) BY <1>1, <2>1 DEF Plain
    <2>8. CASE HiddenOn(p) = {}
        <3>1. r[p] = RedactNode(v[p]) BY <2>2, <2>3, <2>4, <2>6, <2>7, <2>8, RedactedNode
        <3>2. RedactNode(v[p]) \in Nodes /\ WithFlag(RedactNode(v[p]), FALSE) = RedactNode(v[p])
            BY <2>2, <2>7, RedactedNode
        <3>3. WithFlag(WithFlag(RedactNode(v[p]), TRUE), FALSE) = RedactNode(v[p])
            BY <3>2, LastFlag
        <3> QED BY <2>5, <2>8, <3>1, <3>2, <3>3
    <2>9. CASE HiddenOn(p) # {}
        <3>1. r[p] = Mask BY <2>3, <2>4, <2>9
        <3>2. WithFlag(Mask, TRUE) = Mask /\ WithFlag(Mask, FALSE) = Mask
            BY DEF WithFlag, Container, Mask
        <3> QED BY <2>5, <2>9, <3>1, <3>2, MaskNode
    <2> QED BY <2>8, <2>9
<1> QED BY <1>6, <1>7 DEF r

\* Of a redacted value, the leaves that are not hidden are those of the value, cut,
\* at the same places, but for those beyond the cut of an array; the hidden ones
\* are masks, and nothing is below them.
LEMMA RedactionTells ==
    ASSUME NEW v, IsJson(v), NEW w, w = Plain(Frozen(RedactJson(Frozen(v))))
    PROVE  IsRedactionOf(w, v)
<1> DEFINE kept == LeavesOf(w)
           told == {[leaf EXCEPT !.is = Cut(leaf.is)] : leaf \in {l \in LeavesOf(v) : Hidden(l) = {}}}
           far == {leaf \in told : \E i \in DOMAIN leaf.at :
                       leaf.at[i][1] = "array" /\ leaf.at[i][2] > Redaction.items}
           near == {[at |-> p, is |-> Cut(v[p])] :
                       p \in {q \in DOMAIN v : IsLeaf(v[q]) /\ HiddenOn(q) = {} /\ ~FarOn(q)}}
<1>1. /\ DOMAIN w = {p \in DOMAIN v : HiddenOn(p) \subseteq {Len(p)} /\ ~FarOn(p)}
      /\ \A p \in DOMAIN w : w[p] = IF HiddenOn(p) = {} THEN RedactNode(v[p]) ELSE Mask
    BY KeptValue
<1>2. \A leaf : Hidden(leaf) = HiddenOn(leaf.at) BY DEF Hidden, HiddenOn, Masks
<1>3. \A p \in DOMAIN v : v[p] \in Nodes /\ v[p] = WithFlag(v[p], FALSE)
    BY DEF IsJson, IsTree, Plain
<1>4. kept = {[at |-> p, is |-> w[p]] : p \in {q \in DOMAIN w : IsLeaf(w[q])}}
    BY DEF LeavesOf, IsLeaf
<1>5. told = {[at |-> p, is |-> Cut(v[p])] : p \in {q \in DOMAIN v : IsLeaf(v[q]) /\ HiddenOn(q) = {}}}
    <2>1. LeavesOf(v) = {[at |-> p, is |-> v[p]] : p \in {q \in DOMAIN v : IsLeaf(v[q])}}
        BY DEF LeavesOf, IsLeaf
    <2>2. ASSUME NEW p PROVE [[at |-> p, is |-> v[p]] EXCEPT !.is = Cut(v[p])] = [at |-> p, is |-> Cut(v[p])]
        OBVIOUS
    <2>3. ASSUME NEW leaf \in told
          PROVE  \E p \in DOMAIN v : /\ IsLeaf(v[p]) /\ HiddenOn(p) = {}
                                    /\ leaf = [at |-> p, is |-> Cut(v[p])]
        <3>1. PICK l \in LeavesOf(v) : Hidden(l) = {} /\ leaf = [l EXCEPT !.is = Cut(l.is)] OBVIOUS
        <3>2. PICK p \in DOMAIN v : IsLeaf(v[p]) /\ l = [at |-> p, is |-> v[p]] BY <2>1
        <3> QED BY <1>2, <3>1, <3>2
    <2>4. ASSUME NEW p \in DOMAIN v, IsLeaf(v[p]), HiddenOn(p) = {}
          PROVE  [at |-> p, is |-> Cut(v[p])] \in told
        <3>1. [at |-> p, is |-> v[p]] \in LeavesOf(v) BY <2>1, <2>4
        <3>2. Hidden([at |-> p, is |-> v[p]]) = {} BY <1>2, <2>4
        <3> QED BY <3>1, <3>2, <2>2
    <2> QED BY <2>3, <2>4
<1>6. told \ far = near
    <2>1. ASSUME NEW leaf \in told PROVE leaf \in far <=> FarOn(leaf.at) BY <2>1 DEF FarOn
    <2> QED BY <1>5, <2>1
<1>7. {leaf \in kept : Hidden(leaf) = {}} = near
    <2>1. ASSUME NEW p \in DOMAIN v, HiddenOn(p) = {}, ~FarOn(p)
          PROVE  /\ p \in DOMAIN w /\ w[p] = RedactNode(v[p])
                 /\ IsLeaf(w[p]) <=> IsLeaf(v[p])
                 /\ IsLeaf(v[p]) => w[p] = Cut(v[p])
        <3>1. p \in DOMAIN w /\ w[p] = RedactNode(v[p]) BY <1>1, <2>1
        <3> QED BY <1>3, <3>1, RedactedNode
    <2>2. ASSUME NEW leaf \in kept, Hidden(leaf) = {} PROVE leaf \in near
        <3>1. PICK p \in DOMAIN w : IsLeaf(w[p]) /\ leaf = [at |-> p, is |-> w[p]] BY <1>4
        <3>2. HiddenOn(p) = {} BY <1>2, <2>2, <3>1
        <3>3. p \in DOMAIN v /\ ~FarOn(p) BY <1>1
        <3> QED BY <2>1, <3>1, <3>2, <3>3
    <2>3. ASSUME NEW leaf \in near PROVE leaf \in kept /\ Hidden(leaf) = {}
        <3>1. PICK p \in DOMAIN v : /\ IsLeaf(v[p]) /\ HiddenOn(p) = {} /\ ~FarOn(p)
                                   /\ leaf = [at |-> p, is |-> Cut(v[p])]
            BY <2>3
        <3>2. p \in DOMAIN w /\ IsLeaf(w[p]) /\ leaf = [at |-> p, is |-> w[p]] BY <2>1, <3>1
        <3> QED BY <1>2, <1>4, <3>1, <3>2
    <2> QED BY <2>2, <2>3
<1>8. ASSUME NEW leaf \in kept, Hidden(leaf) # {}
      PROVE  leaf.is = Mask /\ Hidden(leaf) = {Len(leaf.at)}
    <2>1. PICK p \in DOMAIN w : leaf = [at |-> p, is |-> w[p]] BY <1>4
    <2>2. HiddenOn(p) # {} /\ HiddenOn(p) \subseteq {Len(p)} BY <1>1, <1>2, <1>8, <2>1
    <2>3. w[p] = Mask BY <1>1, <2>2
    <2> QED BY <1>2, <2>1, <2>2, <2>3
<1>9. /\ {leaf \in kept : Hidden(leaf) = {}} = told \ far
      /\ \A leaf \in kept : Hidden(leaf) # {} =>
             leaf.is = Mask /\ Hidden(leaf) = {Len(leaf.at)}
    BY <1>6, <1>7, <1>8
<1> QED BY <1>9 DEF IsRedactionOf

\* Redaction removes ways out of a node beyond the cut, and no other.
LEMMA RedactedLeaving ==
    ASSUME NEW n \in Nodes, NEW step
    PROVE  step \in Leaving(RedactNode(n)) <=>
               step \in Leaving(n) /\ (step[1] = "array" => step[2] <= Redaction.items)
<1>0. Redaction.items \in Nat /\ Redaction.text \in Nat BY ContractAssumption
<1>1. CASE n \in [t : {"string", "boolean", "integer", "float", "null"}, v : Int]
    BY <1>0, <1>1 DEF Leaving, RedactNode
<1>2. CASE n \in [t : {"array"}, frozen : BOOLEAN, len : Nat]
    <2> DEFINE len == IF n.len < Redaction.items THEN n.len ELSE Redaction.items
    <2>1. RedactNode(n).t = "array" /\ RedactNode(n).len = len BY <1>2 DEF RedactNode
    <2>2. Leaving(RedactNode(n)) = {"array"} \X (1..len) BY <2>1 DEF Leaving
    <2>3. Leaving(n) = {"array"} \X (1..n.len) BY <1>2 DEF Leaving
    <2>4. \A x \in Int : x \in 1..len <=> x \in 1..n.len /\ x <= Redaction.items BY <1>0, <1>2
    <2>5. len \in Nat BY <1>0, <1>2
    <2> HIDE DEF len
    <2> QED BY <1>2, <2>2, <2>3, <2>4, <2>5
<1>3. CASE n \in [t : {"object"}, frozen : BOOLEAN, fields : SUBSET STRING]
    <2>1. RedactNode(n).t = "object" /\ RedactNode(n).fields = n.fields BY <1>3 DEF RedactNode
    <2>2. Leaving(RedactNode(n)) = {"object"} \X n.fields BY <2>1 DEF Leaving
    <2>3. Leaving(n) = {"object"} \X n.fields BY <1>3 DEF Leaving
    <2> QED BY <2>2, <2>3
<1> QED BY <1>1, <1>2, <1>3 DEF Nodes

\* What is kept is a JSON value again: every field and item that its nodes speak of
\* is there, and nothing else is.
LEMMA KeptIsTree ==
    ASSUME NEW v, IsJson(v), NEW w, w = Plain(Frozen(RedactJson(Frozen(v))))
    PROVE  IsTree(w)
<1>1. /\ DOMAIN w = {p \in DOMAIN v : HiddenOn(p) \subseteq {Len(p)} /\ ~FarOn(p)}
      /\ \A p \in DOMAIN w : w[p] = IF HiddenOn(p) = {} THEN RedactNode(v[p]) ELSE Mask
    BY KeptValue
<1>2. w = [p \in DOMAIN w |-> w[p]] BY DEF Plain
<1>3. IsTree(v) /\ \A p \in DOMAIN v : v[p] \in Nodes /\ v[p] = WithFlag(v[p], FALSE)
    BY DEF IsJson, IsTree, Plain
<1>4. \A p \in DOMAIN w : w[p] \in Nodes BY <1>1, <1>3, RedactedNode, MaskNode
<1>5. DOMAIN w \subseteq Seq(Steps) BY <1>1, <1>3 DEF IsTree
<1>6. <<>> \in DOMAIN w BY <1>1, <1>3 DEF IsTree, HiddenOn, FarOn
<1>7. ASSUME NEW p \in DOMAIN w, NEW i \in DOMAIN p
      PROVE  SubSeq(p, 1, i - 1) \in DOMAIN w /\ p[i] \in Leaving(w[SubSeq(p, 1, i - 1)])
    <2> DEFINE q == SubSeq(p, 1, i - 1)
    <2>1. q \in DOMAIN v /\ p[i] \in Leaving(v[q]) BY <1>1, <1>3 DEF IsTree
    <2>2. p \in Seq(Steps) /\ i \in 1..Len(p) BY <1>5
    <2>3. DOMAIN q = 1..(i - 1) /\ \A j \in 1..(i - 1) : q[j] = p[j] BY <2>2
    <2> HIDE DEF q
    <2>4. HiddenOn(q) = {}
        <3>1. \A j \in 1..(i - 1) : j \in DOMAIN p /\ j # Len(p) BY <2>2
        <3> QED BY <1>1, <2>3, <3>1 DEF HiddenOn
    <2>5. ~FarOn(q)
        <3>1. \A j \in 1..(i - 1) : j \in DOMAIN p BY <2>2
        <3> QED BY <1>1, <2>3, <3>1 DEF FarOn
    <2>6. q \in DOMAIN w /\ w[q] = RedactNode(v[q]) BY <1>1, <2>1, <2>4, <2>5
    <2>7. p[i][1] = "array" => p[i][2] <= Redaction.items
        <3>1. p[i] \in Steps BY <2>2
        <3>2. p[i][1] = "array" => p[i][2] \in Int BY <3>1 DEF Steps
        <3>3. ~FarOn(p) BY <1>1
        <3> QED BY <3>2, <3>3, ContractAssumption DEF FarOn
    <2>8. p[i] \in Leaving(w[q]) BY <1>3, <2>1, <2>6, <2>7, RedactedLeaving
    <2> QED BY <2>6, <2>8 DEF q
<1>8. ASSUME NEW p \in DOMAIN w, NEW step \in Leaving(w[p]) PROVE Append(p, step) \in DOMAIN w
    <2>1. HiddenOn(p) = {} /\ w[p] = RedactNode(v[p]) /\ p \in DOMAIN v /\ ~FarOn(p)
        BY <1>1, <1>8, MaskNode
    <2>2. step \in Leaving(v[p]) /\ (step[1] = "array" => step[2] <= Redaction.items)
        BY <1>3, <1>8, <2>1, RedactedLeaving
    <2> DEFINE q == Append(p, step)
    <2>3. q \in DOMAIN v BY <1>3, <2>1, <2>2 DEF IsTree
    <2>4. p \in Seq(Steps) /\ q \in Seq(Steps) BY <1>3, <1>5, <2>3 DEF IsTree
    <2>5. /\ Len(q) = Len(p) + 1 /\ Len(p) \in Nat /\ DOMAIN q = 1..(Len(p) + 1) /\ DOMAIN p = 1..Len(p)
          /\ q[Len(p) + 1] = step /\ \A j \in 1..Len(p) : q[j] = p[j]
        BY <2>4
    <2> HIDE DEF q
    <2>6. HiddenOn(q) \subseteq {Len(q)}
        <3>1. \A j \in DOMAIN q : j = Len(q) \/ j \in DOMAIN p BY <2>5
        <3> QED BY <2>1, <2>5, <3>1 DEF HiddenOn
    <2>7. ~FarOn(q)
        <3>1. \A j \in DOMAIN q : j = Len(p) + 1 \/ j \in DOMAIN p BY <2>5
        <3>2. step \in Steps BY <2>4, <2>5
        <3>3. step[1] = "array" => ~(step[2] > Redaction.items)
            BY <2>2, <3>2, ContractAssumption DEF Steps
        <3> QED BY <2>1, <2>5, <3>1, <3>3 DEF FarOn
    <2> QED BY <1>1, <2>3, <2>6, <2>7 DEF q
<1> QED BY <1>2, <1>4, <1>5, <1>6, <1>7, <1>8 DEF IsTree

-----------------------------------------------------------------------------
(* The inductive invariant: what was captured, parsed, sent and kept is    *)
(* what the operations made of the tools, of an answer and of a result.    *)

\* The surface is what tools/list advertised, and passed.
IsCaptured == SurfaceOk(tools) /\ surface = Captured(tools)

\* The proposals are the calls of one answer that parse_openai_response() accepted.
IsParsed ==
    \E r \in Responses :
        /\ Parsed(r) = "calls"
        /\ proposals = [i \in DOMAIN r.calls |-> Proposal(r.calls[i])]

\* The evidence is what is kept of one result that passed the output schema of the
\* tool whose call was sent.
IsKept ==
    \E r \in Results, i \in DOMAIN proposals :
        /\ evidence = <<[name |-> proposals[i].name, result |-> r, kept |-> Kept(r)]>>
        /\ ResultOk(r, surface[proposals[i].name].output)

\* Why run() would not authorize a turn.
IsRejected ==
    \/ Len(proposals) > Orchestrator.calls
    \/ \E i \in DOMAIN proposals : ~Accepts(proposals[i], Orchestrator)

\* Where the proposals of a turn are dealt with.
Calling == {"proposed", "authorize", "execute", "sent", "rejected", "refused"}

\* Each of these holds from the step that makes it so until the run ends.
ContractInv ==
    /\ tools \in ToolLists
    /\ pc \in {"list", "turn", "failed", "done"} \cup Calling
    /\ surface = <<>> \/ IsCaptured
    /\ pc \in {"turn"} \cup Calling => IsCaptured
    /\ pc \in Calling => IsParsed
    /\ pc \in {"list", "turn", "proposed"} => sent = 0 /\ evidence = <<>>
    /\ sent \in Nat
    /\ sent # 0 => IsCaptured /\ IsParsed /\ sent <= Len(proposals)
    /\ pc \in {"authorize", "execute", "refused"} => sent < Len(proposals)
    /\ pc = "sent" => sent # 0
    /\ pc = "rejected" => IsRejected
    /\ pc = "refused" => ~Executes(proposals[sent + 1])
    /\ evidence = <<>> \/ (IsCaptured /\ IsParsed /\ IsKept)

\* The one tool behind a name of a captured surface.
LEMMA CapturedTool ==
    ASSUME NEW list \in ToolLists, SurfaceOk(list), NEW name \in DOMAIN Captured(list)
    PROVE  \E tool \in Range(list) :
               /\ {t \in Range(list) : t.name = name} = {tool}
               /\ ToolOk(tool) /\ IsSchema(tool.input)
               /\ tool.output # NoSchema => IsSchema(tool.output)
               /\ Captured(list)[name].input = Normalized(tool.input)
               /\ Captured(list)[name].output = CapturedOutput(tool)
<1> DEFINE tool == CHOOSE t \in Range(list) : t.name = name
<1>1. name \in Range(ToolNames(list)) BY DEF Captured
<1>2. \E t \in Range(list) : t.name = name BY <1>1 DEF Range, ToolNames
<1>3. tool \in Range(list) /\ tool.name = name BY <1>2
<1>4. Captured(list)[name] = [input |-> Normalized(tool.input), output |-> CapturedOutput(tool)]
    BY <1>1 DEF Captured
<1> HIDE DEF tool
<1>5. ASSUME NEW t \in Range(list), t.name = name PROVE t = tool
    <2>1. PICK i \in DOMAIN list : list[i] = t BY DEF Range
    <2>2. PICK j \in DOMAIN list : list[j] = tool BY <1>3 DEF Range
    <2>3. IsInjective(ToolNames(list)) BY DEF SurfaceOk
    <2>4. DOMAIN ToolNames(list) = DOMAIN list /\ ToolNames(list)[i] = name /\ ToolNames(list)[j] = name
        BY <1>3, <1>5, <2>1, <2>2 DEF ToolNames
    <2>5. i = j BY <2>3, <2>4 DEF IsInjective
    <2> QED BY <2>1, <2>2, <2>5
<1>6. {t \in Range(list) : t.name = name} = {tool} BY <1>3, <1>5
<1>7. ToolOk(tool) BY <1>3 DEF SurfaceOk, Range
<1>8. IsSchema(tool.input) /\ (tool.output # NoSchema => IsSchema(tool.output))
    BY <1>3, InputAssumption
<1> QED BY <1>3, <1>4, <1>6, <1>7, <1>8

\* The proposals of a turn are counted from one, and there is one at least.
LEMMA ProposalsCounted ==
    ASSUME IsParsed
    PROVE  /\ Len(proposals) \in Nat /\ Len(proposals) # 0
           /\ DOMAIN proposals = 1..Len(proposals)
<1>1. PICK r \in Responses :
          /\ Parsed(r) = "calls"
          /\ proposals = [j \in DOMAIN r.calls |-> Proposal(r.calls[j])]
    BY DEF IsParsed
<1>2. Len(r.calls) \in 1..Parser.calls BY <1>1 DEF Parsed
<1>3. r.calls \in Seq(Range(r.calls)) BY InputAssumption
<1>4. DOMAIN r.calls = 1..Len(r.calls) /\ Len(r.calls) \in Nat BY <1>3, LenProperties
<1>5. DOMAIN proposals = DOMAIN r.calls /\ proposals = [j \in DOMAIN r.calls |-> proposals[j]]
    BY <1>1
<1>6. Len(proposals) = Len(r.calls) BY <1>3, <1>5, SameLength
<1>7. Len(r.calls) # 0
    <2>1. Parser.calls \in Nat BY LimitsAreNat
    <2> QED BY <1>2, <2>1
<1> QED BY <1>4, <1>5, <1>6, <1>7

\* What is known of a proposal that was parsed.
LEMMA ParsedProposal ==
    ASSUME IsParsed, NEW i \in DOMAIN proposals
    PROVE  /\ proposals[i].name \in DOMAIN surface
           /\ proposals[i].canon \in Nat
           /\ \E v : /\ IsJson(v) /\ proposals[i].arguments = Frozen(v)
                    /\ InputValid(v, surface[proposals[i].name].input, Parser)
<1>1. PICK r \in Responses :
          /\ Parsed(r) = "calls"
          /\ proposals = [j \in DOMAIN r.calls |-> Proposal(r.calls[j])]
    BY DEF IsParsed
<1>2. i \in DOMAIN r.calls /\ proposals[i] = Proposal(r.calls[i]) BY <1>1
<1>3. CallOk(r.calls, i) BY <1>1, <1>2 DEF Parsed
<1> DEFINE call == r.calls[i]
<1>4. /\ proposals[i].name = call.name /\ proposals[i].arguments = Frozen(call.arguments)
      /\ proposals[i].canon = call.canon
    BY <1>2 DEF Proposal
<1>5. call.name \in DOMAIN surface /\ InputValid(call.arguments, surface[call.name].input, Parser)
    BY <1>3 DEF CallOk
<1>6. IsJson(call.arguments) /\ call.canon \in Nat
    <2>1. call \in Range(r.calls) BY <1>2 DEF Range
    <2> QED BY <2>1, InputAssumption
<1> QED BY <1>4, <1>5, <1>6

\* Another authority accepts what was parsed, if it is of its sizes.
LEMMA SizedIsAccepted ==
    ASSUME tools \in ToolLists, IsCaptured, IsParsed, NEW i \in DOMAIN proposals, NEW lim,
           Sized(proposals[i].arguments, lim),
           SchemaDefined(surface[proposals[i].name].input, lim)
    PROVE  Accepts(proposals[i], lim)
<1>1. proposals[i].name \in DOMAIN surface BY ParsedProposal
<1>2. PICK v : /\ IsJson(v) /\ proposals[i].arguments = Frozen(v)
               /\ InputValid(v, surface[proposals[i].name].input, Parser)
    BY ParsedProposal
<1>3. PICK tool \in Range(tools) :
          IsSchema(tool.input) /\ surface[proposals[i].name].input = Normalized(tool.input)
    BY <1>1, CapturedTool DEF IsCaptured
<1>4. InputValid(Frozen(v), Normalized(tool.input), lim) BY <1>2, <1>3, ParsedWhenFrozen
<1>5. Fits(proposals[i].arguments, 0, lim) BY DEF Sized
<1> QED BY <1>1, <1>2, <1>3, <1>4, <1>5 DEF Accepts

\* What was captured passes the check of the client's own limits.
LEMMA CapturedIsDefined ==
    ASSUME tools \in ToolLists, IsCaptured, NEW name \in DOMAIN surface
    PROVE  SchemaDefined(surface[name].input, Client)
<1>1. PICK tool \in Range(tools) :
          /\ ToolOk(tool) /\ IsSchema(tool.input)
          /\ surface[name].input = Normalized(tool.input)
    BY CapturedTool DEF IsCaptured
<1>2. /\ NormalOk(tool.input) /\ SchemaFits(tool.input, 1, Client)
      /\ SchemaDefined(Normalized(tool.input), Hard)
    BY <1>1 DEF ToolOk, AdvertisedTool
<1> QED BY <1>1, <1>2, DefinedUnderClient

-----------------------------------------------------------------------------
(* The invariant holds                                                     *)

\* Nothing is captured, parsed, sent or kept at the start.
LEMMA InitContract == Init => ContractInv
    BY DEF Init, ContractInv, Calling

\* Capture keeps the surface of a list that passed, or fails.
LEMMA CaptureContract == ContractInv /\ Capture => ContractInv'
<1> SUFFICES ASSUME ContractInv, Capture PROVE ContractInv' OBVIOUS
<1>1. /\ evidence = <<>> /\ evidence' = <<>> /\ sent = 0 /\ sent' = 0
      /\ tools' = tools /\ tools \in ToolLists
    BY DEF ContractInv, Capture
<1>2. CASE SurfaceOk(tools)
    <2>1. surface' = Captured(tools) /\ pc' = "turn" BY <1>2 DEF Capture
    <2>2. IsCaptured' BY <1>1, <1>2, <2>1 DEF IsCaptured
    <2> QED BY <1>1, <2>1, <2>2 DEF ContractInv, Calling
<1>3. CASE ~SurfaceOk(tools)
    <2>1. surface' = surface /\ pc' = "failed" BY <1>3 DEF Capture
    <2>2. IsCaptured => IsCaptured' BY <1>1, <2>1 DEF IsCaptured
    <2> QED BY <1>1, <2>1, <2>2 DEF ContractInv, Calling
<1> QED BY <1>2, <1>3

\* Nothing that was captured changes while its variables do not.
LEMMA SameCaptured == UNCHANGED <<tools, surface>> => (IsCaptured <=> IsCaptured')
    BY DEF IsCaptured

\* Nothing that was parsed changes while its variables do not.
LEMMA SameParsed == UNCHANGED <<surface, proposals>> => (IsParsed <=> IsParsed')
    BY DEF IsParsed, Parsed, CallOk

\* Whether a proposal is accepted changes only with the surface.
LEMMA SameAccepted ==
    ASSUME UNCHANGED <<surface, proposals>>
    PROVE  /\ IsRejected <=> IsRejected'
           /\ \A i : Executes(proposals[i]) <=> Executes(proposals[i])'
    BY DEF IsRejected, Executes, Accepts

\* Respond proposes the calls of an answer that parsed, or ends the run.
LEMMA RespondContract ==
    ASSUME NEW r \in Responses, ContractInv, Respond(r) PROVE ContractInv'
<1>1. /\ evidence = <<>> /\ evidence' = <<>> /\ sent = 0 /\ sent' = 0
      /\ tools' = tools /\ surface' = surface /\ tools \in ToolLists /\ IsCaptured
    BY DEF ContractInv, Respond
<1>2. IsCaptured' BY <1>1, SameCaptured
<1>3. CASE Parsed(r) = "calls"
    <2>1. proposals' = [i \in DOMAIN r.calls |-> Proposal(r.calls[i])] /\ pc' = "proposed"
        BY <1>3 DEF Respond
    <2>2. Parsed(r)' = "calls" BY <1>1, <1>3 DEF Parsed, CallOk
    <2>3. IsParsed' BY <2>1, <2>2 DEF IsParsed
    <2> QED BY <1>1, <1>2, <2>1, <2>3 DEF ContractInv, Calling
<1>4. CASE Parsed(r) # "calls"
    <2>1. pc' \in {"done", "failed"} BY <1>4 DEF Respond
    <2> QED BY <1>1, <1>2, <2>1 DEF ContractInv, Calling
<1> QED BY <1>3, <1>4

\* Validate lets the whole turn through, or none of it.
LEMMA ValidateContract == ContractInv /\ Validate => ContractInv'
<1> SUFFICES ASSUME ContractInv, Validate PROVE ContractInv' OBVIOUS
<1>1. /\ evidence = <<>> /\ evidence' = <<>> /\ sent = 0 /\ sent' = 0
      /\ tools' = tools /\ surface' = surface /\ proposals' = proposals
      /\ tools \in ToolLists /\ IsCaptured /\ IsParsed
    BY DEF ContractInv, Validate, Calling
<1>2. IsCaptured' /\ IsParsed' /\ (IsRejected <=> IsRejected')
    BY <1>1, SameCaptured, SameParsed, SameAccepted
<1>3. Len(proposals) \in Nat /\ Len(proposals) # 0 BY <1>1, ProposalsCounted
<1>4. pc' = "authorize" \/ (pc' = "rejected" /\ IsRejected)
    <2>1. ~(Len(proposals) <= Orchestrator.calls) => Len(proposals) > Orchestrator.calls
        BY <1>3, LimitsAreNat
    <2> QED BY <2>1 DEF Validate, IsRejected
<1> QED BY <1>1, <1>2, <1>3, <1>4 DEF ContractInv, Calling

\* Authorize takes the next proposal of the turn, or refuses it.
LEMMA AuthorizeContract == ContractInv /\ Authorize => ContractInv'
<1> SUFFICES ASSUME ContractInv, Authorize PROVE ContractInv' OBVIOUS
<1>1. /\ evidence' = evidence /\ sent' = sent /\ tools' = tools /\ surface' = surface
      /\ proposals' = proposals /\ tools \in ToolLists /\ IsCaptured /\ IsParsed
      /\ sent \in Nat /\ sent < Len(proposals)
    BY DEF ContractInv, Authorize, Calling
<1>2. IsCaptured' /\ IsParsed' BY <1>1, SameCaptured, SameParsed
<1>3. IsKept => IsKept' BY <1>1 DEF IsKept
<1>4. evidence = <<>> \/ IsKept BY DEF ContractInv
<1>5. pc' = "execute" \/ (pc' = "refused" /\ ~Executes(proposals[sent + 1]))
    BY DEF Authorize, Executes
<1>6. pc' = "refused" => ~Executes(proposals[sent + 1])' BY <1>1, <1>5, SameAccepted
<1> HIDE DEF Authorize
<1>7. sent # 0 => sent <= Len(proposals) BY DEF ContractInv
<1> QED BY <1>1, <1>2, <1>3, <1>4, <1>5, <1>6, <1>7 DEF ContractInv, Calling

\* Execute sends the call that was authorized, or refuses it for its length.
LEMMA ExecuteContract == ContractInv /\ Execute => ContractInv'
<1> SUFFICES ASSUME ContractInv, Execute PROVE ContractInv' OBVIOUS
<1>1. /\ evidence' = evidence /\ tools' = tools /\ surface' = surface
      /\ proposals' = proposals /\ tools \in ToolLists /\ IsCaptured /\ IsParsed
      /\ sent \in Nat /\ sent < Len(proposals)
    BY DEF ContractInv, Execute, Calling
<1>2. IsCaptured' /\ IsParsed' BY <1>1, SameCaptured, SameParsed
<1>3. IsKept => IsKept' BY <1>1 DEF IsKept
<1>4. evidence = <<>> \/ IsKept BY DEF ContractInv
<1>5. Len(proposals) \in Nat BY <1>1, ProposalsCounted
<1>6. CASE Executes(proposals[sent + 1])
    <2>1. pc' = "sent" /\ sent' = sent + 1 BY <1>6 DEF Execute
    <2>2. sent' \in Nat /\ sent' # 0 /\ sent' <= Len(proposals) BY <1>1, <1>5, <2>1
    <2> QED BY <1>1, <1>2, <1>3, <1>4, <2>1, <2>2 DEF ContractInv, Calling
<1>7. CASE ~Executes(proposals[sent + 1])
    <2>1. pc' = "refused" /\ sent' = sent BY <1>7 DEF Execute
    <2>2. ~Executes(proposals[sent + 1])' BY <1>1, <1>7, <2>1, SameAccepted
    <2>3. sent # 0 => sent <= Len(proposals) BY DEF ContractInv
    <2> QED BY <1>1, <1>2, <1>3, <1>4, <2>1, <2>2, <2>3 DEF ContractInv, Calling
<1> QED BY <1>6, <1>7

\* Answer keeps a result that passed, or fails.
LEMMA AnswerContract ==
    ASSUME NEW r \in Results, ContractInv, Answer(r) PROVE ContractInv'
<1>1. /\ tools' = tools /\ surface' = surface /\ proposals' = proposals /\ sent' = sent
      /\ tools \in ToolLists /\ IsCaptured /\ IsParsed
      /\ sent \in Nat /\ sent # 0 /\ sent <= Len(proposals)
    BY DEF ContractInv, Answer, Calling
<1>2. IsCaptured' /\ IsParsed' BY <1>1, SameCaptured, SameParsed
<1>3. sent \in DOMAIN proposals BY <1>1, ProposalsCounted
<1>4. CASE ResultOk(r, surface[proposals[sent].name].output)
    <2>1. evidence' = <<[name |-> proposals[sent].name, result |-> r, kept |-> Kept(r)]>>
        BY <1>4 DEF Answer
    <2>2. IsKept' BY <1>1, <1>3, <1>4, <2>1 DEF IsKept
    <2>3. pc' = "done" \/ (pc' = "authorize" /\ sent < Len(proposals)) BY <1>4 DEF Answer
    <2> QED BY <1>1, <1>2, <2>1, <2>2, <2>3 DEF ContractInv, Calling
<1>5. CASE ~ResultOk(r, surface[proposals[sent].name].output)
    <2>1. evidence' = evidence /\ pc' = "failed" BY <1>5 DEF Answer
    <2>2. IsKept => IsKept' BY <1>1, <2>1 DEF IsKept
    <2>3. evidence = <<>> \/ IsKept BY DEF ContractInv
    <2> QED BY <1>1, <1>2, <2>1, <2>2, <2>3 DEF ContractInv, Calling
<1> QED BY <1>4, <1>5

\* A step that changes no variable keeps the invariant.
LEMMA StutterContract == ContractInv /\ UNCHANGED vars => ContractInv'
<1> SUFFICES ASSUME ContractInv, UNCHANGED vars PROVE ContractInv' OBVIOUS
<1>1. /\ pc' = pc /\ tools' = tools /\ surface' = surface
      /\ proposals' = proposals /\ sent' = sent /\ evidence' = evidence
    BY DEF vars
<1>2. (IsCaptured <=> IsCaptured') /\ (IsParsed <=> IsParsed') /\ (IsRejected <=> IsRejected')
    BY <1>1, SameCaptured, SameParsed, SameAccepted
<1>3. IsKept <=> IsKept' BY <1>1 DEF IsKept
<1>4. Executes(proposals[sent + 1]) <=> Executes(proposals[sent + 1])' BY <1>1, SameAccepted
<1> QED BY <1>1, <1>2, <1>3, <1>4 DEF ContractInv, Calling

\* Along every run, the surface is what capture_tool_surface() makes of the tools
\* that the server advertised, the proposals are what was parsed of one answer of
\* the provider under that surface, what was sent is the first of them, and the
\* evidence is what is kept of one result that passed the check of its tool.
THEOREM ContractInvariant == Spec => []ContractInv
<1>1. Init => ContractInv BY InitContract
<1>2. ContractInv /\ [Next]_vars => ContractInv'
    BY CaptureContract, RespondContract, ValidateContract, AuthorizeContract, ExecuteContract,
       AnswerContract, StutterContract
       DEF Next, Stopped
<1> QED BY <1>1, <1>2, PTL DEF Spec

-----------------------------------------------------------------------------
(* The properties                                                          *)

\* What was captured can be called: see CapturedIsUsable.
THEOREM CapturedUsable == Spec => []CapturedIsUsable
<1>1. ContractInv => CapturedIsUsable
    <2> SUFFICES ASSUME ContractInv, NEW name \in DOMAIN surface
                 PROVE  SchemaDefined(surface[name].input, Client)
        BY DEF CapturedIsUsable
    <2>1. tools \in ToolLists /\ IsCaptured BY DEF ContractInv
    <2> QED BY <2>1, CapturedIsDefined
<1> QED BY <1>1, ContractInvariant, PTL

\* The orchestrator and the client refuse what was parsed for a size only, and
\* under limits equal to the parser's the client still may, for the length of the
\* canonical form: see RefusedOnlyForSize.
THEOREM RefusalsAreSizes == Spec => []RefusedOnlyForSize
<1>1. ContractInv => RefusedOnlyForSize
    <2> SUFFICES ASSUME ContractInv PROVE RefusedOnlyForSize OBVIOUS
    <2>1. ASSUME pc = "rejected", ~(Len(proposals) > Orchestrator.calls)
          PROVE  \E p \in Range(proposals) :
                     \/ ~Sized(p.arguments, Orchestrator)
                     \/ ~SchemaDefined(surface[p.name].input, Orchestrator)
        <3>1. IsRejected /\ tools \in ToolLists /\ IsCaptured /\ IsParsed
            BY <2>1 DEF ContractInv, Calling
        <3>2. PICK i \in DOMAIN proposals : ~Accepts(proposals[i], Orchestrator)
            BY <2>1, <3>1 DEF IsRejected
        <3>3. \/ ~Sized(proposals[i].arguments, Orchestrator)
              \/ ~SchemaDefined(surface[proposals[i].name].input, Orchestrator)
            BY <3>1, <3>2, SizedIsAccepted
        <3>4. proposals[i] \in Range(proposals) BY DEF Range
        <3> QED BY <3>3, <3>4
    <2>2. ASSUME pc = "refused", Sized(proposals[sent + 1].arguments, Client)
          PROVE  proposals[sent + 1].canon > Client.argument
        <3>1. /\ tools \in ToolLists /\ IsCaptured /\ IsParsed /\ sent \in Nat
              /\ sent < Len(proposals) /\ ~Executes(proposals[sent + 1])
            BY <2>2 DEF ContractInv, Calling
        <3>2. sent + 1 \in DOMAIN proposals BY <3>1, ProposalsCounted
        <3> DEFINE p == proposals[sent + 1]
        <3>3. p.name \in DOMAIN surface /\ p.canon \in Nat BY <3>1, <3>2, ParsedProposal
        <3>4. SchemaDefined(surface[p.name].input, Client) BY <3>1, <3>3, CapturedIsDefined
        <3>5. Accepts(p, Client) BY <2>2, <3>1, <3>2, <3>4, SizedIsAccepted
        <3>6. ~(p.canon <= Client.argument) BY <3>1, <3>5 DEF Executes
        <3>7. Client.argument \in Nat BY LimitsAreNat
        <3> HIDE DEF p
        <3>8. p.canon > Client.argument BY <3>3, <3>6, <3>7
        <3> QED BY <3>8 DEF p
    <2> QED BY <2>1, <2>2 DEF RefusedOnlyForSize
<1> QED BY <1>1, ContractInvariant, PTL

\* Arguments that reach the child conform to the one schema advertised under the
\* name of the tool: see AcceptedConforms.
THEOREM AcceptedConform == Spec => []AcceptedConforms
<1>1. ContractInv => AcceptedConforms
    <2> SUFFICES ASSUME ContractInv, NEW i \in 1..sent
                 PROVE  /\ Cardinality(Advertised(proposals[i].name)) = 1
                        /\ \A tool \in Advertised(proposals[i].name) :
                               Conforms(proposals[i].arguments, tool.input)
        BY DEF AcceptedConforms
    <2>1. sent \in Nat /\ sent # 0 BY DEF ContractInv
    <2>2. IsCaptured /\ IsParsed /\ sent <= Len(proposals) /\ tools \in ToolLists
        BY <2>1 DEF ContractInv
    <2>3. i \in DOMAIN proposals BY <2>1, <2>2, ProposalsCounted
    <2>4. proposals[i].name \in DOMAIN surface BY <2>2, <2>3, ParsedProposal
    <2>5. PICK v : /\ IsJson(v) /\ proposals[i].arguments = Frozen(v)
                   /\ InputValid(v, surface[proposals[i].name].input, Parser)
        BY <2>2, <2>3, ParsedProposal
    <2>6. PICK tool \in Range(tools) :
              /\ {t \in Range(tools) : t.name = proposals[i].name} = {tool}
              /\ IsSchema(tool.input)
              /\ surface[proposals[i].name].input = Normalized(tool.input)
        BY <2>2, <2>4, CapturedTool DEF IsCaptured
    <2>7. Advertised(proposals[i].name) = {tool} BY <2>6 DEF Advertised
    <2>8. Cardinality({tool}) = 1 BY FS_Singleton
    <2>9. IsTree(v) BY <2>5 DEF IsJson
    <2>10. Conforms(v, tool.input) BY <2>5, <2>6, <2>9, AcceptedMeans
    <2>11. Conforms(Frozen(v), tool.input) BY <2>6, <2>9, <2>10, ConformsWhenFrozen
    <2> QED BY <2>5, <2>7, <2>8, <2>11
<1> QED BY <1>1, ContractInvariant, PTL

\* What the invariant says of the evidence.
LEMMA EvidenceKept ==
    ASSUME ContractInv, NEW e \in Range(evidence)
    PROVE  /\ tools \in ToolLists /\ IsCaptured
           /\ \E r \in Results :
                  /\ e = [name |-> e.name, result |-> r, kept |-> Kept(r)]
                  /\ e.name \in DOMAIN surface
                  /\ ResultOk(r, surface[e.name].output)
<1>1. evidence # <<>> BY DEF Range
<1>2. tools \in ToolLists /\ IsCaptured /\ IsParsed /\ IsKept BY <1>1 DEF ContractInv
<1>3. PICK r \in Results, i \in DOMAIN proposals :
          /\ evidence = <<[name |-> proposals[i].name, result |-> r, kept |-> Kept(r)]>>
          /\ ResultOk(r, surface[proposals[i].name].output)
    BY <1>2 DEF IsKept
<1>4. e = [name |-> proposals[i].name, result |-> r, kept |-> Kept(r)] BY <1>3 DEF Range
<1>5. proposals[i].name \in DOMAIN surface BY <1>2, ParsedProposal
<1> QED BY <1>2, <1>3, <1>4, <1>5

\* Evidence that is no error conforms to the output schema that the tool was
\* advertised with: see EvidenceConforms.
THEOREM EvidenceConform == Spec => []EvidenceConforms
<1>1. ContractInv => EvidenceConforms
    <2> SUFFICES ASSUME ContractInv, NEW e \in Range(evidence),
                        NEW tool \in Advertised(e.name),
                        tool.output # NoSchema, ~e.result.isError
                 PROVE  e.result.structured # Absent /\ Conforms(e.result.structured, tool.output)
        BY DEF EvidenceConforms
    <2>1. tools \in ToolLists /\ IsCaptured BY EvidenceKept
    <2>2. PICK r \in Results : /\ e = [name |-> e.name, result |-> r, kept |-> Kept(r)]
                              /\ e.name \in DOMAIN surface
                              /\ ResultOk(r, surface[e.name].output)
        BY EvidenceKept
    <2>3. e.result = r BY <2>2
    <2>4. PICK t \in Range(tools) :
              /\ {u \in Range(tools) : u.name = e.name} = {t}
              /\ ToolOk(t) /\ (t.output # NoSchema => IsSchema(t.output))
              /\ surface[e.name].output = CapturedOutput(t)
        BY <2>1, <2>2, CapturedTool DEF IsCaptured
    <2>5. t = tool BY <2>4 DEF Advertised
    <2>6. /\ IsSchema(tool.output) /\ OutputDefined(tool.output)
          /\ surface[e.name].output = FrozenSchema(tool.output, {})
        BY <2>4, <2>5 DEF ToolOk, CapturedOutput
    <2> DEFINE F == FrozenSchema(tool.output, {})
    <2>7. F # NoSchema
        <3>1. <<>> \in DOMAIN F BY <2>6 DEF IsSchema, FrozenSchema
        <3> QED BY <3>1 DEF NoSchema
    <2>8. ResultOk(r, F) /\ ~r.isError BY <2>2, <2>3, <2>6
    <2> HIDE DEF F
    <2>9. r.structured # Absent /\ OutputValid(Frozen(r.structured), F) BY <2>7, <2>8 DEF ResultOk
    <2>10. IsJson(r.structured) BY <2>9, InputAssumption
    <2>11. IsTree(r.structured) /\ IsTree(Frozen(r.structured)) BY <2>10, FrozenIsTree DEF IsJson
    <2>12. Conforms(Frozen(r.structured), tool.output) BY <2>6, <2>9, <2>11, ResultMeans DEF F
    <2>13. Conforms(r.structured, tool.output) BY <2>6, <2>11, <2>12, ConformsWhenFrozen
    <2> QED BY <2>3, <2>9, <2>13
<1> QED BY <1>1, ContractInvariant, PTL

\* Evidence tells nothing below a hidden name, and otherwise all but what is beyond
\* the cut of an array: see EvidenceIsRedacted.
THEOREM EvidenceRedacted == Spec => []EvidenceIsRedacted
<1>1. ContractInv => EvidenceIsRedacted
    <2> SUFFICES ASSUME ContractInv, NEW e \in Range(evidence), e.kept # Absent
                 PROVE  IsRedactionOf(Plain(e.kept), e.result.structured)
        BY DEF EvidenceIsRedacted
    <2>1. PICK r \in Results : e = [name |-> e.name, result |-> r, kept |-> Kept(r)] BY EvidenceKept
    <2>2. r.structured # Absent /\ e.kept = Frozen(RedactJson(Frozen(r.structured))) BY <2>1 DEF Kept
    <2>3. IsJson(r.structured) BY <2>2, InputAssumption
    <2> QED BY <2>1, <2>2, <2>3, RedactionTells
<1> QED BY <1>1, ContractInvariant, PTL

\* What becomes evidence is a JSON value, whole, and frozen at every level.
EvidenceIsFrozen ==
    \A e \in Range(evidence) : e.kept # Absent => IsTree(e.kept) /\ e.kept = Frozen(e.kept)

\* Redaction leaves no field or item that a node speaks of without its value, and
\* no value without a node that speaks of it; and _freeze_json() leaves no list or
\* dict of it open to change.
THEOREM EvidenceFrozen == Spec => []EvidenceIsFrozen
<1>1. ContractInv => EvidenceIsFrozen
    <2> SUFFICES ASSUME ContractInv, NEW e \in Range(evidence), e.kept # Absent
                 PROVE  IsTree(e.kept) /\ e.kept = Frozen(e.kept)
        BY DEF EvidenceIsFrozen
    <2>1. PICK r \in Results : e = [name |-> e.name, result |-> r, kept |-> Kept(r)] BY EvidenceKept
    <2> DEFINE v == r.structured
               x == RedactJson(Frozen(v))
               w == Plain(Frozen(x))
    <2>2. v # Absent /\ e.kept = Frozen(x) BY <2>1 DEF Kept
    <2>3. IsJson(v) BY <2>2, InputAssumption
    <2>4. IsTree(w) BY <2>3, KeptIsTree
    <2>5. \A p \in DOMAIN w : x[p] \in Nodes BY <2>3, KeptValue
    <2> HIDE DEF x
    <2>6. DOMAIN w = DOMAIN x BY DEF Plain, Frozen
    <2>7. \A p \in DOMAIN x : /\ WithFlag(WithFlag(WithFlag(x[p], TRUE), FALSE), TRUE) = WithFlag(x[p], TRUE)
                              /\ WithFlag(WithFlag(x[p], TRUE), TRUE) = WithFlag(x[p], TRUE)
        BY <2>5, <2>6, LastFlag, FlagOnly
    <2>8. Frozen(w) = Frozen(x) BY <2>7 DEF Plain, Frozen
    <2>9. Frozen(Frozen(x)) = Frozen(x) BY <2>7 DEF Frozen
    <2> HIDE DEF w
    <2>10. IsTree(Frozen(w)) BY <2>4, FrozenIsTree
    <2> QED BY <2>2, <2>8, <2>9, <2>10
<1> QED BY <1>1, ContractInvariant, PTL

=============================================================================
