---------------------------- MODULE MCToolContracts ----------------------------
(* Schemas, arguments and results that meet every keyword, every limit and *)
(* its edge, nesting in objects and arrays, and unions of types.           *)
EXTENDS ContractProperties

\* The tree of a node and of what each step from it leads to.
Tree(node, kids) ==
    [p \in {<<>>} \cup UNION {{<<step>> \o q : q \in DOMAIN kids[step]} : step \in DOMAIN kids} |->
        IF p = <<>> THEN node ELSE kids[Head(p)][Tail(p)]]

Named(fields) == [step \in {"object"} \X DOMAIN fields |-> fields[step[2]]]

Scalar(t, v) == Tree([t |-> t, v |-> v], <<>>)
Num(v) == Scalar("integer", v)
Str(v) == Scalar("string", v)
Null == Scalar("null", 0)
Arr(elems) ==
    Tree([t |-> "array", frozen |-> FALSE, len |-> Len(elems)],
         [step \in {"array"} \X DOMAIN elems |-> elems[step[2]]])
Obj(fields) == Tree([t |-> "object", frozen |-> FALSE, fields |-> DOMAIN fields], Named(fields))

\* Schemas: of scalars, of arrays of s, and of objects with the given properties.
Plainly(k) == Tree(k, <<>>)
ArrayOf(s, k) == Tree([type |-> "array", items |-> TRUE] @@ k, [step \in {Items} |-> s])
ObjectOf(properties, k) ==
    Tree([type |-> "object", properties |-> DOMAIN properties] @@ k, Named(properties))

\* The parser is the laxest of the three, each of the others strict in its way.
MCClient == [depth |-> 6, items |-> 3, text |-> 3, argument |-> 2, response |-> 3,
             tools |-> 2, calls |-> 2, evidenceItems |-> 4, evidenceText |-> 4]
MCParser == [MCClient EXCEPT !.items = 4, !.argument = 3, !.calls = 3]
MCOrchestrator == [MCClient EXCEPT !.items = 2, !.argument = 3]
MCHard == [MCClient EXCEPT !.depth = 9, !.items = 4, !.text = 4, !.argument = 4, !.calls = 3]
MCLow == -2
MCRedaction == [items |-> 2, text |-> 3, mask |-> 2]

\* Schemas of one field, good and bad.
Leaves == {Plainly(k) : k \in {
    [type |-> "integer", minimum |-> 0, maximum |-> 1],
    [type |-> "number", maximum |-> 1, description |-> 0],
    [type |-> "string", minLength |-> 1],
    [type |-> "string", maxLength |-> 3],
    [type |-> "boolean"],
    [type |-> "null"],
    [type |-> "integer", enum |-> <<Num(1), Num(2)>>],
    [type |-> "integer", enum |-> <<Num(0), Num(1), Num(2)>>],
    [type |-> "integer", enum |-> <<Num(-1), Num(0), Num(1), Num(2)>>],
    [type |-> "integer", minimum |-> 2, maximum |-> 1],
    [type |-> "boolean", minimum |-> 0],
    [type |-> "string", pattern |-> 0],
    [title |-> 0] }}
    \cup {ArrayOf(Plainly([type |-> "integer"]), [enum |-> <<Arr(<<Num(1)>>)>>])}

\* Those schemas, in an array, and one object further down.
Fields == Leaves \cup {ArrayOf(s, <<>>) : s \in Leaves}
                 \cup {ObjectOf([b |-> s], [required |-> <<"b">>]) : s \in Leaves}

Deep(s) == ObjectOf([a |-> s], <<>>)
Integer == Plainly([type |-> "integer"])
Boolean == Plainly([type |-> "boolean"])

\* An object whose items nobody looks at.
Stray ==
    Tree([type |-> "object", properties |-> {"a"}, items |-> TRUE],
         Named([a |-> Integer]) @@ [step \in {Items} |-> Plainly([title |-> 0])])

Inputs == {ObjectOf([a |-> s], [required |-> <<"a">>]) : s \in Fields}
          \cup {ObjectOf([a |-> Integer, b |-> Boolean],
                         [required |-> req, additionalProperties |-> add]) :
                    req \in {<<"a">>, <<"a", "a">>, <<"c">>, <<>>}, add \in BOOLEAN}
          \cup {Deep(Deep(Integer)), Deep(Deep(Deep(Integer))), Stray}

Out(properties) == ObjectOf(properties, [additionalProperties |-> FALSE])

Outputs == {
    ObjectOf([r |-> Plainly([types |-> <<"null", "integer", "string">>, minimum |-> 0,
                             maximum |-> 1, maxLength |-> 2])],
             [additionalProperties |-> FALSE, required |-> <<"r">>]),
    Out([r |-> ArrayOf(Plainly([type |-> "integer", enum |-> <<Num(0), Num(1)>>]),
                       [maxItems |-> 3])]),
    Out([r |-> ArrayOf(Integer, [maxItems |-> 1, enum |-> <<Arr(<<Num(1)>>), Arr(<<>>)>>])]),
    Out([r |-> ArrayOf(Integer, [maxItems |-> 4])]),
    Out([r |-> ArrayOf(Integer, [maxItems |-> 5])]),
    ObjectOf([pid |-> Integer], [additionalProperties |-> FALSE, required |-> <<"pid">>]),
    ObjectOf(<<>>, <<>>) }

Tool(name, input, output) ==
    [name |-> name, fields |-> "closed", input |-> input, output |-> output]
Plainest == Deep(Integer)

MCToolLists ==
    {<<Tool("f", s, NoSchema)>> : s \in Inputs}
    \cup {<<Tool("f", Plainest, NoSchema), Tool(name, s, out)>> :
              name \in {"f", "g"}, s \in {Plainest, Deep(Boolean)},
              out \in Outputs \cup {NoSchema}}
    \cup {<<[Tool("f", Plainest, NoSchema) EXCEPT !.fields = "open"]>>}
    \cup {[i \in 1..3 |-> Tool(<<"f", "g", "h">>[i], Plainest, NoSchema)]}

Scalars == {Num(v) : v \in -1..2} \cup {Str(v) : v \in {0, 2, 3}}
           \cup {Scalar("boolean", 1), Scalar("float", 1), Null}
Values == Scalars \cup {Arr(<<>>), Arr(<<Num(1)>>), Arr(<<Scalar("boolean", 1)>>), Arr(<<Num(1), Str(1)>>),
                        Arr(<<Num(0), Num(1), Num(1)>>), Arr([i \in 1..4 |-> Num(1)]), Obj(<<>>)}
                  \cup {Obj([b |-> v]) : v \in {Num(1), Num(2), Null, Arr(<<Num(1)>>)}}

Arguments == {Obj([a |-> v]) : v \in Values}
             \cup {Obj(<<>>), Obj([a |-> Num(1), c |-> Null]), Num(1),
                   Obj([a |-> Num(1), b |-> Scalar("boolean", 1)]),
                   Obj([a |-> Obj([a |-> Obj([a |-> Num(1)])])])}

Call(id, name, args) == [type |-> "function", id |-> id, name |-> name, arguments |-> args,
                         text |-> 1, canon |-> 1]
Closed(calls) == [shape |-> "closed", text |-> FALSE, calls |-> calls]
SomeArguments == Obj([a |-> Num(1)])

\* Texts and canonical forms at and beyond each limit, one longer than the other.
Sizes == {<<3, 2>>, <<4, 2>>, <<3, 3>>, <<2, 4>>, <<2, 5>>}
Long(size) ==
    [Call("call-1", "f", SomeArguments) EXCEPT !.text = size[1], !.canon = size[2]]

MCResponses ==
    {Closed(<<Call("call-1", "f", args)>>) : args \in Arguments}
    \cup {Closed(<<Call(id, "f", SomeArguments), Call("call-1", name, args)>>) :
              id \in {"call-1", "legacy", "unowned"}, name \in {"f", "g"},
              args \in {SomeArguments, Obj([a |-> Scalar("boolean", 1)]), Obj(<<>>)}}
    \cup {Closed(<<Long(size)>>) : size \in Sizes}
    \cup {Closed(<<Call("call-2", "f", SomeArguments), Long(<<2, 3>>)>>)}
    \cup {Closed(<<Call("call-1", "g", SomeArguments)>>), Closed(<<>>),
          Closed([i \in 1..3 |-> Call(<<"call-1", "call-2", "legacy">>[i], "f", SomeArguments)]),
          [Closed(<<>>) EXCEPT !.text = TRUE],
          [Closed(<<Call("call-1", "f", SomeArguments)>>) EXCEPT !.text = TRUE],
          [Closed(<<Call("call-1", "f", SomeArguments)>>) EXCEPT !.shape = "open"],
          Closed(<<[Call("call-1", "f", SomeArguments) EXCEPT !.type = "other"]>>)}

Nested(v) == Obj([r |-> Arr(<<Obj([b |-> Arr(<<v>>)])>>)])

\* Fields to hide at the top, in arrays, under one another, and one that hides
\* the level too many.
Sensitive == {
    Obj([pid |-> Num(1)]), Obj([pid |-> Arr(<<Num(1)>>), r |-> Str(4)]),
    Nested(Obj([pid |-> Str(3)])), Nested(Num(1)), Nested(Obj([pid |-> Arr(<<>>)])),
    Nested(Obj([r |-> Null])), Obj([r |-> Arr([i \in 1..3 |-> Obj([pid |-> Num(i)])])]) }

MCResults ==
    {[content |-> "text", structured |-> s, isError |-> e] :
        s \in {Obj([r |-> v]) : v \in Values} \cup Sensitive \cup {Obj(<<>>), Absent, Num(1)},
        e \in BOOLEAN}
    \cup {[content |-> "image", structured |-> Absent, isError |-> FALSE]}
=============================================================================
