---------------------------- MODULE MCTypedValues ----------------------------
(***************************************************************************)
(* Fields of every kind of hint, and values that fit several of them.       *)
(***************************************************************************)
EXTENDS TypedValues

Str(s) == V("str", s)
I(s) == V("int", s)
F(hint)   == [hint |-> hint, optional |-> FALSE]
Opt(hint) == [hint |-> hint, optional |-> TRUE]
L(t) == LeafHint(t)

MCFields ==
    {F(L(t)) : t \in {"Any", "str", "int", "float", "bool", "path", "bytes", "literal"}}
    \cup {Opt(L("enum")),
          Opt(TupleHint(<<"int", "str">>)), F(VariadicHint("bool")),
          Opt(UnionHint(<<L("int"), L("bool"), L("literal")>>)),
          F(UnionHint(<<L("str"), L("enum"), VariadicHint("int")>>)),
          F(UnionHint(<<ListHint("int"), ListHint("str"), VariadicHint("int")>>)),
          F(UnionHint(<<DictHint("int"), DictHint("str"), L("float")>>)),
          F(UnionHint(<<ClassHint("A"), DictHint("int")>>)),
          F(UnionHint(<<ClassHint("A"), ClassHint("B")>>)),
          Opt(UnionHint(<<ClassHint("B"), L("int")>>))}

\* class A: n: str, k: int      class A2(A): m: bool      class B: n: str
MCClassFields == [A  |-> [n |-> "str", k |-> "int"],
                  A2 |-> [n |-> "str", k |-> "int", m |-> "bool"],
                  B  |-> [n |-> "str"]]
MCBases == [A |-> <<"A">>, A2 |-> <<"A2", "A">>, B |-> <<"B">>]

MCLiterals == {Str("a"), I("1")}
MCIntOf   == [x \in {"1", "0"} |-> x]
MCFloatOf == ("1" :> "1.0") @@ ("1.0" :> "1.0") @@ ("0" :> "0.0") @@ ("0.0" :> "0.0")
MCBoolOf  == [on |-> "True", off |-> "False"]
MCEnumOf  == (Str("RED") :> "Color.RED") @@ (I("1") :> "Color.RED")

Scalars == {None, Missing, V("inter", "${x}"), Str("a"), Str("1"), Str("on"), Str("RED"),
            I("1"), I("0"), V("float", "1.0"), V("bool", "True"), V("enum", "Color.RED"),
            V("path", "a"), V("bytes", "b")}
Lists == {<<>>, <<I("1")>>, <<Str("1")>>, <<V("bool", "True")>>, <<Missing>>,
          <<I("1"), Str("1")>>, <<I("1"), None>>}
Dicts == {<<>>, [n |-> I("1")], [n |-> Str("a")], [k |-> Str("1")], [m |-> Str("on")],
          [n |-> None]}
MCInputs ==
    Scalars
    \cup {Plain(py, items) : py \in Sequences, items \in Lists}
    \cup {Typed("list", ListHint("str"), <<>>), Typed("list", ListHint("int"), <<I("1")>>),
          Plain("tuple", <<[py |-> "config", v |-> "[1]"], Str("1")>>),
          Typed("tuple", VariadicHint("int"), <<>>), Typed("list", ListHint("bool"), <<>>)}
    \cup {Plain("dict", items) : items \in Dicts}
    \cup {Typed("dict", DictHint("str"), <<>>), Typed("dict", DictHint("int"), [n |-> I("0")])}
    \cup {Object("A", NoHint, [n |-> Str("a"), k |-> Missing]),
          Object("B", NoHint, [n |-> V("inter", "${x}")]),
          Object("A2", NoHint, [n |-> Str("a"), k |-> I("0"), m |-> V("bool", "True")])}

MCEntries == {Missing, Str("1"), Str("a"), I("0"), V("float", "1.0")}
MCResults == {v \in Scalars : v.py \notin {"inter", "missing"}}
=============================================================================
