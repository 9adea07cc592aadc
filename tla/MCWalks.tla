------------------------------ MODULE MCWalks ------------------------------
(* Small instances of Walks for TLC.                                        *)
EXTENDS Walks, TLC

Missing == Node("missing", "-")

\* {a: {x: v, y: w}, b: {x: u, y: 1}, c: t}, or with b a list: leaves, missing
\* values, and interpolations of the containers, of each other, of an item,
\* from above or beside them, and of nothing.
AllConfigs ==
    {(<<>> :> EmptyDict) @@ (<<"a">> :> EmptyDict) @@ (<<"b">> :> EmptyDict)
        @@ (<<"a", "x">> :> v) @@ (<<"a", "y">> :> w)
        @@ (<<"b", "x">> :> u) @@ (<<"b", "y">> :> Leaf(1)) @@ (<<"c">> :> t) :
     v \in {Link(<<"b">>), Link(<<"b", "x">>), Relative(1, <<"y">>), Relative(2, <<"c">>)},
     w \in {Leaf(1), Missing, Link(<<"c">>)},
     u \in {Leaf(2), Missing, Link(<<"a">>), Relative(2, <<"a", "y">>)},
     t \in {Leaf(1), Link(<<"a">>), Link(<<"b">>), Link(<<"a", "x">>), Relative(2, <<"b">>)}}
    \cup
    {(<<>> :> EmptyDict) @@ (<<"a">> :> n) @@ (<<"b">> :> Node("list", "-"))
        @@ (<<"b", "0">> :> u) @@ (<<"b", "1">> :> Leaf(1)) @@ (<<"c">> :> t) :
     n \in {EmptyDict, Node("none", "-"), [EmptyDict EXCEPT !.readonly = "true"]},
     u \in {Link(<<"a">>), Link(<<"c">>), Relative(1, <<"1">>), Relative(1, <<"x">>)},
     t \in {Link(<<"a">>), Link(<<"b">>), Link(<<"b", "0">>), Leaf(1)}}
    \cup
    {(<<>> :> [EmptyDict EXCEPT !.readonly = "true"]) @@ (<<"a">> :> EmptyDict)
        @@ (<<"a", "x">> :> Relative(2, <<"b">>)) @@ (<<"b">> :> t) :
     t \in {Leaf(1), EmptyDict}}

Indices == ("0" :> 0) @@ ("1" :> 1)

AllRepairs == {<<"b", "x">>}

AllMasks == {{"a", "b"}}
=============================================================================
