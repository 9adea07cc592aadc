---------------------------- MODULE MCPathUpdate ----------------------------
(* Small instances of PathUpdate for TLC.                                   *)
EXTENDS PathUpdate, TLC

A == <<"a">>
B == <<"b">>
Zero == <<"0">>

Root == <<>> :> EmptyDict

\* Dicts in dicts, a list, interpolations of a container, of a leaf, through
\* another one, of each other and of nothing, a missing value, a None dict.
AllConfigs == {
    Root,
    Root @@ (<<A>> :> Leaf(1)) @@ (<<B>> :> Node("missing", "-")),
    Root @@ (<<A>> :> EmptyDict) @@ (<<A, B>> :> Leaf(1)),
    Root @@ (<<A>> :> Node("list", "-")) @@ (<<A, Zero>> :> Leaf(1)),
    Root @@ (<<A>> :> Node("none", "-")),
    Root @@ (<<A>> :> Link(<<B>>)) @@ (<<B>> :> EmptyDict) @@ (<<B, A>> :> Leaf(1)),
    Root @@ (<<A>> :> Link(<<B, A>>)) @@ (<<B>> :> EmptyDict) @@ (<<B, A>> :> Link(<<B, B>>))
         @@ (<<B, B>> :> EmptyDict),
    Root @@ (<<A>> :> Link(<<B>>)) @@ (<<B>> :> Link(<<A>>)),
    Root @@ (<<A>> :> Link(<<B>>))}

\* a, a.b, a[b], [a].a.b, a[0], b.a, a.b.a, a\.b, [a
AllTexts == {
    <<"a">>, <<"a", ".", "b">>, <<"a", "[", "b", "]">>, <<"[", "a", "]", ".", "a", ".", "b">>,
    <<"a", "[", "0", "]">>, <<"b", ".", "a">>, <<"a", ".", "b", ".", "a">>,
    <<"a", "\\", ".", "b">>, <<"[", "a">>}

AllValues == {Scalar(2), Mapping(<<>>), Mapping(A :> 2)}

Indices == Zero :> 0 @@ <<"1">> :> 1

AllFlagged == {<<>>, <<A>>}

\* Keys with a dot, brackets, "=", and backslashes that escape nothing.
AllKeyTexts == {<<"x">>, <<"x", "y">>, <<".">>, <<"x", "[", "0", "]">>, <<"\\", "x">>,
                <<"\\", ".">>, <<"=">>, <<"]", "x">>, <<"0">>}

View == cfg
=============================================================================
