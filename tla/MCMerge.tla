------------------------------ MODULE MCMerge ------------------------------
(* Merge on small configs: values "one" and "two" are ints, "bad" is not.   *)
EXTENDS Merge, TLC

View == cfg

Flagged(n, ro, st) == [n EXCEPT !.ro = ro, !.st = st]
Untyped(m) == Dict("Any", TRUE, "dict", Entries(m))
Empty(c) == Dict("Any", TRUE, "none", c)
X(c) == "x" :> AnyLeaf(c)
Y(c) == "y" :> AnyLeaf(c)
One == Plain("one")
Two == Plain("two")
Bad == Plain("bad")

Leaves == {AnyLeaf(c) : c \in {One, None, Missing, Interp("b")}}
Dicts == {Untyped(<<>>), Untyped(X(Two)), Untyped(X(Missing)), Untyped(X(Two) @@ Y(Bad)),
          Untyped(X(Bad) @@ Y(Two)), Untyped(X(None)),
          Flagged(Untyped(X(Two)), "off", "unset"), Flagged(Untyped(Y(One)), "on", "on")}
Lists == {List("Any", TRUE, Items(<<>>)), List("Any", TRUE, Items(<<"two">>)),
          List("Any", TRUE, Items(<<"two", "bad">>)),
          Flagged(List("Any", TRUE, Items(<<"two">>)), "on", "unset")}
Special == {Empty(None), Empty(Missing), Empty(Interp("b")),
            List("Any", TRUE, None), List("Any", TRUE, Interp("b"))}

At(k, nodes) == {k :> n : n \in nodes}
Both(k, nodes, l, others) == {(k :> n) @@ (l :> o) : n \in nodes, o \in others}

\* Untyped: what a key holds, and what it refers to.
PlainConfigs == {Untyped(m) : m \in {"b" :> Untyped(X(One))} \cup
                    Both("a", {AnyLeaf(Interp("b")), Untyped(X(One)), Empty(Missing)},
                         "b", {Untyped(X(One)), AnyLeaf(One)})}
PlainSources ==
    {Untyped(m) : m \in At("a", Leaves \cup (Dicts \ {Untyped(X(Bad) @@ Y(Two))}) \cup Lists \cup Special)
                        \cup Both("a", {Untyped(X(Two)), AnyLeaf(Missing)},
                                  "b", {Untyped(Y(Two)), AnyLeaf(Two), List("Any", TRUE, Items(<<>>))})}
        \cup {Flagged(Untyped("a" :> AnyLeaf(Two)), ro, st) : ro, st \in {"on", "off"}}

\* A structured config with fields n: int, sub: Optional[Sub] and l: List[int].
Sub(opt, c) == Dict("Sub", opt, IF c.k = "map" THEN "Sub" ELSE "none", c)
Structured(n, sub, l) ==
    Dict("Any", TRUE, "Config", Entries(("n" :> n) @@ ("sub" :> sub) @@ ("l" :> l)))
TypedConfigs ==
    {Structured(Leaf("int", FALSE, One), sub, List("ints", TRUE, Items(<<"one">>))) :
        sub \in {Sub(TRUE, None), Sub(FALSE, Missing)}}
TypedSources ==
    {Untyped(m) : m \in At("n", {AnyLeaf(Two), AnyLeaf(None), Untyped(<<>>)})
                        \cup At("sub", Dicts \cup {Empty(None), AnyLeaf(Missing), AnyLeaf(Interp("n"))})
                        \cup At("l", Lists \cup {AnyLeaf(None), AnyLeaf(Bad), List("Any", TRUE, None)})
                        \cup Both("n", {AnyLeaf(Two), AnyLeaf(Bad)},
                                  "sub", {Untyped(X(Two)), Untyped(X(Bad))})
                        \cup At("b", {AnyLeaf(One)})}
        \cup {Flagged(Untyped("n" :> AnyLeaf(Two)), "on", "off")}

\* A structured config in which a refers to b by way of a typed field n.
LinkedConfigs ==
    {Dict("Any", TRUE, "Linked",
          Entries(("a" :> AnyLeaf(Interp("n"))) @@ ("n" :> Leaf("int", TRUE, Interp("b")))
                    @@ ("b" :> b))) : b \in {Empty(None), Untyped(X(One))}}
LinkedSources ==
    {Untyped(m) : m \in At("a", {Untyped(<<>>), Untyped(X(Two)), AnyLeaf(One)})
                        \cup At("n", {Untyped(<<>>), AnyLeaf(Interp("b"))})
                        \cup Both("a", {Untyped(<<>>)}, "b", {Untyped(Y(One)), Empty(None)})}

\* All together.
AllConfigs == PlainConfigs \cup TypedConfigs \cup LinkedConfigs
SourcesFor(obj) == CASE obj = "dict"   -> PlainSources
                     [] obj = "Config" -> TypedSources
                     [] obj = "Linked" -> LinkedSources

\* A field that is None, and what is merged over it.
NoneConfigs == {Structured(Leaf("int", TRUE, One), Sub(TRUE, None), List("ints", TRUE, Items(<<>>)))}
NoneSources(obj) == {Untyped("sub" :> Untyped(m)) : m \in {<<>>, X(Two)}}
=============================================================================
