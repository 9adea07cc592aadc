-------------------------- MODULE MCInterpolation --------------------------
(* The tree {a, b: {x}, c: {y}}, where b and c may also hold values.  Paths  *)
(* are absolute, from the container of the interpolation or from the one    *)
(* around it; strings repeat a path, mix two of them or add a literal part. *)
EXTENDS Interpolation

TheNodes  == {"root", "a", "b", "c", "x", "y"}
TheParent == [n \in {"a", "b", "c", "x", "y"} |->
                 CASE n = "x" -> "b" [] n = "y" -> "c" [] OTHER -> "root"]
TheName   == [n \in {"a", "b", "c", "x", "y"} |-> n]

Value(kind)  == [kind |-> kind, pieces |-> <<>>]
Abs(path)    == [up |-> 0, path |-> path]
Rel(up, p)   == [up |-> up, path |-> p]
Lit          == [up |-> 0, path |-> <<>>]
Inter(ps)    == [kind |-> "interp", pieces |-> ps]

Values == {Value("plain"), Value("missing")}

Build(as, bs, cs, xs, ys) ==
    {[n \in TheNodes |->
        CASE n = "root" -> Value("box")
          [] n = "a" -> k[1] [] n = "b" -> k[2] [] n = "c" -> k[3]
          [] n = "x" -> IF k[2].kind = "box" THEN k[4] ELSE Value("absent")
          [] n = "y" -> IF k[3].kind = "box" THEN k[5] ELSE Value("absent")]
     : k \in as \X bs \X cs \X xs \X ys}

One(paths) == {Inter(<<p>>) : p \in paths}

\* Every cycle of these passes the last key of a path.
Straight == Build(
    Values \cup One({Abs(<<"a">>), Abs(<<"b">>), Abs(<<"b", "x">>), Abs(<<"c", "y">>)})
        \cup {Inter(<<Lit, Abs(<<"c", "y">>)>>), Inter(<<Abs(<<"b", "x">>), Abs(<<"b", "x">>)>>)},
    {Value("box")},
    {Value("box")} \cup One({Abs(<<"a">>)}),
    Values \cup One({Abs(<<"a">>), Abs(<<"b">>), Abs(<<"c">>), Abs(<<"c", "y">>),
                     Rel(1, <<"x">>), Rel(2, <<"a">>), Rel(3, <<"a">>)})
        \cup {Inter(<<Rel(2, <<"c">>), Abs(<<"a">>)>>)},
    {Value("plain")} \cup One({Abs(<<"a">>), Abs(<<"b", "x">>), Rel(1, <<"y">>)})
        \cup {Inter(<<Abs(<<"a">>), Abs(<<"b", "x">>)>>)})

\* Paths that may go through interpolations.
Aliased == Build(
    {Value("plain")} \cup One({Abs(<<"b">>), Abs(<<"b", "x">>), Abs(<<"c", "y">>)})
        \cup {Inter(<<Abs(<<"c", "x">>), Abs(<<"c", "x">>)>>)},
    {Value("plain"), Value("box")}
        \cup One({Abs(<<"c">>), Abs(<<"a", "x">>), Abs(<<"c", "y">>)}),
    {Value("missing"), Value("box")} \cup One({Abs(<<"b">>), Abs(<<"b", "x">>)}),
    {Value("plain")} \cup One({Rel(2, <<"a">>), Abs(<<"c">>), Abs(<<"a", "y">>)})
        \cup {Inter(<<Abs(<<"c", "y">>), Lit>>)},
    {Value("plain")} \cup One({Abs(<<"b">>), Rel(1, <<"y">>), Abs(<<"b", "y">>)}))

AllConfigs == Straight \cup Aliased
=============================================================================
