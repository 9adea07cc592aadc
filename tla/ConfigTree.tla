----------------------------- MODULE ConfigTree -----------------------------
(***************************************************************************)
(* A config as a tree: a function from the paths of its nodes to the nodes. *)
(* A path is a sequence of keys, <<>> the root; lists have indices as keys. *)
(* Reading it: the child of a container, the inherited flags and the node   *)
(* an interpolation refers to.  PathUpdate and Walks are about such trees.  *)
(***************************************************************************)
EXTENDS Integers, FiniteSets, SequencesExt

CONSTANTS
    Position,   \* the keys that read as an index, with the index
    NoPath      \* the path of no node

Node(kind, arg) == [kind |-> kind, arg |-> arg, struct |-> "unset", readonly |-> "unset"]
EmptyDict == Node("dict", "-")
Leaf(v)   == Node("leaf", v)

\* An interpolation of one node: of a path from the root, or with dots before
\* it from the container of the interpolation (one dot) or one above.
Link(path)         == Node("link", [dots |-> 0, keys |-> path])
Relative(dots, path) == Node("link", [dots |-> dots, keys |-> path])

ContainerKinds == {"dict", "list", "none"}  \* "none": a DictConfig that is None
IsContainer(n) == n.kind \in ContainerKinds

Has(c, p) == p \in DOMAIN c
IsBelow(p, q) == IsStrictPrefix(p, q)
Items(c, p) == {q \in DOMAIN c : q # <<>> /\ Front(q) = p}
Keys(c, p) == {Last(q) : q \in Items(c, p)}

\* Config c with what is at p replaced by the tree of nodes "sub".
Graft(c, p, sub) ==
    LET kept == {q \in DOMAIN c : q # p /\ ~IsBelow(p, q)}
        new  == {p \o q : q \in DOMAIN sub}
    IN  [q \in kept \cup new |-> IF q \in kept THEN c[q] ELSE sub[SubSeq(q, Len(p) + 1, Len(q))]]

\* The tree of nodes at p.
Below(c, p) ==
    [q \in {SubSeq(s, Len(p) + 1, Len(s)) : s \in {t \in DOMAIN c : IsPrefix(p, t)}} |-> c[p \o q]]

\* A flag is set on the node, or else inherited.
Flag(c, p, f) ==
    LET set == {i \in 0..Len(p) : c[SubSeq(p, 1, i)][f] # "unset"}
    IN  set # {} /\ c[SubSeq(p, 1, Max(set))][f] = "true"

\* _select_one: the child of the container at p, or NoPath.  A key that is no
\* index raises on a list (BadIndex).
Child(c, p, k) ==
    IF c[p].kind = "dict" /\ Has(c, Append(p, k)) THEN Append(p, k)
    ELSE IF /\ c[p].kind = "list" /\ k \in DOMAIN Position
            /\ \E q \in Items(c, p) : Position[Last(q)] = Position[k]
         THEN CHOOSE q \in Items(c, p) : Position[Last(q)] = Position[k]
    ELSE NoPath

BadIndex(c, p, k) == c[p].kind = "list" /\ k \notin DOMAIN Position

-----------------------------------------------------------------------------
(* Interpolations.                                                          *)

\* _resolve_key_and_root: the container the keys of the interpolation at p
\* start from; a dot too many raises.
StartOf(c, p) ==
    LET dots == c[p].arg.dots
    IN  IF dots = 0 THEN <<>>
        ELSE IF dots > Len(p) THEN NoPath
        ELSE SubSeq(p, 1, Len(p) - dots)

\* _dereference_node: the node the interpolation at p refers to, through the
\* interpolations met on the way, or NoPath if that raises: because a node is
\* not there or missing (which is told apart), the chain comes back to one of
\* its own interpolations (memo), or the target holds the interpolation.
Deref(c, p) ==
    LET links == Cardinality({q \in DOMAIN c : c[q].kind = "link"})
        to[n \in 0..links, q \in DOMAIN c] ==
            LET Nowhere == [at |-> NoPath, missing |-> FALSE]
                Step(r, k) ==
                    LET child == IF r.at = NoPath \/ ~IsContainer(c[r.at]) THEN NoPath
                                 ELSE Child(c, r.at, k)
                    IN  IF child = NoPath THEN [r EXCEPT !.at = NoPath]
                        ELSE IF c[child].kind = "missing" THEN [at |-> NoPath, missing |-> TRUE]
                        ELSE IF c[child].kind = "link" THEN to[n - 1, child]
                        ELSE [r EXCEPT !.at = child]
                end == IF n = 0 THEN Nowhere
                       ELSE FoldLeft(Step, [Nowhere EXCEPT !.at = StartOf(c, q)], c[q].arg.keys)
            IN  IF end.at # NoPath /\ IsPrefix(end.at, q) THEN Nowhere ELSE end
    IN  to[links, p]
=============================================================================
