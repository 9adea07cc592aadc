---------------------------- MODULE YamlAliases -----------------------------
(***************************************************************************)
(* Loading a YAML document with aliases: OmegaConfLoader (_yaml.py).        *)
(*                                                                          *)
(* PyYAML composes a graph of nodes; an alias is one more reference to a    *)
(* node.  The loader walks the graph three times (is it recursive, how many *)
(* nodes has it when the aliases are written out, and how many as it is)    *)
(* and then constructs the objects, breadth first.  Merge keys "<<" are     *)
(* replaced in the nodes themselves, so a mapping that is both a value and  *)
(* merged into another one is flattened twice.                              *)
(*                                                                          *)
(* The nodes are numbered in the order they are completed: a child has a    *)
(* smaller number, but for an alias to the document itself, which is 0.     *)
(***************************************************************************)
EXTENDS Integers, FiniteSets, SequencesExt

CONSTANTS
    Keys,       \* the keys of mappings
    StrKeys,    \* those that are strings
    MergeKey,   \* "<<"
    MaxNodes,   \* bound: nodes of a document but for keys
    MaxItems,   \* bound: items of a sequence, pairs of a mapping
    Limits,     \* the values of max_yaml_expanded_nodes
    NoLimit,    \* its value None
    _MIN_YAML_ALIAS_EXPANSION_RATIO_NODES,
    _MAX_YAML_ALIAS_EXPANSION_RATIO

ASSUME YamlAssumption ==
    StrKeys \subseteq Keys /\ MergeKey \notin Keys /\ \A l \in Limits \ {NoLimit} : l \in Nat \ {0}

VARIABLES
    source,     \* the document as it was composed
    doc,        \* ... and as it is
    limit,      \* max_yaml_expanded_nodes
    outcome,    \* "composing", "constructing", or how the load ended
    todo,       \* the generators of construct_document, in order
    built       \* constructed_objects: what each mapping has under its keys

vars == <<source, doc, limit, outcome, todo, built>>

Scalar == [is |-> "scalar", value |-> <<>>]
Root(d) == Len(d)
At(d, n) == IF n = 0 THEN Root(d) ELSE n

\* n.value: the items, or the keys and values, of a node; a key counts as one
\* node and has none.
Key == -1
Value(d, n) ==
    IF d[n].is = "map" THEN FlattenSeq([i \in DOMAIN d[n].value |-> <<Key, At(d, d[n].value[i].node)>>])
    ELSE [i \in DOMAIN d[n].value |-> At(d, d[n].value[i])]

-----------------------------------------------------------------------------
(* The three walks.                                                         *)

RECURSIVE visit(_, _, _)
visit(d, w, n) ==
    IF w.raised \/ n = Key \/ n \in w.seen THEN w
    ELSE IF n \in w.visiting THEN [w EXCEPT !.raised = TRUE]
    ELSE LET below == FoldLeft(LAMBDA x, child : visit(d, x, child),
                               [w EXCEPT !.visiting = @ \cup {n}], Value(d, n))
         IN  [below EXCEPT !.visiting = @ \ {n}, !.seen = @ \cup {n}]

_reject_recursive_aliases(d) ==
    visit(d, [seen |-> {}, visiting |-> {}, raised |-> FALSE], Root(d)).raised

RECURSIVE unique(_, _, _)
unique(d, w, n) ==
    IF n = Key THEN [w EXCEPT !.total = @ + 1]
    ELSE IF n \in w.seen THEN w
    ELSE FoldLeft(LAMBDA x, child : unique(d, x, child),
                  [seen |-> w.seen \cup {n}, total |-> w.total + 1], Value(d, n))

_unique_node_count(d) == unique(d, [seen |-> {}, total |-> 0], Root(d)).total

\* Mutant of count: it stops one node too early.
RECURSIVE count_early(_, _, _, _)
count_early(d, max, memo, n) ==
    IF n = Key THEN [total |-> 1, memo |-> memo]
    ELSE IF n \in DOMAIN memo THEN [total |-> memo[n], memo |-> memo]
    ELSE LET add(x, child) ==
                 IF x.total >= max THEN x
                 ELSE LET c == count_early(d, max, x.memo, child)
                      IN  [total |-> x.total + c.total, memo |-> c.memo]
             end == FoldLeft(add, [total |-> 1, memo |-> memo], Value(d, n))
         IN  [end EXCEPT !.memo = (n :> end.total) @@ @]

\* count(n), with the memo: stops as soon as the total is over the limit, and
\* remembers the total it stopped at.
RECURSIVE count(_, _, _, _)
count(d, max, memo, n) ==
    IF n = Key THEN [total |-> 1, memo |-> memo]
    ELSE IF n \in DOMAIN memo THEN [total |-> memo[n], memo |-> memo]
    ELSE LET add(x, child) ==
                 IF x.total > max THEN x
                 ELSE LET c == count(d, max, x.memo, child)
                      IN  [total |-> x.total + c.total, memo |-> c.memo]
             end == FoldLeft(add, [total |-> 1, memo |-> memo], Value(d, n))
         IN  [end EXCEPT !.memo = (n :> end.total) @@ @]

_expanded_node_count(d, max) == count(d, max, <<>>, Root(d)).total

-----------------------------------------------------------------------------
(* Merge keys.                                                              *)

\* explicit_keys: only keys that are strings are compared.
explicit_keys(pairs) == {pairs[i].key : i \in DOMAIN pairs} \cap StrKeys

Duplicates(pairs, keys) ==
    \E i, j \in DOMAIN pairs : i < j /\ pairs[i].key = pairs[j].key /\ pairs[i].key \in keys

Plain(pairs) == SelectSeq(pairs, LAMBDA p : p.key # MergeKey)

\* What a flattened node becomes, from its value and what it merges.
\* Mutant of Merged: what is merged comes last.
MergedLast(pairs, merge) == Plain(pairs) \o merge

\* What the mapping has written out itself comes last and wins; keys it has are
\* not merged.
Merged(pairs, merge) ==
    SelectSeq(merge, LAMBDA p : p.key \notin explicit_keys(pairs)) \o Plain(pairs)

\* flatten_mapping: f is the document with what has been flattened so far and
\* whether that raised.
RECURSIVE flatten_mapping(_, _)
flatten_mapping(f, n) ==
    LET pairs  == f.doc[n].value
        merged == SelectSeq(pairs, LAMBDA p : p.key = MergeKey)
        \* submerge: one mapping, or those of a sequence in reverse order
        merge(g, m) ==
            LET v    == At(f.doc, m.node)
                subs == IF f.doc[v].is = "seq" THEN Value(f.doc, v) ELSE <<v>>
                one(x, s) == IF x.raised # "no" THEN x
                             ELSE IF f.doc[s].is # "map" THEN [x EXCEPT !.raised = "merge"]
                             ELSE LET y == flatten_mapping([doc |-> x.doc, raised |-> "no"], s)
                                  IN  [x EXCEPT !.doc = y.doc, !.raised = y.raised]
                done == FoldLeft(one, g, subs)
            IN  IF done.raised # "no" THEN done
                ELSE [done EXCEPT !.pairs = @ \o FlattenSeq(
                         [i \in DOMAIN subs |-> done.doc[Reverse(subs)[i]].value])]
        all == FoldLeft(merge, [doc |-> f.doc, raised |-> "no", pairs |-> <<>>], merged)
    IN  IF Duplicates(pairs, StrKeys) THEN [f EXCEPT !.raised = "duplicate"]
        ELSE [doc |-> [all.doc EXCEPT ![n].value = Merged(pairs, all.pairs)],
              raised |-> all.raised]

-----------------------------------------------------------------------------
(* The loader.                                                              *)

Init ==
    /\ source = <<>> /\ doc = <<>> /\ limit = NoLimit /\ outcome = "composing"
    /\ todo = <<>> /\ built = <<>>

\* The nodes no node refers to yet.  In the end only the root is left; a node
\* can take in MaxItems of them.
Loose(d) == {Root(d)} \cup (DOMAIN d \ UNION {Range(Value(d, n)) : n \in DOMAIN d})

\* The parser completes a node.
Compose(node) ==
    /\ outcome = "composing" /\ Len(doc) < MaxNodes
    /\ source' = Append(source, node) /\ doc' = source'
    /\ Cardinality(Loose(doc')) <= 1 + (MaxNodes - Len(doc')) * (MaxItems - 1)
    /\ UNCHANGED <<limit, outcome, todo, built>>

\* construct_document: the checks, and the root is constructed.
construct_document(max) ==
    LET expanded == _expanded_node_count(doc, max)
    IN  /\ outcome = "composing" /\ doc # <<>> /\ Loose(doc) = {Root(doc)}
        /\ limit' = max
        /\ outcome' =
             IF _reject_recursive_aliases(doc) THEN "recursive"
             ELSE IF max = NoLimit THEN "constructing"
             ELSE IF expanded > max THEN "limit"
             ELSE IF /\ expanded > _MIN_YAML_ALIAS_EXPANSION_RATIO_NODES
                     /\ expanded > _unique_node_count(doc) * _MAX_YAML_ALIAS_EXPANSION_RATIO
             THEN "ratio" ELSE "constructing"
        /\ todo' = <<Root(doc)>>
        /\ UNCHANGED <<source, doc, built>>

\* What a mapping's object has under its keys: of equal keys the last counts.
Object(d, n) ==
    LET pairs == d[n].value
    IN  [k \in {pairs[i].key : i \in DOMAIN pairs} |->
            At(d, pairs[CHOOSE i \in DOMAIN pairs :
                            /\ pairs[i].key = k
                            /\ \A j \in DOMAIN pairs : pairs[j].key = k => j <= i].node)]

\* The next generator runs: a sequence or mapping is filled, and the nodes in
\* it that have not been constructed yet are put in the queue.
construct ==
    LET n   == Head(todo)
        f   == IF doc[n].is = "map" THEN flatten_mapping([doc |-> doc, raised |-> "no"], n)
               ELSE [doc |-> doc, raised |-> "no"]
        add(queue, c) == IF c = Key \/ c \in DOMAIN built \cup Range(queue) \cup {n} THEN queue
                         ELSE Append(queue, c)
    IN  /\ outcome = "constructing" /\ todo # <<>>
        /\ IF f.raised # "no"
           THEN outcome' = f.raised /\ UNCHANGED <<doc, todo, built>>
           ELSE /\ doc' = f.doc
                /\ todo' = FoldLeft(add, Tail(todo), Value(f.doc, n))
                /\ built' = (n :> IF doc[n].is = "map" THEN Object(f.doc, n) ELSE <<>>) @@ built
                /\ outcome' = IF todo' = <<>> THEN "loaded" ELSE outcome
        /\ UNCHANGED <<source, limit>>

\* The load has ended and another one begins.
Again ==
    /\ outcome \notin {"composing", "constructing"}
    /\ source' = <<>> /\ doc' = <<>> /\ limit' = NoLimit /\ outcome' = "composing"
    /\ todo' = <<>> /\ built' = <<>>

Children == 0..Len(doc)
Upto(n, S) == UNION {[1..k -> S] : k \in 0..n}

Next ==
    \/ Compose(Scalar)
    \/ \E items \in Upto(MaxItems, Children) : Compose([is |-> "seq", value |-> items])
    \/ \E pairs \in Upto(MaxItems, [key : Keys \cup {MergeKey}, node : Children \ {0}]) :
           Compose([is |-> "map", value |-> pairs])
    \/ \E max \in Limits : construct_document(max)
    \/ construct
    \/ Again

Spec == Init /\ [][Next]_vars

-----------------------------------------------------------------------------
(* Properties, in terms of the document as it was written.                  *)

Recursive == \E n \in DOMAIN source : source[n].is = "seq" /\ 0 \in Range(source[n].value)

\* The nodes of the document with all aliases written out, and as it is.
Written ==
    LET size[n \in 1..Len(source)] ==
            FoldLeft(LAMBDA total, c : total + IF c = Key THEN 1 ELSE size[c], 1, Value(source, n))
    IN  size[Root(source)]
Unexpanded ==
    FoldLeft(LAMBDA total, n : total + 1 + IF n.is = "map" THEN Len(n.value) ELSE 0, 0, source)

\* Recursive documents are refused whatever the limit, and others exactly if
\* they have too many nodes, or too many for their size, once every alias is
\* written out: not one node fewer or more, although the count stops early and
\* remembers where it stopped ("aliases are charged each time they expand the
\* aliased value", docs/source/yaml_aliases.rst; _yaml.py:164-189).
AliasesCharged ==
    outcome # "composing" =>
        /\ (outcome = "recursive") = Recursive
        /\ ~Recursive => /\ (outcome = "limit") = (limit # NoLimit /\ Written > limit)
                         /\ (outcome = "ratio") =
                                /\ limit # NoLimit /\ Written <= limit
                                /\ Written > _MIN_YAML_ALIAS_EXPANSION_RATIO_NODES
                                /\ Written > Unexpanded * _MAX_YAML_ALIAS_EXPANSION_RATIO

\* What each mapping has: its own keys, and those it merges that it has not; of
\* several merge keys the last wins, of a sequence of mappings the first.
Means ==
    LET own(n) == [source EXCEPT ![n].value = Plain(@)]
        parts(m) == IF source[m.node].is = "seq" THEN Reverse(source[m.node].value) ELSE <<m.node>>
        of[n \in 1..Len(source)] ==
            LET merged == FlattenSeq([i \in DOMAIN source[n].value |->
                              IF source[n].value[i].key = MergeKey THEN parts(source[n].value[i])
                              ELSE <<>>])
            IN  Object(own(n), n) @@ FoldLeft(LAMBDA all, m : of[m] @@ all, <<>>, merged)
    IN  of

\* However often and in whichever order mappings have been flattened in place,
\* each is constructed with what it was written to have, and none that repeats a
\* string key is (_yaml.py:191-254; not that every other document loads: one
\* whose mapping merges a key twice is refused when it is flattened again).
LoadsAsWritten ==
    \A n \in DOMAIN built : source[n].is = "map" =>
        built[n] = Means[n] /\ ~Duplicates(source[n].value, StrKeys)
=============================================================================
