-------------------------------- MODULE Merge --------------------------------
(***************************************************************************)
(* Merging a source into a config: OmegaConf.merge, merge_with and           *)
(* unsafe_merge, with _map_merge and _list_merge of basecontainer.py.        *)
(*                                                                          *)
(* A config is a dict of leaves, lists and dicts of leaves.  Its nodes may   *)
(* be typed (by the class of a structured config); sources are untyped, as   *)
(* they come from YAML files, the command line or Python dicts.  A merge     *)
(* goes through the keys of the source one by one, in the source's order,    *)
(* and what it changed before it raises stays changed.                       *)
(***************************************************************************)
EXTENDS Naturals, FiniteSets, Sequences, SequencesExt

CONSTANTS
    Key,        \* the keys of the config
    SubKey,     \* the keys of the dicts in it
    Class,      \* the object types of dicts: classes, "dict", and "none" without content
    Field,      \* the fields of class Sub, which are ints
    Default,    \* ... and their default value
    Val,        \* the plain values of leaves and list items
    IntVal,     \* ... those an int field accepts
    Configs,    \* the configs a behaviour begins with
    Sources(_), \* the sources that are merged into a config of a class (or "dict")
    Settable,   \* the values callers set flags to
    SetsFlags   \* the containers of the config callers set flags on

Flag == {"unset", "on", "off"}

ASSUME MergeAssumption ==
    /\ {"none", "dict", "Sub"} \subseteq Class
    /\ Key \cap SubKey = {} /\ Field \subseteq SubKey
    /\ IntVal \subseteq Val /\ Default \in IntVal
    /\ Settable \subseteq Flag
    /\ IsFiniteSet(Key) /\ IsFiniteSet(SubKey)

VARIABLES
    cfg,        \* the config
    call,       \* the last call
    outcome     \* how it ended: "returned", "raised" or "asserted"

vars == <<cfg, call, outcome>>

-----------------------------------------------------------------------------
(* Nodes.                                                                   *)

None    == [k |-> "none"]
Missing == [k |-> "missing"]
Interp(key) == [k |-> "interp", to |-> key]
Plain(v)    == [k |-> "value", v |-> v]
Items(s)    == [k |-> "items", s |-> s]
Entries(m)  == [k |-> "map", m |-> m]

Leaf(type, opt, c) == [kind |-> "leaf", type |-> type, opt |-> opt, c |-> c]
AnyLeaf(c) == Leaf("Any", TRUE, c)
List(type, opt, c) ==
    [kind |-> "list", type |-> type, opt |-> opt, c |-> c, ro |-> "unset", st |-> "unset"]
Dict(type, opt, obj, c) ==
    [kind |-> "dict", type |-> type, opt |-> opt, obj |-> obj, c |-> c,
     ro |-> "unset", st |-> "unset"]

\* The content of a new instance of class Sub.
SubContent == Entries([f \in Field |-> Leaf("int", FALSE, Plain(Default))])

IsContainer(n) == n.kind # "leaf"
Is(n, k) == n.c.k = k
IsSpecial(n) == n.c.k \in {"none", "missing", "interp"}
Has(D, k) == k \in DOMAIN D.c.m
Put(D, k, n) ==
    [D EXCEPT !.c.m = [j \in DOMAIN D.c.m \cup {k} |-> IF j = k THEN n ELSE D.c.m[j]]]

\* The nodes there are, each with content its type allows.
SpecialContent == {None, Missing} \cup {Interp(key) : key \in Key}

IsLeaf(n) ==
    /\ n.kind = "leaf" /\ n = Leaf(n.type, n.opt, n.c)
    /\ n.type \in {"Any", "int"} /\ n.opt \in BOOLEAN /\ (Is(n, "none") => n.opt)
    /\ \/ n.c \in SpecialContent
       \/ n.c \in [k : {"value"}, v : IF n.type = "int" THEN IntVal ELSE Val]

IsList(n) ==
    /\ n.kind = "list"
    /\ n = [kind |-> "list", type |-> n.type, opt |-> n.opt, c |-> n.c, ro |-> n.ro, st |-> n.st]
    /\ n.type \in {"Any", "ints"} /\ n.opt \in BOOLEAN /\ (Is(n, "none") => n.opt)
    /\ n.ro \in Flag /\ n.st \in Flag
    /\ \/ n.c \in SpecialContent
       \/ n.c \in [k : {"items"}, s : Seq(IF n.type = "ints" THEN IntVal ELSE Val)]

\* A dict with keys of K.
IsDict(n, K) ==
    /\ n.kind = "dict"
    /\ n = [kind |-> "dict", type |-> n.type, opt |-> n.opt, obj |-> n.obj, c |-> n.c,
            ro |-> n.ro, st |-> n.st]
    /\ n.type \in {"Any", "Sub"} /\ n.opt \in BOOLEAN /\ (Is(n, "none") => n.opt)
    /\ n.obj \in Class /\ n.ro \in Flag /\ n.st \in Flag
    /\ \/ n.c \in SpecialContent /\ n.obj = "none"
       \/ /\ Is(n, "map") /\ n.c = Entries([j \in DOMAIN n.c.m |-> n.c.m[j]])
          /\ DOMAIN n.c.m \subseteq K
          /\ n.obj # "none" /\ (n.type = "Sub" => n.obj = "Sub")

\* A leaf in a dict in the config is no interpolation.
IsEntry(n) == IsLeaf(n) /\ ~Is(n, "interp")

\* A dict of leaves; an instance of class Sub has the fields of the class, with
\* their types.
IsLeafDict(n) ==
    /\ IsDict(n, SubKey)
    /\ Is(n, "map") =>
        /\ \A j \in DOMAIN n.c.m : IsEntry(n.c.m[j])
        /\ n.obj = "Sub" => \A f \in Field : Has(n, f) /\ n.c.m[f].type = "int"

IsNode(n) == IsLeaf(n) \/ IsList(n) \/ IsLeafDict(n)

\* A whole config.
IsConfig(D) ==
    /\ IsDict(D, Key) /\ Is(D, "map")
    /\ \A k \in DOMAIN D.c.m : IsNode(D.c.m[k])

\* The nodes of sources, and with them their leaves, are untyped.
Loose(n) == n.type = "Any" /\ n.opt /\ (n.kind = "dict" => n.obj \in {"dict", "none"})

ASSUME ConfigAssumption ==
    \A c \in Configs :
        /\ IsConfig(c)
        /\ \A S \in Sources(c.obj) :
            /\ IsConfig(S) /\ Loose(S)
            /\ \A k \in DOMAIN S.c.m :
                LET n == S.c.m[k]
                IN  Loose(n) /\ (Is(n, "map") => \A j \in DOMAIN n.c.m : Loose(n.c.m[j]))

\* The flags readonly and struct a container has, given those of its parent.
Inherit(own, outer) == IF own = "unset" THEN outer ELSE own
Flags(n, up) == [ro |-> Inherit(n.ro, up.ro), st |-> Inherit(n.st, up.st)]
NoFlags == [ro |-> "off", st |-> "off"]
IsReadonly(n, up) == Flags(n, up).ro = "on"

\* No key can be added (_validate_get).
Closed(D, up) ==
    \/ Flags(D, up).st = "on"
    \/ D.st = "unset" /\ D.obj \notin {"dict", "none"}

-----------------------------------------------------------------------------
(* Steps.  Each gives the node it leaves, and how it ends.                   *)

Outcome(ends, n) == [ends |-> ends, node |-> n]
Returns(n) == Outcome("returned", n)
Raises(n)  == Outcome("raised", n)

\* The value of s is one the typed node d takes.
Accepts(d, s) ==
    \/ IsSpecial(s)
    \/ d.type = "int" /\ s.kind = "leaf" /\ s.c.v \in IntVal
    \/ d.type = "ints" /\ s.kind = "list" /\ \A i \in DOMAIN s.c.s : s.c.s[i] \in IntVal
    \/ d.type = "Sub" /\ s.kind = "dict" /\ s.obj = "Sub"

Unflagged(n) == [n EXCEPT !.ro = "unset", !.st = "unset"]

\* Mutant of SetValue: the node becomes optional with the value.
SetValueWidening(d, s) == [d EXCEPT !.c = s.c, !.opt = TRUE]

\* d._set_value: the typed node d takes the value of s, and loses its flags if
\* that is a container.
SetValue(d, s) ==
    CASE ~IsContainer(d)  -> [d EXCEPT !.c = s.c]
      [] d.kind = "dict"  -> IF IsSpecial(s) THEN [d EXCEPT !.c = s.c, !.obj = "none"]
                             ELSE [Unflagged(d) EXCEPT !.c = s.c, !.obj = s.obj]
      [] d.kind = "list"  -> IF IsSpecial(s) THEN [d EXCEPT !.c = s.c]
                             ELSE [Unflagged(d) EXCEPT !.c = s.c]

\* Mutant of SetRefused: new keys are not checked.
SetRefusedOpen(D, up, k, s) ==
    IsReadonly(D, up) \/ (Has(D, k) /\ Is(s, "none") /\ ~D.c.m[k].opt)

\* Mutant of SetRefused: the flag of the dict itself is checked, not an inherited one.
SetRefusedHere(D, up, k, s) ==
    \/ D.ro = "on"
    \/ ~Has(D, k) /\ Closed(D, up)
    \/ Has(D, k) /\ Is(s, "none") /\ ~D.c.m[k].opt

\* The checks of _set_item_impl before a value is stored.
SetRefused(D, up, k, s) ==
    \/ IsReadonly(D, up)
    \/ ~Has(D, k) /\ Closed(D, up)
    \/ Has(D, k) /\ Is(s, "none") /\ ~D.c.m[k].opt

\* D[k] = s: _set_item_impl, for a node s.  A typed node stays and takes the
\* value, an untyped one is replaced.
SetItem(D, up, k, s) ==
    LET d == D.c.m[k]
    IN  IF SetRefused(D, up, k, s) THEN Raises(D)
        ELSE IF ~Has(D, k) \/ d.type = "Any" THEN Returns(Put(D, k, s))
        ELSE IF Accepts(d, s) THEN Returns(Put(D, k, SetValue(d, s)))
        ELSE Raises(IF d.kind = "list" /\ s.kind = "list" THEN Put(D, k, Unflagged(d)) ELSE D)

\* Mutant of Expand: the object type is not set.
ExpandContent(d) ==
    CASE d.type = "Sub" -> Returns([d EXCEPT !.c = SubContent])
      [] d.kind = "dict" /\ d.type = "Any" -> Returns([d EXCEPT !.c = Entries(<<>>)])
      [] d.type = "ints" -> Returns([d EXCEPT !.c = Items(<<>>)])
      [] d.kind = "list" /\ d.type = "Any" -> Outcome("asserted", d)

\* expand: a container that has no content gets that of a new one.
Expand(d) ==
    CASE d.type = "Sub" -> Returns([d EXCEPT !.c = SubContent, !.obj = "Sub"])
      [] d.kind = "dict" /\ d.type = "Any" ->
            Returns([d EXCEPT !.c = Entries(<<>>), !.obj = "dict"])
      [] d.type = "ints" -> Returns([d EXCEPT !.c = Items(<<>>)])
      [] d.kind = "list" /\ d.type = "Any" -> Outcome("asserted", d)

\* The flags set on the source replace those of the destination.
TakeFlags(D, S) ==
    [D EXCEPT !.ro = Inherit(S.ro, D.ro), !.st = Inherit(S.st, D.st)]

\* Mutant of ListMerge: the old items are cleared before the new are appended.
ListMergeClearing(D, up, S) ==
    CASE Is(S, "none")    -> IF D.opt THEN Returns(TakeFlags([D EXCEPT !.c = None], S))
                             ELSE Raises(D)
      [] Is(S, "missing") -> Returns(TakeFlags(D, S))
      [] OTHER ->
            IF ~IsSpecial(S) /\ (IsReadonly(D, up) \/ ~(D.type = "Any" \/ Accepts(D, S)))
            THEN Raises([D EXCEPT !.c = Items(<<>>)])
            ELSE Returns(TakeFlags([D EXCEPT !.c = S.c], S))

\* _list_merge
ListMerge(D, up, S) ==
    CASE Is(S, "none")    -> IF D.opt THEN Returns(TakeFlags([D EXCEPT !.c = None], S))
                             ELSE Raises(D)
      [] Is(S, "missing") -> Returns(TakeFlags(D, S))
      [] Is(S, "interp")  -> Returns(TakeFlags([D EXCEPT !.c = S.c], S))
      [] OTHER ->
            IF /\ S.c.s = <<>> \/ ~IsReadonly(D, up)
               /\ D.type = "Any" \/ Accepts(D, S)
            THEN Returns(TakeFlags([D EXCEPT !.c = S.c], S))
            ELSE Raises(D)

\* DictConfig._validate_merge refuses s for the dict d.
MergeInvalid(d, s) ==
    /\ d.kind = "dict" /\ ~Is(s, "interp")
    /\ \/ Is(s, "none") /\ ~d.opt
       \/ d.obj \notin {"dict", "none"} /\ ~IsSpecial(s) /\ s.kind # "dict"

\* Where an interpolation at j leads, and where a chain of them that begins at k
\* does, hop by hop.  One that ends has a hop for each key at most.
Onward(D, j) == IF Has(D, j) /\ Is(D.c.m[j], "interp") THEN D.c.m[j].c.to ELSE j
Hops(D, k) ==
    LET hop[n \in Nat] == IF n = 0 THEN k ELSE Onward(D, hop[n - 1])
    IN  [n \in 0 .. Cardinality(Key) |-> hop[n]]

\* The node at the end of the chain.
End(D, k) == Hops(D, k)[Cardinality(Key)]
Target(D, k) == D.c.m[End(D, k)]

\* An interpolation at k refers to a container: there is one at the end of the
\* chain, and the typed leaves on the way take it, which they do if it is None.
RefersToContainer(D, k) ==
    LET hops == Hops(D, k)
        n    == D.c.m[hops[Cardinality(Key)]]
    IN  /\ Is(D.c.m[k], "interp")
        /\ Has(D, End(D, k)) /\ IsContainer(n) /\ ~Is(n, "interp") /\ ~Is(n, "missing")
        /\ \A i \in DOMAIN hops :
            LET d == D.c.m[hops[i]]
            IN  ~IsContainer(d) /\ d.type # "Any" => Is(n, "none") /\ d.opt

\* Mutant of Prepare: an interpolation stays where it is.
PrepareHere(D, up, k, s) ==
    LET d == D.c.m[k]
        r == IF IsContainer(d) /\ Is(d, "none") /\ ~IsSpecial(s) THEN Expand(d) ELSE Returns(d)
    IN  IF MergeInvalid(d, s) THEN Raises(D) ELSE Outcome(r.ends, Put(D, k, r.node))

\* What a round of the loop of _map_merge begins with: s is checked, a container
\* that is None gets content, an interpolation is replaced by the container it
\* refers to.
Prepare(D, up, k, s) ==
    LET d == D.c.m[k]
        r == IF IsContainer(d) /\ Is(d, "none") /\ ~IsSpecial(s) THEN Expand(d) ELSE Returns(d)
    IN  IF MergeInvalid(d, s) THEN Raises(D)
        ELSE IF RefersToContainer(D, k) THEN SetItem(D, up, k, Target(D, k))
        ELSE Outcome(r.ends, Put(D, k, r.node))

\* Mutant of MergeValue: a value that is missing is merged as others are.
MergeValueMissing(D, up, k, s, how) == SetItem(D, up, k, s)

\* Mutant of MergeValue: typed leaves are set without a look at readonly.
MergeValueReadonly(D, up, k, s, how) ==
    LET d == D.c.m[k]
    IN  IF IsContainer(s) THEN SetItem(D, up, k, s)
        ELSE IF Is(s, "missing") THEN Returns(D)
        ELSE IF ~IsContainer(d) /\ Accepts(d, s) /\ (Is(s, "none") => d.opt)
        THEN Returns(Put(D, k, SetValue(d, s)))
        ELSE SetItem(D, up, k, s)

\* The rest of the round, if one of the two nodes is a leaf.  how.source: the
\* flags s inherits; a missing s takes the value of an untyped leaf and then
\* its place.
MergeValue(D, up, k, s, how) ==
    LET d     == D.c.m[k]
        typed == ~IsContainer(d) /\ d.type # "Any"
    IN  CASE IsContainer(s) -> SetItem(D, up, k, s)
          [] Is(s, "missing") /\ ~IsContainer(s) ->
                IF IsContainer(d) \/ typed THEN Returns(D)
                ELSE IF how.source.ro = "on" THEN Raises(D) ELSE SetItem(D, up, k, d)
          [] OTHER ->
                IF ~typed THEN SetItem(D, up, k, s)
                ELSE IF IsReadonly(D, up) \/ ~Accepts(d, s) \/ (Is(s, "none") /\ ~d.opt)
                THEN Raises(D)
                ELSE Returns(Put(D, k, SetValue(d, s)))

\* The keys of S, in the order the source has them.
KeysIn(S, how) == IF Is(S, "missing") THEN <<>> ELSE how.order[DOMAIN S.c.m]

\* _map_merge, if the source is None or an interpolation
TakeSpecial(D, S) ==
    IF Is(S, "none") /\ ~D.opt THEN Raises(D)
    ELSE Returns([D EXCEPT !.c = S.c, !.obj = "none"])

\* ... and else: what the loop over the source's keys begins with
LoopStart(D, S, how) ==
    LET T == IF (Is(D, "interp") \/ Is(D, "missing")) /\ ~Is(S, "missing")
             THEN Expand(D).node ELSE D
    IN  IF Is(T, "none") /\ KeysIn(S, how) # <<>> THEN Raises(T) ELSE Returns(T)

\* ... and what follows the loop.
LoopEnd(r, S) == IF r.ends = "returned" THEN Returns(TakeFlags(r.node, S)) ELSE r

\* _merge_with makes a readonly target writable for as long as it takes, if
\* how.allows (_allow_readonly_target) ...
Relaxed(D, up, how) == how.allows /\ IsReadonly(D, up)

\* Mutant of Restore: not if the merge raises.
RestoreReturned(r, D, up, how) ==
    IF Relaxed(D, up, how) /\ r.ends = "returned" THEN [r EXCEPT !.node.ro = D.ro] ELSE r

\* ... and in the end gives it back the setting it had.
Restore(r, D, up, how) ==
    IF Relaxed(D, up, how) THEN [r EXCEPT !.node.ro = D.ro] ELSE r

\* _merge_with: the target while it is merged into.
Opened(D, up, how) == IF Relaxed(D, up, how) THEN [D EXCEPT !.ro = "off"] ELSE D

\* One round of the loop of _map_merge on a dict of leaves.
MergeLeaf(D, up, k, s, how) ==
    LET p == IF Has(D, k) THEN Prepare(D, up, k, s) ELSE SetItem(D, up, k, s)
    IN  IF ~Has(D, k) \/ p.ends # "returned" THEN p ELSE MergeValue(p.node, up, k, s, how)

\* _map_merge of a dict of leaves: a round for each key, until one raises.
MergeLeaves(D, up, S, how) ==
    LET inside == [how EXCEPT !.source = Flags(S, how.source)]
        Round(r, k) == IF r.ends = "returned" THEN MergeLeaf(r.node, up, k, S.c.m[k], inside)
                                              ELSE r
    IN  IF Is(S, "none") \/ Is(S, "interp") THEN TakeSpecial(D, S)
        ELSE LoopEnd(FoldLeft(Round, LoopStart(D, S, how), KeysIn(S, how)), S)

\* _merge_with of a container in the config: it holds leaves only.
MergeChild(D, up, S, how) ==
    LET T == Opened(D, up, how)
    IN  Restore(CASE D.kind = "dict" /\ S.kind = "dict" -> MergeLeaves(T, up, S, how)
                  [] D.kind = "list" /\ S.kind = "list" -> ListMerge(T, up, S)
                  [] OTHER -> Raises(T),
                D, up, how)

\* One round of the loop of _map_merge on the whole config: containers are
\* merged by a call of _merge_with.
MergeKey(D, up, k, s, how) ==
    LET p == IF Has(D, k) THEN Prepare(D, up, k, s) ELSE SetItem(D, up, k, s)
        d == p.node.c.m[k]
        r == MergeChild(d, Flags(D, up), s, how)
    IN  IF ~Has(D, k) \/ p.ends # "returned" THEN p
        ELSE IF IsContainer(d) /\ IsContainer(s) THEN Outcome(r.ends, Put(p.node, k, r.node))
        ELSE MergeValue(p.node, up, k, s, how)

\* _map_merge of the whole config.
MapMerge(D, S, how) ==
    LET inside == [how EXCEPT !.source = Flags(S, how.source)]
        Round(r, k) == IF r.ends = "returned" THEN MergeKey(r.node, NoFlags, k, S.c.m[k], inside)
                                              ELSE r
    IN  LoopEnd(FoldLeft(Round, LoopStart(D, S, how), KeysIn(S, how)), S)

\* _merge_with of the whole config.
MergeRoot(D, S, allows, order) ==
    LET how == [allows |-> allows, order |-> order, source |-> NoFlags]
    IN  Restore(MapMerge(Opened(D, NoFlags, how), S, how), D, NoFlags, how)

-----------------------------------------------------------------------------
(* Calls.                                                                   *)

\* The orders the keys of a source, and of the dicts in it, may be in: for each
\* set of keys a dict in it has, a sequence.
KeySets(S) ==
    {DOMAIN n.c.m : n \in {S} \cup {m \in Range(S.c.m) : Is(m, "map")}}
Orders(S) ==
    {f \in [KeySets(S) -> UNION {SetToSeqs(D) : D \in KeySets(S)}] :
        \A D \in KeySets(S) : f[D] \in SetToSeqs(D)}

Init ==
    /\ cfg \in Configs
    /\ call = [op |-> "start"]
    /\ outcome = "returned"

\* cfg.merge_with(S)
MergeInPlace(S, order) ==
    LET r == MergeRoot(cfg, S, FALSE, order)
    IN  /\ cfg' = r.node
        /\ call' = [op |-> "merge_with", src |-> S, order |-> order]
        /\ outcome' = r.ends

\* cfg = OmegaConf.merge(cfg, S): it works on a copy.
MergeCopy(S, order) ==
    LET r == MergeRoot(cfg, S, TRUE, order)
    IN  /\ cfg' = IF r.ends = "returned" THEN r.node ELSE cfg
        /\ call' = [op |-> "merge", src |-> S, order |-> order]
        /\ outcome' = r.ends

\* OmegaConf.unsafe_merge(cfg, S)
UnsafeMerge(S, order) ==
    LET r == MergeRoot([cfg EXCEPT !.ro = "off"], S, TRUE, order)
        turned == r.ends = "returned" /\ IsReadonly(r.node, NoFlags)
    IN  /\ cfg' = [r.node EXCEPT !.ro = IF turned THEN "on" ELSE cfg.ro]
        /\ call' = [op |-> "unsafe_merge", src |-> S, order |-> order]
        /\ outcome' = r.ends

\* set_readonly and set_struct on the config or a container in it.
SetRootFlag(flag, v) ==
    /\ "root" \in SetsFlags
    /\ cfg' = IF flag = "readonly" THEN [cfg EXCEPT !.ro = v] ELSE [cfg EXCEPT !.st = v]
    /\ call' = [op |-> "set_flag"]
    /\ outcome' = "returned"

SetChildFlag(k, flag, v) ==
    /\ k \in SetsFlags /\ Has(cfg, k) /\ IsContainer(cfg.c.m[k])
    /\ cfg' = IF flag = "readonly" THEN [cfg EXCEPT !.c.m[k].ro = v]
              ELSE [cfg EXCEPT !.c.m[k].st = v]
    /\ call' = [op |-> "set_flag"]
    /\ outcome' = "returned"

Next ==
    \/ \E S \in Sources(cfg.obj) : \E order \in Orders(S) :
          MergeInPlace(S, order) \/ MergeCopy(S, order) \/ UnsafeMerge(S, order)
    \/ \E flag \in {"readonly", "struct"}, v \in Settable :
          SetRootFlag(flag, v) \/ \E k \in Key : SetChildFlag(k, flag, v)

Spec == Init /\ [][Next]_vars

-----------------------------------------------------------------------------
(* What holds.                                                              *)

\* Every node of the config conforms to its type.
TypeOK == IsConfig(cfg)

Merged == call'.op \in {"merge", "merge_with", "unsafe_merge"}
Succeeded == Merged /\ outcome' = "returned"
Failed == Merged /\ outcome' # "returned"
Visited == call'.order[DOMAIN call'.src.c.m]

\* The content of a node as the caller sees it: no types, no flags.
Data(n) == IF Is(n, "map") THEN [j \in DOMAIN n.c.m |-> n.c.m[j].c] ELSE n.c

\* What a source with content is laid over: a dict without content gets that
\* of a new one.
Ground(d) ==
    IF Is(d, "map") THEN d
    ELSE [d EXCEPT !.c = IF d.type = "Sub" THEN SubContent ELSE Entries(<<>>)]

\* A container that is itself missing over a leaf: the code stores it (_map_merge,
\* basecontainer.py:543), the documentation has the leaf stay (usage.rst:530).
MissingOverLeaf(d, s) == Is(s, "missing") /\ IsContainer(s) /\ ~IsContainer(d)

\* r is d with s laid over it: what is missing in s leaves d alone, dicts are
\* united, everything else is replaced.  Of a leaf that a missing container is
\* merged over no more is said than that it is the old one or missing.
LaidOver(d, s, r) ==
    IF Is(s, "missing")
    THEN Data(r) = Data(d) \/ (MissingOverLeaf(d, s) /\ Data(r) = Data(s))
    ELSE IF Is(s, "map") /\ d.kind = "dict"
    THEN LET g == Ground(d)
         IN  Data(r) = [j \in DOMAIN g.c.m \cup DOMAIN s.c.m |->
                            IF Has(s, j) /\ ~(Has(g, j) /\ Is(s.c.m[j], "missing"))
                            THEN s.c.m[j].c ELSE g.c.m[j].c]
    ELSE Data(r) = Data(s)

\* The config when the loop gets to k: the keys before it are merged.
Before(k) ==
    {j \in Range(Visited) : \E i, l \in DOMAIN Visited : i < l /\ Visited[i] = j /\ Visited[l] = k}
Halfway(old, new, k) ==
    LET before == Before(k)
    IN  [old EXCEPT !.c.m = [j \in DOMAIN @ \cup before |->
                                IF j \in before THEN new.c.m[j] ELSE old.c.m[j]]]

\* An interpolation of a container stands for the container, of its own type if
\* it has one.
StandsFor(d, n) == IF d.type = "Any" THEN n ELSE [d EXCEPT !.c = n.c]
Refers(old, new, k) ==
    Is(old.c.m[k], "interp") /\ RefersToContainer(Halfway(old, new, k), k)
Base(old, new, k) ==
    IF Refers(old, new, k) THEN StandsFor(old.c.m[k], Target(Halfway(old, new, k), k))
    ELSE old.c.m[k]

\* A dict without entries gives an interpolation the None it refers to.
MergedAt(old, S, new, k) ==
    LET d == Base(old, new, k)
        s == S.c.m[k]
    IN  /\ Has(new, k)
        /\ IF ~Has(old, k) THEN new.c.m[k] = s
           ELSE IF Is(old.c.m[k], "interp") /\ IsContainer(d) /\ Is(d, "none") /\ Is(s, "map")
           THEN Is(new.c.m[k], "none") /\ DOMAIN s.c.m = {}
           ELSE LaidOver(d, s, new.c.m[k])

KeptAt(old, new, k) == IF Has(old, k) THEN Has(new, k) /\ new.c.m[k] = old.c.m[k]
                       ELSE ~Has(new, k)

\* A merge that returns has laid the source over the config, key by key: later
\* sources win, missing values and other keys leave the config alone, typed and
\* untyped nodes, containers without content and interpolations alike
\* (_map_merge, _list_merge).  Left open is what a missing container does to a
\* leaf (MissingOverLeaf).
MergesOverlay ==
    [][Succeeded => \A k \in Key : IF Has(call'.src, k) THEN MergedAt(cfg, call'.src, cfg', k)
                                   ELSE KeptAt(cfg, cfg', k)]_vars

\* r is what a merge of s into d that raised leaves: some entries are merged.
PartlyOver(d, s, r) ==
    \/ Data(r) = Data(d)
    \/ d.kind = "list" /\ Is(d, "none") /\ r.c = Items(<<>>)
    \/ /\ d.kind = "dict" /\ Is(r, "map")
       /\ LET g == Ground(d)
          IN  /\ \A j \in DOMAIN g.c.m : Has(r, j)
              /\ \A j \in DOMAIN r.c.m : \/ Has(g, j) /\ r.c.m[j].c = g.c.m[j].c
                                         \/ Is(s, "map") /\ Has(s, j) /\ r.c.m[j].c = s.c.m[j].c

\* A merge in place that raises has merged the keys before the one it raised at,
\* has not come to those behind it, and has lost nothing at the key itself.
FailsInOrder ==
    [][Failed /\ call'.op # "merge" =>
        /\ \A k \in Key : ~Has(call'.src, k) => KeptAt(cfg, cfg', k)
        /\ \E at \in DOMAIN Visited : \A i \in DOMAIN Visited :
            LET k == Visited[i]
            IN  IF i > at THEN KeptAt(cfg, cfg', k)
                ELSE IF i < at THEN MergedAt(cfg, call'.src, cfg', k)
                ELSE \/ KeptAt(cfg, cfg', k)
                     \/ /\ Has(cfg, k) /\ Has(cfg', k)
                        /\ \E d \in {Base(cfg, cfg', k), cfg.c.m[k]} :
                              PartlyOver(d, call'.src.c.m[k], cfg'.c.m[k])]_vars

\* Every node conforms after each merge, and no merge, whether it returns or raises,
\* takes away a typed node or changes its type: that an int field, a typed list
\* or a nested structured config survives any sequence of merges is what makes
\* merging into a schema safe.
TypesStay ==
    [][/\ TypeOK'
       /\ \A k \in DOMAIN cfg.c.m : cfg.c.m[k].type # "Any" =>
            /\ Has(cfg', k) /\ cfg'.c.m[k].type = cfg.c.m[k].type
            /\ cfg'.c.m[k].opt = cfg.c.m[k].opt /\ cfg'.obj = cfg.obj]_vars

\* No merge adds a key to a config or to a dict in it that is closed by its
\* struct flag, an inherited one, or its class, not even when the source clears
\* the flag; and merge_with changes no leaf of a readonly dict, and adds none.
FlagsObeyed ==
    /\ [][/\ Closed(cfg, NoFlags) => DOMAIN cfg'.c.m = DOMAIN cfg.c.m
          /\ \A k \in DOMAIN cfg.c.m :
               LET d == cfg.c.m[k]
               IN  Is(d, "map") /\ Closed(d, Flags(cfg, NoFlags)) /\ Is(cfg'.c.m[k], "map")
                       => DOMAIN cfg'.c.m[k].c.m = DOMAIN d.c.m]_vars
    /\ [][call'.op = "merge_with" =>
            /\ IsReadonly(cfg, NoFlags) =>
                /\ DOMAIN cfg'.c.m = DOMAIN cfg.c.m
                /\ \A k \in DOMAIN cfg.c.m :
                      ~IsContainer(cfg.c.m[k]) => cfg'.c.m[k] = cfg.c.m[k]
            /\ \A k \in DOMAIN cfg.c.m :
                LET d == cfg.c.m[k]
                IN  /\ IsContainer(d) /\ Is(d, "map") /\ IsReadonly(d, Flags(cfg, NoFlags))
                    /\ Is(cfg'.c.m[k], "map")
                    => cfg'.c.m[k].c = d.c]_vars

\* A merge, in whatever way it ends, leaves every container with the flags it
\* had or the source's: nothing stays writable that was made so for the merge.
FlagsKept ==
    [][Merged =>
        /\ cfg'.ro \in {cfg.ro, call'.src.ro} /\ cfg'.st \in {cfg.st, call'.src.st}
        /\ \A k \in DOMAIN cfg.c.m :
            LET d == cfg.c.m[k]
                s == call'.src.c.m[k]
                r == cfg'.c.m[k]
            IN  IsContainer(d) /\ ~Is(d, "interp") /\ IsContainer(r) =>
                    \/ r.ro = d.ro /\ r.st = d.st
                    \/ /\ Has(call'.src, k) /\ IsContainer(s)
                       /\ r.ro \in {d.ro, s.ro} /\ r.st \in {d.st, s.st}]_vars
=============================================================================
