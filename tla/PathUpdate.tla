----------------------------- MODULE PathUpdate -----------------------------
(***************************************************************************)
(* OmegaConf.update and OmegaConf.select: writing and reading a node by a   *)
(* key path (omegaconf.py, _impl.py, and Container._select_impl of base.py). *)
(*                                                                          *)
(* update walks down the path, through interpolations of containers, makes  *)
(* an empty dict of whatever is not a container on the way, and sets or     *)
(* merges the value at the last key.  It checks as it goes: what it has     *)
(* replaced before a check fails stays replaced.                            *)
(*                                                                          *)
(* The config is a tree of ConfigTree, the key paths are those of KeyPath.  *)
(***************************************************************************)
EXTENDS KeyPath, ConfigTree

CONSTANTS
    Configs,    \* the configs a behaviour begins with
    Texts,      \* the key paths update is called with
    Values,     \* ... and the values: Scalar(v) or Mapping(m)
    KeyTexts,   \* keys whose paths are read: they do not end in a backslash
    MaxPath,    \* bound: keys of such a path
    Flagged,    \* the containers callers set flags on
    MaxNodes    \* bound: nodes of a config

VARIABLES
    cfg,        \* the config
    call,       \* the last call of update, or a call that is none
    outcome     \* how it ended

vars == <<cfg, call, outcome>>

-----------------------------------------------------------------------------
(* Values.                                                                  *)

Scalar(v)  == [is |-> "scalar", v |-> v]
Mapping(m) == [is |-> "mapping", m |-> m]

\* The tree a value becomes.
Tree(value) ==
    IF value.is = "scalar" THEN (<<>> :> Leaf(value.v))
    ELSE (<<>> :> EmptyDict) @@ [q \in {<<k>> : k \in DOMAIN value.m} |-> Leaf(value.m[q[1]])]

-----------------------------------------------------------------------------
(* Reading.                                                                 *)

\* _get_update_interpolation_result: update follows interpolations by code of
\* its own, to the node that reading them gives.
Target(c, p) == Deref(c, p).at

\* _get_update_interpolation_target
RefersToContainer(c, p) ==
    c[p].kind = "link" /\ Target(c, p) # NoPath /\ IsContainer(c[Target(c, p)])

\* _select_impl from the root: the node at a path, interpolations followed on
\* the way and at the end.  found: a node is there; failed: it raised.
Select(c, keys) ==
    LET Follow(p) ==
            IF p = NoPath \/ c[p].kind # "link" THEN [at |-> p, failed |-> FALSE]
            ELSE [at |-> Target(c, p), failed |-> Target(c, p) = NoPath]
        Step(r, k) == IF r.failed \/ r.at = NoPath THEN r
                      ELSE IF BadIndex(c, r.at, k) THEN [at |-> NoPath, failed |-> TRUE]
                      ELSE Follow(IF IsContainer(c[r.at]) THEN Child(c, r.at, k) ELSE NoPath)
    IN  FoldLeft(Step, [at |-> <<>>, failed |-> FALSE], keys)

\* OmegaConf.select(cfg, text): the tree of the node that is selected.
select(c, text) ==
    LET r == Select(c, split_key(text))
    IN  IF split_key(text) = <<>> \/ r.failed THEN [how |-> "raised"]
        ELSE IF r.at = NoPath \/ c[r.at].kind = "missing" THEN [how |-> "nothing"]
        ELSE [how |-> "found", tree |-> Below(c, r.at)]

-----------------------------------------------------------------------------
(* Writing.  A step gives the config it leaves, and whether it raised.      *)

Returns(c) == [cfg |-> c, raised |-> FALSE]
Raises(c)  == [cfg |-> c, raised |-> TRUE]

\* Mutant of SetItem: a key of a closed dict can be added.
SetItemOpen(c, p, k, sub) ==
    IF Flag(c, p, "readonly") \/ (c[p].kind = "list" /\ Child(c, p, k) = NoPath) THEN Raises(c)
    ELSE Returns(Graft(c, IF c[p].kind = "list" THEN Child(c, p, k) ELSE Append(p, k), sub))

\* __setitem__ and __setattr__ of the container at p.
SetItem(c, p, k, sub) ==
    IF \/ Flag(c, p, "readonly")
       \/ c[p].kind = "list" /\ Child(c, p, k) = NoPath
       \/ c[p].kind = "dict" /\ Child(c, p, k) = NoPath /\ Flag(c, p, "struct")
    THEN Raises(c)
    ELSE Returns(Graft(c, IF c[p].kind = "list" THEN Child(c, p, k) ELSE Append(p, k), sub))

\* flag_override(root, "struct", False) around a step, if force_add asks for it.
Open(c, p, force) == IF force THEN [c EXCEPT ![p].struct = "false"] ELSE c

\* Mutant of Closed: struct stays off if the step raises.
ClosedReturned(r, c, p, force) ==
    IF force /\ ~r.raised THEN [r EXCEPT !.cfg[p].struct = c[p].struct] ELSE r

Closed(r, c, p, force) == IF force THEN [r EXCEPT !.cfg[p].struct = c[p].struct] ELSE r

\* The step is done on config c with dict p opened.
SetForced(c, p, k, sub, force) ==
    Closed(SetItem(Open(c, p, force), p, k, sub), c, p, force)

\* node.merge_with(value), for the container at p.
MergeInto(c, p, m) ==
    LET Round(r, k) == IF r.raised THEN r ELSE SetItem(r.cfg, p, k, (<<>> :> Leaf(m[k])))
    IN  CASE c[p].kind = "dict" -> FoldLeft(Round, Returns(c), SetToSeq(DOMAIN m))
          [] c[p].kind = "none" -> IF DOMAIN m = {} THEN Returns(c) ELSE Raises(c)
          [] c[p].kind = "list" -> Raises(c)

\* Mutant of WalkKey: interpolations are not followed.
WalkKeyNoLinks(w, k, force) ==
    LET c     == w.cfg
        child == Child(c, w.at, k)
        fresh == SetForced(c, w.at, k, (<<>> :> EmptyDict), force)
    IN  IF w.raised THEN w
        ELSE IF \/ c[w.at].kind = "list" /\ BadIndex(c, w.at, k)
                \/ child # NoPath /\ c[child].kind = "none"
             THEN [w EXCEPT !.raised = TRUE]
        ELSE IF child # NoPath /\ IsContainer(c[child]) THEN [w EXCEPT !.at = child]
        ELSE IF fresh.raised THEN [w EXCEPT !.cfg = fresh.cfg, !.raised = TRUE]
        ELSE [cfg |-> fresh.cfg, raised |-> FALSE, at |-> Append(w.at, k)]

\* Mutant of WalkKey: only dicts are walked through.
WalkKeyDicts(w, k, force) ==
    LET c     == w.cfg
        child == Child(c, w.at, k)
        fresh == SetForced(c, w.at, k, (<<>> :> EmptyDict), force)
    IN  IF w.raised THEN w
        ELSE IF child # NoPath /\ c[child].kind = "dict" THEN [w EXCEPT !.at = child]
        ELSE IF fresh.raised THEN [w EXCEPT !.cfg = fresh.cfg, !.raised = TRUE]
        ELSE [cfg |-> fresh.cfg, raised |-> FALSE, at |-> Append(w.at, k)]

\* One key of the way.  at: where the walk is.
WalkKey(w, k, force) ==
    LET c     == w.cfg
        child == Child(c, w.at, k)
        link  == child # NoPath /\ c[child].kind = "link"
        next  == IF link /\ RefersToContainer(c, child) THEN Target(c, child) ELSE child
        fresh == SetForced(c, w.at, k, (<<>> :> EmptyDict), force)
    IN  IF w.raised THEN w
        ELSE IF \/ c[w.at].kind = "list" /\ BadIndex(c, w.at, k)
                \/ link /\ Target(c, child) = NoPath
                \/ next # NoPath /\ c[next].kind = "none"
             THEN [w EXCEPT !.raised = TRUE]
        ELSE IF next # NoPath /\ IsContainer(c[next]) THEN [w EXCEPT !.at = next]
        ELSE IF fresh.raised THEN [w EXCEPT !.cfg = fresh.cfg, !.raised = TRUE]
        ELSE [cfg |-> fresh.cfg, raised |-> FALSE, at |-> IF child # NoPath THEN child
                                                          ELSE Append(w.at, k)]

\* Mutant of Walk: force_add opens the last container only.
WalkClosed(c, keys, force) ==
    LET Step(w, k) == WalkKey(w, k, FALSE)
    IN  FoldLeft(Step, [cfg |-> c, raised |-> FALSE, at |-> <<>>], Front(keys))

Walk(c, keys, force) ==
    LET Step(w, k) == WalkKey(w, k, force)
    IN  FoldLeft(Step, [cfg |-> c, raised |-> FALSE, at |-> <<>>], Front(keys))

\* Mutant of Finish: a mapping is merged whether or not it is to be.
FinishMerging(c, p, k, value, merge, force) ==
    LET o     == Open(c, p, force)
        child == Child(o, p, k)
    IN  IF c[p].kind = "list" /\ BadIndex(c, p, k) THEN Raises(c)
        ELSE IF value.is = "mapping" /\ child # NoPath /\ IsContainer(o[child])
        THEN Closed(MergeInto(o, child, value.m), c, p, force)
        ELSE SetForced(c, p, k, Tree(value), force)

\* What happens at the last key.
Finish(c, p, k, value, merge, force) ==
    LET o     == Open(c, p, force)
        child == Child(o, p, k)
    IN  IF c[p].kind = "list" /\ BadIndex(c, p, k) THEN Raises(c)
        ELSE IF merge /\ value.is = "mapping" /\ child # NoPath /\ IsContainer(o[child])
        THEN Closed(MergeInto(o, child, value.m), c, p, force)
        ELSE SetForced(c, p, k, Tree(value), force)

-----------------------------------------------------------------------------
NoCall == [op |-> "none"]

Init == cfg \in Configs /\ call = NoCall /\ outcome = "returned"

\* OmegaConf.update(cfg, text, value, merge=merge, force_add=force): the walk,
\* and what it comes to.
update(text, value, merge, force) ==
    LET keys == split_key(text)
    IN  \E w \in {Walk(cfg, keys, force)} :
        \E r \in {IF keys = <<>> \/ w.raised THEN Raises(w.cfg)
                 ELSE Finish(w.cfg, w.at, Last(keys), value, merge, force)} :
            /\ Cardinality(DOMAIN r.cfg) <= MaxNodes
            /\ cfg' = r.cfg
            /\ outcome' = IF r.raised THEN "raised" ELSE "returned"
            /\ call' = [op |-> "update", text |-> text, value |-> value,
                        merge |-> merge, force |-> force]

\* select of a path that is written with brackets or dots, of a dotlist entry
\* with that path, or of a full key.  What they read of the text does not
\* depend on the config, so it is enough that they are called on an empty one.
select_path(keys, bracket) ==
    LET text == Written(keys, bracket)
    IN  /\ DOMAIN cfg = {<<>>}
        /\ call' = [op |-> "select", keys |-> keys, read |-> split_key(text),
                    read_slow |-> SlowSplit(text),
                    entry |-> split_key(Part(text, 1, _find_eq(text \o <<"=", "v", "=">>) - 1)),
                    full_key |-> split_key(FullKey(keys, bracket))]
        /\ outcome' = "returned"
        /\ UNCHANGED cfg

\* set_struct, set_readonly
SetFlag(p, f, v) ==
    /\ Has(cfg, p) /\ IsContainer(cfg[p])
    /\ cfg' = [cfg EXCEPT ![p] = [@ EXCEPT ![f] = v]]
    /\ call' = NoCall /\ outcome' = "returned"

Next ==
    \/ \E text \in Texts, value \in Values, merge, force \in BOOLEAN :
          update(text, value, merge, force)
    \/ \E n \in 1..MaxPath :
          \E keys \in [1..n -> KeyTexts], bracket \in [1..n -> BOOLEAN] : select_path(keys, bracket)
    \/ \E p \in Flagged, f \in {"struct", "readonly"}, v \in {"unset", "true"} : SetFlag(p, f, v)

Spec == Init /\ [][Next]_vars

-----------------------------------------------------------------------------
(* Properties.                                                              *)

TypeOK ==
    /\ \A p \in DOMAIN cfg :
          /\ cfg[p].kind \in ContainerKinds \cup {"leaf", "link", "missing"}
          /\ cfg[p].struct \in {"unset", "true"} /\ cfg[p].readonly \in {"unset", "true"}
          /\ p # <<>> => Has(cfg, Front(p)) /\ cfg[Front(p)].kind \in {"dict", "list"}
          /\ cfg[p].kind = "list" => Keys(cfg, p) \subseteq DOMAIN Position
    /\ cfg[<<>>].kind = "dict"

\* A path that is written as documented is read as that path, whatever mixture
\* of dots and brackets it is written in and whichever implementation reads
\* it; in a dotlist entry it ends where the value's "=" begins; and the full
\* key of a node, if no key needs an escape, is the path of the node.
PathsReadBack ==
    [][call'.op = "select" =>
        /\ call'.read = call'.keys /\ call'.read_slow = call'.keys /\ call'.entry = call'.keys
        /\ (\A i \in 1..Len(call'.keys) : Escaped(call'.keys[i]) = call'.keys[i]) =>
              call'.full_key = call'.keys]_vars

Updates == call'.op = "update"
Succeeds == Updates /\ outcome' = "returned"

\* The nodes a step adds, removes or changes.
Changed ==
    {p \in DOMAIN cfg \cup DOMAIN cfg' :
        ~(Has(cfg, p) /\ Has(cfg', p)) \/ cfg[p] # cfg'[p]}

\* An update that returns has written: select with the same text gives the
\* value, or the container that now has its entries, also where the path leads
\* through interpolations.
SelectsWhatWasSet ==
    [][Succeeds =>
        LET selected == select(cfg', call'.text)
            got  == selected.tree
            tree == Tree(call'.value)
        IN  /\ selected.how = "found"
            /\ \A p \in DOMAIN tree \ {<<>>} : p \in DOMAIN got /\ got[p] = tree[p]
            /\ call'.value.is = "scalar" \/ ~call'.merge => got = tree]_vars

\* What a walk may make an empty dict of: what holds and leads to no items.
Dispensable(p) == Has(cfg, p) => ~IsContainer(cfg[p]) /\ ~RefersToContainer(cfg, p)

\* ... and written there only: what has changed is at, above or below the node
\* selected, and what is above has become a dict and was no way into a container.
OthersKept ==
    [][Succeeds =>
        LET p == Select(cfg', split_key(call'.text)).at
        IN  \A q \in Changed : \/ IsPrefix(p, q)
                               \/ IsBelow(q, p) /\ cfg'[q] = EmptyDict /\ Dispensable(q)]_vars

\* The config stays a tree of items in containers, and an update that raises has
\* at most put empty dicts in a chain, where there was no container: no
\* container, entry or item is lost.
FailureKeepsContainers ==
    [][/\ TypeOK'
       /\ Updates /\ outcome' = "raised" =>
            /\ \A p \in Changed : cfg'[p] = EmptyDict /\ Dispensable(p)
            /\ \A p, q \in Changed : IsPrefix(p, q) \/ IsPrefix(q, p)]_vars

\* A container that an update does not replace.
Stays(p) ==
    /\ Has(cfg, p) /\ IsContainer(cfg[p]) /\ Has(cfg', p) /\ IsContainer(cfg'[p])
    /\ call'.value.is = "scalar" \/ call'.merge

\* Containers keep their flags, closed dicts their keys unless force_add is
\* given, readonly containers their items, whether the update raises or not;
\* with force_add, struct refuses no scalar ("insert the entire path regardless
\* of Struct flag"): an update raises for another reason.
FlagsRespected ==
    [][Updates =>
        /\ \A p \in DOMAIN cfg : Stays(p) =>
            /\ cfg'[p].struct = cfg[p].struct /\ cfg'[p].readonly = cfg[p].readonly
            /\ Flag(cfg, p, "struct") /\ ~call'.force => Keys(cfg', p) = Keys(cfg, p)
            /\ Flag(cfg, p, "readonly") => \A q \in Items(cfg', p) : q \notin Changed
        /\ outcome' = "raised" /\ call'.force /\ call'.value.is = "scalar" =>
            \/ split_key(call'.text) = <<>>
            \/ \E p \in DOMAIN cfg : \/ cfg[p].readonly = "true"
                                     \/ cfg[p].kind \in {"none", "list", "link"}]_vars
=============================================================================
