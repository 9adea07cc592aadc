------------------------------ MODULE FlagTree ------------------------------
(***************************************************************************)
(* Configuration flags (readonly, struct, ...) of a tree of nodes, and the  *)
(* cache each node keeps of the flags it inherits: base.py.                 *)
(*                                                                          *)
(* A flag that is unset on a node is inherited from the node's parent.  A   *)
(* node remembers the answer in _flags_cache; a change of a flag or of a    *)
(* parent clears the cache of the node and of the part of its subtree that  *)
(* is reachable through nodes whose cache is initialised.  The module has   *)
(* every operation that touches flags, caches, parents or contents: the     *)
(* flag calls themselves, item assignment (with and without a deep copy),   *)
(* deletion, deepcopy, replacement of a whole content, and _re_parent.      *)
(*                                                                          *)
(* Keys and values play no part: a container's _content is the set of its   *)
(* child nodes.  "live" holds the nodes that have been constructed.         *)
(***************************************************************************)
EXTENDS Reach

CONSTANTS
    Node,       \* every node object of a behaviour
    Leaf,       \* the ones that are ValueNodes: they never have children
    Flag,       \* flag names
    NoNode,     \* the parent of a root (Python's None)
    Settable,   \* the values callers pass to _set_flag ("unset" is None)
    Rootable    \* the nodes callers make flags roots

ASSUME NodeAssumption == NoNode \notin Node /\ Leaf \subseteq Node /\ Rootable \subseteq Node
ASSUME SettableAssumption == Settable \subseteq {"unset", "true", "false"}

VARIABLES
    live,       \* constructed nodes
    parent,     \* _parent
    children,   \* the nodes of _content
    flags,      \* _metadata.flags
    flagsRoot,  \* _metadata.flags_root
    cache       \* _flags_cache; all "absent" is Python's None

vars == <<live, parent, children, flags, flagsRoot, cache>>

Setting == {"unset", "true", "false"}
Cached  == Setting \cup {"absent"}
NoFlags == [f \in Flag |-> "unset"]
NoCache == [f \in Flag |-> "absent"]

TypeOK ==
    /\ live \in SUBSET Node
    /\ parent \in [Node -> Node \cup {NoNode}]
    /\ children \in [Node -> SUBSET Node]
    /\ flags \in [Node -> [Flag -> Setting]]
    /\ flagsRoot \in [Node -> BOOLEAN]
    /\ cache \in [Node -> [Flag -> Cached]]
    /\ \A n \in Node : parent[n] \in live \cup {NoNode} /\ children[n] \subseteq live
    /\ \A n \in Node \ live : parent[n] = NoNode /\ cache[n] = NoCache
    /\ \A n \in Leaf \cup (Node \ live) : children[n] = {}

-----------------------------------------------------------------------------
(* Walks.                                                                   *)

\* A container and everything below it.
Subtree(n) == ReachFrom(Node, children, n)

\* The nodes _get_root passes.
Ancestors(n) == ReachFrom(Node, [k \in Node |-> {parent[k]} \ {NoNode}], n)

\* Mutant of InvalidatedIn: the walk does not descend into contents.
InvalidatedAlone(ca, n) == {n}

\* The nodes _invalidate_flags_cache clears, given the caches ca: it goes on
\* to the children of a container only if the container's cache is set.
InvalidatedIn(ca, n) ==
    ReachFrom(Node, [k \in Node |-> IF ca[k] = NoCache THEN {} ELSE children[k]], n)

Invalidated(n) == InvalidatedIn(cache, n)

\* ca after _invalidate_flags_cache on n.
Invalidate(ca, n) ==
    LET cleared == InvalidatedIn(ca, n)
    IN  [m \in Node |-> IF m \in cleared THEN NoCache ELSE ca[m]]

\* n defers flag f to its parent.
Inherits(n, f) == flags[n][f] = "unset" /\ ~flagsRoot[n] /\ parent[n] # NoNode

\* _get_flag on n calls _get_flag on n's parent.
Asks(n, f) == cache[n][f] = "absent" /\ Inherits(n, f)

\* The nodes visited by a call of _get_flag(f) on n.
ReadPath(n, f) ==
    ReachFrom(Node, [k \in Node |-> IF Asks(k, f) THEN {parent[k]} ELSE {}], n)

\* What the last node of the path answers.  An unset flag of a flags root, or
\* of a node without a parent, reads as None ("unset").
Answer(n, f) == IF cache[n][f] # "absent" THEN cache[n][f] ELSE flags[n][f]

-----------------------------------------------------------------------------
Init ==
    \E r \in Node \ Leaf :
        /\ live = {r}
        /\ parent = [n \in Node |-> NoNode]
        /\ children = [n \in Node |-> {}]
        /\ flags = [n \in Node |-> NoFlags]
        /\ flagsRoot = [n \in Node |-> FALSE]
        /\ cache = [n \in Node |-> NoCache]

Fresh == Node \ live
Box == live \ Leaf

\* The slot an assignment overwrites: nothing (a new key) or one old child.
Slot(p) == {{}} \cup {{c} : c \in children[p]}

\* OmegaConf.create({}): another root.
CreateRoot(n) ==
    /\ n \in Fresh \ Leaf
    /\ live' = live \cup {n}
    /\ UNCHANGED <<parent, children, flags, flagsRoot, cache>>

\* p[key] = plain value: the value is wrapped in a new node whose parent is p.
\* The node it replaces keeps its _parent pointer.
SetPlain(p, n, old) ==
    /\ p \in Box /\ n \in Fresh /\ old \in Slot(p)
    /\ live' = live \cup {n}
    /\ parent' = [parent EXCEPT ![n] = p]
    /\ children' = [children EXCEPT ![p] = (@ \ old) \cup {n}]
    /\ UNCHANGED <<flags, flagsRoot, cache>>

\* del p[key], pop, remove: the node leaves the content and keeps _parent.
Remove(p, c) ==
    /\ p \in Box /\ c \in children[p]
    /\ children' = [children EXCEPT ![p] = @ \ {c}]
    /\ UNCHANGED <<live, parent, flags, flagsRoot, cache>>

\* _set_value(None), "???" or an interpolation: the content is dropped and
\* nothing else changes.
SetSpecial(n) ==
    /\ n \in Box
    /\ children' = [children EXCEPT ![n] = {}]
    /\ UNCHANGED <<live, parent, flags, flagsRoot, cache>>

\* _set_value with a container: the content is emptied and filled again with
\* new nodes, under a flag_override whose _set_flag calls clear n's own cache
\* and the (still empty) caches of the new content.  A DictConfig or
\* ListConfig value also resets the flags of n.
SetValue(n, new, keep) ==
    /\ n \in Box /\ new \subseteq Fresh
    /\ live' = live \cup new
    /\ parent' = [m \in Node |-> IF m \in new THEN n ELSE parent[m]]
    /\ children' = [children EXCEPT ![n] = new]
    /\ flags' = IF keep THEN flags ELSE [flags EXCEPT ![n] = NoFlags]
    /\ cache' = [cache EXCEPT ![n] = NoCache]
    /\ UNCHANGED flagsRoot

\* _set_value that raises half way: the old content is put back, the reset of
\* the flags and the cleared cache of n are not undone.
SetValueFails(n, keep) ==
    /\ n \in Box
    /\ flags' = IF keep THEN flags ELSE [flags EXCEPT ![n] = NoFlags]
    /\ cache' = [cache EXCEPT ![n] = NoCache]
    /\ UNCHANGED <<live, parent, children, flagsRoot>>

\* Every node below s points to the container that holds it.  A tree whose
\* nodes were handed to another one without a copy is not intact; the inputs
\* of unsafe_merge "should no longer be used after this call".
Intact(s) == \A m \in Subtree(s) : \A c \in children[m] : parent[c] = m

\* The ways to number the nodes of a deep copy of s: one-to-one maps of fresh
\* nodes onto the subtree of s.
CopyMaps(s) ==
    LET sub == Subtree(s)
    IN  {from \in UNION {[D -> sub] : D \in SUBSET Fresh} :
            /\ \A d \in DOMAIN from : d \in Leaf <=> from[d] \in Leaf
            /\ \A d, e \in DOMAIN from : from[d] = from[e] => d = e
            /\ \A m \in sub : \E d \in DOMAIN from : from[d] = m}

\* __deepcopy__ of s: flags and caches are copied (a ValueNode starts without a
\* cache), every copied child points to its copied container, and the copy of
\* s itself gets the parent "up".
Copies(s, from, up) ==
    /\ live' = live \cup DOMAIN from
    /\ parent' = [n \in Node |->
                    IF n \notin DOMAIN from THEN parent[n]
                    ELSE IF from[n] = s THEN up
                    ELSE CHOOSE d \in DOMAIN from : from[d] = parent[from[n]]]
    /\ flags' = [n \in Node |-> IF n \in DOMAIN from THEN flags[from[n]] ELSE flags[n]]
    /\ flagsRoot' = [n \in Node |->
                       IF n \in DOMAIN from THEN flagsRoot[from[n]] ELSE flagsRoot[n]]

\* The contents of the copies.
CopiedChildren(from) ==
    [n \in Node |-> IF n \in DOMAIN from
                    THEN {d \in DOMAIN from : from[d] \in children[from[n]]}
                    ELSE children[n]]

\* The caches of the copies when the caches of the originals are ca.
CopiedCache(from, ca) ==
    [n \in Node |-> IF n \notin DOMAIN from THEN cache[n]
                    ELSE IF n \in Leaf THEN NoCache ELSE ca[from[n]]]

\* copy.deepcopy(s): "parent is retained, but not copied".
DeepCopy(s, from) ==
    /\ Copies(s, from, parent[s])
    /\ children' = CopiedChildren(from)
    /\ cache' = CopiedCache(from, cache)

\* Mutant of SetNode: the copy is attached without clearing its cache.
SetNodeKeepingCache(p, s, from, old) ==
    /\ old \in Slot(p)
    /\ Copies(s, from, p)
    /\ children' = [CopiedChildren(from) EXCEPT
                      ![p] = (@ \ old) \cup {d \in DOMAIN from : from[d] = s}]
    /\ cache' = CopiedCache(from, cache)

\* p[key] = s for a node s: a deep copy of s is attached to p, and _set_parent
\* clears the cache of the copy.
SetNode(p, s, from, old) ==
    /\ old \in Slot(p)
    /\ Copies(s, from, p)
    /\ children' = [CopiedChildren(from) EXCEPT
                      ![p] = (@ \ old) \cup {d \in DOMAIN from : from[d] = s}]
    /\ cache' = CopiedCache(from, Invalidate(cache, s))

\* Mutant of SetNodeNoCopy: the moved node keeps the cache of its old parent.
SetNodeNoCopyKeepingCache(p, s, old) ==
    /\ p \in Box /\ s \in live /\ old \in Slot(p)
    /\ s \in Leaf \/ Ancestors(p) \cap Ancestors(s) = {}
    /\ parent' = [parent EXCEPT ![s] = p]
    /\ children' = [children EXCEPT ![p] = (@ \ old) \cup {s}]
    /\ UNCHANGED <<live, flags, flagsRoot, cache>>

\* p[key] = s under the flag no_deepcopy_set_nodes: s itself is attached,
\* unless it is a container of the same configuration.
SetNodeNoCopy(p, s, old) ==
    /\ p \in Box /\ s \in live /\ old \in Slot(p)
    /\ s \in Leaf \/ Ancestors(p) \cap Ancestors(s) = {}
    /\ parent' = [parent EXCEPT ![s] = p]
    /\ children' = [children EXCEPT ![p] = (@ \ old) \cup {s}]
    /\ cache' = Invalidate(cache, s)
    /\ UNCHANGED <<live, flags, flagsRoot>>

\* _re_parent, which ends every merge: each node below n is given the parent
\* that holds it and loses its cache.
ReParent(n) ==
    LET sub   == Subtree(n)
        below == UNION {children[m] : m \in sub}
    IN  /\ n \in Box
        /\ \E up \in [below -> sub] :
              /\ \A c \in below : c \in children[up[c]]
              /\ parent' = [m \in Node |-> IF m \in below THEN up[m] ELSE parent[m]]
        /\ cache' = [m \in Node |-> IF m \in below THEN NoCache ELSE cache[m]]
        /\ UNCHANGED <<live, children, flags, flagsRoot>>

-----------------------------------------------------------------------------
(* The flag calls.                                                          *)

\* Mutant of SetFlag: an unset flag is stored as the cache's "not known" marker.
SetFlagMarker(n, f, v) ==
    /\ n \in live
    /\ flags' = [flags EXCEPT ![n][f] = IF v = "unset" THEN "absent" ELSE v]
    /\ cache' = Invalidate(cache, n)
    /\ UNCHANGED <<live, parent, children, flagsRoot>>

SetFlag(n, f, v) ==
    /\ n \in live
    /\ flags' = [flags EXCEPT ![n][f] = v]
    /\ cache' = Invalidate(cache, n)
    /\ UNCHANGED <<live, parent, children, flagsRoot>>

\* Mutant of SetFlagsRoot: the caches below are not cleared.
SetFlagsRootOnly(n, b) ==
    /\ n \in live /\ flagsRoot[n] # b
    /\ flagsRoot' = [flagsRoot EXCEPT ![n] = b]
    /\ UNCHANGED <<live, parent, children, flags, cache>>

SetFlagsRoot(n, b) ==
    /\ n \in live /\ flagsRoot[n] # b
    /\ flagsRoot' = [flagsRoot EXCEPT ![n] = b]
    /\ cache' = Invalidate(cache, n)
    /\ UNCHANGED <<live, parent, children, flags>>

\* _get_flag: the first node of the path that need not ask its parent answers,
\* and every node on the way caches the answer.
GetFlag(n, f) ==
    LET path == ReadPath(n, f)
    IN  /\ n \in live
        /\ \E e \in path :
              /\ \A m \in path : Asks(m, f) <=> m # e
              /\ cache' = [m \in Node |-> IF m \in path
                                         THEN [cache[m] EXCEPT ![f] = Answer(e, f)]
                                         ELSE cache[m]]
        /\ UNCHANGED <<live, parent, children, flags, flagsRoot>>

CopyingNext ==
    \/ \E n \in Node : CreateRoot(n)
    \/ \E p, n \in Node : \E old \in Slot(p) : SetPlain(p, n, old)
    \/ \E p, c \in Node : Remove(p, c)
    \/ \E n \in Node : SetSpecial(n)
    \/ \E n \in Node, new \in SUBSET Fresh, keep \in BOOLEAN : SetValue(n, new, keep)
    \/ \E s \in live : Intact(s) /\ \E from \in CopyMaps(s) :
          \/ DeepCopy(s, from)
          \/ \E p \in Box : \E old \in Slot(p) : SetNode(p, s, from, old)
    \/ \E n \in Node : ReParent(n)
    \/ \E n \in Node, f \in Flag, v \in Settable : SetFlag(n, f, v)
    \/ \E n \in Rootable, b \in BOOLEAN : SetFlagsRoot(n, b)
    \/ \E n \in Node, f \in Flag : GetFlag(n, f)

Next ==
    \/ CopyingNext
    \/ \E p, s \in Node : \E old \in Slot(p) : SetNodeNoCopy(p, s, old)

\* Configurations on which every call returns.
Spec == Init /\ [][Next]_vars

\* The same where none has the flag no_deepcopy_set_nodes, ...
CopyingSpec == Init /\ [][CopyingNext]_vars

\* ... and with replacements that raise half way.
SpecWithFailures ==
    Init /\ [][CopyingNext \/ \E n \in Node, keep \in BOOLEAN : SetValueFails(n, keep)]_vars

-----------------------------------------------------------------------------
(* Properties.                                                              *)

\* The container n points to as its parent really holds it.
Attached(n) == parent[n] # NoNode => n \in children[parent[n]]

\* The nodes whose settings decide flag f for n, by the documented rule: a
\* node that does not set the flag inherits it from its parent.
Inheritance(n, f) ==
    ReachFrom(Node, [k \in Node |-> IF Inherits(k, f) THEN {parent[k]} ELSE {}], n)

\* v is the value flag f has on n by that rule.
Effective(n, f, v) ==
    \A e \in Inheritance(n, f) : ~Inherits(e, f) => v = flags[e][f]

\* A cached answer is the setting of the node itself, or None at a root, or
\* the answer its parent has cached as well: what makes it enough to clear a
\* subtree only as far as caches are initialised.
CacheSupported ==
    \A n \in Node, f \in Flag :
        Attached(n) /\ cache[n][f] # "absent" =>
            IF Inherits(n, f) THEN cache[n][f] = cache[parent[n]][f]
                              ELSE cache[n][f] = flags[n][f]

\* No flag that is read is stale: for a node whose chain of parents is intact,
\* the cached answer is the value the documented inheritance rule gives.
FlagsInherited ==
    \A n \in Node, f \in Flag :
        /\ cache[n][f] # "absent"
        /\ \A m \in Inheritance(n, f) : Attached(m)
        => Effective(n, f, cache[n][f])
=============================================================================
