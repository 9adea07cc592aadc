------------------------------- MODULE Walks -------------------------------
(***************************************************************************)
(* What walks over a whole config: OmegaConf.resolve, which replaces every  *)
(* interpolation by what it refers to while it walks, and the readers       *)
(* to_container, missing_keys, == and structural_equality.                  *)
(*                                                                          *)
(* resolve is a stack machine, a step for each node it comes to: at an      *)
(* interpolation of a container it first resolves that container, where it  *)
(* is, and then puts a copy of it in place of the interpolation; at one of  *)
(* a leaf it puts the value.  The readers are operators.  A config is a     *)
(* tree of ConfigTree; the keys of a dict are walked in any order, as they  *)
(* may have been inserted in any.                                           *)
(***************************************************************************)
EXTENDS ConfigTree

CONSTANTS
    Configs,    \* the configs a behaviour begins with
    Repairs,    \* the paths callers assign a leaf to
    Masks,      \* the sets of keys of masked_copy
    MaxDepth    \* bound: Python's recursion limit, in containers being walked

VARIABLES
    cfg,        \* the config
    was,        \* the config resolve was called on
    stack,      \* the containers resolve is walking, the innermost first
    outcome     \* how the last resolve ended

vars == <<cfg, was, stack, outcome>>

-----------------------------------------------------------------------------
(* Readers.                                                                 *)

\* The values of a tree: its nodes without flags.
Values(tree) == [p \in DOMAIN tree |-> Node(tree[p].kind, tree[p].arg)]

Failed == << >>     \* no tree: the reader raised

\* The tree with the trees "sub", by key, under a container n.
Join(n, sub) ==
    LET below == UNION {{<<k>> \o p : p \in DOMAIN sub[k]} : k \in DOMAIN sub}
    IN  [p \in below \cup {<<>>} |-> IF p = <<>> THEN n ELSE sub[p[1]][Tail(p)]]

\* _to_content of the node at p: the tree it is converted to, interpolations
\* resolved or as they are, a missing value raising or as it is.
_to_content(c, p, resolve, throw_on_missing) ==
    LET node(q) == IF resolve /\ c[q].kind = "link" THEN Deref(c, q).at ELSE q
        content[n \in 0..MaxDepth, q \in DOMAIN c \cup {NoPath}] ==
            IF n = 0 \/ q = NoPath \/ (throw_on_missing /\ c[q].kind = "missing") THEN Failed
            ELSE LET sub == [k \in Keys(c, q) |-> content[n - 1, node(Append(q, k))]]
                 IN  IF \E k \in DOMAIN sub : sub[k] = Failed THEN Failed
                     ELSE Join(Node(c[q].kind, c[q].arg), sub)
    IN  content[MaxDepth, node(p)]

structural_equality(c, p, d, q) ==
    _to_content(c, p, FALSE, FALSE) = _to_content(d, q, FALSE, FALSE)

\* missing_keys: the paths of missing values and of interpolations that come
\* to one.  An interpolation of a container is followed into it, one that
\* does not resolve raises.
missing_keys(c) ==
    LET Nothing == [keys |-> {}, raised |-> FALSE]
        Raised  == [keys |-> {}, raised |-> TRUE]
        gather[n \in 0..MaxDepth, p \in DOMAIN c] ==
            LET Item(q) ==
                    LET to == IF c[q].kind = "link" THEN Deref(c, q)
                              ELSE [at |-> q, missing |-> c[q].kind = "missing"]
                    IN  IF to.missing THEN [Nothing EXCEPT !.keys = {q}]
                        ELSE IF to.at = NoPath THEN Raised
                        ELSE IF IsContainer(c[to.at]) THEN gather[n - 1, to.at]
                        ELSE Nothing
            IN  IF n = 0 \/ \E q \in Items(c, p) : Item(q).raised THEN Raised
                ELSE [Nothing EXCEPT !.keys = UNION {Item(q).keys : q \in Items(c, p)}]
    IN  gather[MaxDepth, <<>>]

\* Mutant of Equal: only one side's interpolations are resolved.
EqualHalfResolved(c, p, d, q) ==
    LET eq[n \in 0..MaxDepth, r \in DOMAIN c, s \in DOMAIN d] ==
            LET to   == IF c[r].kind = "link" THEN Deref(c, r).at ELSE r
                from == s
            IN  IF to = NoPath THEN d[from].kind = "none"
                ELSE /\ c[to].kind = d[from].kind
                     /\ n > 0
                     /\ IF c[to].kind \in {"dict", "list"}
                        THEN /\ Keys(c, to) = Keys(d, from)
                             /\ \A k \in Keys(c, to) : eq[n - 1, Append(to, k), Append(from, k)]
                        ELSE c[to].arg = d[from].arg
    IN  eq[MaxDepth, p, q]

\* _item_eq, with _dict_conf_eq and _list_eq for containers: interpolations
\* are compared by what they resolve to; one that does not resolve is None,
\* or its text if both are interpolations.
Equal(c, p, d, q) ==
    LET eq[n \in 0..MaxDepth, r \in DOMAIN c, s \in DOMAIN d] ==
            LET to   == IF c[r].kind = "link" THEN Deref(c, r).at ELSE r
                from == IF d[s].kind = "link" THEN Deref(d, s).at ELSE s
            IN  IF c[r].kind = "link" /\ d[s].kind = "link" /\ NoPath \in {to, from}
                THEN c[r].arg = d[s].arg
                ELSE IF to = NoPath THEN d[from].kind = "none"
                ELSE IF from = NoPath THEN c[to].kind = "none"
                ELSE /\ c[to].kind = d[from].kind
                     /\ n > 0
                     /\ IF c[to].kind \in {"dict", "list"}
                        THEN /\ Keys(c, to) = Keys(d, from)
                             /\ \A k \in Keys(c, to) : eq[n - 1, Append(to, k), Append(from, k)]
                        ELSE c[to].arg = d[from].arg
    IN  eq[MaxDepth, p, q]

-----------------------------------------------------------------------------
(* resolve.                                                                 *)

\* A container being walked: its keys left to do, and the interpolation to be
\* replaced by it when it is done, or NoPath.
Frame(p, goal) == [at |-> p, todo |-> Keys(cfg, p), goal |-> goal]

Idle == stack = <<>>

Init ==
    /\ cfg \in Configs /\ was = cfg
    /\ stack = <<>> /\ outcome = "none"

Raise(how) == stack' = <<>> /\ outcome' = how /\ UNCHANGED <<cfg, was>>

\* OmegaConf.resolve(cfg) is called.
resolve ==
    /\ Idle
    /\ stack' = <<Frame(<<>>, NoPath)>>
    /\ was' = cfg /\ outcome' = "none"
    /\ UNCHANGED cfg

\* Key k is next in the container walked, in a list by its position.
IsNext(k) ==
    /\ ~Idle /\ k \in Head(stack).todo
    /\ cfg[Head(stack).at].kind = "list" =>
          \A j \in Head(stack).todo : Position[k] <= Position[j]

\* Mutant of Did: what has been resolved is looked at again.
DidAgain(k) == IF cfg[Append(Head(stack).at, k)].kind = "leaf"
               THEN <<[Head(stack) EXCEPT !.todo = @ \ {k}]>> \o Tail(stack) ELSE stack

\* The stack with key k of its first frame done.
Did(k) == <<[Head(stack) EXCEPT !.todo = @ \ {k}]>> \o Tail(stack)

\* Mutant of Walk: an interpolation of a container does not have it resolved.
WalkNotResolving(k, p, goal) ==
    IF Len(stack) = MaxDepth THEN Raise("recursion")
    ELSE /\ stack' = <<IF goal = NoPath THEN Frame(p, goal) ELSE [Frame(p, goal) EXCEPT !.todo = {}]>> \o Did(k)
         /\ UNCHANGED <<cfg, was, outcome>>

\* _resolve of the container at p.
Walk(k, p, goal) ==
    IF Len(stack) = MaxDepth THEN Raise("recursion")
    ELSE /\ stack' = <<Frame(p, goal)>> \o Did(k)
         /\ UNCHANGED <<cfg, was, outcome>>

\* Mutant of ResolveKey: an interpolation that does not resolve is left.
ResolveKeyLenient(k) ==
    LET q  == Append(Head(stack).at, k)
        to == IF cfg[q].kind = "link" THEN Deref(cfg, q).at ELSE q
    IN  /\ IsNext(k)
        /\ IF to = NoPath THEN stack' = Did(k) /\ UNCHANGED <<cfg, was, outcome>>
           ELSE IF cfg[to].kind \in {"dict", "list"} \/ (to # q /\ IsContainer(cfg[to]))
                THEN Walk(k, to, IF to = q THEN NoPath ELSE q)
           ELSE IF to # q /\ Flag(cfg, q, "readonly") THEN Raise("raised")
           ELSE /\ cfg' = [cfg EXCEPT ![q] = [@ EXCEPT !.kind = cfg[to].kind, !.arg = cfg[to].arg]]
                /\ stack' = Did(k)
                /\ UNCHANGED <<was, outcome>>

\* _resolve_container_value of the node at key k: an interpolation that does
\* not resolve raises, one of a container has it walked first, one of a leaf
\* gets its value; any other node is walked if it has keys.
ResolveKey(k) ==
    LET q  == Append(Head(stack).at, k)
        to == IF cfg[q].kind = "link" THEN Deref(cfg, q).at ELSE q
    IN  /\ IsNext(k)
        /\ IF to = NoPath THEN Raise("raised")
           ELSE IF cfg[to].kind \in {"dict", "list"} \/ (to # q /\ IsContainer(cfg[to]))
                THEN Walk(k, to, IF to = q THEN NoPath ELSE q)
           ELSE IF to # q /\ Flag(cfg, q, "readonly") THEN Raise("raised")
           ELSE /\ cfg' = [cfg EXCEPT ![q] = [@ EXCEPT !.kind = cfg[to].kind, !.arg = cfg[to].arg]]
                /\ stack' = Did(k)
                /\ UNCHANGED <<was, outcome>>

\* The container is done; cfg[key] = resolved copies it to where the
\* interpolation was.
Return ==
    LET top == Head(stack)
    IN  /\ ~Idle /\ top.todo = {}
        /\ IF top.goal # NoPath /\ Flag(cfg, Front(top.goal), "readonly") THEN Raise("raised")
           ELSE /\ cfg' = IF top.goal = NoPath THEN cfg
                          ELSE Graft(cfg, top.goal, Below(cfg, top.at))
                /\ stack' = Tail(stack)
                /\ outcome' = IF Len(stack) = 1 THEN "returned" ELSE outcome
                /\ UNCHANGED was

-----------------------------------------------------------------------------
(* What callers do between two walks.                                       *)

\* A leaf in place of what is there: cfg.a.b = 1.
assign(p, v) ==
    /\ Idle /\ Has(cfg, p) /\ ~IsContainer(cfg[p]) /\ ~Flag(cfg, p, "readonly")
    /\ cfg' = Graft(cfg, p, (<<>> :> Leaf(v)))
    /\ was' = cfg' /\ outcome' = "none"
    /\ UNCHANGED stack

\* OmegaConf.masked_copy(cfg, keys) is what is used from now on; the copy is
\* a new root, without the flags of the first.
masked_copy(keys) ==
    /\ Idle
    /\ cfg' = [p \in {q \in DOMAIN cfg : q = <<>> \/ q[1] \in keys} |->
                  IF p = <<>> THEN EmptyDict ELSE cfg[p]]
    /\ was' = cfg' /\ outcome' = "none"
    /\ UNCHANGED stack

Callers ==
    \/ resolve
    \/ \E p \in Repairs : assign(p, 1)
    \/ \E keys \in Masks : masked_copy(keys)

Step == ~Idle /\ (Return \/ \E k \in Head(stack).todo : ResolveKey(k))

Next == Callers \/ Step

\* A call of resolve runs on by itself: it is one thread's.
Spec == Init /\ [][Next]_vars /\ WF_vars(Step)

-----------------------------------------------------------------------------
(* Properties.                                                              *)

TypeOK ==
    /\ \A p \in DOMAIN cfg :
          /\ cfg[p].kind \in ContainerKinds \cup {"leaf", "link", "missing"}
          /\ p # <<>> => Has(cfg, Front(p)) /\ cfg[Front(p)].kind \in {"dict", "list"}
    /\ \A i \in 1..Len(stack) :
          /\ stack[i].todo \subseteq Keys(cfg, stack[i].at)
          /\ stack[i].goal # NoPath => cfg[stack[i].goal].kind = "link"
    /\ outcome \in {"none", "returned", "raised", "recursion"}

Resolved(c, p) == _to_content(c, p, TRUE, FALSE)

\* Replacing interpolations in place changes no value: whatever a step of
\* resolve has replaced, and whether the call ends in an error after it, each
\* node reads as it did before.
ResolveKeepsValues ==
    [][cfg' # cfg /\ ~Idle => \A p \in DOMAIN cfg : Resolved(cfg', p) = Resolved(cfg, p)]_vars

\* The containers that resolving the container at p resolves.
Needs(c, p) ==
    {q \in DOMAIN c : /\ IsContainer(c[q])
                      /\ \E r \in Items(c, p) :
                            q = (IF c[r].kind = "link" THEN Deref(c, r).at ELSE r)}

\* The containers in one set or needed by them, n times over.
Needed(c, ps) ==
    LET need[n \in 0..Cardinality(DOMAIN c)] ==
            IF n = 0 THEN ps ELSE need[n - 1] \cup UNION {Needs(c, p) : p \in need[n - 1]}
    IN  need[Cardinality(DOMAIN c)]

Cyclic(c) == \E p \in DOMAIN c : IsContainer(c[p]) /\ p \in Needed(c, Needs(c, p))

\* resolve gives in place what to_container(resolve=True) gives: when it
\* returns there is no interpolation left, it raises only if a node is readonly
\* or the conversion raises, and it exhausts the stack only if containers refer
\* to each other by interpolations.
ResolveIsToContainer ==
    /\ TypeOK
    /\ outcome = "returned" => Values(cfg) = Resolved(was, <<>>)
    /\ outcome \in {"raised", "recursion"} =>
          Resolved(was, <<>>) = Failed \/ \E p \in DOMAIN was : was[p].readonly = "true"
    /\ outcome = "recursion" => Cyclic(was)

\* A call of resolve ends.
ResolveEnds == ~Idle ~> Idle

\* missing_keys is empty exactly if a conversion that raises on missing values
\* does not raise, and if it raises itself, that one does for another reason.
MissingKeysExact ==
    LET missing == missing_keys(cfg)
    IN  /\ ~missing.raised =>
              ((missing.keys = {}) <=> (_to_content(cfg, <<>>, TRUE, TRUE) # Failed))
        /\ missing.raised => Resolved(cfg, <<>>) = Failed

\* Two containers whose interpolations resolve are equal exactly if they
\* convert to the same values; so a resolved config equals the original, and
\* a part of a config what has been copied from it.
EqualityIsByValue ==
    \A c \in {was, cfg} :
        \A p \in DOMAIN c, q \in DOMAIN cfg :
            /\ IsContainer(c[p]) /\ IsContainer(cfg[q])
            /\ Resolved(c, p) # Failed /\ Resolved(cfg, q) # Failed
            => (Equal(c, p, cfg, q) <=> Resolved(c, p) = Resolved(cfg, q))

\* The readers walk by code of their own, and agree with the conversion:
\* missing_keys on what is missing, == on what is the same, and a conversion
\* that resolves nothing on what resolve has changed.
ReadersAgree ==
    Idle => /\ MissingKeysExact
            /\ EqualityIsByValue
            /\ outcome = "returned" =>
                  (structural_equality(cfg, <<>>, was, <<>>) <=> Values(cfg) = Values(was))
=============================================================================
