--------------------------- MODULE Interpolation ---------------------------
(***************************************************************************)
(* Resolution of interpolations: base.py.                                   *)
(*                                                                          *)
(* A configuration is a tree of nodes.  The text of an interpolation is a   *)
(* sequence of pieces: one node interpolation ${path}, whose result is the  *)
(* node found there, or several pieces, whose result is a new string.       *)
(* Resolution recurses: _resolve_interpolation_from_parse_tree visits the   *)
(* pieces, _select_impl walks a path and resolves what it meets on the way. *)
(* The recursion is a stack of frames here, one step per turn.              *)
(*                                                                          *)
(* Two structures guide it.  memo, the set of nodes being resolved, detects *)
(* cycles; it holds the last nodes of the paths being walked, not the nodes *)
(* passed on the way.  cache, shared by the nodes of one conversion         *)
(* (to_container and to_object with resolve=True), holds finished results.  *)
(*                                                                          *)
(* A result is a sequence of nodes: <<n>> for node n, a longer one for the  *)
(* string put together from the values of its nodes.                        *)
(***************************************************************************)
EXTENDS Integers, Sequences, FiniteSets, Reach

CONSTANTS
    Node,       \* the nodes of the tree
    Root,       \* its root
    Key,        \* the keys of containers
    Parent,     \* the container of each node but the root
    Name,       \* ... and its key there
    Literal,    \* stands for a literal part of a string
    Configs,    \* the configurations: what each node holds
    NoResult,   \* no frame has returned
    Error,      \* an InterpolationResolutionError
    MaxDepth    \* the frames Python's stack has room for

ASSUME TreeAssumption ==
    /\ Root \in Node
    /\ Parent \in [Node \ {Root} -> Node]
    /\ Name \in [Node \ {Root} -> Key]
    /\ \A m, n \in Node \ {Root} : Parent[m] = Parent[n] /\ Name[m] = Name[n] => m = n
    /\ Literal \notin Node /\ NoResult \notin Node
    /\ MaxDepth \in Nat

\* Neither is a result.
ASSUME ResultAssumption ==
    Error # NoResult /\ {Error, NoResult} \cap Seq(Node \cup {Literal}) = {}

\* A piece of an interpolation: the number of leading dots and the keys behind
\* them; a literal part has no keys.
Piece == [up : Nat, path : Seq(Key)]
Kind == {"box", "plain", "missing", "interp", "absent"}

\* The root is a container, and another node exists if its parent is one.
ASSUME ConfigAssumption ==
    /\ Configs \subseteq [Node -> [kind : Kind, pieces : Seq(Piece)]]
    /\ \A c \in Configs :
        /\ c[Root].kind = "box"
        /\ \A n \in Node \ {Root} : c[n].kind = "absent" <=> c[Parent[n]].kind # "box"

VARIABLES
    content,    \* what the nodes hold; it does not change
    stack,      \* the frames of the calls in progress, the last one on top
    ret,        \* what the last frame returned
    memo,       \* ids of nodes being resolved
    cache,      \* resolved_node_cache: results by node, NoResult if absent
    caching,    \* whether the calls have a cache: a conversion is running
    asked,      \* the node resolved last, or being resolved
    todo,       \* the nodes a conversion has still to resolve
    overflow    \* whether the stack was exhausted

vars == <<content, stack, ret, memo, cache, caching, asked, todo, overflow>>

-----------------------------------------------------------------------------
(* The tree.                                                                *)

Holds(n, kind) == content[n].kind = kind
IsNode(result) == result # Error /\ Len(result) = 1

\* The container that is result, if it is one.
Boxes(result) == IF IsNode(result) /\ result[1] \in Node
                 THEN {b \in {result[1]} : Holds(b, "box")} ELSE {}

\* _select_one: the node under key k of container c, if there is one.
SelectOne(c, k) ==
    {n \in Node \ {Root} : Parent[n] = c /\ Name[n] = k /\ ~Holds(n, "absent")}

UpFrom(n) == IF n = Root THEN {} ELSE {Parent[n]}

\* n and the containers around it: _validate_not_dereferencing_to_parent, called
\* on the container c of the interpolation, refuses the nodes of Around(c).
Around(c) == ReachFrom(Node, [n \in Node |-> UpFrom(n)], c)

\* _resolve_key_and_root for a piece of a node in container c: no dot is the
\* root, one dot is c, every further dot is one container up.
Base(c, up) ==
    LET above[k \in 1 .. up] == IF k = 1 THEN {c} ELSE UNION {UpFrom(m) : m \in above[k - 1]}
    IN  IF up = 0 THEN {Root} ELSE above[up]

-----------------------------------------------------------------------------
(* The reference: what a node resolves to, by depth of nesting.  A node     *)
(* that has no result at the depth of the number of nodes is on a cycle.    *)

\* What key k leads to from a result: to nothing, if that is no container.
Enter(result, k, results) ==
    LET found == {n \in UNION {SelectOne(b, k) : b \in Boxes(result)} : ~Holds(n, "missing")}
    IN  IF found = {} THEN Error ELSE results[CHOOSE n \in found : TRUE]

\* What the first keys of path p lead to from container c, by their number.
Walk(p, c, results) ==
    LET at[i \in 0 .. Len(p)] == IF i = 0 THEN <<c>> ELSE Enter(at[i - 1], p[i], results)
    IN  at

\* What the piece resolves to, for an interpolation in container c.
PieceResult(piece, c, results) ==
    IF piece.path = <<>> THEN <<Literal>>
    ELSE IF Base(c, piece.up) = {} THEN Error
    ELSE LET from == CHOOSE b \in Base(c, piece.up) : TRUE
             r == Walk(piece.path, from, results)[Len(piece.path)]
         IN  IF IsNode(r) /\ r[1] \in Around(c) THEN Error ELSE r

Concat(r, s) == IF r = Error \/ s = Error THEN Error ELSE r \o s

\* The results of the first pieces of n put together, by their number.
Joined(n, results) ==
    LET joined[i \in 0 .. Len(content[n].pieces)] ==
            IF i = 0 THEN <<>>
            ELSE Concat(joined[i - 1], PieceResult(content[n].pieces[i], Parent[n], results))
    IN  joined

\* What the nodes resolve to, if what they refer to resolves to these results.
Above(results) ==
    [n \in Node |-> IF Holds(n, "interp") THEN Joined(n, results)[Len(content[n].pieces)]
                    ELSE <<n>>]

ResultsTo[depth \in 0 .. Cardinality(Node)] ==
    IF depth = 0 THEN [n \in Node |-> IF Holds(n, "interp") THEN Error ELSE <<n>>]
    ELSE Above(ResultsTo[depth - 1])

Reference == ResultsTo[Cardinality(Node)]

-----------------------------------------------------------------------------
(* The frames.                                                              *)

\* _resolve_interpolation_from_parse_tree of node n, with a memo or with None.
\* left: the pieces still to visit; got: the result of those visited.
Deref(n, memoed) ==
    [call |-> "deref", node |-> n, left |-> content[n].pieces, got |-> <<>>,
     memoed |-> memoed]

\* _select_impl from container c.  on: the node whose resolution it waits for.
Select(c, path, memoed) ==
    [call |-> "select", at |-> c, path |-> path, on |-> NoResult, memoed |-> memoed]

Top == stack[Len(stack)]
Running(call) == stack # <<>> /\ Top.call = call
Replaced(frame) == [stack EXCEPT ![Len(stack)] = frame]
Popped == SubSeq(stack, 1, Len(stack) - 1)

\* The top frame returns.
Return(result) ==
    /\ stack' = Popped
    /\ ret' = result
    /\ UNCHANGED overflow

\* The top frame, now f, calls g.  Python raises RecursionError when its stack
\* is full; resolve_parse_tree turns it into an InterpolationResolutionError.
Call(f, g) ==
    IF Len(stack) < MaxDepth
    THEN stack' = Append(Replaced(f), g) /\ ret' = NoResult /\ UNCHANGED overflow
    ELSE stack' = Popped /\ ret' = Error /\ overflow' = TRUE

Constant == UNCHANGED <<content, caching, asked, todo>>

TypeOK ==
    /\ content \in Configs
    /\ \A k \in DOMAIN stack :
        /\ stack[k].call \in {"deref", "select"} /\ stack[k].memoed \in BOOLEAN
        /\ stack[k].call = "deref" => Holds(stack[k].node, "interp")
        /\ stack[k].call = "select" => Holds(stack[k].at, "box") /\ stack[k].path # <<>>
    /\ ret \in {NoResult, Error} \/ \A k \in DOMAIN ret : ret[k] \in Node \cup {Literal}
    /\ memo \subseteq Node
    /\ \A n \in Node : cache[n] # NoResult => caching
    /\ overflow \in BOOLEAN

Init ==
    /\ content \in Configs
    /\ stack = <<>>
    /\ ret = NoResult
    /\ memo = {}
    /\ cache = [n \in Node |-> NoResult]
    /\ caching \in BOOLEAN
    /\ asked = NoResult
    /\ todo = IF caching THEN {n \in Node : Holds(n, "interp")} ELSE {}
    /\ overflow = FALSE

\* The caller reads node n (cfg[key], _maybe_resolve_interpolation): a memo is
\* created for the call.
Access(n) ==
    /\ ~caching /\ asked = NoResult
    /\ Holds(n, "interp")
    /\ asked' = n
    /\ stack' = <<Deref(n, TRUE)>>
    /\ UNCHANGED <<content, ret, memo, cache, caching, todo, overflow>>

\* A conversion gets to its next interpolation: it has a cache and no memo, and
\* takes the result from the cache if it is there.  It ends with the first error.
\* (Nodes that are not interpolations resolve to themselves at once.)
ConvertNext(n) ==
    /\ caching /\ stack = <<>> /\ ret # Error
    /\ asked # NoResult => cache[asked] # NoResult
    /\ n \in todo
    /\ todo' = todo \ {n}
    /\ asked' = n
    /\ IF cache[n] # NoResult
       THEN ret' = cache[n] /\ UNCHANGED stack
       ELSE ret' = NoResult /\ stack' = <<Deref(n, FALSE)>>
    /\ UNCHANGED <<content, memo, cache, caching, overflow>>

-----------------------------------------------------------------------------
(* _resolve_interpolation_from_parse_tree and the visitor.                  *)

\* visitInterpolationNode: the next piece is looked up from the container that
\* its dots name; a literal part is taken as it is.
VisitPiece ==
    /\ Running("deref") /\ ret = NoResult /\ Top.left # <<>>
    /\ LET piece == Head(Top.left)
           from  == Base(Parent[Top.node], piece.up)
       IN  IF piece.path = <<>>
           THEN /\ stack' = Replaced([Top EXCEPT !.left = Tail(@), !.got = Append(@, Literal)])
                /\ UNCHANGED <<ret, overflow>>
           ELSE IF from = {} THEN Return(Error)
           ELSE \E c \in from : Call(Top, Select(c, piece.path, Top.memoed))
    /\ UNCHANGED <<memo, cache>> /\ Constant

\* Mutant of TakePiece: a lookup that failed is tried again.
TakePieceRetrying ==
    /\ Running("deref") /\ ret # NoResult
    /\ IF ret = Error THEN ret' = NoResult /\ UNCHANGED <<stack, overflow>>
       ELSE IF IsNode(ret) /\ ret[1] \in Around(Parent[Top.node]) THEN Return(Error)
       ELSE /\ stack' = Replaced([Top EXCEPT !.left = Tail(@), !.got = @ \o ret])
            /\ ret' = NoResult
            /\ UNCHANGED overflow
    /\ UNCHANGED <<memo, cache>> /\ Constant

\* Mutant of TakePiece: an interpolation may lead to a container around it.
TakePieceAnyway ==
    /\ Running("deref") /\ ret # NoResult
    /\ IF ret = Error THEN Return(Error)
       ELSE /\ stack' = Replaced([Top EXCEPT !.left = Tail(@), !.got = @ \o ret])
            /\ ret' = NoResult
            /\ UNCHANGED overflow
    /\ UNCHANGED <<memo, cache>> /\ Constant

\* _resolve_node_interpolation gets the result of the lookup.
TakePiece ==
    /\ Running("deref") /\ ret # NoResult
    /\ IF ret = Error \/ (IsNode(ret) /\ ret[1] \in Around(Parent[Top.node]))
       THEN Return(Error)
       ELSE /\ stack' = Replaced([Top EXCEPT !.left = Tail(@), !.got = @ \o ret])
            /\ ret' = NoResult
            /\ UNCHANGED overflow
    /\ UNCHANGED <<memo, cache>> /\ Constant

\* All pieces are visited.
FinishDeref ==
    /\ Running("deref") /\ ret = NoResult /\ Top.left = <<>>
    /\ Return(Top.got)
    /\ UNCHANGED <<memo, cache>> /\ Constant

-----------------------------------------------------------------------------
(* _select_impl.                                                            *)

\* The loop over all keys but the last: a container is entered, an
\* interpolation is resolved first; memo does not hear of it.
Step ==
    /\ Running("select") /\ ret = NoResult /\ Top.on = NoResult /\ Len(Top.path) > 1
    /\ LET found == SelectOne(Top.at, Head(Top.path))
       IN  IF \E n \in found : Holds(n, "interp")
           THEN \E n \in found : Call([Top EXCEPT !.on = n], Deref(n, Top.memoed))
           ELSE IF \E n \in found : Holds(n, "box")
           THEN /\ \E n \in found :
                     stack' = Replaced([Top EXCEPT !.at = n, !.path = Tail(@)])
                /\ UNCHANGED <<ret, overflow>>
           ELSE Return(Error)
    /\ UNCHANGED <<memo, cache>> /\ Constant

\* Mutant of StepResolved: whatever was found is entered.
StepResolvedAnyway ==
    /\ Running("select") /\ ret # NoResult /\ Len(Top.path) > 1
    /\ IF ret = Error THEN Return(Error)
       ELSE /\ stack' = Replaced([Top EXCEPT !.at = ret[1], !.path = Tail(@), !.on = NoResult])
            /\ ret' = NoResult
            /\ UNCHANGED overflow
    /\ UNCHANGED <<memo, cache>> /\ Constant

\* The interpolation on the way is resolved: it must be a container.
StepResolved ==
    /\ Running("select") /\ ret # NoResult /\ Len(Top.path) > 1
    /\ IF Boxes(ret) = {} THEN Return(Error)
       ELSE /\ \E b \in Boxes(ret) :
                 stack' = Replaced([Top EXCEPT !.at = b, !.path = Tail(@), !.on = NoResult])
            /\ ret' = NoResult
            /\ UNCHANGED overflow
    /\ UNCHANGED <<memo, cache>> /\ Constant

\* Mutant of LastKey: a node that is being resolved is resolved again.
LastUnchecked ==
    /\ Running("select") /\ ret = NoResult /\ Top.on = NoResult /\ Len(Top.path) = 1
    /\ LET found == SelectOne(Top.at, Head(Top.path))
       IN  IF found = {} \/ \E n \in found : Holds(n, "missing")
           THEN Return(Error) /\ UNCHANGED <<memo, cache>>
           ELSE \E n \in found :
               IF cache[n] # NoResult
               THEN Return(cache[n]) /\ UNCHANGED <<memo, cache>>
               ELSE IF Holds(n, "interp")
               THEN /\ Call([Top EXCEPT !.on = n], Deref(n, TRUE))
                    /\ memo' = IF Top.memoed /\ Len(stack) < MaxDepth THEN memo \cup {n} ELSE memo
                    /\ UNCHANGED cache
               ELSE /\ Return(<<n>>)
                    /\ cache' = IF caching THEN [cache EXCEPT ![n] = <<n>>] ELSE cache
                    /\ UNCHANGED memo
    /\ Constant

\* The last key: a cached result is taken, a node in memo is a cycle, another
\* interpolation is resolved with the node in memo.  If the call has no memo,
\* the callee gets a new one, without the node.
LastKey ==
    /\ Running("select") /\ ret = NoResult /\ Top.on = NoResult /\ Len(Top.path) = 1
    /\ LET found == SelectOne(Top.at, Head(Top.path))
       IN  IF found = {} \/ \E n \in found : Holds(n, "missing")
           THEN Return(Error) /\ UNCHANGED <<memo, cache>>
           ELSE \E n \in found :
               IF cache[n] # NoResult
               THEN Return(cache[n]) /\ UNCHANGED <<memo, cache>>
               ELSE IF Top.memoed /\ n \in memo
               THEN Return(Error) /\ UNCHANGED <<memo, cache>>
               ELSE IF Holds(n, "interp")
               THEN /\ Call([Top EXCEPT !.on = n], Deref(n, TRUE))
                    /\ memo' = IF Top.memoed /\ Len(stack) < MaxDepth THEN memo \cup {n} ELSE memo
                    /\ UNCHANGED cache
               ELSE /\ Return(<<n>>)
                    /\ cache' = IF caching THEN [cache EXCEPT ![n] = <<n>>] ELSE cache
                    /\ UNCHANGED memo
    /\ Constant

\* Mutant of LastResolved: a node stays in memo when its resolution is over.
LastResolvedKeepingMemo ==
    /\ Running("select") /\ ret # NoResult /\ Len(Top.path) = 1
    /\ Return(ret)
    /\ cache' = IF caching /\ ret # Error THEN [cache EXCEPT ![Top.on] = ret] ELSE cache
    /\ UNCHANGED memo
    /\ Constant

\* Mutant of LastResolved: the result is stored for the node that asked.
LastResolvedMisfiled ==
    /\ Running("select") /\ ret # NoResult /\ Len(Top.path) = 1
    /\ Return(ret)
    /\ memo' = IF Top.memoed THEN memo \ {Top.on} ELSE memo
    /\ cache' = IF caching /\ ret # Error THEN [cache EXCEPT ![asked] = ret] ELSE cache
    /\ Constant

\* The resolution of the last node returned or raised: memo forgets the node in
\* both cases (finally), cache learns a result.
LastResolved ==
    /\ Running("select") /\ ret # NoResult /\ Len(Top.path) = 1
    /\ Return(ret)
    /\ memo' = IF Top.memoed THEN memo \ {Top.on} ELSE memo
    /\ cache' = IF caching /\ ret # Error THEN [cache EXCEPT ![Top.on] = ret] ELSE cache
    /\ Constant

\* _to_content stores what the conversion's own call returned.
ConvertResolved ==
    /\ caching /\ stack = <<>> /\ ret \notin {NoResult, Error} /\ cache[asked] = NoResult
    /\ cache' = [cache EXCEPT ![asked] = ret]
    /\ UNCHANGED <<content, stack, ret, memo, caching, asked, todo, overflow>>

\* A call, or a conversion, goes on.
Continue ==
    \/ VisitPiece \/ TakePiece \/ FinishDeref
    \/ Step \/ StepResolved \/ LastKey \/ LastResolved
    \/ \E n \in Node : ConvertNext(n)
    \/ ConvertResolved

Next == Continue \/ \E n \in Node : Access(n)

\* A call that has begun is executed; whether one begins is the program's affair.
Spec == Init /\ [][Next]_vars /\ WF_vars(Continue)

-----------------------------------------------------------------------------
Answered == stack = <<>> /\ asked # NoResult

\* What a call returns is what the text of the interpolation denotes: with memo
\* and cache, in any order of requests, no cycle goes undetected and nothing
\* else is taken for a cycle (_select_impl).
AnswersDenote == Answered => ret = Reference[asked]

\* The cache holds only what the nodes denote (resolved_node_cache).
CacheDenotes ==
    \A n \in Node : cache[n] # NoResult => cache[n] = Reference[n]

\* memo holds exactly the last nodes of the walks in progress below a call that
\* has a memo; so it is empty again when a call has returned or raised.
MemoIsStack ==
    /\ TypeOK
    /\ memo = {n \in Node : \E k \in DOMAIN stack :
                /\ stack[k].call = "select" /\ stack[k].memoed
                /\ stack[k].on = n /\ Len(stack[k].path) = 1}

\* Every access returns or raises, and every conversion gets to its end or to an
\* error: cycles that memo sees and cycles it does not, for those Python's stack
\* ends.
CallsEnd ==
    /\ stack # <<>> ~> stack = <<>>
    /\ caching ~> (stack = <<>> /\ (ret = Error \/ todo = {}))

\* No interpolation lies on the way of a path.
WaysAreClear ==
    \A n \in Node : \A i \in DOMAIN content[n].pieces :
        LET path == content[n].pieces[i].path
        IN  \A k \in 1 .. Len(path) - 1, m \in Node \ {Root} :
                Name[m] = path[k] => ~Holds(m, "interp")

\* Then a cycle is detected ("Recursive interpolation detected",
\* tests/interpolation/test_interpolation.py:483) before Python's stack is full,
\* whatever the nodes refer to and however many pieces they have: memo sees to
\* the last keys of paths.
LastKeyCyclesDetected == WaysAreClear => ~overflow
=============================================================================
