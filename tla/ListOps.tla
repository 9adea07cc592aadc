------------------------------ MODULE ListOps ------------------------------
(***************************************************************************)
(* ListConfig: the operations of a Python list on a list of nodes, each of  *)
(* which carries its own position as its key: listconfig.py.                *)
(*                                                                          *)
(* An item is added by putting a placeholder (None) into the content and    *)
(* assigning the value to its position, which validates it; a refused value *)
(* must take the placeholder away again.  Slice assignment edits a copy and *)
(* then fills the emptied list from it, reading the copy through its        *)
(* iterator, which resolves interpolations and refuses missing values.      *)
(***************************************************************************)
EXTENDS Integers, Sequences, SequencesExt

CONSTANTS
    Val,          \* the values callers store
    Box,          \* ... of which these are containers: stored as nodes of their own
    Untypable,    \* ... these are refused by a list with an element type
    Missing,      \* ... "???"
    Dangling,     \* ... interpolations whose target does not exist
    Target,       \* the value every value resolves to: itself, unless it is an interpolation
    NoNode,       \* the placeholder None
    Index,        \* indices callers use in item assignment
    Reorders,     \* whether callers sort
    SlicesAny,    \* whether the slices callers assign involve items that do not read as themselves
    MaxLen,       \* bound on the length of a list
    MaxArg        \* bound on the length of a list passed to an operation

ASSUME ValAssumption ==
    /\ Box \cup Untypable \cup Missing \cup Dangling \subseteq Val
    /\ Target \in [Val -> Val]
    /\ NoNode \notin Val
    /\ Index \subseteq Int
    /\ MaxLen \in Nat /\ MaxArg \in 0 .. MaxLen

VARIABLES
    content,    \* _content: the nodes, each with its value and _metadata.key
    isList,     \* FALSE: _content is None, "???" or an interpolation
    typed,      \* _metadata.element_type is not Any
    readonly,   \* flag readonly, set on the list itself
    call,       \* the last call, with its arguments
    ok          \* whether it returned or raised

vars == <<content, isList, typed, readonly, call, ok>>

Lists(max) == UNION {[1 .. n -> Val] : n \in 0 .. max}
Args == Lists(MaxArg)
Place == 0 .. Len(content)

Rejects(v) == typed /\ v \in Untypable
Writable == isList /\ ~readonly
Values(c) == [k \in DOMAIN c |-> c[k].val]

-----------------------------------------------------------------------------
(* The steps the operations are made of.  Each takes a content c and gives  *)
(* the content it leaves, and whether it raised.                            *)

\* Mutant of UpdateKeys: the last node keeps its old key.
UpdateKeysButLast(c) ==
    [k \in DOMAIN c |-> IF k = Len(c) THEN c[k] ELSE [c[k] EXCEPT !.key = k - 1]]

\* _update_keys
UpdateKeys(c) == [k \in DOMAIN c |-> [c[k] EXCEPT !.key = k - 1]]

Outcome(c, returns) == [c |-> c, ok |-> returns]

\* The node at position p keeps its identity, and its key, when the value can
\* be set on it: the list is typed, or neither the old nor the new value is a
\* container.
Reuses(node, v) ==
    node.val # NoNode /\ (typed \/ (node.val \notin Box /\ v \notin Box))

\* Mutant of SetItemImpl: a value set on the node in place is not validated.
SetItemUnvalidated(open, c, i, v) ==
    LET p == IF i < 0 THEN Len(c) + i + 1 ELSE i + 1
    IN  IF open /\ p \in DOMAIN c /\ (~Rejects(v) \/ Reuses(c[p], v))
        THEN Outcome([c EXCEPT ![p] =
                 [val |-> v, key |-> IF Reuses(@, v) THEN @.key ELSE i]], TRUE)
        ELSE Outcome(c, FALSE)

\* _set_item_impl: store v under index i (negative indices count from the end).
SetItemImpl(open, c, i, v) ==
    LET p == IF i < 0 THEN Len(c) + i + 1 ELSE i + 1
    IN  IF open /\ p \in DOMAIN c /\ ~Rejects(v)
        THEN Outcome([c EXCEPT ![p] =
                 [val |-> v, key |-> IF Reuses(@, v) THEN @.key ELSE i]], TRUE)
        ELSE Outcome(c, FALSE)

\* Mutant of AppendImpl: a refused value leaves its placeholder.
AppendLeaves(open, c, v) ==
    SetItemImpl(open, Append(c, [val |-> NoNode, key |-> 0]), Len(c), v)

\* append
AppendImpl(open, c, v) ==
    LET r == SetItemImpl(open, Append(c, [val |-> NoNode, key |-> 0]), Len(c), v)
    IN  IF r.ok THEN r ELSE Outcome(RemoveAt(r.c, Len(c) + 1), FALSE)

\* insert, on a writable list: the index is clipped as Python's is.
InsertImpl(c, index, v) ==
    LET at == IF index < 0 THEN Max({0, index + Len(c)}) ELSE Min({index, Len(c)})
        r  == SetItemImpl(TRUE, InsertAt(c, at + 1, [val |-> NoNode, key |-> 0]), at, v)
    IN  Outcome(UpdateKeys(IF r.ok THEN r.c ELSE RemoveAt(r.c, at + 1)), r.ok)

\* extend: append one item after the other until one is refused.
ExtendImpl(open, c, vs) ==
    FoldLeft(LAMBDA r, v : IF r.ok THEN AppendImpl(open, r.c, v) ELSE r,
             Outcome(c, TRUE), vs)

\* del content[...] of the positions in S, and _update_keys.
DelImpl(c, S) ==
    LET kept == {k \in DOMAIN c : k - 1 \notin S}
    IN  UpdateKeys([k \in 1 .. Cardinality(kept) |->
            c[CHOOSE q \in kept : Cardinality({r \in kept : r <= q}) = k]])

\* range(start, stop, step), in the order it is iterated.
IndexRange(start, stop, step) ==
    LET n == IF step > 0 THEN (stop - start + step - 1) \div step
                         ELSE (start - stop - step - 1) \div (-step)
    IN  [k \in 1 .. Max({0, n}) |-> start + (k - 1) * step]

\* The iterator over a list with resolve=True: the values before the first one
\* that cannot be resolved, each replaced by what it resolves to.
Unreadable(v) == v \in Missing \cup Dangling
Read(c) ==
    LET vs   == Values(c)
        upto == {k \in DOMAIN vs : \A j \in 1 .. k : ~Unreadable(vs[j])}
    IN  [k \in upto |-> Target[vs[k]]]

\* Mutant of Spliced: deletions made by earlier turns do not shift the index.
SplicedUnshifted(c, start, at, vs) ==
    LET Turn(w, k) ==
            LET deleted == DelImpl(w.c, {at[k]})
            IN  [c   |-> IF k <= Len(vs) THEN InsertImpl(deleted, at[k], vs[k]).c ELSE deleted,
                 cur |-> at[k]]
        Add(w, k) == [c |-> InsertImpl(w.c, w.cur + 1, vs[k]).c, cur |-> w.cur + 1]
        edited == FoldLeft(Turn, [c |-> c, cur |-> start - 1], [k \in DOMAIN at |-> k])
    IN  FoldLeft(Add, edited, [k \in 1 .. Len(vs) - Len(at) |-> Len(at) + k]).c

\* The work copy of a slice assignment: the selected items are deleted and
\* replaced one by one, then the rest of the new items is inserted after them.
Spliced(c, start, at, vs) ==
    LET Turn(w, k) ==
            LET cur     == at[k] - w.removed
                deleted == DelImpl(w.c, {cur})
            IN  IF k <= Len(vs)
                THEN [w EXCEPT !.c = InsertImpl(deleted, cur, vs[k]).c, !.cur = cur]
                ELSE [c |-> deleted, cur |-> cur, removed |-> w.removed + 1]
        Add(w, k) == [w EXCEPT !.c = InsertImpl(@, w.cur + 1, vs[k]).c, !.cur = @ + 1]
        edited == FoldLeft(Turn, [c |-> c, cur |-> start - 1, removed |-> 0],
                           [k \in DOMAIN at |-> k])
    IN  FoldLeft(Add, edited, [k \in 1 .. Len(vs) - Len(at) |-> Len(at) + k]).c

\* The items all read as themselves.
Plain(vs) == \A k \in DOMAIN vs : ~Unreadable(vs[k]) /\ Target[vs[k]] = vs[k]

-----------------------------------------------------------------------------
TypeOK ==
    /\ content \in Seq([val : Val, key : Int])
    /\ Len(content) <= MaxLen
    /\ isList \in BOOLEAN /\ typed \in BOOLEAN /\ readonly \in BOOLEAN /\ ok \in BOOLEAN
    /\ ~isList => content = <<>>

\* OmegaConf.create([...]), or a list field of a structured config.
Init ==
    /\ typed \in BOOLEAN
    /\ \E vs \in Lists(MaxLen) :
        /\ \A k \in DOMAIN vs : ~Rejects(vs[k])
        /\ content = ExtendImpl(TRUE, <<>>, vs).c
    /\ isList = TRUE
    /\ readonly = FALSE
    /\ call = [op |-> "create"]
    /\ ok = TRUE

\* The call c leaves the content of outcome r and returns or raises as r says.
Finish(c, r) ==
    /\ content' = r.c
    /\ call' = c
    /\ ok' = r.ok
    /\ UNCHANGED <<isList, typed, readonly>>

Raise(c) == Finish(c, Outcome(content, FALSE))

\* The call c edits the content, if the list is a writable list.
Edit(c, edited) == IF Writable THEN Finish(c, Outcome(edited, TRUE)) ELSE Raise(c)

Fits(n) == Len(content) + n <= MaxLen

\* cfg[i] = v
SetItem(i, v) ==
    Finish([op |-> "setitem", at |-> i, item |-> v], SetItemImpl(Writable, content, i, v))

AppendItem(v) ==
    Fits(1) /\ Finish([op |-> "append", item |-> v], AppendImpl(Writable, content, v))

InsertItem(i, v) ==
    LET c == [op |-> "insert", at |-> i, item |-> v]
    IN  /\ Fits(1)
        /\ IF Writable THEN Finish(c, InsertImpl(content, i, v)) ELSE Raise(c)

\* cfg.extend(vs) and cfg += vs, for a vs that is not cfg itself.
Extend(vs) ==
    /\ Fits(Len(vs))
    /\ Finish([op |-> "extend", items |-> vs], ExtendImpl(Writable, content, vs))

\* cfg[start:stop:step] = vs: edit a copy, clear the list, extend it with what
\* the iterator reads from the copy.
SetSlice(start, stop, step, vs) ==
    LET at   == IndexRange(start, stop, step)
        work == Spliced(content, start, at, vs)
        r    == ExtendImpl(TRUE, <<>>, Read(work))
        c    == [op |-> "setslice", start |-> start, stop |-> stop, step |-> step,
                 items |-> vs]
    IN  /\ SlicesAny \/ Plain(Values(content) \o vs)
        /\ Fits(Len(vs))
        /\ IF ~Writable \/ (step # 1 /\ Len(at) # Len(vs))
                        \/ \E k \in DOMAIN vs : Rejects(vs[k])
           THEN Raise(c)
           ELSE Finish(c, Outcome(r.c, r.ok /\ Len(r.c) = Len(work)))

DelItem(i) ==
    LET c == [op |-> "delitem", at |-> i]
    IN  IF i < Len(content) THEN Edit(c, DelImpl(content, {i})) ELSE Raise(c)

DelSlice(start, stop, step) ==
    LET at == IndexRange(start, stop, step)
    IN  Edit([op |-> "delslice", start |-> start, stop |-> stop, step |-> step],
             DelImpl(content, {at[k] : k \in DOMAIN at}))

Clear == Edit([op |-> "clear"], <<>>)

\* The position of the first item that reads as x, if the items before it can
\* be read.
RemoveItem(x) ==
    LET found == {k \in DOMAIN content :
                    /\ Target[content[k].val] = x
                    /\ \A j \in 1 .. k : ~Unreadable(content[j].val)}
        c     == [op |-> "remove", item |-> x]
    IN  IF found = {} THEN Raise(c) ELSE Edit(c, DelImpl(content, {Min(found) - 1}))

\* Mutant of Pop: the keys of the items behind are not renewed.
PopKeepingKeys(i) ==
    LET c == [op |-> "pop", at |-> i]
    IN  IF i + 1 \notin DOMAIN content \/ content[i + 1].val \in Dangling
        THEN Raise(c) ELSE Edit(c, RemoveAt(content, i + 1))

\* pop(i) resolves the item first ("???" resolves to None) and then deletes it.
Pop(i) ==
    LET c == [op |-> "pop", at |-> i]
    IN  IF i + 1 \notin DOMAIN content \/ content[i + 1].val \in Dangling
        THEN Raise(c) ELSE Edit(c, DelImpl(content, {i}))

\* Mutant of Sort: no readonly check.
SortAnyway(p, returns) ==
    /\ Reorders
    /\ Finish([op |-> "sort"], Outcome([k \in DOMAIN content |-> content[p[k]]], returns))

\* sort(key, reverse) with an order of the caller's: it may give any
\* permutation p.  A comparison that raises leaves the items in some order.
Sort(p, returns) ==
    /\ Reorders
    /\ IF Writable
       THEN Finish([op |-> "sort"],
                   Outcome([k \in DOMAIN content |-> content[p[k]]], returns))
       ELSE Raise([op |-> "sort"])

\* parent.key = value, for a typed list (an untyped one is replaced by a new
\* node): _set_value drops the content, appends the new items with readonly
\* off, and restores the content if one is refused.  A ListConfig as the value
\* resets the flags of the list; a plain list does not.
Assign(vs, isConfig) ==
    LET r == ExtendImpl(TRUE, <<>>, vs)
    IN  /\ typed
        /\ content' = IF r.ok THEN r.c ELSE content
        /\ isList' = (isList \/ r.ok)
        /\ readonly' = (readonly /\ ~isConfig)
        /\ call' = [op |-> "assign", items |-> vs]
        /\ ok' = r.ok
        /\ UNCHANGED typed

\* parent.key = None, "???" or an interpolation.
AssignSpecial ==
    /\ typed
    /\ content' = <<>>
    /\ isList' = FALSE
    /\ call' = [op |-> "assign", items |-> <<>>]
    /\ ok' = TRUE
    /\ UNCHANGED <<typed, readonly>>

\* OmegaConf.set_readonly(cfg, b)
SetReadonly(b) == readonly' = b /\ UNCHANGED <<content, isList, typed, call, ok>>

Orders == {p \in [DOMAIN content -> DOMAIN content] :
              \A a, b \in DOMAIN content : p[a] = p[b] => a = b}

Next ==
    \/ \E i \in Index, v \in Val : SetItem(i, v)
    \/ \E i \in -2 .. MaxLen + 1, v \in Val : InsertItem(i, v)
    \/ \E v \in Val : AppendItem(v) \/ RemoveItem(v)
    \/ \E vs \in Args : Extend(vs)
    \/ \E start, stop \in Place, vs \in Args : SetSlice(start, stop, 1, vs)
    \/ \E start, stop \in -1 .. Len(content) - 1, vs \in Args : SetSlice(start, stop, -1, vs)
    \/ \E start, stop \in Place, vs \in Args : SetSlice(start, stop, 2, vs)
    \/ \E i \in Place : DelItem(i) \/ Pop(i)
    \/ \E start, stop \in Place, step \in {1, 2} : DelSlice(start, stop, step)
    \/ Clear
    \/ \E p \in Orders, returns \in BOOLEAN : Sort(p, returns)
    \/ \E vs \in Args, isConfig \in BOOLEAN : Assign(vs, isConfig)
    \/ AssignSpecial
    \/ \E b \in BOOLEAN : SetReadonly(b)

Spec == Init /\ [][Next]_vars

-----------------------------------------------------------------------------
\* Every node knows the index it is stored under: the index it reports in its
\* full key and is looked up by.  Operations that move nodes renew the keys
\* (_update_keys, _set_key), two excepted: sort leaves the old ones, and an
\* assignment to a negative index stores that.
KeysArePositions == \A k \in DOMAIN content : content[k].key = k - 1
KeysRenewed ==
    [][/\ KeysArePositions
       /\ call'.op # "sort" /\ ~(call'.op = "setitem" /\ call'.at < 0)
       => KeysArePositions']_vars

\* Whatever operations raised on the way, the content is a list or none, no
\* placeholder of a refused item stays in it, and a list with an element type
\* holds no value the type refuses (_validate_set, _wrap_value_and_set).
ItemsAccepted == TypeOK /\ \A k \in DOMAIN content : ~Rejects(content[k].val)

\* Nothing but assigning the whole list changes, reorders or re-keys the nodes
\* of a readonly list.
ReadonlyHolds ==
    [][readonly /\ call'.op # "assign" => content' = content]_vars

\* The operations are those of a Python list: each takes effect as a whole or
\* raises and changes nothing.
Py == INSTANCE PyList WITH
        list <- Values(content), Reads <- Target

ImplementsList == Py!Spec
=============================================================================
