------------------------------- MODULE PyList -------------------------------
(***************************************************************************)
(* What a ListConfig promises its callers: the operations of Python's list, *)
(* each of which takes effect as a whole or raises and changes nothing.     *)
(* Two of them may raise half way, as Python's do: extend keeps the items   *)
(* it took before the one it could not take, and a sort whose comparison    *)
(* raises leaves the items in some order.                                   *)
(*                                                                          *)
(* Positions are counted from 0, as in the calls; slices are clipped to the *)
(* list as slice.indices does.                                              *)
(***************************************************************************)
EXTENDS Integers, Sequences, FiniteSetsExt

CONSTANTS
    Val,    \* the items
    Reads,  \* the value an item compares as
    MaxLen  \* bound on the length of a list

VARIABLES
    list,   \* a sequence of items
    call,   \* the last call: its name and its arguments
    ok      \* whether it returned or raised

vars == <<list, call, ok>>

Lists == UNION {[1 .. n -> Val] : n \in 0 .. MaxLen}

\* Position i, counted from the end if it is negative.
Nth(i) == IF i < 0 THEN Len(list) + i ELSE i

\* The positions range(start, stop, step) visits.
Visited(start, stop, step) ==
    IF step > 0
    THEN {i \in start .. stop - 1 : (i - start) % step = 0}
    ELSE {i \in stop + 1 .. start : (start - i) % (-step) = 0}

Assign(i, v) ==
    /\ i + 1 \in DOMAIN list
    /\ list' = [list EXCEPT ![i + 1] = v]

Insert(i, v) ==
    LET at == Max({0, Min({i, Len(list)})})
    IN  list' = SubSeq(list, 1, at) \o <<v>> \o SubSeq(list, at + 1, Len(list))

\* The items at the positions in S go, the others keep their order.
Delete(S) ==
    LET rest == {p \in DOMAIN list : p - 1 \notin S}
    IN  list' = [k \in 1 .. Cardinality(rest) |->
                    list[CHOOSE p \in rest : Cardinality({q \in rest : q <= p}) = k]]

DeleteAt(i) == i + 1 \in DOMAIN list /\ Delete({i})

DeleteFirst(x) ==
    LET found == {p \in DOMAIN list : Reads[list[p]] = x}
    IN  found # {} /\ Delete({Min(found) - 1})

\* list[start:stop] = vs
Replace(start, stop, vs) ==
    list' = SubSeq(list, 1, start) \o vs
                \o SubSeq(list, Max({start, stop}) + 1, Len(list))

\* list[start:stop:step] = vs: the k-th position visited gets the k-th item.
Spread(start, stop, step, vs) ==
    LET at == Visited(start, stop, step)
    IN  /\ Len(vs) = Cardinality(at)
        /\ list' \in [DOMAIN list -> Val]
        /\ \A k \in DOMAIN vs : list'[start + (k - 1) * step + 1] = vs[k]
        /\ \A p \in DOMAIN list : p - 1 \notin at => list'[p] = list[p]

Permute ==
    \E p \in [DOMAIN list -> DOMAIN list] :
        /\ \A a, b \in DOMAIN list : p[a] = p[b] => a = b
        /\ list' = [k \in DOMAIN list |-> list[p[k]]]

-----------------------------------------------------------------------------
Init == list \in Lists

\* The call c returns.
Effect(c) ==
    \/ c.op = "setitem"  /\ Assign(Nth(c.at), c.item)
    \/ c.op = "append"   /\ Insert(Len(list), c.item)
    \/ c.op = "insert"   /\ Insert(Nth(c.at), c.item)
    \/ c.op = "extend"   /\ list' = list \o c.items
    \/ c.op = "setslice" /\ IF c.step = 1 THEN Replace(c.start, c.stop, c.items)
                                          ELSE Spread(c.start, c.stop, c.step, c.items)
    \/ c.op \in {"delitem", "pop"} /\ DeleteAt(c.at)
    \/ c.op = "delslice" /\ Delete(Visited(c.start, c.stop, c.step))
    \/ c.op = "remove"   /\ DeleteFirst(c.item)
    \/ c.op = "clear"    /\ list' = <<>>
    \/ c.op = "sort"     /\ Permute
    \/ c.op = "assign"   /\ list' = c.items

\* The call c raises.
Failure(c) ==
    \/ list' = list
    \/ c.op = "extend" /\ \E n \in 0 .. Len(c.items) : list' = list \o SubSeq(c.items, 1, n)
    \/ c.op = "sort"   /\ Permute

\* Any call may be made: call' is chosen by the caller.
Next == (ok' = TRUE /\ Effect(call')) \/ (ok' = FALSE /\ Failure(call'))

Spec == Init /\ [][Next]_vars
=============================================================================
