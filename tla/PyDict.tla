------------------------------- MODULE PyDict -------------------------------
(***************************************************************************)
(* What a DictConfig promises its callers: the operations of Python's        *)
(* MutableMapping on an insertion-ordered dict.  A call takes effect as a    *)
(* whole and returns what it should, or raises and changes nothing.  Two     *)
(* may raise half way, as MutableMapping's do: update keeps the entries it   *)
(* stored before the one it could not, clear pops the entries one by one.    *)
(*                                                                          *)
(* An entry whose value is "???" exists but has no value yet: it can be      *)
(* deleted, overwritten and listed, but reads as if it were absent.          *)
(***************************************************************************)
EXTENDS Naturals, Sequences, SequencesExt

CONSTANTS
    Val,      \* the values
    Missing,  \* ... "???"
    Reads,    \* the value a value reads as
    Default,  \* the default callers pass to get and pop
    NoDefault \* ... when they pass none

VARIABLES
    dict,     \* a sequence of entries [key, val], each key once
    call,     \* the last call: its name and its arguments
    ok,       \* whether it returned or raised
    result    \* what it returned, if it returns something

vars == <<dict, call, ok, result>>

KeysOf(d) == {d[i].key : i \in DOMAIN d}
Place(d, k) == CHOOSE i \in DOMAIN d : d[i].key = k
ValOf(d, k) == d[Place(d, k)].val
HasValue(d, k) == k \in KeysOf(d) /\ ValOf(d, k) \notin Missing

Stored(d, k, v) ==
    IF k \in KeysOf(d)
    THEN [i \in DOMAIN d |-> IF d[i].key = k THEN [key |-> k, val |-> v] ELSE d[i]]
    ELSE Append(d, [key |-> k, val |-> v])

Without(d, k) == IF k \in KeysOf(d) THEN RemoveAt(d, Place(d, k)) ELSE d

StoredAll(d, entries) ==
    FoldLeft(LAMBDA e, x : Stored(e, x.key, x.val), d, entries)

-----------------------------------------------------------------------------
Init == \A i, j \in DOMAIN dict : dict[i].key = dict[j].key => i = j

\* The entry of k goes and its value is returned.
Take(k) == dict' = Without(dict, k) /\ result' = Reads[ValOf(dict, k)]

\* The call c returns.
Effect(c) ==
    \/ c.op = "setitem" /\ dict' = Stored(dict, c.key, c.val)
    \/ c.op = "update"  /\ dict' = StoredAll(dict, c.entries)
    \/ /\ c.op \in {"delitem", "delattr"}
       /\ c.key \in KeysOf(dict)
       /\ dict' = Without(dict, c.key)
    \/ c.op = "pop" /\ HasValue(dict, c.key) /\ Take(c.key)
    \/ /\ c.op = "pop" /\ ~HasValue(dict, c.key) /\ c.default # NoDefault
       /\ dict' = Without(dict, c.key) /\ result' = c.default
    \/ c.op = "popitem" /\ dict # <<>> /\ Take(Head(dict).key)
    \/ c.op = "clear" /\ dict' = <<>>
    \/ /\ c.op = "setdefault" /\ HasValue(dict, c.key)
       /\ dict' = dict /\ result' = Reads[ValOf(dict, c.key)]
    \/ /\ c.op = "setdefault" /\ ~HasValue(dict, c.key)
       /\ dict' = Stored(dict, c.key, c.val) /\ result' = c.val
    \/ /\ c.op = "get" /\ HasValue(dict, c.key)
       /\ dict' = dict /\ result' = Reads[ValOf(dict, c.key)]
    \/ /\ c.op = "get" /\ ~HasValue(dict, c.key) /\ c.default # NoDefault
       /\ dict' = dict /\ result' = c.default
    \/ /\ c.op = "contains"
       /\ dict' = dict /\ result' = HasValue(dict, c.key)
    \/ c.op = "assign" /\ dict' = StoredAll(<<>>, c.entries)

\* The call c raises.
Failure(c) ==
    \/ dict' = dict
    \/ /\ c.op = "update"
       /\ \E n \in 0 .. Len(c.entries) : dict' = StoredAll(dict, SubSeq(c.entries, 1, n))
    \/ /\ c.op = "clear"
       /\ \E n \in 1 .. Len(dict) : dict' = SubSeq(dict, n, Len(dict))

\* Any call may be made: call' is chosen by the caller.
Next == (ok' = TRUE /\ Effect(call')) \/ (ok' = FALSE /\ Failure(call'))

Spec == Init /\ [][Next]_vars
=============================================================================
