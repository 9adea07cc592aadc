---------------------------- MODULE ResolverMemo ----------------------------
(***************************************************************************)
(* What use_cache=True promises: on one config, interpolations that are      *)
(* spelled the same read the same value, from the first time one is read     *)
(* until the cache of the config is cleared or replaced by a copy of         *)
(* another's.  Configs do not share what they remember.                      *)
(***************************************************************************)
CONSTANTS Config, Key, Val, NoVal

VARIABLES
    memo,   \* what each config remembers of each interpolation
    out     \* the last operation that finished

Empty == [k \in Key |-> NoVal]

Init == memo = [c \in Config |-> Empty]

\* An interpolation of a caching resolver is read.
Recall(c, k, v) ==
    /\ memo[c][k] \in {v, NoVal}
    /\ memo' = [memo EXCEPT ![c][k] = v]

Read ==
    /\ out'.op = "value"
    /\ IF out'.cached THEN Recall(out'.config, out'.key, out'.val) ELSE UNCHANGED memo

Clear == out'.op = "clear" /\ memo' = [memo EXCEPT ![out'.config] = Empty]

Copy == out'.op = "copy" /\ memo' = [memo EXCEPT ![out'.config] = memo[out'.from]]

\* A read that raises, as when the resolver does, remembers nothing.
Fail == out'.op = "raised" /\ UNCHANGED memo

Next == Read \/ Clear \/ Copy \/ Fail

Spec == Init /\ [][Next]_<<memo, out>>
=============================================================================
