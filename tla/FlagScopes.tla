----------------------------- MODULE FlagScopes -----------------------------
(***************************************************************************)
(* Flag scopes: the context managers flag_override, read_write and          *)
(* open_dict of omegaconf.py, on top of the flag tree.                      *)
(*                                                                          *)
(* A scope reads the flags of one node on entry, sets them, and sets them   *)
(* again to what it read when it is left, by return or by exception.  In    *)
(* between the program does what it likes with the configuration: every     *)
(* action of FlagTree is a step of a body.  Scopes on the same flag of the  *)
(* same node are left innermost first, as with blocks are; scopes on        *)
(* different nodes or flags are left in any order (generators, ExitStack).  *)
(*                                                                          *)
(* "own" is not in the code: the setting a flag would have if no scope had  *)
(* ever been entered.                                                       *)
(***************************************************************************)
EXTENDS FlagTree, Integers, Sequences

Seqs == INSTANCE SequencesExt

CONSTANTS
    Override,   \* what callers pass to a scope: functions from names to values
    MaxOpen     \* bound: scopes open at a time

\* Values for some of the flags.
SomeFlags == UNION {[names -> Setting] : names \in SUBSET Flag}

ASSUME OverrideAssumption == Override \subseteq SomeFlags
ASSUME MaxOpenAssumption == MaxOpen \in Nat

VARIABLES
    open,       \* the scopes not yet left, in the order of entry
    own

scopeVars == <<open, own>>
allVars == <<vars, scopeVars>>

\* A scope: its node and prev_states.
Scope == [node : Node, prev : SomeFlags]

ScopesTypeOK ==
    /\ TypeOK
    /\ open \in Seq(Scope) /\ Len(open) <= MaxOpen
    /\ own \in [Node -> [Flag -> Setting]]

\* Scope s is one over flag f of node n.
Over(s, n, f) == s.node = n /\ f \in DOMAIN s.prev

Covered(n, f) == \E i \in 1..Len(open) : Over(open[i], n, f)

ScopesInit == Init /\ open = <<>> /\ own = flags

\* Node._set_flag for several names at once.
SetFlags(n, to) ==
    /\ flags' = [flags EXCEPT ![n] =
                    [f \in Flag |-> IF f \in DOMAIN to THEN to[f] ELSE flags[n][f]]]
    /\ cache' = Invalidate(cache, n)
    /\ UNCHANGED <<live, parent, children, flagsRoot>>

\* Mutant of PrevStates: what the node and its parent say.
InheritedStates(n, names) ==
    [f \in names |-> IF Inherits(n, f) THEN flags[parent[n]][f] ELSE flags[n][f]]

\* prev_states: the settings of the node itself, not what it inherits.
PrevStates(n, names) == [f \in names |-> flags[n][f]]

Enter(n, to) ==
    /\ n \in live /\ Len(open) < MaxOpen
    /\ SetFlags(n, to)
    /\ open' = Append(open, [node |-> n, prev |-> PrevStates(n, DOMAIN to)])
    /\ UNCHANGED own

\* Names and values do not pair up: _set_flag raises before it sets anything,
\* and the finally clause gives the flags back, clearing caches.
EnterRefused(n, to) ==
    /\ n \in live
    /\ SetFlags(n, PrevStates(n, DOMAIN to))
    /\ UNCHANGED scopeVars

\* No scope entered later is over one of the flags of the i-th.
Innermost(i) ==
    \A j \in (i + 1)..Len(open) :
        \A f \in DOMAIN open[i].prev : ~Over(open[j], open[i].node, f)

Leave(i) ==
    /\ Innermost(i)
    /\ SetFlags(open[i].node, open[i].prev)
    /\ open' = Seqs!RemoveAt(open, i)
    /\ UNCHANGED own

\* The program does something else.  A setting made inside a scope over the
\* flag is the scope's to undo; any other one stays.
Body ==
    /\ Next
    /\ own' = [n \in Node |-> [f \in Flag |-> IF Covered(n, f) THEN own[n][f]
                                                               ELSE flags'[n][f]]]
    /\ UNCHANGED open

ScopesNext ==
    \/ Body
    \/ \E n \in Node, to \in Override : Enter(n, to) \/ EnterRefused(n, to)
    \/ \E i \in 1..Len(open) : Leave(i)

ScopesSpec == ScopesInit /\ [][ScopesNext]_allVars

-----------------------------------------------------------------------------
(* Properties.                                                              *)

\* Outside all scopes over it a flag has the setting it would have had without
\* scopes: what "The original flag values are restored on exit" promises, for
\* whatever was done in the bodies (nested scopes, settings, replaced
\* contents, copies and moves of the node).
FlagsGivenBack ==
    \A n \in Node, f \in Flag : ~Covered(n, f) => flags[n][f] = own[n][f]
=============================================================================
