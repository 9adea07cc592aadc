------------------------------- MODULE Reach -------------------------------
(***************************************************************************)
(* Walks over the node graph of a configuration.  The Python code writes    *)
(* them as recursive methods (up the _parent pointers, down the _content    *)
(* of the containers); here a walk is the least set that contains its start *)
(* and is closed under a successor function.                                *)
(***************************************************************************)

\* S is closed under the successor function succ.
ClosedUnder(succ, S) == \A k \in S : succ[k] \subseteq S

\* Everything a walk from n along succ \in [Node -> SUBSET Node] visits: what is in
\* every closed set that has n, so what no such set lacks.
ReachFrom(Node, succ, n) ==
    {m \in Node : \A S \in SUBSET (Node \ {m}) : n \in S => ~ClosedUnder(succ, S)}
=============================================================================
