---------------------------- MODULE MCFlagScopes ----------------------------
(* Small instances of FlagScopes for TLC.                                   *)
EXTENDS FlagScopes, TLC

CONSTANTS readonly, r, a, c

\* flag_override with one of the two values, and with None: what read_write and
\* open_dict set is the other value, and nothing here tells the two apart.
Overrides == {readonly :> "true", readonly :> "unset"}

Boxes == Permutations(Node \ Leaf)
=============================================================================
