----------------------------- MODULE MCListOps -----------------------------
(* ListConfig over one plain value, a container that no element type takes, *)
(* an interpolation of the plain value, "???" and a dangling interpolation. *)
EXTENDS ListOps

CONSTANTS one, box, ref, miss, dang

TargetOf == [v \in {one, box, ref, miss, dang} |-> IF v = ref THEN one ELSE v]

\* Indices from the start and from the end, and one out of range each.
AnyIndex == {-4, -1, 0, 1, 3}

\* No guard reads "call" or "ok": states that differ in it alone have the same steps.
View == <<content, isList, typed, readonly>>
=============================================================================
