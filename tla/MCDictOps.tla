----------------------------- MODULE MCDictOps -----------------------------
(* DictConfig over an accepted value, a value the declared type refuses, an  *)
(* interpolation of the accepted value, "???" and a dangling interpolation.  *)
EXTENDS DictOps

CONSTANTS a, b, x, alias, wrong, one, bad, ref, miss, dang

\* A class with the fields a and b, of which x is no field, and a dict with
\* enum keys: alias is the name of the member a, wrong is no member.
ClassFields == <<a, b>>
ClassNorm == [n \in {a, b, x} |-> n]
EnumNorm == [n \in {a, b, alias, wrong} |-> IF n = alias THEN a ELSE IF n = wrong THEN BadKey ELSE n]
Both == [s \in {"class", "dict"} |-> IF s = "class" THEN ClassNorm ELSE EnumNorm]
OnlyClass == [s \in {"class"} |-> ClassNorm]

TargetOf == [v \in {one, bad, ref, miss, dang} |-> IF v = ref THEN one ELSE v]

\* No guard reads "call", "ok" or "result".
View == <<schema, content, isDict, isObject, struct, outer, readonly>>
=============================================================================
