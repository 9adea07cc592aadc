---------------------------- MODULE MCResolvers ----------------------------
(* A resolver that callers register, and a default resolver they may remove  *)
(* or replace.                                                              *)
EXTENDS Resolvers, TLC

CONSTANTS outer, inner, arg

\* The resolver outer reads the interpolation of the resolver inner.
Straight == [k \in Key |-> IF k[1] = outer THEN {<<inner, k[2]>>} ELSE {}]

\* Of the cache objects no guard sees more than what the configs' own contain,
\* and which of these the running calls will store into.
View == <<registry,
          [c \in Config |-> heap[cacheOf[c]]],
          {cd \in Config \X Config : cacheOf[cd[1]] = cacheOf[cd[2]]},
          [i \in DOMAIN calls |->
              <<calls[i].config, calls[i].key, calls[i].reg,
                {c \in Config : cacheOf[c] = calls[i].cell}>>]>>
Symmetry == Permutations(Config)
=============================================================================
