---------------------------- MODULE MergeProofs ----------------------------
(***************************************************************************)
(* Proofs about merging.                                                    *)
(*                                                                          *)
(* What a step of a merge may do to the node it works on is stated as a      *)
(* relation between the node before and after, first for the leaves of a     *)
(* dict, then for the loop over them, then for the nodes of the whole        *)
(* config, and the properties about types and flags follow from the last of  *)
(* these.  What is merged, and in which order, is stated of each key, in the *)
(* config as it is when the loop gets to the key.                            *)
(***************************************************************************)
EXTENDS Merge, LoopLemmas, FiniteSetTheorems

Ends == {"returned", "raised", "asserted"}

IsOutcome(r) == r = Outcome(r.ends, r.node)

LEMMA OutcomeIs ==
    ASSUME NEW e, NEW n
    PROVE  /\ Outcome(e, n).ends = e /\ Outcome(e, n).node = n /\ IsOutcome(Outcome(e, n))
           /\ IsOutcome(Returns(n)) /\ IsOutcome(Raises(n))
           /\ Returns(n).ends = "returned" /\ Returns(n).node = n
           /\ Raises(n).ends = "raised" /\ Raises(n).node = n
BY DEF Outcome, Returns, Raises, IsOutcome

-----------------------------------------------------------------------------
(* Nodes.                                                                   *)

\* A dict with content.
IsMap(D, K) == IsDict(D, K) /\ Is(D, "map")

\* D and E differ in their entries at most.
Alike(D, E) ==
    /\ E.kind = D.kind /\ E.type = D.type /\ E.opt = D.opt /\ E.obj = D.obj
    /\ E.ro = D.ro /\ E.st = D.st

\* What Put gives: the entry at k is n, the others are as they were.
PutFacts(D, K, k, n, E) ==
    /\ IsMap(E, K) /\ Alike(D, E)
    /\ DOMAIN E.c.m = DOMAIN D.c.m \cup {k}
    /\ E.c.m[k] = n
    /\ \A j \in DOMAIN D.c.m \ {k} : E.c.m[j] = D.c.m[j]

LEMMA PutIs ==
    ASSUME NEW K, NEW D, IsMap(D, K), NEW k \in K, NEW n
    PROVE  PutFacts(D, K, k, n, Put(D, k, n))
<1> DEFINE f == [j \in DOMAIN D.c.m \cup {k} |-> IF j = k THEN n ELSE D.c.m[j]]
           R == [kind |-> "dict", type |-> D.type, opt |-> D.opt, obj |-> D.obj,
                 c |-> Entries(f), ro |-> D.ro, st |-> D.st]
           m == [j \in DOMAIN D.c.m |-> D.c.m[j]]
<1>1. /\ D = [kind |-> "dict", type |-> D.type, opt |-> D.opt, obj |-> D.obj,
              c |-> Entries(m), ro |-> D.ro, st |-> D.st]
      /\ D.kind = "dict" /\ DOMAIN D.c.m \subseteq K
  <2>1. D.c = Entries(m) /\ DOMAIN D.c.m \subseteq K
    BY DEF IsMap, IsDict, Is, SpecialContent, None, Missing, Interp
  <2>2. /\ D = [kind |-> "dict", type |-> D.type, opt |-> D.opt, obj |-> D.obj, c |-> D.c,
                ro |-> D.ro, st |-> D.st]
        /\ D.kind = "dict"
    BY DEF IsMap, IsDict
  <2> QED BY <2>1, <2>2
<1>2. Put(D, k, n) = R
  <2>1. Put(D, k, n) = [D EXCEPT !.c = [D.c EXCEPT !.m = f]]
    BY DEF Put
  <2>2. D.c = [k |-> "map", m |-> m]
    BY <1>1 DEF Entries
  <2>3. [D.c EXCEPT !.m = f] = Entries(f)
    BY <2>2 DEF Entries
  <2> HIDE DEF f, m
  <2> QED BY <1>1, <2>1, <2>3
<1>3. R.c.m = f /\ R.c.k = "map" /\ R.c = Entries(f)
  BY DEF Entries
<1>4. IsMap(R, K)
  <2>1. /\ R.kind = "dict"
        /\ R = [kind |-> "dict", type |-> R.type, opt |-> R.opt, obj |-> R.obj, c |-> R.c,
                ro |-> R.ro, st |-> R.st]
    OBVIOUS
  <2>2. R.c = Entries([j \in DOMAIN R.c.m |-> R.c.m[j]])
    BY <1>3
  <2>3. DOMAIN R.c.m \subseteq K
    BY <1>1, <1>3
  <2>4. /\ D.type \in {"Any", "Sub"} /\ D.opt \in BOOLEAN
        /\ D.obj \in Class /\ D.ro \in Flag /\ D.st \in Flag
        /\ D.obj # "none" /\ (D.type = "Sub" => D.obj = "Sub")
    BY DEF IsMap, IsDict, Is, SpecialContent, None, Missing, Interp
  <2>5. /\ R.type = D.type /\ R.opt = D.opt /\ R.obj = D.obj /\ R.ro = D.ro /\ R.st = D.st
    OBVIOUS
  <2> HIDE DEF R, f
  <2> QED BY <1>3, <2>1, <2>2, <2>3, <2>4, <2>5 DEF IsMap, IsDict, Is
<1>5. Alike(D, R)
  BY <1>1 DEF Alike
<1> HIDE DEF R
<1> QED BY <1>2, <1>3, <1>4, <1>5 DEF PutFacts

\* Two dicts that are alike and have the same entries are the same.
LEMMA SameMap ==
    ASSUME NEW K, NEW D, NEW E, IsMap(D, K), IsMap(E, K), Alike(D, E),
           DOMAIN E.c.m = DOMAIN D.c.m, \A j \in DOMAIN D.c.m : E.c.m[j] = D.c.m[j]
    PROVE  E = D
<1>1. D.c = E.c
  <2>1. D.c = Entries([j \in DOMAIN D.c.m |-> D.c.m[j]])
    BY DEF IsMap, IsDict, Is, SpecialContent, None, Missing, Interp
  <2>2. E.c = Entries([j \in DOMAIN E.c.m |-> E.c.m[j]])
    BY DEF IsMap, IsDict, Is, SpecialContent, None, Missing, Interp
  <2> QED BY <2>1, <2>2
<1>2. /\ D = [kind |-> "dict", type |-> D.type, opt |-> D.opt, obj |-> D.obj, c |-> D.c,
              ro |-> D.ro, st |-> D.st]
      /\ E = [kind |-> "dict", type |-> E.type, opt |-> E.opt, obj |-> E.obj, c |-> E.c,
              ro |-> E.ro, st |-> E.st]
  BY DEF IsMap, IsDict
<1> QED BY <1>1, <1>2 DEF Alike

LEMMA PutBack ==
    ASSUME NEW K, NEW D, IsMap(D, K), NEW k \in DOMAIN D.c.m
    PROVE  Put(D, k, D.c.m[k]) = D
<1>1. k \in K
  BY DEF IsMap, IsDict, Is, SpecialContent, None, Missing, Interp
<1>2. PutFacts(D, K, k, D.c.m[k], Put(D, k, D.c.m[k]))
  BY <1>1, PutIs
<1> HIDE DEF Put
<1> QED BY <1>2, SameMap DEF PutFacts

\* An interpolation refers to a key of the config.
LEMMA InterpTo ==
    ASSUME NEW n, IsNode(n), Is(n, "interp")
    PROVE  n.c.to \in Key
BY DEF IsNode, IsLeaf, IsList, IsLeafDict, IsDict, Is, SpecialContent, None, Missing, Interp

LEMMA LeafIs ==
    ASSUME NEW n, IsLeaf(n)
    PROVE  /\ n.kind = "leaf" /\ ~IsContainer(n) /\ ~Is(n, "map") /\ ~Is(n, "items")
           /\ n.type \in {"Any", "int"} /\ n.opt \in BOOLEAN /\ (Is(n, "none") => n.opt)
           /\ ~IsSpecial(n) => n.c.v \in Val
BY MergeAssumption DEF IsLeaf, IsContainer, Is, IsSpecial, SpecialContent, None, Missing, Interp,
   MergeAssumption
\* A leaf with another value.
LEMMA LeafWith ==
    ASSUME NEW d, IsLeaf(d), NEW c, (c = None) => d.opt,
           c \in SpecialContent \/ c \in [k : {"value"}, v : IF d.type = "int" THEN IntVal ELSE Val]
    PROVE  /\ IsLeaf([d EXCEPT !.c = c]) /\ [d EXCEPT !.c = c].c = c
           /\ [d EXCEPT !.c = c].type = d.type /\ [d EXCEPT !.c = c].opt = d.opt
<1> DEFINE n == [kind |-> "leaf", type |-> d.type, opt |-> d.opt, c |-> c]
<1>1. d = [kind |-> "leaf", type |-> d.type, opt |-> d.opt, c |-> d.c]
  BY DEF IsLeaf, Leaf
<1>2. [d EXCEPT !.c = c] = n
  BY <1>1
<1>3. c.k = "none" => c = None
  BY DEF SpecialContent, None, Missing, Interp
<1>4. n.kind = "leaf" /\ n.type = d.type /\ n.opt = d.opt /\ n.c = c /\ n = Leaf(n.type, n.opt, n.c)
  BY DEF Leaf
<1> HIDE DEF n
<1>5. IsLeaf(n)
  BY <1>3, <1>4 DEF IsLeaf, Is
<1> QED BY <1>2, <1>4, <1>5

-----------------------------------------------------------------------------
(* D[k] = s.                                                                *)

LEMMA SetItemIs ==
    ASSUME NEW D, NEW up, NEW k, NEW s
    PROVE  \/ SetItem(D, up, k, s) = Raises(D)
           \/ /\ ~SetRefused(D, up, k, s) /\ (~Has(D, k) \/ D.c.m[k].type = "Any")
              /\ SetItem(D, up, k, s) = Returns(Put(D, k, s))
           \/ /\ ~SetRefused(D, up, k, s) /\ Has(D, k) /\ D.c.m[k].type # "Any"
              /\ Accepts(D.c.m[k], s)
              /\ SetItem(D, up, k, s) = Returns(Put(D, k, SetValue(D.c.m[k], s)))
           \/ /\ ~SetRefused(D, up, k, s) /\ Has(D, k) /\ D.c.m[k].type # "Any"
              /\ D.c.m[k].kind = "list" /\ s.kind = "list"
              /\ SetItem(D, up, k, s) = Raises(Put(D, k, Unflagged(D.c.m[k])))
BY DEF SetItem

\* The value of a typed leaf that takes the value of s.
LEMMA SetLeafValue ==
    ASSUME NEW d, IsLeaf(d), d.type # "Any", NEW s, IsNode(s), Accepts(d, s), Is(s, "none") => d.opt
    PROVE  /\ IsLeaf(SetValue(d, s)) /\ SetValue(d, s).c = s.c
           /\ SetValue(d, s).type = d.type /\ SetValue(d, s).opt = d.opt
<1>1. SetValue(d, s) = [d EXCEPT !.c = s.c]
  BY LeafIs DEF SetValue
<1>2. s.c = None => d.opt
  BY DEF Is, None
<1>3. \/ s.c \in SpecialContent
      \/ s.c \in [k : {"value"}, v : IntVal]
  <2>1. CASE IsSpecial(s)
    BY <2>1 DEF IsSpecial, IsNode, IsLeaf, IsList, IsLeafDict, IsDict, Is
  <2>2. CASE ~IsSpecial(s)
    <3>1. s.kind = "leaf" /\ s.c.v \in IntVal /\ d.type = "int"
      BY <2>2, LeafIs DEF Accepts, IsSpecial
    <3>2. IsLeaf(s)
      BY <3>1 DEF IsNode, IsList, IsLeafDict, IsDict
    <3>3. s.c \in SpecialContent \/ s.c \in [k : {"value"}, v : Val]
      BY <3>2, MergeAssumption DEF IsLeaf, MergeAssumption
    <3> QED BY <3>1, <3>3
  <2> QED BY <2>1, <2>2
<1>4. d.type = "int"
  BY LeafIs
<1> QED BY <1>1, <1>2, <1>3, <1>4, LeafWith

\* Setting a leaf in a dict of leaves.
LEMMA SetLeafItem ==
    ASSUME NEW D, IsMap(D, SubKey), NEW up, NEW k \in SubKey, Has(D, k) => IsLeaf(D.c.m[k]),
           NEW s, IsLeaf(s)
    PROVE  \/ SetItem(D, up, k, s) = Raises(D)
           \/ /\ ~SetRefused(D, up, k, s)
              /\ \E n : /\ SetItem(D, up, k, s) = Returns(Put(D, k, n)) /\ IsLeaf(n) /\ n.c = s.c
                        /\ Has(D, k) /\ D.c.m[k].type # "Any" =>
                              n.type = D.c.m[k].type /\ n.opt = D.c.m[k].opt
<1> DEFINE d == D.c.m[k]
<1> HIDE DEF d
<1>1. CASE Has(D, k) /\ d.type # "Any" /\ ~SetRefused(D, up, k, s) /\ Accepts(d, s)
           /\ SetItem(D, up, k, s) = Returns(Put(D, k, SetValue(d, s)))
  <2>1. IsLeaf(d) /\ (Is(s, "none") => d.opt) /\ IsNode(s)
    BY <1>1 DEF SetRefused, d, IsNode
  <2> QED BY <1>1, <2>1, SetLeafValue DEF d
<1>2. ~(Has(D, k) /\ d.kind = "list")
  BY LeafIs DEF d
<1> QED BY <1>1, <1>2, SetItemIs DEF d

-----------------------------------------------------------------------------
(* One round of the loop over the leaves of a source.                       *)

\* What the source gives the key.
Given(D, k, s) == IF Has(D, k) /\ Is(s, "missing") THEN D.c.m[k].c ELSE s.c

\* How D becomes E: the leaf at k is new.
LeafSet(D, up, k, s, E) ==
    /\ IsMap(E, SubKey) /\ Alike(D, E) /\ DOMAIN E.c.m = DOMAIN D.c.m \cup {k}
    /\ \A j \in DOMAIN D.c.m \ {k} : E.c.m[j] = D.c.m[j]
    /\ IsLeaf(E.c.m[k]) /\ E.c.m[k].c = Given(D, k, s)
    /\ ~Has(D, k) => ~IsReadonly(D, up) /\ ~Closed(D, up)
    /\ Has(D, k) => /\ D.c.m[k].type # "Any" =>
                           E.c.m[k].type = D.c.m[k].type /\ E.c.m[k].opt = D.c.m[k].opt
                    /\ IsReadonly(D, up) => E.c.m[k] = D.c.m[k]

LeafRound(D, up, k, s, r) ==
    \/ r = Raises(D)
    \/ r.ends = "returned" /\ r = Returns(r.node) /\ LeafSet(D, up, k, s, r.node)

\* Storing s, or a leaf with what s gives the key, is such a round.
LEMMA SetLeafRound ==
    ASSUME NEW D, IsMap(D, SubKey), NEW up, NEW k \in SubKey, Has(D, k) => IsLeaf(D.c.m[k]),
           NEW s, IsLeaf(s), NEW t, s.c = Given(D, k, t)
    PROVE  LeafRound(D, up, k, t, SetItem(D, up, k, s))
<1>1. CASE SetItem(D, up, k, s) = Raises(D)
  BY <1>1 DEF LeafRound
<1>2. CASE ~(SetItem(D, up, k, s) = Raises(D))
  <2>1. PICK n : /\ SetItem(D, up, k, s) = Returns(Put(D, k, n)) /\ IsLeaf(n) /\ n.c = s.c
                 /\ Has(D, k) /\ D.c.m[k].type # "Any" =>
                       n.type = D.c.m[k].type /\ n.opt = D.c.m[k].opt
    BY <1>2, SetLeafItem
  <2>2. ~SetRefused(D, up, k, s)
    BY <1>2, SetLeafItem
  <2> DEFINE E == Put(D, k, n)
  <2>3. PutFacts(D, SubKey, k, n, E)
    BY PutIs
  <2>4. ~IsReadonly(D, up) /\ (~Has(D, k) => ~Closed(D, up))
    BY <2>2 DEF SetRefused
  <2> HIDE DEF E
  <2>5. LeafSet(D, up, k, t, E)
    BY <2>1, <2>3, <2>4 DEF LeafSet, PutFacts
  <2>6. SetItem(D, up, k, s) = Returns(E) /\ Returns(E).ends = "returned" /\ Returns(E).node = E
    BY <2>1, OutcomeIs DEF E
  <2> QED BY <2>5, <2>6 DEF LeafRound
<1> QED BY <1>1, <1>2
\* Leaving the leaf as it is.
LEMMA SameLeafRound ==
    ASSUME NEW D, IsMap(D, SubKey), NEW up, NEW k \in DOMAIN D.c.m, IsLeaf(D.c.m[k]), NEW s,
           Is(s, "missing")
    PROVE  LeafRound(D, up, k, s, Returns(D))
<1>1. LeafSet(D, up, k, s, D)
  BY DEF LeafSet, Alike, Given, Has
<1> QED BY <1>1, OutcomeIs DEF LeafRound

\* A typed leaf takes the value of s.
LEMMA TypedLeafRound ==
    ASSUME NEW D, IsMap(D, SubKey), NEW up, NEW k \in SubKey, Has(D, k), IsLeaf(D.c.m[k]),
           D.c.m[k].type # "Any", ~IsReadonly(D, up), NEW s, IsLeaf(s), Accepts(D.c.m[k], s),
           ~Is(s, "missing"), Is(s, "none") => D.c.m[k].opt
    PROVE  LeafRound(D, up, k, s, Returns(Put(D, k, SetValue(D.c.m[k], s))))
<1> DEFINE d == D.c.m[k]
           n == SetValue(d, s)
           E == Put(D, k, n)
<1> HIDE DEF d
<1>1. IsLeaf(n) /\ n.c = s.c /\ n.type = d.type /\ n.opt = d.opt
  <2>1. IsNode(s)
    BY DEF IsNode
  <2> QED BY <2>1, SetLeafValue DEF d
<1> HIDE DEF n
<1>2. PutFacts(D, SubKey, k, n, E)
  BY PutIs
<1> HIDE DEF E
<1>3. LeafSet(D, up, k, s, E)
  BY <1>1, <1>2 DEF LeafSet, PutFacts, Given, d
<1>4. LeafRound(D, up, k, s, Returns(E))
  BY <1>3, OutcomeIs DEF LeafRound
<1> QED BY <1>4 DEF E, n, d

LEMMA MergeValueRound ==
    ASSUME NEW D, IsMap(D, SubKey), NEW up, NEW k \in SubKey, Has(D, k), IsLeaf(D.c.m[k]),
           NEW s, IsLeaf(s), NEW how
    PROVE  LeafRound(D, up, k, s, MergeValue(D, up, k, s, how))
<1> DEFINE d == D.c.m[k]
           M == MergeValue(D, up, k, s, how)
<1>1. ~IsContainer(s) /\ ~IsContainer(d) /\ IsLeaf(d) /\ k \in DOMAIN D.c.m
  BY LeafIs DEF Has
<1> HIDE DEF d
<1>2. CASE Is(s, "missing")
  <2>1. CASE d.type # "Any"
    <3>1. M = Returns(D)
      BY <1>1, <1>2, <2>1 DEF MergeValue, d
    <3> QED BY <1>1, <1>2, <3>1, SameLeafRound DEF d
  <2>2. CASE d.type = "Any" /\ how.source.ro = "on"
    <3>1. M = Raises(D)
      BY <1>1, <1>2, <2>2 DEF MergeValue, d
    <3> QED BY <3>1 DEF LeafRound
  <2>3. CASE d.type = "Any" /\ how.source.ro # "on"
    <3>1. M = SetItem(D, up, k, d)
      BY <1>1, <1>2, <2>3 DEF MergeValue, d
    <3>2. d.c = Given(D, k, s)
      BY <1>2 DEF Given, d
    <3> QED BY <1>1, <3>1, <3>2, SetLeafRound DEF d
  <2> QED BY <2>1, <2>2, <2>3
<1>3. CASE ~Is(s, "missing") /\ d.type = "Any"
  <2>1. M = SetItem(D, up, k, s)
    BY <1>1, <1>3 DEF MergeValue, d
  <2>2. s.c = Given(D, k, s)
    BY <1>3 DEF Given
  <2> QED BY <1>1, <2>1, <2>2, SetLeafRound DEF d
<1>4. CASE ~Is(s, "missing") /\ d.type # "Any"
  <2> DEFINE stop == IsReadonly(D, up) \/ ~Accepts(d, s) \/ (Is(s, "none") /\ ~d.opt)
  <2>1. M = IF stop THEN Raises(D) ELSE Returns(Put(D, k, SetValue(d, s)))
    BY <1>1, <1>4 DEF MergeValue, d
  <2>2. CASE stop
    BY <2>1, <2>2 DEF LeafRound
  <2>3. CASE ~stop
    <3>1. ~IsReadonly(D, up) /\ Accepts(d, s) /\ (Is(s, "none") => d.opt)
      BY <2>3
    <3> QED BY <1>1, <1>4, <2>1, <2>3, <3>1, TypedLeafRound DEF d
  <2> QED BY <2>2, <2>3
<1> QED BY <1>2, <1>3, <1>4

\* A round of the loop begins with nothing, in a dict of leaves: no leaf is a
\* container, and none refers to one.
LEMMA PrepareLeaf ==
    ASSUME NEW D, IsMap(D, SubKey), NEW up, NEW k \in SubKey, Has(D, k), IsEntry(D.c.m[k]), NEW s
    PROVE  Prepare(D, up, k, s) = Returns(D)
<1> DEFINE d == D.c.m[k]
<1>1. ~IsContainer(d) /\ d.kind = "leaf"
  BY LeafIs DEF IsEntry
<1>2. ~RefersToContainer(D, k)
  BY DEF RefersToContainer, IsEntry
<1>3. ~MergeInvalid(d, s)
  BY <1>1 DEF MergeInvalid
<1>4. Put(D, k, d) = D
  BY PutBack DEF Has
<1> HIDE DEF d
<1>5. Prepare(D, up, k, s) = Outcome("returned", Put(D, k, d))
  BY <1>1, <1>2, <1>3, OutcomeIs DEF Prepare, d
<1> QED BY <1>4, <1>5 DEF Returns

LEMMA MergeLeafRound ==
    ASSUME NEW D, IsMap(D, SubKey), NEW up, NEW k \in SubKey, Has(D, k) => IsEntry(D.c.m[k]),
           NEW s, IsEntry(s), NEW how
    PROVE  /\ LeafRound(D, up, k, s, MergeLeaf(D, up, k, s, how))
           /\ \A E : LeafSet(D, up, k, s, E) => IsEntry(E.c.m[k])
<1>1. IsLeaf(s) /\ (Has(D, k) => IsLeaf(D.c.m[k]))
  BY DEF IsEntry
<1>2. CASE Has(D, k)
  <2>1. Prepare(D, up, k, s) = Returns(D)
    BY <1>2, PrepareLeaf
  <2>2. MergeLeaf(D, up, k, s, how) = MergeValue(D, up, k, s, how)
    BY <1>2, <2>1, OutcomeIs DEF MergeLeaf
  <2>3. LeafRound(D, up, k, s, MergeLeaf(D, up, k, s, how))
    BY <1>1, <1>2, <2>2, MergeValueRound
  <2> QED BY <1>2, <2>3 DEF LeafSet, IsEntry, Given, Is
<1>3. CASE ~Has(D, k)
  <2>1. MergeLeaf(D, up, k, s, how) = SetItem(D, up, k, s)
    BY <1>3 DEF MergeLeaf
  <2>2. s.c = Given(D, k, s)
    BY <1>3 DEF Given
  <2>3. LeafRound(D, up, k, s, MergeLeaf(D, up, k, s, how))
    BY <1>1, <1>3, <2>1, <2>2, SetLeafRound
  <2> QED BY <1>3, <2>3 DEF LeafSet, IsEntry, Given, Is
<1> QED BY <1>2, <1>3
-----------------------------------------------------------------------------
(* The loop over the leaves of a source.                                    *)

\* The sets the nodes are in.
LeafNodes ==
    [kind : {"leaf"}, type : {"Any", "int"}, opt : BOOLEAN,
     c : SpecialContent \cup [k : {"value"}, v : Val]]
DictNodes(K, N) ==
    [kind : {"dict"}, type : {"Any", "Sub"}, opt : BOOLEAN, obj : Class,
     c : SpecialContent \cup [k : {"map"}, m : UNION {[X -> N] : X \in SUBSET K}],
     ro : Flag, st : Flag]

LEMMA LeafInSet == ASSUME NEW n, IsLeaf(n) PROVE n \in LeafNodes
<1>1. n.c \in SpecialContent \cup [k : {"value"}, v : Val]
  BY MergeAssumption DEF IsLeaf, MergeAssumption
<1>2. n = [kind |-> "leaf", type |-> n.type, opt |-> n.opt, c |-> n.c]
  BY DEF IsLeaf, Leaf
<1>3. n.type \in {"Any", "int"} /\ n.opt \in BOOLEAN
  BY DEF IsLeaf
<1> QED BY <1>1, <1>2, <1>3 DEF LeafNodes

LEMMA DictInSet ==
    ASSUME NEW K, NEW N, NEW n, IsDict(n, K), Is(n, "map") => \A j \in DOMAIN n.c.m : n.c.m[j] \in N
    PROVE  n \in DictNodes(K, N)
<1>1. n.c \in SpecialContent \cup [k : {"map"}, m : UNION {[X -> N] : X \in SUBSET K}]
  <2>1. CASE n.c \in SpecialContent
    BY <2>1
  <2>2. CASE n.c \notin SpecialContent
    <3> DEFINE m == n.c.m
    <3>1. /\ Is(n, "map") /\ n.c = Entries([j \in DOMAIN m |-> m[j]]) /\ DOMAIN m \subseteq K
          /\ n.c.m = m
      BY <2>2 DEF IsDict
    <3>2. \A j \in DOMAIN m : m[j] \in N
      BY <3>1
    <3> HIDE DEF m
    <3>3. [j \in DOMAIN m |-> m[j]] \in [DOMAIN m -> N]
      BY <3>2
    <3>4. [j \in DOMAIN m |-> m[j]] \in UNION {[X -> N] : X \in SUBSET K}
      BY <3>1, <3>3
    <3> QED BY <3>1, <3>4 DEF Entries
  <2> QED BY <2>1, <2>2
<1>2. n = [kind |-> "dict", type |-> n.type, opt |-> n.opt, obj |-> n.obj, c |-> n.c,
           ro |-> n.ro, st |-> n.st]
  BY DEF IsDict
<1>3. /\ n.type \in {"Any", "Sub"} /\ n.opt \in BOOLEAN /\ n.obj \in Class
      /\ n.ro \in Flag /\ n.st \in Flag
  BY DEF IsDict
<1> QED BY <1>1, <1>2, <1>3 DEF DictNodes

\* A dict of leaves, if it has content.
Leafy(D) == IsDict(D, SubKey) /\ (Is(D, "map") => \A j \in DOMAIN D.c.m : IsEntry(D.c.m[j]))

\* Orders of keys: sequences in which each key of S is once.
Orderly(S, K, how) ==
    /\ Is(S, "missing") \/ IsMap(S, K)
    /\ Is(S, "map") => how.order[DOMAIN S.c.m] \in SetToSeqs(DOMAIN S.c.m)

LEMMA KeysInAre ==
    ASSUME NEW S, NEW K, IsFiniteSet(K), NEW how, Orderly(S, K, how)
    PROVE  /\ KeysIn(S, how) \in Seq(K)
           /\ \A i \in DOMAIN KeysIn(S, how) : Has(S, KeysIn(S, how)[i])
           /\ \A i, j \in DOMAIN KeysIn(S, how) :
                 i # j => KeysIn(S, how)[i] # KeysIn(S, how)[j]
           /\ Is(S, "map") => \A k \in DOMAIN S.c.m : \E i \in DOMAIN KeysIn(S, how) : KeysIn(S, how)[i] = k
           /\ Is(S, "missing") => KeysIn(S, how) = <<>>
<1>1. CASE Is(S, "missing")
  <2>1. KeysIn(S, how) = <<>> /\ ~Is(S, "map")
    BY <1>1 DEF KeysIn, Is
  <2> QED BY <2>1
<1>2. CASE ~Is(S, "missing")
  <2> DEFINE D == DOMAIN S.c.m
             n == Cardinality(D)
             ks == KeysIn(S, how)
  <2>1. D \subseteq K
    BY <1>2 DEF Orderly, IsMap, IsDict, Is, SpecialContent, None, Missing, Interp
  <2>2. IsFiniteSet(D) /\ n \in Nat
    BY <2>1, FS_Subset, FS_CardinalityType
  <2>3. ks \in SetToSeqs(D)
    BY <1>2 DEF KeysIn, Orderly, IsMap
  <2>4. \A k \in D : Has(S, k)
    BY DEF Has
  <2> HIDE DEF D, ks
  <2>5. ks \in [1 .. n -> D] /\ \A i, j \in 1 .. n : i # j => ks[i] # ks[j]
    BY <2>3 DEF SetToSeqs
  <2>6. ks \in Seq(D) /\ DOMAIN ks = 1 .. n
    BY <2>2, <2>5, SeqDef
  <2>7. \A k \in D : \E i \in 1 .. n : ks[i] = k
    <3>1. ks \in Injection(1 .. n, D)
      BY <2>5 DEF Injection, IsInjective
    <3>2. Cardinality(1 .. n) = n
      BY <2>2, FS_Interval
    <3>3. ks \in Surjection(1 .. n, D)
      <4> HIDE DEF n
      <4> QED BY <2>2, <3>1, <3>2, FS_Injection DEF n
    <3> QED BY <3>3 DEF Surjection
  <2>8. ks \in Seq(K)
    BY <2>1, <2>6
  <2> QED BY <1>2, <2>4, <2>5, <2>6, <2>7, <2>8 DEF D, ks
<1> QED BY <1>1, <1>2
\* What the rounds of the loop over leaves begin and end with.
LeafLoop(n) ==
    {r \in [ends : Ends, node : DictNodes(SubKey, LeafNodes)] :
        Leafy(r.node) /\ (n > 0 /\ r.ends = "returned" => Is(r.node, "map"))}

LeafStep(r, up, S, k, how) == IF r.ends = "returned" THEN MergeLeaf(r.node, up, k, S.c.m[k], how) ELSE r

Inside(S, how) == [how EXCEPT !.source = Flags(S, how.source)]

\* A source of leaves.
LeafSource(S, how) ==
    /\ Orderly(S, SubKey, how)
    /\ Is(S, "map") => \A k \in DOMAIN S.c.m : IsEntry(S.c.m[k])

LEMMA LeafStepIn ==
    ASSUME NEW n \in Nat \ {0}, NEW r \in LeafLoop(n), NEW up, NEW S, NEW k \in SubKey, IsEntry(S.c.m[k]),
           NEW how
    PROVE  LeafStep(r, up, S, k, how) \in LeafLoop(n)
<1>1. CASE r.ends # "returned"
  BY <1>1 DEF LeafStep
<1>2. CASE r.ends = "returned"
  <2> DEFINE D == r.node
             s == S.c.m[k]
             w == MergeLeaf(D, up, k, s, how)
  <2>1. IsMap(D, SubKey) /\ (Has(D, k) => IsEntry(D.c.m[k])) /\ Leafy(D)
    BY <1>2 DEF LeafLoop, Leafy, IsMap, Has
  <2>2. LeafStep(r, up, S, k, how) = w
    BY <1>2 DEF LeafStep
  <2> HIDE DEF s, w
  <2>3. /\ LeafRound(D, up, k, s, w)
        /\ \A E : LeafSet(D, up, k, s, E) => IsEntry(E.c.m[k])
    BY <2>1, MergeLeafRound DEF s, w
  <2>4. CASE w = Raises(D)
    <3>1. Raises(D) = [ends |-> "raised", node |-> D] /\ Raises(D).ends = "raised" /\ Raises(D).node = D
      BY OutcomeIs DEF Raises, Outcome
    <3>2. D \in DictNodes(SubKey, LeafNodes)
      BY DEF LeafLoop
    <3> HIDE DEF D
    <3> QED BY <2>1, <2>2, <2>4, <3>1, <3>2 DEF LeafLoop, Ends
  <2>5. CASE w.ends = "returned" /\ w = Returns(w.node) /\ LeafSet(D, up, k, s, w.node)
    <3> DEFINE E == w.node
    <3>1. IsMap(E, SubKey) /\ \A j \in DOMAIN E.c.m : IsEntry(E.c.m[j])
      <4> HIDE DEF D
      <4> QED BY <2>1, <2>3, <2>5 DEF LeafSet, Leafy, IsMap
    <3>2. Leafy(E) /\ Is(E, "map")
      BY <3>1 DEF Leafy, IsMap
    <3> HIDE DEF E
    <3>3. E \in DictNodes(SubKey, LeafNodes)
      <4>1. IsDict(E, SubKey) /\ \A j \in DOMAIN E.c.m : E.c.m[j] \in LeafNodes
        BY <3>1, LeafInSet DEF IsMap, IsEntry
      <4> QED BY <4>1, DictInSet
    <3>4. w = [ends |-> "returned", node |-> E]
      BY <2>5 DEF Returns, Outcome, E
    <3> QED BY <2>2, <3>2, <3>3, <3>4 DEF LeafLoop, Ends
  <2> QED BY <2>3, <2>4, <2>5 DEF LeafRound
<1> QED BY <1>1, <1>2

\* d[i] is what the first i rounds leave.
LeafRounds(d, D, up, S, how) ==
    LET ks == KeysIn(S, how)
    IN  /\ d \in [0 .. Len(ks) -> LeafLoop(Len(ks))]
        /\ d[0] = LoopStart(D, S, how)
        /\ \A i \in 0 .. Len(ks) - 1 :
              d[i + 1] = LeafStep(d[i], up, S, ks[i + 1], Inside(S, how))
        /\ MergeLeaves(D, up, S, how) = LoopEnd(d[Len(ks)], S)

LEMMA LeafRoundsAre ==
    ASSUME NEW D, NEW up, NEW S, NEW how, LeafSource(S, how),
           LoopStart(D, S, how) \in LeafLoop(Len(KeysIn(S, how)))
    PROVE  \E d : LeafRounds(d, D, up, S, how)
<1> DEFINE vs == KeysIn(S, how)
           n == Len(vs)
           L == LeafLoop(n)
           base == LoopStart(D, S, how)
           inside == [how EXCEPT !.source = Flags(S, how.source)]
           Op(r, k) == IF r.ends = "returned" THEN MergeLeaf(r.node, up, k, S.c.m[k], inside) ELSE r
           step == [p \in L \X (1 .. n) |-> Op(p[1], vs[p[2]])]
           Body(it) == [s \in SUBSET DOMAIN vs |->
                          IF s = {} THEN base ELSE Op(it[s \ {Max(s)}], vs[Max(s)])]
           r == CHOOSE f : f = Body(f)
<1>a. /\ vs \in Seq(SubKey)
      /\ \A i \in DOMAIN vs : Has(S, vs[i])
      /\ Is(S, "missing") => vs = <<>>
  <2>1. Orderly(S, SubKey, how) /\ IsFiniteSet(SubKey)
    BY MergeAssumption DEF MergeAssumption, LeafSource
  <2> QED BY <2>1, KeysInAre
<1> HIDE DEF vs
<1>0. n \in Nat /\ DOMAIN vs = 1 .. n
  BY <1>a
<1>b. \A i \in 1 .. n : vs[i] \in SubKey /\ IsEntry(S.c.m[vs[i]])
  <2> TAKE i \in 1 .. n
  <2>1. Has(S, vs[i]) /\ vs[i] \in SubKey /\ ~Is(S, "missing")
    BY <1>0, <1>a
  <2> QED BY <2>1 DEF LeafSource, Orderly, IsMap, Has
<1>1. \A o \in L, i \in 1 .. n : Op(o, vs[i]) \in L
  <2>1. ASSUME NEW o \in L, NEW i \in 1 .. n PROVE Op(o, vs[i]) \in L
    <3>1. n \in Nat \ {0}
      BY <1>0
    <3>2. vs[i] \in SubKey /\ IsEntry(S.c.m[vs[i]])
      BY <1>b
    <3>3. Op(o, vs[i]) = LeafStep(o, up, S, vs[i], inside)
      BY DEF LeafStep
    <3> HIDE DEF Op, inside, n
    <3> QED BY <3>1, <3>2, <3>3, LeafStepIn
  <2> QED BY <2>1
<1>2. step \in Steps(n, L) /\ base \in L
  <2>1. base \in L
    BY DEF vs
  <2> HIDE DEF Op, L, n, base
  <2> QED BY <1>1, <2>1 DEF Steps
<1>3. PICK it \in [SUBSET (1 .. n) -> L] : Iterates(it, n, base, step)
  <2> HIDE DEF L, step, base, n
  <2> QED BY <1>0, <1>2, FoldExists
<1>4. \A s \in SUBSET (1 .. n) : s # {} => Max(s) \in 1 .. n
  <2>1. ASSUME NEW s \in SUBSET (1 .. n), s # {} PROVE Max(s) \in s
    <3>1. s \in SUBSET (0 .. n)
      BY <1>0
    <3> QED BY <1>0, <2>1, <3>1, MaxIn
  <2> QED BY <2>1
<1>5. \A o \in L, i \in 1 .. n : step[<<o, i>>] = Op(o, vs[i])
  <2> HIDE DEF Op, L, n
  <2> QED OBVIOUS
<1>6. it = Body(it)
  <2>1. \A s \in SUBSET (1 .. n) : s # {} => it[s \ {Max(s)}] \in L
    BY <1>3
  <2> HIDE DEF Op, L, base, step, n
  <2>2. ASSUME NEW s \in SUBSET (1 .. n)
        PROVE  it[s] = IF s = {} THEN base ELSE Op(it[s \ {Max(s)}], vs[Max(s)])
    <3>1. CASE s = {}
      BY <1>3, <3>1 DEF Iterates
    <3>2. CASE s # {}
      <4>1. it[s] = step[<<it[s \ {Max(s)}], Max(s)>>]
        BY <1>3, <3>2 DEF Iterates
      <4> QED BY <1>4, <1>5, <2>1, <3>2, <4>1
    <3> QED BY <3>1, <3>2
  <2> QED BY <1>0, <1>3, <2>2
<1>7. r = Body(r)
  <2> HIDE DEF Body
  <2> QED BY <1>6, Zenon
<1>8. MergeLeaves(D, up, S, how) = LoopEnd(r[1 .. n], S)
  <2>1. ~Is(S, "none") /\ ~Is(S, "interp")
    BY DEF LeafSource, Orderly, IsMap, Is
  <2> DEFINE Round(o, k) == IF o.ends = "returned" THEN MergeLeaf(o.node, up, k, S.c.m[k], inside) ELSE o
  <2>2. MergeLeaves(D, up, S, how) = LoopEnd(FoldLeft(Round, base, vs), S)
    BY <2>1 DEF MergeLeaves, vs
  <2>3. FoldLeft(Round, base, vs) = r[1 .. n]
    <3> HIDE DEF base, inside
    <3> QED BY <1>0 DEF FoldLeft, MapThenFoldSet
  <2> HIDE DEF r
  <2> QED BY <2>2, <2>3
<1>9. Rounds(r, n, L, step)
  <2>1. IteratesIn(r, n, L, base, step)
    <3> HIDE DEF Op, L, base, n, r, step
    <3>1. r[{}] = base
      BY <1>7
    <3>2. ASSUME NEW s \in SUBSET (1 .. n), s # {}, r[s \ {Max(s)}] \in L
          PROVE  r[s] = step[<<r[s \ {Max(s)}], Max(s)>>]
      <4>1. r[s] = Op(r[s \ {Max(s)}], vs[Max(s)])
        BY <1>0, <1>7, <3>2
      <4> QED BY <1>4, <1>5, <3>2, <4>1
    <3> QED BY <3>1, <3>2 DEF IteratesIn
  <2> HIDE DEF r, L, step, base, n
  <2> QED BY <1>0, <1>2, <2>1, FoldRounds
<1> DEFINE d == [k \in 0 .. n |-> r[1 .. k]]
<1>10. r[1 .. 0] = base
  <2>1. 1 .. 0 = {}
    OBVIOUS
  <2> HIDE DEF Op, L, base, n, r, step
  <2> QED BY <2>1, <1>7
<1>11. ASSUME NEW k \in 0 .. n - 1 PROVE d[k + 1] = Op(d[k], vs[k + 1])
  <2>1. k \in 0 .. n /\ k + 1 \in 0 .. n /\ k + 1 \in 1 .. n /\ k < n
    BY <1>0
  <2> HIDE DEF Op, L, base, r, step, n
  <2>2. r[1 .. k] \in L /\ r[1 .. k + 1] = step[<<r[1 .. k], k + 1>>]
    BY <1>9, <2>1 DEF Rounds
  <2> QED BY <1>5, <2>1, <2>2
<1>12. d \in [0 .. n -> L] /\ d[0] = base /\ d[n] = r[1 .. n]
  <2>1. 0 \in 0 .. n /\ n \in 0 .. n
    BY <1>0
  <2> HIDE DEF Op, L, base, r, step, n
  <2> QED BY <1>9, <1>10, <2>1 DEF Rounds
<1>13. LeafRounds(d, D, up, S, how)
  <2>1. \A o, k : Op(o, k) = LeafStep(o, up, S, k, Inside(S, how))
    BY DEF LeafStep, Inside
  <2> HIDE DEF Op, d, r, base, inside, L
  <2> QED BY <1>8, <1>11, <1>12, <2>1 DEF LeafRounds, vs, base, L
<1> QED BY <1>13
LEMMA AlikeFlags ==
    ASSUME NEW D, NEW E, Alike(D, E), NEW up
    PROVE  /\ IsReadonly(E, up) <=> IsReadonly(D, up)
           /\ Closed(E, up) <=> Closed(D, up)
           /\ Flags(E, up) = Flags(D, up)
BY DEF Alike, IsReadonly, Closed, Flags

\* The loop has come to the keys of V: what it made of T is r.
LeavesMerged(T, up, S, V, r) ==
    LET E == r.node
    IN  /\ r.ends \in {"returned", "raised"}
        /\ IsMap(E, SubKey) /\ Alike(T, E)
        /\ DOMAIN T.c.m \subseteq DOMAIN E.c.m /\ DOMAIN E.c.m \subseteq DOMAIN T.c.m \cup V
        /\ IsReadonly(T, up) \/ Closed(T, up) => DOMAIN E.c.m = DOMAIN T.c.m
        /\ \A j \in DOMAIN E.c.m :
            /\ IsEntry(E.c.m[j])
            /\ j \notin V => E.c.m[j] = T.c.m[j]
            /\ Has(T, j) => /\ T.c.m[j].type # "Any" =>
                                   E.c.m[j].type = T.c.m[j].type /\ E.c.m[j].opt = T.c.m[j].opt
                            /\ IsReadonly(T, up) => E.c.m[j] = T.c.m[j]
            /\ \/ Has(T, j) /\ E.c.m[j].c = T.c.m[j].c
               \/ j \in V /\ E.c.m[j].c = Given(T, j, S.c.m[j])
        /\ r.ends = "returned" =>
            \A j \in V : Has(E, j) /\ E.c.m[j].c = Given(T, j, S.c.m[j])

LEMMA LeavesMergedStart ==
    ASSUME NEW T, IsMap(T, SubKey), \A j \in DOMAIN T.c.m : IsEntry(T.c.m[j]), NEW up, NEW S
    PROVE  LeavesMerged(T, up, S, {}, Returns(T))
<1>1. Returns(T).ends = "returned" /\ Returns(T).node = T
  BY OutcomeIs
<1>2. Alike(T, T)
  BY DEF Alike
<1> QED BY <1>1, <1>2 DEF LeavesMerged, Has

LEMMA LeavesMergedStep ==
    ASSUME NEW T, NEW up, NEW S, NEW V, NEW r, LeavesMerged(T, up, S, V, r),
           NEW k \in SubKey, k \notin V, IsEntry(S.c.m[k]), NEW how
    PROVE  LeavesMerged(T, up, S, V \cup {k}, LeafStep(r, up, S, k, how))
<1> DEFINE D == r.node
           s == S.c.m[k]
           W == V \cup {k}
           w == LeafStep(r, up, S, k, how)
<1>1. /\ IsMap(D, SubKey) /\ Alike(T, D)
      /\ Has(D, k) <=> Has(T, k)
      /\ Has(D, k) => D.c.m[k] = T.c.m[k] /\ IsEntry(D.c.m[k])
  BY DEF LeavesMerged, Has
<1>2. CASE r.ends # "returned"
  <2>1. w = r /\ r.ends = "raised"
    BY <1>2 DEF LeafStep, LeavesMerged
  <2> HIDE DEF w, s
  <2>2. LeavesMerged(T, up, S, W, r)
    BY <2>1 DEF LeavesMerged
  <2> QED BY <2>1, <2>2 DEF w
<1>3. CASE r.ends = "returned"
  <2>1. w = MergeLeaf(D, up, k, s, how)
    BY <1>3 DEF LeafStep
  <2>2. /\ LeafRound(D, up, k, s, w)
        /\ \A E : LeafSet(D, up, k, s, E) => IsEntry(E.c.m[k])
    BY <1>1, <2>1, MergeLeafRound
  <2> HIDE DEF w, s
  <2>3. CASE w = Raises(D)
    <3>1. w.node = D /\ w.ends = "raised"
      BY <2>3, OutcomeIs
    <3>2. LeavesMerged(T, up, S, W, w)
      <4> HIDE DEF D
      <4> USE <3>1 DEF D
      <4> QED BY <1>3 DEF LeavesMerged
    <3> QED BY <3>2 DEF w
  <2>4. CASE w.ends = "returned" /\ LeafSet(D, up, k, s, w.node)
    <3> DEFINE E == w.node
    <3>1. LeafSet(D, up, k, s, E)
      BY <2>4
    <3>2. Given(D, k, s) = Given(T, k, s)
      BY <1>1 DEF Given
    <3>3. /\ IsReadonly(D, up) <=> IsReadonly(T, up)
          /\ Closed(D, up) <=> Closed(T, up)
      BY <1>1, AlikeFlags
    <3> HIDE DEF E, D
    <3>a. LeavesMerged(T, up, S, V, r) /\ r.node = D
      BY DEF D
    <3>b. /\ DOMAIN T.c.m \subseteq DOMAIN D.c.m /\ DOMAIN D.c.m \subseteq DOMAIN T.c.m \cup V
          /\ IsReadonly(T, up) \/ Closed(T, up) => DOMAIN D.c.m = DOMAIN T.c.m
      BY <3>a DEF LeavesMerged
    <3>4. Alike(T, E) /\ IsMap(E, SubKey)
      BY <1>1, <3>1 DEF Alike, LeafSet
    <3>5. /\ DOMAIN T.c.m \subseteq DOMAIN E.c.m /\ DOMAIN E.c.m \subseteq DOMAIN T.c.m \cup W
          /\ IsReadonly(T, up) \/ Closed(T, up) => DOMAIN E.c.m = DOMAIN T.c.m
      BY <3>1, <3>3, <3>b DEF LeafSet, Has
    <3>6. ASSUME NEW j \in DOMAIN E.c.m
          PROVE  /\ IsEntry(E.c.m[j])
                 /\ j \notin W => E.c.m[j] = T.c.m[j]
                 /\ Has(T, j) => /\ T.c.m[j].type # "Any" =>
                                        E.c.m[j].type = T.c.m[j].type /\ E.c.m[j].opt = T.c.m[j].opt
                                 /\ IsReadonly(T, up) => E.c.m[j] = T.c.m[j]
                 /\ \/ Has(T, j) /\ E.c.m[j].c = T.c.m[j].c
                    \/ j \in W /\ E.c.m[j].c = Given(T, j, S.c.m[j])
      <4>1. CASE j = k
        <5>1. IsEntry(E.c.m[k])
          BY <2>2, <3>1 DEF D
        <5> QED BY <1>1, <3>1, <3>2, <3>3, <4>1, <5>1 DEF LeafSet, s
      <4>2. CASE j # k
        <5>1. j \in DOMAIN D.c.m /\ E.c.m[j] = D.c.m[j]
          BY <3>1, <4>2 DEF LeafSet
        <5> QED BY <3>a, <4>2, <5>1 DEF LeavesMerged
      <4> QED BY <4>1, <4>2
    <3>7. \A j \in W : Has(E, j) /\ E.c.m[j].c = Given(T, j, S.c.m[j])
      <4>1. Has(E, k) /\ E.c.m[k].c = Given(T, k, s)
        BY <3>1, <3>2 DEF LeafSet, Has
      <4>2. ASSUME NEW j \in V PROVE Has(E, j) /\ E.c.m[j].c = Given(T, j, S.c.m[j])
        <5>1. Has(D, j) /\ D.c.m[j].c = Given(T, j, S.c.m[j]) /\ j # k
          BY <1>3, <3>a DEF LeavesMerged
        <5> QED BY <3>1, <5>1 DEF LeafSet, Has
      <4> QED BY <4>1, <4>2 DEF s
    <3>8. LeavesMerged(T, up, S, W, w)
      BY <2>4, <3>4, <3>5, <3>6, <3>7 DEF LeavesMerged, E
    <3> QED BY <3>8 DEF w
  <2> QED BY <2>2, <2>3, <2>4 DEF LeafRound
<1> QED BY <1>2, <1>3
\* The keys of the first i rounds.
Upto(ks, i) == {ks[j] : j \in 1 .. i}

LEMMA UptoNext ==
    ASSUME NEW K, NEW ks \in Seq(K), \A i, j \in DOMAIN ks : i # j => ks[i] # ks[j],
           NEW i \in 0 .. Len(ks) - 1
    PROVE  /\ Upto(ks, i + 1) = Upto(ks, i) \cup {ks[i + 1]}
           /\ ks[i + 1] \notin Upto(ks, i)
           /\ i + 1 \in DOMAIN ks /\ ks[i + 1] \in K
<1>1. i \in Nat /\ i + 1 \in 1 .. Len(ks) /\ DOMAIN ks = 1 .. Len(ks)
  OBVIOUS
<1>2. 1 .. i + 1 = (1 .. i) \cup {i + 1}
  BY <1>1
<1>3. \A j \in 1 .. i : j \in 1 .. Len(ks) /\ j # i + 1
  BY <1>1
<1>4. ks[i + 1] \in K
  BY <1>1
<1>5. ks[i + 1] \notin Upto(ks, i)
  BY <1>1, <1>3 DEF Upto
<1>6. Upto(ks, i + 1) = Upto(ks, i) \cup {ks[i + 1]}
  BY <1>2 DEF Upto
<1> QED BY <1>1, <1>4, <1>5, <1>6

LEMMA UptoAll ==
    ASSUME NEW K, NEW ks \in Seq(K), NEW V, \A i \in DOMAIN ks : ks[i] \in V,
           \A k \in V : \E i \in DOMAIN ks : ks[i] = k
    PROVE  Upto(ks, Len(ks)) = V
<1>1. DOMAIN ks = 1 .. Len(ks)
  OBVIOUS
<1> QED BY <1>1 DEF Upto

LEMMA LeavesAll ==
    ASSUME NEW D, NEW up, NEW S, NEW how, LeafSource(S, how), Is(S, "map"),
           NEW T, LoopStart(D, S, how) = Returns(T), IsMap(T, SubKey),
           \A j \in DOMAIN T.c.m : IsEntry(T.c.m[j])
    PROVE  \E r : /\ MergeLeaves(D, up, S, how) = LoopEnd(r, S)
                  /\ LeavesMerged(T, up, S, DOMAIN S.c.m, r) /\ IsOutcome(r)
<1> DEFINE ks == KeysIn(S, how)
           n == Len(ks)
<1>1. /\ ks \in Seq(SubKey)
      /\ \A i \in DOMAIN ks : Has(S, ks[i])
      /\ \A i, j \in DOMAIN ks : i # j => ks[i] # ks[j]
      /\ \A k \in DOMAIN S.c.m : \E i \in DOMAIN ks : ks[i] = k
  <2>1. Orderly(S, SubKey, how) /\ IsFiniteSet(SubKey)
    BY MergeAssumption DEF MergeAssumption, LeafSource
  <2> QED BY <2>1, KeysInAre
<1>2. LoopStart(D, S, how) \in LeafLoop(n)
  <2>1. T \in DictNodes(SubKey, LeafNodes)
    BY LeafInSet, DictInSet DEF IsMap, IsEntry
  <2>2. Leafy(T) /\ Is(T, "map")
    BY DEF Leafy, IsMap
  <2>3. Returns(T) = [ends |-> "returned", node |-> T]
    BY DEF Returns, Outcome
  <2> HIDE DEF n
  <2> QED BY <2>1, <2>2, <2>3 DEF LeafLoop, Ends
<1>3. PICK d : LeafRounds(d, D, up, S, how)
  BY <1>2, LeafRoundsAre
<1> HIDE DEF ks
<1>4. n \in Nat /\ DOMAIN ks = 1 .. n
  BY <1>1
<1> DEFINE In(i) == LeavesMerged(T, up, S, Upto(ks, i), d[i])
           I == {i \in 0 .. n : In(i)}
<1>5. 0 \in I
  <2>1. Upto(ks, 0) = {}
    BY DEF Upto
  <2>2. d[0] = Returns(T)
    BY <1>3 DEF LeafRounds
  <2>3. LeavesMerged(T, up, S, {}, Returns(T))
    BY LeavesMergedStart
  <2> QED BY <1>4, <2>1, <2>2, <2>3
<1>6. ASSUME NEW i \in 0 .. n - 1, i \in I PROVE i + 1 \in I
  <2> DEFINE k == ks[i + 1]
             V == Upto(ks, i)
  <2>1. /\ Upto(ks, i + 1) = V \cup {k} /\ k \notin V /\ i + 1 \in DOMAIN ks /\ k \in SubKey
    BY <1>1, <1>4, UptoNext
  <2>2. IsEntry(S.c.m[k])
    BY <1>1, <2>1 DEF LeafSource, Has
  <2>3. d[i + 1] = LeafStep(d[i], up, S, k, Inside(S, how))
    BY <1>3, <1>4 DEF LeafRounds, ks
  <2>4. LeavesMerged(T, up, S, V, d[i])
    BY <1>6
  <2> HIDE DEF k, V
  <2>5. LeavesMerged(T, up, S, V \cup {k}, LeafStep(d[i], up, S, k, Inside(S, how)))
    BY <2>1, <2>2, <2>4, LeavesMergedStep
  <2>6. In(i + 1)
    BY <2>1, <2>3, <2>5
  <2> QED BY <1>4, <2>6
<1>7. In(n)
  <2>1. \A i \in 0 .. n : i \in I
    <3> HIDE DEF I, n
    <3> QED BY <1>4, <1>5, <1>6, InductionTo
  <2> QED BY <1>4, <2>1
<1>8. Upto(ks, n) = DOMAIN S.c.m
  <2>1. \A i \in DOMAIN ks : ks[i] \in DOMAIN S.c.m
    BY <1>1 DEF Has
  <2> QED BY <1>1, <2>1, UptoAll
<1>9. MergeLeaves(D, up, S, how) = LoopEnd(d[n], S)
  BY <1>3 DEF LeafRounds, ks
<1>10. IsOutcome(d[n])
  <2>1. d[n] \in LeafLoop(n)
    BY <1>3, <1>4 DEF LeafRounds, ks
  <2> QED BY <2>1 DEF LeafLoop, IsOutcome, Outcome
<1> QED BY <1>7, <1>8, <1>9, <1>10
-----------------------------------------------------------------------------
(* Flags and content of containers.                                         *)

\* n and r differ in their flags at most.
SameBut(n, r) ==
    /\ r.kind = n.kind /\ r.type = n.type /\ r.opt = n.opt /\ r.c = n.c
    /\ n.kind = "dict" => r.obj = n.obj

\* n with these flags.
Flagging(n, ro, st) == [n EXCEPT !.ro = ro, !.st = st]

LEMMA DictFlags ==
    ASSUME NEW K, NEW n, IsDict(n, K), NEW ro \in Flag, NEW st \in Flag
    PROVE  /\ IsDict(Flagging(n, ro, st), K)
           /\ SameBut(n, Flagging(n, ro, st))
           /\ Flagging(n, ro, st).ro = ro /\ Flagging(n, ro, st).st = st
<1> DEFINE m == [n EXCEPT !.ro = ro]
           r == [kind |-> "dict", type |-> n.type, opt |-> n.opt, obj |-> n.obj, c |-> n.c,
                 ro |-> ro, st |-> st]
<1>1. n = [kind |-> "dict", type |-> n.type, opt |-> n.opt, obj |-> n.obj, c |-> n.c,
           ro |-> n.ro, st |-> n.st]
  BY DEF IsDict
<1>2. m = [kind |-> "dict", type |-> n.type, opt |-> n.opt, obj |-> n.obj, c |-> n.c,
           ro |-> ro, st |-> n.st]
  BY <1>1
<1>3. Flagging(n, ro, st) = [m EXCEPT !.st = st]
  BY DEF Flagging
<1> HIDE DEF m
<1>4. Flagging(n, ro, st) = r
  BY <1>2, <1>3
<1>5. /\ r.kind = "dict" /\ r.type = n.type /\ r.opt = n.opt /\ r.obj = n.obj /\ r.c = n.c
      /\ r.ro = ro /\ r.st = st
      /\ r = [kind |-> "dict", type |-> r.type, opt |-> r.opt, obj |-> r.obj, c |-> r.c,
              ro |-> r.ro, st |-> r.st]
  OBVIOUS
<1> HIDE DEF r
<1>6. IsDict(r, K)
  BY <1>5 DEF IsDict, Is
<1>7. SameBut(n, r)
  BY <1>1, <1>5 DEF SameBut
<1> QED BY <1>4, <1>5, <1>6, <1>7

LEMMA ListFlags ==
    ASSUME NEW n, IsList(n), NEW ro \in Flag, NEW st \in Flag
    PROVE  /\ IsList(Flagging(n, ro, st))
           /\ SameBut(n, Flagging(n, ro, st))
           /\ Flagging(n, ro, st).ro = ro /\ Flagging(n, ro, st).st = st
<1> DEFINE m == [n EXCEPT !.ro = ro]
           r == [kind |-> "list", type |-> n.type, opt |-> n.opt, c |-> n.c, ro |-> ro, st |-> st]
<1>1. n = [kind |-> "list", type |-> n.type, opt |-> n.opt, c |-> n.c, ro |-> n.ro, st |-> n.st]
  BY DEF IsList
<1>2. m = [kind |-> "list", type |-> n.type, opt |-> n.opt, c |-> n.c, ro |-> ro, st |-> n.st]
  BY <1>1
<1>3. Flagging(n, ro, st) = [m EXCEPT !.st = st]
  BY DEF Flagging
<1> HIDE DEF m
<1>4. Flagging(n, ro, st) = r
  BY <1>2, <1>3
<1>5. /\ r.kind = "list" /\ r.type = n.type /\ r.opt = n.opt /\ r.c = n.c
      /\ r.ro = ro /\ r.st = st /\ n.kind = "list"
      /\ r = [kind |-> "list", type |-> r.type, opt |-> r.opt, c |-> r.c, ro |-> r.ro, st |-> r.st]
  BY <1>1
<1> HIDE DEF r
<1>6. IsList(r)
  BY <1>5 DEF IsList, Is
<1>7. SameBut(n, r)
  BY <1>5 DEF SameBut
<1> QED BY <1>4, <1>5, <1>6, <1>7

\* A list, or a dict with keys of K.
IsNest(n, K) == IsList(n) \/ IsDict(n, K)

LEMMA NestFlags ==
    ASSUME NEW K, NEW n, IsNest(n, K), NEW ro \in Flag, NEW st \in Flag
    PROVE  /\ IsNest(Flagging(n, ro, st), K)
           /\ SameBut(n, Flagging(n, ro, st))
           /\ Flagging(n, ro, st).ro = ro /\ Flagging(n, ro, st).st = st
<1>1. CASE IsList(n)
  BY <1>1, ListFlags DEF IsNest
<1>2. CASE IsDict(n, K)
  BY <1>2, DictFlags DEF IsNest
<1> QED BY <1>1, <1>2 DEF IsNest

LEMMA NestRo ==
    ASSUME NEW K, NEW n, IsNest(n, K), NEW ro \in Flag
    PROVE  /\ IsNest([n EXCEPT !.ro = ro], K)
           /\ SameBut(n, [n EXCEPT !.ro = ro])
           /\ [n EXCEPT !.ro = ro].ro = ro /\ [n EXCEPT !.ro = ro].st = n.st
<1>1. n.st \in Flag
  BY DEF IsNest, IsList, IsDict
<1>2. Flagging(n, ro, n.st) = [n EXCEPT !.ro = ro]
  <2>1. CASE IsList(n)
    <3>1. n = [kind |-> "list", type |-> n.type, opt |-> n.opt, c |-> n.c, ro |-> n.ro, st |-> n.st]
      BY <2>1 DEF IsList
    <3>2. [n EXCEPT !.ro = ro] = [kind |-> "list", type |-> n.type, opt |-> n.opt, c |-> n.c,
                                  ro |-> ro, st |-> n.st]
      BY <3>1
    <3>3. [[n EXCEPT !.ro = ro] EXCEPT !.st = n.st] = [n EXCEPT !.ro = ro]
      <4> DEFINE m == [n EXCEPT !.ro = ro]
                 st == n.st
      <4> SUFFICES [m EXCEPT !.st = st] = m
        OBVIOUS
      <4> HIDE DEF m, st
      <4> QED BY <3>2 DEF m, st
    <3> QED BY <3>3 DEF Flagging
  <2>2. CASE IsDict(n, K)
    <3>1. n = [kind |-> "dict", type |-> n.type, opt |-> n.opt, obj |-> n.obj, c |-> n.c,
               ro |-> n.ro, st |-> n.st]
      BY <2>2 DEF IsDict
    <3>2. [n EXCEPT !.ro = ro] = [kind |-> "dict", type |-> n.type, opt |-> n.opt, obj |-> n.obj,
                                  c |-> n.c, ro |-> ro, st |-> n.st]
      BY <3>1
    <3>3. [[n EXCEPT !.ro = ro] EXCEPT !.st = n.st] = [n EXCEPT !.ro = ro]
      BY <3>2
    <3> QED BY <3>3 DEF Flagging
  <2> QED BY <2>1, <2>2 DEF IsNest
<1>3. IsNest(Flagging(n, ro, n.st), K)
  BY <1>1, NestFlags
<1>4. /\ SameBut(n, Flagging(n, ro, n.st))
      /\ Flagging(n, ro, n.st).ro = ro /\ Flagging(n, ro, n.st).st = n.st
  BY <1>1, NestFlags
<1> QED BY <1>2, <1>3, <1>4
\* The flags of a source, where it has any.
LEMMA TakeFlagsIs ==
    ASSUME NEW K, NEW n, IsNest(n, K), NEW s, s.ro \in Flag, s.st \in Flag
    PROVE  /\ IsNest(TakeFlags(n, s), K) /\ SameBut(n, TakeFlags(n, s))
           /\ TakeFlags(n, s).ro \in {n.ro, s.ro} /\ TakeFlags(n, s).st \in {n.st, s.st}
<1> DEFINE ro == Inherit(s.ro, n.ro)
           st == Inherit(s.st, n.st)
<1>1. n.ro \in Flag /\ n.st \in Flag
  BY DEF IsNest, IsList, IsDict
<1>2. ro \in Flag /\ ro \in {n.ro, s.ro} /\ st \in Flag /\ st \in {n.st, s.st}
  BY <1>1 DEF Inherit
<1>3. TakeFlags(n, s) = Flagging(n, ro, st)
  BY DEF TakeFlags, Flagging
<1> HIDE DEF ro, st
<1>4. /\ IsNest(Flagging(n, ro, st), K) /\ SameBut(n, Flagging(n, ro, st))
      /\ Flagging(n, ro, st).ro = ro /\ Flagging(n, ro, st).st = st
  BY <1>2, NestFlags
<1> QED BY <1>2, <1>3, <1>4

LEMMA SameLeafDict ==
    ASSUME NEW n, IsLeafDict(n), NEW r, IsNest(r, SubKey), SameBut(n, r)
    PROVE  IsLeafDict(r) /\ Data(r) = Data(n)
<1>1. n.kind = "dict" /\ r.kind = "dict" /\ r.c = n.c /\ r.obj = n.obj
  BY DEF SameBut, IsLeafDict, IsDict
<1>2. IsDict(r, SubKey)
  BY <1>1 DEF IsNest, IsList
<1> QED BY <1>1, <1>2 DEF IsLeafDict, Is, Has, Data

\* A dict with other content: special content, or entries.
Filled(n, c, obj) == [n EXCEPT !.c = c, !.obj = obj]

IsEntries(c, K) == c.k = "map" /\ c = Entries([j \in DOMAIN c.m |-> c.m[j]]) /\ DOMAIN c.m \subseteq K

LEMMA DictFilled ==
    ASSUME NEW K, NEW n, IsDict(n, K), NEW c, NEW obj \in Class,
           \/ c \in SpecialContent /\ obj = "none" /\ (c = None => n.opt)
           \/ IsEntries(c, K) /\ obj # "none" /\ (n.type = "Sub" => obj = "Sub")
    PROVE  /\ IsDict(Filled(n, c, obj), K) /\ Filled(n, c, obj).c = c /\ Filled(n, c, obj).obj = obj
           /\ Filled(n, c, obj).type = n.type /\ Filled(n, c, obj).opt = n.opt
           /\ Filled(n, c, obj).ro = n.ro /\ Filled(n, c, obj).st = n.st
<1> DEFINE m == [n EXCEPT !.c = c]
           r == [kind |-> "dict", type |-> n.type, opt |-> n.opt, obj |-> obj, c |-> c,
                 ro |-> n.ro, st |-> n.st]
<1>1. n = [kind |-> "dict", type |-> n.type, opt |-> n.opt, obj |-> n.obj, c |-> n.c,
           ro |-> n.ro, st |-> n.st]
  BY DEF IsDict
<1>2. m = [kind |-> "dict", type |-> n.type, opt |-> n.opt, obj |-> n.obj, c |-> c,
           ro |-> n.ro, st |-> n.st]
  BY <1>1
<1>3. Filled(n, c, obj) = [m EXCEPT !.obj = obj]
  BY DEF Filled
<1> HIDE DEF m
<1>4. Filled(n, c, obj) = r
  BY <1>2, <1>3
<1>5. /\ r.kind = "dict" /\ r.type = n.type /\ r.opt = n.opt /\ r.obj = obj /\ r.c = c
      /\ r.ro = n.ro /\ r.st = n.st
      /\ r = [kind |-> "dict", type |-> r.type, opt |-> r.opt, obj |-> r.obj, c |-> r.c,
              ro |-> r.ro, st |-> r.st]
  OBVIOUS
<1> HIDE DEF r
<1>6. c.k = "none" => c = None
  BY DEF SpecialContent, None, Missing, Interp, IsEntries
<1>7. IsDict(r, K)
  BY <1>5, <1>6 DEF IsDict, Is, IsEntries, None
<1> QED BY <1>4, <1>5, <1>7

LEMMA EntriesOf ==
    ASSUME NEW K, NEW n, IsMap(n, K)
    PROVE  IsEntries(n.c, K) /\ n.obj # "none" /\ n.obj \in Class /\ (n.type = "Sub" => n.obj = "Sub")
BY DEF IsMap, IsDict, IsEntries, Is, SpecialContent, None, Missing, Interp

\* A list with other content.
LEMMA ListFilled ==
    ASSUME NEW n, IsList(n), NEW c, c = None => n.opt,
           \/ c \in SpecialContent
           \/ c \in [k : {"items"}, s : Seq(IF n.type = "ints" THEN IntVal ELSE Val)]
    PROVE  /\ IsList([n EXCEPT !.c = c]) /\ [n EXCEPT !.c = c].c = c
           /\ [n EXCEPT !.c = c].type = n.type /\ [n EXCEPT !.c = c].opt = n.opt
           /\ [n EXCEPT !.c = c].ro = n.ro /\ [n EXCEPT !.c = c].st = n.st
<1> DEFINE r == [kind |-> "list", type |-> n.type, opt |-> n.opt, c |-> c, ro |-> n.ro, st |-> n.st]
<1>1. n = [kind |-> "list", type |-> n.type, opt |-> n.opt, c |-> n.c, ro |-> n.ro, st |-> n.st]
  BY DEF IsList
<1>2. [n EXCEPT !.c = c] = r
  BY <1>1
<1>3. /\ r.kind = "list" /\ r.type = n.type /\ r.opt = n.opt /\ r.c = c
      /\ r.ro = n.ro /\ r.st = n.st
      /\ r = [kind |-> "list", type |-> r.type, opt |-> r.opt, c |-> r.c, ro |-> r.ro, st |-> r.st]
  OBVIOUS
<1> HIDE DEF r
<1>4. c.k = "none" => c = None
  BY DEF SpecialContent, None, Missing, Interp
<1>5. IsList(r)
  BY <1>3, <1>4 DEF IsList, Is
<1> QED BY <1>2, <1>3, <1>5
-----------------------------------------------------------------------------
(* Dicts without content get content.                                       *)

LEMMA SubContentIs ==
    /\ IsEntries(SubContent, SubKey) /\ DOMAIN SubContent.m = Field
    /\ \A f \in Field : IsEntry(SubContent.m[f]) /\ SubContent.m[f].type = "int"
<1> DEFINE leaf == Leaf("int", FALSE, Plain(Default))
<1>1. IsEntry(leaf) /\ leaf.type = "int"
  <2>1. /\ leaf.kind = "leaf" /\ leaf.type = "int" /\ leaf.opt = FALSE /\ leaf.c = Plain(Default)
        /\ leaf = Leaf(leaf.type, leaf.opt, leaf.c)
    BY DEF Leaf
  <2>2. Plain(Default) \in [k : {"value"}, v : IntVal] /\ Plain(Default).k = "value"
    BY MergeAssumption DEF Plain, MergeAssumption
  <2> HIDE DEF leaf
  <2> QED BY <2>1, <2>2 DEF IsEntry, IsLeaf, Is
<1> HIDE DEF leaf
<1>2. SubContent = Entries([f \in Field |-> leaf])
  BY DEF SubContent, leaf
<1>3. SubContent.k = "map" /\ SubContent.m = [f \in Field |-> leaf]
  BY <1>2 DEF Entries
<1>4. Field \subseteq SubKey
  BY MergeAssumption DEF MergeAssumption
<1> QED BY <1>1, <1>2, <1>3, <1>4 DEF IsEntries

LEMMA NoEntries == ASSUME NEW K PROVE IsEntries(Entries(<<>>), K) /\ DOMAIN Entries(<<>>).m = {}
<1>1. Entries(<<>>).k = "map" /\ Entries(<<>>).m = <<>>
  BY DEF Entries
<1>2. DOMAIN <<>> = {} /\ <<>> = [j \in {} |-> <<>>[j]]
  OBVIOUS
<1> QED BY <1>1, <1>2 DEF IsEntries

\* What a dict has when it is expanded.
NewContent(d) == IF d.type = "Sub" THEN SubContent ELSE Entries(<<>>)

\* n is the dict d with new content.
Expanded(d, n) ==
    /\ IsLeafDict(n) /\ Is(n, "map") /\ n.c = NewContent(d)
    /\ n.type = d.type /\ n.opt = d.opt /\ n.ro = d.ro /\ n.st = d.st

LEMMA ExpandDict ==
    ASSUME NEW d, IsLeafDict(d)
    PROVE  Expand(d) = Returns(Expand(d).node) /\ Expanded(d, Expand(d).node)
<1> DEFINE obj == IF d.type = "Sub" THEN "Sub" ELSE "dict"
           n == Filled(d, NewContent(d), obj)
<1>1. IsDict(d, SubKey) /\ d.kind = "dict" /\ d.type \in {"Any", "Sub"}
  BY DEF IsLeafDict, IsDict
<1>2. Expand(d) = Returns(n)
  BY <1>1 DEF Expand, Filled, NewContent
<1>3. /\ obj \in Class /\ obj # "none" /\ (d.type = "Sub" <=> obj = "Sub")
  <2>1. "Sub" \in Class /\ "dict" \in Class
    BY MergeAssumption DEF MergeAssumption
  <2>2. CASE d.type = "Sub"
    BY <2>1, <2>2
  <2>3. CASE d.type # "Sub"
    BY <2>1, <2>3
  <2> QED BY <2>2, <2>3
<1>4. /\ IsEntries(NewContent(d), SubKey)
      /\ \A j \in DOMAIN NewContent(d).m : IsEntry(NewContent(d).m[j])
      /\ obj = "Sub" => \A f \in Field : f \in DOMAIN NewContent(d).m /\ NewContent(d).m[f].type = "int"
  BY <1>3, SubContentIs, NoEntries DEF NewContent
<1> HIDE DEF obj
<1>5. /\ IsDict(n, SubKey) /\ n.c = NewContent(d) /\ n.obj = obj /\ n.type = d.type /\ n.opt = d.opt
      /\ n.ro = d.ro /\ n.st = d.st
  <2>1. \/ NewContent(d) \in SpecialContent /\ obj = "none" /\ (NewContent(d) = None => d.opt)
        \/ IsEntries(NewContent(d), SubKey) /\ obj # "none" /\ (d.type = "Sub" => obj = "Sub")
    BY <1>3, <1>4
  <2> DEFINE c == NewContent(d)
  <2> HIDE DEF c
  <2> QED BY <1>1, <1>3, <2>1, DictFilled DEF c
<1> HIDE DEF n
<1>6. Is(n, "map")
  BY <1>4, <1>5 DEF Is, IsEntries
<1>7. IsLeafDict(n)
  BY <1>4, <1>5 DEF IsLeafDict, Has
<1>8. Returns(n).node = n
  BY OutcomeIs
<1> QED BY <1>2, <1>5, <1>6, <1>7, <1>8 DEF Expanded

\* The ground of a merge has the content of the dict, or new content.
LEMMA GroundIs ==
    ASSUME NEW d, IsLeafDict(d)
    PROVE  /\ Is(d, "map") => Ground(d) = d
           /\ ~Is(d, "map") => Ground(d).c = NewContent(d)
<1>1. [d EXCEPT !.c = NewContent(d)].c = NewContent(d)
  <2>1. d = [kind |-> "dict", type |-> d.type, opt |-> d.opt, obj |-> d.obj, c |-> d.c,
             ro |-> d.ro, st |-> d.st]
    BY DEF IsLeafDict, IsDict
  <2> QED BY <2>1
<1> QED BY <1>1 DEF Ground, NewContent
-----------------------------------------------------------------------------
(* A dict of leaves is merged into another.                                 *)

\* What a merge of S into D may do, and does if it returns.
DictMerged(D, up, S, r) ==
    LET E == r.node
    IN  /\ IsOutcome(r) /\ r.ends \in {"returned", "raised"} /\ IsLeafDict(E) /\ E.type = D.type /\ E.opt = D.opt
        /\ E.ro \in {D.ro, S.ro} /\ E.st \in {D.st, S.st}
        /\ Is(D, "map") /\ Is(E, "map") => /\ Closed(D, up) => DOMAIN E.c.m = DOMAIN D.c.m
                                           /\ IsReadonly(D, up) => E.c = D.c
        /\ r.ends = "returned" => LaidOver(D, S, E)
        /\ r.ends = "raised" => PartlyOver(D, S, E) /\ (Is(D, "map") => Is(E, "map"))

LEMMA TakeSpecialIs ==
    ASSUME NEW D, IsLeafDict(D), NEW up, NEW S, IsLeafDict(S), Is(S, "none") \/ Is(S, "interp"), NEW how
    PROVE  DictMerged(D, up, S, MergeLeaves(D, up, S, how))
<1> DEFINE n == Filled(D, S.c, "none")
<1>1. MergeLeaves(D, up, S, how) = IF Is(S, "none") /\ ~D.opt THEN Raises(D) ELSE Returns(n)
  BY DEF MergeLeaves, TakeSpecial, Filled
<1>2. D.kind = "dict" /\ S.kind = "dict" /\ IsContainer(S)
  BY DEF IsLeafDict, IsDict, IsContainer
<1>3. CASE Is(S, "none") /\ ~D.opt
  <2>1. Data(D) = Data(D)
    OBVIOUS
  <2>2. PartlyOver(D, S, D)
    BY DEF PartlyOver
  <2> QED BY <1>1, <1>3, <2>2, OutcomeIs DEF DictMerged
<1>4. CASE ~(Is(S, "none") /\ ~D.opt)
  <2>1. S.c \in SpecialContent /\ ~Is(S, "map") /\ ~Is(S, "missing")
    BY DEF IsLeafDict, IsDict, Is
  <2>2. S.c = None => D.opt
    BY <1>4 DEF Is, None
  <2>3. /\ IsDict(n, SubKey) /\ n.c = S.c /\ n.type = D.type /\ n.opt = D.opt
        /\ n.ro = D.ro /\ n.st = D.st
    <3> DEFINE c == S.c
    <3>1. IsDict(D, SubKey) /\ "none" \in Class
      BY MergeAssumption DEF IsLeafDict, MergeAssumption
    <3> HIDE DEF c
    <3> QED BY <2>1, <2>2, <3>1, DictFilled DEF c
  <2> HIDE DEF n
  <2>4. ~Is(n, "map") /\ IsLeafDict(n)
    BY <2>1, <2>3 DEF Is, IsLeafDict
  <2>5. LaidOver(D, S, n)
    BY <2>1, <2>3, <2>4 DEF LaidOver, Data, Is
  <2> QED BY <1>1, <1>4, <2>3, <2>4, <2>5, OutcomeIs DEF DictMerged
<1> QED BY <1>3, <1>4

LEMMA MergeMissing ==
    ASSUME NEW D, IsLeafDict(D), NEW up, NEW S, IsLeafDict(S), Is(S, "missing"), NEW how,
           LeafSource(S, how)
    PROVE  DictMerged(D, up, S, MergeLeaves(D, up, S, how))
<1>1. KeysIn(S, how) = <<>> /\ LoopStart(D, S, how) = Returns(D)
  BY DEF KeysIn, LoopStart
<1>2. Returns(D) \in LeafLoop(0)
  <2>1. D \in DictNodes(SubKey, LeafNodes)
    BY LeafInSet, DictInSet DEF IsLeafDict, IsEntry
  <2>2. Leafy(D)
    BY DEF Leafy, IsLeafDict
  <2> QED BY <2>1, <2>2 DEF LeafLoop, Ends, Returns, Outcome
<1>3. Len(KeysIn(S, how)) = 0
  BY <1>1
<1>4. PICK d : LeafRounds(d, D, up, S, how)
  BY <1>1, <1>2, <1>3, LeafRoundsAre
<1> DEFINE n == TakeFlags(D, S)
<1>5. MergeLeaves(D, up, S, how) = Returns(n)
  <2>1. MergeLeaves(D, up, S, how) = LoopEnd(d[0], S) /\ d[0] = Returns(D)
    BY <1>1, <1>3, <1>4 DEF LeafRounds
  <2> QED BY <2>1, OutcomeIs DEF LoopEnd
<1>6. IsNest(D, SubKey) /\ S.ro \in Flag /\ S.st \in Flag /\ D.kind = "dict"
  BY DEF IsNest, IsLeafDict, IsDict
<1>7. IsNest(n, SubKey) /\ SameBut(D, n) /\ n.ro \in {D.ro, S.ro} /\ n.st \in {D.st, S.st}
  BY <1>6, TakeFlagsIs
<1> HIDE DEF n
<1>8. IsLeafDict(n) /\ Data(n) = Data(D)
  BY <1>7, SameLeafDict
<1>9. LaidOver(D, S, n)
  BY <1>6, <1>8 DEF LaidOver, MissingOverLeaf, IsContainer
<1> QED BY <1>5, <1>7, <1>8, <1>9, OutcomeIs DEF DictMerged, SameBut
\* The loop keeps an instance of class Sub one.
LEMMA MergedLeafDict ==
    ASSUME NEW T, IsLeafDict(T), Is(T, "map"), NEW up, NEW S, NEW V, NEW r, LeavesMerged(T, up, S, V, r)
    PROVE  IsLeafDict(r.node) /\ Is(r.node, "map")
<1> DEFINE E == r.node
<1>1. /\ IsMap(E, SubKey) /\ \A j \in DOMAIN E.c.m : IsEntry(E.c.m[j])
      /\ DOMAIN T.c.m \subseteq DOMAIN E.c.m /\ E.obj = T.obj
      /\ \A j \in DOMAIN T.c.m : T.c.m[j].type # "Any" => E.c.m[j].type = T.c.m[j].type
  BY DEF LeavesMerged, Alike, Has
<1> HIDE DEF E
<1>2. ASSUME E.obj = "Sub", NEW f \in Field PROVE Has(E, f) /\ E.c.m[f].type = "int"
  <2>1. Has(T, f) /\ T.c.m[f].type = "int"
    BY <1>1, <1>2 DEF IsLeafDict
  <2> QED BY <1>1, <2>1 DEF Has
<1>3. IsLeafDict(E) /\ Is(E, "map")
  BY <1>1, <1>2 DEF IsLeafDict, IsMap
<1> QED BY <1>3 DEF E

\* When the loop has come to all keys, the source is laid over the ground.
LEMMA LoopLaysOver ==
    ASSUME NEW D, IsLeafDict(D), NEW S, IsLeafDict(S), Is(S, "map"), NEW T, Is(T, "map"),
           T.c = Ground(D).c, NEW up, NEW r, LeavesMerged(T, up, S, DOMAIN S.c.m, r), r.ends = "returned",
           NEW n, n.c = r.node.c
    PROVE  LaidOver(D, S, n)
<1> DEFINE E == r.node
           g == Ground(D)
           over == [j \in DOMAIN g.c.m \cup DOMAIN S.c.m |->
                       IF Has(S, j) /\ ~(Has(g, j) /\ Is(S.c.m[j], "missing"))
                       THEN S.c.m[j].c ELSE g.c.m[j].c]
<1>1. /\ Is(E, "map")
      /\ DOMAIN T.c.m \subseteq DOMAIN E.c.m /\ DOMAIN E.c.m \subseteq DOMAIN T.c.m \cup DOMAIN S.c.m
      /\ \A j \in DOMAIN E.c.m : j \notin DOMAIN S.c.m => E.c.m[j] = T.c.m[j]
      /\ \A j \in DOMAIN S.c.m : Has(E, j) /\ E.c.m[j].c = Given(T, j, S.c.m[j])
  BY DEF LeavesMerged, IsMap
<1> HIDE DEF E, g
<1>2. g.c = T.c
  BY DEF g
<1>3. DOMAIN E.c.m = DOMAIN g.c.m \cup DOMAIN S.c.m
  BY <1>1, <1>2 DEF Has
<1>4. ASSUME NEW j \in DOMAIN E.c.m PROVE E.c.m[j].c = over[j]
  BY <1>1, <1>2, <1>3 DEF Given, Has
<1>5. Data(n) = [j \in DOMAIN E.c.m |-> E.c.m[j].c]
  BY <1>1 DEF Data, Is, E
<1>6. Data(n) = over
  <2> HIDE DEF over
  <2>1. DOMAIN over = DOMAIN E.c.m /\ over = [j \in DOMAIN over |-> over[j]]
    BY <1>3 DEF over
  <2> QED BY <1>4, <1>5, <2>1
<1>7. D.kind = "dict" /\ ~Is(S, "missing")
  BY DEF IsLeafDict, IsDict, Is
<1> QED BY <1>6, <1>7 DEF LaidOver, g

\* ... and wherever it stops, each entry is one of the ground or of the source.
LEMMA LoopLaysPartly ==
    ASSUME NEW D, IsLeafDict(D), NEW S, Is(S, "map"), NEW T, Is(T, "map"),
           T.c = Ground(D).c, NEW up, NEW r, LeavesMerged(T, up, S, DOMAIN S.c.m, r)
    PROVE  PartlyOver(D, S, r.node)
<1> DEFINE E == r.node
           g == Ground(D)
<1>1. /\ Is(E, "map") /\ DOMAIN T.c.m \subseteq DOMAIN E.c.m
      /\ \A j \in DOMAIN E.c.m : \/ Has(T, j) /\ E.c.m[j].c = T.c.m[j].c
                                 \/ j \in DOMAIN S.c.m /\ E.c.m[j].c = Given(T, j, S.c.m[j])
  BY DEF LeavesMerged, IsMap
<1> HIDE DEF E, g
<1>2. g.c = T.c
  BY DEF g
<1>3. D.kind = "dict"
  BY DEF IsLeafDict, IsDict
<1>4. /\ \A j \in DOMAIN g.c.m : Has(E, j)
      /\ \A j \in DOMAIN E.c.m : \/ Has(g, j) /\ E.c.m[j].c = g.c.m[j].c
                                 \/ Is(S, "map") /\ Has(S, j) /\ E.c.m[j].c = S.c.m[j].c
  BY <1>1, <1>2 DEF Given, Has
<1>5. PartlyOver(D, S, E)
  BY <1>1, <1>3, <1>4 DEF PartlyOver, g
<1> QED BY <1>5 DEF E

LEMMA MergeEntries ==
    ASSUME NEW D, IsLeafDict(D), ~Is(D, "none"), NEW up, NEW S, IsLeafDict(S), Is(S, "map"), NEW how,
           LeafSource(S, how)
    PROVE  DictMerged(D, up, S, MergeLeaves(D, up, S, how))
<1> DEFINE T == IF Is(D, "map") THEN D ELSE Expand(D).node
<1>1. /\ IsLeafDict(T) /\ Is(T, "map") /\ T.type = D.type /\ T.opt = D.opt /\ T.ro = D.ro /\ T.st = D.st
      /\ T.c = Ground(D).c
      /\ LoopStart(D, S, how) = Returns(T)
  <2>1. CASE Is(D, "map")
    <3>1. LoopStart(D, S, how) = Returns(D)
      BY <2>1 DEF LoopStart, Is
    <3> QED BY <2>1, <3>1, GroundIs
  <2>2. CASE ~Is(D, "map")
    <3>1. Is(D, "interp") \/ Is(D, "missing")
      BY <2>2 DEF IsLeafDict, IsDict, SpecialContent, None, Missing, Interp, Is
    <3>2. Expanded(D, Expand(D).node) /\ ~Is(S, "missing")
      BY ExpandDict DEF Is
    <3>3. T = Expand(D).node
      BY <2>2
    <3>4. ~Is(Expand(D).node, "none")
      BY <3>2 DEF Expanded, Is
    <3>5. LoopStart(D, S, how) = Returns(T)
      BY <3>1, <3>2, <3>3, <3>4 DEF LoopStart
    <3> HIDE DEF T
    <3> QED BY <2>2, <3>2, <3>3, <3>5, GroundIs DEF Expanded
  <2> QED BY <2>1, <2>2
<1>2. Is(D, "map") => T = D
  OBVIOUS
<1> HIDE DEF T
<1>3. IsMap(T, SubKey) /\ \A j \in DOMAIN T.c.m : IsEntry(T.c.m[j])
  BY <1>1 DEF IsLeafDict, IsMap
<1>4. PICK r : /\ MergeLeaves(D, up, S, how) = LoopEnd(r, S)
               /\ LeavesMerged(T, up, S, DOMAIN S.c.m, r) /\ IsOutcome(r)
  BY <1>1, <1>3, LeavesAll
<1> DEFINE E == r.node
           n == TakeFlags(E, S)
<1>5. IsLeafDict(E) /\ Is(E, "map")
  BY <1>1, <1>4, MergedLeafDict
<1>6. /\ E.type = D.type /\ E.opt = D.opt /\ E.ro = D.ro /\ E.st = D.st
      /\ r.ends \in {"returned", "raised"}
  BY <1>1, <1>4 DEF LeavesMerged, Alike
<1>7. ASSUME Is(D, "map")
      PROVE  /\ Closed(D, up) => DOMAIN E.c.m = DOMAIN D.c.m
             /\ IsReadonly(D, up) => E.c = D.c
  <2>1. T = D
    BY <1>2, <1>7
  <2>2. Closed(D, up) \/ IsReadonly(D, up) => DOMAIN E.c.m = DOMAIN D.c.m
    BY <1>4, <2>1 DEF LeavesMerged
  <2>3. ASSUME IsReadonly(D, up) PROVE E = D
    <3>1. \A j \in DOMAIN D.c.m : E.c.m[j] = D.c.m[j]
      BY <1>4, <2>1, <2>2, <2>3 DEF LeavesMerged, Has
    <3>2. IsMap(D, SubKey) /\ IsMap(E, SubKey) /\ Alike(D, E)
      BY <1>3, <1>4, <2>1 DEF LeavesMerged
    <3> HIDE DEF E
    <3> QED BY <2>2, <2>3, <3>1, <3>2, SameMap
  <2> QED BY <2>2, <2>3
<1>8. CASE r.ends = "returned"
  <2>1. MergeLeaves(D, up, S, how) = Returns(n)
    BY <1>4, <1>8 DEF LoopEnd
  <2>2. IsNest(E, SubKey) /\ S.ro \in Flag /\ S.st \in Flag
    BY <1>5 DEF IsNest, IsLeafDict, IsDict
  <2>3. IsNest(n, SubKey) /\ SameBut(E, n) /\ n.ro \in {E.ro, S.ro} /\ n.st \in {E.st, S.st}
    BY <2>2, TakeFlagsIs
  <2> HIDE DEF n
  <2>4. IsLeafDict(n) /\ n.c = E.c
    BY <1>5, <2>3, SameLeafDict DEF SameBut
  <2>5. LaidOver(D, S, n)
    BY <1>1, <1>4, <1>8, <2>4, LoopLaysOver
  <2> HIDE DEF E
  <2> QED BY <1>6, <1>7, <2>1, <2>3, <2>4, <2>5, OutcomeIs DEF DictMerged, SameBut, Is
<1>9. CASE r.ends # "returned"
  <2>1. MergeLeaves(D, up, S, how) = r
    BY <1>4, <1>9 DEF LoopEnd
  <2>2. PartlyOver(D, S, E)
    BY <1>1, <1>4, LoopLaysPartly
  <2> QED BY <1>4, <1>5, <1>6, <1>7, <1>9, <2>1, <2>2 DEF DictMerged
<1> QED BY <1>8, <1>9

LEMMA MergeLeavesIs ==
    ASSUME NEW D, IsLeafDict(D), NEW up, NEW S, IsLeafDict(S), Is(S, "map") => ~Is(D, "none"), NEW how,
           LeafSource(S, how) \/ ~(Is(S, "map") \/ Is(S, "missing"))
    PROVE  DictMerged(D, up, S, MergeLeaves(D, up, S, how))
<1>1. Is(S, "map") \/ Is(S, "missing") \/ Is(S, "none") \/ Is(S, "interp")
  BY DEF IsLeafDict, IsDict, SpecialContent, None, Missing, Interp, Is
<1>2. CASE Is(S, "none") \/ Is(S, "interp")
  BY <1>2, TakeSpecialIs
<1>3. CASE Is(S, "missing")
  BY <1>3, MergeMissing DEF Is
<1>4. CASE Is(S, "map")
  BY <1>4, MergeEntries
<1> QED BY <1>1, <1>2, <1>3, <1>4
-----------------------------------------------------------------------------
(* A container is merged into another.                                      *)

\* What a merge of the list S into the list D does.
ListMerged(D, S, r) ==
    LET E == r.node
    IN  /\ IsOutcome(r) /\ r.ends \in {"returned", "raised"} /\ IsList(E) /\ E.type = D.type /\ E.opt = D.opt
        /\ E.ro \in {D.ro, S.ro} /\ E.st \in {D.st, S.st}
        /\ r.ends = "returned" => LaidOver(D, S, E)
        /\ r.ends = "raised" => E = D

LEMMA ListIs ==
    ASSUME NEW n, IsList(n)
    PROVE  /\ n.kind = "list" /\ IsContainer(n) /\ ~Is(n, "map") /\ n.type \in {"Any", "ints"}
           /\ n.opt \in BOOLEAN /\ (Is(n, "none") => n.opt) /\ n.ro \in Flag /\ n.st \in Flag
           /\ \/ IsSpecial(n) /\ n.c \in SpecialContent
              \/ ~IsSpecial(n) /\ n.c \in [k : {"items"}, s : Seq(IF n.type = "ints" THEN IntVal ELSE Val)]
BY DEF IsList, IsContainer, Is, IsSpecial, SpecialContent, None, Missing, Interp

\* The list d takes the content c of the list s, and its flags.
LEMMA ListTakes ==
    ASSUME NEW d, IsList(d), NEW s, IsList(s), ~Is(s, "missing"), Is(s, "none") => d.opt,
           ~IsSpecial(s) => d.type = "Any" \/ Accepts(d, s)
    PROVE  ListMerged(d, s, Returns(TakeFlags([d EXCEPT !.c = s.c], s)))
<1> DEFINE n == [d EXCEPT !.c = s.c]
           r == TakeFlags(n, s)
<1>1. s.c = None => d.opt
  BY DEF Is, None
<1>2. \/ s.c \in SpecialContent
      \/ s.c \in [k : {"items"}, s : Seq(IF d.type = "ints" THEN IntVal ELSE Val)]
  <2>1. CASE IsSpecial(s)
    BY <2>1, ListIs
  <2>2. CASE ~IsSpecial(s)
    <3>1. s.c \in [k : {"items"}, s : Seq(IF s.type = "ints" THEN IntVal ELSE Val)]
      BY <2>2, ListIs
    <3>2. s.c.s \in Seq(Val)
      BY <3>1, MergeAssumption, SeqWiden DEF MergeAssumption
    <3>3. CASE d.type = "ints"
      <4>1. \A i \in DOMAIN s.c.s : s.c.s[i] \in IntVal
        BY <2>2, <3>3, ListIs DEF Accepts
      <4>2. s.c.s \in Seq(IntVal)
        BY <3>2, <4>1
      <4> QED BY <3>1, <3>3, <4>2
    <3>4. CASE d.type # "ints"
      BY <3>1, <3>2, <3>4
    <3> QED BY <3>3, <3>4
  <2> QED BY <2>1, <2>2
<1>3. /\ IsList(n) /\ n.c = s.c /\ n.type = d.type /\ n.opt = d.opt /\ n.ro = d.ro /\ n.st = d.st
  <2> DEFINE c == s.c
             e == [d EXCEPT !.c = c]
  <2>1. /\ c = None => d.opt
        /\ \/ c \in SpecialContent
           \/ c \in [k : {"items"}, s : Seq(IF d.type = "ints" THEN IntVal ELSE Val)]
    BY <1>1, <1>2
  <2> HIDE DEF c
  <2>2. IsList(e)
    BY <2>1, ListFilled
  <2>3. e.c = c /\ e.type = d.type /\ e.opt = d.opt /\ e.ro = d.ro /\ e.st = d.st
    BY <2>1, ListFilled
  <2> HIDE DEF e
  <2> QED BY <2>2, <2>3 DEF c, e
<1> HIDE DEF n
<1>4. IsNest(n, SubKey) /\ s.ro \in Flag /\ s.st \in Flag
  BY <1>3, ListIs DEF IsNest
<1>5. IsNest(r, SubKey) /\ SameBut(n, r) /\ r.ro \in {n.ro, s.ro} /\ r.st \in {n.st, s.st}
  BY <1>4, TakeFlagsIs
<1> HIDE DEF r
<1>6. n.kind = "list" /\ r.kind = "list" /\ r.c = s.c
  BY <1>3, <1>5, ListIs DEF SameBut
<1>7. IsList(r)
  BY <1>5, <1>6 DEF IsNest, IsDict
<1>8. Data(r) = Data(s) /\ ~Is(s, "map")
  BY <1>6, ListIs DEF Data, Is
<1>9. LaidOver(d, s, r)
  BY <1>8 DEF LaidOver
<1>10. ListMerged(d, s, Returns(r))
  BY <1>3, <1>5, <1>7, <1>9, OutcomeIs DEF ListMerged, SameBut
<1> QED BY <1>10 DEF r, n

LEMMA ListMergeIs ==
    ASSUME NEW D, IsList(D), NEW up, NEW S, IsList(S)
    PROVE  ListMerged(D, S, ListMerge(D, up, S))
<1>1. ListMerged(D, S, Raises(D))
  BY OutcomeIs DEF ListMerged
<1>2. CASE Is(S, "none")
  <2>1. S.c = None
    BY <1>2, ListIs DEF SpecialContent, None, Missing, Interp, Is, IsSpecial
  <2>2. ListMerge(D, up, S) = IF D.opt THEN Returns(TakeFlags([D EXCEPT !.c = S.c], S)) ELSE Raises(D)
    <3>1. ListMerge(D, up, S) = IF D.opt THEN Returns(TakeFlags([D EXCEPT !.c = None], S)) ELSE Raises(D)
      BY <1>2 DEF ListMerge, Is
    <3> DEFINE c == S.c
    <3>2. c = None
      BY <2>1
    <3> HIDE DEF c
    <3>3. [D EXCEPT !.c = c] = [D EXCEPT !.c = None]
      BY <3>2
    <3> QED BY <3>1, <3>3 DEF c
  <2>3. CASE D.opt
    <3>1. ListMerged(D, S, Returns(TakeFlags([D EXCEPT !.c = S.c], S)))
      BY <1>2, <2>3, ListTakes DEF IsSpecial, Is
    <3> QED BY <2>2, <2>3, <3>1
  <2> QED BY <1>1, <2>2, <2>3
<1>3. CASE Is(S, "missing")
  <2> DEFINE n == TakeFlags(D, S)
  <2>1. ListMerge(D, up, S) = Returns(n)
    BY <1>3 DEF ListMerge, Is
  <2>2. IsNest(D, SubKey) /\ S.ro \in Flag /\ S.st \in Flag /\ IsContainer(D) /\ D.kind = "list"
    BY ListIs DEF IsNest
  <2>3. IsNest(n, SubKey) /\ SameBut(D, n) /\ n.ro \in {D.ro, S.ro} /\ n.st \in {D.st, S.st}
    BY <2>2, TakeFlagsIs
  <2> HIDE DEF n
  <2>4. IsList(n) /\ Data(n) = Data(D)
    BY <2>2, <2>3 DEF IsNest, IsDict, SameBut, Data, Is
  <2>5. LaidOver(D, S, n)
    BY <1>3, <2>2, <2>4 DEF LaidOver, MissingOverLeaf
  <2> QED BY <2>1, <2>3, <2>4, <2>5, OutcomeIs DEF ListMerged, SameBut
<1>4. CASE Is(S, "interp")
  <2>1. ListMerge(D, up, S) = Returns(TakeFlags([D EXCEPT !.c = S.c], S))
    BY <1>4 DEF ListMerge, Is
  <2>2. IsSpecial(S) /\ ~Is(S, "missing") /\ ~Is(S, "none")
    BY <1>4 DEF IsSpecial, Is
  <2> QED BY <2>1, <2>2, ListTakes
<1>5. CASE ~Is(S, "none") /\ ~Is(S, "missing") /\ ~Is(S, "interp")
  <2> DEFINE ok == (S.c.s = <<>> \/ ~IsReadonly(D, up)) /\ (D.type = "Any" \/ Accepts(D, S))
  <2>1. ListMerge(D, up, S) = IF ok THEN Returns(TakeFlags([D EXCEPT !.c = S.c], S)) ELSE Raises(D)
    BY <1>5 DEF ListMerge
  <2>2. CASE ok
    BY <1>5, <2>1, <2>2, ListTakes
  <2> QED BY <1>1, <2>1, <2>2
<1> QED BY <1>2, <1>3, <1>4, <1>5
IsBox(n) == IsList(n) \/ IsLeafDict(n)

\* What _merge_with of the container S into the container D may do, and does if
\* it returns.
BoxMerged(D, up, S, allows, r) ==
    LET E == r.node
    IN  /\ IsOutcome(r) /\ r.ends \in {"returned", "raised"} /\ IsBox(E)
        /\ E.kind = D.kind /\ E.type = D.type /\ E.opt = D.opt
        /\ E.ro \in {D.ro, S.ro} /\ E.st \in {D.st, S.st}
        /\ Is(D, "map") /\ Is(E, "map") => /\ Closed(D, up) => DOMAIN E.c.m = DOMAIN D.c.m
                                           /\ ~allows /\ IsReadonly(D, up) => E.c = D.c
        /\ r.ends = "returned" => LaidOver(D, S, E)
        /\ r.ends = "raised" => PartlyOver(D, S, E) /\ (Is(D, "map") => Is(E, "map"))

LEMMA BoxIs ==
    ASSUME NEW n, IsBox(n)
    PROVE  /\ IsNest(n, SubKey) /\ n.kind \in {"list", "dict"} /\ IsContainer(n)
           /\ n.kind = "list" <=> IsList(n)
           /\ n.kind = "dict" <=> IsLeafDict(n)
           /\ n.ro \in Flag /\ n.st \in Flag /\ n.opt \in BOOLEAN
           /\ IsNode(n) /\ (n.kind = "list" => ~Is(n, "map"))
BY DEF IsBox, IsNest, IsList, IsLeafDict, IsDict, IsContainer, IsNode, Is, SpecialContent, None,
   Missing, Interp

LEMMA SameBox ==
    ASSUME NEW n, IsBox(n), NEW r, IsNest(r, SubKey), SameBut(n, r)
    PROVE  IsBox(r) /\ Data(r) = Data(n) /\ (n.kind = "dict" => Ground(r).c = Ground(n).c)
<1>1. CASE n.kind = "list"
  <2>1. IsList(r)
    BY <1>1 DEF SameBut, IsNest, IsDict
  <2>2. Data(r) = Data(n)
    BY DEF SameBut, Data, Is
  <2> QED BY <1>1, <2>1, <2>2 DEF IsBox
<1>2. CASE n.kind = "dict"
  <2>1. IsLeafDict(n) /\ IsLeafDict(r) /\ Data(r) = Data(n)
    BY <1>2, BoxIs, SameLeafDict
  <2>2. Ground(r).c = Ground(n).c
    <3>1. r.c = n.c /\ NewContent(r) = NewContent(n)
      BY DEF SameBut, NewContent
    <3> QED BY <2>1, <3>1, GroundIs DEF Is
  <2> QED BY <2>1, <2>2 DEF IsBox
<1> QED BY <1>1, <1>2, BoxIs

\* What is said of content does not depend on flags.
LEMMA SameOver ==
    ASSUME NEW D, IsBox(D), NEW T, IsNest(T, SubKey), SameBut(D, T), NEW S, IsBox(S),
           NEW E, IsBox(E), NEW F, IsNest(F, SubKey), SameBut(E, F)
    PROVE  /\ LaidOver(T, S, E) => LaidOver(D, S, F)
           /\ PartlyOver(T, S, E) => PartlyOver(D, S, F)
<1>1. /\ Data(T) = Data(D) /\ (D.kind = "dict" => Ground(T).c = Ground(D).c)
      /\ Data(F) = Data(E) /\ F.c = E.c
      /\ T.kind = D.kind /\ T.c = D.c
  BY SameBox DEF SameBut
<1>2. ASSUME LaidOver(T, S, E) PROVE LaidOver(D, S, F)
  <2> DEFINE Over(g) == [j \in DOMAIN g.c.m \cup DOMAIN S.c.m |->
                            IF Has(S, j) /\ ~(Has(g, j) /\ Is(S.c.m[j], "missing"))
                            THEN S.c.m[j].c ELSE g.c.m[j].c]
  <2>1. CASE Is(S, "missing")
    BY <1>1, <1>2, <2>1 DEF LaidOver, MissingOverLeaf, IsContainer
  <2>2. CASE ~Is(S, "missing") /\ Is(S, "map") /\ D.kind = "dict"
    <3>1. Data(E) = Over(Ground(T))
      BY <1>1, <1>2, <2>2 DEF LaidOver, IsContainer
    <3>2. Over(Ground(T)) = Over(Ground(D))
      <4> DEFINE g == Ground(T)
                 h == Ground(D)
      <4>1. g.c = h.c
        BY <1>1, <2>2
      <4> HIDE DEF g, h
      <4>2. Over(g) = Over(h)
        BY <4>1 DEF Has
      <4> QED BY <4>2 DEF g, h
    <3>3. Data(F) = Over(Ground(D))
      BY <1>1, <3>1, <3>2
    <3> QED BY <2>2, <3>3 DEF LaidOver
  <2>3. CASE ~Is(S, "missing") /\ ~(Is(S, "map") /\ D.kind = "dict")
    BY <1>1, <1>2, <2>3 DEF LaidOver, IsContainer
  <2> QED BY <2>1, <2>2, <2>3
<1>3. ASSUME PartlyOver(T, S, E) PROVE PartlyOver(D, S, F)
  <2>1. CASE D.kind = "dict"
    <3> DEFINE g == Ground(T)
               h == Ground(D)
    <3>1. g.c = h.c
      BY <1>1, <2>1
    <3> HIDE DEF g, h
    <3> QED BY <1>1, <1>3, <2>1, <3>1 DEF PartlyOver, g, h, Has, Is
  <2>2. CASE D.kind # "dict"
    BY <1>1, <1>3, <2>2 DEF PartlyOver, Is
  <2> QED BY <2>1, <2>2
<1> QED BY <1>2, <1>3

\* _merge_with without its provision for readonly targets.
LEMMA BoxMergeIs ==
    ASSUME NEW T, IsBox(T), NEW up, NEW S, IsBox(S), Is(S, "map") => ~Is(T, "none"), NEW how,
           LeafSource(S, how) \/ ~(Is(S, "map") \/ Is(S, "missing")) \/ S.kind = "list"
    PROVE  BoxMerged(T, up, S, FALSE,
                     CASE T.kind = "dict" /\ S.kind = "dict" -> MergeLeaves(T, up, S, how)
                       [] T.kind = "list" /\ S.kind = "list" -> ListMerge(T, up, S)
                       [] OTHER -> Raises(T))
<1>1. CASE T.kind = "dict" /\ S.kind = "dict"
  <2>1. IsLeafDict(T) /\ IsLeafDict(S)
    BY <1>1, BoxIs
  <2>2. DictMerged(T, up, S, MergeLeaves(T, up, S, how))
    BY <1>1, <2>1, MergeLeavesIs
  <2>3. MergeLeaves(T, up, S, how).node.kind = "dict"
    BY <2>2 DEF DictMerged, IsLeafDict, IsDict
  <2>4. BoxMerged(T, up, S, FALSE, MergeLeaves(T, up, S, how))
    BY <1>1, <2>2, <2>3 DEF DictMerged, BoxMerged, IsBox
  <2> QED BY <1>1, <2>4
<1>2. CASE T.kind = "list" /\ S.kind = "list"
  <2>1. IsList(T) /\ IsList(S)
    BY <1>2, BoxIs
  <2>2. ListMerged(T, S, ListMerge(T, up, S))
    BY <2>1, ListMergeIs
  <2>3. PartlyOver(T, S, T)
    BY DEF PartlyOver
  <2>4. ListMerge(T, up, S).node.kind = "list" /\ ~Is(T, "map")
    BY <2>1, <2>2, ListIs DEF ListMerged
  <2>5. BoxMerged(T, up, S, FALSE, ListMerge(T, up, S))
    BY <1>2, <2>2, <2>3, <2>4 DEF ListMerged, BoxMerged, IsBox
  <2> QED BY <1>2, <2>5
<1>3. CASE ~(T.kind = "dict" /\ S.kind = "dict") /\ ~(T.kind = "list" /\ S.kind = "list")
  <2>1. PartlyOver(T, S, T)
    BY DEF PartlyOver
  <2>2. BoxMerged(T, up, S, FALSE, Raises(T))
    BY <2>1, OutcomeIs DEF BoxMerged
  <2> QED BY <1>3, <2>2
<1> QED BY <1>1, <1>2, <1>3
\* The target while it is merged into, and afterwards.
LEMMA OpenedIs ==
    ASSUME NEW K, NEW D, IsNest(D, K), NEW up, NEW how
    PROVE  /\ IsNest(Opened(D, up, how), K) /\ SameBut(D, Opened(D, up, how))
           /\ Opened(D, up, how).st = D.st
           /\ ~how.allows \/ ~IsReadonly(D, up) => Opened(D, up, how) = D
           /\ ~Relaxed(D, up, how) => Opened(D, up, how) = D
<1>1. CASE Relaxed(D, up, how)
  <2>1. Opened(D, up, how) = [D EXCEPT !.ro = "off"]
    BY <1>1 DEF Opened
  <2>2. "off" \in Flag
    BY DEF Flag
  <2>3. /\ IsNest([D EXCEPT !.ro = "off"], K) /\ SameBut(D, [D EXCEPT !.ro = "off"])
        /\ [D EXCEPT !.ro = "off"].st = D.st
    BY <2>2, NestRo
  <2>4. how.allows /\ IsReadonly(D, up)
    BY <1>1 DEF Relaxed
  <2> QED BY <1>1, <2>1, <2>3, <2>4
<1>2. CASE ~Relaxed(D, up, how)
  <2>1. Opened(D, up, how) = D
    BY <1>2 DEF Opened
  <2>2. SameBut(D, D)
    BY DEF SameBut
  <2> QED BY <2>1, <2>2
<1> QED BY <1>1, <1>2

LEMMA RestoreIs ==
    ASSUME NEW K, NEW r, IsNest(r.node, K), NEW D, D.ro \in Flag, NEW up, NEW how,
           IsOutcome(r)
    PROVE  /\ IsOutcome(Restore(r, D, up, how)) /\ Restore(r, D, up, how).ends = r.ends
           /\ IsNest(Restore(r, D, up, how).node, K) /\ SameBut(r.node, Restore(r, D, up, how).node)
           /\ Restore(r, D, up, how).node.st = r.node.st
           /\ Restore(r, D, up, how).node.ro = IF Relaxed(D, up, how) THEN D.ro ELSE r.node.ro
<1>1. CASE Relaxed(D, up, how)
  <2> DEFINE n == [r.node EXCEPT !.ro = D.ro]
  <2>1. IsNest(n, K) /\ SameBut(r.node, n) /\ n.ro = D.ro /\ n.st = r.node.st
    BY NestRo
  <2>2. Restore(r, D, up, how) = [r EXCEPT !.node = n]
    BY <1>1 DEF Restore
  <2>3. r = [ends |-> r.ends, node |-> r.node]
    BY DEF Outcome, IsOutcome
  <2> HIDE DEF n
  <2>4. [r EXCEPT !.node = n] = Outcome(r.ends, n)
    BY <2>3 DEF Outcome
  <2> QED BY <1>1, <2>1, <2>2, <2>4, OutcomeIs
<1>2. CASE ~Relaxed(D, up, how)
  <2>1. Restore(r, D, up, how) = r
    BY <1>2 DEF Restore
  <2>2. SameBut(r.node, r.node)
    BY DEF SameBut
  <2> QED BY <1>2, <2>1, <2>2
<1> QED BY <1>1, <1>2
LEMMA MergeChildIs ==
    ASSUME NEW D, IsBox(D), NEW up, NEW S, IsBox(S), Is(S, "map") => ~Is(D, "none"), NEW how,
           LeafSource(S, how) \/ ~(Is(S, "map") \/ Is(S, "missing")) \/ S.kind = "list"
    PROVE  BoxMerged(D, up, S, how.allows, MergeChild(D, up, S, how))
<1> DEFINE T == Opened(D, up, how)
           q == CASE T.kind = "dict" /\ S.kind = "dict" -> MergeLeaves(T, up, S, how)
                  [] T.kind = "list" /\ S.kind = "list" -> ListMerge(T, up, S)
                  [] OTHER -> Raises(T)
           r == Restore(q, D, up, how)
           E == q.node
           F == r.node
<1>1. IsNest(D, SubKey) /\ D.ro \in Flag
  BY BoxIs
<1>2. /\ IsNest(T, SubKey) /\ SameBut(D, T) /\ T.st = D.st
      /\ ~how.allows => T = D
      /\ ~Relaxed(D, up, how) => T = D
  BY <1>1, OpenedIs
<1> HIDE DEF T
<1>3. IsBox(T)
  BY <1>2, SameBox
<1>4. T.kind = D.kind
  BY <1>2 DEF SameBut
<1>5. MergeChild(D, up, S, how) = r
  BY <1>4 DEF MergeChild, T
<1>6. BoxMerged(T, up, S, FALSE, q)
  <2>1. Is(S, "map") => ~Is(T, "none")
    BY <1>2 DEF SameBut, Is
  <2> QED BY <1>3, <2>1, BoxMergeIs
<1> HIDE DEF q
<1>7. IsOutcome(q) /\ IsBox(E) /\ IsNest(E, SubKey)
  BY <1>6, BoxIs DEF BoxMerged
<1>8. /\ IsOutcome(r) /\ r.ends = q.ends
      /\ IsNest(F, SubKey) /\ SameBut(E, F) /\ F.st = E.st
      /\ F.ro = IF Relaxed(D, up, how) THEN D.ro ELSE E.ro
  BY <1>1, <1>7, RestoreIs
<1> HIDE DEF r
<1>9. IsBox(F)
  BY <1>7, <1>8, SameBox
<1>10. F.kind = D.kind /\ F.type = D.type /\ F.opt = D.opt
  BY <1>2, <1>6, <1>8 DEF BoxMerged, SameBut
<1>11. F.ro \in {D.ro, S.ro} /\ F.st \in {D.st, S.st}
  BY <1>2, <1>6, <1>8 DEF BoxMerged
<1>12. ASSUME Is(D, "map"), Is(F, "map")
       PROVE  /\ Closed(D, up) => DOMAIN F.c.m = DOMAIN D.c.m
              /\ ~how.allows /\ IsReadonly(D, up) => F.c = D.c
  <2>1. Is(T, "map") /\ Is(E, "map") /\ T.c = D.c /\ F.c = E.c
    BY <1>2, <1>8, <1>12 DEF SameBut, Is
  <2>2. Closed(D, up) => Closed(T, up)
    <3>1. T.obj = D.obj
      BY <1>2, <1>12, BoxIs DEF SameBut
    <3> QED BY <1>2, <3>1 DEF Closed, Flags
  <2>3. ~how.allows /\ IsReadonly(D, up) => IsReadonly(T, up)
    BY <1>2
  <2> QED BY <1>6, <2>1, <2>2, <2>3 DEF BoxMerged
<1>13. /\ r.ends = "returned" => LaidOver(D, S, F)
       /\ r.ends = "raised" => PartlyOver(D, S, F) /\ (Is(D, "map") => Is(F, "map"))
  <2>1. /\ q.ends = "returned" => LaidOver(T, S, E)
        /\ q.ends = "raised" => PartlyOver(T, S, E) /\ (Is(T, "map") => Is(E, "map"))
    BY <1>6 DEF BoxMerged
  <2>2. T.c = D.c /\ F.c = E.c
    BY <1>2, <1>8 DEF SameBut
  <2> HIDE DEF E, F
  <2>3. /\ LaidOver(T, S, E) => LaidOver(D, S, F)
        /\ PartlyOver(T, S, E) => PartlyOver(D, S, F)
    BY <1>2, <1>7, <1>8, SameOver
  <2> QED BY <1>8, <2>1, <2>2, <2>3 DEF Is
<1>14. r.ends \in {"returned", "raised"}
  BY <1>6, <1>8 DEF BoxMerged
<1>15. BoxMerged(D, up, S, how.allows, r)
  BY <1>8, <1>9, <1>10, <1>11, <1>12, <1>13, <1>14 DEF BoxMerged
<1> QED BY <1>5, <1>15-----------------------------------------------------------------------------
(* Nodes of a config.                                                       *)

LEMMA NodeIs ==
    ASSUME NEW n, IsNode(n)
    PROVE  /\ n.kind = "leaf" <=> IsLeaf(n)
           /\ n.kind # "leaf" <=> IsBox(n)
           /\ IsContainer(n) <=> IsBox(n)
           /\ n.kind \in {"leaf", "list", "dict"} /\ n.opt \in BOOLEAN
           /\ n.kind = "list" <=> IsList(n)
           /\ n.kind = "dict" <=> IsLeafDict(n)
           /\ IsSpecial(n) <=> n.c \in SpecialContent
           /\ Is(n, "map") => n.kind = "dict" /\ ~IsSpecial(n)
<1>1. CASE IsLeaf(n)
  BY <1>1, LeafIs DEF IsLeaf, IsBox, IsList, IsLeafDict, IsDict, IsContainer, Is, IsSpecial,
     SpecialContent, None, Missing, Interp
<1>2. CASE IsList(n)
  <2>1. n.kind = "list" /\ ~IsLeaf(n) /\ ~IsLeafDict(n) /\ IsBox(n) /\ ~Is(n, "map") /\ n.opt \in BOOLEAN
    BY <1>2, ListIs DEF IsLeaf, IsLeafDict, IsDict, IsBox
  <2>2. IsSpecial(n) <=> n.c \in SpecialContent
    BY <1>2, ListIs DEF IsSpecial, SpecialContent, None, Missing, Interp
  <2> QED BY <1>2, <2>1, <2>2 DEF IsContainer
<1>3. CASE IsLeafDict(n)
  <2>1. n.kind = "dict" /\ ~IsLeaf(n) /\ ~IsList(n) /\ IsBox(n) /\ n.opt \in BOOLEAN
    BY <1>3 DEF IsLeaf, IsLeafDict, IsDict, IsList, IsBox
  <2>2. IsSpecial(n) <=> n.c \in SpecialContent
    BY <1>3 DEF IsLeafDict, IsDict, Is, IsSpecial, SpecialContent, None, Missing, Interp
  <2>3. Is(n, "map") => ~IsSpecial(n)
    BY DEF Is, IsSpecial
  <2> QED BY <1>3, <2>1, <2>2, <2>3 DEF IsContainer
<1> QED BY <1>1, <1>2, <1>3 DEF IsNode

LEMMA UnflaggedIs ==
    ASSUME NEW d, IsBox(d)
    PROVE  /\ IsBox(Unflagged(d)) /\ Unflagged(d).kind = d.kind
           /\ Unflagged(d).type = d.type /\ Unflagged(d).opt = d.opt
<1>1. Unflagged(d) = Flagging(d, "unset", "unset") /\ "unset" \in Flag /\ IsNest(d, SubKey)
  BY BoxIs DEF Unflagged, Flagging, Flag
<1>2. IsNest(Unflagged(d), SubKey) /\ SameBut(d, Unflagged(d))
  BY <1>1, NestFlags
<1> QED BY <1>2, SameBox DEF SameBut

\* What a typed container is that takes the value of s.
BoxTaken(d, s, n) ==
    /\ IsBox(n) /\ n.type = d.type /\ n.opt = d.opt
    /\ IsSpecial(s) => n.ro = d.ro /\ n.st = d.st /\ n.c = s.c

LEMMA SetDictValue ==
    ASSUME NEW d, IsLeafDict(d), d.type # "Any", NEW s, IsNode(s), Accepts(d, s), Is(s, "none") => d.opt
    PROVE  BoxTaken(d, s, SetValue(d, s))
<1>1. IsDict(d, SubKey) /\ d.kind = "dict" /\ d.type = "Sub" /\ IsContainer(d) /\ IsBox(d)
  BY DEF IsLeafDict, IsDict, IsContainer, IsBox
<1>2. s.c = None => d.opt
  BY DEF Is, None
<1>3. CASE IsSpecial(s)
  <2> DEFINE n == Filled(d, s.c, "none")
  <2>1. SetValue(d, s) = n
    BY <1>1, <1>3 DEF SetValue, Filled
  <2>2. s.c \in SpecialContent /\ "none" \in Class
    BY <1>3, NodeIs, MergeAssumption DEF MergeAssumption
  <2>3. /\ IsDict(n, SubKey) /\ n.c = s.c /\ n.type = d.type /\ n.opt = d.opt
        /\ n.ro = d.ro /\ n.st = d.st
    <3> DEFINE c == s.c
    <3> HIDE DEF c
    <3> QED BY <1>1, <1>2, <2>2, DictFilled DEF c
  <2> HIDE DEF n
  <2>4. IsLeafDict(n)
    BY <2>2, <2>3 DEF IsLeafDict, Is, SpecialContent, None, Missing, Interp
  <2> QED BY <2>1, <2>3, <2>4 DEF BoxTaken, IsBox
<1>4. CASE ~IsSpecial(s)
  <2> DEFINE u == Unflagged(d)
             n == Filled(u, s.c, s.obj)
  <2>1. SetValue(d, s) = n
    BY <1>1, <1>4 DEF SetValue, Filled
  <2>2. s.kind = "dict" /\ s.obj = "Sub" /\ IsLeafDict(s)
    BY <1>1, <1>4, NodeIs DEF Accepts
  <2>3. Is(s, "map") /\ IsMap(s, SubKey)
    BY <1>4, <2>2, NodeIs DEF IsLeafDict, IsDict, IsMap
  <2>4. IsEntries(s.c, SubKey) /\ s.obj # "none" /\ s.obj \in Class
    BY <2>3, EntriesOf
  <2>5. IsDict(u, SubKey) /\ u.type = d.type /\ u.opt = d.opt
    BY <1>1, UnflaggedIs, BoxIs DEF IsLeafDict
  <2> HIDE DEF u
  <2>6. IsDict(n, SubKey) /\ n.c = s.c /\ n.obj = s.obj /\ n.type = u.type /\ n.opt = u.opt
    <3> DEFINE c == s.c
               obj == s.obj
    <3>1. IsEntries(c, SubKey) /\ obj # "none" /\ obj \in Class /\ obj = "Sub"
      BY <2>2, <2>4
    <3> HIDE DEF c, obj
    <3> QED BY <2>5, <3>1, DictFilled DEF c, obj
  <2> HIDE DEF n
  <2>7. IsLeafDict(n)
    BY <2>2, <2>3, <2>6 DEF IsLeafDict, Is, Has
  <2> QED BY <1>4, <2>1, <2>5, <2>6, <2>7 DEF BoxTaken, IsBox
<1> QED BY <1>3, <1>4

LEMMA SetListValue ==
    ASSUME NEW d, IsList(d), d.type # "Any", NEW s, IsNode(s), Accepts(d, s), Is(s, "none") => d.opt
    PROVE  BoxTaken(d, s, SetValue(d, s))
<1>1. d.kind = "list" /\ d.type = "ints" /\ IsContainer(d) /\ IsBox(d)
  BY ListIs DEF IsBox
<1>2. s.c = None => d.opt
  BY DEF Is, None
<1>3. CASE IsSpecial(s)
  <2> DEFINE n == [d EXCEPT !.c = s.c]
  <2>1. SetValue(d, s) = n
    BY <1>1, <1>3 DEF SetValue
  <2>2. s.c \in SpecialContent
    BY <1>3, NodeIs
  <2>3. IsList(n) /\ n.c = s.c /\ n.type = d.type /\ n.opt = d.opt /\ n.ro = d.ro /\ n.st = d.st
    <3> DEFINE c == s.c
    <3> HIDE DEF c
    <3> QED BY <1>2, <2>2, ListFilled DEF c
  <2> HIDE DEF n
  <2> QED BY <2>1, <2>3 DEF BoxTaken, IsBox
<1>4. CASE ~IsSpecial(s)
  <2> DEFINE u == Unflagged(d)
             n == [u EXCEPT !.c = s.c]
  <2>1. SetValue(d, s) = n
    BY <1>1, <1>4 DEF SetValue
  <2>2. s.kind = "list" /\ IsList(s) /\ \A i \in DOMAIN s.c.s : s.c.s[i] \in IntVal
    BY <1>1, <1>4, NodeIs DEF Accepts
  <2>3. s.c \in [k : {"items"}, s : Seq(IntVal)]
    <3>1. s.c \in [k : {"items"}, s : Seq(IF s.type = "ints" THEN IntVal ELSE Val)]
      BY <1>4, <2>2, ListIs
    <3>2. s.c.s \in Seq(IntVal)
      BY <2>2, <3>1, MergeAssumption, SeqWiden DEF MergeAssumption
    <3> QED BY <3>1, <3>2
  <2>4. IsList(u) /\ u.type = d.type /\ u.opt = d.opt
    BY <1>1, UnflaggedIs, BoxIs
  <2> HIDE DEF u
  <2>5. IsList(n) /\ n.type = u.type /\ n.opt = u.opt
    <3> DEFINE c == s.c
    <3>1. c \in [k : {"items"}, s : Seq(IntVal)] /\ (c = None => u.opt)
      BY <1>2, <2>3, <2>4
    <3> HIDE DEF c
    <3> QED BY <1>1, <2>4, <3>1, ListFilled DEF c
  <2> HIDE DEF n
  <2> QED BY <1>4, <2>1, <2>4, <2>5 DEF BoxTaken, IsBox
<1> QED BY <1>3, <1>4-----------------------------------------------------------------------------
(* One round of the loop over the nodes of a config.                        *)

\* What becomes of the node d, with the flags up around it, when s is merged at
\* its key.
NodeKept(d, s, up, allows, e) ==
    /\ IsNode(e)
    /\ d.type # "Any" => e.type = d.type /\ e.opt = d.opt
    /\ up.ro = "on" /\ ~IsContainer(d) => e = d
    /\ Is(d, "map") /\ Is(e, "map") => /\ Closed(d, up) => DOMAIN e.c.m = DOMAIN d.c.m
                                       /\ ~allows /\ IsReadonly(d, up) => e.c = d.c
    /\ IsContainer(d) /\ ~Is(d, "interp") /\ IsContainer(e) =>
        \/ e.ro = d.ro /\ e.st = d.st
        \/ IsContainer(s) /\ e.ro \in {d.ro, s.ro} /\ e.st \in {d.st, s.st}

\* How the config D becomes E when s is merged at k.
KeyMerged(D, up, k, s, allows, E) ==
    /\ IsConfig(E) /\ Alike(D, E)
    /\ DOMAIN D.c.m \subseteq DOMAIN E.c.m /\ DOMAIN E.c.m \subseteq DOMAIN D.c.m \cup {k}
    /\ \A j \in DOMAIN D.c.m \ {k} : E.c.m[j] = D.c.m[j]
    /\ ~Has(D, k) /\ Has(E, k) => ~IsReadonly(D, up) /\ ~Closed(D, up)
    /\ Has(D, k) => NodeKept(D.c.m[k], s, Flags(D, up), allows, E.c.m[k])

LEMMA SameKept ==
    ASSUME NEW d, IsNode(d), NEW s, NEW up, NEW allows
    PROVE  NodeKept(d, s, up, allows, d)
BY DEF NodeKept

LEMMA SameMerged ==
    ASSUME NEW D, IsConfig(D), NEW up, NEW k, NEW s, NEW allows
    PROVE  KeyMerged(D, up, k, s, allows, D)
<1>1. Has(D, k) => IsNode(D.c.m[k])
  BY DEF IsConfig, Has
<1>2. Alike(D, D)
  BY DEF Alike
<1> QED BY <1>1, <1>2, SameKept DEF KeyMerged

\* A node is put at k that is what the one there may become.
LEMMA PutMerged ==
    ASSUME NEW D, IsConfig(D), NEW up, NEW k \in Key, NEW s, NEW allows, NEW n, IsNode(n),
           ~Has(D, k) => ~IsReadonly(D, up) /\ ~Closed(D, up),
           Has(D, k) => NodeKept(D.c.m[k], s, Flags(D, up), allows, n)
    PROVE  KeyMerged(D, up, k, s, allows, Put(D, k, n)) /\ Put(D, k, n).c.m[k] = n
           /\ Has(Put(D, k, n), k)
<1> DEFINE E == Put(D, k, n)
<1>1. IsMap(D, Key)
  BY DEF IsConfig, IsMap
<1>2. PutFacts(D, Key, k, n, E)
  BY <1>1, PutIs
<1> HIDE DEF E
<1>3. IsConfig(E)
  <2>1. ASSUME NEW j \in DOMAIN E.c.m PROVE IsNode(E.c.m[j])
    <3>1. CASE j = k
      BY <1>2, <3>1 DEF PutFacts
    <3>2. CASE j # k
      BY <1>2, <3>2 DEF PutFacts, IsConfig
    <3> QED BY <3>1, <3>2
  <2> QED BY <1>2, <2>1 DEF PutFacts, IsConfig, IsMap
<1>4. KeyMerged(D, up, k, s, allows, E) /\ E.c.m[k] = n /\ Has(E, k)
  BY <1>2, <1>3 DEF PutFacts, KeyMerged, Has
<1> QED BY <1>4 DEF E

\* A typed node takes the value of s.
LEMMA ValueKept ==
    ASSUME NEW d, IsNode(d), d.type # "Any", NEW s, IsNode(s), Accepts(d, s), Is(s, "none") => d.opt,
           ~(IsContainer(d) /\ IsContainer(s)) \/ Is(d, "interp"),
           NEW up, up.ro # "on", NEW t, NEW allows
    PROVE  NodeKept(d, t, up, allows, SetValue(d, s))
<1> DEFINE n == SetValue(d, s)
<1>1. CASE ~IsContainer(d)
  <2>1. IsLeaf(d) /\ ~Is(d, "map")
    BY <1>1, NodeIs DEF IsContainer
  <2>2. IsLeaf(n) /\ n.type = d.type /\ n.opt = d.opt
    BY <2>1, SetLeafValue
  <2> HIDE DEF n
  <2>3. IsNode(n)
    BY <2>2 DEF IsNode
  <2> QED BY <1>1, <2>1, <2>2, <2>3 DEF NodeKept, n
<1>2. CASE IsContainer(d)
  <2>1. BoxTaken(d, s, n)
    BY <1>2, NodeIs, SetDictValue, SetListValue DEF IsBox
  <2>2. IsNode(n)
    BY <2>1, BoxIs DEF BoxTaken
  <2>3. CASE Is(d, "interp")
    <3>1. ~Is(d, "map")
      BY <2>3 DEF Is
    <3> HIDE DEF n
    <3> QED BY <1>2, <2>1, <2>2, <2>3, <3>1 DEF NodeKept, BoxTaken, n
  <2>4. CASE ~Is(d, "interp")
    <3>1. IsSpecial(s)
      <4>1. s.kind = "leaf" /\ d.type \in {"ints", "Sub"}
        <5>1. s.kind = "leaf"
          BY <1>2, <2>4 DEF IsContainer
        <5> QED BY <1>2, <5>1, NodeIs, ListIs DEF IsLeafDict, IsDict
      <4> QED BY <4>1 DEF Accepts
    <3>2. ~Is(n, "map")
      BY <2>1, <3>1, NodeIs DEF BoxTaken, Is, IsSpecial
    <3> HIDE DEF n
    <3> QED BY <1>2, <2>1, <2>2, <2>4, <3>1, <3>2 DEF NodeKept, BoxTaken, n
  <2> QED BY <2>3, <2>4
<1> QED BY <1>1, <1>2

\* D[k] = s in the loop: not a container over another, but for one that is an
\* interpolation.
LEMMA SetItemMerged ==
    ASSUME NEW D, IsConfig(D), NEW up, NEW k \in Key, NEW s, IsNode(s),
           Has(D, k) => ~(IsContainer(D.c.m[k]) /\ IsContainer(s)) \/ Is(D.c.m[k], "interp"),
           NEW t, NEW allows, NEW p, p = SetItem(D, up, k, s)
    PROVE  /\ IsOutcome(p) /\ p.ends \in {"returned", "raised"}
           /\ KeyMerged(D, up, k, t, allows, p.node)
           /\ p.ends = "returned" => Has(p.node, k)
<1> DEFINE d == D.c.m[k]
<1>1. Has(D, k) => IsNode(d)
  BY DEF IsConfig, Has
<1> HIDE DEF d
<1>2. CASE p = Raises(D)
  BY <1>2, OutcomeIs, SameMerged
<1>3. CASE ~SetRefused(D, up, k, s) /\ (~Has(D, k) \/ d.type = "Any") /\ p = Returns(Put(D, k, s))
  <2>1. ~IsReadonly(D, up) /\ (~Has(D, k) => ~Closed(D, up)) /\ Flags(D, up).ro # "on"
    BY <1>3 DEF SetRefused, IsReadonly
  <2>2. ASSUME Has(D, k) PROVE NodeKept(d, t, Flags(D, up), allows, s)
    <3>1. CASE Is(d, "interp")
      <4>1. ~Is(d, "map")
        BY <3>1 DEF Is
      <4> QED BY <1>3, <2>1, <2>2, <3>1, <4>1 DEF NodeKept
    <3>2. CASE ~Is(d, "interp") /\ ~(IsContainer(d) /\ IsContainer(s))
      <4>1. ~(Is(d, "map") /\ Is(s, "map"))
        BY <1>1, <2>2, <3>2, NodeIs DEF IsContainer
      <4> QED BY <1>3, <2>1, <2>2, <3>2, <4>1 DEF NodeKept
    <3> QED BY <2>2, <3>1, <3>2 DEF d
  <2>3. /\ KeyMerged(D, up, k, t, allows, Put(D, k, s)) /\ Has(Put(D, k, s), k)
    BY <2>1, <2>2, PutMerged DEF d
  <2> QED BY <1>3, <2>3, OutcomeIs
<1>4. CASE /\ ~SetRefused(D, up, k, s) /\ Has(D, k) /\ d.type # "Any" /\ Accepts(d, s)
           /\ p = Returns(Put(D, k, SetValue(d, s)))
  <2>1. Flags(D, up).ro # "on" /\ (Is(s, "none") => d.opt)
    BY <1>4 DEF SetRefused, IsReadonly, d
  <2>2. ~(IsContainer(d) /\ IsContainer(s)) \/ Is(d, "interp")
    BY <1>4 DEF d
  <2>3. NodeKept(d, t, Flags(D, up), allows, SetValue(d, s))
    BY <1>1, <1>4, <2>1, <2>2, ValueKept
  <2> DEFINE n == SetValue(d, s)
  <2>4. IsNode(n)
    BY <2>3 DEF NodeKept
  <2> HIDE DEF n
  <2>5. KeyMerged(D, up, k, t, allows, Put(D, k, n)) /\ Has(Put(D, k, n), k)
    BY <1>4, <2>3, <2>4, PutMerged DEF d, n
  <2> QED BY <1>4, <2>5, OutcomeIs DEF n
<1>5. CASE /\ ~SetRefused(D, up, k, s) /\ Has(D, k) /\ d.type # "Any" /\ d.kind = "list" /\ s.kind = "list"
           /\ p = Raises(Put(D, k, Unflagged(d)))
  <2>1. Flags(D, up).ro # "on"
    BY <1>5 DEF SetRefused, IsReadonly
  <2>2. Is(d, "interp") /\ ~Is(d, "map") /\ IsContainer(d)
    <3>1. Is(d, "interp")
      BY <1>5 DEF d, IsContainer
    <3> QED BY <1>5, <3>1 DEF Is, IsContainer
  <2> DEFINE n == Unflagged(d)
  <2>3. IsNode(n) /\ n.type = d.type /\ n.opt = d.opt
    BY <1>1, <1>5, UnflaggedIs, NodeIs, BoxIs
  <2> HIDE DEF n
  <2>4. NodeKept(d, t, Flags(D, up), allows, n)
    BY <2>1, <2>2, <2>3 DEF NodeKept
  <2>5. KeyMerged(D, up, k, t, allows, Put(D, k, n))
    BY <1>5, <2>3, <2>4, PutMerged DEF d
  <2> QED BY <1>5, <2>5, OutcomeIs DEF n
<1> QED BY <1>2, <1>3, <1>4, <1>5, SetItemIs DEF d

LEMMA ExpandBox ==
    ASSUME NEW d, IsBox(d), Is(d, "none"), NEW r, r = Expand(d)
    PROVE  /\ IsOutcome(r) /\ r.ends \in {"returned", "asserted"} /\ IsBox(r.node)
           /\ r.node.type = d.type /\ r.node.opt = d.opt /\ r.node.ro = d.ro /\ r.node.st = d.st
           /\ ~Is(r.node, "interp")
<1>1. CASE IsLeafDict(d)
  <2>1. r = Returns(r.node) /\ Expanded(d, r.node)
    BY <1>1, ExpandDict
  <2>2. r.ends = "returned" /\ IsOutcome(r)
    BY <2>1, OutcomeIs
  <2> QED BY <2>1, <2>2 DEF Expanded, IsBox, Is
<1>2. CASE IsList(d) /\ d.type = "Any"
  <2>1. r = Outcome("asserted", d)
    BY <1>2, ListIs DEF Expand
  <2> QED BY <2>1, OutcomeIs DEF Is
<1>3. CASE IsList(d) /\ d.type # "Any"
  <2> DEFINE n == [d EXCEPT !.c = Items(<<>>)]
  <2>1. d.type = "ints" /\ d.kind = "list"
    BY <1>3, ListIs
  <2>2. r = Returns(n)
    BY <2>1 DEF Expand
  <2>3. /\ IsList(n) /\ n.c = Items(<<>>) /\ n.type = d.type /\ n.opt = d.opt
        /\ n.ro = d.ro /\ n.st = d.st
    <3> DEFINE c == Items(<<>>)
    <3>1. c \in [k : {"items"}, s : Seq(IntVal)] /\ c # None
      BY DEF Items, None
    <3> HIDE DEF c
    <3> QED BY <1>3, <2>1, <3>1, ListFilled DEF c
  <2> HIDE DEF n
  <2>4. ~Is(n, "interp")
    BY <2>3 DEF Items, Is
  <2> QED BY <2>2, <2>3, <2>4, OutcomeIs DEF IsBox
<1> QED BY <1>1, <1>2, <1>3 DEF IsBox

\* A node the round begins with, where d was: d itself, or the container d, which
\* was None, with content; an interpolation may have become anything.
Readied(d, e) ==
    \/ Is(d, "interp")
    \/ e = d
    \/ /\ IsContainer(d) /\ ~Is(d, "map") /\ IsContainer(e) /\ ~Is(e, "interp")
       /\ e.ro = d.ro /\ e.st = d.st

LEMMA TargetIs ==
    ASSUME NEW D, IsConfig(D), NEW k, RefersToContainer(D, k)
    PROVE  Is(D.c.m[k], "interp") /\ IsNode(Target(D, k)) /\ IsContainer(Target(D, k))
           /\ ~Is(Target(D, k), "interp")
BY DEF RefersToContainer, Target, End, IsConfig, Has

LEMMA PrepareMerged ==
    ASSUME NEW D, IsConfig(D), NEW up, NEW k \in Key, Has(D, k), NEW s, NEW allows,
           NEW p, p = Prepare(D, up, k, s)
    PROVE  /\ IsOutcome(p) /\ p.ends \in Ends /\ KeyMerged(D, up, k, s, allows, p.node)
           /\ p.ends = "returned" => Has(p.node, k) /\ Readied(D.c.m[k], p.node.c.m[k])
<1> DEFINE d == D.c.m[k]
           r == IF IsContainer(d) /\ Is(d, "none") /\ ~IsSpecial(s) THEN Expand(d) ELSE Returns(d)
<1>1. IsNode(d)
  BY DEF IsConfig, Has
<1> HIDE DEF d
<1>2. CASE MergeInvalid(d, s)
  <2>1. p = Raises(D)
    BY <1>2 DEF Prepare, d
  <2> QED BY <2>1, OutcomeIs, SameMerged DEF Ends
<1>3. CASE ~MergeInvalid(d, s) /\ RefersToContainer(D, k)
  <2> DEFINE n == Target(D, k)
  <2>1. Is(d, "interp") /\ IsNode(n)
    BY <1>3, TargetIs DEF d
  <2>2. p = SetItem(D, up, k, n)
    BY <1>3 DEF Prepare, d
  <2> HIDE DEF n
  <2>3. /\ IsOutcome(p) /\ p.ends \in {"returned", "raised"} /\ KeyMerged(D, up, k, s, allows, p.node)
        /\ p.ends = "returned" => Has(p.node, k)
    BY <2>1, <2>2, SetItemMerged DEF d
  <2>4. Readied(d, p.node.c.m[k])
    BY <2>1 DEF Readied
  <2> QED BY <2>3, <2>4 DEF Ends, d
<1>4. CASE ~MergeInvalid(d, s) /\ ~RefersToContainer(D, k)
  <2>1. p = Outcome(r.ends, Put(D, k, r.node))
    BY <1>4 DEF Prepare, d
  <2>2. /\ r.ends \in Ends /\ IsNode(r.node) /\ Readied(d, r.node)
        /\ NodeKept(d, s, Flags(D, up), allows, r.node)
    <3>1. CASE IsContainer(d) /\ Is(d, "none") /\ ~IsSpecial(s)
      <4>1. IsBox(d) /\ r = Expand(d) /\ ~Is(d, "map")
        BY <1>1, <3>1, NodeIs DEF Is
      <4>2. /\ r.ends \in {"returned", "asserted"} /\ IsBox(r.node)
            /\ r.node.type = d.type /\ r.node.opt = d.opt /\ r.node.ro = d.ro /\ r.node.st = d.st
            /\ ~Is(r.node, "interp")
        BY <3>1, <4>1, ExpandBox
      <4>3. IsNode(r.node) /\ IsContainer(r.node)
        BY <4>2, BoxIs
      <4> HIDE DEF r
      <4> QED BY <3>1, <4>1, <4>2, <4>3 DEF Readied, NodeKept, Ends
    <3>2. CASE ~(IsContainer(d) /\ Is(d, "none") /\ ~IsSpecial(s))
      <4>1. r = Returns(d)
        BY <3>2
      <4> HIDE DEF r
      <4> QED BY <1>1, <4>1, OutcomeIs, SameKept DEF Readied, Ends
    <3> QED BY <3>1, <3>2
  <2> HIDE DEF r
  <2> DEFINE n == r.node
             E == Put(D, k, n)
  <2>3. IsNode(n) /\ NodeKept(d, s, Flags(D, up), allows, n) /\ Readied(d, n)
    BY <2>2
  <2>4. p = Outcome(r.ends, E)
    BY <2>1
  <2> HIDE DEF n
  <2>5. KeyMerged(D, up, k, s, allows, E) /\ E.c.m[k] = n /\ Has(E, k)
    BY <2>3, PutMerged DEF d
  <2> HIDE DEF E
  <2> QED BY <2>2, <2>3, <2>4, <2>5, OutcomeIs DEF d
<1> QED BY <1>2, <1>3, <1>4

\* What follows what a round begins with.
LEMMA KeptTwice ==
    ASSUME NEW d, NEW e, NEW f, NEW s, NEW up, NEW allows,
           NodeKept(d, s, up, allows, e), Readied(d, e), NodeKept(e, s, up, allows, f)
    PROVE  NodeKept(d, s, up, allows, f)
<1>1. IsNode(f) /\ (d.type # "Any" => f.type = d.type /\ f.opt = d.opt)
  BY DEF NodeKept
<1>2. up.ro = "on" /\ ~IsContainer(d) => f = d
  BY DEF NodeKept
<1>3. CASE e = d
  BY <1>3
<1>4. CASE Is(d, "interp")
  <2>1. ~Is(d, "map")
    BY <1>4 DEF Is
  <2> QED BY <1>1, <1>2, <1>4, <2>1 DEF NodeKept
<1>5. CASE /\ IsContainer(d) /\ ~Is(d, "map") /\ IsContainer(e) /\ ~Is(e, "interp")
           /\ e.ro = d.ro /\ e.st = d.st
  <2>1. IsContainer(f) => \/ f.ro = d.ro /\ f.st = d.st
                          \/ IsContainer(s) /\ f.ro \in {d.ro, s.ro} /\ f.st \in {d.st, s.st}
    BY <1>5 DEF NodeKept
  <2> QED BY <1>1, <1>2, <1>5, <2>1 DEF NodeKept
<1> QED BY <1>3, <1>4, <1>5 DEF Readied

LEMMA MergedTwice ==
    ASSUME NEW D, NEW up, NEW k, Has(D, k), NEW s, NEW allows, NEW E, KeyMerged(D, up, k, s, allows, E),
           Has(E, k), Readied(D.c.m[k], E.c.m[k]), NEW F, KeyMerged(E, up, k, s, allows, F)
    PROVE  KeyMerged(D, up, k, s, allows, F)
<1>1. Flags(E, up) = Flags(D, up)
  BY AlikeFlags DEF KeyMerged
<1>2. NodeKept(D.c.m[k], s, Flags(D, up), allows, F.c.m[k])
  <2>1. /\ NodeKept(D.c.m[k], s, Flags(D, up), allows, E.c.m[k])
        /\ NodeKept(E.c.m[k], s, Flags(D, up), allows, F.c.m[k])
    BY <1>1 DEF KeyMerged
  <2> QED BY <2>1, KeptTwice
<1>3. Alike(D, F) /\ IsConfig(F)
  BY DEF KeyMerged, Alike
<1>4. /\ DOMAIN D.c.m \subseteq DOMAIN F.c.m /\ DOMAIN F.c.m \subseteq DOMAIN D.c.m \cup {k}
      /\ \A j \in DOMAIN D.c.m \ {k} : F.c.m[j] = D.c.m[j]
  BY DEF KeyMerged
<1> QED BY <1>2, <1>3, <1>4 DEF KeyMerged
-----------------------------------------------------------------------------
(* Merging into the container of a key.                                     *)

\* Entries are merged into a dict that is None, as one an interpolation referred
\* to may be.
LEMMA MergeIntoNone ==
    ASSUME NEW T, IsLeafDict(T), Is(T, "none"), NEW up, NEW S, Is(S, "map"), NEW how, LeafSource(S, how)
    PROVE  \/ MergeLeaves(T, up, S, how) = Raises(T)
           \/ MergeLeaves(T, up, S, how) = Returns(TakeFlags(T, S)) /\ DOMAIN S.c.m = {}
<1> DEFINE ks == KeysIn(S, how)
           n == Len(ks)
           base == IF ks # <<>> THEN Raises(T) ELSE Returns(T)
<1>1. LoopStart(T, S, how) = base
  BY DEF LoopStart, Is
<1>2. n \in Nat /\ (n = 0 <=> ks = <<>>) /\ (ks = <<>> => DOMAIN S.c.m = {})
  <2>1. ks \in Seq(SubKey) /\ \A k \in DOMAIN S.c.m : \E i \in DOMAIN ks : ks[i] = k
    <3>1. Orderly(S, SubKey, how) /\ IsFiniteSet(SubKey)
      BY MergeAssumption DEF MergeAssumption, LeafSource
    <3> QED BY <3>1, KeysInAre
  <2> HIDE DEF ks
  <2> QED BY <2>1
<1>3. LoopStart(T, S, how) \in LeafLoop(n)
  <2>1. T \in DictNodes(SubKey, LeafNodes)
    BY LeafInSet, DictInSet DEF IsLeafDict, IsEntry
  <2>2. Leafy(T)
    BY DEF Leafy, IsLeafDict
  <2> HIDE DEF n, ks
  <2>3. /\ base = [ends |-> base.ends, node |-> T] /\ base.ends \in Ends
        /\ n > 0 => base.ends # "returned"
    BY <1>2, OutcomeIs DEF Returns, Raises, Outcome, Ends
  <2> HIDE DEF base
  <2>4. base \in [ends : Ends, node : DictNodes(SubKey, LeafNodes)] /\ base.node = T
    BY <2>1, <2>3
  <2> QED BY <1>1, <2>2, <2>3, <2>4 DEF LeafLoop
<1>4. PICK d : LeafRounds(d, T, up, S, how)
  BY <1>3, LeafRoundsAre
<1> HIDE DEF ks
<1> DEFINE I == {i \in 0 .. n : d[i] = base}
<1>5. 0 \in I
  BY <1>1, <1>2, <1>4 DEF LeafRounds
<1>6. ASSUME NEW i \in 0 .. n - 1, i \in I PROVE i + 1 \in I
  <2>1. d[i + 1] = LeafStep(d[i], up, S, ks[i + 1], Inside(S, how)) /\ d[i] = base
    BY <1>4, <1>6 DEF LeafRounds, ks
  <2>2. base.ends = "raised"
    <3>1. ks # <<>>
      BY <1>2
    <3> QED BY <3>1, OutcomeIs
  <2>3. d[i + 1] = base
    BY <2>1, <2>2 DEF LeafStep
  <2> QED BY <1>2, <2>3
<1>7. d[n] = base
  <2>1. \A i \in 0 .. n : i \in I
    <3> HIDE DEF I, n
    <3> QED BY <1>2, <1>5, <1>6, InductionTo
  <2> QED BY <1>2, <2>1
<1>8. MergeLeaves(T, up, S, how) = LoopEnd(base, S)
  BY <1>4, <1>7 DEF LeafRounds, ks
<1> QED BY <1>2, <1>8, OutcomeIs DEF LoopEnd

\* What _merge_with of the container s does to the container d at a key.
BoxKept(d, s, up, allows, r) ==
    IsOutcome(r) /\ r.ends \in {"returned", "raised"} /\ NodeKept(d, s, up, allows, r.node)

\* ... and of a dict into one that is None, which has entries only to raise.
NoneKept(d, s, up, allows, r) ==
    /\ BoxKept(d, s, up, allows, r) /\ r.node.c = d.c
    /\ r.ends = "returned" => DOMAIN s.c.m = {}

LEMMA NoneChildKept ==
    ASSUME NEW D, IsBox(D), Is(D, "none"), NEW up, NEW S, IsBox(S), Is(S, "map"), NEW how,
           LeafSource(S, how)
    PROVE  NoneKept(D, S, up, how.allows, MergeChild(D, up, S, how))
<1> DEFINE T == Opened(D, up, how)
           q == CASE T.kind = "dict" /\ S.kind = "dict" -> MergeLeaves(T, up, S, how)
                  [] T.kind = "list" /\ S.kind = "list" -> ListMerge(T, up, S)
                  [] OTHER -> Raises(T)
           r == Restore(q, D, up, how)
           E == q.node
           F == r.node
<1>1. IsNest(D, SubKey) /\ D.ro \in Flag /\ S.kind = "dict" /\ S.ro \in Flag /\ S.st \in Flag
  BY BoxIs
<1>2. /\ IsNest(T, SubKey) /\ SameBut(D, T) /\ T.st = D.st
      /\ ~Relaxed(D, up, how) => T = D
  BY <1>1, OpenedIs
<1> HIDE DEF T
<1>3. IsBox(T) /\ T.kind = D.kind /\ Is(T, "none")
  BY <1>2, SameBox DEF SameBut, Is
<1>4. MergeChild(D, up, S, how) = r
  BY <1>3 DEF MergeChild, T
<1>5. q = Raises(T) \/ (q = Returns(TakeFlags(T, S)) /\ DOMAIN S.c.m = {})
  <2>1. CASE T.kind = "dict"
    <3>1. IsLeafDict(T)
      BY <1>3, <2>1, BoxIs
    <3> QED BY <1>1, <1>3, <2>1, <3>1, MergeIntoNone
  <2>2. CASE T.kind # "dict"
    BY <1>1, <2>2
  <2> QED BY <2>1, <2>2
<1> HIDE DEF q
<1>6. /\ IsOutcome(q) /\ q.ends \in {"returned", "raised"} /\ IsNest(E, SubKey) /\ SameBut(T, E)
      /\ E.ro \in {T.ro, S.ro} /\ E.st \in {T.st, S.st}
      /\ q.ends = "returned" => DOMAIN S.c.m = {}
  <2>1. /\ IsNest(TakeFlags(T, S), SubKey) /\ SameBut(T, TakeFlags(T, S))
        /\ TakeFlags(T, S).ro \in {T.ro, S.ro} /\ TakeFlags(T, S).st \in {T.st, S.st}
    BY <1>1, <1>2, TakeFlagsIs
  <2>2. SameBut(T, T)
    BY DEF SameBut
  <2> QED BY <1>2, <1>5, <2>1, <2>2, OutcomeIs
<1>7. /\ IsOutcome(r) /\ r.ends = q.ends
      /\ IsNest(F, SubKey) /\ SameBut(E, F) /\ F.st = E.st
      /\ F.ro = IF Relaxed(D, up, how) THEN D.ro ELSE E.ro
  BY <1>1, <1>6, RestoreIs
<1> HIDE DEF r
<1>8. IsBox(F) /\ F.type = D.type /\ F.opt = D.opt
  <2>1. IsBox(E)
    BY <1>3, <1>6, SameBox
  <2>2. IsBox(F)
    BY <1>7, <2>1, SameBox
  <2> QED BY <1>2, <1>6, <1>7, <2>2 DEF SameBut
<1>9. F.ro \in {D.ro, S.ro} /\ F.st \in {D.st, S.st}
  BY <1>2, <1>6, <1>7
<1>10. IsContainer(D) /\ IsContainer(S) /\ IsNode(F) /\ ~Is(D, "map")
  BY <1>8, BoxIs DEF Is
<1>11. NodeKept(D, S, up, how.allows, F)
  BY <1>8, <1>9, <1>10 DEF NodeKept
<1>12. F.c = D.c
  BY <1>2, <1>6, <1>7 DEF SameBut
<1> QED BY <1>4, <1>6, <1>7, <1>11, <1>12 DEF BoxKept, NoneKept

LEMMA MergeChildKept ==
    ASSUME NEW D, IsBox(D), NEW up, NEW S, IsBox(S), NEW how,
           LeafSource(S, how) \/ ~(Is(S, "map") \/ Is(S, "missing")) \/ S.kind = "list"
    PROVE  BoxKept(D, S, up, how.allows, MergeChild(D, up, S, how))
<1>1. CASE Is(S, "map") /\ Is(D, "none")
  <2>1. LeafSource(S, how)
    BY <1>1, BoxIs
  <2> QED BY <1>1, <2>1, NoneChildKept DEF NoneKept
<1>2. CASE ~(Is(S, "map") /\ Is(D, "none"))
  <2> DEFINE r == MergeChild(D, up, S, how)
             F == r.node
  <2>1. BoxMerged(D, up, S, how.allows, r)
    BY <1>2, MergeChildIs
  <2> HIDE DEF r
  <2>2. IsNode(F) /\ IsContainer(D) /\ IsContainer(S)
    BY <2>1, BoxIs DEF BoxMerged
  <2>3. NodeKept(D, S, up, how.allows, F)
    BY <2>1, <2>2 DEF BoxMerged, NodeKept
  <2>4. BoxKept(D, S, up, how.allows, r)
    BY <2>1, <2>3 DEF BoxMerged, BoxKept
  <2> QED BY <2>4 DEF r
<1> QED BY <1>1, <1>2
-----------------------------------------------------------------------------
(* A round of the loop over the nodes of a source.                          *)

\* A typed leaf takes the value of the leaf s.
LEMMA TypedLeafMerged ==
    ASSUME NEW D, IsConfig(D), NEW up, NEW k \in Key, Has(D, k), IsLeaf(D.c.m[k]), D.c.m[k].type # "Any",
           ~IsReadonly(D, up), NEW s, IsNode(s), Accepts(D.c.m[k], s), Is(s, "none") => D.c.m[k].opt,
           NEW t, NEW allows
    PROVE  KeyMerged(D, up, k, t, allows, Put(D, k, SetValue(D.c.m[k], s)))
<1> DEFINE d == D.c.m[k]
           n == SetValue(d, s)
<1>1. ~IsContainer(d) /\ IsNode(d) /\ Flags(D, up).ro # "on"
  BY LeafIs DEF IsNode, IsReadonly
<1>2. NodeKept(d, t, Flags(D, up), allows, n)
  <2> HIDE DEF d
  <2>1. d.type # "Any" /\ Accepts(d, s) /\ (Is(s, "none") => d.opt)
    BY DEF d
  <2> QED BY <1>1, <2>1, ValueKept
<1>3. IsNode(n)
  BY <1>2 DEF NodeKept
<1> HIDE DEF n
<1> QED BY <1>2, <1>3, PutMerged DEF n

LEMMA MergeValueMerged ==
    ASSUME NEW D, IsConfig(D), NEW up, NEW k \in Key, Has(D, k), NEW s, IsNode(s), NEW how,
           ~(IsContainer(D.c.m[k]) /\ IsContainer(s)), NEW allows,
           NEW r, r = MergeValue(D, up, k, s, how)
    PROVE  IsOutcome(r) /\ r.ends \in Ends /\ KeyMerged(D, up, k, s, allows, r.node)
<1> DEFINE d == D.c.m[k]
           typed == ~IsContainer(d) /\ d.type # "Any"
           Fine(o) == IsOutcome(o) /\ o.ends \in Ends /\ KeyMerged(D, up, k, s, allows, o.node)
<1>1. IsNode(d)
  BY DEF IsConfig, Has
<1>2. Fine(Returns(D)) /\ Fine(Raises(D))
  BY OutcomeIs, SameMerged DEF Ends
<1>3. Fine(SetItem(D, up, k, s))
  BY SetItemMerged DEF Ends
<1> HIDE DEF d
<1>4. CASE IsContainer(s)
  BY <1>3, <1>4 DEF MergeValue
<1>5. CASE ~IsContainer(s) /\ Is(s, "missing")
  <2>1. CASE IsContainer(d) \/ typed
    <3>1. r = Returns(D)
      BY <1>5, <2>1 DEF MergeValue, d
    <3> QED BY <1>2, <3>1
  <2>2. CASE ~(IsContainer(d) \/ typed) /\ how.source.ro = "on"
    <3>1. r = Raises(D)
      BY <1>5, <2>2 DEF MergeValue, d
    <3> QED BY <1>2, <3>1
  <2>3. CASE ~(IsContainer(d) \/ typed) /\ how.source.ro # "on"
    <3>1. r = SetItem(D, up, k, d)
      BY <1>5, <2>3 DEF MergeValue, d
    <3>2. Fine(SetItem(D, up, k, d))
      BY ZenonT(60), <1>1, <2>3, SetItemMerged DEF d, Ends
    <3> QED BY <3>1, <3>2
  <2> QED BY <2>1, <2>2, <2>3
<1>6. CASE ~IsContainer(s) /\ ~Is(s, "missing") /\ ~typed
  <2>1. r = SetItem(D, up, k, s)
    BY <1>6 DEF MergeValue, d
  <2> QED BY <1>3, <2>1
<1>7. CASE ~IsContainer(s) /\ ~Is(s, "missing") /\ typed
  <2> DEFINE stop == IsReadonly(D, up) \/ ~Accepts(d, s) \/ (Is(s, "none") /\ ~d.opt)
  <2>1. r = IF stop THEN Raises(D) ELSE Returns(Put(D, k, SetValue(d, s)))
    BY <1>7 DEF MergeValue, d
  <2>2. CASE stop
    BY <1>2, <2>1, <2>2
  <2>3. CASE ~stop
    <3>1. ~IsReadonly(D, up) /\ Accepts(d, s) /\ (Is(s, "none") => d.opt) /\ IsLeaf(d) /\ d.type # "Any"
      BY <1>1, <1>7, <2>3, NodeIs DEF IsContainer
    <3>2. KeyMerged(D, up, k, s, allows, Put(D, k, SetValue(d, s)))
      BY <3>1, TypedLeafMerged DEF d
    <3> QED BY <2>1, <2>3, <3>2, OutcomeIs DEF Ends
  <2> QED BY <2>2, <2>3
<1> QED BY <1>4, <1>5, <1>6, <1>7

\* A node of a source: if it is a dict, with an order of its keys.
GoodNode(s, how) == IsNode(s) /\ (s.kind = "dict" /\ Is(s, "map") => LeafSource(s, how))

LEMMA MergeKeyIs ==
    ASSUME NEW D, IsConfig(D), NEW up, NEW k \in Key, NEW s, NEW how, GoodNode(s, how),
           NEW r, r = MergeKey(D, up, k, s, how)
    PROVE  IsOutcome(r) /\ r.ends \in Ends /\ KeyMerged(D, up, k, s, how.allows, r.node)
<1> DEFINE p == IF Has(D, k) THEN Prepare(D, up, k, s) ELSE SetItem(D, up, k, s)
           E == p.node
           e == E.c.m[k]
           q == MergeChild(e, Flags(D, up), s, how)
<1>1. IsNode(s)
  BY DEF GoodNode
<1>2. CASE ~Has(D, k)
  <2>1. r = SetItem(D, up, k, s)
    BY <1>2 DEF MergeKey
  <2> QED BY <1>1, <1>2, <2>1, SetItemMerged DEF Ends
<1>3. CASE Has(D, k)
  <2>0. p = Prepare(D, up, k, s)
    BY <1>3
  <2> HIDE DEF p
  <2>1. /\ IsOutcome(p) /\ p.ends \in Ends /\ KeyMerged(D, up, k, s, how.allows, p.node)
        /\ p.ends = "returned" => Has(p.node, k) /\ Readied(D.c.m[k], p.node.c.m[k])
    BY <1>3, <2>0, PrepareMerged
  <2>2. CASE p.ends # "returned"
    <3>1. r = p
      BY <2>2 DEF MergeKey, p
    <3> QED BY <2>1, <3>1
  <2>3. CASE p.ends = "returned" /\ IsContainer(e) /\ IsContainer(s)
    <3>1. r = Outcome(q.ends, Put(E, k, q.node))
      BY <1>3, <2>3 DEF MergeKey, p
    <3>2. IsConfig(E) /\ Has(E, k) /\ IsBox(e) /\ IsBox(s)
      <4>1. IsConfig(E) /\ Has(E, k)
        BY <2>1, <2>3 DEF KeyMerged
      <4>2. IsNode(e)
        BY <4>1 DEF IsConfig, Has
      <4> HIDE DEF e
      <4> QED BY <1>1, <2>3, <4>1, <4>2, NodeIs
    <3>3. LeafSource(s, how) \/ ~(Is(s, "map") \/ Is(s, "missing")) \/ s.kind = "list"
      <4>1. CASE Is(s, "missing") /\ s.kind = "dict"
        BY <4>1 DEF LeafSource, Orderly, Is
      <4>2. CASE Is(s, "map")
        BY <1>1, <4>2, NodeIs DEF GoodNode
      <4> QED BY <3>2, <4>1, <4>2, BoxIs
    <3>4. Flags(E, up) = Flags(D, up)
      BY <2>1, AlikeFlags DEF KeyMerged
    <3>5. BoxKept(e, s, Flags(D, up), how.allows, q)
      <4> HIDE DEF e
      <4> QED BY <3>2, <3>3, MergeChildKept
    <3> HIDE DEF q
    <3>6. KeyMerged(E, up, k, s, how.allows, Put(E, k, q.node))
      <4>1. IsNode(q.node) /\ NodeKept(E.c.m[k], s, Flags(E, up), how.allows, q.node)
        BY <3>4, <3>5 DEF BoxKept, NodeKept
      <4> HIDE DEF E
      <4> QED BY <3>2, <4>1, PutMerged
    <3>7. KeyMerged(D, up, k, s, how.allows, Put(E, k, q.node))
      <4>1. Has(E, k) /\ Readied(D.c.m[k], E.c.m[k]) /\ KeyMerged(D, up, k, s, how.allows, E)
        BY <2>1, <2>3
      <4> HIDE DEF E
      <4> QED BY <1>3, <3>6, <4>1, MergedTwice
    <3>8. q.ends \in Ends
      BY <3>5 DEF BoxKept, Ends
    <3> QED BY <3>1, <3>7, <3>8, OutcomeIs
  <2>4. CASE p.ends = "returned" /\ ~(IsContainer(e) /\ IsContainer(s))
    <3>1. r = MergeValue(E, up, k, s, how)
      BY <1>3, <2>4 DEF MergeKey, p
    <3>2. IsConfig(E) /\ Has(E, k) /\ Readied(D.c.m[k], E.c.m[k]) /\ KeyMerged(D, up, k, s, how.allows, E)
      BY <2>1, <2>4 DEF KeyMerged
    <3>3. ~(IsContainer(E.c.m[k]) /\ IsContainer(s))
      BY <2>4
    <3> HIDE DEF E
    <3>4. IsOutcome(r) /\ r.ends \in Ends /\ KeyMerged(E, up, k, s, how.allows, r.node)
      BY <1>1, <3>1, <3>2, <3>3, MergeValueMerged
    <3> QED BY <1>3, <3>2, <3>4, MergedTwice
  <2> QED BY <2>2, <2>3, <2>4
<1> QED BY <1>2, <1>3
-----------------------------------------------------------------------------
(* The loop over the nodes of a source.                                     *)

ListNodes ==
    [kind : {"list"}, type : {"Any", "ints"}, opt : BOOLEAN,
     c : SpecialContent \cup [k : {"items"}, s : Seq(Val)], ro : Flag, st : Flag]
Nodes == LeafNodes \cup ListNodes \cup DictNodes(SubKey, LeafNodes)

LEMMA NodeInSet == ASSUME NEW n, IsNode(n) PROVE n \in Nodes
<1>1. CASE IsLeaf(n)
  BY <1>1, LeafInSet DEF Nodes
<1>2. CASE IsList(n)
  <2>1. n.c \in SpecialContent \cup [k : {"items"}, s : Seq(Val)]
    <3>1. CASE n.c \in SpecialContent
      BY <3>1
    <3>2. CASE n.c \notin SpecialContent
      <4>1. n.c \in [k : {"items"}, s : Seq(IF n.type = "ints" THEN IntVal ELSE Val)]
        BY <1>2, <3>2, ListIs
      <4>2. n.c.s \in Seq(Val)
        BY <4>1, MergeAssumption, SeqWiden DEF MergeAssumption
      <4> QED BY <4>1, <4>2
    <3> QED BY <3>1, <3>2
  <2>2. n = [kind |-> "list", type |-> n.type, opt |-> n.opt, c |-> n.c, ro |-> n.ro, st |-> n.st]
    BY <1>2 DEF IsList
  <2>3. n.type \in {"Any", "ints"} /\ n.opt \in BOOLEAN /\ n.ro \in Flag /\ n.st \in Flag
    BY <1>2, ListIs
  <2> QED BY <2>1, <2>2, <2>3 DEF Nodes, ListNodes
<1>3. CASE IsLeafDict(n)
  <2>1. n \in DictNodes(SubKey, LeafNodes)
    BY <1>3, LeafInSet, DictInSet DEF IsLeafDict, IsEntry
  <2> QED BY <2>1 DEF Nodes
<1> QED BY <1>1, <1>2, <1>3 DEF IsNode

\* What the rounds of the loop begin and end with.
ConfigLoop == {r \in [ends : Ends, node : DictNodes(Key, Nodes)] : IsConfig(r.node)}

ConfigStep(r, S, k, how) ==
    IF r.ends = "returned" THEN MergeKey(r.node, NoFlags, k, S.c.m[k], how) ELSE r

LEMMA InConfigLoop ==
    ASSUME NEW r, IsOutcome(r), r.ends \in Ends, IsConfig(r.node)
    PROVE  r \in ConfigLoop
<1>1. r.node \in DictNodes(Key, Nodes)
  <2>1. IsDict(r.node, Key) /\ \A j \in DOMAIN r.node.c.m : r.node.c.m[j] \in Nodes
    BY NodeInSet DEF IsConfig
  <2> QED BY <2>1, DictInSet
<1>2. r = [ends |-> r.ends, node |-> r.node]
  BY DEF IsOutcome, Outcome
<1> QED BY <1>1, <1>2 DEF ConfigLoop

LEMMA ConfigStepIn ==
    ASSUME NEW r \in ConfigLoop, NEW S, NEW k \in Key, NEW how, GoodNode(S.c.m[k], how)
    PROVE  ConfigStep(r, S, k, how) \in ConfigLoop
<1>1. CASE r.ends # "returned"
  BY <1>1 DEF ConfigStep
<1>2. CASE r.ends = "returned"
  <2> DEFINE w == MergeKey(r.node, NoFlags, k, S.c.m[k], how)
  <2>1. ConfigStep(r, S, k, how) = w
    BY <1>2 DEF ConfigStep
  <2>2. IsConfig(r.node)
    BY DEF ConfigLoop
  <2>3. IsOutcome(w) /\ w.ends \in Ends /\ KeyMerged(r.node, NoFlags, k, S.c.m[k], how.allows, w.node)
    BY <2>2, MergeKeyIs
  <2> HIDE DEF w
  <2>4. IsConfig(w.node)
    BY <2>3 DEF KeyMerged
  <2> QED BY <2>1, <2>3, <2>4, InConfigLoop
<1> QED BY <1>1, <1>2

\* How a merge of the whole config is done.
IsHow(how) == how = [allows |-> how.allows, order |-> how.order, source |-> how.source]

LEMMA InsideIs ==
    ASSUME NEW S, NEW how, IsHow(how)
    PROVE  Inside(S, how).order = how.order /\ Inside(S, how).allows = how.allows
BY DEF Inside, IsHow

\* A source, with orders of its keys.
GoodSource(S, how) ==
    /\ IsHow(how) /\ IsConfig(S) /\ Orderly(S, Key, how)
    /\ \A k \in DOMAIN S.c.m : GoodNode(S.c.m[k], Inside(S, how))

\* d[i] is what the first i rounds leave of the config.
ConfigRounds(d, D, S, how) ==
    LET ks == KeysIn(S, how)
    IN  /\ d \in [0 .. Len(ks) -> ConfigLoop]
        /\ d[0] = LoopStart(D, S, how)
        /\ \A i \in 0 .. Len(ks) - 1 :
              d[i + 1] = ConfigStep(d[i], S, ks[i + 1], Inside(S, how))
        /\ MapMerge(D, S, how) = LoopEnd(d[Len(ks)], S)

LEMMA ConfigRoundsAre ==
    ASSUME NEW D, NEW S, NEW how, GoodSource(S, how),
           LoopStart(D, S, how) \in ConfigLoop
    PROVE  \E d : ConfigRounds(d, D, S, how)
<1> DEFINE vs == KeysIn(S, how)
           n == Len(vs)
           L == ConfigLoop
           base == LoopStart(D, S, how)
           inside == [how EXCEPT !.source = Flags(S, how.source)]
           Op(r, k) == IF r.ends = "returned" THEN MergeKey(r.node, NoFlags, k, S.c.m[k], inside) ELSE r
           step == [p \in L \X (1 .. n) |-> Op(p[1], vs[p[2]])]
           Body(it) == [s \in SUBSET DOMAIN vs |->
                          IF s = {} THEN base ELSE Op(it[s \ {Max(s)}], vs[Max(s)])]
           r == CHOOSE f : f = Body(f)
<1>a. /\ vs \in Seq(Key)
      /\ \A i \in DOMAIN vs : Has(S, vs[i])
      /\ Is(S, "missing") => vs = <<>>
  <2>1. Orderly(S, Key, how) /\ IsFiniteSet(Key)
    BY MergeAssumption DEF MergeAssumption, GoodSource
  <2> QED BY <2>1, KeysInAre
<1> HIDE DEF vs
<1>0. n \in Nat /\ DOMAIN vs = 1 .. n
  BY <1>a
<1>b. \A i \in 1 .. n : vs[i] \in Key /\ GoodNode(S.c.m[vs[i]], inside)
  <2> TAKE i \in 1 .. n
  <2>1. Has(S, vs[i]) /\ vs[i] \in Key
    BY <1>0, <1>a
  <2> QED BY <2>1 DEF GoodSource, Inside, Has
<1>1. \A o \in L, i \in 1 .. n : Op(o, vs[i]) \in L
  <2>1. ASSUME NEW o \in L, NEW i \in 1 .. n PROVE Op(o, vs[i]) \in L
    <3>1. vs[i] \in Key /\ GoodNode(S.c.m[vs[i]], inside)
      BY <1>b
    <3>2. Op(o, vs[i]) = ConfigStep(o, S, vs[i], inside)
      BY DEF ConfigStep
    <3> HIDE DEF Op, inside, n
    <3> QED BY <3>1, <3>2, ConfigStepIn
  <2> QED BY <2>1
<1>2. step \in Steps(n, L) /\ base \in L
  <2>1. base \in L
    BY DEF vs
  <2> HIDE DEF Op, L, n, base
  <2> QED BY <1>1, <2>1 DEF Steps
<1>3. PICK it \in [SUBSET (1 .. n) -> L] : Iterates(it, n, base, step)
  <2> HIDE DEF L, step, base, n
  <2> QED BY <1>0, <1>2, FoldExists
<1>4. \A s \in SUBSET (1 .. n) : s # {} => Max(s) \in 1 .. n
  <2>1. ASSUME NEW s \in SUBSET (1 .. n), s # {} PROVE Max(s) \in s
    <3>1. s \in SUBSET (0 .. n)
      BY <1>0
    <3> QED BY <1>0, <2>1, <3>1, MaxIn
  <2> QED BY <2>1
<1>5. \A o \in L, i \in 1 .. n : step[<<o, i>>] = Op(o, vs[i])
  <2> HIDE DEF Op, L, n
  <2> QED OBVIOUS
<1>6. it = Body(it)
  <2>1. \A s \in SUBSET (1 .. n) : s # {} => it[s \ {Max(s)}] \in L
    BY <1>3
  <2> HIDE DEF Op, L, base, step, n
  <2>2. ASSUME NEW s \in SUBSET (1 .. n)
        PROVE  it[s] = IF s = {} THEN base ELSE Op(it[s \ {Max(s)}], vs[Max(s)])
    <3>1. CASE s = {}
      BY <1>3, <3>1 DEF Iterates
    <3>2. CASE s # {}
      <4>1. it[s] = step[<<it[s \ {Max(s)}], Max(s)>>]
        BY <1>3, <3>2 DEF Iterates
      <4> QED BY <1>4, <1>5, <2>1, <3>2, <4>1
    <3> QED BY <3>1, <3>2
  <2> QED BY <1>0, <1>3, <2>2
<1>7. r = Body(r)
  <2> HIDE DEF Body
  <2> QED BY <1>6, Zenon
<1>8. MapMerge(D, S, how) = LoopEnd(r[1 .. n], S)
  <2> DEFINE Round(o, k) == IF o.ends = "returned" THEN MergeKey(o.node, NoFlags, k, S.c.m[k], inside) ELSE o
  <2>1. MapMerge(D, S, how) = LoopEnd(FoldLeft(Round, base, vs), S)
    BY DEF MapMerge, vs
  <2>2. FoldLeft(Round, base, vs) = r[1 .. n]
    <3> HIDE DEF base, inside
    <3> QED BY <1>0 DEF FoldLeft, MapThenFoldSet
  <2> HIDE DEF r
  <2> QED BY <2>1, <2>2
<1>9. Rounds(r, n, L, step)
  <2>1. IteratesIn(r, n, L, base, step)
    <3> HIDE DEF Op, L, base, n, r, step
    <3>1. r[{}] = base
      BY <1>7
    <3>2. ASSUME NEW s \in SUBSET (1 .. n), s # {}, r[s \ {Max(s)}] \in L
          PROVE  r[s] = step[<<r[s \ {Max(s)}], Max(s)>>]
      <4>1. r[s] = Op(r[s \ {Max(s)}], vs[Max(s)])
        BY <1>0, <1>7, <3>2
      <4> QED BY <1>4, <1>5, <3>2, <4>1
    <3> QED BY <3>1, <3>2 DEF IteratesIn
  <2> HIDE DEF r, L, step, base, n
  <2> QED BY <1>0, <1>2, <2>1, FoldRounds
<1> DEFINE d == [k \in 0 .. n |-> r[1 .. k]]
<1>10. r[1 .. 0] = base
  <2>1. 1 .. 0 = {}
    OBVIOUS
  <2> HIDE DEF Op, L, base, n, r, step
  <2> QED BY <2>1, <1>7
<1>11. ASSUME NEW k \in 0 .. n - 1 PROVE d[k + 1] = Op(d[k], vs[k + 1])
  <2>1. k \in 0 .. n /\ k + 1 \in 0 .. n /\ k + 1 \in 1 .. n /\ k < n
    BY <1>0
  <2> HIDE DEF Op, L, base, r, step, n
  <2>2. r[1 .. k] \in L /\ r[1 .. k + 1] = step[<<r[1 .. k], k + 1>>]
    BY <1>9, <2>1 DEF Rounds
  <2> QED BY <1>5, <2>1, <2>2
<1>12. d \in [0 .. n -> L] /\ d[0] = base /\ d[n] = r[1 .. n]
  <2>1. 0 \in 0 .. n /\ n \in 0 .. n
    BY <1>0
  <2> HIDE DEF Op, L, base, r, step, n
  <2> QED BY <1>9, <1>10, <2>1 DEF Rounds
<1>13. ConfigRounds(d, D, S, how)
  <2>1. \A o, k : Op(o, k) = ConfigStep(o, S, k, Inside(S, how))
    BY DEF ConfigStep, Inside
  <2> HIDE DEF Op, d, r, base, inside, L
  <2> QED BY <1>8, <1>11, <1>12, <2>1 DEF ConfigRounds, vs, base, L
<1> QED BY <1>13

\* The loop has come to the keys of V: what it made of T is r.
ConfigMerged(T, S, V, allows, r) ==
    LET E  == r.node
        up == Flags(T, NoFlags)
    IN  /\ IsOutcome(r) /\ r.ends \in Ends
        /\ IsConfig(E) /\ Alike(T, E) /\ DOMAIN T.c.m \subseteq DOMAIN E.c.m
        /\ IsReadonly(T, NoFlags) \/ Closed(T, NoFlags) => DOMAIN E.c.m = DOMAIN T.c.m
        /\ \A j \in DOMAIN T.c.m : /\ j \notin V => E.c.m[j] = T.c.m[j]
                                   /\ j \in V => NodeKept(T.c.m[j], S.c.m[j], up, allows, E.c.m[j])

LEMMA ConfigMergedStep ==
    ASSUME NEW T, IsConfig(T), NEW S, NEW V, NEW how, NEW r, ConfigMerged(T, S, V, how.allows, r),
           NEW k \in Key, k \notin V, GoodNode(S.c.m[k], how)
    PROVE  ConfigMerged(T, S, V \cup {k}, how.allows, ConfigStep(r, S, k, how))
<1> DEFINE D == r.node
           s == S.c.m[k]
           w == ConfigStep(r, S, k, how)
           E == w.node
           W == V \cup {k}
           up == Flags(T, NoFlags)
<1>1. /\ IsConfig(D) /\ Alike(T, D) /\ DOMAIN T.c.m \subseteq DOMAIN D.c.m
      /\ IsReadonly(T, NoFlags) \/ Closed(T, NoFlags) => DOMAIN D.c.m = DOMAIN T.c.m
      /\ \A j \in DOMAIN T.c.m :
            /\ j \notin V => D.c.m[j] = T.c.m[j]
            /\ j \in V => NodeKept(T.c.m[j], S.c.m[j], up, how.allows, D.c.m[j])
  BY DEF ConfigMerged
<1>2. /\ IsReadonly(D, NoFlags) <=> IsReadonly(T, NoFlags)
      /\ Closed(D, NoFlags) <=> Closed(T, NoFlags)
      /\ Flags(D, NoFlags) = up
  BY <1>1, AlikeFlags
<1>3. IsOutcome(w) /\ w.ends \in Ends /\ KeyMerged(D, NoFlags, k, s, how.allows, E)
  <2>1. CASE r.ends # "returned"
    <3>1. w = r
      BY <2>1 DEF ConfigStep
    <3>2. KeyMerged(D, NoFlags, k, s, how.allows, D)
      BY <1>1, SameMerged
    <3> HIDE DEF w
    <3> QED BY <3>1, <3>2 DEF ConfigMerged
  <2>2. CASE r.ends = "returned"
    <3>1. w = MergeKey(D, NoFlags, k, s, how)
      BY <2>2 DEF ConfigStep
    <3> HIDE DEF w, D, s
    <3>2. GoodNode(s, how)
      BY DEF s
    <3> QED BY <1>1, <3>1, <3>2, MergeKeyIs
  <2> QED BY <2>1, <2>2
<1> HIDE DEF D, w, E, s, up
<1>4. IsConfig(E) /\ Alike(T, E)
  BY <1>1, <1>3 DEF KeyMerged, Alike
<1>5. /\ DOMAIN T.c.m \subseteq DOMAIN E.c.m
      /\ IsReadonly(T, NoFlags) \/ Closed(T, NoFlags) => DOMAIN E.c.m = DOMAIN T.c.m
  <2>1. DOMAIN T.c.m \subseteq DOMAIN E.c.m
    BY <1>1, <1>3 DEF KeyMerged
  <2>2. ASSUME IsReadonly(T, NoFlags) \/ Closed(T, NoFlags) PROVE DOMAIN E.c.m = DOMAIN D.c.m
    <3>1. Has(D, k) \/ ~Has(E, k)
      BY <1>2, <1>3, <2>2 DEF KeyMerged
    <3> QED BY <1>3, <3>1 DEF KeyMerged, Has
  <2> QED BY <1>1, <2>1, <2>2
<1>6. ASSUME NEW j \in DOMAIN T.c.m
      PROVE  /\ j \notin W => E.c.m[j] = T.c.m[j]
             /\ j \in W => NodeKept(T.c.m[j], S.c.m[j], up, how.allows, E.c.m[j])
  <2>1. CASE j = k
    <3>1. Has(D, k) /\ D.c.m[k] = T.c.m[k]
      BY <1>1, <2>1 DEF Has
    <3> QED BY <1>2, <1>3, <2>1, <3>1 DEF KeyMerged, s
  <2>2. CASE j # k
    <3>1. E.c.m[j] = D.c.m[j]
      BY <1>1, <1>3, <2>2 DEF KeyMerged
    <3> QED BY <1>1, <2>2, <3>1
  <2> QED BY <2>1, <2>2
<1>7. ConfigMerged(T, S, W, how.allows, w)
  BY <1>3, <1>4, <1>5, <1>6 DEF ConfigMerged, E, up
<1> QED BY <1>7 DEF w

\* What the loop makes of the config D, and _map_merge of that.
LEMMA MapMergeIs ==
    ASSUME NEW D, IsConfig(D), NEW S, NEW how, GoodSource(S, how)
    PROVE  \E r : /\ MapMerge(D, S, how) = LoopEnd(r, S)
                  /\ ConfigMerged(D, S, DOMAIN S.c.m, how.allows, r)
<1> DEFINE ks == KeysIn(S, how)
           n == Len(ks)
           in == Inside(S, how)
<1>1. /\ ks \in Seq(Key)
      /\ \A i \in DOMAIN ks : Has(S, ks[i])
      /\ \A i, j \in DOMAIN ks : i # j => ks[i] # ks[j]
      /\ \A k \in DOMAIN S.c.m : \E i \in DOMAIN ks : ks[i] = k
  <2>1. Orderly(S, Key, how) /\ IsFiniteSet(Key) /\ Is(S, "map")
    BY MergeAssumption DEF MergeAssumption, GoodSource, IsConfig
  <2> QED BY <2>1, KeysInAre
<1>2. LoopStart(D, S, how) = Returns(D) /\ Returns(D) \in ConfigLoop
  <2>1. Is(D, "map")
    BY DEF IsConfig
  <2>2. LoopStart(D, S, how) = Returns(D)
    BY <2>1 DEF LoopStart, Is
  <2> QED BY <2>2, OutcomeIs, InConfigLoop DEF Ends
<1>3. PICK d : ConfigRounds(d, D, S, how)
  BY <1>2, ConfigRoundsAre
<1>4. in.order = how.order /\ in.allows = how.allows
  BY InsideIs DEF GoodSource
<1> HIDE DEF ks
<1>5. n \in Nat /\ DOMAIN ks = 1 .. n
  BY <1>1
<1> DEFINE In(i) == ConfigMerged(D, S, Upto(ks, i), how.allows, d[i])
           I == {i \in 0 .. n : In(i)}
<1>6. 0 \in I
  <2>1. Upto(ks, 0) = {}
    BY DEF Upto
  <2>2. d[0] = Returns(D)
    BY <1>2, <1>3 DEF ConfigRounds
  <2>3. Alike(D, D)
    BY DEF Alike
  <2>4. ConfigMerged(D, S, {}, how.allows, Returns(D))
    BY <2>3, OutcomeIs DEF ConfigMerged, Ends
  <2>5. In(0)
    BY <2>1, <2>2, <2>4
  <2> HIDE DEF In
  <2> QED BY <1>5, <2>5
<1>7. ASSUME NEW i \in 0 .. n - 1, i \in I PROVE i + 1 \in I
  <2> DEFINE k == ks[i + 1]
             V == Upto(ks, i)
  <2>1. /\ Upto(ks, i + 1) = V \cup {k} /\ k \notin V /\ i + 1 \in DOMAIN ks /\ k \in Key
    BY <1>1, <1>5, UptoNext
  <2>2. GoodNode(S.c.m[k], in)
    BY <1>1, <2>1 DEF GoodSource, Has
  <2>3. d[i + 1] = ConfigStep(d[i], S, k, in)
    BY <1>3, <1>5 DEF ConfigRounds, ks
  <2>4. ConfigMerged(D, S, V, in.allows, d[i])
    BY <1>4, <1>7
  <2> HIDE DEF k, V, in
  <2>5. ConfigMerged(D, S, V \cup {k}, in.allows, ConfigStep(d[i], S, k, in))
    BY <2>1, <2>2, <2>4, ConfigMergedStep
  <2>6. In(i + 1)
    BY <1>4, <2>1, <2>3, <2>5
  <2> QED BY <1>5, <2>6
<1>8. In(n)
  <2>1. \A i \in 0 .. n : i \in I
    <3> HIDE DEF I, n
    <3> QED BY <1>5, <1>6, <1>7, InductionTo
  <2> QED BY <1>5, <2>1
<1>9. Upto(ks, n) = DOMAIN S.c.m
  <2>1. \A i \in DOMAIN ks : ks[i] \in DOMAIN S.c.m
    BY <1>1 DEF Has
  <2> QED BY <1>1, <2>1, UptoAll
<1>10. MapMerge(D, S, how) = LoopEnd(d[n], S)
  BY <1>3 DEF ConfigRounds, ks
<1> QED BY <1>8, <1>9, <1>10
-----------------------------------------------------------------------------
(* A source is merged into the config.                                      *)

LEMMA SameConfig ==
    ASSUME NEW n, IsConfig(n), NEW r, IsNest(r, Key), SameBut(n, r)
    PROVE  IsConfig(r) /\ r.obj = n.obj
<1>1. n.kind = "dict" /\ Is(n, "map")
  BY DEF IsConfig, IsDict
<1>2. r.kind = "dict" /\ r.c = n.c /\ r.obj = n.obj
  BY <1>1 DEF SameBut
<1>3. IsDict(r, Key)
  BY <1>2 DEF IsNest, IsList
<1> QED BY <1>1, <1>2, <1>3 DEF IsConfig, Is

LEMMA ConfigIs ==
    ASSUME NEW n, IsConfig(n)
    PROVE  IsNest(n, Key) /\ n.ro \in Flag /\ n.st \in Flag /\ n.kind = "dict" /\ IsMap(n, Key)
BY DEF IsConfig, IsNest, IsDict, IsMap

\* What a merge of S makes of the config D.
RootMerged(D, S, allows, E) ==
    /\ IsConfig(E) /\ E.type = D.type /\ E.opt = D.opt /\ E.obj = D.obj
    /\ E.ro \in {D.ro, S.ro} /\ E.st \in {D.st, S.st}
    /\ DOMAIN D.c.m \subseteq DOMAIN E.c.m
    /\ Closed(D, NoFlags) \/ (~allows /\ IsReadonly(D, NoFlags)) => DOMAIN E.c.m = DOMAIN D.c.m
    /\ \E up : /\ up.st = Flags(D, NoFlags).st
               /\ ~allows => up = Flags(D, NoFlags)
               /\ \A j \in DOMAIN D.c.m :
                    /\ ~Has(S, j) => E.c.m[j] = D.c.m[j]
                    /\ Has(S, j) => NodeKept(D.c.m[j], S.c.m[j], up, allows, E.c.m[j])

LEMMA RootSame ==
    ASSUME NEW D, IsConfig(D), NEW S, NEW allows
    PROVE  RootMerged(D, S, allows, D)
<1>1. \A j \in DOMAIN D.c.m : NodeKept(D.c.m[j], S.c.m[j], Flags(D, NoFlags), allows, D.c.m[j])
  BY SameKept DEF IsConfig
<1> QED BY <1>1 DEF RootMerged

LEMMA MergeRootIs ==
    ASSUME NEW D, IsConfig(D), NEW S, NEW allows, NEW order, NEW how,
           how = [allows |-> allows, order |-> order, source |-> NoFlags], GoodSource(S, how),
           NEW r, r = MergeRoot(D, S, allows, order)
    PROVE  RootMerged(D, S, allows, r.node)
<1> DEFINE T == Opened(D, NoFlags, how)
           m == MapMerge(T, S, how)
<1>0. how.allows = allows /\ r = Restore(m, D, NoFlags, how)
  BY DEF MergeRoot
<1>1. /\ IsNest(T, Key) /\ SameBut(D, T) /\ T.st = D.st
      /\ ~allows => T = D
      /\ ~Relaxed(D, NoFlags, how) => T = D
  <2>1. IsNest(D, Key)
    BY ConfigIs
  <2> QED BY <1>0, <2>1, OpenedIs
<1> HIDE DEF T
<1>2. IsConfig(T) /\ T.obj = D.obj /\ T.c = D.c /\ T.type = D.type /\ T.opt = D.opt
  BY <1>1, SameConfig DEF SameBut
<1>3. PICK o : m = LoopEnd(o, S) /\ ConfigMerged(T, S, DOMAIN S.c.m, allows, o)
  BY <1>0, <1>2, MapMergeIs
<1> HIDE DEF m
<1> DEFINE E == o.node
           F == m.node
           G == r.node
           up == Flags(T, NoFlags)
<1>4. /\ IsOutcome(o) /\ IsConfig(E) /\ Alike(T, E) /\ DOMAIN T.c.m \subseteq DOMAIN E.c.m
      /\ IsReadonly(T, NoFlags) \/ Closed(T, NoFlags) => DOMAIN E.c.m = DOMAIN T.c.m
      /\ \A j \in DOMAIN T.c.m : /\ ~Has(S, j) => E.c.m[j] = T.c.m[j]
                                 /\ Has(S, j) => NodeKept(T.c.m[j], S.c.m[j], up, allows, E.c.m[j])
  BY <1>3 DEF ConfigMerged, Has
<1>5. /\ IsOutcome(m) /\ IsNest(F, Key) /\ SameBut(E, F)
      /\ F.ro \in {E.ro, S.ro} /\ F.st \in {E.st, S.st}
  <2>1. CASE o.ends = "returned"
    <3>1. m = Returns(TakeFlags(E, S))
      BY <1>3, <2>1 DEF LoopEnd
    <3>2. IsNest(E, Key) /\ S.ro \in Flag /\ S.st \in Flag
      BY <1>4, ConfigIs DEF GoodSource
    <3>3. /\ IsNest(TakeFlags(E, S), Key) /\ SameBut(E, TakeFlags(E, S))
          /\ TakeFlags(E, S).ro \in {E.ro, S.ro} /\ TakeFlags(E, S).st \in {E.st, S.st}
      <4> HIDE DEF E
      <4> QED BY <3>2, TakeFlagsIs
    <3> HIDE DEF E
    <3> QED BY <3>1, <3>3, OutcomeIs
  <2>2. CASE o.ends # "returned"
    <3>1. m = o
      BY <1>3, <2>2 DEF LoopEnd
    <3>2. SameBut(E, E)
      BY DEF SameBut
    <3> QED BY <1>4, <3>1, <3>2, ConfigIs
  <2> QED BY <2>1, <2>2
<1>6. /\ IsNest(G, Key) /\ SameBut(F, G) /\ G.st = F.st
      /\ G.ro = IF Relaxed(D, NoFlags, how) THEN D.ro ELSE F.ro
  BY <1>0, <1>5, RestoreIs, ConfigIs
<1> HIDE DEF E, F, G
<1>7. IsConfig(F) /\ IsConfig(G) /\ G.obj = E.obj /\ G.c = E.c /\ G.type = E.type /\ G.opt = E.opt
  <2>1. IsConfig(F) /\ F.obj = E.obj
    BY <1>4, <1>5, SameConfig
  <2>2. IsConfig(G) /\ G.obj = F.obj
    BY <1>6, <2>1, SameConfig
  <2> QED BY <1>5, <1>6, <2>1, <2>2 DEF SameBut
<1>8. G.ro \in {D.ro, S.ro} /\ G.st \in {D.st, S.st}
  BY <1>1, <1>4, <1>5, <1>6 DEF Alike
<1>9. Closed(D, NoFlags) \/ (~allows /\ IsReadonly(D, NoFlags)) => DOMAIN G.c.m = DOMAIN D.c.m
  <2>1. Closed(T, NoFlags) <=> Closed(D, NoFlags)
    BY <1>1, <1>2 DEF Closed, Flags
  <2> QED BY <1>1, <1>2, <1>4, <1>7, <2>1
<1>10. /\ up.st = Flags(D, NoFlags).st
       /\ ~allows => up = Flags(D, NoFlags)
  BY <1>1 DEF Flags
<1> HIDE DEF up
<1>11. \A j \in DOMAIN D.c.m : /\ ~Has(S, j) => G.c.m[j] = D.c.m[j]
                               /\ Has(S, j) => NodeKept(D.c.m[j], S.c.m[j], up, allows, G.c.m[j])
  BY <1>2, <1>4, <1>7
<1>12. RootMerged(D, S, allows, G)
  BY <1>2, <1>4, <1>7, <1>8, <1>9, <1>10, <1>11 DEF RootMerged, Alike
<1> QED BY <1>12 DEF G

\* What is assumed of sources makes them good ones.
LEMMA SourceIs ==
    ASSUME NEW c \in Configs, NEW S \in Sources(c.obj), NEW order \in Orders(S), NEW allows,
           NEW how, how = [allows |-> allows, order |-> order, source |-> NoFlags]
    PROVE  IsConfig(S) /\ GoodSource(S, how)
<1>1. IsConfig(S)
  BY ConfigAssumption DEF ConfigAssumption
<1>2. IsHow(how) /\ how.order = order
  BY DEF IsHow
<1>3. Inside(S, how).order = order
  BY <1>2, InsideIs
<1>4. \A X \in KeySets(S) : order[X] \in SetToSeqs(X)
  BY DEF Orders
<1>5. DOMAIN S.c.m \in KeySets(S)
  BY DEF KeySets
<1>6. Orderly(S, Key, how)
  BY <1>1, <1>2, <1>4, <1>5, ConfigIs DEF Orderly
<1>7. ASSUME NEW k \in DOMAIN S.c.m PROVE GoodNode(S.c.m[k], Inside(S, how))
  <2> DEFINE s == S.c.m[k]
             in == Inside(S, how)
  <2>1. IsNode(s) /\ s \in Range(S.c.m)
    BY <1>1 DEF IsConfig, Range
  <2> HIDE DEF s, in
  <2>2. ASSUME s.kind = "dict", Is(s, "map") PROVE LeafSource(s, in)
    <3>1. DOMAIN s.c.m \in KeySets(S)
      BY <2>1, <2>2 DEF KeySets
    <3>2. IsMap(s, SubKey) /\ \A j \in DOMAIN s.c.m : IsEntry(s.c.m[j])
      BY <2>1, <2>2, NodeIs DEF IsLeafDict, IsMap
    <3>3. in.order = order
      BY <1>3 DEF in
    <3> QED BY <1>4, <3>1, <3>2, <3>3 DEF LeafSource, Orderly
  <2> QED BY <2>1, <2>2 DEF GoodNode, s, in
<1> QED BY <1>1, <1>2, <1>6, <1>7 DEF GoodSource
-----------------------------------------------------------------------------
(* Calls.                                                                   *)

\* The config is well formed and of the class it began with, for which the
\* sources are given.
Inv == IsConfig(cfg) /\ \E c \in Configs : cfg.obj = c.obj

\* What a call of a merge function does, whether it returns or raises.
MergeStep(S) ==
    /\ call'.op \in {"merge", "merge_with", "unsafe_merge"} /\ call'.src = S
    /\ RootMerged(cfg, S, call'.op # "merge_with", cfg')

LEMMA MergeInPlaceIs ==
    ASSUME Inv, NEW S \in Sources(cfg.obj), NEW order \in Orders(S), MergeInPlace(S, order)
    PROVE  MergeStep(S)
<1> DEFINE how == [allows |-> FALSE, order |-> order, source |-> NoFlags]
           r == MergeRoot(cfg, S, FALSE, order)
<1>1. IsConfig(cfg) /\ GoodSource(S, how)
  BY SourceIs DEF Inv
<1>2. RootMerged(cfg, S, FALSE, r.node)
  <2> HIDE DEF r, how
  <2> QED BY <1>1, MergeRootIs DEF r, how
<1>3. cfg' = r.node /\ call'.op = "merge_with" /\ call'.src = S
  BY DEF MergeInPlace
<1> QED BY <1>2, <1>3 DEF MergeStep

LEMMA MergeCopyIs ==
    ASSUME Inv, NEW S \in Sources(cfg.obj), NEW order \in Orders(S), MergeCopy(S, order)
    PROVE  MergeStep(S)
<1> DEFINE how == [allows |-> TRUE, order |-> order, source |-> NoFlags]
           r == MergeRoot(cfg, S, TRUE, order)
<1>1. IsConfig(cfg) /\ GoodSource(S, how)
  BY SourceIs DEF Inv
<1>2. RootMerged(cfg, S, TRUE, r.node)
  <2> HIDE DEF r, how
  <2> QED BY <1>1, MergeRootIs DEF r, how
<1>3. RootMerged(cfg, S, TRUE, cfg)
  BY <1>1, RootSame
<1>4. cfg' \in {r.node, cfg} /\ call'.op = "merge" /\ call'.src = S
  BY DEF MergeCopy
<1> QED BY <1>2, <1>3, <1>4 DEF MergeStep

\* Turning a flag of the config on or off.
LEMMA ConfigRo ==
    ASSUME NEW D, IsConfig(D), NEW v \in Flag, NEW E, E = [D EXCEPT !.ro = v]
    PROVE  /\ IsConfig(E) /\ E.obj = D.obj /\ E.c = D.c /\ E.type = D.type /\ E.opt = D.opt
           /\ E.ro = v /\ E.st = D.st
<1>1. IsNest(D, Key)
  BY ConfigIs
<1>2. IsNest(E, Key) /\ SameBut(D, E) /\ E.ro = v /\ E.st = D.st
  BY <1>1, NestRo
<1> QED BY <1>2, SameConfig DEF SameBut

LEMMA UnsafeMergeIs ==
    ASSUME Inv, NEW S \in Sources(cfg.obj), NEW order \in Orders(S), UnsafeMerge(S, order)
    PROVE  MergeStep(S)
<1> DEFINE how == [allows |-> TRUE, order |-> order, source |-> NoFlags]
           D == [cfg EXCEPT !.ro = "off"]
           r == MergeRoot(D, S, TRUE, order)
           turned == r.ends = "returned" /\ IsReadonly(r.node, NoFlags)
           ro == IF turned THEN "on" ELSE cfg.ro
           E == r.node
           F == [E EXCEPT !.ro = ro]
<1>1. IsConfig(cfg) /\ GoodSource(S, how) /\ cfg.ro \in Flag /\ {"on", "off"} \subseteq Flag
  BY SourceIs, ConfigIs DEF Inv, Flag
<1>2. /\ IsConfig(D) /\ D.obj = cfg.obj /\ D.c = cfg.c /\ D.type = cfg.type /\ D.opt = cfg.opt
      /\ D.ro = "off" /\ D.st = cfg.st
  BY <1>1, ConfigRo
<1>3. RootMerged(D, S, TRUE, E)
  <2> HIDE DEF r, how, D
  <2> QED BY <1>1, <1>2, MergeRootIs DEF r, how
<1>4. cfg' = F /\ call'.op = "unsafe_merge" /\ call'.src = S
  BY DEF UnsafeMerge
<1> HIDE DEF D, r
<1>5. ro \in {cfg.ro, S.ro} /\ ro \in Flag
  <2>1. CASE turned
    <3>1. E.ro = "on"
      BY <2>1 DEF IsReadonly, Flags, Inherit, NoFlags
    <3>2. E.ro \in {D.ro, S.ro}
      BY <1>3 DEF RootMerged
    <3> QED BY <1>1, <1>2, <2>1, <3>1, <3>2
  <2>2. CASE ~turned
    BY <1>1, <2>2
  <2> QED BY <2>1, <2>2
<1>6. /\ IsConfig(F) /\ F.obj = E.obj /\ F.c = E.c /\ F.type = E.type /\ F.opt = E.opt
      /\ F.ro = ro /\ F.st = E.st
  <2>1. IsConfig(E)
    BY <1>3 DEF RootMerged
  <2> HIDE DEF E, ro
  <2> QED BY <1>5, <2>1, ConfigRo
<1> HIDE DEF E, F, ro
<1>7. /\ Closed(D, NoFlags) <=> Closed(cfg, NoFlags)
      /\ Flags(D, NoFlags).st = Flags(cfg, NoFlags).st
  BY <1>2 DEF Closed, Flags
<1>8. RootMerged(cfg, S, TRUE, F)
  <2>1. /\ F.type = cfg.type /\ F.opt = cfg.opt /\ F.obj = cfg.obj /\ F.st \in {cfg.st, S.st}
        /\ DOMAIN cfg.c.m \subseteq DOMAIN F.c.m
        /\ Closed(cfg, NoFlags) => DOMAIN F.c.m = DOMAIN cfg.c.m
    <3>1. /\ E.type = D.type /\ E.opt = D.opt /\ E.obj = D.obj /\ E.st \in {D.st, S.st}
          /\ DOMAIN D.c.m \subseteq DOMAIN E.c.m
          /\ Closed(D, NoFlags) => DOMAIN E.c.m = DOMAIN D.c.m
      <4>1. /\ E.type = D.type /\ E.opt = D.opt /\ E.obj = D.obj /\ E.st \in {D.st, S.st}
            /\ DOMAIN D.c.m \subseteq DOMAIN E.c.m
        BY <1>3 DEF RootMerged
      <4>2. ASSUME Closed(D, NoFlags) PROVE DOMAIN E.c.m = DOMAIN D.c.m
        BY <1>3, <4>2 DEF RootMerged
      <4> QED BY <4>1, <4>2
    <3>2. DOMAIN E.c.m = DOMAIN F.c.m /\ DOMAIN D.c.m = DOMAIN cfg.c.m
      BY <1>2, <1>6
    <3> QED BY <1>2, <1>6, <1>7, <3>1, <3>2
  <2>2. PICK up : /\ up.st = Flags(D, NoFlags).st
                  /\ \A j \in DOMAIN D.c.m :
                        /\ ~Has(S, j) => E.c.m[j] = D.c.m[j]
                        /\ Has(S, j) => NodeKept(D.c.m[j], S.c.m[j], up, TRUE, E.c.m[j])
    BY <1>3 DEF RootMerged
  <2>3. /\ up.st = Flags(cfg, NoFlags).st
        /\ \A j \in DOMAIN cfg.c.m :
              /\ ~Has(S, j) => F.c.m[j] = cfg.c.m[j]
              /\ Has(S, j) => NodeKept(cfg.c.m[j], S.c.m[j], up, TRUE, F.c.m[j])
    BY <1>2, <1>6, <1>7, <2>2
  <2> QED BY <1>5, <1>6, <2>1, <2>3 DEF RootMerged
<1> QED BY <1>4, <1>8 DEF MergeStep

\* What setting a flag of a container does.
FlagStep ==
    /\ call'.op = "set_flag" /\ IsConfig(cfg') /\ cfg'.obj = cfg.obj
    /\ DOMAIN cfg'.c.m = DOMAIN cfg.c.m
    /\ \A k \in DOMAIN cfg.c.m :
        /\ cfg'.c.m[k].type = cfg.c.m[k].type /\ cfg'.c.m[k].opt = cfg.c.m[k].opt
        /\ cfg'.c.m[k].c = cfg.c.m[k].c

LEMMA NestSt ==
    ASSUME NEW K, NEW n, IsNest(n, K), NEW st \in Flag, NEW r, r = [n EXCEPT !.st = st]
    PROVE  IsNest(r, K) /\ SameBut(n, r)
<1>1. n.ro \in Flag
  BY DEF IsNest, IsList, IsDict
<1> DEFINE ro == n.ro
<1>2. [n EXCEPT !.ro = ro] = n
  <2> HIDE DEF ro
  <2>1. CASE IsList(n)
    <3>1. n = [kind |-> "list", type |-> n.type, opt |-> n.opt, c |-> n.c, ro |-> n.ro, st |-> n.st]
      BY <2>1 DEF IsList
    <3> QED BY <3>1 DEF ro
  <2>2. CASE IsDict(n, K)
    <3>1. n = [kind |-> "dict", type |-> n.type, opt |-> n.opt, obj |-> n.obj, c |-> n.c,
               ro |-> n.ro, st |-> n.st]
      BY <2>2 DEF IsDict
    <3> QED BY <3>1 DEF ro
  <2> QED BY <2>1, <2>2 DEF IsNest
<1> HIDE DEF ro
<1>3. Flagging(n, ro, st) = [[n EXCEPT !.ro = ro] EXCEPT !.st = st]
  BY DEF Flagging
<1>4. Flagging(n, ro, st) = r
  BY <1>2, <1>3
<1>5. ro \in Flag
  BY <1>1 DEF ro
<1> QED BY <1>4, <1>5, NestFlags

LEMMA SetRootFlagIs ==
    ASSUME Inv, NEW flag, NEW v \in Flag, SetRootFlag(flag, v)
    PROVE  FlagStep
<1>1. IsConfig(cfg) /\ IsNest(cfg, Key)
  BY ConfigIs DEF Inv
<1>2. cfg' = [cfg EXCEPT !.ro = v] \/ cfg' = [cfg EXCEPT !.st = v]
  BY DEF SetRootFlag
<1>3. IsNest(cfg', Key) /\ SameBut(cfg, cfg')
  BY <1>1, <1>2, NestRo, NestSt
<1>4. IsConfig(cfg') /\ cfg'.obj = cfg.obj /\ cfg'.c = cfg.c
  BY <1>1, <1>3, SameConfig DEF SameBut
<1>5. call'.op = "set_flag"
  BY DEF SetRootFlag
<1> QED BY <1>4, <1>5 DEF FlagStep

LEMMA PutIn ==
    ASSUME NEW D, IsConfig(D), NEW k \in DOMAIN D.c.m, NEW n
    PROVE  Put(D, k, n) = [D EXCEPT !.c = [D.c EXCEPT !.m = [D.c.m EXCEPT ![k] = n]]]
<1> DEFINE m == D.c.m
<1>1. m = [j \in DOMAIN m |-> m[j]]
  <2>1. IsEntries(D.c, Key)
    BY ConfigIs, EntriesOf
  <2> QED BY <2>1 DEF IsEntries, Entries
<1>2. DOMAIN m \cup {k} = DOMAIN m
  OBVIOUS
<1>3. [j \in DOMAIN m \cup {k} |-> IF j = k THEN n ELSE m[j]] = [m EXCEPT ![k] = n]
  <2> HIDE DEF m
  <2> QED BY <1>1, <1>2
<1> QED BY <1>3 DEF Put

LEMMA SetChildFlagIs ==
    ASSUME Inv, NEW k, NEW flag, NEW v \in Flag, SetChildFlag(k, flag, v)
    PROVE  FlagStep
<1> DEFINE d == cfg.c.m[k]
<1>1. IsConfig(cfg) /\ k \in DOMAIN cfg.c.m /\ IsNode(d) /\ IsContainer(d) /\ IsMap(cfg, Key)
  <2>1. IsConfig(cfg) /\ Has(cfg, k) /\ IsContainer(d)
    BY DEF Inv, SetChildFlag
  <2> QED BY <2>1, ConfigIs DEF IsConfig, Has
<1>2. PICK n : n \in {[d EXCEPT !.ro = v], [d EXCEPT !.st = v]} /\ cfg' = Put(cfg, k, n)
  <2>1. cfg' \in {[cfg EXCEPT !.c.m[k].ro = v], [cfg EXCEPT !.c.m[k].st = v]}
    BY DEF SetChildFlag
  <2>2. /\ [cfg EXCEPT !.c.m[k].ro = v] = Put(cfg, k, [d EXCEPT !.ro = v])
        /\ [cfg EXCEPT !.c.m[k].st = v] = Put(cfg, k, [d EXCEPT !.st = v])
    BY <1>1, PutIn
  <2> QED BY <2>1, <2>2
<1> HIDE DEF d
<1>3. IsNest(d, SubKey) /\ IsBox(d)
  BY <1>1, NodeIs, BoxIs
<1>4. IsNest(n, SubKey) /\ SameBut(d, n)
  BY <1>2, <1>3, NestRo, NestSt
<1>5. IsNode(n) /\ n.type = d.type /\ n.opt = d.opt /\ n.c = d.c
  BY <1>3, <1>4, SameBox, BoxIs DEF SameBut
<1>6. k \in Key
  BY <1>1, EntriesOf DEF IsEntries
<1>7. PutFacts(cfg, Key, k, n, cfg')
  <2> HIDE DEF Put
  <2> QED BY <1>1, <1>2, <1>6, PutIs
<1>8. IsConfig(cfg')
  <2>1. ASSUME NEW j \in DOMAIN cfg'.c.m PROVE IsNode(cfg'.c.m[j])
    <3>1. CASE j = k
      BY <1>5, <1>7, <3>1 DEF PutFacts
    <3>2. CASE j # k
      BY <1>1, <1>7, <3>2 DEF PutFacts, IsConfig
    <3> QED BY <3>1, <3>2
  <2> QED BY <1>7, <2>1 DEF PutFacts, IsConfig, IsMap
<1>9. call'.op = "set_flag"
  BY DEF SetChildFlag
<1>10. ASSUME NEW j \in DOMAIN cfg.c.m
       PROVE  /\ cfg'.c.m[j].type = cfg.c.m[j].type /\ cfg'.c.m[j].opt = cfg.c.m[j].opt
              /\ cfg'.c.m[j].c = cfg.c.m[j].c
  <2>1. CASE j = k
    BY <1>5, <1>7, <2>1 DEF PutFacts, d
  <2>2. CASE j # k
    BY <1>7, <2>2 DEF PutFacts
  <2> QED BY <2>1, <2>2
<1> QED BY <1>1, <1>7, <1>8, <1>9, <1>10 DEF FlagStep, PutFacts, Alike
-----------------------------------------------------------------------------
(* What a merge leaves, and in which order: one key.                         *)

\* What a source is laid over at k: the node there, or what it stands for.
BaseIn(D, k) ==
    IF Is(D.c.m[k], "interp") /\ RefersToContainer(D, k)
    THEN StandsFor(D.c.m[k], Target(D, k)) ELSE D.c.m[k]

\* E is what a round that returns makes of D: s is laid over what was at k.
LaidAt(D, k, s, E) ==
    LET d == BaseIn(D, k)
    IN  /\ Has(E, k)
        /\ IF ~Has(D, k) THEN E.c.m[k] = s
           ELSE IF Is(D.c.m[k], "interp") /\ IsContainer(d) /\ Is(d, "none") /\ Is(s, "map")
           THEN Is(E.c.m[k], "none") /\ DOMAIN s.c.m = {}
           ELSE LaidOver(d, s, E.c.m[k])

\* ... and one that raises.
StoppedAt(D, k, s, E) ==
    \/ KeptAt(D, E, k)
    \/ /\ Has(D, k) /\ Has(E, k)
       /\ \E d \in {BaseIn(D, k), D.c.m[k]} : PartlyOver(d, s, E.c.m[k])

RoundLaid(D, k, s, r) ==
    IF r.ends = "returned" THEN LaidAt(D, k, s, r.node) ELSE StoppedAt(D, k, s, r.node)

\* Where interpolations lead, in a dict with the entries m.
HopsIn(m, k) ==
    LET hop[n \in Nat] == IF n = 0 THEN k
                          ELSE IF hop[n - 1] \in DOMAIN m /\ m[hop[n - 1]].c.k = "interp"
                          THEN m[hop[n - 1]].c.to ELSE hop[n - 1]
    IN  [n \in 0 .. Cardinality(Key) |-> hop[n]]

LEMMA HopsAre == ASSUME NEW D, NEW k PROVE Hops(D, k) = HopsIn(D.c.m, k)
  BY DEF Hops, HopsIn, Onward, Has, Is

\* They lead there whatever else the dict is.
LEMMA SameBase ==
    ASSUME NEW D, NEW E, D.c.m = E.c.m, NEW k
    PROVE  /\ RefersToContainer(D, k) <=> RefersToContainer(E, k)
           /\ Target(D, k) = Target(E, k) /\ BaseIn(D, k) = BaseIn(E, k)
<1>1. Hops(D, k) = Hops(E, k)
  BY HopsAre
<1>2. End(D, k) = End(E, k) /\ Target(D, k) = Target(E, k)
  BY <1>1 DEF End, Target
<1>3. RefersToContainer(D, k) <=> RefersToContainer(E, k)
  BY <1>1, <1>2 DEF RefersToContainer, Has
<1> QED BY <1>2, <1>3 DEF BaseIn

\* d and e have the same content and type.
AsGood(d, e) == d.kind = e.kind /\ d.type = e.type /\ d.c = e.c

\* d can be given other content.
HoldsContent(d) == "c" \in DOMAIN d

LEMMA NodeHolds ==
    ASSUME NEW d, IsNode(d)
    PROVE  HoldsContent(d)
<1>1. "c" \in DOMAIN d
  <2>1. CASE IsLeaf(d)
    <3>1. d = [kind |-> "leaf", type |-> d.type, opt |-> d.opt, c |-> d.c]
      BY <2>1 DEF IsLeaf, Leaf
    <3> QED BY <3>1
  <2>2. CASE IsList(d)
    <3>1. d = [kind |-> "list", type |-> d.type, opt |-> d.opt, c |-> d.c, ro |-> d.ro, st |-> d.st]
      BY <2>2 DEF IsList
    <3> QED BY <3>1
  <2>3. CASE IsLeafDict(d)
    <3>1. d = [kind |-> "dict", type |-> d.type, opt |-> d.opt, obj |-> d.obj, c |-> d.c,
               ro |-> d.ro, st |-> d.st]
      BY <2>3 DEF IsLeafDict, IsDict
    <3> QED BY <3>1
  <2> QED BY <2>1, <2>2, <2>3 DEF IsNode
<1> QED BY <1>1 DEF HoldsContent

\* The ground of a dict that can be given content.
LEMMA GroundOf ==
    ASSUME NEW d, HoldsContent(d)
    PROVE  Ground(d).c = IF Is(d, "map") THEN d.c ELSE NewContent(d)
<1> DEFINE c == NewContent(d)
<1>1. [d EXCEPT !.c = c].c = c
  BY DEF HoldsContent
<1> QED BY <1>1 DEF Ground, NewContent

\* What is laid over e is laid over a node as good.
LEMMA LaidOverGood ==
    ASSUME NEW d, NEW e, d.kind = e.kind, HoldsContent(d), HoldsContent(e), NEW s, NEW n, LaidOver(e, s, n),
           Is(s, "missing") => d.c = e.c, e.kind = "dict" => Ground(d).c = Ground(e).c
    PROVE  LaidOver(d, s, n)
<1>1. IsContainer(d) <=> IsContainer(e)
  BY DEF IsContainer
<1>2. CASE Is(s, "missing")
  BY <1>1, <1>2 DEF LaidOver, MissingOverLeaf, Data, Is
<1>3. CASE ~Is(s, "missing") /\ Is(s, "map") /\ d.kind = "dict"
  <2> DEFINE g == Ground(d)
             h == Ground(e)
             Over(x) == [j \in DOMAIN x.c.m \cup DOMAIN s.c.m |->
                            IF Has(s, j) /\ ~(Has(x, j) /\ Is(s.c.m[j], "missing"))
                            THEN s.c.m[j].c ELSE x.c.m[j].c]
  <2>1. Data(n) = Over(h)
    BY <1>1, <1>3 DEF LaidOver
  <2>2. g.c = h.c
    BY <1>3
  <2> HIDE DEF g, h
  <2>3. Over(g) = Over(h)
    BY <2>2 DEF Has
  <2> QED BY <1>3, <2>1, <2>3 DEF LaidOver, g
<1>4. CASE ~Is(s, "missing") /\ ~(Is(s, "map") /\ d.kind = "dict")
  BY <1>1, <1>4 DEF LaidOver
<1> QED BY <1>2, <1>3, <1>4

LEMMA PartlyOverGood ==
    ASSUME NEW d, NEW e, AsGood(d, e), HoldsContent(d), HoldsContent(e), NEW s, NEW n, PartlyOver(e, s, n)
    PROVE  PartlyOver(d, s, n)
<1> DEFINE g == Ground(d)
           h == Ground(e)
<1>1. g.c = h.c
  BY GroundOf DEF AsGood, Is, NewContent
<1>2. Data(d) = Data(e)
  BY DEF AsGood, Data, Is
<1> HIDE DEF g, h
<1> QED BY <1>1, <1>2 DEF PartlyOver, AsGood, g, h, Is, Has

\* d was None before it got content, which made it e.
Began(d, s, e) ==
    /\ Is(d, "none") /\ ~IsSpecial(s) /\ d.kind = e.kind /\ d.type = e.type
    /\ \/ d.kind = "dict" /\ e.c = NewContent(d) /\ Is(e, "map")
       \/ d.kind = "list" /\ e.c = Items(<<>>)

LEMMA OverNew ==
    ASSUME NEW d, NEW e, NEW s, Began(d, s, e), HoldsContent(d), HoldsContent(e), NEW n
    PROVE  /\ LaidOver(e, s, n) => LaidOver(d, s, n)
           /\ /\ PartlyOver(e, s, n)
              /\ Is(e, "map") => Is(n, "map")
              /\ e.kind = "list" => ~Is(n, "map")
              => PartlyOver(d, s, n)
<1>1. e.kind = "dict" => Ground(d).c = Ground(e).c
  BY GroundOf DEF Began, Is
<1>2. ~Is(s, "missing") /\ d.kind = e.kind
  BY DEF Began, Is, IsSpecial
<1>3. ASSUME LaidOver(e, s, n) PROVE LaidOver(d, s, n)
  BY <1>1, <1>2, <1>3, LaidOverGood
<1>4. ASSUME PartlyOver(e, s, n), Is(e, "map") => Is(n, "map"), e.kind = "list" => ~Is(n, "map")
      PROVE  PartlyOver(d, s, n)
  <2>1. CASE e.kind = "dict"
    <3> DEFINE g == Ground(d)
               h == Ground(e)
    <3>1. g.c = h.c /\ h.c = e.c /\ Is(e, "map") /\ Is(n, "map") /\ d.kind = "dict"
      BY <1>1, <1>4, <2>1, GroundOf DEF Began
    <3> HIDE DEF g, h
    <3>2. \/ Data(n) = Data(e)
          \/ /\ \A j \in DOMAIN h.c.m : Has(n, j)
             /\ \A j \in DOMAIN n.c.m : \/ Has(h, j) /\ n.c.m[j].c = h.c.m[j].c
                                        \/ Is(s, "map") /\ Has(s, j) /\ n.c.m[j].c = s.c.m[j].c
      BY <1>4, <2>1, <3>1 DEF PartlyOver, h, Is
    <3>3. Data(n) = Data(e) => /\ DOMAIN n.c.m = DOMAIN e.c.m
                               /\ \A j \in DOMAIN e.c.m : n.c.m[j].c = e.c.m[j].c
      <4>1. /\ Data(n) = [j \in DOMAIN n.c.m |-> n.c.m[j].c]
            /\ Data(e) = [j \in DOMAIN e.c.m |-> e.c.m[j].c]
        BY <3>1 DEF Data
      <4> QED BY <4>1
    <3>4. /\ \A j \in DOMAIN g.c.m : Has(n, j)
          /\ \A j \in DOMAIN n.c.m : \/ Has(g, j) /\ n.c.m[j].c = g.c.m[j].c
                                     \/ Is(s, "map") /\ Has(s, j) /\ n.c.m[j].c = s.c.m[j].c
      BY <3>1, <3>2, <3>3 DEF Has
    <3> QED BY <3>1, <3>4 DEF PartlyOver, g
  <2>2. CASE e.kind = "list"
    <3>1. ~Is(e, "map") /\ ~Is(n, "map") /\ ~Is(e, "none") /\ e.c = Items(<<>>) /\ d.kind = "list" /\ Is(d, "none")
      BY <1>4, <2>2 DEF Began, Items, Is
    <3>2. Data(n) = Data(e)
      BY <1>4, <3>1, <2>2 DEF PartlyOver
    <3>3. n.c = Items(<<>>)
      BY <3>1, <3>2 DEF Data
    <3> QED BY <3>1, <3>3 DEF PartlyOver
  <2> QED BY <2>1, <2>2 DEF Began
<1> QED BY <1>3, <1>4

-----------------------------------------------------------------------------
(* What follows the beginning of a round.                                   *)

\* n is what the rest of a round makes of the node e, which it begins with.
RestLaid(e, s, n, ends) ==
    IF ends = "returned"
    THEN IF IsContainer(e) /\ Is(e, "none") /\ Is(s, "map")
         THEN Is(n, "none") /\ DOMAIN s.c.m = {} ELSE LaidOver(e, s, n)
    ELSE /\ PartlyOver(e, s, n)
         /\ Is(e, "map") => Is(n, "map")
         /\ e.kind = "list" => ~Is(n, "map")

RestAt(E, k, s, r) ==
    Has(r.node, k) /\ RestLaid(E.c.m[k], s, r.node.c.m[k], r.ends)

LEMMA RestSame ==
    ASSUME NEW e, IsNode(e), NEW s
    PROVE  RestLaid(e, s, e, "raised")
<1>1. PartlyOver(e, s, e)
  BY DEF PartlyOver
<1>2. e.kind = "list" => ~Is(e, "map")
  BY NodeIs
<1> QED BY <1>1, <1>2 DEF RestLaid

LEMMA RaisesAt ==
    ASSUME NEW E, IsConfig(E), NEW k, Has(E, k), NEW s
    PROVE  RestAt(E, k, s, Raises(E))
<1>1. IsNode(E.c.m[k])
  BY DEF IsConfig, Has
<1> QED BY <1>1, RestSame, OutcomeIs DEF RestAt

LEMMA PutAt ==
    ASSUME NEW E, IsConfig(E), NEW k \in Key, NEW n
    PROVE  Has(Put(E, k, n), k) /\ Put(E, k, n).c.m[k] = n
<1>1. PutFacts(E, Key, k, n, Put(E, k, n))
  BY ConfigIs, PutIs
<1> QED BY <1>1 DEF PutFacts, Has

\* What a typed node has that takes a value.
LEMMA ValueTaken ==
    ASSUME NEW d, IsNode(d), d.type # "Any", NEW s, IsNode(s), Accepts(d, s), Is(s, "none") => d.opt
    PROVE  /\ SetValue(d, s).c = s.c /\ SetValue(d, s).kind = d.kind
           /\ SetValue(d, s).type = d.type
<1>1. CASE IsLeaf(d)
  <2>1. SetValue(d, s).kind = d.kind
    <3>1. SetValue(d, s) = [d EXCEPT !.c = s.c]
      BY <1>1, LeafIs DEF SetValue
    <3>2. d = [kind |-> "leaf", type |-> d.type, opt |-> d.opt, c |-> d.c]
      BY <1>1 DEF IsLeaf, Leaf
    <3> QED BY <3>1, <3>2
  <2> QED BY <1>1, <2>1, SetLeafValue
<1>2. CASE IsList(d)
  <2>1. d = [kind |-> "list", type |-> d.type, opt |-> d.opt, c |-> d.c, ro |-> d.ro, st |-> d.st]
    BY <1>2 DEF IsList
  <2>2. SetValue(d, s) \in {[d EXCEPT !.c = s.c], [Unflagged(d) EXCEPT !.c = s.c]}
    BY <1>2, ListIs DEF SetValue
  <2> QED BY <2>1, <2>2 DEF Unflagged
<1>3. CASE IsLeafDict(d)
  <2>1. d = [kind |-> "dict", type |-> d.type, opt |-> d.opt, obj |-> d.obj, c |-> d.c,
             ro |-> d.ro, st |-> d.st]
    BY <1>3 DEF IsLeafDict, IsDict
  <2>2. SetValue(d, s) \in {[d EXCEPT !.c = s.c, !.obj = "none"],
                            [Unflagged(d) EXCEPT !.c = s.c, !.obj = s.obj]}
    <3>1. d.kind = "dict"
      BY <2>1
    <3> QED BY <3>1 DEF SetValue, IsContainer
  <2> QED BY <2>1, <2>2 DEF Unflagged
<1> QED BY <1>1, <1>2, <1>3 DEF IsNode

\* A leaf, or a value put over a leaf, replaces what was there.
LEMMA Replaces ==
    ASSUME NEW e, IsNode(e), NEW s, IsNode(s), ~(IsContainer(e) /\ IsContainer(s)),
           ~(Is(s, "missing") /\ ~IsContainer(s)), NEW n, n.c = s.c, n = s \/ ~Is(s, "map")
    PROVE  RestLaid(e, s, n, "returned")
<1>1. Is(s, "missing") => MissingOverLeaf(e, s)
  BY DEF MissingOverLeaf
<1>2. ~(IsContainer(e) /\ Is(s, "map")) /\ ~(Is(s, "map") /\ e.kind = "dict")
  BY NodeIs DEF IsContainer
<1>3. Data(n) = Data(s)
  BY DEF Data, Is
<1>4. LaidOver(e, s, n)
  BY <1>1, <1>2, <1>3 DEF LaidOver
<1> QED BY <1>2, <1>4 DEF RestLaid

LEMMA SetItemAt ==
    ASSUME NEW E, IsConfig(E), NEW up, NEW k \in Key, Has(E, k), NEW s, IsNode(s),
           ~(IsContainer(E.c.m[k]) /\ IsContainer(s)), ~(Is(s, "missing") /\ ~IsContainer(s))
    PROVE  RestAt(E, k, s, SetItem(E, up, k, s))
<1> DEFINE e == E.c.m[k]
           p == SetItem(E, up, k, s)
<1>1. IsNode(e)
  BY DEF IsConfig, Has
<1>2. CASE p = Raises(E)
  BY <1>2, RaisesAt
<1>3. CASE p = Returns(Put(E, k, s))
  <2>1. RestLaid(e, s, s, "returned")
    BY <1>1, Replaces
  <2> QED BY <1>3, <2>1, PutAt, OutcomeIs DEF RestAt
<1>4. CASE /\ ~SetRefused(E, up, k, s) /\ e.type # "Any" /\ Accepts(e, s)
           /\ p = Returns(Put(E, k, SetValue(e, s)))
  <2> DEFINE n == SetValue(e, s)
  <2>1. Is(s, "none") => e.opt
    BY <1>4 DEF SetRefused
  <2>2. n.c = s.c
    BY <1>1, <1>4, <2>1, ValueTaken
  <2>3. ~Is(s, "map")
    <3> SUFFICES ASSUME Is(s, "map") PROVE FALSE
      OBVIOUS
    <3>1. s.kind = "dict" /\ ~IsSpecial(s) /\ IsContainer(s)
      BY NodeIs DEF IsContainer
    <3>2. e.type = "Sub"
      BY <1>4, <3>1 DEF Accepts
    <3>3. e.kind = "dict"
      BY <1>1, <3>2, LeafIs, ListIs DEF IsNode, IsLeafDict, IsDict
    <3> QED BY <3>1, <3>3 DEF IsContainer
  <2> HIDE DEF n
  <2>4. RestLaid(e, s, n, "returned")
    BY <1>1, <2>2, <2>3, Replaces
  <2> QED BY <1>4, <2>4, PutAt, OutcomeIs DEF RestAt, n
<1>5. CASE e.kind = "list" /\ s.kind = "list"
  BY <1>5 DEF IsContainer
<1> QED BY <1>2, <1>3, <1>4, <1>5, SetItemIs

LEMMA MergeValueAt ==
    ASSUME NEW E, IsConfig(E), NEW up, NEW k \in Key, Has(E, k), NEW s, IsNode(s), NEW how,
           ~(IsContainer(E.c.m[k]) /\ IsContainer(s))
    PROVE  RestAt(E, k, s, MergeValue(E, up, k, s, how))
<1> DEFINE e == E.c.m[k]
           typed == ~IsContainer(e) /\ e.type # "Any"
           r == MergeValue(E, up, k, s, how)
<1>1. IsNode(e)
  BY DEF IsConfig, Has
<1>2. CASE IsContainer(s)
  <2>1. r = SetItem(E, up, k, s)
    BY <1>2 DEF MergeValue
  <2> QED BY <1>2, <2>1, SetItemAt
<1>3. CASE ~IsContainer(s) /\ Is(s, "missing")
  <2>1. RestLaid(e, s, e, "returned")
    <3>1. LaidOver(e, s, e) /\ ~Is(s, "map")
      BY <1>3 DEF LaidOver, MissingOverLeaf, Is
    <3> QED BY <3>1 DEF RestLaid
  <2>2. CASE r = Returns(E)
    BY <2>1, <2>2, OutcomeIs DEF RestAt
  <2>3. CASE r = Raises(E)
    BY <2>3, RaisesAt
  <2>4. CASE ~IsContainer(e) /\ e.type = "Any" /\ r = SetItem(E, up, k, e)
    <3>1. r = Raises(E) \/ r = Returns(Put(E, k, e))
      BY <2>4, SetItemIs
    <3>2. RestAt(E, k, s, Returns(Put(E, k, e)))
      BY <2>1, PutAt, OutcomeIs DEF RestAt
    <3> QED BY <3>1, <3>2, RaisesAt
  <2> QED BY <1>3, <2>2, <2>3, <2>4 DEF MergeValue
<1>4. CASE ~IsContainer(s) /\ ~Is(s, "missing") /\ ~typed
  <2>1. r = SetItem(E, up, k, s)
    BY <1>4 DEF MergeValue
  <2> QED BY <1>4, <2>1, SetItemAt
<1>5. CASE ~IsContainer(s) /\ ~Is(s, "missing") /\ typed
  <2> DEFINE n == SetValue(e, s)
  <2>1. \/ r = Raises(E)
        \/ Accepts(e, s) /\ (Is(s, "none") => e.opt) /\ r = Returns(Put(E, k, n))
    BY <1>5 DEF MergeValue
  <2>2. CASE r = Raises(E)
    BY <2>2, RaisesAt
  <2>3. CASE Accepts(e, s) /\ (Is(s, "none") => e.opt) /\ r = Returns(Put(E, k, n))
    <3>1. n.c = s.c
      BY <1>1, <1>5, <2>3, ValueTaken
    <3>2. ~Is(s, "map")
      BY <1>5, NodeIs DEF IsContainer
    <3> HIDE DEF n
    <3>3. RestLaid(e, s, n, "returned")
      BY <1>1, <1>5, <3>1, <3>2, Replaces
    <3> QED BY <2>3, <3>3, PutAt, OutcomeIs DEF RestAt
  <2> QED BY <2>1, <2>2, <2>3
<1> QED BY <1>2, <1>3, <1>4, <1>5

LEMMA ChildAt ==
    ASSUME NEW e, IsBox(e), NEW up, NEW s, IsBox(s), NEW how, GoodNode(s, how)
    PROVE  LET q == MergeChild(e, up, s, how)
           IN  IsOutcome(q) /\ RestLaid(e, s, q.node, q.ends)
<1> DEFINE q == MergeChild(e, up, s, how)
           n == q.node
<1>1. LeafSource(s, how) \/ ~(Is(s, "map") \/ Is(s, "missing")) \/ s.kind = "list"
  <2>1. CASE Is(s, "missing") /\ s.kind = "dict"
    BY <2>1 DEF LeafSource, Orderly, Is
  <2>2. CASE Is(s, "map")
    BY <2>2, BoxIs DEF GoodNode
  <2> QED BY <2>1, <2>2, BoxIs
<1>2. CASE Is(s, "map") /\ Is(e, "none")
  <2>1. LeafSource(s, how)
    BY <1>1, <1>2, BoxIs
  <2>2. NoneKept(e, s, up, how.allows, q)
    BY <1>2, <2>1, NoneChildKept
  <2> HIDE DEF q
  <2>3. IsOutcome(q) /\ n.c = e.c /\ (q.ends = "returned" => DOMAIN s.c.m = {}) /\ IsContainer(e)
    BY <2>2, BoxIs DEF NoneKept, BoxKept
  <2>4. Data(n) = Data(e) /\ ~Is(n, "map") /\ Is(n, "none")
    BY <1>2, <2>3 DEF Data, Is
  <2>5. PartlyOver(e, s, n)
    BY <2>4 DEF PartlyOver
  <2>6. RestLaid(e, s, n, q.ends)
    BY <1>2, <2>3, <2>4, <2>5 DEF RestLaid, Is
  <2> QED BY <2>3, <2>6 DEF q
<1>3. CASE ~(Is(s, "map") /\ Is(e, "none"))
  <2>1. BoxMerged(e, up, s, how.allows, q)
    BY <1>1, <1>3, MergeChildIs
  <2> HIDE DEF q
  <2>2. /\ IsOutcome(q) /\ q.ends \in {"returned", "raised"} /\ IsBox(n) /\ n.kind = e.kind
        /\ q.ends = "returned" => LaidOver(e, s, n)
        /\ q.ends = "raised" => PartlyOver(e, s, n) /\ (Is(e, "map") => Is(n, "map"))
    BY <2>1 DEF BoxMerged
  <2>3. e.kind = "list" => ~Is(n, "map")
    BY <2>2, BoxIs
  <2>4. RestLaid(e, s, n, q.ends)
    BY <1>3, <2>2, <2>3 DEF RestLaid
  <2> QED BY <2>2, <2>4 DEF q
<1> QED BY <1>2, <1>3
-----------------------------------------------------------------------------
(* One key.                                                                  *)

\* A round begins with e, where d was, which stands for b.
Ready(d, b, s, e) ==
    \/ AsGood(b, e) /\ (IsContainer(b) /\ Is(b, "none") /\ Is(s, "map") => Is(d, "interp"))
    \/ b = d /\ ~Is(d, "interp") /\ Began(d, s, e)

\* What it makes of e, it makes of what was there.
LEMMA FromReady ==
    ASSUME NEW d, NEW b, NEW s, NEW e, Ready(d, b, s, e), HoldsContent(b), HoldsContent(e),
           NEW n, NEW ends, RestLaid(e, s, n, ends)
    PROVE  IF ends = "returned"
           THEN IF Is(d, "interp") /\ IsContainer(b) /\ Is(b, "none") /\ Is(s, "map")
                THEN Is(n, "none") /\ DOMAIN s.c.m = {} ELSE LaidOver(b, s, n)
           ELSE PartlyOver(b, s, n)
<1>1. CASE AsGood(b, e) /\ (IsContainer(b) /\ Is(b, "none") /\ Is(s, "map") => Is(d, "interp"))
  <2>1. /\ IsContainer(b) <=> IsContainer(e)
        /\ Is(b, "none") <=> Is(e, "none")
        /\ b.kind = e.kind /\ b.c = e.c
    BY <1>1 DEF AsGood, IsContainer, Is
  <2>2. Ground(b).c = Ground(e).c
    BY <1>1, GroundOf DEF AsGood, Is, NewContent
  <2>3. CASE ends = "returned"
    <3>1. LaidOver(e, s, n) => LaidOver(b, s, n)
      BY <2>1, <2>2, LaidOverGood
    <3> QED BY <1>1, <2>1, <2>3, <3>1 DEF RestLaid
  <2>4. CASE ends # "returned"
    <3>1. PartlyOver(e, s, n)
      BY <2>4 DEF RestLaid
    <3>2. PartlyOver(b, s, n)
      BY <1>1, <3>1, PartlyOverGood
    <3> QED BY <2>4, <3>2
  <2> QED BY <2>3, <2>4
<1>2. CASE b = d /\ ~Is(d, "interp") /\ Began(d, s, e)
  <2>1. ~Is(e, "none")
    BY <1>2 DEF Began, Is, Items
  <2>2. /\ LaidOver(e, s, n) => LaidOver(d, s, n)
        /\ /\ PartlyOver(e, s, n)
           /\ Is(e, "map") => Is(n, "map")
           /\ e.kind = "list" => ~Is(n, "map")
           => PartlyOver(d, s, n)
    BY <1>2, OverNew
  <2> QED BY <1>2, <2>1, <2>2 DEF RestLaid
<1> QED BY <1>1, <1>2 DEF Ready

LEMMA BaseHolds ==
    ASSUME NEW D, IsConfig(D), NEW k, Has(D, k)
    PROVE  HoldsContent(BaseIn(D, k))
<1> DEFINE d == D.c.m[k]
           n == Target(D, k)
<1>1. IsNode(d)
  BY DEF IsConfig, Has
<1>2. RefersToContainer(D, k) => IsNode(n)
  BY TargetIs
<1> HIDE DEF d, n
<1>3. HoldsContent(d) /\ HoldsContent([d EXCEPT !.c = n.c])
  BY <1>1, NodeHolds DEF HoldsContent
<1>4. RefersToContainer(D, k) => HoldsContent(n)
  BY <1>2, NodeHolds
<1> QED BY <1>3, <1>4 DEF BaseIn, StandsFor, d, n

\* A typed node takes what an interpolation of it refers to, with its own type.
LEMMA StandsForTaken ==
    ASSUME NEW d, IsNode(d), d.type # "Any", NEW t, IsNode(t), Accepts(d, t), Is(t, "none") => d.opt
    PROVE  AsGood(StandsFor(d, t), SetValue(d, t))
<1> DEFINE b == [d EXCEPT !.c = t.c]
           e == SetValue(d, t)
<1>1. e.c = t.c /\ e.kind = d.kind /\ e.type = d.type
  BY ValueTaken
<1>2. b.c = t.c /\ b.kind = d.kind /\ b.type = d.type
  BY NodeHolds DEF HoldsContent
<1>3. StandsFor(d, t) = b
  BY DEF StandsFor
<1> QED BY <1>1, <1>2, <1>3 DEF AsGood

\* An interpolation is replaced by the container it refers to.
LEMMA FollowLaid ==
    ASSUME NEW D, IsConfig(D), NEW up, NEW k \in Key, Has(D, k), RefersToContainer(D, k), NEW s,
           NEW p, p = SetItem(D, up, k, Target(D, k))
    PROVE  IF p.ends = "returned" THEN Ready(D.c.m[k], BaseIn(D, k), s, p.node.c.m[k])
           ELSE StoppedAt(D, k, s, p.node)
<1> DEFINE d == D.c.m[k]
           t == Target(D, k)
           b == BaseIn(D, k)
<1>1. Is(d, "interp") /\ IsNode(t) /\ IsNode(d)
  BY TargetIs DEF IsConfig, Has
<1>2. b = StandsFor(d, t)
  BY <1>1 DEF BaseIn
<1> HIDE DEF d, t, b
<1>3. CASE p = Raises(D)
  BY <1>3, OutcomeIs DEF StoppedAt, KeptAt
<1>4. CASE d.type = "Any" /\ p = Returns(Put(D, k, t))
  <2>1. p.ends = "returned" /\ p.node.c.m[k] = t
    BY <1>4, PutAt, OutcomeIs
  <2>2. b = t
    BY <1>2, <1>4 DEF StandsFor
  <2>3. Ready(d, b, s, t)
    BY <1>1, <2>2 DEF Ready, AsGood
  <2> QED BY <2>1, <2>3 DEF d, b
<1>5. CASE /\ ~SetRefused(D, up, k, t) /\ d.type # "Any" /\ Accepts(d, t)
           /\ p = Returns(Put(D, k, SetValue(d, t)))
  <2>1. Is(t, "none") => d.opt
    BY <1>5 DEF SetRefused, d
  <2>2. AsGood(b, SetValue(d, t))
    BY <1>1, <1>2, <1>5, <2>1, StandsForTaken
  <2>3. p.ends = "returned" /\ p.node.c.m[k] = SetValue(d, t)
    BY <1>5, PutAt, OutcomeIs
  <2>4. Ready(d, b, s, SetValue(d, t))
    BY <1>1, <2>2 DEF Ready
  <2> QED BY <2>3, <2>4 DEF d, b
<1>6. CASE d.kind = "list" /\ p = Raises(Put(D, k, Unflagged(d)))
  <2> DEFINE n == Unflagged(d)
             E == Put(D, k, n)
  <2>1. n.c = d.c
    <3>1. IsList(d)
      BY <1>1, <1>6, NodeIs
    <3>2. d = [kind |-> "list", type |-> d.type, opt |-> d.opt, c |-> d.c, ro |-> d.ro, st |-> d.st]
      BY <3>1 DEF IsList
    <3> QED BY <3>2 DEF Unflagged
  <2> HIDE DEF n
  <2>2. Has(E, k) /\ E.c.m[k] = n
    BY PutAt
  <2>3. PartlyOver(d, s, n)
    BY <2>1 DEF PartlyOver, Data, Is
  <2> HIDE DEF E
  <2>4. p.ends = "raised" /\ p.node = E
    BY <1>6, OutcomeIs DEF n, E
  <2> QED BY <2>2, <2>3, <2>4 DEF StoppedAt, d
<1> QED BY <1>3, <1>4, <1>5, <1>6, SetItemIs DEF d, t

\* A container that is None gets content.
LEMMA ExpandBegins ==
    ASSUME NEW d, IsNode(d), IsContainer(d), Is(d, "none"), NEW s, ~IsSpecial(s), NEW r, r = Expand(d)
    PROVE  IF r.ends = "returned" THEN Began(d, s, r.node) ELSE r.node = d
<1>1. CASE IsLeafDict(d)
  <2>1. r = Returns(r.node) /\ Expanded(d, r.node)
    BY <1>1, ExpandDict
  <2> QED BY <1>1, <2>1, OutcomeIs DEF Expanded, Began, IsLeafDict, IsDict
<1>2. CASE IsList(d) /\ d.type = "Any"
  <2>1. r = Outcome("asserted", d)
    BY <1>2, ListIs DEF Expand
  <2> QED BY <2>1, OutcomeIs
<1>3. CASE IsList(d) /\ d.type # "Any"
  <2> DEFINE n == [d EXCEPT !.c = Items(<<>>)]
  <2>1. d.type = "ints" /\ d.kind = "list"
    BY <1>3, ListIs
  <2>2. r = Returns(n)
    BY <2>1 DEF Expand
  <2>3. d = [kind |-> "list", type |-> d.type, opt |-> d.opt, c |-> d.c, ro |-> d.ro, st |-> d.st]
    BY <1>3 DEF IsList
  <2>4. n.c = Items(<<>>) /\ n.kind = d.kind /\ n.type = d.type
    BY <2>3
  <2> HIDE DEF n
  <2>5. Began(d, s, n)
    BY <2>1, <2>4 DEF Began
  <2>6. r.ends = "returned" /\ r.node = n
    BY <2>2, OutcomeIs
  <2> QED BY <2>5, <2>6
<1> QED BY <1>1, <1>2, <1>3, NodeIs DEF IsNode, IsBox

LEMMA PrepareLaid ==
    ASSUME NEW D, IsConfig(D), NEW up, NEW k \in Key, Has(D, k), NEW s,
           NEW p, p = Prepare(D, up, k, s)
    PROVE  IF p.ends = "returned" THEN Ready(D.c.m[k], BaseIn(D, k), s, p.node.c.m[k])
           ELSE StoppedAt(D, k, s, p.node)
<1> DEFINE d == D.c.m[k]
           b == BaseIn(D, k)
           r == IF IsContainer(d) /\ Is(d, "none") /\ ~IsSpecial(s) THEN Expand(d) ELSE Returns(d)
<1>1. IsNode(d)
  BY DEF IsConfig, Has
<1> HIDE DEF d, b
<1>2. CASE MergeInvalid(d, s)
  <2>1. p = Raises(D)
    BY <1>2 DEF Prepare, d
  <2> QED BY <2>1, OutcomeIs DEF StoppedAt, KeptAt
<1>3. CASE ~MergeInvalid(d, s) /\ RefersToContainer(D, k)
  <2>1. p = SetItem(D, up, k, Target(D, k))
    BY <1>3 DEF Prepare, d
  <2> QED BY <1>3, <2>1, FollowLaid
<1>4. CASE ~MergeInvalid(d, s) /\ ~RefersToContainer(D, k)
  <2>1. p = Outcome(r.ends, Put(D, k, r.node))
    BY <1>4 DEF Prepare, d
  <2>2. p.ends = r.ends /\ p.node.c.m[k] = r.node /\ Has(p.node, k)
    <3> HIDE DEF r
    <3> DEFINE n == r.node
    <3> HIDE DEF n
    <3>1. p = Outcome(r.ends, Put(D, k, n))
      BY <2>1 DEF n
    <3> QED BY <3>1, PutAt, OutcomeIs DEF n
  <2>3. b = d
    BY <1>4 DEF BaseIn, b, d
  <2>4. CASE IsContainer(d) /\ Is(d, "none") /\ ~IsSpecial(s)
    <3>1. r = Expand(d) /\ ~Is(d, "interp")
      BY <2>4 DEF Is
    <3> HIDE DEF r
    <3>2. IF r.ends = "returned" THEN Began(d, s, r.node) ELSE r.node = d
      BY <1>1, <2>4, <3>1, ExpandBegins
    <3>3. CASE r.ends = "returned"
      <4>1. Ready(d, b, s, r.node)
        BY <2>3, <3>1, <3>2, <3>3 DEF Ready
      <4> QED BY <2>2, <3>3, <4>1 DEF b, d
    <3>4. CASE r.ends # "returned"
      <4>1. KeptAt(D, p.node, k)
        BY <2>2, <3>2, <3>4 DEF KeptAt, d
      <4> QED BY <2>2, <3>4, <4>1 DEF StoppedAt
    <3> QED BY <3>3, <3>4
  <2>5. CASE ~(IsContainer(d) /\ Is(d, "none") /\ ~IsSpecial(s))
    <3>1. r = Returns(d)
      BY <2>5
    <3>2. p.ends = "returned" /\ p.node.c.m[k] = d
      BY <2>2, <3>1, OutcomeIs
    <3>3. Ready(d, b, s, d)
      BY <2>3, <2>5 DEF Ready, AsGood, Is, IsSpecial
    <3> QED BY <3>2, <3>3 DEF b, d
  <2> QED BY <2>4, <2>5
<1> QED BY <1>2, <1>3, <1>4

\* What the rest of a round makes of the config E, which it begins with, is what
\* the round makes of D.
LEMMA RestOfRound ==
    ASSUME NEW D, IsConfig(D), NEW k, Has(D, k), NEW s, NEW E, IsConfig(E), Has(E, k),
           Ready(D.c.m[k], BaseIn(D, k), s, E.c.m[k]), NEW r, RestAt(E, k, s, r)
    PROVE  RoundLaid(D, k, s, r)
<1> DEFINE d == D.c.m[k]
           b == BaseIn(D, k)
           e == E.c.m[k]
           n == r.node.c.m[k]
<1>1. IsNode(e)
  BY DEF IsConfig, Has
<1>2. HoldsContent(b) /\ HoldsContent(e)
  BY <1>1, BaseHolds, NodeHolds
<1>3. RestLaid(e, s, n, r.ends) /\ Has(r.node, k) /\ Ready(d, b, s, e)
  BY DEF RestAt
<1> HIDE DEF d, b, e, n
<1>4. IF r.ends = "returned"
      THEN IF Is(d, "interp") /\ IsContainer(b) /\ Is(b, "none") /\ Is(s, "map")
           THEN Is(n, "none") /\ DOMAIN s.c.m = {} ELSE LaidOver(b, s, n)
      ELSE PartlyOver(b, s, n)
  BY <1>2, <1>3, FromReady
<1>5. CASE r.ends = "returned"
  BY <1>3, <1>4, <1>5 DEF RoundLaid, LaidAt, d, b, n
<1>6. CASE r.ends # "returned"
  BY <1>3, <1>4, <1>6 DEF RoundLaid, StoppedAt, b, n
<1> QED BY <1>5, <1>6

LEMMA MergeKeyLaid ==
    ASSUME NEW D, IsConfig(D), NEW up, NEW k \in Key, NEW s, NEW how, GoodNode(s, how),
           NEW r, r = MergeKey(D, up, k, s, how)
    PROVE  RoundLaid(D, k, s, r)
<1> DEFINE p == IF Has(D, k) THEN Prepare(D, up, k, s) ELSE SetItem(D, up, k, s)
           E == p.node
           e == E.c.m[k]
           q == MergeChild(e, Flags(D, up), s, how)
<1>1. IsNode(s)
  BY DEF GoodNode
<1>2. CASE ~Has(D, k)
  <2>1. r = SetItem(D, up, k, s)
    BY <1>2 DEF MergeKey
  <2>2. r = Raises(D) \/ r = Returns(Put(D, k, s))
    BY <1>2, <2>1, SetItemIs
  <2>3. CASE r = Raises(D)
    BY <2>3, OutcomeIs DEF RoundLaid, StoppedAt, KeptAt
  <2>4. CASE r = Returns(Put(D, k, s))
    BY <1>2, <2>4, OutcomeIs, PutAt DEF RoundLaid, LaidAt
  <2> QED BY <2>2, <2>3, <2>4
<1>3. CASE Has(D, k)
  <2>0. p = Prepare(D, up, k, s)
    BY <1>3
  <2> HIDE DEF p
  <2>1. /\ IF p.ends = "returned" THEN Ready(D.c.m[k], BaseIn(D, k), s, e)
           ELSE StoppedAt(D, k, s, p.node)
        /\ IsConfig(E)
        /\ p.ends = "returned" => Has(E, k)
    <3>1. IF p.ends = "returned" THEN Ready(D.c.m[k], BaseIn(D, k), s, e)
          ELSE StoppedAt(D, k, s, p.node)
      BY <1>3, <2>0, PrepareLaid
    <3>2. /\ KeyMerged(D, up, k, s, TRUE, p.node)
          /\ p.ends = "returned" => Has(p.node, k)
      BY <1>3, <2>0, PrepareMerged
    <3> QED BY <3>1, <3>2 DEF KeyMerged
  <2>2. CASE p.ends # "returned"
    <3>1. r = p
      BY <2>2 DEF MergeKey, p
    <3> QED BY <2>1, <2>2, <3>1 DEF RoundLaid
  <2>3. CASE p.ends = "returned" /\ IsContainer(e) /\ IsContainer(s)
    <3>1. r = Outcome(q.ends, Put(E, k, q.node))
      BY <1>3, <2>3 DEF MergeKey, p
    <3>2. IsBox(e) /\ IsBox(s)
      <4>2. IsNode(e)
        BY <2>1, <2>3 DEF IsConfig, Has
      <4> HIDE DEF e
      <4> QED BY <1>1, <2>3, <4>2, NodeIs
    <3>3. IsOutcome(q) /\ RestLaid(e, s, q.node, q.ends)
      <4> HIDE DEF e
      <4> QED BY <3>2, ChildAt
    <3> HIDE DEF q
    <3>4. RestAt(E, k, s, r)
      <4> DEFINE n == q.node
      <4> HIDE DEF n, E
      <4>1. Has(Put(E, k, n), k) /\ Put(E, k, n).c.m[k] = n
        BY <2>1, PutAt
      <4>2. r.ends = q.ends /\ r.node = Put(E, k, n)
        BY <3>1, OutcomeIs DEF n
      <4> QED BY <3>3, <4>1, <4>2 DEF RestAt, n, E
    <3> HIDE DEF E
    <3> QED BY <1>3, <2>1, <2>3, <3>4, RestOfRound
  <2>4. CASE p.ends = "returned" /\ ~(IsContainer(e) /\ IsContainer(s))
    <3>1. r = MergeValue(E, up, k, s, how)
      BY <1>3, <2>4 DEF MergeKey, p
    <3> HIDE DEF E
    <3>2. RestAt(E, k, s, r)
      BY <1>1, <2>1, <2>4, <3>1, MergeValueAt
    <3> QED BY <1>3, <2>1, <2>4, <3>2, RestOfRound
  <2> QED BY <2>2, <2>3, <2>4
<1> QED BY <1>2, <1>3
-----------------------------------------------------------------------------
(* The loop over the keys.                                                   *)

\* The entries of D, but those of E at the keys of V.
Mix(D, E, V) ==
    [c |-> [m |-> [j \in DOMAIN D.c.m \cup V |-> IF j \in V THEN E.c.m[j] ELSE D.c.m[j]]]]

\* The source is laid over D, to give E, at the first l keys of ks, at each after
\* those before it, and nowhere else.
LaidUpto(D, S, ks, l, E) ==
    /\ \A j \in Key : j \notin Upto(ks, l) => KeptAt(D, E, j)
    /\ \A i \in 1 .. l : LaidAt(Mix(D, E, Upto(ks, i - 1)), ks[i], S.c.m[ks[i]], E)

\* ... and a round has raised at the next.
HaltedAt(D, S, ks, at, E) ==
    /\ \A j \in Key : j \notin Upto(ks, at) => KeptAt(D, E, j)
    /\ \A i \in 1 .. at - 1 : LaidAt(Mix(D, E, Upto(ks, i - 1)), ks[i], S.c.m[ks[i]], E)
    /\ StoppedAt(Mix(D, E, Upto(ks, at - 1)), ks[at], S.c.m[ks[at]], E)

\* What the first l rounds leave is r.
LoopLaid(D, S, ks, l, r) ==
    IF r.ends = "returned" THEN LaidUpto(D, S, ks, l, r.node)
    ELSE \E at \in 1 .. l : HaltedAt(D, S, ks, at, r.node)

LEMMA SameLaid ==
    ASSUME NEW D, NEW E, D.c.m = E.c.m, NEW k, NEW s, NEW F
    PROVE  /\ LaidAt(D, k, s, F) => LaidAt(E, k, s, F)
           /\ StoppedAt(D, k, s, F) => StoppedAt(E, k, s, F)
<1>1. BaseIn(D, k) = BaseIn(E, k)
  BY SameBase
<1> QED BY <1>1 DEF LaidAt, StoppedAt, KeptAt, Has

LEMMA LaidThere ==
    ASSUME NEW D, NEW k, NEW s, NEW E, LaidAt(D, k, s, E), NEW F, Has(F, k), F.c.m[k] = E.c.m[k]
    PROVE  LaidAt(D, k, s, F)
  BY DEF LaidAt

LEMMA MixSame ==
    ASSUME NEW D, NEW E, NEW F, NEW V, \A j \in V : E.c.m[j] = F.c.m[j]
    PROVE  Mix(D, E, V) = Mix(D, F, V)
  BY DEF Mix

\* The entries of a config.
LEMMA EntriesAre ==
    ASSUME NEW E, IsConfig(E)
    PROVE  E.c.m = [j \in DOMAIN E.c.m |-> E.c.m[j]] /\ DOMAIN E.c.m \subseteq Key
<1> DEFINE m == [j \in DOMAIN E.c.m |-> E.c.m[j]]
<1>1. IsDict(E, Key) /\ Is(E, "map")
  BY DEF IsConfig
<1>2. E.c = Entries(m) /\ DOMAIN E.c.m \subseteq Key
  BY <1>1 DEF IsDict, Is, SpecialContent, None, Missing, Interp
<1>3. Entries(m).m = m
  BY DEF Entries
<1> QED BY <1>2, <1>3

LEMMA MixAll ==
    ASSUME NEW D, IsConfig(D), NEW E, IsConfig(E), NEW V, V \subseteq DOMAIN E.c.m,
           \A j \in Key : j \notin V => KeptAt(D, E, j),
           NEW F, \A j \in V : F.c.m[j] = E.c.m[j]
    PROVE  Mix(D, F, V).c.m = E.c.m
<1> DEFINE m == [j \in DOMAIN D.c.m \cup V |-> IF j \in V THEN F.c.m[j] ELSE D.c.m[j]]
<1>1. DOMAIN D.c.m \subseteq Key /\ DOMAIN E.c.m \subseteq Key
  BY EntriesAre
<1>2. DOMAIN D.c.m \cup V = DOMAIN E.c.m
  BY <1>1 DEF KeptAt, Has
<1>3. \A j \in DOMAIN E.c.m : m[j] = E.c.m[j]
  BY <1>1, <1>2 DEF KeptAt, Has
<1>4. m = E.c.m
  BY <1>2, <1>3, EntriesAre
<1> QED BY <1>4 DEF Mix

\* A round goes on from the first l.
LEMMA LaidStep ==
    ASSUME NEW D, IsConfig(D), NEW S, NEW ks \in Seq(Key), \A i, j \in DOMAIN ks : i # j => ks[i] # ks[j],
           NEW l \in 0 .. Len(ks) - 1, NEW E, IsConfig(E), LaidUpto(D, S, ks, l, E),
           NEW k, k = ks[l + 1], NEW up, NEW allows,
           NEW r, KeyMerged(E, up, k, S.c.m[k], allows, r.node), RoundLaid(E, k, S.c.m[k], r)
    PROVE  LoopLaid(D, S, ks, l + 1, r)
<1> DEFINE F == r.node
           s == S.c.m[k]
           V == Upto(ks, l)
<1>1. /\ Upto(ks, l + 1) = V \cup {k} /\ k \notin V /\ k \in Key
      /\ l \in Nat /\ Len(ks) \in Nat /\ l + 1 \in 1 .. l + 1
  <2>1. Upto(ks, l + 1) = Upto(ks, l) \cup {ks[l + 1]} /\ ks[l + 1] \notin Upto(ks, l) /\ ks[l + 1] \in Key
    BY UptoNext
  <2> QED BY <2>1
<1>2. /\ IsConfig(F) /\ DOMAIN E.c.m \subseteq DOMAIN F.c.m /\ DOMAIN F.c.m \subseteq DOMAIN E.c.m \cup {k}
      /\ \A j \in DOMAIN E.c.m \ {k} : F.c.m[j] = E.c.m[j]
  BY DEF KeyMerged
<1>3. RoundLaid(E, k, s, r)
  OBVIOUS
<1> HIDE DEF F, s
<1>4. \A j \in Key : j # k => KeptAt(E, F, j)
  BY <1>2 DEF KeptAt, Has
<1>5. \A i \in 1 .. l : /\ LaidAt(Mix(D, E, Upto(ks, i - 1)), ks[i], S.c.m[ks[i]], E)
                        /\ ks[i] \in V /\ Upto(ks, i - 1) \subseteq V
  BY <1>1 DEF LaidUpto, Upto
<1>6. V \subseteq DOMAIN E.c.m
  <2>1. \A i \in 1 .. l : ks[i] \in DOMAIN E.c.m
    BY <1>5 DEF LaidAt, Has
  <2> QED BY <2>1 DEF Upto
<1>7. \A j \in V : E.c.m[j] = F.c.m[j] /\ Has(F, j)
  BY <1>1, <1>2, <1>6 DEF Has
<1>8. \A j \in Key : j \notin V => KeptAt(D, E, j)
  BY DEF LaidUpto
<1>9. \A j \in Key : j \notin Upto(ks, l + 1) => KeptAt(D, F, j)
  <2> SUFFICES ASSUME NEW j \in Key, j \notin Upto(ks, l + 1) PROVE KeptAt(D, F, j)
    OBVIOUS
  <2>1. KeptAt(D, E, j) /\ KeptAt(E, F, j)
    BY <1>1, <1>4, <1>8
  <2> QED BY <2>1 DEF KeptAt
<1>10. ASSUME NEW i \in 1 .. l
       PROVE  LaidAt(Mix(D, F, Upto(ks, i - 1)), ks[i], S.c.m[ks[i]], F)
  <2>1. Mix(D, E, Upto(ks, i - 1)) = Mix(D, F, Upto(ks, i - 1))
    <3>1. \A j \in Upto(ks, i - 1) : E.c.m[j] = F.c.m[j]
      BY <1>5, <1>7
    <3> QED BY <3>1, MixSame
  <2>2. Has(F, ks[i]) /\ F.c.m[ks[i]] = E.c.m[ks[i]]
    BY <1>5, <1>7
  <2>3. LaidAt(Mix(D, F, Upto(ks, i - 1)), ks[i], S.c.m[ks[i]], E)
    BY <1>5, <2>1
  <2> QED BY <2>2, <2>3, LaidThere
<1>11. Mix(D, F, V).c.m = E.c.m
  <2> HIDE DEF V
  <2> QED BY <1>6, <1>7, <1>8, MixAll
<1>12. CASE r.ends = "returned"
  <2>1. LaidAt(E, k, s, F)
    BY <1>3, <1>12 DEF RoundLaid, F
  <2>2. LaidAt(Mix(D, F, V), k, s, F)
    <3> DEFINE M == Mix(D, F, V)
    <3>1. E.c.m = M.c.m
      BY <1>11
    <3> HIDE DEF M
    <3>2. LaidAt(M, k, s, F)
      BY <2>1, <3>1, SameLaid
    <3> QED BY <3>2 DEF M
  <2>3. ASSUME NEW i \in 1 .. l + 1
        PROVE  LaidAt(Mix(D, F, Upto(ks, i - 1)), ks[i], S.c.m[ks[i]], F)
    <3>1. CASE i \in 1 .. l
      BY <1>10, <3>1
    <3>2. CASE i = l + 1
      <4>1. i - 1 = l /\ ks[i] = k
        BY <1>1, <3>2
      <4> QED BY <2>2, <4>1 DEF s
    <3> QED BY <1>1, <3>1, <3>2
  <2>4. LaidUpto(D, S, ks, l + 1, F)
    BY <1>9, <2>3 DEF LaidUpto
  <2> QED BY <1>12, <2>4 DEF LoopLaid, F
<1>13. CASE r.ends # "returned"
  <2>1. StoppedAt(E, k, s, F)
    BY <1>3, <1>13 DEF RoundLaid, F
  <2>2. StoppedAt(Mix(D, F, V), k, s, F)
    <3> DEFINE M == Mix(D, F, V)
    <3>1. E.c.m = M.c.m
      BY <1>11
    <3> HIDE DEF M
    <3>2. StoppedAt(M, k, s, F)
      BY <2>1, <3>1, SameLaid
    <3> QED BY <3>2 DEF M
  <2>3. (l + 1) - 1 = l
    BY <1>1
  <2>4. HaltedAt(D, S, ks, l + 1, F)
    BY <1>9, <1>10, <2>2, <2>3 DEF HaltedAt, s
  <2> QED BY <1>1, <1>13, <2>4 DEF LoopLaid, F
<1> QED BY <1>12, <1>13

LEMMA ConfigStepLaid ==
    ASSUME NEW D, IsConfig(D), NEW S, NEW ks \in Seq(Key), \A i, j \in DOMAIN ks : i # j => ks[i] # ks[j],
           NEW l \in 0 .. Len(ks) - 1, NEW r, IsConfig(r.node), LoopLaid(D, S, ks, l, r),
           NEW k, k = ks[l + 1], NEW how, GoodNode(S.c.m[k], how)
    PROVE  LoopLaid(D, S, ks, l + 1, ConfigStep(r, S, k, how))
<1> DEFINE w == ConfigStep(r, S, k, how)
           s == S.c.m[k]
<1>1. CASE r.ends # "returned"
  <2>1. w = r
    BY <1>1 DEF ConfigStep
  <2>2. PICK at \in 1 .. l : HaltedAt(D, S, ks, at, r.node)
    BY <1>1 DEF LoopLaid
  <2>3. at \in 1 .. l + 1
    OBVIOUS
  <2>4. LoopLaid(D, S, ks, l + 1, r)
    BY <1>1, <2>2, <2>3 DEF LoopLaid
  <2> QED BY <2>1, <2>4
<1>2. CASE r.ends = "returned"
  <2>1. w = MergeKey(r.node, NoFlags, k, s, how) /\ LaidUpto(D, S, ks, l, r.node)
    BY <1>2 DEF ConfigStep, LoopLaid
  <2>2. k \in Key /\ GoodNode(s, how)
    BY UptoNext
  <2> HIDE DEF w, s
  <2>3. KeyMerged(r.node, NoFlags, k, s, how.allows, w.node) /\ RoundLaid(r.node, k, s, w)
    BY <2>1, <2>2, MergeKeyIs, MergeKeyLaid
  <2>4. LoopLaid(D, S, ks, l + 1, w)
    BY <2>1, <2>3, LaidStep DEF s
  <2> QED BY <2>4 DEF w
<1> QED BY <1>1, <1>2

\* What is merged key by key, in which order.
LEMMA MapMergeLaid ==
    ASSUME NEW D, IsConfig(D), NEW S, NEW how, GoodSource(S, how)
    PROVE  \E r : /\ MapMerge(D, S, how) = LoopEnd(r, S) /\ IsOutcome(r) /\ IsConfig(r.node)
                  /\ LoopLaid(D, S, KeysIn(S, how), Len(KeysIn(S, how)), r)
<1> DEFINE ks == KeysIn(S, how)
           n == Len(ks)
           in == Inside(S, how)
<1>1. /\ ks \in Seq(Key)
      /\ \A i \in DOMAIN ks : Has(S, ks[i])
      /\ \A i, j \in DOMAIN ks : i # j => ks[i] # ks[j]
  <2>1. Orderly(S, Key, how) /\ IsFiniteSet(Key)
    BY MergeAssumption DEF MergeAssumption, GoodSource
  <2> QED BY <2>1, KeysInAre
<1>2. LoopStart(D, S, how) = Returns(D) /\ Returns(D) \in ConfigLoop
  <2>1. Is(D, "map")
    BY DEF IsConfig
  <2>2. LoopStart(D, S, how) = Returns(D)
    BY <2>1 DEF LoopStart, Is
  <2> QED BY <2>2, OutcomeIs, InConfigLoop DEF Ends
<1>3. PICK d : ConfigRounds(d, D, S, how)
  BY <1>2, ConfigRoundsAre
<1> HIDE DEF ks
<1>5. n \in Nat /\ DOMAIN ks = 1 .. n
  BY <1>1
<1>4. /\ \A i \in 0 .. n : IsConfig(d[i].node) /\ IsOutcome(d[i])
      /\ d[0] = Returns(D)
      /\ \A i \in 0 .. n - 1 : d[i + 1] = ConfigStep(d[i], S, ks[i + 1], in)
      /\ MapMerge(D, S, how) = LoopEnd(d[n], S)
  BY <1>2, <1>3, <1>5 DEF ConfigRounds, ks, ConfigLoop, IsOutcome, Outcome
<1> DEFINE In(i) == LoopLaid(D, S, ks, i, d[i])
           I == {i \in 0 .. n : In(i)}
<1>6. 0 \in I
  <2>1. \A j \in Key : KeptAt(D, D, j)
    BY DEF KeptAt
  <2>2. LaidUpto(D, S, ks, 0, D)
    BY <2>1 DEF LaidUpto
  <2>3. LoopLaid(D, S, ks, 0, Returns(D))
    BY <2>2, OutcomeIs DEF LoopLaid
  <2>4. In(0)
    BY <1>4, <2>3
  <2> HIDE DEF In
  <2> QED BY <1>5, <2>4
<1>7. ASSUME NEW i \in 0 .. n - 1, i \in I PROVE i + 1 \in I
  <2> DEFINE k == ks[i + 1]
  <2>1. i + 1 \in DOMAIN ks /\ i \in 0 .. n
    BY <1>5
  <2>2. GoodNode(S.c.m[k], in)
    BY <1>1, <2>1 DEF GoodSource, Has
  <2>3. d[i + 1] = ConfigStep(d[i], S, k, in)
    BY <1>4
  <2>4. LoopLaid(D, S, ks, i, d[i]) /\ IsConfig(d[i].node)
    BY <1>4, <1>7, <2>1
  <2>5. k = ks[i + 1]
    OBVIOUS
  <2> HIDE DEF k, in
  <2>6. LoopLaid(D, S, ks, i + 1, ConfigStep(d[i], S, k, in))
    BY <1>1, <2>2, <2>4, <2>5, ConfigStepLaid
  <2>7. In(i + 1)
    BY <2>3, <2>6
  <2> QED BY <1>5, <2>7
<1>8. In(n)
  <2>1. \A i \in 0 .. n : i \in I
    <3> HIDE DEF I, n
    <3> QED BY <1>5, <1>6, <1>7, InductionTo
  <2> QED BY <1>5, <2>1
<1>9. IsConfig(d[n].node) /\ IsOutcome(d[n])
  BY <1>4, <1>5
<1> QED BY <1>4, <1>8, <1>9 DEF ks
-----------------------------------------------------------------------------
(* Merges of whole configs.                                                  *)

\* It is said of content alone.
LEMMA LoopLaidSame ==
    ASSUME NEW C, NEW D, C.c.m = D.c.m, NEW q, NEW r, q.ends = r.ends, q.node.c.m = r.node.c.m,
           NEW S, NEW ks, NEW l, LoopLaid(D, S, ks, l, r)
    PROVE  LoopLaid(C, S, ks, l, q)
<1> DEFINE E == r.node
           F == q.node
<1>1. E.c.m = F.c.m
  OBVIOUS
<1> HIDE DEF E, F
<1>2. \A j : KeptAt(D, E, j) => KeptAt(C, F, j)
  BY <1>1 DEF KeptAt, Has
<1>3. \A V : Mix(D, E, V) = Mix(C, F, V)
  BY <1>1 DEF Mix
<1>4. \A M, k, s : /\ LaidAt(M, k, s, E) => LaidAt(M, k, s, F)
                   /\ StoppedAt(M, k, s, E) => StoppedAt(M, k, s, F)
  BY <1>1 DEF LaidAt, StoppedAt, KeptAt, Has
<1>5. LaidUpto(D, S, ks, l, E) => LaidUpto(C, S, ks, l, F)
  BY <1>2, <1>3, <1>4 DEF LaidUpto
<1>6. \A at : HaltedAt(D, S, ks, at, E) => HaltedAt(C, S, ks, at, F)
  BY <1>2, <1>3, <1>4 DEF HaltedAt
<1> QED BY <1>5, <1>6 DEF LoopLaid, E, F

LEMMA MergeRootLaid ==
    ASSUME NEW D, IsConfig(D), NEW S, NEW allows, NEW order, NEW how,
           how = [allows |-> allows, order |-> order, source |-> NoFlags], GoodSource(S, how),
           NEW r, r = MergeRoot(D, S, allows, order)
    PROVE  LoopLaid(D, S, KeysIn(S, how), Len(KeysIn(S, how)), r)
<1> DEFINE T == Opened(D, NoFlags, how)
           m == MapMerge(T, S, how)
           ks == KeysIn(S, how)
<1>0. how.allows = allows /\ r = Restore(m, D, NoFlags, how)
  BY DEF MergeRoot
<1>1. IsNest(T, Key) /\ SameBut(D, T)
  <2>1. IsNest(D, Key)
    BY ConfigIs
  <2> QED BY <1>0, <2>1, OpenedIs
<1> HIDE DEF T, ks
<1>2. IsConfig(T) /\ T.c = D.c
  BY <1>1, SameConfig DEF SameBut
<1>3. PICK o : /\ m = LoopEnd(o, S) /\ IsOutcome(o) /\ IsConfig(o.node)
               /\ LoopLaid(T, S, ks, Len(ks), o)
  BY <1>0, <1>2, MapMergeLaid DEF ks
<1> HIDE DEF m
<1> DEFINE E == o.node
           F == m.node
           G == r.node
<1>4. IsOutcome(m) /\ IsNest(F, Key) /\ F.c = E.c /\ m.ends = o.ends
  <2>1. CASE o.ends = "returned"
    <3>1. m = Returns(TakeFlags(E, S))
      BY <1>3, <2>1 DEF LoopEnd
    <3>2. IsNest(E, Key) /\ S.ro \in Flag /\ S.st \in Flag
      BY <1>3, ConfigIs DEF GoodSource
    <3>3. IsNest(TakeFlags(E, S), Key) /\ SameBut(E, TakeFlags(E, S))
      <4> HIDE DEF E
      <4> QED BY <3>2, TakeFlagsIs
    <3> HIDE DEF E
    <3> QED BY <2>1, <3>1, <3>3, OutcomeIs DEF SameBut
  <2>2. CASE o.ends # "returned"
    <3>1. m = o
      BY <1>3, <2>2 DEF LoopEnd
    <3> QED BY <1>3, <3>1, ConfigIs
  <2> QED BY <2>1, <2>2
<1>5. SameBut(F, G) /\ r.ends = m.ends
  <2> DEFINE w == Restore(m, D, NoFlags, how)
  <2>0. IsOutcome(m) /\ IsNest(m.node, Key) /\ D.ro \in Flag
    BY <1>4, ConfigIs
  <2>1. SameBut(m.node, w.node) /\ w.ends = m.ends
    BY <2>0, RestoreIs
  <2> HIDE DEF w
  <2> QED BY <1>0, <2>1 DEF w
<1>6. r.ends = o.ends /\ G.c.m = E.c.m /\ D.c.m = T.c.m
  BY <1>2, <1>4, <1>5 DEF SameBut
<1> QED BY <1>3, <1>6, LoopLaidSame DEF ks

\* What a merge that is called does.
CallLaid(S) ==
    /\ call'.src = S /\ Visited \in Seq(Key)
    /\ \A i, j \in DOMAIN Visited : i # j => Visited[i] # Visited[j]
    /\ \A i \in DOMAIN Visited : Has(S, Visited[i])
    /\ \A k \in DOMAIN S.c.m : \E i \in DOMAIN Visited : Visited[i] = k
    /\ call'.op # "merge" \/ outcome' = "returned" =>
         LoopLaid(cfg, S, Visited, Len(Visited), Outcome(outcome', cfg'))

\* A call that leaves, if it does not begin anew, what a merge of S into D does.
LEMMA CallIs ==
    ASSUME Inv, NEW S \in Sources(cfg.obj), NEW order \in Orders(S), call'.src = S, call'.order = order,
           NEW D, IsConfig(D), D.c = cfg.c, NEW allows, NEW r, r = MergeRoot(D, S, allows, order),
           call'.op # "merge" \/ outcome' = "returned" => outcome' = r.ends /\ cfg'.c = r.node.c
    PROVE  CallLaid(S)
<1> DEFINE how == [allows |-> allows, order |-> order, source |-> NoFlags]
           ks == KeysIn(S, how)
<1>1. IsConfig(S) /\ GoodSource(S, how) /\ how.order = order
  BY SourceIs DEF Inv
<1>2. Is(S, "map") /\ Visited = ks
  BY <1>1 DEF IsConfig, Visited, KeysIn, Is
<1>3. /\ ks \in Seq(Key)
      /\ \A i \in DOMAIN ks : Has(S, ks[i])
      /\ \A i, j \in DOMAIN ks : i # j => ks[i] # ks[j]
      /\ \A k \in DOMAIN S.c.m : \E i \in DOMAIN ks : ks[i] = k
  <2>1. Orderly(S, Key, how) /\ IsFiniteSet(Key)
    BY <1>1, MergeAssumption DEF MergeAssumption, GoodSource
  <2> HIDE DEF how
  <2> QED BY <1>2, <2>1, KeysInAre
<1>4. LoopLaid(D, S, ks, Len(ks), r)
  <2> HIDE DEF how
  <2>1. LoopLaid(D, S, KeysIn(S, how), Len(KeysIn(S, how)), r)
    BY <1>1, MergeRootLaid DEF how
  <2> QED BY <2>1
<1> HIDE DEF ks
<1>5. ASSUME call'.op # "merge" \/ outcome' = "returned"
      PROVE  LoopLaid(cfg, S, ks, Len(ks), Outcome(outcome', cfg'))
  <2> DEFINE q == Outcome(outcome', cfg')
  <2>1. q.ends = r.ends /\ q.node.c.m = r.node.c.m /\ cfg.c.m = D.c.m
    BY <1>5, OutcomeIs
  <2> HIDE DEF q
  <2>2. LoopLaid(cfg, S, ks, Len(ks), q)
    BY <1>4, <2>1, LoopLaidSame
  <2> QED BY <2>2 DEF q
<1> QED BY <1>2, <1>3, <1>5 DEF CallLaid

LEMMA MergeLaid ==
    ASSUME Inv, Next, Merged
    PROVE  \E S : CallLaid(S)
<1>0. PICK S \in Sources(cfg.obj) : \E order \in Orders(S) :
          MergeInPlace(S, order) \/ MergeCopy(S, order) \/ UnsafeMerge(S, order)
  BY DEF Next, Merged, SetRootFlag, SetChildFlag
<1>1. PICK order \in Orders(S) :
          MergeInPlace(S, order) \/ MergeCopy(S, order) \/ UnsafeMerge(S, order)
  BY <1>0
<1>2. IsConfig(cfg)
  BY DEF Inv
<1>3. CASE MergeInPlace(S, order)
  <2> DEFINE r == MergeRoot(cfg, S, FALSE, order)
  <2>1. cfg' = r.node /\ outcome' = r.ends /\ call'.src = S /\ call'.order = order
    BY <1>3 DEF MergeInPlace
  <2> HIDE DEF r
  <2> QED BY <1>2, <2>1, CallIs DEF r
<1>4. CASE MergeCopy(S, order)
  <2> DEFINE r == MergeRoot(cfg, S, TRUE, order)
  <2>1. /\ outcome' = "returned" => cfg' = r.node
        /\ outcome' = r.ends /\ call'.src = S /\ call'.order = order /\ call'.op = "merge"
    BY <1>4 DEF MergeCopy
  <2> HIDE DEF r
  <2> QED BY <1>2, <2>1, CallIs DEF r
<1>5. CASE UnsafeMerge(S, order)
  <2> DEFINE D == [cfg EXCEPT !.ro = "off"]
             r == MergeRoot(D, S, TRUE, order)
             ro == IF r.ends = "returned" /\ IsReadonly(r.node, NoFlags) THEN "on" ELSE cfg.ro
             E == r.node
             how == [allows |-> TRUE, order |-> order, source |-> NoFlags]
  <2>1. /\ cfg' = [E EXCEPT !.ro = ro] /\ outcome' = r.ends
        /\ call'.src = S /\ call'.order = order
    BY <1>5 DEF UnsafeMerge
  <2>2. "off" \in Flag /\ "on" \in Flag /\ cfg.ro \in Flag
    BY <1>2, ConfigIs DEF Flag
  <2>3. IsConfig(D) /\ D.c = cfg.c
    BY <1>2, <2>2, ConfigRo
  <2>4. GoodSource(S, how)
    BY SourceIs DEF Inv
  <2> HIDE DEF D, r, how
  <2>5. IsConfig(E)
    <3>1. RootMerged(D, S, TRUE, r.node)
      BY <2>3, <2>4, MergeRootIs DEF r, how
    <3> QED BY <3>1 DEF RootMerged
  <2>6. ro \in Flag
    BY <2>2
  <2> HIDE DEF E, ro
  <2>7. cfg'.c = E.c
    BY <2>1, <2>5, <2>6, ConfigRo
  <2> QED BY <2>1, <2>3, <2>7, CallIs DEF r, E
<1> QED BY <1>1, <1>3, <1>4, <1>5

\* The keys before the i-th.
LEMMA BeforeIs ==
    ASSUME Visited \in Seq(Key), \A i, j \in DOMAIN Visited : i # j => Visited[i] # Visited[j],
           NEW i \in DOMAIN Visited
    PROVE  Before(Visited[i]) = Upto(Visited, i - 1) /\ Visited[i] \notin Before(Visited[i])
<1> DEFINE ks == Visited
<1>1. DOMAIN ks = 1 .. Len(ks) /\ Len(ks) \in Nat
  OBVIOUS
<1>2. \A l \in DOMAIN ks : ks[l] = ks[i] => l = i
  OBVIOUS
<1>3. Before(ks[i]) = {j \in Range(ks) : \E a, l \in DOMAIN ks : a < l /\ ks[a] = j /\ ks[l] = ks[i]}
  BY DEF Before
<1> HIDE DEF ks
<1>4. ASSUME NEW j \in Before(ks[i]) PROVE \E a \in 1 .. i - 1 : ks[a] = j
  <2>1. PICK a \in DOMAIN ks, l \in DOMAIN ks : a < l /\ ks[a] = j /\ ks[l] = ks[i]
    BY <1>3
  <2>2. l = i
    BY <1>2, <2>1
  <2>3. a \in 1 .. i - 1
    BY <1>1, <2>1, <2>2 DEF ks
  <2> QED BY <2>1, <2>3
<1>5. ASSUME NEW a \in 1 .. i - 1 PROVE ks[a] \in Before(ks[i])
  <2>1. a \in DOMAIN ks /\ a < i /\ i \in DOMAIN ks
    BY <1>1 DEF ks
  <2>2. ks[a] \in Range(ks)
    BY <2>1 DEF Range
  <2> QED BY <1>3, <2>1, <2>2
<1>6. Before(ks[i]) = Upto(ks, i - 1)
  BY <1>4, <1>5 DEF Upto
<1>7. ks[i] \notin Before(ks[i])
  <2> SUFFICES ASSUME ks[i] \in Before(ks[i]) PROVE FALSE
    OBVIOUS
  <2>1. PICK a \in 1 .. i - 1 : ks[a] = ks[i]
    BY <1>4
  <2>2. a \in DOMAIN ks /\ a # i
    BY <1>1 DEF ks
  <2> QED BY <1>2, <2>1, <2>2
<1> QED BY <1>6, <1>7 DEF ks

\* What the loop has come to at k.
LEMMA AtKey ==
    ASSUME NEW D, IsConfig(D), NEW E, NEW k, k \notin Before(k), NEW V, V = Before(k), NEW S,
           NEW s, s = S.c.m[k]
    PROVE  /\ LaidAt(Mix(D, E, V), k, s, E) => MergedAt(D, S, E, k)
           /\ StoppedAt(Mix(D, E, V), k, s, E) =>
                \/ KeptAt(D, E, k)
                \/ /\ Has(D, k) /\ Has(E, k)
                   /\ \E d \in {Base(D, E, k), D.c.m[k]} : PartlyOver(d, s, E.c.m[k])
<1> DEFINE M == Mix(D, E, V)
           H == Halfway(D, E, k)
           m == [j \in DOMAIN D.c.m \cup V |-> IF j \in V THEN E.c.m[j] ELSE D.c.m[j]]
<1>1. M.c.m = m
  BY DEF Mix
<1>2. H.c.m = m
  <2>1. H = [D EXCEPT !.c = [D.c EXCEPT !.m = m]]
    BY DEF Halfway
  <2>2. "c" \in DOMAIN D /\ "m" \in DOMAIN D.c
    <3>1. IsDict(D, Key) /\ Is(D, "map")
      BY DEF IsConfig
    <3>2. D = [kind |-> "dict", type |-> D.type, opt |-> D.opt, obj |-> D.obj, c |-> D.c,
               ro |-> D.ro, st |-> D.st]
      BY <3>1 DEF IsDict
    <3>3. D.c = [k |-> "map", m |-> [j \in DOMAIN D.c.m |-> D.c.m[j]]]
      BY <3>1 DEF IsDict, Is, Entries, SpecialContent, None, Missing, Interp
    <3> QED BY <3>2, <3>3
  <2> HIDE DEF H, m
  <2> QED BY <2>1, <2>2
<1>3. Has(M, k) <=> Has(D, k)
  BY <1>1 DEF Has
<1>4. Has(D, k) => M.c.m[k] = D.c.m[k]
  BY <1>1 DEF Has
<1>5. M.c.m = H.c.m
  BY <1>1, <1>2
<1>6. Base(D, E, k) = IF Is(D.c.m[k], "interp") /\ RefersToContainer(H, k)
                      THEN StandsFor(D.c.m[k], Target(H, k)) ELSE D.c.m[k]
  BY DEF Base, Refers
<1> HIDE DEF M, H, m
<1>7. Has(D, k) => Base(D, E, k) = BaseIn(M, k)
  <2>1. (RefersToContainer(M, k) <=> RefersToContainer(H, k)) /\ Target(M, k) = Target(H, k)
    BY <1>5, SameBase
  <2> QED BY <1>4, <1>6, <2>1 DEF BaseIn
<1>8. LaidAt(M, k, s, E) => MergedAt(D, S, E, k)
  BY <1>3, <1>4, <1>7 DEF LaidAt, MergedAt
<1>9. StoppedAt(M, k, s, E) =>
        \/ KeptAt(D, E, k)
        \/ /\ Has(D, k) /\ Has(E, k)
           /\ \E d \in {Base(D, E, k), D.c.m[k]} : PartlyOver(d, s, E.c.m[k])
  BY <1>3, <1>4, <1>7 DEF StoppedAt, KeptAt
<1> QED BY <1>8, <1>9 DEF M

-----------------------------------------------------------------------------
(* The theorems.                                                            *)

\* Every step is a merge of a source or sets a flag.
LEMMA StepIs ==
    ASSUME Inv, Next
    PROVE  (\E S : MergeStep(S) /\ IsConfig(S)) \/ FlagStep
<1>1. ASSUME NEW S \in Sources(cfg.obj), NEW order \in Orders(S),
             MergeInPlace(S, order) \/ MergeCopy(S, order) \/ UnsafeMerge(S, order)
      PROVE  MergeStep(S) /\ IsConfig(S)
  <2>1. IsConfig(S)
    BY SourceIs DEF Inv
  <2> QED BY <1>1, <2>1, MergeInPlaceIs, MergeCopyIs, UnsafeMergeIs
<1>2. ASSUME NEW flag \in {"readonly", "struct"}, NEW v \in Settable,
             SetRootFlag(flag, v) \/ \E k \in Key : SetChildFlag(k, flag, v)
      PROVE  FlagStep
  <2>1. v \in Flag
    BY MergeAssumption DEF MergeAssumption
  <2> QED BY <1>2, <2>1, SetRootFlagIs, SetChildFlagIs
<1> QED BY <1>1, <1>2 DEF Next

LEMMA InvHolds == Spec => []Inv
<1>1. Init => Inv
  BY ConfigAssumption DEF Init, Inv, ConfigAssumption
<1>2. Inv /\ [Next]_vars => Inv'
  <2> SUFFICES ASSUME Inv, [Next]_vars PROVE Inv'
    OBVIOUS
  <2>1. CASE Next
    <3>1. ASSUME NEW S, MergeStep(S) PROVE IsConfig(cfg') /\ cfg'.obj = cfg.obj
      BY <3>1 DEF MergeStep, RootMerged
    <3>2. IsConfig(cfg') /\ cfg'.obj = cfg.obj
      BY <2>1, <3>1, StepIs DEF FlagStep
    <3> QED BY <3>2 DEF Inv
  <2>2. CASE UNCHANGED vars
    BY <2>2 DEF Inv, vars
  <2> QED BY <2>1, <2>2
<1> QED BY <1>1, <1>2, PTL DEF Spec

\* Every node of the config conforms to its type in every state: an int field
\* holds an int, a typed list ints, an instance of a class has its fields.
THEOREM NodesAlwaysConform == Spec => []TypeOK
<1>1. Inv => TypeOK
  BY DEF Inv, TypeOK
<1> QED BY <1>1, InvHolds, PTL

\* No merge takes away a typed node or changes its type (_map_merge,
\* _list_merge, _set_item_impl).
THEOREM TypesAlwaysStay == Spec => TypesStay
<1> DEFINE Stays == /\ TypeOK'
                    /\ \A k \in DOMAIN cfg.c.m : cfg.c.m[k].type # "Any" =>
                          /\ Has(cfg', k) /\ cfg'.c.m[k].type = cfg.c.m[k].type
                          /\ cfg'.c.m[k].opt = cfg.c.m[k].opt /\ cfg'.obj = cfg.obj
<1>1. ASSUME Inv, [Next]_vars PROVE [Stays]_vars
  <2>1. CASE Next
    <3>1. ASSUME NEW S, MergeStep(S) PROVE Stays
      <4>1. IsConfig(cfg') /\ cfg'.obj = cfg.obj /\ DOMAIN cfg.c.m \subseteq DOMAIN cfg'.c.m
        BY <3>1 DEF MergeStep, RootMerged
      <4>2. PICK up, allows : \A j \in DOMAIN cfg.c.m :
                /\ ~Has(S, j) => cfg'.c.m[j] = cfg.c.m[j]
                /\ Has(S, j) => NodeKept(cfg.c.m[j], S.c.m[j], up, allows, cfg'.c.m[j])
        BY <3>1 DEF MergeStep, RootMerged
      <4>3. ASSUME NEW k \in DOMAIN cfg.c.m, cfg.c.m[k].type # "Any"
            PROVE  cfg'.c.m[k].type = cfg.c.m[k].type /\ cfg'.c.m[k].opt = cfg.c.m[k].opt
        BY <4>2, <4>3 DEF NodeKept
      <4> QED BY <4>1, <4>3 DEF TypeOK, Has
    <3>2. ASSUME FlagStep PROVE Stays
      BY <3>2 DEF FlagStep, TypeOK, Has
    <3> QED BY <1>1, <2>1, <3>1, <3>2, StepIs
  <2>2. CASE UNCHANGED vars
    BY <2>2
  <2> QED BY <1>1, <2>1, <2>2
<1> QED BY <1>1, InvHolds, PTL DEF Spec, TypesStay

\* Closed dicts get no keys, and merge_with changes no leaf of a readonly dict
\* and adds none (_validate_get, _set_item_impl, _map_merge).
THEOREM FlagsAlwaysObeyed == Spec => FlagsObeyed
<1> DEFINE Shut ==
              /\ Closed(cfg, NoFlags) => DOMAIN cfg'.c.m = DOMAIN cfg.c.m
              /\ \A k \in DOMAIN cfg.c.m :
                   LET d == cfg.c.m[k]
                   IN  Is(d, "map") /\ Closed(d, Flags(cfg, NoFlags)) /\ Is(cfg'.c.m[k], "map")
                           => DOMAIN cfg'.c.m[k].c.m = DOMAIN d.c.m
           Fixed ==
              call'.op = "merge_with" =>
                /\ IsReadonly(cfg, NoFlags) =>
                    /\ DOMAIN cfg'.c.m = DOMAIN cfg.c.m
                    /\ \A k \in DOMAIN cfg.c.m :
                          ~IsContainer(cfg.c.m[k]) => cfg'.c.m[k] = cfg.c.m[k]
                /\ \A k \in DOMAIN cfg.c.m :
                    LET d == cfg.c.m[k]
                    IN  /\ IsContainer(d) /\ Is(d, "map") /\ IsReadonly(d, Flags(cfg, NoFlags))
                        /\ Is(cfg'.c.m[k], "map")
                        => cfg'.c.m[k].c = d.c
<1>1. ASSUME NEW S, MergeStep(S) PROVE Shut /\ Fixed
  <2> DEFINE allows == call'.op # "merge_with"
             here   == Flags(cfg, NoFlags)
  <2>1. Closed(cfg, NoFlags) \/ (~allows /\ IsReadonly(cfg, NoFlags)) => DOMAIN cfg'.c.m = DOMAIN cfg.c.m
    BY <1>1 DEF MergeStep, RootMerged
  <2>2. PICK up : /\ up.st = here.st
                  /\ ~allows => up = here
                  /\ \A j \in DOMAIN cfg.c.m :
                        /\ ~Has(S, j) => cfg'.c.m[j] = cfg.c.m[j]
                        /\ Has(S, j) => NodeKept(cfg.c.m[j], S.c.m[j], up, allows, cfg'.c.m[j])
    BY <1>1 DEF MergeStep, RootMerged
  <2> HIDE DEF allows, here
  <2>3. ASSUME NEW k \in DOMAIN cfg.c.m, Is(cfg.c.m[k], "map"), Is(cfg'.c.m[k], "map"),
               Closed(cfg.c.m[k], here)
        PROVE  DOMAIN cfg'.c.m[k].c.m = DOMAIN cfg.c.m[k].c.m
    <3>1. Closed(cfg.c.m[k], up)
      BY <2>2, <2>3 DEF Closed, Flags
    <3> QED BY <2>2, <2>3, <3>1 DEF NodeKept
  <2>4. ASSUME NEW k \in DOMAIN cfg.c.m, Is(cfg.c.m[k], "map"), Is(cfg'.c.m[k], "map"), ~allows,
               IsReadonly(cfg.c.m[k], here)
        PROVE  cfg'.c.m[k].c = cfg.c.m[k].c
    BY <2>2, <2>4 DEF NodeKept
  <2>5. ASSUME NEW k \in DOMAIN cfg.c.m, ~allows, IsReadonly(cfg, NoFlags), ~IsContainer(cfg.c.m[k])
        PROVE  cfg'.c.m[k] = cfg.c.m[k]
    <3>1. up.ro = "on"
      BY <2>2, <2>5 DEF IsReadonly, here
    <3> QED BY <2>2, <2>5, <3>1 DEF NodeKept
  <2>6. Shut
    <3>1. ASSUME Closed(cfg, NoFlags) PROVE DOMAIN cfg'.c.m = DOMAIN cfg.c.m
      BY <2>1, <3>1
    <3> QED BY <2>3, <3>1 DEF here
  <2>7. Fixed
    <3> SUFFICES ASSUME ~allows PROVE
                 /\ IsReadonly(cfg, NoFlags) =>
                      /\ DOMAIN cfg'.c.m = DOMAIN cfg.c.m
                      /\ \A k \in DOMAIN cfg.c.m :
                            ~IsContainer(cfg.c.m[k]) => cfg'.c.m[k] = cfg.c.m[k]
                 /\ \A k \in DOMAIN cfg.c.m :
                      LET d == cfg.c.m[k]
                      IN  /\ IsContainer(d) /\ Is(d, "map") /\ IsReadonly(d, here)
                          /\ Is(cfg'.c.m[k], "map")
                          => cfg'.c.m[k].c = d.c
      BY DEF allows, here
    <3>1. ASSUME IsReadonly(cfg, NoFlags) PROVE DOMAIN cfg'.c.m = DOMAIN cfg.c.m
      BY <2>1, <3>1
    <3> QED BY <2>4, <2>5, <3>1
  <2> QED BY <2>6, <2>7
<1>2. ASSUME FlagStep PROVE Shut /\ Fixed
  BY <1>2 DEF FlagStep
<1>3. ASSUME Inv, [Next]_vars PROVE [Shut]_vars /\ [Fixed]_vars
  <2> HIDE DEF Shut, Fixed
  <2> QED BY <1>1, <1>2, <1>3, StepIs
<1>4. ASSUME Inv, [Next]_vars PROVE [Shut]_vars
  BY <1>3, <1>4
<1>5. ASSUME Inv, [Next]_vars PROVE [Fixed]_vars
  BY <1>3, <1>5
<1> QED BY <1>4, <1>5, InvHolds, PTL DEF Spec, FlagsObeyed

\* A merge leaves every container with the flags it had or the source's, in
\* whatever way it ends (_merge_with).
THEOREM FlagsAlwaysKept == Spec => FlagsKept
<1> DEFINE Kept ==
      Merged =>
        /\ cfg'.ro \in {cfg.ro, call'.src.ro} /\ cfg'.st \in {cfg.st, call'.src.st}
        /\ \A k \in DOMAIN cfg.c.m :
            LET d == cfg.c.m[k]
                s == call'.src.c.m[k]
                r == cfg'.c.m[k]
            IN  IsContainer(d) /\ ~Is(d, "interp") /\ IsContainer(r) =>
                    \/ r.ro = d.ro /\ r.st = d.st
                    \/ /\ Has(call'.src, k) /\ IsContainer(s)
                       /\ r.ro \in {d.ro, s.ro} /\ r.st \in {d.st, s.st}
<1>1. ASSUME NEW S, MergeStep(S) PROVE Kept
  <2>1. call'.src = S /\ cfg'.ro \in {cfg.ro, S.ro} /\ cfg'.st \in {cfg.st, S.st}
    BY <1>1 DEF MergeStep, RootMerged
  <2>2. PICK up, allows : \A j \in DOMAIN cfg.c.m :
            /\ ~Has(S, j) => cfg'.c.m[j] = cfg.c.m[j]
            /\ Has(S, j) => NodeKept(cfg.c.m[j], S.c.m[j], up, allows, cfg'.c.m[j])
    BY <1>1 DEF MergeStep, RootMerged
  <2>3. ASSUME NEW k \in DOMAIN cfg.c.m, IsContainer(cfg.c.m[k]), ~Is(cfg.c.m[k], "interp"),
               IsContainer(cfg'.c.m[k])
        PROVE  \/ cfg'.c.m[k].ro = cfg.c.m[k].ro /\ cfg'.c.m[k].st = cfg.c.m[k].st
               \/ /\ Has(S, k) /\ IsContainer(S.c.m[k])
                  /\ cfg'.c.m[k].ro \in {cfg.c.m[k].ro, S.c.m[k].ro}
                  /\ cfg'.c.m[k].st \in {cfg.c.m[k].st, S.c.m[k].st}
    BY <2>2, <2>3 DEF NodeKept
  <2> QED BY <2>1, <2>3
<1>2. ASSUME FlagStep PROVE Kept
  BY <1>2 DEF FlagStep, Merged
<1>3. ASSUME Inv, [Next]_vars PROVE [Kept]_vars
  <2> HIDE DEF Kept
  <2> QED BY <1>1, <1>2, <1>3, StepIs
<1> QED BY <1>3, InvHolds, PTL DEF Spec, FlagsKept

\* A merge that returns has laid the source over the config at each of its keys,
\* and at no other (_map_merge, _list_merge).
THEOREM MergesAlwaysOverlay == Spec => MergesOverlay
<1>1. Inv /\ [Next]_vars =>
        [Succeeded => \A k \in Key : IF Has(call'.src, k) THEN MergedAt(cfg, call'.src, cfg', k)
                                     ELSE KeptAt(cfg, cfg', k)]_vars
  <2> SUFFICES ASSUME Inv, Next, Succeeded, NEW k \in Key
               PROVE  IF Has(call'.src, k) THEN MergedAt(cfg, call'.src, cfg', k)
                      ELSE KeptAt(cfg, cfg', k)
    OBVIOUS
  <2>1. PICK S : CallLaid(S)
    BY MergeLaid DEF Succeeded
  <2> DEFINE ks == Visited
  <2>2. LaidUpto(cfg, S, ks, Len(ks), cfg')
    BY <2>1, OutcomeIs DEF CallLaid, Succeeded, LoopLaid
  <2>3. DOMAIN ks = 1 .. Len(ks) /\ Len(ks) \in Nat
    BY <2>1 DEF CallLaid
  <2>4. CASE Has(S, k)
    <3>1. PICK i \in DOMAIN ks : ks[i] = k
      BY <2>1, <2>4 DEF CallLaid, Has
    <3>2. Before(k) = Upto(ks, i - 1) /\ k \notin Before(k)
      BY <2>1, <3>1, BeforeIs DEF CallLaid
    <3>3. LaidAt(Mix(cfg, cfg', Upto(ks, i - 1)), k, S.c.m[k], cfg')
      BY <2>2, <2>3, <3>1 DEF LaidUpto
    <3> HIDE DEF ks
    <3>4. MergedAt(cfg, S, cfg', k)
      BY <3>2, <3>3, AtKey DEF Inv
    <3> QED BY <2>1, <2>4, <3>4 DEF CallLaid
  <2>5. CASE ~Has(S, k)
    <3>1. k \notin Upto(ks, Len(ks))
      BY <2>1, <2>3, <2>5 DEF CallLaid, Upto
    <3>2. KeptAt(cfg, cfg', k)
      BY <2>2, <3>1 DEF LaidUpto
    <3> QED BY <2>1, <2>5, <3>2 DEF CallLaid
  <2> QED BY <2>4, <2>5
<1> QED BY <1>1, InvHolds, PTL DEF Spec, MergesOverlay

\* A merge in place that raises has laid the source over the config at the keys
\* before the one it raised at, has come to no other, and has lost nothing
\* there (_map_merge).
THEOREM MergesFailInOrder == Spec => FailsInOrder
<1>1. Inv /\ [Next]_vars =>
       [Failed /\ call'.op # "merge" =>
        /\ \A k \in Key : ~Has(call'.src, k) => KeptAt(cfg, cfg', k)
        /\ \E at \in DOMAIN Visited : \A i \in DOMAIN Visited :
            LET k == Visited[i]
            IN  IF i > at THEN KeptAt(cfg, cfg', k)
                ELSE IF i < at THEN MergedAt(cfg, call'.src, cfg', k)
                ELSE \/ KeptAt(cfg, cfg', k)
                     \/ /\ Has(cfg, k) /\ Has(cfg', k)
                        /\ \E d \in {Base(cfg, cfg', k), cfg.c.m[k]} :
                              PartlyOver(d, call'.src.c.m[k], cfg'.c.m[k])]_vars
  <2> DEFINE ks == Visited
             Here(k) == \/ KeptAt(cfg, cfg', k)
                        \/ /\ Has(cfg, k) /\ Has(cfg', k)
                           /\ \E d \in {Base(cfg, cfg', k), cfg.c.m[k]} :
                                 PartlyOver(d, call'.src.c.m[k], cfg'.c.m[k])
  <2> SUFFICES ASSUME Inv, Next, Failed, call'.op # "merge"
               PROVE  /\ \A k \in Key : ~Has(call'.src, k) => KeptAt(cfg, cfg', k)
                      /\ \E at \in DOMAIN ks : \A i \in DOMAIN ks :
                           IF i > at THEN KeptAt(cfg, cfg', ks[i])
                           ELSE IF i < at THEN MergedAt(cfg, call'.src, cfg', ks[i])
                           ELSE Here(ks[i])
    OBVIOUS
  <2>1. PICK S : CallLaid(S)
    BY MergeLaid DEF Failed
  <2>2. /\ call'.src = S /\ ks \in Seq(Key) /\ DOMAIN ks = 1 .. Len(ks) /\ Len(ks) \in Nat
        /\ \A i, j \in DOMAIN ks : i # j => ks[i] # ks[j]
        /\ \A i \in DOMAIN ks : Has(S, ks[i]) /\ ks[i] \in Key
    BY <2>1 DEF CallLaid
  <2>3. PICK at \in 1 .. Len(ks) : HaltedAt(cfg, S, ks, at, cfg')
    BY <2>1, OutcomeIs DEF CallLaid, Failed, LoopLaid
  <2>4. ASSUME NEW k \in Key, ~Has(call'.src, k) PROVE KeptAt(cfg, cfg', k)
    <3>1. k \notin Upto(ks, at)
      BY <2>2, <2>4 DEF Upto
    <3> QED BY <2>3, <3>1 DEF HaltedAt
  <2>5. ASSUME NEW i \in DOMAIN ks
        PROVE  IF i > at THEN KeptAt(cfg, cfg', ks[i])
               ELSE IF i < at THEN MergedAt(cfg, call'.src, cfg', ks[i])
               ELSE Here(ks[i])
    <3> DEFINE k == ks[i]
    <3>1. Before(k) = Upto(ks, i - 1) /\ k \notin Before(k)
      BY <2>2, BeforeIs
    <3>2. k = ks[i] /\ k \in Key /\ i \in Nat /\ at \in Nat
      BY <2>2
    <3> HIDE DEF ks, k, Here
    <3>3. CASE i > at
      <4>1. k \notin Upto(ks, at)
        BY <2>2, <3>2, <3>3 DEF Upto
      <4>2. KeptAt(cfg, cfg', k)
        BY <2>3, <3>2, <4>1 DEF HaltedAt
      <4> QED BY <3>2, <3>3, <4>2
    <3>4. CASE i < at
      <4>1. i \in 1 .. at - 1
        BY <2>2, <3>2, <3>4
      <4>2. LaidAt(Mix(cfg, cfg', Upto(ks, i - 1)), k, S.c.m[k], cfg')
        BY <2>3, <3>2, <4>1 DEF HaltedAt
      <4>3. MergedAt(cfg, S, cfg', k)
        BY <3>1, <4>2, AtKey DEF Inv
      <4> QED BY <2>2, <3>2, <3>4, <4>3
    <3>5. CASE i = at
      <4>1. StoppedAt(Mix(cfg, cfg', Upto(ks, i - 1)), k, S.c.m[k], cfg')
        BY <2>3, <3>2, <3>5 DEF HaltedAt
      <4>2. \/ KeptAt(cfg, cfg', k)
            \/ /\ Has(cfg, k) /\ Has(cfg', k)
               /\ \E d \in {Base(cfg, cfg', k), cfg.c.m[k]} : PartlyOver(d, S.c.m[k], cfg'.c.m[k])
        BY <3>1, <4>1, AtKey DEF Inv
      <4>3. Here(k)
        BY <2>2, <4>2 DEF Here
      <4> QED BY <3>2, <3>5, <4>3
    <3> QED BY <3>2, <3>3, <3>4, <3>5
  <2> QED BY <2>2, <2>3, <2>4, <2>5
<1> QED BY <1>1, InvHolds, PTL DEF Spec, FailsInOrder
=============================================================================
