------------------------- MODULE TypedValuesProofs -------------------------
(***************************************************************************)
(* Proofs about TypedValues, for any fields, values, classes and tables.     *)
(*                                                                          *)
(* What a field holds is fixed: setting it once more, as deep as it goes,    *)
(* refuses nothing and changes nothing.  That is the inductive invariant     *)
(* FieldFixed; that what is fixed is of the declared type, and is taken      *)
(* back, follows from it.                                                   *)
(***************************************************************************)
EXTENDS TypedValues, LoopLemmas, FiniteSetTheorems

\* A leaf that is taken as it is.
LeafFixed(t, optional, strict, v) == v # Refused /\ set_leaf(t, optional, strict, v) = v

\* Items that are: configs, and leaves of their types.
ItemsFixed(types, strict, items) ==
    \A k \in DOMAIN items : items[k].py = "config" \/ LeafFixed(types[k], FALSE, strict, items[k])

ContainerFixed(hint, v) ==
    /\ v = Typed(hint.is, hint, v.items) /\ IsItems(v.items)
    /\ hint.is = "list" => IsSequence(v.items)
    /\ ItemsFixed([k \in DOMAIN v.items |-> hint.t], TRUE, v.items)

ObjectFixed(hint, v) ==
    /\ v = Object(v.cls, hint, v.items) /\ IsItems(v.items)
    /\ v.cls \in DOMAIN ClassFields /\ hint.t \in Range(Bases[v.cls])
    /\ DOMAIN v.items = DOMAIN ClassFields[v.cls]
    /\ ItemsFixed(ClassFields[v.cls], FALSE, v.items)

TupleFixed(hint, strict, v) ==
    /\ v = Typed("tuple", hint, v.items) /\ IsSequence(v.items)
    /\ hint.variadic \/ Len(v.items) = Len(hint.types)
    /\ \A i \in DOMAIN v.items : v.items[i] # Missing
    /\ ItemsFixed([i \in DOMAIN v.items |-> _item_type(hint, i)], strict, v.items)

\* What a member of a union holds.
MemberFixed(hint, v) ==
    \/ hint.is = "leaf" /\ ~IsContainer(v) /\ LeafFixed(hint.t, FALSE, TRUE, v)
    \/ hint.is \in {"list", "dict"} /\ ContainerFixed(hint, v)
    \/ hint.is = "class" /\ ObjectFixed(hint, v)
    \/ hint.is = "tuple" /\ TupleFixed(hint, TRUE, v)

\* What a field holds.
ValueFixed(f, v) ==
    \/ v.py \in {"missing", "inter"}
    \/ v = None /\ (f.optional \/ f.hint = LeafHint("Any"))
    \/ f.hint.is = "leaf" /\ ~IsContainer(v) /\ LeafFixed(f.hint.t, f.optional, FALSE, v)
    \/ f.hint.is = "tuple" /\ TupleFixed(f.hint, FALSE, v)
    \/ f.hint.is = "union" /\ \E m \in Range(f.hint.members) :
          /\ MemberFixed(m, v)
          /\ m.is = "class" => select_structured_config_union_member(f.hint, v) = m

FieldFixed == field \in Fields /\ ValueFixed(field, content)

-----------------------------------------------------------------------------
(* Leaves.                                                                  *)

\* What a conversion makes is converted to itself, and is of its type.
LEMMA ConvertSettles ==
    ASSUME NEW t \in LeafTypes, NEW v, v.py \notin {"missing", "inter"}, v # None,
           convert(t, v) # Refused
    PROVE  /\ convert(t, convert(t, v)) = convert(t, v) /\ ~IsContainer(convert(t, v))
           /\ convert(t, v).py \notin {"missing", "inter"} /\ convert(t, v) # None
           /\ LeafConforms(t, convert(t, v))
           /\ t # "Any" => _strict_validate_type(t, convert(t, v)) = convert(t, v)
<1> DEFINE r == convert(t, v)
<1> USE DEF IsContainer, Sequences, Refused, None, V, LeafConforms, _strict_validate_type
<1>1. CASE t = "Any"
  <2>1. convert(t, v) = v /\ ~IsContainer(v)
    BY <1>1 DEF convert, any
  <2> QED BY <1>1, <2>1
<1>2. CASE t = "str"
  <2>1. r = string(v) /\ convert(t, r) = string(r)
    BY <1>2 DEF convert
  <2>2. PICK x : r = [py |-> "str", v |-> x]
    BY <2>1 DEF string
  <2>3. string(r) = r
    BY <2>2 DEF string
  <2> QED BY <1>2, <2>1, <2>2, <2>3
<1>3. CASE t = "int"
  <2>1. r = integer(v) /\ convert(t, r) = integer(r)
    BY <1>3 DEF convert
  <2>2. r = [py |-> "int", v |-> IntOf[v.v]] /\ v.v \in DOMAIN IntOf
    BY <2>1 DEF integer
  <2>3. r.v \in DOMAIN IntOf /\ IntOf[r.v] = r.v
    BY <2>2, TypedAssumption
  <2>4. integer(r) = r
    BY <2>2, <2>3 DEF integer
  <2> QED BY <1>3, <2>1, <2>2, <2>4
<1>4. CASE t = "float"
  <2>1. r = float(v) /\ convert(t, r) = float(r)
    BY <1>4 DEF convert
  <2>2. r = [py |-> "float", v |-> FloatOf[v.v]] /\ v.v \in DOMAIN FloatOf
    BY <2>1 DEF float
  <2>3. r.v \in DOMAIN FloatOf /\ FloatOf[r.v] = r.v
    BY <2>2, TypedAssumption
  <2>4. float(r) = r
    BY <2>2, <2>3 DEF float
  <2> QED BY <1>4, <2>1, <2>2, <2>4
<1>5. CASE t = "bool"
  <2>1. r = boolean(v) /\ convert(t, r) = boolean(r)
    BY <1>5 DEF convert
  <2>2. r.py = "bool"
    BY <2>1 DEF boolean
  <2>3. boolean(r) = r
    BY <2>2 DEF boolean
  <2> QED BY <1>5, <2>1, <2>2, <2>3
<1>6. CASE t = "enum"
  <2>1. r = enum(v) /\ convert(t, r) = enum(r)
    BY <1>6 DEF convert
  <2>2. r.py = "enum"
    BY <2>1 DEF enum
  <2>3. enum(r) = r
    BY <2>2 DEF enum
  <2> QED BY <1>6, <2>1, <2>2, <2>3
<1>7. CASE t = "path"
  <2>1. r = path(v) /\ convert(t, r) = path(r)
    BY <1>7 DEF convert
  <2>2. r = [py |-> "path", v |-> v.v]
    BY <2>1 DEF path
  <2>3. path(r) = r
    BY <2>2 DEF path
  <2> QED BY <1>7, <2>1, <2>2, <2>3
<1>8. CASE t = "bytes"
  <2>1. r = bytes(v) /\ convert(t, r) = bytes(r)
    BY <1>8 DEF convert
  <2>2. r = v /\ v.py = "bytes"
    BY <2>1 DEF bytes
  <2> QED BY <1>8, <2>1, <2>2
<1>9. CASE t = "literal"
  <2>1. r = literal(v) /\ convert(t, r) = literal(r)
    BY <1>9 DEF convert
  <2>2. r = v /\ v \in Literals
    BY <2>1 DEF literal
  <2>3. ~IsContainer(v)
    BY <2>2, TypedAssumption
  <2> QED BY <1>9, <2>1, <2>2, <2>3
<1> QED BY <1>1, <1>2, <1>3, <1>4, <1>5, <1>6, <1>7, <1>8, <1>9 DEF LeafTypes

\* What a value node stores it would take back; where nothing is converted it is
\* what it was given.
LEMMA LeafSettles ==
    ASSUME NEW t \in LeafTypes, NEW optional \in BOOLEAN, NEW strict \in BOOLEAN, NEW v,
           set_leaf(t, optional, strict, v) # Refused
    PROVE  /\ LeafFixed(t, optional, strict, set_leaf(t, optional, strict, v))
           /\ ~IsContainer(set_leaf(t, optional, strict, v))
           /\ strict => set_leaf(t, optional, strict, v) = v
<1> DEFINE r == set_leaf(t, optional, strict, v)
<1>1. CASE v.py \in {"missing", "inter"} \/ v = None
  <2>1. r = v
    BY <1>1 DEF set_leaf
  <2> QED BY <1>1, <2>1 DEF IsContainer, Sequences, None, V, LeafFixed
<1>2. CASE ~(v.py \in {"missing", "inter"} \/ v = None) /\ strict
  <2>1. r = v /\ (t = v.py \/ (t = "literal" /\ v \in Literals))
    BY <1>2 DEF set_leaf, _strict_validate_type
  <2>2. ~IsContainer(v)
    BY <2>1, TypedAssumption DEF IsContainer, Sequences, LeafTypes
  <2> QED BY <1>2, <2>1, <2>2 DEF LeafFixed
<1>3. CASE ~(v.py \in {"missing", "inter"} \/ v = None) /\ ~strict
  <2>1. r = convert(t, v)
    BY <1>3 DEF set_leaf
  <2>2. /\ convert(t, r) = r /\ ~IsContainer(r)
        /\ r.py \notin {"missing", "inter"} /\ r # None
    BY <1>3, <2>1, ConvertSettles
  <2>3. set_leaf(t, optional, strict, r) = convert(t, r)
    BY <1>3, <2>2 DEF set_leaf
  <2> QED BY <1>3, <2>1, <2>2, <2>3 DEF LeafFixed
<1> QED BY <1>1, <1>2, <1>3

\* Missing is stored for Missing only.
LEMMA LeafNotMissing ==
    ASSUME NEW t \in LeafTypes, NEW optional, NEW strict, NEW v, v # Missing
    PROVE  set_leaf(t, optional, strict, v) # Missing
<1>1. CASE v.py \in {"missing", "inter"} \/ v = None
  BY <1>1 DEF set_leaf, Missing, Refused, V
<1>2. CASE ~(v.py \in {"missing", "inter"} \/ v = None) /\ strict
  BY <1>2 DEF set_leaf, _strict_validate_type, Refused, Missing, V
<1>3. CASE ~(v.py \in {"missing", "inter"} \/ v = None) /\ ~strict
  <2>1. set_leaf(t, optional, strict, v) = convert(t, v)
    BY <1>3 DEF set_leaf
  <2>2. CASE convert(t, v) = Refused
    BY <2>1, <2>2 DEF Refused, Missing, V
  <2>3. CASE convert(t, v) # Refused
    <3>1. convert(t, v).py \notin {"missing", "inter"}
      BY <1>3, <2>3, ConvertSettles
    <3> QED BY <2>1, <3>1 DEF Missing, V
  <2> QED BY <2>2, <2>3
<1> QED BY <1>1, <1>2, <1>3

\* What is fixed as a leaf is of its type, or None where that is allowed.
LEMMA LeafConformsIfFixed ==
    ASSUME NEW t \in LeafTypes, NEW optional \in BOOLEAN, NEW strict \in BOOLEAN, NEW v,
           LeafFixed(t, optional, strict, v)
    PROVE  LeafConforms(t, v) \/ (v = None /\ optional)
<1>1. CASE v.py \in {"missing", "inter"}
  BY <1>1 DEF LeafConforms
<1>2. CASE v.py \notin {"missing", "inter"} /\ v = None
  BY <1>2 DEF LeafFixed, set_leaf, LeafConforms, IsContainer, Sequences, None, V
<1>3. CASE v.py \notin {"missing", "inter"} /\ v # None /\ strict
  BY <1>3 DEF LeafFixed, set_leaf, _strict_validate_type, LeafConforms
<1>4. CASE v.py \notin {"missing", "inter"} /\ v # None /\ ~strict
  <2>1. convert(t, v) = v /\ convert(t, v) # Refused
    BY <1>4 DEF LeafFixed, set_leaf
  <2>2. LeafConforms(t, convert(t, v))
    BY <1>4, <2>1, ConvertSettles
  <2> QED BY <2>1, <2>2
<1> QED BY <1>1, <1>2, <1>3, <1>4

\* What a conversion made is also taken where nothing is converted.
LEMMA SettledIsExact ==
    ASSUME NEW t \in LeafTypes, t # "Any", NEW v, LeafFixed(t, FALSE, FALSE, v)
    PROVE  LeafFixed(t, FALSE, TRUE, v)
<1>1. CASE v.py \in {"missing", "inter"}
  BY <1>1 DEF LeafFixed, set_leaf
<1>2. CASE v.py \notin {"missing", "inter"}
  <2>1. v # None
    BY <1>2 DEF LeafFixed, set_leaf, None, V, Refused
  <2>2. convert(t, v) = v /\ convert(t, v) # Refused
    BY <1>2, <2>1 DEF LeafFixed, set_leaf
  <2>3. _strict_validate_type(t, v) = v
    BY <1>2, <2>1, <2>2, ConvertSettles
  <2> QED BY <1>2, <2>1, <2>3 DEF LeafFixed, set_leaf
<1> QED BY <1>1, <1>2

-----------------------------------------------------------------------------
(* Items.                                                                   *)

LEMMA LenOfFunction ==
    ASSUME NEW n \in Nat, NEW s, s = [k \in 1..n |-> s[k]]
    PROVE  Len(s) = n
<1> DEFINE S == {s[k] : k \in 1..n}
<1>1. \A k \in 1..n : s[k] \in S
  OBVIOUS
<1> HIDE DEF S
<1>2. s \in [1..n -> S]
  BY <1>1
<1>3. s \in Seq(S)
  BY <1>2, IsASeq
<1>4. DOMAIN s = 1..n /\ DOMAIN s = 1..Len(s) /\ Len(s) \in Nat
  BY <1>2, <1>3, LenProperties
<1> QED BY <1>4

LEMMA SetItemsSettles ==
    ASSUME NEW items, NEW types, \A k \in DOMAIN items : types[k] \in LeafTypes,
           NEW strict \in BOOLEAN,
           \A k \in DOMAIN items : SetItems(types, strict, items)[k] # Refused
    PROVE  /\ DOMAIN SetItems(types, strict, items) = DOMAIN items
           /\ IsItems(SetItems(types, strict, items))
           /\ ItemsFixed(types, strict, SetItems(types, strict, items))
           /\ strict /\ IsItems(items) => SetItems(types, strict, items) = items
           /\ IsSequence(items) => IsSequence(SetItems(types, strict, items))
<1> DEFINE set == SetItems(types, strict, items)
<1>1. /\ DOMAIN set = DOMAIN items /\ set = [k \in DOMAIN items |-> set[k]]
      /\ \A k \in DOMAIN items :
            IF items[k].py = "config" THEN set[k] = items[k]
            ELSE set[k] = set_leaf(types[k], FALSE, strict, items[k])
  BY DEF SetItems
<1> HIDE DEF set
<1>2. \A k \in DOMAIN items : set[k] # Refused
  BY DEF set
<1>3. ASSUME NEW k \in DOMAIN items
      PROVE  /\ set[k].py = "config" \/ LeafFixed(types[k], FALSE, strict, set[k])
             /\ strict => set[k] = items[k]
  <2>1. CASE items[k].py = "config"
    BY <1>1, <2>1
  <2>2. CASE items[k].py # "config"
    <3>1. set[k] = set_leaf(types[k], FALSE, strict, items[k]) /\ types[k] \in LeafTypes
      BY <1>1, <2>2
    <3>2. set_leaf(types[k], FALSE, strict, items[k]) # Refused
      BY <1>2, <3>1
    <3>3. /\ LeafFixed(types[k], FALSE, strict, set_leaf(types[k], FALSE, strict, items[k]))
          /\ strict => set_leaf(types[k], FALSE, strict, items[k]) = items[k]
      BY <3>1, <3>2, LeafSettles
    <3> QED BY <3>1, <3>3
  <2> QED BY <2>1, <2>2
<1>4. IsItems(set)
  BY <1>1 DEF IsItems
<1>5. ItemsFixed(types, strict, set)
  BY <1>1, <1>3 DEF ItemsFixed
<1>6. strict /\ IsItems(items) => set = items
  BY <1>1, <1>3 DEF IsItems
<1>7. IsSequence(items) => IsSequence(set)
  BY <1>1, <1>4, LenOfFunction DEF IsSequence
<1> QED BY <1>1, <1>4, <1>5, <1>6, <1>7 DEF set

\* Fixed items are set to themselves.
LEMMA SetItemsFixed ==
    ASSUME NEW items, NEW types, NEW strict, IsItems(items), ItemsFixed(types, strict, items)
    PROVE  /\ SetItems(types, strict, items) = items
           /\ \A k \in DOMAIN items : items[k] # Refused
<1>1. ASSUME NEW k \in DOMAIN items
      PROVE  SetItems(types, strict, items)[k] = items[k] /\ items[k] # Refused
  <2>1. SetItems(types, strict, items)[k] =
            IF items[k].py = "config" THEN items[k] ELSE set_leaf(types[k], FALSE, strict, items[k])
    BY DEF SetItems
  <2>2. CASE items[k].py = "config"
    BY <2>1, <2>2 DEF Refused, V
  <2>3. CASE items[k].py # "config"
    <3>1. LeafFixed(types[k], FALSE, strict, items[k])
      BY <2>3 DEF ItemsFixed
    <3> QED BY <2>1, <2>3, <3>1 DEF LeafFixed
  <2> QED BY <2>2, <2>3
<1>2. SetItems(types, strict, items) = [k \in DOMAIN items |-> SetItems(types, strict, items)[k]]
  BY DEF SetItems
<1> QED BY <1>1, <1>2 DEF IsItems

\* ... and conform to the types.
LEMMA FixedItemsConform ==
    ASSUME NEW items, NEW types, \A k \in DOMAIN items : types[k] \in LeafTypes,
           NEW strict \in BOOLEAN, ItemsFixed(types, strict, items)
    PROVE  ItemsConform(types, items)
<1> SUFFICES ASSUME NEW k \in DOMAIN items PROVE LeafConforms(types[k], items[k])
  BY DEF ItemsConform
<1>1. CASE items[k].py = "config"
  BY <1>1 DEF LeafConforms
<1>2. CASE LeafFixed(types[k], FALSE, strict, items[k])
  BY <1>2, LeafConformsIfFixed
<1> QED BY <1>1, <1>2 DEF ItemsFixed

-----------------------------------------------------------------------------
(* Containers.                                                              *)

LEMMA MemberShape ==
    ASSUME NEW m, IsMember(m)
    PROVE  /\ m.is \in {"leaf", "list", "dict", "class", "tuple"}
           /\ m.is \in {"leaf", "list", "dict"}
                => m.t \in LeafTypes /\ m.t # "Any" /\ m = [is |-> m.is, t |-> m.t]
           /\ m.is = "class" => m.t \in DOMAIN ClassFields /\ m = ClassHint(m.t)
           /\ m.is = "tuple" => IsTuple(m, LeafTypes \ {"Any"})
<1> USE DEF LeafHint, ListHint, DictHint, ClassHint
<1>1. CASE \E t \in LeafTypes \ {"Any"} : m \in {LeafHint(t), ListHint(t), DictHint(t)}
  BY <1>1
<1>2. CASE \E c \in DOMAIN ClassFields : m = ClassHint(c)
  BY <1>2
<1>3. CASE m.is = "tuple" /\ IsTuple(m, LeafTypes \ {"Any"})
  BY <1>3
<1> QED BY <1>1, <1>2, <1>3 DEF IsMember

LEMMA ClassShape ==
    ASSUME NEW c \in DOMAIN ClassFields
    PROVE  /\ \A k \in DOMAIN ClassFields[c] : ClassFields[c][k] \in LeafTypes
           /\ c \in Range(Bases[c]) /\ Bases[c] \in Seq(Range(Bases[c]))
           /\ DOMAIN Bases[c] \in SUBSET (Nat \ {0}) /\ 1 \in DOMAIN Bases[c] /\ Bases[c][1] = c
<1>1. /\ \A k \in DOMAIN ClassFields[c] : ClassFields[c][k] \in LeafTypes
      /\ Bases[c] \in Seq(Range(Bases[c])) /\ Bases[c] # <<>> /\ Bases[c][1] = c
  BY TypedAssumption
<1> DEFINE mro == Bases[c]
           S == Range(mro)
<1>2. mro \in Seq(S) /\ mro # <<>>
  BY <1>1
<1> HIDE DEF mro, S
<1>3. DOMAIN mro = 1..Len(mro) /\ Len(mro) \in Nat /\ Len(mro) # 0
  BY <1>2, EmptySeq
<1>4. DOMAIN mro \in SUBSET (Nat \ {0}) /\ 1 \in DOMAIN mro
  BY <1>3
<1>5. Bases[c][1] \in Range(Bases[c])
  BY <1>4 DEF mro, Range
<1> QED BY <1>1, <1>4, <1>5 DEF mro

\* A list or dict made of a value.
ContainerSettled(hint, strict, v, r) ==
    /\ ContainerFixed(hint, r) /\ r.hint = hint
    /\ strict => r.items = v.items

LEMMA SetContainerSettles ==
    ASSUME NEW hint, IsMember(hint), hint.is \in {"list", "dict"}, NEW strict \in BOOLEAN,
           NEW v, IsContainer(v) => IsConfig(v), SetTyped(hint, strict, v) # Refused
    PROVE  ContainerSettled(hint, strict, v, SetTyped(hint, strict, v))
<1> DEFINE types == [k \in DOMAIN v.items |-> hint.t]
           set == SetItems(types, strict, v.items)
<1>1. hint.t \in LeafTypes /\ hint.t # "Any"
  BY MemberShape
<1>2. Elements(hint, v) = types
  BY DEF Elements
<1>3. /\ Holds(hint, v) /\ \A k \in DOMAIN v.items : set[k] # Refused
      /\ SetTyped(hint, strict, v) = Typed(hint.is, hint, set)
  BY <1>2 DEF SetTyped
<1>4. /\ IsContainer(v) /\ (hint.is = "list" => v.py \in Sequences)
      /\ (hint.is = "dict" => v.py = "dict")
  BY <1>3 DEF Holds, IsContainer, Sequences
<1>5. IsItems(v.items) /\ (hint.is = "list" => IsSequence(v.items))
  BY <1>4 DEF IsConfig, IsSequence, Sequences
<1>6. \A k \in DOMAIN v.items : types[k] \in LeafTypes
  BY <1>1
<1>7. /\ DOMAIN set = DOMAIN v.items /\ IsItems(set) /\ ItemsFixed(types, strict, set)
      /\ strict => set = v.items
      /\ hint.is = "list" => IsSequence(set)
  <2> HIDE DEF types
  <2>1. /\ DOMAIN set = DOMAIN v.items /\ IsItems(set) /\ ItemsFixed(types, strict, set)
        /\ strict /\ IsItems(v.items) => set = v.items
        /\ IsSequence(v.items) => IsSequence(set)
    BY <1>3, <1>6, SetItemsSettles
  <2> HIDE DEF set
  <2> QED BY <1>5, <2>1
<1> HIDE DEF set
<1>8. ItemsFixed([k \in DOMAIN set |-> hint.t], TRUE, set)
  <2> SUFFICES ASSUME NEW k \in DOMAIN set, set[k].py # "config"
               PROVE  LeafFixed(hint.t, FALSE, TRUE, set[k])
    BY DEF ItemsFixed
  <2>1. LeafFixed(hint.t, FALSE, strict, set[k])
    BY <1>7 DEF ItemsFixed
  <2> QED BY <1>1, <2>1, SettledIsExact
<1> DEFINE r == SetTyped(hint, strict, v)
<1>9. r = Typed(hint.is, hint, set) /\ r.items = set /\ r.hint = hint
  BY <1>3 DEF Typed
<1> HIDE DEF r
<1>10. ContainerFixed(hint, r)
  BY <1>7, <1>8, <1>9 DEF ContainerFixed
<1> QED BY <1>7, <1>9, <1>10 DEF r, ContainerSettled

\* An object made an instance of a class it has for a base.
ObjectSettled(hint, v, r) == ObjectFixed(hint, r) /\ r.hint = hint /\ r.cls = v.cls

LEMMA SetObjectSettles ==
    ASSUME NEW hint, hint.is = "class", NEW v, IsContainer(v) => IsConfig(v),
           v.py = "object" => hint.t \in Range(Bases[v.cls]),
           SetTyped(hint, FALSE, v) # Refused
    PROVE  ObjectSettled(hint, v, SetTyped(hint, FALSE, v))
<1> DEFINE types == ClassFields[v.cls]
           set == SetItems(types, FALSE, v.items)
<1>1. Elements(hint, v) = types
  BY DEF Elements
<1>2. /\ Holds(hint, v) /\ \A k \in DOMAIN v.items : set[k] # Refused
      /\ SetTyped(hint, FALSE, v) = Object(v.cls, hint, set)
  BY <1>1 DEF SetTyped
<1>3. v.py = "object" /\ IsConfig(v)
  BY <1>2 DEF Holds, IsContainer, Sequences
<1>4. v.cls \in DOMAIN ClassFields /\ DOMAIN v.items = DOMAIN types /\ IsItems(v.items)
  BY <1>3 DEF IsConfig, Sequences
<1>5. \A k \in DOMAIN v.items : types[k] \in LeafTypes
  BY <1>4, ClassShape
<1>6. DOMAIN set = DOMAIN v.items /\ IsItems(set) /\ ItemsFixed(types, FALSE, set)
  <2> HIDE DEF types
  <2> QED BY <1>2, <1>5, SetItemsSettles
<1> HIDE DEF set
<1> DEFINE r == SetTyped(hint, FALSE, v)
<1>7. r = Object(v.cls, hint, set) /\ r.items = set /\ r.hint = hint /\ r.cls = v.cls
  <2>1. r = Object(v.cls, hint, set)
    BY <1>2
  <2> HIDE DEF r
  <2> QED BY <2>1 DEF Object
<1> HIDE DEF r
<1>8. ObjectFixed(hint, r)
  BY <1>3, <1>4, <1>6, <1>7 DEF ObjectFixed
<1> QED BY <1>7, <1>8 DEF r, ObjectSettled

\* Containers that are fixed are set to themselves.
ContainerKept(hint, v) == SetTyped(hint, TRUE, v) = v /\ v # Refused
ObjectKept(hint, v)    == SetTyped(hint, FALSE, v) = v /\ v # Refused

LEMMA FixedContainerIsSet ==
    ASSUME NEW hint, hint.is \in {"list", "dict"}, NEW v, ContainerFixed(hint, v)
    PROVE  ContainerKept(hint, v)
<1> DEFINE types == [k \in DOMAIN v.items |-> hint.t]
<1>1. /\ v = Typed(hint.is, hint, v.items) /\ IsItems(v.items)
      /\ ItemsFixed(types, TRUE, v.items)
  BY DEF ContainerFixed
<1>2. v.py = hint.is
  BY <1>1 DEF Typed
<1>3. Holds(hint, v) /\ Elements(hint, v) = types
  BY <1>2 DEF Holds, Elements, Sequences
<1>4. /\ SetItems(types, TRUE, v.items) = v.items
      /\ \A k \in DOMAIN v.items : v.items[k] # Refused
  <2> HIDE DEF types
  <2> QED BY <1>1, SetItemsFixed
<1>5. SetTyped(hint, TRUE, v) = Typed(hint.is, hint, v.items)
  <2> HIDE DEF types
  <2> QED BY <1>3, <1>4 DEF SetTyped
<1>6. SetTyped(hint, TRUE, v) = v
  BY <1>1, <1>5
<1>7. v # Refused
  BY <1>2 DEF Refused, V
<1> QED BY <1>6, <1>7 DEF ContainerKept

LEMMA FixedObjectIsSet ==
    ASSUME NEW hint, hint.is = "class", NEW v, ObjectFixed(hint, v)
    PROVE  ObjectKept(hint, v)
<1> DEFINE types == ClassFields[v.cls]
<1>1. /\ v = Object(v.cls, hint, v.items) /\ IsItems(v.items)
      /\ ItemsFixed(types, FALSE, v.items)
  BY DEF ObjectFixed
<1>2. v.py = "object"
  BY <1>1 DEF Object
<1>3. Holds(hint, v) /\ Elements(hint, v) = types
  BY <1>2 DEF Holds, Elements, Sequences
<1>4. /\ SetItems(types, FALSE, v.items) = v.items
      /\ \A k \in DOMAIN v.items : v.items[k] # Refused
  <2> HIDE DEF types
  <2> QED BY <1>1, SetItemsFixed
<1>5. SetTyped(hint, FALSE, v) = Object(v.cls, hint, v.items)
  <2> HIDE DEF types
  <2> QED BY <1>3, <1>4 DEF SetTyped
<1>6. SetTyped(hint, FALSE, v) = v
  BY <1>1, <1>5
<1>7. v # Refused
  BY <1>2 DEF Refused, V
<1> QED BY <1>6, <1>7 DEF ObjectKept

\* The type of an item of a tuple, once its number of items is right.
LEMMA ItemTypes ==
    ASSUME NEW hint, NEW S, IsTuple(hint, S), NEW n \in Nat,
           hint.variadic \/ n = Len(hint.types)
    PROVE  \A i \in 1..n : _item_type(hint, i) \in S
<1>1. hint.types \in Seq(S) /\ (hint.variadic => Len(hint.types) = 1)
  BY DEF IsTuple
<1>2. \A i \in 1..Len(hint.types) : hint.types[i] \in S
  BY <1>1
<1> QED BY <1>1, <1>2 DEF _item_type

\* The items of a tuple set one by one, if none is refused.
TupleItemsSettled(hint, strict, items, node) ==
    /\ IsSequence(node) /\ Len(node) = Len(items) /\ SubSeq(node, 1, Len(items)) = node
    /\ \A i \in DOMAIN node : node[i] # Missing
    /\ ItemsFixed([i \in DOMAIN node |-> _item_type(hint, i)], strict, node)
    /\ strict => node = items

LEMMA TupleItemsSettle ==
    ASSUME NEW hint, NEW strict \in BOOLEAN, NEW items, IsSequence(items), NEW node,
           node = [i \in 1..Len(items) |-> TupleItem(hint, i, strict, items[i])],
           \A i \in 1..Len(items) : _item_type(hint, i) \in LeafTypes,
           \A i \in 1..Len(items) : node[i] # Refused
    PROVE  TupleItemsSettled(hint, strict, items, node)
<1> DEFINE n == Len(items)
<1>1. n \in Nat /\ DOMAIN items = 1..n /\ items = [i \in 1..n |-> items[i]]
  BY DEF IsSequence, IsItems
<1>2. node = [i \in 1..n |-> node[i]] /\ DOMAIN node = 1..n
  OBVIOUS
<1>3. Len(node) = n
  BY <1>1, <1>2, LenOfFunction
<1>4. IsSequence(node)
  BY <1>1, <1>2, <1>3 DEF IsSequence, IsItems
<1>5. SubSeq(node, 1, n) = node
  <2> DEFINE S == {node[i] : i \in 1..n}
  <2>1. node \in [1..n -> S]
    BY <1>2
  <2> HIDE DEF S
  <2>2. node \in Seq(S)
    BY <1>1, <2>1, IsASeq
  <2>3. /\ SubSeq(node, 1, n) \in Seq(S) /\ Len(SubSeq(node, 1, n)) = n
        /\ \A i \in 1..n : SubSeq(node, 1, n)[i] = node[i]
    <3> HIDE DEF n
    <3>1. 1 \in 1..Len(node) + 1 /\ n \in (1 - 1)..Len(node)
      BY <1>1, <1>3
    <3>2. /\ SubSeq(node, 1, n) \in Seq(S) /\ Len(SubSeq(node, 1, n)) = n - 1 + 1
          /\ \A i \in 1..n - 1 + 1 : SubSeq(node, 1, n)[i] = node[1 + i - 1]
      BY <2>2, <3>1, SubSeqProperties
    <3> QED BY <1>1, <3>2
  <2> QED BY <1>1, <1>3, <2>2, <2>3, SeqEqual
<1>6. ASSUME NEW i \in 1..n
      PROVE  /\ node[i] # Missing
             /\ node[i].py = "config" \/ LeafFixed(_item_type(hint, i), FALSE, strict, node[i])
             /\ strict => node[i] = items[i]
  <2> DEFINE t == _item_type(hint, i)
  <2>1. node[i] = TupleItem(hint, i, strict, items[i]) /\ node[i] # Refused /\ t \in LeafTypes
    OBVIOUS
  <2>2. items[i] # Missing
    BY <2>1 DEF TupleItem
  <2>3. CASE items[i].py = "config"
    BY <2>1, <2>2, <2>3 DEF TupleItem
  <2>4. CASE items[i].py # "config"
    <3>1. node[i] = set_leaf(t, FALSE, strict, items[i])
      BY <2>1, <2>2, <2>4 DEF TupleItem
    <3>2. set_leaf(t, FALSE, strict, items[i]) # Refused
      BY <2>1, <3>1
    <3> HIDE DEF t
    <3>3. LeafFixed(t, FALSE, strict, node[i]) /\ (strict => node[i] = items[i])
      <4>1. /\ LeafFixed(t, FALSE, strict, set_leaf(t, FALSE, strict, items[i]))
            /\ strict => set_leaf(t, FALSE, strict, items[i]) = items[i]
        BY <2>1, <3>2, LeafSettles
      <4> QED BY <3>1, <4>1
    <3>4. node[i] # Missing
      BY <2>1, <2>2, <3>1, LeafNotMissing
    <3> QED BY <3>3, <3>4 DEF t
  <2> QED BY <2>3, <2>4
<1> HIDE DEF n
<1>7. ItemsFixed([i \in DOMAIN node |-> _item_type(hint, i)], strict, node)
  BY <1>2, <1>6 DEF ItemsFixed
<1>8. strict => node = items
  BY <1>1, <1>2, <1>6
<1> QED BY <1>2, <1>3, <1>4, <1>5, <1>6, <1>7, <1>8 DEF n, TupleItemsSettled

\* A tuple set as a whole: what it stored is fixed, or what was there is kept.
TupleSettled(hint, optional, strict, old, v, r) ==
    /\ r = [content |-> r.content, raised |-> r.raised] /\ r.raised \in BOOLEAN
    /\ r.raised => r.content = old
    /\ ~r.raised =>
         \/ _is_special(v) /\ r.content = v /\ (v # None \/ optional)
         \/ /\ v.py \in Sequences /\ TupleFixed(hint, strict, r.content)
            /\ r.content.hint = hint /\ r.content.py = "tuple"
            /\ strict => r.content.items = v.items

LEMMA SetTupleSettles ==
    ASSUME NEW hint, NEW S \in SUBSET LeafTypes, IsTuple(hint, S), NEW optional \in BOOLEAN,
           NEW strict \in BOOLEAN, NEW old, NEW v, IsContainer(v) => IsConfig(v)
    PROVE  TupleSettled(hint, optional, strict, old, v, SetTuple(hint, optional, strict, old, v))
<1> DEFINE r == SetTuple(hint, optional, strict, old, v)
           impl == TupleImpl(hint, optional, strict, old, v)
           n == Len(v.items)
           node == [i \in 1..n |-> TupleItem(hint, i, strict, v.items[i])]
           bad == {i \in 1..n : node[i] = Refused}
           good == IF bad = {} THEN n ELSE Min(bad) - 1
<1>1. r = [content |-> IF impl.raised THEN old ELSE impl.content, raised |-> impl.raised]
  BY DEF SetTuple
<1> SUFFICES TupleSettled(hint, optional, strict, old, v, r)
  OBVIOUS
<1> HIDE DEF r
<1>3. CASE _is_special(v)
  <2>1. impl = IF v = None /\ ~optional THEN [content |-> old, raised |-> TRUE]
               ELSE [content |-> v, raised |-> FALSE]
    BY <1>3 DEF TupleImpl
  <2> HIDE DEF impl
  <2>2. CASE v = None /\ ~optional
    <3>1. r = [content |-> old, raised |-> TRUE]
      BY <1>1, <2>1, <2>2
    <3> QED BY <3>1 DEF TupleSettled
  <2>3. CASE ~(v = None /\ ~optional)
    <3>1. r = [content |-> v, raised |-> FALSE]
      BY <1>1, <2>1, <2>3
    <3>2. r.content = v /\ r.raised = FALSE
      BY <3>1
    <3> QED BY <1>3, <2>3, <3>1, <3>2 DEF TupleSettled
  <2> QED BY <2>2, <2>3
<1>4. CASE ~_is_special(v) /\ (v.py \notin Sequences \/ (~hint.variadic /\ n # Len(hint.types)))
  <2>1. impl = [content |-> old, raised |-> TRUE]
    BY <1>4 DEF TupleImpl
  <2> HIDE DEF impl
  <2>2. r = [content |-> old, raised |-> TRUE]
    BY <1>1, <2>1
  <2> QED BY <2>2 DEF TupleSettled
<1>5. CASE ~_is_special(v) /\ ~(v.py \notin Sequences \/ (~hint.variadic /\ n # Len(hint.types)))
  <2>1. impl = [content |-> Typed("tuple", hint, SubSeq(node, 1, good)), raised |-> bad # {}]
    BY <1>5 DEF TupleImpl
  <2>2. impl.raised = (bad # {}) /\ impl.content = Typed("tuple", hint, SubSeq(node, 1, good))
    <3> HIDE DEF impl, bad, good, node
    <3> QED BY <2>1
  <2>3. IsSequence(v.items) /\ v.py \in Sequences
    BY <1>5 DEF IsContainer, IsConfig, Sequences
  <2>4. CASE bad # {}
    <3>1. impl.raised = TRUE
      <4> HIDE DEF impl, bad
      <4> QED BY <2>2, <2>4
    <3> HIDE DEF impl
    <3>2. r = [content |-> old, raised |-> TRUE]
      BY <1>1, <3>1
    <3> QED BY <3>2 DEF TupleSettled
  <2>5. CASE bad = {}
    <3>1. \A i \in 1..n : _item_type(hint, i) \in LeafTypes /\ node[i] # Refused
      <4>1. n \in Nat
        BY <2>3 DEF IsSequence
      <4>2. \A i \in 1..n : node[i] # Refused
        BY <2>5
      <4>3. \A i \in 1..n : _item_type(hint, i) \in S
        <5> HIDE DEF n
        <5> QED BY <1>5, <4>1, ItemTypes DEF n
      <4> QED BY <4>2, <4>3
    <3>2. /\ IsSequence(node) /\ Len(node) = n /\ SubSeq(node, 1, n) = node
          /\ \A i \in DOMAIN node : node[i] # Missing
          /\ ItemsFixed([i \in DOMAIN node |-> _item_type(hint, i)], strict, node)
          /\ strict => node = v.items
      <4>1. node = [i \in 1..n |-> TupleItem(hint, i, strict, v.items[i])]
        OBVIOUS
      <4>2. IsSequence(v.items) /\ \A i \in 1..n : _item_type(hint, i) \in LeafTypes
        BY <2>3, <3>1
      <4>3. \A i \in 1..n : node[i] # Refused
        BY <3>1
      <4> HIDE DEF node
      <4>4. TupleItemsSettled(hint, strict, v.items, node)
        BY <4>1, <4>2, <4>3, TupleItemsSettle
      <4> QED BY <4>4 DEF TupleItemsSettled
    <3>3. impl.raised = FALSE /\ impl.content = Typed("tuple", hint, node)
      <4>1. good = n
        BY <2>5
      <4> HIDE DEF impl, bad, good, node
      <4> QED BY <2>2, <2>5, <3>2, <4>1
    <3>4. r = [content |-> Typed("tuple", hint, node), raised |-> FALSE]
      <4> HIDE DEF impl, node
      <4> QED BY <1>1, <3>3
    <3> HIDE DEF node
    <3>5. /\ r.content.items = node /\ r.content.hint = hint /\ r.content.py = "tuple"
          /\ r.content = Typed("tuple", hint, r.content.items) /\ r.raised = FALSE
      BY <3>4 DEF Typed
    <3>6. hint.variadic \/ Len(node) = Len(hint.types)
      <4> HIDE DEF n
      <4> QED BY <1>5, <3>2
    <3>7. TupleFixed(hint, strict, r.content)
      <4> HIDE DEF n
      <4> QED BY <3>2, <3>5, <3>6 DEF TupleFixed
    <3> QED BY <2>3, <3>2, <3>4, <3>5, <3>7 DEF TupleSettled
  <2> QED BY <2>4, <2>5
<1> QED BY <1>3, <1>4, <1>5

TupleKept(v, r) == r = [content |-> v, raised |-> FALSE] /\ v # Refused

LEMMA FixedTupleIsSet ==
    ASSUME NEW hint, NEW S \in SUBSET LeafTypes, IsTuple(hint, S), NEW optional \in BOOLEAN,
           NEW strict \in BOOLEAN, NEW old, NEW v, TupleFixed(hint, strict, v)
    PROVE  TupleKept(v, SetTuple(hint, optional, strict, old, v))
<1> DEFINE impl == TupleImpl(hint, optional, strict, old, v)
           n == Len(v.items)
           node == [i \in 1..n |-> TupleItem(hint, i, strict, v.items[i])]
           bad == {i \in 1..n : node[i] = Refused}
           good == IF bad = {} THEN n ELSE Min(bad) - 1
<1>1. /\ v = Typed("tuple", hint, v.items) /\ IsSequence(v.items)
      /\ hint.variadic \/ n = Len(hint.types)
      /\ \A i \in DOMAIN v.items : v.items[i] # Missing
      /\ ItemsFixed([i \in DOMAIN v.items |-> _item_type(hint, i)], strict, v.items)
  BY DEF TupleFixed
<1>2. v.py = "tuple" /\ ~_is_special(v) /\ v.py \in Sequences /\ v # Refused
  <2>1. v.py = "tuple"
    BY <1>1 DEF Typed
  <2> QED BY <2>1 DEF _is_special, Sequences, Refused, V
<1>3. n \in Nat /\ DOMAIN v.items = 1..n /\ v.items = [i \in 1..n |-> v.items[i]]
  BY <1>1 DEF IsSequence, IsItems
<1>4. impl = [content |-> Typed("tuple", hint, SubSeq(node, 1, good)), raised |-> bad # {}]
  <2>1. ~(v.py \notin Sequences \/ (~hint.variadic /\ n # Len(hint.types)))
    BY <1>1, <1>2
  <2> QED BY <1>2, <2>1 DEF TupleImpl
<1>5. ASSUME NEW i \in 1..n
      PROVE  node[i] = v.items[i] /\ v.items[i] # Refused
  <2>1. v.items[i] # Missing
    BY <1>1, <1>3
  <2>2. v.items[i].py = "config" \/ LeafFixed(_item_type(hint, i), FALSE, strict, v.items[i])
    BY <1>1, <1>3 DEF ItemsFixed
  <2>3. node[i] = TupleItem(hint, i, strict, v.items[i])
    OBVIOUS
  <2> HIDE DEF node
  <2>4. CASE v.items[i].py = "config"
    BY <2>1, <2>3, <2>4 DEF TupleItem, Refused, V
  <2>5. CASE v.items[i].py # "config"
    BY <2>1, <2>2, <2>3, <2>5 DEF TupleItem, LeafFixed
  <2> QED BY <2>4, <2>5
<1>6. node = v.items
  BY <1>3, <1>5
<1>7. bad = {} /\ good = n
  BY <1>5
<1>8. \A i \in 1..n : _item_type(hint, i) \in LeafTypes
  <2>1. \A i \in 1..n : _item_type(hint, i) \in S
    <3> HIDE DEF n
    <3> QED BY <1>1, <1>3, ItemTypes
  <2> QED BY <2>1
<1>9. SubSeq(node, 1, n) = node
  <2>1. node = [i \in 1..n |-> TupleItem(hint, i, strict, v.items[i])]
    OBVIOUS
  <2>2. \A i \in 1..n : node[i] # Refused
    BY <1>5
  <2> HIDE DEF node
  <2>3. TupleItemsSettled(hint, strict, v.items, node)
    BY <1>1, <1>8, <2>1, <2>2, TupleItemsSettle
  <2> QED BY <2>3 DEF TupleItemsSettled
<1>10. impl = [content |-> v, raised |-> FALSE]
  <2> HIDE DEF impl, node, good, bad
  <2> QED BY <1>1, <1>4, <1>6, <1>7, <1>9
<1>11. SetTuple(hint, optional, strict, old, v)
         = [content |-> IF impl.raised THEN old ELSE impl.content, raised |-> impl.raised]
  BY DEF SetTuple
<1> HIDE DEF impl
<1> QED BY <1>2, <1>10, <1>11 DEF TupleKept

-----------------------------------------------------------------------------
(* Unions.                                                                  *)

\* A set of numbers that is not empty has a least one.
LEMMA MinIn ==
    ASSUME NEW s \in SUBSET Nat, s # {}
    PROVE  Min(s) \in s /\ \A y \in s : Min(s) <= y
<1>1. PICK x \in s : \A y \in s : <<y, x>> \notin Below
  BY BelowWellFounded, WFMin
<1>2. \A y \in s : x <= y
  <2> SUFFICES ASSUME NEW y \in s PROVE x <= y
    OBVIOUS
  <2>1. x \in Nat /\ y \in Nat /\ <<y, x>> \notin Below
    BY <1>1
  <2> QED BY <2>1 DEF Below
<1> QED BY <1>2 DEF Min

\* What a member of a union makes of a value.
MemberSettled(m, v, r) ==
    /\ MemberFixed(m, r) /\ m.is # "class"
    /\ ~IsContainer(v) => r = v
    /\ IsContainer(v) => r.hint = m /\ r.py = m.is /\ r.items = v.items

LEMMA SetMemberSettles ==
    ASSUME NEW m, IsMember(m), NEW v, IsContainer(v) => IsConfig(v),
           ~_is_special(v), v.py # "object", SetMember(m, TRUE, v) # Refused
    PROVE  MemberSettled(m, v, SetMember(m, TRUE, v))
<1> DEFINE r == SetMember(m, TRUE, v)
<1>1. CASE m.is = "leaf"
  <2>1. ~IsContainer(v) /\ r = set_leaf(m.t, FALSE, TRUE, v)
    BY <1>1 DEF SetMember
  <2>2. m.t \in LeafTypes
    BY <1>1, MemberShape
  <2>3. /\ LeafFixed(m.t, FALSE, TRUE, set_leaf(m.t, FALSE, TRUE, v))
        /\ set_leaf(m.t, FALSE, TRUE, v) = v
    BY <2>1, <2>2, LeafSettles
  <2> QED BY <1>1, <2>1, <2>3 DEF MemberSettled, MemberFixed
<1>2. CASE m.is \in {"list", "dict"}
  <2>1. r = SetTyped(m, TRUE, v)
    BY <1>2 DEF SetMember
  <2>2. /\ ContainerFixed(m, SetTyped(m, TRUE, v))
        /\ SetTyped(m, TRUE, v).hint = m /\ SetTyped(m, TRUE, v).items = v.items
    <3>1. ContainerSettled(m, TRUE, v, SetTyped(m, TRUE, v))
      BY <1>2, <2>1, SetContainerSettles
    <3> QED BY <3>1 DEF ContainerSettled
  <2>3. SetTyped(m, TRUE, v).py = m.is
    <3> DEFINE s == SetTyped(m, TRUE, v)
    <3>1. s = Typed(m.is, m, s.items)
      BY <2>2 DEF ContainerFixed
    <3> HIDE DEF s
    <3>2. s.py = m.is
      BY <3>1 DEF Typed
    <3> QED BY <3>2 DEF s
  <2>4. IsContainer(v)
    BY <1>2, <2>1 DEF SetTyped, Holds, IsContainer, Sequences
  <2> QED BY <1>2, <2>1, <2>2, <2>3, <2>4 DEF MemberSettled, MemberFixed
<1>3. CASE m.is = "class"
  <2>1. r = SetTyped(m, TRUE, v)
    BY <1>3 DEF SetMember
  <2>2. ~Holds(m, v)
    BY <1>3 DEF Holds
  <2> QED BY <2>1, <2>2 DEF SetTyped
<1>4. CASE m.is = "tuple"
  <2> DEFINE set == SetTuple(m, FALSE, TRUE, Refused, v)
  <2>1. r = set.content
    BY <1>4 DEF SetMember
  <2>2. TupleSettled(m, FALSE, TRUE, Refused, v, set)
    BY <1>4, MemberShape, SetTupleSettles
  <2> HIDE DEF set
  <2>3. ~set.raised
    BY <2>1, <2>2 DEF TupleSettled
  <2>4. /\ v.py \in Sequences /\ TupleFixed(m, TRUE, r) /\ r.hint = m /\ r.py = "tuple"
        /\ r.items = v.items
    BY <2>1, <2>2, <2>3 DEF TupleSettled
  <2> QED BY <1>4, <2>4 DEF MemberSettled, MemberFixed, IsContainer
<1> QED BY <1>1, <1>2, <1>3, <1>4, MemberShape

LEMMA FixedMemberIsSet ==
    ASSUME NEW m, IsMember(m), m.is # "class", NEW v, MemberFixed(m, v)
    PROVE  SetMember(m, TRUE, v) = v /\ v # Refused
<1>1. CASE m.is = "leaf"
  BY <1>1 DEF MemberFixed, SetMember, LeafFixed
<1>2. CASE m.is \in {"list", "dict"}
  <2>1. SetMember(m, TRUE, v) = SetTyped(m, TRUE, v)
    BY <1>2 DEF SetMember
  <2>2. ContainerFixed(m, v)
    BY <1>2 DEF MemberFixed
  <2>3. ContainerKept(m, v)
    BY <1>2, <2>2, FixedContainerIsSet
  <2> QED BY <2>1, <2>3 DEF ContainerKept
<1>3. CASE m.is = "tuple"
  <2>1. IsTuple(m, LeafTypes \ {"Any"}) /\ TupleFixed(m, TRUE, v)
    BY <1>3, MemberShape DEF MemberFixed
  <2>2. TupleKept(v, SetTuple(m, FALSE, TRUE, Refused, v))
    BY <2>1, FixedTupleIsSet
  <2>3. SetMember(m, TRUE, v) = SetTuple(m, FALSE, TRUE, Refused, v).content
    BY <1>3 DEF SetMember
  <2> DEFINE r == SetTuple(m, FALSE, TRUE, Refused, v)
  <2>4. r.content = v
    <3> HIDE DEF r
    <3>1. r = [content |-> v, raised |-> FALSE]
      BY <2>2 DEF r, TupleKept
    <3> QED BY <3>1
  <2> QED BY <2>2, <2>3, <2>4 DEF TupleKept
<1> QED BY <1>1, <1>2, <1>3, MemberShape

\* One candidate takes the value.
TakenBy(members, v, r) == \E m \in members : r = SetMember(m, TRUE, v) /\ r # Refused

LEMMA ContainerValueSettles ==
    ASSUME NEW preferred, NEW others, NEW v, _set_container_value(preferred, others, v) # Refused
    PROVE  TakenBy(preferred \cup others, v, _set_container_value(preferred, others, v))
<1> DEFINE first == find_matches(preferred, v)
           found == IF first = {} THEN find_matches(others, v) ELSE first
<1>1. Cardinality(found) = 1 /\ _set_container_value(preferred, others, v) = CHOOSE n \in found : TRUE
  BY DEF _set_container_value
<1>2. \A n \in find_matches(preferred, v) \cup find_matches(others, v) :
        \E m \in preferred \cup others : n = SetMember(m, TRUE, v) /\ n # Refused
  BY DEF find_matches
<1>3. found \subseteq find_matches(preferred, v) \cup find_matches(others, v)
  OBVIOUS
<1> HIDE DEF found, first
<1>4. found # {}
  BY <1>1, FS_EmptySet
<1>5. _set_container_value(preferred, others, v) \in found
  BY <1>1, <1>4
<1> QED BY <1>2, <1>3, <1>5 DEF TakenBy

\* The member a container is typed with takes it back.
LEMMA FixedIsFound ==
    ASSUME NEW preferred, NEW others, NEW v, v.hint \in preferred,
           SetMember(v.hint, TRUE, v) = v, v # Refused
    PROVE  _set_container_value(preferred, others, v) = v
<1>1. {m \in preferred : m = v.hint} = {v.hint}
  OBVIOUS
<1>2. find_matches(preferred, v) = {v}
  BY <1>1 DEF find_matches
<1>3. Cardinality({v}) = 1
  BY FS_Singleton
<1> QED BY <1>2, <1>3 DEF _set_container_value

LEMMA UnionShape ==
    ASSUME NEW f \in Fields, f.hint.is = "union"
    PROVE  /\ f.optional \in BOOLEAN /\ f.hint = UnionHint(f.hint.members)
           /\ DOMAIN f.hint.members \in SUBSET Nat
           /\ \A i \in DOMAIN f.hint.members : f.hint.members[i] \in Range(f.hint.members)
           /\ \A m \in Range(f.hint.members) : IsMember(m)
<1>1. IsField(f)
  BY TypedAssumption
<1>2. f.optional \in BOOLEAN /\ f.hint = UnionHint(f.hint.members)
      /\ f.hint.members \in Seq({m \in Range(f.hint.members) : IsMember(m)})
  BY <1>1 DEF IsField, LeafHint
<1> DEFINE ms == f.hint.members
           S == {m \in Range(ms) : IsMember(m)}
<1>3. ms \in Seq(S)
  BY <1>2
<1> HIDE DEF S, ms
<1>4. DOMAIN ms = 1..Len(ms) /\ Len(ms) \in Nat /\ \A i \in DOMAIN ms : ms[i] \in S
  BY <1>3
<1>5. \A m \in Range(ms) : m \in S
  BY <1>4 DEF Range
<1>6. \A i \in DOMAIN ms : ms[i] \in Range(ms)
  BY DEF Range
<1>7. \A m \in Range(ms) : IsMember(m)
  BY <1>5 DEF S
<1> QED BY <1>2, <1>4, <1>6, <1>7 DEF ms

\* The member a container in a union is typed with.
LEMMA ActiveMember ==
    ASSUME NEW f \in Fields, f.hint.is = "union", NEW v, ValueFixed(f, v), IsContainer(v)
    PROVE  /\ v.hint \in Range(f.hint.members) /\ IsMember(v.hint) /\ MemberFixed(v.hint, v)
           /\ v.py = IF v.hint.is = "class" THEN "object" ELSE v.hint.is
           /\ v.hint.is \in {"list", "dict", "class", "tuple"}
           /\ v.hint.is = "class" => select_structured_config_union_member(f.hint, v) = v.hint
<1>1. v.py \notin {"missing", "inter"} /\ v # None
  BY DEF IsContainer, Sequences, None, V
<1>2. PICK m \in Range(f.hint.members) :
        /\ MemberFixed(m, v)
        /\ m.is = "class" => select_structured_config_union_member(f.hint, v) = m
  BY <1>1 DEF ValueFixed
<1>3. IsMember(m)
  BY UnionShape
<1>4. m.is # "leaf"
  BY <1>2 DEF MemberFixed
<1>5. CASE m.is \in {"list", "dict"}
  <2>1. v = Typed(m.is, m, v.items)
    BY <1>2, <1>5 DEF MemberFixed, ContainerFixed
  <2>2. v.hint = m /\ v.py = m.is
    BY <1>5, <2>1 DEF Typed
  <2> QED BY <1>2, <1>3, <1>5, <2>2
<1>6. CASE m.is = "class"
  <2>1. v = Object(v.cls, m, v.items)
    BY <1>2, <1>6 DEF MemberFixed, ObjectFixed
  <2>2. v.hint = m /\ v.py = "object"
    BY <1>6, <2>1 DEF Object
  <2> QED BY <1>2, <1>3, <1>6, <2>2
<1>7. CASE m.is = "tuple"
  <2>1. v = Typed("tuple", m, v.items)
    BY <1>2, <1>7 DEF MemberFixed, TupleFixed
  <2>2. v.hint = m /\ v.py = m.is
    BY <1>7, <2>1 DEF Typed
  <2> QED BY <1>2, <1>3, <1>7, <2>2
<1> QED BY <1>3, <1>4, <1>5, <1>6, <1>7, MemberShape

\* The class an object is of, if it is a member, is the one that is selected.
LEMMA OwnClassIsSelected ==
    ASSUME NEW hint, NEW c \in DOMAIN ClassFields, ClassHint(c) \in Range(hint.members),
           NEW v, v.cls = c
    PROVE  select_structured_config_union_member(hint, v) = ClassHint(c)
<1> DEFINE mro == Bases[c]
           found == {i \in DOMAIN mro : ClassHint(mro[i]) \in Range(hint.members)}
<1>1. select_structured_config_union_member(hint, v)
        = IF found = {} THEN NoHint ELSE ClassHint(mro[Min(found)])
  BY DEF select_structured_config_union_member
<1>2. found \in SUBSET Nat /\ 1 \in found /\ mro[1] = c /\ \A i \in found : i \in Nat \ {0}
  BY ClassShape
<1> HIDE DEF found, mro
<1>3. Min(found) \in found /\ Min(found) <= 1
  BY <1>2, MinIn
<1>4. Min(found) = 1
  <2>1. Min(found) \in Nat /\ Min(found) # 0
    BY <1>2, <1>3
  <2> QED BY <1>3, <2>1
<1> QED BY <1>1, <1>2, <1>4

\* A mapping made an instance of a class.
LEMMA FromMappingSettles ==
    ASSUME NEW c \in DOMAIN ClassFields, NEW v, FromMapping(c, v) # Refused
    PROVE  /\ ObjectFixed(ClassHint(c), FromMapping(c, v)) /\ FromMapping(c, v).hint = ClassHint(c)
           /\ FromMapping(c, v).cls = c
<1> DEFINE items == [k \in DOMAIN ClassFields[c] |->
                        IF k \in DOMAIN v.items THEN v.items[k] ELSE Missing]
           o == Object(c, NoHint, items)
           r == SetTyped(ClassHint(c), FALSE, o)
<1>1. FromMapping(c, v) = r
  BY DEF FromMapping
<1>2. DOMAIN items = DOMAIN ClassFields[c] /\ IsItems(items)
  BY DEF IsItems
<1>3. ClassHint(c).is = "class" /\ ClassHint(c).t = c
  BY DEF ClassHint
<1> HIDE DEF items
<1>4. o.py = "object" /\ o.cls = c /\ o.items = items /\ o = Object(o.cls, o.hint, o.items)
  BY DEF Object
<1> HIDE DEF o
<1>5. IsConfig(o)
  BY <1>2, <1>4 DEF IsConfig
<1>6. c \in Range(Bases[o.cls])
  BY <1>4, ClassShape
<1>7. r # Refused
  BY <1>1
<1>8. ObjectFixed(ClassHint(c), r) /\ r.hint = ClassHint(c) /\ r.cls = c
  <2> DEFINE hint == ClassHint(c)
  <2>1. hint.is = "class" /\ hint.t \in Range(Bases[o.cls])
    BY <1>3, <1>6
  <2>2. SetTyped(hint, FALSE, o) # Refused
    BY <1>7
  <2> HIDE DEF hint
  <2>3. ObjectSettled(hint, o, SetTyped(hint, FALSE, o))
    BY <1>5, <2>1, <2>2, SetObjectSettles
  <2> QED BY <1>4, <2>3 DEF ObjectSettled, hint
<1> HIDE DEF r
<1> QED BY <1>1, <1>8

\* What a union stores: what it was given, whole or with its items, where nothing
\* is converted, and what is fixed in any case.
UnionSettled(f, old, v, r) ==
    /\ ValueFixed(f, r)
    /\ ~IsContainer(v) => r = v
    /\ v.py \in Sequences => r.items = v.items
    /\ /\ v.py = "dict" /\ v.hint = NoHint /\ old.py \in {"object", "dict"}
       /\ \E m \in Range(f.hint.members) : m.is = "class"
       => r.hint = old.hint

LEMMA UnionKeepsSpecial ==
    ASSUME NEW f \in Fields, f.hint.is = "union", NEW old, NEW v, _is_special(v),
           v.py = "NoneType" => v = None, UnionImpl(f.hint, f.optional, old, v) # Refused
    PROVE  UnionSettled(f, old, v, UnionImpl(f.hint, f.optional, old, v))
<1> DEFINE r == UnionImpl(f.hint, f.optional, old, v)
<1>1. r = v /\ (v # None \/ f.optional)
  BY DEF UnionImpl
<1>2. ~IsContainer(v) /\ v.py \notin Sequences /\ v.py # "dict"
  BY DEF _is_special, IsContainer, Sequences
<1>3. ValueFixed(f, v)
  BY <1>1 DEF _is_special, ValueFixed
<1> HIDE DEF r
<1> QED BY <1>1, <1>2, <1>3 DEF UnionSettled, r

LEMMA UnionTakesObject ==
    ASSUME NEW f \in Fields, f.hint.is = "union", NEW old, NEW v, v.py = "object", IsConfig(v),
           UnionImpl(f.hint, f.optional, old, v) # Refused
    PROVE  UnionSettled(f, old, v, UnionImpl(f.hint, f.optional, old, v))
<1> DEFINE r == UnionImpl(f.hint, f.optional, old, v)
           mro == Bases[v.cls]
           found == {i \in DOMAIN mro : ClassHint(mro[i]) \in Range(f.hint.members)}
           selected == select_structured_config_union_member(f.hint, v)
<1>1. selected # NoHint /\ r = SetTyped(selected, FALSE, v)
  BY DEF UnionImpl, _is_special
<1>2. selected = IF found = {} THEN NoHint ELSE ClassHint(mro[Min(found)])
  BY DEF select_structured_config_union_member
<1>3. DOMAIN mro \in SUBSET Nat
  <2>1. mro \in Seq(Range(mro))
    BY ClassShape DEF IsConfig, Sequences
  <2> QED BY <2>1
<1> HIDE DEF selected, r
<1>4. found # {} /\ selected = ClassHint(mro[Min(found)])
  BY <1>1, <1>2
<1>5. Min(found) \in found
  <2>1. found \in SUBSET Nat
    BY <1>3
  <2> HIDE DEF found
  <2> QED BY <1>4, <2>1, MinIn
<1>6. /\ selected \in Range(f.hint.members) /\ selected.is = "class"
      /\ selected.t \in Range(Bases[v.cls])
  <2>1. Min(found) \in DOMAIN mro /\ ClassHint(mro[Min(found)]) \in Range(f.hint.members)
    BY <1>5
  <2> HIDE DEF found
  <2> QED BY <1>4, <2>1 DEF ClassHint, Range
<1>7. SetTyped(selected, FALSE, v) # Refused
  BY <1>1 DEF r
<1>8. ObjectFixed(selected, r) /\ r.cls = v.cls
  <2>1. ObjectSettled(selected, v, SetTyped(selected, FALSE, v))
    BY <1>1, <1>6, <1>7, SetObjectSettles
  <2> QED BY <2>1, <1>1 DEF ObjectSettled, r
<1>9. select_structured_config_union_member(f.hint, r) = selected
  BY <1>8 DEF select_structured_config_union_member, selected
<1>10. ValueFixed(f, r)
  BY <1>6, <1>8, <1>9 DEF ValueFixed, MemberFixed
<1> QED BY <1>10 DEF UnionSettled, IsContainer, Sequences, r

LEMMA UnionTakesSequence ==
    ASSUME NEW f \in Fields, f.hint.is = "union", NEW old, NEW v, v.py \in Sequences, IsConfig(v),
           UnionImpl(f.hint, f.optional, old, v) # Refused
    PROVE  UnionSettled(f, old, v, UnionImpl(f.hint, f.optional, old, v))
<1> DEFINE r == UnionImpl(f.hint, f.optional, old, v)
           kinds == Members(f.hint, Sequences)
           same == {m \in kinds : m.is = v.py}
<1>1. v.py \in {"list", "tuple"}
  BY DEF Sequences
<1>2. r = _set_container_value(same, kinds \ same, v)
  BY <1>1 DEF UnionImpl, _is_special
<1>3. \A m \in kinds : m \in Range(f.hint.members) /\ IsMember(m)
  BY UnionShape DEF Members
<1>4. same \cup (kinds \ same) = kinds
  OBVIOUS
<1> HIDE DEF kinds, same
<1>5. PICK m \in kinds : r = SetMember(m, TRUE, v) /\ SetMember(m, TRUE, v) # Refused
  <2>1. r # Refused
    OBVIOUS
  <2> HIDE DEF r
  <2>2. TakenBy(same \cup (kinds \ same), v, r)
    BY <1>2, <2>1, ContainerValueSettles
  <2> QED BY <1>4, <2>2 DEF TakenBy
<1>6. m \in Range(f.hint.members) /\ IsMember(m)
  BY <1>3
<1>7. ~_is_special(v) /\ v.py # "object" /\ IsContainer(v)
  BY <1>1 DEF _is_special, IsContainer, Sequences
<1> HIDE DEF r
<1>8. MemberSettled(m, v, r)
  BY <1>5, <1>6, <1>7, SetMemberSettles
<1>9. MemberFixed(m, r) /\ r.items = v.items /\ m.is # "class"
  BY <1>7, <1>8 DEF MemberSettled
<1>10. ValueFixed(f, r)
  BY <1>6, <1>9 DEF ValueFixed
<1> QED BY <1>1, <1>7, <1>9, <1>10 DEF UnionSettled, r

LEMMA UnionTakesScalar ==
    ASSUME NEW f \in Fields, f.hint.is = "union", NEW old, NEW v, ~IsContainer(v), ~_is_special(v),
           UnionImpl(f.hint, f.optional, old, v) # Refused
    PROVE  UnionSettled(f, old, v, UnionImpl(f.hint, f.optional, old, v))
<1> DEFINE r == UnionImpl(f.hint, f.optional, old, v)
           ms == f.hint.members
           accepts == {i \in DOMAIN ms : SetMember(ms[i], TRUE, v) # Refused}
<1>1. v.py \notin Sequences /\ v.py # "dict" /\ v.py # "object"
  BY DEF IsContainer
<1>2. r = IF accepts = {} THEN Refused ELSE SetMember(ms[Min(accepts)], TRUE, v)
  BY <1>1 DEF UnionImpl
<1>3. Min(accepts) \in accepts
  <2>1. accepts # {} /\ accepts \in SUBSET Nat
    BY <1>2, UnionShape
  <2> HIDE DEF accepts
  <2> QED BY <2>1, MinIn
<1>4. PICK i \in DOMAIN ms : r = SetMember(ms[i], TRUE, v) /\ SetMember(ms[i], TRUE, v) # Refused
  BY <1>2, <1>3
<1>5. ms[i] \in Range(ms) /\ IsMember(ms[i])
  BY UnionShape
<1> HIDE DEF r, accepts
<1>6. MemberSettled(ms[i], v, r)
  BY <1>1, <1>4, <1>5, SetMemberSettles
<1>7. ValueFixed(f, r) /\ r = v
  BY <1>5, <1>6 DEF MemberSettled, ValueFixed
<1> QED BY <1>1, <1>7 DEF UnionSettled, r

LEMMA UnionTakesMapping ==
    ASSUME NEW f \in Fields, f.hint.is = "union", NEW old, ValueFixed(f, old),
           NEW v, v.py = "dict", IsConfig(v), UnionImpl(f.hint, f.optional, old, v) # Refused
    PROVE  UnionSettled(f, old, v, UnionImpl(f.hint, f.optional, old, v))
<1> DEFINE r == UnionImpl(f.hint, f.optional, old, v)
           classes == Members(f.hint, {"class"})
           dicts == Members(f.hint, {"dict"})
           active == IF IsContainer(old) THEN old.hint ELSE NoHint
           toDict == classes = {} \/ (v.hint # NoHint /\ dicts # {})
           only == CHOOSE m \in classes : TRUE
<1>1. r = IF toDict THEN _set_container_value(dicts, {}, v)
          ELSE IF active.is = "class" THEN FromMapping(active.t, v)
          ELSE IF active.is = "dict" THEN SetTyped(active, FALSE, v)
          ELSE IF Cardinality(classes) = 1 /\ dicts = {} THEN FromMapping(only.t, v) ELSE Refused
  BY DEF UnionImpl, _set_mapping_value, _is_special, Sequences
<1>2. \A m \in classes \cup dicts : m \in Range(f.hint.members) /\ IsMember(m)
  BY UnionShape DEF Members
<1>3. (\A m \in classes : m.is = "class") /\ (\A m \in dicts : m.is = "dict")
      /\ \A m \in Range(f.hint.members) : m.is = "class" => m \in classes
  BY DEF Members
<1>4. active = NoHint \/ (IsContainer(old) /\ active = old.hint)
  OBVIOUS
<1>5. active = NoHint => active.is = "none"
  BY DEF NoHint
<1>6. r # Refused
  OBVIOUS
<1>7. ~_is_special(v) /\ IsContainer(v) /\ v.py # "object" /\ v.py \notin Sequences
  BY DEF _is_special, IsContainer, Sequences
<1>8. old.py \in {"object", "dict"} => active = old.hint
  BY DEF IsContainer
<1>9. active # NoHint => /\ active \in Range(f.hint.members) /\ IsMember(active)
                         /\ old.py = "dict" => active.is = "dict"
                         /\ old.py = "object" => active.is = "class"
  <2> SUFFICES ASSUME active # NoHint, IsContainer(old), active = old.hint
               PROVE  /\ active \in Range(f.hint.members) /\ IsMember(active)
                      /\ old.py = "dict" => active.is = "dict"
                      /\ old.py = "object" => active.is = "class"
    BY <1>4
  <2> HIDE DEF active
  <2> QED BY ActiveMember
<1> HIDE DEF r, classes, dicts, active, only
<1>10. CASE toDict
  <2>1. r = _set_container_value(dicts, {}, v)
    BY <1>1, <1>10
  <2>2. TakenBy(dicts \cup {}, v, r)
    BY <1>6, <2>1, ContainerValueSettles
  <2>3. PICK m \in dicts : r = SetMember(m, TRUE, v) /\ SetMember(m, TRUE, v) # Refused
    BY <2>2 DEF TakenBy
  <2>4. MemberSettled(m, v, r)
    BY <1>2, <1>7, <2>3, SetMemberSettles
  <2>5. ValueFixed(f, r)
    BY <1>2, <2>4 DEF MemberSettled, ValueFixed
  <2>6. ~(v.hint = NoHint /\ \E m2 \in Range(f.hint.members) : m2.is = "class")
    BY <1>3, <1>10
  <2> QED BY <1>7, <2>5, <2>6 DEF UnionSettled, r
<1>11. CASE ~toDict /\ active.is = "class"
  <2>1. r = FromMapping(active.t, v)
    BY <1>1, <1>11
  <2>2. active \in Range(f.hint.members) /\ IsMember(active)
    BY <1>5, <1>9, <1>11
  <2>3. active.t \in DOMAIN ClassFields /\ active = ClassHint(active.t)
    BY <1>11, <2>2, MemberShape
  <2>4. ObjectFixed(active, r) /\ r.hint = active /\ r.cls = active.t
    BY <1>6, <2>1, <2>3, FromMappingSettles
  <2>5. ValueFixed(f, r)
    <3>1. select_structured_config_union_member(f.hint, r) = active
      BY <2>2, <2>3, <2>4, OwnClassIsSelected
    <3> QED BY <1>11, <2>2, <2>4, <3>1 DEF ValueFixed, MemberFixed
  <2> QED BY <1>7, <1>8, <2>4, <2>5 DEF UnionSettled, r
<1>12. CASE ~toDict /\ active.is = "dict"
  <2>1. r = SetTyped(active, FALSE, v)
    BY <1>1, <1>12
  <2>2. active \in Range(f.hint.members) /\ IsMember(active)
    BY <1>5, <1>9, <1>12
  <2>3. ContainerFixed(active, r) /\ r.hint = active
    <3>1. ContainerSettled(active, FALSE, v, SetTyped(active, FALSE, v))
      BY <1>6, <1>12, <2>1, <2>2, SetContainerSettles
    <3> QED BY <2>1, <3>1 DEF ContainerSettled
  <2>4. ValueFixed(f, r)
    BY <1>12, <2>2, <2>3 DEF ValueFixed, MemberFixed
  <2> QED BY <1>7, <1>8, <2>3, <2>4 DEF UnionSettled, r
<1>13. CASE ~toDict /\ active.is \notin {"class", "dict"}
  <2>1. r = FromMapping(only.t, v) /\ Cardinality(classes) = 1
    BY <1>1, <1>6, <1>13
  <2>2. classes # {}
    BY <2>1, FS_EmptySet
  <2>3. only \in classes
    BY <2>2 DEF only
  <2>4. only.t \in DOMAIN ClassFields /\ only = ClassHint(only.t) /\ only.is = "class"
    BY <1>2, <1>3, <2>3, MemberShape
  <2>5. ObjectFixed(only, r) /\ r.cls = only.t
    BY <1>6, <2>1, <2>4, FromMappingSettles
  <2>6. ValueFixed(f, r)
    <3>1. select_structured_config_union_member(f.hint, r) = only
      BY <1>2, <2>3, <2>4, <2>5, OwnClassIsSelected
    <3> QED BY <1>2, <2>3, <2>4, <2>5, <3>1 DEF ValueFixed, MemberFixed
  <2>7. old.py \notin {"object", "dict"}
    BY <1>8, <1>9, <1>13, ActiveMember DEF IsContainer
  <2> QED BY <1>7, <2>6, <2>7 DEF UnionSettled, r
<1> QED BY <1>10, <1>11, <1>12, <1>13

LEMMA UnionSettles ==
    ASSUME NEW f \in Fields, f.hint.is = "union", NEW old, ValueFixed(f, old), NEW v,
           IF IsContainer(v) THEN IsConfig(v) ELSE v.py = "NoneType" => v = None,
           UnionImpl(f.hint, f.optional, old, v) # Refused
    PROVE  UnionSettled(f, old, v, UnionImpl(f.hint, f.optional, old, v))
<1>1. CASE _is_special(v)
  <2>1. ~IsContainer(v)
    BY <1>1 DEF _is_special, IsContainer, Sequences
  <2> QED BY <1>1, <2>1, UnionKeepsSpecial
<1>2. CASE ~_is_special(v) /\ ~IsContainer(v)
  BY <1>2, UnionTakesScalar
<1>3. CASE IsContainer(v)
  <2>1. v.py \in Sequences \/ v.py = "dict" \/ v.py = "object"
    BY <1>3 DEF IsContainer
  <2> QED BY <1>3, <2>1, UnionTakesObject, UnionTakesSequence, UnionTakesMapping
<1> QED BY <1>1, <1>2, <1>3

-----------------------------------------------------------------------------
(* The field.                                                               *)

\* What an assignment returns and leaves.
Assigned(f, old, v, r) ==
    /\ r = [content |-> r.content, raised |-> r.raised] /\ r.raised \in BOOLEAN
    /\ r.raised => r.content = old
    /\ ~r.raised => /\ ValueFixed(f, r.content)
                    /\ f.hint.is = "union" => UnionSettled(f, old, v, r.content)

LEMMA FieldShape ==
    ASSUME NEW f \in Fields
    PROVE  /\ f.optional \in BOOLEAN /\ f.hint.is \in {"leaf", "tuple", "union"}
           /\ f.hint.is = "leaf" => f.hint.t \in LeafTypes /\ f.hint = LeafHint(f.hint.t)
           /\ f.hint.is = "tuple" => IsTuple(f.hint, LeafTypes)
<1>1. IsField(f)
  BY TypedAssumption
<1>2. CASE f.hint \in {LeafHint(t) : t \in LeafTypes}
  BY <1>1, <1>2 DEF IsField, LeafHint
<1>3. CASE f.hint \notin {LeafHint(t) : t \in LeafTypes}
  <2>1. (f.hint.is = "tuple" /\ IsTuple(f.hint, LeafTypes)) \/ f.hint.is = "union"
    BY <1>1, <1>3 DEF IsField
  <2> QED BY <1>1, <2>1 DEF IsField
<1> QED BY <1>2, <1>3

LEMMA Stores ==
    ASSUME NEW old, NEW new
    PROVE  /\ Stored(old, new) = [content |-> Stored(old, new).content,
                                  raised |-> Stored(old, new).raised]
           /\ Stored(old, new).raised = (new = Refused)
           /\ Stored(old, new).content = IF new = Refused THEN old ELSE new
BY DEF Stored

LEMMA AssignmentSettles ==
    ASSUME NEW f \in Fields, NEW old, ValueFixed(f, old), NEW v,
           IF IsContainer(v) THEN IsConfig(v) ELSE v.py = "NoneType" => v = None
    PROVE  Assigned(f, old, v, _set_value(f, old, v))
<1> DEFINE r == _set_value(f, old, v)
<1> SUFFICES Assigned(f, old, v, r)
  OBVIOUS
<1>1. CASE f.hint.is = "union"
  <2> DEFINE new == UnionImpl(f.hint, f.optional, old, v)
  <2>1. r = Stored(old, new)
    BY <1>1 DEF _set_value, SetUnion
  <2>2. new # Refused => UnionSettled(f, old, v, new)
    BY <1>1, UnionSettles
  <2> HIDE DEF r, new
  <2>3. /\ r = [content |-> r.content, raised |-> r.raised] /\ r.raised = (new = Refused)
        /\ r.content = IF new = Refused THEN old ELSE new
    BY <2>1, Stores
  <2> QED BY <2>2, <2>3 DEF Assigned, UnionSettled
<1>2. CASE f.hint.is = "tuple"
  <2>1. r = SetTuple(f.hint, f.optional, FALSE, old, v)
    BY <1>2 DEF _set_value
  <2>2. IsTuple(f.hint, LeafTypes) /\ f.optional \in BOOLEAN
    BY <1>2, FieldShape
  <2> HIDE DEF r
  <2>3. TupleSettled(f.hint, f.optional, FALSE, old, v, r)
    BY <2>1, <2>2, SetTupleSettles
  <2>4. ASSUME ~r.raised PROVE ValueFixed(f, r.content)
    <3>1. CASE _is_special(v) /\ r.content = v /\ (v # None \/ f.optional)
      <4>1. ~IsContainer(v)
        BY <3>1 DEF _is_special, IsContainer, Sequences
      <4> QED BY <3>1, <4>1 DEF ValueFixed, _is_special
    <3>2. CASE TupleFixed(f.hint, FALSE, r.content)
      BY <1>2, <3>2 DEF ValueFixed
    <3> QED BY <2>3, <2>4, <3>1, <3>2 DEF TupleSettled
  <2> QED BY <1>2, <2>3, <2>4 DEF Assigned, TupleSettled
<1>3. CASE f.hint.is = "leaf"
  <2> DEFINE new == set_leaf(f.hint.t, f.optional, FALSE, v)
  <2>1. r = Stored(old, new)
    BY <1>3 DEF _set_value
  <2>2. f.hint.t \in LeafTypes /\ f.optional \in BOOLEAN
    BY <1>3, FieldShape
  <2>3. new # Refused => LeafFixed(f.hint.t, f.optional, FALSE, new) /\ ~IsContainer(new)
    BY <2>2, LeafSettles
  <2> HIDE DEF r, new
  <2>4. /\ r = [content |-> r.content, raised |-> r.raised] /\ r.raised = (new = Refused)
        /\ r.content = IF new = Refused THEN old ELSE new
    BY <2>1, Stores
  <2>5. new # Refused => ValueFixed(f, new)
    BY <1>3, <2>3 DEF ValueFixed
  <2> QED BY <1>3, <2>4, <2>5 DEF Assigned
<1> QED BY <1>1, <1>2, <1>3, FieldShape

\* Items changed one at a time.
LEMMA ItemSettles ==
    ASSUME NEW items, NEW k, NEW new, NEW types, NEW strict \in BOOLEAN,
           IsItems(items), ItemsFixed([j \in DOMAIN items |-> types[j]], strict, items),
           LeafFixed(types[k], FALSE, strict, new)
    PROVE  LET set == [j \in {k} \cup DOMAIN items |-> IF j = k THEN new ELSE items[j]]
           IN  /\ IsItems(set) /\ DOMAIN set = {k} \cup DOMAIN items
               /\ ItemsFixed([j \in DOMAIN set |-> types[j]], strict, set)
               /\ IsSequence(items) /\ k \in DOMAIN items => IsSequence(set)
<1> DEFINE set == [j \in {k} \cup DOMAIN items |-> IF j = k THEN new ELSE items[j]]
<1>1. IsItems(set) /\ DOMAIN set = {k} \cup DOMAIN items
  BY DEF IsItems
<1>2. ItemsFixed([j \in DOMAIN set |-> types[j]], strict, set)
  <2> SUFFICES ASSUME NEW j \in DOMAIN set
               PROVE  set[j].py = "config" \/ LeafFixed(types[j], FALSE, strict, set[j])
    BY DEF ItemsFixed
  <2>1. CASE j = k
    BY <2>1
  <2>2. CASE j # k
    BY <2>2 DEF ItemsFixed
  <2> QED BY <2>1, <2>2
<1>3. ASSUME IsSequence(items), k \in DOMAIN items PROVE IsSequence(set)
  <2>1. DOMAIN set = 1..Len(items) /\ Len(items) \in Nat
    BY <1>1, <1>3 DEF IsSequence
  <2> HIDE DEF set
  <2>2. Len(set) = Len(items)
    BY <1>1, <2>1, LenOfFunction DEF IsItems
  <2> QED BY <1>1, <2>1, <2>2 DEF IsSequence
<1> QED BY <1>1, <1>2, <1>3

\* cfg.field[k] = v
LEMMA SetItemKeeps ==
    ASSUME NEW k \in ItemKeys, NEW v, set_item(k, v), FieldFixed
    PROVE  FieldFixed'
<1> DEFINE new == IF content.py = "object" /\ k \in DOMAIN content.items
                  THEN set_leaf(ClassFields[content.cls][k], FALSE, FALSE, v)
                  ELSE IF content.py \in {"dict", "list"}
                  THEN set_leaf(content.hint.t, FALSE, TRUE, v)
                  ELSE Refused
           set == [j \in {k} \cup DOMAIN content.items |-> IF j = k THEN new ELSE content.items[j]]
<1>1. /\ field.hint.is = "union" /\ field' = field
      /\ content' = IF new = Refused THEN content ELSE [content EXCEPT !.items = set]
  BY DEF set_item
<1>2. field \in Fields /\ ValueFixed(field, content)
  BY DEF FieldFixed
<1>3. CASE new = Refused
  BY <1>1, <1>2, <1>3 DEF FieldFixed
<1>4. CASE new # Refused /\ content.py = "object"
  <2>1. IsContainer(content)
    BY <1>4 DEF IsContainer
  <2> DEFINE m == content.hint
             types == ClassFields[content.cls]
  <2>2. m \in Range(field.hint.members) /\ m.is = "class" /\ MemberFixed(m, content)
    BY <1>1, <1>2, <1>4, <2>1, ActiveMember
  <2>3. ObjectFixed(m, content)
    BY <2>2 DEF MemberFixed
  <2>4. select_structured_config_union_member(field.hint, content) = m
    BY <1>1, <1>2, <2>1, <2>2, ActiveMember
  <2>5. k \in DOMAIN content.items /\ new = set_leaf(types[k], FALSE, FALSE, v)
    BY <1>4
  <2>6. types[k] \in LeafTypes
    BY <2>3, <2>5, ClassShape DEF ObjectFixed
  <2>7. LeafFixed(types[k], FALSE, FALSE, new)
    <3>1. set_leaf(types[k], FALSE, FALSE, v) # Refused
      BY <1>4, <2>5
    <3> HIDE DEF new, types
    <3> QED BY <2>5, <2>6, <3>1, LeafSettles
  <2>8. /\ content = Object(content.cls, m, content.items) /\ IsItems(content.items)
        /\ content.cls \in DOMAIN ClassFields /\ m.t \in Range(Bases[content.cls])
        /\ DOMAIN content.items = DOMAIN types /\ ItemsFixed(types, FALSE, content.items)
    BY <2>3 DEF ObjectFixed
  <2>9. IsItems(set) /\ DOMAIN set = DOMAIN types /\ ItemsFixed(types, FALSE, set)
    <3> HIDE DEF new, types
    <3>1. ItemsFixed([j \in DOMAIN content.items |-> types[j]], FALSE, content.items)
      BY <2>8 DEF ItemsFixed
    <3>2. /\ IsItems(set) /\ DOMAIN set = {k} \cup DOMAIN content.items
          /\ ItemsFixed([j \in DOMAIN set |-> types[j]], FALSE, set)
      BY <2>7, <2>8, <3>1, ItemSettles
    <3> HIDE DEF set
    <3>3. ItemsFixed(types, FALSE, set)
      BY <3>2 DEF ItemsFixed
    <3> QED BY <2>5, <2>8, <3>2, <3>3
  <2>10. content' = Object(content.cls, m, set)
    <3> HIDE DEF set, new
    <3> QED BY <1>1, <1>4, <2>8 DEF Object
  <2> HIDE DEF set, new
  <2>11. /\ content'.cls = content.cls /\ content'.items = set
         /\ content' = Object(content'.cls, m, content'.items)
    BY <2>10 DEF Object
  <2>12. ObjectFixed(m, content')
    BY <2>8, <2>9, <2>11 DEF ObjectFixed
  <2>13. select_structured_config_union_member(field.hint, content') = m
    BY <2>4, <2>11 DEF select_structured_config_union_member
  <2>14. ValueFixed(field, content')
    BY <1>1, <2>2, <2>12, <2>13 DEF ValueFixed, MemberFixed
  <2> QED BY <1>1, <1>2, <2>14 DEF FieldFixed
<1>5. CASE new # Refused /\ content.py # "object"
  <2>1. content.py \in {"dict", "list"} /\ new = set_leaf(content.hint.t, FALSE, TRUE, v)
    BY <1>5
  <2>2. IsContainer(content)
    BY <2>1 DEF IsContainer, Sequences
  <2> DEFINE m == content.hint
  <2>3. m \in Range(field.hint.members) /\ IsMember(m) /\ m.is = content.py /\ MemberFixed(m, content)
    BY <1>1, <1>2, <2>1, <2>2, ActiveMember
  <2>4. ContainerFixed(m, content)
    BY <2>1, <2>3 DEF MemberFixed
  <2>5. /\ content = Typed(m.is, m, content.items) /\ IsItems(content.items)
        /\ m.is = "list" => IsSequence(content.items)
        /\ ItemsFixed([j \in DOMAIN content.items |-> m.t], TRUE, content.items)
    BY <2>4 DEF ContainerFixed
  <2>6. LeafFixed(m.t, FALSE, TRUE, new)
    <3>1. set_leaf(m.t, FALSE, TRUE, v) # Refused
      BY <1>5, <2>1
    <3>2. m.t \in LeafTypes
      BY <2>1, <2>3, MemberShape
    <3> HIDE DEF new, m
    <3> QED BY <2>1, <3>1, <3>2, LeafSettles DEF m
  <2>7. m.is = "list" => k \in DOMAIN content.items
    BY <2>3 DEF ItemKeys, Sequences
  <2>8. /\ IsItems(set) /\ (m.is = "list" => IsSequence(set))
        /\ ItemsFixed([j \in DOMAIN set |-> m.t], TRUE, set)
    <3> HIDE DEF new, m
    <3> DEFINE types == [j \in {k} \cup DOMAIN content.items |-> m.t]
    <3>1. ItemsFixed([j \in DOMAIN content.items |-> types[j]], TRUE, content.items)
      BY <2>5 DEF ItemsFixed
    <3>2. LeafFixed(types[k], FALSE, TRUE, new)
      BY <2>6
    <3> HIDE DEF types
    <3>3. /\ IsItems(set) /\ DOMAIN set = {k} \cup DOMAIN content.items
          /\ ItemsFixed([j \in DOMAIN set |-> types[j]], TRUE, set)
          /\ IsSequence(content.items) /\ k \in DOMAIN content.items => IsSequence(set)
      BY <2>5, <3>1, <3>2, ItemSettles
    <3> HIDE DEF set
    <3>4. ItemsFixed([j \in DOMAIN set |-> m.t], TRUE, set)
      BY <3>3 DEF ItemsFixed, types
    <3> QED BY <2>5, <2>7, <3>3, <3>4
  <2>9. content' = Typed(m.is, m, set)
    <3> HIDE DEF set, new
    <3> QED BY <1>1, <1>5, <2>5 DEF Typed
  <2> HIDE DEF set, new
  <2>10. content'.items = set /\ content' = Typed(m.is, m, content'.items)
    BY <2>9 DEF Typed
  <2>11. ContainerFixed(m, content')
    BY <2>8, <2>10 DEF ContainerFixed
  <2>12. ValueFixed(field, content')
    BY <1>1, <2>1, <2>3, <2>11 DEF ValueFixed, MemberFixed
  <2> QED BY <1>1, <1>2, <2>12 DEF FieldFixed
<1> QED BY <1>3, <1>4, <1>5

\* Reading an interpolation: what a value node is read as is fixed too.
ResultFixed ==
    call.op = "dereference" /\ ~call.raised /\ field.hint.is = "leaf"
    => ValueFixed(field, call.result)

LEMMA DereferenceKeeps ==
    ASSUME NEW v, dereference(v), FieldFixed
    PROVE  FieldFixed' /\ ResultFixed'
<1>1. field' = field /\ content' = content /\ field \in Fields
  BY DEF dereference, FieldFixed
<1>2. FieldFixed'
  BY <1>1 DEF FieldFixed
<1>3. ASSUME ~call'.raised, field.hint.is = "leaf"
      PROVE  ValueFixed(field, call'.result)
  <2> DEFINE checked == set_leaf(field.hint.t, field.optional, FALSE, v)
  <2>1. call' = [op |-> "dereference", v |-> v, raised |-> checked = Refused, result |-> checked]
    BY <1>3 DEF dereference
  <2>2. field.hint.t \in LeafTypes /\ field.optional \in BOOLEAN
    BY <1>1, <1>3, FieldShape
  <2>3. checked # Refused => LeafFixed(field.hint.t, field.optional, FALSE, checked)
                             /\ ~IsContainer(checked)
    BY <2>2, LeafSettles
  <2> HIDE DEF checked
  <2>4. call'.result = checked /\ checked # Refused
    BY <1>3, <2>1
  <2> QED BY <1>3, <2>3, <2>4 DEF ValueFixed
<1>4. ResultFixed'
  BY <1>1, <1>3 DEF ResultFixed
<1> QED BY <1>2, <1>4

\* cfg.field = v
LEMMA AssignKeeps ==
    ASSUME NEW v \in Inputs, assign(v), FieldFixed
    PROVE  /\ FieldFixed' /\ ResultFixed' /\ field' = field
           /\ call'.op = "assign" /\ call'.v = v
           /\ Assigned(field, content, v, [content |-> content', raised |-> call'.raised])
<1> DEFINE r == _set_value(field, content, v)
<1>1. /\ content' = r.content /\ field' = field
      /\ call' = [op |-> "assign", v |-> v, raised |-> r.raised]
  BY DEF assign
<1>2. field \in Fields /\ ValueFixed(field, content)
  BY DEF FieldFixed
<1>3. Assigned(field, content, v, r)
  <2>1. IF IsContainer(v) THEN IsConfig(v) ELSE v.py = "NoneType" => v = None
    BY TypedAssumption
  <2> QED BY <1>2, <2>1, AssignmentSettles
<1> HIDE DEF r
<1>4. r = [content |-> r.content, raised |-> r.raised] /\ r.raised \in BOOLEAN
  BY <1>3 DEF Assigned
<1>5. call'.op = "assign" /\ call'.v = v /\ call'.raised = r.raised
  BY <1>1, <1>4
<1>6. r = [content |-> content', raised |-> call'.raised]
  BY <1>1, <1>4, <1>5
<1>7. ValueFixed(field, content')
  BY <1>1, <1>2, <1>3 DEF Assigned
<1>8. FieldFixed' /\ ResultFixed'
  BY <1>1, <1>2, <1>5, <1>7 DEF FieldFixed, ResultFixed
<1> QED BY <1>1, <1>3, <1>5, <1>6, <1>8

LEMMA FixedInductive ==
    FieldFixed /\ ResultFixed /\ [Next]_vars => FieldFixed' /\ ResultFixed'
<1> SUFFICES ASSUME FieldFixed, ResultFixed, [Next]_vars
             PROVE  FieldFixed' /\ ResultFixed'
  OBVIOUS
<1>1. CASE \E v \in Inputs : assign(v)
  BY <1>1, AssignKeeps
<1>2. CASE \E k \in ItemKeys, v \in Entries : set_item(k, v)
  <2>1. PICK k \in ItemKeys, v \in Entries : set_item(k, v)
    BY <1>2
  <2>2. FieldFixed'
    BY <2>1, SetItemKeeps
  <2>3. call'.op # "dereference"
    BY <2>1 DEF set_item
  <2> QED BY <2>2, <2>3 DEF ResultFixed
<1>3. CASE \E v \in Results : dereference(v)
  BY <1>3, DereferenceKeeps
<1>4. CASE UNCHANGED vars
  BY <1>4 DEF vars, FieldFixed, ResultFixed
<1> QED BY <1>1, <1>2, <1>3, <1>4 DEF Next

LEMMA FixedInitially == Init => FieldFixed /\ ResultFixed
<1> SUFFICES ASSUME Init PROVE FieldFixed /\ ResultFixed
  OBVIOUS
<1>1. field \in Fields /\ content.py = "missing" /\ call.op = "none"
  BY DEF Init, Missing, V, NoCall
<1> QED BY <1>1 DEF FieldFixed, ValueFixed, ResultFixed

LEMMA AlwaysFixed == Spec => [](FieldFixed /\ ResultFixed)
BY FixedInitially, FixedInductive, PTL DEF Spec

-----------------------------------------------------------------------------
(* What is fixed is of the declared type.                                   *)

LEMMA TupleConforms ==
    ASSUME NEW hint, NEW S \in SUBSET LeafTypes, IsTuple(hint, S), hint.is = "tuple",
           NEW strict \in BOOLEAN, NEW v, TupleFixed(hint, strict, v)
    PROVE  MemberConforms(hint, v)
<1> DEFINE types == [i \in DOMAIN v.items |-> _item_type(hint, i)]
<1>1. /\ v = Typed("tuple", hint, v.items) /\ IsSequence(v.items)
      /\ hint.variadic \/ Len(v.items) = Len(hint.types)
      /\ ItemsFixed(types, strict, v.items)
  BY DEF TupleFixed
<1>2. v.py = "tuple" /\ v.hint = hint
  BY <1>1 DEF Typed
<1>3. Len(v.items) \in Nat /\ DOMAIN v.items = 1..Len(v.items)
  BY <1>1 DEF IsSequence
<1>4. \A i \in DOMAIN v.items : types[i] \in LeafTypes
  <2>1. \A i \in 1..Len(v.items) : _item_type(hint, i) \in S
    BY <1>1, <1>3, ItemTypes
  <2> QED BY <1>3, <2>1
<1> HIDE DEF types
<1>5. ItemsConform(types, v.items)
  BY <1>1, <1>4, FixedItemsConform
<1> QED BY <1>1, <1>2, <1>5 DEF MemberConforms, types

LEMMA MemberConformsIfFixed ==
    ASSUME NEW m, IsMember(m), NEW v, MemberFixed(m, v)
    PROVE  MemberConforms(m, v)
<1>1. CASE m.is = "leaf"
  <2>1. ~IsContainer(v) /\ LeafFixed(m.t, FALSE, TRUE, v) /\ m.t \in LeafTypes
    BY <1>1, MemberShape DEF MemberFixed
  <2>2. LeafConforms(m.t, v)
    BY <2>1, LeafConformsIfFixed
  <2> QED BY <1>1, <2>1, <2>2 DEF MemberConforms
<1>2. CASE m.is \in {"list", "dict"}
  <2> DEFINE types == [k \in DOMAIN v.items |-> m.t]
  <2>1. v = Typed(m.is, m, v.items) /\ ItemsFixed(types, TRUE, v.items)
    BY <1>2 DEF MemberFixed, ContainerFixed
  <2>2. v.py = m.is /\ v.hint = m
    BY <2>1 DEF Typed
  <2>3. \A k \in DOMAIN v.items : types[k] \in LeafTypes
    BY <1>2, MemberShape
  <2> HIDE DEF types
  <2>4. ItemsConform(types, v.items)
    BY <2>1, <2>3, FixedItemsConform
  <2> QED BY <1>2, <2>2, <2>4 DEF MemberConforms, types
<1>3. CASE m.is = "class"
  <2>1. /\ v = Object(v.cls, m, v.items) /\ v.cls \in DOMAIN ClassFields
        /\ m.t \in Range(Bases[v.cls]) /\ DOMAIN v.items = DOMAIN ClassFields[v.cls]
        /\ ItemsFixed(ClassFields[v.cls], FALSE, v.items)
    BY <1>3 DEF MemberFixed, ObjectFixed
  <2>2. v.py = "object" /\ v.hint = m
    BY <2>1 DEF Object
  <2>3. \A k \in DOMAIN v.items : ClassFields[v.cls][k] \in LeafTypes
    BY <2>1, ClassShape
  <2>4. ItemsConform(ClassFields[v.cls], v.items)
    BY <2>1, <2>3, FixedItemsConform
  <2> QED BY <1>3, <2>1, <2>2, <2>4 DEF MemberConforms
<1>4. CASE m.is = "tuple"
  <2>1. IsTuple(m, LeafTypes \ {"Any"}) /\ TupleFixed(m, TRUE, v)
    BY <1>4, MemberShape DEF MemberFixed
  <2> QED BY <1>4, <2>1, TupleConforms
<1> QED BY <1>1, <1>2, <1>3, <1>4, MemberShape

LEMMA ConformsIfFixed ==
    ASSUME NEW f \in Fields, NEW v, ValueFixed(f, v)
    PROVE  Conforms(f, v)
<1>1. CASE v.py \in {"missing", "inter"} \/ (v = None /\ (f.optional \/ f.hint = LeafHint("Any")))
  BY <1>1 DEF Conforms
<1>2. CASE f.hint.is = "leaf" /\ ~IsContainer(v) /\ LeafFixed(f.hint.t, f.optional, FALSE, v)
  <2>1. f.hint.t \in LeafTypes /\ f.optional \in BOOLEAN
    BY <1>2, FieldShape
  <2>2. LeafConforms(f.hint.t, v) \/ (v = None /\ f.optional)
    BY <1>2, <2>1, LeafConformsIfFixed
  <2> QED BY <1>2, <2>2 DEF Conforms, MemberConforms
<1>3. CASE f.hint.is = "tuple" /\ TupleFixed(f.hint, FALSE, v)
  <2>1. MemberConforms(f.hint, v)
    BY <1>3, FieldShape, TupleConforms
  <2> QED BY <1>3, <2>1 DEF Conforms
<1>4. CASE f.hint.is = "union" /\ \E m \in Range(f.hint.members) : MemberFixed(m, v)
  <2>1. PICK m \in Range(f.hint.members) : MemberFixed(m, v)
    BY <1>4
  <2>2. MemberConforms(m, v)
    BY <1>4, <2>1, UnionShape, MemberConformsIfFixed
  <2>3. PICK i \in DOMAIN f.hint.members : m = f.hint.members[i]
    BY DEF Range
  <2> QED BY <1>4, <2>2, <2>3 DEF Conforms
<1> QED BY <1>1, <1>2, <1>3, <1>4 DEF ValueFixed

\* For every set of fields, values and classes and every table of conversions:
\* whatever was assigned to a typed field, and set in what it holds, the field and
\* each item are of the types they declare.  (nodes.py, base.py:965-1239,
\* tupleconfig.py:452-522.)
THEOREM ItemsAlwaysTyped == Spec => []ItemsTyped
<1>1. FieldFixed /\ ResultFixed => ItemsTyped
  BY ConformsIfFixed DEF FieldFixed, ResultFixed, ItemsTyped
<1> QED BY <1>1, AlwaysFixed, PTL

-----------------------------------------------------------------------------
(* What is fixed is taken back.                                             *)

LEMMA FixedUnionIsSet ==
    ASSUME NEW f \in Fields, f.hint.is = "union", NEW v, ~_is_special(v), ValueFixed(f, v)
    PROVE  UnionImpl(f.hint, f.optional, v, v) = v /\ v # Refused
<1> DEFINE ms == f.hint.members
<1>1. PICK m \in Range(ms) :
        /\ MemberFixed(m, v)
        /\ m.is = "class" => select_structured_config_union_member(f.hint, v) = m
  BY DEF ValueFixed, _is_special, None, V
<1>2. IsMember(m)
  BY UnionShape
<1>3. CASE ~IsContainer(v)
  <2> DEFINE r == UnionImpl(f.hint, f.optional, v, v)
             accepts == {i \in DOMAIN ms : SetMember(ms[i], TRUE, v) # Refused}
  <2>1. r = IF accepts = {} THEN Refused ELSE SetMember(ms[Min(accepts)], TRUE, v)
    BY <1>3 DEF UnionImpl, IsContainer
  <2>2. m.is # "class"
    <3> SUFFICES ASSUME m.is = "class" PROVE FALSE
      OBVIOUS
    <3>1. v = Object(v.cls, m, v.items)
      BY <1>1 DEF MemberFixed, ObjectFixed
    <3> QED BY <1>3, <3>1 DEF Object, IsContainer
  <2>3. SetMember(m, TRUE, v) = v /\ v # Refused
    BY <1>1, <1>2, <2>2, FixedMemberIsSet
  <2>4. accepts # {} /\ accepts \in SUBSET Nat
    <3>1. PICK i \in DOMAIN ms : m = ms[i]
      BY DEF Range
    <3>2. i \in accepts
      BY <2>3, <3>1
    <3> QED BY <3>2, UnionShape
  <2>5. Min(accepts) \in accepts
    <3> HIDE DEF accepts
    <3> QED BY <2>4, MinIn
  <2>6. PICK i \in DOMAIN ms : r = SetMember(ms[i], TRUE, v) /\ SetMember(ms[i], TRUE, v) # Refused
    BY <2>1, <2>4, <2>5
  <2>7. IsMember(ms[i])
    BY UnionShape
  <2>8. v.py # "object"
    BY <1>3 DEF IsContainer
  <2> HIDE DEF r
  <2>9. MemberSettled(ms[i], v, r)
    BY <1>3, <2>6, <2>7, <2>8, SetMemberSettles
  <2>10. r = v
    BY <1>3, <2>9 DEF MemberSettled
  <2> QED BY <2>3, <2>10 DEF r
<1>4. CASE IsContainer(v) /\ m.is # "class"
  <2>1. SetMember(m, TRUE, v) = v /\ v # Refused
    BY <1>1, <1>2, <1>4, FixedMemberIsSet
  <2>2. v.hint = m /\ v.py = m.is /\ m.is \in {"list", "dict", "tuple"}
    <3>1. CASE m.is \in {"list", "dict"}
      <4>1. v = Typed(m.is, m, v.items)
        BY <1>1, <3>1 DEF MemberFixed, ContainerFixed
      <4> QED BY <3>1, <4>1 DEF Typed
    <3>2. CASE m.is = "tuple"
      <4>1. v = Typed(m.is, m, v.items)
        BY <1>1, <3>2 DEF MemberFixed, TupleFixed
      <4> QED BY <3>2, <4>1 DEF Typed
    <3>3. CASE m.is = "leaf"
      BY <1>1, <1>4, <3>3 DEF MemberFixed
    <3> QED BY <1>2, <1>4, <3>1, <3>2, <3>3, MemberShape
  <2>3. CASE v.py \in Sequences
    <3> DEFINE kinds == Members(f.hint, Sequences)
               same == {m2 \in kinds : m2.is = v.py}
    <3>1. UnionImpl(f.hint, f.optional, v, v) = _set_container_value(same, kinds \ same, v)
      BY <2>3 DEF UnionImpl, Sequences
    <3>2. v.hint \in same
      BY <2>2, <2>3 DEF Members
    <3> HIDE DEF same, kinds
    <3>3. _set_container_value(same, kinds \ same, v) = v
      BY <2>1, <2>2, <3>2, FixedIsFound
    <3> QED BY <2>1, <3>1, <3>3
  <2>4. CASE v.py = "dict"
    <3> DEFINE dicts == Members(f.hint, {"dict"})
    <3>1. v.hint \in dicts /\ v.hint # NoHint
      <4>1. m.is = "dict" /\ v.hint = m /\ m \in Range(f.hint.members)
        BY <2>2, <2>4
      <4>2. m # NoHint
        BY <4>1 DEF NoHint
      <4> QED BY <4>1, <4>2 DEF Members
    <3>2. UnionImpl(f.hint, f.optional, v, v) = _set_container_value(dicts, {}, v)
      BY <2>4, <3>1 DEF UnionImpl, _set_mapping_value, Sequences
    <3> HIDE DEF dicts
    <3>3. _set_container_value(dicts, {}, v) = v
      BY <2>1, <2>2, <3>1, FixedIsFound
    <3> QED BY <2>1, <3>2, <3>3
  <2> QED BY <2>2, <2>3, <2>4 DEF Sequences
<1>5. CASE m.is = "class"
  <2>1. ObjectFixed(m, v)
    BY <1>1, <1>5 DEF MemberFixed
  <2>2. v = Object(v.cls, m, v.items)
    BY <2>1 DEF ObjectFixed
  <2>3. v.py = "object" /\ m # NoHint
    BY <1>5, <2>2 DEF Object, NoHint
  <2>4. UnionImpl(f.hint, f.optional, v, v) = SetTyped(m, FALSE, v)
    BY <1>1, <1>5, <2>3 DEF UnionImpl
  <2>5. ObjectKept(m, v)
    BY <1>5, <2>1, FixedObjectIsSet
  <2> QED BY <2>4, <2>5 DEF ObjectKept
<1> QED BY <1>3, <1>4, <1>5

LEMMA FixedIsReassignable ==
    ASSUME NEW f \in Fields, NEW v, ValueFixed(f, v)
    PROVE  _set_value(f, v, v) = [content |-> v, raised |-> FALSE]
<1>1. \A new : new = v /\ v # Refused => Stored(v, new) = [content |-> v, raised |-> FALSE]
  BY DEF Stored
<1>2. v.py \in {"missing", "inter"} => v # Refused /\ v # None
  BY DEF Refused, None, V
<1>3. None # Refused /\ None.py = "NoneType" /\ ~IsContainer(None)
  BY DEF Refused, None, V, IsContainer, Sequences
<1>4. CASE f.hint.is = "leaf"
  <2> DEFINE new == set_leaf(f.hint.t, f.optional, FALSE, v)
  <2>1. _set_value(f, v, v) = Stored(v, new)
    BY <1>4 DEF _set_value
  <2>2. CASE v.py \in {"missing", "inter"}
    BY <1>1, <1>2, <2>1, <2>2 DEF set_leaf
  <2>3. CASE v = None /\ (f.optional \/ f.hint = LeafHint("Any"))
    <3>1. new = v
      BY <1>3, <2>3 DEF set_leaf, LeafHint
    <3> QED BY <1>1, <1>3, <2>1, <2>3, <3>1
  <2>4. CASE LeafFixed(f.hint.t, f.optional, FALSE, v)
    BY <1>1, <2>1, <2>4 DEF LeafFixed
  <2> QED BY <1>4, <2>2, <2>3, <2>4 DEF ValueFixed
<1>5. CASE f.hint.is = "tuple"
  <2> DEFINE r == SetTuple(f.hint, f.optional, FALSE, v, v)
  <2>1. _set_value(f, v, v) = r
    BY <1>5 DEF _set_value
  <2>2. IsTuple(f.hint, LeafTypes) /\ f.optional \in BOOLEAN
    BY <1>5, FieldShape
  <2>3. f.hint # LeafHint("Any")
    BY <1>5 DEF LeafHint
  <2>4. CASE TupleFixed(f.hint, FALSE, v)
    <3>1. LeafTypes \in SUBSET LeafTypes
      OBVIOUS
    <3>2. TupleKept(v, r)
      BY <2>2, <2>4, <3>1, FixedTupleIsSet
    <3> QED BY <2>1, <3>2 DEF TupleKept
  <2>5. CASE v.py \in {"missing", "inter"} \/ (v = None /\ f.optional)
    <3>1. _is_special(v) /\ ~(v = None /\ ~f.optional)
      BY <1>2, <1>3, <2>5 DEF _is_special
    <3> DEFINE impl == TupleImpl(f.hint, f.optional, FALSE, v, v)
    <3>2. impl = [content |-> v, raised |-> FALSE]
      BY <3>1 DEF TupleImpl
    <3>3. r = [content |-> IF impl.raised THEN v ELSE impl.content, raised |-> impl.raised]
      BY DEF SetTuple
    <3> HIDE DEF impl, r
    <3> QED BY <2>1, <3>2, <3>3
  <2> QED BY <1>5, <2>3, <2>4, <2>5 DEF ValueFixed
<1>6. CASE f.hint.is = "union"
  <2> DEFINE new == UnionImpl(f.hint, f.optional, v, v)
  <2>1. _set_value(f, v, v) = Stored(v, new)
    BY <1>6 DEF _set_value, SetUnion
  <2>2. CASE ~_is_special(v)
    <3>1. new = v /\ v # Refused
      BY <1>6, <2>2, FixedUnionIsSet
    <3> HIDE DEF new
    <3> QED BY <1>1, <2>1, <3>1
  <2>3. CASE _is_special(v)
    <3>1. new = IF v = None /\ ~f.optional THEN Refused ELSE v
      BY <2>3 DEF UnionImpl
    <3>2. v # Refused
      BY <2>3 DEF _is_special, Refused, V
    <3>3. ~(v = None /\ ~f.optional)
      <4> SUFFICES ASSUME v = None, ~f.optional PROVE FALSE
        OBVIOUS
      <4>1. f.hint # LeafHint("Any")
        BY <1>6 DEF LeafHint
      <4>2. v.py = "NoneType" /\ ~IsContainer(v)
        BY <1>3
      <4>3. PICK m \in Range(f.hint.members) : MemberFixed(m, v)
        BY <1>6, <4>1, <4>2 DEF ValueFixed
      <4>4. IsMember(m)
        BY <1>6, UnionShape
      <4>5. MemberConforms(m, v)
        BY <4>3, <4>4, MemberConformsIfFixed
      <4>6. m.is = "leaf"
        BY <4>2, <4>4, <4>5, MemberShape DEF MemberConforms
      <4>7. set_leaf(m.t, FALSE, TRUE, v) = v /\ m.t # "Any"
        BY <4>3, <4>4, <4>6, MemberShape DEF MemberFixed, LeafFixed
      <4>8. set_leaf(m.t, FALSE, TRUE, v) = Refused
        BY <4>2, <4>7 DEF set_leaf
      <4> QED BY <3>2, <4>7, <4>8
    <3> HIDE DEF new
    <3> QED BY <1>1, <2>1, <3>1, <3>2, <3>3
  <2> QED BY <2>2, <2>3
<1> QED BY <1>4, <1>5, <1>6, FieldShape

\* ... and a field takes back what it holds, and then holds the same: whatever a
\* union or a tuple stored, however it was changed since, the choice among members
\* made again is the same, and a value converted twice is converted once.
\* (narrow_by_metadata, base.py:1160-1205.)
THEOREM FieldsAreReassignable == Spec => []Reassignable
<1>1. FieldFixed => Reassignable
  BY FixedIsReassignable DEF FieldFixed, Reassignable
<1> QED BY <1>1, AlwaysFixed, PTL

-----------------------------------------------------------------------------
(* Assignments.                                                             *)

\* A union's value, a list or scalar as it was given, is what the code stored; and
\* a call that raises, on a tuple set half way or a union, leaves what was there.
\* (UnionNode._set_value, base.py:962-970; TupleConfig._set_value, tupleconfig.py:452.)
THEOREM AssignmentsAlwaysKeep == Spec => AssignmentsKeep
<1>1. ASSUME FieldFixed, [Next]_vars
      PROVE  [SettersKeep]_vars
  <2>1. CASE \E v \in Inputs : assign(v)
    <3>1. PICK v \in Inputs : assign(v)
      BY <2>1
    <3> DEFINE r == [content |-> content', raised |-> call'.raised]
    <3>2. /\ field' = field /\ call'.op = "assign" /\ call'.v = v
          /\ Assigned(field, content, v, r)
      BY <1>1, <3>1, AssignKeeps
    <3>3. r.content = content' /\ r.raised = call'.raised
      OBVIOUS
    <3> HIDE DEF r
    <3>4. call'.raised => content' = content
      BY <3>2, <3>3 DEF Assigned
    <3>5. ASSUME ~call'.raised, field.hint.is = "union"
          PROVE  UnionSettled(field, content, v, content')
      BY <3>2, <3>3, <3>5 DEF Assigned
    <3>6. ASSUME ~call'.raised, field.hint.is = "union"
          PROVE  /\ ~IsContainer(v) => content' = v
                 /\ v.py \in Sequences => content'.items = v.items
                 /\ /\ v.py = "dict" /\ v.hint = NoHint /\ content.py \in {"object", "dict"}
                    /\ \E i \in DOMAIN field.hint.members : field.hint.members[i].is = "class"
                    => content'.hint = content.hint
      BY <3>5, <3>6 DEF UnionSettled, Range
    <3> QED BY <3>2, <3>4, <3>6 DEF SettersKeep
  <2>2. CASE \E k \in ItemKeys, v \in Entries : set_item(k, v)
    <3>1. PICK k \in ItemKeys, v \in Entries : set_item(k, v)
      BY <2>2
    <3> DEFINE new == IF content.py = "object" /\ k \in DOMAIN content.items
                      THEN set_leaf(ClassFields[content.cls][k], FALSE, FALSE, v)
                      ELSE IF content.py \in {"dict", "list"}
                      THEN set_leaf(content.hint.t, FALSE, TRUE, v)
                      ELSE Refused
    <3>2. /\ call' = [op |-> "set_item", v |-> v, raised |-> new = Refused]
          /\ new = Refused => content' = content
      BY <3>1 DEF set_item
    <3> HIDE DEF new
    <3>3. call'.op = "set_item" /\ (call'.raised => content' = content)
      BY <3>2
    <3> QED BY <3>3 DEF SettersKeep
  <2>3. CASE \E v \in Results : dereference(v)
    <3>1. content' = content /\ call'.op = "dereference"
      BY <2>3 DEF dereference
    <3> QED BY <3>1 DEF SettersKeep
  <2>4. CASE UNCHANGED vars
    BY <2>4
  <2> QED BY <1>1, <2>1, <2>2, <2>3, <2>4 DEF Next
<1> QED BY <1>1, AlwaysFixed, PTL DEF Spec, AssignmentsKeep

============================================================================
