----------------------------- MODULE TypedValues -----------------------------
(***************************************************************************)
(* What a typed field holds after it is assigned to: value nodes, which     *)
(* convert to their type (nodes.py), TupleConfig, whose items do (tuple-    *)
(* config.py), and UnionNode, which chooses among its members and does not  *)
(* convert (base.py).                                                       *)
(*                                                                          *)
(* A type hint is a record: a leaf type, a list, dict or class, a tuple or  *)
(* a union of members.  A scalar is its Python type and its text; a         *)
(* container has its items and the hint it is typed with, or NoHint.        *)
(***************************************************************************)
EXTENDS Integers, FiniteSets, SequencesExt

CONSTANTS
    Fields,     \* the typed fields: records of a hint and whether None is allowed
    Inputs,     \* the values they are assigned
    Entries,    \* ... and the scalars set in what they hold, under its own keys
    Keys,       \* or, in a mapping, under these
    Results,    \* what interpolations in them evaluate to
    ClassFields,    \* the fields of each structured class, with their leaf types
    Bases,      \* the classes of each class's mro, itself first
    Literals,   \* the values of the Literal type
    IntOf,      \* the integer texts, with what int() makes of them
    FloatOf,    \* the texts float() accepts, with what it makes of them
    BoolOf,     \* the words for booleans, with "True" or "False"
    EnumOf      \* names and integers of the enum, with its member's text

VARIABLES
    field,      \* the field
    content,    \* what its node holds
    call        \* the last call, and whether it raised or what it returned

vars == <<field, content, call>>

-----------------------------------------------------------------------------
(* Hints and values.                                                        *)

LeafHint(t)  == [is |-> "leaf", t |-> t]
ListHint(t)  == [is |-> "list", t |-> t]
DictHint(t)  == [is |-> "dict", t |-> t]    \* of str keys
ClassHint(c) == [is |-> "class", t |-> c]
TupleHint(types)    == [is |-> "tuple", types |-> types, variadic |-> FALSE]
VariadicHint(t)     == [is |-> "tuple", types |-> <<t>>, variadic |-> TRUE]
UnionHint(members)  == [is |-> "union", members |-> members]
NoHint == [is |-> "none"]

V(py, v) == [py |-> py, v |-> v]
Typed(py, hint, items) == [py |-> py, hint |-> hint, items |-> items]
Plain(py, items) == Typed(py, NoHint, items)
Object(cls, hint, items) == [py |-> "object", cls |-> cls, hint |-> hint, items |-> items]

None    == V("NoneType", "None")
Missing == V("missing", "???")
Refused == V("refused", "-")

Sequences == {"list", "tuple"}
IsContainer(v) == v.py \in Sequences \cup {"dict", "object"}
_is_special(v) == v.py \in {"NoneType", "missing", "inter"}

-----------------------------------------------------------------------------
(* What the constants may be.                                               *)

LeafTypes == {"Any", "str", "int", "float", "bool", "enum", "path", "bytes", "literal"}

IsTuple(hint, types) ==
    /\ hint = [is |-> "tuple", types |-> hint.types, variadic |-> hint.variadic]
    /\ hint.types \in Seq(types) /\ hint.variadic \in BOOLEAN
    /\ hint.variadic => Len(hint.types) = 1

\* A member of a union.  What is let in as Any where nothing is converted
\* depends on whether it comes in a node: no member is Any, or has Any items.
IsMember(m) ==
    LET types == LeafTypes \ {"Any"}
    IN  \/ \E t \in types : m \in {LeafHint(t), ListHint(t), DictHint(t)}
        \/ \E c \in DOMAIN ClassFields : m = ClassHint(c)
        \/ m.is = "tuple" /\ IsTuple(m, types)

IsField(f) ==
    /\ f = [hint |-> f.hint, optional |-> f.optional] /\ f.optional \in BOOLEAN
    /\ \/ f.hint \in {LeafHint(t) : t \in LeafTypes}
       \/ f.hint.is = "tuple" /\ IsTuple(f.hint, LeafTypes)
       \/ /\ f.hint.is = "union" /\ f.hint = UnionHint(f.hint.members)
          /\ f.hint.members \in Seq({m \in Range(f.hint.members) : IsMember(m)})

\* A sequence or mapping of items, or an object with all the fields of its class.
IsItems(items) == items = [k \in DOMAIN items |-> items[k]]

IsSequence(items) == IsItems(items) /\ Len(items) \in Nat /\ DOMAIN items = 1..Len(items)

IsConfig(v) ==
    \/ v.py \in Sequences /\ v = Typed(v.py, v.hint, v.items) /\ IsSequence(v.items)
    \/ v.py = "dict" /\ v = Typed(v.py, v.hint, v.items) /\ IsItems(v.items)
    \/ /\ v.py = "object" /\ v = Object(v.cls, v.hint, v.items) /\ IsItems(v.items)
       /\ v.cls \in DOMAIN ClassFields /\ DOMAIN v.items = DOMAIN ClassFields[v.cls]

\* A class is the first of its own mro; int() and float() read what they made as itself.
ASSUME TypedAssumption ==
    /\ \A f \in Fields : IsField(f)
    /\ \A v \in Inputs : IF IsContainer(v) THEN IsConfig(v) ELSE v.py = "NoneType" => v = None
    /\ \A v \in Literals : ~IsContainer(v)
    /\ \A c \in DOMAIN ClassFields :
          /\ ClassFields[c] \in [DOMAIN ClassFields[c] -> LeafTypes]
          /\ Bases[c] \in Seq(Range(Bases[c])) /\ Bases[c] # <<>> /\ Bases[c][1] = c
    /\ \A text \in {IntOf, FloatOf} : \A x \in DOMAIN text :
          text[x] \in DOMAIN text /\ text[text[x]] = text[x]

-----------------------------------------------------------------------------
(* Value nodes.                                                             *)

\* _strict_validate_type: with the convert flag off, the type must be exact.
_strict_validate_type(t, v) ==
    IF t = v.py \/ (t = "literal" /\ v \in Literals) THEN v ELSE Refused

\* _validate_and_convert_impl of AnyNode, StringNode, IntegerNode ...
any(v) == IF IsContainer(v) THEN Refused ELSE v

string(v) ==
    IF v.py = "object" THEN V("str", v.cls)     \* any object but a container has a str
    ELSE IF IsContainer(v) \/ v.py = "bytes" THEN Refused
    ELSE V("str", v.v)

\* Mutant of integer: booleans are integers.
integer_bools(v) ==
    IF v.py = "bool" THEN v
    ELSE IF v.py \in {"str", "int"} /\ v.v \in DOMAIN IntOf THEN V("int", IntOf[v.v])
    ELSE Refused

integer(v) ==
    IF v.py \in {"str", "int"} /\ v.v \in DOMAIN IntOf THEN V("int", IntOf[v.v]) ELSE Refused

float(v) ==
    IF v.py \in {"float", "str", "int"} /\ v.v \in DOMAIN FloatOf THEN V("float", FloatOf[v.v])
    ELSE Refused

boolean(v) ==
    CASE v.py = "bool" -> v
      [] v.py \in {"int", "str"} /\ v.v \in DOMAIN IntOf ->
            V("bool", IF IntOf[v.v] = "0" THEN "False" ELSE "True")
      [] v.py = "str" /\ v.v \in DOMAIN BoolOf -> V("bool", BoolOf[v.v])
      [] OTHER -> Refused

enum(v) ==
    IF v.py = "enum" THEN v
    ELSE IF v \in DOMAIN EnumOf THEN V("enum", EnumOf[v]) ELSE Refused

path(v) == IF v.py \in {"str", "path"} THEN V("path", v.v) ELSE Refused

bytes(v) == IF v.py = "bytes" THEN v ELSE Refused

literal(v) == IF v \in Literals THEN v ELSE Refused

convert(t, v) ==
    CASE t = "Any" -> any(v)      [] t = "str" -> string(v)   [] t = "int" -> integer(v)
      [] t = "float" -> float(v)  [] t = "bool" -> boolean(v) [] t = "enum" -> enum(v)
      [] t = "path" -> path(v)    [] t = "bytes" -> bytes(v)  [] t = "literal" -> literal(v)

\* ValueNode._set_value and validate_and_convert.
set_leaf(t, optional, strict, v) ==
    IF v.py \in {"missing", "inter"} THEN v
    ELSE IF v = None THEN (IF optional \/ t = "Any" THEN v ELSE Refused)
    ELSE IF strict THEN _strict_validate_type(t, v) ELSE convert(t, v)

-----------------------------------------------------------------------------
(* Containers.                                                              *)

\* The items set in nodes of the given leaf types.  An item that is a config is
\* no value to convert: it is kept as it is.
SetItems(types, strict, items) ==
    [k \in DOMAIN items |-> IF items[k].py = "config" THEN items[k]
                            ELSE set_leaf(types[k], FALSE, strict, items[k])]

\* What a value must be to become a container with the hint, and the types of
\* the items it then has.
Holds(hint, v) == \/ hint.is = "list" /\ v.py \in Sequences
                  \/ hint.is = "dict" /\ v.py = "dict"
                  \/ hint.is = "class" /\ v.py = "object"

Elements(hint, v) == IF hint.is = "class" THEN ClassFields[v.cls]
                     ELSE [k \in DOMAIN v.items |-> hint.t]

\* ListConfig, DictConfig and structured DictConfig made of a value: the value
\* typed with the hint, or Refused.
SetTyped(hint, strict, v) ==
    LET set == SetItems(Elements(hint, v), strict, v.items)
    IN  IF ~Holds(hint, v) \/ \E k \in DOMAIN v.items : set[k] = Refused THEN Refused
        ELSE IF hint.is = "class" THEN Object(v.cls, hint, set)
        ELSE Typed(hint.is, hint, set)

\* A mapping merged into a new instance of class c: a key that is no field or a
\* value that does not convert raises.
FromMapping(c, v) ==
    IF ~(DOMAIN v.items \subseteq DOMAIN ClassFields[c]) THEN Refused
    ELSE SetTyped(ClassHint(c), FALSE,
                  Object(c, NoHint, [k \in DOMAIN ClassFields[c] |->
                                        IF k \in DOMAIN v.items THEN v.items[k] ELSE Missing]))

\* TupleConfig._item_type
_item_type(hint, i) == IF hint.variadic THEN hint.types[1] ELSE hint.types[i]

\* The node of item i; here too a config is kept.
TupleItem(hint, i, strict, item) ==
    IF item = Missing THEN Refused
    ELSE IF item.py = "config" THEN item
    ELSE set_leaf(_item_type(hint, i), FALSE, strict, item)

\* TupleConfig._set_value_impl: what it leaves in the node, and if it raises.
\* The items are set one by one in the node itself.
TupleImpl(hint, optional, strict, old, v) ==
    LET n    == Len(v.items)
        node == [i \in 1..n |-> TupleItem(hint, i, strict, v.items[i])]
        bad  == {i \in 1..n : node[i] = Refused}
        good == IF bad = {} THEN n ELSE Min(bad) - 1
    IN  IF _is_special(v)
        THEN IF v = None /\ ~optional THEN [content |-> old, raised |-> TRUE]
             ELSE [content |-> v, raised |-> FALSE]
        ELSE IF v.py \notin Sequences \/ (~hint.variadic /\ n # Len(hint.types))
        THEN [content |-> old, raised |-> TRUE]
        ELSE [content |-> Typed("tuple", hint, SubSeq(node, 1, good)), raised |-> bad # {}]

\* Mutant of SetTuple: what a refused value has set stays.
SetTupleHalf(hint, optional, strict, old, v) ==
    TupleImpl(hint, optional, strict, old, v)

\* TupleConfig._set_value: if it raises, what was there is put back.
SetTuple(hint, optional, strict, old, v) ==
    LET r == TupleImpl(hint, optional, strict, old, v)
    IN  [content |-> IF r.raised THEN old ELSE r.content, raised |-> r.raised]

-----------------------------------------------------------------------------
(* Unions.                                                                  *)

\* A member set to a value; a member is never optional by itself.
SetMember(hint, strict, v) ==
    IF hint.is = "leaf"
    THEN IF IsContainer(v) THEN Refused ELSE set_leaf(hint.t, FALSE, strict, v)
    ELSE IF hint.is = "tuple"
         THEN LET r == SetTuple(hint, FALSE, strict, Refused, v) IN r.content
    ELSE SetTyped(hint, strict, v)

Members(hint, kinds) == {m \in Range(hint.members) : m.is \in kinds}

\* Mutant of find_matches: what the value is typed with is not looked at.
find_matches_any(candidates, v) ==
    {SetMember(m, TRUE, v) : m \in candidates} \ {Refused}

\* find_matches: the candidates that accept the value.  Those whose type is
\* the one the value is typed with come before all others.
find_matches(candidates, v) ==
    LET same == {m \in candidates : m = v.hint}
    IN  {SetMember(m, TRUE, v) : m \in IF same = {} THEN candidates ELSE same} \ {Refused}

\* _set_container_value: one candidate must accept; if none of the preferred
\* ones does, one of the others.
_set_container_value(preferred, others, v) ==
    LET first == find_matches(preferred, v)
        found == IF first = {} THEN find_matches(others, v) ELSE first
    IN  IF Cardinality(found) = 1 THEN CHOOSE n \in found : TRUE ELSE Refused

\* select_structured_config_union_member: the first class of the object's mro
\* that is a member, or NoHint.
select_structured_config_union_member(hint, v) ==
    LET mro   == Bases[v.cls]
        found == {i \in DOMAIN mro : ClassHint(mro[i]) \in Range(hint.members)}
    IN  IF found = {} THEN NoHint ELSE ClassHint(mro[Min(found)])

\* Mutant of _set_mapping_value: a class takes a plain mapping.
_set_mapping_value_first(hint, old, v) ==
    LET classes == Members(hint, {"class"})
        dicts   == Members(hint, {"dict"})
    IN  IF classes = {} THEN _set_container_value(dicts, {}, v)
        ELSE FromMapping((CHOOSE m \in classes : TRUE).t, v)

\* _set_mapping_value: a plain mapping goes to the class or dict the union
\* holds; if it holds neither there must be one it can go to.
_set_mapping_value(hint, old, v) ==
    LET classes == Members(hint, {"class"})
        dicts   == Members(hint, {"dict"})
        active  == IF IsContainer(old) THEN old.hint ELSE NoHint
    IN  IF classes = {} \/ (v.hint # NoHint /\ dicts # {}) THEN _set_container_value(dicts, {}, v)
        ELSE IF active.is = "class" THEN FromMapping(active.t, v)
        ELSE IF active.is = "dict" THEN SetTyped(active, FALSE, v)
        ELSE IF Cardinality(classes) = 1 /\ dicts = {}
        THEN FromMapping((CHOOSE m \in classes : TRUE).t, v)
        ELSE Refused

\* UnionNode._set_value_impl
UnionImpl(hint, optional, old, v) ==
    IF _is_special(v) THEN (IF v = None /\ ~optional THEN Refused ELSE v)
    ELSE IF v.py = "object"
         THEN LET selected == select_structured_config_union_member(hint, v)
              IN  IF selected = NoHint THEN Refused ELSE SetTyped(selected, FALSE, v)
    ELSE IF v.py \in Sequences
         THEN LET kinds == Members(hint, Sequences)
                  same  == {m \in kinds : m.is = v.py}
              IN  _set_container_value(same, kinds \ same, v)
    ELSE IF v.py = "dict" THEN _set_mapping_value(hint, old, v)
    ELSE LET accepts == {i \in DOMAIN hint.members : SetMember(hint.members[i], TRUE, v) # Refused}
         IN  IF accepts = {} THEN Refused ELSE SetMember(hint.members[Min(accepts)], TRUE, v)

\* The content that replaces "old", if it is not Refused.
Stored(old, new) ==
    [content |-> IF new = Refused THEN old ELSE new, raised |-> new = Refused]

\* UnionNode._set_value
SetUnion(hint, optional, old, v) == Stored(old, UnionImpl(hint, optional, old, v))

-----------------------------------------------------------------------------
(* The field.                                                               *)

\* The node's _set_value(v), when it holds "old".
_set_value(f, old, v) ==
    CASE f.hint.is = "union" -> SetUnion(f.hint, f.optional, old, v)
      [] f.hint.is = "tuple" -> SetTuple(f.hint, f.optional, FALSE, old, v)
      [] f.hint.is = "leaf"  -> Stored(old, set_leaf(f.hint.t, f.optional, FALSE, v))

NoCall == [op |-> "none"]

Init == field \in Fields /\ content = Missing /\ call = NoCall

\* cfg.field = v
assign(v) ==
    \E r \in {_set_value(field, content, v)} :
        /\ content' = r.content
        /\ call' = [op |-> "assign", v |-> v, raised |-> r.raised]
        /\ UNCHANGED field

ItemKeys == IF content.py \in {"dict", "object"} THEN Keys
            ELSE IF content.py \in Sequences THEN DOMAIN content.items ELSE {}

\* cfg.field[k] = v, for what a union holds: items of a list or dict are not
\* converted, fields of a class are.  A tuple is immutable.
set_item(k, v) ==
    LET new == IF content.py = "object" /\ k \in DOMAIN content.items
               THEN set_leaf(ClassFields[content.cls][k], FALSE, FALSE, v)
               ELSE IF content.py \in {"dict", "list"}
               THEN set_leaf(content.hint.t, FALSE, TRUE, v)
               ELSE Refused
    IN  /\ field.hint.is = "union"
        /\ content' = IF new = Refused THEN content
                      ELSE [content EXCEPT !.items = [j \in {k} \cup DOMAIN @ |->
                                                      IF j = k THEN new ELSE @[j]]]
        /\ call' = [op |-> "set_item", v |-> v, raised |-> new = Refused]
        /\ UNCHANGED field

\* Mutant of dereference: the result is not checked.
dereference_any(v) ==
    /\ content.py = "inter" /\ field.hint.is \in {"leaf", "union"}
    /\ call' = [op |-> "dereference", v |-> v, raised |-> FALSE, result |-> v]
    /\ UNCHANGED <<field, content>>

\* Reading an interpolation that evaluates to v: the result is validated, and
\* for a value node converted (_validate_and_convert_interpolation_result).
dereference(v) ==
    /\ content.py = "inter" /\ field.hint.is \in {"leaf", "union"}
    /\ \E checked \in {IF field.hint.is = "union"
                       THEN UnionImpl(field.hint, field.optional, Missing, v)
                       ELSE set_leaf(field.hint.t, field.optional, FALSE, v)} :
          call' = [op |-> "dereference", v |-> v, raised |-> checked = Refused,
                   result |-> IF field.hint.is = "union" THEN v ELSE checked]
    /\ UNCHANGED <<field, content>>

Next ==
    \/ \E v \in Inputs : assign(v)
    \/ \E k \in ItemKeys, v \in Entries : set_item(k, v)
    \/ \E v \in Results : dereference(v)

Spec == Init /\ [][Next]_vars

-----------------------------------------------------------------------------
(* Properties.                                                              *)

\* v may stand where a leaf of type t, or of no particular type, is declared.
\* A config stored as an item is the exception: no type keeps it out.
LeafConforms(t, v) ==
    \/ v.py \in {"missing", "inter", "config"}
    \/ t = "Any" /\ ~IsContainer(v)
    \/ v.py = t
    \/ t = "literal" /\ v \in Literals

ItemsConform(types, items) == \A k \in DOMAIN items : LeafConforms(types[k], items[k])

\* ... and where one member of a union, or the hint of a field.
MemberConforms(hint, v) ==
    CASE hint.is = "leaf"  -> ~IsContainer(v) /\ LeafConforms(hint.t, v)
      [] hint.is \in {"list", "dict"} ->
            /\ v.py = hint.is /\ v.hint = hint
            /\ ItemsConform([k \in DOMAIN v.items |-> hint.t], v.items)
      [] hint.is = "class" ->
            /\ v.py = "object" /\ v.hint = hint /\ hint.t \in Range(Bases[v.cls])
            /\ DOMAIN v.items = DOMAIN ClassFields[v.cls]
            /\ ItemsConform(ClassFields[v.cls], v.items)
      [] hint.is = "tuple" ->
            /\ v.py = "tuple" /\ v.hint = hint
            /\ hint.variadic \/ Len(v.items) = Len(hint.types)
            /\ ItemsConform([i \in DOMAIN v.items |-> _item_type(hint, i)], v.items)

Conforms(f, v) ==
    \/ v.py \in {"missing", "inter"}
    \/ v = None /\ (f.optional \/ f.hint = LeafHint("Any"))
    \/ f.hint.is = "union" /\ \E i \in DOMAIN f.hint.members : MemberConforms(f.hint.members[i], v)
    \/ f.hint.is # "union" /\ MemberConforms(f.hint, v)

\* Whatever was assigned and wherever it was changed since, a typed field, and
\* each item of what it holds, is of the type it declares; so is what an
\* interpolation in a value node is read as.  (nodes.py, base.py:965-1146,
\* tupleconfig.py:452-522: converted here, exact there.)
ItemsTyped ==
    /\ Conforms(field, content)
    /\ call.op = "dereference" /\ ~call.raised /\ field.hint.is = "leaf"
       => Conforms(field, call.result)

\* A field takes back what it holds and then holds the same: no assignment
\* leaves a value that fits two members of the union, or none, without its
\* own type to decide (narrow_by_metadata, base.py:1160-1205), and converting
\* twice is converting once.
Reassignable ==
    _set_value(field, content, content) = [content |-> content, raised |-> FALSE]

\* A call that raises leaves the field as it was, and so does a read.  One on a
\* union stores scalars and sequences as they are given, never converted, and
\* a plain mapping leaves the class or dict that was active active.
SettersKeep ==
    /\ call'.raised => content' = content
    /\ call'.op = "assign" /\ ~call'.raised /\ field.hint.is = "union"
       => /\ ~IsContainer(call'.v) => content' = call'.v
          /\ call'.v.py \in Sequences => content'.items = call'.v.items
          /\ /\ call'.v.py = "dict" /\ call'.v.hint = NoHint
             /\ content.py \in {"object", "dict"}
             /\ \E i \in DOMAIN field.hint.members : field.hint.members[i].is = "class"
             => content'.hint = content.hint

AssignmentsKeep == [][SettersKeep]_vars

=============================================================================
