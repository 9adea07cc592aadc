------------------------------ MODULE DictOps ------------------------------
(***************************************************************************)
(* DictConfig: the operations of a Python dict on a dict of nodes, closed    *)
(* to new keys by the struct flag or by the class of a structured config,    *)
(* and typed by the class's fields or by an element type: dictconfig.py.     *)
(*                                                                          *)
(* A value stored by a caller is validated by the node it is stored in; a    *)
(* caller can also store a node of a type of its own, which then takes the   *)
(* place of the node that was there.                                         *)
(***************************************************************************)
EXTENDS Integers, Sequences, SequencesExt

CONSTANTS
    Fields,       \* the fields of the class of a structured config, in order
    Key,          \* the keys of configs
    Norm,         \* by schema, the key each name callers use is normalised to: an enum
                  \* member and its name are one key of a dict
    BadKey,       \* ... or that it is no key of the key type
    Val,          \* the values callers store
    Untypable,    \* ... those the declared type refuses
    Foreign,      \* ... those that also come in nodes of another type, and all it takes
    Missing,      \* ... "???"
    Dangling,     \* ... interpolations whose target does not exist
    Target,       \* the value every value resolves to: itself, unless it is an interpolation
    Default,      \* the default value callers pass to get and pop
    NoDefault,    \* ... when they pass none
    Nothing,      \* what calls return that return nothing
    DeletesAttrs, \* whether callers delete attributes: del cfg.key
    StoresNodes,  \* whether callers store nodes of another type
    MaxLen,       \* bound on the number of entries
    MaxArg        \* bound on the number of entries passed to a call

ASSUME DictAssumption ==
    /\ DOMAIN Norm \subseteq {"class", "dict"} /\ BadKey \notin Key
    /\ \A s \in DOMAIN Norm : \A n \in DOMAIN Norm[s] : Norm[s][n] \in Key \cup {BadKey}
    /\ \A s \in DOMAIN Norm : \A k \in DOMAIN Norm[s] \cap Key : Norm[s][k] = k
    /\ Fields \in Seq(Key) /\ Len(Fields) <= MaxLen /\ MaxArg <= MaxLen
    /\ \A i, j \in DOMAIN Fields : Fields[i] = Fields[j] => i = j
    /\ Untypable \cup Foreign \cup Missing \cup Dangling \subseteq Val
    /\ Missing \cup Dangling \subseteq Foreign \ Untypable
    /\ Target \in [Val -> Val]
    /\ MaxLen \in Nat /\ MaxArg \in Nat

VARIABLES
    schema,     \* "class": a structured config, "dict": a dict with an element type
    content,    \* _content: entries in insertion order, each with the type of its node
    isDict,     \* FALSE: _content is None, "???" or an interpolation
    isObject,   \* _metadata.object_type is the class
    struct,     \* flag struct of the node itself: "on", "off" or "unset"
    outer,      \* flag struct of the node it inherits from
    readonly,   \* flag readonly
    call,       \* the last call, with its arguments
    ok,         \* whether it returned or raised
    result      \* what it returned

vars == <<schema, content, isDict, isObject, struct, outer, readonly, call, ok, result>>
flags == <<struct, outer, readonly>>

Flag == {"on", "off", "unset"}
Hint == {"declared", "any", "foreign"}
Entry == [key : Key, val : Val, hint : Hint]

\* The names callers may use, and the key a name stands for
\* (_validate_and_normalize_key).
Name == DOMAIN Norm[schema]
Normal(n) == Norm[schema][n]
Normalised(entries) == [i \in DOMAIN entries |-> [entries[i] EXCEPT !.key = Normal(@)]]
Entries == {es \in UNION {[1 .. n -> [key : Name, val : Val]] : n \in 0 .. MaxArg} :
                \A i, j \in DOMAIN es : es[i].key = es[j].key => i = j}

\* Reading an entry raises: its interpolation has no target, or one that is
\* refused by the node the interpolation is in.
Broken(e) == e.val \in Dangling \/ (e.hint = "foreign" /\ Target[e.val] \notin Foreign)
Keys(c) == {c[i].key : i \in DOMAIN c}
Place(c, k) == CHOOSE i \in DOMAIN c : c[i].key = k
At(c, k) == c[Place(c, k)]

\* No key can be added or deleted: the struct flag, inherited or not, or the
\* class, unless the struct flag of the node itself is off.
Closed == struct = "on" \/ (struct = "unset" /\ (outer = "on" \/ isObject))

-----------------------------------------------------------------------------
(* The steps the operations are made of.  Each takes a content c and gives  *)
(* the content it leaves, and whether it raised.                            *)

Outcome(c, returns) == [c |-> c, ok |-> returns]

\* Mutant of Put: a key that is there is not found.
PutLast(c, e) == Append(c, e)

Put(c, e) ==
    IF e.key \in Keys(c)
    THEN [i \in DOMAIN c |-> IF c[i].key = e.key THEN e ELSE c[i]]
    ELSE Append(c, e)

Drop(c, k) == IF k \in Keys(c) THEN RemoveAt(c, Place(c, k)) ELSE c

\* The type of the node a value for k is stored in: the node that is there, or
\* a new one of the element type (which is Any in a structured config).
HintFor(c, k) ==
    IF k \in Keys(c) THEN At(c, k).hint ELSE IF schema = "dict" THEN "declared" ELSE "any"

Refuses(hint, v) ==
    \/ hint = "declared" /\ v \in Untypable
    \/ hint = "foreign" /\ v \notin Foreign

\* Where a value is stored: in the config as it is, or while its content is
\* replaced, with the struct and readonly flags overridden.
Here == [dict |-> isDict, closed |-> Closed, readonly |-> readonly]
Filling == [dict |-> TRUE, closed |-> FALSE, readonly |-> FALSE]

\* Mutant of Admits: a new key is checked against the struct flag only.
AdmitsInClass(place, c, k) ==
    /\ place.dict /\ ~place.readonly /\ k # BadKey
    /\ k \in Keys(c) \/ ~place.closed \/ struct # "on"

\* _validate_get and the readonly check of _set_item_impl
Admits(place, c, k) ==
    /\ place.dict /\ ~place.readonly /\ k # BadKey
    /\ k \in Keys(c) \/ ~place.closed

\* Mutant of SetItemImpl: the value is stored before the node refuses it.
SetItemEagerly(place, c, k, v) ==
    IF Admits(place, c, k)
    THEN Outcome(Put(c, [key |-> k, val |-> v, hint |-> HintFor(c, k)]),
                 ~Refuses(HintFor(c, k), v))
    ELSE Outcome(c, FALSE)

\* _set_item_impl, for a value
SetItemImpl(place, c, k, v) ==
    IF Admits(place, c, k) /\ ~Refuses(HintFor(c, k), v)
    THEN Outcome(Put(c, [key |-> k, val |-> v, hint |-> HintFor(c, k)]), TRUE)
    ELSE Outcome(c, FALSE)

\* _set_item_impl, for a typed node holding v: it replaces the node, if its
\* value passes the element type.
SetNodeImpl(place, c, k, v) ==
    IF Admits(place, c, k) /\ ~(schema = "dict" /\ v \in Untypable)
    THEN Outcome(Put(c, [key |-> k, val |-> v, hint |-> "foreign"]), TRUE)
    ELSE Outcome(c, FALSE)

\* One entry after the other until one is refused.
Fill(place, c, entries) ==
    FoldLeft(LAMBDA r, e : IF r.ok THEN SetItemImpl(place, r.c, Normal(e.key), e.val) ELSE r,
             Outcome(c, TRUE), entries)

\* get_structured_config_data: the nodes of an instance of the class
Instance(vals) ==
    [i \in DOMAIN Fields |-> [key |-> Fields[i], val |-> vals[i], hint |-> "declared"]]

-----------------------------------------------------------------------------
TypeOK ==
    /\ content \in Seq(Entry) /\ Len(content) <= MaxLen
    /\ \A i, j \in DOMAIN content : content[i].key = content[j].key => i = j
    /\ isDict \in BOOLEAN /\ isObject \in BOOLEAN /\ ok \in BOOLEAN /\ readonly \in BOOLEAN
    /\ struct \in Flag /\ outer \in Flag
    /\ ~isDict => content = <<>> /\ ~isObject
    /\ schema \in DOMAIN Norm /\ (isObject => schema = "class")

\* A field of a structured config: of a class, or of type Dict[K, T].
Init ==
    /\ schema \in DOMAIN Norm
    /\ \/ schema = "dict" /\ content = <<>>
       \/ /\ schema = "class"
          /\ \E vals \in [DOMAIN Fields -> Val \ Untypable] : content = Instance(vals)
    /\ isDict = TRUE
    /\ isObject = (schema = "class")
    /\ struct = "unset" /\ outer = "unset" /\ readonly = FALSE
    /\ call = [op |-> "create"]
    /\ ok = TRUE
    /\ result = Nothing

\* The call c leaves the content of outcome r, and returns v or raises.
Finish(c, r, v) ==
    /\ Len(r.c) <= MaxLen
    /\ content' = r.c
    /\ call' = c
    /\ ok' = r.ok
    /\ result' = IF r.ok THEN v ELSE Nothing
    /\ UNCHANGED <<schema, isDict, isObject, flags>>

Raise(c) == Finish(c, Outcome(content, FALSE), Nothing)
Return(c, v) == Finish(c, Outcome(content, TRUE), v)

\* The entry of k is deleted, and v returned.
Deletes(c, k, v) == Finish(c, Outcome(Drop(content, k), TRUE), v)

\* cfg[n] = v and cfg.n = v
SetItem(n, v) ==
    Finish([op |-> "setitem", key |-> Normal(n), val |-> v],
           SetItemImpl(Here, content, Normal(n), v), Nothing)

SetNode(n, v) ==
    /\ StoresNodes
    /\ Finish([op |-> "setitem", key |-> Normal(n), val |-> v],
              SetNodeImpl(Here, content, Normal(n), v), Nothing)

\* cfg.update({...})
Update(entries) ==
    Finish([op |-> "update", entries |-> Normalised(entries)], Fill(Here, content, entries), Nothing)

\* cfg[n], cfg.n and cfg.get(n, default).  A closed config that is missing or an
\* interpolation misses its keys, every other one without content raises.
Get(n, default) ==
    LET c == [op |-> "get", key |-> Normal(n), default |-> default]
        k == Normal(n)
    IN  IF k = BadKey THEN Raise(c)
        ELSE IF ~isDict
        THEN Raise(c) \/ (Closed /\ default # NoDefault /\ Return(c, default))
        ELSE IF k \notin Keys(content) \/ At(content, k).val \in Missing
        THEN IF default = NoDefault THEN Raise(c) ELSE Return(c, default)
        ELSE IF Broken(At(content, k)) THEN Raise(c)
        ELSE Return(c, Target[At(content, k).val])

\* n in cfg.  An interpolation that cannot be resolved counts as a value; the
\* question raises on None, and not on "???".
HasValue(k) == k \in Keys(content) /\ At(content, k).val \notin Missing
HasKey(n) ==
    LET c == [op |-> "contains", key |-> Normal(n)]
    IN  Return(c, HasValue(Normal(n))) \/ (~isDict /\ Raise(c))

\* del cfg[n]
DelItem(n) ==
    LET c == [op |-> "delitem", key |-> Normal(n)]
    IN  IF readonly \/ Closed \/ Normal(n) \notin Keys(content)
        THEN Raise(c) ELSE Deletes(c, Normal(n), Nothing)

\* del cfg.n: the name is not normalised, and a closed config is not respected.
DelAttr(n) ==
    LET c == [op |-> "delattr", key |-> n]
    IN  /\ DeletesAttrs
        /\ IF readonly \/ n \notin Keys(content) THEN Raise(c) ELSE Deletes(c, n, Nothing)

\* Mutant of Pop: the entry is deleted before its value is resolved.
PopThenRead(n, default) ==
    LET c == [op |-> "pop", key |-> Normal(n), default |-> default]
        k == Normal(n)
    IN  IF ~isDict \/ readonly \/ Closed \/ k = BadKey THEN Raise(c)
        ELSE IF ~HasValue(k)
        THEN IF default = NoDefault THEN Raise(c) ELSE Deletes(c, k, default)
        ELSE Finish(c, Outcome(Drop(content, k), ~Broken(At(content, k))),
                    Target[At(content, k).val])

\* cfg.pop(n, default) resolves the value and then deletes the entry.
Pop(n, default) ==
    LET c == [op |-> "pop", key |-> Normal(n), default |-> default]
        k == Normal(n)
    IN  IF ~isDict \/ readonly \/ Closed \/ k = BadKey THEN Raise(c)
        ELSE IF ~HasValue(k)
        THEN IF default = NoDefault THEN Raise(c) ELSE Deletes(c, k, default)
        ELSE IF Broken(At(content, k)) THEN Raise(c)
        ELSE Deletes(c, k, Target[At(content, k).val])

\* cfg.setdefault(n, v)
SetDefault(n, v) ==
    LET c == [op |-> "setdefault", key |-> Normal(n), val |-> v]
        k == Normal(n)
    IN  IF ~HasValue(k) THEN Finish(c, SetItemImpl(Here, content, k, v), v)
        ELSE IF Broken(At(content, k)) THEN Raise(c)
        ELSE Return(c, Target[At(content, k).val])

\* Mutant of Poppable: no readonly check.
PoppableAnyway == {n \in 0 .. Len(content) :
                /\ n > 0 => ~Closed
                /\ \A i \in 1 .. n : ~Broken(content[i]) /\ content[i].val \notin Missing}

\* MutableMapping.popitem reads and deletes the first entry; clear does so
\* until there is none or one of the two raises.
Poppable == {n \in 0 .. Len(content) :
                /\ n > 0 => ~readonly /\ ~Closed
                /\ \A i \in 1 .. n : ~Broken(content[i]) /\ content[i].val \notin Missing}

PopItem ==
    LET c == [op |-> "popitem"]
    IN  IF 1 \notin Poppable THEN Raise(c)
        ELSE Deletes(c, Head(content).key, Target[Head(content).val])

Clear ==
    LET n == Max(Poppable)
    IN  Finish([op |-> "clear"],
               Outcome(SubSeq(content, n + 1, Len(content)), n = Len(content)), Nothing)

\* parent.key = {...} for a field of type Dict[K, T]: _set_value drops the
\* content, fills it and restores it if an entry is refused.  A DictConfig as
\* the value resets the flags of the node; a plain dict does not.  (Callers do
\* not assign a DictConfig that has two keys the key type makes one.)
AssignDict(entries, isConfig) ==
    LET r == Fill(Filling, <<>>, entries)
    IN  /\ schema = "dict"
        /\ isConfig => \A i, j \in DOMAIN entries :
                          Normal(entries[i].key) = Normal(entries[j].key) => i = j
        /\ content' = IF r.ok THEN r.c ELSE content
        /\ isDict' = (isDict \/ r.ok)
        /\ struct' = IF isConfig THEN "unset" ELSE struct
        /\ readonly' = (readonly /\ ~isConfig)
        /\ call' = [op |-> "assign", entries |-> Normalised(entries)]
        /\ ok' = r.ok
        /\ result' = Nothing
        /\ UNCHANGED <<schema, isObject, outer>>

\* Mutant of AssignObject: the content is not restored when a field is refused.
AssignObjectHalfway(vals, isConfig) ==
    LET accepted == \A i \in DOMAIN vals : vals[i] \notin Untypable
    IN  /\ schema = "class"
        /\ isConfig => accepted
        /\ content' = IF accepted THEN Instance(vals) ELSE <<>>
        /\ isDict' = (isDict \/ accepted)
        /\ isObject' = accepted
        /\ struct' = IF isConfig THEN "unset" ELSE struct
        /\ readonly' = (readonly /\ ~isConfig)
        /\ call' = [op |-> "assign",
                    entries |-> [i \in DOMAIN vals |-> [key |-> Fields[i], val |-> vals[i]]]]
        /\ ok' = accepted
        /\ result' = Nothing
        /\ UNCHANGED <<schema, outer>>

\* parent.key = an instance of the class, or a config of it (whose fields have
\* been accepted): the type of the node is cleared, and set when the fields
\* are in; if one is refused only the content is restored.
AssignObject(vals, isConfig) ==
    LET accepted == \A i \in DOMAIN vals : vals[i] \notin Untypable
    IN  /\ schema = "class"
        /\ isConfig => accepted
        /\ content' = IF accepted THEN Instance(vals) ELSE content
        /\ isDict' = (isDict \/ accepted)
        /\ isObject' = accepted
        /\ struct' = IF isConfig THEN "unset" ELSE struct
        /\ readonly' = (readonly /\ ~isConfig)
        /\ call' = [op |-> "assign",
                    entries |-> [i \in DOMAIN vals |-> [key |-> Fields[i], val |-> vals[i]]]]
        /\ ok' = accepted
        /\ result' = Nothing
        /\ UNCHANGED <<schema, outer>>

\* parent.key = None, "???" or an interpolation.
AssignSpecial ==
    /\ content' = <<>>
    /\ isDict' = FALSE
    /\ isObject' = FALSE
    /\ call' = [op |-> "assign", entries |-> <<>>]
    /\ ok' = TRUE
    /\ result' = Nothing
    /\ UNCHANGED <<schema, flags>>

\* OmegaConf.set_struct and set_readonly, on the config or on its parent
SetStruct(b) == struct' = b /\ UNCHANGED outer
SetOuter(b) == outer' = b /\ UNCHANGED struct
SetFlags ==
    /\ \/ \E b \in Flag : (SetStruct(b) \/ SetOuter(b)) /\ UNCHANGED readonly
       \/ \E b \in BOOLEAN : readonly' = b /\ UNCHANGED <<struct, outer>>
    /\ UNCHANGED <<schema, content, isDict, isObject, call, ok, result>>

Next ==
    \/ \E n \in Name, v \in Val : SetItem(n, v) \/ SetDefault(n, v)
    \/ \E n \in Name, v \in Foreign : SetNode(n, v)
    \/ \E n \in Name, default \in {Default, NoDefault} : Get(n, default) \/ Pop(n, default)
    \/ \E n \in Name : HasKey(n) \/ DelItem(n) \/ DelAttr(n)
    \/ \E entries \in Entries : Update(entries)
    \/ PopItem
    \/ Clear
    \/ \E entries \in Entries, isConfig \in BOOLEAN : AssignDict(entries, isConfig)
    \/ \E vals \in [DOMAIN Fields -> Val], isConfig \in BOOLEAN : AssignObject(vals, isConfig)
    \/ AssignSpecial
    \/ SetFlags

Spec == Init /\ [][Next]_vars

-----------------------------------------------------------------------------
\* Whatever operations raised on the way, each key has one node, and a node
\* holds no value its own type refuses (_set_value, _wrap_value_and_set).
NodesAccept == TypeOK /\ \A i \in DOMAIN content : ~Refuses(content[i].hint, content[i].val)

\* The keys of a closed config stay what they are: only deleting an attribute
\* and assigning the whole config change them (_validate_get, __delitem__, pop).
KeysFixed ==
    [][Closed /\ call'.op \notin {"delattr", "assign"} => Keys(content') = Keys(content)]_vars

\* A call that raises leaves a readonly config as it was, and so does one that
\* returns, unless it assigns the whole config.
ReadonlyHolds ==
    [][readonly /\ call'.op # "assign" => content' = content]_vars

\* The operations are those of a Python dict: each takes effect as a whole and
\* returns what it should, or raises and changes nothing.
Py == INSTANCE PyDict WITH
        dict <- [i \in DOMAIN content |-> [key |-> content[i].key, val |-> content[i].val]],
        Reads <- Target

ImplementsDict == Py!Spec
=============================================================================
