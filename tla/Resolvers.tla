------------------------------ MODULE Resolvers ------------------------------
(***************************************************************************)
(* Custom resolvers: the registry shared by all configs, and the cache of    *)
(* results in the root of every config: omegaconf.py, register_resolver.     *)
(*                                                                          *)
(* A resolver is the caller's code, and returns any value.  While it runs it *)
(* may read other interpolations, register resolvers and clear caches; the   *)
(* wrapper around it has looked up the cache before and stores into what it  *)
(* looked up afterwards.                                                    *)
(***************************************************************************)
EXTENDS Naturals, Sequences

CONSTANTS
    Config,     \* configs: their roots
    Name,       \* names of resolvers
    Defaults,   \* ... those of the resolvers OmegaConf registers itself
    Args,       \* the literals of the arguments
    Reads,      \* the interpolations the resolver of an interpolation may read
    ClearsCaches, \* whether resolvers replace caches
    Val,        \* the values resolvers return
    Strict,     \* ... those that match the annotation of the resolvers that have one
    NoVal,      \* no entry in a cache
    Cell,       \* the cache objects: |Config| + MaxDepth + 1, so that one is always free
    MaxDepth    \* bound on the resolvers that run at a time

Key == Name \X Args

ASSUME ResolverAssumption ==
    /\ Defaults \subseteq Name
    /\ Reads \in [Key -> SUBSET Key]
    /\ Strict \subseteq Val /\ NoVal \notin Val
    /\ MaxDepth \in Nat

\* A registration: register_resolver without and with use_cache, and the
\* legacy function, which always caches.  "strict": annotation_validation is
\* "error" and the return annotation admits the values Strict only.
Mode == {"plain", "cached", "legacy"}
Registration == [mode : {"plain", "cached"}, strict : BOOLEAN]
                    \cup [mode : {"legacy"}, strict : {FALSE}]
Unregistered == [mode |-> "none", strict |-> FALSE]
DefaultResolver == [mode |-> "plain", strict |-> FALSE]

VARIABLES
    registry,   \* BaseContainer._resolvers
    cacheOf,    \* _metadata.resolver_cache of each root: a cache object
    heap,       \* the content of each cache object
    calls,      \* the resolver calls that run, the innermost last
    out         \* the last operation that finished, and how

vars == <<registry, cacheOf, heap, calls, out>>

Empty == [k \in Key |-> NoVal]
Caching(reg) == reg.mode \in {"cached", "legacy"}

\* The resolver that runs, if one does, does such a thing.
MayRead(k) == \A i \in DOMAIN calls : i = Len(calls) => k \in Reads[calls[i].key]
MayClear == calls = <<>> \/ ClearsCaches

\* Cache objects nothing refers to.
InUse(used) == {used[c] : c \in Config} \cup {calls[i].cell : i \in DOMAIN calls}
Free == Cell \ InUse(cacheOf)

-----------------------------------------------------------------------------
TypeOK ==
    /\ registry \in [Name -> Registration \cup {Unregistered}]
    /\ cacheOf \in [Config -> Cell]
    /\ heap \in [Cell -> [Key -> Val \cup {NoVal}]]
    /\ calls \in Seq([config : Config, key : Key, reg : Registration, cell : Cell])
    /\ Len(calls) <= MaxDepth

Init ==
    /\ registry = [n \in Name |-> IF n \in Defaults THEN DefaultResolver ELSE Unregistered]
    /\ cacheOf \in [Config -> Cell]
    /\ \A c, d \in Config : cacheOf[c] = cacheOf[d] => c = d
    /\ heap = [cell \in Cell |-> Empty]
    /\ calls = <<>>
    /\ out = [op |-> "start"]

\* register_resolver(n, f, replace=replace, use_cache=...); legacy_register_resolver(n, f)
Register(n, reg, replace) ==
    /\ reg.mode = "legacy" => ~replace
    /\ registry' = IF ~replace /\ registry[n] # Unregistered
                   THEN registry ELSE [registry EXCEPT ![n] = reg]
    /\ UNCHANGED <<cacheOf, heap, calls, out>>

ClearResolver(n) ==
    /\ registry' = [registry EXCEPT ![n] = Unregistered]
    /\ UNCHANGED <<cacheOf, heap, calls, out>>

ClearResolvers ==
    /\ registry' = [n \in Name |-> IF n \in Defaults THEN DefaultResolver ELSE Unregistered]
    /\ UNCHANGED <<cacheOf, heap, calls, out>>

\* The access to k on c is over: it gives v, or raises.
Value(reg, c, k, v) ==
    out' = [op |-> "value", config |-> c, key |-> k, val |-> v, cached |-> Caching(reg),
            strict |-> reg.strict]
Raised == out' = [op |-> "raised"]

Admitted(reg, v) == reg.strict => v \in Strict

\* Mutant of Hit: the value in the cache is not checked.
HitUnchecked(c, k) ==
    LET reg == registry[k[1]]
        v   == heap[cacheOf[c]][k]
    IN  /\ MayRead(k)
        /\ Caching(reg) /\ v # NoVal
        /\ Value(reg, c, k, v)
        /\ UNCHANGED <<registry, cacheOf, heap, calls>>

\* An interpolation of a caching resolver is read and its value is in the cache.
Hit(c, k) ==
    LET reg == registry[k[1]]
        v   == heap[cacheOf[c]][k]
    IN  /\ MayRead(k)
        /\ Caching(reg) /\ v # NoVal
        /\ IF Admitted(reg, v) THEN Value(reg, c, k, v) ELSE Raised
        /\ UNCHANGED <<registry, cacheOf, heap, calls>>

\* Mutant of Call: the resolver is called without a look at the cache.
CallAnyway(c, k) ==
    LET reg == registry[k[1]]
    IN  /\ MayRead(k) /\ Len(calls) < MaxDepth
        /\ reg # Unregistered
        /\ calls' = Append(calls, [config |-> c, key |-> k, reg |-> reg, cell |-> cacheOf[c]])
        /\ UNCHANGED <<registry, cacheOf, heap, out>>

\* ... or it is not, and the resolver is called.
Call(c, k) ==
    LET reg == registry[k[1]]
    IN  /\ MayRead(k) /\ Len(calls) < MaxDepth
        /\ reg # Unregistered
        /\ ~(Caching(reg) /\ heap[cacheOf[c]][k] # NoVal)
        /\ calls' = Append(calls, [config |-> c, key |-> k, reg |-> reg, cell |-> cacheOf[c]])
        /\ UNCHANGED <<registry, cacheOf, heap, out>>

\* The interpolation names no resolver, or an argument does not match its annotation.
Refused(k) ==
    LET reg == registry[k[1]]
    IN  /\ MayRead(k)
        /\ reg = Unregistered \/ reg.strict
        /\ Raised
        /\ UNCHANGED <<registry, cacheOf, heap, calls>>

\* Mutant of Return: a result is stored before it is checked.
ReturnUnchecked(v) ==
    LET f == calls[Len(calls)]
    IN  /\ calls # <<>>
        /\ calls' = SubSeq(calls, 1, Len(calls) - 1)
        /\ heap' = IF Caching(f.reg) THEN [heap EXCEPT ![f.cell][f.key] = v] ELSE heap
        /\ IF Admitted(f.reg, v) THEN Value(f.reg, f.config, f.key, v) ELSE Raised
        /\ UNCHANGED <<registry, cacheOf>>

\* The innermost resolver returns v: it is checked, stored and returned.
Return(v) ==
    LET f == calls[Len(calls)]
    IN  /\ calls # <<>>
        /\ calls' = SubSeq(calls, 1, Len(calls) - 1)
        /\ IF Admitted(f.reg, v)
           THEN /\ heap' = IF Caching(f.reg) THEN [heap EXCEPT ![f.cell][f.key] = v] ELSE heap
                /\ Value(f.reg, f.config, f.key, v)
           ELSE Raised /\ UNCHANGED heap
        /\ UNCHANGED <<registry, cacheOf>>

\* The innermost resolver raises, on its own or because a read of its own did.
Throw ==
    /\ calls # <<>>
    /\ calls' = SubSeq(calls, 1, Len(calls) - 1)
    /\ Raised
    /\ UNCHANGED <<registry, cacheOf, heap>>

\* set_cache: the config gets a new cache object with the given content.
SetCache(c, content) ==
    \E cell \in Free :
        /\ cacheOf' = [cacheOf EXCEPT ![c] = cell]
        /\ heap' = [heap EXCEPT ![cell] = content]

ClearCache(c) ==
    /\ MayClear
    /\ SetCache(c, Empty)
    /\ out' = [op |-> "clear", config |-> c]
    /\ UNCHANGED <<registry, calls>>

\* Mutant of CopyCache: the two configs share the cache object.
CopyCacheShared(from, to) ==
    /\ MayClear
    /\ cacheOf' = [cacheOf EXCEPT ![to] = cacheOf[from]]
    /\ out' = [op |-> "copy", config |-> to, from |-> from]
    /\ UNCHANGED <<registry, heap, calls>>

\* copy_cache and set_cache(to, get_cache(from)); copying a config copies its
\* cache as well.
CopyCache(from, to) ==
    /\ MayClear
    /\ SetCache(to, heap[cacheOf[from]])
    /\ out' = [op |-> "copy", config |-> to, from |-> from]
    /\ UNCHANGED <<registry, calls>>

Next ==
    \/ \E n \in Name, reg \in Registration, replace \in BOOLEAN : Register(n, reg, replace)
    \/ \E n \in Name : ClearResolver(n)
    \/ ClearResolvers
    \/ \E c \in Config, k \in Key : Hit(c, k) \/ Call(c, k)
    \/ \E k \in Key : Refused(k)
    \/ \E v \in Val : Return(v)
    \/ Throw
    \/ \E c \in Config : ClearCache(c)
    \/ \E from, to \in Config : CopyCache(from, to)

Spec == Init /\ [][Next]_vars

-----------------------------------------------------------------------------
\* While a cached interpolation is computed, nobody else has computed it: the
\* entry its value will be stored in is there and empty (resolver_wrapper).
ComputedOnce ==
    \A i \in DOMAIN calls :
        Caching(calls[i].reg) => heap[cacheOf[calls[i].config]][calls[i].key] = NoVal

\* With use_cache an interpolation reads the same value until the cache of its
\* config is cleared or replaced, whatever the resolvers that run read and
\* register in the meantime; a read that raises leaves nothing in the cache for
\* a later read of a less strict resolver; and no two configs share what they
\* cache (resolver_wrapper, set_cache).
Memo == INSTANCE ResolverMemo WITH memo <- [c \in Config |-> heap[cacheOf[c]]]

Memoizes == Memo!Spec

\* No read under annotation_validation "error" returns a value that does not
\* match the annotation: neither from the resolver that was registered when the
\* read began, nor from a cache another resolver or another config filled
\* (validate_return).
StrictHolds == [][out'.op = "value" /\ out'.strict => out'.val \in Strict]_vars
=============================================================================
