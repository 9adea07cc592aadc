-------------------------- MODULE ResolversProofs --------------------------
(* Proofs about Resolvers, for any set of configs, resolvers and values.    *)
EXTENDS Resolvers, TLAPS

Frame == [config : Config, key : Key, reg : Registration, cell : Cell]

\* Popping the innermost call leaves the others as they are.
LEMMA PopFacts ==
    ASSUME NEW s \in Seq(Frame), s # <<>>
    PROVE  LET p == SubSeq(s, 1, Len(s) - 1)
           IN  /\ p \in Seq(Frame) /\ Len(p) = Len(s) - 1
               /\ Len(s) \in DOMAIN s /\ s[Len(s)] \in Frame
               /\ \A i \in DOMAIN p : i \in DOMAIN s /\ i < Len(s) /\ p[i] = s[i]
  <1>1. Len(s) \in Nat \ {0} /\ DOMAIN s = 1 .. Len(s)
    OBVIOUS
  <1>2. Len(SubSeq(s, 1, Len(s) - 1)) = Len(s) - 1
    BY <1>1
  <1>3. \A i \in 1 .. Len(s) - 1 : SubSeq(s, 1, Len(s) - 1)[i] = s[i]
    BY <1>1
  <1>4. SubSeq(s, 1, Len(s) - 1) \in Seq(Frame)
    BY <1>1
  <1> QED
    BY <1>1, <1>2, <1>3, <1>4

\* Starting a call leaves the others as they are.
LEMMA PushFacts ==
    ASSUME NEW s \in Seq(Frame), NEW x \in Frame
    PROVE  LET p == Append(s, x)
           IN  /\ p \in Seq(Frame) /\ Len(p) = Len(s) + 1
               /\ \A i \in DOMAIN p : i \in DOMAIN s \/ i = Len(p)
               /\ \A i \in DOMAIN s : i \in DOMAIN p /\ i < Len(p) /\ p[i] = s[i]
               /\ p[Len(p)] = x
  OBVIOUS

LEMMA FrameFacts ==
    ASSUME NEW s \in Seq(Frame), NEW i \in DOMAIN s
    PROVE  s[i] \in Frame /\ s[i].key \in Key /\ s[i].config \in Config /\ s[i].cell \in Cell
  <1>1. s[i] \in Frame
    OBVIOUS
  <1> QED
    BY <1>1 DEF Frame

\* What a name is registered as, if it is registered.
LEMMA RegistrationFacts ==
    ASSUME TypeOK, NEW k \in Key
    PROVE  /\ registry[k[1]] \in Registration \cup {Unregistered}
           /\ registry[k[1]] # Unregistered => registry[k[1]] \in Registration
           /\ Caching(registry[k[1]]) => registry[k[1]] \in Registration
  <1>1. k[1] \in Name
    BY DEF Key
  <1>2. registry[k[1]] \in Registration \cup {Unregistered}
    BY <1>1 DEF TypeOK
  <1>3. ~Caching(Unregistered)
    BY DEF Caching, Unregistered
  <1> QED
    BY <1>2, <1>3

-----------------------------------------------------------------------------
(* Types.                                                                   *)

LEMMA RegisterTypes ==
    ASSUME TypeOK, NEW n \in Name, NEW reg \in Registration \cup {Unregistered}
    PROVE  [registry EXCEPT ![n] = reg] \in [Name -> Registration \cup {Unregistered}]
  BY DEF TypeOK

LEMMA SetCacheTypes ==
    ASSUME TypeOK, NEW c \in Config, NEW content \in [Key -> Val \cup {NoVal}],
           SetCache(c, content)
    PROVE  cacheOf' \in [Config -> Cell] /\ heap' \in [Cell -> [Key -> Val \cup {NoVal}]]
  BY DEF SetCache, Free, TypeOK

\* An entry is stored in a cache object.
LEMMA StoreFacts ==
    ASSUME TypeOK, NEW cell \in Cell, NEW k \in Key, NEW v \in Val
    PROVE  LET stored == [heap EXCEPT ![cell][k] = v]
           IN  /\ stored \in [Cell -> [Key -> Val \cup {NoVal}]]
               /\ stored[cell] = [heap[cell] EXCEPT ![k] = v]
               /\ \A d \in Cell \ {cell} : stored[d] = heap[d]
  <1>1. heap \in [Cell -> [Key -> Val \cup {NoVal}]]
    BY DEF TypeOK
  <1>2. [heap[cell] EXCEPT ![k] = v] \in [Key -> Val \cup {NoVal}]
    BY <1>1
  <1>3. [heap EXCEPT ![cell][k] = v] = [heap EXCEPT ![cell] = [heap[cell] EXCEPT ![k] = v]]
    BY <1>1
  <1> QED
    BY <1>1, <1>2, <1>3

LEMMA EmptyType == Empty \in [Key -> Val \cup {NoVal}]
  BY DEF Empty

LEMMA InitTypes == Init => TypeOK
  <1> SUFFICES ASSUME Init PROVE TypeOK
    OBVIOUS
  <1>1. registry \in [Name -> Registration \cup {Unregistered}]
    BY DEF Init, DefaultResolver, Registration, Unregistered
  <1>2. heap \in [Cell -> [Key -> Val \cup {NoVal}]]
    BY EmptyType DEF Init
  <1>3. calls \in Seq([config : Config, key : Key, reg : Registration, cell : Cell])
        /\ Len(calls) <= MaxDepth
    BY ResolverAssumption DEF Init
  <1> QED
    BY <1>1, <1>2, <1>3 DEF Init, TypeOK

\* Each operation keeps the types.
LEMMA NextTypes == TypeOK /\ [Next]_vars => TypeOK'
  <1> SUFFICES ASSUME TypeOK, [Next]_vars PROVE TypeOK'
    OBVIOUS
  <1> USE DEF TypeOK
  <1>1. ASSUME NEW n \in Name, NEW reg \in Registration, NEW replace \in BOOLEAN,
               Register(n, reg, replace)
        PROVE  TypeOK'
    BY <1>1 DEF Register
  <1>2. ASSUME NEW n \in Name, ClearResolver(n) PROVE TypeOK'
    BY <1>2 DEF ClearResolver
  <1>3. CASE ClearResolvers
    BY <1>3 DEF ClearResolvers, DefaultResolver, Registration
  <1>4. ASSUME NEW c \in Config, NEW k \in Key, Hit(c, k) PROVE TypeOK'
    BY <1>4 DEF Hit
  <1>5. ASSUME NEW c \in Config, NEW k \in Key, Call(c, k) PROVE TypeOK'
    <2> DEFINE x == [config |-> c, key |-> k, reg |-> registry[k[1]], cell |-> cacheOf[c]]
    <2>1. registry[k[1]] \in Registration
      BY <1>5, RegistrationFacts DEF Call
    <2>2. x \in Frame
      BY <2>1 DEF Frame
    <2>3. calls' = Append(calls, x) /\ Len(calls) < MaxDepth
          /\ registry' = registry /\ cacheOf' = cacheOf /\ heap' = heap
      BY <1>5 DEF Call
    <2> HIDE DEF x
    <2>4. calls' \in Seq(Frame) /\ Len(calls') = Len(calls) + 1
      BY <2>2, <2>3, PushFacts DEF Frame
    <2>5. Len(calls') <= MaxDepth
      BY <2>3, <2>4, ResolverAssumption DEF Frame
    <2> QED
      BY <2>3, <2>4, <2>5 DEF Frame
  <1>6. ASSUME NEW k \in Key, Refused(k) PROVE TypeOK'
    BY <1>6 DEF Refused
  <1>7. ASSUME NEW v \in Val, Return(v) PROVE TypeOK'
    <2> DEFINE f == calls[Len(calls)]
    <2>1. f \in Frame /\ calls' \in Seq(Frame) /\ Len(calls') = Len(calls) - 1
      BY <1>7, PopFacts DEF Return, Frame
    <2>2. heap' = heap \/ heap' = [heap EXCEPT ![f.cell][f.key] = v]
      BY <1>7 DEF Return
    <2>3. f.cell \in Cell /\ f.key \in Key
      BY <2>1 DEF Frame
    <2> HIDE DEF f
    <2>4. heap' \in [Cell -> [Key -> Val \cup {NoVal}]]
      <3>1. CASE heap' = heap
        BY <3>1
      <3>2. CASE heap' = [heap EXCEPT ![f.cell][f.key] = v]
        <4>1. [heap EXCEPT ![f.cell][f.key] = v] \in [Cell -> [Key -> Val \cup {NoVal}]]
          BY <2>3, StoreFacts
        <4> QED
          BY <3>2, <4>1
      <3> QED
        BY <2>2, <3>1, <3>2
    <2>5. Len(calls') <= MaxDepth
      BY <2>1, ResolverAssumption DEF Frame
    <2> QED
      BY <1>7, <2>1, <2>4, <2>5 DEF Return, Frame
  <1>8. CASE Throw
    <2>1. calls' \in Seq(Frame) /\ Len(calls') = Len(calls) - 1
      BY <1>8, PopFacts DEF Throw, Frame
    <2>2. Len(calls') <= MaxDepth
      BY <2>1, ResolverAssumption DEF Frame
    <2> QED
      BY <1>8, <2>1, <2>2 DEF Throw, Frame
  <1>9. ASSUME NEW c \in Config, ClearCache(c) PROVE TypeOK'
    BY <1>9, SetCacheTypes, EmptyType DEF ClearCache
  <1>10. ASSUME NEW from \in Config, NEW to \in Config, CopyCache(from, to) PROVE TypeOK'
    BY <1>10, SetCacheTypes DEF CopyCache
  <1>11. CASE UNCHANGED vars
    BY <1>11 DEF vars
  <1> QED
    BY <1>1, <1>2, <1>3, <1>4, <1>5, <1>6, <1>7, <1>8, <1>9, <1>10, <1>11 DEF Next

\* The registry holds registrations, every config has a cache of its own type,
\* and no more calls run than the bound lets (BaseContainer._resolvers,
\* _metadata.resolver_cache).
THEOREM TypeCorrect == Spec => []TypeOK
  <1> QED
    BY InitTypes, NextTypes, PTL DEF Spec

-----------------------------------------------------------------------------
(* Annotations.                                                             *)

\* The last read returned a value its annotation admits.
OutAdmitted == out.op = "value" /\ out.strict => out.val \in Strict

LEMMA OutAdmittedNext == OutAdmitted /\ [Next]_vars => OutAdmitted'
  <1> SUFFICES ASSUME OutAdmitted, [Next]_vars PROVE OutAdmitted'
    OBVIOUS
  <1> USE DEF OutAdmitted
  <1>1. ASSUME NEW reg, NEW c, NEW k, NEW v, Admitted(reg, v), Value(reg, c, k, v)
        PROVE  OutAdmitted'
    BY <1>1 DEF Admitted, Value
  <1>2. ASSUME Raised PROVE OutAdmitted'
    BY <1>2 DEF Raised
  <1>3. CASE out' = out
    BY <1>3
  <1>4. ASSUME NEW c \in Config, NEW k \in Key, Hit(c, k) PROVE OutAdmitted'
    BY <1>1, <1>2, <1>4 DEF Hit
  <1>5. ASSUME NEW k \in Key, Refused(k) PROVE OutAdmitted'
    BY <1>2, <1>5 DEF Refused
  <1>6. ASSUME NEW v \in Val, Return(v) PROVE OutAdmitted'
    BY <1>1, <1>2, <1>6 DEF Return
  <1>7. CASE Throw
    BY <1>2, <1>7 DEF Throw
  <1>8. ASSUME NEW c \in Config, ClearCache(c) PROVE OutAdmitted'
    BY <1>8 DEF ClearCache
  <1>9. ASSUME NEW from \in Config, NEW to \in Config, CopyCache(from, to)
        PROVE  OutAdmitted'
    BY <1>9 DEF CopyCache
  <1>10. CASE UNCHANGED vars
    BY <1>10, <1>3 DEF vars
  <1> QED
    BY <1>3, <1>4, <1>5, <1>6, <1>7, <1>8, <1>9, <1>10
       DEF Next, Register, ClearResolver, ClearResolvers, Call

\* No read under annotation_validation "error" returns a value outside the
\* annotation, however the resolvers nest and whatever they register and clear:
\* both places a value is returned from check it (validate_return).
THEOREM AnnotationsHold == Spec => StrictHolds
  <1>1. Init => OutAdmitted
    BY DEF Init, OutAdmitted
  <1>2. OutAdmitted' => (out'.op = "value" /\ out'.strict => out'.val \in Strict)
    BY DEF OutAdmitted
  <1> QED
    BY <1>1, <1>2, OutAdmittedNext, PTL DEF Spec, StrictHolds

-----------------------------------------------------------------------------
(* Memoization.                                                             *)

\* No interpolation is read while it is itself computed, directly or not.
Acyclic == \E r \in [Key -> Nat] : \A k \in Key : \A l \in Reads[k] : r[l] < r[k]

Rank == CHOOSE r \in [Key -> Nat] : \A k \in Key : \A l \in Reads[k] : r[l] < r[k]

LEMMA RankFacts ==
    ASSUME Acyclic
    PROVE  Rank \in [Key -> Nat] /\ \A k \in Key : \A l \in Reads[k] : Rank[l] < Rank[k]
  BY DEF Acyclic, Rank

\* Configs have caches of their own.
Unshared == \A c, d \in Config : cacheOf[c] = cacheOf[d] => c = d

\* A call will store its result in the cache its config still has.
Current == \A i \in DOMAIN calls : calls[i].cell = cacheOf[calls[i].config]

\* The further in a call is, the lower its interpolation ranks.
Descending ==
    \A i, j \in DOMAIN calls : i < j => Rank[calls[j].key] < Rank[calls[i].key]

MemoInv == TypeOK /\ Unshared /\ Current /\ Descending /\ ComputedOnce

LEMMA MemoInit == Init => MemoInv
  <1> SUFFICES ASSUME Init PROVE MemoInv
    OBVIOUS
  <1>1. DOMAIN calls = {}
    BY DEF Init
  <1> QED
    BY <1>1, InitTypes DEF MemoInv, Unshared, Current, Descending, ComputedOnce, Init

\* The interpolation that is read next ranks below those that are computed.
LEMMA CallRank ==
    ASSUME Acyclic, MemoInv, NEW k \in Key, MayRead(k), NEW i \in DOMAIN calls
    PROVE  Rank[k] < Rank[calls[i].key]
  <1> DEFINE n == Len(calls)
  <1>1. calls \in Seq(Frame) /\ DOMAIN calls = 1 .. n /\ n \in Nat
    BY DEF MemoInv, TypeOK, Frame
  <1>2. n \in DOMAIN calls /\ i <= n
    BY <1>1
  <1>3. k \in Reads[calls[n].key]
    BY <1>2 DEF MayRead
  <1>4. calls[n].key \in Key /\ calls[i].key \in Key
    BY <1>1, <1>2, FrameFacts
  <1>5. Rank[k] < Rank[calls[n].key]
    BY <1>3, <1>4, RankFacts
  <1>6. i < n => Rank[calls[n].key] < Rank[calls[i].key]
    BY <1>2 DEF MemoInv, Descending
  <1>7. Rank[k] \in Nat /\ Rank[calls[n].key] \in Nat /\ Rank[calls[i].key] \in Nat
    BY <1>4, RankFacts
  <1>8. i = n \/ i < n
    BY <1>1, <1>2
  <1> HIDE DEF n
  <1> QED
    BY <1>5, <1>6, <1>7, <1>8

\* What the innermost call stores is none of what the calls around it will store.
LEMMA OuterKeys ==
    ASSUME Acyclic, MemoInv, calls # <<>>, NEW i \in DOMAIN calls, i < Len(calls)
    PROVE  calls[i].key # calls[Len(calls)].key
  <1>1. calls \in Seq(Frame)
    BY DEF MemoInv, TypeOK, Frame
  <1>2. Len(calls) \in DOMAIN calls
    BY <1>1
  <1>3. calls[i].key \in Key
    BY <1>1, FrameFacts
  <1>4. Rank[calls[Len(calls)].key] < Rank[calls[i].key] /\ Rank[calls[i].key] \in Nat
    BY <1>2, <1>3, RankFacts DEF MemoInv, Descending
  <1> QED
    BY <1>4

LEMMA CallKeeps ==
    ASSUME Acyclic, MemoInv, TypeOK', NEW c \in Config, NEW k \in Key, Call(c, k)
    PROVE  MemoInv'
  <1> DEFINE x == [config |-> c, key |-> k, reg |-> registry[k[1]], cell |-> cacheOf[c]]
  <1>1. registry[k[1]] \in Registration
    BY RegistrationFacts DEF Call, MemoInv
  <1>2. x \in Frame /\ x.config = c /\ x.key = k /\ x.reg = registry[k[1]]
        /\ x.cell = cacheOf[c]
    BY <1>1 DEF Frame, MemoInv, TypeOK
  <1>3. calls' = Append(calls, x) /\ cacheOf' = cacheOf /\ heap' = heap /\ MayRead(k)
    BY DEF Call
  <1>4. Caching(x.reg) => heap[cacheOf[c]][k] = NoVal
    BY <1>2 DEF Call
  <1> HIDE DEF x
  <1>5. calls \in Seq(Frame)
    BY DEF MemoInv, TypeOK, Frame
  <1>6. /\ \A i \in DOMAIN calls' : i \in DOMAIN calls \/ i = Len(calls')
        /\ \A i \in DOMAIN calls : i < Len(calls') /\ calls'[i] = calls[i]
        /\ calls'[Len(calls')] = x
    BY <1>2, <1>3, <1>5, PushFacts
  <1>7. Unshared'
    BY <1>3 DEF MemoInv, Unshared
  <1>8. Current'
    BY <1>2, <1>3, <1>6 DEF MemoInv, Current
  <1>9. Descending'
    <2> SUFFICES ASSUME NEW i \in DOMAIN calls', NEW j \in DOMAIN calls', i < j
                 PROVE  Rank[calls'[j].key] < Rank[calls'[i].key]
      BY DEF Descending
    <2>1. calls' \in Seq(Frame) /\ j <= Len(calls') /\ i \in Nat /\ j \in Nat
      BY <1>2, <1>3, <1>5, PushFacts
    <2>2. i \in DOMAIN calls
      BY <1>6, <2>1
    <2>3. CASE j \in DOMAIN calls
      BY <1>6, <2>2, <2>3 DEF MemoInv, Descending
    <2>4. CASE j = Len(calls')
      BY <1>2, <1>3, <1>6, <2>2, <2>4, CallRank
    <2> QED
      BY <1>6, <2>3, <2>4
  <1>10. ComputedOnce'
    BY <1>2, <1>3, <1>4, <1>6 DEF MemoInv, ComputedOnce, Caching
  <1> QED
    BY <1>7, <1>8, <1>9, <1>10 DEF MemoInv

\* The calls around one that ends are left as they are.
LEMMA PopKeeps ==
    ASSUME MemoInv, calls # <<>>, calls' = SubSeq(calls, 1, Len(calls) - 1),
           cacheOf' = cacheOf
    PROVE  /\ Unshared' /\ Current' /\ Descending'
           /\ \A i \in DOMAIN calls' :
                i \in DOMAIN calls /\ i < Len(calls) /\ calls'[i] = calls[i]
  <1>1. calls \in Seq(Frame)
    BY DEF MemoInv, TypeOK, Frame
  <1>2. \A i \in DOMAIN calls' :
            i \in DOMAIN calls /\ i < Len(calls) /\ calls'[i] = calls[i]
    BY <1>1, PopFacts
  <1> QED
    BY <1>2 DEF MemoInv, Unshared, Current, Descending

LEMMA ReturnKeeps ==
    ASSUME Acyclic, MemoInv, TypeOK', NEW v \in Val, Return(v)
    PROVE  MemoInv'
  <1> DEFINE f == calls[Len(calls)]
  <1>1. /\ calls # <<>> /\ calls' = SubSeq(calls, 1, Len(calls) - 1) /\ cacheOf' = cacheOf
        /\ heap' = heap \/ heap' = [heap EXCEPT ![f.cell][f.key] = v]
    BY DEF Return
  <1>2. calls \in Seq(Frame)
    BY DEF MemoInv, TypeOK, Frame
  <1>3. f \in Frame
    BY <1>1, <1>2, PopFacts
  <1>4. Unshared' /\ Current' /\ Descending'
        /\ \A i \in DOMAIN calls' :
                i \in DOMAIN calls /\ i < Len(calls) /\ calls'[i] = calls[i]
    BY <1>1, PopKeeps
  <1>5. ComputedOnce'
    <2> SUFFICES ASSUME NEW i \in DOMAIN calls', Caching(calls'[i].reg)
                 PROVE  heap'[cacheOf'[calls'[i].config]][calls'[i].key] = NoVal
      BY DEF ComputedOnce, Caching
    <2> DEFINE cell == cacheOf[calls[i].config]
    <2>1. i \in DOMAIN calls /\ calls[i] \in Frame
      BY <1>2, <1>4
    <2>2. cell \in Cell /\ calls[i].key \in Key
      BY <2>1 DEF Frame, MemoInv, TypeOK
    <2>3. heap[cell][calls[i].key] = NoVal
      BY <1>4, <2>1 DEF MemoInv, ComputedOnce
    <2>4. calls[i].key # f.key
      BY <1>1, <1>4, <2>1, OuterKeys
    <2>5. heap'[cell][calls[i].key] = heap[cell][calls[i].key]
      <3>1. CASE heap' = heap
        BY <3>1
      <3>2. CASE heap' = [heap EXCEPT ![f.cell][f.key] = v]
        <4>1. f.cell \in Cell /\ f.key \in Key
          BY <1>3 DEF Frame
        <4>2. heap'[f.cell] = [heap[f.cell] EXCEPT ![f.key] = v]
              /\ \A d \in Cell \ {f.cell} : heap'[d] = heap[d]
          BY <3>2, <4>1, StoreFacts DEF MemoInv
        <4>3. heap[f.cell] \in [Key -> Val \cup {NoVal}]
          BY <4>1 DEF MemoInv, TypeOK
        <4> HIDE DEF f, cell
        <4> QED
          BY <2>2, <2>4, <4>1, <4>2, <4>3
      <3> QED
        BY <1>1, <3>1, <3>2
    <2> QED
      BY <1>1, <1>4, <2>3, <2>5
  <1> QED
    BY <1>4, <1>5 DEF MemoInv

LEMMA ThrowKeeps ==
    ASSUME MemoInv, TypeOK', Throw
    PROVE  MemoInv'
  <1>1. Unshared' /\ Current' /\ Descending'
        /\ \A i \in DOMAIN calls' :
                i \in DOMAIN calls /\ i < Len(calls) /\ calls'[i] = calls[i]
    BY PopKeeps DEF Throw
  <1>2. ComputedOnce'
    BY <1>1 DEF Throw, MemoInv, ComputedOnce, Caching
  <1> QED
    BY <1>1, <1>2 DEF MemoInv

\* A config gets a cache object of its own: the others keep theirs.
LEMMA SetCacheFacts ==
    ASSUME MemoInv, NEW c \in Config, NEW content, SetCache(c, content)
    PROVE  /\ heap'[cacheOf'[c]] = content
           /\ \A d \in Config \ {c} :
                /\ cacheOf'[d] = cacheOf[d] /\ cacheOf'[d] # cacheOf'[c]
                /\ heap'[cacheOf'[d]] = heap[cacheOf[d]]
           /\ Unshared'
  <1> PICK cell \in Free : /\ cacheOf' = [cacheOf EXCEPT ![c] = cell]
                           /\ heap' = [heap EXCEPT ![cell] = content]
    BY DEF SetCache
  <1>1. cell \in Cell /\ \A d \in Config : cacheOf[d] # cell
    BY DEF Free, InUse
  <1>2. cacheOf \in [Config -> Cell] /\ heap \in [Cell -> [Key -> Val \cup {NoVal}]]
    BY DEF MemoInv, TypeOK
  <1>3. cacheOf'[c] = cell /\ \A d \in Config \ {c} : cacheOf'[d] = cacheOf[d]
    BY <1>2
  <1>4. heap'[cell] = content /\ \A d \in Config \ {c} : heap'[cacheOf[d]] = heap[cacheOf[d]]
    BY <1>1, <1>2
  <1> QED
    BY <1>1, <1>3, <1>4 DEF MemoInv, Unshared

LEMMA SetCacheKeeps ==
    ASSUME MemoInv, TypeOK', calls = <<>>, calls' = calls,
           NEW c \in Config, NEW content, SetCache(c, content)
    PROVE  MemoInv'
  <1>1. DOMAIN calls' = {}
    OBVIOUS
  <1>2. Unshared'
    BY SetCacheFacts
  <1> QED
    BY <1>1, <1>2 DEF MemoInv, Current, Descending, ComputedOnce

LEMMA MemoStep == ASSUME Acyclic, ~ClearsCaches, MemoInv, [Next]_vars PROVE MemoInv'
  <1> TypeOK'
    BY NextTypes DEF MemoInv
  <1>1. ASSUME UNCHANGED <<cacheOf, heap, calls>> PROVE MemoInv'
    BY <1>1 DEF MemoInv, Unshared, Current, Descending, ComputedOnce, Caching
  <1>2. ASSUME NEW c \in Config, NEW k \in Key, Hit(c, k) PROVE MemoInv'
    BY <1>1, <1>2 DEF Hit
  <1>3. ASSUME NEW k \in Key, Refused(k) PROVE MemoInv'
    BY <1>1, <1>3 DEF Refused
  <1>4. ASSUME NEW n \in Name, NEW reg \in Registration, NEW replace \in BOOLEAN,
               Register(n, reg, replace)
        PROVE  MemoInv'
    BY <1>1, <1>4 DEF Register
  <1>5. ASSUME NEW n \in Name, ClearResolver(n) PROVE MemoInv'
    BY <1>1, <1>5 DEF ClearResolver
  <1>6. CASE ClearResolvers
    BY <1>1, <1>6 DEF ClearResolvers
  <1>7. ASSUME NEW c \in Config, ClearCache(c) PROVE MemoInv'
    BY <1>7, SetCacheKeeps DEF ClearCache, MayClear
  <1>8. ASSUME NEW from \in Config, NEW to \in Config, CopyCache(from, to) PROVE MemoInv'
    BY <1>8, SetCacheKeeps DEF CopyCache, MayClear
  <1>9. CASE UNCHANGED vars
    BY <1>1, <1>9 DEF vars
  <1> QED
    BY <1>2, <1>3, <1>4, <1>5, <1>6, <1>7, <1>8, <1>9, CallKeeps, ReturnKeeps, ThrowKeeps
       DEF Next

\* What each config remembers, as ResolverMemo sees it.
memory == [c \in Config |-> heap[cacheOf[c]]]

LEMMA InitImplements == Init => Memo!Init
  <1> SUFFICES ASSUME Init PROVE memory = [c \in Config |-> Empty]
    BY DEF Memo!Init, Memo!Empty, Empty, memory
  <1> QED
    BY DEF Init, memory

\* Reading what is cached remembers nothing new.
LEMMA HitImplements ==
    ASSUME MemoInv, NEW c \in Config, NEW k \in Key, Hit(c, k)
    PROVE  Memo!Next
  <1> DEFINE reg == registry[k[1]]
             v   == heap[cacheOf[c]][k]
  <1>1. memory' = memory
    BY DEF Hit, memory
  <1>2. CASE ~Admitted(reg, v)
    BY <1>1, <1>2 DEF Hit, Raised, memory, Memo!Next, Memo!Fail
  <1>3. CASE Admitted(reg, v)
    <2>1. out'.op = "value" /\ out'.config = c /\ out'.key = k /\ out'.val = v
          /\ out'.cached = Caching(reg)
      <3>1. Value(reg, c, k, v)
        BY <1>3 DEF Hit
      <3> HIDE DEF v, reg
      <3> QED
        BY <3>1 DEF Value
    <2>2. memory[c][k] = v /\ memory' = [memory EXCEPT ![c][k] = v]
      BY <1>1 DEF memory, MemoInv, TypeOK
    <2>3. Caching(reg)
      BY DEF Hit
    <2> HIDE DEF v, reg
    <2> QED
      BY <2>1, <2>2, <2>3 DEF Memo!Next, Memo!Read, Memo!Recall, memory
  <1> QED
    BY <1>2, <1>3

\* A result that is stored is remembered for its config alone.
LEMMA ReturnImplements ==
    ASSUME MemoInv, NEW v \in Val, Return(v)
    PROVE  Memo!Next
  <1> DEFINE f == calls[Len(calls)]
  <1>1. calls # <<>> /\ cacheOf' = cacheOf
    BY DEF Return
  <1>2. calls \in Seq(Frame)
    BY DEF MemoInv, TypeOK, Frame
  <1>3. Len(calls) \in DOMAIN calls
    BY <1>1, <1>2
  <1>4. f \in Frame /\ f.config \in Config /\ f.key \in Key
    BY <1>2, <1>3, FrameFacts
  <1>5. f.cell = cacheOf[f.config] /\ f.cell \in Cell
    BY <1>2, <1>3, FrameFacts DEF MemoInv, Current
  <1>6. CASE ~Admitted(f.reg, v)
    <2>1. heap' = heap /\ out'.op = "raised"
      BY <1>6 DEF Return, Raised
    <2> QED
      BY <1>1, <2>1 DEF Memo!Next, Memo!Fail
  <1>7. CASE Admitted(f.reg, v)
    <2>1. out'.op = "value" /\ out'.config = f.config /\ out'.key = f.key /\ out'.val = v
          /\ out'.cached = Caching(f.reg)
      BY <1>7 DEF Return, Value
    <2>2. CASE ~Caching(f.reg)
      <3>1. heap' = heap
        BY <1>7, <2>2 DEF Return
      <3> QED
        BY <1>1, <2>1, <2>2, <3>1 DEF Memo!Next, Memo!Read
    <2>3. CASE Caching(f.reg)
      <3>1. heap' = [heap EXCEPT ![f.cell][f.key] = v]
        BY <1>7, <2>3 DEF Return
      <3>2. memory[f.config][f.key] = NoVal
        BY <1>3, <1>4, <2>3 DEF MemoInv, ComputedOnce, memory
      <3>3. \A c \in Config \ {f.config} : memory'[c] = memory[c]
        <4>1. \A c \in Config \ {f.config} : cacheOf[c] \in Cell \ {f.cell}
          BY <1>4, <1>5 DEF MemoInv, Unshared, TypeOK
        <4>2. \A d \in Cell \ {f.cell} : heap'[d] = heap[d]
          BY <1>4, <1>5, <3>1, StoreFacts DEF MemoInv
        <4> QED
          BY <1>1, <4>1, <4>2 DEF memory
      <3>4. memory'[f.config] = [memory[f.config] EXCEPT ![f.key] = v]
        <4>1. heap'[f.cell] = [heap[f.cell] EXCEPT ![f.key] = v]
          BY <1>4, <1>5, <3>1, StoreFacts DEF MemoInv
        <4> QED
          BY <1>1, <1>4, <1>5, <4>1 DEF memory
      <3> HIDE DEF f
      <3>5. memory' = [memory EXCEPT ![f.config][f.key] = v]
        BY <1>4, <3>3, <3>4 DEF memory
      <3> QED
        BY <2>1, <2>3, <3>2, <3>5 DEF Memo!Next, Memo!Read, Memo!Recall, memory
    <2> QED
      BY <2>2, <2>3
  <1> QED
    BY <1>6, <1>7

\* A config whose cache is replaced remembers what it was given.
LEMMA SetCacheImplements ==
    ASSUME MemoInv, NEW c \in Config, NEW content, SetCache(c, content)
    PROVE  memory' = [memory EXCEPT ![c] = content]
  <1>1. heap'[cacheOf'[c]] = content
        /\ \A d \in Config \ {c} : heap'[cacheOf'[d]] = heap[cacheOf[d]]
    BY SetCacheFacts
  <1> QED
    BY <1>1 DEF memory

LEMMA StepImplements ==
    ASSUME MemoInv, ~ClearsCaches, [Next]_vars
    PROVE  [Memo!Next]_<<memory, out>>
  <1>1. ASSUME UNCHANGED <<cacheOf, heap, out>> PROVE UNCHANGED <<memory, out>>
    BY <1>1 DEF memory
  <1>2. ASSUME UNCHANGED <<cacheOf, heap>>, Raised PROVE Memo!Next
    BY <1>2 DEF Raised, memory, Memo!Next, Memo!Fail
  <1>3. ASSUME NEW c \in Config, ClearCache(c) PROVE Memo!Next
    <2>1. memory' = [memory EXCEPT ![c] = Empty]
      BY <1>3, SetCacheImplements DEF ClearCache
    <2>2. out'.op = "clear" /\ out'.config = c
      BY <1>3 DEF ClearCache
    <2> QED
      BY <2>1, <2>2 DEF memory, Memo!Next, Memo!Clear, Memo!Empty, Empty
  <1>4. ASSUME NEW from \in Config, NEW to \in Config, CopyCache(from, to) PROVE Memo!Next
    <2>1. memory' = [memory EXCEPT ![to] = memory[from]]
      BY <1>4, SetCacheImplements DEF CopyCache, memory
    <2>2. out'.op = "copy" /\ out'.config = to /\ out'.from = from
      BY <1>4 DEF CopyCache
    <2> QED
      BY <2>1, <2>2 DEF memory, Memo!Next, Memo!Copy
  <1>5. ASSUME NEW k \in Key, Refused(k) PROVE Memo!Next
    BY <1>2, <1>5 DEF Refused
  <1>6. CASE Throw
    BY <1>2, <1>6 DEF Throw
  <1>7. ASSUME NEW c \in Config, NEW k \in Key, Call(c, k)
        PROVE  UNCHANGED <<memory, out>>
    BY <1>1, <1>7 DEF Call
  <1>8. CASE UNCHANGED vars
    BY <1>1, <1>8 DEF vars
  <1> QED
    BY <1>1, <1>3, <1>4, <1>5, <1>6, <1>7, <1>8, HitImplements, ReturnImplements
       DEF Next, Register, ClearResolver, ClearResolvers

\* When no resolver reads, directly or not, the interpolation it computes, and
\* resolvers leave caches alone, no cached interpolation is computed while it is
\* already being computed: the entry its result goes to is empty
\* (resolver_wrapper looks the cache up before the call and stores after it).
THEOREM EntriesAwaitTheirCall ==
    ASSUME Acyclic, ~ClearsCaches
    PROVE  Spec => []ComputedOnce
  <1>1. Init => MemoInv
    BY MemoInit
  <1>2. MemoInv /\ [Next]_vars => MemoInv'
    BY MemoStep
  <1>3. MemoInv => ComputedOnce
    BY DEF MemoInv
  <1> QED
    BY <1>1, <1>2, <1>3, PTL DEF Spec

\* ... and the registry and the caches implement memoization: a cached
\* interpolation reads the same value until the cache of its config is cleared
\* or replaced, and configs share nothing (resolver_wrapper, set_cache).
THEOREM ImplementsMemo ==
    ASSUME Acyclic, ~ClearsCaches
    PROVE  Spec => Memoizes
  <1>1. Init => MemoInv /\ Memo!Init
    BY MemoInit, InitImplements
  <1>2. MemoInv /\ [Next]_vars => MemoInv'
    BY MemoStep
  <1>3. MemoInv /\ [Next]_vars => [Memo!Next]_<<memory, out>>
    BY StepImplements
  <1> QED
    BY <1>1, <1>2, <1>3, PTL DEF Spec, Memoizes, Memo!Spec, memory
=============================================================================
