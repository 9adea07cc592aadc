--------------------------- MODULE DictOpsProofs ---------------------------
(* Proofs about DictOps, for any keys, values, classes and bounds.          *)
EXTENDS DictOps, LoopLemmas

-----------------------------------------------------------------------------
(* Contents.                                                                *)

Unique(c) == \A i, j \in DOMAIN c : c[i].key = c[j].key => i = j

\* A content whose nodes accept what they hold, each under a key of its own.
Accepted(c) ==
    /\ c \in Seq(Entry) /\ Unique(c)
    /\ \A i \in DOMAIN c : ~Refuses(c[i].hint, c[i].val)

LEMMA EmptyAccepted == Accepted(<<>>)
BY DEF Accepted, Unique

\* Storing an entry keeps the others, and adds no key but its own.
LEMMA PutAccepted ==
    ASSUME NEW c, Accepted(c), NEW e \in Entry, ~Refuses(e.hint, e.val)
    PROVE  /\ Accepted(Put(c, e))
           /\ Keys(Put(c, e)) = Keys(c) \cup {e.key}
           /\ Len(Put(c, e)) <= Len(c) + 1
<1>1. c \in Seq(Entry) /\ DOMAIN c = 1 .. Len(c) /\ Len(c) \in Nat
  BY DEF Accepted
<1>2. CASE e.key \in Keys(c)
  <2> DEFINE p == [i \in DOMAIN c |-> IF c[i].key = e.key THEN e ELSE c[i]]
  <2>1. Put(c, e) = p
    BY <1>2 DEF Put
  <2>2. p \in Seq(Entry) /\ Len(p) = Len(c) /\ DOMAIN p = DOMAIN c
    BY <1>1
  <2>3. \A i \in DOMAIN c : p[i].key = c[i].key
    OBVIOUS
  <2>4. Keys(p) = Keys(c)
    BY <2>2, <2>3 DEF Keys
  <2>5. Unique(p)
    BY <2>2, <2>3 DEF Accepted, Unique
  <2>6. \A i \in DOMAIN p : ~Refuses(p[i].hint, p[i].val)
    BY DEF Accepted
  <2> QED BY <1>1, <1>2, <2>1, <2>2, <2>4, <2>5, <2>6 DEF Accepted
<1>3. CASE e.key \notin Keys(c)
  <2> DEFINE p == Append(c, e)
  <2>1. Put(c, e) = p
    BY <1>3 DEF Put
  <2>2. /\ p \in Seq(Entry) /\ Len(p) = Len(c) + 1 /\ DOMAIN p = 1 .. Len(c) + 1
        /\ \A i \in DOMAIN c : p[i] = c[i]
        /\ p[Len(c) + 1] = e
    BY <1>1
  <2>3. \A i \in DOMAIN c : c[i].key # e.key
    BY <1>3 DEF Keys
  <2>4. Keys(p) = Keys(c) \cup {e.key}
    <3> HIDE DEF p
    <3>1. ASSUME NEW k \in Keys(p) PROVE k \in Keys(c) \cup {e.key}
      <4>1. PICK i \in DOMAIN p : k = p[i].key
        BY DEF Keys
      <4> QED BY <4>1, <2>2, <1>1 DEF Keys
    <3>2. ASSUME NEW k \in Keys(c) PROVE k \in Keys(p)
      <4>1. PICK i \in DOMAIN c : k = c[i].key
        BY DEF Keys
      <4> QED BY <4>1, <2>2, <1>1 DEF Keys
    <3>3. e.key \in Keys(p)
      BY <2>2, <1>1 DEF Keys
    <3> QED BY <3>1, <3>2, <3>3
  <2>5. Unique(p)
    <3> HIDE DEF p
    <3> QED BY <1>1, <2>2, <2>3 DEF Accepted, Unique
  <2>6. \A i \in DOMAIN p : ~Refuses(p[i].hint, p[i].val)
    <3> HIDE DEF p
    <3> QED BY <1>1, <2>2 DEF Accepted
  <2> QED BY <1>1, <2>1, <2>2, <2>4, <2>5, <2>6 DEF Accepted
<1> QED BY <1>2, <1>3

\* The place of a key that is there.
LEMMA PlaceIs ==
    ASSUME NEW c, Unique(c), NEW i \in DOMAIN c
    PROVE  Place(c, c[i].key) = i
BY DEF Place, Unique

LEMMA PlaceIn ==
    ASSUME NEW c, NEW k \in Keys(c)
    PROVE  Place(c, k) \in DOMAIN c /\ c[Place(c, k)].key = k
BY DEF Place, Keys

\* Deleting a key keeps the other entries.
LEMMA DropAccepted ==
    ASSUME NEW c, Accepted(c), NEW k
    PROVE  /\ Accepted(Drop(c, k))
           /\ Keys(Drop(c, k)) = Keys(c) \ {k}
           /\ Len(Drop(c, k)) <= Len(c)
<1>1. c \in Seq(Entry) /\ DOMAIN c = 1 .. Len(c) /\ Len(c) \in Nat
  BY DEF Accepted
<1>2. CASE k \notin Keys(c)
  BY <1>1, <1>2 DEF Drop
<1>3. CASE k \in Keys(c)
  <2> DEFINE at == Place(c, k)
             p  == RemoveAt(c, at)
             Old(i) == IF i < at THEN i ELSE i + 1
  <2>1. at \in 1 .. Len(c) /\ c[at].key = k
    BY <1>1, <1>3, PlaceIn
  <2>2. Drop(c, k) = p
    BY <1>3 DEF Drop
  <2> HIDE DEF at
  <2>3. /\ p \in Seq(Entry) /\ Len(p) = Len(c) - 1 /\ DOMAIN p = 1 .. Len(c) - 1
        /\ \A i \in DOMAIN p : Old(i) \in DOMAIN c /\ Old(i) # at /\ p[i] = c[Old(i)]
    <3>1. /\ p \in Seq(Entry) /\ Len(p) = Len(c) - 1 /\ DOMAIN p = 1 .. Len(c) - 1
          /\ \A i \in 1 .. Len(c) - 1 : p[i] = c[Old(i)]
      BY <1>1, <2>1, RemoveAtFacts
    <3>2. \A i \in 1 .. Len(c) - 1 : Old(i) \in DOMAIN c /\ Old(i) # at
      BY <1>1, <2>1
    <3>3. \A i \in 1 .. Len(c) - 1 : c[Old(i)] \in Entry
      BY <1>1, <3>2
    <3> HIDE DEF p, Old
    <3> QED BY <1>1, <2>1, <3>1, <3>2, <3>3
  <2>4. \A i \in DOMAIN c : i # at => \E j \in DOMAIN p : p[j] = c[i]
    <3>1. ASSUME NEW i \in DOMAIN c, i # at
          PROVE  \E j \in DOMAIN p : Old(j) = i
      <4>1. CASE i < at
        BY <1>1, <2>1, <2>3, <4>1
      <4>2. CASE i > at
        <5>1. i - 1 \in DOMAIN p /\ Old(i - 1) = i
          BY <1>1, <2>1, <2>3, <4>2
        <5> QED BY <5>1
      <4> QED BY <1>1, <2>1, <3>1, <4>1, <4>2
    <3> HIDE DEF p, Old
    <3> QED BY <2>3, <3>1
  <2>5. \A i \in DOMAIN c : c[i].key = k => i = at
    BY <2>1, <1>1 DEF Accepted, Unique
  <2>6. Keys(p) = Keys(c) \ {k}
    <3> HIDE DEF p, Old
    <3>1. ASSUME NEW x \in Keys(p) PROVE x \in Keys(c) /\ x # k
      <4>1. PICK i \in DOMAIN p : x = p[i].key
        BY DEF Keys
      <4> QED BY <4>1, <2>3, <2>5 DEF Keys
    <3>2. ASSUME NEW x \in Keys(c), x # k PROVE x \in Keys(p)
      <4>1. PICK i \in DOMAIN c : x = c[i].key
        BY DEF Keys
      <4> QED BY <4>1, <3>2, <2>1, <2>4 DEF Keys
    <3> QED BY <3>1, <3>2
  <2>7. Unique(p)
    <3>1. \A i, j \in DOMAIN p : Old(i) = Old(j) => i = j
      BY <1>1, <2>1, <2>3
    <3> HIDE DEF p, Old
    <3> QED BY <2>3, <3>1 DEF Accepted, Unique
  <2>8. \A i \in DOMAIN p : ~Refuses(p[i].hint, p[i].val)
    <3> HIDE DEF p, Old
    <3> QED BY <2>3 DEF Accepted
  <2> QED BY <1>1, <2>2, <2>3, <2>6, <2>7, <2>8 DEF Accepted
<1> QED BY <1>2, <1>3

-----------------------------------------------------------------------------
(* Storing.                                                                 *)

Where == [dict : BOOLEAN, closed : BOOLEAN, readonly : BOOLEAN]

\* What storing leaves of c: entries are added or replaced, not in a readonly or
\* special config, and no key is new to a closed one.
Stores(place, c, r, more) ==
    /\ Accepted(r.c) /\ r.ok \in BOOLEAN
    /\ Len(r.c) <= Len(c) + more
    /\ Keys(c) \subseteq Keys(r.c)
    /\ place.closed => Keys(r.c) = Keys(c)
    /\ place.readonly \/ ~place.dict => r.c = c

LEMMA StoresNothing ==
    ASSUME NEW place, NEW c, Accepted(c)
    PROVE  Stores(place, c, Outcome(c, TRUE), 0) /\ Stores(place, c, Outcome(c, FALSE), 0)
BY DEF Stores, Outcome, Accepted

LEMMA StoresMore ==
    ASSUME NEW place, NEW c, Accepted(c), NEW r, NEW more, NEW n \in Nat,
           Stores(place, c, r, n), Stores(place, r.c, more, 1)
    PROVE  Stores(place, c, more, n + 1)
<1>1. Accepted(r.c) /\ Accepted(more.c) /\ more.ok \in BOOLEAN
  BY DEF Stores
<1>2. Len(more.c) <= Len(c) + (n + 1)
  <2>1. Len(r.c) <= Len(c) + n /\ Len(more.c) <= Len(r.c) + 1
    BY DEF Stores
  <2>2. Len(c) \in Nat /\ Len(r.c) \in Nat /\ Len(more.c) \in Nat
    BY <1>1 DEF Accepted
  <2> QED BY <2>1, <2>2
<1>3. Keys(c) \subseteq Keys(more.c) /\ (place.closed => Keys(more.c) = Keys(c))
  BY DEF Stores
<1>4. place.readonly \/ ~place.dict => more.c = c
  BY DEF Stores
<1> QED BY <1>1, <1>2, <1>3, <1>4 DEF Stores

\* The node a value is stored in has a type.
LEMMA HintForIn ==
    ASSUME NEW c, Accepted(c), NEW k
    PROVE  HintFor(c, k) \in Hint
<1>1. CASE k \in Keys(c)
  <2>1. At(c, k) \in Entry
    BY <1>1, PlaceIn DEF Accepted, At
  <2> QED BY <1>1, <2>1 DEF HintFor, Entry
<1>2. CASE k \notin Keys(c)
  BY <1>2 DEF HintFor, Hint
<1> QED BY <1>1, <1>2

\* Storing an entry the place admits.
LEMMA PutStores ==
    ASSUME NEW place \in Where, NEW c, Accepted(c), NEW e \in Entry,
           Admits(place, c, e.key), ~Refuses(e.hint, e.val)
    PROVE  Stores(place, c, Outcome(Put(c, e), TRUE), 1)
<1>1. /\ Accepted(Put(c, e)) /\ Keys(Put(c, e)) = Keys(c) \cup {e.key}
      /\ Len(Put(c, e)) <= Len(c) + 1
  BY PutAccepted
<1>2. place.closed => e.key \in Keys(c)
  BY DEF Admits
<1>3. place.dict /\ ~place.readonly
  BY DEF Admits
<1> HIDE DEF Put
<1> QED BY <1>1, <1>2, <1>3 DEF Stores, Outcome

LEMMA SetItemStores ==
    ASSUME NEW place \in Where, NEW c, Accepted(c),
           NEW k \in Key \cup {BadKey}, NEW v \in Val
    PROVE  /\ Stores(place, c, SetItemImpl(place, c, k, v), 1)
           /\ ~SetItemImpl(place, c, k, v).ok => SetItemImpl(place, c, k, v).c = c
<1> DEFINE e == [key |-> k, val |-> v, hint |-> HintFor(c, k)]
<1>1. CASE Admits(place, c, k) /\ ~Refuses(HintFor(c, k), v)
  <2>1. k \in Key
    BY <1>1 DEF Admits
  <2>2. e \in Entry /\ e.key = k /\ e.val = v /\ e.hint = HintFor(c, k)
    BY <2>1, HintForIn DEF Entry
  <2> HIDE DEF e
  <2>3. Stores(place, c, Outcome(Put(c, e), TRUE), 1)
    BY <1>1, <2>2, PutStores
  <2>4. SetItemImpl(place, c, k, v) = Outcome(Put(c, e), TRUE)
    BY <1>1 DEF SetItemImpl, e
  <2> QED BY <2>3, <2>4 DEF Outcome
<1>2. CASE ~(Admits(place, c, k) /\ ~Refuses(HintFor(c, k), v))
  <2>1. SetItemImpl(place, c, k, v) = Outcome(c, FALSE)
    BY <1>2 DEF SetItemImpl
  <2> QED BY <2>1 DEF Stores, Outcome, Accepted
<1> QED BY <1>1, <1>2

LEMMA SetNodeStores ==
    ASSUME NEW place \in Where, NEW c, Accepted(c),
           NEW k \in Key \cup {BadKey}, NEW v \in Foreign, DictAssumption
    PROVE  /\ Stores(place, c, SetNodeImpl(place, c, k, v), 1)
           /\ ~SetNodeImpl(place, c, k, v).ok => SetNodeImpl(place, c, k, v).c = c
<1> DEFINE e == [key |-> k, val |-> v, hint |-> "foreign"]
<1>1. CASE Admits(place, c, k) /\ ~(schema = "dict" /\ v \in Untypable)
  <2>1. k \in Key /\ v \in Val
    BY <1>1 DEF Admits, DictAssumption
  <2>2. e \in Entry /\ e.key = k /\ ~Refuses(e.hint, e.val)
    BY <2>1 DEF Entry, Hint, Refuses
  <2> HIDE DEF e
  <2>3. Stores(place, c, Outcome(Put(c, e), TRUE), 1)
    BY <1>1, <2>2, PutStores
  <2>4. SetNodeImpl(place, c, k, v) = Outcome(Put(c, e), TRUE)
    BY <1>1 DEF SetNodeImpl, e
  <2> QED BY <2>3, <2>4 DEF Outcome
<1>2. CASE ~(Admits(place, c, k) /\ ~(schema = "dict" /\ v \in Untypable))
  <2>1. SetNodeImpl(place, c, k, v) = Outcome(c, FALSE)
    BY <1>2 DEF SetNodeImpl
  <2> QED BY <2>1 DEF Stores, Outcome, Accepted
<1> QED BY <1>1, <1>2

-----------------------------------------------------------------------------
(* Filling: one round for each entry.                                       *)

\* An entry as callers pass it.
Arg == [key : Name, val : Val]

LEMMA EntriesAre ==
    ASSUME NEW es \in Entries, DictAssumption, schema \in DOMAIN Norm
    PROVE  /\ es \in Seq(Arg) /\ Len(es) <= MaxArg
           /\ \A i \in DOMAIN es : /\ es[i].key \in Name /\ es[i].val \in Val
                                   /\ Normal(es[i].key) \in Key \cup {BadKey}
<1>1. PICK n \in 0 .. MaxArg : es \in [1 .. n -> Arg]
  BY SMTT(30) DEF Entries, Arg
<1>2. es \in Seq(Arg) /\ Len(es) = n /\ DOMAIN es = 1 .. n
  BY <1>1, SeqDef DEF DictAssumption
<1>3. \A i \in DOMAIN es : es[i] \in Arg
  BY <1>2
<1> QED BY <1>2, <1>3 DEF Arg, Name, Normal, DictAssumption

FillResult == {r \in [c : Seq(Entry), ok : BOOLEAN] : Accepted(r.c)}
FillStep(place, r, e) ==
    IF r.ok THEN SetItemImpl(place, r.c, Normal(e.key), e.val) ELSE r

\* d[k] is what the first k rounds leave.
FillRounds(d, place, c, es) ==
    /\ d \in [0 .. Len(es) -> FillResult]
    /\ d[0] = Outcome(c, TRUE)
    /\ \A k \in 0 .. Len(es) - 1 : d[k + 1] = FillStep(place, d[k], es[k + 1])
    /\ d[Len(es)] = Fill(place, c, es)

LEMMA FillIs ==
    ASSUME NEW place \in Where, NEW c, Accepted(c), NEW vs \in Seq(Arg),
           DictAssumption, schema \in DOMAIN Norm
    PROVE  \E d : FillRounds(d, place, c, vs)
<1> DEFINE n == Len(vs)
           S == FillResult
           base == Outcome(c, TRUE)
           Op(r, e) == IF r.ok THEN SetItemImpl(place, r.c, Normal(e.key), e.val) ELSE r
           step == [p \in S \X (1 .. n) |-> Op(p[1], vs[p[2]])]
           Body(it) == [s \in SUBSET DOMAIN vs |->
                          IF s = {} THEN base ELSE Op(it[s \ {Max(s)}], vs[Max(s)])]
           r == CHOOSE f : f = Body(f)
<1>0. n \in Nat /\ DOMAIN vs = 1 .. n
  OBVIOUS
<1>1. \A o \in S, i \in 1 .. n : Op(o, vs[i]) \in S
  <2>1. ASSUME NEW o \in S, NEW i \in 1 .. n PROVE Op(o, vs[i]) \in S
    <3>1. CASE o.ok
      <4>1. vs[i] \in Arg
        BY <1>0
      <4>2. Normal(vs[i].key) \in Key \cup {BadKey} /\ vs[i].val \in Val
        BY <4>1 DEF Arg, Name, Normal, DictAssumption
      <4>3. Accepted(o.c)
        BY DEF FillResult
      <4> DEFINE w == SetItemImpl(place, o.c, Normal(vs[i].key), vs[i].val)
      <4>4. w.ok \in BOOLEAN /\ Accepted(w.c)
        <5> HIDE DEF S
        <5> QED BY <4>2, <4>3, SetItemStores DEF Stores
      <4>5. w \in [c : Seq(Entry), ok : BOOLEAN]
        <5>1. w.c \in Seq(Entry)
          BY <4>4 DEF Accepted
        <5>2. w = [c |-> w.c, ok |-> w.ok]
          BY DEF SetItemImpl, Outcome
        <5> HIDE DEF w
        <5> QED BY <4>4, <5>1, <5>2
      <4> HIDE DEF w
      <4>6. w \in S
        BY <4>4, <4>5 DEF FillResult
      <4> QED BY <4>6, <3>1 DEF w
    <3>2. CASE ~o.ok
      BY <3>2
    <3> QED BY <3>1, <3>2
  <2> QED BY <2>1
<1>2. step \in Steps(n, S) /\ base \in S
  <2>1. base \in S
    BY DEF FillResult, Outcome, Accepted
  <2> HIDE DEF Op, S, n
  <2> QED BY <1>1, <2>1 DEF Steps
<1>3. PICK it \in [SUBSET (1 .. n) -> S] : Iterates(it, n, base, step)
  <2> HIDE DEF S, step, base, n
  <2> QED BY <1>0, <1>2, FoldExists
<1>4. \A s \in SUBSET (1 .. n) : s # {} => Max(s) \in 1 .. n
  <2>1. ASSUME NEW s \in SUBSET (1 .. n), s # {} PROVE Max(s) \in s
    <3>1. s \in SUBSET (0 .. n)
      BY <1>0
    <3> QED BY <1>0, <2>1, <3>1, MaxIn
  <2> QED BY <2>1
<1>5. \A o \in S, i \in 1 .. n : step[<<o, i>>] = Op(o, vs[i])
  <2> HIDE DEF Op, S, n
  <2> QED OBVIOUS
<1>6. it = Body(it)
  <2>1. \A s \in SUBSET (1 .. n) : s # {} => it[s \ {Max(s)}] \in S
    BY <1>3
  <2> HIDE DEF Op, S, base, step, n
  <2>2. ASSUME NEW s \in SUBSET (1 .. n)
        PROVE  it[s] = IF s = {} THEN base ELSE Op(it[s \ {Max(s)}], vs[Max(s)])
    <3>1. CASE s = {}
      BY <1>3, <3>1 DEF Iterates
    <3>2. CASE s # {}
      <4>1. it[s] = step[<<it[s \ {Max(s)}], Max(s)>>]
        BY <1>3, <3>2 DEF Iterates
      <4> QED BY <1>4, <1>5, <2>1, <3>2, <4>1
    <3> QED BY <3>1, <3>2
  <2> QED BY <1>0, <1>3, <2>2
<1>7. r = Body(r)
  <2> HIDE DEF Body
  <2> QED BY <1>6, Zenon
<1>8. Fill(place, c, vs) = r[1 .. n]
  BY <1>0 DEF Fill, FoldLeft, MapThenFoldSet
<1>9. Rounds(r, n, S, step)
  <2>1. IteratesIn(r, n, S, base, step)
    <3> HIDE DEF Op, S, base, n, r, step
    <3>1. r[{}] = base
      BY <1>7
    <3>2. ASSUME NEW s \in SUBSET (1 .. n), s # {}, r[s \ {Max(s)}] \in S
          PROVE  r[s] = step[<<r[s \ {Max(s)}], Max(s)>>]
      <4>1. r[s] = Op(r[s \ {Max(s)}], vs[Max(s)])
        BY <1>0, <1>7, <3>2
      <4> QED BY <1>4, <1>5, <3>2, <4>1
    <3> QED BY <3>1, <3>2 DEF IteratesIn
  <2> HIDE DEF r, S, step, base, n
  <2> QED BY <1>0, <1>2, <2>1, FoldRounds
<1> DEFINE d == [k \in 0 .. n |-> r[1 .. k]]
<1>10. r[1 .. 0] = base
  <2>1. 1 .. 0 = {}
    OBVIOUS
  <2> HIDE DEF Op, S, base, n, r, step
  <2> QED BY <2>1, <1>7
<1>11. ASSUME NEW k \in 0 .. n - 1 PROVE d[k + 1] = Op(d[k], vs[k + 1])
  <2>1. k \in 0 .. n /\ k + 1 \in 0 .. n /\ k + 1 \in 1 .. n /\ k < n
    BY <1>0
  <2> HIDE DEF Op, S, base, r, step, n
  <2>2. r[1 .. k] \in S /\ r[1 .. k + 1] = step[<<r[1 .. k], k + 1>>]
    BY <1>9, <2>1 DEF Rounds
  <2> QED BY <1>5, <2>1, <2>2
<1>12. d \in [0 .. n -> S] /\ d[0] = base /\ d[n] = r[1 .. n]
  <2>1. 0 \in 0 .. n /\ n \in 0 .. n
    BY <1>0
  <2> HIDE DEF Op, S, base, r, step, n
  <2> QED BY <1>9, <1>10, <2>1 DEF Rounds
<1>13. FillRounds(d, place, c, vs)
  <2>1. \A o, e : Op(o, e) = FillStep(place, o, e)
    BY DEF FillStep
  <2> HIDE DEF Op, d, r
  <2> QED BY <1>8, <1>11, <1>12, <2>1 DEF FillRounds
<1> QED BY <1>13

\* Filling is storing, as many times as there are entries at most.
LEMMA FillStores ==
    ASSUME NEW place \in Where, NEW c, Accepted(c), NEW es \in Seq(Arg),
           DictAssumption, schema \in DOMAIN Norm
    PROVE  Stores(place, c, Fill(place, c, es), Len(es))
<1> DEFINE n == Len(es)
<1>1. PICK d : FillRounds(d, place, c, es)
  BY FillIs
<1> DEFINE T == {k \in 0 .. n : Stores(place, c, d[k], k)}
<1>2. n \in Nat /\ DOMAIN es = 1 .. n
  OBVIOUS
<1>3. 0 \in T
  <2>1. d[0] = Outcome(c, TRUE) /\ 0 \in 0 .. n
    BY <1>1, <1>2 DEF FillRounds
  <2>2. Stores(place, c, Outcome(c, TRUE), 0)
    BY StoresNothing
  <2> QED BY <2>1, <2>2
<1>4. ASSUME NEW k \in 0 .. n - 1, k \in T PROVE k + 1 \in T
  <2>1. d[k] \in FillResult /\ d[k + 1] = FillStep(place, d[k], es[k + 1])
    BY <1>1, <1>2 DEF FillRounds
  <2>2. CASE ~d[k].ok
    BY <1>4, <2>1, <2>2 DEF FillStep, Stores, Accepted
  <2>3. CASE d[k].ok
    <3>1. es[k + 1] \in Arg
      BY <1>2
    <3>2. Normal(es[k + 1].key) \in Key \cup {BadKey} /\ es[k + 1].val \in Val
      BY <3>1 DEF Arg, Name, Normal, DictAssumption
    <3>3. Accepted(d[k].c)
      BY <2>1 DEF FillResult
    <3>4. Stores(place, d[k].c, d[k + 1], 1)
      BY <2>1, <2>3, <3>2, <3>3, SetItemStores DEF FillStep
    <3>5. Stores(place, c, d[k + 1], k + 1)
      BY <1>4, <3>4, StoresMore
    <3>6. k + 1 \in 0 .. n
      BY <1>2
    <3> QED BY <3>5, <3>6
  <2> QED BY <2>2, <2>3
<1>5. n \in T
  <2> HIDE DEF T
  <2>1. \A k \in 0 .. n : k \in T
    BY <1>2, <1>3, <1>4, InductionTo
  <2> QED BY <2>1, <1>2
<1> QED BY <1>1, <1>5 DEF FillRounds

\* An instance of the class whose values the fields accept.
LEMMA InstanceAccepted ==
    ASSUME NEW vals \in [DOMAIN Fields -> Val \ Untypable], DictAssumption
    PROVE  Accepted(Instance(vals)) /\ Len(Instance(vals)) <= MaxLen
<1>1. DOMAIN Fields = 1 .. Len(Fields) /\ Len(Fields) \in Nat
  BY DEF DictAssumption
<1>2. \A i \in DOMAIN Fields :
         [key |-> Fields[i], val |-> vals[i], hint |-> "declared"] \in Entry
  BY DEF Entry, Hint, DictAssumption
<1>3. Instance(vals) \in Seq(Entry) /\ Len(Instance(vals)) = Len(Fields)
  BY <1>1, <1>2, SeqDef DEF Instance
<1>4. Unique(Instance(vals))
  BY DEF Unique, Instance, DictAssumption
<1>5. \A i \in DOMAIN Instance(vals) : ~Refuses(Instance(vals)[i].hint, Instance(vals)[i].val)
  BY DEF Instance, Refuses
<1> QED BY <1>3, <1>4, <1>5 DEF Accepted, DictAssumption

-----------------------------------------------------------------------------
(* The invariant is inductive, and no step disturbs a closed or a readonly   *)
(* config.                                                                  *)

LEMMA NodesAcceptIs ==
    ASSUME DictAssumption
    PROVE  NodesAccept <=> /\ Accepted(content) /\ Len(content) <= MaxLen
                           /\ isDict \in BOOLEAN /\ isObject \in BOOLEAN
                           /\ ok \in BOOLEAN /\ readonly \in BOOLEAN
                           /\ struct \in Flag /\ outer \in Flag
                           /\ ~isDict => content = <<>> /\ ~isObject
                           /\ schema \in DOMAIN Norm /\ (isObject => schema = "class")
BY DEF NodesAccept, TypeOK, Accepted, Unique

\* What each step keeps.
StepKeeps ==
    /\ NodesAccept'
    /\ Closed /\ call'.op \notin {"delattr", "assign"} => Keys(content') = Keys(content)
    /\ readonly /\ call'.op # "assign" => content' = content

\* What the call c may leave of the content.
Legal(c, r) ==
    /\ Accepted(r.c) /\ r.ok \in BOOLEAN
    /\ ~isDict \/ readonly => r.c = content
    /\ Closed /\ c.op # "delattr" => Keys(r.c) = Keys(content)

LEMMA FinishKeeps ==
    ASSUME DictAssumption, NodesAccept, NEW c, NEW r, NEW v, Legal(c, r), Finish(c, r, v)
    PROVE  StepKeeps
BY DEF Legal, Finish, StepKeeps, NodesAccept, TypeOK, Accepted, Unique, flags

\* A call that raises or returns at once.
LEMMA NothingLegal ==
    ASSUME DictAssumption, NodesAccept, NEW c
    PROVE  Legal(c, Outcome(content, TRUE)) /\ Legal(c, Outcome(content, FALSE))
BY NodesAcceptIs DEF Legal, Outcome

\* A call that stores.
LEMMA StoringLegal ==
    ASSUME NEW c, NEW r, NEW n, Stores(Here, content, r, n)
    PROVE  Legal(c, r)
BY DEF Stores, Here, Legal

\* A call that deletes.
LEMMA DroppingLegal ==
    ASSUME DictAssumption, NodesAccept, NEW c, NEW k,
           ~readonly, ~Closed \/ c.op = "delattr"
    PROVE  Legal(c, Outcome(Drop(content, k), TRUE))
<1>1. Accepted(content) /\ (~isDict => content = <<>>)
  BY NodesAcceptIs
<1>2. ~isDict => Drop(content, k) = content
  BY <1>1 DEF Drop, Keys
<1> QED BY <1>1, <1>2, DropAccepted DEF Legal, Outcome

LEMMA InitKeeps == DictAssumption /\ Init => NodesAccept
<1> SUFFICES ASSUME DictAssumption, Init PROVE NodesAccept
  OBVIOUS
<1>1. CASE schema = "dict" /\ content = <<>>
  <2>1. Len(content) <= MaxLen
    BY <1>1 DEF DictAssumption
  <2> QED BY <1>1, <2>1, EmptyAccepted, NodesAcceptIs DEF Init, Flag
<1>2. ASSUME schema = "class", NEW vals \in [DOMAIN Fields -> Val \ Untypable], content = Instance(vals)
      PROVE  NodesAccept
  <2>1. Accepted(content) /\ Len(content) <= MaxLen
    BY <1>2, InstanceAccepted DEF DictAssumption
  <2> QED BY <1>2, <2>1, NodesAcceptIs DEF Init, Flag
<1> QED BY <1>1, <1>2 DEF Init

\* The calls that store one value.
LEMMA SetKeeps ==
    ASSUME DictAssumption, NodesAccept, NEW n \in Name, NEW v \in Val,
           SetItem(n, v) \/ (v \in Foreign /\ SetNode(n, v)) \/ SetDefault(n, v)
    PROVE  StepKeeps
<1> DEFINE k == Normal(n)
<1>1. Here \in Where /\ Accepted(content) /\ k \in Key \cup {BadKey}
  <2>1. Closed \in BOOLEAN
    BY DEF Closed
  <2>2. isDict \in BOOLEAN /\ readonly \in BOOLEAN /\ Accepted(content) /\ schema \in DOMAIN Norm
    BY NodesAcceptIs
  <2> QED BY <2>1, <2>2 DEF Here, Where, Name, Normal, DictAssumption
<1> HIDE DEF k
<1>2. CASE SetItem(n, v)
  <2>1. Stores(Here, content, SetItemImpl(Here, content, k, v), 1)
    BY <1>1, SetItemStores
  <2> QED BY <1>2, <2>1, StoringLegal, FinishKeeps DEF SetItem, k
<1>3. CASE v \in Foreign /\ SetNode(n, v)
  <2>1. Stores(Here, content, SetNodeImpl(Here, content, k, v), 1)
    BY <1>1, <1>3, SetNodeStores
  <2> QED BY <1>3, <2>1, StoringLegal, FinishKeeps DEF SetNode, k
<1>4. CASE SetDefault(n, v)
  <2> DEFINE c == [op |-> "setdefault", key |-> k, val |-> v]
  <2>1. \/ Finish(c, SetItemImpl(Here, content, k, v), v)
        \/ Raise(c) \/ Return(c, Target[At(content, k).val])
    BY <1>4 DEF SetDefault, k
  <2>2. Stores(Here, content, SetItemImpl(Here, content, k, v), 1)
    BY <1>1, SetItemStores
  <2> HIDE DEF c
  <2> QED BY <2>1, <2>2, StoringLegal, NothingLegal, FinishKeeps DEF Raise, Return
<1> QED BY <1>2, <1>3, <1>4

LEMMA UpdateKeeps ==
    ASSUME DictAssumption, NodesAccept, NEW es \in Entries, Update(es)
    PROVE  StepKeeps
<1>1. Here \in Where /\ Accepted(content) /\ es \in Seq(Arg) /\ schema \in DOMAIN Norm
  <2>1. Closed \in BOOLEAN
    BY DEF Closed
  <2>2. isDict \in BOOLEAN /\ readonly \in BOOLEAN /\ Accepted(content) /\ schema \in DOMAIN Norm
    BY NodesAcceptIs
  <2> QED BY <2>1, <2>2, EntriesAre DEF Here, Where
<1>2. Stores(Here, content, Fill(Here, content, es), Len(es))
  BY <1>1, FillStores
<1> QED BY <1>2, StoringLegal, FinishKeeps DEF Update

\* The calls that read.
LEMMA ReadKeeps ==
    ASSUME DictAssumption, NodesAccept, NEW n \in Name, NEW default,
           Get(n, default) \/ HasKey(n)
    PROVE  StepKeeps
<1>1. ASSUME NEW c, NEW v, Raise(c) \/ Return(c, v) PROVE StepKeeps
  BY <1>1, NothingLegal, FinishKeeps DEF Raise, Return
<1>2. CASE Get(n, default)
  BY <1>1, <1>2 DEF Get
<1>3. CASE HasKey(n)
  BY <1>1, <1>3 DEF HasKey
<1> QED BY <1>2, <1>3

\* The calls that delete one entry.
LEMMA DeleteKeeps ==
    ASSUME DictAssumption, NodesAccept, NEW n \in Name, NEW default,
           DelItem(n) \/ DelAttr(n) \/ Pop(n, default)
    PROVE  StepKeeps
<1>1. ASSUME NEW c, Raise(c) PROVE StepKeeps
  BY <1>1, NothingLegal, FinishKeeps DEF Raise
<1>2. ASSUME NEW c, NEW k, NEW v, Deletes(c, k, v), ~readonly, ~Closed \/ c.op = "delattr"
      PROVE  StepKeeps
  BY <1>2, DroppingLegal, FinishKeeps DEF Deletes
<1>3. CASE DelItem(n)
  BY <1>1, <1>2, <1>3 DEF DelItem
<1>4. CASE DelAttr(n)
  <2> DEFINE c == [op |-> "delattr", key |-> n]
  <2>1. c.op = "delattr"
    OBVIOUS
  <2>2. Raise(c) \/ (~readonly /\ Deletes(c, n, Nothing))
    BY <1>4 DEF DelAttr
  <2> HIDE DEF c
  <2> QED BY <1>1, <1>2, <2>1, <2>2
<1>5. CASE Pop(n, default)
  BY <1>1, <1>2, <1>5 DEF Pop
<1> QED BY <1>3, <1>4, <1>5

LEMMA PopItemKeeps ==
    ASSUME DictAssumption, NodesAccept, PopItem
    PROVE  StepKeeps
<1> DEFINE c == [op |-> "popitem"]
<1>1. 1 \in Poppable => ~readonly /\ ~Closed
  BY DEF Poppable
<1>2. Raise(c) \/ (~readonly /\ ~Closed /\ \E k, v : Deletes(c, k, v))
  BY <1>1 DEF PopItem
<1> HIDE DEF c
<1> QED BY <1>2, NothingLegal, DroppingLegal, FinishKeeps DEF Raise, Deletes

\* Clearing stops at the first entry it cannot pop.
LEMMA MaxPoppable ==
    ASSUME DictAssumption, NodesAccept
    PROVE  /\ Max(Poppable) \in Poppable
           /\ Max(Poppable) \in 0 .. Len(content)
           /\ Max(Poppable) > 0 => ~readonly /\ ~Closed
<1>1. Len(content) \in Nat
  BY NodesAcceptIs DEF Accepted
<1>2. Poppable \in SUBSET (0 .. Len(content)) /\ 0 \in Poppable
  BY <1>1 DEF Poppable
<1>3. Max(Poppable) \in Poppable
  <2> HIDE DEF Poppable
  <2> QED BY <1>1, <1>2, MaxIn
<1> QED BY <1>2, <1>3 DEF Poppable

\* The last entries of a content.
LEMMA TailAccepted ==
    ASSUME NEW c, Accepted(c), NEW n \in 0 .. Len(c)
    PROVE  Accepted(SubSeq(c, n + 1, Len(c))) /\ Len(SubSeq(c, n + 1, Len(c))) <= Len(c)
<1> DEFINE t == SubSeq(c, n + 1, Len(c))
<1>1. c \in Seq(Entry) /\ Len(c) \in Nat /\ DOMAIN c = 1 .. Len(c)
  BY DEF Accepted
<1>2. /\ t \in Seq(Entry) /\ Len(t) = Len(c) - n /\ DOMAIN t = 1 .. Len(c) - n
      /\ \A i \in 1 .. Len(c) - n : n + i \in DOMAIN c /\ t[i] = c[n + i]
  <2>1. n + 1 \in Int /\ Len(c) \in Int /\ \A i \in n + 1 .. Len(c) : c[i] \in Entry
    BY <1>1
  <2>2. /\ t \in Seq(Entry) /\ Len(t) = IF n + 1 <= Len(c) THEN Len(c) - (n + 1) + 1 ELSE 0
        /\ \A i \in 1 .. Len(c) - (n + 1) + 1 : t[i] = c[n + 1 + i - 1]
    BY <2>1, SubSeqProperties
  <2>3. Len(c) - (n + 1) + 1 = Len(c) - n /\ \A i \in 1 .. Len(c) - n : n + 1 + i - 1 = n + i
    BY <1>1
  <2> HIDE DEF t
  <2>4. Len(t) = Len(c) - n
    <3>1. Len(t) = IF n + 1 <= Len(c) THEN Len(c) - (n + 1) + 1 ELSE 0
      BY <2>2
    <3>2. n <= Len(c) /\ n \in Nat /\ Len(c) \in Nat
      BY <1>1
    <3> QED BY <3>1, <3>2
  <2>5. DOMAIN t = 1 .. Len(t)
    BY <2>2
  <2>6. \A i \in 1 .. Len(c) - n : n + i \in DOMAIN c
    BY <1>1
  <2> QED BY <2>2, <2>3, <2>4, <2>5, <2>6
<1> HIDE DEF t
<1>3. Unique(t)
  <2>1. ASSUME NEW i \in DOMAIN t, NEW j \in DOMAIN t, t[i].key = t[j].key
        PROVE  i = j
    <3>1. n + i \in DOMAIN c /\ n + j \in DOMAIN c /\ c[n + i].key = c[n + j].key
      BY <1>2, <2>1
    <3>2. n + i = n + j
      BY <3>1 DEF Accepted, Unique
    <3> QED BY <1>2, <3>2
  <2> QED BY <2>1 DEF Unique
<1>4. Accepted(t)
  BY <1>1, <1>2, <1>3 DEF Accepted
<1>5. Len(t) <= Len(c)
  BY <1>1, <1>2
<1> QED BY <1>4, <1>5 DEF t

LEMMA ClearKeeps ==
    ASSUME DictAssumption, NodesAccept, Clear
    PROVE  StepKeeps
<1> DEFINE n == Max(Poppable)
           t == SubSeq(content, n + 1, Len(content))
           r == Outcome(t, n = Len(content))
           c == [op |-> "clear"]
<1>1. n \in 0 .. Len(content) /\ (n > 0 => ~readonly /\ ~Closed)
  BY MaxPoppable
<1>2. Accepted(content) /\ (~isDict => content = <<>>)
  BY NodesAcceptIs
<1>3. Finish(c, r, Nothing)
  BY DEF Clear
<1> HIDE DEF n
<1>4. Accepted(t) /\ (n = 0 => t = content) /\ (content = <<>> => t = content)
  BY <1>1, <1>2, TailAccepted DEF Accepted
<1>5. Legal(c, r)
  <2>1. r.c = t /\ r.ok \in BOOLEAN
    BY DEF Outcome
  <2> HIDE DEF r, t, c
  <2> QED BY <1>1, <1>2, <1>4, <2>1 DEF Legal
<1> HIDE DEF r, c
<1> QED BY <1>3, <1>5, FinishKeeps

\* The calls that assign the whole config.
LEMMA AssignKeeps ==
    ASSUME DictAssumption, NodesAccept, NEW b \in BOOLEAN,
           \/ \E es \in Entries : AssignDict(es, b)
           \/ \E vals \in [DOMAIN Fields -> Val] : AssignObject(vals, b)
           \/ AssignSpecial
    PROVE  StepKeeps
<1> USE NodesAcceptIs
<1>1. call'.op = "assign"
  <2>1. ASSUME NEW es \in Entries, AssignDict(es, b) PROVE call'.op = "assign"
    <3> DEFINE c == [op |-> "assign", entries |-> Normalised(es)]
    <3>1. call' = c /\ c.op = "assign"
      BY <2>1 DEF AssignDict
    <3> QED BY <3>1
  <2>2. ASSUME NEW vals, AssignObject(vals, b) PROVE call'.op = "assign"
    <3> DEFINE es == [i \in DOMAIN vals |-> [key |-> Fields[i], val |-> vals[i]]]
               c == [op |-> "assign", entries |-> es]
    <3>1. call' = c
      BY <2>2 DEF AssignObject
    <3>2. c.op = "assign"
      OBVIOUS
    <3> QED BY <3>1, <3>2
  <2>3. CASE AssignSpecial
    BY <2>3 DEF AssignSpecial
  <2> QED BY <2>1, <2>2, <2>3
<1>2. SUFFICES NodesAccept'
  BY <1>1 DEF StepKeeps
<1>3. ASSUME NEW es \in Entries, AssignDict(es, b) PROVE NodesAccept'
  <2> DEFINE r == Fill(Filling, <<>>, es)
  <2>1. es \in Seq(Arg) /\ Len(es) <= MaxLen
    <3>1. es \in Seq(Arg) /\ Len(es) <= MaxArg
      BY EntriesAre
    <3>2. Len(es) \in Nat
      BY <3>1
    <3> QED BY <3>1, <3>2 DEF DictAssumption
  <2>2. Filling \in Where
    BY DEF Filling, Where
  <2>3. Stores(Filling, <<>>, r, Len(es))
    BY <2>1, <2>2, EmptyAccepted, FillStores
  <2>4. Accepted(r.c) /\ Len(r.c) <= MaxLen /\ r.ok \in BOOLEAN
    <3>1. Accepted(r.c) /\ Len(r.c) <= Len(es) /\ r.ok \in BOOLEAN
      BY <2>1, <2>3 DEF Stores
    <3>2. Len(r.c) \in Nat /\ Len(es) \in Nat
      BY <2>1, <3>1 DEF Accepted
    <3> QED BY <2>1, <3>1, <3>2 DEF DictAssumption
  <2> HIDE DEF r
  <2> QED BY <1>3, <2>4 DEF AssignDict, NodesAccept, TypeOK, Accepted, Unique, Flag, r
<1>4. ASSUME NEW vals \in [DOMAIN Fields -> Val], AssignObject(vals, b) PROVE NodesAccept'
  <2> DEFINE accepted == \A i \in DOMAIN vals : vals[i] \notin Untypable
  <2>1. accepted => Accepted(Instance(vals)) /\ Len(Instance(vals)) <= MaxLen
    <3>1. accepted => vals \in [DOMAIN Fields -> Val \ Untypable]
      OBVIOUS
    <3> QED BY <3>1, InstanceAccepted
  <2> QED BY <1>4, <2>1 DEF AssignObject, NodesAccept, TypeOK, Accepted, Unique, Flag
<1>5. CASE AssignSpecial
  <2>1. Accepted(content') /\ Len(content') <= MaxLen
    <3>1. content' = <<>>
      BY <1>5 DEF AssignSpecial
    <3>2. Len(<<>>) <= MaxLen
      BY DEF DictAssumption
    <3> QED BY <3>1, <3>2, EmptyAccepted
  <2> QED BY <1>5, <2>1 DEF AssignSpecial, NodesAccept, TypeOK, Accepted, Unique, flags
<1> QED BY <1>3, <1>4, <1>5

LEMMA NextKeeps == DictAssumption /\ NodesAccept /\ Next => StepKeeps
<1> SUFFICES ASSUME DictAssumption, NodesAccept, Next PROVE StepKeeps
  OBVIOUS
<1>1. CASE \E n \in Name, v \in Val : SetItem(n, v) \/ SetDefault(n, v)
  BY <1>1, SetKeeps
<1>2. CASE \E n \in Name, v \in Foreign : SetNode(n, v)
  BY <1>2, SetKeeps DEF DictAssumption
<1>3. CASE \E n \in Name, default \in {Default, NoDefault} : Get(n, default) \/ Pop(n, default)
  BY <1>3, ReadKeeps, DeleteKeeps
<1>4. CASE \E n \in Name : HasKey(n) \/ DelItem(n) \/ DelAttr(n)
  BY <1>4, ReadKeeps, DeleteKeeps
<1>5. CASE \E entries \in Entries : Update(entries)
  BY <1>5, UpdateKeeps
<1>6. CASE PopItem
  BY <1>6, PopItemKeeps
<1>7. CASE Clear
  BY <1>7, ClearKeeps
<1>8. CASE \/ \E entries \in Entries, b \in BOOLEAN : AssignDict(entries, b)
           \/ \E vals \in [DOMAIN Fields -> Val], b \in BOOLEAN : AssignObject(vals, b)
           \/ AssignSpecial
  BY <1>8, AssignKeeps
<1>9. CASE SetFlags
  BY <1>9, NodesAcceptIs DEF SetFlags, SetStruct, SetOuter, StepKeeps, NodesAccept, TypeOK
<1> QED BY <1>1, <1>2, <1>3, <1>4, <1>5, <1>6, <1>7, <1>8, <1>9 DEF Next

LEMMA StutterKeeps ==
    ASSUME NodesAccept, UNCHANGED vars
    PROVE  StepKeeps
BY DEF vars, StepKeeps, NodesAccept, TypeOK, Accepted, Unique

\* Whatever operations raised on the way, each key has one node, and a node
\* holds no value its own type refuses: for any class, any values and any
\* bounds.
THEOREM NodesAlwaysAccept == Spec => []NodesAccept
<1>1. Init => NodesAccept
  BY DictAssumption, InitKeeps
<1>2. NodesAccept /\ [Next]_vars => NodesAccept'
  BY DictAssumption, NextKeeps, StutterKeeps DEF StepKeeps
<1> QED BY <1>1, <1>2, PTL DEF Spec

\* The keys of a closed config stay what they are, but for the deletion of an
\* attribute and the assignment of the whole config.
THEOREM KeysAreFixed == Spec => KeysFixed
<1>1. NodesAccept /\ [Next]_vars =>
         [Closed /\ call'.op \notin {"delattr", "assign"} => Keys(content') = Keys(content)]_vars
  BY DictAssumption, NextKeeps DEF StepKeeps
<1> QED BY <1>1, NodesAlwaysAccept, PTL DEF Spec, KeysFixed

\* A readonly config keeps its content, but for the assignment of the whole
\* config.
THEOREM ReadonlyAlwaysHolds == Spec => ReadonlyHolds
<1>1. NodesAccept /\ [Next]_vars =>
         [readonly /\ call'.op # "assign" => content' = content]_vars
  BY DictAssumption, NextKeeps DEF StepKeeps
<1> QED BY <1>1, NodesAlwaysAccept, PTL DEF Spec, ReadonlyHolds

-----------------------------------------------------------------------------
(* The refinement.  Plain is the dict a content stands for, and each step of *)
(* the operations is the step of the Python dict.                            *)

Plain(c) == [i \in DOMAIN c |-> [key |-> c[i].key, val |-> c[i].val]]
PlainEntry == [key : Key \cup {BadKey}, val : Val]

LEMMA PlainIs ==
    ASSUME NEW c, Accepted(c)
    PROVE  /\ Plain(c) \in Seq(PlainEntry) /\ DOMAIN Plain(c) = DOMAIN c
           /\ Len(Plain(c)) = Len(c)
           /\ Py!KeysOf(Plain(c)) = Keys(c)
           /\ \A k : Py!Place(Plain(c), k) = Place(c, k)
           /\ \A k \in Keys(c) : Py!ValOf(Plain(c), k) = At(c, k).val
<1>1. c \in Seq(Entry) /\ DOMAIN c = 1 .. Len(c) /\ Len(c) \in Nat
  BY DEF Accepted
<1>2. \A i \in 1 .. Len(c) : c[i] \in Entry
  BY <1>1
<1>3. /\ DOMAIN Plain(c) = DOMAIN c
      /\ \A i \in DOMAIN c : Plain(c)[i].key = c[i].key /\ Plain(c)[i].val = c[i].val
  BY DEF Plain
<1>4. Plain(c) \in Seq(PlainEntry) /\ Len(Plain(c)) = Len(c)
  <2>1. Plain(c) \in [1 .. Len(c) -> PlainEntry]
    BY <1>1, <1>2 DEF Plain, PlainEntry, Entry
  <2> QED BY <1>1, <2>1, SeqDef
<1>5. Py!KeysOf(Plain(c)) = Keys(c)
  BY <1>3 DEF Py!KeysOf, Keys
<1>6. \A k : Py!Place(Plain(c), k) = Place(c, k)
  <2> TAKE k
  <2>1. \A i : i \in DOMAIN Plain(c) /\ Plain(c)[i].key = k <=> i \in DOMAIN c /\ c[i].key = k
    BY <1>3
  <2> HIDE DEF Plain
  <2> QED BY <2>1 DEF Py!Place, Place
<1>7. \A k \in Keys(c) : Py!ValOf(Plain(c), k) = At(c, k).val
  BY <1>3, <1>6, PlaceIn DEF Py!ValOf, At
<1> QED BY <1>3, <1>4, <1>5, <1>6, <1>7

LEMMA PlainPut ==
    ASSUME NEW c, Accepted(c), NEW e \in Entry
    PROVE  Plain(Put(c, e)) = Py!Stored(Plain(c), e.key, e.val)
<1>1. c \in Seq(Entry) /\ DOMAIN c = 1 .. Len(c) /\ Len(c) \in Nat
  BY DEF Accepted
<1>2. Py!KeysOf(Plain(c)) = Keys(c) /\ Plain(c) \in Seq(PlainEntry) /\ Len(Plain(c)) = Len(c)
  BY PlainIs
<1> DEFINE new == [key |-> e.key, val |-> e.val]
<1>3. CASE e.key \in Keys(c)
  <2> DEFINE p == [i \in DOMAIN c |-> IF c[i].key = e.key THEN e ELSE c[i]]
             q == [i \in DOMAIN Plain(c) |-> IF Plain(c)[i].key = e.key THEN new ELSE Plain(c)[i]]
  <2>1. Put(c, e) = p /\ Py!Stored(Plain(c), e.key, e.val) = q
    BY <1>2, <1>3 DEF Put, Py!Stored
  <2>2. \A i \in DOMAIN c : q[i] = [key |-> p[i].key, val |-> p[i].val]
    BY DEF Plain
  <2>3. DOMAIN p = DOMAIN c /\ q = [i \in DOMAIN c |-> q[i]]
    BY DEF Plain
  <2> HIDE DEF p, q
  <2>4. Plain(p) = q
    BY <2>2, <2>3 DEF Plain
  <2> QED BY <2>1, <2>4
<1>4. CASE e.key \notin Keys(c)
  <2> DEFINE p == Append(c, e)
             q == Append(Plain(c), new)
  <2>1. Put(c, e) = p /\ Py!Stored(Plain(c), e.key, e.val) = q
    BY <1>2, <1>4 DEF Put, Py!Stored
  <2>2. DOMAIN p = 1 .. Len(c) + 1 /\ p[Len(c) + 1] = e /\ \A i \in 1 .. Len(c) : p[i] = c[i]
    BY <1>1
  <2>3. /\ q \in Seq(PlainEntry) /\ DOMAIN q = 1 .. Len(c) + 1 /\ q[Len(c) + 1] = new
        /\ \A i \in 1 .. Len(c) : q[i] = Plain(c)[i]
    <3>1. new \in PlainEntry
      BY DEF Entry, PlainEntry
    <3> HIDE DEF new
    <3> QED BY <1>1, <1>2, <3>1
  <2>4. \A i \in 1 .. Len(c) : Plain(c)[i] = [key |-> c[i].key, val |-> c[i].val]
    BY <1>1 DEF Plain
  <2> HIDE DEF p, q
  <2>5. \A i \in 1 .. Len(c) + 1 : q[i] = [key |-> p[i].key, val |-> p[i].val]
    <3> TAKE i \in 1 .. Len(c) + 1
    <3>1. CASE i = Len(c) + 1
      BY <2>2, <2>3, <3>1
    <3>2. CASE i \in 1 .. Len(c)
      BY <2>2, <2>3, <2>4, <3>2
    <3> QED BY <1>1, <3>1, <3>2
  <2>6. q = [i \in 1 .. Len(c) + 1 |-> q[i]]
    BY <2>3
  <2>7. Plain(p) = q
    BY <2>2, <2>5, <2>6 DEF Plain
  <2> QED BY <2>1, <2>7
<1> QED BY <1>3, <1>4

LEMMA PlainDrop ==
    ASSUME NEW c, Accepted(c), NEW k
    PROVE  Plain(Drop(c, k)) = Py!Without(Plain(c), k)
<1>1. c \in Seq(Entry) /\ DOMAIN c = 1 .. Len(c) /\ Len(c) \in Nat
  BY DEF Accepted
<1>2. /\ Py!KeysOf(Plain(c)) = Keys(c) /\ Plain(c) \in Seq(PlainEntry) /\ Len(Plain(c)) = Len(c)
      /\ Py!Place(Plain(c), k) = Place(c, k)
  BY PlainIs
<1>3. CASE k \notin Keys(c)
  BY <1>2, <1>3 DEF Drop, Py!Without
<1>4. CASE k \in Keys(c)
  <2> DEFINE at == Place(c, k)
             p == RemoveAt(c, at)
             q == RemoveAt(Plain(c), at)
             n == Len(c) - 1
  <2>1. at \in 1 .. Len(c)
    BY <1>1, <1>4, PlaceIn
  <2> HIDE DEF at
  <2>2. DOMAIN p = 1 .. n /\ \A j \in 1 .. n : p[j] = IF j < at THEN c[j] ELSE c[j + 1]
    BY <1>1, <2>1, RemoveAtFacts
  <2>3. /\ q \in Seq(PlainEntry) /\ DOMAIN q = 1 .. n
        /\ \A j \in 1 .. n : q[j] = IF j < at THEN Plain(c)[j] ELSE Plain(c)[j + 1]
    BY <1>2, <2>1, RemoveAtFacts
  <2>4. \A i \in 1 .. Len(c) : Plain(c)[i] = [key |-> c[i].key, val |-> c[i].val]
    BY <1>1 DEF Plain
  <2>5. \A j \in 1 .. n : j \in 1 .. Len(c) /\ j + 1 \in 1 .. Len(c)
    BY <1>1
  <2> HIDE DEF p, q, n
  <2>6. \A j \in 1 .. n : q[j] = [key |-> p[j].key, val |-> p[j].val]
    BY <2>2, <2>3, <2>4, <2>5
  <2>7. q = [j \in 1 .. n |-> q[j]]
    BY <2>3
  <2>8. Plain(p) = q
    BY <2>2, <2>6, <2>7 DEF Plain
  <2>9. Drop(c, k) = p /\ Py!Without(Plain(c), k) = q
    BY <1>2, <1>4 DEF Drop, Py!Without, Py!RemoveAt, RemoveAt, p, q, at
  <2> QED BY <2>8, <2>9
<1> QED BY <1>3, <1>4

LEMMA PlainSetItem ==
    ASSUME NEW place \in Where, NEW c, Accepted(c), NEW k \in Key \cup {BadKey}, NEW v \in Val,
           SetItemImpl(place, c, k, v).ok
    PROVE  Plain(SetItemImpl(place, c, k, v).c) = Py!Stored(Plain(c), k, v)
<1> DEFINE e == [key |-> k, val |-> v, hint |-> HintFor(c, k)]
<1>1. Admits(place, c, k) /\ SetItemImpl(place, c, k, v).c = Put(c, e)
  BY DEF SetItemImpl, Outcome
<1>2. e \in Entry /\ e.key = k /\ e.val = v
  BY <1>1, HintForIn DEF Entry, Admits
<1> HIDE DEF e
<1> QED BY <1>1, <1>2, PlainPut

LEMMA PlainSetNode ==
    ASSUME NEW place \in Where, NEW c, Accepted(c), NEW k \in Key \cup {BadKey}, NEW v \in Val,
           SetNodeImpl(place, c, k, v).ok
    PROVE  Plain(SetNodeImpl(place, c, k, v).c) = Py!Stored(Plain(c), k, v)
<1> DEFINE e == [key |-> k, val |-> v, hint |-> "foreign"]
<1>1. Admits(place, c, k) /\ SetNodeImpl(place, c, k, v).c = Put(c, e)
  BY DEF SetNodeImpl, Outcome
<1>2. e \in Entry /\ e.key = k /\ e.val = v
  BY <1>1 DEF Entry, Hint, Admits
<1> HIDE DEF e
<1> QED BY <1>1, <1>2, PlainPut

\* e[k] is what storing the first k entries leaves of a dict d.
StoredRounds(e, d, es) ==
    /\ e \in [0 .. Len(es) -> Seq(PlainEntry)]
    /\ e[0] = d
    /\ \A k \in 0 .. Len(es) - 1 : e[k + 1] = Py!Stored(e[k], es[k + 1].key, es[k + 1].val)
    /\ e[Len(es)] = Py!StoredAll(d, es)

LEMMA StoredIn ==
    ASSUME NEW d \in Seq(PlainEntry), NEW x \in PlainEntry
    PROVE  Py!Stored(d, x.key, x.val) \in Seq(PlainEntry)
<1> DEFINE new == [key |-> x.key, val |-> x.val]
<1>1. new \in PlainEntry
  BY DEF PlainEntry
<1> HIDE DEF new
<1>2. [i \in DOMAIN d |-> IF d[i].key = x.key THEN new ELSE d[i]] \in Seq(PlainEntry)
  BY <1>1
<1>3. Append(d, new) \in Seq(PlainEntry)
  BY <1>1
<1> QED BY <1>2, <1>3 DEF Py!Stored, new

LEMMA StoredAllIs ==
    ASSUME NEW d \in Seq(PlainEntry), NEW es \in Seq(PlainEntry)
    PROVE  \E e : StoredRounds(e, d, es)
<1> DEFINE n == Len(es)
           S == Seq(PlainEntry)
           Op(o, x) == Py!Stored(o, x.key, x.val)
           step == [p \in S \X (1 .. n) |-> Op(p[1], es[p[2]])]
           Body(it) == [s \in SUBSET DOMAIN es |->
                          IF s = {} THEN d ELSE Op(it[s \ {Max(s)}], es[Max(s)])]
           r == CHOOSE f : f = Body(f)
<1>0. n \in Nat /\ DOMAIN es = 1 .. n
  OBVIOUS
<1>1. \A o \in S, i \in 1 .. n : Op(o, es[i]) \in S
  <2>1. \A i \in 1 .. n : es[i] \in PlainEntry
    BY <1>0
  <2> QED BY <2>1, StoredIn
<1>2. step \in Steps(n, S) /\ d \in S
  <2>1. d \in S
    OBVIOUS
  <2> HIDE DEF Op, S, n
  <2> QED BY <1>1, <2>1 DEF Steps
<1>3. PICK it \in [SUBSET (1 .. n) -> S] : Iterates(it, n, d, step)
  <2> HIDE DEF S, step, n
  <2> QED BY <1>0, <1>2, FoldExists
<1>4. \A s \in SUBSET (1 .. n) : s # {} => Max(s) \in 1 .. n
  <2>1. ASSUME NEW s \in SUBSET (1 .. n), s # {} PROVE Max(s) \in s
    <3>1. s \in SUBSET (0 .. n)
      BY <1>0
    <3> QED BY <1>0, <2>1, <3>1, MaxIn
  <2> QED BY <2>1
<1>5. \A o \in S, i \in 1 .. n : step[<<o, i>>] = Op(o, es[i])
  <2> HIDE DEF Op, S, n
  <2> QED OBVIOUS
<1>6. it = Body(it)
  <2>1. \A s \in SUBSET (1 .. n) : s # {} => it[s \ {Max(s)}] \in S
    BY <1>3
  <2> HIDE DEF Op, S, step, n
  <2>2. ASSUME NEW s \in SUBSET (1 .. n)
        PROVE  it[s] = IF s = {} THEN d ELSE Op(it[s \ {Max(s)}], es[Max(s)])
    <3>1. CASE s = {}
      BY <1>3, <3>1 DEF Iterates
    <3>2. CASE s # {}
      <4>1. it[s] = step[<<it[s \ {Max(s)}], Max(s)>>]
        BY <1>3, <3>2 DEF Iterates
      <4> QED BY <1>4, <1>5, <2>1, <3>2, <4>1
    <3> QED BY <3>1, <3>2
  <2> QED BY <1>0, <1>3, <2>2
<1>7. r = Body(r)
  <2> HIDE DEF Body
  <2> QED BY <1>6, Zenon
<1>8. Py!StoredAll(d, es) = r[1 .. n]
  BY <1>0 DEF Py!StoredAll, Py!FoldLeft, Py!MapThenFoldSet, Py!Max, Max
<1>9. Rounds(r, n, S, step)
  <2>1. IteratesIn(r, n, S, d, step)
    <3> HIDE DEF Op, S, n, r, step
    <3>1. r[{}] = d
      BY <1>7
    <3>2. ASSUME NEW s \in SUBSET (1 .. n), s # {}, r[s \ {Max(s)}] \in S
          PROVE  r[s] = step[<<r[s \ {Max(s)}], Max(s)>>]
      <4>1. r[s] = Op(r[s \ {Max(s)}], es[Max(s)])
        BY <1>0, <1>7, <3>2
      <4> QED BY <1>4, <1>5, <3>2, <4>1
    <3> QED BY <3>1, <3>2 DEF IteratesIn
  <2> HIDE DEF r, S, step, n
  <2> QED BY <1>0, <1>2, <2>1, FoldRounds
<1> DEFINE e == [k \in 0 .. n |-> r[1 .. k]]
<1>10. r[1 .. 0] = d
  <2>1. 1 .. 0 = {}
    OBVIOUS
  <2> HIDE DEF Op, S, n, r, step
  <2> QED BY <2>1, <1>7
<1>11. ASSUME NEW k \in 0 .. n - 1 PROVE e[k + 1] = Op(e[k], es[k + 1])
  <2>1. k \in 0 .. n /\ k + 1 \in 0 .. n /\ k + 1 \in 1 .. n /\ k < n
    BY <1>0
  <2> HIDE DEF Op, S, r, step, n
  <2>2. r[1 .. k] \in S /\ r[1 .. k + 1] = step[<<r[1 .. k], k + 1>>]
    BY <1>9, <2>1 DEF Rounds
  <2> QED BY <1>5, <2>1, <2>2
<1>12. e \in [0 .. n -> S] /\ e[0] = d /\ e[n] = r[1 .. n]
  <2>1. 0 \in 0 .. n /\ n \in 0 .. n
    BY <1>0
  <2> HIDE DEF Op, S, r, step, n
  <2> QED BY <1>9, <1>10, <2>1 DEF Rounds
<1>13. StoredRounds(e, d, es)
  <2> HIDE DEF e, r
  <2> QED BY <1>8, <1>11, <1>12 DEF StoredRounds
<1> QED BY <1>13

\* What storing the first entries leaves is what the first rounds leave.
LEMMA StoredPrefix ==
    ASSUME NEW d \in Seq(PlainEntry), NEW es \in Seq(PlainEntry), NEW e,
           StoredRounds(e, d, es), NEW m \in 0 .. Len(es)
    PROVE  Py!StoredAll(d, SubSeq(es, 1, m)) = e[m]
<1> DEFINE fs == SubSeq(es, 1, m)
<1>1. Len(es) \in Nat /\ m \in Nat /\ m <= Len(es)
  OBVIOUS
<1>2. fs \in Seq(PlainEntry) /\ Len(fs) = m /\ \A i \in 1 .. m : fs[i] = es[i]
  <2>1. m \in Int /\ \A i \in 1 .. m : es[i] \in PlainEntry
    OBVIOUS
  <2>2. /\ fs \in Seq(PlainEntry) /\ Len(fs) = IF 1 <= m THEN m - 1 + 1 ELSE 0
        /\ \A i \in 1 .. m - 1 + 1 : fs[i] = es[1 + i - 1]
    BY <2>1, SubSeqProperties
  <2> HIDE DEF fs
  <2>3. Len(fs) = m
    BY <1>1, <2>2
  <2>4. m - 1 + 1 = m /\ \A i \in 1 .. m : 1 + i - 1 = i
    BY <1>1
  <2> QED BY <2>2, <2>3, <2>4
<1> HIDE DEF fs
<1>3. PICK f : StoredRounds(f, d, fs)
  BY <1>2, StoredAllIs
<1> DEFINE T == {k \in 0 .. m : f[k] = e[k]}
<1>4. 0 \in T
  BY <1>1, <1>3 DEF StoredRounds
<1>5. ASSUME NEW k \in 0 .. m - 1, k \in T PROVE k + 1 \in T
  <2>1. k \in 0 .. Len(es) - 1 /\ k \in 0 .. Len(fs) - 1 /\ k + 1 \in 1 .. m /\ k + 1 \in 0 .. m
    BY <1>1, <1>2
  <2>2. f[k + 1] = Py!Stored(f[k], fs[k + 1].key, fs[k + 1].val)
    BY <1>3, <2>1 DEF StoredRounds
  <2>3. e[k + 1] = Py!Stored(e[k], es[k + 1].key, es[k + 1].val)
    BY <2>1 DEF StoredRounds
  <2>4. f[k] = e[k] /\ fs[k + 1] = es[k + 1]
    BY <1>2, <1>5, <2>1
  <2> QED BY <2>1, <2>2, <2>3, <2>4
<1>6. f[m] = e[m]
  <2>1. \A k \in 0 .. m : k \in T
    <3> HIDE DEF T
    <3> QED BY <1>1, <1>4, <1>5, InductionTo
  <2> QED BY <1>1, <2>1
<1> QED BY <1>2, <1>3, <1>6 DEF StoredRounds, fs

\* Filling stores the entries one after the other, all of them or the first of
\* them if it raises.
LEMMA PlainFill ==
    ASSUME NEW place \in Where, NEW c, Accepted(c), NEW es \in Seq(Arg),
           DictAssumption, schema \in DOMAIN Norm
    PROVE  LET r == Fill(place, c, es)
               xs == Normalised(es)
           IN  /\ r.ok => Plain(r.c) = Py!StoredAll(Plain(c), xs)
               /\ \E m \in 0 .. Len(xs) :
                     Plain(r.c) = Py!StoredAll(Plain(c), SubSeq(xs, 1, m))
<1> DEFINE n == Len(es)
           xs == Normalised(es)
<1>1. n \in Nat /\ DOMAIN es = 1 .. n /\ \A i \in 1 .. n : es[i] \in Arg
  OBVIOUS
<1>2. /\ xs \in Seq(PlainEntry) /\ Len(xs) = n
      /\ \A i \in 1 .. n : xs[i].key = Normal(es[i].key) /\ xs[i].val = es[i].val
  <2>2. \A i \in 1 .. n : Normal(es[i].key) \in Key \cup {BadKey} /\ es[i].val \in Val
    BY <1>1 DEF Arg, Name, Normal, DictAssumption
  <2>3. \A i \in 1 .. n : [es[i] EXCEPT !.key = Normal(@)] = [key |-> Normal(es[i].key), val |-> es[i].val]
    <3>1. \A x \in Arg : \A y : [x EXCEPT !.key = y] = [key |-> y, val |-> x.val]
      BY DEF Arg
    <3> QED BY <1>1, <3>1
  <2>4. xs = [i \in 1 .. n |-> [key |-> Normal(es[i].key), val |-> es[i].val]]
    BY <1>1, <2>3 DEF Normalised
  <2>5. xs \in [1 .. n -> PlainEntry]
    BY <2>2, <2>4 DEF PlainEntry
  <2>6. \A i \in 1 .. n : xs[i].key = Normal(es[i].key) /\ xs[i].val = es[i].val
    BY <2>4
  <2> HIDE DEF xs, n
  <2> QED BY <1>1, <2>5, <2>6, SeqDef
<1> HIDE DEF xs
<1>3. PICK d : FillRounds(d, place, c, es)
  BY FillIs
<1>4. Plain(c) \in Seq(PlainEntry)
  BY PlainIs
<1>5. PICK e : StoredRounds(e, Plain(c), xs)
  BY <1>2, <1>4, StoredAllIs
<1> DEFINE Good(k) == /\ d[k].ok => Plain(d[k].c) = e[k]
                      /\ \E m \in 0 .. k : Plain(d[k].c) = e[m]
           T == {k \in 0 .. n : Good(k)}
<1>6. 0 \in T
  <2>1. d[0] = Outcome(c, TRUE) /\ e[0] = Plain(c) /\ 0 \in 0 .. n
    BY <1>1, <1>3, <1>5 DEF FillRounds, StoredRounds
  <2> QED BY <2>1 DEF Outcome
<1>7. ASSUME NEW k \in 0 .. n - 1, k \in T PROVE k + 1 \in T
  <2>1. k \in 0 .. n /\ k + 1 \in 0 .. n /\ k + 1 \in 1 .. n /\ k \in 0 .. Len(xs) - 1
    BY <1>1, <1>2
  <2>2. d[k] \in FillResult /\ d[k + 1] = FillStep(place, d[k], es[k + 1])
    BY <1>3, <2>1 DEF FillRounds
  <2>3. e[k + 1] = Py!Stored(e[k], xs[k + 1].key, xs[k + 1].val)
    BY <1>5, <2>1 DEF StoredRounds
  <2>4. Good(k)
    BY <1>7
  <2>5. Good(k + 1)
    <3>1. CASE ~d[k].ok
      <4>1. d[k + 1] = d[k]
        BY <2>2, <3>1 DEF FillStep
      <4>2. \A m \in 0 .. k : m \in 0 .. k + 1
        BY <2>1
      <4> QED BY <2>4, <3>1, <4>1, <4>2
    <3>2. CASE d[k].ok
      <4> DEFINE y == Normal(es[k + 1].key)
                 v == es[k + 1].val
                 w == SetItemImpl(place, d[k].c, y, v)
      <4>1. d[k + 1] = w /\ xs[k + 1].key = y /\ xs[k + 1].val = v
        BY <1>2, <2>1, <2>2, <3>2 DEF FillStep
      <4>2. y \in Key \cup {BadKey} /\ v \in Val /\ Accepted(d[k].c)
        BY <1>1, <2>1, <2>2 DEF Arg, Name, Normal, DictAssumption, FillResult
      <4> HIDE DEF y, v
      <4>3. w.ok => Plain(w.c) = Py!Stored(Plain(d[k].c), y, v)
        BY <4>2, PlainSetItem
      <4>4. ~w.ok => w.c = d[k].c
        BY <4>2, SetItemStores
      <4>5. k \in 0 .. k + 1 /\ k + 1 \in 0 .. k + 1
        BY <2>1
      <4> HIDE DEF w
      <4>6. Plain(d[k].c) = e[k]
        BY <2>4, <3>2
      <4>7. CASE w.ok
        <5>1. Plain(w.c) = e[k + 1]
          BY <2>3, <4>1, <4>3, <4>6, <4>7
        <5> QED BY <4>1, <4>5, <5>1
      <4>8. CASE ~w.ok
        BY <4>1, <4>4, <4>5, <4>6, <4>8
      <4> QED BY <4>7, <4>8
    <3> QED BY <3>1, <3>2
  <2> HIDE DEF Good
  <2> QED BY <2>1, <2>5
<1>8. Good(n)
  <2>1. \A k \in 0 .. n : k \in T
    <3> HIDE DEF T
    <3> QED BY <1>1, <1>6, <1>7, InductionTo
  <2> HIDE DEF Good
  <2> QED BY <1>1, <2>1
<1>9. d[n] = Fill(place, c, es) /\ e[n] = Py!StoredAll(Plain(c), xs)
  BY <1>2, <1>3, <1>5 DEF FillRounds, StoredRounds
<1>10. \A m \in 0 .. n : e[m] = Py!StoredAll(Plain(c), SubSeq(xs, 1, m))
  BY <1>2, <1>4, <1>5, StoredPrefix
<1> QED BY <1>2, <1>8, <1>9, <1>10 DEF xs

\* An instance of the class is its fields stored one after the other.
LEMMA PlainInstance ==
    ASSUME NEW vals \in [DOMAIN Fields -> Val], DictAssumption
    PROVE  LET xs == [i \in DOMAIN vals |-> [key |-> Fields[i], val |-> vals[i]]]
           IN  Plain(Instance(vals)) = Py!StoredAll(<<>>, xs)
<1> DEFINE n == Len(Fields)
           xs == [i \in DOMAIN vals |-> [key |-> Fields[i], val |-> vals[i]]]
<1>1. /\ n \in Nat /\ DOMAIN Fields = 1 .. n /\ DOMAIN vals = 1 .. n
      /\ \A i \in 1 .. n : Fields[i] \in Key /\ vals[i] \in Val
      /\ \A i, j \in 1 .. n : Fields[i] = Fields[j] => i = j
  BY DEF DictAssumption
<1>2. /\ xs \in Seq(PlainEntry) /\ Len(xs) = n /\ DOMAIN xs = 1 .. n
      /\ \A i \in 1 .. n : xs[i] \in PlainEntry /\ xs[i].key = Fields[i] /\ xs[i].val = vals[i]
                           /\ xs[i] = [key |-> xs[i].key, val |-> xs[i].val]
  <2>1. xs \in [1 .. n -> PlainEntry]
    BY <1>1 DEF PlainEntry
  <2>2. \A i \in 1 .. n : xs[i].key = Fields[i] /\ xs[i].val = vals[i]
                          /\ xs[i] = [key |-> xs[i].key, val |-> xs[i].val]
    BY <1>1
  <2>3. DOMAIN xs = 1 .. n /\ \A i \in 1 .. n : xs[i] \in PlainEntry
    <3> HIDE DEF xs, n
    <3> QED BY <2>1
  <2>4. xs \in Seq(PlainEntry) /\ Len(xs) = n
    <3> HIDE DEF xs, n
    <3> QED BY <1>1, <2>1, SeqDef
  <2> HIDE DEF xs, n
  <2> QED BY <2>2, <2>3, <2>4
<1>3. Plain(Instance(vals)) = xs
  BY <1>1 DEF Plain, Instance
<1> HIDE DEF xs
<1>4. <<>> \in Seq(PlainEntry)
  OBVIOUS
<1>5. PICK e : StoredRounds(e, <<>>, xs)
  BY <1>2, <1>4, StoredAllIs
<1> DEFINE First(k) == Len(e[k]) = k /\ \A i \in 1 .. k : e[k][i] = xs[i]
           T == {k \in 0 .. n : First(k)}
<1>6. 0 \in T
  BY <1>1, <1>5 DEF StoredRounds
<1>7. ASSUME NEW k \in 0 .. n - 1, k \in T PROVE k + 1 \in T
  <2> DEFINE s == e[k]
             x == xs[k + 1]
  <2>1. k \in 0 .. n /\ k + 1 \in 0 .. n /\ k + 1 \in 1 .. n /\ k \in 0 .. Len(xs) - 1 /\ k \in Nat
    BY <1>1, <1>2
  <2>2. s \in Seq(PlainEntry) /\ e[k + 1] = Py!Stored(s, x.key, x.val)
    BY <1>2, <1>5, <2>1 DEF StoredRounds
  <2>3. Len(s) = k /\ DOMAIN s = 1 .. k /\ \A i \in 1 .. k : s[i] = xs[i]
    BY <1>7, <2>2
  <2>4. x \in PlainEntry /\ x.key = Fields[k + 1] /\ x = [key |-> x.key, val |-> x.val]
    BY <1>2, <2>1
  <2>5. \A i \in 1 .. k : s[i].key = Fields[i] /\ Fields[i] # Fields[k + 1]
    BY <1>1, <1>2, <2>1, <2>3
  <2> HIDE DEF s, x
  <2>6. x.key \notin Py!KeysOf(s)
    BY <2>3, <2>4, <2>5 DEF Py!KeysOf
  <2>7. e[k + 1] = Append(s, x)
    BY <2>2, <2>4, <2>6 DEF Py!Stored
  <2>8. /\ Len(Append(s, x)) = k + 1 /\ Append(s, x)[k + 1] = x
        /\ \A i \in 1 .. k : Append(s, x)[i] = s[i]
    BY <2>2, <2>3, <2>4
  <2>9. \A i \in 1 .. k + 1 : i = k + 1 \/ i \in 1 .. k
    BY <2>1
  <2>10. First(k + 1)
    <3>1. \A i \in 1 .. k + 1 : Append(s, x)[i] = xs[i]
      BY <2>3, <2>8, <2>9 DEF x
    <3> QED BY <2>7, <2>8, <3>1
  <2> HIDE DEF First
  <2> QED BY <2>1, <2>10
<1>8. First(n)
  <2>1. \A k \in 0 .. n : k \in T
    <3> HIDE DEF T
    <3> QED BY <1>1, <1>6, <1>7, InductionTo
  <2> HIDE DEF First
  <2> QED BY <1>1, <2>1
<1>9. e[n] \in Seq(PlainEntry) /\ e[n] = Py!StoredAll(<<>>, xs)
  BY <1>1, <1>2, <1>5 DEF StoredRounds
<1>10. e[n] = xs
  BY <1>2, <1>8, <1>9, SeqEqual
<1> QED BY <1>3, <1>9, <1>10 DEF xs

\* The dict of the content, as the refinement has it.
LEMMA DictIs ==
    ASSUME DictAssumption, NodesAccept
    PROVE  /\ Py!Init
           /\ Accepted(content) /\ Here \in Where /\ schema \in DOMAIN Norm
           /\ \A n \in Name : Normal(n) \in Key \cup {BadKey}
           /\ Py!KeysOf(Plain(content)) = Keys(content)
           /\ \A k : Py!HasValue(Plain(content), k) <=> HasValue(k)
           /\ \A k \in Keys(content) : Py!ValOf(Plain(content), k) = At(content, k).val
<1>1. Accepted(content) /\ schema \in DOMAIN Norm /\ isDict \in BOOLEAN /\ readonly \in BOOLEAN
  BY NodesAcceptIs
<1>2. Here \in Where
  BY <1>1 DEF Closed, Here, Where
<1>3. Py!Init
  BY <1>1 DEF Py!Init, Accepted, Unique
<1>4. \A k : Py!HasValue(Plain(content), k) <=> HasValue(k)
  BY <1>1, PlainIs DEF Py!HasValue, HasValue
<1> QED BY <1>1, <1>2, <1>3, <1>4, PlainIs DEF Name, Normal, DictAssumption

\* A call that finishes is a step of the dict, if what it leaves is.
LEMMA FinishMaps ==
    ASSUME NEW c, NEW r, NEW v, Finish(c, r, v), r.ok \in BOOLEAN
    PROVE  /\ call' = c /\ ok' = r.ok
           /\ r.ok => result' = v
           /\ Plain(content)' = Plain(r.c)
BY DEF Finish, Plain

LEMMA RaiseMaps ==
    ASSUME NEW c, Raise(c)
    PROVE  Py!Next
BY DEF Raise, Finish, Outcome, Py!Next, Py!Failure

LEMMA ReturnMaps ==
    ASSUME NEW c, NEW v, Return(c, v)
    PROVE  ok' = TRUE /\ call' = c /\ result' = v /\ Plain(content)' = Plain(content)
BY DEF Return, Finish, Outcome, Plain

LEMMA DeletesMaps ==
    ASSUME NEW c, NEW k, NEW v, Deletes(c, k, v), Accepted(content)
    PROVE  /\ ok' = TRUE /\ call' = c /\ result' = v
           /\ Plain(content)' = Py!Without(Plain(content), k)
<1>1. ok' = TRUE /\ call' = c /\ result' = v /\ Plain(content)' = Plain(Drop(content, k))
  BY DEF Deletes, Finish, Outcome, Plain
<1> QED BY <1>1, PlainDrop

LEMMA SetMaps ==
    ASSUME DictAssumption, NodesAccept, NEW n \in Name, NEW v \in Val,
           SetItem(n, v) \/ (v \in Foreign /\ SetNode(n, v)) \/ SetDefault(n, v)
    PROVE  Py!Next
<1> DEFINE k == Normal(n)
           set == [op |-> "setitem", key |-> k, val |-> v]
           def == [op |-> "setdefault", key |-> k, val |-> v]
<1>1. Here \in Where /\ Accepted(content) /\ k \in Key \cup {BadKey}
  BY DictIs
<1>2. set.op = "setitem" /\ set.key = k /\ set.val = v
  OBVIOUS
<1>3. def.op = "setdefault" /\ def.key = k /\ def.val = v
  OBVIOUS
<1> HIDE DEF k, set, def
<1>4. ASSUME NEW r, r.ok => Plain(r.c) = Py!Stored(Plain(content), k, v),
             ~r.ok => r.c = content, r.ok \in BOOLEAN,
             Finish(set, r, Nothing) \/ (Finish(def, r, v) /\ ~HasValue(k))
      PROVE  Py!Next
  <2>1. CASE r.ok
    <3>1. ok' = TRUE /\ Plain(content)' = Py!Stored(Plain(content), k, v)
      BY <1>4, <2>1, FinishMaps
    <3>2. CASE Finish(set, r, Nothing)
      <4>1. call' = set
        BY <1>4, <3>2, FinishMaps
      <4> QED BY <1>2, <3>1, <4>1 DEF Py!Next, Py!Effect, Plain
    <3>3. CASE Finish(def, r, v) /\ ~HasValue(k)
      <4>1. call' = def /\ result' = v
        BY <1>4, <2>1, <3>3, FinishMaps
      <4>2. ~Py!HasValue(Plain(content), k)
        BY <3>3, DictIs
      <4> QED BY <1>3, <3>1, <4>1, <4>2 DEF Py!Next, Py!Effect, Plain
    <3> QED BY <1>4, <3>2, <3>3
  <2>2. CASE ~r.ok
    <3>1. ok' = FALSE /\ content' = content
      BY <1>4, <2>2 DEF Finish
    <3> QED BY <3>1 DEF Py!Next, Py!Failure
  <2> QED BY <2>1, <2>2
<1>5. CASE SetItem(n, v)
  <2> DEFINE r == SetItemImpl(Here, content, k, v)
  <2>1. Finish(set, r, Nothing)
    BY <1>5 DEF SetItem, set, k
  <2>2. r.ok => Plain(r.c) = Py!Stored(Plain(content), k, v)
    BY <1>1, PlainSetItem
  <2>3. r.ok \in BOOLEAN /\ (~r.ok => r.c = content)
    BY <1>1, SetItemStores DEF Stores
  <2> HIDE DEF r
  <2> QED BY <1>4, <2>1, <2>2, <2>3
<1>6. CASE v \in Foreign /\ SetNode(n, v)
  <2> DEFINE r == SetNodeImpl(Here, content, k, v)
  <2>1. Finish(set, r, Nothing)
    BY <1>6 DEF SetNode, set, k
  <2>2. r.ok => Plain(r.c) = Py!Stored(Plain(content), k, v)
    BY <1>1, PlainSetNode
  <2>3. r.ok \in BOOLEAN /\ (~r.ok => r.c = content)
    BY <1>1, <1>6, SetNodeStores DEF Stores
  <2> HIDE DEF r
  <2> QED BY <1>4, <2>1, <2>2, <2>3
<1>7. CASE SetDefault(n, v)
  <2> DEFINE r == SetItemImpl(Here, content, k, v)
  <2>1. \/ Finish(def, r, v) /\ ~HasValue(k)
        \/ Raise(def)
        \/ Return(def, Target[At(content, k).val]) /\ HasValue(k)
    BY <1>7 DEF SetDefault, def, k
  <2>2. r.ok => Plain(r.c) = Py!Stored(Plain(content), k, v)
    BY <1>1, PlainSetItem
  <2>3. r.ok \in BOOLEAN /\ (~r.ok => r.c = content)
    BY <1>1, SetItemStores DEF Stores
  <2> HIDE DEF r
  <2>4. ASSUME Return(def, Target[At(content, k).val]), HasValue(k)
        PROVE  Py!Next
    <3>1. /\ ok' = TRUE /\ call' = def /\ result' = Target[At(content, k).val]
          /\ Plain(content)' = Plain(content)
      BY <2>4, ReturnMaps
    <3>2. Py!HasValue(Plain(content), k) /\ Py!ValOf(Plain(content), k) = At(content, k).val
      BY <2>4, DictIs DEF HasValue
    <3> QED BY <1>3, <3>1, <3>2 DEF Py!Next, Py!Effect, Plain
  <2> QED BY <1>4, <2>1, <2>2, <2>3, <2>4, RaiseMaps
<1> QED BY <1>5, <1>6, <1>7

LEMMA UpdateMaps ==
    ASSUME DictAssumption, NodesAccept, NEW es \in Entries, Update(es)
    PROVE  Py!Next
<1> DEFINE r == Fill(Here, content, es)
           xs == Normalised(es)
           c == [op |-> "update", entries |-> xs]
<1>1. Here \in Where /\ Accepted(content) /\ schema \in DOMAIN Norm /\ es \in Seq(Arg)
  BY DictIs, EntriesAre
<1>2. /\ r.ok => Plain(r.c) = Py!StoredAll(Plain(content), xs)
      /\ \E m \in 0 .. Len(xs) : Plain(r.c) = Py!StoredAll(Plain(content), SubSeq(xs, 1, m))
  BY <1>1, PlainFill
<1>3. r.ok \in BOOLEAN
  BY <1>1, FillStores DEF Stores
<1>4. Finish(c, r, Nothing) /\ c.op = "update" /\ c.entries = xs
  BY DEF Update
<1> HIDE DEF r, xs, c
<1>5. call' = c /\ ok' = r.ok /\ Plain(content)' = Plain(r.c)
  BY <1>3, <1>4, FinishMaps
<1>6. CASE r.ok
  BY <1>2, <1>4, <1>5, <1>6 DEF Py!Next, Py!Effect, Plain
<1>7. CASE ~r.ok
  BY <1>2, <1>3, <1>4, <1>5, <1>7 DEF Py!Next, Py!Failure, Plain
<1> QED BY <1>6, <1>7

LEMMA ReadMaps ==
    ASSUME DictAssumption, NodesAccept, NEW n \in Name, NEW default,
           Get(n, default) \/ HasKey(n)
    PROVE  Py!Next
<1> DEFINE k == Normal(n)
           get == [op |-> "get", key |-> k, default |-> default]
           has == [op |-> "contains", key |-> k]
<1>1. get.op = "get" /\ get.key = k /\ get.default = default /\ has.op = "contains" /\ has.key = k
  OBVIOUS
<1>2. CASE Get(n, default)
  <2>1. \/ Raise(get)
        \/ Return(get, default) /\ default # NoDefault /\ ~HasValue(k)
        \/ Return(get, Target[At(content, k).val]) /\ HasValue(k)
    <3>1. ~isDict => ~HasValue(k)
      BY DEF NodesAccept, TypeOK, HasValue, Keys
    <3> QED BY <1>2, <3>1 DEF Get, HasValue
  <2> HIDE DEF k, get, has
  <2>2. ASSUME Return(get, default), default # NoDefault, ~HasValue(k)
        PROVE  Py!Next
    <3>1. ok' = TRUE /\ call' = get /\ result' = default /\ Plain(content)' = Plain(content)
      BY <2>2, ReturnMaps
    <3>2. ~Py!HasValue(Plain(content), k)
      BY <2>2, DictIs
    <3> QED BY <1>1, <2>2, <3>1, <3>2 DEF Py!Next, Py!Effect, Plain
  <2>3. ASSUME Return(get, Target[At(content, k).val]), HasValue(k)
        PROVE  Py!Next
    <3>1. /\ ok' = TRUE /\ call' = get /\ result' = Target[At(content, k).val]
          /\ Plain(content)' = Plain(content)
      BY <2>3, ReturnMaps
    <3>2. Py!HasValue(Plain(content), k) /\ Py!ValOf(Plain(content), k) = At(content, k).val
      BY <2>3, DictIs DEF HasValue
    <3> QED BY <1>1, <3>1, <3>2 DEF Py!Next, Py!Effect, Plain
  <2> QED BY <2>1, <2>2, <2>3, RaiseMaps
<1>3. CASE HasKey(n)
  <2>1. Raise(has) \/ Return(has, HasValue(k))
    BY <1>3 DEF HasKey
  <2> HIDE DEF k, get, has
  <2>2. ASSUME Return(has, HasValue(k)) PROVE Py!Next
    <3>1. /\ ok' = TRUE /\ call' = has /\ result' = HasValue(k)
          /\ Plain(content)' = Plain(content)
      BY <2>2 DEF Return, Finish, Outcome, Plain
    <3>2. HasValue(k) = Py!HasValue(Plain(content), k)
      <4>1. HasValue(k) \in BOOLEAN /\ Py!HasValue(Plain(content), k) \in BOOLEAN
        BY DEF HasValue, Py!HasValue
      <4> QED BY <4>1, DictIs
    <3> QED BY <1>1, <3>1, <3>2 DEF Py!Next, Py!Effect, Plain
  <2> QED BY <2>1, <2>2, RaiseMaps
<1> QED BY <1>2, <1>3

LEMMA DeleteMaps ==
    ASSUME DictAssumption, NodesAccept, NEW n \in Name, NEW default,
           DelItem(n) \/ DelAttr(n) \/ Pop(n, default)
    PROVE  Py!Next
<1>1. Accepted(content) /\ Py!KeysOf(Plain(content)) = Keys(content)
  BY DictIs
<1>2. ASSUME NEW c, NEW k, c.op \in {"delitem", "delattr"}, c.key = k, k \in Keys(content),
             Deletes(c, k, Nothing)
      PROVE  Py!Next
  <2>1. ok' = TRUE /\ call' = c /\ Plain(content)' = Py!Without(Plain(content), k)
    BY <1>1, <1>2, DeletesMaps
  <2> QED BY <1>1, <1>2, <2>1 DEF Py!Next, Py!Effect, Plain
<1>3. CASE DelItem(n)
  <2> DEFINE c == [op |-> "delitem", key |-> Normal(n)]
  <2>1. c.op \in {"delitem", "delattr"} /\ c.key = Normal(n)
    OBVIOUS
  <2>2. Raise(c) \/ (Normal(n) \in Keys(content) /\ Deletes(c, Normal(n), Nothing))
    BY <1>3 DEF DelItem
  <2> HIDE DEF c
  <2> QED BY <1>2, <2>1, <2>2, RaiseMaps
<1>4. CASE DelAttr(n)
  <2> DEFINE c == [op |-> "delattr", key |-> n]
  <2>1. c.op \in {"delitem", "delattr"} /\ c.key = n
    OBVIOUS
  <2>2. Raise(c) \/ (n \in Keys(content) /\ Deletes(c, n, Nothing))
    BY <1>4 DEF DelAttr
  <2> HIDE DEF c
  <2> QED BY <1>2, <2>1, <2>2, RaiseMaps
<1>5. CASE Pop(n, default)
  <2> DEFINE k == Normal(n)
             c == [op |-> "pop", key |-> k, default |-> default]
  <2>1. c.op = "pop" /\ c.key = k /\ c.default = default
    OBVIOUS
  <2>2. \/ Raise(c)
        \/ Deletes(c, k, default) /\ default # NoDefault /\ ~HasValue(k)
        \/ Deletes(c, k, Target[At(content, k).val]) /\ HasValue(k)
    BY <1>5 DEF Pop
  <2> HIDE DEF c, k
  <2>3. ASSUME Deletes(c, k, default), default # NoDefault, ~HasValue(k)
        PROVE  Py!Next
    <3>1. /\ ok' = TRUE /\ call' = c /\ result' = default
          /\ Plain(content)' = Py!Without(Plain(content), k)
      BY <1>1, <2>3, DeletesMaps
    <3>2. ~Py!HasValue(Plain(content), k)
      BY <2>3, DictIs
    <3> QED BY <2>1, <2>3, <3>1, <3>2 DEF Py!Next, Py!Effect, Plain
  <2>4. ASSUME Deletes(c, k, Target[At(content, k).val]), HasValue(k)
        PROVE  Py!Next
    <3>1. /\ ok' = TRUE /\ call' = c /\ result' = Target[At(content, k).val]
          /\ Plain(content)' = Py!Without(Plain(content), k)
      BY <1>1, <2>4, DeletesMaps
    <3>2. Py!HasValue(Plain(content), k) /\ Py!ValOf(Plain(content), k) = At(content, k).val
      BY <2>4, DictIs DEF HasValue
    <3> QED BY <2>1, <3>1, <3>2 DEF Py!Next, Py!Effect, Py!Take, Plain
  <2> QED BY <2>2, <2>3, <2>4, RaiseMaps
<1> QED BY <1>3, <1>4, <1>5

LEMMA PopItemMaps ==
    ASSUME DictAssumption, NodesAccept, PopItem
    PROVE  Py!Next
<1> DEFINE c == [op |-> "popitem"]
           k == Head(content).key
           v == Target[Head(content).val]
<1>1. Accepted(content) /\ Len(content) \in Nat /\ DOMAIN content = 1 .. Len(content)
  BY DictIs DEF Accepted
<1>2. c.op = "popitem"
  OBVIOUS
<1>3. Raise(c) \/ (1 \in Poppable /\ Deletes(c, k, v))
  BY DEF PopItem
<1>4. ASSUME 1 \in Poppable
      PROVE  /\ Plain(content) # <<>> /\ Head(Plain(content)).key = k
             /\ Target[Py!ValOf(Plain(content), k)] = v
  <2>1. 1 \in DOMAIN content /\ Head(content) = content[1]
    BY <1>1, <1>4 DEF Poppable
  <2>2. k \in Keys(content) /\ Place(content, k) = 1
    BY <1>1, <2>1, PlaceIs DEF Keys, Accepted
  <2>3. Py!ValOf(Plain(content), k) = content[1].val
    BY <2>2, DictIs DEF At
  <2>4. Plain(content)[1].key = content[1].key
    BY <2>1 DEF Plain
  <2>5. Plain(content) \in Seq(PlainEntry) /\ Len(Plain(content)) = Len(content)
    BY <1>1, PlainIs
  <2>6. Len(Plain(content)) # 0 /\ Head(Plain(content)) = Plain(content)[1]
    BY <1>1, <2>1, <2>5
  <2> QED BY <2>1, <2>3, <2>4, <2>5, <2>6
<1> HIDE DEF c, k, v
<1>5. ASSUME 1 \in Poppable, Deletes(c, k, v) PROVE Py!Next
  <2>1. ok' = TRUE /\ call' = c /\ result' = v /\ Plain(content)' = Py!Without(Plain(content), k)
    BY <1>1, <1>5, DeletesMaps
  <2> QED BY <1>2, <1>4, <1>5, <2>1 DEF Py!Next, Py!Effect, Py!Take, Plain
<1> QED BY <1>3, <1>5, RaiseMaps

\* The last entries of a content are the last ones of its dict.
LEMMA PlainTail ==
    ASSUME NEW c, Accepted(c), NEW n \in 0 .. Len(c)
    PROVE  Plain(SubSeq(c, n + 1, Len(c))) = SubSeq(Plain(c), n + 1, Len(c))
<1> DEFINE t == SubSeq(c, n + 1, Len(c))
           p == SubSeq(Plain(c), n + 1, Len(c))
           m == IF n + 1 <= Len(c) THEN Len(c) - (n + 1) + 1 ELSE 0
<1>1. c \in Seq(Entry) /\ Len(c) \in Nat /\ DOMAIN c = 1 .. Len(c)
  BY DEF Accepted
<1>2. /\ Plain(c) \in Seq(PlainEntry) /\ Len(Plain(c)) = Len(c)
      /\ \A i \in 1 .. Len(c) : Plain(c)[i] = [key |-> c[i].key, val |-> c[i].val]
  BY <1>1, PlainIs DEF Plain
<1>3. /\ n + 1 \in Int /\ Len(c) \in Int
      /\ \A i \in n + 1 .. Len(c) : c[i] \in Entry /\ Plain(c)[i] \in PlainEntry
  BY <1>1, <1>2
<1>4. /\ t \in Seq(Entry) /\ Len(t) = m
      /\ \A i \in 1 .. Len(c) - (n + 1) + 1 : t[i] = c[n + 1 + i - 1]
  BY <1>3, SubSeqProperties
<1>5. /\ p \in Seq(PlainEntry) /\ Len(p) = m
      /\ \A i \in 1 .. Len(c) - (n + 1) + 1 : p[i] = Plain(c)[n + 1 + i - 1]
  BY <1>3, SubSeqProperties
<1>6. \A i \in 1 .. m : i \in 1 .. Len(c) - (n + 1) + 1 /\ n + 1 + i - 1 \in 1 .. Len(c)
  BY <1>1
<1>7. DOMAIN t = 1 .. m /\ DOMAIN p = 1 .. m
  <2> HIDE DEF t, p, m
  <2> QED BY <1>4, <1>5
<1> HIDE DEF t, p, m
<1>8. \A i \in 1 .. m : p[i] = [key |-> t[i].key, val |-> t[i].val]
  BY <1>2, <1>4, <1>5, <1>6
<1>9. p = [i \in 1 .. m |-> p[i]]
  BY <1>5, <1>7
<1>10. Plain(t) = p
  BY <1>7, <1>8, <1>9 DEF Plain
<1> QED BY <1>10 DEF t, p

LEMMA ClearMaps ==
    ASSUME DictAssumption, NodesAccept, Clear
    PROVE  Py!Next
<1> DEFINE n == Max(Poppable)
           t == SubSeq(content, n + 1, Len(content))
           r == Outcome(t, n = Len(content))
           c == [op |-> "clear"]
<1>1. n \in 0 .. Len(content)
  BY MaxPoppable
<1>2. Accepted(content) /\ Len(content) \in Nat
  BY DictIs DEF Accepted
<1>3. Finish(c, r, Nothing) /\ c.op = "clear"
  BY DEF Clear
<1>4. r.c = t /\ r.ok = (n = Len(content))
  BY DEF Outcome
<1> HIDE DEF n
<1>5. Plain(t) = SubSeq(Plain(content), n + 1, Len(content)) /\ Len(Plain(content)) = Len(content)
  BY <1>1, <1>2, PlainTail, PlainIs
<1>6. r.ok \in BOOLEAN
  BY <1>4
<1> HIDE DEF r, c, t
<1>7. call' = c /\ ok' = r.ok /\ Plain(content)' = Plain(t)
  BY <1>3, <1>4, <1>6, FinishMaps
<1>8. CASE r.ok
  <2>1. Plain(t) = <<>>
    <3>1. n + 1 \in Int /\ Len(content) \in Int /\ Len(content) < n + 1
      <4>1. n = Len(content)
        BY <1>4, <1>8
      <4> QED BY <1>1, <1>2, <4>1
    <3> QED BY <1>5, <3>1, SubSeqEmpty
  <2> QED BY <1>3, <1>7, <1>8, <2>1 DEF Py!Next, Py!Effect, Plain
<1>9. CASE ~r.ok
  <2>1. n + 1 \in 1 .. Len(Plain(content))
    <3>1. n # Len(content)
      BY <1>4, <1>9
    <3> QED BY <1>1, <1>2, <1>5, <3>1
  <2>2. Plain(content)' = SubSeq(Plain(content), n + 1, Len(Plain(content)))
    BY <1>5, <1>7
  <2>3. ok' = FALSE
    BY <1>6, <1>7, <1>9
  <2> QED BY <1>3, <1>7, <2>1, <2>2, <2>3 DEF Py!Next, Py!Failure, Plain
<1> QED BY <1>6, <1>8, <1>9

LEMMA AssignMaps ==
    ASSUME DictAssumption, NodesAccept, NEW b \in BOOLEAN,
           \/ \E es \in Entries : AssignDict(es, b)
           \/ \E vals \in [DOMAIN Fields -> Val] : AssignObject(vals, b)
           \/ AssignSpecial
    PROVE  Py!Next
<1>1. ASSUME NEW xs, NEW c, c.op = "assign", c.entries = xs, call' = c,
             \/ ok' = TRUE /\ Plain(content)' = Py!StoredAll(<<>>, xs)
             \/ ok' = FALSE /\ content' = content
      PROVE  Py!Next
  <2>1. CASE ok' = TRUE /\ Plain(content)' = Py!StoredAll(<<>>, xs)
    BY <1>1, <2>1 DEF Py!Next, Py!Effect, Plain
  <2>2. CASE ok' = FALSE /\ content' = content
    BY <2>2 DEF Py!Next, Py!Failure
  <2> QED BY <1>1, <2>1, <2>2
<1>2. Plain(<<>>) = <<>>
  BY DEF Plain
<1>3. ASSUME NEW es \in Entries, AssignDict(es, b) PROVE Py!Next
  <2> DEFINE r == Fill(Filling, <<>>, es)
             xs == Normalised(es)
             c == [op |-> "assign", entries |-> xs]
  <2>1. es \in Seq(Arg) /\ schema \in DOMAIN Norm /\ Filling \in Where
    BY DictIs, EntriesAre DEF Filling, Where
  <2>2. r.ok => Plain(r.c) = Py!StoredAll(<<>>, xs)
    BY <1>2, <2>1, EmptyAccepted, PlainFill
  <2>3. r.ok \in BOOLEAN
    BY <2>1, EmptyAccepted, FillStores DEF Stores
  <2>4. c.op = "assign" /\ c.entries = xs /\ call' = c
    BY <1>3 DEF AssignDict
  <2>5. content' = (IF r.ok THEN r.c ELSE content) /\ ok' = r.ok
    BY <1>3 DEF AssignDict
  <2> HIDE DEF r, xs, c
  <2>6. r.ok => ok' = TRUE /\ Plain(content)' = Py!StoredAll(<<>>, xs)
    BY <2>2, <2>3, <2>5 DEF Plain
  <2>7. ~r.ok => ok' = FALSE /\ content' = content
    BY <2>3, <2>5
  <2> QED BY <1>1, <2>4, <2>6, <2>7
<1>4. ASSUME NEW vals \in [DOMAIN Fields -> Val], AssignObject(vals, b) PROVE Py!Next
  <2> DEFINE accepted == \A i \in DOMAIN vals : vals[i] \notin Untypable
             xs == [i \in DOMAIN vals |-> [key |-> Fields[i], val |-> vals[i]]]
             c == [op |-> "assign", entries |-> xs]
  <2>1. Plain(Instance(vals)) = Py!StoredAll(<<>>, xs)
    BY PlainInstance
  <2>2. c.op = "assign" /\ c.entries = xs
    OBVIOUS
  <2>3. call' = c
    BY <1>4 DEF AssignObject
  <2>4. content' = (IF accepted THEN Instance(vals) ELSE content) /\ ok' = accepted
    BY <1>4 DEF AssignObject
  <2>5. accepted \in BOOLEAN
    OBVIOUS
  <2> HIDE DEF accepted, xs, c
  <2>6. accepted => ok' = TRUE /\ Plain(content)' = Py!StoredAll(<<>>, xs)
    BY <2>1, <2>4, <2>5 DEF Plain
  <2>7. ~accepted => ok' = FALSE /\ content' = content
    BY <2>4, <2>5
  <2> QED BY <1>1, <2>2, <2>3, <2>6, <2>7
<1>5. CASE AssignSpecial
  <2> DEFINE c == [op |-> "assign", entries |-> <<>>]
  <2>1. c.op = "assign" /\ c.entries = <<>>
    OBVIOUS
  <2>2. call' = c /\ ok' = TRUE /\ content' = <<>>
    BY <1>5 DEF AssignSpecial
  <2>3. Py!StoredAll(<<>>, <<>>) = <<>>
    <3>1. <<>> \in Seq(PlainEntry) /\ Len(<<>>) = 0
      OBVIOUS
    <3>2. PICK e : StoredRounds(e, <<>>, <<>>)
      BY <3>1, StoredAllIs
    <3> QED BY <3>1, <3>2 DEF StoredRounds
  <2> HIDE DEF c
  <2>4. Plain(content)' = <<>>
    BY <1>2, <2>2 DEF Plain
  <2> QED BY <1>1, <2>1, <2>2, <2>3, <2>4
<1> QED BY <1>3, <1>4, <1>5

LEMMA NextMaps == DictAssumption /\ NodesAccept /\ [Next]_vars => [Py!Next]_Py!vars
<1> SUFFICES ASSUME DictAssumption, NodesAccept, [Next]_vars PROVE Py!Next \/ UNCHANGED Py!vars
  OBVIOUS
<1>1. CASE \E n \in Name, v \in Val : SetItem(n, v) \/ SetDefault(n, v)
  BY <1>1, SetMaps
<1>2. CASE \E n \in Name, v \in Foreign : SetNode(n, v)
  BY <1>2, SetMaps DEF DictAssumption
<1>3. CASE \E n \in Name, default \in {Default, NoDefault} : Get(n, default) \/ Pop(n, default)
  BY <1>3, ReadMaps, DeleteMaps
<1>4. CASE \E n \in Name : HasKey(n) \/ DelItem(n) \/ DelAttr(n)
  BY <1>4, ReadMaps, DeleteMaps
<1>5. CASE \E entries \in Entries : Update(entries)
  BY <1>5, UpdateMaps
<1>6. CASE PopItem
  BY <1>6, PopItemMaps
<1>7. CASE Clear
  BY <1>7, ClearMaps
<1>8. CASE \/ \E entries \in Entries, b \in BOOLEAN : AssignDict(entries, b)
           \/ \E vals \in [DOMAIN Fields -> Val], b \in BOOLEAN : AssignObject(vals, b)
           \/ AssignSpecial
  BY <1>8, AssignMaps
<1>9. CASE SetFlags \/ UNCHANGED vars
  BY <1>9 DEF SetFlags, vars, Py!vars
<1> QED BY <1>1, <1>2, <1>3, <1>4, <1>5, <1>6, <1>7, <1>8, <1>9 DEF Next

\* The operations of a DictConfig are those of a Python dict: each takes effect
\* as a whole and returns what it should, or raises and leaves what the dict's
\* may leave.
THEOREM DictIsImplemented == Spec => ImplementsDict
<1>1. Init => Py!Init
  BY DictAssumption, InitKeeps, DictIs
<1>2. NodesAccept /\ [Next]_vars => [Py!Next]_Py!vars
  BY DictAssumption, NextMaps
<1> QED BY <1>1, <1>2, NodesAlwaysAccept, PTL DEF Spec, Py!Spec, ImplementsDict
=============================================================================
