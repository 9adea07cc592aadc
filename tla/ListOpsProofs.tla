--------------------------- MODULE ListOpsProofs ---------------------------
(* Proofs about ListOps, for any values, types and bounds.                  *)
EXTENDS ListOps, LoopLemmas, FiniteSetTheorems

-----------------------------------------------------------------------------
(* Contents.                                                                *)

Node == [val : Val, key : Int]

\* A node that may still be the placeholder.
Slot == [val : Val \cup {NoNode}, key : Int]

\* A content of nodes that hold no value the element type refuses.
Accepted(c) == c \in Seq(Node) /\ \A k \in DOMAIN c : ~Rejects(c[k].val)

\* The nodes know their positions.
Keyed(c) == \A k \in DOMAIN c : c[k].key = k - 1

LEMMA EmptyAccepted == Accepted(<<>>) /\ Keyed(<<>>) /\ Values(<<>>) = <<>>
BY DEF Accepted, Keyed, Values

LEMMA ValuesAre ==
    ASSUME NEW c, Accepted(c)
    PROVE  /\ Values(c) \in Seq(Val) /\ Len(Values(c)) = Len(c) /\ DOMAIN Values(c) = DOMAIN c
           /\ \A k \in DOMAIN c : Values(c)[k] = c[k].val
<1>1. DOMAIN c = 1 .. Len(c) /\ Len(c) \in Nat /\ \A k \in 1 .. Len(c) : c[k] \in Node
  BY DEF Accepted
<1>2. Values(c) \in [1 .. Len(c) -> Val]
  BY <1>1 DEF Values, Node
<1>3. Values(c) \in Seq(Val) /\ Len(Values(c)) = Len(c)
  BY <1>1, <1>2, SeqDef
<1> QED BY <1>1, <1>3 DEF Values

\* Renewing the keys changes nothing else.
LEMMA UpdateKeysIs ==
    ASSUME NEW c, Accepted(c)
    PROVE  /\ Accepted(UpdateKeys(c)) /\ Keyed(UpdateKeys(c))
           /\ Len(UpdateKeys(c)) = Len(c) /\ Values(UpdateKeys(c)) = Values(c)
<1> DEFINE u == UpdateKeys(c)
<1>1. DOMAIN c = 1 .. Len(c) /\ Len(c) \in Nat /\ \A k \in 1 .. Len(c) : c[k] \in Node
  BY DEF Accepted
<1>2. DOMAIN u = DOMAIN c
  BY DEF UpdateKeys
<1>3. \A k \in DOMAIN c : u[k] = [val |-> c[k].val, key |-> k - 1]
  <2>1. \A x \in Node : \A y : [x EXCEPT !.key = y] = [val |-> x.val, key |-> y]
    BY DEF Node
  <2> QED BY <1>1, <2>1 DEF UpdateKeys
<1>4. u \in [1 .. Len(c) -> Node]
  <2>1. \A k \in DOMAIN c : u[k] \in Node
    <3>1. \A k \in 1 .. Len(c) : c[k].val \in Val /\ k - 1 \in Int
      BY <1>1 DEF Node
    <3>2. \A x \in Val, y \in Int : [val |-> x, key |-> y] \in Node
      BY DEF Node
    <3> HIDE DEF u
    <3> QED BY <1>1, <1>3, <3>1, <3>2
  <2>2. u = [k \in 1 .. Len(c) |-> u[k]]
    BY <1>1 DEF UpdateKeys
  <2> HIDE DEF u
  <2> QED BY <1>1, <2>1, <2>2
<1> HIDE DEF u
<1>5. u \in Seq(Node) /\ Len(u) = Len(c)
  BY <1>1, <1>4, SeqDef
<1>6. Accepted(u) /\ Keyed(u)
  BY <1>1, <1>2, <1>3, <1>5 DEF Accepted, Keyed
<1>7. Values(u) = Values(c)
  BY <1>2, <1>3 DEF Values
<1> QED BY <1>5, <1>6, <1>7 DEF u

-----------------------------------------------------------------------------
(* Storing one item.                                                        *)

\* What storing v at a position of c leaves: the node there holds v and is keyed
\* by the index, or keeps the key it had.
LEMMA SetItemIs ==
    ASSUME NEW open \in BOOLEAN, NEW c \in Seq(Slot), NEW i \in Int, NEW v \in Val
    PROVE  LET p == IF i < 0 THEN Len(c) + i + 1 ELSE i + 1
               r == SetItemImpl(open, c, i, v)
           IN  /\ r.ok \in BOOLEAN
               /\ r.ok <=> open /\ p \in DOMAIN c /\ ~Rejects(v)
               /\ ~r.ok => r.c = c
               /\ r.ok => /\ r.c \in Seq(Slot) /\ Len(r.c) = Len(c) /\ DOMAIN r.c = DOMAIN c
                          /\ \A k \in DOMAIN c : k # p => r.c[k] = c[k]
                          /\ r.c[p].val = v /\ r.c[p] \in Node
                          /\ r.c[p].key = IF Reuses(c[p], v) THEN c[p].key ELSE i
<1> DEFINE p == IF i < 0 THEN Len(c) + i + 1 ELSE i + 1
           r == SetItemImpl(open, c, i, v)
           x == [val |-> v, key |-> IF Reuses(c[p], v) THEN c[p].key ELSE i]
<1>1. CASE open /\ p \in DOMAIN c /\ ~Rejects(v)
  <2>1. r = Outcome([c EXCEPT ![p] = x], TRUE)
    BY <1>1 DEF SetItemImpl
  <2>2. c[p] \in Slot
    BY <1>1
  <2>3. x \in Node /\ x \in Slot /\ x.val = v /\ x.key = IF Reuses(c[p], v) THEN c[p].key ELSE i
    BY <2>2 DEF Node, Slot
  <2> HIDE DEF x
  <2>4. /\ [c EXCEPT ![p] = x] \in Seq(Slot) /\ Len([c EXCEPT ![p] = x]) = Len(c)
        /\ DOMAIN [c EXCEPT ![p] = x] = DOMAIN c
        /\ [c EXCEPT ![p] = x][p] = x
        /\ \A k \in DOMAIN c : k # p => [c EXCEPT ![p] = x][k] = c[k]
    <3> HIDE DEF p
    <3> QED BY <1>1, <2>3, ExceptIs
  <2>5. r.ok = TRUE /\ r.c = [c EXCEPT ![p] = x]
    BY <2>1 DEF Outcome
  <2> HIDE DEF r
  <2> HIDE DEF p
  <2> QED BY ZenonT(60), <1>1, <2>3, <2>4, <2>5 DEF r, p
<1>2. CASE ~(open /\ p \in DOMAIN c /\ ~Rejects(v))
  <2>1. r = Outcome(c, FALSE)
    BY <1>2 DEF SetItemImpl
  <2> QED BY <1>2, <2>1 DEF Outcome
<1> QED BY <1>1, <1>2

LEMMA SetItemStores ==
    ASSUME NEW open \in BOOLEAN, NEW c, Accepted(c), NEW i \in Int, NEW v \in Val,
           NoNode \notin Val
    PROVE  LET r == SetItemImpl(open, c, i, v)
           IN  /\ r.ok \in BOOLEAN /\ Accepted(r.c) /\ Len(r.c) = Len(c)
               /\ ~open => ~r.ok
               /\ ~r.ok => r.c = c
               /\ Keyed(c) /\ i >= 0 => Keyed(r.c)
<1> DEFINE p == IF i < 0 THEN Len(c) + i + 1 ELSE i + 1
           r == SetItemImpl(open, c, i, v)
<1>1. c \in Seq(Slot) /\ c \in Seq(Node) /\ DOMAIN c = 1 .. Len(c) /\ Len(c) \in Nat
  <2>1. Node \subseteq Slot /\ c \in Seq(Node)
    BY DEF Accepted, Node, Slot
  <2> QED BY <2>1, SeqWiden
<1>2. /\ r.ok \in BOOLEAN
      /\ r.ok <=> open /\ p \in DOMAIN c /\ ~Rejects(v)
      /\ ~r.ok => r.c = c
      /\ r.ok => /\ r.c \in Seq(Slot) /\ Len(r.c) = Len(c) /\ DOMAIN r.c = DOMAIN c
                 /\ \A k \in DOMAIN c : k # p => r.c[k] = c[k]
                 /\ r.c[p].val = v /\ r.c[p] \in Node
                 /\ r.c[p].key = IF Reuses(c[p], v) THEN c[p].key ELSE i
  BY <1>1, SetItemIs
<1>3. i >= 0 => p = i + 1
  OBVIOUS
<1> HIDE DEF p, r
<1>4. CASE r.ok
  <2>1. \A k \in DOMAIN c : r.c[k] \in Node /\ ~Rejects(r.c[k].val)
    <3> TAKE k \in DOMAIN c
    <3>1. CASE k = p
      BY <1>2, <1>4, <3>1
    <3>2. CASE k # p
      BY <1>1, <1>2, <1>4, <3>2 DEF Accepted
    <3> QED BY <3>1, <3>2
  <2>2. r.c \in Seq(Node)
    <3>1. Len(r.c) = Len(c) /\ DOMAIN r.c = 1 .. Len(c)
      BY <1>1, <1>2, <1>4
    <3>2. r.c \in [1 .. Len(c) -> Node]
      <4>1. r.c = [k \in 1 .. Len(c) |-> r.c[k]]
        BY <1>2, <1>4, <3>1
      <4> QED BY <1>1, <2>1, <4>1
    <3> QED BY <1>1, <3>2, SeqDef
  <2>3. Accepted(r.c)
    BY <1>2, <1>4, <2>1, <2>2 DEF Accepted
  <2>4. Keyed(c) /\ i >= 0 => Keyed(r.c)
    <3> SUFFICES ASSUME Keyed(c), i >= 0, NEW k \in DOMAIN c PROVE r.c[k].key = k - 1
      BY <1>2, <1>4 DEF Keyed
    <3>1. CASE k # p
      BY <1>2, <1>4, <3>1 DEF Keyed
    <3>2. CASE k = p
      <4>1. i = p - 1 /\ c[p].key = p - 1
        BY <1>3, <3>2 DEF Keyed
      <4> QED BY <1>2, <1>4, <3>2, <4>1
    <3> QED BY <3>1, <3>2
  <2> QED BY <1>2, <1>4, <2>3, <2>4 DEF r
<1>5. CASE ~r.ok
  BY <1>2, <1>5 DEF r
<1> QED BY <1>2, <1>4, <1>5

\* Appending: the value goes to the end under its position, or nothing changes.
LEMMA AppendIs ==
    ASSUME NEW open \in BOOLEAN, NEW c, Accepted(c), NEW v \in Val, NoNode \notin Val
    PROVE  LET r == AppendImpl(open, c, v)
           IN  /\ r.ok \in BOOLEAN /\ Accepted(r.c)
               /\ ~open => ~r.ok
               /\ ~r.ok => r.c = c
               /\ r.ok => Len(r.c) = Len(c) + 1 /\ Values(r.c) = Append(Values(c), v)
               /\ Keyed(c) => Keyed(r.c)
<1> DEFINE n == Len(c)
           hole == [val |-> NoNode, key |-> 0]
           a == Append(c, hole)
           t == SetItemImpl(open, a, n, v)
           r == AppendImpl(open, c, v)
<1>1. c \in Seq(Node) /\ DOMAIN c = 1 .. n /\ n \in Nat /\ c \in Seq(Slot)
  <2>1. Node \subseteq Slot /\ c \in Seq(Node)
    BY DEF Accepted, Node, Slot
  <2> QED BY <2>1, SeqWiden
<1>2. /\ a \in Seq(Slot) /\ Len(a) = n + 1 /\ DOMAIN a = 1 .. n + 1
      /\ a[n + 1] = hole /\ \A k \in 1 .. n : a[k] = c[k]
  <2>1. hole \in Slot
    BY DEF Slot
  <2> HIDE DEF hole
  <2> QED BY <1>1, <2>1
<1> HIDE DEF a
<1>3. /\ t.ok \in BOOLEAN
      /\ t.ok <=> open /\ n + 1 \in DOMAIN a /\ ~Rejects(v)
      /\ ~t.ok => t.c = a
      /\ t.ok => /\ t.c \in Seq(Slot) /\ Len(t.c) = Len(a) /\ DOMAIN t.c = DOMAIN a
                 /\ \A k \in DOMAIN a : k # n + 1 => t.c[k] = a[k]
                 /\ t.c[n + 1].val = v /\ t.c[n + 1] \in Node
                 /\ t.c[n + 1].key = IF Reuses(a[n + 1], v) THEN a[n + 1].key ELSE n
  <2>1. n \in Int /\ ~(n < 0)
    BY <1>1
  <2> HIDE DEF n, t
  <2> QED BY <1>2, <2>1, SetItemIs DEF t
<1>4. r = IF t.ok THEN t ELSE Outcome(RemoveAt(t.c, n + 1), FALSE)
  BY DEF AppendImpl, a
<1> HIDE DEF t, r, n
<1>5. CASE t.ok
  <2>1. t.c[n + 1].key = n
    BY <1>2, <1>3, <1>5 DEF Reuses
  <2>2. \A k \in 1 .. n + 1 : k = n + 1 \/ (k \in 1 .. n /\ k # n + 1)
    BY <1>1
  <2>3. \A k \in 1 .. n : t.c[k] = c[k]
    BY <1>1, <1>2, <1>3, <1>5
  <2>4. \A k \in 1 .. n + 1 : t.c[k] \in Node /\ ~Rejects(t.c[k].val)
    BY <1>1, <1>3, <1>5, <2>2, <2>3 DEF Accepted
  <2>5. t.c \in Seq(Node) /\ Len(t.c) = n + 1 /\ DOMAIN t.c = 1 .. n + 1
    <3>1. t.c = [k \in 1 .. n + 1 |-> t.c[k]] /\ n + 1 \in Nat
      BY <1>1, <1>2, <1>3, <1>5
    <3> QED BY <2>4, <3>1, SeqIs
  <2>6. Accepted(t.c)
    BY <2>4, <2>5 DEF Accepted
  <2>7. Keyed(c) => Keyed(t.c)
    BY <1>1, <2>1, <2>2, <2>3, <2>5 DEF Keyed
  <2>8. Values(t.c) = Append(Values(c), v)
    <3> DEFINE x == Values(t.c)
               y == Append(Values(c), v)
    <3>1. /\ x \in Seq(Val) /\ Len(x) = n + 1
          /\ \A k \in 1 .. n + 1 : x[k] = t.c[k].val
      BY <2>5, <2>6, ValuesAre
    <3>2. Values(c) \in Seq(Val) /\ Len(Values(c)) = n /\ \A k \in 1 .. n : Values(c)[k] = c[k].val
      BY <1>1, ValuesAre DEF n
    <3>3. y \in Seq(Val) /\ Len(y) = n + 1 /\ y[n + 1] = v /\ \A k \in 1 .. n : y[k] = c[k].val
      BY <1>1, <3>2
    <3> HIDE DEF x, y
    <3>4. \A k \in 1 .. n + 1 : x[k] = y[k]
      BY <1>3, <1>5, <2>2, <2>3, <3>1, <3>3
    <3>5. x = y
      BY <3>1, <3>3, <3>4, SeqEqual
    <3> QED BY <3>5 DEF x, y
  <2> QED BY <1>3, <1>4, <1>5, <2>5, <2>6, <2>7, <2>8 DEF r, n
<1>6. CASE ~t.ok
  <2>1. RemoveAt(a, n + 1) = c
    <3> DEFINE x == RemoveAt(a, n + 1)
    <3>1. n + 1 \in 1 .. Len(a)
      BY <1>1, <1>2
    <3>2. /\ x \in Seq(Slot) /\ Len(x) = Len(a) - 1
          /\ \A j \in 1 .. Len(a) - 1 : x[j] = IF j < n + 1 THEN a[j] ELSE a[j + 1]
      BY <1>2, <3>1, RemoveAtFacts
    <3> HIDE DEF x
    <3>3. Len(x) = Len(c) /\ \A j \in 1 .. Len(x) : x[j] = c[j]
      BY <1>1, <1>2, <3>2 DEF n
    <3>4. x = c
      BY <1>1, <3>2, <3>3, SeqEqual
    <3> QED BY <3>4 DEF x
  <2>2. r.c = c /\ r.ok = FALSE
    BY <1>3, <1>4, <1>6, <2>1 DEF Outcome
  <2> QED BY <2>2 DEF r
<1> QED BY <1>3, <1>5, <1>6

-----------------------------------------------------------------------------
(* Inserting and deleting.                                                  *)

\* The position an index stands for in insert.
Clipped(c, index) == IF index < 0 THEN Max({0, index + Len(c)}) ELSE Min({index, Len(c)})

LEMMA MaxOfTwo == ASSUME NEW x \in Int, NEW y \in Int
                  PROVE  Max({x, y}) = IF x >= y THEN x ELSE y
BY DEF Max

LEMMA MinOfTwo == ASSUME NEW x \in Int, NEW y \in Int
                  PROVE  Min({x, y}) = IF x <= y THEN x ELSE y
BY DEF Min

LEMMA InsertedValues ==
    ASSUME NEW w \in Seq(Val), NEW v \in Val, NEW p \in 1 .. Len(w) + 1
    PROVE  /\ InsertAt(w, p, v) \in Seq(Val) /\ Len(InsertAt(w, p, v)) = Len(w) + 1
           /\ \A j \in 1 .. Len(w) + 1 :
                 InsertAt(w, p, v)[j] = IF j < p THEN w[j] ELSE IF j = p THEN v ELSE w[j - 1]
<1>1. InsertAt(w, p, v) \in Seq(Val) /\ Len(InsertAt(w, p, v)) = Len(w) + 1
  BY InsertAtFacts
<1>2. \A j \in 1 .. Len(w) + 1 :
         InsertAt(w, p, v)[j] = IF j < p THEN w[j] ELSE IF j = p THEN v ELSE w[j - 1]
  BY InsertAtFacts
<1> QED BY <1>1, <1>2

\* Inserting: the value goes between those before and those behind, or the
\* values do not change; the keys are renewed.
LEMMA InsertIs ==
    ASSUME NEW c, Accepted(c), NEW index \in Int, NEW v \in Val, NoNode \notin Val
    PROVE  LET r == InsertImpl(c, index, v)
               at == Clipped(c, index)
           IN  /\ r.ok \in BOOLEAN /\ Accepted(r.c) /\ Keyed(r.c)
               /\ r.ok <=> ~Rejects(v)
               /\ at \in 0 .. Len(c)
               /\ ~r.ok => Values(r.c) = Values(c)
               /\ r.ok => Values(r.c) = InsertAt(Values(c), at + 1, v)
               /\ Len(r.c) = Len(c) + (IF r.ok THEN 1 ELSE 0)
<1> DEFINE n == Len(c)
           hole == [val |-> NoNode, key |-> 0]
           at == Clipped(c, index)
           a == InsertAt(c, at + 1, hole)
           t == SetItemImpl(TRUE, a, at, v)
           b == IF t.ok THEN t.c ELSE RemoveAt(t.c, at + 1)
           r == InsertImpl(c, index, v)
<1>1. c \in Seq(Node) /\ DOMAIN c = 1 .. n /\ n \in Nat /\ c \in Seq(Slot)
  <2>1. Node \subseteq Slot /\ c \in Seq(Node)
    BY DEF Accepted, Node, Slot
  <2> QED BY <2>1, SeqWiden
<1>2. at \in 0 .. n
  <2>1. index + n \in Int /\ 0 \in Int /\ n \in Int
    BY <1>1
  <2> QED BY <1>1, <2>1, MaxOfTwo, MinOfTwo DEF Clipped
<1>3. r = Outcome(UpdateKeys(b), t.ok)
  BY DEF InsertImpl, Clipped
<1> HIDE DEF at, n, r
<1>4. /\ a \in Seq(Slot) /\ Len(a) = n + 1 /\ DOMAIN a = 1 .. n + 1
      /\ \A j \in 1 .. n + 1 : a[j] = IF j < at + 1 THEN c[j] ELSE IF j = at + 1 THEN hole ELSE c[j - 1]
  <2>1. hole \in Slot
    BY DEF Slot
  <2>2. at + 1 \in 1 .. n + 1
    BY <1>1, <1>2
  <2> HIDE DEF hole
  <2>3. /\ a \in Seq(Slot) /\ Len(a) = Len(c) + 1 /\ DOMAIN a = 1 .. Len(c) + 1
        /\ \A j \in 1 .. Len(c) + 1 :
              a[j] = IF j < at + 1 THEN c[j] ELSE IF j = at + 1 THEN hole ELSE c[j - 1]
    <3>1. at + 1 \in 1 .. Len(c) + 1
      BY <2>2 DEF n
    <3> DEFINE pos == at + 1
    <3> HIDE DEF pos
    <3>2. /\ InsertAt(c, pos, hole) \in Seq(Slot) /\ Len(InsertAt(c, pos, hole)) = Len(c) + 1
          /\ DOMAIN InsertAt(c, pos, hole) = 1 .. Len(c) + 1
          /\ \A j \in 1 .. Len(c) + 1 : InsertAt(c, pos, hole)[j] =
                IF j < pos THEN c[j] ELSE IF j = pos THEN hole ELSE c[j - 1]
      <4>1. pos \in 1 .. Len(c) + 1
        BY <3>1 DEF pos
      <4> QED BY SMTT(30), <1>1, <2>1, <4>1, InsertAtFacts
    <3> QED BY <3>2 DEF pos
  <2> QED BY <2>3 DEF n
<1> HIDE DEF a
<1>5. /\ t.ok \in BOOLEAN
      /\ t.ok <=> at + 1 \in DOMAIN a /\ ~Rejects(v)
      /\ ~t.ok => t.c = a
      /\ t.ok => /\ t.c \in Seq(Slot) /\ Len(t.c) = Len(a) /\ DOMAIN t.c = DOMAIN a
                 /\ \A k \in DOMAIN a : k # at + 1 => t.c[k] = a[k]
                 /\ t.c[at + 1].val = v /\ t.c[at + 1] \in Node
  <2>1. at \in Int /\ ~(at < 0) /\ TRUE \in BOOLEAN
    BY <1>1, <1>2
  <2> HIDE DEF t
  <2> QED BY ZenonT(60), <1>4, <2>1, SetItemIs DEF t
<1> HIDE DEF t
<1>6. t.ok <=> ~Rejects(v)
  BY <1>1, <1>2, <1>4, <1>5
<1>7. CASE t.ok
  <2>1. \A j \in 1 .. n + 1 : \/ j < at + 1 /\ j \in 1 .. n
                              \/ j = at + 1
                              \/ j > at + 1 /\ j - 1 \in 1 .. n
    BY <1>1, <1>2
  <2>2. \A j \in 1 .. n + 1 : j # at + 1 => t.c[j] = IF j < at + 1 THEN c[j] ELSE c[j - 1]
    BY <1>4, <1>5, <1>7
  <2>3. \A j \in 1 .. n + 1 : t.c[j] \in Node /\ ~Rejects(t.c[j].val)
    <3> TAKE j \in 1 .. n + 1
    <3>1. CASE j = at + 1
      BY <1>5, <1>6, <1>7, <3>1
    <3>2. CASE j < at + 1 /\ j \in 1 .. n
      BY <1>1, <2>2, <3>2 DEF Accepted
    <3>3. CASE j > at + 1 /\ j - 1 \in 1 .. n
      BY <1>1, <1>2, <2>2, <3>3 DEF Accepted
    <3> QED BY <2>1, <3>1, <3>2, <3>3
  <2>4. t.c \in Seq(Node) /\ Len(t.c) = n + 1 /\ DOMAIN t.c = 1 .. n + 1
    <3>1. t.c = [k \in 1 .. n + 1 |-> t.c[k]] /\ n + 1 \in Nat
      BY <1>1, <1>4, <1>5, <1>7
    <3> QED BY <2>3, <3>1, SeqIs
  <2>5. Accepted(t.c)
    BY <2>3, <2>4 DEF Accepted
  <2>6. Values(t.c) = InsertAt(Values(c), at + 1, v)
    <3> DEFINE x == Values(t.c)
               y == InsertAt(Values(c), at + 1, v)
    <3>1. /\ x \in Seq(Val) /\ Len(x) = n + 1
          /\ \A k \in 1 .. n + 1 : x[k] = t.c[k].val
      BY <2>4, <2>5, ValuesAre
    <3>2. Values(c) \in Seq(Val) /\ Len(Values(c)) = n /\ \A k \in 1 .. n : Values(c)[k] = c[k].val
      BY <1>1, ValuesAre DEF n
    <3>3. at + 1 \in 1 .. Len(Values(c)) + 1
      BY <1>1, <1>2, <3>2
    <3>4. /\ y \in Seq(Val) /\ Len(y) = n + 1
          /\ \A j \in 1 .. n + 1 : y[j] = IF j < at + 1 THEN Values(c)[j]
                                          ELSE IF j = at + 1 THEN v ELSE Values(c)[j - 1]
      <4>1. /\ y \in Seq(Val) /\ Len(y) = Len(Values(c)) + 1
            /\ \A j \in 1 .. Len(Values(c)) + 1 :
                  y[j] = IF j < at + 1 THEN Values(c)[j]
                         ELSE IF j = at + 1 THEN v ELSE Values(c)[j - 1]
        BY ZenonT(60), <3>2, <3>3, InsertedValues
      <4> HIDE DEF y
      <4> QED BY <3>2, <4>1
    <3> HIDE DEF x, y
    <3>5. \A j \in 1 .. n + 1 : x[j] = y[j]
      <4> TAKE j \in 1 .. n + 1
      <4>1. CASE j = at + 1
        BY <1>1, <1>2, <1>5, <1>7, <3>1, <3>4, <4>1
      <4>2. CASE j < at + 1 /\ j \in 1 .. n
        BY <1>1, <1>2, <2>2, <3>1, <3>2, <3>4, <4>2
      <4>3. CASE j > at + 1 /\ j - 1 \in 1 .. n
        <5>1. x[j] = c[j - 1].val /\ j # at + 1 /\ ~(j < at + 1)
          BY <1>1, <1>2, <2>2, <3>1, <4>3
        <5>2. y[j] = Values(c)[j - 1]
          BY <3>4, <5>1
        <5> QED BY <3>2, <4>3, <5>1, <5>2
      <4> QED BY <2>1, <4>1, <4>2, <4>3
    <3>6. x = y
      BY <3>1, <3>4, <3>5, SeqEqual
    <3> QED BY <3>6 DEF x, y
  <2>7. b = t.c
    BY <1>7
  <2>8. r.ok = TRUE /\ r.c = UpdateKeys(t.c)
    BY <1>3, <1>5, <1>7, <2>7 DEF Outcome
  <2>9. /\ Accepted(r.c) /\ Keyed(r.c) /\ Len(r.c) = n + 1
        /\ Values(r.c) = InsertAt(Values(c), at + 1, v)
    BY <2>4, <2>5, <2>6, <2>8, UpdateKeysIs
  <2> QED BY <1>1, <1>2, <1>6, <1>7, <2>8, <2>9 DEF r, n, at
<1>8. CASE ~t.ok
  <2>1. RemoveAt(a, at + 1) = c
    <3> DEFINE x == RemoveAt(a, at + 1)
    <3>1. at + 1 \in 1 .. Len(a)
      BY <1>1, <1>2, <1>4
    <3>2. /\ x \in Seq(Slot) /\ Len(x) = Len(a) - 1
          /\ \A j \in 1 .. Len(a) - 1 : x[j] = IF j < at + 1 THEN a[j] ELSE a[j + 1]
      BY <1>4, <3>1, RemoveAtFacts
    <3> HIDE DEF x
    <3>3. Len(x) = n /\ \A j \in 1 .. n : x[j] = c[j]
      <4>1. Len(x) = n /\ Len(a) - 1 = n
        BY <1>1, <1>4, <3>2
      <4>2. ASSUME NEW j \in 1 .. n PROVE x[j] = c[j]
        <5>1. CASE j < at + 1
          BY <1>1, <1>4, <3>2, <4>1, <5>1
        <5>2. CASE ~(j < at + 1)
          <6>1. j + 1 \in 1 .. n + 1 /\ ~(j + 1 < at + 1) /\ j + 1 # at + 1 /\ j + 1 - 1 = j
            BY <1>1, <1>2, <5>2
          <6> QED BY <1>4, <3>2, <4>1, <5>2, <6>1
        <5> QED BY <5>1, <5>2
      <4> QED BY <4>1, <4>2
    <3>4. x = c
      BY <1>1, <3>2, <3>3, SeqEqual DEF n
    <3> QED BY <3>4 DEF x
  <2>2. r.c = UpdateKeys(c) /\ r.ok = FALSE
    BY <1>3, <1>5, <1>8, <2>1 DEF Outcome
  <2>3. Accepted(r.c) /\ Keyed(r.c) /\ Len(r.c) = n /\ Values(r.c) = Values(c)
    BY <2>2, UpdateKeysIs DEF n
  <2>4. /\ r.ok \in BOOLEAN /\ (r.ok <=> ~Rejects(v)) /\ ~r.ok
    BY <1>6, <1>8, <2>2
  <2>5. Len(r.c) = n + (IF r.ok THEN 1 ELSE 0)
    BY <1>1, <2>3, <2>4
  <2> QED BY <1>2, <2>3, <2>4, <2>5 DEF r, n, at
<1> QED BY <1>5, <1>7, <1>8

-----------------------------------------------------------------------------
(* Extending: one round for each item.                                      *)

ExtendResult == {r \in [c : Seq(Node), ok : BOOLEAN] : Accepted(r.c)}
ExtendStep(open, r, v) == IF r.ok THEN AppendImpl(open, r.c, v) ELSE r

\* d[k] is what the first k rounds leave.
ExtendRounds(d, open, c, vs) ==
    /\ d \in [0 .. Len(vs) -> ExtendResult]
    /\ d[0] = Outcome(c, TRUE)
    /\ \A k \in 0 .. Len(vs) - 1 : d[k + 1] = ExtendStep(open, d[k], vs[k + 1])
    /\ d[Len(vs)] = ExtendImpl(open, c, vs)

LEMMA ExtendStepIn ==
    ASSUME NEW open \in BOOLEAN, NEW r \in ExtendResult, NEW v \in Val, NoNode \notin Val
    PROVE  ExtendStep(open, r, v) \in ExtendResult
<1>1. CASE r.ok
  <2> DEFINE w == AppendImpl(open, r.c, v)
  <2>1. w.ok \in BOOLEAN /\ Accepted(w.c)
    BY AppendIs DEF ExtendResult
  <2>2. w = [c |-> w.c, ok |-> w.ok]
    BY DEF AppendImpl, SetItemImpl, Outcome
  <2> HIDE DEF w
  <2>3. w \in [c : Seq(Node), ok : BOOLEAN]
    <3>1. w.c \in Seq(Node)
      BY <2>1 DEF Accepted
    <3> QED BY <2>1, <2>2, <3>1
  <2>4. w \in ExtendResult
    BY <2>1, <2>3 DEF ExtendResult
  <2> QED BY <1>1, <2>4 DEF ExtendStep, w
<1>2. CASE ~r.ok
  BY <1>2 DEF ExtendStep
<1> QED BY <1>1, <1>2

LEMMA ExtendImplIs ==
    ASSUME NEW open \in BOOLEAN, NEW c, Accepted(c), NEW vs \in Seq(Val), NoNode \notin Val
    PROVE  \E d : ExtendRounds(d, open, c, vs)
<1> DEFINE n == Len(vs)
           S == ExtendResult
           base == Outcome(c, TRUE)
           Op(o, v) == IF o.ok THEN AppendImpl(open, o.c, v) ELSE o
           step == [p \in S \X (1 .. n) |-> Op(p[1], vs[p[2]])]
           Body(it) == [s \in SUBSET DOMAIN vs |->
                          IF s = {} THEN base ELSE Op(it[s \ {Max(s)}], vs[Max(s)])]
           r == CHOOSE f : f = Body(f)
<1>0. n \in Nat /\ DOMAIN vs = 1 .. n
  OBVIOUS
<1>1. \A o \in S, i \in 1 .. n : Op(o, vs[i]) \in S
  <2>1. \A i \in 1 .. n : vs[i] \in Val
    BY <1>0
  <2> QED BY <2>1, ExtendStepIn DEF ExtendStep
<1>2. step \in Steps(n, S) /\ base \in S
  <2>1. base \in S
    BY DEF ExtendResult, Outcome, Accepted
  <2> HIDE DEF Op, S, n
  <2> QED BY <1>1, <2>1 DEF Steps
<1>3. PICK it \in [SUBSET (1 .. n) -> S] : Iterates(it, n, base, step)
  <2> HIDE DEF S, step, base, n
  <2> QED BY <1>0, <1>2, FoldExists
<1>4. \A s \in SUBSET (1 .. n) : s # {} => Max(s) \in 1 .. n
  <2>1. ASSUME NEW s \in SUBSET (1 .. n), s # {} PROVE Max(s) \in s
    <3>1. s \in SUBSET (0 .. n)
      BY <1>0
    <3> QED BY <1>0, <2>1, <3>1, MaxIn
  <2> QED BY <2>1
<1>5. \A o \in S, i \in 1 .. n : step[<<o, i>>] = Op(o, vs[i])
  <2> HIDE DEF Op, S, n
  <2> QED OBVIOUS
<1>6. it = Body(it)
  <2>1. \A s \in SUBSET (1 .. n) : s # {} => it[s \ {Max(s)}] \in S
    BY <1>3
  <2> HIDE DEF Op, S, base, step, n
  <2>2. ASSUME NEW s \in SUBSET (1 .. n)
        PROVE  it[s] = IF s = {} THEN base ELSE Op(it[s \ {Max(s)}], vs[Max(s)])
    <3>1. CASE s = {}
      BY <1>3, <3>1 DEF Iterates
    <3>2. CASE s # {}
      <4>1. it[s] = step[<<it[s \ {Max(s)}], Max(s)>>]
        BY <1>3, <3>2 DEF Iterates
      <4> QED BY <1>4, <1>5, <2>1, <3>2, <4>1
    <3> QED BY <3>1, <3>2
  <2> QED BY <1>0, <1>3, <2>2
<1>7. r = Body(r)
  <2> HIDE DEF Body
  <2> QED BY <1>6, Zenon
<1>8. ExtendImpl(open, c, vs) = r[1 .. n]
  BY <1>0 DEF ExtendImpl, FoldLeft, MapThenFoldSet
<1>9. Rounds(r, n, S, step)
  <2>1. IteratesIn(r, n, S, base, step)
    <3> HIDE DEF Op, S, base, n, r, step
    <3>1. r[{}] = base
      BY <1>7
    <3>2. ASSUME NEW s \in SUBSET (1 .. n), s # {}, r[s \ {Max(s)}] \in S
          PROVE  r[s] = step[<<r[s \ {Max(s)}], Max(s)>>]
      <4>1. r[s] = Op(r[s \ {Max(s)}], vs[Max(s)])
        BY <1>0, <1>7, <3>2
      <4> QED BY <1>4, <1>5, <3>2, <4>1
    <3> QED BY <3>1, <3>2 DEF IteratesIn
  <2> HIDE DEF r, S, step, base, n
  <2> QED BY <1>0, <1>2, <2>1, FoldRounds
<1> DEFINE d == [k \in 0 .. n |-> r[1 .. k]]
<1>10. r[1 .. 0] = base
  <2>1. 1 .. 0 = {}
    OBVIOUS
  <2> HIDE DEF Op, S, base, n, r, step
  <2> QED BY <2>1, <1>7
<1>11. ASSUME NEW k \in 0 .. n - 1 PROVE d[k + 1] = Op(d[k], vs[k + 1])
  <2>1. k \in 0 .. n /\ k + 1 \in 0 .. n /\ k + 1 \in 1 .. n /\ k < n
    BY <1>0
  <2> HIDE DEF Op, S, base, r, step, n
  <2>2. r[1 .. k] \in S /\ r[1 .. k + 1] = step[<<r[1 .. k], k + 1>>]
    BY <1>9, <2>1 DEF Rounds
  <2> QED BY <1>5, <2>1, <2>2
<1>12. d \in [0 .. n -> S] /\ d[0] = base /\ d[n] = r[1 .. n]
  <2>1. 0 \in 0 .. n /\ n \in 0 .. n
    BY <1>0
  <2> HIDE DEF Op, S, base, r, step, n
  <2> QED BY <1>9, <1>10, <2>1 DEF Rounds
<1>13. ExtendRounds(d, open, c, vs)
  <2>1. \A o, e : Op(o, e) = ExtendStep(open, o, e)
    BY DEF ExtendStep
  <2> HIDE DEF Op, d, r
  <2> QED BY <1>8, <1>11, <1>12, <2>1 DEF ExtendRounds
<1> QED BY <1>13

\* x is the sequence w and the first m items of vs behind it.
Joined(x, w, vs, m) ==
    /\ Len(x) = Len(w) + m
    /\ \A j \in 1 .. Len(w) : x[j] = w[j]
    /\ \A j \in 1 .. m : x[Len(w) + j] = vs[j]

LEMMA JoinedIs ==
    ASSUME NEW x \in Seq(Val), NEW w \in Seq(Val), NEW vs \in Seq(Val), NEW m \in 0 .. Len(vs),
           Joined(x, w, vs, m)
    PROVE  /\ x = w \o SubSeq(vs, 1, m)
           /\ m = Len(vs) => x = w \o vs
<1>1. ASSUME NEW t \in Seq(Val), Len(t) = m, \A j \in 1 .. m : t[j] = vs[j]
      PROVE  x = w \o t
  <2>1. /\ w \o t \in Seq(Val) /\ Len(w \o t) = Len(w) + Len(t)
        /\ \A j \in 1 .. Len(w) + Len(t) : (w \o t)[j] = IF j <= Len(w) THEN w[j] ELSE t[j - Len(w)]
    BY <1>1, ConcatProperties
  <2> DEFINE y == w \o t
  <2> HIDE DEF y
  <2>2. y \in Seq(Val) /\ Len(y) = Len(w) + m
    BY <1>1, <2>1 DEF y
  <2>3. ASSUME NEW j \in 1 .. Len(w) + m PROVE x[j] = y[j]
    <3>1. y[j] = IF j <= Len(w) THEN w[j] ELSE t[j - Len(w)]
      BY <1>1, <2>1 DEF y
    <3>2. CASE j <= Len(w)
      BY <3>1, <3>2 DEF Joined
    <3>3. CASE ~(j <= Len(w))
      <4>1. j - Len(w) \in 1 .. m /\ Len(w) + (j - Len(w)) = j
        BY <3>3
      <4> QED BY <1>1, <3>1, <3>3, <4>1 DEF Joined
    <3> QED BY <3>2, <3>3
  <2>4. x = y
    BY <2>2, <2>3, SeqEqual DEF Joined
  <2> QED BY <2>4 DEF y
<1>2. x = w \o SubSeq(vs, 1, m)
  <2> DEFINE t == SubSeq(vs, 1, m)
  <2>1. m \in Int /\ \A i \in 1 .. m : vs[i] \in Val
    OBVIOUS
  <2>2. /\ t \in Seq(Val) /\ Len(t) = IF 1 <= m THEN m - 1 + 1 ELSE 0
        /\ \A i \in 1 .. m - 1 + 1 : t[i] = vs[1 + i - 1]
    BY <2>1, SubSeqProperties
  <2> HIDE DEF t
  <2>3. Len(t) = m /\ \A i \in 1 .. m : t[i] = vs[i]
    <3>1. m \in Nat
      OBVIOUS
    <3>2. Len(t) = m
      BY <2>2, <3>1
    <3>3. m - 1 + 1 = m /\ \A i \in 1 .. m : 1 + i - 1 = i
      BY <3>1
    <3> QED BY <2>2, <3>2, <3>3
  <2>4. x = w \o t
    BY <1>1, <2>2, <2>3
  <2> QED BY <2>4 DEF t
<1>3. m = Len(vs) => x = w \o vs
  BY <1>1
<1> QED BY <1>2, <1>3

\* Extending: the items that were taken are behind those that were there.
LEMMA ExtendIs ==
    ASSUME NEW open \in BOOLEAN, NEW c, Accepted(c), NEW vs \in Seq(Val), NoNode \notin Val
    PROVE  LET r == ExtendImpl(open, c, vs)
           IN  /\ r.ok \in BOOLEAN /\ Accepted(r.c)
               /\ Len(r.c) <= Len(c) + Len(vs)
               /\ ~open => r.c = c
               /\ Keyed(c) => Keyed(r.c)
               /\ \E m \in 0 .. Len(vs) : Joined(Values(r.c), Values(c), vs, m)
               /\ r.ok => Joined(Values(r.c), Values(c), vs, Len(vs))
<1> DEFINE n == Len(vs)
           w == Values(c)
<1>1. PICK d : ExtendRounds(d, open, c, vs)
  BY ExtendImplIs
<1>2. n \in Nat /\ \A i \in 1 .. n : vs[i] \in Val
  OBVIOUS
<1>3. w \in Seq(Val) /\ Len(w) = Len(c) /\ Len(c) \in Nat
  BY ValuesAre DEF Accepted
<1> HIDE DEF w, n
<1> DEFINE Good(k) == /\ Len(d[k].c) <= Len(c) + k
                      /\ ~open => d[k].c = c
                      /\ Keyed(c) => Keyed(d[k].c)
                      /\ \E m \in 0 .. k : Joined(Values(d[k].c), w, vs, m)
                      /\ d[k].ok => Joined(Values(d[k].c), w, vs, k)
           T == {k \in 0 .. n : Good(k)}
<1>4. 0 \in T
  <2>1. d[0] = Outcome(c, TRUE) /\ 0 \in 0 .. n
    BY <1>1, <1>2 DEF ExtendRounds
  <2>2. d[0].c = c
    BY <2>1 DEF Outcome
  <2>3. Joined(Values(d[0].c), w, vs, 0)
    BY <1>3, <2>2 DEF Joined, w
  <2>4. 0 \in 0 .. 0 /\ Len(c) <= Len(c) + 0
    BY <1>3
  <2>5. Good(0)
    <3> HIDE DEF Joined
    <3> QED BY <2>2, <2>3, <2>4
  <2> HIDE DEF Good
  <2> QED BY <2>1, <2>5
<1>5. ASSUME NEW k \in 0 .. n - 1, k \in T PROVE k + 1 \in T
  <2>1. k \in 0 .. n /\ k + 1 \in 0 .. n /\ k + 1 \in 1 .. n /\ k \in 0 .. Len(vs) - 1 /\ k \in 0 .. Len(vs)
    BY <1>2 DEF n
  <2>2. d[k] \in ExtendResult /\ d[k + 1] = ExtendStep(open, d[k], vs[k + 1])
    BY <1>1, <2>1 DEF ExtendRounds
  <2>3. Good(k)
    BY <1>5
  <2>4. \A m \in 0 .. k : m \in 0 .. k + 1
    BY <2>1
  <2>5. k + 1 \in 0 .. k + 1 /\ Len(d[k].c) \in Nat
    BY <2>1, <2>2 DEF ExtendResult, Accepted
  <2> DEFINE x == AppendImpl(open, d[k].c, vs[k + 1])
             u == Values(d[k].c)
  <2>6. /\ x.ok \in BOOLEAN /\ Accepted(x.c) /\ (~open => ~x.ok) /\ (~x.ok => x.c = d[k].c)
        /\ x.ok => Len(x.c) = Len(d[k].c) + 1 /\ Values(x.c) = Append(u, vs[k + 1])
        /\ Keyed(d[k].c) => Keyed(x.c)
    <3>1. Accepted(d[k].c) /\ vs[k + 1] \in Val
      BY <1>2, <2>1, <2>2 DEF ExtendResult
    <3> DEFINE y == d[k].c
               v == vs[k + 1]
    <3> HIDE DEF y, v
    <3>2. Accepted(y) /\ v \in Val
      BY <3>1 DEF y, v
    <3> DEFINE z == AppendImpl(open, y, v)
    <3>3. /\ z.ok \in BOOLEAN /\ Accepted(z.c) /\ (~open => ~z.ok) /\ (~z.ok => z.c = y)
          /\ z.ok => Len(z.c) = Len(y) + 1 /\ Values(z.c) = Append(Values(y), v)
          /\ Keyed(y) => Keyed(z.c)
      BY <3>2, AppendIs
    <3> QED BY <3>3 DEF y, v
  <2>7. u \in Seq(Val)
    BY <2>2, ValuesAre DEF ExtendResult
  <2>8. d[k].ok => d[k + 1] = x
    BY <2>2 DEF ExtendStep
  <2>9. ~d[k].ok => d[k + 1] = d[k]
    BY <2>2 DEF ExtendStep
  <2> HIDE DEF x, u
  <2>10. CASE ~d[k].ok
    <3>1. Good(k + 1)
      <4> HIDE DEF Joined
      <4> QED BY <1>3, <2>1, <2>3, <2>4, <2>5, <2>9, <2>10
    <3> HIDE DEF Good
    <3> QED BY <2>1, <3>1
  <2>11. CASE d[k].ok /\ ~x.ok
    <3>1. Good(k + 1)
      <4> HIDE DEF Joined
      <4> QED BY <1>3, <2>1, <2>3, <2>4, <2>5, <2>6, <2>8, <2>11
    <3> HIDE DEF Good
    <3> QED BY <2>1, <3>1
  <2>12. CASE d[k].ok /\ x.ok
    <3>1. Joined(u, w, vs, k)
      BY <2>3, <2>12 DEF u
    <3>2. /\ Len(Append(u, vs[k + 1])) = Len(u) + 1 /\ Append(u, vs[k + 1])[Len(u) + 1] = vs[k + 1]
          /\ \A j \in 1 .. Len(u) : Append(u, vs[k + 1])[j] = u[j]
      BY <1>2, <2>1, <2>7
    <3>3. Len(u) = Len(w) + k /\ Len(w) \in Nat /\ k \in Nat
      BY <1>3, <2>1, <3>1 DEF Joined
    <3>4. Joined(Append(u, vs[k + 1]), w, vs, k + 1)
      <4>1. \A j \in 1 .. Len(w) : j \in 1 .. Len(u)
        BY <3>3
      <4>2. \A j \in 1 .. k + 1 : (j \in 1 .. k /\ Len(w) + j \in 1 .. Len(u))
                                  \/ (j = k + 1 /\ Len(w) + j = Len(u) + 1)
        BY <3>3
      <4>3. Len(u) + 1 = Len(w) + (k + 1)
        BY <3>3
      <4> QED BY <3>1, <3>2, <4>1, <4>2, <4>3 DEF Joined
    <3>5. Good(k + 1)
      <4>1. Values(d[k + 1].c) = Append(u, vs[k + 1])
        BY <2>6, <2>8, <2>12
      <4>2. Len(d[k + 1].c) <= Len(c) + (k + 1)
        BY SMTT(30), <1>3, <2>3, <2>5, <2>6, <2>8, <2>12, <3>3
      <4>3. open /\ (Keyed(c) => Keyed(d[k + 1].c))
        BY <2>3, <2>6, <2>8, <2>12
      <4> HIDE DEF Joined
      <4> QED BY <2>5, <3>4, <4>1, <4>2, <4>3
    <3> HIDE DEF Good
    <3> QED BY <2>1, <3>5
  <2> QED BY <2>10, <2>11, <2>12
<1>6. Good(n)
  <2>1. \A k \in 0 .. n : k \in T
    <3> HIDE DEF T
    <3> QED BY <1>2, <1>4, <1>5, InductionTo
  <2> HIDE DEF Good
  <2> QED BY <1>2, <2>1
<1>7. d[n] = ExtendImpl(open, c, vs) /\ d[n] \in ExtendResult
  <2>1. Len(vs) \in 0 .. Len(vs)
    BY <1>2 DEF n
  <2> QED BY <1>1, <2>1 DEF ExtendRounds, n
<1>8. d[n].ok \in BOOLEAN /\ Accepted(d[n].c)
  BY <1>7 DEF ExtendResult
<1> HIDE DEF Joined
<1> QED BY <1>6, <1>7, <1>8 DEF w, n

-----------------------------------------------------------------------------
(* Deleting: the positions that are kept, counted from the first.           *)

UpTo(S, q) == {r \in S : r <= q}

LEMMA IntervalCounts ==
    ASSUME NEW n \in Nat, NEW S \in SUBSET (1 .. n)
    PROVE  IsFiniteSet(S) /\ Cardinality(S) \in 0 .. n
<1>1. n \in Int /\ 1 \in Int
  OBVIOUS
<1>2. IsFiniteSet(1 .. n) /\ Cardinality(1 .. n) = n
  BY <1>1, FS_Interval
<1>3. IsFiniteSet(S) /\ Cardinality(S) <= n
  BY <1>2, FS_Subset
<1>4. Cardinality(S) \in Nat
  BY <1>3, FS_CardinalityType
<1> QED BY <1>3, <1>4

\* Each number up to the size of a set is the number of its elements up to one
\* of them.
LEMMA Ranked ==
    ASSUME NEW n \in Nat, NEW S \in SUBSET (1 .. n)
    PROVE  \A k \in 1 .. Cardinality(S) : \E q \in S : Cardinality(UpTo(S, q)) = k
<1> DEFINE Low(m) == S \cap (1 .. m)
           Known(m) == \A k \in 1 .. Cardinality(Low(m)) :
                           \E q \in Low(m) : Cardinality(UpTo(S, q)) = k
           T == {m \in 0 .. n : Known(m)}
<1>1. 0 \in T
  <2>1. Low(0) = {}
    <3>1. 1 .. 0 = {}
      OBVIOUS
    <3> QED BY <3>1
  <2>2. Cardinality(Low(0)) = 0
    BY <2>1, FS_EmptySet
  <2> HIDE DEF Low
  <2>3. Known(0)
    BY <2>2
  <2> HIDE DEF Known
  <2> QED BY <2>3
<1>2. ASSUME NEW m \in 0 .. n - 1, m \in T PROVE m + 1 \in T
  <2>1. Known(m) /\ m + 1 \in 0 .. n
    BY <1>2
  <2>2. CASE m + 1 \notin S
    <3>1. Low(m + 1) = Low(m)
      BY <2>2
    <3>2. Known(m + 1)
      <4> HIDE DEF Low
      <4> QED BY <2>1, <3>1
    <3> HIDE DEF Known
    <3> QED BY <2>1, <3>2
  <2>3. CASE m + 1 \in S
    <3>1. Low(m + 1) = Low(m) \cup {m + 1} /\ m + 1 \notin Low(m)
      BY <2>3
    <3>2. UpTo(S, m + 1) = Low(m + 1)
      <4>1. \A r \in S : r <= m + 1 <=> r \in 1 .. m + 1
        OBVIOUS
      <4> QED BY <4>1 DEF UpTo
    <3>3. IsFiniteSet(Low(m)) /\ Cardinality(Low(m)) \in Nat
      <4>1. m \in Nat /\ Low(m) \in SUBSET (1 .. m)
        OBVIOUS
      <4> HIDE DEF Low
      <4> QED BY <4>1, IntervalCounts
    <3> HIDE DEF Low
    <3>4. Cardinality(Low(m + 1)) = Cardinality(Low(m)) + 1
      BY <3>1, <3>3, FS_AddElement
    <3>5. ASSUME NEW k \in 1 .. Cardinality(Low(m + 1))
          PROVE  \E q \in Low(m + 1) : Cardinality(UpTo(S, q)) = k
      <4>1. CASE k \in 1 .. Cardinality(Low(m))
        BY <2>1, <3>1, <4>1
      <4>2. CASE k = Cardinality(Low(m + 1))
        BY <3>1, <3>2, <4>2
      <4> QED BY <3>3, <3>4, <4>1, <4>2
    <3>6. Known(m + 1)
      BY <3>5
    <3> HIDE DEF Known
    <3> QED BY <2>1, <3>6
  <2> QED BY <2>2, <2>3
<1>3. n \in T
  <2>1. \A m \in 0 .. n : m \in T
    <3> HIDE DEF T
    <3> QED BY <1>1, <1>2, InductionTo
  <2> QED BY <2>1
<1>4. Low(n) = S
  OBVIOUS
<1> HIDE DEF Low
<1> QED BY <1>3, <1>4

Kept(c, S) == {k \in DOMAIN c : k - 1 \notin S}
Nth(S, k) == CHOOSE q \in S : Cardinality({r \in S : r <= q}) = k

LEMMA NthIn ==
    ASSUME NEW n \in Nat, NEW S \in SUBSET (1 .. n), NEW k \in 1 .. Cardinality(S)
    PROVE  Nth(S, k) \in S /\ Cardinality({r \in S : r <= Nth(S, k)}) = k
<1>1. \E q \in S : Cardinality({r \in S : r <= q}) = k
  BY Ranked DEF UpTo
<1> QED BY <1>1, Zenon DEF Nth

\* Deleting: the nodes that are kept move up, and the keys are renewed.
LEMMA DelIs ==
    ASSUME NEW c, Accepted(c), NEW S
    PROVE  /\ Accepted(DelImpl(c, S)) /\ Keyed(DelImpl(c, S))
           /\ Len(DelImpl(c, S)) = Cardinality(Kept(c, S))
           /\ Cardinality(Kept(c, S)) \in 0 .. Len(c)
           /\ Values(DelImpl(c, S)) =
                 [k \in 1 .. Cardinality(Kept(c, S)) |-> Values(c)[Nth(Kept(c, S), k)]]
<1> DEFINE K == Kept(c, S)
           m == Cardinality(K)
           d == [k \in 1 .. m |-> c[Nth(K, k)]]
<1>1. c \in Seq(Node) /\ DOMAIN c = 1 .. Len(c) /\ Len(c) \in Nat
  BY DEF Accepted
<1>2. K \in SUBSET (1 .. Len(c))
  BY <1>1 DEF Kept
<1>3. DelImpl(c, S) = UpdateKeys(d)
  BY DEF DelImpl, Kept, Nth
<1> HIDE DEF K
<1>4. m \in 0 .. Len(c)
  BY <1>1, <1>2, IntervalCounts
<1>5. \A k \in 1 .. m : Nth(K, k) \in DOMAIN c
  BY <1>1, <1>2, NthIn
<1>6. \A k \in 1 .. m : d[k] = c[Nth(K, k)] /\ d[k] \in Node
  BY <1>1, <1>5
<1>7. d \in Seq(Node) /\ Len(d) = m /\ DOMAIN d = 1 .. m
  <2>1. m \in Nat /\ d = [k \in 1 .. m |-> d[k]]
    BY <1>4
  <2> HIDE DEF d, m
  <2> QED BY <1>6, <2>1, SeqIs
<1> HIDE DEF d, m
<1>8. Accepted(d)
  BY <1>5, <1>6, <1>7 DEF Accepted
<1>9. \A k \in 1 .. m : Values(c)[Nth(K, k)] = d[k].val
  BY <1>5, <1>6, ValuesAre
<1>10. Values(d) = [k \in 1 .. m |-> Values(c)[Nth(K, k)]]
  BY <1>7, <1>9 DEF Values
<1>11. /\ Accepted(UpdateKeys(d)) /\ Keyed(UpdateKeys(d))
       /\ Len(UpdateKeys(d)) = m /\ Values(UpdateKeys(d)) = Values(d)
  BY <1>7, <1>8, UpdateKeysIs
<1> QED BY <1>3, <1>4, <1>10, <1>11 DEF m, K

-----------------------------------------------------------------------------
(* Reading: the iterator stops at the first item it cannot read.            *)

LEMMA ReadIs ==
    ASSUME NEW c, Accepted(c), Target \in [Val -> Val]
    PROVE  /\ Read(c) \in Seq(Val) /\ Len(Read(c)) <= Len(c)
           /\ \A k \in 1 .. Len(Read(c)) :
                 ~Unreadable(Values(c)[k]) /\ Read(c)[k] = Target[Values(c)[k]]
           /\ (\A k \in 1 .. Len(c) : ~Unreadable(Values(c)[k])) => Len(Read(c)) = Len(c)
<1> DEFINE vs == Values(c)
           n == Len(c)
           upto == {k \in DOMAIN vs : \A j \in 1 .. k : ~Unreadable(vs[j])}
           m == Max(upto \cup {0})
           t == Read(c)
<1>1. vs \in Seq(Val) /\ DOMAIN vs = 1 .. n /\ n \in Nat
  BY ValuesAre DEF Accepted
<1> HIDE DEF vs, n
<1>2. m \in upto \cup {0} /\ \A k \in upto \cup {0} : m >= k
  <2>1. upto \cup {0} \in SUBSET (0 .. n) /\ upto \cup {0} # {}
    BY <1>1
  <2> HIDE DEF upto
  <2> QED BY <1>1, <2>1, MaxIn
<1> HIDE DEF m
<1>3. upto = 1 .. m /\ m \in 0 .. n
  <2>1. m \in 0 .. n
    BY <1>1, <1>2
  <2>2. \A k \in upto : k \in 1 .. m
    BY <1>1, <1>2
  <2>3. \A k \in 1 .. m : k \in upto
    <3> TAKE k \in 1 .. m
    <3>1. m \in upto
      BY <1>2, <2>1
    <3>2. k \in DOMAIN vs /\ \A j \in 1 .. k : j \in 1 .. m
      BY <1>1, <2>1
    <3> QED BY <3>1, <3>2
  <2> HIDE DEF upto
  <2> QED BY <2>1, <2>2, <2>3
<1>4. t = [k \in upto |-> Target[vs[k]]]
  BY DEF Read, vs
<1> HIDE DEF t
<1>5. \A k \in 1 .. m : t[k] = Target[vs[k]] /\ t[k] \in Val
  <2>1. \A k \in 1 .. m : vs[k] \in Val
    BY <1>1, <1>3
  <2> HIDE DEF upto
  <2> QED BY <1>3, <1>4, <2>1
<1>6. t \in Seq(Val) /\ Len(t) = m
  <2>1. t = [k \in 1 .. m |-> t[k]] /\ m \in Nat
    <3> HIDE DEF upto
    <3> QED BY <1>3, <1>4
  <2> QED BY <1>5, <2>1, SeqIs
<1>7. \A k \in 1 .. m : ~Unreadable(vs[k])
  BY <1>3
<1>8. (\A k \in 1 .. n : ~Unreadable(vs[k])) => m = n
  <2> SUFFICES ASSUME \A k \in 1 .. n : ~Unreadable(vs[k]) PROVE m = n
    OBVIOUS
  <2>1. CASE n = 0
    BY <1>3, <2>1
  <2>2. CASE n > 0
    <3>1. n \in upto
      BY <1>1, <2>2
    <3> QED BY <1>2, <1>3, <3>1
  <2> QED BY <1>1, <2>1, <2>2
<1> QED BY <1>3, <1>5, <1>6, <1>7, <1>8 DEF t, vs, n

-----------------------------------------------------------------------------
(* Slice assignment: one round for each selected item, then one for each new *)
(* item that is left.                                                       *)

Work == {w \in [c : Seq(Node), cur : Int, removed : Int] : Accepted(w.c)}

Turn(at, vs, w, k) ==
    LET cur     == at[k] - w.removed
        deleted == DelImpl(w.c, {cur})
    IN  IF k <= Len(vs)
        THEN [w EXCEPT !.c = InsertImpl(deleted, cur, vs[k]).c, !.cur = cur]
        ELSE [c |-> deleted, cur |-> cur, removed |-> w.removed + 1]
Add(vs, w, k) == [w EXCEPT !.c = InsertImpl(@, w.cur + 1, vs[k]).c, !.cur = @ + 1]

Turns(at) == [k \in DOMAIN at |-> k]
Adds(at, vs) == [k \in 1 .. Len(vs) - Len(at) |-> Len(at) + k]
Started(c, start) == [c |-> c, cur |-> start - 1, removed |-> 0]
Turned(at, vs, w) == FoldLeft(LAMBDA u, k : Turn(at, vs, u, k), w, Turns(at))
Added(at, vs, w) == FoldLeft(LAMBDA u, k : Add(vs, u, k), w, Adds(at, vs))

LEMMA SplicedIs ==
    ASSUME NEW c, NEW start, NEW at, NEW vs
    PROVE  Spliced(c, start, at, vs) = Added(at, vs, Turned(at, vs, Started(c, start))).c
BY DEF Spliced, Added, Turned, Started, Turns, Adds, Turn, Add, FoldLeft, MapThenFoldSet

LEMMA TurnIs ==
    ASSUME NEW at \in Seq(Int), NEW vs \in Seq(Val), NEW w \in Work, NEW k \in DOMAIN at,
           NoNode \notin Val
    PROVE  /\ Turn(at, vs, w, k) \in Work
           /\ Len(Turn(at, vs, w, k).c) <= Len(w.c) + (IF k <= Len(vs) THEN 1 ELSE 0)
<1> DEFINE cur == at[k] - w.removed
           deleted == DelImpl(w.c, {cur})
           t == Turn(at, vs, w, k)
<1>1. /\ w.c \in Seq(Node) /\ w.cur \in Int /\ w.removed \in Int /\ Accepted(w.c)
      /\ w = [c |-> w.c, cur |-> w.cur, removed |-> w.removed]
  BY DEF Work
<1>2. cur \in Int /\ k \in Nat \ {0}
  BY <1>1
<1> HIDE DEF cur
<1>3. Accepted(deleted) /\ Len(deleted) \in 0 .. Len(w.c) /\ Len(w.c) \in Nat
  <2> DEFINE c == w.c
  <2>1. Accepted(c) /\ Len(c) \in Nat
    BY <1>1 DEF Accepted
  <2> HIDE DEF c
  <2>2. LET d == DelImpl(c, {cur})
        IN  Accepted(d) /\ Len(d) = Cardinality(Kept(c, {cur})) /\ Len(d) \in 0 .. Len(c)
    BY <2>1, DelIs
  <2> QED BY <2>1, <2>2 DEF c
<1> HIDE DEF deleted
<1>4. CASE k <= Len(vs)
  <2>1. vs[k] \in Val
    BY <1>2, <1>4
  <2> DEFINE r == InsertImpl(deleted, cur, vs[k])
  <2>2. r.ok \in BOOLEAN /\ Accepted(r.c) /\ Len(r.c) = Len(deleted) + (IF r.ok THEN 1 ELSE 0)
    <3> DEFINE v == vs[k]
    <3>1. v \in Val
      BY <2>1
    <3> HIDE DEF v
    <3>2. LET q == InsertImpl(deleted, cur, v)
          IN  q.ok \in BOOLEAN /\ Accepted(q.c) /\ Len(q.c) = Len(deleted) + (IF q.ok THEN 1 ELSE 0)
      BY <1>2, <1>3, <3>1, InsertIs
    <3> QED BY <3>2 DEF v
  <2> HIDE DEF r
  <2>3. t = [w EXCEPT !.c = r.c, !.cur = cur]
    BY <1>4 DEF Turn, cur, deleted, r
  <2>4. t = [c |-> r.c, cur |-> cur, removed |-> w.removed]
    BY <1>1, <2>3
  <2> HIDE DEF t
  <2>5. t \in Work
    BY <1>1, <1>2, <2>2, <2>4 DEF Work, Accepted
  <2>6. t.c = r.c
    BY <2>4
  <2> QED BY <1>3, <1>4, <2>2, <2>5, <2>6 DEF t
<1>5. CASE ~(k <= Len(vs))
  <2>1. t = [c |-> deleted, cur |-> cur, removed |-> w.removed + 1]
    BY <1>5 DEF Turn, cur, deleted
  <2> HIDE DEF t
  <2>2. t \in Work
    BY <1>1, <1>2, <1>3, <2>1 DEF Work, Accepted
  <2>3. t.c = deleted
    BY <2>1
  <2> QED BY <1>3, <1>5, <2>2, <2>3 DEF t
<1> QED BY <1>4, <1>5

LEMMA AddIs ==
    ASSUME NEW vs \in Seq(Val), NEW w \in Work, NEW k \in DOMAIN vs, NoNode \notin Val
    PROVE  /\ Add(vs, w, k) \in Work
           /\ Len(Add(vs, w, k).c) <= Len(w.c) + 1
<1> DEFINE i == w.cur + 1
           t == Add(vs, w, k)
           v == vs[k]
           r == InsertImpl(w.c, i, v)
<1>1. /\ w.c \in Seq(Node) /\ w.cur \in Int /\ w.removed \in Int /\ Accepted(w.c)
      /\ w = [c |-> w.c, cur |-> w.cur, removed |-> w.removed]
  BY DEF Work
<1>2. i \in Int /\ v \in Val /\ Len(w.c) \in Nat
  BY <1>1
<1>3. t = [c |-> r.c, cur |-> i, removed |-> w.removed]
  <2>1. t = [w EXCEPT !.c = r.c, !.cur = i]
    BY DEF Add
  <2> HIDE DEF t, r, i
  <2> QED BY <1>1, <2>1
<1> HIDE DEF i, v, t
<1>4. r.ok \in BOOLEAN /\ Accepted(r.c) /\ Len(r.c) = Len(w.c) + (IF r.ok THEN 1 ELSE 0)
  BY <1>1, <1>2, InsertIs
<1> HIDE DEF r
<1>5. t \in Work
  BY <1>1, <1>2, <1>3, <1>4 DEF Work, Accepted
<1>6. t.c = r.c
  BY <1>3
<1>7. Len(r.c) <= Len(w.c) + 1
  BY <1>2, <1>4
<1> QED BY <1>5, <1>6, <1>7 DEF t

TurnedRounds(d, at, vs, w) ==
    /\ d \in [0 .. Len(at) -> Work]
    /\ d[0] = w
    /\ \A k \in 0 .. Len(at) - 1 : d[k + 1] = Turn(at, vs, d[k], k + 1)
    /\ d[Len(at)] = Turned(at, vs, w)

LEMMA TurnedIs ==
    ASSUME NEW at \in Seq(Int), NEW vs \in Seq(Val), NEW w \in Work, NoNode \notin Val
    PROVE  \E d : TurnedRounds(d, at, vs, w)
<1> DEFINE n == Len(at)
           S == Work
           base == w
           Op(o, v) == Turn(at, vs, o, v)
           ks == Turns(at)
           step == [p \in S \X (1 .. n) |-> Op(p[1], ks[p[2]])]
           Body(it) == [s \in SUBSET DOMAIN ks |->
                          IF s = {} THEN base ELSE Op(it[s \ {Max(s)}], ks[Max(s)])]
           r == CHOOSE f : f = Body(f)
<1>0. n \in Nat /\ DOMAIN ks = 1 .. n
  BY DEF Turns
<1>1. \A o \in S, i \in 1 .. n : Op(o, ks[i]) \in S
  <2>1. \A i \in 1 .. n : ks[i] \in DOMAIN at
    BY DEF Turns
  <2> HIDE DEF ks, n
  <2> QED BY <2>1, TurnIs
<1>2. step \in Steps(n, S) /\ base \in S
  <2>1. base \in S
    OBVIOUS
  <2> HIDE DEF Op, S, n, ks
  <2> QED BY <1>1, <2>1 DEF Steps
<1>3. PICK it \in [SUBSET (1 .. n) -> S] : Iterates(it, n, base, step)
  <2> HIDE DEF S, step, base, n
  <2> QED BY <1>0, <1>2, FoldExists
<1>4. \A s \in SUBSET (1 .. n) : s # {} => Max(s) \in 1 .. n
  <2>1. ASSUME NEW s \in SUBSET (1 .. n), s # {} PROVE Max(s) \in s
    <3> HIDE DEF n
    <3>1. s \in SUBSET (0 .. n)
      BY <1>0
    <3> QED BY <1>0, <2>1, <3>1, MaxIn
  <2> QED BY <2>1
<1>5. \A o \in S, i \in 1 .. n : step[<<o, i>>] = Op(o, ks[i])
  <2> HIDE DEF Op, S, n, ks
  <2> QED OBVIOUS
<1>6. it = Body(it)
  <2>1. \A s \in SUBSET (1 .. n) : s # {} => it[s \ {Max(s)}] \in S
    <3> HIDE DEF S, n
    <3> QED BY <1>3
  <2> HIDE DEF Op, S, base, step, n, ks
  <2>2. ASSUME NEW s \in SUBSET (1 .. n)
        PROVE  it[s] = IF s = {} THEN base ELSE Op(it[s \ {Max(s)}], ks[Max(s)])
    <3>1. CASE s = {}
      BY <1>3, <3>1 DEF Iterates
    <3>2. CASE s # {}
      <4>1. it[s] = step[<<it[s \ {Max(s)}], Max(s)>>]
        BY <1>3, <3>2 DEF Iterates
      <4> QED BY <1>4, <1>5, <2>1, <3>2, <4>1
    <3> QED BY <3>1, <3>2
  <2> QED BY <1>0, <1>3, <2>2
<1>7. r = Body(r)
  <2> HIDE DEF Body
  <2> QED BY <1>6, Zenon
<1>8. Turned(at, vs, w) = r[1 .. n]
  <2>1. Turned(at, vs, w) = r[DOMAIN ks]
    BY DEF Turned, FoldLeft, MapThenFoldSet
  <2> HIDE DEF r, ks, n
  <2> QED BY <1>0, <2>1
<1>9. Rounds(r, n, S, step)
  <2>1. IteratesIn(r, n, S, base, step)
    <3> HIDE DEF Op, S, base, n, r, step, ks
    <3>1. r[{}] = base
      BY <1>7
    <3>2. ASSUME NEW s \in SUBSET (1 .. n), s # {}, r[s \ {Max(s)}] \in S
          PROVE  r[s] = step[<<r[s \ {Max(s)}], Max(s)>>]
      <4>1. r[s] = Op(r[s \ {Max(s)}], ks[Max(s)])
        BY <1>0, <1>7, <3>2
      <4> QED BY <1>4, <1>5, <3>2, <4>1
    <3> QED BY <3>1, <3>2 DEF IteratesIn
  <2> HIDE DEF r, S, step, base, n
  <2> QED BY <1>0, <1>2, <2>1, FoldRounds
<1> DEFINE d == [k \in 0 .. n |-> r[1 .. k]]
<1>10. r[1 .. 0] = base
  <2>1. 1 .. 0 = {}
    OBVIOUS
  <2> HIDE DEF Op, S, base, n, r, step, ks
  <2> QED BY <2>1, <1>7
<1>11. ASSUME NEW k \in 0 .. n - 1 PROVE d[k + 1] = Op(d[k], ks[k + 1])
  <2> HIDE DEF Op, S, base, r, step, n, ks
  <2>1. k \in 0 .. n /\ k + 1 \in 0 .. n /\ k + 1 \in 1 .. n /\ k < n
    BY <1>0
  <2>2. r[1 .. k] \in S /\ r[1 .. k + 1] = step[<<r[1 .. k], k + 1>>]
    BY <1>9, <2>1 DEF Rounds
  <2> QED BY <1>5, <2>1, <2>2
<1>12. d \in [0 .. n -> S] /\ d[0] = base /\ d[n] = r[1 .. n]
  <2> HIDE DEF Op, S, base, r, step, n
  <2>1. 0 \in 0 .. n /\ n \in 0 .. n
    BY <1>0
  <2> QED BY <1>9, <1>10, <2>1 DEF Rounds
<1>13. TurnedRounds(d, at, vs, w)
  <2>1. \A k \in 0 .. n - 1 : ks[k + 1] = k + 1
    BY DEF Turns
  <2> HIDE DEF d, r, ks
  <2> QED BY <1>8, <1>11, <1>12, <2>1 DEF TurnedRounds
<1> QED BY <1>13

Extra(at, vs) == IF Len(vs) > Len(at) THEN Len(vs) - Len(at) ELSE 0
AddedRounds(d, at, vs, w) ==
    /\ d \in [0 .. Extra(at, vs) -> Work]
    /\ d[0] = w
    /\ \A k \in 0 .. Extra(at, vs) - 1 : d[k + 1] = Add(vs, d[k], Len(at) + (k + 1))
    /\ d[Extra(at, vs)] = Added(at, vs, w)

LEMMA AddedIs ==
    ASSUME NEW at \in Seq(Int), NEW vs \in Seq(Val), NEW w \in Work, NoNode \notin Val
    PROVE  \E d : AddedRounds(d, at, vs, w)
<1> DEFINE n == Extra(at, vs)
           S == Work
           base == w
           Op(o, v) == Add(vs, o, v)
           ks == Adds(at, vs)
           step == [p \in S \X (1 .. n) |-> Op(p[1], ks[p[2]])]
           Body(it) == [s \in SUBSET DOMAIN ks |->
                          IF s = {} THEN base ELSE Op(it[s \ {Max(s)}], ks[Max(s)])]
           r == CHOOSE f : f = Body(f)
<1>0. n \in Nat /\ DOMAIN ks = 1 .. n
  <2>1. Len(at) \in Nat /\ Len(vs) \in Nat
    OBVIOUS
  <2>2. n \in Nat /\ 1 .. n = 1 .. Len(vs) - Len(at)
    BY <2>1 DEF Extra
  <2> QED BY <2>2 DEF Adds
<1>1. \A o \in S, i \in 1 .. n : Op(o, ks[i]) \in S
  <2>1. \A i \in 1 .. n : ks[i] \in DOMAIN vs
    <3>1. Len(at) \in Nat /\ Len(vs) \in Nat /\ DOMAIN vs = 1 .. Len(vs)
      OBVIOUS
    <3>2. \A i \in 1 .. n : ks[i] = Len(at) + i /\ i <= Len(vs) - Len(at)
      BY <3>1 DEF Adds, Extra
    <3> QED BY <3>1, <3>2
  <2> HIDE DEF ks, n
  <2> QED BY <2>1, AddIs
<1>2. step \in Steps(n, S) /\ base \in S
  <2>1. base \in S
    OBVIOUS
  <2> HIDE DEF Op, S, n, ks
  <2> QED BY <1>1, <2>1 DEF Steps
<1>3. PICK it \in [SUBSET (1 .. n) -> S] : Iterates(it, n, base, step)
  <2> HIDE DEF S, step, base, n
  <2> QED BY <1>0, <1>2, FoldExists
<1>4. \A s \in SUBSET (1 .. n) : s # {} => Max(s) \in 1 .. n
  <2>1. ASSUME NEW s \in SUBSET (1 .. n), s # {} PROVE Max(s) \in s
    <3> HIDE DEF n
    <3>1. s \in SUBSET (0 .. n)
      BY <1>0
    <3> QED BY <1>0, <2>1, <3>1, MaxIn
  <2> QED BY <2>1
<1>5. \A o \in S, i \in 1 .. n : step[<<o, i>>] = Op(o, ks[i])
  <2> HIDE DEF Op, S, n, ks
  <2> QED OBVIOUS
<1>6. it = Body(it)
  <2>1. \A s \in SUBSET (1 .. n) : s # {} => it[s \ {Max(s)}] \in S
    <3> HIDE DEF S, n
    <3> QED BY <1>3
  <2> HIDE DEF Op, S, base, step, n, ks
  <2>2. ASSUME NEW s \in SUBSET (1 .. n)
        PROVE  it[s] = IF s = {} THEN base ELSE Op(it[s \ {Max(s)}], ks[Max(s)])
    <3>1. CASE s = {}
      BY <1>3, <3>1 DEF Iterates
    <3>2. CASE s # {}
      <4>1. it[s] = step[<<it[s \ {Max(s)}], Max(s)>>]
        BY <1>3, <3>2 DEF Iterates
      <4> QED BY <1>4, <1>5, <2>1, <3>2, <4>1
    <3> QED BY <3>1, <3>2
  <2> QED BY <1>0, <1>3, <2>2
<1>7. r = Body(r)
  <2> HIDE DEF Body
  <2> QED BY <1>6, Zenon
<1>8. Added(at, vs, w) = r[1 .. n]
  <2>1. Added(at, vs, w) = r[DOMAIN ks]
    BY DEF Added, FoldLeft, MapThenFoldSet
  <2> HIDE DEF r, ks, n
  <2> QED BY <1>0, <2>1
<1>9. Rounds(r, n, S, step)
  <2>1. IteratesIn(r, n, S, base, step)
    <3> HIDE DEF Op, S, base, n, r, step, ks
    <3>1. r[{}] = base
      BY <1>7
    <3>2. ASSUME NEW s \in SUBSET (1 .. n), s # {}, r[s \ {Max(s)}] \in S
          PROVE  r[s] = step[<<r[s \ {Max(s)}], Max(s)>>]
      <4>1. r[s] = Op(r[s \ {Max(s)}], ks[Max(s)])
        BY <1>0, <1>7, <3>2
      <4> QED BY <1>4, <1>5, <3>2, <4>1
    <3> QED BY <3>1, <3>2 DEF IteratesIn
  <2> HIDE DEF r, S, step, base, n
  <2> QED BY <1>0, <1>2, <2>1, FoldRounds
<1> DEFINE d == [k \in 0 .. n |-> r[1 .. k]]
<1>10. r[1 .. 0] = base
  <2>1. 1 .. 0 = {}
    OBVIOUS
  <2> HIDE DEF Op, S, base, n, r, step, ks
  <2> QED BY <2>1, <1>7
<1>11. ASSUME NEW k \in 0 .. n - 1 PROVE d[k + 1] = Op(d[k], ks[k + 1])
  <2> HIDE DEF Op, S, base, r, step, n, ks
  <2>1. k \in 0 .. n /\ k + 1 \in 0 .. n /\ k + 1 \in 1 .. n /\ k < n
    BY <1>0
  <2>2. r[1 .. k] \in S /\ r[1 .. k + 1] = step[<<r[1 .. k], k + 1>>]
    BY <1>9, <2>1 DEF Rounds
  <2> QED BY <1>5, <2>1, <2>2
<1>12. d \in [0 .. n -> S] /\ d[0] = base /\ d[n] = r[1 .. n]
  <2> HIDE DEF Op, S, base, r, step, n
  <2>1. 0 \in 0 .. n /\ n \in 0 .. n
    BY <1>0
  <2> QED BY <1>9, <1>10, <2>1 DEF Rounds
<1>13. AddedRounds(d, at, vs, w)
  <2>1. \A k \in 0 .. n - 1 : ks[k + 1] = Len(at) + (k + 1)
    <3>1. Len(at) \in Nat /\ Len(vs) \in Nat
      OBVIOUS
    <3> QED BY <3>1 DEF Adds, Extra
  <2> HIDE DEF d, r, ks
  <2> QED BY <1>8, <1>11, <1>12, <2>1 DEF AddedRounds
<1> QED BY <1>13

Smaller(a, b) == IF a <= b THEN a ELSE b

LEMMA RoomForTurn ==
    ASSUME NEW x \in Nat, NEW y \in Nat, NEW l \in Nat, NEW k \in Nat, NEW n \in Nat,
           x <= l + Smaller(k, n), y <= x + (IF k + 1 <= n THEN 1 ELSE 0)
    PROVE  y <= l + Smaller(k + 1, n)
BY DEF Smaller

LEMMA RoomForAdds ==
    ASSUME NEW a \in Nat, NEW b \in Nat
    PROVE  Smaller(a, b) + (IF b > a THEN b - a ELSE 0) <= b
BY DEF Smaller

\* The work copy holds accepted values, not more than there were and there come.
LEMMA SplicedAccepted ==
    ASSUME NEW c, Accepted(c), NEW start \in Int, NEW at \in Seq(Int), NEW vs \in Seq(Val),
           NoNode \notin Val
    PROVE  /\ Accepted(Spliced(c, start, at, vs))
           /\ Len(Spliced(c, start, at, vs)) <= Len(c) + Len(vs)
<1> DEFINE w == Started(c, start)
           nt == Len(at)
           nv == Len(vs)
           na == Extra(at, vs)
<1>1. w \in Work /\ w.c = c
  BY DEF Started, Work, Accepted
<1>2. nt \in Nat /\ nv \in Nat /\ na \in Nat /\ Len(c) \in Nat /\ DOMAIN at = 1 .. nt /\ DOMAIN vs = 1 .. nv
  BY DEF Extra, Accepted
<1> HIDE DEF w
<1>3. PICK d : TurnedRounds(d, at, vs, w)
  BY <1>1, TurnedIs
<1>4. d[nt] = Turned(at, vs, w) /\ d[nt] \in Work
  <2>1. nt \in 0 .. nt
    BY <1>2
  <2> QED BY <1>3, <2>1 DEF TurnedRounds
<1>5. PICK e : AddedRounds(e, at, vs, d[nt])
  BY <1>4, AddedIs
<1>6. e[na] = Added(at, vs, d[nt]) /\ e[na] \in Work
  <2>1. na \in 0 .. na
    BY <1>2
  <2> QED BY <1>5, <2>1 DEF AddedRounds
<1> DEFINE low == Smaller(nt, nv)
           T == {k \in 0 .. nt : Len(d[k].c) <= Len(c) + Smaller(k, nv)}
           U == {k \in 0 .. na : Len(e[k].c) <= Len(c) + low + k}
<1>7. \A k \in 0 .. nt : k \in T
  <2>1. 0 \in T
    <3>1. d[0].c = c
      BY <1>1, <1>3 DEF TurnedRounds
    <3>2. Len(c) <= Len(c) + Smaller(0, nv)
      BY <1>2 DEF Smaller
    <3> HIDE DEF nt, nv
    <3> QED BY <1>2, <3>1, <3>2
  <2>2. ASSUME NEW k \in 0 .. nt - 1, k \in T PROVE k + 1 \in T
    <3>1. k \in 0 .. nt /\ k + 1 \in 0 .. nt /\ k + 1 \in DOMAIN at
      BY <1>2
    <3>2. d[k] \in Work /\ d[k + 1] \in Work /\ d[k + 1] = Turn(at, vs, d[k], k + 1)
      BY <1>3, <3>1 DEF TurnedRounds
    <3>3. Len(d[k + 1].c) <= Len(d[k].c) + (IF k + 1 <= nv THEN 1 ELSE 0)
      BY <3>1, <3>2, TurnIs
    <3>4. Len(d[k].c) \in Nat /\ Len(d[k + 1].c) \in Nat
      BY SMTT(30), <3>2 DEF Work
    <3>5. Len(d[k].c) <= Len(c) + Smaller(k, nv)
      BY <2>2
    <3>6. Len(d[k + 1].c) <= Len(c) + Smaller(k + 1, nv)
      <4> DEFINE x == Len(d[k].c)
                 y == Len(d[k + 1].c)
                 l == Len(c)
      <4>1. x \in Nat /\ y \in Nat /\ l \in Nat /\ k \in Nat /\ nv \in Nat
        BY <1>2, <3>1, <3>4
      <4>2. x <= l + Smaller(k, nv)
        BY <3>5
      <4>3. y <= x + (IF k + 1 <= nv THEN 1 ELSE 0)
        BY <3>3
      <4> HIDE DEF nt, nv, x, y, l
      <4>4. y <= l + Smaller(k + 1, nv)
        BY <4>1, <4>2, <4>3, RoomForTurn
      <4> QED BY <4>4 DEF x, y, l
    <3> QED BY <3>1, <3>6
  <2> HIDE DEF T, nt
  <2> QED BY <1>2, <2>1, <2>2, InductionTo
<1>8. \A k \in 0 .. na : k \in U
  <2>1. 0 \in U
    <3>1. e[0] = d[nt] /\ nt \in T
      BY <1>2, <1>5, <1>7 DEF AddedRounds
    <3>2. low \in Nat /\ Len(e[0].c) <= Len(c) + low
      BY <1>2, <3>1 DEF Smaller
    <3> HIDE DEF nt, nv, na, low
    <3> QED BY <1>2, <3>2
  <2>2. ASSUME NEW k \in 0 .. na - 1, k \in U PROVE k + 1 \in U
    <3>1. k \in 0 .. na /\ k + 1 \in 0 .. na
      BY <1>2
    <3>2. nt + (k + 1) \in DOMAIN vs
      BY <1>2, <3>1 DEF Extra
    <3>3. e[k] \in Work /\ e[k + 1] \in Work /\ e[k + 1] = Add(vs, e[k], nt + (k + 1))
      BY <1>5, <3>1 DEF AddedRounds
    <3>4. Len(e[k + 1].c) <= Len(e[k].c) + 1
      BY <3>2, <3>3, AddIs
    <3>5. Len(e[k].c) \in Nat /\ Len(e[k + 1].c) \in Nat
      BY <3>3 DEF Work
    <3>6. Len(e[k].c) <= Len(c) + low + k /\ low \in Nat
      BY <1>2, <2>2 DEF Smaller
    <3>7. Len(e[k + 1].c) <= Len(c) + low + (k + 1)
      <4> DEFINE x == Len(e[k].c)
                 y == Len(e[k + 1].c)
                 l == Len(c)
      <4>1. x \in Nat /\ y \in Nat /\ l \in Nat /\ k \in Nat /\ low \in Nat
        BY <1>2, <3>1, <3>5, <3>6
      <4>2. y <= x + 1 /\ x <= l + low + k
        BY <3>4, <3>6
      <4> HIDE DEF nt, nv, na, low, x, y, l
      <4>3. y <= l + low + (k + 1)
        BY <4>1, <4>2
      <4> QED BY <4>3 DEF x, y, l
    <3> HIDE DEF nt, nv, na, low
    <3> QED BY <3>1, <3>7
  <2> HIDE DEF U, na
  <2> QED BY <1>2, <2>1, <2>2, InductionTo
<1>9. Len(e[na].c) <= Len(c) + nv
  <2>1. Len(e[na].c) <= Len(c) + low + na
    BY <1>2, <1>8
  <2>2. low + na <= nv
    BY <1>2, RoomForAdds DEF Extra
  <2>3. Len(e[na].c) \in Nat /\ low \in Nat
    BY <1>2, <1>6 DEF Work, Smaller
  <2> HIDE DEF low, na, nv
  <2> QED BY <1>2, <2>1, <2>2, <2>3
<1>10. Spliced(c, start, at, vs) = e[na].c
  BY <1>4, <1>6, SplicedIs DEF w
<1>11. Accepted(e[na].c)
  BY <1>6 DEF Work
<1> QED BY <1>9, <1>10, <1>11

-----------------------------------------------------------------------------
(* Each call keeps the invariant, renews the keys and leaves a readonly list *)
(* alone.                                                                   *)

LEMMA ItemsAcceptedIs ==
    ItemsAccepted <=> /\ Accepted(content) /\ Len(content) <= MaxLen
                      /\ isList \in BOOLEAN /\ typed \in BOOLEAN
                      /\ readonly \in BOOLEAN /\ ok \in BOOLEAN
                      /\ ~isList => content = <<>>
BY DEF ItemsAccepted, TypeOK, Accepted, Node

StepKeeps ==
    /\ ItemsAccepted'
    /\ KeysArePositions /\ call'.op # "sort" /\ ~(call'.op = "setitem" /\ call'.at < 0)
       => KeysArePositions'
    /\ readonly /\ call'.op # "assign" => content' = content

\* What the call c may leave of the content.
Legal(c, r) ==
    /\ Accepted(r.c) /\ Len(r.c) <= MaxLen /\ r.ok \in BOOLEAN
    /\ ~Writable => r.c = content
    /\ Keyed(content) /\ c.op # "sort" /\ ~(c.op = "setitem" /\ c.at < 0) => Keyed(r.c)

LEMMA FinishKeeps ==
    ASSUME ItemsAccepted, NEW c, NEW r, Legal(c, r), Finish(c, r)
    PROVE  StepKeeps
<1>1. /\ content' = r.c /\ call' = c /\ ok' = r.ok
      /\ isList' = isList /\ typed' = typed /\ readonly' = readonly
  BY DEF Finish
<1>2. ItemsAccepted'
  <2>1. ~isList => content' = <<>>
    BY <1>1, ItemsAcceptedIs DEF Legal, Writable
  <2>2. r.c \in Seq(Node) /\ \A k \in DOMAIN r.c : ~(typed /\ r.c[k].val \in Untypable)
    BY DEF Legal, Accepted, Rejects
  <2>3. Len(r.c) <= MaxLen /\ r.ok \in BOOLEAN
    BY DEF Legal
  <2> QED BY <1>1, <2>1, <2>2, <2>3, ItemsAcceptedIs DEF ItemsAccepted, TypeOK, Rejects, Node
<1>3. KeysArePositions /\ call'.op # "sort" /\ ~(call'.op = "setitem" /\ call'.at < 0)
      => KeysArePositions'
  BY <1>1 DEF Legal, KeysArePositions, Keyed
<1>4. readonly => content' = content
  BY <1>1 DEF Legal, Writable
<1> QED BY <1>2, <1>3, <1>4 DEF StepKeeps

\* A call that raises at once.
LEMMA RaiseKeeps == ASSUME ItemsAccepted, NEW c, Raise(c) PROVE StepKeeps
<1>1. Legal(c, Outcome(content, FALSE))
  BY ItemsAcceptedIs DEF Legal, Outcome
<1> QED BY <1>1, FinishKeeps DEF Raise

LEMMA EditKeeps ==
    ASSUME ItemsAccepted, NEW c, NEW e, Accepted(e), Len(e) <= MaxLen, Keyed(e), Edit(c, e)
    PROVE  StepKeeps
<1>1. CASE Writable
  <2>1. Legal(c, Outcome(e, TRUE))
    BY <1>1 DEF Legal, Outcome
  <2> QED BY <1>1, <2>1, FinishKeeps DEF Edit
<1>2. CASE ~Writable
  BY <1>2, RaiseKeeps DEF Edit
<1> QED BY <1>1, <1>2

\* Deleting, whichever positions.
LEMMA DelKeeps ==
    ASSUME ValAssumption, ItemsAccepted, NEW c, NEW S, Edit(c, DelImpl(content, S))
    PROVE  StepKeeps
<1>1. Accepted(content) /\ Len(content) <= MaxLen /\ Len(content) \in Nat /\ MaxLen \in Nat
  BY ItemsAcceptedIs DEF Accepted, ValAssumption
<1> DEFINE e == DelImpl(content, S)
<1>2. Accepted(e) /\ Keyed(e) /\ Len(e) \in 0 .. Len(content)
  BY <1>1, DelIs
<1> HIDE DEF e
<1>3. Len(e) <= MaxLen
  BY <1>1, <1>2
<1> QED BY <1>2, <1>3, EditKeeps DEF e

LEMMA ListsAre ==
    ASSUME NEW n \in Nat, NEW vs \in Lists(n)
    PROVE  vs \in Seq(Val) /\ Len(vs) \in 0 .. n
<1>1. PICK m \in 0 .. n : vs \in [1 .. m -> Val]
  BY DEF Lists
<1>2. m \in Nat
  BY <1>1
<1>3. vs \in Seq(Val) /\ Len(vs) = m
  BY <1>1, <1>2, SeqDef
<1> QED BY <1>1, <1>3

\* What a new list holds, filled from nothing.
LEMMA FilledIs ==
    ASSUME ValAssumption, NEW vs \in Seq(Val)
    PROVE  LET r == ExtendImpl(TRUE, <<>>, vs)
           IN  r.ok \in BOOLEAN /\ Accepted(r.c) /\ Keyed(r.c) /\ Len(r.c) <= Len(vs)
<1>1. Accepted(<<>>) /\ Keyed(<<>>) /\ Len(<<>>) = 0 /\ NoNode \notin Val /\ Len(vs) \in Nat
  BY EmptyAccepted DEF ValAssumption
<1> DEFINE r == ExtendImpl(TRUE, <<>>, vs)
<1>2. r.ok \in BOOLEAN /\ Accepted(r.c) /\ Keyed(r.c) /\ Len(r.c) <= Len(<<>>) + Len(vs)
  BY <1>1, ExtendIs
<1> HIDE DEF r
<1>3. Len(r.c) <= Len(vs)
  BY <1>1, <1>2
<1> QED BY <1>2, <1>3 DEF r

LEMMA InitKeeps == ValAssumption /\ Init => ItemsAccepted
<1> SUFFICES ASSUME ValAssumption, Init PROVE ItemsAccepted
  OBVIOUS
<1>1. PICK vs \in Lists(MaxLen) : content = ExtendImpl(TRUE, <<>>, vs).c
  BY DEF Init
<1>2. vs \in Seq(Val) /\ Len(vs) \in 0 .. MaxLen /\ MaxLen \in Nat
  BY ListsAre DEF ValAssumption
<1> DEFINE r == ExtendImpl(TRUE, <<>>, vs)
<1>3. Accepted(r.c) /\ Len(r.c) <= Len(vs)
  BY <1>2, FilledIs
<1> HIDE DEF r
<1>4. Len(r.c) \in Nat
  BY <1>3 DEF Accepted
<1>5. Len(r.c) <= MaxLen
  BY <1>2, <1>3, <1>4
<1>6. content = r.c
  BY <1>1 DEF r
<1> QED BY <1>3, <1>5, <1>6, ItemsAcceptedIs DEF Init

\* A call that stores one item, or several, and takes care of the bound itself.
LEMMA AddKeeps ==
    ASSUME ValAssumption, ItemsAccepted,
           \/ \E i \in Index, v \in Val : SetItem(i, v)
           \/ \E v \in Val : AppendItem(v)
           \/ \E i \in Int, v \in Val : InsertItem(i, v)
           \/ \E vs \in Args : Extend(vs)
    PROVE  StepKeeps
<1>1. /\ Accepted(content) /\ Len(content) <= MaxLen /\ Len(content) \in Nat /\ MaxLen \in Nat
      /\ Writable \in BOOLEAN /\ NoNode \notin Val
  BY ItemsAcceptedIs DEF Accepted, ValAssumption, Writable
<1>2. ASSUME NEW i \in Index, NEW v \in Val, SetItem(i, v) PROVE StepKeeps
  <2> DEFINE c == [op |-> "setitem", at |-> i, item |-> v]
             r == SetItemImpl(Writable, content, i, v)
  <2>1. i \in Int /\ c.op = "setitem" /\ c.at = i
    BY DEF ValAssumption
  <2>2. /\ r.ok \in BOOLEAN /\ Accepted(r.c) /\ Len(r.c) = Len(content)
        /\ ~Writable => ~r.ok
        /\ ~r.ok => r.c = content
        /\ Keyed(content) /\ i >= 0 => Keyed(r.c)
    BY <1>1, <2>1, SetItemStores
  <2>3. Finish(c, r)
    BY <1>2 DEF SetItem
  <2> HIDE DEF c, r
  <2>4. Legal(c, r)
    BY <1>1, <2>1, <2>2 DEF Legal
  <2> QED BY <2>3, <2>4, FinishKeeps
<1>3. ASSUME NEW v \in Val, AppendItem(v) PROVE StepKeeps
  <2> DEFINE c == [op |-> "append", item |-> v]
             r == AppendImpl(Writable, content, v)
  <2>1. c.op = "append"
    OBVIOUS
  <2>2. /\ r.ok \in BOOLEAN /\ Accepted(r.c)
        /\ ~Writable => ~r.ok
        /\ ~r.ok => r.c = content
        /\ r.ok => Len(r.c) = Len(content) + 1
        /\ Keyed(content) => Keyed(r.c)
    BY <1>1, AppendIs
  <2>3. Finish(c, r) /\ Len(content) + 1 <= MaxLen
    BY <1>3 DEF AppendItem, Fits
  <2> HIDE DEF c, r
  <2>4. Legal(c, r)
    BY <1>1, <2>1, <2>2, <2>3 DEF Legal
  <2> QED BY <2>3, <2>4, FinishKeeps
<1>4. ASSUME NEW i \in Int, NEW v \in Val, InsertItem(i, v) PROVE StepKeeps
  <2> DEFINE c == [op |-> "insert", at |-> i, item |-> v]
             r == InsertImpl(content, i, v)
  <2>1. CASE Writable
    <3>1. c.op = "insert"
      OBVIOUS
    <3>2. /\ r.ok \in BOOLEAN /\ Accepted(r.c) /\ Keyed(r.c)
          /\ Len(r.c) = Len(content) + (IF r.ok THEN 1 ELSE 0)
      BY <1>1, InsertIs
    <3>3. Finish(c, r) /\ Len(content) + 1 <= MaxLen
      BY <1>4, <2>1 DEF InsertItem, Fits
    <3> HIDE DEF c, r
    <3>4. Len(r.c) <= MaxLen
      BY <1>1, <3>2, <3>3
    <3>5. Legal(c, r)
      BY <2>1, <3>1, <3>2, <3>4 DEF Legal
    <3> QED BY <3>3, <3>5, FinishKeeps
  <2>2. CASE ~Writable
    BY <1>4, <2>2, RaiseKeeps DEF InsertItem
  <2> QED BY <2>1, <2>2
<1>5. ASSUME NEW vs \in Args, Extend(vs) PROVE StepKeeps
  <2> DEFINE c == [op |-> "extend", items |-> vs]
             r == ExtendImpl(Writable, content, vs)
  <2>1. c.op = "extend" /\ vs \in Seq(Val) /\ Len(vs) \in Nat
    BY ListsAre DEF Args, ValAssumption
  <2>2. /\ r.ok \in BOOLEAN /\ Accepted(r.c)
        /\ Len(r.c) <= Len(content) + Len(vs)
        /\ ~Writable => r.c = content
        /\ Keyed(content) => Keyed(r.c)
    BY <1>1, <2>1, ExtendIs
  <2>3. Finish(c, r) /\ Len(content) + Len(vs) <= MaxLen
    BY <1>5 DEF Extend, Fits
  <2> HIDE DEF c, r
  <2>4. Len(r.c) \in Nat
    BY <2>2 DEF Accepted
  <2>5. Len(r.c) <= MaxLen
    BY <1>1, <2>1, <2>2, <2>3, <2>4
  <2>6. Legal(c, r)
    BY <2>1, <2>2, <2>5 DEF Legal
  <2> QED BY <2>3, <2>6, FinishKeeps
<1> QED BY <1>2, <1>3, <1>4, <1>5

LEMMA IndexRangeIn ==
    ASSUME NEW start \in Int, NEW stop \in Int, NEW step \in {1, -1, 2}
    PROVE  IndexRange(start, stop, step) \in Seq(Int)
<1> DEFINE n == IF step > 0 THEN (stop - start + step - 1) \div step
                            ELSE (start - stop - step - 1) \div (-step)
           m == Max({0, n})
<1>1. n \in Int
  OBVIOUS
<1> HIDE DEF n
<1>2. m \in Nat
  BY <1>1, MaxOfTwo
<1> HIDE DEF m
<1>3. \A k \in 1 .. m : start + (k - 1) * step \in Int
  BY <1>2
<1>4. [k \in 1 .. m |-> start + (k - 1) * step] \in [1 .. m -> Int]
  BY <1>3
<1>5. [k \in 1 .. m |-> start + (k - 1) * step] \in Seq(Int)
  BY <1>2, <1>4, SeqDef
<1> QED BY <1>5 DEF IndexRange, m, n

LEMMA SetSliceKeeps ==
    ASSUME ValAssumption, ItemsAccepted, NEW start \in Int, NEW stop \in Int,
           NEW step \in {1, -1, 2}, NEW vs \in Args, SetSlice(start, stop, step, vs)
    PROVE  StepKeeps
<1> DEFINE at == IndexRange(start, stop, step)
           work == Spliced(content, start, at, vs)
           read == Read(work)
           r == ExtendImpl(TRUE, <<>>, read)
           c == [op |-> "setslice", start |-> start, stop |-> stop, step |-> step,
                 items |-> vs]
           raises == ~Writable \/ (step # 1 /\ Len(at) # Len(vs))
                               \/ \E k \in DOMAIN vs : Rejects(vs[k])
           o == Outcome(r.c, r.ok /\ Len(r.c) = Len(work))
<1>1. /\ Len(content) + Len(vs) <= MaxLen
      /\ IF raises THEN Raise(c) ELSE Finish(c, o)
  BY DEF SetSlice, Fits
<1>2. /\ Accepted(content) /\ Len(content) \in Nat /\ MaxLen \in Nat
      /\ NoNode \notin Val /\ Target \in [Val -> Val]
  BY ItemsAcceptedIs DEF Accepted, ValAssumption
<1>3. vs \in Seq(Val) /\ Len(vs) \in Nat
  BY ListsAre DEF Args, ValAssumption
<1>4. at \in Seq(Int)
  BY IndexRangeIn
<1>5. c.op = "setslice" /\ (~raises => Writable)
  OBVIOUS
<1> HIDE DEF at, raises, c
<1>6. Accepted(work) /\ Len(work) <= Len(content) + Len(vs)
  BY <1>2, <1>3, <1>4, SplicedAccepted
<1> HIDE DEF work
<1>7. read \in Seq(Val) /\ Len(read) <= Len(work) /\ Len(work) \in Nat /\ Len(read) \in Nat
  BY <1>2, <1>6, ReadIs DEF Accepted
<1> HIDE DEF read
<1>8. r.ok \in BOOLEAN /\ Accepted(r.c) /\ Keyed(r.c) /\ Len(r.c) <= Len(read)
  BY <1>7, FilledIs
<1> HIDE DEF r
<1>9. Len(r.c) \in Nat
  BY <1>8 DEF Accepted
<1>10. Len(r.c) <= MaxLen
  BY <1>1, <1>2, <1>3, <1>6, <1>7, <1>8, <1>9
<1>11. o.c = r.c /\ o.ok \in BOOLEAN
  BY DEF Outcome
<1> HIDE DEF o
<1>12. CASE ~raises
  <2>1. Accepted(o.c) /\ Keyed(o.c) /\ Len(o.c) <= MaxLen
    BY <1>8, <1>10, <1>11
  <2>2. Writable /\ o.ok \in BOOLEAN
    BY <1>5, <1>11, <1>12
  <2>3. Legal(c, o)
    BY <2>1, <2>2 DEF Legal
  <2> QED BY <1>1, <1>12, <2>3, FinishKeeps
<1>13. CASE raises
  BY <1>1, <1>13, RaiseKeeps
<1> QED BY <1>12, <1>13

LEMMA SortKeeps ==
    ASSUME ValAssumption, ItemsAccepted, NEW p \in Orders, NEW returns \in BOOLEAN,
           Sort(p, returns)
    PROVE  StepKeeps
<1> DEFINE e == [k \in DOMAIN content |-> content[p[k]]]
           c == [op |-> "sort"]
<1>1. /\ Accepted(content) /\ Len(content) <= MaxLen /\ Len(content) \in Nat
      /\ DOMAIN content = 1 .. Len(content) /\ content \in Seq(Node)
  BY ItemsAcceptedIs DEF Accepted
<1>2. \A k \in DOMAIN content : p[k] \in DOMAIN content
  BY DEF Orders
<1>3. e \in Seq(Node) /\ Len(e) = Len(content)
  <2>1. e \in [1 .. Len(content) -> Node]
    BY <1>1, <1>2
  <2> QED BY <1>1, <2>1, SeqDef
<1>4. Accepted(e)
  BY <1>1, <1>2, <1>3 DEF Accepted
<1>5. CASE Writable
  <2> DEFINE r == Outcome(e, returns)
  <2>1. r.c = e /\ r.ok \in BOOLEAN /\ c.op = "sort"
    BY DEF Outcome
  <2>2. Finish(c, r)
    BY <1>5 DEF Sort
  <2> HIDE DEF r, e, c
  <2>3. Legal(c, r)
    BY <1>1, <1>3, <1>4, <1>5, <2>1 DEF Legal
  <2> QED BY <2>2, <2>3, FinishKeeps
<1>6. CASE ~Writable
  BY <1>6, RaiseKeeps DEF Sort
<1> QED BY <1>5, <1>6

LEMMA AssignKeeps ==
    ASSUME ValAssumption, ItemsAccepted, NEW vs \in Args, NEW isConfig \in BOOLEAN,
           Assign(vs, isConfig)
    PROVE  StepKeeps
<1> DEFINE r == ExtendImpl(TRUE, <<>>, vs)
<1>1. vs \in Seq(Val) /\ Len(vs) \in 0 .. MaxArg /\ MaxArg \in 0 .. MaxLen /\ MaxLen \in Nat
  <2>1. MaxArg \in Nat
    BY DEF ValAssumption
  <2> QED BY <2>1, ListsAre DEF Args, ValAssumption
<1>2. r.ok \in BOOLEAN /\ Accepted(r.c) /\ Keyed(r.c) /\ Len(r.c) <= Len(vs)
  BY <1>1, FilledIs
<1>3. /\ content' = (IF r.ok THEN r.c ELSE content) /\ isList' = (isList \/ r.ok)
      /\ readonly' = (readonly /\ ~isConfig) /\ call'.op = "assign" /\ ok' = r.ok
      /\ typed' = typed
  BY DEF Assign
<1> HIDE DEF r
<1>4. Len(r.c) <= MaxLen
  <2>1. Len(r.c) \in Nat
    BY <1>2 DEF Accepted
  <2> QED BY <1>1, <1>2, <2>1
<1>5. CASE r.ok
  <2>1. content' = r.c
    BY <1>3, <1>5
  <2>2. isList' = TRUE /\ ok' = TRUE /\ readonly' \in BOOLEAN
    BY <1>2, <1>3, <1>5, ItemsAcceptedIs
  <2>3. r.c \in Seq(Node) /\ \A k \in DOMAIN r.c : ~(typed /\ r.c[k].val \in Untypable)
    BY <1>2 DEF Accepted, Rejects
  <2>4. ItemsAccepted'
    BY <1>3, <1>4, <2>1, <2>2, <2>3, ItemsAcceptedIs DEF ItemsAccepted, TypeOK, Rejects, Node
  <2>5. KeysArePositions'
    BY <1>2, <2>1 DEF KeysArePositions, Keyed
  <2> QED BY <1>3, <2>4, <2>5 DEF StepKeeps
<1>6. CASE ~r.ok
  <2>1. content' = content /\ isList' = isList /\ ok' = FALSE /\ readonly' \in BOOLEAN
    BY <1>2, <1>3, <1>6, ItemsAcceptedIs
  <2>2. ItemsAccepted'
    BY <1>3, <2>1 DEF ItemsAccepted, TypeOK, Rejects
  <2>3. KeysArePositions => KeysArePositions'
    BY <2>1 DEF KeysArePositions
  <2> QED BY <1>3, <2>2, <2>3 DEF StepKeeps
<1> QED BY <1>2, <1>5, <1>6

LEMMA NextKeeps == ValAssumption /\ ItemsAccepted /\ [Next]_vars => StepKeeps
<1> SUFFICES ASSUME ValAssumption, ItemsAccepted, [Next]_vars PROVE StepKeeps
  OBVIOUS
<1>0. Len(content) \in Nat /\ MaxLen \in Nat
  BY ItemsAcceptedIs DEF Accepted, ValAssumption
<1>1. CASE \/ \E i \in Index, v \in Val : SetItem(i, v)
           \/ \E v \in Val : AppendItem(v)
           \/ \E vs \in Args : Extend(vs)
  BY <1>1, AddKeeps
<1>2. CASE \E i \in -2 .. MaxLen + 1, v \in Val : InsertItem(i, v)
  <2>1. \E i \in Int, v \in Val : InsertItem(i, v)
    BY <1>2
  <2> QED BY <2>1, AddKeeps
<1>3. CASE \E v \in Val : RemoveItem(v)
  BY <1>3, RaiseKeeps, DelKeeps DEF RemoveItem
<1>4. CASE \/ \E start, stop \in Place, vs \in Args : SetSlice(start, stop, 1, vs)
           \/ \E start, stop \in -1 .. Len(content) - 1, vs \in Args :
                 SetSlice(start, stop, -1, vs)
           \/ \E start, stop \in Place, vs \in Args : SetSlice(start, stop, 2, vs)
  <2>1. Place \subseteq Int /\ -1 .. Len(content) - 1 \subseteq Int
    BY <1>0 DEF Place
  <2>2. \E start, stop \in Int, step \in {1, -1, 2}, vs \in Args : SetSlice(start, stop, step, vs)
    BY <1>4, <2>1
  <2> QED BY <2>2, SetSliceKeeps
<1>5. CASE \E i \in Place : DelItem(i) \/ Pop(i)
  BY <1>5, RaiseKeeps, DelKeeps DEF DelItem, Pop
<1>6. CASE \E start, stop \in Place, step \in {1, 2} : DelSlice(start, stop, step)
  BY <1>6, DelKeeps DEF DelSlice
<1>7. CASE Clear
  <2>1. Accepted(<<>>) /\ Keyed(<<>>) /\ Len(<<>>) <= MaxLen
    BY <1>0, EmptyAccepted
  <2> QED BY <1>7, <2>1, EditKeeps DEF Clear
<1>8. CASE \E p \in Orders, returns \in BOOLEAN : Sort(p, returns)
  BY <1>8, SortKeeps
<1>9. CASE \E vs \in Args, isConfig \in BOOLEAN : Assign(vs, isConfig)
  BY <1>9, AssignKeeps
<1>10. CASE AssignSpecial
  <2>1. content' = <<>> /\ Len(<<>>) = 0 /\ call'.op = "assign"
    BY <1>10 DEF AssignSpecial
  <2>2. ItemsAccepted'
    <3>1. <<>> \in Seq(Node) /\ DOMAIN <<>> = {} /\ Len(<<>>) <= MaxLen
      BY <1>0
    <3>2. isList' = FALSE /\ ok' = TRUE /\ typed' = typed /\ readonly' = readonly
      BY <1>10 DEF AssignSpecial
    <3> QED BY <2>1, <3>1, <3>2, ItemsAcceptedIs DEF ItemsAccepted, TypeOK, Node
  <2> QED BY <2>1, <2>2 DEF StepKeeps, KeysArePositions
<1>11. CASE \E b \in BOOLEAN : SetReadonly(b)
  BY <1>11 DEF SetReadonly, StepKeeps, ItemsAccepted, TypeOK, Rejects, KeysArePositions
<1>12. CASE UNCHANGED vars
  BY <1>12 DEF vars, StepKeeps, ItemsAccepted, TypeOK, Rejects, KeysArePositions
<1> QED BY <1>1, <1>2, <1>3, <1>4, <1>5, <1>6, <1>7, <1>8, <1>9, <1>10, <1>11, <1>12 DEF Next

-----------------------------------------------------------------------------
\* Whatever calls raised on the way, no placeholder of a refused item stays in the
\* list, and a typed list holds no value its type refuses (_validate_set,
\* _wrap_value_and_set, and the except branches of append and insert).
THEOREM ItemsAlwaysAccepted == Spec => []ItemsAccepted
<1>1. Init => ItemsAccepted
  BY ValAssumption, InitKeeps
<1>2. ItemsAccepted /\ [Next]_vars => ItemsAccepted'
  BY ValAssumption, NextKeeps DEF StepKeeps
<1> QED BY <1>1, <1>2, PTL DEF Spec

\* Every call but sort and an assignment to a negative index leaves each node
\* with the index it is stored under, if it had it before (_update_keys, _set_key).
THEOREM KeysAreRenewed == Spec => KeysRenewed
<1>1. ItemsAccepted /\ [Next]_vars
      => [/\ KeysArePositions
          /\ call'.op # "sort" /\ ~(call'.op = "setitem" /\ call'.at < 0)
          => KeysArePositions']_vars
  BY ValAssumption, NextKeeps DEF StepKeeps
<1> QED BY <1>1, ItemsAlwaysAccepted, PTL DEF Spec, KeysRenewed

\* No call but the assignment of the whole list changes, reorders or re-keys the
\* nodes of a readonly list: each operation looks at the flag before it edits.
THEOREM ReadonlyAlwaysHolds == Spec => ReadonlyHolds
<1>1. ItemsAccepted /\ [Next]_vars
      => [readonly /\ call'.op # "assign" => content' = content]_vars
  BY ValAssumption, NextKeeps DEF StepKeeps
<1> QED BY <1>1, ItemsAlwaysAccepted, PTL DEF Spec, ReadonlyHolds

-----------------------------------------------------------------------------
(* What the steps do to the values, item by item.                           *)

LEMMA AppendReturns ==
    ASSUME NEW c, Accepted(c), NEW v \in Val, ~Rejects(v)
    PROVE  AppendImpl(TRUE, c, v).ok
<1> DEFINE a == Append(c, [val |-> NoNode, key |-> 0])
<1>1. c \in Seq(Node) /\ Len(c) \in Nat
  BY DEF Accepted
<1>2. Len(c) + 1 \in DOMAIN a
  BY <1>1
<1>3. ~(Len(c) < 0)
  BY <1>1
<1> HIDE DEF a
<1>4. SetItemImpl(TRUE, a, Len(c), v).ok
  BY <1>2, <1>3 DEF SetItemImpl, Outcome
<1> QED BY <1>4 DEF AppendImpl, a

\* Extending with items that are all accepted takes them all.
LEMMA ExtendReturns ==
    ASSUME NEW c, Accepted(c), NEW vs \in Seq(Val), NoNode \notin Val,
           \A k \in DOMAIN vs : ~Rejects(vs[k])
    PROVE  ExtendImpl(TRUE, c, vs).ok
<1> DEFINE n == Len(vs)
<1>1. PICK d : ExtendRounds(d, TRUE, c, vs)
  BY ExtendImplIs
<1>2. n \in Nat /\ DOMAIN vs = 1 .. n /\ \A i \in 1 .. n : vs[i] \in Val
  OBVIOUS
<1> HIDE DEF n
<1> DEFINE T == {k \in 0 .. n : d[k].ok}
<1>3. 0 \in T
  BY <1>1, <1>2 DEF ExtendRounds, Outcome
<1>4. ASSUME NEW k \in 0 .. n - 1, k \in T PROVE k + 1 \in T
  <2>1. k \in 0 .. n /\ k + 1 \in 0 .. n /\ k + 1 \in 1 .. n
    BY <1>2
  <2>2. d[k] \in ExtendResult /\ d[k + 1] = ExtendStep(TRUE, d[k], vs[k + 1]) /\ d[k].ok
    BY <1>1, <1>4, <2>1 DEF ExtendRounds, n
  <2> DEFINE v == vs[k + 1]
             x == d[k].c
  <2>3. v \in Val /\ ~Rejects(v) /\ Accepted(x)
    BY <1>2, <2>1, <2>2 DEF ExtendResult
  <2>4. d[k + 1] = AppendImpl(TRUE, x, v)
    BY <2>2 DEF ExtendStep
  <2> HIDE DEF v, x
  <2>5. d[k + 1].ok
    BY <2>3, <2>4, AppendReturns
  <2> QED BY <2>1, <2>5
<1>5. n \in T
  <2>1. \A k \in 0 .. n : k \in T
    <3> HIDE DEF T
    <3> QED BY <1>2, <1>3, <1>4, InductionTo
  <2> QED BY <1>2, <2>1
<1> QED BY <1>1, <1>5 DEF ExtendRounds, n

\* The k-th of the numbers to n without p.
LEMMA NthButOne ==
    ASSUME NEW n \in Nat, NEW p \in 1 .. n
    PROVE  LET S == (1 .. n) \ {p}
           IN  /\ Cardinality(S) = n - 1
               /\ \A k \in 1 .. n - 1 : Nth(S, k) = IF k < p THEN k ELSE k + 1
<1> DEFINE S == (1 .. n) \ {p}
<1>1. Cardinality(S) = n - 1
  <2>1. IsFiniteSet(1 .. n) /\ Cardinality(1 .. n) = n
    BY FS_Interval
  <2> QED BY <2>1, FS_RemoveElement
<1>2. ASSUME NEW k \in 1 .. n - 1
      PROVE  Nth(S, k) = IF k < p THEN k ELSE k + 1
  <2> DEFINE q == Nth(S, k)
  <2>1. q \in S /\ Cardinality({r \in S : r <= q}) = k
    <3>1. S \in SUBSET (1 .. n) /\ k \in 1 .. Cardinality(S)
      BY <1>1
    <3> HIDE DEF S
    <3> QED BY <3>1, NthIn
  <2> HIDE DEF q
  <2>2. q \in 1 .. n /\ q # p
    BY <2>1
  <2>3. IsFiniteSet(1 .. q) /\ Cardinality(1 .. q) = q
    BY <2>2, FS_Interval
  <2>4. CASE q < p
    <3>1. {r \in S : r <= q} = 1 .. q
      BY <2>2, <2>4
    <3> QED BY <2>1, <2>3, <2>4, <3>1 DEF q
  <2>5. CASE q > p
    <3>1. {r \in S : r <= q} = (1 .. q) \ {p} /\ p \in 1 .. q
      BY <2>2, <2>5
    <3>2. Cardinality((1 .. q) \ {p}) = q - 1
      BY <2>3, <3>1, FS_RemoveElement
    <3>3. k = q - 1
      BY <2>1, <3>1, <3>2
    <3> QED BY <2>2, <2>5, <3>3 DEF q
  <2> QED BY <2>2, <2>4, <2>5
<1> QED BY <1>1, <1>2

\* Deleting the item at one position.
Without(x, w, p) ==
    /\ Len(x) = Len(w) - 1
    /\ \A j \in 1 .. Len(w) - 1 : x[j] = IF j < p THEN w[j] ELSE w[j + 1]

LEMMA DelOne ==
    ASSUME NEW c, Accepted(c), NEW cur \in 0 .. Len(c) - 1
    PROVE  /\ Accepted(DelImpl(c, {cur})) /\ Len(DelImpl(c, {cur})) = Len(c) - 1
           /\ Values(DelImpl(c, {cur})) \in Seq(Val)
           /\ Without(Values(DelImpl(c, {cur})), Values(c), cur + 1)
<1> DEFINE d == DelImpl(c, {cur})
           K == Kept(c, {cur})
           n == Len(c)
           p == cur + 1
<1>1. n \in Nat /\ DOMAIN c = 1 .. n /\ p \in 1 .. n
  BY DEF Accepted
<1>2. K = (1 .. n) \ {p}
  BY <1>1 DEF Kept
<1>3. /\ Accepted(d) /\ Len(d) = Cardinality(K)
      /\ Values(d) = [k \in 1 .. Cardinality(K) |-> Values(c)[Nth(K, k)]]
  <2> DEFINE S == {cur}
  <2> HIDE DEF S
  <2>1. /\ Accepted(DelImpl(c, S)) /\ Len(DelImpl(c, S)) = Cardinality(Kept(c, S))
        /\ Values(DelImpl(c, S)) =
              [k \in 1 .. Cardinality(Kept(c, S)) |-> Values(c)[Nth(Kept(c, S), k)]]
    BY DelIs
  <2> QED BY <2>1 DEF S
<1>4. Values(c) \in Seq(Val) /\ Len(Values(c)) = n
  BY ValuesAre
<1> HIDE DEF d, K, n, p
<1>5. Values(d) \in Seq(Val) /\ Len(Values(d)) = Len(d)
  BY <1>3, ValuesAre
<1>6. Cardinality(K) = n - 1 /\ \A k \in 1 .. n - 1 : Nth(K, k) = IF k < p THEN k ELSE k + 1
  BY <1>1, <1>2, NthButOne
<1>7. \A k \in 1 .. n - 1 : Values(d)[k] = IF k < p THEN Values(c)[k] ELSE Values(c)[k + 1]
  BY <1>3, <1>6
<1>8. Without(Values(d), Values(c), p)
  BY <1>3, <1>4, <1>5, <1>6, <1>7 DEF Without
<1> QED BY <1>3, <1>5, <1>6, <1>8 DEF d, n, p

\* x is old, with s items of vs in the place of g items of old from position start on.
Patched(x, old, vs, start, s, g) ==
    /\ x \in Seq(Val) /\ Len(x) = Len(old) + s - g
    /\ \A j \in 1 .. Len(x) : x[j] = IF j <= start THEN old[j]
                                     ELSE IF j <= start + s THEN vs[j - start]
                                     ELSE old[j - s + g]

\* Numbers of a patch.
Patch(old, vs, start, s, g) ==
    /\ old \in Seq(Val) /\ vs \in Seq(Val)
    /\ start \in Nat /\ s \in 0 .. Len(vs) /\ g \in Nat /\ start + g <= Len(old)

LEMMA PatchDelete ==
    ASSUME NEW old, NEW vs, NEW start, NEW s, NEW g, Patch(old, vs, start, s, g + 1), g \in Nat,
           NEW x, Patched(x, old, vs, start, s, g),
           NEW y \in Seq(Val), Without(y, x, start + s + 1)
    PROVE  Patched(y, old, vs, start, s, g + 1)
<1> DEFINE n == Len(old)
           lx == Len(x)
<1>1. n \in Nat /\ start \in Nat /\ s \in Nat /\ g \in Nat /\ start + g + 1 <= n
  BY DEF Patch
<1>2. Len(y) = lx - 1 /\ lx = n + s - g /\ lx \in Nat
  BY <1>1 DEF Without, Patched
<1> HIDE DEF n, lx
<1>3. ASSUME NEW j \in 1 .. Len(y)
      PROVE  y[j] = IF j <= start THEN old[j]
                    ELSE IF j <= start + s THEN vs[j - start]
                    ELSE old[j - s + (g + 1)]
  <2>1. j \in 1 .. lx - 1 /\ j \in 1 .. lx /\ j + 1 \in 1 .. lx
    BY <1>2
  <2>2. y[j] = IF j < start + s + 1 THEN x[j] ELSE x[j + 1]
    BY <2>1 DEF Without, lx
  <2>3. CASE j < start + s + 1
    <3>1. j <= start + s
      BY <1>1, <2>1, <2>3
    <3> QED BY <2>1, <2>2, <2>3, <3>1 DEF Patched, lx
  <2>4. CASE ~(j < start + s + 1)
    <3>1. ~(j + 1 <= start) /\ ~(j + 1 <= start + s) /\ ~(j <= start) /\ ~(j <= start + s)
          /\ (j + 1) - s + g = j - s + (g + 1)
      BY <1>1, <2>1, <2>4
    <3>2. x[j + 1] = old[(j + 1) - s + g]
      <4> DEFINE i == j + 1
      <4>1. i \in 1 .. Len(x) /\ ~(i <= start) /\ ~(i <= start + s)
        BY <2>1, <3>1 DEF lx
      <4> HIDE DEF i
      <4>2. x[i] = old[i - s + g]
        BY <4>1 DEF Patched
      <4>3. i = j + 1
        BY DEF i
      <4> QED BY <4>2, <4>3
    <3> QED BY <2>2, <2>4, <3>1, <3>2
  <2> QED BY <2>3, <2>4
<1>4. Len(y) = Len(old) + s - (g + 1)
  BY <1>1, <1>2 DEF n
<1> QED BY <1>3, <1>4 DEF Patched

LEMMA PatchInsert ==
    ASSUME NEW old, NEW vs, NEW start, NEW s, NEW g, Patch(old, vs, start, s + 1, g), s \in Nat,
           NEW x, Patched(x, old, vs, start, s, g)
    PROVE  Patched(InsertAt(x, start + s + 1, vs[s + 1]), old, vs, start, s + 1, g)
<1> DEFINE n == Len(old)
           lx == Len(x)
           v == vs[s + 1]
           p == start + s + 1
           y == InsertAt(x, p, v)
<1>1. n \in Nat /\ start \in Nat /\ s \in Nat /\ g \in Nat /\ start + g <= n /\ v \in Val
  BY DEF Patch
<1>2. x \in Seq(Val) /\ lx = n + s - g /\ lx \in Nat /\ p \in 1 .. lx + 1
  BY <1>1 DEF Patched
<1> HIDE DEF n, v
<1>3. /\ y \in Seq(Val) /\ Len(y) = lx + 1
      /\ \A j \in 1 .. lx + 1 : y[j] = IF j < p THEN x[j] ELSE IF j = p THEN v ELSE x[j - 1]
  <2> HIDE DEF p
  <2> QED BY <1>1, <1>2, InsertedValues
<1> HIDE DEF lx, y
<1>4. ASSUME NEW j \in 1 .. Len(y)
      PROVE  y[j] = IF j <= start THEN old[j]
                    ELSE IF j <= start + (s + 1) THEN vs[j - start]
                    ELSE old[j - (s + 1) + g]
  <2>1. j \in 1 .. lx + 1
    BY <1>3
  <2>2. CASE j < p
    <3>1. j \in 1 .. lx /\ j <= start + s /\ j <= start + (s + 1)
      BY <1>1, <1>2, <2>1, <2>2
    <3>2. x[j] = IF j <= start THEN old[j] ELSE vs[j - start]
      BY <3>1 DEF Patched, lx
    <3>3. y[j] = x[j]
      BY <1>3, <2>1, <2>2
    <3> QED BY <3>1, <3>2, <3>3
  <2>3. CASE j = p
    <3>1. ~(j <= start) /\ j <= start + (s + 1) /\ j - start = s + 1 /\ ~(j < p)
      BY <1>1, <2>3
    <3>2. y[j] = v
      BY <1>3, <2>1, <2>3, <3>1
    <3> QED BY <3>1, <3>2 DEF v
  <2>4. CASE j > p
    <3>1. /\ j - 1 \in 1 .. lx /\ ~(j - 1 <= start) /\ ~(j - 1 <= start + s)
          /\ ~(j <= start) /\ ~(j <= start + (s + 1)) /\ j - 1 - s + g = j - (s + 1) + g
          /\ ~(j < p) /\ j # p
      BY <1>1, <1>2, <2>1, <2>4
    <3>2. x[j - 1] = old[j - 1 - s + g]
      BY <3>1 DEF Patched, lx
    <3>3. y[j] = x[j - 1]
      BY <1>3, <2>1, <3>1
    <3> QED BY <3>1, <3>2, <3>3
  <2> QED BY <1>1, <1>2, <2>1, <2>2, <2>3, <2>4
<1>5. Len(y) = Len(old) + (s + 1) - g
  BY <1>1, <1>2, <1>3 DEF n
<1>6. Patched(y, old, vs, start, s + 1, g)
  BY <1>3, <1>4, <1>5 DEF Patched
<1> QED BY <1>6 DEF y, p, v

\* All of vs in the place of g items.
LEMMA PatchedIs ==
    ASSUME NEW old, NEW vs, NEW start, NEW g, Patch(old, vs, start, Len(vs), g),
           NEW x, Patched(x, old, vs, start, Len(vs), g)
    PROVE  x = SubSeq(old, 1, start) \o vs \o SubSeq(old, start + g + 1, Len(old))
<1> DEFINE n == Len(old)
           m == Len(vs)
           a == SubSeq(old, 1, start)
           b == SubSeq(old, start + g + 1, n)
           t == a \o vs
           y == t \o b
<1>1. /\ old \in Seq(Val) /\ vs \in Seq(Val) /\ n \in Nat /\ m \in Nat /\ start \in Nat /\ g \in Nat
      /\ start + g <= n
  BY DEF Patch
<1>2. x \in Seq(Val) /\ Len(x) = n + m - g
  BY DEF Patched
<1>3. a \in Seq(Val) /\ Len(a) = start /\ \A j \in 1 .. start : a[j] = old[j]
  BY <1>1
<1>4. /\ b \in Seq(Val) /\ Len(b) = n - start - g
      /\ \A j \in 1 .. n - start - g : b[j] = old[start + g + j]
  BY <1>1
<1> HIDE DEF a, b
<1>5. /\ t \in Seq(Val) /\ Len(t) = start + m
      /\ \A j \in 1 .. start + m : t[j] = IF j <= start THEN a[j] ELSE vs[j - start]
  <2>1. /\ t \in Seq(Val) /\ Len(t) = Len(a) + Len(vs)
        /\ \A j \in 1 .. Len(a) + Len(vs) : t[j] = IF j <= Len(a) THEN a[j] ELSE vs[j - Len(a)]
    BY <1>1, <1>3, ConcatProperties
  <2> HIDE DEF t
  <2> QED BY <1>3, <2>1
<1> HIDE DEF t
<1>6. /\ y \in Seq(Val) /\ Len(y) = n + m - g
      /\ \A j \in 1 .. n + m - g : y[j] = IF j <= start + m THEN t[j] ELSE b[j - (start + m)]
  <2>1. /\ y \in Seq(Val) /\ Len(y) = Len(t) + Len(b)
        /\ \A j \in 1 .. Len(t) + Len(b) : y[j] = IF j <= Len(t) THEN t[j] ELSE b[j - Len(t)]
    BY <1>4, <1>5, ConcatProperties
  <2>2. Len(t) + Len(b) = n + m - g
    BY <1>1, <1>4, <1>5
  <2> HIDE DEF y
  <2> QED BY <1>5, <2>1, <2>2
<1> HIDE DEF y
<1>7. ASSUME NEW j \in 1 .. n + m - g PROVE x[j] = y[j]
  <2>1. x[j] = IF j <= start THEN old[j]
               ELSE IF j <= start + m THEN vs[j - start]
               ELSE old[j - m + g]
    BY <1>2 DEF Patched
  <2>2. CASE j <= start
    <3>1. j \in 1 .. start /\ j \in 1 .. start + m /\ j <= start + m
      BY <1>1, <2>2
    <3> QED BY <1>3, <1>5, <1>6, <2>1, <3>1
  <2>3. CASE ~(j <= start) /\ j <= start + m
    <3>1. j \in 1 .. start + m
      BY <1>1, <2>3
    <3> QED BY <1>5, <1>6, <2>1, <2>3, <3>1
  <2>4. CASE ~(j <= start) /\ ~(j <= start + m)
    <3>1. j - (start + m) \in 1 .. n - start - g /\ start + g + (j - (start + m)) = j - m + g
      BY <1>1, <2>4
    <3> QED BY <1>4, <1>6, <2>1, <2>4, <3>1
  <2> QED BY <1>1, <2>2, <2>3, <2>4
<1>8. x = y
  BY <1>2, <1>6, <1>7, SeqEqual
<1> QED BY <1>8 DEF y, t, a, b, n

\* What a round makes of the values x: the item at its position goes, and the next
\* new item, if there is one, comes there.
TurnMakes(t, w, x, cur, vs, k) ==
    \E y \in Seq(Val) :
        /\ Without(y, x, cur + 1)
        /\ IF k <= Len(vs)
           THEN Values(t.c) = InsertAt(y, cur + 1, vs[k]) /\ t.cur = cur /\ t.removed = w.removed
           ELSE Values(t.c) = y /\ t.removed = w.removed + 1

LEMMA InsertValues ==
    ASSUME NEW c, Accepted(c), NEW i \in 0 .. Len(c), NEW v \in Val, ~Rejects(v), NoNode \notin Val
    PROVE  Values(InsertImpl(c, i, v).c) = InsertAt(Values(c), i + 1, v)
<1> DEFINE r == InsertImpl(c, i, v)
           p == Clipped(c, i)
<1>1. i \in Int /\ Len(c) \in Nat
  BY DEF Accepted
<1>2. r.ok <=> ~Rejects(v)
  BY <1>1, InsertIs
<1>3. r.ok => Values(r.c) = InsertAt(Values(c), p + 1, v)
  BY <1>1, InsertIs
<1>4. p = i
  <2>1. ~(i < 0) /\ i <= Len(c)
    BY <1>1
  <2> QED BY <1>1, <2>1, MinOfTwo DEF Clipped
<1> HIDE DEF r, p
<1> QED BY <1>2, <1>3, <1>4 DEF r

LEMMA TurnValues ==
    ASSUME NEW at \in Seq(Int), NEW vs \in Seq(Val), NEW w \in Work, NEW k \in DOMAIN at,
           NoNode \notin Val, NEW cur, cur = at[k] - w.removed, cur \in 0 .. Len(w.c) - 1,
           \A i \in DOMAIN vs : ~Rejects(vs[i])
    PROVE  TurnMakes(Turn(at, vs, w, k), w, Values(w.c), cur, vs, k)
<1> DEFINE x == w.c
           deleted == DelImpl(x, {cur})
           y == Values(deleted)
           t == Turn(at, vs, w, k)
<1>1. /\ Accepted(x) /\ Len(x) \in Nat
      /\ w = [c |-> w.c, cur |-> w.cur, removed |-> w.removed]
  BY DEF Work, Accepted
<1>2. cur \in 0 .. Len(x) - 1 /\ cur \in Int /\ k \in Nat \ {0}
  BY <1>1
<1>3. t = IF k <= Len(vs)
          THEN [w EXCEPT !.c = InsertImpl(deleted, cur, vs[k]).c, !.cur = cur]
          ELSE [c |-> deleted, cur |-> cur, removed |-> w.removed + 1]
  BY DEF Turn
<1> HIDE DEF t, x
<1>4. /\ Accepted(deleted) /\ Len(deleted) = Len(x) - 1 /\ y \in Seq(Val)
      /\ Without(y, Values(x), cur + 1)
  BY <1>1, <1>2, DelOne
<1> HIDE DEF deleted
<1>5. CASE k <= Len(vs)
  <2> DEFINE v == vs[k]
             r == InsertImpl(deleted, cur, v)
  <2>1. v \in Val /\ ~Rejects(v)
    BY <1>2, <1>5
  <2>2. t = [w EXCEPT !.c = r.c, !.cur = cur]
    BY <1>3, <1>5
  <2> HIDE DEF v
  <2>3. cur \in 0 .. Len(deleted)
    BY <1>1, <1>2, <1>4
  <2>4. Values(r.c) = InsertAt(y, cur + 1, v)
    BY <1>4, <2>1, <2>3, InsertValues
  <2> HIDE DEF r
  <2>7. t = [c |-> r.c, cur |-> cur, removed |-> w.removed]
    BY <1>1, <2>2
  <2>8. Values(t.c) = InsertAt(y, cur + 1, v) /\ t.cur = cur /\ t.removed = w.removed
    BY <2>4, <2>7
  <2> HIDE DEF y
  <2> QED BY <1>4, <1>5, <2>8 DEF TurnMakes, v, t, x
<1>6. CASE ~(k <= Len(vs))
  <2>1. Values(t.c) = y /\ t.removed = w.removed + 1
    BY <1>3, <1>6
  <2> HIDE DEF y
  <2> QED BY <1>4, <1>6, <2>1 DEF TurnMakes, t, x
<1> QED BY <1>5, <1>6

LEMMA AddValues ==
    ASSUME NEW vs \in Seq(Val), NEW w \in Work, NEW k \in DOMAIN vs, NoNode \notin Val,
           ~Rejects(vs[k]), w.cur + 1 \in 0 .. Len(w.c)
    PROVE  /\ Values(Add(vs, w, k).c) = InsertAt(Values(w.c), (w.cur + 1) + 1, vs[k])
           /\ Add(vs, w, k).cur = w.cur + 1
<1> DEFINE i == w.cur + 1
           t == Add(vs, w, k)
           v == vs[k]
           x == w.c
           r == InsertImpl(x, i, v)
<1>1. /\ Accepted(x) /\ Len(x) \in Nat /\ i \in Int /\ i \in 0 .. Len(x) /\ v \in Val
      /\ w = [c |-> w.c, cur |-> w.cur, removed |-> w.removed]
  BY DEF Work, Accepted
<1>2. t = [c |-> r.c, cur |-> i, removed |-> w.removed]
  <2>1. t = [w EXCEPT !.c = r.c, !.cur = i]
    BY DEF Add
  <2> HIDE DEF t, r, i
  <2> QED BY <1>1, <2>1
<1>3. ~Rejects(v)
  OBVIOUS
<1> HIDE DEF i, v, t, x
<1>4. Values(r.c) = InsertAt(Values(x), i + 1, v)
  BY <1>1, <1>3, InsertValues
<1> HIDE DEF r
<1>5. Values(t.c) = InsertAt(Values(x), i + 1, v) /\ t.cur = i
  BY <1>2, <1>4
<1> QED BY <1>5 DEF t, i, v, x

\* A run of positions from start on: vs takes the place of the items there.
LEMMA SplicedRun ==
    ASSUME NEW c, Accepted(c), NEW start \in Nat, NEW at \in Seq(Int), NEW vs \in Seq(Val),
           NoNode \notin Val, \A i \in DOMAIN vs : ~Rejects(vs[i]),
           \A k \in DOMAIN at : at[k] = start + (k - 1), start + Len(at) <= Len(c)
    PROVE  Patched(Values(Spliced(c, start, at, vs)), Values(c), vs, start, Len(vs), Len(at))
<1> DEFINE w == Started(c, start)
           nt == Len(at)
           nv == Len(vs)
           na == Extra(at, vs)
           old == Values(c)
           n == Len(c)
<1>1. w \in Work /\ w.c = c /\ w.cur = start - 1 /\ w.removed = 0
  BY DEF Started, Work, Accepted
<1>2. /\ nt \in Nat /\ nv \in Nat /\ na \in Nat /\ n \in Nat /\ start + nt <= n
      /\ DOMAIN at = 1 .. nt /\ DOMAIN vs = 1 .. nv
      /\ na = IF nv > nt THEN nv - nt ELSE 0
  BY DEF Extra, Accepted
<1>3. old \in Seq(Val) /\ Len(old) = n
  BY ValuesAre
<1> HIDE DEF w
<1>4. PICK d : TurnedRounds(d, at, vs, w)
  BY <1>1, TurnedIs
<1>5. d[nt] = Turned(at, vs, w) /\ d[nt] \in Work
  <2>1. nt \in 0 .. nt
    BY <1>2
  <2> QED BY <1>4, <2>1 DEF TurnedRounds
<1>6. PICK e : AddedRounds(e, at, vs, d[nt])
  BY <1>5, AddedIs
<1>7. e[na] = Added(at, vs, d[nt])
  BY <1>6 DEF AddedRounds
<1> HIDE DEF nt, nv, na, n, old
<1>8. \A s \in 0 .. nv : \A g \in 0 .. nt : Patch(old, vs, start, s, g)
  <2> TAKE s \in 0 .. nv
  <2> TAKE g \in 0 .. nt
  <2>1. g \in Nat /\ g <= nt /\ start \in Nat
    BY <1>2
  <2>2. start + g <= n
    BY <1>2, <2>1
  <2>3. s \in 0 .. Len(vs)
    BY DEF nv
  <2> QED BY <1>3, <2>1, <2>2, <2>3 DEF Patch
<1> DEFINE Turning(k) == /\ d[k].removed = k - Smaller(k, nv)
                         /\ k <= nv => d[k].cur = start + k - 1
                         /\ Patched(Values(d[k].c), old, vs, start, Smaller(k, nv), k)
           T == {k \in 0 .. nt : Turning(k)}
           Adding(k) == /\ e[k].cur = start + (nt + k) - 1
                        /\ Patched(Values(e[k].c), old, vs, start, nt + k, nt)
           U == {k \in 0 .. na : Adding(k)}
<1>9. 0 \in T
  <2>1. d[0] = w /\ Smaller(0, nv) = 0 /\ Values(c) = old
    BY <1>2, <1>4 DEF TurnedRounds, Smaller, old
  <2>2. Patched(old, old, vs, start, 0, 0)
    BY <1>3 DEF Patched
  <2>3. Turning(0)
    <3> HIDE DEF Patched
    <3> QED BY <1>1, <2>1, <2>2
  <2> HIDE DEF Turning
  <2> QED BY <1>2, <2>3
<1>10. ASSUME NEW k \in 0 .. nt - 1, k \in T PROVE k + 1 \in T
  <2>1. k \in 0 .. nt /\ k + 1 \in 0 .. nt /\ k + 1 \in DOMAIN at /\ k \in Nat /\ at[k + 1] = start + k
    <3>1. k \in 0 .. nt /\ k + 1 \in 0 .. nt /\ k + 1 \in DOMAIN at /\ k \in Nat
      BY <1>2
    <3>2. at[k + 1] = start + ((k + 1) - 1)
      BY <3>1
    <3> QED BY <3>1, <3>2
  <2>2. d[k] \in Work /\ d[k + 1] = Turn(at, vs, d[k], k + 1)
    BY <1>4, <2>1 DEF TurnedRounds, nt
  <2>3. Turning(k)
    BY <1>10
  <2> DEFINE s == Smaller(k, nv)
             x == Values(d[k].c)
             cur == start + s
  <2>4. s \in 0 .. nv /\ s <= k
    BY <1>2, <2>1 DEF Smaller
  <2>5. Patched(x, old, vs, start, s, k) /\ cur = at[k + 1] - d[k].removed
    BY <2>1, <2>3, <2>4
  <2>6. Len(x) = Len(d[k].c)
    BY <2>2, ValuesAre DEF Work
  <2>7. cur \in 0 .. Len(d[k].c) - 1
    <3>1. Len(x) = n + s - k
      BY <1>3, <2>5 DEF Patched
    <3> HIDE DEF x, s
    <3> QED BY <1>2, <2>1, <2>4, <2>6, <3>1
  <2>8. TurnMakes(d[k + 1], d[k], x, cur, vs, k + 1)
    <3> HIDE DEF cur
    <3> QED BY <2>1, <2>2, <2>5, <2>7, TurnValues
  <2> HIDE DEF x, s
  <2>9. PICK y \in Seq(Val) :
            /\ Without(y, x, cur + 1)
            /\ IF k + 1 <= nv
               THEN /\ Values(d[k + 1].c) = InsertAt(y, cur + 1, vs[k + 1])
                    /\ d[k + 1].cur = cur /\ d[k + 1].removed = d[k].removed
               ELSE Values(d[k + 1].c) = y /\ d[k + 1].removed = d[k].removed + 1
    BY <2>8 DEF TurnMakes, nv
  <2>10. Patched(y, old, vs, start, s, k + 1)
    <3>1. Patch(old, vs, start, s, k + 1)
      BY <1>8, <2>1, <2>4
    <3> QED BY <2>1, <2>5, <2>9, <3>1, PatchDelete
  <2>11. CASE k + 1 <= nv
    <3>1. s = k /\ Smaller(k + 1, nv) = k + 1
      BY <1>2, <2>1, <2>11 DEF Smaller, s
    <3>2. Patched(InsertAt(y, start + s + 1, vs[s + 1]), old, vs, start, s + 1, k + 1)
      <4>1. Patch(old, vs, start, s + 1, k + 1) /\ s \in Nat
        BY <1>2, <1>8, <2>1, <2>11, <3>1
      <4> QED BY <2>10, <4>1, PatchInsert
    <3>3. Turning(k + 1)
      <4>1. Patched(Values(d[k + 1].c), old, vs, start, k + 1, k + 1)
        BY <2>9, <2>11, <3>1, <3>2
      <4>2. d[k + 1].removed = 0
        BY <2>1, <2>3, <2>9, <2>11, <3>1 DEF s
      <4>3. d[k + 1].cur = start + k
        BY <2>9, <2>11, <3>1
      <4> HIDE DEF Patched
      <4> QED BY <2>1, <3>1, <4>1, <4>2, <4>3
    <3> HIDE DEF Turning
    <3> QED BY <2>1, <3>3
  <2>12. CASE ~(k + 1 <= nv)
    <3>1. s = nv /\ Smaller(k + 1, nv) = nv
      BY <1>2, <2>1, <2>12 DEF Smaller, s
    <3>2. d[k + 1].removed = (k + 1) - nv
      BY <1>2, <2>1, <2>3, <2>9, <2>12, <3>1 DEF s
    <3>3. Patched(Values(d[k + 1].c), old, vs, start, nv, k + 1)
      BY <2>9, <2>10, <2>12, <3>1
    <3>4. Turning(k + 1)
      BY <2>12, <3>1, <3>2, <3>3
    <3> HIDE DEF Turning
    <3> QED BY <2>1, <3>4
  <2> QED BY <2>11, <2>12
<1>11. Turning(nt)
  <2>1. \A k \in 0 .. nt : k \in T
    <3> HIDE DEF T
    <3> QED BY <1>2, <1>9, <1>10, InductionTo
  <2> HIDE DEF Turning
  <2> QED BY <1>2, <2>1
<1>12. CASE nv > nt
  <2>0. na = nv - nt
    BY <1>2, <1>12
  <2>1. 0 \in U
    <3>1. e[0] = d[nt] /\ Smaller(nt, nv) = nt /\ nt <= nv
      BY <1>2, <1>6, <1>12 DEF AddedRounds, Smaller
    <3>2. nt + 0 = nt
      BY <1>2
    <3>3. Adding(0)
      BY <1>11, <3>1, <3>2
    <3> HIDE DEF Adding
    <3> QED BY <1>2, <3>3
  <2>2. ASSUME NEW k \in 0 .. na - 1, k \in U PROVE k + 1 \in U
    <3>1. /\ k \in 0 .. na /\ k + 1 \in 0 .. na /\ k \in Nat
          /\ nt + (k + 1) \in DOMAIN vs /\ nt + k \in Nat /\ nt + (k + 1) \in 0 .. nv
          /\ nt + (k + 1) = (nt + k) + 1
      BY <1>2, <2>0
    <3>2. e[k] \in Work /\ e[k + 1] = Add(vs, e[k], nt + (k + 1))
      BY <1>6, <3>1 DEF AddedRounds, na, nt
    <3>3. Adding(k)
      BY <2>2
    <3> DEFINE x == Values(e[k].c)
               s == nt + k
    <3>4. Patched(x, old, vs, start, s, nt) /\ e[k].cur + 1 = start + s
      BY <1>2, <3>1, <3>3
    <3>5. Len(x) = Len(e[k].c)
      BY <3>2, ValuesAre DEF Work
    <3>6. e[k].cur + 1 \in 0 .. Len(e[k].c)
      <4>1. Len(x) = n + s - nt
        BY <1>3, <3>4 DEF Patched
      <4>2. e[k].cur + 1 = start + (nt + k)
        BY <3>4
      <4> HIDE DEF x
      <4>3. Len(e[k].c) = n + k
        BY <1>2, <3>1, <3>5, <4>1
      <4>4. n + k \in Nat /\ start + (nt + k) \in 0 .. n + k
        <5> HIDE DEF s
        <5> QED BY <1>2, <3>1
      <4> QED BY <4>2, <4>3, <4>4
    <3>7. /\ Values(e[k + 1].c) = InsertAt(x, (e[k].cur + 1) + 1, vs[nt + (k + 1)])
          /\ e[k + 1].cur = e[k].cur + 1
      <4> DEFINE i == nt + (k + 1)
      <4>1. i \in DOMAIN vs /\ ~Rejects(vs[i])
        BY <3>1
      <4>2. e[k + 1] = Add(vs, e[k], i)
        BY <3>2
      <4> HIDE DEF i
      <4>3. /\ Values(Add(vs, e[k], i).c) = InsertAt(Values(e[k].c), (e[k].cur + 1) + 1, vs[i])
            /\ Add(vs, e[k], i).cur = e[k].cur + 1
        BY <3>2, <3>6, <4>1, AddValues
      <4> QED BY <4>2, <4>3 DEF i
    <3>8. Patched(InsertAt(x, start + s + 1, vs[s + 1]), old, vs, start, s + 1, nt)
      <4>1. Patch(old, vs, start, s + 1, nt) /\ s \in Nat
        BY <1>2, <1>8, <3>1
      <4> HIDE DEF x, s
      <4> QED BY <3>4, <4>1, PatchInsert
    <3>9. Adding(k + 1)
      <4>1. Patched(Values(e[k + 1].c), old, vs, start, nt + (k + 1), nt)
        BY <3>1, <3>4, <3>7, <3>8
      <4>2. e[k + 1].cur = start + (nt + (k + 1)) - 1
        BY <1>2, <3>1, <3>3, <3>7
      <4> HIDE DEF Patched
      <4> QED BY <4>1, <4>2
    <3> HIDE DEF Adding
    <3> QED BY <3>1, <3>9
  <2>3. \A k \in 0 .. na : k \in U
    <3> HIDE DEF U
    <3> QED BY <1>2, <2>1, <2>2, InductionTo
  <2>4. Adding(na)
    <3> HIDE DEF Adding
    <3> QED BY <1>2, <2>3
  <2>5. nt + na = nv
    BY <1>2, <2>0
  <2>6. Patched(Values(e[na].c), old, vs, start, nv, nt)
    BY <2>4, <2>5
  <2> QED BY <1>5, <1>7, <2>6, SplicedIs DEF w, nt, nv, old
<1>13. CASE ~(nv > nt)
  <2>1. na = 0 /\ Smaller(nt, nv) = nv
    BY <1>2, <1>13 DEF Smaller
  <2>2. e[na] = d[nt]
    BY <1>6, <2>1 DEF AddedRounds
  <2>3. Patched(Values(e[na].c), old, vs, start, nv, nt)
    BY <1>11, <2>1, <2>2
  <2> QED BY <1>5, <1>7, <2>3, SplicedIs DEF w, nt, nv, old
<1> QED BY <1>12, <1>13

\* Storing v at one position.
LEMMA ReplacedAt ==
    ASSUME NEW x \in Seq(Val), NEW p \in 1 .. Len(x), NEW v \in Val,
           NEW y \in Seq(Val), Without(y, x, p)
    PROVE  /\ InsertAt(y, p, v) \in Seq(Val) /\ Len(InsertAt(y, p, v)) = Len(x)
           /\ InsertAt(y, p, v)[p] = v
           /\ \A j \in 1 .. Len(x) : j # p => InsertAt(y, p, v)[j] = x[j]
<1> DEFINE z == InsertAt(y, p, v)
           n == Len(x)
<1>1. n \in Nat /\ Len(y) = n - 1 /\ p \in 1 .. Len(y) + 1
  BY DEF Without
<1>2. /\ z \in Seq(Val) /\ Len(z) = Len(y) + 1
      /\ \A j \in 1 .. Len(y) + 1 : z[j] = IF j < p THEN y[j] ELSE IF j = p THEN v ELSE y[j - 1]
  BY ZenonT(60), <1>1, InsertedValues
<1> HIDE DEF z
<1>3. Len(z) = n /\ z[p] = v
  BY <1>1, <1>2
<1>4. ASSUME NEW j \in 1 .. n, j # p PROVE z[j] = x[j]
  <2>1. CASE j < p
    <3>1. j \in 1 .. n - 1 /\ j \in 1 .. Len(y) + 1
      BY <1>1, <2>1
    <3> QED BY <1>2, <2>1, <3>1 DEF Without
  <2>2. CASE j > p
    <3>1. j - 1 \in 1 .. n - 1 /\ ~(j - 1 < p) /\ ~(j < p) /\ (j - 1) + 1 = j /\ j \in 1 .. Len(y) + 1
      BY <1>1, <2>2
    <3>2. z[j] = y[j - 1]
      BY <1>2, <1>4, <3>1
    <3>3. y[j - 1] = x[(j - 1) + 1]
      BY <3>1 DEF Without
    <3> QED BY <3>1, <3>2, <3>3
  <2> QED BY <1>1, <1>4, <2>1, <2>2
<1> QED BY <1>2, <1>3, <1>4 DEF z, n

\* x is old with the first t items of vs at the first t positions of at.
Placed(x, old, at, vs, t) ==
    /\ x \in Seq(Val) /\ Len(x) = Len(old)
    /\ \A i \in 1 .. t : x[at[i] + 1] = vs[i]
    /\ \A p \in 1 .. Len(old) : (\A i \in 1 .. t : at[i] # p - 1) => x[p] = old[p]

\* As many new items as positions: each goes to one of them.
LEMMA SplicedEach ==
    ASSUME NEW c, Accepted(c), NEW start \in Int, NEW at \in Seq(Int), NEW vs \in Seq(Val),
           NoNode \notin Val, \A i \in DOMAIN vs : ~Rejects(vs[i]), Len(at) = Len(vs),
           \A k \in DOMAIN at : at[k] \in 0 .. Len(c) - 1,
           \A i, k \in DOMAIN at : at[i] = at[k] => i = k
    PROVE  Placed(Values(Spliced(c, start, at, vs)), Values(c), at, vs, Len(at))
<1> DEFINE w == Started(c, start)
           nt == Len(at)
           na == Extra(at, vs)
           old == Values(c)
           n == Len(c)
<1>1. w \in Work /\ w.c = c /\ w.removed = 0
  BY DEF Started, Work, Accepted
<1>2. /\ nt \in Nat /\ n \in Nat /\ na = 0
      /\ DOMAIN at = 1 .. nt /\ DOMAIN vs = 1 .. nt
  BY DEF Extra, Accepted
<1>3. old \in Seq(Val) /\ Len(old) = n
  BY ValuesAre
<1> HIDE DEF w
<1>4. PICK d : TurnedRounds(d, at, vs, w)
  BY <1>1, TurnedIs
<1>5. d[nt] = Turned(at, vs, w) /\ d[nt] \in Work
  <2>1. nt \in 0 .. nt
    BY <1>2
  <2> QED BY <1>4, <2>1 DEF TurnedRounds
<1>6. PICK e : AddedRounds(e, at, vs, d[nt])
  BY <1>5, AddedIs
<1>7. d[nt] = Added(at, vs, d[nt])
  BY <1>2, <1>6 DEF AddedRounds
<1> HIDE DEF nt, na, n, old
<1> DEFINE Turning(k) == /\ d[k].removed = 0
                         /\ Placed(Values(d[k].c), old, at, vs, k)
           T == {k \in 0 .. nt : Turning(k)}
<1>8. 0 \in T
  <2>1. d[0] = w /\ Values(c) = old
    BY <1>4 DEF TurnedRounds, old
  <2>2. Placed(old, old, at, vs, 0)
    BY <1>3 DEF Placed
  <2>3. Turning(0)
    <3> HIDE DEF Placed
    <3> QED BY <1>1, <2>1, <2>2
  <2> HIDE DEF Turning
  <2> QED BY <1>2, <2>3
<1>9. ASSUME NEW k \in 0 .. nt - 1, k \in T PROVE k + 1 \in T
  <2>1. k \in 0 .. nt /\ k + 1 \in 0 .. nt /\ k + 1 \in DOMAIN at /\ k \in Nat /\ k + 1 <= Len(vs)
    <3>1. nt = Len(vs)
      BY DEF nt
    <3> QED BY <1>2, <3>1
  <2>2. d[k] \in Work /\ d[k + 1] = Turn(at, vs, d[k], k + 1)
    BY <1>4, <2>1 DEF TurnedRounds, nt
  <2>3. Turning(k)
    BY <1>9
  <2> DEFINE x == Values(d[k].c)
             cur == at[k + 1]
             v == vs[k + 1]
             z == Values(d[k + 1].c)
  <2>4. Placed(x, old, at, vs, k) /\ cur \in Int /\ cur = at[k + 1] - d[k].removed
    BY <2>1, <2>3
  <2>5. Len(x) = Len(d[k].c) /\ x \in Seq(Val) /\ Len(x) = n
    <3>1. Len(x) = Len(d[k].c)
      BY <2>2, ValuesAre DEF Work
    <3> QED BY <1>3, <2>4, <3>1 DEF Placed
  <2>6. cur \in 0 .. Len(d[k].c) - 1 /\ v \in Val
    <3>1. cur \in 0 .. Len(c) - 1
      BY <2>1
    <3>2. Len(c) = Len(d[k].c)
      BY <2>5 DEF n
    <3>3. v \in Val
      BY <1>2, <2>1
    <3> HIDE DEF cur, v, x
    <3> QED BY <3>1, <3>2, <3>3
  <2>7. TurnMakes(d[k + 1], d[k], x, cur, vs, k + 1)
    <3> DEFINE j == k + 1
               u == d[k]
    <3>1. j \in DOMAIN at /\ u \in Work /\ cur = at[j] - u.removed /\ cur \in 0 .. Len(u.c) - 1
      BY <2>1, <2>2, <2>4, <2>6
    <3> HIDE DEF cur, j, u
    <3>2. TurnMakes(Turn(at, vs, u, j), u, Values(u.c), cur, vs, j)
      BY <3>1, TurnValues
    <3> QED BY <2>2, <3>2 DEF j, u
  <2>8. cur + 1 \in 1 .. n
    BY <1>2, <2>5, <2>6
  <2> HIDE DEF x, v
  <2>9. PICK y \in Seq(Val) :
            /\ Without(y, x, cur + 1)
            /\ z = InsertAt(y, cur + 1, v) /\ d[k + 1].removed = d[k].removed
    BY <2>1, <2>7 DEF TurnMakes, v
  <2> HIDE DEF z
  <2>10. /\ z \in Seq(Val) /\ Len(z) = Len(x) /\ z[cur + 1] = v
         /\ \A j \in 1 .. Len(x) : j # cur + 1 => z[j] = x[j]
    <3> DEFINE p == cur + 1
    <3>1. p \in 1 .. Len(x) /\ Without(y, x, p) /\ z = InsertAt(y, p, v) /\ v \in Val
      BY <2>5, <2>6, <2>8, <2>9
    <3> HIDE DEF p
    <3>2. /\ InsertAt(y, p, v) \in Seq(Val) /\ Len(InsertAt(y, p, v)) = Len(x)
          /\ InsertAt(y, p, v)[p] = v
          /\ \A j \in 1 .. Len(x) : j # p => InsertAt(y, p, v)[j] = x[j]
      BY <2>5, <3>1, ReplacedAt
    <3> QED BY <3>1, <3>2 DEF p
  <2>11. ASSUME NEW i \in 1 .. k + 1 PROVE z[at[i] + 1] = vs[i]
    <3>1. CASE i = k + 1
      BY <2>10, <3>1 DEF v
    <3>2. CASE i # k + 1
      <4>1. i \in 1 .. k /\ i \in DOMAIN at
        BY <1>2, <2>1, <3>2
      <4>2. at[i] # at[k + 1] /\ at[i] \in 0 .. n - 1
        BY <2>1, <3>2, <4>1 DEF n
      <4>3. at[i] + 1 # cur + 1 /\ at[i] + 1 \in 1 .. Len(x)
        BY <1>2, <2>4, <2>5, <4>2
      <4>4. x[at[i] + 1] = vs[i]
        BY <2>4, <4>1 DEF Placed
      <4> HIDE DEF cur
      <4> QED BY <2>10, <4>3, <4>4
    <3> QED BY <3>1, <3>2
  <2>12. ASSUME NEW p \in 1 .. Len(old), \A i \in 1 .. k + 1 : at[i] # p - 1
         PROVE  z[p] = old[p]
    <3>1. \A i \in 1 .. k : i \in 1 .. k + 1
      BY <2>1
    <3>2. x[p] = old[p]
      BY <2>4, <2>12, <3>1 DEF Placed
    <3>3. k + 1 \in 1 .. k + 1
      BY <2>1
    <3>4. cur # p - 1
      BY <2>12, <3>3
    <3>5. p \in 1 .. Len(x) /\ p # cur + 1
      <4> HIDE DEF cur
      <4> QED BY <1>3, <2>4, <2>5, <3>4
    <3> HIDE DEF cur
    <3> QED BY <2>10, <3>2, <3>5
  <2>13. Placed(z, old, at, vs, k + 1)
    BY <1>3, <2>5, <2>10, <2>11, <2>12 DEF Placed
  <2>14. Turning(k + 1)
    BY <2>3, <2>9, <2>13 DEF z
  <2> HIDE DEF Turning
  <2> QED BY <2>1, <2>14
<1>10. Turning(nt)
  <2>1. \A k \in 0 .. nt : k \in T
    <3> HIDE DEF T
    <3> QED BY <1>2, <1>8, <1>9, InductionTo
  <2> HIDE DEF Turning
  <2> QED BY <1>2, <2>1
<1> QED BY <1>5, <1>7, <1>10, SplicedIs DEF w, nt, old

-----------------------------------------------------------------------------
(* The positions of a slice.                                                *)

\* What iterating the range gives: Steps apart, each position visited once.
RangeFacts(at, start, stop, step) ==
    /\ at \in Seq(Int)
    /\ \A k \in DOMAIN at : at[k] = start + (k - 1) * step
    /\ step = 1 => Len(at) = IF start <= stop THEN stop - start ELSE 0
    /\ \A i, k \in DOMAIN at : at[i] = at[k] => i = k
    /\ {at[k] : k \in DOMAIN at} = Py!Visited(start, stop, step)

LEMMA RangeIs ==
    ASSUME NEW start \in Int, NEW stop \in Int, NEW step \in {1, -1, 2}
    PROVE  RangeFacts(IndexRange(start, stop, step), start, stop, step)
<1> DEFINE at == IndexRange(start, stop, step)
           q == IF step > 0 THEN (stop - start + step - 1) \div step
                            ELSE (start - stop - step - 1) \div (-step)
           m == Max({0, q})
           V == Py!Visited(start, stop, step)
<1>1. q \in Int /\ m = IF 0 >= q THEN 0 ELSE q
  <2>1. q \in Int
    OBVIOUS
  <2> HIDE DEF q
  <2> QED BY <2>1, MaxOfTwo
<1>2. at = [k \in 1 .. m |-> start + (k - 1) * step]
  BY DEF IndexRange
<1>3. at \in Seq(Int)
  BY IndexRangeIn
<1>4. m \in Nat
  BY <1>1
<1>5. CASE step = 1
  <2>1. q = stop - start
    BY <1>5
  <2>2. V = start .. stop - 1
    BY <1>5 DEF Py!Visited
  <2> HIDE DEF q, m, at, V
  <2>3. DOMAIN at = 1 .. m /\ Len(at) = m /\ \A k \in 1 .. m : at[k] = start + (k - 1)
    BY <1>2, <1>3, <1>4, <1>5
  <2>4. {at[k] : k \in DOMAIN at} = V
    <3>1. ASSUME NEW k \in 1 .. m PROVE at[k] \in V
      BY <1>1, <1>4, <2>1, <2>2, <2>3
    <3>2. ASSUME NEW i \in V PROVE \E k \in 1 .. m : at[k] = i
      <4>1. i - start + 1 \in 1 .. m
        BY <1>1, <1>4, <2>1, <2>2
      <4>2. at[i - start + 1] = i
        BY <2>2, <2>3, <4>1
      <4> QED BY <4>1, <4>2
    <3> QED BY <2>3, <3>1, <3>2
  <2> QED BY <1>1, <1>2, <1>3, <1>5, <2>1, <2>3, <2>4 DEF RangeFacts, at, V
<1>6. CASE step = -1
  <2>1. q = start - stop
    BY <1>6
  <2>2. V = stop + 1 .. start
    BY <1>6 DEF Py!Visited
  <2> HIDE DEF q, m, at, V
  <2>3. DOMAIN at = 1 .. m /\ Len(at) = m /\ \A k \in 1 .. m : at[k] = start - (k - 1)
    BY <1>2, <1>3, <1>4, <1>6
  <2>4. {at[k] : k \in DOMAIN at} = V
    <3>1. ASSUME NEW k \in 1 .. m PROVE at[k] \in V
      BY <1>1, <1>4, <2>1, <2>2, <2>3
    <3>2. ASSUME NEW i \in V PROVE \E k \in 1 .. m : at[k] = i
      <4>1. start - i + 1 \in 1 .. m
        BY <1>1, <1>4, <2>1, <2>2
      <4>2. at[start - i + 1] = i
        BY <2>2, <2>3, <4>1
      <4> QED BY <4>1, <4>2
    <3> QED BY <2>3, <3>1, <3>2
  <2> QED BY <1>1, <1>2, <1>3, <1>6, <2>1, <2>3, <2>4 DEF RangeFacts, at, V
<1>7. CASE step = 2
  <2>1. q = (stop - start + 1) \div 2
    BY <1>7
  <2>2. V = {i \in start .. stop - 1 : (i - start) % 2 = 0}
    BY <1>7 DEF Py!Visited
  <2>3. /\ 2 * q <= stop - start + 1 /\ stop - start <= 2 * q
    BY <2>1
  <2> HIDE DEF q, m, at, V
  <2>4. DOMAIN at = 1 .. m /\ Len(at) = m /\ \A k \in 1 .. m : at[k] = start + (k - 1) * 2
    BY <1>2, <1>3, <1>4, <1>7
  <2>5. {at[k] : k \in DOMAIN at} = V
    <3>1. ASSUME NEW k \in 1 .. m PROVE at[k] \in V
      <4>1. at[k] = start + (k - 1) * 2 /\ k \in Int /\ k >= 1 /\ k <= q
        BY <1>1, <1>4, <2>4
      <4>2. at[k] \in start .. stop - 1
        BY <1>1, <2>3, <4>1
      <4>3. (at[k] - start) % 2 = 0
        BY <4>1
      <4> QED BY <2>2, <4>2, <4>3
    <3>2. ASSUME NEW i \in V PROVE \E k \in 1 .. m : at[k] = i
      <4> DEFINE k == (i - start) \div 2 + 1
      <4>1. i \in start .. stop - 1 /\ (i - start) % 2 = 0
        BY <2>2
      <4>2. k \in Int /\ 2 * (k - 1) = i - start
        BY <4>1
      <4> HIDE DEF k
      <4>3. k \in 1 .. m
        BY <1>1, <2>3, <4>1, <4>2
      <4>4. at[k] = i
        BY <2>4, <4>1, <4>2, <4>3
      <4> QED BY <4>3, <4>4
    <3> QED BY <2>4, <3>1, <3>2
  <2> QED BY <1>1, <1>2, <1>3, <1>7, <2>4, <2>5 DEF RangeFacts, at, V
<1> QED BY <1>5, <1>6, <1>7

\* As many positions as the range is long.
LEMMA VisitedCount ==
    ASSUME NEW start, NEW stop, NEW step, NEW at, RangeFacts(at, start, stop, step)
    PROVE  Py!Cardinality(Py!Visited(start, stop, step)) = Len(at)
<1> DEFINE V == Py!Visited(start, stop, step)
           n == Len(at)
           f == [k \in 1 .. n |-> at[k]]
<1>1. n \in Nat /\ DOMAIN at = 1 .. n
  BY DEF RangeFacts
<1>2. /\ V = {at[k] : k \in 1 .. n}
      /\ \A i, k \in 1 .. n : at[i] = at[k] => i = k
  BY <1>1 DEF RangeFacts
<1> HIDE DEF V, n
<1>3. f \in Bijection(1 .. n, V)
  BY <1>2 DEF Bijection, Injection, Surjection, IsInjective
<1>4. ExistsBijection(1 .. n, V)
  BY <1>3 DEF ExistsBijection
<1>5. Cardinality(V) = n
  BY <1>1, <1>4, FS_CountingElements
<1>6. Py!Cardinality(V) = Cardinality(V)
  BY DEF Py!Cardinality, Cardinality
<1> QED BY <1>5, <1>6 DEF V, n

-----------------------------------------------------------------------------
(* Each step of the list is a step of the abstract one, or leaves it alone. *)

\* The call c of an action, its outcome and what that leaves of the values.
Done(c, r) == call' = c /\ ok' = r.ok /\ Values(content)' = Values(r.c)

LEMMA FinishMaps ==
    ASSUME NEW c, NEW r, Finish(c, r)
    PROVE  Done(c, r)
BY DEF Finish, Done, Values

\* A call that raises and leaves the values.
LEMMA FailureMaps ==
    ASSUME NEW c, NEW r, Done(c, r), r.ok = FALSE, Values(r.c) = Values(content)
    PROVE  Py!Next
BY DEF Done, Py!Next, Py!Failure

LEMMA RaiseMaps == ASSUME NEW c, Raise(c) PROVE Py!Next
<1> DEFINE r == Outcome(content, FALSE)
<1>1. r.c = content /\ r.ok = FALSE
  BY DEF Outcome
<1>2. Done(c, r)
  BY FinishMaps DEF Raise
<1> HIDE DEF r
<1> QED BY <1>1, <1>2, FailureMaps

\* A call that returns.
LEMMA EffectMaps ==
    ASSUME NEW c, NEW r, Done(c, r), r.ok = TRUE, Py!Effect(c)
    PROVE  Py!Next
BY DEF Done, Py!Next

LEMMA SetItemMaps ==
    ASSUME ValAssumption, ItemsAccepted, NEW i \in Index, NEW v \in Val, SetItem(i, v)
    PROVE  Py!Next
<1> DEFINE c == [op |-> "setitem", at |-> i, item |-> v]
           r == SetItemImpl(Writable, content, i, v)
           p == IF i < 0 THEN Len(content) + i + 1 ELSE i + 1
           w == Values(content)
<1>1. /\ Accepted(content) /\ Writable \in BOOLEAN /\ i \in Int /\ NoNode \notin Val
      /\ DOMAIN content = 1 .. Len(content) /\ Len(content) \in Nat
  BY ItemsAcceptedIs DEF ValAssumption, Writable, Accepted
<1>2. content \in Seq(Slot) /\ content \in Seq(Node)
  <2>1. Node \subseteq Slot /\ content \in Seq(Node)
    BY <1>1 DEF Accepted, Node, Slot
  <2> QED BY <2>1, SeqWiden
<1>3. /\ r.ok \in BOOLEAN
      /\ ~r.ok => r.c = content
      /\ r.ok => /\ p \in DOMAIN content
                 /\ DOMAIN r.c = DOMAIN content
                 /\ \A k \in DOMAIN content : k # p => r.c[k] = content[k]
                 /\ r.c[p].val = v
  BY <1>1, <1>2, SetItemIs
<1>4. Done(c, r)
  BY FinishMaps DEF SetItem
<1>5. c.op = "setitem" /\ c.at = i /\ c.item = v
  OBVIOUS
<1> HIDE DEF r, c
<1>6. CASE ~r.ok
  BY <1>3, <1>4, <1>6, FailureMaps
<1>7. CASE r.ok
  <2>1. DOMAIN w = DOMAIN content /\ Len(w) = Len(content) /\ \A k \in DOMAIN content : w[k] = content[k].val
    BY <1>1, ValuesAre
  <2>2. Py!Nth(i) + 1 = p
    BY <1>1, <2>1 DEF Py!Nth
  <2> HIDE DEF p
  <2>3. Values(r.c) = [w EXCEPT ![p] = v]
    <3>1. \A k \in DOMAIN content : r.c[k].val = IF k = p THEN v ELSE w[k]
      BY <1>3, <1>7, <2>1
    <3> HIDE DEF w
    <3> QED BY <1>3, <1>7, <2>1, <3>1 DEF Values
  <2>4. Values(content)' = [w EXCEPT ![p] = v]
    BY <1>4, <2>3 DEF Done
  <2>5. Py!Assign(Py!Nth(i), v)
    BY <1>3, <1>7, <2>1, <2>2, <2>4 DEF Py!Assign
  <2>6. Py!Effect(c)
    BY <1>5, <2>5 DEF Py!Effect
  <2> QED BY <1>3, <1>4, <1>7, <2>6, EffectMaps
<1> QED BY <1>6, <1>7

\* Inserting before position n.
LEMMA PyInsertIs ==
    ASSUME NEW i \in Int, NEW v, NEW n, Len(Values(content)) \in Nat,
           n = (IF i > Len(Values(content)) THEN Len(Values(content)) ELSE IF i < 0 THEN 0 ELSE i),
           Values(content)' = InsertAt(Values(content), n + 1, v)
    PROVE  Py!Insert(i, v)
<1> DEFINE l == Len(Values(content))
<1>1. Py!Min({i, l}) = IF i <= l THEN i ELSE l
  <2> HIDE DEF l
  <2>1. l \in Int
    BY DEF l
  <2>2. Min({i, l}) = IF i <= l THEN i ELSE l
    BY <2>1, MinOfTwo
  <2> QED BY <2>2 DEF Py!Min, Min
<1>2. Py!Max({0, Py!Min({i, l})}) = n
  <2> DEFINE m == Py!Min({i, l})
  <2>1. m \in Int /\ n = IF 0 >= m THEN 0 ELSE m
    BY <1>1
  <2> HIDE DEF m
  <2>2. Max({0, m}) = IF 0 >= m THEN 0 ELSE m
    BY <2>1, MaxOfTwo
  <2>3. Max({0, m}) = n
    BY <2>1, <2>2
  <2>4. Py!Max({0, m}) = Max({0, m})
    BY DEF Py!Max, Max
  <2> QED BY <2>3, <2>4 DEF m
<1>3. n \in Int /\ (n + 1) - 1 = n
  BY DEF l
<1>4. Values(content)' = SubSeq(Values(content), 1, n) \o <<v>> \o SubSeq(Values(content), n + 1, l)
  BY <1>3 DEF InsertAt
<1> QED BY <1>2, <1>4 DEF Py!Insert

LEMMA InsertMaps ==
    ASSUME ValAssumption, ItemsAccepted, NEW i \in Int, NEW v \in Val, InsertItem(i, v)
    PROVE  Py!Next
<1> DEFINE c == [op |-> "insert", at |-> i, item |-> v]
           r == InsertImpl(content, i, v)
           n == Clipped(content, i)
           w == Values(content)
<1>1. CASE Writable
  <2>1. Accepted(content) /\ NoNode \notin Val /\ Len(content) \in Nat
    BY ItemsAcceptedIs DEF ValAssumption, Accepted
  <2>2. r.ok \in BOOLEAN
    BY <2>1, InsertIs
  <2>3. ~r.ok => Values(r.c) = w
    BY <2>1, InsertIs
  <2>4. r.ok => Values(r.c) = InsertAt(w, n + 1, v)
    BY <2>1, InsertIs
  <2>5. Done(c, r)
    BY <1>1, FinishMaps DEF InsertItem
  <2>6. c.op = "insert" /\ c.at = i /\ c.item = v
    OBVIOUS
  <2> HIDE DEF r, c
  <2>7. CASE ~r.ok
    BY <2>2, <2>3, <2>5, <2>7, FailureMaps
  <2>8. CASE r.ok
    <3>1. Len(w) = Len(content)
      BY <2>1, ValuesAre
    <3>2. Values(content)' = InsertAt(w, n + 1, v)
      BY <2>4, <2>5, <2>8 DEF Done
    <3> DEFINE at == Py!Nth(i)
               l == Len(content)
    <3>3. at \in Int /\ at = IF i < 0 THEN l + i ELSE i
      BY <2>1, <3>1 DEF Py!Nth
    <3>4. n = IF at > l THEN l ELSE IF at < 0 THEN 0 ELSE at
      <4>1. Max({0, i + l}) = IF 0 >= i + l THEN 0 ELSE i + l
        <5>1. i + l \in Int
          BY <2>1
        <5> QED BY <5>1, MaxOfTwo
      <4>2. Min({i, l}) = IF i <= l THEN i ELSE l
        BY <2>1, MinOfTwo
      <4>3. n = IF i < 0 THEN Max({0, i + l}) ELSE Min({i, l})
        BY DEF Clipped
      <4> HIDE DEF at, n, l
      <4>4. l \in Nat
        BY <2>1 DEF l
      <4> QED BY <3>3, <4>1, <4>2, <4>3, <4>4
    <3> HIDE DEF at, n, w
    <3>5. Py!Insert(at, v)
      BY <2>1, <3>1, <3>2, <3>3, <3>4, PyInsertIs DEF w
    <3>6. Py!Effect(c)
      BY <2>6, <3>5 DEF Py!Effect, at
    <3> QED BY <2>2, <2>5, <2>8, <3>6, EffectMaps
  <2> QED BY <2>7, <2>8
<1>2. CASE ~Writable
  BY <1>2, RaiseMaps DEF InsertItem
<1> QED BY <1>1, <1>2

LEMMA AppendMaps ==
    ASSUME ValAssumption, ItemsAccepted, NEW v \in Val, AppendItem(v)
    PROVE  Py!Next
<1> DEFINE c == [op |-> "append", item |-> v]
           r == AppendImpl(Writable, content, v)
           w == Values(content)
           n == Len(w)
<1>1. Accepted(content) /\ NoNode \notin Val /\ Writable \in BOOLEAN
  BY ItemsAcceptedIs DEF ValAssumption, Writable
<1>2. r.ok \in BOOLEAN /\ (~r.ok => r.c = content) /\ (r.ok => Values(r.c) = Append(w, v))
  BY <1>1, AppendIs
<1>3. Done(c, r)
  BY FinishMaps DEF AppendItem
<1>4. c.op = "append" /\ c.item = v
  OBVIOUS
<1> HIDE DEF r, c
<1>5. CASE ~r.ok
  BY <1>2, <1>3, <1>5, FailureMaps
<1>6. CASE r.ok
  <2>1. w \in Seq(Val) /\ n \in Nat
    BY <1>1, ValuesAre
  <2>2. Values(content)' = Append(w, v)
    BY <1>2, <1>3, <1>6 DEF Done
  <2> HIDE DEF w, n
  <2>3. Append(w, v) = InsertAt(w, n + 1, v)
    <3> DEFINE x == Append(w, v)
               y == InsertAt(w, n + 1, v)
    <3>1. x \in Seq(Val) /\ Len(x) = n + 1 /\ x[n + 1] = v /\ \A j \in 1 .. n : x[j] = w[j]
      BY <2>1 DEF n
    <3>2. /\ y \in Seq(Val) /\ Len(y) = n + 1
          /\ \A j \in 1 .. n + 1 : y[j] = IF j < n + 1 THEN w[j] ELSE IF j = n + 1 THEN v ELSE w[j - 1]
      <4> DEFINE p == n + 1
      <4>1. p \in 1 .. Len(w) + 1
        BY <2>1 DEF n
      <4> HIDE DEF p
      <4>2. /\ InsertAt(w, p, v) \in Seq(Val) /\ Len(InsertAt(w, p, v)) = Len(w) + 1
            /\ \A j \in 1 .. Len(w) + 1 : InsertAt(w, p, v)[j] =
                  IF j < p THEN w[j] ELSE IF j = p THEN v ELSE w[j - 1]
        <5>1. /\ InsertAt(w, p, v) \in Seq(Val) /\ Len(InsertAt(w, p, v)) = Len(w) + 1
          BY <2>1, <4>1, InsertedValues
        <5>2. \A j \in 1 .. Len(w) + 1 : InsertAt(w, p, v)[j] =
                 IF j < p THEN w[j] ELSE IF j = p THEN v ELSE w[j - 1]
          BY <2>1, <4>1, InsertedValues
        <5> QED BY <5>1, <5>2
      <4> QED BY <4>2 DEF p, n
    <3> HIDE DEF x, y
    <3>3. ASSUME NEW j \in 1 .. n + 1 PROVE x[j] = y[j]
      <4>1. CASE j = n + 1
        BY <2>1, <3>1, <3>2, <4>1
      <4>2. CASE j # n + 1
        <5>1. j \in 1 .. n /\ j < n + 1
          BY <2>1, <4>2
        <5> QED BY <3>1, <3>2, <5>1
      <4> QED BY <4>1, <4>2
    <3>4. x = y
      BY <3>1, <3>2, <3>3, SeqEqual
    <3> QED BY <3>4 DEF x, y
  <2>4. Py!Insert(n, v)
    <3>1. Values(content)' = InsertAt(Values(content), n + 1, v)
      BY <2>2, <2>3 DEF w
    <3>2. Len(Values(content)) \in Nat /\ n \in Int /\ n = Len(Values(content))
      BY <2>1 DEF n, w
    <3>3. n = (IF n > Len(Values(content)) THEN Len(Values(content)) ELSE IF n < 0 THEN 0 ELSE n)
      BY <2>1, <3>2
    <3> QED BY <3>1, <3>2, <3>3, PyInsertIs
  <2>5. Py!Effect(c)
    BY <1>4, <2>4 DEF Py!Effect, n, w
  <2> QED BY <1>2, <1>3, <1>6, <2>5, EffectMaps
<1> QED BY <1>5, <1>6

LEMMA ExtendMaps ==
    ASSUME ValAssumption, ItemsAccepted, NEW vs \in Args, Extend(vs)
    PROVE  Py!Next
<1> DEFINE c == [op |-> "extend", items |-> vs]
           r == ExtendImpl(Writable, content, vs)
           w == Values(content)
<1>1. Accepted(content) /\ NoNode \notin Val /\ Writable \in BOOLEAN
  BY ItemsAcceptedIs DEF ValAssumption, Writable
<1>2. vs \in Seq(Val) /\ w \in Seq(Val) /\ Len(vs) \in Nat
  BY <1>1, ListsAre, ValuesAre DEF Args, ValAssumption
<1>3. /\ r.ok \in BOOLEAN /\ Accepted(r.c)
      /\ \E m \in 0 .. Len(vs) : Joined(Values(r.c), w, vs, m)
      /\ r.ok => Joined(Values(r.c), w, vs, Len(vs))
  BY <1>1, <1>2, ExtendIs
<1>4. Done(c, r)
  BY FinishMaps DEF Extend
<1>5. c.op = "extend" /\ c.items = vs
  OBVIOUS
<1> HIDE DEF r, c
<1>6. Values(r.c) \in Seq(Val)
  BY <1>3, ValuesAre
<1> HIDE DEF w
<1>7. CASE r.ok
  <2>1. Len(vs) \in 0 .. Len(vs)
    BY <1>2
  <2>2. Values(r.c) = w \o vs
    BY <1>2, <1>3, <1>6, <1>7, <2>1, JoinedIs
  <2>3. Py!Effect(c)
    BY <1>4, <1>5, <2>2 DEF Py!Effect, Done, w
  <2> QED BY <1>3, <1>4, <1>7, <2>3, EffectMaps
<1>8. CASE ~r.ok
  <2>1. PICK m \in 0 .. Len(vs) : Joined(Values(r.c), w, vs, m)
    BY <1>3
  <2>2. Values(r.c) = w \o SubSeq(vs, 1, m)
    BY <1>2, <1>6, <2>1, JoinedIs
  <2>3. Py!Failure(c)
    BY <1>4, <1>5, <2>2 DEF Py!Failure, Done, w
  <2> QED BY <1>3, <1>4, <1>8, <2>3 DEF Py!Next, Done
<1> QED BY <1>3, <1>7, <1>8

LEMMA DeleteIs ==
    ASSUME Accepted(content), NEW S, Values(content)' = Values(DelImpl(content, S))
    PROVE  Py!Delete(S)
<1> DEFINE K == Kept(content, S)
           w == Values(content)
<1>1. Values(content)' = [k \in 1 .. Cardinality(K) |-> w[Nth(K, k)]]
  BY DelIs
<1>2. K = {p \in DOMAIN w : p - 1 \notin S}
  BY ValuesAre DEF Kept
<1>3. \A T : Py!Cardinality(T) = Cardinality(T)
  BY DEF Py!Cardinality, Cardinality
<1> HIDE DEF K, w
<1>4. \A k : Nth(K, k) = CHOOSE p \in K : Py!Cardinality({q \in K : q <= p}) = k
  BY <1>3 DEF Nth
<1>5. Values(content)' = [k \in 1 .. Py!Cardinality(K) |->
                             w[CHOOSE p \in K : Py!Cardinality({q \in K : q <= p}) = k]]
  <2> DEFINE N(k) == CHOOSE p \in K : Py!Cardinality({q \in K : q <= p}) = k
  <2>1. \A k : Nth(K, k) = N(k)
    BY <1>4
  <2> HIDE DEF N
  <2>2. [k \in 1 .. Cardinality(K) |-> w[Nth(K, k)]] = [k \in 1 .. Py!Cardinality(K) |-> w[N(k)]]
    <3>1. Py!Cardinality(K) = Cardinality(K)
      BY <1>3
    <3> QED BY <2>1, <3>1
  <2> QED BY <1>1, <2>2 DEF N
<1> QED BY <1>2, <1>5 DEF Py!Delete, w

\* A call that deletes the positions in S, if the list is writable.
LEMMA DeleteMaps ==
    ASSUME ItemsAccepted, NEW c, NEW S, Edit(c, DelImpl(content, S)),
           Py!Delete(S) => Py!Effect(c)
    PROVE  Py!Next
<1> DEFINE r == Outcome(DelImpl(content, S), TRUE)
<1>1. CASE Writable
  <2>1. Done(c, r) /\ r.ok = TRUE /\ r.c = DelImpl(content, S)
    BY <1>1, FinishMaps DEF Edit, Outcome
  <2> HIDE DEF r
  <2>2. Py!Delete(S)
    BY <2>1, DeleteIs, ItemsAcceptedIs DEF Done
  <2> QED BY <2>1, <2>2, EffectMaps
<1>2. CASE ~Writable
  BY <1>2, RaiseMaps DEF Edit
<1> QED BY <1>1, <1>2

LEMMA DelItemMaps ==
    ASSUME ItemsAccepted, NEW i \in Place, DelItem(i) \/ Pop(i)
    PROVE  Py!Next
<1>1. /\ DOMAIN Values(content) = 1 .. Len(content) /\ DOMAIN content = 1 .. Len(content)
      /\ i \in Nat /\ Len(content) \in Nat
  BY ItemsAcceptedIs, ValuesAre DEF Accepted, Place
<1>2. ASSUME NEW c, c.op \in {"delitem", "pop"}, c.at = i, i + 1 \in DOMAIN content,
             Edit(c, DelImpl(content, {i}))
      PROVE  Py!Next
  <2>1. Py!Delete({i}) => Py!Effect(c)
    BY <1>1, <1>2 DEF Py!Effect, Py!DeleteAt
  <2> QED BY <1>2, <2>1, DeleteMaps
<1>3. CASE DelItem(i)
  <2> DEFINE c == [op |-> "delitem", at |-> i]
  <2>1. c.op = "delitem" /\ c.at = i
    OBVIOUS
  <2>2. IF i < Len(content) THEN Edit(c, DelImpl(content, {i})) ELSE Raise(c)
    BY <1>3 DEF DelItem
  <2> HIDE DEF c
  <2>3. i < Len(content) => i + 1 \in DOMAIN content
    BY <1>1
  <2> QED BY <1>2, <2>1, <2>2, <2>3, RaiseMaps
<1>4. CASE Pop(i)
  <2> DEFINE c == [op |-> "pop", at |-> i]
  <2>1. c.op = "pop" /\ c.at = i
    OBVIOUS
  <2>2. Raise(c) \/ (i + 1 \in DOMAIN content /\ Edit(c, DelImpl(content, {i})))
    BY <1>4 DEF Pop
  <2> HIDE DEF c
  <2> QED BY <1>2, <2>1, <2>2, RaiseMaps
<1> QED BY <1>3, <1>4

LEMMA DelSliceMaps ==
    ASSUME ItemsAccepted, NEW start \in Place, NEW stop \in Place, NEW step \in {1, 2},
           DelSlice(start, stop, step)
    PROVE  Py!Next
<1> DEFINE c == [op |-> "delslice", start |-> start, stop |-> stop, step |-> step]
           at == IndexRange(start, stop, step)
           S == {at[k] : k \in DOMAIN at}
<1>1. start \in Int /\ stop \in Int /\ step \in {1, -1, 2}
  BY ItemsAcceptedIs DEF Place, Accepted
<1>2. S = Py!Visited(start, stop, step)
  BY <1>1, RangeIs DEF RangeFacts
<1>3. c.op = "delslice" /\ c.start = start /\ c.stop = stop /\ c.step = step
  OBVIOUS
<1>4. Edit(c, DelImpl(content, S))
  BY DEF DelSlice
<1> HIDE DEF c, S
<1>5. Py!Delete(S) => Py!Effect(c)
  BY <1>2, <1>3 DEF Py!Effect
<1> QED BY <1>4, <1>5, DeleteMaps

\* A set of positions that is not empty has a first one.
LEMMA MinIn ==
    ASSUME NEW n \in Nat, NEW s \in SUBSET (0 .. n), s # {}
    PROVE  Min(s) \in s /\ \A y \in s : Min(s) <= y
<1> DEFINE t == {z \in 0 .. n : n - z \in s}
<1>1. t \in SUBSET (0 .. n) /\ t # {}
  <2>1. PICK y \in s : TRUE
    OBVIOUS
  <2>2. n - y \in t
    OBVIOUS
  <2> QED BY <2>2
<1>2. PICK m \in t : \A y \in t : m >= y
  <2> HIDE DEF t
  <2> QED BY <1>1, MaxIn
<1>3. n - m \in s /\ \A y \in s : n - m <= y
  <2>1. \A y \in s : n - y \in t /\ y \in Int
    OBVIOUS
  <2> QED BY <1>2, <2>1
<1>4. \E x \in s : \A y \in s : x <= y
  BY <1>3
<1> QED BY <1>4 DEF Min

LEMMA RemoveMaps ==
    ASSUME ValAssumption, ItemsAccepted, NEW x \in Val, RemoveItem(x)
    PROVE  Py!Next
<1> DEFINE w == Values(content)
           n == Len(content)
           readable == {k \in DOMAIN content :
                          /\ Target[content[k].val] = x
                          /\ \A j \in 1 .. k : ~Unreadable(content[j].val)}
           found == {p \in DOMAIN w : Target[w[p]] = x}
           c == [op |-> "remove", item |-> x]
<1>1. /\ Accepted(content) /\ n \in Nat /\ DOMAIN content = 1 .. n /\ DOMAIN w = 1 .. n
      /\ \A k \in 1 .. n : w[k] = content[k].val
  BY ItemsAcceptedIs, ValuesAre DEF Accepted
<1>2. IF readable = {} THEN Raise(c) ELSE Edit(c, DelImpl(content, {Min(readable) - 1}))
  BY DEF RemoveItem
<1>3. c.op = "remove" /\ c.item = x
  OBVIOUS
<1>4. readable \subseteq found /\ found \in SUBSET (0 .. n)
  BY <1>1
<1>5. \A k \in readable : \A p \in found : p <= k => p \in readable
  <2> TAKE k \in readable
  <2> TAKE p \in found
  <2> HAVE p <= k
  <2>1. p \in 1 .. n /\ k \in 1 .. n
    BY <1>1
  <2>2. \A j \in 1 .. p : j \in 1 .. k
    BY <2>1
  <2> QED BY <1>1, <2>1, <2>2
<1>6. Py!DeleteFirst(x) <=> found # {} /\ Py!Delete({Py!Min(found) - 1})
  BY DEF Py!DeleteFirst, w
<1> HIDE DEF readable, found, c, n
<1>7. CASE readable = {}
  BY <1>2, <1>7, RaiseMaps
<1>8. CASE readable # {}
  <2>1. Min(readable) = Min(found)
    <3>1. Min(readable) \in readable /\ \A y \in readable : Min(readable) <= y
      BY <1>1, <1>4, <1>8, MinIn
    <3>2. found # {} /\ Min(found) \in found /\ \A y \in found : Min(found) <= y
      BY <1>1, <1>4, <1>8, MinIn
    <3>3. Min(found) <= Min(readable) /\ Min(found) \in Int /\ Min(readable) \in Int
      <4>1. Min(readable) \in found
        BY <1>4, <3>1
      <4>2. \A y \in found : y \in Int
        BY <1>4
      <4> QED BY <3>2, <4>1, <4>2
    <3>4. Min(found) \in readable
      BY <1>5, <3>1, <3>2, <3>3
    <3> QED BY <3>1, <3>3, <3>4
  <2>2. Py!Min(found) = Min(readable) /\ found # {}
    BY <1>4, <1>8, <2>1 DEF Py!Min, Min
  <2>3. Py!Delete({Min(readable) - 1}) => Py!Effect(c)
    BY <1>3, <1>6, <2>2 DEF Py!Effect
  <2> QED BY <1>2, <1>8, <2>3, DeleteMaps
<1> QED BY <1>7, <1>8

LEMMA ClearMaps == ASSUME Clear PROVE Py!Next
<1> DEFINE c == [op |-> "clear"]
           r == Outcome(<<>>, TRUE)
<1>1. CASE Writable
  <2>1. Done(c, r) /\ r.ok = TRUE /\ r.c = <<>> /\ c.op = "clear"
    BY <1>1, FinishMaps DEF Clear, Edit, Outcome
  <2> HIDE DEF r, c
  <2>2. Values(<<>>) = <<>>
    BY EmptyAccepted
  <2>3. Py!Effect(c)
    BY <2>1, <2>2 DEF Py!Effect, Done
  <2> QED BY <2>1, <2>3, EffectMaps
<1>2. CASE ~Writable
  BY <1>2, RaiseMaps DEF Clear, Edit
<1> QED BY <1>1, <1>2

LEMMA SortMaps ==
    ASSUME ItemsAccepted, NEW p \in Orders, NEW returns \in BOOLEAN, Sort(p, returns)
    PROVE  Py!Next
<1> DEFINE c == [op |-> "sort"]
           sorted == [k \in DOMAIN content |-> content[p[k]]]
           r == Outcome(sorted, returns)
           w == Values(content)
<1>1. CASE Writable
  <2>1. Done(c, r) /\ r.ok = returns /\ r.c = sorted /\ c.op = "sort"
    BY <1>1, FinishMaps DEF Sort, Outcome
  <2>2. DOMAIN w = DOMAIN content /\ \A k \in DOMAIN content : w[k] = content[k].val
    BY ItemsAcceptedIs, ValuesAre
  <2>3. /\ p \in [DOMAIN content -> DOMAIN content]
        /\ \A a, b \in DOMAIN content : p[a] = p[b] => a = b
    BY DEF Orders
  <2>4. Values(sorted) = [k \in DOMAIN w |-> w[p[k]]]
    <3> HIDE DEF w
    <3> QED BY <2>2, <2>3 DEF Values
  <2> HIDE DEF c, r, sorted, w
  <2>5. Values(content)' = [k \in DOMAIN w |-> w[p[k]]]
    BY <2>1, <2>4 DEF Done
  <2>6. Py!Permute
    BY <2>2, <2>3, <2>5 DEF Py!Permute, w
  <2>7. Py!Effect(c) /\ Py!Failure(c)
    BY <2>1, <2>6 DEF Py!Effect, Py!Failure
  <2> QED BY <2>1, <2>7 DEF Done, Py!Next
<1>2. CASE ~Writable
  BY <1>2, RaiseMaps DEF Sort
<1> QED BY <1>1, <1>2

LEMMA AssignMaps ==
    ASSUME ValAssumption,
           (\E vs \in Args, isConfig \in BOOLEAN : Assign(vs, isConfig)) \/ AssignSpecial
    PROVE  Py!Next
<1>1. NoNode \notin Val /\ Accepted(<<>>) /\ Values(<<>>) = <<>>
  BY EmptyAccepted DEF ValAssumption
<1>2. ASSUME NEW vs \in Args, NEW isConfig \in BOOLEAN, Assign(vs, isConfig) PROVE Py!Next
  <2> DEFINE r == ExtendImpl(TRUE, <<>>, vs)
             c == [op |-> "assign", items |-> vs]
             kept == Outcome(IF r.ok THEN r.c ELSE content, r.ok)
  <2>1. vs \in Seq(Val) /\ Len(vs) \in Nat /\ Len(vs) \in 0 .. Len(vs)
    BY ListsAre DEF Args, ValAssumption
  <2>2. /\ r.ok \in BOOLEAN /\ Accepted(r.c)
        /\ r.ok => Joined(Values(r.c), <<>>, vs, Len(vs))
    BY <1>1, <2>1, ExtendIs
  <2>3. Done(c, kept)
    BY <1>2 DEF Assign, Done, Values, Outcome
  <2>4. c.op = "assign" /\ c.items = vs
    OBVIOUS
  <2>5. kept.ok = r.ok /\ kept.c = IF r.ok THEN r.c ELSE content
    BY DEF Outcome
  <2> HIDE DEF r, c, kept
  <2>6. CASE r.ok
    <3>1. Values(r.c) = <<>> \o vs
      <4>1. Values(r.c) \in Seq(Val) /\ <<>> \in Seq(Val)
        BY <2>2, ValuesAre
      <4> DEFINE x == Values(r.c)
                 e == <<>>
                 m == Len(vs)
      <4> HIDE DEF x, e, m
      <4>2. x \in Seq(Val) /\ e \in Seq(Val) /\ m \in 0 .. Len(vs) /\ Joined(x, e, vs, m) /\ m = Len(vs)
        BY <2>1, <2>2, <2>6, <4>1 DEF x, e, m
      <4>3. x = e \o vs
        BY <2>1, <4>2, JoinedIs
      <4> QED BY <4>3 DEF x, e
    <3>2. Values(r.c) = vs
      BY <2>1, <3>1
    <3>3. Py!Effect(c)
      BY <2>3, <2>4, <2>5, <2>6, <3>2 DEF Py!Effect, Done
    <3> QED BY <2>2, <2>3, <2>5, <2>6, <3>3, EffectMaps
  <2>7. CASE ~r.ok
    BY <2>2, <2>3, <2>5, <2>7, FailureMaps
  <2> QED BY <2>6, <2>7
<1>3. CASE AssignSpecial
  <2> DEFINE c == [op |-> "assign", items |-> <<>>]
             r == Outcome(<<>>, TRUE)
  <2>1. Done(c, r) /\ r.ok = TRUE /\ r.c = <<>> /\ c.op = "assign" /\ c.items = <<>>
    BY <1>3 DEF AssignSpecial, Done, Values, Outcome
  <2> HIDE DEF c, r
  <2>2. Py!Effect(c)
    BY <1>1, <2>1 DEF Py!Effect, Done
  <2> QED BY <2>1, <2>2, EffectMaps
<1> QED BY <1>2, <1>3

-----------------------------------------------------------------------------
(* Slice assignment: the work copy is what the abstract list becomes, and    *)
(* reading it gives it back.                                                *)

\* The iterator gives v for v.
Same(v) == ~Unreadable(v) /\ Target[v] = v
AllSame(w) == \A k \in 1 .. Len(w) : Same(w[k])

LEMMA PlainIs ==
    ASSUME NEW w \in Seq(Val), NEW vs \in Seq(Val), Plain(w \o vs)
    PROVE  AllSame(w) /\ AllSame(vs)
<1> DEFINE t == w \o vs
<1>1. /\ t \in Seq(Val) /\ Len(t) = Len(w) + Len(vs)
      /\ \A j \in 1 .. Len(w) + Len(vs) : t[j] = IF j <= Len(w) THEN w[j] ELSE vs[j - Len(w)]
  BY ConcatProperties
<1>2. \A k \in DOMAIN t : Same(t[k])
  BY DEF Plain, Same
<1> HIDE DEF t
<1>3. DOMAIN t = 1 .. Len(w) + Len(vs) /\ Len(w) \in Nat /\ Len(vs) \in Nat
  BY <1>1
<1>4. ASSUME NEW k \in 1 .. Len(w) PROVE Same(w[k])
  <2>1. k \in 1 .. Len(w) + Len(vs) /\ k <= Len(w)
    BY <1>3
  <2>2. t[k] = w[k]
    BY <1>1, <2>1
  <2> QED BY <1>2, <1>3, <2>1, <2>2
<1>5. ASSUME NEW k \in 1 .. Len(vs) PROVE Same(vs[k])
  <2> DEFINE j == Len(w) + k
  <2>1. j \in 1 .. Len(w) + Len(vs) /\ ~(j <= Len(w)) /\ j - Len(w) = k
    BY <1>3
  <2> HIDE DEF j
  <2>2. t[j] = vs[j - Len(w)]
    BY <1>1, <2>1
  <2> QED BY <1>2, <1>3, <2>1, <2>2
<1> QED BY <1>4, <1>5 DEF AllSame

LEMMA PatchedSame ==
    ASSUME NEW old, NEW vs, NEW start, NEW g, Patch(old, vs, start, Len(vs), g),
           NEW x, Patched(x, old, vs, start, Len(vs), g), AllSame(old), AllSame(vs)
    PROVE  AllSame(x)
<1> DEFINE n == Len(old)
           m == Len(vs)
<1>1. n \in Nat /\ m \in Nat /\ start \in Nat /\ g \in Nat /\ start + g <= n
  BY DEF Patch
<1>2. ASSUME NEW j \in 1 .. Len(x) PROVE Same(x[j])
  <2>1. Len(x) = n + m - g
    BY DEF Patched
  <2>2. x[j] = IF j <= start THEN old[j]
               ELSE IF j <= start + m THEN vs[j - start] ELSE old[j - m + g]
    BY DEF Patched
  <2> HIDE DEF n, m
  <2>3. CASE j <= start
    <3>1. j \in 1 .. n
      BY <1>1, <2>1, <2>3
    <3> QED BY <2>2, <2>3, <3>1 DEF AllSame, n
  <2>4. CASE ~(j <= start) /\ j <= start + m
    <3>1. j - start \in 1 .. m
      BY <1>1, <2>1, <2>4
    <3> QED BY <2>2, <2>4, <3>1 DEF AllSame, m
  <2>5. CASE ~(j <= start) /\ ~(j <= start + m)
    <3>1. j - m + g \in 1 .. n
      BY <1>1, <2>1, <2>5
    <3> QED BY <2>2, <2>5, <3>1 DEF AllSame, n
  <2> QED BY <2>3, <2>4, <2>5
<1> QED BY <1>2 DEF AllSame

LEMMA PlacedSame ==
    ASSUME NEW old, NEW vs, NEW at, Len(at) = Len(vs),
           NEW x, Placed(x, old, at, vs, Len(at)), AllSame(old), AllSame(vs),
           \A k \in 1 .. Len(at) : at[k] \in Int
    PROVE  AllSame(x)
<1>1. ASSUME NEW p \in 1 .. Len(x) PROVE Same(x[p])
  <2>1. p \in 1 .. Len(old)
    BY DEF Placed
  <2>2. CASE \A i \in 1 .. Len(at) : at[i] # p - 1
    <3>1. x[p] = old[p]
      BY <2>1, <2>2 DEF Placed
    <3> QED BY <2>1, <3>1 DEF AllSame
  <2>3. CASE \E i \in 1 .. Len(at) : at[i] = p - 1
    <3>1. PICK i \in 1 .. Len(at) : at[i] = p - 1
      BY <2>3
    <3>2. x[at[i] + 1] = vs[i] /\ i \in 1 .. Len(vs)
      BY <3>1 DEF Placed
    <3>3. at[i] + 1 = p
      BY <3>1
    <3> QED BY <3>2, <3>3 DEF AllSame
  <2> QED BY <2>2, <2>3
<1> QED BY <1>1 DEF AllSame

\* Filling the emptied list from a work copy that reads as it is gives that copy.
LEMMA RefilledIs ==
    ASSUME ValAssumption, NEW work, Accepted(work), AllSame(Values(work))
    PROVE  LET r == ExtendImpl(TRUE, <<>>, Read(work))
           IN  r.ok = TRUE /\ Len(r.c) = Len(work) /\ Values(r.c) = Values(work)
<1> DEFINE w == Values(work)
           t == Read(work)
           r == ExtendImpl(TRUE, <<>>, t)
<1>1. NoNode \notin Val /\ Target \in [Val -> Val] /\ Accepted(<<>>) /\ Values(<<>>) = <<>>
  BY EmptyAccepted DEF ValAssumption
<1>2. /\ w \in Seq(Val) /\ Len(w) = Len(work) /\ DOMAIN work = 1 .. Len(work) /\ Len(work) \in Nat
      /\ \A k \in 1 .. Len(work) : w[k] = work[k].val
  BY ValuesAre DEF Accepted
<1>3. \A k \in 1 .. Len(work) : ~Unreadable(w[k]) /\ Target[w[k]] = w[k]
  BY <1>2 DEF AllSame, Same
<1>4. /\ t \in Seq(Val) /\ Len(t) <= Len(work)
      /\ \A k \in 1 .. Len(t) : ~Unreadable(w[k]) /\ t[k] = Target[w[k]]
      /\ (\A k \in 1 .. Len(work) : ~Unreadable(w[k])) => Len(t) = Len(work)
  BY <1>1, ReadIs
<1> HIDE DEF w, t
<1>5. t = w
  <2>1. Len(t) = Len(w) /\ \A k \in 1 .. Len(t) : t[k] = w[k]
    BY <1>2, <1>3, <1>4
  <2> QED BY <1>2, <1>4, <2>1, SeqEqual
<1>6. \A k \in DOMAIN t : ~Rejects(t[k])
  <2>1. DOMAIN t = 1 .. Len(work)
    BY <1>2, <1>5
  <2> QED BY <1>2, <1>5, <2>1 DEF Accepted
<1>7. r.ok /\ r.ok \in BOOLEAN /\ Accepted(r.c) /\ (r.ok => Joined(Values(r.c), <<>>, t, Len(t)))
  <2>1. r.ok
    BY <1>1, <1>4, <1>6, ExtendReturns
  <2>2. r.ok \in BOOLEAN /\ Accepted(r.c) /\ (r.ok => Joined(Values(r.c), Values(<<>>), t, Len(t)))
    BY <1>1, <1>4, ExtendIs
  <2> HIDE DEF r
  <2> QED BY <1>1, <2>1, <2>2
<1> HIDE DEF r
<1>8. Values(r.c) \in Seq(Val) /\ Len(Values(r.c)) = Len(r.c)
  BY <1>7, ValuesAre
<1>9. Values(r.c) = t
  <2> DEFINE x == Values(r.c)
             e == <<>>
  <2>1. Joined(x, e, t, Len(t)) /\ x \in Seq(Val) /\ Len(e) = 0
    BY <1>7, <1>8
  <2> HIDE DEF x, e
  <2>2. Len(x) = Len(t) /\ \A j \in 1 .. Len(t) : x[j] = t[j]
    <3>1. Len(x) = 0 + Len(t) /\ \A j \in 1 .. Len(t) : x[0 + j] = t[j]
      BY <2>1 DEF Joined
    <3>2. Len(t) \in Nat /\ \A j \in 1 .. Len(t) : 0 + j = j
      BY <1>4
    <3> QED BY <3>1, <3>2
  <2>3. x = t
    BY <1>4, <2>1, <2>2, SeqEqual
  <2> QED BY <2>3 DEF x
<1> QED BY <1>2, <1>5, <1>7, <1>8, <1>9 DEF r, w, t

\* The positions of a slice that SetSlice is called with.
SliceOf(start, stop, step) ==
    \/ step \in {1, 2} /\ start \in Place /\ stop \in Place
    \/ step = -1 /\ start \in -1 .. Len(content) - 1 /\ stop \in -1 .. Len(content) - 1

LEMMA SlicePositions ==
    ASSUME Accepted(content), NEW start, NEW stop, NEW step, SliceOf(start, stop, step)
    PROVE  Py!Visited(start, stop, step) \subseteq 0 .. Len(content) - 1
<1>1. Len(content) \in Nat
  BY DEF Accepted
<1>2. CASE step \in {1, 2} /\ start \in 0 .. Len(content) /\ stop \in 0 .. Len(content)
  BY <1>1, <1>2 DEF Py!Visited
<1>3. CASE step = -1 /\ start \in -1 .. Len(content) - 1 /\ stop \in -1 .. Len(content) - 1
  BY <1>1, <1>3 DEF Py!Visited
<1> QED BY <1>2, <1>3 DEF SliceOf, Place

\* list[start:stop] = vs, on the values.
LEMMA RunMaps ==
    ASSUME ValAssumption, ItemsAccepted, NEW start \in Place, NEW stop \in Place,
           NEW vs \in Seq(Val), \A k \in DOMAIN vs : ~Rejects(vs[k]),
           AllSame(Values(content)), AllSame(vs)
    PROVE  LET x == Values(Spliced(content, start, IndexRange(start, stop, 1), vs))
           IN  /\ AllSame(x)
               /\ Values(content)' = x => Py!Replace(start, stop, vs)
<1> DEFINE at == IndexRange(start, stop, 1)
           g == Len(at)
           w == Values(content)
           n == Len(content)
           x == Values(Spliced(content, start, at, vs))
<1>1. /\ Accepted(content) /\ NoNode \notin Val /\ n \in Nat
      /\ start \in 0 .. n /\ stop \in 0 .. n /\ start \in Nat
  BY ItemsAcceptedIs DEF ValAssumption, Accepted, Place
<1>2. RangeFacts(at, start, stop, 1)
  BY <1>1, RangeIs
<1>3. /\ at \in Seq(Int) /\ \A k \in DOMAIN at : at[k] = start + (k - 1)
      /\ g = (IF start <= stop THEN stop - start ELSE 0)
  <2> HIDE DEF at
  <2>1. at \in Seq(Int) /\ \A k \in DOMAIN at : at[k] = start + (k - 1) * 1 /\ k \in Int
    BY <1>2 DEF RangeFacts
  <2>2. g = (IF start <= stop THEN stop - start ELSE 0)
    BY <1>2 DEF RangeFacts
  <2> QED BY <1>1, <2>1, <2>2
<1> HIDE DEF at
<1>4. start + g <= n /\ g \in Nat
  BY <1>1, <1>3
<1>5. Patched(x, w, vs, start, Len(vs), g)
  BY <1>1, <1>3, <1>4, SplicedRun
<1>6. w \in Seq(Val) /\ Len(w) = n
  BY <1>1, ValuesAre
<1>7. Patch(w, vs, start, Len(vs), g)
  <2>1. Len(vs) \in 0 .. Len(vs)
    OBVIOUS
  <2> HIDE DEF w, g, n
  <2> QED BY <1>1, <1>4, <1>6, <2>1 DEF Patch
<1> HIDE DEF x, g
<1>8. AllSame(x)
  BY <1>5, <1>7, PatchedSame DEF w
<1>9. x = SubSeq(w, 1, start) \o vs \o SubSeq(w, start + g + 1, Len(w))
  BY <1>5, <1>7, PatchedIs
<1>10. Py!Max({start, stop}) = start + g
  <2>1. Max({start, stop}) = IF start >= stop THEN start ELSE stop
    BY <1>1, MaxOfTwo
  <2>2. Max({start, stop}) = start + g
    BY <1>1, <1>3, <2>1
  <2>3. Py!Max({start, stop}) = Max({start, stop})
    BY DEF Py!Max, Max
  <2> QED BY <2>2, <2>3
<1>11. Values(content)' = x => Py!Replace(start, stop, vs)
  BY <1>9, <1>10 DEF Py!Replace, w
<1> QED BY <1>8, <1>11 DEF x, at

\* list[start:stop:step] = vs, on the values.
LEMMA SpreadMaps ==
    ASSUME ValAssumption, ItemsAccepted, NEW start, NEW stop, NEW step \in {-1, 2},
           SliceOf(start, stop, step),
           NEW vs \in Seq(Val), \A k \in DOMAIN vs : ~Rejects(vs[k]),
           Len(IndexRange(start, stop, step)) = Len(vs),
           AllSame(Values(content)), AllSame(vs)
    PROVE  LET x == Values(Spliced(content, start, IndexRange(start, stop, step), vs))
           IN  /\ AllSame(x)
               /\ Values(content)' = x => Py!Spread(start, stop, step, vs)
<1> DEFINE at == IndexRange(start, stop, step)
           V == Py!Visited(start, stop, step)
           w == Values(content)
           n == Len(content)
           x == Values(Spliced(content, start, at, vs))
<1>1. Accepted(content) /\ NoNode \notin Val /\ n \in Nat /\ start \in Int /\ stop \in Int
  BY ItemsAcceptedIs DEF ValAssumption, Accepted, Place, SliceOf
<1>2. RangeFacts(at, start, stop, step)
  BY <1>1, RangeIs
<1>3. V \subseteq 0 .. n - 1
  BY <1>1, SlicePositions
<1>4. Py!Cardinality(V) = Len(at)
  BY <1>2, VisitedCount
<1>5. Len(at) = Len(vs)
  OBVIOUS
<1> HIDE DEF at, V
<1>6. /\ at \in Seq(Int)
      /\ \A k \in DOMAIN at : at[k] = start + (k - 1) * step
      /\ \A i, k \in DOMAIN at : at[i] = at[k] => i = k
      /\ {at[k] : k \in DOMAIN at} = V
  BY <1>2 DEF RangeFacts, V
<1>7. \A k \in DOMAIN at : at[k] \in 0 .. Len(content) - 1
  <2>1. \A k \in DOMAIN at : at[k] \in V
    BY <1>6
  <2> QED BY <1>3, <2>1
<1>8. Placed(x, w, at, vs, Len(at))
  BY <1>1, <1>5, <1>6, <1>7, SplicedEach
<1>9. w \in Seq(Val) /\ Len(w) = n /\ DOMAIN w = 1 .. n
  BY <1>1, ValuesAre
<1>10. DOMAIN at = 1 .. Len(at) /\ DOMAIN vs = 1 .. Len(at) /\ Len(at) \in Nat
  BY <1>5, <1>6
<1> HIDE DEF x, w, n
<1>11. AllSame(x)
  <2>1. \A k \in 1 .. Len(at) : at[k] \in Int
    BY <1>6, <1>10
  <2> QED BY <1>5, <1>8, <2>1, PlacedSame DEF w
<1>12. ASSUME Values(content)' = x PROVE Py!Spread(start, stop, step, vs)
  <2>1. x \in [DOMAIN w -> Val]
    BY <1>8, <1>9 DEF Placed
  <2>2. \A k \in DOMAIN vs : x[start + (k - 1) * step + 1] = vs[k]
    <3> TAKE k \in DOMAIN vs
    <3>1. k \in 1 .. Len(at) /\ at[k] = start + (k - 1) * step
      BY <1>6, <1>10
    <3>2. x[at[k] + 1] = vs[k]
      BY <1>8, <3>1 DEF Placed
    <3> QED BY <3>1, <3>2
  <2>3. \A p \in DOMAIN w : p - 1 \notin V => x[p] = w[p]
    <3> TAKE p \in DOMAIN w
    <3> HAVE p - 1 \notin V
    <3>1. \A i \in 1 .. Len(at) : at[i] # p - 1
      BY <1>6, <1>10
    <3> QED BY <1>8, <1>9, <3>1 DEF Placed
  <2>4. Len(vs) = Py!Cardinality(V)
    BY <1>4, <1>5
  <2> QED BY <1>12, <2>1, <2>2, <2>3, <2>4 DEF Py!Spread, w, V
<1> QED BY <1>11, <1>12 DEF x, at

LEMMA SetSliceMaps ==
    ASSUME ValAssumption, ItemsAccepted, ~SlicesAny, NEW start, NEW stop, NEW step,
           SliceOf(start, stop, step), NEW vs \in Args, SetSlice(start, stop, step, vs)
    PROVE  Py!Next
<1> DEFINE at == IndexRange(start, stop, step)
           work == Spliced(content, start, at, vs)
           r == ExtendImpl(TRUE, <<>>, Read(work))
           c == [op |-> "setslice", start |-> start, stop |-> stop, step |-> step,
                 items |-> vs]
           raises == ~Writable \/ (step # 1 /\ Len(at) # Len(vs))
                               \/ \E k \in DOMAIN vs : Rejects(vs[k])
           o == Outcome(r.c, r.ok /\ Len(r.c) = Len(work))
           w == Values(content)
           x == Values(work)
<1>1. /\ Plain(w \o vs)
      /\ IF raises THEN Raise(c) ELSE Finish(c, o)
  BY DEF SetSlice
<1>2. /\ Accepted(content) /\ Len(content) \in Nat /\ NoNode \notin Val
      /\ start \in Int /\ stop \in Int /\ step \in {1, -1, 2}
  BY ItemsAcceptedIs DEF Accepted, ValAssumption, SliceOf, Place
<1>3. vs \in Seq(Val) /\ w \in Seq(Val)
  BY <1>2, ListsAre, ValuesAre DEF Args, ValAssumption
<1>4. AllSame(w) /\ AllSame(vs)
  BY <1>1, <1>3, PlainIs
<1>5. Accepted(work)
  <2>1. at \in Seq(Int)
    BY <1>2, IndexRangeIn
  <2> HIDE DEF at
  <2> QED BY <1>2, <1>3, <2>1, SplicedAccepted
<1>6. c.op = "setslice" /\ c.start = start /\ c.stop = stop /\ c.step = step /\ c.items = vs
  OBVIOUS
<1> HIDE DEF c
<1>7. CASE raises
  BY <1>1, <1>7, RaiseMaps
<1>8. CASE ~raises
  <2>1. /\ \A k \in DOMAIN vs : ~Rejects(vs[k])
        /\ step # 1 => Len(at) = Len(vs)
    BY <1>8
  <2>2. AllSame(x) /\ (Values(content)' = x => Py!Effect(c))
    <3>1. CASE step = 1
      <4>1. start \in Place /\ stop \in Place
        BY <3>1 DEF SliceOf
      <4>2. AllSame(x) /\ (Values(content)' = x => Py!Replace(start, stop, vs))
        BY <1>3, <1>4, <2>1, <3>1, <4>1, RunMaps
      <4> HIDE DEF x
      <4> QED BY <1>6, <3>1, <4>2 DEF Py!Effect
    <3>2. CASE step \in {-1, 2}
      <4>1. Len(at) = Len(vs)
        BY <2>1, <3>2
      <4>2. AllSame(x) /\ (Values(content)' = x => Py!Spread(start, stop, step, vs))
        BY <1>3, <1>4, <2>1, <3>2, <4>1, SpreadMaps
      <4> HIDE DEF x
      <4>3. step # 1
        BY <3>2
      <4> QED BY <1>6, <4>2, <4>3 DEF Py!Effect
    <3> QED BY <1>2, <3>1, <3>2
  <2> HIDE DEF work
  <2>3. r.ok = TRUE /\ Len(r.c) = Len(work) /\ Values(r.c) = x
    BY <1>5, <2>2, RefilledIs
  <2> HIDE DEF r, x
  <2>4. o.ok = TRUE /\ o.c = r.c
    BY <2>3 DEF Outcome
  <2> HIDE DEF o
  <2>5. Done(c, o)
    BY <1>1, <1>8, FinishMaps
  <2>6. Py!Effect(c)
    BY <2>2, <2>3, <2>4, <2>5 DEF Done
  <2> QED BY <2>4, <2>5, <2>6, EffectMaps
<1> QED BY <1>7, <1>8

LEMMA NextMaps ==
    ValAssumption /\ ~SlicesAny /\ ItemsAccepted /\ [Next]_vars => [Py!Next]_Py!vars
<1> SUFFICES ASSUME ValAssumption, ~SlicesAny, ItemsAccepted, [Next]_vars
             PROVE  Py!Next \/ UNCHANGED Py!vars
  OBVIOUS
<1>1. CASE \E i \in Index, v \in Val : SetItem(i, v)
  BY <1>1, SetItemMaps
<1>2. CASE \E i \in -2 .. MaxLen + 1, v \in Val : InsertItem(i, v)
  <2>1. \E i \in Int, v \in Val : InsertItem(i, v)
    BY <1>2 DEF ValAssumption
  <2> QED BY <2>1, InsertMaps
<1>3. CASE \E v \in Val : AppendItem(v) \/ RemoveItem(v)
  BY <1>3, AppendMaps, RemoveMaps
<1>4. CASE \E vs \in Args : Extend(vs)
  BY <1>4, ExtendMaps
<1>5. CASE \/ \E start, stop \in Place, vs \in Args : SetSlice(start, stop, 1, vs)
           \/ \E start, stop \in -1 .. Len(content) - 1, vs \in Args :
                 SetSlice(start, stop, -1, vs)
           \/ \E start, stop \in Place, vs \in Args : SetSlice(start, stop, 2, vs)
  <2>1. PICK start, stop, step : \E vs \in Args :
            SliceOf(start, stop, step) /\ SetSlice(start, stop, step, vs)
    BY <1>5 DEF SliceOf
  <2> QED BY <2>1, SetSliceMaps
<1>6. CASE \E i \in Place : DelItem(i) \/ Pop(i)
  BY <1>6, DelItemMaps
<1>7. CASE \E start, stop \in Place, step \in {1, 2} : DelSlice(start, stop, step)
  BY <1>7, DelSliceMaps
<1>8. CASE Clear
  BY <1>8, ClearMaps
<1>9. CASE \E p \in Orders, returns \in BOOLEAN : Sort(p, returns)
  BY <1>9, SortMaps
<1>10. CASE \/ \E vs \in Args, isConfig \in BOOLEAN : Assign(vs, isConfig)
            \/ AssignSpecial
  BY <1>10, AssignMaps
<1>11. CASE (\E b \in BOOLEAN : SetReadonly(b)) \/ UNCHANGED vars
  BY <1>11 DEF SetReadonly, vars, Py!vars, Values
<1> QED BY <1>1, <1>2, <1>3, <1>4, <1>5, <1>6, <1>7, <1>8, <1>9, <1>10, <1>11 DEF Next

LEMMA InitMaps == ValAssumption /\ Init => Py!Init
<1> SUFFICES ASSUME ValAssumption, Init PROVE Py!Init
  OBVIOUS
<1>1. Accepted(content) /\ Len(content) \in 0 .. MaxLen
  BY InitKeeps, ItemsAcceptedIs DEF Accepted, ValAssumption
<1>2. Values(content) \in [1 .. Len(content) -> Val]
  BY <1>1, ValuesAre
<1> QED BY <1>1, <1>2 DEF Py!Init, Py!Lists

\* The operations of a ListConfig are those of a Python list: each takes effect as
\* a whole, or raises and leaves the items as they were or as list's would.
THEOREM ListIsImplemented == ASSUME ~SlicesAny PROVE Spec => ImplementsList
<1>1. Init => Py!Init
  BY ValAssumption, InitMaps
<1>2. ItemsAccepted /\ [Next]_vars => [Py!Next]_Py!vars
  BY ValAssumption, NextMaps
<1> QED BY <1>1, <1>2, ItemsAlwaysAccepted, PTL DEF Spec, Py!Spec, ImplementsList
=============================================================================
