----------------------------- MODULE LoopLemmas -----------------------------
(***************************************************************************)
(* Induction over the rounds of a loop, for proofs about operators that are  *)
(* folds of a sequence: an induction rule over an interval of numbers, and   *)
(* what FoldLeft computes, round by round.                                   *)
(*                                                                          *)
(* The rules speak of sets and functions, not of operators: what is proved   *)
(* by induction is membership in a set T, and a round is a function "step"   *)
(* of what the round begins with and of its number.  FoldLeft is a recursive *)
(* function on the subsets of 1 .. n: what it gives on 1 .. k is what the    *)
(* first k rounds give.                                                      *)
(***************************************************************************)
EXTENDS Integers, Sequences, SequencesExt, SequenceTheorems,
        WellFoundedInduction, TLAPS

-----------------------------------------------------------------------------
(* Induction.                                                               *)

Below == {p \in Nat \X Nat : p[1] < p[2]}

\* The order of the numbers is well founded.
LEMMA BelowWellFounded == IsWellFoundedOn(Below, Nat)
BY NatLessThanWellFounded DEF OpToRel, Below

\* What holds of 0, and of each number to n if it holds of the one before, holds
\* of all of them.
LEMMA InductionTo ==
    ASSUME NEW n \in Nat, NEW T, 0 \in T, \A k \in 0 .. n - 1 : k \in T => k + 1 \in T
    PROVE  \A k \in 0 .. n : k \in T
<1> DEFINE Bad == {k \in 0 .. n : k \notin T}
<1>1. SUFFICES ASSUME Bad # {} PROVE FALSE
  OBVIOUS
<1>2. PICK x \in Bad : \A y \in Bad : <<y, x>> \notin Below
  <2>2. Bad \subseteq Nat
    OBVIOUS
  <2> HIDE DEF Bad
  <2> QED BY <1>1, BelowWellFounded, <2>2, WFMin
<1>3. x - 1 \in Bad
  BY <1>2
<1>4. <<x - 1, x>> \in Below
  BY <1>2, <1>3 DEF Below
<1> QED BY <1>2, <1>3, <1>4

\* The last round of 1 .. n is n, those before are 1 .. n - 1.
LEMMA MaxTo == ASSUME NEW n \in Nat \ {0} PROVE Max(1 .. n) = n /\ (1 .. n) \ {n} = 1 .. n - 1
<1>1. n \in 1 .. n /\ \A y \in 1 .. n : n >= y
  OBVIOUS
<1>2. \A x \in 1 .. n : (\A y \in 1 .. n : x >= y) => x = n
  OBVIOUS
<1> QED BY <1>1, <1>2 DEF Max

-----------------------------------------------------------------------------
(* Folds.                                                                   *)

\* The rounds: functions of what a round begins with, in S, and its number.
Steps(n, S) == [S \X (1 .. n) -> S]

\* it is the function FoldLeft iterates, on every set of rounds.
Iterates(it, n, base, step) ==
    \A s \in SUBSET (1 .. n) :
        it[s] = IF s = {} THEN base ELSE step[<<it[s \ {Max(s)}], Max(s)>>]

\* r is, where it has values in S: what is known of the function FoldLeft chooses.
IteratesIn(r, n, S, base, step) ==
    /\ r[{}] = base
    /\ \A s \in SUBSET (1 .. n) : s # {} /\ r[s \ {Max(s)}] \in S
                => r[s] = step[<<r[s \ {Max(s)}], Max(s)>>]

\* What r gives on 1 .. k is what the first k rounds give.
Rounds(r, n, S, step) ==
    \A k \in 0 .. n : /\ r[1 .. k] \in S
                      /\ k < n => r[1 .. k + 1] = step[<<r[1 .. k], k + 1>>]

\* The function FoldLeft iterates exists.
LEMMA FoldExists ==
    ASSUME NEW n \in Nat, NEW S, NEW base \in S, NEW step \in Steps(n, S)
    PROVE  \E it \in [SUBSET (1 .. n) -> S] : Iterates(it, n, base, step)
<1> USE DEF Steps, Iterates
<1> DEFINE Iter(m, it) ==
               \A s \in SUBSET (1 .. m) :
                  it[s] = IF s = {} THEN base ELSE step[<<it[s \ {Max(s)}], Max(s)>>]
           Exists(m) == \E it \in [SUBSET (1 .. m) -> S] : Iter(m, it)
           T == {m \in 0 .. n : Exists(m)}
<1>1. 0 \in T
  <2>1. [s \in SUBSET (1 .. 0) |-> base] \in [SUBSET (1 .. 0) -> S]
    OBVIOUS
  <2>2. Iter(0, [s \in SUBSET (1 .. 0) |-> base])
    <3>1. 1 .. 0 = {}
      OBVIOUS
    <3> QED BY <3>1
  <2>3. Exists(0)
    <3> HIDE DEF Iter
    <3> QED BY <2>1, <2>2
  <2> HIDE DEF Exists
  <2> QED BY <2>3
<1>2. ASSUME NEW m \in 0 .. n - 1, m \in T PROVE m + 1 \in T
  <2>1. PICK old \in [SUBSET (1 .. m) -> S] : Iter(m, old)
    BY <1>2
  <2> DEFINE new == [s \in SUBSET (1 .. m + 1) |->
                        IF m + 1 \in s THEN step[<<old[s \ {m + 1}], m + 1>>] ELSE old[s]]
  <2>2. \A s \in SUBSET (1 .. m + 1) : s \ {m + 1} \in SUBSET (1 .. m)
    OBVIOUS
  <2>3. \A s \in SUBSET (1 .. m + 1) : m + 1 \notin s => s \in SUBSET (1 .. m)
    OBVIOUS
  <2>4. new \in [SUBSET (1 .. m + 1) -> S]
    BY <2>2, <2>3
  <2>5. ASSUME NEW s \in SUBSET (1 .. m + 1)
        PROVE  new[s] = IF s = {} THEN base ELSE step[<<new[s \ {Max(s)}], Max(s)>>]
    <3>1. CASE m + 1 \in s
      <4>1. Max(s) = m + 1
        <5>1. \A y \in s : m + 1 >= y
          OBVIOUS
        <5>2. \A x \in s : (\A y \in s : x >= y) => x = m + 1
          BY <3>1
        <5> QED BY <3>1, <5>1, <5>2 DEF Max
      <4>2. new[s \ {m + 1}] = old[s \ {m + 1}]
        BY <2>2
      <4> QED BY <3>1, <4>1, <4>2
    <3>2. CASE m + 1 \notin s /\ s # {}
      <4>1. s \in SUBSET (1 .. m)
        BY <3>2, <2>3
      <4>2. new[s] = old[s] /\ new[s \ {Max(s)}] = old[s \ {Max(s)}]
        BY <3>2
      <4> HIDE DEF new
      <4> QED BY <4>1, <4>2, <3>2, <2>1
    <3>3. CASE s = {}
      BY <3>3, <2>1
    <3> QED BY <3>1, <3>2, <3>3
  <2> HIDE DEF new
  <2>6. Iter(m + 1, new)
    BY <2>5
  <2>7. m + 1 \in 0 .. n
    OBVIOUS
  <2> QED BY <2>4, <2>6, <2>7
<1>3. n \in T
  <2> HIDE DEF T
  <2>1. \A k \in 0 .. n : k \in T
    BY <1>1, <1>2, InductionTo
  <2> QED BY <2>1
<1> QED BY <1>3

\* The function FoldLeft chooses goes through the rounds one by one.
LEMMA FoldRounds ==
    ASSUME NEW n \in Nat, NEW S, NEW base \in S, NEW step \in Steps(n, S),
           NEW r, IteratesIn(r, n, S, base, step)
    PROVE  Rounds(r, n, S, step)
<1> USE DEF Steps, IteratesIn, Rounds
<1> DEFINE T == {k \in 0 .. n : r[1 .. k] \in S}
<1>1. ASSUME NEW k \in 0 .. n - 1, r[1 .. k] \in S
      PROVE  r[1 .. k + 1] = step[<<r[1 .. k], k + 1>>]
  <2>1. Max(1 .. k + 1) = k + 1 /\ (1 .. k + 1) \ {k + 1} = 1 .. k
    <3>1. k + 1 \in Nat \ {0} /\ k + 1 - 1 = k
      OBVIOUS
    <3> QED BY <3>1, MaxTo
  <2>2. 1 .. k + 1 \in SUBSET (1 .. n) /\ 1 .. k + 1 # {}
    OBVIOUS
  <2> QED BY <1>1, <2>1, <2>2
<1>2. 0 \in T
  <2>1. 1 .. 0 = {}
    OBVIOUS
  <2> QED BY <2>1
<1>3. ASSUME NEW k \in 0 .. n - 1, k \in T PROVE k + 1 \in T
  <2>1. k + 1 \in 1 .. n /\ r[1 .. k] \in S
    BY <1>3
  <2>2. step[<<r[1 .. k], k + 1>>] \in S
    BY <2>1
  <2> QED BY <2>1, <2>2, <1>1
<1>4. \A k \in 0 .. n : k \in T
  <2> HIDE DEF T
  <2> QED BY <1>2, <1>3, InductionTo
<1> QED BY <1>4, <1>1

\* A set of numbers up to n that is not empty has a largest one.
LEMMA MaxIn ==
    ASSUME NEW n \in Nat, NEW s \in SUBSET (0 .. n), s # {}
    PROVE  Max(s) \in s /\ \A y \in s : Max(s) >= y
<1> DEFINE Up == {k \in 0 .. n : s \cap (0 .. k) # {} => \E x \in s : \A y \in s \cap (0 .. k) : x >= y}
<1>1. 0 \in Up
  <2>1. 0 .. 0 = {0}
    OBVIOUS
  <2> QED BY <2>1
<1>2. ASSUME NEW k \in 0 .. n - 1, k \in Up PROVE k + 1 \in Up
  <2>1. CASE k + 1 \in s
    <3>1. \A y \in s \cap (0 .. k + 1) : k + 1 >= y
      OBVIOUS
    <3> QED BY <2>1, <3>1
  <2>2. CASE k + 1 \notin s
    <3>1. s \cap (0 .. k + 1) = s \cap (0 .. k)
      BY <2>2
    <3> QED BY <3>1, <1>2
  <2> QED BY <2>1, <2>2
<1>3. n \in Up
  <2>1. \A k \in 0 .. n : k \in Up
    <3> HIDE DEF Up
    <3> QED BY <1>1, <1>2, InductionTo
  <2> QED BY <2>1
<1>4. \E x \in s : \A y \in s : x >= y
  BY <1>3
<1> QED BY <1>4 DEF Max

\* d is defined by recursion on the numbers to n.
Recursion(d, n, base, step) ==
    d[0] = base /\ \A k \in 0 .. n - 1 : d[k + 1] = step[<<d[k], k + 1>>]

\* Such a function exists.
LEMMA RecursionTo ==
    ASSUME NEW n \in Nat, NEW S, NEW base \in S, NEW step \in Steps(n, S)
    PROVE  \E d \in [0 .. n -> S] : Recursion(d, n, base, step)
<1>1. PICK it \in [SUBSET (1 .. n) -> S] : Iterates(it, n, base, step)
  BY FoldExists
<1>2. IteratesIn(it, n, S, base, step)
  BY <1>1 DEF Iterates, IteratesIn
<1>3. Rounds(it, n, S, step)
  BY <1>2, FoldRounds
<1> DEFINE d == [k \in 0 .. n |-> it[1 .. k]]
<1>4. d \in [0 .. n -> S] /\ d[0] = base
  <2>1. 1 .. 0 = {}
    OBVIOUS
  <2> QED BY <1>2, <1>3, <2>1 DEF IteratesIn, Rounds
<1>5. \A k \in 0 .. n - 1 : d[k + 1] = step[<<d[k], k + 1>>]
  <2> TAKE k \in 0 .. n - 1
  <2>1. k \in 0 .. n /\ k + 1 \in 0 .. n /\ k < n
    OBVIOUS
  <2>2. it[1 .. k + 1] = step[<<it[1 .. k], k + 1>>]
    BY <1>3, <2>1 DEF Rounds
  <2> QED BY <2>1, <2>2
<1> QED BY <1>4, <1>5 DEF Recursion

-----------------------------------------------------------------------------
(* Sequences.                                                               *)

\* A function on 1 .. n is a sequence.
LEMMA SeqIs ==
    ASSUME NEW S, NEW n \in Nat, NEW s, s = [k \in 1 .. n |-> s[k]], \A k \in 1 .. n : s[k] \in S
    PROVE  s \in Seq(S) /\ Len(s) = n /\ DOMAIN s = 1 .. n
<1>1. s \in [1 .. n -> S] /\ DOMAIN s = 1 .. n
  OBVIOUS
<1> QED BY <1>1, SeqDef

\* The sequence with e in place of its i-th element.
LEMMA ExceptIs ==
    ASSUME NEW S, NEW s \in Seq(S), NEW i \in DOMAIN s, NEW e \in S
    PROVE  /\ [s EXCEPT ![i] = e] \in Seq(S) /\ Len([s EXCEPT ![i] = e]) = Len(s)
           /\ DOMAIN [s EXCEPT ![i] = e] = DOMAIN s
           /\ [s EXCEPT ![i] = e][i] = e
           /\ \A k \in DOMAIN s : k # i => [s EXCEPT ![i] = e][k] = s[k]
OBVIOUS

\* A sequence of elements of S is one of elements of more.
LEMMA SeqWiden ==
    ASSUME NEW S, NEW R, S \subseteq R, NEW s \in Seq(S)
    PROVE  s \in Seq(R)
OBVIOUS

\* The sequence without its i-th element.
LEMMA RemoveAtFacts ==
    ASSUME NEW S, NEW s \in Seq(S), NEW i \in 1 .. Len(s)
    PROVE  /\ RemoveAt(s, i) \in Seq(S)
           /\ Len(RemoveAt(s, i)) = Len(s) - 1
           /\ DOMAIN RemoveAt(s, i) = 1 .. Len(s) - 1
           /\ \A j \in 1 .. Len(s) - 1 :
                 RemoveAt(s, i)[j] = IF j < i THEN s[j] ELSE s[j + 1]
<1> DEFINE a == SubSeq(s, 1, i - 1)
           b == SubSeq(s, i + 1, Len(s))
<1>1. /\ a \in Seq(S) /\ Len(a) = i - 1
      /\ \A j \in 1 .. i - 1 : a[j] = s[j]
  OBVIOUS
<1>2. /\ b \in Seq(S) /\ Len(b) = Len(s) - i
      /\ \A j \in 1 .. Len(s) - i : b[j] = s[i + j]
  OBVIOUS
<1> HIDE DEF a, b
<1>3. /\ a \o b \in Seq(S) /\ Len(a \o b) = Len(s) - 1
      /\ DOMAIN (a \o b) = 1 .. Len(s) - 1
      /\ \A j \in 1 .. Len(s) - 1 : (a \o b)[j] = IF j < i THEN a[j] ELSE b[j - (i - 1)]
  <2>1. Len(a) + Len(b) = Len(s) - 1
    BY <1>1, <1>2
  <2>2. /\ a \o b \in Seq(S) /\ Len(a \o b) = Len(s) - 1
        /\ \A j \in 1 .. Len(s) - 1 : (a \o b)[j] = IF j <= Len(a) THEN a[j] ELSE b[j - Len(a)]
    <3>1. /\ a \o b \in Seq(S) /\ Len(a \o b) = Len(a) + Len(b)
          /\ \A j \in 1 .. Len(a) + Len(b) : (a \o b)[j] = IF j <= Len(a) THEN a[j] ELSE b[j - Len(a)]
      <4>1. a \in Seq(S) /\ b \in Seq(S)
        BY <1>1, <1>2
      <4> QED BY <4>1, ConcatProperties
    <3> QED BY <3>1, <2>1
  <2>3. DOMAIN (a \o b) = 1 .. Len(s) - 1
    BY <2>2, LenProperties
  <2>4. \A j \in 1 .. Len(s) - 1 : j <= Len(a) <=> j < i
    BY <1>1
  <2> QED BY <1>1, <2>2, <2>3, <2>4
<1>4. ASSUME NEW j \in 1 .. Len(s) - 1, j >= i
      PROVE  b[j - (i - 1)] = s[j + 1]
  <2>1. j - (i - 1) \in 1 .. Len(s) - i /\ i + (j - (i - 1)) = j + 1
    BY <1>4
  <2> QED BY <2>1, <1>2
<1>5. \A j \in 1 .. Len(s) - 1 : j < i => a[j] = s[j]
  BY <1>1
<1>6. RemoveAt(s, i) = a \o b
  BY DEF RemoveAt, a, b
<1> QED BY <1>3, <1>4, <1>5, <1>6

\* The sequence with e as its i-th element, before the one that was.
LEMMA InsertAtFacts ==
    ASSUME NEW S, NEW s \in Seq(S), NEW i \in 1 .. Len(s) + 1, NEW e \in S
    PROVE  /\ InsertAt(s, i, e) \in Seq(S)
           /\ Len(InsertAt(s, i, e)) = Len(s) + 1
           /\ DOMAIN InsertAt(s, i, e) = 1 .. Len(s) + 1
           /\ \A j \in 1 .. Len(s) + 1 :
                 InsertAt(s, i, e)[j] = IF j < i THEN s[j] ELSE IF j = i THEN e ELSE s[j - 1]
<1> DEFINE a == SubSeq(s, 1, i - 1)
           b == SubSeq(s, i, Len(s))
           t == <<e>> \o b
<1>1. /\ a \in Seq(S) /\ Len(a) = i - 1
      /\ \A j \in 1 .. i - 1 : a[j] = s[j]
  OBVIOUS
<1>2. /\ b \in Seq(S) /\ Len(b) = Len(s) - i + 1
      /\ \A j \in 1 .. Len(s) - i + 1 : b[j] = s[i + j - 1]
  OBVIOUS
<1> HIDE DEF a, b
<1>3. /\ t \in Seq(S) /\ Len(t) = Len(s) - i + 2
      /\ t[1] = e /\ \A j \in 2 .. Len(s) - i + 2 : t[j] = b[j - 1]
  BY <1>2
<1>4. \A j \in 2 .. Len(s) - i + 2 : t[j] = s[i + j - 2]
  BY <1>2, <1>3
<1> HIDE DEF t
<1>5. /\ a \o t \in Seq(S) /\ Len(a \o t) = Len(s) + 1
      /\ DOMAIN (a \o t) = 1 .. Len(s) + 1
      /\ \A j \in 1 .. Len(s) + 1 : (a \o t)[j] = IF j < i THEN a[j] ELSE t[j - (i - 1)]
  BY <1>1, <1>3
<1>6. ASSUME NEW j \in 1 .. Len(s) + 1, j > i
      PROVE  t[j - (i - 1)] = s[j - 1]
  <2>1. j - (i - 1) \in 2 .. Len(s) - i + 2 /\ i + (j - (i - 1)) - 2 = j - 1
    BY <1>6
  <2> QED BY <2>1, <1>4
<1>7. \A j \in 1 .. Len(s) + 1 : j < i => a[j] = s[j]
  BY <1>1
<1>8. i - (i - 1) = 1
  OBVIOUS
<1>9. InsertAt(s, i, e) = a \o t
  <2>1. a \o <<e>> \o b = a \o t
    <3>1. <<e>> \in Seq(S)
      OBVIOUS
    <3> QED BY <1>1, <1>2, <3>1, ConcatAssociative DEF t
  <2> QED BY <2>1 DEF InsertAt, a, b
<1> QED BY <1>3, <1>5, <1>6, <1>7, <1>8, <1>9
=============================================================================
