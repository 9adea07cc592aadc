------------------------ MODULE InterpolationProofs ------------------------
(* Proofs about Interpolation, for any tree, configuration and depth.       *)
EXTENDS Interpolation, LoopLemmas, FiniteSetTheorems

-----------------------------------------------------------------------------
(* The tree.                                                                *)

Result == Seq(Node \cup {Literal})
Containers == {n \in Node : Holds(n, "box")}

LEMMA NodesHold ==
    ASSUME ConfigAssumption, content \in Configs, NEW n \in Node
    PROVE  content[n].kind \in Kind /\ content[n].pieces \in Seq(Piece)
BY DEF ConfigAssumption

\* The container of a node there is, and the containers around it.
LEMMA ParentHolds ==
    ASSUME TreeAssumption, ConfigAssumption, content \in Configs,
           NEW n \in Node \ {Root}, ~Holds(n, "absent")
    PROVE  Parent[n] \in Containers
BY DEF TreeAssumption, ConfigAssumption, Holds, Containers

LEMMA RootHolds ==
    ASSUME TreeAssumption, ConfigAssumption, content \in Configs
    PROVE  Root \in Containers
BY DEF TreeAssumption, ConfigAssumption, Holds, Containers

LEMMA UpHolds ==
    ASSUME TreeAssumption, ConfigAssumption, content \in Configs, NEW n \in Containers
    PROVE  UpFrom(n) \subseteq Containers
<1>1. n = Root => UpFrom(n) = {}
  BY DEF UpFrom
<1>2. n # Root => UpFrom(n) = {Parent[n]} /\ n \in Node \ {Root} /\ ~Holds(n, "absent")
  BY DEF UpFrom, Containers, Holds
<1> QED BY <1>1, <1>2, ParentHolds

\* The dots in front of a path lead from a container to a container, or to none.
LEMMA BaseHolds ==
    ASSUME TreeAssumption, ConfigAssumption, content \in Configs,
           NEW c \in Containers, NEW up \in Nat
    PROVE  Base(c, up) \subseteq Containers /\ \A x, y \in Base(c, up) : x = y
<1>1. CASE up = 0
  BY <1>1, RootHolds DEF Base
<1>2. CASE up # 0
  <2> DEFINE S == {s \in SUBSET Containers : \A x, y \in s : x = y}
             base == {c}
             Ups(s) == UNION {UpFrom(m) : m \in s}
             Body(f) == [k \in 1 .. up |-> IF k = 1 THEN base ELSE Ups(f[k - 1])]
             above == CHOOSE f : f = Body(f)
             n == up - 1
             step == [p \in S \X (1 .. n) |-> Ups(p[1])]
  <2>1. ASSUME NEW s \in S PROVE Ups(s) \in S
    <3>1. \A m \in s : UpFrom(m) \subseteq Containers
      BY UpHolds
    <3>2. \A m \in s : \A x, y \in UpFrom(m) : x = y
      BY DEF UpFrom
    <3> QED BY <3>1, <3>2
  <2>2. n \in Nat /\ base \in S /\ n + 1 = up
    BY <1>2
  <2>3. Base(c, up) = above[up]
    BY <1>2 DEF Base
  <2> HIDE DEF Ups, S, n, base
  <2>4. step \in Steps(n, S)
    BY <2>1 DEF Steps
  <2>5. \A s \in S, k \in 1 .. n : step[<<s, k>>] = Ups(s)
    OBVIOUS
  <2> HIDE DEF step
  <2>6. PICK d \in [0 .. n -> S] : Recursion(d, n, base, step)
    BY <2>2, <2>4, RecursionTo
  <2>7. \A k \in 0 .. n - 1 : d[k + 1] = Ups(d[k])
    <3> TAKE k \in 0 .. n - 1
    <3> DEFINE i == k + 1
    <3>1. k \in 0 .. n /\ i \in 1 .. n
      BY <2>2
    <3>2. d[k] \in S /\ d[i] = step[<<d[k], i>>]
      BY <2>6, <3>1 DEF Recursion
    <3> HIDE DEF i
    <3>3. d[i] = Ups(d[k])
      BY <2>5, <3>1, <3>2
    <3> QED BY <3>3 DEF i
  <2> DEFINE e == [k \in 1 .. up |-> d[k - 1]]
  <2>8. e = Body(e)
    <3>1. ASSUME NEW k \in 1 .. up
          PROVE  e[k] = IF k = 1 THEN base ELSE Ups(e[k - 1])
      <4>1. CASE k = 1
        BY <2>6, <4>1 DEF Recursion
      <4>2. CASE k # 1
        <5> DEFINE j == k - 2
        <5>1. j \in 0 .. n - 1 /\ k - 1 = j + 1 /\ k - 1 \in 1 .. up /\ (k - 1) - 1 = j
          BY <2>2, <4>2
        <5>2. e[k] = d[k - 1] /\ e[k - 1] = d[(k - 1) - 1]
          BY <5>1
        <5> HIDE DEF j, e
        <5>3. d[j + 1] = Ups(d[j])
          BY <2>7, <5>1
        <5> QED BY <4>2, <5>1, <5>2, <5>3
      <4> QED BY <4>1, <4>2
    <3>2. e = [k \in 1 .. up |-> e[k]]
      OBVIOUS
    <3>3. [k \in 1 .. up |-> e[k]] = [k \in 1 .. up |-> IF k = 1 THEN base ELSE Ups(e[k - 1])]
      <4> HIDE DEF e
      <4> QED BY <3>1
    <3> HIDE DEF e
    <3> QED BY <3>2, <3>3
  <2>9. above = Body(above)
    <3> HIDE DEF Body
    <3> QED BY <2>8, Zenon
  <2> HIDE DEF above
  <2>10. \A k \in 1 .. up : above[k] = IF k = 1 THEN base ELSE Ups(above[k - 1])
    BY <2>9
  <2> DEFINE T == {k \in 0 .. n : above[k + 1] \in S}
  <2>11. \A k \in 0 .. n : k \in T
    <3>1. 0 \in T
      <4>1. 0 + 1 = 1 /\ 1 \in 1 .. up /\ 0 \in 0 .. n
        BY <2>2
      <4> QED BY <2>2, <2>10, <4>1
    <3>2. ASSUME NEW k \in 0 .. n - 1, k \in T PROVE k + 1 \in T
      <4> DEFINE q == (k + 1) + 1
      <4>1. q \in 1 .. up /\ q # 1 /\ q - 1 = k + 1 /\ k + 1 \in 0 .. n
        BY <2>2
      <4>2. above[k + 1] \in S
        BY <3>2
      <4> HIDE DEF q
      <4>3. above[q] = Ups(above[k + 1])
        BY <2>10, <4>1
      <4>4. above[q] \in S
        BY <2>1, <4>2, <4>3
      <4> QED BY <4>1, <4>4 DEF q
    <3> HIDE DEF T
    <3> QED BY <2>2, <3>1, <3>2, InductionTo
  <2>12. n \in T
    BY <2>2, <2>11
  <2>13. above[up] \in S
    BY <2>2, <2>12
  <2> QED BY <2>3, <2>13 DEF S
<1> QED BY <1>1, <1>2

-----------------------------------------------------------------------------
(* Frames.                                                                  *)

DerefFrame == [call : {"deref"}, node : Node, left : Seq(Piece), got : Result, memoed : BOOLEAN]
SelectFrame == [call : {"select"}, at : Node, path : Seq(Key), on : Node \cup {NoResult},
                memoed : BOOLEAN]
Frame == DerefFrame \cup SelectFrame

\* A frame the code can make.
Sound(f) ==
    \/ f \in DerefFrame /\ Holds(f.node, "interp")
    \/ f \in SelectFrame /\ Holds(f.at, "box") /\ f.path # <<>>

\* The frame waits, with a memo, for the node of the last key of its path.
Waits(f) == f.call = "select" /\ f.memoed /\ f.on \in Node /\ Len(f.path) = 1

LEMMA DerefSound ==
    ASSUME ConfigAssumption, content \in Configs, NEW n \in Node, Holds(n, "interp"),
           NEW memoed \in BOOLEAN
    PROVE  Sound(Deref(n, memoed)) /\ Deref(n, memoed).call = "deref"
           /\ Deref(n, memoed).memoed = memoed /\ ~Waits(Deref(n, memoed))
<1>1. content[n].pieces \in Seq(Piece)
  BY NodesHold
<1>2. <<>> \in Result
  BY DEF Result
<1> QED BY <1>1, <1>2 DEF Deref, Sound, DerefFrame, Waits

LEMMA SelectSound ==
    ASSUME NoResult \notin Node, NEW c \in Containers, NEW p \in Seq(Key), p # <<>>,
           NEW memoed \in BOOLEAN
    PROVE  /\ Sound(Select(c, p, memoed)) /\ ~Waits(Select(c, p, memoed))
           /\ Select(c, p, memoed).call = "select" /\ Select(c, p, memoed).path = p
           /\ Select(c, p, memoed).on = NoResult /\ Select(c, p, memoed).memoed = memoed
BY DEF Select, Sound, SelectFrame, Waits, Containers

\* A call in progress, by its kind.
LEMMA FramesAre ==
    ASSUME NEW f, Sound(f)
    PROVE  /\ f \in Frame /\ f.memoed \in BOOLEAN
           /\ f.call = "deref" \/ f.call = "select"
           /\ f.call = "deref" => /\ f \in DerefFrame /\ f.node \in Node /\ Holds(f.node, "interp")
                                  /\ f.left \in Seq(Piece) /\ f.got \in Result /\ ~Waits(f)
           /\ f.call = "select" => /\ f \in SelectFrame /\ f.at \in Containers
                                   /\ f.path \in Seq(Key) /\ f.path # <<>>
                                   /\ f.on \in Node \cup {NoResult}
BY DEF Sound, Frame, DerefFrame, SelectFrame, Waits, Containers

\* What a turn changes in a frame.
LEMMA Awaits ==
    ASSUME NEW f, Sound(f), f.call = "select", NEW n \in Node
    PROVE  LET g == [f EXCEPT !.on = n]
           IN  /\ Sound(g) /\ g.call = "select" /\ g.path = f.path /\ g.on = n
               /\ g.memoed = f.memoed
               /\ Waits(g) <=> f.memoed /\ Len(f.path) = 1
<1> DEFINE g == [f EXCEPT !.on = n]
<1>1. f \in SelectFrame /\ Holds(f.at, "box") /\ f.path # <<>>
  BY DEF Sound, DerefFrame
<1>2. /\ g \in SelectFrame /\ g.call = "select" /\ g.at = f.at /\ g.path = f.path /\ g.on = n
      /\ g.memoed = f.memoed
  BY <1>1 DEF SelectFrame
<1> HIDE DEF g
<1>3. Sound(g)
  BY <1>1, <1>2 DEF Sound
<1>4. Waits(g) <=> f.memoed /\ Len(f.path) = 1
  BY <1>2 DEF Waits
<1> QED BY <1>2, <1>3, <1>4 DEF g

LEMMA TailIs ==
    ASSUME NEW S, NEW p \in Seq(S), Len(p) > 1
    PROVE  /\ Tail(p) \in Seq(S) /\ Len(Tail(p)) = Len(p) - 1 /\ Tail(p) # <<>>
           /\ Head(p) = p[1] /\ \A i \in 1 .. Len(p) - 1 : Tail(p)[i] = p[i + 1]
<1>1. p # <<>> /\ Len(p) \in Nat /\ Len(<<>>) = 0
  OBVIOUS
<1>2. /\ Tail(p) \in Seq(S) /\ Len(Tail(p)) = Len(p) - 1
      /\ \A i \in 1 .. Len(Tail(p)) : Tail(p)[i] = p[i + 1]
  BY <1>1, HeadTailProperties
<1>3. Len(Tail(p)) # Len(<<>>)
  BY <1>1, <1>2
<1> QED BY <1>1, <1>2, <1>3

LEMMA NotOne == ASSUME NEW S, NEW p \in Seq(S), Len(p) > 1 PROVE Len(p) # 1
<1> DEFINE n == Len(p)
<1>1. n \in Nat /\ n > 1
  OBVIOUS
<1> HIDE DEF n
<1>2. n # 1
  BY <1>1
<1> QED BY <1>2 DEF n

Entered(f, c) == [f EXCEPT !.at = c, !.path = Tail(@)]

LEMMA Enters ==
    ASSUME NEW f, Sound(f), f.call = "select", Len(f.path) > 1, NEW c \in Containers
    PROVE  /\ Sound(Entered(f, c)) /\ Entered(f, c).call = "select"
           /\ Entered(f, c).path = Tail(f.path) /\ Entered(f, c).on = f.on
           /\ Entered(f, c).memoed = f.memoed
<1> DEFINE g == Entered(f, c)
<1>1. f \in SelectFrame /\ f.path # <<>>
  BY DEF Sound, DerefFrame
<1>2. f.path \in Seq(Key)
  BY <1>1 DEF SelectFrame
<1>3. Tail(f.path) \in Seq(Key) /\ Tail(f.path) # <<>>
  BY <1>2, TailIs
<1>5. /\ g \in SelectFrame /\ g.call = "select" /\ g.at = c /\ g.path = Tail(f.path)
      /\ g.on = f.on /\ g.memoed = f.memoed
  BY <1>1, <1>3 DEF SelectFrame, Containers, Entered
<1> HIDE DEF g
<1>6. Sound(g)
  BY <1>3, <1>5 DEF Sound, Containers
<1> QED BY <1>5, <1>6 DEF g

LEMMA EntersResolved ==
    ASSUME NEW f, Sound(f), f.call = "select", Len(f.path) > 1, NEW c \in Containers,
           NoResult \notin Node
    PROVE  LET g == [f EXCEPT !.at = c, !.path = Tail(@), !.on = NoResult]
           IN  /\ Sound(g) /\ g.call = "select" /\ g.path = Tail(f.path) /\ g.on = NoResult
               /\ g.memoed = f.memoed /\ ~Waits(g)
<1> DEFINE g == [f EXCEPT !.at = c, !.path = Tail(@), !.on = NoResult]
<1>1. f \in SelectFrame /\ f.path # <<>>
  BY DEF Sound, DerefFrame
<1>2. f.path \in Seq(Key)
  BY <1>1 DEF SelectFrame
<1>3. Tail(f.path) \in Seq(Key) /\ Tail(f.path) # <<>>
  BY <1>2, TailIs
<1>5. /\ g \in SelectFrame /\ g.call = "select" /\ g.at = c /\ g.path = Tail(f.path)
      /\ g.on = NoResult /\ g.memoed = f.memoed
  BY <1>1, <1>3 DEF SelectFrame, Containers
<1> HIDE DEF g
<1>6. Sound(g) /\ ~Waits(g)
  BY <1>3, <1>5 DEF Sound, Containers, Waits
<1> QED BY <1>5, <1>6 DEF g

LEMMA Takes ==
    ASSUME NEW f, Sound(f), f.call = "deref", f.left # <<>>, NEW r \in Result
    PROVE  LET g == [f EXCEPT !.left = Tail(@), !.got = r]
           IN  Sound(g) /\ g.call = "deref" /\ g.memoed = f.memoed /\ ~Waits(g)
<1> DEFINE g == [f EXCEPT !.left = Tail(@), !.got = r]
<1>1. f \in DerefFrame /\ Holds(f.node, "interp")
  BY DEF Sound, SelectFrame
<1>2. Tail(f.left) \in Seq(Piece)
  BY <1>1 DEF DerefFrame
<1>3. g \in DerefFrame /\ g.call = "deref" /\ g.node = f.node /\ g.memoed = f.memoed
  BY <1>1, <1>2 DEF DerefFrame
<1> HIDE DEF g
<1> QED BY <1>1, <1>3 DEF Sound, Waits, g

-----------------------------------------------------------------------------
(* Stacks.                                                                  *)

Waiting(s) == {n \in Node : \E k \in DOMAIN s : Waits(s[k]) /\ s[k].on = n}

\* A stack of sound frames, of which no two wait for the same node; m is the set
\* of the nodes they wait for.
Stacked(s, m) ==
    /\ s \in Seq(Frame)
    /\ \A k \in DOMAIN s : Sound(s[k])
    /\ \A i, j \in DOMAIN s : Waits(s[i]) /\ Waits(s[j]) /\ s[i].on = s[j].on => i = j
    /\ m = Waiting(s)

LEMMA EmptyStacked == Stacked(<<>>, {})
BY DEF Stacked, Waiting

LEMMA PushedStacked ==
    ASSUME NEW s, NEW m, Stacked(s, m), NEW g, Sound(g), ~Waits(g)
    PROVE  /\ Stacked(Append(s, g), m) /\ Len(Append(s, g)) = Len(s) + 1
           /\ Append(s, g)[Len(s) + 1] = g /\ \A k \in DOMAIN s : Append(s, g)[k] = s[k]
<1> DEFINE t == Append(s, g)
           n == Len(s)
<1>1. s \in Seq(Frame) /\ n \in Nat /\ DOMAIN s = 1 .. n /\ g \in Frame
  BY FramesAre DEF Stacked
<1>2. /\ t \in Seq(Frame) /\ Len(t) = n + 1 /\ DOMAIN t = 1 .. n + 1
      /\ t[n + 1] = g /\ \A k \in 1 .. n : t[k] = s[k]
  BY <1>1
<1>3. \A k \in 1 .. n + 1 : k = n + 1 \/ k \in 1 .. n
  BY <1>1
<1> HIDE DEF t, n
<1>4. \A k \in DOMAIN t : Sound(t[k])
  BY <1>1, <1>2, <1>3 DEF Stacked
<1>5. \A k \in DOMAIN t : Waits(t[k]) => k \in DOMAIN s
  BY <1>1, <1>2, <1>3
<1>6. \A i, j \in DOMAIN t : Waits(t[i]) /\ Waits(t[j]) /\ t[i].on = t[j].on => i = j
  BY <1>1, <1>2, <1>5 DEF Stacked
<1>7. Waiting(t) = Waiting(s)
  <2>1. \A k \in DOMAIN s : k \in DOMAIN t
    BY <1>1, <1>2
  <2> QED BY <1>1, <1>2, <1>5, <2>1 DEF Waiting
<1> QED BY <1>1, <1>2, <1>4, <1>6, <1>7 DEF Stacked, t, n

LEMMA ReplacedStacked ==
    ASSUME NEW s, NEW m, Stacked(s, m), s # <<>>, ~Waits(s[Len(s)]),
           NEW f, Sound(f), Waits(f) => f.on \notin m
    PROVE  LET t == [s EXCEPT ![Len(s)] = f]
           IN  /\ Stacked(t, IF Waits(f) THEN m \cup {f.on} ELSE m)
               /\ Len(t) = Len(s) /\ t[Len(s)] = f
               /\ \A k \in DOMAIN s : k # Len(s) => t[k] = s[k]
<1> DEFINE n == Len(s)
           t == [s EXCEPT ![n] = f]
<1>1. s \in Seq(Frame) /\ n \in Nat /\ DOMAIN s = 1 .. n /\ n \in DOMAIN s /\ f \in Frame
  BY FramesAre DEF Stacked
<1> HIDE DEF n
<1>2. /\ t \in Seq(Frame) /\ Len(t) = Len(s) /\ DOMAIN t = DOMAIN s
      /\ t[n] = f /\ \A k \in DOMAIN s : k # n => t[k] = s[k]
  BY <1>1, ExceptIs
<1> HIDE DEF t
<1>3. \A k \in DOMAIN t : Sound(t[k])
  BY <1>2 DEF Stacked
<1>4. \A k \in DOMAIN s : Waits(s[k]) => k # n /\ t[k] = s[k] /\ s[k].on \in m
  BY <1>2 DEF Stacked, Waiting, n, Waits
<1>5. \A k \in DOMAIN t : Waits(t[k]) => k = n \/ Waits(s[k])
  BY <1>2
<1>6. \A i, j \in DOMAIN t : Waits(t[i]) /\ Waits(t[j]) /\ t[i].on = t[j].on => i = j
  BY <1>2, <1>4, <1>5 DEF Stacked
<1>7. Waiting(t) = IF Waits(f) THEN m \cup {f.on} ELSE m
  <2>1. m = Waiting(s)
    BY DEF Stacked
  <2>2. Waits(f) => f.on \in Node
    BY DEF Waits
  <2>3. \A x \in Node : x \in Waiting(t) <=> x \in m \/ (Waits(f) /\ x = f.on)
    <3> TAKE x \in Node
    <3>1. x \in Waiting(t) => x \in m \/ (Waits(f) /\ x = f.on)
      BY <1>2, <1>4, <1>5 DEF Waiting
    <3>2. x \in m => x \in Waiting(t)
      BY <1>2, <1>4, <2>1 DEF Waiting
    <3>3. Waits(f) /\ x = f.on => x \in Waiting(t)
      BY <1>1, <1>2 DEF Waiting
    <3> QED BY <3>1, <3>2, <3>3
  <2>4. Waiting(t) \subseteq Node /\ m \subseteq Node
    BY <2>1 DEF Waiting
  <2> QED BY <2>2, <2>3, <2>4
<1> QED BY <1>2, <1>3, <1>6, <1>7 DEF Stacked, t, n

LEMMA PoppedStacked ==
    ASSUME NEW s, NEW m, Stacked(s, m), s # <<>>
    PROVE  LET t == SubSeq(s, 1, Len(s) - 1)
               f == s[Len(s)]
           IN  /\ Stacked(t, IF Waits(f) THEN m \ {f.on} ELSE m)
               /\ Len(t) = Len(s) - 1
               /\ \A k \in 1 .. Len(s) - 1 : t[k] = s[k]
<1> DEFINE n == Len(s)
           t == SubSeq(s, 1, n - 1)
           f == s[n]
<1>1. s \in Seq(Frame) /\ n \in Nat /\ DOMAIN s = 1 .. n /\ n \in DOMAIN s /\ n > 0
  BY DEF Stacked
<1>2. /\ t \in Seq(Frame) /\ Len(t) = n - 1 /\ DOMAIN t = 1 .. n - 1
      /\ \A k \in 1 .. n - 1 : t[k] = s[k]
  BY <1>1
<1> HIDE DEF t, n
<1>3. \A k \in 1 .. n : k = n \/ (k \in 1 .. n - 1 /\ k # n)
  BY <1>1
<1>4. \A k \in 1 .. n - 1 : k \in 1 .. n /\ k # n
  BY <1>1
<1>5. \A k \in DOMAIN t : Sound(t[k])
  BY <1>1, <1>2, <1>4 DEF Stacked
<1>6. \A i, j \in DOMAIN t : Waits(t[i]) /\ Waits(t[j]) /\ t[i].on = t[j].on => i = j
  BY <1>1, <1>2, <1>4 DEF Stacked
<1>7. Waiting(t) = IF Waits(f) THEN m \ {f.on} ELSE m
  <2>1. m = Waiting(s)
    BY DEF Stacked
  <2>2. \A i, j \in DOMAIN s : Waits(s[i]) /\ Waits(s[j]) /\ s[i].on = s[j].on => i = j
    BY DEF Stacked
  <2>3. \A x \in Node : x \in Waiting(t) <=> x \in m /\ ~(Waits(f) /\ x = f.on)
    <3> TAKE x \in Node
    <3>1. x \in Waiting(t) => x \in m /\ ~(Waits(f) /\ x = f.on)
      BY <1>1, <1>2, <1>4, <2>1, <2>2 DEF Waiting
    <3>2. x \in m /\ ~(Waits(f) /\ x = f.on) => x \in Waiting(t)
      BY <1>1, <1>2, <1>3, <2>1 DEF Waiting
    <3> QED BY <3>1, <3>2
  <2>4. Waiting(t) \subseteq Node /\ m \subseteq Node
    BY <2>1 DEF Waiting
  <2> QED BY <2>3, <2>4
<1> QED BY <1>1, <1>2, <1>5, <1>6, <1>7 DEF Stacked, t, n

-----------------------------------------------------------------------------
(* The invariant: what TypeOK says and more, no two frames with a memo wait  *)
(* for the same node, and a frame that waits for a piece has one to wait for. *)

Cached(c) == c \in [Node -> Result \cup {NoResult}] /\ \A n \in Node : c[n] # NoResult => caching

Pending ==
    /\ \A k \in 1 .. Len(stack) - 1 : stack[k].call = "deref" => stack[k].left # <<>>
    /\ Running("deref") /\ ret # NoResult => Top.left # <<>>

IInv ==
    /\ content \in Configs
    /\ Stacked(stack, memo)
    /\ Pending
    /\ ret \in Result \cup {NoResult, Error}
    /\ Cached(cache)
    /\ caching \in BOOLEAN /\ overflow \in BOOLEAN
    /\ todo \subseteq {n \in Node : Holds(n, "interp")}
    /\ asked = NoResult => stack = <<>> /\ ret = NoResult

LEMMA InvariantImplies ==
    ASSUME NoResult \notin Node, IInv
    PROVE  MemoIsStack
<1>1. stack \in Seq(Frame) /\ \A k \in DOMAIN stack : Sound(stack[k])
  BY DEF IInv, Stacked
<1>2. ASSUME NEW k \in DOMAIN stack
      PROVE  /\ stack[k].call \in {"deref", "select"} /\ stack[k].memoed \in BOOLEAN
             /\ stack[k].call = "deref" => Holds(stack[k].node, "interp")
             /\ stack[k].call = "select" => Holds(stack[k].at, "box") /\ stack[k].path # <<>>
  BY <1>1, FramesAre DEF Containers
<1>3. ret \in {NoResult, Error} \/ \A k \in DOMAIN ret : ret[k] \in Node \cup {Literal}
  <2>1. \A r \in Result : \A k \in DOMAIN r : r[k] \in Node \cup {Literal}
    BY DEF Result
  <2> QED BY <2>1 DEF IInv
<1>4. memo = {n \in Node : \E k \in DOMAIN stack :
                /\ stack[k].call = "select" /\ stack[k].memoed
                /\ stack[k].on = n /\ Len(stack[k].path) = 1}
  BY DEF IInv, Stacked, Waiting, Waits
<1>5. memo \subseteq Node
  BY <1>4
<1> QED BY <1>2, <1>3, <1>4, <1>5 DEF MemoIsStack, TypeOK, IInv, Cached

LEMMA BelowTop ==
    ASSUME NEW n \in Nat \ {0}
    PROVE  /\ \A k \in 1 .. n : k = n \/ k \in 1 .. n - 1
           /\ \A k \in 1 .. n - 1 : k \in 1 .. n /\ k # n
OBVIOUS

\* The frame on top.
LEMMA TopIs ==
    ASSUME IInv, stack # <<>>
    PROVE  /\ stack \in Seq(Frame) /\ Len(stack) \in Nat \ {0}
           /\ DOMAIN stack = 1 .. Len(stack) /\ Len(stack) \in DOMAIN stack
           /\ Top = stack[Len(stack)] /\ Sound(Top)
           /\ \A k \in DOMAIN stack : k = Len(stack) \/ k \in 1 .. Len(stack) - 1
           /\ \A k \in 1 .. Len(stack) - 1 : k \in DOMAIN stack /\ k # Len(stack)
<1>1. stack \in Seq(Frame) /\ \A k \in DOMAIN stack : Sound(stack[k])
  BY DEF IInv, Stacked
<1>2. Len(stack) \in Nat \ {0} /\ Len(stack) \in DOMAIN stack /\ DOMAIN stack = 1 .. Len(stack)
  BY <1>1
<1>3. /\ \A k \in DOMAIN stack : k = Len(stack) \/ k \in 1 .. Len(stack) - 1
      /\ \A k \in 1 .. Len(stack) - 1 : k \in DOMAIN stack /\ k # Len(stack)
  <2> DEFINE n == Len(stack)
  <2> HIDE DEF n
  <2>1. n \in Nat \ {0} /\ DOMAIN stack = 1 .. n
    BY <1>2 DEF n
  <2>2. /\ \A k \in DOMAIN stack : k = n \/ k \in 1 .. n - 1
        /\ \A k \in 1 .. n - 1 : k \in DOMAIN stack /\ k # n
    BY <2>1, BelowTop
  <2> QED BY <2>2 DEF n
<1> QED BY <1>1, <1>2, <1>3 DEF Top

LEMMA StackedNext ==
    ASSUME NEW s, NEW m, Stacked(s, m), stack' = s, memo' = m, content' = content
    PROVE  Stacked(stack, memo)'
BY DEF Stacked, Sound, Holds, Waiting, Waits

\* A step of a call in progress that leaves the stack s and the memo m.
LEMMA StackKept ==
    ASSUME IInv, stack # <<>>, NEW s, NEW m, Stacked(s, m), stack' = s, memo' = m, Pending',
           ret' \in Result \cup {NoResult, Error}, Cached(cache'), overflow' \in BOOLEAN, Constant
    PROVE  IInv'
<1>1. /\ content' = content /\ caching' = caching /\ asked' = asked /\ todo' = todo
      /\ asked # NoResult
  BY DEF Constant, IInv
<1>2. Stacked(stack, memo)'
  BY <1>1, StackedNext
<1>3. Cached(cache)'
  BY <1>1 DEF Cached
<1> QED BY <1>1, <1>2, <1>3 DEF IInv, Holds

LEMMA ReturnKeeps ==
    ASSUME IInv, stack # <<>>, stack' = Popped,
           memo' = IF Waits(Top) THEN memo \ {Top.on} ELSE memo,
           ret' \in Result \cup {NoResult, Error}, Cached(cache'), overflow' \in BOOLEAN, Constant
    PROVE  IInv'
<1> DEFINE m == IF Waits(Top) THEN memo \ {Top.on} ELSE memo
<1>1. Stacked(stack, memo) /\ Top = stack[Len(stack)]
  BY DEF IInv, Top
<1>2. Stacked(Popped, m)
  BY <1>1, PoppedStacked DEF Popped
<1>3. memo' = m
  OBVIOUS
<1>4. Pending'
  <2> DEFINE s == Popped
  <2>1. /\ Len(s) = Len(stack) - 1 /\ Len(stack) \in Nat \ {0}
        /\ \A k \in 1 .. Len(stack) - 1 : s[k] = stack[k]
    BY <1>1, PoppedStacked, TopIs DEF Popped
  <2>2. s # <<>> => Len(s) # 0
    BY <1>2 DEF Stacked
  <2>3. stack' = s
    OBVIOUS
  <2>4. \A k \in 1 .. Len(stack) - 1 : stack[k].call = "deref" => stack[k].left # <<>>
    BY DEF IInv, Pending
  <2> HIDE DEF s
  <2>5. \A k \in 1 .. Len(s) : s[k].call = "deref" => s[k].left # <<>>
    BY <2>1, <2>4
  <2>6. s # <<>> => Len(s) \in 1 .. Len(s)
    BY <2>1, <2>2
  <2>7. \A k \in 1 .. Len(s) - 1 : k \in 1 .. Len(s)
    BY <2>1
  <2> QED BY <2>3, <2>5, <2>6, <2>7 DEF Pending, Running, Top
<1> HIDE DEF m
<1> QED BY <1>2, <1>3, <1>4, StackKept

LEMMA TurnKeeps ==
    ASSUME IInv, stack # <<>>, ~Waits(Top), NEW f, Sound(f), ~Waits(f), stack' = Replaced(f),
           memo' = memo, cache' = cache, overflow' = overflow,
           ret' \in {ret, NoResult}, f.call = "deref" /\ ret' # NoResult => f.left # <<>>, Constant
    PROVE  IInv'
<1>1. Stacked(stack, memo) /\ Top = stack[Len(stack)]
  BY DEF IInv, Top
<1>2. /\ Stacked(Replaced(f), memo) /\ Len(Replaced(f)) = Len(stack)
      /\ Replaced(f)[Len(stack)] = f
      /\ \A k \in DOMAIN stack : k # Len(stack) => Replaced(f)[k] = stack[k]
  BY <1>1, ReplacedStacked DEF Replaced
<1>4. Pending'
  <2>1. \A k \in 1 .. Len(stack) - 1 : k \in DOMAIN stack /\ k # Len(stack)
    BY TopIs
  <2> QED BY <1>2, <2>1 DEF Pending, IInv, Running, Top
<1>3. ret' \in Result \cup {NoResult, Error} /\ Cached(cache') /\ overflow' \in BOOLEAN
  BY DEF IInv
<1> QED BY <1>2, <1>3, <1>4, StackKept

LEMMA CallKeeps ==
    ASSUME IInv, stack # <<>>, ~Waits(Top), NEW f, Sound(f), NEW g, Sound(g), ~Waits(g),
           Waits(f) => f.on \notin memo, Call(f, g),
           memo' = IF Waits(f) /\ Len(stack) < MaxDepth THEN memo \cup {f.on} ELSE memo,
           f.call = "deref" => f.left # <<>>, cache' = cache, Constant
    PROVE  IInv'
<1>1. Stacked(stack, memo) /\ Top = stack[Len(stack)]
  BY DEF IInv, Top
<1>2. Cached(cache')
  BY DEF IInv
<1>3. CASE Len(stack) < MaxDepth
  <2> DEFINE m == IF Waits(f) THEN memo \cup {f.on} ELSE memo
  <2>1. /\ Stacked(Replaced(f), m) /\ Len(Replaced(f)) = Len(stack)
        /\ Replaced(f)[Len(stack)] = f
        /\ \A k \in DOMAIN stack : k # Len(stack) => Replaced(f)[k] = stack[k]
    BY <1>1, ReplacedStacked DEF Replaced
  <2>2. memo' = m
    BY <1>3
  <2> HIDE DEF m
  <2> DEFINE s == Replaced(f)
             t == Append(s, g)
  <2>3. /\ Stacked(t, m) /\ Len(t) = Len(s) + 1
        /\ \A k \in DOMAIN s : t[k] = s[k]
    BY <2>1, PushedStacked
  <2>4. stack' = Append(Replaced(f), g) /\ ret' = NoResult /\ overflow' = overflow
    BY <1>3 DEF Call
  <2>5. overflow' \in BOOLEAN
    BY <2>4 DEF IInv
  <2>6. \A k \in 1 .. Len(s) : s[k].call = "deref" => s[k].left # <<>>
    <3>1. \A k \in DOMAIN stack : k = Len(stack)
              \/ (k \in 1 .. Len(stack) - 1 /\ k \in DOMAIN stack /\ k # Len(stack))
      BY TopIs
    <3>2. DOMAIN stack = 1 .. Len(stack)
      BY TopIs
    <3> HIDE DEF s
    <3> QED BY <2>1, <3>1, <3>2 DEF IInv, Pending, s
  <2>7. Len(s) \in Nat /\ DOMAIN s = 1 .. Len(s)
    BY <2>1 DEF Stacked
  <2>8. stack' = t /\ ret' = NoResult
    BY <2>4
  <2> HIDE DEF s, t
  <2>9. \A k \in 1 .. Len(t) - 1 : k \in DOMAIN s
    BY <2>3, <2>7
  <2>10. Pending'
    BY <2>3, <2>6, <2>7, <2>8, <2>9 DEF Pending
  <2> QED BY <1>2, <2>2, <2>3, <2>5, <2>8, <2>10, StackKept
<1>4. CASE ~(Len(stack) < MaxDepth)
  <2>1. stack' = Popped /\ ret' = Error /\ overflow' = TRUE /\ memo' = memo
    BY <1>4 DEF Call
  <2> QED BY <1>2, <2>1, ReturnKeeps
<1> QED BY <1>3, <1>4

LEMMA InitKeeps == TreeAssumption /\ Init => IInv
<1> SUFFICES ASSUME TreeAssumption, Init PROVE IInv
  OBVIOUS
<1>1. Stacked(stack, memo)
  BY EmptyStacked DEF Init
<1>2. Cached(cache)
  BY DEF Init, Cached
<1>3. Pending
  BY DEF Init, Pending, Running
<1> QED BY <1>1, <1>2, <1>3 DEF Init, IInv

-----------------------------------------------------------------------------
(* Each step keeps it.                                                      *)

LEMMA VisitPieceKeeps ==
    ASSUME TreeAssumption, ConfigAssumption, IInv, VisitPiece
    PROVE  IInv'
<1> DEFINE piece == Head(Top.left)
           from == Base(Parent[Top.node], piece.up)
<1>1. stack # <<>> /\ Top.call = "deref" /\ ret = NoResult /\ Top.left # <<>>
  BY DEF VisitPiece, Running
<1>2. Sound(Top) /\ content \in Configs /\ Cached(cache)
  BY <1>1, TopIs DEF IInv
<1>3. /\ Top.node \in Node /\ Holds(Top.node, "interp") /\ Top.left \in Seq(Piece)
      /\ Top.got \in Result /\ ~Waits(Top) /\ Top.memoed \in BOOLEAN
  BY <1>1, <1>2, FramesAre
<1>4. memo' = memo /\ cache' = cache /\ Constant
  BY DEF VisitPiece
<1>5. piece \in Piece /\ piece.up \in Nat /\ piece.path \in Seq(Key)
  <2>1. piece \in Piece
    BY <1>1, <1>3
  <2> QED BY <2>1 DEF Piece
<1>6. from \subseteq Containers
  <2>1. Top.node \in Node \ {Root} /\ ~Holds(Top.node, "absent")
    BY <1>2, <1>3, RootHolds DEF Containers, Holds
  <2>2. Parent[Top.node] \in Containers
    BY <1>2, <2>1, ParentHolds
  <2> HIDE DEF piece
  <2> QED BY <1>2, <1>5, <2>2, BaseHolds
<1>7. CASE piece.path = <<>>
  <2> DEFINE r == Append(Top.got, Literal)
             g == [Top EXCEPT !.left = Tail(@), !.got = r]
  <2>1. r \in Result
    BY <1>3 DEF Result
  <2>2. stack' = Replaced(g) /\ ret' = ret /\ overflow' = overflow
    BY <1>7 DEF VisitPiece
  <2> HIDE DEF r
  <2>3. Sound(g) /\ ~Waits(g)
    BY <1>1, <1>2, <2>1, Takes
  <2> HIDE DEF g
  <2> QED BY <1>1, <1>3, <1>4, <2>2, <2>3, TurnKeeps
<1>8. CASE piece.path # <<>> /\ from = {}
  <2>1. Return(Error)
    BY <1>8 DEF VisitPiece
  <2> QED BY <1>1, <1>2, <1>3, <1>4, <2>1, ReturnKeeps DEF Return, IInv
<1>9. CASE piece.path # <<>> /\ from # {}
  <2>1. PICK c \in from : Call(Top, Select(c, piece.path, Top.memoed))
    BY <1>9 DEF VisitPiece
  <2> DEFINE g == Select(c, piece.path, Top.memoed)
  <2>2. Sound(g) /\ ~Waits(g)
    <3> HIDE DEF from, piece
    <3> QED BY <1>3, <1>5, <1>6, <1>9, SelectSound DEF TreeAssumption
  <2> HIDE DEF g
  <2>3. Call(Top, g)
    BY <2>1 DEF g
  <2> QED BY <1>1, <1>2, <1>3, <1>4, <2>2, <2>3, CallKeeps
<1> QED BY <1>7, <1>8, <1>9

LEMMA TakePieceKeeps == ASSUME IInv, TakePiece PROVE IInv'
<1>1. stack # <<>> /\ Top.call = "deref" /\ ret # NoResult
  BY DEF TakePiece, Running
<1>2. Sound(Top) /\ Cached(cache)
  BY <1>1, TopIs DEF IInv
<1>3. ~Waits(Top) /\ Top.got \in Result /\ Top.left # <<>>
  BY <1>1, <1>2, FramesAre DEF IInv, Pending, Running
<1>4. memo' = memo /\ cache' = cache /\ Constant
  BY DEF TakePiece
<1>5. CASE Return(Error)
  BY <1>1, <1>2, <1>3, <1>4, <1>5, ReturnKeeps DEF Return, IInv
<1>6. CASE ~Return(Error)
  <2> DEFINE r == Top.got \o ret
             g == [Top EXCEPT !.left = Tail(@), !.got = r]
  <2>1. ret # Error /\ stack' = Replaced(g) /\ ret' = NoResult /\ overflow' = overflow
    BY <1>6 DEF TakePiece
  <2>2. r \in Result
    <3>1. ret \in Result
      BY <1>1, <2>1 DEF IInv
    <3> QED BY <1>3, <3>1 DEF Result
  <2> HIDE DEF r
  <2>3. Sound(g) /\ ~Waits(g)
    BY <1>1, <1>2, <1>3, <2>2, Takes
  <2> HIDE DEF g
  <2> QED BY <1>1, <1>3, <1>4, <2>1, <2>3, TurnKeeps
<1> QED BY <1>5, <1>6

LEMMA FinishDerefKeeps == ASSUME IInv, FinishDeref PROVE IInv'
<1>1. stack # <<>> /\ Top.call = "deref"
  BY DEF FinishDeref, Running
<1>2. Sound(Top) /\ Cached(cache)
  BY <1>1, TopIs DEF IInv
<1>3. ~Waits(Top) /\ Top.got \in Result
  BY <1>1, <1>2, FramesAre
<1>4. memo' = memo /\ cache' = cache /\ Constant /\ Return(Top.got)
  BY DEF FinishDeref
<1> QED BY <1>1, <1>2, <1>3, <1>4, ReturnKeeps DEF Return, IInv

\* The nodes under a key: at most one.
LEMMA FoundIs ==
    ASSUME TreeAssumption, NEW c, NEW k
    PROVE  /\ SelectOne(c, k) \subseteq Node \ {Root}
           /\ \A m, n \in SelectOne(c, k) : m = n
           /\ \A n \in SelectOne(c, k) : Name[n] = k /\ ~Holds(n, "absent")
BY DEF TreeAssumption, SelectOne

LEMMA StepKeeps ==
    ASSUME TreeAssumption, ConfigAssumption, IInv, Step
    PROVE  IInv'
<1> DEFINE found == SelectOne(Top.at, Head(Top.path))
<1>1. stack # <<>> /\ Top.call = "select" /\ ret = NoResult /\ Top.on = NoResult /\ Len(Top.path) > 1
  BY DEF Step, Running
<1>2. Sound(Top) /\ content \in Configs /\ Cached(cache)
  BY <1>1, TopIs DEF IInv
<1>3. Top.at \in Containers /\ Top.path \in Seq(Key) /\ Top.memoed \in BOOLEAN
  BY <1>1, <1>2, FramesAre
<1>4. memo' = memo /\ cache' = cache /\ Constant
  BY DEF Step
<1>5. ~Waits(Top)
  BY <1>1 DEF Waits, TreeAssumption
<1>6. found \subseteq Node /\ \A m, n \in found : m = n
  BY FoundIs
<1>7. CASE \E n \in found : Holds(n, "interp")
  <2>1. PICK n \in found : Call([Top EXCEPT !.on = n], Deref(n, Top.memoed))
    BY <1>7 DEF Step
  <2> DEFINE f == [Top EXCEPT !.on = n]
             g == Deref(n, Top.memoed)
  <2>2. n \in Node /\ Holds(n, "interp")
    BY <1>6, <1>7, <2>1
  <2>3. Sound(f) /\ f.call = "select" /\ ~Waits(f)
    <3>1. Sound(f) /\ f.call = "select" /\ (Waits(f) <=> Top.memoed /\ Len(Top.path) = 1)
      <4> HIDE DEF found
      <4> QED BY <1>1, <1>2, <2>2, Awaits
    <3>2. Len(Top.path) # 1
      BY <1>1, <1>3, NotOne
    <3> QED BY <3>1, <3>2
  <2>4. Sound(g) /\ ~Waits(g)
    <3> HIDE DEF found
    <3> QED BY <1>2, <1>3, <2>2, DerefSound
  <2>5. Call(f, g)
    BY <2>1
  <2> HIDE DEF f, g
  <2> QED BY <1>1, <1>4, <1>5, <2>3, <2>4, <2>5, CallKeeps
<1>8. CASE ~(\E n \in found : Holds(n, "interp")) /\ \E n \in found : Holds(n, "box")
  <2>1. PICK n \in found : stack' = Replaced([Top EXCEPT !.at = n, !.path = Tail(@)])
    BY <1>8 DEF Step
  <2>2. ret' = ret /\ overflow' = overflow
    BY <1>8 DEF Step
  <2> DEFINE f == Entered(Top, n)
  <2>3. n \in Containers
    BY <1>6, <1>8, <2>1 DEF Containers
  <2>4. Sound(f) /\ f.call = "select" /\ f.on = Top.on
    <3>1. /\ Sound(f) /\ f.call = "select" /\ f.path = Tail(Top.path) /\ f.on = Top.on
          /\ f.memoed = Top.memoed
      <4> HIDE DEF found
      <4> QED BY <1>1, <1>2, <2>3, Enters
    <3> QED BY <3>1
  <2>5. stack' = Replaced(f)
    BY <2>1 DEF Entered
  <2> HIDE DEF f
  <2>6. ~Waits(f)
    BY <1>1, <2>4 DEF Waits, TreeAssumption
  <2> QED BY <1>1, <1>4, <1>5, <2>2, <2>4, <2>5, <2>6, TurnKeeps
<1>9. CASE ~(\E n \in found : Holds(n, "interp")) /\ ~(\E n \in found : Holds(n, "box"))
  <2>1. Return(Error)
    BY <1>9 DEF Step
  <2> QED BY <1>1, <1>2, <1>4, <1>5, <2>1, ReturnKeeps DEF Return, IInv
<1> QED BY <1>7, <1>8, <1>9

LEMMA StepResolvedKeeps ==
    ASSUME TreeAssumption, IInv, StepResolved
    PROVE  IInv'
<1>1. stack # <<>> /\ Top.call = "select" /\ ret # NoResult /\ Len(Top.path) > 1
  BY DEF StepResolved, Running
<1>2. Sound(Top) /\ Cached(cache)
  BY <1>1, TopIs DEF IInv
<1>3. Top.path \in Seq(Key)
  BY <1>1, <1>2, FramesAre
<1>4. memo' = memo /\ cache' = cache /\ Constant
  BY DEF StepResolved
<1>5. ~Waits(Top)
  <2>1. Len(Top.path) # 1
    BY <1>1, <1>3, NotOne
  <2> QED BY <2>1 DEF Waits
<1>6. CASE Boxes(ret) = {}
  <2>1. Return(Error)
    BY <1>6 DEF StepResolved
  <2> QED BY <1>1, <1>2, <1>4, <1>5, <2>1, ReturnKeeps DEF Return, IInv
<1>7. CASE Boxes(ret) # {}
  <2>1. PICK b \in Boxes(ret) :
            stack' = Replaced([Top EXCEPT !.at = b, !.path = Tail(@), !.on = NoResult])
    BY <1>7 DEF StepResolved
  <2>2. ret' = NoResult /\ overflow' = overflow
    BY <1>7 DEF StepResolved
  <2>3. b \in Containers
    BY <2>1 DEF Boxes, Containers
  <2> DEFINE f == [Top EXCEPT !.at = b, !.path = Tail(@), !.on = NoResult]
  <2>4. Sound(f) /\ f.call = "select" /\ ~Waits(f)
    BY <1>1, <1>2, <2>3, EntersResolved DEF TreeAssumption
  <2>5. stack' = Replaced(f)
    BY <2>1
  <2> HIDE DEF f
  <2> QED BY <1>1, <1>4, <1>5, <2>2, <2>4, <2>5, TurnKeeps
<1> QED BY <1>6, <1>7

\* The cache with one more result.
LEMMA CachedMore ==
    ASSUME NEW c, Cached(c), NEW n, NEW r \in Result
    PROVE  Cached(IF caching THEN [c EXCEPT ![n] = r] ELSE c)
BY DEF Cached

LEMMA LastKeyKeeps ==
    ASSUME TreeAssumption, ConfigAssumption, IInv, LastKey
    PROVE  IInv'
<1> DEFINE found == SelectOne(Top.at, Head(Top.path))
<1>1. stack # <<>> /\ Top.call = "select" /\ ret = NoResult /\ Top.on = NoResult /\ Len(Top.path) = 1
  BY DEF LastKey, Running
<1>2. Sound(Top) /\ content \in Configs /\ Cached(cache)
  BY <1>1, TopIs DEF IInv
<1>3. Top.at \in Containers /\ Top.path \in Seq(Key) /\ Top.memoed \in BOOLEAN
  BY <1>1, <1>2, FramesAre
<1>4. Constant
  BY DEF LastKey
<1>5. ~Waits(Top)
  BY <1>1 DEF Waits, TreeAssumption
<1>6. found \subseteq Node /\ \A m, n \in found : m = n
  BY FoundIs
<1>7. ASSUME NEW r \in Result \cup {Error, NoResult}, Return(r), memo' = memo, Cached(cache')
      PROVE  IInv'
  BY <1>1, <1>4, <1>5, <1>7, ReturnKeeps DEF Return, IInv
<1>8. CASE found = {} \/ \E n \in found : Holds(n, "missing")
  <2>1. Return(Error) /\ memo' = memo /\ cache' = cache
    BY <1>8 DEF LastKey
  <2> QED BY <1>2, <1>7, <2>1
<1>9. CASE ~(found = {} \/ \E n \in found : Holds(n, "missing"))
  <2>1. PICK n \in found :
            IF cache[n] # NoResult
            THEN Return(cache[n]) /\ UNCHANGED <<memo, cache>>
            ELSE IF Top.memoed /\ n \in memo
            THEN Return(Error) /\ UNCHANGED <<memo, cache>>
            ELSE IF Holds(n, "interp")
            THEN /\ Call([Top EXCEPT !.on = n], Deref(n, TRUE))
                 /\ memo' = IF Top.memoed /\ Len(stack) < MaxDepth THEN memo \cup {n} ELSE memo
                 /\ UNCHANGED cache
            ELSE /\ Return(<<n>>)
                 /\ cache' = IF caching THEN [cache EXCEPT ![n] = <<n>>] ELSE cache
                 /\ UNCHANGED memo
    BY <1>9 DEF LastKey
  <2>2. n \in Node
    BY <1>6
  <2> HIDE DEF found
  <2>3. CASE cache[n] # NoResult
    <3>1. Return(cache[n]) /\ memo' = memo /\ cache' = cache
      BY <2>1, <2>3
    <3>2. cache[n] \in Result \cup {Error, NoResult}
      BY <1>2, <2>2 DEF Cached
    <3> QED BY <1>2, <1>7, <3>1, <3>2
  <2>4. CASE cache[n] = NoResult /\ Top.memoed /\ n \in memo
    <3>1. Return(Error) /\ memo' = memo /\ cache' = cache
      BY <2>1, <2>4
    <3> QED BY <1>2, <1>7, <3>1
  <2>5. CASE cache[n] = NoResult /\ ~(Top.memoed /\ n \in memo) /\ Holds(n, "interp")
    <3> DEFINE f == [Top EXCEPT !.on = n]
               g == Deref(n, TRUE)
    <3>1. /\ Call(f, g) /\ cache' = cache
          /\ memo' = IF Top.memoed /\ Len(stack) < MaxDepth THEN memo \cup {n} ELSE memo
      BY <2>1, <2>5
    <3>2. /\ Sound(f) /\ f.call = "select" /\ f.on = n
          /\ Waits(f) <=> Top.memoed /\ Len(Top.path) = 1
      BY <1>1, <1>2, <2>2, Awaits
    <3>3. Sound(g) /\ ~Waits(g)
      BY <1>2, <2>2, <2>5, DerefSound
    <3> HIDE DEF f, g
    <3>4. Waits(f) <=> Top.memoed
      BY <1>1, <3>2
    <3>5. Waits(f) => f.on \notin memo
      BY <2>5, <3>2, <3>4
    <3>6. memo' = IF Waits(f) /\ Len(stack) < MaxDepth THEN memo \cup {f.on} ELSE memo
      BY <3>1, <3>2, <3>4
    <3> QED BY <1>1, <1>4, <1>5, <3>1, <3>2, <3>3, <3>5, <3>6, CallKeeps
  <2>6. CASE cache[n] = NoResult /\ ~(Top.memoed /\ n \in memo) /\ ~Holds(n, "interp")
    <3>1. /\ Return(<<n>>) /\ memo' = memo
          /\ cache' = IF caching THEN [cache EXCEPT ![n] = <<n>>] ELSE cache
      BY <2>1, <2>6
    <3>2. <<n>> \in Result
      BY <2>2 DEF Result
    <3>3. Cached(cache')
      BY <1>2, <3>1, <3>2, CachedMore
    <3> QED BY <1>7, <3>1, <3>2, <3>3
  <2> QED BY <2>3, <2>4, <2>5, <2>6
<1> QED BY <1>8, <1>9

LEMMA LastResolvedKeeps ==
    ASSUME TreeAssumption, IInv, LastResolved
    PROVE  IInv'
<1>1. stack # <<>> /\ Top.call = "select" /\ ret # NoResult /\ Len(Top.path) = 1
  BY DEF LastResolved, Running
<1>2. Sound(Top) /\ Cached(cache) /\ ret \in Result \cup {Error}
  BY <1>1, TopIs DEF IInv
<1>3. Top.on \in Node \cup {NoResult}
  BY <1>1, <1>2, FramesAre
<1>4. memo \subseteq Node
  BY DEF IInv, Stacked, Waiting
<1>5. memo' = IF Waits(Top) THEN memo \ {Top.on} ELSE memo
  <2>1. memo' = IF Top.memoed THEN memo \ {Top.on} ELSE memo
    BY DEF LastResolved
  <2>2. Waits(Top) <=> Top.memoed /\ Top.on \in Node
    BY <1>1 DEF Waits
  <2>3. Top.on \notin Node => memo \ {Top.on} = memo
    BY <1>4
  <2> QED BY <2>1, <2>2, <2>3
<1>6. Cached(cache')
  <2>1. cache' = IF caching /\ ret # Error THEN [cache EXCEPT ![Top.on] = ret] ELSE cache
    BY DEF LastResolved
  <2>2. CASE ret = Error
    BY <1>2, <2>1, <2>2
  <2>3. CASE ret # Error
    <3>1. cache' = IF caching THEN [cache EXCEPT ![Top.on] = ret] ELSE cache
      BY <2>1, <2>3
    <3>2. ret \in Result
      BY <1>2, <2>3
    <3> QED BY <1>2, <3>1, <3>2, CachedMore
  <2> QED BY <2>2, <2>3
<1>7. Return(ret) /\ Constant
  BY DEF LastResolved
<1> QED BY <1>1, <1>2, <1>5, <1>6, <1>7, ReturnKeeps DEF Return, IInv

\* A call begins at node n.
LEMMA BeginsKeeps ==
    ASSUME ConfigAssumption, IInv, stack = <<>>, ret' = NoResult, NEW n \in Node, Holds(n, "interp"),
           NEW memoed \in BOOLEAN, stack' = <<Deref(n, memoed)>>, asked' = n, asked' # NoResult,
           todo' \subseteq todo, UNCHANGED <<content, memo, cache, caching, overflow>>
    PROVE  IInv'
<1> DEFINE g == Deref(n, memoed)
           s == Append(<<>>, g)
<1>1. content \in Configs /\ Stacked(<<>>, memo)
  BY DEF IInv
<1>2. Sound(g) /\ ~Waits(g) /\ <<g>> = s
  BY <1>1, DerefSound
<1> HIDE DEF g
<1>3. Stacked(s, memo) /\ Len(s) = 1
  BY <1>1, <1>2, PushedStacked
<1>4. stack' = s
  BY <1>2 DEF g
<1> HIDE DEF s
<1>5. Stacked(stack, memo)'
  <2>1. content' = content /\ memo' = memo
    OBVIOUS
  <2> QED BY <1>3, <1>4, <2>1, StackedNext
<1>6. Pending'
  BY <1>3, <1>4 DEF Pending
<1>7. Cached(cache)'
  BY DEF IInv, Cached
<1> QED BY <1>5, <1>6, <1>7 DEF IInv, Holds

LEMMA NextKeeps ==
    TreeAssumption /\ ConfigAssumption /\ IInv /\ [Next]_vars => IInv'
<1> SUFFICES ASSUME TreeAssumption, ConfigAssumption, IInv, [Next]_vars PROVE IInv'
  OBVIOUS
<1>1. CASE VisitPiece \/ TakePiece \/ FinishDeref
  BY <1>1, VisitPieceKeeps, TakePieceKeeps, FinishDerefKeeps
<1>2. CASE Step \/ StepResolved \/ LastKey \/ LastResolved
  BY <1>2, StepKeeps, StepResolvedKeeps, LastKeyKeeps, LastResolvedKeeps
<1>3. ASSUME NEW n \in Node, ConvertNext(n) PROVE IInv'
  <2>1. /\ stack = <<>> /\ n \in todo /\ Holds(n, "interp") /\ asked' = n /\ asked' # NoResult
        /\ todo' \subseteq todo /\ UNCHANGED <<content, memo, cache, caching, overflow>>
    BY <1>3 DEF ConvertNext, IInv, TreeAssumption
  <2>2. CASE cache[n] # NoResult
    <3>1. stack' = stack /\ ret' = cache[n]
      BY <1>3, <2>2 DEF ConvertNext
    <3>2. ret' \in Result \cup {NoResult, Error}
      BY <3>1 DEF IInv, Cached
    <3>3. Stacked(stack, memo)'
      BY <2>1, <3>1 DEF IInv, Stacked, Sound, Holds, Waiting, Waits
    <3>4. Pending'
      BY <2>1, <3>1 DEF IInv, Pending, Running
    <3> QED BY <2>1, <3>1, <3>2, <3>3, <3>4 DEF IInv, Cached, Holds
  <2>3. CASE cache[n] = NoResult
    <3>1. ret' = NoResult /\ stack' = <<Deref(n, FALSE)>>
      BY <1>3, <2>3 DEF ConvertNext
    <3> QED BY <2>1, <3>1, BeginsKeeps
  <2> QED BY <2>2, <2>3
<1>4. CASE ConvertResolved
  <2>1. /\ stack = <<>> /\ caching /\ ret \in Result
        /\ cache' = IF caching THEN [cache EXCEPT ![asked] = ret] ELSE cache
        /\ UNCHANGED <<content, stack, ret, memo, caching, asked, todo, overflow>>
    BY <1>4 DEF ConvertResolved, IInv
  <2>2. Cached(cache')
    BY <2>1, CachedMore DEF IInv
  <2>3. Cached(cache)'
    BY <2>1, <2>2 DEF Cached
  <2>4. Stacked(stack, memo)'
    BY <2>1 DEF IInv, Stacked, Sound, Holds, Waiting, Waits
  <2>5. Pending'
    BY <2>1 DEF IInv, Pending, Running, Top
  <2> QED BY <2>1, <2>3, <2>4, <2>5 DEF IInv, Holds
<1>5. ASSUME NEW n \in Node, Access(n) PROVE IInv'
  <2>1. /\ stack = <<>> /\ ret' = NoResult /\ Holds(n, "interp") /\ asked' = n /\ asked' # NoResult
        /\ stack' = <<Deref(n, TRUE)>> /\ todo' \subseteq todo
        /\ UNCHANGED <<content, memo, cache, caching, overflow>>
    BY <1>5 DEF Access, IInv, TreeAssumption
  <2> QED BY <2>1, BeginsKeeps
<1>6. CASE UNCHANGED vars
  <2>1. UNCHANGED <<content, stack, ret, memo, cache, caching, asked, todo, overflow>>
    BY <1>6 DEF vars
  <2>2. Stacked(stack, memo)'
    BY <2>1 DEF IInv, Stacked, Sound, Holds, Waiting, Waits
  <2>3. Pending'
    BY <2>1 DEF IInv, Pending, Running, Top
  <2> QED BY <2>1, <2>2, <2>3 DEF IInv, Cached, Holds
<1> QED BY <1>1, <1>2, <1>3, <1>4, <1>5, <1>6 DEF Next, Continue

\* memo holds exactly the last nodes of the walks in progress below a call that
\* has a memo, whatever returns or raises in between (_select_impl, the finally).
THEOREM MemoIsAlwaysStack == Spec => []MemoIsStack
<1>1. Init => IInv
  BY TreeAssumption, InitKeeps
<1>2. IInv /\ [Next]_vars => IInv'
  BY TreeAssumption, ConfigAssumption, NextKeeps
<1>3. IInv => MemoIsStack
  BY TreeAssumption, InvariantImplies DEF TreeAssumption
<1> QED BY <1>1, <1>2, <1>3, PTL DEF Spec

-----------------------------------------------------------------------------
(* Cycles.  If no interpolation lies on the way of a path, calls for nodes   *)
(* and walks alternate on the stack, and each walk but the last one, and one *)
(* of a conversion, has a node of its own in memo: the stack is not higher   *)
(* than twice the number of nodes, and some.                                *)

\* No interpolation lies on the way of the path p.
Clear(p) == \A i \in 1 .. Len(p) - 1, m \in Node \ {Root} : Name[m] = p[i] => ~Holds(m, "interp")

\* The frames that may lie on those that memo accounts for.
Room(f) == IF f.call = "deref" THEN 3 ELSE IF f.on = NoResult THEN 4 ELSE 2

AllClear(pieces) == \A i \in DOMAIN pieces : Clear(pieces[i].path)

Regular(f, k) ==
    /\ f.call = "deref" => AllClear(f.left)
    /\ f.memoed <=> ~caching \/ k > 2
    /\ f.call = "select" => Clear(f.path) /\ (f.on # NoResult => Len(f.path) = 1)

Alternate(f, g) == f.call # g.call /\ (f.call = "select" => f.on # NoResult)

Shallow ==
    /\ overflow = FALSE
    /\ \A k \in DOMAIN stack : Regular(stack[k], k)
    /\ \A k \in 1 .. Len(stack) - 1 : Alternate(stack[k], stack[k + 1])
    /\ stack # <<>> => /\ stack[1].call = "deref"
                       /\ Len(stack) <= 2 * Cardinality(memo) + Room(Top)
    /\ Running("select") /\ ret # NoResult => Top.on # NoResult

LEMMA MemoCounts ==
    ASSUME IsFiniteSet(Node), IInv
    PROVE  /\ memo \subseteq Node /\ IsFiniteSet(memo) /\ Cardinality(memo) \in Nat
           /\ Cardinality(memo) <= Cardinality(Node) /\ Cardinality(Node) \in Nat
           /\ \A x \in memo : Cardinality(memo \ {x}) = Cardinality(memo) - 1
           /\ \A x \in Node \ memo : Cardinality(memo \cup {x}) = Cardinality(memo) + 1
<1>1. memo \subseteq Node
  BY DEF IInv, Stacked, Waiting
<1>2. IsFiniteSet(memo) /\ Cardinality(memo) <= Cardinality(Node)
  BY <1>1, FS_Subset
<1>3. Cardinality(memo) \in Nat /\ Cardinality(Node) \in Nat
  BY <1>2, FS_CardinalityType
<1>4. \A x \in memo : Cardinality(memo \ {x}) = Cardinality(memo) - 1
  BY <1>2, FS_RemoveElement
<1>5. \A x \in Node \ memo : Cardinality(memo \cup {x}) = Cardinality(memo) + 1
  BY <1>2, FS_AddElement
<1> QED BY <1>1, <1>2, <1>3, <1>4, <1>5

\* The arithmetic of a return, of a call for a node and of a walk.
LEMMA RoomIs ==
    ASSUME NEW n \in Nat, NEW c \in Nat
    PROVE  /\ n <= 2 * c + 3 => n - 1 <= 2 * c + 2 /\ n + 1 <= 2 * c + 4
           /\ n <= 2 * c + 4 => n - 1 <= 2 * c + 3 /\ n + 1 <= 2 * (c + 1) + 3
           /\ n <= 2 * c + 2 => n - 1 <= 2 * (c - 1) + 3
           /\ n <= 2 => n - 1 <= 2 * c + 3 /\ n + 1 <= 2 * c + 3
OBVIOUS

\* A frame a walk or a call has returned from leaves a shallow stack.
LEMMA ReturnShallow ==
    ASSUME NoResult \notin Node, IsFiniteSet(Node), IInv, Shallow, stack # <<>>, stack' = Popped,
           memo' = IF Waits(Top) THEN memo \ {Top.on} ELSE memo,
           overflow' = overflow, content' = content, caching' = caching
    PROVE  Shallow'
<1> DEFINE n == Len(stack)
           C == Cardinality(memo)
           s == Popped
           f == stack[n]
           b == stack[n - 1]
<1>1. n \in Nat \ {0} /\ DOMAIN stack = 1 .. n /\ n \in DOMAIN stack /\ f = Top /\ Sound(Top)
  BY TopIs
<1>2. Len(s) = n - 1 /\ \A k \in 1 .. n - 1 : s[k] = stack[k]
  BY PoppedStacked DEF Popped, IInv
<1>3. DOMAIN s = 1 .. n - 1 /\ (s # <<>> => n - 1 \in 1 .. n - 1)
  <2>1. Stacked(s, memo \ {Top.on}) \/ Stacked(s, memo)
    BY PoppedStacked DEF Popped, IInv, Top
  <2>2. s \in Seq(Frame)
    BY <2>1 DEF Stacked
  <2>3. DOMAIN s = 1 .. Len(s) /\ (s # <<>> => Len(s) # 0)
    BY <2>2
  <2> HIDE DEF s, n
  <2> QED BY <1>1, <1>2, <2>3
<1>4. stack' = s
  OBVIOUS
<1>5. /\ \A k \in DOMAIN stack : Regular(stack[k], k)
      /\ \A k \in 1 .. n - 1 : Alternate(stack[k], stack[k + 1])
      /\ stack[1].call = "deref" /\ n <= 2 * C + Room(f)
  BY <1>1 DEF Shallow
<1> HIDE DEF n, s, C
<1>6. \A k \in 1 .. n - 1 : Regular(s[k], k)
  BY <1>1, <1>2, <1>5
<1>7. \A k \in 1 .. (n - 1) - 1 : Alternate(s[k], s[k + 1])
  <2> TAKE k \in 1 .. (n - 1) - 1
  <2> DEFINE j == k + 1
  <2>1. k \in 1 .. n - 1 /\ j \in 1 .. n - 1
    BY <1>1
  <2>2. Alternate(stack[k], stack[j])
    BY <1>5, <2>1
  <2> HIDE DEF j
  <2>3. Alternate(s[k], s[j])
    BY <1>2, <2>1, <2>2
  <2> QED BY <2>3 DEF j
<1>8. ASSUME s # <<>>
      PROVE  /\ s[1].call = "deref" /\ s[n - 1] = b
             /\ b.call = "select" => b.on # NoResult
             /\ n - 1 <= 2 * Cardinality(memo') + Room(b)
  <2>1. n - 1 \in 1 .. n - 1 /\ 1 \in 1 .. n - 1 /\ (n - 1) + 1 = n /\ n - 1 \in DOMAIN stack
    BY <1>1, <1>3, <1>8
  <2>2. s[1].call = "deref" /\ s[n - 1] = b
    BY <1>2, <1>5, <2>1
  <2>3. b.call # f.call /\ (b.call = "select" => b.on # NoResult)
    <3>1. Alternate(stack[n - 1], stack[(n - 1) + 1])
      BY <1>5, <2>1
    <3> QED BY <2>1, <3>1 DEF Alternate
  <2>4. Sound(b)
    BY <2>1 DEF IInv, Stacked
  <2>5. C \in Nat /\ memo \subseteq Node /\ \A x \in memo : Cardinality(memo \ {x}) = C - 1
    BY MemoCounts DEF C
  <2> HIDE DEF b
  <2>6. CASE f.call = "deref"
    <3>1. ~Waits(Top) /\ Room(f) = 3 /\ Room(b) = 2
      BY <1>1, <2>3, <2>4, <2>6, FramesAre DEF Room
    <3>2. Cardinality(memo') = C
      BY <3>1 DEF C
    <3>3. n <= 2 * C + 3
      BY <1>5, <3>1
    <3>4. n - 1 <= 2 * C + 2
      BY <1>1, <2>5, <3>3, RoomIs
    <3> QED BY <2>2, <2>3, <3>1, <3>2, <3>4
  <2>7. CASE f.call = "select" /\ f.on = NoResult
    <3>1. ~Waits(Top) /\ Room(f) = 4
      BY <1>1, <2>7 DEF Room, Waits
    <3>2. b.call = "deref" /\ Room(b) = 3
      BY <2>3, <2>4, <2>7, FramesAre DEF Room
    <3>3. Cardinality(memo') = C
      BY <3>1 DEF C
    <3>4. n <= 2 * C + 4
      BY <1>5, <3>1
    <3>5. n - 1 <= 2 * C + 3
      BY <1>1, <2>5, <3>4, RoomIs
    <3> QED BY <2>2, <2>3, <3>2, <3>3, <3>5
  <2>8. CASE f.call = "select" /\ f.on # NoResult
    <3>1. Room(f) = 2 /\ f.on \in Node /\ Len(f.path) = 1
      BY <1>1, <1>5, <2>8, FramesAre DEF Room, Regular
    <3>2. b.call = "deref" /\ Room(b) = 3
      BY <2>3, <2>4, <2>8, FramesAre DEF Room
    <3>3. CASE f.memoed
      <4>1. Waits(Top) /\ Top.on \in memo
        <5>1. Waits(f)
          BY <2>8, <3>1, <3>3 DEF Waits
        <5> QED BY <1>1, <3>1, <5>1 DEF IInv, Stacked, Waiting
      <4>2. Cardinality(memo') = C - 1
        BY <2>5, <4>1
      <4>3. n <= 2 * C + 2
        BY <1>5, <3>1
      <4>4. n - 1 <= 2 * (C - 1) + 3
        BY <1>1, <2>5, <4>3, RoomIs
      <4> QED BY <2>2, <2>3, <3>2, <4>2, <4>4
    <3>4. CASE ~f.memoed
      <4>1. ~Waits(Top) /\ n <= 2
        <5>1. ~(n > 2)
          BY <1>1, <1>5, <3>4 DEF Regular
        <5> QED BY <1>1, <3>4, <5>1 DEF Waits
      <4>2. Cardinality(memo') = C
        BY <4>1 DEF C
      <4>3. n - 1 <= 2 * C + 3
        BY <1>1, <2>5, <4>1, RoomIs
      <4> QED BY <2>2, <2>3, <3>2, <4>2, <4>3
    <3> QED BY <3>3, <3>4
  <2> QED BY <1>1, <2>6, <2>7, <2>8, FramesAre
<1>9. ASSUME s # <<>> PROVE Top' = b
  BY <1>2, <1>4, <1>8, <1>9 DEF Top
<1> QED BY <1>2, <1>3, <1>4, <1>6, <1>7, <1>8, <1>9 DEF Shallow, Regular, AllClear, Clear, Holds, Running
\* A step of the frame on top that calls and returns nothing.
LEMMA TurnShallow ==
    ASSUME IInv, Shallow, stack # <<>>, ~Waits(Top), NEW f, Sound(f), ~Waits(f),
           stack' = Replaced(f), f.call = Top.call, f.memoed = Top.memoed,
           f.call = "deref" => AllClear(f.left),
           f.call = "select" => Clear(f.path) /\ f.on = NoResult /\ Top.on = NoResult,
           ret' = NoResult, memo' = memo, overflow' = overflow, content' = content,
           caching' = caching
    PROVE  Shallow'
<1> DEFINE n == Len(stack)
           C == Cardinality(memo)
           s == Replaced(f)
<1>1. /\ n \in Nat \ {0} /\ DOMAIN stack = 1 .. n /\ n \in DOMAIN stack /\ stack[n] = Top
      /\ Sound(Top)
  BY TopIs
<1>2. Len(s) = n /\ s[n] = f /\ \A k \in DOMAIN stack : k # n => s[k] = stack[k]
  BY ReplacedStacked DEF Replaced, IInv, Top
<1>3. DOMAIN s = 1 .. n
  BY <1>1 DEF Replaced
<1>4. stack' = s
  OBVIOUS
<1>5. /\ \A k \in DOMAIN stack : Regular(stack[k], k)
      /\ \A k \in 1 .. n - 1 : Alternate(stack[k], stack[k + 1])
      /\ stack[1].call = "deref" /\ n <= 2 * C + Room(Top)
  BY DEF Shallow
<1> HIDE DEF n, s, C
<1>6. Room(f) = Room(Top) /\ (f.call = "deref" \/ f.call = "select")
  BY FramesAre DEF Room
<1>7. \A k \in 1 .. n : Regular(s[k], k)
  <2>1. Regular(Top, n)
    BY <1>1, <1>5
  <2>2. Regular(f, n)
    BY <2>1 DEF Regular
  <2> QED BY <1>1, <1>2, <1>5, <2>2
<1>8. \A k \in 1 .. n - 1 : Alternate(s[k], s[k + 1])
  <2> TAKE k \in 1 .. n - 1
  <2> DEFINE j == k + 1
  <2>1. k \in 1 .. n /\ k # n /\ j \in 1 .. n
    BY <1>1
  <2>2. Alternate(stack[k], stack[j]) /\ s[k] = stack[k]
    BY <1>1, <1>2, <1>5, <2>1
  <2> HIDE DEF j
  <2>3. s[j].call = stack[j].call
    BY <1>1, <1>2, <2>1
  <2>4. Alternate(s[k], s[j])
    BY <2>2, <2>3 DEF Alternate
  <2> QED BY <2>4 DEF j
<1>9. s[1].call = "deref"
  BY <1>1, <1>2, <1>5
<1>10. Top' = f
  BY <1>2, <1>4 DEF Top
<1>11. Cardinality(memo') = C
  BY DEF C
<1>12. n <= 2 * Cardinality(memo') + Room(Top')
  BY <1>5, <1>6, <1>10, <1>11
<1> QED BY <1>2, <1>3, <1>4, <1>7, <1>8, <1>9, <1>12 DEF Shallow, Regular, AllClear, Clear, Holds, Running

\* A call: of a walk for a piece, or of the resolution of a last node.
LEMMA CallShallow ==
    ASSUME NoResult \notin Node, IsFiniteSet(Node), IInv, Shallow, stack # <<>>, ~Waits(Top),
           NEW f, Sound(f), f.call = Top.call, f.memoed = Top.memoed,
           f.call = "deref" => AllClear(f.left),
           f.call = "select" => Clear(f.path) /\ Len(f.path) = 1 /\ f.on \in Node /\ Top.on = NoResult,
           Waits(f) => f.on \notin memo,
           NEW g, Sound(g), ~Waits(g), f.call # g.call, Regular(g, Len(stack) + 1),
           g.call = "select" => g.on = NoResult,
           stack' = Append(Replaced(f), g), ret' = NoResult, overflow' = overflow,
           memo' = IF Waits(f) THEN memo \cup {f.on} ELSE memo,
           content' = content, caching' = caching
    PROVE  Shallow'
<1> DEFINE n == Len(stack)
           C == Cardinality(memo)
           s == Replaced(f)
           t == Append(s, g)
           m == IF Waits(f) THEN memo \cup {f.on} ELSE memo
<1>1. /\ n \in Nat \ {0} /\ DOMAIN stack = 1 .. n /\ n \in DOMAIN stack /\ stack[n] = Top
      /\ Sound(Top)
  BY TopIs
<1>2. /\ Len(s) = n /\ s[n] = f /\ \A k \in DOMAIN stack : k # n => s[k] = stack[k]
      /\ Stacked(s, m)
  BY ZenonT(60), ReplacedStacked DEF Replaced, IInv, Top
<1>3. DOMAIN s = 1 .. n
  BY <1>1 DEF Replaced
<1>4. stack' = t /\ memo' = m
  OBVIOUS
<1>5. /\ \A k \in DOMAIN stack : Regular(stack[k], k)
      /\ \A k \in 1 .. n - 1 : Alternate(stack[k], stack[k + 1])
      /\ stack[1].call = "deref" /\ n <= 2 * C + Room(Top)
  BY DEF Shallow
<1>6. Regular(g, n + 1)
  OBVIOUS
<1> HIDE DEF s
<1>7. /\ Len(t) = n + 1 /\ t[n + 1] = g /\ \A k \in 1 .. n : t[k] = s[k]
      /\ Stacked(t, m)
  <2>1. /\ Stacked(Append(s, g), m) /\ Len(Append(s, g)) = Len(s) + 1
        /\ Append(s, g)[Len(s) + 1] = g /\ \A k \in DOMAIN s : Append(s, g)[k] = s[k]
    BY <1>2, PushedStacked
  <2> QED BY <1>2, <1>3, <2>1
<1>8. DOMAIN t = 1 .. n + 1
  <2>1. t \in Seq(Frame)
    BY <1>7 DEF Stacked
  <2> QED BY <1>7, <2>1
<1>9. C \in Nat /\ memo \subseteq Node /\ \A x \in Node \ memo : Cardinality(memo \cup {x}) = C + 1
  BY MemoCounts
<1> HIDE DEF n, t, C, m
<1>10. /\ \A k \in 1 .. n + 1 : k = n + 1 \/ k = n \/ (k \in 1 .. n - 1 /\ k \in 1 .. n /\ k # n)
       /\ n \in 1 .. n /\ n + 1 \in 1 .. n + 1 /\ 1 \in 1 .. n
  BY <1>1
<1>11. f.call = "deref" \/ f.call = "select"
  BY FramesAre
<1>12. \A k \in 1 .. n + 1 : Regular(t[k], k)
  <2>1. Regular(Top, n)
    BY <1>1, <1>5
  <2>2. Regular(f, n)
    BY <2>1 DEF Regular
  <2>3. t[n + 1] = g /\ t[n] = f
    BY <1>2, <1>7, <1>10
  <2>4. ASSUME NEW k \in 1 .. n, k # n PROVE Regular(t[k], k)
    <3>1. t[k] = stack[k] /\ k \in DOMAIN stack
      BY <1>1, <1>2, <1>7, <2>4
    <3> QED BY <1>5, <3>1
  <2> QED BY <1>6, <1>10, <2>2, <2>3, <2>4
<1>13. \A k \in 1 .. n : Alternate(t[k], t[k + 1])
  <2> TAKE k \in 1 .. n
  <2>1. CASE k = n
    <3>1. Alternate(f, g)
      BY DEF Alternate
    <3> QED BY <1>2, <1>7, <1>10, <2>1, <3>1
  <2>2. CASE k # n
    <3> DEFINE j == k + 1
    <3>1. k \in 1 .. n - 1 /\ k \in 1 .. n /\ k # n /\ j \in 1 .. n
      BY <1>1, <2>2
    <3>2. Alternate(stack[k], stack[j]) /\ t[k] = stack[k]
      BY <1>1, <1>2, <1>5, <1>7, <3>1
    <3> HIDE DEF j
    <3>3. t[j].call = stack[j].call
      BY <1>1, <1>2, <1>7, <3>1
    <3>4. Alternate(t[k], t[j])
      BY <3>2, <3>3 DEF Alternate
    <3> QED BY <3>4 DEF j
  <2> QED BY <2>1, <2>2
<1>14. t[1].call = "deref"
  <2>1. s[1].call = stack[1].call
    BY <1>1, <1>2, <1>10
  <2> QED BY <1>5, <1>7, <1>10, <2>1
<1>15. Top' = g
  <2>1. stack'[Len(stack')] = g
    BY <1>4, <1>7
  <2> QED BY <2>1 DEF Top
<1>16. n + 1 <= 2 * Cardinality(memo') + Room(g)
  <2>1. CASE f.call = "deref"
    <3>1. ~Waits(f) /\ Room(Top) = 3 /\ Room(g) = 4
      BY <2>1, FramesAre DEF Room, Waits
    <3>2. Cardinality(memo') = C
      BY <1>4, <3>1 DEF C, m
    <3>3. n <= 2 * C + 3
      BY <1>5, <3>1
    <3>4. n + 1 <= 2 * C + 4
      BY <1>1, <1>9, <3>3, RoomIs
    <3> QED BY <3>1, <3>2, <3>4
  <2>2. CASE f.call = "select"
    <3>1. Room(Top) = 4 /\ Room(g) = 3
      BY <2>2, FramesAre DEF Room
    <3>2. CASE Waits(f)
      <4>1. Cardinality(memo') = C + 1
        BY <1>4, <1>9, <2>2, <3>2 DEF m
      <4>2. n <= 2 * C + 4
        BY <1>5, <3>1
      <4>3. n + 1 <= 2 * (C + 1) + 3
        BY <1>1, <1>9, <4>2, RoomIs
      <4> QED BY <3>1, <4>1, <4>3
    <3>3. CASE ~Waits(f)
      <4>1. ~Top.memoed
        BY <2>2, <3>3 DEF Waits
      <4>2. ~(n > 2)
        <5>1. Regular(Top, n)
          BY <1>1, <1>5
        <5> QED BY <4>1, <5>1 DEF Regular
      <4>3. Cardinality(memo') = C
        BY <1>4, <3>3 DEF C, m
      <4>4. n <= 2
        BY <1>1, <4>2
      <4>5. n + 1 <= 2 * C + 3
        BY <1>1, <1>9, <4>4, RoomIs
      <4> QED BY <3>1, <4>3, <4>5
    <3> QED BY <3>2, <3>3
  <2> QED BY <1>11, <2>1, <2>2
<1>17. Len(stack') = n + 1 /\ DOMAIN stack' = 1 .. n + 1 /\ stack' = t
  BY <1>4, <1>7, <1>8
<1>18. \A k \in 1 .. (n + 1) - 1 : Alternate(t[k], t[k + 1])
  BY <1>1, <1>13
<1> QED BY <1>12, <1>14, <1>15, <1>16, <1>17, <1>18 DEF Shallow, Regular, AllClear, Clear, Holds, Running
\* The tail of a clear path is clear.
LEMMA TailClear ==
    ASSUME NEW p \in Seq(Key), Len(p) > 1, Clear(p)
    PROVE  Clear(Tail(p))
<1> DEFINE n == Len(p)
           t == Tail(p)
<1>1. n \in Nat /\ n > 1 /\ Len(t) = n - 1 /\ \A i \in 1 .. n - 1 : t[i] = p[i + 1]
  BY TailIs
<1>2. \A i \in 1 .. n - 1, m \in Node \ {Root} : Name[m] = p[i] => ~Holds(m, "interp")
  BY DEF Clear
<1> HIDE DEF n, t
<1>3. ASSUME NEW i \in 1 .. Len(t) - 1, NEW m \in Node \ {Root}, Name[m] = t[i]
      PROVE  ~Holds(m, "interp")
  <2>1. i \in 1 .. n - 1 /\ i + 1 \in 1 .. n - 1
    BY <1>1
  <2>2. Name[m] = p[i + 1]
    BY <1>1, <1>3, <2>1
  <2> QED BY <1>2, <2>1, <2>2
<1> QED BY <1>3 DEF Clear, t

\* The paths of an interpolation are clear.
LEMMA PiecesClear ==
    ASSUME WaysAreClear, NEW n \in Node
    PROVE  AllClear(content[n].pieces)
BY DEF WaysAreClear, AllClear, Clear

LEMMA RestClear ==
    ASSUME NEW pieces \in Seq(Piece), pieces # <<>>, AllClear(pieces)
    PROVE  AllClear(Tail(pieces)) /\ Clear(Head(pieces).path)
<1> DEFINE n == Len(pieces)
           t == Tail(pieces)
<1>1. /\ n \in Nat \ {0} /\ DOMAIN pieces = 1 .. n /\ DOMAIN t = 1 .. n - 1
      /\ Head(pieces) = pieces[1] /\ \A i \in 1 .. n - 1 : t[i] = pieces[i + 1]
  <2>1. t \in Seq(Piece) /\ Len(t) = n - 1 /\ \A i \in 1 .. Len(t) : t[i] = pieces[i + 1]
    BY HeadTailProperties
  <2> QED BY <2>1
<1> HIDE DEF n, t
<1>2. \A i \in 1 .. n - 1 : i + 1 \in 1 .. n
  BY <1>1
<1>3. 1 \in 1 .. n
  BY <1>1
<1> QED BY <1>1, <1>2, <1>3 DEF AllClear, t

\* Below the bound a shallow stack leaves room for a call.
LEMMA RoomLeft ==
    ASSUME IsFiniteSet(Node), TreeAssumption, MaxDepth > 2 * Cardinality(Node) + 4,
           IInv, Shallow, stack # <<>>
    PROVE  Len(stack) < MaxDepth
<1> DEFINE n == Len(stack)
           C == Cardinality(memo)
           N == Cardinality(Node)
           r == Room(Top)
<1>1. n \in Nat /\ C \in Nat /\ N \in Nat /\ C <= N /\ MaxDepth \in Nat
  BY TopIs, MemoCounts DEF TreeAssumption
<1>2. n <= 2 * C + r
  BY DEF Shallow
<1>3. r = 2 \/ r = 3 \/ r = 4
  BY DEF Room
<1>4. MaxDepth > 2 * N + 4
  OBVIOUS
<1> HIDE DEF n, C, N, r
<1>5. n < MaxDepth
  BY <1>1, <1>2, <1>3, <1>4
<1> QED BY <1>5 DEF n

LEMMA TopRegular ==
    ASSUME IInv, Shallow, stack # <<>>
    PROVE  Regular(Top, Len(stack))
<1>1. Len(stack) \in DOMAIN stack /\ Top = stack[Len(stack)]
  BY TopIs
<1>2. \A k \in DOMAIN stack : Regular(stack[k], k)
  BY DEF Shallow
<1>3. Regular(stack[Len(stack)], Len(stack))
  BY <1>1, <1>2
<1> QED BY <1>1, <1>3

-----------------------------------------------------------------------------
(* Each step keeps the stack shallow.                                       *)

\* What a walk or a call that ends leaves as it was.
LEMMA FinishDerefShallow ==
    ASSUME TreeAssumption, IsFiniteSet(Node), IInv, Shallow, FinishDeref
    PROVE  Shallow'
<1>1. stack # <<>> /\ Top.call = "deref" /\ Return(Top.got) /\ memo' = memo /\ Constant
  BY DEF FinishDeref, Running
<1>2. ~Waits(Top)
  BY <1>1 DEF Waits
<1> QED BY <1>1, <1>2, ReturnShallow DEF Return, Constant, TreeAssumption

LEMMA TakePieceShallow ==
    ASSUME TreeAssumption, IsFiniteSet(Node), IInv, Shallow, TakePiece
    PROVE  Shallow'
<1>1. stack # <<>> /\ Top.call = "deref" /\ ret # NoResult /\ memo' = memo /\ Constant
  BY DEF TakePiece, Running
<1>2. Sound(Top) /\ ~Waits(Top) /\ Top.left # <<>> /\ Top.got \in Result /\ Top.left \in Seq(Piece)
  BY <1>1, TopIs, FramesAre DEF IInv, Pending, Running
<1>3. CASE Return(Error)
  BY <1>1, <1>2, <1>3, ReturnShallow DEF Return, Constant, TreeAssumption
<1>4. CASE ~Return(Error)
  <2> DEFINE r == Top.got \o ret
             g == [Top EXCEPT !.left = Tail(@), !.got = r]
  <2>1. ret # Error /\ stack' = Replaced(g) /\ ret' = NoResult /\ overflow' = overflow
    BY <1>4 DEF TakePiece
  <2>2. r \in Result
    BY <1>1, <1>2, <2>1 DEF IInv, Result
  <2> HIDE DEF r
  <2>3. Sound(g) /\ g.call = "deref" /\ g.memoed = Top.memoed /\ ~Waits(g)
    BY <1>1, <1>2, <2>2, Takes
  <2>4. AllClear(Top.left)
    <3>1. Regular(Top, Len(stack))
      BY <1>1, TopRegular
    <3> QED BY <1>1, <3>1 DEF Regular
  <2>5. AllClear(Tail(Top.left))
    BY <1>2, <2>4, RestClear
  <2>6. g.left = Tail(Top.left)
    BY <1>1, <1>2 DEF Sound, DerefFrame, SelectFrame
  <2> HIDE DEF g
  <2> QED BY <1>1, <1>2, <2>1, <2>3, <2>5, <2>6, TurnShallow DEF Constant
<1> QED BY <1>3, <1>4
\* A call for a node is at an odd position.
LEMMA DerefAlone ==
    ASSUME IInv, Shallow, stack # <<>>, Top.call = "deref"
    PROVE  Len(stack) # 2
<1> SUFFICES ASSUME Len(stack) = 2 PROVE FALSE
  OBVIOUS
<1>1. 1 \in 1 .. Len(stack) - 1
  OBVIOUS
<1>2. Alternate(stack[1], stack[1 + 1]) /\ stack[1].call = "deref"
  BY <1>1 DEF Shallow
<1>3. stack[1 + 1] = Top
  BY DEF Top
<1> QED BY <1>2, <1>3 DEF Alternate

LEMMA VisitPieceShallow ==
    ASSUME TreeAssumption, ConfigAssumption, IsFiniteSet(Node),
           MaxDepth > 2 * Cardinality(Node) + 4, IInv, Shallow, VisitPiece
    PROVE  Shallow'
<1> DEFINE piece == Head(Top.left)
           from == Base(Parent[Top.node], piece.up)
<1>1. /\ stack # <<>> /\ Top.call = "deref" /\ ret = NoResult /\ Top.left # <<>> /\ Running("deref")
      /\ memo' = memo /\ Constant
  BY DEF VisitPiece, Running
<1>2. Sound(Top) /\ content \in Configs
  BY <1>1, TopIs DEF IInv
<1>3. /\ Top.node \in Node /\ Holds(Top.node, "interp") /\ Top.left \in Seq(Piece)
      /\ Top.got \in Result /\ ~Waits(Top) /\ Top.memoed \in BOOLEAN
  BY <1>1, <1>2, FramesAre
<1>4. Regular(Top, Len(stack)) /\ AllClear(Top.left)
  <2>1. Regular(Top, Len(stack))
    BY <1>1, TopRegular
  <2> QED BY <1>1, <2>1 DEF Regular
<1>5. AllClear(Tail(Top.left)) /\ Clear(piece.path)
  BY <1>1, <1>3, <1>4, RestClear
<1>6. CASE piece.path = <<>>
  <2> DEFINE r == Append(Top.got, Literal)
             g == [Top EXCEPT !.left = Tail(@), !.got = r]
  <2>1. r \in Result
    BY <1>3 DEF Result
  <2>2. stack' = Replaced(g) /\ ret' = NoResult /\ overflow' = overflow
    BY <1>1, <1>6 DEF VisitPiece
  <2> HIDE DEF r
  <2>3. Sound(g) /\ g.call = "deref" /\ g.memoed = Top.memoed /\ ~Waits(g)
    BY <1>1, <1>2, <2>1, Takes
  <2>4. g.left = Tail(Top.left)
    BY <1>1, <1>2 DEF Sound, DerefFrame, SelectFrame
  <2> HIDE DEF g
  <2> QED BY <1>1, <1>3, <1>5, <2>2, <2>3, <2>4, TurnShallow DEF Constant
<1>7. CASE piece.path # <<>> /\ from = {}
  <2>1. Return(Error)
    BY <1>7 DEF VisitPiece
  <2> QED BY <1>1, <1>3, <2>1, ReturnShallow DEF Return, Constant, TreeAssumption
<1>8. CASE piece.path # <<>> /\ from # {}
  <2>1. PICK c \in from : Call(Top, Select(c, piece.path, Top.memoed))
    BY <1>8 DEF VisitPiece
  <2> DEFINE g == Select(c, piece.path, Top.memoed)
  <2>2. piece \in Piece /\ piece.up \in Nat /\ piece.path \in Seq(Key)
    <3>1. piece \in Piece
      BY <1>1, <1>3
    <3> QED BY <3>1 DEF Piece
  <2>3. from \subseteq Containers
    <3>1. Top.node \in Node \ {Root} /\ ~Holds(Top.node, "absent")
      BY <1>2, <1>3, RootHolds DEF Containers, Holds
    <3>2. Parent[Top.node] \in Containers
      BY <1>2, <3>1, ParentHolds
    <3> HIDE DEF piece
    <3> QED BY <1>2, <2>2, <3>2, BaseHolds
  <2>4. /\ Sound(g) /\ ~Waits(g) /\ g.call = "select" /\ g.path = piece.path
        /\ g.on = NoResult /\ g.memoed = Top.memoed
    <3> HIDE DEF from, piece
    <3> QED BY <1>3, <1>8, <2>2, <2>3, SelectSound DEF TreeAssumption
  <2>5. Len(stack) < MaxDepth
    BY <1>1, RoomLeft
  <2>6. stack' = Append(Replaced(Top), g) /\ ret' = NoResult /\ overflow' = overflow
    BY <2>1, <2>5 DEF Call
  <2> HIDE DEF g, piece, from
  <2>7. Regular(g, Len(stack) + 1)
    <3> DEFINE n == Len(stack)
    <3>1. n \in Nat \ {0} /\ n # 2
      BY <1>1, TopIs, DerefAlone
    <3>2. g.memoed <=> ~caching \/ n > 2
      BY <1>4, <2>4 DEF Regular
    <3> HIDE DEF n
    <3>3. n > 2 <=> n + 1 > 2 \/ (n = 1 /\ n > 2)
      BY <3>1
    <3>4. CASE n = 1
      <4>1. ~(n > 2) /\ ~(n + 1 > 2)
        BY <3>4
      <4>2. g.memoed <=> ~caching \/ n + 1 > 2
        BY <3>2, <4>1
      <4> QED BY <1>5, <2>4, <4>2 DEF Regular, n
    <3>5. CASE n # 1
      <4>1. n > 2 /\ n + 1 > 2
        BY <3>1, <3>5
      <4>2. g.memoed <=> ~caching \/ n + 1 > 2
        BY <3>2, <4>1
      <4> QED BY <1>5, <2>4, <4>2 DEF Regular, n
    <3> QED BY <3>4, <3>5
  <2> QED BY <1>1, <1>2, <1>3, <1>4, <2>4, <2>6, <2>7, CallShallow DEF Constant, TreeAssumption
<1> QED BY <1>6, <1>7, <1>8

LEMMA StepShallow ==
    ASSUME TreeAssumption, ConfigAssumption, IsFiniteSet(Node), IInv, Shallow, Step
    PROVE  Shallow'
<1> DEFINE found == SelectOne(Top.at, Head(Top.path))
<1>1. /\ stack # <<>> /\ Top.call = "select" /\ ret = NoResult /\ Top.on = NoResult
      /\ Len(Top.path) > 1 /\ memo' = memo /\ Constant
  BY DEF Step, Running
<1>2. Sound(Top)
  BY <1>1, TopIs
<1>3. Top.path \in Seq(Key)
  BY <1>1, <1>2, FramesAre
<1>4. Clear(Top.path)
  <2>1. Regular(Top, Len(stack))
    BY <1>1, TopRegular
  <2> QED BY <1>1, <2>1 DEF Regular
<1>5. ~Waits(Top)
  BY <1>1 DEF Waits, TreeAssumption
<1>6. found \subseteq Node \ {Root} /\ \A n \in found : Name[n] = Head(Top.path)
  BY FoundIs
<1>7. \A n \in found : ~Holds(n, "interp")
  <2> DEFINE len == Len(Top.path)
  <2>1. Head(Top.path) = Top.path[1] /\ len \in Nat /\ len > 1
    BY <1>1, <1>3, TailIs
  <2>2. \A i \in 1 .. len - 1, m \in Node \ {Root} : Name[m] = Top.path[i] => ~Holds(m, "interp")
    BY <1>4 DEF Clear
  <2> HIDE DEF len, found
  <2>3. 1 \in 1 .. len - 1
    BY <2>1
  <2> QED BY <1>6, <2>1, <2>2, <2>3
<1>8. CASE \E n \in found : Holds(n, "box")
  <2>1. PICK n \in found : stack' = Replaced([Top EXCEPT !.at = n, !.path = Tail(@)])
    BY <1>7, <1>8 DEF Step
  <2>2. ret' = ret /\ overflow' = overflow
    BY <1>7, <1>8 DEF Step
  <2> DEFINE f == Entered(Top, n)
  <2>3. n \in Containers
    <3>1. PICK b \in found : Holds(b, "box")
      BY <1>8
    <3>2. n = b
      BY FoundIs
    <3> QED BY <1>6, <3>1, <3>2 DEF Containers
  <2>4. /\ Sound(f) /\ f.call = "select" /\ f.path = Tail(Top.path) /\ f.on = Top.on
        /\ f.memoed = Top.memoed
    <3> HIDE DEF found
    <3> QED BY <1>1, <1>2, <2>3, Enters
  <2>5. stack' = Replaced(f)
    BY <2>1 DEF Entered
  <2> HIDE DEF f, found
  <2>6. ~Waits(f)
    BY <1>1, <2>4 DEF Waits, TreeAssumption
  <2>7. Clear(f.path)
    BY <1>1, <1>3, <1>4, <2>4, TailClear
  <2> QED BY <1>1, <1>5, <2>2, <2>4, <2>5, <2>6, <2>7, TurnShallow DEF Constant
<1>9. CASE ~(\E n \in found : Holds(n, "box"))
  <2>1. Return(Error)
    BY <1>7, <1>9 DEF Step
  <2> QED BY <1>1, <1>5, <2>1, ReturnShallow DEF Return, Constant, TreeAssumption
<1> QED BY <1>8, <1>9

\* A walk that waits waits for its last node.
LEMMA StepResolvedShallow ==
    ASSUME IInv, Shallow, StepResolved
    PROVE  Shallow'
<1>1. stack # <<>> /\ Top.call = "select" /\ ret # NoResult /\ Len(Top.path) > 1 /\ Running("select")
  BY DEF StepResolved, Running
<1>2. Top.path \in Seq(Key)
  BY <1>1, TopIs, FramesAre
<1>3. Top.on # NoResult /\ Regular(Top, Len(stack))
  BY <1>1, TopIs DEF Shallow
<1>4. Len(Top.path) = 1
  BY <1>1, <1>3 DEF Regular
<1> QED BY <1>1, <1>2, <1>4, NotOne
LEMMA LastKeyShallow ==
    ASSUME TreeAssumption, ConfigAssumption, IsFiniteSet(Node), WaysAreClear,
           MaxDepth > 2 * Cardinality(Node) + 4, IInv, Shallow, LastKey
    PROVE  Shallow'
<1> DEFINE found == SelectOne(Top.at, Head(Top.path))
<1>1. stack # <<>> /\ Top.call = "select" /\ Top.on = NoResult /\ Len(Top.path) = 1 /\ Constant
  BY DEF LastKey, Running
<1>2. Sound(Top) /\ content \in Configs
  BY <1>1, TopIs DEF IInv
<1>3. Top.memoed \in BOOLEAN
  BY <1>1, <1>2, FramesAre
<1>4. Regular(Top, Len(stack)) /\ Clear(Top.path)
  <2>1. Regular(Top, Len(stack))
    BY <1>1, TopRegular
  <2> QED BY <1>1, <2>1 DEF Regular
<1>5. ~Waits(Top)
  BY <1>1 DEF Waits, TreeAssumption
<1>6. found \subseteq Node
  BY FoundIs
<1>7. ASSUME NEW r, Return(r), memo' = memo PROVE Shallow'
  BY <1>1, <1>5, <1>7, ReturnShallow DEF Return, Constant, TreeAssumption
<1>8. CASE found = {} \/ \E n \in found : Holds(n, "missing")
  <2>1. Return(Error) /\ memo' = memo
    BY <1>8 DEF LastKey
  <2> QED BY <1>7, <2>1
<1>9. CASE ~(found = {} \/ \E n \in found : Holds(n, "missing"))
  <2>1. PICK n \in found :
            IF cache[n] # NoResult
            THEN Return(cache[n]) /\ UNCHANGED <<memo, cache>>
            ELSE IF Top.memoed /\ n \in memo
            THEN Return(Error) /\ UNCHANGED <<memo, cache>>
            ELSE IF Holds(n, "interp")
            THEN /\ Call([Top EXCEPT !.on = n], Deref(n, TRUE))
                 /\ memo' = IF Top.memoed /\ Len(stack) < MaxDepth THEN memo \cup {n} ELSE memo
                 /\ UNCHANGED cache
            ELSE /\ Return(<<n>>)
                 /\ cache' = IF caching THEN [cache EXCEPT ![n] = <<n>>] ELSE cache
                 /\ UNCHANGED memo
    BY <1>9 DEF LastKey
  <2>2. n \in Node
    BY <1>6
  <2> HIDE DEF found
  <2>3. CASE cache[n] # NoResult
    <3>1. Return(cache[n]) /\ memo' = memo
      BY <2>1, <2>3
    <3> QED BY <1>7, <3>1
  <2>4. CASE cache[n] = NoResult /\ Top.memoed /\ n \in memo
    <3>1. Return(Error) /\ memo' = memo
      BY <2>1, <2>4
    <3> QED BY <1>7, <3>1
  <2>5. CASE cache[n] = NoResult /\ ~(Top.memoed /\ n \in memo) /\ Holds(n, "interp")
    <3> DEFINE f == [Top EXCEPT !.on = n]
               g == Deref(n, TRUE)
    <3>1. /\ Call(f, g)
          /\ memo' = IF Top.memoed /\ Len(stack) < MaxDepth THEN memo \cup {n} ELSE memo
      BY <2>1, <2>5
    <3>2. Len(stack) < MaxDepth
      BY <1>1, RoomLeft
    <3>3. /\ stack' = Append(Replaced(f), g) /\ ret' = NoResult /\ overflow' = overflow
          /\ memo' = IF Top.memoed THEN memo \cup {n} ELSE memo
      BY <3>1, <3>2 DEF Call
    <3>4. /\ Sound(f) /\ f.call = "select" /\ f.path = Top.path /\ f.on = n
          /\ f.memoed = Top.memoed /\ (Waits(f) <=> Top.memoed /\ Len(Top.path) = 1)
      BY <1>1, <1>2, <2>2, Awaits
    <3>5. Sound(g) /\ g.call = "deref" /\ g.memoed = TRUE /\ ~Waits(g)
      BY <1>2, <2>2, <2>5, DerefSound
    <3>6. g.left = content[n].pieces
      BY DEF Deref
    <3> HIDE DEF f, g
    <3>7. AllClear(g.left)
      BY <2>2, <3>6, PiecesClear
    <3>8. Regular(g, Len(stack) + 1)
      <4> DEFINE k == Len(stack)
      <4>1. k \in Nat \ {0} /\ k # 1
        <5>1. stack[1].call = "deref" /\ stack[Len(stack)].call = "select"
          BY <1>1, TopIs DEF Shallow
        <5> QED BY <1>1, <5>1, TopIs
      <4> HIDE DEF k
      <4>2. k + 1 > 2
        BY <4>1
      <4> QED BY <3>5, <3>7, <4>2 DEF Regular, k
    <3>9. Waits(f) <=> Top.memoed
      BY <1>1, <3>4
    <3>10. (Waits(f) => f.on \notin memo) /\ memo' = IF Waits(f) THEN memo \cup {f.on} ELSE memo
      BY <2>5, <3>3, <3>4, <3>9
    <3>11. f.call = "select" /\ f.call = Top.call /\ f.call # "deref" /\ f.call # g.call
           /\ Clear(f.path) /\ Len(f.path) = 1 /\ f.on \in Node
      BY <1>1, <1>4, <2>2, <3>4, <3>5
    <3> QED BY <1>1, <1>5, <3>3, <3>4, <3>5, <3>8, <3>10, <3>11, CallShallow
            DEF Constant, TreeAssumption
  <2>6. CASE cache[n] = NoResult /\ ~(Top.memoed /\ n \in memo) /\ ~Holds(n, "interp")
    <3>1. Return(<<n>>) /\ memo' = memo
      BY <2>1, <2>6
    <3> QED BY <1>7, <3>1
  <2> QED BY <2>3, <2>4, <2>5, <2>6
<1> QED BY <1>8, <1>9

LEMMA LastResolvedShallow ==
    ASSUME TreeAssumption, IsFiniteSet(Node), IInv, Shallow, LastResolved
    PROVE  Shallow'
<1>1. /\ stack # <<>> /\ Top.call = "select" /\ Len(Top.path) = 1
      /\ Return(ret) /\ Constant /\ memo' = IF Top.memoed THEN memo \ {Top.on} ELSE memo
  BY DEF LastResolved, Running
<1>2. Top.on \in Node \cup {NoResult} /\ memo \subseteq Node
  BY <1>1, TopIs, FramesAre DEF IInv, Stacked, Waiting
<1>3. memo' = IF Waits(Top) THEN memo \ {Top.on} ELSE memo
  <2>1. Waits(Top) <=> Top.memoed /\ Top.on \in Node
    BY <1>1 DEF Waits
  <2>2. Top.on \notin Node => memo \ {Top.on} = memo
    BY <1>2
  <2> QED BY <1>1, <2>1, <2>2
<1> QED BY <1>1, <1>3, ReturnShallow DEF Return, Constant, TreeAssumption

\* A call begins at node n: with a memo, or, in a conversion, without.
LEMMA BeginsShallow ==
    ASSUME ConfigAssumption, IsFiniteSet(Node), WaysAreClear, IInv, Shallow, NEW n \in Node,
           Holds(n, "interp"), ret' = NoResult, stack' = <<Deref(n, ~caching)>>,
           UNCHANGED <<content, memo, caching, overflow>>
    PROVE  Shallow'
<1> DEFINE g == Deref(n, ~caching)
           s == <<g>>
<1>1. content \in Configs /\ caching \in BOOLEAN
  BY DEF IInv
<1>2. /\ g.call = "deref" /\ g.memoed = ~caching /\ g.left = content[n].pieces
  BY DEF Deref
<1>3. AllClear(g.left)
  BY <1>2, PiecesClear
<1> HIDE DEF g
<1>4. Len(s) = 1 /\ DOMAIN s = 1 .. 1 /\ s[1] = g /\ stack' = s
  BY DEF g
<1> HIDE DEF s
<1>5. Regular(g, 1)
  <2>1. g.memoed <=> ~caching
    BY <1>1, <1>2
  <2>2. ~(1 > 2)
    OBVIOUS
  <2>3. g.call # "select"
    BY <1>2
  <2> QED BY <1>3, <2>1, <2>2, <2>3 DEF Regular
<1>6. \A k \in 1 .. 1 : Regular(s[k], k)
  <2>1. \A k \in 1 .. 1 : k = 1
    OBVIOUS
  <2> QED BY <1>4, <1>5, <2>1
<1>7. Top' = g
  BY <1>4 DEF Top
<1>8. Cardinality(memo') \in Nat /\ Room(g) = 3
  <2>1. Cardinality(memo) \in Nat /\ memo' = memo
    BY MemoCounts
  <2> QED BY <1>2, <2>1 DEF Room
<1>9. 1 <= 2 * Cardinality(memo') + Room(g)
  <2> DEFINE C == Cardinality(memo')
  <2>1. C \in Nat
    BY <1>8
  <2> HIDE DEF C
  <2>2. 1 <= 2 * C + 3
    BY <2>1
  <2> QED BY <1>8, <2>2 DEF C
<1>10. \A k \in 1 .. 1 - 1 : Alternate(s[k], s[k + 1])
  OBVIOUS
<1>11. Len(stack') = 1 /\ DOMAIN stack' = 1 .. 1 /\ stack'[1] = g /\ stack' = s
  BY <1>4
<1> QED BY <1>2, <1>6, <1>7, <1>9, <1>10, <1>11
        DEF Shallow, Regular, AllClear, Clear, Holds, Running
\* Where the ways are clear, every step keeps the stack shallow.
LEMMA NextShallow ==
    ASSUME TreeAssumption, ConfigAssumption, IsFiniteSet(Node), WaysAreClear,
           MaxDepth > 2 * Cardinality(Node) + 4, IInv, Shallow, [Next]_vars
    PROVE  Shallow'
<1>1. CASE VisitPiece \/ TakePiece \/ FinishDeref
  BY <1>1, VisitPieceShallow, TakePieceShallow, FinishDerefShallow
<1>2. CASE Step \/ StepResolved \/ LastKey \/ LastResolved
  BY <1>2, StepShallow, StepResolvedShallow, LastKeyShallow, LastResolvedShallow
<1>3. ASSUME NEW n \in Node, ConvertNext(n) PROVE Shallow'
  <2>1. /\ stack = <<>> /\ n \in todo /\ Holds(n, "interp") /\ caching = TRUE
        /\ UNCHANGED <<content, memo, caching, overflow>>
    BY <1>3 DEF ConvertNext, IInv
  <2>2. CASE cache[n] # NoResult
    <3>1. stack' = stack
      BY <1>3, <2>2 DEF ConvertNext
    <3> QED BY <2>1, <3>1 DEF Shallow, Regular, AllClear, Clear, Holds, Running
  <2>3. CASE cache[n] = NoResult
    <3>1. ret' = NoResult /\ stack' = <<Deref(n, ~caching)>>
      BY <1>3, <2>1, <2>3 DEF ConvertNext
    <3> QED BY <2>1, <3>1, BeginsShallow
  <2> QED BY <2>2, <2>3
<1>4. CASE ConvertResolved
  <2>1. stack = <<>> /\ UNCHANGED <<content, stack, ret, memo, caching, overflow>>
    BY <1>4 DEF ConvertResolved
  <2> QED BY <2>1 DEF Shallow, Regular, AllClear, Clear, Holds, Running
<1>5. ASSUME NEW n \in Node, Access(n) PROVE Shallow'
  <2>1. /\ stack = <<>> /\ ret' = NoResult /\ Holds(n, "interp")
        /\ stack' = <<Deref(n, ~caching)>> /\ UNCHANGED <<content, memo, caching, overflow>>
    <3>1. /\ stack = <<>> /\ ret' = NoResult /\ Holds(n, "interp") /\ caching = FALSE
          /\ stack' = <<Deref(n, TRUE)>> /\ UNCHANGED <<content, memo, caching, overflow>>
      BY <1>5 DEF Access, IInv
    <3>2. ~caching = TRUE
      BY <3>1
    <3> QED BY <3>1, <3>2
  <2> QED BY <2>1, BeginsShallow
<1>6. CASE UNCHANGED vars
  <2>1. UNCHANGED <<content, stack, ret, memo, caching, overflow>>
    BY <1>6 DEF vars
  <2> QED BY <2>1 DEF Shallow, Regular, AllClear, Clear, Holds, Running, Top
<1> QED BY <1>1, <1>2, <1>3, <1>4, <1>5, <1>6 DEF Next, Continue

\* On a stack with room for two calls per node, and some, memo detects every
\* cycle of interpolations that lie on no other path before the stack is full
\* (_select_impl, "Recursive interpolation detected").
THEOREM LastKeyCyclesAreDetected ==
    ASSUME IsFiniteSet(Node), MaxDepth > 2 * Cardinality(Node) + 4
    PROVE  Spec => []LastKeyCyclesDetected
<1> DEFINE Inv == IInv /\ (WaysAreClear => Shallow)
<1>1. Init => Inv
  <2> SUFFICES ASSUME Init PROVE Inv
    OBVIOUS
  <2>1. stack = <<>> /\ overflow = FALSE /\ ret = NoResult
    BY DEF Init
  <2> QED BY <2>1, TreeAssumption, InitKeeps DEF Shallow, Running
<1>2. Inv /\ [Next]_vars => Inv'
  <2> SUFFICES ASSUME Inv, [Next]_vars PROVE Inv'
    OBVIOUS
  <2>1. IInv'
    BY TreeAssumption, ConfigAssumption, NextKeeps
  <2>2. content' = content
    BY DEF Next, Continue, vars, VisitPiece, TakePiece, FinishDeref, Step, StepResolved, LastKey,
           LastResolved, ConvertNext, ConvertResolved, Access, Constant
  <2>3. WaysAreClear' = WaysAreClear
    BY <2>2 DEF WaysAreClear, Holds
  <2>4. WaysAreClear => Shallow'
    BY TreeAssumption, ConfigAssumption, NextShallow
  <2> QED BY <2>1, <2>3, <2>4
<1>3. Inv => LastKeyCyclesDetected
  BY DEF Shallow, LastKeyCyclesDetected
<1> QED BY <1>1, <1>2, <1>3, PTL DEF Spec

-----------------------------------------------------------------------------
(* The reference.  What a node resolves to is what the text of it denotes,   *)
(* if what it refers to resolves to the same results: Reference is a fixed   *)
(* point of Above.                                                          *)

\* What is known of the tree and the configuration.
World == /\ TreeAssumption /\ ResultAssumption /\ ConfigAssumption
         /\ IsFiniteSet(Node) /\ content \in Configs

Outcome == Result \cup {Error}
Outcomes == [Node -> Outcome]

\* R has the results that Q has, and maybe more.
Extended(Q, R) == \A n \in Node : Q[n] # Error => R[n] = Q[n]

LEMMA NotResults ==
    ASSUME World
    PROVE  Error \notin Result /\ NoResult \notin Result /\ Error # NoResult /\ NoResult \notin Node
BY DEF World, TreeAssumption, ResultAssumption, Result

LEMMA NodeIsResult == ASSUME NEW n \in Node PROVE <<n>> \in Result /\ Len(<<n>>) = 1 /\ <<n>>[1] = n
BY DEF Result

\* The container that is a result.
LEMMA BoxesAre ==
    ASSUME World, NEW r \in Outcome
    PROVE  /\ Boxes(r) \subseteq Containers
           /\ \A b \in Boxes(r) : r = <<b>> /\ r # Error
           /\ \A c \in Containers : r = <<c>> => Boxes(r) = {c}
<1>1. ASSUME NEW b \in Boxes(r) PROVE b \in Containers /\ r = <<b>> /\ r # Error
  <2>1. IsNode(r) /\ b = r[1] /\ b \in Node /\ Holds(b, "box")
    BY DEF Boxes
  <2>2. r \in Result /\ Len(r) = 1
    BY <2>1 DEF IsNode, Outcome
  <2>3. r = <<r[1]>>
    BY <2>2 DEF Result
  <2> QED BY <2>1, <2>3 DEF Containers, IsNode
<1>2. ASSUME NEW c \in Containers, r = <<c>> PROVE Boxes(r) = {c}
  <2>1. c \in Node /\ Holds(c, "box")
    BY DEF Containers
  <2>2. r \in Result /\ Len(r) = 1 /\ r[1] = c
    BY <1>2, <2>1, NodeIsResult
  <2>3. IsNode(r)
    BY <2>2, NotResults DEF IsNode
  <2> QED BY <2>1, <2>2, <2>3 DEF Boxes
<1> QED BY <1>1, <1>2

\* What a key leads to.
LeadsOn(r, k, R) ==
    /\ Enter(r, k, R) \in Outcome
    /\ \A b \in Boxes(r) : \A n \in SelectOne(b, k) :
           Enter(r, k, R) = IF Holds(n, "missing") THEN Error ELSE R[n]
    /\ Enter(r, k, R) # Error => \E b \in Boxes(r) : SelectOne(b, k) # {}

LEMMA EnterIs ==
    ASSUME World, NEW r \in Outcome, NEW k, NEW R \in Outcomes
    PROVE  LeadsOn(r, k, R)
<1> DEFINE all == UNION {SelectOne(b, k) : b \in Boxes(r)}
           found == {n \in all : ~Holds(n, "missing")}
<1>1. Enter(r, k, R) = IF found = {} THEN Error ELSE R[CHOOSE n \in found : TRUE]
  BY DEF Enter
<1>2. \A b, c \in Boxes(r) : b = c
  <2>1. \A b \in Boxes(r) : r = <<b>>
    BY BoxesAre
  <2>2. \A b, c : <<b>> = <<c>> => b = c
    OBVIOUS
  <2> QED BY <2>1, <2>2
<1>3. \A b \in Boxes(r) : SelectOne(b, k) \subseteq Node /\ \A m, n \in SelectOne(b, k) : m = n
  BY FoundIs DEF World
<1>4. all \subseteq Node /\ \A m, n \in all : m = n
  BY <1>2, <1>3
<1>5. \A b \in Boxes(r) : \A n \in SelectOne(b, k) : n \in all
  OBVIOUS
<1>6. all # {} => \E b \in Boxes(r) : SelectOne(b, k) # {}
  OBVIOUS
<1> HIDE DEF all
<1>7. found \subseteq all
  OBVIOUS
<1>8. ASSUME NEW n \in all PROVE Enter(r, k, R) = IF Holds(n, "missing") THEN Error ELSE R[n]
  <2>1. CASE Holds(n, "missing")
    <3>1. found = {}
      BY <1>4, <2>1
    <3> QED BY <1>1, <2>1, <3>1
  <2>2. CASE ~Holds(n, "missing")
    <3>1. found = {n}
      BY <1>4, <2>2
    <3>2. (CHOOSE m \in found : TRUE) = n
      BY <3>1
    <3> HIDE DEF found
    <3> QED BY <1>1, <2>2, <3>1, <3>2
  <2> QED BY <2>1, <2>2
<1>9. Enter(r, k, R) \in Outcome
  <2>1. CASE found = {}
    BY <1>1, <2>1 DEF Outcome
  <2>2. CASE found # {}
    <3>1. (CHOOSE n \in found : TRUE) \in Node
      BY <1>4, <1>7, <2>2
    <3> HIDE DEF found
    <3> QED BY <1>1, <2>2, <3>1 DEF Outcomes
  <2> QED BY <2>1, <2>2
<1>10. Enter(r, k, R) # Error => all # {}
  BY <1>1, <1>7
<1> QED BY <1>5, <1>6, <1>8, <1>9, <1>10 DEF LeadsOn

LEMMA EnterExtends ==
    ASSUME World, NEW r \in Outcome, NEW k, NEW Q \in Outcomes, NEW R \in Outcomes,
           Extended(Q, R), Enter(r, k, Q) # Error
    PROVE  Enter(r, k, R) = Enter(r, k, Q)
<1>0. LeadsOn(r, k, Q) /\ LeadsOn(r, k, R)
  BY EnterIs
<1>1. PICK b \in Boxes(r) : SelectOne(b, k) # {}
  BY <1>0 DEF LeadsOn
<1>2. PICK n \in SelectOne(b, k) : TRUE
  BY <1>1
<1>3. n \in Node
  BY <1>2, FoundIs DEF World
<1>4. /\ Enter(r, k, Q) = IF Holds(n, "missing") THEN Error ELSE Q[n]
      /\ Enter(r, k, R) = IF Holds(n, "missing") THEN Error ELSE R[n]
  BY <1>0, <1>2 DEF LeadsOn
<1> QED BY <1>3, <1>4 DEF Extended

\* What the keys of a path lead to, one by one.
Walks(p, c, R) ==
    /\ Walk(p, c, R) \in [0 .. Len(p) -> Outcome]
    /\ Walk(p, c, R)[0] = <<c>>
    /\ \A i \in 1 .. Len(p) : Walk(p, c, R)[i] = Enter(Walk(p, c, R)[i - 1], p[i], R)

LEMMA WalkIs ==
    ASSUME World, NEW p \in Seq(Key), NEW c \in Node, NEW R \in Outcomes
    PROVE  Walks(p, c, R)
<1> DEFINE n == Len(p)
           S == Outcome
           base == <<c>>
           Body(f) == [i \in 0 .. n |-> IF i = 0 THEN base ELSE Enter(f[i - 1], p[i], R)]
           at == CHOOSE f : f = Body(f)
           step == [x \in S \X (1 .. n) |-> Enter(x[1], p[x[2]], R)]
<1>1. Walk(p, c, R) = at
  BY DEF Walk
<1>2. n \in Nat /\ base \in S
  BY NodeIsResult DEF Outcome
<1>3. \A s \in S : \A k : Enter(s, k, R) \in S
  BY EnterIs DEF LeadsOn
<1> HIDE DEF S, n, base
<1>4. step \in Steps(n, S) /\ \A s \in S, i \in 1 .. n : step[<<s, i>>] = Enter(s, p[i], R)
  BY <1>3 DEF Steps
<1> HIDE DEF step
<1>5. PICK d \in [0 .. n -> S] : Recursion(d, n, base, step)
  BY <1>2, <1>4, RecursionTo
<1>6. ASSUME NEW i \in 1 .. n PROVE d[i] = Enter(d[i - 1], p[i], R)
  <2> DEFINE j == i - 1
  <2>1. j \in 0 .. n - 1 /\ j + 1 = i /\ j \in 0 .. n
    BY <1>2
  <2>2. d[j] \in S
    BY <1>5, <2>1
  <2>3. d[j + 1] = step[<<d[j], j + 1>>]
    BY <1>5, <2>1 DEF Recursion
  <2> HIDE DEF j
  <2>4. d[i] = Enter(d[j], p[i], R)
    BY <1>4, <2>1, <2>2, <2>3
  <2> QED BY <2>4 DEF j
<1>7. d = Body(d)
  <2>1. \A i \in 0 .. n : d[i] = IF i = 0 THEN base ELSE Enter(d[i - 1], p[i], R)
    <3> TAKE i \in 0 .. n
    <3>1. i = 0 \/ i \in 1 .. n
      BY <1>2
    <3>2. i \in 1 .. n => i # 0
      OBVIOUS
    <3>3. d[0] = base
      BY <1>5 DEF Recursion
    <3> QED BY <1>6, <3>1, <3>2, <3>3
  <2>2. d = [i \in 0 .. n |-> d[i]]
    OBVIOUS
  <2> QED BY <2>1, <2>2
<1>8. at = Body(at)
  <2> HIDE DEF Body
  <2> QED BY <1>7, Zenon
<1> HIDE DEF at
<1>9. /\ at[0] = base /\ at = [i \in 0 .. n |-> at[i]]
      /\ \A i \in 1 .. n : at[i] = Enter(at[i - 1], p[i], R)
  <2>1. 0 \in 0 .. n /\ \A i \in 1 .. n : i \in 0 .. n /\ i # 0
    BY <1>2
  <2>2. at = [i \in 0 .. n |-> at[i]]
    BY <1>8
  <2>3. \A i \in 0 .. n : at[i] = IF i = 0 THEN base ELSE Enter(at[i - 1], p[i], R)
    BY <1>8
  <2> QED BY <2>1, <2>2, <2>3
<1> DEFINE T == {i \in 0 .. n : at[i] \in S}
<1>10. 0 \in T
  BY <1>2, <1>9
<1>11. ASSUME NEW i \in 0 .. n - 1, i \in T PROVE i + 1 \in T
  <2> DEFINE j == i + 1
  <2>1. j \in 1 .. n /\ j \in 0 .. n /\ j - 1 = i
    BY <1>2
  <2>2. at[i] \in S
    BY <1>11
  <2> HIDE DEF j, T
  <2>3. at[j] = Enter(at[i], p[j], R)
    BY <1>9, <2>1
  <2>4. at[j] \in S
    BY <1>3, <2>2, <2>3
  <2> QED BY <2>1, <2>4 DEF T, j
<1>12. \A i \in 0 .. n : i \in T
  <2> HIDE DEF T
  <2> QED BY <1>2, <1>10, <1>11, InductionTo
<1>13. at \in [0 .. n -> S]
  BY <1>9, <1>12
<1> QED BY <1>1, <1>9, <1>13 DEF Walks, S, n, base

\* Where a walk has got to, it has not failed before; with more results it gets
\* to the same.
WalksAlike(p, c, Q, R) ==
    /\ \A i \in 0 .. Len(p) : Walk(p, c, Q)[i] # Error => Walk(p, c, R)[i] = Walk(p, c, Q)[i]
    /\ \A i \in 1 .. Len(p) : Walk(p, c, Q)[i] # Error => Walk(p, c, Q)[i - 1] # Error

LEMMA WalkExtends ==
    ASSUME World, NEW p \in Seq(Key), NEW c \in Node, NEW Q \in Outcomes, NEW R \in Outcomes,
           Extended(Q, R)
    PROVE  WalksAlike(p, c, Q, R)
<1> DEFINE n == Len(p)
           v == Walk(p, c, Q)
           w == Walk(p, c, R)
           T == {i \in 0 .. n : v[i] # Error => w[i] = v[i]}
<1>0. Walks(p, c, Q) /\ Walks(p, c, R)
  BY WalkIs
<1>1. /\ v \in [0 .. n -> Outcome] /\ v[0] = <<c>>
      /\ \A i \in 1 .. n : v[i] = Enter(v[i - 1], p[i], Q)
  BY <1>0 DEF Walks
<1>2. /\ w \in [0 .. n -> Outcome] /\ w[0] = <<c>>
      /\ \A i \in 1 .. n : w[i] = Enter(w[i - 1], p[i], R)
  BY <1>0 DEF Walks
<1>3. n \in Nat
  OBVIOUS
<1> HIDE DEF v, w, n
<1>4. ASSUME NEW i \in 1 .. n, v[i] # Error PROVE v[i - 1] # Error /\ v[i - 1] \in Outcome
  <2>1. i - 1 \in 0 .. n
    BY <1>3
  <2>2. v[i - 1] \in Outcome
    BY <1>1, <2>1
  <2>3. Enter(v[i - 1], p[i], Q) # Error
    BY <1>1, <1>4
  <2>4. PICK b \in Boxes(v[i - 1]) : TRUE
    <3>1. LeadsOn(v[i - 1], p[i], Q)
      BY <2>2, EnterIs
    <3> QED BY <2>3, <3>1 DEF LeadsOn
  <2>5. v[i - 1] # Error
    BY <2>2, <2>4, BoxesAre
  <2> QED BY <2>2, <2>5
<1>5. 0 \in T
  <2>1. 0 \in 0 .. n /\ w[0] = v[0]
    BY <1>1, <1>2, <1>3
  <2> QED BY <2>1
<1>6. ASSUME NEW i \in 0 .. n - 1, i \in T PROVE i + 1 \in T
  <2> DEFINE j == i + 1
  <2>1. j \in 1 .. n /\ j \in 0 .. n /\ j - 1 = i
    BY <1>3
  <2>2. v[i] # Error => w[i] = v[i]
    BY <1>6
  <2> HIDE DEF j, T
  <2>3. ASSUME v[j] # Error PROVE w[j] = v[j]
    <3>1. v[i] # Error /\ v[i] \in Outcome
      BY <1>4, <2>1, <2>3
    <3>2. v[j] = Enter(v[i], p[j], Q) /\ w[j] = Enter(w[i], p[j], R)
      BY <1>1, <1>2, <2>1
    <3>3. Enter(v[i], p[j], R) = Enter(v[i], p[j], Q)
      <4> DEFINE x == v[i]
                 k == p[j]
      <4>1. x \in Outcome /\ Enter(x, k, Q) # Error
        BY <2>3, <3>1, <3>2
      <4> HIDE DEF x, k
      <4>2. Enter(x, k, R) = Enter(x, k, Q)
        BY <4>1, EnterExtends
      <4> QED BY <4>2 DEF x, k
    <3> QED BY <2>2, <3>1, <3>2, <3>3
  <2> QED BY <2>1, <2>3 DEF T, j
<1>7. \A i \in 0 .. n : i \in T
  <2> HIDE DEF T
  <2> QED BY <1>3, <1>5, <1>6, InductionTo
<1> QED BY <1>4, <1>7 DEF WalksAlike, v, w, n

-----------------------------------------------------------------------------
(* The pieces of a node.                                                    *)

From(piece, c) == CHOOSE b \in Base(c, piece.up) : TRUE

\* _validate_not_dereferencing_to_parent
Checked(r, c) == IF IsNode(r) /\ r[1] \in Around(c) THEN Error ELSE r

Looks(piece, c, R) ==
    /\ PieceResult(piece, c, R) \in Outcome
    /\ piece.path = <<>> => PieceResult(piece, c, R) = <<Literal>>
    /\ piece.path # <<>> /\ Base(c, piece.up) = {} => PieceResult(piece, c, R) = Error
    /\ piece.path # <<>> /\ Base(c, piece.up) # {} =>
          /\ From(piece, c) \in Containers
          /\ PieceResult(piece, c, R) = Checked(Walk(piece.path, From(piece, c), R)[Len(piece.path)], c)

LEMMA WalkEnds ==
    ASSUME World, NEW p \in Seq(Key), NEW c \in Node, NEW R \in Outcomes
    PROVE  Walk(p, c, R)[Len(p)] \in Outcome
<1>1. Walks(p, c, R)
  BY WalkIs
<1>2. Len(p) \in 0 .. Len(p)
  OBVIOUS
<1> QED BY <1>1, <1>2 DEF Walks

LEMMA PieceIs ==
    ASSUME World,
           NEW piece \in Piece, NEW c \in Containers, NEW R \in Outcomes
    PROVE  Looks(piece, c, R)
<1> DEFINE r == Walk(piece.path, From(piece, c), R)[Len(piece.path)]
<1>1. piece.path \in Seq(Key) /\ piece.up \in Nat
  BY DEF Piece
<1>2. CASE piece.path = <<>>
  <2>1. <<Literal>> \in Outcome
    BY DEF Outcome, Result
  <2> QED BY <1>2, <2>1 DEF PieceResult, Looks
<1>3. CASE piece.path # <<>> /\ Base(c, piece.up) = {}
  BY <1>3 DEF PieceResult, Looks, Outcome
<1>4. CASE piece.path # <<>> /\ Base(c, piece.up) # {}
  <2>1. From(piece, c) \in Base(c, piece.up)
    BY <1>4 DEF From
  <2>2. From(piece, c) \in Containers
    BY <1>1, <2>1, BaseHolds DEF World
  <2>3. r \in Outcome
    BY <1>1, <2>2, WalkEnds DEF Containers
  <2>4. PieceResult(piece, c, R) = Checked(r, c)
    BY <1>4 DEF PieceResult, From, Checked
  <2> HIDE DEF r
  <2>5. Checked(r, c) \in Outcome
    BY <2>3 DEF Checked, Outcome
  <2> QED BY <1>4, <2>2, <2>4, <2>5 DEF Looks, r
<1> QED BY <1>2, <1>3, <1>4

PiecesAlike(piece, c, Q, R) ==
    PieceResult(piece, c, Q) # Error => PieceResult(piece, c, R) = PieceResult(piece, c, Q)

LEMMA PieceExtends ==
    ASSUME World,
           NEW piece \in Piece, NEW c \in Containers, NEW Q \in Outcomes, NEW R \in Outcomes,
           Extended(Q, R)
    PROVE  PiecesAlike(piece, c, Q, R)
<1> SUFFICES ASSUME PieceResult(piece, c, Q) # Error
             PROVE  PieceResult(piece, c, R) = PieceResult(piece, c, Q)
  BY DEF PiecesAlike
<1> DEFINE p == piece.path
           b == From(piece, c)
           v == Walk(p, b, Q)[Len(p)]
           w == Walk(p, b, R)[Len(p)]
<1>1. Looks(piece, c, Q) /\ Looks(piece, c, R)
  BY PieceIs
<1>2. CASE p = <<>>
  BY <1>1, <1>2 DEF Looks
<1>3. CASE p # <<>>
  <2>1. Base(c, piece.up) # {}
    BY <1>1, <1>3 DEF Looks
  <2>2. /\ b \in Node /\ PieceResult(piece, c, Q) = Checked(v, c)
        /\ PieceResult(piece, c, R) = Checked(w, c)
    BY <1>1, <1>3, <2>1 DEF Looks, Containers
  <2>3. v # Error
    <3> HIDE DEF v
    <3> QED BY <2>2 DEF Checked, IsNode
  <2>4. p \in Seq(Key) /\ Len(p) \in 0 .. Len(p)
    BY DEF Piece
  <2> HIDE DEF p, b
  <2>5. WalksAlike(p, b, Q, R)
    BY <2>2, <2>4, WalkExtends
  <2>6. w = v
    BY <2>3, <2>4, <2>5 DEF WalksAlike
  <2> QED BY <2>2, <2>6
<1> QED BY <1>2, <1>3

LEMMA ConcatIs ==
    ASSUME NEW r \in Outcome, NEW s \in Outcome
    PROVE  Concat(r, s) \in Outcome /\ (Concat(r, s) # Error => r # Error /\ s # Error)
<1>1. r # Error /\ s # Error => r \o s \in Result
  BY DEF Outcome, Result
<1> QED BY <1>1 DEF Concat, Outcome

\* An interpolation has pieces and lies in a container.
LEMMA PiecesAre ==
    ASSUME World,
           NEW n \in Node, Holds(n, "interp")
    PROVE  /\ content[n].pieces \in Seq(Piece) /\ n \in Node \ {Root}
           /\ Parent[n] \in Containers
<1>1. n \in Node \ {Root} /\ ~Holds(n, "absent")
  BY RootHolds DEF Containers, Holds, World
<1> QED BY <1>1, ParentHolds, NodesHold DEF World

\* The results of the pieces of a node are put together one by one.
Joins(n, R) ==
    LET pieces == content[n].pieces
    IN  /\ Joined(n, R) \in [0 .. Len(pieces) -> Outcome]
        /\ Joined(n, R)[0] = <<>>
        /\ \A i \in 1 .. Len(pieces) :
              Joined(n, R)[i] = Concat(Joined(n, R)[i - 1], PieceResult(pieces[i], Parent[n], R))

LEMMA JoinedIs ==
    ASSUME World,
           NEW x \in Node, Holds(x, "interp"), NEW R \in Outcomes
    PROVE  Joins(x, R)
<1> DEFINE pieces == content[x].pieces
           n == Len(pieces)
           S == Outcome
           base == <<>>
           Part(i) == PieceResult(pieces[i], Parent[x], R)
           Body(f) == [i \in 0 .. n |-> IF i = 0 THEN base ELSE Concat(f[i - 1], Part(i))]
           at == CHOOSE f : f = Body(f)
           step == [y \in S \X (1 .. n) |-> Concat(y[1], Part(y[2]))]
<1>1. Joined(x, R) = at
  BY DEF Joined
<1>2. n \in Nat /\ base \in S
  BY PiecesAre DEF Outcome, Result
<1>3. \A i \in 1 .. n : Part(i) \in S
  <2> TAKE i \in 1 .. n
  <2>0. pieces \in Seq(Piece) /\ Parent[x] \in Containers
    BY PiecesAre
  <2> HIDE DEF pieces
  <2>1. pieces[i] \in Piece
    BY <2>0
  <2>2. Looks(pieces[i], Parent[x], R)
    BY <2>0, <2>1, PieceIs
  <2> QED BY <2>2 DEF Looks
<1>4. \A s \in S, t \in S : Concat(s, t) \in S
  BY ConcatIs
<1> HIDE DEF S, n, base, pieces
<1>5. step \in Steps(n, S) /\ \A s \in S, i \in 1 .. n : step[<<s, i>>] = Concat(s, Part(i))
  BY <1>3, <1>4 DEF Steps
<1> HIDE DEF step
<1>6. PICK d \in [0 .. n -> S] : Recursion(d, n, base, step)
  BY <1>2, <1>5, RecursionTo
<1>7. ASSUME NEW i \in 1 .. n PROVE d[i] = Concat(d[i - 1], Part(i))
  <2> DEFINE j == i - 1
  <2>1. j \in 0 .. n - 1 /\ j + 1 = i /\ j \in 0 .. n
    BY <1>2
  <2>2. d[j] \in S
    BY <1>6, <2>1
  <2>3. d[j + 1] = step[<<d[j], j + 1>>]
    BY <1>6, <2>1 DEF Recursion
  <2> HIDE DEF j
  <2>4. step[<<d[j], i>>] = Concat(d[j], Part(i))
    BY <1>5, <2>2
  <2>5. d[i] = Concat(d[j], Part(i))
    BY <2>1, <2>3, <2>4
  <2> QED BY <2>5 DEF j
<1>8. d = Body(d)
  <2>1. \A i \in 0 .. n : d[i] = IF i = 0 THEN base ELSE Concat(d[i - 1], Part(i))
    <3> TAKE i \in 0 .. n
    <3>1. i = 0 \/ i \in 1 .. n
      BY <1>2
    <3>2. i \in 1 .. n => i # 0
      OBVIOUS
    <3>3. d[0] = base
      BY <1>6 DEF Recursion
    <3> QED BY <1>7, <3>1, <3>2, <3>3
  <2>2. d = [i \in 0 .. n |-> d[i]]
    OBVIOUS
  <2> QED BY <2>1, <2>2
<1>9. at = Body(at)
  <2> HIDE DEF Body
  <2> QED BY <1>8, Zenon
<1> HIDE DEF at
<1>10. /\ at[0] = base /\ at = [i \in 0 .. n |-> at[i]]
       /\ \A i \in 1 .. n : at[i] = Concat(at[i - 1], Part(i))
  <2>1. 0 \in 0 .. n /\ \A i \in 1 .. n : i \in 0 .. n /\ i # 0
    BY <1>2
  <2>2. at = [i \in 0 .. n |-> at[i]]
    BY <1>9
  <2>3. \A i \in 0 .. n : at[i] = IF i = 0 THEN base ELSE Concat(at[i - 1], Part(i))
    <3> TAKE i \in 0 .. n
    <3>1. at[i] = Body(at)[i]
      BY <1>9
    <3>2. Body(at)[i] = IF i = 0 THEN base ELSE Concat(at[i - 1], Part(i))
      OBVIOUS
    <3> QED BY <3>1, <3>2
  <2> QED BY <2>1, <2>2, <2>3
<1> DEFINE T == {i \in 0 .. n : at[i] \in S}
<1>11. 0 \in T
  BY <1>2, <1>10
<1>12. ASSUME NEW i \in 0 .. n - 1, i \in T PROVE i + 1 \in T
  <2> DEFINE j == i + 1
  <2>1. j \in 1 .. n /\ j \in 0 .. n /\ j - 1 = i
    BY <1>2
  <2>2. at[i] \in S
    BY <1>12
  <2> HIDE DEF j, T
  <2>3. at[j] = Concat(at[i], Part(j))
    BY <1>10, <2>1
  <2>4. at[j] \in S
    BY <1>3, <1>4, <2>1, <2>2, <2>3
  <2> QED BY <2>1, <2>4 DEF T, j
<1>13. \A i \in 0 .. n : i \in T
  <2> HIDE DEF T
  <2> QED BY <1>2, <1>11, <1>12, InductionTo
<1>14. at \in [0 .. n -> S]
  BY <1>10, <1>13
<1> QED BY <1>1, <1>10, <1>14 DEF Joins, S, n, base, Part, pieces

\* What has been put together had no piece that failed; with more results it is
\* the same.
JoinsAlike(x, Q, R) ==
    LET pieces == content[x].pieces
    IN  /\ \A i \in 0 .. Len(pieces) : Joined(x, Q)[i] # Error => Joined(x, R)[i] = Joined(x, Q)[i]
        /\ \A i \in 1 .. Len(pieces) : Joined(x, Q)[i] # Error =>
              /\ Joined(x, Q)[i - 1] # Error
              /\ PieceResult(pieces[i], Parent[x], Q) # Error

LEMMA JoinedExtends ==
    ASSUME World,
           NEW x \in Node, Holds(x, "interp"), NEW Q \in Outcomes, NEW R \in Outcomes, Extended(Q, R)
    PROVE  JoinsAlike(x, Q, R)
<1> DEFINE pieces == content[x].pieces
           n == Len(pieces)
           v == Joined(x, Q)
           w == Joined(x, R)
           P(i) == PieceResult(pieces[i], Parent[x], Q)
           O(i) == PieceResult(pieces[i], Parent[x], R)
           T == {i \in 0 .. n : v[i] # Error => w[i] = v[i]}
<1>1. Joins(x, Q) /\ Joins(x, R)
  BY JoinedIs
<1>2. v \in [0 .. n -> Outcome] /\ v[0] = <<>> /\ \A i \in 1 .. n : v[i] = Concat(v[i - 1], P(i))
  BY <1>1 DEF Joins
<1>3. w \in [0 .. n -> Outcome] /\ w[0] = <<>> /\ \A i \in 1 .. n : w[i] = Concat(w[i - 1], O(i))
  BY <1>1 DEF Joins
<1>4. n \in Nat
  BY PiecesAre
<1>5. ASSUME NEW i \in 1 .. n PROVE P(i) \in Outcome /\ (P(i) # Error => O(i) = P(i))
  <2> DEFINE y == pieces[i]
             c == Parent[x]
  <2>0. pieces \in Seq(Piece) /\ c \in Containers
    BY PiecesAre
  <2>1. y \in Piece
    <3> HIDE DEF pieces
    <3> QED BY <2>0
  <2> HIDE DEF y, c
  <2>2. Looks(y, c, Q)
    BY <2>0, <2>1, PieceIs
  <2>3. PiecesAlike(y, c, Q, R)
    BY <2>0, <2>1, PieceExtends
  <2>4. P(i) = PieceResult(y, c, Q) /\ O(i) = PieceResult(y, c, R)
    BY DEF y, c
  <2> QED BY <2>2, <2>3, <2>4 DEF Looks, PiecesAlike
<1> HIDE DEF v, w, n, pieces
<1>6. ASSUME NEW i \in 1 .. n, v[i] # Error PROVE v[i - 1] # Error /\ P(i) # Error
  <2>1. i - 1 \in 0 .. n
    BY <1>4
  <2>2. v[i - 1] \in Outcome
    BY <1>2, <2>1
  <2>3. v[i] = Concat(v[i - 1], P(i))
    BY <1>2
  <2>4. P(i) \in Outcome
    BY <1>5
  <2> HIDE DEF P
  <2> QED BY <1>6, <2>2, <2>3, <2>4, ConcatIs
<1>7. 0 \in T
  <2>1. 0 \in 0 .. n /\ w[0] = v[0]
    BY <1>2, <1>3, <1>4
  <2> QED BY <2>1
<1>8. ASSUME NEW i \in 0 .. n - 1, i \in T PROVE i + 1 \in T
  <2> DEFINE j == i + 1
  <2>1. j \in 1 .. n /\ j \in 0 .. n /\ j - 1 = i
    BY <1>4
  <2>2. v[i] # Error => w[i] = v[i]
    BY <1>8
  <2> HIDE DEF j, T
  <2>3. ASSUME v[j] # Error PROVE w[j] = v[j]
    <3>1. v[i] # Error /\ P(j) # Error
      BY <1>6, <2>1, <2>3
    <3>2. v[j] = Concat(v[i], P(j)) /\ w[j] = Concat(w[i], O(j))
      BY <1>2, <1>3, <2>1
    <3>3. O(j) = P(j)
      BY <1>5, <2>1, <3>1
    <3> QED BY <2>2, <3>1, <3>2, <3>3
  <2> QED BY <2>1, <2>3 DEF T, j
<1>9. \A i \in 0 .. n : i \in T
  <2> HIDE DEF T
  <2> QED BY <1>4, <1>7, <1>8, InductionTo
<1> QED BY <1>6, <1>9 DEF JoinsAlike, v, w, n, P, pieces

-----------------------------------------------------------------------------
(* The levels of nesting.                                                   *)

Rises(R) ==
    /\ Above(R) \in Outcomes
    /\ \A n \in Node :
          /\ ~Holds(n, "interp") => Above(R)[n] = <<n>>
          /\ Holds(n, "interp") => Above(R)[n] = Joined(n, R)[Len(content[n].pieces)]

LEMMA AboveIs ==
    ASSUME World, NEW R \in Outcomes
    PROVE  Rises(R)
<1>1. ASSUME NEW n \in Node, Holds(n, "interp") PROVE Joined(n, R)[Len(content[n].pieces)] \in Outcome
  <2>1. Joins(n, R)
    BY <1>1, JoinedIs
  <2>2. Len(content[n].pieces) \in 0 .. Len(content[n].pieces)
    BY <1>1, PiecesAre
  <2> QED BY <2>1, <2>2 DEF Joins
<1>2. \A n \in Node : <<n>> \in Outcome
  BY NodeIsResult DEF Outcome
<1> QED BY <1>1, <1>2 DEF Rises, Above, Outcomes

LEMMA AboveExtends ==
    ASSUME World,
           NEW Q \in Outcomes, NEW R \in Outcomes, Extended(Q, R)
    PROVE  Extended(Above(Q), Above(R))
<1> SUFFICES ASSUME NEW n \in Node, Above(Q)[n] # Error PROVE Above(R)[n] = Above(Q)[n]
  BY DEF Extended
<1>0. Rises(Q) /\ Rises(R)
  BY AboveIs
<1>1. CASE ~Holds(n, "interp")
  <2>1. Above(Q)[n] = <<n>>
    BY <1>0, <1>1 DEF Rises
  <2>2. Above(R)[n] = <<n>>
    BY <1>0, <1>1 DEF Rises
  <2> QED BY <2>1, <2>2
<1>2. CASE Holds(n, "interp")
  <2>1. JoinsAlike(n, Q, R)
    BY <1>2, JoinedExtends
  <2>2. Len(content[n].pieces) \in 0 .. Len(content[n].pieces)
    BY <1>2, PiecesAre
  <2>3. /\ Above(Q)[n] = Joined(n, Q)[Len(content[n].pieces)]
        /\ Above(R)[n] = Joined(n, R)[Len(content[n].pieces)]
    BY <1>0, <1>2 DEF Rises
  <2> QED BY <2>1, <2>2, <2>3 DEF JoinsAlike
<1> QED BY <1>1, <1>2

Plainly == [n \in Node |-> IF Holds(n, "interp") THEN Error ELSE <<n>>]

Levels ==
    LET N == Cardinality(Node)
    IN  /\ N \in Nat
        /\ ResultsTo \in [0 .. N -> Outcomes]
        /\ ResultsTo[0] = Plainly
        /\ \A d \in 1 .. N : ResultsTo[d] = Above(ResultsTo[d - 1])

LEMMA LevelsAre ==
    ASSUME World
    PROVE  Levels
<1> DEFINE n == Cardinality(Node)
           S == Outcomes
           base == Plainly
           Body(f) == [i \in 0 .. n |-> IF i = 0 THEN base ELSE Above(f[i - 1])]
           at == CHOOSE f : f = Body(f)
           step == [x \in S \X (1 .. n) |-> Above(x[1])]
<1>1. ResultsTo = at
  BY DEF ResultsTo, Plainly
<1>2. n \in Nat /\ base \in S
  <2>1. \A m \in Node : <<m>> \in Outcome
    BY NodeIsResult DEF Outcome
  <2>2. Plainly \in Outcomes
    BY <2>1 DEF Plainly, Outcomes, Outcome
  <2> QED BY <2>2, FS_CardinalityType DEF World
<1>3. \A s \in S : Above(s) \in S
  BY AboveIs DEF Rises
<1> HIDE DEF S, n, base
<1>4. step \in Steps(n, S) /\ \A s \in S, i \in 1 .. n : step[<<s, i>>] = Above(s)
  BY <1>3 DEF Steps
<1> HIDE DEF step
<1>5. PICK d \in [0 .. n -> S] : Recursion(d, n, base, step)
  BY <1>2, <1>4, RecursionTo
<1>6. ASSUME NEW i \in 1 .. n PROVE d[i] = Above(d[i - 1])
  <2> DEFINE j == i - 1
  <2>1. j \in 0 .. n - 1 /\ j + 1 = i /\ j \in 0 .. n
    BY <1>2
  <2>2. d[j] \in S
    BY <1>5, <2>1
  <2>3. d[j + 1] = step[<<d[j], j + 1>>]
    BY <1>5, <2>1 DEF Recursion
  <2> HIDE DEF j
  <2>4. d[i] = Above(d[j])
    BY <1>4, <2>1, <2>2, <2>3
  <2> QED BY <2>4 DEF j
<1>7. d = Body(d)
  <2>1. \A i \in 0 .. n : d[i] = IF i = 0 THEN base ELSE Above(d[i - 1])
    <3> TAKE i \in 0 .. n
    <3>1. i = 0 \/ i \in 1 .. n
      BY <1>2
    <3>2. i \in 1 .. n => i # 0
      OBVIOUS
    <3>3. d[0] = base
      BY <1>5 DEF Recursion
    <3> QED BY <1>6, <3>1, <3>2, <3>3
  <2>2. d = [i \in 0 .. n |-> d[i]]
    OBVIOUS
  <2> QED BY <2>1, <2>2
<1>8. at = Body(at)
  <2> HIDE DEF Body
  <2> QED BY <1>7, Zenon
<1> HIDE DEF at
<1>9. /\ at[0] = base /\ at = [i \in 0 .. n |-> at[i]]
      /\ \A i \in 1 .. n : at[i] = Above(at[i - 1])
  <2>1. 0 \in 0 .. n /\ \A i \in 1 .. n : i \in 0 .. n /\ i # 0
    BY <1>2
  <2>2. at = [i \in 0 .. n |-> at[i]]
    BY <1>8
  <2>3. \A i \in 0 .. n : at[i] = IF i = 0 THEN base ELSE Above(at[i - 1])
    <3> TAKE i \in 0 .. n
    <3>1. at[i] = Body(at)[i]
      BY <1>8
    <3>2. Body(at)[i] = IF i = 0 THEN base ELSE Above(at[i - 1])
      OBVIOUS
    <3> QED BY <3>1, <3>2
  <2> QED BY <2>1, <2>2, <2>3
<1> DEFINE T == {i \in 0 .. n : at[i] \in S}
<1>10. 0 \in T
  BY <1>2, <1>9
<1>11. ASSUME NEW i \in 0 .. n - 1, i \in T PROVE i + 1 \in T
  <2> DEFINE j == i + 1
  <2>1. j \in 1 .. n /\ j \in 0 .. n /\ j - 1 = i
    BY <1>2
  <2>2. at[i] \in S
    BY <1>11
  <2> HIDE DEF j, T
  <2>3. at[j] = Above(at[i])
    BY <1>9, <2>1
  <2>4. at[j] \in S
    BY <1>3, <2>2, <2>3
  <2> QED BY <2>1, <2>4 DEF T, j
<1>12. \A i \in 0 .. n : i \in T
  <2> HIDE DEF T
  <2> QED BY <1>2, <1>10, <1>11, InductionTo
<1>13. at \in [0 .. n -> S]
  BY <1>9, <1>12
<1> QED BY <1>1, <1>2, <1>9, <1>13 DEF Levels, S, n, base

\* Each level has the results of the one below.
LEMMA LevelExtends ==
    ASSUME World
    PROVE  \A d \in 0 .. Cardinality(Node) : Extended(ResultsTo[d], Above(ResultsTo[d]))
<1> DEFINE n == Cardinality(Node)
           R == ResultsTo
           T == {d \in 0 .. n : Extended(R[d], Above(R[d]))}
<1>1. /\ n \in Nat /\ R \in [0 .. n -> Outcomes] /\ R[0] = Plainly
      /\ \A d \in 1 .. n : R[d] = Above(R[d - 1])
  BY LevelsAre DEF Levels
<1> HIDE DEF n, R
<1>2. 0 \in T
  <2>1. 0 \in 0 .. n /\ R[0] \in Outcomes
    BY <1>1
  <2>2. \A m \in Node : ~Holds(m, "interp") => Above(R[0])[m] = <<m>>
    <3>1. Rises(R[0])
      BY <2>1, AboveIs
    <3> QED BY <3>1 DEF Rises
  <2>3. \A m \in Node : R[0][m] = IF Holds(m, "interp") THEN Error ELSE <<m>>
    BY <1>1 DEF Plainly
  <2>4. Extended(R[0], Above(R[0]))
    BY <2>2, <2>3 DEF Extended
  <2> QED BY <2>1, <2>4
<1>3. ASSUME NEW d \in 0 .. n - 1, d \in T PROVE d + 1 \in T
  <2> DEFINE e == d + 1
  <2>1. e \in 1 .. n /\ e \in 0 .. n /\ e - 1 = d /\ d \in 0 .. n
    BY <1>1
  <2>2. Extended(R[d], Above(R[d]))
    BY <1>3
  <2> HIDE DEF e, T
  <2>3. R[e] = Above(R[d]) /\ R[d] \in Outcomes /\ R[e] \in Outcomes
    BY <1>1, <2>1
  <2>4. Extended(R[d], R[e])
    BY <2>2, <2>3
  <2>5. Extended(Above(R[d]), Above(R[e]))
    BY <2>3, <2>4, AboveExtends
  <2>6. Extended(R[e], Above(R[e]))
    BY <2>3, <2>5
  <2> QED BY <2>1, <2>6 DEF T, e
<1>4. \A d \in 0 .. n : d \in T
  <2> HIDE DEF T
  <2> QED BY <1>1, <1>2, <1>3, InductionTo
<1> QED BY <1>4 DEF n, R

\* A result found at some level is found at all above.
LEMMA LevelsExtend ==
    ASSUME World
    PROVE  \A d \in 0 .. Cardinality(Node) : \A e \in 0 .. d : Extended(ResultsTo[e], ResultsTo[d])
<1> DEFINE n == Cardinality(Node)
           R == ResultsTo
           T == {d \in 0 .. n : \A e \in 0 .. d : Extended(R[e], R[d])}
<1>1. n \in Nat /\ \A d \in 1 .. n : R[d] = Above(R[d - 1])
  BY LevelsAre DEF Levels
<1>2. \A d \in 0 .. n : Extended(R[d], Above(R[d]))
  BY LevelExtends
<1> HIDE DEF n, R
<1>3. 0 \in T
  <2>1. 0 .. 0 = {0} /\ 0 \in 0 .. n
    BY <1>1
  <2> QED BY <2>1 DEF Extended
<1>4. ASSUME NEW d \in 0 .. n - 1, d \in T PROVE d + 1 \in T
  <2> DEFINE f == d + 1
  <2>1. f \in 1 .. n /\ f \in 0 .. n /\ f - 1 = d /\ d \in 0 .. n
    BY <1>1
  <2>2. \A e \in 0 .. d : Extended(R[e], R[d])
    BY <1>4
  <2>3. \A e \in 0 .. f : e = f \/ e \in 0 .. d
    OBVIOUS
  <2> HIDE DEF f, T
  <2>4. Extended(R[d], R[f])
    BY <1>1, <1>2, <2>1
  <2>5. \A e \in 0 .. f : Extended(R[e], R[f])
    BY <2>2, <2>3, <2>4 DEF Extended
  <2> QED BY <2>1, <2>5 DEF T, f
<1>5. \A d \in 0 .. n : d \in T
  <2> HIDE DEF T
  <2> QED BY <1>1, <1>3, <1>4, InductionTo
<1> QED BY <1>5 DEF n, R

\* On as many levels as there are nodes nothing is left to be found: a level with
\* no new node would be the last, and each other one has one.
LEMMA ReferenceIs ==
    ASSUME World
    PROVE  Reference \in Outcomes /\ Above(Reference) = Reference
<1> DEFINE n == Cardinality(Node)
           R == ResultsTo
           Found == [d \in 0 .. n |-> {m \in Node : R[d][m] # Error}]
           T == {d \in 0 .. n : Cardinality(Found[d]) >= d \/ Above(R[d]) = R[d]}
<1>1. n \in Nat /\ R \in [0 .. n -> Outcomes] /\ \A d \in 1 .. n : R[d] = Above(R[d - 1])
  BY LevelsAre DEF Levels
<1>2. \A d \in 0 .. n : Extended(R[d], Above(R[d]))
  BY LevelExtends
<1>3. Reference = R[n]
  BY DEF Reference
<1> HIDE DEF R
<1>4. \A d \in 0 .. n :
             /\ Found[d] \subseteq Node /\ IsFiniteSet(Found[d]) /\ Cardinality(Found[d]) \in Nat
             /\ Cardinality(Found[d]) = n => Found[d] = Node
  BY FS_Subset, FS_CardinalityType DEF World
<1> HIDE DEF n
<1>5. 0 \in T
  <2>1. Cardinality(Found[0]) >= 0
    <3>1. 0 \in 0 .. n
      BY <1>1
    <3> HIDE DEF Found
    <3> QED BY <1>4, <3>1
  <2> HIDE DEF Found
  <2> QED BY <1>1, <2>1
<1>6. ASSUME NEW d \in 0 .. n - 1, d \in T PROVE d + 1 \in T
  <2> DEFINE e == d + 1
  <2>1. e \in 1 .. n /\ e \in 0 .. n /\ e - 1 = d /\ d \in 0 .. n
    BY <1>1
  <2>2. Cardinality(Found[d]) >= d \/ Above(R[d]) = R[d]
    BY <1>6
  <2> HIDE DEF e, T
  <2>3. R[e] = Above(R[d]) /\ R[d] \in Outcomes /\ R[e] \in Outcomes /\ Extended(R[d], R[e])
    BY <1>1, <1>2, <2>1
  <2>4. CASE Above(R[d]) = R[d]
    BY <2>1, <2>3, <2>4 DEF T, e
  <2>5. CASE Above(R[d]) # R[d]
    <3>1. PICK m \in Node : R[e][m] # R[d][m]
      BY <2>3, <2>5 DEF Outcomes
    <3>2. m \notin Found[d] /\ m \in Found[e] /\ Found[d] \subseteq Found[e]
      BY <2>1, <2>3, <3>1 DEF Extended
    <3>3. IsFiniteSet(Found[d]) /\ IsFiniteSet(Found[e]) /\ Cardinality(Found[d]) >= d
          /\ Cardinality(Found[d]) \in Nat /\ Cardinality(Found[e]) \in Nat
      <4> HIDE DEF Found
      <4> QED BY <1>4, <2>1, <2>2, <2>5
    <3> HIDE DEF Found
    <3>4. Cardinality(Found[d] \cup {m}) = Cardinality(Found[d]) + 1
      BY <3>2, <3>3, FS_AddElement
    <3>5. Cardinality(Found[d] \cup {m}) <= Cardinality(Found[e])
      <4>1. Found[d] \cup {m} \subseteq Found[e]
        BY <3>2
      <4> QED BY <3>3, <4>1, FS_Subset DEF World
    <3>6. Cardinality(Found[e]) >= e
      BY <3>3, <3>4, <3>5 DEF e
    <3> QED BY <2>1, <3>6 DEF T, e
  <2> QED BY <2>4, <2>5
<1>7. \A d \in 0 .. n : d \in T
  <2> HIDE DEF T
  <2> QED BY <1>1, <1>5, <1>6, InductionTo
<1>8. n \in 0 .. n
  BY <1>1
<1>9. R[n] \in Outcomes /\ Extended(R[n], Above(R[n]))
  BY <1>1, <1>2, <1>8
<1>10. Above(R[n]) = R[n]
  <2>1. Cardinality(Found[n]) >= n \/ Above(R[n]) = R[n]
    BY <1>7, <1>8
  <2>2. CASE Cardinality(Found[n]) >= n
    <3>1. Cardinality(Found[n]) <= n
      <4>1. Found[n] \subseteq Node
        BY <1>8
      <4> HIDE DEF Found
      <4> QED BY <4>1, FS_Subset DEF n, World
    <3>2. Cardinality(Found[n]) = n
      <4> HIDE DEF Found
      <4> QED BY <1>1, <1>4, <1>8, <2>2, <3>1
    <3>3. \A m \in Node : R[n][m] # Error
      <4>1. Found[n] = Node
        <5> HIDE DEF Found
        <5> QED BY <1>4, <1>8, <3>2
      <4> QED BY <1>8, <4>1
    <3>4. \A m \in Node : Above(R[n])[m] = R[n][m]
      BY <1>9, <3>3 DEF Extended
    <3>5. Above(R[n]) \in Outcomes
      BY <1>9, AboveIs DEF Rises
    <3> QED BY <1>9, <3>4, <3>5 DEF Outcomes
  <2> QED BY <2>1, <2>2
<1> QED BY <1>3, <1>9, <1>10

\* What holds of the last number, and of each if it holds of the next, holds of
\* all.
Backwards(f, n) == \A i \in 1 .. n : f[i] # Error => f[i - 1] # Error

LEMMA Persists ==
    ASSUME NEW n \in Nat, NEW f, Backwards(f, n), f[n] # Error
    PROVE  \A i \in 0 .. n : f[i] # Error
<1> DEFINE T == {k \in 0 .. n : f[n - k] # Error}
<1>1. 0 \in T
  <2>1. n - 0 = n /\ 0 \in 0 .. n
    OBVIOUS
  <2> QED BY <2>1
<1>2. ASSUME NEW k \in 0 .. n - 1, k \in T PROVE k + 1 \in T
  <2> DEFINE i == n - k
             j == n - (k + 1)
  <2>1. i \in 1 .. n /\ i - 1 = j /\ k + 1 \in 0 .. n
    OBVIOUS
  <2>2. f[i] # Error
    BY <1>2
  <2> HIDE DEF i, j
  <2>3. f[j] # Error
    BY <2>1, <2>2 DEF Backwards
  <2> QED BY <2>1, <2>3 DEF j
<1>3. \A k \in 0 .. n : k \in T
  <2> HIDE DEF T
  <2> QED BY <1>1, <1>2, InductionTo
<1>4. ASSUME NEW i \in 0 .. n PROVE f[i] # Error
  <2>1. n - i \in 0 .. n /\ n - (n - i) = i
    OBVIOUS
  <2>2. f[n - (n - i)] # Error
    BY <1>3, <2>1
  <2> QED BY <2>1, <2>2
<1> QED BY <1>4

-----------------------------------------------------------------------------
(* Nesting.  A node that resolves has a height, the last level on which it   *)
(* has no result yet; what its resolution needs has a lower one.            *)

Height(n) == Max({d \in 0 .. Cardinality(Node) : ResultsTo[d][n] = Error})

Resolves(n) == Reference[n] # Error

High(n) ==
    LET N == Cardinality(Node)
    IN  /\ Height(n) \in 0 .. N - 1 /\ Height(n) + 1 \in 1 .. N /\ Height(n) \in 0 .. N
        /\ (Height(n) + 1) - 1 = Height(n)
        /\ ResultsTo[Height(n) + 1][n] # Error
        /\ \A d \in 0 .. N : ResultsTo[d][n] # Error => d > Height(n)

LEMMA HeightIs ==
    ASSUME World,
           NEW n \in Node, Holds(n, "interp"), Resolves(n)
    PROVE  High(n)
<1> DEFINE N == Cardinality(Node)
           R == ResultsTo
           s == {d \in 0 .. N : R[d][n] = Error}
           h == Max(s)
<1>1. N \in Nat /\ R[0] = Plainly
  BY LevelsAre DEF Levels
<1>2. R[N][n] # Error
  BY DEF Resolves, Reference
<1>3. \A d \in 0 .. N : \A e \in 0 .. d : Extended(R[e], R[d])
  BY LevelsExtend
<1>4. Height(n) = h
  BY DEF Height
<1> HIDE DEF N, R
<1>5. 0 \in s
  BY <1>1 DEF Plainly
<1>6. h \in s /\ \A y \in s : h >= y
  <2>1. s \in SUBSET (0 .. N) /\ s # {}
    BY <1>5
  <2> HIDE DEF s
  <2> QED BY <1>1, <2>1, MaxIn
<1> HIDE DEF h
<1>7. h \in 0 .. N /\ h # N /\ R[h][n] = Error
  BY <1>2, <1>6
<1>8. h \in 0 .. N - 1 /\ h + 1 \in 1 .. N /\ h + 1 \in 0 .. N /\ (h + 1) - 1 = h /\ ~(h >= h + 1)
  BY <1>1, <1>7
<1>9. R[h + 1][n] # Error
  BY <1>6, <1>8
<1>10. ASSUME NEW d \in 0 .. N, R[d][n] # Error PROVE d > h
  <2> SUFFICES ASSUME ~(d > h) PROVE FALSE
    OBVIOUS
  <2>1. d \in 0 .. h
    BY <1>7
  <2>2. Extended(R[d], R[h])
    BY <1>3, <1>7, <2>1
  <2> QED BY <1>7, <1>10, <2>2 DEF Extended
<1> QED BY <1>4, <1>7, <1>8, <1>9, <1>10 DEF High, N, R

\* What has a result at the height of n is lower.
LEMMA Lower ==
    ASSUME World,
           NEW n \in Node, Holds(n, "interp"), Resolves(n),
           NEW m \in Node, Holds(m, "interp"), ResultsTo[Height(n)][m] # Error
    PROVE  Resolves(m) /\ Height(m) < Height(n)
<1> DEFINE N == Cardinality(Node)
<1>1. High(n) /\ N \in Nat
  BY HeightIs, FS_CardinalityType DEF World
<1>2. Height(n) \in 0 .. N /\ N \in 0 .. N
  BY <1>1 DEF High
<1>3. Extended(ResultsTo[Height(n)], ResultsTo[N])
  BY <1>2, LevelsExtend
<1>4. Resolves(m)
  BY <1>3 DEF Extended, Resolves, Reference
<1>5. High(m)
  BY <1>4, HeightIs
<1>6. Height(n) > Height(m)
  BY <1>2, <1>5 DEF High
<1>7. Height(n) \in Int /\ Height(m) \in Int
  BY <1>1, <1>5 DEF High
<1> QED BY <1>4, <1>6, <1>7

\* A piece of a node that resolves: it resolves, its walk does not fail, and the
\* interpolations met on it resolve and are lower than the node.
Grounded(n, piece) ==
    LET p == piece.path
        c == Parent[n]
        w == Walk(p, From(piece, c), Reference)
    IN  /\ PieceResult(piece, c, Reference) # Error
        /\ p # <<>> =>
              /\ Base(c, piece.up) # {}
              /\ \A j \in 0 .. Len(p) : w[j] # Error
              /\ \A j \in 1 .. Len(p) : \A b \in Containers : w[j - 1] = <<b>> =>
                    /\ SelectOne(b, p[j]) # {}
                    /\ \A m \in SelectOne(b, p[j]) :
                          /\ ~Holds(m, "missing")
                          /\ Holds(m, "interp") => Resolves(m) /\ Height(m) < Height(n)

LEMMA WalkGrounded ==
    ASSUME World,
           NEW n \in Node, Holds(n, "interp"), Resolves(n), NEW p \in Seq(Key), NEW f \in Node,
           Walk(p, f, ResultsTo[Height(n)])[Len(p)] # Error
    PROVE  LET w == Walk(p, f, Reference)
           IN  /\ \A j \in 0 .. Len(p) : w[j] # Error
               /\ \A j \in 1 .. Len(p) : \A b \in Containers : w[j - 1] = <<b>> =>
                    /\ SelectOne(b, p[j]) # {}
                    /\ \A m \in SelectOne(b, p[j]) :
                          /\ ~Holds(m, "missing")
                          /\ Holds(m, "interp") => Resolves(m) /\ Height(m) < Height(n)
<1> DEFINE Q == ResultsTo[Height(n)]
           v == Walk(p, f, Q)
           w == Walk(p, f, Reference)
           l == Len(p)
<1>1. Height(n) \in 0 .. Cardinality(Node) /\ Cardinality(Node) \in 0 .. Cardinality(Node)
  <2>1. High(n) /\ Cardinality(Node) \in Nat
    BY HeightIs, FS_CardinalityType DEF World
  <2> QED BY <2>1 DEF High
<1>2. Q \in Outcomes
  <2>1. ResultsTo \in [0 .. Cardinality(Node) -> Outcomes]
    BY LevelsAre DEF Levels
  <2> QED BY <1>1, <2>1
<1>3. Reference \in Outcomes
  BY ReferenceIs
<1>4. Extended(Q, Reference)
  BY <1>1, LevelsExtend DEF Reference
<1>5. \A m \in Node : Holds(m, "interp") /\ Q[m] # Error => Resolves(m) /\ Height(m) < Height(n)
  BY Lower
<1> HIDE DEF Q
<1>6. Walks(p, f, Q) /\ WalksAlike(p, f, Q, Reference)
  BY <1>2, <1>3, <1>4, WalkIs, WalkExtends
<1>7. l \in Nat /\ l \in 0 .. l /\ v[l] # Error
  BY DEF Q
<1>8. /\ \A i \in 1 .. l : v[i] # Error => v[i - 1] # Error
      /\ \A i \in 0 .. l : v[i] # Error => w[i] = v[i]
  BY <1>6 DEF WalksAlike
<1>9. /\ v \in [0 .. l -> Outcome]
      /\ \A i \in 1 .. l : v[i] = Enter(v[i - 1], p[i], Q)
  BY <1>6 DEF Walks
<1> HIDE DEF v, w, l
<1>10. \A i \in 0 .. l : v[i] # Error
  <2>1. Backwards(v, l)
    BY <1>8 DEF Backwards
  <2> QED BY <1>7, <2>1, Persists
<1>11. \A i \in 0 .. l : w[i] = v[i]
  BY <1>8, <1>10
<1>12. ASSUME NEW j \in 1 .. l, NEW b \in Containers, w[j - 1] = <<b>>
       PROVE  /\ SelectOne(b, p[j]) # {}
              /\ \A m \in SelectOne(b, p[j]) :
                    /\ ~Holds(m, "missing")
                    /\ Holds(m, "interp") => Resolves(m) /\ Height(m) < Height(n)
  <2> DEFINE i == j - 1
             x == v[i]
             k == p[j]
  <2>1. i \in 0 .. l /\ j \in 0 .. l
    BY <1>7
  <2>2. x \in Outcome /\ x = <<b>>
    <3>1. v[i] \in Outcome
      <4> HIDE DEF i
      <4> QED BY <1>9, <2>1
    <3>2. w[i] = v[i]
      BY <1>11, <2>1
    <3>3. w[i] = <<b>>
      BY <1>12
    <3> QED BY <3>1, <3>2, <3>3
  <2>3. Enter(x, k, Q) # Error
    BY <1>9, <1>10, <2>1
  <2> HIDE DEF x, i, k
  <2>4. LeadsOn(x, k, Q)
    BY <1>2, <2>2, EnterIs
  <2>5. Boxes(x) = {b}
    BY <2>2, BoxesAre
  <2>6. SelectOne(b, k) # {} /\ SelectOne(b, k) \subseteq Node
    BY <2>3, <2>4, <2>5, FoundIs DEF LeadsOn, World
  <2>7. ASSUME NEW m \in SelectOne(b, k) PROVE ~Holds(m, "missing") /\ Q[m] # Error
    BY <2>3, <2>4, <2>5 DEF LeadsOn
  <2> QED BY <1>5, <2>6, <2>7 DEF k
<1> QED BY <1>7, <1>10, <1>11, <1>12 DEF w, l

LEMMA NodeGrounded ==
    ASSUME World,
           NEW n \in Node, Holds(n, "interp"), Resolves(n), NEW i \in 1 .. Len(content[n].pieces)
    PROVE  Grounded(n, content[n].pieces[i])
<1> DEFINE Q == ResultsTo[Height(n)]
           pieces == content[n].pieces
           l == Len(pieces)
           piece == pieces[i]
           p == piece.path
           c == Parent[n]
           v == Joined(n, Q)
<1>1. High(n) /\ pieces \in Seq(Piece) /\ c \in Containers
  BY HeightIs, PiecesAre
<1>2. Q \in Outcomes
  <2>1. ResultsTo \in [0 .. Cardinality(Node) -> Outcomes]
    BY LevelsAre DEF Levels
  <2>2. Height(n) \in 0 .. Cardinality(Node)
    BY <1>1 DEF High
  <2> QED BY <2>1, <2>2
<1>3. Reference \in Outcomes
  BY ReferenceIs
<1>4. Extended(Q, Reference)
  <2>1. Cardinality(Node) \in 0 .. Cardinality(Node)
    BY FS_CardinalityType DEF World
  <2> QED BY <1>1, <2>1, LevelsExtend DEF Reference, High
<1>5. Above(Q)[n] # Error
  <2>1. ResultsTo[Height(n) + 1] = Above(ResultsTo[(Height(n) + 1) - 1])
    BY <1>1, LevelsAre DEF Levels, High
  <2> QED BY <1>1, <2>1 DEF High
<1>6. \A f \in Node : Walk(p, f, Q)[Len(p)] # Error /\ p \in Seq(Key) =>
        LET w == Walk(p, f, Reference)
        IN  /\ \A j \in 0 .. Len(p) : w[j] # Error
            /\ \A j \in 1 .. Len(p) : \A b \in Containers : w[j - 1] = <<b>> =>
                    /\ SelectOne(b, p[j]) # {}
                    /\ \A m \in SelectOne(b, p[j]) :
                          /\ ~Holds(m, "missing")
                          /\ Holds(m, "interp") => Resolves(m) /\ Height(m) < Height(n)
  <2> HIDE DEF p
  <2> QED BY WalkGrounded
<1> HIDE DEF Q
<1>7. l \in Nat /\ v[l] # Error
  <2>1. Rises(Q)
    BY <1>2, AboveIs
  <2> QED BY <1>1, <1>5, <2>1 DEF Rises
<1>8. JoinsAlike(n, Q, Reference)
  BY <1>2, <1>3, <1>4, JoinedExtends
<1>9. \A k \in 1 .. l : v[k] # Error => v[k - 1] # Error /\ PieceResult(pieces[k], c, Q) # Error
  BY <1>8 DEF JoinsAlike
<1>10. i \in 1 .. l /\ i \in 0 .. l
  BY <1>7
<1>11. v[i] # Error
  <2> HIDE DEF v, l
  <2>1. Backwards(v, l)
    BY <1>9 DEF Backwards
  <2>2. \A k \in 0 .. l : v[k] # Error
    BY <1>7, <2>1, Persists
  <2> QED BY <1>10, <2>2
<1>12. piece \in Piece /\ PieceResult(piece, c, Q) # Error
  BY <1>1, <1>9, <1>10, <1>11
<1>13. p \in Seq(Key)
  <2> HIDE DEF piece
  <2> QED BY <1>12 DEF Piece
<1> HIDE DEF piece, c, v, l, pieces
<1>14. PiecesAlike(piece, c, Q, Reference) /\ Looks(piece, c, Q)
  BY <1>1, <1>2, <1>3, <1>4, <1>12, PieceExtends, PieceIs
<1>15. PieceResult(piece, c, Reference) # Error
  BY <1>12, <1>14 DEF PiecesAlike
<1>16. ASSUME p # <<>>
       PROVE  /\ Base(c, piece.up) # {}
              /\ From(piece, c) \in Node
              /\ Walk(p, From(piece, c), Q)[Len(p)] # Error
  <2>1. Base(c, piece.up) # {}
    BY <1>12, <1>14, <1>16 DEF Looks
  <2>2. /\ From(piece, c) \in Node
        /\ PieceResult(piece, c, Q) = Checked(Walk(p, From(piece, c), Q)[Len(p)], c)
    BY <1>14, <1>16, <2>1 DEF Looks, Containers
  <2>3. \A r : Checked(r, c) # Error => r # Error
    BY DEF Checked, IsNode
  <2> QED BY <1>12, <2>1, <2>2, <2>3
<1> HIDE DEF p
<1> QED BY <1>6, <1>13, <1>15, <1>16 DEF Grounded, p, c, piece, pieces

-----------------------------------------------------------------------------
(* What the frames stand for.  A call for a node has put together what its   *)
(* pieces to the left denote; a walk is for the next piece of the call below *)
(* it and has got to where the path leads; a call on a walk is for the node  *)
(* that the walk waits for.                                                  *)

\* The frame of a call has a walk for its next piece.
Looking(g) == /\ g.left # <<>> /\ Head(g.left).path # <<>>
              /\ Base(Parent[g.node], Head(g.left).up) # {}

WalkOf(g) == Walk(Head(g.left).path, From(Head(g.left), Parent[g.node]), Reference)

\* q is what is left of p.
Rest(q, p) == Len(q) <= Len(p) /\ \A j \in 1 .. Len(q) : q[j] = p[(Len(p) - Len(q)) + j]

DerefAgrees(f) ==
    LET pieces == content[f.node].pieces
    IN  /\ Rest(f.left, pieces)
        /\ f.got = Joined(f.node, Reference)[Len(pieces) - Len(f.left)]

SelectAgrees(f, g) ==
    LET p == Head(g.left).path
    IN  /\ g.call = "deref" /\ Looking(g)
        /\ Rest(f.path, p)
        /\ WalkOf(g)[Len(p) - Len(f.path)] = <<f.at>>
        /\ f.on # NoResult => f.on \in SelectOne(f.at, Head(f.path)) /\ Holds(f.on, "interp")

\* Frame f lies on frame g.
LiesOn(f, g) == IF f.call = "select" THEN SelectAgrees(f, g)
                ELSE g.call = "select" /\ g.on = f.node

\* The frame f waits for a result, and for which.
Ready(f) == IF f.call = "select" THEN f.on \in Node ELSE Looking(f)
Awaited(f) == IF f.call = "select" THEN Reference[f.on] ELSE WalkOf(f)[Len(Head(f.left).path)]

Agree(s, r, a, c) ==
    /\ s # <<>> => s[1].call = "deref" /\ s[1].node = a
    /\ \A k \in DOMAIN s : s[k].call = "deref" => DerefAgrees(s[k])
    /\ \A k \in 1 .. Len(s) - 1 : LiesOn(s[k + 1], s[k])
    /\ s # <<>> /\ r # NoResult => Ready(s[Len(s)]) /\ (r # Error => r = Awaited(s[Len(s)]))
    /\ s = <<>> /\ a # NoResult => r # NoResult /\ (r # Error => r = Reference[a])
    /\ \A n \in Node : c[n] # NoResult => c[n] = Reference[n]

\* The node resolves, and the stack has room for it: then no call fails and each
\* call for a node is for a lower one than those below it.
Certain(a) == a # NoResult /\ Resolves(a) /\ MaxDepth >= 2 * Cardinality(Node)

Placed(f, k) == Resolves(f.node) /\ k <= 2 * (Cardinality(Node) - 1 - Height(f.node)) + 1

Falls(s) ==
    /\ \A k \in DOMAIN s : s[k].call = "deref" => Placed(s[k], k)
    /\ \A k \in DOMAIN s : \A i \in 1 .. k - 1 :
          s[k].call = "deref" /\ s[i].call = "deref" => Height(s[k].node) < Height(s[i].node)

Good(s, r, a, c) == Agree(s, r, a, c) /\ (Certain(a) => r # Error /\ Falls(s))

\* A stack of sound frames.
Frames(s) == s \in Seq(Frame) /\ \A k \in DOMAIN s : Sound(s[k])

LEMMA FramesTop ==
    ASSUME NEW s, Frames(s), s # <<>>
    PROVE  /\ Len(s) \in Nat \ {0} /\ DOMAIN s = 1 .. Len(s) /\ Len(s) \in 1 .. Len(s)
           /\ \A k \in 1 .. Len(s) - 1 : k \in 1 .. Len(s) /\ k + 1 \in 1 .. Len(s) /\ k # Len(s)
           /\ \A k \in 1 .. Len(s) : k = Len(s) \/ k \in 1 .. Len(s) - 1
           /\ Len(s) = 1 \/ (Len(s) - 1 \in 1 .. Len(s) - 1 /\ (Len(s) - 1) + 1 = Len(s))
           /\ Sound(s[Len(s)])
<1> DEFINE n == Len(s)
<1>1. s \in Seq(Frame)
  BY DEF Frames
<1>2. n \in Nat \ {0} /\ DOMAIN s = 1 .. n /\ n \in 1 .. n
  BY <1>1
<1>3. Sound(s[n])
  BY <1>2 DEF Frames
<1> HIDE DEF n
<1>4. /\ \A k \in 1 .. n - 1 : k \in 1 .. n /\ k + 1 \in 1 .. n /\ k # n
      /\ \A k \in 1 .. n : k = n \/ k \in 1 .. n - 1
      /\ n = 1 \/ (n - 1 \in 1 .. n - 1 /\ (n - 1) + 1 = n)
  BY <1>2
<1> QED BY <1>2, <1>3, <1>4 DEF n

\* What the call on top is expected to return.
Meant(s) == IF s[Len(s)].call = "deref" THEN Reference[s[Len(s)].node]
            ELSE WalkOf(s[Len(s) - 1])[Len(Head(s[Len(s) - 1].left).path)]

LEMMA Pops ==
    ASSUME NEW s, Frames(s), s # <<>>, NEW r, NEW q, NEW a, NEW c, NEW d, Good(s, q, a, c),
           r # NoResult, r # Error => r = Meant(s), Certain(a) => r # Error,
           \A n \in Node : d[n] # NoResult => d[n] = Reference[n], NoResult \notin Node
    PROVE  Good(SubSeq(s, 1, Len(s) - 1), r, a, d)
<1> DEFINE n == Len(s)
           t == SubSeq(s, 1, n - 1)
<1>1. /\ n \in Nat \ {0} /\ DOMAIN s = 1 .. n /\ n \in 1 .. n
      /\ \A k \in 1 .. n - 1 : k \in 1 .. n /\ k + 1 \in 1 .. n /\ k # n
      /\ n = 1 \/ (n - 1 \in 1 .. n - 1 /\ (n - 1) + 1 = n)
      /\ Sound(s[n])
  BY FramesTop
<1>2. /\ t \in Seq(Frame) /\ Len(t) = n - 1 /\ DOMAIN t = 1 .. n - 1
      /\ \A k \in 1 .. n - 1 : t[k] = s[k]
  <2>1. s \in Seq(Frame) /\ n \in Nat /\ DOMAIN s = 1 .. n /\ n \in DOMAIN s /\ n > 0
    BY DEF Frames
  <2> QED BY <2>1
<1>3. t # <<>> <=> n # 1
  <2>1. t \in Seq(Frame)
    BY <1>2
  <2> HIDE DEF t
  <2>2. t # <<>> <=> Len(t) # 0
    BY <2>1
  <2> HIDE DEF n
  <2> QED BY <1>1, <1>2, <2>2
<1>4. /\ s[1].call = "deref" /\ s[1].node = a
      /\ \A k \in 1 .. n : s[k].call = "deref" => DerefAgrees(s[k])
      /\ \A k \in 1 .. n - 1 : LiesOn(s[k + 1], s[k])
  BY <1>1 DEF Good, Agree
<1> HIDE DEF n, t
<1>5. ASSUME n # 1 PROVE Ready(t[n - 1]) /\ (r # Error => r = Awaited(t[n - 1]))
  <2> DEFINE f == s[n]
             g == s[n - 1]
  <2>1. LiesOn(f, g) /\ t[n - 1] = g
    <3>1. n - 1 \in 1 .. n - 1 /\ (n - 1) + 1 = n
      BY <1>1, <1>5
    <3>2. LiesOn(s[(n - 1) + 1], s[n - 1]) /\ t[n - 1] = s[n - 1]
      BY <1>2, <1>4, <3>1
    <3> QED BY <3>1, <3>2
  <2>2. Sound(f) /\ (r # Error => r = Meant(s))
    BY <1>1
  <2>3. Meant(s) = IF f.call = "deref" THEN Reference[f.node] ELSE WalkOf(g)[Len(Head(g.left).path)]
    BY DEF Meant, n
  <2> HIDE DEF f, g
  <2>4. CASE f.call = "deref"
    <3>1. g.call = "select" /\ g.on = f.node /\ f.node \in Node
      BY <2>1, <2>2, <2>4, FramesAre DEF LiesOn
    <3> QED BY <2>1, <2>2, <2>3, <2>4, <3>1 DEF Ready, Awaited
  <2>5. CASE f.call = "select"
    <3>1. g.call = "deref" /\ Looking(g)
      BY <2>1, <2>5 DEF LiesOn, SelectAgrees
    <3> QED BY <2>1, <2>2, <2>3, <2>5, <3>1 DEF Ready, Awaited
  <2> QED BY <2>2, <2>4, <2>5, FramesAre
<1>6. ASSUME n = 1, a # NoResult PROVE r # Error => r = Reference[a]
  BY <1>4, <1>6 DEF Meant, n
<1>7. t # <<>> => t[1].call = "deref" /\ t[1].node = a
  <2>1. n # 1 => 1 \in 1 .. n - 1
    BY <1>1
  <2> QED BY <1>2, <1>3, <1>4, <2>1
<1>8. \A k \in 1 .. (n - 1) - 1 : LiesOn(t[k + 1], t[k])
  <2> TAKE k \in 1 .. (n - 1) - 1
  <2> DEFINE j == k + 1
  <2>1. k \in 1 .. n - 1 /\ j \in 1 .. n - 1
    BY <1>1
  <2>2. LiesOn(s[j], s[k])
    BY <1>4, <2>1
  <2> HIDE DEF j
  <2>3. LiesOn(t[j], t[k])
    BY <1>2, <2>1, <2>2
  <2> QED BY <2>3 DEF j
<1>9. Agree(t, r, a, d)
  <2>1. t # <<>> => Ready(t[Len(t)]) /\ (r # Error => r = Awaited(t[Len(t)]))
    BY <1>2, <1>3, <1>5
  <2>2. t = <<>> /\ a # NoResult => (r # Error => r = Reference[a])
    BY <1>3, <1>6
  <2>3. \A k \in DOMAIN t : t[k].call = "deref" => DerefAgrees(t[k])
    BY <1>1, <1>2, <1>4
  <2> QED BY <1>2, <1>7, <1>8, <2>1, <2>2, <2>3 DEF Agree
<1>10. Certain(a) => Falls(t)
  <2> SUFFICES ASSUME Certain(a) PROVE Falls(t)
    OBVIOUS
  <2>1. Falls(s)
    BY DEF Good
  <2>2. \A k \in DOMAIN t : k \in DOMAIN s /\ t[k] = s[k] /\ \A i \in 1 .. k - 1 : i \in DOMAIN t
    BY <1>1, <1>2
  <2> QED BY <1>2, <2>1, <2>2 DEF Falls
<1> QED BY <1>9, <1>10 DEF Good, t, n

LEMMA Turns ==
    ASSUME NEW s, Frames(s), s # <<>>, NEW f, Sound(f), NEW q, NEW a, NEW c, Good(s, q, a, c),
           f.call = s[Len(s)].call,
           f.call = "deref" => f.node = s[Len(s)].node /\ DerefAgrees(f),
           f.call = "select" => SelectAgrees(f, s[Len(s) - 1]), Error # NoResult
    PROVE  LET t == [s EXCEPT ![Len(s)] = f]
           IN  /\ Frames(t) /\ t # <<>> /\ Len(t) = Len(s) /\ t[Len(s)] = f
               /\ Len(s) > 1 => t[Len(s) - 1] = s[Len(s) - 1]
               /\ Good(t, NoResult, a, c)
<1> DEFINE n == Len(s)
           t == [s EXCEPT ![n] = f]
<1>1. /\ n \in Nat \ {0} /\ DOMAIN s = 1 .. n /\ n \in 1 .. n
      /\ \A k \in 1 .. n - 1 : k \in 1 .. n /\ k + 1 \in 1 .. n /\ k # n
      /\ \A k \in 1 .. n : k = n \/ k \in 1 .. n - 1
      /\ n = 1 \/ (n - 1 \in 1 .. n - 1 /\ (n - 1) + 1 = n)
  BY FramesTop
<1>2. /\ t \in Seq(Frame) /\ Len(t) = n /\ DOMAIN t = 1 .. n /\ t[n] = f
      /\ \A k \in 1 .. n : k # n => t[k] = s[k]
  <2>1. s \in Seq(Frame) /\ DOMAIN s = 1 .. n /\ n \in DOMAIN s /\ f \in Frame
    BY <1>1, FramesAre DEF Frames
  <2> HIDE DEF n
  <2>2. /\ t \in Seq(Frame) /\ Len(t) = Len(s) /\ DOMAIN t = DOMAIN s /\ t[n] = f
        /\ \A k \in DOMAIN s : k # n => t[k] = s[k]
    BY <2>1, ExceptIs
  <2> QED BY <2>1, <2>2 DEF n
<1>3. /\ s[1].call = "deref" /\ s[1].node = a
      /\ \A k \in 1 .. n : s[k].call = "deref" => DerefAgrees(s[k])
      /\ \A k \in 1 .. n - 1 : LiesOn(s[k + 1], s[k])
      /\ \A m \in Node : c[m] # NoResult => c[m] = Reference[m]
  BY <1>1 DEF Good, Agree
<1>4. t # <<>>
  <2>1. Len(t) # 0
    BY <1>1, <1>2
  <2> HIDE DEF t
  <2> QED BY <2>1
<1>5. /\ f.call = s[n].call /\ (f.call = "deref" => f.node = s[n].node /\ DerefAgrees(f))
      /\ f.call = "select" => SelectAgrees(f, s[n - 1])
  OBVIOUS
<1>6. \A k \in 1 .. n : Sound(t[k])
  BY <1>1, <1>2 DEF Frames
<1> HIDE DEF n, t
<1>7. \A k \in 1 .. n : t[k].call = s[k].call /\ (t[k].call = "deref" => t[k].node = s[k].node)
  BY <1>2, <1>5
<1>8. \A k \in 1 .. n : t[k].call = "deref" => DerefAgrees(t[k])
  BY <1>2, <1>3, <1>5
<1>9. ASSUME NEW k \in 1 .. n - 1 PROVE LiesOn(t[k + 1], t[k])
  <2> DEFINE j == k + 1
  <2>1. k \in 1 .. n /\ k # n /\ j \in 1 .. n /\ t[k] = s[k] /\ (j = n => k = n - 1)
    BY <1>1, <1>2
  <2>2. LiesOn(s[j], s[k])
    BY <1>3
  <2> HIDE DEF j
  <2>3. LiesOn(t[j], t[k])
    <3>1. CASE j # n
      BY <1>2, <2>1, <2>2, <3>1
    <3>2. CASE j = n
      <4>1. t[j] = f /\ t[k] = s[n - 1] /\ s[k] = s[n - 1] /\ s[j] = s[n]
        BY <1>2, <2>1, <3>2
      <4>2. CASE f.call = "select"
        BY <1>5, <4>1, <4>2 DEF LiesOn
      <4>3. CASE f.call # "select"
        <5>1. s[n].call = f.call /\ f.call = "deref" /\ f.node = s[n].node
          BY <1>5, <4>3, FramesAre
        <5> QED BY <2>2, <4>1, <4>3, <5>1 DEF LiesOn
      <4> QED BY <4>2, <4>3
    <3> QED BY <3>1, <3>2
  <2> QED BY <2>3 DEF j
<1>10. Agree(t, NoResult, a, c)
  <2>1. t[1].call = "deref" /\ t[1].node = a
    <3>1. 1 \in 1 .. n
      BY <1>1
    <3> QED BY <1>3, <1>7, <3>1
  <2> QED BY <1>2, <1>3, <1>4, <1>8, <1>9, <2>1 DEF Agree
<1>11. Certain(a) => Falls(t)
  <2> SUFFICES ASSUME Certain(a) PROVE Falls(t)
    OBVIOUS
  <2>1. Falls(s)
    BY DEF Good
  <2>2. \A k \in 1 .. n : \A i \in 1 .. k - 1 : i \in 1 .. n
    BY <1>1
  <2> QED BY <1>1, <1>2, <1>7, <2>1, <2>2 DEF Falls, Placed
<1>12. n > 1 => t[n - 1] = s[n - 1]
  BY <1>1, <1>2
<1> QED BY <1>2, <1>4, <1>6, <1>10, <1>11, <1>12 DEF Good, Frames, t, n

LEMMA Pushes ==
    ASSUME World, NEW s, Frames(s), s # <<>>, NEW g, Sound(g), NEW a, NEW c, Good(s, NoResult, a, c),
           LiesOn(g, s[Len(s)]), g.call = "deref" => DerefAgrees(g),
           g.call = "deref" /\ Certain(a) =>
               Resolves(g.node) /\ Height(g.node) < Height(s[Len(s) - 1].node)
    PROVE  Good(Append(s, g), NoResult, a, c)
<1> DEFINE n == Len(s)
           t == Append(s, g)
<1>1. /\ n \in Nat \ {0} /\ DOMAIN s = 1 .. n /\ n \in 1 .. n
      /\ \A k \in 1 .. n - 1 : k \in 1 .. n /\ k + 1 \in 1 .. n /\ k # n
      /\ \A k \in 1 .. n : k = n \/ k \in 1 .. n - 1
      /\ n = 1 \/ (n - 1 \in 1 .. n - 1 /\ (n - 1) + 1 = n)
  BY FramesTop
<1>2. /\ t \in Seq(Frame) /\ Len(t) = n + 1 /\ DOMAIN t = 1 .. n + 1 /\ t[n + 1] = g
      /\ \A k \in 1 .. n : t[k] = s[k]
  <2>1. s \in Seq(Frame) /\ g \in Frame
    BY FramesAre DEF Frames
  <2> QED BY <2>1
<1>3. /\ s[1].call = "deref" /\ s[1].node = a
      /\ \A k \in 1 .. n : s[k].call = "deref" => DerefAgrees(s[k])
      /\ \A k \in 1 .. n - 1 : LiesOn(s[k + 1], s[k])
      /\ \A m \in Node : c[m] # NoResult => c[m] = Reference[m]
  BY <1>1 DEF Good, Agree
<1>4. t # <<>> /\ LiesOn(g, s[n])
  <2>1. Len(t) # 0
    BY <1>1, <1>2
  <2> HIDE DEF t
  <2> QED BY <2>1
<1>5. \A k \in 1 .. n : Sound(s[k])
  BY <1>1 DEF Frames
<1>6. /\ g.call = "deref" /\ Certain(a) => Resolves(g.node) /\ Height(g.node) < Height(s[n - 1].node)
      /\ g.call = "deref" => DerefAgrees(g)
  OBVIOUS
<1>7. Certain(a) => Falls(s)
  BY DEF Good
<1>8. Certain(a) => NoResult # Error
  BY DEF World, ResultAssumption
<1> HIDE DEF n, t
<1>9. \A k \in 1 .. n + 1 : k = n + 1 \/ k \in 1 .. n
  BY <1>1
<1>10. Agree(t, NoResult, a, c)
  <2>1. t[1].call = "deref" /\ t[1].node = a
    <3>1. 1 \in 1 .. n
      BY <1>1
    <3> QED BY <1>2, <1>3, <3>1
  <2>2. \A k \in 1 .. n + 1 : t[k].call = "deref" => DerefAgrees(t[k])
    BY <1>2, <1>3, <1>6, <1>9
  <2>3. ASSUME NEW k \in 1 .. (n + 1) - 1 PROVE LiesOn(t[k + 1], t[k])
    <3> DEFINE j == k + 1
    <3>1. k \in 1 .. n /\ (k = n => j = n + 1) /\ (k # n => j \in 1 .. n /\ k \in 1 .. n - 1)
      BY <1>1
    <3>2. k # n => LiesOn(s[j], s[k])
      BY <1>3, <3>1
    <3> HIDE DEF j
    <3>3. LiesOn(t[j], t[k])
      BY <1>2, <1>4, <3>1, <3>2
    <3> QED BY <3>3 DEF j
  <2> QED BY <1>2, <1>3, <1>4, <2>1, <2>2, <2>3 DEF Agree
<1>11. ASSUME Certain(a) PROVE Falls(t)
  <2>1. Falls(s)
    BY <1>7, <1>11
  <2>2. /\ \A k \in 1 .. n : s[k].call = "deref" => Placed(s[k], k)
        /\ \A k \in 1 .. n : \A i \in 1 .. k - 1 :
              s[k].call = "deref" /\ s[i].call = "deref" => Height(s[k].node) < Height(s[i].node)
    BY <1>1, <2>1 DEF Falls
  <2>3. \A k \in 1 .. n : s[k].call = "deref" => High(s[k].node)
    <3> TAKE k \in 1 .. n
    <3> HAVE s[k].call = "deref"
    <3>1. s[k].node \in Node /\ Holds(s[k].node, "interp")
      BY <1>5, FramesAre
    <3>2. Resolves(s[k].node)
      BY <2>2 DEF Placed
    <3> QED BY <3>1, <3>2, HeightIs
  <2>4. ASSUME g.call = "deref"
        PROVE  /\ Placed(g, n + 1)
               /\ \A i \in 1 .. n : s[i].call = "deref" => Height(g.node) < Height(s[i].node)
    <3> DEFINE b == s[n - 1]
               N == Cardinality(Node)
    <3>1. g.node \in Node /\ Holds(g.node, "interp") /\ s[n].call = "select"
      BY <1>4, <2>4, FramesAre DEF LiesOn
    <3>2. n - 1 \in 1 .. n - 1 /\ (n - 1) + 1 = n /\ n - 1 \in 1 .. n
      <4>1. n # 1
        BY <1>3, <3>1
      <4> QED BY <1>1, <4>1
    <3>3. b.call = "deref"
      <4>1. LiesOn(s[(n - 1) + 1], s[n - 1])
        BY <1>3, <3>2
      <4> QED BY <3>1, <3>2, <4>1 DEF LiesOn, SelectAgrees
    <3>4. Resolves(g.node) /\ Height(g.node) < Height(b.node)
      BY <1>6, <1>11, <2>4
    <3>5. Height(g.node) \in Int /\ N \in Nat /\ \A i \in 1 .. n : s[i].call = "deref" => Height(s[i].node) \in Int
      <4>1. High(g.node)
        BY <3>1, <3>4, HeightIs
      <4>2. N \in Nat
        BY FS_CardinalityType DEF World
      <4>3. \A m : High(m) => Height(m) \in Int
        BY DEF High
      <4> HIDE DEF N
      <4> QED BY <2>3, <4>1, <4>2, <4>3
    <3>6. n - 1 <= 2 * (N - 1 - Height(b.node)) + 1 /\ Height(b.node) \in Int
      BY <2>2, <3>2, <3>3, <3>5 DEF Placed
    <3> HIDE DEF b, N
    <3>7. n + 1 <= 2 * (N - 1 - Height(g.node)) + 1
      BY <1>1, <3>4, <3>5, <3>6
    <3>8. ASSUME NEW i \in 1 .. n, s[i].call = "deref" PROVE Height(g.node) < Height(s[i].node)
      <4>1. i # n
        BY <3>1, <3>8
      <4>2. CASE i = n - 1
        BY <3>4, <4>2 DEF b
      <4>3. CASE i # n - 1
        <5>1. i \in 1 .. (n - 1) - 1
          BY <1>1, <4>1, <4>3
        <5>2. Height(b.node) < Height(s[i].node)
          BY <2>2, <3>2, <3>3, <3>8, <5>1 DEF b
        <5>3. Height(s[i].node) \in Int
          BY <3>5, <3>8
        <5> QED BY <3>4, <3>5, <3>6, <5>2, <5>3
      <4> QED BY <4>2, <4>3
    <3> QED BY <3>4, <3>7, <3>8 DEF Placed, N
  <2>5. \A k \in 1 .. n + 1 : t[k].call = "deref" => Placed(t[k], k)
    BY <1>2, <1>9, <2>2, <2>4
  <2>6. ASSUME NEW k \in 1 .. n + 1, NEW i \in 1 .. k - 1, t[k].call = "deref", t[i].call = "deref"
        PROVE  Height(t[k].node) < Height(t[i].node)
    <3>1. i \in 1 .. n /\ t[i] = s[i]
      BY <1>1, <1>2
    <3>2. CASE k = n + 1
      BY <1>2, <2>4, <2>6, <3>1, <3>2
    <3>3. CASE k \in 1 .. n
      BY <1>2, <2>2, <2>6, <3>1, <3>3
    <3> QED BY <1>9, <3>2, <3>3
  <2> QED BY <1>2, <2>5, <2>6 DEF Falls
<1> QED BY <1>8, <1>10, <1>11 DEF Good, t

\* What there is to know of it.
Rests(q, p, S) ==
    LET i == Len(p) - Len(q)
    IN  /\ i \in 0 .. Len(p) /\ i + 1 \in 1 .. Len(p) /\ (i + 1) - 1 = i
        /\ Head(q) = p[i + 1] /\ p[i + 1] \in S
        /\ Tail(q) \in Seq(S) /\ Rest(Tail(q), p) /\ Len(p) - Len(Tail(q)) = i + 1
        /\ Len(q) = 1 <=> i + 1 = Len(p)
        /\ Len(q) > 1 => (i + 1) + 1 \in 1 .. Len(p) /\ ((i + 1) + 1) - 1 = i + 1

LEMMA RestIs ==
    ASSUME NEW S, NEW p \in Seq(S), NEW q \in Seq(S), q # <<>>, Rest(q, p)
    PROVE  Rests(q, p, S)
<1> DEFINE m == Len(p)
           n == Len(q)
           t == Tail(q)
           i == m - n
<1>1. m \in Nat /\ n \in Nat \ {0} /\ n <= m /\ \A j \in 1 .. n : q[j] = p[i + j]
  BY DEF Rest
<1>2. t \in Seq(S) /\ Len(t) = n - 1 /\ Head(q) = q[1] /\ \A j \in 1 .. n - 1 : t[j] = q[j + 1]
  BY HeadTailProperties
<1> HIDE DEF m, n, t
<1>3. 1 \in 1 .. n
  BY <1>1
<1>4. q[1] = p[i + 1]
  BY <1>1, <1>3
<1>5. m - Len(t) = i + 1 /\ Len(t) <= m
  BY <1>1, <1>2
<1>6. ASSUME NEW j \in 1 .. n - 1 PROVE t[j] = p[(i + 1) + j]
  <2> DEFINE k == j + 1
  <2>1. k \in 1 .. n /\ i + k = (i + 1) + j
    BY <1>1
  <2>2. t[j] = q[k]
    BY <1>2
  <2> HIDE DEF k
  <2>3. q[k] = p[i + k]
    BY <1>1, <2>1
  <2> QED BY <2>1, <2>2, <2>3
<1>7. Rest(t, p)
  <2>1. m = Len(p)
    BY DEF m
  <2> HIDE DEF i
  <2> QED BY <1>2, <1>5, <1>6, <2>1 DEF Rest
<1>8. /\ i \in 0 .. m /\ i + 1 \in 1 .. m /\ (i + 1) - 1 = i
      /\ n = 1 <=> i + 1 = m
      /\ n > 1 => (i + 1) + 1 \in 1 .. m /\ ((i + 1) + 1) - 1 = i + 1
  BY <1>1
<1>9. p[i + 1] \in S
  <2>1. i + 1 \in 1 .. Len(p)
    BY <1>8 DEF m
  <2> HIDE DEF i
  <2> QED BY <2>1
<1> QED BY <1>2, <1>4, <1>5, <1>7, <1>8, <1>9 DEF Rests, m, n, t

\* The call g has a piece to visit: which, and what is known of it.
Visits(g) ==
    LET piece == Head(g.left)
        c == Parent[g.node]
    IN  /\ piece \in Piece /\ piece.path \in Seq(Key) /\ piece.up \in Nat /\ c \in Containers
        /\ Looks(piece, c, Reference)
        /\ \A h : h.call = "deref" /\ h.node = g.node /\ h.left = Tail(g.left)
                  /\ h.got = Concat(g.got, PieceResult(piece, c, Reference)) => DerefAgrees(h)
        /\ Resolves(g.node) => Grounded(g.node, piece)

LEMMA VisitIs ==
    ASSUME World, NEW g, Sound(g), g.call = "deref", DerefAgrees(g), g.left # <<>>
    PROVE  Visits(g)
<1> DEFINE pieces == content[g.node].pieces
           c == Parent[g.node]
           i == Len(pieces) - Len(g.left)
           k == i + 1
           piece == Head(g.left)
           results == Joined(g.node, Reference)
<1>1. g.node \in Node /\ Holds(g.node, "interp") /\ g.left \in Seq(Piece)
  BY FramesAre
<1>2. pieces \in Seq(Piece) /\ c \in Containers
  BY <1>1, PiecesAre
<1>3. Rest(g.left, pieces) /\ g.got = results[i]
  BY DEF DerefAgrees
<1> HIDE DEF pieces
<1>4. /\ i \in 0 .. Len(pieces) /\ k \in 1 .. Len(pieces) /\ k - 1 = i /\ piece = pieces[k]
      /\ piece \in Piece /\ Rest(Tail(g.left), pieces) /\ Len(pieces) - Len(Tail(g.left)) = k
  <2>1. Rests(g.left, pieces, Piece)
    BY <1>1, <1>2, <1>3, RestIs
  <2> QED BY <2>1 DEF Rests
<1>5. piece \in Piece
  BY <1>4
<1> HIDE DEF piece, i
<1>6. piece.path \in Seq(Key) /\ piece.up \in Nat
  BY <1>5 DEF Piece
<1>7. Reference \in Outcomes
  BY ReferenceIs
<1>8. Looks(piece, c, Reference)
  BY <1>2, <1>5, <1>7, PieceIs
<1>9. results[k] = Concat(g.got, PieceResult(piece, c, Reference))
  <2>1. Joins(g.node, Reference)
    BY <1>1, <1>7, JoinedIs
  <2>2. results[k] = Concat(results[k - 1], PieceResult(pieces[k], c, Reference))
    <3> HIDE DEF k
    <3> QED BY <1>4, <2>1 DEF Joins, pieces
  <2> QED BY <1>3, <1>4, <2>2
<1>10. Resolves(g.node) => Grounded(g.node, piece)
  BY <1>1, <1>4, NodeGrounded DEF pieces
<1>11. ASSUME NEW h, h.call = "deref", h.node = g.node, h.left = Tail(g.left),
              h.got = Concat(g.got, PieceResult(piece, c, Reference))
       PROVE  DerefAgrees(h)
  BY <1>4, <1>9, <1>11 DEF DerefAgrees, pieces
<1> QED BY <1>2, <1>5, <1>6, <1>8, <1>10, <1>11 DEF Visits, piece

\* A call with no piece left.
LEMMA FinishIs ==
    ASSUME World, NEW g, Sound(g), g.call = "deref", DerefAgrees(g), g.left = <<>>
    PROVE  g.got = Reference[g.node]
<1> DEFINE n == Len(content[g.node].pieces)
<1>1. g.node \in Node /\ Holds(g.node, "interp")
  BY FramesAre
<1>2. n \in Nat /\ Len(<<>>) = 0
  BY <1>1, PiecesAre
<1>3. g.got = Joined(g.node, Reference)[n - Len(g.left)]
  BY DEF DerefAgrees
<1> HIDE DEF n
<1>4. g.got = Joined(g.node, Reference)[n]
  BY <1>2, <1>3
<1>5. Rises(Reference) /\ Above(Reference) = Reference
  BY ReferenceIs, AboveIs
<1> QED BY <1>1, <1>4, <1>5 DEF Rises, n

\* The walk f for the next piece of the call g: what its next key leads to.
Walking(f, g) ==
    LET p == Head(g.left).path
        w == WalkOf(g)
        i == Len(p) - Len(f.path)
        found == SelectOne(f.at, Head(f.path))
    IN  /\ w[i + 1] \in Outcome
        /\ found \subseteq Node
        /\ \A m \in found : w[i + 1] = IF Holds(m, "missing") THEN Error ELSE Reference[m]
        /\ Len(f.path) = 1 <=> i + 1 = Len(p)
        /\ Len(f.path) > 1 =>
              \A h : /\ h.path = Tail(f.path) /\ h.on = NoResult /\ w[i + 1] = <<h.at>>
                     => SelectAgrees(h, g)
        /\ Resolves(g.node) =>
              /\ w[i + 1] # Error /\ found # {}
              /\ \A m \in found :
                    /\ ~Holds(m, "missing")
                    /\ Holds(m, "interp") => Resolves(m) /\ Height(m) < Height(g.node)
              /\ Len(f.path) > 1 => Boxes(w[i + 1]) # {}

LEMMA WalkingIs ==
    ASSUME World, NEW f, Sound(f), f.call = "select", NEW g, Sound(g), DerefAgrees(g),
           SelectAgrees(f, g)
    PROVE  Walking(f, g)
<1> DEFINE piece == Head(g.left)
           c == Parent[g.node]
           p == piece.path
           w == WalkOf(g)
           i == Len(p) - Len(f.path)
           j == i + 1
           found == SelectOne(f.at, Head(f.path))
<1>1. /\ g.call = "deref" /\ Looking(g) /\ Rest(f.path, p) /\ w[i] = <<f.at>>
  BY DEF SelectAgrees
<1>2. g.left # <<>> /\ p # <<>> /\ Base(c, piece.up) # {}
  BY <1>1 DEF Looking
<1>3. f.at \in Containers /\ f.path \in Seq(Key) /\ f.path # <<>>
  BY FramesAre
<1>4. /\ p \in Seq(Key) /\ Looks(piece, c, Reference)
      /\ Resolves(g.node) => Grounded(g.node, piece)
  BY <1>1, <1>2, VisitIs DEF Visits
<1>5. w = Walk(p, From(piece, c), Reference)
  BY DEF WalkOf
<1>6. From(piece, c) \in Node
  BY <1>2, <1>4 DEF Looks, Containers
<1>7. Reference \in Outcomes
  BY ReferenceIs
<1>8. Resolves(g.node) =>
         /\ \A k \in 0 .. Len(p) : w[k] # Error
         /\ \A k \in 1 .. Len(p) : \A b \in Containers : w[k - 1] = <<b>> =>
                    /\ SelectOne(b, p[k]) # {}
                    /\ \A m \in SelectOne(b, p[k]) :
                          /\ ~Holds(m, "missing")
                          /\ Holds(m, "interp") => Resolves(m) /\ Height(m) < Height(g.node)
  <2> HIDE DEF piece
  <2> QED BY <1>2, <1>4, <1>5 DEF Grounded
<1> HIDE DEF p, c, piece
<1>9. Walks(p, From(piece, c), Reference)
  BY <1>4, <1>6, <1>7, WalkIs
<1>10. /\ w \in [0 .. Len(p) -> Outcome]
       /\ \A k \in 1 .. Len(p) : w[k] = Enter(w[k - 1], p[k], Reference)
  BY <1>5, <1>9 DEF Walks
<1>11. /\ i \in 0 .. Len(p) /\ j \in 1 .. Len(p) /\ j - 1 = i /\ Head(f.path) = p[j]
       /\ Rest(Tail(f.path), p) /\ Len(p) - Len(Tail(f.path)) = j
       /\ Len(f.path) = 1 <=> j = Len(p)
       /\ Len(f.path) > 1 => j + 1 \in 1 .. Len(p) /\ (j + 1) - 1 = j
  <2>1. Rests(f.path, p, Key)
    BY <1>1, <1>3, <1>4, RestIs
  <2> QED BY <2>1 DEF Rests
<1>12. j \in 0 .. Len(p)
  BY <1>4, <1>11
<1> HIDE DEF w, i
<1>13. w[j] = Enter(<<f.at>>, p[j], Reference)
  <2> HIDE DEF j
  <2> QED BY <1>1, <1>10, <1>11
<1>14. <<f.at>> \in Outcome /\ Boxes(<<f.at>>) = {f.at}
  <2>1. f.at \in Node
    BY <1>3 DEF Containers
  <2>2. <<f.at>> \in Outcome
    BY <2>1, NodeIsResult DEF Outcome
  <2> QED BY <1>3, <2>2, BoxesAre
<1>15. LeadsOn(<<f.at>>, p[j], Reference)
  <2> HIDE DEF j
  <2> QED BY <1>7, <1>14, EnterIs
<1>16. w[j] \in Outcome /\ \A m \in found : w[j] = IF Holds(m, "missing") THEN Error ELSE Reference[m]
  BY <1>11, <1>13, <1>14, <1>15 DEF LeadsOn
<1>17. found \subseteq Node
  BY FoundIs DEF World
<1>18. ASSUME Len(f.path) > 1, NEW h, h.path = Tail(f.path), h.on = NoResult, w[j] = <<h.at>>
       PROVE  SelectAgrees(h, g)
  BY <1>1, <1>11, <1>18 DEF SelectAgrees, p, piece, w
<1>19. ASSUME Resolves(g.node)
       PROVE  /\ w[j] # Error /\ found # {}
              /\ \A m \in found :
                    /\ ~Holds(m, "missing")
                    /\ Holds(m, "interp") => Resolves(m) /\ Height(m) < Height(g.node)
              /\ Len(f.path) > 1 => Boxes(w[j]) # {}
  <2>1. w[j] # Error
    BY <1>8, <1>12, <1>19
  <2>2. /\ found # {}
        /\ \A m \in found :
              /\ ~Holds(m, "missing")
              /\ Holds(m, "interp") => Resolves(m) /\ Height(m) < Height(g.node)
    <3> HIDE DEF j
    <3>1. w[j - 1] = <<f.at>>
      BY <1>1, <1>11
    <3> QED BY <1>3, <1>8, <1>11, <1>19, <3>1
  <2>3. ASSUME Len(f.path) > 1 PROVE Boxes(w[j]) # {}
    <3> DEFINE k == j + 1
    <3>1. k \in 1 .. Len(p) /\ k - 1 = j /\ k \in 0 .. Len(p)
      BY <1>4, <1>11, <2>3
    <3> HIDE DEF k, j
    <3>2. w[k] # Error /\ w[k] = Enter(w[j], p[k], Reference)
      BY <1>8, <1>10, <1>19, <3>1
    <3>3. LeadsOn(w[j], p[k], Reference)
      BY <1>7, <1>16, EnterIs
    <3> QED BY <3>2, <3>3 DEF LeadsOn
  <2> QED BY <2>1, <2>2, <2>3
<1> QED BY <1>11, <1>16, <1>17, <1>18, <1>19 DEF Walking, i, p, piece, w

-----------------------------------------------------------------------------
(* The top of a good stack.                                                 *)

\* A walk on top of the stack, and the call below it.
Caller(s) == s[Len(s) - 1]

Topped(s, a) ==
    LET f == s[Len(s)]
        g == Caller(s)
    IN  /\ Sound(f) /\ Len(s) \in Nat \ {0}
        /\ f.call = "deref" => DerefAgrees(f) /\ (Certain(a) => Placed(f, Len(s)))
        /\ f.call = "select" =>
              /\ Len(s) > 1 /\ Sound(g) /\ g.call = "deref" /\ DerefAgrees(g) /\ SelectAgrees(f, g)
              /\ Walking(f, g)
              /\ Certain(a) => Placed(g, Len(s) - 1)

LEMMA ToppedIs ==
    ASSUME World, NEW s, Frames(s), s # <<>>, NEW r, NEW a, NEW c, Good(s, r, a, c)
    PROVE  Topped(s, a)
<1> DEFINE n == Len(s)
           f == s[n]
           g == s[n - 1]
<1>1. /\ n \in Nat \ {0} /\ DOMAIN s = 1 .. n /\ n \in 1 .. n
      /\ \A k \in 1 .. n - 1 : k \in 1 .. n /\ k + 1 \in 1 .. n /\ k # n
      /\ n = 1 \/ (n - 1 \in 1 .. n - 1 /\ (n - 1) + 1 = n)
      /\ Sound(f)
  BY FramesTop
<1>2. /\ s[1].call = "deref"
      /\ \A k \in 1 .. n : s[k].call = "deref" => DerefAgrees(s[k])
      /\ \A k \in 1 .. n - 1 : LiesOn(s[k + 1], s[k])
      /\ Certain(a) => \A k \in 1 .. n : s[k].call = "deref" => Placed(s[k], k)
  BY <1>1 DEF Good, Agree, Falls
<1>3. \A k \in 1 .. n : Sound(s[k])
  BY <1>1 DEF Frames
<1> HIDE DEF n
<1>4. ASSUME f.call = "select"
      PROVE  /\ n > 1 /\ Sound(g) /\ g.call = "deref" /\ DerefAgrees(g) /\ SelectAgrees(f, g)
             /\ Certain(a) => Placed(g, n - 1)
  <2>1. n # 1
    BY <1>2, <1>4
  <2>2. n > 1 /\ n - 1 \in 1 .. n - 1 /\ (n - 1) + 1 = n /\ n - 1 \in 1 .. n
    BY <1>1, <2>1
  <2>3. SelectAgrees(f, g)
    <3>1. LiesOn(s[(n - 1) + 1], s[n - 1])
      BY <1>2, <2>2
    <3>2. LiesOn(f, g)
      BY <2>2, <3>1
    <3> QED BY <1>4, <3>2 DEF LiesOn
  <2>4. g.call = "deref"
    BY <2>3 DEF SelectAgrees
  <2> QED BY <1>2, <1>3, <2>2, <2>3, <2>4
<1>5. f.call = "select" => Walking(f, g)
  <2> HIDE DEF f, g
  <2> QED BY <1>1, <1>4, WalkingIs
<1>6. f.call = "deref" => DerefAgrees(f) /\ (Certain(a) => Placed(f, n))
  BY <1>1, <1>2
<1> QED BY <1>1, <1>4, <1>5, <1>6 DEF Topped, Caller, n

\* The stack of a node that resolves has room for the calls its resolution makes.
LEMMA Fits ==
    ASSUME World, NEW s, NEW a, Certain(a), Topped(s, a),
           s[Len(s)].call = "select" =>
               \E n \in Node : Holds(n, "interp") /\ Resolves(n) /\ Height(n) < Height(Caller(s).node)
    PROVE  Len(s) < MaxDepth
<1> DEFINE N == Cardinality(Node)
           l == Len(s)
           f == s[l]
           g == Caller(s)
<1>1. l \in Nat \ {0} /\ Sound(f) /\ MaxDepth >= 2 * N
  BY DEF Topped, Certain
<1>2. N \in Nat /\ MaxDepth \in Nat
  BY FS_CardinalityType DEF World, TreeAssumption
<1> HIDE DEF N, l
<1>3. ASSUME NEW n \in Node, Holds(n, "interp"), Resolves(n) PROVE Height(n) \in Nat
  <2>1. High(n)
    BY <1>3, HeightIs
  <2>2. Height(n) \in 0 .. N
    BY <2>1 DEF High, N
  <2> QED BY <1>2, <2>2
<1>4. CASE f.call = "deref"
  <2>1. Placed(f, l) /\ f.node \in Node /\ Holds(f.node, "interp")
    BY <1>1, <1>4, FramesAre DEF Topped, l
  <2>2. Resolves(f.node) /\ l <= 2 * (N - 1 - Height(f.node)) + 1
    BY <2>1 DEF Placed, N
  <2>3. Height(f.node) \in Nat
    BY <1>3, <2>1, <2>2
  <2> HIDE DEF f
  <2>4. l < MaxDepth
    BY <1>1, <1>2, <2>2, <2>3
  <2> QED BY <2>4 DEF l
<1>5. CASE f.call = "select"
  <2>1. Placed(g, l - 1) /\ g.call = "deref" /\ Sound(g)
    BY <1>5 DEF Topped, l
  <2>2. Resolves(g.node) /\ l - 1 <= 2 * (N - 1 - Height(g.node)) + 1
    BY <2>1 DEF Placed, N
  <2>3. PICK n \in Node : Holds(n, "interp") /\ Resolves(n) /\ Height(n) < Height(g.node)
    BY <1>5 DEF l
  <2>4. Height(n) \in Nat /\ Height(g.node) \in Nat
    <3>1. g.node \in Node /\ Holds(g.node, "interp")
      BY <2>1, FramesAre
    <3> QED BY <1>3, <2>2, <2>3, <3>1
  <2> HIDE DEF g
  <2>5. l < MaxDepth
    BY <1>1, <1>2, <2>2, <2>3, <2>4
  <2> QED BY <2>5 DEF l
<1> QED BY <1>1, <1>4, <1>5, FramesAre

-----------------------------------------------------------------------------
(* The steps.  A step of a call leaves a good stack.                        *)

GoodThen == Good(stack', ret', asked', cache')

\* A step of a call in progress.
Here ==
    /\ World /\ Frames(stack) /\ stack # <<>> /\ Good(stack, ret, asked, cache)
    /\ Topped(stack, asked) /\ Top = stack[Len(stack)]
    /\ Error # NoResult /\ Error \notin Result /\ NoResult \notin Result /\ NoResult \notin Node
    /\ ret \in Result \cup {NoResult, Error}
    /\ ret # NoResult => Ready(Top) /\ (ret # Error => ret = Awaited(Top))
    /\ Certain(asked) => ret # Error
    /\ Top.call = "deref" => Top.left # <<>> \/ ret = NoResult
    /\ \A n \in Node : cache[n] # NoResult => cache[n] = Reference[n]

LEMMA HereIs ==
    ASSUME World, IInv, stack # <<>>, Good(stack, ret, asked, cache)
    PROVE  Here
<1>1. Frames(stack)
  BY DEF IInv, Stacked, Frames
<1>2. Topped(stack, asked)
  BY <1>1, ToppedIs
<1>3. Error # NoResult /\ Error \notin Result /\ NoResult \notin Result /\ NoResult \notin Node
  BY NotResults
<1>4. /\ ret # NoResult => Ready(Top) /\ (ret # Error => ret = Awaited(Top))
      /\ \A n \in Node : cache[n] # NoResult => cache[n] = Reference[n]
      /\ Certain(asked) => ret # Error
  BY DEF Good, Agree, Top
<1>5. ret \in Result \cup {NoResult, Error} /\ (Top.call = "deref" => Top.left # <<>> \/ ret = NoResult)
  BY DEF IInv, Pending, Running
<1> QED BY <1>1, <1>2, <1>3, <1>4, <1>5 DEF Here, Top

\* The top frame returns r.
LEMMA Returns ==
    ASSUME Here, stack' = Popped, NEW r, ret' = r, asked' = asked, r # NoResult,
           r # Error => r = Meant(stack), Certain(asked) => r # Error,
           \A n \in Node : cache'[n] # NoResult => cache'[n] = Reference[n]
    PROVE  GoodThen
<1>1. /\ Frames(stack) /\ stack # <<>> /\ NoResult \notin Node /\ Good(stack, ret, asked, cache)
  BY DEF Here
<1>2. Good(SubSeq(stack, 1, Len(stack) - 1), r, asked, cache')
  BY <1>1, Pops
<1> QED BY <1>2 DEF GoodThen, Popped

\* The top frame is now f.
LEMMA Goes ==
    ASSUME Here, NEW f, Sound(f), stack' = Replaced(f), ret' = NoResult, asked' = asked, cache' = cache,
           f.call = Top.call,
           f.call = "deref" => f.node = Top.node /\ DerefAgrees(f),
           f.call = "select" => SelectAgrees(f, Caller(stack))
    PROVE  GoodThen
<1>1. /\ Frames(stack) /\ stack # <<>> /\ Good(stack, ret, asked, cache) /\ Error # NoResult
      /\ Top = stack[Len(stack)]
  BY DEF Here
<1>2. Good([stack EXCEPT ![Len(stack)] = f], NoResult, asked, cache)
  BY <1>1, Turns DEF Caller
<1> QED BY <1>2 DEF GoodThen, Replaced

\* The top frame, now f, calls g.
LEMMA Calls ==
    ASSUME Here, NEW f, Sound(f), NEW g, Sound(g), Call(f, g), asked' = asked, cache' = cache,
           f.call = Top.call,
           f.call = "deref" => f.node = Top.node /\ DerefAgrees(f),
           f.call = "select" => SelectAgrees(f, Caller(stack)),
           LiesOn(g, f), g.call = "deref" => DerefAgrees(g),
           g.call = "deref" /\ Certain(asked) =>
               Resolves(g.node) /\ Height(g.node) < Height(Caller(stack).node)
    PROVE  GoodThen
<1>1. /\ Frames(stack) /\ stack # <<>> /\ Good(stack, ret, asked, cache) /\ Error # NoResult
      /\ Top = stack[Len(stack)] /\ World /\ Topped(stack, asked)
      /\ \A n \in Node : cache[n] # NoResult => cache[n] = Reference[n]
  BY DEF Here
<1>2. CASE Len(stack) < MaxDepth
  <2> DEFINE t == [stack EXCEPT ![Len(stack)] = f]
  <2>1. /\ Frames(t) /\ t # <<>> /\ Len(t) = Len(stack) /\ t[Len(t)] = f
        /\ Len(stack) > 1 => t[Len(t) - 1] = Caller(stack)
        /\ Good(t, NoResult, asked, cache)
    BY <1>1, Turns DEF Caller
  <2>2. stack' = Append(t, g) /\ ret' = NoResult
    BY <1>2 DEF Call, Replaced
  <2> HIDE DEF t
  <2>3. g.call = "deref" => f.call = "select"
    BY FramesAre DEF LiesOn
  <2>4. g.call = "deref" => Len(stack) > 1
    BY <1>1, <2>3 DEF Topped
  <2>5. Good(Append(t, g), NoResult, asked, cache)
    BY <1>1, <2>1, <2>4, Pushes
  <2> QED BY <2>2, <2>5 DEF GoodThen
<1>3. CASE ~(Len(stack) < MaxDepth)
  <2>1. stack' = Popped /\ ret' = Error
    BY <1>3 DEF Call
  <2>2. ~Certain(asked)
    <3> SUFFICES ASSUME Certain(asked) PROVE FALSE
      OBVIOUS
    <3>1. Top.call = "select" =>
             \E n \in Node : Holds(n, "interp") /\ Resolves(n) /\ Height(n) < Height(Caller(stack).node)
      <4>1. Top.call = "select" => g.call = "deref"
        BY FramesAre DEF LiesOn, SelectAgrees
      <4> QED BY <4>1, FramesAre
    <3> QED BY <1>1, <1>3, <3>1, Fits
  <2> QED BY <1>1, <2>1, <2>2, Returns
<1> QED BY <1>2, <1>3

LEMMA VisitPieceGood ==
    ASSUME Here, VisitPiece
    PROVE  GoodThen
<1> DEFINE piece == Head(Top.left)
           c == Parent[Top.node]
           from == Base(c, piece.up)
<1>1. stack # <<>> /\ Top.call = "deref" /\ ret = NoResult /\ Top.left # <<>>
  BY DEF VisitPiece, Running
<1>2. /\ World /\ Sound(Top) /\ DerefAgrees(Top)
      /\ Certain(asked) => Resolves(Top.node)
      /\ \A n \in Node : cache[n] # NoResult => cache[n] = Reference[n]
      /\ Error # NoResult /\ Error \notin Result
  BY <1>1 DEF Here, Topped, Placed
<1>3. cache' = cache /\ asked' = asked
  BY DEF VisitPiece, Constant
<1>4. Visits(Top) /\ Top.got \in Result /\ Top.memoed \in BOOLEAN /\ Top \in DerefFrame
  BY <1>1, <1>2, VisitIs, FramesAre
<1>5. /\ piece \in Piece /\ piece.path \in Seq(Key) /\ c \in Containers /\ Looks(piece, c, Reference)
      /\ piece.up \in Nat
      /\ Certain(asked) => Grounded(Top.node, piece)
  BY <1>2, <1>4 DEF Visits
<1>6. CASE piece.path = <<>>
  <2> DEFINE r == Append(Top.got, Literal)
             h == [Top EXCEPT !.left = Tail(@), !.got = r]
  <2>1. r \in Result /\ r = Top.got \o <<Literal>>
    <3>1. Top.got \in Seq(Node \cup {Literal}) /\ Literal \in Node \cup {Literal}
      BY <1>4 DEF Result
    <3> QED BY <3>1 DEF Result
  <2>2. stack' = Replaced(h) /\ ret' = NoResult
    BY <1>1, <1>6 DEF VisitPiece
  <2>3. r = Concat(Top.got, PieceResult(piece, c, Reference))
    <3>1. PieceResult(piece, c, Reference) = <<Literal>>
      BY <1>5, <1>6 DEF Looks
    <3>2. <<Literal>> \in Result
      BY DEF Result
    <3>3. <<Literal>> # Error /\ Top.got # Error
      BY <1>2, <1>4, <3>2
    <3> QED BY <2>1, <3>1, <3>3 DEF Concat
  <2> HIDE DEF r
  <2>4. Sound(h) /\ h.call = "deref"
    BY <1>1, <1>2, <2>1, Takes
  <2>5. h.node = Top.node /\ h.left = Tail(Top.left) /\ h.got = r
    BY <1>4 DEF DerefFrame
  <2> HIDE DEF h
  <2>6. DerefAgrees(h)
    BY <1>4, <2>3, <2>4, <2>5 DEF Visits
  <2> QED BY <1>1, <1>3, <2>2, <2>4, <2>5, <2>6, Goes
<1>7. CASE piece.path # <<>> /\ from = {}
  <2>1. stack' = Popped /\ ret' = Error
    BY <1>1, <1>7 DEF VisitPiece, Return
  <2>2. ~Certain(asked)
    <3> HIDE DEF piece
    <3> QED BY <1>5, <1>7 DEF Grounded
  <2> QED BY <1>2, <1>3, <2>1, <2>2, Returns
<1>8. CASE piece.path # <<>> /\ from # {}
  <2>1. PICK b \in from : Call(Top, Select(b, piece.path, Top.memoed))
    BY <1>1, <1>8 DEF VisitPiece
  <2> DEFINE g == Select(b, piece.path, Top.memoed)
             p == piece.path
  <2>2. b = From(piece, c) /\ b \in Containers
    <3>1. \A x, y \in from : x = y
      <4> HIDE DEF piece, c
      <4> QED BY <1>2, <1>5, BaseHolds DEF World
    <3>2. From(piece, c) \in from
      BY <1>8 DEF From
    <3>3. b = From(piece, c)
      BY <2>1, <3>1, <3>2
    <3> QED BY <1>5, <1>8, <3>3 DEF Looks
  <2>3. Sound(g) /\ g.call = "select" /\ g.path = p /\ g.on = NoResult /\ g.at = b
    <3>1. Sound(g) /\ g.call = "select" /\ g.path = p /\ g.on = NoResult
      <4> HIDE DEF piece
      <4> QED BY <1>2, <1>4, <1>5, <1>8, <2>2, SelectSound, NotResults
    <3> QED BY <3>1 DEF Select
  <2>4. WalkOf(Top)[0] = <<b>>
    <3>1. Reference \in Outcomes
      BY <1>2, ReferenceIs
    <3>2. b \in Node
      BY <2>2 DEF Containers
    <3>3. Walks(p, b, Reference)
      <4> HIDE DEF p
      <4> QED BY <1>2, <1>5, <3>1, <3>2, WalkIs DEF p
    <3> QED BY <2>2, <3>3 DEF WalkOf, Walks
  <2>5. SelectAgrees(g, Top)
    <3>1. Looking(Top)
      BY <1>1, <1>8 DEF Looking
    <3>2. Rest(p, p) /\ Len(p) - Len(p) = 0
      <4>1. Len(p) \in Nat
        BY <1>5
      <4> HIDE DEF p
      <4>2. Len(p) - Len(p) = 0 /\ Len(p) <= Len(p)
        BY <4>1
      <4>3. \A j \in 1 .. Len(p) : 0 + j = j
        OBVIOUS
      <4> QED BY <4>2, <4>3 DEF Rest
    <3> HIDE DEF g
    <3> QED BY <1>1, <2>3, <2>4, <3>1, <3>2 DEF SelectAgrees
  <2>6. Call(Top, g)
    BY <2>1
  <2> HIDE DEF g
  <2>7. LiesOn(g, Top)
    BY <2>3, <2>5 DEF LiesOn
  <2> QED BY <1>1, <1>2, <1>3, <2>3, <2>6, <2>7, Calls
<1> QED BY <1>6, <1>7, <1>8

LEMMA TakePieceGood ==
    ASSUME Here, TakePiece
    PROVE  GoodThen
<1> DEFINE piece == Head(Top.left)
           c == Parent[Top.node]
<1>1. stack # <<>> /\ Top.call = "deref" /\ ret # NoResult
  BY DEF TakePiece, Running
<1>2. /\ World /\ Sound(Top) /\ DerefAgrees(Top) /\ Top.left # <<>>
      /\ Certain(asked) => Resolves(Top.node) /\ ret # Error
      /\ \A n \in Node : cache[n] # NoResult => cache[n] = Reference[n]
      /\ Error # NoResult /\ Error \notin Result
      /\ Looking(Top) /\ (ret # Error => ret = Awaited(Top))
      /\ ret \in Result \cup {Error}
  BY <1>1 DEF Here, Topped, Placed, Ready
<1>3. cache' = cache /\ asked' = asked
  BY DEF TakePiece, Constant
<1>4. Visits(Top) /\ Top.got \in Result /\ Top \in DerefFrame
  BY <1>1, <1>2, VisitIs, FramesAre
<1>5. /\ Looks(piece, c, Reference)
      /\ Certain(asked) => Grounded(Top.node, piece)
  BY <1>2, <1>4 DEF Visits
<1>6. ret # Error => PieceResult(piece, c, Reference) = Checked(ret, c)
  <2>1. ret # Error => ret = Walk(piece.path, From(piece, c), Reference)[Len(piece.path)]
    BY <1>1, <1>2 DEF Awaited, WalkOf
  <2>2. piece.path # <<>> /\ Base(c, piece.up) # {}
    BY <1>2 DEF Looking
  <2> QED BY <1>5, <2>1, <2>2 DEF Looks
<1>7. CASE ret = Error \/ (IsNode(ret) /\ ret[1] \in Around(c))
  <2>1. stack' = Popped /\ ret' = Error
    BY <1>7 DEF TakePiece, Return
  <2>2. ~Certain(asked)
    BY <1>2, <1>5, <1>6, <1>7 DEF Grounded, Checked
  <2> QED BY <1>2, <1>3, <2>1, <2>2, Returns
<1>8. CASE ~(ret = Error \/ (IsNode(ret) /\ ret[1] \in Around(c)))
  <2> DEFINE r == Top.got \o ret
             h == [Top EXCEPT !.left = Tail(@), !.got = r]
  <2>1. r \in Result
    <3>1. ret \in Result
      BY <1>2, <1>8
    <3> QED BY <1>4, <3>1 DEF Result
  <2>2. stack' = Replaced(h) /\ ret' = NoResult
    BY <1>8 DEF TakePiece
  <2>3. r = Concat(Top.got, PieceResult(piece, c, Reference))
    <3>1. PieceResult(piece, c, Reference) = ret
      BY <1>6, <1>8 DEF Checked
    <3>2. Top.got # Error
      BY <1>2, <1>4
    <3> QED BY <1>8, <3>1, <3>2 DEF Concat
  <2> HIDE DEF r
  <2>4. Sound(h) /\ h.call = "deref"
    BY <1>1, <1>2, <2>1, Takes
  <2>5. h.node = Top.node /\ h.left = Tail(Top.left) /\ h.got = r
    BY <1>4 DEF DerefFrame
  <2> HIDE DEF h
  <2>6. DerefAgrees(h)
    BY <1>4, <2>3, <2>4, <2>5 DEF Visits
  <2> QED BY <1>1, <1>3, <2>2, <2>4, <2>5, <2>6, Goes
<1> QED BY <1>7, <1>8

LEMMA FinishDerefGood ==
    ASSUME Here, FinishDeref
    PROVE  GoodThen
<1>1. stack # <<>> /\ Top.call = "deref" /\ Top.left = <<>>
  BY DEF FinishDeref, Running
<1>2. /\ World /\ Sound(Top) /\ DerefAgrees(Top) /\ Top = stack[Len(stack)]
      /\ \A n \in Node : cache[n] # NoResult => cache[n] = Reference[n]
      /\ Error \notin Result /\ NoResult \notin Result
  BY <1>1 DEF Here, Topped
<1>3. cache' = cache /\ asked' = asked /\ stack' = Popped /\ ret' = Top.got
  BY DEF FinishDeref, Constant, Return
<1>4. Top.got = Reference[Top.node] /\ Top.got \in Result
  BY <1>1, <1>2, FinishIs, FramesAre
<1>5. Meant(stack) = Top.got
  BY <1>1, <1>2, <1>4 DEF Meant
<1>6. Top.got # NoResult /\ Top.got # Error
  BY <1>2, <1>4
<1> QED BY <1>2, <1>3, <1>5, <1>6, Returns

\* A walk on top, that waits for nothing or for the node its next key leads to.
Walker ==
    LET g == Caller(stack)
        p == Head(g.left).path
        next == WalkOf(g)[(Len(p) - Len(Top.path)) + 1]
        found == SelectOne(Top.at, Head(Top.path))
    IN  /\ World /\ Sound(Top) /\ Top.call = "select" /\ SelectAgrees(Top, g) /\ Sound(g)
        /\ g.call = "deref" /\ Walking(Top, g)
        /\ Certain(asked) => Resolves(g.node)
        /\ next \in Outcome
        /\ Len(Top.path) = 1 => next = Meant(stack)
        /\ ret # NoResult => /\ Top.on \in found /\ Top.on \in Node /\ Holds(Top.on, "interp")
                             /\ next = Reference[Top.on] /\ (ret # Error => ret = next)

LEMMA WalkerIs ==
    ASSUME Here, Top.call = "select"
    PROVE  Walker
<1> DEFINE g == Caller(stack)
           p == Head(g.left).path
           next == WalkOf(g)[(Len(p) - Len(Top.path)) + 1]
           found == SelectOne(Top.at, Head(Top.path))
<1>1. /\ World /\ Sound(Top) /\ SelectAgrees(Top, g) /\ Sound(g)
      /\ g.call = "deref" /\ Walking(Top, g) /\ Top = stack[Len(stack)]
      /\ Certain(asked) => Resolves(g.node)
      /\ ret # NoResult => Ready(Top) /\ (ret # Error => ret = Awaited(Top))
      /\ NoResult \notin Node
  BY DEF Here, Topped, Placed
<1>2. /\ next \in Outcome
      /\ \A m \in found : next = IF Holds(m, "missing") THEN Error ELSE Reference[m]
      /\ Len(Top.path) = 1 => (Len(p) - Len(Top.path)) + 1 = Len(p)
  BY <1>1 DEF Walking
<1>3. Len(Top.path) = 1 => next = Meant(stack)
  <2>1. Len(Top.path) = 1 => next = WalkOf(g)[Len(p)]
    BY <1>2
  <2>2. Meant(stack) = WalkOf(g)[Len(p)]
    BY <1>1 DEF Meant, Caller
  <2> QED BY <2>1, <2>2
<1>4. ASSUME ret # NoResult
      PROVE  /\ Top.on \in found /\ Top.on \in Node /\ Holds(Top.on, "interp")
             /\ next = Reference[Top.on] /\ (ret # Error => ret = next)
  <2>1. Top.on \in Node
    BY <1>1, <1>4 DEF Ready
  <2>2. Top.on \in found /\ Holds(Top.on, "interp")
    BY <1>1, <2>1 DEF SelectAgrees
  <2>3. next = Reference[Top.on]
    BY <1>2, <2>2 DEF Holds
  <2>4. ret # Error => ret = Reference[Top.on]
    BY <1>1, <1>4 DEF Awaited
  <2> QED BY <2>1, <2>2, <2>3, <2>4
<1> QED BY <1>1, <1>2, <1>3, <1>4 DEF Walker

\* The walk waits for node n, for which a call begins.
LEMMA Waited ==
    ASSUME Here, Walker, Top.on = NoResult, NEW n \in SelectOne(Top.at, Head(Top.path)),
           Holds(n, "interp"), NEW memoed \in BOOLEAN,
           Call([Top EXCEPT !.on = n], Deref(n, memoed)), cache' = cache, asked' = asked
    PROVE  GoodThen
<1> DEFINE f == [Top EXCEPT !.on = n]
           g == Deref(n, memoed)
           b == Caller(stack)
<1>1. /\ World /\ Sound(Top) /\ Top.call = "select" /\ SelectAgrees(Top, b) /\ Walking(Top, b)
      /\ Certain(asked) => Resolves(b.node)
  BY DEF Walker
<1>2. n \in Node
  BY <1>1, FoundIs DEF World
<1>3. Sound(f) /\ f.call = "select" /\ f.path = Top.path /\ f.on = n
  BY <1>1, <1>2, Awaits
<1>4. f.at = Top.at
  BY <1>1, FramesAre DEF SelectFrame
<1>5. SelectAgrees(f, b)
  <2> HIDE DEF f
  <2> QED BY <1>1, <1>3, <1>4 DEF SelectAgrees
<1>6. Sound(g) /\ g.call = "deref"
  BY <1>1, <1>2, DerefSound DEF World
<1>7. g.node = n /\ g.left = content[n].pieces /\ g.got = <<>>
  BY DEF Deref
<1>8. Call(f, g)
  OBVIOUS
<1> HIDE DEF f, g
<1>9. DerefAgrees(g)
  <2> DEFINE pieces == content[n].pieces
             l == Len(pieces)
  <2>1. l \in Nat
    BY <1>1, <1>2, PiecesAre
  <2>2. Reference \in Outcomes
    BY <1>1, ReferenceIs
  <2>3. Joins(n, Reference)
    BY <1>1, <1>2, <2>2, JoinedIs
  <2>4. Joined(n, Reference)[0] = <<>>
    BY <2>3 DEF Joins
  <2> HIDE DEF l
  <2>5. l - l = 0 /\ l <= l /\ \A j \in 1 .. l : 0 + j = j
    BY <2>1
  <2>6. Rest(pieces, pieces)
    BY <2>5 DEF Rest, l
  <2> QED BY <1>7, <2>4, <2>5, <2>6 DEF DerefAgrees, l
<1>10. LiesOn(g, f)
  BY <1>3, <1>6, <1>7 DEF LiesOn
<1>11. Certain(asked) => Resolves(g.node) /\ Height(g.node) < Height(b.node)
  BY <1>1, <1>7 DEF Walking
<1> QED BY <1>1, <1>3, <1>5, <1>6, <1>8, <1>9, <1>10, <1>11, Calls

LEMMA StepGood ==
    ASSUME Here, Step
    PROVE  GoodThen
<1> DEFINE found == SelectOne(Top.at, Head(Top.path))
           g == Caller(stack)
           p == Head(g.left).path
           next == WalkOf(g)[(Len(p) - Len(Top.path)) + 1]
<1>1. Top.call = "select" /\ ret = NoResult /\ Top.on = NoResult /\ Len(Top.path) > 1
  BY DEF Step, Running
<1>2. Walker
  BY <1>1, WalkerIs
<1>3. /\ World /\ Sound(Top) /\ Walking(Top, g) /\ next \in Outcome
      /\ Certain(asked) => Resolves(g.node)
  BY <1>2 DEF Walker
<1>4. cache' = cache /\ asked' = asked
  BY DEF Step, Constant
<1>5. Error # NoResult /\ \A n \in Node : cache[n] # NoResult => cache[n] = Reference[n]
  BY DEF Here
<1>6. /\ \A m \in found : next = IF Holds(m, "missing") THEN Error ELSE Reference[m]
      /\ \A h : h.path = Tail(Top.path) /\ h.on = NoResult /\ next = <<h.at>> => SelectAgrees(h, g)
      /\ Resolves(g.node) =>
              /\ found # {} /\ (\A m \in found : ~Holds(m, "missing")) /\ Boxes(next) # {}
  BY <1>1, <1>3 DEF Walking
<1>7. found \subseteq Node
  BY <1>3, FoundIs DEF World
<1>8. \A m \in Node : ~Holds(m, "interp") => Reference[m] = <<m>>
  <2>1. Rises(Reference) /\ Above(Reference) = Reference
    BY <1>3, ReferenceIs, AboveIs
  <2> QED BY <2>1 DEF Rises
<1>9. CASE \E n \in found : Holds(n, "interp")
  <2>1. PICK n \in found : Call([Top EXCEPT !.on = n], Deref(n, Top.memoed))
    BY <1>9 DEF Step
  <2>2. Holds(n, "interp")
    BY <1>3, <1>9, <2>1, FoundIs DEF World
  <2>3. Top.memoed \in BOOLEAN
    BY <1>3, FramesAre
  <2> QED BY <1>1, <1>2, <1>4, <2>1, <2>2, <2>3, Waited
<1>10. CASE ~(\E n \in found : Holds(n, "interp")) /\ \E n \in found : Holds(n, "box")
  <2>1. PICK n \in found : stack' = Replaced([Top EXCEPT !.at = n, !.path = Tail(@)])
    BY <1>10 DEF Step
  <2>2. ret' = NoResult
    BY <1>1, <1>10 DEF Step
  <2>3. Holds(n, "box") /\ n \in Containers
    <3>1. Holds(n, "box")
      BY <1>3, <1>10, <2>1, FoundIs DEF World
    <3> QED BY <1>7, <3>1 DEF Containers
  <2> DEFINE f == Entered(Top, n)
  <2>4. /\ Sound(f) /\ f.call = "select" /\ f.path = Tail(Top.path) /\ f.on = Top.on
    <3> HIDE DEF found
    <3> QED BY <1>1, <1>3, <2>3, Enters
  <2>5. f.at = n
    BY <1>1, <1>3, FramesAre DEF Entered, SelectFrame
  <2>6. stack' = Replaced(f)
    BY <2>1 DEF Entered
  <2> HIDE DEF f
  <2>7. next = <<n>>
    BY <1>6, <1>8, <1>7, <2>3 DEF Holds
  <2>8. SelectAgrees(f, g)
    BY <1>1, <1>6, <2>4, <2>5, <2>7
  <2> QED BY <1>1, <1>4, <2>2, <2>4, <2>6, <2>8, Goes
<1>11. CASE ~(\E n \in found : Holds(n, "interp")) /\ ~(\E n \in found : Holds(n, "box"))
  <2>1. stack' = Popped /\ ret' = Error
    BY <1>11 DEF Step, Return
  <2>2. ~Certain(asked)
    <3> SUFFICES ASSUME Certain(asked) PROVE FALSE
      OBVIOUS
    <3>1. PICK m \in found : TRUE
      BY <1>3, <1>6
    <3>2. next = <<m>> /\ m \in Node
      BY <1>3, <1>6, <1>7, <1>8, <1>11, <3>1
    <3>3. PICK b \in Boxes(next) : TRUE
      BY <1>3, <1>6
    <3>4. b \in Containers /\ next = <<b>>
      <4> HIDE DEF next
      <4> QED BY <1>3, <3>3, BoxesAre
    <3>5. b = m
      <4>1. \A x, y : <<x>> = <<y>> => x = y
        OBVIOUS
      <4> HIDE DEF next
      <4> QED BY <3>2, <3>4, <4>1
    <3> QED BY <1>11, <3>1, <3>4, <3>5 DEF Containers
  <2> QED BY <1>4, <1>5, <2>1, <2>2, Returns
<1> QED BY <1>9, <1>10, <1>11

LEMMA StepResolvedGood ==
    ASSUME Here, StepResolved
    PROVE  GoodThen
<1> DEFINE g == Caller(stack)
           p == Head(g.left).path
           next == WalkOf(g)[(Len(p) - Len(Top.path)) + 1]
<1>1. Top.call = "select" /\ ret # NoResult /\ Len(Top.path) > 1
  BY DEF StepResolved, Running
<1>2. Walker
  BY <1>1, WalkerIs
<1>3. /\ World /\ Sound(Top) /\ Walking(Top, g) /\ next \in Outcome
      /\ Certain(asked) => Resolves(g.node)
      /\ ret # Error => ret = next
  BY <1>1, <1>2 DEF Walker
<1>4. cache' = cache /\ asked' = asked
  BY DEF StepResolved, Constant
<1>5. /\ Error # NoResult /\ \A n \in Node : cache[n] # NoResult => cache[n] = Reference[n]
      /\ Certain(asked) => ret # Error
      /\ ret \in Outcome /\ NoResult \notin Node
  BY <1>1 DEF Here, Outcome
<1>6. /\ \A h : h.path = Tail(Top.path) /\ h.on = NoResult /\ next = <<h.at>> => SelectAgrees(h, g)
      /\ Resolves(g.node) => Boxes(next) # {}
  BY <1>1, <1>3 DEF Walking
<1> HIDE DEF next
<1>7. CASE Boxes(ret) = {}
  <2>1. stack' = Popped /\ ret' = Error
    BY <1>7 DEF StepResolved, Return
  <2>2. ~Certain(asked)
    BY <1>3, <1>5, <1>6, <1>7
  <2> QED BY <1>4, <1>5, <2>1, <2>2, Returns
<1>8. CASE Boxes(ret) # {}
  <2>1. PICK b \in Boxes(ret) :
            stack' = Replaced([Top EXCEPT !.at = b, !.path = Tail(@), !.on = NoResult])
    BY <1>8 DEF StepResolved
  <2>2. ret' = NoResult
    BY <1>8 DEF StepResolved
  <2>3. b \in Containers /\ ret = <<b>> /\ ret # Error
    BY <1>3, <1>5, <2>1, BoxesAre
  <2> DEFINE f == [Top EXCEPT !.at = b, !.path = Tail(@), !.on = NoResult]
  <2>4. Sound(f) /\ f.call = "select" /\ f.path = Tail(Top.path) /\ f.on = NoResult
    BY <1>1, <1>3, <1>5, <2>3, EntersResolved
  <2>5. f.at = b
    BY <1>1, <1>3, FramesAre DEF SelectFrame
  <2>6. stack' = Replaced(f)
    BY <2>1
  <2> HIDE DEF f
  <2>7. SelectAgrees(f, g)
    BY <1>3, <1>6, <2>3, <2>4, <2>5
  <2> QED BY <1>1, <1>4, <2>2, <2>4, <2>6, <2>7, Goes
<1> QED BY <1>7, <1>8

LEMMA LastResolvedGood ==
    ASSUME Here, IInv, LastResolved
    PROVE  GoodThen
<1>1. Top.call = "select" /\ ret # NoResult /\ Len(Top.path) = 1
  BY DEF LastResolved, Running
<1>2. Walker
  BY <1>1, WalkerIs
<1>3. Top.on \in Node /\ (ret # Error => ret = Meant(stack) /\ ret = Reference[Top.on])
  BY <1>1, <1>2 DEF Walker
<1>4. /\ stack' = Popped /\ ret' = ret /\ asked' = asked
      /\ cache' = IF caching /\ ret # Error THEN [cache EXCEPT ![Top.on] = ret] ELSE cache
  BY DEF LastResolved, Return, Constant
<1>5. /\ \A n \in Node : cache[n] # NoResult => cache[n] = Reference[n]
      /\ Certain(asked) => ret # Error
  BY DEF Here
<1>6. \A n \in Node : cache'[n] # NoResult => cache'[n] = Reference[n]
  <2>1. cache \in [Node -> Result \cup {NoResult}]
    BY DEF IInv, Cached
  <2> QED BY <1>3, <1>4, <1>5, <2>1
<1> QED BY <1>1, <1>3, <1>4, <1>5, <1>6, Returns

\* A node that a walk with a memo waits for is on the stack; if it resolves, it is
\* not met on the way to itself.
LEMMA NotMet ==
    ASSUME Here, IInv, Walker, Top.on = NoResult, Certain(asked),
           NEW n \in memo, n \in SelectOne(Top.at, Head(Top.path))
    PROVE  FALSE
<1> DEFINE l == Len(stack)
           b == Caller(stack)
<1>1. PICK k \in DOMAIN stack : Waits(stack[k]) /\ stack[k].on = n
  BY DEF IInv, Stacked, Waiting
<1>2. n \in Node /\ NoResult \notin Node
  BY DEF IInv, Stacked, Waiting, Here
<1>3. /\ l \in Nat \ {0} /\ DOMAIN stack = 1 .. l
      /\ \A i \in 1 .. l - 1 : i \in 1 .. l /\ i + 1 \in 1 .. l /\ i # l
      /\ \A i \in 1 .. l : i = l \/ i \in 1 .. l - 1
      /\ \A i \in 1 .. l : Sound(stack[i])
      /\ Top = stack[l]
  <2>1. Frames(stack) /\ stack # <<>> /\ Top = stack[l]
    BY DEF Here
  <2>2. /\ l \in Nat \ {0} /\ DOMAIN stack = 1 .. l
        /\ \A i \in 1 .. l - 1 : i \in 1 .. l /\ i + 1 \in 1 .. l /\ i # l
        /\ \A i \in 1 .. l : i = l \/ i \in 1 .. l - 1
    BY <2>1, FramesTop
  <2> QED BY <2>1, <2>2 DEF Frames
<1>4. k \in 1 .. l - 1
  BY <1>1, <1>2, <1>3
<1> DEFINE j == k + 1
           f == stack[j]
<1>5. j \in 1 .. l
  BY <1>3, <1>4
<1>6. LiesOn(f, stack[k])
  <2>1. \A i \in 1 .. l - 1 : LiesOn(stack[i + 1], stack[i])
    BY DEF Here, Good, Agree
  <2> QED BY <1>4, <2>1
<1>7. stack[k].call = "select"
  BY <1>1 DEF Waits
<1> HIDE DEF j
<1>8. f.call = "deref" /\ f.node = n /\ Holds(n, "interp")
  <2>1. Sound(f)
    BY <1>3, <1>5
  <2>2. f.call # "select"
    BY <1>6, <1>7 DEF LiesOn, SelectAgrees
  <2>3. f.call = "deref" /\ f.node = n
    BY <1>1, <1>6, <2>1, <2>2, FramesAre DEF LiesOn
  <2> QED BY <2>1, <2>3, FramesAre
<1>9. /\ Resolves(n) /\ Height(n) < Height(b.node) /\ b.call = "deref" /\ Sound(b) /\ Resolves(b.node)
      /\ Top.call = "select" /\ World
  BY <1>8 DEF Walker, Walking
<1>10. Height(n) \in Int /\ Height(b.node) \in Int
  <2>1. High(n)
    BY <1>2, <1>8, <1>9, HeightIs
  <2>2. b.node \in Node /\ Holds(b.node, "interp")
    BY <1>9, FramesAre
  <2>3. High(b.node)
    BY <1>9, <2>2, HeightIs
  <2> QED BY <2>1, <2>3 DEF High
<1>11. j # l
  BY <1>3, <1>8, <1>9
<1>12. /\ j = l - 1 \/ j \in 1 .. (l - 1) - 1
       /\ j \in 1 .. (l - 1) - 1 => l - 1 \in DOMAIN stack
  <2> HIDE DEF l
  <2> QED BY <1>3, <1>5, <1>11
<1>13. CASE j = l - 1
  BY <1>8, <1>9, <1>10, <1>13 DEF Caller, l
<1>14. CASE j \in 1 .. (l - 1) - 1
  <2>1. Falls(stack)
    BY DEF Here, Good
  <2>2. l - 1 \in DOMAIN stack
    BY <1>12, <1>14
  <2>3. Height(stack[l - 1].node) < Height(f.node)
    BY <1>8, <1>9, <1>14, <2>1, <2>2 DEF Falls, Caller, l
  <2> QED BY <1>8, <1>9, <1>10, <2>3 DEF Caller, l
<1> QED BY <1>12, <1>13, <1>14

LEMMA LastKeyGood ==
    ASSUME Here, IInv, LastKey
    PROVE  GoodThen
<1> DEFINE found == SelectOne(Top.at, Head(Top.path))
           g == Caller(stack)
           next == Meant(stack)
<1>1. Top.call = "select" /\ ret = NoResult /\ Top.on = NoResult /\ Len(Top.path) = 1
  BY DEF LastKey, Running
<1>2. Walker
  BY <1>1, WalkerIs
<1>3. /\ World /\ Sound(Top) /\ Walking(Top, g) /\ next \in Outcome
      /\ Certain(asked) => Resolves(g.node)
      /\ \A m \in found : next = IF Holds(m, "missing") THEN Error ELSE Reference[m]
      /\ Resolves(g.node) => next # Error /\ found # {} /\ \A m \in found : ~Holds(m, "missing")
  BY <1>1, <1>2 DEF Walker, Walking
<1>4. asked' = asked
  BY DEF LastKey, Constant
<1>5. /\ Error # NoResult /\ \A n \in Node : cache[n] # NoResult => cache[n] = Reference[n]
      /\ Error \notin Result /\ NoResult \notin Result
  BY DEF Here
<1> HIDE DEF next
<1>6. CASE found = {} \/ \E n \in found : Holds(n, "missing")
  <2>1. stack' = Popped /\ ret' = Error /\ cache' = cache
    BY <1>6 DEF LastKey, Return
  <2>2. ~Certain(asked)
    BY <1>3, <1>6
  <2> QED BY <1>4, <1>5, <2>1, <2>2, Returns
<1>7. CASE ~(found = {} \/ \E n \in found : Holds(n, "missing"))
  <2>1. PICK n \in found :
            IF cache[n] # NoResult
            THEN Return(cache[n]) /\ UNCHANGED <<memo, cache>>
            ELSE IF Top.memoed /\ n \in memo
            THEN Return(Error) /\ UNCHANGED <<memo, cache>>
            ELSE IF Holds(n, "interp")
            THEN /\ Call([Top EXCEPT !.on = n], Deref(n, TRUE))
                 /\ memo' = IF Top.memoed /\ Len(stack) < MaxDepth THEN memo \cup {n} ELSE memo
                 /\ UNCHANGED cache
            ELSE /\ Return(<<n>>)
                 /\ cache' = IF caching THEN [cache EXCEPT ![n] = <<n>>] ELSE cache
                 /\ UNCHANGED memo
    BY <1>7 DEF LastKey
  <2>2. n \in Node
    BY <1>3, FoundIs DEF World
  <2>3. next = Reference[n]
    BY <1>3, <1>7
  <2>4. n \in SelectOne(Top.at, Head(Top.path))
    OBVIOUS
  <2> HIDE DEF found
  <2>5. CASE cache[n] # NoResult
    <3>1. stack' = Popped /\ ret' = cache[n] /\ cache' = cache
      BY <2>1, <2>5 DEF Return
    <3>2. cache[n] = Meant(stack)
      BY <1>5, <2>2, <2>3, <2>5 DEF next
    <3>3. Certain(asked) => cache[n] # Error
      BY <1>3, <3>2 DEF next
    <3> QED BY <1>4, <1>5, <2>5, <3>1, <3>2, <3>3, Returns
  <2>6. CASE cache[n] = NoResult /\ Top.memoed /\ n \in memo
    <3>1. stack' = Popped /\ ret' = Error /\ cache' = cache
      BY <2>1, <2>6 DEF Return
    <3>2. ~Certain(asked)
      BY <1>1, <1>2, <2>4, <2>6, NotMet
    <3> QED BY <1>4, <1>5, <3>1, <3>2, Returns
  <2>7. CASE cache[n] = NoResult /\ ~(Top.memoed /\ n \in memo) /\ Holds(n, "interp")
    <3>1. Call([Top EXCEPT !.on = n], Deref(n, TRUE)) /\ cache' = cache
      BY <2>1, <2>7
    <3> QED BY <1>1, <1>2, <1>4, <2>4, <2>7, <3>1, Waited
  <2>8. CASE cache[n] = NoResult /\ ~(Top.memoed /\ n \in memo) /\ ~Holds(n, "interp")
    <3>1. /\ stack' = Popped /\ ret' = <<n>>
          /\ cache' = IF caching THEN [cache EXCEPT ![n] = <<n>>] ELSE cache
      BY <2>1, <2>8 DEF Return
    <3>2. Reference[n] = <<n>>
      <4>1. Rises(Reference) /\ Above(Reference) = Reference
        BY <1>3, ReferenceIs, AboveIs
      <4> QED BY <2>2, <2>8, <4>1 DEF Rises
    <3>3. <<n>> # Error /\ <<n>> # NoResult
      <4>1. <<n>> \in Result
        BY <2>2, NodeIsResult
      <4> QED BY <1>5, <4>1
    <3>4. \A m \in Node : cache'[m] # NoResult => cache'[m] = Reference[m]
      <4>1. cache \in [Node -> Result \cup {NoResult}]
        BY DEF IInv, Cached
      <4> QED BY <1>5, <2>2, <3>1, <3>2, <4>1
    <3>5. <<n>> = Meant(stack)
      BY <2>3, <3>2 DEF next
    <3> QED BY <1>4, <3>1, <3>3, <3>4, <3>5, Returns
  <2> QED BY <2>5, <2>6, <2>7, <2>8
<1> QED BY <1>6, <1>7

\* A call begins at node n, on an empty stack.
LEMMA BeginsGood ==
    ASSUME World, NEW c, \A m \in Node : c[m] # NoResult => c[m] = Reference[m],
           NEW n \in Node, Holds(n, "interp"), NEW memoed \in BOOLEAN
    PROVE  Good(<<Deref(n, memoed)>>, NoResult, n, c)
<1> DEFINE g == Deref(n, memoed)
           s == <<g>>
           pieces == content[n].pieces
           l == Len(pieces)
<1>1. /\ g.call = "deref" /\ g.node = n /\ g.left = pieces /\ g.got = <<>>
      /\ Len(s) = 1 /\ DOMAIN s = {1} /\ s[1] = g /\ s # <<>>
  BY DEF Deref
<1>2. DerefAgrees(g)
  <2>1. l \in Nat
    BY PiecesAre
  <2>2. Joins(n, Reference)
    BY ReferenceIs, JoinedIs
  <2>3. Joined(n, Reference)[0] = <<>>
    BY <2>2 DEF Joins
  <2> HIDE DEF l
  <2>4. l - l = 0 /\ l <= l /\ \A j \in 1 .. l : 0 + j = j
    BY <2>1
  <2>5. Rest(pieces, pieces)
    BY <2>4 DEF Rest, l
  <2> HIDE DEF g
  <2> QED BY <1>1, <2>3, <2>4, <2>5 DEF DerefAgrees, l
<1> HIDE DEF g, s
<1>3. Agree(s, NoResult, n, c)
  <2>1. \A k \in 1 .. Len(s) - 1 : LiesOn(s[k + 1], s[k])
    BY <1>1
  <2> QED BY <1>1, <1>2, <2>1 DEF Agree
<1>4. ASSUME Certain(n) PROVE Falls(s)
  <2>1. Resolves(n)
    BY <1>4 DEF Certain
  <2>2. High(n) /\ Cardinality(Node) \in Nat
    BY <2>1, HeightIs, FS_CardinalityType DEF World
  <2>3. 1 <= 2 * (Cardinality(Node) - 1 - Height(n)) + 1
    <3> DEFINE N == Cardinality(Node)
               h == Height(n)
    <3>1. N \in Nat /\ h \in 0 .. N - 1
      BY <2>2 DEF High
    <3> HIDE DEF N, h
    <3>2. 1 <= 2 * (N - 1 - h) + 1
      BY <3>1
    <3> QED BY <3>2 DEF N, h
  <2>4. Placed(g, 1)
    BY <1>1, <2>1, <2>3 DEF Placed
  <2> QED BY <1>1, <2>4 DEF Falls
<1>5. Error # NoResult
  BY NotResults
<1> QED BY <1>3, <1>4, <1>5 DEF Good, s, g

LEMMA AccessGood ==
    ASSUME World, Good(stack, ret, asked, cache), IInv, NEW n \in Node, Access(n)
    PROVE  GoodThen
<1>1. /\ Holds(n, "interp") /\ asked' = n /\ stack' = <<Deref(n, TRUE)>> /\ ret' = NoResult
      /\ cache' = cache
  BY DEF Access, IInv
<1>2. \A m \in Node : cache[m] # NoResult => cache[m] = Reference[m]
  BY DEF Good, Agree
<1> QED BY <1>1, <1>2, BeginsGood DEF GoodThen

LEMMA ConvertNextGood ==
    ASSUME World, Good(stack, ret, asked, cache), IInv, NEW n \in Node, ConvertNext(n)
    PROVE  GoodThen
<1>1. Holds(n, "interp") /\ asked' = n /\ cache' = cache /\ stack = <<>>
  BY DEF ConvertNext, IInv
<1>2. \A m \in Node : cache[m] # NoResult => cache[m] = Reference[m]
  BY DEF Good, Agree
<1>3. CASE cache[n] = NoResult
  <2>1. stack' = <<Deref(n, FALSE)>> /\ ret' = NoResult
    BY <1>3 DEF ConvertNext
  <2> QED BY <1>1, <1>2, <2>1, BeginsGood DEF GoodThen
<1>4. CASE cache[n] # NoResult
  <2>1. stack' = <<>> /\ ret' = Reference[n] /\ ret' # NoResult
    BY <1>1, <1>2, <1>4 DEF ConvertNext
  <2>2. DOMAIN stack' = {} /\ Len(stack') = 0
    BY <2>1
  <2>3. Agree(stack', ret', n, cache)
    <3>1. 1 .. 0 - 1 = {}
      OBVIOUS
    <3> QED BY <1>2, <2>1, <2>2, <3>1 DEF Agree
  <2>4. Certain(n) => ret' # Error /\ Falls(stack')
    BY <2>1, <2>2 DEF Certain, Resolves, Falls
  <2> QED BY <1>1, <2>3, <2>4 DEF GoodThen, Good
<1> QED BY <1>3, <1>4

LEMMA ConvertResolvedGood ==
    ASSUME World, Good(stack, ret, asked, cache), IInv, ConvertResolved
    PROVE  GoodThen
<1>1. /\ stack = <<>> /\ stack' = stack /\ ret' = ret /\ asked' = asked
      /\ ret \notin {NoResult, Error} /\ cache' = [cache EXCEPT ![asked] = ret]
  BY DEF ConvertResolved
<1>2. ret = Reference[asked]
  BY <1>1 DEF Good, Agree, IInv
<1>3. \A m \in Node : cache'[m] # NoResult => cache'[m] = Reference[m]
  <2>1. cache \in [Node -> Result \cup {NoResult}]
    BY DEF IInv, Cached
  <2>2. \A m \in Node : cache[m] # NoResult => cache[m] = Reference[m]
    BY DEF Good, Agree
  <2> QED BY <1>1, <1>2, <2>1, <2>2
<1>4. Agree(stack, ret, asked, cache')
  BY <1>3 DEF Good, Agree
<1> QED BY <1>1, <1>4 DEF Good, GoodThen

-----------------------------------------------------------------------------
(* What a good state is does not change, since the configuration does not.   *)

LEMMA SameReference ==
    ASSUME content' = content
    PROVE  ResultsTo' = ResultsTo /\ Reference' = Reference
BY DEF Reference, ResultsTo, Above, Joined, PieceResult, Walk, Enter, SelectOne, Boxes, Base, Around,
       Holds

LEMMA SameDerefs ==
    ASSUME content' = content, NEW f
    PROVE  DerefAgrees(f)' = DerefAgrees(f)
<1>1. Reference' = Reference
  BY SameReference
<1> QED BY <1>1 DEF DerefAgrees, Rest, Joined, PieceResult, Walk, Enter, SelectOne, Boxes, Base,
                    Around, Holds

LEMMA SameWalks ==
    ASSUME content' = content, NEW f
    PROVE  WalkOf(f)' = WalkOf(f)
<1>1. Reference' = Reference
  BY SameReference
<1> QED BY <1>1 DEF WalkOf, From, Walk, Enter, SelectOne, Boxes, Base, Holds

LEMMA SameSelects ==
    ASSUME content' = content, NEW f, NEW g
    PROVE  LiesOn(f, g)' = LiesOn(f, g)
<1>1. WalkOf(g)' = WalkOf(g)
  BY SameWalks
<1> QED BY <1>1 DEF LiesOn, SelectAgrees, Looking, Rest, SelectOne, Base, Holds

LEMMA SameWaits ==
    ASSUME content' = content, NEW f
    PROVE  Ready(f)' = Ready(f) /\ Awaited(f)' = Awaited(f)
<1>1. WalkOf(f)' = WalkOf(f) /\ Reference' = Reference
  BY SameWalks, SameReference
<1> QED BY <1>1 DEF Ready, Awaited, Looking, Base

LEMMA SameHeights ==
    ASSUME content' = content, NEW n
    PROVE  Height(n)' = Height(n) /\ Resolves(n)' = Resolves(n) /\ Certain(n)' = Certain(n)
<1>1. ResultsTo' = ResultsTo /\ Reference' = Reference
  BY SameReference
<1> QED BY <1>1 DEF Height, Resolves, Certain

LEMMA GoodNext ==
    ASSUME content' = content, GoodThen
    PROVE  Good(stack, ret, asked, cache)'
<1>1. /\ Reference' = Reference
      /\ \A f : DerefAgrees(f)' = DerefAgrees(f)
      /\ \A f, g : LiesOn(f, g)' = LiesOn(f, g)
      /\ \A f : Ready(f)' = Ready(f) /\ Awaited(f)' = Awaited(f)
  BY SameReference, SameDerefs, SameSelects, SameWaits
<1>2. \A n : Height(n)' = Height(n) /\ Resolves(n)' = Resolves(n) /\ Certain(n)' = Certain(n)
  BY SameHeights
<1>3. Agree(stack', ret', asked', cache') /\ (Certain(asked') => ret' # Error /\ Falls(stack'))
  BY DEF GoodThen, Good
<1>4. Agree(stack, ret, asked, cache)'
  BY <1>1, <1>3 DEF Agree
<1>5. (Certain(asked) => ret # Error /\ Falls(stack))'
  BY <1>2, <1>3 DEF Falls, Placed
<1> QED BY <1>4, <1>5 DEF Good

LEMMA NextGood ==
    ASSUME World, IInv, Good(stack, ret, asked, cache), [Next]_vars
    PROVE  Good(stack, ret, asked, cache)'
<1>1. content' = content
  BY DEF Next, Continue, VisitPiece, TakePiece, FinishDeref, Step, StepResolved, LastKey, LastResolved,
         ConvertNext, ConvertResolved, Access, Constant, vars
<1>2. GoodThen
  <2>1. stack # <<>> => Here
    BY HereIs
  <2>2. CASE VisitPiece \/ TakePiece \/ FinishDeref
    <3>1. Here
      BY <2>1, <2>2 DEF VisitPiece, TakePiece, FinishDeref, Running
    <3> QED BY <2>2, <3>1, VisitPieceGood, TakePieceGood, FinishDerefGood
  <2>3. CASE Step \/ StepResolved \/ LastKey \/ LastResolved
    <3>1. Here
      BY <2>1, <2>3 DEF Step, StepResolved, LastKey, LastResolved, Running
    <3> QED BY <2>3, <3>1, StepGood, StepResolvedGood, LastKeyGood, LastResolvedGood
  <2>4. CASE \E n \in Node : ConvertNext(n)
    BY <2>4, ConvertNextGood
  <2>5. CASE ConvertResolved
    BY <2>5, ConvertResolvedGood
  <2>6. CASE \E n \in Node : Access(n)
    BY <2>6, AccessGood
  <2>7. CASE UNCHANGED vars
    BY <2>7 DEF vars, GoodThen
  <2> QED BY <2>2, <2>3, <2>4, <2>5, <2>6, <2>7 DEF Next, Continue
<1> QED BY <1>1, <1>2, GoodNext

LEMMA InitGood ==
    ASSUME World, Init
    PROVE  Good(stack, ret, asked, cache)
<1>1. DOMAIN stack = {} /\ Len(stack) = 0 /\ stack = <<>>
  BY DEF Init
<1>2. Agree(stack, ret, asked, cache)
  <2>1. 1 .. 0 - 1 = {}
    OBVIOUS
  <2>2. asked = NoResult /\ ret = NoResult /\ \A n \in Node : cache[n] = NoResult
    BY DEF Init
  <2> QED BY <1>1, <2>1, <2>2 DEF Agree
<1>3. ~Certain(asked)
  BY DEF Init, Certain
<1> QED BY <1>2, <1>3 DEF Good

\* On a finite tree, in every reachable state, what is said of the frames holds.
LEMMA GoodAlways ==
    ASSUME IsFiniteSet(Node)
    PROVE  Spec => [](IInv /\ Good(stack, ret, asked, cache))
<1>1. IInv => World
  BY TreeAssumption, ResultAssumption, ConfigAssumption DEF World, IInv
<1>2. Init => IInv /\ Good(stack, ret, asked, cache)
  BY <1>1, TreeAssumption, InitKeeps, InitGood
<1>3. IInv /\ Good(stack, ret, asked, cache) /\ [Next]_vars => (IInv /\ Good(stack, ret, asked, cache))'
  BY <1>1, TreeAssumption, ConfigAssumption, NextKeeps, NextGood
<1> QED BY <1>2, <1>3, PTL DEF Spec

\* The cache holds only what the nodes denote, whatever the order in which a
\* conversion gets to them, whatever fails in between, and however high Python's
\* stack may get (resolved_node_cache).
THEOREM CachesAlwaysDenote ==
    ASSUME IsFiniteSet(Node)
    PROVE  Spec => []CacheDenotes
<1>1. Good(stack, ret, asked, cache) => CacheDenotes
  BY DEF Good, Agree, CacheDenotes
<1> QED BY <1>1, GoodAlways, PTL

\* What a call returns is what the text of the interpolation denotes, an error if
\* it denotes nothing, if Python's stack has room for two calls for each node: no
\* cycle goes undetected, by memo or by the stack, and nothing else is taken for
\* a cycle (_select_impl).
THEOREM AnswersAlwaysDenote ==
    ASSUME IsFiniteSet(Node), MaxDepth >= 2 * Cardinality(Node)
    PROVE  Spec => []AnswersDenote
<1>1. IInv /\ Good(stack, ret, asked, cache) => AnswersDenote
  <2> SUFFICES ASSUME Good(stack, ret, asked, cache), stack = <<>>, asked # NoResult
               PROVE  ret = Reference[asked]
    BY DEF AnswersDenote, Answered
  <2>1. ret # Error => ret = Reference[asked]
    BY DEF Good, Agree
  <2>2. Resolves(asked) => ret # Error
    BY DEF Good, Certain
  <2> QED BY <2>1, <2>2 DEF Resolves
<1> QED BY <1>1, GoodAlways, PTL
=============================================================================
