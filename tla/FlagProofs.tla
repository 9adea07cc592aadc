-------------------------------- MODULE FlagProofs --------------------------
(***************************************************************************)
(* Proofs about FlagTree, for any set of nodes and flags, and about          *)
(* FlagScopes, for any set of overrides: its steps inside a scope are those  *)
(* of FlagTree.                                                             *)
(***************************************************************************)
EXTENDS FlagScopes, SequenceTheorems, TLAPS

\* A walk visits its start.
LEMMA ReachSelf ==
    ASSUME NEW N, NEW succ, NEW n \in N
    PROVE  n \in ReachFrom(N, succ, n)
  BY DEF ReachFrom

\* A walk goes on from every node it visits.
LEMMA ReachClosed ==
    ASSUME NEW N, NEW succ \in [N -> SUBSET N], NEW n \in N
    PROVE  ClosedUnder(succ, ReachFrom(N, succ, n))
  BY DEF ReachFrom, ClosedUnder

\* A walk visits nothing outside a closed set that holds its start.
LEMMA ReachLeast ==
    ASSUME NEW N, NEW succ, NEW n \in N, NEW S \in SUBSET N,
           n \in S, ClosedUnder(succ, S)
    PROVE  ReachFrom(N, succ, n) \subseteq S
  BY DEF ReachFrom

\* A node a walk visits after its start is the successor of another it visits.
LEMMA ReachPredecessor ==
    ASSUME NEW N, NEW succ \in [N -> SUBSET N], NEW n \in N,
           NEW m \in ReachFrom(N, succ, n), m # n
    PROVE  \E k \in ReachFrom(N, succ, n) : m \in succ[k]
  <1> DEFINE R == ReachFrom(N, succ, n)
  <1>1. R \subseteq N
    BY DEF ReachFrom
  <1>2. SUFFICES ASSUME \A k \in R : m \notin succ[k]
                 PROVE  FALSE
    OBVIOUS
  <1>3. ClosedUnder(succ, R \ {m})
    BY <1>1, <1>2, ReachClosed DEF ClosedUnder
  <1>4. n \in R \ {m}
    BY ReachSelf
  <1>5. R \subseteq R \ {m}
    BY <1>1, <1>3, <1>4, ReachLeast
  <1> QED
    BY <1>5

-----------------------------------------------------------------------------
(* The walks of FlagTree.                                                   *)

LEMMA SubtreeFacts ==
    ASSUME TypeOK, NEW n \in Node
    PROVE  /\ Subtree(n) \subseteq Node /\ n \in Subtree(n)
           /\ \A m \in Subtree(n) : children[m] \subseteq Subtree(n)
           /\ \A m \in Subtree(n) : m # n => \E k \in Subtree(n) : m \in children[k]
  <1>1. children \in [Node -> SUBSET Node]
    BY DEF TypeOK
  <1>2. Subtree(n) \subseteq Node
    BY DEF Subtree, ReachFrom
  <1> QED
    BY <1>1, <1>2, ReachSelf, ReachClosed, ReachPredecessor DEF Subtree, ClosedUnder

LEMMA InvalidatedFacts ==
    ASSUME TypeOK, NEW n \in Node
    PROVE  /\ n \in Invalidated(n)
           /\ \A m \in Node : m \in Invalidated(n) /\ cache[m] # NoCache
                              => children[m] \subseteq Invalidated(n)
  <1> DEFINE succ == [k \in Node |-> IF cache[k] = NoCache THEN {} ELSE children[k]]
  <1>1. succ \in [Node -> SUBSET Node]
    BY DEF TypeOK
  <1>2. Invalidated(n) = ReachFrom(Node, succ, n)
    BY DEF Invalidated, InvalidatedIn
  <1>3. ClosedUnder(succ, Invalidated(n))
    BY <1>1, <1>2, ReachClosed
  <1> QED
    BY <1>2, <1>3, ReachSelf DEF ClosedUnder

LEMMA ReadPathFacts ==
    ASSUME TypeOK, NEW n \in Node, NEW f \in Flag
    PROVE  \A m \in ReadPath(n, f) : Asks(m, f) => parent[m] \in ReadPath(n, f)
  <1> DEFINE succ == [k \in Node |-> IF Asks(k, f) THEN {parent[k]} ELSE {}]
  <1>1. succ \in [Node -> SUBSET Node]
    BY DEF TypeOK, Asks, Inherits
  <1>2. ReadPath(n, f) = ReachFrom(Node, succ, n)
    BY DEF ReadPath
  <1>3. ClosedUnder(succ, ReadPath(n, f))
    BY <1>1, <1>2, ReachClosed
  <1>4. ReadPath(n, f) \subseteq Node
    BY DEF ReadPath, ReachFrom
  <1> QED
    BY <1>3, <1>4 DEF ClosedUnder

LEMMA InheritanceFacts ==
    ASSUME TypeOK, NEW n \in Node, NEW f \in Flag
    PROVE  /\ Inheritance(n, f) \subseteq Node /\ n \in Inheritance(n, f)
           /\ \A m \in Inheritance(n, f) : Inherits(m, f) => parent[m] \in Inheritance(n, f)
  <1> DEFINE succ == [k \in Node |-> IF Inherits(k, f) THEN {parent[k]} ELSE {}]
  <1>1. succ \in [Node -> SUBSET Node]
    BY DEF TypeOK, Inherits
  <1>2. Inheritance(n, f) = ReachFrom(Node, succ, n)
    BY DEF Inheritance
  <1>3. ClosedUnder(succ, Inheritance(n, f))
    BY <1>1, <1>2, ReachClosed
  <1>4. Inheritance(n, f) \subseteq Node
    BY DEF Inheritance, ReachFrom
  <1> QED
    BY <1>2, <1>3, <1>4, ReachSelf DEF ClosedUnder

\* Clearing a cache gives a cache that answers nothing.
LEMMA InvalidateFacts ==
    ASSUME TypeOK, NEW s \in Node
    PROVE  /\ Invalidate(cache, s) \in [Node -> [Flag -> Cached]]
           /\ \A m \in Node : m \in Invalidated(s) => Invalidate(cache, s)[m] = NoCache
           /\ \A m \in Node : m \notin Invalidated(s) => Invalidate(cache, s)[m] = cache[m]
  BY DEF TypeOK, Invalidate, Invalidated, NoCache, Cached

-----------------------------------------------------------------------------
(* Type correctness.                                                        *)

\* The numbering of a deep copy is a function from fresh nodes onto the
\* subtree that is copied.
LEMMA CopyMapFacts ==
    ASSUME TypeOK, NEW s \in live, NEW from \in CopyMaps(s)
    PROVE  /\ DOMAIN from \subseteq Fresh
           /\ \A d \in DOMAIN from : from[d] \in Subtree(s) /\ (d \in Leaf <=> from[d] \in Leaf)
           /\ \A d, e \in DOMAIN from : from[d] = from[e] => d = e
           /\ \A m \in Subtree(s) : \E d \in DOMAIN from : from[d] = m
  BY DEF CopyMaps

\* Where the walk of deepcopy finds the parent of a copied node.
LEMMA CopyParent ==
    ASSUME TypeOK, NEW s \in live, Intact(s), NEW from \in CopyMaps(s),
           NEW d \in DOMAIN from, from[d] # s
    PROVE  \E e \in DOMAIN from :
              /\ e = CHOOSE x \in DOMAIN from : from[x] = parent[from[d]]
              /\ from[e] = parent[from[d]]
              /\ from[d] \in children[from[e]]
  <1>1. s \in Node
    BY DEF TypeOK
  <1>2. PICK k \in Subtree(s) : from[d] \in children[k]
    BY <1>1, CopyMapFacts, SubtreeFacts
  <1>3. parent[from[d]] = k
    BY <1>2 DEF Intact
  <1>4. \E x \in DOMAIN from : from[x] = k
    BY CopyMapFacts
  <1> QED
    BY <1>2, <1>3, <1>4

\* The nodes, parents and settings made by a deep copy are well typed.
LEMMA CopiesTyped ==
    ASSUME TypeOK, NEW s \in live, Intact(s), NEW from \in CopyMaps(s),
           NEW up \in live \cup {NoNode}, Copies(s, from, up)
    PROVE  /\ live' \in SUBSET Node /\ live \subseteq live' /\ DOMAIN from \subseteq live'
           /\ parent' \in [Node -> Node \cup {NoNode}]
           /\ \A n \in Node : parent'[n] \in live' \cup {NoNode}
           /\ \A n \in Node \ live' : parent'[n] = NoNode
           /\ flags' \in [Node -> [Flag -> Setting]]
           /\ flagsRoot' \in [Node -> BOOLEAN]
  <1>1. s \in Node /\ DOMAIN from \subseteq Node \ live
    BY CopyMapFacts DEF TypeOK, Fresh
  <1>2. \A d \in DOMAIN from : from[d] \in Node
    BY <1>1, CopyMapFacts, SubtreeFacts
  <1>3. live' = live \cup DOMAIN from
    BY DEF Copies
  <1>4. ASSUME NEW n \in Node
        PROVE  /\ parent'[n] \in live' \cup {NoNode}
               /\ n \notin live' => parent'[n] = NoNode
    <2>1. CASE n \notin DOMAIN from
      BY <1>3, <2>1 DEF Copies, TypeOK
    <2>2. CASE n \in DOMAIN from /\ from[n] = s
      BY <1>3, <2>2 DEF Copies
    <2>3. CASE n \in DOMAIN from /\ from[n] # s
      BY <1>3, <2>3, CopyParent DEF Copies
    <2> QED
      BY <2>1, <2>2, <2>3
  <1>5. flags' \in [Node -> [Flag -> Setting]] /\ flagsRoot' \in [Node -> BOOLEAN]
    BY <1>2 DEF Copies, TypeOK
  <1>6. parent' \in [Node -> Node \cup {NoNode}]
    BY <1>1, <1>3, <1>4 DEF Copies, TypeOK
  <1> QED
    BY <1>1, <1>3, <1>4, <1>5, <1>6 DEF TypeOK

\* The contents and caches made by a deep copy are well typed.
LEMMA CopiedContentTyped ==
    ASSUME TypeOK, NEW s \in live, NEW from \in CopyMaps(s),
           NEW ca \in [Node -> [Flag -> Cached]]
    PROVE  /\ CopiedChildren(from) \in [Node -> SUBSET Node]
           /\ \A n \in Node : CopiedChildren(from)[n] \subseteq live \cup DOMAIN from
           /\ \A n \in Node : n \notin DOMAIN from => CopiedChildren(from)[n] = children[n]
           /\ \A n \in Leaf \cup (Node \ (live \cup DOMAIN from)) : CopiedChildren(from)[n] = {}
           /\ CopiedCache(from, ca) \in [Node -> [Flag -> Cached]]
           /\ \A n \in Node \ (live \cup DOMAIN from) : CopiedCache(from, ca)[n] = NoCache
  <1>1. s \in Node /\ DOMAIN from \subseteq Node \ live
    BY CopyMapFacts DEF TypeOK, Fresh
  <1>2. \A d \in DOMAIN from : from[d] \in Node /\ (d \in Leaf => from[d] \in Leaf)
    BY <1>1, CopyMapFacts, SubtreeFacts
  <1>3. NoCache \in [Flag -> Cached]
    BY DEF NoCache, Cached
  <1> QED
    BY NodeAssumption, <1>1, <1>2, <1>3 DEF CopiedChildren, CopiedCache, TypeOK

\* Every step keeps the state well formed.
LEMMA TypeInductive == TypeOK /\ [Next]_vars => TypeOK'
  <1> SUFFICES ASSUME TypeOK, [Next]_vars
               PROVE  TypeOK'
    OBVIOUS
  <1>1. NoFlags \in [Flag -> Setting] /\ NoCache \in [Flag -> Cached]
    BY DEF NoFlags, NoCache, Setting, Cached
  <1>2. ASSUME NEW n \in Node, CreateRoot(n)
        PROVE  TypeOK'
    BY <1>2 DEF TypeOK, CreateRoot, Fresh
  <1>3. ASSUME NEW p \in Node, NEW n \in Node, NEW old \in Slot(p), SetPlain(p, n, old)
        PROVE  TypeOK'
    BY NodeAssumption, <1>3 DEF TypeOK, SetPlain, Fresh, Box, Slot
  <1>4. ASSUME NEW p \in Node, NEW c \in Node, Remove(p, c)
        PROVE  TypeOK'
    BY <1>4 DEF TypeOK, Remove, Box
  <1>5. ASSUME NEW n \in Node, SetSpecial(n)
        PROVE  TypeOK'
    BY <1>5 DEF TypeOK, SetSpecial, Box
  <1>6. ASSUME NEW n \in Node, NEW new \in SUBSET Fresh, NEW keep \in BOOLEAN,
               SetValue(n, new, keep)
        PROVE  TypeOK'
    <2>1. flags' \in [Node -> [Flag -> Setting]] /\ cache' \in [Node -> [Flag -> Cached]]
      BY <1>1, <1>6 DEF TypeOK, SetValue
    <2>2. /\ live' \in SUBSET Node /\ flagsRoot' \in [Node -> BOOLEAN]
          /\ parent' \in [Node -> Node \cup {NoNode}]
          /\ children' \in [Node -> SUBSET Node]
      BY <1>6 DEF TypeOK, SetValue, Fresh
    <2>3. \A m \in Node : parent'[m] \in live' \cup {NoNode} /\ children'[m] \subseteq live'
      BY <1>6 DEF TypeOK, SetValue, Fresh, Box
    <2>4. \A m \in Node \ live' : parent'[m] = NoNode /\ cache'[m] = NoCache
      BY <1>6 DEF TypeOK, SetValue, Fresh, Box
    <2>5. \A m \in Leaf \cup (Node \ live') : children'[m] = {}
      BY NodeAssumption, <1>6 DEF TypeOK, SetValue, Fresh, Box
    <2> QED
      BY <2>1, <2>2, <2>3, <2>4, <2>5 DEF TypeOK
  <1>7. ASSUME NEW s \in live, Intact(s), NEW from \in CopyMaps(s), DeepCopy(s, from)
        PROVE  TypeOK'
    <2>1. Copies(s, from, parent[s]) /\ parent[s] \in live \cup {NoNode}
      BY <1>7 DEF DeepCopy, TypeOK
    <2>2. live' = live \cup DOMAIN from
      BY <1>7 DEF DeepCopy, Copies
    <2>3. cache \in [Node -> [Flag -> Cached]]
      BY DEF TypeOK
    <2>4. children' = CopiedChildren(from) /\ cache' = CopiedCache(from, cache)
      BY <1>7 DEF DeepCopy
    <2> QED
      BY <1>7, <2>1, <2>2, <2>3, <2>4, CopiesTyped, CopiedContentTyped DEF TypeOK
  <1>8. ASSUME NEW s \in live, Intact(s), NEW from \in CopyMaps(s), NEW p \in Box,
               NEW old \in Slot(p), SetNode(p, s, from, old)
        PROVE  TypeOK'
    <2> DEFINE ch == CopiedChildren(from)
               top == {d \in DOMAIN from : from[d] = s}
               ca == Invalidate(cache, s)
    <2>1. Copies(s, from, p) /\ p \in live \cup {NoNode} /\ p \in Node /\ p \notin Leaf
      BY <1>8 DEF SetNode, Box, TypeOK
    <2>2. live' = live \cup DOMAIN from
      BY <1>8 DEF SetNode, Copies
    <2>3. ca \in [Node -> [Flag -> Cached]]
      BY InvalidateFacts DEF TypeOK
    <2>4. children' = [ch EXCEPT ![p] = (@ \ old) \cup top] /\ cache' = CopiedCache(from, ca)
      BY <1>8 DEF SetNode
    <2>5. DOMAIN from \subseteq Node \ live /\ p \in live
      BY CopyMapFacts DEF Fresh, Box
    <2>6. /\ ch \in [Node -> SUBSET Node]
          /\ \A n \in Node : ch[n] \subseteq live'
          /\ \A n \in Leaf \cup (Node \ live') : ch[n] = {}
          /\ cache' \in [Node -> [Flag -> Cached]]
          /\ \A n \in Node \ live' : cache'[n] = NoCache
      BY <2>2, <2>3, <2>4, CopiedContentTyped
    <2>7. /\ children' \in [Node -> SUBSET Node]
          /\ \A n \in Node : children'[n] \subseteq live'
          /\ \A n \in Leaf \cup (Node \ live') : children'[n] = {}
      BY <2>1, <2>2, <2>4, <2>5, <2>6
    <2> HIDE DEF ch, top, ca
    <2> QED
      BY <1>8, <2>1, <2>6, <2>7, CopiesTyped DEF TypeOK
  <1>9. ASSUME NEW p \in Node, NEW s \in Node, NEW old \in Slot(p), SetNodeNoCopy(p, s, old)
        PROVE  TypeOK'
    <2>1. cache' \in [Node -> [Flag -> Cached]] /\ \A m \in Node \ live : cache'[m] = NoCache
      BY <1>9, InvalidateFacts DEF SetNodeNoCopy, TypeOK
    <2>2. p \in live /\ p \notin Leaf /\ s \in live
      BY <1>9 DEF SetNodeNoCopy, Box
    <2>3. /\ parent' \in [Node -> Node \cup {NoNode}]
          /\ \A m \in Node : parent'[m] \in live \cup {NoNode}
          /\ \A m \in Node \ live : parent'[m] = NoNode
      BY <1>9, <2>2 DEF SetNodeNoCopy, TypeOK
    <2>4. /\ children' \in [Node -> SUBSET Node]
          /\ \A m \in Node : children'[m] \subseteq live
          /\ \A m \in Leaf \cup (Node \ live) : children'[m] = {}
      BY NodeAssumption, <1>9, <2>2 DEF SetNodeNoCopy, TypeOK
    <2> QED
      BY <1>9, <2>1, <2>3, <2>4 DEF TypeOK, SetNodeNoCopy
  <1>10. ASSUME NEW n \in Node, ReParent(n)
         PROVE  TypeOK'
    <2> DEFINE below == UNION {children[m] : m \in Subtree(n)}
    <2>1. PICK up \in [below -> Subtree(n)] :
             /\ \A c \in below : c \in children[up[c]]
             /\ parent' = [m \in Node |-> IF m \in below THEN up[m] ELSE parent[m]]
      BY <1>10 DEF ReParent
    <2>2. \A c \in below : up[c] \in live /\ c \in live
      BY <2>1, SubtreeFacts DEF TypeOK
    <2>3. cache' = [m \in Node |-> IF m \in below THEN NoCache ELSE cache[m]]
      BY <1>10 DEF ReParent
    <2> HIDE DEF below
    <2>4. UNCHANGED <<live, children, flags, flagsRoot>>
      BY <1>10 DEF ReParent
    <2>5. /\ parent' \in [Node -> Node \cup {NoNode}]
          /\ \A m \in Node : parent'[m] \in live \cup {NoNode}
          /\ \A m \in Node \ live : parent'[m] = NoNode
      BY <2>1, <2>2 DEF TypeOK
    <2>6. cache' \in [Node -> [Flag -> Cached]] /\ \A m \in Node \ live : cache'[m] = NoCache
      BY <1>1, <2>3 DEF TypeOK
    <2> QED
      BY <2>4, <2>5, <2>6 DEF TypeOK
  <1>11. ASSUME NEW n \in Node, NEW f \in Flag, NEW v \in Settable, SetFlag(n, f, v)
         PROVE  TypeOK'
    <2>1. v \in Setting
      BY SettableAssumption DEF Setting
    <2>2. cache' \in [Node -> [Flag -> Cached]] /\ \A m \in Node \ live : cache'[m] = NoCache
      BY <1>11, InvalidateFacts DEF SetFlag, TypeOK
    <2>3. flags' \in [Node -> [Flag -> Setting]]
      BY <1>11, <2>1 DEF SetFlag, TypeOK
    <2> QED
      BY <1>11, <2>2, <2>3 DEF TypeOK, SetFlag
  <1>12. ASSUME NEW n \in Node, NEW b \in BOOLEAN, SetFlagsRoot(n, b)
         PROVE  TypeOK'
    <2>1. cache' \in [Node -> [Flag -> Cached]] /\ \A m \in Node \ live : cache'[m] = NoCache
      BY <1>12, InvalidateFacts DEF SetFlagsRoot, TypeOK
    <2> QED
      BY <1>12, <2>1 DEF TypeOK, SetFlagsRoot
  <1>13. ASSUME NEW n \in Node, NEW f \in Flag, GetFlag(n, f)
         PROVE  TypeOK'
    <2>1. PICK e \in ReadPath(n, f) :
             cache' = [m \in Node |-> IF m \in ReadPath(n, f)
                                      THEN [cache[m] EXCEPT ![f] = Answer(e, f)]
                                      ELSE cache[m]]
      BY <1>13 DEF GetFlag
    <2>2. e \in Node /\ Answer(e, f) \in Cached
      BY DEF ReadPath, ReachFrom, Answer, TypeOK, Cached
    <2>3. cache' \in [Node -> [Flag -> Cached]]
      BY <2>1, <2>2 DEF TypeOK
    <2>4. \A m \in ReadPath(n, f) : m \in live
      <3> DEFINE succ == [k \in Node |-> IF Asks(k, f) THEN {parent[k]} ELSE {}]
      <3>1. n \in live /\ live \in SUBSET Node
        BY <1>13 DEF GetFlag, TypeOK
      <3>2. ClosedUnder(succ, live)
        BY DEF ClosedUnder, Asks, Inherits, TypeOK
      <3> QED
        BY <3>1, <3>2, ReachLeast DEF ReadPath
    <2> QED
      BY <1>13, <2>1, <2>3, <2>4 DEF TypeOK, GetFlag
  <1>14. CASE UNCHANGED vars
    BY <1>14 DEF vars, TypeOK
  <1> QED
    BY <1>2, <1>3, <1>4, <1>5, <1>6, <1>7, <1>8, <1>9, <1>10, <1>11, <1>12, <1>13, <1>14,
       NodeAssumption DEF Next, CopyingNext

\* Every state of a behaviour is well formed.
THEOREM TypeCorrect == Spec => []TypeOK
  <1>1. Init => TypeOK
    BY NodeAssumption DEF Init, TypeOK, NoFlags, NoCache, Setting, Cached
  <1> QED
    BY <1>1, TypeInductive, PTL DEF Spec

-----------------------------------------------------------------------------
(* The support of a cached answer.                                          *)

\* The conjunct of CacheSupported about one node and one flag.
Supported(n, f) ==
    Attached(n) /\ cache[n][f] # "absent" =>
        IF Inherits(n, f) THEN cache[n][f] = cache[parent[n]][f]
                          ELSE cache[n][f] = flags[n][f]

\* Clearing the caches below s leaves no answer that rests on a cleared one.
LEMMA InvalidationKeepsSupport ==
    ASSUME TypeOK, NEW s \in Node, NEW m \in Node, NEW f \in Flag,
           Invalidate(cache, s)[m][f] # "absent", parent[m] # NoNode,
           m \in children[parent[m]], cache[m][f] = cache[parent[m]][f]
    PROVE  Invalidate(cache, s)[m][f] = Invalidate(cache, s)[parent[m]][f]
  <1>1. m \notin Invalidated(s)
    BY InvalidateFacts DEF NoCache
  <1>2. cache[m][f] # "absent" /\ parent[m] \in Node
    BY <1>1, InvalidateFacts DEF TypeOK
  <1>3. cache[parent[m]] # NoCache
    BY <1>2 DEF NoCache
  <1>4. parent[m] \notin Invalidated(s)
    BY <1>1, <1>2, <1>3, InvalidatedFacts
  <1> QED
    BY <1>1, <1>2, <1>4, InvalidateFacts

\* A deep copy leaves the nodes that existed before as they were.
LEMMA CopyOldNode ==
    ASSUME TypeOK, NEW s \in live, NEW from \in CopyMaps(s), NEW up, Copies(s, from, up),
           NEW ca, cache' = CopiedCache(from, ca),
           \A q \in live : children'[q] \subseteq children[q] \cup DOMAIN from,
           NEW m \in Node, m \notin DOMAIN from, Attached(m)'
    PROVE  /\ Attached(m)
           /\ parent'[m] = parent[m] /\ flags'[m] = flags[m] /\ flagsRoot'[m] = flagsRoot[m]
           /\ cache'[m] = cache[m]
           /\ parent[m] # NoNode => cache'[parent[m]] = cache[parent[m]]
  <1>1. /\ parent'[m] = parent[m] /\ flags'[m] = flags[m] /\ flagsRoot'[m] = flagsRoot[m]
        /\ cache'[m] = cache[m]
    BY DEF Copies, CopiedCache
  <1>2. ASSUME parent[m] # NoNode
        PROVE  cache'[parent[m]] = cache[parent[m]] /\ m \in children[parent[m]]
    <2>1. parent[m] \in live /\ parent[m] \in Node /\ DOMAIN from \cap live = {}
      BY <1>2, CopyMapFacts DEF Fresh, TypeOK
    <2>2. m \in children'[parent[m]]
      BY <1>1, <1>2 DEF Attached
    <2>3. m \in children[parent[m]]
      BY <2>1, <2>2
    <2> QED
      BY <2>1, <2>3 DEF CopiedCache
  <1> QED
    BY <1>1, <1>2 DEF Attached

\* A copied node below the copied container hangs where its original hangs.
LEMMA CopyInnerNode ==
    ASSUME TypeOK, NEW s \in live, Intact(s), NEW from \in CopyMaps(s), NEW up,
           Copies(s, from, up), NEW m \in DOMAIN from, from[m] # s
    PROVE  \E e \in DOMAIN from : /\ parent'[m] = e /\ e \in Node /\ e \notin Leaf
                                  /\ from[m] \in Node /\ from[e] \in Node
                                  /\ from[e] = parent[from[m]]
                                  /\ from[m] \in children[from[e]]
  <1>1. s \in Node /\ m \in Node
    BY CopyMapFacts DEF TypeOK, Fresh
  <1>2. PICK e \in DOMAIN from :
           /\ e = CHOOSE x \in DOMAIN from : from[x] = parent[from[m]]
           /\ from[e] = parent[from[m]]
           /\ from[m] \in children[from[e]]
    BY CopyParent
  <1>3. parent'[m] = e
    BY <1>1, <1>2 DEF Copies
  <1>4. from[e] \in Node /\ from[m] \in Node /\ e \in Node
    BY <1>1, CopyMapFacts, SubtreeFacts DEF Fresh
  <1>5. from[e] \notin Leaf
    BY <1>2, <1>4 DEF TypeOK
  <1> QED
    BY <1>2, <1>3, <1>4, <1>5, CopyMapFacts

LEMMA SupportInductive ==
    TypeOK /\ CacheSupported /\ [Next]_vars => CacheSupported'
  <1> SUFFICES ASSUME TypeOK, CacheSupported, [Next]_vars,
                      NEW m \in Node, NEW g \in Flag,
                      Attached(m)', cache'[m][g] # "absent"
               PROVE  IF Inherits(m, g)' THEN cache'[m][g] = cache'[parent'[m]][g]
                                         ELSE cache'[m][g] = flags'[m][g]
    BY DEF CacheSupported
  <1> USE DEF Attached, Inherits
  <1>0. Attached(m) /\ cache[m][g] # "absent" =>
            IF Inherits(m, g) THEN cache[m][g] = cache[parent[m]][g]
                              ELSE cache[m][g] = flags[m][g]
    BY DEF CacheSupported
  <1>1. \A x \in Node \ live : cache[x][g] = "absent"
    BY DEF TypeOK, NoCache
  <1>2. ASSUME NEW n \in Node, CreateRoot(n)
        PROVE  IF Inherits(m, g)' THEN cache'[m][g] = cache'[parent'[m]][g]
                                  ELSE cache'[m][g] = flags'[m][g]
    BY <1>0, <1>2 DEF CreateRoot
  <1>3. ASSUME NEW p \in Node, NEW n \in Node, NEW old \in Slot(p), SetPlain(p, n, old)
        PROVE  IF Inherits(m, g)' THEN cache'[m][g] = cache'[parent'[m]][g]
                                  ELSE cache'[m][g] = flags'[m][g]
    <2>1. m # n
      BY <1>1, <1>3 DEF SetPlain, Fresh
    <2>2. Attached(m) /\ parent'[m] = parent[m]
      BY <1>3, <2>1 DEF SetPlain, TypeOK, Box
    <2> QED
      BY <1>0, <1>3, <2>2 DEF SetPlain
  <1>4. ASSUME NEW p \in Node, NEW c \in Node, Remove(p, c)
        PROVE  IF Inherits(m, g)' THEN cache'[m][g] = cache'[parent'[m]][g]
                                  ELSE cache'[m][g] = flags'[m][g]
    BY <1>0, <1>4 DEF Remove, TypeOK, Box
  <1>5. ASSUME NEW n \in Node, SetSpecial(n)
        PROVE  IF Inherits(m, g)' THEN cache'[m][g] = cache'[parent'[m]][g]
                                  ELSE cache'[m][g] = flags'[m][g]
    BY <1>0, <1>5 DEF SetSpecial, TypeOK, Box
  <1>6. ASSUME NEW n \in Node, NEW new \in SUBSET Fresh, NEW keep \in BOOLEAN,
               SetValue(n, new, keep)
        PROVE  IF Inherits(m, g)' THEN cache'[m][g] = cache'[parent'[m]][g]
                                  ELSE cache'[m][g] = flags'[m][g]
    <2>1. m # n /\ cache'[m] = cache[m]
      BY <1>6 DEF SetValue, TypeOK, NoCache
    <2>2. m \notin new
      BY <1>1, <2>1 DEF Fresh
    <2>3. parent'[m] = parent[m] /\ parent[m] # n
      <3>1. parent'[m] = parent[m] /\ n # NoNode
        BY NodeAssumption, <1>6, <2>2 DEF SetValue
      <3>2. children'[n] = new
        BY <1>6 DEF SetValue, TypeOK
      <3> QED
        BY <2>2, <3>1, <3>2
    <2>4. Attached(m) /\ flags'[m] = flags[m] /\ flagsRoot'[m] = flagsRoot[m]
      BY <1>6, <2>1, <2>3 DEF SetValue, TypeOK
    <2>5. parent[m] # NoNode => cache'[parent[m]] = cache[parent[m]]
      BY <1>6, <2>3 DEF SetValue, TypeOK
    <2> QED
      BY <1>0, <2>1, <2>3, <2>4, <2>5
  <1>7. ASSUME NEW s \in live, Intact(s), NEW from \in CopyMaps(s), DeepCopy(s, from)
        PROVE  IF Inherits(m, g)' THEN cache'[m][g] = cache'[parent'[m]][g]
                                  ELSE cache'[m][g] = flags'[m][g]
    <2>1. Copies(s, from, parent[s]) /\ parent[s] \in live \cup {NoNode}
      BY <1>7 DEF DeepCopy, TypeOK
    <2>2. cache' = CopiedCache(from, cache) /\ children' = CopiedChildren(from)
      BY <1>7 DEF DeepCopy
    <2>3. CASE m \notin DOMAIN from
      <3>1. \A q \in live : children'[q] \subseteq children[q] \cup DOMAIN from
        BY <2>2, CopyMapFacts DEF CopiedChildren, TypeOK, Fresh
      <3> QED
        BY <1>0, <1>7, <2>1, <2>2, <2>3, <3>1, CopyOldNode
    <2>4. CASE m \in DOMAIN from /\ from[m] # s
      <3>1. cache'[m][g] = cache[from[m]][g] /\ m \notin Leaf
        BY <2>2, <2>4 DEF CopiedCache, NoCache
      <3>2. PICK e \in DOMAIN from : /\ parent'[m] = e /\ e \in Node /\ e \notin Leaf
                                     /\ from[m] \in Node /\ from[e] \in Node
                                     /\ from[e] = parent[from[m]]
                                     /\ from[m] \in children[from[e]]
        BY <1>7, <2>1, <2>4, CopyInnerNode
      <3>3. cache'[e][g] = cache[from[e]][g]
        BY <2>2, <3>2 DEF CopiedCache
      <3>4. flags'[m] = flags[from[m]] /\ flagsRoot'[m] = flagsRoot[from[m]]
        BY <2>1, <2>4 DEF Copies
      <3>5. Inherits(m, g)' <=> Inherits(from[m], g)
        BY NodeAssumption, <3>2, <3>4
      <3>6. Supported(from[m], g)
        BY <3>2 DEF CacheSupported, Supported
      <3> QED
        BY <3>1, <3>2, <3>3, <3>4, <3>5, <3>6 DEF Supported
    <2>5. CASE m \in DOMAIN from /\ from[m] = s
      <3>1. cache'[m][g] = cache[s][g]
        BY <2>2, <2>5 DEF CopiedCache, NoCache
      <3>2. parent'[m] = parent[s] /\ flags'[m] = flags[s] /\ flagsRoot'[m] = flagsRoot[s]
        BY <2>1, <2>5 DEF Copies
      <3>3. parent[s] = NoNode
        <4>1. ASSUME parent[s] # NoNode
              PROVE  FALSE
          <5>1. parent[s] \in live /\ parent[s] \in Node /\ DOMAIN from \cap live = {}
            BY <1>7, <2>1, <4>1, CopyMapFacts DEF Fresh, TypeOK
          <5>2. children'[parent[s]] = children[parent[s]]
            BY <2>2, <5>1 DEF CopiedChildren
          <5> QED
            BY <2>5, <3>2, <4>1, <5>1, <5>2 DEF TypeOK
        <4> QED
          BY <4>1
      <3>4. Supported(s, g)
        BY DEF CacheSupported, Supported, TypeOK
      <3> QED
        BY <3>1, <3>2, <3>3, <3>4 DEF Supported
    <2> QED
      BY <2>3, <2>4, <2>5
  <1>8. ASSUME NEW s \in live, Intact(s), NEW from \in CopyMaps(s), NEW p \in Box,
               NEW old \in Slot(p), SetNode(p, s, from, old)
        PROVE  IF Inherits(m, g)' THEN cache'[m][g] = cache'[parent'[m]][g]
                                  ELSE cache'[m][g] = flags'[m][g]
    <2> DEFINE ca == Invalidate(cache, s)
               top == {d \in DOMAIN from : from[d] = s}
    <2>1. Copies(s, from, p) /\ p \in live \cup {NoNode} /\ s \in Node /\ p \in Node
      BY <1>8 DEF SetNode, Box, TypeOK
    <2>2. /\ cache' = CopiedCache(from, ca)
          /\ children' = [CopiedChildren(from) EXCEPT ![p] = (@ \ old) \cup top]
      BY <1>8 DEF SetNode
    <2>3. CASE m \notin DOMAIN from
      <3>1. \A q \in Node : /\ CopiedChildren(from)[q] \in SUBSET Node
                            /\ q \in live => CopiedChildren(from)[q] = children[q]
        BY CopyMapFacts DEF CopiedChildren, TypeOK, Fresh
      <3>2. CopiedChildren(from) \in [Node -> SUBSET Node]
        BY <3>1 DEF CopiedChildren
      <3>3. \A q \in live : children'[q] \subseteq children[q] \cup DOMAIN from
        BY <2>1, <2>2, <3>1, <3>2 DEF TypeOK
      <3> QED
        BY <1>0, <1>8, <2>1, <2>2, <2>3, <3>3, CopyOldNode
    <2>4. CASE m \in DOMAIN from /\ from[m] # s
      <3>1. cache'[m][g] = ca[from[m]][g] /\ m \notin Leaf
        BY <2>2, <2>4 DEF CopiedCache, NoCache
      <3>2. PICK e \in DOMAIN from : /\ parent'[m] = e /\ e \in Node /\ e \notin Leaf
                                     /\ from[m] \in Node /\ from[e] \in Node
                                     /\ from[e] = parent[from[m]]
                                     /\ from[m] \in children[from[e]]
        BY <1>8, <2>1, <2>4, CopyInnerNode
      <3>3. cache'[e][g] = ca[from[e]][g]
        BY <2>2, <3>2 DEF CopiedCache
      <3>4. flags'[m] = flags[from[m]] /\ flagsRoot'[m] = flagsRoot[from[m]]
        BY <2>1, <2>4 DEF Copies
      <3>5. Inherits(m, g)' <=> Inherits(from[m], g)
        BY NodeAssumption, <3>2, <3>4
      <3>6. Supported(from[m], g)
        BY <3>2 DEF CacheSupported, Supported
      <3>7. from[m] \notin Invalidated(s) /\ ca[from[m]][g] = cache[from[m]][g]
        <4>1. ca[from[m]][g] # "absent"
          BY <3>1
        <4>2. from[m] \in Invalidated(s) => ca[from[m]] = NoCache
          BY <2>1, <3>2, InvalidateFacts
        <4>3. from[m] \notin Invalidated(s)
          BY <4>1, <4>2 DEF NoCache
        <4> QED
          BY <2>1, <3>2, <4>3, InvalidateFacts
      <3>8. Inherits(from[m], g) => ca[from[m]][g] = ca[from[e]][g]
        BY <2>1, <3>1, <3>2, <3>6, <3>7, InvalidationKeepsSupport DEF Supported
      <3> QED
        BY <3>1, <3>2, <3>3, <3>4, <3>5, <3>6, <3>7, <3>8 DEF Supported
    <2>5. CASE m \in DOMAIN from /\ from[m] = s
      <3>1. ca[s] = NoCache
        BY <2>1, InvalidateFacts, InvalidatedFacts
      <3> QED
        BY <2>2, <2>5, <3>1 DEF CopiedCache, NoCache
    <2> QED
      BY <2>3, <2>4, <2>5
  <1>9. ASSUME NEW p \in Node, NEW s \in Node, NEW old \in Slot(p), SetNodeNoCopy(p, s, old)
        PROVE  IF Inherits(m, g)' THEN cache'[m][g] = cache'[parent'[m]][g]
                                  ELSE cache'[m][g] = flags'[m][g]
    <2>1. cache' = Invalidate(cache, s) /\ UNCHANGED <<flags, flagsRoot>>
      BY <1>9 DEF SetNodeNoCopy
    <2>2. m # s /\ cache'[m] = cache[m]
      BY <2>1, InvalidateFacts, InvalidatedFacts DEF NoCache
    <2>3. parent'[m] = parent[m] /\ Attached(m)
      BY <1>9, <2>2 DEF SetNodeNoCopy, TypeOK, Box
    <2> QED
      BY <1>0, <2>1, <2>2, <2>3, InvalidationKeepsSupport
  <1>10. ASSUME NEW n \in Node, ReParent(n)
         PROVE  IF Inherits(m, g)' THEN cache'[m][g] = cache'[parent'[m]][g]
                                   ELSE cache'[m][g] = flags'[m][g]
    <2> DEFINE below == UNION {children[k] : k \in Subtree(n)}
    <2>1. PICK up \in [below -> Subtree(n)] :
             parent' = [k \in Node |-> IF k \in below THEN up[k] ELSE parent[k]]
      BY <1>10 DEF ReParent
    <2>2. /\ cache' = [k \in Node |-> IF k \in below THEN NoCache ELSE cache[k]]
          /\ UNCHANGED <<children, flags, flagsRoot>>
      BY <1>10 DEF ReParent
    <2>3. \A k \in below : children[k] \subseteq below
      BY SubtreeFacts
    <2> HIDE DEF below
    <2>4. m \notin below /\ parent'[m] = parent[m] /\ cache'[m] = cache[m] /\ Attached(m)
      BY <2>1, <2>2 DEF NoCache
    <2>5. parent[m] # NoNode => parent[m] \notin below /\ parent[m] \in Node
      BY <2>3, <2>4 DEF TypeOK
    <2> QED
      BY <1>0, <2>2, <2>4, <2>5
  <1>11. ASSUME NEW n \in Node, NEW f \in Flag, NEW v \in Settable, SetFlag(n, f, v)
         PROVE  IF Inherits(m, g)' THEN cache'[m][g] = cache'[parent'[m]][g]
                                   ELSE cache'[m][g] = flags'[m][g]
    <2>1. cache' = Invalidate(cache, n) /\ UNCHANGED <<parent, children, flagsRoot>>
      BY <1>11 DEF SetFlag
    <2>2. m # n /\ cache'[m] = cache[m]
      BY <2>1, InvalidateFacts, InvalidatedFacts DEF NoCache
    <2>3. flags'[m] = flags[m] /\ Attached(m)
      BY <1>11, <2>1, <2>2 DEF SetFlag, TypeOK
    <2> QED
      BY <1>0, <2>1, <2>2, <2>3, InvalidationKeepsSupport
  <1>12. ASSUME NEW n \in Node, NEW b \in BOOLEAN, SetFlagsRoot(n, b)
         PROVE  IF Inherits(m, g)' THEN cache'[m][g] = cache'[parent'[m]][g]
                                   ELSE cache'[m][g] = flags'[m][g]
    <2>1. cache' = Invalidate(cache, n) /\ UNCHANGED <<parent, children, flags>>
      BY <1>12 DEF SetFlagsRoot
    <2>2. m # n /\ cache'[m] = cache[m]
      BY <2>1, InvalidateFacts, InvalidatedFacts DEF NoCache
    <2>3. flagsRoot'[m] = flagsRoot[m] /\ Attached(m)
      BY <1>12, <2>1, <2>2 DEF SetFlagsRoot, TypeOK
    <2> QED
      BY <1>0, <2>1, <2>2, <2>3, InvalidationKeepsSupport
  <1>13. ASSUME NEW n \in Node, NEW f \in Flag, GetFlag(n, f)
         PROVE  IF Inherits(m, g)' THEN cache'[m][g] = cache'[parent'[m]][g]
                                   ELSE cache'[m][g] = flags'[m][g]
    <2> DEFINE path == ReadPath(n, f)
    <2>1. PICK e \in path :
             /\ \A k \in path : Asks(k, f) <=> k # e
             /\ cache' = [k \in Node |-> IF k \in path
                                         THEN [cache[k] EXCEPT ![f] = Answer(e, f)]
                                         ELSE cache[k]]
      BY <1>13 DEF GetFlag
    <2>2. UNCHANGED <<parent, children, flags, flagsRoot>> /\ Attached(m)
      BY <1>13 DEF GetFlag
    <2>3. \A k \in Node : k \in path => cache'[k][f] = Answer(e, f)
      BY <2>1 DEF TypeOK
    <2>4. \A k \in Node : k \notin path => cache'[k] = cache[k]
      BY <2>1
    <2>5. \A k \in path : k # e => parent[k] \in path
      BY <2>1, ReadPathFacts
    <2>6. path \subseteq Node
      BY DEF ReadPath, ReachFrom
    <2>7. parent[m] # NoNode => parent[m] \in Node
      BY DEF TypeOK
    <2>8. CASE g # f
      <3>1. \A k \in Node : cache'[k][g] = cache[k][g]
        BY <2>1, <2>8 DEF TypeOK
      <3> QED
        BY <1>0, <2>2, <2>7, <3>1
    <2>9. CASE g = f /\ m \in path /\ m # e
      <3>1. Inherits(m, f) /\ parent[m] \in path
        BY <2>1, <2>5, <2>9 DEF Asks
      <3> QED
        BY <2>2, <2>3, <2>6, <2>7, <2>9, <3>1
    <2>10. CASE g = f /\ m = e
      <3>1. cache'[e][f] = Answer(e, f) /\ ~Asks(e, f)
        BY <2>1, <2>3, <2>6
      <3>2. CASE cache[e][f] = "absent"
        BY <2>2, <2>10, <3>1, <3>2 DEF Asks, Answer
      <3>3. CASE cache[e][f] # "absent"
        <4>1. cache'[e][f] = cache[e][f]
          BY <3>1, <3>3 DEF Answer
        <4>2. Inherits(e, f) => cache'[parent[e]][f] = cache[e][f]
          BY <1>0, <2>2, <2>3, <2>4, <2>7, <2>10, <3>3 DEF Answer
        <4> QED
          BY <1>0, <2>2, <2>10, <3>3, <4>1, <4>2
      <3> QED
        BY <3>2, <3>3
    <2>11. CASE g = f /\ m \notin path
      <3>1. cache'[m][f] = cache[m][f]
        BY <2>4, <2>11
      <3>2. ASSUME Inherits(m, f), parent[m] \in path
            PROVE  cache'[parent[m]][f] = cache[m][f]
        <4>1. cache[parent[m]][f] = cache[m][f] /\ cache[m][f] # "absent"
          BY <1>0, <2>2, <2>11, <3>1, <3>2
        <4>2. parent[m] = e
          BY <2>1, <3>2, <4>1 DEF Asks
        <4> QED
          BY <2>3, <2>6, <4>1, <4>2 DEF Answer
      <3>3. Inherits(m, f) => cache'[parent[m]][f] = cache[m][f]
        BY <1>0, <2>2, <2>4, <2>7, <2>11, <3>1, <3>2
      <3> QED
        BY <1>0, <2>2, <2>11, <3>1, <3>3
    <2> QED
      BY <2>8, <2>9, <2>10, <2>11
  <1>14. CASE UNCHANGED vars
    BY <1>0, <1>14 DEF vars
  <1> QED
    BY <1>2, <1>3, <1>4, <1>5, <1>6, <1>7, <1>8, <1>9, <1>10, <1>11, <1>12, <1>13, <1>14,
       NodeAssumption DEF Next, CopyingNext

\* In every state an answer in a cache rests on the node's own setting or on
\* the same answer in its parent's cache.
THEOREM CacheSupport == Spec => []CacheSupported
  <1>1. Init => CacheSupported
    BY DEF Init, CacheSupported, NoCache
  <1> QED
    BY <1>1, SupportInductive, TypeCorrect, PTL DEF Spec

\* Support, node by node, carries the effective value down the whole chain.
LEMMA SupportImpliesInherited == TypeOK /\ CacheSupported => FlagsInherited
  <1> SUFFICES ASSUME TypeOK, CacheSupported, NEW n \in Node, NEW f \in Flag,
                      cache[n][f] # "absent", \A m \in Inheritance(n, f) : Attached(m)
               PROVE  Effective(n, f, cache[n][f])
    BY DEF FlagsInherited
  <1> DEFINE succ == [k \in Node |-> IF Inherits(k, f) THEN {parent[k]} ELSE {}]
             S == {m \in Inheritance(n, f) : cache[m][f] = cache[n][f]}
  <1>1. /\ Inheritance(n, f) \subseteq Node /\ n \in Inheritance(n, f)
        /\ \A m \in Inheritance(n, f) : Inherits(m, f) => parent[m] \in Inheritance(n, f)
    BY InheritanceFacts
  <1>2. \A m \in S : IF Inherits(m, f) THEN cache[m][f] = cache[parent[m]][f]
                                       ELSE cache[m][f] = flags[m][f]
    BY <1>1 DEF CacheSupported
  <1>3. S \in SUBSET Node /\ n \in S
    BY <1>1
  <1>4. ClosedUnder(succ, S)
    BY <1>1, <1>2 DEF ClosedUnder
  <1> HIDE DEF S
  <1>5. Inheritance(n, f) \subseteq S
    BY <1>3, <1>4, ReachLeast DEF Inheritance
  <1> USE DEF S
  <1> QED
    BY <1>2, <1>5 DEF Effective

\* A flag read through the caches is the value the inheritance rule gives, for
\* every configuration tree, set of flags and sequence of operations.
THEOREM FlagsAreInherited == Spec => []FlagsInherited
  BY TypeCorrect, CacheSupport, SupportImpliesInherited, PTL

-----------------------------------------------------------------------------
(* Flag scopes.                                                             *)

\* Setting several flags at once is well typed, and changes those flags only.
LEMMA SetFlagsFacts ==
    ASSUME TypeOK, NEW s \in Node, NEW to \in SomeFlags, SetFlags(s, to)
    PROVE  /\ TypeOK'
           /\ \A n \in Node, f \in Flag :
                flags'[n][f] = IF n = s /\ f \in DOMAIN to THEN to[f] ELSE flags[n][f]
  <1>1. \A f \in DOMAIN to : to[f] \in Setting
    BY DEF SomeFlags
  <1>2. flags' \in [Node -> [Flag -> Setting]]
    BY <1>1 DEF SetFlags, TypeOK
  <1>3. cache' \in [Node -> [Flag -> Cached]] /\ \A m \in Node \ live : cache'[m] = NoCache
    BY InvalidateFacts DEF SetFlags, TypeOK
  <1>4. TypeOK'
    BY <1>2, <1>3 DEF SetFlags, TypeOK
  <1>5. ASSUME NEW n \in Node, NEW f \in Flag
        PROVE  flags'[n][f] = IF n = s /\ f \in DOMAIN to THEN to[f] ELSE flags[n][f]
    BY DEF SetFlags, TypeOK
  <1> QED
    BY <1>4, <1>5

\* ... and clears what rests on them.
LEMMA SetFlagsKeepsSupport ==
    ASSUME TypeOK, CacheSupported, NEW s \in Node, NEW to \in SomeFlags, SetFlags(s, to)
    PROVE  CacheSupported'
  <1> SUFFICES ASSUME NEW m \in Node, NEW g \in Flag, Attached(m)', cache'[m][g] # "absent"
               PROVE  IF Inherits(m, g)' THEN cache'[m][g] = cache'[parent'[m]][g]
                                         ELSE cache'[m][g] = flags'[m][g]
    BY DEF CacheSupported
  <1> USE DEF Attached, Inherits
  <1>1. cache' = Invalidate(cache, s) /\ UNCHANGED <<parent, children, flagsRoot>>
    BY DEF SetFlags
  <1>2. m # s /\ cache'[m] = cache[m]
    BY <1>1, InvalidateFacts, InvalidatedFacts DEF NoCache
  <1>3. flags'[m][g] = flags[m][g] /\ Attached(m)
    BY <1>1, <1>2, SetFlagsFacts
  <1>4. IF Inherits(m, g) THEN cache[m][g] = cache[parent[m]][g]
                          ELSE cache[m][g] = flags[m][g]
    BY <1>2, <1>3 DEF CacheSupported
  <1> QED
    BY <1>1, <1>2, <1>3, <1>4, InvalidationKeepsSupport

\* A sequence without its i-th element.
LEMMA Removed ==
    ASSUME NEW S, NEW s \in Seq(S), NEW i \in 1..Len(s)
    PROVE  /\ Seqs!RemoveAt(s, i) \in Seq(S) /\ Len(Seqs!RemoveAt(s, i)) = Len(s) - 1
           /\ \A j \in 1..Len(Seqs!RemoveAt(s, i)) :
                Seqs!RemoveAt(s, i)[j] = IF j < i THEN s[j] ELSE s[j + 1]
  <1> DEFINE t == Seqs!RemoveAt(s, i)
  <1>1. Len(s) \in Nat /\ \A j \in 1..Len(s) : s[j] \in S
    OBVIOUS
  <1>2. PICK before \in Seq(S) :
            /\ Len(before) = i - 1 /\ \A j \in 1..(i - 1) : before[j] = s[j]
            /\ before = SubSeq(s, 1, i - 1)
    <2> DEFINE part == SubSeq(s, 1, i - 1)
    <2>1. /\ part \in Seq(S) /\ Len(part) = i - 1
          /\ \A j \in 1..(i - 1) : part[j] = s[j]
      BY <1>1, SubSeqProperties
    <2>2. part = SubSeq(s, 1, i - 1)
      OBVIOUS
    <2> HIDE DEF part
    <2> QED
      BY <2>1, <2>2
  <1>3. PICK after \in Seq(S) :
            /\ Len(after) = Len(s) - i /\ \A j \in 1..(Len(s) - i) : after[j] = s[i + j]
            /\ after = SubSeq(s, i + 1, Len(s))
    <2> DEFINE part == SubSeq(s, i + 1, Len(s))
    <2>1. /\ part \in Seq(S) /\ Len(part) = Len(s) - i
          /\ \A j \in 1..(Len(s) - i) : part[j] = s[i + j]
      BY <1>1, SubSeqProperties
    <2>2. part = SubSeq(s, i + 1, Len(s))
      OBVIOUS
    <2> HIDE DEF part
    <2> QED
      BY <2>1, <2>2
  <1>4. t = before \o after
    BY <1>2, <1>3 DEF Seqs!RemoveAt
  <1>5. /\ Len(before) = i - 1 /\ Len(after) = Len(s) - i
        /\ \A j \in 1..(i - 1) : before[j] = s[j]
        /\ \A j \in 1..(Len(s) - i) : after[j] = s[i + j]
    BY <1>2, <1>3
  <1> HIDE DEF t
  <1>6. /\ t \in Seq(S) /\ Len(t) = Len(before) + Len(after)
        /\ \A j \in 1..(Len(before) + Len(after)) :
              t[j] = IF j <= Len(before) THEN before[j] ELSE after[j - Len(before)]
    BY <1>4, ConcatProperties
  <1>7. Len(t) = Len(s) - 1
    BY <1>1, <1>5, <1>6
  <1>8. ASSUME NEW j \in 1..Len(t)
        PROVE  t[j] = IF j < i THEN s[j] ELSE s[j + 1]
    <2>1. CASE j < i
      <3>1. t[j] = before[j] /\ j \in 1..(i - 1)
        BY <1>1, <1>5, <1>6, <1>7, <2>1
      <3> QED
        BY <1>5, <2>1, <3>1
    <2>2. CASE i <= j
      <3>1. t[j] = after[j - (i - 1)]
        BY <1>1, <1>5, <1>6, <1>7, <2>2
      <3>2. j - (i - 1) \in 1..(Len(s) - i) /\ i + (j - (i - 1)) = j + 1
        BY <1>1, <1>7, <2>2
      <3> QED
        BY <1>5, <2>2, <3>1, <3>2
    <2> QED
      BY <1>1, <1>7, <2>1, <2>2
  <1> QED
    BY <1>6, <1>7, <1>8 DEF t

\* What a scope has is typed.
LEMMA ScopeTyped ==
    ASSUME open \in Seq(Scope), NEW i \in 1..Len(open)
    PROVE  open[i].node \in Node /\ open[i].prev \in SomeFlags
  <1>1. open[i] \in Scope
    OBVIOUS
  <1> QED
    BY <1>1 DEF Scope

\* What a scope has saved is typed, whatever it was entered with.
LEMMA PrevStatesTyped ==
    ASSUME TypeOK, NEW n \in Node, NEW to \in SomeFlags
    PROVE  /\ PrevStates(n, DOMAIN to) \in SomeFlags
           /\ DOMAIN PrevStates(n, DOMAIN to) = DOMAIN to
           /\ \A f \in DOMAIN to : PrevStates(n, DOMAIN to)[f] = flags[n][f]
  <1>1. DOMAIN to \in SUBSET Flag
    BY DEF SomeFlags
  <1>2. PrevStates(n, DOMAIN to) \in [DOMAIN to -> Setting]
    BY <1>1 DEF PrevStates, TypeOK
  <1> QED
    BY <1>1, <1>2 DEF PrevStates, SomeFlags

-----------------------------------------------------------------------------
(* Types, and the support of cached answers.                                *)

LEMMA ScopesTypeInductive == ScopesTypeOK /\ [ScopesNext]_allVars => ScopesTypeOK'
  <1> SUFFICES ASSUME ScopesTypeOK, [ScopesNext]_allVars
               PROVE  ScopesTypeOK'
    OBVIOUS
  <1> USE DEF ScopesTypeOK
  <1>1. CASE Body
    <2>1. TypeOK'
      BY <1>1, TypeInductive DEF Body
    <2>2. own' \in [Node -> [Flag -> Setting]]
      BY <1>1, <2>1 DEF Body, TypeOK
    <2> QED
      BY <1>1, <2>1, <2>2 DEF Body
  <1>2. ASSUME NEW n \in Node, NEW to \in Override, Enter(n, to)
        PROVE  ScopesTypeOK'
    <2>1. to \in SomeFlags
      BY OverrideAssumption
    <2>2. TypeOK'
      BY <1>2, <2>1, SetFlagsFacts DEF Enter
    <2>3. [node |-> n, prev |-> PrevStates(n, DOMAIN to)] \in Scope
      BY <2>1, PrevStatesTyped DEF Scope
    <2>4. open' \in Seq(Scope) /\ Len(open') <= MaxOpen
      BY <1>2, <2>3, MaxOpenAssumption DEF Enter
    <2> QED
      BY <1>2, <2>2, <2>4 DEF Enter
  <1>3. ASSUME NEW n \in Node, NEW to \in Override, EnterRefused(n, to)
        PROVE  ScopesTypeOK'
    <2>1. PrevStates(n, DOMAIN to) \in SomeFlags
      BY OverrideAssumption, PrevStatesTyped
    <2>2. TypeOK'
      BY <1>3, <2>1, SetFlagsFacts DEF EnterRefused
    <2> QED
      BY <1>3, <2>2 DEF EnterRefused, scopeVars
  <1>4. ASSUME NEW i \in 1..Len(open), Leave(i)
        PROVE  ScopesTypeOK'
    <2>1. open[i].node \in Node /\ open[i].prev \in SomeFlags
      BY ScopeTyped
    <2>2. TypeOK'
      BY <1>4, <2>1, SetFlagsFacts DEF Leave
    <2>3. open' \in Seq(Scope) /\ Len(open') = Len(open) - 1
      BY <1>4, Removed DEF Leave
    <2>4. Len(open') <= MaxOpen
      BY <2>3, MaxOpenAssumption
    <2> QED
      BY <1>4, <2>2, <2>3, <2>4 DEF Leave
  <1>5. CASE UNCHANGED allVars
    <2>1. TypeOK'
      BY <1>5, TypeInductive DEF allVars
    <2> QED
      BY <1>5, <2>1 DEF allVars, scopeVars
  <1> QED
    BY <1>1, <1>2, <1>3, <1>4, <1>5 DEF ScopesNext

LEMMA ScopesSupportInductive ==
    ScopesTypeOK /\ CacheSupported /\ [ScopesNext]_allVars => CacheSupported'
  <1> SUFFICES ASSUME ScopesTypeOK, CacheSupported, [ScopesNext]_allVars
               PROVE  CacheSupported'
    OBVIOUS
  <1>0. TypeOK
    BY DEF ScopesTypeOK
  <1>1. CASE Body
    BY <1>0, <1>1, SupportInductive DEF Body
  <1>2. ASSUME NEW n \in Node, NEW to \in Override, Enter(n, to)
        PROVE  CacheSupported'
    BY <1>0, <1>2, OverrideAssumption, SetFlagsKeepsSupport DEF Enter
  <1>3. ASSUME NEW n \in Node, NEW to \in Override, EnterRefused(n, to)
        PROVE  CacheSupported'
    BY <1>0, <1>3, OverrideAssumption, PrevStatesTyped, SetFlagsKeepsSupport DEF EnterRefused
  <1>4. ASSUME NEW i \in 1..Len(open), Leave(i)
        PROVE  CacheSupported'
    <2>1. open[i].node \in Node /\ open[i].prev \in SomeFlags
      BY ScopeTyped DEF ScopesTypeOK
    <2> QED
      BY <1>0, <1>4, <2>1, SetFlagsKeepsSupport DEF Leave
  <1>5. CASE UNCHANGED allVars
    BY <1>0, <1>5, SupportInductive DEF allVars
  <1> QED
    BY <1>1, <1>2, <1>3, <1>4, <1>5 DEF ScopesNext

LEMMA ScopesInitTyped == ScopesInit => ScopesTypeOK /\ CacheSupported
  <1> SUFFICES ASSUME ScopesInit
               PROVE  ScopesTypeOK /\ CacheSupported
    OBVIOUS
  <1>1. TypeOK
    BY NodeAssumption DEF ScopesInit, Init, TypeOK, NoFlags, NoCache, Setting, Cached
  <1>2. CacheSupported
    BY DEF ScopesInit, Init, CacheSupported, NoCache
  <1> QED
    BY <1>1, <1>2, MaxOpenAssumption DEF ScopesInit, ScopesTypeOK, TypeOK

\* Scopes and settings in any order, in the middle of reads that fill caches,
\* leave no cached flag that differs from what the inheritance rule gives.
THEOREM FlagsAreInheritedInScopes == ScopesSpec => []FlagsInherited
  <1>1. ScopesTypeOK /\ CacheSupported => FlagsInherited
    BY SupportImpliesInherited DEF ScopesTypeOK
  <1> QED
    BY <1>1, ScopesInitTyped, ScopesTypeInductive, ScopesSupportInductive, PTL DEF ScopesSpec

-----------------------------------------------------------------------------
(* Scopes give back the flags they changed.                                 *)

\* The i-th scope is the first of those over flag f of node n.
First(i, n, f) ==
    Over(open[i], n, f) /\ \A j \in 1..(i - 1) : ~Over(open[j], n, f)

\* The first scope over a flag holds the setting to be given back.
FirstHoldsOwn ==
    \A n \in Node, f \in Flag, i \in 1..Len(open) :
        First(i, n, f) => open[i].prev[f] = own[n][f]

LEMMA GivesBackInductive ==
    ScopesTypeOK /\ FlagsGivenBack /\ FirstHoldsOwn /\ [ScopesNext]_allVars
        => FlagsGivenBack' /\ FirstHoldsOwn'
  <1> SUFFICES ASSUME ScopesTypeOK, FlagsGivenBack, FirstHoldsOwn, [ScopesNext]_allVars,
                      NEW n \in Node, NEW f \in Flag
               PROVE  /\ ~Covered(n, f)' => flags'[n][f] = own'[n][f]
                      /\ \A k \in 1..Len(open') :
                            First(k, n, f)' => open'[k].prev[f] = own'[n][f]
    BY DEF FlagsGivenBack, FirstHoldsOwn
  <1>0. /\ TypeOK /\ open \in Seq(Scope)
        /\ ~Covered(n, f) => flags[n][f] = own[n][f]
        /\ \A k \in 1..Len(open) : First(k, n, f) => open[k].prev[f] = own[n][f]
    BY DEF ScopesTypeOK, FlagsGivenBack, FirstHoldsOwn
  <1>1. CASE Body
    <2>1. own'[n][f] = IF Covered(n, f) THEN own[n][f] ELSE flags'[n][f]
      BY <1>1 DEF Body
    <2>2. open' = open /\ Covered(n, f)' = Covered(n, f)
      BY <1>1 DEF Body, Covered
    <2>3. \A k \in 1..Len(open) : First(k, n, f) => Covered(n, f)
      BY DEF First, Covered
    <2> QED
      BY <1>0, <2>1, <2>2, <2>3 DEF First
  <1>2. ASSUME NEW m \in Node, NEW to \in Override, Enter(m, to)
        PROVE  /\ ~Covered(n, f)' => flags'[n][f] = own'[n][f]
               /\ \A k \in 1..Len(open') : First(k, n, f)' => open'[k].prev[f] = own'[n][f]
    <2> DEFINE new == [node |-> m, prev |-> PrevStates(m, DOMAIN to)]
    <2>1. to \in SomeFlags /\ own' = own
      BY <1>2, OverrideAssumption DEF Enter
    <2>2. /\ Len(open') = Len(open) + 1 /\ open'[Len(open) + 1] = new
          /\ \A k \in 1..Len(open) : open'[k] = open[k]
      BY <1>0, <1>2 DEF Enter
    <2>3. flags'[n][f] = IF n = m /\ f \in DOMAIN to THEN to[f] ELSE flags[n][f]
      BY <1>0, <1>2, <2>1, SetFlagsFacts DEF Enter
    <2>4. Over(new, n, f) <=> n = m /\ f \in DOMAIN to
      BY <1>0, <2>1, PrevStatesTyped DEF Over
    <2>5. Covered(n, f)' <=> Covered(n, f) \/ Over(new, n, f)
      BY <1>0, <2>2 DEF Covered
    <2>6. ASSUME NEW k \in 1..Len(open'), First(k, n, f)'
          PROVE  open'[k].prev[f] = own'[n][f]
      <3>1. CASE k \in 1..Len(open)
        BY <1>0, <2>1, <2>2, <2>6, <3>1 DEF First
      <3>2. CASE k = Len(open) + 1
        <4>1. Over(new, n, f) /\ ~Covered(n, f)
          BY <1>0, <2>2, <2>6, <3>2 DEF First, Covered
        <4>2. new.prev[f] = flags[n][f]
          BY <1>0, <2>1, <2>4, <4>1, PrevStatesTyped
        <4> QED
          BY <1>0, <2>1, <2>2, <3>2, <4>1, <4>2
      <3> QED
        BY <1>0, <2>2, <3>1, <3>2
    <2> QED
      BY <1>0, <2>1, <2>3, <2>4, <2>5, <2>6
  <1>3. ASSUME NEW m \in Node, NEW to \in Override, EnterRefused(m, to)
        PROVE  /\ ~Covered(n, f)' => flags'[n][f] = own'[n][f]
               /\ \A k \in 1..Len(open') : First(k, n, f)' => open'[k].prev[f] = own'[n][f]
    <2>1. open' = open /\ own' = own
      BY <1>3 DEF EnterRefused, scopeVars
    <2>2. flags'[n][f] = flags[n][f]
      BY <1>0, <1>3, OverrideAssumption, PrevStatesTyped, SetFlagsFacts DEF EnterRefused
    <2> QED
      BY <1>0, <2>1, <2>2 DEF Covered, First
  <1>4. ASSUME NEW i \in 1..Len(open), Leave(i)
        PROVE  /\ ~Covered(n, f)' => flags'[n][f] = own'[n][f]
               /\ \A k \in 1..Len(open') : First(k, n, f)' => open'[k].prev[f] = own'[n][f]
    <2> DEFINE s == open[i]
    <2>1. s.node \in Node /\ s.prev \in SomeFlags
      BY <1>0, ScopeTyped
    <2>2. flags'[n][f] = IF Over(s, n, f) THEN s.prev[f] ELSE flags[n][f]
      BY <1>0, <1>4, <2>1, SetFlagsFacts DEF Leave, Over
    <2>3. /\ Len(open') = Len(open) - 1 /\ own' = own
          /\ \A k \in 1..Len(open') : open'[k] = IF k < i THEN open[k] ELSE open[k + 1]
      BY <1>0, <1>4, Removed DEF Leave
    <2>4. Len(open) \in Nat
      BY <1>0
    <2>5. CASE Over(s, n, f)
      <3>1. \A k \in (i + 1)..Len(open) : ~Over(open[k], n, f)
        BY <1>4, <2>5 DEF Leave, Innermost, Over
      <3>2. \A k \in 1..Len(open') : Over(open'[k], n, f) => k < i
        BY <2>3, <2>4, <3>1
      <3>3. ~Covered(n, f)' => First(i, n, f)
        BY <2>3, <2>4, <2>5 DEF First, Covered
      <3>4. \A k \in 1..Len(open') : First(k, n, f)' => First(k, n, f) /\ open'[k] = open[k]
        BY <2>3, <2>4, <3>2 DEF First
      <3> QED
        BY <1>0, <2>2, <2>3, <2>4, <2>5, <3>3, <3>4
    <2>6. CASE ~Over(s, n, f)
      <3>1. Covered(n, f) => Covered(n, f)'
        <4>1. ASSUME NEW k \in 1..Len(open), Over(open[k], n, f)
              PROVE  \E j \in 1..Len(open') : Over(open'[j], n, f)
          <5>1. CASE k < i
            BY <2>3, <2>4, <4>1, <5>1
          <5>2. CASE k > i
            <6>1. k - 1 \in 1..Len(open') /\ open'[k - 1] = open[k]
              BY <2>3, <2>4, <5>2
            <6> QED
              BY <4>1, <6>1
          <5> QED
            BY <2>4, <2>6, <4>1, <5>1, <5>2
        <4> QED
          BY <4>1 DEF Covered
      <3>2. ASSUME NEW k \in 1..Len(open'), First(k, n, f)'
            PROVE  open'[k].prev[f] = own'[n][f]
        <4> DEFINE old == IF k < i THEN k ELSE k + 1
        <4>1. old \in 1..Len(open) /\ open'[k] = open[old] /\ Over(open[old], n, f)
          BY <2>3, <2>4, <3>2 DEF First
        <4>2. ASSUME NEW j \in 1..(old - 1)
              PROVE  ~Over(open[j], n, f)
          <5>1. CASE j < i
            BY <2>3, <2>4, <3>2, <5>1 DEF First
          <5>2. CASE j > i
            <6>1. j - 1 \in 1..(k - 1) /\ open'[j - 1] = open[j]
              BY <2>3, <2>4, <5>2
            <6> QED
              BY <3>2, <6>1 DEF First
          <5> QED
            BY <2>6, <5>1, <5>2
        <4>3. First(old, n, f)
          BY <4>1, <4>2 DEF First
        <4> QED
          BY <1>0, <2>3, <4>1, <4>3
      <3> QED
        BY <1>0, <2>2, <2>3, <2>6, <3>1, <3>2
    <2> QED
      BY <2>5, <2>6
  <1>5. CASE UNCHANGED allVars
    BY <1>0, <1>5 DEF allVars, vars, scopeVars, Covered, First
  <1> QED
    BY <1>1, <1>2, <1>3, <1>4, <1>5 DEF ScopesNext

\* Whatever is done in the bodies, in whatever order scopes over different
\* flags are left, a flag no open scope is over has the setting it would have
\* had without scopes.
THEOREM ScopesGiveBack == ScopesSpec => []FlagsGivenBack
  <1>1. ScopesInit => FlagsGivenBack /\ FirstHoldsOwn
    BY DEF ScopesInit, FlagsGivenBack, FirstHoldsOwn
  <1> QED
    BY <1>1, ScopesInitTyped, ScopesTypeInductive, GivesBackInductive, PTL DEF ScopesSpec

=============================================================================
