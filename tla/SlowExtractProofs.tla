------------------------- MODULE SlowExtractProofs -------------------------
(***************************************************************************)
(* Proofs about SlowExtract, for every e-graph and every limit: the search *)
(* misses no tree, get_edges reads each back as it is, merging never gets  *)
(* stuck and keeps the edges true to it, and the graphs are complete; which*)
(* of them read their operands where these are.                            *)
(*                                                                         *)
(* The argument goes by the shape W of the tree that was picked: for each  *)
(* node of the preorder, where its subtree ends, which nodes are its       *)
(* operands, and the buffer it delivers.  A shape exists because the search*)
(* put the tree together from its subtrees; each phase is then invariant   *)
(* with respect to it.                                                     *)
(***************************************************************************)
EXTENDS SlowExtract, EGraphsProofs

-----------------------------------------------------------------------------
(* Combinations.                                                           *)

\* What Combinations finds: the sequences put together from the first k sets.
IsCombining(upto, sets) ==
  /\ upto = [k \in 0 .. Len(sets) |-> upto[k]]
  /\ upto[0] = {<<>>}
  /\ \A k \in 1 .. Len(sets) : upto[k] = UNION {{s \o t : t \in sets[k]} : s \in upto[k - 1]}

\* The function that Combinations defines by recursion exists, because each of
\* its values depends on the one before only; its values are sequences.
LEMMA CombinationsInSteps ==
  ASSUME NEW S, NEW sets \in Seq(SUBSET Seq(S))
  PROVE  \E upto \in [0 .. Len(sets) -> SUBSET Seq(S)] :
           IsCombining(upto, sets) /\ Combinations(sets) = upto[Len(sets)]
<1> DEFINE Body(f, k) ==
             IF k = 0 THEN {<<>>} ELSE UNION {{s \o t : t \in sets[k]} : s \in f[k - 1]}
           Upto(n, f) == f = [k \in 0 .. n |-> Body(f, k)]
           Missing    == {n \in Nat : ~(\E f : Upto(n, f))}
           upto       == CHOOSE f : Upto(Len(sets), f)
           Odd        == {k \in 0 .. Len(sets) : ~(upto[k] \subseteq Seq(S))}
<1>1. Combinations(sets) = upto[Len(sets)]
  BY DEF Combinations
<1>2. Len(sets) \in Nat
  OBVIOUS
<1>3. ASSUME NEW f, NEW g, NEW k, k # 0 => f[k - 1] = g[k - 1]
      PROVE  Body(f, k) = Body(g, k)
  <2>1. CASE k = 0
    BY <2>1
  <2>2. CASE k # 0
    <3>1. f[k - 1] = g[k - 1]
      BY <1>3, <2>2
    <3> QED
      BY <2>2, <3>1, Zenon
  <2> QED
    BY <2>1, <2>2
<1> HIDE DEF Body
<1>4. ASSUME Missing # {} PROVE FALSE
  <2>1. Missing \in SUBSET Nat
    OBVIOUS
  <2> HIDE DEF Missing
  <2>2. PICK n \in Missing : \A m \in Missing : n <= m
    BY <1>4, <2>1, LeastElement
  <2> USE DEF Missing
  <2>3. n \in Nat /\ ~(\E f : Upto(n, f))
    BY <2>2
  <2>4. CASE n = 0
    <3> DEFINE f == [k \in 0 .. 0 |-> Body(0, 0)]
    <3>1. \A k \in 0 .. 0 : k = 0
      OBVIOUS
    <3>2. Body(f, 0) = Body(0, 0)
      BY <1>3
    <3>3. Upto(0, f)
      BY <3>1, <3>2
    <3> QED
      BY <2>3, <2>4, <3>3
  <2>5. CASE n # 0
    <3>1. n - 1 \in Nat /\ ~(n <= n - 1)
      BY <2>3, <2>5
    <3>2. n - 1 \notin Missing
      BY <2>2, <3>1
    <3>3. PICK f : Upto(n - 1, f)
      BY <3>1, <3>2
    <3> DEFINE g == [k \in 0 .. n |-> IF k = n THEN Body(f, n) ELSE f[k]]
    <3>4. ASSUME NEW k \in 0 .. n PROVE g[k] = Body(g, k)
      <4>1. g[k] = Body(f, k)
        <5>1. CASE k = n
          BY <5>1
        <5>2. CASE k # n
          <6>1. k \in 0 .. n - 1
            BY <2>3, <5>2
          <6>2. f[k] = Body(f, k)
            BY <3>3, <6>1
          <6> QED
            BY <5>2, <6>2
        <5> QED
          BY <5>1, <5>2
      <4>2. k # 0 => f[k - 1] = g[k - 1]
        <5>1. k # 0 => k - 1 \in 0 .. n /\ k - 1 # n
          BY <2>3
        <5> QED
          BY <5>1
      <4>3. Body(f, k) = Body(g, k)
        BY <1>3, <4>2
      <4> QED
        BY <4>1, <4>3
    <3>5. g = [k \in 0 .. n |-> g[k]]
      OBVIOUS
    <3> HIDE DEF g
    <3>6. Upto(n, g)
      BY <3>4, <3>5
    <3> QED
      BY <2>3, <3>6
  <2> QED
    BY <2>4, <2>5
<1>5. Upto(Len(sets), upto)
  <2>1. \E f : Upto(Len(sets), f)
    BY <1>2, <1>4
  <2> HIDE DEF Upto
  <2> QED
    BY <2>1
<1> HIDE DEF upto
<1>6. \A k \in 0 .. Len(sets) : upto[k] = Body(upto, k)
  BY <1>5
<1>7. ASSUME Odd # {} PROVE FALSE
  <2>1. Odd \in SUBSET Nat
    BY <1>2
  <2> HIDE DEF Odd
  <2>2. PICK k \in Odd : \A j \in Odd : k <= j
    BY <1>7, <2>1, LeastElement
  <2> USE DEF Odd
  <2>3. k \in 0 .. Len(sets) /\ ~(upto[k] \subseteq Seq(S))
    BY <2>2
  <2>4. CASE k = 0
    <3>1. upto[k] = {<<>>}
      BY <1>6, <2>3, <2>4 DEF Body
    <3> QED
      BY <2>3, <3>1
  <2>5. CASE k # 0
    <3>1. k - 1 \in 0 .. Len(sets) /\ ~(k <= k - 1) /\ k \in DOMAIN sets
      BY <1>2, <2>3, <2>5
    <3>2. upto[k - 1] \subseteq Seq(S)
      BY <2>2, <3>1
    <3>3. sets[k] \subseteq Seq(S)
      BY <3>1
    <3>4. upto[k] = Body(upto, k)
      BY <1>6, <2>3
    <3>5. ASSUME NEW w \in upto[k] PROVE w \in Seq(S)
      <4>1. w \in UNION {{s \o t : t \in sets[k]} : s \in upto[k - 1]}
        BY <2>5, <3>4 DEF Body
      <4>2. PICK s \in upto[k - 1] : w \in {s \o t : t \in sets[k]}
        BY <4>1
      <4>3. PICK t \in sets[k] : w = s \o t
        BY <4>2
      <4>4. s \in Seq(S) /\ t \in Seq(S)
        BY <3>2, <3>3
      <4> QED
        BY <4>3, <4>4
    <3> QED
      BY <2>3, <3>5
  <2> QED
    BY <2>4, <2>5
<1>8. upto = [k \in 0 .. Len(sets) |-> upto[k]]
  BY <1>5
<1>9. upto[0] = {<<>>} /\ \A k \in 1 .. Len(sets) : upto[k] =
        UNION {{s \o t : t \in sets[k]} : s \in upto[k - 1]}
  <2>1. 0 \in 0 .. Len(sets) /\ \A k \in 1 .. Len(sets) : k \in 0 .. Len(sets) /\ k # 0
    BY <1>2
  <2> QED
    BY <1>6, <2>1 DEF Body
<1>10. upto \in [0 .. Len(sets) -> SUBSET Seq(S)]
  BY <1>7, <1>8
<1> QED
  BY <1>1, <1>8, <1>9, <1>10 DEF IsCombining


LEMMA CombinationsOfSequences ==
  ASSUME NEW S, NEW sets \in Seq(SUBSET Seq(S))
  PROVE  Combinations(sets) \subseteq Seq(S)
<1>1. PICK upto \in [0 .. Len(sets) -> SUBSET Seq(S)] : Combinations(sets) = upto[Len(sets)]
  BY CombinationsInSteps
<1>2. Len(sets) \in 0 .. Len(sets)
  OBVIOUS
<1> QED
  BY <1>1, <1>2

\* s is put together from one of A and one of B.
Joins(A, B, w) == \E s \in A, t \in B : w = s \o t

\* A sequence put together from more sets is put together from a shorter one
\* and one more.
LEMMA CombinedAgain ==
  ASSUME NEW S, NEW sets \in Seq(SUBSET Seq(S)),
         NEW upto \in [0 .. Len(sets) -> SUBSET Seq(S)], IsCombining(upto, sets),
         NEW k \in 1 .. Len(sets), NEW w \in Seq(S)
  PROVE  /\ k - 1 \in 0 .. Len(sets) /\ k \in 0 .. Len(sets)
         /\ w \in upto[k] <=> Joins(upto[k - 1], sets[k], w)
<1>1. k - 1 \in 0 .. Len(sets) /\ k \in 0 .. Len(sets)
  OBVIOUS
<1>2. upto[k] = UNION {{s \o t : t \in sets[k]} : s \in upto[k - 1]}
  BY DEF IsCombining
<1>3. ASSUME w \in upto[k] PROVE Joins(upto[k - 1], sets[k], w)
  <2>1. w \in UNION {{s \o t : t \in sets[k]} : s \in upto[k - 1]}
    BY <1>2, <1>3
  <2>2. PICK s \in upto[k - 1] : w \in {s \o t : t \in sets[k]}
    BY <2>1
  <2> QED
    BY <2>2 DEF Joins
<1>4. ASSUME Joins(upto[k - 1], sets[k], w) PROVE w \in upto[k]
  <2>1. PICK s \in upto[k - 1], t \in sets[k] : w = s \o t
    BY <1>4 DEF Joins
  <2>2. w \in {s \o u : u \in sets[k]}
    BY <2>1
  <2>3. {s \o u : u \in sets[k]} \in {{r \o u : u \in sets[k]} : r \in upto[k - 1]}
    OBVIOUS
  <2> QED
    BY <1>2, <2>2, <2>3
<1> QED
  BY <1>1, <1>3, <1>4

\* Larger sets give more combinations.
LEMMA CombinationsGrow ==
  ASSUME NEW S, NEW few \in Seq(SUBSET Seq(S)), NEW many \in Seq(SUBSET Seq(S)),
         Len(few) = Len(many), \A k \in 1 .. Len(few) : few[k] \subseteq many[k]
  PROVE  Combinations(few) \subseteq Combinations(many)
<1> DEFINE N == Len(few)
<1>1. PICK f \in [0 .. Len(few) -> SUBSET Seq(S)] :
        IsCombining(f, few) /\ Combinations(few) = f[Len(few)]
  BY CombinationsInSteps
<1>2. PICK m \in [0 .. Len(many) -> SUBSET Seq(S)] :
        IsCombining(m, many) /\ Combinations(many) = m[Len(many)]
  BY CombinationsInSteps
<1> DEFINE Bad == {k \in 0 .. N : ~(f[k] \subseteq m[k])}
<1>3. N \in Nat
  OBVIOUS
<1>4. ASSUME Bad # {} PROVE FALSE
  <2>1. Bad \in SUBSET Nat
    BY <1>3
  <2> HIDE DEF Bad
  <2>2. PICK k \in Bad : \A j \in Bad : k <= j
    BY <1>4, <2>1, LeastElement
  <2> USE DEF Bad
  <2>3. k # 0
    BY <1>1, <1>2 DEF IsCombining
  <2>4. k \in 1 .. N /\ k - 1 \in 0 .. N /\ ~(k <= k - 1)
    BY <1>3, <2>3
  <2>5. f[k - 1] \subseteq m[k - 1]
    BY <2>2, <2>4
  <2>6. ASSUME NEW w \in f[k] PROVE w \in m[k]
    <3>0. w \in Seq(S)
      BY <2>4, <2>6
    <3>1. Joins(f[k - 1], few[k], w)
      BY <1>1, <2>4, <2>6, <3>0, CombinedAgain
    <3>2. PICK s \in f[k - 1], t \in few[k] : w = s \o t
      BY <3>1 DEF Joins
    <3>3. Joins(m[k - 1], many[k], w)
      BY <2>4, <2>5, <3>2 DEF Joins
    <3> QED
      BY <1>2, <2>4, <3>0, <3>3, CombinedAgain
  <2> QED
    BY <2>6
<1>5. N \in 0 .. N
  BY <1>3
<1> QED
  BY <1>1, <1>2, <1>4, <1>5

Within(sets, max) == [k \in 1 .. Len(sets) |-> {t \in sets[k] : Len(t) <= max}]

\* None of the sequences put together is longer than what the others leave it,
\* when each has an element at least.
LEMMA CombinationsWithin ==
  ASSUME NEW S, NEW sets \in Seq(SUBSET Seq(S)), \A k \in 1 .. Len(sets) : <<>> \notin sets[k],
         NEW ts \in Combinations(sets), NEW max \in Int, Len(ts) - Len(sets) + 1 <= max
  PROVE  /\ Len(ts) >= Len(sets)
         /\ Within(sets, max) \in Seq(SUBSET Seq(S))
         /\ ts \in Combinations(Within(sets, max))
<1> DEFINE N == Len(sets)
           few == Within(sets, max)
<1>1. PICK f \in [0 .. Len(sets) -> SUBSET Seq(S)] :
        IsCombining(f, sets) /\ Combinations(sets) = f[Len(sets)]
  BY CombinationsInSteps
<1>2. few \in Seq(SUBSET Seq(S)) /\ Len(few) = N
  BY DEF Within
<1> HIDE DEF few
<1>3. PICK m \in [0 .. Len(few) -> SUBSET Seq(S)] :
        IsCombining(m, few) /\ Combinations(few) = m[Len(few)]
  BY <1>2, CombinationsInSteps
<1> DEFINE Fine(k) == \A s \in f[k] : Len(s) >= k /\ (Len(s) - k + 1 <= max => s \in m[k])
           Bad == {k \in 0 .. N : ~Fine(k)}
<1>4. N \in Nat
  OBVIOUS
<1>5. ASSUME Bad # {} PROVE FALSE
  <2>1. Bad \in SUBSET Nat
    BY <1>4
  <2> HIDE DEF Bad
  <2>2. PICK k \in Bad : \A j \in Bad : k <= j
    BY <1>5, <2>1, LeastElement
  <2> USE DEF Bad
  <2>3. k \in 0 .. N /\ ~Fine(k)
    OBVIOUS
  <2>4. k # 0
    <3>1. f[0] = {<<>>} /\ m[0] = {<<>>}
      BY <1>1, <1>3 DEF IsCombining
    <3>2. Fine(0)
      BY <3>1
    <3> QED
      BY <2>3, <3>2
  <2>5. k \in 1 .. N /\ k - 1 \in 0 .. N /\ ~(k <= k - 1)
    BY <1>4, <2>4
  <2>6. Fine(k - 1)
    BY <2>2, <2>5
  <2> HIDE DEF Bad
  <2>7. ASSUME NEW w \in f[k] PROVE Len(w) >= k /\ (Len(w) - k + 1 <= max => w \in m[k])
    <3>9. w \in Seq(S)
      BY <2>5, <2>7
    <3>0. Joins(f[k - 1], sets[k], w)
      BY <1>1, <2>5, <2>7, <3>9, CombinedAgain
    <3>1. PICK s \in f[k - 1], t \in sets[k] : w = s \o t
      BY <3>0 DEF Joins
    <3>2. s \in Seq(S) /\ t \in Seq(S) /\ t # <<>>
      <4>1. f[k - 1] \in SUBSET Seq(S) /\ sets[k] \in SUBSET Seq(S)
        BY <2>5
      <4> QED
        BY <2>5, <4>1
    <3>3. Len(s) \in Nat /\ Len(t) \in Nat \ {0} /\ Len(w) = Len(s) + Len(t)
      BY <3>1, <3>2
    <3>4. Len(s) >= k - 1
      BY <2>6
    <3>5. ASSUME Len(w) - k + 1 <= max PROVE w \in m[k]
      <4>0. k \in Nat /\ max \in Int
        BY <2>5
      <4>1. Len(s) - (k - 1) + 1 <= max /\ Len(t) <= max
        BY <3>3, <3>4, <3>5, <4>0
      <4>2. s \in m[k - 1]
        BY <2>6, <4>1
      <4>3. t \in few[k]
        BY <2>5, <4>1 DEF few, Within
      <4>4. k \in 1 .. Len(few)
        BY <1>2, <2>5
      <4>5. Joins(m[k - 1], few[k], w)
        BY <3>1, <4>2, <4>3 DEF Joins
      <4> QED
        BY <1>2, <1>3, <3>9, <4>4, <4>5, CombinedAgain
    <3> QED
      BY <2>5, <3>3, <3>4, <3>5
  <2> QED
    BY <2>3, <2>7
<1>6. N \in 0 .. N /\ ts \in f[N]
  BY <1>1, <1>4
<1>7. Fine(N)
  BY <1>5, <1>6
<1> QED
  BY <1>2, <1>3, <1>6, <1>7 DEF few

-----------------------------------------------------------------------------
(* The trees, found from the root down.                                    *)

\* What is left of a valid e-graph when its constants are annotated: the
\* operands of an e-node are classes, it reads them from buffers, and an
\* input has an e-node.
Typed(g) ==
  /\ g.root \in Classes(g)
  /\ \A c \in Classes(g) : \A i \in DOMAIN g.nodes[c] :
       LET en == g.nodes[c][i] IN
       /\ en.kids \in Seq(Classes(g))
       /\ \A b \in Buffers : Supports(en, b) =>
            \A k \in DOMAIN en.kids : ReadsFrom(en, k, b) \in Buffers
  /\ \A c \in g.inputs : c \in Classes(g) /\ 1 \in DOMAIN g.nodes[c]

LEMMA ENodeReads ==
  ASSUME NEW g \in Graphs, NEW c \in Classes(g), NEW i \in DOMAIN g.nodes[c],
         NEW b \in Buffers, Supports(g.nodes[c][i], b), NEW k \in DOMAIN g.nodes[c][i].kids
  PROVE  ReadsFrom(g.nodes[c][i], k, b) \in Buffers
<1> DEFINE en == g.nodes[c][i]
<1>1. ENodesOK(g)
  BY GraphAssumption DEF ValidGraph
<1>2. en \in ENodeSet(g) /\ en.kids \in Seq(Classes(g)) /\ en.kind \in Kinds
  <2>1. en \in ENodeSet(g)
    BY ValidClasses
  <2> QED
    BY <2>1 DEF ENodeSet
<1>3. <<c, i>> \in ENodes(g) /\ At(g, <<c, i>>) = en
  BY DEF ENodes, At
<1>4. /\ en.kind # "detected"
      /\ en.kind = "op"  => en.bufs = <<>>
      /\ en.kind = "var" => en.kids = <<>>
      /\ en.kind = "isa" => en.bufs \in Seq(Buffers) /\ Len(en.bufs) = 1 + Len(en.kids)
      /\ en.kind = "any" => en.bufs = [j \in 1 .. 1 + Len(en.kids) |-> ANY]
  BY <1>1, <1>3 DEF ENodesOK
<1>5. k \in 1 .. Len(en.kids) /\ Len(en.kids) \in Nat
  BY <1>2
<1>6. en.bufs # <<>>
  BY DEF Supports
<1>7. CASE en.kind = "isa"
  <2>1. en.bufs[1 + k] \in Buffers
    BY <1>4, <1>5, <1>7
  <2> QED
    BY <2>1 DEF ReadsFrom
<1>8. CASE en.kind = "any"
  <2>1. en.bufs[1] = ANY
    BY <1>4, <1>5, <1>8
  <2> QED
    BY <2>1 DEF ReadsFrom
<1>9. en.kind \in {"isa", "any"}
  <2>1. en.kind # "var"
    BY <1>4, <1>5
  <2> QED
    BY <1>2, <1>4, <1>6, <2>1 DEF Kinds
<1> QED
  BY <1>7, <1>8, <1>9

LEMMA AnnotatedIsTyped ==
  ASSUME NEW g \in Graphs, NEW consts
  PROVE  Typed(Annotated(g, consts))
<1> DEFINE h == Annotated(g, consts)
<1>1. ValidGraph(g)
  BY GraphAssumption
<1>2. /\ h.root = g.root /\ h.inputs = g.inputs
      /\ h.nodes = [c \in Classes(g) |->
                     IF c \in consts THEN Append(g.nodes[c], DetectedConst) ELSE g.nodes[c]]
  BY DEF Annotated
<1>3. Classes(h) = Classes(g)
  BY <1>2 DEF Classes
<1>4. ASSUME NEW c \in Classes(g)
      PROVE  g.nodes[c] \in Seq(ENodeSet(g))
  BY ValidClasses
<1>5. ASSUME NEW c \in Classes(g), NEW i \in DOMAIN h.nodes[c]
      PROVE  /\ h.nodes[c][i].kids \in Seq(Classes(g))
             /\ \A b \in Buffers : Supports(h.nodes[c][i], b) =>
                  \A k \in DOMAIN h.nodes[c][i].kids : ReadsFrom(h.nodes[c][i], k, b) \in Buffers
  <2>1. \/ i \in DOMAIN g.nodes[c] /\ h.nodes[c][i] = g.nodes[c][i]
        \/ h.nodes[c][i] = DetectedConst
    BY <1>2, <1>4
  <2>2. CASE i \in DOMAIN g.nodes[c] /\ h.nodes[c][i] = g.nodes[c][i]
    <3>1. h.nodes[c][i] \in ENodeSet(g)
      BY <1>4, <2>2
    <3>2. h.nodes[c][i].kids \in Seq(Classes(g))
      BY <3>1 DEF ENodeSet
    <3> QED
      BY <2>2, <3>2, ENodeReads
  <2>3. CASE h.nodes[c][i] = DetectedConst
    <3>1. h.nodes[c][i].kids = <<>>
      BY <2>3 DEF DetectedConst, ENode
    <3> QED
      BY <3>1
  <2> QED
    BY <2>1, <2>2, <2>3
<1>6. ASSUME NEW c \in g.inputs
      PROVE  c \in Classes(g) /\ 1 \in DOMAIN h.nodes[c]
  <2>1. c \in Classes(g) /\ Len(g.nodes[c]) = 1
    BY <1>1 DEF ValidGraph
  <2> QED
    BY <1>2, <1>4, <2>1
<1>7. h.root \in Classes(h)
  BY <1>1, <1>2, <1>3 DEF ValidGraph
<1> HIDE DEF h
<1> QED
  BY <1>2, <1>3, <1>5, <1>6, <1>7 DEF Typed, h

\* The operands' trees are of fewer e-nodes: one at least is the e-node's.
LEMMA OperandsAreSmaller ==
  ASSUME NEW g, Typed(g), NEW c \in Classes(g), NEW i \in DOMAIN g.nodes[c],
         NEW n \in Nat, n >= Len(g.nodes[c][i].kids), NEW k \in DOMAIN g.nodes[c][i].kids
  PROVE  ChildLimit(g.nodes[c][i], n) \in 0 .. n - 1
<1>1. g.nodes[c][i].kids \in Seq(Classes(g))
  BY DEF Typed
<1> QED
  BY <1>1 DEF ChildLimit

\* What is found with n e-nodes depends on what is found with fewer only.
LEMMA DeliverIsLocal ==
  ASSUME NEW g, Typed(g), NEW n \in Nat, NEW c \in Classes(g), NEW b \in Buffers,
         NEW e, NEW f, \A m \in 0 .. n - 1 : e[m] = f[m]
  PROVE  Deliver(e, g, n, c, b) = Deliver(f, g, n, c, b)
<1>1. ASSUME NEW i \in DOMAIN g.nodes[c]
      PROVE  TreesUnder(e, g, n, c, i, b) = TreesUnder(f, g, n, c, i, b)
  <2> DEFINE en == g.nodes[c][i]
             under(h) == [k \in DOMAIN en.kids |->
                            h[ChildLimit(en, n)][<<en.kids[k], ReadsFrom(en, k, b)>>]]
  <2>1. CASE n < Len(en.kids)
    BY <2>1 DEF TreesUnder
  <2>2. CASE ~(n < Len(en.kids))
    <3>1. n >= Len(en.kids)
      <4>1. en.kids \in Seq(Classes(g))
        BY DEF Typed
      <4> QED
        BY <2>2, <4>1
    <3>2. ASSUME NEW k \in DOMAIN en.kids
          PROVE  e[ChildLimit(en, n)] = f[ChildLimit(en, n)]
      BY <3>1, OperandsAreSmaller
    <3>3. under(e) = under(f)
      BY <3>2
    <3> QED
      BY <3>3, Zenon DEF TreesUnder
  <2> QED
    BY <2>1, <2>2
<1> QED
  BY <1>1 DEF Deliver

\* One more e-node on top of trees of e-nodes.
LEMMA DeliverOfENodes ==
  ASSUME NEW g, Typed(g), NEW n \in Nat, NEW c \in Classes(g), NEW b \in Buffers, NEW f,
         \A m \in 0 .. n - 1 : \A w \in Classes(g) \X Buffers :
           f[m][w] \subseteq Seq(ENodes(g))
  PROVE  Deliver(f, g, n, c, b) \subseteq Seq(ENodes(g))
<1>1. \A i \in DOMAIN g.nodes[c] : <<c, i>> \in ENodes(g)
  BY DEF ENodes
<1>2. ASSUME c \in g.inputs PROVE << <<c, 1>> >> \in Seq(ENodes(g))
  <2>1. <<c, 1>> \in ENodes(g)
    BY <1>1, <1>2 DEF Typed
  <2> QED
    BY <2>1
<1>3. ASSUME NEW i \in DOMAIN g.nodes[c]
      PROVE  TreesUnder(f, g, n, c, i, b) \subseteq Seq(ENodes(g))
  <2> DEFINE en == g.nodes[c][i]
             under == [k \in DOMAIN en.kids |->
                         f[ChildLimit(en, n)][<<en.kids[k], ReadsFrom(en, k, b)>>]]
  <2>1. en.kids \in Seq(Classes(g))
    BY DEF Typed
  <2>2. ASSUME Supports(en, b), ~(n < Len(en.kids))
        PROVE  under \in Seq(SUBSET Seq(ENodes(g)))
    <3>1. n >= Len(en.kids)
      BY <2>1, <2>2
    <3>2. ASSUME NEW k \in DOMAIN en.kids
          PROVE  f[ChildLimit(en, n)][<<en.kids[k], ReadsFrom(en, k, b)>>] \in SUBSET Seq(ENodes(g))
      <4>1. ChildLimit(en, n) \in 0 .. n - 1
        BY <3>1, OperandsAreSmaller
      <4>2. en.kids[k] \in Classes(g) /\ ReadsFrom(en, k, b) \in Buffers
        BY <2>1, <2>2 DEF Typed
      <4> QED
        BY <4>1, <4>2
    <3>3. DOMAIN en.kids = 1 .. Len(en.kids) /\ Len(en.kids) \in Nat
      BY <2>1
    <3>4. under \in [1 .. Len(en.kids) -> SUBSET Seq(ENodes(g))]
      BY <3>2, <3>3
    <3> HIDE DEF under
    <3> QED
      BY <3>3, <3>4
  <2> HIDE DEF under
  <2>3. ASSUME NEW t \in TreesUnder(f, g, n, c, i, b) PROVE t \in Seq(ENodes(g))
    <3>1. /\ Supports(en, b) /\ ~(n < Len(en.kids))
          /\ t \in {<< <<c, i>> >> \o ts : ts \in Combinations(under)}
      <4> USE DEF under
      <4> QED
        BY <2>3, Zenon DEF TreesUnder
    <3>2. PICK ts \in Combinations(under) : t = << <<c, i>> >> \o ts
      BY <3>1
    <3>3. ts \in Seq(ENodes(g))
      BY <2>2, <3>1, CombinationsOfSequences
    <3>4. << <<c, i>> >> \in Seq(ENodes(g))
      BY <1>1
    <3> QED
      BY <3>2, <3>3, <3>4
  <2> QED
    BY <2>3
<1> QED
  BY <1>2, <1>3 DEF Deliver

\* of[n] are the trees of at most n e-nodes, for each class and buffer.
IsGrown(of, g, lim) ==
  /\ of \in [0 .. lim -> [Classes(g) \X Buffers -> SUBSET Seq(ENodes(g))]]
  /\ \A n \in 0 .. lim, c \in Classes(g), b \in Buffers :
       of[n][<<c, b>>] = Deliver(of, g, n, c, b)

\* get_extraction_trees delivers e-nodes of the graph: the trees are there, by
\* the same argument as the combinations, and are made of e-nodes.
LEMMA TreesInSteps ==
  ASSUME NEW g, Typed(g), NEW lim \in Nat
  PROVE  \E of : IsGrown(of, g, lim) /\ Trees(g, lim) = of[lim][<<g.root, HBM>>]
<1> DEFINE Body(f, n) == [w \in Classes(g) \X Buffers |-> Deliver(f, g, n, w[1], w[2])]
           Upto(n, f) == f = [k \in 0 .. n |-> Body(f, k)]
           Missing    == {n \in Nat : ~(\E f : Upto(n, f))}
           of         == CHOOSE f : Upto(lim, f)
           Fine(n)    == \A w \in Classes(g) \X Buffers : of[n][w] \subseteq Seq(ENodes(g))
           Odd        == {n \in 0 .. lim : ~Fine(n)}
<1>1. Trees(g, lim) = of[lim][<<g.root, HBM>>]
  BY DEF Trees
<1>2. ASSUME NEW e, NEW f, NEW n \in Nat, \A m \in 0 .. n - 1 : e[m] = f[m]
      PROVE  Body(e, n) = Body(f, n)
  BY <1>2, DeliverIsLocal
<1>3. ASSUME NEW f, NEW n, NEW w \in Classes(g) \X Buffers
      PROVE  Body(f, n)[w] = Deliver(f, g, n, w[1], w[2])
  OBVIOUS
<1> HIDE DEF Body
<1>4. ASSUME Missing # {} PROVE FALSE
  <2>1. Missing \in SUBSET Nat
    OBVIOUS
  <2> HIDE DEF Missing
  <2>2. PICK n \in Missing : \A m \in Missing : n <= m
    BY <1>4, <2>1, LeastElement
  <2> USE DEF Missing
  <2>3. n \in Nat /\ ~(\E f : Upto(n, f))
    BY <2>2
  <2>4. CASE n = 0
    <3> DEFINE f == [k \in 0 .. 0 |-> Body(0, 0)]
    <3>1. \A k \in 0 .. 0 : k = 0
      OBVIOUS
    <3>2. Body(f, 0) = Body(0, 0)
      BY <1>2
    <3>3. Upto(0, f)
      BY <3>1, <3>2
    <3> QED
      BY <2>3, <2>4, <3>3
  <2>5. CASE n # 0
    <3>1. n - 1 \in Nat /\ ~(n <= n - 1)
      BY <2>3, <2>5
    <3>2. n - 1 \notin Missing
      BY <2>2, <3>1
    <3>3. PICK f : Upto(n - 1, f)
      BY <3>1, <3>2
    <3> DEFINE h == [k \in 0 .. n |-> IF k = n THEN Body(f, n) ELSE f[k]]
    <3>4. ASSUME NEW k \in 0 .. n PROVE h[k] = Body(h, k)
      <4>1. h[k] = Body(f, k)
        <5>1. CASE k = n
          BY <5>1
        <5>2. CASE k # n
          <6>1. k \in 0 .. n - 1
            BY <2>3, <5>2
          <6>2. f[k] = Body(f, k)
            BY <3>3, <6>1
          <6> QED
            BY <5>2, <6>2
        <5> QED
          BY <5>1, <5>2
      <4>2. \A m \in 0 .. k - 1 : f[m] = h[m]
        <5>1. \A m \in 0 .. k - 1 : m \in 0 .. n /\ m # n
          BY <2>3
        <5> QED
          BY <5>1
      <4>3. Body(f, k) = Body(h, k)
        BY <1>2, <4>2
      <4> QED
        BY <4>1, <4>3
    <3>5. h = [k \in 0 .. n |-> h[k]]
      OBVIOUS
    <3> HIDE DEF h
    <3>6. Upto(n, h)
      BY <3>4, <3>5
    <3> QED
      BY <2>3, <3>6
  <2> QED
    BY <2>4, <2>5
<1>5. Upto(lim, of)
  <2>1. \E f : Upto(lim, f)
    BY <1>4
  <2> HIDE DEF Upto
  <2> QED
    BY <2>1
<1> HIDE DEF of
<1>6. \A n \in 0 .. lim : of[n] = Body(of, n)
  BY <1>5
<1>7. ASSUME Odd # {} PROVE FALSE
  <2>1. Odd \in SUBSET Nat
    OBVIOUS
  <2> HIDE DEF Odd
  <2>2. PICK n \in Odd : \A m \in Odd : n <= m
    BY <1>7, <2>1, LeastElement
  <2> USE DEF Odd
  <2>3. n \in 0 .. lim /\ ~Fine(n)
    BY <2>2
  <2>4. ASSUME NEW m \in 0 .. n - 1 PROVE Fine(m)
    <3>1. m \in 0 .. lim /\ ~(n <= m)
      BY <2>3
    <3> QED
      BY <2>2, <3>1
  <2>5. ASSUME NEW w \in Classes(g) \X Buffers
        PROVE  of[n][w] \subseteq Seq(ENodes(g))
    <3>1. of[n][w] = Deliver(of, g, n, w[1], w[2])
      BY <1>3, <1>6, <2>3
    <3>2. w[1] \in Classes(g) /\ w[2] \in Buffers
      OBVIOUS
    <3>3. n \in Nat
      BY <2>3
    <3>4. Deliver(of, g, n, w[1], w[2]) \subseteq Seq(ENodes(g))
      BY <2>4, <3>2, <3>3, DeliverOfENodes
    <3> QED
      BY <3>1, <3>4
  <2> QED
    BY <2>3, <2>5
<1>8. ASSUME NEW n \in 0 .. lim
      PROVE  of[n] \in [Classes(g) \X Buffers -> SUBSET Seq(ENodes(g))]
  <2>1. of[n] = [w \in Classes(g) \X Buffers |-> Deliver(of, g, n, w[1], w[2])]
    BY <1>6 DEF Body
  <2>2. Fine(n)
    BY <1>7
  <2>3. \A w \in Classes(g) \X Buffers : of[n][w] \subseteq Seq(ENodes(g))
    BY <2>2
  <2>4. of[n] = [w \in Classes(g) \X Buffers |-> of[n][w]]
    BY <2>1
  <2> QED
    BY <2>3, <2>4
<1>9. of \in [0 .. lim -> [Classes(g) \X Buffers -> SUBSET Seq(ENodes(g))]]
  <2>1. of = [n \in 0 .. lim |-> of[n]]
    BY <1>5
  <2> QED
    BY <1>8, <2>1
<1>10. ASSUME NEW n \in 0 .. lim, NEW c \in Classes(g), NEW b \in Buffers
       PROVE  of[n][<<c, b>>] = Deliver(of, g, n, c, b)
  <2> DEFINE w == <<c, b>>
  <2>1. w \in Classes(g) \X Buffers /\ w[1] = c /\ w[2] = b
    OBVIOUS
  <2> HIDE DEF w
  <2>2. of[n][w] = Deliver(of, g, n, w[1], w[2])
    BY <1>3, <1>6, <2>1
  <2> QED
    BY <2>1, <2>2 DEF w
<1>11. IsGrown(of, g, lim)
  BY <1>9, <1>10 DEF IsGrown
<1> QED
  BY <1>1, <1>11

LEMMA GrownTrees ==
  ASSUME NEW g, NEW lim \in Nat, NEW of, IsGrown(of, g, lim),
         NEW n \in 0 .. lim, NEW c \in Classes(g), NEW b \in Buffers
  PROVE  /\ of[n][<<c, b>>] \in SUBSET Seq(ENodes(g))
         /\ of[n][<<c, b>>] = Deliver(of, g, n, c, b)
<1>1. <<c, b>> \in Classes(g) \X Buffers
  OBVIOUS
<1>2. of[n] \in [Classes(g) \X Buffers -> SUBSET Seq(ENodes(g))]
  BY DEF IsGrown
<1>3. of[n][<<c, b>>] = Deliver(of, g, n, c, b)
  BY DEF IsGrown
<1> QED
  BY <1>1, <1>2, <1>3

LEMMA TreesOfENodes ==
  ASSUME NEW g, Typed(g), NEW lim \in Nat
  PROVE  Trees(g, lim) \subseteq Seq(ENodes(g))
<1>1. PICK of : IsGrown(of, g, lim) /\ Trees(g, lim) = of[lim][<<g.root, HBM>>]
  BY TreesInSteps
<1>2. g.root \in Classes(g) /\ HBM \in Buffers /\ lim \in 0 .. lim
  BY DEF Typed, Buffers
<1> QED
  BY <1>1, <1>2, GrownTrees

\* The trees of the operands of an e-node, that TreesUnder combines.
Under(of, g, n, c, i, b) ==
  LET en == g.nodes[c][i] IN
  [k \in DOMAIN en.kids |-> of[ChildLimit(en, n)][<<en.kids[k], ReadsFrom(en, k, b)>>]]

\* t is such a tree.
IsTop(of, g, n, c, i, b, t) ==
  LET en == g.nodes[c][i] IN
  /\ Supports(en, b) /\ n >= Len(en.kids) /\ Len(t) <= n
  /\ \E ts \in Combinations(Under(of, g, n, c, i, b)) : t = << <<c, i>> >> \o ts

IsInput(g, c, b) == c \in g.inputs /\ b = HBM

\* What a tree of at most n e-nodes is.
IsDelivered(of, g, n, c, b, t) ==
  /\ n # 0
  /\ IF IsInput(g, c, b) THEN t = << <<c, 1>> >>
     ELSE \E i \in DOMAIN g.nodes[c] : IsTop(of, g, n, c, i, b, t)

LEMMA DeliveredTrees ==
  ASSUME NEW g, Typed(g), NEW of, NEW n \in Nat, NEW c \in Classes(g), NEW b \in Buffers, NEW t
  PROVE  t \in Deliver(of, g, n, c, b) <=> IsDelivered(of, g, n, c, b, t)
<1>1. ASSUME NEW i \in DOMAIN g.nodes[c]
      PROVE  t \in TreesUnder(of, g, n, c, i, b) <=> IsTop(of, g, n, c, i, b, t)
  <2>1. Len(g.nodes[c][i].kids) \in Nat
    <3>1. g.nodes[c][i].kids \in Seq(Classes(g))
      BY DEF Typed
    <3> QED
      BY <3>1
  <2>2. n < Len(g.nodes[c][i].kids) <=> ~(n >= Len(g.nodes[c][i].kids))
    BY <2>1
  <2> DEFINE combined == Combinations(Under(of, g, n, c, i, b))
  <2>3. t \in TreesUnder(of, g, n, c, i, b) <=>
          /\ Supports(g.nodes[c][i], b) /\ ~(n < Len(g.nodes[c][i].kids))
          /\ t \in {u \in {<< <<c, i>> >> \o ts : ts \in combined} : Len(u) <= n}
    BY Zenon DEF TreesUnder, Under
  <2>4. IsTop(of, g, n, c, i, b, t) <=>
          /\ Supports(g.nodes[c][i], b) /\ n >= Len(g.nodes[c][i].kids) /\ Len(t) <= n
          /\ \E ts \in combined : t = << <<c, i>> >> \o ts
    BY DEF IsTop
  <2> HIDE DEF combined
  <2> QED
    BY <2>2, <2>3, <2>4
<1>2. CASE n = 0
  BY <1>2 DEF Deliver, IsDelivered
<1>3. CASE n # 0 /\ IsInput(g, c, b)
  BY <1>3 DEF Deliver, IsDelivered, IsInput
<1>4. CASE n # 0 /\ ~IsInput(g, c, b)
  <2>1. Deliver(of, g, n, c, b) = UNION {TreesUnder(of, g, n, c, i, b) : i \in DOMAIN g.nodes[c]}
    BY <1>4 DEF Deliver, IsInput
  <2>2. t \in Deliver(of, g, n, c, b) <=>
          \E i \in DOMAIN g.nodes[c] : t \in TreesUnder(of, g, n, c, i, b)
    BY <2>1, SMTT(30)
  <2> QED
    BY <1>1, <1>4, <2>2 DEF IsDelivered
<1> QED
  BY <1>2, <1>3, <1>4

\* The operands' trees are known before, and are sequences of e-nodes.
KnownBefore(of, g, n, c, i, b) ==
  /\ g.nodes[c][i].kids \in Seq(Classes(g))
  /\ Under(of, g, n, c, i, b) \in Seq(SUBSET Seq(ENodes(g)))
  /\ Len(Under(of, g, n, c, i, b)) = Len(g.nodes[c][i].kids)
  /\ \A k \in DOMAIN g.nodes[c][i].kids :
       /\ g.nodes[c][i].kids[k] \in Classes(g)
       /\ ReadsFrom(g.nodes[c][i], k, b) \in Buffers
       /\ ChildLimit(g.nodes[c][i], n) \in 0 .. n - 1
       /\ Under(of, g, n, c, i, b)[k] =
            of[ChildLimit(g.nodes[c][i], n)]
              [<<g.nodes[c][i].kids[k], ReadsFrom(g.nodes[c][i], k, b)>>]

LEMMA UnderIsKnown ==
  ASSUME NEW g, Typed(g), NEW lim \in Nat,
         NEW of, IsGrown(of, g, lim),
         NEW n \in 0 .. lim, NEW c \in Classes(g), NEW i \in DOMAIN g.nodes[c], NEW b \in Buffers,
         Supports(g.nodes[c][i], b), n >= Len(g.nodes[c][i].kids)
  PROVE  KnownBefore(of, g, n, c, i, b)
<1> DEFINE en == g.nodes[c][i]
           under == Under(of, g, n, c, i, b)
<1>1. en.kids \in Seq(Classes(g))
  BY DEF Typed
<1>2. DOMAIN en.kids = 1 .. Len(en.kids) /\ Len(en.kids) \in Nat /\ n \in Nat
  BY <1>1
<1>3. \A k \in DOMAIN en.kids :
        /\ en.kids[k] \in Classes(g)
        /\ ReadsFrom(en, k, b) \in Buffers
        /\ ChildLimit(en, n) \in 0 .. n - 1
  <2>1. \A k \in DOMAIN en.kids : ChildLimit(en, n) \in 0 .. n - 1
    BY <1>2, OperandsAreSmaller
  <2> QED
    BY <1>1, <2>1 DEF Typed
<1>4. under =
        [k \in 1 .. Len(en.kids) |-> of[ChildLimit(en, n)][<<en.kids[k], ReadsFrom(en, k, b)>>]]
  BY <1>2 DEF Under
<1> HIDE DEF under
<1>5. ASSUME NEW k \in 1 .. Len(en.kids)
      PROVE  of[ChildLimit(en, n)][<<en.kids[k], ReadsFrom(en, k, b)>>] \in SUBSET Seq(ENodes(g))
  <2>0. ChildLimit(en, n) \in 0 .. n - 1
    BY <1>2, <1>3
  <2>1. ChildLimit(en, n) \in 0 .. lim
    BY <2>0
  <2>2. en.kids[k] \in Classes(g) /\ ReadsFrom(en, k, b) \in Buffers
    BY <1>2, <1>3, SMTT(30)
  <2> HIDE DEF en
  <2> QED
    BY <2>1, <2>2, GrownTrees
<1>6. under \in [1 .. Len(en.kids) -> SUBSET Seq(ENodes(g))]
  BY <1>4, <1>5
<1>7. under \in Seq(SUBSET Seq(ENodes(g))) /\ Len(under) = Len(en.kids)
  BY <1>2, <1>6
<1> QED
  BY <1>1, <1>2, <1>3, <1>4, <1>7 DEF under, KnownBefore

-----------------------------------------------------------------------------
(* The trees, built from the leaves up.                                    *)

\* F makes no less of more.
Grows(F, P) == \A G, H \in SUBSET P : G \subseteq H => F[G] \subseteq F[H]

\* Rounds of such a rule only grow.
LEMMA RoundsGrow ==
  ASSUME NEW P, NEW F \in [SUBSET P -> SUBSET P], NEW n \in Nat,
         NEW r \in [0 .. n -> SUBSET P], IsRounds(r, n, {}, F),
         Grows(F, P), NEW j \in 0 .. n, NEW k \in j .. n
  PROVE  r[j] \subseteq r[k]
<1>1. /\ \A m \in 0 .. n : r[m] \in SUBSET P
      /\ \A m \in 0 .. n : r[m] = IF m = 0 THEN {} ELSE F[r[m - 1]]
  BY DEF IsRounds
<1>2. \A m \in 1 .. n : r[m - 1] \subseteq r[m]
  <2> DEFINE Bad == {m \in 1 .. n : ~(r[m - 1] \subseteq r[m])}
  <2>1. SUFFICES ASSUME Bad # {} PROVE FALSE
    OBVIOUS
  <2>2. Bad \in SUBSET Nat
    OBVIOUS
  <2> HIDE DEF Bad
  <2>3. PICK m \in Bad : \A l \in Bad : m <= l
    BY <2>1, <2>2, LeastElement
  <2> USE DEF Bad
  <2>4. m \in 1 .. n /\ ~(r[m - 1] \subseteq r[m])
    OBVIOUS
  <2>5. m - 1 # 0
    <3>1. m - 1 = 0 => r[m - 1] = {}
      BY <1>1, <2>4
    <3> QED
      BY <2>4, <3>1
  <2>6. m - 1 \in 1 .. n /\ m - 1 \in 0 .. n /\ m - 2 \in 0 .. n /\ m \in 0 .. n /\ m # 0 /\
        ~(m <= m - 1) /\ (m - 1) - 1 = m - 2
    BY <2>4, <2>5
  <2>7. r[m - 2] \subseteq r[m - 1]
    BY <2>3, <2>6
  <2>8. r[m - 1] = F[r[m - 2]] /\ r[m] = F[r[m - 1]]
    BY <1>1, <2>5, <2>6
  <2>9. F[r[m - 2]] \subseteq F[r[m - 1]]
    BY <1>1, <2>6, <2>7 DEF Grows
  <2> QED
    BY <2>4, <2>8, <2>9
<1> DEFINE Bad == {m \in j .. n : ~(r[j] \subseteq r[m])}
<1>3. SUFFICES ASSUME Bad # {} PROVE FALSE
  OBVIOUS
<1>4. Bad \in SUBSET Nat
  OBVIOUS
<1> HIDE DEF Bad
<1>5. PICK m \in Bad : \A l \in Bad : m <= l
  BY <1>3, <1>4, LeastElement
<1> USE DEF Bad
<1>6. m \in j .. n /\ ~(r[j] \subseteq r[m]) /\ m # j
  OBVIOUS
<1>7. m \in 1 .. n /\ m - 1 \in j .. n /\ ~(m <= m - 1)
  BY <1>6
<1>8. r[j] \subseteq r[m - 1]
  BY <1>5, <1>7
<1> QED
  BY <1>2, <1>6, <1>7, <1>8

-----------------------------------------------------------------------------

TreeSet(g) == Classes(g) \X Buffers \X Seq(ENodes(g))

\* Trees of the class c and the buffer b among the known ones.
LEMMA TreesOfKnown ==
  ASSUME NEW g, NEW known \in SUBSET TreeSet(g), NEW c \in Classes(g), NEW b \in Buffers
  PROVE  /\ TreesOf(known, c, b) \in SUBSET Seq(ENodes(g))
         /\ \A t : t \in TreesOf(known, c, b) <=> <<c, b, t>> \in known
<1>1. \A v \in known : v = <<v[1], v[2], v[3]>> /\ v[3] \in Seq(ENodes(g))
  BY DEF TreeSet
<1>2. ASSUME NEW t PROVE t \in TreesOf(known, c, b) <=> <<c, b, t>> \in known
  <2>1. t \in TreesOf(known, c, b) <=> \E v \in known : v[1] = c /\ v[2] = b /\ v[3] = t
    BY DEF TreesOf
  <2>2. ASSUME NEW v \in known, v[1] = c /\ v[2] = b /\ v[3] = t PROVE <<c, b, t>> \in known
    BY <1>1, <2>2
  <2>3. <<c, b, t>>[1] = c /\ <<c, b, t>>[2] = b /\ <<c, b, t>>[3] = t
    OBVIOUS
  <2> QED
    BY <2>1, <2>2, <2>3
<1>3. ASSUME NEW t \in TreesOf(known, c, b) PROVE t \in Seq(ENodes(g))
  <2> DEFINE v == <<c, b, t>>
  <2>1. v \in known /\ v[3] = t
    BY <1>2
  <2> HIDE DEF v
  <2> QED
    BY <1>1, <2>1
<1> QED
  BY <1>2, <1>3

\* The known trees of the operands.
KnownOperands(g, n, b, known) ==
  [k \in DOMAIN At(g, n).kids |-> TreesOf(known, At(g, n).kids[k], ReadsFrom(At(g, n), k, b))]

LEMMA KnownOperandsFacts ==
  ASSUME NEW g, Typed(g), NEW known \in SUBSET TreeSet(g), NEW n \in ENodes(g), NEW b \in Buffers,
         Supports(At(g, n), b)
  PROVE  /\ At(g, n).kids \in Seq(Classes(g))
         /\ KnownOperands(g, n, b, known) \in Seq(SUBSET Seq(ENodes(g)))
         /\ Len(KnownOperands(g, n, b, known)) = Len(At(g, n).kids)
         /\ \A k \in 1 .. Len(At(g, n).kids) :
              /\ At(g, n).kids[k] \in Classes(g) /\ ReadsFrom(At(g, n), k, b) \in Buffers
              /\ KnownOperands(g, n, b, known)[k] =
                   TreesOf(known, At(g, n).kids[k], ReadsFrom(At(g, n), k, b))
<1> DEFINE en == At(g, n)
           s == KnownOperands(g, n, b, known)
<1>1. n[1] \in Classes(g) /\ n[2] \in DOMAIN g.nodes[n[1]] /\ en = g.nodes[n[1]][n[2]]
  BY DEF ENodes, At
<1>2. en.kids \in Seq(Classes(g)) /\ \A k \in DOMAIN en.kids : ReadsFrom(en, k, b) \in Buffers
  BY <1>1 DEF Typed
<1>3. DOMAIN en.kids = 1 .. Len(en.kids) /\ Len(en.kids) \in Nat
  BY <1>2
<1>4. s = [k \in 1 .. Len(en.kids) |-> TreesOf(known, en.kids[k], ReadsFrom(en, k, b))]
  BY <1>3 DEF KnownOperands
<1>5. \A k \in 1 .. Len(en.kids) : en.kids[k] \in Classes(g) /\ ReadsFrom(en, k, b) \in Buffers
  BY <1>2, <1>3
<1> HIDE DEF en, s
<1>6. \A k \in 1 .. Len(en.kids) :
        TreesOf(known, en.kids[k], ReadsFrom(en, k, b)) \in SUBSET Seq(ENodes(g))
  BY <1>5, TreesOfKnown
<1>7. s \in [1 .. Len(en.kids) -> SUBSET Seq(ENodes(g))]
  BY <1>4, <1>6
<1>8. s \in Seq(SUBSET Seq(ENodes(g))) /\ Len(s) = Len(en.kids)
  BY <1>3, <1>7
<1> QED
  BY <1>2, <1>4, <1>5, <1>8 DEF en, s

\* What a known tree consists of.
IsHigher(g, lim, known, c, b, t) ==
  \/ c \in g.inputs /\ b = HBM /\ t = << <<c, 1>> >>
  \/ /\ ~IsInput(g, c, b) /\ Len(t) <= lim
     /\ \E i \in DOMAIN g.nodes[c] :
          /\ Supports(g.nodes[c][i], b)
          /\ \E ts \in Combinations(KnownOperands(g, <<c, i>>, b, known)) : t = << <<c, i>> >> \o ts

LEMMA HigherTrees ==
  ASSUME NEW g, NEW lim, NEW known, NEW c \in Classes(g), NEW b \in Buffers, NEW t
  PROVE  <<c, b, t>> \in Higher(g, lim, known) <=> IsHigher(g, lim, known, c, b, t)
<1> DEFINE tops == {v \in ENodes(g) \X Buffers :
                      /\ Supports(At(g, v[1]), v[2])
                      /\ ~(v[1][1] \in g.inputs /\ v[2] = HBM)}
           ins  == {<<x, HBM, << <<x, 1>> >> >> : x \in g.inputs}
           w    == <<c, b, t>>
<1>1. w[1] = c /\ w[2] = b /\ w[3] = t
  OBVIOUS
<1>2. w \in ins <=> c \in g.inputs /\ b = HBM /\ t = << <<c, 1>> >>
  <2>1. ASSUME NEW x \in g.inputs, w = <<x, HBM, << <<x, 1>> >> >>
        PROVE  c = x /\ b = HBM /\ t = << <<x, 1>> >>
    BY <1>1, <2>1
  <2> QED
    BY <2>1
<1>3. w \in UNION {OnTop(g, v[1], v[2], known) : v \in tops} <=>
        \E v \in tops : w \in OnTop(g, v[1], v[2], known)
  <2> HIDE DEF tops, w
  <2> QED
    OBVIOUS
<1>4. w \in Higher(g, lim, known) <=>
        w \in ins \/ (w \in UNION {OnTop(g, v[1], v[2], known) : v \in tops} /\ Len(w[3]) <= lim)
  BY Zenon DEF Higher
<1>5. ASSUME NEW v \in tops, w \in OnTop(g, v[1], v[2], known), Len(t) <= lim
      PROVE  IsHigher(g, lim, known, c, b, t)
  <2> DEFINE n == v[1]
             combined == Combinations(KnownOperands(g, n, v[2], known))
  <2>1. n \in ENodes(g) /\ v[2] \in Buffers /\ Supports(At(g, n), v[2]) /\
        ~(n[1] \in g.inputs /\ v[2] = HBM)
    OBVIOUS
  <2>2. OnTop(g, n, v[2], known) = {<<n[1], v[2], <<n>> \o ts>> : ts \in combined}
    BY Zenon DEF OnTop, KnownOperands
  <2>3. n[1] \in Classes(g) /\ n[2] \in DOMAIN g.nodes[n[1]] /\ n = <<n[1], n[2]>>
    BY <2>1 DEF ENodes
  <2> HIDE DEF combined
  <2>4. PICK ts \in combined : w = <<n[1], v[2], <<n>> \o ts>>
    BY <1>5, <2>2
  <2>5. c = n[1] /\ b = v[2] /\ t = <<n>> \o ts
    BY <1>1, <2>4
  <2>6. n = <<c, n[2]>> /\ n[2] \in DOMAIN g.nodes[c] /\ Supports(g.nodes[c][n[2]], b) /\
        ~IsInput(g, c, b)
    BY <2>1, <2>3, <2>5 DEF At, IsInput
  <2>7. ts \in Combinations(KnownOperands(g, <<c, n[2]>>, b, known)) /\ t = << <<c, n[2]>> >> \o ts
    BY <2>5, <2>6 DEF combined
  <2> QED
    BY <1>5, <2>6, <2>7 DEF IsHigher
<1>6. ASSUME ~IsInput(g, c, b), Len(t) <= lim, NEW i \in DOMAIN g.nodes[c],
             Supports(g.nodes[c][i], b),
             NEW ts \in Combinations(KnownOperands(g, <<c, i>>, b, known)), t = << <<c, i>> >> \o ts
      PROVE  \E v \in tops : w \in OnTop(g, v[1], v[2], known)
  <2> DEFINE n == <<c, i>>
             v == <<n, b>>
             combined == Combinations(KnownOperands(g, n, b, known))
  <2>1. n \in ENodes(g) /\ At(g, n) = g.nodes[c][i] /\ n[1] = c
    BY DEF ENodes, At
  <2>2. OnTop(g, n, b, known) = {<<n[1], b, <<n>> \o us>> : us \in combined}
    BY Zenon DEF OnTop, KnownOperands
  <2>3. ts \in combined
    OBVIOUS
  <2> HIDE DEF combined
  <2>4. w \in OnTop(g, n, b, known)
    BY <1>6, <2>1, <2>2, <2>3
  <2> HIDE DEF w, n
  <2>5. v[1] = n /\ v[2] = b /\ v \in ENodes(g) \X Buffers
    BY <2>1
  <2> HIDE DEF v
  <2>6. v \in tops
    BY <1>6, <2>1, <2>5 DEF IsInput
  <2> QED
    BY <2>4, <2>5, <2>6
<1> HIDE DEF tops, ins
<1>7. ASSUME w \in Higher(g, lim, known) PROVE IsHigher(g, lim, known, c, b, t)
  <2>1. CASE w \in ins
    BY <1>2, <2>1 DEF IsHigher
  <2>2. CASE w \notin ins
    <3>1. PICK v \in tops : w \in OnTop(g, v[1], v[2], known)
      BY <1>3, <1>4, <1>7, <2>2
    <3>2. Len(t) <= lim
      BY <1>1, <1>4, <1>7, <2>2
    <3> HIDE DEF w
    <3> QED
      BY <1>5, <3>1, <3>2
  <2> QED
    BY <2>1, <2>2
<1>8. ASSUME IsHigher(g, lim, known, c, b, t) PROVE w \in Higher(g, lim, known)
  <2>1. CASE c \in g.inputs /\ b = HBM /\ t = << <<c, 1>> >>
    BY <1>2, <1>4, <2>1
  <2>2. CASE ~(c \in g.inputs /\ b = HBM /\ t = << <<c, 1>> >>)
    <3>1. \E v \in tops : w \in OnTop(g, v[1], v[2], known)
      BY <1>6, <1>8, <2>2 DEF IsHigher
    <3>2. Len(w[3]) <= lim
      BY <1>1, <1>8, <2>2 DEF IsHigher
    <3> QED
      BY <1>3, <1>4, <3>1, <3>2
  <2> QED
    BY <2>1, <2>2
<1> QED
  BY <1>7, <1>8 DEF w

\* One round of AllTrees.
Heighten(g, lim) == [known \in SUBSET TreeSet(g) |-> Higher(g, lim, known)]

LEMMA HeightenIsTyped ==
  ASSUME NEW g, Typed(g), NEW lim
  PROVE  Heighten(g, lim) \in [SUBSET TreeSet(g) -> SUBSET TreeSet(g)]
<1>1. ASSUME NEW known \in SUBSET TreeSet(g) PROVE Higher(g, lim, known) \in SUBSET TreeSet(g)
  <2> DEFINE tops == {v \in ENodes(g) \X Buffers :
                        /\ Supports(At(g, v[1]), v[2])
                        /\ ~(v[1][1] \in g.inputs /\ v[2] = HBM)}
             ins  == {<<x, HBM, << <<x, 1>> >> >> : x \in g.inputs}
             rest == UNION {OnTop(g, v[1], v[2], known) : v \in tops}
  <2>1. Higher(g, lim, known) = ins \cup {w \in rest : Len(w[3]) <= lim}
    BY Zenon DEF Higher
  <2>2. ins \in SUBSET TreeSet(g)
    <3>1. \A x \in g.inputs : x \in Classes(g) /\ <<x, 1>> \in ENodes(g)
      BY DEF Typed, ENodes
    <3>2. ASSUME NEW x \in g.inputs PROVE << <<x, 1>> >> \in Seq(ENodes(g))
      <4> DEFINE n == <<x, 1>>
      <4>1. n \in ENodes(g)
        BY <3>1
      <4> HIDE DEF n
      <4>2. <<n>> \in Seq(ENodes(g))
        BY <4>1
      <4> QED
        BY <4>2 DEF n
    <3> QED
      BY <3>1, <3>2 DEF TreeSet, Buffers
  <2>3. ASSUME NEW v \in tops, NEW w \in OnTop(g, v[1], v[2], known) PROVE w \in TreeSet(g)
    <3> DEFINE n == v[1]
               b == v[2]
               combined == Combinations(KnownOperands(g, n, b, known))
    <3>1. n \in ENodes(g) /\ b \in Buffers /\ Supports(At(g, n), b)
      OBVIOUS
    <3>2. OnTop(g, n, b, known) = {<<n[1], b, <<n>> \o ts>> : ts \in combined}
      BY Zenon DEF OnTop, KnownOperands
    <3>3. n[1] \in Classes(g)
      BY <3>1 DEF ENodes
    <3> HIDE DEF n, b
    <3>4. combined \subseteq Seq(ENodes(g))
      BY <3>1, KnownOperandsFacts, CombinationsOfSequences
    <3>5. w \in OnTop(g, n, b, known)
      BY DEF n, b
    <3> HIDE DEF combined
    <3>6. PICK ts \in combined : w = <<n[1], b, <<n>> \o ts>>
      BY <3>2, <3>5
    <3>7. <<n>> \o ts \in Seq(ENodes(g))
      <4>1. <<n>> \in Seq(ENodes(g)) /\ ts \in Seq(ENodes(g))
        BY <3>1, <3>4
      <4> QED
        BY <4>1
    <3> QED
      BY <3>1, <3>3, <3>6, <3>7 DEF TreeSet
  <2>4. rest \in SUBSET TreeSet(g)
    <3> HIDE DEF tops
    <3> QED
      BY <2>3
  <2> QED
    BY <2>1, <2>2, <2>4
<1> QED
  BY <1>1 DEF Heighten

\* Of more known trees no fewer are made.
LEMMA HeightenGrows ==
  ASSUME NEW g, Typed(g), NEW lim, NEW few \in SUBSET TreeSet(g), NEW many \in SUBSET TreeSet(g),
         few \subseteq many
  PROVE  Heighten(g, lim)[few] \subseteq Heighten(g, lim)[many]
<1>1. ASSUME NEW w \in Higher(g, lim, few) PROVE w \in Higher(g, lim, many)
  <2>1. w \in TreeSet(g)
    BY HeightenIsTyped DEF Heighten
  <2>2. PICK c \in Classes(g), b \in Buffers, t \in Seq(ENodes(g)) : w = <<c, b, t>>
    BY <2>1 DEF TreeSet
  <2>3. IsHigher(g, lim, few, c, b, t)
    BY <2>2, HigherTrees
  <2>4. CASE c \in g.inputs /\ b = HBM /\ t = << <<c, 1>> >>
    <3>1. IsHigher(g, lim, many, c, b, t)
      BY <2>4 DEF IsHigher
    <3> QED
      BY <2>2, <3>1, HigherTrees
  <2>5. CASE ~(c \in g.inputs /\ b = HBM /\ t = << <<c, 1>> >>)
    <3>1. /\ ~IsInput(g, c, b) /\ Len(t) <= lim
          /\ \E i \in DOMAIN g.nodes[c] :
               /\ Supports(g.nodes[c][i], b)
               /\ \E ts \in Combinations(KnownOperands(g, <<c, i>>, b, few)) :
                    t = << <<c, i>> >> \o ts
      BY <2>3, <2>5 DEF IsHigher
    <3>2. PICK i \in DOMAIN g.nodes[c] :
            /\ Supports(g.nodes[c][i], b)
            /\ \E ts \in Combinations(KnownOperands(g, <<c, i>>, b, few)) : t = << <<c, i>> >> \o ts
      BY <3>1
    <3> DEFINE n == <<c, i>>
    <3>3. n \in ENodes(g) /\ At(g, n) = g.nodes[c][i]
      BY DEF ENodes, At
    <3>4. Supports(At(g, n), b)
      BY <3>2, <3>3
    <3> HIDE DEF n
    <3> DEFINE f == KnownOperands(g, n, b, few)
               m == KnownOperands(g, n, b, many)
    <3>5. /\ f \in Seq(SUBSET Seq(ENodes(g))) /\ Len(f) = Len(At(g, n).kids)
          /\ \A k \in 1 .. Len(At(g, n).kids) :
               /\ At(g, n).kids[k] \in Classes(g) /\ ReadsFrom(At(g, n), k, b) \in Buffers
               /\ f[k] = TreesOf(few, At(g, n).kids[k], ReadsFrom(At(g, n), k, b))
      BY <3>3, <3>4, KnownOperandsFacts
    <3>6. /\ m \in Seq(SUBSET Seq(ENodes(g))) /\ Len(m) = Len(At(g, n).kids)
          /\ \A k \in 1 .. Len(At(g, n).kids) :
               m[k] = TreesOf(many, At(g, n).kids[k], ReadsFrom(At(g, n), k, b))
      BY <3>3, <3>4, KnownOperandsFacts
    <3>7. ASSUME NEW k \in 1 .. Len(f) PROVE f[k] \subseteq m[k]
      <4> DEFINE x == At(g, n).kids[k]
                 y == ReadsFrom(At(g, n), k, b)
      <4>1. x \in Classes(g) /\ y \in Buffers /\ f[k] = TreesOf(few, x, y) /\
            m[k] = TreesOf(many, x, y)
        BY <3>5, <3>6
      <4> HIDE DEF x, y, f, m
      <4>2. \A u : u \in TreesOf(few, x, y) <=> <<x, y, u>> \in few
        BY <4>1, TreesOfKnown
      <4>3. \A u : u \in TreesOf(many, x, y) <=> <<x, y, u>> \in many
        BY <4>1, TreesOfKnown
      <4> QED
        BY <4>1, <4>2, <4>3
    <3> HIDE DEF f, m
    <3>8. Combinations(f) \subseteq Combinations(m)
      BY <3>5, <3>6, <3>7, CombinationsGrow
    <3>9. \E ts \in Combinations(m) : t = << n >> \o ts
      BY <3>2, <3>8 DEF f, n
    <3>10. IsHigher(g, lim, many, c, b, t)
      BY <3>1, <3>2, <3>9 DEF IsHigher, m, n
    <3> QED
      BY <2>2, <3>10, HigherTrees
  <2> QED
    BY <2>4, <2>5
<1> QED
  BY <1>1 DEF Heighten

\* r[k] are the trees of a height of at most k.
IsHeights(r, g, lim) ==
  /\ r \in [0 .. lim -> SUBSET TreeSet(g)]
  /\ IsRounds(r, lim, {}, Heighten(g, lim))

LEMMA AllTreesInRounds ==
  ASSUME NEW g, Typed(g), NEW lim \in Nat
  PROVE  \E r :
           /\ IsHeights(r, g, lim)
           /\ AllTrees(g, lim) = IF lim = 0 THEN {} ELSE TreesOf(r[lim], g.root, HBM)
<1> DEFINE P == TreeSet(g)
           F == Heighten(g, lim)
           Body(r) == [k \in 0 .. lim |-> IF k = 0 THEN {} ELSE Higher(g, lim, r[k - 1])]
           r == CHOOSE r : r = Body(r)
<1>1. F \in [SUBSET P -> SUBSET P]
  BY HeightenIsTyped
<1>2. \A H \in SUBSET P : F[H] = Higher(g, lim, H)
  BY DEF Heighten
<1>3. AllTrees(g, lim) = IF lim = 0 THEN {} ELSE TreesOf(r[lim], g.root, HBM)
  BY Zenon DEF AllTrees
<1> HIDE DEF F, P
<1>4. \A k \in 0 .. lim : k # 0 => k - 1 \in 0 .. lim
  OBVIOUS
<1>5. \E q : q = Body(q)
  <2>1. PICK q \in [0 .. lim -> SUBSET P] : IsRounds(q, lim, {}, F)
    BY <1>1, RoundsExist
  <2>2. \A k \in 0 .. lim : k # 0 => q[k - 1] \in SUBSET P
    BY <1>4
  <2>3. q = [k \in 0 .. lim |-> IF k = 0 THEN {} ELSE F[q[k - 1]]]
    BY <2>1 DEF IsRounds
  <2>4. \A k \in 0 .. lim : (IF k = 0 THEN {} ELSE F[q[k - 1]]) = Body(q)[k]
    BY <1>2, <2>2
  <2>5. q = Body(q)
    BY <2>3, <2>4
  <2> QED
    BY <2>5
<1>6. r = Body(r)
  <2> HIDE DEF Body
  <2> QED
    BY <1>5
<1> HIDE DEF r
<1>7. \A k \in 0 .. lim : r[k] = IF k = 0 THEN {} ELSE Higher(g, lim, r[k - 1])
  BY <1>6
<1>8. r = [k \in 0 .. lim |-> r[k]]
  BY <1>6
<1>9. r[0] = {}
  <2>1. 0 \in 0 .. lim
    OBVIOUS
  <2> QED
    BY <1>7, <2>1
<1>10. \A k \in 1 .. lim : r[k - 1] \in SUBSET P => r[k] = F[r[k - 1]]
  <2>1. \A k \in 1 .. lim : k \in 0 .. lim /\ k # 0
    OBVIOUS
  <2> QED
    BY <1>2, <1>7, <2>1
<1>11. r \in [0 .. lim -> SUBSET P] /\ IsRounds(r, lim, {}, F)
  BY <1>1, <1>8, <1>9, <1>10, RoundsAreTyped
<1> QED
  BY <1>3, <1>11 DEF IsHeights, F, P

LEMMA HeightsGrow ==
  ASSUME NEW g, Typed(g), NEW lim \in Nat, NEW r, IsHeights(r, g, lim),
         NEW j \in 0 .. lim, NEW k \in j .. lim
  PROVE  r[j] \subseteq r[k]
<1> DEFINE F == Heighten(g, lim)
           P == TreeSet(g)
<1>1. F \in [SUBSET P -> SUBSET P]
  BY HeightenIsTyped
<1>2. Grows(F, P)
  BY HeightenGrows DEF Grows
<1>3. r \in [0 .. lim -> SUBSET P] /\ IsRounds(r, lim, {}, F)
  BY DEF IsHeights
<1> HIDE DEF F, P
<1> QED
  BY <1>1, <1>2, <1>3, RoundsGrow

LEMMA HeightsInRounds ==
  ASSUME NEW g, NEW lim \in Nat, NEW r, IsHeights(r, g, lim), NEW k \in 0 .. lim
  PROVE  /\ r[k] \in SUBSET TreeSet(g)
         /\ k = 0 => r[k] = {}
         /\ k # 0 => k - 1 \in 0 .. lim /\ r[k] = Higher(g, lim, r[k - 1])
<1>1. \A m \in 0 .. lim : r[m] \in SUBSET TreeSet(g)
  BY DEF IsHeights
<1>2. k # 0 => k - 1 \in 0 .. lim
  OBVIOUS
<1>3. r[k] = IF k = 0 THEN {} ELSE Heighten(g, lim)[r[k - 1]]
  BY DEF IsHeights, IsRounds
<1> QED
  BY <1>1, <1>2, <1>3 DEF Heighten

\* A tree that is found is one of all trees.
LEMMA FoundIsKnown ==
  ASSUME NEW g, Typed(g), NEW lim \in Nat,
         NEW of, IsGrown(of, g, lim), NEW r, IsHeights(r, g, lim),
         NEW n \in 0 .. lim, NEW c \in Classes(g), NEW b \in Buffers
  PROVE  \A t \in of[n][<<c, b>>] : <<c, b, t>> \in r[n]
<1> DEFINE Fine(m) == \A x \in Classes(g), y \in Buffers : \A t \in of[m][<<x, y>>] :
             <<x, y, t>> \in r[m]
           Bad == {m \in 0 .. lim : ~Fine(m)}
<1>1. \A j \in 0 .. lim : \A k \in j .. lim : r[j] \subseteq r[k]
  BY HeightsGrow
<1>2. SUFFICES ASSUME Bad # {} PROVE FALSE
  OBVIOUS
<1>3. Bad \in SUBSET Nat
  OBVIOUS
<1> HIDE DEF Bad
<1>4. PICK m \in Bad : \A l \in Bad : m <= l
  BY <1>2, <1>3, LeastElement
<1> USE DEF Bad
<1>5. m \in 0 .. lim /\ ~Fine(m)
  OBVIOUS
<1>6. PICK x \in Classes(g), y \in Buffers : \E t \in of[m][<<x, y>>] : <<x, y, t>> \notin r[m]
  BY <1>5
<1> HIDE DEF Bad, Fine
<1>7. PICK t \in of[m][<<x, y>>] : <<x, y, t>> \notin r[m]
  BY <1>6
<1>8. IsDelivered(of, g, m, x, y, t)
  <2>1. of[m][<<x, y>>] = Deliver(of, g, m, x, y)
    BY <1>5, GrownTrees
  <2>2. t \in Deliver(of, g, m, x, y) /\ m \in Nat
    BY <1>5, <1>7, <2>1
  <2> QED
    BY <2>2, DeliveredTrees
<1>9. m \in 1 .. lim /\ m - 1 \in 0 .. lim
  BY <1>5, <1>8 DEF IsDelivered
<1>10. r[m - 1] \in SUBSET TreeSet(g) /\ r[m] = Higher(g, lim, r[m - 1])
  <2>1. m \in 0 .. lim /\ m # 0
    BY <1>5, <1>9
  <2> QED
    BY <1>9, <2>1, HeightsInRounds
<1>11. IsHigher(g, lim, r[m - 1], x, y, t)
  <2>1. CASE IsInput(g, x, y)
    BY <1>8, <2>1 DEF IsDelivered, IsHigher, IsInput
  <2>2. CASE ~IsInput(g, x, y)
    <3>1. PICK i \in DOMAIN g.nodes[x] : IsTop(of, g, m, x, i, y, t)
      BY <1>8, <2>2 DEF IsDelivered
    <3> DEFINE en == g.nodes[x][i]
               u == Under(of, g, m, x, i, y)
               q == KnownOperands(g, <<x, i>>, y, r[m - 1])
    <3>2. Supports(en, y) /\ m >= Len(en.kids) /\ Len(t) <= m
      BY <3>1 DEF IsTop
    <3>3. PICK ts \in Combinations(u) : t = << <<x, i>> >> \o ts
      BY <3>1 DEF IsTop
    <3>4. /\ en.kids \in Seq(Classes(g))
          /\ u \in Seq(SUBSET Seq(ENodes(g))) /\ Len(u) = Len(en.kids)
          /\ \A k \in DOMAIN en.kids :
               /\ en.kids[k] \in Classes(g) /\ ReadsFrom(en, k, y) \in Buffers
               /\ ChildLimit(en, m) \in 0 .. m - 1
               /\ u[k] = of[ChildLimit(en, m)][<<en.kids[k], ReadsFrom(en, k, y)>>]
      <4>1. Supports(g.nodes[x][i], y) /\ m >= Len(g.nodes[x][i].kids) /\ m \in 0 .. lim
        BY <1>5, <3>2
      <4>3. KnownBefore(of, g, m, x, i, y)
        BY <4>1, UnderIsKnown
      <4> QED
        BY <4>3 DEF KnownBefore
    <3>5. /\ q \in Seq(SUBSET Seq(ENodes(g))) /\ Len(q) = Len(en.kids)
          /\ \A k \in 1 .. Len(en.kids) : q[k] = TreesOf(r[m - 1], en.kids[k], ReadsFrom(en, k, y))
      <4> DEFINE n2 == <<x, i>>
                 known == r[m - 1]
      <4>1. n2 \in ENodes(g) /\ At(g, n2) = en
        BY DEF ENodes, At
      <4>2. Supports(At(g, n2), y)
        BY <3>2, <4>1
      <4>3. known \in SUBSET TreeSet(g)
        BY <1>10
      <4> HIDE DEF n2, en, known
      <4>4. /\ KnownOperands(g, n2, y, known) \in Seq(SUBSET Seq(ENodes(g)))
            /\ Len(KnownOperands(g, n2, y, known)) = Len(At(g, n2).kids)
            /\ \A k \in 1 .. Len(At(g, n2).kids) :
                 KnownOperands(g, n2, y, known)[k] =
                   TreesOf(known, At(g, n2).kids[k], ReadsFrom(At(g, n2), k, y))
        BY <4>1, <4>2, <4>3, KnownOperandsFacts
      <4> QED
        BY <4>1, <4>4 DEF n2, known
    <3>6. ASSUME NEW k \in 1 .. Len(u) PROVE u[k] \subseteq q[k]
      <4> DEFINE z == en.kids[k]
                 v == ReadsFrom(en, k, y)
                 l == ChildLimit(en, m)
      <4>1. k \in DOMAIN en.kids /\ k \in 1 .. Len(en.kids)
        BY <3>4
      <4>2. z \in Classes(g) /\ v \in Buffers /\ l \in 0 .. m - 1 /\ u[k] = of[l][<<z, v>>] /\
            q[k] = TreesOf(r[m - 1], z, v)
        BY <3>4, <3>5, <4>1
      <4> HIDE DEF z, v, l, u, q
      <4>3. l \in 0 .. lim /\ ~(m <= l) /\ m - 1 \in l .. lim
        BY <1>5, <4>2
      <4>4. Fine(l)
        BY <1>4, <4>3 DEF Bad
      <4>5. r[l] \subseteq r[m - 1]
        BY <1>1, <4>3
      <4>6. \A w \in of[l][<<z, v>>] : <<z, v, w>> \in r[m - 1]
        BY <4>2, <4>4, <4>5 DEF Fine
      <4>7. \A w : w \in TreesOf(r[m - 1], z, v) <=> <<z, v, w>> \in r[m - 1]
        BY <1>10, <4>2, TreesOfKnown
      <4> QED
        BY <4>2, <4>6, <4>7
    <3> HIDE DEF u, q
    <3>7. Combinations(u) \subseteq Combinations(q)
      BY <3>4, <3>5, <3>6, CombinationsGrow
    <3>8. Len(t) <= lim
      <4>1. Len(t) \in Nat
        <5>1. t \in Seq(ENodes(g))
          <6>1. of[m][<<x, y>>] \in SUBSET Seq(ENodes(g))
            BY <1>5, GrownTrees
          <6> QED
            BY <1>7, <6>1
        <5> QED
          BY <5>1
      <4> QED
        BY <1>5, <3>2, <4>1
    <3>9. \E us \in Combinations(q) : t = << <<x, i>> >> \o us
      BY <3>3, <3>7
    <3> QED
      BY <2>2, <3>2, <3>8, <3>9 DEF IsHigher, q
  <2> QED
    BY <2>1, <2>2
<1> QED
  BY <1>7, <1>10, <1>11, HigherTrees

-----------------------------------------------------------------------------
(* Both are the same trees.                                                *)

\* A known tree has an e-node at least, and no more than the limit.
LEMMA KnownTrees ==
  ASSUME NEW g, Typed(g), NEW lim \in Nat, NEW r, IsHeights(r, g, lim), NEW k \in 0 .. lim,
         NEW c \in Classes(g), NEW b \in Buffers, NEW t, <<c, b, t>> \in r[k]
  PROVE  /\ k # 0 /\ k - 1 \in 0 .. lim /\ IsHigher(g, lim, r[k - 1], c, b, t)
         /\ t \in Seq(ENodes(g)) /\ t # <<>> /\ Len(t) \in 1 .. lim
<1>1. k # 0 /\ k - 1 \in 0 .. lim /\ r[k] = Higher(g, lim, r[k - 1])
  BY HeightsInRounds
<1>2. IsHigher(g, lim, r[k - 1], c, b, t)
  BY <1>1, HigherTrees
<1>3. t \in Seq(ENodes(g))
  <2> DEFINE w == <<c, b, t>>
  <2>1. w \in TreeSet(g) /\ w[3] = t
    <3>1. r[k] \in SUBSET TreeSet(g)
      BY HeightsInRounds
    <3> QED
      BY <3>1
  <2> HIDE DEF w
  <2> QED
    BY <2>1 DEF TreeSet
<1>4. CASE c \in g.inputs /\ b = HBM /\ t = << <<c, 1>> >>
  <2>1. Len(t) = 1 /\ t # <<>>
    BY <1>4
  <2> QED
    BY <1>1, <1>2, <1>3, <2>1
<1>5. CASE ~(c \in g.inputs /\ b = HBM /\ t = << <<c, 1>> >>)
  <2>1. Len(t) <= lim /\ \E i \in DOMAIN g.nodes[c] :
          /\ Supports(g.nodes[c][i], b)
          /\ \E ts \in Combinations(KnownOperands(g, <<c, i>>, b, r[k - 1])) :
               t = << <<c, i>> >> \o ts
    BY <1>2, <1>5 DEF IsHigher
  <2>2. PICK i \in DOMAIN g.nodes[c] :
          /\ Supports(g.nodes[c][i], b)
          /\ \E ts \in Combinations(KnownOperands(g, <<c, i>>, b, r[k - 1])) :
               t = << <<c, i>> >> \o ts
    BY <2>1
  <2> DEFINE n == <<c, i>>
             known == r[k - 1]
             s == KnownOperands(g, n, b, known)
  <2>3. n \in ENodes(g) /\ At(g, n) = g.nodes[c][i]
    BY DEF ENodes, At
  <2>4. known \in SUBSET TreeSet(g) /\ Supports(At(g, n), b)
    BY <1>1, <2>2, <2>3, HeightsInRounds
  <2>5. PICK ts \in Combinations(s) : t = <<n>> \o ts
    BY <2>2
  <2> HIDE DEF n, known, s
  <2>6. s \in Seq(SUBSET Seq(ENodes(g)))
    BY <2>3, <2>4, KnownOperandsFacts DEF s
  <2>7. ts \in Seq(ENodes(g))
    BY <2>6, CombinationsOfSequences
  <2>8. Len(t) = 1 + Len(ts) /\ Len(ts) \in Nat
    BY <2>3, <2>5, <2>7
  <2>9. t # <<>>
    BY <1>3, <2>8
  <2> QED
    BY <1>1, <1>2, <1>3, <2>1, <2>8, <2>9
<1> QED
  BY <1>4, <1>5

\* A known tree of at most n e-nodes is found with n.
LEMMA KnownIsFound ==
  ASSUME NEW g, Typed(g), NEW lim \in Nat,
         NEW of, IsGrown(of, g, lim), NEW r, IsHeights(r, g, lim),
         NEW k \in 0 .. lim, NEW c \in Classes(g), NEW b \in Buffers, NEW t,
         <<c, b, t>> \in r[k], NEW n \in 0 .. lim, Len(t) <= n
  PROVE  t \in of[n][<<c, b>>]
<1> DEFINE Fine(j) == \A x \in Classes(g), y \in Buffers : \A u : \A m \in 0 .. lim :
                        <<x, y, u>> \in r[j] /\ Len(u) <= m => u \in of[m][<<x, y>>]
           Bad == {j \in 0 .. lim : ~Fine(j)}
<1>1. SUFFICES ASSUME Bad # {} PROVE FALSE
  OBVIOUS
<1>2. Bad \in SUBSET Nat
  OBVIOUS
<1> HIDE DEF Bad
<1>3. PICK j \in Bad : \A l \in Bad : j <= l
  BY <1>1, <1>2, LeastElement
<1>4. j \in 0 .. lim /\ ~Fine(j)
  BY DEF Bad
<1>5. \A l \in 0 .. lim : l < j => Fine(l)
  BY <1>3, <1>4 DEF Bad
<1>6. PICK x \in Classes(g), y \in Buffers :
        \E u : \E m \in 0 .. lim : <<x, y, u>> \in r[j] /\ Len(u) <= m /\ u \notin of[m][<<x, y>>]
  BY <1>4
<1>7. PICK u : \E m \in 0 .. lim : <<x, y, u>> \in r[j] /\ Len(u) <= m /\ u \notin of[m][<<x, y>>]
  BY <1>6
<1>8. PICK m \in 0 .. lim : <<x, y, u>> \in r[j] /\ Len(u) <= m /\ u \notin of[m][<<x, y>>]
  BY <1>7
<1> HIDE DEF Fine
<1>9. /\ j # 0 /\ j - 1 \in 0 .. lim /\ IsHigher(g, lim, r[j - 1], x, y, u)
      /\ u \in Seq(ENodes(g)) /\ u # <<>> /\ Len(u) \in 1 .. lim
  BY <1>4, <1>8, KnownTrees
<1>10. m # 0 /\ m \in Nat
  BY <1>8, <1>9
<1>11. ~IsDelivered(of, g, m, x, y, u)
  BY <1>8, <1>10, GrownTrees, DeliveredTrees
<1>12. ~IsInput(g, x, y)
  BY <1>9, <1>10, <1>11 DEF IsDelivered, IsHigher, IsInput
<1>13. \E i \in DOMAIN g.nodes[x] :
         /\ Supports(g.nodes[x][i], y)
         /\ \E ts \in Combinations(KnownOperands(g, <<x, i>>, y, r[j - 1])) :
              u = << <<x, i>> >> \o ts
  BY <1>9, <1>12 DEF IsHigher, IsInput
<1>14. PICK i \in DOMAIN g.nodes[x] :
         /\ Supports(g.nodes[x][i], y)
         /\ \E ts \in Combinations(KnownOperands(g, <<x, i>>, y, r[j - 1])) :
              u = << <<x, i>> >> \o ts
  BY <1>13
<1> DEFINE n1 == <<x, i>>
           known == r[j - 1]
           s == KnownOperands(g, n1, y, known)
           en == g.nodes[x][i]
           below == Under(of, g, m, x, i, y)
<1>15. n1 \in ENodes(g) /\ At(g, n1) = en
  BY DEF ENodes, At
<1>16. known \in SUBSET TreeSet(g) /\ Supports(At(g, n1), y)
  BY <1>9, <1>14, <1>15, HeightsInRounds
<1>17. PICK ts \in Combinations(s) : u = <<n1>> \o ts
  BY <1>14
<1> HIDE DEF n1, known, s, en, below
<1>18. /\ en.kids \in Seq(Classes(g))
       /\ s \in Seq(SUBSET Seq(ENodes(g))) /\ Len(s) = Len(en.kids)
       /\ \A k2 \in 1 .. Len(en.kids) :
            /\ en.kids[k2] \in Classes(g) /\ ReadsFrom(en, k2, y) \in Buffers
            /\ s[k2] = TreesOf(known, en.kids[k2], ReadsFrom(en, k2, y))
  BY <1>15, <1>16, KnownOperandsFacts DEF s
<1>19. ts \in Seq(ENodes(g))
  BY <1>18, CombinationsOfSequences
<1>20. Len(u) = 1 + Len(ts) /\ Len(ts) \in Nat /\ Len(en.kids) \in Nat /\ Len(u) \in Nat
  BY <1>15, <1>17, <1>18, <1>19
<1>21. \A k2 \in 1 .. Len(en.kids) : \A v :
         v \in s[k2] <=> <<en.kids[k2], ReadsFrom(en, k2, y), v>> \in known
  BY <1>16, <1>18, TreesOfKnown
<1>22. \A k2 \in 1 .. Len(s) : <<>> \notin s[k2]
  <2> SUFFICES ASSUME NEW k2 \in 1 .. Len(s), <<>> \in s[k2] PROVE FALSE
    OBVIOUS
  <2>1. /\ en.kids[k2] \in Classes(g) /\ ReadsFrom(en, k2, y) \in Buffers
        /\ <<en.kids[k2], ReadsFrom(en, k2, y), <<>> >> \in r[j - 1]
    BY <1>18, <1>21 DEF known
  <2> QED
    BY <1>9, <2>1, KnownTrees
<1> DEFINE max == m - Len(en.kids)
<1>23. max \in Int /\ Len(ts) - Len(s) + 1 <= max
  BY <1>8, <1>10, <1>18, <1>20
<1> HIDE DEF max
<1>24. /\ Len(ts) >= Len(s) /\ Within(s, max) \in Seq(SUBSET Seq(ENodes(g)))
       /\ ts \in Combinations(Within(s, max))
  BY <1>17, <1>18, <1>22, <1>23, CombinationsWithin
<1>25. m >= Len(en.kids) /\ max \in 0 .. lim
  BY <1>8, <1>10, <1>18, <1>20, <1>24, SMTT(30) DEF max
<1>26. KnownBefore(of, g, m, x, i, y)
  BY <1>8, <1>14, <1>25, UnderIsKnown DEF en
<1>27. /\ below \in Seq(SUBSET Seq(ENodes(g))) /\ Len(below) = Len(en.kids)
       /\ \A k2 \in 1 .. Len(en.kids) : below[k2] = of[max][<<en.kids[k2], ReadsFrom(en, k2, y)>>]
  <2>1. DOMAIN en.kids = 1 .. Len(en.kids)
    BY <1>18
  <2> QED
    BY <1>26, <2>1 DEF KnownBefore, below, en, max, ChildLimit
<1>28. Len(Within(s, max)) = Len(s) /\ \A k2 \in 1 .. Len(s) :
         Within(s, max)[k2] = {v \in s[k2] : Len(v) <= max}
  BY <1>18 DEF Within
<1>29. \A k2 \in 1 .. Len(Within(s, max)) : Within(s, max)[k2] \subseteq below[k2]
  <2> SUFFICES ASSUME NEW k2 \in 1 .. Len(s), NEW v \in s[k2], Len(v) <= max PROVE v \in below[k2]
    BY <1>28
  <2>1. /\ k2 \in 1 .. Len(en.kids) /\ en.kids[k2] \in Classes(g) /\
           ReadsFrom(en, k2, y) \in Buffers
        /\ <<en.kids[k2], ReadsFrom(en, k2, y), v>> \in r[j - 1]
    BY <1>18, <1>21 DEF known
  <2>2. Fine(j - 1)
    BY <1>4, <1>5, <1>9
  <2>3. v \in of[max][<<en.kids[k2], ReadsFrom(en, k2, y)>>]
    BY <1>25, <2>1, <2>2 DEF Fine
  <2> QED
    BY <1>27, <2>1, <2>3
<1>30. ts \in Combinations(below)
  <2>1. Len(Within(s, max)) = Len(below)
    BY <1>18, <1>27, <1>28
  <2> QED
    BY <1>24, <1>27, <1>29, <2>1, CombinationsGrow
<1>31. IsTop(of, g, m, x, i, y, u)
  BY <1>8, <1>14, <1>17, <1>25, <1>30 DEF IsTop, n1, en, below
<1> QED
  BY <1>10, <1>11, <1>12, <1>31 DEF IsDelivered

LEMMA TreesAreAll ==
  ASSUME NEW g, Typed(g), NEW lim \in Nat
  PROVE  Trees(g, lim) = AllTrees(g, lim)
<1>1. PICK of : IsGrown(of, g, lim) /\ Trees(g, lim) = of[lim][<<g.root, HBM>>]
  BY TreesInSteps
<1>2. PICK r : /\ IsHeights(r, g, lim)
               /\ AllTrees(g, lim) = IF lim = 0 THEN {} ELSE TreesOf(r[lim], g.root, HBM)
  BY AllTreesInRounds
<1>3. g.root \in Classes(g) /\ HBM \in Buffers /\ lim \in 0 .. lim
  BY DEF Typed, Buffers
<1>4. of[lim][<<g.root, HBM>>] = Deliver(of, g, lim, g.root, HBM)
  BY <1>1, <1>3, GrownTrees
<1>5. CASE lim = 0
  <2>1. Deliver(of, g, lim, g.root, HBM) = {}
    BY <1>5 DEF Deliver
  <2> QED
    BY <1>1, <1>2, <1>4, <1>5, <2>1
<1>6. CASE lim # 0
  <2>1. r[lim] \in SUBSET TreeSet(g)
    BY <1>2, <1>3, HeightsInRounds
  <2>2. \A t : t \in AllTrees(g, lim) <=> <<g.root, HBM, t>> \in r[lim]
    BY <1>2, <1>3, <1>6, <2>1, TreesOfKnown
  <2>3. \A t \in of[lim][<<g.root, HBM>>] : <<g.root, HBM, t>> \in r[lim]
    BY <1>1, <1>2, <1>3, FoundIsKnown
  <2>4. ASSUME NEW t, <<g.root, HBM, t>> \in r[lim] PROVE t \in of[lim][<<g.root, HBM>>]
    <3>1. Len(t) \in 1 .. lim
      BY <1>2, <1>3, <2>4, KnownTrees
    <3>2. Len(t) <= lim
      BY <3>1
    <3> QED
      BY <1>1, <1>2, <1>3, <2>4, <3>2, KnownIsFound
  <2> QED
    BY <1>1, <2>2, <2>3, <2>4
<1> QED
  BY <1>5, <1>6

-----------------------------------------------------------------------------
(* Annotated e-graphs.                                                     *)

\* An e-node without operands delivers its result in one buffer, an input in
\* HBM.
Placed(g) ==
  /\ \A c \in Classes(g) : \A i \in DOMAIN g.nodes[c] : \A b \in Buffers :
       Supports(g.nodes[c][i], b) /\ Len(g.nodes[c][i].kids) = 0 => g.nodes[c][i].bufs[1] = b
  /\ \A c \in g.inputs : Len(g.nodes[c][1].kids) = 0 /\ Supports(g.nodes[c][1], HBM)

LEMMA ValidENodes ==
  ASSUME NEW g \in Graphs, NEW c \in Classes(g), NEW i \in DOMAIN g.nodes[c]
  PROVE  LET en == g.nodes[c][i] IN
         /\ en \in ENodeSet(g)
         /\ en.kind # "detected"
         /\ en.kind = "op"  => en.bufs = <<>>
         /\ en.kind = "var" => en.bufs = <<HBM>> /\ en.kids = <<>>
         /\ en.kind = "isa" => en.bufs \in Seq(Buffers)
         /\ en.kind = "any" => en.kids # <<>>
<1>1. <<c, i>> \in ENodes(g) /\ At(g, <<c, i>>) = g.nodes[c][i]
  BY DEF ENodes, At
<1>2. ENodesOK(g)
  BY GraphAssumption DEF ValidGraph
<1>3. g.nodes[c][i] \in ENodeSet(g)
  BY ValidClasses
<1> QED
  BY <1>1, <1>2, <1>3 DEF ENodesOK

LEMMA AnnotatedIsPlaced ==
  ASSUME NEW g \in Graphs, NEW consts
  PROVE  Placed(Annotated(g, consts))
<1> DEFINE h == Annotated(g, consts)
<1>1. /\ h.inputs = g.inputs /\ Classes(h) = Classes(g)
      /\ \A c \in Classes(g) :
           h.nodes[c] = IF c \in consts THEN Append(g.nodes[c], DetectedConst) ELSE g.nodes[c]
  BY DEF Annotated, Classes
<1>2. ASSUME NEW c \in Classes(g), NEW i \in DOMAIN h.nodes[c]
      PROVE  \/ i \in DOMAIN g.nodes[c] /\ h.nodes[c][i] = g.nodes[c][i]
             \/ h.nodes[c][i] = DetectedConst
  <2>1. g.nodes[c] \in Seq(ENodeSet(g))
    BY ValidClasses
  <2>2. h.nodes[c] = IF c \in consts THEN Append(g.nodes[c], DetectedConst) ELSE g.nodes[c]
    BY <1>1
  <2> DEFINE s == g.nodes[c]
             S == ENodeSet(g)
             hs == h.nodes[c]
  <2>3. s \in Seq(S) /\ (hs = s \/ hs = Append(s, DetectedConst)) /\ i \in DOMAIN hs
    BY <2>1, <2>2
  <2> HIDE DEF s, S, hs
  <2>4. (i \in DOMAIN s /\ hs[i] = s[i]) \/ hs[i] = DetectedConst
    BY <2>3
  <2> QED
    BY <2>4 DEF s, hs
<1> HIDE DEF h
<1>3. ASSUME NEW c \in Classes(g), NEW i \in DOMAIN h.nodes[c], NEW b \in Buffers,
             Supports(h.nodes[c][i], b), Len(h.nodes[c][i].kids) = 0
      PROVE  h.nodes[c][i].bufs[1] = b
  <2> DEFINE en == h.nodes[c][i]
  <2>1. en.bufs # <<>> /\ en.bufs[1] \in {ANY, b}
    BY <1>3 DEF Supports
  <2>2. CASE h.nodes[c][i] = DetectedConst
    BY <2>1, <2>2, GraphAssumption DEF DetectedConst, ENode, ANY, HBM
  <2>3. CASE i \in DOMAIN g.nodes[c] /\ h.nodes[c][i] = g.nodes[c][i]
    <3>1. /\ en \in ENodeSet(g)
          /\ en.kind # "detected"
          /\ en.kind = "op"  => en.bufs = <<>>
          /\ en.kind = "var" => en.bufs = <<HBM>> /\ en.kids = <<>>
          /\ en.kind = "isa" => en.bufs \in Seq(Buffers)
          /\ en.kind = "any" => en.kids # <<>>
      BY <2>3, ValidENodes
    <3>2. en.kids \in Seq(Classes(g)) /\ en.kind \in Kinds
      BY <3>1 DEF ENodeSet
    <3>3. en.kids = <<>>
      BY <1>3, <3>2
    <3> HIDE DEF en
    <3>4. en.kind \in {"var", "isa"}
      BY <2>1, <3>1, <3>2, <3>3 DEF Kinds
    <3>5. ANY \notin Buffers
      BY GraphAssumption DEF ANY, HBM, Buffers
    <3>6. en.bufs[1] # ANY
      <4>1. CASE en.kind = "isa"
        BY <2>1, <3>1, <3>5, <4>1
      <4>2. CASE en.kind = "var"
        BY <3>1, <4>2 DEF ANY, HBM
      <4> QED
        BY <3>4, <4>1, <4>2
    <3> QED
      BY <2>1, <3>6 DEF en
  <2> QED
    BY <1>2, <2>2, <2>3
<1>4. ASSUME NEW c \in g.inputs
      PROVE  Len(h.nodes[c][1].kids) = 0 /\ Supports(h.nodes[c][1], HBM)
  <2>1. c \in Classes(g) /\ Len(g.nodes[c]) = 1 /\ \E i \in DOMAIN g.nodes[c] :
          g.nodes[c][i].kind = "var"
    BY GraphAssumption DEF ValidGraph
  <2>2. g.nodes[c] \in Seq(ENodeSet(g))
    BY <2>1, ValidClasses
  <2>3. 1 \in DOMAIN g.nodes[c] /\ g.nodes[c][1].kind = "var"
    BY <2>1, <2>2
  <2>4. g.nodes[c][1].bufs = <<HBM>> /\ g.nodes[c][1].kids = <<>>
    BY <2>1, <2>3, ValidENodes
  <2>5. h.nodes[c][1] = g.nodes[c][1]
    <3>1. h.nodes[c] = IF c \in consts THEN Append(g.nodes[c], DetectedConst) ELSE g.nodes[c]
      BY <1>1, <2>1
    <3> DEFINE s == g.nodes[c]
               S == ENodeSet(g)
               hs == h.nodes[c]
    <3>2. s \in Seq(S) /\ (hs = s \/ hs = Append(s, DetectedConst)) /\ 1 \in DOMAIN s
      BY <2>2, <2>3, <3>1
    <3> HIDE DEF s, S, hs
    <3>3. hs[1] = s[1]
      BY <3>2
    <3> QED
      BY <3>3 DEF s, hs
  <2> DEFINE en == g.nodes[c][1]
  <2>6. Len(en.kids) = 0 /\ en.bufs # <<>> /\ en.bufs[1] = HBM
    BY <2>4
  <2> HIDE DEF en
  <2>7. Len(en.kids) = 0 /\ Supports(en, HBM)
    BY <2>6 DEF Supports
  <2> QED
    BY <2>5, <2>7 DEF en
<1>5. Placed(h)
  BY <1>1, <1>3, <1>4 DEF Placed
<1> QED
  BY <1>5 DEF h

-----------------------------------------------------------------------------
(* The shape of a tree.                                                    *)

Arity(g, n) == Len(At(g, n).kids)

\* For each node of t, W has the end of what is under it, its children and the
\* buffer it delivers.  W suits the k-th operand of the i-th node.
KidOK(g, t, W, i, k) ==
  /\ W.kid[i][k] \in i + 1 .. W.end[i] - 1
  /\ k # 1 => W.kid[i][k] = W.end[W.kid[i][k - 1]]
  /\ t[W.kid[i][k]][1] = At(g, t[i]).kids[k]
  /\ W.buf[W.kid[i][k]] = ReadsFrom(At(g, t[i]), k, W.buf[i])

\* W suits the i-th node.
NodeOK(g, t, W, i) ==
  /\ W.buf[i] \in Buffers /\ Supports(At(g, t[i]), W.buf[i])
  /\ W.end[i] \in i + 1 .. Len(t) + 1
  /\ \A j \in i + 1 .. W.end[i] - 1 : W.end[j] <= W.end[i]
  /\ Arity(g, t[i]) = 0 => W.end[i] = i + 1
  /\ Arity(g, t[i]) # 0 => W.kid[i][1] = i + 1 /\ W.end[W.kid[i][Arity(g, t[i])]] = W.end[i]
  /\ \A k \in 1 .. Arity(g, t[i]) : KidOK(g, t, W, i, k)

IsShape(g, t, W) == t \in Seq(ENodes(g)) /\ \A i \in 1 .. Len(t) : NodeOK(g, t, W, i)

\* W is the shape of a tree that delivers c in b.
IsTree(g, c, b, t, W) ==
  /\ IsShape(g, t, W)
  /\ Len(t) # 0 /\ W.end[1] = Len(t) + 1 /\ W.buf[1] = b /\ t[1][1] = c

\* t and its shape are part of u and its shape, from a on.
Embeds(g, t, W, u, U, a) ==
  /\ a + Len(t) <= Len(u)
  /\ \A j \in 1 .. Len(t) :
       /\ u[a + j] = t[j] /\ U.end[a + j] = a + W.end[j] /\ U.buf[a + j] = W.buf[j]
       /\ \A k \in 1 .. Arity(g, t[j]) : U.kid[a + j][k] = a + W.kid[j][k]

LEMMA EmbeddedNode ==
  ASSUME NEW g, Typed(g), NEW t, NEW W, IsShape(g, t, W), NEW u \in Seq(ENodes(g)), NEW U,
         NEW a \in Nat,
         Embeds(g, t, W, u, U, a), NEW i \in 1 .. Len(t)
  PROVE  NodeOK(g, u, U, a + i)
<1>1. t \in Seq(ENodes(g)) /\ Len(t) \in Nat /\ Len(u) \in Nat /\ i \in Nat
  BY DEF IsShape
<1>2. NodeOK(g, t, W, i)
  BY DEF IsShape
<1>3. /\ a + Len(t) <= Len(u)
      /\ u[a + i] = t[i] /\ U.end[a + i] = a + W.end[i] /\ U.buf[a + i] = W.buf[i]
      /\ \A k \in 1 .. Arity(g, t[i]) : U.kid[a + i][k] = a + W.kid[i][k]
  BY DEF Embeds
<1>4. W.end[i] \in i + 1 .. Len(t) + 1
  BY <1>2 DEF NodeOK
<1> DEFINE e == W.end[i]
           E == U.end[a + i]
           L == Len(t)
           M == Len(u)
<1>13. /\ e \in i + 1 .. L + 1 /\ E = a + e /\ a + L <= M /\ L \in Nat /\ M \in Nat
       /\ i \in Nat /\ i \in 1 .. L /\ a \in Nat
  BY <1>1, <1>3, <1>4
<1>5. \A j \in i + 1 .. W.end[i] - 1 :
        j \in 1 .. Len(t) /\ W.end[j] \in Nat /\ U.end[a + j] = a + W.end[j]
  <2> SUFFICES ASSUME NEW j \in i + 1 .. W.end[i] - 1
               PROVE  j \in 1 .. Len(t) /\ W.end[j] \in Nat /\ U.end[a + j] = a + W.end[j]
    OBVIOUS
  <2>1. j \in 1 .. Len(t) /\ j \in Nat
    BY <1>1, <1>4
  <2>2. W.end[j] \in j + 1 .. Len(t) + 1
    BY <2>1 DEF IsShape, NodeOK
  <2> QED
    BY <2>1, <2>2 DEF Embeds
<1>6. ASSUME NEW j \in a + i + 1 .. U.end[a + i] - 1 PROVE U.end[j] <= U.end[a + i]
  <2> DEFINE m == j - a
  <2>1. m \in i + 1 .. W.end[i] - 1 /\ j = a + m
    <3>1. j \in a + i + 1 .. E - 1
      OBVIOUS
    <3> HIDE DEF e, E, L, M
    <3>2. m \in i + 1 .. e - 1 /\ j = a + m
      BY <1>13, <3>1
    <3> QED
      BY <3>2 DEF e
  <2>2. W.end[m] <= W.end[i]
    BY <1>2, <2>1 DEF NodeOK
  <2> HIDE DEF m
  <2>3. W.end[m] \in Nat /\ U.end[j] = a + W.end[m] /\ W.end[i] \in Nat
    BY <1>4, <1>5, <2>1
  <2> QED
    BY <1>3, <2>2, <2>3, SMTT(30)
<1>7. Arity(g, t[i]) \in Nat
  <2>1. At(g, t[i]).kids \in Seq(Classes(g))
    <3>1. t[i] \in ENodes(g)
      BY <1>1
    <3> QED
      BY <3>1 DEF Typed, ENodes, At
  <2> QED
    BY <2>1 DEF Arity
<1>8. ASSUME NEW k \in 1 .. Arity(g, t[i])
      PROVE  /\ W.kid[i][k] \in i + 1 .. W.end[i] - 1 /\ W.kid[i][k] \in 1 .. Len(t)
             /\ U.kid[a + i][k] = a + W.kid[i][k]
             /\ U.end[U.kid[a + i][k]] = a + W.end[W.kid[i][k]]
             /\ u[U.kid[a + i][k]] = t[W.kid[i][k]]
             /\ U.buf[U.kid[a + i][k]] = W.buf[W.kid[i][k]]
  <2>1. W.kid[i][k] \in i + 1 .. W.end[i] - 1
    BY <1>2 DEF NodeOK, KidOK
  <2>2. W.kid[i][k] \in 1 .. Len(t)
    BY <1>5, <2>1
  <2>3. U.kid[a + i][k] = a + W.kid[i][k]
    BY <1>3
  <2> QED
    BY <2>1, <2>2, <2>3 DEF Embeds
<1>9. ASSUME NEW k \in 1 .. Arity(g, t[i]) PROVE KidOK(g, u, U, a + i, k)
  <2>1. KidOK(g, t, W, i, k)
    BY <1>2 DEF NodeOK
  <2>2. U.kid[a + i][k] \in (a + i) + 1 .. U.end[a + i] - 1
    <3> DEFINE w == W.kid[i][k]
    <3>1. w \in i + 1 .. e - 1 /\ U.kid[a + i][k] = a + w
      BY <1>8
    <3> HIDE DEF e, E, L, M, w
    <3>3. w \in i + 1 .. e - 1 /\ e \in Nat /\ i \in Nat /\ a \in Nat /\ E = a + e
      BY <1>13, <3>1
    <3>2. a + w \in (a + i) + 1 .. E - 1
      BY <3>3
    <3> QED
      BY <3>1, <3>2 DEF E
  <2>3. k # 1 => U.kid[a + i][k] = U.end[U.kid[a + i][k - 1]]
    <3> SUFFICES ASSUME k # 1 PROVE U.kid[a + i][k] = U.end[U.kid[a + i][k - 1]]
      OBVIOUS
    <3>1. k - 1 \in 1 .. Arity(g, t[i])
      BY <1>7
    <3>2. U.end[U.kid[a + i][k - 1]] = a + W.end[W.kid[i][k - 1]]
      BY <1>8, <3>1
    <3> QED
      BY <1>8, <2>1, <3>2 DEF KidOK
  <2> QED
    BY <1>3, <1>8, <2>1, <2>2, <2>3 DEF KidOK
<1>10. U.end[a + i] \in (a + i) + 1 .. Len(u) + 1
  <2> HIDE DEF e, E, L, M
  <2>1. E \in (a + i) + 1 .. M + 1
    BY <1>13
  <2> QED
    BY <2>1 DEF E, M
<1>11. Arity(g, t[i]) = 0 => U.end[a + i] = (a + i) + 1
  <2> SUFFICES ASSUME Arity(g, t[i]) = 0 PROVE U.end[a + i] = (a + i) + 1
    OBVIOUS
  <2>1. e = i + 1
    BY <1>2 DEF NodeOK
  <2> HIDE DEF e, E, L, M
  <2>2. E = (a + i) + 1
    BY <1>13, <2>1
  <2> QED
    BY <2>2 DEF E
<1>12. Arity(g, t[i]) # 0 => /\ U.kid[a + i][1] = (a + i) + 1
                             /\ U.end[U.kid[a + i][Arity(g, t[i])]] = U.end[a + i]
  <2> SUFFICES ASSUME Arity(g, t[i]) # 0
               PROVE  /\ U.kid[a + i][1] = (a + i) + 1
                      /\ U.end[U.kid[a + i][Arity(g, t[i])]] = U.end[a + i]
    OBVIOUS
  <2>1. 1 \in 1 .. Arity(g, t[i]) /\ Arity(g, t[i]) \in 1 .. Arity(g, t[i])
    BY <1>7
  <2>2. W.kid[i][1] = i + 1 /\ W.end[W.kid[i][Arity(g, t[i])]] = W.end[i]
    BY <1>2 DEF NodeOK
  <2>3. U.kid[a + i][1] = a + (i + 1)
    BY <1>3, <2>1, <2>2
  <2>4. U.end[U.kid[a + i][Arity(g, t[i])]] = a + W.end[i]
    BY <1>8, <2>1, <2>2
  <2> QED
    BY <1>1, <1>3, <2>3, <2>4
<1> QED
  BY <1>2, <1>3, <1>6, <1>9, <1>10, <1>11, <1>12 DEF NodeOK

-----------------------------------------------------------------------------
(* Shapes one behind the other, and under an e-node.                       *)

\* The shapes V and W, of a and b nodes, one behind the other.
Joined(V, a, W, b) ==
  [end |-> [i \in 1 .. a + b |-> IF i <= a THEN V.end[i] ELSE a + W.end[i - a]],
   kid |-> [i \in 1 .. a + b |-> IF i <= a THEN V.kid[i] ELSE [k \in Nat |-> a + W.kid[i - a][k]]],
   buf |-> [i \in 1 .. a + b |-> IF i <= a THEN V.buf[i] ELSE W.buf[i - a]]]

HasBoth(J, V, a, W, b) ==
  /\ \A i \in 1 .. a : J.end[i] = V.end[i] /\ J.kid[i] = V.kid[i] /\ J.buf[i] = V.buf[i]
  /\ \A i \in 1 .. b : /\ J.end[a + i] = a + W.end[i] /\ J.buf[a + i] = W.buf[i]
                       /\ \A k \in Nat : J.kid[a + i][k] = a + W.kid[i][k]

LEMMA JoinedFacts ==
  ASSUME NEW V, NEW W, NEW a \in Nat, NEW b \in Nat
  PROVE  HasBoth(Joined(V, a, W, b), V, a, W, b)
<1>1. \A i \in 1 .. a : i \in 1 .. a + b /\ i <= a
  OBVIOUS
<1>2. \A i \in 1 .. b : a + i \in 1 .. a + b /\ ~(a + i <= a) /\ (a + i) - a = i
  OBVIOUS
<1> QED
  BY <1>1, <1>2 DEF Joined, HasBoth

\* W is the shape of trees that begin at starts, one for each of the first k
\* operands of an e-node that delivers its result in b.
IsForest(g, en, b, s, W, starts, k) ==
  /\ IsShape(g, s, W)
  /\ starts[1] = 1 /\ starts[k + 1] = Len(s) + 1
  /\ \A j \in 1 .. k :
       /\ starts[j] \in 1 .. Len(s) /\ W.end[starts[j]] = starts[j + 1]
       /\ s[starts[j]][1] = en.kids[j] /\ W.buf[starts[j]] = ReadsFrom(en, j, b)

LEMMA ArityIsNat ==
  ASSUME NEW g, Typed(g), NEW n \in ENodes(g)
  PROVE  Arity(g, n) \in Nat
<1>1. At(g, n).kids \in Seq(Classes(g))
  BY DEF Typed, ENodes, At
<1> QED
  BY <1>1 DEF Arity

LEMMA JoinedShape ==
  ASSUME NEW g, Typed(g), NEW s, NEW V, IsShape(g, s, V), NEW t, NEW W, IsShape(g, t, W)
  PROVE  IsShape(g, s \o t, Joined(V, Len(s), W, Len(t)))
<1> DEFINE a == Len(s)
           b == Len(t)
           J == Joined(V, a, W, b)
           u == s \o t
<1>1. s \in Seq(ENodes(g)) /\ t \in Seq(ENodes(g)) /\ a \in Nat /\ b \in Nat
  BY DEF IsShape
<1>2. /\ u \in Seq(ENodes(g)) /\ Len(u) = a + b
      /\ \A i \in 1 .. a : u[i] = s[i]
      /\ \A i \in 1 .. b : u[a + i] = t[i]
  <2>1. \A i \in 1 .. a + b : u[i] = IF i <= Len(s) THEN s[i] ELSE t[i - Len(s)]
    BY <1>1, ConcatProperties
  <2>2. u \in Seq(ENodes(g)) /\ Len(u) = a + b
    BY <1>1, ConcatProperties
  <2>3. \A i \in 1 .. a : i \in 1 .. a + b /\ i <= a
    BY <1>1
  <2>4. \A i \in 1 .. b : a + i \in 1 .. a + b /\ ~(a + i <= a) /\ (a + i) - a = i
    BY <1>1
  <2> QED
    BY <2>1, <2>2, <2>3, <2>4
<1>3. \A i \in 1 .. a : \A k \in 1 .. Arity(g, s[i]) : k \in Nat
  OBVIOUS
<1> HIDE DEF a, b, u
<1>9. HasBoth(J, V, a, W, b)
  BY <1>1, JoinedFacts
<1> HIDE DEF J
<1>4. /\ \A i \in 1 .. a : J.end[i] = V.end[i] /\ J.kid[i] = V.kid[i] /\ J.buf[i] = V.buf[i]
      /\ \A i \in 1 .. b : /\ J.end[a + i] = a + W.end[i] /\ J.buf[a + i] = W.buf[i]
                           /\ \A k \in Nat : J.kid[a + i][k] = a + W.kid[i][k]
  BY <1>9 DEF HasBoth
<1>5. Embeds(g, t, W, u, J, a)
  <2>1. a + Len(t) <= Len(u)
    BY <1>1, <1>2 DEF b
  <2>2. \A j \in 1 .. Len(t) : /\ u[a + j] = t[j] /\ J.end[a + j] = a + W.end[j]
                               /\ J.buf[a + j] = W.buf[j]
    BY <1>2, <1>4 DEF b
  <2>3. ASSUME NEW j \in 1 .. Len(t), NEW k \in 1 .. Arity(g, t[j])
        PROVE  J.kid[a + j][k] = a + W.kid[j][k]
    <3>1. t[j] \in ENodes(g)
      BY <1>1
    <3>2. Arity(g, t[j]) \in Nat
      BY <3>1, ArityIsNat
    <3>3. k \in Nat
      BY <3>2
    <3> QED
      BY <1>4, <3>3 DEF b
  <2> QED
    BY <2>1, <2>2, <2>3 DEF Embeds
<1>6. Embeds(g, s, V, u, J, 0)
  <2>1. \A i \in 1 .. a : V.end[i] \in Nat
    BY <1>1 DEF IsShape, NodeOK, a
  <2>2. \A i \in 1 .. a : \A k \in 1 .. Arity(g, s[i]) : V.kid[i][k] \in Int
    <3> SUFFICES ASSUME NEW i \in 1 .. a, NEW k \in 1 .. Arity(g, s[i]) PROVE V.kid[i][k] \in Int
      OBVIOUS
    <3>1. NodeOK(g, s, V, i)
      BY DEF IsShape, a
    <3>2. V.kid[i][k] \in i + 1 .. V.end[i] - 1
      BY <3>1 DEF NodeOK, KidOK
    <3> QED
      BY <3>2
  <2>3. \A i \in 1 .. a : 0 + i = i
    OBVIOUS
  <2> QED
    BY <1>1, <1>2, <1>4, <2>1, <2>2, <2>3 DEF Embeds, a
<1>7. ASSUME NEW i \in 1 .. Len(u) PROVE NodeOK(g, u, J, i)
  <2>1. CASE i \in 1 .. a
    <3>1. 0 + i = i /\ 0 \in Nat /\ i \in 1 .. Len(s)
      BY <2>1 DEF a
    <3>2. NodeOK(g, u, J, 0 + i)
      BY <1>2, <1>6, <3>1, EmbeddedNode
    <3> QED
      BY <3>1, <3>2
  <2>2. CASE i \notin 1 .. a
    <3> DEFINE j == i - a
    <3>1. j \in 1 .. b /\ a + j = i
      BY <1>1, <1>2, <2>2
    <3> HIDE DEF j
    <3>2. NodeOK(g, u, J, a + j)
      BY <1>1, <1>2, <1>5, <3>1, EmbeddedNode DEF b
    <3> QED
      BY <3>1, <3>2
  <2> QED
    BY <2>1, <2>2
<1>8. IsShape(g, u, J)
  BY <1>2, <1>7 DEF IsShape
<1> QED
  BY <1>8 DEF u, J, a, b

\* One more tree.
LEMMA ForestGrows ==
  ASSUME NEW g, Typed(g), NEW en, NEW b, NEW s, NEW V, NEW starts, NEW k \in Nat,
         IsForest(g, en, b, s, V, starts, k), starts = [j \in 1 .. k + 1 |-> starts[j]],
         NEW t, NEW W, IsTree(g, en.kids[k + 1], ReadsFrom(en, k + 1, b), t, W)
  PROVE  \E U, more : /\ more = [j \in 1 .. (k + 1) + 1 |-> more[j]]
                      /\ IsForest(g, en, b, s \o t, U, more, k + 1)
<1> DEFINE U == Joined(V, Len(s), W, Len(t))
           u == s \o t
           more == [j \in 1 .. (k + 1) + 1 |-> IF j <= k + 1 THEN starts[j] ELSE Len(u) + 1]
<1>1. s \in Seq(ENodes(g)) /\ t \in Seq(ENodes(g)) /\ Len(s) \in Nat /\ Len(t) \in Nat \ {0}
  BY DEF IsForest, IsTree, IsShape
<1>2. /\ Len(u) = Len(s) + Len(t)
      /\ \A i \in 1 .. Len(s) : u[i] = s[i]
      /\ u[Len(s) + 1] = t[1]
  <2>1. \A i \in 1 .. Len(s) + Len(t) : u[i] = IF i <= Len(s) THEN s[i] ELSE t[i - Len(s)]
    BY <1>1, ConcatProperties
  <2>2. Len(u) = Len(s) + Len(t)
    BY <1>1, ConcatProperties
  <2>3. \A i \in 1 .. Len(s) : i \in 1 .. Len(s) + Len(t) /\ i <= Len(s)
    BY <1>1
  <2>4. Len(s) + 1 \in 1 .. Len(s) + Len(t) /\ ~(Len(s) + 1 <= Len(s)) /\ (Len(s) + 1) - Len(s) = 1
    BY <1>1
  <2> QED
    BY <2>1, <2>2, <2>3, <2>4
<1>3. IsShape(g, u, U)
  BY JoinedShape DEF IsForest, IsTree
<1>4. /\ \A i \in 1 .. Len(s) : U.end[i] = V.end[i] /\ U.buf[i] = V.buf[i]
      /\ U.end[Len(s) + 1] = Len(s) + W.end[1] /\ U.buf[Len(s) + 1] = W.buf[1]
  <2>1. 1 \in 1 .. Len(t)
    BY <1>1
  <2>2. HasBoth(U, V, Len(s), W, Len(t))
    BY <1>1, JoinedFacts
  <2> HIDE DEF U
  <2> QED
    BY <2>1, <2>2 DEF HasBoth
<1> HIDE DEF U, u
<1>5. \A j \in 1 .. k + 1 : more[j] = starts[j]
  OBVIOUS
<1>6. more[(k + 1) + 1] = Len(u) + 1 /\ more[1] = 1 /\ more = [j \in 1 .. (k + 1) + 1 |-> more[j]]
  BY DEF IsForest
<1> HIDE DEF more
<1>7. ASSUME NEW j \in 1 .. k + 1
      PROVE  /\ more[j] \in 1 .. Len(u) /\ U.end[more[j]] = more[j + 1]
             /\ u[more[j]][1] = en.kids[j] /\ U.buf[more[j]] = ReadsFrom(en, j, b)
  <2>1. CASE j \in 1 .. k
    <3>1. j + 1 \in 1 .. k + 1
      BY <2>1
    <3>2. /\ starts[j] \in 1 .. Len(s) /\ V.end[starts[j]] = starts[j + 1]
          /\ s[starts[j]][1] = en.kids[j] /\ V.buf[starts[j]] = ReadsFrom(en, j, b)
      BY <2>1 DEF IsForest
    <3>3. more[j] = starts[j] /\ more[j + 1] = starts[j + 1]
      BY <1>5, <3>1
    <3>4. starts[j] \in 1 .. Len(u)
      BY <1>1, <1>2, <3>2
    <3> QED
      BY <1>2, <1>4, <3>2, <3>3, <3>4
  <2>2. CASE j \notin 1 .. k
    <3>1. j = k + 1
      BY <2>2
    <3>2. more[j] = Len(s) + 1
      BY <1>5, <3>1 DEF IsForest
    <3>3. W.end[1] = Len(t) + 1 /\ W.buf[1] = ReadsFrom(en, j, b) /\ t[1][1] = en.kids[j]
      BY <3>1 DEF IsTree
    <3>4. Len(s) + 1 \in 1 .. Len(u) /\ Len(s) + (Len(t) + 1) = Len(u) + 1
      BY <1>1, <1>2
    <3> QED
      BY <1>2, <1>4, <1>6, <3>1, <3>2, <3>3, <3>4
  <2> QED
    BY <2>1, <2>2
<1>8. IsForest(g, en, b, u, U, more, k + 1)
  BY <1>3, <1>6, <1>7 DEF IsForest
<1> QED
  BY <1>6, <1>8 DEF u

\* The shape of an e-node, that delivers its result in b, on top of L e-nodes
\* of the shape W.
Topped(W, L, starts, b) ==
  [end |-> [i \in 1 .. L + 1 |-> IF i = 1 THEN L + 2 ELSE 1 + W.end[i - 1]],
   kid |-> [i \in 1 .. L + 1 |-> IF i = 1 THEN [k \in Nat |-> 1 + starts[k]]
                                 ELSE [k \in Nat |-> 1 + W.kid[i - 1][k]]],
   buf |-> [i \in 1 .. L + 1 |-> IF i = 1 THEN b ELSE W.buf[i - 1]]]

HasTop(U, W, L, starts, b) ==
  /\ U.end[1] = L + 2 /\ U.buf[1] = b /\ \A k \in Nat : U.kid[1][k] = 1 + starts[k]
  /\ \A i \in 1 .. L : /\ U.end[1 + i] = 1 + W.end[i] /\ U.buf[1 + i] = W.buf[i]
                       /\ \A k \in Nat : U.kid[1 + i][k] = 1 + W.kid[i][k]

LEMMA ToppedFacts ==
  ASSUME NEW W, NEW L \in Nat, NEW starts, NEW b
  PROVE  HasTop(Topped(W, L, starts, b), W, L, starts, b)
<1>1. 1 \in 1 .. L + 1
  OBVIOUS
<1>2. \A i \in 1 .. L : 1 + i \in 1 .. L + 1 /\ 1 + i # 1 /\ (1 + i) - 1 = i
  OBVIOUS
<1> QED
  BY <1>1, <1>2 DEF Topped, HasTop

\* An e-node on top of one tree for each of its operands is a tree.
LEMMA ToppedForest ==
  ASSUME NEW g, Typed(g), NEW n \in ENodes(g), NEW b \in Buffers, Supports(At(g, n), b),
         NEW s, NEW W, NEW starts, IsForest(g, At(g, n), b, s, W, starts, Arity(g, n))
  PROVE  IsTree(g, n[1], b, <<n>> \o s, Topped(W, Len(s), starts, b))
<1> DEFINE L == Len(s)
           U == Topped(W, L, starts, b)
           u == <<n>> \o s
           m == Arity(g, n)
<1>1. s \in Seq(ENodes(g)) /\ L \in Nat /\ m \in Nat
  BY ArityIsNat DEF IsForest, IsShape
<1>2. /\ u \in Seq(ENodes(g)) /\ Len(u) = 1 + L /\ u[1] = n
      /\ \A i \in 1 .. L : u[1 + i] = s[i]
  <2>1. <<n>> \in Seq(ENodes(g)) /\ Len(<<n>>) = 1
    OBVIOUS
  <2>2. /\ u \in Seq(ENodes(g)) /\ Len(u) = 1 + L
        /\ \A i \in 1 .. 1 + L : u[i] = IF i <= 1 THEN <<n>>[i] ELSE s[i - 1]
    BY <1>1, <2>1, ConcatProperties
  <2>3. 1 \in 1 .. 1 + L /\ \A i \in 1 .. L :
          1 + i \in 1 .. 1 + L /\ ~(1 + i <= 1) /\ (1 + i) - 1 = i
    BY <1>1
  <2> QED
    BY <2>2, <2>3
<1>3. HasTop(U, W, L, starts, b)
  BY <1>1, ToppedFacts
<1>4. /\ IsShape(g, s, W) /\ starts[1] = 1 /\ starts[m + 1] = L + 1
      /\ \A j \in 1 .. m :
           /\ starts[j] \in 1 .. L /\ W.end[starts[j]] = starts[j + 1]
           /\ s[starts[j]][1] = At(g, n).kids[j] /\ W.buf[starts[j]] = ReadsFrom(At(g, n), j, b)
  BY DEF IsForest
<1> HIDE DEF U, u, L, m
<1>5. /\ U.end[1] = L + 2 /\ U.buf[1] = b /\ \A k \in Nat : U.kid[1][k] = 1 + starts[k]
      /\ \A i \in 1 .. L : /\ U.end[1 + i] = 1 + W.end[i] /\ U.buf[1 + i] = W.buf[i]
                           /\ \A k \in Nat : U.kid[1 + i][k] = 1 + W.kid[i][k]
  BY <1>3 DEF HasTop
<1>6. Embeds(g, s, W, u, U, 1)
  <2>1. \A i \in 1 .. L : \A k \in 1 .. Arity(g, s[i]) : k \in Nat
    OBVIOUS
  <2> QED
    BY <1>1, <1>2, <1>5, <2>1 DEF Embeds, L
<1>7. \A i \in 1 .. L : W.end[i] \in i + 1 .. L + 1
  BY <1>4 DEF IsShape, NodeOK, L
<1>8. ASSUME NEW k \in 1 .. m PROVE KidOK(g, u, U, 1, k)
  <2> DEFINE w == starts[k]
  <2>1. w \in 1 .. L /\ k \in Nat /\ U.kid[1][k] = 1 + w
    BY <1>4, <1>5
  <2>2. u[1 + w] = s[w] /\ U.buf[1 + w] = W.buf[w] /\ u[1] = n
    BY <1>2, <1>5, <2>1
  <2>3. s[w][1] = At(g, n).kids[k] /\ W.buf[w] = ReadsFrom(At(g, n), k, b)
    BY <1>4
  <2>4. k # 1 => U.kid[1][k] = U.end[U.kid[1][k - 1]]
    <3> SUFFICES ASSUME k # 1 PROVE U.kid[1][k] = U.end[U.kid[1][k - 1]]
      OBVIOUS
    <3>1. k - 1 \in 1 .. m /\ (k - 1) + 1 = k /\ k - 1 \in Nat
      BY <1>1
    <3>2. starts[k - 1] \in 1 .. L /\ W.end[starts[k - 1]] = w
      BY <1>4, <3>1
    <3>3. U.kid[1][k - 1] = 1 + starts[k - 1]
      BY <1>5, <3>1
    <3>4. U.end[1 + starts[k - 1]] = 1 + w
      BY <1>5, <3>2
    <3> QED
      BY <2>1, <3>3, <3>4
  <2> HIDE DEF w
  <2>5. 1 + w \in 1 + 1 .. U.end[1] - 1
    <3>1. U.end[1] = L + 2 /\ L \in Nat /\ w \in 1 .. L
      BY <1>1, <1>5, <2>1
    <3> QED
      BY <3>1
  <2> QED
    BY <1>5, <2>1, <2>2, <2>3, <2>4, <2>5 DEF KidOK
<1>9. NodeOK(g, u, U, 1)
  <2>1. U.buf[1] \in Buffers /\ Supports(At(g, u[1]), U.buf[1])
    BY <1>2, <1>5
  <2>2. U.end[1] \in 1 + 1 .. Len(u) + 1
    BY <1>1, <1>2, <1>5
  <2>3. ASSUME NEW j \in 1 + 1 .. U.end[1] - 1 PROVE U.end[j] <= U.end[1]
    <3> DEFINE i == j - 1
    <3>1. i \in 1 .. L /\ j = 1 + i
      BY <1>1, <1>5
    <3> HIDE DEF i
    <3>2. U.end[j] = 1 + W.end[i] /\ W.end[i] \in i + 1 .. L + 1
      BY <1>5, <1>7, <3>1
    <3> QED
      BY <1>1, <1>5, <3>2
  <2>4. Arity(g, u[1]) = m
    BY <1>2 DEF m
  <2>5. m = 0 => U.end[1] = 1 + 1
    BY <1>1, <1>4, <1>5
  <2>6. m # 0 => U.kid[1][1] = 1 + 1 /\ U.end[U.kid[1][m]] = U.end[1]
    <3> SUFFICES ASSUME m # 0 PROVE U.kid[1][1] = 1 + 1 /\ U.end[U.kid[1][m]] = U.end[1]
      OBVIOUS
    <3>1. starts[m] \in 1 .. L /\ W.end[starts[m]] = L + 1
      BY <1>1, <1>4
    <3>2. U.end[1 + starts[m]] = 1 + (L + 1)
      BY <1>5, <3>1
    <3>3. U.kid[1][1] = 1 + 1 /\ U.kid[1][m] = 1 + starts[m]
      BY <1>1, <1>4, <1>5
    <3> QED
      BY <1>1, <1>5, <3>2, <3>3
  <2> QED
    BY <1>8, <2>1, <2>2, <2>3, <2>4, <2>5, <2>6 DEF NodeOK
<1>10. ASSUME NEW i \in 1 .. Len(u) PROVE NodeOK(g, u, U, i)
  <2>1. CASE i = 1
    BY <1>9, <2>1
  <2>2. CASE i # 1
    <3> DEFINE j == i - 1
    <3>1. j \in 1 .. L /\ 1 + j = i
      BY <1>1, <1>2, <2>2
    <3> HIDE DEF j
    <3>2. NodeOK(g, u, U, 1 + j)
      BY <1>2, <1>4, <1>6, <3>1, EmbeddedNode DEF L
    <3> QED
      BY <3>1, <3>2
  <2> QED
    BY <2>1, <2>2
<1>11. IsTree(g, n[1], b, u, U)
  BY <1>1, <1>2, <1>5, <1>10 DEF IsTree, IsShape
<1> QED
  BY <1>11 DEF u, U, L

\* What TreesUnder combines are forests.
LEMMA CombinationsAreForests ==
  ASSUME NEW g, Typed(g), NEW n \in ENodes(g), NEW b,
         NEW sets \in Seq(SUBSET Seq(ENodes(g))), Len(sets) = Arity(g, n),
         \A k \in 1 .. Len(sets) : \A t \in sets[k] :
           \E W : IsTree(g, At(g, n).kids[k], ReadsFrom(At(g, n), k, b), t, W),
         NEW s \in Combinations(sets)
  PROVE  \E W, starts : IsForest(g, At(g, n), b, s, W, starts, Arity(g, n))
<1> DEFINE en == At(g, n)
           N == Len(sets)
           Good(w, k) == \E W, starts : /\ starts = [j \in 1 .. k + 1 |-> starts[j]]
                                        /\ IsForest(g, en, b, w, W, starts, k)
<1>1. PICK f \in [0 .. Len(sets) -> SUBSET Seq(ENodes(g))] :
        IsCombining(f, sets) /\ Combinations(sets) = f[Len(sets)]
  BY CombinationsInSteps
<1> DEFINE Bad == {k \in 0 .. N : ~ \A w \in f[k] : Good(w, k)}
<1>2. N \in Nat
  OBVIOUS
<1>3. ASSUME Bad # {} PROVE FALSE
  <2>1. Bad \in SUBSET Nat
    BY <1>2
  <2> HIDE DEF Bad
  <2>2. PICK k \in Bad : \A j \in Bad : k <= j
    BY <1>3, <2>1, LeastElement
  <2>3. k \in 0 .. N /\ ~ \A w \in f[k] : Good(w, k)
    BY DEF Bad
  <2>4. CASE k = 0
    <3>1. f[0] = {<<>>}
      BY <1>1 DEF IsCombining
    <3> DEFINE starts == [j \in 1 .. 0 + 1 |-> 1]
    <3>2. starts = [j \in 1 .. 0 + 1 |-> starts[j]] /\ starts[1] = 1 /\ starts[0 + 1] = 1
      OBVIOUS
    <3> HIDE DEF starts
    <3>3. IsForest(g, en, b, <<>>, 0, starts, 0)
      BY <3>2 DEF IsForest, IsShape
    <3>4. Good(<<>>, 0)
      BY <3>2, <3>3
    <3> HIDE DEF Good
    <3> QED
      BY <2>3, <2>4, <3>1, <3>4
  <2>5. CASE k # 0
    <3>1. k \in 1 .. N /\ k - 1 \in 0 .. N /\ ~(k <= k - 1) /\ k - 1 \in Nat /\ (k - 1) + 1 = k
      BY <1>2, <2>3, <2>5
    <3> HIDE DEF Good
    <3>2. \A w \in f[k - 1] : Good(w, k - 1)
      BY <2>2, <3>1 DEF Bad
    <3>3. ASSUME NEW w \in f[k] PROVE Good(w, k)
      <4>1. w \in Seq(ENodes(g))
        BY <3>1
      <4>2. Joins(f[k - 1], sets[k], w)
        BY <1>1, <3>1, <4>1, CombinedAgain
      <4>3. PICK v \in f[k - 1], t \in sets[k] : w = v \o t
        BY <4>2 DEF Joins
      <4>4. PICK W : IsTree(g, en.kids[k], ReadsFrom(en, k, b), t, W)
        BY <3>1
      <4>5. PICK V, starts : /\ starts = [j \in 1 .. (k - 1) + 1 |-> starts[j]]
                             /\ IsForest(g, en, b, v, V, starts, k - 1)
        BY <3>2 DEF Good
      <4> HIDE DEF en
      <4> DEFINE l == k - 1
      <4>6. /\ starts = [j \in 1 .. l + 1 |-> starts[j]] /\ IsForest(g, en, b, v, V, starts, l)
            /\ IsTree(g, en.kids[l + 1], ReadsFrom(en, l + 1, b), t, W) /\ l \in Nat /\ l + 1 = k
        BY <3>1, <4>4, <4>5
      <4> HIDE DEF l
      <4>7. \E U, more : /\ more = [j \in 1 .. (l + 1) + 1 |-> more[j]]
                         /\ IsForest(g, en, b, v \o t, U, more, l + 1)
        BY <4>6, ForestGrows
      <4> QED
        BY <4>3, <4>6, <4>7 DEF Good
    <3> QED
      BY <2>3, <3>3
  <2> QED
    BY <2>4, <2>5
<1> HIDE DEF Good
<1>4. N \in 0 .. N /\ s \in f[N]
  BY <1>1, <1>2
<1>5. Good(s, N)
  BY <1>3, <1>4
<1> QED
  BY <1>5 DEF Good

-----------------------------------------------------------------------------
(* Every tree that is found has a shape.                                   *)

LEMMA InputIsTree ==
  ASSUME NEW g, Typed(g), Placed(g), NEW c \in g.inputs
  PROVE  \E W : IsTree(g, c, HBM, << <<c, 1>> >>, W)
<1> DEFINE n == <<c, 1>>
<1>1. c \in Classes(g) /\ 1 \in DOMAIN g.nodes[c]
  BY DEF Typed
<1>2. n \in ENodes(g) /\ At(g, n) = g.nodes[c][1] /\ n[1] = c
  BY <1>1 DEF ENodes, At
<1>3. Arity(g, n) = 0 /\ Supports(At(g, n), HBM) /\ HBM \in Buffers
  BY <1>2 DEF Placed, Arity, Buffers
<1> HIDE DEF n
<1> DEFINE starts == [j \in 1 .. 0 + 1 |-> 1]
<1>4. starts[1] = 1 /\ starts[0 + 1] = 1
  OBVIOUS
<1> HIDE DEF starts
<1>5. IsForest(g, At(g, n), HBM, <<>>, 0, starts, Arity(g, n))
  BY <1>3, <1>4 DEF IsForest, IsShape
<1>6. IsTree(g, n[1], HBM, <<n>> \o <<>>, Topped(0, Len(<<>>), starts, HBM))
  BY <1>2, <1>3, <1>5, ToppedForest
<1>7. <<n>> \o <<>> = <<n>>
  <2> DEFINE s == <<n>>
  <2>1. s \in Seq({n})
    OBVIOUS
  <2> HIDE DEF s
  <2>2. s \o <<>> = s
    BY <2>1
  <2> QED
    BY <2>2 DEF s
<1>8. IsTree(g, c, HBM, <<n>>, Topped(0, Len(<<>>), starts, HBM))
  BY <1>2, <1>6, <1>7
<1> QED
  BY <1>8 DEF n

\* Some W is the shape of t.
HasShape(g, c, b, t) == \E W : IsTree(g, c, b, t, W)

LEMMA TopHasShape ==
  ASSUME NEW g, Typed(g), NEW lim \in Nat, NEW of, IsGrown(of, g, lim),
         NEW n \in 0 .. lim, NEW c \in Classes(g), NEW i \in DOMAIN g.nodes[c], NEW b \in Buffers,
         \A m \in 0 .. n - 1 : \A d \in Classes(g) : \A y \in Buffers :
           \A t \in of[m][<<d, y>>] : HasShape(g, d, y, t),
         NEW t, IsTop(of, g, n, c, i, b, t)
  PROVE  HasShape(g, c, b, t)
<1> DEFINE en == g.nodes[c][i]
           p  == <<c, i>>
           below == Under(of, g, n, c, i, b)
<1>1. Supports(en, b) /\ n >= Len(en.kids)
  BY DEF IsTop
<1>2. PICK ts \in Combinations(below) : t = <<p>> \o ts
  BY DEF IsTop
<1>3. p \in ENodes(g) /\ At(g, p) = en /\ p[1] = c
  BY DEF ENodes, At
<1>4. KnownBefore(of, g, n, c, i, b)
  BY <1>1, UnderIsKnown
<1>5. /\ below \in Seq(SUBSET Seq(ENodes(g))) /\ Len(below) = Len(en.kids)
      /\ DOMAIN en.kids = 1 .. Len(en.kids)
  BY <1>4 DEF KnownBefore
<1>6. \A k \in 1 .. Len(en.kids) :
        /\ en.kids[k] \in Classes(g)
        /\ ReadsFrom(en, k, b) \in Buffers
        /\ ChildLimit(en, n) \in 0 .. n - 1
        /\ below[k] = of[ChildLimit(en, n)][<<en.kids[k], ReadsFrom(en, k, b)>>]
  BY <1>4, <1>5 DEF KnownBefore
<1> HIDE DEF p, below
<1>7. Arity(g, p) = Len(en.kids)
  BY <1>3 DEF Arity
<1> HIDE DEF en
<1>8. \A k \in 1 .. Len(below) : \A u \in below[k] : HasShape(g, en.kids[k], ReadsFrom(en, k, b), u)
  BY <1>5, <1>6
<1>9. \A k \in 1 .. Len(below) : \A u \in below[k] :
        \E W : IsTree(g, At(g, p).kids[k], ReadsFrom(At(g, p), k, b), u, W)
  BY <1>3, <1>8 DEF HasShape
<1>10. PICK W, starts : IsForest(g, At(g, p), b, ts, W, starts, Arity(g, p))
  BY <1>2, <1>3, <1>5, <1>7, <1>9, CombinationsAreForests
<1>11. Supports(At(g, p), b)
  BY <1>1, <1>3
<1>12. IsTree(g, p[1], b, <<p>> \o ts, Topped(W, Len(ts), starts, b))
  BY <1>3, <1>10, <1>11, ToppedForest
<1> QED
  BY <1>2, <1>3, <1>12 DEF HasShape

LEMMA GrownHasShape ==
  ASSUME NEW g, Typed(g), Placed(g), NEW lim \in Nat, NEW of, IsGrown(of, g, lim)
  PROVE  \A n \in 0 .. lim : \A c \in Classes(g) : \A b \in Buffers :
           \A t \in of[n][<<c, b>>] : HasShape(g, c, b, t)
<1> DEFINE Fine(n) == \A c \in Classes(g) : \A b \in Buffers :
                        \A t \in of[n][<<c, b>>] : HasShape(g, c, b, t)
           Bad == {n \in 0 .. lim : ~Fine(n)}
<1>1. ASSUME Bad # {} PROVE FALSE
  <2>1. Bad \in SUBSET Nat
    OBVIOUS
  <2> HIDE DEF Bad
  <2>2. PICK n \in Bad : \A m \in Bad : n <= m
    BY <1>1, <2>1, LeastElement
  <2>3. n \in 0 .. lim /\ ~Fine(n)
    BY DEF Bad
  <2>4. ASSUME NEW m \in 0 .. n - 1 PROVE Fine(m)
    <3>1. m \in 0 .. lim /\ ~(n <= m)
      BY <2>3
    <3> QED
      BY <2>2, <3>1 DEF Bad
  <2>5. ASSUME NEW c \in Classes(g), NEW b \in Buffers, NEW t \in of[n][<<c, b>>]
        PROVE  HasShape(g, c, b, t)
    <3>1. t \in Deliver(of, g, n, c, b) /\ n \in Nat
      BY <2>3, GrownTrees
    <3>2. IsDelivered(of, g, n, c, b, t)
      BY <3>1, DeliveredTrees
    <3>3. CASE IsInput(g, c, b)
      <4>1. t = << <<c, 1>> >> /\ c \in g.inputs /\ b = HBM
        BY <3>2, <3>3 DEF IsDelivered, IsInput
      <4> QED
        BY <4>1, InputIsTree DEF HasShape
    <3>4. CASE ~IsInput(g, c, b)
      <4>1. PICK i \in DOMAIN g.nodes[c] : IsTop(of, g, n, c, i, b, t)
        BY <3>2, <3>4 DEF IsDelivered
      <4>2. \A m \in 0 .. n - 1 : \A d \in Classes(g) : \A y \in Buffers :
              \A u \in of[m][<<d, y>>] : HasShape(g, d, y, u)
        BY <2>4
      <4> QED
        BY <2>3, <4>1, <4>2, TopHasShape
    <3> QED
      BY <3>3, <3>4
  <2> QED
    BY <2>3, <2>5
<1> QED
  BY <1>1

LEMMA TreesHaveShapes ==
  ASSUME NEW g, Typed(g), Placed(g), NEW lim \in Nat, NEW t \in Trees(g, lim)
  PROVE  \E W : IsTree(g, g.root, HBM, t, W)
<1>1. PICK of : IsGrown(of, g, lim) /\ Trees(g, lim) = of[lim][<<g.root, HBM>>]
  BY TreesInSteps
<1>2. g.root \in Classes(g) /\ HBM \in Buffers /\ lim \in 0 .. lim
  BY DEF Typed, Buffers
<1>3. HasShape(g, g.root, HBM, t)
  BY <1>1, <1>2, GrownHasShape
<1> QED
  BY <1>3 DEF HasShape

-----------------------------------------------------------------------------
(* What is under a node, in numbers.                                       *)

\* A set of numbers with an upper bound has a greatest element.
LEMMA GreatestElement ==
  ASSUME NEW n \in Nat, NEW S \in SUBSET (0 .. n), S # {}
  PROVE  \E m \in S : \A k \in S : k <= m
<1> DEFINE T == {n - k : k \in S}
<1>1. T \in SUBSET Nat /\ T # {}
  <2>1. \A k \in S : k \in 0 .. n
    OBVIOUS
  <2>2. \A k \in S : n - k \in Nat
    BY <2>1
  <2> QED
    BY <2>2
<1> HIDE DEF T
<1>2. PICK d \in T : \A e \in T : d <= e
  BY <1>1, LeastElement
<1> USE DEF T
<1>3. PICK m \in S : d = n - m
  OBVIOUS
<1>4. ASSUME NEW k \in S PROVE k <= m
  <2>1. k \in 0 .. n /\ m \in 0 .. n
    OBVIOUS
  <2>2. n - m <= n - k
    BY <1>2, <1>3
  <2> QED
    BY <2>1, <2>2
<1> QED
  BY <1>4

\* The numbers in the shape of the i-th node of n.
EndsIn(g, t, W, i) ==
  /\ Arity(g, t[i]) \in Nat
  /\ W.end[i] \in i + 1 .. Len(t) + 1
  /\ \A j \in i + 1 .. W.end[i] - 1 : W.end[j] <= W.end[i]

KidsIn(g, t, W, i) ==
  /\ \A k \in 1 .. Arity(g, t[i]) :
       W.kid[i][k] \in i + 1 .. W.end[i] - 1 /\ W.kid[i][k] \in 1 .. Len(t)
  /\ \A k \in 2 .. Arity(g, t[i]) : W.kid[i][k] = W.end[W.kid[i][k - 1]]
  /\ Arity(g, t[i]) = 0 => W.end[i] = i + 1
  /\ Arity(g, t[i]) # 0 => W.kid[i][1] = i + 1 /\ W.end[W.kid[i][Arity(g, t[i])]] = W.end[i]

LEMMA ShapeNumbers ==
  ASSUME NEW g, Typed(g), NEW t, NEW W, IsShape(g, t, W), NEW i \in 1 .. Len(t)
  PROVE  EndsIn(g, t, W, i) /\ KidsIn(g, t, W, i)
<1>1. NodeOK(g, t, W, i) /\ t[i] \in ENodes(g) /\ Len(t) \in Nat
  BY DEF IsShape
<1>2. Arity(g, t[i]) \in Nat
  BY <1>1, ArityIsNat
<1>3. EndsIn(g, t, W, i)
  BY <1>1, <1>2 DEF NodeOK, EndsIn
<1>4. \A k \in 1 .. Arity(g, t[i]) : KidOK(g, t, W, i, k)
  BY <1>1 DEF NodeOK
<1>5. ASSUME NEW k \in 1 .. Arity(g, t[i])
      PROVE  W.kid[i][k] \in i + 1 .. W.end[i] - 1 /\ W.kid[i][k] \in 1 .. Len(t)
  <2>1. W.kid[i][k] \in i + 1 .. W.end[i] - 1
    BY <1>4 DEF KidOK
  <2>2. W.end[i] \in i + 1 .. Len(t) + 1
    BY <1>3 DEF EndsIn
  <2> QED
    BY <1>1, <2>1, <2>2
<1>6. \A k \in 2 .. Arity(g, t[i]) : W.kid[i][k] = W.end[W.kid[i][k - 1]]
  <2> SUFFICES ASSUME NEW k \in 2 .. Arity(g, t[i]) PROVE W.kid[i][k] = W.end[W.kid[i][k - 1]]
    OBVIOUS
  <2>1. k \in 1 .. Arity(g, t[i]) /\ k # 1
    OBVIOUS
  <2> QED
    BY <1>4, <2>1 DEF KidOK
<1>7. KidsIn(g, t, W, i)
  BY <1>1, <1>5, <1>6 DEF NodeOK, KidsIn
<1> QED
  BY <1>3, <1>7

\* The operands of a node are in order.
LEMMA KidsAscend ==
  ASSUME NEW g, Typed(g), NEW t, NEW W, IsShape(g, t, W), NEW i \in 1 .. Len(t),
         NEW k \in 1 .. Arity(g, t[i]), NEW j \in 1 .. k
  PROVE  W.kid[i][j] <= W.kid[i][k] /\ (j # k => W.kid[i][j] # W.kid[i][k])
<1> DEFINE m == Arity(g, t[i])
           f == W.kid[i]
           Bad == {l \in j .. k : ~(f[j] <= f[l] /\ (j # l => f[j] # f[l]))}
<1>1. m \in Nat /\ \A l \in 1 .. m : f[l] \in 1 .. Len(t)
  BY ShapeNumbers DEF EndsIn, KidsIn
<1>2. \A l \in 2 .. m : f[l] = W.end[f[l - 1]]
  BY ShapeNumbers DEF KidsIn
<1>3. \A l \in 1 .. m : f[l] \in Nat /\ W.end[f[l]] \in Nat /\ W.end[f[l]] > f[l]
  <2> SUFFICES ASSUME NEW l \in 1 .. m
               PROVE  f[l] \in Nat /\ W.end[f[l]] \in Nat /\ W.end[f[l]] > f[l]
    OBVIOUS
  <2> DEFINE x == f[l]
  <2>1. x \in 1 .. Len(t)
    BY <1>1
  <2> HIDE DEF x
  <2>2. EndsIn(g, t, W, x)
    BY <2>1, ShapeNumbers
  <2>3. Len(t) \in Nat
    BY DEF IsShape
  <2>4. W.end[x] \in x + 1 .. Len(t) + 1
    BY <2>2 DEF EndsIn
  <2> QED
    BY <2>1, <2>3, <2>4 DEF x
<1>4. k \in 1 .. m /\ j \in 1 .. k
  OBVIOUS
<1> HIDE DEF m, f
<1>5. ASSUME Bad # {} PROVE FALSE
  <2>1. Bad \in SUBSET Nat
    BY <1>1, <1>4
  <2> HIDE DEF Bad
  <2>2. PICK l \in Bad : \A n \in Bad : l <= n
    BY <1>5, <2>1, LeastElement
  <2>3. l \in j .. k /\ ~(f[j] <= f[l] /\ (j # l => f[j] # f[l]))
    BY DEF Bad
  <2>4. l # j
    BY <1>1, <1>3, <1>4, <2>3
  <2>5. l - 1 \in j .. k /\ ~(l <= l - 1) /\ l \in 2 .. m /\ l - 1 \in 1 .. m /\
        l \in 1 .. m /\ j \in 1 .. m
    BY <1>1, <1>4, <2>3, <2>4
  <2>6. f[j] <= f[l - 1]
    BY <2>2, <2>5 DEF Bad
  <2>7. f[l] = W.end[f[l - 1]] /\ W.end[f[l - 1]] > f[l - 1] /\ f[l - 1] \in Nat /\
        f[l] \in Nat /\ f[j] \in Nat
    BY <1>2, <1>3, <2>5
  <2> QED
    BY <2>3, <2>6, <2>7
<1>6. k \in j .. k
  BY <1>1, <1>4
<1> QED
  BY <1>5, <1>6 DEF f

\* What is between a node and one of its operands ends before that operand.
LEMMA BeforeKid ==
  ASSUME NEW g, Typed(g), NEW t, NEW W, IsShape(g, t, W), NEW i \in 1 .. Len(t),
         NEW k \in 1 .. Arity(g, t[i]), NEW m \in i + 1 .. W.kid[i][k] - 1
  PROVE  W.end[m] <= W.kid[i][k]
<1> DEFINE f == W.kid[i]
           S == {j \in 1 .. k : m < f[j]}
<1>1. /\ Arity(g, t[i]) \in Nat /\ \A l \in 1 .. Arity(g, t[i]) : f[l] \in 1 .. Len(t)
      /\ \A l \in 2 .. Arity(g, t[i]) : f[l] = W.end[f[l - 1]]
      /\ Arity(g, t[i]) # 0 => f[1] = i + 1
  BY ShapeNumbers DEF EndsIn, KidsIn
<1>2. Len(t) \in Nat
  BY DEF IsShape
<1>3. \A j \in 1 .. k : f[j] <= f[k]
  BY KidsAscend
<1>4. k \in 1 .. Arity(g, t[i]) /\ m \in i + 1 .. f[k] - 1
  OBVIOUS
<1> HIDE DEF f
<1>5. S \in SUBSET Nat /\ k \in S
  BY <1>1, <1>2, <1>4
<1> HIDE DEF S
<1>6. PICK j \in S : \A n \in S : j <= n
  BY <1>5, LeastElement
<1>7. j \in 1 .. k /\ m < f[j] /\ j \in Nat
  BY <1>1, <1>4 DEF S
<1>8. j # 1
  BY <1>1, <1>2, <1>4, <1>7
<1>9. j - 1 \in 1 .. k /\ ~(j <= j - 1) /\ j \in 2 .. Arity(g, t[i]) /\
      j - 1 \in 1 .. Arity(g, t[i])
  BY <1>1, <1>4, <1>7, <1>8
<1> DEFINE x == f[j - 1]
<1>10. x \in 1 .. Len(t) /\ f[j] = W.end[x] /\ ~(m < x)
  BY <1>1, <1>6, <1>9 DEF S
<1> HIDE DEF x
<1>11. m \in Nat /\ x \in Nat /\ m >= x
  <2>1. f[k] \in 1 .. Len(t)
    BY <1>1
  <2> QED
    BY <1>2, <1>4, <1>10, <2>1
<1>12. W.end[m] <= W.end[x]
  <2>1. EndsIn(g, t, W, x)
    BY <1>10, ShapeNumbers
  <2>2. W.end[x] \in Nat
    BY <1>2, <1>10, <2>1 DEF EndsIn
  <2>3. CASE m = x
    BY <2>2, <2>3
  <2>4. CASE m # x
    <3>1. m \in x + 1 .. W.end[x] - 1
      BY <1>7, <1>10, <1>11, <2>2, <2>4
    <3> QED
      BY <2>1, <3>1 DEF EndsIn
  <2> QED
    BY <2>3, <2>4
<1>13. W.end[m] \in Nat /\ f[k] \in Nat /\ f[j] \in Nat
  <2>1. m \in 1 .. Len(t)
    <3>1. f[k] \in 1 .. Len(t)
      BY <1>1
    <3> QED
      BY <1>2, <1>4, <3>1
  <2>2. EndsIn(g, t, W, m)
    BY <2>1, ShapeNumbers
  <2>3. W.end[m] \in Nat
    BY <1>2, <2>1, <2>2 DEF EndsIn
  <2> QED
    BY <1>1, <1>9, <2>3
<1>14. W.end[m] <= f[k]
  BY <1>3, <1>7, <1>10, <1>12, <1>13
<1> QED
  BY <1>14 DEF f

\* A node is the operand of one node, and at one place.
LEMMA OneParent ==
  ASSUME NEW g, Typed(g), NEW t, NEW W, IsShape(g, t, W),
         NEW i \in 1 .. Len(t), NEW k \in 1 .. Arity(g, t[i]),
         NEW j \in 1 .. Len(t), NEW l \in 1 .. Arity(g, t[j]), W.kid[i][k] = W.kid[j][l]
  PROVE  i = j /\ k = l
<1>1. ASSUME NEW a \in 1 .. Len(t), NEW x \in 1 .. Arity(g, t[a]),
             NEW b \in 1 .. Len(t), NEW y \in 1 .. Arity(g, t[b]), W.kid[a][x] = W.kid[b][y]
      PROVE  ~(a < b)
  <2> SUFFICES ASSUME a < b PROVE FALSE
    OBVIOUS
  <2>1. W.kid[b][y] \in b + 1 .. W.end[b] - 1 /\ W.end[b] \in b + 1 .. Len(t) + 1
    BY ShapeNumbers DEF EndsIn, KidsIn
  <2>2. Len(t) \in Nat
    BY DEF IsShape
  <2>3. b \in a + 1 .. W.kid[a][x] - 1
    <3> DEFINE v == W.kid[b][y]
               e == W.end[b]
    <3>1. v \in b + 1 .. e - 1 /\ e \in b + 1 .. Len(t) + 1 /\ W.kid[a][x] = v
      BY <1>1, <2>1
    <3> HIDE DEF v, e
    <3> QED
      BY <2>2, <3>1, SMTT(30)
  <2>4. W.end[b] <= W.kid[a][x]
    BY <2>3, BeforeKid
  <2> DEFINE v == W.kid[b][y]
             e == W.end[b]
  <2>5. v \in b + 1 .. e - 1 /\ e \in b + 1 .. Len(t) + 1 /\ e <= v
    BY <1>1, <2>1, <2>4
  <2> HIDE DEF v, e
  <2> QED
    BY <2>2, <2>5
<1>2. ~(i < j) /\ ~(j < i)
  BY <1>1
<1>3. i = j
  <2>1. Len(t) \in Nat
    BY DEF IsShape
  <2> QED
    BY <1>2, <2>1
<1>4. Arity(g, t[i]) \in Nat
  BY ShapeNumbers DEF EndsIn
<1>5. k = l
  <2>1. k <= l \/ l <= k
    BY <1>3, <1>4
  <2>2. CASE k <= l
    <3>1. k \in 1 .. l
      BY <1>3, <1>4, <2>2
    <3> QED
      BY <1>3, <3>1, KidsAscend
  <2>3. CASE l <= k
    <3>1. l \in 1 .. k
      BY <1>3, <1>4, <2>3
    <3> QED
      BY <1>3, <3>1, KidsAscend
  <2> QED
    BY <2>1, <2>2, <2>3
<1> QED
  BY <1>3, <1>5

\* The last node that has c under it has c as an operand.
LEMMA InnermostIsParent ==
  ASSUME NEW g, Typed(g), NEW t, NEW W, IsShape(g, t, W),
         NEW c \in 2 .. Len(t), NEW p \in 1 .. c - 1, W.end[p] > c,
         \A j \in p + 1 .. c - 1 : W.end[j] <= c
  PROVE  \E k \in 1 .. Arity(g, t[p]) : W.kid[p][k] = c
<1> DEFINE f == W.kid[p]
           m == Arity(g, t[p])
           e == W.end[p]
           S == {k \in 1 .. m : f[k] <= c}
<1>1. Len(t) \in Nat
  BY DEF IsShape
<1>2. p \in 1 .. Len(t)
  BY <1>1
<1>3. /\ m \in Nat /\ e \in p + 1 .. Len(t) + 1
      /\ \A k \in 1 .. m : f[k] \in p + 1 .. e - 1 /\ f[k] \in 1 .. Len(t)
      /\ \A k \in 2 .. m : f[k] = W.end[f[k - 1]]
      /\ m = 0 => e = p + 1
      /\ m # 0 => f[1] = p + 1 /\ W.end[f[m]] = e
  BY <1>2, ShapeNumbers DEF EndsIn, KidsIn
<1>4. e > c /\ c \in 2 .. Len(t) /\ p \in 1 .. c - 1
  OBVIOUS
<1> HIDE DEF f, m, e
<1>5. m # 0
  BY <1>1, <1>3, <1>4
<1>6. 1 \in S /\ S \in SUBSET (0 .. m)
  BY <1>1, <1>3, <1>4, <1>5
<1> HIDE DEF S
<1>7. PICK k \in S : \A j \in S : j <= k
  BY <1>3, <1>6, GreatestElement
<1>8. k \in 1 .. m /\ f[k] <= c
  BY <1>7 DEF S
<1> DEFINE x == f[k]
<1>9. x \in p + 1 .. e - 1 /\ x <= c
  BY <1>3, <1>8
<1> HIDE DEF x
<1>10. x # c => W.end[x] <= c
  <2> SUFFICES ASSUME x # c PROVE W.end[x] <= c
    OBVIOUS
  <2>1. x \in p + 1 .. c - 1
    BY <1>1, <1>3, <1>4, <1>9
  <2> QED
    BY <2>1
<1>11. x = c
  <2> SUFFICES ASSUME x # c PROVE FALSE
    OBVIOUS
  <2>1. CASE k = m
    <3>1. W.end[x] = e
      BY <1>3, <1>5, <2>1 DEF x
    <3> QED
      BY <1>1, <1>3, <1>4, <1>10, <3>1
  <2>2. CASE k # m
    <3>1. k + 1 \in 2 .. m /\ k + 1 \in 1 .. m /\ (k + 1) - 1 = k
      BY <1>3, <1>8, <2>2
    <3>2. f[k + 1] = W.end[x]
      BY <1>3, <3>1 DEF x
    <3>3. f[k + 1] <= c
      BY <1>10, <3>2
    <3>4. k + 1 \in S
      BY <3>1, <3>3 DEF S
    <3> QED
      BY <1>3, <1>7, <1>8, <3>4
  <2> QED
    BY <2>1, <2>2
<1> QED
  BY <1>8, <1>11 DEF x, f, m

LEMMA HasParent ==
  ASSUME NEW g, Typed(g), NEW t, NEW W, IsShape(g, t, W), W.end[1] = Len(t) + 1,
         NEW c \in 2 .. Len(t)
  PROVE  \E p \in 1 .. c - 1 : \E k \in 1 .. Arity(g, t[p]) : W.kid[p][k] = c
<1> DEFINE S == {p \in 1 .. c - 1 : W.end[p] > c}
<1>1. Len(t) \in Nat
  BY DEF IsShape
<1>2. 1 \in S /\ S \in SUBSET (0 .. c - 1) /\ c - 1 \in Nat
  BY <1>1
<1> HIDE DEF S
<1>3. PICK p \in S : \A j \in S : j <= p
  BY <1>2, GreatestElement
<1>4. p \in 1 .. c - 1 /\ W.end[p] > c
  BY DEF S
<1>5. ASSUME NEW j \in p + 1 .. c - 1 PROVE W.end[j] <= c
  <2>1. j \in 1 .. Len(t) /\ j \in 1 .. c - 1 /\ ~(j <= p)
    BY <1>1, <1>4
  <2>2. j \notin S
    BY <1>3, <2>1
  <2>3. W.end[j] \in j + 1 .. Len(t) + 1
    BY <2>1, ShapeNumbers DEF EndsIn
  <2> QED
    BY <1>1, <2>1, <2>2, <2>3 DEF S
<1> QED
  BY <1>4, <1>5, InnermostIsParent

-----------------------------------------------------------------------------
(* get_edges reads the shape back.                                         *)

Ar(i) == Arity(graph, tree[i])

Listed ==
  \A i \in Nodes :
    parent[i] # 0 => \E k \in DOMAIN child[parent[i]] : child[parent[i]][k] = i

\* What holds of a tree and its shape from its choice on.
TreeOK(W) ==
  /\ IsTree(graph, graph.root, HBM, tree, W)
  /\ child \in [Nodes -> Seq(Nodes)]
  /\ parent \in [Nodes -> Nodes \cup {0}]
  /\ Listed
  /\ stack \in Seq(Nodes) /\ cursor \in Nat \ {0}

\* get_edges has seen the nodes before the cursor: each has the operands among
\* them as children.
MapsOK(W) ==
  \A i \in Nodes :
    /\ Len(child[i]) <= Ar(i)
    /\ \A k \in 1 .. Ar(i) : k <= Len(child[i]) <=> W.kid[i][k] < cursor
    /\ \A k \in 1 .. Len(child[i]) : child[i][k] = W.kid[i][k] /\ parent[child[i][k]] = i

\* st has the nodes that have the one at c under them, in order.
StackHas(st, c, W) ==
  /\ \A k \in DOMAIN st : st[k] < c /\ W.end[st[k]] > c
  /\ \A j, k \in DOMAIN st : j < k => st[j] < st[k]
  /\ \A i \in 1 .. c - 1 : W.end[i] > c => \E k \in DOMAIN st : st[k] = i

EdgesOK(W) ==
  /\ MapsOK(W) /\ StackHas(stack, cursor, W)
  /\ cursor <= Len(tree) + 1

LEMMA NodesOfTree ==
  ASSUME Typed(graph), NEW W, TreeOK(W)
  PROVE  /\ Nodes = 1 .. Len(tree) /\ Len(tree) \in Nat /\ Len(tree) # 0
         /\ IsShape(graph, tree, W) /\ W.end[1] = Len(tree) + 1
         /\ tree \in Seq(ENodes(graph))
         /\ \A i \in Nodes : Ar(i) \in Nat /\ (IsLeaf(i) <=> Ar(i) = 0)
<1>1. /\ IsShape(graph, tree, W) /\ W.end[1] = Len(tree) + 1 /\ Len(tree) # 0
      /\ tree \in Seq(ENodes(graph))
  BY DEF TreeOK, IsTree, IsShape
<1>2. Nodes = 1 .. Len(tree) /\ Len(tree) \in Nat
  BY <1>1 DEF Nodes
<1>3. ASSUME NEW i \in Nodes PROVE Ar(i) \in Nat /\ (IsLeaf(i) <=> Ar(i) = 0)
  <2>1. tree[i] \in ENodes(graph)
    BY <1>1, <1>2
  <2>2. At(graph, tree[i]).kids \in Seq(Classes(graph))
    BY <2>1 DEF Typed, ENodes, At
  <2> QED
    BY <2>2 DEF Ar, Arity, IsLeaf, EN
<1> QED
  BY <1>1, <1>2, <1>3

\* The top of the stack is the node of which the cursor's is the next operand.
LEMMA TopIsParent ==
  ASSUME Typed(graph), NEW W, TreeOK(W), EdgesOK(W), cursor \in 2 .. Len(tree)
  PROVE  /\ stack # <<>> /\ stack[Len(stack)] \in Nodes /\ stack[Len(stack)] < cursor
         /\ LET top == stack[Len(stack)] IN
            /\ Len(child[top]) + 1 \in 1 .. Ar(top)
            /\ W.kid[top][Len(child[top]) + 1] = cursor
<1>1. /\ Nodes = 1 .. Len(tree) /\ Len(tree) \in Nat /\ IsShape(graph, tree, W)
      /\ W.end[1] = Len(tree) + 1
  BY NodesOfTree
<1>2. stack \in Seq(Nodes) /\ StackHas(stack, cursor, W) /\ MapsOK(W)
  BY DEF TreeOK, EdgesOK
<1>3. \E k \in DOMAIN stack : stack[k] = 1
  <2>1. 1 \in 1 .. cursor - 1 /\ W.end[1] > cursor
    BY <1>1
  <2> QED
    BY <1>2, <2>1 DEF StackHas
<1>4. stack # <<>>
  BY <1>3
<1>5. DOMAIN stack = 1 .. Len(stack) /\ Len(stack) \in Nat /\ Len(stack) # 0
  BY <1>2, <1>4
<1> DEFINE top == stack[Len(stack)]
<1>6. top \in Nodes /\ top < cursor /\ W.end[top] > cursor
  <2>1. Len(stack) \in DOMAIN stack
    BY <1>5
  <2> QED
    BY <1>2, <2>1 DEF StackHas
<1>7. top \in 1 .. cursor - 1
  BY <1>1, <1>6
<1>8. ASSUME NEW j \in top + 1 .. cursor - 1 PROVE W.end[j] <= cursor
  <2>1. j \in 1 .. cursor - 1 /\ j \in 1 .. Len(tree) /\ ~(j <= top)
    BY <1>1, <1>7
  <2>2. W.end[j] \in j + 1 .. Len(tree) + 1
    BY <2>1, <1>1, ShapeNumbers DEF EndsIn
  <2>3. ASSUME W.end[j] > cursor PROVE FALSE
    <3>1. PICK k \in DOMAIN stack : stack[k] = j
      BY <1>2, <2>1, <2>3 DEF StackHas
    <3>2. k = Len(stack) \/ k < Len(stack)
      BY <1>5
    <3>3. k < Len(stack) => j < top
      BY <1>2, <1>5, <3>1 DEF StackHas
    <3> QED
      BY <1>7, <2>1, <3>1, <3>2, <3>3
  <2> QED
    BY <1>1, <2>1, <2>2, <2>3
<1> HIDE DEF top
<1>9. PICK k \in 1 .. Arity(graph, tree[top]) : W.kid[top][k] = cursor
  BY <1>1, <1>6, <1>7, <1>8, InnermostIsParent
<1>10. Ar(top) \in Nat /\ k \in 1 .. Ar(top)
  BY <1>6, NodesOfTree DEF Ar
<1> DEFINE q == Len(child[top])
<1>11. /\ q \in Nat /\ q <= Ar(top)
       /\ \A l \in 1 .. Ar(top) : l <= q <=> W.kid[top][l] < cursor
  <2>1. child[top] \in Seq(Nodes)
    BY <1>6 DEF TreeOK
  <2> QED
    BY <1>2, <1>6, <2>1 DEF MapsOK
<1> HIDE DEF q
<1>12. ~(k <= q)
  BY <1>1, <1>9, <1>10, <1>11
<1>13. k = q + 1
  <2> SUFFICES ASSUME k # q + 1 PROVE FALSE
    OBVIOUS
  <2>1. k - 1 \in 1 .. Ar(top) /\ k - 1 \in 1 .. k /\ k - 1 # k /\ ~(k - 1 <= q)
    BY <1>10, <1>11, <1>12
  <2>2. W.kid[top][k - 1] <= cursor /\ W.kid[top][k - 1] # cursor
    BY <1>1, <1>6, <1>9, <2>1, KidsAscend
  <2>3. W.kid[top][k - 1] \in 1 .. Len(tree)
    BY <1>1, <1>6, <2>1, ShapeNumbers DEF KidsIn, Ar
  <2>4. W.kid[top][k - 1] < cursor
    BY <1>1, <2>2, <2>3
  <2> QED
    BY <1>11, <2>1, <2>4
<1>14. q + 1 \in 1 .. Ar(top) /\ W.kid[top][q + 1] = cursor
  BY <1>9, <1>10, <1>13
<1> QED
  BY <1>4, <1>6, <1>14 DEF top, q

LEMMA EdgeMaps ==
  ASSUME Typed(graph), NEW W, TreeOK(W), EdgesOK(W), Edge
  PROVE  /\ child' \in [Nodes -> Seq(Nodes)] /\ parent' \in [Nodes -> Nodes \cup {0}]
         /\ Listed' /\ MapsOK(W)'
<1> DEFINE top == IF stack = <<>> THEN 0 ELSE stack[Len(stack)]
<1>1. /\ graph' = graph /\ tree' = tree
      /\ cursor <= Len(tree) /\ cursor' = cursor + 1
      /\ parent' = [parent EXCEPT ![cursor] = top]
      /\ child' = IF top = 0 THEN child ELSE [child EXCEPT ![top] = Append(@, cursor)]
  BY DEF Edge
<1>2. /\ Nodes = 1 .. Len(tree) /\ Len(tree) \in Nat /\ IsShape(graph, tree, W)
      /\ \A i \in Nodes : Ar(i) \in Nat
  BY NodesOfTree
<1>3. /\ child \in [Nodes -> Seq(Nodes)] /\ parent \in [Nodes -> Nodes \cup {0}] /\ Listed
      /\ stack \in Seq(Nodes) /\ cursor \in Nat \ {0}
  BY DEF TreeOK
<1>4. cursor \in Nodes /\ Nodes' = Nodes
  BY <1>1, <1>2, <1>3 DEF Nodes
<1>5. MapsOK(W) /\ StackHas(stack, cursor, W)
  BY DEF EdgesOK
<1>6. ASSUME NEW i \in Nodes, NEW k \in 1 .. Ar(i)
      PROVE  W.kid[i][k] \in Nodes /\ W.kid[i][k] > i
  <2> DEFINE x == W.kid[i][k]
             e == W.end[i]
  <2>1. x \in i + 1 .. e - 1 /\ x \in 1 .. Len(tree) /\ e \in i + 1 .. Len(tree) + 1
    BY <1>2, ShapeNumbers DEF KidsIn, EndsIn, Ar
  <2> HIDE DEF x, e
  <2>2. x \in 1 .. Len(tree) /\ x > i
    BY <1>2, <2>1
  <2> QED
    BY <1>2, <2>2 DEF x
<1>7. CASE cursor = 1
  <2>1. stack = <<>>
    <3> SUFFICES ASSUME stack # <<>> PROVE FALSE
      OBVIOUS
    <3>1. 1 \in DOMAIN stack
      BY <1>3
    <3>2. stack[1] < 1 /\ stack[1] \in Nodes
      BY <1>3, <1>5, <1>7, <3>1 DEF StackHas
    <3> QED
      BY <1>2, <3>2
  <2>2. child' = child /\ parent' = [parent EXCEPT ![1] = 0]
    BY <1>1, <1>7, <2>1
  <2>3. \A i \in Nodes : \A k \in 1 .. Ar(i) : ~(W.kid[i][k] < 1) /\ ~(W.kid[i][k] < 2)
    <3> SUFFICES ASSUME NEW i \in Nodes, NEW k \in 1 .. Ar(i)
                 PROVE  ~(W.kid[i][k] < 1) /\ ~(W.kid[i][k] < 2)
      OBVIOUS
    <3>1. W.kid[i][k] \in Nodes /\ W.kid[i][k] > i
      BY <1>6
    <3> QED
      BY <1>2, <3>1
  <2>4. \A i \in Nodes : Len(child[i]) = 0
    <3> SUFFICES ASSUME NEW i \in Nodes, Len(child[i]) # 0 PROVE FALSE
      OBVIOUS
    <3>1. Len(child[i]) \in Nat /\ Len(child[i]) <= Ar(i) /\ Ar(i) \in Nat
      BY <1>2, <1>3, <1>5 DEF MapsOK
    <3>2. 1 \in 1 .. Ar(i) /\ 1 <= Len(child[i])
      BY <3>1
    <3>3. W.kid[i][1] < 1
      BY <1>5, <1>7, <3>2 DEF MapsOK
    <3> QED
      BY <2>3, <3>2, <3>3
  <2>5. child' \in [Nodes -> Seq(Nodes)] /\ parent' \in [Nodes -> Nodes \cup {0}]
    BY <1>3, <1>4, <2>2
  <2>6. MapsOK(W)'
    <3> SUFFICES ASSUME NEW i \in Nodes
                 PROVE  /\ Len(child[i]) <= Ar(i)
                        /\ \A k \in 1 .. Ar(i) : k <= Len(child[i]) <=> W.kid[i][k] < cursor + 1
                        /\ \A k \in 1 .. Len(child[i]) :
                             child[i][k] = W.kid[i][k] /\ parent'[child[i][k]] = i
      BY <1>1, <1>4, <2>2 DEF MapsOK, Ar
    <3>1. Len(child[i]) = 0 /\ Ar(i) \in Nat
      BY <1>2, <2>4
    <3>2. \A k \in 1 .. Ar(i) : ~(k <= 0) /\ ~(W.kid[i][k] < cursor + 1)
      BY <1>7, <2>3
    <3> QED
      BY <3>1, <3>2
  <2>7. Listed'
    <3> SUFFICES ASSUME NEW i \in Nodes, parent'[i] # 0
                 PROVE  \E k \in DOMAIN child[parent'[i]] : child[parent'[i]][k] = i
      BY <1>1, <1>4, <2>2 DEF Listed
    <3>1. parent'[i] = parent[i]
      BY <1>3, <2>2
    <3> QED
      BY <1>3, <3>1 DEF Listed
  <2> QED
    BY <2>5, <2>6, <2>7
<1>8. CASE cursor # 1
  <2>1. cursor \in 2 .. Len(tree)
    BY <1>2, <1>4, <1>8
  <2>2. /\ stack # <<>> /\ top \in Nodes /\ top < cursor /\ top # 0
        /\ Len(child[top]) + 1 \in 1 .. Ar(top)
        /\ W.kid[top][Len(child[top]) + 1] = cursor
    BY <1>2, <2>1, TopIsParent
  <2> HIDE DEF top
  <2> DEFINE q == Len(child[top])
  <2>3. /\ child' = [child EXCEPT ![top] = Append(@, cursor)]
        /\ parent' = [parent EXCEPT ![cursor] = top]
    BY <1>1, <2>2
  <2>4. child[top] \in Seq(Nodes) /\ q \in Nat
    BY <1>3, <2>2
  <2>5. /\ child'[top] = Append(child[top], cursor)
        /\ Len(child'[top]) = q + 1 /\ child'[top][q + 1] = cursor
        /\ \A k \in 1 .. q : child'[top][k] = child[top][k]
        /\ DOMAIN child'[top] = 1 .. q + 1
        /\ child'[top] \in Seq(Nodes)
    <3>1. child'[top] = Append(child[top], cursor)
      BY <1>3, <2>2, <2>3
    <3> DEFINE s == child[top]
    <3>2. s \in Seq(Nodes)
      BY <2>4
    <3> HIDE DEF s
    <3>3. /\ Len(Append(s, cursor)) = Len(s) + 1 /\ Append(s, cursor)[Len(s) + 1] = cursor
          /\ \A k \in 1 .. Len(s) : Append(s, cursor)[k] = s[k]
          /\ DOMAIN Append(s, cursor) = 1 .. Len(s) + 1
          /\ Append(s, cursor) \in Seq(Nodes)
      BY <1>4, <3>2
    <3> QED
      BY <3>1, <3>3 DEF s
  <2>6. \A i \in Nodes : i # top => child'[i] = child[i]
    BY <1>3, <2>3
  <2>7. /\ parent'[cursor] = top
        /\ \A i \in Nodes : i # cursor => parent'[i] = parent[i]
    BY <1>3, <1>4, <2>3
  <2>8. child' \in [Nodes -> Seq(Nodes)]
    <3>1. DOMAIN child' = Nodes /\ child' = [i \in Nodes |-> child'[i]]
      BY <1>3, <2>3
    <3>2. \A i \in Nodes : child'[i] \in Seq(Nodes)
      BY <1>3, <2>5, <2>6
    <3> QED
      BY <3>1, <3>2
  <2>9. parent' \in [Nodes -> Nodes \cup {0}]
    BY <1>3, <1>4, <2>2, <2>3
  <2>10. /\ q + 1 \in 1 .. Ar(top) /\ W.kid[top][q + 1] = cursor
         /\ \A k \in 1 .. Ar(top) : k <= q <=> W.kid[top][k] < cursor
         /\ \A k \in 1 .. q : child[top][k] = W.kid[top][k] /\ parent[child[top][k]] = top
         /\ \A k \in 1 .. q : child[top][k] \in Nodes
    BY <1>5, <2>2, <2>4 DEF MapsOK
  <2>11. ASSUME NEW i \in Nodes, NEW k \in 1 .. Ar(i)
         PROVE  (W.kid[i][k] < cursor + 1) <=> (W.kid[i][k] < cursor \/ (i = top /\ k = q + 1))
    <3>1. W.kid[i][k] \in Nat
      BY <1>2, <1>6
    <3>2. W.kid[i][k] = cursor => i = top /\ k = q + 1
      <4> DEFINE l == q + 1
      <4>1. /\ i \in 1 .. Len(tree) /\ top \in 1 .. Len(tree) /\ W.kid[top][l] = cursor
            /\ k \in 1 .. Arity(graph, tree[i]) /\ l \in 1 .. Arity(graph, tree[top])
        BY <1>2, <2>2, <2>10 DEF Ar
      <4> HIDE DEF l
      <4>2. ASSUME W.kid[i][k] = cursor PROVE i = top /\ k = l
        BY <1>2, <4>1, <4>2, OneParent
      <4> QED
        BY <4>2 DEF l
    <3> QED
      BY <1>2, <1>4, <2>10, <3>1, <3>2, SMTT(30)
  <2> HIDE DEF q
  <2>12. ASSUME NEW i \in Nodes, i # top
         PROVE  /\ Len(child'[i]) <= Ar(i)
                /\ \A k \in 1 .. Ar(i) : k <= Len(child'[i]) <=> W.kid[i][k] < cursor + 1
                /\ \A k \in 1 .. Len(child'[i]) :
                     child'[i][k] = W.kid[i][k] /\ parent'[child'[i][k]] = i
    <3>1. child'[i] = child[i] /\ Len(child[i]) \in Nat
      BY <1>3, <2>6, <2>12
    <3>2. /\ Len(child[i]) <= Ar(i)
          /\ \A k \in 1 .. Ar(i) : k <= Len(child[i]) <=> W.kid[i][k] < cursor
          /\ \A k \in 1 .. Len(child[i]) : child[i][k] = W.kid[i][k] /\ parent[child[i][k]] = i
      BY <1>5 DEF MapsOK
    <3>3. \A k \in 1 .. Ar(i) : k <= Len(child[i]) <=> W.kid[i][k] < cursor + 1
      BY <2>11, <2>12, <3>2
    <3>4. ASSUME NEW k \in 1 .. Len(child[i]) PROVE parent'[child[i][k]] = i
      <4>1. k \in 1 .. Ar(i) /\ k <= Len(child[i])
        BY <1>2, <3>1, <3>2
      <4>2. W.kid[i][k] < cursor /\ child[i][k] = W.kid[i][k] /\ child[i][k] \in Nodes
        BY <1>6, <3>2, <4>1
      <4>3. child[i][k] # cursor
        BY <1>2, <1>4, <4>2
      <4> QED
        BY <2>7, <3>2, <4>2, <4>3
    <3> QED
      BY <3>1, <3>2, <3>3, <3>4
  <2>13. /\ Len(child'[top]) <= Ar(top)
         /\ \A k \in 1 .. Ar(top) : k <= Len(child'[top]) <=> W.kid[top][k] < cursor + 1
         /\ \A k \in 1 .. Len(child'[top]) :
              child'[top][k] = W.kid[top][k] /\ parent'[child'[top][k]] = top
    <3>1. Ar(top) \in Nat /\ q \in Nat
      BY <1>2, <2>2, <2>4
    <3>2. Len(child'[top]) = q + 1 /\ q + 1 <= Ar(top)
      BY <2>5, <2>10, <3>1
    <3>3. ASSUME NEW k \in 1 .. Ar(top) PROVE k <= q + 1 <=> W.kid[top][k] < cursor + 1
      <4>1. k <= q + 1 <=> (k <= q \/ k = q + 1)
        BY <3>1
      <4> QED
        BY <2>2, <2>10, <2>11, <4>1
    <3>4. ASSUME NEW k \in 1 .. q + 1
          PROVE  child'[top][k] = W.kid[top][k] /\ parent'[child'[top][k]] = top
      <4>1. CASE k = q + 1
        BY <2>5, <2>7, <2>10, <4>1
      <4>2. CASE k # q + 1
        <5>1. k \in 1 .. q /\ k \in 1 .. Ar(top) /\ k <= q
          BY <3>1, <3>2, <4>2
        <5>2. child'[top][k] = W.kid[top][k] /\ W.kid[top][k] < cursor /\ W.kid[top][k] \in Nodes
          BY <1>6, <2>2, <2>5, <2>10, <5>1
        <5>3. W.kid[top][k] # cursor
          BY <1>2, <1>4, <5>2
        <5> QED
          BY <2>7, <2>10, <5>1, <5>2, <5>3
      <4> QED
        BY <4>1, <4>2
    <3> QED
      BY <3>2, <3>3, <3>4
  <2>14. MapsOK(W)'
    <3> SUFFICES ASSUME NEW i \in Nodes
                 PROVE  /\ Len(child'[i]) <= Ar(i)
                        /\ \A k \in 1 .. Ar(i) : k <= Len(child'[i]) <=> W.kid[i][k] < cursor + 1
                        /\ \A k \in 1 .. Len(child'[i]) :
                             child'[i][k] = W.kid[i][k] /\ parent'[child'[i][k]] = i
      BY <1>1, <1>4 DEF MapsOK, Ar
    <3> QED
      BY <2>12, <2>13
  <2>15. Listed'
    <3> SUFFICES ASSUME NEW i \in Nodes, parent'[i] # 0
                 PROVE  \E k \in DOMAIN child'[parent'[i]] : child'[parent'[i]][k] = i
      BY <1>1, <1>4 DEF Listed
    <3>1. CASE i = cursor
      <4>1. q + 1 \in DOMAIN child'[top]
        BY <2>4, <2>5 DEF q
      <4> QED
        BY <2>5, <2>7, <3>1, <4>1
    <3>2. CASE i # cursor
      <4>1. parent'[i] = parent[i] /\ parent[i] \in Nodes
        BY <1>3, <2>7, <3>2
      <4>2. PICK k \in DOMAIN child[parent[i]] : child[parent[i]][k] = i
        BY <1>3, <4>1 DEF Listed
      <4>3. k \in DOMAIN child'[parent[i]] /\ child'[parent[i]][k] = i
        <5>1. CASE parent[i] = top
          <6>1. k \in 1 .. q /\ k \in 1 .. q + 1
            BY <2>4, <4>2, <5>1 DEF q
          <6> QED
            BY <2>5, <4>2, <5>1, <6>1
        <5>2. CASE parent[i] # top
          BY <2>6, <4>1, <4>2, <5>2
        <5> QED
          BY <5>1, <5>2
      <4> QED
        BY <4>1, <4>3
    <3> QED
      BY <3>1, <3>2
  <2> QED
    BY <2>8, <2>9, <2>14, <2>15
<1> QED
  BY <1>7, <1>8

\* Popped keeps the nodes of a stack up to the topmost that is not full.
IsPopped(st, children, m) ==
  /\ m \in 0 .. Len(st)
  /\ Popped(st, children) = SubSeq(st, 1, m)
  /\ m # 0 => ~Full(st[m], children)
  /\ \A j \in m + 1 .. Len(st) : Full(st[j], children)

LEMMA PoppedAtOpen ==
  ASSUME NEW S, NEW st \in Seq(S), NEW children
  PROVE  \E m : IsPopped(st, children, m)
<1> DEFINE Stop(k) == /\ k # 0 => ~Full(st[k], children)
                      /\ \A j \in k + 1 .. Len(st) : Full(st[j], children)
           Open == {k \in 1 .. Len(st) : ~Full(st[k], children)}
           m    == CHOOSE k \in 0 .. Len(st) : Stop(k)
<1>1. Len(st) \in Nat
  OBVIOUS
<1>2. \E k \in 0 .. Len(st) : Stop(k)
  <2>1. CASE Open = {}
    BY <1>1, <2>1
  <2>2. CASE Open # {}
    <3>1. Open \in SUBSET (0 .. Len(st))
      BY <1>1
    <3> HIDE DEF Open
    <3>2. PICK k \in Open : \A j \in Open : j <= k
      BY <1>1, <2>2, <3>1, GreatestElement
    <3> USE DEF Open
    <3>3. k \in 1 .. Len(st) /\ ~Full(st[k], children)
      BY <3>2
    <3>4. ASSUME NEW j \in k + 1 .. Len(st) PROVE Full(st[j], children)
      <4>1. j \in 1 .. Len(st) /\ ~(j <= k)
        BY <1>1, <3>3
      <4> QED
        BY <3>2, <4>1
    <3> QED
      BY <1>1, <3>3, <3>4
  <2> QED
    BY <2>1, <2>2
<1>3. m \in 0 .. Len(st) /\ Stop(m)
  <2> HIDE DEF Stop
  <2> QED
    BY <1>2
<1>4. Popped(st, children) = SubSeq(st, 1, m)
  BY DEF Popped
<1> HIDE DEF m
<1> QED
  BY <1>3, <1>4 DEF IsPopped

\* The nodes that end at the node c are full when c is the last one seen.
LEMMA EndedIsFull ==
  ASSUME Typed(graph), NEW W, TreeOK(W), NEW c \in Nodes, NEW ch \in [Nodes -> Seq(Nodes)],
         NEW i \in Nodes,
         Len(ch[i]) <= Ar(i),
         \A k \in 1 .. Ar(i) : k <= Len(ch[i]) <=> W.kid[i][k] < c + 1,
         W.end[i] <= c + 1
  PROVE  Full(i, ch)
<1>1. Len(ch[i]) \in Nat /\ Ar(i) \in Nat /\ Len(tree) \in Nat /\ IsShape(graph, tree, W)
      /\ Nodes = 1 .. Len(tree)
  BY NodesOfTree
<1>2. Len(ch[i]) = Ar(i)
  <2> SUFFICES ASSUME Len(ch[i]) # Ar(i) PROVE FALSE
    OBVIOUS
  <2> DEFINE k == Ar(i)
  <2>1. k \in 1 .. Ar(i) /\ ~(k <= Len(ch[i]))
    BY <1>1
  <2> DEFINE x == W.kid[i][k]
             e == W.end[i]
  <2>2. x \in i + 1 .. e - 1 /\ e \in i + 1 .. Len(tree) + 1 /\ e <= c + 1
    BY <1>1, <2>1, ShapeNumbers DEF KidsIn, EndsIn, Ar
  <2>3. ~(x < c + 1)
    BY <2>1
  <2> HIDE DEF x, e
  <2> QED
    BY <1>1, <2>2, <2>3
<1> QED
  BY <1>2 DEF Full, Ar, Arity, EN

LEMMA EdgeStack ==
  ASSUME Typed(graph), NEW W, TreeOK(W), EdgesOK(W), Edge, MapsOK(W)',
         child' \in [Nodes -> Seq(Nodes)]
  PROVE  stack' \in Seq(Nodes) /\ StackHas(stack', cursor + 1, W)
<1> DEFINE longer == Append(stack, cursor)
           c == cursor
           n == Len(stack)
<1>1. /\ graph' = graph /\ tree' = tree /\ cursor' = cursor + 1 /\ cursor <= Len(tree)
      /\ stack' = IF IsLeaf(cursor) THEN Popped(longer, child') ELSE longer
  BY DEF Edge
<1>2. /\ Nodes = 1 .. Len(tree) /\ Len(tree) \in Nat /\ IsShape(graph, tree, W)
      /\ \A i \in Nodes : Ar(i) \in Nat /\ (IsLeaf(i) <=> Ar(i) = 0)
  BY NodesOfTree
<1>3. stack \in Seq(Nodes) /\ c \in Nat \ {0} /\ StackHas(stack, c, W) /\ c \in Nodes
  BY <1>1, <1>2 DEF TreeOK, EdgesOK
<1>4. /\ longer \in Seq(Nodes) /\ Len(longer) = n + 1 /\ n \in Nat /\ longer[n + 1] = c
      /\ \A k \in 1 .. n : longer[k] = stack[k] /\ stack[k] \in Nodes
      /\ DOMAIN stack = 1 .. n /\ DOMAIN longer = 1 .. n + 1
  BY <1>3
<1>5. /\ \A k \in 1 .. n : stack[k] < c /\ W.end[stack[k]] > c
      /\ \A j, k \in 1 .. n : j < k => stack[j] < stack[k]
      /\ \A i \in 1 .. c - 1 : W.end[i] > c => \E k \in 1 .. n : stack[k] = i
  BY <1>3, <1>4 DEF StackHas
<1> HIDE DEF longer
<1>6. \A i \in Nodes : W.end[i] \in Nat /\ W.end[i] > i
  <2> SUFFICES ASSUME NEW i \in Nodes PROVE W.end[i] \in Nat /\ W.end[i] > i
    OBVIOUS
  <2> DEFINE e == W.end[i]
  <2>1. e \in i + 1 .. Len(tree) + 1
    BY <1>2, ShapeNumbers DEF EndsIn
  <2> HIDE DEF e
  <2>2. e \in Nat /\ e > i
    BY <1>2, <2>1
  <2> QED
    BY <2>2 DEF e
<1>7. /\ \A k \in 1 .. n + 1 : longer[k] < c + 1 /\ longer[k] \in Nodes
      /\ \A j, k \in 1 .. n + 1 : j < k => longer[j] < longer[k]
      /\ \A i \in 1 .. c : W.end[i] > c + 1 => \E k \in 1 .. n + 1 : longer[k] = i
  <2>1. ASSUME NEW k \in 1 .. n + 1 PROVE longer[k] < c + 1 /\ longer[k] \in Nodes
    <3>1. CASE k = n + 1
      BY <1>2, <1>3, <1>4, <3>1
    <3>2. CASE k # n + 1
      <4>1. k \in 1 .. n
        BY <1>4, <3>2
      <4>2. longer[k] = stack[k] /\ stack[k] \in Nodes /\ stack[k] < c
        BY <1>4, <1>5, <4>1
      <4> QED
        BY <1>2, <1>3, <4>2
    <3> QED
      BY <3>1, <3>2
  <2>2. ASSUME NEW j \in 1 .. n + 1, NEW k \in 1 .. n + 1, j < k PROVE longer[j] < longer[k]
    <3>0. n \in Nat
      BY <1>4
    <3> HIDE DEF n
    <3>1. j \in 1 .. n /\ (k = n + 1 \/ k \in 1 .. n)
      BY <2>2, <3>0
    <3> QED
      BY <1>4, <1>5, <2>2, <3>1
  <2>3. ASSUME NEW i \in 1 .. c, W.end[i] > c + 1 PROVE \E k \in 1 .. n + 1 : longer[k] = i
    <3>1. CASE i = c
      <4>1. n + 1 \in 1 .. n + 1
        BY <1>4
      <4> QED
        BY <1>4, <3>1, <4>1
    <3>2. CASE i # c
      <4>1. i \in 1 .. c - 1 /\ i \in Nodes
        BY <1>2, <1>3, <3>2
      <4>2. W.end[i] > c
        BY <1>3, <1>6, <2>3, <4>1
      <4>3. PICK k \in 1 .. n : stack[k] = i
        BY <1>5, <4>1, <4>2
      <4>4. k \in 1 .. n + 1 /\ longer[k] = i
        BY <1>4, <4>3
      <4> QED
        BY <4>4
    <3> QED
      BY <3>1, <3>2
  <2> QED
    BY <2>1, <2>2, <2>3
\* c is under the nodes of the stack.
<1>8. ASSUME NEW k \in 1 .. n + 1 PROVE W.end[longer[k]] >= W.end[c]
  <2>1. CASE k = n + 1
    BY <1>3, <1>4, <1>6, <2>1
  <2>2. CASE k # n + 1
    <3>1. k \in 1 .. n
      BY <1>4, <2>2
    <3> DEFINE i == stack[k]
               e == W.end[i]
    <3>2. i \in Nodes /\ i < c /\ e > c /\ longer[k] = i /\ e \in Nat
      BY <1>4, <1>5, <1>6, <3>1
    <3>3. EndsIn(graph, tree, W, i)
      BY <1>2, <3>2, ShapeNumbers
    <3>6. c \in Nat /\ i \in Nat
      BY <1>2, <1>3, <3>2
    <3> HIDE DEF i, e
    <3>4. c \in i + 1 .. e - 1
      BY <3>2, <3>6
    <3> USE DEF e
    <3>5. W.end[c] <= W.end[i]
      BY <3>3, <3>4 DEF EndsIn
    <3> QED
      BY <1>3, <1>6, <3>2, <3>5
  <2> QED
    BY <2>1, <2>2
<1>9. CASE ~IsLeaf(cursor)
  <2>1. stack' = longer
    BY <1>1, <1>9
  <2>2. W.end[c] > c + 1
    <3>1. Ar(c) # 0
      BY <1>2, <1>3, <1>9
    <3>2. 1 \in 1 .. Ar(c)
      BY <1>2, <1>3, <3>1
    <3> DEFINE e == W.end[c]
               x == W.kid[c][1]
    <3>3. x = c + 1 /\ x \in c + 1 .. e - 1 /\ e \in Nat
      BY <1>2, <1>3, <1>6, <3>1, <3>2, ShapeNumbers DEF KidsIn, Ar
    <3> HIDE DEF e, x
    <3>4. e > c + 1
      BY <1>3, <3>3
    <3> QED
      BY <3>4 DEF e
  <2>3. \A k \in 1 .. n + 1 : W.end[longer[k]] > c + 1
    <3> SUFFICES ASSUME NEW k \in 1 .. n + 1 PROVE W.end[longer[k]] > c + 1
      OBVIOUS
    <3>1. W.end[longer[k]] \in Nat /\ W.end[longer[k]] >= W.end[c] /\ W.end[c] \in Nat
      BY <1>3, <1>6, <1>7, <1>8
    <3> QED
      BY <1>3, <2>2, <3>1
  <2>4. (c + 1) - 1 = c
    BY <1>3
  <2> QED
    BY <1>4, <1>7, <2>1, <2>3, <2>4 DEF StackHas
<1>10. CASE IsLeaf(cursor)
  <2> DEFINE ch == child'
  <2>1. PICK m : IsPopped(longer, ch, m)
    BY <1>4, PoppedAtOpen
  <2>2. /\ m \in 0 .. n + 1 /\ stack' = SubSeq(longer, 1, m)
        /\ m # 0 => ~Full(longer[m], ch)
        /\ \A j \in m + 1 .. n + 1 : Full(longer[j], ch)
    BY <1>1, <1>4, <1>10, <2>1 DEF IsPopped
  <2>3. \A i \in Nodes :
          /\ Len(ch[i]) <= Ar(i)
          /\ \A k \in 1 .. Ar(i) : k <= Len(ch[i]) <=> W.kid[i][k] < c + 1
    BY <1>1 DEF MapsOK, Ar, Nodes
  <2>4. ch \in [Nodes -> Seq(Nodes)]
    OBVIOUS
  <2> HIDE DEF ch
  <2>5. W.end[c] = c + 1
    <3>1. Ar(c) = 0
      BY <1>2, <1>3, <1>10
    <3> QED
      BY <1>2, <1>3, <3>1, ShapeNumbers DEF KidsIn, Ar
  <2>6. ASSUME NEW j \in 1 .. m PROVE W.end[longer[j]] > c + 1
    <3> DEFINE x == longer[m]
               i == longer[j]
    <3>1. m \in 1 .. n + 1 /\ j \in 1 .. n + 1 /\ m # 0
      BY <1>4, <2>2
    <3>2. x \in Nodes /\ i \in Nodes /\ x < c + 1
      BY <1>7, <3>1
    <3>3. ~(W.end[x] <= c + 1)
      <4>1. ~Full(x, ch)
        BY <2>2, <3>1
      <4> HIDE DEF x
      <4> QED
        BY <1>3, <2>3, <2>4, <3>2, <4>1, EndedIsFull
    <3>4. CASE j = m
      <4>1. W.end[x] \in Nat /\ c \in Nat
        BY <1>3, <1>6, <3>2
      <4>2. x = i
        BY <3>4
      <4> HIDE DEF x, i
      <4>3. W.end[x] > c + 1
        BY <3>3, <4>1
      <4> QED
        BY <4>2, <4>3 DEF i
    <3>5. CASE j # m
      <4>1. i < x
        BY <1>7, <2>2, <3>1, <3>5
      <4>2. W.end[i] >= W.end[c] /\ W.end[i] \in Nat /\ W.end[x] \in Nat
        BY <1>6, <1>8, <3>1, <3>2
      <4>3. EndsIn(graph, tree, W, i)
        BY <1>2, <3>2, ShapeNumbers
      <4> HIDE DEF x, i
      <4> DEFINE e == W.end[i]
      <4>4. e \in Nat /\ e >= c + 1
        BY <2>5, <4>2
      <4>5. x \in i + 1 .. e - 1
        <5> HIDE DEF e
        <5> QED
          BY <1>2, <1>3, <3>2, <4>1, <4>4
      <4>6. W.end[x] <= W.end[i]
        BY <4>3, <4>5 DEF EndsIn
      <4>7. W.end[i] > c + 1
        BY <1>3, <3>3, <4>2, <4>6
      <4> QED
        BY <4>7 DEF i
    <3> QED
      BY <3>4, <3>5
  <2> DEFINE Late == {j \in m + 1 .. n + 1 : W.end[longer[j]] > c + 1}
  <2>7. ASSUME Late # {} PROVE FALSE
    <3>1. Late \in SUBSET (0 .. n + 1) /\ n + 1 \in Nat
      BY <1>4, <2>2
    <3> HIDE DEF Late
    <3>2. PICK j \in Late : \A l \in Late : l <= j
      BY <2>7, <3>1, GreatestElement
    <3>3. j \in m + 1 .. n + 1 /\ W.end[longer[j]] > c + 1 /\ j \in 1 .. n + 1
      BY <1>4, <2>2 DEF Late
    <3> DEFINE x == longer[j]
    <3>4. x \in Nodes /\ x < c + 1 /\ Full(x, ch) /\ W.end[x] > c + 1
      BY <1>7, <2>2, <3>3
    <3> HIDE DEF x
    <3>5. Len(ch[x]) = Ar(x) /\ Ar(x) \in Nat
      BY <1>2, <3>4 DEF Full, Ar, Arity, EN
    <3>6. CASE Ar(x) = 0
      <4>1. W.end[x] = x + 1
        BY <1>2, <3>4, <3>6, ShapeNumbers DEF KidsIn, Ar
      <4> QED
        BY <1>2, <1>3, <3>4, <4>1
    <3>7. CASE Ar(x) # 0
      <4> DEFINE l == W.kid[x][Ar(x)]
      <4>1. Ar(x) \in 1 .. Ar(x) /\ Ar(x) <= Len(ch[x])
        BY <3>5, <3>7
      <4>2. l < c + 1
        BY <2>3, <3>4, <4>1
      <4>3. l \in Nodes /\ W.end[l] = W.end[x]
        BY <1>2, <3>4, <3>7, <4>1, ShapeNumbers DEF KidsIn, Ar
      <4>4. l > x
        <5> DEFINE e == W.end[x]
        <5>1. l \in x + 1 .. e - 1 /\ e \in Nat
          BY <1>2, <1>6, <3>4, <4>1, ShapeNumbers DEF KidsIn, Ar
        <5> HIDE DEF l, e
        <5> QED
          BY <1>2, <3>4, <5>1
      <4> HIDE DEF l
      <4>5. l \in 1 .. c /\ W.end[l] > c + 1
        BY <1>2, <1>3, <3>4, <4>2, <4>3
      <4>6. PICK k \in 1 .. n + 1 : longer[k] = l
        BY <1>7, <4>5
      <4>7. k > j
        <5>1. k = j => FALSE
          BY <1>2, <3>4, <4>3, <4>4, <4>6 DEF x
        <5>2. k < j => l < x
          BY <1>7, <3>3, <4>6 DEF x
        <5> QED
          BY <1>2, <1>4, <3>3, <3>4, <4>3, <4>4, <5>1, <5>2
      <4>8. k \in Late
        <5>1. k \in m + 1 .. n + 1
          BY <1>4, <2>2, <3>3, <4>7
        <5> QED
          BY <4>5, <4>6, <5>1 DEF Late
      <4> QED
        BY <1>4, <3>2, <3>3, <4>7, <4>8
    <3> QED
      BY <3>6, <3>7
  <2>8. /\ stack' \in Seq(Nodes) /\ DOMAIN stack' = 1 .. m /\ m \in Nat
        /\ \A k \in 1 .. m : stack'[k] = longer[k] /\ k \in 1 .. n + 1
    <3> DEFINE s == SubSeq(longer, 1, m)
    <3>1. longer \in Seq(Nodes) /\ m \in 0 .. Len(longer)
      BY <1>4, <2>2
    <3>2. s \in Seq(Nodes) /\ DOMAIN s = 1 .. m /\ \A k \in 1 .. m : s[k] = longer[k]
      BY <3>1
    <3> HIDE DEF s
    <3> QED
      BY <1>4, <2>2, <3>2 DEF s
  <2>9. ASSUME NEW i \in 1 .. c, W.end[i] > c + 1 PROVE \E k \in 1 .. m : stack'[k] = i
    <3>1. PICK k \in 1 .. n + 1 : longer[k] = i
      BY <1>7, <2>9
    <3>2. k \notin m + 1 .. n + 1
      BY <2>7, <2>9, <3>1
    <3>3. k \in 1 .. m
      BY <1>4, <2>2, <3>2
    <3> QED
      BY <2>8, <3>1, <3>3
  <2>10. (c + 1) - 1 = c
    BY <1>3
  <2>11. \A k \in 1 .. m : stack'[k] < c + 1 /\ W.end[stack'[k]] > c + 1
    BY <1>7, <2>6, <2>8
  <2>12. \A j, k \in 1 .. m : j < k => stack'[j] < stack'[k]
    BY <1>7, <2>8
  <2> QED
    BY <2>8, <2>9, <2>10, <2>11, <2>12 DEF StackHas
<1> QED
  BY <1>9, <1>10

LEMMA EdgeStep ==
  ASSUME Typed(graph), NEW W, TreeOK(W), EdgesOK(W), Edge
  PROVE  TreeOK(W)' /\ EdgesOK(W)'
<1>1. /\ graph' = graph /\ tree' = tree /\ cursor' = cursor + 1 /\ cursor <= Len(tree)
  BY DEF Edge
<1>2. /\ child' \in [Nodes -> Seq(Nodes)] /\ parent' \in [Nodes -> Nodes \cup {0}]
      /\ Listed' /\ MapsOK(W)'
  BY EdgeMaps
<1>3. stack' \in Seq(Nodes) /\ StackHas(stack', cursor', W)
  BY <1>1, <1>2, EdgeStack
<1>4. Nodes' = Nodes /\ Len(tree) \in Nat /\ cursor \in Nat \ {0}
  BY <1>1, NodesOfTree DEF Nodes, TreeOK
<1>5. TreeOK(W)'
  BY <1>1, <1>2, <1>3, <1>4 DEF TreeOK
<1>6. StackHas(stack, cursor, W)'
  BY <1>1, <1>3 DEF StackHas
<1>7. cursor' <= Len(tree') + 1
  BY <1>1, <1>4
<1> QED
  BY <1>2, <1>5, <1>6, <1>7 DEF EdgesOK

-----------------------------------------------------------------------------
(* Merging.                                                                *)

\* Among the children ch has each node those of its operands, or nodes with the
\* same e-nodes.
Keeps(ch, W) ==
  /\ ch \in [Nodes -> Seq(Nodes)]
  /\ \A i \in Nodes :
       /\ Len(ch[i]) = Ar(i)
       /\ \A k \in 1 .. Ar(i) : tree[ch[i][k]] = tree[W.kid[i][k]]

\* Only leaves have been merged.
LeavesOnly(ch, W) ==
  \A i \in Nodes : \A k \in 1 .. Ar(i) : ch[i][k] = W.kid[i][k] \/ Ar(W.kid[i][k]) = 0

\* No nodes of S are each other's children all round.
Acyclic(ch, S) ==
  \A R \in SUBSET S : R # {} => \E i \in R : \A k \in 1 .. Ar(i) : ch[i][k] \notin R

\* A child comes behind its parent, unless merging has put an earlier node in
\* its place, which is done then.
Forward ==
  \A i \in Nodes : \A k \in 1 .. Ar(i) : child[i][k] > i \/ child[i][k] \in processed

\* The e-nodes that are done are known by a node that is done.
NumbersOK ==
  /\ processed \subseteq Nodes
  /\ DOMAIN idx_map = {tree[i] : i \in processed}
  /\ \A n \in DOMAIN idx_map : idx_map[n] \in processed /\ tree[idx_map[n]] = n

\* A child that is done is the one that stands for its e-node; one that is not
\* is nobody else's child.
SharedOK ==
  \A i \in Nodes : \A k \in 1 .. Ar(i) :
    IF child[i][k] \in processed THEN child[i][k] = idx_map[tree[child[i][k]]]
    ELSE /\ parent[child[i][k]] = i
         /\ \A l \in 1 .. Ar(i) : child[i][l] = child[i][k] => l = k

MergeOK(W) ==
  /\ Keeps(child, W) /\ Forward /\ NumbersOK /\ SharedOK
  /\ \A i \in processed : \A k \in 1 .. Ar(i) : child[i][k] \in processed
  /\ Acyclic(child, processed)

\* What Done does to the edges: the parent of a duplicate is given the node
\* that stands for it.
Moved(i, k) ==
  IF child[i][k] = cursor /\ ~IsNew(cursor) THEN child'[i][k] = idx_map[tree[cursor]]
  ELSE child'[i][k] = child[i][k]

Moves ==
  /\ child' \in [Nodes -> Seq(Nodes)]
  /\ \A i \in Nodes : Len(child'[i]) = Len(child[i]) /\ \A k \in 1 .. Ar(i) : Moved(i, k)
  /\ parent' \in [Nodes -> Nodes \cup {0}]
  /\ \A i \in Nodes : parent'[i] = IF i = cursor /\ ~IsNew(cursor) THEN 0 ELSE parent[i]

LEMMA DoneMoves ==
  ASSUME Typed(graph), NEW W, TreeOK(W), MergeOK(W), cursor \in Nodes, cursor \notin processed, Done
  PROVE  Moves
<1>1. /\ child \in [Nodes -> Seq(Nodes)] /\ parent \in [Nodes -> Nodes \cup {0}] /\ Listed
      /\ Keeps(child, W) /\ NumbersOK /\ SharedOK
  BY DEF TreeOK, MergeOK
<1>2. \A i \in Nodes : DOMAIN child[i] = 1 .. Ar(i) /\ Len(child[i]) = Ar(i) /\ Ar(i) \in Nat
  BY <1>1, NodesOfTree DEF Keeps
<1>3. \A i \in Nodes : \A k \in 1 .. Ar(i) :
        child[i][k] = cursor =>
          /\ parent[cursor] = i
          /\ \A l \in 1 .. Ar(i) : child[i][l] = cursor => l = k
  BY <1>1 DEF SharedOK
<1>4. Nodes = 1 .. Len(tree) /\ Len(tree) \in Nat
  BY NodesOfTree
<1>5. CASE IsNew(cursor)
  <2>1. child' = child /\ parent' = parent
    BY <1>5 DEF Done, edges
  <2> QED
    BY <1>1, <1>5, <2>1 DEF Moves, Moved
<1>6. CASE ~IsNew(cursor) /\ parent[cursor] = 0
  <2>1. child' = child /\ parent' = parent
    BY <1>6 DEF Done, edges
  <2>2. \A i \in Nodes : \A k \in 1 .. Ar(i) : child[i][k] # cursor
    BY <1>3, <1>4, <1>6
  <2>3. \A i \in Nodes : parent'[i] = IF i = cursor /\ ~IsNew(cursor) THEN 0 ELSE parent[i]
    BY <1>6, <2>1
  <2> QED
    BY <1>1, <2>1, <2>2, <2>3 DEF Moves, Moved
<1>7. CASE ~IsNew(cursor) /\ parent[cursor] # 0
  <2> DEFINE p   == parent[cursor]
             s   == child[p]
             at  == Position(s, cursor)
             new == idx_map[tree[cursor]]
  <2>1. /\ child' = [child EXCEPT ![p][at] = new]
        /\ parent' = [parent EXCEPT ![cursor] = 0]
    BY <1>7 DEF Done, Redirect
  <2>2. p \in Nodes /\ s \in Seq(Nodes) /\ tree[cursor] \in DOMAIN idx_map
    BY <1>1, <1>7 DEF IsNew
  <2>3. new \in Nodes
    BY <1>1, <2>2 DEF NumbersOK
  <2>4. at \in DOMAIN s /\ s[at] = cursor
    <3>1. PICK k \in DOMAIN s : s[k] = cursor
      BY <1>1, <1>7 DEF Listed
    <3>2. \A j \in DOMAIN s : s[j] = cursor => j = k
      BY <1>2, <1>3, <2>2, <3>1
    <3>3. DOMAIN s = 1 .. Len(s) /\ Len(s) \in Nat
      BY <2>2
    <3>4. \A j \in 1 .. k - 1 : j \in DOMAIN s /\ j # k
      BY <3>3
    <3>5. \E i \in DOMAIN s : s[i] = cursor /\ \A j \in 1 .. i - 1 : s[j] # cursor
      BY <3>1, <3>2, <3>4
    <3> HIDE DEF s
    <3> QED
      BY <3>5 DEF Position
  <2>5. at \in 1 .. Ar(p)
    BY <1>2, <2>2, <2>4
  <2> HIDE DEF at, new
  <2>6. child' = [child EXCEPT ![p] = [s EXCEPT ![at] = new]]
    BY <2>1
  <2>7. [s EXCEPT ![at] = new] \in Seq(Nodes) /\ Len([s EXCEPT ![at] = new]) = Len(s)
    BY <2>2, <2>3, <2>4
  <2>8. child' \in [Nodes -> Seq(Nodes)] /\ parent' \in [Nodes -> Nodes \cup {0}]
    BY <1>1, <2>1, <2>2, <2>6, <2>7
  <2>9. /\ child'[p] = [s EXCEPT ![at] = new]
        /\ \A i \in Nodes : i # p => child'[i] = child[i]
    BY <1>1, <2>2, <2>6
  <2>10. ASSUME NEW i \in Nodes PROVE Len(child'[i]) = Len(child[i])
    BY <2>7, <2>9
  <2>11. ASSUME NEW i \in Nodes, NEW k \in 1 .. Ar(i) PROVE Moved(i, k)
    <3>1. CASE i = p /\ k = at
      <4>1. child'[i][k] = new /\ child[i][k] = cursor
        BY <2>4, <2>9, <3>1
      <4> QED
        BY <1>7, <4>1 DEF Moved, new
    <3>2. CASE ~(i = p /\ k = at)
      <4>1. child[i][k] # cursor
        <5>1. child[p][at] = cursor
          BY <2>4
        <5> QED
          BY <1>3, <2>2, <2>5, <3>2, <5>1
      <4>2. child'[i][k] = child[i][k]
        <5>1. CASE i = p
          BY <1>2, <2>2, <2>9, <3>2, <5>1
        <5>2. CASE i # p
          BY <2>9, <5>2
        <5> QED
          BY <5>1, <5>2
      <4> QED
        BY <4>1, <4>2 DEF Moved
    <3> QED
      BY <3>1, <3>2
  <2>12. \A i \in Nodes : parent'[i] = IF i = cursor /\ ~IsNew(cursor) THEN 0 ELSE parent[i]
    BY <1>1, <1>7, <2>1
  <2> QED
    BY <2>8, <2>10, <2>11, <2>12 DEF Moves
<1> QED
  BY <1>5, <1>6, <1>7

LEMMA DoneNumbers ==
  ASSUME Typed(graph), NEW W, TreeOK(W), NumbersOK, cursor \in Nodes, Done, tree' = tree
  PROVE  /\ NumbersOK' /\ processed' = processed \cup {cursor}
         /\ \A n \in DOMAIN idx_map : n \in DOMAIN idx_map' /\ idx_map'[n] = idx_map[n]
         /\ IsNew(cursor) => idx_map'[tree[cursor]] = cursor
         /\ ~IsNew(cursor) => tree[cursor] \in DOMAIN idx_map
<1>1. processed' = processed \cup {cursor} /\ Nodes' = Nodes
  BY DEF Done, Nodes
<1>2. /\ processed \subseteq Nodes /\ DOMAIN idx_map = {tree[i] : i \in processed}
      /\ \A n \in DOMAIN idx_map : idx_map[n] \in processed /\ tree[idx_map[n]] = n
  BY DEF NumbersOK
<1>3. CASE IsNew(cursor)
  <2>1. idx_map' = Inserted(idx_map, tree[cursor], cursor) /\ tree[cursor] \notin DOMAIN idx_map
    BY <1>3 DEF Done, IsNew
  <2>2. /\ DOMAIN idx_map' = DOMAIN idx_map \cup {tree[cursor]}
        /\ idx_map'[tree[cursor]] = cursor
        /\ \A n \in DOMAIN idx_map : n \in DOMAIN idx_map' /\ idx_map'[n] = idx_map[n]
    BY <2>1 DEF Inserted
  <2>3. DOMAIN idx_map' = {tree[i] : i \in processed'}
    BY <1>1, <1>2, <2>2
  <2>4. \A n \in DOMAIN idx_map' : idx_map'[n] \in processed' /\ tree[idx_map'[n]] = n
    BY <1>1, <1>2, <2>2
  <2> QED
    BY <1>1, <1>2, <1>3, <2>2, <2>3, <2>4 DEF NumbersOK
<1>4. CASE ~IsNew(cursor)
  <2>1. idx_map' = idx_map /\ tree[cursor] \in DOMAIN idx_map
    BY <1>4 DEF Done, IsNew
  <2>2. DOMAIN idx_map' = {tree[i] : i \in processed'}
    BY <1>1, <1>2, <2>1
  <2> QED
    BY <1>1, <1>2, <1>4, <2>1, <2>2 DEF NumbersOK
<1> QED
  BY <1>3, <1>4

\* A node whose children are done is done, and its duplicate gives way.
LEMMA DoneStep ==
  ASSUME Typed(graph), NEW W, TreeOK(W), MergeOK(W), cursor \in Nodes, cursor \notin processed,
         \A k \in 1 .. Ar(cursor) : child[cursor][k] \in processed,
         Done, tree' = tree, graph' = graph
  PROVE  MergeOK(W)' /\ Listed' /\ Moves
<1>1. Moves
  BY DoneMoves
<1>2. /\ child \in [Nodes -> Seq(Nodes)] /\ parent \in [Nodes -> Nodes \cup {0}] /\ Listed
      /\ Keeps(child, W) /\ Forward /\ NumbersOK /\ SharedOK
      /\ \A i \in processed : \A k \in 1 .. Ar(i) : child[i][k] \in processed
      /\ Acyclic(child, processed)
  BY DEF TreeOK, MergeOK
<1>3. /\ NumbersOK' /\ processed' = processed \cup {cursor}
      /\ \A n \in DOMAIN idx_map : n \in DOMAIN idx_map' /\ idx_map'[n] = idx_map[n]
      /\ IsNew(cursor) => idx_map'[tree[cursor]] = cursor
      /\ ~IsNew(cursor) => tree[cursor] \in DOMAIN idx_map
  BY <1>2, DoneNumbers
<1>4. /\ Nodes' = Nodes /\ \A i : Ar(i)' = Ar(i)
      /\ \A i \in Nodes : Ar(i) \in Nat /\ DOMAIN child[i] = 1 .. Ar(i) /\ Len(child[i]) = Ar(i)
      /\ \A i \in Nodes : \A k \in 1 .. Ar(i) : child[i][k] \in Nodes
  <2>1. Nodes' = Nodes /\ \A i : Ar(i)' = Ar(i)
    BY DEF Nodes, Ar
  <2>2. \A i \in Nodes : Ar(i) \in Nat /\ DOMAIN child[i] = 1 .. Ar(i) /\ Len(child[i]) = Ar(i)
    BY <1>2, NodesOfTree DEF Keeps
  <2> QED
    BY <1>2, <2>1, <2>2
<1> DEFINE new == idx_map[tree[cursor]]
<1>5. /\ processed \subseteq Nodes
      /\ \A n \in DOMAIN idx_map : idx_map[n] \in processed /\ tree[idx_map[n]] = n
      /\ \A i \in processed : tree[i] \in DOMAIN idx_map
  BY <1>2 DEF NumbersOK
<1>6. ~IsNew(cursor) => new \in processed /\ tree[new] = tree[cursor]
  BY <1>3, <1>5
<1> HIDE DEF new
<1>7. /\ child' \in [Nodes -> Seq(Nodes)] /\ \A i \in Nodes : Len(child'[i]) = Ar(i)
      /\ \A i \in Nodes : \A k \in 1 .. Ar(i) :
           IF child[i][k] = cursor /\ ~IsNew(cursor) THEN child'[i][k] = new
           ELSE child'[i][k] = child[i][k]
      /\ \A i \in Nodes : parent'[i] = IF i = cursor /\ ~IsNew(cursor) THEN 0 ELSE parent[i]
      /\ parent' \in [Nodes -> Nodes \cup {0}]
  BY <1>1, <1>4 DEF Moves, Moved, new
<1>8. Keeps(child, W)'
  <2> SUFFICES ASSUME NEW i \in Nodes, NEW k \in 1 .. Ar(i)
               PROVE  tree[child'[i][k]] = tree[W.kid[i][k]]
    BY <1>4, <1>7 DEF Keeps
  <2>1. tree[child[i][k]] = tree[W.kid[i][k]]
    BY <1>2 DEF Keeps
  <2> QED
    BY <1>6, <1>7, <2>1
<1>9. Forward'
  <2> SUFFICES ASSUME NEW i \in Nodes, NEW k \in 1 .. Ar(i)
               PROVE  child'[i][k] > i \/ child'[i][k] \in processed'
    BY <1>4 DEF Forward
  <2> QED
    BY <1>2, <1>3, <1>6, <1>7 DEF Forward
<1>10. SharedOK'
  <2> SUFFICES ASSUME NEW i \in Nodes, NEW k \in 1 .. Ar(i)
               PROVE  IF child'[i][k] \in processed' THEN child'[i][k] =
                        idx_map'[tree[child'[i][k]]]
                      ELSE /\ parent'[child'[i][k]] = i
                           /\ \A l \in 1 .. Ar(i) : child'[i][l] = child'[i][k] => l = k
    BY <1>4 DEF SharedOK
  <2>1. CASE child[i][k] = cursor /\ ~IsNew(cursor)
    <3>1. child'[i][k] = new /\ new \in processed'
      BY <1>3, <1>6, <1>7, <2>1
    <3>2. idx_map'[tree[new]] = idx_map[tree[cursor]]
      BY <1>3, <1>6, <2>1
    <3> QED
      BY <3>1, <3>2 DEF new
  <2>2. CASE child[i][k] = cursor /\ IsNew(cursor)
    <3>1. child'[i][k] = cursor
      BY <1>7, <2>2
    <3> QED
      BY <1>3, <2>2, <3>1
  <2>3. CASE child[i][k] # cursor
    <3>1. child'[i][k] = child[i][k] /\ child[i][k] \in Nodes
      BY <1>4, <1>7, <2>3
    <3>2. CASE child[i][k] \in processed
      <4>1. child[i][k] = idx_map[tree[child[i][k]]] /\ tree[child[i][k]] \in DOMAIN idx_map
        BY <1>2, <1>5, <3>2 DEF SharedOK
      <4> QED
        BY <1>3, <3>1, <3>2, <4>1
    <3>3. CASE child[i][k] \notin processed
      <4>1. /\ parent[child[i][k]] = i
            /\ \A l \in 1 .. Ar(i) : child[i][l] = child[i][k] => l = k
        BY <1>2, <3>3 DEF SharedOK
      <4>2. parent'[child[i][k]] = i
        BY <1>7, <2>3, <3>1, <4>1
      <4>3. ASSUME NEW l \in 1 .. Ar(i), child'[i][l] = child[i][k] PROVE l = k
        BY <1>6, <1>7, <3>3, <4>1, <4>3
      <4>4. child[i][k] \notin processed'
        BY <1>3, <2>3, <3>3
      <4> QED
        BY <3>1, <4>2, <4>3, <4>4
    <3> QED
      BY <3>2, <3>3
  <2> QED
    BY <2>1, <2>2, <2>3
<1>11. \A i \in processed' : \A k \in 1 .. Ar(i) :
         child'[i][k] = child[i][k] /\ child[i][k] \in processed
  <2> SUFFICES ASSUME NEW i \in processed', NEW k \in 1 .. Ar(i)
               PROVE  child'[i][k] = child[i][k] /\ child[i][k] \in processed
    OBVIOUS
  <2>1. child[i][k] \in processed /\ i \in Nodes
    BY <1>2, <1>3, <1>5
  <2> QED
    BY <1>7, <2>1
<1>12. Acyclic(child, processed)'
  <2> SUFFICES ASSUME NEW R \in SUBSET processed', R # {}
               PROVE  \E i \in R : \A k \in 1 .. Ar(i) : child'[i][k] \notin R
    BY <1>4 DEF Acyclic
  <2>1. CASE R \cap processed = {}
    <3>1. cursor \in R /\ \A k \in 1 .. Ar(cursor) : child'[cursor][k] \notin R
      BY <1>3, <1>11, <2>1
    <3> QED
      BY <3>1
  <2>2. CASE R \cap processed # {}
    <3>1. PICK i \in R \cap processed : \A k \in 1 .. Ar(i) : child[i][k] \notin R \cap processed
      BY <1>2, <2>2 DEF Acyclic
    <3>2. \A k \in 1 .. Ar(i) : child'[i][k] \notin R
      BY <1>3, <1>11, <3>1
    <3> QED
      BY <3>1, <3>2
  <2> QED
    BY <2>1, <2>2
<1>13. Listed'
  <2> SUFFICES ASSUME NEW i \in Nodes, parent'[i] # 0
               PROVE  \E k \in DOMAIN child'[parent'[i]] : child'[parent'[i]][k] = i
    BY <1>4 DEF Listed
  <2>1. parent'[i] = parent[i] /\ ~(i = cursor /\ ~IsNew(cursor)) /\ parent[i] \in Nodes
    BY <1>2, <1>7
  <2>2. PICK k \in DOMAIN child[parent[i]] : child[parent[i]][k] = i
    BY <1>2, <2>1 DEF Listed
  <2>3. k \in 1 .. Ar(parent[i])
    BY <1>4, <2>1, <2>2
  <2>4. child'[parent[i]][k] = i
    BY <1>7, <2>1, <2>2, <2>3
  <2>5. k \in DOMAIN child'[parent[i]]
    BY <1>4, <1>7, <2>1, <2>3
  <2> QED
    BY <2>1, <2>4, <2>5
<1>14. \A i \in processed' : \A k \in 1 .. Ar(i) : child'[i][k] \in processed'
  BY <1>3, <1>11
<1>15. (\A i \in processed : \A k \in 1 .. Ar(i) : child[i][k] \in processed)'
  BY <1>4, <1>14
<1> QED
  BY <1>1, <1>3, <1>8, <1>9, <1>10, <1>12, <1>13, <1>15 DEF MergeOK

-----------------------------------------------------------------------------
(* The child maps that are kept.                                           *)

\* The child maps that were kept: the first is of merged leaves, the last is
\* the child map.
ExtractionsOK(W) ==
  /\ extractions \in Seq([Nodes -> Seq(Nodes)]) /\ extractions # <<>>
  /\ \A e \in DOMAIN extractions : Keeps(extractions[e], W) /\ Acyclic(extractions[e], Nodes)
  /\ LeavesOnly(extractions[1], W)
  /\ extractions[Len(extractions)] = child

LEMMA EdgesEndMerge ==
  ASSUME Typed(graph), NEW W, TreeOK(W), EdgesOK(W), processed = {}, idx_map = <<>>,
         cursor > Len(tree)
  PROVE  MergeOK(W) /\ LeavesOnly(child, W)
<1>1. /\ Nodes = 1 .. Len(tree) /\ Len(tree) \in Nat /\ IsShape(graph, tree, W)
      /\ \A i \in Nodes : Ar(i) \in Nat
  BY NodesOfTree
<1>2. /\ child \in [Nodes -> Seq(Nodes)] /\ cursor \in Nat \ {0} /\ cursor <= Len(tree) + 1
      /\ MapsOK(W)
  BY DEF TreeOK, EdgesOK
<1>3. cursor = Len(tree) + 1
  BY <1>1, <1>2
<1>4. ASSUME NEW i \in Nodes, NEW k \in 1 .. Ar(i)
      PROVE  W.kid[i][k] \in Nodes /\ W.kid[i][k] < cursor /\ W.kid[i][k] > i
  <2> DEFINE x == W.kid[i][k]
             e == W.end[i]
  <2>1. x \in i + 1 .. e - 1 /\ e \in i + 1 .. Len(tree) + 1
    BY <1>1, ShapeNumbers DEF KidsIn, EndsIn, Ar
  <2> HIDE DEF x, e
  <2>2. x \in Nodes /\ x < cursor /\ x > i
    BY <1>1, <1>3, <2>1
  <2> QED
    BY <2>2 DEF x
<1>5. ASSUME NEW i \in Nodes
      PROVE  /\ Len(child[i]) = Ar(i)
             /\ \A k \in 1 .. Ar(i) : child[i][k] = W.kid[i][k] /\ parent[child[i][k]] = i
  <2>1. Ar(i) \in Nat /\ Len(child[i]) \in Nat
    BY <1>1, <1>2
  <2>2. /\ Len(child[i]) <= Ar(i)
        /\ \A k \in 1 .. Ar(i) : k <= Len(child[i]) <=> W.kid[i][k] < cursor
        /\ \A k \in 1 .. Len(child[i]) : child[i][k] = W.kid[i][k] /\ parent[child[i][k]] = i
    BY <1>2 DEF MapsOK
  <2>3. \A k \in 1 .. Ar(i) : k <= Len(child[i])
    BY <1>4, <2>2
  <2>4. Len(child[i]) = Ar(i)
    <3>1. CASE Ar(i) = 0
      BY <2>1, <2>2, <3>1
    <3>2. CASE Ar(i) # 0
      <4>1. Ar(i) \in 1 .. Ar(i)
        BY <2>1, <3>2
      <4> QED
        BY <2>1, <2>2, <2>3, <4>1
    <3> QED
      BY <3>1, <3>2
  <2> QED
    BY <2>2, <2>4
<1>6. Keeps(child, W) /\ LeavesOnly(child, W)
  BY <1>2, <1>5 DEF Keeps, LeavesOnly
<1>7. Forward
  BY <1>4, <1>5 DEF Forward
<1>8. NumbersOK
  BY DEF NumbersOK
<1>9. SharedOK
  <2> SUFFICES ASSUME NEW i \in Nodes, NEW k \in 1 .. Ar(i), NEW l \in 1 .. Ar(i),
                      child[i][l] = child[i][k]
               PROVE  l = k
    BY <1>5 DEF SharedOK
  <2>1. W.kid[i][l] = W.kid[i][k]
    BY <1>5
  <2> QED
    BY <1>1, <2>1, OneParent DEF Ar
<1>10. Acyclic(child, processed)
  BY DEF Acyclic
<1> QED
  BY <1>6, <1>7, <1>8, <1>9, <1>10 DEF MergeOK

\* The nodes that are left come before their children that are left.
LEMMA MergedIsAcyclic ==
  ASSUME Typed(graph), NEW W, TreeOK(W), MergeOK(W)
  PROVE  Acyclic(child, Nodes)
<1> SUFFICES ASSUME NEW R \in SUBSET Nodes, R # {}
             PROVE  \E i \in R : \A k \in 1 .. Ar(i) : child[i][k] \notin R
  BY DEF Acyclic
<1>1. Nodes = 1 .. Len(tree) /\ Len(tree) \in Nat
  BY NodesOfTree
<1>2. /\ Forward /\ Acyclic(child, processed) /\ Keeps(child, W)
      /\ \A i \in processed : \A k \in 1 .. Ar(i) : child[i][k] \in processed
  BY DEF MergeOK
<1>3. CASE R \cap processed # {}
  <2>1. PICK i \in R \cap processed : \A k \in 1 .. Ar(i) : child[i][k] \notin R \cap processed
    BY <1>2, <1>3 DEF Acyclic
  <2> QED
    BY <1>2, <2>1
<1>4. CASE R \cap processed = {}
  <2>1. R \in SUBSET (0 .. Len(tree))
    BY <1>1
  <2>2. PICK i \in R : \A j \in R : j <= i
    BY <1>1, <2>1, GreatestElement
  <2>3. ASSUME NEW k \in 1 .. Ar(i), child[i][k] \in R PROVE FALSE
    <3>1. child[i][k] > i /\ i \in Nodes /\ child[i][k] \in Nodes
      BY <1>2, <1>4, <2>3 DEF Forward
    <3>2. child[i][k] <= i
      BY <2>2, <2>3
    <3> QED
      BY <1>1, <3>1, <3>2
  <2> QED
    BY <2>3
<1> QED
  BY <1>3, <1>4

\* What the steps that leave the tree and the maps alone keep.
LEMMA MergeFrame ==
  ASSUME NEW W, MergeOK(W), tree' = tree, graph' = graph, child' = child, parent' = parent,
         processed' = processed, idx_map' = idx_map
  PROVE  MergeOK(W)'
<1>1. Nodes' = Nodes /\ \A i : Ar(i)' = Ar(i)
  BY DEF Nodes, Ar
<1>2. Keeps(child, W)'
  BY <1>1 DEF MergeOK, Keeps
<1>3. Forward' /\ NumbersOK' /\ SharedOK'
  BY <1>1 DEF MergeOK, Forward, NumbersOK, SharedOK
<1>4. Acyclic(child, processed)'
  BY <1>1 DEF MergeOK, Acyclic
<1>5. (\A i \in processed : \A k \in 1 .. Ar(i) : child[i][k] \in processed)'
  BY <1>1 DEF MergeOK
<1> QED
  BY <1>2, <1>3, <1>4, <1>5 DEF MergeOK

LEMMA TreeFrame ==
  ASSUME NEW W, TreeOK(W), tree' = tree, graph' = graph, child' = child, parent' = parent,
         stack' \in Seq(Nodes), cursor' \in Nat \ {0}
  PROVE  TreeOK(W)'
<1>1. Nodes' = Nodes
  BY DEF Nodes
<1> QED
  BY <1>1 DEF TreeOK, Listed

LEMMA ExtractionsFrame ==
  ASSUME NEW W, ExtractionsOK(W), tree' = tree, graph' = graph, child' = child,
         extractions' = extractions
  PROVE  ExtractionsOK(W)'
<1>1. Nodes' = Nodes /\ \A i : Ar(i)' = Ar(i)
  BY DEF Nodes, Ar
<1>2. /\ extractions \in Seq([Nodes -> Seq(Nodes)]) /\ extractions # <<>>
      /\ \A e \in DOMAIN extractions : Keeps(extractions[e], W) /\ Acyclic(extractions[e], Nodes)
      /\ LeavesOnly(extractions[1], W)
      /\ extractions[Len(extractions)] = child
  BY DEF ExtractionsOK
<1>3. ASSUME NEW ch, Keeps(ch, W) PROVE Keeps(ch, W)'
  BY <1>1, <1>3 DEF Keeps
<1>4. ASSUME NEW ch, Acyclic(ch, Nodes) PROVE Acyclic(ch, Nodes)'
  BY <1>1, <1>4 DEF Acyclic
<1>5. LeavesOnly(extractions[1], W)'
  BY <1>1, <1>2 DEF LeavesOnly
<1>6. ASSUME NEW e \in DOMAIN extractions
      PROVE  Keeps(extractions[e], W)' /\ Acyclic(extractions[e], Nodes)'
  <2> DEFINE ch == extractions[e]
  <2>1. Keeps(ch, W) /\ Acyclic(ch, Nodes)
    BY <1>2
  <2>2. Keeps(extractions[e], W)'
    BY <1>1, <2>1 DEF Keeps
  <2>3. Acyclic(extractions[e], Nodes)'
    BY <1>1, <2>1 DEF Acyclic
  <2> QED
    BY <2>2, <2>3
<1>7. (\A e \in DOMAIN extractions : Keeps(extractions[e], W) /\ Acyclic(extractions[e], Nodes))'
  BY <1>6
<1> QED
  BY <1>1, <1>2, <1>5, <1>7 DEF ExtractionsOK

\* A child map that is kept is the last one.
LEMMA KeptAgain ==
  ASSUME Typed(graph), NEW W, TreeOK(W), MergeOK(W), ExtractionsOK(W),
         TreeOK(W)', MergeOK(W)', tree' = tree, graph' = graph,
         extractions' = IF edges' = edges THEN extractions ELSE Append(extractions, child')
  PROVE  ExtractionsOK(W)'
<1>1. Nodes' = Nodes /\ \A i : Ar(i)' = Ar(i)
  BY DEF Nodes, Ar
<1>2. CASE edges' = edges
  <2>1. child' = child /\ extractions' = extractions
    BY <1>2 DEF edges
  <2> QED
    BY <2>1, ExtractionsFrame
<1>3. CASE edges' # edges
  <2>1. extractions' = Append(extractions, child')
    BY <1>3
  <2>2. /\ extractions \in Seq([Nodes -> Seq(Nodes)]) /\ extractions # <<>>
        /\ \A e \in DOMAIN extractions : Keeps(extractions[e], W) /\ Acyclic(extractions[e], Nodes)
        /\ LeavesOnly(extractions[1], W)
    BY DEF ExtractionsOK
  <2>3. Keeps(child, W)' /\ child' \in [Nodes -> Seq(Nodes)]
    BY <1>1 DEF MergeOK, Keeps
  <2>4. Acyclic(child, Nodes)'
    <3>1. Typed(graph)'
      OBVIOUS
    <3> QED
      BY <3>1, MergedIsAcyclic, PTL
  <2>5. /\ extractions' \in Seq([Nodes -> Seq(Nodes)]) /\ extractions' # <<>>
        /\ DOMAIN extractions' = 1 .. Len(extractions) + 1
        /\ \A e \in 1 .. Len(extractions) : extractions'[e] = extractions[e]
        /\ extractions'[Len(extractions) + 1] = child'
        /\ Len(extractions') = Len(extractions) + 1
        /\ DOMAIN extractions = 1 .. Len(extractions) /\ Len(extractions) \in Nat
        /\ 1 \in 1 .. Len(extractions)
    <3> DEFINE S == [Nodes -> Seq(Nodes)]
    <3>1. extractions \in Seq(S) /\ child' \in S
      BY <2>2, <2>3
    <3> HIDE DEF S
    <3>2. extractions' \in Seq(S) /\ extractions' # <<>>
      BY <2>1, <3>1
    <3>3. /\ DOMAIN extractions' = 1 .. Len(extractions) + 1
          /\ \A e \in 1 .. Len(extractions) : extractions'[e] = extractions[e]
          /\ extractions'[Len(extractions) + 1] = child'
          /\ Len(extractions') = Len(extractions) + 1
      BY <2>1, <3>1
    <3>4. /\ DOMAIN extractions = 1 .. Len(extractions) /\ Len(extractions) \in Nat
          /\ 1 \in 1 .. Len(extractions)
      BY <2>2, <3>1
    <3> QED
      BY <3>2, <3>3, <3>4 DEF S
  <2>6. LeavesOnly(extractions[1], W)'
    BY <1>1, <2>2, <2>5 DEF LeavesOnly
  <2>7. ASSUME NEW e \in DOMAIN extractions'
        PROVE  (Keeps(extractions[e], W) /\ Acyclic(extractions[e], Nodes))'
    <3>1. CASE e = Len(extractions) + 1
      <4>1. extractions'[e] = child'
        BY <2>5, <3>1
      <4>2. Keeps(extractions[e], W)'
        BY <2>3, <4>1 DEF Keeps
      <4>3. Acyclic(extractions[e], Nodes)'
        BY <2>4, <4>1 DEF Acyclic
      <4> QED
        BY <4>2, <4>3
    <3>2. CASE e # Len(extractions) + 1
      <4>1. e \in DOMAIN extractions /\ extractions'[e] = extractions[e]
        BY <2>5, <3>2
      <4>2. Keeps(extractions[e], W) /\ Acyclic(extractions[e], Nodes)
        BY <2>2, <4>1
      <4>3. Keeps(extractions[e], W)'
        BY <1>1, <4>1, <4>2 DEF Keeps
      <4>4. Acyclic(extractions[e], Nodes)'
        BY <1>1, <4>1, <4>2 DEF Acyclic
      <4> QED
        BY <4>3, <4>4
    <3> QED
      BY <3>1, <3>2
  <2>8. (\A e \in DOMAIN extractions : Keeps(extractions[e], W) /\ Acyclic(extractions[e], Nodes))'
    BY <2>7
  <2> QED
    BY <1>1, <2>5, <2>6, <2>8 DEF ExtractionsOK
<1> QED
  BY <1>2, <1>3

-----------------------------------------------------------------------------
(* The operands of a line.                                                 *)

\* A function each of whose values is made of the one before exists.
IsMadeOf(f, n, a, F) == f[0] = a /\ \A k \in 1 .. n : f[k] = F[<<k, f[k - 1]>>]

LEMMA StepsExist ==
  ASSUME NEW n \in Nat, NEW A, NEW a \in A, NEW F \in [(1 .. n) \X A -> A]
  PROVE  \E f \in [0 .. n -> A] : IsMadeOf(f, n, a, F)
<1> DEFINE Bad == {m \in 0 .. n : ~ \E f \in [0 .. m -> A] : IsMadeOf(f, m, a, F)}
<1>1. ASSUME Bad # {} PROVE FALSE
  <2>1. Bad \in SUBSET Nat
    OBVIOUS
  <2> HIDE DEF Bad
  <2>2. PICK m \in Bad : \A k \in Bad : m <= k
    BY <1>1, <2>1, LeastElement
  <2>3. m \in 0 .. n /\ ~ \E f \in [0 .. m -> A] : IsMadeOf(f, m, a, F)
    BY DEF Bad
  <2>4. CASE m = 0
    <3> DEFINE f == [k \in 0 .. 0 |-> a]
    <3>1. f \in [0 .. 0 -> A] /\ f[0] = a /\ 1 .. 0 = {}
      OBVIOUS
    <3> HIDE DEF f
    <3>2. IsMadeOf(f, 0, a, F)
      BY <3>1 DEF IsMadeOf
    <3> QED
      BY <2>3, <2>4, <3>1, <3>2
  <2>5. CASE m # 0
    <3>1. m - 1 \in 0 .. n /\ ~(m <= m - 1) /\ m \in 1 .. n /\ m \in Nat
      BY <2>3, <2>5
    <3>2. PICK f \in [0 .. m - 1 -> A] : IsMadeOf(f, m - 1, a, F)
      BY <2>2, <3>1 DEF Bad
    <3>3. f[m - 1] \in A
      <4>1. m - 1 \in 0 .. m - 1
        BY <3>1
      <4> QED
        BY <4>1
    <3> DEFINE h == [k \in 0 .. m |-> IF k = m THEN F[<<m, f[m - 1]>>] ELSE f[k]]
    <3>4. F[<<m, f[m - 1]>>] \in A
      <4>1. <<m, f[m - 1]>> \in (1 .. n) \X A
        BY <3>1, <3>3
      <4> QED
        BY <4>1
    <3>5. ASSUME NEW k \in 0 .. m PROVE h[k] \in A
      <4>1. CASE k = m
        BY <3>4, <4>1
      <4>2. CASE k # m
        <5>1. k \in 0 .. m - 1
          BY <3>1, <4>2
        <5> QED
          BY <4>2, <5>1
      <4> QED
        BY <4>1, <4>2
    <3>6. h \in [0 .. m -> A]
      BY <3>5
    <3>7. ASSUME NEW k \in 1 .. m PROVE h[k] = F[<<k, h[k - 1]>>]
      <4>1. h[k - 1] = f[k - 1]
        <5>1. k - 1 \in 0 .. m /\ k - 1 # m
          BY <3>1
        <5> QED
          BY <5>1
      <4>2. CASE k = m
        <5>1. m \in 0 .. m
          BY <3>1
        <5>2. h[m] = F[<<m, f[m - 1]>>]
          BY <5>1
        <5>3. h[m - 1] = f[m - 1]
          BY <4>1, <4>2
        <5> HIDE DEF h
        <5> QED
          BY <4>2, <5>2, <5>3
      <4>3. CASE k # m
        <5>1. k \in 1 .. m - 1 /\ k \in 0 .. m
          BY <3>1, <4>3
        <5>2. f[k] = F[<<k, f[k - 1]>>] /\ h[k] = f[k]
          BY <3>2, <4>3, <5>1 DEF IsMadeOf
        <5> QED
          BY <4>1, <5>2
      <4> QED
        BY <4>2, <4>3
    <3>8. h[0] = a
      <4>1. 0 \in 0 .. m /\ 0 # m
        BY <3>1
      <4>2. h[0] = f[0]
        BY <4>1
      <4> QED
        BY <3>2, <4>2 DEF IsMadeOf
    <3> HIDE DEF h
    <3>9. IsMadeOf(h, m, a, F)
      BY <3>7, <3>8 DEF IsMadeOf
    <3> QED
      BY <2>3, <3>6, <3>9
  <2> QED
    BY <2>4, <2>5
<1>2. n \in 0 .. n
  OBVIOUS
<1> QED
  BY <1>1, <1>2

\* The lines of the first k children of i, without those that have none.
IsRhs(f, i) ==
  /\ f[0] = <<>>
  /\ \A k \in 1 .. Len(Children(i)) :
       f[k] = IF line[Children(i)[k]] = 0 THEN f[k - 1] ELSE Append(f[k - 1], line[Children(i)[k]])

LEMMA RhsInSteps ==
  ASSUME NEW i, Children(i) \in Seq(Nodes), line \in [Nodes -> Nat]
  PROVE  \E f \in [0 .. Len(Children(i)) -> Seq(Nat)] : IsRhs(f, i) /\ Rhs(i) = f[Len(Children(i))]
<1> DEFINE s == Children(i)
           N == Len(s)
           Body(f) == [k \in 0 .. N |->
                         IF k = 0 THEN <<>>
                         ELSE IF line[s[k]] = 0 THEN f[k - 1]
                         ELSE Append(f[k - 1], line[s[k]])]
           upto == CHOOSE f : f = Body(f)
           F == [w \in (1 .. N) \X Seq(Nat) |->
                   IF line[s[w[1]]] = 0 THEN w[2] ELSE Append(w[2], line[s[w[1]]])]
<1>1. Rhs(i) = upto[N]
  BY DEF Rhs
<1>2. N \in Nat /\ \A k \in 1 .. N : line[s[k]] \in Nat
  OBVIOUS
<1> HIDE DEF s
<1>3. F \in [(1 .. N) \X Seq(Nat) -> Seq(Nat)]
  <2> SUFFICES ASSUME NEW w \in (1 .. N) \X Seq(Nat)
               PROVE  (IF line[s[w[1]]] = 0 THEN w[2] ELSE Append(w[2], line[s[w[1]]])) \in Seq(Nat)
    OBVIOUS
  <2>1. w[1] \in 1 .. N /\ w[2] \in Seq(Nat)
    OBVIOUS
  <2>2. line[s[w[1]]] \in Nat
    BY <1>2, <2>1
  <2> QED
    BY <2>1, <2>2
<1>4. \A k \in 1 .. N : \A q \in Seq(Nat) :
        F[<<k, q>>] = IF line[s[k]] = 0 THEN q ELSE Append(q, line[s[k]])
  <2> SUFFICES ASSUME NEW k \in 1 .. N, NEW q \in Seq(Nat)
               PROVE  F[<<k, q>>] = IF line[s[k]] = 0 THEN q ELSE Append(q, line[s[k]])
    OBVIOUS
  <2> DEFINE w == <<k, q>>
  <2>1. w \in (1 .. N) \X Seq(Nat) /\ w[1] = k /\ w[2] = q
    OBVIOUS
  <2> HIDE DEF w
  <2>2. F[w] = IF line[s[k]] = 0 THEN q ELSE Append(q, line[s[k]])
    BY <2>1
  <2> QED
    BY <2>2 DEF w
<1> HIDE DEF F
<1>5. <<>> \in Seq(Nat)
  OBVIOUS
<1> HIDE DEF N
<1>6. PICK f \in [0 .. N -> Seq(Nat)] : IsMadeOf(f, N, <<>>, F)
  BY <1>2, <1>3, <1>5, StepsExist
<1>7. \A k \in 1 .. N : k \in 0 .. N /\ k - 1 \in 0 .. N /\ k # 0
  BY <1>2
<1>8. /\ f[0] = <<>>
      /\ \A k \in 1 .. N : f[k] = IF line[s[k]] = 0 THEN f[k - 1] ELSE Append(f[k - 1], line[s[k]])
  BY <1>4, <1>6, <1>7 DEF IsMadeOf
<1>9. f = Body(f)
  <2>1. ASSUME NEW k \in 0 .. N
        PROVE  f[k] = IF k = 0 THEN <<>>
                      ELSE IF line[s[k]] = 0 THEN f[k - 1]
                      ELSE Append(f[k - 1], line[s[k]])
    <3>1. k = 0 \/ k \in 1 .. N
      BY <1>2
    <3> QED
      BY <1>7, <1>8, <3>1
  <2> QED
    BY <2>1
<1>10. upto = Body(upto)
  <2> HIDE DEF Body
  <2> QED
    BY <1>9
<1> HIDE DEF upto
<1>11. /\ upto = [k \in 0 .. N |-> upto[k]] /\ upto[0] = <<>>
       /\ \A k \in 1 .. N : upto[k] = IF line[s[k]] = 0 THEN upto[k - 1]
                                      ELSE Append(upto[k - 1], line[s[k]])
  <2>1. 0 \in 0 .. N
    BY <1>2
  <2> QED
    BY <1>7, <1>10, <2>1
<1>12. \A k \in 0 .. N : upto[k] \in Seq(Nat)
  <2> DEFINE Bad == {k \in 0 .. N : upto[k] \notin Seq(Nat)}
  <2>1. SUFFICES ASSUME Bad # {} PROVE FALSE
    OBVIOUS
  <2>2. Bad \in SUBSET Nat
    OBVIOUS
  <2> HIDE DEF Bad
  <2>3. PICK k \in Bad : \A j \in Bad : k <= j
    BY <2>1, <2>2, LeastElement
  <2>4. k \in 0 .. N /\ upto[k] \notin Seq(Nat)
    BY DEF Bad
  <2>5. k # 0
    BY <1>5, <1>11, <2>4
  <2>6. k \in 1 .. N /\ k - 1 \in 0 .. N /\ ~(k <= k - 1)
    BY <1>2, <2>4, <2>5
  <2>7. upto[k - 1] \in Seq(Nat)
    BY <2>3, <2>6 DEF Bad
  <2>8. upto[k] = IF line[s[k]] = 0 THEN upto[k - 1] ELSE Append(upto[k - 1], line[s[k]])
    BY <1>11, <2>6
  <2>9. line[s[k]] \in Nat
    BY <1>2, <2>6
  <2> QED
    BY <2>4, <2>7, <2>8, <2>9
<1>13. upto \in [0 .. N -> Seq(Nat)]
  BY <1>11, <1>12
<1>14. IsRhs(upto, i)
  BY <1>11 DEF IsRhs, s, N
<1> QED
  BY <1>1, <1>13, <1>14 DEF s, N

\* When each child has a line, the operands are theirs.
HasRhs(q, i) ==
  /\ q \in Seq(Nat) /\ Len(q) = Len(Children(i))
  /\ \A k \in 1 .. Len(Children(i)) : q[k] = line[Children(i)[k]]

LEMMA RhsIsComplete ==
  ASSUME NEW i, Children(i) \in Seq(Nodes), line \in [Nodes -> Nat],
         \A k \in 1 .. Len(Children(i)) : line[Children(i)[k]] # 0
  PROVE  HasRhs(Rhs(i), i)
<1> DEFINE s == Children(i)
           N == Len(s)
<1>1. PICK f \in [0 .. N -> Seq(Nat)] : IsRhs(f, i) /\ Rhs(i) = f[N]
  BY RhsInSteps
<1>2. /\ f[0] = <<>>
      /\ \A k \in 1 .. N : f[k] = IF line[s[k]] = 0 THEN f[k - 1] ELSE Append(f[k - 1], line[s[k]])
  BY <1>1 DEF IsRhs
<1>3. N \in Nat /\ \A k \in 1 .. N : line[s[k]] \in Nat /\ line[s[k]] # 0
  OBVIOUS
<1> HIDE DEF s, N
<1> DEFINE Fine(k) == Len(f[k]) = k /\ \A j \in 1 .. k : f[k][j] = line[s[j]]
           Bad == {k \in 0 .. N : ~Fine(k)}
<1>4. ASSUME Bad # {} PROVE FALSE
  <2>1. Bad \in SUBSET Nat
    OBVIOUS
  <2> HIDE DEF Bad
  <2>2. PICK k \in Bad : \A j \in Bad : k <= j
    BY <1>4, <2>1, LeastElement
  <2>3. k \in 0 .. N /\ ~Fine(k)
    BY DEF Bad
  <2>4. k # 0
    BY <1>2, <2>3
  <2>5. k \in 1 .. N /\ k - 1 \in 0 .. N /\ ~(k <= k - 1) /\ k \in Nat
    BY <1>3, <2>3, <2>4
  <2>6. Fine(k - 1)
    BY <2>2, <2>5 DEF Bad
  <2> DEFINE q == f[k - 1]
             x == line[s[k]]
  <2>7. q \in Seq(Nat) /\ x \in Nat /\ f[k] = Append(q, x)
    BY <1>2, <1>3, <2>5
  <2>8. Len(q) = k - 1 /\ \A j \in 1 .. k - 1 : q[j] = line[s[j]]
    BY <2>6
  <2> HIDE DEF q
  <2>9. Len(f[k]) = k /\ f[k][k] = x /\ \A j \in 1 .. k - 1 : f[k][j] = q[j]
    <3> HIDE DEF x
    <3> QED
      BY <2>5, <2>7, <2>8
  <2>10. \A j \in 1 .. k : j = k \/ j \in 1 .. k - 1
    BY <2>5
  <2> QED
    BY <2>3, <2>8, <2>9, <2>10
<1>5. N \in 0 .. N
  BY <1>3
<1>6. Fine(N) /\ f[N] \in Seq(Nat)
  BY <1>4, <1>5
<1> QED
  BY <1>1, <1>6 DEF HasRhs, s, N

LEMMA RhsIsTyped ==
  ASSUME NEW i, Children(i) \in Seq(Nodes), line \in [Nodes -> Nat]
  PROVE  Rhs(i) \in Seq(Nat)
<1>1. PICK f \in [0 .. Len(Children(i)) -> Seq(Nat)] : Rhs(i) = f[Len(Children(i))]
  BY RhsInSteps
<1>2. Len(Children(i)) \in 0 .. Len(Children(i))
  OBVIOUS
<1> QED
  BY <1>1, <1>2

-----------------------------------------------------------------------------
(* The conversion.                                                         *)

PiiLines == [node : ENodes(graph), buffer : Buffers, rhs : Seq(Nat)]

\* The line of i has its e-node, and the lines of all its children.
LineOK(i) ==
  /\ line[i] \in 1 .. Len(pii) /\ pii[line[i]].node = tree[i]
  /\ Len(pii[line[i]].rhs) = Ar(i)
  /\ \A k \in 1 .. Ar(i) : pii[line[i]].rhs[k] = line[Children(i)[k]] /\ line[Children(i)[k]] # 0

\* Each line is that of one node.
LinesOK ==
  /\ line \in [Nodes -> Nat] /\ pii \in Seq(PiiLines)
  /\ \A i \in Nodes : line[i] # 0 => LineOK(i)
  /\ \A t \in 1 .. Len(pii) : \E i \in Nodes : line[i] = t
  /\ \A i, j \in Nodes : line[i] = line[j] /\ line[i] # 0 => i = j

\* The stack of dfs is a path from the root, which comes last.
PathOK ==
  /\ stack \in Seq(Nodes)
  /\ \A k \in DOMAIN stack : line[stack[k]] = 0
  /\ \A j, k \in DOMAIN stack : stack[j] = stack[k] => j = k
  /\ stack # <<>> => stack[1] = 1
  /\ \A k \in 1 .. Len(stack) - 1 : \E l \in 1 .. Ar(stack[k]) :
       Children(stack[k])[l] = stack[k + 1]
  /\ phase # "panic" /\ stack = <<>> => line[1] = Len(pii) /\ Len(pii) # 0

\* dfs goes from parents to children.
ReachedOK ==
  \A i \in Visited : i # 1 => \E j \in Nodes : \E k \in 1 .. Ar(j) : Children(j)[k] = i

\* The nodes that ch has for operands deliver where these are delivered.
SameBuffers(ch, W) ==
  \A i \in Nodes : \A k \in 1 .. Ar(i) : W.buf[ch[i][k]] = W.buf[W.kid[i][k]]

\* The lines are then in the buffers of the shape.
BuffersOK(W) ==
  SameBuffers(extractions[cursor], W) =>
    /\ phase # "panic"
    /\ \A i \in Nodes : line[i] # 0 => pii[line[i]].buffer = W.buf[i]

ConvOK(W) ==
  /\ cursor \in DOMAIN extractions
  /\ LinesOK /\ PathOK /\ ReachedOK /\ BuffersOK(W)

LEMMA ChildrenOf ==
  ASSUME Typed(graph), NEW W, TreeOK(W), ExtractionsOK(W), cursor \in DOMAIN extractions,
         NEW i \in Nodes
  PROVE  /\ Children(i) \in Seq(Nodes) /\ Len(Children(i)) = Ar(i) /\ Ar(i) \in Nat
         /\ DOMAIN Children(i) = 1 .. Ar(i)
         /\ \A k \in 1 .. Ar(i) :
              Children(i)[k] \in Nodes /\ tree[Children(i)[k]] = tree[W.kid[i][k]]
<1>1. Keeps(extractions[cursor], W)
  BY DEF ExtractionsOK
<1>2. Children(i) \in Seq(Nodes) /\ Len(Children(i)) = Ar(i)
  BY <1>1 DEF Keeps, Children
<1>3. Ar(i) \in Nat
  BY NodesOfTree
<1>4. DOMAIN Children(i) = 1 .. Ar(i)
  BY <1>2
<1>5. ASSUME NEW k \in 1 .. Ar(i)
      PROVE  Children(i)[k] \in Nodes /\ tree[Children(i)[k]] = tree[W.kid[i][k]]
  <2>1. Children(i)[k] \in Nodes
    BY <1>2, <1>4
  <2>2. tree[extractions[cursor][i][k]] = tree[W.kid[i][k]]
    BY <1>1 DEF Keeps
  <2> QED
    BY <2>1, <2>2 DEF Children
<1> QED
  BY <1>2, <1>3, <1>4, <1>5

\* When dfs comes out of a node, all its children have lines: none of them is
\* on the stack.
LEMMA ChildrenHaveLines ==
  ASSUME Typed(graph), NEW W, TreeOK(W), ExtractionsOK(W), ConvOK(W),
         stack # <<>>, Unvisited(stack[Len(stack)]) = {}
  PROVE  \A k \in 1 .. Ar(stack[Len(stack)]) : line[Children(stack[Len(stack)])[k]] # 0
<1> DEFINE top == stack[Len(stack)]
           n == Len(stack)
<1>1. /\ stack \in Seq(Nodes) /\ cursor \in DOMAIN extractions
      /\ \A k \in 1 .. n - 1 : \E l \in 1 .. Ar(stack[k]) : Children(stack[k])[l] = stack[k + 1]
  BY DEF ConvOK, PathOK
<1>2. n \in Nat /\ n # 0 /\ n \in 1 .. n /\ DOMAIN stack = 1 .. n /\ top \in Nodes
  BY <1>1
<1>3. DOMAIN Children(top) = 1 .. Ar(top) /\ \A k \in 1 .. Ar(top) : Children(top)[k] \in Nodes
  BY <1>1, <1>2, ChildrenOf
<1>4. Acyclic(extractions[cursor], Nodes)
  BY <1>1 DEF ExtractionsOK
<1> SUFFICES ASSUME NEW k \in 1 .. Ar(top), line[Children(top)[k]] = 0 PROVE FALSE
  OBVIOUS
<1>5. Children(top)[k] \in Visited
  BY <1>3 DEF Unvisited
<1>6. PICK j \in 1 .. n : stack[j] = Children(top)[k]
  BY <1>2, <1>3, <1>5 DEF Visited
<1> DEFINE R == {stack[m] : m \in j .. n}
<1>7. R \in SUBSET Nodes /\ R # {}
  <2>1. \A m \in j .. n : stack[m] \in Nodes
    BY <1>1, <1>2
  <2>2. n \in j .. n
    BY <1>2
  <2> QED
    BY <2>1, <2>2
<1>8. PICK i \in R : \A l \in 1 .. Ar(i) : extractions[cursor][i][l] \notin R
  BY <1>4, <1>7 DEF Acyclic
<1>9. PICK m \in j .. n : i = stack[m]
  OBVIOUS
<1>10. CASE m = n
  <2>1. i = top /\ Children(top)[k] \notin R
    BY <1>8, <1>9, <1>10 DEF Children
  <2>2. j \in j .. n
    BY <1>2
  <2>3. stack[j] \in R
    BY <2>2
  <2> QED
    BY <1>6, <2>1, <2>3
<1>11. CASE m # n
  <2>1. m \in 1 .. n - 1 /\ m + 1 \in j .. n
    <3>1. n \in Nat /\ j \in 1 .. n /\ m \in j .. n
      BY <1>2
    <3> HIDE DEF n
    <3> QED
      BY <1>11, <3>1
  <2>2. PICK l \in 1 .. Ar(i) : Children(i)[l] = stack[m + 1]
    BY <1>1, <1>9, <2>1
  <2>3. stack[m + 1] \in R
    BY <2>1
  <2> QED
    BY <1>8, <2>2, <2>3 DEF Children
<1> QED
  BY <1>10, <1>11

\* add_node finds the buffer of the shape when the children are in theirs.
LEMMA LineBufferIs ==
  ASSUME Typed(graph), Placed(graph), NEW W, TreeOK(W), ExtractionsOK(W),
         cursor \in DOMAIN extractions, line \in [Nodes -> Nat],
         SameBuffers(extractions[cursor], W),
         \A j \in Nodes : line[j] # 0 => pii[line[j]].buffer = W.buf[j],
         NEW i \in Nodes, HasRhs(Rhs(i), i),
         \A k \in 1 .. Ar(i) : line[Children(i)[k]] # 0
  PROVE  W.buf[i] \in Buffers /\ LineBuffers(i) = {W.buf[i]}
<1> DEFINE en == EN(i)
           b  == W.buf[i]
<1>1. /\ Nodes = 1 .. Len(tree) /\ tree \in Seq(ENodes(graph)) /\ IsShape(graph, tree, W)
  BY NodesOfTree
<1>2. NodeOK(graph, tree, W, i)
  BY <1>1 DEF IsShape
<1>3. b \in Buffers /\ Supports(en, b)
  BY <1>2 DEF NodeOK, EN
<1>4. \A k \in 1 .. Ar(i) : W.buf[W.kid[i][k]] = ReadsFrom(en, k, b)
  BY <1>2 DEF NodeOK, KidOK, Ar, EN
<1>5. en.bufs[1] \in {ANY, b}
  BY <1>3 DEF Supports
<1>6. CASE en.bufs[1] # ANY
  <2>1. LineBuffers(i) = {en.bufs[1]}
    BY <1>6 DEF LineBuffers
  <2> QED
    BY <1>3, <1>5, <1>6, <2>1
<1>7. CASE en.bufs[1] = ANY
  <2>1. LineBuffers(i) = {pii[Rhs(i)[k]].buffer : k \in DOMAIN Rhs(i)}
    BY <1>7 DEF LineBuffers
  <2>2. /\ Children(i) \in Seq(Nodes) /\ Len(Children(i)) = Ar(i) /\ Ar(i) \in Nat
        /\ \A k \in 1 .. Ar(i) : Children(i)[k] \in Nodes
    BY ChildrenOf
  <2>3. DOMAIN Rhs(i) = 1 .. Ar(i) /\ \A k \in 1 .. Ar(i) : Rhs(i)[k] = line[Children(i)[k]]
    BY <2>2 DEF HasRhs
  <2>4. ASSUME NEW k \in 1 .. Ar(i) PROVE pii[Rhs(i)[k]].buffer = b
    <3>1. pii[Rhs(i)[k]].buffer = W.buf[Children(i)[k]]
      BY <2>2, <2>3
    <3>2. W.buf[Children(i)[k]] = W.buf[W.kid[i][k]]
      BY DEF SameBuffers, Children
    <3>3. ReadsFrom(en, k, b) = b
      BY <1>7 DEF ReadsFrom
    <3> QED
      BY <1>4, <3>1, <3>2, <3>3
  <2>5. Ar(i) # 0
    <3> SUFFICES ASSUME Ar(i) = 0 PROVE FALSE
      OBVIOUS
    <3>1. tree[i] \in ENodes(graph)
      BY <1>1
    <3>2. PICK c \in Classes(graph) : \E j \in DOMAIN graph.nodes[c] : tree[i] = <<c, j>>
      BY <3>1 DEF ENodes
    <3>7. PICK j \in DOMAIN graph.nodes[c] : tree[i] = <<c, j>>
      BY <3>2
    <3>3. en = graph.nodes[c][j]
      BY <3>7 DEF EN, At
    <3>4. Len(en.kids) = 0
      BY DEF Ar, Arity, EN
    <3>5. en.bufs[1] = b
      BY <1>3, <3>3, <3>4 DEF Placed
    <3>6. ANY \notin Buffers
      BY GraphAssumption DEF ANY, HBM, Buffers
    <3> QED
      BY <1>3, <1>7, <3>5, <3>6
  <2>6. 1 \in 1 .. Ar(i)
    BY <2>2, <2>5
  <2> HIDE DEF b
  <2>7. LineBuffers(i) = {b}
    BY <2>1, <2>3, <2>4, <2>6
  <2> QED
    BY <1>3, <2>7 DEF b
<1> QED
  BY <1>6, <1>7

LEMMA DescendStep ==
  ASSUME Typed(graph), NEW W, TreeOK(W), ExtractionsOK(W), ConvOK(W), Descend
  PROVE  stack' \in Seq(Nodes) /\ ConvOK(W)'
<1> DEFINE top == stack[Len(stack)]
           n == Len(stack)
<1>1. /\ phase = "convert" /\ stack # <<>>
      /\ \E k \in Unvisited(top) : stack' = Append(stack, Children(top)[k])
      /\ phase' = phase /\ graph' = graph /\ tree' = tree /\ cursor' = cursor
      /\ extractions' = extractions /\ line' = line /\ pii' = pii
  BY DEF Descend, gvn, output
<1>2. PICK k \in Unvisited(top) : stack' = Append(stack, Children(top)[k])
  BY <1>1
<1>3. /\ stack \in Seq(Nodes) /\ cursor \in DOMAIN extractions /\ LinesOK /\ PathOK
      /\ ReachedOK /\ BuffersOK(W)
  BY DEF ConvOK, PathOK
<1>4. n \in Nat /\ n # 0 /\ DOMAIN stack = 1 .. n /\ top \in Nodes
  BY <1>1, <1>3
<1>14. PICK c : c = Children(top)[k]
  OBVIOUS
<1>5. k \in 1 .. Ar(top) /\ c \in Nodes /\ c \notin Visited
  <2>1. DOMAIN Children(top) = 1 .. Ar(top) /\ \A l \in 1 .. Ar(top) : Children(top)[l] \in Nodes
    BY <1>3, <1>4, ChildrenOf
  <2> QED
    BY <1>14, <2>1 DEF Unvisited
<1>6. line[c] = 0 /\ \A j \in 1 .. n : stack[j] # c
  BY <1>4, <1>5 DEF Visited
<1>7. /\ Nodes' = Nodes /\ \A i : Ar(i)' = Ar(i) /\ Children(i)' = Children(i)
      /\ PiiLines' = PiiLines
  BY <1>1 DEF Nodes, Ar, Children, PiiLines
<1> HIDE DEF top
<1>8. /\ stack' \in Seq(Nodes) /\ Len(stack') = n + 1 /\ stack'[n + 1] = c
      /\ \A j \in 1 .. n : stack'[j] = stack[j]
      /\ DOMAIN stack' = 1 .. n + 1
  BY <1>2, <1>3, <1>4, <1>5, <1>14
<1>9. LinesOK'
  BY <1>1, <1>3, <1>7 DEF LinesOK, LineOK
<1>10. BuffersOK(W)'
  BY <1>1, <1>3, <1>7 DEF BuffersOK, SameBuffers
<1>11. PathOK'
  <2>1. /\ \A j \in 1 .. n : line[stack[j]] = 0
        /\ \A i, j \in 1 .. n : stack[i] = stack[j] => i = j
        /\ stack[1] = 1
        /\ \A j \in 1 .. n - 1 : \E l \in 1 .. Ar(stack[j]) : Children(stack[j])[l] = stack[j + 1]
    BY <1>1, <1>3, <1>4 DEF PathOK
  <2>2. \A j \in 1 .. n + 1 : j = n + 1 \/ j \in 1 .. n
    BY <1>4
  <2>3. \A j \in 1 .. n + 1 : line[stack'[j]] = 0
    BY <1>6, <1>8, <2>1, <2>2
  <2>4. \A i, j \in 1 .. n + 1 : stack'[i] = stack'[j] => i = j
    BY <1>6, <1>8, <2>1, <2>2
  <2>5. stack'[1] = 1 /\ stack' # <<>>
    <3>1. 1 \in 1 .. n
      BY <1>4
    <3> QED
      BY <1>8, <2>1, <3>1
  <2>6. ASSUME NEW j \in 1 .. (n + 1) - 1
        PROVE  \E l \in 1 .. Ar(stack'[j]) : Children(stack'[j])[l] = stack'[j + 1]
    <3>1. CASE j = n
      <4>1. n \in 1 .. n
        BY <1>4
      <4>2. stack'[j] = top /\ stack'[j + 1] = c
        BY <1>8, <3>1, <4>1 DEF top
      <4> QED
        BY <1>5, <1>14, <4>2
    <3>2. CASE j # n
      <4>1. j \in 1 .. n - 1 /\ j \in 1 .. n /\ j + 1 \in 1 .. n
        <5>1. n \in Nat /\ j \in 1 .. (n + 1) - 1
          BY <1>4
        <5> HIDE DEF n
        <5> QED
          BY <3>2, <5>1
      <4>2. stack'[j] = stack[j] /\ stack'[j + 1] = stack[j + 1]
        BY <1>8, <4>1
      <4>3. \E l \in 1 .. Ar(stack[j]) : Children(stack[j])[l] = stack[j + 1]
        BY <2>1, <4>1
      <4> QED
        BY <4>2, <4>3
    <3> QED
      BY <3>1, <3>2
  <2> HIDE DEF n
  <2> QED
    BY <1>1, <1>7, <1>8, <2>3, <2>4, <2>5, <2>6 DEF PathOK
<1>12. ReachedOK'
  <2> SUFFICES ASSUME NEW i \in Visited', i # 1
               PROVE  \E j \in Nodes : \E l \in 1 .. Ar(j) : Children(j)[l] = i
    BY <1>7 DEF ReachedOK
  <2>1. i \in Visited \/ i = c
    <3>1. CASE \E j \in DOMAIN stack' : i = stack'[j]
      <4>1. PICK j \in 1 .. n + 1 : i = stack'[j]
        BY <1>8, <3>1
      <4>2. CASE j = n + 1
        BY <1>8, <4>1, <4>2
      <4>3. CASE j # n + 1
        <5>1. j \in 1 .. n
          BY <1>4, <4>3
        <5> QED
          BY <1>4, <1>8, <4>1, <5>1 DEF Visited
      <4> QED
        BY <4>2, <4>3
    <3>2. CASE i \in Nodes /\ line[i] # 0
      BY <3>2 DEF Visited
    <3> QED
      BY <1>1, <1>7, <3>1, <3>2 DEF Visited
  <2>2. CASE i = c
    BY <1>4, <1>5, <1>14, <2>2 DEF top
  <2>3. CASE i \in Visited
    BY <1>3, <2>3 DEF ReachedOK
  <2> QED
    BY <2>1, <2>2, <2>3
<1>13. (cursor \in DOMAIN extractions)'
  BY <1>1, <1>3
<1> QED
  BY <1>8, <1>9, <1>10, <1>11, <1>12, <1>13 DEF ConvOK

\* st without its last.
IsFront(r, st, S) ==
  /\ r \in Seq(S) /\ Len(r) = Len(st) - 1 /\ DOMAIN r = 1 .. Len(st) - 1
  /\ \A k \in 1 .. Len(st) - 1 : r[k] = st[k]

LEMMA FrontIsFront ==
  ASSUME NEW S, NEW st \in Seq(S), st # <<>>
  PROVE  IsFront(SubSeq(st, 1, Len(st) - 1), st, S)
<1> DEFINE n == Len(st)
           r == SubSeq(st, 1, n - 1)
<1>1. n \in Nat /\ n # 0
  OBVIOUS
<1>2. r \in Seq(S)
  OBVIOUS
<1>3. r = [k \in 1 .. n - 1 |-> st[k]]
  <2>1. r = [k \in 1 .. (n - 1) - 1 + 1 |-> st[1 + k - 1]]
    OBVIOUS
  <2>2. (n - 1) - 1 + 1 = n - 1
    BY <1>1
  <2>3. \A k \in 1 .. n - 1 : 1 + k - 1 = k
    BY <1>1
  <2> HIDE DEF n, r
  <2> QED
    BY <2>1, <2>2, <2>3
<1> HIDE DEF n, r
<1>4. DOMAIN r = 1 .. n - 1 /\ \A k \in 1 .. n - 1 : r[k] = st[k]
  BY <1>3
<1>5. Len(r) = n - 1
  BY <1>1, <1>2, <1>4
<1> QED
  BY <1>2, <1>4, <1>5 DEF IsFront, n, r

\* What is left of the stack is a path, to which the lines come from the node
\* that has left it.
LEMMA FrontIsPath ==
  ASSUME NEW W, ConvOK(W), stack # <<>>, stack' = SubSeq(stack, 1, Len(stack) - 1),
         graph' = graph, tree' = tree, cursor' = cursor, extractions' = extractions,
         \A j \in Nodes : j # stack[Len(stack)] => line'[j] = line[j],
         phase' # "panic" => line'[stack[Len(stack)]] = Len(pii') /\ Len(pii') # 0
  PROVE  stack' \in Seq(Nodes) /\ PathOK' /\ ReachedOK'
<1> DEFINE n == Len(stack)
           top == stack[Len(stack)]
<1>1. Nodes' = Nodes /\ \A i : Ar(i)' = Ar(i) /\ Children(i)' = Children(i)
  BY DEF Nodes, Ar, Children
<1>2. /\ stack \in Seq(Nodes) /\ PathOK /\ ReachedOK
  BY DEF ConvOK, PathOK
<1>3. IsFront(stack', stack, Nodes)
  BY <1>2, FrontIsFront
<1>4. n \in Nat /\ n # 0 /\ DOMAIN stack = 1 .. n /\ n \in 1 .. n /\ top \in Nodes
  BY <1>2
<1>5. /\ stack' \in Seq(Nodes) /\ Len(stack') = n - 1 /\ DOMAIN stack' = 1 .. n - 1
      /\ \A k \in 1 .. n - 1 : stack'[k] = stack[k]
  BY <1>3 DEF IsFront
<1>16. \A j \in 1 .. n : stack[j] \in Nodes
  BY <1>2, <1>4
<1>6. /\ \A j \in 1 .. n : line[stack[j]] = 0 /\ stack[j] \in Nodes
      /\ \A i, j \in 1 .. n : stack[i] = stack[j] => i = j
      /\ stack[1] = 1
      /\ \A j \in 1 .. n - 1 : \E l \in 1 .. Ar(stack[j]) : Children(stack[j])[l] = stack[j + 1]
  <2>1. /\ \A j \in DOMAIN stack : line[stack[j]] = 0
        /\ \A j, k \in DOMAIN stack : stack[j] = stack[k] => j = k
        /\ stack[1] = 1
        /\ \A j \in 1 .. Len(stack) - 1 : \E l \in 1 .. Ar(stack[j]) :
             Children(stack[j])[l] = stack[j + 1]
    BY <1>2 DEF PathOK
  <2> QED
    BY <1>4, <1>16, <2>1
<1>7. top = stack[n]
  OBVIOUS
<1> HIDE DEF n, top
<1>8. \A k \in 1 .. n - 1 : k \in 1 .. n /\ k # n
  BY <1>4
<1>9. \A k \in 1 .. n - 1 : stack'[k] # top
  BY <1>4, <1>5, <1>6, <1>7, <1>8
<1>10. \A k \in 1 .. n - 1 : line'[stack'[k]] = 0
  <2> TAKE k \in 1 .. n - 1
  <2>1. stack'[k] = stack[k] /\ line[stack[k]] = 0 /\ stack[k] \in Nodes
    BY <1>5, <1>6, <1>8
  <2>2. stack'[k] # top
    BY <1>9
  <2> QED
    BY <2>1, <2>2 DEF top
<1>11. PathOK'
  <2>1. \A j, k \in 1 .. n - 1 : stack'[j] = stack'[k] => j = k
    BY <1>5, <1>6, <1>8
  <2>2. stack' # <<>> => stack'[1] = 1
    <3> SUFFICES ASSUME stack' # <<>> PROVE stack'[1] = 1
      OBVIOUS
    <3>1. 1 \in 1 .. n - 1
      BY <1>4, <1>5
    <3> QED
      BY <1>5, <1>6, <3>1
  <2>3. ASSUME NEW k \in 1 .. (n - 1) - 1
        PROVE  \E l \in 1 .. Ar(stack'[k]) : Children(stack'[k])[l] = stack'[k + 1]
    <3>1. k \in 1 .. n - 1 /\ k + 1 \in 1 .. n - 1
      BY <1>4
    <3>2. \E l \in 1 .. Ar(stack[k]) : Children(stack[k])[l] = stack[k + 1]
      BY <1>6, <3>1
    <3> QED
      BY <1>5, <3>1, <3>2
  <2>4. phase' # "panic" /\ stack' = <<>> => line'[1] = Len(pii') /\ Len(pii') # 0
    <3> SUFFICES ASSUME phase' # "panic", stack' = <<>>
                 PROVE  line'[1] = Len(pii') /\ Len(pii') # 0
      OBVIOUS
    <3>3. Len(stack') = 0
      BY <1>5
    <3>1. n = 1
      BY <1>4, <1>5, <3>3
    <3>2. top = 1
      BY <1>6, <1>7, <3>1
    <3> QED
      BY <3>2 DEF top
  <2> QED
    BY <1>1, <1>5, <1>10, <2>1, <2>2, <2>3, <2>4 DEF PathOK
<1>12. ReachedOK'
  <2> SUFFICES ASSUME NEW i \in Visited', i # 1
               PROVE  \E j \in Nodes : \E l \in 1 .. Ar(j) : Children(j)[l] = i
    BY <1>1 DEF ReachedOK
  <2>1. i \in Visited
    <3>1. CASE \E j \in DOMAIN stack' : i = stack'[j]
      <4>1. PICK j \in 1 .. n - 1 : i = stack'[j]
        BY <1>5, <3>1
      <4>2. i = stack[j] /\ j \in DOMAIN stack
        BY <1>4, <1>5, <1>8, <4>1
      <4> QED
        BY <4>2 DEF Visited
    <3>2. CASE i \in Nodes /\ line'[i] # 0
      <4>1. CASE i = top
        <5>1. i = stack[n] /\ n \in DOMAIN stack
          BY <1>4, <1>7, <4>1
        <5> QED
          BY <5>1 DEF Visited
      <4>2. CASE i # top
        <5>1. line[i] # 0
          BY <3>2, <4>2 DEF top
        <5> QED
          BY <3>2, <5>1 DEF Visited
      <4> QED
        BY <4>1, <4>2
    <3> QED
      BY <1>1, <3>1, <3>2 DEF Visited
  <2> QED
    BY <1>2, <2>1 DEF ReachedOK
<1> QED
  BY <1>5, <1>11, <1>12

\* The next line is that of i, in b.
Adds(i, b) ==
  /\ pii' = Append(pii, [node |-> tree[i], buffer |-> b, rhs |-> Rhs(i)])
  /\ line' = [line EXCEPT ![i] = Len(pii) + 1]

Added(i, b) ==
  /\ line'[i] = Len(pii') /\ Len(pii') # 0 /\ pii'[Len(pii')].buffer = b
  /\ \A j \in Nodes : j # i => line'[j] = line[j]
  /\ \A j \in Nodes : j # i /\ line[j] # 0 => pii'[line'[j]] = pii[line[j]]

ChildrenLined(i) == \A k \in 1 .. Ar(i) : line[Children(i)[k]] # 0

LEMMA LineAdded ==
  ASSUME Typed(graph), NEW W, TreeOK(W), ExtractionsOK(W), ConvOK(W),
         NEW i \in Nodes, line[i] = 0, NEW b \in Buffers,
         ChildrenLined(i), Adds(i, b),
         graph' = graph, tree' = tree, cursor' = cursor, extractions' = extractions
  PROVE  LinesOK' /\ Added(i, b)
<1> USE DEF ChildrenLined, Adds
<1>1. /\ Nodes' = Nodes /\ PiiLines' = PiiLines
      /\ \A j : Ar(j)' = Ar(j) /\ Children(j)' = Children(j)
  BY DEF Nodes, Ar, Children, PiiLines
<1>2. /\ cursor \in DOMAIN extractions
      /\ line \in [Nodes -> Nat] /\ pii \in Seq(PiiLines)
      /\ \A j \in Nodes : line[j] # 0 => LineOK(j)
      /\ \A t \in 1 .. Len(pii) : \E j \in Nodes : line[j] = t
      /\ \A j, k \in Nodes : line[j] = line[k] /\ line[j] # 0 => j = k
  BY DEF ConvOK, LinesOK
<1>3. \A j \in Nodes : /\ Children(j) \in Seq(Nodes) /\ Len(Children(j)) = Ar(j) /\ Ar(j) \in Nat
                       /\ \A k \in 1 .. Ar(j) : Children(j)[k] \in Nodes
  BY <1>2, ChildrenOf
<1>4. HasRhs(Rhs(i), i) /\ Rhs(i) \in Seq(Nat)
  BY <1>2, <1>3, RhsIsComplete, RhsIsTyped
<1> DEFINE rec == [node |-> tree[i], buffer |-> b, rhs |-> Rhs(i)]
           m   == Len(pii)
<1>5. rec \in PiiLines /\ rec.node = tree[i] /\ rec.buffer = b /\ rec.rhs = Rhs(i)
  <2>1. tree[i] \in ENodes(graph)
    BY NodesOfTree
  <2> QED
    BY <1>4, <2>1 DEF PiiLines
<1> HIDE DEF rec
<1>6. pii' = Append(pii, rec)
  BY DEF rec
<1>7. /\ pii' \in Seq(PiiLines) /\ m \in Nat /\ Len(pii') = m + 1 /\ pii'[m + 1] = rec
      /\ \A t \in 1 .. m : pii'[t] = pii[t]
  <2> DEFINE S == PiiLines
  <2>1. pii \in Seq(S) /\ rec \in S
    BY <1>2, <1>5
  <2> HIDE DEF S
  <2>2. /\ pii' \in Seq(S) /\ m \in Nat /\ Len(pii') = m + 1 /\ pii'[m + 1] = rec
        /\ \A t \in 1 .. m : pii'[t] = pii[t]
    BY <1>6, <2>1
  <2> QED
    BY <2>2 DEF S
<1>8. /\ line' \in [Nodes -> Nat] /\ line'[i] = m + 1
      /\ \A j \in Nodes : j # i => line'[j] = line[j]
  BY <1>2, <1>7
<1> HIDE DEF m
<1>9. \A j \in Nodes : line[j] # 0 => line[j] \in 1 .. m /\ j # i
  BY <1>2 DEF LineOK, m
<1>10. \A j \in Nodes : line[j] # 0 => line'[j] = line[j] /\ pii'[line'[j]] = pii[line[j]]
  BY <1>7, <1>8, <1>9
<1>11. ASSUME NEW j \in Nodes, line'[j] # 0
       PROVE  /\ line'[j] \in 1 .. m + 1 /\ pii'[line'[j]].node = tree[j]
              /\ Len(pii'[line'[j]].rhs) = Ar(j)
              /\ \A k \in 1 .. Ar(j) : /\ pii'[line'[j]].rhs[k] = line'[Children(j)[k]]
                                       /\ line'[Children(j)[k]] # 0
  <2>1. CASE j = i
    <3>1. pii'[line'[j]] = rec /\ line'[j] \in 1 .. m + 1
      BY <1>7, <1>8, <2>1
    <3>2. Len(Rhs(i)) = Ar(i) /\ \A k \in 1 .. Ar(i) : Rhs(i)[k] = line[Children(i)[k]]
      BY <1>3, <1>4 DEF HasRhs
    <3>3. ASSUME NEW k \in 1 .. Ar(i)
          PROVE  Rhs(i)[k] = line'[Children(i)[k]] /\ line'[Children(i)[k]] # 0
      <4>1. Children(i)[k] \in Nodes /\ line[Children(i)[k]] # 0
        BY <1>3
      <4>2. line'[Children(i)[k]] = line[Children(i)[k]]
        BY <1>10, <4>1
      <4> QED
        BY <3>2, <4>1, <4>2
    <3> QED
      BY <1>5, <2>1, <3>1, <3>2, <3>3
  <2>2. CASE j # i
    <3>1. line[j] # 0
      BY <1>8, <1>11, <2>2
    <3>2. /\ line[j] \in 1 .. m /\ pii[line[j]].node = tree[j]
          /\ Len(pii[line[j]].rhs) = Ar(j)
          /\ \A k \in 1 .. Ar(j) :
               pii[line[j]].rhs[k] = line[Children(j)[k]] /\ line[Children(j)[k]] # 0
      BY <1>2, <3>1 DEF LineOK, m
    <3>3. line'[j] = line[j] /\ pii'[line'[j]] = pii[line[j]]
      BY <1>10, <3>1
    <3>4. ASSUME NEW k \in 1 .. Ar(j)
          PROVE  pii'[line'[j]].rhs[k] = line'[Children(j)[k]] /\ line'[Children(j)[k]] # 0
      <4>1. Children(j)[k] \in Nodes /\ line[Children(j)[k]] # 0
        BY <1>3, <3>2
      <4>2. line'[Children(j)[k]] = line[Children(j)[k]]
        BY <1>10, <4>1
      <4> QED
        BY <3>2, <3>3, <4>1, <4>2
    <3>5. line[j] \in 1 .. m + 1
      BY <1>7, <3>2
    <3> QED
      BY <3>2, <3>3, <3>4, <3>5
  <2> QED
    BY <2>1, <2>2
<1>12. ASSUME NEW t \in 1 .. m + 1 PROVE \E j \in Nodes : line'[j] = t
  <2>1. CASE t = m + 1
    BY <1>8, <2>1
  <2>2. CASE t # m + 1
    <3>1. t \in 1 .. m /\ t # 0
      BY <1>7, <2>2
    <3>2. PICK j \in Nodes : line[j] = t
      BY <1>2, <3>1 DEF m
    <3> QED
      BY <1>10, <3>1, <3>2
  <2> QED
    BY <2>1, <2>2
<1>13. ASSUME NEW j \in Nodes, NEW k \in Nodes, line'[j] = line'[k], line'[j] # 0
       PROVE  j = k
  <2>1. \A l \in Nodes : l # i /\ line'[l] # 0 => line'[l] \in 1 .. m /\ line'[l] = line[l]
    BY <1>8, <1>9
  <2>2. CASE j = i
    BY <1>7, <1>8, <1>13, <2>1, <2>2
  <2>3. CASE k = i
    BY <1>7, <1>8, <1>13, <2>1, <2>3
  <2>4. CASE j # i /\ k # i
    BY <1>2, <1>13, <2>1, <2>4
  <2> QED
    BY <2>2, <2>3, <2>4
<1>14. \A j \in Nodes : line'[j] # 0 => LineOK(j)'
  <2> SUFFICES ASSUME NEW j \in Nodes, line'[j] # 0 PROVE LineOK(j)'
    OBVIOUS
  <2>1. /\ line'[j] \in 1 .. Len(pii') /\ pii'[line'[j]].node = tree[j]
        /\ Len(pii'[line'[j]].rhs) = Ar(j)
        /\ \A k \in 1 .. Ar(j) : /\ pii'[line'[j]].rhs[k] = line'[Children(j)[k]]
                                 /\ line'[Children(j)[k]] # 0
    BY <1>7, <1>11
  <2> QED
    BY <1>1, <2>1 DEF LineOK
<1>15. LinesOK'
  BY <1>1, <1>7, <1>8, <1>12, <1>13, <1>14 DEF LinesOK
<1>16. line'[i] = Len(pii') /\ Len(pii') # 0 /\ pii'[Len(pii')].buffer = b
  BY <1>5, <1>7, <1>8
<1>17. \A j \in Nodes : j # i => line'[j] = line[j]
  BY <1>8
<1>18. \A j \in Nodes : j # i /\ line[j] # 0 => pii'[line'[j]] = pii[line[j]]
  BY <1>10
<1>19. Added(i, b)
  BY <1>16, <1>17, <1>18 DEF Added
<1> QED
  BY <1>15, <1>19

LEMMA AddNodeStep ==
  ASSUME Typed(graph), Placed(graph), NEW W, TreeOK(W), ExtractionsOK(W), ConvOK(W), AddNode
  PROVE  stack' \in Seq(Nodes) /\ ConvOK(W)'
<1> DEFINE i == stack[Len(stack)]
           Found == \E b \in Buffers : LineBuffers(i) = {b}
           ch == extractions[cursor]
<1>1. /\ phase = "convert" /\ stack # <<>> /\ Unvisited(i) = {}
      /\ stack' = SubSeq(stack, 1, Len(stack) - 1)
      /\ IF Found
         THEN /\ pii' = Append(pii, [node   |-> tree[i],
                                     buffer |-> CHOOSE b \in Buffers : LineBuffers(i) = {b},
                                     rhs    |-> Rhs(i)])
              /\ line' = [line EXCEPT ![i] = Len(pii) + 1]
              /\ phase' = phase
         ELSE phase' = "panic" /\ pii' = pii /\ line' = line
      /\ graph' = graph /\ tree' = tree /\ cursor' = cursor /\ extractions' = extractions
  BY DEF AddNode, gvn
<1>2. /\ stack \in Seq(Nodes) /\ cursor \in DOMAIN extractions /\ LinesOK /\ PathOK
      /\ ReachedOK /\ BuffersOK(W) /\ line \in [Nodes -> Nat]
  BY DEF ConvOK, PathOK, LinesOK
<1>3. i \in Nodes /\ line[i] = 0
  <2>1. Len(stack) \in DOMAIN stack
    BY <1>1, <1>2
  <2> QED
    BY <1>2, <2>1 DEF PathOK
<1>4. /\ Nodes' = Nodes /\ PiiLines' = PiiLines
      /\ \A j : Ar(j)' = Ar(j) /\ Children(j)' = Children(j)
  BY <1>1 DEF Nodes, Ar, Children, PiiLines
<1>5. \A k \in 1 .. Ar(i) : line[Children(i)[k]] # 0
  BY <1>1, ChildrenHaveLines
<1>6. HasRhs(Rhs(i), i)
  <2>1. Children(i) \in Seq(Nodes) /\ Len(Children(i)) = Ar(i)
    BY <1>2, <1>3, ChildrenOf
  <2> QED
    BY <1>2, <1>5, <2>1, RhsIsComplete
<1>7. SameBuffers(ch, W) =>
        /\ W.buf[i] \in Buffers /\ LineBuffers(i) = {W.buf[i]}
        /\ \A j \in Nodes : line[j] # 0 => pii[line[j]].buffer = W.buf[j]
  <2> SUFFICES ASSUME SameBuffers(ch, W)
               PROVE  /\ W.buf[i] \in Buffers /\ LineBuffers(i) = {W.buf[i]}
                      /\ \A j \in Nodes : line[j] # 0 => pii[line[j]].buffer = W.buf[j]
    OBVIOUS
  <2>1. \A j \in Nodes : line[j] # 0 => pii[line[j]].buffer = W.buf[j]
    BY <1>2 DEF BuffersOK
  <2>2. W.buf[i] \in Buffers /\ LineBuffers(i) = {W.buf[i]}
    BY <1>2, <1>3, <1>5, <1>6, <2>1, LineBufferIs
  <2> QED
    BY <2>1, <2>2
<1>8. (cursor \in DOMAIN extractions)'
  BY <1>1, <1>2
<1>9. SameBuffers(extractions[cursor], W)' => SameBuffers(ch, W)
  BY <1>1, <1>4 DEF SameBuffers
<1>10. CASE Found
  <2> DEFINE b == CHOOSE x \in Buffers : LineBuffers(i) = {x}
  <2>1. b \in Buffers /\ LineBuffers(i) = {b}
    BY <1>10
  <2>2. /\ pii' = Append(pii, [node |-> tree[i], buffer |-> b, rhs |-> Rhs(i)])
        /\ line' = [line EXCEPT ![i] = Len(pii) + 1]
        /\ phase' = phase
    BY <1>1, <1>10
  <2> HIDE DEF b
  <2>3. /\ LinesOK'
        /\ line'[i] = Len(pii') /\ Len(pii') # 0 /\ pii'[Len(pii')].buffer = b
        /\ \A j \in Nodes : j # i => line'[j] = line[j]
        /\ \A j \in Nodes : j # i /\ line[j] # 0 => pii'[line'[j]] = pii[line[j]]
    <3> HIDE DEF i
    <3>1. /\ graph' = graph /\ tree' = tree /\ cursor' = cursor /\ extractions' = extractions
      BY <1>1
    <3>2. ChildrenLined(i) /\ Adds(i, b)
      BY <1>5, <2>2 DEF ChildrenLined, Adds
    <3>3. LinesOK' /\ Added(i, b)
      BY <1>3, <2>1, <3>1, <3>2, LineAdded
    <3> QED
      BY <3>3 DEF Added
  <2>4. stack' \in Seq(Nodes) /\ PathOK' /\ ReachedOK'
    BY <1>1, <2>3, FrontIsPath
  <2>5. BuffersOK(W)'
    <3> SUFFICES ASSUME SameBuffers(extractions[cursor], W)'
                 PROVE  /\ phase' # "panic"
                        /\ \A j \in Nodes : line'[j] # 0 => pii'[line'[j]].buffer = W.buf[j]
      BY <1>4 DEF BuffersOK
    <3>1. phase' # "panic"
      BY <1>1, <2>2
    <3>2. /\ LineBuffers(i) = {W.buf[i]}
          /\ \A j \in Nodes : line[j] # 0 => pii[line[j]].buffer = W.buf[j]
      BY <1>7, <1>9
    <3>3. b = W.buf[i]
      BY <2>1, <3>2
    <3> HIDE DEF i
    <3>4. ASSUME NEW j \in Nodes, line'[j] # 0 PROVE pii'[line'[j]].buffer = W.buf[j]
      <4>1. CASE j = i
        BY <2>3, <3>3, <4>1
      <4>2. CASE j # i
        <5>1. line'[j] = line[j] /\ line[j] # 0
          BY <2>3, <3>4, <4>2
        <5>2. pii'[line'[j]] = pii[line[j]] /\ pii[line[j]].buffer = W.buf[j]
          BY <2>3, <3>2, <4>2, <5>1
        <5> QED
          BY <5>2
      <4> QED
        BY <4>1, <4>2
    <3> QED
      BY <3>1, <3>4
  <2> QED
    BY <1>8, <2>3, <2>4, <2>5 DEF ConvOK
<1>11. CASE ~Found
  <2>1. phase' = "panic" /\ pii' = pii /\ line' = line
    BY <1>1, <1>11
  <2>2. stack' \in Seq(Nodes) /\ PathOK' /\ ReachedOK'
    BY <1>1, <2>1, FrontIsPath
  <2>3. LinesOK'
    BY <1>1, <1>2, <1>4, <2>1 DEF LinesOK, LineOK
  <2>4. BuffersOK(W)'
    BY <1>7, <1>9, <1>11 DEF BuffersOK
  <2> QED
    BY <1>8, <2>2, <2>3, <2>4 DEF ConvOK
<1> QED
  BY <1>10, <1>11

LEMMA PickExtractionStep ==
  ASSUME Typed(graph), NEW W, TreeOK(W), ExtractionsOK(W), pii = <<>>, PickExtraction
  PROVE  stack' \in Seq(Nodes) /\ cursor' \in Nat \ {0} /\ ConvOK(W)'
<1>1. /\ phase' = "convert" /\ stack' = <<1>> /\ line' = [i \in Nodes |-> 0] /\ pii' = <<>>
      /\ cursor' \in DOMAIN extractions
      /\ graph' = graph /\ tree' = tree /\ extractions' = extractions
  BY DEF PickExtraction, gvn
<1>2. Nodes' = Nodes /\ PiiLines' = PiiLines
  BY <1>1 DEF Nodes, PiiLines
<1>3. 1 \in Nodes
  BY NodesOfTree
<1>4. cursor' \in Nat \ {0}
  BY <1>1 DEF ExtractionsOK
<1>5. /\ stack' \in Seq(Nodes) /\ Len(stack') = 1 /\ stack'[1] = 1 /\ DOMAIN stack' = {1}
      /\ stack' # <<>>
  BY <1>1, <1>3
<1>6. \A i \in Nodes : line'[i] = 0
  BY <1>1
<1>7. LinesOK'
  <2>1. line' \in [Nodes -> Nat] /\ pii' \in Seq(PiiLines) /\ Len(pii') = 0
    BY <1>1
  <2> QED
    BY <1>2, <1>6, <2>1 DEF LinesOK
<1>8. PathOK'
  <2>1. 1 .. Len(stack') - 1 = {}
    BY <1>5
  <2> QED
    BY <1>2, <1>3, <1>5, <1>6, <2>1 DEF PathOK
<1>9. ReachedOK'
  <2>1. Visited' = {1}
    BY <1>2, <1>5, <1>6 DEF Visited
  <2> QED
    BY <2>1 DEF ReachedOK
<1>10. BuffersOK(W)'
  BY <1>1, <1>2, <1>6 DEF BuffersOK
<1>11. (cursor \in DOMAIN extractions)'
  BY <1>1
<1> QED
  BY <1>4, <1>5, <1>7, <1>8, <1>9, <1>10, <1>11 DEF ConvOK

LEMMA ConvertEndsStep ==
  ASSUME NEW W, ConvOK(W), ConvertEnds
  PROVE  ConvOK(W)'
<1>1. /\ phase = "convert" /\ phase' = "done" /\ graph' = graph /\ tree' = tree
      /\ cursor' = cursor /\ stack' = stack /\ extractions' = extractions
      /\ line' = line /\ pii' = pii
  BY DEF ConvertEnds, gvn, output
<1>2. /\ Nodes' = Nodes /\ PiiLines' = PiiLines /\ Visited' = Visited
      /\ \A j : Ar(j)' = Ar(j) /\ Children(j)' = Children(j)
  BY <1>1 DEF Nodes, Ar, Children, PiiLines, Visited
<1>3. LinesOK'
  BY <1>1, <1>2 DEF ConvOK, LinesOK, LineOK
<1>4. PathOK'
  BY <1>1, <1>2 DEF ConvOK, PathOK
<1>5. ReachedOK'
  BY <1>1, <1>2 DEF ConvOK, ReachedOK
<1>6. BuffersOK(W)'
  BY <1>1, <1>2 DEF ConvOK, BuffersOK, SameBuffers
<1> QED
  BY <1>1, <1>3, <1>4, <1>5, <1>6 DEF ConvOK

-----------------------------------------------------------------------------
(* The inductive invariant.                                                *)

Unpicked ==
  /\ phase \in {"pick", "none"} /\ trees = Trees(graph, Limit)
  /\ tree = <<>> /\ cursor = 1 /\ stack = <<>> /\ child = <<>> /\ parent = <<>>
  /\ idx_map = <<>> /\ processed = {} /\ extractions = <<>> /\ line = <<>> /\ pii = <<>>

NoLines == line = <<>> /\ pii = <<>>

InEdges(W) ==
  /\ phase = "edges" /\ EdgesOK(W)
  /\ processed = {} /\ idx_map = <<>> /\ extractions = <<>> /\ NoLines

InLeaves(W) ==
  /\ phase = "leaves" /\ MergeOK(W)
  /\ processed \subseteq 1 .. cursor - 1 /\ LeavesOnly(child, W)
  /\ extractions = <<>> /\ NoLines

InNumber(W) ==
  /\ phase = "number" /\ MergeOK(W) /\ ExtractionsOK(W)
  /\ cursor <= Len(tree) /\ NoLines

InChoose(W) ==
  /\ phase = "choose" /\ MergeOK(W) /\ ExtractionsOK(W)
  /\ processed = Nodes /\ NoLines

InConvert(W) ==
  /\ phase \in {"convert", "done", "panic"} /\ MergeOK(W) /\ ExtractionsOK(W)
  /\ processed = Nodes /\ ConvOK(W)
  /\ phase = "done" => stack = <<>>

\* What holds of the tree that was picked, and its shape.
PickedOK(W) ==
  /\ TreeOK(W) /\ trees = {}
  /\ InEdges(W) \/ InLeaves(W) \/ InNumber(W) \/ InChoose(W) \/ InConvert(W)

IInv ==
  /\ Typed(graph) /\ Placed(graph)
  /\ Unpicked \/ \E W : PickedOK(W)

LEMMA InitIsGood ==
  ASSUME Init
  PROVE  IInv
<1>1. PICK g \in Graphs : graph = Annotated(g, Derivable(g, g.inputs))
  <2>1. graph \in {Annotated(g, Derivable(g, g.inputs)) :
                     g \in {h \in Graphs : WithoutForm(h) = {}}}
    BY DEF Init
  <2> QED
    BY <2>1
<1>2. Typed(graph) /\ Placed(graph)
  BY <1>1, AnnotatedIsTyped, AnnotatedIsPlaced
<1>3. Unpicked
  BY DEF Init, Unpicked
<1> QED
  BY <1>2, <1>3 DEF IInv

LEMMA PickTreeStep ==
  ASSUME Typed(graph), Placed(graph), Unpicked, PickTree
  PROVE  \E W : PickedOK(W)'
<1>1. PICK t \in trees : /\ tree' = t /\ child' = [i \in DOMAIN t |-> <<>>]
                         /\ parent' = [i \in DOMAIN t |-> 0]
  BY DEF PickTree
<1>2. /\ phase' = "edges" /\ trees' = {} /\ graph' = graph /\ cursor' = 1 /\ stack' = <<>>
      /\ idx_map' = <<>> /\ processed' = {} /\ extractions' = <<>> /\ line' = <<>> /\ pii' = <<>>
  BY DEF PickTree, Unpicked, gvn, output
<1>3. PICK W : IsTree(graph, graph.root, HBM, t, W)
  BY <1>1, LimitAssumption, TreesHaveShapes DEF Unpicked
<1>4. /\ t \in Seq(ENodes(graph)) /\ Len(t) # 0 /\ W.end[1] = Len(t) + 1
      /\ \A i \in 1 .. Len(t) : NodeOK(graph, t, W, i)
  BY <1>3 DEF IsTree, IsShape
<1>5. Nodes' = 1 .. Len(t) /\ \A i : Ar(i)' = Arity(graph, t[i])
  BY <1>1, <1>2, <1>4 DEF Nodes, Ar
<1>6. \A i \in 1 .. Len(t) : child'[i] = <<>> /\ parent'[i] = 0
  BY <1>1, <1>4
<1>7. /\ child' \in [Nodes' -> Seq(Nodes')] /\ parent' \in [Nodes' -> Nodes' \cup {0}]
  BY <1>1, <1>4, <1>5
<1>8. TreeOK(W)'
  <2>1. IsTree(graph, graph.root, HBM, tree, W)'
    BY <1>1, <1>2, <1>3
  <2>2. Listed'
    BY <1>5, <1>6 DEF Listed
  <2> QED
    BY <1>2, <1>7, <2>1, <2>2 DEF TreeOK
<1>9. MapsOK(W)'
  <2> SUFFICES ASSUME NEW i \in 1 .. Len(t)
               PROVE  /\ Len(child'[i]) <= Ar(i)'
                      /\ \A k \in 1 .. Ar(i)' : k <= Len(child'[i]) <=> W.kid[i][k] < 1
                      /\ \A k \in 1 .. Len(child'[i]) :
                           child'[i][k] = W.kid[i][k] /\ parent'[child'[i][k]] = i
    BY <1>2, <1>5 DEF MapsOK
  <2>1. child'[i] = <<>> /\ Len(<<>>) = 0
    BY <1>6
  <2>2. Ar(i)' \in Nat
    <3>1. t[i] \in ENodes(graph)
      BY <1>4
    <3>2. At(graph, t[i]).kids \in Seq(Classes(graph))
      BY <3>1 DEF Typed, ENodes, At
    <3> QED
      BY <1>5, <3>2 DEF Arity
  <2>3. ASSUME NEW k \in 1 .. Ar(i)' PROVE ~(k <= 0) /\ ~(W.kid[i][k] < 1)
    <3>1. W.kid[i][k] \in i + 1 .. W.end[i] - 1
      BY <1>4, <1>5, <2>3 DEF NodeOK, KidOK
    <3> DEFINE x == W.kid[i][k]
               e == W.end[i]
    <3>2. x \in i + 1 .. e - 1
      BY <3>1
    <3> HIDE DEF x, e
    <3>3. ~(x < 1)
      BY <3>2
    <3> QED
      BY <2>2, <3>3 DEF x
  <2> QED
    BY <2>1, <2>2, <2>3
<1>10. EdgesOK(W)'
  <2>1. StackHas(<<>>, 1, W)
    BY DEF StackHas
  <2>2. cursor' <= Len(tree') + 1
    BY <1>1, <1>2, <1>4
  <2> QED
    BY <1>2, <1>9, <2>1, <2>2 DEF EdgesOK
<1>11. PickedOK(W)'
  BY <1>2, <1>8, <1>10 DEF PickedOK, InEdges, NoLines
<1> QED
  BY <1>11

LEMMA EdgesEndStep ==
  ASSUME Typed(graph), NEW W, TreeOK(W), InEdges(W), EdgesEnd
  PROVE  TreeOK(W)' /\ InLeaves(W)'
<1>1. /\ phase' = "leaves" /\ cursor' = 1 /\ cursor > Len(tree)
      /\ graph' = graph /\ tree' = tree /\ stack' = stack /\ child' = child /\ parent' = parent
      /\ idx_map' = idx_map /\ processed' = {} /\ extractions' = <<>> /\ NoLines'
  BY DEF EdgesEnd, InEdges, edges, gvn, output, NoLines
<1>2. MergeOK(W) /\ LeavesOnly(child, W)
  BY <1>1, EdgesEndMerge DEF InEdges
<1>3. MergeOK(W)'
  BY <1>1, <1>2, MergeFrame DEF InEdges
<1>4. LeavesOnly(child, W)'
  BY <1>1, <1>2 DEF LeavesOnly, Nodes, Ar
<1>5. TreeOK(W)'
  <2>1. stack' \in Seq(Nodes)
    BY <1>1 DEF TreeOK
  <2> QED
    BY <1>1, <2>1, TreeFrame
<1> QED
  BY <1>1, <1>3, <1>4, <1>5 DEF InLeaves

\* Done, and the tree.
LEMMA DoneTree ==
  ASSUME NEW W, TreeOK(W), Moves, Listed', tree' = tree, graph' = graph, stack' = stack,
         cursor' \in Nat \ {0}
  PROVE  TreeOK(W)'
<1>1. Nodes' = Nodes
  BY DEF Nodes
<1> QED
  BY <1>1 DEF TreeOK, Moves

LEMMA LeafStep ==
  ASSUME Typed(graph), NEW W, TreeOK(W), InLeaves(W), Leaf
  PROVE  TreeOK(W)' /\ InLeaves(W)'
<1>1. /\ phase' = "leaves" /\ cursor <= Len(tree) /\ cursor' = cursor + 1
      /\ graph' = graph /\ tree' = tree /\ stack' = stack /\ extractions' = extractions
      /\ line' = line /\ pii' = pii
  BY DEF Leaf, output
<1>2. /\ Nodes = 1 .. Len(tree) /\ Len(tree) \in Nat
      /\ \A i \in Nodes : Ar(i) \in Nat /\ (IsLeaf(i) <=> Ar(i) = 0)
      /\ cursor \in Nat \ {0} /\ stack \in Seq(Nodes)
  BY NodesOfTree DEF TreeOK
<1>3. cursor \in Nodes /\ cursor' \in Nat \ {0}
  BY <1>1, <1>2
<1>4. /\ MergeOK(W) /\ processed \subseteq 1 .. cursor - 1 /\ LeavesOnly(child, W)
      /\ extractions = <<>> /\ NoLines
  BY DEF InLeaves
<1>5. Nodes' = Nodes /\ \A i : Ar(i)' = Ar(i)
  BY <1>1 DEF Nodes, Ar
<1>6. CASE IsLeaf(cursor)
  <2>1. Done
    BY <1>6 DEF Leaf
  <2>2. cursor \notin processed
    BY <1>2, <1>4
  <2>3. Ar(cursor) = 0
    BY <1>2, <1>3, <1>6
  <2>4. \A k \in 1 .. Ar(cursor) : child[cursor][k] \in processed
    BY <2>3
  <2>5. MergeOK(W)' /\ Listed' /\ Moves
    BY <1>1, <1>3, <1>4, <2>1, <2>2, <2>4, DoneStep
  <2>6. TreeOK(W)'
    BY <1>1, <1>3, <2>5, DoneTree
  <2>7. processed' \subseteq 1 .. cursor' - 1
    <3>1. processed' = processed \cup {cursor}
      BY <2>1 DEF Done
    <3> QED
      BY <1>1, <1>2, <1>4, <3>1
  <2>8. LeavesOnly(child', W)
    <3> SUFFICES ASSUME NEW i \in Nodes, NEW k \in 1 .. Ar(i)
                 PROVE  child'[i][k] = W.kid[i][k] \/ Ar(W.kid[i][k]) = 0
      BY DEF LeavesOnly
    <3>1. child[i][k] = W.kid[i][k] \/ Ar(W.kid[i][k]) = 0
      BY <1>4 DEF LeavesOnly
    <3>2. child'[i][k] = child[i][k] \/ child[i][k] = cursor
      BY <2>5 DEF Moves, Moved
    <3> QED
      BY <2>3, <3>1, <3>2
  <2>9. LeavesOnly(child, W)'
    BY <1>5, <2>8 DEF LeavesOnly
  <2> QED
    BY <1>1, <1>4, <2>5, <2>6, <2>7, <2>9 DEF InLeaves, NoLines
<1>7. CASE ~IsLeaf(cursor)
  <2>1. processed' = processed /\ idx_map' = idx_map /\ child' = child /\ parent' = parent
    BY <1>7 DEF Leaf, edges
  <2>2. MergeOK(W)'
    BY <1>1, <1>4, <2>1, MergeFrame
  <2>3. TreeOK(W)'
    BY <1>1, <1>2, <1>3, <2>1, TreeFrame
  <2>4. LeavesOnly(child, W)'
    BY <1>4, <1>5, <2>1 DEF LeavesOnly
  <2>5. processed' \subseteq 1 .. cursor' - 1
    BY <1>1, <1>2, <1>4, <2>1
  <2> QED
    BY <1>1, <1>4, <2>2, <2>3, <2>4, <2>5 DEF InLeaves, NoLines
<1> QED
  BY <1>6, <1>7

LEMMA LeavesEndStep ==
  ASSUME Typed(graph), NEW W, TreeOK(W), InLeaves(W), LeavesEnd
  PROVE  TreeOK(W)' /\ InNumber(W)'
<1>1. /\ phase' = "number" /\ cursor' = 1 /\ extractions' = <<child>>
      /\ graph' = graph /\ tree' = tree /\ stack' = stack /\ child' = child /\ parent' = parent
      /\ idx_map' = idx_map /\ processed' = processed /\ line' = line /\ pii' = pii
  BY DEF LeavesEnd, edges, output
<1>2. MergeOK(W) /\ LeavesOnly(child, W) /\ NoLines
  BY DEF InLeaves
<1>3. /\ Nodes = 1 .. Len(tree) /\ Len(tree) \in Nat /\ Len(tree) # 0 /\ stack \in Seq(Nodes)
  BY NodesOfTree DEF TreeOK
<1>4. Nodes' = Nodes /\ \A i : Ar(i)' = Ar(i)
  BY <1>1 DEF Nodes, Ar
<1>5. MergeOK(W)'
  BY <1>1, <1>2, MergeFrame
<1>6. TreeOK(W)'
  BY <1>1, <1>3, TreeFrame
<1>7. ExtractionsOK(W)'
  <2>1. Keeps(child, W) /\ Acyclic(child, Nodes) /\ child \in [Nodes -> Seq(Nodes)]
    BY <1>2, MergedIsAcyclic DEF MergeOK, Keeps
  <2>2. Keeps(child, W)' /\ Acyclic(child, Nodes)' /\ LeavesOnly(child, W)'
    BY <1>1, <1>2, <1>4, <2>1 DEF Keeps, Acyclic, LeavesOnly
  <2>3. /\ DOMAIN extractions' = {1} /\ Len(extractions') = 1 /\ extractions'[1] = child'
        /\ extractions' # <<>>
    BY <1>1
  <2>4. extractions' \in Seq([Nodes' -> Seq(Nodes')])
    <3> DEFINE S == [Nodes -> Seq(Nodes)]
    <3>1. child \in S
      BY <2>1
    <3> HIDE DEF S
    <3>2. <<child>> \in Seq(S)
      BY <3>1
    <3> QED
      BY <1>1, <1>4, <3>2 DEF S
  <2>5. \A e \in DOMAIN extractions' : Keeps(extractions[e], W)' /\ Acyclic(extractions[e], Nodes)'
    <3>1. Keeps(extractions[1], W)' /\ Acyclic(extractions[1], Nodes)'
      BY <1>4, <2>2, <2>3 DEF Keeps, Acyclic
    <3> QED
      BY <2>3, <3>1
  <2>6. LeavesOnly(extractions[1], W)'
    BY <1>4, <2>2, <2>3 DEF LeavesOnly
  <2> QED
    BY <2>3, <2>4, <2>5, <2>6 DEF ExtractionsOK
<1>8. cursor' <= Len(tree')
  BY <1>1, <1>3
<1> QED
  BY <1>1, <1>2, <1>5, <1>6, <1>7, <1>8 DEF InNumber, NoLines

LEMMA NumberStep ==
  ASSUME Typed(graph), NEW W, TreeOK(W), InNumber(W), Number
  PROVE  TreeOK(W)' /\ InNumber(W)'
<1>1. /\ phase' = "number" /\ graph' = graph /\ tree' = tree /\ stack' = stack
      /\ line' = line /\ pii' = pii
      /\ extractions' = IF edges' = edges THEN extractions ELSE Append(extractions, child')
      /\ cursor' = IF cursor = Len(tree) THEN 1 ELSE cursor + 1
  BY DEF Number, output
<1>2. MergeOK(W) /\ ExtractionsOK(W) /\ cursor <= Len(tree) /\ NoLines
  BY DEF InNumber
<1>3. /\ Nodes = 1 .. Len(tree) /\ Len(tree) \in Nat /\ Len(tree) # 0
      /\ cursor \in Nat \ {0} /\ stack \in Seq(Nodes)
  BY NodesOfTree DEF TreeOK
<1>4. cursor \in Nodes /\ cursor' \in Nat \ {0} /\ cursor' <= Len(tree')
  BY <1>1, <1>2, <1>3
<1>5. TreeOK(W)' /\ MergeOK(W)'
  <2>1. CASE IsReady(cursor)
    <3>1. Done /\ cursor \notin processed
      BY <2>1 DEF Number, IsReady
    <3>2. \A k \in 1 .. Ar(cursor) : child[cursor][k] \in processed
      <4>1. DOMAIN child[cursor] = 1 .. Ar(cursor)
        <5>1. child[cursor] \in Seq(Nodes) /\ Len(child[cursor]) = Ar(cursor)
          BY <1>2, <1>4 DEF MergeOK, Keeps
        <5> QED
          BY <5>1
      <4> QED
        BY <2>1, <4>1 DEF IsReady
    <3>3. MergeOK(W)' /\ Listed' /\ Moves
      BY <1>1, <1>2, <1>4, <3>1, <3>2, DoneStep
    <3> QED
      BY <1>1, <1>4, <3>3, DoneTree
  <2>2. CASE ~IsReady(cursor)
    <3>1. processed' = processed /\ idx_map' = idx_map /\ child' = child /\ parent' = parent
      BY <2>2 DEF Number, edges
    <3> QED
      BY <1>1, <1>2, <1>3, <1>4, <3>1, MergeFrame, TreeFrame
  <2> QED
    BY <2>1, <2>2
<1>6. ExtractionsOK(W)'
  BY <1>1, <1>2, <1>5, KeptAgain
<1> QED
  BY <1>1, <1>2, <1>4, <1>5, <1>6 DEF InNumber, NoLines

LEMMA NumberEndsStep ==
  ASSUME Typed(graph), NEW W, TreeOK(W), InNumber(W), NumberEnds
  PROVE  TreeOK(W)' /\ InChoose(W)'
<1>1. /\ phase' = "choose" /\ processed = Nodes
      /\ graph' = graph /\ tree' = tree /\ stack' = stack /\ child' = child /\ parent' = parent
      /\ idx_map' = idx_map /\ processed' = processed /\ line' = line /\ pii' = pii
      /\ cursor' = cursor /\ extractions' = extractions
  BY DEF NumberEnds, edges, gvn, output
<1>2. MergeOK(W) /\ ExtractionsOK(W) /\ NoLines /\ stack \in Seq(Nodes) /\ cursor \in Nat \ {0}
  BY DEF InNumber, TreeOK
<1>3. TreeOK(W)' /\ MergeOK(W)' /\ ExtractionsOK(W)'
  BY <1>1, <1>2, TreeFrame, MergeFrame, ExtractionsFrame
<1>4. processed' = Nodes'
  BY <1>1 DEF Nodes
<1> QED
  BY <1>1, <1>2, <1>3, <1>4 DEF InChoose, NoLines

\* The steps of the conversion leave the merging alone.
LEMMA ConversionFrame ==
  ASSUME NEW W, TreeOK(W), MergeOK(W), ExtractionsOK(W), processed = Nodes,
         graph' = graph, tree' = tree, child' = child, parent' = parent,
         idx_map' = idx_map, processed' = processed, extractions' = extractions,
         stack' \in Seq(Nodes), cursor' \in Nat \ {0}
  PROVE  TreeOK(W)' /\ MergeOK(W)' /\ ExtractionsOK(W)' /\ processed' = Nodes'
<1>1. processed' = Nodes'
  BY DEF Nodes
<1> QED
  BY <1>1, TreeFrame, MergeFrame, ExtractionsFrame

LEMMA ConversionStep ==
  ASSUME Typed(graph), Placed(graph), NEW W, TreeOK(W), InChoose(W) \/ InConvert(W),
         PickExtraction \/ Descend \/ AddNode \/ ConvertEnds
  PROVE  TreeOK(W)' /\ InConvert(W)'
<1>1. /\ graph' = graph /\ tree' = tree /\ child' = child /\ parent' = parent
      /\ idx_map' = idx_map /\ processed' = processed /\ extractions' = extractions
  BY DEF PickExtraction, Descend, AddNode, ConvertEnds, edges, gvn
<1>2. MergeOK(W) /\ ExtractionsOK(W) /\ processed = Nodes
  BY DEF InChoose, InConvert
<1>3. stack \in Seq(Nodes) /\ cursor \in Nat \ {0}
  BY DEF TreeOK
<1>4. /\ stack' \in Seq(Nodes) /\ cursor' \in Nat \ {0} /\ ConvOK(W)'
      /\ phase' \in {"convert", "done", "panic"} /\ (phase' = "done" => stack' = <<>>)
  <2>1. CASE PickExtraction
    <3>1. pii = <<>> /\ phase' = "convert"
      BY <2>1 DEF PickExtraction, InChoose, InConvert, NoLines
    <3> QED
      BY <1>2, <2>1, <3>1, PickExtractionStep
  <2>2. CASE Descend
    <3>1. phase = "convert" /\ phase' = "convert" /\ cursor' = cursor
      BY <2>2 DEF Descend
    <3>2. ConvOK(W)
      BY <3>1 DEF InChoose, InConvert
    <3> QED
      BY <1>2, <1>3, <2>2, <3>1, <3>2, DescendStep
  <2>3. CASE AddNode
    <3>1. phase = "convert" /\ phase' \in {"convert", "panic"} /\ cursor' = cursor
      BY <2>3 DEF AddNode
    <3>2. ConvOK(W)
      BY <3>1 DEF InChoose, InConvert
    <3> QED
      BY <1>2, <1>3, <2>3, <3>1, <3>2, AddNodeStep
  <2>4. CASE ConvertEnds
    <3>1. phase = "convert" /\ phase' = "done" /\ cursor' = cursor /\ stack = <<>> /\ stack' = stack
      BY <2>4 DEF ConvertEnds
    <3>2. ConvOK(W)
      BY <3>1 DEF InChoose, InConvert
    <3> QED
      BY <1>3, <2>4, <3>1, <3>2, ConvertEndsStep
  <2> QED
    BY <2>1, <2>2, <2>3, <2>4
<1>5. TreeOK(W)' /\ MergeOK(W)' /\ ExtractionsOK(W)' /\ processed' = Nodes'
  BY <1>1, <1>2, <1>4, ConversionFrame
<1> QED
  BY <1>4, <1>5 DEF InConvert

LEMMA StutterKeeps ==
  ASSUME IInv, UNCHANGED vars
  PROVE  IInv'
<1>1. /\ phase' = phase /\ graph' = graph /\ trees' = trees /\ tree' = tree /\ cursor' = cursor
      /\ stack' = stack /\ child' = child /\ parent' = parent /\ idx_map' = idx_map
      /\ processed' = processed /\ extractions' = extractions /\ line' = line /\ pii' = pii
  BY DEF vars, edges, gvn, output
<1>2. Nodes' = Nodes /\ \A i : Ar(i)' = Ar(i)
  BY <1>1 DEF Nodes, Ar
<1>3. CASE Unpicked
  BY <1>1, <1>3 DEF IInv, Unpicked
<1>4. CASE \E W : PickedOK(W)
  <2>1. PICK W : PickedOK(W)
    BY <1>4
  <2>2. TreeOK(W)'
    <3>1. stack' \in Seq(Nodes) /\ cursor' \in Nat \ {0} /\ TreeOK(W)
      BY <1>1, <2>1 DEF PickedOK, TreeOK
    <3> QED
      BY <1>1, <3>1, TreeFrame
  <2>3. EdgesOK(W) => EdgesOK(W)'
    BY <1>1, <1>2 DEF EdgesOK, MapsOK, StackHas
  <2>4. MergeOK(W) => MergeOK(W)'
    BY <1>1, MergeFrame
  <2>5. LeavesOnly(child, W) => LeavesOnly(child, W)'
    BY <1>1, <1>2 DEF LeavesOnly
  <2>6. ExtractionsOK(W) => ExtractionsOK(W)'
    BY <1>1, ExtractionsFrame
  <2>7. ConvOK(W) => ConvOK(W)'
    <3>1. /\ PiiLines' = PiiLines /\ Visited' = Visited /\ \A j : Children(j)' = Children(j)
      BY <1>1, <1>2 DEF Children, PiiLines, Visited
    <3>2. LinesOK => LinesOK'
      BY <1>1, <1>2, <3>1 DEF LinesOK, LineOK
    <3>3. PathOK => PathOK'
      BY <1>1, <1>2, <3>1 DEF PathOK
    <3>4. ReachedOK => ReachedOK'
      BY <1>1, <1>2, <3>1 DEF ReachedOK
    <3>5. BuffersOK(W) => BuffersOK(W)'
      BY <1>1, <1>2, <3>1 DEF BuffersOK, SameBuffers
    <3> QED
      BY <1>1, <3>2, <3>3, <3>4, <3>5 DEF ConvOK
  <2>8. InEdges(W) => InEdges(W)'
    BY <1>1, <2>3 DEF InEdges, NoLines
  <2>9. InLeaves(W) => InLeaves(W)'
    BY <1>1, <2>4, <2>5 DEF InLeaves, NoLines
  <2>10. InNumber(W) => InNumber(W)'
    BY <1>1, <2>4, <2>6 DEF InNumber, NoLines
  <2>11. InChoose(W) => InChoose(W)'
    BY <1>1, <1>2, <2>4, <2>6 DEF InChoose, NoLines
  <2>12. InConvert(W) => InConvert(W)'
    BY <1>1, <1>2, <2>4, <2>6, <2>7 DEF InConvert
  <2>13. PickedOK(W)'
    BY <1>1, <2>1, <2>2, <2>8, <2>9, <2>10, <2>11, <2>12 DEF PickedOK
  <2> QED
    BY <1>1, <2>13 DEF IInv
<1> QED
  BY <1>3, <1>4 DEF IInv

LEMMA StepKeeps ==
  ASSUME IInv, Step
  PROVE  IInv'
<1>1. Typed(graph) /\ Placed(graph)
  BY DEF IInv
<1>2. graph' = graph
  BY DEF Step, PickTree, Edge, EdgesEnd, Leaf, LeavesEnd, Number, NumberEnds, PickExtraction,
     Descend, AddNode, ConvertEnds
<1>3. CASE Unpicked
  <2>1. PickTree
    BY <1>3 DEF Unpicked, Step, PickTree, Edge, EdgesEnd, Leaf, LeavesEnd, Number, NumberEnds,
       PickExtraction, Descend, AddNode, ConvertEnds
  <2>2. \E W : PickedOK(W)'
    BY <1>1, <1>3, <2>1, PickTreeStep
  <2> QED
    BY <1>1, <1>2, <2>2 DEF IInv
<1>4. CASE \E W : PickedOK(W)
  <2>1. PICK W : PickedOK(W)
    BY <1>4
  <2>2. TreeOK(W) /\ trees = {}
    BY <2>1 DEF PickedOK
  <2>3. ~PickTree
    BY <2>2 DEF PickTree
  <2>4. trees' = {}
    BY <2>2, <2>3 DEF Step, Edge, EdgesEnd, Leaf, LeavesEnd, Number, NumberEnds, PickExtraction,
       Descend, AddNode, ConvertEnds
  <2>5. CASE InEdges(W)
    <3>1. Edge \/ EdgesEnd
      BY <2>3, <2>5 DEF InEdges, Step, Leaf, LeavesEnd, Number, NumberEnds, PickExtraction,
         Descend, AddNode, ConvertEnds
    <3>2. CASE Edge
      <4>1. TreeOK(W)' /\ EdgesOK(W)'
        BY <1>1, <2>2, <2>5, <3>2, EdgeStep DEF InEdges
      <4>2. InEdges(W)'
        BY <2>5, <3>2, <4>1 DEF InEdges, Edge, gvn, output, NoLines
      <4> QED
        BY <4>1, <4>2, <1>1, <1>2, <2>4 DEF IInv, PickedOK
    <3>3. CASE EdgesEnd
      <4>1. TreeOK(W)' /\ InLeaves(W)'
        BY <1>1, <2>2, <2>5, <3>3, EdgesEndStep
      <4> QED
        BY <1>1, <1>2, <2>4, <4>1 DEF IInv, PickedOK
    <3> QED
      BY <3>1, <3>2, <3>3
  <2>6. CASE InLeaves(W)
    <3>1. Leaf \/ LeavesEnd
      BY <2>3, <2>6 DEF InLeaves, Step, Edge, EdgesEnd, Number, NumberEnds, PickExtraction,
         Descend, AddNode, ConvertEnds
    <3>2. TreeOK(W)' /\ (InLeaves(W)' \/ InNumber(W)')
      BY <1>1, <2>2, <2>6, <3>1, LeafStep, LeavesEndStep
    <3> QED
      BY <1>1, <1>2, <2>4, <3>2 DEF IInv, PickedOK
  <2>7. CASE InNumber(W)
    <3>1. Number \/ NumberEnds
      BY <2>3, <2>7 DEF InNumber, Step, Edge, EdgesEnd, Leaf, LeavesEnd, PickExtraction,
         Descend, AddNode, ConvertEnds
    <3>2. TreeOK(W)' /\ (InNumber(W)' \/ InChoose(W)')
      BY <1>1, <2>2, <2>7, <3>1, NumberStep, NumberEndsStep
    <3> QED
      BY <1>1, <1>2, <2>4, <3>2 DEF IInv, PickedOK
  <2>8. CASE InChoose(W) \/ InConvert(W)
    <3>1. PickExtraction \/ Descend \/ AddNode \/ ConvertEnds
      BY <2>3, <2>8 DEF InChoose, InConvert, Step, Edge, EdgesEnd, Leaf, LeavesEnd, Number,
        NumberEnds
    <3>2. TreeOK(W)' /\ InConvert(W)'
      BY <1>1, <2>2, <2>8, <3>1, ConversionStep
    <3> QED
      BY <1>1, <1>2, <2>4, <3>2 DEF IInv, PickedOK
  <2> QED
    BY <2>1, <2>5, <2>6, <2>7, <2>8 DEF PickedOK
<1> QED
  BY <1>3, <1>4 DEF IInv

LEMMA Inductive == Spec => []IInv
<1>1. Init => IInv
  BY InitIsGood
<1>2. IInv /\ [Next]_vars => IInv'
  <2> SUFFICES ASSUME IInv, [Next]_vars PROVE IInv'
    OBVIOUS
  <2>1. CASE Step
    BY <2>1, StepKeeps
  <2>2. CASE UNCHANGED vars
    BY <2>2, StutterKeeps
  <2> QED
    BY <2>1, <2>2 DEF Next, Finished
<1> QED
  BY <1>1, <1>2, PTL DEF Spec

-----------------------------------------------------------------------------
(* The theorems.                                                           *)

\* Where the phases have edges, the tree has a shape that they fit.
Merging(W) == TreeOK(W) /\ MergeOK(W)

LEMMA HasMerging ==
  ASSUME IInv, HasEdges
  PROVE  Typed(graph) /\ \E W : Merging(W)
<1>1. Typed(graph) /\ \E W : PickedOK(W)
  BY DEF IInv, HasEdges, Unpicked
<1>2. PICK W : PickedOK(W)
  BY <1>1
<1>3. TreeOK(W) /\ MergeOK(W)
  BY <1>2 DEF PickedOK, HasEdges, InEdges, InLeaves, InNumber, InChoose, InConvert
<1> QED
  BY <1>1, <1>3 DEF Merging

LEMMA HasConverted ==
  ASSUME IInv, Converted
  PROVE  Typed(graph) /\ Placed(graph) /\ \E W : TreeOK(W) /\ InConvert(W)
<1>1. Typed(graph) /\ Placed(graph) /\ \E W : PickedOK(W)
  BY DEF IInv, Converted, Unpicked
<1>2. PICK W : PickedOK(W)
  BY <1>1
<1>3. TreeOK(W) /\ InConvert(W)
  BY <1>2 DEF PickedOK, Converted, InEdges, InLeaves, InNumber, InChoose, InConvert
<1> QED
  BY <1>1, <1>3

\* A function from 1 .. n is a sequence.
LEMMA MapIsSeq ==
  ASSUME NEW n \in Nat, NEW S, NEW f \in [1 .. n -> S]
  PROVE  f \in Seq(S)
OBVIOUS

LEMMA TreesAreTyped ==
  ASSUME NEW g, Typed(g), Placed(g), NEW lim \in Nat
  PROVE  Trees(g, lim) \subseteq Seq(ENodes(g))
<1> SUFFICES ASSUME NEW t \in Trees(g, lim) PROVE t \in Seq(ENodes(g))
  OBVIOUS
<1>1. PICK W : IsTree(g, g.root, HBM, t, W)
  BY TreesHaveShapes
<1> QED
  BY <1>1 DEF IsTree, IsShape

LEMMA SeqOfBigger ==
  ASSUME NEW S, NEW T, S \subseteq T, NEW s \in Seq(S)
  PROVE  s \in Seq(T)
OBVIOUS

\* Every variable has its type, for every family of e-graphs and every limit.
THEOREM TypeCorrect == Spec => []TypeOK
<1>1. IInv => TypeOK
  <2> SUFFICES ASSUME IInv PROVE TypeOK
    OBVIOUS
  <2>1. Typed(graph) /\ Placed(graph)
    BY DEF IInv
  <2>2. CASE Unpicked
    <3>1. trees \subseteq Seq(ENodes(graph))
      BY <2>1, <2>2, LimitAssumption, TreesAreTyped DEF Unpicked
    <3>2. phase \in Phases
      BY <2>2 DEF Unpicked, Phases
    <3>3. \A S : <<>> \in Seq(S)
      OBVIOUS
    <3>4. DOMAIN <<>> = {}
      OBVIOUS
    <3> QED
      BY <2>2, <3>1, <3>2, <3>3, <3>4 DEF Unpicked, TypeOK
  <2>3. CASE \E W : PickedOK(W)
    <3>1. PICK W : PickedOK(W)
      BY <2>3
    <3>2. TreeOK(W) /\ trees = {}
      BY <3>1 DEF PickedOK
    <3>3. /\ tree \in Seq(ENodes(graph)) /\ Nodes = 1 .. Len(tree) /\ Len(tree) \in Nat
          /\ cursor \in Nat \ {0} /\ stack \in Seq(Nodes)
          /\ child \in [Nodes -> Seq(Nodes)] /\ parent \in [Nodes -> Nodes \cup {0}]
      BY <2>1, <3>2, NodesOfTree DEF TreeOK
    <3>4. child \in Seq(Seq(Nodes)) /\ parent \in Seq(Nodes \cup {0})
      BY <3>3, MapIsSeq
    <3>5. phase \in Phases
      BY <3>1 DEF PickedOK, InEdges, InLeaves, InNumber, InChoose, InConvert, Phases
    <3>6. \A S : <<>> \in Seq(S)
      OBVIOUS
    <3>7. DOMAIN <<>> = {}
      OBVIOUS
    <3>8. /\ processed \subseteq Nodes /\ DOMAIN idx_map \subseteq ENodes(graph)
          /\ \A n \in DOMAIN idx_map : idx_map[n] \in Nodes
      <4>1. CASE InEdges(W)
        BY <3>7, <4>1 DEF InEdges
      <4>2. CASE MergeOK(W)
        <5>1. /\ processed \subseteq Nodes /\ DOMAIN idx_map = {tree[i] : i \in processed}
              /\ \A n \in DOMAIN idx_map : idx_map[n] \in processed
          BY <4>2 DEF MergeOK, NumbersOK
        <5>2. \A i \in Nodes : tree[i] \in ENodes(graph)
          BY <3>3
        <5> QED
          BY <5>1, <5>2
      <4> QED
        BY <3>1, <4>1, <4>2 DEF PickedOK, InLeaves, InNumber, InChoose, InConvert
    <3>9. extractions \in Seq(Seq(Seq(Nodes)))
      <4>1. CASE extractions = <<>>
        BY <3>6, <4>1
      <4>2. CASE ExtractionsOK(W)
        <5>1. extractions \in Seq([Nodes -> Seq(Nodes)])
          BY <4>2 DEF ExtractionsOK
        <5>2. [Nodes -> Seq(Nodes)] \subseteq Seq(Seq(Nodes))
          BY <3>3, MapIsSeq
        <5> QED
          BY <5>1, <5>2, SeqOfBigger
      <4> QED
        BY <3>1, <4>1, <4>2 DEF PickedOK, InEdges, InLeaves, InNumber, InChoose, InConvert
    <3>10. /\ line \in Seq(Nat)
           /\ pii \in Seq([node : ENodes(graph), buffer : Buffers, rhs : Seq(Nat)])
      <4>1. CASE NoLines
        BY <3>6, <4>1 DEF NoLines
      <4>2. CASE ConvOK(W)
        <5>1. line \in [Nodes -> Nat] /\ pii \in Seq(PiiLines)
          BY <4>2 DEF ConvOK, LinesOK
        <5>2. line \in Seq(Nat)
          BY <3>3, <5>1, MapIsSeq
        <5> QED
          BY <5>1, <5>2 DEF PiiLines
      <4> QED
        BY <3>1, <4>1, <4>2 DEF PickedOK, InEdges, InLeaves, InNumber, InChoose, InConvert
    <3>11. trees \subseteq Seq(ENodes(graph))
      BY <3>2
    <3> QED
      BY <3>3, <3>4, <3>5, <3>8, <3>9, <3>10, <3>11 DEF TypeOK
  <2> QED
    BY <2>2, <2>3 DEF IInv
<1> QED
  BY <1>1, Inductive, PTL

\* get_extraction_trees delivers all trees within the limit, and no other:
\* what is built from the leaves up in rounds is what is found from the root
\* down with the limit handed on.
THEOREM SearchIsExhaustive == Spec => []FindsEveryTree
<1>1. IInv => FindsEveryTree
  <2> SUFFICES ASSUME IInv, phase \in {"pick", "none"} PROVE trees = AllTrees(graph, Limit)
    BY DEF FindsEveryTree
  <2>1. Typed(graph) /\ Unpicked
    BY DEF IInv, PickedOK, InEdges, InLeaves, InNumber, InChoose, InConvert
  <2> QED
    BY <2>1, LimitAssumption, TreesAreAll DEF Unpicked
<1> QED
  BY <1>1, Inductive, PTL

\* After get_edges, and after every merge, the children of a node are nodes of
\* the classes of its operands.
THEOREM EdgesFollowTheTree == Spec => []ChildrenAreOperands
<1>1. IInv => ChildrenAreOperands
  <2> SUFFICES ASSUME IInv, HasEdges, NEW i \in Nodes
               PROVE  /\ Len(child[i]) = Len(EN(i).kids)
                      /\ \A k \in DOMAIN child[i] : tree[child[i][k]][1] = EN(i).kids[k]
    BY DEF ChildrenAreOperands
  <2>1. PICK W : Typed(graph) /\ Merging(W)
    BY HasMerging
  <2>2. TreeOK(W) /\ Keeps(child, W)
    BY <2>1 DEF Merging, MergeOK
  <2>3. /\ Nodes = 1 .. Len(tree) /\ IsShape(graph, tree, W) /\ Ar(i) \in Nat
    BY <2>1, <2>2, NodesOfTree
  <2>4. /\ child[i] \in Seq(Nodes) /\ Len(child[i]) = Ar(i)
        /\ \A k \in 1 .. Ar(i) : tree[child[i][k]] = tree[W.kid[i][k]]
    BY <2>2 DEF Keeps
  <2>5. DOMAIN child[i] = 1 .. Ar(i)
    BY <2>4
  <2>6. \A k \in 1 .. Ar(i) : tree[W.kid[i][k]][1] = EN(i).kids[k]
    BY <2>3 DEF IsShape, NodeOK, KidOK, Ar, EN
  <2>7. Ar(i) = Len(EN(i).kids)
    BY DEF Ar, Arity, EN
  <2> QED
    BY <2>4, <2>5, <2>6, <2>7
<1> QED
  BY <1>1, Inductive, PTL

\* A node is among the children of its parent whatever was merged before:
\* position(..).unwrap() never fails.
THEOREM UnwrapNeverFails == Spec => []ParentsKnowTheirChildren
<1>1. IInv => ParentsKnowTheirChildren
  <2> SUFFICES ASSUME IInv, HasEdges PROVE Listed
    BY DEF ParentsKnowTheirChildren, Listed
  <2>1. PICK W : Merging(W)
    BY HasMerging
  <2> QED
    BY <2>1 DEF Merging, TreeOK
<1> QED
  BY <1>1, Inductive, PTL

\* The while loop of get_extractions always has a node to take: of those that
\* are left, the last one waits for none.
THEOREM MergingNeverStuck == Spec => []SomeNodeIsReady
<1>1. IInv => SomeNodeIsReady
  <2> SUFFICES ASSUME IInv, phase = "number", processed # Nodes
               PROVE  \E i \in Nodes : IsReady(i)
    BY DEF SomeNodeIsReady
  <2>1. PICK W : Typed(graph) /\ Merging(W)
    BY HasMerging DEF HasEdges
  <2>2. TreeOK(W) /\ Keeps(child, W) /\ Forward /\ processed \subseteq Nodes
    BY <2>1 DEF Merging, MergeOK, NumbersOK
  <2>3. Nodes = 1 .. Len(tree) /\ Len(tree) \in Nat
    BY <2>1, <2>2, NodesOfTree
  <2> DEFINE Left == Nodes \ processed
  <2>4. Left \in SUBSET (0 .. Len(tree)) /\ Left # {}
    <3>1. processed # Nodes
      OBVIOUS
    <3>2. Left # {}
      BY <2>2, <3>1
    <3>3. Left \in SUBSET (0 .. Len(tree))
      BY <2>3
    <3> QED
      BY <3>2, <3>3
  <2> HIDE DEF Left
  <2>5. PICK i \in Left : \A j \in Left : j <= i
    BY <2>3, <2>4, GreatestElement
  <2>6. i \in Nodes /\ i \notin processed
    BY DEF Left
  <2>7. DOMAIN child[i] = 1 .. Ar(i) /\ \A k \in 1 .. Ar(i) : child[i][k] \in Nodes
    <3>1. child[i] \in Seq(Nodes) /\ Len(child[i]) = Ar(i)
      BY <2>2, <2>6 DEF Keeps
    <3> QED
      BY <3>1
  <2>8. ASSUME NEW k \in DOMAIN child[i] PROVE child[i][k] \in processed
    <3> DEFINE x == child[i][k]
    <3>1. x \in Nodes
      BY <2>7
    <3>2. x > i \/ x \in processed
      BY <2>2, <2>6, <2>7 DEF Forward
    <3>3. x \in Left => x <= i
      BY <2>5
    <3> HIDE DEF x
    <3>4. x \in processed
      <4> SUFFICES ASSUME x \notin processed PROVE FALSE
        OBVIOUS
      <4>1. x \in Left
        BY <3>1 DEF Left
      <4> QED
        BY <2>3, <2>6, <3>1, <3>2, <3>3, <4>1
    <3> QED
      BY <3>4 DEF x
  <2> QED
    BY <2>6, <2>8 DEF IsReady
<1> QED
  BY <1>1, Inductive, PTL

-----------------------------------------------------------------------------
(* The graphs.                                                             *)

\* Each line is that of a node whose children have theirs.
LEMMA LineOfNode ==
  ASSUME Typed(graph), NEW W, TreeOK(W), InConvert(W), NEW t \in DOMAIN pii
  PROVE  \E i \in Nodes : line[i] = t /\ LineOK(i)
<1>1. LinesOK
  BY DEF InConvert, ConvOK
<1>2. pii \in Seq(PiiLines)
  BY <1>1 DEF LinesOK
<1>3. t \in 1 .. Len(pii) /\ t # 0
  BY <1>2
<1>4. PICK i \in Nodes : line[i] = t
  BY <1>1, <1>3 DEF LinesOK
<1> QED
  BY <1>1, <1>3, <1>4 DEF LinesOK

LEMMA OperandsOfLine ==
  ASSUME Typed(graph), NEW W, TreeOK(W), InConvert(W), NEW i \in Nodes, LineOK(i),
         NEW k \in 1 .. Ar(i)
  PROVE  /\ Children(i)[k] \in Nodes /\ tree[Children(i)[k]] = tree[W.kid[i][k]]
         /\ line[Children(i)[k]] # 0 /\ LineOK(Children(i)[k])
         /\ pii[line[i]].rhs[k] = line[Children(i)[k]]
<1>1. ExtractionsOK(W) /\ cursor \in DOMAIN extractions /\ LinesOK
  BY DEF InConvert, ConvOK
<1>2. Children(i)[k] \in Nodes /\ tree[Children(i)[k]] = tree[W.kid[i][k]]
  BY <1>1, ChildrenOf
<1>3. line[Children(i)[k]] # 0 /\ pii[line[i]].rhs[k] = line[Children(i)[k]]
  BY DEF LineOK
<1> QED
  BY <1>1, <1>2, <1>3 DEF LinesOK

\* dfs comes out of a node after it has come out of all its children, so
\* add_node's map passes none over; the root comes last.
THEOREM LinesAreComplete == Spec => []GraphsComplete
<1>1. IInv => GraphsComplete
  <2> SUFFICES ASSUME IInv, phase = "done"
               PROVE  /\ \A t \in DOMAIN pii :
                           LET en == At(graph, pii[t].node) IN
                           /\ Len(pii[t].rhs) = Len(en.kids)
                           /\ \A k \in DOMAIN pii[t].rhs : pii[pii[t].rhs[k]].node[1] = en.kids[k]
                      /\ pii[Len(pii)].node[1] = graph.root
    BY DEF GraphsComplete
  <2>1. PICK W : Typed(graph) /\ TreeOK(W) /\ InConvert(W)
    BY HasConverted DEF Converted
  <2>2. IsShape(graph, tree, W) /\ Nodes = 1 .. Len(tree) /\ 1 \in Nodes /\ tree[1][1] = graph.root
    <3>1. tree[1][1] = graph.root
      BY <2>1 DEF TreeOK, IsTree
    <3> QED
      BY <2>1, <3>1, NodesOfTree
  <2>3. LinesOK /\ stack = <<>> /\ line[1] = Len(pii) /\ Len(pii) # 0
    BY <2>1 DEF InConvert, ConvOK, PathOK
  <2>4. ASSUME NEW t \in DOMAIN pii
        PROVE  LET en == At(graph, pii[t].node) IN
               /\ Len(pii[t].rhs) = Len(en.kids)
               /\ \A k \in DOMAIN pii[t].rhs : pii[pii[t].rhs[k]].node[1] = en.kids[k]
    <3>1. PICK i \in Nodes : line[i] = t /\ LineOK(i)
      BY <2>1, LineOfNode
    <3>2. pii[t].node = tree[i] /\ Len(pii[t].rhs) = Ar(i)
      BY <3>1 DEF LineOK
    <3>3. At(graph, pii[t].node) = EN(i) /\ Ar(i) = Len(EN(i).kids)
      BY <3>2 DEF EN, Ar, Arity
    <3>4. DOMAIN pii[t].rhs = 1 .. Ar(i)
      <4>1. pii \in Seq(PiiLines)
        BY <2>3 DEF LinesOK
      <4>2. pii[t] \in PiiLines
        BY <4>1
      <4>3. pii[t].rhs \in Seq(Nat)
        BY <4>2 DEF PiiLines
      <4> QED
        BY <3>2, <4>3
    <3>5. ASSUME NEW k \in 1 .. Ar(i) PROVE pii[pii[t].rhs[k]].node[1] = EN(i).kids[k]
      <4> DEFINE c == Children(i)[k]
      <4>1. /\ c \in Nodes /\ tree[c] = tree[W.kid[i][k]] /\ LineOK(c) /\ pii[t].rhs[k] = line[c]
        BY <2>1, <3>1, OperandsOfLine
      <4> HIDE DEF c
      <4>2. pii[line[c]].node = tree[c]
        BY <4>1 DEF LineOK
      <4>3. tree[W.kid[i][k]][1] = EN(i).kids[k]
        BY <2>2 DEF IsShape, NodeOK, KidOK, Ar, EN
      <4> QED
        BY <4>1, <4>2, <4>3
    <3> QED
      BY <3>2, <3>3, <3>4, <3>5
  <2>5. pii[Len(pii)].node[1] = graph.root
    <3>1. LineOK(1)
      BY <2>2, <2>3 DEF LinesOK
    <3> QED
      BY <2>2, <2>3, <3>1 DEF LineOK
  <2> QED
    BY <2>4, <2>5
<1> QED
  BY <1>1, Inductive, PTL

\* When the nodes that have taken the places of operands deliver where these
\* do, the graph reads right.
LEMMA SameBuffersReadRight ==
  ASSUME Typed(graph), NEW W, TreeOK(W), InConvert(W), SameBuffers(extractions[cursor], W)
  PROVE  ReadsRight
<1>1. /\ phase # "panic" /\ \A i \in Nodes : line[i] # 0 => pii[line[i]].buffer = W.buf[i]
  BY DEF InConvert, ConvOK, BuffersOK
<1>2. IsShape(graph, tree, W) /\ Nodes = 1 .. Len(tree)
  BY NodesOfTree
<1>3. ASSUME NEW t \in DOMAIN pii, NEW k \in DOMAIN pii[t].rhs
      PROVE  pii[pii[t].rhs[k]].buffer = ReadsFrom(At(graph, pii[t].node), k, pii[t].buffer)
  <2>1. PICK i \in Nodes : line[i] = t /\ LineOK(i)
    BY LineOfNode
  <2>2. line[i] # 0 /\ pii[t].node = tree[i] /\ Len(pii[t].rhs) = Ar(i)
    BY <2>1 DEF LineOK
  <2>3. k \in 1 .. Ar(i)
    <3>1. pii \in Seq(PiiLines)
      BY DEF InConvert, ConvOK, LinesOK
    <3>2. pii[t] \in PiiLines
      BY <3>1
    <3>3. pii[t].rhs \in Seq(Nat)
      BY <3>2 DEF PiiLines
    <3> QED
      BY <2>2, <3>3
  <2> DEFINE c == Children(i)[k]
  <2>4. c \in Nodes /\ line[c] # 0 /\ pii[t].rhs[k] = line[c]
    BY <2>1, <2>3, OperandsOfLine
  <2>5. W.buf[c] = W.buf[W.kid[i][k]]
    BY <2>3 DEF SameBuffers, Children
  <2> HIDE DEF c
  <2>6. W.buf[W.kid[i][k]] = ReadsFrom(EN(i), k, W.buf[i])
    BY <1>2, <2>3 DEF IsShape, NodeOK, KidOK, Ar, EN
  <2>7. pii[t].buffer = W.buf[i] /\ pii[line[c]].buffer = W.buf[c]
    BY <1>1, <2>1, <2>2, <2>4
  <2> QED
    BY <2>2, <2>4, <2>5, <2>6, <2>7 DEF EN
<1> QED
  BY <1>1, <1>3 DEF ReadsRight

\* Leaves of the same e-node deliver in the same buffer.
LEMMA LeavesDeliverAlike ==
  ASSUME Typed(graph), Placed(graph), NEW W, TreeOK(W), NEW i \in Nodes, NEW j \in Nodes,
         tree[i] = tree[j], Ar(i) = 0
  PROVE  W.buf[i] = W.buf[j]
<1>1. IsShape(graph, tree, W) /\ Nodes = 1 .. Len(tree) /\ tree \in Seq(ENodes(graph))
  BY NodesOfTree
<1>2. tree[i] \in ENodes(graph)
  BY <1>1
<1>3. PICK c \in Classes(graph) : \E n \in DOMAIN graph.nodes[c] : tree[i] = <<c, n>>
  BY <1>2 DEF ENodes
<1>4. PICK n \in DOMAIN graph.nodes[c] : tree[i] = <<c, n>>
  BY <1>3
<1>5. EN(i) = graph.nodes[c][n] /\ EN(j) = graph.nodes[c][n]
  BY <1>4 DEF EN, At
<1>6. Len(graph.nodes[c][n].kids) = 0
  BY <1>5 DEF Ar, Arity, EN
<1>7. \A l \in Nodes : W.buf[l] \in Buffers /\ Supports(EN(l), W.buf[l])
  BY <1>1 DEF IsShape, NodeOK, EN
<1>8. graph.nodes[c][n].bufs[1] = W.buf[i] /\ graph.nodes[c][n].bufs[1] = W.buf[j]
  BY <1>5, <1>6, <1>7 DEF Placed
<1> QED
  BY <1>8

\* When leaves only have been merged, all read what they read.
LEMMA LeavesReadAlike ==
  ASSUME Typed(graph), Placed(graph), NEW W, TreeOK(W), NEW ch, Keeps(ch, W), LeavesOnly(ch, W)
  PROVE  SameBuffers(ch, W)
<1> SUFFICES ASSUME NEW i \in Nodes, NEW k \in 1 .. Ar(i)
             PROVE  W.buf[ch[i][k]] = W.buf[W.kid[i][k]]
  BY DEF SameBuffers
<1>1. ch[i][k] = W.kid[i][k] \/ Ar(W.kid[i][k]) = 0
  BY DEF LeavesOnly
<1>2. CASE Ar(W.kid[i][k]) = 0
  <2>1. W.kid[i][k] \in Nodes
    <3>1. KidsIn(graph, tree, W, i) /\ Nodes = 1 .. Len(tree)
      BY NodesOfTree, ShapeNumbers
    <3> QED
      BY <3>1 DEF KidsIn, Ar
  <2>2. ch[i] \in Seq(Nodes) /\ Len(ch[i]) = Ar(i) /\ tree[ch[i][k]] = tree[W.kid[i][k]]
    BY DEF Keeps
  <2>3. ch[i][k] \in Nodes
    BY <2>2
  <2> DEFINE x == ch[i][k]
             y == W.kid[i][k]
  <2>4. x \in Nodes /\ y \in Nodes /\ tree[y] = tree[x] /\ Ar(y) = 0
    BY <1>2, <2>1, <2>2, <2>3
  <2> HIDE DEF x, y
  <2>5. W.buf[y] = W.buf[x]
    BY <2>4, LeavesDeliverAlike
  <2> QED
    BY <2>5 DEF x, y
<1> QED
  BY <1>1, <1>2

\* Every tree gives at least one graph whose instructions read their operands
\* where these are: the first, in which equal leaves alone have been merged.
THEOREM MergedLeavesAreHarmless == Spec => []FirstGraphReadsRight
<1>1. IInv => FirstGraphReadsRight
  <2> SUFFICES ASSUME IInv, Converted, cursor = 1 PROVE ReadsRight
    BY DEF FirstGraphReadsRight
  <2>1. PICK W : Typed(graph) /\ Placed(graph) /\ TreeOK(W) /\ InConvert(W)
    BY HasConverted
  <2>2. Keeps(extractions[1], W) /\ LeavesOnly(extractions[1], W)
    BY <2>1 DEF InConvert, ConvOK, ExtractionsOK
  <2>3. SameBuffers(extractions[cursor], W)
    BY <2>1, <2>2, LeavesReadAlike
  <2> QED
    BY <2>1, <2>3, SameBuffersReadRight
<1> QED
  BY <1>1, Inductive, PTL

-----------------------------------------------------------------------------
(* The buffers that a tree needs.                                          *)

\* The nodes that are not leaves.
Inner == {j \in Nodes : ~IsLeaf(j)}

\* Where i is an operand in the first extraction.
UsersOf(i) ==
  {u \in Nodes \X (1 .. Len(tree)) :
     u[2] \in DOMAIN extractions[1][u[1]] /\ extractions[1][u[1]][u[2]] = i}

UserOf(i) == CHOOSE u \in UsersOf(i) : TRUE

\* f is what Target is of itself.
IsTarget(f) ==
  f = [i \in Inner |->
         IF i = 1 THEN HBM ELSE ReadsFrom(EN(UserOf(i)[1]), UserOf(i)[2], f[UserOf(i)[1]])]

\* A node has fewer operands before one of them than nodes.
LEMMA KidsAreFar ==
  ASSUME NEW g, Typed(g), NEW t, NEW W, IsShape(g, t, W), NEW p \in 1 .. Len(t),
         NEW k \in 1 .. Arity(g, t[p])
  PROVE  k <= Len(t)
<1> DEFINE m == Arity(g, t[p])
           f == W.kid[p]
           Bad == {l \in 1 .. m : ~(l <= f[l])}
<1>5. Len(t) \in Nat
  BY DEF IsShape
<1>1. m \in Nat /\ Len(t) \in Nat /\ \A l \in 1 .. m : f[l] \in 1 .. Len(t)
  BY <1>5, ShapeNumbers DEF EndsIn, KidsIn
<1>2. \A l \in 1 .. m : \A j \in 1 .. l : f[j] <= f[l] /\ (j # l => f[j] # f[l])
  BY KidsAscend
<1> HIDE DEF m, f
<1>3. Bad = {}
  <2> SUFFICES ASSUME Bad # {} PROVE FALSE
    OBVIOUS
  <2>1. Bad \in SUBSET Nat
    BY <1>1
  <2> HIDE DEF Bad
  <2>2. PICK l \in Bad : \A j \in Bad : l <= j
    BY <2>1, LeastElement
  <2>3. l \in 1 .. m /\ ~(l <= f[l])
    BY DEF Bad
  <2>4. f[l] \in 1 .. Len(t)
    BY <1>1, <2>3
  <2>5. l # 1
    BY <1>1, <2>3, <2>4
  <2>6. l - 1 \in 1 .. m /\ l - 1 \in 1 .. l /\ l - 1 # l /\ ~(l <= l - 1)
    BY <1>1, <2>3, <2>5
  <2>7. l - 1 <= f[l - 1]
    BY <2>2, <2>6 DEF Bad
  <2>8. f[l - 1] <= f[l] /\ f[l - 1] # f[l] /\ f[l - 1] \in 1 .. Len(t)
    BY <1>1, <1>2, <2>3, <2>6
  <2> QED
    BY <1>1, <2>3, <2>4, <2>6, <2>7, <2>8
<1>4. k \in 1 .. m
  BY DEF m
<1>6. k <= f[k] /\ f[k] \in 1 .. Len(t)
  BY <1>1, <1>3, <1>4
<1> QED
  BY <1>1, <1>4, <1>6

\* In the first extraction an inner node is an operand where it is in the tree.
UserFits(i, W) ==
  LET u == UserOf(i) IN
  /\ u[1] \in Inner /\ u[1] < i
  /\ W.buf[i] = ReadsFrom(EN(u[1]), u[2], W.buf[u[1]])

LEMMA UserFitsNode ==
  ASSUME Typed(graph), NEW W, TreeOK(W), ExtractionsOK(W), NEW i \in Inner, i # 1
  PROVE  UserFits(i, W)
<1> DEFINE ch == extractions[1]
           u  == UserOf(i)
<1>1. /\ Nodes = 1 .. Len(tree) /\ Len(tree) \in Nat /\ IsShape(graph, tree, W)
      /\ W.end[1] = Len(tree) + 1
      /\ \A j \in Nodes : Ar(j) \in Nat /\ (IsLeaf(j) <=> Ar(j) = 0)
  BY NodesOfTree
<1>2. Keeps(ch, W) /\ LeavesOnly(ch, W)
  BY DEF ExtractionsOK
<1>3. i \in 2 .. Len(tree) /\ i \in Nodes /\ Ar(i) # 0
  BY <1>1 DEF Inner
<1>4. \A p \in Nodes : DOMAIN ch[p] = 1 .. Ar(p)
  <2> TAKE p \in Nodes
  <2>1. ch[p] \in Seq(Nodes) /\ Len(ch[p]) = Ar(p)
    BY <1>2 DEF Keeps
  <2> QED
    BY <2>1
<1>5. \A p \in Nodes : \A k \in 1 .. Ar(p) :
        /\ tree[ch[p][k]] = tree[W.kid[p][k]]
        /\ ch[p][k] = W.kid[p][k] \/ Ar(W.kid[p][k]) = 0
  BY <1>2 DEF Keeps, LeavesOnly
<1>6. UsersOf(i) # {}
  <2>1. PICK p \in 1 .. i - 1 : \E k \in 1 .. Arity(graph, tree[p]) : W.kid[p][k] = i
    BY <1>1, <1>3, HasParent
  <2>2. PICK k \in 1 .. Arity(graph, tree[p]) : W.kid[p][k] = i
    BY <2>1
  <2>3. p \in Nodes /\ k \in 1 .. Ar(p)
    BY <1>1, <1>3 DEF Ar
  <2>4. ch[p][k] = i
    BY <1>3, <1>5, <2>2, <2>3
  <2>5. k \in 1 .. Len(tree)
    <3>1. k <= Len(tree)
      BY <1>1, <2>3, KidsAreFar DEF Ar
    <3> QED
      BY <1>1, <2>3, <3>1
  <2>6. k \in DOMAIN ch[p]
    BY <1>4, <2>3
  <2> DEFINE w == <<p, k>>
  <2>7. w \in Nodes \X (1 .. Len(tree)) /\ w[1] = p /\ w[2] = k
    BY <2>3, <2>5
  <2> HIDE DEF w
  <2>8. w \in UsersOf(i)
    BY <2>4, <2>6, <2>7 DEF UsersOf
  <2> QED
    BY <2>8
<1>7. u \in UsersOf(i)
  BY <1>6 DEF UserOf
<1> HIDE DEF u
<1>8. u[1] \in Nodes /\ u[2] \in DOMAIN ch[u[1]] /\ ch[u[1]][u[2]] = i
  BY <1>7 DEF UsersOf
<1> DEFINE p == u[1]
           k == u[2]
<1>9. p \in Nodes /\ k \in 1 .. Ar(p) /\ ch[p][k] = i
  BY <1>4, <1>8
<1>10. UserOf(i) = u /\ u[1] = p /\ u[2] = k
  BY DEF u
<1> HIDE DEF p, k
<1>11. W.kid[p][k] = i
  <2> SUFFICES ASSUME Ar(W.kid[p][k]) = 0 PROVE FALSE
    BY <1>5, <1>9
  <2>1. tree[i] = tree[W.kid[p][k]]
    BY <1>5, <1>9
  <2>2. Ar(i) = Ar(W.kid[p][k])
    BY <2>1 DEF Ar
  <2> QED
    BY <1>3, <2>2
<1>12. KidOK(graph, tree, W, p, k)
  BY <1>1, <1>9 DEF IsShape, NodeOK, Ar
<1>13. i \in p + 1 .. W.end[p] - 1 /\ W.buf[i] = ReadsFrom(EN(p), k, W.buf[p])
  BY <1>11, <1>12 DEF KidOK, EN
<1>14. p < i
  <2> DEFINE e == W.end[p]
  <2>1. i \in p + 1 .. e - 1 /\ p \in Nat
    BY <1>1, <1>9, <1>13
  <2> HIDE DEF e
  <2> QED
    BY <2>1
<1>15. p \in Inner
  BY <1>1, <1>9 DEF Inner
<1> QED
  BY <1>10, <1>13, <1>14, <1>15 DEF UserFits

\* Target is the buffers of the shape.
LEMMA TargetIsBuffers ==
  ASSUME Typed(graph), NEW W, TreeOK(W), ExtractionsOK(W)
  PROVE  DOMAIN Target = Inner /\ \A i \in Inner : Target[i] = W.buf[i]
<1> DEFINE F == [i \in Inner |-> W.buf[i]]
           Bad == {i \in Inner : Target[i] # W.buf[i]}
<1>1. Target = CHOOSE f : IsTarget(f)
  BY DEF Target, IsTarget, Inner, UsersOf, UserOf
<1>2. \A i \in Inner : i # 1 => UserFits(i, W)
  BY UserFitsNode
<1>3. W.buf[1] = HBM /\ Nodes = 1 .. Len(tree) /\ Len(tree) \in Nat
  BY NodesOfTree DEF TreeOK, IsTree
<1>4. IsTarget(F)
  <2>1. ASSUME NEW i \in Inner
        PROVE  W.buf[i] = IF i = 1 THEN HBM
                          ELSE ReadsFrom(EN(UserOf(i)[1]), UserOf(i)[2], F[UserOf(i)[1]])
    <3>1. CASE i = 1
      BY <1>3, <3>1
    <3>2. CASE i # 1
      <4>1. /\ UserOf(i)[1] \in Inner
            /\ W.buf[i] = ReadsFrom(EN(UserOf(i)[1]), UserOf(i)[2], W.buf[UserOf(i)[1]])
        BY <1>2, <3>2 DEF UserFits
      <4>2. F[UserOf(i)[1]] = W.buf[UserOf(i)[1]]
        BY <4>1
      <4> QED
        BY <3>2, <4>1, <4>2
    <3> QED
      BY <3>1, <3>2
  <2> QED
    BY <2>1 DEF IsTarget
<1>5. IsTarget(Target)
  <2> HIDE DEF F
  <2> QED
    BY <1>1, <1>4
<1>6. /\ DOMAIN Target = Inner
      /\ \A i \in Inner :
           Target[i] = IF i = 1 THEN HBM
                       ELSE ReadsFrom(EN(UserOf(i)[1]), UserOf(i)[2], Target[UserOf(i)[1]])
  BY <1>5 DEF IsTarget
<1>7. Bad = {}
  <2> SUFFICES ASSUME Bad # {} PROVE FALSE
    OBVIOUS
  <2>1. Bad \in SUBSET Nat
    BY <1>3 DEF Inner
  <2> HIDE DEF Bad
  <2>2. PICK i \in Bad : \A j \in Bad : i <= j
    BY <2>1, LeastElement
  <2>3. i \in Inner /\ i \in Nat /\ Target[i] # W.buf[i]
    BY <2>1 DEF Bad
  <2>4. CASE i = 1
    BY <1>3, <1>6, <2>3, <2>4
  <2>5. CASE i # 1
    <3> DEFINE p == UserOf(i)[1]
    <3>1. p \in Inner /\ p < i /\ W.buf[i] = ReadsFrom(EN(p), UserOf(i)[2], W.buf[p])
      BY <1>2, <2>3, <2>5 DEF UserFits
    <3>2. Target[i] = ReadsFrom(EN(p), UserOf(i)[2], Target[p])
      BY <1>6, <2>3, <2>5
    <3> HIDE DEF p
    <3>3. p \in Nat /\ ~(i <= p)
      BY <1>3, <2>3, <3>1 DEF Inner
    <3>4. Target[p] = W.buf[p]
      BY <2>2, <3>1, <3>3 DEF Bad
    <3> QED
      BY <2>3, <3>1, <3>2, <3>4
  <2> QED
    BY <2>4, <2>5
<1> QED
  BY <1>6, <1>7

\* A tree that needs no e-node in two buffers gives only graphs whose
\* instructions read their operands where these are: e-nodes with different
\* trees under them may be merged there.
THEOREM OneBufferIsEnough == Spec => []OneBufferReadsRight
<1>1. IInv => OneBufferReadsRight
  <2> SUFFICES ASSUME IInv, Converted,
                      \A i, j \in DOMAIN Target : tree[i] = tree[j] => Target[i] = Target[j]
               PROVE  ReadsRight
    BY DEF OneBufferReadsRight
  <2>1. PICK W : Typed(graph) /\ Placed(graph) /\ TreeOK(W) /\ InConvert(W)
    BY HasConverted
  <2>2. ExtractionsOK(W) /\ cursor \in DOMAIN extractions
    BY <2>1 DEF InConvert, ConvOK
  <2> DEFINE ch == extractions[cursor]
  <2>3. Keeps(ch, W)
    BY <2>2 DEF ExtractionsOK
  <2>4. /\ Nodes = 1 .. Len(tree) /\ IsShape(graph, tree, W)
        /\ \A i \in Nodes : Ar(i) \in Nat /\ (IsLeaf(i) <=> Ar(i) = 0)
    BY <2>1, NodesOfTree
  <2>5. \A i, j \in Inner : tree[i] = tree[j] => W.buf[i] = W.buf[j]
    <3>1. DOMAIN Target = Inner /\ \A i \in Inner : Target[i] = W.buf[i]
      BY <2>1, <2>2, TargetIsBuffers
    <3> QED
      BY <3>1
  <2>6. SameBuffers(ch, W)
    <3> SUFFICES ASSUME NEW i \in Nodes, NEW k \in 1 .. Ar(i)
                 PROVE  W.buf[ch[i][k]] = W.buf[W.kid[i][k]]
      BY DEF SameBuffers
    <3> DEFINE x == ch[i][k]
               y == W.kid[i][k]
    <3>1. y \in Nodes
      <4>1. KidsIn(graph, tree, W, i)
        BY <2>1, <2>4, ShapeNumbers
      <4> QED
        BY <2>4, <4>1 DEF KidsIn, Ar
    <3>2. x \in Nodes /\ tree[y] = tree[x]
      <4>1. ch[i] \in Seq(Nodes) /\ Len(ch[i]) = Ar(i) /\ tree[ch[i][k]] = tree[W.kid[i][k]]
        BY <2>3 DEF Keeps
      <4> QED
        BY <4>1
    <3> HIDE DEF x, y
    <3>3. ASSUME Ar(y) = 0 PROVE W.buf[x] = W.buf[y]
      BY <2>1, <3>1, <3>2, <3>3, LeavesDeliverAlike
    <3>4. ASSUME Ar(y) # 0 PROVE W.buf[x] = W.buf[y]
      <4>1. Ar(x) # 0
        BY <3>2, <3>4 DEF Ar
      <4>2. x \in Inner /\ y \in Inner
        BY <2>4, <3>1, <3>2, <3>4, <4>1 DEF Inner
      <4> QED
        BY <2>5, <3>2, <4>2
    <3>5. W.buf[x] = W.buf[y]
      BY <3>3, <3>4
    <3> QED
      BY <3>5 DEF x, y
  <2> QED
    BY <2>1, <2>6, SameBuffersReadRight
<1> QED
  BY <1>1, Inductive, PTL

\* In the last graph no e-node has two lines, but for the root: all nodes are
\* done, so that every child is the node that stands for its e-node.
THEOREM LastGraphIsShared == Spec => []LastGraphShares
<1>1. IInv => LastGraphShares
  <2> SUFFICES ASSUME IInv, phase = "done", cursor = Len(extractions),
                      NEW t \in 1 .. Len(pii) - 1, NEW u \in 1 .. Len(pii) - 1,
                      pii[t].node = pii[u].node
               PROVE  t = u
    BY DEF LastGraphShares
  <2>1. PICK W : Typed(graph) /\ TreeOK(W) /\ InConvert(W)
    BY HasConverted DEF Converted
  <2>2. /\ MergeOK(W) /\ ExtractionsOK(W) /\ processed = Nodes
        /\ LinesOK /\ ReachedOK /\ line[1] = Len(pii) /\ cursor \in DOMAIN extractions
    BY <2>1 DEF InConvert, ConvOK, PathOK
  <2>3. pii \in Seq(PiiLines) /\ Len(pii) \in Nat
    BY <2>2 DEF LinesOK
  <2>4. /\ t \in 1 .. Len(pii) /\ u \in 1 .. Len(pii) /\ t # Len(pii) /\ u # Len(pii)
        /\ t # 0 /\ u # 0
    BY <2>3
  <2>5. t \in DOMAIN pii /\ u \in DOMAIN pii
    BY <2>3, <2>4
  <2>6. extractions[cursor] = child
    BY <2>2 DEF ExtractionsOK
  <2>7. ASSUME NEW i \in Nodes, line[i] # 0, line[i] # Len(pii)
        PROVE  i = idx_map[tree[i]]
    <3>1. i \in Visited /\ i # 1
      BY <2>2, <2>7 DEF Visited
    <3>2. PICK j \in Nodes : \E k \in 1 .. Ar(j) : Children(j)[k] = i
      BY <2>2, <3>1 DEF ReachedOK
    <3>3. PICK k \in 1 .. Ar(j) : child[j][k] = i
      BY <2>6, <3>2 DEF Children
    <3>4. child[j][k] \in processed
      BY <2>2, <3>3
    <3> QED
      BY <2>2, <3>3, <3>4 DEF MergeOK, SharedOK
  <2>8. PICK i \in Nodes : line[i] = t /\ LineOK(i)
    BY <2>1, <2>5, LineOfNode
  <2>9. PICK j \in Nodes : line[j] = u /\ LineOK(j)
    BY <2>1, <2>5, LineOfNode
  <2>10. tree[i] = tree[j]
    BY <2>8, <2>9 DEF LineOK
  <2>11. i = idx_map[tree[i]] /\ j = idx_map[tree[j]]
    BY <2>4, <2>7, <2>8, <2>9
  <2> QED
    BY <2>8, <2>9, <2>10, <2>11
<1> QED
  BY <1>1, Inductive, PTL

=============================================================================
